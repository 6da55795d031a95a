----------------------------- MODULE MCLiveScan ------------------------------
(***************************************************************************)
(* LiveScan with one or two symbols.  Units: 18 = CAPITAL_USDT, 216 =      *)
(* MAX_TOTAL_NOTIONAL.                                                     *)
(***************************************************************************)
EXTENDS LiveScan

CONSTANTS A, B, loop, loop2, test, none

MCSignal(sym, side) == [sym |-> sym, side |-> side, lev |-> 9, notional |-> 144]
MCTwo == {MCSignal(A, "LONG"), MCSignal(B, "SHORT")}
MCBoth == {MCSignal(A, "LONG"), MCSignal(A, "SHORT")}

(* Nothing set yet. *)
MCUnset == [s \in Syms |-> [d \in Sides |-> 1]]
=============================================================================
