-------------------------- MODULE MCSelectiveReplay --------------------------
(***************************************************************************)
(* Small instance of the selective replay: three days, the middle one      *)
(* whole, either direction, and candidates of two kinds.                   *)
(***************************************************************************)
EXTENDS SelectiveReplay

(* Good on any day; better ranked but too risky until there is a loss.      *)
MCQualities == {[rank |-> 1, confluence |-> 9, confidence |-> 8, fit |-> TRUE],
                [rank |-> 2, confluence |-> 5, confidence |-> 6, fit |-> TRUE]}

MCDayOf == [k \in 0..MaxCandles |-> (k + 2) \div 5]
=============================================================================
