---------------------------- MODULE MCPaperLedger ----------------------------
(***************************************************************************)
(* PaperLedger on two small markets, checked side by side: one of them is  *)
(* chosen at the start and stays.                                          *)
(***************************************************************************)
EXTENDS PaperLedger

CONSTANTS A, B, bb, fam, none

VARIABLE market

Plan(sym, side, family) ==
  [sym |-> sym, side |-> side, entry |-> 10, family |-> family,
   stop |-> IF side = "LONG" THEN 8 ELSE 12,
   target |-> IF side = "LONG" THEN 18 ELSE 2]

MCPair == {Plan(A, "LONG", bb), Plan(A, "SHORT", fam)}
MCTrio == {Plan(A, "LONG", bb), Plan(A, "SHORT", bb), Plan(B, "LONG", bb)}
MCIntents == MCPair \cup MCTrio
MCTrusted == {bb}
MCPromotable == {fam}

(* No answer; a price that stops longs and fills shorts; one that fills     *)
(* longs; one beyond the long target, which stops shorts.                   *)
MCQuotes == {0, 7, 11, 19}

(* Two sizes that reach the count cap (three of 3.000 fit 9.000) and the     *)
(* notional cap (3.000 and 5.996, which is stored as 6.00).                 *)
CapSizes == {3000, 5996}
MCSizes == {0, 4000} \cup CapSizes

(* Prices move, orders age and the arbiter's tiers change; the caps do not   *)
(* bind.                                                                    *)
Moving == INSTANCE PaperLedger WITH
  Intents <- MCPair, Sizes <- {0, 4000}, MaxTrades <- 2

(* Three plans of a trusted family for two places and a notional that fits   *)
(* one large trade; one price and no time.                                  *)
Crowded == INSTANCE PaperLedger WITH
  Intents <- MCTrio, Quotes <- {19}, Sizes <- CapSizes, Promotable <- {}, MaxClock <- 0

MCInit == Init /\ market \in {"moving", "crowded"}

MCRunStep ==
  \/ market = "moving" /\ Moving!RunStep
  \/ market = "crowded" /\ Crowded!RunStep

MCNext ==
  /\ \/ market = "moving" /\ Moving!Next
     \/ market = "crowded" /\ Crowded!Next
  /\ UNCHANGED market

MCSpec ==
  /\ MCInit /\ [][MCNext]_<<vars, market>>
  /\ WF_vars(MCRunStep) /\ SF_vars(Moving!Tick)

(* WaitingEnds where time passes: an order that never fills does not hold   *)
(* its slot for ever, however often runs die.                               *)
WaitingOrdersEnd == market = "moving" => WaitingEnds
=============================================================================
