------------------------------ MODULE OrderFlow ------------------------------
(***************************************************************************)
(* ultimate_trader/orderflow_intelligence: from trade prints to windows,   *)
(* and from a window and those before it to a bias, an absorption, an      *)
(* exhaustion, a divergence, a trap, scenarios and a permission.           *)
(*                                                                         *)
(* A flow is a record: the windows from the oldest in the history to the   *)
(* last, the prices then and now, and whether the price is stuck.          *)
(* Quantities are in halves of a unit.  A side stands for what happens to  *)
(* it: LONG_TRAP_RISK is "buy", BULLISH_DIVERGENCE "sell".                 *)
(***************************************************************************)
EXTENDS Integers, Sequences, FiniteSetsExt

Sides == {"buy", "sell"}
Other(s) == IF s = "buy" THEN "sell" ELSE "buy"
If(condition, points) == IF condition THEN points ELSE 0

-----------------------------------------------------------------------------
(* TradeFlowBuffer.get_window, of so many trades of each kind: the side of  *)
(* the aggressor and a quantity.  A trade whose aggressor is unknown has no *)
(* volume of either side, but is a sale to the cumulative delta.            *)
Window(prints) ==
  LET Sum(F(_)) == FoldSet(LAMBDA k, sum : sum + prints[k] * F(k), 0, DOMAIN prints)
      volume == [s \in Sides |-> Sum(LAMBDA k : If(k[1] = s, k[2]))]
  IN [trades |-> Sum(LAMBDA k : 1), large |-> Sum(LAMBDA k : If(k[2] >= 2, 1)), volume |-> volume,
      cumulative |-> Sum(LAMBDA k : IF k[1] = "buy" THEN k[2] ELSE -k[2])]
(* FlowWindow, and what the analyzers are given.                            *)
FlowWindow == [trades : Nat, large : Nat, volume : [Sides -> Nat], cumulative : Int]
IsFlow(f) ==
  /\ f.windows \in Seq(FlowWindow) /\ f.windows # <<>>
  /\ f.price \in Int /\ f.earlier \in Int /\ f.stuck \in BOOLEAN
Total(w) == w.volume["buy"] + w.volume["sell"]
Delta(w) == w.volume["buy"] - w.volume["sell"]

Now(f) == f.windows[Len(f.windows)]
Before(f, n) == f.windows[Len(f.windows) - n]

(* AggressionAnalyzer                                                       *)
Balanced(w) == 10 * (IF Delta(w) < 0 THEN -Delta(w) ELSE Delta(w)) < Total(w)
Aggression(w) ==
  IF w.trades = 0 THEN "unknown" ELSE IF Balanced(w) \/ Total(w) = 0 THEN "balanced"
  ELSE IF Delta(w) > 0 THEN "buy" ELSE "sell"
(* AbsorptionIntelligence: a side with most of the volume moves nothing.    *)
Absorbs(w, s) == 100 * w.volume[s] > 65 * Total(w)
Absorbed(f) ==
  LET w == Now(f)
  IN IF w.trades >= 3 /\ f.stuck /\ \E s \in Sides : Absorbs(w, s)
     THEN CHOOSE s \in Sides : Absorbs(w, s) ELSE "none"
AbsorptionAbove(f, percent) ==
  Absorbed(f) # "none" /\ 100 * Now(f).volume[Absorbed(f)] > percent * Total(Now(f))
(* ExhaustionDetector: half of the volume two windows ago, and still falling. *)
Exhausts(f, s) ==
  /\ Len(f.windows) >= 3 /\ Before(f, 2).volume[s] # 0
  /\ 2 * Now(f).volume[s] < Before(f, 2).volume[s]
  /\ Now(f).volume[s] < Before(f, 1).volume[s]
Exhausted(f) == {s \in Sides : Exhausts(f, s)}
(* DeltaDivergenceDetector: from the first of the history to the last.      *)
Diverges(f, s) ==
  LET price == f.price - f.earlier
      delta == Now(f).cumulative - f.windows[1].cumulative
  IN /\ Len(f.windows) >= 3
     /\ IF s = "buy" THEN price > 0 /\ delta < 0 ELSE price < 0 /\ delta > 0

-----------------------------------------------------------------------------
(* TrapDetector                                                             *)
Weak(w) ==
  /\ w.trades >= 5 /\ w.large <= 1 /\ Total(w) > 0
  /\ 100 * w.volume["buy"] >= 45 * Total(w) /\ 100 * w.volume["buy"] <= 55 * Total(w)
Signals(f, s) ==
  If(Aggression(Now(f)) = s /\ Absorbed(f) = s, 2) + If(Diverges(f, s), 1) + If(Weak(Now(f)), 1)
Traps(f) == {s \in Sides : Signals(f, s) >= 2}
Trap(f) == IF Cardinality(Traps(f)) = 1 THEN CHOOSE s \in Traps(f) : TRUE ELSE "low"
TrapScore(f) ==
  LET w == Now(f)
  IN IF Traps(f) = {} THEN 10 ELSE IF Traps(f) = Sides THEN 30
     ELSE 40 + If(w.trades > 20, 15) + If(w.large > 3, 15) + If(Delta(w) = 0, 10)
BlocksTrade(f) == Trap(f) \in Sides /\ TrapScore(f) > 70

(* OrderFlowScenarioEngine: the scenarios in their order with a probability, *)
(* below 20 % none; sorting keeps the order of equals.                      *)
Genuine(f, s) ==
  10 + If(Aggression(Now(f)) = s, 25) + If(Absorbed(f) = "none", 15)
     + If(Now(f).large > 3, 10) + If(Trap(f) = Other(s), 5)
Passive(f, s) ==
  10 + If(Absorbed(f) = s, 30) + If(Aggression(Now(f)) = s, 10) + If(Trap(f) = s, 10)
Squeeze(f, s) ==
  5 + If(Absorbed(f) = s /\ Aggression(Now(f)) = s, 25)
    + If(Now(f).volume[s] > 0 /\ Now(f).volume[s] < Now(f).volume[Other(s)], 10)
    + If(Trap(f) = s, 15)
Reversal(f) == 5 + If(Cardinality(Exhausted(f)) = 1, 25) + If(Absorbed(f) # "none", 10)
FakeBreakout(f) ==
  5 + If(Trap(f) \in Sides, 25) + If(Aggression(Now(f)) = "balanced", 10)
    + If(Now(f).large <= 1 /\ Now(f).trades > 10, 10)
NoEdge(f) ==
  50 + If(Aggression(Now(f)) = "balanced", 20) + If(Absorbed(f) = "none", 10)
     + If(Now(f).trades < 5, 10)
Scenarios(f) ==
  <<<<"genuine", Genuine(f, "buy")>>, <<"genuine", Genuine(f, "sell")>>,
    <<"passive", Passive(f, "buy")>>, <<"passive", Passive(f, "sell")>>,
    <<"squeeze", Squeeze(f, "sell")>>, <<"squeeze", Squeeze(f, "buy")>>,
    <<"reversal", Reversal(f)>>, <<"fake_breakout", FakeBreakout(f)>>, <<"no_edge", NoEdge(f)>>>>
Dominant(f) ==
  LET all == Scenarios(f)
      best == Min({n \in DOMAIN all : \A k \in DOMAIN all : all[k][2] <= all[n][2]})
  IN all[best][1]

(* InstitutionalOrderFlowReport, with the state's warning flags.            *)
Permission(f, flags) ==
  IF BlocksTrade(f) \/ TrapScore(f) > 70 THEN "BLOCK"
  ELSE IF AbsorptionAbove(f, 80) \/ flags THEN "CAUTION" ELSE "ALLOW"

(* What the code does, where the README speaks of BLOCK_TRADE: no windows   *)
(* made of trades are ever blocked, because what raises a trap's score to   *)
(* 80, four large trades of equal volumes, is what no trap is made of.  And *)
(* of the scenarios squeezes, reversals and fake breakouts never dominate,  *)
(* so that the reason to avoid a fake breakout is never given.              *)
NothingBlocks(f) ==
  /\ \A flags \in BOOLEAN : Permission(f, flags) # "BLOCK"
  /\ Dominant(f) \in {"genuine", "passive", "no_edge"}
=============================================================================
