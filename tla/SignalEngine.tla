---------------------------- MODULE SignalEngine ----------------------------
(***************************************************************************)
(* ultimate_trader/signal_engine: from a signal context to an entry zone,  *)
(* a stop, targets, a quality grade, a gate's verdict and a size, and what *)
(* the paper desk makes of the size.                                       *)
(*                                                                         *)
(* A context `c' is a record named as SignalContext is; memory, doubt (the *)
(* contradiction score) and noTrade may be None.  Scores are whole points, *)
(* probabilities percents.  A price is an offset from current_price in     *)
(* basis points: all the planners know of prices are multiples of          *)
(* volatility_score.  A percentage of risk is in units of 0.0001.          *)
(***************************************************************************)
EXTENDS Integers

None == -1000
PreferredRR == 5
MinimumRR == 3
MaxRisk == 20000                       \* MAX_RISK_PERCENT, 2 %

(* SignalContext, of scores that are not negative.                          *)
SignalContext ==
  [direction : {"LONG", "SHORT"}, validated : BOOLEAN, ev : Int,
   uncertainty : Nat, risk : Nat, volatility : Nat, liquidity : Nat, manipulation : Nat,
   orderflow : Nat, confidence : Nat,
   noTrade : Nat \cup {None}, doubt : Nat \cup {None}, memory : Nat \cup {None}]

Between(low, x, high) == IF x < low THEN low ELSE IF x > high THEN high ELSE x
Distance(a, b) == IF a < b THEN b - a ELSE a - b
Sign(c) == IF c.direction = "LONG" THEN 1 ELSE -1
(* `x if condition' as a number of points.                                  *)
If(condition, points) == IF condition THEN points ELSE 0

-----------------------------------------------------------------------------
(* plan_entry: the reasons why no entry is safe, then the width of the zone. *)
Unsafe(c) ==
  \/ ~c.validated \/ c.uncertainty > 70 \/ c.risk > 75 \/ c.ev <= 0
  \/ c.noTrade # None /\ c.noTrade > 50
EntryType(c) ==
  IF Unsafe(c) THEN "NO_SAFE_ENTRY"
  ELSE IF c.manipulation > 60 THEN "RETEST_ENTRY"
  ELSE IF c.orderflow > 60 THEN "BREAKOUT_CONFIRMATION"
  ELSE IF c.volatility < 30 THEN "PULLBACK_ENTRY"
  ELSE IF c.liquidity > 50 THEN "RECLAIM_ENTRY" ELSE "LIMIT_ZONE"
(* The zone as wide as the stop is far.                                     *)
BufferWide(c) == 10 * c.volatility
Buffer(c) == c.volatility
Zone(c) == [type |-> EntryType(c), min |-> -Buffer(c), max |-> Buffer(c)]

(* plan_stop around the preferred entry, and its type.                      *)
Stop(c) == -Sign(c) * 10 * c.volatility
TooObvious(c) == 10 * Distance(0, Stop(c)) < 10    \* below 0.01 % of price

(* plan_targets: preferred_rr, half as much again and twice; no risk means  *)
(* a target at the entry that nobody believes in.                           *)
Risk(c) == Distance(0, Stop(c))
Targets(c) ==
  [n \in 1 .. 3 |-> (Sign(c) * Risk(c) * PreferredRR * (n + 1)) \div 2]
Realism(c, reward) ==
  IF Risk(c) = 0 THEN 0
  ELSE Between(0, 75 - If(c.volatility > 60, 15) - If(c.uncertainty > 50, 10)
                     - If(c.manipulation > 50, 10) - If(reward > 8, 15), 100)
(* RRAnalyzer.analyze                                                       *)
Meets(ratio, entry, stop, target) ==
  Distance(entry, stop) > 0 /\ Distance(entry, target) >= ratio * Distance(entry, stop)

-----------------------------------------------------------------------------
(* SignalQualityScorer over the zone, the stop and the targets.             *)
Quality(c) ==
  Between(0, 30 + If(c.validated, 15) + If(c.ev > 0, 10) + If(c.confidence >= 50, 5)
    + If(c.uncertainty < 50, 5) + If(EntryType(c) # "NO_SAFE_ENTRY", 10)
    + If(~TooObvious(c), 5) + If(Realism(c, PreferredRR) >= 50, 5)
    + (IF Meets(PreferredRR, 0, Stop(c), Targets(c)[1]) THEN 10
       ELSE If(Meets(MinimumRR, 0, Stop(c), Targets(c)[1]), 5))
    - If(c.doubt # None /\ c.doubt > 50, 10)
    + If(c.memory # None /\ c.memory >= 50, 5), 100)
QualityGrade(c) ==
  IF Quality(c) >= 90 THEN "A_PLUS" ELSE IF Quality(c) >= 75 THEN "A"
  ELSE IF Quality(c) >= 60 THEN "B" ELSE IF Quality(c) >= 45 THEN "C" ELSE "REJECT"

(* ExecutionConditionBuilder: the four that are REQUIRED.                   *)
Conditions(c) ==
  /\ c.validated /\ c.ev > 0 /\ c.risk < 80
  /\ c.noTrade = None \/ c.noTrade <= 50
(* SignalGate.evaluate over everything above; live trading is never on.     *)
Approved(c) ==
  /\ c.validated /\ c.ev > 0 /\ c.confidence >= 40 /\ c.risk <= 75 /\ c.uncertainty <= 70
  /\ Meets(MinimumRR, 0, Stop(c), Targets(c)[1])
  /\ EntryType(c) # "NO_SAFE_ENTRY"
  /\ QualityGrade(c) # "REJECT"
  /\ Conditions(c)
ApprovedForPaper(c) == Approved(c) /\ QualityGrade(c) \in {"A_PLUS", "A", "B"}

-----------------------------------------------------------------------------
(* PositionSizer.size: the percentage of the account to risk.               *)
Halved(x, condition) == IF condition THEN x \div 2 ELSE x
RiskPercent(c) ==
  LET p == Halved(Halved(Halved(10000, c.uncertainty > 50), c.doubt # None /\ c.doubt > 50),
                  c.memory # None /\ c.memory < 30)
  IN Between(1000, IF c.risk > 60 THEN (p * 7) \div 10 ELSE p, MaxRisk)

(* PaperTradeExecutor._create_order sizes a plan whose sizing knew no       *)
(* equity so that the stop, hit from the preferred entry, costs RiskPercent *)
(* of the balance.  This is the cost, times Risk, of a fill at `price'.     *)
StopCost(c, price) == RiskPercent(c) * Distance(price, Stop(c))

(* An approved plan keeps its promises at every price of its entry zone,    *)
(* not only at the preferred one: the first target pays at least the        *)
(* minimum ratio of what the stop costs, and the stop costs at most the     *)
(* maximum percentage of the account.                                       *)
WorstFillHolds(c) ==
  ApprovedForPaper(c) =>
    \A price \in {Zone(c).min, 0, Zone(c).max} :
      /\ Meets(MinimumRR, price, Stop(c), Targets(c)[1])
      /\ StopCost(c, price) <= MaxRisk * Risk(c)
=============================================================================
