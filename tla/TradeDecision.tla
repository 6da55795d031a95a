---------------------------- MODULE TradeDecision ----------------------------
(***************************************************************************)
(* The decision of ultimate_trader/belief_engine: a raw probability of     *)
(* winning is calibrated by what memory says, turned into an expected      *)
(* value and a utility, and held against the thresholds.                   *)
(*                                                                         *)
(* A case `m' is a record: what memory knows (cases, history, loser,       *)
(* support, warning), what a trade pays (win, loss, in thousandths of R)   *)
(* and the scores (uncertainty, drawdown, doubt, noTrade).  Probabilities  *)
(* are in units of 0.0001, scores are points; Unknown stands for None.     *)
(***************************************************************************)
EXTENDS Integers

Unknown == -1
Whole == 10000
MinSample == 10

(* What the calibrator and the thresholds are given.                        *)
Knowledge ==
  [cases : Nat, history : 0 .. Whole, loser : BOOLEAN, support : {Unknown} \cup 0 .. 100,
   warning : 0 .. 100, win : Nat, loss : Nat, uncertainty : 0 .. 100, drawdown : 0 .. 100,
   doubt : 0 .. 100, noTrade : 0 .. Whole]
IsDecision(d) == {d.raw, d.surer} \subseteq 0 .. Whole /\ d.m \in Knowledge

Clamped(low, x, high) == IF x < low THEN low ELSE IF x > high THEN high ELSE x
AtLeastZero(x) == IF x < 0 THEN 0 ELSE x
Given(condition, x) == IF condition THEN x ELSE 0

(* Pulled to the historical rate and as far again.                          *)
PullThrough(raw, m) ==
  Given(m.history > 0 /\ raw > m.history + 1000, 2 * (raw - m.history))
(* ProbabilityCalibrator.calibrate                                          *)
Pull(raw, m) ==
  Given(m.history > 0 /\ raw > m.history + 1000, ((raw - m.history) * 3) \div 10)
Calibrate(raw, m) ==
  LET enough == m.cases >= MinSample
  IN Clamped(100,
       raw - Given(~enough, (MinSample - m.cases) * 50) - Pull(raw, m)
           - Given(m.loser, 500) - Given(m.warning > 50, (m.warning - 50) * 5)
           + Given(enough /\ m.support > 70, 300)
           - Given(enough /\ m.support \in 0 .. 29, 300), 9900)

(* ExpectedValueCalculator.calculate_from_beliefs: what is neither won nor  *)
(* not traded is lost, and the rest is scaled to a whole.                   *)
LossOf(p, m) == AtLeastZero(Whole - p - m.noTrade)
ValueR(p, m) ==
  IF p + LossOf(p, m) = 0 THEN 0
  ELSE (p * m.win - LossOf(p, m) * m.loss) \div (p + LossOf(p, m))
PositiveValue(p, m) == p * m.win > LossOf(p, m) * m.loss
(* RiskAdjustedUtilityEngine.calculate                                      *)
Penalty(m) ==
  5 * m.uncertainty + 5 * m.drawdown + 8 * m.doubt
  + (IF m.support = Unknown THEN 0 ELSE 4 * AtLeastZero(50 - m.support))
Utility(p, m) == ValueR(p, m) - Penalty(m)
UtilityGrade(p, m) ==
  IF 2 * m.noTrade > Whole THEN "NO_TRADE"
  ELSE IF Utility(p, m) > 1000 THEN "EXCELLENT" ELSE IF Utility(p, m) > 500 THEN "GOOD"
  ELSE IF Utility(p, m) > 0 THEN "MARGINAL" ELSE IF Utility(p, m) > -500 THEN "BAD"
  ELSE "NO_TRADE"
(* required_win_rate_for_breakeven, by cross multiplication                 *)
BeatsBreakeven(p, m) ==
  IF m.win + m.loss > 0 THEN p * (m.win + m.loss) > Whole * m.loss ELSE 2 * p > Whole

(* DecisionThresholds.evaluate over all of that.                            *)
Acceptable(raw, m) ==
  LET p == Calibrate(raw, m)
  IN /\ PositiveValue(p, m)
     /\ UtilityGrade(p, m) \in {"EXCELLENT", "GOOD", "MARGINAL"}
     /\ 2 * m.noTrade < Whole
     /\ m.uncertainty < 70
     /\ BeatsBreakeven(p, m)

(* A trade that is accepted stays so when its raw probability is higher,    *)
(* unless the higher one is for the first time 10 % above the historical    *)
(* rate, where the pull sets in at once with 3 %.                           *)
SurerStaysAccepted(raw, surer, m) ==
  (/\ raw <= surer /\ Acceptable(raw, m)
   /\ Pull(raw, m) = 0 => Pull(surer, m) = 0) => Acceptable(surer, m)
=============================================================================
