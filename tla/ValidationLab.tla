---------------------------- MODULE ValidationLab ----------------------------
(***************************************************************************)
(* ultimate_trader/validation_lab: what a sequence of trades must show     *)
(* before its hypothesis may make signals.  Trades come in one at a time;  *)
(* the gate is asked about all of them, walk-forward and out-of-sample     *)
(* validation about their two halves.  No code in src composes the parts:  *)
(* this is the composition their parameters suggest.                       *)
(*                                                                         *)
(* R multiples are in units of 0.0001; gross results are whole R.          *)
(***************************************************************************)
EXTENDS Integers, Sequences, SequencesExt, FiniteSetsExt

CONSTANTS
  Gross,        \* gross results of trades, in R
  MinTrades,    \* minimum_trades
  MaxLength     \* bound: trades

VARIABLES
  trades,       \* net_r and what makes it: gross, fees, slippage, funding
  worst         \* the worst drawdown of the last Monte Carlo simulation

vars == <<trades, worst>>
R == 10000
Limits == Gross \subseteq Int /\ MinTrades \in Nat /\ MaxLength \in Nat

Size(x) == IF x < 0 THEN -x ELSE x
(* TransactionCostModel.calculate_net_r: 4, 1 and 1 parts of 10000.         *)
Net(t) == t.gross - t.fees - t.slippage - t.funding
Costed(g) ==
  LET t == [gross |-> g * R, fees |-> 4 * Size(g), slippage |-> Size(g), funding |-> Size(g), net |-> 0]
  IN [t EXCEPT !.net = Net(t)]

-----------------------------------------------------------------------------
(* PerformanceMetrics.calculate, as far as anything looks at it.            *)
SumOf(s) == FoldSeq(LAMBDA t, sum : sum + t.net, 0, s)
Winning(s) == SelectSeq(s, LAMBDA t : t.net > 0)
Losing(s) == SelectSeq(s, LAMBDA t : t.net <= 0)
Profit(s) == SumOf(Winning(s))
Loss(s) == -SumOf(Losing(s))
(* win_rate * avg_win + (1 - win_rate) * avg_loss: the sign of the mean.    *)
Expects(s) == s # <<>> /\ SumOf(s) > 0
(* profit_factor > num / den; without a loss it is infinite, without a      *)
(* trade it is zero.                                                        *)
FactorAbove(s, num, den) ==
  s # <<>> /\ (Loss(s) = 0 \/ den * Profit(s) > num * Loss(s))
Curve(s) == [n \in 0 .. Len(s) |-> SumOf(SubSeq(s, 1, n))]
Drawdown(s) ==
  Max(UNION {{Curve(s)[i] - Curve(s)[j] : j \in i .. Len(s)} : i \in 0 .. Len(s)})

Half(s) == Len(s) \div 2
First(s) == SubSeq(s, 1, Half(s))
Second(s) == SubSeq(s, Half(s) + 1, Len(s))

(* WalkForwardValidator.evaluate over the two halves: consistency of 0.6,   *)
(* so both windows pass, and no decay below 0.7.                            *)
WindowPasses(s) == Expects(s) /\ FactorAbove(s, 1, 1)
Mean(s, factor) == IF s = <<>> THEN 0 ELSE (factor * SumOf(s)) \div Len(s)
Decayed(s) == Mean(Second(s), 10) < Mean(First(s), 7)
WalkForward(s) ==
  WindowPasses(First(s)) /\ WindowPasses(Second(s)) /\ ~Decayed(s)
(* OutOfSampleValidator.evaluate: the second half after the first.          *)
OutOfSample(s) ==
  /\ Expects(Second(s)) /\ Drawdown(Second(s)) <= 10 * R
  /\ Expects(First(s)) => Mean(Second(s), 2) >= Mean(First(s), 1)

(* MonteCarloSimulator.simulate shuffles the trades.  Every shuffle ends at *)
(* the same total, so all are ruined or none is; the worst drawdown of the  *)
(* sample lies between the largest loss and all losses in a row.            *)
Ruined(s) == SumOf(s) < -20 * R
LargestLoss(s) == Max({0} \cup {-s[n].net : n \in DOMAIN s})
MonteCarlo(s, dd) ==
  Len(s) >= 5 /\ ~Ruined(s) /\ dd < 15 * R /\ SumOf(s) > 0

(* SensitivityAnalysis.analyze: three of four scenarios must pass.          *)
Each(s, F(_)) == [n \in DOMAIN s |-> [s[n] EXCEPT !.net = F(s[n])]]
HigherFees(s) == Each(s, LAMBDA t : Net([t EXCEPT !.fees = 2 * @]))
HigherSlippage(s) == Each(s, LAMBDA t : Net([t EXCEPT !.slippage = 2 * @]))
LowerWinRate(s) ==
  LET flips == Max({1, Len(Winning(s)) \div 10})
      Flipped(n) == s[n].net > 0 /\ Len(Winning(SubSeq(s, 1, n))) <= flips
  IN [n \in DOMAIN s |-> IF Flipped(n) THEN [s[n] EXCEPT !.net = -@] ELSE s[n]]
LowerRR(s) == Each(s, LAMBDA t : IF t.net > 0 THEN (8 * t.net) \div 10 ELSE t.net)
Scenarios(s) == <<HigherFees(s), HigherSlippage(s), LowerWinRate(s), LowerRR(s)>>
Passing(s) == {n \in 1 .. 4 : WindowPasses(Scenarios(s)[n])}
Sensitivity(s) == Cardinality(Passing(s)) >= 3

-----------------------------------------------------------------------------
(* ValidationGate.evaluate.  max_daily_drawdown_percent is never computed   *)
(* and stays zero, so that its check always passes.                         *)
Failures(s, dd) ==
  {c \in {"trades", "expectancy", "factor", "walk_forward", "out_of_sample", "monte_carlo", "sensitivity"} :
     \/ c = "trades" /\ Len(s) < MinTrades
     \/ c = "expectancy" /\ ~Expects(s)
     \/ c = "factor" /\ ~FactorAbove(s, 12, 10)
     \/ c = "walk_forward" /\ ~WalkForward(s)
     \/ c = "out_of_sample" /\ ~OutOfSample(s)
     \/ c = "monte_carlo" /\ ~MonteCarlo(s, dd)
     \/ c = "sensitivity" /\ ~Sensitivity(s)}
Passed(s, dd) == Failures(s, dd) = {}
Grade(s, dd) ==
  IF Passed(s, dd) THEN (IF ~Ruined(s) THEN "EXCELLENT" ELSE "GOOD")
  ELSE IF Cardinality(Failures(s, dd)) <= 2 /\ Expects(s) THEN "MARGINAL" ELSE "FAILED"
EligibleForPaper(s, dd) == Passed(s, dd) /\ Grade(s, dd) \in {"GOOD", "EXCELLENT"}

Init == trades = <<>> /\ worst = 0
Trade(g) ==
  /\ Len(trades) < MaxLength
  /\ trades' = Append(trades, Costed(g))
  /\ worst' \in {LargestLoss(trades'), Loss(trades')}
Next == \E g \in Gross : Trade(g)
Spec == Init /\ [][Next]_vars

(* What the gate admits has made a profit in its first half and in its      *)
(* second, and would have made one with its first winners turned into       *)
(* losers or with smaller gains.  The gate grades by the probability of     *)
(* ruin, which for trades that pass is always zero: it never says GOOD.     *)
AdmittedIsEarned ==
  EligibleForPaper(trades, worst) =>
    /\ Grade(trades, worst) = "EXCELLENT"
    /\ SumOf(SubSeq(trades, 1, Len(trades) \div 2)) > 0
    /\ SumOf(SubSeq(trades, Len(trades) \div 2 + 1, Len(trades))) > 0
    /\ Expects(LowerWinRate(trades)) \/ Expects(LowerRR(trades))
=============================================================================
