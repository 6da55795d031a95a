----------------------------- MODULE EdgeVerdict -----------------------------
(***************************************************************************)
(* The one verdict robustness_lab makes of the results by period, symbol,  *)
(* timeframe and walk-forward window, and that over the governor.          *)
(*                                                                         *)
(* Drawdowns are tenths of R, expectancies and profit factors hundredths.  *)
(***************************************************************************)
EXTENDS Integers, Sequences, FiniteSetsExt, Functions

Result == [trades : Nat, ev : Int, pf : Nat, dd : Nat]
Governed == [trades : Nat, ev : Int, pf : Nat, perDay : Nat, dd : Nat]
Report ==
  [periods : Seq(Result), symbols : Seq(Result), frames : Seq(Result), windows : Seq(Result),
   gated : Nat, guarded : Result, governed : Governed]

(* The sum of a function.                                                   *)
Total(w) == FoldFunction(LAMBDA v, sum : v + sum, 0, w)

-----------------------------------------------------------------------------
(* A place is a table and a row; rows of few trades are left out.           *)
Tables == {"periods", "symbols", "frames"}
Known(rs) == {n \in DOMAIN rs : rs[n].trades >= 5}
Tested(rs) == {n \in DOMAIN rs : rs[n].trades >= 3}
At(x, place) == x[place[1]][place[2]]
Judged(x) ==
  (UNION {{t} \X Known(x[t]) : t \in Tables}) \cup ({"windows"} \X Tested(x.windows))
Ev(x) == [place \in Judged(x) |-> At(x, place).ev]
Pf(x) == [place \in Judged(x) |-> At(x, place).pf]
Deeper(x, limit) == \E t \in Tables : \E n \in Known(x[t]) : x[t][n].dd > limit

(* Out of sample is whatever any of the replays traded.                     *)
All(x) == UNION {{t} \X DOMAIN x[t] : t \in Tables \cup {"windows"}}
OutOfSample(x) == Total([place \in All(x) |-> At(x, place).trades])

Won(x) == {n \in DOMAIN x.windows : x.windows[n].ev > 0}
Greater(a, b) == IF a >= b THEN a ELSE b
Steady(x) == 10 * Cardinality(Won(x)) >= 7 * Greater(Len(x.windows), 1)

Profit(x) == [n \in Known(x.symbols) |-> x.symbols[n].ev * x.symbols[n].trades]
(* One symbol may have all of the profit.                                   *)
ConcentratedLoss(x) == Total(Profit(x)) <= 0
(* One symbol has more than half of the profit, or there is no profit.      *)
Concentrated(x) ==
  Total(Profit(x)) <= 0 \/ \E n \in Known(x.symbols) : 2 * Profit(x)[n] > Total(Profit(x))
Profitable(x, factor) == Total(Pf(x)) > factor * Cardinality(Judged(x))

(* What the regime gate, with and without governor, makes of the data.      *)
GateRecovers(x) ==
  x.guarded.trades >= 20 /\ x.guarded.ev > 0 /\ x.guarded.pf > 120 /\ x.gated >= 50

Insufficient(x) == OutOfSample(x) < 20 \/ Judged(x) = {}
NoEdge(x) == Total(Ev(x)) <= 0 \/ ~Profitable(x, 100)
Robust(x) ==
  OutOfSample(x) >= 200 /\ Profitable(x, 120) /\ Steady(x) /\ ~Concentrated(x) /\ ~Deeper(x, 80)
Overfit(x) ==
  OutOfSample(x) >= 50 /\ (Deeper(x, 80) \/ (Cardinality(Known(x.symbols)) >= 2 /\ Concentrated(x)))
Promising(x) == Profitable(x, 120) /\ (OutOfSample(x) < 200 \/ ~Steady(x) \/ Deeper(x, 50))
Verdict(x) ==
  IF Insufficient(x) THEN "INSUFFICIENT_TRADES"
  ELSE IF NoEdge(x) THEN "NO_EDGE"
  ELSE IF Robust(x) THEN "ROBUST_EDGE"
  ELSE IF GateRecovers(x) THEN "REGIME_SPECIFIC_EDGE"
  ELSE IF Overfit(x) THEN "OVERFIT_SUSPECTED"
  ELSE IF Promising(x) THEN "PROMISING_BUT_UNPROVEN"
  ELSE "UNSTABLE_EDGE"

(* governor_verdict.  The governed drawdown is only filled in once there is *)
(* enough to judge.                                                         *)
GovernorVerdict(x) ==
  LET g == x.governed
      dd == IF Insufficient(x) THEN 0 ELSE g.dd
  IN IF g.trades < 50 THEN "INSUFFICIENT_TRADES"
     ELSE IF g.ev <= 0 \/ g.pf <= 120 THEN "NO_EDGE"
     ELSE IF g.perDay > 4 THEN "OVERTRADING"
     ELSE IF dd > 80 THEN "DRAWDOWN_TOO_HIGH" ELSE "GOOD_RISK_PROFILE"

-----------------------------------------------------------------------------
(* A robust edge is one that no symbol has most of and no table contradicts,*)
(* with more windows won than lost; a governed replay of a good profile had *)
(* no deep drawdown.                                                        *)
RobustIsBroad(x) ==
  /\ Verdict(x) = "ROBUST_EDGE" =>
       /\ \A m \in DOMAIN x.symbols : \E n \in DOMAIN x.symbols : m # n /\ x.symbols[n].ev > 0
       /\ \A n \in Known(x.symbols) : 2 * Profit(x)[n] <= Total(Profit(x))
       /\ \A t \in Tables : \A n \in Known(x[t]) : x[t][n].dd <= 80
       /\ Cardinality(Won(x)) > Cardinality(DOMAIN x.windows \ Won(x))
  /\ GovernorVerdict(x) = "GOOD_RISK_PROFILE" /\ Verdict(x) # "INSUFFICIENT_TRADES" =>
       x.governed.dd <= 80

(* With two symbols of data no verdict is worse because a period or a window*)
(* did better.                                                              *)
Ranking == <<"INSUFFICIENT_TRADES", "NO_EDGE", "OVERFIT_SUSPECTED", "UNSTABLE_EDGE",
             "PROMISING_BUT_UNPROVEN", "REGIME_SPECIFIC_EDGE", "ROBUST_EDGE">>
Rank(x) == CHOOSE n \in DOMAIN Ranking : Ranking[n] = Verdict(x)
Betters(r, figures) ==
  {f \in figures : f.trades = r.trades /\ f.ev >= r.ev /\ f.pf >= r.pf /\ f.dd <= r.dd}
BetterNeverWorse(x, figures) ==
  Cardinality(Known(x.symbols)) >= 2 =>
    /\ \A n \in DOMAIN x.periods : \A f \in Betters(x.periods[n], figures) :
         Rank([x EXCEPT !.periods[n] = f]) >= Rank(x)
    /\ \A n \in DOMAIN x.windows : \A f \in Betters(x.windows[n], figures) :
         Rank([x EXCEPT !.windows[n] = f]) >= Rank(x)
=============================================================================
