----------------------------- MODULE HypothesisLab ----------------------------
(***************************************************************************)
(* The hypotheses of ultimate_trader/research_brain: the families that are *)
(* generated, what falsifies one, which wins and how they rank.            *)
(*                                                                         *)
(* A hypothesis is a record of what the engines ask about: how many pieces *)
(* of evidence it `needs', how many would refute it, how many ways to fail *)
(* it names, the ratio it expects in halves, and whether it depends on a   *)
(* regime, a liquidity and an order flow.  `hyps' is a sequence of them.   *)
(***************************************************************************)
EXTENDS Integers, Sequences, FiniteSetsExt

Least(x, y) == IF x < y THEN x ELSE y
AtMost100(x) == Least(x, 100)
If(condition, points) == IF condition THEN points ELSE 0

-----------------------------------------------------------------------------
(* HypothesisGenerator.generate                                             *)
Family(name, dir, needs, refuting, failures, rr, foretold) ==
  LET specific == dir # "NO_TRADE"
  IN [name |-> name, dir |-> dir, needs |-> needs, refuting |-> refuting, failures |-> failures,
      rr |-> rr, foretold |-> foretold, regime |-> specific, liquidity |-> specific,
      orderflow |-> specific, supported |-> FALSE, contradicted |-> FALSE, status |-> "GENERATED"]
Generate ==
  <<Family("BREAKOUT_CONTINUATION", "LONG", 3, 2, 3, 6, TRUE),
    Family("LIQUIDITY_SWEEP_REVERSAL", "SHORT", 3, 2, 2, 7, TRUE),
    Family("LIQUIDITY_SWEEP_CONTINUATION", "LONG", 3, 2, 2, 8, FALSE),
    Family("FALSE_BREAKOUT", "NEUTRAL", 3, 2, 2, 4, FALSE),
    Family("SHORT_SQUEEZE", "LONG", 3, 2, 2, 6, FALSE),
    Family("LONG_SQUEEZE", "SHORT", 3, 2, 2, 6, FALSE),
    Family("RANGE_CONTINUATION", "NEUTRAL", 3, 2, 2, 2, FALSE),
    Family("MEAN_REVERSION", "NEUTRAL", 3, 2, 2, 4, FALSE),
    Family("TREND_EXHAUSTION", "NEUTRAL", 3, 2, 2, 5, FALSE),
    Family("VOLATILITY_EXPANSION", "NEUTRAL", 3, 2, 2, 6, FALSE),
    Family("CHOP_NO_TRADE", "NO_TRADE", 3, 2, 2, 0, FALSE),
    Family("NO_EDGE", "NO_TRADE", 2, 1, 1, 0, FALSE)>>

(* What is generated: a hypothesis that would trade says on what regime,    *)
(* liquidity and order flow, and names from one to three ways to fail.      *)
Statuses ==
  {"GENERATED", "COMPETING", "FALSIFIED", "WEAK", "SHORTLISTED", "REJECTED", "READY_FOR_BACKTEST"}
Hypothesis ==
  [name : STRING, dir : {"LONG", "SHORT", "NEUTRAL", "NO_TRADE"}, needs : Nat, refuting : Nat,
   failures : 1 .. 3, rr : Nat, foretold : BOOLEAN, regime : BOOLEAN, liquidity : BOOLEAN,
   orderflow : BOOLEAN, supported : BOOLEAN, contradicted : BOOLEAN, status : Statuses]
AreGenerated(hyps) ==
  /\ hyps \in Seq(Hypothesis)
  /\ \A n \in DOMAIN hyps :
       LET h == hyps[n]
       IN h.status = "GENERATED" /\ (h.dir # "NO_TRADE" => h.regime /\ h.liquidity /\ h.orderflow)

-----------------------------------------------------------------------------
(* FalsificationEngine: four of its seven questions can be failed.          *)
Unsupported(h) == h.rr > 10 /\ ~h.supported
IsFalsified(h) == h.refuting = 0 \/ h.contradicted \/ h.needs = 0 \/ Unsupported(h)
Falsify(hyps) ==
  [n \in DOMAIN hyps |-> IF IsFalsified(hyps[n]) THEN [hyps[n] EXCEPT !.status = "FALSIFIED"] ELSE hyps[n]]

(* The scores, of which ExplanatoryPowerScorer, PredictivePowerScorer,      *)
(* RobustnessChecker and OverfitGuard give one each.                        *)
Explanatory(h) ==
  LET categories == Cardinality({f \in {"regime", "liquidity", "orderflow"} : h[f]})
                    + If(h.needs > 0, 1) + 1
  IN AtMost100(50 + If(h.regime, 10) + If(h.liquidity, 5) + If(h.orderflow, 5)
                  + Least(5 * h.needs, 15) + 10 + If(categories >= 4, 10))
Predictive(h) ==
  AtMost100(50 + If(h.foretold, 15) + Least(5 * h.needs, 15) + If(h.refuting > 0, 10)
               + If(h.failures > 0, 5) + If(h.rr > 0, 5) + If(h.regime, 5))
ChecksPassed(h) ==
  If(h.needs > 0, 1) + If(h.refuting > 0, 1) + If(h.regime, 1) + If(h.failures > 0, 1)
  + If(h.rr \in 1 .. 20, 1) + If(h.supported, 1)
Overfit(h) ==
  AtMost100(If(h.refuting = 0, 25) + If(h.needs = 0, 20) + If(Unsupported(h), 15)
            + If(h.rr > 20, 20) + If(h.failures = 0, 15) + If(~h.regime, 5))

(* HypothesisRanker.rank, in sixtieths of a point; it falsifies once more   *)
(* and keeps the order of equals.                                           *)
Composite(h) ==
  15 * Explanatory(h) + 15 * Predictive(h) + 200 * ChecksPassed(h) + 9 * (100 - Overfit(h))
  + If(~IsFalsified(h), 900)
Above(hyps, m, n) ==
  LET p == Composite(hyps[m]) q == Composite(hyps[n]) IN p > q \/ (p = q /\ m < n)

(* HypothesisCompetitionEngine.compare: the first of the best directional   *)
(* ones, unless even that is weak; 0 is nobody.                             *)
Strength(h) ==
  AtMost100(50 + If(h.rr > 4, 10) + Least(5 * h.needs, 15) + 3 * h.refuting - 2 * h.failures
            + If(h.regime, 5))
(* Whatever its status.                                                     *)
DirectionalAnyStatus(hyps) == {n \in DOMAIN hyps : hyps[n].dir # "NO_TRADE"}
Directional(hyps) ==
  {n \in DOMAIN hyps : hyps[n].status \notin {"FALSIFIED", "REJECTED"} /\ hyps[n].dir # "NO_TRADE"}
NoTrade(hyps) ==
  {n \in DOMAIN hyps : hyps[n].status \notin {"FALSIFIED", "REJECTED"} /\ hyps[n].dir = "NO_TRADE"}
Strongest(hyps) ==
  Min({n \in Directional(hyps) :
         \A m \in Directional(hyps) : Strength(hyps[m]) <= Strength(hyps[n])})
NoEdge(hyps) == Directional(hyps) = {} \/ Strength(hyps[Strongest(hyps)]) < 40
Winner(hyps) ==
  IF ~NoEdge(hyps) THEN Strongest(hyps)
  ELSE IF NoTrade(hyps) # {} THEN Min(NoTrade(hyps))
  ELSE IF Directional(hyps) # {} THEN Strongest(hyps) ELSE 0
Compete(hyps) ==
  IF NoEdge(hyps) THEN hyps ELSE [hyps EXCEPT ![Winner(hyps)].status = "COMPETING"]

-----------------------------------------------------------------------------
(* Falsified, then compared, then ranked, as the research pipeline goes: no *)
(* falsified hypothesis wins, not trading wins only when nothing else is    *)
(* left, and in the ranking no falsified hypothesis that would trade stands *)
(* above one that is not falsified.                                         *)
FalsifiedNeverWin(hyps) ==
  LET judged == Falsify(hyps)
      after == Falsify(Compete(judged))
      trading == {n \in DOMAIN after : after[n].dir # "NO_TRADE"}
      falsified == {n \in DOMAIN after : after[n].status = "FALSIFIED"}
  IN /\ Winner(judged) # 0 => Winner(judged) \notin falsified
     /\ NoEdge(judged) <=> trading \subseteq falsified
     /\ \A m \in trading \cap falsified : \A n \in trading \ falsified : ~Above(after, m, n)
=============================================================================
