---------------------------- MODULE StrategyEngine ----------------------------
(***************************************************************************)
(* The candle loop of robustness_lab/replay_runner.py, run_selective_      *)
(* replay, up to the daily selection: what SmartMoney finds is weighed by  *)
(* the twelve filters of strategy_engine, and an approved candidate is     *)
(* ranked and gated by selectivity_engine.                                 *)
(*                                                                         *)
(* Scores are in tenths, weights and shares in hundredths.  No caller      *)
(* supplies order flow, funding or open interest, so that these filters    *)
(* never count.                                                            *)
(***************************************************************************)
EXTENDS SmartMoney

CONSTANTS
  Warmup,          \* warmup_candles
  Clock,           \* per candle: its hour, and whether it is at a weekend
  EmaPeriods,      \* {20, 50, 100, 200}
  AtrPeriod,       \* 14
  VolumeLookback,  \* 20
  FreshSweep, FreshGap,   \* candles a sweep (10) and a gap (20) count as recent
  Confidence       \* confidence_threshold (60)

VARIABLES
  invert,    \* run_selective_replay(invert = ...)
  history,   \* _candles_history: all candles
  candidate  \* what became of the last candle

strategyVars == <<invert, history, candidate>>

StrategyLimits ==
  /\ Limits /\ {Warmup, AtrPeriod, VolumeLookback, FreshSweep, FreshGap, Confidence} \subseteq Nat
  /\ EmaPeriods \subseteq Nat \ {0}

Rounded(num, den) == (2 * num + den) \div (2 * den)
Result(passed, score) == [passed |-> passed, score |-> score, counted |-> TRUE]
Unavailable == [passed |-> TRUE, score |-> 500, counted |-> FALSE]

-----------------------------------------------------------------------------
(* Averages, as fractions [num, den]: the first period values give their    *)
(* mean, each further one moves it by 2/(period + 1).                       *)
Smoothed(start, values, period) ==
  FoldLeft(LAMBDA e, v : [num |-> 2 * v * e.den + (period - 1) * e.num, den |-> (period + 1) * e.den],
           start, values)
TotalOf(s) == FoldSeq(+, 0, s)
MeanOf(s) == [num |-> TotalOf(s), den |-> Len(s)]
Ema(closes, period) ==
  Smoothed(MeanOf(SubSeq(closes, 1, period)), SubSeq(closes, period + 1, Len(closes)), period)
(* The true ranges from the last candle back: the oldest weighs most.       *)
TrueRanges(h, period) ==
  [i \in 1 .. period |-> LET c == h[Len(h) + 1 - i]  p == h[Len(h) - i].c
                         IN Max({c.h - c.l, Abs(c.h - p), Abs(c.l - p)})]
Atr(h, period) == LET t == TrueRanges(h, period) IN Smoothed(MeanOf(t), t, period)

Trend(h, dir) ==
  LET closes == [i \in DOMAIN h |-> h[i].c]
      above == {p \in EmaPeriods : LET e == Ema(closes, p) IN Last(closes) * e.den > e.num}
      n == Cardinality(EmaPeriods)
      a == IF dir = "LONG" THEN Cardinality(above) ELSE n - Cardinality(above)
  IN IF Len(h) < Max(EmaPeriods) THEN Unavailable
     ELSE IF a = n THEN Result(TRUE, 1000)
     ELSE IF 10 * a >= 6 * n THEN Result(TRUE, 600 + Rounded(400 * a, n))
     ELSE IF 2 * a >= n THEN Result(TRUE, 400 + Rounded(200 * a, n))
     ELSE Result(FALSE, Rounded(300 * a, n))

(* The last event alone; one without a direction opposes both.              *)
StructureFilter(events, dir) ==
  IF events = <<>> THEN Unavailable
  ELSE IF Toward(Last(events).dir, "NEUTRAL") = dir THEN Result(TRUE, 900) ELSE Result(FALSE, 200)

(* Whether a sweep of the window is recent is asked of the whole history.   *)
IsFresh(at, n, age) == at >= n - age
(* Mutant: a long wants sellers swept.                                      *)
WantedOther(dir) == IF dir = "LONG" THEN "SELL" ELSE "BUY"
Wanted(dir) == IF dir = "LONG" THEN "BUY" ELSE "SELL"
SweepFilter(sws, n, dir) ==
  LET recent == {s \in sws : IsFresh(s.at, n, FreshSweep)}
      matching == {s \in recent : s.side = Wanted(dir)}
  IN IF sws = {} THEN Unavailable
       ELSE IF recent = {} THEN Result(TRUE, 500)
       ELSE IF matching = {} THEN Result(FALSE, 300)
       ELSE Result(TRUE, IF \E s \in matching : s.reclaimed THEN 900 ELSE 700)
GapFilter(gs, n, dir) ==
  LET matching == {i \in DOMAIN gs : Toward(gs[i].type, "NEUTRAL") = dir /\ ~Spent(gs[i])}
  IN IF gs = <<>> THEN Unavailable
       ELSE IF matching = {} THEN Result(FALSE, 400)
       ELSE Result(TRUE, IF \E i \in matching : IsFresh(gs[i].at - 1, n, FreshGap) THEN 800 ELSE 600)
BlockFilter(bs, dir) ==
  LET matching == {i \in DOMAIN bs : Toward(bs[i].type, "NEUTRAL") = dir /\ ~bs[i].mitigated}
  IN IF bs = <<>> THEN Unavailable
       ELSE IF matching = {} THEN Result(FALSE, 350)
       ELSE Result(TRUE, IF \E i \in matching : bs[i].strength >= 5000 THEN 850 ELSE 650)

(* The last volume against the mean before it; twice as much scores no more *)
(* than half as much again, and a little less than that scores 95.          *)
VolumeFilter(h) ==
  LET before == SubSeq(h, Len(h) - VolumeLookback + 1, Len(h) - 1)
      sum == TotalOf([i \in DOMAIN before |-> before[i].v])
      num == IF sum = 0 THEN 1 ELSE Last(h).v * (VolumeLookback - 1)
      den == IF sum = 0 THEN 1 ELSE sum
  IN IF Len(h) < VolumeLookback + 1 THEN Unavailable
     ELSE IF 2 * num >= 3 * den THEN Result(TRUE, 900)
     ELSE IF 5 * num >= 4 * den THEN Result(TRUE, 600 + Rounded(100 * (5 * num - 4 * den), den))
     ELSE Result(FALSE, Rounded(500 * num, den))

(* A weekend fails, with a weight of nothing.                               *)
SessionFilter(at) ==
  IF at.weekend THEN Result(FALSE, 200)
    ELSE IF at.hour \in 13 .. 16 \cup 21 .. 23 THEN Result(TRUE, 750)
    ELSE IF at.hour \in 8 .. 12 THEN Result(TRUE, 500)
    ELSE IF at.hour \in 17 .. 20 THEN Result(TRUE, 600)
    ELSE Result(TRUE, 550)
VolatilityFilter(h) ==
  LET atr == Atr(h, AtrPeriod)  range == (Last(h).h - Last(h).l) * atr.den
  IN IF Len(h) < AtrPeriod + 1 THEN Unavailable
     ELSE IF atr.num = 0 THEN Unavailable
     ELSE IF 20 * range >= 9 * atr.num /\ 5 * range <= 12 * atr.num THEN Result(TRUE, 900)
     ELSE IF 10 * range >= 3 * atr.num /\ range <= 4 * atr.num THEN Result(TRUE, 650)
     ELSE IF 10 * range < 3 * atr.num THEN Result(FALSE, 200)
     ELSE Result(FALSE, 300)
(* A stop one and a half ranges away, against two percent of the price.     *)
RiskFilter(c) ==
  LET dist == 150 * (c.h - c.l)
  IN IF dist <= c.c THEN Result(TRUE, 900)
       ELSE IF dist <= 2 * c.c THEN Result(TRUE, 700)
       ELSE IF dist <= 3 * c.c THEN Result(FALSE, 400)
       ELSE Result(FALSE, 100)

FilterWeight ==
  [trend |-> 15, structure |-> 12, sweep |-> 10, gap |-> 8, block |-> 8, volume |-> 8, session |-> 4,
   volatility |-> 7, risk |-> 8]
Filters(h, data, at, dir) ==
  [trend |-> Trend(h, dir), structure |-> StructureFilter(data.events, dir),
   sweep |-> SweepFilter(data.sweeps, Len(h), dir), gap |-> GapFilter(data.gaps, Len(h), dir),
   block |-> BlockFilter(data.blocks, dir), volume |-> VolumeFilter(h), session |-> SessionFilter(at),
   volatility |-> VolatilityFilter(h), risk |-> RiskFilter(Last(h))]

(* ConfidenceScorer: the weighted mean of those that count, rounded.        *)
WeightOf(fs, k, at) == IF fs[k].counted /\ ~(k = "session" /\ at.weekend) THEN FilterWeight[k] ELSE 0
TotalConfidence(fs, at) ==
  Rounded(Sum([k \in DOMAIN fs |-> WeightOf(fs, k, at) * fs[k].score]), Sum([k \in DOMAIN fs |-> WeightOf(fs, k, at)]))

-----------------------------------------------------------------------------
(* CandidateRanker, with the reward three times the risk unless the candle  *)
(* has no range.  "Liquidity" in the reasons is all there is of sweeps, and *)
(* order flow and microstructure are never among them.                      *)
Share(l, part) == LET all == Weighed(l.votes, "LONG") + Weighed(l.votes, "SHORT")
                  IN IF all = 0 THEN 0 ELSE Rounded(100 * part, all)
DirectionalConfidence(l) == IF l.bias = "NEUTRAL" THEN 0 ELSE Share(l, Weighed(l.votes, l.bias))
ConflictScore(l) ==
  LET long == Weighed(l.votes, "LONG")  short == Weighed(l.votes, "SHORT")
  IN Share(l, long + short - Abs(long - short))
TargetRealism(rr, continuation) ==
  (IF rr THEN 50 ELSE 0) + (IF continuation >= 50 THEN 30 ELSE IF continuation >= 30 THEN 15 ELSE 0)
StopQuality(conflict, reversal) ==
  100 - (IF conflict >= 50 THEN 30 ELSE 0) - (IF reversal >= 60 THEN 25 ELSE IF reversal >= 40 THEN 10 ELSE 0)
VolatilityAlignment(score, reversal) ==
  IF score >= 60 /\ reversal < 30 THEN 80 ELSE IF score >= 40 /\ reversal < 50 THEN 60 ELSE 30
RankScore(l, rr) ==        \* in hundredths
  25 * l.score + 15 * DirectionalConfidence(l) + 12 * (100 - ConflictScore(l)) + 10 * l.continuation
  + 8 * (100 - l.reversal) + 8 * TargetRealism(rr, l.continuation) + 7 * StopQuality(ConflictScore(l), l.reversal)
  + (IF l.votes.liquidity.dir = "NEUTRAL" THEN 0 ELSE 125) + 5 * VolatilityAlignment(l.score, l.reversal)
  + (IF rr THEN 500 ELSE 0)
Grade(points) ==
  IF points >= 8500 THEN "A_PLUS" ELSE IF points >= 7000 THEN "A" ELSE IF points >= 5500 THEN "B"
  ELSE IF points >= 4000 THEN "C" ELSE "REJECT"
RiskScore(l) == IF l.score > 0 THEN 100 - l.score ELSE 50
(* QualityGate with the thresholds of FrozenConfig: the first that objects. *)
Objection(l, rr) ==
  IF Grade(RankScore(l, rr)) \notin {"A_PLUS", "A"} THEN "low_rank"
    ELSE IF l.score < 50 THEN "confluence"
    ELSE IF DirectionalConfidence(l) < 55 THEN "directional_confidence"
    ELSE IF ConflictScore(l) > 40 THEN "conflict"
    ELSE IF l.reversal > 50 THEN "reversal_risk"
    ELSE IF RiskScore(l) > 40 THEN "risk"
    ELSE IF ~rr THEN "rr"
    ELSE "none"

-----------------------------------------------------------------------------
Opposite(dir) == CASE dir = "LONG" -> "SHORT" [] dir = "SHORT" -> "LONG" [] OTHER -> dir
NoCandidate == [dir |-> "NEUTRAL", filters |-> <<>>, confidence |-> 0, gate |-> "none"]
(* StrategyEngine.evaluate, then rank and gate of what it approves.         *)
Evaluate(h, data, l, at, dir) ==
  LET fs == Filters(h, data, at, dir)
      confidence == TotalConfidence(fs, at)
  IN [dir |-> dir, filters |-> fs, confidence |-> confidence,
      gate |-> IF confidence < 10 * Confidence THEN "not_approved" ELSE Objection(l, Last(h).h > Last(h).l)]

StrategyInit == Init /\ invert \in BOOLEAN /\ history = <<>> /\ candidate = NoCandidate

(* A candle: of the warm-up, without a direction, or evaluated.             *)
Replay(c) ==
  /\ Candle(c)
  /\ history' = Append(history, c)
  /\ LET dir == IF invert THEN Opposite(lsm'.bias) ELSE lsm'.bias
     IN candidate' = IF time < Warmup \/ dir = "NEUTRAL" THEN NoCandidate
                     ELSE Evaluate(history', found', lsm', Clock[time'], dir)
  /\ UNCHANGED invert
StrategyNext == time < Len(Menu) /\ \E c \in Menu[time + 1] : Replay(c)
StrategySpec == StrategyInit /\ [][StrategyNext]_<<vars, strategyVars>>

-----------------------------------------------------------------------------
Evaluated == candidate.dir # "NEUTRAL"
(* The vote on liquidity fades a reclaimed sweep, the sweep filter follows  *)
(* it: a candidate in the direction of that vote never has the filter's     *)
(* confirmation.                                                            *)
ReclaimNeverConfirms ==
  Evaluated /\ candidate.dir = lsm.votes.liquidity.dir => candidate.filters.sweep.score # 900

(* Places in the window are compared with the length of the history, so     *)
(* that, once the window has moved on by the age allowed, no sweep or gap   *)
(* counts as recent and sweeps cease to matter.                             *)
RecencyEnds ==
  Evaluated =>
    /\ Len(history) >= Window + FreshSweep => candidate.filters.sweep.score = 500
    /\ Len(history) >= Window + FreshGap => candidate.filters.gap.score # 800

(* Two of the gate's thresholds decide nothing: whoever has a direction has *)
(* 70 % of the votes for it, where 55 are asked, and whoever passes has a   *)
(* confluence of 60, where 50 are asked, for what it lacks is its risk.     *)
ThresholdsIdle ==
  /\ candidate.gate # "directional_confidence"
  /\ candidate.gate = "none" /\ Evaluated => lsm.score >= 60 /\ DirectionalConfidence(lsm) >= 70
=============================================================================
