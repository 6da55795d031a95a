----------------------------- MODULE RegimeReplay -----------------------------
(***************************************************************************)
(* run_selective_replay_with_regime of robustness_lab/replay_runner.py:    *)
(* the regime gate of regime_filter, ten ways to place a stop, five ways   *)
(* to enter, and TradeSimulator, which enters and ends the trades.         *)
(*                                                                         *)
(* A candle comes with what others decide about it: the direction of       *)
(* SmartMoney, the features of the classifier, the nearest swing, and      *)
(* whether engine, selector and risk controls let it pass.                 *)
(***************************************************************************)
EXTENDS TradeSimulator, Sequences, SequencesExt, FiniteSetsExt

CONSTANTS
  Menu,          \* the candles that may come
  Warmup,        \* warmup_candles
  MaxCandles,    \* bound: candles of the replay
  StopMethods, EntryMethods,
  Few, Many, TrLength,  \* candles of avg5, of avg10 and avg20, of the true range (14)
  Reference,     \* sorted values of each feature in the training candles
  Threshold      \* similarity_threshold

Dirs == {"LONG", "SHORT"}
(* Prices lie within their candle's range, and every mean is a whole number. *)
Limits ==
  /\ \A c \in Menu :
       /\ {c.o, c.h, c.l, c.c} \subseteq Nat
       /\ c.l <= c.o /\ c.o <= c.h /\ c.l <= c.c /\ c.c <= c.h
  /\ {Few, Many, TrLength, MaxHolding, Scale} \subseteq Nat \ {0}
  /\ \A n \in 1 .. Max({Few, Many, TrLength}) : Scale % (10 * n) = 0
  /\ {Cost, Funding, Warmup, MaxCandles} \subseteq Nat

VARIABLES
  stopMethod, entryMethod,
  candles,    \* so far
  trs,        \* true_range_buffer
  pending,    \* pending_signals
  active, completed,   \* trades of the simulator
  blocked     \* regime_blocked

vars == <<stopMethod, entryMethod, candles, trs, pending, active, completed, blocked>>

Greater(a, b) == IF a >= b THEN a ELSE b
Smaller(a, b) == IF a <= b THEN a ELSE b
Kept(s, n) == SubSeq(s, Greater(1, Len(s) - n + 1), Len(s))
Sum(s) == FoldSeq(+, 0, s)
RangeOf(c) == c.h - c.l

-----------------------------------------------------------------------------
(* SimilarityScorer: how near the median of its reference each feature is,  *)
(* averaged, in tenths of a percent and rounded there.  An untrained gate   *)
(* has no reference and lets everything pass.                               *)
Below(f, v) == Cardinality({i \in DOMAIN Reference[f] : Reference[f][i] < v})
UpTo(f, v) == Cardinality({i \in DOMAIN Reference[f] : Reference[f][i] <= v})
Nearness(f, v) ==
  LET n == Len(Reference[f])
  IN IF n = 0 THEN 1000
     ELSE (1000 * (n - Magnitude(n - Below(f, v) - UpTo(f, v)))) \div n
Similarity(features) ==
  LET sum == FoldSet(LAMBDA f, total : total + Nearness(f, features[f]), 0, DOMAIN Reference)
  IN (2 * sum + Cardinality(DOMAIN Reference)) \div (2 * Cardinality(DOMAIN Reference))
Gate(features) == DOMAIN Reference = {} \/ Similarity(features) >= 10 * Threshold

-----------------------------------------------------------------------------
(* The distance of the stop, in 1/Scale: a multiple (in tenths) of a mean   *)
(* range, or the way to the nearest swing beyond the entry and 0.3 of a     *)
(* range more.  Swing is that way in whole numbers, 0 if there is none.     *)
Times(tenths, sum, n) == ((Scale \div 10) * tenths * sum) \div n
Mean(tenths, s) == Times(tenths, Sum(s), Len(s))
Ranges(cs) == [i \in DOMAIN cs |-> RangeOf(cs[i])]
ToSwing(swing, margin) == Scale * swing + margin
Hybrid(base, margin, swing) ==
  IF swing = 0 THEN base ELSE Greater(base, Smaller(ToSwing(swing, margin), (6 * base) \div 5))
StopDistance(method, cs, true, swing) ==
  LET cr == RangeOf(Last(cs))
      near == Mean(15, Kept(Ranges(cs), Few))
      base == Times(15, cr, 1)
  IN CASE method = "wide20"   -> Times(20, cr, 1)
       [] method = "wide25"   -> Times(25, cr, 1)
       [] method = "atr14_15" -> Mean(15, IF true = <<>> THEN <<cr>> ELSE true)
       [] method = "atr14_20" -> Mean(20, IF true = <<>> THEN <<cr>> ELSE true)
       [] method = "avg5"     -> near
       [] method = "avg20"    -> Mean(15, Kept(Ranges(cs), Many))
       [] method = "structure" -> LET d == ToSwing(swing, Times(3, cr, 1))
                                  IN IF swing = 0 \/ d < Times(5, cr, 1) THEN base ELSE d
       [] method = "hybrid"   -> Hybrid(base, Times(3, cr, 1), swing)
       [] method = "avg5_hybrid" -> Hybrid(near, Mean(3, Kept(Ranges(cs), Few)), swing)
       [] OTHER               -> base

(* skip_low_volatility: the candle has at least the median of the last five.*)
Median(s) == LET sorted == SortSeq(s, <) IN sorted[(Len(s) \div 2) + 1]
Volatile(cs) == RangeOf(Last(cs)) >= Median(Kept(Ranges(cs), Few))

(* Of the candle after the signal: what confirms it.                        *)
(* Mutant: it may take two risks away.                                      *)
NoReverseFar(s, c) ==
  LET worst == IF s.dir = "LONG" THEN Smaller(c.l, c.o) ELSE Greater(c.h, c.o)
  IN Sign(s.dir) * (Scale * worst - s.entry) >= -2 * s.dist
NoReverse(s, c) ==
  LET worst == IF s.dir = "LONG" THEN Smaller(c.l, c.o) ELSE Greater(c.h, c.o)
  IN Sign(s.dir) * (2 * Scale * worst - 2 * s.entry) >= -s.dist
Confirmed(s, c) ==
  CASE entryMethod = "confirm_1c"        -> TRUE
    [] entryMethod = "no_reverse_0.5r"   -> NoReverse(s, c)
    [] entryMethod = "confirm_direction" -> Sign(s.dir) * (c.c - c.o) > 0

(* TradeSimulator.process_candle                                            *)
Process(trades, c, n) ==
  active' = Standing(trades, c) /\ completed' = completed \cup Ended(trades, c, n)
Idle == UNCHANGED <<active, completed>>

-----------------------------------------------------------------------------
(* What the classifier and the swing detector may say of a candle.          *)
Features == [DOMAIN Reference -> UNION {ToSet(Reference[f]) : f \in DOMAIN Reference}]
Swings == 0 .. 2

Init ==
  /\ stopMethod \in StopMethods /\ entryMethod \in EntryMethods
  /\ candles = <<>> /\ trs = <<>> /\ pending = {} /\ active = {} /\ completed = {} /\ blocked = 0

TrueRange(c, prev) == Max({RangeOf(c), Magnitude(c.h - prev.c), Magnitude(c.l - prev.c)})
Arrive(c) ==
  /\ Len(candles) < MaxCandles
  /\ candles' = Append(candles, c)
  /\ trs' = IF candles = <<>> THEN trs ELSE Kept(Append(trs, TrueRange(c, Last(candles))), TrLength)
  /\ UNCHANGED <<stopMethod, entryMethod>>
Delayed == entryMethod \in {"confirm_1c", "no_reverse_0.5r", "confirm_direction"}

(* Signals of the candle before are confirmed or dropped first; the trades  *)
(* entered so meet this candle at once.                                     *)
Confirming(c) ==
  LET mine == {s \in pending : s.at = Len(candles) /\ Confirmed(s, c)}
  IN IF mine = {} THEN Idle
     ELSE Process(active \cup {Enter(s, c, Len(candles')) : s \in mine}, c, Len(candles'))

(* Warm-up, no direction, or refused by engine, selector or risk controls.  *)
Pass(c) ==
  /\ Arrive(c) /\ Confirming(c)
  /\ pending' = {} /\ UNCHANGED blocked
GateBlocks(c) ==
  /\ Arrive(c) /\ Len(candles) >= Warmup /\ Confirming(c)
  /\ \E features \in Features : ~Gate(features)
  /\ blocked' = blocked + 1
  /\ pending' = {}
Selected(c, dir, swing) ==
  /\ Arrive(c) /\ Len(candles) >= Warmup
  /\ \E features \in Features : Gate(features)
  /\ LET s == Signal(dir, c, Len(candles'), StopDistance(stopMethod, candles', trs', swing))
     IN IF Delayed THEN Confirming(c) /\ pending' = {s}
        ELSE /\ IF entryMethod = "immediate" \/ Volatile(candles')
                THEN Process(active \cup {Enter(s, c, Len(candles'))}, c, Len(candles'))
                ELSE Idle
             /\ UNCHANGED pending
  /\ UNCHANGED blocked

Next ==
  \E c \in Menu :
    \/ Pass(c) \/ GateBlocks(c)
    \/ \E dir \in Dirs, swing \in Swings : Selected(c, dir, swing)

Spec == Init /\ [][Next]_vars

-----------------------------------------------------------------------------
(* A trade that ends at its stop does not gain, whatever the stop is made   *)
(* of, when it was entered at the signal or only after the next candle kept *)
(* away from half the risk.                                                 *)
StopsNeverPay ==
  entryMethod \notin {"confirm_1c", "confirm_direction"} =>
    \A t \in completed : t.reason = "STOP_LOSS" => t.gross <= 0 /\ t.net <= 0

(* The candle a trade is entered on, at its close, does not end it, where   *)
(* the stop is a multiple of that candle's range and it has one.            *)
EntryCandleSpares ==
  /\ entryMethod \in {"immediate", "skip_low_volatility"}
  /\ stopMethod \in {"baseline", "wide20", "wide25", "hybrid"}
  => \A t \in completed : t.ended = t.entered => RangeOf(candles[t.entered]) = 0
=============================================================================
