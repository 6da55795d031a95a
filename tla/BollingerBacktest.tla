-------------------------- MODULE BollingerBacktest --------------------------
(***************************************************************************)
(* The backtests of the Bollinger band bounce in production_replay: the    *)
(* detector and the simulator of the strategy library, the backtests with  *)
(* 3 and 3.5 deviations, and the three ways to ask for volume.             *)
(*                                                                         *)
(* `cs' is the cached candles of a symbol, a sequence from 1.  A price is  *)
(* an integer, a volume ratio in halves.  The stop is half a percent, a    *)
(* 200th, of the entry away, which is 1 R: a result is kept as its gain    *)
(* times 200 and the entry it is to be divided by.                         *)
(***************************************************************************)
EXTENDS Integers, Sequences, FiniteSets, FiniteSetsExt, Functions

CONSTANTS
  Period,       \* BB_PERIOD (15)
  Slack,        \* candles before the first signal (5)
  Deviations,   \* std_mult, squared
  Ratio,        \* rr_target (10)
  MinVolume,    \* BB_MIN_ENTRY_VOL_RATIO (1.5)
  Lookback,     \* of volumes (20)
  MaxHolding    \* of the deviation backtests (48)

Gap(x, y) == IF x < y THEN y - x ELSE x - y
Sign(dir) == IF dir = "LONG" THEN 1 ELSE -1
Sum(w) == FoldFunction(LAMBDA v, sum : v + sum, 0, w)

(* Prices of a candle hold its open and close between low and high.         *)
Candle == {c \in [o : Int, h : Int, l : Int, c : Int, v : Nat] : c.l <= c.c /\ c.c <= c.h}
Limits ==
  /\ {Period, Slack, Ratio} \subseteq Nat
  /\ {Lookback, MaxHolding} \subseteq Nat \ {0}

-----------------------------------------------------------------------------
(* _avg_volume of the candles before the i-th: is its volume so many halves *)
(* of it?  Without an average the ratio is 0.                               *)
Voluminous(cs, i, halves) ==
  LET before == Sum([j \in i - Lookback .. i - 1 |-> cs[j].v])
  IN IF i <= Lookback \/ before = 0 THEN halves <= 0
     ELSE 2 * Lookback * cs[i].v >= halves * before

(* detect_bb_bounce: a close on or beyond a band, squared to do without the *)
(* root; LONG is asked first.  The entry is the next candle's open, and the *)
(* volume that is asked for the whole next candle's.                        *)
Beyond(cs, i, dir) ==
  LET S == i - Period + 1 .. i
      sum == Sum([j \in S |-> cs[j].c])
      off == Sign(dir) * (sum - Period * cs[i].c)
      spread == Period * Sum([j \in S |-> cs[j].c * cs[j].c]) - sum * sum
  IN off >= 0 /\ off * off >= Deviations * spread
Detects(cs, i, halves) ==
  /\ i > Period + Slack /\ i < Len(cs)
  /\ cs[i].c # cs[i].o /\ cs[i].h > cs[i].l /\ cs[i + 1].o > 0
  /\ \E dir \in {"LONG", "SHORT"} : Beyond(cs, i, dir)
  /\ halves > 0 => Voluminous(cs, i + 1, halves)
Signal(cs, i) ==
  [dir |-> IF Beyond(cs, i, "LONG") THEN "LONG" ELSE "SHORT", entry |-> cs[i + 1].o, at |-> i]

(* simulate_trade from the candle after the k-th, for `holding' candles.    *)
StopHit(s, c) ==
  IF s.dir = "LONG" THEN 200 * c.l <= 199 * s.entry ELSE 200 * c.h >= 201 * s.entry
TargetHit(s, c) ==
  IF s.dir = "LONG" THEN 200 * c.h >= (200 + Ratio) * s.entry
  ELSE 200 * c.l <= (200 - Ratio) * s.entry
(* Mutant: the last candle of the holding time is not looked at.            *)
ConsideredShort(cs, k, holding) == k + 1 .. Min({k + holding, Len(cs)}) - 1
Considered(cs, k, holding) == k + 1 .. Min({k + holding, Len(cs)})
Simulate(cs, k, s, holding) ==
  LET last == Min({k + holding, Len(cs)})
      hits == {j \in Considered(cs, k, holding) : StopHit(s, cs[j]) \/ TargetHit(s, cs[j])}
      first == Min(hits)
      Trade(outcome, n, gain) ==
        [outcome |-> outcome, gain |-> gain, entry |-> s.entry, from |-> k, exit |-> n, at |-> s.at]
  IN IF hits = {} THEN Trade("EXPIRED", last, 200 * Sign(s.dir) * (cs[last].c - s.entry))
     ELSE IF StopHit(s, cs[first]) THEN Trade("STOP_HIT", first, -s.entry)
     ELSE Trade("TARGET_HIT", first, Ratio * s.entry)

-----------------------------------------------------------------------------
(* run_backtest with 3 deviations looks at the last signal twice; then the  *)
(* candle to simulate a signal from is the last whose close is within a     *)
(* thousandth of the entry, or the third last.  Trades are told by the      *)
(* candle of their signal, and the one looked at first by 0.                *)
Signals(cs, twice) ==
  LET all == {i \in 1 .. Len(cs) - 1 : Detects(cs, i, MinVolume)}
  IN all \cup {n \in {0} : twice /\ Len(cs) - 2 \in all}
EntryFound(cs, s) ==
  LET near == {i \in DOMAIN cs : 1000 * Gap(cs[i].c, s.entry) < s.entry}
  IN IF near = {} THEN Len(cs) - 2 ELSE Max(near)
DeviationTrades(cs, twice) ==
  LET signal(n) == Signal(cs, IF n = 0 THEN Len(cs) - 2 ELSE n)
      from(n) == EntryFound(cs, signal(n))
  IN [n \in {m \in Signals(cs, twice) : from(m) < Len(cs)} |->
        Simulate(cs, from(n), signal(n), MaxHolding)]

(* volume_breakout_backtest: of the signals a method takes, the first with  *)
(* its direction and entry price, from the entry candle and without an end. *)
Looked(cs) == Period + 2 * Slack + 1 .. Len(cs) - 2
Key(cs, i) == <<Signal(cs, i).dir, Signal(cs, i).entry>>
New(cs, taken) == {i \in taken : \A j \in taken : Key(cs, j) = Key(cs, i) => i <= j}
VolumeTrades(cs, taken) ==
  [i \in New(cs, taken) |-> Simulate(cs, i + 1, Signal(cs, i), Len(cs))]
(* backtest_bb hands its ratio to the detector.                             *)
TakenByBB(cs, i, halves) == Detects(cs, i, halves)
TakenByEntryVolume(cs, i, halves) == Detects(cs, i, 0) /\ Voluminous(cs, i + 1, halves)
TakenByEitherVolume(cs, i, halves) ==
  Detects(cs, i, 0) /\ (Voluminous(cs, i, halves) \/ Voluminous(cs, i + 1, halves))
BacktestBB(cs, halves) ==
  VolumeTrades(cs, {i \in Looked(cs) : TakenByBB(cs, i, halves)})
BacktestEntryVolume(cs, halves) ==
  VolumeTrades(cs, {i \in Looked(cs) : TakenByEntryVolume(cs, i, halves)})
BacktestEitherVolume(cs, halves) ==
  VolumeTrades(cs, {i \in Looked(cs) : TakenByEitherVolume(cs, i, halves)})

-----------------------------------------------------------------------------
(* A trade never loses more than it risks nor gains more than its target,   *)
(* one that expires neither as much: for its last candle was still looked   *)
(* at.  This holds from whichever candle it is simulated.                   *)
Bounded(t) ==
  /\ -t.entry <= t.gain /\ t.gain <= Ratio * t.entry
  /\ t.outcome = "EXPIRED" => -t.entry < t.gain /\ t.gain < Ratio * t.entry
ResultsBounded(cs, halves) ==
  \A trades \in {DeviationTrades(cs, TRUE), BacktestEitherVolume(cs, halves)} :
    \A i \in DOMAIN trades : Bounded(trades[i])

(* Asking either candle for volume takes no fewer trades than asking one,   *)
(* though each signal taken hides the later ones of its direction and entry. *)
EitherTakesMore(cs, halves) ==
  Cardinality(DOMAIN BacktestEitherVolume(cs, halves)) >= Cardinality(DOMAIN BacktestBB(cs, halves))

(* What the docstring and main say of backtest_bb: it takes the signals with *)
(* volume on the SIGNAL candle.                                             *)
SignalVolume(cs, halves) ==
  BacktestBB(cs, halves) =
    VolumeTrades(cs, {i \in Looked(cs) : Detects(cs, i, 0) /\ Voluminous(cs, i, halves)})
(* What the code does: it takes those with volume on the entry candle, as   *)
(* backtest_bb_entry_volume does.                                           *)
VolumesAlike(cs, halves) == BacktestBB(cs, halves) = BacktestEntryVolume(cs, halves)
=============================================================================
