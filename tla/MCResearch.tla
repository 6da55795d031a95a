------------------------------ MODULE MCResearch ------------------------------
(***************************************************************************)
(* The engines between the candles and a verdict share nothing a small     *)
(* instance could show: a behaviour is about one topic, chosen at the      *)
(* start.  A topic is a machine, all others of which stay as they began,   *)
(* or an algorithm with an input.                                          *)
(***************************************************************************)
EXTENDS Integers, Sequences, TLC

CONSTANTS
  Topics, Null, Torn,
  Tape, Clock, WindowSize, Lookback, RangeWindow, SqueezeBars, RecentBars, GapMin, GapSmall,
  GapLarge, ScoreThreshold, TapeWarmup, EmaPeriods, AtrPeriod, VolumeLookback, FreshSweep,
  FreshGap, MinConfidence,                                      \* StrategyEngine
  Bars, MaxBars, BarWarmup, StopMethods, EntryMethods, Scale, Few, Many, TrLength, MaxHolding,
  Cost, Funding, Reference, Threshold,                          \* RegimeReplay
  Contexts,                                                     \* SignalEngine
  Books, Quantities, SteadyBooks, HalfLength, Thin, Wall, MaxBooks,  \* Microstructure
  Cases, Signature, MinMemory, Limit, Base, MaxWrites,          \* CaseMemory
  Prior, NoTradeOf, Evidence, Thresholds, MaxUpdates,           \* Beliefs
  Gross, MinTrades, MaxLength,                                  \* ValidationLab
  SeriesSet, Volumes, BandPeriod, BandSlack, BandWidth, BandRatio, BandVolume, VolumeBack,
  BandHolding,                                                  \* BollingerBacktest
  Decisions, HypothesisSets,                                    \* TradeDecision, HypothesisLab
  Reports, Figures, ObservationSets                             \* EdgeVerdict, Cognition

VARIABLES
  topic, input,
  time, candles, highs, lows, equalHighs, equalLows, sweeps, gaps, blocks, found, lsm, plan,
  invert, history, candidate,                                   \* StrategyEngine
  stopMethod, entryMethod, bars, trs, pending, active, completed, blocked,
  library, file, running, acked, writes, regimes,               \* CaseMemory
  probability, rejected, dominant, noTrade, updates,            \* Beliefs
  trades, worst,                                                \* ValidationLab
  books                                                         \* Microstructure

strategyVars == <<time, candles, highs, lows, equalHighs, equalLows, sweeps, gaps, blocks,
                  found, lsm, plan, invert, history, candidate>>
replayVars == <<stopMethod, entryMethod, bars, trs, pending, active, completed, blocked>>
memoryVars == <<library, file, running, acked, writes, regimes>>
beliefVars == <<probability, rejected, dominant, noTrade, updates>>
labVars == <<trades, worst>>
vars == <<topic, input, strategyVars, replayVars, memoryVars, beliefVars, labVars, books>>

-----------------------------------------------------------------------------
(* A zigzag of nine candles, each of which may turn out otherwise.          *)
C(o, h, l, c, v) == [o |-> o, h |-> h, l |-> l, c |-> c, v |-> v]
Up == {C(1000, 1005, 999, 1004, 2), C(1003, 1012, 1002, 1011, 4)}
Down == {C(1001, 1002, 996, 997, 2), C(1000, 1001, 988, 990, 4)}
Quiet == {C(1000, 1001, 999, 1000, 1)}
Leap == {C(1009, 1016, 1007, 1015, 1)}
ZigZag == <<Up, Down, Up \cup Quiet, Down, Up \cup Leap, Down \cup Quiet, Up \cup Leap,
            Down \cup Up, Down \cup Leap>>
Hours == [n \in 1 .. 9 |-> [hour |-> (4 * n) % 24, weekend |-> n = 6]]
Strategy == INSTANCE StrategyEngine WITH
  Menu <- Tape, Window <- WindowSize, Squeeze <- SqueezeBars, Recent <- RecentBars,
  Warmup <- TapeWarmup, Confidence <- MinConfidence

(* A flat candle, a long one either way, a short one, and a gap below.      *)
Bar(o, h, l, c) == [o |-> o, h |-> h, l |-> l, c |-> c]
MCBars == {Bar(10, 10, 10, 10), Bar(8, 13, 8, 13), Bar(12, 13, 9, 9), Bar(10, 11, 9, 10), Bar(5, 7, 5, 7)}
MCReference == [volatility |-> <<1, 2, 2, 4>>, volume |-> <<1, 3, 5>>]
Replays == INSTANCE RegimeReplay WITH
  Menu <- Bars, candles <- bars, Warmup <- BarWarmup, MaxCandles <- MaxBars

(* Six cases like the signature and one unlike it; two are of one id, and   *)
(* of two wins the R is not known.                                          *)
Case(id, label, side, outcome, rr) ==
  [id |-> id, outcome |-> outcome, rr |-> rr, adverse |-> 1, feats |-> [vol |-> 50],
   cats |-> [regime_label |-> label, side |-> side]]
MCCases == {Case(1, "trend", "long", "WIN", 3), Case(1, "trend", "long", "LOSS", -1),
               Case(2, "trend", "long", "LOSS", -4), Case(3, "trend", Null, "WIN", 1),
               Case(4, "range", "short", "LOSS", -4), Case(5, "trend", "long", "WIN", Null),
               Case(6, "trend", "long", "WIN", Null)}
MCSignature == [cats |-> [regime_label |-> "trend", side |-> "long"], feats |-> [vol |-> 40]]
Memory == INSTANCE CaseMemory

MCPrior == <<300, 250, 250, 200>>
MCEvidence == {[target |-> b, yes |-> l[1], no |-> l[2], weight |-> 1000] :
                 b \in 1 .. 4, l \in {<<700, 300>>, <<300, 700>>, <<500, 500>>}}
Belief == INSTANCE Beliefs

MCGross == {-1, 1, 3}
Lab == INSTANCE ValidationLab

(* Books of one to five levels, even and lopsided, tight and wide.          *)
Level(p, q) == [price |-> p, qty |-> q]
Bids(qtys, step) == [n \in DOMAIN qtys |-> Level(10000 - step * n, qtys[n])]
Asks(qtys, step) == [n \in DOMAIN qtys |-> Level(10000 + step * n, qtys[n])]
Micro == INSTANCE Microstructure
MCBooks ==
  {[bids |-> Bids(<<60, 60>>, 1), asks |-> Asks(<<10, 12, 10, 10, 10>>, 3)],
   [bids |-> Bids(<<250, 250, 20>>, 2), asks |-> Asks(<<60, 60, 80>>, 2)],
   [bids |-> Bids(<<20>>, 4), asks |-> Asks(<<400, 10, 200>>, 40)],
   [bids |-> Bids(<<10, 60, 60>>, 20), asks |-> Asks(<<250, 10, 10, 200>>, 4)],
   [bids |-> Bids(<<10, 10, 50>>, 35), asks |-> Asks(<<10, 60, 10>>, 1)]}

-----------------------------------------------------------------------------
Signal == INSTANCE SignalEngine
MCContexts ==
  [direction : {"LONG", "SHORT"}, validated : {TRUE}, uncertainty : {40, 60}, risk : {50, 70},
   ev : {1}, noTrade : {Signal!None, 60}, volatility : {0, 10, 25, 70}, liquidity : {60},
   manipulation : {0, 55, 65}, orderflow : {0, 70}, confidence : {40, 80},
   doubt : {Signal!None, 60}, memory : {Signal!None, 20, 60}]

Decision == INSTANCE TradeDecision
Chances == {1000, 3000, 4000, 5100, 6000, 9000}
MCDecisions ==
  [raw : Chances, surer : Chances,
   m : [cases : {4, 12}, history : {0, 3000, 4000}, loser : {FALSE}, support : {-1, 20, 80},
        warning : {40, 80}, win : {1000, 3000}, loss : {1000}, uncertainty : {20, 60},
        drawdown : {10}, doubt : {0, 60}, noTrade : {0, 2000}]]

(* A quiet candle, a fall, a rise and a leap.                               *)
Bounce == INSTANCE BollingerBacktest WITH
  Period <- BandPeriod, Slack <- BandSlack, Deviations <- BandWidth, Ratio <- BandRatio,
  MinVolume <- BandVolume, Lookback <- VolumeBack, MaxHolding <- BandHolding
MCSeries == [1 .. 7 -> {C(2000, 2004, 1998, 2001, 2), C(2001, 2002, 1985, 1988, 3),
                      C(1990, 2009, 1989, 2000, 8), C(2010, 2030, 2008, 2025, 2)}]

(* Up to five observations, in any order of the first and one of the rest.  *)
Mind == INSTANCE Cognition
Said(type, words) == [type |-> type, says |-> words]
Kinds == <<Said("PRICE_ACTION", {}), Said("VOLUME", {}), Said("VOLUME", {}), Said("LIQUIDITY", {}),
           Said("LIQUIDITY", {"thin"}), Said("LIQUIDITY", {"trap", "thin"}), Said("ORDER_FLOW", {}),
           Said("ORDER_FLOW", {"bearish"}), Said("VOLATILITY", {"spike"}),
           Said("VOLATILITY", {"spike", "expanding"}), Said("REGIME", {}), Said("REGIME", {"unclear"}),
           Said("REGIME", {"chop", "unclear"}), Said("FUNDING", {})>>
Rising == {k \in [1 .. 5 -> 0 .. Len(Kinds)] : \A n \in 2 .. 4 : k[n] = 0 \/ k[n] < k[n + 1]}
Observed(k) ==
  LET some == SelectSeq(k, LAMBDA n : n > 0) IN [n \in DOMAIN some |-> Kinds[some[n]]]
MCObservations == {Observed(k) : k \in Rising}

(* The generated families, some of them contradicted, the first one flawed. *)
Ideas == INSTANCE HypothesisLab
Flaws == {[rr |-> 6, refuting |-> 2, needs |-> 3], [rr |-> 12, refuting |-> 2, needs |-> 3],
          [rr |-> 22, refuting |-> 0, needs |-> 3], [rr |-> 6, refuting |-> 2, needs |-> 0]}
Families(contradicted, flaw) ==
  [n \in DOMAIN Ideas!Generate |->
     LET h == [Ideas!Generate[n] EXCEPT !.contradicted = n \in contradicted]
     IN IF n > 1 THEN h
        ELSE [h EXCEPT !.rr = flaw.rr, !.refuting = flaw.refuting, !.needs = flaw.needs]]
MCHypotheses ==
  {Families(S \cup T, flaw) :
     S \in SUBSET {1, 2, 3, 5, 6, 9, 11, 12}, T \in {{}, {4, 7, 8, 10}}, flaw \in Flaws}

(* Five trades that close one after the other, by crossing signals of two   *)
(* symbols, or two and two at once; the last one with and without an exit.  *)
Equity == INSTANCE EdgeReport
Orders ==
  {[at |-> <<1, 2, 3, 4, 5>>, of |-> <<"a", "a", "b", "b", "a">>, exit |-> 7],
   [at |-> <<2, 1, 3, 5, 4>>, of |-> <<"a", "b", "a", "b", "a">>, exit |-> Null],
   [at |-> <<1, 1, 2, 2, 3>>, of |-> <<"a", "b", "b", "a", "b">>, exit |-> 3]}
Curves ==
  {[n \in 1 .. 5 |-> [r |-> rs[n], time |-> o.at[n], symbol |-> o.of[n], exit |-> o.exit]] :
     rs \in [1 .. 5 -> {-12, -5, 3, 15}], o \in Orders}

Edge == INSTANCE EdgeVerdict
(* Replays of few and of many trades, that lost, won a little or much, of   *)
(* none to three symbols, with none to three windows.                       *)
Replay(n, ev, pf, dd) == [trades |-> n, ev |-> ev, pf |-> pf, dd |-> dd]
MCFigures ==
  {Replay(n, f[1], f[2], dd) :
     n \in {4, 12, 150}, f \in {<<-30, 60>>, <<8, 110>>, <<40, 180>>}, dd \in {40, 70, 90}}
Lost == Replay(10, -30, 60, 40)
Won == Replay(10, 40, 180, 40)
MCReports ==
  [periods : {<<f>> : f \in MCFigures},
   symbols : {<<>>, <<Replay(30, 30, 160, 30)>>, <<Replay(30, 40, 160, 30), Replay(10, 10, 150, 60)>>,
              <<Replay(30, 30, 160, 30), Replay(30, 25, 150, 30), Replay(6, 30, 140, 40)>>,
              <<Replay(9, -30, 60, 50), Replay(9, 20, 140, 20)>>},
   frames : {<<Replay(10, 8, 110, 45)>>},
   windows : {<<>>, <<Lost, Lost>>, <<Won, Lost, Won>>, <<Won, Won, Won>>},
   gated : {0, 60}, guarded : {Replay(25, 10, 130, 30)},
   governed : {[trades |-> 60, ev |-> 10, pf |-> 130, perDay |-> 2, dd |-> dd] : dd \in {40, 90}}]

Inputs ==
  CASE topic = "signal"   -> Contexts
    [] topic = "decision" -> {d \in Decisions : d.raw <= d.surer}
    [] topic = "bounce"   -> SeriesSet
    [] topic = "curve"    -> Curves
    [] topic = "edge"     -> Reports
    [] topic = "mind"     -> ObservationSets
    [] topic = "ideas"    -> HypothesisSets
    [] OTHER              -> {Null}

-----------------------------------------------------------------------------
Init ==
  /\ topic \in Topics
  /\ input \in Inputs
  /\ Strategy!StrategyInit /\ (topic # "strategy" => ~invert)
  /\ Replays!Init /\ (topic # "replays" => stopMethod = "baseline" /\ entryMethod = "immediate")
  /\ Memory!Init
  /\ Belief!Init
  /\ Lab!Init
  /\ Micro!Init

StrategyStep ==
  /\ topic = "strategy" /\ Strategy!StrategyNext
  /\ UNCHANGED <<topic, input, replayVars, memoryVars, beliefVars, labVars, books>>
ReplayStep ==
  /\ topic = "replays" /\ Replays!Next
  /\ UNCHANGED <<topic, input, strategyVars, memoryVars, beliefVars, labVars, books>>
MemoryStep ==
  /\ topic = "memory" /\ Memory!Next
  /\ UNCHANGED <<topic, input, strategyVars, replayVars, beliefVars, labVars, books>>
BeliefStep ==
  /\ topic = "beliefs" /\ Belief!Next
  /\ UNCHANGED <<topic, input, strategyVars, replayVars, memoryVars, labVars, books>>
LabStep ==
  /\ topic = "lab" /\ Lab!Next
  /\ UNCHANGED <<topic, input, strategyVars, replayVars, memoryVars, beliefVars, books>>
BookStep ==
  /\ topic = "books" /\ Micro!Next
  /\ UNCHANGED <<topic, input, strategyVars, replayVars, memoryVars, beliefVars, labVars>>
Next == StrategyStep \/ ReplayStep \/ MemoryStep \/ BeliefStep \/ LabStep \/ BookStep

Spec == Init /\ [][Next]_vars

ASSUME MCResearchAssumption ==
  /\ Contexts \subseteq Signal!SignalContext
  /\ \A d \in Decisions : Decision!IsDecision(d)
  /\ \A hyps \in HypothesisSets : Ideas!AreGenerated(hyps)
  /\ Reports \subseteq Edge!Report /\ Figures \subseteq Edge!Result
  /\ \A obs \in ObservationSets : obs \in Seq(Mind!Observation)
  /\ \A cs \in SeriesSet : cs \in Seq(Bounce!Candle)
  /\ Volumes \subseteq Nat /\ Bounce!Limits
  /\ Strategy!StrategyLimits /\ Replays!Limits /\ Memory!Limits /\ Belief!Limits /\ Lab!Limits /\ Micro!Limits

-----------------------------------------------------------------------------
(* The filters never agree with the votes: a reclaimed sweep confirms what it*)
(* does not vote for, sweeps and gaps stop being recent for good, and some thresholds*)
(* of the quality gate never are the one that refuses.                     *)
FiltersNeverAgree ==
  topic = "strategy" =>
    Strategy!ReclaimNeverConfirms /\ Strategy!RecencyEnds /\ Strategy!ThresholdsIdle
(* An exit at the stop never gains, and the candle of the entry does not end a*)
(* trade whose stop is made of its range.                                  *)
ExitsAreFair == topic = "replays" => Replays!StopsNeverPay /\ Replays!EntryCandleSpares
(* An approved plan keeps ratio and risk at every price of its entry zone. *)
WorstFillHolds == topic = "signal" => Signal!WorstFillHolds(input)
(* A trade that is accepted stays so when it is surer to win; what the      *)
(* validation gate admits has profited throughout, and not by chance.       *)
DecisionsAreEarned ==
  /\ topic = "decision" => Decision!SurerStaysAccepted(input.raw, input.surer, input.m)
  /\ topic = "lab" => Lab!AdmittedIsEarned
(* No backtest's trade loses more than its risk or gains more than its target,*)
(* an expired one neither as much; nor does asking more candles for volume   *)
(* take fewer trades.                                                        *)
BacktestsBounded ==
  topic = "bounce" =>
    \A halves \in Volumes :
      Bounce!ResultsBounded(input, halves) /\ Bounce!EitherTakesMore(input, halves)
(* A library that could be opened holds every case whose saving returned;   *)
(* remembering one more loss never raises the confidence; and a belief that *)
(* was rejected never dominates while another one is active.                *)
MemoryHolds == []Memory!NoSilentLoss /\ Memory!LossNeverHelps /\ []Belief!DominantIsActive
(* A rejected belief loses weight only to evidence.  Of finished trades,    *)
(* episodes, clusters and the drawdowns of the symbols tell the same as     *)
(* their curve.                                                             *)
EvidenceDecides ==
  Belief!RejectedLoseToEvidence /\ [](topic = "curve" => Equity!CurveIsExplained(input))
(* Once the order book has stood still for the length of every history, what *)
(* it showed before makes no order suspect: neither walls that came and went *)
(* nor spreads that jumped.                                                  *)
BooksCalmDown == topic = "books" => Micro!CalmsDown
(* What the robustness lab calls robust has profited in most windows, by more*)
(* than one symbol, and its verdict over two symbols is no worse when a      *)
(* period or window was better.                                             *)
VerdictsAreBroad ==
  topic = "edge" =>
    Edge!RobustIsBroad(input) /\ Edge!BetterNeverWorse(input, Figures)
(* A trade that is ready for paper has all judges agree on it, and no telling*)
(* word unsaid would make it less ready.                                    *)
JudgedSoundly == topic = "mind" => Mind!JudgedSoundly(input)
(* A falsified hypothesis neither wins nor outranks one that may be traded.*)
FalsifiedNeverWin == topic = "ideas" => Ideas!FalsifiedNeverWin(input)
=============================================================================
