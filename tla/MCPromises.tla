------------------------------ MODULE MCPromises ------------------------------
(***************************************************************************)
(* What the texts of the repository say of four parts and none of them     *)
(* does.  The parts share nothing: while candles come to the engines of    *)
(* SmartMoney, the launch check of LiveGates runs over files that change;  *)
(* windows of OrderFlow and series of BollingerBacktest are inputs.        *)
(***************************************************************************)
EXTENDS Integers, Sequences, TLC

CONSTANTS
  Tape, WindowSize, Lookback, RangeWindow, SqueezeBars, RecentBars, GapMin, GapSmall, GapLarge,
  ScoreThreshold,                                               \* SmartMoney
  Pairs, Results, MaxEdits,                                     \* LiveGates
  Flows,                                                        \* OrderFlow
  SeriesSet, Volumes, BandPeriod, BandSlack, BandWidth, BandRatio, BandVolume, VolumeBack,
  BandHolding                                                   \* BollingerBacktest

VARIABLES
  time, candles, highs, lows, equalHighs, equalLows, sweeps, gaps, blocks, found, lsm, plan,
  config, report, yaml, verdict, edits

smartVars == <<time, candles, highs, lows, equalHighs, equalLows, sweeps, gaps, blocks, found, lsm, plan>>
gateVars == <<config, report, yaml, verdict, edits>>
vars == <<smartVars, gateVars>>

(* Quiet candles, a leap that leaves a gap behind, and a fall back.         *)
C(o, h, l, c, v) == [o |-> o, h |-> h, l |-> l, c |-> c, v |-> v]
Quiet == C(1000, 1001, 999, 1000, 1)
Leap == C(1001, 1012, 1000, 1011, 4)
Above == C(1011, 1016, 1007, 1015, 2)
Back == C(1010, 1011, 996, 997, 2)
MCTape == <<{Quiet, Leap}, {Leap, Back}, {Above, Back}, {Above, Quiet}>>
Smart == INSTANCE SmartMoney WITH
  Menu <- Tape, Window <- WindowSize, Squeeze <- SqueezeBars, Recent <- RecentBars

(* A pair that earned what the check asks for, and one that drew down.      *)
MCResults == {[trades |-> 9, ev |-> 1, pf |-> 2, dd |-> 3], [trades |-> 9, ev |-> 1, pf |-> 2, dd |-> 12]}
Gates == INSTANCE LiveGates

Flow == INSTANCE OrderFlow
Prints(a, b, c, d, e) ==
  Flow!Window(<<"buy", 1>> :> a @@ <<"buy", 2>> :> b @@ <<"sell", 1>> :> c @@ <<"sell", 2>> :> d
              @@ <<"unknown", 1>> :> e)
Windows == {Prints(a, b, c, d, e) : a, c \in {0, 1, 3, 22}, b, d \in {0, 1, 4}, e \in {0, 4}}
Earlier == {<<Prints(9, 0, 9, 0, 0), Prints(2, 0, 9, 0, 0)>>,
            <<Prints(1, 0, 0, 9, 0), Prints(5, 0, 5, 0, 0)>>}
MCFlows ==
  [windows : {Append(e, w) : e \in Earlier, w \in Windows} \cup {<<w>> : w \in Windows},
   earlier : {10}, price : {9, 10, 11}, stuck : BOOLEAN]

Bounce == INSTANCE BollingerBacktest WITH
  Period <- BandPeriod, Slack <- BandSlack, Deviations <- BandWidth, Ratio <- BandRatio,
  MinVolume <- BandVolume, Lookback <- VolumeBack, MaxHolding <- BandHolding
MCSeries == [1 .. 7 -> {C(2000, 2004, 1998, 2001, 2), C(2001, 2002, 1985, 1988, 3),
                        C(1990, 2009, 1989, 2000, 8), C(2010, 2030, 2008, 2025, 2)}]

-----------------------------------------------------------------------------
Init == Smart!Init /\ Gates!Init
CandleStep == Smart!Next /\ UNCHANGED gateVars
GateStep == Gates!Next /\ UNCHANGED smartVars
Next == CandleStep \/ GateStep
Spec == Init /\ [][Next]_vars

-----------------------------------------------------------------------------
(* Of four promises at least one is kept, wherever the program is:          *)
(*   - a fresh order block that price has not come back to adds to the      *)
(*     confluence (README of the repository, OrderBlockDetector and         *)
(*     ConfluenceEngine);                                                   *)
(*   - a launch that is let pass has a good line in the latest report for   *)
(*     each allowed pair (docstring of launch_check.py, gate 5);            *)
(*   - some windows of trades make a trap that blocks a trade (README,      *)
(*     TrapDetector and InstitutionalOrderFlowReport);                      *)
(*   - the backtest of "volume on SIGNAL candle" takes the signals whose    *)
(*     own candle has the volume (docstring of volume_breakout_backtest.py).*)
(* The counterexample is a state in which not a single one holds.           *)
SomePromiseKept ==
  \/ Smart!BlocksScore
  \/ Gates!LaunchIsBacked
  \/ \E f \in Flows : Flow!BlocksTrade(f)
  \/ \A cs \in SeriesSet, halves \in Volumes : Bounce!SignalVolume(cs, halves)
=============================================================================
