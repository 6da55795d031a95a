---------------------------- MODULE GovernedReplay ----------------------------
(***************************************************************************)
(* The replay of robustness_lab/replay_runner.py under the RiskGovernor of *)
(* drawdown_control: on a candle whose candidate the selector allows, the  *)
(* governor is asked, and only if it agrees does the TradeSimulator see    *)
(* the candle.  What the simulator closes is then told to the governor,    *)
(* one trade at a time, under the day of the trade's signal.               *)
(*                                                                         *)
(* Results are whole multiples of R.  Whether a candle has an allowed      *)
(* candidate, its grade, which trades a candle closes and with what result *)
(* are inputs; SelectiveReplay models where they come from.                *)
(***************************************************************************)
EXTENDS Integers, Sequences, FiniteSets, Functions

CONSTANTS
  Results,        \* net results of trades in R
  DayOf,          \* day of each candle
  WeekOf,         \* week of each day
  MaxDailyLoss, MaxWeeklyLoss,     \* max_daily_loss_r, max_weekly_loss_r
  MaxDayStreak, MaxStreak,         \* consecutive losses of a day, in total
  Defensive, Preservation,         \* drawdown thresholds
  Short, Long,                     \* windows of 10 and of 20 trades
  MaxCandles      \* bound: length of the data

Limits ==
  /\ Results \subseteq Int /\ MaxCandles \in Nat
  /\ DayOf \in [1 .. MaxCandles -> Nat]
  /\ \A i, j \in 1 .. MaxCandles : i <= j => DayOf[i] <= DayOf[j]
  /\ WeekOf \in [{DayOf[i] : i \in 1 .. MaxCandles} -> Nat]
  /\ {MaxDailyLoss, MaxWeeklyLoss, MaxDayStreak, MaxStreak} \subseteq Nat \ {0}
  /\ {Defensive, Preservation, Short, Long} \subseteq Nat \ {0}

VARIABLES
  clock,      \* the candle
  open,       \* active trades of the simulator: the candles of their signals
  closing,    \* trades of this candle still to be told to the governor
  log,        \* _all_trades: candle of the signal and result
  streak,     \* _consecutive_losses
  dayStreak,  \* _daily_consecutive
  lastDay,    \* _last_day, 0 before the first
  cum, peak,  \* _cumulative_r, _peak_r
  stats       \* gov_stats

governor == <<log, streak, dayStreak, lastDay, cum, peak>>
vars == <<clock, open, closing, governor, stats>>

Candles == 1 .. MaxCandles
Grades == {"A_PLUS", "B"}
Trades == [at : Candles, r : Results]
Causes == {"daily_loss", "weekly_loss", "drawdown_mode", "rolling_perf", "consecutive_losses"}

Greater(a, b) == IF a >= b THEN a ELSE b
(* What the trades at some places of the log add up to.                     *)
SumR(places) == FoldFunctionOnSet(LAMBDA t, sum : t.r + sum, 0, log, places)
LastOf(n) == Greater(1, Len(log) - n + 1) .. Len(log)
OnDay(day) == {n \in DOMAIN log : DayOf[log[n].at] = day}
LossOn(day) == SumR(OnDay(day))
LossIn(week) == SumR({n \in DOMAIN log : WeekOf[DayOf[log[n].at]] = week})
Wins(places) == {n \in places : log[n].r > 0}
Losses(places) == places \ Wins(places)
Drawdown == peak - cum

(* _build_decision: the first rule that objects, "" if none does.  The      *)
(* profit factor is below one when wins are worth less than losses, which   *)
(* are worth something.                                                     *)
Poor(places) == SumR(Losses(places)) # 0 /\ SumR(Wins(places)) < -SumR(Losses(places))
(* Mutant: one more loss of the day is let through, and no day has a streak. *)
ObjectionLate(day, inDay, grade) ==
  CASE Drawdown >= Preservation -> "drawdown preservation"
    [] Drawdown >= Defensive /\ grade # "A_PLUS" -> "drawdown defensive"
    [] LossOn(day) < -MaxDailyLoss -> "daily loss"
    [] LossIn(WeekOf[day]) <= -MaxWeeklyLoss -> "weekly loss"
    [] streak >= MaxStreak -> "streak"
    [] OTHER -> ""
Objection(day, inDay, grade) ==
  CASE Drawdown >= Preservation                        -> "drawdown preservation"
    [] Drawdown >= Defensive /\ grade # "A_PLUS"       -> "drawdown defensive"
    [] LossOn(day) <= -MaxDailyLoss                    -> "daily loss"
    [] LossIn(WeekOf[day]) <= -MaxWeeklyLoss           -> "weekly loss"
    [] streak >= MaxStreak                             -> "streak"
    [] inDay >= MaxDayStreak                           -> "day streak"
    [] Len(log) >= Short /\ SumR(LastOf(Short)) < 0 /\ grade # "A_PLUS" -> "rolling EV"
    [] Len(log) >= Long /\ Poor(LastOf(Long))          -> "rolling PF"
    [] OTHER -> ""

(* The loop looks for "daily loss" in "Daily loss ...", so losses of a day  *)
(* and of a week are counted as drawdown.                                   *)
CountedAs(reason) ==
  CASE reason \in {"streak", "day streak"}         -> "consecutive_losses"
    [] reason \in {"rolling EV", "rolling PF"}     -> "rolling_perf"
    [] OTHER                                       -> "drawdown_mode"

-----------------------------------------------------------------------------
Init ==
  /\ clock = 0 /\ open = {} /\ closing = <<>>
  /\ log = <<>> /\ streak = 0 /\ dayStreak = 0 /\ lastDay = 0 /\ cum = 0 /\ peak = 0
  /\ stats = [c \in Causes |-> 0]

Advance == closing = <<>> /\ clock < MaxCandles /\ clock' = clock + 1

(* No candidate, or none that the selector allows.                          *)
Skip == Advance /\ UNCHANGED <<open, closing, governor, stats>>

(* check_state: a new day starts its count of losses.                       *)
InDay(day) == IF day = lastDay THEN dayStreak ELSE 0
CheckState(day) ==
  /\ lastDay' = day /\ dayStreak' = InDay(day)
  /\ UNCHANGED <<log, streak, cum, peak>>

Blocked(grade) ==
  /\ Advance
  /\ LET day == DayOf[clock']
         reason == Objection(day, InDay(day), grade)
     IN /\ reason # ""
        /\ CheckState(day)
        /\ stats' = [stats EXCEPT ![CountedAs(reason)] = @ + 1]
  /\ UNCHANGED <<open, closing>>

(* process_candle: the plan is entered, and trades that the candle closes   *)
(* are returned in the order of their entries.  The new trade closes at     *)
(* once only on a candle without range, with a result of zero.              *)
Results0 == Results \cup {0}
InOrder(candles) ==
  [i \in 1 .. Cardinality(candles) |-> CHOOSE c \in candles : Cardinality({d \in candles : d <= c}) = i]
Admitted(grade) ==
  /\ Advance
  /\ LET day == DayOf[clock']
     IN Objection(day, InDay(day), grade) = "" /\ CheckState(day)
  /\ \E done \in SUBSET (open \cup {clock'}) :
       \E result \in [done -> Results0] :
         /\ clock' \in done => result[clock'] = 0
         /\ open' = (open \cup {clock'}) \ done
         /\ LET entry == InOrder(done)
            IN closing' = [i \in DOMAIN entry |-> [at |-> entry[i], r |-> result[entry[i]]]]
  /\ UNCHANGED stats

(* evaluate, for the next closed trade; one without result is not told.     *)
Unchanged == UNCHANGED governor
(* Mutant: a loss ends the count of losses, not a win.                      *)
EvaluateReversed ==
  /\ closing # <<>> /\ closing' = Tail(closing)
  /\ LET t == Head(closing)
     IN IF t.r = 0 THEN Unchanged
        ELSE /\ log' = Append(log, t)
             /\ cum' = cum + t.r /\ peak' = Greater(peak, cum')
             /\ lastDay' = DayOf[t.at]
             /\ dayStreak' = InDay(DayOf[t.at])
             /\ streak' = IF t.r <= 0 THEN 0 ELSE streak + 1
  /\ UNCHANGED <<clock, open, stats>>
Evaluate ==
  /\ closing # <<>> /\ closing' = Tail(closing)
  /\ LET t == Head(closing)
         day == DayOf[t.at]
         loss == t.r <= 0
     IN IF t.r = 0 THEN Unchanged
        ELSE /\ log' = Append(log, t)
             /\ cum' = cum + t.r /\ peak' = Greater(peak, cum')
             /\ lastDay' = day
             /\ dayStreak' = InDay(day) + IF loss THEN 1 ELSE 0
             /\ streak' = IF loss THEN streak + 1 ELSE 0
  /\ UNCHANGED <<clock, open, stats>>

Next == Skip \/ Evaluate \/ \E g \in Grades : Blocked(g) \/ Admitted(g)

Spec == Init /\ [][Next]_vars

-----------------------------------------------------------------------------
TypeOK ==
  /\ clock \in 0 .. MaxCandles /\ open \in SUBSET Candles
  /\ closing \in Seq([at : Candles, r : Results0]) /\ log \in Seq(Trades)
  /\ streak \in Nat /\ dayStreak \in Nat /\ lastDay \in Nat
  /\ cum \in Int /\ peak \in Nat
  /\ stats \in [Causes -> Nat]

(* The counters the governor keeps step by step are those of the trades it  *)
(* was told about: the drawdown from the highest point, the losses since    *)
(* the last win, and no more losses of a day than that day has.             *)
Equity(n) == SumR(1 .. n)
AtEnd(n) == \A i \in Len(log) - n + 1 .. Len(log) : log[i].r < 0
CountersMatchLog ==
  /\ cum = Equity(Len(log))
  /\ peak >= 0 /\ \A n \in 0 .. Len(log) : Equity(n) <= peak
  /\ \E n \in 0 .. Len(log) : Equity(n) = peak
  /\ streak <= Len(log) /\ AtEnd(streak) /\ (streak < Len(log) => ~AtEnd(streak + 1))
  /\ dayStreak <= Cardinality({n \in OnDay(lastDay) : log[n].r < 0})

(* A trade is entered only within every limit, reckoned from the trades     *)
(* themselves at the moment of entry.                                       *)
EnteredWithinLimits ==
  [][clock' \in open' /\ clock' # clock =>
       /\ LossOn(DayOf[clock']) > -MaxDailyLoss
       /\ LossIn(WeekOf[DayOf[clock']]) > -MaxWeeklyLoss
       /\ Len(log) < MaxStreak \/ ~AtEnd(MaxStreak)
       /\ \A n \in 0 .. Len(log) : Equity(n) - Equity(Len(log)) < Preservation]_vars

(* What only a new trade can undo, the block on new trades keeps: after a   *)
(* full streak, or a drawdown that calls for preservation, nothing is       *)
(* entered and nothing is closed again, whatever the market does.           *)
Locked == closing = <<>> /\ (streak >= MaxStreak \/ Drawdown >= Preservation)
LockedForGood == [][Locked => Locked' /\ UNCHANGED <<open, log>>]_vars

(* A trade is told to the governor at most once, after it was entered.      *)
ToldOnce ==
  /\ \A i, j \in DOMAIN log : log[i].at = log[j].at => i = j
  /\ \A i \in DOMAIN log : log[i].at \notin open /\ log[i].at <= clock

=============================================================================
