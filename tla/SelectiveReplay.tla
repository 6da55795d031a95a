--------------------------- MODULE SelectiveReplay ---------------------------
(***************************************************************************)
(* The replay of scripts/run_selective_replay.py: a loop over the candles  *)
(* of one symbol in which the strategy engine may approve a candidate, the *)
(* DailySelector chooses among all candidates of the day so far, and the   *)
(* TradeSimulator runs a plan for every candidate that was allowed.        *)
(*                                                                         *)
(* Time is the index of a candle.  Whether a candle has a candidate, its   *)
(* direction and its scores, and which levels a candle touches, are        *)
(* inputs: detectors, scorer and prices are not modelled.  A candidate is  *)
(* known by its candle, for the loop registers one per candle.             *)
(***************************************************************************)
EXTENDS Integers, Sequences, FiniteSets

CONSTANTS
  None,               \* no trade yet
  Qualities,          \* scores a candidate may have
  DayOf,              \* the day of each candle
  HardMax,            \* hard_max_per_day
  MaxLosses,          \* max_losses_per_day
  SymbolCooldown,     \* same_symbol_cooldown_minutes, in candles
  DirectionCooldown,  \* same_direction_cooldown_minutes, in candles
  MinConfluence, MinConfidence, MaxRisk, LossStep, \* gate, step per loss
  MaxHolding,         \* candles after which a trade is closed
  MaxCandles          \* bound: length of the data

Directions == {"LONG", "SHORT"}

(* rank: order of rank_score; confluence, confidence: in tenths of the most *)
(* possible; fit: meets the thresholds that losses do not move.             *)
ASSUME SelectiveReplayAssumption ==
  /\ None \notin Nat
  /\ Qualities \subseteq [rank : Nat, confluence : 0..10, confidence : 0..10, fit : BOOLEAN]
  /\ DayOf \in [0..MaxCandles -> Nat]
  /\ \A j, k \in 0..MaxCandles : j <= k => DayOf[j] <= DayOf[k]
  /\ HardMax \in Nat /\ MaxLosses \in Nat
  /\ SymbolCooldown \in Nat \ {0} /\ DirectionCooldown \in Nat
  /\ MinConfluence \in Nat /\ MinConfidence \in Nat /\ MaxRisk \in Nat /\ LossStep \in Nat
  /\ MaxHolding \in Nat /\ MaxCandles \in Nat

VARIABLES
  clock,     \* the candle
  cands,     \* _daily_candidates of the day
  count,     \* _daily_counts of the day
  losses,    \* _daily_losses of the day
  lastSym,   \* _last_trade_by_symbol
  lastDir,   \* _last_trade_by_direction
  pc,        \* next candle, in select_for_day, or trading its results
  todo,      \* candidates that select_for_day has yet to visit
  allowed,   \* its allowed results, in order
  active,    \* _active_trades with their holding_candles
  completed  \* _completed_trades with their exit_reason

selector == <<cands, count, losses, lastSym, lastDir>>
simulator == <<active, completed>>
vars == <<clock, selector, pc, todo, allowed, simulator>>

Candidates == [at : 1..MaxCandles, dir : Directions, q : Qualities]
(* A trade: candle of its entry, candidate it was opened for, direction.    *)
TradeIds == [at : 1..MaxCandles, for : 1..MaxCandles, dir : Directions]
Trades == DOMAIN active \cup DOMAIN completed

-----------------------------------------------------------------------------
(* DailySelector                                                           *)

Least(a, b) == IF a <= b THEN a ELSE b

(* QualityGate with the thresholds of a day with n losses: confluence and   *)
(* confidence must be better, yet more risk is accepted.  risk_score is     *)
(* what confluence leaves of 100, and 50 without any.                       *)
Risk(q) == IF q.confluence > 0 THEN 10 - q.confluence ELSE 5
Passes(q, n) ==
  /\ q.fit
  /\ q.confluence >= MinConfluence + LossStep * n
  /\ q.confidence >= Least(MinConfidence + LossStep * n, 10)
  /\ Risk(q) <= Least(MaxRisk + n, 10)

(* Slip: the distance in time, whichever came first.                        *)
CoolingByDistance(at, last, cooldown) ==
  last # None /\ (IF at >= last THEN at - last ELSE last - at) < cooldown

Cooling(at, last, cooldown) == last # None /\ at - last < cooldown

Refused(c) ==
  \/ count >= HardMax
  \/ losses >= MaxLosses
  \/ ~Passes(c.q, losses)
  \/ Cooling(c.at, lastDir[c.dir], DirectionCooldown)
  \/ Cooling(c.at, lastSym, SymbolCooldown)

(* The list is sorted by rank; the sort is stable and new ones come last.   *)
Before(c, d) == c.q.rank > d.q.rank \/ (c.q.rank = d.q.rank /\ c.at < d.at)
IsNext(c) == \A d \in todo \ {c} : Before(c, d)

-----------------------------------------------------------------------------
Init ==
  /\ clock = 0 /\ cands = {} /\ count = 0 /\ losses = 0
  /\ lastSym = None /\ lastDir = [d \in Directions |-> None]
  /\ pc = "candle" /\ todo = {} /\ allowed = <<>>
  /\ active = [t \in {} |-> 0] /\ completed = [t \in {} |-> "stop"]

(* The next candle; counts are kept by day.                                 *)
Advance ==
  /\ pc = "candle" /\ clock < MaxCandles /\ clock' = clock + 1
  /\ IF DayOf[clock + 1] = DayOf[clock]
     THEN UNCHANGED <<count, losses>>
     ELSE count' = 0 /\ losses' = 0
  /\ UNCHANGED <<lastSym, lastDir, allowed, simulator>>
OfDay(cs) == {c \in cs : DayOf[c.at] = DayOf[clock']}

(* No direction, or not approved: the loop goes on, without the simulator.  *)
Skip ==
  /\ Advance /\ cands' = OfDay(cands)
  /\ UNCHANGED <<pc, todo>>

(* A candidate is registered and the selector asked about its day; on a day *)
(* with too many losses it answers at once.                                 *)
Register(c) ==
  /\ Advance /\ c.at = clock'
  /\ cands' = OfDay(cands) \cup {c}
  /\ IF losses' >= MaxLosses
     THEN UNCHANGED <<pc, todo>>
     ELSE pc' = "select" /\ todo' = cands'

(* Slip: the direction's last trade is not noted.                           *)
AllowForgetful(c) ==
  /\ pc = "select" /\ c \in todo /\ IsNext(c) /\ ~Refused(c)
  /\ count' = count + 1 /\ lastSym' = c.at
  /\ todo' = todo \ {c} /\ allowed' = Append(allowed, c)
  /\ UNCHANGED <<clock, cands, losses, lastDir, pc, simulator>>

Allow(c) ==
  /\ pc = "select" /\ c \in todo /\ IsNext(c) /\ ~Refused(c)
  /\ count' = count + 1 /\ lastSym' = c.at
  /\ lastDir' = [lastDir EXCEPT ![c.dir] = c.at]
  /\ todo' = todo \ {c} /\ allowed' = Append(allowed, c)
  /\ UNCHANGED <<clock, cands, losses, pc, simulator>>

Reject(c) ==
  /\ pc = "select" /\ c \in todo /\ IsNext(c) /\ Refused(c)
  /\ todo' = todo \ {c}
  /\ UNCHANGED <<clock, selector, pc, allowed, simulator>>

Selected ==
  /\ pc = "select" /\ todo = {} /\ pc' = "trade"
  /\ UNCHANGED <<clock, selector, todo, allowed, simulator>>

-----------------------------------------------------------------------------
(* TradeSimulator                                                          *)

(* The stop comes first when a candle touches both levels.                  *)
Exit(held, touched) ==
  CASE "stop" \in touched   -> "stop"
    [] touched = {"target"} -> "target"
    [] OTHER -> IF held + 1 > MaxHolding THEN "time" ELSE "open"

Standing(ts, exits) == {t \in ts : exits[t] = "open"}

(* record_outcome is called for what process_candle returns, opened and     *)
(* closed; an opened trade has net_r = 0 and so is recorded as a loss.      *)
LossesRecorded(lost) == 1 + Cardinality(lost)

(* A plan for the first allowed result: entry, stop and target are those of *)
(* the current candle's close and direction.  The candle contains its close *)
(* so the plan is entered; it touches the new stop, one and a half ranges   *)
(* away, only when its range is zero, and the target then too.  A trade     *)
(* that is stopped has lost; fees may turn any other exit into a loss.      *)
Trade ==
  /\ pc = "trade" /\ allowed # <<>>
  /\ \E c \in cands, flat \in BOOLEAN :
       LET new == [at |-> clock, for |-> Head(allowed).at, dir |-> c.dir]
           ts == DOMAIN active \cup {new}
           held == [t \in ts |-> IF t \in DOMAIN active THEN active[t] ELSE 0]
       IN /\ c.at = clock
          /\ \E touched \in [ts -> SUBSET {"stop", "target"}] :
               LET exits == [t \in ts |-> Exit(held[t], touched[t])]
                   closed == {t \in ts : exits[t] # "open"}
               IN /\ touched[new] = IF flat THEN {"stop", "target"} ELSE {}
                  /\ active' = [t \in Standing(ts, exits) |-> held[t] + 1]
                  /\ completed' = [t \in closed \cup DOMAIN completed |->
                                   IF t \in closed THEN exits[t] ELSE completed[t]]
                  /\ \E won \in SUBSET {t \in closed : exits[t] # "stop"} :
                       losses' = losses + LossesRecorded(closed \ won)
  /\ allowed' = Tail(allowed)
  /\ UNCHANGED <<clock, cands, count, lastSym, lastDir, pc, todo>>

Traded ==
  /\ pc = "trade" /\ allowed = <<>> /\ pc' = "candle"
  /\ UNCHANGED <<clock, selector, todo, allowed, simulator>>

Next ==
  \/ Skip
  \/ \E c \in Candidates : Register(c)
  \/ \E c \in todo : Allow(c) \/ Reject(c)
  \/ Selected \/ Trade \/ Traded

Spec == Init /\ [][Next]_vars

-----------------------------------------------------------------------------
(* Fields have their types, and a trade is completed once: none is both     *)
(* active and completed.                                                    *)
TypeOK ==
  /\ clock \in 0..MaxCandles /\ count \in Nat /\ losses \in Nat
  /\ cands \subseteq Candidates /\ todo \subseteq cands
  /\ lastSym \in 1..MaxCandles \cup {None}
  /\ lastDir \in [Directions -> 1..MaxCandles \cup {None}]
  /\ pc \in {"candle", "select", "trade"} /\ allowed \in Seq(Candidates)
  /\ Trades \subseteq TradeIds
  /\ active \in [DOMAIN active -> Nat]
  /\ completed \in [DOMAIN completed -> {"stop", "target", "time"}]
  /\ DOMAIN active \cap DOMAIN completed = {}

(* The plan is made from the current candle whichever candidate was allowed *)
(* so only the candidate of the current candle may be.  The selector looks  *)
(* at every candidate of the day again on every candle, and its thresholds  *)
(* move both ways; an earlier one must never be allowed late.               *)
PlanMatchesCandidate == \A t \in Trades : t.for = t.at

(* Trades keep the cooldowns, also over midnight.                           *)
Spaced ==
  \A t, u \in Trades : t.at < u.at =>
    /\ u.at - t.at >= SymbolCooldown
    /\ t.dir = u.dir => u.at - t.at >= DirectionCooldown

(* No day has more trades than either of its limits.  That losses limit the *)
(* number of trades is an effect of counting openings as losses.            *)
OnDay(d) == {t \in Trades : DayOf[t.at] = d}
DailyBound ==
  \A d \in {DayOf[k] : k \in 0..MaxCandles} :
    Cardinality(OnDay(d)) <= HardMax /\ Cardinality(OnDay(d)) <= MaxLosses

(* Trades keep both: they are apart in time and few in a day.               *)
WithinLimits == Spaced /\ DailyBound

(* Losses that the selector counts are trades that were closed.             *)
LossesAreLosses == losses <= Cardinality(DOMAIN completed)
=============================================================================
