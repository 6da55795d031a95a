----------------------------- MODULE PaperLedger -----------------------------
(***************************************************************************)
(* One paper portfolio, rewritten by one run after another of              *)
(* production_replay/paper_execution_ledger.py.                            *)
(*                                                                         *)
(* Two files outlive a run: runtime_state/paper_portfolio.json (portfolio) *)
(* and runtime_state/paper_trades.jsonl (ledger); the status report        *)
(* deploy_results/paper_execution_status.json (report) is read by the      *)
(* outcome validator.  A run reads the portfolio, expires stale entries,   *)
(* invalidates trades whose family lost its promotion, monitors the rest   *)
(* against a price, tries to open one trade from the shadow intent and one *)
(* from the rotation report, and only then rewrites the portfolio.  Every  *)
(* ledger line is appended as it happens, so a run that dies (the pipeline *)
(* kills it after 30 s; an exception ends it) leaves ledger and portfolio  *)
(* apart.                                                                  *)
(***************************************************************************)
EXTENDS Integers, Sequences, FiniteSets, SequencesExt

CONSTANTS
  Intents,      \* plans the two sources may offer: [sym, side, entry, stop, target, family]
  NoIntent,     \* "nothing to open" in a source
  Trusted,      \* BB_RSI_TRUSTED_FAMILIES
  Promotable,   \* other families the arbiter report may promote
  Quotes,       \* prices the ticker may answer; 0 is "no price"
  Sizes,        \* notionals exchange sizing may produce, in 1/1000 USDT; 0 is "not ok"
  MaxActive,    \* PAPER_MAX_ACTIVE_TRADES
  MaxNotional,  \* PAPER_MAX_PORTFOLIO_NOTIONAL_USDT, in 1/1000 USDT
  StaleAfter,   \* STALE_TRADE_TIMEOUT_HOURS, in clock units
  MaxTrades,    \* bound: trades ever opened
  MaxClock,     \* bound: clock
  MaxKills      \* bound: runs that die

ASSUME PaperLedgerAssumption ==
  /\ MaxActive \in Nat /\ MaxNotional \in Nat /\ StaleAfter \in Nat
  /\ MaxTrades \in Nat /\ MaxClock \in Nat /\ MaxKills \in Nat
  /\ Quotes \subseteq Nat
  /\ Sizes \subseteq Nat
  /\ NoIntent \notin Intents
  /\ \A i \in Intents :
        /\ i.side \in {"LONG", "SHORT"}
        /\ i.entry \in Nat /\ i.stop \in Nat /\ i.target \in Nat

VARIABLES
  portfolio,  \* paper_portfolio.json: the open trades; an unreadable file is <<>>
  ledger,     \* paper_trades.jsonl
  report,     \* paper_execution_status.json: its active_count
  clock,      \* wall clock, in units of StaleAfter
  nextId,     \* identity of the next trade (the code's opened_at)
  kills,      \* runs that died so far
  pc,         \* where the run is; "idle" between runs
  inbox,      \* the reports the run read at its start
  todo,       \* trades the current loop has still to visit
  kept,       \* trades it has visited and that are still PAPER_OPEN
  opened      \* len(new_trades_opened)

disk == <<portfolio, ledger, report>>
process == <<pc, inbox, todo, kept, opened>>
vars == <<portfolio, ledger, report, clock, nextId, kills,
          pc, inbox, todo, kept, opened>>

NoFill == 0

Trade == [id : Nat, plan : Intents, notional : Nat, fill : Nat, opened : Nat]
Events == {"PAPER_OPEN", "PAPER_STALE_EXPIRED", "LEGACY_INVALIDATED", "PAPER_CLOSED"}
Entry == [trade : Trade, event : Events, exit : Nat,
          reason : {"none", "STALE_UNFILLED", "NOT_PROMOTED", "STOP_HIT", "TARGET_HIT"}]
Inbox == [shadow : Intents \cup {NoIntent}, rotation : Intents \cup {NoIntent},
          promoted : SUBSET Promotable]
Phases == {"idle", "expire", "legacy", "monitor", "shadow", "rotation",
           "truncate", "dump", "report"}

EmptyInbox == [shadow |-> NoIntent, rotation |-> NoIntent, promoted |-> {}]

-----------------------------------------------------------------------------
(* Pure helpers of the module.                                             *)

Line(t, event, reason, exit) ==
  [trade |-> t, event |-> event, reason |-> reason, exit |-> exit]

(* _check_promotion_gate: trusted families always, others by their tier. *)
Allowed(family, promoted) == family \in Trusted \/ family \in promoted

CanEnter(i, price) ==
  IF i.side = "LONG" THEN price >= i.entry ELSE price <= i.entry
StopReached(i, price) ==
  IF i.side = "LONG" THEN price <= i.stop ELSE price >= i.stop
TargetReached(i, price) ==
  IF i.side = "LONG" THEN price >= i.target ELSE price <= i.target

(* _check_hit: a waiting trade has to reach its entry first, and the stop   *)
(* is looked at before the target.                                          *)
CheckHit(i, price, entered) ==
  IF ~entered /\ ~CanEnter(i, price) THEN "WAITING"
  ELSE IF StopReached(i, price) THEN "STOP_HIT"
  ELSE IF TargetReached(i, price) THEN "TARGET_HIT"
  ELSE "ENTRY_FILLED"

Distance(a, b) == IF a >= b THEN a - b ELSE b - a

(* _monitor_trade fills a waiting trade only inside its stop and target and *)
(* no further than three risk distances from the entry.                     *)
Fillable(i, price) ==
  /\ CheckHit(i, price, FALSE) = "ENTRY_FILLED"
  /\ ~(Distance(i.stop, i.entry) > 0
       /\ Distance(price, i.entry) > 3 * Distance(i.stop, i.entry))

SameSlot(i, j) == i.sym = j.sym /\ i.side = j.side

(* _is_duplicate over the trades that are PAPER_OPEN. *)
IsDuplicate(i, trades) ==
  \E n \in 1..Len(trades) : SameSlot(trades[n].plan, i)

TotalNotional(trades) ==
  FoldLeft(LAMBDA sum, t : sum + t.notional, 0, trades)

(* round(notional, 2) on 1/1000 USDT *)
Cents(notional) == ((notional + 5) \div 10) * 10

(* Slips of Admissible: the count compared with <=, the new size left out   *)
(* of the sum, the duplicate looked for in the file the run started from.   *)
AdmissibleOneOver(i, size) ==
  /\ Allowed(i.family, inbox.promoted) /\ ~IsDuplicate(i, kept) /\ size > 0
  /\ Len(kept) <= MaxActive
  /\ TotalNotional(kept) + size <= MaxNotional
AdmissibleOldSum(i, size) ==
  /\ Allowed(i.family, inbox.promoted) /\ ~IsDuplicate(i, kept) /\ size > 0
  /\ Len(kept) < MaxActive
  /\ TotalNotional(kept) <= MaxNotional
AdmissibleOldFile(i, size) ==
  /\ Allowed(i.family, inbox.promoted) /\ ~IsDuplicate(i, portfolio) /\ size > 0
  /\ Len(kept) < MaxActive
  /\ TotalNotional(kept) + size <= MaxNotional

(* The gates of _attempt_add_trade: promotion, duplicate, sizing, count and *)
(* portfolio notional; the notional checked is the unrounded one.           *)
Admissible(i, size) ==
  /\ Allowed(i.family, inbox.promoted)
  /\ ~IsDuplicate(i, kept)
  /\ size > 0
  /\ Len(kept) < MaxActive
  /\ TotalNotional(kept) + size <= MaxNotional

(* _create_trade_from_data: the creation price fills the trade only when it *)
(* is already past the stop or the target.                                  *)
NewTrade(i, size, price) ==
  LET quote == IF price = 0 THEN i.entry ELSE price
      filled == CheckHit(i, quote, FALSE) \in {"STOP_HIT", "TARGET_HIT"}
  IN [id |-> nextId, plan |-> i, notional |-> Cents(size),
      fill |-> IF filled THEN quote ELSE NoFill, opened |-> clock]

-----------------------------------------------------------------------------
Init ==
  /\ portfolio = <<>> /\ ledger = <<>> /\ report = 0
  /\ clock = 0 /\ nextId = 1 /\ kills = 0
  /\ pc = "idle" /\ inbox = EmptyInbox
  /\ todo = <<>> /\ kept = <<>> /\ opened = 0

Tick ==
  /\ pc = "idle" /\ clock < MaxClock
  /\ clock' = clock + 1
  /\ UNCHANGED <<disk, nextId, kills, process>>

(* run_paper_execution reads its reports, the promotion tiers and the       *)
(* portfolio.  The shadow intent counts only when all four gates pass and   *)
(* its fields are positive, the rotation candidate only under               *)
(* ROTATE_TO_NEW_PAPER_TRADE; either is NoIntent otherwise.                 *)
Begin ==
  /\ pc = "idle"
  /\ \E s \in Intents \cup {NoIntent}, r \in Intents \cup {NoIntent},
        p \in SUBSET Promotable :
        inbox' = [shadow |-> s, rotation |-> r, promoted |-> p]
  /\ pc' = "expire" /\ todo' = portfolio /\ kept' = <<>>
  /\ opened' = 0
  /\ UNCHANGED <<disk, clock, nextId, kills>>

(* Slip: the age computed the wrong way round. *)
StaleSwapped(t) == t.fill = NoFill /\ t.opened - clock > StaleAfter

Stale(t) == t.fill = NoFill /\ clock - t.opened > StaleAfter

(* One round of the loop in _read_portfolio. *)
ExpireOne ==
  /\ pc = "expire" /\ todo # <<>>
  /\ todo' = Tail(todo)
  /\ LET t == Head(todo) IN
     \/ /\ Stale(t)
        /\ ledger' = Append(ledger, Line(t, "PAPER_STALE_EXPIRED", "STALE_UNFILLED", 0))
        /\ UNCHANGED kept
     \/ /\ ~Stale(t)
        /\ kept' = Append(kept, t)
        /\ UNCHANGED ledger
  /\ UNCHANGED <<portfolio, report, clock, nextId, kills, pc, inbox, opened>>

(* Slips of InvalidateOne: a filled trade is spared; nothing is recorded. *)
InvalidateOneSparesFilled ==
  /\ pc = "legacy" /\ todo # <<>>
  /\ todo' = Tail(todo)
  /\ kept' = IF Allowed(Head(todo).plan.family, inbox.promoted) \/ Head(todo).fill # NoFill
             THEN Append(kept, Head(todo)) ELSE kept
  /\ UNCHANGED <<disk, clock, nextId, kills, pc, inbox, opened>>
InvalidateOneSilently ==
  /\ pc = "legacy" /\ todo # <<>>
  /\ todo' = Tail(todo)
  /\ kept' = IF Allowed(Head(todo).plan.family, inbox.promoted)
             THEN Append(kept, Head(todo)) ELSE kept
  /\ UNCHANGED <<disk, clock, nextId, kills, pc, inbox, opened>>

(* One round of the legacy cleanup loop. *)
InvalidateOne ==
  /\ pc = "legacy" /\ todo # <<>>
  /\ todo' = Tail(todo)
  /\ LET t == Head(todo) IN
     \/ /\ ~Allowed(t.plan.family, inbox.promoted)
        /\ ledger' = Append(ledger, Line(t, "LEGACY_INVALIDATED", "NOT_PROMOTED", 0))
        /\ UNCHANGED kept
     \/ /\ Allowed(t.plan.family, inbox.promoted)
        /\ kept' = Append(kept, t)
        /\ UNCHANGED ledger
  /\ UNCHANGED <<portfolio, report, clock, nextId, kills, pc, inbox, opened>>

(* Slips of the monitor: every check refills the trade; stop and target are *)
(* looked at before the entry was reached.                                  *)
AfterFillAgain(t, price) ==
  IF price > 0 /\ Fillable(t.plan, price) THEN [t EXCEPT !.fill = price] ELSE t
OutcomeUnfilled(t, price) ==
  IF price > 0 THEN CheckHit(t.plan, price, TRUE) ELSE "WAITING"

(* _monitor_trade: the trade after the fill check at this price, and        *)
(* whether its stop or target ends it.                                      *)
AfterFill(t, price) ==
  IF price > 0 /\ t.fill = NoFill /\ Fillable(t.plan, price)
  THEN [t EXCEPT !.fill = price] ELSE t
Outcome(t, price) ==
  IF price > 0 /\ t.fill # NoFill THEN CheckHit(t.plan, price, TRUE) ELSE "WAITING"

(* Slip: the closed trade stays among those written back. *)
MonitorOneKeepsClosed ==
  /\ pc = "monitor" /\ todo # <<>>
  /\ todo' = Tail(todo)
  /\ \E price \in Quotes :
       LET t == AfterFill(Head(todo), price)
           hit == Outcome(t, price)
       IN /\ kept' = Append(kept, t)
          /\ ledger' = IF hit \in {"STOP_HIT", "TARGET_HIT"}
                       THEN Append(ledger, Line(t, "PAPER_CLOSED", hit, price)) ELSE ledger
  /\ UNCHANGED <<portfolio, report, clock, nextId, kills, pc, inbox, opened>>

(* One round of the monitor loop: a closed trade is appended to the ledger  *)
(* at once and leaves the open trades.                                      *)
MonitorOne ==
  /\ pc = "monitor" /\ todo # <<>>
  /\ todo' = Tail(todo)
  /\ \E price \in Quotes :
       LET t == AfterFill(Head(todo), price)
           hit == Outcome(t, price)
       IN \/ /\ hit \in {"STOP_HIT", "TARGET_HIT"}
             /\ ledger' = Append(ledger, Line(t, "PAPER_CLOSED", hit, price))
             /\ UNCHANGED kept
          \/ /\ hit \notin {"STOP_HIT", "TARGET_HIT"}
             /\ kept' = Append(kept, t)
             /\ UNCHANGED ledger
  /\ UNCHANGED <<portfolio, report, clock, nextId, kills, pc, inbox, opened>>

(* A loop that has visited every trade hands them to the next phase. *)
NextLoop(from, to) ==
  /\ pc = from /\ todo = <<>>
  /\ pc' = to /\ todo' = kept /\ kept' = <<>>
  /\ UNCHANGED <<disk, clock, nextId, kills, inbox, opened>>

EndMonitor ==
  /\ pc = "monitor" /\ todo = <<>>
  /\ pc' = "shadow"
  /\ UNCHANGED <<disk, clock, nextId, kills, inbox, todo, kept, opened>>

(* _attempt_add_trade opens the trade in memory and appends it to the       *)
(* ledger at once ...                                                       *)
Open(i) ==
  /\ i # NoIntent /\ nextId <= MaxTrades
  /\ \E size \in Sizes, price \in Quotes :
       /\ Admissible(i, size)
       /\ LET t == NewTrade(i, size, price) IN
          /\ kept' = Append(kept, t)
          /\ ledger' = Append(ledger, Line(t, "PAPER_OPEN", "none", 0))
  /\ nextId' = nextId + 1
  /\ opened' = opened + 1

(* ... or refuses it and changes nothing.                                   *)
Refuse(i) ==
  /\ i # NoIntent /\ nextId <= MaxTrades => \E size \in Sizes : ~Admissible(i, size)
  /\ UNCHANGED <<kept, ledger, nextId, opened>>

Attempt(i, from, to) ==
  /\ pc = from /\ pc' = to
  /\ Open(i) \/ Refuse(i)
  /\ UNCHANGED <<portfolio, report, clock, kills, inbox, todo>>

TryShadow == Attempt(inbox.shadow, "shadow", "rotation")
TryRotation == Attempt(inbox.rotation, "rotation", "truncate")

(* _write_portfolio opens the file for writing, which empties it, ...       *)
Truncate ==
  /\ pc = "truncate" /\ pc' = "dump"
  /\ portfolio' = <<>>
  /\ UNCHANGED <<ledger, report, clock, nextId, kills, inbox, todo, kept, opened>>

(* ... and fills it with the active trades.                                 *)
Dump ==
  /\ pc = "dump" /\ pc' = "report"
  /\ portfolio' = kept
  /\ UNCHANGED <<ledger, report, clock, nextId, kills, inbox, todo, kept, opened>>

(* The status report counts the active trades the run leaves behind.        *)
Finish ==
  /\ pc = "report"
  /\ report' = Len(kept)
  /\ pc' = "idle" /\ inbox' = EmptyInbox
  /\ todo' = <<>> /\ kept' = <<>> /\ opened' = 0
  /\ UNCHANGED <<portfolio, ledger, clock, nextId, kills>>

(* The pipeline's 30 s timeout, a signal or an exception ends the run       *)
(* anywhere; only the files survive.                                        *)
Die ==
  /\ pc # "idle" /\ kills < MaxKills
  /\ kills' = kills + 1
  /\ pc' = "idle" /\ inbox' = EmptyInbox
  /\ todo' = <<>> /\ kept' = <<>> /\ opened' = 0
  /\ UNCHANGED <<disk, clock, nextId>>

RunStep ==
  \/ Begin
  \/ ExpireOne \/ NextLoop("expire", "legacy")
  \/ InvalidateOne \/ NextLoop("legacy", "monitor")
  \/ MonitorOne \/ EndMonitor
  \/ TryShadow \/ TryRotation
  \/ Truncate \/ Dump \/ Finish

Next == RunStep \/ Tick \/ Die

Spec == Init /\ [][Next]_vars

(* scripts/run_bbv1_live.sh starts the pipeline for ever and sleeps an hour *)
(* between two runs: a run, being finite code, takes its next step, and the *)
(* clock, which only the model stops while a run is under way, moves on     *)
(* between runs.                                                            *)
FairSpec == Spec /\ WF_vars(RunStep) /\ SF_vars(Tick)

-----------------------------------------------------------------------------
(* Properties                                                              *)

(* Every variable holds values of its type. *)
TypeOK ==
  /\ portfolio \in Seq(Trade) /\ todo \in Seq(Trade) /\ kept \in Seq(Trade)
  /\ ledger \in Seq(Entry)
  /\ report \in Nat /\ inbox \in Inbox
  /\ pc \in Phases
  /\ clock \in Nat /\ nextId \in Nat /\ kills \in Nat
  /\ opened \in Nat

(* The file never holds, and the run never carries to the file, more trades *)
(* than PAPER_MAX_ACTIVE_TRADES: the count is checked against the in-memory *)
(* list, so both sources of one run see each other's trade.                 *)
PortfolioBounded == Len(portfolio) <= MaxActive /\ Len(todo) + Len(kept) <= MaxActive

NoTwins(trades) ==
  \A m, n \in 1..Len(trades) :
     m # n => ~SameSlot(trades[m].plan, trades[n].plan)

(* No two open trades on one symbol and side, whatever dies in between: the *)
(* duplicate check of the second source runs on the list the first one grew. *)
NoDuplicateOpen == NoTwins(portfolio)

(* The stored notionals of the open trades stay within the portfolio cap:   *)
(* the check adds an unrounded size to rounded ones, and rounding the new   *)
(* one afterwards does not push the sum over a cap that is whole cents.     *)
NotionalWithinCap == TotalNotional(portfolio) <= MaxNotional

(* paper_execution_ledger.py:39 says PAPER_MAX_NEW_TRADES_PER_RUN = 1, "max  *)
(* 1 new trade per run".  No line reads that constant.                      *)
OneNewTradePerRun == opened <= 1

Settled == {"PAPER_STALE_EXPIRED", "LEGACY_INVALIDATED", "PAPER_CLOSED"}
LedgerLines(id, events) ==
  {n \in 1..Len(ledger) : ledger[n].trade.id = id /\ ledger[n].event \in events}

(* Every trade the portfolio file holds was opened by a ledger line, even   *)
(* when runs die: the line is appended before the file is rewritten, so the *)
(* outcome validator never sees a position without its opening record.      *)
OpenInLedger ==
  \A n \in 1..Len(portfolio) :
     LedgerLines(portfolio[n].id, {"PAPER_OPEN"}) # {}

(* A PAPER_CLOSED line is about a trade that had been filled, after its     *)
(* opening line, at a price beyond the stop or target it names; an expired  *)
(* one never was.  Retries after a dead run keep this.                      *)
SoundLine(e) ==
  /\ e.event = "PAPER_CLOSED" =>
       /\ e.trade.fill # NoFill
       /\ e.reason = "STOP_HIT" => StopReached(e.trade.plan, e.exit)
       /\ e.reason = "TARGET_HIT" => TargetReached(e.trade.plan, e.exit)
  /\ e.event = "PAPER_STALE_EXPIRED" => e.trade.fill = NoFill
OpenedBefore(n) ==
  \E m \in 1..(n - 1) :
     ledger[m].event = "PAPER_OPEN" /\ ledger[m].trade.id = ledger[n].trade.id
OnlyFilledTradesClose ==
  \A n \in 1..Len(ledger) :
     SoundLine(ledger[n]) /\ (ledger[n].event \in Settled => OpenedBefore(n))

(* The ledger tells of every trade in order, wherever runs die.             *)
LedgerSound == OpenInLedger /\ OnlyFilledTradesClose

(* While no run has died, a trade is settled at most once in the ledger the *)
(* validator counts wins and losses from.                                   *)
SettledOnce ==
  kills = 0 => \A id \in 1..MaxTrades : Cardinality(LedgerLines(id, Settled)) <= 1

(* While no run has died, between runs the ledger and the portfolio tell    *)
(* the same story: the open trades are those opened and not yet settled,    *)
(* and the status report counts them.                                       *)
Reconciled ==
  (kills = 0 /\ pc = "idle") =>
    /\ {portfolio[n].id : n \in 1..Len(portfolio)} =
         {id \in 1..MaxTrades : LedgerLines(id, {"PAPER_OPEN"}) # {}
                                /\ LedgerLines(id, Settled) = {}}
    /\ report = Len(portfolio)

(* What a run writes to the portfolio is promoted under the tiers that run  *)
(* read: a trade opened under older tiers does not survive their change.    *)
OnlyPromotedWritten ==
  [][(portfolio' # portfolio) =>
       \A n \in 1..Len(portfolio') :
          Allowed(portfolio'[n].plan.family, inbox.promoted)]_vars

(* A fill, once written, is never undone or repriced: a run that writes the *)
(* trade again writes the same fill.                                        *)
Fills(trades) == {<<trades[n].id, trades[n].fill>> : n \in 1..Len(trades)}
FillsFinal ==
  [][(pc = "truncate") =>
       \A f \in Fills(portfolio) : f[2] # NoFill =>
         \A g \in Fills(kept) : g[1] = f[1] => g = f]_vars

(* An order that never fills does not block its slot for ever: some run     *)
(* finds it stale and drops it (or fills it), however often runs die.  The  *)
(* clock bound leaves the last trades young: the older ones are meant.      *)
OldWaiting(t) == t.fill = NoFill /\ t.opened + StaleAfter < MaxClock
WaitingEnds == <>[](\A n \in 1..Len(portfolio) : ~OldWaiting(portfolio[n]))

-----------------------------------------------------------------------------
(* Refinement: while the file is being rewritten the book is what the run   *)
(* is about to write, and losing the truncated file is PaperBook's Lose.    *)

SlotsOf(trades) == {<<trades[n].plan.sym, trades[n].plan.side>> : n \in 1..Len(trades)}

AllSlots == {<<i.sym, i.side>> : i \in Intents}
BookNow == IF pc = "dump" THEN SlotsOf(kept) ELSE SlotsOf(portfolio)

Book == INSTANCE PaperBook WITH
  Slots <- AllSlots, MaxActive <- MaxActive, OpensPerRun <- 2, book <- BookNow

(* Every run settles the portfolio in one step, with at most one new slot   *)
(* per source, or dies and loses it.  Two per run is what the code does;    *)
(* OneNewTradePerRun is what its constant says.                             *)
ImplementsBook == Book!Spec
=============================================================================
