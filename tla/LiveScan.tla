------------------------------ MODULE LiveScan -------------------------------
(***************************************************************************)
(* Live trading on one exchange account: production_replay/live_scan.py    *)
(* (run for ever by run_hourly.sh and by scripts/run_bbv1_live.sh) and the *)
(* manual test order of place_test_order.py, which calls the same          *)
(* place_bracket_order.                                                    *)
(*                                                                         *)
(* A cycle re-saves the tracked orders (cancel_orphaned_orders), drops     *)
(* those without a position (sync_positions_with_exchange), scans, and     *)
(* places one order after another.  Between any two calls to the exchange  *)
(* or accesses of a file another process, a stop or a target may act, and  *)
(* a process may die.                                                      *)
(***************************************************************************)
EXTENDS Integers, FiniteSets, FiniteSetsExt

CONSTANTS
  Loops,        \* processes that run live_scan.main over and over
  Testers,      \* processes that run place_test_order
  Signals,      \* sized signals: [sym, side, lev, notional]
  NoSignal,     \* a process that places nothing
  Hedged,       \* the account's position mode
  MaxTrades,    \* MAX_TRADES
  MaxNotional,  \* MAX_TOTAL_NOTIONAL
  StartLeverage,\* what the exchange has set before the code sets anything
  ReadsFail,    \* whether the position check before an order may fail
  MaxOrders,    \* bound: orders ever accepted
  MaxFaults     \* bound: processes that die, answers and writes that get lost

Procs == Loops \cup Testers
Syms == {s.sym : s \in Signals}
Sides == {"LONG", "SHORT"}

ASSUME LiveScanAssumption ==
  /\ IsFiniteSet(Procs)
  /\ Hedged \in BOOLEAN /\ ReadsFail \in BOOLEAN
  /\ MaxTrades \in Nat /\ MaxNotional \in Nat /\ MaxOrders \in Nat /\ MaxFaults \in Nat
  /\ StartLeverage \in [Syms -> [Sides -> Nat]]
  /\ NoSignal \notin Signals
  /\ \A s \in Signals : s.side \in Sides /\ s.lev \in Nat /\ s.notional \in Nat

VARIABLES
  tracked,    \* open_orders.json
  log,        \* trade_log.jsonl, as the set of its lines
  positions,  \* exchange: entries whose position is open
  leverage,   \* exchange: leverage of each symbol and side
  accepted,   \* exchange: number of the last accepted order
  faults,     \* faults so far
  pc,         \* where each process is
  snap,       \* open_orders as the process last read or rebuilt them
  seen,       \* symbols with a position, as sync_positions_with_exchange read them
  queue,      \* signals still to be placed
  current,    \* the signal being placed
  hedged,     \* hedged_mode as the process read it
  tries,      \* rounds of _ensure_leverage
  mine        \* id of the order just placed

files == <<tracked, log>>
exchange == <<positions, leverage, accepted>>
placing == <<queue, current, hedged, tries, mine>>
vars == <<tracked, log, positions, leverage, accepted, faults,
          pc, snap, seen, queue, current, hedged, tries, mine>>

Trade == [sym : Syms, order : Nat, notional : Nat]
Position == [sym : Syms, side : Sides, order : Nat, lev : Nat, target : Nat]
Events == {"entry", "orphan_cleaned", "mode_check_failed"}
Line == [event : Events, sym : Syms, order : Nat]
Phases == {"idle", "cancel", "load", "sync", "clean", "saveSync", "scan", "next",
           "admit", "setLeverage", "readLeverage", "create", "log", "save"}

Orders(set) == {x.order : x \in set}

Init ==
  /\ tracked = {} /\ log = {} /\ positions = {} /\ leverage = StartLeverage
  /\ accepted = 0 /\ faults = 0
  /\ pc = [p \in Procs |-> "idle"]
  /\ snap = [p \in Procs |-> {}] /\ seen = [p \in Procs |-> {}]
  /\ queue = [p \in Procs |-> {}] /\ current = [p \in Procs |-> NoSignal]
  /\ hedged = [p \in Procs |-> FALSE] /\ tries = [p \in Procs |-> 0]
  /\ mine = [p \in Procs |-> 0]

Goto(p, phase) == pc' = [pc EXCEPT ![p] = phase]

-----------------------------------------------------------------------------
(* main: housekeeping before the scan                                      *)

(* cancel_orphaned_orders reads the file.  The trades it reads carry no     *)
(* stop or target order ids (place_bracket_order stores none), so none is   *)
(* looked up on the exchange and all are written back.                      *)
StartCycle(p) ==
  /\ p \in Loops /\ pc[p] = "idle"
  /\ snap' = [snap EXCEPT ![p] = tracked]
  /\ Goto(p, IF tracked = {} THEN "load" ELSE "cancel")
  /\ UNCHANGED <<files, exchange, faults, seen, placing>>

CancelSave(p) ==
  /\ pc[p] = "cancel"
  /\ tracked' = snap[p]
  /\ Goto(p, "load")
  /\ UNCHANGED <<log, exchange, faults, snap, seen, placing>>

Load(p) ==
  /\ pc[p] = "load"
  /\ snap' = [snap EXCEPT ![p] = tracked]
  /\ Goto(p, IF tracked = {} THEN "scan" ELSE "sync")
  /\ UNCHANGED <<files, exchange, faults, seen, placing>>

(* sync_positions_with_exchange: a failed read keeps the orders as they are *)
(* (which are then saved), a successful one remembers the symbols held.     *)
SyncFails(p) ==
  /\ pc[p] = "sync"
  /\ Goto(p, "saveSync")
  /\ UNCHANGED <<files, exchange, faults, snap, seen, placing>>

(* Slip: short positions, whose size is negative, are overlooked.           *)
SyncReadsLong(p) ==
  /\ pc[p] = "sync"
  /\ seen' = [seen EXCEPT ![p] = {x.sym : x \in {y \in positions : y.side = "LONG"}}]
  /\ Goto(p, "clean")
  /\ UNCHANGED <<files, exchange, faults, snap, placing>>

SyncReads(p) ==
  /\ pc[p] = "sync"
  /\ seen' = [seen EXCEPT ![p] = {x.sym : x \in positions}]
  /\ Goto(p, "clean")
  /\ UNCHANGED <<files, exchange, faults, snap, placing>>

Clean(p) ==
  /\ pc[p] = "clean"
  /\ LET orphans == {t \in snap[p] : t.sym \notin seen[p]} IN
     /\ log' = log \cup {[event |-> "orphan_cleaned", sym |-> t.sym, order |-> t.order] :
                          t \in orphans}
     /\ snap' = [snap EXCEPT ![p] = @ \ orphans]
  /\ seen' = [seen EXCEPT ![p] = {}]
  /\ Goto(p, "saveSync")
  /\ UNCHANGED <<tracked, exchange, faults, placing>>

(* Slip: the cleaned list is never saved. *)
SaveSyncForgets(p) ==
  /\ pc[p] = "saveSync" /\ Goto(p, "scan")
  /\ UNCHANGED <<files, exchange, faults, snap, seen, placing>>

SaveSync(p) ==
  /\ pc[p] = "saveSync"
  /\ tracked' = snap[p]
  /\ Goto(p, "scan")
  /\ UNCHANGED <<log, exchange, faults, snap, seen, placing>>

(* The scan finds any set of signals, at most one per symbol; the position  *)
(* mode reads as one-way when the exchange does not answer.                 *)
Scan(p) ==
  /\ pc[p] = "scan"
  /\ \E found \in SUBSET Signals :
       /\ \A s, t \in found : s.sym = t.sym => s = t
       /\ queue' = [queue EXCEPT ![p] = found]
  /\ \E mode \in {FALSE, Hedged} : hedged' = [hedged EXCEPT ![p] = mode]
  /\ Goto(p, "next")
  /\ UNCHANGED <<files, exchange, faults, snap, seen, current, tries, mine>>

(* place_test_order: one synthetic signal, no housekeeping.                 *)
StartTest(p) ==
  /\ p \in Testers /\ pc[p] = "idle"
  /\ \E s \in Signals : queue' = [queue EXCEPT ![p] = {s}]
  /\ \E mode \in {FALSE, Hedged} : hedged' = [hedged EXCEPT ![p] = mode]
  /\ Goto(p, "next")
  /\ UNCHANGED <<files, exchange, faults, snap, seen, current, tries, mine>>

EndCycle(p) ==
  /\ pc[p] = "next" /\ queue[p] = {}
  /\ Goto(p, "idle")
  /\ UNCHANGED <<files, exchange, faults, snap, seen, placing>>

-----------------------------------------------------------------------------
(* place_bracket_order                                                     *)

(* Slip: the account is not asked. *)
CheckNothing(p) ==
  /\ pc[p] = "next"
  /\ \E s \in queue[p] :
       /\ queue' = [queue EXCEPT ![p] = @ \ {s}]
       /\ current' = [current EXCEPT ![p] = s]
       /\ Goto(p, "admit")
  /\ UNCHANGED <<files, exchange, faults, snap, seen, hedged, tries, mine>>

(* The account must hold no position; a failed read counts as none.         *)
CheckPositions(p) ==
  /\ pc[p] = "next"
  /\ \E s \in queue[p] :
       /\ queue' = [queue EXCEPT ![p] = @ \ {s}]
       /\ \/ /\ positions = {} \/ ReadsFail
             /\ current' = [current EXCEPT ![p] = s]
             /\ Goto(p, "admit")
          \/ /\ positions # {}
             /\ UNCHANGED <<current, pc>>
  /\ UNCHANGED <<files, exchange, faults, snap, seen, hedged, tries, mine>>

(* Every early return, and every exception, ends in the next signal. *)
NextSignal(p) ==
  /\ Goto(p, "next")
  /\ current' = [current EXCEPT ![p] = NoSignal]
  /\ snap' = [snap EXCEPT ![p] = {}]
  /\ tries' = [tries EXCEPT ![p] = 0]
  /\ mine' = [mine EXCEPT ![p] = 0]

(* Sizing finds nothing to send or more than can be margined, or the mode   *)
(* check fails, which is logged.                                            *)
Refuse(p) ==
  /\ pc[p] = "admit"
  /\ \/ UNCHANGED log
     \/ log' = log \cup {[event |-> "mode_check_failed", sym |-> current[p].sym, order |-> 0]}
  /\ NextSignal(p)
  /\ UNCHANGED <<tracked, exchange, faults, seen, queue, hedged>>

(* No tracked order on the symbol, fewer than MAX_TRADES, total notional.   *)
Admissible(s, trades) ==
  /\ \A t \in trades : t.sym # s.sym
  /\ Cardinality(trades) < MaxTrades
  /\ MapThenSumSet(LAMBDA t : t.notional, trades) + s.notional <= MaxNotional

Admit(p) ==
  /\ pc[p] = "admit"
  /\ \/ /\ Admissible(current[p], tracked)
        /\ snap' = [snap EXCEPT ![p] = tracked]
        /\ Goto(p, "setLeverage")
        /\ UNCHANGED <<current, tries, mine>>
     \/ /\ ~Admissible(current[p], tracked)
        /\ NextSignal(p)
  /\ UNCHANGED <<files, exchange, faults, seen, queue, hedged>>

(* The exchange side of set_leverage: one-way mode sets both sides at once, *)
(* hedged mode one side, and refuses the side name "BOTH".                  *)
LeverageSet(sym, side, lev, hedgedMode) ==
  IF hedgedMode THEN [leverage EXCEPT ![sym][side] = lev]
  ELSE [leverage EXCEPT ![sym] = [d \in Sides |-> lev]]

(* _ensure_leverage: the call takes effect, or silently does not, or raises *)
(* (all the same to the code, the read-back judges), or names the symbol    *)
(* offline.                                                                 *)
SetLeverage(p) ==
  /\ pc[p] = "setLeverage"
  /\ \/ /\ hedged[p] = Hedged
        /\ leverage' = LeverageSet(current[p].sym, current[p].side, current[p].lev, hedged[p])
        /\ Goto(p, "readLeverage")
        /\ UNCHANGED <<current, snap, tries, mine>>
     \/ /\ Goto(p, "readLeverage")
        /\ UNCHANGED <<leverage, current, snap, tries, mine>>
     \/ /\ NextSignal(p)
        /\ UNCHANGED leverage
  /\ UNCHANGED <<files, positions, accepted, faults, seen, queue, hedged>>

(* The read-back: the larger of the two sides must reach the target.        *)
Confirmed(sym, lev) == \E side \in Sides : leverage[sym][side] >= lev

ReadLeverage(p) ==
  /\ pc[p] = "readLeverage"
  /\ \/ /\ Confirmed(current[p].sym, current[p].lev)
        /\ Goto(p, "create")
        /\ UNCHANGED <<current, snap, tries, mine>>
     \/ /\ tries[p] < 2
        /\ tries' = [tries EXCEPT ![p] = @ + 1]
        /\ Goto(p, "setLeverage")
        /\ UNCHANGED <<current, snap, mine>>
     \/ /\ tries[p] = 2
        /\ NextSignal(p)
  /\ UNCHANGED <<files, exchange, faults, seen, queue, hedged>>

(* The exchange opens the position, at the leverage in force then.          *)
Accept(s) ==
  /\ accepted < MaxOrders
  /\ accepted' = accepted + 1
  /\ positions' = positions \cup
       {[sym |-> s.sym, side |-> s.side, order |-> accepted + 1,
         lev |-> leverage[s.sym][s.side], target |-> s.lev]}

(* create_order: accepted and answered; refused; accepted without an answer *)
(* or without an id, which the code takes for refused.                      *)
CreateOrder(p) ==
  /\ pc[p] = "create"
  /\ \/ /\ hedged[p] = Hedged /\ Accept(current[p])
        /\ mine' = [mine EXCEPT ![p] = accepted']
        /\ Goto(p, "log")
        /\ UNCHANGED <<faults, current, snap, tries>>
     \/ /\ NextSignal(p)
        /\ UNCHANGED <<positions, accepted, faults>>
     \/ /\ hedged[p] = Hedged /\ Accept(current[p])
        /\ faults < MaxFaults /\ faults' = faults + 1
        /\ NextSignal(p)
  /\ UNCHANGED <<files, leverage, seen, queue, hedged>>

(* Slip: the line is written by a later call. *)
LogNothing(p) ==
  /\ pc[p] = "log" /\ Goto(p, "save")
  /\ UNCHANGED <<files, exchange, faults, snap, seen, placing>>

LogEntry(p) ==
  /\ pc[p] = "log"
  /\ log' = log \cup {[event |-> "entry", sym |-> current[p].sym, order |-> mine[p]]}
  /\ Goto(p, "save")
  /\ UNCHANGED <<tracked, exchange, faults, snap, seen, placing>>

(* Slip: the old list is saved. *)
SaveOldList(p) ==
  /\ pc[p] = "save"
  /\ tracked' = snap[p]
  /\ NextSignal(p)
  /\ UNCHANGED <<log, exchange, faults, seen, queue, hedged>>

(* save_open_orders writes the list that was read before the order went out *)
(* with the new trade appended.                                             *)
SaveEntry(p) ==
  /\ pc[p] = "save"
  /\ tracked' = snap[p] \cup
       {[sym |-> current[p].sym, order |-> mine[p], notional |-> current[p].notional]}
  /\ NextSignal(p)
  /\ UNCHANGED <<log, exchange, faults, seen, queue, hedged>>

(* log_trade or save_open_orders raises (a full disk): place_bracket_order  *)
(* catches it and reports failure.                                          *)
WriteFails(p) ==
  /\ pc[p] \in {"log", "save"} /\ faults < MaxFaults
  /\ faults' = faults + 1
  /\ NextSignal(p)
  /\ UNCHANGED <<files, exchange, seen, queue, hedged>>

-----------------------------------------------------------------------------
(* The stop or the target of an entry's bracket fills, or somebody closes   *)
(* it by hand.                                                              *)
ClosePosition ==
  /\ \E x \in positions : positions' = positions \ {x}
  /\ UNCHANGED <<files, leverage, accepted, faults, pc, snap, seen, placing>>

(* A process dies; the shell loop starts the next cycle.                    *)
Crash(p) ==
  /\ pc[p] # "idle" /\ faults < MaxFaults
  /\ faults' = faults + 1
  /\ Goto(p, "idle")
  /\ snap' = [snap EXCEPT ![p] = {}] /\ seen' = [seen EXCEPT ![p] = {}]
  /\ queue' = [queue EXCEPT ![p] = {}] /\ current' = [current EXCEPT ![p] = NoSignal]
  /\ hedged' = [hedged EXCEPT ![p] = FALSE] /\ tries' = [tries EXCEPT ![p] = 0]
  /\ mine' = [mine EXCEPT ![p] = 0]
  /\ UNCHANGED <<files, exchange>>

Housekeeping(p) ==
  \/ StartCycle(p) \/ CancelSave(p) \/ Load(p)
  \/ SyncFails(p) \/ SyncReads(p) \/ Clean(p) \/ SaveSync(p)
  \/ Scan(p) \/ StartTest(p) \/ EndCycle(p)

Placing(p) ==
  \/ CheckPositions(p) \/ Refuse(p) \/ Admit(p)
  \/ SetLeverage(p) \/ ReadLeverage(p) \/ CreateOrder(p)
  \/ LogEntry(p) \/ SaveEntry(p) \/ WriteFails(p)

Next ==
  \/ \E p \in Procs : Housekeeping(p) \/ Placing(p) \/ Crash(p)
  \/ ClosePosition

Spec == Init /\ [][Next]_vars

(* run_hourly.sh runs the scanner for ever and every call it makes has a    *)
(* timeout, so a cycle goes on to its end; of the hourly reads of the       *)
(* positions not all fail.                                                  *)
FairSpec ==
  /\ Spec
  /\ \A p \in Loops : WF_vars(Housekeeping(p) \/ Placing(p)) /\ SF_vars(SyncReads(p))

-----------------------------------------------------------------------------
(* Properties                                                              *)

(* Every variable holds values of its type. *)
TypeOK ==
  /\ tracked \subseteq Trade /\ log \subseteq Line /\ positions \subseteq Position
  /\ leverage \in [Syms -> [Sides -> Nat]]
  /\ accepted \in Nat /\ faults \in Nat
  /\ pc \in [Procs -> Phases]
  /\ snap \in [Procs -> SUBSET Trade] /\ seen \in [Procs -> SUBSET Syms]
  /\ queue \in [Procs -> SUBSET Signals] /\ current \in [Procs -> Signals \cup {NoSignal}]
  /\ hedged \in [Procs -> BOOLEAN] /\ tries \in [Procs -> 0..2] /\ mine \in [Procs -> Nat]

(* With readable positions the account never holds more entries than there  *)
(* are processes placing orders, whatever answers, writes or processes are  *)
(* lost: one process alone trades one position at a time, and each further  *)
(* process can add one because checking and ordering are two calls.         *)
PositionsBounded == Cardinality(positions) <= Cardinality(Procs)

(* "Concurrency is intentionally 1": never more open entries than           *)
(* MAX_TRADES.  One process keeps this while positions cannot be read but   *)
(* nothing is lost, for then the tracked orders stand in for the account.   *)
OneTrade == Cardinality(positions) <= MaxTrades

(* While a process is not between an order and its record, every open entry *)
(* is in open_orders.json, so the next cycle can still see it.              *)
PositionsTracked ==
  (\A p \in Procs : pc[p] \notin {"log", "save"}) =>
     Orders(positions) \subseteq Orders(tracked)

(* One process whose position reads may all fail: the tracked orders alone  *)
(* keep it to both, until an answer or a write is lost.                     *)
OneTradeUntilFault == faults = 0 => OneTrade
TrackedUntilFault == faults = 0 => PositionsTracked
SoundUntilFault == OneTradeUntilFault /\ TrackedUntilFault

(* A tracked order has its entry line in the trade log, even when processes *)
(* die or overwrite each other's file: the line is appended first.          *)
EntryLogged ==
  \A t \in tracked : \E l \in log : l.event = "entry" /\ l.order = t.order

(* A trade the log calls orphaned has no position and never regains one: a  *)
(* failed read or a cycle's old snapshot does not write off a live trade.   *)
CleanedAreClosed ==
  \A l \in log : l.event = "orphan_cleaned" => l.order \notin Orders(positions)

(* live_scan.py:322: "skip cleanly (never place at the wrong leverage) when  *)
(* we can't confirm it".  An entry's side was at the wanted leverage or more *)
(* when it was placed.  On a hedged account the code does not keep to it:   *)
(* Confirmed looks at the other side too.                                   *)
LeverageHonoured == \A x \in positions : x.lev >= x.target

(* A tracked order whose symbol holds no position any more is dropped, so   *)
(* that it does not block the one trade slot for ever.  (While the symbol   *)
(* holds another entry the order is kept: the check is by symbol.)          *)
Held(sym) == \E x \in positions : x.sym = sym
OrphansEnd ==
  \A t \in [sym : Syms, order : 1..MaxOrders, notional : {s.notional : s \in Signals}] :
    (t \in tracked /\ ~Held(t.sym)) ~> (t \notin tracked \/ Held(t.sym))

Desk == INSTANCE LiveDesk WITH
  Capacity <- Cardinality(Procs), held <- Orders(positions), used <- accepted

(* The account behaves as the abstract desk. *)
ImplementsDesk == Desk!Spec
=============================================================================
