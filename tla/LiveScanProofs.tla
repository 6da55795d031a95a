--------------------------- MODULE LiveScanProofs ---------------------------
(***************************************************************************)
(* Theorems about LiveScan for any number of processes, signals, orders    *)
(* and faults.                                                             *)
(***************************************************************************)
EXTENDS LiveScan, FiniteSetTheorems, TLAPS

(* Phases in which a process has a signal in hand, and those between the    *)
(* position check and the order.                                            *)
Busy == {"admit", "setLeverage", "readLeverage", "create", "log", "save"}
Committing == {"admit", "setLeverage", "readLeverage", "create"}

CurrentSet == \A p \in Procs : pc[p] \in Busy => current[p] \in Signals
TypeInv == TypeOK /\ CurrentSet

LEMMA TypeInit == Init => TypeInv
  BY LiveScanAssumption
  DEF Init, TypeInv, TypeOK, CurrentSet, Phases, Busy, Trade, Line, Position

(* The exchange's leverage table stays one, whatever mode sets it. *)
LEMMA LeverageTyped ==
  ASSUME leverage \in [Syms -> [Sides -> Nat]],
         NEW sym \in Syms, NEW side \in Sides, NEW lev \in Nat, NEW mode
  PROVE  LeverageSet(sym, side, lev, mode) \in [Syms -> [Sides -> Nat]]
<1>1. [leverage[sym] EXCEPT ![side] = lev] \in [Sides -> Nat]
  OBVIOUS
<1>2. [leverage EXCEPT ![sym][side] = lev] \in [Syms -> [Sides -> Nat]]
  BY <1>1
<1>3. [leverage EXCEPT ![sym] = [d \in Sides |-> lev]] \in [Syms -> [Sides -> Nat]]
  OBVIOUS
<1> QED BY <1>2, <1>3 DEF LeverageSet

LEMMA SignalTyped ==
  ASSUME NEW s \in Signals
  PROVE  s.sym \in Syms /\ s.side \in Sides /\ s.lev \in Nat /\ s.notional \in Nat
  BY LiveScanAssumption DEF Syms

(* Ending a signal keeps the local variables typed. *)
LEMMA NextSignalTyped ==
  ASSUME TypeInv, NEW p \in Procs, NextSignal(p)
  PROVE  /\ pc' \in [Procs -> Phases] /\ current' \in [Procs -> Signals \cup {NoSignal}]
         /\ snap' \in [Procs -> SUBSET Trade] /\ tries' \in [Procs -> 0..2]
         /\ mine' \in [Procs -> Nat]
         /\ \A q \in Procs : pc'[q] \in Busy => current'[q] \in Signals
  BY DEF TypeInv, TypeOK, CurrentSet, NextSignal, Goto, Phases, Busy

LEMMA HousekeepingTyped ==
  ASSUME TypeInv, NEW p \in Procs, Housekeeping(p)
  PROVE  TypeInv'
<1> USE DEF files, exchange, placing, Goto, Phases, Busy
<1>1. CASE StartCycle(p)
  BY <1>1 DEF StartCycle, TypeInv, TypeOK, CurrentSet
<1>2. CASE CancelSave(p)
  BY <1>2 DEF CancelSave, TypeInv, TypeOK, CurrentSet
<1>3. CASE Load(p)
  BY <1>3 DEF Load, TypeInv, TypeOK, CurrentSet
<1>4. CASE SyncFails(p)
  BY <1>4 DEF SyncFails, TypeInv, TypeOK, CurrentSet
<1>5. CASE SyncReads(p)
  <2>1. {x.sym : x \in positions} \subseteq Syms
    BY DEF TypeInv, TypeOK, Position
  <2> QED BY <1>5, <2>1 DEF SyncReads, TypeInv, TypeOK, CurrentSet
<1>6. CASE Clean(p)
  <2>1. \A t \in snap[p] : t.sym \in Syms /\ t.order \in Nat
    BY DEF TypeInv, TypeOK, Trade
  <2>2. log' \subseteq Line
    BY <1>6, <2>1 DEF Clean, TypeInv, TypeOK, Line, Events
  <2>3. snap' \in [Procs -> SUBSET Trade]
    BY <1>6 DEF Clean, TypeInv, TypeOK
  <2> QED BY <1>6, <2>2, <2>3 DEF Clean, TypeInv, TypeOK, CurrentSet
<1>7. CASE SaveSync(p)
  BY <1>7 DEF SaveSync, TypeInv, TypeOK, CurrentSet
<1>8. CASE Scan(p)
  <2>1. hedged' \in [Procs -> BOOLEAN]
    <3>1. PICK mode \in {FALSE, Hedged} : hedged' = [hedged EXCEPT ![p] = mode]
      BY <1>8 DEF Scan
    <3>2. mode \in BOOLEAN
      BY <3>1, LiveScanAssumption
    <3> QED BY <3>1, <3>2 DEF TypeInv, TypeOK
  <2>2. queue' \in [Procs -> SUBSET Signals]
    BY <1>8 DEF Scan, TypeInv, TypeOK
  <2> QED BY <1>8, <2>1, <2>2 DEF Scan, TypeInv, TypeOK, CurrentSet
<1>9. CASE StartTest(p)
  <2>1. hedged' \in [Procs -> BOOLEAN]
    <3>1. PICK mode \in {FALSE, Hedged} : hedged' = [hedged EXCEPT ![p] = mode]
      BY <1>9 DEF StartTest
    <3>2. mode \in BOOLEAN
      BY <3>1, LiveScanAssumption
    <3> QED BY <3>1, <3>2 DEF TypeInv, TypeOK
  <2>2. queue' \in [Procs -> SUBSET Signals]
    BY <1>9 DEF StartTest, TypeInv, TypeOK
  <2> QED BY <1>9, <2>1, <2>2 DEF StartTest, TypeInv, TypeOK, CurrentSet
<1>10. CASE EndCycle(p)
  BY <1>10 DEF EndCycle, TypeInv, TypeOK, CurrentSet
<1> QED
  BY <1>1, <1>2, <1>3, <1>4, <1>5, <1>6, <1>7, <1>8, <1>9, <1>10 DEF Housekeeping

LEMMA PlacingTyped ==
  ASSUME TypeInv, NEW p \in Procs, Placing(p)
  PROVE  TypeInv'
<1> USE DEF files, exchange, placing
<1>1. CASE CheckPositions(p)
  BY <1>1 DEF CheckPositions, TypeInv, TypeOK, CurrentSet, Goto, Phases, Busy
<1>2. CASE Refuse(p)
  <2>1. current[p] \in Signals
    BY <1>2 DEF Refuse, TypeInv, CurrentSet, Busy
  <2>2. log' \subseteq Line
    BY <1>2, <2>1, SignalTyped DEF Refuse, TypeInv, TypeOK, Line, Events
  <2> QED BY <1>2, <2>2, NextSignalTyped DEF Refuse, TypeInv, TypeOK, CurrentSet
<1>3. CASE Admit(p)
  <2>1. CASE NextSignal(p)
    BY <1>3, <2>1, NextSignalTyped DEF Admit, TypeInv, TypeOK, CurrentSet
  <2>2. CASE ~NextSignal(p)
    BY <1>3, <2>2 DEF Admit, TypeInv, TypeOK, CurrentSet, Goto, Phases, Busy
  <2> QED BY <2>1, <2>2
<1>4. CASE SetLeverage(p)
  <2>1. current[p] \in Signals
    BY <1>4 DEF SetLeverage, TypeInv, CurrentSet, Busy
  <2>2. leverage' \in [Syms -> [Sides -> Nat]]
    <3>1. LeverageSet(current[p].sym, current[p].side, current[p].lev, hedged[p])
            \in [Syms -> [Sides -> Nat]]
      BY <2>1, SignalTyped, LeverageTyped DEF TypeInv, TypeOK
    <3> QED BY <1>4, <3>1 DEF SetLeverage, TypeInv, TypeOK
  <2>3. CASE NextSignal(p)
    BY <1>4, <2>2, <2>3, NextSignalTyped DEF SetLeverage, TypeInv, TypeOK, CurrentSet
  <2>4. CASE ~NextSignal(p)
    BY <1>4, <2>2, <2>4 DEF SetLeverage, TypeInv, TypeOK, CurrentSet, Goto, Phases, Busy
  <2> QED BY <2>3, <2>4
<1>5. CASE ReadLeverage(p)
  <2>1. CASE NextSignal(p)
    BY <1>5, <2>1, NextSignalTyped DEF ReadLeverage, TypeInv, TypeOK, CurrentSet
  <2>2. CASE ~NextSignal(p)
    BY <1>5, <2>2 DEF ReadLeverage, TypeInv, TypeOK, CurrentSet, Goto, Phases, Busy
  <2> QED BY <2>1, <2>2
<1>6. CASE CreateOrder(p)
  <2>1. current[p] \in Signals
    BY <1>6 DEF CreateOrder, TypeInv, CurrentSet, Busy
  <2>2. Accept(current[p]) => accepted' \in Nat /\ positions' \subseteq Position
    <3>1. leverage[current[p].sym][current[p].side] \in Nat
      BY <2>1, SignalTyped DEF TypeInv, TypeOK
    <3> QED BY <2>1, <3>1, SignalTyped DEF Accept, TypeInv, TypeOK, Position
  <2>3. /\ accepted' \in Nat
        /\ positions' \subseteq Position
        /\ faults' \in Nat
    BY <1>6, <2>2 DEF CreateOrder, TypeInv, TypeOK
  <2>4. CASE NextSignal(p)
    BY <1>6, <2>3, <2>4, NextSignalTyped DEF CreateOrder, TypeInv, TypeOK, CurrentSet
  <2>5. CASE ~NextSignal(p)
    BY <1>6, <2>1, <2>3, <2>5 DEF CreateOrder, TypeInv, TypeOK, CurrentSet, Goto, Phases, Busy
  <2> QED BY <2>4, <2>5
<1>7. CASE LogEntry(p)
  <2>1. current[p] \in Signals
    BY <1>7 DEF LogEntry, TypeInv, CurrentSet, Busy
  <2>2. log' \subseteq Line
    BY <1>7, <2>1, SignalTyped DEF LogEntry, TypeInv, TypeOK, Line, Events
  <2> QED BY <1>7, <2>2 DEF LogEntry, TypeInv, TypeOK, CurrentSet, Goto, Phases, Busy
<1>8. CASE SaveEntry(p)
  <2>1. current[p] \in Signals
    BY <1>8 DEF SaveEntry, TypeInv, CurrentSet, Busy
  <2>2. tracked' \subseteq Trade
    BY <1>8, <2>1, SignalTyped DEF SaveEntry, TypeInv, TypeOK, Trade
  <2> QED BY <1>8, <2>2, NextSignalTyped DEF SaveEntry, TypeInv, TypeOK, CurrentSet
<1>9. CASE WriteFails(p)
  BY <1>9, NextSignalTyped DEF WriteFails, TypeInv, TypeOK, CurrentSet
<1> QED
  BY <1>1, <1>2, <1>3, <1>4, <1>5, <1>6, <1>7, <1>8, <1>9 DEF Placing

LEMMA TypeStep == TypeInv /\ [Next]_vars => TypeInv'
<1> SUFFICES ASSUME TypeInv, [Next]_vars PROVE TypeInv'
  OBVIOUS
<1>1. CASE \E p \in Procs : Housekeeping(p)
  BY <1>1, HousekeepingTyped
<1>2. CASE \E p \in Procs : Placing(p)
  BY <1>2, PlacingTyped
<1>3. ASSUME NEW p \in Procs, Crash(p) PROVE TypeInv'
  BY <1>3 DEF Crash, TypeInv, TypeOK, CurrentSet, Goto, Phases, Busy, files, exchange
<1>4. CASE ClosePosition
  BY <1>4 DEF ClosePosition, TypeInv, TypeOK, CurrentSet, files, placing
<1>5. CASE UNCHANGED vars
  BY <1>5 DEF vars, TypeInv, TypeOK, CurrentSet
<1> QED BY <1>1, <1>2, <1>3, <1>4, <1>5 DEF Next

(* Every variable keeps its type, and a process that places an order has a  *)
(* signal in hand.                                                          *)
THEOREM TypeCorrect == Spec => []TypeOK
<1>1. TypeInv => TypeOK
  BY DEF TypeInv
<1> QED BY <1>1, TypeInit, TypeStep, PTL DEF Spec

LEMMA TypeInvHolds == Spec => []TypeInv
  BY TypeInit, TypeStep, PTL DEF Spec

-----------------------------------------------------------------------------
(* Where the records of a step come from                                   *)

HasEntry(order) == \E l \in log : l.event = "entry" /\ l.order = order
Placed(q) == [sym |-> current[q].sym, order |-> mine[q], notional |-> current[q].notional]
SameOrder(q) == mine'[q] = mine[q] /\ current'[q] = current[q]

TrackedFrom ==
  \A t \in tracked' :
    \/ t \in tracked
    \/ \E q \in Procs : t \in snap[q]
    \/ \E q \in Procs : pc[q] = "save" /\ t = Placed(q)
SnapFrom == \A q \in Procs : \A t \in snap'[q] : t \in tracked \/ t \in snap[q]
SaveFrom ==
  \A q \in Procs : pc'[q] = "save" =>
    /\ pc[q] \in {"log", "save"} /\ SameOrder(q)
    /\ pc[q] = "log" =>
         [event |-> "entry", sym |-> current[q].sym, order |-> mine[q]] \in log'
LogFrom ==
  \A q \in Procs : pc'[q] = "log" =>
    \/ pc[q] = "log" /\ SameOrder(q)
    \/ /\ pc[q] = "create" /\ Accept(current[q])
       /\ mine'[q] = accepted' /\ current'[q] = current[q]
Market ==
  \/ positions' \subseteq positions /\ accepted' = accepted
  \/ \E q \in Procs : pc[q] = "create" /\ Accept(current[q])

Provenance ==
  TrackedFrom /\ SnapFrom /\ SaveFrom /\ LogFrom /\ Market /\ log \subseteq log'

LEMMA HousekeepingProvenance ==
  ASSUME TypeInv, NEW p \in Procs, Housekeeping(p)
  PROVE  Provenance
<1> USE DEF files, exchange, placing, Goto, TypeInv, TypeOK, Provenance, TrackedFrom,
            SnapFrom, SaveFrom, LogFrom, Market, SameOrder
<1>1. CASE StartCycle(p)
  BY <1>1 DEF StartCycle
<1>2. CASE CancelSave(p)
  BY <1>2 DEF CancelSave
<1>3. CASE Load(p)
  BY <1>3 DEF Load
<1>4. CASE SyncFails(p)
  BY <1>4 DEF SyncFails
<1>5. CASE SyncReads(p)
  BY <1>5 DEF SyncReads
<1>6. CASE Clean(p)
  BY <1>6 DEF Clean
<1>7. CASE SaveSync(p)
  BY <1>7 DEF SaveSync
<1>8. CASE Scan(p)
  BY <1>8 DEF Scan
<1>9. CASE StartTest(p)
  BY <1>9 DEF StartTest
<1>10. CASE EndCycle(p)
  BY <1>10 DEF EndCycle
<1> QED
  BY <1>1, <1>2, <1>3, <1>4, <1>5, <1>6, <1>7, <1>8, <1>9, <1>10 DEF Housekeeping

LEMMA PlacingProvenance ==
  ASSUME TypeInv, NEW p \in Procs, Placing(p)
  PROVE  Provenance
<1> USE DEF files, exchange, placing, Goto, TypeInv, TypeOK, Provenance, TrackedFrom,
            SnapFrom, SaveFrom, LogFrom, Market, SameOrder, NextSignal
<1>1. CASE CheckPositions(p)
  BY <1>1 DEF CheckPositions
<1>2. CASE Refuse(p)
  BY <1>2 DEF Refuse
<1>3. CASE Admit(p)
  BY <1>3 DEF Admit
<1>4. CASE SetLeverage(p)
  BY <1>4 DEF SetLeverage
<1>5. CASE ReadLeverage(p)
  BY <1>5 DEF ReadLeverage
<1>6. CASE CreateOrder(p)
  BY <1>6 DEF CreateOrder
<1>7. CASE LogEntry(p)
  BY <1>7 DEF LogEntry
<1>8. CASE SaveEntry(p)
  BY <1>8 DEF SaveEntry, Placed
<1>9. CASE WriteFails(p)
  BY <1>9 DEF WriteFails
<1> QED
  BY <1>1, <1>2, <1>3, <1>4, <1>5, <1>6, <1>7, <1>8, <1>9 DEF Placing

LEMMA StepProvenance == TypeInv /\ [Next]_vars => Provenance
<1> SUFFICES ASSUME TypeInv, [Next]_vars PROVE Provenance
  OBVIOUS
<1>1. CASE \E p \in Procs : Housekeeping(p)
  BY <1>1, HousekeepingProvenance
<1>2. CASE \E p \in Procs : Placing(p)
  BY <1>2, PlacingProvenance
<1>3. ASSUME NEW p \in Procs, Crash(p) PROVE Provenance
  BY <1>3 DEF Crash, TypeInv, TypeOK, Goto, files, exchange, Provenance, TrackedFrom,
              SnapFrom, SaveFrom, LogFrom, Market, SameOrder
<1>4. CASE ClosePosition
  BY <1>4 DEF ClosePosition, files, placing, Provenance, TrackedFrom,
              SnapFrom, SaveFrom, LogFrom, Market, SameOrder
<1>5. CASE UNCHANGED vars
  BY <1>5 DEF vars, Provenance, TrackedFrom, SnapFrom, SaveFrom, LogFrom, Market, SameOrder
<1> QED BY <1>1, <1>2, <1>3, <1>4, <1>5 DEF Next

-----------------------------------------------------------------------------
(* Entry lines                                                             *)

(* Whatever a process may still write to open_orders.json has its line.     *)
EntryInv ==
  /\ \A t \in tracked : HasEntry(t.order)
  /\ \A p \in Procs : \A t \in snap[p] : HasEntry(t.order)
  /\ \A p \in Procs : pc[p] = "save" => HasEntry(mine[p])

LEMMA EntryStep == TypeInv /\ EntryInv /\ [Next]_vars => EntryInv'
<1> SUFFICES ASSUME TypeInv, EntryInv, [Next]_vars PROVE EntryInv'
  OBVIOUS
<1>1. Provenance
  BY StepProvenance
<1>2. \A order : HasEntry(order) => HasEntry(order)'
  BY <1>1 DEF Provenance, HasEntry
<1>3. \A t \in tracked' : HasEntry(t.order)'
  <2>1. \A q \in Procs : Placed(q).order = mine[q]
    BY DEF Placed
  <2> QED BY <1>1, <1>2, <2>1 DEF Provenance, TrackedFrom, EntryInv
<1>4. \A p \in Procs : \A t \in snap'[p] : HasEntry(t.order)'
  BY <1>1, <1>2 DEF Provenance, SnapFrom, EntryInv
<1>5. ASSUME NEW p \in Procs, pc'[p] = "save" PROVE HasEntry(mine[p])'
  <2>1. SameOrder(p) /\ pc[p] \in {"log", "save"}
    BY <1>1, <1>5 DEF Provenance, SaveFrom
  <2>2. CASE pc[p] = "save"
    BY <1>2, <2>1, <2>2 DEF EntryInv, SameOrder
  <2>3. CASE pc[p] = "log"
    <3>1. [event |-> "entry", sym |-> current[p].sym, order |-> mine[p]] \in log'
      BY <1>1, <1>5, <2>3 DEF Provenance, SaveFrom
    <3> QED BY <2>1, <3>1 DEF HasEntry, SameOrder
  <2> QED BY <2>1, <2>2, <2>3
<1> QED BY <1>3, <1>4, <1>5 DEF EntryInv

(* The trade log names every tracked order's entry, however many processes  *)
(* share the files and whatever they lose.                                  *)
THEOREM EntriesLogged == Spec => []EntryLogged
<1>1. Init => EntryInv
  BY DEF Init, EntryInv
<1>2. EntryInv => EntryLogged
  BY DEF EntryInv, EntryLogged, HasEntry
<1> QED BY <1>1, <1>2, EntryStep, TypeInvHolds, PTL DEF Spec

-----------------------------------------------------------------------------
(* The number of entries                                                   *)

(* Processes that have seen the account empty and may still order.          *)
Committed == {p \in Procs : pc[p] \in Committing}

(* Open entries and those that may still come, together, are bounded.       *)
BoundInv ==
  /\ IsFiniteSet(positions)
  /\ Cardinality(positions) + Cardinality(Committed) <= Cardinality(Procs)

(* How one step can change the two sets. *)
Withdraw == positions' \subseteq positions /\ Committed' \subseteq Committed
Commit == positions = {} /\ positions' = {}
Place ==
  \E p \in Committed :
    /\ Committed' = Committed \ {p}
    /\ \E x : positions' = positions \cup {x}

LEMMA HousekeepingWithdraws ==
  ASSUME TypeInv, NEW p \in Procs, Housekeeping(p)
  PROVE  Withdraw
<1>1. /\ positions' = positions
      /\ \E phase \in Phases \ Committing : pc' = [pc EXCEPT ![p] = phase]
  BY DEF Housekeeping, StartCycle, CancelSave, Load, SyncFails, SyncReads, Clean, SaveSync,
         Scan, StartTest, EndCycle, Goto, exchange, Phases, Committing
<1> QED BY <1>1 DEF Withdraw, Committed, TypeInv, TypeOK

LEMMA PlacingBounded ==
  ASSUME TypeInv, ~ReadsFail, NEW p \in Procs, Placing(p)
  PROVE  Withdraw \/ Commit \/ Place
<1> USE DEF TypeInv, TypeOK, Committed, Committing, exchange, Goto, NextSignal
<1>1. CASE CheckPositions(p)
  BY <1>1 DEF CheckPositions, Withdraw, Commit
<1>2. CASE Refuse(p)
  BY <1>2 DEF Refuse, Withdraw
<1>3. CASE Admit(p)
  BY <1>3 DEF Admit, Withdraw
<1>4. CASE SetLeverage(p)
  BY <1>4 DEF SetLeverage, Withdraw
<1>5. CASE ReadLeverage(p)
  BY <1>5 DEF ReadLeverage, Withdraw
<1>6. CASE CreateOrder(p)
  <2>1. CASE Accept(current[p])
    <3>1. p \in Committed /\ Committed' = Committed \ {p}
      BY <1>6 DEF CreateOrder
    <3>2. \E x : positions' = positions \cup {x}
      BY <2>1 DEF Accept
    <3> QED BY <3>1, <3>2 DEF Place
  <2>2. CASE ~Accept(current[p])
    BY <1>6, <2>2 DEF CreateOrder, Withdraw
  <2> QED BY <2>1, <2>2
<1>7. CASE LogEntry(p)
  BY <1>7 DEF LogEntry, Withdraw
<1>8. CASE SaveEntry(p)
  BY <1>8 DEF SaveEntry, Withdraw
<1>9. CASE WriteFails(p)
  BY <1>9 DEF WriteFails, Withdraw
<1> QED
  BY <1>1, <1>2, <1>3, <1>4, <1>5, <1>6, <1>7, <1>8, <1>9 DEF Placing

LEMMA StepBounded ==
  ASSUME ~ReadsFail, TypeInv, [Next]_vars
  PROVE  Withdraw \/ Commit \/ Place
<1>1. CASE \E p \in Procs : Housekeeping(p)
  BY <1>1, HousekeepingWithdraws
<1>2. CASE \E p \in Procs : Placing(p)
  BY <1>2, PlacingBounded
<1>3. ASSUME NEW p \in Procs, Crash(p) PROVE Withdraw
  BY <1>3 DEF Crash, Goto, exchange, Withdraw, Committed, Committing, TypeInv, TypeOK
<1>4. CASE ClosePosition
  BY <1>4 DEF ClosePosition, Withdraw, Committed
<1>5. CASE UNCHANGED vars
  BY <1>5 DEF vars, Withdraw, Committed
<1> QED BY <1>1, <1>2, <1>3, <1>4, <1>5 DEF Next

LEMMA BoundStep ==
  ASSUME ~ReadsFail
  PROVE  TypeInv /\ BoundInv /\ [Next]_vars => BoundInv'
<1> SUFFICES ASSUME TypeInv, BoundInv, [Next]_vars PROVE BoundInv'
  OBVIOUS
<1>1. IsFiniteSet(Procs) /\ Committed \subseteq Procs /\ Committed' \subseteq Procs
  BY LiveScanAssumption DEF Committed
<1>2. IsFiniteSet(Committed) /\ IsFiniteSet(Committed') /\ IsFiniteSet(positions)
  BY <1>1, FS_Subset DEF BoundInv
<1>3. /\ Cardinality(Committed) \in Nat /\ Cardinality(Committed') \in Nat
      /\ Cardinality(positions) \in Nat /\ Cardinality(Procs) \in Nat
  BY <1>1, <1>2, FS_CardinalityType
<1>4. Cardinality(positions) + Cardinality(Committed) <= Cardinality(Procs)
  BY DEF BoundInv
<1>5. CASE Withdraw
  <2>1. /\ IsFiniteSet(positions')
        /\ Cardinality(positions') <= Cardinality(positions)
        /\ Cardinality(Committed') <= Cardinality(Committed)
    BY <1>2, <1>5, FS_Subset DEF Withdraw
  <2>2. Cardinality(positions') \in Nat
    BY <2>1, FS_CardinalityType
  <2> QED BY <1>3, <1>4, <2>1, <2>2 DEF BoundInv
<1>6. CASE Commit
  <2>1. IsFiniteSet(positions') /\ Cardinality(positions') = 0
    BY <1>6, FS_EmptySet DEF Commit
  <2>2. Cardinality(Committed') <= Cardinality(Procs)
    BY <1>1, FS_Subset
  <2> QED BY <1>3, <2>1, <2>2 DEF BoundInv
<1>7. CASE Place
  <2>1. PICK p \in Committed : /\ Committed' = Committed \ {p}
                               /\ \E x : positions' = positions \cup {x}
    BY <1>7 DEF Place
  <2>2. PICK x : positions' = positions \cup {x}
    BY <2>1
  <2>3. Cardinality(Committed') = Cardinality(Committed) - 1
    BY <1>2, <2>1, FS_RemoveElement
  <2>4. /\ IsFiniteSet(positions') /\ Cardinality(positions') \in Nat
        /\ Cardinality(positions') <= Cardinality(positions) + 1
    <3>1. /\ IsFiniteSet(positions \cup {x})
          /\ Cardinality(positions \cup {x}) =
               IF x \in positions THEN Cardinality(positions) ELSE Cardinality(positions) + 1
      BY <1>2, FS_AddElement
    <3> QED BY <1>3, <2>2, <3>1
  <2> QED BY <1>3, <1>4, <2>3, <2>4 DEF BoundInv
<1> QED BY <1>5, <1>6, <1>7, StepBounded

LEMMA BoundInit == Init => BoundInv
<1> SUFFICES ASSUME Init PROVE BoundInv
  OBVIOUS
<1>1. positions = {} /\ Committed = {}
  BY DEF Init, Committed, Committing
<1> QED
  BY <1>1, FS_EmptySet, FS_CardinalityType, LiveScanAssumption DEF BoundInv

LEMMA BoundInvHolds ==
  ASSUME ~ReadsFail
  PROVE  Spec => []BoundInv
  BY BoundInit, BoundStep, TypeInvHolds, PTL DEF Spec

LEMMA BoundImplies == BoundInv => PositionsBounded
<1> SUFFICES ASSUME BoundInv PROVE PositionsBounded
  OBVIOUS
<1>1. IsFiniteSet(Committed) /\ IsFiniteSet(Procs)
  BY LiveScanAssumption, FS_Subset DEF Committed
<1>2. /\ Cardinality(positions) \in Nat /\ Cardinality(Committed) \in Nat
      /\ Cardinality(Procs) \in Nat
  BY <1>1, FS_CardinalityType DEF BoundInv
<1> QED BY <1>2 DEF BoundInv, PositionsBounded

(* As long as the exchange answers the position check, the account holds at *)
(* most one entry per process, whatever is lost and whoever dies.           *)
THEOREM EntriesBounded ==
  ASSUME ~ReadsFail
  PROVE  Spec => []PositionsBounded
  BY BoundInvHolds, BoundImplies, PTL

(* One process alone keeps to one trade at a time.                          *)
THEOREM LoneProcessOneTrade ==
  ASSUME ~ReadsFail, NEW p, Procs = {p}, MaxTrades >= 1
  PROVE  Spec => []OneTrade
<1>1. Cardinality(Procs) = 1
  BY FS_Singleton
<1>2. BoundInv => OneTrade
  <2>1. BoundInv => Cardinality(positions) \in Nat
    BY FS_CardinalityType DEF BoundInv
  <2>2. MaxTrades \in Nat
    BY LiveScanAssumption
  <2> QED BY <1>1, <2>1, <2>2, BoundImplies DEF PositionsBounded, OneTrade
<1> QED BY <1>2, BoundInvHolds, PTL

-----------------------------------------------------------------------------
(* Orders and their numbers                                                *)

(* A record whose order number was handed out, and whose symbol is the one  *)
(* of the position with that number.                                        *)
Fits(order, sym) ==
  order <= accepted /\ \A x \in positions : x.order = order => x.sym = sym
Gone(order) == order <= accepted /\ \A x \in positions : x.order # order

OrderInv ==
  /\ \A x \in positions : x.order <= accepted
  /\ \A x, y \in positions : x.order = y.order => x = y
  /\ \A t \in tracked : Fits(t.order, t.sym)
  /\ \A p \in Procs : \A t \in snap[p] : Fits(t.order, t.sym)
  /\ \A p \in Procs : pc[p] \in {"log", "save"} => Fits(mine[p], current[p].sym)

LEMMA AcceptAdds ==
  ASSUME TypeInv, NEW p \in Procs, pc[p] = "create", Accept(current[p])
  PROVE  /\ accepted \in Nat /\ accepted' = accepted + 1
         /\ \E x \in Position : /\ positions' = positions \cup {x}
                                /\ x.order = accepted' /\ x.sym = current[p].sym
<1>1. current[p] \in Signals /\ accepted \in Nat
  BY DEF TypeInv, TypeOK, CurrentSet, Busy
<1>2. leverage[current[p].sym][current[p].side] \in Nat
  BY <1>1, SignalTyped DEF TypeInv, TypeOK
<1> DEFINE x == [sym |-> current[p].sym, side |-> current[p].side, order |-> accepted + 1,
                 lev |-> leverage[current[p].sym][current[p].side],
                 target |-> current[p].lev]
<1>3. x \in Position
  BY <1>1, <1>2, SignalTyped DEF Position
<1>4. positions' = positions \cup {x} /\ accepted' = accepted + 1
  BY DEF Accept
<1> QED BY <1>1, <1>3, <1>4

LEMMA FitsKept ==
  ASSUME TypeInv, Provenance, NEW order \in Nat, NEW sym
  PROVE  /\ Fits(order, sym) => Fits(order, sym)'
         /\ Gone(order) => Gone(order)'
<1>1. CASE positions' \subseteq positions /\ accepted' = accepted
  BY <1>1 DEF Fits, Gone
<1>2. CASE \E q \in Procs : pc[q] = "create" /\ Accept(current[q])
  <2>1. PICK q \in Procs : pc[q] = "create" /\ Accept(current[q])
    BY <1>2
  <2>2. /\ accepted \in Nat /\ accepted' = accepted + 1
        /\ \E x \in Position : positions' = positions \cup {x} /\ x.order = accepted'
    BY <2>1, AcceptAdds
  <2> QED BY <2>2 DEF Fits, Gone
<1> QED BY <1>1, <1>2 DEF Provenance, Market

LEMMA OrderStep == TypeInv /\ OrderInv /\ [Next]_vars => OrderInv'
<1> SUFFICES ASSUME TypeInv, OrderInv, [Next]_vars PROVE OrderInv'
  OBVIOUS
<1>1. Provenance
  BY StepProvenance
<1>2. /\ \A x \in positions' : x.order <= accepted'
      /\ \A x, y \in positions' : x.order = y.order => x = y
  <2>1. CASE positions' \subseteq positions /\ accepted' = accepted
    BY <2>1 DEF OrderInv
  <2>2. CASE \E q \in Procs : pc[q] = "create" /\ Accept(current[q])
    <3>1. PICK q \in Procs : pc[q] = "create" /\ Accept(current[q])
      BY <2>2
    <3>2. PICK x \in Position : positions' = positions \cup {x} /\ x.order = accepted'
      BY <3>1, AcceptAdds
    <3>3. accepted \in Nat /\ accepted' = accepted + 1
      BY <3>1, AcceptAdds
    <3>4. \A y \in positions : y.order \in Nat /\ y.order <= accepted
      BY DEF OrderInv, TypeInv, TypeOK, Position
    <3> QED BY <3>2, <3>3, <3>4 DEF OrderInv
  <2> QED BY <1>1, <2>1, <2>2 DEF Provenance, Market
<1>3. \A q \in Procs : pc[q] = "save" => Fits(Placed(q).order, Placed(q).sym)
  BY DEF OrderInv, Placed
<1>4. \A q \in Procs : Placed(q).order \in Nat
  BY DEF Placed, TypeInv, TypeOK
<1>5. \A t \in tracked' : Fits(t.order, t.sym)'
  <2> SUFFICES ASSUME NEW t \in tracked' PROVE Fits(t.order, t.sym)'
    OBVIOUS
  <2>1. t.order \in Nat /\ Fits(t.order, t.sym)
    BY <1>1, <1>3, <1>4 DEF Provenance, TrackedFrom, OrderInv, TypeInv, TypeOK, Trade
  <2> QED BY <1>1, <2>1, FitsKept
<1>6. \A q \in Procs : \A t \in snap'[q] : Fits(t.order, t.sym)'
  <2> SUFFICES ASSUME NEW q \in Procs, NEW t \in snap'[q] PROVE Fits(t.order, t.sym)'
    OBVIOUS
  <2>1. t.order \in Nat /\ Fits(t.order, t.sym)
    BY <1>1 DEF Provenance, SnapFrom, OrderInv, TypeInv, TypeOK, Trade
  <2> QED BY <1>1, <2>1, FitsKept
<1>7. ASSUME NEW q \in Procs, pc'[q] \in {"log", "save"}
      PROVE  Fits(mine[q], current[q].sym)'
  <2>1. CASE pc[q] \in {"log", "save"} /\ SameOrder(q)
    <3>1. mine[q] \in Nat /\ Fits(mine[q], current[q].sym)
      BY <2>1 DEF OrderInv, TypeInv, TypeOK
    <3>2. Fits(mine[q], current[q].sym)' <=>
            (mine'[q] <= accepted' /\ \A x \in positions' : x.order = mine'[q] => x.sym = current'[q].sym)
      BY DEF Fits
    <3>3. mine[q] <= accepted' /\ \A x \in positions' : x.order = mine[q] => x.sym = current[q].sym
      <4> DEFINE o == mine[q]
                 s == current[q].sym
      <4>1. o \in Nat /\ Fits(o, s)
        BY <3>1
      <4> HIDE DEF o, s
      <4>2. \/ /\ positions' \subseteq positions
               /\ accepted' = accepted
            \/ /\ accepted \in Nat /\ accepted' = accepted + 1
               /\ \E x \in Position : positions' = positions \cup {x} /\ x.order = accepted'
        BY <1>1, AcceptAdds DEF Provenance, Market
      <4>3. o <= accepted' /\ \A x \in positions' : x.order = o => x.sym = s
        BY <4>1, <4>2 DEF Fits
      <4> QED BY <4>3 DEF o, s
    <3> QED BY <2>1, <3>2, <3>3 DEF SameOrder
  <2>2. CASE /\ pc[q] = "create" /\ Accept(current[q])
             /\ mine'[q] = accepted' /\ current'[q] = current[q]
    <3>1. PICK x \in Position : /\ positions' = positions \cup {x}
                                /\ x.order = accepted' /\ x.sym = current[q].sym
      BY <2>2, AcceptAdds
    <3>2. accepted \in Nat /\ accepted' = accepted + 1
      BY <2>2, AcceptAdds
    <3>3. \A y \in positions : y.order \in Nat /\ y.order <= accepted
      BY DEF OrderInv, TypeInv, TypeOK, Position
    <3>4. mine'[q] <= accepted' /\ \A y \in positions' : y.order = mine'[q] => y.sym = current'[q].sym
      BY <2>2, <3>1, <3>2, <3>3
    <3> QED BY <3>4 DEF Fits
  <2> QED BY <1>1, <1>7, <2>1, <2>2 DEF Provenance, SaveFrom, LogFrom
<1> QED BY <1>2, <1>5, <1>6, <1>7 DEF OrderInv

LEMMA OrderInvHolds == Spec => []OrderInv
<1>1. Init => OrderInv
  BY DEF Init, OrderInv
<1> QED BY <1>1, OrderStep, TypeInvHolds, PTL DEF Spec

-----------------------------------------------------------------------------
(* Orphans                                                                 *)

CleanFrom ==
  \A q \in Procs : pc'[q] = "clean" =>
    /\ snap'[q] = snap[q]
    /\ \/ pc[q] = "clean" /\ seen'[q] = seen[q]
       \/ /\ positions' = positions /\ accepted' = accepted
          /\ seen'[q] = {x.sym : x \in positions}
CleanedFrom ==
  \A l \in log' : l.event = "orphan_cleaned" =>
    \/ l \in log
    \/ \E q \in Procs : /\ pc[q] = "clean"
                      /\ \E t \in snap[q] : t.sym \notin seen[q] /\ l.order = t.order

LEMMA HousekeepingCleans ==
  ASSUME TypeInv, NEW p \in Procs, Housekeeping(p)
  PROVE  CleanFrom /\ CleanedFrom
<1> USE DEF files, exchange, placing, Goto, TypeInv, TypeOK, CleanFrom, CleanedFrom
<1>1. CASE SyncReads(p)
  BY <1>1 DEF SyncReads
<1>2. CASE Clean(p)
  BY <1>2 DEF Clean
<1>3. CASE ~SyncReads(p) /\ ~Clean(p)
  BY <1>3 DEF Housekeeping, StartCycle, CancelSave, Load, SyncFails, SaveSync,
              Scan, StartTest, EndCycle
<1> QED BY <1>1, <1>2, <1>3

LEMMA StepCleans == TypeInv /\ [Next]_vars => CleanFrom /\ CleanedFrom
<1> SUFFICES ASSUME TypeInv, [Next]_vars PROVE CleanFrom /\ CleanedFrom
  OBVIOUS
<1>1. CASE \E p \in Procs : Housekeeping(p)
  BY <1>1, HousekeepingCleans
<1>2. ASSUME NEW p \in Procs, Placing(p) PROVE CleanFrom /\ CleanedFrom
  <2>1. CleanFrom
    BY <1>2 DEF Placing, CheckPositions, Refuse, Admit, SetLeverage, ReadLeverage, CreateOrder,
                LogEntry, SaveEntry, WriteFails, NextSignal, Goto, TypeInv, TypeOK, CleanFrom
  <2>2. CleanedFrom
    BY <1>2 DEF Placing, CheckPositions, Refuse, Admit, SetLeverage, ReadLeverage, CreateOrder,
                LogEntry, SaveEntry, WriteFails, files, CleanedFrom
  <2> QED BY <2>1, <2>2
<1>3. ASSUME NEW p \in Procs, Crash(p) PROVE CleanFrom /\ CleanedFrom
  BY <1>3 DEF Crash, Goto, files, exchange, TypeInv, TypeOK, CleanFrom, CleanedFrom
<1>4. CASE ClosePosition
  BY <1>4 DEF ClosePosition, files, CleanFrom, CleanedFrom
<1>5. CASE UNCHANGED vars
  BY <1>5 DEF vars, CleanFrom, CleanedFrom
<1> QED BY <1>1, <1>2, <1>3, <1>4, <1>5 DEF Next

CleanedInv ==
  /\ \A l \in log : l.event = "orphan_cleaned" => Gone(l.order)
  /\ \A p \in Procs : pc[p] = "clean" =>
       \A t \in snap[p] : t.sym \notin seen[p] => Gone(t.order)

LEMMA CleanedStep == TypeInv /\ OrderInv /\ CleanedInv /\ [Next]_vars => CleanedInv'
<1> SUFFICES ASSUME TypeInv, OrderInv, CleanedInv, [Next]_vars PROVE CleanedInv'
  OBVIOUS
<1>1. Provenance /\ CleanFrom /\ CleanedFrom
  BY StepProvenance, StepCleans
<1>2. TypeInv'
  BY TypeStep
<1>3. ASSUME NEW l \in log', l.event = "orphan_cleaned" PROVE Gone(l.order)'
  <2>1. l.order \in Nat
    BY <1>2 DEF TypeInv, TypeOK, Line
  <2>2. Gone(l.order)
    BY <1>1, <1>3 DEF CleanedFrom, CleanedInv
  <2> QED BY <1>1, <2>1, <2>2, FitsKept
<1>4. ASSUME NEW q \in Procs, pc'[q] = "clean", NEW t \in snap'[q], t.sym \notin seen'[q]
      PROVE  Gone(t.order)'
  <2>1. t \in snap[q] /\ t.order \in Nat
    BY <1>1, <1>4 DEF CleanFrom, TypeInv, TypeOK, Trade
  <2>2. CASE pc[q] = "clean" /\ seen'[q] = seen[q]
    <3>1. Gone(t.order)
      BY <1>4, <2>1, <2>2 DEF CleanedInv
    <3> QED BY <1>1, <2>1, <3>1, FitsKept
  <2>3. CASE /\ positions' = positions /\ accepted' = accepted
             /\ seen'[q] = {x.sym : x \in positions}
    <3>1. Fits(t.order, t.sym)
      BY <2>1 DEF OrderInv
    <3> QED BY <1>4, <2>3, <3>1 DEF Fits, Gone
  <2> QED BY <1>1, <1>4, <2>2, <2>3 DEF CleanFrom
<1> QED BY <1>3, <1>4 DEF CleanedInv

(* A trade that the log calls orphaned has lost its position for good,      *)
(* whatever other processes place meanwhile on the same symbol.             *)
THEOREM OrphansAreClosed == Spec => []CleanedAreClosed
<1>1. Init => CleanedInv
  BY DEF Init, CleanedInv
<1>2. CleanedInv => CleanedAreClosed
  BY DEF CleanedInv, CleanedAreClosed, Gone, Orders
<1> QED BY <1>1, <1>2, CleanedStep, OrderInvHolds, TypeInvHolds, PTL DEF Spec

-----------------------------------------------------------------------------
(* Refinement                                                              *)

LEMMA DeskCardinality == \A S : Desk!Cardinality(S) = Cardinality(S)
  BY DEF Desk!Cardinality, Cardinality

(* Fewer orders than processes while one of them may still place.           *)
LEMMA RoomForOne ==
  ASSUME TypeInv, BoundInv, NEW p \in Procs, pc[p] = "create"
  PROVE  Cardinality(Orders(positions)) < Cardinality(Procs)
<1>1. IsFiniteSet(Committed) /\ IsFiniteSet(Procs) /\ IsFiniteSet(positions)
  BY LiveScanAssumption, FS_Subset DEF Committed, BoundInv
<1>2. p \in Committed
  BY DEF Committed, Committing
<1>3. /\ Cardinality(Committed) \in Nat /\ Cardinality(Procs) \in Nat
      /\ Cardinality(positions) \in Nat /\ Cardinality(Committed) # 0
  BY <1>1, <1>2, FS_CardinalityType, FS_EmptySet
<1>4. /\ IsFiniteSet(Orders(positions))
      /\ Cardinality(Orders(positions)) <= Cardinality(positions)
  <2> DEFINE f == [x \in positions |-> x.order]
  <2>1. f \in Surjection(positions, Orders(positions))
    BY DEF Surjection, Orders
  <2> QED BY <1>1, <2>1, FS_Surjection
<1>5. Cardinality(Orders(positions)) \in Nat
  BY <1>4, FS_CardinalityType
<1> QED BY <1>3, <1>4, <1>5 DEF BoundInv

LEMMA DeskStep ==
  ASSUME TypeInv, OrderInv, BoundInv, [Next]_vars
  PROVE  [Desk!Next]_<<Orders(positions), accepted>>
<1>1. CASE \E q \in Procs : pc[q] = "create" /\ Accept(current[q])
  <2>1. PICK q \in Procs : pc[q] = "create" /\ Accept(current[q])
    BY <1>1
  <2>2. accepted' = accepted + 1
    BY <2>1, AcceptAdds
  <2>3. Orders(positions)' = Orders(positions) \cup {accepted'}
    <3>1. PICK x \in Position : positions' = positions \cup {x} /\ x.order = accepted'
      BY <2>1, AcceptAdds
    <3> QED BY <3>1 DEF Orders
  <2>4. Cardinality(Orders(positions)) < Cardinality(Procs)
    BY <2>1, RoomForOne
  <2> QED BY <2>2, <2>3, <2>4, DeskCardinality DEF Desk!Next, Desk!Enter
<1>2. CASE ClosePosition
  <2>1. PICK x \in positions : positions' = positions \ {x} /\ accepted' = accepted
    BY <1>2 DEF ClosePosition
  <2>2. Orders(positions)' = Orders(positions) \ {x.order}
    BY <2>1 DEF Orders, OrderInv
  <2>3. x.order \in Orders(positions)
    BY <2>1 DEF Orders
  <2> QED BY <2>1, <2>2, <2>3 DEF Desk!Next, Desk!Exit
<1>3. CASE positions' = positions /\ accepted' = accepted
  BY <1>3 DEF Orders
<1>4. \/ \E q \in Procs : pc[q] = "create" /\ Accept(current[q])
      \/ ClosePosition
      \/ positions' = positions /\ accepted' = accepted
  <2>1. CASE \E p \in Procs : Housekeeping(p)
    BY <2>1 DEF Housekeeping, StartCycle, CancelSave, Load, SyncFails, SyncReads, Clean, SaveSync,
                Scan, StartTest, EndCycle, exchange
  <2>2. CASE \E p \in Procs : Placing(p)
    BY <2>2 DEF Placing, CheckPositions, Refuse, Admit, SetLeverage, ReadLeverage, CreateOrder,
                LogEntry, SaveEntry, WriteFails, exchange
  <2>3. CASE \E p \in Procs : Crash(p)
    BY <2>3 DEF Crash, exchange
  <2>4. CASE UNCHANGED vars
    BY <2>4 DEF vars
  <2> QED BY <2>1, <2>2, <2>3, <2>4 DEF Next
<1> QED BY <1>1, <1>2, <1>3, <1>4

(* Every behaviour of the scanners is one of the abstract desk with a place *)
(* per process, provided the position check is answered.                    *)
THEOREM ScanImplementsDesk ==
  ASSUME ~ReadsFail
  PROVE  Spec => ImplementsDesk
<1>1. Init => Desk!Init
  BY DEF Init, Desk!Init, Orders
<1>2. TypeInv /\ OrderInv /\ BoundInv /\ [Next]_vars
        => [Desk!Next]_<<Orders(positions), accepted>>
  BY DeskStep
<1> QED
  BY <1>1, <1>2, TypeInvHolds, OrderInvHolds, BoundInvHolds, PTL
  DEF Spec, ImplementsDesk, Desk!Spec

-----------------------------------------------------------------------------
(* One process that cannot read positions but loses nothing                *)

Listing == {"cancel", "sync", "clean", "saveSync"}
Admitted == {"setLeverage", "readLeverage", "create", "log", "save"}

(* The tracked orders stand in for the account: each list the process may   *)
(* write back names every open entry, and has room for the one it adds.     *)
ListsCover(p) ==
  /\ pc[p] \in Listing =>
       snap[p] \subseteq tracked /\ Orders(positions) \subseteq Orders(snap[p])
  /\ pc[p] = "clean" => \A x \in positions : x.sym \in seen[p]
  /\ pc[p] \in Admitted => snap[p] = tracked /\ Cardinality(tracked) < MaxTrades
PositionsCovered(p) ==
  Orders(positions) \subseteq
    Orders(tracked) \cup (IF pc[p] \in {"log", "save"} THEN {mine[p]} ELSE {})
TrackedBounded == IsFiniteSet(tracked) /\ Cardinality(tracked) <= MaxTrades
SoloInv(p) == faults = 0 /\ TrackedBounded /\ ListsCover(p) /\ PositionsCovered(p)

LEMMA SubsetBounded ==
  ASSUME TrackedBounded, NEW S, S \subseteq tracked
  PROVE  IsFiniteSet(S) /\ Cardinality(S) <= MaxTrades
<1>1. IsFiniteSet(S) /\ Cardinality(S) <= Cardinality(tracked)
  BY FS_Subset DEF TrackedBounded
<1>2. Cardinality(S) \in Nat /\ Cardinality(tracked) \in Nat /\ MaxTrades \in Nat
  BY <1>1, FS_CardinalityType, LiveScanAssumption DEF TrackedBounded
<1> QED BY <1>1, <1>2 DEF TrackedBounded

LEMMA SoloHousekeeping ==
  ASSUME NEW p \in Procs, TypeInv, OrderInv, SoloInv(p), Housekeeping(p)
  PROVE  SoloInv(p)'
<1> USE DEF files, exchange, placing, Goto, Listing, Admitted, TypeInv, TypeOK
<1>1. /\ positions' = positions /\ faults' = faults
      /\ faults = 0 /\ Orders(positions)' = Orders(positions)
  BY DEF Housekeeping, StartCycle, CancelSave, Load, SyncFails, SyncReads, Clean, SaveSync,
         Scan, StartTest, EndCycle, Orders, SoloInv
<1>2. CASE /\ tracked' = tracked /\ snap'[p] = tracked
           /\ pc[p] \notin {"log", "save"} /\ pc'[p] \in {"cancel", "load", "sync", "scan"}
  BY <1>1, <1>2 DEF SoloInv, TrackedBounded, ListsCover, PositionsCovered, Orders
<1>3. CASE StartCycle(p) \/ Load(p)
  BY <1>2, <1>3 DEF StartCycle, Load
<1>4. CASE CancelSave(p) \/ SaveSync(p)
  <2>1. /\ tracked' = snap[p] /\ snap[p] \subseteq tracked
        /\ Orders(positions) \subseteq Orders(snap[p])
        /\ pc'[p] \in {"load", "scan"}
    BY <1>4 DEF CancelSave, SaveSync, SoloInv, ListsCover
  <2>2. TrackedBounded'
    BY <2>1, SubsetBounded DEF SoloInv, TrackedBounded
  <2>3. ListsCover(p)' /\ PositionsCovered(p)'
    BY <1>1, <2>1 DEF ListsCover, PositionsCovered, Orders
  <2> QED BY <1>1, <2>2, <2>3 DEF SoloInv
<1>5. CASE SyncFails(p)
  BY <1>1, <1>5 DEF SyncFails, SoloInv, TrackedBounded, ListsCover, PositionsCovered, Orders
<1>6. CASE SyncReads(p)
  <2>1. /\ pc[p] = "sync" /\ pc'[p] = "clean" /\ seen'[p] = {x.sym : x \in positions}
        /\ UNCHANGED <<tracked, snap>>
    BY <1>6 DEF SyncReads
  <2> QED
    BY <1>1, <2>1 DEF SoloInv, TrackedBounded, ListsCover, PositionsCovered, Orders
<1>7. CASE Clean(p)
  <2>1. /\ pc[p] = "clean" /\ pc'[p] = "saveSync" /\ tracked' = tracked
        /\ snap'[p] = snap[p] \ {t \in snap[p] : t.sym \notin seen[p]}
    BY <1>7 DEF Clean
  <2>2. Orders(positions) \subseteq Orders(snap[p])
    BY <2>1 DEF SoloInv, ListsCover
  <2>3. \A t \in snap[p], x \in positions : t.order = x.order => t.sym \in seen[p]
    <3>1. \A t \in snap[p], x \in positions : t.order = x.order => t.sym = x.sym
      BY DEF OrderInv, Fits
    <3> QED BY <2>1, <3>1 DEF SoloInv, ListsCover
  <2>4. Orders(positions) \subseteq Orders(snap'[p])
    BY <2>1, <2>2, <2>3 DEF Orders
  <2>5. TrackedBounded' /\ PositionsCovered(p)'
    BY <1>1, <2>1 DEF SoloInv, TrackedBounded, PositionsCovered, Orders
  <2>6. ListsCover(p)'
    BY <1>1, <2>1, <2>4 DEF SoloInv, ListsCover, Orders
  <2> QED BY <1>1, <2>5, <2>6 DEF SoloInv
<1>8. CASE Scan(p) \/ StartTest(p) \/ EndCycle(p)
  <2>1. /\ tracked' = tracked /\ pc'[p] \in {"next", "idle"}
        /\ pc[p] \notin {"log", "save"}
    BY <1>8 DEF Scan, StartTest, EndCycle
  <2> QED
    BY <1>1, <2>1 DEF SoloInv, TrackedBounded, ListsCover, PositionsCovered, Orders
<1> QED BY <1>3, <1>4, <1>5, <1>6, <1>7, <1>8 DEF Housekeeping

LEMMA SoloPlacing ==
  ASSUME NEW p \in Procs, TypeInv, OrderInv, SoloInv(p), Placing(p), faults' = 0
  PROVE  SoloInv(p)'
<1> USE DEF files, exchange, placing, Goto, Listing, Admitted, TypeInv, TypeOK
<1>1. faults = 0 /\ TrackedBounded /\ ListsCover(p) /\ PositionsCovered(p)
  BY DEF SoloInv
<1>2. CASE /\ UNCHANGED <<tracked, positions, faults>>
           /\ pc[p] \notin {"log", "save"} /\ pc'[p] \in {"next", "admit"}
  BY <1>1, <1>2 DEF SoloInv, TrackedBounded, ListsCover, PositionsCovered, Orders
<1>3. CASE /\ UNCHANGED <<tracked, positions, faults>>
           /\ pc[p] \notin {"log", "save"} /\ pc'[p] \in {"setLeverage", "readLeverage", "create"}
           /\ snap'[p] = tracked /\ Cardinality(tracked) < MaxTrades
  BY <1>1, <1>3 DEF SoloInv, TrackedBounded, ListsCover, PositionsCovered, Orders
<1>4. CASE CheckPositions(p)
  BY <1>2, <1>4 DEF CheckPositions
<1>5. CASE Refuse(p)
  BY <1>2, <1>5 DEF Refuse, NextSignal
<1>6. CASE Admit(p)
  BY <1>2, <1>3, <1>6 DEF Admit, NextSignal, Admissible
<1>7. CASE SetLeverage(p)
  BY <1>1, <1>2, <1>3, <1>7 DEF SetLeverage, NextSignal, ListsCover
<1>8. CASE ReadLeverage(p)
  BY <1>1, <1>2, <1>3, <1>8 DEF ReadLeverage, NextSignal, ListsCover
<1>9. CASE CreateOrder(p)
  <2>1. CASE NextSignal(p)
    BY <1>1, <1>2, <1>9, <2>1 DEF CreateOrder, NextSignal
  <2>2. CASE ~NextSignal(p)
    <3>1. /\ pc[p] = "create" /\ pc'[p] = "log" /\ UNCHANGED <<tracked, snap, faults>>
          /\ Accept(current[p]) /\ mine'[p] = accepted'
      BY <1>9, <2>2 DEF CreateOrder
    <3>2. Orders(positions)' = Orders(positions) \cup {accepted'}
      <4>1. PICK x \in Position : positions' = positions \cup {x} /\ x.order = accepted'
        BY <3>1, AcceptAdds
      <4> QED BY <4>1 DEF Orders
    <3>3. ListsCover(p)' /\ TrackedBounded'
      BY <1>1, <3>1 DEF ListsCover, TrackedBounded
    <3>4. PositionsCovered(p)'
      <4>1. Orders(positions) \subseteq Orders(tracked)
        BY <1>1, <3>1 DEF PositionsCovered
      <4>2. Orders(tracked)' = Orders(tracked)
        BY <3>1 DEF Orders
      <4> QED BY <3>1, <3>2, <4>1, <4>2 DEF PositionsCovered
    <3> QED BY <1>1, <3>1, <3>3, <3>4 DEF SoloInv
  <2> QED BY <2>1, <2>2
<1>10. CASE LogEntry(p)
  BY <1>1, <1>10 DEF LogEntry, SoloInv, TrackedBounded, ListsCover, PositionsCovered, Orders
<1>11. CASE SaveEntry(p)
  <2>1. /\ pc[p] = "save" /\ pc'[p] = "next" /\ UNCHANGED <<positions, faults>>
        /\ snap[p] = tracked /\ Cardinality(tracked) < MaxTrades
    BY <1>1, <1>11 DEF SaveEntry, NextSignal, ListsCover
  <2>2. tracked' = tracked \cup {Placed(p)}
    BY <1>11, <2>1 DEF SaveEntry, Placed
  <2>3. TrackedBounded'
    <3>1. IsFiniteSet(tracked) /\ Cardinality(tracked) \in Nat /\ MaxTrades \in Nat
      BY <1>1, FS_CardinalityType, LiveScanAssumption DEF TrackedBounded
    <3>2. /\ IsFiniteSet(tracked \cup {Placed(p)})
          /\ Cardinality(tracked \cup {Placed(p)}) =
               IF Placed(p) \in tracked THEN Cardinality(tracked) ELSE Cardinality(tracked) + 1
      BY <3>1, FS_AddElement
    <3> QED BY <2>1, <2>2, <3>1, <3>2 DEF TrackedBounded
  <2>4. PositionsCovered(p)'
    <3>1. Orders(tracked)' = Orders(tracked) \cup {mine[p]}
      <4>1. Placed(p).order = mine[p]
        BY DEF Placed
      <4>2. {t.order : t \in tracked \cup {Placed(p)}} =
              {t.order : t \in tracked} \cup {Placed(p).order}
        OBVIOUS
      <4> QED BY <2>2, <4>1, <4>2 DEF Orders
    <3>2. Orders(positions)' = Orders(positions)
      BY <2>1 DEF Orders
    <3>3. Orders(positions) \subseteq Orders(tracked) \cup {mine[p]}
      BY <1>1, <2>1 DEF PositionsCovered
    <3> QED BY <2>1, <3>1, <3>2, <3>3 DEF PositionsCovered
  <2>5. ListsCover(p)'
    BY <2>1 DEF ListsCover
  <2> QED BY <1>1, <2>1, <2>3, <2>4, <2>5 DEF SoloInv
<1>12. ~WriteFails(p)
  BY <1>1 DEF WriteFails
<1> QED
  BY <1>4, <1>5, <1>6, <1>7, <1>8, <1>9, <1>10, <1>11, <1>12 DEF Placing

(* Faults are counted and never forgotten.                                  *)
LEMMA FaultsStay ==
  ASSUME TypeInv, [Next]_vars, faults' = 0
  PROVE  faults = 0
<1>1. faults \in Nat
  BY DEF TypeInv, TypeOK
<1>2. ASSUME NEW p \in Procs, Housekeeping(p)
      PROVE  faults' = faults
  BY <1>2 DEF Housekeeping, StartCycle, CancelSave, Load, SyncFails, SyncReads, Clean,
              SaveSync, Scan, StartTest, EndCycle
<1>3. ASSUME NEW p \in Procs, Placing(p)
      PROVE  faults' = faults \/ faults' = faults + 1
  BY <1>3 DEF Placing, CheckPositions, Refuse, Admit, SetLeverage, ReadLeverage,
              CreateOrder, LogEntry, SaveEntry, WriteFails
<1>4. ASSUME NEW p \in Procs, Crash(p)
      PROVE  faults' = faults + 1
  BY <1>4 DEF Crash
<1>5. CASE ClosePosition \/ UNCHANGED vars
  BY <1>5 DEF ClosePosition, vars
<1> QED BY <1>1, <1>2, <1>3, <1>4, <1>5 DEF Next

LEMMA SoloStep ==
  ASSUME NEW p, Procs = {p}
  PROVE  /\ TypeInv /\ OrderInv /\ [Next]_vars
         /\ faults = 0 => SoloInv(p)
         => (faults = 0 => SoloInv(p))'
<1> SUFFICES ASSUME TypeInv, OrderInv, faults = 0 => SoloInv(p), [Next]_vars, faults' = 0
             PROVE  SoloInv(p)'
  OBVIOUS
<1>0. SoloInv(p)
  BY FaultsStay
<1>1. CASE Housekeeping(p)
  BY <1>0, <1>1, SoloHousekeeping
<1>2. CASE Placing(p)
  BY <1>0, <1>2, SoloPlacing
<1>3. ~Crash(p)
  BY <1>0 DEF Crash, SoloInv
<1>4. CASE ClosePosition
  <2>1. Orders(positions)' \subseteq Orders(positions)
    BY <1>4 DEF ClosePosition, Orders
  <2>2. /\ UNCHANGED <<tracked, faults, pc, snap, seen, mine>>
        /\ positions' \subseteq positions
    BY <1>4 DEF ClosePosition, files, placing
  <2>3. TrackedBounded' /\ PositionsCovered(p)'
    BY <1>0, <2>1, <2>2 DEF SoloInv, TrackedBounded, PositionsCovered, Orders
  <2>4. ListsCover(p)'
    BY <1>0, <2>1, <2>2 DEF SoloInv, ListsCover
  <2> QED BY <1>0, <2>2, <2>3, <2>4 DEF SoloInv
<1>5. CASE UNCHANGED vars
  BY <1>0, <1>5 DEF vars, SoloInv, TrackedBounded, ListsCover, PositionsCovered, Orders
<1> QED BY <1>1, <1>2, <1>3, <1>4, <1>5 DEF Next

LEMMA SoloInit ==
  ASSUME NEW p, Procs = {p}
  PROVE  Init => SoloInv(p)
<1> SUFFICES ASSUME Init PROVE SoloInv(p)
  OBVIOUS
<1>1. TrackedBounded
  BY FS_EmptySet, LiveScanAssumption DEF Init, TrackedBounded
<1> QED
  BY <1>1 DEF Init, SoloInv, ListsCover, PositionsCovered, Orders, Listing, Admitted

(* As many positions as order numbers, for numbers are used once.           *)
LEMMA PositionsCounted ==
  ASSUME OrderInv, NEW S, IsFiniteSet(S), Orders(positions) \subseteq S
  PROVE  IsFiniteSet(positions) /\ Cardinality(positions) <= Cardinality(S)
<1> DEFINE f == [x \in positions |-> x.order]
<1>1. f \in Injection(positions, S)
  BY DEF Injection, IsInjective, OrderInv, Orders
<1> QED BY <1>1, FS_Injection

LEMMA SoloBounded ==
  ASSUME NEW p, Procs = {p}, TypeInv, OrderInv, SoloInv(p)
  PROVE  OneTrade /\ PositionsTracked
<1> DEFINE O == Orders(tracked)
<1>1. IsFiniteSet(tracked) /\ Cardinality(tracked) <= MaxTrades
  BY DEF SoloInv, TrackedBounded
<1>2. IsFiniteSet(O) /\ Cardinality(O) <= Cardinality(tracked)
  <2> DEFINE f == [t \in tracked |-> t.order]
  <2>1. f \in Surjection(tracked, O)
    BY DEF Surjection, Orders
  <2> QED BY <1>1, <2>1, FS_Surjection
<1>3. Cardinality(O) \in Nat /\ Cardinality(tracked) \in Nat /\ MaxTrades \in Nat
  BY <1>1, <1>2, FS_CardinalityType, LiveScanAssumption
<1> HIDE DEF O
<1>4. CASE pc[p] \notin {"log", "save"}
  <2>1. Orders(positions) \subseteq O
    BY <1>4 DEF SoloInv, PositionsCovered, O
  <2>2. IsFiniteSet(positions) /\ Cardinality(positions) <= Cardinality(O)
    BY <1>2, <2>1, PositionsCounted
  <2>3. Cardinality(positions) \in Nat
    BY <2>2, FS_CardinalityType
  <2> QED BY <1>1, <1>2, <1>3, <2>1, <2>2, <2>3 DEF OneTrade, PositionsTracked, O
<1>5. CASE pc[p] \in {"log", "save"}
  <2>1. Orders(positions) \subseteq O \cup {mine[p]}
    BY <1>5 DEF SoloInv, PositionsCovered, O
  <2>2. IsFiniteSet(O \cup {mine[p]}) /\ Cardinality(O \cup {mine[p]}) <= Cardinality(O) + 1
    <3>1. /\ IsFiniteSet(O \cup {mine[p]})
          /\ Cardinality(O \cup {mine[p]}) =
               IF mine[p] \in O THEN Cardinality(O) ELSE Cardinality(O) + 1
      BY <1>2, FS_AddElement
    <3> QED BY <1>3, <3>1
  <2>3. IsFiniteSet(positions) /\ Cardinality(positions) <= Cardinality(O \cup {mine[p]})
    BY <2>1, <2>2, PositionsCounted
  <2>4. Cardinality(positions) \in Nat /\ Cardinality(O \cup {mine[p]}) \in Nat
    BY <2>2, <2>3, FS_CardinalityType
  <2>5. Cardinality(tracked) < MaxTrades
    BY <1>5 DEF SoloInv, ListsCover, Admitted
  <2>6. OneTrade
    BY <1>2, <1>3, <2>2, <2>3, <2>4, <2>5 DEF OneTrade
  <2> QED BY <1>5, <2>6 DEF PositionsTracked
<1> QED BY <1>4, <1>5

(* As long as nothing has been lost, one process keeps to MAX_TRADES and    *)
(* tracks every entry, even if no position read ever succeeds.              *)
THEOREM TrackedOrdersSuffice ==
  ASSUME NEW p, Procs = {p}
  PROVE  Spec => []SoundUntilFault
<1>1. TypeInv /\ OrderInv /\ (faults = 0 => SoloInv(p))
        => SoundUntilFault
  BY SoloBounded DEF SoundUntilFault, OneTradeUntilFault, TrackedUntilFault
<1>2. Init => (faults = 0 => SoloInv(p))
  BY SoloInit
<1> QED BY <1>1, <1>2, SoloStep, TypeInvHolds, OrderInvHolds, PTL DEF Spec

=============================================================================
