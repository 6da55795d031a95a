-------------------------- MODULE PaperLedgerProofs --------------------------
(***************************************************************************)
(* Proofs about PaperLedger for every market, price set, cap and bound.    *)
(***************************************************************************)
EXTENDS PaperLedger, SequenceTheorems, FiniteSetTheorems, SumTheorems, TLAPS

(* What a line of the ledger is made of, and what a new trade is made of.  *)
LEMMA LineType ==
  ASSUME NEW t \in Trade, NEW e \in Events, NEW x \in Nat,
         NEW r \in {"none", "STALE_UNFILLED", "NOT_PROMOTED", "STOP_HIT", "TARGET_HIT"}
  PROVE  Line(t, e, r, x) \in Entry
  BY DEF Line, Entry

LEMMA NewTradeType ==
  ASSUME TypeOK, NEW i \in Intents, NEW size \in Sizes, NEW price \in Quotes
  PROVE  NewTrade(i, size, price) \in Trade
<1>1. size \in Nat /\ price \in Nat /\ i.entry \in Nat
  BY PaperLedgerAssumption
<1>2. Cents(size) \in Nat
  BY <1>1 DEF Cents
<1>3. (IF price = 0 THEN i.entry ELSE price) \in Nat
  BY <1>1
<1> QED BY <1>2, <1>3 DEF NewTrade, Trade, TypeOK, NoFill

LEMMA AfterFillType ==
  ASSUME NEW t \in Trade, NEW price \in Quotes
  PROVE  AfterFill(t, price) \in Trade
  BY PaperLedgerAssumption DEF AfterFill, Trade

(* A round of one of the three loops takes the head of todo.  Either the    *)
(* trade leaves and the ledger grows by one sound line about it, or it goes *)
(* to kept with its identity, plan, notional and fill, if it had one, and   *)
(* the ledger is as it was.  The second loop keeps what is promoted.        *)
LoopStep ==
  /\ pc \in {"expire", "legacy", "monitor"}
  /\ todo # <<>> /\ todo' = Tail(todo)
  /\ \/ /\ kept' = kept
        /\ \E e \in Entry : /\ e.trade.id = Head(todo).id
                            /\ e.event \in Settled /\ SoundLine(e)
                            /\ ledger' = Append(ledger, e)
     \/ /\ ledger' = ledger
        /\ \E t \in Trade : /\ t.id = Head(todo).id /\ t.plan = Head(todo).plan
                            /\ t.notional = Head(todo).notional
                            /\ t.fill = Head(todo).fill \/ Head(todo).fill = NoFill
                            /\ pc = "legacy" => Allowed(t.plan.family, inbox.promoted)
                            /\ kept' = Append(kept, t)
  /\ UNCHANGED <<portfolio, report, clock, nextId, kills, pc, inbox, opened>>

LEMMA HeadAndTail ==
  ASSUME TypeOK, todo # <<>>
  PROVE  Head(todo) \in Trade /\ Tail(todo) \in Seq(Trade)
  BY DEF TypeOK

LEMMA ExpireIsLoopStep == ASSUME TypeOK, ExpireOne PROVE LoopStep
<1> DEFINE t == Head(todo)
           e == Line(t, "PAPER_STALE_EXPIRED", "STALE_UNFILLED", 0)
<1>1. t \in Trade
  BY HeadAndTail DEF ExpireOne
<1>2. e \in Entry
  BY <1>1, LineType DEF Events
<1>3. CASE Stale(t)
  <2>1. e.trade.id = t.id /\ e.event \in Settled /\ SoundLine(e)
    BY <1>3 DEF Line, Settled, SoundLine, Stale
  <2>2. kept' = kept /\ ledger' = Append(ledger, e)
    BY <1>3 DEF ExpireOne
  <2> QED BY <1>2, <2>1, <2>2 DEF ExpireOne, LoopStep
<1>4. CASE ~Stale(t)
  <2>1. kept' = Append(kept, t) /\ ledger' = ledger
    BY <1>4 DEF ExpireOne
  <2> QED BY <1>1, <2>1 DEF ExpireOne, LoopStep
<1> QED BY <1>3, <1>4

LEMMA InvalidateIsLoopStep == ASSUME TypeOK, InvalidateOne PROVE LoopStep
<1> DEFINE t == Head(todo)
           e == Line(t, "LEGACY_INVALIDATED", "NOT_PROMOTED", 0)
           ok == Allowed(t.plan.family, inbox.promoted)
<1>1. t \in Trade
  BY HeadAndTail DEF InvalidateOne
<1>2. e \in Entry
  BY <1>1, LineType DEF Events
<1>3. CASE ~ok
  <2>1. e.trade.id = t.id /\ e.event \in Settled /\ SoundLine(e)
    BY DEF Line, Settled, SoundLine
  <2>2. kept' = kept /\ ledger' = Append(ledger, e)
    BY <1>3 DEF InvalidateOne
  <2> QED BY <1>2, <2>1, <2>2 DEF InvalidateOne, LoopStep
<1>4. CASE ok
  <2>1. kept' = Append(kept, t) /\ ledger' = ledger
    BY <1>4 DEF InvalidateOne
  <2> QED BY <1>1, <1>4, <2>1 DEF InvalidateOne, LoopStep
<1> QED BY <1>3, <1>4

LEMMA MonitorIsLoopStep == ASSUME TypeOK, MonitorOne PROVE LoopStep
<1>1. Head(todo) \in Trade
  BY HeadAndTail DEF MonitorOne
<1>2. PICK price \in Quotes :
        LET t == AfterFill(Head(todo), price)
            hit == Outcome(t, price)
        IN \/ /\ hit \in {"STOP_HIT", "TARGET_HIT"}
              /\ ledger' = Append(ledger, Line(t, "PAPER_CLOSED", hit, price))
              /\ UNCHANGED kept
           \/ /\ hit \notin {"STOP_HIT", "TARGET_HIT"}
              /\ kept' = Append(kept, t)
              /\ UNCHANGED ledger
  BY DEF MonitorOne
<1> DEFINE t == AfterFill(Head(todo), price)
           hit == Outcome(t, price)
           e == Line(t, "PAPER_CLOSED", hit, price)
<1>3. t \in Trade /\ t.id = Head(todo).id /\ t.plan = Head(todo).plan
  BY <1>1, AfterFillType DEF AfterFill, Trade
<1>7. t.notional = Head(todo).notional /\ (t.fill = Head(todo).fill \/ Head(todo).fill = NoFill)
  BY <1>1, AfterFillType DEF AfterFill, Trade
<1>4. price \in Nat
  BY PaperLedgerAssumption
<1>5. CASE hit \in {"STOP_HIT", "TARGET_HIT"}
  <2>1. e \in Entry
    BY <1>3, <1>4, <1>5, LineType DEF Events
  <2>2. /\ t.fill # NoFill
        /\ hit = "STOP_HIT" => StopReached(t.plan, price)
        /\ hit = "TARGET_HIT" => TargetReached(t.plan, price)
    BY <1>5 DEF Outcome, CheckHit
  <2>3. e.trade.id = Head(todo).id /\ e.event \in Settled /\ SoundLine(e)
    BY <1>3, <2>2 DEF Line, Settled, SoundLine
  <2>4. kept' = kept /\ ledger' = Append(ledger, e)
    BY <1>2, <1>5
  <2> HIDE DEF e
  <2> QED BY <2>1, <2>3, <2>4 DEF MonitorOne, LoopStep
<1>6. CASE hit \notin {"STOP_HIT", "TARGET_HIT"}
  <2>1. kept' = Append(kept, t) /\ ledger' = ledger
    BY <1>2, <1>6
  <2> HIDE DEF t
  <2> QED BY <1>3, <1>7, <2>1 DEF MonitorOne, LoopStep
<1> QED BY <1>5, <1>6

(* An attempt opens one sound new trade of a promoted family, after checking*)
(* the slot, the count and the notional in kept, or leaves everything but   *)
(* the phase alone.                                                         *)
AttemptStep ==
  /\ \/ /\ pc = "shadow" /\ pc' = "rotation"
     \/ /\ pc = "rotation" /\ pc' = "truncate"
  /\ \/ /\ nextId <= MaxTrades
        /\ \E t \in Trade, e \in Entry :
             /\ ~IsDuplicate(t.plan, kept) /\ Len(kept) < MaxActive
             /\ Allowed(t.plan.family, inbox.promoted)
             /\ \E size \in Sizes : /\ t.notional = Cents(size)
                                   /\ TotalNotional(kept) + size <= MaxNotional
             /\ t.id = nextId /\ e.trade.id = t.id
             /\ e.event = "PAPER_OPEN" /\ SoundLine(e)
             /\ kept' = Append(kept, t) /\ ledger' = Append(ledger, e)
        /\ nextId' = nextId + 1 /\ opened' = opened + 1
     \/ UNCHANGED <<kept, ledger, nextId, opened>>
  /\ UNCHANGED <<portfolio, report, clock, kills, inbox, todo>>

LEMMA AttemptIsAttemptStep ==
  ASSUME TypeOK, TryShadow \/ TryRotation PROVE AttemptStep
<1>1. PICK i \in {inbox.shadow, inbox.rotation} :
        \/ Attempt(i, "shadow", "rotation")
        \/ Attempt(i, "rotation", "truncate")
  BY DEF TryShadow, TryRotation
<1>2. i \in Intents \cup {NoIntent}
  BY <1>1 DEF TypeOK, Inbox
<1>3. CASE Open(i)
  <2>1. i \in Intents
    BY <1>2, <1>3 DEF Open
  <2>2. PICK size \in Sizes, price \in Quotes :
          /\ Admissible(i, size)
          /\ kept' = Append(kept, NewTrade(i, size, price))
          /\ ledger' = Append(ledger, Line(NewTrade(i, size, price), "PAPER_OPEN", "none", 0))
    BY <1>3 DEF Open
  <2> DEFINE t == NewTrade(i, size, price)
             e == Line(t, "PAPER_OPEN", "none", 0)
  <2>3. t \in Trade /\ t.plan = i /\ t.id = nextId
    BY <2>1, NewTradeType DEF NewTrade
  <2>4. e \in Entry /\ e.trade.id = t.id /\ e.event = "PAPER_OPEN" /\ SoundLine(e)
    BY <2>3, LineType DEF Events, Line, SoundLine
  <2>5. ~IsDuplicate(t.plan, kept) /\ Len(kept) < MaxActive
    BY <2>2, <2>3 DEF Admissible
  <2>6. kept' = Append(kept, t) /\ ledger' = Append(ledger, e)
    BY <2>2
  <2>7. Allowed(t.plan.family, inbox.promoted)
    BY <2>2, <2>3 DEF Admissible
  <2>8. t.notional = Cents(size) /\ TotalNotional(kept) + size <= MaxNotional
    BY <2>2 DEF Admissible, NewTrade
  <2> HIDE DEF t, e
  <2>9. nextId <= MaxTrades /\ nextId' = nextId + 1 /\ opened' = opened + 1
    BY <1>3 DEF Open
  <2> QED BY <1>1, <2>3, <2>4, <2>5, <2>6, <2>7, <2>8, <2>9 DEF Attempt, AttemptStep
<1>4. CASE Refuse(i)
  BY <1>1, <1>4 DEF Attempt, Refuse, AttemptStep
<1> QED BY <1>1, <1>3, <1>4 DEF Attempt

(* Every step is a round of a loop, an attempt, or one of the others, which *)
(* touch neither ledger nor the sum of todo and kept in any other way.      *)
OtherStep ==
  Begin \/ NextLoop("expire", "legacy") \/ NextLoop("legacy", "monitor")
  \/ EndMonitor \/ Truncate \/ Dump \/ Finish \/ Tick \/ Die \/ UNCHANGED vars

LEMMA StepKinds ==
  ASSUME TypeOK, [Next]_vars PROVE LoopStep \/ AttemptStep \/ OtherStep
  BY ExpireIsLoopStep, InvalidateIsLoopStep, MonitorIsLoopStep, AttemptIsAttemptStep
     DEF Next, RunStep, OtherStep

LEMMA TypeCorrectInit == Init => TypeOK
  BY DEF Init, TypeOK, EmptyInbox, Inbox, Phases

LEMMA TypeCorrectStep == ASSUME TypeOK, [Next]_vars PROVE TypeOK'
<1>1. CASE LoopStep
  <2>1. todo' \in Seq(Trade)
    BY <1>1, HeadAndTail DEF LoopStep
  <2>2. kept' \in Seq(Trade)
    <3>1. kept \in Seq(Trade) /\ (kept' = kept \/ \E t \in Trade : kept' = Append(kept, t))
      BY <1>1 DEF LoopStep, TypeOK
    <3> QED BY <3>1
  <2>3. ledger' \in Seq(Entry)
    <3>1. ledger \in Seq(Entry) /\ (ledger' = ledger \/ \E e \in Entry : ledger' = Append(ledger, e))
      BY <1>1 DEF LoopStep, TypeOK
    <3> QED BY <3>1
  <2> QED BY <1>1, <2>1, <2>2, <2>3 DEF LoopStep, TypeOK
<1>2. CASE AttemptStep
  <2>1. kept' = kept \/ \E t \in Trade : kept' = Append(kept, t)
    BY <1>2 DEF AttemptStep
  <2>2. ledger' = ledger \/ \E e \in Entry : ledger' = Append(ledger, e)
    BY <1>2 DEF AttemptStep
  <2>3. kept \in Seq(Trade) /\ ledger \in Seq(Entry)
    BY DEF TypeOK
  <2>4. kept' \in Seq(Trade) /\ ledger' \in Seq(Entry)
    <3>1. kept' \in Seq(Trade)
      BY <2>1, <2>3
    <3>2. ledger' \in Seq(Entry)
      BY <2>2, <2>3
    <3> QED BY <3>1, <3>2
  <2>5. pc' \in Phases
    BY <1>2 DEF AttemptStep, Phases
  <2>6. nextId' \in Nat /\ opened' \in Nat
    BY <1>2 DEF AttemptStep, TypeOK
  <2> QED BY <1>2, <2>4, <2>5, <2>6 DEF AttemptStep, TypeOK
<1>3. CASE OtherStep
  <2>1. EmptyInbox \in Inbox /\ <<>> \in Seq(Trade)
    BY DEF EmptyInbox, Inbox
  <2>2. CASE Begin
    <3>1. inbox' \in Inbox /\ pc' \in Phases
      BY <2>2 DEF Begin, Inbox, Phases
    <3> QED BY <2>1, <2>2, <3>1 DEF Begin, TypeOK, disk
  <2>3. CASE NextLoop("expire", "legacy") \/ NextLoop("legacy", "monitor")
    <3>1. pc' \in Phases
      BY <2>3 DEF NextLoop, Phases
    <3>2. todo' \in Seq(Trade) /\ kept' \in Seq(Trade)
      BY <2>1, <2>3 DEF NextLoop, TypeOK
    <3>3. UNCHANGED <<portfolio, ledger, report, clock, nextId, kills, inbox, opened>>
      BY <2>3 DEF NextLoop, disk
    <3> QED BY <3>1, <3>2, <3>3 DEF TypeOK
  <2>10. CASE EndMonitor
    <3>1. pc' \in Phases
      BY <2>10 DEF EndMonitor, Phases
    <3> QED BY <2>10, <3>1 DEF EndMonitor, TypeOK, disk
  <2>4. CASE Truncate
    <3>1. pc' \in Phases
      BY <2>4 DEF Truncate, Phases
    <3> QED BY <2>1, <2>4, <3>1 DEF Truncate, TypeOK
  <2>5. CASE Dump
    <3>1. pc' \in Phases
      BY <2>5 DEF Dump, Phases
    <3> QED BY <2>5, <3>1 DEF Dump, TypeOK
  <2>6. CASE Finish
    BY <2>1, <2>6 DEF Finish, TypeOK, Phases
  <2>7. CASE Tick
    BY <2>7 DEF Tick, TypeOK, disk, process
  <2>8. CASE Die
    BY <2>1, <2>8 DEF Die, TypeOK, disk, Phases
  <2>9. CASE UNCHANGED vars
    BY <2>9 DEF vars, TypeOK
  <2> QED BY <1>3, <2>2, <2>3, <2>4, <2>5, <2>6, <2>7, <2>8, <2>9, <2>10 DEF OtherStep
<1> QED BY <1>1, <1>2, <1>3, StepKinds

(* Type correctness: no operation leaves a variable outside its type. *)
THEOREM TypeCorrect == Spec => []TypeOK
<1>1. TypeOK /\ [Next]_vars => TypeOK'
  BY TypeCorrectStep
<1> QED BY <1>1, TypeCorrectInit, PTL DEF Spec

-----------------------------------------------------------------------------
(* The count cap.  PortfolioBounded is not inductive alone: an attempt adds *)
(* to kept, so nothing may be left in todo by then.                         *)

LoopsDone == pc \in {"shadow", "rotation", "truncate", "dump", "report"} => todo = <<>>
CountInv == TypeOK /\ LoopsDone /\ PortfolioBounded

LEMMA TailElements ==
  ASSUME NEW S, NEW s \in Seq(S), s # <<>>
  PROVE  /\ Len(Tail(s)) = Len(s) - 1
         /\ \A n \in 1..Len(Tail(s)) : n + 1 \in 1..Len(s) /\ Tail(s)[n] = s[n + 1]
         /\ 1 \in 1..Len(s) /\ Head(s) = s[1]
<1>1. Len(s) \in Nat /\ Len(s) >= 1
  BY EmptySeq
<1>2. Len(Tail(s)) = Len(s) - 1 /\ \A i \in 1..Len(Tail(s)) : Tail(s)[i] = s[i + 1]
  BY <1>1, HeadTailProperties
<1> QED BY <1>1, <1>2

LEMMA AppendElements ==
  ASSUME NEW S, NEW s \in Seq(S), NEW x \in S
  PROVE  /\ Len(Append(s, x)) = Len(s) + 1
         /\ \A n \in 1..Len(Append(s, x)) :
              \/ n \in 1..Len(s) /\ Append(s, x)[n] = s[n]
              \/ n = Len(s) + 1 /\ Append(s, x)[n] = x
  BY AppendProperties

LEMMA CountInvHolds == Spec => []CountInv
<1>1. Init => CountInv
  BY PaperLedgerAssumption, TypeCorrectInit DEF Init, CountInv, LoopsDone, PortfolioBounded
<1>2. CountInv /\ [Next]_vars => CountInv'
  <2> SUFFICES ASSUME CountInv, [Next]_vars PROVE CountInv'
    OBVIOUS
  <2>1. TypeOK /\ TypeOK'
    BY TypeCorrectStep DEF CountInv
  <2>2. /\ Len(portfolio) \in Nat /\ Len(todo) \in Nat /\ Len(kept) \in Nat
        /\ portfolio \in Seq(Trade) /\ todo \in Seq(Trade) /\ kept \in Seq(Trade)
        /\ MaxActive \in Nat
    BY <2>1, PaperLedgerAssumption DEF TypeOK
  <2>3. CASE LoopStep
    <3>1. Len(todo') = Len(todo) - 1
      BY <2>2, <2>3, TailElements DEF LoopStep
    <3>2. kept' = kept \/ \E t \in Trade : kept' = Append(kept, t)
      BY <2>3 DEF LoopStep
    <3>3. Len(kept') <= Len(kept) + 1 /\ Len(kept') \in Nat
      BY <2>2, <3>2, AppendElements
    <3>4. PortfolioBounded'
      BY <2>2, <2>3, <3>1, <3>3 DEF LoopStep, PortfolioBounded, CountInv
    <3> QED BY <2>1, <2>3, <3>4 DEF LoopStep, CountInv, LoopsDone
  <2>4. CASE AttemptStep
    <3>1. todo = <<>> /\ todo' = <<>>
      BY <2>4 DEF AttemptStep, CountInv, LoopsDone
    <3>2. \/ kept' = kept
          \/ Len(kept) < MaxActive /\ \E t \in Trade : kept' = Append(kept, t)
      BY <2>4 DEF AttemptStep
    <3>3. Len(kept') <= MaxActive
      BY <2>2, <3>2, AppendElements DEF CountInv, PortfolioBounded
    <3>4. Len(todo') = 0 /\ Len(kept') \in Nat
      BY <2>1, <3>1 DEF TypeOK
    <3>5. PortfolioBounded'
      BY <2>4, <3>3, <3>4 DEF AttemptStep, PortfolioBounded, CountInv
    <3> QED BY <2>1, <3>1, <3>5 DEF CountInv, LoopsDone
  <2>5. CASE OtherStep
    <3>1. LoopsDone'
      BY <2>5 DEF OtherStep, Begin, NextLoop, EndMonitor, Truncate, Dump, Finish, Tick,
                  Die, process, disk, vars, LoopsDone, CountInv
    <3>2. /\ portfolio' \in {portfolio, <<>>, kept}
          /\ \/ todo' \in {portfolio, kept, <<>>} /\ kept' = <<>>
             \/ todo' = todo /\ kept' = kept
      BY <2>5 DEF OtherStep, Begin, NextLoop, EndMonitor, Truncate, Dump, Finish, Tick,
                  Die, process, disk, vars
    <3>3. Len(<<>>) = 0
      OBVIOUS
    <3>4. PortfolioBounded'
      BY <2>2, <3>2, <3>3 DEF PortfolioBounded, CountInv
    <3> QED BY <2>1, <3>1, <3>4 DEF CountInv
  <2> QED BY <2>1, <2>3, <2>4, <2>5, StepKinds
<1> QED BY <1>1, <1>2, PTL DEF Spec

(* The portfolio file never holds more than PAPER_MAX_ACTIVE_TRADES trades, *)
(* nor does a run carry more than that towards it.                          *)
THEOREM CountCap == Spec => []PortfolioBounded
<1>1. CountInv => PortfolioBounded
  BY DEF CountInv
<1> QED BY <1>1, CountInvHolds, PTL

-----------------------------------------------------------------------------
(* The duplicate rule.  It has to hold of the three lists a run works with, *)
(* and no trade still to visit may share a slot with one already kept.      *)

NoClash(some, others) ==
  \A m \in 1..Len(some), n \in 1..Len(others) :
     ~SameSlot(some[m].plan, others[n].plan)
SlotInv ==
  /\ TypeOK /\ LoopsDone
  /\ NoTwins(portfolio) /\ NoTwins(kept) /\ NoTwins(todo) /\ NoClash(kept, todo)

LEMMA TailTwins ==
  ASSUME NEW s \in Seq(Trade), s # <<>>, NoTwins(s), NEW t \in Trade, t.plan = Head(s).plan
  PROVE  NoTwins(Tail(s)) /\ NoClash(<<t>>, Tail(s))
<1>1. NoTwins(Tail(s))
  <2> SUFFICES ASSUME NEW m \in 1..Len(Tail(s)), NEW n \in 1..Len(Tail(s)), m # n
               PROVE  ~SameSlot(Tail(s)[m].plan, Tail(s)[n].plan)
    BY DEF NoTwins
  <2>1. /\ m + 1 \in 1..Len(s) /\ Tail(s)[m] = s[m + 1]
        /\ n + 1 \in 1..Len(s) /\ Tail(s)[n] = s[n + 1]
        /\ m + 1 # n + 1
    BY TailElements
  <2> QED BY <2>1 DEF NoTwins
<1>2. NoClash(<<t>>, Tail(s))
  <2> SUFFICES ASSUME NEW n \in 1..Len(Tail(s))
               PROVE  ~SameSlot(t.plan, Tail(s)[n].plan)
    BY DEF NoClash
  <2>1. /\ n + 1 \in 1..Len(s) /\ Tail(s)[n] = s[n + 1] /\ n + 1 # 1
        /\ 1 \in 1..Len(s) /\ Head(s) = s[1]
    BY TailElements
  <2> QED BY <2>1 DEF NoTwins
<1> QED BY <1>1, <1>2

LEMMA AppendTwins ==
  ASSUME NEW s \in Seq(Trade), NEW t \in Trade, NoTwins(s), ~IsDuplicate(t.plan, s)
  PROVE  NoTwins(Append(s, t))
<1> SUFFICES ASSUME NEW m \in 1..Len(Append(s, t)), NEW n \in 1..Len(Append(s, t)), m # n
             PROVE  ~SameSlot(Append(s, t)[m].plan, Append(s, t)[n].plan)
  BY DEF NoTwins
<1>1. \A k \in 1..Len(s) : ~SameSlot(s[k].plan, t.plan) /\ ~SameSlot(t.plan, s[k].plan)
  BY DEF IsDuplicate, SameSlot
<1>2. \A k \in 1..Len(Append(s, t)) :
        \/ k \in 1..Len(s) /\ Append(s, t)[k] = s[k]
        \/ k = Len(s) + 1 /\ Append(s, t)[k] = t
  BY AppendElements
<1>3. CASE m \in 1..Len(s) /\ n \in 1..Len(s)
  <2>1. ~SameSlot(s[m].plan, s[n].plan)
    BY <1>3 DEF NoTwins
  <2>2. Append(s, t)[m] = s[m] /\ Append(s, t)[n] = s[n]
    BY <1>2, <1>3
  <2> QED BY <2>1, <2>2
<1>4. CASE m = Len(s) + 1 \/ n = Len(s) + 1
  BY <1>1, <1>2, <1>4
<1> QED BY <1>2, <1>3, <1>4

LEMMA AppendClash ==
  ASSUME NEW s \in Seq(Trade), NEW t \in Trade, NEW r \in Seq(Trade),
         NoClash(s, r), NoClash(<<t>>, r)
  PROVE  NoClash(Append(s, t), r)
<1> SUFFICES ASSUME NEW m \in 1..Len(Append(s, t)), NEW n \in 1..Len(r)
             PROVE  ~SameSlot(Append(s, t)[m].plan, r[n].plan)
  BY DEF NoClash
<1>1. \/ m \in 1..Len(s) /\ Append(s, t)[m] = s[m]
      \/ Append(s, t)[m] = t
  BY AppendElements
<1>2. 1 \in 1..Len(<<t>>) /\ <<t>>[1] = t
  OBVIOUS
<1>3. ~SameSlot(<<t>>[1].plan, r[n].plan)
  BY <1>2 DEF NoClash
<1>4. ~SameSlot(t.plan, r[n].plan)
  BY <1>2, <1>3
<1> QED BY <1>1, <1>4 DEF NoClash

(* No two trades of the portfolio file are on one symbol and side, however  *)
(* runs die between the ledger append and the portfolio write.              *)
THEOREM NoDuplicates == Spec => []NoDuplicateOpen
<1>1. Init => SlotInv
  BY TypeCorrectInit DEF Init, SlotInv, LoopsDone, NoTwins, NoClash
<1>2. SlotInv /\ [Next]_vars => SlotInv'
  <2> SUFFICES ASSUME SlotInv, [Next]_vars PROVE SlotInv'
    OBVIOUS
  <2>1. /\ TypeOK /\ TypeOK'
        /\ portfolio \in Seq(Trade) /\ todo \in Seq(Trade) /\ kept \in Seq(Trade)
    BY TypeCorrectStep DEF SlotInv, TypeOK
  <2>2. CASE LoopStep
    <3>1. todo # <<>> /\ todo' = Tail(todo) /\ todo' \in Seq(Trade)
      BY <2>1, <2>2 DEF LoopStep, TypeOK
    <3>2. NoTwins(todo') /\ NoClash(kept, todo')
      <4>1. NoTwins(todo')
        BY <2>1, <3>1, HeadAndTail, TailTwins DEF SlotInv
      <4>2. NoClash(kept, todo')
        BY <2>1, <3>1, TailElements DEF SlotInv, NoClash
      <4> QED BY <4>1, <4>2
    <3>3. NoTwins(kept') /\ NoClash(kept', todo')
      <4>1. CASE kept' = kept
        BY <3>2, <4>1 DEF SlotInv
      <4>2. ASSUME NEW t \in Trade, t.plan = Head(todo).plan, kept' = Append(kept, t)
            PROVE  NoTwins(kept') /\ NoClash(kept', todo')
        <5>1. NoClash(<<t>>, todo')
          BY <2>1, <3>1, <4>2, TailTwins DEF SlotInv
        <5>2. ~IsDuplicate(t.plan, kept)
          BY <2>1, <3>1, <4>2, TailElements DEF SlotInv, NoClash, IsDuplicate
        <5>3. NoTwins(kept')
          BY <2>1, <4>2, <5>2, AppendTwins DEF SlotInv
        <5>4. NoClash(kept', todo')
          BY <2>1, <3>1, <3>2, <4>2, <5>1, AppendClash
        <5> QED BY <5>3, <5>4
      <4> QED BY <2>2, <4>1, <4>2 DEF LoopStep
    <3>4. portfolio' = portfolio /\ LoopsDone'
      BY <2>2 DEF LoopStep, LoopsDone
    <3> QED BY <2>1, <3>2, <3>3, <3>4 DEF SlotInv
  <2>3. CASE AttemptStep
    <3>1. todo' = <<>> /\ portfolio' = portfolio
      BY <2>3 DEF AttemptStep, SlotInv, LoopsDone
    <3>2. NoTwins(kept')
      <4>1. \/ kept' = kept
            \/ \E t \in Trade : ~IsDuplicate(t.plan, kept) /\ kept' = Append(kept, t)
        BY <2>3 DEF AttemptStep
      <4> QED BY <2>1, <4>1, AppendTwins DEF SlotInv
    <3>3. NoTwins(todo') /\ NoClash(kept', todo') /\ LoopsDone'
      BY <3>1 DEF NoTwins, NoClash, LoopsDone
    <3> QED BY <2>1, <3>1, <3>2, <3>3 DEF SlotInv
  <2>4. CASE OtherStep
    <3>1. LoopsDone'
      BY <2>4 DEF OtherStep, Begin, NextLoop, EndMonitor, Truncate, Dump, Finish, Tick,
                  Die, process, disk, vars, LoopsDone, SlotInv
    <3>2. /\ portfolio' \in {portfolio, <<>>, kept}
          /\ \/ todo' \in {portfolio, kept, <<>>} /\ kept' = <<>>
             \/ todo' = todo /\ kept' = kept
      BY <2>4 DEF OtherStep, Begin, NextLoop, EndMonitor, Truncate, Dump, Finish, Tick,
                  Die, process, disk, vars
    <3>3. NoTwins(<<>>) /\ \A s \in Seq(Trade) : NoClash(<<>>, s)
      BY DEF NoTwins, NoClash
    <3>4. NoTwins(portfolio')
      BY <3>2, <3>3 DEF SlotInv
    <3>5. NoTwins(todo') /\ NoTwins(kept')
      BY <3>2, <3>3 DEF SlotInv
    <3>6. todo' \in Seq(Trade)
      BY <2>1 DEF TypeOK
    <3>7. NoClash(kept', todo')
      BY <3>2, <3>3, <3>6 DEF SlotInv
    <3> QED BY <2>1, <3>1, <3>4, <3>5, <3>7 DEF SlotInv
  <2> QED BY <2>1, <2>2, <2>3, <2>4, StepKinds
<1>3. SlotInv => NoDuplicateOpen
  BY DEF SlotInv, NoDuplicateOpen
<1> QED BY <1>1, <1>2, <1>3, PTL DEF Spec

-----------------------------------------------------------------------------
(* The ledger's story.  Any trade a run holds, in the file or in a list,    *)
(* has its opening line, since the line is appended as the trade is made    *)
(* and the ledger only grows; so every later line about it comes after.     *)

HasOpening(id) ==
  \E m \in 1..Len(ledger) : ledger[m].event = "PAPER_OPEN" /\ ledger[m].trade.id = id
Recorded(trades) == \A n \in 1..Len(trades) : HasOpening(trades[n].id)
LedgerInv ==
  /\ TypeOK
  /\ Recorded(portfolio) /\ Recorded(todo) /\ Recorded(kept)
  /\ OnlyFilledTradesClose

LEMMA OpeningsStay ==
  ASSUME TypeOK, ledger' = ledger \/ \E e \in Entry : ledger' = Append(ledger, e),
         NEW id, HasOpening(id)
  PROVE  HasOpening(id)'
<1>1. PICK m \in 1..Len(ledger) : ledger[m].event = "PAPER_OPEN" /\ ledger[m].trade.id = id
  BY DEF HasOpening
<1>2. ledger \in Seq(Entry)
  BY DEF TypeOK
<1>3. CASE ledger' = ledger
  BY <1>1, <1>3 DEF HasOpening
<1>4. ASSUME NEW e \in Entry, ledger' = Append(ledger, e) PROVE HasOpening(id)'
  <2>1. m \in 1..Len(ledger') /\ ledger'[m] = ledger[m]
    BY <1>2, <1>4, AppendProperties
  <2> QED BY <1>1, <2>1 DEF HasOpening
<1> QED BY <1>3, <1>4

(* A line keeps the story sound when it is sound itself and, if it settles  *)
(* a trade, that trade has its opening line.                                *)
LEMMA SoundAppend ==
  ASSUME TypeOK, OnlyFilledTradesClose, NEW e \in Entry, SoundLine(e),
         e.event \in Settled => HasOpening(e.trade.id), ledger' = Append(ledger, e)
  PROVE  OnlyFilledTradesClose'
<1>1. ledger \in Seq(Entry) /\ Len(ledger) \in Nat
  BY DEF TypeOK
<1>2. /\ Len(ledger') = Len(ledger) + 1 /\ ledger'[Len(ledger) + 1] = e
      /\ \A k \in 1..Len(ledger) : ledger'[k] = ledger[k]
  BY <1>1, AppendProperties
<1> SUFFICES ASSUME NEW n \in 1..Len(ledger')
             PROVE  SoundLine(ledger'[n]) /\ (ledger'[n].event \in Settled => OpenedBefore(n)')
  BY DEF OnlyFilledTradesClose
<1>3. CASE n \in 1..Len(ledger)
  <2>1. SoundLine(ledger[n]) /\ (ledger[n].event \in Settled => OpenedBefore(n))
    BY <1>3 DEF OnlyFilledTradesClose
  <2>2. ASSUME OpenedBefore(n) PROVE OpenedBefore(n)'
    <3>1. PICK m \in 1..(n - 1) :
            ledger[m].event = "PAPER_OPEN" /\ ledger[m].trade.id = ledger[n].trade.id
      BY <2>2 DEF OpenedBefore
    <3>2. m \in 1..Len(ledger)
      BY <1>1, <1>3
    <3> QED BY <1>2, <1>3, <3>1, <3>2 DEF OpenedBefore
  <2> QED BY <1>2, <1>3, <2>1, <2>2
<1>4. CASE n = Len(ledger) + 1
  <2>1. ASSUME e.event \in Settled PROVE OpenedBefore(n)'
    <3>1. PICK m \in 1..Len(ledger) :
            ledger[m].event = "PAPER_OPEN" /\ ledger[m].trade.id = e.trade.id
      BY <2>1 DEF HasOpening
    <3>2. m \in 1..(n - 1)
      BY <1>1, <1>4
    <3> QED BY <1>2, <1>4, <3>1, <3>2 DEF OpenedBefore
  <2> QED BY <1>2, <1>4, <2>1
<1> QED BY <1>1, <1>2, <1>3, <1>4

LEMMA LedgerInvStep == ASSUME LedgerInv, [Next]_vars PROVE LedgerInv'
<1>1. /\ TypeOK /\ TypeOK'
      /\ portfolio \in Seq(Trade) /\ todo \in Seq(Trade) /\ kept \in Seq(Trade)
      /\ ledger \in Seq(Entry)
  BY TypeCorrectStep DEF LedgerInv, TypeOK
<1>2. CASE LoopStep
  <2>1. todo # <<>> /\ todo' = Tail(todo) /\ portfolio' = portfolio
    BY <1>2 DEF LoopStep
  <2>2. HasOpening(Head(todo).id)
    BY <1>1, <2>1, TailElements DEF LedgerInv, Recorded
  <2>3. ledger' = ledger \/ \E e \in Entry : ledger' = Append(ledger, e)
    BY <1>2 DEF LoopStep
  <2>4. \A id : HasOpening(id) => HasOpening(id)'
    BY <1>1, <2>3, OpeningsStay
  <2>5. Recorded(portfolio)'
    BY <2>1, <2>4 DEF LedgerInv, Recorded
  <2>6. Recorded(todo)'
    BY <1>1, <2>1, <2>4, TailElements DEF LedgerInv, Recorded
  <2>7. Recorded(kept)'
    <3>1. CASE kept' = kept
      BY <2>4, <3>1 DEF LedgerInv, Recorded
    <3>2. ASSUME NEW t \in Trade, t.id = Head(todo).id, kept' = Append(kept, t)
          PROVE  Recorded(kept)'
      BY <1>1, <2>2, <2>4, <3>2, AppendElements DEF LedgerInv, Recorded
    <3> QED BY <1>2, <3>1, <3>2 DEF LoopStep
  <2>8. OnlyFilledTradesClose'
    <3>1. CASE ledger' = ledger
      BY <3>1 DEF LedgerInv, OnlyFilledTradesClose, OpenedBefore
    <3>2. ASSUME NEW e \in Entry, e.trade.id = Head(todo).id, SoundLine(e),
                 ledger' = Append(ledger, e)
          PROVE  OnlyFilledTradesClose'
      BY <1>1, <2>2, <3>2, SoundAppend DEF LedgerInv
    <3> QED BY <1>2, <3>1, <3>2 DEF LoopStep
  <2> QED BY <1>1, <2>5, <2>6, <2>7, <2>8 DEF LedgerInv
<1>3. CASE AttemptStep
  <2>1. todo' = todo /\ portfolio' = portfolio
    BY <1>3 DEF AttemptStep
  <2>2. CASE UNCHANGED <<kept, ledger>>
    BY <1>1, <2>1, <2>2 DEF LedgerInv, Recorded, HasOpening, OnlyFilledTradesClose, OpenedBefore
  <2>3. ASSUME NEW t \in Trade, NEW e \in Entry, e.trade.id = t.id,
               e.event = "PAPER_OPEN", SoundLine(e),
               kept' = Append(kept, t), ledger' = Append(ledger, e)
        PROVE  LedgerInv'
    <3>1. \A id : HasOpening(id) => HasOpening(id)'
      BY <1>1, <2>3, OpeningsStay
    <3>2. HasOpening(t.id)'
      <4>1. Len(ledger) + 1 \in 1..Len(ledger') /\ ledger'[Len(ledger) + 1] = e
        BY <1>1, <2>3, AppendProperties
      <4> QED BY <2>3, <4>1 DEF HasOpening
    <3>3. Recorded(portfolio)' /\ Recorded(todo)'
      BY <2>1, <3>1 DEF LedgerInv, Recorded
    <3>4. Recorded(kept)'
      BY <1>1, <2>3, <3>1, <3>2, AppendElements DEF LedgerInv, Recorded
    <3>5. OnlyFilledTradesClose'
      BY <1>1, <2>3, SoundAppend DEF LedgerInv, Settled
    <3> QED BY <1>1, <3>3, <3>4, <3>5 DEF LedgerInv
  <2> QED BY <1>3, <2>2, <2>3 DEF AttemptStep
<1>4. CASE OtherStep
  <2>1. /\ ledger' = ledger
        /\ portfolio' \in {portfolio, <<>>, kept}
        /\ todo' \in {portfolio, kept, todo, <<>>}
        /\ kept' \in {kept, <<>>}
    BY <1>4 DEF OtherStep, Begin, NextLoop, EndMonitor, Truncate, Dump, Finish, Tick,
                Die, process, disk, vars
  <2>2. \A id : HasOpening(id) => HasOpening(id)'
    BY <2>1 DEF HasOpening
  <2>3. \A s \in {portfolio, todo, kept, <<>>} : \A n \in 1..Len(s) : HasOpening(s[n].id)'
    BY <2>2 DEF LedgerInv, Recorded
  <2>4. Recorded(portfolio)' /\ Recorded(todo)' /\ Recorded(kept)'
    BY <2>1, <2>3 DEF Recorded
  <2>5. OnlyFilledTradesClose'
    BY <2>1 DEF LedgerInv, OnlyFilledTradesClose, OpenedBefore
  <2> QED BY <1>1, <2>4, <2>5 DEF LedgerInv
<1> QED BY <1>1, <1>2, <1>3, <1>4, StepKinds

LEMMA LedgerInvHolds == Spec => []LedgerInv
<1>1. Init => LedgerInv
  BY TypeCorrectInit DEF Init, LedgerInv, Recorded, OnlyFilledTradesClose
<1>2. LedgerInv /\ [Next]_vars => LedgerInv'
  BY LedgerInvStep
<1> QED BY <1>1, <1>2, PTL DEF Spec

(* Every position of the portfolio file has its opening line in the ledger, *)
(* for any number of runs that die at any point.                            *)
THEOREM OpeningsRecorded == Spec => []OpenInLedger
<1>1. LedgerInv => OpenInLedger
  BY DEF LedgerInv, Recorded, HasOpening, OpenInLedger, LedgerLines
<1> QED BY <1>1, LedgerInvHolds, PTL

(* A ledger line that settles a trade comes after the line that opened it;  *)
(* a close is of a filled trade, beyond the level it names; an expiry is of *)
(* a trade never filled.                                                    *)
THEOREM ClosesAreSound == Spec => []OnlyFilledTradesClose
<1>1. LedgerInv => OnlyFilledTradesClose
  BY DEF LedgerInv
<1> QED BY <1>1, LedgerInvHolds, PTL

(* The ledger tells of every trade in order: no position without its        *)
(* opening line, no end before it, and no close of what was never filled.   *)
THEOREM LedgerTellsInOrder == Spec => []LedgerSound
  BY OpeningsRecorded, ClosesAreSound, PTL DEF LedgerSound

-----------------------------------------------------------------------------
(* Identities.  A new trade takes the next number, so no two trades of a    *)
(* list share one, nor do a kept one and one still to visit, whatever dies. *)

Ids(trades) == {trades[n].id : n \in 1..Len(trades)}
DistinctIds(trades) ==
  \A m, n \in 1..Len(trades) : trades[m].id = trades[n].id => m = n
Opened == {ledger[n].trade.id : n \in {m \in 1..Len(ledger) : ledger[m].event = "PAPER_OPEN"}}
Ended == {ledger[n].trade.id : n \in {m \in 1..Len(ledger) : ledger[m].event \in Settled}}
Given == 1..(nextId - 1)

IdInv ==
  /\ TypeOK /\ LoopsDone /\ nextId \in 1..(MaxTrades + 1)
  /\ DistinctIds(portfolio) /\ DistinctIds(todo) /\ DistinctIds(kept)
  /\ Ids(portfolio) \subseteq Given /\ Ids(todo) \subseteq Given /\ Ids(kept) \subseteq Given
  /\ Ids(kept) \cap Ids(todo) = {}
  /\ Opened \subseteq Given /\ Ended \subseteq Given

(* Filled trades of the file keep their fill while the run carries them.    *)
FillsKept(trades) ==
  \A m \in 1..Len(portfolio), n \in 1..Len(trades) :
     (portfolio[m].fill # NoFill /\ portfolio[m].id = trades[n].id)
       => trades[n].fill = portfolio[m].fill
FillInv == pc \in Phases \ {"idle", "dump", "report"} => FillsKept(todo) /\ FillsKept(kept)

(* Once the second loop has seen them, the trades of a run are promoted.    *)
Promoted(trades) ==
  \A n \in 1..Len(trades) : Allowed(trades[n].plan.family, inbox.promoted)
PromotedInv ==
  /\ pc \in Phases \ {"idle", "expire"} => Promoted(kept)
  /\ pc = "monitor" => Promoted(todo)

(* While no run has died: what the run carries, or the file between runs,   *)
(* is what was opened and not ended, and nothing ended twice.               *)
Held == IF pc = "idle" THEN Ids(portfolio) ELSE Ids(todo) \cup Ids(kept)
EndedOnce ==
  \A m, n \in 1..Len(ledger) :
     /\ ledger[m].event \in Settled /\ ledger[n].event \in Settled
     /\ ledger[m].trade.id = ledger[n].trade.id
     => m = n
StoryInv ==
  kills = 0 =>
    /\ EndedOnce /\ Held = Opened \ Ended
    /\ pc = "report" => portfolio = kept
    /\ pc = "idle" => report = Len(portfolio)

(* Stored notionals are whole cents, and together within the cap.           *)
WholeCents(trades) == \A n \in 1..Len(trades) : trades[n].notional % 10 = 0
NotionalInv ==
  /\ TypeOK /\ LoopsDone
  /\ WholeCents(portfolio) /\ WholeCents(todo) /\ WholeCents(kept)
  /\ TotalNotional(portfolio) <= MaxNotional
  /\ TotalNotional(kept) + TotalNotional(todo) <= MaxNotional

LEMMA TailIds ==
  ASSUME NEW s \in Seq(Trade), s # <<>>, DistinctIds(s)
  PROVE  /\ Ids(s) = {Head(s).id} \cup Ids(Tail(s))
         /\ Head(s).id \notin Ids(Tail(s)) /\ DistinctIds(Tail(s))
<1>1. /\ Len(Tail(s)) = Len(s) - 1 /\ Len(s) \in Nat
      /\ \A n \in 1..Len(Tail(s)) : n + 1 \in 1..Len(s) /\ Tail(s)[n] = s[n + 1]
      /\ 1 \in 1..Len(s) /\ Head(s) = s[1]
  BY TailElements
<1>2. Ids(s) \subseteq {Head(s).id} \cup Ids(Tail(s))
  <2> SUFFICES ASSUME NEW n \in 1..Len(s), n # 1 PROVE s[n].id \in Ids(Tail(s))
    BY <1>1 DEF Ids
  <2>1. n - 1 \in 1..Len(Tail(s)) /\ Tail(s)[n - 1] = s[n]
    BY <1>1
  <2> QED BY <2>1 DEF Ids
<1>3. Ids(Tail(s)) \subseteq Ids(s) /\ Head(s).id \in Ids(s)
  BY <1>1 DEF Ids
<1>4. Head(s).id \notin Ids(Tail(s))
  <2> SUFFICES ASSUME NEW n \in 1..Len(Tail(s)), Tail(s)[n].id = Head(s).id PROVE FALSE
    BY DEF Ids
  <2>1. n + 1 \in 1..Len(s) /\ s[n + 1].id = s[1].id /\ n + 1 # 1
    BY <1>1
  <2> QED BY <1>1, <2>1 DEF DistinctIds
<1>5. DistinctIds(Tail(s))
  <2> SUFFICES ASSUME NEW m \in 1..Len(Tail(s)), NEW n \in 1..Len(Tail(s)),
                      Tail(s)[m].id = Tail(s)[n].id
               PROVE  m = n
    BY DEF DistinctIds
  <2>1. m + 1 \in 1..Len(s) /\ n + 1 \in 1..Len(s) /\ s[m + 1].id = s[n + 1].id
    BY <1>1
  <2>2. m + 1 = n + 1
    BY <2>1 DEF DistinctIds
  <2> QED BY <2>2
<1> QED BY <1>2, <1>3, <1>4, <1>5

LEMMA AppendIds ==
  ASSUME NEW s \in Seq(Trade), NEW t \in Trade
  PROVE  /\ Ids(Append(s, t)) = Ids(s) \cup {t.id}
         /\ DistinctIds(s) /\ t.id \notin Ids(s) => DistinctIds(Append(s, t))
<1>1. /\ Len(Append(s, t)) = Len(s) + 1 /\ Len(s) \in Nat
      /\ Append(s, t)[Len(s) + 1] = t
      /\ \A n \in 1..Len(s) : Append(s, t)[n] = s[n]
  BY AppendProperties
<1>2. Ids(Append(s, t)) = Ids(s) \cup {t.id}
  <2>1. Ids(Append(s, t)) \subseteq Ids(s) \cup {t.id}
    BY AppendElements DEF Ids
  <2>2. Ids(s) \subseteq Ids(Append(s, t))
    BY <1>1 DEF Ids
  <2>3. Len(s) + 1 \in 1..Len(Append(s, t))
    BY <1>1
  <2>4. t.id \in Ids(Append(s, t))
    BY <1>1, <2>3 DEF Ids
  <2> QED BY <2>1, <2>2, <2>4
<1>3. ASSUME DistinctIds(s), t.id \notin Ids(s),
             NEW m \in 1..Len(Append(s, t)), NEW n \in 1..Len(Append(s, t)),
             Append(s, t)[m].id = Append(s, t)[n].id
      PROVE  m = n
  <2>1. \A k \in 1..Len(s) : s[k].id # t.id
    BY <1>3 DEF Ids
  <2>2. CASE m \in 1..Len(s) /\ n \in 1..Len(s)
    BY <1>1, <1>3, <2>2 DEF DistinctIds
  <2>3. CASE m \notin 1..Len(s) \/ n \notin 1..Len(s)
    BY <1>1, <1>3, <2>1, <2>3, AppendElements
  <2> QED BY <2>2, <2>3
<1> QED BY <1>2, <1>3 DEF DistinctIds

(* A line appended to the ledger adds its trade to those opened or ended.   *)
LEMMA LedgerGrows ==
  ASSUME TypeOK, NEW e \in Entry, ledger' = Append(ledger, e)
  PROVE  /\ Opened' = IF e.event = "PAPER_OPEN" THEN Opened \cup {e.trade.id} ELSE Opened
         /\ Ended' = IF e.event \in Settled THEN Ended \cup {e.trade.id} ELSE Ended
         /\ EndedOnce /\ (e.event \in Settled => e.trade.id \notin Ended) => EndedOnce'
<1>1. ledger \in Seq(Entry) /\ Len(ledger) \in Nat
  BY DEF TypeOK
<1>2. /\ Len(ledger') = Len(ledger) + 1 /\ ledger'[Len(ledger) + 1] = e
      /\ \A k \in 1..Len(ledger) : ledger'[k] = ledger[k]
  BY <1>1, AppendProperties
<1>3. 1..Len(ledger') = 1..Len(ledger) \cup {Len(ledger) + 1}
  BY <1>1, <1>2
<1>4. Opened' = IF e.event = "PAPER_OPEN" THEN Opened \cup {e.trade.id} ELSE Opened
  BY <1>2, <1>3 DEF Opened
<1>5. Ended' = IF e.event \in Settled THEN Ended \cup {e.trade.id} ELSE Ended
  BY <1>2, <1>3 DEF Ended, Settled
<1>6. ASSUME EndedOnce, e.event \in Settled => e.trade.id \notin Ended,
             NEW m \in 1..Len(ledger'), NEW n \in 1..Len(ledger'),
             ledger'[m].event \in Settled, ledger'[n].event \in Settled,
             ledger'[m].trade.id = ledger'[n].trade.id
      PROVE  m = n
  <2>1. \A k \in 1..Len(ledger) : ledger[k].event \in Settled => ledger[k].trade.id \in Ended
    BY DEF Ended
  <2>2. CASE m \in 1..Len(ledger) /\ n \in 1..Len(ledger)
    BY <1>2, <1>6, <2>2 DEF EndedOnce
  <2>3. CASE m \notin 1..Len(ledger) \/ n \notin 1..Len(ledger)
    BY <1>2, <1>3, <1>6, <2>1, <2>3
  <2> QED BY <2>2, <2>3
<1>7. EndedOnce /\ (e.event \in Settled => e.trade.id \notin Ended) => EndedOnce'
  BY <1>6 DEF EndedOnce
<1> QED BY <1>4, <1>5, <1>7

(* The lists of the other steps are lists there were before.                *)
LEMMA OtherLists ==
  ASSUME OtherStep, LoopsDone
  PROVE  /\ LoopsDone' /\ ledger' = ledger /\ nextId' = nextId
         /\ portfolio' \in {portfolio, kept, <<>>}
         /\ \/ todo' \in {portfolio, kept, <<>>} /\ kept' = <<>>
            \/ todo' = todo /\ kept' = kept
<1>1. LoopsDone'
  BY DEF OtherStep, Begin, NextLoop, EndMonitor, Truncate, Dump, Finish, Tick, Die,
         process, disk, vars, LoopsDone
<1>2. /\ ledger' = ledger /\ nextId' = nextId
      /\ portfolio' \in {portfolio, kept, <<>>}
      /\ \/ todo' \in {portfolio, kept, <<>>} /\ kept' = <<>>
         \/ todo' = todo /\ kept' = kept
  BY DEF OtherStep, Begin, NextLoop, EndMonitor, Truncate, Dump, Finish, Tick, Die,
         process, disk, vars
<1> QED BY <1>1, <1>2

LEMMA NoIds == Ids(<<>>) = {} /\ DistinctIds(<<>>)
  BY DEF Ids, DistinctIds

LEMMA IdInvInit == Init => IdInv
<1> SUFFICES ASSUME Init PROVE IdInv
  OBVIOUS
<1>1. Opened = {} /\ Ended = {}
  BY DEF Init, Opened, Ended
<1>2. nextId \in 1..(MaxTrades + 1)
  BY PaperLedgerAssumption DEF Init
<1> QED BY <1>1, <1>2, NoIds, TypeCorrectInit DEF Init, IdInv, LoopsDone

LEMMA IdInvStep == ASSUME IdInv, [Next]_vars PROVE IdInv'
<1>1. /\ TypeOK /\ TypeOK'
      /\ portfolio \in Seq(Trade) /\ todo \in Seq(Trade) /\ kept \in Seq(Trade)
  BY TypeCorrectStep DEF IdInv, TypeOK
<1>2. CASE LoopStep
  <2>1. /\ todo # <<>> /\ todo' = Tail(todo)
        /\ UNCHANGED <<portfolio, nextId, pc>>
    BY <1>2 DEF LoopStep
  <2> DEFINE id == Head(todo).id
  <2>2. /\ Ids(todo) = {id} \cup Ids(todo') /\ id \notin Ids(todo') /\ DistinctIds(todo')
    BY <1>1, <2>1, TailIds DEF IdInv
  <2>3. id \in Given /\ id \notin Ids(kept)
    BY <2>2 DEF IdInv
  <2>4. \/ kept' = kept
        \/ Ids(kept') = Ids(kept) \cup {id} /\ DistinctIds(kept')
    <3>1. \/ kept' = kept
          \/ \E t \in Trade : t.id = id /\ kept' = Append(kept, t)
      BY <1>2 DEF LoopStep
    <3> HIDE DEF id
    <3> QED BY <1>1, <2>3, <3>1, AppendIds DEF IdInv
  <2>5. \/ Opened' = Opened /\ Ended' = Ended
        \/ Opened' = Opened /\ Ended' = Ended \cup {id}
    <3>1. \/ ledger' = ledger
          \/ \E e \in Entry : e.trade.id = id /\ e.event \in Settled /\ ledger' = Append(ledger, e)
      BY <1>2 DEF LoopStep
    <3>2. CASE ledger' = ledger
      BY <3>2 DEF Opened, Ended
    <3>3. ASSUME NEW e \in Entry, e.trade.id = id, e.event \in Settled,
                 ledger' = Append(ledger, e)
          PROVE  Opened' = Opened /\ Ended' = Ended \cup {id}
      <4>1. e.event # "PAPER_OPEN"
        BY <3>3 DEF Settled
      <4> QED BY <1>1, <3>3, <4>1, LedgerGrows
    <3> QED BY <3>1, <3>2, <3>3
  <2> HIDE DEF id
  <2>6. Given' = Given /\ LoopsDone'
    BY <1>2, <2>1 DEF Given, LoopStep, LoopsDone
  <2>7. /\ DistinctIds(kept') /\ Ids(kept') \subseteq Given
        /\ Ids(kept') \cap Ids(todo') = {}
    BY <2>2, <2>3, <2>4 DEF IdInv
  <2>8. Opened' \subseteq Given /\ Ended' \subseteq Given
    BY <2>3, <2>5 DEF IdInv
  <2> QED BY <1>1, <2>1, <2>2, <2>6, <2>7, <2>8 DEF IdInv
<1>3. CASE AttemptStep
  <2>1. /\ todo = <<>> /\ todo' = <<>> /\ portfolio' = portfolio
    BY <1>3 DEF AttemptStep, IdInv, LoopsDone
  <2>2. LoopsDone'
    BY <2>1 DEF LoopsDone
  <2>3. CASE UNCHANGED <<kept, ledger, nextId>>
    BY <1>1, <2>1, <2>2, <2>3 DEF IdInv, Given, Opened, Ended
  <2>4. ASSUME NEW t \in Trade, NEW e \in Entry, t.id = nextId, e.trade.id = nextId,
               e.event = "PAPER_OPEN", nextId <= MaxTrades, nextId' = nextId + 1,
               kept' = Append(kept, t), ledger' = Append(ledger, e)
        PROVE  IdInv'
    <3>1. /\ Given' = Given \cup {nextId} /\ nextId \notin Given
          /\ nextId' \in 1..(MaxTrades + 1)
      BY <2>4, PaperLedgerAssumption DEF IdInv, Given
    <3>2. Ids(kept') = Ids(kept) \cup {nextId} /\ DistinctIds(kept')
      BY <1>1, <2>4, <3>1, AppendIds DEF IdInv
    <3>3. Opened' = Opened \cup {nextId} /\ Ended' = Ended
      <4>1. "PAPER_OPEN" \notin Settled
        BY DEF Settled
      <4> QED BY <1>1, <2>4, <4>1, LedgerGrows
    <3>4. /\ Ids(kept') \subseteq Given' /\ Ids(portfolio') \subseteq Given'
          /\ Opened' \subseteq Given' /\ Ended' \subseteq Given'
      BY <2>1, <3>1, <3>2, <3>3 DEF IdInv
    <3> QED BY <1>1, <2>1, <2>2, <3>1, <3>2, <3>4, NoIds DEF IdInv
  <2> QED BY <1>3, <2>3, <2>4 DEF AttemptStep
<1>4. CASE OtherStep
  <2>1. /\ LoopsDone' /\ ledger' = ledger /\ nextId' = nextId
        /\ portfolio' \in {portfolio, kept, <<>>}
        /\ \/ todo' \in {portfolio, kept, <<>>} /\ kept' = <<>>
           \/ todo' = todo /\ kept' = kept
    BY <1>4, OtherLists DEF IdInv
  <2>2. Given' = Given /\ Opened' = Opened /\ Ended' = Ended
    BY <2>1 DEF Given, Opened, Ended
  <2>3. DistinctIds(portfolio') /\ Ids(portfolio') \subseteq Given
    BY <2>1, NoIds DEF IdInv
  <2>4. /\ DistinctIds(todo') /\ DistinctIds(kept')
        /\ Ids(todo') \subseteq Given /\ Ids(kept') \subseteq Given
        /\ Ids(kept') \cap Ids(todo') = {}
    BY <2>1, NoIds DEF IdInv
  <2> QED BY <1>1, <2>1, <2>2, <2>3, <2>4 DEF IdInv
<1> QED BY <1>1, <1>2, <1>3, <1>4, StepKinds

LEMMA IdInvHolds == Spec => []IdInv
<1>1. IdInv /\ [Next]_vars => IdInv'
  BY IdInvStep
<1> QED BY <1>1, IdInvInit, PTL DEF Spec

-----------------------------------------------------------------------------
(* Fills and promotion.                                                     *)

LEMMA FillInvStep == ASSUME IdInv, FillInv, [Next]_vars PROVE FillInv'
<1>1. /\ TypeOK /\ portfolio \in Seq(Trade) /\ todo \in Seq(Trade) /\ kept \in Seq(Trade)
  BY DEF IdInv, TypeOK
<1>2. CASE LoopStep
  <2>1. /\ todo # <<>> /\ todo' = Tail(todo) /\ portfolio' = portfolio
        /\ FillsKept(todo) /\ FillsKept(kept)
    BY <1>2 DEF LoopStep, FillInv, Phases
  <2>2. FillsKept(todo)'
    BY <1>1, <2>1, TailElements DEF FillsKept
  <2>3. CASE kept' = kept
    BY <2>1, <2>2, <2>3 DEF FillInv, FillsKept
  <2>4. ASSUME NEW t \in Trade, t.id = Head(todo).id, kept' = Append(kept, t),
               t.fill = Head(todo).fill \/ Head(todo).fill = NoFill
        PROVE  FillInv'
    <3>1. \A m \in 1..Len(portfolio) :
            portfolio[m].fill # NoFill /\ portfolio[m].id = t.id => t.fill = portfolio[m].fill
      <4>1. 1 \in 1..Len(todo) /\ Head(todo) = todo[1]
        BY <1>1, <2>1, TailElements
      <4> QED BY <2>1, <2>4, <4>1 DEF FillsKept
    <3>2. FillsKept(kept)'
      BY <1>1, <2>1, <2>4, <3>1, AppendElements DEF FillsKept
    <3> QED BY <2>2, <3>2 DEF FillInv
  <2> QED BY <1>2, <2>3, <2>4 DEF LoopStep
<1>3. CASE AttemptStep
  <2>1. /\ todo' = todo /\ portfolio' = portfolio
        /\ FillsKept(todo) /\ FillsKept(kept)
    BY <1>3 DEF AttemptStep, FillInv, Phases
  <2>2. CASE kept' = kept
    BY <2>1, <2>2 DEF FillInv, FillsKept
  <2>3. ASSUME NEW t \in Trade, t.id = nextId, kept' = Append(kept, t) PROVE FillInv'
    <3>1. \A m \in 1..Len(portfolio) : portfolio[m].id # nextId
      <4>1. nextId \notin Ids(portfolio)
        BY <1>1 DEF IdInv, Given
      <4> QED BY <4>1 DEF Ids
    <3>2. FillsKept(kept)'
      BY <1>1, <2>1, <2>3, <3>1, AppendElements DEF FillsKept
    <3> QED BY <2>1, <3>2 DEF FillInv, FillsKept
  <2> QED BY <1>3, <2>2, <2>3 DEF AttemptStep
<1>4. CASE OtherStep
  <2>1. FillsKept(portfolio) /\ FillsKept(<<>>)
    BY <1>1 DEF FillsKept, IdInv, DistinctIds
  <2>2. CASE Begin
    BY <2>1, <2>2 DEF Begin, FillInv, FillsKept, disk
  <2>3. CASE NextLoop("expire", "legacy") \/ NextLoop("legacy", "monitor") \/ EndMonitor
    BY <2>1, <2>3 DEF NextLoop, EndMonitor, FillInv, FillsKept, disk, Phases
  <2>4. CASE Truncate \/ Dump \/ Finish \/ Die
    BY <2>4 DEF Truncate, Dump, Finish, Die, FillInv
  <2>5. CASE Tick \/ UNCHANGED vars
    BY <2>5 DEF Tick, vars, disk, process, FillInv, FillsKept
  <2> QED BY <1>4, <2>2, <2>3, <2>4, <2>5 DEF OtherStep
<1> QED BY <1>1, <1>2, <1>3, <1>4, StepKinds

(* A fill that the file holds is the fill the next file holds.              *)
THEOREM FillsAreFinal == Spec => FillsFinal
<1>1. Init => FillInv
  BY DEF Init, FillInv
<1>2. IdInv /\ FillInv /\ [Next]_vars => FillInv'
  BY FillInvStep
<1>3. IdInv /\ FillInv /\ [Next]_vars =>
        [(pc = "truncate") =>
           \A f \in Fills(portfolio) : f[2] # NoFill =>
             \A g \in Fills(kept) : g[1] = f[1] => g = f]_vars
  <2>1. ASSUME FillInv, pc = "truncate", NEW f \in Fills(portfolio), f[2] # NoFill,
               NEW g \in Fills(kept), g[1] = f[1]
        PROVE  g = f
    <3>1. FillsKept(kept)
      BY <2>1 DEF FillInv, Phases
    <3>2. PICK m \in 1..Len(portfolio) : f = <<portfolio[m].id, portfolio[m].fill>>
      BY DEF Fills
    <3>3. PICK n \in 1..Len(kept) : g = <<kept[n].id, kept[n].fill>>
      BY DEF Fills
    <3> QED BY <2>1, <3>1, <3>2, <3>3 DEF FillsKept
  <2> QED BY <2>1
<1> QED BY <1>1, <1>2, <1>3, IdInvHolds, PTL DEF Spec, FillsFinal

LEMMA PromotedInvStep == ASSUME TypeOK, PromotedInv, [Next]_vars PROVE PromotedInv'
<1>1. todo \in Seq(Trade) /\ kept \in Seq(Trade)
  BY DEF TypeOK
<1>2. CASE LoopStep
  <2>1. /\ todo # <<>> /\ todo' = Tail(todo) /\ pc' = pc /\ inbox' = inbox
        /\ pc \in {"expire", "legacy", "monitor"}
    BY <1>2 DEF LoopStep
  <2>2. pc = "monitor" => Promoted(todo) /\ Promoted(todo)'
    BY <1>1, <2>1, TailElements DEF PromotedInv, Promoted
  <2>3. CASE kept' = kept
    BY <2>1, <2>2, <2>3 DEF PromotedInv, Promoted
  <2>4. ASSUME NEW t \in Trade, t.plan = Head(todo).plan, kept' = Append(kept, t),
               pc = "legacy" => Allowed(t.plan.family, inbox.promoted)
        PROVE  PromotedInv'
    <3>1. pc \in {"legacy", "monitor"} => Allowed(t.plan.family, inbox.promoted)
      <4>1. 1 \in 1..Len(todo) /\ Head(todo) = todo[1]
        BY <1>1, <2>1, TailElements
      <4> QED BY <2>2, <2>4, <4>1 DEF Promoted
    <3>2. pc \in {"legacy", "monitor"} => Promoted(kept)'
      BY <1>1, <2>1, <2>4, <3>1, AppendElements DEF PromotedInv, Promoted, Phases
    <3> QED BY <2>1, <2>2, <3>2 DEF PromotedInv
  <2> QED BY <1>2, <2>3, <2>4 DEF LoopStep
<1>3. CASE AttemptStep
  <2>1. pc' \in {"rotation", "truncate"} /\ inbox' = inbox /\ Promoted(kept)
    BY <1>3 DEF AttemptStep, PromotedInv, Phases
  <2>2. CASE kept' = kept
    BY <2>1, <2>2 DEF PromotedInv, Promoted
  <2>3. ASSUME NEW t \in Trade, Allowed(t.plan.family, inbox.promoted), kept' = Append(kept, t)
        PROVE  PromotedInv'
    <3>1. Promoted(kept)'
      BY <1>1, <2>1, <2>3, AppendElements DEF Promoted
    <3> QED BY <2>1, <3>1 DEF PromotedInv
  <2> QED BY <1>3, <2>2, <2>3 DEF AttemptStep
<1>4. CASE OtherStep
  <2>1. CASE Begin \/ Finish \/ Die
    BY <2>1 DEF Begin, Finish, Die, PromotedInv
  <2>2. CASE NextLoop("expire", "legacy") \/ NextLoop("legacy", "monitor")
    BY <2>2 DEF NextLoop, PromotedInv, Promoted, Phases
  <2>3. CASE EndMonitor \/ Truncate \/ Dump
    BY <2>3 DEF EndMonitor, Truncate, Dump, PromotedInv, Promoted, Phases
  <2>4. CASE Tick \/ UNCHANGED vars
    BY <2>4 DEF Tick, vars, process, PromotedInv, Promoted
  <2> QED BY <1>4, <2>1, <2>2, <2>3, <2>4 DEF OtherStep
<1> QED BY <1>2, <1>3, <1>4, StepKinds

(* What a run writes is promoted under the tiers it read itself.            *)
THEOREM PromotedIsWritten == Spec => OnlyPromotedWritten
<1>1. Init => PromotedInv
  BY DEF Init, PromotedInv
<1>2. TypeOK /\ PromotedInv /\ [Next]_vars => PromotedInv'
  BY PromotedInvStep
<1>3. TypeOK /\ PromotedInv /\ [Next]_vars =>
        [(portfolio' # portfolio) =>
           \A n \in 1..Len(portfolio') :
              Allowed(portfolio'[n].plan.family, inbox.promoted)]_vars
  <2> SUFFICES ASSUME TypeOK, PromotedInv, [Next]_vars, portfolio' # portfolio,
                      NEW n \in 1..Len(portfolio')
               PROVE  Allowed(portfolio'[n].plan.family, inbox.promoted)
    OBVIOUS
  <2>1. Truncate \/ Dump
    <3>1. ~LoopStep /\ ~AttemptStep
      BY DEF LoopStep, AttemptStep
    <3>2. OtherStep
      BY <3>1, StepKinds
    <3> QED BY <3>2 DEF OtherStep, Begin, NextLoop, EndMonitor, Finish, Tick, Die, disk, vars
  <2>2. CASE Truncate
    BY <2>2 DEF Truncate
  <2>3. CASE Dump
    BY <2>3 DEF Dump, PromotedInv, Promoted, Phases
  <2> QED BY <2>1, <2>2, <2>3
<1> QED BY <1>1, <1>2, <1>3, TypeCorrect, PTL DEF Spec, OnlyPromotedWritten

-----------------------------------------------------------------------------
(* Ledger and portfolio tell the same story.  Kept apart from the fates of  *)
(* runs by kills = 0: a run that dies leaves lines the file knows nothing   *)
(* of, and the next one may end the same trade again.                       *)

LEMMA HeldIsOpened == ASSUME LedgerInv PROVE Held \subseteq Opened
<1>1. \A id : HasOpening(id) => id \in Opened
  BY DEF HasOpening, Opened
<1> QED BY <1>1 DEF LedgerInv, Recorded, Held, Ids

LEMMA StoryInvStep ==
  ASSUME IdInv, LedgerInv, StoryInv, [Next]_vars PROVE StoryInv'
<1>1. /\ TypeOK /\ TypeOK'
      /\ portfolio \in Seq(Trade) /\ todo \in Seq(Trade) /\ kept \in Seq(Trade)
      /\ kills \in Nat
  BY TypeCorrectStep DEF IdInv, TypeOK
<1>2. CASE LoopStep
  <2> SUFFICES ASSUME kills' = 0 PROVE StoryInv'
    BY DEF StoryInv
  <2>1. /\ todo # <<>> /\ todo' = Tail(todo)
        /\ pc' = pc /\ pc \in {"expire", "legacy", "monitor"} /\ kills = 0
    BY <1>2 DEF LoopStep
  <2>2. EndedOnce /\ Held = Opened \ Ended
    BY <2>1 DEF StoryInv
  <2> DEFINE id == Head(todo).id
  <2>3. /\ Ids(todo) = {id} \cup Ids(todo') /\ id \notin Ids(todo')
    BY <1>1, <2>1, TailIds DEF IdInv
  <2>4. Held = Ids(todo) \cup Ids(kept) /\ Held' = Ids(todo') \cup Ids(kept')
    BY <2>1 DEF Held
  <2>5. id \in Held /\ id \notin Ids(kept) /\ id \in Opened /\ id \notin Ended
    BY <2>2, <2>3, <2>4 DEF IdInv
  <2>6. ASSUME NEW e \in Entry, e.trade.id = id, e.event \in Settled,
               ledger' = Append(ledger, e), kept' = kept
        PROVE  StoryInv'
    <3>1. e.event # "PAPER_OPEN"
      BY <2>6 DEF Settled
    <3>2. Opened' = Opened /\ Ended' = Ended \cup {id} /\ EndedOnce'
      BY <1>1, <2>2, <2>5, <2>6, <3>1, LedgerGrows
    <3> HIDE DEF id
    <3>3. Held' = Opened' \ Ended'
      BY <2>2, <2>3, <2>4, <2>5, <2>6, <3>2
    <3> QED BY <2>1, <3>2, <3>3 DEF StoryInv
  <2>7. ASSUME NEW t \in Trade, t.id = id, kept' = Append(kept, t), ledger' = ledger
        PROVE  StoryInv'
    <3>1. Ids(kept') = Ids(kept) \cup {id}
      BY <1>1, <2>7, AppendIds
    <3>2. Opened' = Opened /\ Ended' = Ended /\ EndedOnce'
      BY <2>2, <2>7 DEF Opened, Ended, EndedOnce
    <3> HIDE DEF id
    <3>3. Held' = Opened' \ Ended'
      BY <2>2, <2>3, <2>4, <3>1, <3>2
    <3> QED BY <2>1, <3>2, <3>3 DEF StoryInv
  <2> QED BY <1>2, <2>6, <2>7 DEF LoopStep
<1>3. CASE AttemptStep
  <2> SUFFICES ASSUME kills' = 0 PROVE StoryInv'
    BY DEF StoryInv
  <2>1. /\ todo' = todo /\ pc \in {"shadow", "rotation"} /\ pc' \in {"rotation", "truncate"}
        /\ kills = 0
    BY <1>3 DEF AttemptStep
  <2>2. EndedOnce /\ Held = Opened \ Ended
    BY <2>1 DEF StoryInv
  <2>3. Held = Ids(todo) \cup Ids(kept) /\ Held' = Ids(todo) \cup Ids(kept')
    BY <2>1 DEF Held
  <2>4. CASE UNCHANGED <<kept, ledger>>
    <3>1. Opened' = Opened /\ Ended' = Ended /\ EndedOnce'
      BY <2>2, <2>4 DEF Opened, Ended, EndedOnce
    <3> QED BY <2>1, <2>2, <2>3, <2>4, <3>1 DEF StoryInv
  <2>5. ASSUME NEW t \in Trade, NEW e \in Entry, t.id = nextId, e.trade.id = nextId,
               e.event = "PAPER_OPEN", kept' = Append(kept, t), ledger' = Append(ledger, e)
        PROVE  StoryInv'
    <3>1. nextId \notin Ended
      BY <1>1 DEF IdInv, Given
    <3>2. Ids(kept') = Ids(kept) \cup {nextId}
      BY <1>1, <2>5, AppendIds
    <3>3. Opened' = Opened \cup {nextId} /\ Ended' = Ended /\ EndedOnce'
      <4>1. "PAPER_OPEN" \notin Settled
        BY DEF Settled
      <4> QED BY <1>1, <2>2, <2>5, <4>1, LedgerGrows
    <3>4. Held' = Opened' \ Ended'
      BY <2>2, <2>3, <3>1, <3>2, <3>3
    <3> QED BY <2>1, <3>3, <3>4 DEF StoryInv
  <2> QED BY <1>3, <2>4, <2>5 DEF AttemptStep
<1>4. CASE OtherStep
  <2> SUFFICES ASSUME kills' = 0 PROVE StoryInv'
    BY DEF StoryInv
  <2>1. ~Die
    BY <1>1 DEF Die
  <2>2. kills = 0
    BY <1>4, <2>1 DEF OtherStep, Begin, NextLoop, EndMonitor, Truncate, Dump, Finish, Tick, vars
  <2>3. /\ EndedOnce /\ Held = Opened \ Ended
        /\ pc = "report" => portfolio = kept
        /\ pc = "idle" => report = Len(portfolio)
    BY <2>2 DEF StoryInv
  <2>4. Opened' = Opened /\ Ended' = Ended /\ EndedOnce'
    <3>1. ledger' = ledger
      BY <1>4, OtherLists DEF IdInv
    <3> QED BY <2>3, <3>1 DEF Opened, Ended, EndedOnce
  <2>5. CASE Begin
    <3>1. Held' = Held
      BY <2>5, NoIds DEF Begin, Held
    <3> QED BY <2>3, <2>4, <2>5, <3>1 DEF Begin, StoryInv
  <2>6. CASE NextLoop("expire", "legacy") \/ NextLoop("legacy", "monitor")
    <3>1. Held' = Held
      BY <2>6, NoIds DEF NextLoop, Held
    <3> QED BY <2>3, <2>4, <2>6, <3>1 DEF NextLoop, StoryInv
  <2>7. CASE EndMonitor \/ Truncate
    <3>1. Held' = Held
      BY <2>7 DEF EndMonitor, Truncate, Held
    <3> QED BY <2>3, <2>4, <2>7, <3>1 DEF EndMonitor, Truncate, StoryInv
  <2>8. CASE Dump
    <3>1. Held' = Held /\ portfolio' = kept'
      BY <2>8 DEF Dump, Held
    <3> QED BY <2>3, <2>4, <2>8, <3>1 DEF Dump, StoryInv
  <2>9. CASE Finish
    <3>1. portfolio = kept /\ todo = <<>>
      BY <2>3, <2>9 DEF Finish, IdInv, LoopsDone
    <3>2. Held' = Held
      BY <2>9, <3>1, NoIds DEF Finish, Held
    <3>3. report' = Len(portfolio')
      BY <2>9, <3>1 DEF Finish
    <3> QED BY <2>3, <2>4, <2>9, <3>2, <3>3 DEF Finish, StoryInv
  <2>10. CASE Tick \/ UNCHANGED vars
    <3>1. UNCHANGED <<portfolio, report, pc, todo, kept>>
      BY <2>10 DEF Tick, vars, disk, process
    <3>2. Held' = Held
      BY <3>1 DEF Held
    <3> QED BY <2>3, <2>4, <3>1, <3>2 DEF StoryInv
  <2> QED BY <1>4, <2>1, <2>5, <2>6, <2>7, <2>8, <2>9, <2>10 DEF OtherStep
<1> QED BY <1>1, <1>2, <1>3, <1>4, StepKinds

LEMMA StoryInvHolds == Spec => []StoryInv
<1>1. Init => StoryInv
  <2> SUFFICES ASSUME Init PROVE StoryInv
    OBVIOUS
  <2>1. Opened = {} /\ Ended = {} /\ EndedOnce /\ Held = {}
    BY DEF Init, Opened, Ended, EndedOnce, Held, Ids
  <2>2. report = Len(portfolio) /\ pc # "report"
    BY DEF Init
  <2> QED BY <2>1, <2>2 DEF StoryInv
<1>2. IdInv /\ LedgerInv /\ StoryInv /\ [Next]_vars => StoryInv'
  BY StoryInvStep
<1> QED BY <1>1, <1>2, IdInvHolds, LedgerInvHolds, PTL DEF Spec

(* While no run has died, no trade is settled twice in the ledger.          *)
THEOREM TradesSettleOnce == Spec => []SettledOnce
<1>1. StoryInv => SettledOnce
  <2> SUFFICES ASSUME StoryInv, kills = 0, NEW id \in 1..MaxTrades
               PROVE  Cardinality(LedgerLines(id, Settled)) <= 1
    BY DEF SettledOnce
  <2>1. \A m, n \in LedgerLines(id, Settled) : m = n
    BY DEF StoryInv, EndedOnce, LedgerLines
  <2>2. CASE LedgerLines(id, Settled) = {}
    BY <2>2, FS_EmptySet
  <2>3. ASSUME NEW n \in LedgerLines(id, Settled)
        PROVE  Cardinality(LedgerLines(id, Settled)) <= 1
    <3>1. LedgerLines(id, Settled) = {n}
      BY <2>1, <2>3
    <3>2. Cardinality({n}) = 1
      BY FS_Singleton, Zenon
    <3> QED BY <3>1, <3>2
  <2> QED BY <2>2, <2>3
<1> QED BY <1>1, StoryInvHolds, PTL

(* While no run has died, the file holds, between runs, exactly the trades  *)
(* the ledger has opened and not settled, and the report counts them.       *)
THEOREM LedgerReconciles == Spec => []Reconciled
<1>1. IdInv /\ StoryInv => Reconciled
  <2> SUFFICES ASSUME IdInv, StoryInv, kills = 0, pc = "idle"
               PROVE  /\ {portfolio[n].id : n \in 1..Len(portfolio)} =
                           {id \in 1..MaxTrades : LedgerLines(id, {"PAPER_OPEN"}) # {}
                                                  /\ LedgerLines(id, Settled) = {}}
                      /\ report = Len(portfolio)
    BY DEF Reconciled
  <2>1. Ids(portfolio) = Opened \ Ended /\ report = Len(portfolio)
    BY DEF StoryInv, Held
  <2>2. \A id : id \in Opened <=> LedgerLines(id, {"PAPER_OPEN"}) # {}
    BY DEF Opened, LedgerLines
  <2>3. \A id : id \in Ended <=> LedgerLines(id, Settled) # {}
    BY DEF Ended, LedgerLines
  <2>4. Opened \subseteq 1..MaxTrades
    <3>1. nextId \in Nat /\ MaxTrades \in Nat /\ nextId <= MaxTrades + 1
      BY PaperLedgerAssumption DEF IdInv
    <3>2. Given \subseteq 1..MaxTrades
      BY <3>1 DEF Given
    <3> QED BY <3>2 DEF IdInv
  <2>5. Ids(portfolio) = {id \in 1..MaxTrades : LedgerLines(id, {"PAPER_OPEN"}) # {}
                                                /\ LedgerLines(id, Settled) = {}}
    BY <2>1, <2>2, <2>3, <2>4
  <2> QED BY <2>1, <2>5 DEF Ids
<1> QED BY <1>1, IdInvHolds, StoryInvHolds, PTL

-----------------------------------------------------------------------------
(* The notional cap.  The total of a list is a fold; what it does when a    *)
(* trade is appended or taken from the front follows from SumTheorems.      *)

Notionals(trades) == [n \in 1..Len(trades) |-> trades[n].notional]

LEMMA NotionalsType ==
  ASSUME NEW s \in Seq(Trade)
  PROVE  /\ Len(s) \in Nat /\ DOMAIN s = 1..Len(s)
         /\ \A n \in 1..Len(s) : s[n] \in Trade /\ s[n].notional \in Nat
         /\ Notionals(s) \in Weights(Len(s))
<1>1. \A t \in Trade : t.notional \in Nat
  BY DEF Trade
<1>2. /\ Len(s) \in Nat /\ DOMAIN s = 1..Len(s)
      /\ \A n \in 1..Len(s) : s[n] \in Trade
  OBVIOUS
<1>3. \A n \in 1..Len(s) : s[n].notional \in Nat
  BY <1>1, <1>2
<1> QED BY <1>2, <1>3 DEF Notionals, Weights

LEMMA MaxChooses ==
  ASSUME NEW n \in Nat, NEW S \in SUBSET (1..n), S # {}
  PROVE  Max(S) \in S
<1> DEFINE T == {n - x : x \in S}
<1>1. T \subseteq Nat /\ T # {}
  <2>1. \A x \in S : n - x \in Nat
    OBVIOUS
  <2> QED BY <2>1
<1>2. PICK m \in T : \A k \in T : m <= k
  <2> HIDE DEF T
  <2> QED BY <1>1, LeastNumber
<1>3. PICK x \in S : m = n - x
  OBVIOUS
<1>4. \A y \in S : x >= y
  <2> SUFFICES ASSUME NEW y \in S PROVE x >= y
    OBVIOUS
  <2>1. n - x <= n - y
    BY <1>2, <1>3
  <2> QED BY <2>1
<1> QED BY <1>4 DEF Max

LEMMA TotalIsSum ==
  ASSUME NEW s \in Seq(Trade)
  PROVE  TotalNotional(s) = SumOf(Len(s), Notionals(s))
<1> DEFINE D == 1..Len(s)
           c == [S \in SUBSET D |-> Max(S)]
           Total(g) == g = [S \in SUBSET D |->
                              IF S = {} THEN 0 ELSE g[S \ {Max(S)}] + s[Max(S)].notional]
           f == CHOOSE g : Total(g)
<1>1. /\ DOMAIN s = D /\ Len(s) \in Nat /\ IsFiniteSet(D)
      /\ Notionals(s) \in [D -> Int]
      /\ \A n \in D : s[n].notional \in Nat /\ Notionals(s)[n] = s[n].notional
  <2>1. Len(s) \in Nat /\ 1 \in Int
    BY NotionalsType
  <2>2. IsFiniteSet(D)
    BY <2>1, FS_Interval
  <2>3. /\ DOMAIN s = D /\ Notionals(s) \in [D -> Int]
        /\ \A n \in D : s[n].notional \in Nat
    BY NotionalsType DEF Weights
  <2>4. \A n \in D : Notionals(s)[n] = s[n].notional
    BY DEF Notionals
  <2> QED BY <2>1, <2>2, <2>3, <2>4
<1>2. Chooses(D, c)
  BY <1>1, MaxChooses DEF Chooses
<1>3. ASSUME NEW S \in SUBSET D, S # {}
      PROVE  c[S] = Max(S) /\ c[S] \in D /\ Notionals(s)[c[S]] = s[Max(S)].notional
  BY <1>1, <1>2, <1>3 DEF Chooses
<1>4. PICK h : FoldsFirst(D, Notionals(s), c, h)
  <2> HIDE DEF c, D
  <2> QED BY <1>1, <1>2, FoldExists
<1>5. Total(h)
  <2>1. ASSUME NEW S \in SUBSET D, S # {}
        PROVE  h[S] = h[S \ {Max(S)}] + s[Max(S)].notional
    <3>1. h[S] = s[Max(S)].notional + h[S \ {Max(S)}]
      BY <1>3, <1>4, <2>1 DEF FoldsFirst
    <3>2. s[Max(S)].notional \in Int /\ h[S \ {Max(S)}] \in Int
      BY <1>1, <1>3, <1>4, <2>1 DEF FoldsFirst
    <3> QED BY <3>1, <3>2
  <2>2. h[{}] = 0
    BY <1>4 DEF FoldsFirst, FoldsTo
  <2>3. h = [S \in SUBSET D |-> h[S]]
    BY <1>4 DEF FoldsFirst
  <2> QED BY <2>1, <2>2, <2>3
<1>6. FoldsTo(D, Notionals(s), c, f)
  <2>1. Total(f)
    BY <1>5
  <2>2. f[{}] = 0 /\ f = [S \in SUBSET D |-> f[S]]
    BY <2>1
  <2>3. \A S \in SUBSET D : S # {} => f[S] = f[S \ {c[S]}] + Notionals(s)[c[S]]
    BY <1>3, <2>1
  <2> QED BY <2>2, <2>3 DEF FoldsTo
<1>7. TotalNotional(s) = f[D]
  BY <1>1 DEF TotalNotional, FoldLeft, MapThenFoldSet
<1>8. Sums(D, Notionals(s), f)
  <2> HIDE DEF c, f
  <2> QED BY <1>1, <1>2, <1>6, FoldSums
<1>9. SumOf(Len(s), Notionals(s)) = f[D]
  <2> HIDE DEF f
  <2> QED BY <1>1, <1>8, NotionalsType, SumOfIs
<1> QED BY <1>7, <1>9

LEMMA TotalNone == TotalNotional(<<>>) = 0
<1>1. <<>> \in Seq(Trade) /\ Len(<<>>) = 0
  OBVIOUS
<1> QED BY <1>1, TotalIsSum, NotionalsType, SumOfNone

LEMMA TotalAppend ==
  ASSUME NEW s \in Seq(Trade), NEW t \in Trade
  PROVE  TotalNotional(Append(s, t)) = TotalNotional(s) + t.notional
<1> DEFINE n == Len(s)
           v == Notionals(Append(s, t))
<1>1. /\ Append(s, t) \in Seq(Trade) /\ Len(Append(s, t)) = n + 1 /\ n \in Nat
      /\ Append(s, t)[n + 1] = t /\ \A k \in 1..n : Append(s, t)[k] = s[k]
  BY AppendProperties
<1>2. Notionals(s) \in Weights(n) /\ v \in Weights(n + 1)
  BY <1>1, NotionalsType
<1>3. v[n + 1] = t.notional /\ \A k \in 1..n : Notionals(s)[k] = v[k]
  BY <1>1 DEF Notionals
<1> HIDE DEF v
<1>4. SumOf(n + 1, v) = SumOf(n, Notionals(s)) + v[n + 1]
  BY <1>1, <1>2, <1>3, SumOfAppend
<1> QED BY <1>1, <1>3, <1>4, TotalIsSum DEF v

LEMMA TotalTail ==
  ASSUME NEW s \in Seq(Trade), s # <<>>
  PROVE  TotalNotional(s) = Head(s).notional + TotalNotional(Tail(s))
<1> DEFINE n == Len(Tail(s))
           w == Notionals(s)
           v == Notionals(Tail(s))
<1>1. /\ Tail(s) \in Seq(Trade) /\ Len(s) = n + 1 /\ n \in Nat
      /\ \A k \in 1..n : k + 1 \in 1..Len(s) /\ Tail(s)[k] = s[k + 1]
      /\ 1 \in 1..Len(s) /\ Head(s) = s[1]
  BY TailElements
<1>2. w \in Weights(n + 1) /\ v \in Weights(n)
  BY <1>1, NotionalsType
<1>3. w[1] = Head(s).notional /\ \A k \in 1..n : v[k] = w[k + 1]
  BY <1>1 DEF Notionals
<1> HIDE DEF v, w, n
<1>4. SumOf(n + 1, w) = w[1] + SumOf(n, v)
  BY <1>1, <1>2, <1>3, SumOfTail
<1> QED BY <1>1, <1>3, <1>4, TotalIsSum DEF v, w, n

LEMMA TensAdd ==
  ASSUME NEW a \in Int, NEW b \in Int, a % 10 = 0, b % 10 = 0
  PROVE  (a + b) % 10 = 0
  OBVIOUS

(* A total is a natural number, and whole cents add up to whole cents: by   *)
(* the shortest list of which it is not so.                                 *)
TotalOk(u) == TotalNotional(u) \in Nat /\ (WholeCents(u) => TotalNotional(u) % 10 = 0)

LEMMA TotalIsOk == ASSUME NEW s \in Seq(Trade) PROVE TotalOk(s)
<1> DEFINE Bad == {n \in Nat : \E u \in Seq(Trade) : Len(u) = n /\ ~TotalOk(u)}
<1>1. ASSUME Bad # {} PROVE FALSE
  <2>1. PICK n \in Bad : \A m \in Bad : n <= m
    <3>1. Bad \subseteq Nat
      OBVIOUS
    <3> HIDE DEF Bad
    <3> QED BY <1>1, <3>1, LeastNumber
  <2>2. PICK u \in Seq(Trade) : Len(u) = n /\ ~TotalOk(u)
    OBVIOUS
  <2>3. u # <<>>
    BY <2>2, TotalNone DEF TotalOk
  <2>4. /\ Tail(u) \in Seq(Trade) /\ Len(Tail(u)) = n - 1 /\ n - 1 \in Nat
        /\ \A k \in 1..Len(Tail(u)) : k + 1 \in 1..Len(u) /\ Tail(u)[k] = u[k + 1]
        /\ 1 \in 1..Len(u) /\ Head(u) = u[1] /\ Head(u) \in Trade
    BY <2>2, <2>3, TailElements
  <2>5. n - 1 \notin Bad
    <3>1. n \in Nat /\ ~(n <= n - 1)
      OBVIOUS
    <3> HIDE DEF Bad
    <3> QED BY <2>1, <3>1
  <2>6. TotalOk(Tail(u))
    BY <2>4, <2>5
  <2>7. TotalNotional(u) = Head(u).notional + TotalNotional(Tail(u))
    BY <2>3, TotalTail
  <2>8. Head(u).notional \in Nat
    BY <2>4 DEF Trade
  <2>9. TotalNotional(u) \in Nat
    BY <2>6, <2>7, <2>8 DEF TotalOk
  <2>10. ASSUME WholeCents(u) PROVE TotalNotional(u) % 10 = 0
    <3>1. WholeCents(Tail(u)) /\ Head(u).notional % 10 = 0
      BY <2>4, <2>10 DEF WholeCents
    <3>2. TotalNotional(Tail(u)) % 10 = 0 /\ TotalNotional(Tail(u)) \in Nat
      BY <2>6, <3>1 DEF TotalOk
    <3>3. (Head(u).notional + TotalNotional(Tail(u))) % 10 = 0
      <4>1. Head(u).notional \in Int /\ TotalNotional(Tail(u)) \in Int
        BY <2>8, <3>2
      <4> HIDE DEF TotalNotional
      <4> QED BY <3>1, <3>2, <4>1, TensAdd
    <3> QED BY <2>7, <3>3
  <2> QED BY <2>2, <2>9, <2>10 DEF TotalOk
<1> QED BY <1>1

LEMMA CentsWhole ==
  ASSUME NEW size \in Nat, NEW room \in Int, room % 10 = 0, size <= room
  PROVE  Cents(size) \in Nat /\ Cents(size) % 10 = 0 /\ Cents(size) <= room
  BY DEF Cents

(* What a size that fits leaves room for, and what moving a notional from   *)
(* one list to the other does to their sum.                                 *)
LEMMA RoomLeft ==
  ASSUME NEW cap \in Int, NEW sum \in Int, NEW size \in Nat,
         cap % 10 = 0, sum % 10 = 0, sum + size <= cap
  PROVE  sum + Cents(size) <= cap /\ Cents(size) % 10 = 0 /\ Cents(size) \in Nat
<1> DEFINE room == cap - sum
<1>1. room \in Int /\ room % 10 = 0 /\ size <= room
  OBVIOUS
<1>2. Cents(size) \in Nat /\ Cents(size) % 10 = 0 /\ Cents(size) <= room
  <2> HIDE DEF room
  <2> QED BY <1>1, CentsWhole
<1> HIDE DEF Cents
<1> QED BY <1>2

LEMMA SumMoves ==
  ASSUME NEW cap \in Int, NEW k \in Int, NEW h \in Nat, NEW r \in Int,
         k + (h + r) <= cap
  PROVE  k + r <= cap /\ (k + h) + r <= cap
  OBVIOUS

LEMMA NotionalInvStep ==
  ASSUME MaxNotional % 10 = 0, NotionalInv, [Next]_vars PROVE NotionalInv'
<1>1. /\ TypeOK /\ TypeOK'
      /\ portfolio \in Seq(Trade) /\ todo \in Seq(Trade) /\ kept \in Seq(Trade)
      /\ \A t \in Trade : t.notional \in Nat
      /\ MaxNotional \in Int
  BY TypeCorrectStep, PaperLedgerAssumption DEF NotionalInv, TypeOK, Trade
<1>2. /\ TotalNotional(portfolio) \in Nat /\ TotalNotional(todo) \in Nat
      /\ TotalNotional(kept) \in Nat /\ TotalNotional(kept) % 10 = 0
      /\ TotalNotional(portfolio) <= MaxNotional
      /\ TotalNotional(kept) + TotalNotional(todo) <= MaxNotional
  BY <1>1, TotalIsOk DEF NotionalInv, TotalOk
<1>3. CASE LoopStep
  <2>1. todo # <<>> /\ todo' = Tail(todo) /\ portfolio' = portfolio
    BY <1>3 DEF LoopStep
  <2>2. Head(todo) \in Trade /\ Tail(todo) \in Seq(Trade) /\ Head(todo).notional \in Nat
    BY <1>1, <2>1
  <2>3. WholeCents(todo') /\ Head(todo).notional % 10 = 0
    BY <1>1, <2>1, TailElements DEF NotionalInv, WholeCents
  <2>4. /\ TotalNotional(todo) = Head(todo).notional + TotalNotional(todo')
        /\ TotalNotional(todo') \in Nat
    BY <1>1, <2>1, <2>2, TotalTail, TotalIsOk DEF TotalOk
  <2>5. LoopsDone'
    BY <1>3 DEF LoopStep, LoopsDone
  <2>8. /\ TotalNotional(kept) + TotalNotional(todo') <= MaxNotional
        /\ (TotalNotional(kept) + Head(todo).notional) + TotalNotional(todo') <= MaxNotional
    <3>1. TotalNotional(kept) \in Int /\ TotalNotional(todo') \in Int
      BY <1>2, <2>4
    <3>2. TotalNotional(kept) + (Head(todo).notional + TotalNotional(todo')) <= MaxNotional
      BY <1>2, <2>4
    <3> QED BY <1>1, <2>2, <3>1, <3>2, SumMoves
  <2>6. CASE kept' = kept
    <3>1. TotalNotional(kept') + TotalNotional(todo') <= MaxNotional
      <4>1. TotalNotional(kept') = TotalNotional(kept)
        BY <2>6
      <4> QED BY <2>8, <4>1
    <3>2. WholeCents(kept') /\ WholeCents(portfolio')
          /\ TotalNotional(portfolio') <= MaxNotional
      BY <2>1, <2>6 DEF NotionalInv
    <3> QED BY <1>1, <2>3, <2>5, <3>1, <3>2 DEF NotionalInv
  <2>7. ASSUME NEW t \in Trade, t.notional = Head(todo).notional, kept' = Append(kept, t)
        PROVE  NotionalInv'
    <3>1. TotalNotional(kept') = TotalNotional(kept) + t.notional
      BY <1>1, <2>7, TotalAppend
    <3>2. WholeCents(kept')
      BY <1>1, <2>3, <2>7, AppendElements DEF NotionalInv, WholeCents
    <3>3. TotalNotional(kept') + TotalNotional(todo') <= MaxNotional
      BY <2>7, <2>8, <3>1
    <3>4. WholeCents(portfolio') /\ TotalNotional(portfolio') <= MaxNotional
      BY <2>1 DEF NotionalInv
    <3> QED BY <1>1, <2>3, <2>5, <3>2, <3>3, <3>4 DEF NotionalInv
  <2> QED BY <1>3, <2>6, <2>7 DEF LoopStep
<1>4. CASE AttemptStep
  <2>1. /\ todo = <<>> /\ todo' = <<>> /\ portfolio' = portfolio /\ LoopsDone'
    BY <1>4 DEF AttemptStep, NotionalInv, LoopsDone
  <2>2. CASE kept' = kept
    BY <1>1, <2>1, <2>2 DEF NotionalInv
  <2>3. ASSUME NEW t \in Trade, NEW size \in Sizes, t.notional = Cents(size),
               TotalNotional(kept) + size <= MaxNotional, kept' = Append(kept, t)
        PROVE  NotionalInv'
    <3>1. size \in Nat
      BY PaperLedgerAssumption
    <3>2. TotalNotional(kept) + size <= MaxNotional /\ TotalNotional(kept) \in Int
          /\ TotalNotional(kept) % 10 = 0 /\ MaxNotional % 10 = 0
      BY <1>2, <2>3
    <3>3. /\ TotalNotional(kept) + t.notional <= MaxNotional
          /\ t.notional % 10 = 0 /\ t.notional \in Nat
      BY <1>1, <2>3, <3>1, <3>2, RoomLeft
    <3>4. TotalNotional(kept') = TotalNotional(kept) + t.notional
      BY <1>1, <2>3, TotalAppend
    <3>5. TotalNotional(kept') + TotalNotional(todo') <= MaxNotional
      <4>1. TotalNotional(todo') = 0
        BY <2>1, TotalNone
      <4>2. TotalNotional(kept) \in Int /\ t.notional \in Int
        BY <3>2, <3>3
      <4> QED BY <3>3, <3>4, <4>1, <4>2
    <3>6. WholeCents(kept')
      BY <1>1, <2>3, <3>3, AppendElements DEF NotionalInv, WholeCents
    <3>7. /\ WholeCents(portfolio') /\ TotalNotional(portfolio') <= MaxNotional
          /\ WholeCents(todo')
      BY <2>1 DEF NotionalInv
    <3> QED BY <1>1, <2>1, <3>5, <3>6, <3>7 DEF NotionalInv
  <2> QED BY <1>4, <2>2, <2>3 DEF AttemptStep
<1>5. CASE OtherStep
  <2>1. /\ LoopsDone' /\ portfolio' \in {portfolio, kept, <<>>}
        /\ \/ todo' \in {portfolio, kept, <<>>} /\ kept' = <<>>
           \/ todo' = todo /\ kept' = kept
    BY <1>5, OtherLists DEF NotionalInv
  <2>2. WholeCents(<<>>) /\ TotalNotional(<<>>) = 0 /\ MaxNotional >= 0
    BY TotalNone, PaperLedgerAssumption DEF WholeCents
  <2>3. WholeCents(portfolio') /\ WholeCents(todo') /\ WholeCents(kept')
    BY <2>1, <2>2 DEF NotionalInv
  <2>4. TotalNotional(kept) <= MaxNotional
    <3>1. \A a, b \in Nat : a + b <= MaxNotional => a <= MaxNotional
      BY <1>1
    <3> QED BY <1>2, <3>1
  <2>5. TotalNotional(portfolio') <= MaxNotional
    <3>1. TotalNotional(kept) <= MaxNotional
      BY <2>4
    <3>2. \A u \in {portfolio, kept, <<>>} : TotalNotional(u) <= MaxNotional
      BY <1>2, <2>2, <3>1
    <3> QED BY <2>1, <3>2
  <2>6. TotalNotional(kept') + TotalNotional(todo') <= MaxNotional
    <3>1. CASE todo' = todo /\ kept' = kept
      BY <3>1 DEF NotionalInv
    <3>2. ASSUME todo' \in {portfolio, kept, <<>>}, kept' = <<>>
          PROVE  TotalNotional(kept') + TotalNotional(todo') <= MaxNotional
      <4>1. TotalNotional(kept') = 0
        BY <2>2, <3>2
      <4>2. \A u \in {portfolio, kept, <<>>} :
               TotalNotional(u) \in Nat /\ TotalNotional(u) <= MaxNotional
        BY <1>2, <2>2, <2>4
      <4>3. TotalNotional(todo') \in Nat /\ TotalNotional(todo') <= MaxNotional
        BY <3>2, <4>2
      <4> QED BY <4>1, <4>3
    <3> QED BY <2>1, <3>1, <3>2
  <2> QED BY <1>1, <2>1, <2>3, <2>5, <2>6 DEF NotionalInv
<1> QED BY <1>3, <1>4, <1>5, <1>1, StepKinds

(* The stored notionals of the open trades never exceed the portfolio cap,  *)
(* if that is whole cents (10 USDT in the code): a size that fits before it *)
(* is rounded fits after it.                                                *)
THEOREM NotionalCap ==
  ASSUME MaxNotional % 10 = 0 PROVE Spec => []NotionalWithinCap
<1>1. Init => NotionalInv
  BY TypeCorrectInit, TotalNone, PaperLedgerAssumption
     DEF Init, NotionalInv, LoopsDone, WholeCents
<1>2. NotionalInv /\ [Next]_vars => NotionalInv'
  BY NotionalInvStep
<1>3. NotionalInv => NotionalWithinCap
  BY DEF NotionalInv, NotionalWithinCap
<1> QED BY <1>1, <1>2, <1>3, PTL DEF Spec

-----------------------------------------------------------------------------
(* PaperLedger implements PaperBook: the steps of a run up to the           *)
(* truncation are stutters, the truncation is Settle, writing the new       *)
(* content is a stutter, and a run that dies in between is Lose.            *)
(* What a run carries towards the file: slots the file already holds, and   *)
(* one more for each source it has tried.                                   *)
Tried == IF pc = "rotation" THEN 1 ELSE IF pc = "truncate" THEN 2 ELSE 0
Draft ==
  pc \in {"expire", "legacy", "monitor", "shadow", "rotation", "truncate"} =>
    \E new \in SUBSET AllSlots :
      /\ IsFiniteSet(new) /\ Cardinality(new) <= Tried
      /\ SlotsOf(kept) \cup SlotsOf(todo) \subseteq SlotsOf(portfolio) \cup new
Emptied == pc = "dump" => portfolio = <<>>
BookInv == CountInv /\ Draft /\ Emptied

LEMMA SlotsOfAppend ==
  ASSUME NEW s \in Seq(Trade), NEW t \in Trade
  PROVE  SlotsOf(Append(s, t)) \subseteq SlotsOf(s) \cup {<<t.plan.sym, t.plan.side>>}
  BY AppendElements DEF SlotsOf

LEMMA SlotsOfTail ==
  ASSUME NEW s \in Seq(Trade), s # <<>>
  PROVE  /\ SlotsOf(Tail(s)) \subseteq SlotsOf(s)
         /\ <<Head(s).plan.sym, Head(s).plan.side>> \in SlotsOf(s)
  BY TailElements DEF SlotsOf

LEMMA SlotsOfEmpty == SlotsOf(<<>>) = {}
  BY DEF SlotsOf

LEMMA SlotsOfSize ==
  ASSUME NEW s \in Seq(Trade)
  PROVE  IsFiniteSet(SlotsOf(s)) /\ Cardinality(SlotsOf(s)) <= Len(s)
<1> DEFINE f == [n \in 1..Len(s) |-> <<s[n].plan.sym, s[n].plan.side>>]
<1>1. Len(s) \in Nat
  OBVIOUS
<1>2. f \in Surjection(1..Len(s), SlotsOf(s))
  BY DEF Surjection, SlotsOf
<1>3. IsFiniteSet(1..Len(s)) /\ Cardinality(1..Len(s)) = Len(s)
  BY <1>1, FS_Interval
<1> QED BY <1>2, <1>3, FS_Surjection

(* A set grows by at most one with one more element.                         *)
LEMMA OneMore ==
  ASSUME NEW S, IsFiniteSet(S), NEW x
  PROVE  IsFiniteSet(S \cup {x}) /\ Cardinality(S \cup {x}) <= Cardinality(S) + 1
<1>1. Cardinality(S) \in Nat
  BY FS_CardinalityType
<1>2. /\ IsFiniteSet(S \cup {x})
      /\ \/ Cardinality(S \cup {x}) = Cardinality(S)
         \/ Cardinality(S \cup {x}) = Cardinality(S) + 1
  BY FS_AddElement
<1> QED BY <1>1, <1>2

(* The draft stays within the file's slots and the slots of the new trades. *)
LEMMA DraftStep == ASSUME BookInv, [Next]_vars PROVE Draft'
<1>1. /\ TypeOK /\ TypeOK' /\ LoopsDone
      /\ portfolio \in Seq(Trade) /\ todo \in Seq(Trade) /\ kept \in Seq(Trade)
  BY TypeCorrectStep DEF BookInv, CountInv, TypeOK
<1>2. CASE LoopStep
  <2>1. PICK new \in SUBSET AllSlots :
          /\ IsFiniteSet(new) /\ Cardinality(new) <= Tried
          /\ SlotsOf(kept) \cup SlotsOf(todo) \subseteq SlotsOf(portfolio) \cup new
    BY <1>2 DEF LoopStep, BookInv, Draft
  <2>2. Tried' = Tried /\ SlotsOf(portfolio') = SlotsOf(portfolio)
    BY <1>2 DEF LoopStep, Tried
  <2>3. todo # <<>> /\ SlotsOf(todo') \subseteq SlotsOf(todo)
    BY <1>1, <1>2, SlotsOfTail DEF LoopStep
  <2>4. SlotsOf(kept') \subseteq SlotsOf(kept) \cup SlotsOf(todo)
    <3>1. CASE kept' = kept
      BY <3>1
    <3>2. ASSUME NEW t \in Trade, t.plan = Head(todo).plan, kept' = Append(kept, t)
          PROVE  SlotsOf(kept') \subseteq SlotsOf(kept) \cup SlotsOf(todo)
      BY <1>1, <2>3, <3>2, SlotsOfAppend, SlotsOfTail
    <3> QED BY <1>2, <3>1, <3>2 DEF LoopStep
  <2>5. SlotsOf(kept)' \cup SlotsOf(todo)' \subseteq SlotsOf(portfolio)' \cup new
    BY <2>1, <2>2, <2>3, <2>4 DEF SlotsOf
  <2> QED BY <2>1, <2>2, <2>5 DEF Draft
<1>3. CASE AttemptStep
  <2>1. PICK new \in SUBSET AllSlots :
          /\ IsFiniteSet(new) /\ Cardinality(new) <= Tried
          /\ SlotsOf(kept) \cup SlotsOf(todo) \subseteq SlotsOf(portfolio) \cup new
    BY <1>3 DEF AttemptStep, BookInv, Draft
  <2>2. Tried' = Tried + 1 /\ Tried \in Nat /\ Cardinality(new) \in Nat
    BY <1>3, <2>1, FS_CardinalityType DEF AttemptStep, Tried
  <2>3. portfolio' = portfolio /\ todo' = todo
    BY <1>3 DEF AttemptStep
  <2>4. CASE kept' = kept
    <3>1. Cardinality(new) <= Tried'
      BY <2>1, <2>2
    <3>2. SlotsOf(kept)' \cup SlotsOf(todo)' \subseteq SlotsOf(portfolio)' \cup new
      BY <2>1, <2>3, <2>4 DEF SlotsOf
    <3> QED BY <2>1, <3>1, <3>2 DEF Draft
  <2>5. ASSUME NEW t \in Trade, kept' = Append(kept, t) PROVE Draft'
    <3> DEFINE slot == <<t.plan.sym, t.plan.side>>
               more == new \cup {slot}
    <3>1. slot \in AllSlots
      BY DEF AllSlots, Trade
    <3>2. IsFiniteSet(more) /\ Cardinality(more) <= Cardinality(new) + 1
      <4> HIDE DEF slot
      <4> QED BY <2>1, OneMore
    <3>3. Cardinality(more) <= Tried'
      <4>1. Cardinality(more) \in Nat
        BY <3>2, FS_CardinalityType
      <4> QED BY <2>1, <2>2, <3>2, <4>1
    <3>4. SlotsOf(kept') \subseteq SlotsOf(kept) \cup {slot}
      BY <1>1, <2>5, SlotsOfAppend
    <3>5. SlotsOf(kept)' \cup SlotsOf(todo)' \subseteq SlotsOf(portfolio)' \cup more
      BY <2>1, <2>3, <3>4 DEF SlotsOf
    <3>6. more \in SUBSET AllSlots
      BY <2>1, <3>1
    <3> HIDE DEF more
    <3> QED BY <3>2, <3>3, <3>5, <3>6 DEF Draft
  <2> QED BY <1>3, <2>4, <2>5 DEF AttemptStep
<1>4. CASE OtherStep
  <2>1. CASE Begin
    <3>1. Tried' = 0 /\ todo' = portfolio' /\ kept' = <<>>
      BY <2>1 DEF Begin, Tried, disk
    <3>2. SlotsOf(kept)' \cup SlotsOf(todo)' \subseteq SlotsOf(portfolio)' \cup {}
      BY <3>1, SlotsOfEmpty DEF SlotsOf
    <3> QED BY <3>1, <3>2, FS_EmptySet DEF Draft
  <2>2. CASE NextLoop("expire", "legacy") \/ NextLoop("legacy", "monitor") \/ EndMonitor
    <3>1. PICK new \in SUBSET AllSlots :
            /\ IsFiniteSet(new) /\ Cardinality(new) <= Tried
            /\ SlotsOf(kept) \cup SlotsOf(todo) \subseteq SlotsOf(portfolio) \cup new
      BY <2>2 DEF NextLoop, EndMonitor, BookInv, Draft
    <3>2. Tried' = Tried /\ portfolio' = portfolio
      BY <2>2 DEF NextLoop, EndMonitor, Tried, disk
    <3>3. \/ todo' = kept /\ kept' = <<>>
          \/ todo' = todo /\ kept' = kept
      BY <2>2 DEF NextLoop, EndMonitor
    <3>4. SlotsOf(kept') \cup SlotsOf(todo') \subseteq SlotsOf(kept) \cup SlotsOf(todo)
      BY <3>3, SlotsOfEmpty
    <3>5. SlotsOf(kept)' \cup SlotsOf(todo)' \subseteq SlotsOf(portfolio)' \cup new
      BY <3>1, <3>2, <3>4 DEF SlotsOf
    <3> QED BY <3>1, <3>2, <3>5 DEF Draft
  <2>3. CASE Truncate \/ Dump \/ Finish \/ Tick \/ Die
    BY <2>3 DEF Truncate, Dump, Finish, Tick, Die, process, Draft
  <2>4. CASE UNCHANGED vars
    BY <2>4 DEF BookInv, Draft, SlotsOf, Tried, vars
  <2> QED BY <1>4, <2>1, <2>2, <2>3, <2>4 DEF OtherStep
<1> QED BY <1>1, <1>2, <1>3, <1>4, StepKinds

LEMMA EmptiedStep == ASSUME BookInv, [Next]_vars PROVE Emptied'
<1>1. TypeOK
  BY DEF BookInv, CountInv
<1>2. CASE LoopStep \/ AttemptStep
  BY <1>2 DEF LoopStep, AttemptStep, Emptied
<1>3. CASE OtherStep
  BY <1>3 DEF OtherStep, Begin, NextLoop, EndMonitor, Truncate, Dump, Finish, Tick, Die,
              disk, process, vars, BookInv, Emptied
<1> QED BY <1>1, <1>2, <1>3, StepKinds

(* The instance's cardinality is the usual one. *)
LEMMA BookCardinality ==
  ASSUME NEW S PROVE Book!Cardinality(S) = Cardinality(S)
  BY DEF Book!Cardinality, Cardinality

(* The truncation settles the book; a death before the new content is in    *)
(* loses it; nothing else changes it.                                       *)
LEMMA StepImplementsBook ==
  ASSUME BookInv, [Next]_vars PROVE Book!Next \/ UNCHANGED BookNow
<1>1. TypeOK /\ LoopsDone /\ PortfolioBounded
  BY DEF BookInv, CountInv
<1>2. CASE LoopStep \/ AttemptStep
  BY <1>2 DEF LoopStep, AttemptStep, BookNow, SlotsOf
<1>3. CASE Begin \/ NextLoop("expire", "legacy") \/ NextLoop("legacy", "monitor")
           \/ EndMonitor \/ Finish \/ Tick
  BY <1>3 DEF Begin, NextLoop, EndMonitor, Finish, Tick, disk, process, BookNow, SlotsOf
<1>4. CASE Truncate
  <2>1. PICK new \in SUBSET AllSlots :
          /\ IsFiniteSet(new) /\ Cardinality(new) <= 2
          /\ SlotsOf(kept) \cup SlotsOf(todo) \subseteq SlotsOf(portfolio) \cup new
    BY <1>4 DEF Truncate, BookInv, Draft, Tried
  <2>2. BookNow = SlotsOf(portfolio) /\ BookNow' = SlotsOf(kept)
    BY <1>4 DEF Truncate, BookNow, SlotsOf
  <2>3. Cardinality(SlotsOf(kept)) <= MaxActive
    <3>1. kept \in Seq(Trade) /\ todo = <<>>
      BY <1>1, <1>4 DEF TypeOK, LoopsDone, Truncate
    <3>2. Len(kept) <= MaxActive /\ Len(kept) \in Nat /\ MaxActive \in Nat
      BY <1>1, <3>1, PaperLedgerAssumption DEF PortfolioBounded
    <3>3. IsFiniteSet(SlotsOf(kept)) /\ Cardinality(SlotsOf(kept)) <= Len(kept)
      BY <3>1, SlotsOfSize
    <3>4. Cardinality(SlotsOf(kept)) \in Nat
      BY <3>3, FS_CardinalityType
    <3> QED BY <3>2, <3>3, <3>4
  <2>4. SlotsOf(kept) \in SUBSET (BookNow \cup new)
    BY <2>1, <2>2
  <2>5. Book!Settle
    BY <2>1, <2>2, <2>3, <2>4, BookCardinality DEF Book!Settle
  <2> QED BY <2>5 DEF Book!Next
<1>5. CASE Dump
  BY <1>5 DEF Dump, BookNow, SlotsOf
<1>6. CASE Die
  <2>1. CASE pc = "dump"
    <3>1. BookNow' = {}
      BY <1>6, <2>1, SlotsOfEmpty DEF Die, disk, BookNow, BookInv, Emptied, SlotsOf
    <3> QED BY <3>1 DEF Book!Next, Book!Lose
  <2>2. CASE pc # "dump"
    BY <1>6, <2>2 DEF Die, disk, BookNow, SlotsOf
  <2> QED BY <2>1, <2>2
<1>7. CASE UNCHANGED vars
  BY <1>7 DEF vars, BookNow, SlotsOf
<1> QED BY <1>1, <1>2, <1>3, <1>4, <1>5, <1>6, <1>7, StepKinds DEF OtherStep

(* The execution ledger implements the abstract book: whatever dies where,  *)
(* a run either settles the open slots in one step, with at most one new    *)
(* slot per source and never more than PAPER_MAX_ACTIVE_TRADES, or loses    *)
(* the book as a whole.                                                     *)
THEOREM LedgerImplementsBook == Spec => ImplementsBook
<1>1. Init => Draft /\ Emptied
  BY DEF Init, Draft, Emptied
<1>2. CountInv /\ Draft /\ Emptied /\ [Next]_vars => (Draft /\ Emptied)'
  BY DraftStep, EmptiedStep DEF BookInv
<1>3. Init => Book!Init
  BY SlotsOfEmpty DEF Init, Book!Init, BookNow
<1>4. CountInv /\ Draft /\ Emptied /\ [Next]_vars => [Book!Next]_BookNow
  BY StepImplementsBook DEF BookInv
<1> QED BY <1>1, <1>2, <1>3, <1>4, CountInvHolds, PTL DEF Spec, ImplementsBook, Book!Spec

=============================================================================
