---------------------------- MODULE ServicesProofs ----------------------------
(***************************************************************************)
(* The event store, the paper desk and the governed replay for any number  *)
(* of processes, events, reports, prices, sizes and candles.               *)
(***************************************************************************)
EXTENDS MCServices, SumTheorems, SequenceTheorems, FiniteSetTheorems, TLAPS

(* A step is one of a service, and leaves the variables of the others.      *)
LEMMA OneServiceSteps ==
  [ServicesNext]_allVars =>
    /\ Store!Next \/ UNCHANGED storeVars
    /\ Desk!Next \/ UNCHANGED deskVars
    /\ Governed!Next \/ UNCHANGED governedVars
  BY DEF ServicesNext, SelectiveStep, StoreStep, DeskStep, GovernedStep, allVars

-----------------------------------------------------------------------------
(* The event store                                                         *)

StoreTyped ==
  /\ file \in (SUBSET Store!Events) \cup {Store!Torn}
  /\ mem \in [Procs -> [Store!Events -> Store!Forms]]
  /\ step \in [Procs -> {"down", "idle", "save", "write"}]
  /\ job \in [Procs -> Nat]
  /\ seen \subseteq Store!Events

(* What a process knows, and so what it may write, subscribers have seen.   *)
Published ==
  /\ file # Store!Torn => file \subseteq seen
  /\ \A p \in Procs : Store!Known(p) \subseteq seen

(* Of processes in succession at most one is up; it knows all that was      *)
(* acknowledged, and the event it is saving; and between two saves the file *)
(* has it too.                                                              *)
Lone == \A p, q \in Procs : Store!Up(p) /\ Store!Up(q) => p = q
Remembered ==
  \A p \in Procs : Store!Up(p) =>
    /\ acked \subseteq Store!Known(p)
    /\ step[p] \in {"save", "write"} => job[p] \in Store!Known(p) \cup {0}
OnDisk ==
  (\A p \in Procs : step[p] # "write") => file # Store!Torn /\ acked \subseteq file
StoreInv ==
  /\ StoreTyped /\ Published
  /\ ~shared => Lone
  /\ (~shared /\ ~hurt) => Remembered /\ OnDisk

LEMMA TornIsNoFile ==
  /\ Store!Torn \notin SUBSET Store!Events
  /\ Store!Loaded \in {file, {}}
  /\ \A p \in Procs : Store!Known(p) \subseteq Store!Events
<1>1. 0 \notin Store!Events
  BY DEF Store!Events
<1> QED BY <1>1 DEF Store!Torn, Store!Loaded, Store!Known

LEMMA StoreInit ==
  ASSUME ServicesInit PROVE StoreInv
<1>1. Store!Init
  BY DEF ServicesInit
<1>2. \A p \in Procs : Store!Known(p) = {} /\ ~Store!Up(p)
  BY <1>1 DEF Store!Init, Store!Empty, Store!Known, Store!Up
<1>3. Store!Empty \in [Store!Events -> Store!Forms]
  BY DEF Store!Empty, Store!Forms
<1>4. file # Store!Torn
  BY <1>1 DEF Store!Init, Store!Torn
<1> QED
  BY <1>1, <1>2, <1>3, <1>4
  DEF Store!Init, StoreInv, StoreTyped, Published, Lone, Remembered, OnDisk

(* What each step does to what the processes know.                          *)
LEMMA StoreStart ==
  ASSUME StoreInv, NEW p \in Procs, Store!Start(p) PROVE StoreInv'
<1>1. /\ step[p] = "down" /\ step' = [step EXCEPT ![p] = "idle"]
      /\ UNCHANGED <<file, job, seen, acked, hurt>>
      /\ shared' = (shared \/ \E q \in Procs \ {p} : Store!Up(q))
  BY DEF Store!Start, Store!Goto
<1>2. mem' = [mem EXCEPT ![p] =
                [e \in Store!Events |-> IF e \in Store!Loaded THEN "text" ELSE "absent"]]
  BY DEF Store!Start
<1>3. /\ StoreTyped'
      /\ \A q \in Procs : Store!Known(q)' =
           IF q = p THEN Store!Loaded ELSE Store!Known(q)
  <2>1. [e \in Store!Events |-> IF e \in Store!Loaded THEN "text" ELSE "absent"]
          \in [Store!Events -> Store!Forms]
    BY DEF Store!Forms
  <2>2. mem' \in [Procs -> [Store!Events -> Store!Forms]]
    BY <1>2, <2>1 DEF StoreInv, StoreTyped
  <2>3. Store!Loaded \subseteq Store!Events
    BY DEF StoreInv, StoreTyped, Store!Loaded
  <2>4. \A q \in Procs \ {p} : mem'[q] = mem[q]
    BY <1>2 DEF StoreInv, StoreTyped
  <2>5. \A e \in Store!Events :
           mem'[p][e] = IF e \in Store!Loaded THEN "text" ELSE "absent"
    BY <1>2 DEF StoreInv, StoreTyped
  <2>6. Store!Known(p)' = Store!Loaded
    BY <2>3, <2>5 DEF Store!Known, Store!Events
  <2>7. \A q \in Procs \ {p} : Store!Known(q)' = Store!Known(q)
    BY <2>4 DEF Store!Known, Store!Events
  <2>8. StoreTyped'
    BY <1>1, <2>2 DEF StoreInv, StoreTyped, Store!Events, Store!Torn
  <2> QED BY <2>6, <2>7, <2>8
<1>4. Published'
  BY <1>1, <1>3 DEF StoreInv, Published, Store!Loaded, Store!Torn
<1>5. ASSUME ~shared' PROVE Lone' /\ ~shared /\ \A q \in Procs : step[q] = "down"
  <2>1. \A q \in Procs : ~Store!Up(q)
    BY <1>1, <1>5 DEF Store!Up
  <2>2. \A q \in Procs \ {p} : step'[q] = step[q]
    BY <1>1 DEF StoreInv, StoreTyped
  <2>3. \A q \in Procs : Store!Up(q)' => q = p
    BY <2>1, <2>2 DEF Store!Up
  <2> QED BY <1>1, <1>5, <2>1, <2>3 DEF Lone, Store!Up
<1>6. ASSUME ~shared', ~hurt' PROVE Remembered' /\ OnDisk'
  <2>1. file # Store!Torn /\ acked \subseteq file /\ \A q \in Procs : step[q] = "down"
    BY <1>1, <1>5, <1>6 DEF StoreInv, OnDisk
  <2>2. Store!Loaded = file
    BY <2>1 DEF Store!Loaded
  <2>3. \A q \in Procs : step'[q] # "down" => q = p /\ step'[q] = "idle"
    BY <1>1, <2>1 DEF StoreInv, StoreTyped
  <2>4. Remembered'
    BY <1>1, <1>3, <2>1, <2>2, <2>3 DEF Remembered, Store!Up
  <2>5. OnDisk'
    BY <1>1, <2>1 DEF OnDisk, Store!Torn
  <2> QED BY <2>4, <2>5
<1> QED BY <1>3, <1>4, <1>5, <1>6 DEF StoreInv

LEMMA StorePublish ==
  ASSUME StoreInv, NEW p \in Procs, NEW e \in Store!Events, Store!Publish(p, e)
  PROVE  StoreInv'
<1>1. /\ step[p] = "idle" /\ step' = [step EXCEPT ![p] = "save"]
      /\ job' = [job EXCEPT ![p] = e] /\ seen' = seen \cup {e}
      /\ mem' = [mem EXCEPT ![p][e] = "text"]
      /\ UNCHANGED <<file, acked, shared, hurt>>
  BY DEF Store!Publish, Store!Goto
<1>2. mem' = [mem EXCEPT ![p] = [mem[p] EXCEPT ![e] = "text"]]
  BY <1>1
<1>3. e \in Nat /\ [mem[p] EXCEPT ![e] = "text"] \in [Store!Events -> Store!Forms]
  BY DEF StoreInv, StoreTyped, Store!Forms, Store!Events
<1>4. mem' \in [Procs -> [Store!Events -> Store!Forms]]
  BY <1>2, <1>3 DEF StoreInv, StoreTyped
<1>5. \A q \in Procs : Store!Known(q)' = IF q = p THEN Store!Known(q) \cup {e} ELSE Store!Known(q)
  <2>1. \A q \in Procs \ {p} : mem'[q] = mem[q]
    BY <1>2 DEF StoreInv, StoreTyped
  <2>2. \A d \in Store!Events : mem'[p][d] = IF d = e THEN "text" ELSE mem[p][d]
    BY <1>2, <1>3 DEF StoreInv, StoreTyped
  <2>3. Store!Known(p)' = Store!Known(p) \cup {e}
    BY <2>2 DEF Store!Known, Store!Events
  <2> QED BY <2>1, <2>3 DEF Store!Known, Store!Events
<1>6. StoreTyped' /\ Published'
  BY <1>1, <1>3, <1>4, <1>5 DEF StoreInv, StoreTyped, Published, Store!Events, Store!Torn
<1>7. \A q \in Procs : Store!Up(q)' <=> Store!Up(q)
  BY <1>1 DEF StoreInv, StoreTyped, Store!Up
<1>8. ~shared' => Lone'
  BY <1>1, <1>7 DEF StoreInv, Lone
<1>9. ASSUME ~shared', ~hurt' PROVE Remembered' /\ OnDisk'
  <2>1. Remembered /\ OnDisk
    BY <1>1, <1>9 DEF StoreInv
  <2>2. \A q \in Procs \ {p} : step'[q] = step[q] /\ job'[q] = job[q]
    BY <1>1 DEF StoreInv, StoreTyped
  <2>3. job'[p] = e
    BY <1>1 DEF StoreInv, StoreTyped
  <2>4. Remembered'
    BY <1>1, <1>5, <1>7, <2>1, <2>2, <2>3 DEF Remembered
  <2>5. OnDisk'
    BY <1>1, <2>1, <2>2 DEF OnDisk, Store!Torn
  <2> QED BY <2>4, <2>5
<1> QED BY <1>6, <1>8, <1>9 DEF StoreInv

(* Steps that change no more of the memory than the form of what is there,  *)
(* move a process that is up to another place, and leave the file.          *)
LEMMA StoreMoves ==
  ASSUME StoreInv, NEW p \in Procs, NEW to \in {"idle", "save", "write"},
         Store!Up(p), step' = [step EXCEPT ![p] = to],
         to \in {"save", "write"} => step[p] \in {"save", "write"},
         step[p] = "write" => to = "write" \/ hurt',
         mem' \in [Procs -> [Store!Events -> Store!Forms]],
         \A q \in Procs : Store!Known(q)' = Store!Known(q),
         UNCHANGED <<file, job, seen, acked, shared>>, hurt => hurt'
  PROVE  StoreInv'
<1>1. StoreTyped' /\ Published'
  BY DEF StoreInv, StoreTyped, Published, Store!Events, Store!Torn
<1>2. \A q \in Procs : Store!Up(q)' <=> Store!Up(q)
  BY DEF StoreInv, StoreTyped, Store!Up
<1>3. ~shared' => Lone'
  BY <1>2 DEF StoreInv, Lone
<1>4. ASSUME ~shared', ~hurt' PROVE Remembered' /\ OnDisk'
  <2>1. Remembered /\ OnDisk /\ (step[p] = "write" => to = "write")
    BY <1>4 DEF StoreInv
  <2>2. step'[p] = to /\ \A q \in Procs \ {p} : step'[q] = step[q]
    BY DEF StoreInv, StoreTyped
  <2>3. Remembered'
    BY <1>2, <2>1, <2>2 DEF Remembered
  <2>4. OnDisk'
    BY <2>1, <2>2 DEF OnDisk, Store!Torn
  <2> QED BY <2>3, <2>4
<1> QED BY <1>1, <1>3, <1>4 DEF StoreInv

LEMMA StoreGet ==
  ASSUME StoreInv, NEW p \in Procs, NEW e \in Store!Events, Store!GetEvent(p, e)
  PROVE  StoreInv'
<1>1. step[p] = "idle" /\ UNCHANGED <<file, step, job, seen, acked, shared, hurt>>
  BY DEF Store!GetEvent
<1>2. step' = [step EXCEPT ![p] = "idle"] /\ Store!Up(p)
  BY <1>1 DEF StoreInv, StoreTyped, Store!Up
<1>3. /\ mem' \in [Procs -> [Store!Events -> Store!Forms]]
      /\ \A q \in Procs : Store!Known(q)' = Store!Known(q)
  <2>1. CASE mem' = mem
    BY <2>1 DEF StoreInv, StoreTyped, Store!Known, Store!Events
  <2>2. CASE mem[p][e] = "text" /\ mem' = [mem EXCEPT ![p][e] = "parsed"]
    <3>1. mem' = [mem EXCEPT ![p] = [mem[p] EXCEPT ![e] = "parsed"]]
      BY <2>2
    <3>2. [mem[p] EXCEPT ![e] = "parsed"] \in [Store!Events -> Store!Forms]
      BY DEF StoreInv, StoreTyped, Store!Forms
    <3>3. \A q \in Procs \ {p} : mem'[q] = mem[q]
      BY <3>1 DEF StoreInv, StoreTyped
    <3>4. \A d \in Store!Events : mem'[p][d] = IF d = e THEN "parsed" ELSE mem[p][d]
      BY <3>1, <3>2 DEF StoreInv, StoreTyped
    <3>5. Store!Known(p)' = Store!Known(p)
      BY <2>2, <3>4 DEF Store!Known, Store!Events
    <3>6. \A q \in Procs \ {p} : Store!Known(q)' = Store!Known(q)
      BY <3>3 DEF Store!Known, Store!Events
    <3>7. mem' \in [Procs -> [Store!Events -> Store!Forms]]
      BY <3>1, <3>2 DEF StoreInv, StoreTyped
    <3> QED BY <3>5, <3>6, <3>7
  <2> QED BY <2>1, <2>2 DEF Store!GetEvent
<1> QED BY <1>1, <1>2, <1>3, StoreMoves

LEMMA StoreList ==
  ASSUME StoreInv, NEW p \in Procs, Store!ListEvents(p)
  PROVE  StoreInv'
<1> DEFINE read == [e \in Store!Events |-> IF e \in Store!Walked(p) THEN "parsed" ELSE mem[p][e]]
<1>1. /\ step[p] = "idle" /\ UNCHANGED <<file, step, job, seen, acked, shared, hurt>>
      /\ mem' = [mem EXCEPT ![p] = read]
  BY DEF Store!ListEvents
<1>2. step' = [step EXCEPT ![p] = "idle"] /\ Store!Up(p)
  BY <1>1 DEF StoreInv, StoreTyped, Store!Up
<1>3. /\ read \in [Store!Events -> Store!Forms]
      /\ \A e \in Store!Events : read[e] # "absent" <=> mem[p][e] # "absent"
  BY DEF StoreInv, StoreTyped, Store!Forms, Store!Walked, Store!Known
<1> HIDE DEF read
<1>4. /\ mem' \in [Procs -> [Store!Events -> Store!Forms]] /\ mem'[p] = read
      /\ \A q \in Procs \ {p} : mem'[q] = mem[q]
  BY <1>1, <1>3 DEF StoreInv, StoreTyped
<1>5. Store!Known(p)' = Store!Known(p)
  BY <1>3, <1>4 DEF Store!Known, Store!Events
<1>6. \A q \in Procs \ {p} : Store!Known(q)' = Store!Known(q)
  BY <1>4 DEF Store!Known, Store!Events
<1> QED BY <1>1, <1>2, <1>4, <1>5, <1>6, StoreMoves

LEMMA StoreClear ==
  ASSUME StoreInv, NEW p \in Procs, Store!ClearEvents(p)
  PROVE  StoreInv'
<1>1. /\ step[p] = "idle" /\ step' = [step EXCEPT ![p] = "save"]
      /\ job' = [job EXCEPT ![p] = 0] /\ mem' = [mem EXCEPT ![p] = Store!Empty]
      /\ acked' = {} /\ UNCHANGED <<file, seen, shared, hurt>>
  BY DEF Store!ClearEvents, Store!Goto
<1>2. Store!Empty \in [Store!Events -> Store!Forms]
  BY DEF Store!Empty, Store!Forms
<1>3. /\ mem' \in [Procs -> [Store!Events -> Store!Forms]]
      /\ \A q \in Procs : mem'[q] = IF q = p THEN Store!Empty ELSE mem[q]
  BY <1>1, <1>2 DEF StoreInv, StoreTyped
<1>4. \A q \in Procs : Store!Known(q)' = IF q = p THEN {} ELSE Store!Known(q)
  BY <1>3 DEF Store!Known, Store!Events, Store!Empty
<1>5. StoreTyped' /\ Published'
  BY <1>1, <1>3, <1>4 DEF StoreInv, StoreTyped, Published, Store!Events, Store!Torn
<1>6. \A q \in Procs : Store!Up(q)' <=> Store!Up(q)
  BY <1>1 DEF StoreInv, StoreTyped, Store!Up
<1>7. ~shared' => Lone'
  BY <1>1, <1>6 DEF StoreInv, Lone
<1>8. ASSUME ~shared', ~hurt' PROVE Remembered' /\ OnDisk'
  <2>1. Remembered /\ OnDisk
    BY <1>1, <1>8 DEF StoreInv
  <2>2. /\ \A q \in Procs \ {p} : step'[q] = step[q] /\ job'[q] = job[q]
        /\ step'[p] = "save" /\ job'[p] = 0
    BY <1>1 DEF StoreInv, StoreTyped
  <2>3. Remembered'
    BY <1>1, <1>4, <1>6, <2>1, <2>2 DEF Remembered
  <2>4. OnDisk'
    BY <1>1, <2>1, <2>2 DEF OnDisk, Store!Torn
  <2> QED BY <2>3, <2>4
<1> QED BY <1>5, <1>7, <1>8 DEF StoreInv

LEMMA StoreTruncate ==
  ASSUME StoreInv, NEW p \in Procs, Store!Truncate(p)
  PROVE  StoreInv'
<1>1. /\ step[p] = "save" /\ step' = [step EXCEPT ![p] = "write"] /\ file' = Store!Torn
      /\ UNCHANGED <<mem, job, seen, acked, shared, hurt>>
  BY DEF Store!Truncate, Store!Goto
<1>2. \A q \in Procs : Store!Known(q)' = Store!Known(q)
  BY <1>1 DEF Store!Known, Store!Events
<1>3. StoreTyped' /\ Published'
  BY <1>1, <1>2 DEF StoreInv, StoreTyped, Published, Store!Events, Store!Torn
<1>4. \A q \in Procs : Store!Up(q)' <=> Store!Up(q)
  BY <1>1 DEF StoreInv, StoreTyped, Store!Up
<1>5. ~shared' => Lone'
  BY <1>1, <1>4 DEF StoreInv, Lone
<1>6. ASSUME ~shared', ~hurt' PROVE Remembered' /\ OnDisk'
  <2>1. Remembered
    BY <1>1, <1>6 DEF StoreInv
  <2>2. step'[p] = "write" /\ \A q \in Procs \ {p} : step'[q] = step[q]
    BY <1>1 DEF StoreInv, StoreTyped
  <2> QED BY <1>1, <1>2, <1>4, <2>1, <2>2 DEF Remembered, OnDisk
<1> QED BY <1>3, <1>5, <1>6 DEF StoreInv

LEMMA StoreWrite ==
  ASSUME StoreInv, NEW p \in Procs, Store!Write(p)
  PROVE  StoreInv'
<1>1. /\ step[p] = "write" /\ step' = [step EXCEPT ![p] = "idle"]
      /\ file' = Store!Known(p) /\ acked' = acked \cup ({job[p]} \ {0})
      /\ UNCHANGED <<mem, job, seen, shared, hurt>>
  BY DEF Store!Write, Store!Goto
<1>2. \A q \in Procs : Store!Known(q)' = Store!Known(q)
  BY <1>1 DEF Store!Known, Store!Events
<1>3. Store!Known(p) \subseteq Store!Events /\ Store!Known(p) # Store!Torn
  BY TornIsNoFile
<1>4. StoreTyped' /\ Published'
  BY <1>1, <1>2, <1>3 DEF StoreInv, StoreTyped, Published, Store!Events, Store!Torn
<1>5. \A q \in Procs : Store!Up(q)' <=> Store!Up(q)
  BY <1>1 DEF StoreInv, StoreTyped, Store!Up
<1>6. ~shared' => Lone'
  BY <1>1, <1>5 DEF StoreInv, Lone
<1>7. ASSUME ~shared', ~hurt' PROVE Remembered' /\ OnDisk'
  <2>1. Remembered /\ Lone /\ Store!Up(p)
    BY <1>1, <1>7 DEF StoreInv, Store!Up
  <2>2. step'[p] = "idle" /\ \A q \in Procs \ {p} : step'[q] = step[q]
    BY <1>1 DEF StoreInv, StoreTyped
  <2>3. acked' \subseteq Store!Known(p)
    BY <1>1, <2>1 DEF Remembered
  <2>4. \A q \in Procs : Store!Up(q)' => q = p
    BY <1>5, <2>1 DEF Lone
  <2> QED BY <1>1, <1>2, <1>3, <2>2, <2>3, <2>4 DEF Remembered, OnDisk, Store!Torn
<1> QED BY <1>4, <1>6, <1>7 DEF StoreInv

LEMMA StoreSaveFails ==
  ASSUME StoreInv, NEW p \in Procs, Store!SaveFails(p)
  PROVE  StoreInv'
<1>1. /\ step[p] \in {"save", "write"} /\ step' = [step EXCEPT ![p] = "idle"]
      /\ hurt' = (hurt \/ step[p] = "write")
      /\ UNCHANGED <<file, mem, job, seen, acked, shared>>
  BY DEF Store!SaveFails, Store!Goto, Store!stored
<1>2. /\ \A q \in Procs : Store!Known(q)' = Store!Known(q)
      /\ mem' \in [Procs -> [Store!Events -> Store!Forms]]
      /\ Store!Up(p)
  BY <1>1 DEF Store!Known, Store!Events, StoreInv, StoreTyped, Store!Up
<1> QED BY <1>1, <1>2, StoreMoves

LEMMA StoreStop ==
  ASSUME StoreInv, NEW p \in Procs, Store!Stop(p)
  PROVE  StoreInv'
<1>1. /\ step' = [step EXCEPT ![p] = "down"] /\ mem' = [mem EXCEPT ![p] = Store!Empty]
      /\ hurt' = (hurt \/ step[p] = "write")
      /\ UNCHANGED <<file, job, seen, acked, shared>>
  BY DEF Store!Stop, Store!Goto
<1>2. Store!Empty \in [Store!Events -> Store!Forms]
  BY DEF Store!Empty, Store!Forms
<1>3. /\ mem' \in [Procs -> [Store!Events -> Store!Forms]]
      /\ \A q \in Procs : mem'[q] = IF q = p THEN Store!Empty ELSE mem[q]
  BY <1>1, <1>2 DEF StoreInv, StoreTyped
<1>4. \A q \in Procs : Store!Known(q)' = IF q = p THEN {} ELSE Store!Known(q)
  BY <1>3 DEF Store!Known, Store!Events, Store!Empty
<1>5. StoreTyped' /\ Published'
  BY <1>1, <1>3, <1>4 DEF StoreInv, StoreTyped, Published, Store!Events, Store!Torn
<1>6. step'[p] = "down" /\ \A q \in Procs \ {p} : step'[q] = step[q]
  BY <1>1 DEF StoreInv, StoreTyped
<1>7. ~shared' => Lone'
  BY <1>1, <1>6 DEF StoreInv, Lone, Store!Up
<1>8. ASSUME ~shared', ~hurt' PROVE Remembered' /\ OnDisk'
  <2>1. Remembered /\ OnDisk /\ step[p] # "write"
    BY <1>1, <1>8 DEF StoreInv
  <2>2. Remembered'
    BY <1>1, <1>4, <1>6, <2>1 DEF Remembered, Store!Up
  <2>3. OnDisk'
    BY <1>1, <1>6, <2>1 DEF OnDisk, Store!Torn
  <2> QED BY <2>2, <2>3
<1> QED BY <1>5, <1>7, <1>8 DEF StoreInv

LEMMA StoreInvStep ==
  ASSUME StoreInv, [ServicesNext]_allVars PROVE StoreInv'
<1>1. CASE UNCHANGED storeVars
  BY <1>1
  DEF storeVars, StoreInv, StoreTyped, Published, Lone, Remembered, OnDisk, Store!Up,
      Store!Known, Store!Events, Store!Forms, Store!Torn
<1>2. CASE Store!Next
  BY <1>2, StoreStart, StoreClear, StoreTruncate, StoreWrite, StoreSaveFails, StoreStop,
     StoreList, StorePublish, StoreGet
  DEF Store!Next
<1> QED BY <1>1, <1>2, OneServiceSteps

(* Whatever processes do to the one file, it holds nothing no subscriber    *)
(* was shown; and processes that take turns, and are not cut off inside a   *)
(* save, lose no event whose publishing returned.                           *)
THEOREM StoreKeepsItsWord == ServicesSpec => []StoreIsFaithful
<1>1. StoreInv => StoreIsFaithful
  BY DEF StoreInv, Published, Remembered, OnDisk, StoreIsFaithful, Store!StoredWasPublished,
         Store!AckedIsStored
<1>2. StoreInv /\ [ServicesNext]_allVars => StoreInv'
  BY StoreInvStep
<1> QED BY <1>1, <1>2, StoreInit, PTL DEF ServicesSpec

-----------------------------------------------------------------------------
(* The paper desk                                                          *)

DeskTrade == [exit : Nat, quantity : Nat, net : Int]
Placed == [status : {"PENDING", "SUBMITTED", "FILLED"}, quantity : Sizes, filled : Nat]
DeskPosition == [entry : Nat, quantity : Nat, price : Nat, opened : BOOLEAN]

QuantitySum(s) == Desk!FoldSeq(LAMBDA t, sum : t.quantity + sum, 0, s)
Quantities(s) == [i \in 1..Len(s) |-> s[i].quantity]

LEMMA QuantitiesType ==
  ASSUME NEW s \in Seq(DeskTrade)
  PROVE  /\ Len(s) \in Nat /\ DOMAIN s = 1..Len(s)
         /\ Quantities(s) \in Weights(Len(s))
         /\ \A i \in 1..Len(s) : Quantities(s)[i] = s[i].quantity
<1>1. Len(s) \in Nat /\ DOMAIN s = 1..Len(s) /\ \A i \in 1..Len(s) : s[i] \in DeskTrade
  BY LenProperties, ElementOfSeq
<1>2. \A i \in 1..Len(s) : s[i].quantity \in Nat
  BY <1>1 DEF DeskTrade
<1> QED BY <1>1, <1>2 DEF Quantities, Weights

LEMMA QuantityIsSum ==
  ASSUME NEW s \in Seq(DeskTrade)
  PROVE  QuantitySum(s) = SumOf(Len(s), Quantities(s))
<1> DEFINE D == 1..Len(s)
           Adds(g) == g = [S \in SUBSET D |->
             IF S = {} THEN 0
             ELSE s[CHOOSE x \in S : TRUE].quantity + g[S \ {CHOOSE x \in S : TRUE}]]
           f == CHOOSE g : Adds(g)
<1>1. /\ Len(s) \in Nat /\ DOMAIN s = D /\ Quantities(s) \in Weights(Len(s))
      /\ \A i \in D : Quantities(s)[i] = s[i].quantity
  BY QuantitiesType
<1>2. ASSUME NEW g PROVE Adds(g) <=> FoldsAny(D, Quantities(s), g)
  <2>1. \A S \in SUBSET D : S # {} =>
          s[CHOOSE x \in S : TRUE].quantity = Quantities(s)[CHOOSE x \in S : TRUE]
    BY <1>1
  <2> QED BY <2>1 DEF FoldsAny, AnyOf
<1>3. \E g : Adds(g)
  <2>1. IsFiniteSet(D)
    BY <1>1, FS_Interval
  <2> HIDE DEF Adds
  <2> QED BY <1>1, <1>2, <2>1, FoldsAnyExists DEF Weights
<1>4. FoldsAny(D, Quantities(s), f)
  <2>1. Adds(f)
    BY <1>3
  <2> HIDE DEF Adds
  <2> QED BY <1>2, <2>1
<1>5. QuantitySum(s) = f[D]
  BY DOMAIN s = D, <1>1
  DEF QuantitySum, Desk!FoldSeq, Desk!FoldFunction, Desk!FoldFunctionOnSet, Desk!MapThenFoldSet
<1> HIDE DEF f
<1> QED BY <1>1, <1>4, <1>5, FoldsAnyIsSum

LEMMA QuantityOfNone == QuantitySum(<<>>) = 0
<1>1. <<>> \in Seq(DeskTrade) /\ Len(<<>>) = 0
  BY EmptySeq
<1> QED BY <1>1, QuantityIsSum, QuantitiesType, SumOfNone

LEMMA QuantityAppend ==
  ASSUME NEW s \in Seq(DeskTrade), NEW t \in DeskTrade
  PROVE  /\ QuantitySum(Append(s, t)) = QuantitySum(s) + t.quantity
         /\ QuantitySum(s) \in Int
<1> DEFINE n == Len(s)
           v == Quantities(Append(s, t))
<1>1. /\ Append(s, t) \in Seq(DeskTrade) /\ Len(Append(s, t)) = n + 1 /\ n \in Nat
      /\ Append(s, t)[n + 1] = t /\ \A k \in 1..n : Append(s, t)[k] = s[k]
  BY AppendProperties
<1>2. Quantities(s) \in Weights(n) /\ v \in Weights(n + 1)
  BY <1>1, QuantitiesType
<1>3. v[n + 1] = t.quantity /\ \A k \in 1..n : Quantities(s)[k] = v[k]
  BY <1>1 DEF Quantities
<1> HIDE DEF v
<1>4. SumOf(n + 1, v) = SumOf(n, Quantities(s)) + v[n + 1]
  BY <1>1, <1>2, <1>3, SumOfAppend
<1>5. SumOf(n, Quantities(s)) \in Int
  BY <1>1, <1>2, SumOfInt
<1> QED BY <1>1, <1>3, <1>4, <1>5, QuantityIsSum DEF v

DeskTyped ==
  /\ report \in [Reports -> Desk!ReportSet]
  /\ executed \subseteq Reports /\ positions \subseteq Reports
  /\ order \in [Reports -> {Desk!NoOrder} \cup Placed]
  /\ position \in [Reports -> DeskPosition]
  /\ trades \in [Reports -> Seq(DeskTrade)]
  /\ made \in [Reports -> Nat] /\ resets \in Nat /\ silent \in BOOLEAN

(* An order is made of a report when it is executed, a position when the    *)
(* order is filled, and trades only of a position.                          *)
Lived(r) ==
  /\ made[r] = IF r \in executed THEN 1 ELSE 0
  /\ order[r].status = "none" <=> r \notin executed
  /\ order[r].status = "FILLED" <=> position[r].opened
  /\ ~position[r].opened => trades[r] = <<>>
  /\ order[r].status \in {"PENDING", "SUBMITTED"} => order[r].filled = 0
(* The account counts what can be closed, or was of size zero, and until a  *)
(* reset all of it.                                                         *)
Held(r) ==
  /\ r \in positions => position[r].opened /\ (order[r].filled > 0 => position[r].quantity > 0)
  /\ position[r].opened /\ position[r].quantity > 0 /\ resets = 0 => r \in positions
(* What was booked is gone, and was not booked before.                      *)
Once(r) == Len(trades[r]) <= 1 /\ (trades[r] # <<>> => position[r].quantity = 0)
Conserved(r) ==
  resets = 0 /\ position[r].opened =>
    QuantitySum(trades[r]) + position[r].quantity = order[r].filled
(* What was announced has happened, and the other way round if no save      *)
(* failed.                                                                  *)
ToldSo(r) ==
  /\ <<"PAPER_TRADE_CREATED", r>> \in told => r \in executed
  /\ <<"PAPER_ORDER_FILLED", r>> \in told => position[r].opened
  /\ <<"PAPER_POSITION_CLOSED", r>> \in told => position[r].opened /\ position[r].quantity = 0
  /\ ~silent =>
       /\ r \in executed => <<"PAPER_TRADE_CREATED", r>> \in told
       /\ position[r].opened => <<"PAPER_POSITION_OPENED", r>> \in told
       /\ trades[r] # <<>> => <<"PAPER_POSITION_CLOSED", r>> \in told
DeskFacts(r) == Lived(r) /\ Held(r) /\ Once(r) /\ Conserved(r) /\ ToldSo(r)
DeskInv == DeskTyped /\ \A r \in Reports : DeskFacts(r)

LEMMA DeskInit ==
  ASSUME ServicesInit PROVE DeskInv
<1>1. Desk!Init
  BY DEF ServicesInit
<1>2. Desk!NoPosition \in DeskPosition /\ ~Desk!NoPosition.opened /\ Desk!NoOrder.status = "none"
  BY DEF Desk!NoPosition, DeskPosition, Desk!NoOrder
<1>3. \A r \in Reports : order[r] = Desk!NoOrder /\ position[r] = Desk!NoPosition /\ trades[r] = <<>>
  BY <1>1 DEF Desk!Init
<1>4. <<>> \in Seq(DeskTrade)
  BY EmptySeq
<1>5. DeskTyped
  BY <1>1, <1>2, <1>4 DEF Desk!Init, DeskTyped
<1>6. ASSUME NEW r \in Reports PROVE DeskFacts(r)
  <2>1. Lived(r)
    BY <1>1, <1>2, <1>3 DEF Desk!Init, Lived
  <2>2. Held(r) /\ Conserved(r) /\ ToldSo(r)
    BY <1>1, <1>2, <1>3 DEF Desk!Init, Held, Conserved, ToldSo
  <2>3. Once(r)
    BY <1>3, EmptySeq DEF Once
  <2> QED BY <2>1, <2>2, <2>3 DEF DeskFacts
<1> QED BY <1>5, <1>6 DEF DeskInv

LEMMA TellOne ==
  ASSUME NEW e, Desk!Tell(<<e>>), silent \in BOOLEAN
  PROVE  /\ told \subseteq told' /\ told' \subseteq told \cup {e}
         /\ silent' \in BOOLEAN
         /\ silent => silent'
         /\ ~silent' => e \in told'
<1>1. PICK n \in 0 .. 1 : /\ told' = told \cup {<<e>>[i] : i \in 1 .. n}
                          /\ silent' = (silent \/ n < 1)
  BY DEF Desk!Tell
<1>2. silent' \in BOOLEAN /\ (silent => silent') /\ (~silent' => ~(n < 1))
  BY <1>1, Zenon
<1>3. CASE n = 0
  BY <1>1, <1>2, <1>3
<1>4. CASE n = 1
  BY <1>1, <1>2, <1>4
<1> QED BY <1>3, <1>4

LEMMA TellTwo ==
  ASSUME NEW d, NEW e, Desk!Tell(<<d, e>>), silent \in BOOLEAN
  PROVE  /\ told \subseteq told' /\ told' \subseteq told \cup {d, e}
         /\ silent' \in BOOLEAN
         /\ silent => silent'
         /\ ~silent' => d \in told' /\ e \in told'
<1>1. PICK n \in 0 .. 2 : /\ told' = told \cup {<<d, e>>[i] : i \in 1 .. n}
                          /\ silent' = (silent \/ n < 2)
  BY DEF Desk!Tell
<1>2. silent' \in BOOLEAN /\ (silent => silent') /\ (~silent' => ~(n < 2))
  BY <1>1, Zenon
<1>3. \A i \in 1 .. n : <<d, e>>[i] \in {d, e}
  OBVIOUS
<1>4. told \subseteq told' /\ told' \subseteq told \cup {d, e}
  BY <1>1, <1>3
<1>5. ASSUME ~silent' PROVE d \in told' /\ e \in told'
  <2>1. 1 \in 1 .. n /\ 2 \in 1 .. n
    BY <1>2, <1>5
  <2>2. <<d, e>>[1] = d /\ <<d, e>>[2] = e
    OBVIOUS
  <2> QED BY <1>1, <2>1, <2>2
<1> QED BY <1>2, <1>4, <1>5

LEMMA SumPrimed ==
  ASSUME NEW r, NEW s, trades'[r] = s PROVE QuantitySum(trades[r])' = QuantitySum(s)
  BY DEF QuantitySum, Desk!FoldSeq, Desk!FoldFunction, Desk!FoldFunctionOnSet, Desk!MapThenFoldSet

(* A report that a step does not touch keeps its facts.                     *)
LEMMA DeskElse ==
  ASSUME NEW r, DeskFacts(r),
         order'[r] = order[r], position'[r] = position[r], trades'[r] = trades[r],
         made'[r] = made[r], resets' = resets,
         r \in executed' <=> r \in executed, r \in positions' <=> r \in positions,
         \A e : <<e, r>> \in told' <=> <<e, r>> \in told, silent => silent'
  PROVE  DeskFacts(r)'
<1>1. Lived(r)'
  BY DEF DeskFacts, Lived
<1>2. Held(r)' /\ Once(r)'
  BY DEF DeskFacts, Held, Once
<1>3. Conserved(r)'
  <2>1. QuantitySum(trades[r])' = QuantitySum(trades[r])
    BY SumPrimed
  <2> QED BY <2>1 DEF DeskFacts, Conserved
<1>4. ToldSo(r)'
  BY DEF DeskFacts, ToldSo
<1> QED BY <1>1, <1>2, <1>3, <1>4 DEF DeskFacts

(* A step on one report: the others keep theirs.                            *)
LEMMA DeskActs ==
  ASSUME DeskInv, NEW r \in Reports, DeskTyped', DeskFacts(r)', NEW d, NEW e,
         told \subseteq told', told' \subseteq told \cup {<<d, r>>, <<e, r>>},
         silent => silent', resets' = resets,
         executed' \in {executed, executed \cup {r}},
         positions' \in {positions, positions \cup {r}, positions \ {r}},
         \A q \in Reports \ {r} : /\ order'[q] = order[q] /\ position'[q] = position[q]
                                  /\ trades'[q] = trades[q] /\ made'[q] = made[q]
  PROVE  DeskInv'
<1>1. ASSUME NEW q \in Reports \ {r} PROVE DeskFacts(q)'
  <2>1. DeskFacts(q)
    BY DEF DeskInv
  <2>2. /\ q \in executed' <=> q \in executed
        /\ q \in positions' <=> q \in positions
    OBVIOUS
  <2>3. \A x : <<x, q>> \in told' <=> <<x, q>> \in told
    <3>1. \A x : <<x, q>> # <<d, r>> /\ <<x, q>> # <<e, r>>
      OBVIOUS
    <3> QED BY <3>1
  <2> QED BY <2>1, <2>2, <2>3, DeskElse
<1> QED BY <1>1 DEF DeskInv

LEMMA DeskEvaluate ==
  ASSUME DeskInv, NEW r \in Reports, Desk!Evaluate(r) PROVE DeskInv'
<1>1. /\ r \notin executed /\ UNCHANGED <<report, position, positions, trades, realized, resets>>
      /\ Desk!Reject(r) \/ Desk!Accept(r)
  BY DEF Desk!Evaluate
<1>2. DeskTyped /\ DeskFacts(r) /\ silent \in BOOLEAN
  BY DEF DeskInv, DeskTyped
<1>3. ASSUME UNCHANGED <<executed, order, made>>, silent' \in BOOLEAN, silent => silent',
             told \subseteq told', told' \subseteq told \cup {<<"SIGNAL_REJECTED", r>>}
      PROVE  DeskInv'
  <2>1. DeskTyped'
    BY <1>1, <1>2, <1>3 DEF DeskTyped
  <2>2. /\ <<"PAPER_TRADE_CREATED", r>> \in told' <=> <<"PAPER_TRADE_CREATED", r>> \in told
        /\ <<"PAPER_ORDER_FILLED", r>> \in told' <=> <<"PAPER_ORDER_FILLED", r>> \in told
        /\ <<"PAPER_POSITION_OPENED", r>> \in told' <=> <<"PAPER_POSITION_OPENED", r>> \in told
        /\ <<"PAPER_POSITION_CLOSED", r>> \in told' <=> <<"PAPER_POSITION_CLOSED", r>> \in told
    BY <1>3
  <2>3. ToldSo(r)'
    BY <1>1, <1>2, <1>3, <2>2 DEF DeskFacts, ToldSo
  <2>4. Conserved(r)'
    <3>1. QuantitySum(trades[r])' = QuantitySum(trades[r])
      BY <1>1, SumPrimed
    <3> QED BY <1>1, <1>2, <1>3, <3>1 DEF DeskFacts, Conserved
  <2>5. Lived(r)' /\ Held(r)' /\ Once(r)'
    BY <1>1, <1>2, <1>3 DEF DeskFacts, Lived, Held, Once
  <2>6. DeskFacts(r)'
    BY <2>3, <2>4, <2>5 DEF DeskFacts
  <2>7. told' \subseteq told \cup {<<"SIGNAL_REJECTED", r>>, <<"SIGNAL_REJECTED", r>>}
    BY <1>3
  <2> QED BY <1>1, <1>3, <2>1, <2>6, <2>7, DeskActs
<1>4. CASE Desk!Reject(r)
  <2>1. UNCHANGED <<executed, order, made>>
    BY <1>4 DEF Desk!Reject
  <2>2. /\ told \subseteq told' /\ told' \subseteq told \cup {<<"SIGNAL_REJECTED", r>>}
        /\ silent' \in BOOLEAN
        /\ silent => silent'
    <3>1. Desk!Tell(<< <<"SIGNAL_REJECTED", r>> >>)
      BY <1>4 DEF Desk!Reject
    <3> QED BY <1>2, <3>1, TellOne
  <2> QED BY <1>3, <2>1, <2>2
<1>5. CASE Desk!Accept(r) /\ ~report[r].entry
  <2>1. UNCHANGED <<executed, order, made, told, silent>>
    BY <1>5 DEF Desk!Accept, Desk!Quiet
  <2> QED BY <1>2, <1>3, <2>1
<1>6. CASE Desk!Accept(r) /\ report[r].entry
  <2> DEFINE new == [status |-> "PENDING", quantity |-> report[r].size, filled |-> 0]
  <2>1. /\ order' = [order EXCEPT ![r] = new] /\ executed' = executed \cup {r}
        /\ made' = [made EXCEPT ![r] = @ + 1]
    BY <1>6 DEF Desk!Accept
  <2>2. new \in Placed /\ new.status = "PENDING" /\ new.filled = 0
    <3>1. report[r].size \in Sizes
      BY <1>2 DEF DeskTyped, Desk!ReportSet
    <3> QED BY <3>1 DEF Placed
  <2> HIDE DEF new
  <2>3. /\ told \subseteq told' /\ told' \subseteq told \cup {<<"PAPER_TRADE_CREATED", r>>}
        /\ silent' \in BOOLEAN
        /\ silent => silent'
        /\ ~silent' => <<"PAPER_TRADE_CREATED", r>> \in told'
    <3>1. Desk!Tell(<< <<"PAPER_TRADE_CREATED", r>> >>)
      BY <1>6 DEF Desk!Accept
    <3> QED BY <1>2, <3>1, TellOne
  <2>4. made[r] = 0 /\ order[r].status = "none" /\ ~position[r].opened
    BY <1>1, <1>2 DEF DeskFacts, Lived
  <2>5. order'[r] = new /\ made'[r] = 1 /\ r \in executed'
    BY <1>2, <2>1, <2>4 DEF DeskTyped
  <2>6. DeskTyped'
    <3>1. made' \in [Reports -> Nat]
      BY <1>2, <2>1 DEF DeskTyped
    <3>2. order' \in [Reports -> {Desk!NoOrder} \cup Placed]
      BY <1>2, <2>1, <2>2 DEF DeskTyped
    <3> QED BY <1>1, <1>2, <2>1, <2>3, <3>1, <3>2 DEF DeskTyped
  <2>7. Lived(r)'
    BY <1>1, <1>2, <2>2, <2>4, <2>5 DEF DeskFacts, Lived
  <2>8. Held(r)' /\ Once(r)' /\ Conserved(r)'
    BY <1>1, <1>2, <2>4 DEF DeskFacts, Held, Once, Conserved
  <2>9. ToldSo(r)'
    BY <1>1, <1>2, <2>3, <2>4, <2>5 DEF DeskFacts, ToldSo, Lived
  <2>10. DeskFacts(r)'
    BY <2>7, <2>8, <2>9 DEF DeskFacts
  <2>11. \A q \in Reports \ {r} : order'[q] = order[q] /\ made'[q] = made[q]
    BY <1>2, <2>1 DEF DeskTyped
  <2>12. told' \subseteq told \cup {<<"PAPER_TRADE_CREATED", r>>, <<"PAPER_TRADE_CREATED", r>>}
    BY <2>3
  <2>13. /\ resets' = resets /\ executed' \in {executed, executed \cup {r}}
         /\ positions' \in {positions, positions \cup {r}, positions \ {r}}
         /\ \A q \in Reports \ {r} : position'[q] = position[q] /\ trades'[q] = trades[q]
    BY <1>1, <2>1
  <2> QED BY <2>3, <2>6, <2>10, <2>11, <2>12, <2>13, DeskActs
<1> QED BY <1>1, <1>4, <1>5, <1>6

LEMMA DeskSubmit ==
  ASSUME DeskInv, NEW r \in Reports, Desk!Submit(r) PROVE DeskInv'
<1>1. /\ order[r].status = "PENDING" /\ order' = [order EXCEPT ![r].status = "SUBMITTED"]
      /\ UNCHANGED <<report, executed, position, orders, positions, trades, realized, told,
                     silent, made, resets>>
  BY DEF Desk!Submit, Desk!account
<1>2. DeskTyped /\ DeskFacts(r)
  BY DEF DeskInv
<1> DEFINE old == order[r]
           new == [old EXCEPT !.status = "SUBMITTED"]
<1>3. old \in Placed
  BY <1>1, <1>2 DEF DeskTyped, Desk!NoOrder
<1>4. new \in Placed /\ new.status = "SUBMITTED" /\ new.filled = old.filled
  <2> HIDE DEF old
  <2> QED BY <1>3 DEF Placed
<1>5. order' = [order EXCEPT ![r] = new]
  BY <1>1
<1> HIDE DEF new
<1>6. order'[r] = new /\ \A q \in Reports \ {r} : order'[q] = order[q]
  BY <1>2, <1>5 DEF DeskTyped
<1>7. DeskTyped'
  BY <1>1, <1>2, <1>4, <1>5 DEF DeskTyped
<1>8. ~position[r].opened /\ r \in executed
  BY <1>1, <1>2 DEF DeskFacts, Lived
<1>9. Lived(r)'
  BY <1>1, <1>2, <1>4, <1>6, <1>8 DEF DeskFacts, Lived
<1>10. Held(r)' /\ Once(r)' /\ Conserved(r)' /\ ToldSo(r)'
  BY <1>1, <1>2, <1>8 DEF DeskFacts, Held, Once, Conserved, ToldSo
<1>11. DeskFacts(r)'
  BY <1>9, <1>10 DEF DeskFacts
<1>12. told' \subseteq told \cup {<<"PAPER_TRADE_CREATED", r>>, <<"PAPER_TRADE_CREATED", r>>}
  BY <1>1
<1> QED BY <1>1, <1>6, <1>7, <1>11, <1>12, DeskActs

LEMMA DeskFill ==
  ASSUME DeskInv, Desk!Bounds, NEW r \in Reports, NEW p \in Prices \ {0},
         NEW q \in Sizes \cup {0}, Desk!FillOrder(r, p, q)
  PROVE  DeskInv'
<1> DEFINE old == order[r]
           qty == Desk!FillQuantity(r, q)
           new == [old EXCEPT !.status = "FILLED", !.filled = @ + qty]
           pos == [entry |-> p, quantity |-> qty, price |-> p, opened |-> TRUE]
<1>1. /\ old.status = "SUBMITTED"
      /\ order' = [order EXCEPT ![r].status = "FILLED", ![r].filled = @ + qty]
      /\ position' = [position EXCEPT ![r] = pos]
      /\ positions' = positions \cup {r}
      /\ UNCHANGED <<report, executed, orders, trades, realized, made, resets>>
  BY DEF Desk!FillOrder
<1>2. DeskTyped /\ DeskFacts(r) /\ silent \in BOOLEAN
  BY DEF DeskInv, DeskTyped
<1>3. old \in Placed
  BY <1>1, <1>2 DEF DeskTyped, Desk!NoOrder
<1>4. qty \in Nat
  <2>1. old.quantity \in Sizes /\ Sizes \subseteq Nat
    BY <1>3 DEF Placed, Desk!Bounds
  <2> QED BY <2>1 DEF Desk!FillQuantity
<1>5. old.filled = 0 /\ ~position[r].opened /\ r \in executed /\ trades[r] = <<>>
  BY <1>1, <1>2 DEF DeskFacts, Lived
<1> HIDE DEF qty
<1>6. new \in Placed /\ new.status = "FILLED" /\ new.filled = qty
  <2> HIDE DEF old
  <2>1. old.filled + qty = qty
    BY <1>4, <1>5
  <2>2. new = [old EXCEPT !.status = "FILLED", !.filled = qty]
    BY <2>1
  <2> QED BY <1>3, <1>4, <2>2 DEF Placed
<1>7. order' = [order EXCEPT ![r] = new]
  BY <1>1
<1>8. pos \in DeskPosition /\ pos.opened /\ pos.quantity = qty
  <2>1. p \in Nat
    BY DEF Desk!Bounds
  <2> QED BY <1>4, <2>1 DEF DeskPosition
<1> HIDE DEF new, pos
<1>9. /\ told \subseteq told'
      /\ told' \subseteq told \cup {<<"PAPER_ORDER_FILLED", r>>, <<"PAPER_POSITION_OPENED", r>>}
      /\ silent' \in BOOLEAN
      /\ silent => silent'
      /\ ~silent' => <<"PAPER_POSITION_OPENED", r>> \in told'
  <2>1. Desk!Tell(<< <<"PAPER_ORDER_FILLED", r>>, <<"PAPER_POSITION_OPENED", r>> >>)
    BY DEF Desk!FillOrder
  <2> QED BY <1>2, <2>1, TellTwo
<1>10. order'[r] = new /\ position'[r] = pos /\ r \in positions'
  BY <1>1, <1>2, <1>7 DEF DeskTyped
<1>11. DeskTyped'
  <2>1. order' \in [Reports -> {Desk!NoOrder} \cup Placed]
    BY <1>2, <1>6, <1>7 DEF DeskTyped
  <2>2. position' \in [Reports -> DeskPosition]
    BY <1>1, <1>2, <1>8 DEF DeskTyped
  <2> QED BY <1>1, <1>2, <1>9, <2>1, <2>2 DEF DeskTyped
<1>12. Lived(r)'
  BY <1>1, <1>2, <1>5, <1>6, <1>8, <1>10 DEF DeskFacts, Lived
<1>13. Held(r)' /\ Once(r)'
  BY <1>1, <1>4, <1>5, <1>6, <1>8, <1>10, EmptySeq DEF Held, Once
<1>14. Conserved(r)'
  <2>1. QuantitySum(trades[r])' = 0
    BY <1>1, <1>5, SumPrimed, QuantityOfNone
  <2> QED BY <1>4, <1>6, <1>8, <1>10, <2>1 DEF Conserved
<1>15. ToldSo(r)'
  BY <1>1, <1>2, <1>5, <1>8, <1>9, <1>10 DEF DeskFacts, ToldSo
<1>16. DeskFacts(r)'
  BY <1>12, <1>13, <1>14, <1>15 DEF DeskFacts
<1>17. \A s \in Reports \ {r} : /\ order'[s] = order[s] /\ position'[s] = position[s]
                                /\ trades'[s] = trades[s] /\ made'[s] = made[s]
  BY <1>1, <1>2, <1>7 DEF DeskTyped
<1>18. /\ resets' = resets /\ executed' \in {executed, executed \cup {r}}
       /\ positions' \in {positions, positions \cup {r}, positions \ {r}}
  BY <1>1
<1> QED BY <1>9, <1>11, <1>16, <1>17, <1>18, DeskActs

(* A step that does no more than price a position.                          *)
LEMMA DeskPriced ==
  ASSUME DeskInv, Desk!Bounds, NEW r \in Reports, NEW p \in Prices,
         position' = [position EXCEPT ![r].price = p],
         UNCHANGED <<report, executed, order, orders, positions, trades, realized, told,
                     silent, made, resets>>
  PROVE  DeskInv'
<1> DEFINE old == position[r]
           pos == [old EXCEPT !.price = p]
<1>1. /\ position' = [position EXCEPT ![r].price = p]
      /\ UNCHANGED <<report, executed, order, orders, positions, trades, realized, told,
                     silent, made, resets>>
  OBVIOUS
<1>2. DeskTyped /\ DeskFacts(r)
  BY DEF DeskInv
<1>3. old \in DeskPosition /\ p \in Nat
  BY <1>2 DEF DeskTyped, Desk!Bounds
<1>4. pos \in DeskPosition /\ pos.opened = old.opened /\ pos.quantity = old.quantity
  <2> HIDE DEF old
  <2> QED BY <1>3 DEF DeskPosition
<1>5. position' = [position EXCEPT ![r] = pos]
  BY <1>1
<1> HIDE DEF pos
<1>6. position'[r] = pos /\ \A q \in Reports \ {r} : position'[q] = position[q]
  BY <1>2, <1>5 DEF DeskTyped
<1>7. DeskTyped'
  BY <1>1, <1>2, <1>4, <1>5 DEF DeskTyped
<1>8. Lived(r)' /\ Held(r)' /\ Once(r)' /\ ToldSo(r)'
  BY <1>1, <1>2, <1>4, <1>6 DEF DeskFacts, Lived, Held, Once, ToldSo
<1>9. Conserved(r)'
  <2>1. QuantitySum(trades[r])' = QuantitySum(trades[r])
    BY <1>1, SumPrimed
  <2> QED BY <1>1, <1>2, <1>4, <1>6, <2>1 DEF DeskFacts, Conserved
<1>10. DeskFacts(r)'
  BY <1>8, <1>9 DEF DeskFacts
<1>11. /\ told \subseteq told'
       /\ told' \subseteq told \cup {<<"PAPER_ORDER_FILLED", r>>, <<"PAPER_ORDER_FILLED", r>>}
       /\ silent => silent'
       /\ resets' = resets /\ executed' \in {executed, executed \cup {r}}
       /\ positions' \in {positions, positions \cup {r}, positions \ {r}}
       /\ \A q \in Reports \ {r} :
            order'[q] = order[q] /\ trades'[q] = trades[q] /\ made'[q] = made[q]
  BY <1>1
<1> QED BY <1>6, <1>7, <1>10, <1>11, DeskActs

LEMMA DeskUpdate ==
  ASSUME DeskInv, Desk!Bounds, NEW r \in Reports, NEW p \in Prices, Desk!UpdatePrice(r, p)
  PROVE  DeskInv'
<1>1. position' = [position EXCEPT ![r].price = p]
      /\ UNCHANGED <<report, executed, order, orders, positions, trades, realized, told,
                     silent, made, resets>>
  BY DEF Desk!UpdatePrice, Desk!account
<1> QED BY <1>1, DeskPriced

LEMMA ProductInt == ASSUME NEW a \in Int, NEW b \in Int PROVE a * b \in Int
  OBVIOUS

LEMMA NetIsInt ==
  ASSUME DeskInv, Desk!Bounds, NEW r \in Reports, NEW p \in Prices
  PROVE  Desk!Net(Desk!Gross(r, p)) \in Int
<1>1. /\ position[r].entry \in Int /\ position[r].quantity \in Int /\ p \in Int
  BY DEF DeskInv, DeskTyped, DeskPosition, Desk!Bounds
<1>2. Desk!Signed(r, p) \in Int
  BY <1>1 DEF Desk!Signed
<1>3. Desk!Gross(r, p) \in Int
  BY <1>1, <1>2, ProductInt DEF Desk!Gross
<1> QED BY <1>3 DEF Desk!Net, Desk!Magnitude

(* A position that is closed has something left, so it was not booked.      *)
LEMMA DeskBook ==
  ASSUME DeskInv, Desk!Bounds, NEW r \in Reports, NEW p \in Prices, Desk!Book(r, p),
         position[r].opened, position[r].quantity > 0
  PROVE  DeskInv'
<1> DEFINE old == position[r]
           pos == [old EXCEPT !.price = p, !.quantity = 0]
           trade == [exit |-> p, quantity |-> old.quantity, net |-> Desk!Net(Desk!Gross(r, p))]
<1>1. /\ old.opened
      /\ position' = [position EXCEPT ![r].price = p, ![r].quantity = 0]
      /\ trades' = [trades EXCEPT ![r] = Append(@, trade)]
      /\ positions' = positions \ {r}
      /\ UNCHANGED <<report, executed, order, orders, made, resets>>
  BY DEF Desk!Book
<1>2. DeskTyped /\ DeskFacts(r) /\ silent \in BOOLEAN
  BY DEF DeskInv, DeskTyped
<1>3. old \in DeskPosition /\ trades[r] \in Seq(DeskTrade) /\ p \in Nat
  BY <1>2 DEF DeskTyped, Desk!Bounds
<1>4. trade \in DeskTrade /\ trade.quantity = old.quantity
  BY <1>3, NetIsInt DEF DeskTrade, DeskPosition
<1>5. pos \in DeskPosition /\ pos.opened /\ pos.quantity = 0
  <2> HIDE DEF old
  <2> QED BY <1>1, <1>3 DEF DeskPosition
<1>6. position' = [position EXCEPT ![r] = pos]
  BY <1>1
<1> HIDE DEF pos, trade
<1>7. /\ position'[r] = pos /\ trades'[r] = Append(trades[r], trade)
      /\ r \notin positions'
      /\ \A q \in Reports \ {r} : position'[q] = position[q] /\ trades'[q] = trades[q]
  BY <1>1, <1>2, <1>6 DEF DeskTyped
<1>8. /\ told \subseteq told'
      /\ told' \subseteq told \cup {<<"PAPER_POSITION_CLOSED", r>>}
      /\ silent' \in BOOLEAN
      /\ silent => silent'
      /\ ~silent' => <<"PAPER_POSITION_CLOSED", r>> \in told'
  <2>1. Desk!Tell(<< <<"PAPER_POSITION_CLOSED", r>> >>)
    BY DEF Desk!Book
  <2> QED BY <1>2, <2>1, TellOne
<1>9. DeskTyped'
  <2>1. position' \in [Reports -> DeskPosition]
    BY <1>2, <1>5, <1>6 DEF DeskTyped
  <2>2. Append(trades[r], trade) \in Seq(DeskTrade)
    BY <1>3, <1>4, AppendProperties
  <2>3. trades' \in [Reports -> Seq(DeskTrade)]
    BY <1>1, <1>2, <2>2 DEF DeskTyped
  <2> QED BY <1>1, <1>2, <1>8, <2>1, <2>3 DEF DeskTyped
<1>10. Lived(r)' /\ Held(r)' /\ Once(r)'
  <2>1. trades[r] = <<>>
    BY <1>2 DEF DeskFacts, Once
  <2>2. Len(trades'[r]) = 1
    BY <1>3, <1>4, <1>7, <2>1, AppendProperties, EmptySeq
  <2>3. Once(r)'
    BY <1>5, <1>7, <2>2 DEF Once
  <2> QED BY <1>1, <1>2, <1>5, <1>7, <2>3 DEF DeskFacts, Lived, Held
<1>11. Conserved(r)'
  <2>1. QuantitySum(trades[r])' = QuantitySum(Append(trades[r], trade))
    BY <1>7, SumPrimed
  <2>2. /\ QuantitySum(Append(trades[r], trade)) = QuantitySum(trades[r]) + old.quantity
        /\ QuantitySum(trades[r]) \in Int
    BY <1>3, <1>4, QuantityAppend
  <2>3. old.quantity \in Int
    BY <1>3 DEF DeskPosition
  <2>4. ASSUME resets' = 0 PROVE QuantitySum(trades[r]) + old.quantity = order'[r].filled
    BY <1>1, <1>2, <2>4 DEF DeskFacts, Conserved
  <2>5. ASSUME resets' = 0
        PROVE  QuantitySum(trades[r])' + position'[r].quantity = order'[r].filled
    BY <1>5, <1>7, <2>1, <2>2, <2>3, <2>4, <2>5
  <2> QED BY <2>5 DEF Conserved
<1>12. ToldSo(r)'
  BY <1>1, <1>2, <1>5, <1>7, <1>8 DEF DeskFacts, ToldSo
<1>13. DeskFacts(r)'
  BY <1>10, <1>11, <1>12 DEF DeskFacts
<1>14. /\ told' \subseteq told \cup {<<"PAPER_POSITION_CLOSED", r>>, <<"PAPER_POSITION_CLOSED", r>>}
       /\ resets' = resets /\ executed' \in {executed, executed \cup {r}}
       /\ positions' \in {positions, positions \cup {r}, positions \ {r}}
       /\ \A q \in Reports \ {r} : order'[q] = order[q] /\ made'[q] = made[q]
  BY <1>1, <1>8
<1> QED BY <1>7, <1>8, <1>9, <1>13, <1>14, DeskActs

(* What has nothing left only keeps the price of the attempt.               *)
LEMMA DeskRaises ==
  ASSUME DeskInv, Desk!Bounds, NEW r \in Reports, NEW p \in Prices, Desk!DivideByZero(r, p)
  PROVE  DeskInv'
<1>1. position' = [position EXCEPT ![r].price = p]
      /\ UNCHANGED <<report, executed, order, orders, positions, trades, realized, told,
                     silent, made, resets>>
  BY DEF Desk!DivideByZero, Desk!account
<1> QED BY <1>1, DeskPriced

LEMMA DeskClose ==
  ASSUME DeskInv, Desk!Bounds, NEW r \in Reports, NEW p \in Prices, Desk!ClosePosition(r, p)
  PROVE  DeskInv'
BY DeskBook, DeskRaises DEF Desk!ClosePosition

LEMMA DeskReset ==
  ASSUME DeskInv, Desk!Reset PROVE DeskInv'
<1>1. /\ resets' = resets + 1 /\ positions' = {}
      /\ trades' = [r \in Reports |-> <<>>]
      /\ UNCHANGED <<report, executed, order, position, told, silent, made>>
  BY DEF Desk!Reset
<1>2. DeskTyped
  BY DEF DeskInv
<1>3. resets' \in Nat /\ resets' # 0
  BY <1>1, <1>2 DEF DeskTyped
<1>4. DeskTyped'
  <2>1. <<>> \in Seq(DeskTrade)
    BY EmptySeq
  <2>2. trades' \in [Reports -> Seq(DeskTrade)]
    BY <1>1, <2>1
  <2> QED BY <1>1, <1>2, <1>3, <2>2 DEF DeskTyped
<1>5. ASSUME NEW r \in Reports PROVE DeskFacts(r)'
  <2>1. DeskFacts(r) /\ trades'[r] = <<>>
    BY <1>1 DEF DeskInv
  <2>2. Lived(r)' /\ Held(r)' /\ Once(r)' /\ Conserved(r)' /\ ToldSo(r)'
    BY <1>1, <1>3, <2>1, EmptySeq DEF DeskFacts, Lived, Held, Once, Conserved, ToldSo
  <2> QED BY <2>2 DEF DeskFacts
<1> QED BY <1>4, <1>5 DEF DeskInv

LEMMA DeskStays ==
  ASSUME DeskInv, UNCHANGED deskVars PROVE DeskInv'
<1>1. UNCHANGED <<report, executed, order, position, positions, trades, told, silent, made, resets>>
  BY DEF deskVars
<1>2. DeskTyped'
  BY <1>1 DEF DeskInv, DeskTyped
<1>3. ASSUME NEW r \in Reports PROVE DeskFacts(r)'
  BY <1>1, DeskElse DEF DeskInv
<1> QED BY <1>2, <1>3 DEF DeskInv

LEMMA DeskInvStep ==
  ASSUME DeskInv, [ServicesNext]_allVars PROVE DeskInv'
<1>1. Desk!Bounds
  BY MCServicesAssumption
<1>2. CASE UNCHANGED deskVars
  BY <1>2, DeskStays
<1>3. CASE Desk!Next
  BY <1>1, <1>3, DeskReset, DeskEvaluate, DeskSubmit, DeskFill, DeskUpdate, DeskClose
  DEF Desk!Next
<1> QED BY <1>2, <1>3, OneServiceSteps

LEMMA DeskImply ==
  ASSUME DeskInv PROVE DeskIsTrue
<1>1. Desk!ExecutedOnce
  BY DEF DeskInv, DeskFacts, Lived, Desk!ExecutedOnce
<1>2. Desk!HeldIsOpen
  BY DEF DeskInv, DeskFacts, Held, Desk!HeldIsOpen
<1>3. Desk!ToldIsTrue
  BY DEF DeskInv, DeskFacts, Lived, ToldSo, Desk!ToldIsTrue
<1>4. \A r \in Reports : Desk!QuantityOf(r) = QuantitySum(trades[r])
  BY DEF Desk!QuantityOf, QuantitySum
<1>5. Desk!QuantityConserved
  BY <1>4 DEF DeskInv, DeskFacts, Conserved, Desk!QuantityConserved
<1>6. Desk!ClosedOnce
  BY DEF DeskInv, DeskFacts, Once, Desk!ClosedOnce
<1> QED BY <1>1, <1>2, <1>3, <1>5, <1>6 DEF DeskIsTrue

(* Whatever the desk is asked to do, in any order, with saves that fail and *)
(* resets in between: no report makes two orders and no position is booked  *)
(* as closed twice, what left a position and what is left is what was       *)
(* filled, what the account counts can be closed unless its order was of    *)
(* size zero, and the events say what happened.                             *)
THEOREM DeskKeepsBooks == ServicesSpec => []DeskIsTrue
<1>1. DeskInv /\ [ServicesNext]_allVars => DeskInv'
  BY DeskInvStep
<1> QED BY <1>1, DeskInit, DeskImply, PTL DEF ServicesSpec

-----------------------------------------------------------------------------
(* The risk governor                                                       *)

GTrade == [at : 1 .. GovernedCandles, r : Results \cup {0}]

(* What the trades of a list at some places add up to.                      *)
RSum(l, places) == Governed!FoldFunctionOnSet(LAMBDA t, sum : t.r + sum, 0, l, places)
ResultsAt(l, places) == [n \in places |-> l[n].r]

LEMMA GTrades ==
  ASSUME NEW l \in Seq(GTrade)
  PROVE  /\ Len(l) \in Nat /\ DOMAIN l = 1..Len(l) /\ IsFiniteSet(DOMAIN l)
         /\ \A n \in DOMAIN l : l[n].r \in Int /\ l[n].at \in 1 .. GovernedCandles
<1>1. Len(l) \in Nat /\ DOMAIN l = 1..Len(l) /\ \A n \in 1..Len(l) : l[n] \in GTrade
  BY LenProperties, ElementOfSeq
<1>2. Results \subseteq Int
  BY MCServicesAssumption DEF Governed!Limits
<1>3. \A n \in DOMAIN l : l[n].r \in Int /\ l[n].at \in 1 .. GovernedCandles
  <2>1. \A x \in GTrade : x.r \in Results \cup {0} /\ x.at \in 1 .. GovernedCandles
    BY DEF GTrade
  <2>2. \A x \in Results \cup {0} : x \in Int
    BY <1>2
  <2> QED BY <1>1, <2>1, <2>2
<1>4. IsFiniteSet(1..Len(l))
  BY <1>1, FS_Interval
<1> QED BY <1>1, <1>3, <1>4

LEMMA RSumFolds ==
  ASSUME NEW l \in Seq(GTrade), NEW S, S \subseteq DOMAIN l
  PROVE  /\ IsFiniteSet(S) /\ ResultsAt(l, S) \in [S -> Int]
         /\ \E g : FoldsAny(S, ResultsAt(l, S), g) /\ RSum(l, S) = g[S]
<1> DEFINE w == ResultsAt(l, S)
           Adds(g) == g = [U \in SUBSET S |->
             IF U = {} THEN 0
             ELSE l[CHOOSE x \in U : TRUE].r + g[U \ {CHOOSE x \in U : TRUE}]]
           f == CHOOSE g : Adds(g)
<1>1. IsFiniteSet(S) /\ w \in [S -> Int] /\ \A n \in S : w[n] = l[n].r
  BY GTrades, FS_Subset DEF ResultsAt
<1>2. ASSUME NEW g PROVE Adds(g) <=> FoldsAny(S, w, g)
  <2>1. \A U \in SUBSET S : U # {} => l[CHOOSE x \in U : TRUE].r = w[CHOOSE x \in U : TRUE]
    BY <1>1
  <2> HIDE DEF w
  <2> QED BY <2>1 DEF FoldsAny, AnyOf
<1>3. \E g : Adds(g)
  <2> HIDE DEF Adds, w
  <2> QED BY <1>1, <1>2, FoldsAnyExists
<1>4. FoldsAny(S, w, f)
  <2>1. Adds(f)
    BY <1>3
  <2> HIDE DEF Adds
  <2> QED BY <1>2, <2>1
<1>5. RSum(l, S) = f[S]
  BY DEF RSum, Governed!FoldFunctionOnSet, Governed!MapThenFoldSet
<1> HIDE DEF f
<1> QED BY <1>1, <1>4, <1>5

LEMMA RSumSums ==
  ASSUME NEW l \in Seq(GTrade), NEW S, S \subseteq DOMAIN l
  PROVE  \E g : Sums(S, ResultsAt(l, S), g) /\ RSum(l, S) = g[S]
<1>1. IsFiniteSet(S) /\ ResultsAt(l, S) \in [S -> Int]
  BY RSumFolds
<1>2. PICK g : FoldsAny(S, ResultsAt(l, S), g) /\ RSum(l, S) = g[S]
  BY RSumFolds
<1>3. Sums(S, ResultsAt(l, S), g)
  BY <1>1, <1>2, FoldsAnySums
<1> QED BY <1>2, <1>3

LEMMA RSumInt ==
  ASSUME NEW l \in Seq(GTrade), NEW S, S \subseteq DOMAIN l
  PROVE  RSum(l, S) \in Int
<1>1. PICK g : Sums(S, ResultsAt(l, S), g) /\ RSum(l, S) = g[S]
  BY RSumSums
<1> QED BY <1>1 DEF Sums

LEMMA RSumNone ==
  ASSUME NEW l \in Seq(GTrade) PROVE RSum(l, 1..0) = 0
<1>1. PICK g : Sums({}, ResultsAt(l, {}), g) /\ RSum(l, {}) = g[{}]
  BY RSumSums
<1>2. 1..0 = {}
  OBVIOUS
<1> QED BY <1>1, <1>2 DEF Sums

(* A trade more adds its result, and leaves the sums before it.             *)
LEMMA RSumAppend ==
  ASSUME NEW l \in Seq(GTrade), NEW t \in GTrade
  PROVE  /\ Append(l, t) \in Seq(GTrade) /\ Len(Append(l, t)) = Len(l) + 1
         /\ Append(l, t)[Len(l) + 1] = t
         /\ \A n \in 1..Len(l) : Append(l, t)[n] = l[n]
         /\ \A n \in 0..Len(l) : RSum(Append(l, t), 1..n) = RSum(l, 1..n)
         /\ RSum(Append(l, t), 1..Len(l) + 1) = RSum(l, 1..Len(l)) + t.r
<1> DEFINE k == Append(l, t)
<1>1. /\ k \in Seq(GTrade) /\ Len(k) = Len(l) + 1 /\ k[Len(l) + 1] = t
      /\ \A n \in 1..Len(l) : k[n] = l[n]
  BY AppendProperties
<1>2. Len(l) \in Nat /\ DOMAIN l = 1..Len(l) /\ DOMAIN k = 1..Len(l) + 1
  BY <1>1, GTrades
<1> HIDE DEF k
<1>3. ASSUME NEW n \in 0..Len(l) PROVE RSum(k, 1..n) = RSum(l, 1..n)
  <2>1. 1..n \subseteq DOMAIN l /\ 1..n \subseteq DOMAIN k
    BY <1>2
  <2>2. PICK g : Sums(1..n, ResultsAt(l, 1..n), g) /\ RSum(l, 1..n) = g[1..n]
    BY <2>1, RSumSums
  <2>3. PICK h : Sums(1..n, ResultsAt(k, 1..n), h) /\ RSum(k, 1..n) = h[1..n]
    BY <1>1, <2>1, RSumSums
  <2>4. \A x \in 1..n : ResultsAt(l, 1..n)[x] = ResultsAt(k, 1..n)[x]
    BY <1>1, <1>2 DEF ResultsAt
  <2>5. IsFiniteSet(1..n)
    BY FS_Interval
  <2>6. g[1..n] = h[1..n]
    BY <2>2, <2>3, <2>4, <2>5, SumUnique
  <2> QED BY <2>2, <2>3, <2>6
<1>4. RSum(k, 1..Len(l) + 1) = RSum(l, 1..Len(l)) + t.r
  <2> DEFINE n == Len(l)
  <2>1. PICK h : Sums(1..n + 1, ResultsAt(k, 1..n + 1), h) /\ RSum(k, 1..n + 1) = h[1..n + 1]
    BY <1>1, <1>2, RSumSums
  <2>2. PICK g : Sums(1..n, ResultsAt(l, 1..n), g) /\ RSum(l, 1..n) = g[1..n]
    BY <1>2, RSumSums
  <2>3. \A x \in 1..n : ResultsAt(l, 1..n)[x] = ResultsAt(k, 1..n + 1)[x]
    BY <1>1, <1>2 DEF ResultsAt
  <2>4. 1..n \subseteq 1..n + 1 /\ n + 1 \in 1..n + 1 /\ (1..n + 1) \ {n + 1} = 1..n
    BY <1>2
  <2>5. IsFiniteSet(1..n)
    BY <1>2, FS_Interval
  <2>6. g[1..n] = h[1..n]
    BY <2>1, <2>2, <2>3, <2>4, <2>5, SumUnique
  <2>7. h[1..n + 1] = h[(1..n + 1) \ {n + 1}] + ResultsAt(k, 1..n + 1)[n + 1]
    BY <2>1, <2>4 DEF Sums
  <2>8. ResultsAt(k, 1..n + 1)[n + 1] = t.r
    BY <1>1, <2>4 DEF ResultsAt
  <2> QED BY <2>1, <2>2, <2>4, <2>6, <2>7, <2>8
<1> QED BY <1>1, <1>3, <1>4 DEF k

GovernedTyped ==
  /\ candle \in 0 .. GovernedCandles /\ open \subseteq 1 .. candle
  /\ closing \in Seq(GTrade) /\ log \in Seq(GTrade)
  /\ streak \in Nat /\ dayStreak \in Nat /\ cum \in Int /\ peak \in Int

(* A trade is open, about to be told or told, and only one of these.        *)
Apart(done, next, running, n) ==
  /\ \A i \in DOMAIN done : done[i].r # 0 /\ done[i].at \notin running /\ done[i].at <= n
  /\ \A i, j \in DOMAIN done : done[i].at = done[j].at => i = j
  /\ \A i \in DOMAIN next : next[i].at \notin running /\ next[i].at <= n
  /\ \A i, j \in DOMAIN next : next[i].at = next[j].at => i = j
  /\ \A i \in DOMAIN done, j \in DOMAIN next : done[i].at # next[j].at
TradesApart == Apart(log, closing, open, candle)

SumsKept(l, c, p) ==
  /\ c = RSum(l, 1..Len(l))
  /\ \A n \in 0..Len(l) : RSum(l, 1..n) <= p
  /\ \E n \in 0..Len(l) : RSum(l, 1..n) = p
(* The last k trades lost, and the one before them did not.                 *)
StreakKept(l, k) ==
  /\ k <= Len(l)
  /\ \A i \in DOMAIN l : i > Len(l) - k => l[i].r < 0
  /\ k < Len(l) => l[Len(l) - k].r >= 0
DayLosses(l, day) == {n \in DOMAIN l : GovernedDays[l[n].at] = day /\ l[n].r < 0}
DayKept(l, day, k) == k <= Cardinality(DayLosses(l, day))

GovernedInv ==
  /\ GovernedTyped /\ TradesApart
  /\ SumsKept(log, cum, peak) /\ StreakKept(log, streak) /\ DayKept(log, lastDay, dayStreak)

LEMMA DayLossesFinite ==
  ASSUME NEW l \in Seq(GTrade), NEW day
  PROVE  IsFiniteSet(DayLosses(l, day)) /\ Cardinality(DayLosses(l, day)) \in Nat
  BY GTrades, FS_Subset, FS_CardinalityType DEF DayLosses

LEMMA GovernedInit ==
  ASSUME ServicesInit PROVE GovernedInv
<1>1. Governed!Init
  BY DEF ServicesInit
<1>2. GovernedCandles \in Nat
  BY MCServicesAssumption DEF Governed!Limits
<1>3. <<>> \in Seq(GTrade) /\ Len(<<>>) = 0 /\ DOMAIN <<>> = {}
  BY EmptySeq
<1>4. GovernedTyped
  BY <1>1, <1>2, <1>3 DEF Governed!Init, GovernedTyped
<1>5. TradesApart
  BY <1>1, <1>3 DEF Governed!Init, TradesApart, Apart
<1>6. SumsKept(log, cum, peak)
  <2>1. RSum(log, 1..0) = 0 /\ Len(log) = 0 /\ cum = 0 /\ peak = 0
    BY <1>1, <1>3, RSumNone DEF Governed!Init
  <2>2. \A n \in 0..Len(log) : n = 0
    BY <2>1
  <2> QED BY <2>1, <2>2 DEF SumsKept
<1>7. StreakKept(log, streak)
  BY <1>1, <1>3 DEF Governed!Init, StreakKept
<1>8. DayKept(log, lastDay, dayStreak)
  <2>1. Cardinality(DayLosses(log, lastDay)) \in Nat /\ dayStreak = 0
    BY <1>1, <1>4, DayLossesFinite DEF Governed!Init, GovernedTyped
  <2> QED BY <2>1 DEF DayKept
<1> QED BY <1>4, <1>5, <1>6, <1>7, <1>8 DEF GovernedInv

(* The governor's log and sums, when no trade is told.                      *)
LEMMA KeptUntold ==
  ASSUME GovernedInv, UNCHANGED <<log, streak, cum, peak>>
  PROVE  SumsKept(log, cum, peak)' /\ StreakKept(log, streak)'
<1>1. \A n : RSum(log, 1..n)' = RSum(log, 1..n)
  BY DEF RSum, Governed!FoldFunctionOnSet, Governed!MapThenFoldSet
<1>2. SumsKept(log, cum, peak)'
  BY <1>1 DEF GovernedInv, SumsKept
<1>3. StreakKept(log, streak)'
  BY DEF GovernedInv, StreakKept
<1> QED BY <1>2, <1>3

LEMMA DayKeptUntold ==
  ASSUME GovernedInv, UNCHANGED log, NEW day, Governed!CheckState(day)
  PROVE  dayStreak' \in Nat /\ DayKept(log, lastDay, dayStreak)'
<1>1. dayStreak' = Governed!InDay(day) /\ lastDay' = day
  BY DEF Governed!CheckState
<1>2. Cardinality(DayLosses(log, day)) \in Nat
  BY DayLossesFinite DEF GovernedInv, GovernedTyped
<1>3. dayStreak' \in Nat /\ dayStreak' <= Cardinality(DayLosses(log, day))
  BY <1>1, <1>2 DEF GovernedInv, GovernedTyped, DayKept, Governed!InDay
<1>4. DayLosses(log, lastDay)' = DayLosses(log, day)
  BY <1>1 DEF DayLosses
<1> QED BY <1>3, <1>4 DEF DayKept

LEMMA NextCandle ==
  ASSUME GovernedTyped, Governed!Advance
  PROVE  /\ candle' \in 1 .. GovernedCandles /\ candle' \notin 1 .. candle
         /\ 1 .. candle' = (1 .. candle) \cup {candle'}
<1>1. candle \in Nat /\ candle + 1 <= GovernedCandles /\ GovernedCandles \in Nat
  BY MCServicesAssumption DEF GovernedTyped, Governed!Advance, Governed!Limits
<1>2. candle' = candle + 1
  BY DEF Governed!Advance
<1> QED BY <1>1, <1>2

LEMMA ApartLater ==
  ASSUME GovernedTyped, TradesApart, Governed!Advance, UNCHANGED <<open, closing, log>>
  PROVE  TradesApart'
<1>1. \A x \in Int : x <= candle => x <= candle'
  BY DEF GovernedTyped, Governed!Advance
<1>2. \A i \in DOMAIN log : log[i].at \in Int
  BY GTrades DEF GovernedTyped
<1>3. \A i \in DOMAIN closing : closing[i].at \in Int
  BY GTrades DEF GovernedTyped
<1> QED BY <1>1, <1>2, <1>3 DEF TradesApart, Apart

LEMMA GovernedSkip ==
  ASSUME GovernedInv, Governed!Skip PROVE GovernedInv'
<1>1. /\ candle < GovernedCandles /\ candle' = candle + 1
      /\ UNCHANGED <<open, closing, log, streak, dayStreak, lastDay, cum, peak>>
  BY DEF Governed!Skip, Governed!Advance, Governed!governor
<1>2. GovernedTyped /\ TradesApart
  BY DEF GovernedInv
<1>3. GovernedTyped'
  <2>1. candle' \in 0 .. GovernedCandles /\ 1 .. candle \subseteq 1 .. candle'
    BY <1>2, NextCandle DEF Governed!Skip
  <2> QED BY <1>1, <1>2, <2>1 DEF GovernedTyped
<1>4. TradesApart'
  BY <1>1, <1>2, ApartLater DEF Governed!Skip
<1>5. SumsKept(log, cum, peak)' /\ StreakKept(log, streak)'
  BY <1>1, KeptUntold
<1>6. DayKept(log, lastDay, dayStreak)'
  BY <1>1 DEF GovernedInv, DayKept, DayLosses
<1> QED BY <1>3, <1>4, <1>5, <1>6 DEF GovernedInv

LEMMA GovernedBlocked ==
  ASSUME GovernedInv, NEW g, Governed!Blocked(g) PROVE GovernedInv'
<1>1. Governed!Advance /\ Governed!CheckState(GovernedDays[candle']) /\ UNCHANGED <<open, closing>>
  BY DEF Governed!Blocked
<1>2. UNCHANGED <<log, streak, cum, peak>>
  BY <1>1 DEF Governed!CheckState
<1>3. GovernedTyped /\ TradesApart
  BY DEF GovernedInv
<1>4. dayStreak' \in Nat /\ DayKept(log, lastDay, dayStreak)'
  BY <1>1, <1>2, DayKeptUntold
<1>5. GovernedTyped'
  <2>1. candle' \in 0 .. GovernedCandles /\ 1 .. candle \subseteq 1 .. candle'
    BY <1>1, <1>3, NextCandle
  <2> QED BY <1>1, <1>2, <1>3, <1>4, <2>1 DEF GovernedTyped
<1>6. TradesApart'
  BY <1>1, <1>2, <1>3, ApartLater
<1> QED BY <1>2, <1>4, <1>5, <1>6, KeptUntold DEF GovernedInv

LEMMA GovernedCardinality == \A S : Governed!Cardinality(S) = Cardinality(S)
  BY DEF Governed!Cardinality, Cardinality

LEMMA GovernedAdmitted ==
  ASSUME GovernedInv, NEW g, Governed!Admitted(g) PROVE GovernedInv'
<1>1. /\ Governed!Advance /\ closing = <<>>
      /\ Governed!CheckState(GovernedDays[candle'])
  BY DEF Governed!Admitted, Governed!Advance
<1>2. PICK done \in SUBSET (open \cup {candle'}) :
        \E result \in [done -> Governed!Results0] :
          /\ open' = (open \cup {candle'}) \ done
          /\ LET entry == Governed!InOrder(done)
             IN closing' = [i \in DOMAIN entry |-> [at |-> entry[i], r |-> result[entry[i]]]]
  BY DEF Governed!Admitted
<1> DEFINE entry == Governed!InOrder(done)
<1>3. PICK result \in [done -> Governed!Results0] :
        /\ open' = (open \cup {candle'}) \ done
        /\ closing' = [i \in DOMAIN entry |-> [at |-> entry[i], r |-> result[entry[i]]]]
  BY <1>2
<1>4. UNCHANGED <<log, streak, cum, peak>>
  BY <1>1 DEF Governed!CheckState
<1>5. GovernedTyped /\ TradesApart
  BY DEF GovernedInv
<1>6. dayStreak' \in Nat /\ DayKept(log, lastDay, dayStreak)'
  BY <1>1, <1>4, DayKeptUntold
<1>7. /\ candle' \in 1 .. GovernedCandles /\ candle' \notin 1 .. candle
      /\ 1 .. candle' = (1 .. candle) \cup {candle'} /\ candle' \in 0 .. GovernedCandles
      /\ candle \in Int /\ candle' = candle + 1
  BY <1>1, <1>5, NextCandle DEF GovernedTyped, Governed!Advance
<1>8. done \subseteq 1 .. candle' /\ done \subseteq 1 .. GovernedCandles
      /\ open' \subseteq 1 .. candle' /\ open' \cap done = {}
  <2>1. done \subseteq 1 .. candle' /\ open' \subseteq 1 .. candle' /\ open' \cap done = {}
    BY <1>2, <1>3, <1>5, <1>7 DEF GovernedTyped
  <2>2. GovernedCandles \in Int
    BY MCServicesAssumption DEF Governed!Limits
  <2>3. \A x \in 1 .. candle' : x \in 1 .. GovernedCandles
    BY <1>7, <2>2
  <2> QED BY <2>1, <2>3
<1> DEFINE n == Cardinality(done)
<1>9. n \in Nat /\ IsFiniteSet(done) /\ done \subseteq Int
  <2>1. GovernedCandles \in Int
    BY MCServicesAssumption DEF Governed!Limits
  <2>2. IsFiniteSet(1 .. GovernedCandles)
    BY <2>1, FS_Interval
  <2>3. IsFiniteSet(done)
    BY <1>8, <2>2, FS_Subset
  <2>4. done \subseteq Int
    BY <1>8
  <2> QED BY <2>3, <2>4, FS_CardinalityType
<1>10. /\ entry \in [1..n -> done]
       /\ \A i, j \in 1..n : entry[i] = entry[j] => i = j
  <2> DEFINE rank(c) == Governed!Cardinality({d \in done : d <= c})
  <2>1. entry = [i \in 1..n |-> CHOOSE c \in done : rank(c) = i]
    <3>1. n = Governed!Cardinality(done)
      BY GovernedCardinality
    <3> HIDE DEF n
    <3> QED BY <3>1 DEF Governed!InOrder
  <2>2. \A i \in 1..n : \E c \in done : rank(c) = i
    <3>1. \A i \in 1..n : \E c \in done : Cardinality({d \in done : d <= c}) = i
      BY <1>9, EachRank DEF Numbers
    <3> QED BY <3>1, GovernedCardinality
  <2>3. \A i \in 1..n : entry[i] \in done /\ rank(entry[i]) = i
    <3> HIDE DEF rank, entry, n
    <3> QED BY <2>1, <2>2
  <2>4. DOMAIN entry = 1..n
    BY <2>1
  <2> HIDE DEF rank
  <2>5. entry \in [1..n -> done]
    <3> HIDE DEF entry, n
    <3> QED BY <2>1, <2>3
  <2>6. \A i, j \in 1..n : entry[i] = entry[j] => i = j
    <3> HIDE DEF entry, n
    <3> QED BY <2>3
  <2> QED BY <2>5, <2>6
<1> HIDE DEF n, entry
<1>11. /\ DOMAIN closing' = 1..n /\ closing' \in Seq(GTrade)
       /\ \A i \in 1..n : closing'[i].at = entry[i]
  <2>1. closing' = [i \in 1..n |-> [at |-> entry[i], r |-> result[entry[i]]]]
    BY <1>3, <1>10
  <2>2. \A i \in 1..n : [at |-> entry[i], r |-> result[entry[i]]] \in GTrade
    BY <1>8, <1>10 DEF GTrade, Governed!Results0
  <2>3. closing' \in [1..n -> GTrade]
    BY <2>1, <2>2
  <2>4. closing' \in Seq(GTrade)
    BY <1>9, <2>3, SeqDef
  <2> QED BY <2>1, <2>4
<1>12. GovernedTyped'
  BY <1>4, <1>5, <1>6, <1>7, <1>8, <1>11 DEF GovernedTyped
<1>13. TradesApart'
  <2>1. ASSUME NEW i \in DOMAIN log
        PROVE  log[i].at \notin open' /\ log[i].at <= candle' /\ log[i].at \notin done
    <3>1. log[i].at \notin open /\ log[i].at <= candle /\ log[i].at \in Int
      BY <1>5, GTrades DEF TradesApart, Apart, GovernedTyped
    <3>2. log[i].at # candle' /\ log[i].at <= candle'
      BY <1>7, <3>1
    <3> QED BY <1>2, <1>3, <3>1, <3>2
  <2>2. \A i \in DOMAIN closing' : closing'[i].at \in done
    BY <1>10, <1>11
  <2>3. \A i \in DOMAIN closing' : closing'[i].at \notin open' /\ closing'[i].at <= candle'
    <3>1. \A x \in done : x \notin open' /\ x <= candle'
      BY <1>7, <1>8
    <3> QED BY <2>2, <3>1
  <2>4. \A i, j \in DOMAIN closing' : closing'[i].at = closing'[j].at => i = j
    BY <1>10, <1>11
  <2>5. \A i \in DOMAIN log, j \in DOMAIN closing' : log[i].at # closing'[j].at
    BY <2>1, <2>2
  <2>6. /\ \A i \in DOMAIN log : log[i].r # 0
        /\ \A i, j \in DOMAIN log : log[i].at = log[j].at => i = j
    BY <1>5 DEF TradesApart, Apart
  <2> QED BY <1>4, <2>1, <2>3, <2>4, <2>5, <2>6 DEF TradesApart, Apart
<1> QED BY <1>4, <1>6, <1>12, <1>13, KeptUntold DEF GovernedInv

LEMMA ResultInt == ASSUME NEW t \in GTrade PROVE t.r \in Int
<1>1. Results \subseteq Int
  BY MCServicesAssumption DEF Governed!Limits
<1>2. \A x \in Results \cup {0} : x \in Int
  BY <1>1
<1>3. t.r \in Results \cup {0}
  BY DEF GTrade
<1> QED BY <1>2, <1>3, Zenon

(* What one more trade does to the sums, the streak and the losses of a day.*)
LEMMA SumsGrow ==
  ASSUME NEW l \in Seq(GTrade), NEW t \in GTrade, NEW c \in Int, NEW p \in Int,
         SumsKept(l, c, p)
  PROVE  SumsKept(Append(l, t), c + t.r, Governed!Greater(p, c + t.r))
<1> DEFINE k == Append(l, t)
           q == Governed!Greater(p, c + t.r)
           n == Len(l)
<1>1. /\ k \in Seq(GTrade) /\ Len(k) = n + 1
      /\ \A m \in 0..n : RSum(k, 1..m) = RSum(l, 1..m)
      /\ RSum(k, 1..n + 1) = RSum(l, 1..n) + t.r
  BY RSumAppend
<1>2. n \in Nat /\ t.r \in Int /\ \A m \in 0..n : RSum(l, 1..m) \in Int
  <2>1. n \in Nat /\ \A m \in 0..n : 1..m \subseteq DOMAIN l
    BY GTrades
  <2>2. t.r \in Int
    BY ResultInt
  <2>3. \A m \in 0..n : RSum(l, 1..m) \in Int
    BY <2>1, RSumInt
  <2> QED BY <2>1, <2>2, <2>3
<1> HIDE DEF k
<1>3. RSum(k, 1..n + 1) = c + t.r
  BY <1>1 DEF SumsKept
<1>4. q \in Int /\ p <= q /\ c + t.r <= q /\ q \in {p, c + t.r}
  BY <1>2 DEF Governed!Greater
<1> HIDE DEF q
<1>5. \A m \in 0..n + 1 : m \in 0..n \/ m = n + 1
  BY <1>2
<1>6. ASSUME NEW m \in 0..n + 1 PROVE RSum(k, 1..m) <= q
  <2>1. CASE m \in 0..n
    <3>1. RSum(k, 1..m) \in Int /\ RSum(k, 1..m) <= p
      BY <1>1, <1>2, <2>1 DEF SumsKept
    <3> QED BY <1>4, <3>1
  <2>2. CASE m = n + 1
    BY <1>3, <1>4, <2>2
  <2> QED BY <1>5, <2>1, <2>2
<1>7. \E m \in 0..n + 1 : RSum(k, 1..m) = q
  <2>1. CASE q = p
    <3>1. PICK m \in 0..n : RSum(l, 1..m) = p
      BY DEF SumsKept
    <3>2. m \in 0..n + 1
      BY <1>2
    <3> QED BY <1>1, <2>1, <3>1, <3>2
  <2>2. CASE q = c + t.r
    <3>1. n + 1 \in 0..n + 1
      BY <1>2
    <3> QED BY <1>3, <2>2, <3>1
  <2> QED BY <1>4, <2>1, <2>2
<1> QED BY <1>1, <1>3, <1>6, <1>7 DEF SumsKept, k, q

LEMMA StreakGrows ==
  ASSUME NEW l \in Seq(GTrade), NEW t \in GTrade, NEW k \in Nat, StreakKept(l, k), t.r # 0
  PROVE  StreakKept(Append(l, t), IF t.r <= 0 THEN k + 1 ELSE 0)
<1> DEFINE m == Append(l, t)
           n == Len(l)
<1>1. /\ m \in Seq(GTrade) /\ Len(m) = n + 1 /\ m[n + 1] = t
      /\ \A i \in 1..n : m[i] = l[i]
  BY RSumAppend
<1>2. n \in Nat /\ DOMAIN l = 1..n /\ DOMAIN m = 1..n + 1
  BY <1>1, GTrades
<1>3. t.r \in Int
  BY ResultInt
<1> HIDE DEF m
<1>4. k <= n /\ (\A i \in 1..n : i > n - k => l[i].r < 0) /\ (k < n => l[n - k].r >= 0)
  BY <1>2 DEF StreakKept
<1>5. \A i \in 1..n + 1 : i \in 1..n \/ i = n + 1
  BY <1>2
<1>6. CASE t.r <= 0
  <2>1. k + 1 <= n + 1
    BY <1>2, <1>4
  <2>2. ASSUME NEW i \in 1..n + 1, i > (n + 1) - (k + 1) PROVE m[i].r < 0
    <3>1. CASE i = n + 1
      BY <1>1, <1>3, <1>6, <3>1
    <3>2. CASE i \in 1..n
      <4>1. i > n - k
        BY <1>2, <2>2
      <4> QED BY <1>1, <1>4, <3>2, <4>1
    <3> QED BY <1>5, <3>1, <3>2
  <2>3. ASSUME k + 1 < n + 1 PROVE m[(n + 1) - (k + 1)].r >= 0
    <3>1. k < n /\ (n + 1) - (k + 1) = n - k /\ n - k \in 1..n
      BY <1>2, <2>3
    <3> QED BY <1>1, <1>4, <3>1
  <2>4. StreakKept(m, k + 1)
    BY <1>1, <1>2, <2>1, <2>2, <2>3 DEF StreakKept
  <2> QED BY <1>6, <2>4 DEF m
<1>7. CASE ~(t.r <= 0)
  <2>1. m[(n + 1) - 0].r >= 0
    <3>1. (n + 1) - 0 = n + 1
      BY <1>2
    <3> QED BY <1>1, <1>3, <1>7, <3>1
  <2>2. 0 <= n + 1 /\ \A i \in 1..n + 1 : ~(i > (n + 1) - 0)
    BY <1>2
  <2>3. StreakKept(m, 0)
    BY <1>1, <1>2, <2>1, <2>2 DEF StreakKept
  <2> QED BY <1>7, <2>3 DEF m
<1> QED BY <1>6, <1>7

LEMMA DayGrows ==
  ASSUME NEW l \in Seq(GTrade), NEW t \in GTrade, t.r # 0, NEW day, NEW k \in Nat, DayKept(l, day, k),
         NEW j, j = IF GovernedDays[t.at] = day THEN k ELSE 0
  PROVE  /\ DayKept(Append(l, t), GovernedDays[t.at], j + IF t.r <= 0 THEN 1 ELSE 0)
         /\ j + (IF t.r <= 0 THEN 1 ELSE 0) \in Nat
<1> DEFINE m == Append(l, t)
           n == Len(l)
           now == GovernedDays[t.at]
           was == DayLosses(l, now)
           is == DayLosses(m, now)
<1>1. /\ m \in Seq(GTrade) /\ Len(m) = n + 1 /\ m[n + 1] = t
      /\ \A i \in 1..n : m[i] = l[i]
  BY RSumAppend
<1>2. n \in Nat /\ DOMAIN l = 1..n /\ DOMAIN m = 1..n + 1
  BY <1>1, GTrades
<1>3. 1..n + 1 = (1..n) \cup {n + 1} /\ n + 1 \notin 1..n
  BY <1>2
<1>4. t.r \in Int
  BY ResultInt
<1> HIDE DEF m
<1>5. t.r <= 0 => is = was \cup {n + 1} /\ n + 1 \notin was
  <2>1. t.r <= 0 => t.r < 0
    BY <1>4
  <2> QED BY <1>1, <1>2, <1>3, <2>1 DEF DayLosses
<1>6. ~(t.r <= 0) => is = was
  <2>1. ~(t.r <= 0) => ~(t.r < 0)
    BY <1>4
  <2> QED BY <1>1, <1>2, <1>3, <2>1 DEF DayLosses
<1>7. IsFiniteSet(was) /\ Cardinality(was) \in Nat
  BY DayLossesFinite
<1>8. j \in Nat /\ j <= Cardinality(was)
  BY <1>7 DEF DayKept
<1> HIDE DEF was, is, now
<1>9. CASE t.r <= 0
  <2>1. Cardinality(is) = Cardinality(was) + 1
    BY <1>5, <1>7, <1>9, FS_AddElement
  <2>2. j + 1 \in Nat /\ j + 1 <= Cardinality(is)
    BY <1>7, <1>8, <2>1
  <2> QED BY <1>9, <2>2 DEF DayKept, is, now, m
<1>10. CASE ~(t.r <= 0)
  <2>1. j + 0 \in Nat /\ j + 0 <= Cardinality(is)
    BY <1>6, <1>8, <1>10
  <2> QED BY <1>10, <2>1 DEF DayKept, is, now, m
<1> QED BY <1>9, <1>10

LEMMA TailApart ==
  ASSUME NEW l \in Seq(GTrade), NEW c \in Seq(GTrade), c # <<>>, NEW running, NEW top,
         Apart(l, c, running, top), NEW m,
         m = l \/ (m = Append(l, Head(c)) /\ Head(c).r # 0)
  PROVE  /\ Tail(c) \in Seq(GTrade) /\ Head(c) \in GTrade
         /\ Apart(m, Tail(c), running, top)
<1> DEFINE t == Head(c)
           rest == Tail(c)
           n == Len(l)
<1>1. /\ rest \in Seq(GTrade) /\ t \in GTrade /\ t = c[1]
      /\ Len(c) \in Nat /\ Len(c) >= 1 /\ Len(rest) = Len(c) - 1
      /\ \A i \in 1 .. Len(c) - 1 : rest[i] = c[i + 1]
  BY HeadTailProperties, LenProperties, EmptySeq
<1> HIDE DEF rest, t
<1>2. DOMAIN c = 1 .. Len(c) /\ DOMAIN rest = 1 .. Len(c) - 1
  BY <1>1, LenProperties
<1>3. \A i \in DOMAIN rest : i + 1 \in DOMAIN c /\ rest[i] = c[i + 1] /\ i + 1 # 1
  BY <1>1, <1>2
<1>4. 1 \in DOMAIN c
  BY <1>1, <1>2
<1>5. n \in Nat /\ DOMAIN l = 1..n
  BY GTrades
<1>6. /\ \A i \in DOMAIN rest : rest[i].at \notin running /\ rest[i].at <= top
      /\ \A i \in DOMAIN rest : rest[i].at # t.at
      /\ \A i \in DOMAIN l, j \in DOMAIN rest : l[i].at # rest[j].at
  BY <1>1, <1>3, <1>4 DEF Apart
<1>7. \A i, j \in DOMAIN rest : rest[i].at = rest[j].at => i = j
  <2> SUFFICES ASSUME NEW i \in DOMAIN rest, NEW j \in DOMAIN rest, rest[i].at = rest[j].at
               PROVE  i = j
    OBVIOUS
  <2>1. i + 1 = j + 1
    BY <1>3 DEF Apart
  <2>2. i \in Int /\ j \in Int
    BY <1>2
  <2> QED BY <2>1, <2>2
<1>8. Apart(l, rest, running, top)
  BY <1>6, <1>7 DEF Apart
<1>9. CASE m = Append(l, t) /\ t.r # 0
  <2>1. /\ DOMAIN m = (1..n) \cup {n + 1} /\ m[n + 1] = t /\ n + 1 \notin 1..n
        /\ \A i \in 1..n : m[i] = l[i]
    <3>1. /\ m \in Seq(GTrade) /\ Len(m) = n + 1 /\ m[n + 1] = t
          /\ \A i \in 1..n : m[i] = l[i]
      BY <1>1, <1>9, RSumAppend
    <3>2. DOMAIN m = 1..n + 1
      BY <3>1, LenProperties
    <3>3. 1..n + 1 = (1..n) \cup {n + 1} /\ n + 1 \notin 1..n
      BY <1>5
    <3> QED BY <3>1, <3>2, <3>3
  <2> HIDE DEF n
  <2>2. t.at \notin running /\ t.at <= top /\ \A i \in 1..n : l[i].at # t.at
    BY <1>1, <1>4, <1>5 DEF Apart
  <2>3. \A i \in DOMAIN m : m[i].r # 0 /\ m[i].at \notin running /\ m[i].at <= top
    BY <1>5, <1>9, <2>1, <2>2 DEF Apart
  <2>4. \A i, j \in DOMAIN m : m[i].at = m[j].at => i = j
    BY <1>5, <2>1, <2>2 DEF Apart
  <2>5. \A i \in DOMAIN m, j \in DOMAIN rest : m[i].at # rest[j].at
    BY <1>5, <1>6, <2>1
  <2> QED BY <1>6, <1>7, <2>3, <2>4, <2>5 DEF Apart
<1> QED BY <1>1, <1>8, <1>9 DEF rest, t

LEMMA GovernedEvaluate ==
  ASSUME GovernedInv, Governed!Evaluate PROVE GovernedInv'
<1> DEFINE t == Head(closing)
           lost == t.r <= 0
<1>1. /\ closing # <<>> /\ closing' = Tail(closing) /\ UNCHANGED <<candle, open>>
  BY DEF Governed!Evaluate
<1>2. GovernedTyped /\ TradesApart
  BY DEF GovernedInv
<1>3. CASE t.r = 0
  <2>1. UNCHANGED <<log, streak, dayStreak, lastDay, cum, peak>>
    BY <1>3 DEF Governed!Evaluate, Governed!Unchanged, Governed!governor
  <2>2. closing' \in Seq(GTrade) /\ Apart(log', closing', open', candle')
    BY <1>1, <1>2, <2>1, TailApart DEF GovernedTyped, TradesApart
  <2>3. GovernedTyped'
    BY <1>1, <1>2, <2>1, <2>2 DEF GovernedTyped
  <2>4. DayKept(log, lastDay, dayStreak)'
    BY <2>1 DEF GovernedInv, DayKept, DayLosses
  <2> QED BY <2>1, <2>2, <2>3, <2>4, KeptUntold DEF GovernedInv, TradesApart
<1>4. CASE t.r # 0
  <2>1. /\ log' = Append(log, t) /\ cum' = cum + t.r
        /\ peak' = Governed!Greater(peak, cum') /\ lastDay' = GovernedDays[t.at]
        /\ dayStreak' = Governed!InDay(GovernedDays[t.at]) + IF lost THEN 1 ELSE 0
        /\ streak' = IF lost THEN streak + 1 ELSE 0
    BY <1>4 DEF Governed!Evaluate
  <2>2. closing' \in Seq(GTrade) /\ t \in GTrade /\ Apart(log', closing', open', candle')
    BY <1>1, <1>2, <1>4, <2>1, TailApart DEF GovernedTyped, TradesApart
  <2>3. t.r \in Int /\ log' \in Seq(GTrade)
    BY <1>2, <2>1, <2>2, ResultInt, RSumAppend DEF GovernedTyped
  <2>4. SumsKept(log', cum', peak')
    BY <1>2, <2>1, <2>2, SumsGrow DEF GovernedInv, GovernedTyped
  <2>5. StreakKept(log', streak')
    BY <1>2, <1>4, <2>1, <2>2, StreakGrows DEF GovernedInv, GovernedTyped
  <2>6. DayKept(log', lastDay', dayStreak') /\ dayStreak' \in Nat
    <3> DEFINE j == Governed!InDay(GovernedDays[t.at])
    <3>1. j = IF GovernedDays[t.at] = lastDay THEN dayStreak ELSE 0
      BY DEF Governed!InDay
    <3> HIDE DEF j
    <3>2. /\ DayKept(Append(log, t), GovernedDays[t.at], j + IF t.r <= 0 THEN 1 ELSE 0)
          /\ j + (IF t.r <= 0 THEN 1 ELSE 0) \in Nat
      BY <1>2, <1>4, <2>2, <3>1, DayGrows DEF GovernedInv, GovernedTyped
    <3> QED BY <2>1, <3>2 DEF j
  <2>7. cum' \in Int /\ peak' \in Int /\ streak' \in Nat
    BY <1>2, <2>1, <2>3 DEF GovernedTyped, Governed!Greater
  <2>8. GovernedTyped'
    BY <1>1, <1>2, <2>2, <2>3, <2>6, <2>7 DEF GovernedTyped
  <2>9. SumsKept(log, cum, peak)'
    BY <2>4 DEF SumsKept, RSum, Governed!FoldFunctionOnSet, Governed!MapThenFoldSet
  <2>10. StreakKept(log, streak)' /\ DayKept(log, lastDay, dayStreak)'
    BY <2>5, <2>6 DEF StreakKept, DayKept, DayLosses
  <2> QED BY <2>2, <2>8, <2>9, <2>10 DEF GovernedInv, TradesApart
<1> QED BY <1>3, <1>4

LEMMA GovernedStays ==
  ASSUME GovernedInv, UNCHANGED governedVars PROVE GovernedInv'
<1>1. UNCHANGED <<candle, open, closing, log, streak, dayStreak, lastDay, cum, peak>>
  BY DEF governedVars
<1>2. GovernedTyped' /\ TradesApart'
  BY <1>1 DEF GovernedInv, GovernedTyped, TradesApart, Apart
<1>3. DayKept(log, lastDay, dayStreak)'
  BY <1>1 DEF GovernedInv, DayKept, DayLosses
<1> QED BY <1>1, <1>2, <1>3, KeptUntold DEF GovernedInv

LEMMA GovernedInvStep ==
  ASSUME GovernedInv, [ServicesNext]_allVars PROVE GovernedInv'
<1>1. CASE UNCHANGED governedVars
  BY <1>1, GovernedStays
<1>2. CASE Governed!Next
  BY <1>2, GovernedSkip, GovernedEvaluate, GovernedBlocked, GovernedAdmitted DEF Governed!Next
<1> QED BY <1>1, <1>2, OneServiceSteps

LEMMA EquityIsSum == \A n : Governed!Equity(n) = RSum(log, 1..n)
  BY DEF Governed!Equity, Governed!SumR, RSum

(* A streak of losses ends the log; a longer one would hold a trade that    *)
(* did not lose.                                                            *)
LEMMA StreakAtEnd ==
  ASSUME GovernedInv
  PROVE  /\ streak <= Len(log) /\ Governed!AtEnd(streak)
         /\ \A k \in Nat : k <= Len(log) /\ k > streak => ~Governed!AtEnd(k)
<1>1. /\ Len(log) \in Nat /\ DOMAIN log = 1..Len(log) /\ streak \in Nat
      /\ \A n \in DOMAIN log : log[n].r \in Int
  BY GTrades DEF GovernedInv, GovernedTyped
<1>2. /\ streak <= Len(log)
      /\ \A i \in DOMAIN log : i > Len(log) - streak => log[i].r < 0
      /\ streak < Len(log) => log[Len(log) - streak].r >= 0
  BY DEF GovernedInv, StreakKept
<1>3. ASSUME NEW i \in Len(log) - streak + 1 .. Len(log) PROVE log[i].r < 0
  <2>1. i \in 1..Len(log) /\ i > Len(log) - streak
    BY <1>1, <1>2
  <2> QED BY <1>1, <1>2, <2>1
<1>4. ASSUME NEW k \in Nat, k <= Len(log), k > streak PROVE ~Governed!AtEnd(k)
  <2>1. /\ streak < Len(log) /\ Len(log) - streak \in 1..Len(log)
        /\ Len(log) - streak \in Len(log) - k + 1 .. Len(log)
    BY <1>1, <1>2, <1>4
  <2>2. log[Len(log) - streak].r >= 0 /\ log[Len(log) - streak].r \in Int
    BY <1>1, <1>2, <2>1
  <2>3. ~(log[Len(log) - streak].r < 0)
    BY <2>2
  <2> QED BY <2>1, <2>3 DEF Governed!AtEnd
<1> QED BY <1>2, <1>3, <1>4 DEF Governed!AtEnd

LEMMA GovernedImply ==
  ASSUME GovernedInv PROVE CountersMatchLog
<1>1. Len(log) \in Nat /\ streak \in Nat /\ peak \in Int /\ log \in Seq(GTrade)
  BY GTrades DEF GovernedInv, GovernedTyped
<1>2. /\ cum = Governed!Equity(Len(log))
      /\ \A n \in 0 .. Len(log) : Governed!Equity(n) <= peak
      /\ \E n \in 0 .. Len(log) : Governed!Equity(n) = peak
  BY EquityIsSum DEF GovernedInv, SumsKept
<1>3. peak >= 0
  <2>1. Governed!Equity(0) = 0 /\ 0 \in 0 .. Len(log)
    BY <1>1, EquityIsSum, RSumNone
  <2>2. 0 <= peak
    BY <1>2, <2>1
  <2> QED BY <1>1, <2>2
<1>4. /\ streak <= Len(log) /\ Governed!AtEnd(streak)
      /\ streak < Len(log) => ~Governed!AtEnd(streak + 1)
  <2>1. streak < Len(log) => streak + 1 \in Nat /\ streak + 1 <= Len(log) /\ streak + 1 > streak
    BY <1>1
  <2> QED BY <2>1, StreakAtEnd
<1>5. dayStreak <= Governed!Cardinality({n \in Governed!OnDay(lastDay) : log[n].r < 0})
  <2>1. {n \in Governed!OnDay(lastDay) : log[n].r < 0} = DayLosses(log, lastDay)
    BY DEF Governed!OnDay, DayLosses
  <2> QED BY <2>1, GovernedCardinality DEF GovernedInv, DayKept
<1>6. Governed!CountersMatchLog
  BY <1>2, <1>3, <1>4, <1>5 DEF Governed!CountersMatchLog
<1>7. Governed!ToldOnce
  BY DEF GovernedInv, TradesApart, Apart, Governed!ToldOnce
<1> QED BY <1>6, <1>7 DEF CountersMatchLog

(* Whatever the simulator closes and whenever it tells the governor, the    *)
(* governor's running counters are those of the trades themselves, and no   *)
(* trade is told twice.                                                     *)
THEOREM GovernorCounts == ServicesSpec => []CountersMatchLog
<1>1. GovernedInv /\ [ServicesNext]_allVars => GovernedInv'
  BY GovernedInvStep
<1> QED BY <1>1, GovernedInit, GovernedImply, PTL DEF ServicesSpec

(* Only a candle the governor has no objection to is traded on.             *)
LEMMA NothingObjects ==
  ASSUME NEW day, NEW inDay, NEW g, Governed!Objection(day, inDay, g) = ""
  PROVE  /\ ~(Governed!Drawdown >= Preservation)
         /\ ~(Governed!LossOn(day) <= -MaxDailyLoss)
         /\ ~(Governed!LossIn(WeekOf[day]) <= -MaxWeeklyLoss)
         /\ ~(streak >= MaxStreak)
  BY DEF Governed!Objection

LEMMA EntersWithin ==
  ASSUME GovernedInv, NEW g, Governed!Admitted(g)
  PROVE  /\ Governed!LossOn(GovernedDays[candle']) > -MaxDailyLoss
         /\ Governed!LossIn(WeekOf[GovernedDays[candle']]) > -MaxWeeklyLoss
         /\ Len(log) < MaxStreak \/ ~Governed!AtEnd(MaxStreak)
         /\ \A n \in 0 .. Len(log) :
              Governed!Equity(n) - Governed!Equity(Len(log)) < Preservation
<1> DEFINE day == GovernedDays[candle']
<1>1. /\ ~(Governed!Drawdown >= Preservation)
      /\ ~(Governed!LossOn(day) <= -MaxDailyLoss)
      /\ ~(Governed!LossIn(WeekOf[day]) <= -MaxWeeklyLoss)
      /\ ~(streak >= MaxStreak)
  BY NothingObjects DEF Governed!Admitted
<1>2. /\ MaxDailyLoss \in Int /\ MaxWeeklyLoss \in Int /\ MaxStreak \in Nat /\ Preservation \in Int
  BY MCServicesAssumption DEF Governed!Limits
<1>3. log \in Seq(GTrade) /\ streak \in Nat /\ peak \in Int /\ cum \in Int /\ Len(log) \in Nat
  BY GTrades DEF GovernedInv, GovernedTyped
<1>4. Governed!LossOn(day) \in Int /\ Governed!LossIn(WeekOf[day]) \in Int
  <2> HIDE DEF day
  <2>1. /\ Governed!LossOn(day) = RSum(log, Governed!OnDay(day))
        /\ Governed!OnDay(day) \subseteq DOMAIN log
    BY DEF Governed!LossOn, Governed!SumR, RSum, Governed!OnDay
  <2> DEFINE places == {n \in DOMAIN log : WeekOf[GovernedDays[log[n].at]] = WeekOf[day]}
  <2>2. Governed!LossIn(WeekOf[day]) = RSum(log, places)
    BY DEF Governed!LossIn, Governed!SumR, RSum
  <2>3. places \subseteq DOMAIN log
    OBVIOUS
  <2> HIDE DEF places
  <2> QED BY <1>3, <2>1, <2>2, <2>3, RSumInt
<1>5. Governed!LossOn(day) > -MaxDailyLoss /\ Governed!LossIn(WeekOf[day]) > -MaxWeeklyLoss
  <2> HIDE DEF day
  <2> QED BY <1>1, <1>2, <1>4
<1>6. ASSUME ~(Len(log) < MaxStreak) PROVE ~Governed!AtEnd(MaxStreak)
  <2>1. MaxStreak <= Len(log) /\ MaxStreak > streak
    BY <1>1, <1>2, <1>3, <1>6
  <2> QED BY <1>2, <2>1, StreakAtEnd
<1>7. ASSUME NEW n \in 0 .. Len(log)
      PROVE  Governed!Equity(n) - Governed!Equity(Len(log)) < Preservation
  <2>1. Governed!Equity(n) <= peak /\ Governed!Equity(Len(log)) = cum
    BY EquityIsSum DEF GovernedInv, SumsKept
  <2>2. 1..n \subseteq DOMAIN log
    BY <1>3, GTrades
  <2>3. Governed!Equity(n) \in Int
    BY <1>3, <2>2, EquityIsSum, RSumInt
  <2>4. ~(peak - cum >= Preservation)
    BY <1>1 DEF Governed!Drawdown
  <2> QED BY <1>2, <1>3, <2>1, <2>3, <2>4
<1> QED BY <1>5, <1>6, <1>7

LEMMA EnteredStep ==
  ASSUME GovernedInv, Governed!Next, candle' \in open', candle' # candle
  PROVE  \E g \in Governed!Grades : Governed!Admitted(g)
<1>1. GovernedTyped
  BY DEF GovernedInv
<1>2. CASE Governed!Skip
  BY <1>1, <1>2, NextCandle DEF Governed!Skip, GovernedTyped
<1>3. CASE Governed!Evaluate
  BY <1>3 DEF Governed!Evaluate
<1>4. ASSUME NEW g, Governed!Blocked(g) PROVE FALSE
  BY <1>1, <1>4, NextCandle DEF Governed!Blocked, GovernedTyped
<1> QED BY <1>2, <1>3, <1>4 DEF Governed!Next

LEMMA LockedStep ==
  ASSUME GovernedInv, Governed!Next, Governed!Locked
  PROVE  Governed!Locked' /\ UNCHANGED <<open, log>>
<1>1. closing = <<>> /\ (streak >= MaxStreak \/ Governed!Drawdown >= Preservation)
  BY DEF Governed!Locked
<1>2. ASSUME UNCHANGED <<open, closing, log, streak, cum, peak>>
      PROVE  Governed!Locked' /\ UNCHANGED <<open, log>>
  BY <1>1, <1>2 DEF Governed!Locked, Governed!Drawdown
<1>3. CASE Governed!Skip
  BY <1>2, <1>3 DEF Governed!Skip, Governed!governor
<1>4. CASE Governed!Evaluate
  BY <1>1, <1>4 DEF Governed!Evaluate
<1>5. ASSUME NEW g, Governed!Blocked(g) PROVE Governed!Locked' /\ UNCHANGED <<open, log>>
  BY <1>2, <1>5 DEF Governed!Blocked, Governed!CheckState
<1>6. ASSUME NEW g, Governed!Admitted(g) PROVE FALSE
  BY <1>1, <1>6, NothingObjects DEF Governed!Admitted
<1> QED BY <1>3, <1>4, <1>5, <1>6 DEF Governed!Next

(* The governor prevails over the simulator: a trade is entered only within *)
(* every limit reckoned from the trades themselves, and after a full streak *)
(* or a drawdown for preservation nothing is entered or closed again, for   *)
(* any limits, windows, days and results.                                   *)
THEOREM GovernorKeepsLimits == ServicesSpec => GovernorPrevails
<1>1. GovernedInv /\ [ServicesNext]_allVars => GovernedInv'
  BY GovernedInvStep
<1>2. ASSUME GovernedInv, [ServicesNext]_allVars
      PROVE  Governed!Next \/ UNCHANGED governedVars
  BY <1>2, OneServiceSteps
<1>3. ASSUME GovernedInv, [ServicesNext]_allVars, candle' \in open', candle' # candle
      PROVE  /\ Governed!LossOn(GovernedDays[candle']) > -MaxDailyLoss
             /\ Governed!LossIn(WeekOf[GovernedDays[candle']]) > -MaxWeeklyLoss
             /\ Len(log) < MaxStreak \/ ~Governed!AtEnd(MaxStreak)
             /\ \A n \in 0 .. Len(log) :
                  Governed!Equity(n) - Governed!Equity(Len(log)) < Preservation
  <2>1. Governed!Next
    BY <1>2, <1>3 DEF governedVars
  <2>2. PICK g \in Governed!Grades : Governed!Admitted(g)
    BY <1>3, <2>1, EnteredStep
  <2> QED BY <1>3, <2>2, EntersWithin
<1>4. ASSUME GovernedInv, [ServicesNext]_allVars, Governed!Locked
      PROVE  Governed!Locked' /\ UNCHANGED <<open, log>>
  <2>1. CASE Governed!Next
    BY <1>4, <2>1, LockedStep
  <2>2. CASE UNCHANGED governedVars
    BY <1>4, <2>2 DEF governedVars, Governed!Locked, Governed!Drawdown
  <2> QED BY <1>2, <1>4, <2>1, <2>2
<1>5. ServicesSpec => Governed!EnteredWithinLimits
  BY <1>1, <1>3, GovernedInit, PTL DEF ServicesSpec, Governed!EnteredWithinLimits
<1>6. ServicesSpec => Governed!LockedForGood
  BY <1>1, <1>4, GovernedInit, PTL DEF ServicesSpec, Governed!LockedForGood
<1> QED BY <1>5, <1>6, PTL DEF GovernorPrevails

=============================================================================
