------------------------------ MODULE EventStore ------------------------------
(***************************************************************************)
(* ultimate_trader/event_bus: publish_system_event, the synchronous bus    *)
(* and the store that keeps every event in one JSON file.  Each process    *)
(* has its own bus and store in memory; the file in the home directory is  *)
(* the same for all of them.  A save rewrites the whole file: opening it   *)
(* for writing empties it, the write that follows fills it, and a process  *)
(* may die or its disk fill up in between.                                 *)
(*                                                                         *)
(* An event is the position of its id in the order of ids, the order in    *)
(* which list_events walks them; ids are random, so events are published   *)
(* in any order.                                                           *)
(***************************************************************************)
EXTENDS Naturals, FiniteSets

CONSTANTS
  Procs,       \* processes that use the default store
  MaxEvent,    \* bound: events
  MaxStarts    \* bound: starts of processes

Bounds == MaxEvent \in Nat /\ MaxStarts \in Nat

VARIABLES
  file,     \* ids in the file, or Torn
  mem,      \* _events of each process, with the form of the stored values
  pc,       \* where each process is
  job,      \* the event publish_system_event is about, 0 for clear_events
  seen,     \* events the bus has handed to its subscribers
  acked,    \* events whose publish_system_event returned, not cleared since
  starts,   \* starts so far
  shared,   \* ghost: two processes have been up at once
  hurt,     \* ghost: a process ended between the two steps of a save
  reply     \* ghost: how the last query ended

stored == <<file, mem>>
vars == <<file, mem, pc, job, seen, acked, starts, shared, hurt, reply>>

Events == 1 .. MaxEvent
Torn == {0}      \* a file that does not parse
Forms == {"absent", "text", "parsed"}
Known(p) == {e \in Events : mem[p][e] # "absent"}
Up(p) == pc[p] # "down"
Empty == [e \in Events |-> "absent"]
Goto(p, to) == pc' = [pc EXCEPT ![p] = to]

Init ==
  /\ file = {} /\ mem = [p \in Procs |-> Empty]
  /\ pc = [p \in Procs |-> "down"] /\ job = [p \in Procs |-> 0]
  /\ seen = {} /\ acked = {} /\ starts = 0
  /\ shared = FALSE /\ hurt = FALSE /\ reply = "none"

(* __init__: a file that is missing is written as {}, one that does not     *)
(* parse is read as {} and left as it is.                                   *)
Loaded == IF file = Torn THEN {} ELSE file
Start(p) ==
  /\ pc[p] = "down" /\ starts < MaxStarts
  /\ Goto(p, "idle") /\ starts' = starts + 1
  /\ mem' = [mem EXCEPT ![p] = [e \in Events |-> IF e \in Loaded THEN "text" ELSE "absent"]]
  /\ shared' = (shared \/ \E q \in Procs \ {p} : Up(q))
  /\ UNCHANGED <<file, job, seen, acked, hurt, reply>>

(* bus.publish: every subscriber is called, one that raises is logged; then *)
(* save_event puts the event into the store's dictionary.                   *)
Publish(p, e) ==
  /\ pc[p] = "idle" /\ e \notin seen
  /\ seen' = seen \cup {e}
  /\ mem' = [mem EXCEPT ![p][e] = "text"]
  /\ job' = [job EXCEPT ![p] = e] /\ Goto(p, "save")
  /\ UNCHANGED <<file, acked, starts, shared, hurt, reply>>

ClearEvents(p) ==
  /\ pc[p] = "idle" /\ Known(p) # {}
  /\ mem' = [mem EXCEPT ![p] = Empty]
  /\ job' = [job EXCEPT ![p] = 0] /\ Goto(p, "save")
  /\ acked' = {}
  /\ UNCHANGED <<file, seen, starts, shared, hurt, reply>>

(* _save: write_text opens the file, which truncates it, and writes.        *)
Truncate(p) ==
  /\ pc[p] = "save" /\ Goto(p, "write")
  /\ file' = Torn
  /\ UNCHANGED <<mem, job, seen, acked, starts, shared, hurt, reply>>

(* Mutant: the file gets only the event that is being saved.                *)
WriteOnlyNew(p) ==
  /\ pc[p] = "write" /\ Goto(p, "idle")
  /\ file' = {job[p]} \ {0}
  /\ acked' = acked \cup ({job[p]} \ {0})
  /\ UNCHANGED <<mem, job, seen, starts, shared, hurt, reply>>

Write(p) ==
  /\ pc[p] = "write" /\ Goto(p, "idle")
  /\ file' = Known(p)
  /\ acked' = acked \cup ({job[p]} \ {0})
  /\ UNCHANGED <<mem, job, seen, starts, shared, hurt, reply>>

(* Opening or writing raises; the caller sees it, the dictionary keeps it.  *)
SaveFails(p) ==
  /\ pc[p] \in {"save", "write"} /\ Goto(p, "idle")
  /\ hurt' = (hurt \/ pc[p] = "write")
  /\ UNCHANGED <<stored, job, seen, acked, starts, shared, reply>>

Stop(p) ==
  /\ Up(p) /\ Goto(p, "down")
  /\ mem' = [mem EXCEPT ![p] = Empty]
  /\ hurt' = (hurt \/ pc[p] = "write")
  /\ UNCHANGED <<file, job, seen, acked, starts, shared, reply>>

-----------------------------------------------------------------------------
(* get_event parses the stored values in place: a second call meets a       *)
(* timestamp that is no text any more and raises.                           *)
GetEvent(p, e) ==
  /\ pc[p] = "idle"
  /\ \/ /\ mem[p][e] = "absent" /\ reply' = "nothing" /\ UNCHANGED mem
     \/ /\ mem[p][e] = "text" /\ reply' = "event"
        /\ mem' = [mem EXCEPT ![p][e] = "parsed"]
     \/ /\ mem[p][e] = "parsed" /\ reply' = "raised" /\ UNCHANGED mem
  /\ UNCHANGED <<file, pc, job, seen, acked, starts, shared, hurt>>

(* list_events walks the ids downwards and stops at the first that raises.  *)
Stops(p) == {e \in Events : mem[p][e] = "parsed"}
Walked(p) == {e \in Known(p) : \A s \in Stops(p) : e > s}
ListEvents(p) ==
  /\ pc[p] = "idle"
  /\ mem' = [mem EXCEPT ![p] =
               [e \in Events |-> IF e \in Walked(p) THEN "parsed" ELSE mem[p][e]]]
  /\ reply' = IF Stops(p) = {} THEN "list" ELSE "raised"
  /\ UNCHANGED <<file, pc, job, seen, acked, starts, shared, hurt>>

Next ==
  \/ \E p \in Procs :
       \/ Start(p) \/ ClearEvents(p) \/ Truncate(p) \/ Write(p)
       \/ SaveFails(p) \/ Stop(p) \/ ListEvents(p)
  \/ \E p \in Procs, e \in Events : Publish(p, e) \/ GetEvent(p, e)

Spec == Init /\ [][Next]_vars

-----------------------------------------------------------------------------
TypeOK ==
  /\ file \in SUBSET Events \cup {Torn}
  /\ mem \in [Procs -> [Events -> Forms]]
  /\ pc \in [Procs -> {"down", "idle", "save", "write"}]
  /\ job \in [Procs -> 0 .. MaxEvent]
  /\ seen \in SUBSET Events /\ acked \in SUBSET Events
  /\ starts \in 0 .. MaxStarts
  /\ shared \in BOOLEAN /\ hurt \in BOOLEAN
  /\ reply \in {"none", "nothing", "event", "list", "raised"}

(* The bus comes first: whatever a failed save, a crash or another process  *)
(* does, the file never holds an event that no subscriber has been shown.   *)
StoredWasPublished == file # Torn => file \subseteq seen

(* Processes that run one after the other and are not killed inside a save  *)
(* lose no event whose publish_system_event returned, over restarts, reads, *)
(* clears and saves that fail to open the file.                             *)
AckedIsStored ==
  (~shared /\ ~hurt) =>
    /\ \A p \in Procs : Up(p) => acked \subseteq Known(p)
    /\ (\A p \in Procs : pc[p] # "write") => file # Torn /\ acked \subseteq file

=============================================================================
