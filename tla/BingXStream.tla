----------------------------- MODULE BingXStream -----------------------------
(***************************************************************************)
(* The market data stream of ultimate_trader/bingx/websocket.py.  Its      *)
(* owner calls connect and disconnect; every connection has a thread of    *)
(* its own in which the library calls back, and on_close calls connect     *)
(* again.  Owner and threads share the fields of one object without a      *)
(* lock, so each statement of connect, disconnect and _on_close is a step. *)
(*                                                                         *)
(* The library (websocket-client) is external: run_forever dials, calls    *)
(* on_open when that succeeds, and calls on_close once when the connection *)
(* is over, also if it never opened.  close ends a connection that is open;*)
(* before run_forever has begun it has no effect, for run_forever starts   *)
(* from keep_running = True.  Subscribers are taken to call neither        *)
(* connect nor disconnect.                                                 *)
(***************************************************************************)
EXTENDS Naturals, FiniteSets

CONSTANTS
  Owner,        \* the thread that owns the stream
  Conns,        \* connections; an object that is garbage is used again
  None,         \* the fields' None
  MaxAttempts,  \* max_reconnect_attempts
  MaxConnects   \* bound: calls of connect by the owner

ASSUME BingXStreamAssumption ==
  /\ Owner \notin Conns /\ None \notin Conns /\ IsFiniteSet(Conns)
  /\ MaxAttempts \in Nat /\ MaxConnects \in Nat

VARIABLES
  running,   \* _running
  ws,        \* _ws
  thread,    \* _thread: the connection whose run_forever it runs
  count,     \* _reconnect_count
  pc,        \* where the owner and the threads of the connections are
  closing,   \* open connections that close was called on
  up,        \* whether the server answers
  wanted,    \* the owner's last call was connect
  connects   \* calls of connect by the owner

fields == <<running, ws, thread, count>>
vars == <<running, ws, thread, count, pc, closing, up, wanted, connects>>

Actors == Conns \cup {Owner}

(* Statements of connect, in order: _running, _ws, _thread, start.          *)
Connecting == {"arm", "create", "target", "start"}
(* A connection: not in use; made but without a thread; its thread started; *)
(* open; over, with on_close to run; past the test of on_close.             *)
ConnStates == {"free", "made", "ready", "open", "over", "retry"} \cup Connecting
OwnerStates == {"idle", "close", "drop", "forget"} \cup Connecting

Active == {c \in Conns : pc[c] \notin {"free", "made"}}
Goto(a, to) == pc' = [pc EXCEPT ![a] = to]
(* Where an actor is when connect returns or raises.                        *)
Rest(a) == IF a = Owner THEN "idle" ELSE "free"

-----------------------------------------------------------------------------
Init ==
  /\ running = FALSE /\ ws = None /\ thread = None /\ count = 0
  /\ pc = [a \in Actors |-> Rest(a)]
  /\ closing = {} /\ up = TRUE /\ wanted = FALSE /\ connects = 0

CallConnect ==
  /\ pc[Owner] = "idle" /\ connects < MaxConnects
  /\ Goto(Owner, "arm")
  /\ wanted' = TRUE /\ connects' = connects + 1
  /\ UNCHANGED <<fields, closing, up>>

Arm(a) ==
  /\ pc[a] = "arm" /\ Goto(a, "create")
  /\ running' = TRUE
  /\ UNCHANGED <<ws, thread, count, closing, up, wanted, connects>>

(* A new WebSocketApp, on an object nothing refers to any more.             *)
Unused(c) == pc[c] \in {"free", "made"} /\ c # ws /\ c # thread
Create(a) ==
  /\ pc[a] = "create"
  /\ \E c \in Conns :
       /\ Unused(c)
       /\ ws' = c
       /\ pc' = [pc EXCEPT ![a] = "target", ![c] = "made"]
       /\ closing' = closing \ {c}
  /\ UNCHANGED <<running, thread, count, up, wanted, connects>>

(* The thread's target is read from _ws, which may be None by now: connect  *)
(* then raises.                                                             *)
Target(a) ==
  /\ pc[a] = "target"
  /\ \/ /\ ws # None /\ thread' = ws /\ Goto(a, "start")
     \/ /\ ws = None /\ Goto(a, Rest(a)) /\ UNCHANGED thread
  /\ UNCHANGED <<running, ws, count, closing, up, wanted, connects>>

(* A thread, or an app, is started only once; a second start, and a start   *)
(* of None, raises.                                                         *)
Startable == thread # None /\ pc[thread] = "made"
Start(a) ==
  /\ pc[a] = "start"
  /\ pc' = IF Startable
           THEN [pc EXCEPT ![a] = Rest(a), ![thread] = "ready"]
           ELSE [pc EXCEPT ![a] = Rest(a)]
  /\ UNCHANGED <<fields, closing, up, wanted, connects>>

-----------------------------------------------------------------------------
(* disconnect                                                              *)
CallDisconnect ==
  /\ pc[Owner] = "idle" /\ Goto(Owner, "close")
  /\ running' = FALSE /\ wanted' = FALSE
  /\ UNCHANGED <<ws, thread, count, closing, up, connects>>

Close ==
  /\ pc[Owner] = "close"
  /\ \/ /\ ws # None /\ Goto(Owner, "drop")
        /\ closing' = IF pc[ws] = "open" THEN closing \cup {ws} ELSE closing
     \/ /\ ws = None /\ Goto(Owner, "forget") /\ UNCHANGED closing
  /\ UNCHANGED <<fields, up, wanted, connects>>

Drop ==
  /\ pc[Owner] = "drop" /\ Goto(Owner, "forget")
  /\ ws' = None
  /\ UNCHANGED <<running, thread, count, closing, up, wanted, connects>>

Forget ==
  /\ pc[Owner] = "forget" /\ Goto(Owner, "idle")
  /\ thread' = None
  /\ UNCHANGED <<running, ws, count, closing, up, wanted, connects>>

-----------------------------------------------------------------------------
(* A connection's thread                                                   *)

(* run_forever dials; _on_open resets the count of reconnects.              *)
Open(c) ==
  /\ pc[c] = "ready" /\ up
  /\ Goto(c, "open") /\ count' = 0
  /\ UNCHANGED <<running, ws, thread, closing, up, wanted, connects>>

DialFails(c) ==
  /\ pc[c] = "ready" /\ ~up /\ Goto(c, "over")
  /\ UNCHANGED <<fields, closing, up, wanted, connects>>

(* Slip: the error callback dials again as well.                            *)
EndReconnecting(c) ==
  /\ pc[c] = "open"
  /\ \E d \in Conns : /\ Unused(d) /\ d # c
                      /\ pc' = [pc EXCEPT ![c] = "over", ![d] = "ready"]
  /\ closing' = closing \ {c}
  /\ UNCHANGED <<fields, up, wanted, connects>>

(* The connection ends: by close, by the server or by an error.             *)
End(c) ==
  /\ pc[c] = "open" /\ Goto(c, "over")
  /\ closing' = closing \ {c}
  /\ UNCHANGED <<fields, up, wanted, connects>>

(* The test of _on_close, with reconnect = True as by default.              *)
MayReconnect == running /\ count < MaxAttempts
OnClose(c) ==
  /\ pc[c] = "over"
  /\ Goto(c, IF MayReconnect THEN "retry" ELSE "free")
  /\ UNCHANGED <<fields, closing, up, wanted, connects>>

(* Slip: the attempt is not counted.                                        *)
RetryUncounted(c) ==
  /\ pc[c] = "retry" /\ Goto(c, "arm")
  /\ UNCHANGED <<fields, closing, up, wanted, connects>>

Retry(c) ==
  /\ pc[c] = "retry" /\ Goto(c, "arm")
  /\ count' = count + 1
  /\ UNCHANGED <<running, ws, thread, closing, up, wanted, connects>>

(* The server, or the network, comes and goes.                              *)
Toggle ==
  /\ up' = ~up
  /\ UNCHANGED <<fields, pc, closing, wanted, connects>>

Connect(a) == Arm(a) \/ Create(a) \/ Target(a) \/ Start(a)
Thread(c) == Open(c) \/ DialFails(c) \/ OnClose(c) \/ Retry(c) \/ Connect(c)

Next ==
  \/ CallConnect \/ CallDisconnect \/ Close \/ Drop \/ Forget
  \/ \E a \in Actors : Connect(a)
  \/ \E c \in Conns : Open(c) \/ DialFails(c) \/ End(c) \/ OnClose(c) \/ Retry(c)
  \/ Toggle

Spec == Init /\ [][Next]_vars

(* Threads run, a connection that is being closed ends, and the owner       *)
(* finishes what it has begun.  Nobody has to call anything, and a          *)
(* connection may stay open for ever: no ping is configured.                *)
FairSpec ==
  /\ Spec
  /\ \A c \in Conns : WF_vars(Thread(c)) /\ WF_vars(c \in closing /\ End(c))
  /\ WF_vars(Connect(Owner) \/ Close \/ Drop \/ Forget)

-----------------------------------------------------------------------------
(* Fields and program counters have their types, and only an open           *)
(* connection is being closed.                                              *)
TypeOK ==
  /\ running \in BOOLEAN /\ up \in BOOLEAN /\ wanted \in BOOLEAN
  /\ ws \in Conns \cup {None} /\ thread \in Conns \cup {None}
  /\ count \in Nat /\ connects \in 0..MaxConnects
  /\ \A c \in Conns : pc[c] \in ConnStates
  /\ pc[Owner] \in OwnerStates
  /\ closing \subseteq {c \in Conns : pc[c] = "open"}

(* Never more connections, dialing, open or about to be replaced, than the  *)
(* owner has called connect: a connection that ends has one successor at    *)
(* most, whatever the owner does meanwhile.  It is not one at most, because *)
(* the on_close of a connection that was disconnected reconnects too, once  *)
(* a new connect has set _running again.                                    *)
ConnectionsBounded == Cardinality(Active) <= connects

(* When the server stays away the stream gives up dialing in the end, which *)
(* is what max_reconnect_attempts is for.                                   *)
Quiet == \A c \in Conns : pc[c] \in {"free", "made", "open"}
GivesUp == <>[](~up) => <>[]Quiet

=============================================================================
