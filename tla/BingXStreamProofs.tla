-------------------------- MODULE BingXStreamProofs --------------------------
(***************************************************************************)
(* What holds of the stream for any number of connections and calls.       *)
(***************************************************************************)
EXTENDS BingXStream, FiniteSetTheorems, TLAPS

PcTyped == /\ pc \in [Actors -> ConnStates \cup OwnerStates]
           /\ \A c \in Conns : pc[c] \in ConnStates
           /\ pc[Owner] \in OwnerStates
TypeInv == TypeOK /\ PcTyped

LEMMA TypeInit == Init => TypeInv
<1> SUFFICES ASSUME Init PROVE TypeInv
  OBVIOUS
<1>1. PcTyped /\ closing \subseteq {c \in Conns : pc[c] = "open"}
  BY BingXStreamAssumption
  DEF Init, PcTyped, Rest, Actors, ConnStates, OwnerStates, Connecting
<1>2. /\ ws \in Conns \cup {None} /\ thread \in Conns \cup {None}
      /\ count \in Nat /\ connects \in 0..MaxConnects
  BY BingXStreamAssumption DEF Init
<1>3. running \in BOOLEAN /\ up \in BOOLEAN /\ wanted \in BOOLEAN
  BY DEF Init
<1> QED BY <1>1, <1>2, <1>3 DEF TypeInv, TypeOK, PcTyped

(* connect, by the owner or by the thread of a connection                   *)
LEMMA ConnectTyped ==
  ASSUME TypeInv, NEW a \in Actors, Connect(a)
  PROVE  TypeInv'
<1> USE DEF TypeInv, TypeOK, PcTyped, Actors, Rest, Goto
<1>1. Owner \notin Conns /\ None \notin Conns
  BY BingXStreamAssumption
<1>2. CASE Arm(a)
  BY <1>1, <1>2 DEF Arm, ConnStates, OwnerStates, Connecting
<1>3. CASE Create(a)
  BY <1>1, <1>3 DEF Create, Unused, ConnStates, OwnerStates, Connecting
<1>4. CASE Target(a)
  BY <1>1, <1>4 DEF Target, ConnStates, OwnerStates, Connecting
<1>5. CASE Start(a)
  BY <1>1, <1>5 DEF Start, Startable, fields, ConnStates, OwnerStates, Connecting
<1> QED BY <1>2, <1>3, <1>4, <1>5 DEF Connect

LEMMA OwnerTyped ==
  ASSUME TypeInv, CallConnect \/ CallDisconnect \/ Close \/ Drop \/ Forget
  PROVE  TypeInv'
<1> USE DEF TypeInv, TypeOK, PcTyped, Actors, Goto
<1>1. Owner \notin Conns /\ None \notin Conns
  BY BingXStreamAssumption
<1>2. CASE CallConnect
  <2>1. connects' \in 0..MaxConnects
    BY <1>2, BingXStreamAssumption DEF CallConnect
  <2> QED BY <1>1, <1>2, <2>1 DEF CallConnect, fields, ConnStates, OwnerStates, Connecting
<1>3. CASE CallDisconnect
  BY <1>1, <1>3 DEF CallDisconnect, ConnStates, OwnerStates, Connecting
<1>4. CASE Close
  BY <1>1, <1>4 DEF Close, fields, ConnStates, OwnerStates, Connecting
<1>5. CASE Drop \/ Forget
  BY <1>1, <1>5 DEF Drop, Forget, ConnStates, OwnerStates, Connecting
<1> QED BY <1>2, <1>3, <1>4, <1>5

LEMMA ThreadTyped ==
  ASSUME TypeInv, NEW c \in Conns,
         Open(c) \/ DialFails(c) \/ End(c) \/ OnClose(c) \/ Retry(c)
  PROVE  TypeInv'
<1> USE DEF TypeInv, TypeOK, PcTyped, Actors, Goto
<1>1. Owner \notin Conns /\ None \notin Conns
  BY BingXStreamAssumption
<1>2. CASE Open(c)
  BY <1>1, <1>2 DEF Open, ConnStates, OwnerStates, Connecting
<1>3. CASE DialFails(c) \/ End(c)
  BY <1>1, <1>3 DEF DialFails, End, fields, ConnStates, OwnerStates, Connecting
<1>4. CASE OnClose(c)
  BY <1>1, <1>4 DEF OnClose, fields, ConnStates, OwnerStates, Connecting
<1>5. CASE Retry(c)
  BY <1>1, <1>5 DEF Retry, ConnStates, OwnerStates, Connecting
<1> QED BY <1>2, <1>3, <1>4, <1>5

LEMMA TypeStep == TypeInv /\ [Next]_vars => TypeInv'
<1> SUFFICES ASSUME TypeInv, [Next]_vars PROVE TypeInv'
  OBVIOUS
<1>1. CASE UNCHANGED vars
  BY <1>1 DEF vars, TypeInv, TypeOK, PcTyped
<1>2. CASE Toggle
  BY <1>2 DEF Toggle, fields, TypeInv, TypeOK, PcTyped
<1> QED BY <1>1, <1>2, ConnectTyped, OwnerTyped, ThreadTyped DEF Next

(* Fields and program counters have their types, and only open connections  *)
(* are being closed.                                                        *)
THEOREM TypeCorrect == Spec => []TypeOK
<1>1. TypeInv => TypeOK
  BY DEF TypeInv
<1> QED BY <1>1, TypeInit, TypeStep, PTL DEF Spec

LEMMA TypeInvHolds == Spec => []TypeInv
  BY TypeInit, TypeStep, PTL DEF Spec

-----------------------------------------------------------------------------
(* Connections                                                             *)

(* A call of connect by the owner that has not started its connection yet.  *)
OwnerConnecting == pc[Owner] \in Connecting
Pending == IF OwnerConnecting THEN 1 ELSE 0
BoundInv == Cardinality(Active) + Pending <= connects

(* What a step may do to the active connections: none is added; the owner   *)
(* starts one; a thread that ends starts its successor; connect is called.  *)
Fewer == Active' \subseteq Active /\ (OwnerConnecting' => OwnerConnecting)
OwnerStarts ==
  /\ \E c : Active' \subseteq Active \cup {c}
  /\ OwnerConnecting /\ ~OwnerConnecting'
Replaced ==
  /\ \E a \in Active : \E c : Active' \subseteq (Active \ {a}) \cup {c}
  /\ OwnerConnecting' => OwnerConnecting
Called == Active' \subseteq Active /\ ~OwnerConnecting /\ connects' = connects + 1

LEMMA ConnectBounded ==
  ASSUME TypeInv, NEW a \in Actors, Connect(a)
  PROVE  (Fewer \/ OwnerStarts \/ Replaced) /\ connects' = connects
<1> USE DEF TypeInv, PcTyped, Actors, Rest, Goto, OwnerConnecting
<1>1. Owner \notin Conns /\ None \notin Conns
  BY BingXStreamAssumption
<1>2. CASE Arm(a)
  BY <1>1, <1>2 DEF Arm, Fewer, Active, Connecting
<1>3. CASE Create(a)
  BY <1>1, <1>3 DEF Create, Unused, Fewer, Active, Connecting
<1>4. CASE Target(a)
  BY <1>1, <1>4 DEF Target, Fewer, Active, Connecting
<1>5. CASE Start(a)
  <2>1. connects' = connects /\ a \in Actors /\ pc[a] = "start"
    BY <1>5 DEF Start
  <2>2. CASE ~Startable
    BY <1>1, <1>5, <2>2 DEF Start, Fewer, Active, Connecting
  <2>3. CASE Startable /\ a = Owner
    <3>1. Active' \subseteq Active \cup {thread}
      BY <1>1, <1>5, <2>3 DEF Start, Startable, Active
    <3>2. OwnerConnecting /\ ~OwnerConnecting'
      <4>1. thread # Owner
        BY <1>1, <2>3 DEF Startable, TypeOK
      <4> QED BY <1>5, <2>3, <4>1 DEF Start, Startable, Connecting
    <3> QED BY <2>1, <3>1, <3>2 DEF OwnerStarts
  <2>4. CASE Startable /\ a # Owner
    <3>1. a \in Active
      BY <2>1, <2>4 DEF Active
    <3>2. Active' \subseteq (Active \ {a}) \cup {thread}
      BY <1>1, <1>5, <2>1, <2>4 DEF Start, Startable, Active
    <3>3. OwnerConnecting' => OwnerConnecting
      BY <1>1, <1>5, <2>4 DEF Start, Startable, Connecting, TypeOK
    <3> QED BY <2>1, <3>1, <3>2, <3>3 DEF Replaced
  <2> QED BY <2>2, <2>3, <2>4, <1>5 DEF Start
<1> QED BY <1>2, <1>3, <1>4, <1>5 DEF Connect, Arm, Create, Target

LEMMA OthersBounded ==
  ASSUME TypeInv,
         \/ CallDisconnect \/ Close \/ Drop \/ Forget \/ Toggle \/ UNCHANGED vars
         \/ \E c \in Conns : Open(c) \/ DialFails(c) \/ End(c) \/ OnClose(c) \/ Retry(c)
  PROVE  Fewer /\ connects' = connects
<1> USE DEF TypeInv, PcTyped, Actors, Goto, OwnerConnecting, Fewer, Active, Connecting
<1>1. Owner \notin Conns
  BY BingXStreamAssumption
<1>2. CASE CallDisconnect \/ Close \/ Drop \/ Forget
  BY <1>1, <1>2 DEF CallDisconnect, Close, Drop, Forget
<1>3. CASE Toggle \/ UNCHANGED vars
  BY <1>3 DEF Toggle, vars
<1>4. ASSUME NEW c \in Conns, Open(c) \/ DialFails(c) \/ End(c) \/ OnClose(c) \/ Retry(c)
      PROVE  Fewer /\ connects' = connects
  BY <1>1, <1>4 DEF Open, DialFails, End, OnClose, Retry
<1> QED BY <1>2, <1>3, <1>4

LEMMA CallBounded ==
  ASSUME TypeInv, CallConnect
  PROVE  Called
  BY BingXStreamAssumption
  DEF TypeInv, PcTyped, Actors, CallConnect, Goto, Called, Active, OwnerConnecting, Connecting

LEMMA ActiveFinite ==
  ASSUME NEW S, S \subseteq Conns
  PROVE  IsFiniteSet(S) /\ Cardinality(S) \in Nat
  BY BingXStreamAssumption, FS_Subset, FS_CardinalityType

LEMMA GrowsByOne ==
  ASSUME NEW S, IsFiniteSet(S), NEW T, NEW c, T \subseteq S \cup {c}
  PROVE  Cardinality(T) <= Cardinality(S) + 1
<1>1. /\ IsFiniteSet(S \cup {c})
      /\ Cardinality(S \cup {c}) = IF c \in S THEN Cardinality(S) ELSE Cardinality(S) + 1
  BY FS_AddElement
<1>2. IsFiniteSet(T) /\ Cardinality(T) <= Cardinality(S \cup {c})
  BY <1>1, FS_Subset
<1>3. Cardinality(S) \in Nat /\ Cardinality(T) \in Nat
  BY <1>2, FS_CardinalityType
<1> QED BY <1>1, <1>2, <1>3

LEMMA BoundStep == TypeInv /\ BoundInv /\ [Next]_vars => BoundInv'
<1> SUFFICES ASSUME TypeInv, BoundInv, [Next]_vars PROVE BoundInv'
  OBVIOUS
<1>1. /\ IsFiniteSet(Active) /\ IsFiniteSet(Active')
      /\ Cardinality(Active) \in Nat /\ Cardinality(Active') \in Nat /\ connects \in Nat
  BY ActiveFinite DEF Active, TypeInv, TypeOK
<1>2. Cardinality(Active) + Pending <= connects
  BY DEF BoundInv
<1>3. ASSUME Active' \subseteq Active
      PROVE  Cardinality(Active') <= Cardinality(Active)
  BY <1>1, <1>3, FS_Subset
<1>4. CASE Fewer /\ connects' = connects
  <2>1. Cardinality(Active') <= Cardinality(Active) /\ Pending' <= Pending
    BY <1>3, <1>4 DEF Fewer, Pending
  <2> QED BY <1>1, <1>2, <1>4, <2>1 DEF BoundInv, Pending
<1>5. CASE OwnerStarts /\ connects' = connects
  <2>1. Cardinality(Active') <= Cardinality(Active) + 1
    BY <1>1, <1>5, GrowsByOne DEF OwnerStarts
  <2>2. Pending = 1 /\ Pending' = 0
    BY <1>5 DEF OwnerStarts, Pending
  <2> QED BY <1>1, <1>2, <1>5, <2>1, <2>2 DEF BoundInv
<1>6. CASE Replaced /\ connects' = connects
  <2>1. PICK a \in Active : \E c : Active' \subseteq (Active \ {a}) \cup {c}
    BY <1>6 DEF Replaced
  <2>5. PICK c : Active' \subseteq (Active \ {a}) \cup {c}
    BY <2>1
  <2>2. IsFiniteSet(Active \ {a}) /\ Cardinality(Active \ {a}) = Cardinality(Active) - 1
    BY <1>1, FS_RemoveElement
  <2>3. Cardinality(Active') <= Cardinality(Active \ {a}) + 1
    BY <2>5, <2>2, GrowsByOne
  <2>4. Pending' <= Pending
    BY <1>6 DEF Replaced, Pending
  <2> QED BY <1>1, <1>2, <1>6, <2>2, <2>3, <2>4 DEF BoundInv, Pending
<1>7. CASE Called
  <2>1. Cardinality(Active') <= Cardinality(Active)
    BY <1>3, <1>7 DEF Called
  <2>2. Pending = 0 /\ Pending' <= 1 /\ connects' = connects + 1
    BY <1>7 DEF Called, Pending
  <2> QED BY <1>1, <1>2, <2>1, <2>2 DEF BoundInv, Pending
<1> QED BY <1>4, <1>5, <1>6, <1>7, ConnectBounded, OthersBounded, CallBounded DEF Next

(* However the calls of the owner and the callbacks of the connections      *)
(* interleave, there are never more connections than calls of connect.      *)
THEOREM NoMoreThanCalled == Spec => []ConnectionsBounded
<1>1. Init => BoundInv
  <2> SUFFICES ASSUME Init PROVE BoundInv
    OBVIOUS
  <2>1. Active = {} /\ ~OwnerConnecting /\ connects = 0
    BY BingXStreamAssumption
    DEF Init, Active, OwnerConnecting, Connecting, Rest, Actors
  <2> QED BY <2>1, FS_EmptySet DEF BoundInv, Pending
<1>2. TypeInv /\ BoundInv => ConnectionsBounded
  <2> SUFFICES ASSUME TypeInv, BoundInv PROVE ConnectionsBounded
    OBVIOUS
  <2>1. Cardinality(Active) \in Nat /\ connects \in Nat
    BY ActiveFinite DEF Active, TypeInv, TypeOK
  <2> QED BY <2>1 DEF BoundInv, Pending, ConnectionsBounded
<1> QED BY <1>1, <1>2, BoundStep, TypeInvHolds, PTL DEF Spec
=============================================================================
