------------------------------ MODULE LiveDesk -------------------------------
(***************************************************************************)
(* What the live scanner promises of the exchange account: entries held    *)
(* there come and go one at a time, an order number is used once, and      *)
(* there are never more entries than processes that place orders.          *)
(***************************************************************************)
EXTENDS Naturals, FiniteSets

CONSTANT Capacity

VARIABLES held, used    \* entries with an open position; orders ever accepted

Init == held = {} /\ used = 0

Enter ==
  /\ Cardinality(held) < Capacity
  /\ used' = used + 1
  /\ held' = held \cup {used'}

Exit == \E order \in held : held' = held \ {order} /\ UNCHANGED used

Next == Enter \/ Exit

Spec == Init /\ [][Next]_<<held, used>>
=============================================================================
