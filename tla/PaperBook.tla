------------------------------ MODULE PaperBook ------------------------------
(***************************************************************************)
(* What the paper portfolio promises, whatever the execution ledger does   *)
(* to keep the promise: a set of open slots (a symbol and a side) that one *)
(* run changes in a single step, closing any of them and opening at most   *)
(* OpensPerRun, never holding more than MaxActive.  A run that dies while  *)
(* it rewrites the portfolio file may lose the whole book; nothing else    *)
(* changes it.                                                             *)
(***************************************************************************)
EXTENDS Naturals, FiniteSets

CONSTANTS Slots,        \* symbol/side pairs a trade can occupy
          MaxActive,    \* PAPER_MAX_ACTIVE_TRADES
          OpensPerRun   \* the sources of new trades a run tries, one each

VARIABLE book

Init == book = {}

(* One run settles the book: some slots close, a few open. *)
Settle ==
  \E opened \in SUBSET Slots :
     /\ Cardinality(opened) <= OpensPerRun
     /\ \E next \in SUBSET (book \cup opened) :
           /\ Cardinality(next) <= MaxActive
           /\ book' = next

(* The file is truncated and the process dies before the new content. *)
Lose == book' = {}

Next == Settle \/ Lose

Spec == Init /\ [][Next]_book
=============================================================================
