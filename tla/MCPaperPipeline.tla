--------------------------- MODULE MCPaperPipeline ---------------------------
(***************************************************************************)
(* PaperPipeline in two small settings, checked side by side: one of them  *)
(* is chosen at the start and stays.                                       *)
(***************************************************************************)
EXTENDS PaperPipeline

CONSTANTS A, B, none

VARIABLE setting

MCOffered == {[sym |-> A, side |-> "LONG"], [sym |-> A, side |-> "SHORT"],
              [sym |-> B, side |-> "LONG"]}
MCSingle == {[sym |-> A, side |-> "LONG"]}

(* A stop costs one risk, a target brings ten. *)
MCResults == {-1, 10}

(* Two symbols, one signalled both ways, and stages that fail.              *)
Faulty == INSTANCE PaperPipeline WITH Results <- {10}, MaxRounds <- 4

(* One place and no failure, for as many rounds as a record of several      *)
(* closed and expired trades takes.                                         *)
Patient == INSTANCE PaperPipeline WITH
  Symbols <- {A}, Offered <- MCSingle, MaxActive <- 1, MaxFaults <- 0

MCInit == Init /\ setting \in {"faulty", "patient"}

MCNext ==
  /\ \/ setting = "faulty" /\ Faulty!Next
     \/ setting = "patient" /\ Patient!Next
  /\ UNCHANGED setting

MCSpec == MCInit /\ [][MCNext]_<<vars, setting>>
=============================================================================
