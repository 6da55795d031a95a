------------------------------ MODULE MCServices ------------------------------
(***************************************************************************)
(* The event store, the paper desk, the governed replay and the selective  *)
(* replay share nothing a small instance could show (the desk reports to a *)
(* store, of which it only sees whether a save failed).  A behaviour is    *)
(* one of them, chosen at the start; the others stay as they began.        *)
(***************************************************************************)
EXTENDS MCSelectiveReplay, TLC

CONSTANTS
  Procs, MaxEvent, MaxStarts,                       \* EventStore
  Reports, Prices, Sizes, MaxResets,                \* PaperDesk
  Results, GovernedDays, WeekOf, MaxDailyLoss, MaxWeeklyLoss, MaxDayStreak, MaxStreak,
  Defensive, Preservation, Short, Long, GovernedCandles   \* GovernedReplay

VARIABLES
  service,
  file, mem, step, job, seen, acked, starts, shared, hurt, reply,
  report, executed, order, position, orders, positions, trades, realized,
  told, silent, made, resets,
  candle, open, closing, log, streak, dayStreak, lastDay, cum, peak, stats

Store == INSTANCE EventStore WITH pc <- step
Desk == INSTANCE PaperDesk
Governed == INSTANCE GovernedReplay WITH
              clock <- candle, DayOf <- GovernedDays, MaxCandles <- GovernedCandles

ASSUME MCServicesAssumption ==
  Store!Bounds /\ Desk!Bounds /\ Governed!Limits

storeVars == <<file, mem, step, job, seen, acked, starts, shared, hurt, reply>>
deskVars == <<report, executed, order, position, orders, positions, trades, realized,
              told, silent, made, resets>>
governedVars == <<candle, open, closing, log, streak, dayStreak, lastDay, cum, peak, stats>>
allVars == <<service, vars, storeVars, deskVars, governedVars>>

ServicesInit ==
  /\ service \in {"store", "desk", "governed", "selective"}
  /\ Init
  /\ Store!Init
  /\ Desk!Init
  /\ service # "desk" => report = [r \in Reports |-> CHOOSE x \in Desk!ReportSet : TRUE]
  /\ Governed!Init

SelectiveStep ==
  /\ service = "selective" /\ Next
  /\ UNCHANGED <<service, storeVars, deskVars, governedVars>>
StoreStep ==
  /\ service = "store" /\ Store!Next
  /\ UNCHANGED <<service, vars, deskVars, governedVars>>
DeskStep ==
  /\ service = "desk" /\ Desk!Next
  /\ UNCHANGED <<service, vars, storeVars, governedVars>>
GovernedStep ==
  /\ service = "governed" /\ Governed!Next
  /\ UNCHANGED <<service, vars, storeVars, deskVars>>
ServicesNext == SelectiveStep \/ StoreStep \/ DeskStep \/ GovernedStep

ServicesSpec == ServicesInit /\ [][ServicesNext]_allVars

MCResults == {-1, 2}
MCGovernedDays == <<1, 1, 1, 1, 2, 3>>
MCWeekOf == <<1, 1, 2>>
(* Processes and reports are interchangeable.                               *)
MCSymmetry == Permutations(Procs) \cup Permutations(Reports)

(* The store's file holds only events that subscribers were shown, and none *)
(* whose publishing returned is lost by processes in succession.            *)
StoreIsFaithful == Store!StoredWasPublished /\ Store!AckedIsStored
(* What leaves a paper position and what is left of it is what was filled,  *)
(* it is booked as closed once and can be closed as long as the account     *)
(* counts it, no report is executed twice, and the desk's events say what   *)
(* has happened, all of it unless a save failed.                            *)
DeskIsTrue ==
  Desk!QuantityConserved /\ Desk!ClosedOnce /\ Desk!HeldIsOpen /\ Desk!ExecutedOnce /\ Desk!ToldIsTrue
(* The governor's running counters are those of the trades it was told, and *)
(* it was told of none twice nor before it was entered.                     *)
CountersMatchLog == Governed!CountersMatchLog /\ Governed!ToldOnce
(* No trade is entered beyond a limit of loss, drawdown or losing streak;   *)
(* after a full streak or drawdown nothing is traded or closed again.       *)
GovernorPrevails == Governed!EnteredWithinLimits /\ Governed!LockedForGood
=============================================================================
