------------------------------- MODULE MCBingX -------------------------------
(***************************************************************************)
(* The two clients of the exchange that have a liveness property, checked  *)
(* side by side: the market data stream, and one scanner alone on a hedged *)
(* account.  They share nothing; one of them is chosen at the start, the   *)
(* other rests.                                                            *)
(***************************************************************************)
EXTENDS BingXStream

CONSTANTS A, B, loop, NoSignal

VARIABLES
  client,    \* the client that runs
  tracked, log, positions, leverage, accepted, faults,
  at, snap, seen, queue, current, hedged, tries, mine

scanVars == <<tracked, log, positions, leverage, accepted, faults,
              at, snap, seen, queue, current, hedged, tries, mine>>

(* Units: 18 = CAPITAL_USDT, 216 = MAX_TOTAL_NOTIONAL. *)
MCSignal(sym, side) == [sym |-> sym, side |-> side, lev |-> 9, notional |-> 144]
MCTwo == {MCSignal(A, "LONG"), MCSignal(B, "SHORT")}

Scanner == INSTANCE LiveScan WITH
  pc <- at, Loops <- {loop}, Testers <- {}, Signals <- MCTwo, Hedged <- TRUE,
  ReadsFail <- TRUE, MaxTrades <- 1, MaxNotional <- 216, MaxOrders <- 3, MaxFaults <- 1,
  StartLeverage <- [s \in {A, B} |-> [d \in {"LONG", "SHORT"} |-> 1]]

MCInit == Init /\ Scanner!Init /\ client \in {"stream", "scanner"}

StreamStep == client = "stream" /\ Next /\ UNCHANGED <<client, scanVars>>
ScanStep == client = "scanner" /\ Scanner!Next /\ UNCHANGED <<client, vars>>
MCNext == StreamStep \/ ScanStep

(* The fairness of BingXStream and of LiveScan, each while it is the client. *)
Streams(step) == client = "stream" /\ step /\ UNCHANGED <<client, scanVars>>
Scans(step) == client = "scanner" /\ step /\ UNCHANGED <<client, vars>>
MCSpec ==
  /\ MCInit /\ [][MCNext]_<<client, vars, scanVars>>
  /\ \A c \in Conns : WF_vars(Streams(Thread(c))) /\ WF_vars(Streams(c \in closing /\ End(c)))
  /\ WF_vars(Streams(Connect(Owner) \/ Close \/ Drop \/ Forget))
  /\ WF_scanVars(Scans(Scanner!Housekeeping(loop) \/ Scanner!Placing(loop)))
  /\ SF_scanVars(Scans(Scanner!SyncReads(loop)))

SoundUntilFault == Scanner!SoundUntilFault
OrphansEnd == Scanner!OrphansEnd
=============================================================================
