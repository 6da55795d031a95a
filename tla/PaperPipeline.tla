---------------------------- MODULE PaperPipeline ----------------------------
(***************************************************************************)
(* One round after another of production_replay/bb_paper_pipeline.py: five *)
(* programs in turn, which hand their results on in files.                 *)
(*                                                                         *)
(*   bb_signal_generator     -> signals   (bb_all_signals.json)            *)
(*   bb_paper_dispatcher     -> cands     (bb_candidates.json)             *)
(*   paper_rotation_engine   -> rotation  (paper_rotation_report.json)     *)
(*   paper_execution_ledger  -> portfolio, lines, status                   *)
(*   paper_outcome_validator -> verdict   (paper_outcome_report.json)      *)
(*                                                                         *)
(* The pipeline notes that a stage failed or was killed and runs the next  *)
(* one all the same, on whatever file is there: the one of an earlier      *)
(* round, or an empty one, for a file opened for writing and not yet       *)
(* written reads as {}.  The inside of the fourth stage is PaperLedger;    *)
(* here it is one step.  Its notional gates are a refusal that may come at *)
(* any time, and its shadow intent and the watcher's candidates are absent:*)
(* no program of the repository writes those files.  All its trades are of *)
(* the trusted family bb_bounce_v1, which every promotion gate lets pass.  *)
(***************************************************************************)
EXTENDS Integers, FiniteSets, FiniteSetsExt

CONSTANTS
  Symbols,     \* symbols with cached candles
  Offered,     \* slots the detector may signal: [sym, side]
  Results,     \* r multiples a closed trade may end with
  MaxActive,   \* PAPER_MAX_ACTIVE_TRADES
  MinClosed,   \* MIN_CLOSED_TRADES_FOR_LIVE_REVIEW
  NoSlot,      \* "no rotation candidate"
  MaxRounds,   \* bound: rounds of the pipeline
  MaxFaults    \* bound: stages that fail or are killed

Slots == [sym : Symbols, side : {"LONG", "SHORT"}]

ASSUME PaperPipelineAssumption ==
  /\ Offered \subseteq Slots /\ NoSlot \notin Slots
  /\ Results \subseteq Int
  /\ MaxActive \in Nat /\ MinClosed \in Nat /\ MaxRounds \in Nat /\ MaxFaults \in Nat

VARIABLES
  round,      \* the clock: every time stamp of a round is its number
  stage,      \* the program that runs next
  signals,    \* what the generator's file says
  cands,      \* what the dispatcher's file says
  rotation,   \* what the rotation report says
  portfolio,  \* paper_portfolio.json, the open trades
  lines,      \* paper_trades.jsonl
  status,     \* "open" if the status report shows its first trade as open
  verdict,    \* what the outcome report says
  clean,      \* no stage of this round has failed so far
  faults      \* stages that failed or were killed

vars == <<round, stage, signals, cands, rotation, portfolio, lines, status, verdict,
          clean, faults>>

Stages == {"generate", "dispatch", "rotate", "execute", "validate"}
Signal == [slot : Slots, gen : Nat]
Candidate == [slot : Slots, gen : Nat, ts : Nat]
NoCandidate == [slot |-> NoSlot, gen |-> 0, ts |-> 0]
Trade == [slot : Slots, gen : Nat, opened : Nat]
Line == [trade : Trade, event : {"PAPER_OPEN", "PAPER_CLOSED", "PAPER_STALE_EXPIRED"},
         at : Nat, r : Int]
Verdicts == {"none", "NO_PAPER_TRADE", "PAPER_OPEN_MONITORING", "PAPER_CLOSED_TARGET",
             "PAPER_CLOSED_STOP", "LIVE_REVIEW_READY", "LIVE_BLOCKED"}

NothingSelected == [rotate |-> FALSE, cand |-> NoCandidate]

ActiveSymbols == {t.slot.sym : t \in portfolio}
Closed == {l \in lines : l.event = "PAPER_CLOSED"}

-----------------------------------------------------------------------------
Init ==
  /\ round = 1 /\ stage = "generate" /\ clean = TRUE /\ faults = 0
  /\ signals = {} /\ cands = {} /\ rotation = NothingSelected
  /\ portfolio = {} /\ lines = {} /\ status = "none" /\ verdict = "none"

Advance(from, to) == stage = from /\ stage' = to

(* _run_module: a stage that fails or is killed is noted, and no more.      *)
Fault == faults < MaxFaults /\ faults' = faults + 1 /\ clean' = FALSE
NoFault == UNCHANGED <<clean, faults>>

(* scan_bb_signals reports every setup of the latest complete candles.      *)
Generate ==
  /\ Advance("generate", "dispatch") /\ NoFault
  /\ \E found \in SUBSET Offered :
        signals' = {[slot |-> s, gen |-> round] : s \in found}
  /\ UNCHANGED <<round, cands, rotation, portfolio, lines, status, verdict>>

(* It dies and leaves the old file, or an empty one.                        *)
GenerateFails ==
  /\ Advance("generate", "dispatch") /\ Fault
  /\ signals' \in {signals, {}}
  /\ UNCHANGED <<round, cands, rotation, portfolio, lines, status, verdict>>

(* Slips of the dispatcher: nothing is written when there is nothing to     *)
(* dispatch; the symbols of open trades are dispatched too.                 *)
DispatchWhenAny ==
  /\ Advance("dispatch", "rotate") /\ NoFault
  /\ LET new == {[slot |-> s.slot, gen |-> s.gen, ts |-> round] :
                   s \in {x \in signals : x.slot.sym \notin ActiveSymbols}}
     IN cands' = IF new = {} THEN cands ELSE new
  /\ UNCHANGED <<round, signals, rotation, portfolio, lines, status, verdict>>

(* dispatch_paper_candidates drops the symbols of open trades and stamps    *)
(* every candidate with the current time, whatever the age of its signal.   *)
Dispatch ==
  /\ Advance("dispatch", "rotate") /\ NoFault
  /\ cands' = {[slot |-> s.slot, gen |-> s.gen, ts |-> round] :
                 s \in {x \in signals : x.slot.sym \notin ActiveSymbols}}
  /\ UNCHANGED <<round, signals, rotation, portfolio, lines, status, verdict>>

DispatchFails ==
  /\ Advance("dispatch", "rotate") /\ Fault
  /\ cands' \in {cands, {}}
  /\ UNCHANGED <<round, signals, rotation, portfolio, lines, status, verdict>>

(* Slip: an open trade only excludes a candidate of its own side.           *)
FreshBySlot == {c \in cands : \A t \in portfolio : t.slot # c.slot}

Fresh == {c \in cands : c.slot.sym \notin ActiveSymbols}

(* The re-entry filter: the last close of the same symbol and side has to   *)
(* be older than the candidate.                                             *)
LastClosed(slot) == Max({l.at : l \in {x \in Closed : x.trade.slot = slot}})
HasClosed(slot) == \E l \in Closed : l.trade.slot = slot
MayReenter(c) == HasClosed(c.slot) => c.ts > LastClosed(c.slot)

(* The candidates the engine sorts.  All have the same notional estimate,   *)
(* so the capital gate lets through all or none; when the filters leave     *)
(* nothing, they are forgotten.                                             *)
Pool(capital) ==
  LET passing == {c \in Fresh : capital /\ MayReenter(c)}
  IN IF passing = {} THEN Fresh ELSE passing

(* Score and reward are the same for every candidate of the family, so any  *)
(* of the pool may come first.  A full portfolio locks the rotation.        *)
Rotate ==
  /\ Advance("rotate", "execute") /\ NoFault
  /\ LET full == Cardinality(portfolio) >= MaxActive IN
     \E capital \in IF full THEN {FALSE} ELSE BOOLEAN :
        \/ /\ Pool(capital) = {}
           /\ rotation' = NothingSelected
        \/ \E c \in Pool(capital) : rotation' = [rotate |-> ~full, cand |-> c]
  /\ UNCHANGED <<round, signals, cands, portfolio, lines, status, verdict>>

RotateFails ==
  /\ Advance("rotate", "execute") /\ Fault
  /\ rotation' \in {rotation, NothingSelected}
  /\ UNCHANGED <<round, signals, cands, portfolio, lines, status, verdict>>

-----------------------------------------------------------------------------
(* The execution ledger, seen from outside.                                *)

LineOf(t, event, r) == [trade |-> t, event |-> event, at |-> round, r |-> r]

(* Monitoring ends some trades: at a level with a result, or as never       *)
(* filled.                                                                  *)
Endings == {"PAPER_OPEN", "PAPER_CLOSED", "PAPER_STALE_EXPIRED"}
(* Slip: an expired trade leaves no line.                                   *)
EndingLinesClosedOnly(end, r) ==
  {LineOf(t, end[t], r[t]) : t \in {x \in portfolio : end[x] = "PAPER_CLOSED"}}

EndingLines(end, r) ==
  {LineOf(t, end[t], IF end[t] = "PAPER_CLOSED" THEN r[t] ELSE 0) :
     t \in {x \in portfolio : end[x] # "PAPER_OPEN"}}

Staying(end) == {t \in portfolio : end[t] = "PAPER_OPEN"}

(* _attempt_add_trade looks for the same symbol and side among the trades   *)
(* that stay, and counts them.                                              *)
Admissible(kept) ==
  /\ rotation.rotate
  /\ \A t \in kept : t.slot # rotation.cand.slot
  /\ Cardinality(kept) < MaxActive

(* The trade a run opens, as a set: at most one.                            *)
NewTrade == [slot |-> rotation.cand.slot, gen |-> rotation.cand.gen, opened |-> round]
Openings(kept) ==
  IF Admissible(kept) THEN {{}, {NewTrade}} ELSE {{}}

Opening(new) == {LineOf(t, "PAPER_OPEN", 0) : t \in new}

(* The status report names the first open trade, if there is one.           *)
StatusOf(next) == IF next # {} THEN "open" ELSE "none"

Execute ==
  /\ Advance("execute", "validate") /\ NoFault
  /\ \E end \in [portfolio -> Endings], r \in [portfolio -> Results] :
     \E new \in Openings(Staying(end)) :
        /\ portfolio' = Staying(end) \cup new
        /\ lines' = lines \cup EndingLines(end, r) \cup Opening(new)
        /\ status' = StatusOf(portfolio')
  /\ UNCHANGED <<round, signals, cands, rotation, verdict>>

(* Lines are appended as they are decided: expiries when the portfolio is   *)
(* read, closes later, an opening last.                                     *)
Prefix(done, all) ==
  (\E l \in done : l.event = "PAPER_CLOSED") =>
     {l \in all : l.event = "PAPER_STALE_EXPIRED"} \subseteq done

(* A run that dies has appended what it decided so far; the portfolio is    *)
(* the old one, an empty file or the new one, the status the old one or     *)
(* unreadable.                                                              *)
ExecuteFails ==
  /\ Advance("execute", "validate") /\ Fault
  /\ \E end \in [portfolio -> Endings], r \in [portfolio -> Results] :
     \E new \in Openings(Staying(end)) :
        \/ /\ portfolio' = portfolio
           /\ \E done \in SUBSET EndingLines(end, r) :
                 Prefix(done, EndingLines(end, r)) /\ lines' = lines \cup done
           /\ status' = status
        \/ /\ portfolio' \in {portfolio, {}, Staying(end) \cup new}
           /\ lines' = lines \cup EndingLines(end, r) \cup Opening(new)
           /\ status' = status
        \/ /\ portfolio' = Staying(end) \cup new
           /\ lines' = lines \cup EndingLines(end, r) \cup Opening(new)
           /\ status' = "none"
  /\ UNCHANGED <<round, signals, cands, rotation, verdict>>

-----------------------------------------------------------------------------
(* _aggregate_closed_trades counts lines.                                   *)
Wins == {l \in Closed : l.r > 0}
TotalR == MapThenSumSet(LAMBDA l : l.r, Closed)

(* _determine_verdict when no trade is under evaluation.                    *)
Judge ==
  IF /\ Cardinality(Closed) >= MinClosed /\ Closed # {}
     /\ TotalR > 0
     /\ 2 * Cardinality(Wins) > Cardinality(Closed)
  THEN "LIVE_REVIEW_READY" ELSE "LIVE_BLOCKED"

Evaluations == {"PAPER_OPEN_MONITORING", "PAPER_CLOSED_TARGET", "PAPER_CLOSED_STOP"}

(* run_paper_outcome_validator: open trades are evaluated at a price of its *)
(* own, and without any the trade of the status report, if that has a price.*)
Assessments ==
  IF lines = {} THEN {"NO_PAPER_TRADE"}
  ELSE IF portfolio # {} THEN Evaluations
  ELSE IF status = "open" THEN Evaluations \cup {Judge}
  ELSE {Judge}

NextRound ==
  /\ round < MaxRounds
  /\ Advance("validate", "generate") /\ round' = round + 1 /\ clean' = TRUE
  /\ UNCHANGED <<signals, cands, rotation, portfolio, lines, status>>

Validate ==
  /\ NextRound /\ UNCHANGED faults
  /\ verdict' \in Assessments

ValidateFails ==
  /\ NextRound /\ faults < MaxFaults /\ faults' = faults + 1
  /\ verdict' \in {verdict, "none"}

Next ==
  \/ Generate \/ GenerateFails
  \/ Dispatch \/ DispatchFails
  \/ Rotate \/ RotateFails
  \/ Execute \/ ExecuteFails
  \/ Validate \/ ValidateFails

Spec == Init /\ [][Next]_vars

-----------------------------------------------------------------------------
(* Every file keeps its shape, and a report that says to rotate names a     *)
(* candidate.                                                               *)
TypeOK ==
  /\ round \in Nat /\ stage \in Stages /\ clean \in BOOLEAN /\ faults \in 0..MaxFaults
  /\ signals \subseteq Signal /\ cands \subseteq Candidate
  /\ rotation \in [rotate : BOOLEAN, cand : Candidate] \cup {NothingSelected}
  /\ portfolio \subseteq Trade /\ lines \subseteq Line
  /\ status \in {"open", "none"} /\ verdict \in Verdicts

(* Never two open trades on one symbol.  The ledger only refuses the same   *)
(* symbol and side; that both sides of a symbol are never open at once is   *)
(* owed to the filters of the two stages before it, whose files may be      *)
(* those of an earlier round.                                               *)
OneTradePerSymbol ==
  \A t, u \in portfolio : t.slot.sym = u.slot.sym => t = u

(* While no earlier stage of a round has failed, a trade is opened only on  *)
(* a signal of that very round, and not on a slot that closed in it or      *)
(* later: however stale the files of failed rounds were, one round without  *)
(* a failure leaves nothing of them.                                        *)
OpensOnFreshSignal(t) ==
  /\ t.gen = round
  /\ \A l \in Closed' : l.trade.slot = t.slot => l.at < t.gen
FreshWhenClean ==
  [][clean => \A t \in portfolio' \ portfolio : OpensOnFreshSignal(t)]_vars

(* When the validator has just found the record ready for live review, it   *)
(* rests on as many different trades as required, and no recorded trade is  *)
(* unsettled, as long as no stage has failed or was killed.                 *)
CountedTrades == {l.trade : l \in Closed}
JustReady == stage = "generate" /\ verdict = "LIVE_REVIEW_READY"
ReviewCountsTrades == JustReady => Cardinality(CountedTrades) >= MinClosed
CleanReviewCounts == faults = 0 => ReviewCountsTrades
CleanReviewSettled ==
  faults = 0 /\ JustReady =>
     \A l \in lines : \E m \in lines : m.trade = l.trade /\ m.event # "PAPER_OPEN"
CleanReview == CleanReviewCounts /\ CleanReviewSettled
=============================================================================
