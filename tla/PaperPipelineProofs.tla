------------------------- MODULE PaperPipelineProofs -------------------------
(***************************************************************************)
(* What holds of the paper pipeline for any symbols, signals, results and  *)
(* caps, and any number of stages that fail.                               *)
(***************************************************************************)
EXTENDS PaperPipeline, FiniteSetTheorems, TLAPS

(* What any step may do to the portfolio and its lines: nothing, or what a  *)
(* run of the ledger does, however it ends.                                 *)
LineFrom(l) ==
  /\ l \in Line /\ l.at = round
  /\ l.event = "PAPER_CLOSED" => l.trade \in portfolio
Settled ==
  /\ stage = "execute" /\ stage' = "validate"
  /\ UNCHANGED <<round, signals, cands, rotation>>
  /\ \E kept \in SUBSET portfolio : \E new \in Openings(kept) :
        portfolio' \in {portfolio, {}, kept \cup new}
  /\ \E more : lines' = lines \cup more /\ \A l \in more : LineFrom(l)

LEMMA NewTradeTyped ==
  ASSUME TypeOK, NEW kept \in SUBSET portfolio, NEW new \in Openings(kept)
  PROVE  /\ new \subseteq Trade
         /\ new # {} => Admissible(kept) /\ new = {NewTrade}
<1>1. CASE Admissible(kept)
  <2>1. rotation.rotate /\ rotation.cand \in Candidate
    BY <1>1 DEF Admissible, TypeOK, NothingSelected
  <2>2. NewTrade \in Trade
    BY <2>1 DEF NewTrade, Trade, Candidate, TypeOK
  <2> QED BY <1>1, <2>2 DEF Openings
<1>2. CASE ~Admissible(kept)
  BY <1>2 DEF Openings
<1> QED BY <1>1, <1>2

LEMMA LinesFrom ==
  ASSUME TypeOK, NEW end \in [portfolio -> Endings], NEW r \in [portfolio -> Results],
         NEW new \in Openings(Staying(end))
  PROVE  /\ \A l \in EndingLines(end, r) : LineFrom(l)
         /\ \A l \in Opening(new) : LineFrom(l)
<1>1. \A l \in EndingLines(end, r) : LineFrom(l)
  <2> SUFFICES ASSUME NEW l \in EndingLines(end, r) PROVE LineFrom(l)
    OBVIOUS
  <2>1. PICK t \in portfolio :
          /\ end[t] # "PAPER_OPEN"
          /\ l = LineOf(t, end[t], IF end[t] = "PAPER_CLOSED" THEN r[t] ELSE 0)
    BY DEF EndingLines
  <2>2. r[t] \in Int /\ end[t] \in Endings /\ t \in Trade /\ round \in Nat
    BY PaperPipelineAssumption DEF TypeOK
  <2> QED BY <2>1, <2>2 DEF LineFrom, LineOf, Line, Endings
<1>2. \A l \in Opening(new) : LineFrom(l)
  <2>1. new \subseteq Trade /\ round \in Nat
    BY NewTradeTyped DEF Staying, TypeOK
  <2> QED BY <2>1 DEF Opening, LineOf, LineFrom, Line
<1> QED BY <1>1, <1>2

LEMMA ExecuteSettles ==
  ASSUME TypeOK, Execute \/ ExecuteFails
  PROVE  Settled
<1>1. stage = "execute" /\ stage' = "validate" /\ UNCHANGED <<round, signals, cands, rotation>>
  BY DEF Execute, ExecuteFails, Advance
<1>2. PICK end \in [portfolio -> Endings], r \in [portfolio -> Results] :
        \E new \in Openings(Staying(end)) :
           /\ portfolio' \in {portfolio, {}, Staying(end) \cup new}
           /\ \/ \E done \in SUBSET EndingLines(end, r) : lines' = lines \cup done
              \/ lines' = lines \cup (EndingLines(end, r) \cup Opening(new))
  <2>1. CASE Execute
    BY <2>1 DEF Execute
  <2>2. CASE ExecuteFails
    BY <2>2 DEF ExecuteFails
  <2> QED BY <2>1, <2>2
<1>3. PICK new \in Openings(Staying(end)) :
        /\ portfolio' \in {portfolio, {}, Staying(end) \cup new}
        /\ \/ \E done \in SUBSET EndingLines(end, r) : lines' = lines \cup done
           \/ lines' = lines \cup (EndingLines(end, r) \cup Opening(new))
  BY <1>2
<1>4. \E more : lines' = lines \cup more /\ \A l \in more : LineFrom(l)
  BY <1>3, LinesFrom
<1>5. Staying(end) \in SUBSET portfolio
  BY DEF Staying
<1> QED BY <1>1, <1>3, <1>4, <1>5 DEF Settled

-----------------------------------------------------------------------------
(* Types                                                                   *)

LEMMA TypeInit == Init => TypeOK
<1> SUFFICES ASSUME Init PROVE TypeOK
  OBVIOUS
<1>1. /\ signals = {} /\ cands = {} /\ portfolio = {} /\ lines = {} /\ rotation = NothingSelected
      /\ round = 1 /\ stage = "generate" /\ status = "none" /\ verdict = "none"
  BY DEF Init
<1>2. clean \in BOOLEAN
  BY DEF Init
<1>3. faults \in 0..MaxFaults
  BY PaperPipelineAssumption DEF Init
<1> QED BY <1>1, <1>2, <1>3 DEF TypeOK, Stages, Verdicts

LEMMA FaultTyped ==
  ASSUME TypeOK, NoFault \/ Fault
  PROVE  clean' \in BOOLEAN /\ faults' \in 0..MaxFaults
<1>1. clean' \in BOOLEAN
  BY DEF TypeOK, NoFault, Fault
<1>2. faults' \in 0..MaxFaults
  BY PaperPipelineAssumption DEF TypeOK, NoFault, Fault
<1> QED BY <1>1, <1>2

LEMMA GatherTyped ==
  ASSUME TypeOK, Generate \/ GenerateFails \/ Dispatch \/ DispatchFails
  PROVE  TypeOK'
<1>1. clean' \in BOOLEAN /\ faults' \in 0..MaxFaults
  BY FaultTyped DEF Generate, GenerateFails, Dispatch, DispatchFails
<1>2. UNCHANGED <<round, rotation, portfolio, lines, status, verdict>> /\ stage' \in Stages
  BY DEF Generate, GenerateFails, Dispatch, DispatchFails, Advance, Stages
<1>3. signals' \subseteq Signal
  <2>1. CASE Generate
    BY <2>1, PaperPipelineAssumption DEF Generate, TypeOK, Signal
  <2>2. CASE GenerateFails \/ Dispatch \/ DispatchFails
    BY <2>2 DEF GenerateFails, Dispatch, DispatchFails, TypeOK
  <2> QED BY <2>1, <2>2
<1>4. cands' \subseteq Candidate
  <2>1. CASE Dispatch
    BY <2>1 DEF Dispatch, TypeOK, Signal, Candidate
  <2>2. CASE Generate \/ GenerateFails \/ DispatchFails
    BY <2>2 DEF Generate, GenerateFails, DispatchFails, TypeOK
  <2> QED BY <2>1, <2>2
<1> QED BY <1>1, <1>2, <1>3, <1>4 DEF TypeOK

LEMMA PoolFresh == \A capital \in BOOLEAN : Pool(capital) \subseteq Fresh
  BY DEF Pool

LEMMA RotateSelects ==
  ASSUME Rotate
  PROVE  \/ rotation' = NothingSelected
         \/ \E c \in Fresh : rotation'.cand = c /\ rotation' \in [rotate : BOOLEAN, cand : {c}]
<1>1. PICK capital \in BOOLEAN :
        \/ rotation' = NothingSelected
        \/ \E c \in Pool(capital) :
              rotation' = [rotate |-> ~(Cardinality(portfolio) >= MaxActive), cand |-> c]
  BY DEF Rotate
<1>2. CASE rotation' # NothingSelected
  <2>1. PICK c \in Pool(capital) :
          rotation' = [rotate |-> ~(Cardinality(portfolio) >= MaxActive), cand |-> c]
    BY <1>1, <1>2
  <2>2. c \in Fresh
    BY PoolFresh
  <2>3. /\ rotation'.cand = c
        /\ rotation' \in [rotate : BOOLEAN, cand : {c}]
    <3> DEFINE room == ~(Cardinality(portfolio) >= MaxActive)
    <3>1. room \in BOOLEAN
      OBVIOUS
    <3> HIDE DEF room
    <3> QED BY <2>1, <3>1, Zenon DEF room
  <2> QED BY <2>2, <2>3
<1> QED BY <1>2

LEMMA RotateTyped ==
  ASSUME TypeOK, Rotate \/ RotateFails
  PROVE  TypeOK'
<1>1. clean' \in BOOLEAN /\ faults' \in 0..MaxFaults
  BY FaultTyped DEF Rotate, RotateFails
<1>2. /\ UNCHANGED <<round, signals, cands, portfolio, lines, status, verdict>>
      /\ stage' \in Stages
  BY DEF Rotate, RotateFails, Advance, Stages
<1>3. rotation' \in [rotate : BOOLEAN, cand : Candidate] \cup {NothingSelected}
  <2>1. CASE Rotate
    BY <2>1, RotateSelects DEF Fresh, TypeOK
  <2>2. CASE RotateFails
    BY <2>2 DEF RotateFails, TypeOK
  <2> QED BY <2>1, <2>2
<1> QED BY <1>1, <1>2, <1>3 DEF TypeOK

LEMMA ExecuteTyped ==
  ASSUME TypeOK, Execute \/ ExecuteFails
  PROVE  TypeOK'
<1>1. clean' \in BOOLEAN /\ faults' \in 0..MaxFaults
  BY FaultTyped DEF Execute, ExecuteFails
<1>2. /\ UNCHANGED <<round, signals, cands, rotation, verdict>> /\ stage' \in Stages
      /\ status' \in {"open", "none"}
  BY DEF Execute, ExecuteFails, Advance, Stages, StatusOf, TypeOK
<1>3. portfolio' \subseteq Trade
  <2>1. PICK kept \in SUBSET portfolio : \E new \in Openings(kept) :
          portfolio' \in {portfolio, {}, kept \cup new}
    BY ExecuteSettles DEF Settled
  <2> QED BY <2>1, NewTradeTyped DEF TypeOK
<1>4. lines' \subseteq Line
  BY ExecuteSettles DEF Settled, LineFrom, TypeOK
<1> QED BY <1>1, <1>2, <1>3, <1>4 DEF TypeOK

LEMMA ValidateTyped ==
  ASSUME TypeOK, Validate \/ ValidateFails
  PROVE  TypeOK'
<1>1. clean' \in BOOLEAN /\ stage' \in Stages
  BY DEF Validate, ValidateFails, NextRound, Advance, Stages
<1>4. faults' \in 0..MaxFaults /\ round' \in Nat
  BY PaperPipelineAssumption DEF Validate, ValidateFails, NextRound, TypeOK
<1>2. UNCHANGED <<signals, cands, rotation, portfolio, lines, status>>
  BY DEF Validate, ValidateFails, NextRound
<1>3. verdict' \in Verdicts
  <2>1. CASE Validate
    <3>1. Judge \in Verdicts
      BY DEF Judge, Verdicts
    <3> QED BY <2>1, <3>1 DEF Validate, Assessments, Evaluations, Verdicts
  <2>2. CASE ValidateFails
    BY <2>2 DEF ValidateFails, TypeOK, Verdicts
  <2> QED BY <2>1, <2>2
<1> QED BY <1>1, <1>2, <1>3, <1>4 DEF TypeOK

LEMMA TypeStep == TypeOK /\ [Next]_vars => TypeOK'
<1> SUFFICES ASSUME TypeOK, [Next]_vars PROVE TypeOK'
  OBVIOUS
<1>1. CASE UNCHANGED vars
  BY <1>1 DEF vars, TypeOK
<1>2. CASE Generate \/ GenerateFails \/ Dispatch \/ DispatchFails
  BY <1>2, GatherTyped
<1>3. CASE Rotate \/ RotateFails
  BY <1>3, RotateTyped
<1>4. CASE Execute \/ ExecuteFails
  BY <1>4, ExecuteTyped
<1>5. CASE Validate \/ ValidateFails
  BY <1>5, ValidateTyped
<1> QED BY <1>1, <1>2, <1>3, <1>4, <1>5 DEF Next

(* Every file keeps its shape, however many stages fail.                    *)
THEOREM TypeCorrect == Spec => []TypeOK
  BY TypeInit, TypeStep, PTL DEF Spec

-----------------------------------------------------------------------------
(* One trade per symbol                                                    *)

(* A report that says to rotate names a symbol that no open trade has, or   *)
(* the very slot of the open trade.                                         *)
ReportFits ==
  rotation.rotate =>
    \A t \in portfolio : t.slot.sym = rotation.cand.slot.sym => t.slot = rotation.cand.slot
SymbolInv == OneTradePerSymbol /\ ReportFits

LEMMA SymbolStep == TypeOK /\ SymbolInv /\ [Next]_vars => SymbolInv'
<1> SUFFICES ASSUME TypeOK, SymbolInv, [Next]_vars PROVE SymbolInv'
  OBVIOUS
<1> USE DEF SymbolInv, OneTradePerSymbol, ReportFits
<1>1. CASE portfolio' = portfolio /\ rotation' = rotation
  BY <1>1
<1>2. CASE Rotate
  <2>1. portfolio' = portfolio
    BY <1>2 DEF Rotate
  <2>2. CASE rotation' = NothingSelected
    BY <2>1, <2>2 DEF NothingSelected
  <2>3. CASE \E c \in Fresh : rotation'.cand = c
    BY <2>1, <2>3 DEF Fresh, ActiveSymbols
  <2> QED BY <1>2, <2>2, <2>3, RotateSelects
<1>3. CASE RotateFails
  BY <1>3 DEF RotateFails, NothingSelected
<1>4. CASE Execute \/ ExecuteFails
  <2>1. rotation' = rotation
    BY <1>4, ExecuteSettles DEF Settled
  <2>2. PICK kept \in SUBSET portfolio : \E new \in Openings(kept) :
          portfolio' \in {portfolio, {}, kept \cup new}
    BY <1>4, ExecuteSettles DEF Settled
  <2>3. PICK new \in Openings(kept) : portfolio' \in {portfolio, {}, kept \cup new}
    BY <2>2
  <2>4. CASE portfolio' \subseteq portfolio
    BY <2>1, <2>4
  <2>5. CASE portfolio' = kept \cup new /\ new # {}
    <3>1. Admissible(kept) /\ new = {NewTrade}
      BY <2>5, NewTradeTyped
    <3>2. /\ rotation.rotate /\ NewTrade.slot = rotation.cand.slot
          /\ \A t \in kept : t.slot # NewTrade.slot
      BY <3>1 DEF Admissible, NewTrade
    <3> HIDE DEF SymbolInv
    <3>3. \A t \in kept : t.slot.sym # NewTrade.slot.sym
      BY <3>2 DEF SymbolInv
    <3> QED BY <2>1, <2>5, <3>1, <3>2, <3>3 DEF SymbolInv
  <2> QED BY <2>3, <2>4, <2>5
<1> QED
  BY <1>1, <1>2, <1>3, <1>4
  DEF Next, vars, Generate, GenerateFails, Dispatch, DispatchFails, Validate, ValidateFails,
      NextRound

(* Both sides of a symbol are never open at once, although the ledger only  *)
(* refuses the same side and the report it reads may be an old one.         *)
THEOREM SymbolsAreExclusive == Spec => []OneTradePerSymbol
<1>1. Init => SymbolInv
  BY DEF Init, SymbolInv, OneTradePerSymbol, ReportFits
<1>2. SymbolInv => OneTradePerSymbol
  BY DEF SymbolInv
<1> QED BY <1>1, <1>2, SymbolStep, TypeCorrect, PTL DEF Spec

-----------------------------------------------------------------------------
(* Fresh signals                                                           *)

(* The files written so far in a round without a failure are of that round. *)
SignalsOfRound == stage # "generate" => \A s \in signals : s.gen = round
CandidatesOfRound ==
  stage \in {"rotate", "execute"} => \A c \in cands : c.gen = round
ReportOfRound ==
  stage = "execute" /\ rotation.rotate =>
     rotation.cand.gen = round /\ rotation.cand.slot.sym \notin ActiveSymbols
FreshFiles == clean => SignalsOfRound /\ CandidatesOfRound /\ ReportOfRound

(* The ledger writes once a round.                                          *)
LinesArePast ==
  \A l \in lines : IF stage = "validate" THEN l.at <= round ELSE l.at < round
FreshInv == FreshFiles /\ LinesArePast

LEMMA FilesStep ==
  ASSUME TypeOK, FreshFiles, [Next]_vars
  PROVE  FreshFiles'
<1> USE DEF FreshFiles
<1>1. CASE UNCHANGED vars
  BY <1>1 DEF vars, SignalsOfRound, CandidatesOfRound, ReportOfRound, ActiveSymbols
<1>2. CASE Generate
  BY <1>2 DEF Generate, Advance, NoFault, SignalsOfRound, CandidatesOfRound, ReportOfRound
<1>3. CASE Dispatch
  BY <1>3 DEF Dispatch, Advance, NoFault, SignalsOfRound, CandidatesOfRound, ReportOfRound
<1>4. CASE Rotate
  <2>1. /\ stage = "rotate" /\ stage' = "execute" /\ clean' = clean
        /\ UNCHANGED <<round, signals, cands, portfolio>>
    BY <1>4 DEF Rotate, Advance, NoFault
  <2>2. ASSUME clean PROVE ReportOfRound'
    <3>1. CASE rotation' = NothingSelected
      BY <3>1 DEF NothingSelected, ReportOfRound
    <3>2. CASE \E c \in Fresh : rotation'.cand = c
      BY <2>1, <2>2, <3>2 DEF Fresh, ActiveSymbols, CandidatesOfRound, ReportOfRound
    <3> QED BY <1>4, <3>1, <3>2, RotateSelects
  <2> QED BY <2>1, <2>2 DEF SignalsOfRound, CandidatesOfRound
<1>5. CASE Execute
  BY <1>5 DEF Execute, Advance, NoFault, SignalsOfRound, CandidatesOfRound, ReportOfRound
<1>6. CASE Validate \/ ValidateFails
  BY <1>6 DEF Validate, ValidateFails, NextRound, Advance, SignalsOfRound, CandidatesOfRound,
              ReportOfRound
<1>7. CASE GenerateFails \/ DispatchFails \/ RotateFails \/ ExecuteFails
  BY <1>7 DEF GenerateFails, DispatchFails, RotateFails, ExecuteFails, Fault
<1> QED BY <1>1, <1>2, <1>3, <1>4, <1>5, <1>6, <1>7 DEF Next

LEMMA LinesStep ==
  ASSUME TypeOK, LinesArePast, [Next]_vars
  PROVE  LinesArePast'
<1>1. round \in Nat /\ \A l \in lines : l.at \in Nat
  BY DEF TypeOK, Line
<1>2. CASE Execute \/ ExecuteFails
  <2>1. /\ stage = "execute" /\ stage' = "validate" /\ round' = round
        /\ \E more : lines' = lines \cup more /\ \A l \in more : l.at = round
    BY <1>2, ExecuteSettles DEF Settled, LineFrom
  <2> QED BY <1>1, <2>1 DEF LinesArePast
<1>3. CASE Validate \/ ValidateFails
  <2>1. /\ stage = "validate" /\ stage' = "generate" /\ round' = round + 1 /\ lines' = lines
    BY <1>3 DEF Validate, ValidateFails, NextRound, Advance
  <2> QED BY <1>1, <2>1 DEF LinesArePast
<1>4. CASE UNCHANGED vars
  BY <1>4 DEF vars, LinesArePast
<1>5. CASE Generate \/ GenerateFails \/ Dispatch \/ DispatchFails \/ Rotate \/ RotateFails
  <2>1. UNCHANGED <<round, lines>> /\ stage # "validate" /\ stage' # "validate"
    BY <1>5 DEF Generate, GenerateFails, Dispatch, DispatchFails, Rotate, RotateFails, Advance
  <2> QED BY <2>1 DEF LinesArePast
<1> QED BY <1>2, <1>3, <1>4, <1>5 DEF Next

LEMMA OpeningsAreFresh ==
  ASSUME TypeOK, FreshInv, [Next]_vars, clean,
         NEW t \in portfolio', t \notin portfolio
  PROVE  OpensOnFreshSignal(t)
<1>1. Settled
  BY ExecuteSettles
  DEF Next, vars, Generate, GenerateFails, Dispatch, DispatchFails, Rotate, RotateFails,
      Validate, ValidateFails, NextRound
<1>2. PICK kept \in SUBSET portfolio : \E new \in Openings(kept) :
        portfolio' \in {portfolio, {}, kept \cup new}
  BY <1>1 DEF Settled
<1>3. PICK new \in Openings(kept) : portfolio' \in {portfolio, {}, kept \cup new}
  BY <1>2
<1>4. t \in new
  BY <1>2, <1>3
<1>5. Admissible(kept) /\ t = NewTrade
  BY <1>4, NewTradeTyped
<1>6. /\ t.slot = rotation.cand.slot /\ t.gen = round
      /\ t.slot.sym \notin ActiveSymbols
  BY <1>1, <1>5 DEF Admissible, NewTrade, Settled, FreshInv, FreshFiles, ReportOfRound
<1>7. ASSUME NEW l \in Closed', l.trade.slot = t.slot PROVE l.at < t.gen
  <2>1. CASE l \in lines
    BY <1>1, <1>6, <2>1 DEF Settled, FreshInv, LinesArePast
  <2>2. CASE l \notin lines
    <3>1. l \in lines' /\ l.event = "PAPER_CLOSED"
      BY <1>7 DEF Closed
    <3>2. l.trade \in portfolio
      BY <1>1, <2>2, <3>1 DEF Settled, LineFrom
    <3> QED BY <1>6, <1>7, <3>2 DEF ActiveSymbols
  <2> QED BY <2>1, <2>2
<1> QED BY <1>6, <1>7 DEF OpensOnFreshSignal

(* However old the files that failed stages left behind, a round in which   *)
(* no stage has failed so far opens trades only on its own signals.         *)
THEOREM CleanRoundsAreFresh == Spec => FreshWhenClean
<1>1. Init => FreshInv
  BY DEF Init, FreshInv, FreshFiles, SignalsOfRound, CandidatesOfRound, ReportOfRound,
         LinesArePast
<1>2. TypeOK /\ FreshInv /\ [Next]_vars => FreshInv'
  BY FilesStep, LinesStep DEF FreshInv
<1>3. TypeOK /\ FreshInv /\ [Next]_vars
        => [clean => \A t \in portfolio' \ portfolio : OpensOnFreshSignal(t)]_vars
  BY OpeningsAreFresh
<1> QED BY <1>1, <1>2, <1>3, TypeCorrect, PTL DEF Spec, FreshWhenClean

-----------------------------------------------------------------------------
(* The record a live review rests on                                       *)

(* Every trade of the record is open or has its ending line, an open one    *)
(* has none, and none has two.                                              *)
IsSettled(t) == \E m \in lines : m.trade = t /\ m.event # "PAPER_OPEN"
OpenOrSettled == \A l \in lines : l.trade \in portfolio \/ IsSettled(l.trade)
OpenUnsettled == \A l \in lines : l.trade \in portfolio => l.event = "PAPER_OPEN"
ClosedOnce == \A l, m \in Closed : l.trade = m.trade => l = m

(* One run of the ledger a round: a trade it opens is none it knows of.     *)
OpenedBy(t) == IF stage = "validate" THEN t.opened <= round ELSE t.opened < round
TradesArePast == (\A t \in portfolio : OpenedBy(t)) /\ (\A l \in lines : OpenedBy(l.trade))

ReadyIsCounted == JustReady => portfolio = {} /\ Cardinality(Closed) >= MinClosed
RecordInv ==
  /\ OpenOrSettled /\ OpenUnsettled /\ ClosedOnce /\ TradesArePast
  /\ IsFiniteSet(portfolio) /\ IsFiniteSet(lines) /\ ReadyIsCounted
CleanInv == faults = 0 => RecordInv

LEMMA RecordExecute ==
  ASSUME TypeOK, RecordInv, Execute
  PROVE  RecordInv'
<1>1. /\ stage = "execute" /\ stage' = "validate" /\ round' = round /\ round \in Nat
      /\ verdict' = verdict
  BY DEF Execute, Advance, TypeOK
<1>2. PICK end \in [portfolio -> Endings], r \in [portfolio -> Results] :
        \E new \in Openings(Staying(end)) :
           /\ portfolio' = Staying(end) \cup new
           /\ lines' = lines \cup EndingLines(end, r) \cup Opening(new)
  BY DEF Execute
<1>3. PICK new \in Openings(Staying(end)) :
        /\ portfolio' = Staying(end) \cup new
        /\ lines' = (lines \cup EndingLines(end, r)) \cup Opening(new)
  BY <1>2
<1>4. new = {} \/ new = {NewTrade}
  BY DEF Openings
<1>5. \A t \in new : t.opened = round
  BY <1>4 DEF NewTrade
<1>6. \A l \in EndingLines(end, r) :
        \E t \in portfolio :
           /\ end[t] # "PAPER_OPEN"
           /\ l = LineOf(t, end[t], IF end[t] = "PAPER_CLOSED" THEN r[t] ELSE 0)
           /\ l.trade = t /\ l.event = end[t]
  BY DEF EndingLines, LineOf
<1>7. \A t \in portfolio : end[t] # "PAPER_OPEN" =>
        \E l \in EndingLines(end, r) : l.trade = t /\ l.event # "PAPER_OPEN"
  <2> TAKE t \in portfolio
  <2> HAVE end[t] # "PAPER_OPEN"
  <2>1. LineOf(t, end[t], IF end[t] = "PAPER_CLOSED" THEN r[t] ELSE 0) \in EndingLines(end, r)
    BY DEF EndingLines
  <2> QED BY <2>1 DEF LineOf
<1>8. \A l \in Opening(new) : l.trade \in new /\ l.event = "PAPER_OPEN"
  BY DEF Opening, LineOf
<1>9. Staying(end) \subseteq portfolio /\ \A t \in portfolio : t \in Staying(end) <=> end[t] = "PAPER_OPEN"
  BY DEF Staying
<1>10. /\ \A t \in portfolio : t.opened \in Nat /\ t.opened < round
       /\ \A l \in lines : l.trade.opened \in Nat /\ l.trade.opened < round
  BY <1>1 DEF RecordInv, TradesArePast, OpenedBy, TypeOK, Line, Trade
<1>11. /\ \A l \in lines : l.trade \notin new
       /\ \A t \in portfolio : t \notin new
  BY <1>1, <1>5, <1>10
<1>12. OpenOrSettled'
  <2> SUFFICES ASSUME NEW l \in lines' PROVE l.trade \in portfolio' \/ IsSettled(l.trade)'
    BY DEF OpenOrSettled
  <2>1. CASE l \in lines
    <3>1. CASE IsSettled(l.trade)
      BY <1>3, <3>1 DEF IsSettled
    <3>2. CASE l.trade \in portfolio
      BY <1>3, <1>7, <1>9, <3>2 DEF IsSettled
    <3> QED BY <2>1, <3>1, <3>2 DEF RecordInv, OpenOrSettled
  <2>2. CASE l \in EndingLines(end, r)
    BY <1>3, <1>6, <2>2 DEF IsSettled
  <2>3. CASE l \in Opening(new)
    BY <1>3, <1>8, <2>3
  <2> QED BY <1>3, <2>1, <2>2, <2>3
<1>13. OpenUnsettled'
  <2> SUFFICES ASSUME NEW l \in lines', l.trade \in portfolio' PROVE l.event = "PAPER_OPEN"
    BY DEF OpenUnsettled
  <2>1. CASE l \in lines
    BY <1>3, <1>9, <1>11, <2>1 DEF RecordInv, OpenUnsettled
  <2>2. CASE l \in EndingLines(end, r)
    BY <1>3, <1>6, <1>9, <1>11, <2>2
  <2> QED BY <1>3, <1>8, <2>1, <2>2
<1>14. ClosedOnce'
  <2>1. /\ \A l \in Closed : l \in lines /\ l.event = "PAPER_CLOSED"
        /\ \A l \in Closed' : /\ l \in Closed \/ l \in EndingLines(end, r)
                              /\ l.event = "PAPER_CLOSED"
    BY <1>3, <1>8 DEF Closed
  <2>2. \A l \in Closed : l.trade \notin portfolio
    BY <2>1 DEF RecordInv, OpenUnsettled
  <2>3. \A l \in EndingLines(end, r) : l.trade \in portfolio
    BY <1>6
  <2>4. \A l, m \in EndingLines(end, r) : l.trade = m.trade => l = m
    BY <1>6
  <2>5. \A l, m \in Closed : l.trade = m.trade => l = m
    BY DEF RecordInv, ClosedOnce
  <2> QED BY <2>1, <2>2, <2>3, <2>4, <2>5 DEF ClosedOnce
<1>15. TradesArePast'
  <2>1. \A t \in portfolio' : t.opened <= round
    BY <1>1, <1>3, <1>5, <1>9, <1>10
  <2>2. \A l \in lines' : l.trade.opened <= round
    BY <1>1, <1>3, <1>5, <1>6, <1>8, <1>10
  <2> QED BY <1>1, <2>1, <2>2 DEF TradesArePast, OpenedBy
<1>16. IsFiniteSet(portfolio') /\ IsFiniteSet(lines')
  <2>1. IsFiniteSet(portfolio) /\ IsFiniteSet(lines)
    BY DEF RecordInv
  <2>2. IsFiniteSet(new)
    BY <1>4, FS_EmptySet, FS_Singleton
  <2>3. IsFiniteSet(Staying(end))
    BY <1>9, <2>1, FS_Subset
  <2>4. IsFiniteSet(EndingLines(end, r))
    <3> DEFINE S == {t \in portfolio : end[t] # "PAPER_OPEN"}
               f == [t \in S |->
                       LineOf(t, end[t], IF end[t] = "PAPER_CLOSED" THEN r[t] ELSE 0)]
    <3>1. IsFiniteSet(S)
      BY <2>1, FS_Subset
    <3>2. f \in Surjection(S, EndingLines(end, r))
      BY DEF Surjection, EndingLines
    <3> HIDE DEF S, f
    <3> QED BY <3>1, <3>2, FS_Surjection
  <2>5. IsFiniteSet(Opening(new))
    <3> DEFINE f == [t \in new |-> LineOf(t, "PAPER_OPEN", 0)]
    <3>1. f \in Surjection(new, Opening(new))
      BY DEF Surjection, Opening
    <3> HIDE DEF f
    <3> QED BY <2>2, <3>1, FS_Surjection
  <2> QED BY <1>3, <2>1, <2>2, <2>3, <2>4, <2>5, FS_Union
<1>17. ReadyIsCounted'
  BY <1>1 DEF ReadyIsCounted, JustReady
<1> QED BY <1>12, <1>13, <1>14, <1>15, <1>16, <1>17 DEF RecordInv

LEMMA RecordValidate ==
  ASSUME TypeOK, RecordInv, Validate
  PROVE  RecordInv'
<1>1. /\ stage = "validate" /\ stage' = "generate" /\ round' = round + 1 /\ round \in Nat
      /\ portfolio' = portfolio /\ lines' = lines /\ verdict' \in Assessments
  BY DEF Validate, NextRound, Advance, TypeOK
<1>2. \A t \in Trade : t.opened \in Nat
  BY DEF Trade
<1>3. TradesArePast'
  <2>1. portfolio \subseteq Trade /\ \A l \in lines : l.trade \in Trade
    BY DEF TypeOK, Line
  <2> QED BY <1>1, <1>2, <2>1 DEF RecordInv, TradesArePast, OpenedBy
<1>4. ReadyIsCounted'
  <2> SUFFICES ASSUME verdict' = "LIVE_REVIEW_READY"
               PROVE  portfolio' = {} /\ Cardinality(Closed)' >= MinClosed
    BY DEF ReadyIsCounted, JustReady
  <2>1. "LIVE_REVIEW_READY" \in Assessments
    BY <1>1
  <2>2. portfolio = {} /\ Judge = "LIVE_REVIEW_READY"
    BY <2>1 DEF Assessments, Evaluations
  <2>3. Cardinality(Closed) >= MinClosed
    BY <2>2 DEF Judge
  <2>4. Closed' = Closed
    BY <1>1 DEF Closed
  <2> QED BY <1>1, <2>2, <2>3, <2>4
<1> QED
  BY <1>1, <1>3, <1>4 DEF RecordInv, OpenOrSettled, OpenUnsettled, ClosedOnce, IsSettled, Closed

LEMMA CleanStep ==
  ASSUME TypeOK, CleanInv, [Next]_vars
  PROVE  CleanInv'
<1> SUFFICES ASSUME faults' = 0 PROVE RecordInv'
  BY DEF CleanInv
<1>1. faults \in Nat
  BY PaperPipelineAssumption DEF TypeOK
<1>2. ~Fault /\ ~ValidateFails
  BY <1>1 DEF Fault, ValidateFails
<1>3. CASE Execute
  <2>1. RecordInv
    BY <1>3 DEF CleanInv, Execute, NoFault
  <2> QED BY <1>3, <2>1, RecordExecute
<1>4. CASE Validate
  <2>1. RecordInv
    BY <1>4 DEF CleanInv, Validate
  <2> QED BY <1>4, <2>1, RecordValidate
<1>5. CASE Generate \/ Dispatch \/ Rotate
  <2>1. /\ UNCHANGED <<round, portfolio, lines, verdict, faults>>
        /\ stage # "validate" /\ stage' \notin {"validate", "generate"}
    BY <1>5 DEF Generate, Dispatch, Rotate, Advance, NoFault
  <2> QED
    BY <2>1 DEF CleanInv, RecordInv, OpenOrSettled, OpenUnsettled, ClosedOnce, IsSettled, Closed,
                TradesArePast, OpenedBy, ReadyIsCounted, JustReady
<1>6. CASE UNCHANGED vars
  BY <1>6 DEF vars, CleanInv, RecordInv, OpenOrSettled, OpenUnsettled, ClosedOnce, IsSettled,
              Closed, TradesArePast, OpenedBy, ReadyIsCounted, JustReady
<1> QED
  BY <1>2, <1>3, <1>4, <1>5, <1>6
  DEF Next, GenerateFails, DispatchFails, RotateFails, ExecuteFails

LEMMA ReadyReviews ==
  ASSUME RecordInv
  PROVE  ReviewCountsTrades /\ (JustReady => \A l \in lines : IsSettled(l.trade))
<1> SUFFICES ASSUME JustReady
             PROVE  Cardinality(CountedTrades) >= MinClosed /\ \A l \in lines : IsSettled(l.trade)
  BY DEF ReviewCountsTrades
<1>1. portfolio = {} /\ Cardinality(Closed) >= MinClosed
  BY DEF RecordInv, ReadyIsCounted
<1>2. \A l \in lines : IsSettled(l.trade)
  BY <1>1 DEF RecordInv, OpenOrSettled
<1>3. IsFiniteSet(Closed)
  <2>1. Closed \subseteq lines
    BY DEF Closed
  <2> QED BY <2>1, FS_Subset DEF RecordInv
<1>4. IsFiniteSet(CountedTrades) /\ Cardinality(Closed) <= Cardinality(CountedTrades)
  <2> DEFINE f == [l \in Closed |-> l.trade]
  <2>1. f \in Surjection(Closed, CountedTrades)
    BY DEF Surjection, CountedTrades
  <2>2. f \in Injection(Closed, CountedTrades)
    BY DEF Injection, IsInjective, CountedTrades, RecordInv, ClosedOnce
  <2> HIDE DEF f
  <2>3. IsFiniteSet(CountedTrades)
    BY <1>3, <2>1, FS_Surjection
  <2> QED BY <2>2, <2>3, FS_Injection
<1>5. Cardinality(Closed) \in Nat /\ Cardinality(CountedTrades) \in Nat /\ MinClosed \in Nat
  BY <1>3, <1>4, FS_CardinalityType, PaperPipelineAssumption
<1> QED BY <1>1, <1>2, <1>4, <1>5

(* As long as no stage has failed, a verdict that sends the system to live  *)
(* review counts as many different trades as it claims, and leaves no trade *)
(* of the record unsettled.                                                 *)
THEOREM ReviewsAreEarned == Spec => []CleanReview
<1>1. Init => CleanInv
  BY FS_EmptySet
  DEF Init, CleanInv, RecordInv, OpenOrSettled, OpenUnsettled, ClosedOnce, Closed,
      TradesArePast, ReadyIsCounted, JustReady
<1>2. TypeOK /\ CleanInv /\ [Next]_vars => CleanInv'
  BY CleanStep
<1>3. CleanInv => CleanReview
  BY ReadyReviews
  DEF CleanInv, CleanReview, CleanReviewCounts, CleanReviewSettled, IsSettled
<1> QED BY <1>1, <1>2, <1>3, TypeCorrect, PTL DEF Spec
=============================================================================
