------------------------------ MODULE Cognition ------------------------------
(***************************************************************************)
(* The reasoner of ultimate_trader/cognitive_engine and the engines of     *)
(* ultimate_trader/metacognition_engine that judge its reasoning.          *)
(*                                                                         *)
(* An observation has a type and the telling words of its description.     *)
(* `obs' is the sequence of observations of one symbol; what becomes of it *)
(* is a `chain', a record.  Scores and probabilities are whole points.     *)
(***************************************************************************)
EXTENDS Integers, Sequences, FiniteSetsExt, Functions

ObservationType ==
  {"PRICE_ACTION", "VOLUME", "LIQUIDITY", "ORDER_FLOW", "VOLATILITY", "FUNDING", "OPEN_INTEREST",
   "REGIME", "SENTIMENT", "RISK", "UNKNOWN"}
Word == {"bearish", "trap", "thin", "chop", "unclear", "spike", "expanding"}
Observation == [type : ObservationType, says : SUBSET Word]

Clamped(x) == IF x < 0 THEN 0 ELSE IF x > 100 THEN 100 ELSE x
Least(x, y) == IF x < y THEN x ELSE y
If(condition, points) == IF condition THEN points ELSE 0
Sum(w) == FoldFunction(LAMBDA v, sum : v + sum, 0, w)
Saying(obs, type, word) == {i \in DOMAIN obs : obs[i].type = type /\ word \in obs[i].says}
Types(obs) == [i \in DOMAIN obs |-> obs[i].type]
Present(types) == {types[i] : i \in DOMAIN types}

-----------------------------------------------------------------------------
(* HypothesisReasoningEngine.generate_hypotheses: each type of observation  *)
(* brings its templates once, at its first observation; all its             *)
(* observations support them, and no hypothesis is ever given a confidence  *)
(* or a status.                                                             *)
Idea(dir, trend) == [dir |-> dir, trend |-> trend]
Templates(type) ==
  CASE type = "PRICE_ACTION" -> <<Idea("LONG", TRUE), Idea("SHORT", TRUE), Idea("NEUTRAL", FALSE)>>
    [] type = "REGIME" -> <<Idea("LONG", TRUE), Idea("NO_TRADE", FALSE)>>
    [] type \in {"VOLUME", "LIQUIDITY", "ORDER_FLOW", "VOLATILITY"} ->
         <<Idea("LONG", FALSE), Idea("SHORT", FALSE)>>
    [] OTHER -> <<>>
Hypothesis(idea, at, no, support) ==
  [dir |-> idea.dir, trend |-> idea.trend, at |-> at, no |-> no, support |-> support, confidence |-> 0]
Alike(types, i) == {j \in DOMAIN types : types[j] = types[i]}
Firsts(types) == {i \in DOMAIN types : \A j \in Alike(types, i) : i <= j}
OfType(types, i) ==
  {Hypothesis(Templates(types[i])[n], i, n, Alike(types, i)) : n \in DOMAIN Templates(types[i])}
Hypotheses(types) ==
  LET all == UNION {OfType(types, i) : i \in Firsts(types)}
  IN IF all = {} THEN {Hypothesis(Idea("NO_TRADE", FALSE), 1, 1, {})} ELSE all
(* Reasoner._select_best_hypothesis: the first of those most confident of.  *)
Before(g, h) == g.at < h.at \/ (g.at = h.at /\ g.no < h.no)
Best(hyps) ==
  CHOOSE h \in hyps : \A g \in hyps :
    g.confidence < h.confidence \/ (g.confidence = h.confidence /\ ~Before(g, h))

(* EvidenceEvaluator: an observation counts once for every hypothesis it    *)
(* supports; what is missing is missing once for every hypothesis, too.     *)
EvidenceFor(hyps) == Sum([h \in hyps |-> Cardinality(h.support)])
MissingFor(types, h) ==
  (CASE h.dir \in {"LONG", "SHORT"} -> {"ORDER_FLOW", "VOLUME", "LIQUIDITY"}
     [] h.dir = "NO_TRADE" -> {"REGIME"}
     [] OTHER -> {}) \ Present(types)
MissingCount(types, hyps) == Sum([h \in hyps |-> Cardinality(MissingFor(types, h))])
Missing(types, hyps) == UNION {MissingFor(types, h) : h \in hyps}

(* ContradictionDetector.detect_all, by severity.  The rule about ratio and *)
(* volatility never speaks.                                                 *)
Biased(hyps, dirs) == \E h \in hyps : h.dir \in dirs
Contradictions(obs, hyps) ==
  {r \in {"flow", "volume", "trap", "chop", "confidence"} :
     CASE r = "flow" -> Biased(hyps, {"LONG"}) /\ Saying(obs, "ORDER_FLOW", "bearish") # {}
       [] r = "volume" -> Biased(hyps, {"LONG", "SHORT"}) /\ "VOLUME" \notin Present(Types(obs))
       [] r = "trap" -> Biased(hyps, {"LONG"}) /\ Saying(obs, "LIQUIDITY", "trap") # {}
       [] r = "chop" -> (\E h \in hyps : h.trend) /\ Saying(obs, "REGIME", "chop") # {}
       [] r = "confidence" -> \E h \in hyps : h.confidence > 70 /\ Cardinality(h.support) <= 1}
Severity(r) ==
  CASE r \in {"trap", "chop"} -> "HIGH" [] r \in {"flow", "confidence"} -> "MEDIUM" [] OTHER -> "LOW"
Severities(contradictions, high, medium, low) ==
  LET Of(severity) == Cardinality({r \in contradictions : Severity(r) = severity})
  IN high * Of("HIGH") + medium * Of("MEDIUM") + low * Of("LOW")

(* UncertaintyEngine.assess_uncertainty                                     *)
WordPoints(obs) ==
  LET Points(type, word, points) == points * Cardinality(Saying(obs, type, word))
  IN Points("REGIME", "unclear", 10) + Points("VOLATILITY", "spike", 8)
     + Points("VOLATILITY", "expanding", 5) + Points("LIQUIDITY", "thin", 10)
Uncertainty(obs, contradictions, missing) ==
  Least(100, 5 * Cardinality({"PRICE_ACTION", "VOLUME"} \ Present(Types(obs)))
             + Severities(contradictions, 15, 8, 3)
             + WordPoints(obs)
             + If("ORDER_FLOW" \notin Present(Types(obs)), 8)
             + Least(5 * missing, 20))

(* ConfidenceUpdater.update; there is never evidence against.               *)
Confidence(for, missing, uncertainty) == Clamped(Least(50 + 8 * for - 5 * missing, 100 - uncertainty))
Risk(missing, warnings) == Clamped(50 + 6 * warnings + 4 * missing)

(* Reasoner.reason: the chain, which recommends a trade or gives a reason   *)
(* not to.                                                                  *)
Tradeable(best, confidence, risk, contradictions) ==
  /\ best.dir \in {"LONG", "SHORT"}
  /\ confidence >= 60 /\ risk <= 60
  /\ \A r \in contradictions : Severity(r) # "HIGH"
Reason(obs) ==
  IF obs = <<>> THEN
    [for |-> 0, missing |-> {}, contradictions |-> {}, uncertainty |-> 50, confidence |-> 50,
     risk |-> 50, bias |-> "NO_TRADE", trade |-> FALSE]
  ELSE
    LET types == Types(obs)
        hyps == Hypotheses(types)
        missing == MissingCount(types, hyps)
        contradictions == Contradictions(obs, hyps)
        uncertainty == Uncertainty(obs, contradictions, missing)
        confidence == Confidence(EvidenceFor(hyps), missing, uncertainty)
        risk == Risk(missing, Cardinality(contradictions))
    IN [for |-> EvidenceFor(hyps), missing |-> Missing(types, hyps),
        contradictions |-> contradictions, uncertainty |-> uncertainty,
        confidence |-> confidence, risk |-> risk, bias |-> Best(hyps).dir,
        trade |-> Tradeable(Best(hyps), confidence, risk, contradictions)]

-----------------------------------------------------------------------------
(* SelfCritiqueEngine.critique                                              *)
ShouldReduce(chain) == chain.uncertainty > 60 \/ Cardinality(chain.missing) > 3
ShouldReject(chain) ==
  ~chain.trade \/ chain.uncertainty > 80 \/ Cardinality(chain.contradictions) > 3

(* BiasDetector.detect; four of the seven biases are never scored.          *)
BiasScores(chain) ==
  [CONFIRMATION_BIAS |->
     If(chain.for > 0, 40 + 20) + If(chain.trade /\ chain.contradictions # {}, 15),
   OVERCONFIDENCE |->
     If(chain.confidence > 70 /\ chain.for <= 2, 40)
     + If(chain.confidence > 60 /\ chain.uncertainty > 50, 25) + If(chain.confidence > 50 + 30, 20),
   FORCED_TRADE |->
     If(chain.trade, If(chain.uncertainty > 60, 40) + If(Cardinality(chain.missing) > 3, 20)
                     + If(chain.risk > 60, 20))]
Biases(chain) == {b \in DOMAIN BiasScores(chain) : BiasScores(chain)[b] > 50}

(* OverconfidenceGuard.evaluate                                             *)
Reduction(chain) ==
  If(chain.confidence > 60 /\ chain.for <= 2, 15)
  + Least(8 * Cardinality(chain.contradictions), 20)
  + If(chain.uncertainty > 60, 10)
  + Least(3 * Cardinality(chain.missing), 10)
Adjusted(chain) == Clamped(chain.confidence - Reduction(chain))

(* DecisionAuditor.audit                                                    *)
Quality(chain) == Clamped(50 + Least(10 * chain.for, 30) - 5 * Cardinality(chain.missing))
Alignment(chain) == IF chain.risk = 0 THEN 50 ELSE 100 - chain.risk
Justified(chain, score) ==  \* the score of the confidence is at least `score'
  IF chain.for = 0 THEN 20 >= score
  ELSE Least(100 * 20 * chain.for, 50 * chain.confidence) >= score * 20 * chain.for
Forced(chain) ==
  If(chain.trade, If(chain.uncertainty > 60, 35) + If(Cardinality(chain.missing) > 2, 20)
                  + If(chain.risk > 60, 20) + If(Cardinality(chain.contradictions) > 1, 15))
AuditPassed(chain) ==
  /\ Quality(chain) >= 40
  /\ Least(100, Severities(chain.contradictions, 25, 15, 5)) <= 70
  /\ chain.uncertainty <= 70
  /\ Alignment(chain) >= 40
  /\ Justified(chain, 40)
  /\ Forced(chain) <= 70

(* TradeReadinessChecker.assess: each of seven questions scores, or blocks. *)
Graded(good, fair, points, half) == IF good THEN points ELSE IF fair THEN half ELSE -5
Answers(chain, audited) ==
  [reasoner |-> Graded(chain.trade, FALSE, 20, 0),
   confidence |-> Graded(chain.confidence >= 60, chain.confidence >= 40, 20, 10),
   risk |-> Graded(chain.risk <= 50, chain.risk <= 70, 15, 5),
   uncertainty |-> Graded(chain.uncertainty <= 40, chain.uncertainty <= 60, 15, 5),
   audit |-> Graded(audited, FALSE, 10, 0),
   contradictions |->
     Graded(chain.contradictions = {}, Cardinality(chain.contradictions) <= 2, 10, 5),
   missing |-> Graded(chain.missing = {}, Cardinality(chain.missing) <= 2, 10, 5)]
Blocking(chain, audited) ==
  {q \in DOMAIN Answers(chain, audited) : Answers(chain, audited)[q] < 0}
Score(chain, audited) == Clamped(Sum(Answers(chain, audited)))
Ready(chain, audited, score) ==
  Score(chain, audited) >= score /\ Blocking(chain, audited) = {}
ForBacktest == 40
ForSignal == 50
ForPaper == 60
ForLive == 80
(* The text of a failed audit is looked for in a spelling it does not have. *)
Recommendation(chain, audited, live) ==
  CASE live /\ Ready(chain, audited, ForLive) -> "LIVE_TRADE_BLOCKED"
    [] Ready(chain, audited, ForPaper) -> "PAPER_TRADE_ONLY"
    [] Ready(chain, audited, ForSignal) \/ Ready(chain, audited, ForBacktest) -> "PROCEED_TO_BACKTEST"
    [] "confidence" \in Blocking(chain, audited) -> "COLLECT_MORE_DATA"
    [] "uncertainty" \in Blocking(chain, audited) -> "WAIT"
    [] "contradictions" \in Blocking(chain, audited) \/ Score(chain, audited) < 20 -> "REJECT_IDEA"
    [] OTHER -> "WAIT"
(* MetacognitiveReportGenerator.generate asks for readiness without saying  *)
(* what the audit found, and what it hears replaces all other actions.      *)
FinalAction(chain) == Recommendation(chain, TRUE, FALSE)

-----------------------------------------------------------------------------
(* ScenarioSimulator.simulate: continuation, reversal, fakeout and chop,    *)
(* rounded after they are made to add up to a hundred.                      *)
Scenarios(chain) ==
  LET doubt == If(chain.contradictions # {}, 10)
      unsure == If(chain.uncertainty > 50, 5)
      base == 50 - 5 * Cardinality(chain.missing) - doubt
  IN [continuation |-> IF base < 10 THEN 10 ELSE base, reversal |-> 25 + doubt + unsure,
      fakeout |-> 15 + doubt, chop |-> 10 + unsure]
Normalized(s) ==
  LET total == Sum(s)
  IN [x \in DOMAIN s |-> (200 * s[x] + total) \div (2 * total)]
(* The two outcomes of a continuation swapped.                               *)
ContinuationSwapped(bias) == IF bias = "LONG" THEN "SHORT" ELSE "LONG"
ContinuationOf(bias) == IF bias = "LONG" THEN "LONG" ELSE "SHORT"
ReversalOf(bias) == IF bias = "SHORT" THEN "LONG" ELSE "SHORT"
WeightedBias(chain) ==
  LET p == Normalized(Scenarios(chain))
      Toward(dir) == If(ContinuationOf(chain.bias) = dir, p.continuation)
                     + If(ReversalOf(chain.bias) = dir, p.reversal)
  IN IF Toward("LONG") > Toward("SHORT") + 10 THEN "LONG"
     ELSE IF Toward("SHORT") > Toward("LONG") + 10 THEN "SHORT" ELSE "NEUTRAL"
ScenarioConflict(chain) ==
  LET p == Normalized(Scenarios(chain))
      most == Max({p[x] : x \in DOMAIN p})
  IN IF most < 35 THEN 70 ELSE IF most < 50 THEN 40 ELSE 10

-----------------------------------------------------------------------------
(* What the report would trade on paper is what the others see no harm in:  *)
(* the critique does not reject it, nobody calls it overconfident or forced,*)
(* the scenarios lean the way of its bias and do not contradict each other, *)
(* and the guard leaves it confident enough.  Only the audit is not heard:  *)
(* it passes none of them.                                                  *)
JudgesAgree(chain) ==
  FinalAction(chain) = "PAPER_TRADE_ONLY" =>
    /\ ~ShouldReject(chain) /\ ~ShouldReduce(chain)
    /\ Biases(chain) \cap {"OVERCONFIDENCE", "FORCED_TRADE"} = {}
    /\ WeightedBias(chain) \in {chain.bias, "NEUTRAL"} /\ ScenarioConflict(chain) <= 40
    /\ Adjusted(chain) >= 40
    /\ ~AuditPassed(chain)

(* Bad news never helps: an idea that is ready stays so when any telling    *)
(* word of an observation is unsaid.                                        *)
Unsaid(obs, i, word) == [obs EXCEPT ![i].says = @ \ {word}]
BadNewsNeverHelps(obs) ==
  \A score \in {ForBacktest, ForSignal, ForPaper, ForLive} :
    Ready(Reason(obs), TRUE, score) =>
      \A i \in DOMAIN obs : \A word \in obs[i].says :
        Ready(Reason(Unsaid(obs, i, word)), TRUE, score)
JudgedSoundly(obs) == JudgesAgree(Reason(obs)) /\ BadNewsNeverHelps(obs)
=============================================================================
