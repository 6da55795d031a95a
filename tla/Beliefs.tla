------------------------------- MODULE Beliefs -------------------------------
(***************************************************************************)
(* ultimate_trader/belief_engine: competing beliefs whose probabilities    *)
(* are updated from evidence, normalised over those not rejected, and      *)
(* rejected for good below a threshold.                                    *)
(*                                                                         *)
(* Probabilities are per mille, rounded to the nearest; the code's floats  *)
(* keep more digits.                                                       *)
(***************************************************************************)
EXTENDS Integers, Sequences, FiniteSetsExt

CONSTANTS
  Prior,        \* the beliefs' prior probabilities, a sequence
  NoTradeOf,    \* the beliefs whose direction is NO_TRADE
  Evidence,     \* [target, yes, no, weight]: likelihoods and reliability
  Thresholds,   \* of reject_below_threshold
  MaxUpdates    \* bound

VARIABLES
  probability,  \* posterior_probability, set by the first normalisation
  rejected,     \* the beliefs whose status is REJECTED
  dominant,     \* dominant_belief, 0 for none
  noTrade,      \* no_trade_probability
  updates

vars == <<probability, rejected, dominant, noTrade, updates>>
Believed == DOMAIN Prior
Whole == 1000
Limits ==
  /\ Prior \in Seq(1 .. Whole)
  /\ \A e \in Evidence : e.target \in Believed /\ {e.yes, e.no, e.weight} \subseteq 0 .. Whole
  /\ NoTradeOf \subseteq Believed /\ Thresholds \subseteq 0 .. Whole /\ MaxUpdates \in Nat

Clamped(low, x, high) == IF x < low THEN low ELSE IF x > high THEN high ELSE x
Rounded(x, y) == (2 * x + y) \div (2 * y)   \* within 32 bits
Sum(p, S) == FoldSet(LAMBDA b, sum : p[b] + sum, 0, S)

-----------------------------------------------------------------------------
(* BayesianUpdater.update                                                   *)
Tempered(likelihood, weight) == 500 + Rounded((likelihood - 500) * weight, Whole)
Posterior(prior, e) ==
  LET p == Clamped(1, prior, 999)
      yes == p * Tempered(e.yes, e.weight)
      no == (Whole - p) * Clamped(1, Tempered(e.no, e.weight), Whole)
  IN Clamped(10, Rounded(Whole * yes, yes + no), 990)

(* The part of update_multiple and of normalize that both have: every       *)
(* belief, rejected or not, is divided by the total of those that are not.  *)
Active(gone) == Believed \ gone
Shared(p, gone) ==
  LET total == Sum(p, Active(gone))
  IN IF total = 0 THEN p
     ELSE [b \in Believed |-> Clamped(10, Rounded(p[b] * Whole, total), 990)]
UpdateMultiple(p, e) ==
  Shared([b \in Believed |-> IF b = e.target THEN Posterior(p[b], e) ELSE p[b]], rejected)

(* BeliefState.normalize: what is missing from the whole, or too much, is   *)
(* spread over the active beliefs.                                          *)
Spread(p, gone) ==
  LET n == Cardinality(Active(gone))
      missing == Whole - Sum(p, Believed)
  IN [b \in Believed |->
        IF b \in gone \/ missing \in -1 .. 1 THEN p[b]
        ELSE Clamped(10, p[b] + Rounded(missing, n), 990)]
(* max() keeps the first of the highest.                                    *)
Highest(p, S) ==
  IF S = {} THEN 0
  ELSE Min({b \in S : \A c \in S : p[c] <= p[b]})
(* With nothing active, normalize makes all equal and returns: the dominant *)
(* belief and no_trade_probability stay what they were.                     *)
Normalize(p, gone) ==
  IF Active(gone) = {}
  THEN /\ probability' = [b \in Believed |-> Whole \div Cardinality(Believed)]
       /\ UNCHANGED <<dominant, noTrade>>
  ELSE /\ probability' = Spread(Shared(p, gone), gone)
       /\ dominant' = Highest(probability', Active(gone))
       /\ noTrade' = Sum(probability', NoTradeOf)

Init ==
  /\ rejected = {} /\ updates = 0
  /\ probability = Spread(Shared(Prior, {}), {})
  /\ dominant = Highest(probability, Believed)
  /\ noTrade = Sum(probability, NoTradeOf)

(* update_from_evidence; reject_below_threshold                             *)
Update(e) ==
  /\ updates < MaxUpdates /\ updates' = updates + 1
  /\ Normalize(UpdateMultiple(probability, e), rejected)
  /\ UNCHANGED rejected
RejectBelow(threshold) ==
  /\ updates < MaxUpdates /\ updates' = updates + 1
  /\ rejected' = rejected \cup {b \in Believed : probability[b] < threshold}
  /\ Normalize(probability, rejected')

Next ==
  \/ \E e \in Evidence : Update(e)
  \/ \E t \in Thresholds : RejectBelow(t)
Spec == Init /\ [][Next]_vars

-----------------------------------------------------------------------------
Total == Sum(probability, Believed)
(* A rejected belief is divided by what the active ones have, so that       *)
(* rejecting others and evidence that tells nothing give it weight: it      *)
(* loses some only to evidence against it or for an active belief.          *)
RejectedLoseToEvidence ==
  [][\A b \in rejected :
       probability'[b] < probability[b] /\ Active(rejected') # {} =>
         \E e \in Evidence :
           /\ IF e.target = b THEN e.yes < e.no ELSE e.target \notin rejected /\ e.yes > e.no
           /\ Update(e)]_vars

(* The dominant belief is an active one as long as there is any.            *)
DominantIsActive == Active(rejected) # {} => dominant \in Active(rejected)

=============================================================================
