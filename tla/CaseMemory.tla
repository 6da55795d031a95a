----------------------------- MODULE CaseMemory -----------------------------
(***************************************************************************)
(* ultimate_trader/memory_engine: a library of market cases kept in a JSON *)
(* file, the cases similar to a signature, what they do to a confidence,   *)
(* and the rates of success the RegimeMemory builds from them.             *)
(*                                                                         *)
(* The library is the dictionary in its order of insertion.  Every change  *)
(* writes the whole file in place: a process that dies while it writes     *)
(* leaves a torn file, which is no JSON and cannot be loaded again.        *)
(***************************************************************************)
EXTENDS Integers, Sequences, FiniteSetsExt, SequencesExt

CONSTANTS
  Cases,        \* case records: id, cats, feats, outcome, rr, adverse
  Signature,    \* the current signature: cats and feats
  MinMemory,    \* min_memory_threshold
  Limit,        \* the most similar cases that are returned
  Base,         \* confidence before calibration
  MaxWrites,    \* bound: adds and clears
  Null, Torn    \* an unknown value, an unreadable file

VARIABLES
  library,      \* _cases
  file,         \* the storage file: a sequence of cases, or Torn
  running,      \* a process holds the library
  acked,        \* ghost: the cases whose add_case returned since the last clear
  writes,
  regimes       \* RegimeMemory: <<success, failure>> per regime, or Never

vars == <<library, file, running, acked, writes, regimes>>

Never == <<>>
Labels == {c.cats["regime_label"] : c \in Cases}
Limits ==
  /\ MinMemory \in Nat /\ Limit \in Nat /\ Base \in 0 .. 100 /\ MaxWrites \in Nat
  /\ \A c \in Cases : c.rr # Null => c.rr \in Int
  /\ \A c \in Cases \cup {Signature} :
       /\ IsFiniteSet(DOMAIN c.cats) /\ IsFiniteSet(DOMAIN c.feats)
       /\ \A k \in DOMAIN c.feats : c.feats[k] \in Int
Sum(w) == FoldFunction(LAMBDA v, sum : v + sum, 0, w)

Init ==
  /\ library = <<>> /\ file = <<>> /\ running = FALSE /\ acked = {} /\ writes = 0
  /\ regimes = [r \in Labels |-> Never]

Where(lib, c) == {i \in DOMAIN lib : lib[i].id = c.id}
(* A case that is known is replaced by what it is now.                      *)
Added(lib, c) ==
  IF Where(lib, c) = {} THEN Append(lib, c)
  ELSE [lib EXCEPT ![CHOOSE i \in Where(lib, c) : TRUE] = c]

(* The constructor: json.load raises on a torn file, and there is no library. *)
Open ==
  /\ ~running /\ file # Torn
  /\ library' = file /\ running' = TRUE
  /\ regimes' = [r \in Labels |-> Never]
  /\ UNCHANGED <<file, acked, writes>>

(* add_case and clear, whose _save may be the last thing the process does.  *)
Saved(lib, kept) ==
  \/ file' = lib /\ library' = lib /\ acked' = kept /\ UNCHANGED running
  \/ file' = Torn /\ library' = <<>> /\ running' = FALSE /\ UNCHANGED acked
AddCase(c) ==
  /\ running /\ writes < MaxWrites /\ writes' = writes + 1
  /\ Saved(Added(library, c), {a \in acked : a.id # c.id} \cup {c})
  /\ UNCHANGED regimes
Clear ==
  /\ running /\ writes < MaxWrites /\ writes' = writes + 1
  /\ Saved(<<>>, {})
  /\ UNCHANGED regimes
Die ==
  /\ running /\ running' = FALSE /\ library' = <<>>
  /\ UNCHANGED <<file, acked, writes, regimes>>

-----------------------------------------------------------------------------
(* SimilarityEngine, in tenths of a point: fields known on both sides count *)
(* 60 %, features known on both sides 40 %.                                 *)
Known(a, b) == {f \in DOMAIN a.cats : a.cats[f] # Null /\ b.cats[f] # Null}
Categorical(a, b) ==
  LET same == {f \in Known(a, b) : a.cats[f] = b.cats[f]}
  IN IF Known(a, b) = {} THEN 0 ELSE (1000 * Cardinality(same)) \div Cardinality(Known(a, b))
Gap(x, y) == IF x < y THEN y - x ELSE x - y
Closeness(a, b, k) == 10 * (100 - Min({100, Gap(a.feats[k], b.feats[k])}))
Numeric(a, b) ==
  LET keys == DOMAIN a.feats \cap DOMAIN b.feats
  IN IF DOMAIN a.feats = {} /\ DOMAIN b.feats = {} THEN 1000
     ELSE IF keys = {} THEN 500
     ELSE Sum([k \in keys |-> Closeness(a, b, k)]) \div Cardinality(keys)
Similarity(a, b) == (6 * Categorical(a, b) + 4 * Numeric(a, b)) \div 10

(* find_similar_cases: those that fewer than Limit are closer than, of equal*)
(* ones the first in the library.                                           *)
Closer(i, j) ==
  LET s(n) == Similarity(Signature, library[n]) IN s(i) > s(j) \/ (s(i) = s(j) /\ i < j)
Near == {i \in DOMAIN library : Similarity(Signature, library[i]) >= 700}
Best == {i \in Near : Cardinality({j \in Near : Closer(j, i)}) < Limit}
Similar == {library[i] : i \in Best}

-----------------------------------------------------------------------------
(* Outcomes, over a set of cases.                                           *)
Of(cases, labels) == {c \in cases : c.outcome \in labels}
Resolved(cases) == Of(cases, {"WIN", "LOSS"})
WithRR(cases) == {c \in cases : c.rr # Null}
(* A loss counted by its size, as calculate_expectancy has it.              *)
TotalMagnitude(cases) ==
  Sum([c \in WithRR(cases) |-> IF c.rr < 0 THEN -c.rr ELSE c.rr])
Total(cases) == Sum([c \in WithRR(cases) |-> c.rr])
Rate(cases, label) ==
  (1000 * Cardinality(Of(cases, {label}))) \div Cardinality(Resolved(cases))

(* ConfidenceCalibrator.calibrate                                           *)
Praise(cases) ==
  IF Total(cases) > 2 * Cardinality(WithRR(cases)) THEN 15
  ELSE IF Total(cases) > Cardinality(WithRR(cases)) THEN 10 ELSE 5
Adjustment(cases) ==
  LET known == Resolved(cases)
  IN IF Cardinality(cases) < MinMemory THEN -10
     ELSE IF known = {} THEN -5
     ELSE IF 10 * Cardinality(Of(known, {"WIN"})) > 6 * Cardinality(known) /\ WithRR(known) # {}
          THEN Praise(known)
     ELSE IF 10 * Cardinality(Of(known, {"WIN"})) > 4 * Cardinality(known) THEN 0 ELSE -15
Calibrated(cases) == Max({0, Min({100, Base + Adjustment(cases)})})
RiskScore(cases) ==
  LET hurt == {c \in Resolved(cases) : c.adverse # Null}
      sum == Sum([c \in hurt |-> c.adverse])
  IN 50 + (IF Cardinality(cases) < MinMemory THEN 5
           ELSE IF sum > 3 * Cardinality(hurt) THEN 15
           ELSE IF 2 * sum > 3 * Cardinality(hurt) THEN 5 ELSE 0)

(* RegimeMemory.build_from_cases sets the rates of the regimes that have    *)
(* resolved cases and leaves what it knew of the others.                    *)
In(regime) == {c \in ToSet(library) : c.cats["regime_label"] = regime}
Build ==
  /\ running
  /\ regimes' = [r \in Labels |->
       IF Resolved(In(r)) = {} THEN regimes[r]
       ELSE <<Rate(In(r), "WIN"), Rate(In(r), "LOSS")>>]
  /\ regimes' # regimes
  /\ UNCHANGED <<library, file, running, acked, writes>>
(* get_regime_warning                                                       *)
Warning(regime) ==
  LET failed == IF regimes[regime] = Never THEN 0 ELSE regimes[regime][2]
  IN IF failed > 600 THEN "DANGEROUS" ELSE IF failed > 400 THEN "CAUTION"
     ELSE IF failed > 0 THEN "MODERATE" ELSE "UNKNOWN"

Next == Open \/ (\E c \in Cases : AddCase(c)) \/ Clear \/ Die \/ Build
Spec == Init /\ [][Next]_vars

-----------------------------------------------------------------------------
(* A library that could be opened holds every case whose add_case returned, *)
(* crashes notwithstanding: what a crash destroys is never opened as less.  *)
NoSilentLoss == running => ToSet(library) = acked

(* Once there is memory enough, remembering one more loss never raises the  *)
(* confidence, as long as its R is no gain, it displaces none of the cases  *)
(* looked at and is not the first of them with a known R: many wins whose R *)
(* is unknown count for nothing until a case with an R turns them to praise.*)
LossNeverHelps ==
  [][(/\ running /\ running' /\ Len(library') = Len(library) + 1
      /\ Last(library').outcome = "LOSS"
      /\ Last(library').rr = Null \/ (Last(library').rr <= 0 /\ WithRR(Resolved(Similar)) # {})
      /\ Cardinality(Similar) \in MinMemory .. Limit - 1)
     => Calibrated(Similar') <= Calibrated(Similar)]_vars
=============================================================================
