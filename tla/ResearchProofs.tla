---------------------------- MODULE ResearchProofs ----------------------------
(***************************************************************************)
(* Engines of MCResearch for any contexts, candles and cases in the domain *)
(* of the code, and the windows of MCPromises for any trades.              *)
(***************************************************************************)
EXTENDS MCResearch, SumTheorems, SequenceTheorems, FiniteSetTheorems, TLAPS

(* A step is one of the topic's machine, and leaves topic and input alone.  *)
LEMMA OneTopicSteps ==
  [Next]_vars =>
    /\ UNCHANGED <<topic, input>>
    /\ Replays!Next \/ UNCHANGED replayVars
    /\ Memory!Next \/ UNCHANGED memoryVars
    /\ Belief!Next \/ UNCHANGED beliefVars
    /\ Lab!Next \/ UNCHANGED labVars
    /\ Micro!Next \/ UNCHANGED books
  BY DEF Next, StrategyStep, ReplayStep, MemoryStep, BeliefStep, LabStep, BookStep, vars

(* The input is of the topic's kind.                                        *)
InputInv ==
  /\ topic = "signal" => input \in Contexts
  /\ topic = "decision" => input \in Decisions
  /\ topic = "ideas" => input \in HypothesisSets
  /\ topic = "edge" => input \in Reports
  /\ topic = "mind" => input \in ObservationSets
  /\ topic = "bounce" => input \in SeriesSet
LEMMA InputStays == Init => InputInv
  BY DEF Init, Inputs, InputInv
LEMMA InputKept == InputInv /\ [Next]_vars => InputInv'
  BY OneTopicSteps DEF InputInv

-----------------------------------------------------------------------------
(* The signal engine                                                       *)

LEMMA RiskWithinBounds ==
  ASSUME NEW c \in Signal!SignalContext
  PROVE  Signal!RiskPercent(c) \in 1000 .. 10000
<1> DEFINE p1 == Signal!Halved(10000, c.uncertainty > 50)
           p2 == Signal!Halved(p1, c.doubt # Signal!None /\ c.doubt > 50)
           p3 == Signal!Halved(p2, c.memory # Signal!None /\ c.memory < 30)
           p4 == IF c.risk > 60 THEN (p3 * 7) \div 10 ELSE p3
<1>1. p1 \in 0 .. 10000
  BY DEF Signal!Halved
<1>2. p2 \in 0 .. 10000
  <2> HIDE DEF p1
  <2> QED BY <1>1 DEF Signal!Halved
<1>3. p3 \in 0 .. 10000
  <2> HIDE DEF p2
  <2> QED BY <1>2 DEF Signal!Halved
<1>4. p4 \in 0 .. 10000
  <2> HIDE DEF p3
  <2> QED BY <1>3
<1>5. Signal!RiskPercent(c) = Signal!Between(1000, p4, Signal!MaxRisk)
  BY DEF Signal!RiskPercent
<1> HIDE DEF p4
<1> QED BY <1>4, <1>5 DEF Signal!Between, Signal!MaxRisk

(* The zone is a tenth of the way to the stop, the first target five times  *)
(* as far as the stop.                                                      *)
LEMMA PlanDistances ==
  ASSUME NEW c \in Signal!SignalContext
  PROVE  /\ Signal!Risk(c) = 10 * c.volatility
         /\ Signal!Targets(c)[1] = Signal!Sign(c) * 50 * c.volatility
         /\ Signal!Stop(c) = -Signal!Sign(c) * 10 * c.volatility
         /\ Signal!Sign(c) \in {1, -1} /\ c.volatility \in Nat
<1>1. c.volatility \in Nat /\ Signal!Sign(c) \in {1, -1}
  BY DEF Signal!SignalContext, Signal!Sign
<1>2. CASE Signal!Sign(c) = 1
  BY <1>1, <1>2 DEF Signal!Risk, Signal!Targets, Signal!Stop, Signal!Distance, Signal!PreferredRR
<1>3. CASE Signal!Sign(c) = -1
  BY <1>1, <1>3 DEF Signal!Risk, Signal!Targets, Signal!Stop, Signal!Distance, Signal!PreferredRR
<1> QED BY <1>1, <1>2, <1>3

LEMMA AnyFillHolds ==
  ASSUME NEW c \in Signal!SignalContext
  PROVE  Signal!WorstFillHolds(c)
<1> SUFFICES ASSUME Signal!ApprovedForPaper(c),
                    NEW price \in {Signal!Zone(c).min, 0, Signal!Zone(c).max}
             PROVE  /\ Signal!Meets(Signal!MinimumRR, price, Signal!Stop(c), Signal!Targets(c)[1])
                    /\ Signal!StopCost(c, price) <= Signal!MaxRisk * Signal!Risk(c)
  BY DEF Signal!WorstFillHolds
<1> DEFINE v == c.volatility
           far == Signal!Distance(price, Signal!Stop(c))
<1>1. v \in Nat /\ price \in {-v, 0, v}
  BY PlanDistances DEF Signal!Zone, Signal!Buffer
<1>2. v > 0
  BY PlanDistances, <1>1
  DEF Signal!ApprovedForPaper, Signal!Approved, Signal!Meets, Signal!Distance
<1>3. /\ far \in 9 * v .. 11 * v
      /\ Signal!Distance(price, Signal!Targets(c)[1]) \in 49 * v .. 51 * v
  <2>1. CASE Signal!Sign(c) = 1
    BY <1>1, <2>1, PlanDistances DEF Signal!Distance
  <2>2. CASE Signal!Sign(c) = -1
    BY <1>1, <2>2, PlanDistances DEF Signal!Distance
  <2> QED BY <2>1, <2>2, PlanDistances
<1>4. Signal!StopCost(c, price) = Signal!RiskPercent(c) * far
  BY DEF Signal!StopCost
<1>5. Signal!MaxRisk * Signal!Risk(c) = 200000 * v
  BY PlanDistances, SMT DEF Signal!MaxRisk
<1> HIDE DEF v, far
<1>6. Signal!RiskPercent(c) \in 0 .. 10000 /\ far \in Nat /\ far <= 20 * v
  BY <1>1, <1>3, RiskWithinBounds
<1>7. Signal!StopCost(c, price) <= 200000 * v
  <2> DEFINE r == Signal!RiskPercent(c)
             cost == r * far
             saved == (10000 - r) * far
  <2>1. r \in 0 .. 10000 /\ far \in 0 .. 20 * v /\ v \in Nat
    BY <1>1, <1>6
  <2> HIDE DEF r
  <2>2. cost \in Int /\ saved \in Nat /\ cost = 10000 * far - saved
    BY <2>1, SMT
  <2> HIDE DEF cost, saved
  <2>3. cost <= 200000 * v
    BY <2>1, <2>2, SMT
  <2> QED BY <1>4, <2>3, SMT DEF cost, r
<1>8. Signal!Meets(Signal!MinimumRR, price, Signal!Stop(c), Signal!Targets(c)[1])
  BY <1>1, <1>2, <1>3 DEF far, Signal!Meets, Signal!MinimumRR
<1>9. Signal!StopCost(c, price) <= Signal!MaxRisk * Signal!Risk(c)
  BY <1>5, <1>7, SMT
<1> QED BY <1>8, <1>9

(* Whatever the scores of a context: a plan approved for paper trading pays *)
(* the minimum ratio and risks no more than the maximum at every price of   *)
(* its entry zone.                                                          *)
THEOREM FillsHold == Spec => []WorstFillHolds
<1>1. InputInv => WorstFillHolds
  BY AnyFillHolds, MCResearchAssumption DEF InputInv, WorstFillHolds
<1> QED BY <1>1, InputStays, InputKept, PTL DEF Spec

-----------------------------------------------------------------------------
(* The case library                                                        *)

(* Cases of different ids, and just those that were acknowledged.           *)
Holds(lib, kept) ==
  /\ lib \in Seq(Cases)
  /\ \A i, j \in DOMAIN lib : lib[i].id = lib[j].id => i = j
  /\ Memory!ToSet(lib) = kept
MemoryInv ==
  /\ running => library = file /\ Holds(library, acked)
  /\ file # Torn => Holds(file, acked)

LEMMA NothingHeld == Holds(<<>>, {})
  BY DEF Holds, Memory!ToSet

LEMMA AddedIsHeld ==
  ASSUME NEW lib, NEW kept, NEW c \in Cases, Holds(lib, kept)
  PROVE  Holds(Memory!Added(lib, c), {a \in kept : a.id # c.id} \cup {c})
<1> DEFINE rest == {a \in kept : a.id # c.id}
<1>1. lib \in Seq(Cases) /\ kept = {lib[i] : i \in DOMAIN lib}
  BY DEF Holds, Memory!ToSet
<1>2. CASE Memory!Where(lib, c) = {}
  <2>1. Memory!Added(lib, c) = Append(lib, c)
    BY <1>2 DEF Memory!Added
  <2>2. \A i \in DOMAIN lib : lib[i].id # c.id
    BY <1>2 DEF Memory!Where
  <2>3. rest = kept
    BY <1>1, <2>2
  <2>4. /\ Append(lib, c) \in Seq(Cases)
        /\ DOMAIN Append(lib, c) = 1 .. Len(lib) + 1
        /\ \A i \in 1 .. Len(lib) : Append(lib, c)[i] = lib[i]
        /\ Append(lib, c)[Len(lib) + 1] = c
        /\ DOMAIN lib = 1 .. Len(lib) /\ Len(lib) \in Nat
    BY <1>1
  <2>5. \A i, j \in DOMAIN Append(lib, c) : Append(lib, c)[i].id = Append(lib, c)[j].id => i = j
    BY <2>2, <2>4 DEF Holds
  <2>6. {Append(lib, c)[i] : i \in DOMAIN Append(lib, c)} = kept \cup {c}
    BY <1>1, <2>4
  <2> QED BY <2>1, <2>3, <2>4, <2>5, <2>6 DEF Holds, Memory!ToSet
<1>3. CASE Memory!Where(lib, c) # {}
  <2> DEFINE n == CHOOSE i \in Memory!Where(lib, c) : TRUE
             new == [lib EXCEPT ![n] = c]
  <2>1. n \in DOMAIN lib /\ lib[n].id = c.id
    BY <1>3 DEF Memory!Where
  <2>2. Memory!Added(lib, c) = new
    BY <1>3 DEF Memory!Added
  <2> HIDE DEF n
  <2>3. /\ new \in Seq(Cases) /\ DOMAIN new = DOMAIN lib
        /\ new[n] = c /\ \A i \in DOMAIN lib \ {n} : new[i] = lib[i]
    BY <1>1, <2>1
  <2> HIDE DEF new
  <2>4. \A i \in DOMAIN lib \ {n} : lib[i].id # c.id
    BY <2>1 DEF Holds
  <2>5. \A i, j \in DOMAIN new : new[i].id = new[j].id => i = j
    BY <2>1, <2>3, <2>4 DEF Holds
  <2>6. {new[i] : i \in DOMAIN new} = rest \cup {c}
    BY <1>1, <2>1, <2>3, <2>4
  <2> QED BY <2>2, <2>3, <2>5, <2>6 DEF Holds, Memory!ToSet
<1> QED BY <1>2, <1>3

LEMMA MemoryStarts == Init => MemoryInv
  BY NothingHeld DEF Init, Memory!Init, MemoryInv

LEMMA MemoryKept == MemoryInv /\ [Next]_vars => MemoryInv'
<1> SUFFICES ASSUME MemoryInv, [Next]_vars PROVE MemoryInv'
  OBVIOUS
<1>1. CASE UNCHANGED memoryVars
  BY <1>1 DEF MemoryInv, memoryVars, Holds, Memory!ToSet
<1>2. ASSUME NEW lib, NEW kept, running, Memory!Saved(lib, kept), Holds(lib, kept)
      PROVE  MemoryInv'
  <2>1. CASE file' = lib /\ library' = lib /\ acked' = kept
    <3>1. Holds(library', acked') /\ Holds(file', acked')
      BY <1>2, <2>1, Zenon
    <3> QED BY <2>1, <3>1 DEF MemoryInv, Holds, Memory!ToSet
  <2>2. CASE file' = Torn /\ ~running'
    BY <2>2 DEF MemoryInv
  <2> QED BY <1>2, <2>1, <2>2 DEF Memory!Saved
<1>3. CASE Memory!Open
  BY <1>3 DEF Memory!Open, MemoryInv, Holds, Memory!ToSet
<1>4. ASSUME NEW c \in Cases, Memory!AddCase(c)
      PROVE  MemoryInv'
  BY <1>2, <1>4, AddedIsHeld DEF Memory!AddCase, MemoryInv
<1>5. CASE Memory!Clear
  BY <1>2, <1>5, NothingHeld DEF Memory!Clear
<1>6. CASE Memory!Die
  BY <1>6 DEF Memory!Die, MemoryInv, Holds, Memory!ToSet
<1>7. CASE Memory!Build
  BY <1>7 DEF Memory!Build, MemoryInv, Holds, Memory!ToSet
<1> QED BY <1>1, <1>3, <1>4, <1>5, <1>6, <1>7, OneTopicSteps DEF Memory!Next

(* However the process that keeps the library dies, a library that can be   *)
(* opened holds every case whose add_case returned.                         *)
THEOREM NothingIsLost == Spec => []Memory!NoSilentLoss
<1>1. MemoryInv => Memory!NoSilentLoss
  BY DEF MemoryInv, Holds, Memory!NoSilentLoss
<1> QED BY <1>1, MemoryStarts, MemoryKept, PTL DEF Spec

-----------------------------------------------------------------------------
(* Order flow: what raises a trap's score above 70 is what no trap is made  *)
(* of, and some scenarios always have less than that there is no edge.      *)
Flow == INSTANCE OrderFlow

LEMMA LastWindow ==
  ASSUME NEW f, Flow!IsFlow(f)
  PROVE  /\ Flow!Now(f) \in Flow!FlowWindow
         /\ Flow!Total(Flow!Now(f)) \in Nat
         /\ Flow!Delta(Flow!Now(f)) \in Int
         /\ Flow!Delta(Flow!Now(f)) = 0 =>
              \A s \in Flow!Sides : Flow!Aggression(Flow!Now(f)) # s
<1> DEFINE w == Flow!Now(f)
<1>1. w \in Flow!FlowWindow
  BY DEF Flow!IsFlow, Flow!Now
<1> HIDE DEF w
<1>2. /\ w.volume["buy"] \in Nat /\ w.volume["sell"] \in Nat
  BY <1>1 DEF Flow!FlowWindow, Flow!Sides
<1>3. Flow!Total(w) \in Nat /\ Flow!Delta(w) \in Int
  BY <1>2 DEF Flow!Total, Flow!Delta
<1>4. ASSUME Flow!Delta(w) = 0 PROVE Flow!Aggression(w) \in {"unknown", "balanced"}
  <2>1. Flow!Total(w) # 0 => Flow!Balanced(w)
    BY <1>3, <1>4 DEF Flow!Balanced
  <2> QED BY <2>1 DEF Flow!Aggression
<1>5. Flow!Delta(w) = 0 => \A s \in Flow!Sides : Flow!Aggression(w) # s
  BY <1>4 DEF Flow!Sides
<1> QED BY <1>1, <1>3, <1>5 DEF w

LEMMA TrapsScoreLow ==
  ASSUME NEW f, Flow!IsFlow(f)
  PROVE  Flow!TrapScore(f) \in 0 .. 70
<1> DEFINE w == Flow!Now(f)
<1>1. /\ w \in Flow!FlowWindow /\ Flow!Delta(w) \in Int
      /\ Flow!Delta(w) = 0 => \A s \in Flow!Sides : Flow!Aggression(w) # s
  BY LastWindow
<1>2. w.large \in Nat /\ w.trades \in Nat
  BY <1>1 DEF Flow!FlowWindow
<1>3. ASSUME w.large > 3, Flow!Delta(w) = 0 PROVE Flow!Traps(f) = {}
  <2>1. ~Flow!Weak(w)
    BY <1>2, <1>3 DEF Flow!Weak
  <2>2. \A s \in Flow!Sides : Flow!Signals(f, s) \in 0 .. 1
    BY <1>1, <1>3, <2>1 DEF Flow!Signals, Flow!If
  <2> QED BY <2>2 DEF Flow!Traps
<1>4. Flow!If(w.trades > 20, 15) \in {0, 15} /\ Flow!If(w.large > 3, 15) \in {0, 15}
      /\ Flow!If(Flow!Delta(w) = 0, 10) \in {0, 10}
  BY DEF Flow!If
<1>5. Flow!Traps(f) # {} => Flow!If(w.large > 3, 15) + Flow!If(Flow!Delta(w) = 0, 10) <= 15
  BY <1>2, <1>3 DEF Flow!If
<1> HIDE DEF w
<1> QED BY <1>4, <1>5 DEF Flow!TrapScore, w

(* The score of each scenario, and the highest of nine.                     *)
LEMMA EdgeOutweighs ==
  ASSUME NEW f, Flow!IsFlow(f)
  PROVE  /\ Flow!NoEdge(f) \in 50 .. 90
         /\ \A s \in Flow!Sides :
              /\ Flow!Genuine(f, s) \in 0 .. 90 /\ Flow!Passive(f, s) \in 0 .. 90
              /\ Flow!Squeeze(f, s) \in 0 .. 45
         /\ Flow!Reversal(f) \in 0 .. 40
         /\ Flow!FakeBreakout(f) \in 0 .. Flow!NoEdge(f) - 1
<1> DEFINE w == Flow!Now(f)
<1>1. w \in Flow!FlowWindow
  BY LastWindow
<1>2. Flow!NoEdge(f) \in 50 .. 90
  BY DEF Flow!NoEdge, Flow!If
<1>3. ASSUME NEW s \in Flow!Sides
      PROVE  Flow!Genuine(f, s) \in 0 .. 90 /\ Flow!Passive(f, s) \in 0 .. 90
  BY DEF Flow!Genuine, Flow!Passive, Flow!If
<1>4. ASSUME NEW s \in Flow!Sides
      PROVE  Flow!Squeeze(f, s) \in 0 .. 45
  <2>1. w.volume["buy"] \in Nat /\ w.volume["sell"] \in Nat
    BY <1>1 DEF Flow!FlowWindow, Flow!Sides
  <2>2. s \in {"buy", "sell"} /\ Flow!Other("buy") = "sell" /\ Flow!Other("sell") = "buy"
    BY DEF Flow!Sides, Flow!Other
  <2> HIDE DEF w
  <2>3. Flow!Aggression(w) = s => ~(w.volume[s] < w.volume[Flow!Other(s)])
    <3>1. CASE s = "buy"
      BY <2>1, <2>2, <3>1 DEF Flow!Aggression, Flow!Delta
    <3>2. CASE s = "sell"
      BY <2>1, <2>2, <3>2 DEF Flow!Aggression, Flow!Delta
    <3> QED BY <2>2, <3>1, <3>2
  <2>4. ~(Flow!Aggression(Flow!Now(f)) = s
          /\ Flow!Now(f).volume[s] < Flow!Now(f).volume[Flow!Other(s)])
    BY <2>3 DEF w
  <2> QED BY <2>4 DEF Flow!Squeeze, Flow!If
<1>5. Flow!Reversal(f) \in 0 .. 40
  BY DEF Flow!Reversal, Flow!If
<1>6. Flow!FakeBreakout(f) \in 0 .. Flow!NoEdge(f) - 1
  BY DEF Flow!FakeBreakout, Flow!NoEdge, Flow!If
<1> QED BY <1>2, <1>3, <1>4, <1>5, <1>6

LEMMA HighestOfNine ==
  ASSUME NEW v \in [1 .. 9 -> 0 .. 100]
  PROVE  LET best == Flow!Min({n \in 1 .. 9 : \A k \in 1 .. 9 : v[k] <= v[n]})
         IN best \in 1 .. 9 /\ \A k \in 1 .. 9 : v[k] <= v[best]
<1> DEFINE B == {n \in 1 .. 9 : \A k \in 1 .. 9 : v[k] <= v[n]}
           T == {100 - v[n] : n \in 1 .. 9}
<1>1. \A n \in 1 .. 9 : v[n] \in 0 .. 100
  OBVIOUS
<1>2. PICK t \in T : \A u \in T : t <= u
  <2>1. T \subseteq Nat /\ 100 - v[1] \in T
    BY <1>1
  <2> HIDE DEF T
  <2> QED BY <2>1, LeastNumber
<1>3. PICK n \in 1 .. 9 : t = 100 - v[n]
  OBVIOUS
<1>4. \A k \in 1 .. 9 : 100 - v[n] <= 100 - v[k]
  BY <1>2, <1>3
<1>5. n \in B
  <2>1. ASSUME NEW k \in 1 .. 9 PROVE v[k] <= v[n]
    <3>1. v[k] \in 0 .. 100 /\ v[n] \in 0 .. 100
      BY <1>1
    <3>2. 100 - v[n] <= 100 - v[k]
      BY <1>4
    <3> QED BY <3>1, <3>2
  <2> QED BY <2>1
<1>6. \E m \in B : \A k \in B : m <= k
  <2>1. B \subseteq Nat
    OBVIOUS
  <2> HIDE DEF B
  <2> QED BY <1>5, <2>1, LeastNumber
<1>7. Flow!Min(B) \in B
  <2> HIDE DEF B
  <2> QED BY <1>6 DEF Flow!Min
<1> QED BY <1>7

LEMMA EdgeDominates ==
  ASSUME NEW f, Flow!IsFlow(f)
  PROVE  Flow!Dominant(f) \in {"genuine", "passive", "no_edge"}
<1> DEFINE all == Flow!Scenarios(f)
           v == [n \in 1 .. 9 |-> all[n][2]]
           best == Flow!Min({n \in 1 .. 9 : \A k \in 1 .. 9 : v[k] <= v[n]})
<1>1. DOMAIN all = 1 .. 9
  BY DEF Flow!Scenarios
<1>2. /\ v[1] = Flow!Genuine(f, "buy") /\ v[2] = Flow!Genuine(f, "sell")
      /\ v[3] = Flow!Passive(f, "buy") /\ v[4] = Flow!Passive(f, "sell")
      /\ v[5] = Flow!Squeeze(f, "sell") /\ v[6] = Flow!Squeeze(f, "buy")
      /\ v[7] = Flow!Reversal(f) /\ v[8] = Flow!FakeBreakout(f) /\ v[9] = Flow!NoEdge(f)
  BY DEF Flow!Scenarios
<1>3. /\ all[1][1] = "genuine" /\ all[2][1] = "genuine"
      /\ all[3][1] = "passive" /\ all[4][1] = "passive" /\ all[9][1] = "no_edge"
  BY DEF Flow!Scenarios
<1>4. {n \in DOMAIN all : \A k \in DOMAIN all : all[k][2] <= all[n][2]}
        = {n \in 1 .. 9 : \A k \in 1 .. 9 : v[k] <= v[n]}
  BY <1>1
<1>5. Flow!Dominant(f) = all[best][1]
  BY <1>4 DEF Flow!Dominant
<1>6. /\ v[9] \in 50 .. 90 /\ \A n \in 1 .. 4 : v[n] \in 0 .. 90
      /\ \A n \in 5 .. 8 : v[n] \in 0 .. 90 /\ v[n] < v[9]
  <2>1. "buy" \in Flow!Sides /\ "sell" \in Flow!Sides
    BY DEF Flow!Sides
  <2> HIDE DEF v
  <2>2. v[9] \in 50 .. 90
    BY <1>2, EdgeOutweighs
  <2>3. v[1] \in 0 .. 90 /\ v[2] \in 0 .. 90 /\ v[3] \in 0 .. 90 /\ v[4] \in 0 .. 90
    BY <1>2, <2>1, EdgeOutweighs
  <2>4. v[5] \in 0 .. 45 /\ v[6] \in 0 .. 45 /\ v[7] \in 0 .. 40 /\ v[8] \in 0 .. v[9] - 1
    BY <1>2, <2>1, EdgeOutweighs
  <2>5. \A n \in 1 .. 4 : v[n] \in 0 .. 90
    BY <2>3
  <2> QED BY <2>2, <2>4, <2>5
<1>7. v \in [1 .. 9 -> 0 .. 100]
  <2>1. \A n \in 1 .. 9 : v[n] \in 0 .. 100
    <3> HIDE DEF v
    <3> QED BY <1>6
  <2> HIDE DEF all
  <2> QED BY <2>1
<1> HIDE DEF v, all
<1>8. best \in 1 .. 9 /\ \A k \in 1 .. 9 : v[k] <= v[best]
  BY <1>7, HighestOfNine
<1> HIDE DEF best
<1>9. v[9] <= v[best]
  BY <1>8
<1>10. best \in {1, 2, 3, 4, 9}
  BY <1>6, <1>8, <1>9
<1> QED BY <1>3, <1>5, <1>10

(* TrapDetector.analyze and InstitutionalOrderFlowReport: whatever windows  *)
(* of trades there have been, none blocks a trade or makes a squeeze, a     *)
(* reversal or a fake breakout dominate.                                    *)
THEOREM FlowsNeverBlock ==
  ASSUME NEW f, Flow!IsFlow(f)
  PROVE  Flow!NothingBlocks(f)
<1>1. ~(Flow!TrapScore(f) > 70)
  BY TrapsScoreLow
<1>2. \A flags \in BOOLEAN : Flow!Permission(f, flags) # "BLOCK"
  BY <1>1 DEF Flow!Permission, Flow!BlocksTrade
<1> QED BY <1>2, EdgeDominates DEF Flow!NothingBlocks

-----------------------------------------------------------------------------
(* The replays with a regime gate: arithmetic of the stops                 *)

LEMMA Grows ==
  ASSUME NEW u \in Nat, NEW a \in Nat, NEW b \in Nat, a <= b
  PROVE  u * a \in Nat /\ u * b \in Nat /\ u * a <= u * b
<1>1. u * a \in Nat /\ u * b \in Nat /\ u * (b - a) \in Nat /\ u * (b - a) = u * b - u * a
  BY SMT
<1> QED BY <1>1, SMT

LEMMA GreatestOfThree ==
  ASSUME NEW a \in Nat, NEW b \in Nat, NEW c \in Nat
  PROVE  Replays!Max({a, b, c}) \in Nat /\ Replays!Max({a, b, c}) >= a
<1>1. \E x \in {a, b, c} : \A y \in {a, b, c} : x >= y
  OBVIOUS
<1>2. \A y \in {a, b, c} : Replays!Max({a, b, c}) \in {a, b, c} /\ Replays!Max({a, b, c}) >= y
  BY <1>1 DEF Replays!Max
<1> QED BY <1>2

(* Scale is ten of some unit; the means are of one candle at least.         *)
LEMMA Measures ==
  /\ Scale \in Nat \ {0} /\ Scale \div 10 \in Nat /\ Scale = 10 * (Scale \div 10)
  /\ Few \in Nat \ {0} /\ Many \in Nat \ {0} /\ TrLength \in Nat \ {0} /\ MaxHolding \in Nat \ {0}
  /\ Cost \in Nat /\ Funding \in Nat
<1>1. /\ {Few, Many, TrLength, MaxHolding, Scale} \subseteq Nat \ {0}
      /\ {Cost, Funding, BarWarmup, MaxBars} \subseteq Nat
      /\ \A n \in 1 .. Replays!Max({Few, Many, TrLength}) : Scale % (10 * n) = 0
  BY MCResearchAssumption DEF Replays!Limits
<1>2. Replays!Max({Few, Many, TrLength}) \in Nat /\ Replays!Max({Few, Many, TrLength}) >= Few
  BY <1>1, GreatestOfThree
<1>3. Scale % (10 * 1) = 0
  BY <1>1, <1>2
<1>4. Scale % 10 = 0
  BY <1>3
<1> QED BY <1>1, <1>4

LEMMA BarsAreCandles ==
  ASSUME NEW c \in Bars
  PROVE  /\ c.o \in Nat /\ c.h \in Nat /\ c.l \in Nat /\ c.c \in Nat
         /\ c.l <= c.o /\ c.o <= c.h /\ c.l <= c.c /\ c.c <= c.h
         /\ Replays!RangeOf(c) \in Nat
<1>1. {c.o, c.h, c.l, c.c} \subseteq Nat
      /\ c.l <= c.o /\ c.o <= c.h /\ c.l <= c.c /\ c.c <= c.h
  BY MCResearchAssumption DEF Replays!Limits
<1> QED BY <1>1 DEF Replays!RangeOf

LEMMA SumIsNat ==
  ASSUME NEW s \in Seq(Nat)
  PROVE  Replays!Sum(s) \in Nat
<1> DEFINE D == 1 .. Len(s)
           Adds(g) == g = [S \in SUBSET D |->
             IF S = {} THEN 0
             ELSE s[CHOOSE x \in S : TRUE] + g[S \ {CHOOSE x \in S : TRUE}]]
           f == CHOOSE g : Adds(g)
<1>1. /\ Len(s) \in Nat /\ DOMAIN s = D /\ s \in [D -> Nat] /\ s \in Weights(Len(s))
  BY LenProperties, ElementOfSeq DEF Weights
<1>2. ASSUME NEW g PROVE Adds(g) <=> FoldsAny(D, s, g)
  BY DEF FoldsAny, AnyOf
<1>3. \E g : Adds(g)
  <2>1. IsFiniteSet(D)
    BY <1>1, FS_Interval
  <2> HIDE DEF Adds
  <2> QED BY <1>1, <1>2, <2>1, FoldsAnyExists DEF Weights
<1>4. FoldsAny(D, s, f)
  <2>1. Adds(f)
    BY <1>3
  <2> HIDE DEF Adds
  <2> QED BY <1>2, <2>1
<1>5. Replays!Sum(s) = f[D]
  BY DOMAIN s = D, <1>1
  DEF Replays!Sum, Replays!FoldSeq, Replays!FoldFunction, Replays!FoldFunctionOnSet,
      Replays!MapThenFoldSet
<1> HIDE DEF f
<1>6. f[D] = SumOf(Len(s), s) /\ SumOf(Len(s), s) \in Nat
  BY <1>1, <1>4, FoldsAnyIsSum, SumOfNat
<1> QED BY <1>5, <1>6

LEMMA KeptAreSome ==
  ASSUME NEW s \in Seq(Nat), s # <<>>, NEW n \in Nat \ {0}
  PROVE  Replays!Kept(s, n) \in Seq(Nat) /\ Replays!Kept(s, n) # <<>>
<1> DEFINE first == Replays!Greater(1, Len(s) - n + 1)
<1>1. Len(s) \in Nat \ {0}
  BY LenProperties, EmptySeq
<1>2. first \in 1 .. Len(s)
  BY <1>1 DEF Replays!Greater
<1>3. Replays!Kept(s, n) = SubSeq(s, first, Len(s))
  BY DEF Replays!Kept
<1> HIDE DEF first
<1>4. SubSeq(s, first, Len(s)) \in Seq(Nat) /\ Len(SubSeq(s, first, Len(s))) = Len(s) - first + 1
  BY <1>1, <1>2, SubSeqProperties
<1>5. Len(SubSeq(s, first, Len(s))) > 0
  BY <1>1, <1>2, <1>4
<1> QED BY <1>3, <1>4, <1>5, EmptySeq

LEMMA TimesIsNat ==
  ASSUME NEW k \in Nat, NEW x \in Nat, NEW n \in Nat \ {0}
  PROVE  Replays!Times(k, x, n) \in Nat
<1>1. (Scale \div 10) * k \in Nat
  BY Measures, SMT
<1>2. (Scale \div 10) * k * x \in Nat
  BY <1>1, SMT
<1> DEFINE y == (Scale \div 10) * k * x
<1>3. y \in Nat
  BY <1>2
<1> HIDE DEF y
<1>4. y \div n \in Nat
  BY <1>3
<1> QED BY <1>4 DEF y, Replays!Times

LEMMA MeanIsNat ==
  ASSUME NEW k \in Nat, NEW s \in Seq(Nat), s # <<>>
  PROVE  Replays!Mean(k, s) \in Nat
<1>1. Len(s) \in Nat \ {0}
  BY LenProperties, EmptySeq
<1> QED BY <1>1, SumIsNat, TimesIsNat DEF Replays!Mean

LEMMA RangesAreNat ==
  ASSUME NEW cs \in Seq(Bars), cs # <<>>
  PROVE  /\ Replays!Ranges(cs) \in Seq(Nat) /\ Replays!Ranges(cs) # <<>>
         /\ Replays!Last(cs) \in Bars
<1>1. Len(cs) \in Nat \ {0} /\ DOMAIN cs = 1 .. Len(cs) /\ \A i \in 1 .. Len(cs) : cs[i] \in Bars
  BY LenProperties, ElementOfSeq, EmptySeq
<1>2. Replays!Ranges(cs) \in [1 .. Len(cs) -> Nat]
  BY <1>1, BarsAreCandles DEF Replays!Ranges
<1>3. Replays!Ranges(cs) \in Seq(Nat) /\ Len(Replays!Ranges(cs)) = Len(cs)
  BY <1>1, <1>2
<1> QED BY <1>1, <1>3, EmptySeq DEF Replays!Last

(* Whatever the stop is made of, it is some way from the entry, and three   *)
(* halves of the candle's range at least where it is a multiple of it.      *)
Spared(entry, stop) ==
  entry \in {"immediate", "skip_low_volatility"}
  /\ stop \in {"baseline", "wide20", "wide25", "hybrid"}
LEMMA StopsAreAway ==
  ASSUME NEW cs \in Seq(Bars), cs # <<>>, NEW ranges \in Seq(Nat), NEW swing \in 0 .. 2,
         NEW method
  PROVE  LET dist == Replays!StopDistance(method, cs, ranges, swing)
         IN /\ dist \in Nat
            /\ method \in {"baseline", "wide20", "wide25", "hybrid"} =>
                 dist >= Replays!Times(15, Replays!RangeOf(Replays!Last(cs)), 1)
<1> DEFINE cr == Replays!RangeOf(Replays!Last(cs))
           some == Replays!Kept(Replays!Ranges(cs), Few)
           base == Replays!Times(15, cr, 1)
           dist == Replays!StopDistance(method, cs, ranges, swing)
<1>1. cr \in Nat
  BY RangesAreNat, BarsAreCandles
<1>2. /\ some \in Seq(Nat) /\ some # <<>>
      /\ Replays!Kept(Replays!Ranges(cs), Many) \in Seq(Nat)
      /\ Replays!Kept(Replays!Ranges(cs), Many) # <<>>
  BY RangesAreNat, KeptAreSome, Measures
<1> HIDE DEF cr, some
<1>3. ASSUME NEW k \in Nat PROVE Replays!Times(k, cr, 1) \in Nat
  <2>1. 1 \in Nat \ {0}
    OBVIOUS
  <2> QED BY <1>1, <2>1, TimesIsNat, Zenon
<1>4. base \in Nat /\ Replays!Times(20, cr, 1) >= base /\ Replays!Times(25, cr, 1) >= base
  <2> DEFINE u == (Scale \div 10) * cr
  <2>1. Scale \div 10 \in Nat
    BY Measures
  <2>2. u \in Nat
    BY <1>1, <2>1, SMT
  <2>3. /\ (Scale \div 10) * 15 * cr = 15 * u /\ (Scale \div 10) * 20 * cr = 20 * u
        /\ (Scale \div 10) * 25 * cr = 25 * u
    BY <1>1, <2>1, SMT
  <2> HIDE DEF u
  <2>4. Replays!Times(15, cr, 1) = 15 * u /\ Replays!Times(20, cr, 1) = 20 * u
        /\ Replays!Times(25, cr, 1) = 25 * u
    BY <2>2, <2>3 DEF Replays!Times
  <2> QED BY <2>2, <2>4
<1> HIDE DEF base
<1>5. ASSUME NEW margin \in Nat
      PROVE  Replays!ToSwing(swing, margin) \in Nat
  <2>1. Scale * swing \in Nat
    BY Measures, SMT
  <2> QED BY <2>1 DEF Replays!ToSwing
<1>6. ASSUME NEW b \in Nat, NEW margin \in Nat
      PROVE  Replays!Hybrid(b, margin, swing) \in Nat /\ Replays!Hybrid(b, margin, swing) >= b
  <2>1. Replays!ToSwing(swing, margin) \in Nat /\ (6 * b) \div 5 \in Nat
    BY <1>5
  <2> QED BY <2>1 DEF Replays!Hybrid, Replays!Greater, Replays!Smaller
<1>7. CASE method \in {"wide20", "wide25"}
  <2>1. dist \in {Replays!Times(20, cr, 1), Replays!Times(25, cr, 1)}
    BY <1>7 DEF Replays!StopDistance, cr
  <2>2. Replays!Times(20, cr, 1) \in Nat /\ Replays!Times(25, cr, 1) \in Nat
    BY <1>3
  <2> HIDE DEF dist
  <2>3. dist \in Nat /\ dist >= base
    BY <1>4, <2>1, <2>2
  <2> QED BY <2>3 DEF dist, base, cr
<1>8. CASE method \in {"atr14_15", "atr14_20"}
  <2>1. <<cr>> \in Seq(Nat) /\ <<cr>> # <<>>
    BY <1>1
  <2>2. \A k \in Nat : Replays!Mean(k, IF ranges = <<>> THEN <<cr>> ELSE ranges) \in Nat
    BY <2>1, MeanIsNat
  <2> QED BY <1>8, <2>2 DEF Replays!StopDistance, cr
<1>9. CASE method \in {"avg5", "avg20"}
  BY <1>2, <1>9, MeanIsNat DEF Replays!StopDistance, some
<1>10. CASE method = "structure"
  <2>1. dist \in {base, Replays!ToSwing(swing, Replays!Times(3, cr, 1))}
    BY <1>10 DEF Replays!StopDistance, base, cr
  <2> QED BY <1>3, <1>4, <1>5, <1>10, <2>1
<1>11. CASE method = "hybrid"
  <2>1. dist = Replays!Hybrid(base, Replays!Times(3, cr, 1), swing)
    BY <1>11 DEF Replays!StopDistance, base, cr
  <2>2. Replays!Times(3, cr, 1) \in Nat
    BY <1>3
  <2> HIDE DEF dist
  <2>3. dist \in Nat /\ dist >= base
    BY <1>4, <1>6, <2>1, <2>2
  <2> QED BY <2>3 DEF dist, base, cr
<1>12. CASE method = "avg5_hybrid"
  <2>1. dist = Replays!Hybrid(Replays!Mean(15, some), Replays!Mean(3, some), swing)
    BY <1>12 DEF Replays!StopDistance, some
  <2>2. Replays!Mean(15, some) \in Nat /\ Replays!Mean(3, some) \in Nat
    BY <1>2, MeanIsNat
  <2> QED BY <1>6, <1>12, <2>1, <2>2
<1>13. CASE method \notin {"wide20", "wide25", "atr14_15", "atr14_20", "avg5", "avg20",
                           "structure", "hybrid", "avg5_hybrid"}
  <2>1. dist = base
    BY <1>13 DEF Replays!StopDistance, base, cr
  <2> QED BY <1>4, <2>1 DEF base, cr
<1> QED BY <1>7, <1>8, <1>9, <1>10, <1>11, <1>12, <1>13

-----------------------------------------------------------------------------
(* The replays with a regime gate: trades and their ends                   *)

(* Signals, trades and ends as they are after n candles cs, by the methods  *)
(* em of entry and sm of stop.                                              *)
Honest(em) == em \notin {"confirm_1c", "confirm_direction"}
IsSignal(s) ==
  /\ s.dir \in Replays!Dirs /\ s.entry \in Nat /\ s.dist \in Nat
  /\ s.stop = s.entry - Replays!Sign(s.dir) * s.dist
  /\ s.target = s.entry + 3 * Replays!Sign(s.dir) * s.dist
IsTrade(t, n, em) ==
  /\ t = [dir |-> t.dir, at |-> t.at, entered |-> t.entered, entry |-> t.entry, stop |-> t.stop,
          target |-> t.target, held |-> t.held]
  /\ t.dir \in Replays!Dirs /\ t.entry \in Nat /\ t.stop \in Int /\ t.held \in Nat
  /\ t.entered \in Nat /\ t.entered <= n
  /\ Honest(em) => Replays!Sign(t.dir) * (t.entry - t.stop) >= 0
NeverPaid(t, em) == Honest(em) /\ t.reason = "STOP_LOSS" => t.gross <= 0 /\ t.net <= 0
EndsBy(t, cs) == t.entered \in Nat /\ t.ended \in 1 .. Len(cs)
WasSpared(t, cs) == t.ended = t.entered => Replays!RangeOf(cs[t.entered]) = 0
IsClosed(t, cs, em, sm) ==
  EndsBy(t, cs) /\ NeverPaid(t, em) /\ (Spared(em, sm) => WasSpared(t, cs))

LEMMA SignIsOne == \A d : Replays!Sign(d) \in {1, -1}
  BY DEF Replays!Sign

(* A close at the stop.                                                     *)
LEMMA StopNeverPays ==
  ASSUME NEW t, NEW c \in Bars, NEW n \in Nat, NEW em, NEW k \in Nat,
         IsTrade(t, k, em), Honest(em), Replays!Closed(t, c, n).reason = "STOP_LOSS"
  PROVE  Replays!Closed(t, c, n).gross <= 0 /\ Replays!Closed(t, c, n).net <= 0
<1> DEFINE held == IF Replays!ExitOf(t, c) = "MAX_HOLDING_TIME" THEN t.held + 1 ELSE t.held
           gross == Replays!Sign(t.dir) * (Replays!ExitPrice(t, c) - t.entry)
           risk == Replays!Magnitude(t.entry - t.stop)
           due == Cost + Funding * held
<1>1. Replays!ExitOf(t, c) = "STOP_LOSS"
  BY DEF Replays!Closed
<1>2. Replays!ExitPrice(t, c) = t.stop
  BY <1>1 DEF Replays!ExitPrice
<1>3. gross \in Int /\ gross <= 0
  <2>1. Replays!Sign(t.dir) * (t.entry - t.stop) >= 0 /\ t.entry \in Nat /\ t.stop \in Int
    BY DEF IsTrade
  <2>2. CASE Replays!Sign(t.dir) = 1
    BY <1>2, <2>1, <2>2
  <2>3. CASE Replays!Sign(t.dir) = -1
    BY <1>2, <2>1, <2>3
  <2> QED BY <2>2, <2>3, SignIsOne
<1>4. held \in Nat /\ t.entry \in Nat
  BY DEF IsTrade
<1> HIDE DEF held
<1>5. due \in Nat
  BY <1>4, Measures, SMT
<1> HIDE DEF gross, due
<1>6. t.entry * due \in Nat
  BY <1>4, <1>5, SMT
<1> DEFINE owed == t.entry * due
<1>7. owed \in Nat
  BY <1>6
<1> HIDE DEF owed
<1>8. 10000 * gross - owed <= 0
  BY <1>3, <1>7, SMT
<1>9. /\ Replays!Closed(t, c, n).gross = gross
      /\ Replays!Closed(t, c, n).net \in {0, 10000 * gross - owed}
  BY DEF Replays!Closed, held, gross, due, owed
<1> QED BY <1>3, <1>8, <1>9, SMT

(* An entry at the signal whose stop is three halves of the range away.     *)
LEMMA EntrySpares ==
  ASSUME NEW c \in Bars, NEW dir \in Replays!Dirs, NEW n, NEW dist \in Nat,
         dist >= Replays!Times(15, Replays!RangeOf(c), 1),
         Replays!ExitOf(Replays!Enter(Replays!Signal(dir, c, n, dist), c, n), c) # "NONE"
  PROVE  Replays!RangeOf(c) = 0
<1> DEFINE u == Scale \div 10
           low == u * (c.c - c.l)
           high == u * (c.h - c.c)
           t == Replays!Enter(Replays!Signal(dir, c, n, dist), c, n)
<1>1. /\ c.h \in Nat /\ c.l \in Nat /\ c.c \in Nat /\ c.l <= c.c /\ c.c <= c.h
      /\ Replays!RangeOf(c) = c.h - c.l
      /\ u \in Nat /\ u > 0 /\ Scale = 10 * u
  BY BarsAreCandles, Measures DEF Replays!RangeOf
<1> HIDE DEF u
<1>2. low \in Nat /\ high \in Nat
  <2>1. c.c - c.l \in Nat /\ c.h - c.c \in Nat
    BY <1>1
  <2> QED BY <1>1, <2>1, SMT
<1>3. /\ Scale * c.l = Scale * c.c - 10 * low
      /\ Scale * c.h = Scale * c.c + 10 * high
  BY <1>1, SMT
<1>4. Replays!Times(15, Replays!RangeOf(c), 1) = 15 * (low + high)
  <2>1. u * 15 * (c.h - c.l) = 15 * (low + high)
    BY <1>1, SMT
  <2>2. 15 * (low + high) \in Nat
    BY <1>2
  <2> QED BY <1>1, <2>1, <2>2 DEF Replays!Times, u
<1>5. /\ t.dir = dir /\ t.entry = Scale * c.c /\ t.held = 0
      /\ t.stop = Scale * c.c - Replays!Sign(dir) * dist
      /\ t.target = Scale * c.c + 3 * Replays!Sign(dir) * dist
  BY DEF Replays!Enter, Replays!Signal
<1> DEFINE price == Scale * c.c
<1>6. price \in Nat
  BY <1>1, Measures, SMT
<1> HIDE DEF low, high, t
<1>7. ~(t.held >= MaxHolding)
  BY <1>5, Measures
<1>8. \/ Replays!Reaches(c, dir, t.stop, TRUE)
      \/ Replays!Reaches(c, dir, t.target, FALSE)
  BY <1>5, <1>7 DEF Replays!ExitOf, t
<1>9. low + high = 0
  <2> HIDE DEF price
  <2>1. /\ Scale * c.l = price - 10 * low /\ Scale * c.h = price + 10 * high
        /\ t.stop = price - Replays!Sign(dir) * dist
        /\ t.target = price + 3 * Replays!Sign(dir) * dist
    BY <1>3, <1>5 DEF price
  <2>2. CASE dir = "LONG"
    BY <1>2, <1>4, <1>6, <1>8, <2>1, <2>2 DEF Replays!Reaches, Replays!Sign
  <2>3. CASE dir = "SHORT"
    BY <1>2, <1>4, <1>6, <1>8, <2>1, <2>3 DEF Replays!Reaches, Replays!Sign
  <2> QED BY <2>2, <2>3 DEF Replays!Dirs
<1>10. low = 0 /\ high = 0
  BY <1>2, <1>9
<1>11. c.c - c.l = 0 /\ c.h - c.c = 0
  BY <1>1, <1>10, SMT DEF low, high
<1> QED BY <1>1, <1>11

(* A trade is entered at the signal, or a candle later if that candle kept  *)
(* away from half of the risk: its stop is not beyond its entry.            *)
LEMMA SignalIsOne ==
  ASSUME NEW c \in Bars, NEW dir \in Replays!Dirs, NEW n, NEW dist \in Nat
  PROVE  IsSignal(Replays!Signal(dir, c, n, dist))
<1>1. Scale * c.c \in Nat
  BY BarsAreCandles, Measures, SMT
<1> QED BY <1>1 DEF IsSignal, Replays!Signal

LEMMA EnteredAtSignal ==
  ASSUME NEW c \in Bars, NEW dir \in Replays!Dirs, NEW n \in Nat, NEW dist \in Nat, NEW em
  PROVE  IsTrade(Replays!Enter(Replays!Signal(dir, c, n, dist), c, n), n, em)
<1> DEFINE price == Scale * c.c
           t == Replays!Enter(Replays!Signal(dir, c, n, dist), c, n)
<1>1. price \in Nat
  BY BarsAreCandles, Measures, SMT
<1>2. /\ t.dir = dir /\ t.entry = price /\ t.held = 0 /\ t.entered = n
      /\ t.stop = price - Replays!Sign(dir) * dist
  BY DEF Replays!Enter, Replays!Signal
<1> HIDE DEF price, t
<1>3. t.stop \in Int /\ Replays!Sign(dir) * (t.entry - t.stop) >= 0
  <2>1. CASE Replays!Sign(dir) = 1
    BY <1>1, <1>2, <2>1
  <2>2. CASE Replays!Sign(dir) = -1
    BY <1>1, <1>2, <2>2
  <2> QED BY <2>1, <2>2, SignIsOne
<1>4. t = [dir |-> t.dir, at |-> t.at, entered |-> t.entered, entry |-> t.entry, stop |-> t.stop,
           target |-> t.target, held |-> t.held]
  BY DEF t, Replays!Enter
<1>5. /\ t.dir \in Replays!Dirs /\ t.entry \in Nat /\ t.held \in Nat /\ t.entered \in Nat
      /\ t.entered <= n
  BY <1>1, <1>2
<1>6. IsTrade(t, n, em)
  BY <1>2, <1>3, <1>4, <1>5 DEF IsTrade
<1> QED BY <1>6 DEF t

LEMMA EnteredLater ==
  ASSUME NEW c \in Bars, NEW s, IsSignal(s), NEW n \in Nat, NEW em,
         Honest(em) => Replays!NoReverse(s, c)
  PROVE  IsTrade(Replays!Enter(s, c, n), n, em)
<1> DEFINE price == Scale * c.c
           open == Scale * c.o
           low == Scale * c.l
           high == Scale * c.h
           t == Replays!Enter(s, c, n)
<1>1. /\ price \in Nat /\ open \in Nat /\ low \in Nat /\ high \in Nat
      /\ low <= price /\ price <= high
  BY BarsAreCandles, Measures, Grows
<1>2. /\ s.dir \in Replays!Dirs /\ s.entry \in Nat /\ s.dist \in Nat
      /\ s.stop = s.entry - Replays!Sign(s.dir) * s.dist
  BY DEF IsSignal
<1>3. /\ t.dir = s.dir /\ t.entry = price /\ t.held = 0 /\ t.entered = n /\ t.stop = s.stop
  BY DEF Replays!Enter
<1>4. s.stop \in Int
  BY <1>2, SignIsOne
<1>5. ASSUME Honest(em) PROVE Replays!Sign(s.dir) * (price - s.stop) >= 0
  <2>1. CASE s.dir = "LONG"
    <3> DEFINE reach == Replays!Smaller(c.l, c.o)
    <3>1. Replays!Sign(s.dir) = 1
      BY <2>1 DEF Replays!Sign
    <3>2. 1 * (2 * Scale * reach - 2 * s.entry) >= -s.dist
      BY <1>5, <2>1, <3>1 DEF Replays!NoReverse
    <3>3. reach \in Nat /\ reach <= c.l
      BY BarsAreCandles DEF Replays!Smaller
    <3> HIDE DEF reach
    <3>4. Scale * reach \in Nat /\ Scale * reach <= low
      BY <3>3, BarsAreCandles, Measures, Grows
    <3>5. 2 * Scale * reach = 2 * (Scale * reach)
      BY <3>3, Measures, SMT
    <3> DEFINE reached == Scale * reach
    <3>6. /\ 1 * (2 * reached - 2 * s.entry) >= -s.dist /\ reached \in Nat /\ reached <= low
      BY <3>2, <3>4, <3>5
    <3> HIDE DEF price, low, reached
    <3> QED BY <1>1, <1>2, <3>1, <3>6
  <2>2. CASE s.dir = "SHORT"
    <3> DEFINE reach == Replays!Greater(c.h, c.o)
    <3>1. Replays!Sign(s.dir) = -1 /\ s.dir # "LONG"
      BY <2>2 DEF Replays!Sign
    <3>2. (-1) * (2 * Scale * reach - 2 * s.entry) >= -s.dist
      BY <1>5, <2>2, <3>1 DEF Replays!NoReverse
    <3>3. reach \in Nat /\ c.h <= reach
      BY BarsAreCandles DEF Replays!Greater
    <3> HIDE DEF reach
    <3>4. Scale * reach \in Nat /\ high <= Scale * reach
      BY <3>3, BarsAreCandles, Measures, Grows
    <3>5. 2 * Scale * reach = 2 * (Scale * reach)
      BY <3>3, Measures, SMT
    <3> DEFINE reached == Scale * reach
    <3>6. /\ (-1) * (2 * reached - 2 * s.entry) >= -s.dist /\ reached \in Nat /\ high <= reached
      BY <3>2, <3>4, <3>5
    <3> HIDE DEF price, high, reached
    <3> QED BY <1>1, <1>2, <3>1, <3>6
  <2> QED BY <1>2, <2>1, <2>2 DEF Replays!Dirs
<1>6. t = [dir |-> t.dir, at |-> t.at, entered |-> t.entered, entry |-> t.entry, stop |-> t.stop,
           target |-> t.target, held |-> t.held]
  BY DEF Replays!Enter
<1> HIDE DEF price, t
<1>7. /\ t.dir \in Replays!Dirs /\ t.entry \in Nat /\ t.held \in Nat /\ t.entered \in Nat
      /\ t.entered <= n /\ t.stop \in Int
  BY <1>1, <1>2, <1>3, <1>4
<1>8. IsTrade(t, n, em)
  BY <1>3, <1>5, <1>6, <1>7 DEF IsTrade
<1> QED BY <1>8 DEF t

(* What a candle ends and what goes on.                                     *)
LEMMA ProcessKeeps ==
  ASSUME NEW cs \in Seq(Bars), NEW c \in Bars, NEW em, NEW sm, NEW some,
         \A t \in some : IsTrade(t, Len(cs) + 1, em),
         Spared(em, sm) =>
           \A t \in some : t.entered = Len(cs) + 1 /\ Replays!ExitOf(t, c) # "NONE" =>
                               Replays!RangeOf(c) = 0
  PROVE  /\ \A t \in Replays!Ended(some, c, Len(cs) + 1) : IsClosed(t, Append(cs, c), em, sm)
         /\ \A t \in Replays!Standing(some, c) : IsTrade(t, Len(cs) + 1, em)
<1>1. /\ Len(cs) \in Nat /\ Len(Append(cs, c)) = Len(cs) + 1 /\ Append(cs, c)[Len(cs) + 1] = c
  BY LenProperties, AppendProperties
<1>2. ASSUME NEW t \in some, Replays!ExitOf(t, c) # "NONE"
      PROVE  IsClosed(Replays!Closed(t, c, Len(cs) + 1), Append(cs, c), em, sm)
  <2> DEFINE e == Replays!Closed(t, c, Len(cs) + 1)
  <2>1. e.entered = t.entered /\ e.ended = Len(cs) + 1
    BY DEF Replays!Closed
  <2>2. EndsBy(e, Append(cs, c))
    BY <1>1, <2>1 DEF EndsBy, IsTrade
  <2>3. NeverPaid(e, em)
    BY <1>1, StopNeverPays DEF NeverPaid
  <2>4. Spared(em, sm) => WasSpared(e, Append(cs, c))
    BY <1>1, <1>2, <2>1 DEF WasSpared
  <2> QED BY <2>2, <2>3, <2>4 DEF IsClosed
<1>3. ASSUME NEW t \in some
      PROVE  IsTrade([t EXCEPT !.held = @ + 1], Len(cs) + 1, em)
  <2> DEFINE on == [t EXCEPT !.held = @ + 1]
  <2>1. /\ t = [dir |-> t.dir, at |-> t.at, entered |-> t.entered, entry |-> t.entry,
                stop |-> t.stop, target |-> t.target, held |-> t.held]
        /\ t.held \in Nat
    BY DEF IsTrade
  <2>2. on = [dir |-> t.dir, at |-> t.at, entered |-> t.entered, entry |-> t.entry,
              stop |-> t.stop, target |-> t.target, held |-> t.held + 1]
    BY <2>1
  <2> HIDE DEF on
  <2>3. /\ on.dir = t.dir /\ on.at = t.at /\ on.entered = t.entered /\ on.entry = t.entry
        /\ on.stop = t.stop /\ on.target = t.target /\ on.held = t.held + 1
    BY <2>2
  <2>4. on.held \in Nat
    BY <2>1, <2>3
  <2> QED BY <2>2, <2>3, <2>4, Zenon DEF IsTrade, on
<1> QED BY <1>2, <1>3 DEF Replays!Ended, Replays!Standing, Replays!Ending

LEMMA ClosedStays ==
  ASSUME NEW cs \in Seq(Bars), NEW c \in Bars, NEW t, NEW em, NEW sm, IsClosed(t, cs, em, sm)
  PROVE  IsClosed(t, Append(cs, c), em, sm)
<1>1. /\ Len(cs) \in Nat /\ Len(Append(cs, c)) = Len(cs) + 1
      /\ \A i \in 1 .. Len(cs) : Append(cs, c)[i] = cs[i]
  BY LenProperties, AppendProperties
<1>2. t.ended \in 1 .. Len(Append(cs, c))
  BY <1>1 DEF IsClosed, EndsBy
<1> QED BY <1>1, <1>2 DEF IsClosed, EndsBy, WasSpared

-----------------------------------------------------------------------------
(* The replays with a regime gate: their invariant                         *)

ReplayInv ==
  /\ bars \in Seq(Bars) /\ trs \in Seq(Nat)
  /\ \A s \in pending : IsSignal(s)
  /\ ~Replays!Delayed => pending = {}
  /\ \A t \in active : IsTrade(t, Len(bars), entryMethod)
  /\ \A t \in completed : IsClosed(t, bars, entryMethod, stopMethod)
(* What a candle does to the trades, given those it meets.                  *)
TradesKept ==
  /\ \A t \in active' : IsTrade(t, Len(bars'), entryMethod')
  /\ \A t \in completed' : IsClosed(t, bars', entryMethod', stopMethod')

LEMMA ReplayStarts == Init => ReplayInv
  BY DEF Init, Replays!Init, ReplayInv

LEMMA ReplayImplies == ReplayInv => Replays!StopsNeverPay /\ Replays!EntryCandleSpares
<1> SUFFICES ASSUME ReplayInv, NEW t \in completed
             PROVE  /\ Honest(entryMethod) /\ t.reason = "STOP_LOSS" => t.gross <= 0 /\ t.net <= 0
                    /\ Spared(entryMethod, stopMethod) =>
                         (t.ended = t.entered => Replays!RangeOf(bars[t.entered]) = 0)
  BY DEF Replays!StopsNeverPay, Replays!EntryCandleSpares, Honest, Spared
<1> QED BY DEF ReplayInv, IsClosed, NeverPaid, WasSpared

LEMMA CandleArrives ==
  ASSUME ReplayInv, NEW c \in Bars, Replays!Arrive(c)
  PROVE  /\ bars' = Append(bars, c) /\ bars' \in Seq(Bars) /\ bars' # <<>>
         /\ Len(bars) \in Nat /\ Len(bars') = Len(bars) + 1 /\ Replays!Last(bars') = c
         /\ trs' \in Seq(Nat)
         /\ entryMethod' = entryMethod /\ stopMethod' = stopMethod
<1>1. /\ bars' = Append(bars, c) /\ entryMethod' = entryMethod /\ stopMethod' = stopMethod
      /\ trs' = IF bars = <<>> THEN trs
                ELSE Replays!Kept(Append(trs, Replays!TrueRange(c, Replays!Last(bars))), TrLength)
      /\ bars \in Seq(Bars) /\ trs \in Seq(Nat)
  BY DEF Replays!Arrive, ReplayInv
<1>2. /\ bars' \in Seq(Bars) /\ bars' # <<>> /\ Len(bars) \in Nat /\ Len(bars') = Len(bars) + 1
      /\ bars'[Len(bars) + 1] = c
  BY <1>1, LenProperties, AppendProperties
<1>3. Replays!Last(bars') = c
  BY <1>2 DEF Replays!Last
<1>4. ASSUME bars # <<>> PROVE trs' \in Seq(Nat)
  <2> DEFINE prev == Replays!Last(bars)
             tr == Replays!TrueRange(c, prev)
  <2>1. prev \in Bars
    BY <1>1, <1>4, RangesAreNat
  <2>2. tr \in Nat
    <3>1. /\ Replays!RangeOf(c) \in Nat /\ Replays!Magnitude(c.h - prev.c) \in Nat
          /\ Replays!Magnitude(c.l - prev.c) \in Nat
      BY <2>1, BarsAreCandles DEF Replays!Magnitude
    <3> QED BY <3>1, GreatestOfThree DEF Replays!TrueRange
  <2> HIDE DEF tr
  <2>3. Append(trs, tr) \in Seq(Nat) /\ Append(trs, tr) # <<>>
    BY <1>1, <2>2, AppendProperties
  <2>4. Replays!Kept(Append(trs, tr), TrLength) \in Seq(Nat)
    BY <2>3, KeptAreSome, Measures
  <2> QED BY <1>1, <1>4, <2>4 DEF tr
<1> QED BY <1>1, <1>2, <1>3, <1>4

LEMMA MeetingKeeps ==
  ASSUME ReplayInv, NEW c \in Bars, Replays!Arrive(c), NEW some,
         Replays!Process(active \cup some, c, Len(bars')),
         \A t \in some : IsTrade(t, Len(bars) + 1, entryMethod),
         Spared(entryMethod, stopMethod) =>
           \A t \in some : Replays!ExitOf(t, c) # "NONE" => Replays!RangeOf(c) = 0
  PROVE  TradesKept
<1> DEFINE all == active \cup some
           n == Len(bars) + 1
<1>1. /\ bars' = Append(bars, c) /\ Len(bars) \in Nat /\ Len(bars') = n /\ bars \in Seq(Bars)
      /\ entryMethod' = entryMethod /\ stopMethod' = stopMethod
  BY CandleArrives DEF ReplayInv
<1>2. ASSUME NEW t \in active PROVE IsTrade(t, n, entryMethod) /\ t.entered # n
  BY <1>1 DEF ReplayInv, IsTrade
<1>3. \A t \in all : IsTrade(t, n, entryMethod)
  BY <1>2
<1>4. Spared(entryMethod, stopMethod) =>
        \A t \in all : t.entered = n /\ Replays!ExitOf(t, c) # "NONE" => Replays!RangeOf(c) = 0
  BY <1>2
<1>5. active' = Replays!Standing(all, c) /\ completed' = completed \cup Replays!Ended(all, c, n)
  BY <1>1 DEF Replays!Process
<1> HIDE DEF all
<1>6. /\ \A t \in Replays!Ended(all, c, n) : IsClosed(t, Append(bars, c), entryMethod, stopMethod)
      /\ \A t \in Replays!Standing(all, c) : IsTrade(t, n, entryMethod)
  BY <1>1, <1>3, <1>4, ProcessKeeps
<1>7. \A t \in completed : IsClosed(t, Append(bars, c), entryMethod, stopMethod)
  BY <1>1, ClosedStays DEF ReplayInv
<1> QED BY <1>1, <1>5, <1>6, <1>7 DEF TradesKept

LEMMA IdlingKeeps ==
  ASSUME ReplayInv, NEW c \in Bars, Replays!Arrive(c), Replays!Idle
  PROVE  TradesKept
<1>1. /\ bars' = Append(bars, c) /\ Len(bars) \in Nat /\ Len(bars') = Len(bars) + 1
      /\ entryMethod' = entryMethod /\ stopMethod' = stopMethod /\ bars \in Seq(Bars)
  BY CandleArrives DEF ReplayInv
<1>2. active' = active /\ completed' = completed
  BY DEF Replays!Idle
<1>3. \A t \in active : IsTrade(t, Len(bars) + 1, entryMethod)
  BY <1>1 DEF ReplayInv, IsTrade
<1>4. \A t \in completed : IsClosed(t, Append(bars, c), entryMethod, stopMethod)
  BY <1>1, ClosedStays DEF ReplayInv
<1> QED BY <1>1, <1>2, <1>3, <1>4 DEF TradesKept

LEMMA ConfirmingKeeps ==
  ASSUME ReplayInv, NEW c \in Bars, Replays!Arrive(c), Replays!Confirming(c)
  PROVE  TradesKept
<1> DEFINE mine == {s \in pending : s.at = Len(bars) /\ Replays!Confirmed(s, c)}
           some == {Replays!Enter(s, c, Len(bars')) : s \in mine}
<1>1. CASE mine = {}
  BY <1>1, IdlingKeeps DEF Replays!Confirming
<1>2. CASE mine # {}
  <2>1. Replays!Process(active \cup some, c, Len(bars'))
    BY <1>2 DEF Replays!Confirming
  <2>2. Replays!Delayed /\ ~Spared(entryMethod, stopMethod)
    BY <1>2 DEF ReplayInv, Replays!Delayed, Spared
  <2>3. Len(bars') = Len(bars) + 1 /\ Len(bars) + 1 \in Nat
    BY CandleArrives
  <2>4. ASSUME NEW s \in mine
        PROVE  IsTrade(Replays!Enter(s, c, Len(bars) + 1), Len(bars) + 1, entryMethod)
    <3>1. IsSignal(s)
      BY DEF ReplayInv
    <3>2. Honest(entryMethod) => Replays!NoReverse(s, c)
      BY <2>2 DEF Honest, Replays!Delayed, Replays!Confirmed
    <3> QED BY <2>3, <3>1, <3>2, EnteredLater
  <2>5. \A t \in some : IsTrade(t, Len(bars) + 1, entryMethod)
    BY <2>3, <2>4
  <2> HIDE DEF some
  <2> QED BY <2>1, <2>2, <2>5, MeetingKeeps
<1> QED BY <1>1, <1>2

LEMMA SelectedKeeps ==
  ASSUME ReplayInv, NEW c \in Bars, NEW dir \in Replays!Dirs, NEW swing \in Replays!Swings,
         Replays!Selected(c, dir, swing)
  PROVE  /\ TradesKept
         /\ \A s \in pending' : IsSignal(s)
         /\ ~Replays!Delayed => pending' = {}
<1> DEFINE dist == Replays!StopDistance(stopMethod, bars', trs', swing)
           s == Replays!Signal(dir, c, Len(bars'), dist)
           t == Replays!Enter(s, c, Len(bars'))
<1>1. Replays!Arrive(c)
  BY DEF Replays!Selected
<1>2. /\ bars' \in Seq(Bars) /\ bars' # <<>> /\ Len(bars') = Len(bars) + 1 /\ Len(bars') \in Nat
      /\ Replays!Last(bars') = c /\ trs' \in Seq(Nat)
  BY <1>1, CandleArrives
<1>3. /\ dist \in Nat
      /\ Spared(entryMethod, stopMethod) => dist >= Replays!Times(15, Replays!RangeOf(c), 1)
  <2>1. swing \in 0 .. 2
    BY DEF Replays!Swings
  <2> QED BY <1>2, <2>1, StopsAreAway DEF Spared
<1> HIDE DEF dist
<1>4. CASE Replays!Delayed
  <2>1. Replays!Confirming(c) /\ pending' = {s}
    BY <1>4 DEF Replays!Selected, dist
  <2>2. IsSignal(s)
    BY <1>3, SignalIsOne
  <2> HIDE DEF s
  <2> QED BY <1>1, <1>4, <2>1, <2>2, ConfirmingKeeps
<1>5. CASE ~Replays!Delayed
  <2>1. pending' = pending /\ pending = {}
    BY <1>5 DEF Replays!Selected, ReplayInv
  <2>2. Replays!Process(active \cup {t}, c, Len(bars')) \/ Replays!Idle
    BY <1>5 DEF Replays!Selected, dist
  <2>3. CASE Replays!Process(active \cup {t}, c, Len(bars'))
    <3>1. IsTrade(t, Len(bars'), entryMethod)
      BY <1>2, <1>3, EnteredAtSignal
    <3>2. Spared(entryMethod, stopMethod) /\ Replays!ExitOf(t, c) # "NONE"
            => Replays!RangeOf(c) = 0
      BY <1>3, EntrySpares
    <3> HIDE DEF t
    <3> DEFINE some == {t}
    <3>3. \A x \in some : IsTrade(x, Len(bars) + 1, entryMethod)
      BY <1>2, <3>1
    <3>4. Spared(entryMethod, stopMethod) =>
            \A x \in some : Replays!ExitOf(x, c) # "NONE" => Replays!RangeOf(c) = 0
      BY <3>2
    <3>5. Replays!Process(active \cup some, c, Len(bars'))
      BY <2>3
    <3> HIDE DEF some
    <3>6. TradesKept
      BY <1>1, <3>3, <3>4, <3>5, MeetingKeeps
    <3> QED BY <2>1, <3>6
  <2>4. CASE Replays!Idle
    BY <1>1, <2>1, <2>4, IdlingKeeps
  <2> QED BY <2>2, <2>3, <2>4
<1> QED BY <1>4, <1>5

LEMMA ReplayKept == ReplayInv /\ [Next]_vars => ReplayInv'
<1> SUFFICES ASSUME ReplayInv, [Next]_vars PROVE ReplayInv'
  OBVIOUS
<1>1. ASSUME NEW c \in Bars, Replays!Arrive(c), TradesKept,
             \A s \in pending' : IsSignal(s), ~Replays!Delayed => pending' = {}
      PROVE  ReplayInv'
  <2>1. bars' \in Seq(Bars) /\ trs' \in Seq(Nat) /\ entryMethod' = entryMethod
    BY <1>1, CandleArrives
  <2>2. ~(Replays!Delayed)' => pending' = {}
    BY <1>1, <2>1 DEF Replays!Delayed
  <2> QED BY <1>1, <2>1, <2>2 DEF ReplayInv, TradesKept, Replays!Delayed
<1>2. ASSUME NEW c \in Bars, Replays!Pass(c) PROVE ReplayInv'
  BY <1>1, <1>2, ConfirmingKeeps DEF Replays!Pass
<1>3. ASSUME NEW c \in Bars, Replays!GateBlocks(c) PROVE ReplayInv'
  BY <1>1, <1>3, ConfirmingKeeps DEF Replays!GateBlocks
<1>4. ASSUME NEW c \in Bars, NEW dir \in Replays!Dirs, NEW swing \in Replays!Swings,
             Replays!Selected(c, dir, swing)
      PROVE  ReplayInv'
  <2>1. Replays!Arrive(c)
    BY <1>4 DEF Replays!Selected
  <2> QED BY <1>1, <1>4, <2>1, SelectedKeeps
<1>5. CASE UNCHANGED replayVars
  BY <1>5 DEF ReplayInv, replayVars, Replays!Delayed
<1> QED BY <1>2, <1>3, <1>4, <1>5, OneTopicSteps DEF Replays!Next

(* Whatever the candles, their length and the methods: a trade that ends at *)
(* its stop does not gain, unless its entry was only delayed, and a trade   *)
(* entered at the close of a candle does not end on it where the stop is    *)
(* made of its range.                                                       *)
THEOREM ExitsStayFair == Spec => []ExitsAreFair
<1>1. ReplayInv => ExitsAreFair
  BY ReplayImplies DEF ExitsAreFair
<1> QED BY <1>1, ReplayStarts, ReplayKept, PTL DEF Spec

-----------------------------------------------------------------------------
(* The decision                                                            *)

(* Dividing rounds down.                                                    *)
LEMMA Floor ==
  ASSUME NEW a \in Int, NEW d \in Nat \ {0}
  PROVE  a \div d \in Int /\ d * (a \div d) <= a /\ a < d * (a \div d) + d
  BY Z3

LEMMA FloorLeast ==
  ASSUME NEW a \in Int, NEW d \in Nat \ {0}, NEW k \in Int, d * k <= a
  PROVE  k <= a \div d
<1> DEFINE q == a \div d
           rest == d * q
           less == d * (k - q - 1)
<1>1. q \in Int /\ rest <= a /\ a < rest + d
  BY Floor
<1> HIDE DEF q
<1>2. ASSUME k > q PROVE FALSE
  <2>1. k - q - 1 \in Nat
    BY <1>1, <1>2
  <2>2. less \in Nat
    BY <2>1, SMT
  <2>3. less = d * k - rest - d
    BY <1>1, SMT
  <2>4. d * k \in Int /\ rest \in Int
    BY <1>1, SMT
  <2> HIDE DEF rest, less
  <2> QED BY <1>1, <2>2, <2>3, <2>4
<1> QED BY <1>1, <1>2 DEF q

(* Winning more often, and losing less often, is worth no less.             *)
LEMMA WorthNoLess ==
  ASSUME NEW p \in Nat \ {0}, NEW q \in Nat, NEW lost \in Nat, NEW fewer \in Nat,
         NEW win \in Nat, NEW loss \in Nat, NEW k \in Nat,
         p <= q, fewer <= lost, (p + lost) * k <= p * win - lost * loss
  PROVE  (q + fewer) * k <= q * win - fewer * loss
<1> DEFINE gain == win - k
           pain == loss + k
<1>1. gain \in Int /\ pain \in Nat
  OBVIOUS
<1>2. p * gain >= lost * pain
  BY SMT
<1>3. lost * pain \in Nat /\ p * gain \in Int
  BY <1>1, SMT
<1>4. gain >= 0
  <2> SUFFICES ASSUME -gain \in Nat \ {0} PROVE FALSE
    BY <1>1
  <2> DEFINE n == -gain
             less == (p - 1) * (n - 1)
  <2>1. p - 1 \in Nat /\ n - 1 \in Nat
    OBVIOUS
  <2>2. less \in Nat
    BY <2>1, SMT
  <2>3. p * gain = -(less + (p - 1) + (n - 1) + 1)
    BY <1>1, SMT
  <2> HIDE DEF less
  <2> QED BY <1>2, <1>3, <2>1, <2>2, <2>3
<1>5. (q - p) * gain \in Nat /\ (lost - fewer) * pain \in Nat
  <2>1. q - p \in Nat /\ lost - fewer \in Nat /\ gain \in Nat
    BY <1>1, <1>4
  <2> QED BY <1>1, <2>1, SMT
<1>6. q * gain = p * gain + (q - p) * gain /\ fewer * pain = lost * pain - (lost - fewer) * pain
  BY <1>1, SMT
<1>7. q * gain >= fewer * pain
  <2> DEFINE a == p * gain  b == (q - p) * gain  c == lost * pain  d == (lost - fewer) * pain
             e == q * gain  f == fewer * pain
  <2>1. a >= c /\ a \in Int /\ c \in Nat /\ b \in Nat /\ d \in Nat /\ e = a + b /\ f = c - d
    BY <1>2, <1>3, <1>5, <1>6
  <2> HIDE DEF a, b, c, d, e, f
  <2>2. e >= f
    BY <2>1
  <2> QED BY <2>2 DEF e, f
<1> QED BY <1>7, SMT

LEMMA KnowledgeTypes ==
  ASSUME NEW m \in Decision!Knowledge
  PROVE  /\ m.cases \in Nat /\ m.history \in Nat /\ m.warning \in Nat
         /\ m.win \in Nat /\ m.loss \in Nat /\ m.noTrade \in Nat
         /\ m.uncertainty \in Nat /\ m.drawdown \in Nat /\ m.doubt \in Nat
         /\ m.support = Decision!Unknown \/ m.support \in Nat
<1>1. /\ m.cases \in Nat /\ m.history \in 0 .. Decision!Whole /\ m.warning \in 0 .. 100
      /\ m.win \in Nat /\ m.loss \in Nat /\ m.noTrade \in 0 .. Decision!Whole
      /\ m.uncertainty \in 0 .. 100 /\ m.drawdown \in 0 .. 100 /\ m.doubt \in 0 .. 100
      /\ m.support \in {Decision!Unknown} \cup 0 .. 100
  BY Zenon DEF Decision!Knowledge
<1>2. Decision!Whole \in Int
  BY SMT DEF Decision!Whole
<1> QED BY <1>1, <1>2, SMT

(* The pull takes less than the surer trade is surer by.                    *)
LEMMA SurerStaysSurer ==
  ASSUME NEW raw \in 0 .. Decision!Whole, NEW surer \in 0 .. Decision!Whole,
         NEW m \in Decision!Knowledge, raw <= surer,
         Decision!Pull(raw, m) = 0 => Decision!Pull(surer, m) = 0
  PROVE  /\ Decision!Calibrate(raw, m) \in 100 .. 9900
         /\ Decision!Calibrate(surer, m) \in 100 .. 9900
         /\ Decision!Calibrate(raw, m) <= Decision!Calibrate(surer, m)
<1> DEFINE before(r) == r - Decision!Pull(r, m)
           enough == m.cases >= Decision!MinSample
           scarce == Decision!Given(~enough, (Decision!MinSample - m.cases) * 50)
           losing == Decision!Given(m.loser, 500)
           warned == Decision!Given(m.warning > 50, (m.warning - 50) * 5)
           backed == Decision!Given(enough /\ m.support > 70, 300)
           doubted == Decision!Given(enough /\ m.support \in 0 .. 29, 300)
           rest == backed - scarce - losing - warned - doubted
<1>1. m.cases \in Nat /\ m.history \in Nat /\ m.warning \in Nat
  BY KnowledgeTypes
<1>2. raw \in Nat /\ surer \in Nat
  BY SMT DEF Decision!Whole
<1>3. before(raw) \in Int /\ before(surer) \in Int /\ before(raw) <= before(surer)
  BY <1>1, <1>2, SMT DEF Decision!Pull, Decision!Given
<1>4. rest \in Int
  BY <1>1 DEF Decision!Given, Decision!MinSample
<1>5. ASSUME NEW r \in {raw, surer}
      PROVE  Decision!Calibrate(r, m) = Decision!Clamped(100, before(r) + rest, 9900)
  <2>1. /\ scarce \in Int /\ losing \in Int /\ warned \in Int /\ backed \in Int /\ doubted \in Int
        /\ r \in Int /\ Decision!Pull(r, m) \in Int
    BY <1>1, <1>2 DEF Decision!Given, Decision!MinSample, Decision!Pull
  <2>2. Decision!Calibrate(r, m) =
          Decision!Clamped(100, r - scarce - Decision!Pull(r, m) - losing - warned + backed - doubted,
                           9900)
    BY DEF Decision!Calibrate
  <2> HIDE DEF scarce, losing, warned, backed, doubted
  <2>3. r - scarce - Decision!Pull(r, m) - losing - warned + backed - doubted = before(r) + rest
    BY <2>1
  <2> QED BY <2>2, <2>3
<1> DEFINE u == before(raw) + rest
           v == before(surer) + rest
<1>6. u \in Int /\ v \in Int /\ u <= v
  <2> HIDE DEF before, rest
  <2> QED BY <1>3, <1>4, SMT
<1>7. /\ Decision!Calibrate(raw, m) = Decision!Clamped(100, u, 9900)
      /\ Decision!Calibrate(surer, m) = Decision!Clamped(100, v, 9900)
  <2> HIDE DEF before, rest
  <2> QED BY <1>5
<1> HIDE DEF u, v
<1> QED BY <1>6, <1>7, SMT DEF Decision!Clamped

LEMMA AcceptedStays ==
  ASSUME NEW raw \in 0 .. Decision!Whole, NEW surer \in 0 .. Decision!Whole,
         NEW m \in Decision!Knowledge
  PROVE  Decision!SurerStaysAccepted(raw, surer, m)
<1> SUFFICES ASSUME raw <= surer, Decision!Acceptable(raw, m),
                    Decision!Pull(raw, m) = 0 => Decision!Pull(surer, m) = 0
             PROVE  Decision!Acceptable(surer, m)
  BY DEF Decision!SurerStaysAccepted
<1> DEFINE p == Decision!Calibrate(raw, m)
           q == Decision!Calibrate(surer, m)
           lost == Decision!LossOf(p, m)
           fewer == Decision!LossOf(q, m)
           k == Decision!ValueR(p, m)
<1>1. p \in Nat \ {0} /\ q \in Nat \ {0} /\ p <= q
  <2>1. p \in 100 .. 9900 /\ q \in 100 .. 9900 /\ p <= q
    BY SurerStaysSurer
  <2> HIDE DEF p, q
  <2> QED BY <2>1
<1>2. m.win \in Nat /\ m.loss \in Nat /\ m.noTrade \in Nat
  BY KnowledgeTypes
<1>3. Decision!Penalty(m) \in Nat
  <2>1. m.uncertainty \in Nat /\ m.drawdown \in Nat /\ m.doubt \in Nat
        /\ (m.support = Decision!Unknown \/ m.support \in Nat)
    BY KnowledgeTypes
  <2> QED BY <2>1 DEF Decision!Penalty, Decision!AtLeastZero
<1>4. Decision!Whole \in Nat /\ Decision!Whole = 10000
  BY SMT DEF Decision!Whole
<1> HIDE DEF p, q
<1>5. lost \in Nat /\ fewer \in Nat /\ fewer <= lost
  BY <1>1, <1>2, <1>4, SMT DEF Decision!LossOf, Decision!AtLeastZero
<1>6. /\ Decision!PositiveValue(p, m)
      /\ Decision!UtilityGrade(p, m) \in {"EXCELLENT", "GOOD", "MARGINAL"}
      /\ 2 * m.noTrade < Decision!Whole /\ m.uncertainty < 70
      /\ Decision!BeatsBreakeven(p, m)
  BY DEF Decision!Acceptable, p
<1> HIDE DEF lost, fewer
<1>7. k = (p * m.win - lost * m.loss) \div (p + lost)
  BY <1>1, <1>5 DEF Decision!ValueR, lost
<1>8. p * m.win \in Int /\ lost * m.loss \in Int
  BY <1>1, <1>2, <1>5, SMT
<1>9. k \in Int /\ (p + lost) * k <= p * m.win - lost * m.loss
  <2> DEFINE a == p * m.win - lost * m.loss
  <2>1. a \in Int /\ p + lost \in Nat \ {0}
    BY <1>1, <1>5, <1>8
  <2> HIDE DEF a
  <2>2. a \div (p + lost) \in Int /\ (p + lost) * (a \div (p + lost)) <= a
    BY <2>1, Floor
  <2> QED BY <1>7, <2>2 DEF a
<1> HIDE DEF k
<1>10. k > Decision!Penalty(m)
  BY <1>3, <1>6, <1>9, SMT DEF Decision!UtilityGrade, Decision!Utility, k
<1>11. k \in Nat
  BY <1>3, <1>9, <1>10
<1>12. (q + fewer) * k <= q * m.win - fewer * m.loss
  BY <1>1, <1>2, <1>5, <1>9, <1>11, WorthNoLess
<1>13. k <= Decision!ValueR(q, m)
  <2> DEFINE a == q * m.win - fewer * m.loss
  <2>1. Decision!ValueR(q, m) = a \div (q + fewer)
    BY <1>1, <1>5 DEF Decision!ValueR, fewer
  <2>2. a \in Int /\ q + fewer \in Nat \ {0}
    BY <1>1, <1>2, <1>5, SMT
  <2> HIDE DEF a
  <2>3. (q + fewer) * k <= a
    BY <1>12 DEF a
  <2> QED BY <1>9, <2>1, <2>2, <2>3, FloorLeast
<1>14. Decision!PositiveValue(q, m)
  <2>1. (q - p) * m.win \in Nat /\ (lost - fewer) * m.loss \in Nat
    <3>1. q - p \in Nat /\ lost - fewer \in Nat
      BY <1>1, <1>5
    <3> QED BY <1>2, <3>1, SMT
  <2>2. q * m.win >= p * m.win /\ fewer * m.loss <= lost * m.loss
    BY <1>1, <1>2, <1>5, <2>1, SMT
  <2>3. q * m.win \in Int /\ fewer * m.loss \in Int
    BY <1>1, <1>2, <1>5, SMT
  <2>4. p * m.win > lost * m.loss
    BY <1>6 DEF Decision!PositiveValue, lost
  <2> QED BY <1>8, <2>2, <2>3, <2>4, SMT DEF Decision!PositiveValue, fewer
<1>15. Decision!UtilityGrade(q, m) \in {"EXCELLENT", "GOOD", "MARGINAL"}
  <2>1. Decision!ValueR(q, m) \in Int
    <3>1. q * m.win - fewer * m.loss \in Int /\ q + fewer \in Nat \ {0}
      BY <1>1, <1>2, <1>5, SMT
    <3>2. Decision!ValueR(q, m) = (q * m.win - fewer * m.loss) \div (q + fewer)
      BY <1>1, <1>5 DEF Decision!ValueR, fewer
    <3> DEFINE a == q * m.win - fewer * m.loss
    <3> HIDE DEF a
    <3>3. a \div (q + fewer) \in Int
      BY <3>1, Floor DEF a
    <3> QED BY <3>2, <3>3 DEF a
  <2>2. Decision!Utility(q, m) \in Int /\ Decision!Utility(q, m) > 0
    BY <1>3, <1>10, <1>11, <1>13, <2>1 DEF Decision!Utility
  <2>3. ~(2 * m.noTrade > Decision!Whole)
    BY <1>2, <1>4, <1>6, SMT
  <2> QED BY <2>2, <2>3 DEF Decision!UtilityGrade
<1>16. Decision!BeatsBreakeven(q, m)
  <2>1. CASE m.win + m.loss > 0
    <3> DEFINE x == m.win + m.loss
    <3>1. q - p \in Nat /\ x \in Nat
      BY <1>1, <1>2
    <3> HIDE DEF x
    <3>2. (q - p) * x \in Nat /\ q * x = p * x + (q - p) * x /\ p * x \in Nat
      BY <1>1, <3>1, SMT
    <3>3. Decision!Whole * m.loss \in Int
      BY <1>2, <1>4, SMT
    <3>4. p * x > Decision!Whole * m.loss
      BY <1>6, <2>1 DEF Decision!BeatsBreakeven, x
    <3>5. q * x > Decision!Whole * m.loss
      BY <3>2, <3>3, <3>4, SMT
    <3> QED BY <2>1, <3>5 DEF Decision!BeatsBreakeven, x
  <2>2. CASE ~(m.win + m.loss > 0)
    BY <1>1, <1>4, <1>6, <2>2, SMT DEF Decision!BeatsBreakeven
  <2> QED BY <2>1, <2>2
<1> QED BY <1>6, <1>14, <1>15, <1>16 DEF Decision!Acceptable, q

-----------------------------------------------------------------------------
(* The validation gate                                                     *)

LEMMA AdmittedHasProfits == Lab!AdmittedIsEarned
<1> SUFFICES ASSUME Lab!EligibleForPaper(trades, worst)
             PROVE  /\ Lab!Grade(trades, worst) = "EXCELLENT"
                    /\ Lab!SumOf(SubSeq(trades, 1, Len(trades) \div 2)) > 0
                    /\ Lab!SumOf(SubSeq(trades, Len(trades) \div 2 + 1, Len(trades))) > 0
                    /\ Lab!Expects(Lab!LowerWinRate(trades)) \/ Lab!Expects(Lab!LowerRR(trades))
  BY DEF Lab!AdmittedIsEarned
<1>1. Lab!Passed(trades, worst)
  BY DEF Lab!EligibleForPaper
<1>2. Lab!WalkForward(trades) /\ Lab!MonteCarlo(trades, worst) /\ Lab!Sensitivity(trades)
  BY <1>1, Zenon DEF Lab!Passed, Lab!Failures
<1>3. Lab!Grade(trades, worst) = "EXCELLENT"
  BY <1>1, <1>2 DEF Lab!Grade, Lab!MonteCarlo
<1>4. Lab!Expects(Lab!First(trades)) /\ Lab!Expects(Lab!Second(trades))
  BY <1>2 DEF Lab!WalkForward, Lab!WindowPasses
<1>5. Lab!Passing(trades) \cap {3, 4} # {}
  <2> SUFFICES ASSUME Lab!Passing(trades) \subseteq 1 .. 2 PROVE FALSE
    BY DEF Lab!Passing
  <2>1. Cardinality(Lab!Passing(trades)) <= 2 /\ Cardinality(Lab!Passing(trades)) \in Nat
    <3>1. IsFiniteSet(1 .. 2) /\ Cardinality(1 .. 2) = 2
      <4>1. 1 \in Int /\ 2 \in Int /\ ~(1 > 2) /\ 2 - 1 + 1 = 2
        OBVIOUS
      <4> QED BY <4>1, FS_Interval, Zenon
    <3>2. IsFiniteSet(Lab!Passing(trades))
          /\ Cardinality(Lab!Passing(trades)) <= Cardinality(1 .. 2)
      BY <3>1, FS_Subset
    <3>3. Cardinality(Lab!Passing(trades)) \in Nat
      BY <3>2, FS_CardinalityType, Zenon
    <3> QED BY <3>1, <3>2, <3>3
  <2>2. Lab!Cardinality(Lab!Passing(trades)) = Cardinality(Lab!Passing(trades))
    BY DEF Lab!Cardinality, Cardinality
  <2> QED BY <1>2, <2>1, <2>2 DEF Lab!Sensitivity
<1>6. Lab!Expects(Lab!LowerWinRate(trades)) \/ Lab!Expects(Lab!LowerRR(trades))
  <2>1. PICK n \in {3, 4} : Lab!WindowPasses(Lab!Scenarios(trades)[n])
    BY <1>5 DEF Lab!Passing
  <2>2. /\ Lab!Scenarios(trades)[3] = Lab!LowerWinRate(trades)
        /\ Lab!Scenarios(trades)[4] = Lab!LowerRR(trades)
    BY DEF Lab!Scenarios
  <2> QED BY <2>1, <2>2 DEF Lab!WindowPasses
<1> QED BY <1>3, <1>4, <1>6 DEF Lab!Expects, Lab!First, Lab!Second, Lab!Half

(* Any trade that is accepted stays accepted when it is surer to win, but   *)
(* for the jump of the pull; and whatever trades the validation gate is     *)
(* asked about, those it admits profited throughout.                        *)
THEOREM DecisionsStand == Spec => []DecisionsAreEarned
<1>1. InputInv => DecisionsAreEarned
  BY AcceptedStays, AdmittedHasProfits, MCResearchAssumption
  DEF InputInv, DecisionsAreEarned, Decision!IsDecision
<1> QED BY <1>1, InputStays, InputKept, PTL DEF Spec

-----------------------------------------------------------------------------
(* The beliefs                                                             *)

PerMille == [Belief!Believed -> 0 .. 1000]
BeliefInv ==
  /\ probability \in PerMille /\ rejected \subseteq Belief!Believed
  /\ Belief!DominantIsActive

LEMMA BeliefLimits ==
  /\ Belief!Whole = 1000 /\ Prior \in Seq(1 .. 1000)
  /\ Belief!Believed = 1 .. Len(Prior) /\ Len(Prior) \in Nat
  /\ IsFiniteSet(Belief!Believed)
  /\ \A e \in Evidence : e.yes \in 0 .. 1000 /\ e.no \in 0 .. 1000 /\ e.weight \in 0 .. 1000
<1>1. Belief!Whole = 1000
  BY DEF Belief!Whole
<1>2. Belief!Limits
  BY MCResearchAssumption
<1>3. Prior \in Seq(1 .. 1000)
  BY <1>1, <1>2 DEF Belief!Limits
<1>4. Belief!Believed = 1 .. Len(Prior) /\ Len(Prior) \in Nat
  BY <1>3 DEF Belief!Believed
<1>5. IsFiniteSet(1 .. Len(Prior))
  BY <1>4, FS_Interval
<1> QED BY <1>1, <1>2, <1>3, <1>4, <1>5 DEF Belief!Limits

LEMMA AtMostWhole ==
  ASSUME NEW p \in PerMille, NEW b \in Belief!Believed
  PROVE  p[b] \in 0 .. 1000 /\ p[b] \in Nat /\ p[b] \in Int
<1>1. p[b] \in 0 .. 1000
  BY Zenon DEF PerMille
<1> QED BY <1>1

LEMMA ProbabilitiesAdd ==
  ASSUME NEW p \in PerMille, NEW S \in SUBSET Belief!Believed
  PROVE  Belief!Sum(p, S) \in Nat
<1> DEFINE Adds(g) == g = [U \in SUBSET S |->
             IF U = {} THEN 0
             ELSE p[CHOOSE x \in U : TRUE] + g[U \ {CHOOSE x \in U : TRUE}]]
           f == CHOOSE g : Adds(g)
           w == [b \in S |-> p[b]]
<1>1. w \in [S -> Nat] /\ w \in [S -> Int] /\ IsFiniteSet(S)
  <2>1. IsFiniteSet(S)
    BY BeliefLimits, FS_Subset, Zenon
  <2>2. \A b \in S : p[b] \in Nat /\ p[b] \in Int
    BY AtMostWhole, Zenon
  <2> QED BY <2>1, <2>2, Zenon
<1>2. \A b \in S : w[b] = p[b]
  OBVIOUS
<1> HIDE DEF w
<1>3. ASSUME NEW g PROVE Adds(g) <=> FoldsAny(S, w, g)
  <2>1. \A U \in SUBSET S : U # {} => p[CHOOSE x \in U : TRUE] = w[CHOOSE x \in U : TRUE]
    BY <1>2
  <2> QED BY <2>1 DEF FoldsAny, AnyOf
<1>4. \E g : Adds(g)
  <2> HIDE DEF Adds
  <2> QED BY <1>1, <1>3, FoldsAnyExists
<1>5. FoldsAny(S, w, f)
  <2>1. Adds(f)
    BY <1>4
  <2> HIDE DEF Adds
  <2> QED BY <1>3, <2>1
<1>6. Belief!Sum(p, S) = f[S]
  BY DEF Belief!Sum, Belief!FoldSet, Belief!MapThenFoldSet
<1> HIDE DEF f
<1>7. f[S] \in Nat
  BY <1>1, <1>5, FoldsAnySums, SumsNat
<1> QED BY <1>6, <1>7

LEMMA ClampedStays ==
  ASSUME NEW x \in Int PROVE Belief!Clamped(10, x, 990) \in 0 .. 1000
  BY DEF Belief!Clamped

LEMMA RoundedIsInt ==
  ASSUME NEW x \in Int, NEW y \in Nat \ {0} PROVE Belief!Rounded(x, y) \in Int
<1> DEFINE a == 2 * x + y
           d == 2 * y
<1>1. a \in Int /\ d \in Nat \ {0}
  OBVIOUS
<1> HIDE DEF a, d
<1>2. a \div d \in Int
  BY <1>1, Floor
<1> QED BY <1>2 DEF Belief!Rounded, a, d

LEMMA SharedStays ==
  ASSUME NEW p \in PerMille, NEW gone \in SUBSET Belief!Believed
  PROVE  Belief!Shared(p, gone) \in PerMille
<1> DEFINE total == Belief!Sum(p, Belief!Active(gone))
<1>1. total \in Nat
  BY ProbabilitiesAdd DEF Belief!Active
<1> HIDE DEF total
<1>2. CASE total = 0
  BY <1>2, Zenon DEF Belief!Shared, total
<1>3. CASE total # 0
  <2>1. ASSUME NEW b \in Belief!Believed
        PROVE  Belief!Clamped(10, Belief!Rounded(p[b] * Belief!Whole, total), 990) \in 0 .. 1000
    <3>1. p[b] * Belief!Whole \in Int
      BY AtMostWhole, Belief!Whole \in Int DEF Belief!Whole
    <3>2. total \in Nat \ {0}
      BY <1>1, <1>3
    <3>3. Belief!Rounded(p[b] * Belief!Whole, total) \in Int
      BY <3>1, <3>2, RoundedIsInt, Zenon
    <3> DEFINE x == Belief!Rounded(p[b] * Belief!Whole, total)
    <3> HIDE DEF x
    <3>4. Belief!Clamped(10, x, 990) \in 0 .. 1000
      BY <3>3, ClampedStays DEF x
    <3> QED BY <3>4 DEF x
  <2>2. Belief!Shared(p, gone) =
          [b \in Belief!Believed |->
             Belief!Clamped(10, Belief!Rounded(p[b] * Belief!Whole, total), 990)]
    BY <1>3 DEF Belief!Shared, total
  <2> DEFINE kept(b) == Belief!Clamped(10, Belief!Rounded(p[b] * Belief!Whole, total), 990)
  <2>3. \A b \in Belief!Believed : kept(b) \in 0 .. 1000
    BY <2>1
  <2> HIDE DEF kept
  <2>4. [b \in Belief!Believed |-> kept(b)] \in PerMille
    BY <2>3 DEF PerMille
  <2> QED BY <2>2, <2>4 DEF kept
<1> QED BY <1>2, <1>3

LEMMA SpreadStays ==
  ASSUME NEW p \in PerMille, NEW gone \in SUBSET Belief!Believed, Belief!Active(gone) # {}
  PROVE  Belief!Spread(p, gone) \in PerMille
<1> DEFINE n == Belief!Cardinality(Belief!Active(gone))
           missing == Belief!Whole - Belief!Sum(p, Belief!Believed)
<1>1. n \in Nat \ {0}
  <2>1. \A S : Belief!Cardinality(S) = Cardinality(S)
    BY DEF Belief!Cardinality, Cardinality
  <2>2. IsFiniteSet(Belief!Active(gone))
    BY BeliefLimits, FS_Subset DEF Belief!Active
  <2> QED BY <2>1, <2>2, FS_EmptySet, FS_CardinalityType
<1>2. missing \in Int
  BY ProbabilitiesAdd, BeliefLimits
<1> HIDE DEF n, missing
<1>3. \A b \in Belief!Believed : p[b] \in 0 .. 1000
  BY AtMostWhole, Zenon
<1>4. ASSUME NEW b \in Belief!Believed
      PROVE  Belief!Clamped(10, p[b] + Belief!Rounded(missing, n), 990) \in 0 .. 1000
  <2>1. Belief!Rounded(missing, n) \in Int /\ p[b] \in Int
    BY <1>1, <1>2, AtMostWhole, RoundedIsInt, Zenon
  <2>2. p[b] + Belief!Rounded(missing, n) \in Int
    BY <2>1
  <2> DEFINE x == p[b] + Belief!Rounded(missing, n)
  <2> HIDE DEF x
  <2>3. Belief!Clamped(10, x, 990) \in 0 .. 1000
    BY <2>2, ClampedStays DEF x
  <2> QED BY <2>3 DEF x
<1>5. Belief!Spread(p, gone) =
        [b \in Belief!Believed |->
           IF b \in gone \/ missing \in -1 .. 1 THEN p[b]
           ELSE Belief!Clamped(10, p[b] + Belief!Rounded(missing, n), 990)]
  BY Zenon DEF Belief!Spread, n, missing
<1> DEFINE spread(b) == Belief!Clamped(10, p[b] + Belief!Rounded(missing, n), 990)
           kept(b) == IF b \in gone \/ missing \in -1 .. 1 THEN p[b] ELSE spread(b)
<1>6. \A b \in Belief!Believed : kept(b) \in 0 .. 1000
  <2>1. \A b \in Belief!Believed : spread(b) \in 0 .. 1000
    BY <1>4
  <2> HIDE DEF spread
  <2> QED BY <1>3, <2>1
<1>7. Belief!Spread(p, gone) = [b \in Belief!Believed |-> kept(b)]
  BY <1>5
<1> HIDE DEF kept
<1>8. [b \in Belief!Believed |-> kept(b)] \in PerMille
  BY <1>6 DEF PerMille
<1> QED BY <1>7, <1>8

LEMMA HighestIsOne ==
  ASSUME NEW p \in PerMille, NEW S \in SUBSET Belief!Believed, S # {}
  PROVE  Belief!Highest(p, S) \in S
<1> DEFINE Short == {1000 - p[b] : b \in S}
           top == {b \in S : \A c \in S : p[c] <= p[b]}
<1>1. \A b \in S : p[b] \in 0 .. 1000
  BY AtMostWhole
<1>2. Short \subseteq Nat /\ Short # {}
  BY <1>1
<1>3. PICK n \in Short : \A m \in Short : n <= m
  <2> HIDE DEF Short
  <2> QED BY <1>2, LeastNumber
<1>4. PICK b \in S : n = 1000 - p[b]
  OBVIOUS
<1>5. b \in top
  <2> SUFFICES ASSUME NEW c \in S PROVE p[c] <= p[b]
    OBVIOUS
  <2>1. 1000 - p[b] <= 1000 - p[c]
    BY <1>3, <1>4
  <2>2. p[b] \in Int /\ p[c] \in Int
    BY AtMostWhole
  <2> QED BY <2>1, <2>2
<1>6. top \subseteq Nat /\ top # {} /\ top \subseteq S
  <2>1. Belief!Believed \subseteq Nat
    BY BeliefLimits
  <2> QED BY <1>5, <2>1
<1>7. Belief!Highest(p, S) = Belief!Min(top)
  BY DEF Belief!Highest
<1> HIDE DEF top
<1>8. \E x \in top : \A y \in top : x <= y
  BY <1>6, LeastNumber
<1>9. Belief!Min(top) \in top
  BY <1>8 DEF Belief!Min
<1> QED BY <1>6, <1>7, <1>9

(* Whatever is normalised, the dominant belief is an active one.            *)
LEMMA NormalizedIsSound ==
  ASSUME NEW p \in PerMille, NEW gone \in SUBSET Belief!Believed,
         Belief!Normalize(p, gone), rejected' = gone
  PROVE  BeliefInv'
<1>1. CASE Belief!Active(gone) = {}
  <2>1. ASSUME NEW b \in Belief!Believed
        PROVE  Belief!Whole \div Belief!Cardinality(Belief!Believed) \in 0 .. 1000
    <3> DEFINE n == Belief!Cardinality(Belief!Believed)
               q == 1000 \div n
    <3>1. n \in Nat \ {0}
      <4>1. \A S : Belief!Cardinality(S) = Cardinality(S)
        BY DEF Belief!Cardinality, Cardinality
      <4>2. IsFiniteSet(Belief!Believed) /\ Belief!Believed # {}
        BY BeliefLimits
      <4> QED BY <4>1, <4>2, FS_EmptySet, FS_CardinalityType
    <3> HIDE DEF n
    <3>2. q \in Int /\ n * q <= 1000 /\ 1000 < n * q + n
      BY <3>1, Floor
    <3> HIDE DEF q
    <3>3. q >= 0
      <4> SUFFICES ASSUME -q - 1 \in Nat PROVE FALSE
        BY <3>2
      <4>1. n * (-q - 1) \in Nat /\ n * q + n = -(n * (-q - 1))
        BY <3>1, <3>2, SMT
      <4> DEFINE x == n * (-q - 1)  y == n * q + n
      <4>2. x \in Nat /\ y = -x /\ 1000 < y
        BY <3>2, <4>1
      <4> HIDE DEF x, y
      <4> QED BY <4>2
    <3>4. q <= 1000
      <4>1. n - 1 \in Nat /\ q \in Nat
        BY <3>1, <3>2, <3>3
      <4>2. (n - 1) * q \in Nat /\ n * q = (n - 1) * q + q
        BY <3>1, <4>1, SMT
      <4> DEFINE x == n * q  y == (n - 1) * q
      <4>3. x <= 1000 /\ y \in Nat /\ x = y + q
        BY <3>2, <4>2, Zenon
      <4> HIDE DEF x, y
      <4> QED BY <4>1, <4>3
    <3>5. q \in 0 .. 1000
      BY <3>2, <3>3, <3>4
    <3> QED BY <3>5, Zenon DEF n, q, Belief!Whole
  <2>2. probability' \in PerMille
    <3> DEFINE equal == Belief!Whole \div Belief!Cardinality(Belief!Believed)
    <3>1. \A b \in Belief!Believed : equal \in 0 .. 1000
      BY <2>1
    <3>2. probability' = [b \in Belief!Believed |-> equal]
      BY <1>1 DEF Belief!Normalize
    <3> HIDE DEF equal
    <3>3. [b \in Belief!Believed |-> equal] \in [Belief!Believed -> 0 .. 1000]
      BY <3>1
    <3> QED BY <3>2, <3>3 DEF PerMille
  <2> QED BY <1>1, <2>2
      DEF BeliefInv, Belief!DominantIsActive, Belief!Active, Belief!Believed, PerMille
<1>2. CASE Belief!Active(gone) # {}
  <2>1. probability' \in PerMille
    BY <1>2, SharedStays, SpreadStays DEF Belief!Normalize
  <2>2. dominant' \in Belief!Active(gone)
    BY <1>2, <2>1, HighestIsOne DEF Belief!Normalize, Belief!Active
  <2> QED BY <2>1, <2>2
      DEF BeliefInv, Belief!DominantIsActive, Belief!Active, Belief!Believed, PerMille
<1> QED BY <1>1, <1>2

(* Evidence of any weight leaves a likelihood a probability, ...            *)
LEMMA TemperedStays ==
  ASSUME NEW likelihood \in 0 .. 1000, NEW weight \in 0 .. 1000
  PROVE  Belief!Tempered(likelihood, weight) \in 0 .. 1000
<1> DEFINE up == likelihood * weight
           down == (1000 - likelihood) * weight
           a == 2 * ((likelihood - 500) * weight) + 1000
           q == a \div 2000
<1>1. up \in Nat /\ down \in Nat /\ up + down = 1000 * weight
  <2>1. 1000 - likelihood \in Nat
    OBVIOUS
  <2> QED BY <2>1, SMT
<1>2. a = 2 * up - 1000 * weight + 1000
  BY SMT
<1>3. a = up - down + 1000 /\ weight \in 0 .. 1000
  <2> HIDE DEF a, up, down
  <2> QED BY <1>1, <1>2
<1> HIDE DEF a, up, down
<1>4. a \in Int /\ -999000 <= a /\ a <= 1001000
  <2>1. weight \in Int /\ 0 <= weight /\ weight <= 1000
    OBVIOUS
  <2> QED BY <1>1, <1>3, <2>1, SMT
<1>5. q \in Int /\ -500 <= q /\ q <= 500
  BY <1>4, SMT
<1>6. Belief!Tempered(likelihood, weight) = 500 + q
  BY DEF Belief!Tempered, Belief!Rounded, Belief!Whole, q, a
<1> HIDE DEF q
<1> QED BY <1>5, <1>6

(* ... and so does Bayes' rule.                                             *)
LEMMA PosteriorStays ==
  ASSUME NEW prior \in 0 .. 1000, NEW e \in Evidence
  PROVE  Belief!Posterior(prior, e) \in 0 .. 1000
<1> DEFINE p == Belief!Clamped(1, prior, 999)
           t == Belief!Tempered(e.yes, e.weight)
           f == Belief!Clamped(1, Belief!Tempered(e.no, e.weight), Belief!Whole)
           yes == p * t
           no == (Belief!Whole - p) * f
           x == Belief!Rounded(Belief!Whole * yes, yes + no)
<1>1. p \in 1 .. 999
  BY DEF Belief!Clamped
<1>2. Belief!Tempered(e.yes, e.weight) \in 0 .. 1000
      /\ Belief!Tempered(e.no, e.weight) \in 0 .. 1000
  <2>1. e.yes \in 0 .. 1000 /\ e.no \in 0 .. 1000 /\ e.weight \in 0 .. 1000
    BY BeliefLimits, Zenon
  <2> DEFINE some == 0 .. 1000
  <2>2. \A l, w \in some : Belief!Tempered(l, w) \in some
    BY TemperedStays
  <2>3. e.yes \in some /\ e.no \in some /\ e.weight \in some
    BY <2>1
  <2> HIDE DEF some
  <2>4. Belief!Tempered(e.yes, e.weight) \in some /\ Belief!Tempered(e.no, e.weight) \in some
    BY <2>2, <2>3
  <2> QED BY <2>4 DEF some
<1>3. t \in Nat /\ f \in Nat \ {0}
  <2> DEFINE n == Belief!Tempered(e.no, e.weight)
  <2>1. t \in 0 .. 1000 /\ n \in 0 .. 1000 /\ f = Belief!Clamped(1, n, 1000)
    BY <1>2 DEF Belief!Whole
  <2> HIDE DEF t, n, f
  <2> QED BY <2>1 DEF Belief!Clamped
<1> HIDE DEF p, t, f
<1>4. yes \in Nat /\ no \in Nat \ {0} /\ Belief!Whole * yes \in Int
  <2>1. Belief!Whole - p \in Nat \ {0} /\ p \in Nat /\ Belief!Whole \in Nat
    BY <1>1, BeliefLimits
  <2>2. yes \in Nat /\ Belief!Whole * yes \in Int
    BY <1>3, <2>1, SMT
  <2> DEFINE u == Belief!Whole - p
             less == (u - 1) * (f - 1)
  <2>3. u \in Nat \ {0} /\ u - 1 \in Nat /\ f - 1 \in Nat
    BY <1>3, <2>1
  <2> HIDE DEF u
  <2>4. less \in Nat /\ u * f = less + (u - 1) + (f - 1) + 1
    BY <1>3, <2>3, SMT
  <2> HIDE DEF less
  <2>5. u * f \in Nat \ {0}
    BY <2>3, <2>4, SMT
  <2> QED BY <2>2, <2>5 DEF u
<1> HIDE DEF yes, no
<1>5. x \in Int
  <2>1. yes + no \in Nat \ {0}
    BY <1>4
  <2> QED BY <1>4, <2>1, RoundedIsInt
<1>6. Belief!Posterior(prior, e) = Belief!Clamped(10, x, 990)
  BY DEF Belief!Posterior, x, yes, no, p, t, f
<1> HIDE DEF x
<1> QED BY <1>5, <1>6, ClampedStays

LEMMA BeliefsStart == Init => BeliefInv
<1> SUFFICES ASSUME Init PROVE BeliefInv
  OBVIOUS
<1>1. /\ rejected = {} /\ probability = Belief!Spread(Belief!Shared(Prior, {}), {})
      /\ dominant = Belief!Highest(probability, Belief!Believed)
  BY DEF Init, Belief!Init
<1>2. Prior \in PerMille
  <2>1. Prior \in [Belief!Believed -> 1 .. 1000]
    <3>1. Prior \in Seq(1 .. 1000) /\ Belief!Believed = 1 .. Len(Prior)
      BY BeliefLimits
    <3> DEFINE some == 1 .. 1000
    <3>2. Prior \in Seq(some)
      BY <3>1
    <3> HIDE DEF some
    <3>3. Prior \in [1 .. Len(Prior) -> some]
      BY <3>2, LenProperties
    <3> QED BY <3>1, <3>3 DEF some
  <2> QED BY <2>1 DEF PerMille
<1>3. CASE Belief!Believed = {}
  <2>1. probability \in PerMille
    BY <1>1, <1>2, <1>3, SharedStays DEF Belief!Spread, PerMille
  <2> QED BY <1>1, <1>3, <2>1 DEF BeliefInv, Belief!DominantIsActive, Belief!Active
<1>4. CASE Belief!Believed # {}
  <2>1. Belief!Active({}) = Belief!Believed
    BY DEF Belief!Active
  <2>2. probability \in PerMille
    BY <1>1, <1>2, <1>4, <2>1, SharedStays, SpreadStays
  <2>3. dominant \in Belief!Believed
    BY <1>1, <1>4, <2>2, HighestIsOne
  <2> QED BY <1>1, <2>1, <2>2, <2>3 DEF BeliefInv, Belief!DominantIsActive
<1> QED BY <1>3, <1>4

LEMMA BeliefsKept == BeliefInv /\ [Next]_vars => BeliefInv'
<1> SUFFICES ASSUME BeliefInv, [Next]_vars PROVE BeliefInv'
  OBVIOUS
<1>1. probability \in PerMille /\ rejected \in SUBSET Belief!Believed
  BY DEF BeliefInv
<1>2. ASSUME NEW e \in Evidence, Belief!Update(e) PROVE BeliefInv'
  <2> DEFINE moved == [b \in Belief!Believed |->
               IF b = e.target THEN Belief!Posterior(probability[b], e) ELSE probability[b]]
  <2>1. moved \in PerMille
    <3>1. ASSUME NEW b \in Belief!Believed
          PROVE  /\ Belief!Posterior(probability[b], e) \in 0 .. 1000
                 /\ probability[b] \in 0 .. 1000
      <4>1. probability[b] \in 0 .. 1000
        BY <1>1, AtMostWhole, Zenon
      <4> QED BY <4>1, PosteriorStays
    <3> QED BY <3>1 DEF PerMille
  <2>2. Belief!UpdateMultiple(probability, e) = Belief!Shared(moved, rejected)
    BY DEF Belief!UpdateMultiple
  <2> HIDE DEF moved
  <2>3. Belief!UpdateMultiple(probability, e) \in PerMille
    BY <1>1, <2>1, <2>2, SharedStays
  <2> QED BY <1>1, <1>2, <2>3, NormalizedIsSound DEF Belief!Update
<1>3. ASSUME NEW t \in Thresholds, Belief!RejectBelow(t) PROVE BeliefInv'
  <2> DEFINE gone == rejected \cup {b \in Belief!Believed : probability[b] < t}
  <2>1. gone \in SUBSET Belief!Believed
    BY <1>1
  <2>2. rejected' = gone /\ Belief!Normalize(probability, rejected')
    BY <1>3 DEF Belief!RejectBelow
  <2> HIDE DEF gone
  <2>3. Belief!Normalize(probability, gone)
    BY <2>2
  <2> QED BY <1>1, <2>1, <2>2, <2>3, NormalizedIsSound
<1>4. CASE UNCHANGED beliefVars
  BY <1>4 DEF beliefVars, BeliefInv, Belief!DominantIsActive, Belief!Active, Belief!Believed,
              PerMille
<1> QED BY <1>2, <1>3, <1>4, OneTopicSteps DEF Belief!Next

-----------------------------------------------------------------------------
(* What a further loss does to the confidence                              *)

LEMMA MemoryCounts == \A S : Memory!Cardinality(S) = Cardinality(S)
  BY DEF Memory!Cardinality, Cardinality

LEMMA MemorySums ==
  ASSUME NEW D, IsFiniteSet(D), NEW w \in [D -> Int]
  PROVE  \E g : Sums(D, w, g) /\ Memory!Sum(w) = g[D]
<1> DEFINE Adds(g) == g = [U \in SUBSET D |->
             IF U = {} THEN 0
             ELSE w[CHOOSE x \in U : TRUE] + g[U \ {CHOOSE x \in U : TRUE}]]
           f == CHOOSE g : Adds(g)
<1>1. ASSUME NEW g PROVE Adds(g) <=> FoldsAny(D, w, g)
  BY DEF FoldsAny, AnyOf
<1>2. \E g : Adds(g)
  <2> HIDE DEF Adds
  <2> QED BY <1>1, FoldsAnyExists
<1>3. FoldsAny(D, w, f)
  <2>1. Adds(f)
    BY <1>2
  <2> HIDE DEF Adds
  <2> QED BY <1>1, <2>1
<1>4. DOMAIN w = D
  OBVIOUS
<1>5. Memory!Sum(w) = f[D]
  BY <1>4 DEF Memory!Sum, Memory!FoldFunction, Memory!FoldFunctionOnSet, Memory!MapThenFoldSet
<1> HIDE DEF f
<1> QED BY <1>3, <1>5, FoldsAnySums

LEMMA MemorySumInt ==
  ASSUME NEW D, IsFiniteSet(D), NEW w \in [D -> Int]
  PROVE  Memory!Sum(w) \in Int
<1>1. PICK g : Sums(D, w, g) /\ Memory!Sum(w) = g[D]
  BY MemorySums
<1> QED BY <1>1 DEF Sums

(* One more weight.                                                         *)
LEMMA MemorySumMore ==
  ASSUME NEW D, IsFiniteSet(D), NEW w \in [D -> Int], NEW x, x \notin D,
         NEW v \in [D \cup {x} -> Int], \A d \in D : v[d] = w[d]
  PROVE  Memory!Sum(v) = Memory!Sum(w) + v[x]
<1> DEFINE E == D \cup {x}
<1>1. IsFiniteSet(E)
  BY FS_AddElement
<1>2. PICK g : Sums(D, w, g) /\ Memory!Sum(w) = g[D]
  BY MemorySums
<1>3. PICK h : Sums(E, v, h) /\ Memory!Sum(v) = h[E]
  <2> HIDE DEF E
  <2>1. v \in [E -> Int]
    BY DEF E
  <2> QED BY <1>1, <2>1, MemorySums
<1>4. h[E] = h[E \ {x}] + v[x]
  BY <1>3 DEF Sums
<1>5. E \ {x} = D
  OBVIOUS
<1>6. g[D] = h[D]
  <2>1. D \subseteq E
    OBVIOUS
  <2> HIDE DEF E
  <2> QED BY <1>2, <1>3, <2>1, SumUnique
<1> HIDE DEF E
<1> QED BY <1>2, <1>3, <1>4, <1>5, <1>6

(* What the memory is given, out of what all the engines are.              *)
LEMMA MemoryLimits ==
  /\ MinMemory \in Nat /\ Limit \in Nat /\ Base \in Int
  /\ \A c \in Cases : c.rr # Null => c.rr \in Int
  /\ \A c \in Cases \cup {Signature} :
       /\ Memory!IsFiniteSet(DOMAIN c.cats) /\ Memory!IsFiniteSet(DOMAIN c.feats)
       /\ \A k \in DOMAIN c.feats : c.feats[k] \in Int
<1>1. Memory!Limits
  BY MCResearchAssumption
<1>2. MinMemory \in Nat /\ Limit \in Nat /\ Base \in 0 .. 100
  BY <1>1 DEF Memory!Limits
<1>3. \A c \in Cases : c.rr # Null => c.rr \in Int
  BY <1>1 DEF Memory!Limits
<1>4. \A c \in Cases \cup {Signature} :
        /\ Memory!IsFiniteSet(DOMAIN c.cats) /\ Memory!IsFiniteSet(DOMAIN c.feats)
        /\ \A k \in DOMAIN c.feats : c.feats[k] \in Int
  BY <1>1 DEF Memory!Limits
<1> QED BY <1>2, <1>3, <1>4

(* A similarity is a number.                                                *)
LEMMA ParsedCases ==
  ASSUME NEW a \in Cases \cup {Signature}
  PROVE  /\ IsFiniteSet(DOMAIN a.cats) /\ IsFiniteSet(DOMAIN a.feats)
         /\ \A k \in DOMAIN a.feats : a.feats[k] \in Int
<1>1. Memory!IsFiniteSet(DOMAIN a.cats) /\ Memory!IsFiniteSet(DOMAIN a.feats)
      /\ \A k \in DOMAIN a.feats : a.feats[k] \in Int
  BY MemoryLimits
<1> QED BY <1>1 DEF Memory!IsFiniteSet, IsFiniteSet

LEMMA Divided ==
  ASSUME NEW x \in Int, NEW n \in Nat, n # 0
  PROVE  x \div n \in Int
  OBVIOUS

LEMMA CategoricalInt ==
  ASSUME NEW a \in Cases \cup {Signature}, NEW b
  PROVE  Memory!Categorical(a, b) \in Int
<1> DEFINE K == Memory!Known(a, b)
           same == {f \in K : a.cats[f] = b.cats[f]}
<1>1. IsFiniteSet(K)
  <2>1. K \in SUBSET DOMAIN a.cats
    BY DEF Memory!Known
  <2>2. IsFiniteSet(DOMAIN a.cats)
    BY ParsedCases
  <2> HIDE DEF K
  <2> QED BY <2>1, <2>2, FS_Subset
<1>2. Memory!Categorical(a, b)
        = IF K = {} THEN 0 ELSE (1000 * Cardinality(same)) \div Cardinality(K)
  BY MemoryCounts DEF Memory!Categorical
<1>3. same \in SUBSET K
  OBVIOUS
<1> HIDE DEF K, same
<1>4. IsFiniteSet(same)
  BY <1>1, <1>3, FS_Subset
<1>5. Cardinality(same) \in Nat /\ Cardinality(K) \in Nat
  BY <1>1, <1>4, FS_CardinalityType
<1>6. K # {} => Cardinality(K) # 0
  BY <1>1, FS_EmptySet
<1>7. 1000 * Cardinality(same) \in Int
  BY <1>5
<1>8. K # {} => (1000 * Cardinality(same)) \div Cardinality(K) \in Int
  BY <1>5, <1>6, <1>7, Divided
<1> QED BY <1>2, <1>8

LEMMA ClosenessInt ==
  ASSUME NEW a, NEW b, NEW k, a.feats[k] \in Int, b.feats[k] \in Int
  PROVE  Memory!Closeness(a, b, k) \in Int
<1> DEFINE x == a.feats[k]
           y == b.feats[k]
           gap == Memory!Gap(x, y)
           least == Memory!Min({100, gap})
<1>1. gap \in Int
  BY DEF Memory!Gap
<1>2. least \in {100, gap}
  <2> HIDE DEF gap
  <2>1. \E m \in {100, gap} : \A n \in {100, gap} : m <= n
    <3>1. CASE gap <= 100
      BY <1>1, <3>1
    <3>2. CASE ~(gap <= 100)
      BY <1>1, <3>2
    <3> QED BY <3>1, <3>2
  <2> QED BY <2>1 DEF Memory!Min
<1>3. Memory!Closeness(a, b, k) = 10 * (100 - least)
  BY DEF Memory!Closeness
<1> HIDE DEF gap, least
<1> QED BY <1>1, <1>2, <1>3

LEMMA NumericInt ==
  ASSUME NEW a \in Cases \cup {Signature}, NEW b \in Cases \cup {Signature}
  PROVE  Memory!Numeric(a, b) \in Int
<1> DEFINE keys == DOMAIN a.feats \cap DOMAIN b.feats
           w == [k \in keys |-> Memory!Closeness(a, b, k)]
<1>1. Memory!Numeric(a, b)
        = IF DOMAIN a.feats = {} /\ DOMAIN b.feats = {} THEN 1000
          ELSE IF keys = {} THEN 500 ELSE Memory!Sum(w) \div Cardinality(keys)
  BY MemoryCounts DEF Memory!Numeric
<1>2. w \in [keys -> Int]
  <2>1. \A k \in keys : a.feats[k] \in Int /\ b.feats[k] \in Int
    BY ParsedCases
  <2> QED BY <2>1, ClosenessInt
<1>3. IsFiniteSet(keys)
  <2>1. keys \in SUBSET DOMAIN a.feats
    OBVIOUS
  <2>2. IsFiniteSet(DOMAIN a.feats)
    BY ParsedCases
  <2> HIDE DEF keys
  <2> QED BY <2>1, <2>2, FS_Subset
<1> HIDE DEF keys, w
<1>4. Memory!Sum(w) \in Int
  BY <1>2, <1>3, MemorySumInt
<1>5. Cardinality(keys) \in Nat /\ (keys # {} => Cardinality(keys) # 0)
  BY <1>3, FS_CardinalityType, FS_EmptySet
<1>6. keys # {} => Memory!Sum(w) \div Cardinality(keys) \in Int
  BY <1>4, <1>5, Divided
<1> QED BY <1>1, <1>6

LEMMA SimilarityInt ==
  ASSUME NEW a \in Cases \cup {Signature}, NEW b \in Cases \cup {Signature}
  PROVE  Memory!Similarity(a, b) \in Int
<1>1. 6 * Memory!Categorical(a, b) + 4 * Memory!Numeric(a, b) \in Int
  BY CategoricalInt, NumericInt
<1>2. (6 * Memory!Categorical(a, b) + 4 * Memory!Numeric(a, b)) \div 10 \in Int
  <2> DEFINE x == 6 * Memory!Categorical(a, b) + 4 * Memory!Numeric(a, b)
  <2> HIDE DEF x
  <2>1. x \in Int
    BY <1>1 DEF x
  <2>2. x \div 10 \in Int
    BY <2>1
  <2> QED BY <2>2 DEF x
<1> QED BY <1>2 DEF Memory!Similarity

-----------------------------------------------------------------------------
(* Which cases are looked at.  Of some that each have others before them,   *)
(* those with fewer than a limit before them are all, or no fewer than the  *)
(* limit.                                                                   *)
LEMMA FirstAreAllOrMany ==
  ASSUME NEW N, IsFiniteSet(N), NEW before \in [N -> SUBSET N], NEW limit \in Nat,
         \A i \in N : \A j \in before[i] : before[j] \subseteq before[i] /\ j \notin before[j]
  PROVE  LET first == {i \in N : Cardinality(before[i]) < limit}
         IN first = N \/ Cardinality(first) >= limit
<1> DEFINE first == {i \in N : Cardinality(before[i]) < limit}
           T == {Cardinality(before[i]) : i \in N \ first}
<1>1. \A i \in N : IsFiniteSet(before[i]) /\ Cardinality(before[i]) \in Nat
  <2>1. \A i \in N : before[i] \in SUBSET N
    OBVIOUS
  <2>2. \A i \in N : IsFiniteSet(before[i])
    BY <2>1, FS_Subset
  <2> QED BY <2>2, FS_CardinalityType
<1> SUFFICES ASSUME first # N PROVE Cardinality(first) >= limit
  OBVIOUS
<1>2. T \subseteq Nat /\ T # {}
  BY <1>1
<1>3. PICK t \in T : \A u \in T : t <= u
  <2> HIDE DEF T
  <2> QED BY <1>2, LeastNumber
<1>4. PICK i \in N \ first : t = Cardinality(before[i])
  BY <1>3
<1>5. ASSUME NEW j \in before[i] PROVE j \in first
  <2>1. j \in N /\ before[j] \in SUBSET before[i] /\ before[j] # before[i]
    BY <1>4, <1>5
  <2>2. Cardinality(before[j]) <= Cardinality(before[i])
        /\ Cardinality(before[j]) # Cardinality(before[i])
    BY <1>1, <1>4, <2>1, FS_Subset
  <2>3. Cardinality(before[j]) \in Nat /\ Cardinality(before[i]) \in Nat
    BY <1>1, <1>4, <2>1
  <2>4. j \notin first => t <= Cardinality(before[j])
    BY <1>3, <2>1
  <2> QED BY <1>4, <2>2, <2>3, <2>4
<1>6. first \in SUBSET N
  OBVIOUS
<1>7. Cardinality(before[i]) \in Nat /\ Cardinality(before[i]) >= limit
  BY <1>1, <1>4
<1> HIDE DEF first
<1>8. IsFiniteSet(first)
  BY <1>6, FS_Subset
<1>9. Cardinality(before[i]) <= Cardinality(first)
  <2>1. before[i] \in SUBSET first
    BY <1>5
  <2> QED BY <1>8, <2>1, FS_Subset
<1>10. Cardinality(first) \in Nat
  BY <1>8, FS_CardinalityType
<1> QED BY <1>7, <1>9, <1>10

(* The same of a library, whichever it is.                                  *)
Likeness(lib, i) == Memory!Similarity(Signature, lib[i])
NearIn(lib) == {i \in DOMAIN lib : Likeness(lib, i) >= 700}
CloserIn(lib, i, j) ==
  Likeness(lib, i) > Likeness(lib, j) \/ (Likeness(lib, i) = Likeness(lib, j) /\ i < j)
Ahead(lib, i) == {j \in NearIn(lib) : CloserIn(lib, j, i)}
BestIn(lib) == {i \in NearIn(lib) : Cardinality(Ahead(lib, i)) < Limit}
SimilarIn(lib) == {lib[i] : i \in BestIn(lib)}
Distinct(lib) == lib \in Seq(Cases) /\ \A i, j \in DOMAIN lib : lib[i].id = lib[j].id => i = j

LEMMA SimilarIs == Memory!Similar = SimilarIn(library)
  BY MemoryCounts DEF Memory!Similar, Memory!Best, Memory!Near, Memory!Closer,
     SimilarIn, BestIn, Ahead, NearIn, CloserIn, Likeness
LEMMA SimilarIsNext == (Memory!Similar)' = SimilarIn(library')
  BY MemoryCounts DEF Memory!Similar, Memory!Best, Memory!Near, Memory!Closer,
     SimilarIn, BestIn, Ahead, NearIn, CloserIn, Likeness

LEMMA NearFinite ==
  ASSUME NEW lib \in Seq(Cases)
  PROVE  /\ IsFiniteSet(NearIn(lib)) /\ NearIn(lib) \subseteq Nat
         /\ NearIn(lib) \subseteq DOMAIN lib
         /\ \A i \in NearIn(lib) : Likeness(lib, i) \in Int
<1>1. Len(lib) \in Nat /\ DOMAIN lib = 1..Len(lib)
  OBVIOUS
<1>2. IsFiniteSet(DOMAIN lib)
  BY <1>1, FS_Interval
<1>3. NearIn(lib) \in SUBSET DOMAIN lib
  BY DEF NearIn
<1>4. IsFiniteSet(NearIn(lib))
  BY <1>2, <1>3, FS_Subset
<1>5. \A i \in NearIn(lib) : lib[i] \in Cases
  BY <1>3
<1>6. \A i \in NearIn(lib) : Likeness(lib, i) \in Int
  BY <1>5, SimilarityInt DEF Likeness
<1> QED BY <1>1, <1>3, <1>4, <1>6

LEMMA AheadOrdered ==
  ASSUME NEW lib \in Seq(Cases), NEW i \in NearIn(lib)
  PROVE  /\ i \notin Ahead(lib, i)
         /\ \A j \in Ahead(lib, i) : Ahead(lib, j) \subseteq Ahead(lib, i)
<1>1. Likeness(lib, i) \in Int /\ i \in Nat
  BY NearFinite
<1>2. i \notin Ahead(lib, i)
  BY <1>1 DEF Ahead, CloserIn
<1>3. ASSUME NEW j \in Ahead(lib, i), NEW k \in Ahead(lib, j) PROVE k \in Ahead(lib, i)
  <2> DEFINE a == Likeness(lib, i)
             b == Likeness(lib, j)
             c == Likeness(lib, k)
  <2>1. j \in NearIn(lib) /\ k \in NearIn(lib)
    BY DEF Ahead
  <2>2. a \in Int /\ b \in Int /\ c \in Int /\ i \in Nat /\ j \in Nat /\ k \in Nat
    BY <2>1, NearFinite
  <2>3. (b > a \/ (b = a /\ j < i)) /\ (c > b \/ (c = b /\ k < j))
    BY DEF Ahead, CloserIn
  <2> HIDE DEF a, b, c
  <2>4. c > a \/ (c = a /\ k < i)
    BY <2>2, <2>3
  <2> QED BY <2>1, <2>4 DEF Ahead, CloserIn, a, c
<1> QED BY <1>2, <1>3

LEMMA SimilarFinite ==
  ASSUME NEW lib, Distinct(lib)
  PROVE  /\ IsFiniteSet(SimilarIn(lib)) /\ SimilarIn(lib) \subseteq Cases
         /\ Cardinality(SimilarIn(lib)) = Cardinality(BestIn(lib))
<1> DEFINE B == BestIn(lib)
           S == SimilarIn(lib)
           f == [i \in B |-> lib[i]]
<1>1. lib \in Seq(Cases)
  BY DEF Distinct
<1>2. B \in SUBSET NearIn(lib)
  BY DEF BestIn
<1>3. IsFiniteSet(B)
  BY <1>1, <1>2, NearFinite, FS_Subset
<1>4. \A i \in B : i \in DOMAIN lib /\ lib[i] \in Cases
  BY <1>1, <1>2, NearFinite
<1>5. S \subseteq Cases
  BY <1>4 DEF SimilarIn
<1>6. S = {lib[i] : i \in B}
  BY DEF SimilarIn
<1>7. \A i, j \in B : f[i] = f[j] => i = j
  BY <1>4 DEF Distinct
<1> HIDE DEF B, S
<1>8. f \in Bijection(B, S)
  BY <1>6, <1>7 DEF Bijection, Injection, IsInjective, Surjection
<1>9. ExistsBijection(B, S)
  BY <1>8 DEF ExistsBijection
<1>10. IsFiniteSet(S) /\ Cardinality(S) = Cardinality(B)
  BY <1>3, <1>9, FS_Bijection
<1> QED BY <1>5, <1>10 DEF B, S

LEMMA FewAreAll ==
  ASSUME NEW lib, Distinct(lib), Cardinality(SimilarIn(lib)) < Limit, Limit \in Nat
  PROVE  BestIn(lib) = NearIn(lib)
<1> DEFINE N == NearIn(lib)
           before == [i \in N |-> Ahead(lib, i)]
           first == {i \in N : Cardinality(before[i]) < Limit}
<1>1. lib \in Seq(Cases)
  BY DEF Distinct
<1>2. IsFiniteSet(N)
  BY <1>1, NearFinite
<1>3. before \in [N -> SUBSET N]
  BY DEF Ahead
<1>4. \A i \in N : \A j \in before[i] : before[j] \subseteq before[i] /\ j \notin before[j]
  <2>1. \A i \in N : \A j \in Ahead(lib, i) : j \in N
    BY DEF Ahead
  <2> QED BY <1>1, <2>1, AheadOrdered
<1>5. first = BestIn(lib)
  BY DEF BestIn
<1> HIDE DEF N, before
<1>6. first = N \/ Cardinality(first) >= Limit
  BY <1>2, <1>3, <1>4, FirstAreAllOrMany
<1>7. Cardinality(first) < Limit
  BY <1>5, SimilarFinite
<1>8. Cardinality(first) \in Nat
  <2>1. first \in SUBSET N
    OBVIOUS
  <2> HIDE DEF first
  <2>2. IsFiniteSet(first)
    BY <1>2, <2>1, FS_Subset
  <2> QED BY <2>2, FS_CardinalityType
<1> QED BY <1>5, <1>6, <1>7, <1>8 DEF N

LEMMA WithinLimit ==
  ASSUME NEW lib \in Seq(Cases), Cardinality(NearIn(lib)) <= Limit, Limit \in Nat
  PROVE  BestIn(lib) = NearIn(lib)
<1> SUFFICES ASSUME NEW i \in NearIn(lib) PROVE Cardinality(Ahead(lib, i)) < Limit
  BY DEF BestIn
<1>1. IsFiniteSet(NearIn(lib))
  BY NearFinite
<1>2. Ahead(lib, i) \in SUBSET NearIn(lib) /\ Ahead(lib, i) # NearIn(lib)
  BY AheadOrdered DEF Ahead
<1>3. /\ IsFiniteSet(Ahead(lib, i)) /\ Cardinality(Ahead(lib, i)) <= Cardinality(NearIn(lib))
      /\ Cardinality(Ahead(lib, i)) # Cardinality(NearIn(lib))
  BY <1>1, <1>2, FS_Subset
<1>4. Cardinality(Ahead(lib, i)) \in Nat /\ Cardinality(NearIn(lib)) \in Nat
  BY <1>1, <1>3, FS_CardinalityType
<1> QED BY <1>3, <1>4

-----------------------------------------------------------------------------
(* What a further loss does to the adjustment.                              *)
LEMMA AppendedSimilar ==
  ASSUME NEW lib, Distinct(lib), NEW c \in Cases, NEW more, more = Append(lib, c), Distinct(more),
         Cardinality(SimilarIn(lib)) < Limit, Limit \in Nat
  PROVE  \/ SimilarIn(more) = SimilarIn(lib)
         \/ SimilarIn(more) = SimilarIn(lib) \cup {c} /\ c \notin SimilarIn(lib)
<1> DEFINE n == Len(lib) + 1
<1>1. lib \in Seq(Cases) /\ more \in Seq(Cases)
  BY DEF Distinct
<1>2. /\ Len(lib) \in Nat /\ DOMAIN lib = 1..Len(lib) /\ DOMAIN more = 1..n
      /\ more[n] = c /\ \A i \in DOMAIN lib : more[i] = lib[i]
  BY <1>1
<1>3. n \notin DOMAIN lib /\ DOMAIN more = DOMAIN lib \cup {n}
  BY <1>2
<1>4. BestIn(lib) = NearIn(lib)
  BY FewAreAll
<1>5. NearIn(lib) \subseteq DOMAIN lib
  BY DEF NearIn
<1>6. \A i \in DOMAIN lib : Likeness(more, i) = Likeness(lib, i)
  BY <1>2 DEF Likeness
<1>7. NearIn(more) = NearIn(lib) \/ NearIn(more) = NearIn(lib) \cup {n}
  <2> HIDE DEF n
  <2>1. \A i \in DOMAIN lib : i \in NearIn(more) <=> i \in NearIn(lib)
    BY <1>3, <1>6 DEF NearIn
  <2>2. NearIn(more) \subseteq DOMAIN lib \cup {n}
    BY <1>3 DEF NearIn
  <2> QED BY <1>5, <2>1, <2>2
<1>8. BestIn(more) = NearIn(more)
  <2>1. IsFiniteSet(NearIn(lib))
    BY <1>1, NearFinite
  <2>2. Cardinality(NearIn(lib)) < Limit
    BY <1>4, SimilarFinite
  <2>3. Cardinality(NearIn(lib)) \in Nat
    BY <2>1, FS_CardinalityType
  <2>4. Cardinality(NearIn(lib) \cup {n}) <= Cardinality(NearIn(lib)) + 1
    <3> HIDE DEF n
    <3>1. Cardinality(NearIn(lib) \cup {n})
            = IF n \in NearIn(lib) THEN Cardinality(NearIn(lib)) ELSE Cardinality(NearIn(lib)) + 1
      BY <2>1, FS_AddElement
    <3> QED BY <2>3, <3>1
  <2>5. IsFiniteSet(NearIn(more))
    BY <1>1, NearFinite
  <2>6. Cardinality(NearIn(more)) \in Nat
    BY <2>5, FS_CardinalityType
  <2>7. Cardinality(NearIn(more)) <= Limit
    <3>1. CASE NearIn(more) = NearIn(lib)
      BY <2>2, <2>3, <3>1
    <3>2. CASE NearIn(more) = NearIn(lib) \cup {n}
      <4>1. Cardinality(NearIn(more)) <= Cardinality(NearIn(lib)) + 1
        BY <2>4, <3>2
      <4> QED BY <2>2, <2>3, <2>6, <4>1
    <3> QED BY <1>7, <3>1, <3>2
  <2> QED BY <1>1, <2>7, WithinLimit
<1>9. SimilarIn(lib) = {lib[i] : i \in NearIn(lib)} /\ SimilarIn(more) = {more[i] : i \in NearIn(more)}
  BY <1>4, <1>8 DEF SimilarIn
<1> HIDE DEF n
<1>10. {more[i] : i \in NearIn(lib)} = SimilarIn(lib)
  BY <1>2, <1>5, <1>9
<1>11. CASE NearIn(more) = NearIn(lib)
  BY <1>9, <1>10, <1>11
<1>12. CASE NearIn(more) = NearIn(lib) \cup {n}
  <2>1. SimilarIn(more) = {more[i] : i \in NearIn(lib)} \cup {more[n]}
    BY <1>9, <1>12
  <2>2. SimilarIn(more) = SimilarIn(lib) \cup {c}
    BY <1>2, <1>10, <2>1
  <2>3. ASSUME NEW i \in NearIn(lib), lib[i] = c PROVE FALSE
    <3>1. i \in DOMAIN lib
      BY <1>5
    <3>2. more[i] = more[n] /\ i \in DOMAIN more /\ n \in DOMAIN more /\ i # n
      BY <1>2, <1>3, <2>3, <3>1
    <3> QED BY <3>2 DEF Distinct
  <2>4. c \notin SimilarIn(lib)
    BY <1>9, <2>3
  <2> QED BY <2>2, <2>4
<1> QED BY <1>7, <1>11, <1>12

(* Wins and cases, with a known R or not, in numbers: one more case, which   *)
(* is no win and whose R is no gain.                                        *)
PraiseOf(total, m) == IF total > 2 * m THEN 15 ELSE IF total > m THEN 10 ELSE 5
AdjustmentOf(n, w, m, total) ==
  IF n = 0 THEN -5
  ELSE IF 10 * w > 6 * n /\ m # 0 THEN PraiseOf(total, m)
  ELSE IF 10 * w > 4 * n THEN 0 ELSE -15

LEMMA OneMoreLoss ==
  ASSUME NEW n \in Nat, NEW w \in 0..n, NEW m \in Nat, NEW total \in Int,
         NEW q \in {0, 1}, NEW r \in Int, r <= 0, q = 0 => r = 0, m = 0 => q = 0
  PROVE  AdjustmentOf(n + 1, w, m + q, total + r) <= AdjustmentOf(n, w, m, total)
<1>1. PraiseOf(total + r, m + q) <= PraiseOf(total, m)
  BY DEF PraiseOf
<1>2. PraiseOf(total + r, m + q) \in {5, 10, 15} /\ PraiseOf(total, m) \in {5, 10, 15}
  BY DEF PraiseOf
<1> HIDE DEF PraiseOf
<1>3. m + q = 0 <=> m = 0
  OBVIOUS
<1>4. CASE n = 0
  <2>1. w = 0
    BY <1>4
  <2> QED BY <1>4, <2>1 DEF AdjustmentOf
<1>5. CASE n # 0
  <2>1. 10 * w > 6 * (n + 1) => 10 * w > 6 * n
    OBVIOUS
  <2>2. 10 * w > 4 * (n + 1) => 10 * w > 4 * n
    OBVIOUS
  <2>3. 10 * w > 6 * n => 10 * w > 4 * n
    OBVIOUS
  <2> QED BY <1>1, <1>2, <1>3, <1>5, <2>1, <2>2, <2>3 DEF AdjustmentOf
<1> QED BY <1>4, <1>5

(* The adjustment is made of these numbers.                                 *)
LEMMA AdjustmentIs ==
  ASSUME NEW S, S \subseteq Cases, IsFiniteSet(S), ~(Cardinality(S) < MinMemory)
  PROVE  LET known == Memory!Resolved(S)
             wins == Memory!Of(known, {"WIN"})
             rated == Memory!WithRR(known)
         IN /\ IsFiniteSet(known) /\ IsFiniteSet(wins) /\ IsFiniteSet(rated)
            /\ Cardinality(known) \in Nat /\ Cardinality(wins) \in 0..Cardinality(known)
            /\ Cardinality(rated) \in Nat /\ (rated = {} <=> Cardinality(rated) = 0)
            /\ [c \in rated |-> c.rr] \in [rated -> Int]
            /\ Memory!Total(known) = Memory!Sum([c \in rated |-> c.rr])
            /\ Memory!Total(known) \in Int
            /\ Memory!Adjustment(S) =
                 AdjustmentOf(Cardinality(known), Cardinality(wins), Cardinality(rated),
                              Memory!Total(known))
<1> DEFINE known == Memory!Resolved(S)
           wins == Memory!Of(known, {"WIN"})
           rated == Memory!WithRR(known)
           rr == [c \in rated |-> c.rr]
<1>1. known \in SUBSET S /\ wins \in SUBSET known /\ rated \in SUBSET known
  BY DEF Memory!Resolved, Memory!Of, Memory!WithRR
<1>2. \A c \in rated : c.rr \in Int
  <2>1. \A c \in rated : c \in Cases /\ c.rr # Null
    BY <1>1 DEF Memory!WithRR
  <2>2. \A c \in Cases : c.rr # Null => c.rr \in Int
    BY MemoryLimits
  <2> QED BY <2>1, <2>2
<1>3. rr \in [rated -> Int]
  BY <1>2
<1>4. Memory!Total(known) = Memory!Sum(rr)
  BY DEF Memory!Total
<1>5. /\ Memory!Cardinality(S) = Cardinality(S) /\ Memory!Cardinality(known) = Cardinality(known)
      /\ Memory!Cardinality(wins) = Cardinality(wins)
      /\ Memory!Cardinality(rated) = Cardinality(rated)
  BY MemoryCounts
<1>6. Memory!Adjustment(S) =
        IF known = {} THEN -5
        ELSE IF 10 * Cardinality(wins) > 6 * Cardinality(known) /\ rated # {}
             THEN PraiseOf(Memory!Total(known), Cardinality(rated))
        ELSE IF 10 * Cardinality(wins) > 4 * Cardinality(known) THEN 0 ELSE -15
  <2>1. Memory!Praise(known) = PraiseOf(Memory!Total(known), Cardinality(rated))
    BY <1>5 DEF Memory!Praise, PraiseOf
  <2> QED BY <1>5, <2>1 DEF Memory!Adjustment
<1> HIDE DEF known, wins, rated, rr
<1>7. IsFiniteSet(known)
  BY <1>1, FS_Subset
<1>8. IsFiniteSet(wins) /\ Cardinality(wins) <= Cardinality(known)
  BY <1>1, <1>7, FS_Subset
<1>9. IsFiniteSet(rated)
  BY <1>1, <1>7, FS_Subset
<1>10. Cardinality(known) \in Nat /\ Cardinality(wins) \in Nat /\ Cardinality(rated) \in Nat
  BY <1>7, <1>8, <1>9, FS_CardinalityType
<1>11. (known = {} <=> Cardinality(known) = 0) /\ (rated = {} <=> Cardinality(rated) = 0)
  BY <1>7, <1>9, FS_EmptySet
<1>12. Memory!Total(known) \in Int
  BY <1>3, <1>4, <1>9, MemorySumInt
<1>13. Memory!Adjustment(S) =
         AdjustmentOf(Cardinality(known), Cardinality(wins), Cardinality(rated), Memory!Total(known))
  BY <1>6, <1>11 DEF AdjustmentOf
<1>14. Cardinality(wins) \in 0..Cardinality(known)
  BY <1>8, <1>10
<1> QED BY <1>3, <1>4, <1>7, <1>8, <1>9, <1>10, <1>11, <1>12, <1>13, <1>14
        DEF known, wins, rated, rr

LEMMA LossLowers ==
  ASSUME NEW S, S \subseteq Cases, IsFiniteSet(S), ~(Cardinality(S) < MinMemory), MinMemory \in Nat,
         NEW c \in Cases, c \notin S, c.outcome = "LOSS",
         c.rr = Null \/ (c.rr <= 0 /\ Memory!WithRR(Memory!Resolved(S)) # {})
  PROVE  Memory!Adjustment(S \cup {c}) <= Memory!Adjustment(S)
<1> DEFINE more == S \cup {c}
           known == Memory!Resolved(S)
           wins == Memory!Of(known, {"WIN"})
           rated == Memory!WithRR(known)
           rr == [d \in rated |-> d.rr]
           known2 == Memory!Resolved(more)
           wins2 == Memory!Of(known2, {"WIN"})
           rated2 == Memory!WithRR(known2)
           rr2 == [d \in rated2 |-> d.rr]
<1>1. known2 = known \cup {c} /\ c \notin known
  BY DEF Memory!Resolved, Memory!Of
<1>2. wins2 = wins
  BY <1>1 DEF Memory!Of
<1>3. rated2 = IF c.rr = Null THEN rated ELSE rated \cup {c}
  BY <1>1 DEF Memory!WithRR
<1>4. c \notin rated
  BY <1>1 DEF Memory!WithRR
<1>5. more \subseteq Cases /\ IsFiniteSet(more) /\ ~(Cardinality(more) < MinMemory)
  <2>1. IsFiniteSet(more) /\ Cardinality(more) = Cardinality(S) + 1
    BY FS_AddElement
  <2>2. Cardinality(S) \in Nat
    BY FS_CardinalityType
  <2> QED BY <2>1, <2>2
<1> DEFINE n == Cardinality(known)
           w == Cardinality(wins)
           m == Cardinality(rated)
           total == Memory!Total(known)
           m2 == Cardinality(rated2)
           total2 == Memory!Total(known2)
<1>6. /\ IsFiniteSet(known) /\ IsFiniteSet(rated)
      /\ n \in Nat /\ w \in 0..n /\ m \in Nat /\ (rated = {} <=> m = 0) /\ total \in Int
      /\ rr \in [rated -> Int] /\ total = Memory!Sum(rr)
      /\ Memory!Adjustment(S) = AdjustmentOf(n, w, m, total)
  BY AdjustmentIs
<1> HIDE DEF more
<1>7. /\ rr2 \in [rated2 -> Int] /\ total2 = Memory!Sum(rr2)
      /\ Memory!Adjustment(more) = AdjustmentOf(Cardinality(known2), Cardinality(wins2), m2, total2)
  BY <1>5, AdjustmentIs
<1>8. Cardinality(known2) = n + 1
  <2> HIDE DEF known, known2
  <2> QED BY <1>1, <1>6, FS_AddElement
<1>9. PICK q \in {0, 1}, r \in Int :
        r <= 0 /\ (q = 0 => r = 0) /\ (m = 0 => q = 0) /\ m2 = m + q /\ total2 = total + r
  <2>1. CASE c.rr = Null
    <3>1. rated2 = rated
      BY <1>3, <2>1
    <3>2. m2 = m + 0 /\ total2 = total + 0
      BY <1>6, <1>7, <3>1
    <3> QED BY <3>2
  <2>2. CASE c.rr # Null
    <3>1. rated2 = rated \cup {c} /\ c.rr <= 0 /\ rated # {}
      BY <1>3, <2>2
    <3>2. c.rr \in Int
      BY <2>2, MemoryLimits
    <3>3. rr2[c] = c.rr /\ \A d \in rated : rr2[d] = rr[d]
      BY <3>1
    <3> HIDE DEF rr, rr2, rated, rated2
    <3>4. m2 = m + 1
      BY <1>4, <1>6, <3>1, FS_AddElement
    <3>5. rr2 \in [rated \cup {c} -> Int]
      BY <1>7, <3>1
    <3>6. IsFiniteSet(rated) /\ rr \in [rated -> Int]
      BY <1>6
    <3>7. Memory!Sum(rr2) = Memory!Sum(rr) + rr2[c]
      <4>1. c \notin rated /\ \A d \in rated : rr2[d] = rr[d]
        BY <1>4, <3>3
      <4>2. ASSUME NEW v \in [rated \cup {c} -> Int], \A d \in rated : v[d] = rr[d]
            PROVE  Memory!Sum(v) = Memory!Sum(rr) + v[c]
        BY <3>6, <4>1, <4>2, MemorySumMore
      <4> QED BY <3>5, <4>1, <4>2
    <3>8. total2 = total + c.rr
      BY <1>6, <1>7, <3>3, <3>7
    <3>9. m # 0
      BY <1>6, <3>1
    <3> HIDE DEF m, m2, total, total2
    <3> QED BY <3>1, <3>2, <3>4, <3>8, <3>9
  <2> QED BY <2>1, <2>2
<1>10. Memory!Adjustment(more) = AdjustmentOf(n + 1, w, m + q, total + r)
  BY <1>2, <1>7, <1>8, <1>9
<1> HIDE DEF n, w, m, total, m2, total2
<1>11. AdjustmentOf(n + 1, w, m + q, total + r) <= AdjustmentOf(n, w, m, total)
  BY <1>6, <1>9, OneMoreLoss
<1> QED BY <1>6, <1>10, <1>11 DEF more

LEMMA CalibratedGrows ==
  ASSUME NEW x \in Int, NEW y \in Int, x <= y
  PROVE  Memory!Max({0, Memory!Min({100, Base + x})}) <= Memory!Max({0, Memory!Min({100, Base + y})})
<1>1. Base \in Int
  BY MemoryLimits
<1>2. ASSUME NEW a \in Int
      PROVE  Memory!Min({100, a}) = IF a < 100 THEN a ELSE 100
  <2> DEFINE S == {100, a}
             least == IF a < 100 THEN a ELSE 100
  <2>1. least \in S /\ \A m \in S : least <= m
    BY <1>2
  <2>2. Memory!Min(S) \in S /\ \A m \in S : Memory!Min(S) <= m
    <3> HIDE DEF S, least
    <3> QED BY <2>1 DEF Memory!Min
  <2> QED BY <1>2, <2>1, <2>2
<1>3. ASSUME NEW a \in Int
      PROVE  Memory!Max({0, a}) = IF a > 0 THEN a ELSE 0
  <2> DEFINE S == {0, a}
             most == IF a > 0 THEN a ELSE 0
  <2>1. most \in S /\ \A m \in S : most >= m
    BY <1>3
  <2>2. Memory!Max(S) \in S /\ \A m \in S : Memory!Max(S) >= m
    <3> HIDE DEF S, most
    <3> QED BY <2>1 DEF Memory!Max
  <2> QED BY <1>3, <2>1, <2>2
<1> DEFINE a == Base + x
           b == Base + y
           a2 == IF a < 100 THEN a ELSE 100
           b2 == IF b < 100 THEN b ELSE 100
<1>4. a \in Int /\ b \in Int /\ a <= b
  BY <1>1
<1> HIDE DEF a, b
<1>5. Memory!Min({100, a}) = a2 /\ Memory!Min({100, b}) = b2 /\ a2 \in Int /\ b2 \in Int /\ a2 <= b2
  BY <1>2, <1>4
<1> HIDE DEF a2, b2
<1>6. Memory!Max({0, a2}) <= Memory!Max({0, b2})
  BY <1>3, <1>5
<1> QED BY <1>5, <1>6 DEF a, b

LEMMA AdjustmentInt ==
  ASSUME NEW S, S \subseteq Cases, IsFiniteSet(S), ~(Cardinality(S) < MinMemory)
  PROVE  Memory!Adjustment(S) \in Int
<1>1. \E n, w, m, total : Memory!Adjustment(S) = AdjustmentOf(n, w, m, total)
  BY AdjustmentIs
<1>2. ASSUME NEW n, NEW w, NEW m, NEW total
      PROVE  AdjustmentOf(n, w, m, total) \in Int
  BY DEF AdjustmentOf, PraiseOf
<1> QED BY <1>1, <1>2

(* What a step that remembers a further loss does, as LossNeverHelps asks.   *)
FurtherLoss ==
  /\ running /\ running' /\ Len(library') = Len(library) + 1
  /\ Memory!Last(library').outcome = "LOSS"
  /\ Memory!Last(library').rr = Null
       \/ (Memory!Last(library').rr <= 0 /\ Memory!WithRR(Memory!Resolved(Memory!Similar)) # {})
  /\ Memory!Cardinality(Memory!Similar) \in MinMemory .. Limit - 1

(* Such a step adds a case at the end.                                      *)
LEMMA FurtherIsAppended ==
  ASSUME MemoryInv, [Next]_vars, running, running', Len(library') = Len(library) + 1
  PROVE  /\ Distinct(library) /\ Distinct(library')
         /\ \E c \in Cases : library' = Append(library, c) /\ Memory!Last(library') = c
<1>1. Distinct(library) /\ library \in Seq(Cases) /\ Len(library) \in Nat
  BY DEF MemoryInv, Holds, Distinct
<1>2. MemoryInv'
  BY MemoryKept
<1>3. Distinct(library')
  BY <1>2 DEF MemoryInv, Holds, Distinct
<1>4. CASE UNCHANGED memoryVars
  BY <1>1, <1>4 DEF memoryVars
<1>5. CASE Memory!Open
  BY <1>5 DEF Memory!Open
<1>6. ASSUME NEW c \in Cases, Memory!AddCase(c)
      PROVE  library' = Append(library, c) /\ Memory!Last(library') = c
  <2>1. library' = Memory!Added(library, c)
    BY <1>6 DEF Memory!AddCase, Memory!Saved
  <2>2. CASE Memory!Where(library, c) = {}
    <3>1. library' = Append(library, c)
      BY <2>1, <2>2 DEF Memory!Added
    <3>2. Append(library, c)[Len(Append(library, c))] = c
      BY <1>1
    <3> QED BY <3>1, <3>2 DEF Memory!Last
  <2>3. CASE Memory!Where(library, c) # {}
    <3> DEFINE n == CHOOSE i \in Memory!Where(library, c) : TRUE
    <3>1. library' = [library EXCEPT ![n] = c]
      BY <2>1, <2>3 DEF Memory!Added
    <3> HIDE DEF n
    <3>2. Len(library') = Len(library)
      BY <1>1, <3>1
    <3> QED BY <1>1, <3>2
  <2> QED BY <2>2, <2>3
<1>7. CASE Memory!Clear
  <2>1. library' = <<>>
    BY <1>7 DEF Memory!Clear, Memory!Saved
  <2> QED BY <1>1, <2>1
<1>8. CASE Memory!Die
  BY <1>8 DEF Memory!Die
<1>9. CASE Memory!Build
  BY <1>1, <1>9 DEF Memory!Build
<1> QED BY <1>1, <1>3, <1>4, <1>5, <1>6, <1>7, <1>8, <1>9, OneTopicSteps DEF Memory!Next

LEMMA FurtherLossLowers ==
  ASSUME MemoryInv, [Next]_vars, FurtherLoss
  PROVE  Memory!Calibrated((Memory!Similar)') <= Memory!Calibrated(Memory!Similar)
<1> DEFINE S == SimilarIn(library)
           T == SimilarIn(library')
<1>1. Distinct(library) /\ Distinct(library')
  BY FurtherIsAppended DEF FurtherLoss
<1>2. PICK c \in Cases : library' = Append(library, c) /\ Memory!Last(library') = c
  BY FurtherIsAppended DEF FurtherLoss
<1>3. Memory!Similar = S /\ (Memory!Similar)' = T
  BY SimilarIs, SimilarIsNext
<1>4. S \subseteq Cases /\ IsFiniteSet(S) /\ Cardinality(S) \in Nat
  BY <1>1, SimilarFinite, FS_CardinalityType
<1>5. MinMemory \in Nat /\ Limit \in Nat
  BY MemoryLimits
<1>6. /\ c.outcome = "LOSS"
      /\ c.rr = Null \/ (c.rr <= 0 /\ Memory!WithRR(Memory!Resolved(S)) # {})
      /\ Cardinality(S) \in MinMemory .. Limit - 1
  BY <1>2, <1>3, MemoryCounts DEF FurtherLoss
<1> HIDE DEF S, T
<1>7. ~(Cardinality(S) < MinMemory) /\ Cardinality(S) < Limit
  BY <1>4, <1>5, <1>6
<1>8. T = S \/ (T = S \cup {c} /\ c \notin S)
  BY <1>1, <1>2, <1>5, <1>7, AppendedSimilar DEF S, T
<1>9. Memory!Adjustment(S) \in Int
  BY <1>4, <1>7, AdjustmentInt
<1>10. CASE T = S
  <2>1. Memory!Calibrated(S) <= Memory!Calibrated(S)
    BY <1>9, CalibratedGrows DEF Memory!Calibrated
  <2> QED BY <1>3, <1>10, <2>1
<1>11. CASE T = S \cup {c} /\ c \notin S
  <2>1. T \subseteq Cases /\ IsFiniteSet(T) /\ ~(Cardinality(T) < MinMemory)
    <3>1. IsFiniteSet(T) /\ Cardinality(T) = Cardinality(S) + 1
      BY <1>4, <1>11, FS_AddElement
    <3> QED BY <1>4, <1>5, <1>7, <1>11, <3>1
  <2>2. Memory!Adjustment(T) \in Int
    BY <2>1, AdjustmentInt
  <2>3. Memory!Adjustment(T) <= Memory!Adjustment(S)
    BY <1>4, <1>5, <1>6, <1>7, <1>11, LossLowers
  <2>4. Memory!Calibrated(T) <= Memory!Calibrated(S)
    BY <1>9, <2>2, <2>3, CalibratedGrows DEF Memory!Calibrated
  <2> QED BY <1>3, <2>4
<1> QED BY <1>8, <1>10, <1>11

(* Once there is memory enough, a further loss that displaces no case never *)
(* raises the confidence, whatever the cases and the signature.             *)
THEOREM LossesNeverHelp == Spec => Memory!LossNeverHelps
<1>1. MemoryInv /\ [Next]_vars
        => [FurtherLoss => Memory!Calibrated((Memory!Similar)') <= Memory!Calibrated(Memory!Similar)]_Memory!vars
  BY FurtherLossLowers
<1> QED BY <1>1, MemoryStarts, MemoryKept, PTL DEF Spec, Memory!LossNeverHelps, FurtherLoss

(* Whatever the beliefs and the evidence, one that was rejected never       *)
(* dominates while another is active; and the library of cases loses none,  *)
(* however the process that keeps it dies, nor does a loss raise confidence.*)
THEOREM MemoriesHold == Spec => MemoryHolds
<1>1. BeliefInv => Belief!DominantIsActive
  BY DEF BeliefInv
<1>2. Spec => []BeliefInv
  BY BeliefsStart, BeliefsKept, PTL DEF Spec
<1> QED BY <1>1, <1>2, NothingIsLost, LossesNeverHelp, PTL DEF MemoryHolds

-----------------------------------------------------------------------------
(* The research brain                                                       *)

(* What is asked of a hypothesis does not depend on its status.             *)
LEMMA StatusAside ==
  ASSUME NEW h \in Ideas!Hypothesis, NEW s \in Ideas!Statuses
  PROVE  LET k == [h EXCEPT !.status = s]
         IN /\ k \in Ideas!Hypothesis /\ k.status = s /\ k.dir = h.dir
            /\ k.needs = h.needs /\ k.refuting = h.refuting /\ k.failures = h.failures
            /\ k.rr = h.rr /\ k.supported = h.supported /\ k.contradicted = h.contradicted
            /\ k.regime = h.regime /\ k.liquidity = h.liquidity /\ k.orderflow = h.orderflow
            /\ Ideas!IsFalsified(k) = Ideas!IsFalsified(h)
<1> DEFINE k == [h EXCEPT !.status = s]
<1>1. k \in Ideas!Hypothesis
  BY Zenon DEF Ideas!Hypothesis
<1>2. /\ k.status = s /\ k.dir = h.dir
      /\ k.needs = h.needs /\ k.refuting = h.refuting /\ k.failures = h.failures
      /\ k.rr = h.rr /\ k.supported = h.supported /\ k.contradicted = h.contradicted
      /\ k.regime = h.regime /\ k.liquidity = h.liquidity /\ k.orderflow = h.orderflow
  BY DEF Ideas!Hypothesis
<1> HIDE DEF k
<1>3. Ideas!IsFalsified(k) = Ideas!IsFalsified(h)
  BY <1>2 DEF Ideas!IsFalsified, Ideas!Unsupported
<1> QED BY <1>1, <1>2, <1>3 DEF k

LEMMA HypothesisFields ==
  ASSUME NEW h \in Ideas!Hypothesis
  PROVE  /\ h.needs \in Nat /\ h.refuting \in Nat /\ h.failures \in 1 .. 3 /\ h.rr \in Nat
         /\ h.regime \in BOOLEAN /\ h.liquidity \in BOOLEAN /\ h.orderflow \in BOOLEAN
         /\ h.foretold \in BOOLEAN /\ h.supported \in BOOLEAN /\ h.contradicted \in BOOLEAN
  BY Zenon DEF Ideas!Hypothesis

LEMMA StrengthIs ==
  ASSUME NEW h \in Ideas!Hypothesis
  PROVE  /\ Ideas!Strength(h) \in Int /\ Ideas!Strength(h) <= 100
         /\ h.needs > 0 /\ h.refuting > 0 => Ideas!Strength(h) >= 40
  BY HypothesisFields DEF Ideas!Strength, Ideas!AtMost100, Ideas!Least, Ideas!If

(* Three dependencies make at least four categories.                        *)
LEMMA ThreeCategories ==
  ASSUME NEW h \in Ideas!Hypothesis, h.regime, h.liquidity, h.orderflow
  PROVE  Ideas!Cardinality({f \in {"regime", "liquidity", "orderflow"} : h[f]}) = 3
<1>1. {f \in {"regime", "liquidity", "orderflow"} : h[f]} = {"regime", "liquidity", "orderflow"}
  OBVIOUS
<1>2. Cardinality({"regime", "liquidity", "orderflow"}) = 3
  <2>1. IsFiniteSet({}) /\ Cardinality({}) = 0
    BY FS_EmptySet
  <2>2. IsFiniteSet({"regime"}) /\ Cardinality({"regime"}) = 1
    BY FS_Singleton
  <2>3. IsFiniteSet({"regime", "liquidity"}) /\ Cardinality({"regime", "liquidity"}) = 2
    <3>1. {"regime", "liquidity"} = {"regime"} \cup {"liquidity"} /\ "liquidity" \notin {"regime"}
      OBVIOUS
    <3> QED BY <2>2, <3>1, FS_AddElement
  <2>4. {"regime", "liquidity", "orderflow"} = {"regime", "liquidity"} \cup {"orderflow"}
        /\ "orderflow" \notin {"regime", "liquidity"}
    OBVIOUS
  <2> QED BY <2>3, <2>4, FS_AddElement
<1>3. \A S : Ideas!Cardinality(S) = Cardinality(S)
  BY DEF Ideas!Cardinality, Cardinality
<1> QED BY <1>1, <1>2, <1>3

WouldTrade(h) == h.dir # "NO_TRADE" /\ h.regime /\ h.liquidity /\ h.orderflow

(* The four scores of what would trade, falsified or not.                   *)
LEMMA ExplanatoryRange ==
  ASSUME NEW h \in Ideas!Hypothesis, WouldTrade(h)
  PROVE  /\ Ideas!Explanatory(h) \in 90 .. 100
         /\ h.needs > 0 => Ideas!Explanatory(h) >= 95
  BY HypothesisFields, ThreeCategories DEF WouldTrade, Ideas!Explanatory, Ideas!AtMost100,
        Ideas!Least, Ideas!If
LEMMA PredictiveRange ==
  ASSUME NEW h \in Ideas!Hypothesis, WouldTrade(h)
  PROVE  /\ Ideas!Predictive(h) \in 0 .. 100
         /\ h.needs > 0 /\ h.refuting > 0 => Ideas!Predictive(h) >= 75
         /\ h.needs > 0 /\ h.refuting > 0 /\ h.rr > 0 => Ideas!Predictive(h) >= 80
  BY HypothesisFields DEF WouldTrade, Ideas!Predictive, Ideas!AtMost100, Ideas!Least, Ideas!If
LEMMA ChecksRange ==
  ASSUME NEW h \in Ideas!Hypothesis, WouldTrade(h)
  PROVE  /\ Ideas!ChecksPassed(h) \in 0 .. 6
         /\ h.needs > 0 /\ h.refuting > 0 => Ideas!ChecksPassed(h) >= 4
         /\ h.needs > 0 /\ h.refuting > 0 /\ h.supported => Ideas!ChecksPassed(h) >= 5
  BY HypothesisFields DEF WouldTrade, Ideas!ChecksPassed, Ideas!If
LEMMA OverfitRange ==
  ASSUME NEW h \in Ideas!Hypothesis, WouldTrade(h)
  PROVE  /\ Ideas!Overfit(h) \in 0 .. 100
         /\ ~Ideas!IsFalsified(h) => Ideas!Overfit(h) <= 20
         /\ ~Ideas!IsFalsified(h) /\ h.rr <= 20 => Ideas!Overfit(h) = 0
  BY HypothesisFields DEF WouldTrade, Ideas!Overfit, Ideas!AtMost100, Ideas!Least, Ideas!If,
        Ideas!IsFalsified, Ideas!Unsupported

LEMMA CompositeInt ==
  ASSUME NEW h \in Ideas!Hypothesis, WouldTrade(h)
  PROVE  Ideas!Composite(h) \in Int
<1> DEFINE e == Ideas!Explanatory(h) p == Ideas!Predictive(h) c == Ideas!ChecksPassed(h)
           o == Ideas!Overfit(h)
<1>1. e \in Int /\ p \in Int /\ c \in Int /\ o \in Int
  <2>1. e \in 90 .. 100 /\ p \in 0 .. 100 /\ c \in 0 .. 6 /\ o \in 0 .. 100
    BY Zenon, ExplanatoryRange, PredictiveRange, ChecksRange, OverfitRange
  <2> QED BY <2>1
<1> HIDE DEF e, p, c, o
<1>2. 15 * e + 15 * p + 200 * c + 9 * (100 - o) + Ideas!If(~Ideas!IsFalsified(h), 900) \in Int
  BY <1>1 DEF Ideas!If
<1> QED BY Zenon, <1>2 DEF Ideas!Composite, e, p, c, o

LEMMA FalsifiedRanksBelow ==
  ASSUME NEW g \in Ideas!Hypothesis, WouldTrade(g), Ideas!IsFalsified(g),
         NEW h \in Ideas!Hypothesis, WouldTrade(h), ~Ideas!IsFalsified(h)
  PROVE  Ideas!Composite(g) < Ideas!Composite(h)
<1>1. h.needs > 0 /\ h.refuting > 0 /\ h.rr \in Nat
  BY HypothesisFields DEF Ideas!IsFalsified
<1>2. h.rr > 10 => h.supported
  BY DEF Ideas!IsFalsified, Ideas!Unsupported
<1>3. /\ Ideas!Explanatory(g) \in 90 .. 100 /\ Ideas!Predictive(g) \in 0 .. 100
      /\ Ideas!ChecksPassed(g) \in 0 .. 6
      /\ Ideas!Overfit(g) \in 0 .. 100
  BY Zenon, ExplanatoryRange, PredictiveRange, ChecksRange, OverfitRange
<1>4. /\ Ideas!Explanatory(h) \in 90 .. 100 /\ Ideas!Predictive(h) \in 0 .. 100
      /\ Ideas!ChecksPassed(h) \in 0 .. 6
      /\ Ideas!Overfit(h) \in 0 .. 100 /\ Ideas!Explanatory(h) >= 95 /\ Ideas!Predictive(h) >= 75
      /\ Ideas!ChecksPassed(h) >= 4 /\ Ideas!Overfit(h) <= 20
  BY Zenon, <1>1, ExplanatoryRange, PredictiveRange, ChecksRange, OverfitRange
<1>5. h.rr <= 20 => Ideas!Overfit(h) = 0
  BY Zenon, OverfitRange
<1>6. h.rr > 20 => Ideas!Predictive(h) >= 80 /\ Ideas!ChecksPassed(h) >= 5
  <2>1. h.rr > 20 => h.rr > 0 /\ h.supported
    BY SMT, <1>1, <1>2
  <2> QED BY Zenon, <2>1, <1>1, PredictiveRange, ChecksRange
<1>7. Ideas!Composite(g) = 15 * Ideas!Explanatory(g) + 15 * Ideas!Predictive(g)
                     + 200 * Ideas!ChecksPassed(g)
                     + 9 * (100 - Ideas!Overfit(g)) + 0
  BY Zenon DEF Ideas!Composite, Ideas!If
<1>8. Ideas!Composite(h) = 15 * Ideas!Explanatory(h) + 15 * Ideas!Predictive(h)
                     + 200 * Ideas!ChecksPassed(h)
                     + 9 * (100 - Ideas!Overfit(h)) + 900
  BY Zenon DEF Ideas!Composite, Ideas!If
<1> DEFINE e == Ideas!Explanatory(g) p == Ideas!Predictive(g) c == Ideas!ChecksPassed(g)
           o == Ideas!Overfit(g)
           ee == Ideas!Explanatory(h) pp == Ideas!Predictive(h) cc == Ideas!ChecksPassed(h)
           oo == Ideas!Overfit(h)
<1>9. /\ e <= 100 /\ p <= 100 /\ c <= 6 /\ o >= 0 /\ e \in Int /\ p \in Int /\ c \in Int
      /\ o \in Int
      /\ ee \in Int /\ pp \in Int /\ cc \in Int /\ oo \in Int
      /\ ee >= 95 /\ pp >= 75 /\ cc >= 4 /\ oo <= 20
      /\ oo = 0 \/ (pp >= 80 /\ cc >= 5)
  BY SMT, <1>1, <1>3, <1>4, <1>5, <1>6
<1>10. 15 * e + 15 * p + 200 * c + 9 * (100 - o) + 0
       < 15 * ee + 15 * pp + 200 * cc + 9 * (100 - oo) + 900
  <2> HIDE DEF e, p, c, o, ee, pp, cc, oo
  <2> QED BY SMT, <1>9
<1> QED BY Zenon, <1>7, <1>8, <1>10

(* Sequences of hypotheses whose status tells no more than what falsifies   *)
(* them, and those of which it tells as much.                               *)
Fair(hs) ==
  /\ DOMAIN hs \subseteq Nat
  /\ \A n \in DOMAIN hs :
       /\ hs[n] \in Ideas!Hypothesis /\ (hs[n].dir # "NO_TRADE" => WouldTrade(hs[n]))
       /\ hs[n].status # "REJECTED" /\ (hs[n].status = "FALSIFIED" => Ideas!IsFalsified(hs[n]))
WellJudged(hs) == Fair(hs) /\ \A n \in DOMAIN hs : Ideas!IsFalsified(hs[n]) => hs[n].status = "FALSIFIED"
Alike(hs, ks) ==
  /\ DOMAIN ks = DOMAIN hs
  /\ \A n \in DOMAIN hs : ks[n].dir = hs[n].dir /\ Ideas!IsFalsified(ks[n]) = Ideas!IsFalsified(hs[n])

LEMMA StatusKept ==
  ASSUME NEW h \in Ideas!Hypothesis, NEW s \in Ideas!Statuses, h.dir # "NO_TRADE" => WouldTrade(h),
         NEW k, k = [h EXCEPT !.status = s]
  PROVE  /\ k \in Ideas!Hypothesis /\ k.status = s /\ k.dir = h.dir
         /\ Ideas!IsFalsified(k) = Ideas!IsFalsified(h)
         /\ k.dir # "NO_TRADE" => WouldTrade(k)
  BY Zenon, StatusAside DEF WouldTrade

LEMMA FalsifyJudges ==
  ASSUME NEW hs, Fair(hs)
  PROVE  WellJudged(Ideas!Falsify(hs)) /\ Alike(hs, Ideas!Falsify(hs))
<1> DEFINE js == Ideas!Falsify(hs)
<1>1. DOMAIN js = DOMAIN hs
  BY DEF Ideas!Falsify
<1>2. ASSUME NEW n \in DOMAIN hs
      PROVE  /\ js[n] \in Ideas!Hypothesis /\ (js[n].dir # "NO_TRADE" => WouldTrade(js[n]))
             /\ js[n].status # "REJECTED" /\ (js[n].status = "FALSIFIED" <=> Ideas!IsFalsified(js[n]))
             /\ js[n].dir = hs[n].dir /\ Ideas!IsFalsified(js[n]) = Ideas!IsFalsified(hs[n])
  <2>1. hs[n] \in Ideas!Hypothesis /\ (hs[n].dir # "NO_TRADE" => WouldTrade(hs[n]))
    BY DEF Fair
  <2>2. CASE Ideas!IsFalsified(hs[n])
    <3>1. js[n] = [hs[n] EXCEPT !.status = "FALSIFIED"]
      BY <2>2 DEF Ideas!Falsify
    <3>2. "FALSIFIED" \in Ideas!Statuses
      BY DEF Ideas!Statuses
    <3> HIDE DEF js
    <3>3. /\ js[n] \in Ideas!Hypothesis /\ js[n].status = "FALSIFIED" /\ js[n].dir = hs[n].dir
          /\ Ideas!IsFalsified(js[n]) = Ideas!IsFalsified(hs[n])
          /\ (js[n].dir # "NO_TRADE" => WouldTrade(js[n]))
      BY <2>1, <3>1, <3>2, StatusKept
    <3> QED BY <2>2, <3>3
  <2>3. CASE ~Ideas!IsFalsified(hs[n])
    <3>1. js[n] = hs[n]
      BY <2>3 DEF Ideas!Falsify
    <3> QED BY Zenon, <2>3, <3>1 DEF Fair
  <2> QED BY <2>2, <2>3
<1> HIDE DEF js
<1> QED BY Zenon, <1>1, <1>2 DEF Fair, WellJudged, Alike, js

LEMMA StrongestIsOne ==
  ASSUME NEW hs, WellJudged(hs), Ideas!Directional(hs) # {}
  PROVE  Ideas!Strongest(hs) \in Ideas!Directional(hs)
<1> DEFINE D == Ideas!Directional(hs)
           lacks(n) == 100 - Ideas!Strength(hs[n])
           L == {lacks(n) : n \in D}
<1>1. \A n \in D : n \in Nat /\ hs[n] \in Ideas!Hypothesis
  BY DEF Ideas!Directional, WellJudged, Fair
<1>2. \A n \in D : lacks(n) \in Nat
  <2> SUFFICES ASSUME NEW n \in D PROVE lacks(n) \in Nat
    OBVIOUS
  <2>1. Ideas!Strength(hs[n]) \in Int /\ Ideas!Strength(hs[n]) <= 100
    BY Zenon, <1>1, StrengthIs
  <2> QED BY <2>1
<1>3. PICK x \in L : \A y \in L : x <= y
  <2>1. L \subseteq Nat /\ L # {}
    BY <1>2
  <2> QED BY Zenon, <2>1, LeastNumber
<1>4. PICK n \in D : x = lacks(n)
  BY <1>3
<1>5. ASSUME NEW m \in D PROVE Ideas!Strength(hs[m]) <= Ideas!Strength(hs[n])
  <2>1. Ideas!Strength(hs[m]) \in Int /\ Ideas!Strength(hs[n]) \in Int
    BY Zenon, <1>1, <1>4, StrengthIs
  <2>2. lacks(n) <= lacks(m)
    BY <1>3, <1>4
  <2> QED BY <2>1, <2>2
<1> DEFINE B == {k \in D : \A m \in D : Ideas!Strength(hs[m]) <= Ideas!Strength(hs[k])}
<1>6. n \in B /\ B \subseteq Nat
  BY <1>1, <1>4, <1>5
<1>7. \E k \in B : \A m \in B : k <= m
  <2> HIDE DEF B
  <2> QED BY Zenon, <1>6, LeastNumber
<1>8. Ideas!Strongest(hs) = Ideas!Min(B)
  BY Zenon DEF Ideas!Strongest
<1>9. Ideas!Min(B) \in B
  <2> HIDE DEF B
  <2> QED BY Zenon, <1>7 DEF Ideas!Min
<1> QED BY <1>8, <1>9

(* The best of those that would trade is never weak.                        *)
LEMMA EdgeOrNone ==
  ASSUME NEW hs, WellJudged(hs)
  PROVE  Ideas!NoEdge(hs) <=> Ideas!Directional(hs) = {}
<1>1. ASSUME Ideas!Directional(hs) # {} PROVE ~(Ideas!Strength(hs[Ideas!Strongest(hs)]) < 40)
  <2> DEFINE h == hs[Ideas!Strongest(hs)]
  <2>1. Ideas!Strongest(hs) \in Ideas!Directional(hs)
    BY <1>1, StrongestIsOne
  <2>2. h \in Ideas!Hypothesis /\ ~Ideas!IsFalsified(h)
    BY <2>1 DEF Ideas!Directional, WellJudged, Fair
  <2> HIDE DEF h
  <2>3. h.needs > 0 /\ h.refuting > 0
    BY <2>2, HypothesisFields DEF Ideas!IsFalsified
  <2>4. Ideas!Strength(h) \in Int /\ Ideas!Strength(h) >= 40
    BY Zenon, <2>2, <2>3, StrengthIs
  <2> QED BY <2>4 DEF h
<1> QED BY <1>1 DEF Ideas!NoEdge

LEMMA WinnerStands ==
  ASSUME NEW hs, WellJudged(hs), Ideas!Winner(hs) # 0
  PROVE  Ideas!Winner(hs) \in DOMAIN hs /\ ~Ideas!IsFalsified(hs[Ideas!Winner(hs)])
<1>1. CASE Ideas!Directional(hs) # {}
  <2>1. Ideas!Winner(hs) = Ideas!Strongest(hs)
    BY Zenon, <1>1, EdgeOrNone DEF Ideas!Winner
  <2>2. Ideas!Winner(hs) \in Ideas!Directional(hs)
    BY <1>1, <2>1, StrongestIsOne
  <2> QED BY <2>2 DEF Ideas!Directional, WellJudged, Fair
<1>2. CASE Ideas!Directional(hs) = {}
  <2>1. Ideas!NoTrade(hs) # {} /\ Ideas!Winner(hs) = Ideas!Min(Ideas!NoTrade(hs))
    BY Zenon, <1>2, EdgeOrNone DEF Ideas!Winner
  <2>2. Ideas!NoTrade(hs) \subseteq Nat
    BY DEF Ideas!NoTrade, WellJudged, Fair
  <2>3. \E k \in Ideas!NoTrade(hs) : \A m \in Ideas!NoTrade(hs) : k <= m
    BY Zenon, <2>1, <2>2, LeastNumber
  <2>4. Ideas!Winner(hs) \in Ideas!NoTrade(hs)
    BY Zenon, <2>1, <2>3 DEF Ideas!Min
  <2> QED BY <2>4 DEF Ideas!NoTrade, WellJudged, Fair
<1> QED BY <1>1, <1>2

LEMMA CompeteIsFair ==
  ASSUME NEW hs, WellJudged(hs)
  PROVE  Fair(Ideas!Compete(hs)) /\ Alike(hs, Ideas!Compete(hs))
<1>1. CASE Ideas!NoEdge(hs)
  BY <1>1 DEF Ideas!Compete, WellJudged, Alike
<1>2. CASE ~Ideas!NoEdge(hs)
  <2> DEFINE w == Ideas!Winner(hs)
             ks == Ideas!Compete(hs)
  <2>1. w \in DOMAIN hs /\ ~Ideas!IsFalsified(hs[w])
    <3>1. w = Ideas!Strongest(hs) /\ w \in Ideas!Directional(hs)
      BY Zenon, <1>2, EdgeOrNone, StrongestIsOne DEF Ideas!Winner
    <3> QED BY <3>1 DEF Ideas!Directional, WellJudged, Fair
  <2> HIDE DEF w
  <2>2. ks = [hs EXCEPT ![w].status = "COMPETING"]
    BY Zenon, <1>2 DEF Ideas!Compete, w
  <2> HIDE DEF ks
  <2>3. DOMAIN ks = DOMAIN hs /\ (\A n \in DOMAIN hs : n # w => ks[n] = hs[n])
    BY <2>2
  <2>4. ks[w] = [hs[w] EXCEPT !.status = "COMPETING"]
    BY <2>1, <2>2
  <2>5. /\ ks[w] \in Ideas!Hypothesis /\ (ks[w].dir # "NO_TRADE" => WouldTrade(ks[w]))
        /\ ks[w].status = "COMPETING" /\ ks[w].dir = hs[w].dir
        /\ Ideas!IsFalsified(ks[w]) = Ideas!IsFalsified(hs[w])
    <3>1. hs[w] \in Ideas!Hypothesis /\ (hs[w].dir # "NO_TRADE" => WouldTrade(hs[w]))
      BY <2>1 DEF WellJudged, Fair
    <3>2. "COMPETING" \in Ideas!Statuses
      BY DEF Ideas!Statuses
    <3> QED BY <2>4, <3>1, <3>2, StatusKept
  <2>6. "COMPETING" # "REJECTED" /\ "COMPETING" # "FALSIFIED"
    OBVIOUS
  <2>7. DOMAIN ks \subseteq Nat
    BY <2>3 DEF WellJudged, Fair
  <2>8. ASSUME NEW n \in DOMAIN hs
        PROVE  /\ ks[n] \in Ideas!Hypothesis /\ (ks[n].dir # "NO_TRADE" => WouldTrade(ks[n]))
               /\ ks[n].status # "REJECTED" /\ (ks[n].status = "FALSIFIED" => Ideas!IsFalsified(ks[n]))
               /\ ks[n].dir = hs[n].dir /\ Ideas!IsFalsified(ks[n]) = Ideas!IsFalsified(hs[n])
    <3>1. CASE n = w
      BY Zenon, <2>5, <2>6, <3>1
    <3>2. CASE n # w
      BY Zenon, <2>3, <3>2 DEF WellJudged, Fair
    <3> QED BY <3>1, <3>2
  <2> QED BY Zenon, <2>3, <2>7, <2>8 DEF Fair, Alike, ks
<1> QED BY <1>1, <1>2

LEMMA GeneratedAreFair ==
  ASSUME NEW hs, Ideas!AreGenerated(hs)
  PROVE  Fair(hs)
<1>1. DOMAIN hs \subseteq Nat
  BY DEF Ideas!AreGenerated
<1>2. ASSUME NEW n \in DOMAIN hs PROVE hs[n] \in Ideas!Hypothesis
  BY DEF Ideas!AreGenerated
<1> QED BY <1>1, <1>2 DEF Ideas!AreGenerated, Fair, WouldTrade

LEMMA FalsifiedLose ==
  ASSUME NEW hyps, Ideas!AreGenerated(hyps)
  PROVE  Ideas!FalsifiedNeverWin(hyps)
<1> DEFINE judged == Ideas!Falsify(hyps)
           after == Ideas!Falsify(Ideas!Compete(judged))
           trading == {n \in DOMAIN after : after[n].dir # "NO_TRADE"}
           falsified == {n \in DOMAIN after : after[n].status = "FALSIFIED"}
<1>1. WellJudged(judged)
  BY Zenon, GeneratedAreFair, FalsifyJudges
<1>2. WellJudged(after) /\ Alike(judged, after)
  BY Zenon, <1>1, CompeteIsFair, FalsifyJudges DEF Alike
<1> HIDE DEF judged, after
<1>3. DOMAIN after = DOMAIN judged /\ \A n \in DOMAIN after :
        /\ (n \in falsified) <=> Ideas!IsFalsified(judged[n])
        /\ (n \in trading) <=> judged[n].dir # "NO_TRADE"
  BY Zenon, <1>2 DEF WellJudged, Fair, Alike
<1>4. Ideas!Winner(judged) # 0 => Ideas!Winner(judged) \notin falsified
  BY Zenon, <1>1, <1>3, WinnerStands
<1>5. Ideas!NoEdge(judged) <=> trading \subseteq falsified
  <2>1. \A n \in DOMAIN judged : n \in Ideas!Directional(judged) <=> n \in trading /\ n \notin falsified
    BY <1>1, <1>3 DEF Ideas!Directional, WellJudged, Fair
  <2>2. Ideas!Directional(judged) \subseteq DOMAIN judged
    BY DEF Ideas!Directional
  <2>3. trading \subseteq DOMAIN judged
    BY Zenon, <1>3
  <2> HIDE DEF trading, falsified
  <2>4. Ideas!Directional(judged) = {} <=> trading \subseteq falsified
    BY <2>1, <2>2, <2>3
  <2> QED BY Zenon, <1>1, <2>4, EdgeOrNone
<1>6. ASSUME NEW m \in trading \cap falsified, NEW n \in trading \ falsified
      PROVE  ~Ideas!Above(after, m, n)
  <2>1. Ideas!Composite(after[m]) < Ideas!Composite(after[n])
    <3>1. /\ after[m] \in Ideas!Hypothesis /\ WouldTrade(after[m]) /\ Ideas!IsFalsified(after[m])
          /\ after[n] \in Ideas!Hypothesis /\ WouldTrade(after[n]) /\ ~Ideas!IsFalsified(after[n])
      BY Zenon, <1>2 DEF WellJudged, Fair
    <3> QED BY Zenon, <3>1, FalsifiedRanksBelow
  <2>2. Ideas!Composite(after[m]) \in Int /\ Ideas!Composite(after[n]) \in Int
    BY Zenon, <1>2, CompositeInt DEF WellJudged, Fair
  <2> QED BY <2>1, <2>2 DEF Ideas!Above
<1> QED BY Zenon, <1>4, <1>5, <1>6 DEF Ideas!FalsifiedNeverWin, judged, after

(* Of any generated hypotheses no falsified one wins or outranks one that    *)
(* may be traded.                                                           *)
THEOREM FalsifiedStayOut == Spec => []FalsifiedNeverWin
<1>1. InputInv => FalsifiedNeverWin
  BY FalsifiedLose, MCResearchAssumption DEF InputInv, FalsifiedNeverWin
<1> QED BY <1>1, InputStays, InputKept, PTL DEF Spec

-----------------------------------------------------------------------------
(* The verdict of the robustness lab                                       *)

LEMMA CountsAlike == \A S : Edge!Cardinality(S) = Cardinality(S)
  BY DEF Edge!Cardinality, Cardinality

LEMMA TotalSums ==
  ASSUME NEW D, IsFiniteSet(D), NEW w \in [D -> Int]
  PROVE  \E g : Sums(D, w, g) /\ Edge!Total(w) = g[D]
<1> DEFINE Adds(g) == g = [U \in SUBSET D |->
             IF U = {} THEN 0
             ELSE w[CHOOSE x \in U : TRUE] + g[U \ {CHOOSE x \in U : TRUE}]]
           f == CHOOSE g : Adds(g)
<1>1. ASSUME NEW g PROVE Adds(g) <=> FoldsAny(D, w, g)
  BY DEF FoldsAny, AnyOf
<1>2. \E g : Adds(g)
  <2> HIDE DEF Adds
  <2> QED BY <1>1, FoldsAnyExists
<1>3. FoldsAny(D, w, f)
  <2>1. Adds(f)
    BY <1>2
  <2> HIDE DEF Adds
  <2> QED BY <1>1, <2>1
<1>4. DOMAIN w = D
  OBVIOUS
<1>5. Edge!Total(w) = f[D]
  BY <1>4 DEF Edge!Total, Edge!FoldFunction, Edge!FoldFunctionOnSet, Edge!MapThenFoldSet
<1> HIDE DEF f
<1> QED BY <1>3, <1>5, FoldsAnySums

LEMMA TotalInt ==
  ASSUME NEW D, IsFiniteSet(D), NEW w \in [D -> Int]
  PROVE  Edge!Total(w) \in Int
<1>1. PICK g : Sums(D, w, g) /\ Edge!Total(w) = g[D]
  BY TotalSums
<1> QED BY <1>1 DEF Sums

LEMMA TotalMonotone ==
  ASSUME NEW D, IsFiniteSet(D), NEW w \in [D -> Int], NEW v \in [D -> Int],
         \A x \in D : w[x] <= v[x]
  PROVE  Edge!Total(w) <= Edge!Total(v)
<1>1. PICK g : Sums(D, w, g) /\ Edge!Total(w) = g[D]
  BY TotalSums
<1>2. PICK h : Sums(D, v, h) /\ Edge!Total(v) = h[D]
  BY TotalSums
<1> QED BY <1>1, <1>2, SumsMonotone

LEMMA TotalAlone ==
  ASSUME NEW D, IsFiniteSet(D), NEW w \in [D -> Int], NEW m \in D, \A x \in D : x # m => w[x] = 0
  PROVE  Edge!Total(w) = w[m]
<1>1. PICK g : Sums(D, w, g) /\ Edge!Total(w) = g[D]
  BY TotalSums
<1> QED BY <1>1, SumsAlone

AllTables == {"periods", "symbols", "frames", "windows"}
LEMMA TableIs ==
  ASSUME NEW x \in Edge!Report, NEW t \in AllTables
  PROVE  /\ x[t] \in Seq(Edge!Result) /\ Len(x[t]) \in Nat /\ DOMAIN x[t] = 1..Len(x[t])
         /\ IsFiniteSet(DOMAIN x[t])
         /\ \A n \in DOMAIN x[t] : /\ x[t][n] \in Edge!Result
                                   /\ x[t][n].trades \in Nat /\ x[t][n].ev \in Int
                                   /\ x[t][n].pf \in Int /\ x[t][n].dd \in Int
<1>1. x[t] \in Seq(Edge!Result)
  <2>1. x.periods \in Seq(Edge!Result) /\ x.symbols \in Seq(Edge!Result)
        /\ x.frames \in Seq(Edge!Result)
        /\ x.windows \in Seq(Edge!Result)
    BY Zenon DEF Edge!Report
  <2> QED BY <2>1 DEF AllTables
<1>2. Len(x[t]) \in Nat /\ DOMAIN x[t] = 1..Len(x[t]) /\ \A n \in 1..Len(x[t]) : x[t][n] \in Edge!Result
  BY <1>1, LenProperties, ElementOfSeq
<1>3. \A r \in Edge!Result : r.trades \in Nat /\ r.ev \in Int /\ r.pf \in Int /\ r.dd \in Int
  BY DEF Edge!Result
<1>4. IsFiniteSet(DOMAIN x[t])
  BY <1>2, FS_Interval, CountsAlike
<1> QED BY Zenon, <1>1, <1>2, <1>3, <1>4

LEMMA PlacesAre ==
  ASSUME NEW x \in Edge!Report
  PROVE  /\ Edge!All(x) = UNION {{t} \X DOMAIN x[t] : t \in AllTables}
         /\ IsFiniteSet(Edge!All(x)) /\ IsFiniteSet(Edge!Judged(x))
         /\ Edge!Judged(x) \subseteq Edge!All(x)
         /\ \A p \in Edge!All(x) : /\ p[1] \in AllTables /\ p[2] \in DOMAIN x[p[1]]
                              /\ Edge!At(x, p).trades \in Int /\ Edge!At(x, p).ev \in Int
                              /\ Edge!At(x, p).pf \in Int
<1>1. Edge!Tables \cup {"windows"} = AllTables
  BY DEF Edge!Tables, AllTables
<1>2. Edge!All(x) = UNION {{t} \X DOMAIN x[t] : t \in AllTables}
  BY <1>1 DEF Edge!All
<1>3. ASSUME NEW t \in AllTables PROVE IsFiniteSet({t} \X DOMAIN x[t])
  BY TableIs, FS_Singleton, FS_Product, CountsAlike
<1>4. IsFiniteSet(Edge!All(x))
  <2> DEFINE S(t) == {t} \X DOMAIN x[t]
  <2>1. Edge!All(x) = UNION {S(t) : t \in {"periods", "symbols", "frames", "windows"}}
    BY <1>2 DEF AllTables
  <2>2. IsFiniteSet(S("periods")) /\ IsFiniteSet(S("symbols")) /\ IsFiniteSet(S("frames"))
        /\ IsFiniteSet(S("windows"))
    <3>1. "periods" \in AllTables /\ "symbols" \in AllTables /\ "frames" \in AllTables
          /\ "windows" \in AllTables
      BY DEF AllTables
    <3>2. \A t \in AllTables : IsFiniteSet(S(t))
      BY <1>3
    <3> HIDE DEF S
    <3> QED BY Zenon, <3>1, <3>2
  <2> HIDE DEF S
  <2>3. Edge!All(x) = (S("periods") \cup S("symbols")) \cup (S("frames") \cup S("windows"))
    BY <2>1
  <2>4. IsFiniteSet(S("periods") \cup S("symbols")) /\ IsFiniteSet(S("frames") \cup S("windows"))
    BY <2>2, FS_Union, CountsAlike
  <2>5. IsFiniteSet((S("periods") \cup S("symbols")) \cup (S("frames") \cup S("windows")))
    BY <2>4, FS_Union, CountsAlike
  <2> QED BY <2>3, <2>5
<1>5. Edge!Judged(x) \subseteq Edge!All(x)
  <2>1. \A t \in Edge!Tables : t \in AllTables /\ Edge!Known(x[t]) \subseteq DOMAIN x[t]
    BY DEF Edge!Tables, AllTables, Edge!Known
  <2>2. "windows" \in AllTables /\ Edge!Tested(x["windows"]) \subseteq DOMAIN x["windows"]
    BY DEF AllTables, Edge!Tested
  <2>3. Edge!Judged(x) = (UNION {{t} \X Edge!Known(x[t]) : t \in Edge!Tables})
                         \cup ({"windows"} \X Edge!Tested(x["windows"]))
    BY Zenon DEF Edge!Judged
  <2>4. ASSUME NEW p \in Edge!Judged(x) PROVE p \in Edge!All(x)
    <3>1. CASE p \in UNION {{t} \X Edge!Known(x[t]) : t \in Edge!Tables}
      <4>1. PICK t \in Edge!Tables : p \in {t} \X Edge!Known(x[t])
        BY <3>1
      <4>2. p \in {t} \X DOMAIN x[t]
        BY <2>1, <4>1
      <4> QED BY <1>2, <2>1, <4>2
    <3>2. CASE p \in {"windows"} \X Edge!Tested(x["windows"])
      <4>1. p \in {"windows"} \X DOMAIN x["windows"]
        BY <2>2, <3>2
      <4> QED BY Zenon, <1>2, <2>2, <4>1
    <3> DEFINE U == UNION {{t} \X Edge!Known(x[t]) : t \in Edge!Tables}
               W == {"windows"} \X Edge!Tested(x["windows"])
    <3>3. p \in U \cup W
      BY Zenon, <2>3
    <3>4. p \in U => p \in Edge!All(x)
      BY Zenon, <3>1
    <3>5. p \in W => p \in Edge!All(x)
      BY Zenon, <3>2
    <3> HIDE DEF U, W
    <3> QED BY <3>3, <3>4, <3>5
  <2> QED BY <2>4
<1>6. ASSUME NEW p \in Edge!All(x)
      PROVE /\ p[1] \in AllTables /\ p[2] \in DOMAIN x[p[1]]
            /\ Edge!At(x, p).trades \in Int /\ Edge!At(x, p).ev \in Int /\ Edge!At(x, p).pf \in Int
  <2>1. p[1] \in AllTables /\ p[2] \in DOMAIN x[p[1]]
    BY <1>2
  <2>2. x[p[1]][p[2]].trades \in Nat /\ x[p[1]][p[2]].ev \in Int /\ x[p[1]][p[2]].pf \in Int
    BY Zenon, <2>1, TableIs
  <2> QED BY <2>1, <2>2 DEF Edge!At
<1> QED BY Zenon, <1>2, <1>4, <1>5, <1>6, FS_Subset, CountsAlike

(* What a verdict rests on.                                                 *)
LEMMA FiguresAre ==
  ASSUME NEW x \in Edge!Report
  PROVE  /\ Edge!Ev(x) \in [Edge!Judged(x) -> Int] /\ Edge!Total(Edge!Ev(x)) \in Int
         /\ Edge!Pf(x) \in [Edge!Judged(x) -> Int] /\ Edge!Total(Edge!Pf(x)) \in Int
         /\ Edge!Cardinality(Edge!Judged(x)) \in Nat
         /\ Edge!OutOfSample(x) \in Int
<1>1. Edge!Ev(x) \in [Edge!Judged(x) -> Int] /\ Edge!Pf(x) \in [Edge!Judged(x) -> Int]
  <2>1. \A p \in Edge!Judged(x) : Edge!At(x, p).ev \in Int /\ Edge!At(x, p).pf \in Int
    BY Zenon, PlacesAre
  <2> QED BY <2>1 DEF Edge!Ev, Edge!Pf
<1>2. Edge!Total(Edge!Ev(x)) \in Int /\ Edge!Total(Edge!Pf(x)) \in Int
  BY <1>1, PlacesAre, TotalInt
<1>3. Edge!Cardinality(Edge!Judged(x)) \in Nat
  BY PlacesAre, FS_CardinalityType, CountsAlike
<1>4. Edge!OutOfSample(x) \in Int
  <2> DEFINE w == [p \in Edge!All(x) |-> Edge!At(x, p).trades]
  <2>1. w \in [Edge!All(x) -> Int]
    BY PlacesAre
  <2> HIDE DEF w
  <2>2. Edge!Total(w) \in Int
    BY <2>1, PlacesAre, TotalInt
  <2> QED BY <2>2 DEF Edge!OutOfSample, w
<1> QED BY <1>1, <1>2, <1>3, <1>4

LEMMA SymbolsAre ==
  ASSUME NEW x \in Edge!Report
  PROVE  /\ Edge!Known(x.symbols) \subseteq DOMAIN x.symbols /\ IsFiniteSet(Edge!Known(x.symbols))
         /\ Edge!Cardinality(Edge!Known(x.symbols)) \in Nat
         /\ Edge!Profit(x) \in [Edge!Known(x.symbols) -> Int] /\ Edge!Total(Edge!Profit(x)) \in Int
<1>1. "symbols" \in AllTables /\ x["symbols"] = x.symbols
  BY DEF AllTables
<1>2. /\ IsFiniteSet(DOMAIN x.symbols)
      /\ \A n \in DOMAIN x.symbols : x.symbols[n].trades \in Nat /\ x.symbols[n].ev \in Int
  BY <1>1, TableIs
<1>3. Edge!Known(x.symbols) \subseteq DOMAIN x.symbols
  BY DEF Edge!Known
<1>4. IsFiniteSet(Edge!Known(x.symbols)) /\ Edge!Cardinality(Edge!Known(x.symbols)) \in Nat
  BY <1>2, <1>3, FS_Subset, FS_CardinalityType, CountsAlike
<1>5. Edge!Profit(x) \in [Edge!Known(x.symbols) -> Int]
  <2>1. ASSUME NEW n \in Edge!Known(x.symbols) PROVE x.symbols[n].ev * x.symbols[n].trades \in Int
    <3>1. x.symbols[n].ev \in Int /\ x.symbols[n].trades \in Int
      BY <1>2, <1>3
    <3> QED BY <3>1
  <2> QED BY Zenon, <2>1 DEF Edge!Profit
<1> QED BY <1>3, <1>4, <1>5, TotalInt

-----------------------------------------------------------------------------
(* One report is no worse than the other.                                   *)
NoWorse(x, y) ==
  /\ x \in Edge!Report /\ y \in Edge!Report
  /\ y.symbols = x.symbols /\ y.guarded = x.guarded /\ y.gated = x.gated
  /\ \A t \in AllTables :
       /\ DOMAIN y[t] = DOMAIN x[t]
       /\ \A n \in DOMAIN x[t] :
            /\ y[t][n].trades = x[t][n].trades /\ y[t][n].ev >= x[t][n].ev
            /\ y[t][n].pf >= x[t][n].pf /\ y[t][n].dd <= x[t][n].dd

LEMMA SamePlaces ==
  ASSUME NEW x, NEW y, NoWorse(x, y)
  PROVE  /\ Edge!All(y) = Edge!All(x) /\ Edge!Judged(y) = Edge!Judged(x)
         /\ \A t \in AllTables : Edge!Known(y[t]) = Edge!Known(x[t])
<1>1. Edge!All(y) = Edge!All(x)
  <2>1. \A t \in AllTables : DOMAIN y[t] = DOMAIN x[t]
    BY DEF NoWorse
  <2>2. Edge!All(x) = UNION {{t} \X DOMAIN x[t] : t \in AllTables}
        /\ Edge!All(y) = UNION {{t} \X DOMAIN y[t] : t \in AllTables}
    BY PlacesAre DEF NoWorse
  <2> QED BY <2>1, <2>2
<1>2. \A t \in AllTables : Edge!Known(y[t]) = Edge!Known(x[t]) /\ Edge!Tested(y[t]) = Edge!Tested(x[t])
  BY DEF NoWorse, Edge!Known, Edge!Tested
<1>3. Edge!Judged(y) = Edge!Judged(x)
  <2>1. Edge!Tested(y.windows) = Edge!Tested(x.windows)
    BY <1>2 DEF AllTables
  <2>2. \A t \in Edge!Tables : t \in AllTables
    BY DEF Edge!Tables, AllTables
  <2>3. (UNION {{t} \X Edge!Known(y[t]) : t \in Edge!Tables})
        = (UNION {{t} \X Edge!Known(x[t]) : t \in Edge!Tables})
    BY <1>2, <2>2
  <2> QED BY Zenon, <2>1, <2>3 DEF Edge!Judged
<1> QED BY <1>1, <1>2, <1>3

LEMMA BetterFigures ==
  ASSUME NEW x, NEW y, NoWorse(x, y)
  PROVE  /\ Edge!OutOfSample(y) = Edge!OutOfSample(x)
         /\ Edge!Total(Edge!Ev(x)) <= Edge!Total(Edge!Ev(y))
         /\ Edge!Total(Edge!Pf(x)) <= Edge!Total(Edge!Pf(y))
<1>1. \A p \in Edge!All(x) :
        /\ Edge!At(y, p).trades = Edge!At(x, p).trades /\ Edge!At(x, p).ev <= Edge!At(y, p).ev
        /\ Edge!At(x, p).pf <= Edge!At(y, p).pf
  <2> SUFFICES ASSUME NEW p \in Edge!All(x)
               PROVE  /\ Edge!At(y, p).trades = Edge!At(x, p).trades
                      /\ Edge!At(x, p).ev <= Edge!At(y, p).ev
                      /\ Edge!At(x, p).pf <= Edge!At(y, p).pf
    OBVIOUS
  <2>1. /\ p[1] \in AllTables /\ p[2] \in DOMAIN x[p[1]]
        /\ Edge!At(x, p).ev \in Int /\ Edge!At(x, p).pf \in Int /\ Edge!At(y, p).ev \in Int
        /\ Edge!At(y, p).pf \in Int
    BY Zenon, PlacesAre, SamePlaces DEF NoWorse
  <2>2. /\ Edge!At(y, p).trades = Edge!At(x, p).trades /\ Edge!At(y, p).ev >= Edge!At(x, p).ev
        /\ Edge!At(y, p).pf >= Edge!At(x, p).pf
    BY Zenon, <2>1 DEF NoWorse, Edge!At
  <2> QED BY <2>1, <2>2
<1>2. Edge!OutOfSample(y) = Edge!OutOfSample(x)
  <2>1. [p \in Edge!All(y) |-> Edge!At(y, p).trades] = [p \in Edge!All(x) |-> Edge!At(x, p).trades]
    BY <1>1, SamePlaces
  <2> QED BY Zenon, <2>1 DEF Edge!OutOfSample
<1>3. /\ Edge!Ev(x) \in [Edge!Judged(x) -> Int] /\ Edge!Ev(y) \in [Edge!Judged(x) -> Int]
      /\ Edge!Pf(x) \in [Edge!Judged(x) -> Int] /\ Edge!Pf(y) \in [Edge!Judged(x) -> Int]
      /\ IsFiniteSet(Edge!Judged(x))
  BY Zenon, FiguresAre, SamePlaces, PlacesAre DEF NoWorse
<1>4. \A p \in Edge!Judged(x) : Edge!Ev(x)[p] <= Edge!Ev(y)[p] /\ Edge!Pf(x)[p] <= Edge!Pf(y)[p]
  <2>1. \A p \in Edge!Judged(x) : p \in Edge!All(x) /\ p \in Edge!Judged(y)
    BY PlacesAre, SamePlaces DEF NoWorse
  <2> QED BY <1>1, <2>1 DEF Edge!Ev, Edge!Pf
<1> QED BY <1>2, <1>3, <1>4, TotalMonotone

LEMMA BetterTests ==
  ASSUME NEW x, NEW y, NoWorse(x, y)
  PROVE  /\ (Edge!Insufficient(y) <=> Edge!Insufficient(x)) /\ (Edge!NoEdge(y) => Edge!NoEdge(x))
         /\ Edge!Profitable(x, 120) => Edge!Profitable(y, 120)
         /\ Edge!Steady(x) => Edge!Steady(y)
         /\ Edge!Concentrated(y) <=> Edge!Concentrated(x)
         /\ (Edge!GateRecovers(y) <=> Edge!GateRecovers(x))
         /\ Edge!Deeper(y, 80) => Edge!Deeper(x, 80)
<1>0. x \in Edge!Report /\ y \in Edge!Report
  BY DEF NoWorse
<1>1. (Edge!Insufficient(y) <=> Edge!Insufficient(x))
  BY Zenon, SamePlaces, BetterFigures DEF Edge!Insufficient
<1>2. ASSUME NEW f \in Int, Edge!Profitable(x, f) PROVE Edge!Profitable(y, f)
  <2>1. /\ Edge!Total(Edge!Pf(x)) \in Int /\ Edge!Total(Edge!Pf(y)) \in Int
        /\ Edge!Total(Edge!Pf(x)) <= Edge!Total(Edge!Pf(y))
        /\ Edge!Cardinality(Edge!Judged(y)) = Edge!Cardinality(Edge!Judged(x))
        /\ Edge!Cardinality(Edge!Judged(x)) \in Int
    BY <1>0, FiguresAre, BetterFigures, SamePlaces
  <2>2. f * Edge!Cardinality(Edge!Judged(x)) \in Int
    BY <2>1
  <2>3. Edge!Total(Edge!Pf(x)) > f * Edge!Cardinality(Edge!Judged(x))
    BY <1>2 DEF Edge!Profitable
  <2>4. Edge!Total(Edge!Pf(y)) > f * Edge!Cardinality(Edge!Judged(y))
    <3> DEFINE m == f * Edge!Cardinality(Edge!Judged(x))
    <3>1. m \in Int /\ Edge!Total(Edge!Pf(x)) > m
      BY <2>2, <2>3
    <3> HIDE DEF m
    <3>2. Edge!Total(Edge!Pf(y)) > m
      BY <2>1, <3>1
    <3> QED BY <2>1, <3>2 DEF m
  <2> QED BY <2>4 DEF Edge!Profitable
<1>3. Edge!NoEdge(y) => Edge!NoEdge(x)
  <2>1. Edge!Total(Edge!Ev(x)) \in Int /\ Edge!Total(Edge!Ev(y)) \in Int
        /\ Edge!Total(Edge!Ev(x)) <= Edge!Total(Edge!Ev(y))
    BY <1>0, FiguresAre, BetterFigures
  <2>2. Edge!Profitable(x, 100) => Edge!Profitable(y, 100)
    BY <1>2
  <2> QED BY <2>1, <2>2 DEF Edge!NoEdge
<1>4. Edge!Steady(x) => Edge!Steady(y)
  <2>1. "windows" \in AllTables
    BY DEF AllTables
  <2>2. /\ IsFiniteSet(DOMAIN x.windows) /\ DOMAIN y.windows = DOMAIN x.windows
        /\ Len(x.windows) = Len(y.windows) /\ Len(x.windows) \in Nat
    <3>1. /\ IsFiniteSet(DOMAIN x["windows"]) /\ DOMAIN y["windows"] = DOMAIN x["windows"]
          /\ DOMAIN x["windows"] = 1..Len(x["windows"])
          /\ DOMAIN y["windows"] = 1..Len(y["windows"])
          /\ Len(x["windows"]) \in Nat /\ Len(y["windows"]) \in Nat
      BY <1>0, <2>1, TableIs DEF NoWorse
    <3> QED BY <3>1
  <2>3. \A n \in DOMAIN x.windows : /\ x.windows[n].ev \in Int /\ y.windows[n].ev \in Int
                                    /\ y.windows[n].ev >= x.windows[n].ev
    <3>1. \A n \in DOMAIN x["windows"] : /\ x["windows"][n].ev \in Int /\ y["windows"][n].ev \in Int
                                         /\ y["windows"][n].ev >= x["windows"][n].ev
      BY Zenon, <1>0, <2>1, TableIs DEF NoWorse
    <3> QED BY <3>1
  <2>4. Edge!Won(x) \subseteq Edge!Won(y) /\ Edge!Won(y) \subseteq DOMAIN x.windows
    BY <2>2, <2>3 DEF Edge!Won
  <2>5. /\ Edge!Cardinality(Edge!Won(x)) \in Nat /\ Edge!Cardinality(Edge!Won(y)) \in Nat
        /\ Edge!Cardinality(Edge!Won(x)) <= Edge!Cardinality(Edge!Won(y))
    BY <2>2, <2>4, FS_Subset, FS_CardinalityType, CountsAlike
  <2> QED BY <2>2, <2>5 DEF Edge!Steady, Edge!Greater
<1>5. (Edge!Concentrated(y) <=> Edge!Concentrated(x)) /\ (Edge!GateRecovers(y) <=> Edge!GateRecovers(x))
  BY Zenon DEF NoWorse, Edge!Concentrated, Edge!Profit, Edge!GateRecovers
<1>6. ASSUME NEW limit \in Int, Edge!Deeper(y, limit) PROVE Edge!Deeper(x, limit)
  <2>0. PICK t \in Edge!Tables : \E n \in Edge!Known(y[t]) : y[t][n].dd > limit
    BY <1>6 DEF Edge!Deeper
  <2>1. PICK n \in Edge!Known(y[t]) : y[t][n].dd > limit
    BY <2>0
  <2>2. t \in AllTables /\ n \in Edge!Known(x[t]) /\ n \in DOMAIN x[t]
    BY SamePlaces DEF Edge!Tables, AllTables, Edge!Known
  <2>3. x[t][n].dd \in Int /\ y[t][n].dd \in Int /\ y[t][n].dd <= x[t][n].dd
    <3>1. n \in DOMAIN y[t]
      BY Zenon, <2>2 DEF NoWorse
    <3> QED BY Zenon, <1>0, <2>2, <3>1, TableIs DEF NoWorse
  <2>4. x[t][n].dd > limit
    BY <2>1, <2>3
  <2> QED BY <2>2, <2>4 DEF Edge!Deeper
<1> QED BY <1>1, <1>2, <1>3, <1>4, <1>5, <1>6

LEMMA RankIs ==
  ASSUME NEW x
  PROVE  Edge!Rank(x) = IF Edge!Verdict(x) = "INSUFFICIENT_TRADES" THEN 1
                   ELSE IF Edge!Verdict(x) = "NO_EDGE" THEN 2
                   ELSE IF Edge!Verdict(x) = "OVERFIT_SUSPECTED" THEN 3
                   ELSE IF Edge!Verdict(x) = "UNSTABLE_EDGE" THEN 4
                   ELSE IF Edge!Verdict(x) = "PROMISING_BUT_UNPROVEN" THEN 5
                   ELSE IF Edge!Verdict(x) = "REGIME_SPECIFIC_EDGE" THEN 6 ELSE 7
<1>1. Edge!Verdict(x) \in {"INSUFFICIENT_TRADES", "NO_EDGE", "OVERFIT_SUSPECTED", "UNSTABLE_EDGE",
                      "PROMISING_BUT_UNPROVEN", "REGIME_SPECIFIC_EDGE", "ROBUST_EDGE"}
  BY DEF Edge!Verdict
<1>2. /\ DOMAIN Edge!Ranking = 1 .. 7
      /\ Edge!Ranking[1] = "INSUFFICIENT_TRADES" /\ Edge!Ranking[2] = "NO_EDGE"
      /\ Edge!Ranking[3] = "OVERFIT_SUSPECTED" /\ Edge!Ranking[4] = "UNSTABLE_EDGE"
      /\ Edge!Ranking[5] = "PROMISING_BUT_UNPROVEN" /\ Edge!Ranking[6] = "REGIME_SPECIFIC_EDGE"
      /\ Edge!Ranking[7] = "ROBUST_EDGE"
  BY DEF Edge!Ranking
<1> DEFINE v == Edge!Verdict(x)
<1> HIDE DEF v
<1>3. v \in {"INSUFFICIENT_TRADES", "NO_EDGE", "OVERFIT_SUSPECTED", "UNSTABLE_EDGE",
             "PROMISING_BUT_UNPROVEN", "REGIME_SPECIFIC_EDGE", "ROBUST_EDGE"}
  BY <1>1 DEF v
<1>4. Edge!Rank(x) = CHOOSE n \in 1 .. 7 : Edge!Ranking[n] = v
  BY <1>2 DEF Edge!Rank, v
<1>5. \E n \in 1 .. 7 : Edge!Ranking[n] = v
  BY <1>2, <1>3
<1>6. Edge!Rank(x) \in 1 .. 7 /\ Edge!Ranking[Edge!Rank(x)] = v
  <2> DEFINE r == CHOOSE n \in 1 .. 7 : Edge!Ranking[n] = v
  <2>1. r \in 1 .. 7 /\ Edge!Ranking[r] = v
    BY <1>5
  <2> QED BY Zenon, <1>4, <2>1
<1> DEFINE r == Edge!Rank(x)
<1>7. r \in 1 .. 7 /\ Edge!Ranking[r] = v
  BY <1>6
<1> HIDE DEF r
<1>8. r = IF v = "INSUFFICIENT_TRADES" THEN 1 ELSE IF v = "NO_EDGE" THEN 2
          ELSE IF v = "OVERFIT_SUSPECTED" THEN 3 ELSE IF v = "UNSTABLE_EDGE" THEN 4
          ELSE IF v = "PROMISING_BUT_UNPROVEN" THEN 5 ELSE IF v
          = "REGIME_SPECIFIC_EDGE" THEN 6 ELSE 7
  BY <1>2, <1>7
<1> QED BY Zenon, <1>8 DEF v, r

LEMMA NeverWorse ==
  ASSUME NEW x, NEW y, NoWorse(x, y), Edge!Cardinality(Edge!Known(x.symbols)) >= 2
  PROVE  Edge!Rank(y) >= Edge!Rank(x)
<1>1. /\ Edge!OutOfSample(y) = Edge!OutOfSample(x) /\ Edge!OutOfSample(x) \in Int
      /\ Edge!Cardinality(Edge!Known(y.symbols)) >= 2
  BY BetterFigures, FiguresAre DEF NoWorse
<1>2. Edge!Overfit(y) => Edge!Overfit(x)
  <2>1. Edge!Known(y.symbols) = Edge!Known(x.symbols)
    BY DEF NoWorse
  <2> QED BY <1>1, <2>1, BetterTests DEF Edge!Overfit
<1>3. Edge!Robust(x) => Edge!Robust(y)
  BY <1>1, BetterTests DEF Edge!Robust
<1>4. Edge!Promising(x) /\ ~Edge!Overfit(x) => Edge!Promising(y) \/ Edge!Robust(y)
  <2> SUFFICES ASSUME Edge!Promising(x), ~Edge!Overfit(x), ~Edge!Promising(y) PROVE Edge!Robust(y)
    OBVIOUS
  <2>1. Edge!Profitable(y, 120) /\ Edge!OutOfSample(y) >= 200 /\ Edge!Steady(y)
        /\ ~Edge!Deeper(y, 50)
    BY <1>1, BetterTests DEF Edge!Promising
  <2>2. ~Edge!Concentrated(y)
    <3>1. Edge!OutOfSample(x) >= 50
      BY <1>1, <2>1
    <3>2. ~Edge!Concentrated(x)
      BY <3>1 DEF Edge!Overfit
    <3> QED BY <3>2, BetterTests
  <2>3. Edge!Deeper(y, 80) => Edge!Deeper(x, 80)
    BY BetterTests
  <2>4. Edge!OutOfSample(x) >= 50
    BY <1>1, <2>1
  <2>5. ~Edge!Deeper(x, 80)
    BY <2>4 DEF Edge!Overfit
  <2> QED BY <2>1, <2>2, <2>3, <2>5 DEF Edge!Robust
<1>5. /\ (Edge!Insufficient(y) <=> Edge!Insufficient(x)) /\ (Edge!NoEdge(y) => Edge!NoEdge(x))
      /\ (Edge!GateRecovers(y) <=> Edge!GateRecovers(x))
  BY BetterTests
<1>6. /\ Edge!Verdict(x) = "INSUFFICIENT_TRADES" <=> Edge!Insufficient(x)
      /\ Edge!Verdict(y) = "INSUFFICIENT_TRADES" <=> Edge!Insufficient(y)
  BY DEF Edge!Verdict
<1> QED BY <1>2, <1>3, <1>4, <1>5, RankIs DEF Edge!Verdict

(* A better figure for a period or a window is no worse a report.           *)
LEMMA SwappedRow ==
  ASSUME NEW rs \in Seq(Edge!Result), NEW n \in DOMAIN rs, NEW f \in Edge!Result,
         f.trades = rs[n].trades, f.ev >= rs[n].ev, f.pf >= rs[n].pf, f.dd <= rs[n].dd
  PROVE  LET qs == [rs EXCEPT ![n] = f]
         IN /\ qs \in Seq(Edge!Result) /\ DOMAIN qs = DOMAIN rs
            /\ \A k \in DOMAIN rs : /\ qs[k].trades = rs[k].trades /\ qs[k].ev >= rs[k].ev
                                    /\ qs[k].pf >= rs[k].pf /\ qs[k].dd <= rs[k].dd
<1> DEFINE qs == [rs EXCEPT ![n] = f]
<1>1. qs \in Seq(Edge!Result) /\ DOMAIN qs = DOMAIN rs
  <2>1. n \in 1 .. Len(rs)
    BY LenProperties
  <2> QED BY <2>1, ExceptSeq, LenProperties
<1>2. ASSUME NEW k \in DOMAIN rs
      PROVE /\ qs[k].trades = rs[k].trades /\ qs[k].ev >= rs[k].ev
            /\ qs[k].pf >= rs[k].pf /\ qs[k].dd <= rs[k].dd
  <2>1. CASE k = n
    BY <2>1
  <2>2. CASE k # n
    <3>1. qs[k] = rs[k]
      BY <2>2
    <3>2. rs[k] \in Edge!Result
      BY LenProperties, ElementOfSeq
    <3>3. rs[k].ev \in Int /\ rs[k].pf \in Int /\ rs[k].dd \in Int
      BY <3>2 DEF Edge!Result
    <3> HIDE DEF qs
    <3>4. rs[k].ev >= rs[k].ev /\ rs[k].pf >= rs[k].pf /\ rs[k].dd <= rs[k].dd
      BY <3>3
    <3> QED BY <3>1, <3>4
  <2> QED BY <2>1, <2>2
<1> QED BY <1>1, <1>2

LEMMA SameRows ==
  ASSUME NEW x \in Edge!Report, NEW t \in AllTables, NEW n \in DOMAIN x[t]
  PROVE  x[t][n].ev >= x[t][n].ev /\ x[t][n].pf >= x[t][n].pf /\ x[t][n].dd <= x[t][n].dd
<1>1. x[t][n].ev \in Int /\ x[t][n].pf \in Int /\ x[t][n].dd \in Int
  BY Zenon, TableIs
<1> QED BY <1>1

LEMMA SwappedReport ==
  ASSUME NEW x \in Edge!Report, NEW figures, figures \subseteq Edge!Result
  PROVE  /\ \A n \in DOMAIN x.periods : \A f \in Edge!Betters(x.periods[n], figures) :
              NoWorse(x, [x EXCEPT !.periods[n] = f])
         /\ \A n \in DOMAIN x.windows : \A f \in Edge!Betters(x.windows[n], figures) :
              NoWorse(x, [x EXCEPT !.windows[n] = f])
<1>0. x.periods \in Seq(Edge!Result) /\ x.windows \in Seq(Edge!Result)
  BY Zenon DEF Edge!Report
<1>1. ASSUME NEW n \in DOMAIN x.periods, NEW f \in Edge!Betters(x.periods[n], figures)
      PROVE  NoWorse(x, [x EXCEPT !.periods[n] = f])
  <2> DEFINE y == [x EXCEPT !.periods[n] = f]
             qs == [x.periods EXCEPT ![n] = f]
  <2>1. /\ qs \in Seq(Edge!Result) /\ DOMAIN qs = DOMAIN x.periods
        /\ \A k \in DOMAIN x.periods :
             /\ qs[k].trades = x.periods[k].trades /\ qs[k].ev >= x.periods[k].ev
             /\ qs[k].pf >= x.periods[k].pf /\ qs[k].dd <= x.periods[k].dd
    <3>1. /\ f \in Edge!Result /\ f.trades = x.periods[n].trades /\ f.ev >= x.periods[n].ev
          /\ f.pf >= x.periods[n].pf /\ f.dd <= x.periods[n].dd
      BY DEF Edge!Betters
    <3> QED BY <1>0, <3>1, SwappedRow
  <2>2. y = [x EXCEPT !.periods = qs]
    OBVIOUS
  <2> HIDE DEF y, qs
  <2>3. y \in Edge!Report
    BY Zenon, <2>1, <2>2 DEF Edge!Report
  <2>4. y.periods = qs /\ y.symbols = x.symbols /\ y.frames = x.frames /\ y.windows = x.windows
        /\ y.guarded = x.guarded /\ y.gated = x.gated
    BY <2>2 DEF Edge!Report
  <2>5. ASSUME NEW t \in AllTables
        PROVE  /\ DOMAIN y[t] = DOMAIN x[t]
               /\ \A k \in DOMAIN x[t] :
                    /\ y[t][k].trades = x[t][k].trades /\ y[t][k].ev >= x[t][k].ev
                    /\ y[t][k].pf >= x[t][k].pf /\ y[t][k].dd <= x[t][k].dd
    <3>1. CASE t = "periods"
      <4>1. y[t] = qs /\ x[t] = x.periods
        BY <2>4, <3>1
      <4> QED BY Zenon, <2>1, <4>1
    <3>2. CASE t # "periods"
      <4>1. y[t] = x[t]
        BY <2>4, <3>2 DEF AllTables
      <4> QED BY Zenon, <4>1, SameRows
    <3> QED BY <3>1, <3>2
  <2> QED BY Zenon, <2>3, <2>4, <2>5 DEF NoWorse, y
<1>2. ASSUME NEW n \in DOMAIN x.windows, NEW f \in Edge!Betters(x.windows[n], figures)
      PROVE  NoWorse(x, [x EXCEPT !.windows[n] = f])
  <2> DEFINE y == [x EXCEPT !.windows[n] = f]
             qs == [x.windows EXCEPT ![n] = f]
  <2>1. /\ qs \in Seq(Edge!Result) /\ DOMAIN qs = DOMAIN x.windows
        /\ \A k \in DOMAIN x.windows :
             /\ qs[k].trades = x.windows[k].trades /\ qs[k].ev >= x.windows[k].ev
             /\ qs[k].pf >= x.windows[k].pf /\ qs[k].dd <= x.windows[k].dd
    <3>1. /\ f \in Edge!Result /\ f.trades = x.windows[n].trades /\ f.ev >= x.windows[n].ev
          /\ f.pf >= x.windows[n].pf /\ f.dd <= x.windows[n].dd
      BY DEF Edge!Betters
    <3> QED BY <1>0, <3>1, SwappedRow
  <2>2. y = [x EXCEPT !.windows = qs]
    OBVIOUS
  <2> HIDE DEF y, qs
  <2>3. y \in Edge!Report
    BY Zenon, <2>1, <2>2 DEF Edge!Report
  <2>4. y.windows = qs /\ y.symbols = x.symbols /\ y.frames = x.frames /\ y.periods = x.periods
        /\ y.guarded = x.guarded /\ y.gated = x.gated
    BY <2>2 DEF Edge!Report
  <2>5. ASSUME NEW t \in AllTables
        PROVE  /\ DOMAIN y[t] = DOMAIN x[t]
               /\ \A k \in DOMAIN x[t] :
                    /\ y[t][k].trades = x[t][k].trades /\ y[t][k].ev >= x[t][k].ev
                    /\ y[t][k].pf >= x[t][k].pf /\ y[t][k].dd <= x[t][k].dd
    <3>1. CASE t = "windows"
      <4>1. y[t] = qs /\ x[t] = x.windows
        BY <2>4, <3>1
      <4> QED BY Zenon, <2>1, <4>1
    <3>2. CASE t # "windows"
      <4>1. y[t] = x[t]
        BY <2>4, <3>2 DEF AllTables
      <4> QED BY Zenon, <4>1, SameRows
    <3> QED BY <3>1, <3>2
  <2> QED BY Zenon, <2>3, <2>4, <2>5 DEF NoWorse, y
<1> QED BY Zenon, <1>1, <1>2

LEMMA BetterIsNeverWorse ==
  ASSUME NEW x \in Edge!Report, NEW figures, figures \subseteq Edge!Result
  PROVE  Edge!BetterNeverWorse(x, figures)
  BY SwappedReport, NeverWorse DEF Edge!BetterNeverWorse

-----------------------------------------------------------------------------
(* If no symbol has more than half of a profit, no symbol has it all.       *)
LEMMA ProfitIsShared ==
  ASSUME NEW x \in Edge!Report, ~Edge!Concentrated(x), NEW m \in DOMAIN x.symbols
  PROVE  \E n \in DOMAIN x.symbols : m # n /\ x.symbols[n].ev > 0
<1> SUFFICES ASSUME \A n \in DOMAIN x.symbols : m # n => ~(x.symbols[n].ev > 0)
             PROVE  FALSE
  OBVIOUS
<1> DEFINE K == Edge!Known(x.symbols)
           w == Edge!Profit(x)
           v == [n \in K |-> IF n = m THEN w[m] ELSE 0]
<1>1. /\ K \subseteq DOMAIN x.symbols /\ IsFiniteSet(K) /\ w \in [K -> Int] /\ Edge!Total(w) \in Int
  BY SymbolsAre
<1>2. Edge!Total(w) > 0 /\ \A n \in K : 2 * w[n] <= Edge!Total(w)
  <2>1. ~(Edge!Total(w) <= 0) /\ \A n \in K : ~(2 * w[n] > Edge!Total(w))
    BY DEF Edge!Concentrated
  <2>2. \A n \in K : w[n] \in Int
    BY <1>1
  <2> HIDE DEF w, K
  <2>3. ASSUME NEW n \in K PROVE 2 * w[n] <= Edge!Total(w)
    BY <1>1, <2>1, <2>2
  <2> QED BY <1>1, <2>1, <2>3
<1>3. \A n \in K : n # m => w[n] <= 0
  <2> SUFFICES ASSUME NEW n \in K, n # m PROVE w[n] <= 0
    OBVIOUS
  <2>1. "symbols" \in AllTables /\ x["symbols"] = x.symbols
    BY DEF AllTables
  <2>2. x.symbols[n].ev \in Int /\ x.symbols[n].trades \in Nat
    BY <1>1, <2>1, TableIs
  <2>3. x.symbols[n].ev <= 0
    BY <1>1, <2>2
  <2>4. \A e \in Int, k \in Nat : e <= 0 => e * k <= 0
    OBVIOUS
  <2>5. w[n] = x.symbols[n].ev * x.symbols[n].trades
    BY DEF Edge!Profit
  <2> QED BY Zenon, <2>2, <2>3, <2>4, <2>5
<1>4. CASE m \in K
  <2>1. v \in [K -> Int] /\ v[m] = w[m] /\ \A n \in K : n # m => v[n] = 0
    BY <1>1, <1>4
  <2>2. \A n \in K : w[n] <= v[n]
    <3>1. \A n \in K : w[n] \in Int
      BY <1>1
    <3> HIDE DEF w, K
    <3>2. ASSUME NEW n \in K PROVE w[n] <= v[n]
      BY <1>3, <2>1, <3>1
    <3> QED BY <3>2
  <2> HIDE DEF v, w, K
  <2>3. Edge!Total(w) <= Edge!Total(v)
    BY <1>1, <2>1, <2>2, TotalMonotone
  <2>4. Edge!Total(v) = w[m]
    BY <1>1, <1>4, <2>1, TotalAlone
  <2>5. w[m] \in Int
    BY <1>1, <1>4
  <2> QED BY <1>1, <1>2, <1>4, <2>3, <2>4, <2>5
<1>5. CASE m \notin K
  <2> DEFINE z == [n \in K |-> 0]
  <2>1. z \in [K -> Int] /\ \A n \in K : w[n] <= z[n]
    BY <1>3, <1>5
  <2>2. Edge!Total(z) = 0
    <3>1. CASE K = {}
      <4>1. PICK g : Sums(K, z, g) /\ Edge!Total(z) = g[K]
        BY <1>1, <2>1, TotalSums
      <4> QED BY <3>1, <4>1 DEF Sums
    <3>2. ASSUME NEW n \in K PROVE Edge!Total(z) = 0
      <4>1. z[n] = 0 /\ \A k \in K : k # n => z[k] = 0
        OBVIOUS
      <4> HIDE DEF z, K
      <4> QED BY <1>1, <2>1, <3>2, <4>1, TotalAlone
    <3> QED BY <3>1, <3>2
  <2> HIDE DEF z, w, K
  <2>3. Edge!Total(w) <= Edge!Total(z)
    BY <1>1, <2>1, TotalMonotone
  <2> QED BY <1>1, <1>2, <2>2, <2>3
<1> QED BY <1>4, <1>5

LEMMA MostWindowsWon ==
  ASSUME NEW x \in Edge!Report, Edge!Steady(x)
  PROVE  Edge!Cardinality(Edge!Won(x)) > Edge!Cardinality(DOMAIN x.windows \ Edge!Won(x))
<1>1. "windows" \in AllTables /\ x["windows"] = x.windows
  BY DEF AllTables
<1>2. IsFiniteSet(DOMAIN x.windows) /\ Len(x.windows) \in Nat
      /\ DOMAIN x.windows = 1..Len(x.windows)
  BY <1>1, TableIs
<1>3. Edge!Cardinality(DOMAIN x.windows) = Len(x.windows)
  BY <1>2, FS_Interval, CountsAlike
<1>4. /\ Edge!Won(x) \subseteq DOMAIN x.windows /\ IsFiniteSet(Edge!Won(x))
      /\ Edge!Cardinality(Edge!Won(x)) \in Nat
  <2>1. Edge!Won(x) \subseteq DOMAIN x.windows
    BY DEF Edge!Won
  <2> QED BY <1>2, <2>1, FS_Subset, FS_CardinalityType, CountsAlike
<1>5. Edge!Cardinality(DOMAIN x.windows \ Edge!Won(x))
      = Edge!Cardinality(DOMAIN x.windows) - Edge!Cardinality(Edge!Won(x))
  <2>1. (DOMAIN x.windows) \cap Edge!Won(x) = Edge!Won(x)
    BY <1>4
  <2>2. Cardinality(DOMAIN x.windows \ Edge!Won(x))
        = Cardinality(DOMAIN x.windows) - Cardinality(Edge!Won(x))
    BY <1>2, <2>1, FS_Difference
  <2> QED BY <2>2, CountsAlike
<1>6. 10 * Edge!Cardinality(Edge!Won(x)) >= 7 * Len(x.windows)
      /\ 10 * Edge!Cardinality(Edge!Won(x)) >= 7
  BY <1>2, <1>4 DEF Edge!Steady, Edge!Greater
<1> QED BY <1>2, <1>3, <1>4, <1>5, <1>6

LEMMA RobustMeansBroad ==
  ASSUME NEW x \in Edge!Report
  PROVE  Edge!RobustIsBroad(x)
<1>1. ASSUME Edge!Verdict(x) = "ROBUST_EDGE"
      PROVE  Edge!Robust(x)
  BY <1>1 DEF Edge!Verdict
<1>2. ASSUME Edge!Robust(x)
      PROVE  /\ \A m \in DOMAIN x.symbols : \E n \in DOMAIN x.symbols : m # n /\ x.symbols[n].ev > 0
             /\ \A n \in Edge!Known(x.symbols) : 2 * Edge!Profit(x)[n] <= Edge!Total(Edge!Profit(x))
             /\ \A t \in Edge!Tables : \A n \in Edge!Known(x[t]) : x[t][n].dd <= 80
             /\ Edge!Cardinality(Edge!Won(x)) > Edge!Cardinality(DOMAIN x.windows \ Edge!Won(x))
  <2>1. ~Edge!Concentrated(x) /\ ~Edge!Deeper(x, 80) /\ Edge!Steady(x)
    BY <1>2 DEF Edge!Robust
  <2>2. \A n \in Edge!Known(x.symbols) : 2 * Edge!Profit(x)[n] <= Edge!Total(Edge!Profit(x))
    <3> DEFINE w == Edge!Profit(x)
               K == Edge!Known(x.symbols)
    <3>1. Edge!Total(w) \in Int /\ \A n \in K : w[n] \in Int
      BY SymbolsAre
    <3>2. \A n \in K : ~(2 * w[n] > Edge!Total(w))
      BY <2>1 DEF Edge!Concentrated
    <3> HIDE DEF w, K
    <3>3. \A n \in K : 2 * w[n] <= Edge!Total(w)
      BY <3>1, <3>2
    <3> QED BY <3>3 DEF w, K
  <2>3. \A t \in Edge!Tables : \A n \in Edge!Known(x[t]) : x[t][n].dd <= 80
    <3> SUFFICES ASSUME NEW t \in Edge!Tables, NEW n \in Edge!Known(x[t]) PROVE x[t][n].dd <= 80
      OBVIOUS
    <3>1. t \in AllTables /\ n \in DOMAIN x[t]
      BY DEF Edge!Tables, AllTables, Edge!Known
    <3>2. x[t][n].dd \in Int
      BY Zenon, <3>1, TableIs
    <3>3. ~(x[t][n].dd > 80)
      BY <2>1 DEF Edge!Deeper
    <3> QED BY <3>2, <3>3
  <2> QED BY <2>1, <2>2, <2>3, ProfitIsShared, MostWindowsWon
<1>3. ASSUME Edge!GovernorVerdict(x) = "GOOD_RISK_PROFILE", Edge!Verdict(x) # "INSUFFICIENT_TRADES"
      PROVE  x.governed.dd <= 80
  <2>1. ~Edge!Insufficient(x)
    BY <1>3 DEF Edge!Verdict
  <2>2. ~(x.governed.dd > 80)
    BY <1>3, <2>1 DEF Edge!GovernorVerdict
  <2>3. x.governed \in Edge!Governed
    BY Zenon DEF Edge!Report
  <2>4. x.governed.dd \in Int
    BY <2>3 DEF Edge!Governed
  <2> QED BY <2>2, <2>4
<1> QED BY Zenon, <1>1, <1>2, <1>3 DEF Edge!RobustIsBroad

(* Of any report: what is called robust has more than one symbol that earns  *)
(* and more windows won than lost, and no verdict is worse for better       *)
(* results.                                                                 *)
THEOREM VerdictsStand == Spec => []VerdictsAreBroad
<1>1. InputInv => VerdictsAreBroad
  BY RobustMeansBroad, BetterIsNeverWorse, MCResearchAssumption DEF InputInv, VerdictsAreBroad
<1> QED BY <1>1, InputStays, InputKept, PTL DEF Spec

-----------------------------------------------------------------------------
(* The strategy engine                                                     *)

(* The candles of the tape, and what a replay has collected of them.        *)
TapeCandle == [o : Nat, h : Nat, l : Nat \ {0}, c : Nat, v : Nat]
TapeInv ==
  /\ time \in Nat /\ candles \in Seq(TapeCandle)
  /\ highs \in Seq(Nat) /\ lows \in Seq(Nat)

LEMMA TapeLimits ==
  /\ Tape \in Seq(SUBSET TapeCandle) /\ WindowSize \in Nat \ {0}
  /\ FreshSweep \in Nat /\ FreshGap \in Nat /\ Lookback \in Nat
  /\ GapLarge \in Nat /\ GapSmall \in Nat
<1>1. Strategy!StrategyLimits
  BY MCResearchAssumption
<1>2. Strategy!Limits /\ FreshSweep \in Nat /\ FreshGap \in Nat
  BY <1>1 DEF Strategy!StrategyLimits
<1>3. Tape \in Seq(SUBSET TapeCandle)
  BY <1>2 DEF Strategy!Limits, TapeCandle
<1>4. WindowSize \in Nat \ {0} /\ Lookback \in Nat /\ GapLarge \in Nat /\ GapSmall \in Nat
  BY <1>2 DEF Strategy!Limits
<1> QED BY <1>2, <1>3, <1>4

(* What is kept of the candles is a window that ends with the last.         *)
LEMMA WindowEnds ==
  ASSUME NEW s \in Seq(TapeCandle), NEW c \in TapeCandle, NEW n \in Nat \ {0}
  PROVE  LET cs == Strategy!Kept(Append(s, c), n)
         IN cs \in Seq(TapeCandle) /\ Len(cs) \in 1..n /\ cs[Len(cs)] = c
<1> DEFINE t == Append(s, c)
           first == IF Len(t) > n THEN Len(t) - n + 1 ELSE 1
<1>1. t \in Seq(TapeCandle) /\ Len(t) \in Nat \ {0} /\ t[Len(t)] = c
  BY AppendProperties, LenProperties
<1> HIDE DEF t
<1>2. first \in 1..Len(t) /\ Len(t) - first + 1 \in 1..n
  BY <1>1
<1>3. Strategy!Kept(t, n) = SubSeq(t, first, Len(t))
  BY DEF Strategy!Kept
<1> HIDE DEF first
<1> DEFINE cs == SubSeq(t, first, Len(t))
<1>4. /\ cs \in Seq(TapeCandle) /\ Len(cs) = Len(t) - first + 1
      /\ \A i \in 1..(Len(t) - first + 1) : cs[i] = t[first + i - 1]
  BY <1>1, <1>2, SubSeqProperties
<1> HIDE DEF cs
<1>5. Len(cs) \in 1..n /\ first + Len(cs) - 1 = Len(t)
  BY <1>1, <1>2, <1>4
<1>6. cs[Len(cs)] = c
  BY <1>1, <1>2, <1>4, <1>5
<1> QED BY <1>3, <1>4, <1>5, <1>6 DEF t, cs

(* A step is a candle that is one of the tape's.                            *)
LEMMA CandleComes ==
  ASSUME TapeInv, [Next]_vars
  PROVE  \/ UNCHANGED strategyVars
         \/ /\ topic = "strategy" /\ topic' = topic
            /\ \E c \in TapeCandle : Strategy!Replay(c)
<1>1. CASE StrategyStep
  <2>1. PICK c \in Tape[time + 1] : Strategy!Replay(c)
    BY <1>1 DEF StrategyStep, Strategy!StrategyNext
  <2>2. time + 1 \in 1..Len(Tape)
    BY <1>1, TapeLimits, LenProperties DEF StrategyStep, Strategy!StrategyNext, TapeInv
  <2>3. Tape[time + 1] \in SUBSET TapeCandle
    BY <2>2, TapeLimits, ElementOfSeq
  <2>4. topic = "strategy" /\ topic' = topic
    BY <1>1 DEF StrategyStep
  <2>5. c \in TapeCandle
    BY <2>3
  <2>6. \E k \in TapeCandle : Strategy!Replay(k)
    <3> HIDE DEF TapeCandle
    <3> QED BY <2>1, <2>5
  <2> QED BY <2>4, <2>6
<1>2. CASE [Next]_vars /\ ~StrategyStep
  BY <1>2 DEF Next, StrategyStep, ReplayStep, MemoryStep, BeliefStep, LabStep, BookStep, vars
<1> QED BY <1>1, <1>2

LEMMA TapeStarts == Init => TapeInv
<1>1. <<>> \in Seq(TapeCandle) /\ <<>> \in Seq(Nat)
  BY EmptySeq
<1>2. Init => Strategy!Init
  BY DEF Init, Strategy!StrategyInit
<1>3. Strategy!Init => time = 0 /\ candles = <<>> /\ highs = <<>> /\ lows = <<>>
  BY DEF Strategy!Init
<1>4. 0 \in Nat
  OBVIOUS
<1>5. ASSUME Init
      PROVE  time \in Nat /\ candles \in Seq(TapeCandle) /\ highs \in Seq(Nat) /\ lows \in Seq(Nat)
  BY <1>1, <1>2, <1>3, <1>4, <1>5
<1> QED BY <1>5, Zenon DEF TapeInv

(* A swing is a candle of the window.                                       *)
LEMMA SwingsAre ==
  ASSUME NEW cs \in Seq(TapeCandle), Strategy!Ready(cs)
  PROVE  cs[Strategy!At(cs)] \in TapeCandle /\ cs[Strategy!At(cs)].h \in Nat /\ cs[Strategy!At(cs)].l \in Nat
<1>1. Len(cs) \in Nat
  BY LenProperties
<1>2. Strategy!At(cs) \in 1..Len(cs)
  BY <1>1, TapeLimits DEF Strategy!Ready, Strategy!At
<1>3. cs[Strategy!At(cs)] \in TapeCandle
  BY <1>2, ElementOfSeq
<1>4. \A k \in TapeCandle : k.h \in Nat /\ k.l \in Nat
  BY DEF TapeCandle
<1> QED BY <1>3, <1>4

LEMMA WindowMoves ==
  ASSUME TapeInv, NEW c \in TapeCandle, Strategy!Candle(c)
  PROVE  /\ TapeInv'
         /\ candles' = Strategy!Kept(Append(candles, c), WindowSize)
         /\ Len(candles') \in 1..WindowSize /\ candles'[Len(candles')] = c
<1>1. candles' = Strategy!Kept(Append(candles, c), WindowSize) /\ time' = time + 1
  BY DEF Strategy!Candle
<1>2. candles' \in Seq(TapeCandle) /\ Len(candles') \in 1..WindowSize /\ candles'[Len(candles')] = c
  BY <1>1, WindowEnds, TapeLimits DEF TapeInv
<1>3. highs' = (IF Strategy!NewHigh(candles') THEN Append(highs, candles'[Strategy!At(candles')].h) ELSE highs)
  BY <1>1 DEF Strategy!Candle
<1>4. lows' = (IF Strategy!NewLow(candles') THEN Append(lows, candles'[Strategy!At(candles')].l) ELSE lows)
  BY <1>1 DEF Strategy!Candle
<1>5. highs' \in Seq(Nat)
  <2>1. CASE Strategy!NewHigh(candles')
    <3>1. candles'[Strategy!At(candles')].h \in Nat
      BY <1>2, <2>1, SwingsAre DEF Strategy!NewHigh
    <3> QED BY <1>3, <2>1, <3>1, AppendProperties DEF TapeInv
  <2>2. CASE ~Strategy!NewHigh(candles')
    BY <1>3, <2>2 DEF TapeInv
  <2> QED BY <2>1, <2>2
<1>6. lows' \in Seq(Nat)
  <2>1. CASE Strategy!NewLow(candles')
    <3>1. candles'[Strategy!At(candles')].l \in Nat
      BY <1>2, <2>1, SwingsAre DEF Strategy!NewLow
    <3> QED BY <1>4, <2>1, <3>1, AppendProperties DEF TapeInv
  <2>2. CASE ~Strategy!NewLow(candles')
    BY <1>4, <2>2 DEF TapeInv
  <2> QED BY <2>1, <2>2
<1> QED BY <1>1, <1>2, <1>5, <1>6 DEF TapeInv

-----------------------------------------------------------------------------
(* The sum of the votes is a sum whatever their order.                      *)
LEMMA VotesSum ==
  ASSUME NEW D, IsFiniteSet(D), NEW w \in [D -> Int]
  PROVE  \E g : Sums(D, w, g) /\ Strategy!Sum(w) = g[D]
<1> DEFINE Adds(g) == g = [U \in SUBSET D |->
             IF U = {} THEN 0
             ELSE w[CHOOSE x \in U : TRUE] + g[U \ {CHOOSE x \in U : TRUE}]]
           f == CHOOSE g : Adds(g)
<1>1. ASSUME NEW g PROVE Adds(g) <=> FoldsAny(D, w, g)
  BY DEF FoldsAny, AnyOf
<1>2. \E g : Adds(g)
  <2> HIDE DEF Adds
  <2> QED BY <1>1, FoldsAnyExists
<1>3. FoldsAny(D, w, f)
  <2>1. Adds(f)
    BY <1>2
  <2> HIDE DEF Adds
  <2> QED BY <1>1, <2>1
<1>4. DOMAIN w = D
  OBVIOUS
<1>5. Strategy!Sum(w) = f[D]
  BY <1>4 DEF Strategy!Sum, Strategy!FoldFunction, Strategy!FoldFunctionOnSet, Strategy!MapThenFoldSet
<1> HIDE DEF f
<1> QED BY <1>3, <1>5, FoldsAnySums

LEMMA VotesNat ==
  ASSUME NEW D, IsFiniteSet(D), NEW w \in [D -> Nat]
  PROVE  Strategy!Sum(w) \in Nat
<1>1. w \in [D -> Int]
  OBVIOUS
<1>2. PICK g : Sums(D, w, g) /\ Strategy!Sum(w) = g[D]
  BY <1>1, VotesSum
<1> QED BY <1>2, SumsNat

LEMMA VotesNone ==
  ASSUME NEW D, IsFiniteSet(D), NEW w \in [D -> {0}]
  PROVE  Strategy!Sum(w) = 0
<1>1. w \in [D -> Int] /\ w \in [D -> Nat]
  OBVIOUS
<1>2. PICK g : Sums(D, w, g) /\ Strategy!Sum(w) = g[D]
  BY <1>1, VotesSum
<1> DEFINE h == [S \in SUBSET D |-> 0]
<1>3. Sums(D, w, h)
  BY DEF Sums
<1>4. h[D] = 0
  OBVIOUS
<1> HIDE DEF h
<1> QED BY <1>2, <1>3, <1>4, SumUnique

LEMMA VotesAlone ==
  ASSUME NEW D, IsFiniteSet(D), NEW w \in [D -> Int], NEW m \in D, \A x \in D : x # m => w[x] = 0
  PROVE  Strategy!Sum(w) = w[m]
<1>1. PICK g : Sums(D, w, g) /\ Strategy!Sum(w) = g[D]
  BY VotesSum
<1> QED BY <1>1, SumsAlone

LEMMA TotalNat ==
  ASSUME NEW n \in Nat, NEW w \in [1..n -> Nat]
  PROVE  Strategy!Sum(w) \in Nat
<1>1. IsFiniteSet(1..n)
  BY FS_Interval
<1> QED BY <1>1, VotesNat

-----------------------------------------------------------------------------
(* One candle                                                              *)
Parts == {"liquidity", "structure", "gap", "block", "zone", "displacement"}
LEMMA PartsAreSix == IsFiniteSet(Parts)
<1>1. \A S, x : IsFiniteSet(S) => IsFiniteSet(S \cup {x})
  BY FS_AddElement
<1>2. IsFiniteSet({"liquidity"})
  BY FS_Singleton
<1>3. IsFiniteSet(({"liquidity"} \cup {"structure"}) \cup {"gap"})
  BY <1>1, <1>2
<1>4. IsFiniteSet(((({"liquidity"} \cup {"structure"}) \cup {"gap"}) \cup {"block"}) \cup {"zone"})
  BY <1>1, <1>3
<1> DEFINE most == ((({"liquidity"} \cup {"structure"}) \cup {"gap"}) \cup {"block"}) \cup {"zone"}
<1>5. IsFiniteSet(most \cup {"displacement"})
  BY <1>1, <1>4
<1>6. Parts = most \cup {"displacement"}
  BY DEF Parts
<1> HIDE DEF most
<1> QED BY <1>5, <1>6

LEMMA ZoneDecides ==
  ASSUME NEW votes, DOMAIN votes = Parts, \A k \in Parts \ {"zone"} : votes[k].dir = "NEUTRAL",
         votes.zone.score \in Nat, NEW dir \in {"LONG", "SHORT"}
  PROVE  Strategy!Weighed(votes, dir)
           = IF votes.zone.dir = dir THEN 2 * (100 + votes.zone.score) ELSE 0
<1> DEFINE w == [k \in DOMAIN votes |->
                   IF votes[k].dir = dir THEN Strategy!Weight[k] * (100 + votes[k].score) ELSE 0]
<1>1. Strategy!Weighed(votes, dir) = Strategy!Sum(w)
  BY DEF Strategy!Weighed
<1>2. "zone" \in Parts /\ Strategy!Weight["zone"] = 2
  BY DEF Parts, Strategy!Weight
<1>3. w["zone"] = IF votes.zone.dir = dir THEN 2 * (100 + votes.zone.score) ELSE 0
  BY <1>2
<1>4. \A k \in Parts : k # "zone" => w[k] = 0
  OBVIOUS
<1>5. w \in [Parts -> Int]
  BY <1>3, <1>4
<1> HIDE DEF w
<1> QED BY <1>1, <1>2, <1>3, <1>4, <1>5, PartsAreSix, VotesAlone

LEMMA NothingVotes ==
  /\ Strategy!ScoreStructure(<<>>).dir = "NEUTRAL" /\ Strategy!ScoreGaps(<<>>).dir = "NEUTRAL"
  /\ Strategy!ScoreBlocks(<<>>).dir = "NEUTRAL" /\ Strategy!ScoreDisplacement(<<>>).dir = "NEUTRAL"
  /\ \A pools : Strategy!ScoreLiquidity(pools, {}).dir = "NEUTRAL"
<1>1. \A n \in {3, 5} : Strategy!Kept(<<>>, n) = <<>>
  BY DEF Strategy!Kept
<1>2. DOMAIN <<>> = {}
  OBVIOUS
<1>3. Strategy!ScoreStructure(<<>>).dir = "NEUTRAL"
  BY <1>1, <1>2 DEF Strategy!ScoreStructure, Strategy!LastDir, Strategy!Vote
<1>4. Strategy!ScoreGaps(<<>>).dir = "NEUTRAL" /\ Strategy!ScoreBlocks(<<>>).dir = "NEUTRAL"
  BY <1>2 DEF Strategy!ScoreGaps, Strategy!ScoreBlocks, Strategy!LastDir, Strategy!Vote
<1>5. Strategy!ScoreDisplacement(<<>>).dir = "NEUTRAL"
  BY <1>1, <1>2 DEF Strategy!ScoreDisplacement, Strategy!Displaced, Strategy!Vote
<1>6. \A pools : Strategy!ScoreLiquidity(pools, {}).dir = "NEUTRAL"
  BY DEF Strategy!ScoreLiquidity, Strategy!Vote
<1> QED BY <1>3, <1>4, <1>5, <1>6

LEMMA PlansFade ==
  ASSUME NEW hs, NEW ls, NEW ehs, NEW els, NEW c
  PROVE  LET p == Strategy!PlanOf(Strategy!Alone(hs, ls, ehs, els, c), c)
         IN p # "" => p = Strategy!ScoreZone(Strategy!PriceZone(hs, ls, c.c)).dir
<1> DEFINE zone == Strategy!PriceZone(hs, ls, c.c)
           pools == Strategy!Pools(hs, ls, ehs, els, c.c, <<>>)
           report == Strategy!Confluence(pools, {}, <<>>, <<>>, <<>>, zone, <<>>)
           votes == [liquidity |-> Strategy!ScoreLiquidity(pools, {}), structure |-> Strategy!ScoreStructure(<<>>),
                     gap |-> Strategy!ScoreGaps(<<>>), block |-> Strategy!ScoreBlocks(<<>>),
                     zone |-> Strategy!ScoreZone(zone), displacement |-> Strategy!ScoreDisplacement(<<>>)]
<1>1. Strategy!Alone(hs, ls, ehs, els, c) = report
  BY DEF Strategy!Alone
<1> HIDE DEF zone, pools
<1>2. report.bias = Strategy!Bias(Strategy!Weighed(votes, "LONG"), Strategy!Weighed(votes, "SHORT"))
  BY DEF Strategy!Confluence
<1>3. /\ DOMAIN votes = Parts
      /\ votes.liquidity = Strategy!ScoreLiquidity(pools, {})
      /\ votes.structure = Strategy!ScoreStructure(<<>>) /\ votes.gap = Strategy!ScoreGaps(<<>>)
      /\ votes.block = Strategy!ScoreBlocks(<<>>) /\ votes.displacement = Strategy!ScoreDisplacement(<<>>)
      /\ votes.zone = Strategy!ScoreZone(zone)
  BY DEF Parts
<1> HIDE DEF report, votes
<1>4. \A k \in Parts \ {"zone"} : votes[k].dir = "NEUTRAL"
  BY <1>3, NothingVotes DEF Parts
<1>5. votes.zone.score \in Nat /\ votes.zone.dir \in {"LONG", "SHORT", "NEUTRAL"}
  BY <1>3 DEF Strategy!ScoreZone, Strategy!Vote
<1>6. report.bias # "NEUTRAL" => report.bias = votes.zone.dir
  BY <1>2, <1>3, <1>4, <1>5, ZoneDecides DEF Strategy!Bias
<1> QED BY <1>1, <1>3, <1>6 DEF Strategy!PlanOf, zone

-----------------------------------------------------------------------------
(* Gaps and blocks of the window                                           *)
GapsOf(cs) == {Strategy!GapAt(cs, i) : i \in 2..(Len(cs) - 1)}

LEMMA GapsAreOfWindow ==
  ASSUME NEW cs \in Seq(TapeCandle), NEW known
  PROVE  Strategy!NewGaps(known, cs) \in Seq(GapsOf(cs))
<1> DEFINE n == Strategy!Max({0, Len(cs) - 2})
           places == [i \in 1..n |-> i + 1]
           D == 1..n
           T == Seq(GapsOf(cs))
           Adds(g) == g = [S \in SUBSET D |->
             IF S = {} THEN <<>>
             ELSE IF /\ Strategy!Gapped(cs, places[CHOOSE x \in S : \A y \in S : x >= y])
                     /\ ~Strategy!KnownGap(
                           known \cup Strategy!ToSet(g[S \ {CHOOSE x \in S : \A y \in S : x >= y}]),
                           Strategy!GapAt(cs, places[CHOOSE x \in S : \A y \in S : x >= y]))
                  THEN Append(g[S \ {CHOOSE x \in S : \A y \in S : x >= y}],
                              Strategy!GapAt(cs, places[CHOOSE x \in S : \A y \in S : x >= y]))
                  ELSE g[S \ {CHOOSE x \in S : \A y \in S : x >= y}]]
           f == CHOOSE g : Adds(g)
           step == [k \in D |-> [t \in T |->
             IF /\ Strategy!Gapped(cs, places[k])
                /\ ~Strategy!KnownGap(known \cup Strategy!ToSet(t), Strategy!GapAt(cs, places[k]))
             THEN Append(t, Strategy!GapAt(cs, places[k])) ELSE t]]
<1>1. Len(cs) \in Nat
  BY LenProperties
<1>2. n \in Nat /\ \A k \in D : places[k] \in 2..(Len(cs) - 1)
  <2>1. \E x \in {0, Len(cs) - 2} : \A y \in {0, Len(cs) - 2} : x >= y
    BY <1>1
  <2>2. n \in {0, Len(cs) - 2} /\ n >= 0
    BY <2>1 DEF Strategy!Max
  <2>3. n \in Nat /\ \A k \in 1..n : k + 1 \in 2..(Len(cs) - 1)
    <3> HIDE DEF n
    <3> QED BY <1>1, <2>2
  <2> QED BY <2>3
<1>3. Strategy!NewGaps(known, cs) = f[D]
  <2>1. DOMAIN places = D
    OBVIOUS
  <2> QED BY <2>1 DEF Strategy!NewGaps, Strategy!FoldLeft, Strategy!MapThenFoldSet, Strategy!Max
<1> HIDE DEF n
<1>4. <<>> \in T /\ step \in [D -> [T -> T]]
  <2>1. \A k \in D : Strategy!GapAt(cs, places[k]) \in GapsOf(cs)
    BY <1>2 DEF GapsOf
  <2>2. \A t \in T : \A k \in D : Append(t, Strategy!GapAt(cs, places[k])) \in T
    BY <2>1, AppendProperties
  <2> QED BY <2>2, EmptySeq
<1> HIDE DEF places, T
<1>5. ASSUME NEW g, g \in [SUBSET (1..n) -> T], FoldsExactly(n, <<>>, step, g)
      PROVE  Adds(g)
  <2>1. \A S \in SUBSET D : S # {} => Highest(S) \in D /\ g[S \ {Highest(S)}] \in T
    BY <1>2, <1>5, HighestIsIn
  <2> QED BY <1>5, <2>1 DEF Highest, FoldsExactly
<1>6. \E g : Adds(g)
  <2> HIDE DEF Adds, step
  <2>1. \E g : g \in [SUBSET (1..n) -> T] /\ FoldsExactly(n, <<>>, step, g)
    BY <1>2, <1>4, FoldLeftExists
  <2> QED BY <2>1, <1>5
<1>7. Adds(f)
  <2> HIDE DEF Adds
  <2> QED BY <1>6
<1>8. FoldsLeft(n, T, <<>>, step, f)
  <2>1. ASSUME NEW S \in SUBSET D, S # {}, f[S \ {Highest(S)}] \in T
        PROVE  f[S] = step[Highest(S)][f[S \ {Highest(S)}]]
    <3>1. Highest(S) \in D
      BY <1>2, <2>1, HighestIsIn
    <3> HIDE DEF f
    <3> QED BY <1>7, <2>1, <3>1 DEF Highest
  <2>2. f[{}] = <<>> /\ f = [S \in SUBSET D |-> f[S]]
    <3> HIDE DEF f
    <3>1. f[{}] = <<>>
      <4>1. {} \in SUBSET D
        OBVIOUS
      <4> QED BY <1>7, <4>1, Zenon
    <3>2. DOMAIN f = SUBSET D /\ f = [S \in DOMAIN f |-> f[S]]
      BY <1>7, Zenon
    <3> QED BY <3>1, <3>2
  <2> HIDE DEF f, Adds, step
  <2> QED BY <2>1, <2>2 DEF FoldsLeft
<1>9. f[D] \in T
  <2> HIDE DEF f, Adds, step
  <2> QED BY <1>2, <1>4, <1>8, FoldStays
<1> QED BY <1>3, <1>9 DEF T

Born(cs, g) ==
  [type |-> g.type, lo |-> cs[g.at - 1].l, hi |-> cs[g.at - 1].h,
   strength |-> Strategy!Strength(cs[g.at - 1], cs, g.type), mitigated |-> FALSE]
BornIn(cs) == {Born(cs, g) : g \in GapsOf(cs)}

LEMMA BlocksAreOfWindow ==
  ASSUME NEW cs \in Seq(TapeCandle), NEW known, NEW new \in Seq(GapsOf(cs))
  PROVE  Strategy!NewBlocks(known, new, cs) \in Seq(BornIn(cs))
<1> DEFINE n == Len(new)
           D == 1..n
           T == Seq(BornIn(cs))
           Adds(g) == g = [S \in SUBSET D |->
             IF S = {} THEN <<>>
             ELSE IF Strategy!KnownBlock(
                       known \cup Strategy!ToSet(g[S \ {CHOOSE x \in S : \A y \in S : x >= y}]),
                       cs[new[CHOOSE x \in S : \A y \in S : x >= y].at - 1])
                  THEN g[S \ {CHOOSE x \in S : \A y \in S : x >= y}]
                  ELSE Append(g[S \ {CHOOSE x \in S : \A y \in S : x >= y}],
                         [type |-> new[CHOOSE x \in S : \A y \in S : x >= y].type,
                          lo |-> cs[new[CHOOSE x \in S : \A y \in S : x >= y].at - 1].l,
                          hi |-> cs[new[CHOOSE x \in S : \A y \in S : x >= y].at - 1].h,
                          strength |-> Strategy!Strength(
                            cs[new[CHOOSE x \in S : \A y \in S : x >= y].at - 1], cs,
                            new[CHOOSE x \in S : \A y \in S : x >= y].type),
                          mitigated |-> FALSE])]
           f == CHOOSE g : Adds(g)
           step == [k \in D |-> [t \in T |->
             IF Strategy!KnownBlock(known \cup Strategy!ToSet(t), cs[new[k].at - 1])
             THEN t ELSE Append(t, Born(cs, new[k]))]]
<1>1. n \in Nat /\ DOMAIN new = D /\ \A k \in D : new[k] \in GapsOf(cs)
  BY LenProperties, ElementOfSeq
<1>3. Strategy!NewBlocks(known, new, cs) = f[D]
  BY <1>1 DEF Strategy!NewBlocks, Strategy!FoldLeft, Strategy!MapThenFoldSet, Strategy!Max
<1> HIDE DEF n
<1>4. <<>> \in T /\ step \in [D -> [T -> T]]
  <2>1. \A k \in D : Born(cs, new[k]) \in BornIn(cs)
    BY <1>1 DEF BornIn
  <2>2. \A t \in T : \A k \in D : Append(t, Born(cs, new[k])) \in T
    BY <2>1, AppendProperties
  <2> QED BY <2>2, EmptySeq
<1> HIDE DEF T
<1>5. ASSUME NEW g, g \in [SUBSET (1..n) -> T], FoldsExactly(n, <<>>, step, g)
      PROVE  Adds(g)
  <2>1. \A S \in SUBSET D : S # {} => Highest(S) \in D /\ g[S \ {Highest(S)}] \in T
    BY <1>1, <1>5, HighestIsIn
  <2> QED BY <1>5, <2>1 DEF Highest, FoldsExactly, Born
<1>6. \E g : Adds(g)
  <2> HIDE DEF Adds, step
  <2>1. \E g : g \in [SUBSET (1..n) -> T] /\ FoldsExactly(n, <<>>, step, g)
    BY <1>1, <1>4, FoldLeftExists
  <2> QED BY <2>1, <1>5
<1>7. Adds(f)
  <2> HIDE DEF Adds
  <2> QED BY <1>6
<1>8. FoldsLeft(n, T, <<>>, step, f)
  <2>1. ASSUME NEW S \in SUBSET D, S # {}, f[S \ {Highest(S)}] \in T
        PROVE  f[S] = step[Highest(S)][f[S \ {Highest(S)}]]
    <3>1. Highest(S) \in D
      BY <1>1, <2>1, HighestIsIn
    <3> HIDE DEF f
    <3> QED BY <1>7, <2>1, <3>1 DEF Highest, Born
  <2>2. f[{}] = <<>> /\ f = [S \in SUBSET D |-> f[S]]
    <3> HIDE DEF f
    <3>1. f[{}] = <<>>
      <4>1. {} \in SUBSET D
        OBVIOUS
      <4> QED BY <1>7, <4>1, Zenon
    <3>2. DOMAIN f = SUBSET D /\ f = [S \in DOMAIN f |-> f[S]]
      BY <1>7, Zenon
    <3> QED BY <3>1, <3>2
  <2> HIDE DEF f, Adds, step
  <2> QED BY <2>1, <2>2 DEF FoldsLeft
<1>9. f[D] \in T
  <2> HIDE DEF f, Adds, step
  <2> QED BY <1>1, <1>4, <1>8, FoldStays
<1> QED BY <1>3, <1>9 DEF T

(* Every block has its own candle reach it.                                 *)
LEMMA BornReached ==
  ASSUME NEW cs \in Seq(TapeCandle), NEW b \in BornIn(cs)
  PROVE  Strategy!Mitigated(b, cs).mitigated /\ Strategy!Mitigated(b, cs).type = b.type
<1>1. PICK i \in 2..(Len(cs) - 1) : b = Born(cs, Strategy!GapAt(cs, i))
  BY DEF BornIn, GapsOf
<1>2. Len(cs) \in Nat /\ i - 1 \in 1..Len(cs) /\ DOMAIN cs = 1..Len(cs)
  BY LenProperties
<1>3. cs[i - 1] \in TapeCandle
  BY <1>2, ElementOfSeq
<1>4. cs[i - 1].l \in Nat /\ cs[i - 1].h \in Nat
  BY <1>3 DEF TapeCandle
<1>5. Strategy!GapAt(cs, i).at = i
  BY DEF Strategy!GapAt
<1>6. b.lo = cs[i - 1].l /\ b.hi = cs[i - 1].h
  BY <1>1, <1>5 DEF Born
<1>7. Strategy!Reached(b, cs)
  BY <1>2, <1>4, <1>6 DEF Strategy!Reached
<1>8. b = [type |-> b.type, lo |-> b.lo, hi |-> b.hi, strength |-> b.strength, mitigated |-> b.mitigated]
  BY <1>1 DEF Born
<1> QED BY <1>7, <1>8 DEF Strategy!Mitigated

(* Mitigated blocks neither score nor vote.                                 *)
LEMMA MitigatedSilent ==
  ASSUME NEW n \in Nat, NEW bs, DOMAIN bs = 1..n, \A i \in 1..n : bs[i].mitigated
  PROVE  Strategy!ScoreBlocks(bs) = Strategy!Vote(0, "NEUTRAL")
<1> DEFINE w == [i \in 1..n |-> Strategy!BlockPoints(bs[i])]
<1>1. w \in [1..n -> {0}]
  BY DEF Strategy!BlockPoints
<1>2. IsFiniteSet(1..n)
  BY FS_Interval
<1>3. Strategy!Sum(w) = 0
  <2> HIDE DEF w
  <2> QED BY <1>1, <1>2, VotesNone
<1>4. Strategy!Total(bs, Strategy!BlockPoints) = 0
  BY <1>3 DEF Strategy!Total
<1>5. {i \in DOMAIN bs : (~bs[i].mitigated /\ bs[i].strength >= 7000) /\ bs[i].type \in {"BULLISH", "BEARISH"}} = {}
  OBVIOUS
<1> QED BY <1>4, <1>5 DEF Strategy!ScoreBlocks, Strategy!LastDir, Strategy!AtMost

-----------------------------------------------------------------------------
BlockFields == {"type", "lo", "hi", "strength", "mitigated"}
Spoiled(b) == DOMAIN b = BlockFields /\ (b.type # "BREAKER" => b.mitigated)
LevelsInv ==
  /\ TapeInv /\ Strategy!OnlyFades
  /\ \A b \in blocks : Spoiled(b)
  /\ lsm.votes.block = Strategy!Vote(0, "NEUTRAL")

LEMMA BlocksSpoil ==
  ASSUME NEW b, Spoiled(b), NEW cs
  PROVE  Spoiled(Strategy!Mitigated(b, cs))
  BY DEF Spoiled, BlockFields, Strategy!Mitigated

LEMMA BreakersAre ==
  ASSUME NEW b, DOMAIN b = BlockFields
  PROVE  Spoiled(Strategy!Breaker(b))
  BY DEF Spoiled, BlockFields, Strategy!Breaker

LEMMA CandlesSpoil ==
  ASSUME LevelsInv, NEW c \in TapeCandle, Strategy!Candle(c)
  PROVE  LevelsInv'
<1> DEFINE cs == candles'
           newGaps == Strategy!NewGaps(gaps, cs)
           new == Strategy!NewBlocks(blocks, newGaps, cs)
           marked == [i \in DOMAIN new |-> Strategy!Mitigated(new[i], cs)]
<1>1. TapeInv' /\ candles' = Strategy!Kept(Append(candles, c), WindowSize) /\ candles'[Len(candles')] = c
  BY WindowMoves DEF LevelsInv
<1>2. Strategy!OnlyFades'
  <2>1. plan' = Strategy!PlanOf(Strategy!Alone(highs', lows', equalHighs', equalLows', c), c)
    BY DEF Strategy!Candle
  <2>2. Strategy!Last(candles') = c
    BY <1>1 DEF Strategy!Last
  <2> QED BY <2>1, <2>2, PlansFade DEF Strategy!OnlyFades
<1>3. new \in Seq(BornIn(cs))
  BY <1>1, GapsAreOfWindow, BlocksAreOfWindow DEF TapeInv
<1>4. DOMAIN new = 1..Len(new) /\ Len(new) \in Nat /\ \A i \in DOMAIN new : new[i] \in BornIn(cs)
  <2> HIDE DEF new
  <2> QED BY <1>3, LenProperties, ElementOfSeq
<1>5. \A i \in DOMAIN new : Spoiled(marked[i]) /\ marked[i].mitigated
  <2> HIDE DEF new, cs
  <2>1. \A b \in BornIn(cs) : DOMAIN b = BlockFields /\ Strategy!Mitigated(b, cs).mitigated
    <3>1. \A b \in BornIn(cs) : DOMAIN b = BlockFields
      BY DEF BornIn, Born, BlockFields
    <3> QED BY <1>1, <3>1, BornReached DEF cs, TapeInv
  <2>2. \A b \in BornIn(cs) : DOMAIN Strategy!Mitigated(b, cs) = BlockFields
    BY <2>1 DEF Strategy!Mitigated
  <2> QED BY <1>4, <2>1, <2>2 DEF Spoiled
<1>6. blocks' = {Strategy!Mitigated(b, cs) : b \in blocks} \cup Strategy!ToSet(marked)
         \cup {Strategy!Breaker(b) : b \in {x \in Strategy!ToSet(marked) : Strategy!Broken(x, cs)}}
  BY <1>1 DEF Strategy!Candle
<1>7. ASSUME NEW b \in blocks' PROVE Spoiled(b)
  <2> HIDE DEF marked, cs
  <2>1. DOMAIN marked = DOMAIN new
    BY DEF marked
  <2>2. \A x \in Strategy!ToSet(marked) : Spoiled(x)
    BY <1>5, <2>1 DEF Strategy!ToSet
  <2>3. CASE b \in {Strategy!Mitigated(x, cs) : x \in blocks}
    BY <2>3, BlocksSpoil DEF LevelsInv
  <2>4. CASE b \in Strategy!ToSet(marked)
    BY <2>2, <2>4
  <2>5. CASE b \in {Strategy!Breaker(x) : x \in {y \in Strategy!ToSet(marked) : Strategy!Broken(y, cs)}}
    BY <2>2, <2>5, BreakersAre DEF Spoiled
  <2> QED BY <1>6, <1>7, <2>3, <2>4, <2>5
<1>8. lsm'.votes.block = Strategy!ScoreBlocks(marked)
  BY <1>1 DEF Strategy!Candle, Strategy!Confluence
<1>9. Strategy!ScoreBlocks(marked) = Strategy!Vote(0, "NEUTRAL")
  <2>1. DOMAIN marked = 1..Len(new)
    BY <1>4
  <2> HIDE DEF marked, new
  <2> QED BY <1>4, <1>5, <2>1, MitigatedSilent
<1> QED BY <1>1, <1>2, <1>7, <1>8, <1>9 DEF LevelsInv

LEMMA LevelsStart == Init => LevelsInv
<1> SUFFICES ASSUME Init PROVE LevelsInv
  OBVIOUS
<1>1. Strategy!Init
  BY DEF Init, Strategy!StrategyInit
<1>2. plan = "" /\ blocks = {} /\ lsm = Strategy!Nothing
  BY <1>1 DEF Strategy!Init
<1>3. lsm.votes.block = Strategy!ScoreBlocks(<<>>)
  BY <1>2 DEF Strategy!Nothing, Strategy!Confluence
<1>4. Strategy!ScoreBlocks(<<>>) = Strategy!Vote(0, "NEUTRAL")
  <2>1. 0 \in Nat /\ DOMAIN <<>> = 1..0 /\ \A i \in 1..0 : FALSE
    OBVIOUS
  <2> QED BY <2>1, MitigatedSilent
<1> QED BY <1>2, <1>3, <1>4, TapeStarts DEF LevelsInv, Strategy!OnlyFades

LEMMA LevelsKept == LevelsInv /\ [Next]_vars => LevelsInv'
<1> SUFFICES ASSUME LevelsInv, [Next]_vars PROVE LevelsInv'
  OBVIOUS
<1>1. CASE UNCHANGED strategyVars
  <2>1. UNCHANGED <<time, candles, highs, lows, plan, blocks, lsm>>
    BY <1>1 DEF strategyVars
  <2>2. TapeInv' /\ Strategy!OnlyFades'
    BY <2>1 DEF LevelsInv, TapeInv, Strategy!OnlyFades
  <2> QED BY <2>1, <2>2 DEF LevelsInv
<1>2. ASSUME NEW c \in TapeCandle, Strategy!Replay(c) PROVE LevelsInv'
  BY <1>2, CandlesSpoil DEF Strategy!Replay
<1> QED BY <1>1, <1>2, CandleComes DEF LevelsInv

LEMMA LevelsImply == LevelsInv => Strategy!BornMitigated /\ Strategy!OnlyFades
  BY DEF LevelsInv, Strategy!BornMitigated, Spoiled

(* OrderBlockDetector.analyze and ConfluenceEngine: no order block that is  *)
(* found scores or votes, nor is any but a breaker left unmitigated.        *)
THEOREM BlocksNeverScore == Spec => []Strategy!BornMitigated
  BY LevelsStart, LevelsKept, LevelsImply, PTL DEF Spec

(* ReplayPipelineRunner._generate_plan: shown one candle at a time, the     *)
(* runner plans nothing but to fade the range of the swings.                *)
THEOREM PlansOnlyFade == Spec => []Strategy!OnlyFades
  BY LevelsStart, LevelsKept, LevelsImply, PTL DEF Spec

-----------------------------------------------------------------------------
(* The filters                                                             *)
PoolsOf(price, cs) ==
  {Strategy!Pool("BUY", d, 15, price, cs) : d \in Nat}
    \cup {Strategy!Pool("SELL", d, 15, price, cs) : d \in Nat}

LEMMA PoolsAre ==
  ASSUME NEW cs \in Seq(TapeCandle), NEW price \in Nat, NEW z \in PoolsOf(price, cs)
  PROVE  z.through \in SUBSET (1..Len(cs))
<1>1. DOMAIN cs = 1..Len(cs)
  BY LenProperties
<1>2. \A side, d : Strategy!Pool(side, d, 15, price, cs).through \in SUBSET (DOMAIN cs)
  BY SMT DEF Strategy!Pool
<1> QED BY <1>1, <1>2 DEF PoolsOf

LEMMA LastOnes ==
  ASSUME NEW T, NEW s \in Seq(T), NEW n \in Nat \ {0}
  PROVE  LET k == Strategy!Kept(s, n) IN k \in Seq(T) /\ DOMAIN k = 1..Len(k) /\ Len(k) \in Nat
<1>1. Len(s) \in Nat
  BY LenProperties
<1> DEFINE first == IF Len(s) > n THEN Len(s) - n + 1 ELSE 1
<1>2. Strategy!Kept(s, n) = SubSeq(s, first, Len(s))
  BY DEF Strategy!Kept
<1>3. first \in 1..(Len(s) + 1)
  BY <1>1
<1> HIDE DEF first
<1>4. SubSeq(s, first, Len(s)) \in Seq(T)
  BY <1>1, <1>3, SubSeqProperties
<1> QED BY <1>2, <1>4, LenProperties

LEMMA PoolListIs ==
  ASSUME NEW cs \in Seq(TapeCandle), NEW price \in Nat, NEW hs \in Seq(Nat), NEW ls \in Seq(Nat)
  PROVE  Strategy!Pools(hs, ls, <<>>, <<>>, price, cs) \in Seq(PoolsOf(price, cs))
<1> DEFINE hs3 == Strategy!Kept(hs, 3)
           ls3 == Strategy!Kept(ls, 3)
           none(side) == [i \in DOMAIN <<>> |-> Strategy!Pool(side, <<>>[i], 20, price, cs)]
           above == [i \in DOMAIN hs3 |-> Strategy!Pool("BUY", 2 * hs3[i], 15, price, cs)]
           below == [i \in DOMAIN ls3 |-> Strategy!Pool("SELL", 2 * ls3[i], 15, price, cs)]
<1>1. Strategy!Pools(hs, ls, <<>>, <<>>, price, cs) = ((none("BUY") \o above) \o none("SELL")) \o below
  BY DEF Strategy!Pools
<1>2. \A side : none(side) = <<>>
  OBVIOUS
<1>3. above \in Seq(PoolsOf(price, cs))
  <2>1. DOMAIN hs3 = 1..Len(hs3) /\ Len(hs3) \in Nat /\ \A i \in 1..Len(hs3) : hs3[i] \in Nat /\ 2 * hs3[i] \in Nat
    BY LastOnes, ElementOfSeq
  <2>2. \A i \in DOMAIN hs3 : Strategy!Pool("BUY", 2 * hs3[i], 15, price, cs) \in PoolsOf(price, cs)
    BY <2>1 DEF PoolsOf
  <2> HIDE DEF hs3
  <2> QED BY <2>1, <2>2
<1>4. below \in Seq(PoolsOf(price, cs))
  <2>1. DOMAIN ls3 = 1..Len(ls3) /\ Len(ls3) \in Nat /\ \A i \in 1..Len(ls3) : ls3[i] \in Nat /\ 2 * ls3[i] \in Nat
    BY LastOnes, ElementOfSeq
  <2>2. \A i \in DOMAIN ls3 : Strategy!Pool("SELL", 2 * ls3[i], 15, price, cs) \in PoolsOf(price, cs)
    BY <2>1 DEF PoolsOf
  <2> HIDE DEF ls3
  <2> QED BY <2>1, <2>2
<1> HIDE DEF none, above, below
<1>5. <<>> \in Seq(PoolsOf(price, cs))
  BY EmptySeq
<1>6. (<<>> \o above) \in Seq(PoolsOf(price, cs))
  BY <1>3, <1>5, ConcatProperties
<1>7. ((<<>> \o above) \o <<>>) \in Seq(PoolsOf(price, cs))
  BY <1>5, <1>6, ConcatProperties
<1>8. (((<<>> \o above) \o <<>>) \o below) \in Seq(PoolsOf(price, cs))
  BY <1>4, <1>7, ConcatProperties
<1> QED BY <1>1, <1>2, <1>8

SweepsOf(price, cs) == {Strategy!SweepOf(z, cs) : z \in {x \in PoolsOf(price, cs) : x.through # {}}}
LEMMA SweptAreOfWindow ==
  ASSUME NEW cs \in Seq(TapeCandle), NEW known, NEW price \in Nat, NEW pools \in Seq(PoolsOf(price, cs))
  PROVE  Strategy!Swept(known, pools, cs) \subseteq SweepsOf(price, cs)
<1> DEFINE n == Len(pools)
           D == 1..n
           T == SUBSET SweepsOf(price, cs)
           Adds(g) == g = [S \in SUBSET D |->
             IF S = {} THEN {}
             ELSE IF /\ pools[CHOOSE x \in S : \A y \in S : x >= y].beyond
                     /\ Strategy!IsSwept(pools[CHOOSE x \in S : \A y \in S : x >= y])
                     /\ ~Strategy!Recorded(known \cup g[S \ {CHOOSE x \in S : \A y \in S : x >= y}],
                                           pools[CHOOSE x \in S : \A y \in S : x >= y])
                  THEN g[S \ {CHOOSE x \in S : \A y \in S : x >= y}]
                         \cup {Strategy!SweepOf(pools[CHOOSE x \in S : \A y \in S : x >= y], cs)}
                  ELSE g[S \ {CHOOSE x \in S : \A y \in S : x >= y}]]
           f == CHOOSE g : Adds(g)
           step == [k \in D |-> [t \in T |->
             IF pools[k].beyond /\ Strategy!IsSwept(pools[k]) /\ ~Strategy!Recorded(known \cup t, pools[k])
             THEN t \cup {Strategy!SweepOf(pools[k], cs)} ELSE t]]
<1>1. n \in Nat /\ DOMAIN pools = D /\ \A k \in D : pools[k] \in PoolsOf(price, cs)
  BY LenProperties, ElementOfSeq
<1>3. Strategy!Swept(known, pools, cs) = f[D]
  BY <1>1 DEF Strategy!Swept, Strategy!FoldLeft, Strategy!MapThenFoldSet, Strategy!Max
<1> HIDE DEF n
<1>4. {} \in T /\ step \in [D -> [T -> T]]
  <2>1. \A k \in D : Strategy!IsSwept(pools[k]) => Strategy!SweepOf(pools[k], cs) \in SweepsOf(price, cs)
    BY <1>1 DEF SweepsOf, Strategy!IsSwept
  <2> QED BY <2>1
<1> HIDE DEF T
<1>5. ASSUME NEW g, g \in [SUBSET (1..n) -> T], FoldsExactly(n, {}, step, g)
      PROVE  Adds(g)
  <2>1. \A S \in SUBSET D : S # {} => Highest(S) \in D /\ g[S \ {Highest(S)}] \in T
    BY <1>1, <1>5, HighestIsIn
  <2> QED BY <1>5, <2>1 DEF Highest, FoldsExactly
<1>6. \E g : Adds(g)
  <2> HIDE DEF Adds, step
  <2>1. \E g : g \in [SUBSET (1..n) -> T] /\ FoldsExactly(n, {}, step, g)
    BY <1>1, <1>4, FoldLeftExists
  <2> QED BY <2>1, <1>5
<1>7. Adds(f)
  <2> HIDE DEF Adds
  <2> QED BY <1>6
<1>8. FoldsLeft(n, T, {}, step, f)
  <2>1. ASSUME NEW S \in SUBSET D, S # {}, f[S \ {Highest(S)}] \in T
        PROVE  f[S] = step[Highest(S)][f[S \ {Highest(S)}]]
    <3>1. Highest(S) \in D
      BY <1>1, <2>1, HighestIsIn
    <3> HIDE DEF f
    <3> QED BY <1>7, <2>1, <3>1 DEF Highest
  <2>2. f[{}] = {} /\ f = [S \in SUBSET D |-> f[S]]
    <3> HIDE DEF f
    <3>1. f[{}] = {}
      <4>1. {} \in SUBSET D
        OBVIOUS
      <4> QED BY <1>7, <4>1, Zenon
    <3>2. DOMAIN f = SUBSET D /\ f = [S \in DOMAIN f |-> f[S]]
      BY <1>7, Zenon
    <3> QED BY <3>1, <3>2
  <2> HIDE DEF f, Adds, step
  <2> QED BY <2>1, <2>2 DEF FoldsLeft
<1>9. f[D] \in T
  <2> HIDE DEF f, Adds, step
  <2> QED BY <1>1, <1>4, <1>8, FoldStays
<1> QED BY <1>3, <1>9 DEF T

LEMMA LowestIs ==
  ASSUME NEW n \in Nat, NEW S \in SUBSET (1..n), S # {}
  PROVE  Strategy!Min(S) \in 1..n
<1>1. S \subseteq Nat
  OBVIOUS
<1>2. PICK x \in S : \A y \in S : x <= y
  BY <1>1, LeastNumber
<1> QED BY <1>2 DEF Strategy!Min

(* A sweep has its place in the window.                                     *)
LEMMA SweepsHavePlaces ==
  ASSUME NEW cs \in Seq(TapeCandle), Len(cs) \in 1..WindowSize, NEW known, NEW price \in Nat,
         NEW pools \in Seq(PoolsOf(price, cs)),
         NEW s \in Strategy!NewSweeps(known, pools, cs)
  PROVE  s.at \in 0..(WindowSize - 1)
<1>1. ASSUME NEW z \in {x \in PoolsOf(price, cs) : x.through # {}}
      PROVE  Strategy!SweepOf(z, cs).at \in 0..(WindowSize - 1)
  <2>1. z.through \in SUBSET (1..Len(cs)) /\ z.through # {}
    BY PoolsAre
  <2>2. Strategy!Min(z.through) \in 1..Len(cs)
    BY <2>1, LowestIs
  <2>3. Strategy!SweepOf(z, cs).at = Strategy!Min(z.through) - 1
    BY DEF Strategy!SweepOf
  <2> QED BY <2>2, <2>3, TapeLimits
<1>2. \A z : Strategy!FailedSweep(z).at = 0
  BY DEF Strategy!FailedSweep
<1>3. s \in Strategy!Swept(known, pools, cs) \/ \E z : s = Strategy!FailedSweep(z)
  BY DEF Strategy!NewSweeps
<1> QED BY <1>1, <1>2, <1>3, SweptAreOfWindow, TapeLimits DEF SweepsOf

-----------------------------------------------------------------------------
(* What the parts score                                                    *)
LEMMA FiniteCounts ==
  ASSUME NEW n \in Nat, NEW S \in SUBSET (1..n)
  PROVE  Strategy!Cardinality(S) \in Nat
<1>a. IsFiniteSet(1..n)
  BY FS_Interval
<1>b. IsFiniteSet(S)
  BY <1>a, FS_Subset
<1>1. Cardinality(S) \in Nat
  BY <1>b, FS_CardinalityType
<1>2. Strategy!Cardinality(S) = Cardinality(S)
  BY DEF Strategy!Cardinality, Cardinality
<1> QED BY <1>1, <1>2

LEMMA LiquidityScores ==
  ASSUME NEW T, NEW pools \in Seq(T), NEW sws
  PROVE  Strategy!ScoreLiquidity(pools, sws).score \in Nat
<1> DEFINE strong == {i \in DOMAIN pools :
             pools[i].beyond /\ ~Strategy!IsSwept(pools[i]) /\ pools[i].strength >= 15}
           back == {s.side : s \in {x \in sws : x.reclaimed}}
<1>1. Strategy!Cardinality(strong) \in Nat
  <2>1. Len(pools) \in Nat /\ DOMAIN pools = 1..Len(pools)
    BY LenProperties
  <2>2. strong \in SUBSET (1..Len(pools))
    BY <2>1
  <2> HIDE DEF strong
  <2> QED BY <2>1, <2>2, FiniteCounts
<1>2. Strategy!ScoreLiquidity(pools, sws).score
        = (IF back = {} THEN 0 ELSE 25) + Strategy!AtMost(5 * Strategy!Cardinality(strong), 15)
  BY DEF Strategy!ScoreLiquidity, Strategy!Vote
<1> HIDE DEF strong, back
<1> QED BY <1>1, <1>2 DEF Strategy!AtMost

AllEvents ==
  [kind : {"BOS", "CHOCH", "MSS", "TREND", "FAILURE", "RANGE", "COMPRESSION"},
   dir : {"BULLISH", "BEARISH", "NEUTRAL"}]
LEMMA EventsAre ==
  ASSUME NEW hs, NEW ls, NEW cs
  PROVE  Strategy!Structure(hs, ls, cs) \in Seq(AllEvents)
<1>1. <<>> \in Seq(AllEvents)
  BY EmptySeq
<1>2. ASSUME NEW test, NEW kind \in {"BOS", "CHOCH", "MSS", "TREND", "FAILURE", "RANGE", "COMPRESSION"},
             NEW dir \in {"BULLISH", "BEARISH", "NEUTRAL"}
      PROVE  Strategy!When(test, kind, dir) \in Seq(AllEvents)
  <2>1. << [kind |-> kind, dir |-> dir] >> \in Seq(AllEvents)
    BY DEF AllEvents
  <2> QED BY <1>1, <2>1 DEF Strategy!When
<1>3. ASSUME NEW s \in Seq(AllEvents), NEW test,
             NEW kind \in {"BOS", "CHOCH", "MSS", "TREND", "FAILURE", "RANGE", "COMPRESSION"},
             NEW dir \in {"BULLISH", "BEARISH", "NEUTRAL"}
      PROVE  (s \o Strategy!When(test, kind, dir)) \in Seq(AllEvents)
  BY <1>2, ConcatProperties
<1> HIDE DEF AllEvents
<1> QED BY <1>1, <1>2, <1>3 DEF Strategy!Structure

LEMMA StructureScores ==
  ASSUME NEW events \in Seq(AllEvents)
  PROVE  Strategy!ScoreStructure(events).score \in Nat
<1> DEFINE recent == Strategy!Kept(events, 5)
           w == [i \in DOMAIN recent |-> Strategy!EventPoints(recent[i])]
<1>1. DOMAIN recent = 1..Len(recent) /\ Len(recent) \in Nat
  BY LastOnes
<1>2. \A e : Strategy!EventPoints(e) \in Nat
  BY DEF Strategy!EventPoints
<1> HIDE DEF recent
<1>3. w \in [1..Len(recent) -> Nat]
  BY <1>1, <1>2
<1> HIDE DEF w
<1>4. Strategy!Sum(w) \in Nat
  BY <1>1, <1>3, TotalNat
<1> QED BY <1>4 DEF Strategy!ScoreStructure, Strategy!Total, Strategy!Vote, w, recent

LEMMA GapsScore ==
  ASSUME NEW n \in Nat, NEW gs, DOMAIN gs = 1..n
  PROVE  Strategy!ScoreGaps(gs).score \in Nat
<1> DEFINE w == [i \in DOMAIN gs |-> Strategy!GapPoints(gs[i])]
<1>1. \A g : Strategy!GapPoints(g) \in Nat
  BY DEF Strategy!GapPoints
<1>2. w \in [1..n -> Nat]
  BY <1>1
<1>3. Strategy!Sum(w) \in Nat
  <2> HIDE DEF w
  <2> QED BY <1>2, TotalNat
<1>4. Strategy!ScoreGaps(gs).score = Strategy!AtMost(Strategy!Sum(w), 30)
  BY DEF Strategy!ScoreGaps, Strategy!Total, Strategy!Vote
<1> HIDE DEF w
<1> QED BY <1>3, <1>4 DEF Strategy!AtMost

LEMMA DisplacementScores ==
  ASSUME NEW cs
  PROVE  Strategy!ScoreDisplacement(Strategy!Displacement(cs)).score \in Nat
<1> DEFINE ds == Strategy!Displacement(cs)
<1>1. \E x : ds = <<>> \/ ds = <<x>>
  BY DEF Strategy!Displacement
<1> HIDE DEF ds
<1>2. \E T : ds \in Seq(T)
  <2>1. PICK x : ds = <<>> \/ ds = <<x>>
    BY <1>1
  <2>2. <<>> \in Seq({x}) /\ <<x>> \in Seq({x})
    OBVIOUS
  <2> QED BY <2>1, <2>2
<1>3. DOMAIN Strategy!Kept(ds, 3) = 1..Len(Strategy!Kept(ds, 3)) /\ Len(Strategy!Kept(ds, 3)) \in Nat
  BY <1>2, LastOnes
<1>4. Strategy!Displaced(ds) \in SUBSET (1..Len(Strategy!Kept(ds, 3)))
  BY <1>3 DEF Strategy!Displaced
<1>5. Strategy!Cardinality(Strategy!Displaced(ds)) \in Nat
  BY <1>3, <1>4, FiniteCounts
<1>6. Strategy!ScoreDisplacement(ds).score = Strategy!AtMost(15 * Strategy!Cardinality(Strategy!Displaced(ds)), 20)
  BY DEF Strategy!ScoreDisplacement, Strategy!Vote
<1> QED BY <1>5, <1>6 DEF Strategy!AtMost, ds

(* Votes with scores weigh something, and so do all of them.                *)
LEMMA WeighedNat ==
  ASSUME NEW votes, DOMAIN votes = Parts, \A k \in Parts : votes[k].score \in Nat, NEW dir
  PROVE  Strategy!Weighed(votes, dir) \in Nat
<1> DEFINE w == [k \in DOMAIN votes |->
                   IF votes[k].dir = dir THEN Strategy!Weight[k] * (100 + votes[k].score) ELSE 0]
<1>1. Strategy!Weighed(votes, dir) = Strategy!Sum(w)
  BY DEF Strategy!Weighed
<1>2. \A k \in Parts : Strategy!Weight[k] \in {2, 3}
  BY DEF Parts, Strategy!Weight
<1>3. ASSUME NEW k \in Parts PROVE w[k] \in Nat
  <2>1. Strategy!Weight[k] * (100 + votes[k].score) \in Nat
    <3>1. 2 * (100 + votes[k].score) \in Nat /\ 3 * (100 + votes[k].score) \in Nat
      OBVIOUS
    <3> QED BY <1>2, <3>1
  <2> QED BY <2>1
<1>4. w \in [Parts -> Nat]
  BY <1>3
<1> HIDE DEF w
<1> QED BY <1>1, <1>4, PartsAreSix, VotesNat

LEMMA ScoreNat ==
  ASSUME NEW votes, DOMAIN votes = Parts, \A k \in Parts : votes[k].score \in Nat
  PROVE  Strategy!AtMost(Strategy!Sum([k \in DOMAIN votes |-> votes[k].score]), 100) \in Nat
<1> DEFINE w == [k \in DOMAIN votes |-> votes[k].score]
<1>1. w \in [Parts -> Nat]
  OBVIOUS
<1> HIDE DEF w
<1>2. Strategy!Sum(w) \in Nat
  BY <1>1, PartsAreSix, VotesNat
<1> QED BY <1>2 DEF Strategy!AtMost, w

(* What a candle finds.                                                     *)
CandleFound(c) ==
  /\ \A s \in found.sweeps : s.at \in 0..(WindowSize - 1)
  /\ \A i \in DOMAIN found.gaps : found.gaps[i].at \in 2..WindowSize
  /\ \E pools : lsm.votes.liquidity = Strategy!ScoreLiquidity(pools, found.sweeps)
  /\ DOMAIN lsm.votes = Parts /\ \A k \in Parts : lsm.votes[k].score \in Nat
  /\ lsm.score \in Nat
  /\ lsm.bias = Strategy!Bias(Strategy!Weighed(lsm.votes, "LONG"), Strategy!Weighed(lsm.votes, "SHORT"))

LEMMA CandlesFind ==
  ASSUME TapeInv, NEW c \in TapeCandle, Strategy!Candle(c)
  PROVE  CandleFound(c)'
<1> DEFINE cs == candles'
           pools == Strategy!Pools(highs', lows', <<>>, <<>>, c.c, cs)
           swept == Strategy!NewSweeps(sweeps, pools, cs)
           newGaps == Strategy!NewGaps(gaps, cs)
           aged == [i \in DOMAIN newGaps |-> Strategy!Fate(newGaps[i], cs)]
           newBlocks == Strategy!NewBlocks(blocks, newGaps, cs)
           marked == [i \in DOMAIN newBlocks |-> Strategy!Mitigated(newBlocks[i], cs)]
           events == Strategy!Structure(highs', lows', cs)
           zone == Strategy!PriceZone(highs', lows', c.c)
           moves == Strategy!Displacement(cs)
           votes == [liquidity |-> Strategy!ScoreLiquidity(pools, swept), structure |-> Strategy!ScoreStructure(events),
                     gap |-> Strategy!ScoreGaps(aged), block |-> Strategy!ScoreBlocks(marked),
                     zone |-> Strategy!ScoreZone(zone), displacement |-> Strategy!ScoreDisplacement(moves)]
<1>1. TapeInv' /\ candles' = Strategy!Kept(Append(candles, c), WindowSize) /\ Len(cs) \in 1..WindowSize
  BY WindowMoves
<1>2. found' = [sweeps |-> swept, events |-> events, gaps |-> aged, blocks |-> marked]
  BY <1>1 DEF Strategy!Candle
<1>3. lsm' = Strategy!Confluence(pools, swept, found'.events, aged, marked, zone, moves)
  BY <1>1 DEF Strategy!Candle
<1>4. found'.events = events /\ found'.sweeps = swept /\ found'.gaps = aged
  BY <1>2
<1> HIDE DEF events, swept, aged, marked, zone, moves, pools
<1>5. /\ lsm'.votes = votes
      /\ lsm'.score = Strategy!AtMost(Strategy!Sum([k \in DOMAIN votes |-> votes[k].score]), 100)
      /\ lsm'.bias = Strategy!Bias(Strategy!Weighed(votes, "LONG"), Strategy!Weighed(votes, "SHORT"))
  BY <1>3, <1>4 DEF Strategy!Confluence
<1>6. /\ DOMAIN votes = Parts
      /\ votes.liquidity = Strategy!ScoreLiquidity(pools, swept) /\ votes.structure = Strategy!ScoreStructure(events)
      /\ votes.gap = Strategy!ScoreGaps(aged) /\ votes.block = Strategy!ScoreBlocks(marked)
      /\ votes.zone = Strategy!ScoreZone(zone) /\ votes.displacement = Strategy!ScoreDisplacement(moves)
  BY DEF Parts
<1> HIDE DEF votes, cs
<1>7. c.c \in Nat
  BY DEF TapeCandle
<1>8. pools \in Seq(PoolsOf(c.c, cs)) /\ cs \in Seq(TapeCandle)
  BY <1>1, <1>7, PoolListIs DEF TapeInv, cs, pools
<1>9. newGaps \in Seq(GapsOf(cs))
  BY <1>8, GapsAreOfWindow
<1> HIDE DEF newGaps
<1>10. DOMAIN newGaps = 1..Len(newGaps) /\ Len(newGaps) \in Nat
       /\ \A i \in DOMAIN newGaps : newGaps[i] \in GapsOf(cs)
  BY <1>9, LenProperties, ElementOfSeq
<1>11. ASSUME NEW i \in DOMAIN aged PROVE aged[i].at \in 2..WindowSize
  <2>1. i \in DOMAIN newGaps /\ aged[i] = Strategy!Fate(newGaps[i], cs)
    BY DEF aged
  <2>2. PICK k \in 2..(Len(cs) - 1) : newGaps[i] = Strategy!GapAt(cs, k)
    BY <1>10, <2>1 DEF GapsOf
  <2>3. newGaps[i].at = k
    BY <2>2 DEF Strategy!GapAt
  <2>4. aged[i].at = k
    BY <2>1, <2>3 DEF Strategy!Fate
  <2>5. Len(cs) \in 1..WindowSize /\ WindowSize \in Nat
    BY <1>1, TapeLimits DEF cs
  <2> QED BY <2>4, <2>5
<1>12. \A s \in swept : s.at \in 0..(WindowSize - 1)
  BY <1>1, <1>7, <1>8, SweepsHavePlaces DEF swept, cs
<1>13. ASSUME NEW k \in Parts PROVE votes[k].score \in Nat
  <2>1. votes.liquidity.score \in Nat
    BY <1>6, <1>8, LiquidityScores
  <2>2. votes.structure.score \in Nat
    BY <1>6, EventsAre, StructureScores DEF events
  <2>3. votes.gap.score \in Nat
    <3>1. DOMAIN aged = 1..Len(newGaps)
      BY <1>10 DEF aged
    <3> QED BY <1>6, <1>10, <3>1, GapsScore
  <2>4. votes.block.score \in Nat
    <3>1. newBlocks \in Seq(BornIn(cs))
      BY <1>8, <1>9, BlocksAreOfWindow
    <3> HIDE DEF newBlocks
    <3>2. DOMAIN newBlocks = 1..Len(newBlocks) /\ Len(newBlocks) \in Nat
          /\ \A i \in DOMAIN newBlocks : newBlocks[i] \in BornIn(cs)
      BY <3>1, LenProperties, ElementOfSeq
    <3>3. DOMAIN marked = 1..Len(newBlocks)
      BY <3>2 DEF marked
    <3>4. \A i \in 1..Len(newBlocks) : marked[i].mitigated
      BY <1>8, <3>2, BornReached DEF marked
    <3>5. Strategy!ScoreBlocks(marked) = Strategy!Vote(0, "NEUTRAL")
      BY <3>2, <3>3, <3>4, MitigatedSilent
    <3> QED BY <1>6, <3>5 DEF Strategy!Vote
  <2>5. votes.zone.score \in Nat
    BY <1>6 DEF Strategy!ScoreZone, Strategy!Vote
  <2>6. votes.displacement.score \in Nat
    BY <1>6, DisplacementScores DEF moves
  <2> QED BY <2>1, <2>2, <2>3, <2>4, <2>5, <2>6 DEF Parts
<1>14. lsm'.score \in Nat
  BY <1>5, <1>6, <1>13, ScoreNat
<1>15. lsm'.votes.liquidity = Strategy!ScoreLiquidity(pools, found'.sweeps)
  BY <1>4, <1>5, <1>6
<1>16. \A s \in found'.sweeps : s.at \in 0..(WindowSize - 1)
  BY <1>4, <1>12
<1>17. \A i \in DOMAIN found'.gaps : found'.gaps[i].at \in 2..WindowSize
  BY <1>4, <1>11
<1>18. DOMAIN lsm'.votes = Parts /\ \A k \in Parts : lsm'.votes[k].score \in Nat
  BY <1>5, <1>6, <1>13
<1>19. lsm'.bias = Strategy!Bias(Strategy!Weighed(lsm'.votes, "LONG"), Strategy!Weighed(lsm'.votes, "SHORT"))
  BY <1>5
<1> QED BY <1>14, <1>15, <1>16, <1>17, <1>18, <1>19 DEF CandleFound

LEMMA ReclaimOpposes ==
  ASSUME NEW pools, NEW sws, NEW n, NEW dir, dir # "NEUTRAL",
         dir = Strategy!ScoreLiquidity(pools, sws).dir
  PROVE  Strategy!SweepFilter(sws, n, dir).score # 900
<1> DEFINE back == {s.side : s \in {x \in sws : x.reclaimed}}
           recent == {s \in sws : Strategy!IsFresh(s.at, n, FreshSweep)}
           matching == {s \in recent : s.side = Strategy!Wanted(dir)}
<1>1. dir = CASE back = {"BUY"} -> "SHORT" [] back = {"SELL"} -> "LONG" [] OTHER -> "NEUTRAL"
  BY DEF Strategy!ScoreLiquidity, Strategy!Vote
<1>2. \A s \in matching : ~s.reclaimed
  <2>1. (back = {"BUY"} /\ dir = "SHORT") \/ (back = {"SELL"} /\ dir = "LONG")
    <3>1. ~(back = {"BUY"} /\ back = {"SELL"})
      <4>1. "BUY" \in {"BUY"} /\ "BUY" \notin {"SELL"}
        OBVIOUS
      <4> HIDE DEF back
      <4> QED BY <4>1
    <3> HIDE DEF back
    <3> QED BY <1>1, <3>1
  <2>2. \A s \in matching : s.reclaimed => Strategy!Wanted(dir) \in back
    OBVIOUS
  <2> HIDE DEF back, matching
  <2> QED BY <2>1, <2>2 DEF Strategy!Wanted
<1>3. Strategy!SweepFilter(sws, n, dir).score
        = IF sws = {} THEN 500 ELSE IF recent = {} THEN 500 ELSE IF matching = {} THEN 300
          ELSE IF \E s \in matching : s.reclaimed THEN 900 ELSE 700
  BY DEF Strategy!SweepFilter, Strategy!Unavailable, Strategy!Result
<1> HIDE DEF matching, recent
<1> QED BY <1>2, <1>3

LEMMA RecencyFades ==
  ASSUME NEW n \in Nat, NEW dir, NEW sws, \A s \in sws : s.at \in 0..(WindowSize - 1),
         NEW gs, \A i \in DOMAIN gs : gs[i].at \in 2..WindowSize
  PROVE  /\ n >= WindowSize + FreshSweep => Strategy!SweepFilter(sws, n, dir).score = 500
         /\ n >= WindowSize + FreshGap => Strategy!GapFilter(gs, n, dir).score # 800
<1>1. ASSUME n >= WindowSize + FreshSweep PROVE Strategy!SweepFilter(sws, n, dir).score = 500
  <2>1. \A s \in sws : ~Strategy!IsFresh(s.at, n, FreshSweep)
    BY <1>1, TapeLimits DEF Strategy!IsFresh
  <2>2. {s \in sws : Strategy!IsFresh(s.at, n, FreshSweep)} = {}
    BY <2>1
  <2> QED BY <2>2 DEF Strategy!SweepFilter, Strategy!Unavailable, Strategy!Result
<1>2. ASSUME n >= WindowSize + FreshGap PROVE Strategy!GapFilter(gs, n, dir).score # 800
  <2>1. \A i \in DOMAIN gs : ~Strategy!IsFresh(gs[i].at - 1, n, FreshGap)
    BY <1>2, TapeLimits DEF Strategy!IsFresh
  <2> QED BY <2>1 DEF Strategy!GapFilter, Strategy!Unavailable, Strategy!Result
<1> QED BY <1>1, <1>2

LEMMA BiasIsClear ==
  ASSUME NEW l, l.bias # "NEUTRAL",
         l.bias = Strategy!Bias(Strategy!Weighed(l.votes, "LONG"), Strategy!Weighed(l.votes, "SHORT")),
         \A dir : Strategy!Weighed(l.votes, dir) \in Nat
  PROVE  Strategy!DirectionalConfidence(l) >= 70
<1> DEFINE long == Strategy!Weighed(l.votes, "LONG")
           short == Strategy!Weighed(l.votes, "SHORT")
<1>1. long \in Nat /\ short \in Nat
  OBVIOUS
<1>2. \/ l.bias = "LONG" /\ long > short /\ 5 * (long - short) > 2 * (long + short)
      \/ l.bias = "SHORT" /\ short > long /\ 5 * (short - long) > 2 * (long + short)
  BY DEF Strategy!Bias
<1>3. PICK part \in Nat :
        /\ part = Strategy!Weighed(l.votes, l.bias)
        /\ long + short > 0 /\ 10 * part >= 7 * (long + short)
  BY <1>1, <1>2
<1> DEFINE all == long + short
<1>4. Strategy!DirectionalConfidence(l) = Strategy!Rounded(100 * part, all)
  BY <1>1, <1>3 DEF Strategy!DirectionalConfidence, Strategy!Share
<1>5. all \in Nat /\ all > 0 /\ 10 * part >= 7 * all
  BY <1>1, <1>3
<1> HIDE DEF all
<1>6. (2 * (100 * part) + all) \div (2 * all) >= 70
  <2> DEFINE top == 2 * (100 * part) + all
             below == 2 * all
  <2>1. top \in Nat /\ below \in Nat /\ below > 0 /\ top >= 70 * below
    BY <1>5, SMT
  <2> HIDE DEF top, below
  <2>2. top \div below >= 70
    BY <2>1, SMT
  <2> QED BY <2>2 DEF top, below
<1> QED BY <1>4, <1>6 DEF Strategy!Rounded

LEMMA Judged ==
  ASSUME NEW h, NEW data, NEW l, NEW at, NEW dir, dir # "NEUTRAL", Len(h) \in Nat, l.score \in Nat,
         Strategy!DirectionalConfidence(l) >= 70, Strategy!DirectionalConfidence(l) \in Int,
         NEW k, k = Strategy!Evaluate(h, data, l, at, dir)
  PROVE  /\ k.dir = dir
         /\ k.filters.sweep = Strategy!SweepFilter(data.sweeps, Len(h), dir)
         /\ k.filters.gap = Strategy!GapFilter(data.gaps, Len(h), dir)
         /\ k.gate # "directional_confidence" /\ (k.gate = "none" => l.score >= 60)
<1> DEFINE rr == Strategy!Last(h).h > Strategy!Last(h).l
<1>1. k.dir = dir /\ k.filters = Strategy!Filters(h, data, at, dir)
      /\ k.gate \in {"not_approved", Strategy!Objection(l, rr)}
  BY DEF Strategy!Evaluate
<1>2. Strategy!Filters(h, data, at, dir).sweep = Strategy!SweepFilter(data.sweeps, Len(h), dir)
      /\ Strategy!Filters(h, data, at, dir).gap = Strategy!GapFilter(data.gaps, Len(h), dir)
  BY DEF Strategy!Filters
<1> HIDE DEF rr
<1>3. Strategy!Objection(l, rr) # "directional_confidence"
  BY DEF Strategy!Objection
<1>4. Strategy!Objection(l, rr) = "none" => ~(Strategy!RiskScore(l) > 40)
  BY DEF Strategy!Objection
<1>5. ~(Strategy!RiskScore(l) > 40) => l.score >= 60
  BY DEF Strategy!RiskScore
<1> QED BY <1>1, <1>2, <1>3, <1>4, <1>5

FiltersInv ==
  /\ TapeInv /\ Len(history) \in Nat /\ history \in Seq(TapeCandle)
  /\ Strategy!ReclaimNeverConfirms /\ Strategy!RecencyEnds /\ Strategy!ThresholdsIdle

LEMMA FiltersStart == Init => FiltersInv
<1> SUFFICES ASSUME Init PROVE FiltersInv
  OBVIOUS
<1>1. candidate = Strategy!NoCandidate /\ history = <<>>
  BY DEF Init, Strategy!StrategyInit
<1>2. candidate.dir = "NEUTRAL" /\ candidate.gate = "none"
  BY <1>1 DEF Strategy!NoCandidate
<1>3. Len(history) \in Nat /\ history \in Seq(TapeCandle)
  BY <1>1, EmptySeq, LenProperties
<1> QED BY <1>2, <1>3, TapeStarts
    DEF FiltersInv, Strategy!ReclaimNeverConfirms, Strategy!RecencyEnds, Strategy!ThresholdsIdle, Strategy!Evaluated

LEMMA ReplayJudges ==
  ASSUME FiltersInv, NEW c \in TapeCandle, Strategy!Replay(c)
  PROVE  FiltersInv'
<1>1. TapeInv /\ Strategy!Candle(c) /\ history' = Append(history, c)
  BY DEF FiltersInv, Strategy!Replay
<1>2. TapeInv' /\ CandleFound(c)'
  BY <1>1, WindowMoves, CandlesFind
<1>3. history' \in Seq(TapeCandle) /\ Len(history') \in Nat
  BY <1>1, AppendProperties, LenProperties DEF FiltersInv
<1>4. PICK dir : \/ candidate' = Strategy!NoCandidate
                 \/ /\ dir # "NEUTRAL" /\ lsm'.bias # "NEUTRAL"
                    /\ candidate' = Strategy!Evaluate(history', found', lsm', Clock[time'], dir)
  <2> DEFINE d == IF invert THEN Strategy!Opposite(lsm'.bias) ELSE lsm'.bias
  <2>1. candidate' = IF time < TapeWarmup \/ d = "NEUTRAL" THEN Strategy!NoCandidate
                     ELSE Strategy!Evaluate(history', found', lsm', Clock[time'], d)
    BY DEF Strategy!Replay
  <2>2. lsm'.bias = "NEUTRAL" => d = "NEUTRAL"
    BY DEF Strategy!Opposite
  <2> HIDE DEF d
  <2> QED BY <2>1, <2>2
<1>5. CASE candidate' = Strategy!NoCandidate
  <2>1. candidate'.dir = "NEUTRAL" /\ candidate'.gate = "none"
    BY <1>5 DEF Strategy!NoCandidate
  <2> QED BY <1>2, <1>3, <2>1
      DEF FiltersInv, Strategy!ReclaimNeverConfirms, Strategy!RecencyEnds, Strategy!ThresholdsIdle, Strategy!Evaluated
<1>6. CASE /\ dir # "NEUTRAL" /\ lsm'.bias # "NEUTRAL"
           /\ candidate' = Strategy!Evaluate(history', found', lsm', Clock[time'], dir)
  <2>1. \A d : Strategy!Weighed(lsm'.votes, d) \in Nat
    BY <1>2, WeighedNat DEF CandleFound
  <2>2. Strategy!DirectionalConfidence(lsm') >= 70
    BY <1>2, <1>6, <2>1, BiasIsClear DEF CandleFound
  <2>3. Strategy!DirectionalConfidence(lsm') \in Int
    BY <2>1 DEF Strategy!DirectionalConfidence, Strategy!Share, Strategy!Rounded
  <2>4. lsm'.score \in Nat
    BY <1>2 DEF CandleFound
  <2>5. /\ candidate'.dir = dir
        /\ candidate'.filters.sweep = Strategy!SweepFilter(found'.sweeps, Len(history'), dir)
        /\ candidate'.filters.gap = Strategy!GapFilter(found'.gaps, Len(history'), dir)
        /\ candidate'.gate # "directional_confidence"
        /\ (candidate'.gate = "none" => lsm'.score >= 60)
    BY <1>3, <1>6, <2>2, <2>3, <2>4, Judged
  <2>6. dir = lsm'.votes.liquidity.dir => candidate'.filters.sweep.score # 900
    <3>1. PICK pools : lsm'.votes.liquidity = Strategy!ScoreLiquidity(pools, found'.sweeps)
      BY <1>2 DEF CandleFound
    <3> QED BY <1>6, <2>5, <3>1, ReclaimOpposes
  <2>7. /\ Len(history') >= WindowSize + FreshSweep => candidate'.filters.sweep.score = 500
        /\ Len(history') >= WindowSize + FreshGap => candidate'.filters.gap.score # 800
    BY <1>2, <1>3, <2>5, RecencyFades DEF CandleFound
  <2>8. Strategy!ReclaimNeverConfirms' /\ Strategy!RecencyEnds' /\ Strategy!ThresholdsIdle'
    BY <2>2, <2>5, <2>6, <2>7
    DEF Strategy!ReclaimNeverConfirms, Strategy!RecencyEnds, Strategy!ThresholdsIdle, Strategy!Evaluated
  <2> QED BY <1>2, <1>3, <2>8 DEF FiltersInv
<1> QED BY <1>4, <1>5, <1>6

LEMMA FiltersKept == FiltersInv /\ [Next]_vars => FiltersInv'
<1> SUFFICES ASSUME FiltersInv, [Next]_vars PROVE FiltersInv'
  OBVIOUS
<1>1. CASE UNCHANGED strategyVars
  <2>1. UNCHANGED <<time, candles, highs, lows, lsm, history, candidate>>
    BY <1>1 DEF strategyVars
  <2> QED BY <2>1
      DEF FiltersInv, TapeInv, Strategy!ReclaimNeverConfirms, Strategy!RecencyEnds, Strategy!ThresholdsIdle,
          Strategy!Evaluated
<1>2. ASSUME NEW c \in TapeCandle, Strategy!Replay(c) PROVE FiltersInv'
  BY <1>2, ReplayJudges
<1> QED BY <1>1, <1>2, CandleComes DEF FiltersInv

LEMMA FiltersImply == FiltersInv => FiltersNeverAgree
  BY DEF FiltersInv, FiltersNeverAgree

(* Sweeps never confirm the vote that fades them, nothing is recent once    *)
(* the window has moved on, and two of the gate's thresholds never decide.  *)
THEOREM FiltersDisagree == Spec => []FiltersNeverAgree
  BY FiltersStart, FiltersKept, FiltersImply, PTL DEF Spec
-----------------------------------------------------------------------------
(* The reasoner and its judges                                             *)

LEMMA MindCounts == \A S : Mind!Cardinality(S) = Cardinality(S)
  BY DEF Mind!Cardinality, Cardinality

LEMMA MindSums ==
  ASSUME NEW D, IsFiniteSet(D), NEW w \in [D -> Int]
  PROVE  \E g : Sums(D, w, g) /\ Mind!Sum(w) = g[D]
<1> DEFINE Adds(g) == g = [U \in SUBSET D |->
             IF U = {} THEN 0
             ELSE w[CHOOSE x \in U : TRUE] + g[U \ {CHOOSE x \in U : TRUE}]]
           f == CHOOSE g : Adds(g)
<1>1. ASSUME NEW g PROVE Adds(g) <=> FoldsAny(D, w, g)
  BY DEF FoldsAny, AnyOf
<1>2. \E g : Adds(g)
  <2> HIDE DEF Adds
  <2> QED BY <1>1, FoldsAnyExists
<1>3. FoldsAny(D, w, f)
  <2>1. Adds(f)
    BY <1>2
  <2> HIDE DEF Adds
  <2> QED BY <1>1, <2>1
<1>4. DOMAIN w = D
  OBVIOUS
<1>5. Mind!Sum(w) = f[D]
  BY <1>4 DEF Mind!Sum, Mind!FoldFunction, Mind!FoldFunctionOnSet, Mind!MapThenFoldSet
<1> HIDE DEF f
<1> QED BY <1>3, <1>5, FoldsAnySums

(* The types of a sequence of observations, which what they say leaves alone.*)
IsTypes(types) == \E n \in Nat : DOMAIN types = 1..n

LEMMA TypesAre ==
  ASSUME NEW obs \in Seq(Mind!Observation)
  PROVE  IsTypes(Mind!Types(obs)) /\ DOMAIN Mind!Types(obs) = DOMAIN obs
<1>1. Len(obs) \in Nat /\ DOMAIN obs = 1..Len(obs)
  OBVIOUS
<1> QED BY <1>1 DEF IsTypes, Mind!Types

LEMMA AlikeAre ==
  ASSUME NEW types, IsTypes(types), NEW i \in DOMAIN types
  PROVE  /\ IsFiniteSet(Mind!Alike(types, i)) /\ i \in Mind!Alike(types, i)
         /\ Cardinality(Mind!Alike(types, i)) \in Nat
         /\ Cardinality(Mind!Alike(types, i)) >= 1
<1>1. PICK n \in Nat : DOMAIN types = 1..n
  BY DEF IsTypes
<1>2. Mind!Alike(types, i) \in SUBSET (1..n) /\ i \in Mind!Alike(types, i)
  BY <1>1 DEF Mind!Alike
<1>3. IsFiniteSet(1..n)
  BY FS_Interval
<1>4. IsFiniteSet(Mind!Alike(types, i))
  BY <1>2, <1>3, FS_Subset
<1>5. Cardinality(Mind!Alike(types, i)) \in Nat
  BY <1>4, FS_CardinalityType
<1>6. Cardinality(Mind!Alike(types, i)) # 0
  BY <1>2, <1>4, FS_EmptySet
<1> QED BY <1>2, <1>4, <1>5, <1>6

(* Of every type that is there one observation is the first.                *)
LEMMA FirstOfType ==
  ASSUME NEW types, IsTypes(types), NEW t \in Mind!Present(types)
  PROVE  \E i \in Mind!Firsts(types) : types[i] = t
<1>1. PICK n \in Nat : DOMAIN types = 1..n
  BY DEF IsTypes
<1> DEFINE S == {j \in DOMAIN types : types[j] = t}
<1>2. S \subseteq Nat /\ S # {}
  BY <1>1 DEF Mind!Present
<1>3. PICK i \in S : \A j \in S : i <= j
  <2> HIDE DEF S
  <2> QED BY <1>2, LeastNumber
<1>4. i \in Mind!Firsts(types)
  BY <1>3 DEF Mind!Firsts, Mind!Alike
<1> QED BY <1>3, <1>4

Directional == {"LONG", "SHORT"}
FlowTypes == {"ORDER_FLOW", "VOLUME", "LIQUIDITY"}

(* Such a type speaks for going long as well as for going short.            *)
LEMMA BothWays ==
  ASSUME NEW types, IsTypes(types), NEW t \in FlowTypes \cup {"PRICE_ACTION"},
         t \in Mind!Present(types)
  PROVE  \E g, h \in Mind!Hypotheses(types) :
           /\ g # h /\ g.dir \in Directional /\ h.dir \in Directional
           /\ types[g.at] = t /\ types[h.at] = t
<1>1. PICK i \in Mind!Firsts(types) : types[i] = t
  BY FirstOfType
<1> DEFINE g == Mind!Hypothesis(Mind!Templates(t)[1], i, 1, Mind!Alike(types, i))
           h == Mind!Hypothesis(Mind!Templates(t)[2], i, 2, Mind!Alike(types, i))
<1>2. /\ {1, 2} \subseteq DOMAIN Mind!Templates(t)
      /\ Mind!Templates(t)[1].dir = "LONG" /\ Mind!Templates(t)[2].dir = "SHORT"
  BY DEF FlowTypes, Mind!Templates, Mind!Idea
<1>3. g \in Mind!OfType(types, i) /\ h \in Mind!OfType(types, i)
  BY <1>1, <1>2 DEF Mind!OfType
<1>4. g \in Mind!Hypotheses(types) /\ h \in Mind!Hypotheses(types)
  <2> HIDE DEF g, h
  <2> QED BY <1>3 DEF Mind!Hypotheses
<1>5. g.dir = "LONG" /\ h.dir = "SHORT" /\ g.at = i /\ h.at = i
  BY <1>2 DEF Mind!Hypothesis
<1> HIDE DEF g, h
<1> QED BY <1>1, <1>4, <1>5 DEF Directional

(* Every hypothesis is of a type that is there, unless nothing is known.    *)
Sourced(types, h) ==
  \E i \in DOMAIN types : \E n \in DOMAIN Mind!Templates(types[i]) :
    h = Mind!Hypothesis(Mind!Templates(types[i])[n], i, n, Mind!Alike(types, i))
Unknown == Mind!Hypothesis(Mind!Idea("NO_TRADE", FALSE), 1, 1, {})
LEMMA HypothesisIs ==
  ASSUME NEW types, NEW h \in Mind!Hypotheses(types)
  PROVE  Sourced(types, h) \/ (h = Unknown /\ Mind!Hypotheses(types) = {Unknown})
<1> DEFINE all == UNION {Mind!OfType(types, i) : i \in Mind!Firsts(types)}
<1>1. CASE all = {}
  BY <1>1 DEF Mind!Hypotheses, Unknown
<1>2. CASE all # {}
  <2>1. h \in all
    BY <1>2 DEF Mind!Hypotheses
  <2>2. PICK i \in Mind!Firsts(types) : h \in Mind!OfType(types, i)
    BY <2>1
  <2>3. i \in DOMAIN types
    BY DEF Mind!Firsts
  <2> QED BY <2>2, <2>3 DEF Mind!OfType, Sourced
<1> QED BY <1>1, <1>2

LEMMA SupportNat ==
  ASSUME NEW types, IsTypes(types), NEW h \in Mind!Hypotheses(types)
  PROVE  /\ IsFiniteSet(h.support) /\ Cardinality(h.support) \in Nat
         /\ h.dir \in Directional => Cardinality(h.support) >= 1
<1>1. CASE Sourced(types, h)
  <2>1. PICK i \in DOMAIN types : \E n \in DOMAIN Mind!Templates(types[i]) :
          h = Mind!Hypothesis(Mind!Templates(types[i])[n], i, n, Mind!Alike(types, i))
    BY <1>1 DEF Sourced
  <2>2. h.support = Mind!Alike(types, i)
    BY <2>1 DEF Mind!Hypothesis
  <2> QED BY <2>2, AlikeAre
<1>2. CASE h = Unknown
  <2>1. h.support = {} /\ h.dir = "NO_TRADE"
    BY <1>2 DEF Unknown, Mind!Hypothesis, Mind!Idea
  <2> QED BY <2>1, FS_EmptySet DEF Directional
<1> QED BY <1>1, <1>2, HypothesisIs

(* There are finitely many of them: at most three for an observation.       *)
LEMMA HypothesesFinite ==
  ASSUME NEW types, IsTypes(types)
  PROVE  IsFiniteSet(Mind!Hypotheses(types))
<1>1. PICK n \in Nat : DOMAIN types = 1..n
  BY DEF IsTypes
<1> DEFINE H == Mind!Hypotheses(types)
           place(h) == 3 * h.at + h.no
           f == [h \in H |-> place(h)]
           N == 0..3 * n + 6
<1>2. ASSUME NEW h \in H
      PROVE  /\ h.at \in Nat /\ h.no \in 1..3 /\ h.at <= n + 1
             /\ Sourced(types, h) => h.at \in DOMAIN types
  <2>1. CASE Sourced(types, h)
    <3>0. PICK i \in DOMAIN types : \E m \in DOMAIN Mind!Templates(types[i]) :
            h = Mind!Hypothesis(Mind!Templates(types[i])[m], i, m, Mind!Alike(types, i))
      BY <2>1 DEF Sourced
    <3>1. PICK m \in DOMAIN Mind!Templates(types[i]) :
            h = Mind!Hypothesis(Mind!Templates(types[i])[m], i, m, Mind!Alike(types, i))
      BY <3>0
    <3>2. DOMAIN Mind!Templates(types[i]) \subseteq 1..3
      BY DEF Mind!Templates
    <3>3. h.at = i /\ h.no = m
      BY <3>1 DEF Mind!Hypothesis
    <3> QED BY <1>1, <3>2, <3>3
  <2>2. CASE h = Unknown /\ ~Sourced(types, h)
    BY <2>2 DEF Unknown, Mind!Hypothesis
  <2> QED BY <2>1, <2>2, HypothesisIs
<1>3. f \in [H -> N]
  <2> HIDE DEF H
  <2> QED BY <1>2
<1>4. ASSUME NEW g \in H, NEW h \in H, g.at = h.at, g.no = h.no PROVE g = h
  <2>1. CASE Sourced(types, g) /\ Sourced(types, h)
    <3>a. PICK i \in DOMAIN types : \E m \in DOMAIN Mind!Templates(types[i]) :
            g = Mind!Hypothesis(Mind!Templates(types[i])[m], i, m, Mind!Alike(types, i))
      BY <2>1 DEF Sourced
    <3>1. PICK m \in DOMAIN Mind!Templates(types[i]) :
            g = Mind!Hypothesis(Mind!Templates(types[i])[m], i, m, Mind!Alike(types, i))
      BY <3>a
    <3>b. PICK j \in DOMAIN types : \E k \in DOMAIN Mind!Templates(types[j]) :
            h = Mind!Hypothesis(Mind!Templates(types[j])[k], j, k, Mind!Alike(types, j))
      BY <2>1 DEF Sourced
    <3>2. PICK k \in DOMAIN Mind!Templates(types[j]) :
            h = Mind!Hypothesis(Mind!Templates(types[j])[k], j, k, Mind!Alike(types, j))
      BY <3>b
    <3>3. g.at = i /\ g.no = m /\ h.at = j /\ h.no = k
      BY <3>1, <3>2 DEF Mind!Hypothesis
    <3> QED BY <1>4, <3>1, <3>2, <3>3
  <2>2. CASE H = {Unknown}
    BY <2>2
  <2> QED BY <2>1, <2>2, HypothesisIs
<1>5. ASSUME NEW g \in H, NEW h \in H, f[g] = f[h] PROVE g = h
  <2>1. g.at = h.at /\ g.no = h.no
    <3>1. 3 * g.at + g.no = 3 * h.at + h.no
      BY <1>5
    <3> QED BY <1>2, <3>1
  <2> QED BY <1>4, <2>1
<1>6. f \in Injection(H, N)
  <2> HIDE DEF H, f, N
  <2> QED BY <1>3, <1>5 DEF Injection, IsInjective
<1>7. IsFiniteSet(N)
  BY FS_Interval
<1>8. IsFiniteSet(H)
  <2> HIDE DEF H, f, N
  <2> QED BY <1>6, <1>7, FS_Injection
<1> QED BY <1>8

LEMMA CountOfFlowTypes ==
  ASSUME NEW S \in SUBSET FlowTypes
  PROVE  /\ IsFiniteSet(S) /\ Cardinality(S) \in 0..3
         /\ Cardinality(S) = 0 => S = {}
         /\ Cardinality(S) = 1 => \E t, u \in FlowTypes \ S : t # u
         /\ Cardinality(S) = 2 => FlowTypes \ S # {}
         /\ Cardinality(S) = 3 => S = FlowTypes
<1> DEFINE a == "ORDER_FLOW"
           b == "VOLUME"
           c == "LIQUIDITY"
<1>0. IsFiniteSet({a, b, c})
  <2>1. IsFiniteSet({})
    BY FS_EmptySet
  <2>2. IsFiniteSet({} \cup {a})
    BY <2>1, FS_AddElement
  <2>3. IsFiniteSet(({} \cup {a}) \cup {b})
    BY <2>2, FS_AddElement
  <2>4. IsFiniteSet((({} \cup {a}) \cup {b}) \cup {c})
    BY <2>3, FS_AddElement
  <2>5. (({} \cup {a}) \cup {b}) \cup {c} = {a, b, c}
    OBVIOUS
  <2> QED BY <2>4, <2>5, Zenon
<1>1. IsFiniteSet(S)
  <2>1. S \in SUBSET {a, b, c}
    BY DEF FlowTypes
  <2> QED BY <1>0, <2>1, FS_Subset
<1>2. IsFiniteSet(S \ {a}) /\ Cardinality(S \ {a}) = IF a \in S THEN Cardinality(S) - 1 ELSE Cardinality(S)
  BY <1>1, FS_RemoveElement
<1>3. /\ IsFiniteSet((S \ {a}) \ {b})
      /\ Cardinality((S \ {a}) \ {b}) = IF b \in S \ {a} THEN Cardinality(S \ {a}) - 1 ELSE Cardinality(S \ {a})
  BY <1>2, FS_RemoveElement
<1>4. Cardinality(((S \ {a}) \ {b}) \ {c}) =
        IF c \in (S \ {a}) \ {b} THEN Cardinality((S \ {a}) \ {b}) - 1 ELSE Cardinality((S \ {a}) \ {b})
  BY <1>3, FS_RemoveElement
<1>5. ((S \ {a}) \ {b}) \ {c} = {}
  BY DEF FlowTypes
<1>6. Cardinality(((S \ {a}) \ {b}) \ {c}) = 0
  BY <1>5, FS_EmptySet
<1>7. Cardinality(S) \in Nat /\ Cardinality(S \ {a}) \in Nat /\ Cardinality((S \ {a}) \ {b}) \in Nat
  BY <1>1, <1>2, <1>3, FS_CardinalityType
<1>8. /\ b \in S \ {a} <=> b \in S
      /\ c \in (S \ {a}) \ {b} <=> c \in S
  OBVIOUS
<1> DEFINE One(x) == IF x \in S THEN 1 ELSE 0
<1>9. Cardinality(S) = One(a) + One(b) + One(c)
  <2> DEFINE n == Cardinality(S)
             m == Cardinality(S \ {a})
             k == Cardinality((S \ {a}) \ {b})
  <2>1. n \in Nat /\ m \in Nat /\ k \in Nat
    BY <1>7
  <2>2. m = IF a \in S THEN n - 1 ELSE n
    BY <1>2
  <2>3. k = IF b \in S THEN m - 1 ELSE m
    BY <1>3, <1>8
  <2>4. 0 = IF c \in S THEN k - 1 ELSE k
    BY <1>4, <1>6, <1>8
  <2> HIDE DEF n, m, k
  <2>5. n = One(a) + One(b) + One(c)
    BY <2>1, <2>2, <2>3, <2>4
  <2> QED BY <2>5 DEF n
<1>10. \A x \in S : x \in {a, b, c}
  BY DEF FlowTypes
<1>11. /\ Cardinality(S) \in 0..3
       /\ Cardinality(S) = 0 => a \notin S /\ b \notin S /\ c \notin S
       /\ Cardinality(S) = 1 => (a \notin S /\ b \notin S) \/ (a \notin S /\ c \notin S) \/ (b \notin S /\ c \notin S)
       /\ Cardinality(S) = 2 => a \notin S \/ b \notin S \/ c \notin S
       /\ Cardinality(S) = 3 => a \in S /\ b \in S /\ c \in S
  BY <1>9
<1>12. a # b /\ b # c /\ a # c /\ FlowTypes = {a, b, c}
  BY DEF FlowTypes
<1> HIDE DEF a, b, c
<1> QED BY <1>1, <1>10, <1>11, <1>12

(* A hypothesis with a direction misses the types of flow that are not      *)
(* there, every other one nothing.                                          *)
NotThere(types) == FlowTypes \ Mind!Present(types)
Leaning(types) == \E d \in Mind!Hypotheses(types) : d.dir \in Directional
LEMMA MissingIs ==
  ASSUME NEW types, IsTypes(types), Leaning(types), NEW h \in Mind!Hypotheses(types)
  PROVE  Mind!MissingFor(types, h) = IF h.dir \in Directional THEN NotThere(types) ELSE {}
<1>1. CASE h.dir \in Directional
  BY <1>1 DEF Mind!MissingFor, NotThere, FlowTypes, Directional
<1>2. CASE h.dir \notin Directional /\ h.dir # "NO_TRADE"
  BY <1>2 DEF Mind!MissingFor, Directional
<1>3. CASE h.dir = "NO_TRADE"
  <2>1. Sourced(types, h)
    <3>1. PICK d \in Mind!Hypotheses(types) : d.dir \in Directional
      BY DEF Leaning
    <3>2. Unknown.dir = "NO_TRADE"
      BY DEF Unknown, Mind!Hypothesis, Mind!Idea
    <3>3. d # Unknown
      BY <3>1, <3>2 DEF Directional
    <3> QED BY <3>3, HypothesisIs
  <2>2. PICK i \in DOMAIN types : \E n \in DOMAIN Mind!Templates(types[i]) :
          h = Mind!Hypothesis(Mind!Templates(types[i])[n], i, n, Mind!Alike(types, i))
    BY <2>1 DEF Sourced
  <2>3. PICK n \in DOMAIN Mind!Templates(types[i]) : h.dir = Mind!Templates(types[i])[n].dir
    BY <2>2 DEF Mind!Hypothesis
  <2>4. types[i] = "REGIME"
    BY <1>3, <2>3 DEF Mind!Templates, Mind!Idea
  <2>5. "REGIME" \in Mind!Present(types)
    BY <2>4 DEF Mind!Present
  <2> QED BY <1>3, <2>5 DEF Mind!MissingFor, Directional
<1> QED BY <1>1, <1>2, <1>3

LEMMA MissingAll ==
  ASSUME NEW types, IsTypes(types), Leaning(types)
  PROVE  Mind!Missing(types, Mind!Hypotheses(types)) = NotThere(types)
<1>1. PICK d \in Mind!Hypotheses(types) : d.dir \in Directional
  BY DEF Leaning
<1>2. Mind!MissingFor(types, d) = NotThere(types)
  BY <1>1, MissingIs
<1>3. \A h \in Mind!Hypotheses(types) : Mind!MissingFor(types, h) \subseteq NotThere(types)
  BY MissingIs
<1> QED BY <1>2, <1>3 DEF Mind!Missing

LEMMA MissingForNat ==
  ASSUME NEW types, NEW h
  PROVE  Cardinality(Mind!MissingFor(types, h)) \in Nat
<1> DEFINE M == Mind!MissingFor(types, h)
<1>1. M \in SUBSET FlowTypes \/ M \in SUBSET {"REGIME"}
  BY DEF Mind!MissingFor, FlowTypes
<1>2. IsFiniteSet(M)
  <2>1. CASE M \in SUBSET FlowTypes
    <3> HIDE DEF M
    <3> QED BY <2>1, CountOfFlowTypes
  <2>2. CASE M \in SUBSET {"REGIME"}
    <3> HIDE DEF M
    <3> QED BY <2>2, FS_Singleton, FS_Subset
  <2> QED BY <1>1, <2>1, <2>2
<1> HIDE DEF M
<1>3. Cardinality(M) \in Nat
  BY <1>2, FS_CardinalityType
<1> QED BY <1>3 DEF M

(* What is missing is missing for ideas of both directions.                 *)
LEMMA MissingCountNat ==
  ASSUME NEW types, IsTypes(types)
  PROVE  Mind!MissingCount(types, Mind!Hypotheses(types)) \in Nat
<1> DEFINE H == Mind!Hypotheses(types)
           w == [h \in H |-> Cardinality(Mind!MissingFor(types, h))]
<1>1. w \in [H -> Nat] /\ IsFiniteSet(H)
  BY MissingForNat, HypothesesFinite
<1>2. Mind!MissingCount(types, H) = Mind!Sum(w)
  BY MindCounts DEF Mind!MissingCount
<1>3. Mind!Sum(w) \in Nat
  <2> HIDE DEF w, H
  <2>1. w \in [H -> Int]
    BY <1>1
  <2>2. PICK g : Sums(H, w, g) /\ Mind!Sum(w) = g[H]
    BY <1>1, <2>1, MindSums
  <2> QED BY <1>1, <2>2, SumsNat
<1> QED BY <1>2, <1>3

LEMMA MissingTwice ==
  ASSUME NEW types, IsTypes(types), Leaning(types), Cardinality(NotThere(types)) \in 1..2
  PROVE  Mind!MissingCount(types, Mind!Hypotheses(types)) >= 4
<1> DEFINE H == Mind!Hypotheses(types)
           w == [h \in H |-> Cardinality(Mind!MissingFor(types, h))]
           m == Cardinality(NotThere(types))
<1>1. w \in [H -> Nat] /\ IsFiniteSet(H) /\ w \in [H -> Int]
  BY MissingForNat, HypothesesFinite
<1>2. Mind!MissingCount(types, H) = Mind!Sum(w)
  BY MindCounts DEF Mind!MissingCount
<1>3. \A h \in H : h.dir \in Directional => w[h] = m
  BY MissingIs
<1>4. NotThere(types) \in SUBSET FlowTypes
  BY DEF NotThere
<1>5. \A t \in FlowTypes \ NotThere(types) : t \in Mind!Present(types) /\ t \in FlowTypes \cup {"PRICE_ACTION"}
  BY DEF NotThere
<1>6. PICK s : Sums(H, w, s) /\ Mind!Sum(w) = s[H]
  <2> HIDE DEF w, H
  <2> QED BY <1>1, MindSums
<1>7. \A S \in SUBSET H : s[S] \in Nat
  <2> HIDE DEF w, H
  <2> QED BY <1>1, <1>6, PartSumsNat
<1>8. CASE m = 1
  <2>1. PICK t \in FlowTypes \ NotThere(types), u \in FlowTypes \ NotThere(types) : t # u
    BY <1>4, <1>8, CountOfFlowTypes
  <2>2. PICK a \in H, b \in H : /\ a # b /\ a.dir \in Directional /\ b.dir \in Directional
                                /\ types[a.at] = t /\ types[b.at] = t
    BY <1>5, BothWays
  <2>3. PICK c \in H, d \in H : /\ c # d /\ c.dir \in Directional /\ d.dir \in Directional
                                /\ types[c.at] = u /\ types[d.at] = u
    BY <1>5, BothWays
  <2>4. c \in H \ {a, b} /\ d \in H \ {a, b} /\ H \ {a, b} \in SUBSET H /\ (H \ {a, b}) \ {c, d} \in SUBSET H
    BY <2>1, <2>2, <2>3
  <2>5. w[a] = 1 /\ w[b] = 1 /\ w[c] = 1 /\ w[d] = 1
    BY <1>3, <1>8, <2>2, <2>3
  <2> HIDE DEF w, H
  <2>6. s[H] = s[H \ {a, b}] + w[a] + w[b]
    BY <1>1, <1>6, <2>2, SumsPair
  <2>7. s[H \ {a, b}] = s[(H \ {a, b}) \ {c, d}] + w[c] + w[d]
    BY <1>1, <1>6, <2>3, <2>4, SumsPair
  <2>8. s[(H \ {a, b}) \ {c, d}] \in Nat
    BY <1>7, <2>4
  <2>9. s[H] >= 4
    BY <2>5, <2>6, <2>7, <2>8
  <2> QED BY <1>2, <1>6, <2>9 DEF H
<1>9. CASE m = 2
  <2>1. PICK t \in FlowTypes : t \in FlowTypes \ NotThere(types)
    BY <1>4, <1>9, CountOfFlowTypes
  <2>2. PICK a \in H, b \in H : a # b /\ a.dir \in Directional /\ b.dir \in Directional
    BY <1>5, <2>1, BothWays
  <2>4. H \in SUBSET H /\ H \ {a, b} \in SUBSET H
    OBVIOUS
  <2>5. w[a] = 2 /\ w[b] = 2
    BY <1>3, <1>9, <2>2
  <2> HIDE DEF w, H
  <2>6. s[H] = s[H \ {a, b}] + w[a] + w[b]
    BY <1>1, <1>6, <2>2, SumsPair
  <2>8. s[H \ {a, b}] \in Nat
    BY <1>7, <2>4
  <2>9. s[H] >= 4
    BY <2>5, <2>6, <2>8
  <2> QED BY <1>2, <1>6, <2>9 DEF H
<1> QED BY <1>8, <1>9

(* Each type of flow that is there gives two hypotheses that it supports.   *)
LEMMA EvidenceNat ==
  ASSUME NEW types, IsTypes(types)
  PROVE  Mind!EvidenceFor(Mind!Hypotheses(types)) \in Nat
<1> DEFINE H == Mind!Hypotheses(types)
           w == [h \in H |-> Cardinality(h.support)]
<1>1. w \in [H -> Nat] /\ IsFiniteSet(H) /\ w \in [H -> Int]
  BY SupportNat, HypothesesFinite
<1>2. Mind!EvidenceFor(H) = Mind!Sum(w)
  BY MindCounts DEF Mind!EvidenceFor
<1>3. Mind!Sum(w) \in Nat
  <2> HIDE DEF w, H
  <2>2. PICK g : Sums(H, w, g) /\ Mind!Sum(w) = g[H]
    BY <1>1, MindSums
  <2> QED BY <1>1, <2>2, SumsNat
<1> QED BY <1>2, <1>3

LEMMA EvidenceSixfold ==
  ASSUME NEW types, IsTypes(types), NotThere(types) = {}
  PROVE  /\ Mind!EvidenceFor(Mind!Hypotheses(types)) >= 6
         /\ "PRICE_ACTION" \in Mind!Present(types) => Mind!EvidenceFor(Mind!Hypotheses(types)) >= 8
<1> DEFINE H == Mind!Hypotheses(types)
           w == [h \in H |-> Cardinality(h.support)]
<1>1. w \in [H -> Nat] /\ IsFiniteSet(H) /\ w \in [H -> Int]
  BY SupportNat, HypothesesFinite
<1>2. Mind!EvidenceFor(H) = Mind!Sum(w)
  BY MindCounts DEF Mind!EvidenceFor
<1>3. \A h \in H : h.dir \in Directional => w[h] >= 1
  BY SupportNat
<1>5. \A t \in FlowTypes : t \in Mind!Present(types) /\ t \in FlowTypes \cup {"PRICE_ACTION"}
  BY DEF NotThere
<1>6. PICK s : Sums(H, w, s) /\ Mind!Sum(w) = s[H]
  <2> HIDE DEF w, H
  <2> QED BY <1>1, MindSums
<1>7. \A S \in SUBSET H : s[S] \in Nat
  <2> HIDE DEF w, H
  <2> QED BY <1>1, <1>6, PartSumsNat
<1> DEFINE Of(t) == {h \in H : types[h.at] = t}
<1>8. ASSUME NEW t \in FlowTypes \cup {"PRICE_ACTION"}, t \in Mind!Present(types),
             NEW S \in SUBSET H, Of(t) \subseteq S
      PROVE  \E U \in SUBSET S : s[S] >= s[U] + 2 /\ S \ U \subseteq Of(t)
  <2>1. PICK a \in H, b \in H : /\ a # b /\ a.dir \in Directional /\ b.dir \in Directional
                                /\ types[a.at] = t /\ types[b.at] = t
    BY <1>8, BothWays
  <2>2. a \in Of(t) /\ b \in Of(t)
    BY <2>1
  <2>3. a \in S /\ b \in S
    BY <1>8, <2>2
  <2>4. w[a] >= 1 /\ w[b] >= 1 /\ w[a] \in Nat /\ w[b] \in Nat
    BY <1>1, <1>3, <2>1
  <2> HIDE DEF w, H, Of
  <2>5. s[S] = s[S \ {a, b}] + w[a] + w[b]
    BY <1>1, <1>6, <2>1, <2>3, SumsPair
  <2>6. S \ {a, b} \in SUBSET S /\ S \ (S \ {a, b}) \subseteq Of(t) /\ S \ {a, b} \in SUBSET H
    BY <2>2
  <2>7. s[S \ {a, b}] \in Nat
    BY <1>7, <2>6
  <2>8. s[S] >= s[S \ {a, b}] + 2
    BY <2>4, <2>5, <2>7
  <2> QED BY <2>6, <2>8
<1>9. ASSUME NEW t, NEW u, t # u PROVE Of(t) \cap Of(u) = {}
  BY <1>9
<1>10. \A t : Of(t) \in SUBSET H
  OBVIOUS
<1> HIDE DEF w, H, Of
<1>11. H \in SUBSET H /\ FlowTypes = {"ORDER_FLOW", "VOLUME", "LIQUIDITY"}
  BY DEF FlowTypes
<1>12. PICK U1 \in SUBSET H : s[H] >= s[U1] + 2 /\ H \ U1 \subseteq Of("ORDER_FLOW")
  BY <1>5, <1>8, <1>10, <1>11
<1>13. Of("VOLUME") \subseteq U1 /\ Of("LIQUIDITY") \subseteq U1 /\ Of("PRICE_ACTION") \subseteq U1
  <2>1. /\ Of("VOLUME") \cap Of("ORDER_FLOW") = {} /\ Of("LIQUIDITY") \cap Of("ORDER_FLOW") = {}
        /\ Of("PRICE_ACTION") \cap Of("ORDER_FLOW") = {}
    BY <1>9
  <2> QED BY <1>10, <1>12, <2>1
<1>14. PICK U2 \in SUBSET U1 : s[U1] >= s[U2] + 2 /\ U1 \ U2 \subseteq Of("VOLUME")
  BY <1>5, <1>8, <1>11, <1>13
<1>15. Of("LIQUIDITY") \subseteq U2 /\ Of("PRICE_ACTION") \subseteq U2 /\ U2 \in SUBSET H
  <2>1. Of("LIQUIDITY") \cap Of("VOLUME") = {} /\ Of("PRICE_ACTION") \cap Of("VOLUME") = {}
    BY <1>9
  <2> QED BY <1>13, <1>14, <2>1
<1>16. PICK U3 \in SUBSET U2 : s[U2] >= s[U3] + 2 /\ U2 \ U3 \subseteq Of("LIQUIDITY")
  BY <1>5, <1>8, <1>11, <1>15
<1>17. Of("PRICE_ACTION") \subseteq U3 /\ U3 \in SUBSET H
  <2>1. Of("PRICE_ACTION") \cap Of("LIQUIDITY") = {}
    BY <1>9
  <2> QED BY <1>15, <1>16, <2>1
<1>18. s[H] \in Nat /\ s[U1] \in Nat /\ s[U2] \in Nat /\ s[U3] \in Nat
  BY <1>7, <1>11, <1>12, <1>15, <1>17
<1>19. s[H] >= 6
  BY <1>12, <1>14, <1>16, <1>18
<1>20. ASSUME "PRICE_ACTION" \in Mind!Present(types) PROVE s[H] >= 8
  <2>1. PICK U4 \in SUBSET U3 : s[U3] >= s[U4] + 2
    BY <1>8, <1>17, <1>20
  <2>2. s[U4] \in Nat
    BY <1>7, <1>17, <2>1
  <2> QED BY <1>12, <1>14, <1>16, <1>18, <2>1, <2>2
<1> QED BY <1>2, <1>6, <1>19, <1>20 DEF H

(* What a chain is made of.                                                 *)
HypsOf(obs) == Mind!Hypotheses(Mind!Types(obs))
ContraOf(obs) == Mind!Contradictions(obs, HypsOf(obs))
LackOf(obs) == Mind!MissingCount(Mind!Types(obs), HypsOf(obs))
ForOf(obs) == Mind!EvidenceFor(HypsOf(obs))
DoubtOf(obs) == Mind!Uncertainty(obs, ContraOf(obs), LackOf(obs))
SureOf(obs) == Mind!Confidence(ForOf(obs), LackOf(obs), DoubtOf(obs))
RiskOf(obs) == Mind!Risk(LackOf(obs), Cardinality(ContraOf(obs)))
TradeOf(obs) == Mind!Tradeable(Mind!Best(HypsOf(obs)), SureOf(obs), RiskOf(obs), ContraOf(obs))

LEMMA ChainIs ==
  ASSUME NEW obs, obs # <<>>
  PROVE  /\ Mind!Reason(obs).for = ForOf(obs)
         /\ Mind!Reason(obs).missing = Mind!Missing(Mind!Types(obs), HypsOf(obs))
         /\ Mind!Reason(obs).contradictions = ContraOf(obs)
         /\ Mind!Reason(obs).uncertainty = DoubtOf(obs)
         /\ Mind!Reason(obs).confidence = SureOf(obs)
         /\ Mind!Reason(obs).risk = RiskOf(obs)
         /\ Mind!Reason(obs).bias = Mind!Best(HypsOf(obs)).dir
         /\ Mind!Reason(obs).trade = TradeOf(obs)
  BY MindCounts
  DEF Mind!Reason, HypsOf, ContraOf, LackOf, ForOf, DoubtOf, SureOf, RiskOf, TradeOf

(* Fewer contradictions count and weigh less.                               *)
Rules == {"flow", "volume", "trap", "chop", "confidence"}
LEMMA RulesFinite == IsFiniteSet(Rules)
<1>1. IsFiniteSet({"flow"})
  BY FS_Singleton
<1>2. IsFiniteSet({"flow"} \cup {"volume"})
  BY <1>1, FS_AddElement
<1>3. IsFiniteSet(({"flow"} \cup {"volume"}) \cup {"trap"})
  BY <1>2, FS_AddElement
<1>4. IsFiniteSet((({"flow"} \cup {"volume"}) \cup {"trap"}) \cup {"chop"})
  BY <1>3, FS_AddElement
<1>5. IsFiniteSet(((({"flow"} \cup {"volume"}) \cup {"trap"}) \cup {"chop"}) \cup {"confidence"})
  BY <1>4, FS_AddElement
<1>6. ((({"flow"} \cup {"volume"}) \cup {"trap"}) \cup {"chop"}) \cup {"confidence"} = Rules
  BY DEF Rules
<1> QED BY <1>5, <1>6, Zenon

LEMMA FewerRules ==
  ASSUME NEW A \in SUBSET Rules, NEW D \in SUBSET A
  PROVE  /\ IsFiniteSet(A) /\ IsFiniteSet(D) /\ Cardinality(A) \in Nat /\ Cardinality(D) \in Nat
         /\ Cardinality(D) <= Cardinality(A)
<1>1. IsFiniteSet(A)
  BY RulesFinite, FS_Subset
<1>2. IsFiniteSet(D) /\ Cardinality(D) <= Cardinality(A)
  BY <1>1, FS_Subset
<1> QED BY <1>1, <1>2, FS_CardinalityType

LEMMA SeveritiesFewer ==
  ASSUME NEW A \in SUBSET Rules, NEW D \in SUBSET A
  PROVE  /\ Mind!Severities(A, 15, 8, 3) \in Nat /\ Mind!Severities(D, 15, 8, 3) \in Nat
         /\ Mind!Severities(D, 15, 8, 3) <= Mind!Severities(A, 15, 8, 3)
<1> DEFINE Of(S, severity) == Cardinality({r \in S : Mind!Severity(r) = severity})
<1>1. ASSUME NEW severity
      PROVE  Of(A, severity) \in Nat /\ Of(D, severity) \in Nat /\ Of(D, severity) <= Of(A, severity)
  <2>1. /\ {r \in A : Mind!Severity(r) = severity} \in SUBSET Rules
        /\ {r \in D : Mind!Severity(r) = severity} \in SUBSET {r \in A : Mind!Severity(r) = severity}
    OBVIOUS
  <2> QED BY <2>1, FewerRules
<1>2. \A S : Mind!Severities(S, 15, 8, 3) = 15 * Of(S, "HIGH") + 8 * Of(S, "MEDIUM") + 3 * Of(S, "LOW")
  BY MindCounts DEF Mind!Severities
<1> HIDE DEF Of
<1> QED BY <1>1, <1>2

(* So do fewer telling words.                                               *)
Fewer(obs, fewer) ==
  /\ Mind!Types(obs) = Mind!Types(fewer)
  /\ \A type, word : Mind!Saying(fewer, type, word) \subseteq Mind!Saying(obs, type, word)
LEMMA SayingFewer ==
  ASSUME NEW obs \in Seq(Mind!Observation), NEW fewer, Fewer(obs, fewer), NEW type, NEW word
  PROVE  /\ Cardinality(Mind!Saying(obs, type, word)) \in Nat
         /\ Cardinality(Mind!Saying(fewer, type, word)) \in Nat
         /\ Cardinality(Mind!Saying(fewer, type, word)) <= Cardinality(Mind!Saying(obs, type, word))
<1>1. IsFiniteSet(1..Len(obs)) /\ DOMAIN obs = 1..Len(obs)
  BY FS_Interval
<1>2. Mind!Saying(obs, type, word) \in SUBSET (1..Len(obs))
  BY <1>1 DEF Mind!Saying
<1>3. IsFiniteSet(Mind!Saying(obs, type, word))
  BY <1>1, <1>2, FS_Subset
<1>4. Mind!Saying(fewer, type, word) \in SUBSET Mind!Saying(obs, type, word)
  BY DEF Fewer
<1>5. /\ IsFiniteSet(Mind!Saying(fewer, type, word))
      /\ Cardinality(Mind!Saying(fewer, type, word)) <= Cardinality(Mind!Saying(obs, type, word))
  BY <1>3, <1>4, FS_Subset
<1> QED BY <1>3, <1>5, FS_CardinalityType

LEMMA WordPointsFewer ==
  ASSUME NEW obs \in Seq(Mind!Observation), NEW fewer, Fewer(obs, fewer)
  PROVE  /\ Mind!WordPoints(obs) \in Nat /\ Mind!WordPoints(fewer) \in Nat
         /\ Mind!WordPoints(fewer) <= Mind!WordPoints(obs)
<1> DEFINE Of(o, type, word) == Cardinality(Mind!Saying(o, type, word))
<1>1. \A type, word : /\ Of(obs, type, word) \in Nat /\ Of(fewer, type, word) \in Nat
                      /\ Of(fewer, type, word) <= Of(obs, type, word)
  BY SayingFewer
<1>2. \A o : Mind!WordPoints(o) =
        10 * Of(o, "REGIME", "unclear") + 8 * Of(o, "VOLATILITY", "spike")
        + 5 * Of(o, "VOLATILITY", "expanding") + 10 * Of(o, "LIQUIDITY", "thin")
  BY MindCounts DEF Mind!WordPoints
<1> DEFINE a1 == Of(obs, "REGIME", "unclear")
           a2 == Of(fewer, "REGIME", "unclear")
           b1 == Of(obs, "VOLATILITY", "spike")
           b2 == Of(fewer, "VOLATILITY", "spike")
           c1 == Of(obs, "VOLATILITY", "expanding")
           c2 == Of(fewer, "VOLATILITY", "expanding")
           d1 == Of(obs, "LIQUIDITY", "thin")
           d2 == Of(fewer, "LIQUIDITY", "thin")
<1> HIDE DEF Of
<1>3. /\ a1 \in Nat /\ a2 \in Nat /\ a2 <= a1 /\ b1 \in Nat /\ b2 \in Nat /\ b2 <= b1
      /\ c1 \in Nat /\ c2 \in Nat /\ c2 <= c1 /\ d1 \in Nat /\ d2 \in Nat /\ d2 <= d1
  BY <1>1
<1>4. /\ Mind!WordPoints(obs) = 10 * a1 + 8 * b1 + 5 * c1 + 10 * d1
      /\ Mind!WordPoints(fewer) = 10 * a2 + 8 * b2 + 5 * c2 + 10 * d2
  BY <1>2
<1> HIDE DEF a1, a2, b1, b2, c1, c2, d1, d2
<1> QED BY <1>3, <1>4

LEMMA ContradictionsFewer ==
  ASSUME NEW obs, NEW fewer, Fewer(obs, fewer), NEW hyps
  PROVE  /\ Mind!Contradictions(obs, hyps) \in SUBSET Rules
         /\ Mind!Contradictions(fewer, hyps) \in SUBSET Mind!Contradictions(obs, hyps)
<1>1. \A type, word : Mind!Saying(fewer, type, word) # {} => Mind!Saying(obs, type, word) # {}
  BY DEF Fewer
<1>2. Mind!Types(obs) = Mind!Types(fewer)
  BY DEF Fewer
<1>3. Mind!Contradictions(obs, hyps) \in SUBSET Rules
  BY DEF Mind!Contradictions, Rules
<1>4. ASSUME NEW r \in Mind!Contradictions(fewer, hyps) PROVE r \in Mind!Contradictions(obs, hyps)
  BY <1>1, <1>2, <1>4 DEF Mind!Contradictions
<1> QED BY <1>3, <1>4

(* The two types whose absence makes uncertain.                             *)
LEMMA AbsentCount ==
  ASSUME NEW types
  PROVE  /\ Mind!Cardinality({"PRICE_ACTION", "VOLUME"} \ Mind!Present(types)) \in Nat
         /\ "PRICE_ACTION" \notin Mind!Present(types) =>
              Mind!Cardinality({"PRICE_ACTION", "VOLUME"} \ Mind!Present(types)) >= 1
<1> DEFINE S == {"PRICE_ACTION", "VOLUME"} \ Mind!Present(types)
<1>1. IsFiniteSet({"PRICE_ACTION"})
  BY FS_Singleton
<1>2. IsFiniteSet({"PRICE_ACTION"} \cup {"VOLUME"})
  BY <1>1, FS_AddElement
<1>3. S \in SUBSET ({"PRICE_ACTION"} \cup {"VOLUME"})
  OBVIOUS
<1>4. "PRICE_ACTION" \notin Mind!Present(types) => S # {}
  OBVIOUS
<1> HIDE DEF S
<1>5. IsFiniteSet(S)
  BY <1>2, <1>3, FS_Subset
<1>6. Cardinality(S) \in Nat
  BY <1>5, FS_CardinalityType
<1>7. S # {} => Cardinality(S) # 0
  BY <1>5, FS_EmptySet
<1>8. S # {} => Cardinality(S) >= 1
  BY <1>6, <1>7
<1> QED BY <1>4, <1>6, <1>8, MindCounts DEF S

LEMMA AtMost100 ==
  ASSUME NEW t1 \in Nat, NEW t2 \in Nat, t2 <= t1
  PROVE  /\ Mind!Least(100, t1) \in 0..100 /\ Mind!Least(100, t2) \in 0..100
         /\ Mind!Least(100, t2) <= Mind!Least(100, t1)
         /\ t1 >= 5 => Mind!Least(100, t1) >= 5
  BY DEF Mind!Least

LEMMA DoubtFewer ==
  ASSUME NEW obs \in Seq(Mind!Observation), NEW fewer, Fewer(obs, fewer),
         NEW A \in SUBSET Rules, NEW D \in SUBSET A, NEW lack \in Nat
  PROVE  /\ Mind!Uncertainty(obs, A, lack) \in 0..100 /\ Mind!Uncertainty(fewer, D, lack) \in 0..100
         /\ Mind!Uncertainty(fewer, D, lack) <= Mind!Uncertainty(obs, A, lack)
         /\ "PRICE_ACTION" \notin Mind!Present(Mind!Types(obs)) => Mind!Uncertainty(obs, A, lack) >= 5
<1> DEFINE absent == Mind!Cardinality({"PRICE_ACTION", "VOLUME"} \ Mind!Present(Mind!Types(obs)))
           noFlow == Mind!If("ORDER_FLOW" \notin Mind!Present(Mind!Types(obs)), 8)
           lacking == Mind!Least(5 * lack, 20)
           s1 == Mind!Severities(A, 15, 8, 3)
           s2 == Mind!Severities(D, 15, 8, 3)
           w1 == Mind!WordPoints(obs)
           w2 == Mind!WordPoints(fewer)
           u1 == Mind!Uncertainty(obs, A, lack)
           u2 == Mind!Uncertainty(fewer, D, lack)
           few == "PRICE_ACTION" \notin Mind!Present(Mind!Types(obs))
<1>1. absent \in Nat
  BY AbsentCount
<1>13. few => absent >= 1
  BY AbsentCount
<1>2. noFlow \in {0, 8} /\ lacking \in Nat
  BY DEF Mind!If, Mind!Least
<1>3. s1 \in Nat /\ s2 \in Nat /\ s2 <= s1
  BY SeveritiesFewer
<1>4. w1 \in Nat /\ w2 \in Nat /\ w2 <= w1
  BY WordPointsFewer
<1> DEFINE t1 == 5 * absent + s1 + w1 + noFlow + lacking
           t2 == 5 * absent + s2 + w2 + noFlow + lacking
<1>5. u1 = Mind!Least(100, t1)
  BY DEF Mind!Uncertainty
<1>6. u2 = Mind!Least(100, t2)
  BY DEF Mind!Uncertainty, Fewer
<1> HIDE DEF absent, noFlow, lacking, s1, s2, w1, w2, u1, u2, few
<1>8. noFlow \in Nat
  BY <1>2, SMT
<1>9. t1 \in Nat /\ t2 \in Nat /\ t2 <= t1 /\ t1 >= 5 * absent
  <2>1. lacking \in Nat
    BY <1>2
  <2> QED BY <1>1, <1>3, <1>4, <1>8, <2>1
<1> HIDE DEF t1, t2
<1>10. u1 \in 0..100 /\ u2 \in 0..100 /\ u2 <= u1
  BY <1>5, <1>6, <1>9, AtMost100, Zenon
<1>11. ASSUME few PROVE u1 >= 5
  <2>1. absent >= 1
    BY <1>11, <1>13, Zenon
  <2>2. t1 >= 5
    BY <1>1, <1>9, <2>1
  <2> QED BY <1>5, <1>9, <2>2, AtMost100, Zenon
<1>7. u1 \in 0..100 /\ u2 \in 0..100 /\ u2 <= u1 /\ (few => u1 >= 5)
  BY <1>10, <1>11, Zenon
<1> QED BY <1>7 DEF u1, u2, few

(* Less doubt leaves the idea surer, fewer warnings at less risk.           *)
LEMMA LessDoubt ==
  ASSUME NEW for \in Nat, NEW lack \in Nat, NEW u \in 0..100, NEW v \in 0..100, v <= u
  PROVE  /\ Mind!Confidence(for, lack, u) \in 0..100 /\ Mind!Confidence(for, lack, v) \in 0..100
         /\ Mind!Confidence(for, lack, u) <= 100 - u
         /\ Mind!Confidence(for, lack, u) <= Mind!Confidence(for, lack, v)
<1> DEFINE base == 50 + 8 * for - 5 * lack
<1>1. base \in Int
  OBVIOUS
<1>2. \A x : Mind!Confidence(for, lack, x) = Mind!Clamped(Mind!Least(base, 100 - x))
  BY DEF Mind!Confidence
<1> HIDE DEF base
<1>3. Mind!Least(base, 100 - u) \in Int /\ Mind!Least(base, 100 - v) \in Int
  BY <1>1 DEF Mind!Least
<1>4. /\ Mind!Least(base, 100 - u) <= Mind!Least(base, 100 - v)
      /\ Mind!Least(base, 100 - u) <= 100 - u
  BY <1>1 DEF Mind!Least
<1> QED BY <1>2, <1>3, <1>4 DEF Mind!Clamped

LEMMA FewerWarnings ==
  ASSUME NEW lack \in Nat, NEW m \in Nat, NEW n \in Nat, n <= m
  PROVE  /\ Mind!Risk(lack, m) \in 0..100 /\ Mind!Risk(lack, n) \in 0..100
         /\ Mind!Risk(lack, n) <= Mind!Risk(lack, m)
         /\ lack >= 4 => Mind!Risk(lack, m) > 60
  BY DEF Mind!Risk, Mind!Clamped

(* A chain, as far as the judges see it.                                    *)
SeenAs(chain, c, r, u, n, m) ==
  /\ chain.confidence = c /\ chain.risk = r /\ chain.uncertainty = u
  /\ Cardinality(chain.contradictions) = n /\ (chain.contradictions = {} <=> n = 0)
  /\ Cardinality(chain.missing) = m /\ (chain.missing = {} <=> m = 0)
  /\ c \in 0..100 /\ r \in 0..100 /\ u \in 0..100 /\ n \in Nat /\ m \in Nat
Questions == {"reasoner", "confidence", "risk", "uncertainty", "audit", "contradictions", "missing"}
LEMMA AnswersAre ==
  ASSUME NEW chain, NEW c, NEW r, NEW u, NEW n, NEW m, SeenAs(chain, c, r, u, n, m)
  PROVE  LET a == Mind!Answers(chain, TRUE) IN
         /\ a \in [Questions -> Int]
         /\ a["reasoner"] = IF chain.trade THEN 20 ELSE -5
         /\ a["confidence"] = IF c >= 60 THEN 20 ELSE IF c >= 40 THEN 10 ELSE -5
         /\ a["risk"] = IF r <= 50 THEN 15 ELSE IF r <= 70 THEN 5 ELSE -5
         /\ a["uncertainty"] = IF u <= 40 THEN 15 ELSE IF u <= 60 THEN 5 ELSE -5
         /\ a["audit"] = 10
         /\ a["contradictions"] = IF n = 0 THEN 10 ELSE IF n <= 2 THEN 5 ELSE -5
         /\ a["missing"] = IF m = 0 THEN 10 ELSE IF m <= 2 THEN 5 ELSE -5
<1> DEFINE a == Mind!Answers(chain, TRUE)
<1>1. \A good, fair, points, half :
        Mind!Graded(good, fair, points, half) = IF good THEN points ELSE IF fair THEN half ELSE -5
  BY DEF Mind!Graded
<1>2. a = [reasoner |-> Mind!Graded(chain.trade, FALSE, 20, 0),
           confidence |-> Mind!Graded(c >= 60, c >= 40, 20, 10),
           risk |-> Mind!Graded(r <= 50, r <= 70, 15, 5),
           uncertainty |-> Mind!Graded(u <= 40, u <= 60, 15, 5),
           audit |-> Mind!Graded(TRUE, FALSE, 10, 0),
           contradictions |-> Mind!Graded(chain.contradictions = {}, n <= 2, 10, 5),
           missing |-> Mind!Graded(chain.missing = {}, m <= 2, 10, 5)]
  BY MindCounts DEF Mind!Answers, SeenAs
<1>3. /\ a["reasoner"] = IF chain.trade THEN 20 ELSE -5
      /\ a["confidence"] = IF c >= 60 THEN 20 ELSE IF c >= 40 THEN 10 ELSE -5
      /\ a["risk"] = IF r <= 50 THEN 15 ELSE IF r <= 70 THEN 5 ELSE -5
      /\ a["uncertainty"] = IF u <= 40 THEN 15 ELSE IF u <= 60 THEN 5 ELSE -5
      /\ a["audit"] = 10
      /\ a["contradictions"] = IF n = 0 THEN 10 ELSE IF n <= 2 THEN 5 ELSE -5
      /\ a["missing"] = IF m = 0 THEN 10 ELSE IF m <= 2 THEN 5 ELSE -5
  <2>1. /\ a["reasoner"] = Mind!Graded(chain.trade, FALSE, 20, 0)
        /\ a["confidence"] = Mind!Graded(c >= 60, c >= 40, 20, 10)
        /\ a["risk"] = Mind!Graded(r <= 50, r <= 70, 15, 5)
        /\ a["uncertainty"] = Mind!Graded(u <= 40, u <= 60, 15, 5)
        /\ a["audit"] = Mind!Graded(TRUE, FALSE, 10, 0)
        /\ a["contradictions"] = Mind!Graded(chain.contradictions = {}, n <= 2, 10, 5)
        /\ a["missing"] = Mind!Graded(chain.missing = {}, m <= 2, 10, 5)
    <3> DEFINE g1 == Mind!Graded(chain.trade, FALSE, 20, 0)
               g2 == Mind!Graded(c >= 60, c >= 40, 20, 10)
               g3 == Mind!Graded(r <= 50, r <= 70, 15, 5)
               g4 == Mind!Graded(u <= 40, u <= 60, 15, 5)
               g5 == Mind!Graded(TRUE, FALSE, 10, 0)
               g6 == Mind!Graded(chain.contradictions = {}, n <= 2, 10, 5)
               g7 == Mind!Graded(chain.missing = {}, m <= 2, 10, 5)
    <3>1. a = [reasoner |-> g1, confidence |-> g2, risk |-> g3, uncertainty |-> g4, audit |-> g5,
               contradictions |-> g6, missing |-> g7]
      BY <1>2
    <3> HIDE DEF a, g1, g2, g3, g4, g5, g6, g7
    <3>2. /\ a["reasoner"] = g1 /\ a["confidence"] = g2 /\ a["risk"] = g3 /\ a["uncertainty"] = g4
          /\ a["audit"] = g5 /\ a["contradictions"] = g6 /\ a["missing"] = g7
      BY <3>1
    <3> QED BY <3>2 DEF g1, g2, g3, g4, g5, g6, g7
  <2>2. a["reasoner"] = IF chain.trade THEN 20 ELSE -5
    BY <2>1 DEF Mind!Graded
  <2>3. a["audit"] = 10
    BY <2>1 DEF Mind!Graded
  <2>4. /\ a["confidence"] = IF c >= 60 THEN 20 ELSE IF c >= 40 THEN 10 ELSE -5
        /\ a["risk"] = IF r <= 50 THEN 15 ELSE IF r <= 70 THEN 5 ELSE -5
        /\ a["uncertainty"] = IF u <= 40 THEN 15 ELSE IF u <= 60 THEN 5 ELSE -5
    BY <2>1 DEF Mind!Graded
  <2>5. a["contradictions"] = IF n = 0 THEN 10 ELSE IF n <= 2 THEN 5 ELSE -5
    BY <2>1 DEF Mind!Graded, SeenAs
  <2>6. a["missing"] = IF m = 0 THEN 10 ELSE IF m <= 2 THEN 5 ELSE -5
    BY <2>1 DEF Mind!Graded, SeenAs
  <2> QED BY <2>2, <2>3, <2>4, <2>5, <2>6
<1>4. DOMAIN a = Questions /\ a = [q \in DOMAIN a |-> a[q]]
  BY <1>2 DEF Questions
<1> HIDE DEF a
<1>5. \A q \in Questions : a[q] \in Int
  BY <1>3 DEF Questions
<1>6. a \in [Questions -> Int]
  BY <1>4, <1>5
<1> QED BY <1>3, <1>6 DEF a

LEMMA ReadyMeans ==
  ASSUME NEW chain, NEW c, NEW r, NEW u, NEW n, NEW m, SeenAs(chain, c, r, u, n, m),
         NEW score, Mind!Ready(chain, TRUE, score)
  PROVE  chain.trade /\ u <= 60 /\ n <= 2 /\ m <= 2
<1> DEFINE a == Mind!Answers(chain, TRUE)
<1>1. /\ a \in [Questions -> Int]
      /\ a["reasoner"] = IF chain.trade THEN 20 ELSE -5
      /\ a["uncertainty"] = IF u <= 40 THEN 15 ELSE IF u <= 60 THEN 5 ELSE -5
      /\ a["contradictions"] = IF n = 0 THEN 10 ELSE IF n <= 2 THEN 5 ELSE -5
      /\ a["missing"] = IF m = 0 THEN 10 ELSE IF m <= 2 THEN 5 ELSE -5
  BY AnswersAre
<1>2. \A q \in DOMAIN a : ~(a[q] < 0)
  BY DEF Mind!Ready, Mind!Blocking
<1> HIDE DEF a
<1>3. \A q \in Questions : ~(a[q] < 0)
  BY <1>1, <1>2
<1>4. ~(a["reasoner"] < 0) /\ ~(a["uncertainty"] < 0) /\ ~(a["contradictions"] < 0) /\ ~(a["missing"] < 0)
  BY <1>3 DEF Questions
<1>5. chain.trade
  BY <1>1, <1>4
<1>6. u \in 0..100 /\ n \in Nat /\ m \in Nat
  BY DEF SeenAs
<1>7. u <= 60 /\ n <= 2 /\ m <= 2
  BY <1>1, <1>4, <1>6
<1> QED BY <1>5, <1>7

LEMMA QuestionsFinite == IsFiniteSet(Questions)
<1>1. IsFiniteSet({"reasoner"})
  BY FS_Singleton
<1>2. IsFiniteSet({"reasoner"} \cup {"confidence"})
  BY <1>1, FS_AddElement
<1>3. IsFiniteSet(({"reasoner"} \cup {"confidence"}) \cup {"risk"})
  BY <1>2, FS_AddElement
<1>4. IsFiniteSet((({"reasoner"} \cup {"confidence"}) \cup {"risk"}) \cup {"uncertainty"})
  BY <1>3, FS_AddElement
<1>5. IsFiniteSet(((({"reasoner"} \cup {"confidence"}) \cup {"risk"}) \cup {"uncertainty"}) \cup {"audit"})
  BY <1>4, FS_AddElement
<1> DEFINE five == (((({"reasoner"} \cup {"confidence"}) \cup {"risk"}) \cup {"uncertainty"}) \cup {"audit"})
<1>6. (five \cup {"contradictions"}) \cup {"missing"} = Questions
  BY DEF Questions
<1> HIDE DEF five
<1>7. IsFiniteSet(five)
  BY <1>5 DEF five
<1>8. IsFiniteSet(five \cup {"contradictions"})
  BY <1>7, FS_AddElement
<1>9. IsFiniteSet((five \cup {"contradictions"}) \cup {"missing"})
  BY <1>8, FS_AddElement
<1> QED BY <1>6, <1>9, Zenon

(* Who is seen no worse than one that is ready is ready, too.               *)
LEMMA BetterReady ==
  ASSUME NEW chain, NEW c, NEW r, NEW u, NEW n, NEW m, SeenAs(chain, c, r, u, n, m),
         NEW other, NEW d, NEW q, NEW v, NEW k, SeenAs(other, d, q, v, k, m),
         c <= d, q <= r, v <= u, k <= n, chain.trade => other.trade,
         NEW score \in Int, Mind!Ready(chain, TRUE, score)
  PROVE  Mind!Ready(other, TRUE, score)
<1> DEFINE a == Mind!Answers(chain, TRUE)
           b == Mind!Answers(other, TRUE)
<1>1. /\ a \in [Questions -> Int]
      /\ a["reasoner"] = IF chain.trade THEN 20 ELSE -5
      /\ a["confidence"] = IF c >= 60 THEN 20 ELSE IF c >= 40 THEN 10 ELSE -5
      /\ a["risk"] = IF r <= 50 THEN 15 ELSE IF r <= 70 THEN 5 ELSE -5
      /\ a["uncertainty"] = IF u <= 40 THEN 15 ELSE IF u <= 60 THEN 5 ELSE -5
      /\ a["audit"] = 10
      /\ a["contradictions"] = IF n = 0 THEN 10 ELSE IF n <= 2 THEN 5 ELSE -5
      /\ a["missing"] = IF m = 0 THEN 10 ELSE IF m <= 2 THEN 5 ELSE -5
  BY AnswersAre
<1>2. /\ b \in [Questions -> Int]
      /\ b["reasoner"] = IF other.trade THEN 20 ELSE -5
      /\ b["confidence"] = IF d >= 60 THEN 20 ELSE IF d >= 40 THEN 10 ELSE -5
      /\ b["risk"] = IF q <= 50 THEN 15 ELSE IF q <= 70 THEN 5 ELSE -5
      /\ b["uncertainty"] = IF v <= 40 THEN 15 ELSE IF v <= 60 THEN 5 ELSE -5
      /\ b["audit"] = 10
      /\ b["contradictions"] = IF k = 0 THEN 10 ELSE IF k <= 2 THEN 5 ELSE -5
      /\ b["missing"] = IF m = 0 THEN 10 ELSE IF m <= 2 THEN 5 ELSE -5
  BY AnswersAre
<1>3. (\A x \in DOMAIN a : ~(a[x] < 0)) /\ Mind!Clamped(Mind!Sum(a)) >= score
  BY DEF Mind!Ready, Mind!Blocking, Mind!Score
<1>4. (\A x \in DOMAIN b : ~(b[x] < 0)) /\ Mind!Clamped(Mind!Sum(b)) >= score
        => Mind!Ready(other, TRUE, score)
  BY DEF Mind!Ready, Mind!Blocking, Mind!Score
<1>5. /\ c \in 0..100 /\ d \in 0..100 /\ r \in 0..100 /\ q \in 0..100
      /\ u \in 0..100 /\ v \in 0..100 /\ n \in Nat /\ k \in Nat
  BY DEF SeenAs
<1> HIDE DEF a, b
<1>6. /\ a["reasoner"] <= b["reasoner"] /\ a["audit"] <= b["audit"] /\ a["missing"] <= b["missing"]
  BY <1>1, <1>2
<1>7. a["confidence"] <= b["confidence"]
  BY <1>1, <1>2, <1>5
<1>8. a["risk"] <= b["risk"]
  BY <1>1, <1>2, <1>5
<1>9. a["uncertainty"] <= b["uncertainty"]
  BY <1>1, <1>2, <1>5
<1>10. a["contradictions"] <= b["contradictions"]
  BY <1>1, <1>2, <1>5
<1>11. \A x \in Questions : a[x] <= b[x]
  BY <1>6, <1>7, <1>8, <1>9, <1>10 DEF Questions
<1>12. \A x \in DOMAIN b : ~(b[x] < 0)
  <2>1. DOMAIN a = Questions /\ DOMAIN b = Questions /\ \A x \in Questions : a[x] \in Int /\ b[x] \in Int
    BY <1>1, <1>2
  <2> QED BY <1>3, <1>11, <2>1
<1>13. PICK g : Sums(Questions, a, g) /\ Mind!Sum(a) = g[Questions]
  BY <1>1, QuestionsFinite, MindSums
<1>14. PICK h : Sums(Questions, b, h) /\ Mind!Sum(b) = h[Questions]
  BY <1>2, QuestionsFinite, MindSums
<1>15. g[Questions] <= h[Questions] /\ g[Questions] \in Int /\ h[Questions] \in Int
  <2>1. a \in [Questions -> Int] /\ b \in [Questions -> Int]
    BY <1>1, <1>2
  <2>2. g[Questions] <= h[Questions]
    BY <1>11, <1>13, <1>14, <2>1, QuestionsFinite, SumsMonotone
  <2> QED BY <1>13, <1>14, <2>2 DEF Sums
<1>16. Mind!Clamped(Mind!Sum(b)) >= score
  <2> DEFINE x == g[Questions]
             y == h[Questions]
  <2>1. x \in Int /\ y \in Int /\ x <= y
    BY <1>15
  <2>2. Mind!Clamped(x) >= score /\ Mind!Sum(b) = y
    BY <1>3, <1>13, <1>14
  <2> HIDE DEF x, y
  <2>3. Mind!Clamped(y) >= score
    BY <2>1, <2>2 DEF Mind!Clamped
  <2> QED BY <2>2, <2>3
<1> QED BY <1>4, <1>12, <1>16

(* Some hypothesis comes first, so one is the best.                         *)
LEMMA BestIsOne ==
  ASSUME NEW types, IsTypes(types)
  PROVE  Mind!Best(Mind!Hypotheses(types)) \in Mind!Hypotheses(types)
<1> DEFINE H == Mind!Hypotheses(types)
           place(h) == 3 * h.at + h.no
           P == {place(h) : h \in H}
<1>1. H # {}
  BY DEF Mind!Hypotheses
<1>2. ASSUME NEW h \in H PROVE h.at \in Nat /\ h.no \in 1..3 /\ h.confidence = 0
  <2>1. CASE Sourced(types, h)
    <3>0. PICK n \in Nat : DOMAIN types = 1..n
      BY DEF IsTypes
    <3>1. PICK i \in DOMAIN types : \E m \in DOMAIN Mind!Templates(types[i]) :
            h = Mind!Hypothesis(Mind!Templates(types[i])[m], i, m, Mind!Alike(types, i))
      BY <2>1 DEF Sourced
    <3>2. PICK m \in DOMAIN Mind!Templates(types[i]) :
            h = Mind!Hypothesis(Mind!Templates(types[i])[m], i, m, Mind!Alike(types, i))
      BY <3>1
    <3>3. DOMAIN Mind!Templates(types[i]) \subseteq 1..3
      BY DEF Mind!Templates
    <3>4. h.at = i /\ h.no = m /\ h.confidence = 0
      BY <3>2 DEF Mind!Hypothesis
    <3> QED BY <3>0, <3>3, <3>4
  <2>2. CASE h = Unknown
    BY <2>2 DEF Unknown, Mind!Hypothesis
  <2> QED BY <2>1, <2>2, HypothesisIs
<1>3. P \subseteq Nat /\ P # {}
  <2> HIDE DEF H
  <2> QED BY <1>1, <1>2
<1>4. PICK p \in P : \A q \in P : p <= q
  <2> HIDE DEF P
  <2> QED BY <1>3, LeastNumber
<1>5. PICK h \in H : p = place(h)
  OBVIOUS
<1>6. ASSUME NEW g \in H PROVE g.confidence = h.confidence /\ ~Mind!Before(g, h)
  <2>1. place(h) <= place(g)
    BY <1>4, <1>5
  <2>2. g.at \in Nat /\ g.no \in 1..3 /\ h.at \in Nat /\ h.no \in 1..3
    BY <1>2
  <2>3. ~(g.at < h.at \/ (g.at = h.at /\ g.no < h.no))
    BY <2>1, <2>2
  <2> QED BY <1>2, <2>3 DEF Mind!Before
<1> HIDE DEF H
<1>7. \E x \in H : \A g \in H :
        g.confidence < x.confidence \/ (g.confidence = x.confidence /\ ~Mind!Before(g, x))
  BY <1>6
<1>8. Mind!Best(H) \in H
  BY <1>7 DEF Mind!Best
<1> QED BY <1>8 DEF H

LEMMA MissingFinite ==
  ASSUME NEW types, NEW hyps
  PROVE  /\ IsFiniteSet(Mind!Missing(types, hyps)) /\ Cardinality(Mind!Missing(types, hyps)) \in Nat
         /\ Cardinality(Mind!Missing(types, hyps)) = 0 <=> Mind!Missing(types, hyps) = {}
<1> DEFINE M == Mind!Missing(types, hyps)
<1>1. M \in SUBSET (FlowTypes \cup {"REGIME"})
  BY DEF Mind!Missing, Mind!MissingFor, FlowTypes
<1>2. IsFiniteSet(FlowTypes)
  BY CountOfFlowTypes
<1>3. IsFiniteSet(FlowTypes \cup {"REGIME"})
  BY <1>2, FS_AddElement
<1> HIDE DEF M
<1>4. IsFiniteSet(M)
  BY <1>1, <1>3, FS_Subset
<1>5. Cardinality(M) \in Nat
  BY <1>4, FS_CardinalityType
<1>6. Cardinality(M) = 0 <=> M = {}
  BY <1>4, FS_EmptySet
<1> QED BY <1>4, <1>5, <1>6 DEF M

(* Comparisons of points.                                                   *)
LEMMA PointsCompare == \A x \in 0..100 : x <= x /\ ~(x <= 60 /\ x > 60)
  OBVIOUS
LEMMA PointsChain ==
  \A x, y \in 0..100 : x <= y => (x >= 60 => y >= 60) /\ (y <= 60 => x <= 60)
  OBVIOUS

(* What the judges see of a chain.                                          *)
LackingOf(obs) == Cardinality(Mind!Missing(Mind!Types(obs), HypsOf(obs)))
LEMMA ChainSeen ==
  ASSUME NEW obs \in Seq(Mind!Observation), obs # <<>>
  PROVE  /\ SeenAs(Mind!Reason(obs), SureOf(obs), RiskOf(obs), DoubtOf(obs), Cardinality(ContraOf(obs)),
                   LackingOf(obs))
         /\ ForOf(obs) \in Nat /\ LackOf(obs) \in Nat /\ SureOf(obs) <= 100 - DoubtOf(obs)
         /\ "PRICE_ACTION" \notin Mind!Present(Mind!Types(obs)) => DoubtOf(obs) >= 5
<1>1. IsTypes(Mind!Types(obs))
  BY TypesAre
<1>2. ForOf(obs) \in Nat /\ LackOf(obs) \in Nat
  BY <1>1, EvidenceNat, MissingCountNat DEF ForOf, LackOf, HypsOf
<1>3. Fewer(obs, obs)
  BY DEF Fewer
<1>4. ContraOf(obs) \in SUBSET Rules /\ ContraOf(obs) \in SUBSET ContraOf(obs)
  BY <1>3, ContradictionsFewer DEF ContraOf
<1>5. /\ IsFiniteSet(ContraOf(obs)) /\ Cardinality(ContraOf(obs)) \in Nat
      /\ Cardinality(ContraOf(obs)) <= Cardinality(ContraOf(obs))
  BY <1>4, FewerRules
<1>6. ContraOf(obs) = {} <=> Cardinality(ContraOf(obs)) = 0
  BY <1>5, FS_EmptySet
<1>7. /\ DoubtOf(obs) \in 0..100
      /\ "PRICE_ACTION" \notin Mind!Present(Mind!Types(obs)) => DoubtOf(obs) >= 5
  BY <1>2, <1>3, <1>4, DoubtFewer DEF DoubtOf
<1>8. SureOf(obs) \in 0..100 /\ SureOf(obs) <= 100 - DoubtOf(obs)
  <2>1. DoubtOf(obs) \in 0..100 /\ DoubtOf(obs) <= DoubtOf(obs)
    BY <1>7, PointsCompare, Zenon
  <2> QED BY <1>2, <2>1, LessDoubt, Zenon DEF SureOf
<1>9. RiskOf(obs) \in 0..100
  BY <1>2, <1>5, FewerWarnings DEF RiskOf
<1>10. SeenAs(Mind!Reason(obs), SureOf(obs), RiskOf(obs), DoubtOf(obs), Cardinality(ContraOf(obs)),
              LackingOf(obs))
  BY <1>5, <1>6, <1>7, <1>8, <1>9, ChainIs, MissingFinite DEF SeenAs, LackingOf
<1> QED BY <1>2, <1>7, <1>8, <1>10

(* An idea that is ready lacks no type of flow, is not too uncertain, and   *)
(* less sure than its evidence would justify.                               *)
LEMMA ReadyIsCertain ==
  ASSUME NEW obs \in Seq(Mind!Observation), obs # <<>>, NEW score,
         Mind!Ready(Mind!Reason(obs), TRUE, score)
  PROVE  /\ Mind!Reason(obs).trade /\ Mind!Reason(obs).bias \in Directional
         /\ SureOf(obs) >= 60 /\ RiskOf(obs) <= 60 /\ DoubtOf(obs) <= 40
         /\ Cardinality(ContraOf(obs)) <= 2 /\ LackingOf(obs) = 0
         /\ ForOf(obs) >= 6 /\ SureOf(obs) < 16 * ForOf(obs)
<1> DEFINE types == Mind!Types(obs)
           c == SureOf(obs)
           u == DoubtOf(obs)
           n == Cardinality(ContraOf(obs))
           m == LackingOf(obs)
           for == ForOf(obs)
           lack == LackOf(obs)
<1>1. SeenAs(Mind!Reason(obs), c, RiskOf(obs), u, n, m)
  BY ChainSeen
<1>2. for \in Nat /\ lack \in Nat /\ c <= 100 - u
  BY ChainSeen
<1>3. "PRICE_ACTION" \notin Mind!Present(types) => u >= 5
  BY ChainSeen
<1>4. Mind!Reason(obs).trade /\ u <= 60 /\ n <= 2 /\ m <= 2
  BY <1>1, ReadyMeans
<1>5. TradeOf(obs)
  BY <1>4, ChainIs
<1>6. Mind!Best(HypsOf(obs)).dir \in Directional /\ c >= 60 /\ RiskOf(obs) <= 60
  BY <1>5 DEF TradeOf, Mind!Tradeable, Directional
<1>7. IsTypes(types)
  BY TypesAre
<1>8. Leaning(types)
  BY <1>6, <1>7, BestIsOne DEF Leaning, HypsOf
<1>9. m = Cardinality(NotThere(types))
  BY <1>7, <1>8, MissingAll DEF LackingOf, HypsOf
<1>10. c \in 0..100 /\ u \in 0..100 /\ n \in Nat /\ m \in Nat /\ RiskOf(obs) \in 0..100
  BY <1>1 DEF SeenAs
<1>11. m \notin 1..2
  <2> SUFFICES ASSUME m \in 1..2 PROVE FALSE
    OBVIOUS
  <2>1. lack >= 4
    BY <1>7, <1>8, <1>9, MissingTwice DEF LackOf, HypsOf
  <2>2. n <= n
    BY <1>10
  <2>3. RiskOf(obs) > 60
    BY <1>2, <1>10, <2>1, <2>2, FewerWarnings DEF RiskOf
  <2> QED BY <1>6, <1>10, <2>3, PointsCompare, Zenon
<1>12. m = 0
  BY <1>4, <1>10, <1>11
<1>13. NotThere(types) = {}
  <2>1. NotThere(types) \in SUBSET FlowTypes
    BY DEF NotThere
  <2> QED BY <1>9, <1>12, <2>1, CountOfFlowTypes
<1>14. for >= 6 /\ ("PRICE_ACTION" \in Mind!Present(types) => for >= 8)
  BY <1>7, <1>13, EvidenceSixfold DEF ForOf, HypsOf
<1>15. c < 16 * for
  <2>1. CASE "PRICE_ACTION" \in Mind!Present(types)
    <3>1. for >= 8
      BY <1>14, <2>1
    <3> HIDE DEF c, u, n, m, for, lack
    <3> QED BY <1>2, <1>10, <3>1
  <2>2. CASE "PRICE_ACTION" \notin Mind!Present(types)
    <3>1. u >= 5 /\ for >= 6
      BY <1>3, <1>14, <2>2
    <3> HIDE DEF c, u, n, m, for, lack
    <3> QED BY <1>2, <1>10, <3>1
  <2> QED BY <2>1, <2>2
<1>16. u <= 40
  <2> HIDE DEF c, u, n, m, for, lack
  <2> QED BY <1>2, <1>6, <1>10
<1> QED BY <1>4, <1>6, <1>12, <1>14, <1>15, <1>16, ChainIs

(* When nothing is missing and little doubted the scenarios lean the way of *)
(* the bias, or no way.                                                     *)
Courses == {"continuation", "reversal", "fakeout", "chop"}
LEMMA CourseSum ==
  ASSUME NEW w \in [Courses -> Int]
  PROVE  Mind!Sum(w) = w["continuation"] + w["reversal"] + w["fakeout"] + w["chop"]
<1>1. IsFiniteSet({"continuation"})
  BY FS_Singleton
<1>2. IsFiniteSet({"continuation"} \cup {"reversal"})
  BY <1>1, FS_AddElement
<1>3. IsFiniteSet(({"continuation"} \cup {"reversal"}) \cup {"fakeout"})
  BY <1>2, FS_AddElement
<1>4. IsFiniteSet((({"continuation"} \cup {"reversal"}) \cup {"fakeout"}) \cup {"chop"})
  BY <1>3, FS_AddElement
<1>5. (({"continuation"} \cup {"reversal"}) \cup {"fakeout"}) \cup {"chop"} = Courses
  BY DEF Courses
<1>6. IsFiniteSet(Courses)
  BY <1>4, <1>5, Zenon
<1>7. PICK g : Sums(Courses, w, g) /\ Mind!Sum(w) = g[Courses]
  BY <1>6, MindSums
<1> DEFINE two == {"continuation", "reversal"}
           three == {"continuation", "reversal", "fakeout"}
<1>8. /\ Courses \ {"chop"} = three /\ three \ {"fakeout"} = two /\ two \ {"reversal"} = {"continuation"}
      /\ {"continuation"} \ {"continuation"} = {}
      /\ "chop" \in Courses /\ "fakeout" \in three /\ "reversal" \in two
      /\ two \in SUBSET Courses /\ three \in SUBSET Courses /\ {"continuation"} \in SUBSET Courses
      /\ Courses \in SUBSET Courses
  BY DEF Courses
<1> HIDE DEF two, three
<1>9. /\ g[Courses] = g[three] + w["chop"] /\ g[three] = g[two] + w["fakeout"]
      /\ g[two] = g[{"continuation"}] + w["reversal"] /\ g[{}] = 0
  BY <1>7, <1>8 DEF Sums
<1>10. g[{"continuation"}] = g[{}] + w["continuation"]
  <2>1. "continuation" \in {"continuation"}
    OBVIOUS
  <2>2. g[{"continuation"}] = g[{"continuation"} \ {"continuation"}] + w["continuation"]
    BY <1>7, <1>8, <2>1 DEF Sums
  <2> QED BY <1>8, <2>2
<1>11. w["continuation"] \in Int /\ w["reversal"] \in Int /\ w["fakeout"] \in Int /\ w["chop"] \in Int
  BY DEF Courses
<1> QED BY <1>7, <1>9, <1>10, <1>11

LEMMA MostIs ==
  ASSUME NEW S \in SUBSET Int, NEW m \in S, \A x \in S : x <= m
  PROVE  Mind!Max(S) = m
<1>1. \E x \in S : \A y \in S : x >= y
  OBVIOUS
<1>2. Mind!Max(S) \in S /\ \A y \in S : Mind!Max(S) >= y
  BY <1>1 DEF Mind!Max
<1> DEFINE most == Mind!Max(S)
<1>3. most \in Int /\ m \in Int /\ most >= m /\ most <= m
  BY <1>2
<1>4. most = m
  <2> HIDE DEF most
  <2> QED BY <1>3
<1> QED BY <1>4

LEMMA ScenariosLean ==
  ASSUME NEW chain, Cardinality(chain.missing) = 0, ~(chain.uncertainty > 50),
         chain.bias \in Directional
  PROVE  Mind!WeightedBias(chain) \in {chain.bias, "NEUTRAL"} /\ Mind!ScenarioConflict(chain) <= 40
<1> DEFINE s == Mind!Scenarios(chain)
           p == Mind!Normalized(s)
           doubt == IF chain.contradictions # {} THEN 10 ELSE 0
           base == 50 - 5 * 0 - doubt
<1>1. s = [continuation |-> IF base < 10 THEN 10 ELSE base, reversal |-> 25 + doubt + 0,
           fakeout |-> 15 + doubt, chop |-> 10 + 0]
  BY MindCounts DEF Mind!Scenarios, Mind!If
<1>2. /\ s \in [Courses -> Int] /\ DOMAIN s = Courses
      /\ s["continuation"] = 50 - doubt /\ s["reversal"] = 25 + doubt
      /\ s["fakeout"] = 15 + doubt /\ s["chop"] = 10
  <2>1. doubt \in {0, 10}
    OBVIOUS
  <2> HIDE DEF s, doubt
  <2> QED BY <1>1, <2>1, SMT DEF Courses
<1>3. Mind!Sum(s) = 100 + doubt
  <2>1. doubt \in {0, 10}
    OBVIOUS
  <2> HIDE DEF s, doubt
  <2> QED BY <1>2, <2>1, CourseSum, SMT
<1>4. p = [x \in Courses |-> (200 * s[x] + Mind!Sum(s)) \div (2 * Mind!Sum(s))]
  BY <1>2 DEF Mind!Normalized
<1>5. CASE chain.contradictions = {}
  <2>1. p["continuation"] = 50 /\ p["reversal"] = 25 /\ p["fakeout"] = 15 /\ p["chop"] = 10
    <3>1. doubt = 0
      BY <1>5
    <3> HIDE DEF s, p, doubt
    <3> QED BY <1>2, <1>3, <1>4, <3>1, SMT DEF Courses
  <2>2. {p[x] : x \in DOMAIN p} = {50, 25, 15, 10}
    <3>1. DOMAIN p = Courses
      BY <1>4
    <3> HIDE DEF p
    <3> QED BY <2>1, <3>1, SMT DEF Courses
  <2>3. Mind!Max({50, 25, 15, 10}) = 50
    BY MostIs, SMT
  <2>4. Mind!ScenarioConflict(chain) = 10
    <3>1. Mind!Max({p[x] : x \in DOMAIN p}) = 50
      <4> HIDE DEF p
      <4> QED BY <2>2, <2>3
    <3> QED BY <3>1, SMT DEF Mind!ScenarioConflict
  <2>5. p.continuation = 50 /\ p.reversal = 25
    BY <2>1
  <2>6. Mind!WeightedBias(chain) = chain.bias
    <3>1. CASE chain.bias = "LONG"
      <4> HIDE DEF p
      <4> QED BY <2>5, <3>1, SMT DEF Mind!WeightedBias, Mind!If, Mind!ContinuationOf, Mind!ReversalOf, p
    <3>2. CASE chain.bias = "SHORT"
      BY <2>5, <3>2, SMT DEF Mind!WeightedBias, Mind!If, Mind!ContinuationOf, Mind!ReversalOf
    <3> QED BY <3>1, <3>2 DEF Directional
  <2> QED BY <2>4, <2>6, SMT
<1>6. CASE chain.contradictions # {}
  <2>1. p["continuation"] = 36 /\ p["reversal"] = 32 /\ p["fakeout"] = 23 /\ p["chop"] = 9
    <3>1. doubt = 10
      BY <1>6
    <3> HIDE DEF s, p, doubt
    <3> QED BY <1>2, <1>3, <1>4, <3>1, SMT DEF Courses
  <2>2. {p[x] : x \in DOMAIN p} = {36, 32, 23, 9}
    <3>1. DOMAIN p = Courses
      BY <1>4
    <3> HIDE DEF p
    <3> QED BY <2>1, <3>1, SMT DEF Courses
  <2>3. Mind!Max({36, 32, 23, 9}) = 36
    BY MostIs, SMT
  <2>4. Mind!ScenarioConflict(chain) = 40
    <3>1. Mind!Max({p[x] : x \in DOMAIN p}) = 36
      <4> HIDE DEF p
      <4> QED BY <2>2, <2>3
    <3> QED BY <3>1, SMT DEF Mind!ScenarioConflict
  <2>5. p.continuation = 36 /\ p.reversal = 32
    BY <2>1
  <2>6. Mind!WeightedBias(chain) = "NEUTRAL"
    <3>1. CASE chain.bias = "LONG"
      BY <2>5, <3>1, SMT DEF Mind!WeightedBias, Mind!If, Mind!ContinuationOf, Mind!ReversalOf
    <3>2. CASE chain.bias = "SHORT"
      BY <2>5, <3>2, SMT DEF Mind!WeightedBias, Mind!If, Mind!ContinuationOf, Mind!ReversalOf
    <3> QED BY <3>1, <3>2 DEF Directional
  <2> QED BY <2>4, <2>6, SMT
<1> QED BY <1>5, <1>6

LEMMA JudgesMustAgree ==
  ASSUME NEW chain, NEW c, NEW r, NEW u, NEW n, NEW f, SeenAs(chain, c, r, u, n, 0),
         chain.for = f, f \in Nat, f >= 6, c < 16 * f, chain.trade, chain.bias \in Directional,
         c >= 60, r <= 60, u <= 40, n <= 2
  PROVE  /\ ~Mind!ShouldReject(chain) /\ ~Mind!ShouldReduce(chain)
         /\ Mind!Biases(chain) \cap {"OVERCONFIDENCE", "FORCED_TRADE"} = {}
         /\ Mind!WeightedBias(chain) \in {chain.bias, "NEUTRAL"} /\ Mind!ScenarioConflict(chain) <= 40
         /\ Mind!Adjusted(chain) >= 40 /\ ~Mind!AuditPassed(chain)
<1>1. /\ chain.confidence = c /\ chain.risk = r /\ chain.uncertainty = u /\ Cardinality(chain.contradictions) = n
      /\ Cardinality(chain.missing) = 0
      /\ c \in 0..100 /\ r \in 0..100 /\ u \in 0..100 /\ n \in 0..2
  BY DEF SeenAs
<1>2. ~Mind!ShouldReject(chain) /\ ~Mind!ShouldReduce(chain)
  <2>1. ~(u > 80) /\ ~(n > 3) /\ ~(u > 60) /\ ~(0 > 3)
    BY <1>1
  <2> QED BY <1>1, <2>1, MindCounts DEF Mind!ShouldReject, Mind!ShouldReduce
<1>3. Mind!Biases(chain) \cap {"OVERCONFIDENCE", "FORCED_TRADE"} = {}
  <2>1. ~(f <= 2) /\ ~(u > 50) /\ ~(u > 60) /\ ~(0 > 3) /\ ~(r > 60)
    BY <1>1
  <2>2. Mind!BiasScores(chain)["OVERCONFIDENCE"] = Mind!If(c > 70 /\ f <= 2, 40) + Mind!If(c > 60 /\ u > 50, 25) + Mind!If(c > 50 + 30, 20)
    BY <1>1 DEF Mind!BiasScores
  <2>3. Mind!BiasScores(chain)["OVERCONFIDENCE"] <= 20
    BY <2>1, <2>2 DEF Mind!If
  <2>4. Mind!BiasScores(chain)["FORCED_TRADE"] =
          Mind!If(chain.trade, Mind!If(u > 60, 40) + Mind!If(0 > 3, 20) + Mind!If(r > 60, 20))
    BY <1>1, MindCounts DEF Mind!BiasScores
  <2>5. Mind!BiasScores(chain)["FORCED_TRADE"] = 0
    BY <2>1, <2>4 DEF Mind!If
  <2>6. Mind!BiasScores(chain)["OVERCONFIDENCE"] \in Int
    BY <2>2 DEF Mind!If
  <2>7. "OVERCONFIDENCE" \notin Mind!Biases(chain) /\ "FORCED_TRADE" \notin Mind!Biases(chain)
    BY <2>3, <2>5, <2>6 DEF Mind!Biases
  <2> QED BY <2>7
<1>4. Mind!WeightedBias(chain) \in {chain.bias, "NEUTRAL"} /\ Mind!ScenarioConflict(chain) <= 40
  <2>1. ~(u > 50)
    BY <1>1
  <2> QED BY <1>1, <2>1, ScenariosLean
<1>5. Mind!Adjusted(chain) >= 40
  <2>1. Mind!Reduction(chain) =
          Mind!If(c > 60 /\ f <= 2, 15) + Mind!Least(8 * n, 20) + Mind!If(u > 60, 10) + Mind!Least(3 * 0, 10)
    BY <1>1, MindCounts DEF Mind!Reduction
  <2>2. ~(f <= 2) /\ ~(u > 60)
    BY <1>1
  <2>3. Mind!Reduction(chain) \in 0..16
    BY <1>1, <2>1, <2>2 DEF Mind!If, Mind!Least
  <2>4. c - Mind!Reduction(chain) >= 40 /\ c - Mind!Reduction(chain) \in Int
    BY <1>1, <2>3
  <2> QED BY <1>1, <2>4 DEF Mind!Adjusted, Mind!Clamped
<1>6. ~Mind!AuditPassed(chain)
  <2>1. Mind!Justified(chain, 40) <=> Mind!Least(100 * 20 * f, 50 * c) >= 40 * 20 * f
    BY <1>1, SMT DEF Mind!Justified
  <2>2. ~(Mind!Least(100 * 20 * f, 50 * c) >= 40 * 20 * f)
    BY <1>1, SMT DEF Mind!Least
  <2> QED BY <2>1, <2>2, Zenon DEF Mind!AuditPassed
<1> QED BY <1>2, <1>3, <1>4, <1>5, <1>6

LEMMA EmptyNotReady ==
  ASSUME NEW score PROVE ~Mind!Ready(Mind!Reason(<<>>), TRUE, score)
<1> DEFINE chain == Mind!Reason(<<>>)
<1>1. /\ chain.trade = FALSE /\ chain.confidence = 50 /\ chain.risk = 50 /\ chain.uncertainty = 50
      /\ chain.contradictions = {} /\ chain.missing = {}
  BY DEF Mind!Reason
<1> HIDE DEF chain
<1>2. Cardinality({}) = 0
  BY FS_EmptySet
<1>3. SeenAs(chain, 50, 50, 50, 0, 0)
  BY <1>1, <1>2, SMT DEF SeenAs
<1>4. ASSUME Mind!Ready(chain, TRUE, score) PROVE FALSE
  <2>1. chain.trade
    BY <1>3, <1>4, ReadyMeans
  <2> QED BY <1>1, <2>1
<1> QED BY <1>4 DEF chain

LEMMA PaperIsReady ==
  ASSUME NEW chain, Mind!FinalAction(chain) = "PAPER_TRADE_ONLY"
  PROVE  Mind!Ready(chain, TRUE, 60)
<1> DEFINE a == Mind!Ready(chain, TRUE, Mind!ForPaper)
           b == Mind!Ready(chain, TRUE, Mind!ForSignal) \/ Mind!Ready(chain, TRUE, Mind!ForBacktest)
           d == "confidence" \in Mind!Blocking(chain, TRUE)
           e == "uncertainty" \in Mind!Blocking(chain, TRUE)
           f == "contradictions" \in Mind!Blocking(chain, TRUE) \/ Mind!Score(chain, TRUE) < 20
<1>1. Mind!FinalAction(chain) =
        CASE FALSE /\ Mind!Ready(chain, TRUE, Mind!ForLive) -> "LIVE_TRADE_BLOCKED"
          [] a -> "PAPER_TRADE_ONLY" [] b -> "PROCEED_TO_BACKTEST" [] d -> "COLLECT_MORE_DATA"
          [] e -> "WAIT" [] f -> "REJECT_IDEA" [] OTHER -> "WAIT"
  BY DEF Mind!FinalAction, Mind!Recommendation
<1> HIDE DEF a, b, d, e, f
<1>2. a
  BY <1>1
<1> QED BY <1>2 DEF a, Mind!ForPaper

LEMMA UnsaidFewer ==
  ASSUME NEW obs \in Seq(Mind!Observation), NEW i \in DOMAIN obs, NEW word
  PROVE  /\ Mind!Unsaid(obs, i, word) \in Seq(Mind!Observation) /\ Mind!Unsaid(obs, i, word) # <<>>
         /\ Fewer(obs, Mind!Unsaid(obs, i, word))
<1> DEFINE new == Mind!Unsaid(obs, i, word)
<1>1. DOMAIN obs = 1..Len(obs) /\ Len(obs) \in Nat /\ \A j \in DOMAIN obs : obs[j] \in Mind!Observation
  OBVIOUS
<1>2. /\ DOMAIN new = DOMAIN obs
      /\ \A j \in DOMAIN obs : j # i => new[j] = obs[j]
      /\ new[i] = [obs[i] EXCEPT !.says = @ \ {word}]
  BY DEF Mind!Unsaid
<1>3. obs[i] \in Mind!Observation
  BY <1>1
<1>4. new[i] \in Mind!Observation /\ new[i].type = obs[i].type /\ new[i].says \subseteq obs[i].says
  <2> HIDE DEF new
  <2> QED BY <1>2, <1>3 DEF Mind!Observation
<1>5. \A j \in DOMAIN obs : new[j] \in Mind!Observation /\ new[j].type = obs[j].type /\ new[j].says \subseteq obs[j].says
  BY <1>1, <1>2, <1>4
<1>6. new = [obs EXCEPT ![i].says = @ \ {word}]
  BY DEF Mind!Unsaid
<1>7. new \in [1..Len(obs) -> Mind!Observation]
  <2>1. new = [j \in 1..Len(obs) |-> new[j]]
    BY <1>1, <1>2, <1>6
  <2> HIDE DEF new
  <2> QED BY <1>1, <1>5, <2>1
<1> HIDE DEF new
<1>8. new \in Seq(Mind!Observation)
  BY <1>1, <1>7
<1>9. new # <<>>
  BY <1>1, <1>2
<1>10. Mind!Types(obs) = Mind!Types(new)
  BY <1>2, <1>5 DEF Mind!Types
<1>11. \A type, w : Mind!Saying(new, type, w) \subseteq Mind!Saying(obs, type, w)
  BY <1>2, <1>5 DEF Mind!Saying
<1> QED BY <1>8, <1>9, <1>10, <1>11 DEF Fewer, new

LEMMA UnsaidStaysReady ==
  ASSUME NEW obs \in Seq(Mind!Observation), obs # <<>>, NEW new \in Seq(Mind!Observation), new # <<>>,
         Fewer(obs, new), NEW score \in Int, Mind!Ready(Mind!Reason(obs), TRUE, score)
  PROVE  Mind!Ready(Mind!Reason(new), TRUE, score)
<1>1. /\ SeenAs(Mind!Reason(obs), SureOf(obs), RiskOf(obs), DoubtOf(obs), Cardinality(ContraOf(obs)), LackingOf(obs))
      /\ ForOf(obs) \in Nat /\ LackOf(obs) \in Nat
  BY ChainSeen
<1>2. SeenAs(Mind!Reason(new), SureOf(new), RiskOf(new), DoubtOf(new), Cardinality(ContraOf(new)), LackingOf(new))
  BY ChainSeen
<1>3. /\ HypsOf(new) = HypsOf(obs) /\ ForOf(new) = ForOf(obs) /\ LackOf(new) = LackOf(obs)
      /\ LackingOf(new) = LackingOf(obs)
  BY DEF Fewer, HypsOf, ForOf, LackOf, LackingOf
<1>4. ContraOf(obs) \in SUBSET Rules /\ ContraOf(new) \in SUBSET ContraOf(obs)
  BY <1>3, ContradictionsFewer DEF ContraOf
<1>5. /\ Cardinality(ContraOf(new)) <= Cardinality(ContraOf(obs))
      /\ Cardinality(ContraOf(new)) \in Nat /\ Cardinality(ContraOf(obs)) \in Nat
  BY <1>4, FewerRules
<1>6. DoubtOf(new) <= DoubtOf(obs) /\ DoubtOf(new) \in 0..100 /\ DoubtOf(obs) \in 0..100
  BY <1>1, <1>3, <1>4, DoubtFewer DEF DoubtOf
<1>7. SureOf(obs) <= SureOf(new)
  BY <1>1, <1>3, <1>6, LessDoubt DEF SureOf
<1>8. RiskOf(new) <= RiskOf(obs)
  BY <1>1, <1>3, <1>5, FewerWarnings DEF RiskOf
<1>9. ASSUME Mind!Reason(obs).trade PROVE Mind!Reason(new).trade
  <2>1. TradeOf(obs)
    BY <1>9, ChainIs
  <2>2. /\ Mind!Best(HypsOf(obs)).dir \in {"LONG", "SHORT"} /\ SureOf(obs) >= 60 /\ RiskOf(obs) <= 60
        /\ \A x \in ContraOf(obs) : Mind!Severity(x) # "HIGH"
    BY <2>1 DEF TradeOf, Mind!Tradeable
  <2>3. SureOf(new) >= 60 /\ RiskOf(new) <= 60
    <3>1. /\ SureOf(obs) \in 0..100 /\ SureOf(new) \in 0..100
          /\ RiskOf(obs) \in 0..100 /\ RiskOf(new) \in 0..100
      BY <1>1, <1>2 DEF SeenAs
    <3> QED BY <1>7, <1>8, <2>2, <3>1, PointsChain, Zenon
  <2>4. TradeOf(new)
    BY <1>3, <1>4, <2>2, <2>3 DEF TradeOf, Mind!Tradeable
  <2> QED BY <2>4, ChainIs
<1> DEFINE chain == Mind!Reason(obs)
           other == Mind!Reason(new)
           c == SureOf(obs)
           d == SureOf(new)
           r == RiskOf(obs)
           q == RiskOf(new)
           u == DoubtOf(obs)
           v == DoubtOf(new)
           n == Cardinality(ContraOf(obs))
           k == Cardinality(ContraOf(new))
           m == LackingOf(obs)
<1>10. SeenAs(chain, c, r, u, n, m) /\ SeenAs(other, d, q, v, k, m)
  BY <1>1, <1>2, <1>3
<1>11. c <= d /\ q <= r /\ v <= u /\ k <= n
  BY <1>5, <1>6, <1>7, <1>8
<1>12. chain.trade => other.trade
  BY <1>9
<1>13. Mind!Ready(chain, TRUE, score)
  OBVIOUS
<1>14. Mind!Ready(other, TRUE, score)
  <2> HIDE DEF chain, other, c, d, r, q, u, v, n, k, m
  <2> QED BY <1>10, <1>11, <1>12, <1>13, BetterReady
<1> QED BY <1>14

(* Whatever was observed, the judges agree on what is ready for paper, and  *)
(* bad news unsaid makes nothing less ready.                                *)
LEMMA AlwaysJudgedSoundly ==
  ASSUME NEW obs \in Seq(Mind!Observation)
  PROVE  Mind!JudgedSoundly(obs)
<1>1. CASE obs = <<>>
  <2>1. Mind!JudgesAgree(Mind!Reason(obs))
    BY <1>1, PaperIsReady, EmptyNotReady DEF Mind!JudgesAgree
  <2>2. Mind!BadNewsNeverHelps(obs)
    BY <1>1, EmptyNotReady DEF Mind!BadNewsNeverHelps
  <2> QED BY <2>1, <2>2 DEF Mind!JudgedSoundly
<1>2. CASE obs # <<>>
  <2>1. ASSUME Mind!FinalAction(Mind!Reason(obs)) = "PAPER_TRADE_ONLY"
        PROVE  /\ ~Mind!ShouldReject(Mind!Reason(obs)) /\ ~Mind!ShouldReduce(Mind!Reason(obs))
               /\ Mind!Biases(Mind!Reason(obs)) \cap {"OVERCONFIDENCE", "FORCED_TRADE"} = {}
               /\ Mind!WeightedBias(Mind!Reason(obs)) \in {Mind!Reason(obs).bias, "NEUTRAL"}
               /\ Mind!ScenarioConflict(Mind!Reason(obs)) <= 40
               /\ Mind!Adjusted(Mind!Reason(obs)) >= 40 /\ ~Mind!AuditPassed(Mind!Reason(obs))
    <3>1. Mind!Ready(Mind!Reason(obs), TRUE, 60)
      BY <2>1, PaperIsReady
    <3>2. /\ Mind!Reason(obs).trade /\ Mind!Reason(obs).bias \in Directional
          /\ SureOf(obs) >= 60 /\ RiskOf(obs) <= 60 /\ DoubtOf(obs) <= 40
          /\ Cardinality(ContraOf(obs)) <= 2 /\ LackingOf(obs) = 0
          /\ ForOf(obs) >= 6 /\ SureOf(obs) < 16 * ForOf(obs)
      BY <1>2, <3>1, ReadyIsCertain
    <3>3. /\ SeenAs(Mind!Reason(obs), SureOf(obs), RiskOf(obs), DoubtOf(obs), Cardinality(ContraOf(obs)), 0)
          /\ ForOf(obs) \in Nat
      BY <1>2, <3>2, ChainSeen
    <3>4. Mind!Reason(obs).for = ForOf(obs)
      BY <1>2, ChainIs
    <3> QED BY <3>2, <3>3, <3>4, JudgesMustAgree
  <2>2. Mind!JudgesAgree(Mind!Reason(obs))
    BY <2>1 DEF Mind!JudgesAgree
  <2>3. ASSUME NEW score \in {Mind!ForBacktest, Mind!ForSignal, Mind!ForPaper, Mind!ForLive},
               Mind!Ready(Mind!Reason(obs), TRUE, score), NEW i \in DOMAIN obs, NEW word
        PROVE  Mind!Ready(Mind!Reason(Mind!Unsaid(obs, i, word)), TRUE, score)
    <3>1. score \in Int
      BY DEF Mind!ForBacktest, Mind!ForSignal, Mind!ForPaper, Mind!ForLive
    <3>2. /\ Mind!Unsaid(obs, i, word) \in Seq(Mind!Observation) /\ Mind!Unsaid(obs, i, word) # <<>>
          /\ Fewer(obs, Mind!Unsaid(obs, i, word))
      BY UnsaidFewer
    <3> QED BY <1>2, <2>3, <3>1, <3>2, UnsaidStaysReady
  <2>4. Mind!BadNewsNeverHelps(obs)
    BY <2>3 DEF Mind!BadNewsNeverHelps
  <2> QED BY <2>2, <2>4 DEF Mind!JudgedSoundly
<1> QED BY <1>1, <1>2

(* Of any observations, an idea that is ready for paper is one the other     *)
(* judges see no harm in, and no telling word unsaid makes one less ready.  *)
THEOREM JudgedSoundlyAlways == Spec => []JudgedSoundly
<1>1. InputInv => JudgedSoundly
  BY AlwaysJudgedSoundly, MCResearchAssumption DEF InputInv, JudgedSoundly
<1> QED BY <1>1, InputStays, InputKept, PTL DEF Spec
-----------------------------------------------------------------------------
(* The backtests of the bounce                                             *)

LEMMA BounceCounts == \A S : Bounce!Cardinality(S) = Cardinality(S)
  BY DEF Bounce!Cardinality, Cardinality

LEMMA BounceSums ==
  ASSUME NEW D, IsFiniteSet(D), NEW w \in [D -> Int]
  PROVE  \E g : Sums(D, w, g) /\ Bounce!Sum(w) = g[D]
<1> DEFINE Adds(g) == g = [U \in SUBSET D |->
             IF U = {} THEN 0
             ELSE w[CHOOSE x \in U : TRUE] + g[U \ {CHOOSE x \in U : TRUE}]]
           f == CHOOSE g : Adds(g)
<1>1. ASSUME NEW g PROVE Adds(g) <=> FoldsAny(D, w, g)
  BY DEF FoldsAny, AnyOf
<1>2. \E g : Adds(g)
  <2> HIDE DEF Adds
  <2> QED BY <1>1, FoldsAnyExists
<1>3. FoldsAny(D, w, f)
  <2>1. Adds(f)
    BY <1>2
  <2> HIDE DEF Adds
  <2> QED BY <1>1, <2>1
<1>4. DOMAIN w = D
  OBVIOUS
<1>5. Bounce!Sum(w) = f[D]
  BY <1>4 DEF Bounce!Sum, Bounce!FoldFunction, Bounce!FoldFunctionOnSet, Bounce!MapThenFoldSet
<1> HIDE DEF f
<1> QED BY <1>3, <1>5, FoldsAnySums

LEMMA BounceLimits ==
  /\ BandPeriod \in Nat /\ BandSlack \in Nat /\ BandRatio \in Nat
  /\ VolumeBack \in Nat \ {0} /\ BandHolding \in Nat \ {0}
<1>1. Bounce!Limits
  BY MCResearchAssumption
<1> QED BY <1>1 DEF Bounce!Limits

(* Neither stop nor target was reached by a candle that closes between its  *)
(* low and its high: then the close is short of both.                       *)
LEMMA LongBetween ==
  ASSUME NEW e \in Int, NEW r \in Nat, NEW l \in Int, NEW h \in Int, NEW c \in Int,
         l <= c, c <= h, ~(200 * l <= 199 * e), ~(200 * h >= (200 + r) * e)
  PROVE  -e < 200 * 1 * (c - e) /\ 200 * 1 * (c - e) < r * e
<1> DEFINE q == r * e
<1>1. (200 + r) * e = 200 * e + q /\ q \in Int
  OBVIOUS
<1>2. ~(200 * h >= 200 * e + q)
  BY <1>1
<1> HIDE DEF q
<1>3. -e < 200 * (c - e) /\ 200 * (c - e) < q
  BY <1>1, <1>2
<1> QED BY <1>3 DEF q

LEMMA ShortBetween ==
  ASSUME NEW e \in Int, NEW r \in Nat, NEW l \in Int, NEW h \in Int, NEW c \in Int,
         l <= c, c <= h, ~(200 * h >= 201 * e), ~(200 * l <= (200 - r) * e)
  PROVE  -e < 200 * (-1) * (c - e) /\ 200 * (-1) * (c - e) < r * e
<1> DEFINE q == r * e
<1>1. (200 - r) * e = 200 * e - q /\ q \in Int
  OBVIOUS
<1>2. ~(200 * l <= 200 * e - q)
  BY <1>1
<1> HIDE DEF q
<1>3. -e < 200 * (e - c) /\ 200 * (e - c) < q
  BY <1>1, <1>2
<1>4. 200 * (-1) * (c - e) = 200 * (e - c)
  OBVIOUS
<1> QED BY <1>3, <1>4 DEF q

LEMMA LastLooked ==
  ASSUME NEW a \in Int, NEW b \in Int
  PROVE  /\ Bounce!Min({a, b}) \in {a, b}
         /\ Bounce!Min({a, b}) <= a /\ Bounce!Min({a, b}) <= b
<1>1. \E x \in {a, b} : \A y \in {a, b} : x <= y
  <2>1. CASE a <= b
    BY <2>1
  <2>2. CASE ~(a <= b)
    BY <2>2
  <2> QED BY <2>1, <2>2
<1>2. /\ Bounce!Min({a, b}) \in {a, b}
      /\ \A y \in {a, b} : Bounce!Min({a, b}) <= y
  BY <1>1 DEF Bounce!Min
<1> QED BY <1>2

(* What is asked of a signal so that its trade can be simulated.            *)
IsTradable(s) == s.dir \in {"LONG", "SHORT"} /\ s.entry \in Int /\ s.entry > 0

LEMMA ExpiredBetween ==
  ASSUME NEW cs \in Seq(Bounce!Candle), NEW j \in DOMAIN cs, NEW s, IsTradable(s),
         ~Bounce!StopHit(s, cs[j]), ~Bounce!TargetHit(s, cs[j])
  PROVE  /\ -s.entry < 200 * Bounce!Sign(s.dir) * (cs[j].c - s.entry)
         /\ 200 * Bounce!Sign(s.dir) * (cs[j].c - s.entry) < BandRatio * s.entry
<1> DEFINE e == s.entry
           l == cs[j].l
           h == cs[j].h
           c == cs[j].c
<1>1. cs[j] \in Bounce!Candle
  OBVIOUS
<1>2. l \in Int /\ h \in Int /\ c \in Int /\ l <= c /\ c <= h
  BY <1>1 DEF Bounce!Candle
<1>3. e \in Int /\ BandRatio \in Nat
  BY BounceLimits DEF IsTradable
<1>4. CASE s.dir = "LONG"
  <2>1. ~(200 * l <= 199 * e) /\ ~(200 * h >= (200 + BandRatio) * e)
    BY <1>4 DEF Bounce!StopHit, Bounce!TargetHit
  <2>2. Bounce!Sign(s.dir) = 1
    BY <1>4 DEF Bounce!Sign
  <2> HIDE DEF e, l, h, c
  <2>3. -e < 200 * 1 * (c - e) /\ 200 * 1 * (c - e) < BandRatio * e
    BY <1>2, <1>3, <2>1, LongBetween
  <2> QED BY <2>2, <2>3 DEF e, c
<1>5. CASE s.dir = "SHORT"
  <2>1. ~(200 * h >= 201 * e) /\ ~(200 * l <= (200 - BandRatio) * e)
    BY <1>5 DEF Bounce!StopHit, Bounce!TargetHit
  <2>2. Bounce!Sign(s.dir) = -1
    BY <1>5 DEF Bounce!Sign
  <2> HIDE DEF e, l, h, c
  <2>3. -e < 200 * (-1) * (c - e) /\ 200 * (-1) * (c - e) < BandRatio * e
    BY <1>2, <1>3, <2>1, ShortBetween
  <2> QED BY <2>2, <2>3 DEF e, c
<1> QED BY <1>4, <1>5 DEF IsTradable

LEMMA ProductsOrdered ==
  ASSUME NEW e \in Int, e > 0, NEW r \in Nat
  PROVE  -e <= r * e /\ r * e \in Int
<1>1. r * e >= 0 /\ r * e \in Int
  BY SMT
<1> QED BY <1>1

LEMMA SimulatedBounded ==
  ASSUME NEW cs \in Seq(Bounce!Candle), NEW k \in Nat, k < Len(cs), NEW s, IsTradable(s),
         NEW holding \in Nat \ {0}
  PROVE  Bounce!Bounded(Bounce!Simulate(cs, k, s, holding))
<1> DEFINE last == Bounce!Min({k + holding, Len(cs)})
           hits == {j \in Bounce!Considered(cs, k, holding) :
                      Bounce!StopHit(s, cs[j]) \/ Bounce!TargetHit(s, cs[j])}
           first == Bounce!Min(hits)
           t == Bounce!Simulate(cs, k, s, holding)
           p == BandRatio * s.entry
<1>1. Len(cs) \in Nat /\ DOMAIN cs = 1..Len(cs)
  OBVIOUS
<1>2. last \in k + 1..Len(cs)
  <2>1. k + holding \in Int /\ k + holding >= k + 1 /\ Len(cs) \in Int /\ Len(cs) >= k + 1
    BY <1>1
  <2>2. last \in {k + holding, Len(cs)} /\ last <= Len(cs)
    BY <2>1, LastLooked
  <2> HIDE DEF last
  <2> QED BY <2>1, <2>2
<1>3. s.entry \in Int /\ s.entry > 0 /\ -s.entry <= p /\ p \in Int /\ -s.entry <= -s.entry
  BY BounceLimits, ProductsOrdered DEF IsTradable
<1>4. CASE hits = {}
  <2>1. last \in Bounce!Considered(cs, k, holding)
    <3>1. last \in k + 1..last
      BY <1>1, <1>2
    <3> QED BY <3>1 DEF Bounce!Considered
  <2>2. ~Bounce!StopHit(s, cs[last]) /\ ~Bounce!TargetHit(s, cs[last])
    <3> HIDE DEF last
    <3> QED BY <1>4, <2>1
  <2>3. last \in DOMAIN cs
    BY <1>1, <1>2
  <2> DEFINE g == 200 * Bounce!Sign(s.dir) * (cs[last].c - s.entry)
  <2>4. t.gain = g /\ t.entry = s.entry
    BY <1>4 DEF Bounce!Simulate
  <2> HIDE DEF last
  <2>5. -s.entry < g /\ g < p
    BY <2>2, <2>3, ExpiredBetween
  <2>6. g \in Int
    <3>1. cs[last] \in Bounce!Candle
      BY <2>3
    <3>2. cs[last].c \in Int /\ Bounce!Sign(s.dir) \in {1, -1}
      BY <3>1 DEF Bounce!Candle, Bounce!Sign
    <3> QED BY <1>3, <3>2
  <2> HIDE DEF g, t
  <2>7. -s.entry <= g /\ g <= p
    BY <1>3, <2>5, <2>6
  <2>8. Bounce!Bounded(t)
    BY <2>4, <2>5, <2>7 DEF Bounce!Bounded
  <2> QED BY <2>8 DEF t
<1>5. CASE hits # {} /\ Bounce!StopHit(s, cs[first])
  <2>1. t.gain = -s.entry /\ t.entry = s.entry /\ t.outcome = "STOP_HIT"
    BY <1>5 DEF Bounce!Simulate
  <2> HIDE DEF t
  <2>2. Bounce!Bounded(t)
    BY <1>3, <2>1 DEF Bounce!Bounded
  <2> QED BY <2>2 DEF t
<1>6. CASE hits # {} /\ ~Bounce!StopHit(s, cs[first])
  <2>1. t.gain = p /\ t.entry = s.entry /\ t.outcome = "TARGET_HIT"
    BY <1>6 DEF Bounce!Simulate
  <2>2. p <= p
    BY <1>3
  <2> HIDE DEF t
  <2>3. Bounce!Bounded(t)
    BY <1>3, <2>1, <2>2 DEF Bounce!Bounded
  <2> QED BY <2>3 DEF t
<1> QED BY <1>4, <1>5, <1>6

(* What the detector finds is a signal.                                     *)
LEMMA DetectedIsTradable ==
  ASSUME NEW cs \in Seq(Bounce!Candle), NEW i \in Int, NEW halves,
         Bounce!Detects(cs, i, halves)
  PROVE  IsTradable(Bounce!Signal(cs, i)) /\ i \in Nat /\ i < Len(cs)
<1>1. i \in Nat /\ i < Len(cs) /\ i > 0 /\ cs[i + 1].o > 0
  BY BounceLimits DEF Bounce!Detects
<1>2. cs[i + 1] \in Bounce!Candle
  <2>1. i + 1 \in 1..Len(cs)
    BY <1>1
  <2> QED BY <2>1
<1>3. cs[i + 1].o \in Int
  BY <1>2 DEF Bounce!Candle
<1> QED BY <1>1, <1>3 DEF Bounce!Signal, IsTradable

LEMMA EntryIsFound ==
  ASSUME NEW cs \in Seq(Bounce!Candle), Len(cs) >= 2, NEW s
  PROVE  Bounce!EntryFound(cs, s) \in Nat
<1> DEFINE near == {i \in DOMAIN cs : 1000 * Bounce!Gap(cs[i].c, s.entry) < s.entry}
<1>1. Len(cs) \in Nat /\ DOMAIN cs = 1..Len(cs)
  OBVIOUS
<1>2. CASE near = {}
  BY <1>1, <1>2 DEF Bounce!EntryFound
<1>3. CASE near # {}
  <2>1. near \in SUBSET (1..Len(cs))
    BY <1>1
  <2>2. Bounce!EntryFound(cs, s) = Highest(near)
    BY <1>3 DEF Bounce!EntryFound, Bounce!Max, Highest
  <2> HIDE DEF near
  <2>3. Highest(near) \in near
    BY <1>1, <1>3, <2>1, HighestIsIn
  <2>4. Highest(near) \in 1..Len(cs)
    BY <2>1, <2>3, Zenon
  <2>5. 1..Len(cs) \subseteq Nat
    BY <1>1
  <2> QED BY <2>2, <2>4, <2>5, Zenon
<1> QED BY <1>2, <1>3

LEMMA DeviationsBounded ==
  ASSUME NEW cs \in Seq(Bounce!Candle), NEW n \in DOMAIN Bounce!DeviationTrades(cs, TRUE)
  PROVE  Bounce!Bounded(Bounce!DeviationTrades(cs, TRUE)[n])
<1> DEFINE at == IF n = 0 THEN Len(cs) - 2 ELSE n
           s == Bounce!Signal(cs, at)
           k == Bounce!EntryFound(cs, s)
<1>1. n \in Bounce!Signals(cs, TRUE) /\ k < Len(cs)
  BY DEF Bounce!DeviationTrades
<1>2. Bounce!DeviationTrades(cs, TRUE)[n] = Bounce!Simulate(cs, k, s, BandHolding)
  BY <1>1 DEF Bounce!DeviationTrades
<1>3. Len(cs) \in Nat
  OBVIOUS
<1>4. at \in Int /\ Bounce!Detects(cs, at, BandVolume)
  BY <1>1, <1>3 DEF Bounce!Signals
<1> HIDE DEF at
<1>5. IsTradable(s) /\ at \in Nat /\ at < Len(cs)
  BY <1>4, DetectedIsTradable
<1>6. Len(cs) >= 2
  BY <1>3, <1>4, BounceLimits DEF Bounce!Detects
<1> HIDE DEF s
<1>7. k \in Nat
  BY <1>6, EntryIsFound
<1> HIDE DEF k
<1> QED BY <1>1, <1>2, <1>5, <1>7, SimulatedBounded, BounceLimits

LEMMA VolumeTradesBounded ==
  ASSUME NEW cs \in Seq(Bounce!Candle), NEW halves,
         NEW i \in DOMAIN Bounce!BacktestEitherVolume(cs, halves)
  PROVE  Bounce!Bounded(Bounce!BacktestEitherVolume(cs, halves)[i])
<1> DEFINE s == Bounce!Signal(cs, i)
<1>1. /\ i \in Bounce!Looked(cs) /\ Bounce!Detects(cs, i, 0)
      /\ Bounce!BacktestEitherVolume(cs, halves)[i] = Bounce!Simulate(cs, i + 1, s, Len(cs))
  BY DEF Bounce!BacktestEitherVolume, Bounce!VolumeTrades, Bounce!New, Bounce!TakenByEitherVolume
<1>2. Len(cs) \in Nat
  OBVIOUS
<1>3. i \in Int /\ i + 1 < Len(cs)
  BY <1>1, <1>2, BounceLimits DEF Bounce!Looked
<1>4. IsTradable(s) /\ i \in Nat
  BY <1>1, <1>3, DetectedIsTradable
<1> HIDE DEF s
<1>5. i + 1 \in Nat /\ Len(cs) \in Nat \ {0}
  BY <1>2, <1>3, <1>4
<1> QED BY <1>1, <1>3, <1>4, <1>5, SimulatedBounded

(* Half a ratio of nothing is reached by any volume.                        *)
LEMMA AnyVolumeIsEnough ==
  ASSUME NEW cs \in Seq(Bounce!Candle), NEW i \in 1..Len(cs)
  PROVE  Bounce!Voluminous(cs, i, 0)
<1> DEFINE S == i - VolumeBack..i - 1
           w == [j \in S |-> cs[j].v]
           before == Bounce!Sum(w)
<1>1. CASE i <= VolumeBack
  BY <1>1 DEF Bounce!Voluminous
<1>2. CASE i > VolumeBack
  <2>1. VolumeBack \in Nat /\ Len(cs) \in Nat /\ i \in Nat
    BY BounceLimits
  <2>2. IsFiniteSet(S)
    BY <2>1, FS_Interval
  <2>3. \A j \in S : j \in 1..Len(cs)
    BY <1>2, <2>1
  <2>4. \A j \in S : cs[j] \in Bounce!Candle
    BY <2>3
  <2>5. w \in [S -> Int]
    BY <2>4 DEF Bounce!Candle
  <2> HIDE DEF w, S
  <2>6. PICK g : Sums(S, w, g) /\ before = g[S]
    BY <2>2, <2>5, BounceSums
  <2>7. before \in Int
    BY <2>6 DEF Sums
  <2>8. cs[i].v \in Nat
    <3>1. cs[i] \in Bounce!Candle
      OBVIOUS
    <3> QED BY <3>1 DEF Bounce!Candle
  <2>9. Bounce!Voluminous(cs, i, 0) <=>
          (IF i <= VolumeBack \/ before = 0 THEN 0 <= 0
           ELSE 2 * VolumeBack * cs[i].v >= 0 * before)
    BY DEF Bounce!Voluminous, S, w
  <2> HIDE DEF before
  <2>10. 0 * before = 0
    BY <2>7
  <2>11. 2 * VolumeBack * cs[i].v >= 0
    BY <2>1, <2>8
  <2> QED BY <2>9, <2>10, <2>11
<1> QED BY <1>1, <1>2, BounceLimits

LEMMA TakenAlike ==
  ASSUME NEW cs \in Seq(Bounce!Candle), NEW halves \in Nat, NEW i \in Int
  PROVE  Bounce!TakenByBB(cs, i, halves) <=> Bounce!TakenByEntryVolume(cs, i, halves)
<1>1. CASE halves > 0
  BY <1>1 DEF Bounce!TakenByBB, Bounce!TakenByEntryVolume, Bounce!Detects
<1>2. CASE halves = 0
  <2>1. Bounce!Detects(cs, i, 0) => Bounce!Voluminous(cs, i + 1, 0)
    <3> SUFFICES ASSUME Bounce!Detects(cs, i, 0) PROVE Bounce!Voluminous(cs, i + 1, 0)
      OBVIOUS
    <3>1. i \in Nat /\ i < Len(cs) /\ Len(cs) \in Nat
      BY DetectedIsTradable
    <3>2. i + 1 \in 1..Len(cs)
      BY <3>1
    <3> QED BY <3>2, AnyVolumeIsEnough
  <2> QED BY <1>2, <2>1 DEF Bounce!TakenByBB, Bounce!TakenByEntryVolume
<1> QED BY <1>1, <1>2

(* Of the signals that share direction and entry with one that was taken,   *)
(* one is the first.                                                        *)
LEMMA FirstOfKey ==
  ASSUME NEW cs \in Seq(Bounce!Candle), NEW taken, taken \subseteq Nat, NEW i \in taken
  PROVE  \E j \in Bounce!New(cs, taken) : Bounce!Key(cs, j) = Bounce!Key(cs, i)
<1> DEFINE T == {j \in taken : Bounce!Key(cs, j) = Bounce!Key(cs, i)}
<1>1. T \subseteq Nat /\ T # {}
  OBVIOUS
<1>2. PICK j \in T : \A m \in T : j <= m
  BY <1>1, LeastNumber
<1>3. j \in Bounce!New(cs, taken)
  BY <1>2 DEF Bounce!New
<1> QED BY <1>2, <1>3

LEMMA MoreTakenMoreNew ==
  ASSUME NEW cs \in Seq(Bounce!Candle), NEW less, NEW more, less \subseteq more,
         more \subseteq Nat, IsFiniteSet(more)
  PROVE  Cardinality(Bounce!New(cs, less)) <= Cardinality(Bounce!New(cs, more))
<1> DEFINE A == Bounce!New(cs, less)
           B == Bounce!New(cs, more)
           f == [i \in A |-> CHOOSE j \in B : Bounce!Key(cs, j) = Bounce!Key(cs, i)]
<1>1. A \subseteq less /\ B \subseteq more
  BY DEF Bounce!New
<1>2. \A i \in A : f[i] \in B /\ Bounce!Key(cs, f[i]) = Bounce!Key(cs, i)
  <2> SUFFICES ASSUME NEW i \in A
               PROVE  f[i] \in B /\ Bounce!Key(cs, f[i]) = Bounce!Key(cs, i)
    OBVIOUS
  <2>1. i \in more
    BY <1>1
  <2>2. \E j \in B : Bounce!Key(cs, j) = Bounce!Key(cs, i)
    BY <2>1, FirstOfKey
  <2> QED BY <2>2
<1>3. \A i, j \in A : Bounce!Key(cs, i) = Bounce!Key(cs, j) => i <= j /\ j <= i
  BY <1>1 DEF Bounce!New
<1>4. \A i, j \in A : Bounce!Key(cs, i) = Bounce!Key(cs, j) => i = j
  <2>1. \A i \in A : i \in Nat
    BY <1>1
  <2> HIDE DEF A
  <2> QED BY <1>3, <2>1
<1>5. IsFiniteSet(B)
  BY <1>1, FS_Subset
<1>6. DOMAIN f = A
  OBVIOUS
<1> HIDE DEF f, A, B
<1>7. f \in [A -> B]
  <2>1. f = [i \in A |-> f[i]]
    BY <1>6 DEF f
  <2> QED BY <1>2, <2>1
<1>8. f \in Injection(A, B)
  BY <1>2, <1>4, <1>7 DEF Injection, IsInjective
<1> QED BY <1>5, <1>8, FS_Injection DEF A, B

(* backtest_bb and backtest_bb_entry_volume: what is called volume of the   *)
(* signal candle is that of the entry candle, so that both trade alike; and *)
(* asking either candle takes no fewer trades.                              *)
THEOREM VolumesAlwaysAlike ==
  ASSUME NEW cs \in Seq(Bounce!Candle), NEW halves \in Nat
  PROVE  Bounce!VolumesAlike(cs, halves) /\ Bounce!EitherTakesMore(cs, halves)
<1> DEFINE bb == {i \in Bounce!Looked(cs) : Bounce!TakenByBB(cs, i, halves)}
           entry == {i \in Bounce!Looked(cs) : Bounce!TakenByEntryVolume(cs, i, halves)}
           either == {i \in Bounce!Looked(cs) : Bounce!TakenByEitherVolume(cs, i, halves)}
<1>1. Len(cs) \in Nat
  OBVIOUS
<1>2. \A i \in Bounce!Looked(cs) : i \in Nat
  BY <1>1, BounceLimits DEF Bounce!Looked
<1>3. \A i \in Bounce!Looked(cs) :
        Bounce!TakenByBB(cs, i, halves) <=> Bounce!TakenByEntryVolume(cs, i, halves)
  BY <1>2, TakenAlike
<1>4. bb = entry
  BY <1>3
<1>5. entry \subseteq either
  BY DEF Bounce!TakenByEntryVolume, Bounce!TakenByEitherVolume
<1>6. either \subseteq Nat
  BY <1>2
<1>7. IsFiniteSet(Bounce!Looked(cs))
  BY <1>1, BounceLimits, FS_Interval DEF Bounce!Looked
<1>8. IsFiniteSet(either)
  <2>1. either \subseteq Bounce!Looked(cs)
    OBVIOUS
  <2> HIDE DEF either
  <2> QED BY <1>7, <2>1, FS_Subset
<1>9. Bounce!BacktestBB(cs, halves) = Bounce!VolumeTrades(cs, bb)
  BY DEF Bounce!BacktestBB
<1>10. Bounce!BacktestEntryVolume(cs, halves) = Bounce!VolumeTrades(cs, entry)
  BY DEF Bounce!BacktestEntryVolume
<1>11. Bounce!BacktestEitherVolume(cs, halves) = Bounce!VolumeTrades(cs, either)
  BY DEF Bounce!BacktestEitherVolume
<1>12. \A taken : DOMAIN Bounce!VolumeTrades(cs, taken) = Bounce!New(cs, taken)
  BY DEF Bounce!VolumeTrades
<1> HIDE DEF bb, entry, either
<1>13. Cardinality(Bounce!New(cs, bb)) <= Cardinality(Bounce!New(cs, either))
  BY <1>4, <1>5, <1>6, <1>8, MoreTakenMoreNew
<1>14. /\ Bounce!Cardinality(DOMAIN Bounce!BacktestBB(cs, halves)) = Cardinality(Bounce!New(cs, bb))
       /\ Bounce!Cardinality(DOMAIN Bounce!BacktestEitherVolume(cs, halves))
            = Cardinality(Bounce!New(cs, either))
  BY <1>9, <1>11, <1>12, BounceCounts
<1>15. /\ Cardinality(Bounce!New(cs, bb)) \in Int
       /\ Cardinality(Bounce!New(cs, either)) \in Int
  <2>1. IsFiniteSet(bb)
    BY <1>4, <1>5, <1>8, FS_Subset
  <2>2. Bounce!New(cs, bb) \subseteq bb /\ Bounce!New(cs, either) \subseteq either
    BY DEF Bounce!New
  <2>3. IsFiniteSet(Bounce!New(cs, bb)) /\ IsFiniteSet(Bounce!New(cs, either))
    BY <1>8, <2>1, <2>2, FS_Subset
  <2> QED BY <2>3, FS_CardinalityType
<1>16. Cardinality(Bounce!New(cs, either)) >= Cardinality(Bounce!New(cs, bb))
  BY <1>13, <1>15
<1> QED BY <1>4, <1>9, <1>10, <1>14, <1>16 DEF Bounce!VolumesAlike, Bounce!EitherTakesMore

(* Of any candles that close within their range, no trade of the backtests  *)
(* loses more than its risk or gains more than its target, and asking       *)
(* either candle for volume takes no fewer trades than asking one.          *)
THEOREM BacktestsStayBounded == Spec => []BacktestsBounded
<1>1. InputInv => BacktestsBounded
  <2> SUFFICES ASSUME InputInv, topic = "bounce", NEW halves \in Volumes
               PROVE  Bounce!ResultsBounded(input, halves) /\ Bounce!EitherTakesMore(input, halves)
    BY DEF BacktestsBounded
  <2>1. input \in Seq(Bounce!Candle) /\ halves \in Nat
    BY MCResearchAssumption DEF InputInv
  <2>2. Bounce!ResultsBounded(input, halves)
    BY <2>1, DeviationsBounded, VolumeTradesBounded DEF Bounce!ResultsBounded
  <2> QED BY <2>1, <2>2, VolumesAlwaysAlike
<1> QED BY <1>1, InputStays, InputKept, PTL DEF Spec
=============================================================================
