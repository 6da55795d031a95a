------------------------ MODULE SelectiveReplayProofs ------------------------
(***************************************************************************)
(* The limits of the selective replay for data of any length, any gates    *)
(* and any cooldowns, as long as the symbol's cooldown is not zero.        *)
(***************************************************************************)
EXTENDS SelectiveReplay, FiniteSetTheorems, TLAPS

(* The candidates of the day are known by their candles.                    *)
CandsInv ==
  /\ \A c \in cands : c.at <= clock /\ DayOf[c.at] = DayOf[clock]
  /\ \A c, d \in cands : c.at = d.at => c = d
  /\ todo # {} => pc = "select"
  /\ allowed # <<>> => pc # "candle"

(* A candidate would be refused now, unless it is the one that came with    *)
(* this candle and has not been visited yet.  This is why looking at all of *)
(* them again does no harm.                                                 *)
LateInv == \A c \in cands : (c \in todo /\ c.at = clock) \/ Refused(c)

(* The selector's memory covers every trade, and what it has allowed but    *)
(* not traded is one candidate of this candle, at a distance from them.     *)
Covered(t) ==
  /\ t.at <= clock
  /\ lastSym # None /\ t.at <= lastSym
  /\ lastDir[t.dir] # None /\ t.at <= lastDir[t.dir]
Far(t) ==
  /\ clock - t.at >= SymbolCooldown
  /\ t.dir = allowed[1].dir => clock - t.at >= DirectionCooldown
MemoryInv ==
  /\ lastSym # None => lastSym <= clock
  /\ \A t \in Trades : Covered(t)
  /\ allowed # <<>> =>
       /\ Len(allowed) = 1 /\ allowed[1] \in cands /\ allowed[1].at = clock
       /\ lastSym = clock /\ lastDir[allowed[1].dir] = clock
       /\ \A t \in Trades : Far(t)

TypeInv == TypeOK /\ IsFiniteSet(Trades) /\ CandsInv
IInv == TypeInv /\ LateInv /\ MemoryInv /\ PlanMatchesCandidate /\ Spaced

-----------------------------------------------------------------------------
(* What a step may do, as far as the invariants can tell                   *)

(* Selector and trades stay; a day may begin and a candidate may come.      *)
NewCandle ==
  /\ pc = "candle" /\ clock' = clock + 1 /\ clock < MaxCandles
  /\ lastSym' = lastSym /\ lastDir' = lastDir /\ Trades' = Trades /\ allowed' = allowed
  /\ IF DayOf[clock + 1] = DayOf[clock]
     THEN count' = count /\ losses' = losses
     ELSE count' = 0 /\ losses' = 0
  /\ \/ cands' = OfDay(cands) /\ todo' = todo /\ pc' = pc
     \/ \E c \in Candidates :
          /\ c.at = clock' /\ cands' = OfDay(cands) \cup {c}
          /\ \/ todo' = todo /\ losses' >= MaxLosses /\ pc' = pc
             \/ todo' = cands' /\ pc' = "select"

(* A trade is opened for the allowed candidate; the day's losses change.    *)
Opened ==
  \E c \in cands :
    /\ pc = "trade" /\ allowed # <<>> /\ c.at = clock
    /\ Trades' = Trades \cup {[at |-> clock, for |-> Head(allowed).at, dir |-> c.dir]}
    /\ allowed' = Tail(allowed)
    /\ UNCHANGED <<clock, cands, count, lastSym, lastDir, pc, todo>>

LEMMA AdvanceIsNewCandle ==
  ASSUME TypeInv, Skip \/ \E c \in Candidates : Register(c)
  PROVE  NewCandle
<1>1. Advance => /\ pc = "candle" /\ clock' = clock + 1 /\ clock < MaxCandles
                 /\ lastSym' = lastSym /\ lastDir' = lastDir /\ allowed' = allowed
                 /\ Trades' = Trades
                 /\ IF DayOf[clock + 1] = DayOf[clock]
                    THEN count' = count /\ losses' = losses
                    ELSE count' = 0 /\ losses' = 0
  BY DEF Advance, simulator, Trades
<1>2. CASE Skip
  BY <1>1, <1>2 DEF Skip, NewCandle
<1>3. ASSUME NEW c \in Candidates, Register(c) PROVE NewCandle
  <2>1. Advance /\ c.at = clock' /\ cands' = OfDay(cands) \cup {c}
    BY <1>3 DEF Register
  <2>2. \/ todo' = todo /\ losses' >= MaxLosses /\ pc' = pc
        \/ todo' = cands' /\ pc' = "select"
    BY <1>3 DEF Register
  <2> QED BY <1>1, <2>1, <2>2 DEF NewCandle
<1> QED BY <1>2, <1>3

LEMMA TradeIsOpened ==
  ASSUME TypeInv, Trade
  PROVE  Opened
<1>1. PICK c \in cands, flat \in BOOLEAN :
       LET new == [at |-> clock, for |-> Head(allowed).at, dir |-> c.dir]
           ts == DOMAIN active \cup {new}
           held == [t \in ts |-> IF t \in DOMAIN active THEN active[t] ELSE 0]
       IN /\ c.at = clock
          /\ \E touched \in [ts -> SUBSET {"stop", "target"}] :
               LET exits == [t \in ts |-> Exit(held[t], touched[t])]
                   closed == {t \in ts : exits[t] # "open"}
               IN /\ active' = [t \in Standing(ts, exits) |-> held[t] + 1]
                  /\ completed' = [t \in closed \cup DOMAIN completed |->
                                   IF t \in closed THEN exits[t] ELSE completed[t]]
  BY DEF Trade
<1> DEFINE new == [at |-> clock, for |-> Head(allowed).at, dir |-> c.dir]
           ts == DOMAIN active \cup {new}
           held == [t \in ts |-> IF t \in DOMAIN active THEN active[t] ELSE 0]
<1>2. PICK touched \in [ts -> SUBSET {"stop", "target"}] :
        LET exits == [t \in ts |-> Exit(held[t], touched[t])]
            closed == {t \in ts : exits[t] # "open"}
        IN /\ active' = [t \in Standing(ts, exits) |-> held[t] + 1]
           /\ completed' = [t \in closed \cup DOMAIN completed |->
                             IF t \in closed THEN exits[t] ELSE completed[t]]
  BY <1>1
<1> DEFINE exits == [t \in ts |-> Exit(held[t], touched[t])]
           closed == {t \in ts : exits[t] # "open"}
<1>3. DOMAIN active' = ts \ closed /\ DOMAIN completed' = closed \cup DOMAIN completed
  BY <1>2 DEF Standing
<1>4. Trades' = Trades \cup {new}
  BY <1>3 DEF Trades
<1> QED BY <1>1, <1>4 DEF Trade, Opened

-----------------------------------------------------------------------------
(* Types                                                                   *)

LEMMA DayMonotone ==
  ASSUME NEW j \in 0..MaxCandles, NEW k \in 0..MaxCandles, j <= k
  PROVE  DayOf[j] \in Nat /\ DayOf[k] \in Nat /\ DayOf[j] <= DayOf[k]
  BY SelectiveReplayAssumption

LEMMA NewDayEmpty ==
  ASSUME TypeInv, clock < MaxCandles, clock' = clock + 1, DayOf[clock + 1] # DayOf[clock]
  PROVE  OfDay(cands) = {}
  BY DEF TypeInv, CandsInv, OfDay

LEMMA OldDayKept ==
  ASSUME TypeInv, clock' = clock + 1, DayOf[clock + 1] = DayOf[clock]
  PROVE  OfDay(cands) = cands
  BY DEF TypeInv, CandsInv, OfDay

LEMMA NewCandleTyped ==
  ASSUME TypeInv, Skip \/ \E c \in Candidates : Register(c)
  PROVE  TypeInv'
<1>1. NewCandle
  BY AdvanceIsNewCandle
<1>2. clock \in 0..MaxCandles /\ MaxCandles \in Nat
  BY SelectiveReplayAssumption DEF TypeInv, TypeOK
<1>3. clock' \in 0..MaxCandles /\ clock' = clock + 1
  BY <1>1, <1>2 DEF NewCandle
<1>4. count' \in Nat /\ losses' \in Nat /\ UNCHANGED <<lastSym, lastDir, allowed, active, completed>>
  BY DEF Skip, Register, Advance, simulator, TypeInv, TypeOK
<1>5. /\ cands' \subseteq Candidates /\ todo' \subseteq cands' /\ pc' \in {"candle", "select", "trade"}
      /\ todo' # {} => pc' = "select"
      /\ allowed' = <<>>
  <2>1. todo = {} /\ allowed = <<>>
    BY <1>1 DEF NewCandle, TypeInv, CandsInv
  <2>2. OfDay(cands) \subseteq Candidates
    BY DEF OfDay, TypeInv, TypeOK
  <2> QED BY <1>1, <2>1, <2>2 DEF NewCandle, TypeInv, TypeOK
<1>6. /\ \A c \in cands' : c.at <= clock' /\ DayOf[c.at] = DayOf[clock']
      /\ \A c, d \in cands' : c.at = d.at => c = d
  <2>1. \A c \in cands' : c \in cands \/ c.at = clock'
    BY <1>1 DEF NewCandle, OfDay
  <2>2. \A c \in cands : c.at <= clock /\ c.at # clock'
    BY <1>2, <1>3 DEF TypeInv, TypeOK, CandsInv, Candidates
  <2>3. \A c, d \in cands' : c.at = clock' /\ d.at = clock' => c = d
    BY <1>1, <2>2 DEF NewCandle, OfDay
  <2>4. \A c \in cands' : DayOf[c.at] = DayOf[clock']
    BY <1>1 DEF NewCandle, OfDay
  <2>5. \A c \in cands : c.at \in 1..MaxCandles
    BY DEF TypeInv, TypeOK, Candidates
  <2>6. \A c \in cands' : c.at <= clock'
    BY <1>2, <1>3, <2>1, <2>2, <2>5
  <2> QED BY <2>1, <2>2, <2>3, <2>4, <2>6 DEF TypeInv, CandsInv
<1>7. Trades' = Trades
  BY <1>1 DEF NewCandle
<1> QED BY <1>3, <1>4, <1>5, <1>6, <1>7 DEF TypeInv, TypeOK, CandsInv

LEMMA SelectTyped ==
  ASSUME TypeInv, (\E c \in todo : Allow(c) \/ Reject(c)) \/ Selected \/ Traded
  PROVE  TypeInv'
<1> USE DEF TypeInv, TypeOK, CandsInv, Trades
<1>1. ASSUME NEW c \in todo, Allow(c) PROVE TypeInv'
  <2>1. c \in Candidates /\ c.at \in 1..MaxCandles /\ c.dir \in Directions
    BY DEF Candidates
  <2>2. lastDir' \in [Directions -> 1..MaxCandles \cup {None}] /\ allowed' \in Seq(Candidates)
    BY <1>1, <2>1 DEF Allow
  <2> QED BY <1>1, <2>1, <2>2 DEF Allow, simulator
<1>2. ASSUME NEW c \in todo, Reject(c) PROVE TypeInv'
  BY <1>2 DEF Reject, selector, simulator
<1>3. CASE Selected \/ Traded
  BY <1>3 DEF Selected, Traded, selector, simulator
<1> QED BY <1>1, <1>2, <1>3

LEMMA TradeTyped ==
  ASSUME TypeInv, MemoryInv, Trade
  PROVE  TypeInv' /\ losses' >= losses + 1
<1>1. PICK c \in cands, flat \in BOOLEAN :
       LET new == [at |-> clock, for |-> Head(allowed).at, dir |-> c.dir]
           ts == DOMAIN active \cup {new}
           held == [t \in ts |-> IF t \in DOMAIN active THEN active[t] ELSE 0]
       IN /\ c.at = clock
          /\ \E touched \in [ts -> SUBSET {"stop", "target"}] :
               LET exits == [t \in ts |-> Exit(held[t], touched[t])]
                   closed == {t \in ts : exits[t] # "open"}
               IN /\ active' = [t \in Standing(ts, exits) |-> held[t] + 1]
                  /\ completed' = [t \in closed \cup DOMAIN completed |->
                                   IF t \in closed THEN exits[t] ELSE completed[t]]
                  /\ \E won \in SUBSET {t \in closed : exits[t] # "stop"} :
                       losses' = losses + LossesRecorded(closed \ won)
  BY DEF Trade
<1> DEFINE new == [at |-> clock, for |-> Head(allowed).at, dir |-> c.dir]
           ts == DOMAIN active \cup {new}
           held == [t \in ts |-> IF t \in DOMAIN active THEN active[t] ELSE 0]
<1>2. PICK touched \in [ts -> SUBSET {"stop", "target"}] :
        LET exits == [t \in ts |-> Exit(held[t], touched[t])]
            closed == {t \in ts : exits[t] # "open"}
        IN /\ active' = [t \in Standing(ts, exits) |-> held[t] + 1]
           /\ completed' = [t \in closed \cup DOMAIN completed |->
                             IF t \in closed THEN exits[t] ELSE completed[t]]
           /\ \E won \in SUBSET {t \in closed : exits[t] # "stop"} :
                losses' = losses + LossesRecorded(closed \ won)
  BY <1>1
<1> DEFINE exits == [t \in ts |-> Exit(held[t], touched[t])]
           closed == {t \in ts : exits[t] # "open"}
<1>3. PICK won \in SUBSET closed : losses' = losses + LossesRecorded(closed \ won)
  BY <1>2
<1>4. /\ DOMAIN active' = ts \ closed /\ DOMAIN completed' = closed \cup DOMAIN completed
      /\ \A t \in ts \ closed : active'[t] = held[t] + 1
      /\ active' = [t \in ts \ closed |-> held[t] + 1]
      /\ completed' = [t \in closed \cup DOMAIN completed |->
                         IF t \in closed THEN exits[t] ELSE completed[t]]
  BY <1>2 DEF Standing
<1>5. Trades' = Trades \cup {new}
  BY <1>4 DEF Trades
<1>6. /\ allowed \in Seq(Candidates) /\ allowed # <<>> /\ allowed' = Tail(allowed)
      /\ c \in Candidates /\ c.at = clock
      /\ UNCHANGED <<clock, cands, count, lastSym, lastDir, pc, todo>>
  BY <1>1 DEF Trade, TypeInv, TypeOK
<1>7. Head(allowed) \in Candidates /\ allowed' \in Seq(Candidates)
  BY <1>6
<1>8. new \in TradeIds
  BY <1>6, <1>7 DEF TradeIds, Candidates
<1>9. \A t \in ts : held[t] \in Nat
  BY DEF TypeInv, TypeOK
<1>10. \A t \in closed : exits[t] \in {"stop", "target", "time"}
  <2> SUFFICES ASSUME NEW t \in closed PROVE exits[t] \in {"stop", "target", "time"}
    OBVIOUS
  <2>1. exits[t] = Exit(held[t], touched[t]) /\ exits[t] # "open"
    OBVIOUS
  <2> HIDE DEF exits, held
  <2> QED BY <2>1 DEF Exit
<1>11. new \notin Trades
  <2>1. \A t \in Trades : Far(t) /\ t \in TradeIds
    BY <1>6 DEF MemoryInv, TypeInv, TypeOK
  <2>2. \A t \in Trades : t.at # clock
    BY <2>1, <1>6, SelectiveReplayAssumption DEF Far, TradeIds, Candidates
  <2> QED BY <2>2
<1> HIDE DEF new, held, exits
<1>12. IsFiniteSet(Trades')
  <2>1. IsFiniteSet(Trades)
    BY DEF TypeInv
  <2> QED BY <1>5, <2>1, FS_AddElement
<1>13. losses' \in Nat /\ losses' >= losses + 1
  <2>1. IsFiniteSet(closed \ won)
    <3>1. closed \ won \subseteq Trades'
      BY <1>4 DEF Trades
    <3> HIDE DEF closed
    <3> QED BY <1>12, <3>1, FS_Subset
  <2>2. Cardinality(closed \ won) \in Nat
    BY <2>1, FS_CardinalityType
  <2>3. losses \in Nat
    BY DEF TypeInv, TypeOK
  <2> HIDE DEF closed
  <2> QED BY <1>3, <2>2, <2>3 DEF LossesRecorded
<1>14. active' \in [DOMAIN active' -> Nat]
  BY <1>4, <1>9
<1>15. completed' \in [DOMAIN completed' -> {"stop", "target", "time"}]
  <2>1. completed \in [DOMAIN completed -> {"stop", "target", "time"}]
    BY DEF TypeInv, TypeOK
  <2> HIDE DEF closed
  <2> QED BY <1>4, <1>10, <2>1
<1>16. DOMAIN active' \cap DOMAIN completed' = {}
  <2>1. DOMAIN active \cap DOMAIN completed = {} /\ new \notin DOMAIN completed
    BY <1>11 DEF TypeInv, TypeOK, Trades
  <2> QED BY <1>4, <2>1
<1>17. Trades' \subseteq TradeIds
  BY <1>5, <1>8 DEF TypeInv, TypeOK
<1>18. /\ clock' \in 0..MaxCandles /\ count' \in Nat
       /\ cands' \subseteq Candidates /\ todo' \subseteq cands'
       /\ lastSym' \in 1..MaxCandles \cup {None}
       /\ lastDir' \in [Directions -> 1..MaxCandles \cup {None}]
       /\ pc' \in {"candle", "select", "trade"}
  BY <1>6 DEF TypeInv, TypeOK
<1>19. CandsInv'
  <2>1. pc' # "candle"
    BY <1>6 DEF Trade
  <2> QED BY <1>6, <2>1 DEF TypeInv, CandsInv
<1> QED BY <1>7, <1>12, <1>13, <1>14, <1>15, <1>16, <1>17, <1>18, <1>19 DEF TypeInv, TypeOK

-----------------------------------------------------------------------------
(* Nothing is allowed late                                                 *)

(* Once something was allowed on this candle, everything is refused.        *)
LEMMA AllRefusedAfter ==
  ASSUME TypeInv, lastSym = clock, NEW c \in cands
  PROVE  Refused(c)
<1>1. clock \in Nat /\ c.at \in Nat /\ c.at <= clock /\ lastSym # None
  BY SelectiveReplayAssumption DEF TypeInv, TypeOK, CandsInv, Candidates
<1>2. Cooling(c.at, lastSym, SymbolCooldown)
  BY <1>1, SelectiveReplayAssumption DEF Cooling
<1> QED BY <1>2 DEF Refused

LEMMA NewCandleLate ==
  ASSUME TypeInv, LateInv, NewCandle
  PROVE  LateInv'
<1>1. \A c \in cands : Refused(c)
  BY DEF LateInv, NewCandle, TypeInv, CandsInv
<1>2. \A c \in OfDay(cands) : Refused(c)'
  <2>1. CASE DayOf[clock + 1] = DayOf[clock]
    BY <1>1, <2>1 DEF NewCandle, Refused, OfDay
  <2>2. CASE DayOf[clock + 1] # DayOf[clock]
    BY <2>2, NewDayEmpty DEF NewCandle
  <2> QED BY <2>1, <2>2
<1>3. CASE cands' = OfDay(cands)
  BY <1>2, <1>3 DEF LateInv
<1>4. ASSUME NEW c \in Candidates, c.at = clock', cands' = OfDay(cands) \cup {c},
             losses' >= MaxLosses \/ todo' = cands'
      PROVE  LateInv'
  <2>1. CASE losses' >= MaxLosses
    BY <2>1 DEF LateInv, Refused
  <2>2. CASE todo' = cands'
    BY <1>2, <1>4, <2>2 DEF LateInv
  <2> QED BY <1>4, <2>1, <2>2
<1> QED BY <1>3, <1>4 DEF NewCandle

(* What is allowed is the candidate of this candle, the first one allowed.  *)
LEMMA AllowedIsCurrent ==
  ASSUME TypeInv, LateInv, MemoryInv, NEW c \in todo, Allow(c)
  PROVE  c \in cands /\ c.at = clock /\ allowed = <<>>
<1>1. c \in cands /\ ~Refused(c)
  BY DEF Allow, TypeInv, TypeOK
<1>2. c.at = clock
  BY <1>1 DEF LateInv
<1>3. lastSym # clock
  BY <1>1, AllRefusedAfter
<1> QED BY <1>1, <1>2, <1>3 DEF MemoryInv

LEMMA SelectLate ==
  ASSUME TypeInv, LateInv, MemoryInv,
         (\E c \in todo : Allow(c) \/ Reject(c)) \/ Selected \/ Traded
  PROVE  LateInv'
<1>1. ASSUME NEW c \in todo, Allow(c) PROVE LateInv'
  <2>1. c.at = clock
    BY <1>1, AllowedIsCurrent
  <2>2. TypeInv' /\ lastSym' = clock' /\ cands' = cands
    BY <1>1, <2>1, SelectTyped DEF Allow
  <2>3. \A d \in cands' : Refused(d)'
    <3>1. clock' \in Nat /\ lastSym' # None
      BY <2>2, SelectiveReplayAssumption DEF TypeInv, TypeOK
    <3>2. \A d \in cands' : d.at \in Nat /\ d.at <= clock'
      BY <2>2 DEF TypeInv, TypeOK, CandsInv, Candidates
    <3>3. \A d \in cands' : Cooling(d.at, lastSym, SymbolCooldown)'
      BY <2>2, <3>1, <3>2, SelectiveReplayAssumption DEF Cooling
    <3> QED BY <3>3 DEF Refused
  <2> QED BY <2>3 DEF LateInv
<1>2. ASSUME NEW c \in todo, Reject(c) PROVE LateInv'
  BY <1>2 DEF Reject, selector, LateInv, Refused
<1>3. CASE Selected \/ Traded
  BY <1>3 DEF Selected, Traded, selector, LateInv, Refused
<1> QED BY <1>1, <1>2, <1>3

LEMMA TradeLate ==
  ASSUME TypeInv, LateInv, MemoryInv, Opened, TypeInv'
  PROVE  LateInv'
<1>1. lastSym' = clock' /\ cands' = cands
  BY DEF Opened, MemoryInv
<1>2. clock' \in Nat /\ lastSym' # None
  BY <1>1, SelectiveReplayAssumption DEF TypeInv, TypeOK
<1>3. \A d \in cands' : d.at \in Nat /\ d.at <= clock'
  BY DEF TypeInv, TypeOK, CandsInv, Candidates
<1>4. \A d \in cands' : Cooling(d.at, lastSym, SymbolCooldown)'
  BY <1>1, <1>2, <1>3, SelectiveReplayAssumption DEF Cooling
<1> QED BY <1>4 DEF LateInv, Refused

-----------------------------------------------------------------------------
(* The selector remembers                                                  *)

LEMMA NewCandleMemory ==
  ASSUME TypeInv, MemoryInv, NewCandle
  PROVE  MemoryInv'
<1>1. allowed' = <<>> /\ Trades' = Trades
  BY DEF NewCandle, TypeInv, CandsInv
<1>2. \A t \in Trades : t.at \in Int
  BY DEF TypeInv, TypeOK, TradeIds
<1>3. clock \in Int /\ clock' = clock + 1 /\ lastSym' = lastSym /\ lastDir' = lastDir
  BY DEF NewCandle, TypeInv, TypeOK
<1>4. \A t \in Trades' : Covered(t)'
  BY <1>1, <1>2, <1>3 DEF MemoryInv, Covered
<1>5. lastSym' # None => lastSym' <= clock'
  BY <1>3 DEF MemoryInv, TypeInv, TypeOK
<1> QED BY <1>1, <1>4, <1>5 DEF MemoryInv

LEMMA SelectMemory ==
  ASSUME TypeInv, LateInv, MemoryInv,
         (\E c \in todo : Allow(c) \/ Reject(c)) \/ Selected \/ Traded
  PROVE  MemoryInv'
<1>1. ASSUME NEW c \in todo, Allow(c) PROVE MemoryInv'
  <2>1. c \in cands /\ c.at = clock /\ allowed = <<>>
    BY <1>1, AllowedIsCurrent
  <2>2. /\ Trades' = Trades /\ clock' = clock /\ cands' = cands /\ lastSym' = clock
        /\ lastDir' = [lastDir EXCEPT ![c.dir] = clock]
        /\ allowed' = Append(allowed, c)
    BY <1>1, <2>1 DEF Allow, simulator, Trades
  <2>3. clock \in Nat /\ lastSym' # None /\ c \in Candidates /\ c.dir \in Directions
    BY <2>1, <2>2, SelectiveReplayAssumption DEF TypeInv, TypeOK, Candidates
  <2>4. Len(allowed') = 1 /\ allowed'[1] = c
    BY <2>1, <2>2
  <2>5. \A t \in Trades : t.at \in Nat /\ t.dir \in Directions
    BY DEF TypeInv, TypeOK, TradeIds
  <2>6. lastDir \in [Directions -> 1..MaxCandles \cup {None}] /\ lastSym \in 1..MaxCandles \cup {None}
    BY DEF TypeInv, TypeOK
  <2>7. \A t \in Trades' : Covered(t)'
    <3> SUFFICES ASSUME NEW t \in Trades PROVE Covered(t)'
      BY <2>2
    <3>1. t.at <= clock /\ lastDir[t.dir] # None /\ t.at <= lastDir[t.dir]
      BY DEF MemoryInv, Covered
    <3>2. lastDir'[t.dir] = IF t.dir = c.dir THEN clock ELSE lastDir[t.dir]
      BY <2>2, <2>5, <2>6
    <3> QED BY <2>2, <2>3, <3>1, <3>2, SelectiveReplayAssumption DEF Covered
  <2>8. \A t \in Trades' : Far(t)'
    <3> SUFFICES ASSUME NEW t \in Trades PROVE Far(t)'
      BY <2>2
    <3>1. /\ ~Cooling(clock, lastSym, SymbolCooldown)
          /\ ~Cooling(clock, lastDir[c.dir], DirectionCooldown)
      BY <1>1, <2>1 DEF Allow, Refused
    <3>2. Covered(t)
      BY DEF MemoryInv
    <3>3. clock - t.at >= SymbolCooldown
      BY <2>3, <2>5, <2>6, <3>1, <3>2, SelectiveReplayAssumption DEF Covered, Cooling
    <3>4. t.dir = c.dir => clock - t.at >= DirectionCooldown
      BY <2>3, <2>5, <2>6, <3>1, <3>2, SelectiveReplayAssumption DEF Covered, Cooling
    <3> QED BY <2>2, <2>4, <3>3, <3>4 DEF Far
  <2>9. lastDir'[c.dir] = clock
    BY <2>2, <2>3, <2>6
  <2> QED BY <2>1, <2>2, <2>3, <2>4, <2>7, <2>8, <2>9 DEF MemoryInv
<1>2. ASSUME NEW c \in todo, Reject(c) PROVE MemoryInv'
  BY <1>2 DEF Reject, selector, simulator, Trades, MemoryInv, Covered, Far
<1>3. CASE Selected \/ Traded
  BY <1>3 DEF Selected, Traded, selector, simulator, Trades, MemoryInv, Covered, Far
<1> QED BY <1>1, <1>2, <1>3

LEMMA TradeMemory ==
  ASSUME TypeInv, MemoryInv, PlanMatchesCandidate, Spaced, Opened
  PROVE  MemoryInv' /\ PlanMatchesCandidate' /\ Spaced'
<1>1. PICK c \in cands :
        /\ allowed # <<>> /\ c.at = clock
        /\ Trades' = Trades \cup {[at |-> clock, for |-> Head(allowed).at, dir |-> c.dir]}
        /\ allowed' = Tail(allowed)
        /\ UNCHANGED <<clock, cands, lastSym, lastDir>>
  BY DEF Opened
<1> DEFINE new == [at |-> clock, for |-> Head(allowed).at, dir |-> c.dir]
<1>2. /\ allowed \in Seq(Candidates) /\ Len(allowed) = 1 /\ allowed[1] \in cands
      /\ allowed[1].at = clock /\ lastSym = clock /\ lastDir[allowed[1].dir] = clock
      /\ \A t \in Trades : Far(t)
  BY <1>1 DEF MemoryInv, TypeInv, TypeOK
<1>3. c = allowed[1]
  BY <1>1, <1>2 DEF TypeInv, CandsInv
<1>4. allowed' = <<>> /\ Head(allowed) = c
  BY <1>1, <1>2, <1>3
<1>5. new.at = clock /\ new.for = clock /\ new.dir = c.dir
  BY <1>1, <1>4
<1>6. clock \in Nat /\ clock # None
  BY SelectiveReplayAssumption DEF TypeInv, TypeOK
<1>7. \A t \in Trades : t.at \in Nat
  BY DEF TypeInv, TypeOK, TradeIds
<1> HIDE DEF new
<1>8. Trades' = Trades \cup {new}
  BY <1>1 DEF new
<1>9. MemoryInv'
  <2>1. ASSUME NEW t \in Trades' PROVE Covered(t)'
    <3>1. CASE t \in Trades
      BY <1>1, <3>1 DEF MemoryInv, Covered
    <3>2. CASE t = new
      BY <1>1, <1>2, <1>3, <1>5, <1>6, <3>2 DEF Covered
    <3> QED BY <1>8, <3>1, <3>2
  <2> QED BY <1>1, <1>2, <1>4, <1>6, <2>1 DEF MemoryInv
<1>10. PlanMatchesCandidate'
  BY <1>5, <1>8 DEF PlanMatchesCandidate
<1>11. Spaced'
  <2>1. \A t \in Trades : /\ t.at <= clock /\ clock - t.at >= SymbolCooldown
                          /\ t.dir = c.dir => clock - t.at >= DirectionCooldown
    BY <1>2, <1>3 DEF MemoryInv, Covered, Far
  <2> QED BY <1>5, <1>6, <1>7, <1>8, <2>1 DEF Spaced
<1> QED BY <1>9, <1>10, <1>11

-----------------------------------------------------------------------------
LEMMA IInvInit == Init => IInv
<1> SUFFICES ASSUME Init PROVE IInv
  OBVIOUS
<1>1. Trades = {} /\ cands = {} /\ todo = {} /\ allowed = <<>> /\ lastSym = None
  BY DEF Init, Trades
<1>2. TypeOK
  BY <1>1, SelectiveReplayAssumption DEF Init, TypeOK, Trades, Candidates
<1>3. IsFiniteSet(Trades)
  BY <1>1, FS_EmptySet
<1> QED BY <1>1, <1>2, <1>3
  DEF IInv, TypeInv, CandsInv, LateInv, MemoryInv, PlanMatchesCandidate, Spaced

LEMMA IInvStep == IInv /\ [Next]_vars => IInv'
<1> SUFFICES ASSUME IInv, [Next]_vars PROVE IInv'
  OBVIOUS
<1>1. TypeInv /\ LateInv /\ MemoryInv /\ PlanMatchesCandidate /\ Spaced
  BY DEF IInv
<1>2. ASSUME Trades' = Trades PROVE PlanMatchesCandidate' /\ Spaced'
  BY <1>1, <1>2 DEF PlanMatchesCandidate, Spaced
<1>3. CASE Skip \/ \E c \in Candidates : Register(c)
  <2>1. NewCandle /\ TypeInv'
    BY <1>1, <1>3, AdvanceIsNewCandle, NewCandleTyped
  <2> QED BY <1>1, <1>2, <2>1, NewCandleLate, NewCandleMemory DEF IInv, NewCandle
<1>4. CASE (\E c \in todo : Allow(c) \/ Reject(c)) \/ Selected \/ Traded
  <2>1. Trades' = Trades
    BY <1>4 DEF Allow, Reject, Selected, Traded, simulator, Trades
  <2> QED BY <1>1, <1>2, <1>4, <2>1, SelectTyped, SelectLate, SelectMemory DEF IInv
<1>5. CASE Trade
  <2>1. Opened /\ TypeInv'
    BY <1>1, <1>5, TradeIsOpened, TradeTyped
  <2> QED BY <1>1, <2>1, TradeLate, TradeMemory DEF IInv
<1>6. CASE UNCHANGED vars
  BY <1>1, <1>6 DEF vars, selector, simulator, IInv, TypeInv, TypeOK, CandsInv, LateInv,
     MemoryInv, PlanMatchesCandidate, Spaced, Trades, Refused, Covered, Far, OfDay
<1> QED BY <1>3, <1>4, <1>5, <1>6 DEF Next

LEMMA IInvHolds == Spec => []IInv
  BY IInvInit, IInvStep, PTL DEF Spec

(* Fields keep their types, and a trade is never active and completed.      *)
THEOREM TypeCorrect == Spec => []TypeOK
<1>1. IInv => TypeOK
  BY DEF IInv, TypeInv
<1> QED BY <1>1, IInvHolds, PTL

(* However often the selector looks at the candidates of the day again, and *)
(* however its thresholds move, it allows none but the current candle's.    *)
THEOREM NothingAllowedLate == Spec => []PlanMatchesCandidate
<1>1. IInv => PlanMatchesCandidate
  BY DEF IInv
<1> QED BY <1>1, IInvHolds, PTL

(* Trades are a cooldown apart, per symbol and per direction, across days.  *)
THEOREM CooldownsKept == Spec => []Spaced
<1>1. IInv => Spaced
  BY DEF IInv
<1> QED BY <1>1, IInvHolds, PTL

-----------------------------------------------------------------------------
(* Limits of a day                                                         *)

Today == OnDay(DayOf[clock])
CountInv ==
  /\ Cardinality(Today) + Len(allowed) <= count /\ count <= HardMax
  /\ Cardinality(Today) <= losses /\ Cardinality(Today) <= MaxLosses
  /\ allowed # <<>> => losses < MaxLosses
  /\ DailyBound

LEMMA DayFinite ==
  ASSUME TypeInv, NEW d
  PROVE  IsFiniteSet(OnDay(d)) /\ Cardinality(OnDay(d)) \in Nat
<1>1. OnDay(d) \subseteq Trades /\ IsFiniteSet(Trades)
  BY DEF OnDay, TypeInv
<1> QED BY <1>1, FS_Subset, FS_CardinalityType

LEMMA NewCandleCount ==
  ASSUME IInv, CountInv, NewCandle, TypeInv'
  PROVE  CountInv'
<1>1. TypeInv /\ MemoryInv /\ MaxLosses \in Nat /\ HardMax \in Nat
  BY SelectiveReplayAssumption DEF IInv
<1>2. Trades' = Trades /\ allowed' = <<>> /\ clock' = clock + 1 /\ clock < MaxCandles
  BY <1>1 DEF NewCandle, TypeInv, CandsInv
<1>3. \A d : OnDay(d)' = OnDay(d)
  BY <1>2 DEF OnDay
<1>4. DailyBound'
  BY <1>3 DEF DailyBound, CountInv
<1>5. count' \in Nat /\ losses' \in Nat
  BY DEF TypeInv, TypeOK
<1>6. CASE DayOf[clock + 1] = DayOf[clock]
  <2>1. Today' = Today /\ count' = count /\ losses' = losses
    BY <1>2, <1>3, <1>6 DEF Today, NewCandle
  <2>2. Len(allowed) \in Nat /\ Len(allowed') = 0 /\ Cardinality(Today) \in Nat
    BY <1>1, <1>2, DayFinite DEF TypeInv, TypeOK, Today
  <2> QED BY <1>1, <1>2, <1>4, <1>5, <2>1, <2>2 DEF CountInv
<1>7. CASE DayOf[clock + 1] # DayOf[clock]
  <2>1. \A t \in Trades : t.at \in 0..MaxCandles /\ t.at <= clock
    BY <1>1 DEF TypeInv, TypeOK, TradeIds, MemoryInv, Covered
  <2>2. clock \in 0..MaxCandles /\ clock + 1 \in 0..MaxCandles
    BY <1>1, <1>2 DEF TypeInv, TypeOK
  <2>3. DayOf[clock] < DayOf[clock + 1]
    BY <1>7, <2>2, DayMonotone
  <2>4. \A t \in Trades : DayOf[t.at] # DayOf[clock + 1]
    BY <2>1, <2>2, <2>3, DayMonotone
  <2>5. Today' = {}
    BY <1>2, <2>4 DEF Today, OnDay
  <2>6. Cardinality(Today') = 0 /\ Len(allowed') = 0
    BY <1>2, <2>5, FS_EmptySet
  <2>7. count' <= HardMax
    BY <1>1, <1>7 DEF NewCandle
  <2> QED BY <1>1, <1>2, <1>4, <1>5, <2>6, <2>7 DEF CountInv
<1> QED BY <1>6, <1>7

LEMMA SelectCount ==
  ASSUME IInv, CountInv,
         (\E c \in todo : Allow(c) \/ Reject(c)) \/ Selected \/ Traded
  PROVE  CountInv'
<1>1. TypeInv /\ LateInv /\ MemoryInv /\ HardMax \in Nat /\ MaxLosses \in Nat
  BY SelectiveReplayAssumption DEF IInv
<1>2. Trades' = Trades /\ clock' = clock /\ losses' = losses
  BY DEF Allow, Reject, Selected, Traded, selector, simulator, Trades
<1>3. Today' = Today /\ DailyBound'
  BY <1>2 DEF Today, OnDay, DailyBound, CountInv
<1>4. Cardinality(Today) \in Nat /\ count \in Nat /\ losses \in Nat
  BY <1>1, DayFinite DEF Today, TypeInv, TypeOK
<1>5. ASSUME NEW c \in todo, Allow(c) PROVE CountInv'
  <2>1. allowed = <<>> /\ Len(allowed) = 0
    BY <1>1, <1>5, AllowedIsCurrent
  <2>2. allowed' = Append(allowed, c) /\ Len(allowed') = 1 /\ count' = count + 1
    BY <1>5, <2>1 DEF Allow
  <2>3. ~(count >= HardMax) /\ ~(losses >= MaxLosses)
    BY <1>5 DEF Allow, Refused
  <2> QED BY <1>1, <1>2, <1>3, <1>4, <2>1, <2>2, <2>3 DEF CountInv
<1>6. CASE (\E c \in todo : Reject(c)) \/ Selected \/ Traded
  <2>1. count' = count /\ allowed' = allowed
    BY <1>6 DEF Reject, Selected, Traded, selector
  <2> QED BY <1>2, <1>3, <2>1 DEF CountInv
<1> QED BY <1>5, <1>6

LEMMA TradeCount ==
  ASSUME IInv, CountInv, Opened, TypeInv', losses' >= losses + 1
  PROVE  CountInv'
<1>1. TypeInv /\ MemoryInv /\ MaxLosses \in Nat /\ HardMax \in Nat
  BY SelectiveReplayAssumption DEF IInv
<1>2. PICK new : /\ Trades' = Trades \cup {new} /\ new.at = clock
                 /\ allowed # <<>> /\ allowed' = Tail(allowed)
                 /\ clock' = clock /\ count' = count
  BY DEF Opened
<1>3. Len(allowed) = 1 /\ allowed' = <<>> /\ Len(allowed') = 0
  BY <1>1, <1>2 DEF MemoryInv, TypeInv, TypeOK
<1>4. Today' \subseteq Today \cup {new} /\ \A d : d # DayOf[clock] => OnDay(d)' = OnDay(d)
  BY <1>2 DEF Today, OnDay
<1>5. /\ IsFiniteSet(Today) /\ Cardinality(Today) \in Nat /\ IsFiniteSet(Today')
      /\ Cardinality(Today') \in Nat
  <2>1. IsFiniteSet(Trades') /\ Today' \subseteq Trades'
    BY DEF TypeInv, Today, OnDay
  <2>2. IsFiniteSet(Today') /\ Cardinality(Today') \in Nat
    BY <2>1, FS_Subset, FS_CardinalityType
  <2> QED BY <1>1, <2>2, DayFinite DEF Today
<1>6. Cardinality(Today') <= Cardinality(Today) + 1
  <2>1. /\ IsFiniteSet(Today \cup {new})
        /\ Cardinality(Today \cup {new}) =
             IF new \in Today THEN Cardinality(Today) ELSE Cardinality(Today) + 1
    BY <1>5, FS_AddElement
  <2>2. Cardinality(Today') <= Cardinality(Today \cup {new})
    BY <1>4, <2>1, FS_Subset
  <2> QED BY <1>5, <2>1, <2>2
<1>7. losses \in Nat /\ losses' \in Nat /\ count \in Nat
  BY <1>1 DEF TypeInv, TypeOK
<1>8. /\ Cardinality(Today') <= count /\ count <= HardMax
      /\ Cardinality(Today') <= losses' /\ Cardinality(Today') <= MaxLosses
  BY <1>1, <1>2, <1>3, <1>5, <1>6, <1>7 DEF CountInv
<1>9. DailyBound'
  <2> SUFFICES ASSUME NEW d \in {DayOf[k] : k \in 0..MaxCandles}
               PROVE  Cardinality(OnDay(d)') <= HardMax /\ Cardinality(OnDay(d)') <= MaxLosses
    BY DEF DailyBound
  <2>1. CASE d = DayOf[clock]
    <3>1. OnDay(d)' = Today'
      BY <1>2, <2>1 DEF Today, OnDay
    <3> QED BY <1>1, <1>5, <1>7, <1>8, <3>1
  <2>2. CASE d # DayOf[clock]
    BY <1>4, <2>2 DEF CountInv, DailyBound
  <2> QED BY <2>1, <2>2
<1>10. Cardinality(Today') + Len(allowed') <= count' /\ count' <= HardMax
  <2>1. Len(allowed') = 0 /\ count' = count
    BY <1>2, <1>3
  <2>2. Cardinality(Today') + 0 = Cardinality(Today')
    BY <1>5
  <2> QED BY <1>8, <2>1, <2>2
<1> QED BY <1>3, <1>8, <1>9, <1>10 DEF CountInv

LEMMA CountInit == Init => CountInv
<1> SUFFICES ASSUME Init PROVE CountInv
  OBVIOUS
<1>1. Trades = {} /\ allowed = <<>> /\ count = 0 /\ losses = 0
  BY DEF Init, Trades
<1>2. \A d : Cardinality(OnDay(d)) = 0
  <2>1. \A d : OnDay(d) = {}
    BY <1>1 DEF OnDay
  <2> QED BY <2>1, FS_EmptySet
<1>3. HardMax \in Nat /\ MaxLosses \in Nat /\ Len(allowed) = 0
  BY <1>1, SelectiveReplayAssumption
<1> QED BY <1>1, <1>2, <1>3 DEF CountInv, Today, DailyBound

LEMMA CountStep == IInv /\ CountInv /\ [Next]_vars => CountInv'
<1> SUFFICES ASSUME IInv, CountInv, [Next]_vars PROVE CountInv'
  OBVIOUS
<1>1. TypeInv /\ MemoryInv /\ TypeInv'
  BY IInvStep DEF IInv
<1>2. CASE Skip \/ \E c \in Candidates : Register(c)
  BY <1>1, <1>2, AdvanceIsNewCandle, NewCandleCount
<1>3. CASE (\E c \in todo : Allow(c) \/ Reject(c)) \/ Selected \/ Traded
  BY <1>3, SelectCount
<1>4. CASE Trade
  BY <1>1, <1>4, TradeIsOpened, TradeTyped, TradeCount
<1>5. CASE UNCHANGED vars
  <2>1. /\ Trades' = Trades /\ clock' = clock /\ count' = count /\ losses' = losses
        /\ allowed' = allowed
    BY <1>5 DEF vars, selector, simulator, Trades
  <2> QED BY <2>1 DEF CountInv, Today, OnDay, DailyBound
<1> QED BY <1>2, <1>3, <1>4, <1>5 DEF Next

(* A day has no more trades than max_losses_per_day, nor than the hard      *)
(* maximum: every opening is recorded as a loss before the next selection.  *)
THEOREM TradesPerDay == Spec => []DailyBound
<1>1. CountInv => DailyBound
  BY DEF CountInv
<1> QED BY <1>1, CountInit, CountStep, IInvHolds, PTL DEF Spec

(* Cooldowns and the limits of a day together.                              *)
THEOREM LimitsKept == Spec => []WithinLimits
  BY CooldownsKept, TradesPerDay, PTL DEF WithinLimits
=============================================================================
