------------------------------ MODULE SmartMoney ------------------------------
(***************************************************************************)
(* ultimate_trader/liquidity_smart_money as _LsmPipeline of                *)
(* robustness_lab/replay_runner.py wires it: every candle goes through the *)
(* swing, pool, sweep, structure, gap, block, range and displacement       *)
(* engines, and what they return is scored and voted on.  Beside it, the   *)
(* wiring of historical_replay/pipeline_runner.py, which hands the engines *)
(* one candle at a time.                                                   *)
(*                                                                         *)
(* Prices are whole numbers; thresholds in percent and basis points are    *)
(* compared by cross-multiplication.  Bounds of zones and sweeps carry the *)
(* factor 10^6, the dealing range the factor 200.                          *)
(***************************************************************************)
EXTENDS Integers, Sequences, SequencesExt, FiniteSetsExt

CONSTANTS
  Menu,          \* the candles that may come, per position
  Window,        \* candles kept (100)
  Lookback,      \* of swings (5)
  RangeWindow,   \* candles of a range (10)
  Squeeze,       \* candles of a compression (6)
  Recent,        \* candles a structure needs (5)
  GapMin, GapSmall, GapLarge,   \* hundredths of a basis point (50, 200, 500)
  ScoreThreshold                \* confluence_score_threshold (30)

VARIABLES
  time,      \* candles so far
  candles,   \* _clist, and _candles of the swing detector
  highs, lows,            \* prices of swing highs and lows, in order
  equalHighs, equalLows,  \* of equal highs and lows, doubled
  sweeps,    \* bounds of the sweeps recorded
  gaps,      \* gaps found, with what became of them
  blocks,    \* order blocks found
  found,     \* lists of lsm_data: what the engines found on the last candle
  lsm,       \* the confluence of the last candle
  plan       \* direction of the plan the runner made of it, "" if none

vars == <<time, candles, highs, lows, equalHighs, equalLows, sweeps, gaps, blocks, found, lsm, plan>>

Limits ==
  /\ Menu \in Seq(SUBSET [o : Nat, h : Nat, l : Nat \ {0}, c : Nat, v : Nat])
  /\ {Window, RangeWindow, Squeeze, Recent} \subseteq Nat \ {0}
  /\ {Lookback, GapMin, GapSmall, GapLarge, ScoreThreshold} \subseteq Nat

Kept(s, n) == SubSeq(s, IF Len(s) > n THEN Len(s) - n + 1 ELSE 1, Len(s))
HighOf(cs) == Max({cs[i].h : i \in DOMAIN cs})
LowOf(cs) == Min({cs[i].l : i \in DOMAIN cs})
Abs(x) == IF x < 0 THEN -x ELSE x
AtMost(x, y) == IF x <= y THEN x ELSE y
Sum(f) == FoldFunction(+, 0, f)
(* x is at least num/den of the mean of the numbers f.                      *)
Exceeds(x, f, num, den) ==
  IF Sum(f) = 0 THEN x > 0 \/ num = 0 ELSE x * den * Len(f) >= num * Sum(f)

-----------------------------------------------------------------------------
(* SwingDetector: the candle Lookback before the last is a swing if it is   *)
(* beyond all its neighbours, and equal to an earlier one within 0.1 %.     *)
At(cs) == Len(cs) - Lookback
Ready(cs) == Len(cs) >= 2 * Lookback + 1
Around(cs) == (At(cs) - Lookback .. At(cs) + Lookback) \ {At(cs)}
NewHigh(cs) == Ready(cs) /\ \A i \in Around(cs) : cs[At(cs)].h > cs[i].h
NewLow(cs) == Ready(cs) /\ \A i \in Around(cs) : cs[At(cs)].l < cs[i].l
Earlier(cs) == Max({1, At(cs) - 5}) .. At(cs) - 1
Near(x, y) == 1000 * Abs(x - y) <= y
EqualTo(cs, price(_)) ==
  IF ~Ready(cs) THEN {} ELSE {i \in Earlier(cs) : Near(price(cs[At(cs)]), price(cs[i]))}
WithEqual(seq, cs, price(_)) ==
  LET same == EqualTo(cs, price)
  IN IF same = {} THEN seq ELSE Append(seq, price(cs[At(cs)]) + price(cs[Min(same)]))

(* LiquidityPoolDetector: the equal swings and the last three of each kind  *)
(* are pools; one is swept if any candle in the window reached through it,  *)
(* and only those beyond the price count.  Clusters of stops have strength  *)
(* 1, which nothing downstream reads.                                       *)
IsSwept(z) == z.through # {}
Pool(side, doubled, strength, price, cs) ==
  LET lo == 499000 * doubled  hi == 501000 * doubled
  IN [side |-> side, lo |-> lo, hi |-> hi, strength |-> strength,
      beyond |-> IF side = "BUY" THEN hi > 1002000 * price ELSE lo < 998000 * price,
      through |-> {i \in DOMAIN cs :
        IF side = "BUY" THEN 1000000 * cs[i].h >= hi ELSE 1000000 * cs[i].l <= lo}]
Pools(hs, ls, ehs, els, price, cs) ==
  LET hs3 == Kept(hs, 3)  ls3 == Kept(ls, 3)
  IN [i \in DOMAIN ehs |-> Pool("BUY", ehs[i], 20, price, cs)]
     \o [i \in DOMAIN hs3 |-> Pool("BUY", 2 * hs3[i], 15, price, cs)]
     \o [i \in DOMAIN els |-> Pool("SELL", els[i], 20, price, cs)]
     \o [i \in DOMAIN ls3 |-> Pool("SELL", 2 * ls3[i], 15, price, cs)]

(* SweepDetector: a swept pool is recorded unless a bound of it is known,   *)
(* and is reclaimed if the close is back inside; a pool the candle only     *)
(* touches is a failed sweep, every time.                                   *)
Recorded(known, z) == \E s \in known : Abs(s.lo - z.lo) < 10000 \/ Abs(s.hi - z.hi) < 10000
SweepOf(z, cs) ==
  LET last3 == Kept(cs, 3)
  IN IF z.side = "BUY"
     THEN [side |-> "BUY", lo |-> 1000000 * LowOf(last3), hi |-> z.hi, failed |-> FALSE, at |-> Min(z.through) - 1,
           reclaimed |-> 1000000 * Last(cs).c < z.lo]
     ELSE [side |-> "SELL", lo |-> z.lo, hi |-> 1000000 * HighOf(last3), failed |-> FALSE, at |-> Min(z.through) - 1,
           reclaimed |-> 1000000 * Last(cs).c > z.hi]
Touched(z, c) == 1000000 * c.h >= z.lo /\ 1000000 * c.l <= z.hi
Entry(z) == IF z.side = "BUY" THEN z.lo \div 1000 ELSE z.hi \div 1000
FailedSweep(z) ==
  [side |-> z.side, lo |-> 995 * Entry(z), hi |-> 1005 * Entry(z), failed |-> TRUE, at |-> 0, reclaimed |-> FALSE]
Swept(known, pools, cs) ==
  FoldLeft(LAMBDA acc, z :
             IF z.beyond /\ IsSwept(z) /\ ~Recorded(known \cup acc, z) THEN acc \cup {SweepOf(z, cs)} ELSE acc,
           {}, pools)
Fails(pools, c) == {z \in ToSet(pools) : z.beyond /\ ~IsSwept(z) /\ Touched(z, c)}
NewSweeps(known, pools, cs) ==
  IF Len(cs) < 2 THEN {}
  ELSE Swept(known, pools, cs) \cup {FailedSweep(z) : z \in Fails(pools, Last(cs))}

-----------------------------------------------------------------------------
(* MarketStructureEngine: the events of the last candle, in their order.    *)
When(test, kind, dir) == IF test THEN << [kind |-> kind, dir |-> dir] >> ELSE <<>>
Back(s, n) == s[Len(s) - n]
Structure(hs, ls, cs) ==
  IF Len(hs) < 2 \/ Len(ls) < 2 \/ Len(cs) < Recent THEN <<>>
  ELSE LET c == Last(cs)  h == Last(hs)  l == Last(ls)
           three == Len(hs) >= 3 /\ Len(ls) >= 3 /\ Len(cs) >= 3
           recent == Kept(cs, RangeWindow)  tight == Kept(cs, Squeeze)
           ranges == [i \in DOMAIN tight |-> tight[i].h - tight[i].l]
       IN When(c.h > h, "BOS", "BULLISH") \o When(c.l < l, "BOS", "BEARISH")
          \o When(three /\ h < Back(hs, 1) /\ c.h > h /\ c.c > h, "CHOCH", "BULLISH")
          \o When(three /\ l > Back(ls, 1) /\ c.l < l /\ c.c < l, "CHOCH", "BEARISH")
          \o When(Len(cs) >= 3 /\ c.h > h /\ Back(cs, 1).l < l, "MSS", "BULLISH")
          \o When(Len(cs) >= 3 /\ c.l < l /\ Back(cs, 1).h > h, "MSS", "BEARISH")
          \o When(Len(cs) >= 3 /\ h > Back(hs, 1) /\ l > Back(ls, 1), "TREND", "BULLISH")
          \o When(Len(cs) >= 3 /\ l < Back(ls, 1) /\ h < Back(hs, 1), "TREND", "BEARISH")
          \o When(Len(cs) >= 3 /\ h < Back(hs, 1) /\ l > Back(ls, 1), "FAILURE", "NEUTRAL")
          \o When(Len(cs) >= RangeWindow /\ 50 * (HighOf(recent) - LowOf(recent)) < LowOf(recent), "RANGE", "NEUTRAL")
          \o When(Len(cs) >= Squeeze /\ Sum(ranges) > 0 /\ 2 * Last(ranges) * Squeeze < Sum(ranges), "COMPRESSION", "NEUTRAL")

(* FairValueGapDetector: the gap between the neighbours of a candle, once.  *)
GapSize(g) == (2000000 * (g.hi - g.lo) + g.lo) \div (2 * g.lo)     \* rounded
GapAt(cs, i) ==
  IF cs[i - 1].h < cs[i + 1].l
  THEN [type |-> "BULLISH", lo |-> cs[i - 1].h, hi |-> cs[i + 1].l, at |-> i]
  ELSE [type |-> "BEARISH", lo |-> cs[i + 1].h, hi |-> cs[i - 1].l, at |-> i]
Gapped(cs, i) ==
  /\ cs[i - 1].h < cs[i + 1].l \/ cs[i - 1].l > cs[i + 1].h
  /\ LET g == GapAt(cs, i) IN 1000000 * (g.hi - g.lo) >= GapMin * g.lo
KnownGap(known, g) == \E k \in known : k.lo = g.lo /\ k.hi = g.hi
NewGaps(known, cs) ==
  FoldLeft(LAMBDA acc, i :
             IF Gapped(cs, i) /\ ~KnownGap(known \cup ToSet(acc), GapAt(cs, i))
             THEN Append(acc, GapAt(cs, i)) ELSE acc,
           <<>>, [i \in 1 .. Max({0, Len(cs) - 2}) |-> i + 1])
(* Any candle of the window fills or mitigates it, those it is made of too. *)
Covers(c, g) == c.l <= g.lo /\ c.h >= g.hi
ClosesIn(c, g) == g.lo <= c.c /\ c.c <= g.hi
Fate(g, cs) ==
  [type |-> g.type, lo |-> g.lo, hi |-> g.hi, at |-> g.at,
   filled |-> \E i \in DOMAIN cs : Covers(cs[i], g),
   mitigated |-> \E i \in DOMAIN cs : ~Covers(cs[i], g) /\ ClosesIn(cs[i], g)]
Spent(g) == g.filled \/ g.mitigated
Aged(known, cs) == {IF Spent(g) THEN g ELSE Fate(g, cs) : g \in known}

(* OrderBlockDetector: the candle before the middle of a new gap, once; it  *)
(* is mitigated by any candle of the window at its far edge.                *)
Strength(c, cs, type) ==
  LET body == Abs(c.c - c.o)  range == c.h - c.l
      vols == [i \in DOMAIN Kept(cs, 10) |-> Kept(cs, 10)[i].v]
      by == IF type = "BULLISH" THEN c.l ELSE c.h
  IN 3000 + (IF range = 0 THEN 0 ELSE IF 10 * body > 7 * range THEN 2500
             ELSE IF 2 * body > range THEN 1500 ELSE 500)
     + (IF 2 * c.v * Len(vols) > 3 * Sum(vols) THEN 2000 ELSE IF 5 * c.v * Len(vols) > 6 * Sum(vols) THEN 1000 ELSE 0)
     + (IF (type = "BULLISH" /\ c.c < c.o) \/ (type = "BEARISH" /\ c.c > c.o) THEN 1500 ELSE 0)
     + AtMost((10000 * body) \div by, 1000)
KnownBlock(known, c) == \E b \in known : b.hi = c.h /\ b.lo = c.l
NewBlocks(known, new, cs) ==
  FoldLeft(LAMBDA acc, g :
             LET c == cs[g.at - 1]
             IN IF KnownBlock(known \cup ToSet(acc), c) THEN acc
                ELSE Append(acc, [type |-> g.type, lo |-> c.l, hi |-> c.h,
                                  strength |-> Strength(c, cs, g.type), mitigated |-> FALSE]),
           <<>>, new)
Reached(b, cs) ==
  \E i \in DOMAIN cs : IF b.type = "BULLISH" THEN cs[i].l <= b.lo ELSE cs[i].h >= b.hi
Mitigated(b, cs) == [b EXCEPT !.mitigated = @ \/ Reached(b, cs)]
Broken(b, cs) ==
  /\ b.mitigated
  /\ \E i \in DOMAIN cs : IF b.type = "BULLISH" THEN cs[i].h > b.hi ELSE cs[i].l < b.lo
Breaker(b) == [b EXCEPT !.type = "BREAKER", !.strength = (4 * @) \div 5, !.mitigated = FALSE]

(* PremiumDiscountEngine: where the price is in the range of all swings.    *)
PriceZone(hs, ls, price) ==
  LET hi0 == IF hs = <<>> THEN 202 * price ELSE 200 * Max(ToSet(hs))
      lo0 == IF ls = <<>> THEN 198 * price ELSE 200 * Min(ToSet(ls))
      hi == IF hi0 <= lo0 THEN 202 * price ELSE hi0
      lo == IF hi0 <= lo0 THEN 198 * price ELSE lo0
      middle == (hi + lo) \div 2
  IN CASE middle <= 200 * price /\ 200 * price <= hi -> "PREMIUM"
       [] lo <= 200 * price /\ 200 * price < middle -> "DISCOUNT"
       [] OTHER -> "EQUILIBRIUM"

(* DisplacementEngine: the last candle against the mean of all before it.   *)
Displacement(cs) ==
  IF Len(cs) < 3 \/ Last(cs).c = Last(cs).o THEN <<>>
  ELSE LET prev == Front(cs)
           ranges == [i \in DOMAIN prev |-> prev[i].h - prev[i].l]
           vols == [i \in DOMAIN prev |-> prev[i].v]
           wide == Exceeds(Last(cs).h - Last(cs).l, ranges, 3, 2)
           busy == Exceeds(Last(cs).v, vols, 13, 10)
           backed == busy /\ Exceeds(Last(cs).h - Last(cs).l, ranges, 1, 1)
           weak == ~Exceeds(Last(cs).h - Last(cs).l, ranges, 7, 10)
       IN << [kind |-> IF wide /\ busy THEN "STRONG" ELSE IF weak THEN "WEAK" ELSE IF backed THEN "VOLUME_SUPPORTED"
                         ELSE IF wide /\ ~Exceeds(Last(cs).v, vols, 7, 10) THEN "FAKE" ELSE "NORMAL",
              dir |-> IF Last(cs).c > Last(cs).o THEN "LONG" ELSE "SHORT"] >>

-----------------------------------------------------------------------------
(* ConfluenceEngine: each component scores and may vote for a direction;    *)
(* the last of its findings decides.                                        *)
Toward(dir, old) == CASE dir = "BULLISH" -> "LONG" [] dir = "BEARISH" -> "SHORT" [] OTHER -> old
LastDir(s, counts(_), dir(_)) ==
  LET told == {i \in DOMAIN s : counts(s[i]) /\ dir(s[i]) \in {"BULLISH", "BEARISH"}}
  IN IF told = {} THEN "NEUTRAL" ELSE Toward(dir(s[Max(told)]), "NEUTRAL")
Total(s, points(_)) == Sum([i \in DOMAIN s |-> points(s[i])])
Vote(score, dir) == [score |-> score, dir |-> dir]

ScoreLiquidity(pools, sws) ==
  LET back == {s.side : s \in {x \in sws : x.reclaimed}}
      strong == {i \in DOMAIN pools : pools[i].beyond /\ ~IsSwept(pools[i]) /\ pools[i].strength >= 15}
  IN Vote((IF back = {} THEN 0 ELSE 25) + AtMost(5 * Cardinality(strong), 15),
          CASE back = {"BUY"} -> "SHORT" [] back = {"SELL"} -> "LONG" [] OTHER -> "NEUTRAL")
EventPoints(e) == CASE e.kind \in {"BOS", "CHOCH"} -> 20 [] e.kind \in {"COMPRESSION", "TREND"} -> 10 [] OTHER -> 0
ScoreStructure(events) ==
  Vote(Total(Kept(events, 5), EventPoints),
       LastDir(Kept(events, 5), LAMBDA e : e.kind \in {"BOS", "CHOCH", "TREND"}, LAMBDA e : e.dir))
GapPoints(g) ==
  IF Spent(g) THEN 0 ELSE IF GapSize(g) > GapLarge THEN 20 ELSE IF GapSize(g) > GapSmall THEN 12 ELSE 6
ScoreGaps(gs) ==
  Vote(AtMost(Total(gs, GapPoints), 30),
       LastDir(gs, LAMBDA g : ~Spent(g) /\ GapSize(g) > GapLarge, LAMBDA g : g.type))
BlockPoints(b) ==
  IF b.mitigated THEN 0 ELSE IF b.strength >= 7000 THEN 20 ELSE IF b.strength >= 4000 THEN 12 ELSE 5
ScoreBlocks(bs) ==
  Vote(AtMost(Total(bs, BlockPoints), 30),
       LastDir(bs, LAMBDA b : ~b.mitigated /\ b.strength >= 7000, LAMBDA b : b.type))
ScoreZone(zone) ==
  CASE zone = "DISCOUNT" -> Vote(15, "LONG") [] zone = "PREMIUM" -> Vote(15, "SHORT") [] OTHER -> Vote(5, "NEUTRAL")
Displaced(ds) == {i \in DOMAIN Kept(ds, 3) : Kept(ds, 3)[i].kind \in {"STRONG", "VOLUME_SUPPORTED"}}
ScoreDisplacement(ds) ==
  Vote(AtMost(15 * Cardinality(Displaced(ds)), 20),
       IF Displaced(ds) = {} THEN "NEUTRAL" ELSE Kept(ds, 3)[Max(Displaced(ds))].dir)

Weight == [liquidity |-> 3, structure |-> 2, gap |-> 2, block |-> 2, zone |-> 2, displacement |-> 2]
Weighed(votes, dir) ==
  Sum([k \in DOMAIN votes |-> IF votes[k].dir = dir THEN Weight[k] * (100 + votes[k].score) ELSE 0])
(* _determine_bias: the conflict is 1 - |share of longs - share of shorts|; *)
(* the bias reads it exactly, the permission rounded to hundredths.         *)
Bias(long, short) ==
  CASE long > short /\ 5 * (long - short) > 2 * (long + short) -> "LONG"
    [] short > long /\ 5 * (short - long) > 2 * (long + short) -> "SHORT"
    [] OTHER -> "NEUTRAL"
Conflict(long, short, hundredths) ==
  long + short > 0 /\ 1000 * Abs(long - short) <= (1005 - 10 * hundredths) * (long + short)

Risks(sws, events, gs, zone, ds) ==
  {r \in {"sweep", "failure", "filled", "zone", "fake"} :
     CASE r = "sweep" -> \E s \in sws : s.failed
       [] r = "failure" -> \E i \in DOMAIN events : events[i].kind = "FAILURE"
       [] r = "filled" -> \E i \in DOMAIN gs : gs[i].filled
       [] r = "zone" -> zone # "EQUILIBRIUM"
       [] r = "fake" -> \E i \in DOMAIN ds : ds[i].kind = "FAKE"}
Permission(score, conflict, risks, bias) ==
  IF conflict \/ score < 20 THEN "BLOCK"
    ELSE IF Cardinality(risks) >= 3 THEN "CAUTION"
    ELSE IF bias = "NEUTRAL" /\ score < 50 THEN "BLOCK"
    ELSE IF score < 40 THEN "CAUTION"
    ELSE "ALLOW"
ReversalRisk(sws, zone, ds) ==
  (IF \E s \in sws : s.reclaimed THEN 20 ELSE 0) + (IF \E s \in sws : s.failed THEN 15 ELSE 0)
  + (IF zone # "EQUILIBRIUM" THEN 10 ELSE 0) + (IF \E i \in DOMAIN ds : ds[i].kind = "FAKE" THEN 10 ELSE 0)
Continuation(events, ds, votes) ==
  LET cast == {k \in DOMAIN votes : votes[k].dir # "NEUTRAL"}
  IN AtMost(100,
       Total(Kept(events, 5), LAMBDA e : IF e.kind \in {"BOS", "CHOCH", "TREND"} THEN 15 ELSE 0)
       + 10 * Cardinality(Displaced(ds))
       + IF Cardinality(cast) >= 3 /\ Cardinality({votes[k].dir : k \in cast}) = 1 THEN 20 ELSE 0)

Confluence(pools, sws, events, gs, bs, zone, ds) ==
  LET votes == [liquidity |-> ScoreLiquidity(pools, sws), structure |-> ScoreStructure(events),
                gap |-> ScoreGaps(gs), block |-> ScoreBlocks(bs), zone |-> ScoreZone(zone),
                displacement |-> ScoreDisplacement(ds)]
      score == AtMost(Sum([k \in DOMAIN votes |-> votes[k].score]), 100)
      long == Weighed(votes, "LONG")  short == Weighed(votes, "SHORT")
      bias == Bias(long, short)
      risks == Risks(sws, events, gs, zone, ds)
  IN [votes |-> votes, score |-> score, bias |-> bias, risks |-> risks,
      reversal |-> ReversalRisk(sws, zone, ds), continuation |-> Continuation(events, ds, votes),
      severity |-> IF Conflict(long, short, 60) THEN "HIGH" ELSE IF Conflict(long, short, 30) THEN "MEDIUM" ELSE "NONE",
      permission |-> Permission(score, Conflict(long, short, 60), risks, bias)]

-----------------------------------------------------------------------------
Nothing == Confluence(<<>>, {}, <<>>, <<>>, <<>>, "EQUILIBRIUM", <<>>)
Init ==
  /\ time = 0 /\ candles = <<>> /\ highs = <<>> /\ lows = <<>> /\ equalHighs = <<>> /\ equalLows = <<>>
  /\ sweeps = {} /\ gaps = {} /\ blocks = {}
  /\ found = [sweeps |-> {}, events |-> <<>>, gaps |-> <<>>, blocks |-> <<>>]
  /\ lsm = Nothing /\ plan = ""

(* run_candle of the replay pipeline: pools and price zone are all that one *)
(* candle can show, and candles to sweep a pool are not given.              *)
Alone(hs, ls, ehs, els, c) ==
  Confluence(Pools(hs, ls, ehs, els, c.c, <<>>), {}, <<>>, <<>>, <<>>, PriceZone(hs, ls, c.c), <<>>)
PlanOf(report, c) ==
  IF report.permission # "BLOCK" /\ report.score >= ScoreThreshold /\ c.h > c.l /\ report.bias # "NEUTRAL"
  THEN report.bias ELSE ""

(* process_candle.                                                          *)
Candle(c) ==
  LET cs == Kept(Append(candles, c), Window)
      pools == Pools(highs', lows', <<>>, <<>>, c.c, cs)
      swept == NewSweeps(sweeps, pools, cs)
      newGaps == NewGaps(gaps, cs)
      newBlocks == NewBlocks(blocks, newGaps, cs)
      marked == [i \in DOMAIN newBlocks |-> Mitigated(newBlocks[i], cs)]
      aged == [i \in DOMAIN newGaps |-> Fate(newGaps[i], cs)]
  IN /\ time' = time + 1 /\ candles' = cs
     /\ highs' = IF NewHigh(cs) THEN Append(highs, cs[At(cs)].h) ELSE highs
     /\ lows' = IF NewLow(cs) THEN Append(lows, cs[At(cs)].l) ELSE lows
     /\ equalHighs' = WithEqual(equalHighs, cs, LAMBDA k : k.h)
     /\ equalLows' = WithEqual(equalLows, cs, LAMBDA k : k.l)
     /\ sweeps' = sweeps \cup swept
     /\ gaps' = Aged(gaps, cs) \cup ToSet(aged)
     /\ blocks' = {Mitigated(b, cs) : b \in blocks} \cup ToSet(marked)
                  \cup {Breaker(b) : b \in {x \in ToSet(marked) : Broken(x, cs)}}
     /\ found' = [sweeps |-> swept, events |-> Structure(highs', lows', cs), gaps |-> aged, blocks |-> marked]
     /\ lsm' = Confluence(pools, swept, found'.events, aged, marked,
                          PriceZone(highs', lows', c.c), Displacement(cs))
     /\ plan' = PlanOf(Alone(highs', lows', equalHighs', equalLows', c), c)

Next == time < Len(Menu) /\ \E c \in Menu[time + 1] : Candle(c)
Spec == Init /\ [][Next]_vars

-----------------------------------------------------------------------------
(* Shown one candle, the runner can only fade: whatever it plans, it plans   *)
(* toward the middle of the range, on the vote of the price zone alone.     *)
OnlyFades == plan # "" => plan = ScoreZone(PriceZone(highs, lows, Last(candles).c)).dir

(* What the README says of the confluence, that order blocks score in it: a *)
(* block just found whose far edge the last two candles have not reached    *)
(* adds to the score.                                                       *)
BlocksScore ==
  (\E i \in DOMAIN found.blocks : ~Reached(found.blocks[i], Kept(candles, 2)))
    => lsm.votes.block.score > 0

(* What the code does: the window in which a block is looked for holds the  *)
(* candle it is made of, which reaches its own edge, so that every block is *)
(* mitigated when it is found, and order blocks neither score nor vote.     *)
BornMitigated == (\A b \in blocks : b.type # "BREAKER" => b.mitigated) /\ lsm.votes.block = Vote(0, "NEUTRAL")
=============================================================================
