---------------------------- MODULE Microstructure ----------------------------
(***************************************************************************)
(* ultimate_trader/microstructure_engine: order books come in, and of the  *)
(* last ones the analyzers make a permission for an order of a quantity.   *)
(*                                                                         *)
(* A book has bids and asks, levels from the best price outwards; prices   *)
(* are in basis points of the price level around which all books lie.      *)
(***************************************************************************)
EXTENDS Integers, Sequences, SequencesExt, FiniteSetsExt

CONSTANTS
  Books,        \* the books that may come: records of bids and asks
  Quantities,   \* of orders
  SteadyBooks,  \* unstable_history_count (5)
  HalfLength,   \* half of history_length, of walls (10)
  Thin, Wall,   \* quantities of a thin book (50) and of a wall (200)
  MaxBooks      \* bound

VARIABLE books  \* so far
vars == <<books>>

Limits ==
  /\ SteadyBooks \in Nat \ {0, 1} /\ HalfLength \in Nat \ {0, 1} /\ MaxBooks \in Nat
  /\ Quantities \subseteq Nat \ {0} /\ Thin \in Nat /\ Wall \in Nat
  /\ \A b \in Books :
       /\ b.bids \in Seq([price : Nat, qty : Nat]) /\ b.asks \in Seq([price : Nat, qty : Nat])
       /\ b.bids # <<>> /\ b.asks # <<>> /\ b.bids[1].price < b.asks[1].price
Gap(x, y) == IF x < y THEN y - x ELSE x - y
Recent(n) == SubSeq(books, IF Len(books) > n THEN Len(books) - n + 1 ELSE 1, Len(books))
Spreading(s) == IF s = {} THEN 0 ELSE Max(s) - Min(s)

(* OrderBookSnapshot                                                        *)
Quantity(levels) == FoldSeq(LAMBDA l, sum : l.qty + sum, 0, levels)
BidDepth(b) == Quantity(b.bids)
AskDepth(b) == Quantity(b.asks)
Depth(b) == BidDepth(b) + AskDepth(b)
Spread(b) == b.asks[1].price - b.bids[1].price
TwiceMid(b) == b.asks[1].price + b.bids[1].price
Now == Last(books)

-----------------------------------------------------------------------------
(* SpreadAnalyzer: the mean step between the last spreads above 5.          *)
Unstable ==
  LET recent == Recent(SteadyBooks)
  IN /\ Len(books) >= SteadyBooks
     /\ FoldSet(LAMBDA i, sum : sum + Gap(Spread(recent[i]), Spread(recent[i - 1])), 0, 2 .. SteadyBooks)
          > 5 * (SteadyBooks - 1)
SpreadState ==
  IF Spread(Now) >= 50 THEN "TRADE_BLOCKING" ELSE IF Spread(Now) >= 10 THEN "WIDE"
  ELSE IF Unstable THEN "UNSTABLE" ELSE "NORMAL"
(* OrderBookDepthAnalyzer                                                   *)
DepthState ==
  IF BidDepth(Now) < Thin /\ AskDepth(Now) < Thin THEN "CRITICAL"
  ELSE IF BidDepth(Now) < Thin \/ AskDepth(Now) < Thin THEN "THIN"
  ELSE IF 2 * Gap(BidDepth(Now), AskDepth(Now)) > Depth(Now) THEN "IMBALANCED" ELSE "NORMAL"
(* LiquidityVoidDetector: nothing lies between neighbouring levels, so that *)
(* a wide gap near the middle is always a void.                             *)
VoidsOf(levels) ==
  Cardinality({i \in 1 .. Len(levels) - 1 :
    Gap(levels[i].price, levels[i + 1].price) >= 30 /\ Gap(2 * levels[i].price, TwiceMid(Now)) <= 400})
Voids == VoidsOf(Now.bids) + VoidsOf(Now.asks)

(* AbsorptionDetector: one side has most of its quantity in three levels    *)
(* and the other has not, there is a level beyond 10 basis points on the    *)
(* other side, and the middle has not moved.                                *)
Pressed(levels) ==
  10 * Quantity(SubSeq(levels, 1, Min({3, Len(levels)}))) > 7 * Quantity(levels)
Stuck == Spreading({TwiceMid(b) : b \in ToSet(Recent(3))}) < 10
Absorbed ==
  /\ Len(books) >= 3 /\ Stuck
  /\ \/ /\ Pressed(Now.bids) /\ ~Pressed(Now.asks)
        /\ \E i \in DOMAIN Now.asks : 2 * Now.asks[i].price > TwiceMid(Now) + 20
     \/ /\ Pressed(Now.asks) /\ ~Pressed(Now.bids)
        /\ \E i \in DOMAIN Now.bids : 2 * Now.bids[i].price < TwiceMid(Now) - 20

(* SpoofingRiskDetector: walls that come and go, an imbalance whose size    *)
(* changes (its side does not matter), and fewer or more walls in the later *)
(* half of the history than in the earlier.                                 *)
Walls(levels) == Cardinality({i \in DOMAIN levels : levels[i].qty >= Wall})
Flashing ==
  \/ Spreading({Walls(b.bids) : b \in ToSet(Recent(3))}) >= 2
  \/ Spreading({Walls(b.asks) : b \in ToSet(Recent(3))}) >= 2
Imbalance(b) == (1000 * Gap(BidDepth(b), AskDepth(b))) \div Depth(b)
Swinging ==
  Len(books) >= 4 /\ Spreading({Imbalance(b) : b \in ToSet(Recent(4))}) > 300
AllWalls(some) == FoldSeq(LAMBDA b, sum : sum + Walls(b.bids) + Walls(b.asks), 0, some)
(* Mutant: what is beyond the history is not dropped.                       *)
FakeEver ==
  LET half == Len(books) \div 2
      first == AllWalls(SubSeq(books, 1, half)) * (Len(books) - half)
      second == AllWalls(SubSeq(books, half + 1, Len(books))) * half
  IN Len(books) >= 4 /\ first # 0 /\ 2 * Gap(first, second) > first
Fake ==
  LET history == Recent(2 * HalfLength)
      half == Len(history) \div 2
      first == AllWalls(SubSeq(history, 1, half)) * (Len(history) - half)
      second == AllWalls(SubSeq(history, half + 1, Len(history))) * half
  IN Len(history) >= 4 /\ first # 0 /\ 2 * Gap(first, second) > first
Suspicion ==
  IF Len(books) < 3 THEN 0
  ELSE (IF Flashing THEN 1 ELSE 0) + (IF Swinging THEN 1 ELSE 0) + (IF Fake THEN 2 ELSE 0)

-----------------------------------------------------------------------------
(* PriceImpactEstimator: the mean slippage of what the levels can fill, and *)
(* the greatest quantity that is safe, a tenth of both sides together.      *)
TooLarge(q) == 10 * q > Depth(Now)
Filled(levels, q, n) ==
  LET before == Quantity(SubSeq(levels, 1, n - 1))
  IN IF before >= q THEN 0 ELSE Min({q - before, levels[n].qty})
Slippage(levels, q) ==
  FoldSet(LAMBDA n, sum : sum + Filled(levels, q, n) * Gap(levels[n].price, levels[1].price), 0,
          DOMAIN levels) \div Min({q, Quantity(levels)})
ExecutionRisk(q) ==
  LET slips == (Slippage(Now.asks, q) + Slippage(Now.bids, q)) \div 2
  IN IF TooLarge(q) \/ slips > 30 THEN "CRITICAL" ELSE IF slips > 20 THEN "HIGH"
     ELSE IF slips > 10 THEN "MEDIUM" ELSE "LOW"

(* MicrostructureState.update                                               *)
Blockers(q) ==
  (IF SpreadState = "WIDE" THEN 1 ELSE 0) + (IF ExecutionRisk(q) = "HIGH" THEN 1 ELSE 0)
  + (IF DepthState \in {"THIN", "CRITICAL"} THEN 1 ELSE 0) + (IF Voids > 2 THEN 1 ELSE 0)
  + (IF Suspicion > 0 THEN 1 ELSE 0)
Permission(q) ==
  IF \/ SpreadState = "TRADE_BLOCKING" \/ ExecutionRisk(q) = "CRITICAL"
     \/ Suspicion >= 2 \/ Absorbed
  THEN "BLOCK" ELSE IF Blockers(q) >= 2 THEN "CAUTION" ELSE "ALLOW"

Init == books = <<>>
Snapshot(b) == Len(books) < MaxBooks /\ books' = Append(books, b)
Next == \E b \in Books : Snapshot(b)
Spec == Init /\ [][Next]_vars

(* What the market showed before is forgotten once the book has stood still *)
(* for the longest history an analyzer keeps: walls that came and went, an  *)
(* imbalance that swung and spreads that jumped are held against no order.  *)
StandsStill(n) == Len(books) >= n /\ \A i \in 1 .. n : Recent(n)[i] = Now
CalmsDown ==
  StandsStill(Max({4, SteadyBooks, 2 * HalfLength})) =>
    Suspicion = 0 /\ SpreadState # "UNSTABLE"
=============================================================================
