------------------------------ MODULE EdgeReport ------------------------------
(***************************************************************************)
(* What drawdown_control says of a replay that is over: it draws the curve *)
(* of its results, finds the episodes under water and the clusters of      *)
(* losses, and attributes profit and drawdown to symbols.                  *)
(*                                                                         *)
(* Results of trades and drawdowns are tenths of R.                        *)
(***************************************************************************)
EXTENDS Integers, Sequences, SequencesExt

CONSTANT Null

Greater(a, b) == IF a >= b THEN a ELSE b
Lesser(a, b) == IF a <= b THEN a ELSE b
SumR(ts) == FoldSeq(LAMBDA t, sum : t.r + sum, 0, ts)

(* sorted(trades, key=signal_time): trades are listed as they were closed.  *)
Ordered(ts) ==
  FoldSeq(LAMBDA moment, later : SelectSeq(ts, LAMBDA t : t.time = moment) \o later, <<>>,
          SetToSortSeq({ts[n].time : n \in DOMAIN ts}, <))

-----------------------------------------------------------------------------
(* The curve.  An episode under water begins with a peak and a trough and   *)
(* is completed when it ends, with the first trade that is not under water. *)
NoPoints == [cum |-> 0, peak |-> 0, under |-> <<>>, open |-> Null, episodes |-> <<>>]
Begun(t, peak, cum) ==
  [start |-> t.time, end |-> Null, peak |-> peak, trough |-> cum, depth |-> 0, trades |-> 0,
   large |-> 0, wins |-> 0, within |-> 0, cause |-> ""]

(* The trough of an episode stays where it began.                           *)
DeeperOnce(ep, t, cum) ==
  [ep EXCEPT !.trades = @ + 1, !.large = @ + IF t.r <= -10 THEN 1 ELSE 0]
Deeper(ep, t, cum) ==
  [ep EXCEPT !.trough = Lesser(@, cum), !.trades = @ + 1,
             !.large = @ + IF t.r <= -10 THEN 1 ELSE 0]

(* The win rate is that of all trades between both times, the one that ends *)
(* the episode included, which is not one of its trades.                    *)
Completed(ep, end, ts) ==
  LET within == SelectSeq(ts, LAMBDA t : t.time \in ep.start .. end)
  IN [ep EXCEPT !.end = end, !.depth = ep.peak - ep.trough, !.within = Len(within),
                !.wins = Len(SelectSeq(within, LAMBDA t : t.r > 0))]
Recovered(ep, end, ts) ==
  [Completed(ep, end, ts) EXCEPT
     !.cause = IF ep.large >= 2 THEN "few_large_losses" ELSE "many_small_losses"]

Point(s, t, ts) ==
  LET cum == s.cum + t.r
      peak == Greater(s.peak, cum)
      on == [s EXCEPT !.cum = cum, !.peak = peak, !.under = Append(@, peak - cum)]
  IN IF peak > cum
     THEN [on EXCEPT !.open = Deeper(IF s.open = Null THEN Begun(t, peak, cum) ELSE s.open, t, cum)]
     ELSE [on EXCEPT !.open = Null,
                     !.episodes = IF s.open = Null THEN @ ELSE Append(@, Recovered(s.open, t.time, ts))]

(* _build.  An episode that is still open is given the exit of the last     *)
(* trade for its end, or its signal if it has no exit.                      *)
Curve(ts) ==
  LET s == FoldLeft(LAMBDA p, t : Point(p, t, ts), NoPoints, ts)
      final == ts[Len(ts)]
      end == IF final.exit = Null THEN final.time ELSE final.exit
  IN IF s.open = Null THEN s
     ELSE [s EXCEPT !.episodes = Append(@, Completed(s.open, end, ts))]

MaxDrawdown(curve) == FoldSeq(Greater, 0, curve.under)
FirstFrom(ts, time) ==
  LET at == {n \in DOMAIN ts : ts[n].time >= time}
  IN IF at = {} THEN Null ELSE CHOOSE n \in at : \A m \in at : n <= m
RecoveryTime(ts, ep) ==
  LET from == FirstFrom(ts, ep.start)
      to == FirstFrom(ts, ep.end)
  IN IF from = Null \/ to = Null THEN Null ELSE to - from

-----------------------------------------------------------------------------
(* Clusters: three losses in a row make one, two only if a win follows, or  *)
(* nothing.                                                                 *)
NoLosses == [row |-> 0, longest |-> 0, current |-> 0, clusters |-> <<>>]
ClosedIf(s, least) ==
  [s EXCEPT !.current = IF s.current >= least THEN 0 ELSE @,
            !.clusters = IF s.current >= least THEN Append(@, s.current) ELSE @]
Counted(s, t) ==
  IF t.r <= 0
  THEN ClosedIf([s EXCEPT !.row = @ + 1, !.longest = Greater(@, s.row + 1), !.current = @ + 1], 3)
  ELSE [ClosedIf(s, 2) EXCEPT !.row = 0, !.current = 0]
Clusters(ts) == ClosedIf(FoldLeft(Counted, NoLosses, ts), 2)

(* The drawdown of a symbol, from a curve of its own that starts at zero.   *)
OwnDrawdown(ts) ==
  FoldLeft(LAMBDA s, t : LET v == s.v + t.r
                             top == Greater(s.top, v)
                         IN [v |-> v, top |-> top, dd |-> Greater(s.dd, top - v)],
           [v |-> 0, top |-> 0, dd |-> 0], ts).dd
OfSymbol(ts, symbol) == SelectSeq(ts, LAMBDA t : t.symbol = symbol)
Symbols(ts) == {ts[n].symbol : n \in DOMAIN ts}
(* The whole, of compute_metrics, is that of the symbols' replays one after *)
(* the other, of each as its trades were closed.                            *)
InTurn(ts) == FoldSeq(LAMBDA s, later : OfSymbol(ts, s) \o later, <<>>, SetToSeq(Symbols(ts)))

-----------------------------------------------------------------------------
(* Every trade under water belongs to one episode, which the curve enters   *)
(* and leaves in order; the deepest of them is the maximal drawdown, and    *)
(* where no two signals coincide a recovery takes as many trades as the     *)
(* episode has.                                                             *)
Depth(curve) == FoldSeq(LAMBDA ep, most : Greater(ep.depth, most), 0, curve.episodes)
EpisodesExplain(closed) ==
  LET ts == Ordered(closed)
      curve == Curve(ts)
      eps == curve.episodes
      apart == \A m, n \in DOMAIN ts : ts[m].time = ts[n].time => m = n
  IN /\ Depth(curve) = MaxDrawdown(curve)
     /\ FoldSeq(LAMBDA ep, sum : ep.trades + sum, 0, eps) =
          Len(SelectSeq(curve.under, LAMBDA dd : dd > 0))
     /\ \A n \in DOMAIN eps :
          /\ eps[n].depth > 0 /\ eps[n].start <= eps[n].end
          /\ n < Len(eps) => eps[n].end <= eps[n + 1].start
          /\ eps[n].cause = "few_large_losses" => eps[n].depth >= 10 /\ eps[n].trades >= 2
          /\ apart /\ eps[n].cause # "" =>
               RecoveryTime(ts, eps[n]) = eps[n].trades /\ eps[n].within = eps[n].trades + 1

(* Every streak of losses is in the report but for a single one, or one     *)
(* beyond a multiple of three.                                              *)
Streaks(ts) ==
  {s \in (DOMAIN ts) \X (DOMAIN ts) :
     /\ s[1] <= s[2] /\ \A k \in s[1] .. s[2] : ts[k].r <= 0
     /\ s[1] = 1 \/ ts[s[1] - 1].r > 0
     /\ s[2] = Len(ts) \/ ts[s[2] + 1].r > 0}
ClustersCover(closed) ==
  LET ts == Ordered(closed)
      c == Clusters(ts)
      Length(s) == s[2] - s[1] + 1
      InReport(s) == IF Length(s) % 3 = 1 THEN Length(s) - 1 ELSE Length(s)
  IN /\ FoldSeq(LAMBDA n, sum : n + sum, 0, c.clusters) =
          FoldSeq(LAMBDA s, sum : InReport(s) + sum, 0, SetToSeq(Streaks(ts)))
     /\ \A s \in Streaks(ts) : Length(s) <= c.longest
     /\ c.longest >= 2 <=> c.clusters # <<>>

(* The drawdowns attributed to the symbols make up at least the whole one,  *)
(* on the curve as in turn; and if the trades of each close in the order of *)
(* their signals, none is attributed more than the whole.                   *)
DrawdownAttributed(closed) ==
  LET ts == Ordered(closed)
      own == [s \in Symbols(ts) |-> OwnDrawdown(OfSymbol(ts, s))]
      sum == FoldSeq(LAMBDA s, all : own[s] + all, 0, SetToSeq(Symbols(ts)))
      whole == OwnDrawdown(InTurn(closed))
  IN /\ OwnDrawdown(ts) = MaxDrawdown(Curve(ts)) /\ OwnDrawdown(ts) <= sum
     /\ (\A s \in Symbols(ts) : OfSymbol(ts, s) = OfSymbol(closed, s)) =>
          whole <= sum /\ \A s \in Symbols(ts) : own[s] <= whole

CurveIsExplained(closed) ==
  EpisodesExplain(closed) /\ ClustersCover(closed) /\ DrawdownAttributed(closed)
=============================================================================
