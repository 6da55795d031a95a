---------------------------- MODULE TradeSimulator ----------------------------
(***************************************************************************)
(* historical_replay/trade_simulator.py as operators: a plan is entered on *)
(* its candle, and every active trade, the new one too, is held against    *)
(* it.  Candles hold whole numbers; entries, stops and targets carry the   *)
(* factor Scale.  A trade is known by the candle of its signal.            *)
(***************************************************************************)
EXTENDS Integers

CONSTANTS
  Scale,
  MaxHolding,    \* 60
  Cost, Funding  \* fees and slippage, and funding of a candle, in 1/100 %

Sign(dir) == IF dir = "LONG" THEN 1 ELSE -1
Magnitude(x) == IF x < 0 THEN -x ELSE x

(* TradePlan: entry at the middle of a zone around the close, which lies in *)
(* the candle; a stop dist away, the target three times as far.             *)
Signal(dir, c, n, dist) ==
  LET entry == Scale * c.c
  IN [dir |-> dir, at |-> n, entry |-> entry, dist |-> dist,
      stop |-> entry - Sign(dir) * dist, target |-> entry + 3 * Sign(dir) * dist]
(* _try_enter: at the close of the n-th candle, with the stop and target of *)
(* the signal.                                                              *)
Enter(s, c, n) ==
  [dir |-> s.dir, at |-> s.at, entered |-> n, entry |-> Scale * c.c, stop |-> s.stop,
   target |-> s.target, held |-> 0]

(* _check_exit: the stop comes first.                                       *)
Reaches(c, dir, price, adverse) ==
  IF (dir = "LONG") = adverse THEN Scale * c.l <= price ELSE Scale * c.h >= price
ExitOf(t, c) ==
  CASE Reaches(c, t.dir, t.stop, TRUE)    -> "STOP_LOSS"
    [] Reaches(c, t.dir, t.target, FALSE) -> "TAKE_PROFIT"
    [] t.held >= MaxHolding               -> "MAX_HOLDING_TIME"
    [] OTHER                              -> "NONE"
ExitPrice(t, c) ==
  CASE ExitOf(t, c) = "STOP_LOSS" -> t.stop [] ExitOf(t, c) = "TAKE_PROFIT" -> t.target [] OTHER -> Scale * c.c
(* _close_trade: what the trade gained, gross and net of costs, and its     *)
(* risk; R is the one over the other, and 0 when the stop is the entry.     *)
Closed(t, c, n) ==
  LET held == IF ExitOf(t, c) = "MAX_HOLDING_TIME" THEN t.held + 1 ELSE t.held
      gross == Sign(t.dir) * (ExitPrice(t, c) - t.entry)
      risk == Magnitude(t.entry - t.stop)
  IN [dir |-> t.dir, at |-> t.at, entered |-> t.entered, ended |-> n, reason |-> ExitOf(t, c),
      gross |-> gross, risk |-> risk, held |-> held,
      net |-> IF risk = 0 THEN 0 ELSE 10000 * gross - t.entry * (Cost + Funding * held)]

(* process_candle: trades that end on the candle, and those that go on.     *)
Ending(trades, c) == {t \in trades : ExitOf(t, c) # "NONE"}
Ended(trades, c, n) == {Closed(t, c, n) : t \in Ending(trades, c)}
Standing(trades, c) == {[t EXCEPT !.held = @ + 1] : t \in trades \ Ending(trades, c)}
=============================================================================
