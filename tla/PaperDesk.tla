------------------------------ MODULE PaperDesk ------------------------------
(***************************************************************************)
(* The paper trading desk of ultimate_trader/paper_trading: an executor    *)
(* that turns signal reports into orders, fills them into positions and    *)
(* closes those, over one account.  Every operation tells the event bus    *)
(* and store (EventStore) what it did; the store may fail to save, and     *)
(* publish_system_event then raises out of the operation.                  *)
(*                                                                         *)
(* Orders and positions are objects their caller keeps: reset empties the  *)
(* account's lists and leaves the objects alone.  A report is executed     *)
(* once, so report, order and position share one index.  Prices are whole  *)
(* numbers; money is counted in thousandths, for the fee is 0.1 %.         *)
(***************************************************************************)
EXTENDS Integers, Sequences, SequencesExt

CONSTANTS
  Reports,      \* ids of signal reports
  Prices,       \* prices of fills, marks and exits
  Sizes,        \* position sizes of plans
  MaxResets     \* bound: resets of the account

Bounds ==
  /\ Prices \subseteq Nat /\ Sizes \subseteq Nat
  /\ MaxResets \in Nat

VARIABLES
  report,     \* the reports: recommendation, side and size of the plan
  executed,   \* _executed_signals
  order,      \* the order made from each report: an object
  position,   \* the position of each order: an object
  orders,     \* reports whose order is in the account's _orders
  positions,  \* reports whose position is in the account's _positions
  trades,     \* the account's _closed_trades: per position, its trades
  realized,   \* _realized_pnl
  told,       \* events saved: <<type, report>>
  silent,     \* ghost: a save has failed
  made,       \* ghost: orders made from each report
  resets      \* resets so far

account == <<orders, positions, trades, realized>>
vars == <<report, executed, order, position, account, told, silent, made, resets>>

Sides == {"BUY", "SELL"}
NoOrder == [status |-> "none"]
NoPosition == [entry |-> 0, quantity |-> 0, price |-> 0, opened |-> FALSE]
Magnitude(x) == IF x < 0 THEN -x ELSE x

(* A recommendation other than PAPER_TRADE_CANDIDATE is rejected; a plan    *)
(* may lack an entry zone, or have one that is not safe.                    *)
ReportSet == [recommended : BOOLEAN, entry : BOOLEAN, side : Sides, size : Sizes]

Init ==
  /\ report \in [Reports -> ReportSet]
  /\ executed = {}
  /\ order = [r \in Reports |-> NoOrder]
  /\ position = [r \in Reports |-> NoPosition]
  /\ orders = {} /\ positions = {} /\ realized = 0
  /\ trades = [r \in Reports |-> <<>>]
  /\ told = {} /\ silent = FALSE /\ resets = 0
  /\ made = [r \in Reports |-> 0]

(* publish_system_event for each of some events in turn: the first save     *)
(* that fails raises, and the rest of the operation is skipped.             *)
Tell(events) ==
  \E n \in 0 .. Len(events) :
    /\ told' = told \cup {events[i] : i \in 1 .. n}
    /\ silent' = (silent \/ n < Len(events))
Quiet == UNCHANGED <<told, silent>>

-----------------------------------------------------------------------------
Signed(r, price) ==
  IF report[r].side = "BUY" THEN price - position[r].entry
  ELSE position[r].entry - price
(* unrealized_pnl: a price of zero means no price yet.                      *)
Gross(r, price) ==
  IF price = 0 THEN 0 ELSE Signed(r, price) * position[r].quantity
(* net_pnl = gross_pnl - 0.001 * |gross_pnl|, in thousandths                *)
Net(gross) == 1000 * gross - Magnitude(gross)
IsOpen(r) == position[r].price = 0 \/ position[r].quantity > 0

(* _create_order; the size is what position_sizing suggests.                *)
Reject(r) ==
  /\ ~report[r].recommended
  /\ Tell(<< <<"SIGNAL_REJECTED", r>> >>)
  /\ UNCHANGED <<executed, order, orders, made>>
Accept(r) ==
  /\ report[r].recommended
  /\ IF report[r].entry
     THEN /\ order' = [order EXCEPT ![r] =
                         [status |-> "PENDING", quantity |-> report[r].size, filled |-> 0]]
          /\ orders' = orders \cup {r}
          /\ executed' = executed \cup {r}
          /\ made' = [made EXCEPT ![r] = @ + 1]
          /\ Tell(<< <<"PAPER_TRADE_CREATED", r>> >>)
     ELSE UNCHANGED <<executed, order, orders, made>> /\ Quiet
Evaluate(r) ==
  /\ r \notin executed
  /\ Reject(r) \/ Accept(r)
  /\ UNCHANGED <<report, position, positions, trades, realized, resets>>

(* The owner of the order sends it: nothing in src/ sets SUBMITTED.         *)
Submit(r) ==
  /\ order[r].status = "PENDING"
  /\ order' = [order EXCEPT ![r].status = "SUBMITTED"]
  /\ UNCHANGED <<report, executed, position, account, told, silent, made, resets>>

(* A quantity of zero stands for the whole order, which may be of size zero *)
(* too, for the size is rounded; any fill ends the order.                   *)
FillQuantity(r, q) == IF q # 0 THEN q ELSE order[r].quantity
FillOrder(r, price, q) ==
  /\ order[r].status = "SUBMITTED"
  /\ LET qty == FillQuantity(r, q)
     IN /\ order' = [order EXCEPT ![r].status = "FILLED", ![r].filled = @ + qty]
        /\ position' = [position EXCEPT ![r] =
             [entry |-> price, quantity |-> qty, price |-> price, opened |-> TRUE]]
        /\ positions' = positions \cup {r}
  /\ Tell(<< <<"PAPER_ORDER_FILLED", r>>, <<"PAPER_POSITION_OPENED", r>> >>)
  /\ UNCHANGED <<report, executed, orders, trades, realized, made, resets>>

(* update_position_price finds the position through the account.            *)
UpdatePrice(r, price) ==
  /\ r \in positions
  /\ position' = [position EXCEPT ![r].price = price]
  /\ UNCHANGED <<report, executed, order, account, told, silent, made, resets>>

(* The trade is booked, the position removed and emptied.                   *)
Book(r, price) ==
  /\ LET net == Net(Gross(r, price))
     IN /\ trades' = [trades EXCEPT ![r] = Append(@,
             [exit |-> price, quantity |-> position[r].quantity, net |-> net])]
        /\ realized' = realized + net
  /\ positions' = positions \ {r}
  /\ position' = [position EXCEPT ![r].price = price, ![r].quantity = 0]
  /\ Tell(<< <<"PAPER_POSITION_CLOSED", r>> >>)
  /\ UNCHANGED <<report, executed, order, orders, made, resets>>

(* The new price is set, then rr = |gross| / (risk * quantity) raises.  The *)
(* risk is never zero: a position has no stop, which makes it one percent   *)
(* of the entry.                                                            *)
DivideByZero(r, price) ==
  /\ position' = [position EXCEPT ![r].price = price]
  /\ UNCHANGED <<report, executed, order, account, told, silent, made, resets>>

(* Slip: rr is 0 for a quantity of zero, as it is for a risk of zero.       *)
ClosePositionGuarded(r, price) ==
  position[r].opened /\ IsOpen(r) /\ Len(trades[r]) < 2 /\ Book(r, price)

ClosePosition(r, price) ==
  /\ position[r].opened /\ IsOpen(r)
  /\ \/ position[r].quantity > 0 /\ Book(r, price)
     \/ position[r].quantity = 0 /\ DivideByZero(r, price)

Reset ==
  /\ resets < MaxResets /\ resets' = resets + 1
  /\ realized' = 0 /\ orders' = {} /\ positions' = {}
  /\ trades' = [r \in Reports |-> <<>>]
  /\ UNCHANGED <<report, executed, order, position, told, silent, made>>

Next ==
  \/ Reset
  \/ \E r \in Reports :
       \/ Evaluate(r) \/ Submit(r)
       \/ \E p \in Prices \ {0}, q \in Sizes \cup {0} : FillOrder(r, p, q)
       \/ \E p \in Prices : UpdatePrice(r, p) \/ ClosePosition(r, p)

Spec == Init /\ [][Next]_vars

-----------------------------------------------------------------------------
TypeOK ==
  /\ report \in [Reports -> ReportSet]
  /\ executed \in SUBSET Reports /\ orders \in SUBSET Reports /\ positions \in SUBSET Reports
  /\ \A r \in Reports :
       /\ order[r] = NoOrder \/ /\ order[r].status \in {"PENDING", "SUBMITTED", "FILLED"}
                                /\ order[r].quantity \in Nat /\ order[r].filled \in Nat
       /\ position[r].entry \in Nat /\ position[r].price \in Nat
       /\ position[r].quantity \in Nat /\ position[r].opened \in BOOLEAN
  /\ realized \in Int /\ resets \in 0 .. MaxResets

(* A report is executed at most once, however often it is evaluated, also   *)
(* after a reset and when the event about its order could not be saved.     *)
ExecutedOnce == \A r \in Reports : made[r] <= 1

(* What leaves a position through its closing trades and what is left of it *)
(* is what was filled.                                                      *)
QuantityOf(r) == FoldSeq(LAMBDA t, sum : t.quantity + sum, 0, trades[r])
QuantityConserved ==
  resets = 0 =>
    \A r \in Reports :
      position[r].opened => QuantityOf(r) + position[r].quantity = order[r].filled

(* A position is booked as closed once.  After an exit at a price of zero   *)
(* it counts as open again, and it is the division by its quantity that     *)
(* keeps a second close from booking another trade.                         *)
ClosedOnce ==
  \A r \in Reports : Len(trades[r]) <= 1 /\ (trades[r] # <<>> => position[r].quantity = 0)

(* A position the account still counts, and holds margin for, can be closed,*)
(* unless its order was of size zero; one that has something left is        *)
(* counted, unless the account was reset.                                   *)
HeldIsOpen ==
  \A r \in Reports :
    /\ (r \in positions /\ order[r].filled > 0) => position[r].quantity > 0
    /\ (position[r].opened /\ position[r].quantity > 0 /\ resets = 0) => r \in positions

(* Events are told after the fact: what was announced has happened, and if  *)
(* no save failed, what has happened was announced.                         *)
ToldIsTrue ==
  \A r \in Reports :
    /\ <<"PAPER_TRADE_CREATED", r>> \in told => r \in executed
    /\ <<"PAPER_ORDER_FILLED", r>> \in told => order[r].status = "FILLED"
    /\ <<"PAPER_POSITION_CLOSED", r>> \in told => position[r].quantity = 0
    /\ ~silent =>
         /\ r \in executed => <<"PAPER_TRADE_CREATED", r>> \in told
         /\ position[r].opened => <<"PAPER_POSITION_OPENED", r>> \in told
         /\ trades[r] # <<>> => <<"PAPER_POSITION_CLOSED", r>> \in told

=============================================================================
