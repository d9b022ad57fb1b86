--------------------------- MODULE SimulatedBroker --------------------------
(***************************************************************************)
(* The in-process fill simulator (brokers/simulated.py), for paper trading *)
(* against this project's own cost model: orders by client id, the one-bar *)
(* rest, the volume cap, cash and the position.  It shares the touch rule  *)
(* and the costs with the backtest engine, and nothing else.               *)
(*                                                                         *)
(* Bar n opens at n - 1, when bar n - 1 has closed.  Orders are DAY, market *)
(* or limit, as the engine sends them; quotes and cancellations are left   *)
(* out.  Broker ids count up, so _open_orders keeps its orders by id.      *)
(***************************************************************************)
EXTENDS BacktestEngine

VARIABLE venue    \* _cash, _positions, _open_orders, and the orders ever accepted, by id

EmptyVenue == [cash |-> Start, pos |-> Flat, orders |-> <<>>, open |-> {}]

Accept(v, key, o, t) ==
  [v EXCEPT !.orders = Append(@, [key |-> key, side |-> o.side, qty |-> o.qty, limit |-> o.limit,
                                  at |-> t, status |-> "SUBMITTED", fills |-> <<>>]),
            !.open = @ \cup {Len(v.orders) + 1}]

\* A fault: an order is opened for whatever is sent.
SubmitOrderBlindly(v, key, o, t) == Accept(v, key, o, t)

\* submit_order: a client id that is known has its order already, open or not.
SubmitOrder(v, key, o, t) ==
  IF \E id \in DOMAIN v.orders : v.orders[id].key = key THEN v ELSE Accept(v, key, o, t)

Remaining(o) == o.qty - FoldLeft(LAMBDA a, f : a + f.qty, 0, o.fills)

\* The bar opened when the order was there.
MayFillOn(o, ts) == ts >= o.at

Retire(v, id, status) == [v EXCEPT !.open = @ \ {id}, !.orders[id].status = status]

Book(v, id, fill) ==
  LET side == v.orders[id].side
  IN [v EXCEPT !.orders[id].fills = Append(@, fill),
               !.pos = ApplyFill(@, fill.qty * side, fill.price, fill.fee),
               !.cash = @ - (fill.qty * fill.price * side + fill.fee)]

\* One resting order meets a bar: untouched or filled in part it expires.  One
\* that was touched but met no volume rests on, DAY or not.
Meet(v, id, b, n) ==
  LET o == v.orders[id]
      touched == IntendedPrice(o, b)
      price == touched + Slippage(o.side, touched)
      qty == Least(Remaining(o), b.cap)
      booked == Book(v, id, [ts |-> n, qty |-> qty, intended |-> touched, price |-> price,
                             fee |-> Commission(o.side, price, qty)])
  IN IF touched = None THEN Retire(v, id, "EXPIRED")
     ELSE IF qty <= 0 THEN v
     ELSE Retire(booked, id, IF Remaining(booked.orders[id]) > 0 THEN "EXPIRED" ELSE "FILLED")

\* on_bar: the orders that were there when the bar opened, in their order.
VenueBar(v, b, n) ==
  FoldLeft(LAMBDA acc, id : IF id \in v.open /\ MayFillOn(v.orders[id], n - 1) THEN Meet(acc, id, b, n)
                            ELSE acc,
           v, [id \in DOMAIN v.orders |-> id])

VenueFills(v, key) ==
  UNION {Range(v.orders[id].fills) : id \in {x \in DOMAIN v.orders : v.orders[x].key = key}}

=============================================================================
