--------------------------- MODULE BacktestEngine ---------------------------
(***************************************************************************)
(* The backtest's event loop (backtest/engine.py) with the position book   *)
(* it keeps (domain/position.py), the protective levels (risk/stops.py),   *)
(* the fill rules (execution/matching.py), the costs (backtest/costs.py)   *)
(* and the round trips analytics later folds from the same fills           *)
(* (analytics/performance.py).                                             *)
(*                                                                         *)
(* One step takes one bar: levels are ratcheted and resolved, then the     *)
(* orders of the bar before are filled.  The strategy then sends signals,  *)
(* whose orders wait for the next bar.  What the strategy decides, and     *)
(* whether the risk chain approves it, is left open.                       *)
(*                                                                         *)
(* One symbol: others meet it only in the cash and in the risk chain.      *)
(* Money is integral, with Unit divisible by every quantity a division     *)
(* meets.  An order of this engine is DAY, so it rests for one bar.        *)
(***************************************************************************)
EXTENDS Integers, FiniteSets, Sequences, SequencesExt, Functions

CONSTANTS Bars,       \* the bars a symbol may print
          Unit,       \* one price level
          Qty,        \* what the sizer answers
          StopTypes,  \* stop configurations tried
          LastBar, MaxSignals, Warmup, Period, TimeBars

ASSUME EngineAssumption ==
  /\ Unit \in Nat \ {0} /\ Qty \in Nat \ {0} /\ LastBar \in Nat /\ MaxSignals \in Nat
  /\ Warmup \in Nat /\ Period \in Nat /\ TimeBars \in Nat \ {0}

\* Bar.__post_init__ refuses any other.
ASSUME BarsAssumption ==
  /\ Bars \subseteq [open : Nat, high : Nat, low : Nat, close : Nat, cap : Nat]
  /\ \A b \in Bars : b.low <= b.open /\ b.open <= b.high /\ b.low <= b.close /\ b.close <= b.high

None == 0
NoBar == [open |-> 0, high |-> 0, low |-> 0, close |-> 0, cap |-> 0]
Start == 100 * Unit
NotHeld == -1

VARIABLES
  stop_type,  \* StopConfig.stop_type, or "none" for a run without stops
  now,        \* bars done
  bar,        \* the bar the loop stands on
  book,       \* portfolio, result.orders and the trade statistics
  pending,    \* orders waiting for the next bar, as indices of book.orders
  sent        \* signals handled, up to MaxSignals

engineVars == <<stop_type, now, bar, book, pending, sent>>

Flat == [qty |-> 0, avg |-> None, realized |-> 0, fees |-> 0, last |-> None,
         stop |-> None, target |-> None, hwm |-> None]

EngineInit ==
  /\ stop_type \in StopTypes /\ now = 0 /\ bar = NoBar
  /\ book = [pos |-> Flat, cash |-> Start, base |-> NotHeld, pnls |-> <<>>,
             held |-> NotHeld, orders |-> <<>>]
  /\ pending = <<>> /\ sent = 0

Abs(n) == IF n < 0 THEN -n ELSE n
Sign(n) == IF n < 0 THEN -1 ELSE 1
Least(a, b) == IF a < b THEN a ELSE b
Most(a, b) == IF a > b THEN a ELSE b

-----------------------------------------------------------------------------
(* Position.apply_fill. *)

\* A fault: a flip through zero keeps the basis of the side it closed.
BasisAfterKept(p, q, price) ==
  IF p.qty = 0 THEN price
  ELSE IF Sign(p.qty) = Sign(q) THEN (p.avg * Abs(p.qty) + price * Abs(q)) \div (Abs(p.qty) + Abs(q))
  ELSE p.avg

BasisAfter(p, q, price) ==
  IF p.qty = 0 THEN price
  ELSE IF Sign(p.qty) = Sign(q) THEN (p.avg * Abs(p.qty) + price * Abs(q)) \div (Abs(p.qty) + Abs(q))
  ELSE IF Abs(q) > Abs(p.qty) THEN price ELSE p.avg

RealizedBy(p, q, price) ==
  IF p.qty = 0 \/ Sign(p.qty) = Sign(q) THEN 0
  ELSE Least(Abs(q), Abs(p.qty)) * (price - p.avg) * Sign(p.qty)

ApplyFill(p, q, price, fee) ==
  LET r == p.realized + RealizedBy(p, q, price)
      f == p.fees + fee
  IN IF p.qty + q = 0 THEN [Flat EXCEPT !.realized = r, !.fees = f, !.last = price]
     ELSE [p EXCEPT !.qty = @ + q, !.avg = BasisAfter(p, q, price),
                    !.realized = r, !.fees = f, !.last = price]

Equity(b) == b.cash + b.pos.qty * b.pos.last
Unrealized(p) == IF p.qty = 0 THEN 0 ELSE (p.last - p.avg) * p.qty

-----------------------------------------------------------------------------
(* Costs: slippage is always against the order; a commission has a minimum  *)
(* per order, and a sale pays fees on its notional, rounded up, and by share.*)

Slippage(side, price) == side * (price \div 8)
BrokerTotal(qty) == IF qty = 0 THEN 0 ELSE Most(60 * qty, 120)
TafTotal(qty) == Least(60 * qty, 180)
Commission(side, price, qty) ==
  BrokerTotal(qty) + IF side = 1 THEN 0
                     ELSE TafTotal(qty) + 60 * ((price * qty + Unit - 1) \div Unit)

-----------------------------------------------------------------------------
(* Fill rules: intended_price. *)

\* A fault: a limit order fills at its limit, wherever the bar traded.
IntendedPriceAtLimit(o, b) ==
  IF o.limit = None THEN b.open
  ELSE IF o.side = 1 THEN IF b.low <= o.limit THEN o.limit ELSE None
  ELSE IF b.high >= o.limit THEN o.limit ELSE None

IntendedPrice(o, b) ==
  IF o.limit = None THEN b.open
  ELSE IF o.side = 1 THEN IF b.low <= o.limit THEN Least(b.open, o.limit) ELSE None
  ELSE IF b.high >= o.limit THEN Most(b.open, o.limit) ELSE None

-----------------------------------------------------------------------------
(* Stops: a level is None when it cannot be had (StopManager). *)

\* A true range needs the bar before it: ATR takes one bar more than its period.
AtrKnown(seen) == seen > Period
Guarded(level) == IF level <= 0 THEN None ELSE level
FromEntry == {"fixed_pct", "fixed_amount"}
Trailing == {"trailing_pct", "chandelier"}

\* The distance the configuration keeps from a price, on taking the next bar; 0
\* if it has none.
Distance(price) ==
  CASE stop_type \in {"fixed_pct", "trailing_pct"} -> price \div 4
    [] stop_type = "fixed_amount" -> Unit
    [] stop_type \in {"atr", "chandelier"} /\ AtrKnown(now + 1) -> Unit \div 2
    [] OTHER -> 0

InitialStop(entry, side) ==
  IF Distance(entry) = 0 THEN None ELSE Guarded(entry - side * Distance(entry))
TakeProfitLevel(entry, side) ==
  IF stop_type \in FromEntry THEN Guarded(entry + side * Distance(entry)) ELSE None

\* update_trailing: the level only ever moves with the position.
Ratcheted(p, candidate) ==
  IF \/ candidate <= 0
     \/ p.stop # None /\ (IF p.qty > 0 THEN candidate <= p.stop ELSE candidate >= p.stop)
  THEN p.stop ELSE candidate

MaintainTrailing(p, b) ==
  IF p.qty = 0 \/ stop_type \notin Trailing THEN p
  ELSE LET Further(x, y) == IF p.qty > 0 THEN Most(x, y) ELSE Least(x, y)
           anchor == Further(IF p.hwm = None THEN p.avg ELSE p.hwm,
                             IF p.qty > 0 THEN b.high ELSE b.low)
       IN [p EXCEPT !.hwm = anchor,
                    !.stop = IF Distance(anchor) = 0 THEN @
                             ELSE Ratcheted(p, anchor - Sign(p.qty) * Distance(anchor))]

ShouldTrigger(p, b) ==
  p.qty # 0 /\ p.stop # None /\ (IF p.qty > 0 THEN b.low <= p.stop ELSE b.high >= p.stop)
TargetHit(p, b) ==
  p.qty # 0 /\ p.target # None /\ (IF p.qty > 0 THEN b.high >= p.target ELSE b.low <= p.target)
TimeExitDue(bk) == stop_type = "time" /\ bk.held # NotHeld /\ bk.held >= TimeBars

-----------------------------------------------------------------------------
(* Execution. *)

\* _arm_from_config: levels the signal did not bring.
ArmFromConfig(p) ==
  IF p.qty = 0 \/ stop_type \in {"none", "time"} THEN p
  ELSE [p EXCEPT !.stop = IF @ = None THEN InitialStop(p.avg, Sign(p.qty)) ELSE @,
                 !.target = IF @ = None THEN TakeProfitLevel(p.avg, Sign(p.qty)) ELSE @]

\* The levels an entry's signal brought replace both of the position's.
WithLevels(p, o) ==
  IF o.levels = <<>> \/ p.qty = 0 THEN p
  ELSE [p EXCEPT !.stop = o.levels[1], !.target = o.levels[2]]

\* _execute: as much of the order as the bar's volume allows, at the intended
\* price and slippage; a round trip's result is what realized and fees moved by
\* since the position was last flat.
Execute(bk, i, b, ts, intended) ==
  LET o == bk.orders[i]
      qty == Least(o.qty, b.cap)
      price == intended + Slippage(o.side, intended)
      fee == Commission(o.side, price, qty)
      before == bk.pos.realized - bk.pos.fees
      base == IF bk.pos.qty = 0 THEN before ELSE bk.base
      p == ApplyFill(bk.pos, qty * o.side, price, fee)
  IN IF qty = 0 THEN bk
     ELSE [pos |-> ArmFromConfig(WithLevels(p, o)),
           cash |-> bk.cash - (qty * price * o.side + fee),
           base |-> IF p.qty = 0 THEN NotHeld ELSE base,
           pnls |-> IF p.qty = 0 THEN Append(bk.pnls, p.realized - p.fees - base) ELSE bk.pnls,
           held |-> IF p.qty = 0 THEN NotHeld ELSE Most(bk.held, 0),
           orders |-> [bk.orders EXCEPT ![i].fill =
                        [ts |-> ts, qty |-> qty, intended |-> intended, price |-> price, fee |-> fee]]]

NoFill == [ts |-> 0, qty |-> 0, intended |-> 0, price |-> 0, fee |-> 0]

\* A protective exit is an order of this bar, for the whole position.
ExitAt(bk, b, ts, purpose, level, intended) ==
  LET o == [side |-> -Sign(bk.pos.qty), qty |-> Abs(bk.pos.qty), limit |-> None, levels |-> <<>>,
            decided |-> ts, purpose |-> purpose, level |-> level, fill |-> NoFill]
      with == [bk EXCEPT !.orders = Append(@, o)]
  IN Execute(with, Len(with.orders), b, ts, intended)

\* _check_stops: the trailing level first; of a bar that spans both levels the
\* stop is taken; a stop fills at the open if that is worse, a target if better.
CheckStops(bk0, b, ts) ==
  LET bk == [bk0 EXCEPT !.pos = MaintainTrailing(@, b)]
      p == bk.pos
      Worse(x, y) == IF p.qty > 0 THEN Least(x, y) ELSE Most(x, y)
      Better(x, y) == IF p.qty > 0 THEN Most(x, y) ELSE Least(x, y)
  IN IF p.qty = 0 THEN bk
     ELSE IF ShouldTrigger(p, b) THEN ExitAt(bk, b, ts, "stop_loss", p.stop, Worse(b.open, p.stop))
     ELSE IF TargetHit(p, b) THEN ExitAt(bk, b, ts, "take_profit", p.target, Better(b.open, p.target))
     ELSE IF TimeExitDue(bk) THEN ExitAt(bk, b, ts, "time_exit", None, b.close)
     ELSE bk

\* _fill_pending_for.
FillPending(bk, b, ts) ==
  FoldLeft(LAMBDA acc, i : LET price == IntendedPrice(acc.orders[i], b)
                           IN IF price = None THEN acc ELSE Execute(acc, i, b, ts, price),
           bk, pending)

\* A DAY order not filled, or filled in part, expires with the bar.
LeftPending(b) == <<>>

\* The loop's body up to the strategy; marked to the close before and after.
TakeBar(b) ==
  LET marked == [book EXCEPT !.pos.last = b.close,
                             !.held = IF @ = NotHeld THEN @ ELSE @ + 1]
  IN /\ now < LastBar
     /\ now' = now + 1 /\ bar' = b
     /\ book' = [FillPending(CheckStops(marked, b, now + 1), b, now + 1) EXCEPT !.pos.last = b.close]
     /\ pending' = LeftPending(b)
     /\ UNCHANGED <<stop_type, sent>>

-----------------------------------------------------------------------------
(* Signals: _handle_signal. *)

Queue(side, qty, limit, levels, purpose) ==
  /\ book' = [book EXCEPT !.orders = Append(@,
       [side |-> side, qty |-> qty, limit |-> limit, levels |-> levels,
        decided |-> now, purpose |-> purpose, level |-> None, fill |-> NoFill])]
  /\ pending' = Append(pending, Len(book.orders) + 1)

\* A signal of a bar in the warmup is dropped, one refused leaves no order, and
\* one of the last bar an order that never fills, which is left out.
MaySignal == now > Warmup /\ now < LastBar /\ sent < MaxSignals /\ sent' = sent + 1

\* _with_derived_stop: the level sizing needs, from the close it decided on.
EntryLevels(side, own) ==
  IF own # <<>> THEN own
  ELSE IF \/ stop_type \in {"none", "time"} \/ InitialStop(bar.close, side) = None
          \/ stop_type \in {"atr", "chandelier"} /\ ~AtrKnown(now) THEN <<>>
  ELSE <<InitialStop(bar.close, side), None>>

Enter(side, limit, own) ==
  /\ MaySignal
  /\ Queue(side, Qty, limit, EntryLevels(side, own), "entry")
  /\ UNCHANGED <<stop_type, now, bar>>

ExitSignal ==
  /\ MaySignal /\ book.pos.qty # 0
  /\ Queue(-Sign(book.pos.qty), Abs(book.pos.qty), None, <<>>, "exit")
  /\ UNCHANGED <<stop_type, now, bar>>

\* A strategy enters at market, or on a pullback with levels of its own.
OwnLevels(side) == <<bar.close - side * (Unit \div 2), bar.close + side * Unit>>

Signal ==
  \/ \E side \in {1, -1} :
       \/ Enter(side, None, <<>>)
       \/ Enter(side, bar.close - side * Unit, OwnLevels(side))
  \/ ExitSignal

EngineNext == (\E b \in Bars : TakeBar(b)) \/ Signal

EngineSpec == EngineInit /\ [][EngineNext]_engineVars

-----------------------------------------------------------------------------
(* Round trips from fills: PerformanceAnalyzer.build_trades. *)

NoEpisode == [qty |-> 0, entry |-> 0, exit |-> 0, fees |-> 0]

\* _to_trade: net of both legs' fees.
NetPnl(e, side) == (e.exit - e.entry) * side - e.fees

\* A fault: the remainder of a fill through zero is dropped.
AddFillDrops(acc, o) ==
  LET q == o.fill.qty
      e == acc.episode
      closing == IF e.qty # 0 /\ Sign(e.qty) # o.side THEN Least(q, Abs(e.qty)) ELSE 0
      closed == [e EXCEPT !.qty = @ + o.side * closing, !.exit = @ + closing * o.fill.price,
                          !.fees = @ + o.fill.fee]
  IN IF closing > 0
     THEN [episode |-> IF closed.qty = 0 THEN NoEpisode ELSE closed,
           trades |-> IF closed.qty = 0 THEN Append(acc.trades, NetPnl(closed, -o.side)) ELSE acc.trades]
     ELSE [acc EXCEPT !.episode = [e EXCEPT !.qty = @ + o.side * q, !.entry = @ + q * o.fill.price,
                                            !.fees = @ + o.fill.fee]]

\* A fill against the episode closes what it holds, its fee split by quantity;
\* what is left of it opens the next one.
AddFill(acc, o) ==
  LET q == o.fill.qty
      e == acc.episode
      closing == IF e.qty # 0 /\ Sign(e.qty) # o.side THEN Least(q, Abs(e.qty)) ELSE 0
      closingFee == (o.fill.fee * closing) \div q
      closed == [e EXCEPT !.qty = @ + o.side * closing, !.exit = @ + closing * o.fill.price,
                          !.fees = @ + closingFee]
      ended == closing > 0 /\ closed.qty = 0
      rest == q - closing
      from == IF ended THEN NoEpisode ELSE closed
  IN [episode |-> [from EXCEPT !.qty = @ + o.side * rest, !.entry = @ + rest * o.fill.price,
                               !.fees = @ + (o.fill.fee - closingFee)],
      trades |-> IF ended THEN Append(acc.trades, NetPnl(closed, -o.side)) ELSE acc.trades]

\* _fill_stream: by time, and orders of one time by their place in the list.
AddFillsAt(acc, t) ==
  FoldLeft(LAMBDA a, o : IF o.fill.qty > 0 /\ o.fill.ts = t THEN AddFill(a, o) ELSE a, acc, book.orders)

NoTrades == [episode |-> NoEpisode, trades |-> <<>>]
BuildTrades == FoldLeft(AddFillsAt, NoTrades, [t \in 1..now |-> t]).trades

SumOf(s) == SumFunctionOnSet(s, DOMAIN s)

\* BacktestResult: unrealized_pnl, realized_pnl (net of costs) and totals' fees.
ResultUnrealized == Unrealized(book.pos)
ResultRealized == Equity(book) - Start - ResultUnrealized
ResultFees == SumOf([i \in DOMAIN book.orders |-> book.orders[i].fill.fee])

-----------------------------------------------------------------------------
(* Properties. *)

\* Types: an order waits only for the bar after the one it was decided on, a
\* flat position has no basis and no levels, and one is held exactly when its
\* bars are counted and its trade has a base (_fill_pending_for, apply_fill).
EngineTyped ==
  /\ \A i \in DOMAIN pending : book.orders[pending[i]].decided = now
  /\ book.pos.qty = 0 => [book.pos EXCEPT !.realized = 0, !.fees = 0, !.last = None] = Flat
  /\ (book.pos.qty = 0) <=> (book.held = NotHeld) /\ (book.held = NotHeld => book.base = NotHeld)

\* The books agree whatever was scaled into, closed in part or flipped: what the
\* result reports as realized and as fees, from equity and from the orders, is
\* what the position has realized and paid, and the completed trades sum to what
\* was realized when it was last flat (apply_fill, _execute, _trade_base).
PnlBalances == ResultRealized = book.pos.realized - book.pos.fees
FeesBalance == ResultFees = book.pos.fees
TripsBalance ==
  SumOf(book.pnls) = IF book.pos.qty = 0 THEN book.pos.realized - book.pos.fees ELSE book.base
BooksBalance == PnlBalances /\ FeesBalance /\ TripsBalance

\* The trades analytics folds from the stored fills account for every cent of a
\* flat book, although it sees one bar's fills in another order than the engine
\* made them (build_trades, _fill_stream).
TradesAccountForTheBook == book.pos.qty = 0 => SumOf(BuildTrades) = book.cash - Start

\* No fill uses what was not known, or is better than the bar allows: an order
\* of the strategy fills on a later bar than it was decided on, at a price its
\* bar traded at, and a position whose stop the bar reached is closed at no
\* better than the stop (_fill_pending_for, intended_price, _check_stops).
FillsAreHonest ==
  \A i \in DOMAIN book.orders :
    LET o == book.orders[i] IN
    o.fill.ts = now /\ now > 0 =>
      /\ o.purpose \in {"entry", "exit"} => o.decided < now
      /\ bar.low <= o.fill.intended /\ o.fill.intended <= bar.high
      /\ o.purpose = "stop_loss" => o.side * (o.fill.price - o.level) >= 0

=============================================================================
