------------------------------ MODULE RiskChain ------------------------------
(***************************************************************************)
(* The pre-trade risk chain (risk/engine.py, risk/rules.py) as the runner   *)
(* uses it: every order is judged against the settled book, against the    *)
(* book with the entries in flight filled, and against what the orders in  *)
(* flight may still do; then it goes to the venue, which fills, cancels or *)
(* refuses it.  Around it: quotes and the clock, halts, session anchors of *)
(* the daily loss limit and restarts (runner.py), lost submissions         *)
(* (execution/router.py).                                                  *)
(*                                                                         *)
(* Data: money and quantities are integers, limits are percentages, and a  *)
(* price of 0 stands for None.  No rule of the chain adjusts a quantity,   *)
(* so adjusted_qty is left out.  Cost bases and fees are not read by any   *)
(* rule (BacktestEngine and FeeSettlement do).  One strategy: every        *)
(* halt here is global.                                                    *)
(***************************************************************************)
EXTENDS Integers, FiniteSets, FiniteSetsExt, Sequences

CONSTANTS Symbols,          \* what is traded
          Entries,          \* the entries the strategy may decide on, and how they are sized;
                            \* limit 0: a market order
          Prices, StartPrice, \* the prices of the market, and its first one
          StartCash, StartQty, \* the account at boot; a holding has no mark yet
          MaxPositionPct, MaxGrossExposurePct, MaxDailyLossPct,
          MaxOrdersPerMinute, MaxOpenPositions, \* RiskLimits
          Minute,           \* the rate limit's window, in ticks
          StormRefusals,    \* RATE_LIMIT_STORM_REFUSALS
          MaxOrders, MaxTicks, MaxEvents \* bounds of the model

NoPrice == 0
None == -1

\* RiskLimits.__post_init__: fractions in (0, ceiling], counts of at least one,
\* and no position limit above the limit of the whole book.
LegalLimits ==
  /\ MaxPositionPct \in 1..100 /\ MaxGrossExposurePct \in 1..400 /\ MaxDailyLossPct \in 1..50
  /\ {MaxOrdersPerMinute, MaxOpenPositions} \subseteq Nat \ {0}
  /\ MaxPositionPct <= MaxGrossExposurePct

ASSUME LimitsAssumption == LegalLimits
ASSUME DataAssumption ==
  /\ IsFiniteSet(Symbols)
  /\ Entries \subseteq [symbol : Symbols, side : {1, -1}, limit : Nat, stop : Nat,
                        method : STRING, value : Nat \ {0}]
  /\ Prices \subseteq Nat \ {0} /\ StartPrice \in Prices
  /\ StartCash \in Nat /\ StartQty \in [Symbols -> Int] /\ Minute \in Nat \ {0}

VARIABLES
  book,      \* the Portfolio: qty and mark of every symbol, cash
  working,   \* _open_orders: id -> the order, what is left of it
  halted,    \* the kill switch is engaged
  unproven,  \* the symbols its evidence names
  fresh,     \* the symbols whose last tick is not older than max_quote_age
  market,    \* the price of every symbol
  moved,     \* history: a price has moved
  clock, open,
  recent,    \* RateLimitRule._recent
  refusals,  \* _rate_limit_refusals
  anchor,    \* DailyLossLimitRule.day_start_equity, or None
  pending,   \* _anchor_pending
  stored,    \* the anchor store: the equity stored for today, if there is one
  sent,      \* history: when this process sent its orders
  anchors,   \* history: the equities today was anchored at
  issued,    \* the orders sent so far
  events     \* price moves, quiet feeds, halts, failures and sessions so far

orderVars == <<book, working, issued>>
haltVars == <<halted, unproven>>
rateVars == <<recent, refusals, sent>>
anchorVars == <<anchor, pending, stored, anchors>>
worldVars == <<fresh, market, moved, clock, open>>
vars == <<orderVars, haltVars, rateVars, anchorVars, worldVars, events>>

Init ==
  /\ book = [qty |-> StartQty, mark |-> [s \in Symbols |-> NoPrice], cash |-> StartCash]
  /\ working = <<>> /\ issued = 0
  /\ halted = FALSE /\ unproven = {}
  /\ recent = <<>> /\ refusals = 0 /\ sent = <<>>
  /\ anchor = None /\ pending = TRUE /\ stored = {} /\ anchors = {}
  /\ fresh = {} /\ clock = 0 /\ open = TRUE
  /\ market = [s \in Symbols |-> StartPrice] /\ moved = FALSE /\ events = 0

Event == events < MaxEvents /\ events' = events + 1

Abs(n) == IF n < 0 THEN -n ELSE n
NoOrders == <<>>

-----------------------------------------------------------------------------
(* The book (domain/position.py). *)

Equity(p) == p.cash + SumFunction([s \in Symbols |-> p.qty[s] * p.mark[s]])
GrossExposure(p) == SumFunction([s \in Symbols |-> Abs(p.qty[s] * p.mark[s])])
OpenPositions(p) == {s \in Symbols : p.qty[s] # 0}
UnmarkedSymbols(p) == {s \in OpenPositions(p) : p.mark[s] = NoPrice}

-----------------------------------------------------------------------------
(* What the rules measure (risk/rules.py). *)

Signed(o) == o.side * o.qty
Reduces(o, p) == p.qty[o.symbol] * o.side < 0
ClosesWithoutReversing(o, p) == Reduces(o, p) /\ o.qty <= Abs(p.qty[o.symbol])

ReferencePrice(s, p, limit) == IF limit # NoPrice THEN limit ELSE p.mark[s]

\* The book with every working order filled that does not reduce a holding: an
\* exit that has not happened must not make room.  A symbol without a mark is
\* marked by the first of them that has a price.
ProjectPending(p, orders) ==
  LET ids == {id \in DOMAIN orders : ~Reduces(orders[id], p)}
      In(s) == {id \in ids : orders[id].symbol = s}
      Price(id) == ReferencePrice(orders[id].symbol, p, orders[id].limit)
      Priced(s) == {id \in In(s) : Price(id) # NoPrice}
  IN [qty |-> [s \in Symbols |-> p.qty[s] + SumFunction([id \in In(s) |-> Signed(orders[id])])],
      mark |-> [s \in Symbols |-> IF p.mark[s] = NoPrice /\ Priced(s) # {}
                                  THEN Price(Min(Priced(s))) ELSE p.mark[s]],
      cash |-> p.cash - SumFunction([id \in ids |-> Signed(orders[id]) * Price(id)])]

InFlight(s, side, orders) ==
  LET ids == {id \in DOMAIN orders : orders[id].symbol = s /\ orders[id].side = side}
  IN SumFunction([id \in ids |-> orders[id].qty])

RiskBooks(orders) ==
  [settled |-> book, committed |-> ProjectPending(book, orders),
   buys |-> [s \in Symbols |-> InFlight(s, 1, orders)],
   sells |-> [s \in Symbols |-> InFlight(s, -1, orders)]]

\* A fault: the outcomes of the committed book alone.
ProducibleIfCommitted(s, b) == {b.committed.qty[s]}

\* The quantities the orders in flight can leave: the ends of the interval,
\* nothing at all, and the committed book.
Producible(s, b) ==
  LET held == b.settled.qty[s] IN
  {held, held + b.buys[s], held - b.sells[s], b.committed.qty[s]}

WorstResulting(o, b) == Max({Abs(q + Signed(o)) : q \in Producible(o.symbol, b)})
WorstMagnitude(s, b) == Max({Abs(q) : q \in Producible(s, b)})

-----------------------------------------------------------------------------
(* The rules, in the order default_rules lists them.  True is allow. *)

KillSwitchRule(o, b) ==
  halted => /\ Reduces(o, b.settled)
            /\ o.symbol \notin unproven
            /\ ClosesWithoutReversing(o, b.settled)

TradingHoursRule == open

\* What was counted is dropped from the front while it is not after the cutoff.
WithoutUpTo(cutoff) ==
  LET inside == {i \in DOMAIN recent : recent[i] > cutoff} IN
  IF inside = {} THEN <<>> ELSE SubSeq(recent, Min(inside), Len(recent))
\* A fault: the window is closed one tick early.
StillRecentShort == WithoutUpTo(clock - Minute + 1)
StillRecent == WithoutUpTo(clock - Minute)
RateLimitRule == Len(StillRecent) < MaxOrdersPerMinute

\* A symbol with no tick at all is stale too.
StaleDataRule(o) == o.symbol \in fresh

\* The ceilings value the committed book, and refuse what they cannot value.
Valued(o, b) ==
  /\ UnmarkedSymbols(b.committed) = {}
  /\ ReferencePrice(o.symbol, b.committed, o.limit) # NoPrice
  /\ Equity(b.committed) > 0

\* A fault: the exit is exempted only once the book could be valued.
MaxPositionSizeRuleValuesFirst(o, b) ==
  /\ Valued(o, b)
  /\ \/ ClosesWithoutReversing(o, b.settled)
     \/ 100 * WorstResulting(o, b) * ReferencePrice(o.symbol, b.committed, o.limit)
          <= MaxPositionPct * Equity(b.committed)

MaxPositionSizeRule(o, b) ==
  \/ ClosesWithoutReversing(o, b.settled)
  \/ /\ Valued(o, b)
     /\ 100 * WorstResulting(o, b) * ReferencePrice(o.symbol, b.committed, o.limit)
          <= MaxPositionPct * Equity(b.committed)

MaxExposureRule(o, b) ==
  LET p == b.committed
      price == ReferencePrice(o.symbol, p, o.limit)
      Extra(s) == WorstMagnitude(s, b) - Abs(p.qty[s])
      others == {s \in Symbols \ {o.symbol} : b.buys[s] + b.sells[s] > 0 /\ Extra(s) > 0}
      resulting == GrossExposure(p) - Abs(p.qty[o.symbol]) * price
                   + WorstResulting(o, b) * price
                   + SumFunction([s \in others |-> Extra(s) * p.mark[s]])
  IN \/ ClosesWithoutReversing(o, b.settled)
     \/ /\ Valued(o, b)
        /\ \A s \in others : p.mark[s] # NoPrice
        /\ 100 * resulting <= MaxGrossExposurePct * Equity(p)

MaxOpenPositionsRule(o, b) ==
  \/ b.committed.qty[o.symbol] # 0
  \/ Cardinality(OpenPositions(b.committed)) < MaxOpenPositions

DailyLossLimitRule(o, b) ==
  \/ Reduces(o, b.settled)
  \/ /\ anchor # None /\ anchor > 0
     /\ UnmarkedSymbols(b.committed) = {}
     /\ 100 * (Equity(b.committed) - anchor) > -MaxDailyLossPct * anchor

BuyingPowerRule(o, b) ==
  LET price == ReferencePrice(o.symbol, b.committed, o.limit) IN
  \/ Reduces(o, b.settled)
  \/ price # NoPrice /\ o.qty * price <= b.committed.cash

Chain == <<"kill_switch", "trading_hours", "rate_limit", "stale_data", "max_position_size",
           "max_gross_exposure", "max_open_positions", "daily_loss_limit", "buying_power">>

Allows(rule, o, b) ==
  CASE rule = "kill_switch" -> KillSwitchRule(o, b)
    [] rule = "trading_hours" -> TradingHoursRule
    [] rule = "rate_limit" -> RateLimitRule
    [] rule = "stale_data" -> StaleDataRule(o)
    [] rule = "max_position_size" -> MaxPositionSizeRule(o, b)
    [] rule = "max_gross_exposure" -> MaxExposureRule(o, b)
    [] rule = "max_open_positions" -> MaxOpenPositionsRule(o, b)
    [] rule = "daily_loss_limit" -> DailyLossLimitRule(o, b)
    [] rule = "buying_power" -> BuyingPowerRule(o, b)

\* RiskEngine.validate: the first rule that refuses, or "approved".
Validate(o, orders) ==
  LET b == RiskBooks(orders)
      refusing == {i \in DOMAIN Chain : ~Allows(Chain[i], o, b)}
  IN IF refusing = {} THEN "approved" ELSE Chain[Min(refusing)]

\* What judging an order leaves in the rate limit's window: a rule before it
\* refused and it was not asked; it refused; or it counted the order, whatever
\* the rules after it said.
RecentAfter(verdict) ==
  CASE verdict \in {"kill_switch", "trading_hours"} -> recent
    [] verdict = "rate_limit" -> StillRecent
    [] OTHER -> Append(StillRecent, clock)

-----------------------------------------------------------------------------
(* Submitting: the runner, the router and the venue. *)

\* The venue (external) does not close what another working order reserves.
VenueTakes(o) ==
  ClosesWithoutReversing(o, book) => o.qty <= Abs(book.qty[o.symbol]) - InFlight(o.symbol, o.side, working)

\* A global halt naming symbols: evidence accumulates.
Engage(symbols) == halted' = TRUE /\ unproven' = unproven \cup symbols

\* The runner's answer to a refusal of a signal: a lost day and a storm of
\* consecutive rate refusals halt trading (the count is only compared with the
\* storm's, and is kept no further).
Escalate(verdict) ==
  /\ refusals' = IF verdict # "rate_limit" THEN 0
                 ELSE IF refusals < StormRefusals THEN refusals + 1 ELSE refusals
  /\ IF verdict = "daily_loss_limit" \/ refusals' >= StormRefusals
     THEN Engage({}) ELSE UNCHANGED <<halted, unproven>>

\* An approved order at the venue: taken, refused, or its answer lost.  A lost
\* one found among the venue's open orders is taken; otherwise trading halts
\* on a symbol nobody can prove.
Route(o) ==
  \/ /\ VenueTakes(o)
     /\ working' = [id \in DOMAIN working \cup {issued + 1} |->
                     IF id = issued + 1 THEN o ELSE working[id]]
     /\ sent' = Append(sent, clock) /\ issued' = issued + 1
     /\ UNCHANGED <<haltVars, events>>
  \/ /\ IF VenueTakes(o) THEN Event ELSE UNCHANGED events
     /\ UNCHANGED <<working, issued, sent, haltVars>>
  \/ /\ Event /\ Engage({o.symbol})
     /\ UNCHANGED <<working, issued, sent>>

\* _submit of one signal against everything in flight, or a flatten, which
\* passes nothing in flight and does not escalate.
Submit(o, orders, escalates) ==
  /\ issued < MaxOrders
  /\ LET verdict == Validate(o, orders) IN
     /\ recent' = RecentAfter(verdict)
     /\ \/ verdict = "approved" /\ Route(o) /\ UNCHANGED refusals
        \/ /\ verdict # "approved"
           /\ IF escalates THEN Escalate(verdict) ELSE UNCHANGED <<refusals, haltVars>>
           /\ UNCHANGED <<working, issued, sent, events>>
  /\ UNCHANGED <<book, anchorVars, worldVars>>

Closing(s) == [symbol |-> s, side |-> IF book.qty[s] > 0 THEN -1 ELSE 1,
               qty |-> Abs(book.qty[s]), limit |-> NoPrice]

\* A pass marks the book and anchors the day, where it can, before it decides.
PassHasAnchored == pending => UnmarkedSymbols(book) # {}

\* position_size: in units, rounded down; nothing where the size is undefined.
\* (Percentages stand for fractions.  volatility_target is refused: a signal
\* carries no volatility.)
PositionSize(method, equity, price, stop, value) ==
  CASE method = "fixed_qty" -> value
    [] method = "fixed_notional" -> value \div price
    [] method = "equity_pct" -> (equity * value) \div (100 * price)
    [] method = "risk_pct" /\ stop \notin {NoPrice, price} ->
         (equity * value) \div (100 * Abs(price - stop))
    [] OTHER -> 0

\* _size: against a price and the equity of the settled book.
Size(e) ==
  LET price == ReferencePrice(e.symbol, book, e.limit) IN
  IF price = NoPrice \/ Equity(book) <= 0 THEN 0
  ELSE PositionSize(e.method, Equity(book), price, e.stop, e.value)

\* submit_signal: an entry is sized, an exit takes what is held.
Enter(e) ==
  /\ PassHasAnchored /\ Size(e) > 0
  /\ Submit([symbol |-> e.symbol, side |-> e.side, qty |-> Size(e), limit |-> e.limit],
            working, TRUE)

Exit(s) == book.qty[s] # 0 /\ PassHasAnchored /\ Submit(Closing(s), working, TRUE)
FlattenPosition(s) == book.qty[s] # 0 /\ Submit(Closing(s), NoOrders, FALSE)

-----------------------------------------------------------------------------
(* The venue, the market and the operator (external). *)

\* One unit executes, at the market.
Fill(id) ==
  LET o == working[id] IN
  /\ book' = [book EXCEPT !.qty[o.symbol] = @ + o.side, !.mark[o.symbol] = market[o.symbol],
                          !.cash = @ - o.side * market[o.symbol]]
  /\ working' = IF o.qty = 1 THEN [i \in DOMAIN working \ {id} |-> working[i]]
                            ELSE [working EXCEPT ![id].qty = @ - 1]
  /\ UNCHANGED <<issued, haltVars, rateVars, anchorVars, worldVars, events>>

\* Cancelled, expired or refused after all.
Gone(id) ==
  /\ working' = [i \in DOMAIN working \ {id} |-> working[i]]
  /\ UNCHANGED <<book, issued, haltVars, rateVars, anchorVars, worldVars, events>>

Move(s, p) ==
  /\ p # market[s] /\ Event /\ market' = [market EXCEPT ![s] = p] /\ moved' = TRUE
  /\ UNCHANGED <<orderVars, haltVars, rateVars, anchorVars, fresh, clock, open>>

\* A quote arrives and marks the book.
Quote(s) ==
  /\ fresh' = fresh \cup {s}
  /\ book' = [book EXCEPT !.mark[s] = market[s]]
  /\ UNCHANGED <<working, issued, haltVars, rateVars, anchorVars, market, moved, clock, open, events>>

\* No quote for longer than max_quote_age.
GoesStale(s) ==
  /\ s \in fresh /\ Event /\ fresh' = fresh \ {s}
  /\ UNCHANGED <<orderVars, haltVars, rateVars, anchorVars, market, moved, clock, open>>

Tick ==
  /\ clock < MaxTicks /\ clock' = clock + 1
  /\ UNCHANGED <<orderVars, haltVars, rateVars, anchorVars, fresh, market, moved, open, events>>

Halt(symbols) ==
  /\ Event /\ Engage(symbols)
  /\ UNCHANGED <<orderVars, rateVars, anchorVars, worldVars>>

\* The operator has settled what the halt was about.
Clear ==
  /\ halted /\ halted' = FALSE /\ unproven' = {}
  /\ UNCHANGED <<orderVars, rateVars, anchorVars, worldVars, events>>

MarketCloses ==
  /\ open /\ Event /\ open' = FALSE
  /\ UNCHANGED <<orderVars, haltVars, rateVars, anchorVars, fresh, market, moved, clock>>

\* The next session: the runner warms up again in the same process.
MarketOpens ==
  /\ ~open /\ open' = TRUE /\ pending' = TRUE /\ stored' = {} /\ anchors' = {}
  /\ UNCHANGED <<orderVars, haltVars, rateVars, anchor, fresh, market, moved, clock, events>>

-----------------------------------------------------------------------------
(* The day's starting equity, and restarts (runner.py). *)

\* A fault: every anchor is a fresh one.
AnchorEquityFresh == {Equity(book)}
AnchorEquity == IF stored # {} THEN stored ELSE {Equity(book)}

\* anchor_session: the rules that measure the day from its start.
AnchorSession(equity) == anchor' = equity

\* _anchor_if_pending, once the whole book is marked.
AnchorIfPending ==
  /\ open /\ pending /\ UnmarkedSymbols(book) = {}
  /\ pending' = FALSE
  /\ \/ \E equity \in AnchorEquity :
          /\ AnchorSession(equity)
          /\ \/ stored' = {equity} /\ anchors' = anchors \cup {equity} /\ UNCHANGED events
             \/ /\ stored = {} /\ Event        \* the write fails
                /\ UNCHANGED <<stored, anchors>>
     \/ Event /\ UNCHANGED <<anchor, stored, anchors>>  \* it cannot be read
  /\ UNCHANGED <<orderVars, haltVars, rateVars, worldVars>>

\* The process dies and comes back: the book, its marks and its orders are
\* restored, what the rules remembered is not.
Restart ==
  /\ Event
  /\ recent' = <<>> /\ refusals' = 0 /\ sent' = <<>>
  /\ anchor' = None /\ pending' = TRUE
  /\ fresh' = {}
  /\ UNCHANGED <<orderVars, haltVars, stored, anchors, market, moved, clock, open>>

-----------------------------------------------------------------------------
Next ==
  \/ \E o \in Entries : Enter(o)
  \/ \E s \in Symbols : Exit(s) \/ FlattenPosition(s) \/ Quote(s) \/ GoesStale(s)
  \/ \E id \in DOMAIN working : Fill(id) \/ Gone(id)
  \/ \E s \in Symbols, p \in Prices : Move(s, p)
  \/ Halt({}) \/ \E s \in Symbols : Halt({s})
  \/ Tick \/ Clear \/ MarketCloses \/ MarketOpens \/ AnchorIfPending \/ Restart

Spec == Init /\ [][Next]_vars

-----------------------------------------------------------------------------
(* Properties. *)

\* Types: an order at the venue has something left, and evidence is of a halt.
Order == [symbol : Symbols, side : {1, -1}, qty : Nat \ {0}, limit : Nat]
TypeOK ==
  /\ book \in [qty : [Symbols -> Int], mark : [Symbols -> Prices \cup {NoPrice}], cash : Int]
  /\ issued \in Nat /\ DOMAIN working \subseteq 1..issued /\ working \in [DOMAIN working -> Order]
  /\ halted \in BOOLEAN /\ unproven \subseteq Symbols /\ (unproven # {} => halted)
  /\ recent \in Seq(Nat) /\ sent \in Seq(Nat) /\ refusals \in Nat
  /\ anchor \in Int /\ pending \in BOOLEAN /\ stored \subseteq Int /\ anchors \subseteq Int
  /\ fresh \subseteq Symbols /\ market \in [Symbols -> Prices] /\ moved \in BOOLEAN
  /\ clock \in Nat /\ open \in BOOLEAN

\* The positions a symbol can be left with, whichever working orders fill.
Outcomes(s) ==
  (book.qty[s] - InFlight(s, -1, working))..(book.qty[s] + InFlight(s, 1, working))
Worst(s) == Max({Abs(q) : q \in Outcomes(s)}) * book.mark[s]

\* The account at boot, at the first prices, is within its ceilings.
StartWorth == StartCash + SumFunction([s \in Symbols |-> StartQty[s] * StartPrice])
StartsWithinCeilings ==
  /\ \A s \in Symbols : 100 * (Abs(StartQty[s]) * StartPrice) <= MaxPositionPct * StartWorth
  /\ 100 * SumFunction([s \in Symbols |-> Abs(StartQty[s]) * StartPrice])
       <= MaxGrossExposurePct * StartWorth
LimitsAtTheMarket == \A e \in Entries : e.limit \in {NoPrice, StartPrice}

\* Of an account that starts within its ceilings: while no price has moved and
\* limits are at the market, whatever the orders in flight do, in any order,
\* partly or not at all, no position and no book exceeds its ceiling
\* (MaxPositionSizeRule and MaxExposureRule over _producible_quantities).
ReachableWithinCeilings ==
  StartsWithinCeilings /\ LimitsAtTheMarket /\ ~moved /\ UnmarkedSymbols(book) = {} =>
    /\ \A s \in Symbols : 100 * Worst(s) <= MaxPositionPct * Equity(book)
    /\ 100 * SumFunction([s \in Symbols |-> Worst(s)]) <= MaxGrossExposurePct * Equity(book)

\* No window of one minute holds more orders sent by this process than the
\* rate limit allows (RateLimitRule).
RateHeld ==
  \A t \in 0..clock :
    Cardinality({i \in DOMAIN sent : sent[i] \in (t - Minute + 1)..t}) <= MaxOrdersPerMinute

\* An order that closes into a holding is refused only by the market's hours,
\* the rate limit or stale data, or because a halt cannot prove the symbol
\* (EXIT_BLIND_RULES and KillSwitchRule): no limit on the size, the loss or the
\* value of the book, marked or not, traps a position.
ExitsAreNotTrapped ==
  \A s \in OpenPositions(book), orders \in {working, NoOrders} :
    LET verdict == Validate(Closing(s), orders) IN
    \/ verdict \in {"approved", "trading_hours", "rate_limit", "stale_data"}
    \/ verdict = "kill_switch" /\ s \in unproven

\* A restart does not renew the day's allowance: while the anchor store holds
\* today's equity, every anchor of today is that one (_anchor_if_pending).
AllowanceNotRenewed == Cardinality(anchors) <= 1

=============================================================================
