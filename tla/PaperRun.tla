------------------------------ MODULE PaperRun ------------------------------
(***************************************************************************)
(* A backtest and the paper run of the same signals over the same bars, in *)
(* lockstep: every order the engine queues is sent to the simulated broker *)
(* at the same moment, perhaps twice because the answer to the first was   *)
(* lost.  The simulated broker has no protective levels of its own: the    *)
(* comparison is made for runs without a stop configuration, until a level *)
(* that a signal brought closes a position.                                *)
(***************************************************************************)
EXTENDS SimulatedBroker

paperVars == <<stop_type, now, bar, book, pending, sent, venue>>

PaperInit == EngineInit /\ venue = EmptyVenue

Compared == stop_type = "none"

\* What a step queued is sent, once or twice.
SendQueued ==
  IF Len(book'.orders) = Len(book.orders) \/ ~Compared THEN UNCHANGED venue
  ELSE LET key == Len(book'.orders)
           once == SubmitOrder(venue, key, book'.orders[key], now)
       IN venue' \in {once, SubmitOrder(once, key, book'.orders[key], now)}

PaperBar(b) ==
  /\ TakeBar(b)
  /\ venue' = IF Compared THEN VenueBar(venue, b, now + 1) ELSE venue

PaperSignal == Signal /\ SendQueued

PaperSpec == PaperInit /\ [][(\E b \in Bars : PaperBar(b)) \/ PaperSignal]_paperVars

-----------------------------------------------------------------------------
(* Properties. *)

\* The paper run fills what the backtest fills, at the same bar, quantity, price
\* and fee, and is left with the same cash and position (one fill rule, two
\* callers: _fill_pending_for and on_bar, each with its own rest, cap and
\* expiry), on bars that traded and while no protective level was hit.
SameFills ==
  Compared /\ (\A i \in DOMAIN book.orders : book.orders[i].purpose \in {"entry", "exit"}) =>
    /\ \A i \in DOMAIN book.orders :
         VenueFills(venue, i) = IF book.orders[i].fill = NoFill THEN {} ELSE {book.orders[i].fill}
    /\ venue.cash = book.cash /\ venue.pos.qty = book.pos.qty

=============================================================================
