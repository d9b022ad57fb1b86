----------------------------- MODULE Protection -----------------------------
(***************************************************************************)
(* Keeping a stop over an open position: the router that places, releases  *)
(* and re-places protective stops (execution/router.py) and the runner     *)
(* that asks for them on every fill, remembers which are missing, retries  *)
(* them and watches the level itself where the venue does not (runner.py). *)
(*                                                                         *)
(* One symbol, bought only.  The runner's lock serialises the fill handler *)
(* and the evaluate pass; the venue acts between any two requests of one   *)
(* operation.  A working sell reserves the shares it covers: the venue     *)
(* refuses to sell what it does not hold free.  A restart loses what the   *)
(* process kept in memory and adopts the stops among the stored orders; it *)
(* is taken between passes, with every row written and nothing on its way  *)
(* (what a crash loses of the rows is OrderSync's subject).                *)
(*                                                                         *)
(* Data: prices are one fact, whether the market is through the stop.      *)
(* Closes are market orders.  `unprotected` is the symbol's presence in    *)
(* _unprotected; the quantity kept there is only logged.  Once a fill is   *)
(* dropped the book is wrong and the reconciler's to put right (OrderSync):*)
(* the runner's own decisions are not followed past that point.            *)
(***************************************************************************)
EXTENDS Integers, FiniteSets, Sequences, Functions

CONSTANTS Entries,    \* the entries the strategy may submit
          Qty,        \* the size of each, in units
          MaxUpsets,  \* bound on refusals, failed cancels, given-up waits and
                      \* cancels that are not ours
          MaxOverdue, \* bound on the closes tried while an update is on its way
          MaxRestarts \* bound on restarts

ASSUME QtyAssumption == Qty \in Nat \ {0}
ASSUME BoundsAssumption == {MaxUpsets, MaxOverdue, MaxRestarts} \subseteq Nat

NoEntry == "none"

\* client_order_id: an entry's or a close's decision; for a stop, the parent,
\* the range of it that the stop covers and how often that range was released.
EntryId(e) == [kind |-> "entry", entry |-> e]
CloseId(n) == [kind |-> "close", n |-> n]
StopId(parent, from, to, released) ==
  [kind |-> "stop", parent |-> parent, from |-> from, to |-> to, released |-> released]

VARIABLES
  venue,     \* the venue's orders: id -> quantity, filled and state
  events,    \* trade updates on their way to the runner
  ours,      \* our order objects: id -> quantity, filled and whether complete
  tracked,   \* the ids in the runner's _open_orders
  position,  \* Position.qty
  armed,     \* Position.stop_loss_price is set
  protective,\* the router's _protective: ids of stops it counts on
  covered,   \* covered[e]: the router's _covered
  cover,     \* the stops with an entry in the router's _cover
  unprotected, \* the symbol is in the runner's _unprotected
  asking,    \* its entry in _unprotected_entries, or NoEntry
  paged,     \* the symbol is in the runner's _alerted_unprotected
  closing,   \* which request of an operation is next; the lock is held
  missed,    \* a fill of ours was dropped: its order is not in _open_orders
  breached,  \* the market is through the stop level
  overdue,   \* closes tried since an update was handled
  upsets,
  restarts,
  forgotten, \* a restart lost the record of a gap in this position
  taken      \* somebody else has cancelled a sell of this position

bookVars == <<ours, position, armed, missed>>
routerVars == <<protective, covered, cover>>
runnerVars == <<tracked, unprotected, asking>>
lifeVars == <<paged, restarts, forgotten, taken>>
vars == <<venue, events, overdue, closing, breached, upsets, bookVars, routerVars,
          runnerVars, lifeVars>>

Idle == [at |-> "idle"]

Init ==
  /\ venue = <<>> /\ events = <<>> /\ ours = <<>>
  /\ tracked = {} /\ position = 0 /\ armed = FALSE
  /\ protective = {} /\ cover = {} /\ covered = [e \in Entries |-> 0]
  /\ unprotected = FALSE /\ asking = NoEntry
  /\ closing = Idle /\ missed = FALSE /\ breached = FALSE /\ overdue = 0 /\ upsets = 0
  /\ paged = FALSE /\ restarts = 0 /\ forgotten = FALSE /\ taken = FALSE

Upset == upsets < MaxUpsets /\ upsets' = upsets + 1

\* The function f with x mapped to y.
With(f, x, y) == [z \in DOMAIN f \cup {x} |-> IF z = x THEN y ELSE f[z]]

Smaller(a, b) == IF a < b THEN a ELSE b

-----------------------------------------------------------------------------
(* The venue (external). *)

Working(v, id) == v[id].state \in {"working", "pending_cancel"}
Left(v) == [id \in DOMAIN v |-> v[id].qty - v[id].filled]

Filled(v, kinds) == SumFunctionOnSet([id \in DOMAIN v |-> v[id].filled],
                                     {id \in DOMAIN v : id.kind \in kinds})
Resting(v, kinds) == SumFunctionOnSet(Left(v), {id \in DOMAIN v : id.kind \in kinds /\ Working(v, id)})

\* Shares in the account, and those no working sell has reserved.
Held(v) == Filled(v, {"entry"}) - Filled(v, {"stop", "close"})
Free(v) == Held(v) - Resting(v, {"stop", "close"})

\* One unit executes: an entry or a close at any time, a stop once triggered.
VenueFill(id) ==
  /\ Working(venue, id) /\ (id.kind = "stop" => breached)
  /\ LET n == venue[id].filled + 1 IN
     venue' = [venue EXCEPT ![id].filled = n,
                            ![id].state = IF n = venue[id].qty THEN "filled" ELSE @]
  /\ events' = Append(events, [id |-> id, what |-> "fill"])
  /\ UNCHANGED <<overdue, closing, breached, upsets, bookVars, routerVars, runnerVars, lifeVars>>

\* A cancel completes; an entry may also end by itself (it is a DAY order).
VenueCancelled(id) ==
  /\ \/ venue[id].state = "pending_cancel"
     \/ venue[id].state = "working" /\ id.kind = "entry"
  /\ venue' = [venue EXCEPT ![id].state = "cancelled"]
  /\ events' = Append(events, [id |-> id, what |-> "cancelled"])
  /\ UNCHANGED <<overdue, closing, breached, upsets, bookVars, routerVars, runnerVars, lifeVars>>

\* Somebody else asks for the cancel of a working stop or close: an operator
\* through the API (DELETE /orders/{id}, POST /orders/cancel-all), or the venue
\* by itself.  The runner is told only when it completes.
CancelledByOthers(id) ==
  /\ venue[id].state = "working" /\ id.kind # "entry" /\ Upset
  /\ venue' = [venue EXCEPT ![id].state = "pending_cancel"]
  /\ taken' = TRUE
  /\ UNCHANGED <<events, overdue, closing, breached, bookVars, routerVars, runnerVars,
                 paged, restarts, forgotten>>

\* The market goes through the level, or comes back.
Market ==
  /\ breached' = ~breached
  /\ UNCHANGED <<venue, events, overdue, closing, upsets, bookVars, routerVars, runnerVars, lifeVars>>

-----------------------------------------------------------------------------
(* The router's single path to the venue. *)

\* _route: a sell is accepted, refused for the shares our own orders hold, or
\* refused by the risk chain or the venue for another reason.  A key the venue has
\* had an order under is answered with that order, finished by then.
Outcome(how, id, qty) ==
  \/ how = "accepted" /\ id \notin DOMAIN venue /\ qty <= Free(venue) /\ UNCHANGED upsets
  \/ how = "held" /\ qty > Free(venue) /\ UNCHANGED upsets
  \/ how = "refused" /\ id \in DOMAIN venue /\ UNCHANGED upsets
  \/ how = "refused" /\ Upset

Outcomes == {"accepted", "held", "refused"}

\* An accepted order: at the venue, and acknowledged in our object.
Accept(id, qty, objects) ==
  /\ venue' = With(venue, id, [qty |-> qty, filled |-> 0, state |-> "working"])
  /\ ours' = With(objects, id, [qty |-> qty, filled |-> 0, complete |-> FALSE])

\* _protected_qty: what the router counts as covered.
ProtectedQty(objects) ==
  SumFunctionOnSet(Left(objects), {s \in protective : ~objects[s].complete})

\* The stops a cancel would reach: those the router knows to be working, and
\* stops resting at the venue that it does not know (_inherited_protection).
Cancellable ==
  {s \in protective : ~ours[s].complete} \cup
  {s \in DOMAIN venue : s.kind = "stop" /\ Working(venue, s) /\ s \notin protective}

\* Cancel requests: one is refused (an upset), or the order finished first.
CancelAtVenue(stops) ==
  venue' = [id \in DOMAIN venue |->
              IF id \in stops /\ venue[id].state = "working"
              THEN [venue[id] EXCEPT !.state = "pending_cancel"] ELSE venue[id]]

SomeFail(failed) == IF failed = {} THEN UNCHANGED upsets ELSE Upset

\* cancel_protection: a stop whose cancel failed is still counted on.
CancelProtection ==
  /\ closing.at = "cancel"
  /\ \E failed \in SUBSET Cancellable :
       /\ SomeFail(failed)
       /\ CancelAtVenue(Cancellable \ failed)
       /\ protective' = protective \cap failed
  /\ closing' = Idle
  /\ UNCHANGED <<events, overdue, breached, bookVars, covered, cover, runnerVars, lifeVars>>

-----------------------------------------------------------------------------
(* Asking for protection: runner._protect and router.submit_protective_orders. *)

\* The gap is recorded with the entry it belongs to, or the record is dropped.
Gap(e) == unprotected' = TRUE /\ asking' = e
NoGap == unprotected' = FALSE /\ asking' = NoEntry

\* A deferred, refused or wrong-sided stop places nothing.
NotPlaced(e, objects, working) ==
  /\ Gap(e) /\ ours' = objects /\ tracked' = working
  /\ UNCHANGED <<venue, routerVars>>

\* What of the entry the next stop is to cover.
Increment(e, objects, pos) ==
  Smaller(objects[EntryId(e)].filled - covered[e], pos - ProtectedQty(objects))

\* _stop_order: the entry's next stop, keyed by the range it covers.
StopOrder(e, upTo) == StopId(EntryId(e), covered[e], upTo, 0)

\* _protects: a stop on the wrong side of the mark would trigger at once.
Protects == ~breached

\* Nothing left to cover is "fully protected", and so is a placed stop.
Protect(e, objects, pos, working) ==
  LET more == Increment(e, objects, pos)
      upTo == covered[e] + more
      id == StopOrder(e, upTo)
  IN
  \/ /\ more <= 0
     /\ NoGap /\ ours' = objects /\ tracked' = working
     /\ UNCHANGED <<venue, armed, upsets, routerVars>>
  \/ /\ more > 0 /\ ~Protects
     /\ NotPlaced(e, objects, working) /\ UNCHANGED <<armed, upsets>>
  \/ /\ more > 0 /\ Protects /\ armed' = TRUE
     /\ \/ /\ ~objects[EntryId(e)].complete
           /\ NotPlaced(e, objects, working) /\ UNCHANGED upsets
        \/ /\ objects[EntryId(e)].complete
           /\ \E how \in Outcomes :
                /\ Outcome(how, id, more)
                /\ IF how = "accepted"
                   THEN /\ Accept(id, more, objects) /\ NoGap
                        /\ covered' = [covered EXCEPT ![e] = upTo]
                        /\ protective' = protective \cup {id} /\ cover' = cover \cup {id}
                        /\ tracked' = working \cup {id}
                   ELSE NotPlaced(e, objects, working)

\* _retry_protection, on every evaluate pass.
RetryProtection ==
  /\ closing = Idle /\ ~missed
  /\ asking # NoEntry /\ ours[EntryId(asking)].complete
  /\ Protect(asking, ours, position, tracked)
  /\ UNCHANGED <<events, overdue, closing, missed, breached, position, lifeVars>>

-----------------------------------------------------------------------------
(* on_fill_event: one trade update, under the lock. *)

Updated(ev) ==
  LET o == ours[ev.id]
      n == IF ev.what = "fill" THEN o.filled + 1 ELSE o.filled
  IN [ours EXCEPT ![ev.id] =
        [o EXCEPT !.filled = n, !.complete = (ev.what = "cancelled" \/ n = o.qty)]]

\* An order this runner does not know: the update is dropped.
DropUpdate ==
  /\ closing = Idle /\ events # <<>>
  /\ Head(events).id \notin tracked
  /\ events' = Tail(events) /\ overdue' = 0
  /\ missed' = (missed \/ Head(events).what = "fill")
  /\ UNCHANGED <<venue, closing, breached, upsets, ours, position, armed, routerVars, runnerVars, lifeVars>>

\* _protect only asks for a fill that opened or added to the position.
OpensOrAdds(id, objects, pos) == id.kind = "entry" /\ pos > 0 /\ objects[id].filled > 0

ApplyUpdate ==
  /\ closing = Idle /\ events # <<>>
  /\ Head(events).id \in tracked
  /\ events' = Tail(events) /\ overdue' = 0
  /\ LET ev == Head(events)
         objects == Updated(ev)
         pos == IF ev.what # "fill" THEN position
                ELSE IF ev.id.kind = "entry" THEN position + 1 ELSE position - 1
         working == IF objects[ev.id].complete THEN tracked \ {ev.id} ELSE tracked
     IN /\ position' = pos
        /\ IF OpensOrAdds(ev.id, objects, pos)
           THEN /\ Protect(ev.id.entry, objects, pos, working)
                /\ UNCHANGED <<closing, breached, forgotten, taken>>
           ELSE /\ ours' = objects /\ tracked' = working
                /\ IF pos = 0 /\ ev.what = "fill"
                   THEN NoGap /\ armed' = FALSE /\ breached' = FALSE
                        /\ closing' = [at |-> "cancel"] /\ forgotten' = FALSE /\ taken' = FALSE
                   ELSE UNCHANGED <<unprotected, asking, armed, breached, closing, forgotten, taken>>
                /\ UNCHANGED <<venue, upsets, routerVars>>
  /\ UNCHANGED <<missed, paged, restarts>>

-----------------------------------------------------------------------------
(* The evaluate pass: entries, exits and the stop the engine watches. *)

SubmitEntry(e) ==
  /\ closing = Idle /\ ~missed /\ EntryId(e) \notin DOMAIN ours
  /\ Accept(EntryId(e), Qty, ours)
  /\ tracked' = tracked \cup {EntryId(e)}
  /\ UNCHANGED <<events, overdue, closing, breached, upsets, position, armed, missed, routerVars, unprotected, asking, lifeVars>>

\* Fault: only a refused stop is recorded, not a failed close.
NoteGapNever(stops) == unprotected' = unprotected

\* _note_protection_gap, after a close that was not submitted.
NoteGap(stops) ==
  LET counted == SumFunctionOnSet(Left(ours), {s \in stops : ~ours[s].complete})
  IN unprotected' = (unprotected \/ counted < position)

\* An update that is on its way arrives within MaxOverdue passes.
OnTime ==
  /\ events # <<>> => overdue < MaxOverdue
  /\ overdue' = IF events = <<>> THEN 0 ELSE overdue + 1

\* The first attempt of _close.
AttemptClose ==
  /\ OnTime
  /\ \E how \in Outcomes :
       LET id == CloseId(Cardinality({x \in DOMAIN venue : x.kind = "close"})) IN
       /\ Outcome(how, id, position)
       /\ CASE how = "accepted" ->
                 /\ Accept(id, position, ours) /\ tracked' = tracked \cup {id}
                 /\ closing' = [at |-> "cancel"] /\ UNCHANGED unprotected
            [] how = "held" ->
                 /\ closing' = [at |-> "release"]
                 /\ UNCHANGED <<venue, ours, tracked, unprotected>>
            [] how = "refused" ->
                 /\ NoteGap(protective)
                 /\ UNCHANGED <<closing, venue, ours, tracked>>
       /\ UNCHANGED <<events, breached, position, armed, missed, routerVars, asking, lifeVars>>

\* A strategy's exit, or the target.
Exit == closing = Idle /\ ~missed /\ position > 0 /\ AttemptClose

\* _exit_reason: the engine honours the stop where the venue is known not to.
StopIsMissing == unprotected /\ ProtectedQty(ours) < position

\* Fault: only gaps that are being retried are watched.
EngineStopIfAsking ==
  /\ closing = Idle /\ ~missed /\ position > 0 /\ asking # NoEntry
  /\ armed /\ breached /\ StopIsMissing
  /\ AttemptClose

EngineStop ==
  /\ closing = Idle /\ ~missed /\ position > 0
  /\ armed /\ breached /\ StopIsMissing
  /\ AttemptClose

\* _release_protection: only the stops whose cancel was accepted are let go.
Release ==
  /\ closing.at = "release"
  /\ \E failed \in SUBSET Cancellable :
       LET released == Cancellable \ failed IN
       /\ SomeFail(failed)
       /\ CancelAtVenue(released)
       /\ protective' = protective \ released
       /\ IF released = {}
          THEN closing' = Idle /\ NoteGap(protective)
          ELSE closing' = [at |-> "await", known |-> released \cap protective,
                           inherited |-> released \ protective]
               /\ UNCHANGED unprotected
  /\ UNCHANGED <<events, overdue, breached, bookVars, covered, cover, tracked, asking, lifeVars>>

\* _await_cancelled: until each is finished or has a fill, or it cannot be read
\* or has been polled often enough (an upset).
Await ==
  /\ closing.at = "await"
  /\ LET released == closing.known \cup closing.inherited IN
     \E unread \in SUBSET released :
       /\ SomeFail(unread)
       /\ \A s \in released \ unread : ~Working(venue, s) \/ venue[s].filled > 0
       /\ IF \E s \in released \ unread : venue[s].filled > 0
          THEN closing' = Idle /\ NoteGap(protective)
          ELSE closing' = [closing EXCEPT !.at = "retry"] /\ UNCHANGED unprotected
  /\ UNCHANGED <<venue, events, overdue, breached, bookVars, routerVars, tracked, asking, lifeVars>>

\* The second attempt of _close; refused, the released stops are put back.
RetryClose ==
  /\ closing.at = "retry"
  /\ \E how \in Outcomes :
       LET id == CloseId(Cardinality({x \in DOMAIN venue : x.kind = "close"})) IN
       /\ Outcome(how, id, position)
       /\ IF how = "accepted"
          THEN /\ Accept(id, position, ours) /\ tracked' = tracked \cup {id}
               /\ closing' = Idle
          ELSE /\ closing' = [closing EXCEPT !.at = "rearm"]
               /\ UNCHANGED <<venue, ours, tracked>>
  /\ UNCHANGED <<events, overdue, breached, position, armed, missed, routerVars, unprotected, asking, lifeVars>>

\* The key of a replacement: the same cover, released once more; an order read
\* from the venue, or adopted, has none and becomes the parent of its own.
ReplacementId(s, qty) ==
  IF s \in closing.known \cap cover THEN StopId(s.parent, s.from, s.to, s.released + 1)
  ELSE StopId(s, 0, qty, 0)

\* _rearm, one released stop: the replacement joins _protective, and only that.
Rearm(s) ==
  /\ closing.at = "rearm" /\ s \in closing.known \cup closing.inherited
  /\ closing' = [closing EXCEPT !.known = @ \ {s}, !.inherited = @ \ {s}]
  /\ LET left == IF s \in closing.known THEN Left(ours)[s] ELSE Left(venue)[s]
         qty == Smaller(left, position - ProtectedQty(ours))
         id == ReplacementId(s, qty)
     IN IF qty <= 0 THEN UNCHANGED <<venue, ours, upsets, protective, cover>>
        ELSE \E how \in Outcomes :
               /\ Outcome(how, id, qty)
               /\ IF how = "accepted"
                  THEN /\ Accept(id, qty, ours)
                       /\ protective' = protective \cup {id} /\ cover' = cover \cup {id}
                  ELSE UNCHANGED <<venue, ours, protective, cover>>
  /\ UNCHANGED <<events, overdue, breached, position, armed, missed, covered, runnerVars, lifeVars>>

\* The close has failed, with or without its stops put back.
CloseFailed ==
  /\ closing.at = "rearm" /\ closing.known \cup closing.inherited = {}
  /\ closing' = Idle /\ NoteGap(protective)
  /\ UNCHANGED <<venue, events, overdue, breached, upsets, bookVars, routerVars, tracked, asking, lifeVars>>

-----------------------------------------------------------------------------
(* The end of a pass, and the end of a process. *)

\* Fault: the page is about the gaps this process recorded.
ShortAtVenueOfGaps == unprotected

\* _mark_broker_protection: what the router counts falls short of the position.
ShortAtVenue == position > ProtectedQty(ours)

\* _announce_unprotected: a newly short symbol pages at once, and an end to it
\* is sent too.  (The repeats of a page that stands are left out.)
Persist ==
  /\ closing = Idle
  /\ paged' = ShortAtVenue
  /\ UNCHANGED <<venue, events, overdue, closing, breached, upsets, bookVars, routerVars,
                 runnerVars, restarts, forgotten, taken>>

\* Fault: nothing is adopted.
AdoptProtectionNever(orders) == {}

\* adopt_protection: the stops among the orders warmup restored.
AdoptProtection(orders) == {s \in orders : s.kind = "stop" /\ ~ours[s].complete}

\* A new process: warmup restores the orders that were stored as open, which
\* are those the runner tracked, and its reconcile refuses to start over an
\* order at the venue that is not one of them.
Restart ==
  /\ restarts < MaxRestarts /\ closing = Idle /\ events = <<>> /\ ~missed
  /\ \A id \in DOMAIN venue : Working(venue, id) => id \in tracked
  /\ restarts' = restarts + 1
  /\ protective' = AdoptProtection(tracked)
  /\ cover' = {} /\ covered' = [e \in Entries |-> 0]
  /\ NoGap /\ forgotten' = (forgotten \/ unprotected)
  /\ paged' = FALSE
  /\ UNCHANGED <<venue, events, overdue, closing, breached, upsets, bookVars, tracked, taken>>

-----------------------------------------------------------------------------
VenueStep ==
  \E id \in DOMAIN venue : VenueFill(id) \/ VenueCancelled(id) \/ CancelledByOthers(id)

OnFillEvent == ApplyUpdate \/ DropUpdate

\* The operation that holds the lock goes on.
Continue ==
  \/ CancelProtection
  \/ Release \/ Await \/ RetryClose \/ CloseFailed
  \/ \E id \in DOMAIN venue : Rearm(id)

Next ==
  \/ VenueStep \/ Market \/ OnFillEvent \/ Continue
  \/ RetryProtection \/ EngineStop \/ Exit \/ Persist \/ Restart
  \/ \E e \in Entries : SubmitEntry(e)

\* The venue works what it accepted.  The fill handler and the evaluate pass
\* take turns at a lock that is granted in the order it was asked for, so
\* neither shuts the other out, and bars keep closing.  Entries, exits and the
\* market owe nothing.
VenueWorks ==
  \E id \in DOMAIN venue :
    \/ id.kind # "entry" /\ VenueFill(id)
    \/ VenueCancelled(id)

Fairness ==
  /\ WF_vars(VenueWorks) /\ WF_vars(Continue)
  /\ SF_vars(OnFillEvent) /\ SF_vars(EngineStop) /\ SF_vars(RetryProtection) /\ SF_vars(Persist)

Spec == Init /\ [][Next]_vars /\ Fairness
-----------------------------------------------------------------------------
(* Properties. *)

Ids == DOMAIN ours

\* Type correctness; a gap's entry is set and cleared beside the gap, and our
\* objects never run ahead of the venue.
TypeOK ==
  /\ DOMAIN venue = Ids
  /\ \A id \in Ids : /\ venue[id].filled \in 0 .. venue[id].qty
                     /\ ours[id].filled \in 0 .. venue[id].filled
  /\ tracked \subseteq Ids /\ protective \subseteq {s \in Ids : s.kind = "stop"}
  /\ position \in 0 .. Qty * Cardinality(Entries)
  /\ covered \in [Entries -> 0 .. Qty]
  /\ asking \in Entries \cup {NoEntry} /\ (asking # NoEntry => unprotected)
  /\ overdue \in 0 .. MaxOverdue /\ upsets \in 0 .. MaxUpsets /\ restarts \in 0 .. MaxRestarts
  /\ cover \subseteq {s \in Ids : s.kind = "stop"} /\ {paged, forgotten, taken} \subseteq BOOLEAN

\* With the runner at rest and every update handled, shares that no working
\* order of ours would sell are a gap the engine knows of, so that it watches
\* the level itself (_stop_is_missing).  A restart loses the record of the gaps
\* it found, and a cancel that was not ours is never put on record (_unprotected
\* names refusals): of these positions only the page tells, see NakedIsPaged.
NakedIsKnown ==
  LET selling == SumFunctionOnSet(Left(venue), {id \in Ids : id.kind # "entry" /\ venue[id].state = "working"})
  IN closing = Idle /\ events = <<>> /\ ~forgotten /\ ~taken /\ selling < Held(venue) => StopIsMissing

\* While the market stays through an armed stop the position is closed, by the
\* venue's stop or by the engine's, unless a restart lost the gap or somebody
\* else cancelled what was to sell it: then nothing of the code honours the level.
StopIsHonoured ==
  breached /\ armed ~> (Held(venue) = 0 \/ ~breached \/ missed \/ forgotten \/ taken)

Stops(states) ==
  SumFunctionOnSet(Left(venue), {s \in DOMAIN venue : s.kind = "stop" /\ venue[s].state \in states})

\* Shares held without a stop at the venue.
NakedAtVenue == Stops({"working", "pending_cancel"}) < Held(venue)

\* A stop that _rearm put back is not tracked: the update that somebody cancelled
\* it is dropped, and the router goes on counting it.
CountedInVain ==
  \E s \in protective : s \notin tracked /\ ~ours[s].complete /\ venue[s].state = "cancelled"

\* A position that stays without its stops at the venue is paged, also by a
\* process that never saw a stop refused, and also when somebody else cancelled
\* them (_announce_unprotected), but for one the router counts on in vain.
NakedIsPaged == NakedAtVenue ~> (paged \/ ~NakedAtVenue \/ missed \/ CountedInVain)

\* Nobody is paged about a position the venue protects in full, by stops nobody
\* asked it to cancel: the page's procedure is to place a stop by hand
\* (adopt_protection).
PagesAreTrue ==
  [][paged' /\ ~paged /\ events = <<>> /\ ~missed => Stops({"working"}) < Held(venue)]_vars
=============================================================================
