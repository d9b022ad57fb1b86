----------------------------- MODULE OrderSync ------------------------------
(***************************************************************************)
(* How the worker keeps its orders and its book in step with the venue:    *)
(* the trade-updates stream (brokers/alpaca.py, trading.py), its gaps and  *)
(* the REST catch-up that follows one (execution/recovery.py), the fill    *)
(* handler and what it persists (runner.py on_fill_event, _save_book), the *)
(* warmup that runs at boot and at every session open, reconciliation, and *)
(* crashes between any two of these steps.                                 *)
(*                                                                         *)
(* Tasks of one process interleave at every await.  The runner's lock is   *)
(* held by a fill handler until its writes are done; reading the venue     *)
(* over REST, loading stored orders and reconciling happen outside it.     *)
(*                                                                         *)
(* Data: executions are of one unit; every order is in a symbol of its     *)
(* own, so book[o] is at once the position and the cash that order moved.  *)
(* One reading of the two books by the reconciler is one step.             *)
(***************************************************************************)
EXTENDS OrderState

CONSTANTS Orders,     \* the orders the strategy may submit
          Qty,        \* the size of each, in units
          MaxUpsets   \* bound on crashes, gaps, re-sends, failed I/O, sessions

ASSUME QtyAssumption == Qty \in Nat \ {0}
ASSUME MaxUpsetsAssumption == MaxUpsets \in Nat

Catchers == {"consumer", "warmup"}     \* the two callers of catch_up_on_orders

None == [status |-> "none"]
Marker == [kind |-> "reconnected"]     \* TradeUpdatesReconnected
FillMsg(o, id, n) == [kind |-> "fill", order |-> o, id |-> id, qty |-> n]
StatusMsg(o, s) == [kind |-> "status", order |-> o, status |-> s]

VARIABLES
  venue,      \* venue[o]: the order as the venue has it
  stream,     \* events sent on the present connection, not yet handled
  link,       \* "never" connected since boot, "up" or "down"
  mem,        \* mem[o]: the runner's _open_orders entry, or None
  book,       \* book[o]: units of o folded into the portfolio
  disk,       \* disk[o]: the stored row of o, or None
  diskBook,   \* the stored snapshot of the book
  lock,       \* who holds the runner's lock, and the write it is at
  catch,      \* catch[c]: the catch-up c is running
  warm,       \* where the runner's warmup is
  loaded,     \* rows warmup has read and not yet installed
  cron,       \* where the five-minute reconcile is
  up,         \* the worker process is alive
  halted,     \* a global halt stands
  upsets,     \* upsets so far
  overlapped  \* so far, a reading took in what was on its way: see Overlap

taskVars == <<mem, book, lock, catch, warm, loaded, cron>>
procVars == <<taskVars, stream, link, up>>
sysVars == <<venue, disk, diskBook, halted, upsets, procVars>>
vars == <<sysVars, overlapped>>

NoOrders == [o \in Orders |-> None]
Free == [stage |-> "free", by |-> "nobody"]
Idle == [on |-> FALSE, left |-> {}, todo |-> <<>>, old |-> NoOrders, dirty |-> FALSE]

\* A fill's id: the venue's execution id, or one made from a running total.
FillId == {"exec", "rest"} \X (1..Qty)
Order == [status : OrderStatus, fills : Seq([id : FillId, qty : 1..Qty])]

VenueState == {"none", "working", "pending_cancel", "filled", "cancelled"}
Open(v) == v.state \in {"working", "pending_cancel"}

Known == {o \in Orders : mem[o] # None}

\* Fault: the positions are not compared.
DivergedOrdersOnly == \E o \in Orders : Open(venue[o]) /\ mem[o] = None

\* What one reading of the reconciler reports: a quantity that differs, or an
\* order working at the venue that is not in _open_orders.
Diverged == \E o \in Orders : \/ book[o] # venue[o].filled
                              \/ Open(venue[o]) /\ mem[o] = None

Upset == upsets < MaxUpsets /\ upsets' = upsets + 1

\* A worker boots with a stored book that the venue agrees with.
Init ==
  /\ venue = [o \in Orders |-> [state |-> "none", filled |-> 0]]
  /\ stream = <<>> /\ link = "never"
  /\ mem = NoOrders /\ disk = NoOrders /\ loaded = NoOrders
  /\ book = [o \in Orders |-> 0] /\ diskBook = book
  /\ lock = Free
  /\ catch = [c \in Catchers |-> Idle]
  /\ warm = "load" /\ cron = "idle"
  /\ up = TRUE /\ halted = FALSE /\ upsets = 0 /\ overlapped = FALSE

-----------------------------------------------------------------------------
(* The venue (external) and the connection to it. *)

\* Events reach the stream only while it is connected; a gap is not replayed.
Emit(m) == stream' = IF link = "up" THEN Append(stream, m) ELSE stream

\* One unit executes.
VenueFill(o) ==
  /\ Open(venue[o])
  /\ LET n == venue[o].filled + 1 IN
     /\ venue' = [venue EXCEPT ![o].filled = n,
                               ![o].state = IF n = Qty THEN "filled" ELSE @]
     /\ Emit(FillMsg(o, <<"exec", n>>, 1))
  /\ UNCHANGED <<link, disk, diskBook, up, halted, upsets, taskVars>>

\* Somebody cancels o at the venue: first pending, then done.  The adapter
\* reads "pending_cancel" as SUBMITTED: still live until it is not.
VenueCancelling(o) ==
  /\ venue[o].state = "working"
  /\ venue' = [venue EXCEPT ![o].state = "pending_cancel"]
  /\ Emit(StatusMsg(o, "SUBMITTED"))
  /\ UNCHANGED <<link, disk, diskBook, up, halted, upsets, taskVars>>

VenueCancelled(o) ==
  /\ venue[o].state = "pending_cancel"
  /\ venue' = [venue EXCEPT ![o].state = "cancelled"]
  /\ Emit(StatusMsg(o, "CANCELLED"))
  /\ UNCHANGED <<link, disk, diskBook, up, halted, upsets, taskVars>>

\* The stream re-sends the last event it sent.
Redeliver ==
  /\ link = "up" /\ stream # <<>> /\ stream[Len(stream)] # Marker /\ Upset
  /\ stream' = Append(stream, stream[Len(stream)])
  /\ UNCHANGED <<venue, link, disk, diskBook, up, halted, taskVars>>

\* The socket closes; what was received and not yet handled may still be read.
Drop ==
  /\ link = "up" /\ Upset
  /\ link' = "down"
  /\ stream' \in {<<>>, stream}
  /\ UNCHANGED <<venue, disk, diskBook, up, halted, taskVars>>

ConsumerBusy == catch["consumer"].on \/ lock.by \in {"consumer", "stream"}

\* stream_trade_updates connects.  A first connection that came up at once
\* carries no marker; every other one starts with it.
Connect ==
  /\ up /\ link # "up" /\ stream = <<>> /\ ~ConsumerBusy
  /\ link' = "up"
  /\ stream' \in (IF link = "never" THEN {<<>>, <<Marker>>} ELSE {<<Marker>>})
  /\ UNCHANGED <<venue, disk, diskBook, up, halted, upsets, taskVars>>

-----------------------------------------------------------------------------
(* The fill handler, and what it writes. *)

\* What a process loses when it ends.
Gone ==
  /\ up' = FALSE
  /\ mem' = NoOrders /\ loaded' = NoOrders
  /\ lock' = Free
  /\ catch' = [c \in Catchers |-> Idle]
  /\ warm' = "load" /\ cron' = "idle" /\ link' = "never" /\ stream' = <<>>
  /\ UNCHANGED book

\* supervise: a responsibility ended, so trading halts and the process exits.
Die == Gone /\ halted' = TRUE /\ UNCHANGED <<venue, disk, diskBook>>

\* on_fill_event books an update under the lock: the order first, then the
\* portfolio, and the writes that are left.  An update of an order that is not
\* in _open_orders is dropped.
OnFillEvent(u, by) ==
  LET o == u.order
      r == ApplyTradeUpdate(mem[o], u, Qty)
      n == Filled(r.order) - Filled(mem[o])
  IN IF mem[o] = None \/ ~r.changed
     THEN UNCHANGED <<mem, book, lock>>
     ELSE /\ mem' = [mem EXCEPT ![o] = r.order]
          /\ book' = [book EXCEPT ![o] = @ + n]
          /\ lock' = IF IsTerminal(r.order.status)
                     THEN [stage |-> "done", by |-> by, order |-> o,
                           obj |-> r.order, booked |-> n > 0]
                     ELSE IF n > 0 THEN [stage |-> "orders", by |-> by]
                     ELSE Free

Raises(u) == mem[u.order] # None /\ ApplyTradeUpdate(mem[u.order], u, Qty).raised

\* consume_trade_updates takes one event.  A refused one ends the consumer.
Deliver ==
  /\ up /\ stream # <<>> /\ Head(stream) # Marker
  /\ ~ConsumerBusy /\ lock = Free
  /\ IF Raises(Head(stream))
     THEN Die
     ELSE /\ OnFillEvent(Head(stream), "stream")
          /\ stream' = Tail(stream)
          /\ UNCHANGED <<venue, link, disk, diskBook, catch, warm, loaded,
                         cron, up, halted>>
  /\ UNCHANGED upsets

RowFills(o) == IF disk[o] = None THEN <<>> ELSE disk[o].fills

\* A catch-up goes on asking about the order objects it started with: the ones
\* that left _open_orders since are kept as they were.
Detach(gone) ==
  [c \in Catchers |->
     [catch[c] EXCEPT !.old = [o \in Orders |->
        IF o \in gone \cap catch[c].left /\ @[o] = None THEN mem[o] ELSE @[o]]]]

\* A completed order is saved and leaves _open_orders.
SaveDone ==
  /\ up /\ lock.stage = "done"
  /\ disk' = [disk EXCEPT ![lock.order] = Stored(RowFills(lock.order), lock.obj)]
  /\ mem' = [mem EXCEPT ![lock.order] = None]
  /\ catch' = Detach({lock.order})
  /\ lock' = IF lock.booked THEN [stage |-> "orders", by |-> lock.by] ELSE Free
  /\ UNCHANGED <<venue, stream, link, diskBook, up, halted, upsets, book,
                 warm, loaded, cron>>

\* Fault: the snapshot is written before the orders.
SaveBookFirst ==
  /\ up /\ lock.stage = "orders"
  /\ diskBook' = book
  /\ lock' = [lock EXCEPT !.stage = "book"]
  /\ UNCHANGED <<venue, stream, link, disk, up, halted, upsets, mem, book,
                 catch, warm, loaded, cron>>

\* _save_book: every order in _open_orders, then the snapshot of the book.
SaveOrders ==
  /\ up /\ lock.stage = "orders"
  /\ disk' = [o \in Orders |-> IF o \in Known THEN Stored(RowFills(o), mem[o])
                               ELSE disk[o]]
  /\ lock' = [lock EXCEPT !.stage = "book"]
  /\ UNCHANGED <<venue, stream, link, diskBook, up, halted, upsets, mem, book,
                 catch, warm, loaded, cron>>

SaveBook ==
  /\ up /\ lock.stage = "book"
  /\ diskBook' = book
  /\ lock' = Free
  /\ UNCHANGED <<venue, stream, link, disk, up, halted, upsets, mem, book,
                 catch, warm, loaded, cron>>

\* A write fails.  Failing to save the book is logged and left; failing to
\* save a completed order ends the consumer, or quarantines a warmup.
SaveFails ==
  /\ up /\ lock # Free /\ Upset
  /\ IF lock.stage = "done" /\ lock.by # "warmup"
     THEN Die
     ELSE /\ lock' = Free
          /\ IF lock.stage = "done"
             THEN /\ warm' = "quarantined" /\ halted' = TRUE
                  /\ catch' = [catch EXCEPT !["warmup"] = Idle]
             ELSE UNCHANGED <<warm, halted, catch>>
          /\ UNCHANGED <<venue, stream, link, disk, diskBook, up, mem, book,
                         loaded, cron>>

-----------------------------------------------------------------------------
(* Catching up over REST: catch_up_on_orders, read_missed_updates. *)

\* The adapter's reading of the venue's order.  A status that is not about
\* fills is taken as given, whatever has filled.
TheirStatus(v) ==
  CASE v.state = "working" -> IF v.filled = 0 THEN "SUBMITTED"
                              ELSE "PARTIALLY_FILLED"
    [] v.state = "pending_cancel" -> "SUBMITTED"
    [] v.state = "filled" -> "FILLED"
    [] OTHER -> "CANCELLED"

\* missed_updates: one fill for all that is missing, under an id made of the
\* venue's running total; then the status, unless fills own it.  A venue that
\* reports less than we booked is left to reconciliation.
MissedUpdates(o, ours, v) ==
  LET missing == v.filled - Filled(ours)
      status == TheirStatus(v)
      fill == IF missing = 0 THEN <<>>
              ELSE <<FillMsg(o, <<"rest", v.filled>>, missing)>>
      move == IF status \in {"FILLED", "PARTIALLY_FILLED"} \/ status = ours.status
              THEN <<>> ELSE <<StatusMsg(o, status)>>
  IN IF v.filled < Filled(ours) THEN <<>> ELSE fill \o move

\* The consumer meets the marker of a new connection.
MarkerSeen ==
  /\ up /\ stream # <<>> /\ Head(stream) = Marker /\ ~ConsumerBusy
  /\ catch' = [catch EXCEPT !["consumer"] = [Idle EXCEPT !.on = TRUE, !.left = Known]]
  /\ stream' = Tail(stream)
  /\ UNCHANGED <<venue, link, disk, diskBook, up, halted, upsets,
                 mem, book, lock, warm, loaded, cron>>

\* The order object that c asks about.
Ours(c, o) == IF catch[c].old[o] # None THEN catch[c].old[o] ELSE mem[o]

\* One order is read; an unreadable one is skipped.
ReadOrder(c, o) ==
  /\ up /\ o \in catch[c].left
  /\ \/ /\ catch' = [catch EXCEPT ![c].left = @ \ {o},
                       ![c].todo = @ \o MissedUpdates(o, Ours(c, o), venue[o])]
        /\ UNCHANGED upsets
     \/ /\ Upset
        /\ catch' = [catch EXCEPT ![c].left = @ \ {o}]
  /\ UNCHANGED <<venue, stream, link, disk, diskBook, up, halted, mem, book,
                 lock, warm, loaded, cron>>

\* What was read is applied through the ordinary fill handler, one by one; a
\* refused update is left for reconciliation.
ApplyMissed(c) ==
  /\ up /\ catch[c].left = {} /\ catch[c].todo # <<>> /\ lock = Free
  /\ LET u == Head(catch[c].todo) IN
     IF Raises(u) THEN UNCHANGED <<mem, book, lock>> ELSE OnFillEvent(u, c)
  /\ catch' = [catch EXCEPT ![c].todo = Tail(@)]
  /\ UNCHANGED <<venue, stream, link, disk, diskBook, up, halted, upsets,
                 warm, loaded, cron>>

\* c has applied what it read, and its last write is done.
CaughtUp(c) == /\ up /\ catch[c].on /\ catch[c].left = {} /\ catch[c].todo = <<>>
               /\ lock.by # c

\* A catch-up ends in a reconcile: a difference is read once more, and then
\* halts.
ReadAgain(c) ==
  /\ CaughtUp(c) /\ Diverged /\ ~catch[c].dirty
  /\ catch' = [catch EXCEPT ![c].dirty = TRUE]
  /\ UNCHANGED <<venue, stream, link, disk, diskBook, up, halted, upsets, mem,
                 book, lock, warm, loaded, cron>>

ReconnectReconciled ==
  /\ CaughtUp("consumer") /\ (Diverged => catch["consumer"].dirty)
  /\ catch' = [catch EXCEPT !["consumer"] = Idle]
  /\ halted' = (halted \/ Diverged)
  /\ UNCHANGED <<venue, stream, link, disk, diskBook, up, upsets, mem, book,
                 lock, warm, loaded, cron>>

-----------------------------------------------------------------------------
(* The runner: warmup, submitting; the five-minute reconcile. *)

\* warmup reads the stored open orders; the lock is not held.
WarmupLoad ==
  /\ up /\ warm = "load"
  /\ loaded' = [o \in Orders |-> IF disk[o] = None \/ IsTerminal(disk[o].status)
                                 THEN None ELSE Loaded(disk[o], Qty)]
  /\ warm' = "install"
  /\ UNCHANGED <<venue, stream, link, disk, diskBook, up, halted, upsets, mem,
                 book, lock, catch, cron>>

\* It installs what it read over whatever _open_orders holds, and catches up.
WarmupInstall ==
  /\ up /\ warm = "install"
  /\ mem' = [o \in Orders |-> IF loaded[o] # None THEN loaded[o] ELSE mem[o]]
  /\ loaded' = NoOrders
  /\ catch' = [Detach({o \in Known : loaded[o] # None}) EXCEPT !["warmup"] =
                 [Idle EXCEPT !.on = TRUE, !.left = {o \in Orders : mem'[o] # None}]]
  /\ warm' = "catchup"
  /\ UNCHANGED <<venue, stream, link, disk, diskBook, up, halted, upsets, book,
                 lock, cron>>

\* It ends clean and ready, or halted and quarantined.
WarmupReconciled ==
  /\ CaughtUp("warmup") /\ (Diverged => catch["warmup"].dirty)
  /\ catch' = [catch EXCEPT !["warmup"] = Idle]
  /\ warm' = IF Diverged THEN "quarantined" ELSE "ready"
  /\ halted' = (halted \/ Diverged)
  /\ UNCHANGED <<venue, stream, link, disk, diskBook, up, upsets, mem, book,
                 lock, loaded, cron>>

\* A new session: warmup runs again in a process that never stopped.
NewSession ==
  /\ up /\ warm = "ready" /\ lock.by # "evaluate" /\ Upset
  /\ warm' = "load"
  /\ UNCHANGED <<venue, stream, link, disk, diskBook, up, halted, mem, book,
                 lock, catch, loaded, cron>>

\* evaluate: the router submits o, the runner tracks it, and the pass writes
\* the book before it releases the lock.
Submit(o) ==
  /\ up /\ warm = "ready" /\ ~halted /\ lock = Free
  /\ venue[o].state = "none"
  /\ venue' = [venue EXCEPT ![o].state = "working"]
  /\ Emit(StatusMsg(o, "SUBMITTED"))
  /\ mem' = [mem EXCEPT ![o] = [status |-> "SUBMITTED", fills |-> <<>>]]
  /\ lock' = [stage |-> "orders", by |-> "evaluate"]
  /\ UNCHANGED <<link, disk, diskBook, up, halted, upsets, book, catch, warm,
                 loaded, cron>>

\* There is something for the job to find or to write.
CronMatters == \/ Diverged /\ ~halted
               \/ ~Diverged /\ \/ diskBook # book
                               \/ \E o \in Known : disk[o] # Stored(RowFills(o), mem[o])

\* Fault: the second reading forgives.
CronReadForgives ==
  /\ up /\ cron \in {"idle", "reread"} /\ (cron = "idle" => CronMatters)
  /\ cron' = IF ~Diverged THEN "clean" ELSE IF cron = "idle" THEN "reread" ELSE "idle"
  /\ UNCHANGED <<venue, stream, link, disk, diskBook, up, halted, upsets, mem,
                 book, lock, catch, warm, loaded>>

\* reconcile_with_broker: a difference is read once more, and then halts;
\* agreement is written down.
CronRead ==
  /\ up /\ cron \in {"idle", "reread"} /\ (cron = "idle" => CronMatters)
  /\ \/ /\ ~Diverged /\ cron' = "clean" /\ UNCHANGED halted
     \/ /\ Diverged /\ cron = "idle" /\ cron' = "reread" /\ UNCHANGED halted
     \/ /\ Diverged /\ cron = "reread" /\ cron' = "idle" /\ halted' = TRUE
  /\ UNCHANGED <<venue, stream, link, disk, diskBook, up, upsets, mem, book,
                 lock, catch, warm, loaded>>

CronWrite ==
  /\ up /\ cron = "clean" /\ lock = Free
  /\ cron' = "idle"
  /\ lock' = [stage |-> "orders", by |-> "cron"]
  /\ UNCHANGED <<venue, stream, link, disk, diskBook, up, halted, upsets, mem,
                 book, catch, warm, loaded>>

\* The reconciler cannot read the venue: it halts and raises, which ends the
\* consumer or the runner, and so the process.
BrokerUnreachable ==
  /\ \E c \in Catchers : CaughtUp(c)
  /\ Upset /\ Die

\* The five-minute job cannot either: it halts, and the scheduler goes on.
CronUnreachable ==
  /\ up /\ cron \in {"idle", "reread"} /\ Upset
  /\ cron' = "idle" /\ halted' = TRUE
  /\ UNCHANGED <<venue, stream, link, disk, diskBook, up, mem, book, lock,
                 catch, warm, loaded>>

\* The process ends by itself or is killed; nothing halts.
Crash ==
  /\ up /\ Upset /\ Gone
  /\ UNCHANGED <<venue, disk, diskBook, halted>>

\* It is restarted with the stored book (restore_or_adopt).
Restart ==
  /\ ~up
  /\ up' = TRUE
  /\ book' = diskBook
  /\ UNCHANGED <<venue, stream, link, disk, diskBook, halted, upsets, mem,
                 lock, catch, warm, loaded, cron>>

-----------------------------------------------------------------------------
Warmup == WarmupLoad \/ WarmupInstall \/ WarmupReconciled
CatchUp(c) == (\E o \in Orders : ReadOrder(c, o)) \/ ApplyMissed(c) \/ ReadAgain(c)
Consume == Deliver \/ MarkerSeen \/ ReconnectReconciled
Save == SaveDone \/ SaveOrders \/ SaveBook
Cron == CronRead \/ CronWrite

Step ==
  \/ \E o \in Orders : \/ VenueFill(o) \/ VenueCancelling(o)
                       \/ VenueCancelled(o) \/ Submit(o)
  \/ \E c \in Catchers : CatchUp(c)
  \/ Consume \/ Warmup \/ Save \/ Cron
  \/ SaveFails \/ BrokerUnreachable \/ CronUnreachable
  \/ Redeliver \/ Drop \/ Connect \/ NewSession \/ Crash \/ Restart

-----------------------------------------------------------------------------
(* Where one order is read twice at once.  Nothing in the code prevents it. *)

\* What the process has of o: its order, or else the row of it.
Record(o) == IF mem[o] # None THEN mem[o] ELSE disk[o]

FillOf(m, o) == m.kind = "fill" /\ m.order = o

\* c reads units of o that its order object lacks and that are booked, or
\* about to be booked, from elsewhere: over the stream or by a catch-up.
ReadsOver(c, o) ==
  /\ ReadOrder(c, o) /\ catch'[c].todo # catch[c].todo
  /\ venue[o].filled > Filled(Ours(c, o))
  /\ \/ Record(o) = None \/ Record(o).fills # Ours(c, o).fills
     \/ \E i \in DOMAIN stream : /\ FillOf(stream[i], o)
                                 /\ ~AlreadySeen(Ours(c, o), stream[i].id)
     \/ \E d \in Catchers : \E i \in DOMAIN catch[d].todo : FillOf(catch[d].todo[i], o)

\* Warmup installs a row over an order that has other fills by now.
InstallsOver ==
  WarmupInstall /\ \E o \in Orders : loaded[o] # None /\ loaded[o].fills # Record(o).fills

Overlap == InstallsOver \/ \E c \in Catchers, o \in Orders : ReadsOver(c, o)

Next == Step /\ overlapped' = (overlapped \/ Overlap)

\* Every task of the worker keeps running, the stream reconnects, the cron job
\* keeps firing and the container is restarted; the venue owes nothing.
Fairness ==
  /\ WF_sysVars(Consume) /\ WF_sysVars(Warmup) /\ WF_sysVars(Save) /\ WF_sysVars(Cron)
  /\ \A c \in Catchers : WF_sysVars(CatchUp(c))
  /\ WF_sysVars(Connect) /\ WF_sysVars(Restart)

Spec == Init /\ [][Next]_vars /\ Fairness

-----------------------------------------------------------------------------
(* Properties. *)

\* Type correctness: statuses, fills, messages and the stages of every task.
Message == [kind : {"fill"}, order : Orders, id : FillId, qty : 1..Qty]
           \cup [kind : {"status"}, order : Orders, status : OrderStatus]
Tasks == Catchers \cup {"stream", "evaluate", "cron"}
Venues == [state : VenueState, filled : 0..Qty]
Locks == {Free} \cup [stage : {"orders", "book"}, by : Tasks]
         \cup [stage : {"done"}, by : Tasks, order : Orders, obj : Order, booked : BOOLEAN]
Catch == [on : BOOLEAN, left : SUBSET Orders, todo : Seq(Message),
          old : [Orders -> Order \cup {None}], dirty : BOOLEAN]
SysTypeOK ==
  /\ venue \in [Orders -> Venues]
  /\ stream \in Seq(Message \cup {Marker}) /\ link \in {"never", "up", "down"}
  /\ mem \in [Orders -> Order \cup {None}]
  /\ disk \in [Orders -> Order \cup {None}]
  /\ loaded \in [Orders -> Order \cup {None}]
  /\ book \in [Orders -> Nat] /\ diskBook \in [Orders -> Nat]
  /\ lock \in Locks /\ catch \in [Catchers -> Catch]
  /\ warm \in {"load", "install", "catchup", "ready", "quarantined"}
  /\ cron \in {"idle", "reread", "clean"}
  /\ up \in BOOLEAN /\ halted \in BOOLEAN /\ upsets \in 0..MaxUpsets
TypeOK == SysTypeOK /\ overlapped \in BOOLEAN

\* The book holds no more of an order than the venue has executed: an execution
\* that reaches us twice (re-sent, or once over the stream and once over REST,
\* before and after a crash) is booked once, unless two readings overlapped.
NoDoubleBooking == overlapped \/ \A o \in Orders : book[o] <= venue[o].filled

\* The stored book is never ahead of the stored orders (_save_book's order of
\* writes).  Were it ahead, the next boot would recover from the venue fills
\* that the restored book already holds.
BookNotAheadOfRows ==
  overlapped \/
  \A o \in Orders :
    diskBook[o] <= IF disk[o] = None THEN 0 ELSE Filled(disk[o])

\* A runner that is trading (warmup done, nothing halted) sizes orders against
\* a book that agrees with the fills of its own working orders.
TradesOnAConsistentBook ==
  warm = "ready" /\ ~halted /\ ~overlapped => \A o \in Known : book[o] = Filled(mem[o])

Settled(o) == /\ book[o] = venue[o].filled
              /\ Open(venue[o]) => mem[o] # None

\* A book that disagrees with the venue about an order is set right or stops
\* trading, whatever was lost, re-sent or interrupted.
DivergenceEndsOrHalts ==
  \A o \in Orders : ~Settled(o) ~> (Settled(o) \/ halted)

=============================================================================
