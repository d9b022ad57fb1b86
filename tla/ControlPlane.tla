---------------------------- MODULE ControlPlane ----------------------------
(***************************************************************************)
(* The operators' side of the platform: sign-in and step-up (auth.py,      *)
(* stepup.py), the worker's configuration row and the screen that compares *)
(* it with what runs (routers/worker.py, worker_config.py,                 *)
(* worker_status.py), halt, resume, cancel and flatten (routers/risk.py,   *)
(* routers/orders.py, scripts/halt.py), and the worker's start and         *)
(* supervision (main.py, trading.py).                                      *)
(*                                                                         *)
(* Requests are handlers of an event loop: the read of the row and its     *)
(* save are two steps, and other requests run in between.  A configuration *)
(* is what the properties tell apart: whether live orders are allowed, and *)
(* whether a worker with it places none, trades, or refuses to start.  The *)
(* orders are of one unit of one symbol, and the worker has at most one of *)
(* a kind.  The audit trail is a log and is left out.                      *)
(*                                                                         *)
(* Three books say what is held: the venue's, the worker's (its own orders *)
(* and their fills, caught up as OrderSync has it), and the stored one the *)
(* dashboard reads.  What operators close is in the first only.            *)
(***************************************************************************)
EXTENDS Integers, FiniteSets

CONSTANTS Operators,
          Configs,    \* the configurations an operator may save
          Live,       \* Settings.is_live: the two locks that are not in the row
          MaxRev      \* bound on saves

\* What a configuration may be: the rest of its fields is checked when it is
\* built, by the request and by the load alike.
WorkerConfig == [armed : BOOLEAN, kind : {"idle", "trades", "refused"}]

ASSUME ControlAssumption ==
  /\ Configs \subseteq WorkerConfig
  /\ Live \in BOOLEAN /\ MaxRev \in Nat

None == -1
DefaultConfig == [armed |-> FALSE, kind |-> "idle"]

VARIABLES
  session,    \* of each operator: no session, one that may read, one that may act
  row,        \* the configuration row and its revision, 0 for none
  request,    \* of each operator: the row a save was prepared on, and the new one
  worker,     \* phase, and what it loaded
  status,     \* the revision the worker status store holds
  haltedFor,  \* why trading is halted
  unproven,   \* the halt names the symbol: its quantity is in doubt
  runner,     \* the runner: before its warmup, evaluating, or quarantined
  sending,    \* the worker's orders that passed risk and are not at the venue yet
  working, pos,  \* the venue: the worker's working orders, and the position
  closing,    \* what operators' market closes working at the venue will sell
  ownPos,     \* the position in the worker's book
  storedPos,  \* the position in the book the worker last stored
  proved,     \* a password was given for the arming that stands
  raced,      \* an armed save that stands overtook another
  died,       \* a worker ended by itself and halted, and nobody has resumed
  flattened,  \* the book was flattened under the halt that stands, and the
              \* worker has sent nothing since
  flat        \* and by now nobody's book says otherwise

planeVars == <<session, row, request, worker, status, haltedFor, unproven, runner, sending,
               working, pos, closing, ownPos, storedPos, proved, raced, died, flattened, flat>>
config == <<row, request, status, proved, raced>>
venue == <<working, pos, closing>>
books == <<ownPos, storedPos>>
trading == <<haltedFor, unproven, died, flattened, flat>>

Idle == [on |-> FALSE, before |-> [rev |-> 0, config |-> DefaultConfig], new |-> DefaultConfig]
Down == [phase |-> "down", rev |-> None, config |-> DefaultConfig]

PlaneInit ==
  /\ session = [o \in Operators |-> "none"]
  /\ row = [rev |-> 0, config |-> DefaultConfig] /\ request = [o \in Operators |-> Idle]
  /\ worker = Down /\ status = None
  /\ haltedFor = "none" /\ unproven = FALSE /\ runner = "cold" /\ sending = {}
  /\ working = {} /\ pos = 0 /\ closing = 0 /\ ownPos = 0 /\ storedPos = 0
  /\ proved = FALSE /\ raced = FALSE /\ died = FALSE /\ flattened = FALSE /\ flat = FALSE

-----------------------------------------------------------------------------
(* Sign-in, scopes and step-up. *)

\* login: an attempt the limiter or the password check refuses changes nothing.
Login(o) ==
  /\ session[o] = "none"
  /\ \E scope \in {"read", "full"} : session' = [session EXCEPT ![o] = scope]
  /\ UNCHANGED <<config, worker, runner, trading, sending, venue, books>>

\* A token past its time, or logout; a request that was let in goes on.
Expires(o) ==
  /\ session[o] # "none" /\ session' = [session EXCEPT ![o] = "none"]
  /\ UNCHANGED <<config, worker, runner, trading, sending, venue, books>>
Logout(o) == Expires(o)

\* require_write_scope: a read-only session may call nothing but the halt.
MayAct(o) == session[o] = "full"
MayHalt(o) == session[o] # "none"
\* require_step_up: the password travels with the act.
StepUp(password) == password

-----------------------------------------------------------------------------
(* The configuration. *)

\* update_worker_config, to the read of the row.
PrepareSave(o) ==
  /\ MayAct(o) /\ ~request[o].on
  /\ \E new \in Configs : request' = [request EXCEPT ![o] = [on |-> TRUE, before |-> row, new |-> new]]
  /\ UNCHANGED <<session, row, status, proved, raced, worker, runner, trading, sending, venue, books>>

\* A fault: the password is asked for when there is no row yet.
ArmingFirst(before, new) == new.armed /\ before.rev = 0
Arming(before, new) == new.armed /\ ~before.config.armed

\* A fault: the revision is counted from the row that was read.
NextRevisionRead(before) == before.rev + 1
\* The upsert counts in the database.
NextRevision(before) == row.rev + 1

\* update_worker_config, from the step-up to the answer.
Save(o) ==
  LET before == request[o].before
      new == request[o].new
  IN /\ request[o].on /\ request' = [request EXCEPT ![o] = Idle]
     /\ \E password \in BOOLEAN :
          IF Arming(before, new) /\ ~StepUp(password)
          THEN UNCHANGED <<row, proved, raced>>
          ELSE /\ row.rev < MaxRev /\ row' = [rev |-> NextRevision(before), config |-> new]
               /\ proved' = (new.armed /\ (proved \/ password))
               /\ raced' = (new.armed /\ (raced \/ before.rev # row.rev))
     /\ UNCHANGED <<session, status, worker, runner, trading, sending, venue, books>>

\* _screen: a worker has reported, and its revision is the saved one.
InForce == status = row.rev

-----------------------------------------------------------------------------
(* The worker: main.run and supervise. *)

\* trading.decide
Decide(c) == c.kind # "idle" /\ (Live => c.armed)
\* build_runner raises on a timeframe nothing delivers, or that is not the strategy's.
Refuses(c) == Decide(c) /\ c.kind = "refused"

\* The row is read once.
Start ==
  /\ worker.phase = "down" /\ ~Refuses(row.config)
  /\ worker' = [phase |-> "starting", rev |-> row.rev, config |-> row.config]
  /\ runner' = "cold"
  /\ UNCHANGED <<session, config, trading, sending, venue, books>>

\* RedisWorkerStatusStore.put; a failure is logged.
PublishStatus ==
  /\ worker.phase = "starting" /\ worker' = [worker EXCEPT !.phase = "running"]
  /\ status' \in {worker.rev, status}
  /\ UNCHANGED <<session, row, request, proved, raced, runner, trading, sending, venue, books>>

StatusExpires ==
  /\ status # None /\ status' = None
  /\ UNCHANGED <<session, row, request, proved, raced, worker, runner, trading, sending, venue, books>>

\* What was on its way has reached the venue or has not.
Cut == sending' = {} /\ working' \in {working, working \cup sending} /\ UNCHANGED <<pos, closing>>

\* The kill switch keeps the record that stands.
Engaged(reason) == IF haltedFor = "none" THEN reason ELSE haltedFor

\* A responsibility raised or returned: the others are cancelled.
ResponsibilityEnds ==
  /\ worker.phase = "running"
  /\ \E raised \in BOOLEAN : worker' = [worker EXCEPT !.phase = IF raised THEN "raised" ELSE "returned"]
  /\ Cut
  /\ UNCHANGED <<session, config, runner, trading, books>>

\* A fault: one that returned is taken for a shutdown.
HaltsAfterRaised(phase) == phase = "raised"
HaltsAfter(phase) == phase \in {"raised", "returned"}

\* supervise halts and the process exits; the switch may not be reached, which
\* replaces the error.  A daily-loss halt that stands takes the death in, and
\* the rollover releases both.
Exit ==
  /\ worker.phase \in {"raised", "returned"} /\ worker' = Down
  /\ \/ /\ haltedFor' = IF HaltsAfter(worker.phase) THEN Engaged("death") ELSE haltedFor
        /\ died' = (died \/ haltedFor # "daily")
     \/ UNCHANGED <<haltedFor, died>>
  /\ UNCHANGED <<session, config, runner, unproven, flattened, flat, sending, venue, books>>

\* A signal: drained, not halted.  A crash: not even drained.
Stop ==
  /\ worker.phase \in {"starting", "running"} /\ worker' = Down /\ Cut
  /\ UNCHANGED <<session, config, runner, trading, books>>

-----------------------------------------------------------------------------
(* The worker's runner: what it knows, and what it sends. *)

\* A trading runner is up: its tasks handle fills and reconcile.
Trades == worker.phase = "running" /\ Decide(worker.config)
Evaluates == Trades /\ runner = "ready"

\* A flattened book has closed, and the symbol is not traded on by a book that
\* still shows it: a halt that names the symbol lets no exit of it pass.
Settles ==
  flat' = \/ flat
          \/ flattened' /\ pos' = 0 /\ closing' = 0 /\ (unproven' \/ (ownPos' = 0 /\ storedPos' = 0))

\* reconcile: a quantity that differs, or an order nobody here placed.
Diverges == ownPos # pos \/ closing # 0
\* It halts, and names the symbol of a quantity.
Impugn == haltedFor' = Engaged("diverged") /\ unproven' = (unproven \/ ownPos # pos)

\* warmup: the book and the open orders are restored and caught up, and a fill
\* found only now is protected.  A book the venue contradicts parks the runner.
Warmup ==
  /\ Trades /\ runner = "cold"
  /\ IF Diverges THEN runner' = "parked" /\ Impugn /\ UNCHANGED <<sending, flattened>>
     ELSE /\ runner' = "ready"
          /\ sending' \in IF ownPos > 0 /\ "stop" \notin working THEN {{}, {"stop"}} ELSE {sending}
          /\ flattened' = (flattened /\ sending' = {})
          /\ UNCHANGED <<haltedFor, unproven>>
  /\ UNCHANGED <<session, config, worker, died, venue, books>>
  /\ Settles

\* The cron and the stream's reconnects reconcile; a session opening warms up
\* again, and parks.
Reconcile ==
  /\ Trades /\ Diverges /\ Impugn
  /\ runner' \in IF runner = "ready" THEN {"ready", "parked"} ELSE {runner}
  /\ UNCHANGED <<session, config, worker, died, flattened, sending, venue, books>>
  /\ Settles

\* adopt_broker_state, under a halt and with the worker stopped: the venue's
\* book becomes the stored one.
AdoptBrokerState ==
  /\ haltedFor # "none" /\ worker.phase = "down" /\ Diverges
  /\ ownPos' = pos /\ storedPos' = pos
  /\ UNCHANGED <<session, config, worker, runner, trading, sending, venue>>

\* An entry passes risk while nothing is halted.
PassRisk ==
  /\ Evaluates /\ haltedFor = "none"
  /\ ownPos = 0 /\ sending = {} /\ working = {} /\ sending' = {"entry"}
  /\ UNCHANGED <<session, config, worker, runner, trading, venue, books>>

\* What makes the worker's own position smaller passes a halt, unless the halt
\* names the symbol: an exit of the strategy or the engine, or another attempt
\* at a stop.  A worker that is short buys.
Reduces == IF ownPos > 0 THEN {"exit", "stop"} ELSE IF ownPos < 0 THEN {"cover"} ELSE {}
PassExit ==
  /\ Evaluates /\ ~unproven /\ sending = {}
  /\ \E order \in Reduces \ working : sending' = {order}
  /\ flattened' = FALSE
  /\ UNCHANGED <<session, config, worker, runner, haltedFor, unproven, died, flat, venue, books>>

\* The venue takes an order or refuses it.  A close takes the stop away, first
\* or afterwards, and may fail to.
Send ==
  /\ Trades /\ sending # {} /\ sending' = {}
  /\ \E left \in {working, IF "exit" \in sending THEN working \ {"stop"} ELSE working} :
       working' \in {left, left \cup sending}
  /\ UNCHANGED <<session, config, worker, runner, trading, pos, closing, books>>

\* A checkpoint: the book, with the fills folded in.
Store ==
  /\ Trades /\ storedPos # ownPos /\ storedPos' = ownPos
  /\ UNCHANGED <<session, config, worker, runner, trading, sending, venue, ownPos>>

\* The daily loss rule halts; the rollover releases that halt and no other, and
\* not one that names a symbol.
LoseTooMuch ==
  /\ Evaluates /\ ownPos # 0 /\ haltedFor = "none" /\ haltedFor' = Engaged("daily")
  /\ UNCHANGED <<session, config, worker, runner, unproven, died, flattened, flat, sending, venue, books>>
Rollover ==
  /\ worker.phase = "running" /\ haltedFor = "daily" /\ ~unproven
  /\ haltedFor' = "none" /\ flattened' = FALSE /\ flat' = FALSE
  /\ UNCHANGED <<session, config, worker, runner, unproven, died, sending, venue, books>>

-----------------------------------------------------------------------------
(* The venue. *)

\* on_fill_event protects an entry at once, if the halt lets the stop pass.
FillEntry ==
  /\ "entry" \in working /\ working' = working \ {"entry"}
  /\ pos' = pos + 1 /\ ownPos' = ownPos + 1
  /\ sending' = IF Trades /\ ~unproven THEN sending \cup {"stop"} ELSE sending
  /\ UNCHANGED <<session, config, worker, runner, trading, closing, storedPos>>

Bought(order) == IF order = "cover" THEN 1 ELSE -1
\* A stop fires, or another order of the worker fills.
FillReduction ==
  /\ \E order \in working \ {"entry"} :
       /\ working' = working \ {order}
       /\ pos' = pos + Bought(order) /\ ownPos' = ownPos + Bought(order)
  /\ UNCHANGED <<session, config, worker, runner, trading, sending, closing, storedPos>>

\* The operators' closes fill.  The worker tracks none of these orders and drops
\* the events.
FillClose ==
  /\ closing # 0 /\ pos' = pos - closing /\ closing' = 0
  /\ UNCHANGED <<session, config, worker, runner, haltedFor, unproven, died, flattened, sending,
                 working, books>>
  /\ Settles

-----------------------------------------------------------------------------
(* Halt, resume, cancel and flatten, from the dashboard or the shell. *)

\* engage_kill_switch, and halt.py engage, which asks for nothing.
HaltByHand ==
  /\ haltedFor' = Engaged("manual")
  /\ UNCHANGED <<session, config, worker, runner, unproven, died, flattened, flat, sending, venue, books>>
HaltFromDashboard(o) == MayHalt(o) /\ HaltByHand

\* RedisKillSwitch.clear: the record is deleted, whatever it says.
Clear ==
  /\ haltedFor # "none" /\ haltedFor' = "none" /\ unproven' = FALSE
  /\ died' = FALSE /\ flattened' = FALSE /\ flat' = FALSE
  /\ UNCHANGED <<session, config, worker, runner, sending, venue, books>>
\* _prove_operator: the shell asks for the password as well.
ProveOperator(password) == password
ClearByHand == \E password \in BOOLEAN : ProveOperator(password) /\ Clear
ResumeFromDashboard(o) == MayAct(o) /\ \E password \in BOOLEAN : StepUp(password) /\ Clear

\* OrderRouter.cancel_all asks the venue what works: some may refuse, every one
\* is asked.
CancelAll == SUBSET working
CancelAllOrders(o) ==
  /\ MayAct(o) /\ (working # {} \/ closing # 0)
  /\ working' \in CancelAll /\ closing' \in {0, closing}
  /\ UNCHANGED <<session, config, worker, runner, trading, sending, pos, books>>
CancelOrder(o) ==
  /\ MayAct(o) /\ \E order \in working : working' = working \ {order}
  /\ UNCHANGED <<session, config, worker, runner, trading, sending, pos, closing, books>>

\* marked_book: what the worker last stored, with prices of now.
MarkedBook == storedPos
\* close_position: through the chain, which lets an exit pass a halt that does
\* not name the symbol.  The quantity is the stored book's, so a late one sells
\* what is no longer held.  The venue may refuse it, its stop taken away or not.
ClosePosition(o) ==
  /\ MayAct(o) /\ MarkedBook > 0 /\ ~unproven
  /\ working' \in {working, working \ {"stop"}}
  /\ closing' \in {closing, closing + MarkedBook}
  /\ UNCHANGED <<session, config, worker, runner, trading, sending, pos, books>>

\* A fault: positions are closed and resting orders are left.
LeftWorkingAll == working
\* close_all_positions asks the venue to cancel what rests first.
LeftWorking == {}

\* flatten_all: both proofs; a position that would not close is an error.
FlattenAll(o) ==
  /\ MayAct(o) /\ \E password \in BOOLEAN : StepUp(password)
  /\ working' = LeftWorking
  /\ \/ closing' = pos /\ flattened' = (haltedFor # "none" /\ sending = {})
     \/ closing' = 0 /\ UNCHANGED flattened
  /\ UNCHANGED <<session, config, worker, runner, haltedFor, unproven, died, sending, pos, books>>
  /\ Settles

PlaneNext ==
  \/ \E o \in Operators :
       \/ Login(o) \/ Expires(o) \/ Logout(o) \/ PrepareSave(o) \/ Save(o)
       \/ HaltFromDashboard(o) \/ ResumeFromDashboard(o) \/ CancelOrder(o)
       \/ CancelAllOrders(o) \/ ClosePosition(o) \/ FlattenAll(o)
  \/ HaltByHand \/ ClearByHand \/ AdoptBrokerState
  \/ Start \/ PublishStatus \/ StatusExpires \/ ResponsibilityEnds \/ Exit \/ Stop
  \/ Warmup \/ Reconcile \/ PassRisk \/ PassExit \/ Send \/ Store \/ LoseTooMuch \/ Rollover
  \/ FillEntry \/ FillReduction \/ FillClose

PlaneSpec == PlaneInit /\ [][PlaneNext]_planeVars

-----------------------------------------------------------------------------
(* Properties. *)

\* The screen does not lie about a restart: when it shows the saved configuration
\* in force and a worker is up, that worker runs what is saved, whatever saves,
\* restarts and failed reports came between (_screen, save, put).
NoPendingMeansSaved ==
  worker.phase # "down" /\ InForce => worker.config = row.config

\* A row that allows live orders was armed with a password, unless a save that
\* read an armed row overtook the one that disarmed it (update_worker_config).
ArmedIsProved == row.config.armed => proved \/ raced

\* A worker that ended by itself leaves trading halted, over restarts and the
\* rollover, until somebody with the password resumes (supervise, _halt).
DeathHalts == died => haltedFor # "none"

\* A book flattened under a halt stays flat while the halt stands, over exits,
\* stops, closes by hand, restarts and the rollover, once the closes have
\* filled and no book that still shows the position may be sold from: a
\* reconcile has named the symbol, or the books agree.  Until then a worker or
\* an operator that reads an old book can sell once more, which ends the promise
\* (flatten_all, close_all_positions, KillSwitchRule, reconcile, on_fill_event).
FlattenSticks == flat => pos = 0

=============================================================================
