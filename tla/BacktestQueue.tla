--------------------------- MODULE BacktestQueue ---------------------------
(***************************************************************************)
(* A backtest from the request to its stored verdict: the API validates a  *)
(* request, writes its row and puts a job on the queue (routers/           *)
(* backtests.py, persistence/jobs.py); a queue worker takes the job, runs  *)
(* the engine in a thread and writes the verdict (tasks.py, backtest/      *)
(* runner.py, persistence/backtests.py); a worker that boots sweeps the    *)
(* rows of workers that died (queue.py).                                   *)
(*                                                                         *)
(* Every database statement and every queue call is a step of its own and  *)
(* may fail; the API process and the workers may die between any two.      *)
(* Several workers may be up at once, as a deploy overlaps them.           *)
(*                                                                         *)
(* Data: a specification is the set of its defects (a field that some      *)
(* check refuses).  Time is each run's age since it was marked running,    *)
(* which no comparison needs past StaleAfter.  A crashed worker's job does *)
(* not come back (max_tries = 1, retry_jobs = False).  Progress records,   *)
(* which expire and are only shown, are left out.                          *)
(***************************************************************************)
EXTENDS Integers, FiniteSets, Sequences

CONSTANTS Runs,        \* one id per request
          Workers,     \* queue workers, one job each (MAX_JOBS)
          Specs,       \* the sets of defects requests come with
          JobTimeout,  \* JOB_TIMEOUT_SECONDS, in ticks
          MaxFaults    \* bound on failures and crashes

ASSUME TimeoutAssumption == JobTimeout \in Nat \ {0} /\ MaxFaults \in Nat

\* STALE_AFTER
StaleAfter == 2 * JobTimeout

Statuses == {"none", "queued", "running", "done", "failed"}
InFlight == {"queued", "running"}
NoRow == [status |-> "none", why |-> "none", result |-> FALSE]
Idle == [at |-> "idle"]

VARIABLES
  spec,      \* spec[r]: the defects of the request's specification
  request,   \* request[r]: where the API's handler is
  strategy,  \* the strategies table has the row every run of it points at
  audited,   \* how often its creation was audited
  row,       \* row[r]: the backtest_runs row
  age,       \* age[r]: time since a task marked it running (started_at)
  jobs,      \* the queue, oldest first
  worker,    \* worker[w]: down, idle, or where its task is
  faults

vars == <<spec, request, strategy, audited, row, age, jobs, worker, faults>>

Init ==
  /\ spec \in [Runs -> Specs] /\ request = [r \in Runs |-> "new"]
  /\ strategy = FALSE /\ audited = 0
  /\ row = [r \in Runs |-> NoRow] /\ age = [r \in Runs |-> 0] /\ jobs = <<>>
  /\ worker = [w \in Workers |-> [at |-> "down"]]
  /\ faults = 0

Fault == faults < MaxFaults /\ faults' = faults + 1

-----------------------------------------------------------------------------
(* The rows (PostgresBacktestRunRepository). *)

\* A fault: the statement is not limited to rows in flight.
WriteAnyRow(r, fields) == row' = [row EXCEPT ![r] = fields]

\* Every verdict is an UPDATE of the row if it is still in flight.
WriteIfInFlight(r, fields) ==
  row' = [row EXCEPT ![r] = IF @.status \in InFlight THEN fields ELSE @]

MarkRunning(r) ==
  WriteIfInFlight(r, [status |-> "running", why |-> "none", result |-> FALSE])
Finish(r) ==
  WriteIfInFlight(r, [row[r] EXCEPT !.status = "done", !.why = "none", !.result = TRUE])
Fail(r, reason) ==
  WriteIfInFlight(r, [row[r] EXCEPT !.status = "failed", !.why = reason, !.result = FALSE])

\* A fault: a sweep takes every running row.
StaleRunningAll == {r \in Runs : row[r].status = "running"}
StaleRunning == {r \in Runs : row[r].status = "running" /\ age[r] > StaleAfter}

-----------------------------------------------------------------------------
(* What the checks refuse. *)

\* build_engine, resolve_stop_config, resolve_sizing, parse_spec_dates and
\* _resolve_strategy, in the worker.
EngineChecks ==
  {"dates", "timeframe", "cost_model", "symbols", "cash", "sizing", "strategy", "stop"}

\* _validated_spec and _validated_ruleset, in the API.
RequestChecks == EngineChecks \cup {"too_many_symbols", "quantity"}

\* _require_coverage and missing_coverage: bars stored for every symbol.
Covered(r) == "coverage" \notin spec[r]

-----------------------------------------------------------------------------
(* The API: run_backtest. *)

At(r, here) == request[r] = here
Goes(r, there) == request' = [request EXCEPT ![r] = there]

\* get_stored, then validation and coverage: refused with a 400, or on to the
\* strategy's row if there was none.
Validate(r) ==
  /\ At(r, "new")
  /\ Goes(r, IF spec[r] \cap RequestChecks # {} \/ ~Covered(r) THEN "refused"
             ELSE IF strategy THEN "create" ELSE "store")
  /\ UNCHANGED <<spec, strategy, audited, row, age, jobs, worker, faults>>

\* _store_registered_class: another request may have stored it meanwhile.
StoreStrategy(r) ==
  /\ At(r, "store") /\ strategy' = TRUE
  /\ Goes(r, IF strategy THEN "create" ELSE "audit")
  /\ UNCHANGED <<spec, audited, row, age, jobs, worker, faults>>

AuditStrategy(r) ==
  /\ At(r, "audit") /\ audited' = audited + 1 /\ Goes(r, "create")
  /\ UNCHANGED <<spec, strategy, row, age, jobs, worker, faults>>

\* The row is written before the job; a failed insert is a 409.
Create(r) ==
  /\ At(r, "create")
  /\ \/ /\ row' = [row EXCEPT ![r].status = "queued"] /\ Goes(r, "enqueue") /\ UNCHANGED faults
     \/ Fault /\ Goes(r, "refused") /\ UNCHANGED row
  /\ UNCHANGED <<spec, strategy, audited, age, jobs, worker>>

\* The queue is reached, is not, or takes the job and the answer is lost.
Enqueue(r) ==
  /\ At(r, "enqueue")
  /\ \/ jobs' = Append(jobs, r) /\ Goes(r, "accepted") /\ UNCHANGED faults
     \/ Fault /\ jobs' \in {jobs, Append(jobs, r)} /\ Goes(r, "unqueued")
  /\ UNCHANGED <<spec, strategy, audited, row, age, worker>>

\* The row of a run that could not be queued is failed, and the answer a 503.
Unqueued(r) ==
  /\ At(r, "unqueued") /\ Goes(r, "refused")
  /\ \/ Fail(r, "unqueued") /\ UNCHANGED faults
     \/ Fault /\ UNCHANGED row
  /\ UNCHANGED <<spec, strategy, audited, age, jobs, worker>>

\* The API process dies in the middle of a request.
ApiDies(r) ==
  /\ request[r] \in {"store", "audit", "create", "enqueue", "unqueued"}
  /\ Fault /\ Goes(r, "dead")
  /\ UNCHANGED <<spec, strategy, audited, row, age, jobs, worker>>

-----------------------------------------------------------------------------
(* The queue worker. *)

Becomes(w, state) == worker' = [worker EXCEPT ![w] = state]
Holds(w, r, here) == worker[w].at = here /\ worker[w].run = r
Executing(w) == worker[w].at \in {"execute", "finish", "fail"}

\* arq hands the oldest job to an idle worker (external).
Pop(w) ==
  /\ worker[w].at = "idle" /\ jobs # <<>>
  /\ Becomes(w, [at |-> "read", run |-> Head(jobs)]) /\ jobs' = Tail(jobs)
  /\ UNCHANGED <<spec, request, strategy, audited, row, age, faults>>

\* run_backtest_task: no row, or one with a verdict already, ends the task.  An
\* exception of a database call here or below leaves the row as it is.
ReadRow(w, r) ==
  /\ Holds(w, r, "read")
  /\ \/ row[r].status \notin InFlight /\ Becomes(w, Idle) /\ UNCHANGED faults
     \/ row[r].status \in InFlight /\ Becomes(w, [at |-> "mark", run |-> r]) /\ UNCHANGED faults
     \/ Fault /\ Becomes(w, Idle)
  /\ UNCHANGED <<spec, request, strategy, audited, row, age, jobs>>

Mark(w, r) ==
  /\ Holds(w, r, "mark")
  /\ \/ /\ MarkRunning(r) /\ age' = [age EXCEPT ![r] = 0]
        /\ Becomes(w, [at |-> "execute", run |-> r]) /\ UNCHANGED faults
     \/ Fault /\ Becomes(w, Idle) /\ UNCHANGED <<row, age>>
  /\ UNCHANGED <<spec, request, strategy, audited, jobs>>

\* _execute and run_spec: bars are loaded, the engine is built and run.
RunEngine(w, r) ==
  /\ Holds(w, r, "execute")
  /\ \/ /\ Becomes(w, IF Covered(r) /\ spec[r] \cap EngineChecks = {}
                      THEN [at |-> "finish", run |-> r]
                      ELSE [at |-> "fail", run |-> r, why |-> "config"])
        /\ UNCHANGED faults
     \/ Fault /\ Becomes(w, [at |-> "fail", run |-> r, why |-> "crashed"])
  /\ UNCHANGED <<spec, request, strategy, audited, row, age, jobs>>

\* A fault: a job may take as long as it likes.
CancelledNever(w, r) == FALSE /\ UNCHANGED vars

\* arq cancels a job that has run for JobTimeout: what it raises is no
\* Exception, so neither handler of the task sees it.
Cancelled(w, r) ==
  /\ Executing(w) /\ worker[w].run = r /\ age[r] >= JobTimeout
  /\ Becomes(w, Idle)
  /\ UNCHANGED <<spec, request, strategy, audited, row, age, jobs, faults>>

StoreVerdict(w, r) ==
  /\ \/ Holds(w, r, "finish") /\ Finish(r) /\ UNCHANGED faults
     \/ Holds(w, r, "fail") /\ Fail(r, worker[w].why) /\ UNCHANGED faults
     \/ worker[w].at \in {"finish", "fail"} /\ worker[w].run = r /\ Fault /\ UNCHANGED row
  /\ Becomes(w, Idle)
  /\ UNCHANGED <<spec, request, strategy, audited, age, jobs>>

WorkerDies(w) ==
  /\ worker[w].at # "down" /\ Fault /\ Becomes(w, [at |-> "down"])
  /\ UNCHANGED <<spec, request, strategy, audited, row, age, jobs>>

\* on_startup: what was running for longer than any job may is failed; a sweep
\* that cannot be done does not keep the worker down.
Boot(w) ==
  /\ worker[w].at = "down" /\ Becomes(w, Idle)
  /\ \/ /\ row' = [r \in Runs |-> IF r \in StaleRunning
                                  THEN [row[r] EXCEPT !.status = "failed", !.why = "interrupted"]
                                  ELSE row[r]]
        /\ UNCHANGED faults
     \/ StaleRunning # {} /\ Fault /\ UNCHANGED row
  /\ UNCHANGED <<spec, request, strategy, audited, age, jobs>>

\* Time passes; the timeout of a job does not wait.
Tick ==
  /\ \A w \in Workers : Executing(w) => age[worker[w].run] < JobTimeout
  /\ age' = [r \in Runs |->
               IF /\ age[r] <= StaleAfter
                  /\ row[r].status = "running" \/ \E w \in Workers : Executing(w) /\ worker[w].run = r
               THEN age[r] + 1 ELSE age[r]]
  /\ UNCHANGED <<spec, request, strategy, audited, row, jobs, worker, faults>>

-----------------------------------------------------------------------------
Handler(r) == \/ Validate(r) \/ StoreStrategy(r) \/ AuditStrategy(r)
              \/ Create(r) \/ Enqueue(r) \/ Unqueued(r)
TaskStep(w, r) == ReadRow(w, r) \/ Mark(w, r) \/ Cancelled(w, r) \/ StoreVerdict(w, r)

Next ==
  \/ \E r \in Runs : Handler(r) \/ ApiDies(r)
  \/ \E w \in Workers, r \in Runs : TaskStep(w, r) \/ RunEngine(w, r)
  \/ \E w \in Workers : Pop(w) \/ WorkerDies(w) \/ Boot(w)
  \/ Tick

\* The API goes on with a request it has begun, a worker that is up takes jobs
\* and goes on with its task, a dead worker is started again, and time passes.
\* The engine's run itself may never end.
Fairness ==
  /\ \A r \in Runs : WF_vars(Handler(r))
  /\ \A w \in Workers : WF_vars(Pop(w)) /\ WF_vars(Boot(w))
  /\ \A w \in Workers, r \in Runs : WF_vars(TaskStep(w, r))
  /\ WF_vars(Tick)

Spec == Init /\ [][Next]_vars /\ Fairness

-----------------------------------------------------------------------------
(* Properties. *)

\* Types: a run is on the queue or in a task at most once, its row is written
\* before either, and the strategy's creation is audited at most once.
TypeOK ==
  /\ \A r \in Runs :
       /\ row[r].status \in Statuses /\ age[r] \in 0..(StaleAfter + 1)
       /\ Cardinality({i \in DOMAIN jobs : jobs[i] = r})
            + Cardinality({w \in Workers : worker[w].at \notin {"down", "idle"} /\ worker[w].run = r})
            <= 1
  /\ \A i \in DOMAIN jobs : row[jobs[i]].status # "none"
  /\ audited <= 1

\* A verdict stands: whatever arrives late, a redelivered job, a worker thought
\* dead, a failed enqueue whose job exists, a row that is done or failed never
\* changes, and only a done row has a result (mark_running, finish, fail).
VerdictsAreFinal ==
  [][\A r \in Runs : row[r].status \in {"done", "failed"} => row'[r] = row[r]]_vars

\* A sweep takes nothing from a worker that still runs it: a row is failed as
\* interrupted only when no worker has the run (sweep_interrupted, STALE_AFTER).
NoLiveRunSwept ==
  \A r \in Runs, w \in Workers :
    row[r].why = "interrupted" => worker[w].at \in {"down", "idle"} \/ worker[w].run # r

\* Whatever the runs before it do, fail, hang or take their worker with them, a
\* job on the queue is taken by a worker (JOB_TIMEOUT_SECONDS, MAX_JOBS).
OnQueue(r) == \E i \in DOMAIN jobs : jobs[i] = r
JobsAreTaken == \A r \in Runs : OnQueue(r) ~> ~OnQueue(r)

=============================================================================
