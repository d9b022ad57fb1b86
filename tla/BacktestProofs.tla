--------------------------- MODULE BacktestProofs ---------------------------
(***************************************************************************)
(* Proofs about a backtest.                                                *)
(*                                                                         *)
(* BacktestQueue, for any number of runs, workers and faults and any       *)
(* timeout: a verdict stands, and a sweep takes no run from a worker that  *)
(* still has it.                                                           *)
(*                                                                         *)
(* BacktestEngine, for bars, prices, sizes and stop configurations of any  *)
(* kind: every fill is one the bar and the stop allow, and the trades that *)
(* analytics folds from the fills account for the cash of a flat book.     *)
(*                                                                         *)
(* PaperRun, for bars that traded: the simulated broker fills what the     *)
(* engine fills, each by its own rules.                                    *)
(***************************************************************************)
EXTENDS BacktestQueue, PaperRun, SequenceTheorems, FoldTheorems

-----------------------------------------------------------------------------
(* The queue: the inductive invariant. *)

Places == {"down", "idle", "read", "mark", "execute", "finish", "fail"}

Row == [status : Statuses, result : BOOLEAN,
        why : {"none", "config", "crashed", "unqueued", "interrupted"}]

QueueTypes ==
  /\ row \in [Runs -> Row] /\ DOMAIN request = Runs /\ DOMAIN worker = Workers
  /\ age \in [Runs -> Nat] /\ jobs \in Seq(Runs)
  /\ \A w \in Workers : worker[w].at \in Places

\* A request that has not written its row.
Unwritten(r) == request[r] \in {"new", "store", "audit", "create"}
\* A request that has not put its job on the queue.
Unsent(r) == Unwritten(r) \/ request[r] = "enqueue"

Held(w, r) == worker[w].at \notin {"down", "idle"} /\ worker[w].run = r
Loose(r) == ~OnQueue(r) /\ \A w \in Workers : ~Held(w, r)

\* A run is in one place: nowhere, once on the queue, or with one worker.
OnePlace ==
  /\ \A i, j \in DOMAIN jobs : jobs[i] = jobs[j] => i = j
  /\ \A r \in Runs : OnQueue(r) => \A w \in Workers : ~Held(w, r)
  /\ \A r \in Runs, w, v \in Workers : Held(w, r) /\ Held(v, r) => w = v

\* Before the job is sent, nothing of the run exists but a queued row.
NotYetSent ==
  \A r \in Runs :
    /\ Unsent(r) => Loose(r) /\ row[r].status \in {"none", "queued"}
    /\ Unwritten(r) => row[r].status = "none"

\* A running row's job has been taken, and its task has marked it; a swept run
\* is with nobody.
Taken ==
  \A r \in Runs :
    /\ row[r].status = "running" =>
         /\ ~Unsent(r) /\ ~OnQueue(r)
         /\ \A w \in Workers : Held(w, r) => worker[w].at \notin {"read", "mark"}
    /\ row[r].why = "interrupted" => ~Unsent(r) /\ Loose(r)

\* A task that executes was marked no longer ago than the queue lets it run, and
\* no task fails its run for the sweep's reason.
InTime ==
  \A w \in Workers :
    /\ Executing(w) => \A r \in Runs : worker[w].run = r => age[r] <= JobTimeout
    /\ worker[w].at = "fail" => worker[w].why \in {"config", "crashed"}

QueueInv == QueueTypes /\ OnePlace /\ NotYetSent /\ Taken /\ InTime

-----------------------------------------------------------------------------
(* The queue as a sequence. *)

LEMMA SentOnce ==
  ASSUME NEW s \in Seq(Runs), NEW r \in Runs,
         \A i, j \in DOMAIN s : s[i] = s[j] => i = j,
         \A i \in DOMAIN s : s[i] # r
  PROVE  /\ Append(s, r) \in Seq(Runs)
         /\ \A i, j \in DOMAIN Append(s, r) : Append(s, r)[i] = Append(s, r)[j] => i = j
         /\ \A q : (\E i \in DOMAIN Append(s, r) : Append(s, r)[i] = q)
                    <=> q = r \/ \E i \in DOMAIN s : s[i] = q
<1>1. /\ Append(s, r) \in Seq(Runs) /\ DOMAIN s = 1..Len(s) /\ Len(s) \in Nat
      /\ DOMAIN Append(s, r) = 1..(Len(s) + 1)
      /\ \A i \in 1..Len(s) : Append(s, r)[i] = s[i]
      /\ Append(s, r)[Len(s) + 1] = r
  OBVIOUS
<1>2. \A i \in 1..(Len(s) + 1) : i \in 1..Len(s) \/ i = Len(s) + 1
  BY <1>1
<1>3. \A i \in 1..Len(s) : i \in 1..(Len(s) + 1)
  BY <1>1
<1>4. Len(s) + 1 \in 1..(Len(s) + 1)
  BY <1>1
<1>5. \A i, j \in DOMAIN Append(s, r) : Append(s, r)[i] = Append(s, r)[j] => i = j
  BY <1>1, <1>2
<1>6. ASSUME NEW q
      PROVE (\E i \in DOMAIN Append(s, r) : Append(s, r)[i] = q)
              <=> q = r \/ \E i \in DOMAIN s : s[i] = q
  BY <1>1, <1>2, <1>3, <1>4
<1>7. QED
  BY <1>1, <1>5, <1>6

LEMMA TakenOnce ==
  ASSUME NEW s \in Seq(Runs), s # <<>>,
         \A i, j \in DOMAIN s : s[i] = s[j] => i = j
  PROVE  /\ Head(s) \in Runs /\ Tail(s) \in Seq(Runs)
         /\ \E i \in DOMAIN s : s[i] = Head(s)
         /\ \A i, j \in DOMAIN Tail(s) : Tail(s)[i] = Tail(s)[j] => i = j
         /\ \A q : (\E i \in DOMAIN Tail(s) : Tail(s)[i] = q)
                    <=> q # Head(s) /\ \E i \in DOMAIN s : s[i] = q
<1>1. /\ Head(s) \in Runs /\ Tail(s) \in Seq(Runs) /\ DOMAIN s = 1..Len(s)
      /\ Len(s) \in Nat \ {0} /\ Head(s) = s[1] /\ DOMAIN Tail(s) = 1..(Len(s) - 1)
      /\ \A i \in 1..(Len(s) - 1) : Tail(s)[i] = s[i + 1]
  OBVIOUS
<1>2. \A i \in 1..(Len(s) - 1) : i + 1 \in 1..Len(s) /\ i + 1 # 1
  BY <1>1
<1>3. \A i, j \in DOMAIN Tail(s) : Tail(s)[i] = Tail(s)[j] => i = j
  <2> SUFFICES ASSUME NEW i \in 1..(Len(s) - 1), NEW j \in 1..(Len(s) - 1), s[i + 1] = s[j + 1]
               PROVE i = j
    BY <1>1
  <2>1. i + 1 = j + 1
    BY <1>1, <1>2
  <2>2. QED
    BY <1>1, <2>1
<1>4. ASSUME NEW q
      PROVE (\E i \in DOMAIN Tail(s) : Tail(s)[i] = q)
              <=> q # Head(s) /\ \E i \in DOMAIN s : s[i] = q
  <2>1. ASSUME NEW i \in DOMAIN Tail(s), Tail(s)[i] = q
        PROVE q # Head(s) /\ \E k \in DOMAIN s : s[k] = q
    <3>1. i + 1 \in DOMAIN s /\ 1 \in DOMAIN s /\ i + 1 # 1 /\ s[i + 1] = q
      BY <1>1, <1>2, <2>1
    <3>2. QED
      BY <1>1, <3>1
  <2>2. ASSUME NEW i \in DOMAIN s, s[i] = q, q # Head(s)
        PROVE \E k \in DOMAIN Tail(s) : Tail(s)[k] = q
    <3>1. i # 1
      BY <1>1, <2>2
    <3>2. i - 1 \in 1..(Len(s) - 1) /\ (i - 1) + 1 = i
      BY <1>1, <3>1
    <3>3. Tail(s)[i - 1] = q
      BY <1>1, <2>2, <3>2
    <3>4. QED
      BY <1>1, <3>2, <3>3
  <2>3. QED
    BY <2>1, <2>2
<1>5. 1 \in DOMAIN s
  BY <1>1
<1>6. QED
  BY <1>1, <1>3, <1>4, <1>5

-----------------------------------------------------------------------------
(* The invariant. *)

LEMMA InitQueue == Init => QueueInv
<1> SUFFICES ASSUME Init PROVE QueueInv
  OBVIOUS
<1>1. QueueTypes
  BY DEF Init, QueueTypes, Places, Row, Statuses, NoRow
<1>2. OnePlace /\ NotYetSent /\ Taken
  BY DEF Init, OnePlace, NotYetSent, Taken, Held, Loose, OnQueue, NoRow, Unsent, Unwritten
<1>3. InTime
  BY DEF Init, InTime, Executing
<1>4. QED
  BY <1>1, <1>2, <1>3 DEF QueueInv

-----------------------------------------------------------------------------
(* Steps that leave the queue alone, give no task a run and start nothing.  *)

LEMMA QuietStep ==
  ASSUME QueueInv, QueueTypes', UNCHANGED <<jobs, age>>,
         \A q \in Runs : (Unsent(q)' => Unsent(q)) /\ (Unwritten(q)' => Unwritten(q)),
         \A v \in Workers, q \in Runs : Held(v, q)' => Held(v, q),
         \A q \in Runs : \/ row'[q] = row[q]
                         \/ /\ ~Unsent(q)' /\ row'[q].status \in {"done", "failed"}
                            /\ row'[q].why # "interrupted",
         \A v \in Workers, q \in Runs :
           Held(v, q)' /\ worker'[v].at \in {"read", "mark"}
             => worker[v].at \in {"read", "mark"},
         \A v \in Workers :
           /\ Executing(v)' => Executing(v) /\ worker'[v].run = worker[v].run
           /\ worker'[v].at = "fail" => worker'[v].why \in {"config", "crashed"}
  PROVE  QueueInv'
<1>1. \A q \in Runs : (OnQueue(q)' <=> OnQueue(q)) /\ (Loose(q) => Loose(q)')
  BY DEF OnQueue, Loose
<1>2. OnePlace'
  BY <1>1 DEF QueueInv, OnePlace
<1>3. NotYetSent'
  <2> SUFFICES ASSUME NEW q \in Runs
               PROVE /\ Unsent(q)' => Loose(q)' /\ row'[q].status \in {"none", "queued"}
                     /\ Unwritten(q)' => row'[q].status = "none"
    BY DEF NotYetSent
  <2>1. Unwritten(q)' => Unsent(q)'
    BY DEF Unsent
  <2>2. QED
    BY <1>1, <2>1 DEF QueueInv, NotYetSent
<1>4. Taken'
  <2> SUFFICES ASSUME NEW q \in Runs
               PROVE /\ row'[q].status = "running" =>
                          /\ ~Unsent(q)' /\ ~OnQueue(q)'
                          /\ \A v \in Workers : Held(v, q)' => worker'[v].at \notin {"read", "mark"}
                     /\ row'[q].why = "interrupted" => ~Unsent(q)' /\ Loose(q)'
    BY DEF Taken
  <2>1. CASE row'[q] = row[q]
    BY <1>1, <2>1 DEF QueueInv, Taken
  <2>2. CASE row'[q].status \in {"done", "failed"} /\ row'[q].why # "interrupted"
    BY <2>2
  <2>3. QED
    BY <2>1, <2>2
<1>5. InTime'
  BY DEF QueueInv, InTime
<1>6. QED
  BY <1>2, <1>3, <1>4, <1>5 DEF QueueInv

\* A task that lets go of its run, or goes on with it.
LEMMA TaskMoves ==
  ASSUME QueueInv, NEW w \in Workers, NEW state, Becomes(w, state), state.at \in Places
  PROVE  /\ DOMAIN worker' = Workers /\ \A v \in Workers : worker'[v].at \in Places
         /\ worker'[w] = state /\ \A v \in Workers \ {w} : worker'[v] = worker[v]
BY DEF QueueInv, QueueTypes, Becomes

\* A row in flight gets its verdict, another stays.
LEMMA RowWritten ==
  ASSUME QueueInv, NEW r \in Runs, NEW fields, WriteIfInFlight(r, fields)
  PROVE  /\ \A q \in Runs \ {r} : row'[q] = row[q]
         /\ row'[r] = IF row[r].status \in InFlight THEN fields ELSE row[r]
         /\ fields \in Row => row' \in [Runs -> Row]
BY DEF QueueInv, QueueTypes, WriteIfInFlight

\* What a failed or finished run's row becomes.
LEMMA FailWrites ==
  ASSUME QueueInv, NEW r \in Runs, NEW reason \in {"config", "crashed", "unqueued"},
         Fail(r, reason)
  PROVE  /\ row' \in [Runs -> Row]
         /\ \A q \in Runs : row'[q] = row[q]
              \/ (q = r /\ row'[q].status = "failed" /\ row'[q].why = reason)
<1> DEFINE fields == [row[r] EXCEPT !.status = "failed", !.why = reason, !.result = FALSE]
<1>1. row[r] \in Row
  BY DEF QueueInv, QueueTypes
<1>2. fields \in Row /\ fields.status = "failed" /\ fields.why = reason
  BY <1>1 DEF Row, Statuses
<1>3. WriteIfInFlight(r, fields)
  BY DEF Fail
<1>4. QED
  BY <1>2, <1>3, RowWritten

LEMMA FinishWrites ==
  ASSUME QueueInv, NEW r \in Runs, Finish(r)
  PROVE  /\ row' \in [Runs -> Row]
         /\ \A q \in Runs : row'[q] = row[q]
              \/ (q = r /\ row'[q].status = "done" /\ row'[q].why = "none")
<1> DEFINE fields == [row[r] EXCEPT !.status = "done", !.why = "none", !.result = TRUE]
<1>1. row[r] \in Row
  BY DEF QueueInv, QueueTypes
<1>2. fields \in Row /\ fields.status = "done" /\ fields.why = "none"
  BY <1>1 DEF Row, Statuses
<1>3. WriteIfInFlight(r, fields)
  BY DEF Finish
<1>4. QED
  BY <1>2, <1>3, RowWritten

\* A request moves.
LEMMA RequestMoves ==
  ASSUME QueueInv, NEW r \in Runs, NEW there, Goes(r, there)
  PROVE  /\ DOMAIN request' = Runs /\ request'[r] = there
         /\ \A q \in Runs \ {r} : request'[q] = request[q]
BY DEF QueueInv, QueueTypes, Goes

\* Steps of a request that touch neither its row nor the queue.
LEMMA RequestKeeps ==
  ASSUME QueueInv, NEW r \in Runs,
         Validate(r) \/ StoreStrategy(r) \/ AuditStrategy(r) \/ ApiDies(r)
  PROVE  QueueInv'
<1>1. UNCHANGED <<row, age, jobs, worker>>
  BY DEF Validate, StoreStrategy, AuditStrategy, ApiDies
<1>2. PICK there \in {"refused", "create", "store", "audit", "dead"} : Goes(r, there)
  BY DEF Validate, StoreStrategy, AuditStrategy, ApiDies
<1>3. there \in {"create", "store", "audit"} => Unwritten(r)
  BY <1>2, RequestMoves DEF Validate, StoreStrategy, AuditStrategy, ApiDies, At, Unwritten
<1>4. \A q \in Runs : (Unsent(q)' => Unsent(q)) /\ (Unwritten(q)' => Unwritten(q))
  BY <1>2, <1>3, RequestMoves DEF Unsent, Unwritten
<1>5. QueueTypes'
  BY <1>1, <1>2, RequestMoves DEF QueueInv, QueueTypes
<1>6. \A v \in Workers : /\ \A q \in Runs : Held(v, q)' => Held(v, q)
                         /\ Executing(v)' => Executing(v)
                         /\ worker[v].at = "fail" => worker[v].why \in {"config", "crashed"}
  BY <1>1 DEF Held, Executing, QueueInv, InTime
<1>7. QED
  BY <1>1, <1>4, <1>5, <1>6, QuietStep

\* A run that was not queued is failed.
LEMMA UnqueuedKeeps ==
  ASSUME QueueInv, NEW r \in Runs, Unqueued(r)
  PROVE  QueueInv'
<1>1. UNCHANGED <<age, jobs, worker>> /\ Goes(r, "refused")
  BY DEF Unqueued
<1>2. \A q \in Runs : (Unsent(q)' => Unsent(q)) /\ (Unwritten(q)' => Unwritten(q))
  BY <1>1, RequestMoves DEF Unsent, Unwritten
<1>3. ~Unsent(r)'
  BY <1>1, RequestMoves DEF Unsent, Unwritten
<1>4. /\ row' \in [Runs -> Row]
      /\ \A q \in Runs : row'[q] = row[q]
           \/ (q = r /\ row'[q].status = "failed" /\ row'[q].why = "unqueued")
  BY FailWrites DEF Unqueued, QueueInv, QueueTypes
<1>5. QueueTypes'
  BY <1>1, <1>4, RequestMoves DEF QueueInv, QueueTypes
<1>6. \A v \in Workers : /\ \A q \in Runs : Held(v, q)' => Held(v, q)
                         /\ Executing(v)' => Executing(v)
                         /\ worker[v].at = "fail" => worker[v].why \in {"config", "crashed"}
  BY <1>1 DEF Held, Executing, QueueInv, InTime
<1>7. QED
  BY <1>1, <1>2, <1>3, <1>4, <1>5, <1>6, QuietStep

\* A task goes on with its run, or ends and leaves the row to others.
LEMMA TaskKeeps ==
  ASSUME QueueInv, NEW w \in Workers, NEW r \in Runs,
         ReadRow(w, r) \/ RunEngine(w, r) \/ Cancelled(w, r)
  PROVE  QueueInv'
<1>1. UNCHANGED <<row, age, jobs, request>>
  BY DEF ReadRow, RunEngine, Cancelled
<1>2. PICK state :
        /\ Becomes(w, state)
        /\ \/ state = Idle
           \/ state = [at |-> "mark", run |-> r] /\ Holds(w, r, "read") /\ row[r].status # "running"
           \/ state = [at |-> "finish", run |-> r] /\ Holds(w, r, "execute")
           \/ /\ \E why \in {"config", "crashed"} : state = [at |-> "fail", run |-> r, why |-> why]
              /\ Holds(w, r, "execute")
  <2>1. CASE ReadRow(w, r)
    <3>1. Holds(w, r, "read") => row[r].status # "running"
      BY DEF QueueInv, Taken, Held, Holds
    <3>2. QED
      BY <2>1, <3>1 DEF ReadRow
  <2>2. CASE RunEngine(w, r)
    BY <2>2 DEF RunEngine
  <2>3. CASE Cancelled(w, r)
    BY <2>3 DEF Cancelled
  <2>4. QED
    BY <2>1, <2>2, <2>3
<1>3. state.at \in Places
  BY <1>2 DEF Places, Idle
<1>4. QueueTypes'
  BY <1>1, <1>2, <1>3, TaskMoves DEF QueueInv, QueueTypes
<1>5. \A v \in Workers, q \in Runs :
        /\ Held(v, q)' => Held(v, q)
        /\ Held(v, q)' /\ worker'[v].at \in {"read", "mark"} => worker[v].at \in {"read", "mark"}
  BY <1>2, <1>3, TaskMoves DEF Held, Holds, Idle
<1>6. \A v \in Workers :
        /\ Executing(v)' => Executing(v) /\ worker'[v].run = worker[v].run
        /\ worker'[v].at = "fail" => worker'[v].why \in {"config", "crashed"}
  BY <1>2, <1>3, TaskMoves DEF Executing, Holds, Idle, QueueInv, InTime
<1>7. \A q \in Runs : (Unsent(q)' => Unsent(q)) /\ (Unwritten(q)' => Unwritten(q))
  BY <1>1 DEF Unsent, Unwritten
<1>8. QED
  BY <1>1, <1>4, <1>5, <1>6, <1>7, QuietStep

\* A worker dies.
LEMMA DeathKeeps ==
  ASSUME QueueInv, NEW w \in Workers, WorkerDies(w)
  PROVE  QueueInv'
<1> DEFINE state == [at |-> "down"]
<1>1. UNCHANGED <<row, age, jobs, request>> /\ Becomes(w, state)
  BY DEF WorkerDies
<1>2. state.at \in Places
  BY DEF Places
<1>3. QueueTypes'
  BY <1>1, <1>2, TaskMoves DEF QueueInv, QueueTypes
<1>4. \A v \in Workers, q \in Runs :
        /\ Held(v, q)' => Held(v, q)
        /\ Held(v, q)' /\ worker'[v].at \in {"read", "mark"} => worker[v].at \in {"read", "mark"}
  BY <1>1, <1>2, TaskMoves DEF Held
<1>5. \A v \in Workers :
        /\ Executing(v)' => Executing(v) /\ worker'[v].run = worker[v].run
        /\ worker'[v].at = "fail" => worker'[v].why \in {"config", "crashed"}
  BY <1>1, <1>2, TaskMoves DEF Executing, QueueInv, InTime
<1>6. \A q \in Runs : (Unsent(q)' => Unsent(q)) /\ (Unwritten(q)' => Unwritten(q))
  BY <1>1 DEF Unsent, Unwritten
<1>7. QED
  BY <1>1, <1>3, <1>4, <1>5, <1>6, QuietStep

\* A task ends with a verdict.
LEMMA VerdictKeeps ==
  ASSUME QueueInv, NEW w \in Workers, NEW r \in Runs, StoreVerdict(w, r)
  PROVE  QueueInv'
<1>1. UNCHANGED <<age, jobs, request>> /\ Becomes(w, Idle)
  BY DEF StoreVerdict
<1>2. Held(w, r) /\ ~Unsent(r)
  BY DEF StoreVerdict, Holds, Held, Loose, QueueInv, NotYetSent
<1>3. /\ row' \in [Runs -> Row]
      /\ \A q \in Runs : row'[q] = row[q]
           \/ (q = r /\ row'[q].status \in {"done", "failed"} /\ row'[q].why # "interrupted")
  <2>1. CASE Holds(w, r, "finish") /\ Finish(r)
    BY <2>1, FinishWrites
  <2>2. CASE Holds(w, r, "fail") /\ Fail(r, worker[w].why)
    <3>1. worker[w].why \in {"config", "crashed"}
      BY <2>2 DEF Holds, QueueInv, InTime
    <3>2. QED
      BY <2>2, <3>1, FailWrites
  <2>3. CASE UNCHANGED row
    BY <2>3 DEF QueueInv, QueueTypes
  <2>4. QED
    BY <2>1, <2>2, <2>3 DEF StoreVerdict
<1>4. QueueTypes'
  BY <1>1, <1>3, TaskMoves DEF QueueInv, QueueTypes, Idle, Places
<1>5. \A v \in Workers : v # w => worker'[v] = worker[v]
  BY <1>1, TaskMoves DEF Idle, Places
<1>6. worker'[w] = Idle
  BY <1>1, TaskMoves DEF Idle, Places
<1>7. \A v \in Workers, q \in Runs :
        /\ Held(v, q)' => Held(v, q)
        /\ Held(v, q)' /\ worker'[v].at \in {"read", "mark"} => worker[v].at \in {"read", "mark"}
  BY <1>5, <1>6 DEF Held, Idle
<1>8. \A v \in Workers :
        /\ Executing(v)' => Executing(v) /\ worker'[v].run = worker[v].run
        /\ worker'[v].at = "fail" => worker'[v].why \in {"config", "crashed"}
  BY <1>5, <1>6 DEF Executing, Idle, QueueInv, InTime
<1>9. \A q \in Runs : (Unsent(q)' <=> Unsent(q)) /\ (Unwritten(q)' <=> Unwritten(q))
  BY <1>1 DEF Unsent, Unwritten
<1>10. QED
  BY <1>1, <1>2, <1>3, <1>4, <1>7, <1>8, <1>9, QuietStep

-----------------------------------------------------------------------------
(* Steps that write a row, send, take, mark or sweep a run, and time.       *)

\* The row of a run is written.
LEMMA CreateKeeps ==
  ASSUME QueueInv, NEW r \in Runs, Create(r)
  PROVE  QueueInv'
<1>1. UNCHANGED <<age, jobs, worker>> /\ Unwritten(r)
  BY DEF Create, At, Unwritten
<1>2. PICK there \in {"enqueue", "refused"} : Goes(r, there)
  BY DEF Create
<1>3. /\ row' \in [Runs -> Row] /\ \A q \in Runs \ {r} : row'[q] = row[q]
      /\ row'[r].why = row[r].why
      /\ \/ row'[r].status = "queued"
         \/ row'[r].status = row[r].status
  <2>1. row \in [Runs -> Row] /\ row[r] \in Row
    BY DEF QueueInv, QueueTypes
  <2>2. CASE row' = [row EXCEPT ![r].status = "queued"]
    <3>1. row' = [row EXCEPT ![r] = [row[r] EXCEPT !.status = "queued"]]
      BY <2>2
    <3>2. /\ [row[r] EXCEPT !.status = "queued"] \in Row
          /\ [row[r] EXCEPT !.status = "queued"].status = "queued"
          /\ [row[r] EXCEPT !.status = "queued"].why = row[r].why
      BY <2>1 DEF Row, Statuses
    <3>3. QED
      BY <2>1, <3>1, <3>2
  <2>3. CASE UNCHANGED row
    BY <2>1, <2>3
  <2>4. QED
    BY <2>2, <2>3 DEF Create
<1>4. Loose(r) /\ row[r].status = "none" /\ row[r].why # "interrupted"
  BY <1>1 DEF QueueInv, NotYetSent, Taken, Unsent
<1>5. /\ ~Unwritten(r)'
      /\ \A q \in Runs \ {r} : (Unsent(q)' <=> Unsent(q)) /\ (Unwritten(q)' <=> Unwritten(q))
  BY <1>2, RequestMoves DEF Unsent, Unwritten
<1>6. /\ \A q \in Runs : (OnQueue(q)' <=> OnQueue(q)) /\ (Loose(q)' <=> Loose(q))
      /\ \A v \in Workers, q \in Runs : Held(v, q)' <=> Held(v, q)
  BY <1>1 DEF OnQueue, Loose, Held
<1>7. QueueTypes'
  BY <1>1, <1>2, <1>3, RequestMoves DEF QueueInv, QueueTypes
<1>8. OnePlace'
  BY <1>1, <1>6 DEF QueueInv, OnePlace
<1>9. NotYetSent'
  <2>1. row'[r].status \in {"none", "queued"} /\ Loose(r)'
    BY <1>3, <1>4, <1>6
  <2>2. QED
    BY <1>3, <1>5, <1>6, <2>1 DEF QueueInv, NotYetSent
<1>10. Taken'
  <2>1. row'[r].status # "running" /\ row'[r].why # "interrupted"
    BY <1>3, <1>4
  <2>2. QED
    BY <1>1, <1>3, <1>5, <1>6, <2>1 DEF QueueInv, Taken
<1>11. InTime'
  BY <1>1 DEF QueueInv, InTime, Executing
<1>12. QED
  BY <1>7, <1>8, <1>9, <1>10, <1>11 DEF QueueInv

\* A job is sent, whether or not the request learns of it.
LEMMA EnqueueKeeps ==
  ASSUME QueueInv, NEW r \in Runs, Enqueue(r)
  PROVE  QueueInv'
<1>1. UNCHANGED <<row, age, worker>> /\ Unsent(r)
  BY DEF Enqueue, At, Unsent
<1>2. PICK there \in {"accepted", "unqueued"} : Goes(r, there)
  BY DEF Enqueue
<1>3. jobs' = jobs \/ jobs' = Append(jobs, r)
  BY DEF Enqueue
<1>4. Loose(r) /\ row[r].status \in {"none", "queued"} /\ row[r].why # "interrupted"
  BY <1>1 DEF QueueInv, NotYetSent, Taken
<1>5. /\ ~Unsent(r)' /\ ~Unwritten(r)'
      /\ \A q \in Runs \ {r} : (Unsent(q)' <=> Unsent(q)) /\ (Unwritten(q)' <=> Unwritten(q))
  BY <1>2, RequestMoves DEF Unsent, Unwritten
<1>6. \A v \in Workers, q \in Runs : Held(v, q)' <=> Held(v, q)
  BY <1>1 DEF Held
<1>7. /\ jobs' \in Seq(Runs)
      /\ \A i, j \in DOMAIN jobs' : jobs'[i] = jobs'[j] => i = j
      /\ \A q \in Runs \ {r} : OnQueue(q)' <=> OnQueue(q)
  <2>1. /\ jobs \in Seq(Runs) /\ \A i \in DOMAIN jobs : jobs[i] # r
        /\ \A i, j \in DOMAIN jobs : jobs[i] = jobs[j] => i = j
    BY <1>4 DEF QueueInv, QueueTypes, OnePlace, Loose, OnQueue
  <2>2. CASE jobs' = jobs
    BY <2>1, <2>2 DEF OnQueue
  <2>3. CASE jobs' = Append(jobs, r)
    BY <2>1, <2>3, SentOnce DEF OnQueue
  <2>4. QED
    BY <1>3, <2>2, <2>3
<1>8. \A q \in Runs \ {r} : Loose(q)' <=> Loose(q)
  BY <1>6, <1>7 DEF Loose
<1>9. QueueTypes'
  BY <1>1, <1>2, <1>7, RequestMoves DEF QueueInv, QueueTypes
<1>10. OnePlace'
  BY <1>4, <1>6, <1>7 DEF QueueInv, OnePlace, Loose
<1>11. NotYetSent'
  BY <1>1, <1>5, <1>8 DEF QueueInv, NotYetSent
<1>12. Taken'
  BY <1>1, <1>4, <1>5, <1>6, <1>7, <1>8 DEF QueueInv, Taken
<1>13. InTime'
  BY <1>1 DEF QueueInv, InTime, Executing
<1>14. QED
  BY <1>9, <1>10, <1>11, <1>12, <1>13 DEF QueueInv

\* A job is taken.
LEMMA PopKeeps ==
  ASSUME QueueInv, NEW w \in Workers, Pop(w)
  PROVE  QueueInv'
<1> DEFINE h == Head(jobs)
           state == [at |-> "read", run |-> h]
<1>1. /\ UNCHANGED <<row, age, request>> /\ Becomes(w, state) /\ jobs' = Tail(jobs)
      /\ worker[w].at = "idle" /\ jobs # <<>>
  BY DEF Pop
<1>2. /\ h \in Runs /\ jobs' \in Seq(Runs) /\ OnQueue(h)
      /\ \A i, j \in DOMAIN jobs' : jobs'[i] = jobs'[j] => i = j
      /\ \A q \in Runs : OnQueue(q)' <=> q # h /\ OnQueue(q)
  <2>1. /\ jobs \in Seq(Runs) /\ jobs # <<>>
        /\ \A i, j \in DOMAIN jobs : jobs[i] = jobs[j] => i = j
    BY <1>1 DEF QueueInv, QueueTypes, OnePlace
  <2>2. /\ h \in Runs /\ Tail(jobs) \in Seq(Runs)
        /\ \E i \in DOMAIN jobs : jobs[i] = h
        /\ \A i, j \in DOMAIN Tail(jobs) : Tail(jobs)[i] = Tail(jobs)[j] => i = j
        /\ \A q : (\E i \in DOMAIN Tail(jobs) : Tail(jobs)[i] = q)
                   <=> q # h /\ \E i \in DOMAIN jobs : jobs[i] = q
    BY <2>1, TakenOnce
  <2>3. QED
    BY <1>1, <2>2 DEF OnQueue
<1>3. /\ DOMAIN worker' = Workers /\ \A v \in Workers : worker'[v].at \in Places
      /\ worker'[w] = state /\ \A v \in Workers \ {w} : worker'[v] = worker[v]
  <2>1. state.at \in Places
    BY DEF Places
  <2>2. QED
    BY <1>1, <2>1, TaskMoves
<1>4. \A v \in Workers, q \in Runs : Held(v, q)' <=> Held(v, q) \/ (v = w /\ q = h)
  BY <1>1, <1>3 DEF Held
<1>5. \A q \in Runs : (Unsent(q)' <=> Unsent(q)) /\ (Unwritten(q)' <=> Unwritten(q))
  BY <1>1 DEF Unsent, Unwritten
<1>6. /\ \A q \in Runs \ {h} : Loose(q)' <=> Loose(q)
      /\ ~Loose(h) /\ \A v \in Workers : ~Held(v, h)
  BY <1>2, <1>4 DEF Loose, QueueInv, OnePlace
<1>7. QueueTypes'
  BY <1>1, <1>2, <1>3 DEF QueueInv, QueueTypes
<1>8. OnePlace'
  <2>1. \A q \in Runs : OnQueue(q)' => \A v \in Workers : ~Held(v, q)'
    BY <1>2, <1>4 DEF QueueInv, OnePlace
  <2>2. \A q \in Runs, u, v \in Workers : Held(u, q)' /\ Held(v, q)' => u = v
    BY <1>4, <1>6 DEF QueueInv, OnePlace
  <2>3. QED
    BY <1>2, <2>1, <2>2 DEF OnePlace
<1>9. NotYetSent'
  BY <1>1, <1>5, <1>6 DEF QueueInv, NotYetSent
<1>10. Taken'
  <2>1. row[h].status # "running" /\ row[h].why # "interrupted"
    BY <1>2, <1>6 DEF QueueInv, Taken
  <2>2. \A q \in Runs \ {h} : \A v \in Workers : Held(v, q)' => Held(v, q) /\ worker'[v] = worker[v]
    BY <1>1, <1>3, <1>4 DEF Held
  <2>3. QED
    BY <1>1, <1>2, <1>5, <1>6, <2>1, <2>2 DEF QueueInv, Taken
<1>11. InTime'
  BY <1>1, <1>3 DEF QueueInv, InTime, Executing
<1>12. QED
  BY <1>7, <1>8, <1>9, <1>10, <1>11 DEF QueueInv

\* A row is marked running: its job is off the queue, and with this task alone.
LEMMA MarkKeeps ==
  ASSUME QueueInv, NEW w \in Workers, NEW r \in Runs, Mark(w, r)
  PROVE  QueueInv'
<1>1. UNCHANGED <<jobs, request>> /\ Held(w, r) /\ worker[w].at = "mark" /\ worker[w].run = r
  BY DEF Mark, Holds, Held
<1>2. ~OnQueue(r) /\ ~Unsent(r) /\ row[r].why # "interrupted"
  BY <1>1 DEF QueueInv, OnePlace, NotYetSent, Taken, Loose
<1>3. \A q \in Runs : /\ (Unsent(q)' <=> Unsent(q)) /\ (Unwritten(q)' <=> Unwritten(q))
                     /\ (OnQueue(q)' <=> OnQueue(q))
  BY <1>1 DEF Unsent, Unwritten, OnQueue
<1>4. CASE MarkRunning(r) /\ age' = [age EXCEPT ![r] = 0] /\ Becomes(w, [at |-> "execute", run |-> r])
  <2> DEFINE state == [at |-> "execute", run |-> r]
             fields == [status |-> "running", why |-> "none", result |-> FALSE]
  <2>1. /\ DOMAIN worker' = Workers /\ \A v \in Workers : worker'[v].at \in Places
        /\ worker'[w] = state /\ \A v \in Workers \ {w} : worker'[v] = worker[v]
    <3>1. state.at \in Places
      BY DEF Places
    <3>2. QED
      BY <1>4, <3>1, TaskMoves
  <2>2. /\ row' \in [Runs -> Row] /\ \A q \in Runs \ {r} : row'[q] = row[q]
        /\ row'[r].why # "interrupted"
    <3>1. fields \in Row /\ fields.why # "interrupted"
      BY DEF Row, Statuses
    <3>2. WriteIfInFlight(r, fields)
      BY <1>4 DEF MarkRunning
    <3>3. QED
      BY <1>2, <3>1, <3>2, RowWritten
  <2>3. age' \in [Runs -> Nat] /\ age'[r] = 0 /\ \A q \in Runs \ {r} : age'[q] = age[q]
    BY <1>4 DEF QueueInv, QueueTypes
  <2>4. \A v \in Workers, q \in Runs : Held(v, q)' <=> Held(v, q)
    BY <1>1, <2>1 DEF Held
  <2>5. \A q \in Runs : Loose(q)' <=> Loose(q)
    BY <1>3, <2>4 DEF Loose
  <2>6. QueueTypes'
    BY <1>1, <2>1, <2>2, <2>3 DEF QueueInv, QueueTypes
  <2>7. OnePlace'
    BY <1>1, <1>3, <2>4 DEF QueueInv, OnePlace
  <2>8. NotYetSent'
    <3>1. ~Unsent(r)' /\ ~Unwritten(r)'
      BY <1>2, <1>3 DEF Unsent
    <3>2. QED
      BY <1>3, <2>2, <2>5, <3>1 DEF QueueInv, NotYetSent
  <2>9. Taken'
    <3>1. \A v \in Workers : Held(v, r)' => v = w
      BY <1>1, <2>4 DEF QueueInv, OnePlace
    <3>2. \A v \in Workers : Held(v, r)' => worker'[v].at \notin {"read", "mark"}
      BY <2>1, <3>1
    <3>3. \A q \in Runs \ {r}, v \in Workers : Held(v, q)' => Held(v, q) /\ worker'[v] = worker[v]
      BY <1>1, <2>1, <2>4 DEF Held
    <3>4. QED
      BY <1>2, <1>3, <2>2, <2>5, <3>2, <3>3 DEF QueueInv, Taken
  <2>10. InTime'
    <3>1. \A v \in Workers \ {w} : (Executing(v)' <=> Executing(v)) /\ worker'[v] = worker[v]
      BY <2>1 DEF Executing
    <3>2. age'[r] <= JobTimeout
      BY <2>3, TimeoutAssumption
    <3>3. QED
      BY <2>1, <2>3, <3>1, <3>2 DEF QueueInv, InTime
  <2>11. QED
    BY <2>6, <2>7, <2>8, <2>9, <2>10 DEF QueueInv
<1>5. CASE Becomes(w, Idle) /\ UNCHANGED <<row, age>>
  <2>1. /\ DOMAIN worker' = Workers /\ \A v \in Workers : worker'[v].at \in Places
        /\ worker'[w] = Idle /\ \A v \in Workers \ {w} : worker'[v] = worker[v]
    <3>1. Idle.at \in Places
      BY DEF Idle, Places
    <3>2. QED
      BY <1>5, <3>1, TaskMoves
  <2>2. QueueTypes'
    BY <1>1, <1>5, <2>1 DEF QueueInv, QueueTypes
  <2>3. \A v \in Workers, q \in Runs :
          /\ Held(v, q)' => Held(v, q)
          /\ Held(v, q)' /\ worker'[v].at \in {"read", "mark"} => worker[v].at \in {"read", "mark"}
    BY <2>1 DEF Held, Idle
  <2>4. \A v \in Workers :
          /\ Executing(v)' => Executing(v) /\ worker'[v].run = worker[v].run
          /\ worker'[v].at = "fail" => worker'[v].why \in {"config", "crashed"}
    BY <2>1 DEF Executing, Idle, QueueInv, InTime
  <2>5. QED
    BY <1>1, <1>3, <1>5, <2>2, <2>3, <2>4, QuietStep
<1>6. QED
  BY <1>4, <1>5 DEF Mark

\* A worker boots and sweeps what no worker can still be running.
LEMMA BootKeeps ==
  ASSUME QueueInv, NEW w \in Workers, Boot(w)
  PROVE  QueueInv'
<1>1. UNCHANGED <<request, age, jobs>> /\ Becomes(w, Idle) /\ worker[w].at = "down"
  BY DEF Boot
<1>2. /\ DOMAIN worker' = Workers /\ \A v \in Workers : worker'[v].at \in Places
      /\ worker'[w] = Idle /\ \A v \in Workers \ {w} : worker'[v] = worker[v]
  <2>1. Idle.at \in Places
    BY DEF Idle, Places
  <2>2. QED
    BY <1>1, <2>1, TaskMoves
<1>3. /\ row' \in [Runs -> Row]
      /\ \A q \in Runs : \/ row'[q] = row[q]
                         \/ (q \in StaleRunning /\ row'[q].status = "failed"
                              /\ row'[q].why = "interrupted")
  <2>1. row \in [Runs -> Row]
    BY DEF QueueInv, QueueTypes
  <2>2. \A q \in Runs :
          /\ [row[q] EXCEPT !.status = "failed", !.why = "interrupted"] \in Row
          /\ [row[q] EXCEPT !.status = "failed", !.why = "interrupted"].status = "failed"
          /\ [row[q] EXCEPT !.status = "failed", !.why = "interrupted"].why = "interrupted"
    BY <2>1 DEF Row, Statuses
  <2>3. QED
    BY <2>1, <2>2 DEF Boot
<1>4. \A q \in StaleRunning : q \in Runs /\ ~Unsent(q) /\ Loose(q)
  <2> SUFFICES ASSUME NEW q \in StaleRunning PROVE q \in Runs /\ ~Unsent(q) /\ Loose(q)
    OBVIOUS
  <2>1. q \in Runs /\ row[q].status = "running" /\ age[q] > StaleAfter
    BY DEF StaleRunning
  <2>2. /\ ~Unsent(q) /\ ~OnQueue(q)
        /\ \A v \in Workers : Held(v, q) => worker[v].at \notin {"read", "mark"}
    BY <2>1 DEF QueueInv, Taken
  <2>3. ASSUME NEW v \in Workers, Held(v, q) PROVE FALSE
    <3>1. Executing(v) /\ worker[v].run = q
      BY <2>2, <2>3 DEF Held, Executing, QueueInv, QueueTypes, Places
    <3>2. age[q] <= JobTimeout
      BY <2>1, <3>1 DEF QueueInv, InTime
    <3>3. QED
      BY <2>1, <3>2, TimeoutAssumption DEF StaleAfter, QueueInv, QueueTypes
  <2>4. QED
    BY <2>1, <2>2, <2>3 DEF Loose
<1>5. \A q \in Runs : /\ (Unsent(q)' <=> Unsent(q)) /\ (Unwritten(q)' <=> Unwritten(q))
                     /\ (OnQueue(q)' <=> OnQueue(q))
  BY <1>1 DEF Unsent, Unwritten, OnQueue
<1>6. /\ \A v \in Workers, q \in Runs : Held(v, q)' <=> Held(v, q)
      /\ \A v \in Workers, q \in Runs : Held(v, q) => worker'[v] = worker[v]
  BY <1>1, <1>2 DEF Held, Idle
<1>7. \A q \in Runs : Loose(q)' <=> Loose(q)
  BY <1>5, <1>6 DEF Loose
<1>8. QueueTypes'
  BY <1>1, <1>2, <1>3 DEF QueueInv, QueueTypes
<1>9. OnePlace'
  BY <1>1, <1>5, <1>6 DEF QueueInv, OnePlace
<1>10. NotYetSent'
  <2>1. \A q \in Runs : Unsent(q) => row'[q] = row[q]
    BY <1>3, <1>4
  <2>2. QED
    BY <1>5, <1>7, <2>1 DEF QueueInv, NotYetSent, Unsent
<1>11. Taken'
  <2> SUFFICES ASSUME NEW q \in Runs
               PROVE /\ row'[q].status = "running" =>
                          /\ ~Unsent(q)' /\ ~OnQueue(q)'
                          /\ \A v \in Workers : Held(v, q)' => worker'[v].at \notin {"read", "mark"}
                     /\ row'[q].why = "interrupted" => ~Unsent(q)' /\ Loose(q)'
    BY DEF Taken
  <2>1. CASE row'[q] = row[q]
    BY <1>5, <1>6, <1>7, <2>1 DEF QueueInv, Taken
  <2>2. CASE q \in StaleRunning /\ row'[q].status = "failed"
    BY <1>4, <1>5, <1>7, <2>2
  <2>3. QED
    BY <1>3, <2>1, <2>2
<1>12. InTime'
  BY <1>1, <1>2 DEF QueueInv, InTime, Executing, Idle
<1>13. QED
  BY <1>8, <1>9, <1>10, <1>11, <1>12 DEF QueueInv

\* Time passes, but a task's deadline does not.
LEMMA TickKeeps ==
  ASSUME QueueInv, Tick
  PROVE  QueueInv'
<1>1. UNCHANGED <<row, request, jobs, worker>>
  BY DEF Tick
<1>2. age' \in [Runs -> Nat] /\ \A q \in Runs : age'[q] \in {age[q], age[q] + 1}
  BY DEF Tick, QueueInv, QueueTypes
<1>3. QueueTypes'
  BY <1>1, <1>2 DEF QueueInv, QueueTypes
<1>4. OnePlace' /\ NotYetSent' /\ Taken'
  BY <1>1 DEF QueueInv, OnePlace, NotYetSent, Taken, Unsent, Unwritten, Held, Loose, OnQueue
<1>5. InTime'
  <2> SUFFICES ASSUME NEW v \in Workers
               PROVE  /\ Executing(v) => \A q \in Runs : worker[v].run = q => age'[q] <= JobTimeout
                      /\ worker[v].at = "fail" => worker[v].why \in {"config", "crashed"}
    BY <1>1 DEF InTime, Executing
  <2>1. ASSUME Executing(v), NEW q \in Runs, worker[v].run = q
        PROVE  age'[q] <= JobTimeout
    <3>1. age[q] \in Nat /\ age[q] < JobTimeout
      BY <2>1 DEF Tick, QueueInv, QueueTypes
    <3>2. QED
      BY <1>2, <3>1, TimeoutAssumption
  <2>2. QED
    BY <2>1 DEF QueueInv, InTime
<1>6. QED
  BY <1>3, <1>4, <1>5 DEF QueueInv

-----------------------------------------------------------------------------
(* The theorems. *)

LEMMA QueueStep == QueueInv /\ [Next]_vars => QueueInv'
<1> SUFFICES ASSUME QueueInv, [Next]_vars PROVE QueueInv'
  OBVIOUS
<1>1. ASSUME NEW r \in Runs, Handler(r) \/ ApiDies(r) PROVE QueueInv'
  BY <1>1, RequestKeeps, CreateKeeps, EnqueueKeeps, UnqueuedKeeps DEF Handler
<1>2. ASSUME NEW w \in Workers, NEW r \in Runs, TaskStep(w, r) \/ RunEngine(w, r) PROVE QueueInv'
  BY <1>2, TaskKeeps, MarkKeeps, VerdictKeeps DEF TaskStep
<1>3. ASSUME NEW w \in Workers, Pop(w) \/ Boot(w) PROVE QueueInv'
  BY <1>3, PopKeeps, BootKeeps
<1>4. ASSUME NEW w \in Workers, WorkerDies(w) PROVE QueueInv'
  BY <1>4, DeathKeeps
<1>5. CASE Tick
  BY <1>5, TickKeeps
<1>6. CASE UNCHANGED vars
  BY <1>6 DEF vars, QueueInv, QueueTypes, OnePlace, NotYetSent, Taken, InTime,
              Unsent, Unwritten, Held, Loose, OnQueue, Executing
<1>7. QED
  BY <1>1, <1>2, <1>3, <1>4, <1>5, <1>6 DEF Next

\* A worker that boots never fails a run that another worker still has: the
\* invariant holds at every step (sweep_interrupted, STALE_AFTER).
THEOREM SweepSparesTheLiving == Spec => []NoLiveRunSwept
<1>1. QueueInv => NoLiveRunSwept
  BY DEF QueueInv, Taken, Loose, Held, NoLiveRunSwept
<1>2. QED
  BY <1>1, InitQueue, QueueStep, PTL DEF Spec

\* No step of a request, a task, a sweep or a crash changes a row that is done
\* or failed (mark_running, finish and fail, each limited to rows in flight).
THEOREM VerdictsStand == Spec => VerdictsAreFinal
<1>1. ASSUME QueueInv, [Next]_vars
      PROVE  \A r \in Runs : row[r].status \in {"done", "failed"} => row'[r] = row[r]
  <2> SUFFICES ASSUME NEW q \in Runs, row[q].status \in {"done", "failed"}
               PROVE  row'[q] = row[q]
    OBVIOUS
  <2>1. row[q].status \notin InFlight /\ ~Unwritten(q)
    BY <1>1 DEF InFlight, QueueInv, NotYetSent
  <2>2. ASSUME NEW r \in Runs, NEW fields, WriteIfInFlight(r, fields) PROVE row'[q] = row[q]
    BY <1>1, <2>1, <2>2, RowWritten
  <2>3. ASSUME NEW r \in Runs, Create(r) PROVE row'[q] = row[q]
    <3>1. r # q
      BY <2>1, <2>3 DEF Create, At, Unwritten
    <3>2. QED
      BY <1>1, <2>3, <3>1 DEF Create, QueueInv, QueueTypes
  <2>4. ASSUME NEW w \in Workers, Boot(w) PROVE row'[q] = row[q]
    BY <2>4 DEF Boot, StaleRunning
  <2>5. ASSUME NEW r \in Runs, Handler(r) \/ ApiDies(r) PROVE row'[q] = row[q]
    BY <2>2, <2>3, <2>5 DEF Handler, Validate, StoreStrategy, AuditStrategy, Enqueue, Unqueued, ApiDies, Fail
  <2>6. ASSUME NEW w \in Workers, NEW r \in Runs, TaskStep(w, r) \/ RunEngine(w, r)
        PROVE  row'[q] = row[q]
    BY <2>2, <2>6 DEF TaskStep, ReadRow, Mark, Cancelled, StoreVerdict, RunEngine, MarkRunning, Finish, Fail
  <2>7. ASSUME NEW w \in Workers, Pop(w) \/ WorkerDies(w) PROVE row'[q] = row[q]
    BY <2>7 DEF Pop, WorkerDies
  <2>8. CASE Tick \/ UNCHANGED vars
    BY <2>8 DEF Tick, vars
  <2>9. QED
    BY <1>1, <2>4, <2>5, <2>6, <2>7, <2>8 DEF Next
<1>2. QueueInv /\ [Next]_vars
        => [\A r \in Runs : row[r].status \in {"done", "failed"} => row'[r] = row[r]]_vars
  BY <1>1
<1>3. QED
  BY <1>2, InitQueue, QueueStep, PTL DEF Spec, VerdictsAreFinal

-----------------------------------------------------------------------------
(* The engine: the records its book is made of. *)

Positions == [qty : Int, avg : Int, realized : Int, fees : Int, last : Int,
              stop : Int, target : Int, hwm : Int]
Fills == [ts : Nat, qty : Nat, intended : Int, price : Int, fee : Int]
OwnPurposes == {"entry", "exit"}
Purposes == OwnPurposes \cup {"stop_loss", "take_profit", "time_exit"}
Levels == {<<>>} \cup (Int \X Int)
Orders == [side : {1, -1}, qty : Nat, limit : Int, levels : Levels, decided : Nat,
           purpose : Purposes, level : Int, fill : Fills]
Books == [pos : Positions, cash : Int, base : Int, pnls : Seq(Int), held : Int,
          orders : Seq(Orders)]

-----------------------------------------------------------------------------
(* Types. *)

\* A price divided by a positive number is a whole one.
LEMMA DivType == \A x \in Int, d \in Nat \ {0} : x \div d \in Int
  OBVIOUS

LEMMA DivNat == \A x \in Nat, d \in Nat \ {0} : x \div d \in Nat
  OBVIOUS

LEMMA ArithTypes ==
  \A x, y \in Int : /\ Abs(x) \in Nat /\ Sign(x) \in {1, -1} /\ Least(x, y) \in Int /\ Most(x, y) \in Int
                    /\ x * y \in Int
  BY DEF Abs, Sign, Least, Most

LEMMA DistanceType == \A x \in Int : Distance(x) \in Int
  <1> SUFFICES ASSUME NEW x \in Int PROVE Distance(x) \in Int
    OBVIOUS
  <1>1. x \div 4 \in Int /\ Unit \in Int /\ Unit \div 2 \in Int
    BY EngineAssumption
  <1>2. QED
    BY <1>1 DEF Distance

LEMMA LevelTypes ==
  \A x \in Int, side \in {1, -1} : InitialStop(x, side) \in Int /\ TakeProfitLevel(x, side) \in Int
  <1> SUFFICES ASSUME NEW x \in Int, NEW side \in {1, -1}
               PROVE  InitialStop(x, side) \in Int /\ TakeProfitLevel(x, side) \in Int
    OBVIOUS
  <1>1. Distance(x) \in Int
    BY DistanceType
  <1>2. x - side * Distance(x) \in Int /\ x + side * Distance(x) \in Int
    BY <1>1
  <1>3. QED
    BY <1>2 DEF InitialStop, TakeProfitLevel, Guarded, None

LEMMA CostTypes ==
  ASSUME NEW side \in {1, -1}, NEW price \in Int, NEW qty \in Nat
  PROVE  Slippage(side, price) \in Int /\ Commission(side, price, qty) \in Int
  <1>1. price \div 8 \in Int
    OBVIOUS
  <1>2. side * (price \div 8) \in Int
    BY <1>1
  <1>3. price * qty \in Int
    OBVIOUS
  <1>4. price * qty + Unit - 1 \in Int /\ Unit \in Nat \ {0}
    BY <1>3, EngineAssumption
  <1>5. (price * qty + Unit - 1) \div Unit \in Int
    BY <1>4, DivType
  <1>6. BrokerTotal(qty) \in Int /\ TafTotal(qty) \in Int
    BY DEF BrokerTotal, TafTotal, Most, Least
  <1>7. QED
    BY <1>2, <1>5, <1>6 DEF Slippage, Commission

\* r is position p after a fill.
Filled(r, p, q, fee) ==
  /\ r \in Positions /\ r.qty = p.qty + q /\ r.fees = p.fees + fee
  /\ p.qty + q = 0 => r.avg = None /\ r.stop = None /\ r.target = None /\ r.hwm = None

LEMMA ApplyFillType ==
  \A p \in Positions, q, price, fee \in Int : Filled(ApplyFill(p, q, price, fee), p, q, fee)
  <1> SUFFICES ASSUME NEW p \in Positions, NEW q \in Int, NEW price \in Int, NEW fee \in Int
               PROVE  Filled(ApplyFill(p, q, price, fee), p, q, fee)
    OBVIOUS
  <1> DEFINE r == p.realized + RealizedBy(p, q, price)
             basis == BasisAfter(p, q, price)
  <1>1. p.qty \in Int /\ p.avg \in Int /\ p.realized \in Int /\ p.fees \in Int
    BY DEF Positions
  <1>2. RealizedBy(p, q, price) \in Int
    <2> DEFINE least == Least(Abs(q), Abs(p.qty))
               sign == Sign(p.qty)
    <2>1. least \in Int /\ sign \in Int
      BY <1>1 DEF Least, Abs, Sign
    <2> HIDE DEF least, sign
    <2>2. price - p.avg \in Int
      BY <1>1
    <2>3. least * (price - p.avg) \in Int
      BY <2>1, <2>2
    <2>4. least * (price - p.avg) * sign \in Int
      BY <2>1, <2>3
    <2>5. QED
      BY <2>4 DEF RealizedBy, least, sign
  <1>3. r \in Int
    BY <1>1, <1>2
  <1>4. basis \in Int
    <2>1. CASE p.qty # 0 /\ Sign(p.qty) = Sign(q)
      <3> DEFINE total == p.avg * Abs(p.qty) + price * Abs(q)
                 size == Abs(p.qty) + Abs(q)
      <3>1. size \in Nat \ {0}
        BY <1>1, <2>1 DEF Abs
      <3>2. Abs(p.qty) \in Int /\ Abs(q) \in Int
        BY <1>1 DEF Abs
      <3>3. p.avg * Abs(p.qty) \in Int /\ price * Abs(q) \in Int
        BY <1>1, <3>2
      <3>4. total \in Int
        BY <3>3
      <3> HIDE DEF total, size
      <3>5. total \div size \in Int
        BY <3>1, <3>4, DivType
      <3>6. QED
        BY <2>1, <3>5 DEF BasisAfter, total, size
    <2>2. CASE ~(p.qty # 0 /\ Sign(p.qty) = Sign(q))
      BY <1>1, <2>2 DEF BasisAfter
    <2>3. QED
      BY <2>1, <2>2
  <1> HIDE DEF r, basis
  <1>5. p.fees + fee \in Int /\ p.qty + q \in Int
    BY <1>1
  <1>6. CASE p.qty + q = 0
    <2>1. ApplyFill(p, q, price, fee)
            = [Flat EXCEPT !.realized = r, !.fees = p.fees + fee, !.last = price]
      BY <1>6 DEF ApplyFill, r
    <2> HIDE DEF r
    <2>2. ApplyFill(p, q, price, fee)
            = [qty |-> 0, avg |-> None, realized |-> r, fees |-> p.fees + fee, last |-> price,
               stop |-> None, target |-> None, hwm |-> None]
      BY <2>1 DEF Flat
    <2>3. QED
      BY <1>3, <1>5, <1>6, <2>2 DEF None, Positions, Filled
  <1>7. CASE p.qty + q # 0
    <2>1. ApplyFill(p, q, price, fee)
            = [p EXCEPT !.qty = @ + q, !.avg = basis, !.realized = r, !.fees = p.fees + fee,
                        !.last = price]
      BY <1>7 DEF ApplyFill, r, basis
    <2>2. QED
      BY <1>3, <1>4, <1>5, <1>7, <2>1 DEF Positions, Filled
  <1>8. QED
    BY <1>6, <1>7

\* Arming sets levels, and only those of a position that is held.
LEMMA ArmedType ==
  ASSUME NEW p \in Positions, NEW o \in Orders
  PROVE  LET r == ArmFromConfig(WithLevels(p, o))
         IN /\ r \in Positions
            /\ r.qty = p.qty /\ r.fees = p.fees /\ r.realized = p.realized
            /\ p.qty = 0 => r = p
  <1> DEFINE w == WithLevels(p, o)
             r == ArmFromConfig(w)
  <1>1. /\ w \in Positions
        /\ w.qty = p.qty /\ w.fees = p.fees /\ w.realized = p.realized
        /\ p.qty = 0 => w = p
    <2>1. CASE o.levels = <<>> \/ p.qty = 0
      BY <2>1 DEF WithLevels
    <2>2. CASE ~(o.levels = <<>> \/ p.qty = 0)
      <3>1. o.levels \in Int \X Int
        BY <2>2 DEF Orders, Levels
      <3>2. o.levels[1] \in Int /\ o.levels[2] \in Int
        BY <3>1
      <3>3. w = [p EXCEPT !.stop = o.levels[1], !.target = o.levels[2]]
        BY <2>2 DEF WithLevels
      <3>4. QED
        BY <2>2, <3>2, <3>3 DEF Positions
    <2>3. QED
      BY <2>1, <2>2
  <1> HIDE DEF w
  <1>2. /\ r \in Positions
        /\ r.qty = w.qty /\ r.fees = w.fees /\ r.realized = w.realized
        /\ w.qty = 0 => r = w
    <2>1. CASE w.qty = 0 \/ stop_type \in {"none", "time"}
      BY <1>1, <2>1 DEF ArmFromConfig
    <2>2. CASE ~(w.qty = 0 \/ stop_type \in {"none", "time"})
      <3> DEFINE stop == IF w.stop = None THEN InitialStop(w.avg, Sign(w.qty)) ELSE w.stop
                 target == IF w.target = None THEN TakeProfitLevel(w.avg, Sign(w.qty)) ELSE w.target
      <3>1. Sign(w.qty) \in {1, -1} /\ w.avg \in Int /\ w.stop \in Int /\ w.target \in Int
        BY <1>1 DEF Positions, Sign
      <3>2. stop \in Int /\ target \in Int
        BY <3>1, LevelTypes
      <3>3. r = [w EXCEPT !.stop = stop, !.target = target]
        BY <2>2 DEF ArmFromConfig
      <3> HIDE DEF stop, target
      <3>4. QED
        BY <1>1, <2>2, <3>2, <3>3 DEF Positions
    <2>3. QED
      BY <2>1, <2>2
  <1> HIDE DEF r
  <1>3. QED
    BY <1>1, <1>2 DEF r, w

-----------------------------------------------------------------------------
(* What an execution does to the book (Execute). *)

\* The fill of order i, if the bar has volume for one.
FillOf(b, i, x, t, intended) ==
  LET o == b.orders[i]
      qty == Least(o.qty, x.cap)
      price == intended + Slippage(o.side, intended)
  IN [ts |-> t, qty |-> qty, intended |-> intended, price |-> price,
      fee |-> Commission(o.side, price, qty)]

\* What Execute does to a book, field by field.
LEMMA ExecuteFacts ==
  ASSUME NEW b \in Books, NEW i \in DOMAIN b.orders, NEW x \in Bars, NEW t \in Nat,
         NEW intended \in Int
  PROVE  LET f == FillOf(b, i, x, t, intended)
             o == b.orders[i]
             r == Execute(b, i, x, t, intended)
             before == b.pos.realized - b.pos.fees
             base == IF b.pos.qty = 0 THEN before ELSE b.base
         IN /\ r \in Books /\ f \in Fills
            /\ f.qty = 0 => r = b
            /\ f.qty # 0 =>
                 /\ r.orders = [b.orders EXCEPT ![i].fill = f]
                 /\ r.cash = b.cash - (f.qty * f.price * o.side + f.fee)
                 /\ r.pos.qty = b.pos.qty + f.qty * o.side
                 /\ r.pos.fees = b.pos.fees + f.fee
                 /\ r.pos.qty = 0 =>
                      /\ r.pos.avg = None /\ r.pos.stop = None /\ r.pos.target = None
                      /\ r.pos.hwm = None /\ r.held = NotHeld /\ r.base = NotHeld
                      /\ r.pnls = Append(b.pnls, r.pos.realized - r.pos.fees - base)
                 /\ r.pos.qty # 0 => r.held >= 0 /\ r.base = base /\ r.pnls = b.pnls
  <1> DEFINE f == FillOf(b, i, x, t, intended)
             o == b.orders[i]
             r == Execute(b, i, x, t, intended)
             before == b.pos.realized - b.pos.fees
             base == IF b.pos.qty = 0 THEN before ELSE b.base
             p == ApplyFill(b.pos, f.qty * o.side, f.price, f.fee)
             armed == ArmFromConfig(WithLevels(p, o))
  <1>1. /\ o \in Orders /\ o.side \in {1, -1} /\ o.qty \in Nat /\ x.cap \in Nat /\ b.pos \in Positions
        /\ b.cash \in Int /\ b.base \in Int /\ b.held \in Int /\ b.pnls \in Seq(Int)
        /\ b.orders \in Seq(Orders)
    <2>1. o \in Orders
      BY DEF Books
    <2>2. QED
      BY <2>1, BarsAssumption DEF Books, Orders
  <1>2. Least(o.qty, x.cap) \in Nat
    BY <1>1 DEF Least
  <1>3. Slippage(o.side, intended) \in Int
    BY <1>1, CostTypes
  <1>4. f \in Fills
    <2> DEFINE qty == Least(o.qty, x.cap)
               price == intended + Slippage(o.side, intended)
    <2>1. qty \in Nat /\ price \in Int /\ o.side \in {1, -1}
      BY <1>1, <1>2, <1>3
    <2>2. f = [ts |-> t, qty |-> qty, intended |-> intended, price |-> price,
               fee |-> Commission(o.side, price, qty)]
      BY DEF FillOf
    <2> HIDE DEF qty, price, f, o
    <2>3. Commission(o.side, price, qty) \in Int
      BY <2>1, CostTypes
    <2>4. QED
      BY <2>1, <2>2, <2>3 DEF Fills
  <1>5. f.qty = Least(o.qty, x.cap) /\ f.price = intended + Slippage(o.side, intended)
        /\ f.fee = Commission(o.side, f.price, f.qty) /\ f.ts = t /\ f.intended = intended
    BY DEF FillOf
  <1>6. f.qty * o.side \in Int /\ f.price \in Int /\ f.fee \in Int /\ f.qty \in Nat
    <2> HIDE DEF f, o
    <2>1. f.qty \in Nat /\ f.price \in Int /\ f.fee \in Int /\ o.side \in Int
      BY <1>1, <1>4 DEF Fills
    <2>2. QED
      BY <2>1
  <1>7. r = IF f.qty = 0 THEN b
            ELSE [pos |-> armed,
                  cash |-> b.cash - (f.qty * f.price * o.side + f.fee),
                  base |-> IF p.qty = 0 THEN NotHeld ELSE base,
                  pnls |-> IF p.qty = 0 THEN Append(b.pnls, p.realized - p.fees - base) ELSE b.pnls,
                  held |-> IF p.qty = 0 THEN NotHeld ELSE Most(b.held, 0),
                  orders |-> [b.orders EXCEPT ![i].fill = f]]
    BY DEF Execute, FillOf
  <1> HIDE DEF f, r, o
  <1>8. /\ p \in Positions /\ p.qty = b.pos.qty + f.qty * o.side /\ p.fees = b.pos.fees + f.fee
        /\ p.qty = 0 => p.avg = None /\ p.stop = None /\ p.target = None /\ p.hwm = None
    <2> DEFINE moved == f.qty * o.side
    <2>1. moved \in Int /\ p = ApplyFill(b.pos, moved, f.price, f.fee)
      BY <1>6
    <2> HIDE DEF moved, p
    <2>2. /\ p \in Positions /\ p.qty = b.pos.qty + moved /\ p.fees = b.pos.fees + f.fee
          /\ b.pos.qty + moved = 0
               => p.avg = None /\ p.stop = None /\ p.target = None /\ p.hwm = None
      <3>1. Filled(ApplyFill(b.pos, moved, f.price, f.fee), b.pos, moved, f.fee)
        BY <1>1, <1>6, <2>1, ApplyFillType, Zenon
      <3>2. QED
        BY <2>1, <3>1 DEF Filled
    <2>3. QED
      BY <2>2 DEF moved
  <1> HIDE DEF p
  <1>9. /\ armed \in Positions
        /\ armed.qty = p.qty /\ armed.fees = p.fees /\ armed.realized = p.realized
        /\ p.qty = 0 => armed = p
    BY <1>1, <1>8, ArmedType
  <1> HIDE DEF armed
  <1>10. base \in Int /\ p.realized - p.fees - base \in Int
    <2>1. /\ b.pos.qty \in Int /\ b.pos.realized \in Int /\ b.pos.fees \in Int
          /\ p.realized \in Int /\ p.fees \in Int
      BY <1>1, <1>8 DEF Positions
    <2>2. base \in Int
      BY <1>1, <2>1
    <2> HIDE DEF base
    <2>3. QED
      BY <2>1, <2>2
  <1> HIDE DEF base
  <1>11. [b.orders EXCEPT ![i].fill = f] \in Seq(Orders)
    <2>1. [o EXCEPT !.fill = f] \in Orders
      BY <1>1, <1>4 DEF Orders
    <2>2. [b.orders EXCEPT ![i].fill = f] = [b.orders EXCEPT ![i] = [o EXCEPT !.fill = f]]
      BY <1>1 DEF o
    <2>3. [b.orders EXCEPT ![i] = [o EXCEPT !.fill = f]] \in Seq(Orders)
      BY <1>1, <2>1, ExceptSeq
    <2>4. QED
      BY <2>2, <2>3
  <1>12. b.cash - (f.qty * f.price * o.side + f.fee) \in Int
    <2> DEFINE worth == f.qty * f.price * o.side
    <2>1. f.qty * f.price \in Int /\ o.side \in Int /\ b.cash \in Int /\ f.fee \in Int
      BY <1>1, <1>6
    <2>2. worth \in Int
      BY <2>1
    <2> HIDE DEF worth
    <2>3. b.cash - (worth + f.fee) \in Int
      BY <2>1, <2>2
    <2>4. QED
      BY <2>3 DEF worth
  <1>13. CASE f.qty = 0
    BY <1>4, <1>7, <1>13 DEF f, o, r
  <1>14. CASE f.qty # 0 /\ p.qty = 0
    <2>1. r = [pos |-> armed, cash |-> b.cash - (f.qty * f.price * o.side + f.fee), base |-> NotHeld,
               pnls |-> Append(b.pnls, p.realized - p.fees - base), held |-> NotHeld,
               orders |-> [b.orders EXCEPT ![i].fill = f]]
      BY <1>7, <1>14
    <2>2. Append(b.pnls, p.realized - p.fees - base) \in Seq(Int) /\ NotHeld \in Int
      BY <1>1, <1>10 DEF NotHeld
    <2>3. r \in Books
      BY <1>9, <1>11, <1>12, <2>1, <2>2 DEF Books
    <2>4. QED
      BY <1>4, <1>8, <1>9, <1>14, <2>1, <2>3 DEF f, o, r, base
  <1>15. CASE f.qty # 0 /\ p.qty # 0
    <2>1. r = [pos |-> armed, cash |-> b.cash - (f.qty * f.price * o.side + f.fee), base |-> base,
               pnls |-> b.pnls, held |-> Most(b.held, 0),
               orders |-> [b.orders EXCEPT ![i].fill = f]]
      BY <1>7, <1>15
    <2>2. Most(b.held, 0) \in Int /\ Most(b.held, 0) >= 0
      BY <1>1 DEF Most
    <2>3. r \in Books
      BY <1>1, <1>9, <1>10, <1>11, <1>12, <2>1, <2>2 DEF Books
    <2>4. QED
      BY <1>4, <1>8, <1>9, <1>15, <2>1, <2>2, <2>3 DEF f, o, r, base
  <1>16. QED
    BY <1>13, <1>14, <1>15

-----------------------------------------------------------------------------
(* What the orders of a book have moved, paid and cost. *)

Flow(o) == -(o.fill.qty * o.fill.price * o.side + o.fill.fee)
Flows(s) == [i \in DOMAIN s |-> Flow(s[i])]
Moves(s) == [i \in DOMAIN s |-> s[i].fill.qty * s[i].side]
Fees(s) == [i \in DOMAIN s |-> s[i].fill.fee]

LEMMA OrderTypes ==
  ASSUME NEW o \in Orders
  PROVE  /\ Flow(o) \in Int /\ o.fill.qty * o.side \in Int /\ o.fill.fee \in Int
         /\ o.fill.qty * o.fill.price * o.side \in Int
         /\ o.fill = NoFill => Flow(o) = 0 /\ o.fill.qty * o.side = 0 /\ o.fill.fee = 0
  <1>1. /\ o.fill.qty \in Int /\ o.fill.price \in Int /\ o.fill.fee \in Int /\ o.side \in {1, -1}
    BY DEF Orders, Fills
  <1>2. o.fill.qty * o.side \in Int /\ o.fill.qty * o.fill.price \in Int
    BY <1>1
  <1>3. o.fill.qty * o.fill.price * o.side \in Int
    BY <1>1, <1>2
  <1>4. ASSUME o.fill = NoFill PROVE Flow(o) = 0 /\ o.fill.qty * o.side = 0 /\ o.fill.fee = 0
    BY <1>1, <1>4 DEF Flow, NoFill
  <1>5. QED
    BY <1>1, <1>2, <1>3, <1>4 DEF Flow

LEMMA SeqSums ==
  ASSUME NEW s \in Seq(Orders)
  PROVE  /\ IsFiniteSet(DOMAIN s) /\ DOMAIN s = 1..Len(s) /\ Len(s) \in Nat
         /\ \A i \in DOMAIN s : s[i] \in Orders
         /\ Ints(Flows(s), DOMAIN s) /\ Ints(Moves(s), DOMAIN s) /\ Ints(Fees(s), DOMAIN s)
  <1>1. DOMAIN s = 1..Len(s) /\ Len(s) \in Nat
    OBVIOUS
  <1>2. IsFiniteSet(DOMAIN s)
    BY <1>1, FS_Interval
  <1>3. \A i \in DOMAIN s : s[i] \in Orders
    OBVIOUS
  <1>4. QED
    BY <1>1, <1>2, <1>3, OrderTypes DEF Ints, Flows, Moves, Fees

\* The sum over one more position.
LEMMA SumExtend ==
  ASSUME NEW n \in Nat, NEW s \in [1..n -> Int], NEW u \in [1..(n + 1) -> Int],
         \A i \in 1..n : u[i] = s[i]
  PROVE  SumOf(u) = SumOf(s) + u[n + 1] /\ SumOf(s) \in Int
  <1> DEFINE S == 1..n
             x == n + 1
  <1>1. 1..(n + 1) = S \cup {x} /\ x \notin S
    OBVIOUS
  <1>2. IsFiniteSet(S)
    BY FS_Interval
  <1>3. DOMAIN s = S /\ DOMAIN u = S \cup {x} /\ \A i \in S : u[i] = s[i] /\ s[i] \in Int
    BY <1>1
  <1>4. u[x] \in Int
    OBVIOUS
  <1> HIDE DEF S, x
  <1>5. Ints(s, S) /\ Ints(u, S \cup {x})
    BY <1>3, <1>4 DEF Ints
  <1>6. SumFunctionOnSet(u, S \cup {x}) = u[x] + SumFunctionOnSet(u, S)
    BY <1>1, <1>2, <1>5, SumInsert
  <1>7. SumFunctionOnSet(s, S) = SumFunctionOnSet(u, S) /\ SumFunctionOnSet(s, S) \in Int
    BY <1>2, <1>3, <1>5, SumCongruent, SumType
  <1>8. QED
    BY <1>3, <1>4, <1>6, <1>7 DEF SumOf, x

\* The sum of a sequence with one more number.
LEMMA SumAppend ==
  ASSUME NEW s \in Seq(Int), NEW x \in Int
  PROVE  SumOf(Append(s, x)) = SumOf(s) + x /\ SumOf(s) \in Int
  <1> DEFINE n == Len(s)
             u == Append(s, x)
  <1>1. /\ n \in Nat /\ s \in [1..n -> Int] /\ u \in [1..(n + 1) -> Int]
        /\ u[n + 1] = x /\ \A i \in 1..n : u[i] = s[i]
    <2>1. u \in Seq(Int) /\ Len(u) = n + 1 /\ n \in Nat
          /\ u[n + 1] = x /\ \A i \in 1..n : u[i] = s[i]
      OBVIOUS
    <2> HIDE DEF u
    <2>2. s \in [1..n -> Int] /\ u \in [1..Len(u) -> Int]
      BY <2>1, LenProperties
    <2>3. QED
      BY <2>1, <2>2
  <1> HIDE DEF u, n
  <1>2. SumOf(u) = SumOf(s) + u[n + 1] /\ SumOf(s) \in Int
    BY <1>1, SumExtend
  <1>3. QED
    BY <1>1, <1>2 DEF u

LEMMA SumOfEmpty == SumOf(<<>>) = 0
  <1>1. DOMAIN <<>> = {}
    OBVIOUS
  <1>2. QED
    BY <1>1, SumOfNone DEF SumOf

\* An order that waits has moved nothing.
LEMMA SumsOfWaiting ==
  ASSUME NEW s \in Seq(Orders), NEW o \in Orders, o.fill = NoFill
  PROVE  LET u == Append(s, o) IN
         /\ u \in Seq(Orders) /\ SumOf(Flows(u)) = SumOf(Flows(s))
         /\ SumOf(Moves(u)) = SumOf(Moves(s)) /\ SumOf(Fees(u)) = SumOf(Fees(s))
  <1> DEFINE n == Len(s)
             u == Append(s, o)
  <1>1. /\ n \in Nat /\ DOMAIN s = 1..n /\ DOMAIN u = 1..(n + 1) /\ u \in Seq(Orders)
        /\ u[n + 1] = o /\ \A i \in 1..n : s[i] \in Orders /\ u[i] = s[i]
    OBVIOUS
  <1> HIDE DEF u
  <1>2. Flow(o) = 0 /\ o.fill.qty * o.side = 0 /\ o.fill.fee = 0
    BY OrderTypes
  <1>3. /\ Flows(s) \in [1..n -> Int] /\ Moves(s) \in [1..n -> Int] /\ Fees(s) \in [1..n -> Int]
    BY <1>1, OrderTypes DEF Flows, Moves, Fees
  <1>4. \A i \in 1..(n + 1) : u[i] \in Orders
    BY <1>1
  <1>5. /\ Flows(u) \in [1..(n + 1) -> Int] /\ Moves(u) \in [1..(n + 1) -> Int]
        /\ Fees(u) \in [1..(n + 1) -> Int]
    BY <1>1, <1>4, OrderTypes DEF Flows, Moves, Fees
  <1>6. /\ \A i \in 1..n : Flows(u)[i] = Flows(s)[i] /\ Moves(u)[i] = Moves(s)[i] /\ Fees(u)[i] = Fees(s)[i]
        /\ Flows(u)[n + 1] = 0 /\ Moves(u)[n + 1] = 0 /\ Fees(u)[n + 1] = 0
    BY <1>1, <1>2 DEF Flows, Moves, Fees
  <1> HIDE DEF n
  <1>7. /\ SumOf(Flows(u)) = SumOf(Flows(s)) + 0 /\ SumOf(Flows(s)) \in Int
        /\ SumOf(Moves(u)) = SumOf(Moves(s)) + 0 /\ SumOf(Moves(s)) \in Int
        /\ SumOf(Fees(u)) = SumOf(Fees(s)) + 0 /\ SumOf(Fees(s)) \in Int
    BY <1>1, <1>3, <1>5, <1>6, SumExtend
  <1>8. QED
    BY <1>1, <1>7 DEF u

\* A waiting order that is filled adds its fill.
LEMMA SumsOfFilled ==
  ASSUME NEW s \in Seq(Orders), NEW i \in DOMAIN s, s[i].fill = NoFill, NEW f \in Fills
  PROVE  LET u == [s EXCEPT ![i].fill = f] IN
         /\ u \in Seq(Orders)
         /\ SumOf(Flows(u)) = SumOf(Flows(s)) - (f.qty * f.price * s[i].side + f.fee)
         /\ SumOf(Moves(u)) = SumOf(Moves(s)) + f.qty * s[i].side
         /\ SumOf(Fees(u)) = SumOf(Fees(s)) + f.fee
  <1> DEFINE o == [s[i] EXCEPT !.fill = f]
             u == [s EXCEPT ![i] = o]
  <1>0. s[i] \in Orders
    OBVIOUS
  <1>1. s[i] \in Orders /\ o \in Orders /\ o.fill = f /\ o.side = s[i].side
    BY <1>0 DEF Orders
  <1>2. u = [s EXCEPT ![i].fill = f]
    OBVIOUS
  <1> HIDE DEF o
  <1>3. u \in Seq(Orders) /\ DOMAIN u = DOMAIN s /\ u[i] = o /\ \A j \in DOMAIN s \ {i} : u[j] = s[j]
    BY <1>1, ExceptSeq
  <1> HIDE DEF u
  <1>4. /\ IsFiniteSet(DOMAIN s)
        /\ Ints(Flows(s), DOMAIN s) /\ Ints(Moves(s), DOMAIN s) /\ Ints(Fees(s), DOMAIN s)
        /\ Ints(Flows(u), DOMAIN s) /\ Ints(Moves(u), DOMAIN s) /\ Ints(Fees(u), DOMAIN s)
        /\ DOMAIN Flows(s) = DOMAIN s /\ DOMAIN Moves(s) = DOMAIN s /\ DOMAIN Fees(s) = DOMAIN s
        /\ DOMAIN Flows(u) = DOMAIN s /\ DOMAIN Moves(u) = DOMAIN s /\ DOMAIN Fees(u) = DOMAIN s
    BY <1>3, SeqSums DEF Flows, Moves, Fees
  <1>5. /\ Flows(s)[i] = 0 /\ Moves(s)[i] = 0 /\ Fees(s)[i] = 0
        /\ Flows(u)[i] = Flow(o) /\ Moves(u)[i] = f.qty * s[i].side /\ Fees(u)[i] = f.fee
        /\ Flow(o) = -(f.qty * f.price * s[i].side + f.fee)
    BY <1>1, <1>3, OrderTypes DEF Flows, Moves, Fees, Flow
  <1>6. \A j \in DOMAIN s \ {i} : /\ Flows(u)[j] = Flows(s)[j] /\ Moves(u)[j] = Moves(s)[j]
                                  /\ Fees(u)[j] = Fees(s)[j]
    BY <1>3 DEF Flows, Moves, Fees
  <1>7. /\ SumOf(Flows(u)) = SumOf(Flows(s)) + (Flow(o) - 0)
        /\ SumOf(Moves(u)) = SumOf(Moves(s)) + (f.qty * s[i].side - 0)
        /\ SumOf(Fees(u)) = SumOf(Fees(s)) + (f.fee - 0)
    BY <1>4, <1>5, <1>6, SumOneChanged DEF SumOf
  <1>8. /\ SumOf(Flows(s)) \in Int /\ SumOf(Moves(s)) \in Int /\ SumOf(Fees(s)) \in Int
    BY <1>4, SumType DEF SumOf
  <1>9. /\ f.qty * f.price * s[i].side \in Int /\ f.fee \in Int /\ f.qty * s[i].side \in Int
    BY <1>1, OrderTypes
  <1>10. QED
    BY <1>2, <1>3, <1>5, <1>7, <1>8, <1>9

-----------------------------------------------------------------------------
(* A book at instant t, and the fills of a bar. *)

\* Cash, position and fees are what the orders made of them.
Ledger(b) ==
  /\ b.cash = Start + SumOf(Flows(b.orders))
  /\ b.pos.qty = SumOf(Moves(b.orders))
  /\ b.pos.fees = SumOf(Fees(b.orders))

\* Completed trades sum to what was realized when the book was last flat.
Trips(b) ==
  SumOf(b.pnls) = IF b.pos.qty = 0 THEN b.pos.realized - b.pos.fees ELSE b.base

\* A book is flat in all its parts, or held.
FlatOrHeld(b) ==
  IF b.pos.qty = 0
  THEN /\ b.pos.avg = None /\ b.pos.stop = None /\ b.pos.target = None /\ b.pos.hwm = None
       /\ b.held = NotHeld /\ b.base = NotHeld
  ELSE b.held >= 0

\* An order waits, or it has a fill of some instant so far.
Stamped(b, t) ==
  \A i \in DOMAIN b.orders :
    LET f == b.orders[i].fill IN f = NoFill \/ (f.qty > 0 /\ f.ts > 0 /\ f.ts <= t)

BookOK(b, t) == b \in Books /\ Ledger(b) /\ Trips(b) /\ FlatOrHeld(b) /\ Stamped(b, t)

\* A fill of order o at this price on bar x of instant t is an honest one.
HonestFill(o, f, x, t) ==
  /\ o.purpose \in OwnPurposes => o.decided < t
  /\ x.low <= f.intended /\ f.intended <= x.high
  /\ o.purpose = "stop_loss" => o.side * (f.price - o.level) >= 0

HonestAt(b, x, t) ==
  \A i \in DOMAIN b.orders : b.orders[i].fill.ts = t => HonestFill(b.orders[i], b.orders[i].fill, x, t)

\* Orders of a book that others' fills leave as they are.
SameOrders(b, r, i) ==
  /\ DOMAIN r.orders = DOMAIN b.orders
  /\ \A j \in DOMAIN b.orders :
       /\ r.orders[j].purpose = b.orders[j].purpose /\ r.orders[j].decided = b.orders[j].decided
       /\ j # i => r.orders[j] = b.orders[j]

\* An execution keeps the book in order.
LEMMA ExecuteKeeps ==
  ASSUME NEW t \in Nat \ {0}, NEW b, BookOK(b, t), NEW i \in DOMAIN b.orders,
         b.orders[i].fill = NoFill, NEW x \in Bars, NEW intended \in Int, HonestAt(b, x, t),
         HonestFill(b.orders[i], FillOf(b, i, x, t, intended), x, t)
  PROVE  LET r == Execute(b, i, x, t, intended)
         IN BookOK(r, t) /\ HonestAt(r, x, t) /\ SameOrders(b, r, i)
  <1> DEFINE f == FillOf(b, i, x, t, intended)
             o == b.orders[i]
             r == Execute(b, i, x, t, intended)
             before == b.pos.realized - b.pos.fees
             base == IF b.pos.qty = 0 THEN before ELSE b.base
  <1>1. b \in Books
    BY DEF BookOK
  <1>2. /\ r \in Books /\ f \in Fills
        /\ f.qty = 0 => r = b
        /\ f.qty # 0 =>
             /\ r.orders = [b.orders EXCEPT ![i].fill = f]
             /\ r.cash = b.cash - (f.qty * f.price * o.side + f.fee)
             /\ r.pos.qty = b.pos.qty + f.qty * o.side
             /\ r.pos.fees = b.pos.fees + f.fee
             /\ r.pos.qty = 0 =>
                  /\ r.pos.avg = None /\ r.pos.stop = None /\ r.pos.target = None
                  /\ r.pos.hwm = None /\ r.held = NotHeld /\ r.base = NotHeld
                  /\ r.pnls = Append(b.pnls, r.pos.realized - r.pos.fees - base)
             /\ r.pos.qty # 0 => r.held >= 0 /\ r.base = base /\ r.pnls = b.pnls
    BY <1>1, ExecuteFacts
  <1>3. f.ts = t /\ f.intended = intended /\ HonestFill(o, f, x, t)
    BY DEF FillOf
  <1> HIDE DEF f, r
  <1>4. CASE f.qty = 0
    BY <1>2, <1>4 DEF SameOrders, r
  <1>5. CASE f.qty # 0
    <2>1. /\ b.orders \in Seq(Orders) /\ r.orders \in Seq(Orders) /\ b.pnls \in Seq(Int)
          /\ b.cash \in Int /\ b.base \in Int /\ b.pos \in Positions /\ r.pos \in Positions
      BY <1>1, <1>2 DEF Books
    <2>2. /\ DOMAIN r.orders = DOMAIN b.orders
          /\ \A j \in DOMAIN b.orders : j # i => r.orders[j] = b.orders[j]
          /\ r.orders[i] = [o EXCEPT !.fill = f] /\ o \in Orders
      <3> DEFINE s == b.orders
                 u == r.orders
      <3>1. s \in Seq(Orders) /\ i \in DOMAIN s /\ u = [s EXCEPT ![i].fill = f] /\ o = s[i]
        BY <1>2, <1>5, <2>1
      <3> HIDE DEF s, u, o
      <3>2. /\ DOMAIN u = DOMAIN s /\ (\A j \in DOMAIN s : j # i => u[j] = s[j])
            /\ u[i] = [o EXCEPT !.fill = f] /\ o \in Orders
        BY <3>1
      <3>3. QED
        BY <3>2 DEF s, u
    <2>3. /\ r.orders[i].fill = f /\ r.orders[i].side = o.side /\ r.orders[i].purpose = o.purpose
          /\ r.orders[i].decided = o.decided /\ r.orders[i].level = o.level
      <3> HIDE DEF o
      <3>1. QED
        BY <2>2 DEF Orders
    <2>4. SameOrders(b, r, i)
      BY <2>2, <2>3 DEF SameOrders
    <2>5. f.qty > 0 /\ f.ts > 0 /\ f.ts <= t
      BY <1>2, <1>3, <1>5 DEF Fills
    <2>6. Stamped(r, t)
      BY <2>2, <2>3, <2>5 DEF Stamped, BookOK
    <2>7. HonestAt(r, x, t)
      BY <1>3, <2>2, <2>3 DEF HonestAt, HonestFill
    <2>8. Ledger(r)
      <3>1. /\ SumOf(Flows(r.orders)) = SumOf(Flows(b.orders)) - (f.qty * f.price * o.side + f.fee)
            /\ SumOf(Moves(r.orders)) = SumOf(Moves(b.orders)) + f.qty * o.side
            /\ SumOf(Fees(r.orders)) = SumOf(Fees(b.orders)) + f.fee
        <4> DEFINE s == b.orders
                   u == r.orders
        <4>1. /\ s \in Seq(Orders) /\ i \in DOMAIN s /\ u = [s EXCEPT ![i].fill = f] /\ o = s[i]
              /\ s[i].fill = NoFill /\ f \in Fills
          BY <1>2, <1>5, <2>1
        <4> HIDE DEF s, u, o
        <4>2. /\ SumOf(Flows(u)) = SumOf(Flows(s)) - (f.qty * f.price * s[i].side + f.fee)
              /\ SumOf(Moves(u)) = SumOf(Moves(s)) + f.qty * s[i].side
              /\ SumOf(Fees(u)) = SumOf(Fees(s)) + f.fee
          BY <4>1, SumsOfFilled
        <4>3. QED
          BY <4>1, <4>2 DEF s, u
      <3>2. /\ SumOf(Flows(b.orders)) \in Int /\ SumOf(Moves(b.orders)) \in Int
            /\ SumOf(Fees(b.orders)) \in Int
        BY <2>1, SeqSums, SumType DEF SumOf, Flows, Moves, Fees
      <3>3. f.qty * f.price * o.side \in Int /\ f.fee \in Int /\ f.qty * o.side \in Int
        <4>1. r.orders[i] \in Orders
          BY <2>1, <2>2
        <4>2. QED
          BY <2>3, <4>1, OrderTypes
      <3>4. /\ b.cash = Start + SumOf(Flows(b.orders)) /\ b.pos.qty = SumOf(Moves(b.orders))
            /\ b.pos.fees = SumOf(Fees(b.orders)) /\ Start \in Int
        BY EngineAssumption DEF BookOK, Ledger, Start
      <3>5. /\ r.cash = b.cash - (f.qty * f.price * o.side + f.fee)
            /\ r.pos.qty = b.pos.qty + f.qty * o.side
            /\ r.pos.fees = b.pos.fees + f.fee
        BY <1>2, <1>5
      <3> HIDE DEF o
      <3>6. QED
        BY <3>1, <3>2, <3>3, <3>4, <3>5 DEF Ledger
    <2>9. FlatOrHeld(r)
      BY <1>2, <1>5 DEF FlatOrHeld
    <2>10. Trips(r)
      <3>1. SumOf(b.pnls) = base /\ base \in Int
        <4>1. SumOf(b.pnls) = base
          BY Zenon DEF BookOK, Trips
        <4>2. b.pos.realized - b.pos.fees \in Int
          BY <2>1 DEF Positions
        <4>3. QED
          BY <2>1, <4>1, <4>2, Zenon
      <3>2. r.pos.realized \in Int /\ r.pos.fees \in Int
        BY <2>1 DEF Positions
      <3> HIDE DEF base
      <3>3. CASE r.pos.qty = 0
        <4>1. r.pnls = Append(b.pnls, r.pos.realized - r.pos.fees - base)
          BY <1>2, <1>5, <3>3
        <4>2. SumOf(r.pnls) = SumOf(b.pnls) + (r.pos.realized - r.pos.fees - base)
          <5> DEFINE gain == r.pos.realized - r.pos.fees - base
                     pnls == b.pnls
          <5>1. gain \in Int /\ pnls \in Seq(Int) /\ r.pnls = Append(pnls, gain)
            BY <2>1, <3>1, <3>2, <4>1
          <5> HIDE DEF gain, pnls
          <5>2. SumOf(r.pnls) = SumOf(pnls) + gain
            BY <5>1, SumAppend
          <5>3. QED
            BY <5>2 DEF gain, pnls
        <4>3. QED
          BY <3>1, <3>2, <3>3, <4>2 DEF Trips
      <3>4. CASE r.pos.qty # 0
        BY <1>2, <1>5, <3>1, <3>4 DEF Trips
      <3>5. QED
        BY <3>3, <3>4
    <2>11. QED
      BY <1>2, <2>4, <2>6, <2>7, <2>8, <2>9, <2>10 DEF BookOK, r
  <1>6. QED
    BY <1>4, <1>5

\* All orders are the strategy's own.
Plain(b) == \A i \in DOMAIN b.orders : b.orders[i].purpose \in OwnPurposes

\* Every order of b is in r as it was.
KeepsOrders(b, r) ==
  DOMAIN b.orders \subseteq DOMAIN r.orders /\ \A j \in DOMAIN b.orders : r.orders[j] = b.orders[j]

\* A position whose levels or last price change is the same position.
LEMMA PositionKeeps ==
  ASSUME NEW t \in Nat, NEW b, BookOK(b, t), NEW p \in Positions,
         p.qty = b.pos.qty, p.fees = b.pos.fees, p.realized = b.pos.realized,
         p.qty = 0 => /\ p.avg = b.pos.avg /\ p.stop = b.pos.stop /\ p.target = b.pos.target
                      /\ p.hwm = b.pos.hwm
  PROVE  LET r == [b EXCEPT !.pos = p] IN BookOK(r, t) /\ r.pos = p /\ r.orders = b.orders /\ r.cash = b.cash
  <1> DEFINE r == [b EXCEPT !.pos = p]
  <1>1. /\ r \in Books /\ r.pos = p /\ r.orders = b.orders /\ r.cash = b.cash /\ r.base = b.base
        /\ r.pnls = b.pnls /\ r.held = b.held
    BY DEF BookOK, Books
  <1> HIDE DEF r
  <1>2. Ledger(r)
    BY <1>1 DEF BookOK, Ledger
  <1>3. Trips(r) /\ FlatOrHeld(r) /\ Stamped(r, t)
    BY <1>1 DEF BookOK, Trips, FlatOrHeld, Stamped
  <1>4. QED
    BY <1>1, <1>2, <1>3 DEF BookOK, r

\* A new order waits.
LEMMA WaitingKeeps ==
  ASSUME NEW t \in Nat, NEW b, BookOK(b, t), NEW o \in Orders, o.fill = NoFill
  PROVE  LET r == [b EXCEPT !.orders = Append(@, o)]
             n == Len(b.orders) + 1
         IN /\ BookOK(r, t) /\ r.pos = b.pos /\ KeepsOrders(b, r)
            /\ n \in Nat /\ n \notin DOMAIN b.orders /\ Len(r.orders) = n
            /\ DOMAIN r.orders = DOMAIN b.orders \cup {n} /\ r.orders[n] = o
  <1> DEFINE s == b.orders
             u == Append(s, o)
             n == Len(s) + 1
             r == [b EXCEPT !.orders = u]
  <1>1. s \in Seq(Orders)
    BY DEF BookOK, Books
  <1>2. /\ u \in Seq(Orders) /\ SumOf(Flows(u)) = SumOf(Flows(s))
        /\ SumOf(Moves(u)) = SumOf(Moves(s)) /\ SumOf(Fees(u)) = SumOf(Fees(s))
    BY <1>1, SumsOfWaiting
  <1>3. /\ n \in Nat /\ n \notin DOMAIN s /\ Len(u) = n /\ DOMAIN u = DOMAIN s \cup {n} /\ u[n] = o
        /\ \A j \in DOMAIN s : u[j] = s[j]
    <2> HIDE DEF s
    <2>1. QED
      BY <1>1
  <1> HIDE DEF u, n
  <1>4. /\ r \in Books /\ r.pos = b.pos /\ r.orders = u /\ r.cash = b.cash /\ r.base = b.base
        /\ r.pnls = b.pnls /\ r.held = b.held
    BY <1>2 DEF BookOK, Books
  <1> HIDE DEF r
  <1>5. Ledger(r) /\ Trips(r) /\ FlatOrHeld(r)
    BY <1>2, <1>4 DEF BookOK, Ledger, Trips, FlatOrHeld
  <1>6. Stamped(r, t)
    BY <1>3, <1>4 DEF BookOK, Stamped
  <1>7. KeepsOrders(b, r)
    BY <1>3, <1>4 DEF KeepsOrders
  <1>8. QED
    BY <1>3, <1>4, <1>5, <1>6, <1>7 DEF BookOK, r, u, n

\* A protective exit at an honest price.
LEMMA ExitKeeps ==
  ASSUME NEW t \in Nat \ {0}, NEW b, BookOK(b, t), NEW x \in Bars, HonestAt(b, x, t),
         NEW purpose \in Purposes \ OwnPurposes, NEW level \in Int, NEW intended \in Int,
         x.low <= intended, intended <= x.high,
         NEW side, side = -Sign(b.pos.qty),
         purpose = "stop_loss" => side * ((intended + Slippage(side, intended)) - level) >= 0
  PROVE  LET r == ExitAt(b, x, t, purpose, level, intended)
         IN BookOK(r, t) /\ HonestAt(r, x, t) /\ KeepsOrders(b, r) /\ ~Plain(r)
  <1> DEFINE o == [side |-> -Sign(b.pos.qty), qty |-> Abs(b.pos.qty), limit |-> None, levels |-> <<>>,
                   decided |-> t, purpose |-> purpose, level |-> level, fill |-> NoFill]
             a == [b EXCEPT !.orders = Append(@, o)]
             n == Len(a.orders)
             r == Execute(a, n, x, t, intended)
  <1>1. ExitAt(b, x, t, purpose, level, intended) = r
    BY DEF ExitAt
  <1>2. o \in Orders /\ o.fill = NoFill
    <2>1. b.pos.qty \in Int
      BY DEF BookOK, Books, Positions
    <2>2. -Sign(b.pos.qty) \in {1, -1} /\ Abs(b.pos.qty) \in Nat
      <3> DEFINE q == b.pos.qty
      <3>1. q \in Int
        BY <2>1
      <3> HIDE DEF q
      <3>2. Sign(q) = 1 \/ Sign(q) = -1
        BY DEF Sign
      <3>3. Abs(q) \in Nat
        BY <3>1 DEF Abs
      <3>4. QED
        BY <3>2, <3>3 DEF q
    <2>3. NoFill \in Fills /\ <<>> \in Levels /\ None \in Int
      BY DEF NoFill, Fills, Levels, None
    <2>4. QED
      BY <2>2, <2>3 DEF Orders
  <1>3. o.side = -Sign(b.pos.qty) /\ o.purpose = purpose /\ o.level = level
    OBVIOUS
  <1> HIDE DEF o
  <1>4. /\ BookOK(a, t) /\ KeepsOrders(b, a)
        /\ n \in DOMAIN a.orders /\ n \notin DOMAIN b.orders
        /\ DOMAIN a.orders = DOMAIN b.orders \cup {n} /\ a.orders[n] = o
    <2> DEFINE l == Len(b.orders) + 1
    <2>1. /\ BookOK(a, t) /\ a.pos = b.pos /\ KeepsOrders(b, a)
          /\ l \in Nat /\ l \notin DOMAIN b.orders /\ Len(a.orders) = l
          /\ DOMAIN a.orders = DOMAIN b.orders \cup {l} /\ a.orders[l] = o
      BY <1>2, WaitingKeeps, Zenon
    <2> HIDE DEF a, l
    <2>2. QED
      BY <2>1
  <1> HIDE DEF a, n
  <1>5. HonestAt(a, x, t)
    BY <1>2, <1>4 DEF HonestAt, KeepsOrders, NoFill
  <1>6. HonestFill(a.orders[n], FillOf(a, n, x, t, intended), x, t)
    <2> DEFINE f == FillOf(a, n, x, t, intended)
    <2>1. f.intended = intended /\ f.price = intended + Slippage(o.side, intended)
      BY <1>4 DEF FillOf
    <2> HIDE DEF f
    <2>2. o.purpose \notin OwnPurposes
      BY <1>3
    <2>3. o.purpose = "stop_loss" => o.side * (f.price - o.level) >= 0
      <3> DEFINE price == intended + Slippage(side, intended)
      <3>1. purpose = "stop_loss" => side * (price - level) >= 0
        OBVIOUS
      <3>2. o.side = side /\ f.price = price /\ o.level = level /\ o.purpose = purpose
        BY <1>3, <2>1
      <3> HIDE DEF price
      <3>3. QED
        BY <3>1, <3>2, Zenon
    <2>4. HonestFill(o, f, x, t)
      BY <2>1, <2>2, <2>3 DEF HonestFill
    <2>5. QED
      BY <1>4, <2>4 DEF f
  <1>7. BookOK(r, t) /\ HonestAt(r, x, t) /\ SameOrders(a, r, n)
    BY <1>2, <1>4, <1>5, <1>6, ExecuteKeeps
  <1> HIDE DEF r
  <1>8. KeepsOrders(b, r)
    BY <1>4, <1>7 DEF KeepsOrders, SameOrders
  <1>9. ~Plain(r)
    BY <1>3, <1>4, <1>7 DEF SameOrders, Plain
  <1>10. QED
    BY <1>1, <1>7, <1>8, <1>9

\* The trailing level moves with the position.
LEMMA TrailingType ==
  ASSUME NEW p \in Positions, NEW x \in Bars
  PROVE  LET r == MaintainTrailing(p, x)
         IN /\ r \in Positions /\ r.qty = p.qty /\ r.fees = p.fees /\ r.realized = p.realized
            /\ p.qty = 0 => r = p
  <1> DEFINE r == MaintainTrailing(p, x)
  <1>1. CASE p.qty = 0 \/ stop_type \notin Trailing
    BY <1>1 DEF MaintainTrailing
  <1>2. CASE ~(p.qty = 0 \/ stop_type \notin Trailing)
    <2> DEFINE Further(y, z) == IF p.qty > 0 THEN Most(y, z) ELSE Least(y, z)
               anchor == Further(IF p.hwm = None THEN p.avg ELSE p.hwm,
                                 IF p.qty > 0 THEN x.high ELSE x.low)
               candidate == anchor - Sign(p.qty) * Distance(anchor)
               stop == IF Distance(anchor) = 0 THEN p.stop ELSE Ratcheted(p, candidate)
    <2>1. /\ p.qty \in Int /\ p.hwm \in Int /\ p.avg \in Int /\ p.stop \in Int
          /\ x.high \in Int /\ x.low \in Int
      BY BarsAssumption DEF Positions
    <2>2. anchor \in Int
      BY <2>1 DEF Most, Least
    <2>3. r = [p EXCEPT !.hwm = anchor, !.stop = stop]
      BY <1>2 DEF MaintainTrailing
    <2> HIDE DEF anchor
    <2>4. Distance(anchor) \in Int /\ Sign(p.qty) \in {1, -1}
      BY <2>1, <2>2, DistanceType DEF Sign
    <2>5. candidate \in Int
      BY <2>2, <2>4
    <2> HIDE DEF candidate
    <2>6. stop \in Int
      BY <2>1, <2>5 DEF Ratcheted
    <2> HIDE DEF stop, r
    <2>7. QED
      BY <1>2, <2>2, <2>3, <2>6 DEF Positions, r
  <1>3. QED
    BY <1>1, <1>2

\* Bars print whole prices that are not negative, between the low and the high.
LEMMA BarFacts ==
  \A x \in Bars : /\ x.open \in Nat /\ x.high \in Nat /\ x.low \in Nat /\ x.close \in Nat
                  /\ x.low <= x.open /\ x.open <= x.high /\ x.low <= x.close /\ x.close <= x.high
  BY BarsAssumption

\* A stop that fills at the open or at its level fills no better than the level.
LEMMA StopIsHonest ==
  ASSUME NEW q \in Int, NEW stop \in Int, NEW intended \in Nat,
         IF q > 0 THEN intended <= stop ELSE intended >= stop, q # 0
  PROVE  (-Sign(q)) * ((intended + Slippage(-Sign(q), intended)) - stop) >= 0
  <1> DEFINE d == intended \div 8
  <1>1. d \in Nat
    OBVIOUS
  <1>2. Slippage(-Sign(q), intended) = (-Sign(q)) * d
    BY DEF Slippage
  <1> HIDE DEF d
  <1>3. CASE q > 0
    <2>1. Sign(q) = 1
      BY <1>3 DEF Sign
    <2>2. Slippage(-Sign(q), intended) = -d
      BY <1>1, <1>2, <2>1
    <2>3. QED
      BY <1>1, <1>3, <2>1, <2>2
  <1>4. CASE ~(q > 0)
    <2>1. Sign(q) = -1
      BY <1>4 DEF Sign
    <2>2. Slippage(-Sign(q), intended) = d
      BY <1>1, <1>2, <2>1
    <2>3. QED
      BY <1>1, <1>4, <2>1, <2>2
  <1>5. QED
    BY <1>3, <1>4

\* The stops, the target and the time exit of a bar.
LEMMA CheckStopsKeeps ==
  ASSUME NEW t \in Nat \ {0}, NEW b, BookOK(b, t), NEW x \in Bars, HonestAt(b, x, t)
  PROVE  LET r == CheckStops(b, x, t)
         IN /\ BookOK(r, t) /\ HonestAt(r, x, t) /\ KeepsOrders(b, r)
            /\ Plain(r) => r.orders = b.orders /\ r.cash = b.cash /\ r.pos.qty = b.pos.qty
  <1> DEFINE p == MaintainTrailing(b.pos, x)
             a == [b EXCEPT !.pos = p]
             r == CheckStops(b, x, t)
             worse == IF p.qty > 0 THEN Least(x.open, p.stop) ELSE Most(x.open, p.stop)
             better == IF p.qty > 0 THEN Most(x.open, p.target) ELSE Least(x.open, p.target)
  <1>1. b.pos \in Positions
    BY DEF BookOK, Books
  <1>2. /\ p \in Positions /\ p.qty = b.pos.qty /\ p.fees = b.pos.fees /\ p.realized = b.pos.realized
        /\ p.qty = 0 => p = b.pos
    BY <1>1, TrailingType
  <1>3. r = IF p.qty = 0 THEN a
            ELSE IF ShouldTrigger(p, x) THEN ExitAt(a, x, t, "stop_loss", p.stop, worse)
            ELSE IF TargetHit(p, x) THEN ExitAt(a, x, t, "take_profit", p.target, better)
            ELSE IF TimeExitDue(a) THEN ExitAt(a, x, t, "time_exit", None, x.close)
            ELSE a
    BY DEF CheckStops, BookOK, Books
  <1> HIDE DEF p, r
  <1>4. BookOK(a, t) /\ a.pos = p /\ a.orders = b.orders /\ a.cash = b.cash
    BY <1>2, PositionKeeps
  <1> HIDE DEF a
  <1>5. HonestAt(a, x, t) /\ KeepsOrders(b, a)
    BY <1>4 DEF HonestAt, KeepsOrders
  <1>6. /\ p.qty \in Int /\ p.stop \in Int /\ p.target \in Int
        /\ x.open \in Nat /\ x.high \in Nat /\ x.low \in Nat /\ x.close \in Nat
        /\ x.low <= x.open /\ x.open <= x.high /\ x.low <= x.close /\ x.close <= x.high
    BY <1>2, BarFacts DEF Positions
  <1> DEFINE Kept(y) == /\ BookOK(y, t) /\ HonestAt(y, x, t) /\ KeepsOrders(a, y)
                        /\ Plain(y) => y = a
  <1>7. ASSUME p.qty # 0, ShouldTrigger(p, x) PROVE Kept(ExitAt(a, x, t, "stop_loss", p.stop, worse))
    <2>1. /\ worse \in Nat /\ x.low <= worse /\ worse <= x.high
          /\ IF p.qty > 0 THEN worse <= p.stop ELSE worse >= p.stop
      BY <1>6, <1>7 DEF ShouldTrigger, Least, Most
    <2> HIDE DEF worse
    <2>2. (-Sign(p.qty)) * ((worse + Slippage(-Sign(p.qty), worse)) - p.stop) >= 0
      BY <1>6, <1>7, <2>1, StopIsHonest
    <2>3. "stop_loss" \in Purposes \ OwnPurposes /\ worse \in Int
      BY <2>1 DEF Purposes, OwnPurposes
    <2>4. QED
      BY <1>4, <1>5, <1>6, <2>1, <2>2, <2>3, ExitKeeps
  <1>8. ASSUME p.qty # 0, TargetHit(p, x) PROVE Kept(ExitAt(a, x, t, "take_profit", p.target, better))
    <2>1. /\ better \in Int /\ x.low <= better /\ better <= x.high
      BY <1>6, <1>8 DEF TargetHit, Least, Most
    <2> HIDE DEF better
    <2>2. "take_profit" \in Purposes \ OwnPurposes /\ "take_profit" # "stop_loss"
      BY DEF Purposes, OwnPurposes
    <2>3. QED
      BY <1>4, <1>5, <1>6, <2>1, <2>2, ExitKeeps
  <1>9. Kept(ExitAt(a, x, t, "time_exit", None, x.close))
    <2>1. "time_exit" \in Purposes \ OwnPurposes /\ "time_exit" # "stop_loss" /\ None \in Int
          /\ x.close \in Int
      BY <1>6 DEF Purposes, OwnPurposes, None
    <2>2. QED
      BY <1>4, <1>5, <1>6, <2>1, ExitKeeps
  <1>10. Kept(a)
    BY <1>4, <1>5 DEF KeepsOrders
  <1>11. Kept(r)
    <2> HIDE DEF Kept, worse, better
    <2>1. QED
      BY <1>3, <1>7, <1>8, <1>9, <1>10
  <1>12. KeepsOrders(b, r)
    BY <1>4, <1>11 DEF KeepsOrders
  <1>13. Plain(r) => r.orders = b.orders /\ r.cash = b.cash /\ r.pos.qty = b.pos.qty
    BY <1>2, <1>4, <1>11
  <1>14. QED
    BY <1>11, <1>12, <1>13 DEF r

-----------------------------------------------------------------------------
(* The orders of the bar before (FillPending). *)

\* One order of the bar before meets bar x at instant t.
FillOne(acc, i, x, t) ==
  LET price == IntendedPrice(acc.orders[i], x)
  IN IF price = None THEN acc ELSE Execute(acc, i, x, t, price)

IsFilling(g, b, x, t, s, S) ==
  g = [u \in SUBSET S |-> IF u = {} THEN b ELSE FillOne(g[u \ {Max(u)}], s[Max(u)], x, t)]
Filling(b, x, t, s) == CHOOSE g : IsFilling(g, b, x, t, s, DOMAIN s)

LEMMA FillPendingIsFilling ==
  \A b, x, t : FillPending(b, x, t) = Filling(b, x, t, pending)[DOMAIN pending]
  BY DEF FillPending, FoldLeft, MapThenFoldSet, Filling, IsFilling, FillOne

\* An intended price is one the bar traded at.
LEMMA IntendedFacts ==
  ASSUME NEW o \in Orders, NEW x \in Bars
  PROVE  LET price == IntendedPrice(o, x)
         IN price \in Int /\ (price # None => x.low <= price /\ price <= x.high)
  <1>1. /\ o.limit \in Int /\ o.side \in {1, -1}
        /\ x.open \in Nat /\ x.high \in Nat /\ x.low \in Nat
        /\ x.low <= x.open /\ x.open <= x.high
    BY BarFacts DEF Orders
  <1>2. QED
    BY <1>1 DEF IntendedPrice, None, Least, Most

\* A fill leaves a book of as many orders.
AsMany(r, b) == r \in Books /\ DOMAIN r.orders = DOMAIN b.orders

LEMMA FillOneType ==
  \A t \in Nat, x \in Bars, b \in Books : \A i \in DOMAIN b.orders : AsMany(FillOne(b, i, x, t), b)
  <1> SUFFICES ASSUME NEW t \in Nat, NEW x \in Bars, NEW b \in Books, NEW i \in DOMAIN b.orders
               PROVE  FillOne(b, i, x, t) \in Books /\ DOMAIN FillOne(b, i, x, t).orders = DOMAIN b.orders
    BY DEF AsMany
  <1> DEFINE price == IntendedPrice(b.orders[i], x)
             r == Execute(b, i, x, t, price)
  <1>1. b.orders[i] \in Orders
    BY DEF Books
  <1>2. price \in Int
    BY <1>1, IntendedFacts
  <1>3. FillOne(b, i, x, t) = IF price = None THEN b ELSE r
    BY DEF FillOne
  <1> HIDE DEF price
  <1>4. r \in Books /\ DOMAIN r.orders = DOMAIN b.orders
    <2> DEFINE f == FillOf(b, i, x, t, price)
    <2>1. r \in Books /\ (f.qty = 0 => r = b) /\ (f.qty # 0 => r.orders = [b.orders EXCEPT ![i].fill = f])
      BY <1>2, ExecuteFacts
    <2> HIDE DEF r, f
    <2>2. b.orders \in Seq(Orders)
      BY DEF Books
    <2>3. QED
      BY <2>1, <2>2
  <1>5. QED
    BY <1>3, <1>4

\* An order of the strategy that waits since an earlier bar is filled, or not.
LEMMA FillOneKeeps ==
  ASSUME NEW t \in Nat \ {0}, NEW b, BookOK(b, t), NEW i \in DOMAIN b.orders,
         b.orders[i].fill = NoFill, b.orders[i].purpose \in OwnPurposes, b.orders[i].decided < t,
         NEW x \in Bars, HonestAt(b, x, t)
  PROVE  LET r == FillOne(b, i, x, t)
         IN BookOK(r, t) /\ HonestAt(r, x, t) /\ SameOrders(b, r, i)
  <1> DEFINE o == b.orders[i]
             price == IntendedPrice(o, x)
             r == Execute(b, i, x, t, price)
  <1>1. o \in Orders
    BY DEF BookOK, Books
  <1>2. price \in Int /\ (price # None => x.low <= price /\ price <= x.high)
    BY <1>1, IntendedFacts
  <1>3. FillOne(b, i, x, t) = IF price = None THEN b ELSE r
    BY DEF FillOne
  <1> HIDE DEF price
  <1>4. CASE price = None
    BY <1>3, <1>4 DEF SameOrders
  <1>5. CASE price # None
    <2> DEFINE f == FillOf(b, i, x, t, price)
    <2>1. f.intended = price
      BY DEF FillOf
    <2>2. "stop_loss" \notin OwnPurposes
      BY DEF OwnPurposes
    <2>3. HonestFill(o, f, x, t)
      <3> HIDE DEF f
      <3>1. QED
        BY <1>2, <1>5, <2>1, <2>2 DEF HonestFill
    <2>4. BookOK(r, t) /\ HonestAt(r, x, t) /\ SameOrders(b, r, i)
      BY <1>2, <2>3, ExecuteKeeps
    <2>5. QED
      BY <1>3, <1>5, <2>4
  <1>6. QED
    BY <1>4, <1>5

\* The fold exists, and the last of its values is what FillPending gives.
LEMMA FillingSteps ==
  ASSUME NEW t \in Nat, NEW x \in Bars, NEW b \in Books, NEW s \in Seq(DOMAIN b.orders)
  PROVE  LET g == Filling(b, x, t, s)
             n == Len(s)
         IN /\ g[1..0] = b
            /\ \A m \in 0..(n - 1) : g[1..(m + 1)] = FillOne(g[1..m], s[m + 1], x, t)
  <1> DEFINE n == Len(s)
             V == {v \in Books : DOMAIN v.orders = DOMAIN b.orders}
             step == [d \in (1..n) \X V |-> FillOne(d[2], s[d[1]], x, t)]
             g == Filling(b, x, t, s)
  <1>1. n \in Nat /\ DOMAIN s = 1..n /\ (\A k \in 1..n : s[k] \in DOMAIN b.orders) /\ b \in V
    OBVIOUS
  <1>2. \A k \in 1..n, v \in V : FillOne(v, s[k], x, t) \in V
    BY <1>1, FillOneType DEF AsMany
  <1>3. step \in [(1..n) \X V -> V] /\ \A k \in 1..n, v \in V : step[<<k, v>>] = FillOne(v, s[k], x, t)
    BY <1>2
  <1> HIDE DEF step, V, n
  <1>4. PICK h \in [SUBSET (1..n) -> V] : IsFold(h, b, step, n)
    BY <1>1, <1>3, FoldExists
  <1>5. IsFilling(h, b, x, t, s, 1..n)
    <2>1. ASSUME NEW u \in SUBSET (1..n)
          PROVE  h[u] = IF u = {} THEN b ELSE FillOne(h[u \ {Max(u)}], s[Max(u)], x, t)
      <3>1. h[u] = IF u = {} THEN b ELSE step[<<Max(u), h[u \ {Max(u)}]>>]
        BY <1>4, Zenon DEF IsFold
      <3>2. u # {} => Max(u) \in 1..n /\ h[u \ {Max(u)}] \in V
        BY <1>1, <1>4, LastPosition
      <3>3. QED
        BY <1>3, <3>1, <3>2
    <2>2. h = [u \in SUBSET (1..n) |-> h[u]]
      BY <1>4
    <2>3. QED
      BY <2>1, <2>2, Zenon DEF IsFilling
  <1>6. IsFilling(g, b, x, t, s, 1..n)
    BY <1>1, <1>5 DEF Filling
  <1> HIDE DEF g
  <1>7. \A u \in SUBSET (1..n) : g[u] = IF u = {} THEN b ELSE FillOne(g[u \ {Max(u)}], s[Max(u)], x, t)
    BY <1>6, Zenon DEF IsFilling
  <1>8. g[1..0] = b
    <2>1. 1..0 = {} /\ {} \in SUBSET (1..n)
      OBVIOUS
    <2>2. QED
      BY <1>7, <2>1
  <1>9. ASSUME NEW m \in 0..(n - 1) PROVE g[1..(m + 1)] = FillOne(g[1..m], s[m + 1], x, t)
    <2> DEFINE u == 1..(m + 1)
    <2>1. m \in Nat /\ m + 1 <= n
      BY <1>1
    <2>2. u \in SUBSET (1..n) /\ u # {} /\ Max(u) = m + 1 /\ u \ {m + 1} = 1..m
      BY <1>1, <2>1, UpToNext
    <2> HIDE DEF u
    <2>3. g[u] = FillOne(g[u \ {Max(u)}], s[Max(u)], x, t)
      BY <1>7, <2>2
    <2>4. QED
      BY <2>2, <2>3 DEF u
  <1>10. QED
    BY <1>8, <1>9 DEF g, n

\* The orders at these positions wait to be filled, each once, after instant d.
Waiting(b, s, d) ==
  /\ s \in Seq(DOMAIN b.orders)
  /\ \A k \in DOMAIN s : LET o == b.orders[s[k]]
                         IN o.purpose \in OwnPurposes /\ o.decided = d /\ o.fill = NoFill
  /\ \A k, l \in DOMAIN s : s[k] = s[l] => k = l

\* So all that waits is filled, or not, one order after the other.
LEMMA FillingKeeps ==
  ASSUME NEW t \in Nat \ {0}, NEW b, BookOK(b, t), NEW x \in Bars, HonestAt(b, x, t),
         NEW s, NEW d \in Nat, d < t, Waiting(b, s, d)
  PROVE  LET r == Filling(b, x, t, s)[DOMAIN s]
         IN BookOK(r, t) /\ HonestAt(r, x, t) /\ (Plain(r) => Plain(b))
  <1> DEFINE n == Len(s)
             g == Filling(b, x, t, s)
             Done(m) == /\ BookOK(g[1..m], t) /\ HonestAt(g[1..m], x, t)
                        /\ DOMAIN g[1..m].orders = DOMAIN b.orders
                        /\ \A j \in DOMAIN b.orders :
                             /\ g[1..m].orders[j].purpose = b.orders[j].purpose
                             /\ g[1..m].orders[j].decided = b.orders[j].decided
                        /\ \A k \in (m + 1)..n : g[1..m].orders[s[k]] = b.orders[s[k]]
             Good == {m \in Nat : m <= n => Done(m)}
  <1>1. /\ n \in Nat /\ DOMAIN s = 1..n /\ \A k \in 1..n : s[k] \in DOMAIN b.orders
    BY DEF Waiting
  <1>2. /\ g[1..0] = b
        /\ \A m \in 0..(n - 1) : g[1..(m + 1)] = FillOne(g[1..m], s[m + 1], x, t)
    BY FillingSteps DEF Waiting, BookOK
  <1> HIDE DEF g, n
  <1>3. Done(0)
    BY <1>1, <1>2
  <1>4. ASSUME NEW m \in Nat, m + 1 <= n, Done(m) PROVE Done(m + 1)
    <2> DEFINE a == g[1..m]
               i == s[m + 1]
               r == g[1..(m + 1)]
    <2>1. m \in 0..(n - 1) /\ m + 1 \in 1..n /\ m + 1 \in (m + 1)..n
      BY <1>1, <1>4
    <2>2. r = FillOne(a, i, x, t) /\ i \in DOMAIN b.orders
      BY <1>1, <1>2, <2>1
    <2>3. /\ BookOK(a, t) /\ HonestAt(a, x, t) /\ DOMAIN a.orders = DOMAIN b.orders
          /\ \A j \in DOMAIN b.orders : /\ a.orders[j].purpose = b.orders[j].purpose
                                        /\ a.orders[j].decided = b.orders[j].decided
          /\ \A k \in (m + 1)..n : a.orders[s[k]] = b.orders[s[k]]
      BY <1>4
    <2> HIDE DEF r, a
    <2>4. /\ i \in DOMAIN a.orders /\ a.orders[i] = b.orders[i]
          /\ a.orders[i].fill = NoFill /\ a.orders[i].purpose \in OwnPurposes
          /\ a.orders[i].decided < t
      BY <1>1, <2>1, <2>2, <2>3 DEF Waiting
    <2>5. BookOK(r, t) /\ HonestAt(r, x, t) /\ SameOrders(a, r, i)
      <3> HIDE DEF i
      <3>1. QED
        BY <2>2, <2>3, <2>4, FillOneKeeps
    <2>6. \A k \in (m + 2)..n : r.orders[s[k]] = b.orders[s[k]]
      <3> SUFFICES ASSUME NEW k \in (m + 2)..n PROVE r.orders[s[k]] = b.orders[s[k]]
        OBVIOUS
      <3>1. k \in 1..n /\ k # m + 1 /\ k \in (m + 1)..n
        BY <1>1
      <3>2. s[k] # i /\ s[k] \in DOMAIN a.orders
        BY <1>1, <2>1, <2>3, <3>1 DEF Waiting
      <3>3. QED
        BY <2>3, <2>5, <3>1, <3>2 DEF SameOrders
    <2>7. /\ DOMAIN r.orders = DOMAIN b.orders
          /\ \A j \in DOMAIN b.orders : /\ r.orders[j].purpose = b.orders[j].purpose
                                        /\ r.orders[j].decided = b.orders[j].decided
      BY <2>3, <2>5 DEF SameOrders
    <2>8. (m + 1) + 1 = m + 2
      OBVIOUS
    <2>9. QED
      BY <2>5, <2>6, <2>7, <2>8 DEF r
  <1> HIDE DEF Done
  <1>5. 0 \in Good /\ \A m \in Nat : m \in Good => m + 1 \in Good
    BY <1>1, <1>3, <1>4
  <1> HIDE DEF Good
  <1>6. n \in Good
    BY <1>1, <1>5, NatSetInduction
  <1>7. Done(n)
    BY <1>1, <1>6 DEF Good
  <1>8. QED
    BY <1>1, <1>7 DEF Done, g, Plain

LEMMA FillPendingKeeps ==
  ASSUME NEW t \in Nat \ {0}, NEW b, BookOK(b, t), NEW x \in Bars, HonestAt(b, x, t),
         NEW d \in Nat, d < t, Waiting(b, pending, d)
  PROVE  LET r == FillPending(b, x, t) IN BookOK(r, t) /\ HonestAt(r, x, t) /\ (Plain(r) => Plain(b))
  BY FillingKeeps, FillPendingIsFilling

-----------------------------------------------------------------------------
(* The inductive invariant. *)

EngineInv ==
  /\ now \in Nat /\ bar \in Bars \cup {NoBar}
  /\ BookOK(book, now)
  /\ now > 0 => bar \in Bars /\ HonestAt(book, bar, now)
  /\ Waiting(book, pending, now)

LEMMA EngineInitInv == EngineInit => EngineInv
  <1> SUFFICES ASSUME EngineInit PROVE EngineInv
    OBVIOUS
  <1>1. /\ book.pos = Flat /\ book.cash = Start /\ book.base = NotHeld /\ book.pnls = <<>>
        /\ book.held = NotHeld /\ book.orders = <<>> /\ now = 0 /\ bar = NoBar /\ pending = <<>>
    BY DEF EngineInit
  <1>2. Start \in Int /\ Flat \in Positions
    BY EngineAssumption DEF Start, Flat, Positions, None
  <1>3. book \in Books
    BY <1>2 DEF EngineInit, Books, NotHeld
  <1>4. DOMAIN book.orders = {}
    BY <1>1
  <1>5. SumOf(Flows(book.orders)) = 0 /\ SumOf(Moves(book.orders)) = 0 /\ SumOf(Fees(book.orders)) = 0
    <2>1. DOMAIN Flows(book.orders) = {} /\ DOMAIN Moves(book.orders) = {} /\ DOMAIN Fees(book.orders) = {}
      BY <1>4 DEF Flows, Moves, Fees
    <2>2. QED
      BY <2>1, SumOfNone DEF SumOf
  <1>6. Ledger(book)
    BY <1>1, <1>2, <1>5 DEF Ledger, Flat
  <1>7. Trips(book) /\ FlatOrHeld(book) /\ Stamped(book, now)
    BY <1>1, <1>4, SumOfEmpty DEF Trips, FlatOrHeld, Stamped, Flat, None
  <1>8. Waiting(book, pending, now)
    BY <1>1 DEF Waiting
  <1>9. QED
    BY <1>1, <1>3, <1>6, <1>7, <1>8 DEF EngineInv, BookOK

\* A bar: the levels, the stops, and what waited.
LEMMA BarSteps ==
  ASSUME EngineInv, NEW x \in Bars, TakeBar(x)
  PROVE  LET t == now + 1
             marked == [book EXCEPT !.pos.last = x.close, !.held = IF @ = NotHeld THEN @ ELSE @ + 1]
             checked == CheckStops(marked, x, t)
             filled == FillPending(checked, x, t)
         IN /\ EngineInv'
            /\ BookOK(checked, t) /\ KeepsOrders(book, checked) /\ Waiting(checked, pending, now)
            /\ Plain(filled) => Plain(checked)
            /\ Plain(checked) => /\ checked.orders = book.orders /\ checked.cash = book.cash
                                 /\ checked.pos.qty = book.pos.qty
            /\ book'.orders = filled.orders /\ book'.cash = filled.cash
            /\ book'.pos.qty = filled.pos.qty
  <1> DEFINE t == now + 1
             marked == [book EXCEPT !.pos.last = x.close, !.held = IF @ = NotHeld THEN @ ELSE @ + 1]
             checked == CheckStops(marked, x, t)
             filled == FillPending(checked, x, t)
  <1>1. /\ now' = t /\ bar' = x /\ pending' = <<>>
        /\ book' = [filled EXCEPT !.pos.last = x.close]
    BY DEF TakeBar, LeftPending
  <1>2. t \in Nat \ {0} /\ now \in Nat /\ now < t /\ x.close \in Int
    BY BarFacts DEF EngineInv
  <1>3. /\ BookOK(marked, t) /\ marked.orders = book.orders /\ marked.cash = book.cash
        /\ marked.pos.qty = book.pos.qty
    <2> DEFINE p == [book.pos EXCEPT !.last = x.close]
               held == IF book.held = NotHeld THEN book.held ELSE book.held + 1
    <2>1. book \in Books /\ book.pos \in Positions /\ book.held \in Int
      BY DEF EngineInv, BookOK, Books
    <2>2. /\ p \in Positions /\ p.qty = book.pos.qty /\ p.fees = book.pos.fees
          /\ p.realized = book.pos.realized /\ p.avg = book.pos.avg /\ p.stop = book.pos.stop
          /\ p.target = book.pos.target /\ p.hwm = book.pos.hwm
      BY <1>2, <2>1 DEF Positions
    <2>3. held \in Int /\ (book.held = NotHeld => held = NotHeld) /\ (book.held >= 0 => held >= 0)
      BY <2>1 DEF NotHeld
    <2>4. marked = [book EXCEPT !.pos = p, !.held = held]
      BY <2>1 DEF Books
    <2> HIDE DEF p, held, marked
    <2>5. /\ marked \in Books /\ marked.pos = p /\ marked.held = held /\ marked.orders = book.orders
          /\ marked.cash = book.cash /\ marked.base = book.base /\ marked.pnls = book.pnls
      BY <2>1, <2>2, <2>3, <2>4 DEF Books
    <2>6. Ledger(marked) /\ Trips(marked) /\ FlatOrHeld(marked)
      BY <2>2, <2>3, <2>5 DEF EngineInv, BookOK, Ledger, Trips, FlatOrHeld
    <2>7. Stamped(marked, t)
      <3>1. Stamped(book, now) /\ book.orders \in Seq(Orders)
        BY <2>1 DEF EngineInv, BookOK, Books
      <3>2. \A i \in DOMAIN book.orders : book.orders[i].fill.ts \in Nat
        <4>1. \A i \in DOMAIN book.orders : book.orders[i] \in Orders
          BY <3>1, ElementOfSeq, LenProperties
        <4>2. \A o \in Orders : o.fill.ts \in Nat
          BY DEF Orders, Fills
        <4>3. QED
          BY <4>1, <4>2
      <3>3. QED
        BY <1>2, <2>5, <3>1, <3>2 DEF Stamped
    <2>8. QED
      BY <2>2, <2>5, <2>6, <2>7 DEF BookOK
  <1> HIDE DEF marked
  <1>4. HonestAt(marked, x, t)
    <2>1. \A i \in DOMAIN book.orders : book.orders[i].fill.ts # t
      BY <1>2 DEF EngineInv, BookOK, Stamped, NoFill
    <2>2. QED
      BY <1>3, <2>1 DEF HonestAt
  <1>5. /\ BookOK(checked, t) /\ HonestAt(checked, x, t) /\ KeepsOrders(marked, checked)
        /\ Plain(checked) => /\ checked.orders = marked.orders /\ checked.cash = marked.cash
                             /\ checked.pos.qty = marked.pos.qty
    BY <1>2, <1>3, <1>4, CheckStopsKeeps
  <1> HIDE DEF checked, t
  <1>6. Waiting(checked, pending, now)
    <2>1. Waiting(book, pending, now) /\ DOMAIN book.orders \subseteq DOMAIN checked.orders
          /\ \A j \in DOMAIN book.orders : checked.orders[j] = book.orders[j]
      BY <1>3, <1>5 DEF EngineInv, KeepsOrders
    <2>2. pending \in Seq(DOMAIN book.orders)
      BY <2>1 DEF Waiting
    <2>3. pending \in Seq(DOMAIN checked.orders) /\ \A k \in DOMAIN pending : pending[k] \in DOMAIN book.orders
      BY <2>1, <2>2
    <2>4. QED
      BY <2>1, <2>3 DEF Waiting
  <1>7. BookOK(filled, t) /\ HonestAt(filled, x, t) /\ (Plain(filled) => Plain(checked))
    BY <1>2, <1>5, <1>6, FillPendingKeeps
  <1> HIDE DEF filled
  <1>8. /\ BookOK(book', t) /\ HonestAt(book', x, t) /\ book'.orders = filled.orders
        /\ book'.cash = filled.cash /\ book'.pos.qty = filled.pos.qty
    <2> DEFINE p == [filled.pos EXCEPT !.last = x.close]
    <2>1. filled \in Books /\ filled.pos \in Positions
      BY <1>7 DEF BookOK, Books
    <2>2. /\ p \in Positions /\ p.qty = filled.pos.qty /\ p.fees = filled.pos.fees
          /\ p.realized = filled.pos.realized /\ p.avg = filled.pos.avg /\ p.stop = filled.pos.stop
          /\ p.target = filled.pos.target /\ p.hwm = filled.pos.hwm
      BY <1>2, <2>1 DEF Positions
    <2>3. book' = [filled EXCEPT !.pos = p]
      BY <1>1, <2>1 DEF Books
    <2> HIDE DEF p
    <2>4. BookOK(book', t) /\ book'.orders = filled.orders /\ book'.cash = filled.cash /\ book'.pos = p
      BY <1>2, <1>7, <2>2, <2>3, PositionKeeps
    <2>5. QED
      BY <1>7, <2>2, <2>4 DEF HonestAt
  <1>9. Waiting(book', pending', now')
    BY <1>1 DEF Waiting
  <1>10. EngineInv'
    BY <1>1, <1>2, <1>8, <1>9 DEF EngineInv
  <1>11. KeepsOrders(book, checked)
    BY <1>3, <1>5 DEF KeepsOrders
  <1>12. QED
    BY <1>3, <1>5, <1>6, <1>7, <1>8, <1>10, <1>11 DEF filled, checked, marked, t

\* A signal's order waits for the next bar, whatever the strategy asks for.
LEMMA QueuedKeeps ==
  ASSUME EngineInv, NEW side \in {1, -1}, NEW qty \in Nat, NEW limit \in Int, NEW levels \in Levels,
         NEW purpose \in OwnPurposes, Queue(side, qty, limit, levels, purpose),
         UNCHANGED <<now, bar>>
  PROVE  EngineInv'
  <1> DEFINE o == [side |-> side, qty |-> qty, limit |-> limit, levels |-> levels,
                   decided |-> now, purpose |-> purpose, level |-> None, fill |-> NoFill]
             n == Len(book.orders) + 1
  <1>1. o \in Orders /\ o.fill = NoFill /\ o.purpose = purpose /\ o.decided = now
    BY DEF EngineInv, Orders, Purposes, NoFill, Fills, None
  <1>2. book' = [book EXCEPT !.orders = Append(@, o)] /\ pending' = Append(pending, n)
    BY DEF Queue
  <1> HIDE DEF o
  <1>3. BookOK(book, now) /\ now \in Nat
    BY DEF EngineInv
  <1>4. /\ BookOK(book', now) /\ KeepsOrders(book, book')
        /\ n \in Nat /\ n \notin DOMAIN book.orders
        /\ DOMAIN book'.orders = DOMAIN book.orders \cup {n} /\ book'.orders[n] = o
    BY <1>1, <1>2, <1>3, WaitingKeeps
  <1> HIDE DEF n
  <1>5. now > 0 => HonestAt(book', bar, now)
    BY <1>1, <1>3, <1>4 DEF EngineInv, HonestAt, KeepsOrders, NoFill
  <1>6. Waiting(book', pending', now)
    <2> DEFINE D == DOMAIN book.orders
               m == Len(pending)
    <2>1. /\ pending \in Seq(D) /\ m \in Nat /\ DOMAIN pending = 1..m
          /\ \A k \in 1..m : pending[k] \in D
      BY DEF EngineInv, Waiting
    <2>2. /\ DOMAIN pending' = 1..(m + 1) /\ pending'[m + 1] = n
          /\ \A k \in 1..m : pending'[k] = pending[k]
          /\ pending' \in Seq(D \cup {n})
      <3> HIDE DEF D
      <3>1. QED
        BY <1>2, <2>1
    <2>3. \A k \in 1..(m + 1) : k = m + 1 \/ k \in 1..m
      BY <2>1
    <2> HIDE DEF m
    <2>4. ASSUME NEW k \in DOMAIN pending'
          PROVE  LET w == book'.orders[pending'[k]]
                 IN w.purpose \in OwnPurposes /\ w.decided = now /\ w.fill = NoFill
      <3>1. CASE k = m + 1
        BY <1>1, <1>4, <2>2, <3>1
      <3>2. CASE k \in 1..m
        BY <1>4, <2>1, <2>2, <3>2 DEF EngineInv, Waiting, KeepsOrders
      <3>3. QED
        BY <2>2, <2>3, <2>4, <3>1, <3>2
    <2>5. \A k, l \in DOMAIN pending' : pending'[k] = pending'[l] => k = l
      BY <1>4, <2>1, <2>2, <2>3 DEF EngineInv, Waiting
    <2>6. QED
      BY <1>4, <2>2, <2>4, <2>5 DEF Waiting
  <1>7. QED
    BY <1>3, <1>4, <1>5, <1>6 DEF EngineInv

\* What a strategy may ask for.
LEMMA SignalTypes ==
  ASSUME EngineInv, NEW side \in {1, -1}, NEW own \in {<<>>, OwnLevels(side)}
  PROVE  /\ bar.close - side * Unit \in Int
         /\ EntryLevels(side, own) \in Levels
  <1>1. bar.close \in Int
    BY BarFacts DEF EngineInv, NoBar
  <1>2. Unit \in Int /\ Unit \div 2 \in Int
    BY EngineAssumption
  <1>3. side * Unit \in Int /\ side * (Unit \div 2) \in Int
    BY <1>2
  <1>4. OwnLevels(side) \in Int \X Int
    BY <1>1, <1>2, <1>3 DEF OwnLevels
  <1>5. <<InitialStop(bar.close, side), None>> \in Int \X Int
    <2>1. InitialStop(bar.close, side) \in Int
      BY <1>1, LevelTypes, Zenon
    <2>2. QED
      BY <2>1 DEF None
  <1>6. QED
    BY <1>1, <1>3, <1>4, <1>5 DEF EntryLevels, Levels

\* Every step of the engine keeps the invariant.
LEMMA EngineStepInv == EngineInv /\ [EngineNext]_engineVars => EngineInv'
  <1> SUFFICES ASSUME EngineInv, [EngineNext]_engineVars PROVE EngineInv'
    OBVIOUS
  <1>1. ASSUME NEW b \in Bars, TakeBar(b) PROVE EngineInv'
    BY <1>1, BarSteps
  <1>2. ASSUME NEW side \in {1, -1}, NEW limit \in Int, NEW own \in {<<>>, OwnLevels(side)},
               Enter(side, limit, own)
        PROVE  EngineInv'
    <2>1. /\ EntryLevels(side, own) \in Levels /\ Qty \in Nat /\ "entry" \in OwnPurposes
          /\ Queue(side, Qty, limit, EntryLevels(side, own), "entry") /\ UNCHANGED <<now, bar>>
      BY <1>2, SignalTypes, EngineAssumption DEF Enter, OwnPurposes
    <2>2. QED
      BY <2>1, QueuedKeeps
  <1>3. ASSUME ExitSignal PROVE EngineInv'
    <2>1. /\ Queue(-Sign(book.pos.qty), Abs(book.pos.qty), None, <<>>, "exit") /\ UNCHANGED <<now, bar>>
          /\ book.pos.qty \in Int
      BY <1>3 DEF ExitSignal, EngineInv, BookOK, Books, Positions
    <2>2. -Sign(book.pos.qty) \in {1, -1} /\ Abs(book.pos.qty) \in Nat
      <3> DEFINE q == book.pos.qty
      <3>1. q \in Int
        BY <2>1
      <3> HIDE DEF q
      <3>2. (Sign(q) = 1 \/ Sign(q) = -1) /\ Abs(q) \in Nat
        BY <3>1 DEF Sign, Abs
      <3>3. QED
        BY <3>2 DEF q
    <2>3. None \in Int /\ <<>> \in Levels /\ "exit" \in OwnPurposes
      BY DEF None, Levels, OwnPurposes
    <2>4. QED
      BY <2>1, <2>2, <2>3, QueuedKeeps
  <1>4. ASSUME UNCHANGED engineVars PROVE EngineInv'
    <2>1. now' = now /\ bar' = bar /\ book' = book /\ pending' = pending
      BY <1>4 DEF engineVars
    <2>2. QED
      BY <2>1 DEF EngineInv, BookOK, HonestAt, Waiting, Ledger, Trips, FlatOrHeld, Stamped
  <1>5. \A side \in {1, -1} : None \in Int /\ bar.close - side * Unit \in Int
    BY SignalTypes DEF None
  <1>6. QED
    BY <1>1, <1>2, <1>3, <1>4, <1>5 DEF EngineNext, Signal

THEOREM BookIsInvariant == EngineSpec => []EngineInv
  BY EngineInitInv, EngineStepInv, PTL DEF EngineSpec

\* No fill uses what was not known at its bar, or is better than the bar and the
\* stop allow, for bars, prices, sizes and stop configurations of any kind.
THEOREM FillsHonest == EngineSpec => []FillsAreHonest
  <1>1. EngineInv => FillsAreHonest
    BY DEF EngineInv, HonestAt, HonestFill, FillsAreHonest, OwnPurposes
  <1>2. QED
    BY <1>1, BookIsInvariant, PTL

\* A flat book holds nothing of the position it closed, and an order waits only
\* for the bar after the one it was decided on.
THEOREM EngineTypes == EngineSpec => []EngineTyped
  <1>1. EngineInv => EngineTyped
    <2> SUFFICES ASSUME EngineInv PROVE EngineTyped
      OBVIOUS
    <2>1. \A i \in DOMAIN pending : book.orders[pending[i]].decided = now
      BY DEF EngineInv, Waiting
    <2>2. book.pos.qty = 0 => [book.pos EXCEPT !.realized = 0, !.fees = 0, !.last = None] = Flat
      <3> DEFINE p == book.pos
      <3>1. p \in Positions
        BY DEF EngineInv, BookOK, Books
      <3>2. p.qty = 0 => p.avg = None /\ p.stop = None /\ p.target = None /\ p.hwm = None
        BY DEF EngineInv, BookOK, FlatOrHeld
      <3> HIDE DEF p
      <3>3. p.qty = 0 => [p EXCEPT !.realized = 0, !.fees = 0, !.last = None] = Flat
        <4> DEFINE Other(y) == /\ y \in Positions /\ y.qty = p.qty /\ y.avg = p.avg /\ y.stop = p.stop
                               /\ y.target = p.target /\ y.hwm = p.hwm
                   unpaid == [p EXCEPT !.realized = 0]
                   free == [unpaid EXCEPT !.fees = 0]
                   r == [free EXCEPT !.last = None]
        <4>1. Other(unpaid) /\ unpaid.realized = 0
          BY <3>1 DEF Positions
        <4> HIDE DEF unpaid
        <4>2. Other(free) /\ free.realized = 0 /\ free.fees = 0
          BY <4>1 DEF Positions
        <4> HIDE DEF free
        <4>3. Other(r) /\ r.realized = 0 /\ r.fees = 0 /\ r.last = None
          BY <4>2 DEF Positions, None
        <4> HIDE DEF r
        <4>4. r = [qty |-> r.qty, avg |-> r.avg, realized |-> r.realized, fees |-> r.fees,
                   last |-> r.last, stop |-> r.stop, target |-> r.target, hwm |-> r.hwm]
          BY <4>3 DEF Positions
        <4>5. QED
          BY <3>2, <4>3, <4>4 DEF Flat, None, r, free, unpaid
      <3>4. QED
        BY <3>3 DEF p
    <2>3. (book.pos.qty = 0) <=> (book.held = NotHeld)
      BY DEF EngineInv, BookOK, FlatOrHeld, Books, NotHeld
    <2>4. QED
      BY <2>1, <2>2, <2>3 DEF EngineTyped, EngineInv, BookOK, FlatOrHeld
  <1>2. QED
    BY <1>1, BookIsInvariant, PTL

\* The fees of the result are those the position paid, and completed trades sum to
\* what was realized when it was last flat: the two parts of the books' balance
\* that an averaged basis, which is rounded, does not reach.
THEOREM FeesAndTripsBalance == EngineSpec => [](FeesBalance /\ TripsBalance)
  <1>1. EngineInv => FeesBalance /\ TripsBalance
    <2>1. ResultFees = SumOf(Fees(book.orders))
      BY DEF ResultFees, Fees
    <2>2. QED
      BY <2>1 DEF EngineInv, BookOK, Ledger, Trips, FeesBalance, TripsBalance
  <1>2. QED
    BY <1>1, BookIsInvariant, PTL

-----------------------------------------------------------------------------
(* Round trips from fills (AddFill). *)

Episodes == [qty : Int, entry : Int, exit : Int, fees : Int]
Accs == [episode : Episodes, trades : Seq(Int)]

\* What an open episode is worth before it is closed, and a list of fills' worth.
Open(e) == NetPnl(e, Sign(e.qty))
Folded(acc, q, total) ==
  /\ acc \in Accs /\ acc.episode.qty = q /\ (q = 0 => acc.episode = NoEpisode)
  /\ SumOf(acc.trades) + Open(acc.episode) = total

LEMMA OpenType == \A e \in Episodes : Open(e) \in Int
  BY DEF Episodes, Open, NetPnl, Sign

\* A fee split by a quantity is whole when the quantity is all of it.
LEMMA WholeShare == \A fee \in Int, q \in Nat \ {0} : (fee * q) \div q = fee /\ (fee * 0) \div q = 0
  <1> SUFFICES ASSUME NEW fee \in Int, NEW q \in Nat \ {0}
               PROVE  (fee * q) \div q = fee /\ (fee * 0) \div q = 0
    OBVIOUS
  <1>1. (fee * q) \div q = fee
    <2> DEFINE d == (fee * q) \div q
               k == fee - d
    <2>1. d \in Int /\ q * d <= fee * q /\ fee * q < q * d + q
      OBVIOUS
    <2> HIDE DEF d
    <2>2. k \in Int /\ q * k = fee * q - q * d
      BY <2>1
    <2>3. 0 <= q * k /\ q * k < q
      BY <2>1, <2>2
    <2> HIDE DEF k
    <2>4. k >= 1 => q * k >= q
      BY <2>2
    <2>5. k <= -1 => q * k < 0
      BY <2>2
    <2>6. k = 0
      BY <2>2, <2>3, <2>4, <2>5
    <2>7. QED
      BY <2>1, <2>6 DEF k, d
  <1>2. fee * 0 = 0 /\ 0 \div q = 0
    OBVIOUS
  <1>3. QED
    BY <1>1, <1>2

\* Episodes with other numbers.
Lessened(e, a, b, c) == [e EXCEPT !.qty = a, !.exit = b, !.fees = c]
Enlarged(e, a, b, c) == [e EXCEPT !.qty = a, !.entry = b, !.fees = c]

LEMMA EpisodeUpdates ==
  \A e \in Episodes, a, b, c \in Int :
    /\ Lessened(e, a, b, c) = [qty |-> a, entry |-> e.entry, exit |-> b, fees |-> c]
    /\ Enlarged(e, a, b, c) = [qty |-> a, entry |-> b, exit |-> e.exit, fees |-> c]
  <1> SUFFICES ASSUME NEW e \in Episodes, NEW a \in Int, NEW b \in Int, NEW c \in Int
               PROVE  /\ Lessened(e, a, b, c) = [qty |-> a, entry |-> e.entry, exit |-> b, fees |-> c]
                      /\ Enlarged(e, a, b, c) = [qty |-> a, entry |-> b, exit |-> e.exit, fees |-> c]
    OBVIOUS
  <1> DEFINE first == [e EXCEPT !.qty = a]
             left == [first EXCEPT !.exit = b]
             more == [first EXCEPT !.entry = b]
  <1>1. first = [qty |-> a, entry |-> e.entry, exit |-> e.exit, fees |-> e.fees]
    BY DEF Episodes
  <1> HIDE DEF first
  <1>2. left = [qty |-> a, entry |-> e.entry, exit |-> b, fees |-> e.fees]
    BY <1>1
  <1>3. more = [qty |-> a, entry |-> b, exit |-> e.exit, fees |-> e.fees]
    BY <1>1
  <1> HIDE DEF left, more
  <1>4. [left EXCEPT !.fees = c] = [qty |-> a, entry |-> e.entry, exit |-> b, fees |-> c]
    BY <1>2
  <1>5. [more EXCEPT !.fees = c] = [qty |-> a, entry |-> b, exit |-> e.exit, fees |-> c]
    BY <1>3
  <1>6. QED
    BY <1>4, <1>5, Zenon DEF Lessened, Enlarged, left, more, first

\* What closing and what opening add to an episode's worth.
LEMMA WorthTurned ==
  \A entry, exit, fees, paid, opened, fee, share \in Int :
    /\ ((entry - (exit + paid)) - (fees + share)) + ((-opened) - (fee - share))
         = ((entry - exit) - fees) + (-((paid + opened) + fee))
    /\ (((exit + paid) - entry) - (fees + share)) + (opened - (fee - share))
         = ((exit - entry) - fees) + (-((-(paid + opened)) + fee))
  OBVIOUS

LEMMA WorthSums ==
  \A entry, exit, fees, paid, opened, fee \in Int :
    /\ (exit - (entry + opened)) - (fees + fee) = ((exit - entry) - fees) + (-(opened + fee))
    /\ ((entry + opened) - exit) - (fees + fee) = ((entry - exit) - fees) + (-((-opened) + fee))
    /\ (entry - (exit + paid)) - (fees + fee) = ((entry - exit) - fees) + (-(paid + fee))
    /\ ((exit + paid) - entry) - (fees + fee) = ((exit - entry) - fees) + (-((-paid) + fee))
  OBVIOUS

LEMMA TotalSum ==
  \A trades, pnl, new, old, flow \in Int :
    pnl + new = old + flow => (trades + pnl) + new = (trades + old) + flow
  OBVIOUS

\* A fill adds its flow, whether it opens, adds, closes in part or flips.
LEMMA AddFillKeeps ==
  ASSUME NEW q \in Int, NEW total \in Int, NEW acc, Folded(acc, q, total),
         NEW o \in Orders, o.fill.qty > 0
  PROVE  Folded(AddFill(acc, o), q + o.fill.qty * o.side, total + Flow(o))
  <1> DEFINE n == o.fill.qty
             e == acc.episode
             side == o.side
             price == o.fill.price
             fee == o.fill.fee
             closing == IF e.qty # 0 /\ Sign(e.qty) # side THEN Least(n, Abs(e.qty)) ELSE 0
             share == (fee * closing) \div n
             closed == [e EXCEPT !.qty = @ + side * closing, !.exit = @ + closing * price,
                                 !.fees = @ + share]
             ended == closing > 0 /\ closed.qty = 0
             rest == n - closing
             from == IF ended THEN NoEpisode ELSE closed
             new == [from EXCEPT !.qty = @ + side * rest, !.entry = @ + rest * price,
                                 !.fees = @ + (fee - share)]
             trades == IF ended THEN Append(acc.trades, NetPnl(closed, -side)) ELSE acc.trades
  <1>1. /\ n \in Nat \ {0} /\ price \in Int /\ fee \in Int /\ side \in {1, -1} /\ e \in Episodes
        /\ acc.trades \in Seq(Int) /\ e.qty = q /\ (q = 0 => e = NoEpisode)
        /\ SumOf(acc.trades) + Open(e) = total
    BY DEF Orders, Fills, Folded, Accs
  <1>2. AddFill(acc, o) = [episode |-> new, trades |-> trades]
    BY DEF AddFill
  <1>3. Flow(o) = -(n * price * side + fee)
    BY DEF Flow
  <1> HIDE DEF n, e, side, price, fee
  <1>4. e.qty \in Int /\ e.entry \in Int /\ e.exit \in Int /\ e.fees \in Int
    BY <1>1 DEF Episodes
  <1>5. side = 1 \/ side = -1
    BY <1>1
  <1>6. /\ closing \in Nat /\ rest \in Nat /\ closing + rest = n
        /\ IF q # 0 /\ Sign(q) # side THEN closing > 0 /\ closing <= Abs(q) /\ (rest > 0 => closing = Abs(q))
           ELSE closing = 0
    BY <1>1 DEF Least, Abs
  <1> HIDE DEF closing, rest
  <1>7. share \in Int /\ (closing = 0 => share = 0) /\ (rest = 0 => share = fee)
    <2>1. fee * closing \in Int
      BY <1>1, <1>6
    <2>2. share \in Int
      BY <1>1, <2>1, DivType
    <2>3. rest = 0 => closing = n
      BY <1>1, <1>6
    <2>4. QED
      BY <1>1, <2>2, <2>3, WholeShare
  <1> HIDE DEF share
  <1> DEFINE paid == closing * price
             opened == rest * price
  <1>8. paid \in Int /\ opened \in Int /\ n * price = paid + opened
        /\ (closing = 0 => paid = 0) /\ (rest = 0 => opened = 0)
    <2>1. (closing + rest) * price = closing * price + rest * price
      BY <1>1, <1>6
    <2>2. n * price = closing * price + rest * price
      BY <1>6, <2>1, Zenon
    <2>3. closing * price \in Int /\ rest * price \in Int /\ 0 * price = 0
      BY <1>1, <1>6
    <2>4. QED
      BY <2>2, <2>3, Zenon
  <1> HIDE DEF paid, opened
  <1>9. /\ closed = [e EXCEPT !.qty = @ + side * closing, !.exit = @ + paid, !.fees = @ + share]
        /\ new = [from EXCEPT !.qty = @ + side * rest, !.entry = @ + opened, !.fees = @ + (fee - share)]
    BY DEF paid, opened
  <1> DEFINE moved == side * closing
             left == side * rest
  <1>10. moved \in Int /\ left \in Int /\ moved = (IF side = 1 THEN closing ELSE -closing)
         /\ left = (IF side = 1 THEN rest ELSE -rest)
    BY <1>5, <1>6
  <1>11. q + n * side = q + moved + left /\ q \in Int
    BY <1>1, <1>5, <1>6
  <1> HIDE DEF moved, left
  <1>12. Flow(o) = -((IF side = 1 THEN paid + opened ELSE -(paid + opened)) + fee)
    <2>1. Flow(o) = -((paid + opened) * side + fee) /\ paid \in Int /\ opened \in Int
      BY <1>3, <1>8, Zenon
    <2>2. QED
      BY <1>5, <2>1
  <1>13. /\ closed \in Episodes /\ closed.qty = q + moved /\ closed.exit = e.exit + paid
         /\ closed.entry = e.entry /\ closed.fees = e.fees + share
    <2> DEFINE a == e.qty + side * closing
               b == e.exit + paid
               c == e.fees + share
    <2>1. a \in Int /\ b \in Int /\ c \in Int /\ a = q + moved
      BY <1>1, <1>4, <1>7, <1>8, <1>10 DEF moved
    <2>2. closed = Lessened(e, a, b, c)
      BY <1>9 DEF Lessened
    <2> HIDE DEF a, b, c, closed
    <2>3. closed = [qty |-> a, entry |-> e.entry, exit |-> b, fees |-> c]
      <3>1. e \in Episodes /\ a \in Int /\ b \in Int /\ c \in Int
        BY <1>1, <2>1
      <3>2. Lessened(e, a, b, c) = [qty |-> a, entry |-> e.entry, exit |-> b, fees |-> c]
        BY <3>1, EpisodeUpdates
      <3>3. QED
        BY <2>2, <3>2, Zenon
    <2>4. QED
      BY <1>4, <2>1, <2>3 DEF Episodes, b, c
  <1> HIDE DEF closed, from
  <1>14. \A x \in Episodes : Open(x) = (IF x.qty < 0 THEN x.entry - x.exit ELSE x.exit - x.entry) - x.fees
    BY DEF Episodes, Open, NetPnl, Sign
  <1>15. NetPnl(closed, -side) = (IF side = 1 THEN closed.entry - closed.exit
                                  ELSE closed.exit - closed.entry) - closed.fees
    BY <1>5, <1>13 DEF NetPnl, Episodes
  <1>16. SumOf(acc.trades) \in Int
    BY <1>1, SumAppend
  <1>17. NoEpisode \in Episodes /\ NoEpisode.qty = 0 /\ NoEpisode.entry = 0 /\ NoEpisode.exit = 0
         /\ NoEpisode.fees = 0
    BY DEF NoEpisode, Episodes
  <1>18. fee \in Int /\ share \in Int /\ paid \in Int /\ opened \in Int
    BY <1>1, <1>7, <1>8
  <1>19. SumOf(acc.trades) + Open(e) = total
    BY <1>1
  <1>20. CASE ended
    <2>1. from = NoEpisode /\ q + moved = 0 /\ closing > 0
      BY <1>13, <1>20 DEF from
    <2>2. /\ new \in Episodes /\ new.qty = left /\ new.entry = opened /\ new.exit = 0
          /\ new.fees = fee - share
      <3> DEFINE a == from.qty + left
                 b == from.entry + opened
                 c == from.fees + (fee - share)
      <3>1. /\ from \in Episodes /\ from.qty \in Int /\ from.entry \in Int /\ from.fees \in Int
            /\ from.qty = 0 /\ from.entry = 0 /\ from.exit = 0 /\ from.fees = 0
        BY <1>17, <2>1 DEF Episodes
      <3>2. a \in Int /\ b \in Int /\ c \in Int
        BY <1>10, <1>18, <3>1
      <3>3. new = Enlarged(from, a, b, c)
        BY <1>9 DEF Enlarged, left
      <3> HIDE DEF a, b, c, new
      <3>4. new = [qty |-> a, entry |-> b, exit |-> from.exit, fees |-> c]
        <4>1. from \in Episodes
          BY <3>1
        <4>2. Enlarged(from, a, b, c) = [qty |-> a, entry |-> b, exit |-> from.exit, fees |-> c]
          BY <3>2, <4>1, EpisodeUpdates
        <4>3. QED
          BY <3>3, <4>2, Zenon
      <3>5. a = left /\ b = opened /\ c = fee - share
        BY <1>4, <1>10, <1>18, <3>1 DEF a, b, c
      <3>6. QED
        BY <3>1, <3>2, <3>4, <3>5 DEF Episodes
    <2> HIDE DEF new
    <2>3. left = 0 => new = NoEpisode
      <3>1. left = 0 => rest = 0
        BY <1>6, <1>10
      <3>2. left = 0 => new.entry = 0 /\ new.fees = 0
        BY <1>1, <1>7, <1>8, <2>2, <3>1
      <3>3. new = [qty |-> new.qty, entry |-> new.entry, exit |-> new.exit, fees |-> new.fees]
        BY <2>2 DEF Episodes
      <3>4. QED
        BY <2>2, <3>2, <3>3 DEF NoEpisode
    <2> DEFINE pnl == NetPnl(closed, -side)
    <2>4. pnl \in Int
      BY <1>13, <1>15 DEF Episodes
    <2>5. trades = Append(acc.trades, pnl)
      BY <1>20
    <2> HIDE DEF pnl, trades, ended
    <2>6. trades \in Seq(Int) /\ SumOf(trades) = SumOf(acc.trades) + pnl
      BY <1>1, <2>4, <2>5, SumAppend
    <2>7. pnl + Open(new) = Open(e) + Flow(o)
      <3>1. q # 0 /\ (q < 0 <=> side = 1)
        BY <1>1, <1>5, <1>6, <2>1 DEF Sign
      <3>2. pnl = (IF side = 1 THEN closed.entry - closed.exit
                   ELSE closed.exit - closed.entry) - closed.fees
        BY <1>15 DEF pnl
      <3>3. Open(e) = (IF side = 1 THEN e.entry - e.exit ELSE e.exit - e.entry) - e.fees
        BY <1>1, <1>14, <3>1
      <3>4. Open(new) = (IF side = 1 THEN -opened ELSE opened) - (fee - share)
        BY <1>5, <1>6, <1>8, <1>10, <1>14, <2>2
      <3>5. QED
        <4>1. CASE side = 1
          <5>1. /\ pnl = (e.entry - (e.exit + paid)) - (e.fees + share)
                /\ Open(new) = (-opened) - (fee - share)
                /\ Open(e) = (e.entry - e.exit) - e.fees
                /\ Flow(o) = -((paid + opened) + fee)
            BY <1>12, <1>13, <3>2, <3>3, <3>4, <4>1
          <5>2. ((e.entry - (e.exit + paid)) - (e.fees + share)) + ((-opened) - (fee - share))
                  = ((e.entry - e.exit) - e.fees) + (-((paid + opened) + fee))
            BY <1>18, <1>4, WorthTurned
          <5>3. QED
            BY <5>1, <5>2, Zenon
        <4>2. CASE side = -1
          <5>1. /\ pnl = ((e.exit + paid) - e.entry) - (e.fees + share)
                /\ Open(new) = opened - (fee - share)
                /\ Open(e) = (e.exit - e.entry) - e.fees
                /\ Flow(o) = -((-(paid + opened)) + fee)
            BY <1>12, <1>13, <3>2, <3>3, <3>4, <4>2
          <5>2. (((e.exit + paid) - e.entry) - (e.fees + share)) + (opened - (fee - share))
                  = ((e.exit - e.entry) - e.fees) + (-((-(paid + opened)) + fee))
            BY <1>18, <1>4, WorthTurned
          <5>3. QED
            BY <5>1, <5>2, Zenon
        <4>3. QED
          BY <1>5, <4>1, <4>2
    <2>8. /\ Flow(o) \in Int /\ Open(e) \in Int /\ Open(new) \in Int
      BY <1>1, <2>2, OrderTypes, OpenType
    <2>9. SumOf(trades) + Open(new) = total + Flow(o)
      <3>1. (SumOf(acc.trades) + pnl) + Open(new) = (SumOf(acc.trades) + Open(e)) + Flow(o)
        BY <1>16, <2>4, <2>7, <2>8, TotalSum
      <3>2. QED
        BY <1>19, <2>6, <3>1, Zenon
    <2>10. q + n * side = left
      BY <1>10, <1>11, <2>1
    <2>11. AddFill(acc, o) \in Accs
      <3>1. AddFill(acc, o) = [episode |-> new, trades |-> trades]
        BY <1>2 DEF new, trades
      <3>2. QED
        BY <2>2, <2>6, <3>1 DEF Accs
    <2>12. Folded(AddFill(acc, o), left, total + Flow(o))
      <3>1. AddFill(acc, o).episode = new /\ AddFill(acc, o).trades = trades
        BY <1>2 DEF new, trades
      <3>2. QED
        BY <2>2, <2>3, <2>9, <2>11, <3>1 DEF Folded
    <2>13. QED
      BY <2>10, <2>12 DEF n, side
  <1>21. CASE ~ended
    <2>1. from = closed /\ trades = acc.trades
      BY <1>21 DEF from
    <2>2. /\ new \in Episodes /\ new.qty = q + moved + left /\ new.entry = e.entry + opened
          /\ new.exit = e.exit + paid /\ new.fees = e.fees + fee
      <3> DEFINE a == from.qty + left
                 b == from.entry + opened
                 c == from.fees + (fee - share)
      <3>1. /\ from \in Episodes /\ from.qty \in Int /\ from.entry \in Int /\ from.fees \in Int
            /\ from.qty = q + moved /\ from.entry = e.entry /\ from.exit = e.exit + paid
            /\ from.fees = e.fees + share
        BY <1>1, <1>13, <2>1 DEF Episodes
      <3>2. a \in Int /\ b \in Int /\ c \in Int
        BY <1>10, <1>18, <3>1
      <3>3. new = Enlarged(from, a, b, c)
        BY <1>9 DEF Enlarged, left
      <3> HIDE DEF a, b, c, new
      <3>4. new = [qty |-> a, entry |-> b, exit |-> from.exit, fees |-> c]
        <4>1. from \in Episodes
          BY <3>1
        <4>2. Enlarged(from, a, b, c) = [qty |-> a, entry |-> b, exit |-> from.exit, fees |-> c]
          BY <3>2, <4>1, EpisodeUpdates
        <4>3. QED
          BY <3>3, <4>2, Zenon
      <3>5. a = q + moved + left /\ b = e.entry + opened /\ c = e.fees + fee
        BY <1>4, <1>10, <1>18, <3>1 DEF a, b, c
      <3>6. QED
        BY <1>4, <1>8, <3>1, <3>2, <3>4, <3>5 DEF Episodes
    <2>3. closing > 0 => q + moved # 0
      BY <1>13, <1>21
    <2> HIDE DEF new, trades, ended
    <2>4. q + moved + left # 0
      BY <1>1, <1>5, <1>6, <1>10, <1>11, <2>3 DEF Sign, Abs
    <2>5. Open(new) = Open(e) + Flow(o)
      <3>1. Open(e) = (IF q < 0 THEN e.entry - e.exit ELSE e.exit - e.entry) - e.fees
        BY <1>1, <1>14
      <3>2. Open(new) = (IF q + moved + left < 0 THEN new.entry - new.exit ELSE new.exit - new.entry) - new.fees
        BY <1>14, <2>2
      <3>3. CASE closing = 0
        <4>1. moved = 0 /\ paid = 0
          <5>1. side = 1 => moved = closing
            BY <1>10
          <5>2. side = -1 => moved = -closing
            BY <1>10
          <5>3. QED
            BY <1>5, <1>8, <3>3, <5>1, <5>2
        <4>2. (q + moved + left < 0) <=> side = -1
          BY <1>1, <1>5, <1>6, <1>10, <1>11, <3>3, <4>1 DEF Sign
        <4>3. q # 0 => (q < 0 <=> side = -1)
          BY <1>1, <1>5, <1>6, <1>11, <3>3 DEF Sign
        <4>4. q = 0 => e.entry = 0 /\ e.exit = 0
          BY <1>1, <1>17
        <4>5. QED
          <5>1. CASE side = 1
            <6>1. Open(new) = (e.exit - (e.entry + opened)) - (e.fees + fee)
              <7>1. ~(q + moved + left < 0)
                BY <4>2, <5>1
              <7>2. Open(new) = (new.exit - new.entry) - new.fees
                BY <3>2, <7>1, Zenon
              <7>3. new.exit = e.exit
                BY <1>4, <2>2, <4>1
              <7>4. QED
                BY <2>2, <7>2, <7>3, Zenon
            <6>2. Open(e) = (e.exit - e.entry) - e.fees
              BY <1>1, <1>4, <3>1, <4>3, <4>4, <5>1
            <6>3. Flow(o) = -(opened + fee)
              BY <1>12, <1>18, <4>1, <5>1
            <6>4. (e.exit - (e.entry + opened)) - (e.fees + fee)
                    = ((e.exit - e.entry) - e.fees) + (-(opened + fee))
              BY <1>4, <1>18, WorthSums
            <6>5. QED
              BY <6>1, <6>2, <6>3, <6>4, Zenon
          <5>2. CASE side = -1
            <6>1. Open(new) = ((e.entry + opened) - e.exit) - (e.fees + fee)
              <7>1. q + moved + left < 0
                BY <4>2, <5>2
              <7>2. Open(new) = (new.entry - new.exit) - new.fees
                BY <3>2, <7>1, Zenon
              <7>3. new.exit = e.exit
                BY <1>4, <2>2, <4>1
              <7>4. QED
                BY <2>2, <7>2, <7>3, Zenon
            <6>2. Open(e) = (e.entry - e.exit) - e.fees
              BY <1>1, <1>4, <3>1, <4>3, <4>4, <5>2
            <6>3. Flow(o) = -((-opened) + fee)
              BY <1>12, <1>18, <4>1, <5>2
            <6>4. ((e.entry + opened) - e.exit) - (e.fees + fee)
                    = ((e.entry - e.exit) - e.fees) + (-((-opened) + fee))
              BY <1>4, <1>18, WorthSums
            <6>5. QED
              BY <6>1, <6>2, <6>3, <6>4, Zenon
          <5>3. QED
            BY <1>5, <5>1, <5>2
      <3>4. CASE closing > 0
        <4>1. q # 0 /\ (q < 0 <=> side = 1)
          BY <1>1, <1>5, <1>6, <1>11, <3>4 DEF Sign
        <4>2. rest = 0 /\ left = 0 /\ opened = 0
          BY <1>5, <1>6, <1>8, <1>10, <1>11, <2>3, <3>4, <4>1 DEF Abs
        <4>3. (q + moved + left < 0) <=> side = 1
          BY <1>5, <1>6, <1>10, <1>11, <2>3, <3>4, <4>1, <4>2 DEF Abs
        <4>4. QED
          <5>1. CASE side = 1
            <6>1. Open(new) = (e.entry - (e.exit + paid)) - (e.fees + fee)
              <7>1. q + moved + left < 0
                BY <4>3, <5>1
              <7>2. Open(new) = (new.entry - new.exit) - new.fees
                BY <3>2, <7>1, Zenon
              <7>3. new.entry = e.entry
                BY <1>4, <2>2, <4>2
              <7>4. QED
                BY <2>2, <7>2, <7>3, Zenon
            <6>2. Open(e) = (e.entry - e.exit) - e.fees
              BY <3>1, <4>1, <5>1
            <6>3. Flow(o) = -(paid + fee)
              BY <1>12, <1>18, <4>2, <5>1
            <6>4. (e.entry - (e.exit + paid)) - (e.fees + fee)
                    = ((e.entry - e.exit) - e.fees) + (-(paid + fee))
              BY <1>4, <1>18, WorthSums
            <6>5. QED
              BY <6>1, <6>2, <6>3, <6>4, Zenon
          <5>2. CASE side = -1
            <6>1. Open(new) = ((e.exit + paid) - e.entry) - (e.fees + fee)
              <7>1. ~(q + moved + left < 0)
                BY <4>3, <5>2
              <7>2. Open(new) = (new.exit - new.entry) - new.fees
                BY <3>2, <7>1, Zenon
              <7>3. new.entry = e.entry
                BY <1>4, <2>2, <4>2
              <7>4. QED
                BY <2>2, <7>2, <7>3, Zenon
            <6>2. Open(e) = (e.exit - e.entry) - e.fees
              BY <3>1, <4>1, <5>2
            <6>3. Flow(o) = -((-paid) + fee)
              BY <1>12, <1>18, <4>2, <5>2
            <6>4. ((e.exit + paid) - e.entry) - (e.fees + fee)
                    = ((e.exit - e.entry) - e.fees) + (-((-paid) + fee))
              BY <1>4, <1>18, WorthSums
            <6>5. QED
              BY <6>1, <6>2, <6>3, <6>4, Zenon
          <5>3. QED
            BY <1>5, <5>1, <5>2
      <3>5. QED
        BY <1>6, <3>3, <3>4
    <2>6. AddFill(acc, o).episode = new /\ AddFill(acc, o).trades = acc.trades
          /\ AddFill(acc, o) \in Accs
      <3>1. AddFill(acc, o) = [episode |-> new, trades |-> acc.trades]
        BY <1>2, <2>1 DEF new, trades
      <3>2. QED
        BY <1>1, <2>2, <3>1 DEF Accs
    <2>7. Flow(o) \in Int /\ Open(e) \in Int
      BY <1>1, OrderTypes, OpenType
    <2>8. SumOf(acc.trades) + Open(new) = total + Flow(o)
      BY <1>16, <1>19, <2>5, <2>7
    <2>9. Folded(AddFill(acc, o), q + moved + left, total + Flow(o))
      BY <2>2, <2>4, <2>6, <2>8 DEF Folded
    <2>10. QED
      BY <1>11, <2>9 DEF n, side
  <1>22. QED
    BY <1>20, <1>21

-----------------------------------------------------------------------------
(* The stream of fills (AddFillsAt, BuildTrades). *)

\* What an order's fill adds to the trades, when the stream reaches instant t.
AddAt(acc, o, t) == IF o.fill.qty > 0 /\ o.fill.ts = t THEN AddFill(acc, o) ELSE acc

IsAdding(g, acc, s, t, S) ==
  g = [u \in SUBSET S |-> IF u = {} THEN acc ELSE AddAt(g[u \ {Max(u)}], s[Max(u)], t)]
Adding(acc, s, t) == CHOOSE g : IsAdding(g, acc, s, t, DOMAIN s)
AddAll(acc, s, t) == Adding(acc, s, t)[DOMAIN s]

IsBuilding(g, s, times, S) ==
  g = [u \in SUBSET S |-> IF u = {} THEN NoTrades ELSE AddAll(g[u \ {Max(u)}], s, times[Max(u)])]
Building(s, times) == CHOOSE g : IsBuilding(g, s, times, DOMAIN times)

LEMMA AddFillsAtIsAdding == \A acc, t : AddFillsAt(acc, t) = AddAll(acc, book.orders, t)
  BY DEF AddFillsAt, FoldLeft, MapThenFoldSet, AddAll, Adding, IsAdding, AddAt

LEMMA BuildTradesIsBuilding ==
  BuildTrades = Building(book.orders, [t \in 1..now |-> t])[DOMAIN [t \in 1..now |-> t]].trades
  BY AddFillsAtIsAdding DEF BuildTrades, FoldLeft, MapThenFoldSet, Building, IsBuilding

\* Fold values: an episode that holds nothing has no history.
Neat == {acc \in Accs : acc.episode.qty = 0 => acc.episode = NoEpisode}

LEMMA NeatIsFolded ==
  /\ \A acc \in Neat : /\ acc.episode.qty \in Int /\ SumOf(acc.trades) + Open(acc.episode) \in Int
                       /\ Folded(acc, acc.episode.qty, SumOf(acc.trades) + Open(acc.episode))
  /\ \A acc, q, total : Folded(acc, q, total) => acc \in Neat
  <1>1. ASSUME NEW acc \in Neat
        PROVE  /\ acc.episode.qty \in Int /\ SumOf(acc.trades) + Open(acc.episode) \in Int
               /\ Folded(acc, acc.episode.qty, SumOf(acc.trades) + Open(acc.episode))
    <2>1. acc \in Accs /\ acc.episode \in Episodes /\ acc.trades \in Seq(Int)
      BY DEF Neat, Accs
    <2>2. acc.episode.qty \in Int
      BY <2>1 DEF Episodes
    <2>3. SumOf(acc.trades) \in Int /\ Open(acc.episode) \in Int
      BY <2>1, OpenType, SumAppend
    <2>4. SumOf(acc.trades) + Open(acc.episode) \in Int
      BY <2>3
    <2>5. QED
      BY <2>1, <2>2, <2>4 DEF Folded, Neat
  <1>2. \A acc, q, total : Folded(acc, q, total) => acc \in Neat
    BY DEF Folded, Neat
  <1>3. QED
    BY <1>1, <1>2

LEMMA AddAtType ==
  ASSUME NEW acc \in Neat, NEW o \in Orders, NEW t
  PROVE  AddAt(acc, o, t) \in Neat
  <1>1. CASE o.fill.qty > 0 /\ o.fill.ts = t
    <2> DEFINE q == acc.episode.qty
               total == SumOf(acc.trades) + Open(acc.episode)
    <2>1. q \in Int /\ total \in Int /\ Folded(acc, q, total)
      BY NeatIsFolded
    <2> HIDE DEF q, total
    <2>2. Folded(AddFill(acc, o), q + o.fill.qty * o.side, total + Flow(o))
      BY <1>1, <2>1, AddFillKeeps
    <2>3. QED
      BY <1>1, <2>2, NeatIsFolded DEF AddAt
  <1>2. CASE ~(o.fill.qty > 0 /\ o.fill.ts = t)
    BY <1>2 DEF AddAt
  <1>3. QED
    BY <1>1, <1>2

\* The inner fold takes the orders one after the other.
LEMMA AddingSteps ==
  ASSUME NEW s \in Seq(Orders), NEW acc \in Neat, NEW t
  PROVE  LET g == Adding(acc, s, t)
             n == Len(s)
         IN /\ g[1..0] = acc
            /\ \A m \in 0..(n - 1) : g[1..(m + 1)] = AddAt(g[1..m], s[m + 1], t)
  <1> DEFINE n == Len(s)
             step == [d \in (1..n) \X Neat |-> AddAt(d[2], s[d[1]], t)]
             g == Adding(acc, s, t)
  <1>1. n \in Nat /\ DOMAIN s = 1..n /\ (\A k \in 1..n : s[k] \in Orders)
    OBVIOUS
  <1>2. \A k \in 1..n, v \in Neat : AddAt(v, s[k], t) \in Neat
    BY <1>1, AddAtType
  <1>3. step \in [(1..n) \X Neat -> Neat] /\ \A k \in 1..n, v \in Neat : step[<<k, v>>] = AddAt(v, s[k], t)
    BY <1>2
  <1> HIDE DEF step, n
  <1>4. PICK h \in [SUBSET (1..n) -> Neat] : IsFold(h, acc, step, n)
    BY <1>1, <1>3, FoldExists
  <1>5. IsAdding(h, acc, s, t, 1..n)
    <2>1. ASSUME NEW u \in SUBSET (1..n)
          PROVE  h[u] = IF u = {} THEN acc ELSE AddAt(h[u \ {Max(u)}], s[Max(u)], t)
      <3>1. h[u] = IF u = {} THEN acc ELSE step[<<Max(u), h[u \ {Max(u)}]>>]
        BY <1>4, Zenon DEF IsFold
      <3>2. u # {} => Max(u) \in 1..n /\ h[u \ {Max(u)}] \in Neat
        BY <1>1, <1>4, LastPosition
      <3>3. QED
        BY <1>3, <3>1, <3>2
    <2>2. h = [u \in SUBSET (1..n) |-> h[u]]
      BY <1>4
    <2>3. QED
      BY <2>1, <2>2, Zenon DEF IsAdding
  <1>6. IsAdding(g, acc, s, t, 1..n)
    BY <1>1, <1>5 DEF Adding
  <1> HIDE DEF g
  <1>7. \A u \in SUBSET (1..n) : g[u] = IF u = {} THEN acc ELSE AddAt(g[u \ {Max(u)}], s[Max(u)], t)
    BY <1>6, Zenon DEF IsAdding
  <1>8. g[1..0] = acc
    <2>1. 1..0 = {} /\ {} \in SUBSET (1..n)
      OBVIOUS
    <2>2. QED
      BY <1>7, <2>1
  <1>9. ASSUME NEW m \in 0..(n - 1) PROVE g[1..(m + 1)] = AddAt(g[1..m], s[m + 1], t)
    <2> DEFINE u == 1..(m + 1)
    <2>1. m \in Nat /\ m + 1 <= n
      BY <1>1
    <2>2. u \in SUBSET (1..n) /\ u # {} /\ Max(u) = m + 1 /\ u \ {m + 1} = 1..m
      BY <1>1, <2>1, UpToNext
    <2> HIDE DEF u
    <2>3. g[u] = AddAt(g[u \ {Max(u)}], s[Max(u)], t)
      BY <1>7, <2>2
    <2>4. QED
      BY <2>2, <2>3 DEF u
  <1>10. QED
    BY <1>8, <1>9 DEF g, n

\* The positions of orders whose fills come before position m of instant t.
Before(s, t, m) ==
  {i \in DOMAIN s : s[i].fill.qty > 0 /\ (s[i].fill.ts < t \/ (s[i].fill.ts = t /\ i <= m))}
FoldedTo(acc, s, S) ==
  Folded(acc, SumFunctionOnSet(Moves(s), S), SumFunctionOnSet(Flows(s), S))

\* An order that comes next adds its flow and nothing else.
LEMMA AddAtKeeps ==
  ASSUME NEW s \in Seq(Orders), NEW t \in Nat, NEW m \in 0..(Len(s) - 1), NEW acc,
         FoldedTo(acc, s, Before(s, t, m))
  PROVE  FoldedTo(AddAt(acc, s[m + 1], t), s, Before(s, t, m + 1))
  <1> DEFINE o == s[m + 1]
             S == Before(s, t, m)
             k == m + 1
  <1>1. k \in DOMAIN s /\ o \in Orders /\ m \in Nat /\ S \subseteq DOMAIN s /\ \A i \in DOMAIN s : i \in Nat
    BY DEF Before
  <1>2. IsFiniteSet(S) /\ Ints(Flows(s), DOMAIN s) /\ Ints(Moves(s), DOMAIN s)
    BY <1>1, SeqSums, FS_Subset
  <1>3. CASE o.fill.qty > 0 /\ o.fill.ts = t
    <2>1. Before(s, t, k) = S \cup {k} /\ k \notin S
      <3>1. \A i \in DOMAIN s : i <= m + 1 <=> (i <= m \/ i = m + 1)
        BY <1>1
      <3>2. k \notin S
        BY <1>1, <1>3 DEF Before
      <3>3. QED
        BY <1>1, <1>3, <3>1, <3>2 DEF Before
    <2> HIDE DEF S, k
    <2>2. Ints(Flows(s), S \cup {k}) /\ Ints(Moves(s), S \cup {k}) /\ Ints(Flows(s), S) /\ Ints(Moves(s), S)
      BY <1>1, <1>2 DEF Ints
    <2>3. /\ SumFunctionOnSet(Flows(s), S \cup {k}) = Flows(s)[k] + SumFunctionOnSet(Flows(s), S)
          /\ SumFunctionOnSet(Moves(s), S \cup {k}) = Moves(s)[k] + SumFunctionOnSet(Moves(s), S)
          /\ SumFunctionOnSet(Flows(s), S) \in Int /\ SumFunctionOnSet(Moves(s), S) \in Int
      BY <1>2, <2>1, <2>2, SumInsert, SumType
    <2>4. Flows(s)[k] = Flow(o) /\ Moves(s)[k] = o.fill.qty * o.side
      BY <1>1 DEF Flows, Moves, k
    <2>5. AddAt(acc, o, t) = AddFill(acc, o)
      BY <1>3 DEF AddAt
    <2> DEFINE q == SumFunctionOnSet(Moves(s), S)
               total == SumFunctionOnSet(Flows(s), S)
    <2>6. Folded(acc, q, total)
      BY DEF FoldedTo, S
    <2>7. q \in Int /\ total \in Int /\ Flow(o) \in Int /\ o.fill.qty * o.side \in Int
      BY <1>1, <2>3, OrderTypes
    <2> HIDE DEF q, total, o
    <2>8. Folded(AddFill(acc, o), q + o.fill.qty * o.side, total + Flow(o))
      BY <1>1, <1>3, <2>6, <2>7, AddFillKeeps
    <2>9. /\ SumFunctionOnSet(Moves(s), S \cup {k}) = q + o.fill.qty * o.side
          /\ SumFunctionOnSet(Flows(s), S \cup {k}) = total + Flow(o)
      BY <2>3, <2>4, <2>7 DEF q, total
    <2>10. FoldedTo(AddAt(acc, o, t), s, Before(s, t, k))
      BY <2>1, <2>5, <2>8, <2>9 DEF FoldedTo
    <2>11. QED
      BY <2>10 DEF o, k
  <1>4. CASE ~(o.fill.qty > 0 /\ o.fill.ts = t)
    <2>1. Before(s, t, k) = S
      <3>1. \A i \in DOMAIN s : i <= m + 1 <=> (i <= m \/ i = m + 1)
        BY <1>1
      <3>2. QED
        BY <1>1, <1>4, <3>1 DEF Before
    <2>2. AddAt(acc, o, t) = acc
      BY <1>4 DEF AddAt
    <2>3. QED
      BY <2>1, <2>2
  <1>5. QED
    BY <1>3, <1>4

\* All fills of one instant.
LEMMA AddAllKeeps ==
  ASSUME NEW s \in Seq(Orders), NEW t \in Nat, NEW acc, FoldedTo(acc, s, Before(s, t, 0))
  PROVE  FoldedTo(AddAll(acc, s, t), s, Before(s, t + 1, 0))
  <1> DEFINE n == Len(s)
             g == Adding(acc, s, t)
             Good == {m \in Nat : m <= n => FoldedTo(g[1..m], s, Before(s, t, m))}
  <1>1. n \in Nat /\ DOMAIN s = 1..n /\ \A i \in 1..n : s[i] \in Orders
    OBVIOUS
  <1>2. acc \in Neat
    BY NeatIsFolded DEF FoldedTo
  <1>3. /\ g[1..0] = acc
        /\ \A m \in 0..(n - 1) : g[1..(m + 1)] = AddAt(g[1..m], s[m + 1], t)
    BY <1>2, AddingSteps
  <1> HIDE DEF g
  <1>4. 0 \in Good
    BY <1>3
  <1>5. ASSUME NEW m \in Nat, m \in Good PROVE m + 1 \in Good
    <2> SUFFICES ASSUME m + 1 <= n PROVE FoldedTo(g[1..(m + 1)], s, Before(s, t, m + 1))
      OBVIOUS
    <2>1. m \in 0..(n - 1) /\ m <= n
      BY <1>1
    <2>2. FoldedTo(g[1..m], s, Before(s, t, m))
      BY <1>5, <2>1
    <2>3. g[1..(m + 1)] = AddAt(g[1..m], s[m + 1], t)
      BY <1>3, <2>1
    <2>4. QED
      BY <2>1, <2>2, <2>3, AddAtKeeps
  <1> HIDE DEF Good
  <1>6. n \in Good
    BY <1>1, <1>4, <1>5, NatSetInduction
  <1>7. FoldedTo(g[1..n], s, Before(s, t, n))
    BY <1>1, <1>6 DEF Good
  <1>8. Before(s, t, n) = Before(s, t + 1, 0)
    <2>1. \A i \in 1..n : s[i].fill.ts \in Nat
      BY <1>1 DEF Orders, Fills
    <2>2. \A i \in DOMAIN s : /\ i <= n /\ ~(i <= 0)
                              /\ s[i].fill.ts < t + 1 <=> (s[i].fill.ts < t \/ s[i].fill.ts = t)
      BY <1>1, <2>1
    <2>3. QED
      BY <2>2 DEF Before
  <1>9. QED
    BY <1>1, <1>7, <1>8 DEF AddAll, g

LEMMA AddAllType ==
  ASSUME NEW s \in Seq(Orders), NEW acc \in Neat, NEW t
  PROVE  AddAll(acc, s, t) \in Neat
  <1> DEFINE n == Len(s)
             g == Adding(acc, s, t)
             Good == {m \in Nat : m <= n => g[1..m] \in Neat}
  <1>1. n \in Nat /\ DOMAIN s = 1..n /\ \A i \in 1..n : s[i] \in Orders
    OBVIOUS
  <1>2. /\ g[1..0] = acc
        /\ \A m \in 0..(n - 1) : g[1..(m + 1)] = AddAt(g[1..m], s[m + 1], t)
    BY AddingSteps
  <1> HIDE DEF g
  <1>3. ASSUME NEW m \in Nat, m \in Good PROVE m + 1 \in Good
    <2> SUFFICES ASSUME m + 1 <= n PROVE g[1..(m + 1)] \in Neat
      OBVIOUS
    <2>1. m \in 0..(n - 1) /\ m <= n /\ m + 1 \in 1..n
      BY <1>1
    <2>2. g[1..m] \in Neat /\ s[m + 1] \in Orders /\ g[1..(m + 1)] = AddAt(g[1..m], s[m + 1], t)
      BY <1>1, <1>2, <1>3, <2>1
    <2>3. QED
      BY <2>2, AddAtType
  <1>4. 0 \in Good
    BY <1>2
  <1> HIDE DEF Good
  <1>5. n \in Good
    BY <1>1, <1>3, <1>4, NatSetInduction
  <1>6. QED
    BY <1>1, <1>5 DEF Good, AddAll, g

LEMMA NoTradesFolded == NoTrades \in Neat /\ Folded(NoTrades, 0, 0)
  <1>1. NoEpisode \in Episodes /\ <<>> \in Seq(Int) /\ Open(NoEpisode) = 0
    BY DEF NoEpisode, Episodes, Open, NetPnl, Sign
  <1>2. QED
    BY <1>1, SumOfEmpty DEF NoTrades, Neat, Accs, Folded, NoEpisode

\* The outer fold takes the instants one after the other.
LEMMA BuildingSteps ==
  ASSUME NEW s \in Seq(Orders), NEW n \in Nat
  PROVE  LET times == [t \in 1..n |-> t]
             g == Building(s, times)
         IN /\ g[1..0] = NoTrades
            /\ \A m \in 0..(n - 1) : g[1..(m + 1)] = AddAll(g[1..m], s, m + 1)
  <1> DEFINE times == [t \in 1..n |-> t]
             step == [d \in (1..n) \X Neat |-> AddAll(d[2], s, d[1])]
             g == Building(s, times)
  <1>1. DOMAIN times = 1..n /\ \A k \in 1..n : times[k] = k
    OBVIOUS
  <1>2. \A k \in 1..n, v \in Neat : AddAll(v, s, k) \in Neat
    BY AddAllType
  <1>3. step \in [(1..n) \X Neat -> Neat] /\ \A k \in 1..n, v \in Neat : step[<<k, v>>] = AddAll(v, s, k)
    BY <1>2
  <1> HIDE DEF step, times
  <1>4. PICK h \in [SUBSET (1..n) -> Neat] : IsFold(h, NoTrades, step, n)
    BY <1>3, NoTradesFolded, FoldExists
  <1>5. IsBuilding(h, s, times, 1..n)
    <2>1. ASSUME NEW u \in SUBSET (1..n)
          PROVE  h[u] = IF u = {} THEN NoTrades ELSE AddAll(h[u \ {Max(u)}], s, times[Max(u)])
      <3>1. h[u] = IF u = {} THEN NoTrades ELSE step[<<Max(u), h[u \ {Max(u)}]>>]
        BY <1>4, Zenon DEF IsFold
      <3>2. u # {} => Max(u) \in 1..n /\ h[u \ {Max(u)}] \in Neat
        BY <1>4, LastPosition
      <3>3. QED
        BY <1>1, <1>3, <3>1, <3>2
    <2>2. h = [u \in SUBSET (1..n) |-> h[u]]
      BY <1>4
    <2>3. QED
      BY <2>1, <2>2, Zenon DEF IsBuilding
  <1>6. IsBuilding(g, s, times, 1..n)
    BY <1>1, <1>5 DEF Building
  <1> HIDE DEF g
  <1>7. \A u \in SUBSET (1..n) :
          g[u] = IF u = {} THEN NoTrades ELSE AddAll(g[u \ {Max(u)}], s, times[Max(u)])
    BY <1>6, Zenon DEF IsBuilding
  <1>8. g[1..0] = NoTrades
    <2>1. 1..0 = {} /\ {} \in SUBSET (1..n)
      OBVIOUS
    <2>2. QED
      BY <1>7, <2>1
  <1>9. ASSUME NEW m \in 0..(n - 1) PROVE g[1..(m + 1)] = AddAll(g[1..m], s, m + 1)
    <2> DEFINE u == 1..(m + 1)
    <2>1. m \in Nat /\ m + 1 <= n /\ m + 1 \in 1..n
      OBVIOUS
    <2>2. u \in SUBSET (1..n) /\ u # {} /\ Max(u) = m + 1 /\ u \ {m + 1} = 1..m
      BY <2>1, UpToNext
    <2> HIDE DEF u
    <2>3. g[u] = AddAll(g[u \ {Max(u)}], s, times[Max(u)])
      BY <1>7, <2>2
    <2>4. QED
      BY <1>1, <2>1, <2>2, <2>3 DEF u
  <1>10. QED
    BY <1>8, <1>9 DEF g, times

\* All fills so far: the trades and what is still open are what the orders made.
LEMMA StreamFolded ==
  ASSUME NEW s \in Seq(Orders), NEW n \in Nat, \A i \in DOMAIN s : s[i].fill.qty > 0 => s[i].fill.ts > 0
  PROVE  FoldedTo(Building(s, [t \in 1..n |-> t])[1..n], s, Before(s, n + 1, 0))
  <1> DEFINE g == Building(s, [t \in 1..n |-> t])
             Good == {m \in Nat : m <= n => FoldedTo(g[1..m], s, Before(s, m + 1, 0))}
  <1>1. /\ g[1..0] = NoTrades
        /\ \A m \in 0..(n - 1) : g[1..(m + 1)] = AddAll(g[1..m], s, m + 1)
    BY BuildingSteps
  <1> HIDE DEF g
  <1>2. 0 \in Good
    <2>1. Before(s, 1, 0) = {}
      <3>1. \A i \in DOMAIN s : s[i].fill.ts \in Nat /\ i > 0
        <4>1. \A i \in DOMAIN s : s[i] \in Orders /\ i > 0
          OBVIOUS
        <4>2. \A o \in Orders : o.fill.ts \in Nat
          BY DEF Orders, Fills
        <4>3. QED
          BY <4>1, <4>2
      <3>2. QED
        BY <3>1 DEF Before
    <2>2. FoldedTo(NoTrades, s, {})
      BY NoTradesFolded, SumOfNone DEF FoldedTo
    <2>3. 0 + 1 = 1
      OBVIOUS
    <2>4. FoldedTo(g[1..0], s, Before(s, 0 + 1, 0))
      BY <1>1, <2>1, <2>2, <2>3
    <2>5. QED
      BY <2>4
  <1>3. ASSUME NEW m \in Nat, m \in Good PROVE m + 1 \in Good
    <2> SUFFICES ASSUME m + 1 <= n PROVE FoldedTo(g[1..(m + 1)], s, Before(s, (m + 1) + 1, 0))
      OBVIOUS
    <2>1. m \in 0..(n - 1) /\ m <= n /\ m + 1 \in Nat
      OBVIOUS
    <2>2. FoldedTo(g[1..m], s, Before(s, m + 1, 0)) /\ g[1..(m + 1)] = AddAll(g[1..m], s, m + 1)
      BY <1>1, <1>3, <2>1
    <2>3. QED
      BY <2>1, <2>2, AddAllKeeps
  <1> HIDE DEF Good
  <1>4. n \in Good
    BY <1>2, <1>3, NatSetInduction
  <1>5. QED
    BY <1>4 DEF Good, g

\* The trades analytics folds from the stored fills sum to what a flat book has
\* made, whatever was scaled into, closed in part or turned through zero.
THEOREM TradesAccount == EngineSpec => []TradesAccountForTheBook
  <1>1. EngineInv => TradesAccountForTheBook
    <2> SUFFICES ASSUME EngineInv, book.pos.qty = 0 PROVE SumOf(BuildTrades) = book.cash - Start
      BY DEF TradesAccountForTheBook
    <2> DEFINE s == book.orders
               S == Before(s, now + 1, 0)
               acc == Building(s, [t \in 1..now |-> t])[1..now]
    <2>1. /\ s \in Seq(Orders) /\ now \in Nat /\ book.cash = Start + SumOf(Flows(s)) /\ SumOf(Moves(s)) = 0
          /\ \A i \in DOMAIN s : s[i].fill = NoFill \/ (s[i].fill.qty > 0 /\ s[i].fill.ts > 0 /\ s[i].fill.ts <= now)
      BY DEF EngineInv, BookOK, Books, Ledger, Stamped
    <2>2. BuildTrades = acc.trades
      <3>1. DOMAIN [t \in 1..now |-> t] = 1..now
        OBVIOUS
      <3>2. QED
        BY <3>1, BuildTradesIsBuilding
    <2> HIDE DEF s
    <2>3. FoldedTo(acc, s, S)
      <3>1. \A i \in DOMAIN s : s[i].fill.qty > 0 => s[i].fill.ts > 0
        BY <2>1 DEF NoFill
      <3>2. QED
        BY <2>1, <3>1, StreamFolded
    <2> HIDE DEF acc
    <2>4. /\ IsFiniteSet(DOMAIN s) /\ S \in SUBSET (DOMAIN s) /\ Ints(Flows(s), S) /\ Ints(Moves(s), S)
          /\ Ints(Flows(s), DOMAIN s) /\ DOMAIN Flows(s) = DOMAIN s /\ DOMAIN Moves(s) = DOMAIN s
      BY <2>1, SeqSums DEF Before, Ints, Flows, Moves
    <2>5. \A i \in DOMAIN s \ S : s[i].fill = NoFill
      <3>1. \A i \in DOMAIN s : s[i].fill.ts \in Nat
        <4>1. \A o \in Orders : o.fill.ts \in Nat
          BY DEF Orders, Fills
        <4>2. QED
          BY <2>1, <4>1, SeqSums
      <3>2. \A i \in DOMAIN s : s[i].fill.ts <= now => s[i].fill.ts < now + 1
        BY <2>1, <3>1
      <3>3. QED
        BY <2>1, <3>2 DEF Before
    <2>6. \A i \in DOMAIN s \ S : Flows(s)[i] = 0 /\ Moves(s)[i] = 0
      BY <2>1, <2>5, SeqSums, OrderTypes DEF Flows, Moves
    <2> HIDE DEF S
    <2>7. /\ SumOf(Flows(s)) = SumFunctionOnSet(Flows(s), S) /\ SumOf(Moves(s)) = SumFunctionOnSet(Moves(s), S)
      BY <2>4, <2>6, SumOverSubset DEF SumOf
    <2>8. acc \in Accs /\ acc.episode = NoEpisode /\ SumOf(acc.trades) + Open(acc.episode) = SumOf(Flows(s))
      BY <2>1, <2>3, <2>7 DEF FoldedTo, Folded
    <2>9. Open(NoEpisode) = 0
      BY DEF NoEpisode, Open, NetPnl, Sign
    <2>10. SumOf(acc.trades) \in Int /\ SumOf(Flows(s)) \in Int /\ Start \in Int
      BY <2>4, <2>8, SumAppend, SumType, EngineAssumption DEF SumOf, Accs, Start
    <2>11. QED
      BY <2>1, <2>2, <2>8, <2>9, <2>10
  <1>2. QED
    BY <1>1, BookIsInvariant, PTL

-----------------------------------------------------------------------------
(* The paper run: what the simulated broker does with one order. *)

PaperOrders == [key : Nat, side : {1, -1}, qty : Nat, limit : Int, at : Nat,
                status : {"SUBMITTED", "FILLED", "EXPIRED"}, fills : Seq(Fills)]
Venues == [cash : Int, pos : Positions, orders : Seq(PaperOrders), open : SUBSET Nat]

\* What has been filled of an order adds up to a whole number, of none to nothing.
IsAddingUp(g, s, S) ==
  g = [u \in SUBSET S |-> IF u = {} THEN 0 ELSE g[u \ {Max(u)}] + s[Max(u)].qty]
AddingUp(s) == CHOOSE g : IsAddingUp(g, s, DOMAIN s)

LEMMA RemainingIsAddingUp == \A o : Remaining(o) = o.qty - AddingUp(o.fills)[DOMAIN o.fills]
  BY DEF Remaining, FoldLeft, MapThenFoldSet, AddingUp, IsAddingUp

LEMMA RemainingType ==
  ASSUME NEW o \in PaperOrders
  PROVE  Remaining(o) \in Int /\ (o.fills = <<>> => Remaining(o) = o.qty)
  <1> DEFINE s == o.fills
             n == Len(s)
             step == [d \in (1..n) \X Int |-> d[2] + s[d[1]].qty]
             g == AddingUp(s)
  <1>1. s \in Seq(Fills) /\ n \in Nat /\ DOMAIN s = 1..n /\ o.qty \in Int /\ Remaining(o) = o.qty - g[DOMAIN s]
    BY RemainingIsAddingUp DEF PaperOrders
  <1>2. \A k \in 1..n : s[k].qty \in Int
    <2>1. \A k \in 1..n : s[k] \in Fills
      BY <1>1
    <2>2. \A f \in Fills : f.qty \in Int
      BY DEF Fills
    <2>3. QED
      BY <2>1, <2>2
  <1>3. step \in [(1..n) \X Int -> Int] /\ \A k \in 1..n, v \in Int : step[<<k, v>>] = v + s[k].qty
    BY <1>2
  <1>4. 0 \in Int
    OBVIOUS
  <1> HIDE DEF step, n, s
  <1>5. PICK h \in [SUBSET (1..n) -> Int] : IsFold(h, 0, step, n)
    BY <1>1, <1>3, <1>4, FoldExists
  <1>6. IsAddingUp(h, s, 1..n)
    <2>1. ASSUME NEW u \in SUBSET (1..n)
          PROVE  h[u] = IF u = {} THEN 0 ELSE h[u \ {Max(u)}] + s[Max(u)].qty
      <3>1. h[u] = IF u = {} THEN 0 ELSE step[<<Max(u), h[u \ {Max(u)}]>>]
        BY <1>5, Zenon DEF IsFold
      <3>2. u # {} => Max(u) \in 1..n /\ h[u \ {Max(u)}] \in Int
        BY <1>1, <1>5, LastPosition
      <3>3. QED
        BY <1>3, <3>1, <3>2
    <2>2. h = [u \in SUBSET (1..n) |-> h[u]]
      BY <1>5
    <2>3. QED
      BY <2>1, <2>2, Zenon DEF IsAddingUp
  <1>7. IsAddingUp(g, s, 1..n)
    BY <1>1, <1>6 DEF AddingUp
  <1> HIDE DEF g
  <1>8. g[1..n] \in Int /\ (1..n = {} => g[1..n] = 0)
    <2> DEFINE Good == {m \in Nat : m <= n => g[1..m] \in Int}
    <2>1. \A u \in SUBSET (1..n) : g[u] = IF u = {} THEN 0 ELSE g[u \ {Max(u)}] + s[Max(u)].qty
      BY <1>7, Zenon DEF IsAddingUp
    <2>2. 0 \in Good
      <3>1. 1..0 = {} /\ {} \in SUBSET (1..n)
        OBVIOUS
      <3>2. g[1..0] = 0
        BY <2>1, <3>1
      <3>3. 0 \in Nat /\ g[1..0] \in Int
        BY <3>2
      <3>4. QED
        BY <3>3
    <2>3. ASSUME NEW m \in Nat, m \in Good PROVE m + 1 \in Good
      <3> SUFFICES ASSUME m + 1 <= n PROVE g[1..(m + 1)] \in Int
        OBVIOUS
      <3> DEFINE u == 1..(m + 1)
      <3>1. u \in SUBSET (1..n) /\ u # {} /\ Max(u) = m + 1 /\ u \ {m + 1} = 1..m
        BY <1>1, UpToNext
      <3> HIDE DEF u
      <3>2. g[u] = g[1..m] + s[m + 1].qty
        BY <2>1, <3>1
      <3>3. g[1..m] \in Int /\ s[m + 1].qty \in Int
        BY <1>1, <1>2, <2>3
      <3>4. QED
        BY <3>2, <3>3 DEF u
    <2> HIDE DEF Good
    <2>4. n \in Good
      BY <1>1, <2>2, <2>3, NatSetInduction
    <2>5. 1..n \in SUBSET (1..n)
      OBVIOUS
    <2>6. 1..n = {} => g[1..n] = 0
      BY <2>1, <2>5, Zenon
    <2>7. n <= n => g[1..n] \in Int
      BY <2>4 DEF Good
    <2>8. n <= n
      BY <1>1
    <2>9. QED
      BY <2>6, <2>7, <2>8
  <1>9. s = <<>> => 1..n = {}
    BY <1>1
  <1>10. QED
    BY <1>1, <1>8, <1>9 DEF s

\* The terms of an order, which nothing changes.
SameTerms(p, o) == p.key = o.key /\ p.side = o.side /\ p.qty = o.qty /\ p.limit = o.limit /\ p.at = o.at

\* An order that is retired keeps its terms and its fills.
LEMMA RetireFacts ==
  ASSUME NEW v \in Venues, NEW i \in DOMAIN v.orders, NEW status \in {"FILLED", "EXPIRED"}
  PROVE  LET r == Retire(v, i, status)
         IN /\ r \in Venues /\ DOMAIN r.orders = DOMAIN v.orders
            /\ r.open = v.open \ {i} /\ r.cash = v.cash /\ r.pos = v.pos
            /\ \A j \in DOMAIN v.orders : j # i => r.orders[j] = v.orders[j]
            /\ SameTerms(r.orders[i], v.orders[i]) /\ r.orders[i].fills = v.orders[i].fills
  <1> DEFINE s == v.orders
             p == [s[i] EXCEPT !.status = status]
             r == Retire(v, i, status)
  <1>1. s \in Seq(PaperOrders) /\ s[i] \in PaperOrders /\ i \in DOMAIN s
    BY DEF Venues
  <1>2. p \in PaperOrders /\ SameTerms(p, s[i]) /\ p.fills = s[i].fills
    BY <1>1 DEF PaperOrders, SameTerms
  <1>3. r = [v EXCEPT !.open = v.open \ {i}, !.orders = [s EXCEPT ![i] = p]]
    BY <1>1 DEF Retire, Venues
  <1> HIDE DEF p
  <1>4. /\ [s EXCEPT ![i] = p] \in Seq(PaperOrders) /\ DOMAIN [s EXCEPT ![i] = p] = DOMAIN s
        /\ [s EXCEPT ![i] = p][i] = p /\ \A j \in DOMAIN s : j # i => [s EXCEPT ![i] = p][j] = s[j]
    <2> HIDE DEF s
    <2>1. QED
      BY <1>1, <1>2
  <1> HIDE DEF s, r
  <1>5. /\ r \in Venues /\ r.orders = [s EXCEPT ![i] = p] /\ r.open = v.open \ {i}
        /\ r.cash = v.cash /\ r.pos = v.pos
    BY <1>3, <1>4 DEF Venues
  <1>6. QED
    BY <1>2, <1>4, <1>5 DEF s, r

\* A fill is booked on its order, on the position and in cash.
LEMMA BookFacts ==
  ASSUME NEW v \in Venues, NEW i \in DOMAIN v.orders, NEW f \in Fills
  PROVE  LET o == v.orders[i]
             r == Book(v, i, f)
         IN /\ r \in Venues /\ DOMAIN r.orders = DOMAIN v.orders /\ r.open = v.open
            /\ r.cash = v.cash - (f.qty * f.price * o.side + f.fee)
            /\ r.pos.qty = v.pos.qty + f.qty * o.side
            /\ \A j \in DOMAIN v.orders : j # i => r.orders[j] = v.orders[j]
            /\ SameTerms(r.orders[i], o) /\ r.orders[i].fills = Append(o.fills, f)
  <1> DEFINE s == v.orders
             o == s[i]
             p == [o EXCEPT !.fills = Append(@, f)]
             pos == ApplyFill(v.pos, f.qty * o.side, f.price, f.fee)
             cash == v.cash - (f.qty * f.price * o.side + f.fee)
             r == Book(v, i, f)
  <1>1. s \in Seq(PaperOrders) /\ o \in PaperOrders /\ i \in DOMAIN s
    BY DEF Venues
  <1>2. o.fills \in Seq(Fills) /\ o.side \in {1, -1} /\ v.pos \in Positions /\ v.cash \in Int
        /\ f.qty \in Nat /\ f.price \in Int /\ f.fee \in Int
    BY <1>1 DEF PaperOrders, Venues, Fills
  <1>3. p \in PaperOrders /\ SameTerms(p, o) /\ p.fills = Append(o.fills, f)
    <2>1. Append(o.fills, f) \in Seq(Fills)
      BY <1>2
    <2> HIDE DEF o
    <2>2. QED
      BY <1>1, <2>1 DEF PaperOrders, SameTerms
  <1>4. r = [v EXCEPT !.orders = [s EXCEPT ![i] = p], !.pos = pos, !.cash = cash]
    BY <1>1 DEF Book, Venues
  <1>5. pos \in Positions /\ pos.qty = v.pos.qty + f.qty * o.side /\ cash \in Int
    <2>1. f.qty * o.side \in Int /\ f.qty * f.price * o.side \in Int
      BY <1>2
    <2>2. v.cash - (f.qty * f.price * o.side + f.fee) \in Int
      BY <1>2, <2>1
    <2> DEFINE moved == f.qty * o.side
    <2>3. moved \in Int
      BY <2>1
    <2> HIDE DEF moved
    <2>4. ApplyFill(v.pos, moved, f.price, f.fee) \in Positions
          /\ ApplyFill(v.pos, moved, f.price, f.fee).qty = v.pos.qty + moved
      <3>1. Filled(ApplyFill(v.pos, moved, f.price, f.fee), v.pos, moved, f.fee)
        BY <1>2, <2>3, ApplyFillType, Zenon
      <3>2. QED
        BY <3>1 DEF Filled
    <2>5. QED
      BY <2>2, <2>4 DEF moved
  <1> HIDE DEF p, pos, cash
  <1>6. /\ [s EXCEPT ![i] = p] \in Seq(PaperOrders) /\ DOMAIN [s EXCEPT ![i] = p] = DOMAIN s
        /\ [s EXCEPT ![i] = p][i] = p /\ \A j \in DOMAIN s : j # i => [s EXCEPT ![i] = p][j] = s[j]
    <2> HIDE DEF s
    <2>1. QED
      BY <1>1, <1>3
  <1> HIDE DEF s, r
  <1>7. /\ r \in Venues /\ r.orders = [s EXCEPT ![i] = p] /\ r.open = v.open
        /\ r.cash = cash /\ r.pos = pos
    BY <1>4, <1>5, <1>6 DEF Venues
  <1>8. QED
    BY <1>3, <1>5, <1>6, <1>7 DEF s, r, cash

\* The fill of an order that bar x touches, if it has volume for one.
MetFill(o, x, t) ==
  LET touched == IntendedPrice(o, x)
      price == touched + Slippage(o.side, touched)
      qty == Least(Remaining(o), x.cap)
  IN [ts |-> t, qty |-> qty, intended |-> touched, price |-> price,
      fee |-> Commission(o.side, price, qty)]

\* What one order that meets a bar does.
LEMMA MeetFacts ==
  ASSUME NEW v \in Venues, NEW i \in DOMAIN v.orders, NEW x \in Bars, NEW t \in Nat
  PROVE  LET o == v.orders[i]
             f == MetFill(o, x, t)
             r == Meet(v, i, x, t)
         IN /\ r \in Venues /\ DOMAIN r.orders = DOMAIN v.orders /\ SameTerms(r.orders[i], o)
            /\ \A j \in DOMAIN v.orders : j # i => r.orders[j] = v.orders[j]
            /\ IntendedPrice(o, x) = None =>
                 /\ r.open = v.open \ {i} /\ r.cash = v.cash /\ r.pos = v.pos
                 /\ r.orders[i].fills = o.fills
            /\ IntendedPrice(o, x) # None /\ f.qty > 0 =>
                 /\ r.open = v.open \ {i} /\ r.orders[i].fills = Append(o.fills, f)
                 /\ r.cash = v.cash - (f.qty * f.price * o.side + f.fee)
                 /\ r.pos.qty = v.pos.qty + f.qty * o.side
  <1> DEFINE o == v.orders[i]
             f == MetFill(o, x, t)
             touched == IntendedPrice(o, x)
             booked == Book(v, i, f)
             status == IF Remaining(booked.orders[i]) > 0 THEN "EXPIRED" ELSE "FILLED"
             r == Meet(v, i, x, t)
  <1>1. o \in PaperOrders /\ x.open \in Nat /\ x.high \in Nat /\ x.low \in Nat /\ x.cap \in Nat
    BY BarsAssumption DEF Venues
  <1>2. o.side \in {1, -1} /\ o.limit \in Int /\ Remaining(o) \in Int
    BY <1>1, RemainingType DEF PaperOrders
  <1>3. touched \in Int
    <2> HIDE DEF o
    <2>1. QED
      BY <1>1, <1>2 DEF IntendedPrice, None, Least, Most
  <1>4. /\ f = [ts |-> t, qty |-> f.qty, intended |-> touched, price |-> f.price, fee |-> f.fee]
        /\ f.qty = Least(Remaining(o), x.cap) /\ f.price = touched + Slippage(o.side, touched)
        /\ f.fee = Commission(o.side, f.price, f.qty)
    BY DEF MetFill
  <1>5. r = IF touched = None THEN Retire(v, i, "EXPIRED")
            ELSE IF f.qty <= 0 THEN v ELSE Retire(booked, i, status)
    BY DEF Meet, MetFill
  <1> HIDE DEF f, touched, r, o
  <1>6. f.qty \in Int
    BY <1>1, <1>2, <1>4 DEF Least
  <1>7. SameTerms(o, o) /\ v.orders[i] = o
    BY DEF SameTerms, o
  <1>8. CASE touched = None
    <2>1. r = Retire(v, i, "EXPIRED")
      BY <1>5, <1>8
    <2>2. /\ r \in Venues /\ DOMAIN r.orders = DOMAIN v.orders
          /\ r.open = v.open \ {i} /\ r.cash = v.cash /\ r.pos = v.pos
          /\ \A j \in DOMAIN v.orders : j # i => r.orders[j] = v.orders[j]
          /\ SameTerms(r.orders[i], v.orders[i]) /\ r.orders[i].fills = v.orders[i].fills
      BY <2>1, RetireFacts
    <2>3. QED
      BY <1>8, <2>2 DEF o, r, touched, f
  <1>9. CASE touched # None /\ f.qty <= 0
    <2>1. r = v /\ ~(f.qty > 0)
      BY <1>5, <1>6, <1>9
    <2>2. QED
      BY <1>7, <1>9, <2>1 DEF o, r, touched, f
  <1>10. CASE touched # None /\ f.qty > 0
    <2>1. f.qty \in Nat
      BY <1>6, <1>10
    <2>2. Slippage(o.side, touched) \in Int
      BY <1>2, <1>3, <2>1, CostTypes
    <2>3. f.price \in Int
      BY <1>3, <1>4, <2>2
    <2>4. Commission(o.side, f.price, f.qty) \in Int
      BY <1>2, <2>1, <2>3, CostTypes
    <2>5. f \in Fills
      BY <1>3, <1>4, <2>1, <2>3, <2>4 DEF Fills
    <2>6. /\ booked \in Venues /\ DOMAIN booked.orders = DOMAIN v.orders /\ booked.open = v.open
          /\ booked.cash = v.cash - (f.qty * f.price * o.side + f.fee)
          /\ booked.pos.qty = v.pos.qty + f.qty * o.side
          /\ \A j \in DOMAIN v.orders : j # i => booked.orders[j] = v.orders[j]
          /\ SameTerms(booked.orders[i], o) /\ booked.orders[i].fills = Append(o.fills, f)
      BY <2>5, BookFacts DEF o
    <2>7. r = Retire(booked, i, status) /\ status \in {"FILLED", "EXPIRED"}
      BY <1>5, <1>6, <1>10
    <2> HIDE DEF booked, status
    <2>8. /\ r \in Venues /\ DOMAIN r.orders = DOMAIN booked.orders
          /\ r.open = booked.open \ {i} /\ r.cash = booked.cash /\ r.pos = booked.pos
          /\ \A j \in DOMAIN booked.orders : j # i => r.orders[j] = booked.orders[j]
          /\ SameTerms(r.orders[i], booked.orders[i]) /\ r.orders[i].fills = booked.orders[i].fills
      BY <2>6, <2>7, RetireFacts
    <2>9. SameTerms(r.orders[i], o)
      BY <2>6, <2>8 DEF SameTerms
    <2>10. /\ r.cash = v.cash - (f.qty * f.price * o.side + f.fee)
           /\ r.pos.qty = v.pos.qty + f.qty * o.side
      BY <2>6, <2>8, Zenon
    <2>11. /\ \A j \in DOMAIN v.orders : j # i => r.orders[j] = v.orders[j]
           /\ r.open = v.open \ {i} /\ r.orders[i].fills = Append(o.fills, f)
           /\ DOMAIN r.orders = DOMAIN v.orders
      BY <2>6, <2>8
    <2>12. QED
      BY <1>10, <2>8, <2>9, <2>10, <2>11, Zenon DEF o, r, touched, f
  <1>11. QED
    BY <1>6, <1>8, <1>9, <1>10

\* An order that is accepted is open, the last, and has no fill.
LEMMA AcceptFacts ==
  ASSUME NEW v \in Venues, NEW key \in Nat, NEW o \in Orders, NEW t \in Nat
  PROVE  LET r == Accept(v, key, o, t)
             n == Len(v.orders) + 1
         IN /\ r \in Venues /\ r.open = v.open \cup {n} /\ r.cash = v.cash /\ r.pos = v.pos
            /\ n \in Nat /\ DOMAIN r.orders = DOMAIN v.orders \cup {n}
            /\ \A j \in DOMAIN v.orders : r.orders[j] = v.orders[j]
            /\ r.orders[n] = [key |-> key, side |-> o.side, qty |-> o.qty, limit |-> o.limit,
                              at |-> t, status |-> "SUBMITTED", fills |-> <<>>]
  <1> DEFINE s == v.orders
             p == [key |-> key, side |-> o.side, qty |-> o.qty, limit |-> o.limit,
                   at |-> t, status |-> "SUBMITTED", fills |-> <<>>]
             n == Len(s) + 1
             r == Accept(v, key, o, t)
  <1>1. s \in Seq(PaperOrders) /\ v.open \in SUBSET Nat
    BY DEF Venues
  <1>2. p \in PaperOrders
    BY DEF Orders, PaperOrders
  <1>3. r = [v EXCEPT !.orders = Append(s, p), !.open = v.open \cup {n}]
    BY DEF Accept, Venues
  <1> HIDE DEF p
  <1>4. /\ Append(s, p) \in Seq(PaperOrders) /\ n \in Nat
        /\ DOMAIN Append(s, p) = DOMAIN s \cup {n} /\ Append(s, p)[n] = p
        /\ \A j \in DOMAIN s : Append(s, p)[j] = s[j]
    <2> HIDE DEF s
    <2>1. QED
      BY <1>1, <1>2
  <1> HIDE DEF n, s, r
  <1>5. /\ r \in Venues /\ r.orders = Append(s, p) /\ r.open = v.open \cup {n}
        /\ r.cash = v.cash /\ r.pos = v.pos
    BY <1>1, <1>3, <1>4 DEF Venues
  <1>6. QED
    BY <1>4, <1>5 DEF n, s, r, p

-----------------------------------------------------------------------------
(* The paper run and the backtest, order by order. *)

\* Order x of the venue is order i of the backtest, o.
Twin(o, x, i) ==
  /\ x.key = i /\ x.side = o.side /\ x.qty = o.qty /\ x.limit = o.limit
  /\ x.fills = IF o.fill = NoFill THEN <<>> ELSE <<o.fill>>

\* Venue v holds the orders of book b, none of them from after bar d, its cash
\* and its quantity; open are those in w, which have yet to be filled.
InStep(b, v, w, d) ==
  /\ v \in Venues /\ DOMAIN v.orders = DOMAIN b.orders /\ v.open = w
  /\ v.cash = b.cash /\ v.pos.qty = b.pos.qty
  /\ \A i \in DOMAIN b.orders : Twin(b.orders[i], v.orders[i], i) /\ v.orders[i].at <= d
  /\ \A i \in w : i \in DOMAIN b.orders /\ b.orders[i].fill = NoFill /\ b.orders[i].qty > 0

\* On a bar that traded an order that is open at both is filled at both, by the
\* same fill, or at neither.
LEMMA MeetInStep ==
  ASSUME NEW b \in Books, NEW v, NEW w, NEW d, InStep(b, v, w, d),
         NEW i \in w, NEW x \in Bars, x.cap > 0, NEW t \in Nat
  PROVE  InStep(FillOne(b, i, x, t), Meet(v, i, x, t), w \ {i}, d)
  <1> DEFINE o == b.orders[i]
             p == v.orders[i]
             price == IntendedPrice(o, x)
             f == FillOf(b, i, x, t, price)
             r == FillOne(b, i, x, t)
             u == Meet(v, i, x, t)
  <1>1. /\ v \in Venues /\ DOMAIN v.orders = DOMAIN b.orders /\ v.open = w
        /\ v.cash = b.cash /\ v.pos.qty = b.pos.qty
        /\ \A j \in DOMAIN b.orders : Twin(b.orders[j], v.orders[j], j) /\ v.orders[j].at <= d
        /\ \A j \in w : j \in DOMAIN b.orders /\ b.orders[j].fill = NoFill /\ b.orders[j].qty > 0
    BY DEF InStep
  <1>2. /\ o \in Orders /\ p \in PaperOrders /\ x.cap \in Nat
        /\ o.fill = NoFill /\ o.qty > 0 /\ Twin(o, p, i)
    BY <1>1, BarsAssumption DEF Books, Venues
  <1>3. /\ o.qty \in Nat /\ p.side = o.side /\ p.limit = o.limit /\ p.fills = <<>> /\ p.qty = o.qty
    BY <1>2 DEF Twin, Orders
  <1>4. Remaining(p) = o.qty
    BY <1>2, <1>3, RemainingType
  <1>5. IntendedPrice(p, x) = price
    BY <1>3 DEF IntendedPrice
  <1>6. MetFill(p, x, t) = f
    BY <1>3, <1>4, <1>5 DEF MetFill, FillOf
  <1>7. f.qty > 0 /\ f # NoFill
    <2>1. f.qty = Least(o.qty, x.cap)
      BY DEF FillOf
    <2> HIDE DEF f, o
    <2>2. f.qty > 0
      BY <1>2, <1>3, <2>1 DEF Least
    <2>3. QED
      BY <2>2 DEF NoFill
  <1>8. /\ u \in Venues /\ DOMAIN u.orders = DOMAIN v.orders /\ SameTerms(u.orders[i], p)
        /\ \A j \in DOMAIN v.orders : j # i => u.orders[j] = v.orders[j]
        /\ price = None =>
             u.open = v.open \ {i} /\ u.cash = v.cash /\ u.pos = v.pos /\ u.orders[i].fills = p.fills
        /\ price # None =>
             /\ u.open = v.open \ {i} /\ u.orders[i].fills = Append(p.fills, f)
             /\ u.cash = v.cash - (f.qty * f.price * p.side + f.fee)
             /\ u.pos.qty = v.pos.qty + f.qty * p.side
    <2> HIDE DEF f, u, price
    <2>1. LET q == v.orders[i]
              e == MetFill(q, x, t)
              a == Meet(v, i, x, t)
          IN /\ a \in Venues /\ DOMAIN a.orders = DOMAIN v.orders /\ SameTerms(a.orders[i], q)
             /\ \A j \in DOMAIN v.orders : j # i => a.orders[j] = v.orders[j]
             /\ IntendedPrice(q, x) = None =>
                  /\ a.open = v.open \ {i} /\ a.cash = v.cash /\ a.pos = v.pos
                  /\ a.orders[i].fills = q.fills
             /\ IntendedPrice(q, x) # None /\ e.qty > 0 =>
                  /\ a.open = v.open \ {i} /\ a.orders[i].fills = Append(q.fills, e)
                  /\ a.cash = v.cash - (e.qty * e.price * q.side + e.fee)
                  /\ a.pos.qty = v.pos.qty + e.qty * q.side
      BY <1>1, MeetFacts
    <2>2. QED
      BY <1>5, <1>6, <1>7, <2>1, Zenon DEF u
  <1>9. /\ price = None => r = b
        /\ price # None =>
             /\ r.orders = [b.orders EXCEPT ![i].fill = f]
             /\ r.cash = b.cash - (f.qty * f.price * o.side + f.fee)
             /\ r.pos.qty = b.pos.qty + f.qty * o.side
    <2>1. price \in Int
      BY <1>2, IntendedFacts
    <2>2. r = IF price = None THEN b ELSE Execute(b, i, x, t, price)
      BY DEF FillOne
    <2>3. f.qty # 0
      <3> HIDE DEF f
      <3>1. QED
        BY <1>7
    <2> HIDE DEF f, r, price
    <2>4. ASSUME price # None
          PROVE  /\ r.orders = [b.orders EXCEPT ![i].fill = f]
                 /\ r.cash = b.cash - (f.qty * f.price * o.side + f.fee)
                 /\ r.pos.qty = b.pos.qty + f.qty * o.side
      BY <1>1, <2>1, <2>2, <2>3, <2>4, ExecuteFacts DEF f
    <2>5. QED
      BY <2>2, <2>4
  <1> HIDE DEF f, u, r, price, o, p
  <1>10. CASE price = None
    <2>1. r = b /\ u.open = w \ {i} /\ u.cash = b.cash /\ u.pos.qty = b.pos.qty
      BY <1>1, <1>8, <1>9, <1>10
    <2>2. Twin(o, u.orders[i], i) /\ u.orders[i].at <= d
      BY <1>1, <1>2, <1>8, <1>10 DEF Twin, SameTerms, p
    <2>3. \A j \in DOMAIN b.orders : Twin(b.orders[j], u.orders[j], j) /\ u.orders[j].at <= d
      BY <1>1, <1>8, <2>2 DEF o
    <2>4. InStep(b, u, w \ {i}, d)
      BY <1>1, <1>8, <2>1, <2>3 DEF InStep
    <2>5. QED
      BY <2>1, <2>4 DEF u, r
  <1>11. CASE price # None
    <2>1. /\ u.open = w \ {i} /\ u.cash = r.cash /\ u.pos.qty = r.pos.qty
          /\ u.orders[i].fills = <<f>>
      <3>1. Append(p.fills, f) = <<f>>
        BY <1>3
      <3>2. QED
        BY <1>1, <1>3, <1>8, <1>9, <1>11, <3>1, Zenon
    <2>2. /\ DOMAIN r.orders = DOMAIN b.orders
          /\ r.orders[i] = [o EXCEPT !.fill = f]
          /\ \A j \in DOMAIN b.orders : j # i => r.orders[j] = b.orders[j]
      BY <1>1, <1>9, <1>11 DEF o
    <2>3. /\ r.orders[i].side = o.side /\ r.orders[i].qty = o.qty /\ r.orders[i].limit = o.limit
          /\ r.orders[i].fill = f
      BY <1>2, <2>2 DEF Orders
    <2>4. Twin(r.orders[i], u.orders[i], i) /\ u.orders[i].at <= d
      BY <1>1, <1>2, <1>7, <1>8, <2>1, <2>3 DEF Twin, SameTerms, p
    <2>5. \A j \in DOMAIN r.orders : Twin(r.orders[j], u.orders[j], j) /\ u.orders[j].at <= d
      BY <1>1, <1>8, <2>2, <2>4
    <2>6. \A j \in w \ {i} : j \in DOMAIN r.orders /\ r.orders[j].fill = NoFill /\ r.orders[j].qty > 0
      BY <1>1, <2>2
    <2>7. InStep(r, u, w \ {i}, d)
      BY <1>1, <1>8, <2>1, <2>2, <2>5, <2>6 DEF InStep
    <2>8. QED
      BY <2>7 DEF u, r
  <1>12. QED
    BY <1>10, <1>11

\* Order i of the venue's meets bar x at instant t, in the middle of the bar,
\* if venue v had it open when the bar opened.
MeetOne(v, acc, i, x, t) ==
  IF i \in v.open /\ MayFillOn(v.orders[i], t - 1) THEN Meet(acc, i, x, t) ELSE acc

Ids(v) == [id \in DOMAIN v.orders |-> id]

IsMeeting(g, v, x, t, s, S) ==
  g = [u \in SUBSET S |-> IF u = {} THEN v ELSE MeetOne(v, g[u \ {Max(u)}], s[Max(u)], x, t)]
Meeting(v, x, t, s) == CHOOSE g : IsMeeting(g, v, x, t, s, DOMAIN s)

LEMMA VenueBarIsMeeting ==
  \A v, x, t : VenueBar(v, x, t) = Meeting(v, x, t, Ids(v))[DOMAIN Ids(v)]
  BY DEF VenueBar, FoldLeft, MapThenFoldSet, Meeting, IsMeeting, MeetOne, Ids

\* The fold exists, and its last value is the venue after the bar.
LEMMA MeetingSteps ==
  ASSUME NEW t \in Nat, NEW x \in Bars, NEW v \in Venues
  PROVE  LET g == Meeting(v, x, t, Ids(v))
             n == Len(v.orders)
         IN /\ g[1..0] = v /\ n \in Nat /\ DOMAIN v.orders = 1..n /\ VenueBar(v, x, t) = g[1..n]
            /\ \A m \in 0..(n - 1) : g[1..(m + 1)] = MeetOne(v, g[1..m], m + 1, x, t)
  <1> DEFINE n == Len(v.orders)
             s == Ids(v)
             V == {u \in Venues : DOMAIN u.orders = DOMAIN v.orders}
             step == [d \in (1..n) \X V |-> MeetOne(v, d[2], s[d[1]], x, t)]
             g == Meeting(v, x, t, s)
  <1>1. /\ n \in Nat /\ DOMAIN v.orders = 1..n /\ DOMAIN s = 1..n /\ \A k \in 1..n : s[k] = k
        /\ v \in V
    BY DEF Venues, Ids
  <1>2. \A k \in 1..n, u \in V : MeetOne(v, u, s[k], x, t) \in V
    <2> SUFFICES ASSUME NEW k \in 1..n, NEW u \in V PROVE MeetOne(v, u, s[k], x, t) \in V
      OBVIOUS
    <2>1. u \in Venues /\ k \in DOMAIN u.orders /\ DOMAIN u.orders = DOMAIN v.orders
      BY <1>1
    <2>2. Meet(u, k, x, t) \in Venues /\ DOMAIN Meet(u, k, x, t).orders = DOMAIN u.orders
      BY <2>1, MeetFacts
    <2>3. Meet(u, k, x, t) \in V
      BY <2>1, <2>2
    <2>4. MeetOne(v, u, k, x, t) \in {u, Meet(u, k, x, t)} /\ s[k] = k
      BY <1>1 DEF MeetOne
    <2>5. QED
      BY <2>3, <2>4
  <1>3. step \in [(1..n) \X V -> V] /\ \A k \in 1..n, u \in V : step[<<k, u>>] = MeetOne(v, u, s[k], x, t)
    BY <1>2
  <1> HIDE DEF step, V, n, s
  <1>4. PICK h \in [SUBSET (1..n) -> V] : IsFold(h, v, step, n)
    BY <1>1, <1>3, FoldExists
  <1>5. IsMeeting(h, v, x, t, s, 1..n)
    <2>1. ASSUME NEW u \in SUBSET (1..n)
          PROVE  h[u] = IF u = {} THEN v ELSE MeetOne(v, h[u \ {Max(u)}], s[Max(u)], x, t)
      <3>1. h[u] = IF u = {} THEN v ELSE step[<<Max(u), h[u \ {Max(u)}]>>]
        BY <1>4, Zenon DEF IsFold
      <3>2. u # {} => Max(u) \in 1..n /\ h[u \ {Max(u)}] \in V
        BY <1>1, <1>4, LastPosition
      <3>3. QED
        BY <1>3, <3>1, <3>2
    <2>2. h = [u \in SUBSET (1..n) |-> h[u]]
      BY <1>4
    <2>3. QED
      BY <2>1, <2>2, Zenon DEF IsMeeting
  <1>6. IsMeeting(g, v, x, t, s, 1..n)
    BY <1>1, <1>5 DEF Meeting
  <1> HIDE DEF g
  <1>7. \A u \in SUBSET (1..n) : g[u] = IF u = {} THEN v ELSE MeetOne(v, g[u \ {Max(u)}], s[Max(u)], x, t)
    BY <1>6, Zenon DEF IsMeeting
  <1>8. g[1..0] = v
    <2>1. 1..0 = {} /\ {} \in SUBSET (1..n)
      OBVIOUS
    <2>2. QED
      BY <1>7, <2>1
  <1>9. ASSUME NEW m \in 0..(n - 1) PROVE g[1..(m + 1)] = MeetOne(v, g[1..m], m + 1, x, t)
    <2> DEFINE u == 1..(m + 1)
    <2>1. m \in Nat /\ m + 1 <= n /\ m + 1 \in 1..n
      BY <1>1
    <2>2. u \in SUBSET (1..n) /\ u # {} /\ Max(u) = m + 1 /\ u \ {m + 1} = 1..m
      BY <1>1, <2>1, UpToNext
    <2> HIDE DEF u
    <2>3. g[u] = MeetOne(v, g[u \ {Max(u)}], s[Max(u)], x, t) /\ s[m + 1] = m + 1
      BY <1>1, <1>7, <2>1, <2>2
    <2>4. QED
      BY <2>2, <2>3 DEF u
  <1>10. VenueBar(v, x, t) = g[1..n]
    BY <1>1, VenueBarIsMeeting DEF g, s
  <1>11. QED
    BY <1>1, <1>8, <1>9, <1>10 DEF g, n, s

\* FillingSteps for all its parameters at once.
FillsInTurn(g, b, x, t, s) ==
  /\ g[1..0] = b
  /\ \A m \in 0..(Len(s) - 1) : g[1..(m + 1)] = FillOne(g[1..m], s[m + 1], x, t)

LEMMA FillingFacts ==
  \A t \in Nat, x \in Bars, b \in Books : \A s \in Seq(DOMAIN b.orders) :
    FillsInTurn(Filling(b, x, t, s), b, x, t, s)
  BY FillingSteps DEF FillsInTurn

\* The bar fills at the venue what it fills in the backtest: what waits in the
\* engine is what is open at the venue, the last orders of both.
LEMMA BarInStep ==
  ASSUME NEW b \in Books, NEW v, NEW d \in Nat, NEW m \in Nat, NEW s \in Seq(DOMAIN b.orders),
         Len(b.orders) = m + Len(s), \A k \in DOMAIN s : s[k] = m + k,
         InStep(b, v, (m + 1)..Len(b.orders), d), NEW x \in Bars, x.cap > 0
  PROVE  InStep(Filling(b, x, d + 1, s)[DOMAIN s], VenueBar(v, x, d + 1), {}, d)
  <1> DEFINE t == d + 1
             n == Len(b.orders)
             c == Len(s)
             g == Filling(b, x, t, s)
             h == Meeting(v, x, t, Ids(v))
             Same(j) == /\ g[1..j] \in Books /\ DOMAIN g[1..j].orders = DOMAIN b.orders
                        /\ InStep(g[1..j], h[1..(m + j)], (m + j + 1)..n, d)
             Skips == {j \in Nat : j <= m => h[1..j] = v}
             Good == {j \in Nat : j <= c => Same(j)}
  <1>1. /\ t \in Nat /\ t - 1 = d /\ n \in Nat /\ c \in Nat /\ n = m + c
        /\ DOMAIN b.orders = 1..n /\ DOMAIN s = 1..c /\ \A k \in 1..c : s[k] = m + k
    <2> DEFINE q == b.orders
    <2>1. q \in Seq(Orders)
      BY DEF Books
    <2> HIDE DEF q
    <2>2. Len(q) \in Nat /\ DOMAIN q = 1..Len(q)
      BY <2>1
    <2>3. c \in Nat /\ DOMAIN s = 1..c
      OBVIOUS
    <2>4. t \in Nat /\ t - 1 = d
      OBVIOUS
    <2>5. QED
      BY <2>2, <2>3, <2>4 DEF q
  <1>2. /\ v \in Venues /\ DOMAIN v.orders = 1..n /\ v.open = (m + 1)..n
        /\ \A i \in 1..n : v.orders[i].at <= d
    BY <1>1 DEF InStep
  <1>3. /\ g[1..0] = b
        /\ \A j \in 0..(c - 1) : g[1..(j + 1)] = FillOne(g[1..j], s[j + 1], x, t)
    <2>1. t \in Nat
      BY <1>1
    <2> HIDE DEF t
    <2>2. FillsInTurn(Filling(b, x, t, s), b, x, t, s)
      BY <2>1, FillingFacts, Zenon
    <2>3. QED
      BY <2>2 DEF FillsInTurn
  <1>4. /\ h[1..0] = v /\ VenueBar(v, x, t) = h[1..n]
        /\ \A j \in 0..(n - 1) : h[1..(j + 1)] = MeetOne(v, h[1..j], j + 1, x, t)
    <2>1. LET w == Meeting(v, x, t, Ids(v))
              e == Len(v.orders)
          IN /\ w[1..0] = v /\ e \in Nat /\ DOMAIN v.orders = 1..e /\ VenueBar(v, x, t) = w[1..e]
             /\ \A j \in 0..(e - 1) : w[1..(j + 1)] = MeetOne(v, w[1..j], j + 1, x, t)
      BY <1>1, <1>2, MeetingSteps
    <2>2. Len(v.orders) = n
      BY <1>1, <1>2 DEF Venues
    <2>3. QED
      BY <2>1, <2>2
  <1> HIDE DEF g, h, n, c, t
  <1>5. h[1..m] = v
    <2>1. ASSUME NEW j \in Nat, j + 1 <= m, h[1..j] = v PROVE h[1..(j + 1)] = v
      <3>1. j \in 0..(n - 1) /\ j + 1 \notin (m + 1)..n
        BY <1>1, <2>1
      <3>2. QED
        BY <1>2, <1>4, <2>1, <3>1 DEF MeetOne
    <2>2. 0 \in Skips /\ \A j \in Nat : j \in Skips => j + 1 \in Skips
      BY <1>4, <2>1
    <2> HIDE DEF Skips
    <2>3. m \in Skips
      BY <2>2, NatSetInduction
    <2>4. QED
      BY <2>3 DEF Skips
  <1>6. Same(0)
    <2>1. m + 0 = m /\ m + 0 + 1 = m + 1
      OBVIOUS
    <2>2. QED
      BY <1>3, <1>5, <2>1 DEF n
  <1>7. ASSUME NEW j \in Nat, j + 1 <= c, Same(j) PROVE Same(j + 1)
    <2> DEFINE i == m + j + 1
               w == i..n
    <2>1. /\ j \in 0..(c - 1) /\ m + j \in 0..(n - 1) /\ i \in w /\ (m + j) + 1 = i
          /\ i = m + (j + 1) /\ s[j + 1] = i /\ i \in 1..n /\ i \in (m + 1)..n
          /\ w \ {i} = (i + 1)..n
      <3>1. /\ i \in Nat /\ (m + j) + 1 = i /\ i = m + (j + 1) /\ j + 1 \in 1..c /\ i <= n
            /\ m + 1 <= i /\ 1 <= i /\ j \in 0..(c - 1) /\ m + j \in 0..(n - 1)
        BY <1>1, <1>7
      <3>2. s[j + 1] = i
        BY <1>1, <3>1
      <3> HIDE DEF i
      <3>3. i \in w /\ i \in 1..n /\ i \in (m + 1)..n
        BY <1>1, <3>1
      <3>4. w \ {i} = (i + 1)..n
        <4>1. i \in Int /\ n \in Int
          BY <1>1, <3>1
        <4>2. QED
          BY <4>1
      <3>5. QED
        BY <3>1, <3>2, <3>3, <3>4
    <2>2. /\ g[1..j] \in Books /\ DOMAIN g[1..j].orders = 1..n /\ InStep(g[1..j], h[1..(m + j)], w, d)
      BY <1>1, <1>7
    <2> HIDE DEF i, w
    <2>3. g[1..(j + 1)] = FillOne(g[1..j], i, x, t)
      BY <1>3, <2>1
    <2>4. MayFillOn(v.orders[i], t - 1)
      <3>1. v.orders[i].at <= d /\ v.orders[i].at \in Nat
        <4>1. v.orders[i] \in PaperOrders
          <5> DEFINE q == v.orders
          <5>1. q \in Seq(PaperOrders) /\ i \in DOMAIN q
            BY <1>2, <2>1 DEF Venues
          <5> HIDE DEF q
          <5>2. q[i] \in PaperOrders
            BY <5>1
          <5>3. QED
            BY <5>2 DEF q
        <4>2. QED
          BY <1>2, <2>1, <4>1 DEF PaperOrders
      <3>2. QED
        BY <1>1, <3>1 DEF MayFillOn
    <2>5. h[1..i] = Meet(h[1..(m + j)], i, x, t)
      <3>1. h[1..i] = MeetOne(v, h[1..(m + j)], i, x, t)
        BY <1>4, <2>1
      <3>2. QED
        BY <1>2, <2>1, <2>4, <3>1 DEF MeetOne
    <2>6. InStep(g[1..(j + 1)], h[1..i], (i + 1)..n, d)
      <3> DEFINE a == g[1..j]
                 u == h[1..(m + j)]
      <3>1. a \in Books /\ InStep(a, u, w, d)
        BY <2>2
      <3> HIDE DEF a, u
      <3>2. InStep(FillOne(a, i, x, t), Meet(u, i, x, t), w \ {i}, d)
        BY <1>1, <2>1, <3>1, MeetInStep
      <3>3. QED
        BY <2>1, <2>3, <2>5, <3>2 DEF a, u
    <2>7. g[1..(j + 1)] \in Books /\ DOMAIN g[1..(j + 1)].orders = 1..n
      <3> DEFINE a == g[1..j]
      <3>1. a \in Books /\ i \in DOMAIN a.orders /\ t \in Nat /\ DOMAIN a.orders = 1..n
        BY <1>1, <2>1, <2>2
      <3> HIDE DEF a, g, t, i
      <3>2. AsMany(FillOne(a, i, x, t), a)
        BY <3>1, FillOneType, Zenon
      <3>3. QED
        BY <2>3, <3>1, <3>2 DEF AsMany, a
    <2>8. QED
      BY <1>1, <2>1, <2>6, <2>7
  <1> HIDE DEF Same
  <1>8. 0 \in Good /\ \A j \in Nat : j \in Good => j + 1 \in Good
    BY <1>1, <1>6, <1>7
  <1> HIDE DEF Good
  <1>9. c \in Good
    BY <1>1, <1>8, NatSetInduction
  <1>10. Same(c)
    BY <1>1, <1>9 DEF Good
  <1>11. m + c = n /\ (m + c + 1)..n = {}
    BY <1>1
  <1>12. QED
    BY <1>1, <1>4, <1>10, <1>11 DEF Same, g, t, c

\* Being in step is about orders, cash and quantity, and lasts.
LEMMA InStepLasts ==
  ASSUME NEW b, NEW v, NEW w, NEW d \in Nat, InStep(b, v, w, d), NEW e \in Nat, d <= e,
         NEW c, c.orders = b.orders, c.cash = b.cash, c.pos.qty = b.pos.qty
  PROVE  InStep(c, v, w, e)
  <1>1. \A i \in DOMAIN v.orders : v.orders[i].at \in Nat
    <2> DEFINE s == v.orders
    <2>1. s \in Seq(PaperOrders)
      BY DEF InStep, Venues
    <2> HIDE DEF s
    <2>2. \A i \in DOMAIN s : s[i] \in PaperOrders
      BY <2>1
    <2>3. QED
      BY <2>2 DEF PaperOrders, s
  <1>2. \A i \in DOMAIN v.orders : v.orders[i].at <= d => v.orders[i].at <= e
    BY <1>1
  <1>3. QED
    BY <1>2 DEF InStep

\* The inductive invariant of the paper run: of the orders made, the last ones
\* wait in the engine and are open at the venue, and the two are in step.
PaperInv ==
  /\ EngineInv
  /\ Compared /\ Plain(book) =>
       LET n == Len(book.orders)
           m == n - Len(pending)
       IN /\ m \in Nat /\ \A k \in DOMAIN pending : pending[k] = m + k
          /\ InStep(book, venue, (m + 1)..n, now)

LEMMA PaperInitInv == PaperInit => PaperInv
  <1> SUFFICES ASSUME PaperInit PROVE PaperInv
    OBVIOUS
  <1>1. EngineInv
    BY EngineInitInv DEF PaperInit
  <1>2. /\ book.pos = Flat /\ book.cash = Start /\ book.orders = <<>> /\ now = 0 /\ pending = <<>>
        /\ venue = EmptyVenue
    BY DEF PaperInit, EngineInit
  <1>3. /\ EmptyVenue.orders = <<>> /\ EmptyVenue.open = {} /\ EmptyVenue.cash = Start
        /\ EmptyVenue.pos = Flat
    BY DEF EmptyVenue
  <1>4. EmptyVenue \in Venues
    <2>1. Start \in Int /\ Flat \in Positions
      BY EngineAssumption DEF Start, Flat, Positions, None
    <2>2. QED
      BY <2>1 DEF EmptyVenue, Venues
  <1>5. InStep(book, venue, 1..0, now)
    BY <1>2, <1>3, <1>4 DEF InStep
  <1>6. Len(book.orders) = 0 /\ Len(pending) = 0 /\ DOMAIN pending = {}
    BY <1>2
  <1>7. QED
    BY <1>1, <1>5, <1>6 DEF PaperInv

\* A bar that traded.
LEMMA PaperBarInv ==
  ASSUME PaperInv, NEW x \in Bars, x.cap > 0, PaperBar(x)
  PROVE  PaperInv'
  <1> DEFINE t == now + 1
             marked == [book EXCEPT !.pos.last = x.close, !.held = IF @ = NotHeld THEN @ ELSE @ + 1]
             checked == CheckStops(marked, x, t)
             filled == FillPending(checked, x, t)
             n == Len(book.orders)
             m == n - Len(pending)
  <1>1. EngineInv /\ TakeBar(x) /\ now \in Nat
    BY DEF PaperInv, PaperBar, EngineInv
  <1>2. /\ EngineInv'
        /\ BookOK(checked, t) /\ Waiting(checked, pending, now)
        /\ Plain(filled) => Plain(checked)
        /\ Plain(checked) => /\ checked.orders = book.orders /\ checked.cash = book.cash
                             /\ checked.pos.qty = book.pos.qty
        /\ book'.orders = filled.orders /\ book'.cash = filled.cash
        /\ book'.pos.qty = filled.pos.qty
    BY <1>1, BarSteps
  <1>3. now' = t /\ pending' = <<>> /\ stop_type' = stop_type
    BY <1>1 DEF TakeBar, LeftPending
  <1> HIDE DEF marked, checked, t
  <1>4. filled = Filling(checked, x, t, pending)[DOMAIN pending]
    BY FillPendingIsFilling
  <1> HIDE DEF filled, n, m
  <1>5. ASSUME Compared', Plain(book')
        PROVE  InStep(book', venue', {}, now')
    <2>1. Compared /\ Plain(filled) /\ Plain(checked)
      BY <1>2, <1>3, <1>5 DEF Compared, Plain
    <2>2. Plain(book) /\ checked.orders = book.orders /\ checked.cash = book.cash
          /\ checked.pos.qty = book.pos.qty
      BY <1>2, <2>1 DEF Plain
    <2>3. /\ m \in Nat /\ \A k \in DOMAIN pending : pending[k] = m + k
          /\ InStep(book, venue, (m + 1)..n, now)
      BY <2>1, <2>2 DEF PaperInv, m, n
    <2>4. InStep(checked, venue, (m + 1)..n, now)
      BY <1>1, <2>2, <2>3, InStepLasts
    <2>5. /\ checked \in Books /\ pending \in Seq(DOMAIN checked.orders)
          /\ Len(checked.orders) = n
      BY <1>2, <2>2 DEF BookOK, Waiting, n
    <2>6. n = m + Len(pending)
      <3>1. n \in Nat /\ Len(pending) \in Nat
        BY <1>1, <2>5 DEF EngineInv, BookOK, Books, n
      <3>2. m = n - Len(pending)
        BY DEF m
      <3>3. QED
        BY <3>1, <3>2
    <2>7. venue' = VenueBar(venue, x, t)
      BY <2>1 DEF PaperBar, t
    <2>8. InStep(filled, venue', {}, now)
      BY <1>1, <1>4, <2>3, <2>4, <2>5, <2>6, <2>7, BarInStep DEF t
    <2>9. t \in Nat /\ now <= t
      BY <1>1 DEF t
    <2>10. QED
      BY <1>1, <1>2, <1>3, <2>8, <2>9, InStepLasts
  <1>6. Len(pending') = 0 /\ DOMAIN pending' = {}
    BY <1>3
  <1>7. LET l == Len(book'.orders) IN l \in Nat /\ l - 0 = l /\ (l + 1)..l = {}
    <2> DEFINE l == Len(book'.orders)
    <2>1. l \in Nat
      BY <1>2 DEF EngineInv, BookOK, Books
    <2> HIDE DEF l
    <2>2. l - 0 = l /\ (l + 1)..l = {}
      BY <2>1
    <2>3. QED
      BY <2>1, <2>2 DEF l
  <1>8. QED
    BY <1>2, <1>5, <1>6, <1>7 DEF PaperInv

\* An order that is queued and sent, once or twice, whatever a signal asks for.
LEMMA PaperQueuedInv ==
  ASSUME PaperInv, NEW side \in {1, -1}, NEW qty \in Nat \ {0}, NEW limit \in Int,
         NEW levels \in Levels, NEW purpose \in OwnPurposes,
         Queue(side, qty, limit, levels, purpose), UNCHANGED <<stop_type, now, bar>>, SendQueued
  PROVE  PaperInv'
  <1> DEFINE o == [side |-> side, qty |-> qty, limit |-> limit, levels |-> levels,
                   decided |-> now, purpose |-> purpose, level |-> None, fill |-> NoFill]
             s == book.orders
             n == Len(s)
             c == Len(pending)
             m == n - c
             k == n + 1
  <1>1. EngineInv'
    BY QueuedKeeps DEF PaperInv
  <1>2. /\ BookOK(book, now) /\ now \in Nat /\ s \in Seq(Orders) /\ n \in Nat /\ DOMAIN s = 1..n
        /\ pending \in Seq(DOMAIN s) /\ c \in Nat /\ DOMAIN pending = 1..c /\ k \in Nat
    BY DEF PaperInv, EngineInv, BookOK, Books, Waiting
  <1>3. /\ o \in Orders /\ o.fill = NoFill /\ o.qty > 0 /\ o.side = side /\ o.qty = qty
        /\ o.limit = limit /\ o.purpose = purpose
    BY <1>2 DEF Orders, Purposes, NoFill, Fills, None
  <1>4. book' = [book EXCEPT !.orders = Append(@, o)] /\ pending' = Append(pending, k)
    BY DEF Queue
  <1> HIDE DEF o
  <1>5. /\ book'.pos = book.pos /\ book'.cash = book.cash /\ book'.orders = Append(s, o)
    BY <1>2, <1>4 DEF BookOK, Books
  <1> HIDE DEF s
  <1>6. /\ Len(book'.orders) = k /\ DOMAIN book'.orders = 1..k /\ book'.orders[k] = o
        /\ \A i \in 1..n : book'.orders[i] = s[i]
    BY <1>2, <1>5
  <1>7. /\ Len(pending') = c + 1 /\ DOMAIN pending' = 1..(c + 1) /\ pending'[c + 1] = k
        /\ \A i \in 1..c : pending'[i] = pending[i]
    BY <1>2, <1>4
  <1>8. now' = now /\ stop_type' = stop_type
    OBVIOUS
  <1> HIDE DEF n, c, m, k
  <1>9. k = n + 1 /\ m = n - c /\ 1..k = (1..n) \cup {k} /\ k \notin 1..n /\ k # n
    BY <1>2 DEF k, m
  <1>10. ASSUME Compared', Plain(book')
         PROVE  /\ m \in Nat /\ k - (c + 1) = m
                /\ \A i \in DOMAIN pending' : pending'[i] = m + i
                /\ InStep(book', venue', (m + 1)..k, now')
    <2>1. Compared /\ Plain(book)
      BY <1>2, <1>6, <1>8, <1>9, <1>10 DEF Compared, Plain, s
    <2>2. /\ m \in Nat /\ \A i \in DOMAIN pending : pending[i] = m + i
          /\ InStep(book, venue, (m + 1)..n, now)
      BY <2>1 DEF PaperInv, m, n, c, s
    <2>3. /\ venue \in Venues /\ DOMAIN venue.orders = 1..n /\ venue.open = (m + 1)..n
          /\ venue.cash = book.cash /\ venue.pos.qty = book.pos.qty
          /\ \A i \in 1..n : Twin(s[i], venue.orders[i], i) /\ venue.orders[i].at <= now
          /\ \A i \in (m + 1)..n : i \in 1..n /\ s[i].fill = NoFill /\ s[i].qty > 0
      BY <1>2, <2>2 DEF InStep, s
    <2>4. Len(venue.orders) = n
      BY <1>2, <2>3 DEF Venues
    <2> DEFINE once == SubmitOrder(venue, k, o, now)
               twice == SubmitOrder(once, k, o, now)
    <2>5. venue' \in {once, twice}
      <3>1. Len(book'.orders) # Len(book.orders)
        BY <1>6, <1>9 DEF n, s
      <3>2. QED
        BY <1>6, <2>1, <3>1 DEF SendQueued
    <2>6. once = Accept(venue, k, o, now)
      <3>1. \A id \in DOMAIN venue.orders : venue.orders[id].key = id
        BY <2>3 DEF Twin
      <3>2. k \notin DOMAIN venue.orders
        BY <1>9, <2>3
      <3>3. QED
        BY <3>1, <3>2 DEF SubmitOrder
    <2>7. /\ once \in Venues /\ once.open = venue.open \cup {k} /\ once.cash = venue.cash
          /\ once.pos = venue.pos /\ DOMAIN once.orders = (1..n) \cup {k}
          /\ \A j \in 1..n : once.orders[j] = venue.orders[j]
          /\ once.orders[k] = [key |-> k, side |-> o.side, qty |-> o.qty, limit |-> o.limit,
                               at |-> now, status |-> "SUBMITTED", fills |-> <<>>]
      <3> HIDE DEF once
      <3>1. venue \in Venues /\ k \in Nat /\ o \in Orders /\ now \in Nat
        BY <1>2, <1>3, <2>3
      <3>2. LET r == Accept(venue, k, o, now)
                l == Len(venue.orders) + 1
            IN /\ r \in Venues /\ r.open = venue.open \cup {l} /\ r.cash = venue.cash /\ r.pos = venue.pos
               /\ l \in Nat /\ DOMAIN r.orders = DOMAIN venue.orders \cup {l}
               /\ \A j \in DOMAIN venue.orders : r.orders[j] = venue.orders[j]
               /\ r.orders[l] = [key |-> k, side |-> o.side, qty |-> o.qty, limit |-> o.limit,
                                 at |-> now, status |-> "SUBMITTED", fills |-> <<>>]
        BY <3>1, AcceptFacts
      <3>3. Len(venue.orders) + 1 = k
        BY <1>9, <2>4
      <3>4. QED
        BY <2>3, <2>6, <3>2, <3>3
    <2> HIDE DEF once
    <2>8. venue' = once
      <3>1. once.orders[k].key = k /\ k \in DOMAIN once.orders
        BY <2>7
      <3>2. twice = once
        BY <3>1 DEF SubmitOrder
      <3>3. QED
        BY <2>5, <3>2
    <2>9. Twin(o, once.orders[k], k) /\ once.orders[k].at <= now
      BY <1>2, <1>3, <2>7 DEF Twin
    <2>10. /\ (m + 1)..k = ((m + 1)..n) \cup {k} /\ k - (c + 1) = m /\ m + (c + 1) = k
      BY <1>2, <1>9, <2>2
    <2>11. InStep(book', once, (m + 1)..k, now')
      <3>1. once.open = (m + 1)..k /\ DOMAIN once.orders = DOMAIN book'.orders
        BY <1>6, <1>9, <2>3, <2>7, <2>10
      <3>2. once.cash = book'.cash /\ once.pos.qty = book'.pos.qty
        BY <1>5, <2>3, <2>7
      <3>3. ASSUME NEW i \in 1..k
            PROVE  Twin(book'.orders[i], once.orders[i], i) /\ once.orders[i].at <= now
        BY <1>6, <1>9, <2>3, <2>7, <2>9
      <3>4. ASSUME NEW i \in (m + 1)..k
            PROVE  i \in 1..k /\ book'.orders[i].fill = NoFill /\ book'.orders[i].qty > 0
        BY <1>3, <1>6, <1>9, <2>3, <2>10
      <3>5. QED
        BY <1>6, <1>8, <2>7, <3>1, <3>2, <3>3, <3>4 DEF InStep
    <2>12. \A i \in DOMAIN pending' : pending'[i] = m + i
      <3>1. \A i \in 1..(c + 1) : i = c + 1 \/ i \in 1..c
        BY <1>2
      <3>2. QED
        BY <1>2, <1>7, <2>2, <2>10, <3>1
    <2>13. QED
      BY <2>2, <2>8, <2>10, <2>11, <2>12
  <1>11. QED
    BY <1>1, <1>6, <1>7, <1>10 DEF PaperInv

\* What the strategy sends.
LEMMA PaperSignalInv == PaperInv /\ PaperSignal => PaperInv'
  <1> SUFFICES ASSUME PaperInv, PaperSignal PROVE PaperInv'
    OBVIOUS
  <1>1. EngineInv /\ Signal /\ SendQueued
    BY DEF PaperInv, PaperSignal
  <1>2. ASSUME NEW side \in {1, -1}, NEW limit \in Int, NEW own \in {<<>>, OwnLevels(side)},
               Enter(side, limit, own)
        PROVE  PaperInv'
    <2>1. /\ EntryLevels(side, own) \in Levels /\ Qty \in Nat \ {0} /\ "entry" \in OwnPurposes
          /\ Queue(side, Qty, limit, EntryLevels(side, own), "entry")
          /\ UNCHANGED <<stop_type, now, bar>>
      BY <1>1, <1>2, SignalTypes, EngineAssumption DEF Enter, OwnPurposes
    <2>2. QED
      BY <1>1, <2>1, PaperQueuedInv
  <1>3. ASSUME ExitSignal PROVE PaperInv'
    <2>1. /\ Queue(-Sign(book.pos.qty), Abs(book.pos.qty), None, <<>>, "exit")
          /\ UNCHANGED <<stop_type, now, bar>> /\ book.pos.qty \in Int /\ book.pos.qty # 0
      BY <1>1, <1>3 DEF ExitSignal, EngineInv, BookOK, Books, Positions
    <2>2. -Sign(book.pos.qty) \in {1, -1} /\ Abs(book.pos.qty) \in Nat \ {0}
      <3> DEFINE q == book.pos.qty
      <3>1. q \in Int /\ q # 0
        BY <2>1
      <3> HIDE DEF q
      <3>2. (Sign(q) = 1 \/ Sign(q) = -1) /\ Abs(q) \in Nat \ {0}
        BY <3>1 DEF Sign, Abs
      <3>3. QED
        BY <3>2 DEF q
    <2>3. None \in Int /\ <<>> \in Levels /\ "exit" \in OwnPurposes
      BY DEF None, Levels, OwnPurposes
    <2>4. QED
      BY <1>1, <2>1, <2>2, <2>3, PaperQueuedInv
  <1>4. \A side \in {1, -1} : None \in Int /\ bar.close - side * Unit \in Int
    BY <1>1, SignalTypes DEF None
  <1>5. QED
    BY <1>1, <1>2, <1>3, <1>4 DEF Signal

LEMMA PaperIdleInv == PaperInv /\ UNCHANGED paperVars => PaperInv'
  <1> SUFFICES ASSUME PaperInv, UNCHANGED paperVars PROVE PaperInv'
    OBVIOUS
  <1>1. /\ stop_type' = stop_type /\ now' = now /\ bar' = bar /\ book' = book
        /\ pending' = pending /\ venue' = venue
    BY DEF paperVars
  <1>2. EngineInv'
    BY <1>1 DEF PaperInv, EngineInv, BookOK, HonestAt, Waiting, Ledger, Trips, FlatOrHeld, Stamped
  <1>3. QED
    BY <1>1, <1>2 DEF PaperInv, Compared, Plain, InStep, Twin

\* An order by its client id has one order at the venue, with one fill or none.
LEMMA InStepFillsTheSame ==
  ASSUME NEW b, NEW v, NEW w, NEW d, InStep(b, v, w, d), NEW i \in DOMAIN b.orders
  PROVE  VenueFills(v, i) = IF b.orders[i].fill = NoFill THEN {} ELSE {b.orders[i].fill}
  <1> DEFINE f == v.orders[i].fills
  <1>1. /\ DOMAIN v.orders = DOMAIN b.orders
        /\ \A j \in DOMAIN b.orders : v.orders[j].key = j
        /\ f = IF b.orders[i].fill = NoFill THEN <<>> ELSE <<b.orders[i].fill>>
    BY DEF InStep, Twin
  <1>2. {x \in DOMAIN v.orders : v.orders[x].key = i} = {i}
    BY <1>1
  <1>3. VenueFills(v, i) = UNION {Range(v.orders[id].fills) : id \in {i}}
    BY <1>2 DEF VenueFills
  <1>4. VenueFills(v, i) = Range(f)
    BY <1>3
  <1> HIDE DEF f
  <1>5. Range(f) = IF b.orders[i].fill = NoFill THEN {} ELSE {b.orders[i].fill}
    BY <1>1 DEF Range
  <1>6. QED
    BY <1>4, <1>5

\* On bars that traded the paper run of a backtest's signals fills every order
\* as the backtest does and is left with the same cash and position, until a
\* protective level is hit: whatever the bars' prices, however many orders wait,
\* and whether an order was sent once or twice (_fill_pending_for, on_bar,
\* submit_order).
THEOREM PaperFillsTheSame ==
  ASSUME \A b \in Bars : b.cap > 0
  PROVE  PaperSpec => []SameFills
  <1>1. PaperInv /\ [(\E b \in Bars : PaperBar(b)) \/ PaperSignal]_paperVars => PaperInv'
    BY PaperBarInv, PaperSignalInv, PaperIdleInv
  <1>2. PaperInv => SameFills
    <2> SUFFICES ASSUME PaperInv, Compared, Plain(book)
                 PROVE  /\ \A i \in DOMAIN book.orders : VenueFills(venue, i)
                             = IF book.orders[i].fill = NoFill THEN {} ELSE {book.orders[i].fill}
                        /\ venue.cash = book.cash /\ venue.pos.qty = book.pos.qty
      BY DEF SameFills, Plain, OwnPurposes
    <2>1. PICK w : InStep(book, venue, w, now)
      BY DEF PaperInv
    <2>2. QED
      BY <2>1, InStepFillsTheSame DEF InStep
  <1>3. QED
    BY <1>1, <1>2, PaperInitInv, PTL DEF PaperSpec

=============================================================================
