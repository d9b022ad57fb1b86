----------------------------- MODULE TradingDay -----------------------------
(***************************************************************************)
(* A worker that trades a daily strategy: the calendar (clock.py), the     *)
(* scheduler's jobs (scheduler.py) and the runner's loop (runner.py) that  *)
(* warms up at the open, holds the previous session's bar back, and asks   *)
(* the strategy about it once.                                             *)
(*                                                                         *)
(* An instant is a day and a slot of it.  The slots stand for the instants *)
(* the schedule names: 02:00 UTC, open - 60, - 30, - 15 and - 5 minutes,   *)
(* the open, an instant in the session, the close, and close + 30 minutes. *)
(* Scheduler and loop are tasks of one process, which may die at any time. *)
(* One symbol; its bars are named by the day of their session.             *)
(***************************************************************************)
EXTENDS Integers, FiniteSets, FiniteSetsExt, Sequences

CONSTANTS LastDay,    \* the calendar's days are 0 .. LastDay
          Sessions,   \* those the exchange opens on
          FirstDay,   \* the day the model starts on
          Needed,     \* strategy.warmup_bars, at least one
          MaxFaults   \* bound on crashes, failures, delays and backfills by hand

Days == 0..LastDay

ASSUME DayAssumption ==
  /\ LastDay \in Nat /\ Sessions \subseteq Days /\ FirstDay \in Days
  /\ \E d \in Sessions : d < FirstDay
  /\ Needed \in Nat \ {0} /\ MaxFaults \in Nat

DayLen == 9
OpenSlot == 5
CloseSlot == 7
OpenAt(d) == d * DayLen + OpenSlot
CloseAt(d) == d * DayLen + CloseSlot
Beyond == (LastDay + 1) * DayLen   \* the first instant past the model's calendar
None == -1
NoJob == [name |-> "none", at |-> None]
Stopped(state) ==
  [state |-> state, decision |-> None, held |-> {}, wake |-> None, ample |-> FALSE]

EdgeSlot == [corporate |-> 1, pull |-> 2, retry |-> 3, rollover |-> 4, summary |-> 7, report |-> 8]
EdgeJobs == DOMAIN EdgeSlot
\* build_schedule: the order that breaks a tie.
Schedule == <<"reconcile", "pull", "retry", "summary", "rollover", "corporate", "report", "sweep">>
JobNames == {Schedule[i] : i \in 1..Len(Schedule)}

VARIABLES
  now, faults,
  runner,     \* state, _decision_session, the sessions whose bars are held, when it wakes
  evaluated,  \* the loop has made its pass at this instant
  due, job,   \* _Job.due of each job, and the job that is running
  stored,     \* the bar table: of each day no bar, one in progress, or the session's
  published,  \* the sessions the vendor serves a bar of
  orders,     \* orders the venue accepted, by client_order_id: what each was decided on
  holding,    \* a position is open
  ask,        \* the last question the strategy was asked
  fate,       \* of each decision: was it taken, and since the last warmup was a pass made,
              \* was its absence announced, did a pass fail
  pulled,     \* the decisions whose bar a pull has fetched
  last,       \* the last edge each edge job was started for
  booted      \* when the process started

vars == <<now, faults, runner, evaluated, due, job, stored, published, orders, holding, ask,
          fate, pulled, last, booted>>
market == <<stored, published>>
trading == <<runner, evaluated, orders, holding, ask, fate>>
jobs == <<due, job, pulled, last>>

Fault == faults < MaxFaults /\ faults' = faults + 1
NewestOf(n, s) == {b \in s : Cardinality({c \in s : c > b}) < n}

-----------------------------------------------------------------------------
(* TradingCalendar. *)

Day(t) == t \div DayLen
IsOpen(t) == Day(t) \in Sessions /\ OpenAt(Day(t)) <= t /\ t < CloseAt(Day(t))
Earliest(s) == IF s = {} THEN Beyond ELSE Min(s)
NextOpen(t) == Earliest({OpenAt(d) : d \in Sessions} \cap (t + 1)..Beyond)
\* The last session that has closed: at its close a session is one.
PreviousSession(t) == Max({d \in Sessions : CloseAt(d) <= t})

-----------------------------------------------------------------------------
(* run_scheduler. *)

EdgesOf(j) == {d * DayLen + EdgeSlot[j] : d \in Sessions}

\* A fault: the search begins with tomorrow.
NextEdgeTomorrow(j, t) == Earliest({e \in EdgesOf(j) : Day(e) > Day(t)})
\* _next_session_edge: strictly after t, on this day or a later one.
NextEdge(j, t) == Earliest(EdgesOf(j) \cap (t + 1)..Beyond)

\* The cron job runs every day, the interval job in market hours.
NextDue(j, t) ==
  CASE j \in EdgeJobs -> NextEdge(j, t)
    [] j = "sweep" -> (Day(t) + 1) * DayLen
    [] OTHER -> IF IsOpen(t + 1) THEN t + 1 ELSE NextOpen(t + 1)

Up == runner.state # "down"
Index(j) == CHOOSE i \in 1..Len(Schedule) : Schedule[i] = j
IsNext(j) ==
  \A k \in JobNames : due[j] < due[k] \/ (due[j] = due[k] /\ Index(j) <= Index(k))

\* _run_job, to the call of the job: a market-hours job found late is put off.
StartJob ==
  /\ Up /\ job = NoJob
  /\ \E j \in JobNames :
       /\ IsNext(j) /\ due[j] <= now
       /\ IF j = "reconcile" /\ ~IsOpen(now)
          THEN due' = [due EXCEPT ![j] = NextDue(j, now)] /\ UNCHANGED <<job, last>>
          ELSE /\ job' = [name |-> j, at |-> now] /\ UNCHANGED due
               /\ last' = IF j \in EdgeJobs THEN [last EXCEPT ![j] = due[j]] ELSE last
  /\ UNCHANGED <<now, faults, market, trading, pulled, booted>>

\* What the vendor serves at t: of a session in progress, a bar in progress.
Serve(d, t) ==
  IF d \notin published \/ OpenAt(d) > t THEN "none"
  ELSE IF CloseAt(d) <= t THEN "closed" ELSE "partial"
Upsert(days, t) ==
  [d \in Days |-> IF d \in days /\ Serve(d, t) # "none" THEN Serve(d, t) ELSE stored[d]]
HasBars == {d \in Days : stored[d] # "none"}

\* refresh_session_bars: nothing newer than the session that closed last.
SessionBars == stored' = Upsert(0..PreviousSession(job.at), job.at)
\* apply_corporate_actions: up to now, for the series the table has.
CorporateActions == stored' = IF HasBars = {} THEN stored ELSE Upsert(Days, job.at)
\* backfill_missing_bars: the closed sessions the table has no bar of.
MissingBars ==
  stored' = IF HasBars = {} THEN stored
            ELSE Upsert({d \in Sessions \ HasBars : CloseAt(d) <= job.at}, job.at)

\* _run_job, from the job's return or its exception.
FinishJob ==
  /\ job # NoJob /\ job' = NoJob
  /\ due' = [due EXCEPT ![job.name] = NextDue(job.name, now)]
  /\ \/ /\ CASE job.name \in {"pull", "retry"} -> SessionBars
             [] job.name = "corporate" -> CorporateActions
             [] job.name = "sweep" -> MissingBars
             [] OTHER -> UNCHANGED stored
        /\ pulled' = IF job.name \in {"pull", "retry"} /\ PreviousSession(job.at) \in published
                     THEN pulled \cup {PreviousSession(job.at)} ELSE pulled
        /\ UNCHANGED faults
     \/ job.name \in {"pull", "retry", "corporate", "sweep"} /\ Fault /\ UNCHANGED <<stored, pulled>>
  /\ UNCHANGED <<now, published, trading, last, booted>>

-----------------------------------------------------------------------------
(* StrategyRunner. *)

\* A fault: the newest bar is held back, whichever it is.
WithheldNewest(bars, decision) == IF bars = {} THEN {} ELSE {Max(bars)}
\* The decision's bar is held back, so that a pass finds it new.
Withheld(bars, decision) ==
  IF bars # {} /\ Max(bars) = decision THEN {decision} ELSE {}

\* A fault: no more rows are read than are kept.
RowsToLoadKept == Needed
\* One row more than is kept.
RowsToLoad == Needed + 1

\* _announce_decision_bar: of a decision that has no bar, a warning.
Announce(decision, withheld) ==
  fate' = [fate EXCEPT ![decision] =
             [passed |-> FALSE, taken |-> @.taken, warned |-> withheld = {}, failed |-> FALSE]]

\* warmup: the history up to the last closed session.  It is noted whether the
\* table had the history, and no bar of an open session in front of it.
Warmup ==
  LET decision == PreviousSession(now)
      loaded == NewestOf(RowsToLoad, HasBars)
      bars == {b \in loaded : b <= decision}
      withheld == Withheld(bars, decision)
  IN /\ runner' = [state |-> "trading", decision |-> decision, held |-> bars \ withheld,
                   wake |-> None,
                   ample |-> loaded = bars /\ Needed <= Cardinality(HasBars \cap 0..(decision - 1))]
     /\ Announce(decision, withheld)

\* WarmupBlockedError: halted for good, the process stays up.
Quarantine ==
  /\ Fault
  /\ runner' = Stopped("parked")
  /\ UNCHANGED fate

Boot ==
  /\ ~Up /\ booted' = now
  /\ (Warmup /\ UNCHANGED faults) \/ Quarantine
  /\ due' = [j \in JobNames |-> NextDue(j, now)] /\ evaluated' = FALSE
  /\ UNCHANGED <<now, job, market, orders, holding, ask, pulled, last>>

\* shutdown, or a crash: the position stays open.
Stop ==
  /\ Up /\ Fault
  /\ runner' = Stopped("down")
  /\ job' = NoJob /\ booted' = None /\ evaluated' = FALSE
  /\ UNCHANGED <<now, due, market, orders, holding, ask, fate, pulled, last>>

\* _sleep_until_open
Sleep ==
  /\ runner.state = "trading" /\ ~IsOpen(now)
  /\ runner' = [runner EXCEPT !.state = "asleep", !.wake = NextOpen(now)]
  /\ UNCHANGED <<now, faults, evaluated, market, jobs, orders, holding, ask, fate, booted>>

\* The loop's second warmup: the night's book and bars are read again.
Wake ==
  /\ runner.state = "asleep" /\ runner.wake <= now
  /\ (Warmup /\ UNCHANGED faults) \/ Quarantine
  /\ UNCHANGED <<now, evaluated, market, jobs, orders, holding, ask, booted>>

\* A fault: any row of the table may be newly closed.
ReadableAny(bars) == bars
\* _refresh_bars: the two newest rows, without a session that is still open.
Readable(bars) == {b \in NewestOf(2, bars) : b <= runner.decision}
JustClosed ==
  LET latest == Readable(HasBars) IN
  IF latest = {} \/ \E h \in runner.held : h >= Max(latest) THEN {} ELSE {Max(latest)}

\* A fault: a signal carries the time of the pass that made it.
StampOfPass(bar) == now
\* _stamp: the end of the bar it was decided on.
Stamp(bar) == (bar + 1) * DayLen

\* client_order_id: the venue refuses one it has seen.
Accept(bar, action) ==
  LET seen == \E o \in orders : o.stamp = Stamp(bar) /\ o.action = action
      order == [stamp |-> Stamp(bar), action |-> action, bar |-> bar]
  IN /\ orders' = IF seen THEN orders ELSE orders \cup {order}
     /\ holding' = IF seen THEN holding ELSE action = "enter"

Cold(held) == Cardinality(held) <= Needed

\* _submit: what risk and the venue let through.
Submit(bar, action) == UNCHANGED <<orders, holding>> \/ Accept(bar, action)

\* _poll_strategy: a signal of a cold symbol is dropped, an exit of an open
\* position is not.
Decide(bar, held) ==
  \/ UNCHANGED <<orders, holding>>
  \/ ~Cold(held) /\ Submit(bar, "enter")
  \/ holding /\ Submit(bar, "exit")

\* A pass raises before the bars were read; or after them, when the marks cannot
\* be had, and the strategy is not asked (_mark: the quote cache is not reached).
PassRaises(held) ==
  /\ Fault /\ fate' = [fate EXCEPT ![runner.decision].failed = TRUE]
  /\ runner' \in {runner, [runner EXCEPT !.held = held]}
  /\ UNCHANGED <<ask, orders, holding>>

\* evaluate
Evaluate ==
  /\ runner.state = "trading" /\ IsOpen(now) /\ ~evaluated /\ evaluated' = TRUE
  /\ LET decision == runner.decision
         held == runner.held \cup JustClosed
     IN \/ /\ runner' = [runner EXCEPT !.held = held]
           /\ \/ JustClosed = {} /\ UNCHANGED <<ask, orders, holding>>
              \/ \E bar \in JustClosed :
                   /\ ask' = [bar |-> bar, at |-> now, kind |-> stored[bar],
                               pulled |-> bar \in pulled, cold |-> Cold(held), ample |-> runner.ample]
                   /\ Decide(bar, held)
           /\ fate' = [fate EXCEPT ![decision].passed = TRUE,
                                   ![decision].taken = @ \/ decision \in JustClosed]
           /\ UNCHANGED faults
        \/ PassRaises(held)
  /\ UNCHANGED <<now, market, jobs, booted>>

-----------------------------------------------------------------------------
(* The vendor, the operator and the clock. *)

\* A session's bar may be served from its open on, and is at some instant.
Publish ==
  \/ UNCHANGED published
  \/ \E d \in Sessions \ published : OpenAt(d) <= now' /\ published' = published \cup {d}

\* scripts/backfill_bars.py, by hand, up to now.
BackfillByHand ==
  /\ Fault /\ stored' = Upsert(Days, now) /\ stored' # stored
  /\ UNCHANGED <<now, trading, jobs, published, booted>>

\* What is due is done before the next instant; a delay is a fault.
Prompt ==
  /\ job = NoJob /\ \A j \in JobNames : due[j] > now
  /\ runner.state = "asleep" => runner.wake > now
  /\ runner.state = "trading" => IsOpen(now) /\ evaluated
Tick ==
  /\ now + 1 < Beyond /\ now' = now + 1 /\ evaluated' = FALSE /\ Publish
  /\ IF Up /\ ~Prompt THEN Fault ELSE UNCHANGED faults
  /\ UNCHANGED <<stored, jobs, runner, orders, holding, ask, fate, booted>>

Init ==
  /\ now = FirstDay * DayLen /\ faults = 0
  /\ runner = Stopped("down")
  /\ evaluated = FALSE /\ due = [j \in JobNames |-> Beyond] /\ job = NoJob
  /\ published = {d \in Sessions : d < FirstDay}
  /\ \E have \in SUBSET published :
       stored = [d \in Days |-> IF d \in have THEN "closed" ELSE "none"]
  /\ orders = {} /\ holding = FALSE
  /\ ask = [bar |-> None, at |-> None, kind |-> "none", pulled |-> FALSE,
            cold |-> FALSE, ample |-> FALSE]
  /\ fate = [d \in Sessions |-> [passed |-> FALSE, taken |-> FALSE, warned |-> FALSE, failed |-> FALSE]]
  /\ pulled = {} /\ last = [j \in EdgeJobs |-> None] /\ booted = None

Next ==
  \/ StartJob \/ FinishJob \/ Boot \/ Stop \/ Sleep \/ Wake \/ Evaluate
  \/ BackfillByHand \/ Tick

Spec == Init /\ [][Next]_vars

-----------------------------------------------------------------------------
(* Properties. *)

\* Types: what a job or a trading process works on is not from the future, and
\* a process that trades has a session that has closed to decide on.
Instants == FirstDay * DayLen .. now
TypeOK ==
  /\ now \in FirstDay * DayLen .. Beyond - 1 /\ {evaluated, holding} \subseteq BOOLEAN
  /\ runner \in [state : {"down", "parked", "trading", "asleep"}, decision : Sessions \cup {None},
                 held : SUBSET Days, wake : Int, ample : BOOLEAN]
  /\ runner.state = "trading" => runner.decision # None /\ CloseAt(runner.decision) <= now
  /\ due \in [JobNames -> Nat] /\ job \in [name : JobNames, at : Instants] \cup {NoJob}
  /\ stored \in [Days -> {"none", "partial", "closed"}] /\ published \subseteq Sessions
  /\ orders \subseteq [stamp : Nat, action : {"enter", "exit"}, bar : Days]
  /\ ask \in [bar : Days \cup {None}, at : Int, kind : {"none", "partial", "closed"},
              pulled : BOOLEAN, cold : BOOLEAN, ample : BOOLEAN]
  /\ fate \in [Sessions -> [passed : BOOLEAN, taken : BOOLEAN, warned : BOOLEAN, failed : BOOLEAN]]
  /\ pulled \subseteq Sessions /\ last \in [EdgeJobs -> Int] /\ booted \in Instants \cup {None}

\* No lookahead: a strategy is asked about a session that has closed, and the
\* bar it is shown is the whole session's if a pull fetched it, whatever a job
\* that ran late or a backfill by hand put in the table (_refresh_bars, warmup,
\* refresh_session_bars).
NoLookahead ==
  ask.bar # None =>
    /\ CloseAt(ask.bar) <= ask.at
    /\ ask.pulled => ask.kind = "closed"

\* However often the worker is restarted in a session and decides again, the
\* venue accepts one order of a kind for a decision (_stamp, client_order_id).
OneOrderPerDecision ==
  \A o, p \in orders : o.bar = p.bar /\ o.action = p.action => o = p

\* A session in which the strategy is not asked about the last closed session is
\* not a quiet one: the warmup said so, or a pass failed (warmup, evaluate).
MissingIsLoud ==
  \A d \in Sessions : fate[d].passed => fate[d].taken \/ fate[d].warned \/ fate[d].failed

\* A strategy with enough history in the table is not taken for a cold one when
\* it decides, unless a bar of an open session took a row of the warmup's
\* (bars_to_load, warm_after, warmup, _poll_strategy).
WarmAtTheDecision == ask.ample => ~ask.cold

\* No edge is lost while the worker is up: a scheduler with nothing to do has
\* started every job for its last edge, however late (run_scheduler, next_due).
NoEdgeMissed ==
  Up /\ job = NoJob /\ (\A j \in JobNames : due[j] > now) =>
    \A j \in EdgeJobs : \A e \in EdgesOf(j) : booted < e /\ e <= now => last[j] >= e

=============================================================================
