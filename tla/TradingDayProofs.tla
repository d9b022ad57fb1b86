-------------------------- MODULE TradingDayProofs --------------------------
(***************************************************************************)
(* Theorems about TradingDay.                                              *)
(***************************************************************************)
EXTENDS TradingDay, FiniteSetTheorems, WellFoundedInduction, TLAPS

-----------------------------------------------------------------------------
(* The least, the greatest and the newest. *)

\* A set of naturals that is not empty has a least element.
LEMMA LeastNatural ==
  ASSUME NEW S \in SUBSET Nat, S # {}
  PROVE  \E n \in S : \A m \in S : n <= m
  <1> DEFINE less == OpToRel(<, Nat)
  <1>1. IsWellFoundedOn(less, Nat)
    BY NatLessThanWellFounded
  <1>2. \A m, n \in Nat : m < n => <<m, n>> \in less
    BY DEF OpToRel
  <1> HIDE DEF less
  <1>3. PICK n \in S : \A m \in S : ~(<<m, n>> \in less)
    BY <1>1, WFMin
  <1>4. \A m \in S : m \in Nat /\ ~(m < n)
    BY <1>2, <1>3
  <1>5. QED
    BY <1>4

\* The greatest of a bounded set.
LEMMA MaxIsGreatest ==
  ASSUME NEW S \in SUBSET Nat, S # {}, NEW bound \in Nat, \A m \in S : m <= bound
  PROVE  Max(S) \in S /\ \A m \in S : m <= Max(S)
  <1> DEFINE below == {n \in Nat : \E m \in S : n = bound - m}
  <1>1. below \in SUBSET Nat /\ below # {}
    <2>1. PICK m \in S : TRUE
      OBVIOUS
    <2>2. m \in Nat /\ bound - m \in Nat
      BY <2>1
    <2>3. QED
      BY <2>1, <2>2
  <1>2. PICK n \in below : \A k \in below : n <= k
    BY <1>1, LeastNatural
  <1>3. PICK top \in S : n = bound - top
    BY <1>2
  <1>4. ASSUME NEW m \in S PROVE m <= top
    <2>1. m \in Nat /\ top \in Nat /\ m <= bound
      OBVIOUS
    <2>2. bound - m \in below
      BY <2>1
    <2>3. n <= bound - m
      BY <1>2, <2>2
    <2>4. QED
      BY <1>3, <2>1, <2>3
  <1>5. QED
    BY <1>4 DEF Max

\* The least of a set of naturals.
LEMMA MinIsLeast ==
  ASSUME NEW S \in SUBSET Nat, S # {}
  PROVE  Min(S) \in S /\ \A m \in S : Min(S) <= m
  BY LeastNatural DEF Min

\* Of a set with at least n elements, the n newest are at least n.
LEMMA NewestAreEnough ==
  ASSUME NEW S \in SUBSET Days, NEW n \in Nat, Cardinality(S) >= n
  PROVE  /\ IsFiniteSet(S) /\ NewestOf(n, S) \subseteq S /\ IsFiniteSet(NewestOf(n, S))
         /\ Cardinality(NewestOf(n, S)) >= n
  <1> DEFINE newest == NewestOf(n, S)
             older == S \ newest
  <1>1. IsFiniteSet(Days) /\ Days \subseteq Nat /\ \A d \in Days : d <= LastDay
    BY FS_Interval, DayAssumption DEF Days
  <1>2. IsFiniteSet(S) /\ newest \subseteq S
    BY <1>1, FS_Subset DEF NewestOf
  <1>3. IsFiniteSet(newest)
    BY <1>2, FS_Subset
  <1>4. Cardinality(newest) \in Nat /\ Cardinality(S) \in Nat
    BY <1>2, <1>3, FS_CardinalityType
  <1>5. SUFFICES ASSUME Cardinality(newest) < n PROVE FALSE
    BY <1>2, <1>3, <1>4
  <1>6. older # {}
    <2>1. SUFFICES ASSUME older = {} PROVE FALSE
      OBVIOUS
    <2>2. newest = S
      BY <1>2, <2>1
    <2>3. QED
      BY <1>4, <1>5, <2>2
  <1>7. Max(older) \in older /\ \A m \in older : m <= Max(older)
    <2>1. older \in SUBSET Nat /\ LastDay \in Nat /\ \A m \in older : m <= LastDay
      BY <1>1, DayAssumption
    <2> HIDE DEF older
    <2>2. QED
      BY <1>6, <2>1, MaxIsGreatest
  <1> DEFINE m == Max(older)
             above == {c \in S : c > m}
  <1>8. m \in S /\ m \in Nat
    BY <1>1, <1>7
  <1>9. above \subseteq newest
    <2> SUFFICES ASSUME NEW c \in above PROVE c \in newest
      OBVIOUS
    <2>1. c \in S /\ c > m /\ c \in Nat
      BY <1>1
    <2>2. c \notin older
      BY <1>7, <1>8, <2>1
    <2>3. QED
      BY <2>1, <2>2
  <1> HIDE DEF newest, m
  <1>10. Cardinality(above) <= Cardinality(newest) /\ IsFiniteSet(above)
    BY <1>3, <1>9, FS_Subset
  <1>11. Cardinality(above) < n
    BY <1>4, <1>5, <1>10, FS_CardinalityType
  <1>12. m \in newest
    BY <1>8, <1>11 DEF newest, NewestOf
  <1>13. QED
    BY <1>7, <1>12 DEF m

-----------------------------------------------------------------------------
(* The calendar and the schedule. *)

\* The constants are numbers, and so are the days of the calendar.
LEMMA Constants ==
  /\ LastDay \in Nat /\ FirstDay \in Nat /\ Needed \in Nat /\ Needed > 0
  /\ Sessions \subseteq Days /\ Days \subseteq Nat /\ \A d \in Days : d <= LastDay
  /\ None = -1 /\ None \notin Days /\ Beyond \in Nat
  BY DayAssumption DEF Days, None, Beyond, DayLen

\* The calendar is finite.
LEMMA FiniteDays == IsFiniteSet(Days)
  <1>1. 0 \in Int /\ LastDay \in Int
    BY Constants
  <1>2. QED
    BY <1>1, FS_Interval DEF Days

\* The instants of a day, as numbers.
LEMMA Clock ==
  ASSUME NEW d \in Int
  PROVE  /\ OpenAt(d) \in Int /\ CloseAt(d) \in Int /\ OpenAt(d) < CloseAt(d)
         /\ OpenAt(d) = d * 9 + 5 /\ CloseAt(d) = d * 9 + 7
  BY DEF OpenAt, CloseAt, OpenSlot, CloseSlot, DayLen

\* Before any instant of the run a session has closed, and none between it and
\* that instant has.
LEMMA PreviousHasClosed ==
  ASSUME NEW t \in Int, FirstDay * DayLen <= t
  PROVE  /\ PreviousSession(t) \in Sessions /\ CloseAt(PreviousSession(t)) <= t
         /\ \A d \in Sessions : CloseAt(d) <= t => d <= PreviousSession(t)
  <1> DEFINE closed == {d \in Sessions : CloseAt(d) <= t}
  <1>1. PICK d \in Sessions : d < FirstDay
    BY DayAssumption
  <1>2. d \in Int /\ FirstDay \in Int /\ CloseAt(d) = d * 9 + 7 /\ FirstDay * DayLen = FirstDay * 9
    BY Constants, Clock DEF DayLen
  <1>3. CloseAt(d) <= t
    BY <1>1, <1>2
  <1>4. closed \in SUBSET Nat /\ closed # {} /\ LastDay \in Nat /\ \A m \in closed : m <= LastDay
    BY <1>3, Constants
  <1> HIDE DEF closed
  <1>5. Max(closed) \in closed /\ \A m \in closed : m <= Max(closed)
    BY <1>4, MaxIsGreatest
  <1>6. QED
    BY <1>5 DEF closed, PreviousSession

\* The jobs, by name.
LEMMA Jobs ==
  /\ EdgeJobs = {"corporate", "pull", "retry", "rollover", "summary", "report"}
  /\ JobNames = {"reconcile", "pull", "retry", "summary", "rollover", "corporate", "report", "sweep"}
  /\ EdgeJobs \subseteq JobNames /\ NoJob.name \notin JobNames
  <1>1. EdgeJobs = {"corporate", "pull", "retry", "rollover", "summary", "report"}
    BY DEF EdgeJobs, EdgeSlot
  <1>2. Len(Schedule) = 8 /\ 1..8 = {1, 2, 3, 4, 5, 6, 7, 8}
    BY DEF Schedule
  <1>3. JobNames = {Schedule[i] : i \in {1, 2, 3, 4, 5, 6, 7, 8}}
    BY <1>2 DEF JobNames
  <1>4. /\ Schedule[1] = "reconcile" /\ Schedule[2] = "pull" /\ Schedule[3] = "retry"
        /\ Schedule[4] = "summary" /\ Schedule[5] = "rollover" /\ Schedule[6] = "corporate"
        /\ Schedule[7] = "report" /\ Schedule[8] = "sweep"
    BY DEF Schedule
  <1>5. JobNames = {"reconcile", "pull", "retry", "summary", "rollover", "corporate", "report", "sweep"}
    BY <1>3, <1>4
  <1>6. QED
    BY <1>1, <1>5 DEF NoJob

\* A search for the earliest finds one of what it searched, or runs out.
LEMMA EarliestType ==
  ASSUME NEW S \in SUBSET Nat
  PROVE  /\ Earliest(S) \in Nat /\ Earliest(S) \in S \cup {Beyond}
         /\ S # {} => \A m \in S : Earliest(S) <= m
  <1>1. CASE S = {}
    BY <1>1, Constants DEF Earliest
  <1>2. CASE S # {}
    BY <1>2, MinIsLeast DEF Earliest
  <1>3. QED
    BY <1>1, <1>2

\* The edges of a job are a day apart, at the least.
LEMMA EdgesApart ==
  ASSUME NEW j \in EdgeJobs
  PROVE  /\ EdgesOf(j) \subseteq Nat /\ \A e \in EdgesOf(j) : e < Beyond
         /\ \A e, f \in EdgesOf(j) : e < f => e + DayLen <= f
  <1>1. EdgeSlot[j] \in 0..8
    BY Jobs DEF EdgeSlot
  <1>2. \A d \in Sessions : d \in Nat /\ d <= LastDay
    BY Constants
  <1>3. \A a, b \in Nat, s \in 0..8 : a * 9 + s < b * 9 + s => a * 9 + s + 9 <= b * 9 + s
    OBVIOUS
  <1>4. \A a, b \in Nat, s \in 0..8 : a <= b => a * 9 + s \in Nat /\ a * 9 + s < (b + 1) * 9
    OBVIOUS
  <1>5. QED
    BY <1>1, <1>2, <1>3, <1>4, Constants DEF EdgesOf, DayLen, Beyond

\* The next edge is an edge, and none is between the search and it.
LEMMA NextEdgeIsNext ==
  ASSUME NEW j \in EdgeJobs, NEW t \in Nat
  PROVE  /\ NextEdge(j, t) \in Nat /\ NextEdge(j, t) \in EdgesOf(j) \cup {Beyond}
         /\ \A e \in EdgesOf(j) : t < e => NextEdge(j, t) <= e
  <1> DEFINE later == EdgesOf(j) \cap (t + 1)..Beyond
  <1>1. later \in SUBSET Nat
    BY EdgesApart
  <1>2. \A e \in EdgesOf(j) : t < e => e \in later
    BY EdgesApart, Constants
  <1> HIDE DEF later
  <1>3. /\ Earliest(later) \in Nat /\ Earliest(later) \in later \cup {Beyond}
        /\ later # {} => \A m \in later : Earliest(later) <= m
    BY <1>1, EarliestType
  <1>4. QED
    BY <1>2, <1>3 DEF NextEdge, later

\* The next open of the calendar is an instant.
LEMMA NextOpenType == \A t \in Nat : NextOpen(t) \in Nat
  <1> SUFFICES ASSUME NEW t \in Nat PROVE NextOpen(t) \in Nat
    OBVIOUS
  <1>1. {OpenAt(d) : d \in Sessions} \cap (t + 1)..Beyond \in SUBSET Nat
    BY Constants
  <1>2. QED
    BY <1>1, EarliestType DEF NextOpen

\* When a job is next due.
LEMMA NextDueType ==
  ASSUME NEW j \in JobNames, NEW t \in Nat
  PROVE  NextDue(j, t) \in Nat /\ (j \in EdgeJobs => NextDue(j, t) = NextEdge(j, t))
  <1>1. CASE j \in EdgeJobs
    <2>1. j # "sweep"
      BY <1>1, Jobs
    <2>2. NextDue(j, t) = NextEdge(j, t)
      BY <1>1, <2>1 DEF NextDue
    <2>3. QED
      BY <1>1, <2>2, NextEdgeIsNext
  <1>2. CASE j = "sweep"
    <2>1. NextDue(j, t) = (Day(t) + 1) * DayLen
      BY <1>2, Jobs DEF NextDue
    <2>2. t \div 9 \in Nat
      OBVIOUS
    <2>3. QED
      BY <1>2, <2>1, <2>2, Jobs DEF Day, DayLen
  <1>3. CASE j \notin EdgeJobs /\ j # "sweep"
    BY <1>3, NextOpenType DEF NextDue
  <1>4. QED
    BY <1>1, <1>2, <1>3
-----------------------------------------------------------------------------
(* Types. *)

\* What the types say of the parts.
LEMMA DayTypes ==
  ASSUME TypeOK
  PROVE  /\ now \in Nat /\ FirstDay * DayLen <= now /\ FirstDay * DayLen \in Nat /\ now < Beyond
         /\ \A t \in Instants : t \in Nat /\ FirstDay * DayLen <= t /\ t <= now
         /\ now \in Instants
         /\ HasBars \subseteq Days
         /\ job # NoJob => job.name \in JobNames /\ job.at \in Instants
  <1>1. FirstDay * DayLen \in Nat
    BY Constants DEF DayLen
  <1>2. now \in Nat /\ FirstDay * DayLen <= now /\ now < Beyond
    BY <1>1, Constants DEF TypeOK
  <1>3. QED
    BY <1>1, <1>2 DEF TypeOK, Instants, HasBars

\* A stretch of time that has grown holds what it held.
LEMMA InstantsGrow ==
  ASSUME TypeOK, now' \in Nat, now <= now'
  PROVE  Instants \subseteq Instants' /\ now' \in Instants'
  BY DayTypes DEF Instants

\* A table keeps its type, and its bars, whatever is put in it.
LEMMA UpsertType ==
  ASSUME TypeOK, NEW days, NEW t
  PROVE  /\ Upsert(days, t) \in [Days -> {"none", "partial", "closed"}]
         /\ \A d \in Days : stored[d] # "none" => Upsert(days, t)[d] # "none"
         /\ \A d \in Days : Upsert(days, t)[d] \in {stored[d], Serve(d, t)}
         /\ \A d \in Days : d \in days /\ Serve(d, t) # "none" => Upsert(days, t)[d] = Serve(d, t)
  <1>1. \A d \in Days : Serve(d, t) \in {"none", "partial", "closed"}
    BY DEF Serve
  <1>2. \A d \in Days : stored[d] \in {"none", "partial", "closed"}
    BY DEF TypeOK
  <1>3. QED
    BY <1>1, <1>2 DEF Upsert

\* What a job makes of the table, and of the bars that were pulled.
LEMMA FinishedJob ==
  ASSUME TypeOK, FinishJob
  PROVE  /\ stored' = stored \/ \E days \in SUBSET Days : stored' = Upsert(days, job.at)
         /\ \/ pulled' = pulled
            \/ /\ PreviousSession(job.at) \in published
               /\ pulled' = pulled \cup {PreviousSession(job.at)}
               /\ stored' = Upsert(0..PreviousSession(job.at), job.at)
  <1>1. job # NoJob /\ job.name \in JobNames /\ job.at \in Instants
    BY DayTypes DEF FinishJob
  <1>2. PreviousSession(job.at) \in Days
    <2>1. job.at \in Nat /\ FirstDay * DayLen <= job.at
      BY <1>1, DayTypes
    <2>2. job.at \in Int
      BY <2>1
    <2>3. PreviousSession(job.at) \in Sessions
      BY <2>1, <2>2, PreviousHasClosed
    <2>4. QED
      BY <2>3, Constants
  <1>3. 0..PreviousSession(job.at) \in SUBSET Days /\ Sessions \subseteq Days
    BY <1>2, Constants DEF Days
  <1>4. \/ UNCHANGED <<stored, pulled>>
        \/ /\ CASE job.name \in {"pull", "retry"} -> SessionBars
                [] job.name = "corporate" -> CorporateActions
                [] job.name = "sweep" -> MissingBars
                [] OTHER -> UNCHANGED stored
           /\ pulled' = IF job.name \in {"pull", "retry"} /\ PreviousSession(job.at) \in published
                        THEN pulled \cup {PreviousSession(job.at)} ELSE pulled
    BY DEF FinishJob
  <1>5. CASE job.name \in {"pull", "retry"} /\ SessionBars
             /\ pulled' \in {pulled, pulled \cup {PreviousSession(job.at)}}
             /\ (pulled' # pulled => PreviousSession(job.at) \in published)
    BY <1>3, <1>5 DEF SessionBars
  <1>6. CASE pulled' = pulled /\ CorporateActions
    BY <1>6 DEF CorporateActions
  <1>7. CASE pulled' = pulled /\ MissingBars
    <2>1. {d \in Sessions \ HasBars : CloseAt(d) <= job.at} \in SUBSET Days
      BY <1>3
    <2>2. QED
      BY <1>7, <2>1 DEF MissingBars
  <1>8. CASE pulled' = pulled /\ stored' = stored
    BY <1>8
  <1>9. QED
    BY <1>4, <1>5, <1>6, <1>7, <1>8

\* A warmup decides on a session that has closed, and holds bars back or not.
LEMMA WarmupType ==
  ASSUME TypeOK, Warmup
  PROVE  /\ runner'.state = "trading" /\ runner'.decision = PreviousSession(now)
         /\ runner' \in [state : {"down", "parked", "trading", "asleep"},
                         decision : Sessions \cup {None}, held : SUBSET Days, wake : Int,
                         ample : BOOLEAN]
         /\ runner'.decision \in Sessions /\ CloseAt(runner'.decision) <= now
         /\ fate' \in [Sessions -> [passed : BOOLEAN, taken : BOOLEAN, warned : BOOLEAN,
                                    failed : BOOLEAN]]
  <1> DEFINE decision == PreviousSession(now)
             loaded == NewestOf(RowsToLoad, HasBars)
             bars == {b \in loaded : b <= decision}
             withheld == Withheld(bars, decision)
             ample == loaded = bars /\ Needed <= Cardinality(HasBars \cap 0..(decision - 1))
  <1>1. decision \in Sessions /\ CloseAt(decision) <= now
    BY DayTypes, PreviousHasClosed
  <1>2. bars \ withheld \in SUBSET Days
    BY DayTypes DEF NewestOf
  <1>3. /\ runner' = [state |-> "trading", decision |-> decision, held |-> bars \ withheld,
                      wake |-> None, ample |-> ample]
        /\ fate' = [fate EXCEPT ![decision] =
             [passed |-> FALSE, taken |-> @.taken, warned |-> withheld = {}, failed |-> FALSE]]
    BY DEF Warmup, Announce
  <1>4. ample \in BOOLEAN /\ (withheld = {}) \in BOOLEAN
    OBVIOUS
  <1> HIDE DEF decision, bars, withheld, ample
  <1>5. fate' \in [Sessions -> [passed : BOOLEAN, taken : BOOLEAN, warned : BOOLEAN,
                                failed : BOOLEAN]]
    BY <1>1, <1>3, <1>4 DEF TypeOK
  <1>6. /\ runner' \in [state : {"down", "parked", "trading", "asleep"},
                        decision : Sessions \cup {None}, held : SUBSET Days, wake : Int,
                        ample : BOOLEAN]
        /\ runner'.state = "trading" /\ runner'.decision = decision
    BY <1>1, <1>2, <1>3, <1>4 DEF None
  <1>7. QED
    BY <1>1, <1>5, <1>6 DEF decision
\* The bar a pass finds new is one of the table, not newer than the decision,
\* and newer than every bar held.
LEMMA JustClosedType ==
  ASSUME TypeOK, runner.decision \in Sessions
  PROVE  /\ JustClosed \subseteq Days
         /\ JustClosed # {} =>
              \E b \in HasBars : /\ JustClosed = {b} /\ b <= runner.decision
                                 /\ \A h \in runner.held : h < b
  <1> DEFINE latest == Readable(HasBars)
  <1>1. latest \in SUBSET Nat /\ latest \subseteq HasBars /\ latest \subseteq Days
        /\ \A b \in latest : b <= LastDay /\ b <= runner.decision
    BY DayTypes, Constants DEF Readable, NewestOf
  <1>2. LastDay \in Nat /\ runner.held \subseteq Days /\ Days \subseteq Nat
    BY Constants DEF TypeOK
  <1>3. JustClosed = IF latest = {} \/ \E h \in runner.held : h >= Max(latest)
                     THEN {} ELSE {Max(latest)}
    BY DEF JustClosed
  <1> HIDE DEF latest
  <1>4. latest # {} => Max(latest) \in latest
    BY <1>1, <1>2, MaxIsGreatest
  <1>5. CASE latest = {} \/ \E h \in runner.held : h >= Max(latest)
    BY <1>3, <1>5
  <1>6. CASE ~(latest = {} \/ \E h \in runner.held : h >= Max(latest))
    <2>1. JustClosed = {Max(latest)} /\ Max(latest) \in latest
      BY <1>3, <1>4, <1>6
    <2>2. Max(latest) \in Nat /\ Max(latest) <= runner.decision /\ Max(latest) \in HasBars
          /\ Max(latest) \in Days
      BY <1>1, <2>1
    <2>3. \A h \in runner.held : h < Max(latest)
      <3> SUFFICES ASSUME NEW h \in runner.held PROVE h < Max(latest)
        OBVIOUS
      <3>1. h \in Nat
        BY <1>2
      <3>2. ~(h >= Max(latest))
        BY <1>6
      <3>3. QED
        BY <2>2, <3>1, <3>2
    <2>4. QED
      BY <2>1, <2>2, <2>3
  <1>7. QED
    BY <1>5, <1>6

\* What a pass leaves: the bars held and a bar that was new, what the strategy
\* was asked, and an order that carries the time of its bar.
LEMMA EvaluateType ==
  ASSUME TypeOK, Evaluate
  PROVE  /\ runner.state = "trading" /\ IsOpen(now) /\ runner.decision \in Sessions
         /\ CloseAt(runner.decision) <= now
         /\ runner' \in {runner, [runner EXCEPT !.held = runner.held \cup JustClosed]}
         /\ UNCHANGED <<now, market, jobs, booted>>
         /\ \/ UNCHANGED <<ask, orders, holding>>
            \/ \E bar \in JustClosed :
                 /\ ask' = [bar |-> bar, at |-> now, kind |-> stored[bar], pulled |-> bar \in pulled,
                            cold |-> Cold(runner.held \cup JustClosed), ample |-> runner.ample]
                 /\ \/ UNCHANGED <<orders, holding>>
                    \/ \E action \in {"enter", "exit"} : Accept(bar, action)
         /\ \/ /\ runner' = [runner EXCEPT !.held = runner.held \cup JustClosed]
               /\ fate' = [fate EXCEPT ![runner.decision].passed = TRUE,
                                       ![runner.decision].taken = @ \/ runner.decision \in JustClosed]
            \/ fate' = [fate EXCEPT ![runner.decision].failed = TRUE]
  <1> DEFINE held == runner.held \cup JustClosed
  <1>1. runner.state = "trading" /\ IsOpen(now) /\ UNCHANGED <<now, market, jobs, booted>>
    BY DEF Evaluate
  <1>2. runner.decision \in Sessions /\ CloseAt(runner.decision) <= now
    BY <1>1 DEF TypeOK
  <1>3. \/ /\ runner' = [runner EXCEPT !.held = held]
           /\ \/ JustClosed = {} /\ UNCHANGED <<ask, orders, holding>>
              \/ \E bar \in JustClosed :
                   /\ ask' = [bar |-> bar, at |-> now, kind |-> stored[bar],
                              pulled |-> bar \in pulled, cold |-> Cold(held), ample |-> runner.ample]
                   /\ Decide(bar, held)
           /\ fate' = [fate EXCEPT ![runner.decision].passed = TRUE,
                                   ![runner.decision].taken = @ \/ runner.decision \in JustClosed]
        \/ PassRaises(held)
    BY DEF Evaluate
  <1>4. ASSUME NEW bar, Decide(bar, held)
        PROVE  UNCHANGED <<orders, holding>> \/ \E action \in {"enter", "exit"} : Accept(bar, action)
    BY <1>4 DEF Decide, Submit
  <1> HIDE DEF held
  <1>5. CASE /\ runner' = [runner EXCEPT !.held = held]
             /\ \/ JustClosed = {} /\ UNCHANGED <<ask, orders, holding>>
                \/ \E bar \in JustClosed :
                     /\ ask' = [bar |-> bar, at |-> now, kind |-> stored[bar],
                                pulled |-> bar \in pulled, cold |-> Cold(held), ample |-> runner.ample]
                     /\ Decide(bar, held)
             /\ fate' = [fate EXCEPT ![runner.decision].passed = TRUE,
                                     ![runner.decision].taken = @ \/ runner.decision \in JustClosed]
    <2>1. CASE UNCHANGED <<ask, orders, holding>>
      BY <1>1, <1>2, <1>5, <2>1 DEF held
    <2>2. CASE \E bar \in JustClosed :
                 /\ ask' = [bar |-> bar, at |-> now, kind |-> stored[bar],
                            pulled |-> bar \in pulled, cold |-> Cold(held), ample |-> runner.ample]
                 /\ Decide(bar, held)
      <3>1. PICK bar \in JustClosed :
                 /\ ask' = [bar |-> bar, at |-> now, kind |-> stored[bar],
                            pulled |-> bar \in pulled, cold |-> Cold(held), ample |-> runner.ample]
                 /\ Decide(bar, held)
        BY <2>2
      <3>2. UNCHANGED <<orders, holding>> \/ \E action \in {"enter", "exit"} : Accept(bar, action)
        BY <1>4, <3>1
      <3>3. QED
        BY <1>1, <1>2, <1>5, <3>1, <3>2 DEF held
    <2>3. QED
      BY <1>5, <2>1, <2>2
  <1>6. CASE PassRaises(held)
    BY <1>1, <1>2, <1>6 DEF PassRaises, held
  <1>7. QED
    BY <1>3, <1>5, <1>6
\* Type correctness, of one step.
LEMMA TypeStep == TypeOK /\ [Next]_vars => TypeOK'
  <1> SUFFICES ASSUME TypeOK, [Next]_vars PROVE TypeOK'
    OBVIOUS
  <1> USE DEF market, trading, jobs
  <1>t. /\ now \in Nat /\ now \in Instants /\ now + 1 \in Nat
        /\ (now' = now => Instants' = Instants)
        /\ \A j \in JobNames, t \in Nat : NextDue(j, t) \in Nat
        /\ \A t \in Nat : NextOpen(t) \in Nat
    <2>1. now \in Nat /\ now \in Instants /\ now + 1 \in Nat
      BY DayTypes
    <2>2. \A j \in JobNames, t \in Nat : NextDue(j, t) \in Nat
      BY NextDueType
    <2>3. now' = now => Instants' = Instants
      BY DEF Instants
    <2>4. QED
      BY <2>1, <2>2, <2>3, NextOpenType
  <1>1. CASE StartJob
    <2>1. UNCHANGED <<now, faults, stored, published, runner, evaluated, orders, holding, ask, fate,
                      pulled, booted>>
      BY <1>1 DEF StartJob
    <2>2. PICK j \in JobNames :
            /\ due[j] <= now
            /\ IF j = "reconcile" /\ ~IsOpen(now)
               THEN due' = [due EXCEPT ![j] = NextDue(j, now)] /\ UNCHANGED <<job, last>>
               ELSE /\ job' = [name |-> j, at |-> now] /\ UNCHANGED due
                    /\ last' = IF j \in EdgeJobs THEN [last EXCEPT ![j] = due[j]] ELSE last
      BY <1>1 DEF StartJob
    <2>3. due' \in [JobNames -> Nat]
      <3>1. NextDue(j, now) \in Nat /\ due \in [JobNames -> Nat]
        BY <1>t DEF TypeOK
      <3>2. due' \in {due, [due EXCEPT ![j] = NextDue(j, now)]}
        BY <2>2
      <3>3. QED
        BY <3>1, <3>2
    <2>4. job' \in [name : JobNames, at : Instants] \cup {NoJob}
      BY <1>t, <2>2 DEF TypeOK
    <2>5. last' \in [EdgeJobs -> Int]
      BY <2>2 DEF TypeOK
    <2>6. QED
      BY <1>t, <2>1, <2>3, <2>4, <2>5 DEF TypeOK
  <1>2. CASE FinishJob
    <2>1. UNCHANGED <<now, published, runner, evaluated, orders, holding, ask, fate, last, booted>>
          /\ job # NoJob /\ job' = NoJob /\ due' = [due EXCEPT ![job.name] = NextDue(job.name, now)]
      BY <1>2 DEF FinishJob
    <2>2. stored' \in [Days -> {"none", "partial", "closed"}] /\ pulled' \subseteq Sessions
      BY <1>2, UpsertType, FinishedJob DEF TypeOK
    <2>3. due' \in [JobNames -> Nat]
      BY <1>t, <2>1, DayTypes DEF TypeOK
    <2>4. QED
      BY <1>t, <2>1, <2>2, <2>3 DEF TypeOK
  <1>3. ASSUME Quarantine
        PROVE  /\ UNCHANGED fate
               /\ runner' \in [state : {"down", "parked", "trading", "asleep"},
                               decision : Sessions \cup {None}, held : SUBSET Days, wake : Int,
                               ample : BOOLEAN]
               /\ runner'.state # "trading"
    BY <1>3 DEF Quarantine, Stopped, None
  <1>4. CASE Boot
    <2>1. /\ UNCHANGED <<now, job, stored, published, orders, holding, ask, pulled, last>>
          /\ booted' = now /\ evaluated' = FALSE /\ (Warmup \/ Quarantine)
          /\ due' = [j \in JobNames |-> NextDue(j, now)]
      BY <1>4 DEF Boot
    <2>2. due' \in [JobNames -> Nat]
      BY <1>t, <2>1
    <2>3. CASE Warmup
      BY <1>t, <2>1, <2>2, <2>3, WarmupType, Constants DEF TypeOK
    <2>4. CASE Quarantine
      BY <1>3, <1>t, <2>1, <2>2, <2>4 DEF TypeOK
    <2>5. QED
      BY <2>1, <2>3, <2>4
  <1>5. CASE Stop
    <2>1. UNCHANGED <<now, due, stored, published, orders, holding, ask, fate, pulled, last>>
          /\ job' = NoJob /\ booted' = None /\ evaluated' = FALSE /\ runner' = Stopped("down")
      BY <1>5 DEF Stop
    <2>2. /\ runner' \in [state : {"down", "parked", "trading", "asleep"},
                          decision : Sessions \cup {None}, held : SUBSET Days, wake : Int,
                          ample : BOOLEAN]
          /\ runner'.state # "trading"
      BY <2>1 DEF Stopped, None
    <2>3. QED
      BY <1>t, <2>1, <2>2 DEF TypeOK
  <1>6. CASE Sleep
    <2>1. UNCHANGED <<now, evaluated, stored, published, due, job, pulled, last, orders, holding, ask,
                      fate, booted>>
          /\ runner' = [runner EXCEPT !.state = "asleep", !.wake = NextOpen(now)]
      BY <1>6 DEF Sleep
    <2>2. /\ runner' \in [state : {"down", "parked", "trading", "asleep"},
                          decision : Sessions \cup {None}, held : SUBSET Days, wake : Int,
                          ample : BOOLEAN]
          /\ runner'.state # "trading"
      <3>1. NextOpen(now) \in Int
        BY <1>t
      <3>2. QED
        BY <2>1, <3>1 DEF TypeOK
    <2>3. QED
      BY <1>t, <2>1, <2>2 DEF TypeOK
  <1>7. CASE Wake
    <2>1. /\ UNCHANGED <<now, evaluated, stored, published, due, job, pulled, last, orders, holding,
                         ask, booted>>
          /\ (Warmup \/ Quarantine)
      BY <1>7 DEF Wake
    <2>2. CASE Warmup
      BY <1>t, <2>1, <2>2, WarmupType, Constants DEF TypeOK
    <2>3. CASE Quarantine
      BY <1>3, <1>t, <2>1, <2>3 DEF TypeOK
    <2>4. QED
      BY <2>1, <2>2, <2>3
  <1>8. CASE Evaluate
    <2>1. /\ UNCHANGED <<now, stored, published, due, job, pulled, last, booted>>
          /\ evaluated' = TRUE /\ JustClosed \subseteq Days /\ runner.decision \in Sessions
          /\ runner.state = "trading" /\ CloseAt(runner.decision) <= now
      BY <1>8, EvaluateType, JustClosedType DEF Evaluate
    <2>2. /\ runner' \in [state : {"down", "parked", "trading", "asleep"},
                          decision : Sessions \cup {None}, held : SUBSET Days, wake : Int,
                          ample : BOOLEAN]
          /\ runner'.state = "trading" /\ runner'.decision = runner.decision
      BY <1>8, <2>1, EvaluateType DEF TypeOK
    <2>3. fate' \in [Sessions -> [passed : BOOLEAN, taken : BOOLEAN, warned : BOOLEAN, failed : BOOLEAN]]
      <3> DEFINE d == runner.decision
                 taken == fate[d].taken \/ d \in JustClosed
      <3>1. /\ d \in Sessions /\ taken \in BOOLEAN
            /\ fate[d] \in [passed : BOOLEAN, taken : BOOLEAN, warned : BOOLEAN, failed : BOOLEAN]
        BY <2>1 DEF TypeOK
      <3>2. \/ fate' = [fate EXCEPT ![d].passed = TRUE, ![d].taken = taken]
            \/ fate' = [fate EXCEPT ![d].failed = TRUE]
        BY <1>8, <2>1, EvaluateType
      <3> HIDE DEF d, taken
      <3>3. \/ fate' = [fate EXCEPT ![d] = [fate[d] EXCEPT !.passed = TRUE, !.taken = taken]]
            \/ fate' = [fate EXCEPT ![d] = [fate[d] EXCEPT !.failed = TRUE]]
        BY <3>1, <3>2 DEF TypeOK
      <3>4. /\ [fate[d] EXCEPT !.passed = TRUE, !.taken = taken]
                 \in [passed : BOOLEAN, taken : BOOLEAN, warned : BOOLEAN, failed : BOOLEAN]
            /\ [fate[d] EXCEPT !.failed = TRUE]
                 \in [passed : BOOLEAN, taken : BOOLEAN, warned : BOOLEAN, failed : BOOLEAN]
        BY <3>1
      <3>5. QED
        BY <3>1, <3>3, <3>4 DEF TypeOK
    <2>4. /\ ask' \in [bar : Days \cup {None}, at : Int, kind : {"none", "partial", "closed"},
                       pulled : BOOLEAN, cold : BOOLEAN, ample : BOOLEAN]
          /\ orders' \subseteq [stamp : Nat, action : {"enter", "exit"}, bar : Days]
          /\ holding' \in BOOLEAN
      <3>1. CASE UNCHANGED <<ask, orders, holding>>
        BY <3>1 DEF TypeOK
      <3>2. ASSUME NEW bar \in JustClosed,
                   ask' = [bar |-> bar, at |-> now, kind |-> stored[bar], pulled |-> bar \in pulled,
                           cold |-> Cold(runner.held \cup JustClosed), ample |-> runner.ample],
                   \/ UNCHANGED <<orders, holding>>
                   \/ \E action \in {"enter", "exit"} : Accept(bar, action)
            PROVE  /\ ask' \in [bar : Days \cup {None}, at : Int, kind : {"none", "partial", "closed"},
                                pulled : BOOLEAN, cold : BOOLEAN, ample : BOOLEAN]
                   /\ orders' \subseteq [stamp : Nat, action : {"enter", "exit"}, bar : Days]
                   /\ holding' \in BOOLEAN
        <4>1. bar \in Days /\ bar \in Nat /\ stored[bar] \in {"none", "partial", "closed"}
              /\ runner.ample \in BOOLEAN /\ (bar \in pulled) \in BOOLEAN
              /\ Cold(runner.held \cup JustClosed) \in BOOLEAN /\ now \in Int
          BY <1>t, <2>1, Constants DEF TypeOK, Cold
        <4>2. ask' \in [bar : Days \cup {None}, at : Int, kind : {"none", "partial", "closed"},
                        pulled : BOOLEAN, cold : BOOLEAN, ample : BOOLEAN]
          BY <3>2, <4>1
        <4>3. Stamp(bar) \in Nat
          BY <4>1 DEF Stamp, DayLen
        <4>4. ASSUME NEW action \in {"enter", "exit"}, Accept(bar, action)
              PROVE  /\ orders' \subseteq [stamp : Nat, action : {"enter", "exit"}, bar : Days]
                     /\ holding' \in BOOLEAN
          <5>1. [stamp |-> Stamp(bar), action |-> action, bar |-> bar]
                  \in [stamp : Nat, action : {"enter", "exit"}, bar : Days]
            BY <4>1, <4>3
          <5>2. QED
            BY <4>4, <5>1 DEF Accept, TypeOK
        <4>5. CASE UNCHANGED <<orders, holding>>
          BY <4>2, <4>5 DEF TypeOK
        <4>6. QED
          BY <3>2, <4>2, <4>4, <4>5
      <3>3. QED
        BY <1>8, <3>1, <3>2, EvaluateType
    <2>5. QED
      BY <1>t, <2>1, <2>2, <2>3, <2>4 DEF TypeOK
  <1>9. CASE BackfillByHand
    <2>1. UNCHANGED <<now, runner, evaluated, orders, holding, ask, fate, due, job, pulled, last,
                      published, booted>> /\ stored' = Upsert(Days, now)
      BY <1>9 DEF BackfillByHand
    <2>2. stored' \in [Days -> {"none", "partial", "closed"}]
      BY <2>1, UpsertType
    <2>3. QED
      BY <1>t, <2>1, <2>2 DEF TypeOK
  <1>10. CASE Tick
    <2>1. /\ now + 1 < Beyond /\ now' = now + 1 /\ evaluated' = FALSE /\ Publish
          /\ UNCHANGED <<stored, due, job, pulled, last, runner, orders, holding, ask, fate, booted>>
      BY <1>10 DEF Tick
    <2>2. /\ now' \in FirstDay * DayLen .. Beyond - 1 /\ Instants \subseteq Instants'
      BY <2>1, DayTypes, InstantsGrow, Constants
    <2>3. published' \subseteq Sessions
      BY <2>1 DEF Publish, TypeOK
    <2>4. job' \in [name : JobNames, at : Instants'] \cup {NoJob}
      <3>1. CASE job = NoJob
        BY <2>1, <3>1
      <3>2. CASE job \in [name : JobNames, at : Instants]
        BY <2>1, <2>2, <3>2
      <3>3. QED
        BY <3>1, <3>2 DEF TypeOK
    <2>5. runner'.state = "trading" => runner'.decision # None /\ CloseAt(runner'.decision) <= now'
      <3> SUFFICES ASSUME runner.state = "trading"
                   PROVE  runner.decision # None /\ CloseAt(runner.decision) <= now + 1
        BY <2>1
      <3>1. runner.decision # None /\ runner.decision \in Sessions /\ CloseAt(runner.decision) <= now
        BY DEF TypeOK
      <3>2. runner.decision \in Int
        <4>1. Sessions \subseteq Nat
          BY Constants
        <4>2. runner.decision \in Nat
          BY <3>1, <4>1, Zenon
        <4>3. QED
          BY <4>2
      <3>3. CloseAt(runner.decision) \in Int
        BY <3>2, Clock
      <3>4. QED
        BY <1>t, <3>1, <3>3
    <2>6. booted' \in Instants' \cup {None}
      BY <2>1, <2>2 DEF TypeOK
    <2>7. QED
      BY <2>1, <2>2, <2>3, <2>4, <2>5, <2>6 DEF TypeOK
  <1>11. CASE UNCHANGED vars
    BY <1>11 DEF TypeOK, vars, Instants
  <1>12. QED
    BY <1>1, <1>2, <1>4, <1>5, <1>6, <1>7, <1>8, <1>9, <1>10, <1>11 DEF Next
\* Before anything has happened.
LEMMA TypeInit == Init => TypeOK
  <1> SUFFICES ASSUME Init PROVE TypeOK
    OBVIOUS
  <1>1. now = FirstDay * DayLen /\ now \in FirstDay * DayLen .. Beyond - 1
    <2>1. FirstDay * DayLen \in Int /\ FirstDay * DayLen < Beyond
      BY DayAssumption DEF Days, DayLen, Beyond
    <2>2. QED
      BY <2>1, Constants DEF Init
  <1>2. /\ runner \in [state : {"down", "parked", "trading", "asleep"}, decision : Sessions \cup {None},
                       held : SUBSET Days, wake : Int, ample : BOOLEAN]
        /\ runner.state # "trading"
    BY DEF Init, Stopped, None
  <1>3. due \in [JobNames -> Nat] /\ last \in [EdgeJobs -> Int]
    BY Constants DEF Init
  <1>4. stored \in [Days -> {"none", "partial", "closed"}] /\ published \subseteq Sessions
    BY DEF Init
  <1>5. ask \in [bar : Days \cup {None}, at : Int, kind : {"none", "partial", "closed"},
                 pulled : BOOLEAN, cold : BOOLEAN, ample : BOOLEAN]
    BY DEF Init, None
  <1>6. fate \in [Sessions -> [passed : BOOLEAN, taken : BOOLEAN, warned : BOOLEAN, failed : BOOLEAN]]
    BY DEF Init
  <1>7. /\ evaluated = FALSE /\ holding = FALSE /\ job = NoJob /\ orders = {} /\ pulled = {}
        /\ booted = None
    BY DEF Init
  <1>8. QED
    BY <1>1, <1>2, <1>3, <1>4, <1>5, <1>6, <1>7 DEF TypeOK

\* Type correctness.
THEOREM TypesHold == Spec => []TypeOK
  BY TypeInit, TypeStep, PTL DEF Spec

-----------------------------------------------------------------------------
(* One order to a decision. *)

\* An order carries the time of the bar it was decided on, and no two are the
\* same to the venue.
OrdersInv ==
  /\ \A o \in orders : o.stamp = Stamp(o.bar)
  /\ OneOrderPerDecision

\* The venue refuses the second order of a decision.
LEMMA OrdersAccept ==
  ASSUME OrdersInv, NEW bar, NEW action, Accept(bar, action)
  PROVE  OrdersInv'
  <1> DEFINE new == [stamp |-> Stamp(bar), action |-> action, bar |-> bar]
  <1>1. new.stamp = Stamp(bar) /\ new.action = action /\ new.bar = bar
    OBVIOUS
  <1>2. \/ orders' = orders
        \/ /\ orders' = orders \cup {new}
           /\ \A o \in orders : ~(o.stamp = Stamp(bar) /\ o.action = action)
    BY DEF Accept
  <1>3. \A b : Stamp(b)' = Stamp(b)
    BY DEF Stamp
  <1> HIDE DEF new
  <1>4. CASE orders' = orders
    BY <1>3, <1>4 DEF OrdersInv, OneOrderPerDecision
  <1>5. CASE /\ orders' = orders \cup {new}
             /\ \A o \in orders : ~(o.stamp = Stamp(bar) /\ o.action = action)
    <2>1. \A o \in orders' : o.stamp = Stamp(o.bar)
      BY <1>1, <1>5 DEF OrdersInv
    <2>2. ASSUME NEW o \in orders', NEW p \in orders', o.bar = p.bar, o.action = p.action
          PROVE  o = p
      <3>1. o.stamp = p.stamp
        BY <2>1, <2>2
      <3>2. CASE o \in orders /\ p \in orders
        BY <2>2, <3>2 DEF OrdersInv, OneOrderPerDecision
      <3>3. CASE o = new /\ p = new
        BY <3>3
      <3>4. CASE (o = new /\ p \in orders) \/ (o \in orders /\ p = new)
        BY <1>1, <1>5, <2>2, <3>1, <3>4
      <3>5. QED
        BY <1>5, <3>2, <3>3, <3>4
    <2>3. QED
      BY <1>3, <2>1, <2>2 DEF OrdersInv, OneOrderPerDecision
  <1>6. QED
    BY <1>2, <1>4, <1>5

\* However often a decision is made again, the venue accepts one order of a kind
\* for it (_stamp, client_order_id).
THEOREM OrderedOnce == Spec => []OneOrderPerDecision
  <1>1. Init => OrdersInv
    BY DEF Init, OrdersInv, OneOrderPerDecision
  <1>2. TypeOK /\ OrdersInv /\ [Next]_vars => OrdersInv'
    <2> SUFFICES ASSUME TypeOK, OrdersInv, [Next]_vars PROVE OrdersInv'
      OBVIOUS
    <2>1. CASE orders' = orders
      BY <2>1 DEF OrdersInv, OneOrderPerDecision, Stamp
    <2>2. CASE Evaluate
      BY <2>1, <2>2, EvaluateType, OrdersAccept
    <2>3. CASE ~Evaluate
      BY <2>1, <2>3 DEF Next, StartJob, FinishJob, Boot, Stop, Sleep, Wake, BackfillByHand, Tick,
         trading, vars
    <2>4. QED
      BY <2>2, <2>3
  <1>3. OrdersInv => OneOrderPerDecision
    BY DEF OrdersInv
  <1>4. QED
    BY <1>1, <1>2, <1>3, TypesHold, PTL DEF Spec

-----------------------------------------------------------------------------
(* No lookahead. *)

\* What is in the table has begun, and was served.  A bar that a pull fetched is
\* the whole session's, and no job that runs can see the session half done.
TableInv ==
  /\ \A d \in HasBars : d \in published /\ OpenAt(d) <= now
  /\ \A d \in pulled :
       /\ d \in published /\ CloseAt(d) <= now /\ stored[d] = "closed"
       /\ job # NoJob => CloseAt(d) <= job.at

\* Bars put in the table as the vendor served them at an instant: they have
\* begun, and a session that had closed then is whole.
LEMMA UpsertTable ==
  ASSUME TypeOK, TableInv, NEW days \in SUBSET Days, NEW t \in Int, t <= now,
         stored' = Upsert(days, t)
  PROVE  /\ \A d \in HasBars' : d \in published /\ OpenAt(d) <= now
         /\ \A d \in published : CloseAt(d) <= t /\ (d \in days \/ stored[d] = "closed")
                                   => stored'[d] = "closed"
  <1>1. \A d \in Days : OpenAt(d) \in Int /\ CloseAt(d) \in Int /\ OpenAt(d) < CloseAt(d)
    BY Clock, Constants
  <1>2. now \in Int /\ published \subseteq Days
    BY DayTypes, Constants DEF TypeOK
  <1>3. ASSUME NEW d \in HasBars' PROVE d \in published /\ OpenAt(d) <= now
    <2>1. d \in Days /\ stored'[d] # "none" /\ stored'[d] \in {stored[d], Serve(d, t)}
      BY UpsertType DEF HasBars
    <2>2. CASE stored[d] # "none"
      BY <2>1, <2>2 DEF TableInv, HasBars
    <2>3. CASE Serve(d, t) # "none"
      <3>1. d \in published /\ ~(OpenAt(d) > t)
        BY <2>3 DEF Serve
      <3>2. QED
        BY <1>1, <1>2, <2>1, <3>1
    <2>4. QED
      BY <2>1, <2>2, <2>3
  <1>4. ASSUME NEW d \in published, CloseAt(d) <= t, d \in days \/ stored[d] = "closed"
        PROVE  stored'[d] = "closed"
    <2>1. Serve(d, t) = "closed"
      <3>1. d \in Days /\ ~(OpenAt(d) > t)
        BY <1>1, <1>2, <1>4
      <3>2. QED
        BY <1>4, <3>1 DEF Serve
    <2>2. QED
      BY <1>2, <1>4, <2>1, UpsertType
  <1>5. QED
    BY <1>3, <1>4
\* The table, of one step.
LEMMA TableStep == TypeOK /\ TableInv /\ [Next]_vars => TableInv'
  <1> SUFFICES ASSUME TypeOK, TableInv, [Next]_vars PROVE TableInv'
    OBVIOUS
  <1> USE DEF market, trading, jobs
  <1>t. /\ now \in Nat /\ \A d \in Days : OpenAt(d) \in Int /\ CloseAt(d) \in Int
        /\ pulled \subseteq Days /\ published \subseteq Days
    <2>1. now \in Nat
      BY DayTypes
    <2>2. \A d \in Days : OpenAt(d) \in Int /\ CloseAt(d) \in Int
      BY Clock, Constants
    <2>3. pulled \subseteq Days /\ published \subseteq Days
      BY Constants DEF TypeOK
    <2>4. QED
      BY <2>1, <2>2, <2>3
  <1>1. CASE UNCHANGED <<now, stored, published, pulled>> /\ (job' = NoJob \/ job'.at = now \/ job' = job)
    <2>1. HasBars' = HasBars
      BY <1>1 DEF HasBars
    <2>2. \A d : OpenAt(d)' = OpenAt(d) /\ CloseAt(d)' = CloseAt(d)
      BY DEF OpenAt, CloseAt
    <2>3. ASSUME NEW d \in pulled, job' # NoJob PROVE CloseAt(d) <= job'.at
      BY <1>1, <2>3 DEF TableInv
    <2>4. QED
      BY <1>1, <2>1, <2>2, <2>3 DEF TableInv
  <1>2. CASE StartJob
    <2>1. job' = job \/ job'.at = now
      BY <1>2 DEF StartJob
    <2>2. QED
      BY <1>1, <1>2, <2>1 DEF StartJob
  <1>3. CASE FinishJob
    <2>1. UNCHANGED <<now, published>> /\ job' = NoJob /\ job # NoJob
      BY <1>3 DEF FinishJob
    <2>2. job.at \in Int /\ job.at <= now /\ FirstDay * DayLen <= job.at
      BY <2>1, DayTypes
    <2> DEFINE new == PreviousSession(job.at)
    <2>3. new \in Sessions /\ CloseAt(new) <= job.at /\ new \in Days /\ new \in 0..new
      <3>1. new \in Sessions /\ CloseAt(new) <= job.at
        BY <2>2, PreviousHasClosed
      <3>2. new \in Days /\ new \in Nat
        BY <3>1, Constants
      <3>3. QED
        BY <3>1, <3>2
    <2> HIDE DEF new
    <2>4. CASE stored' = stored /\ pulled' = pulled
      BY <1>1, <2>1, <2>4
    <2>5. CASE \E days \in SUBSET Days :
                 /\ stored' = Upsert(days, job.at)
                 /\ \A d \in pulled' :
                      d \in pulled \/ (d \in published /\ d \in days /\ CloseAt(d) <= job.at)
      <3>0. PICK days \in SUBSET Days :
                 /\ stored' = Upsert(days, job.at)
                 /\ \A d \in pulled' :
                      d \in pulled \/ (d \in published /\ d \in days /\ CloseAt(d) <= job.at)
        BY <2>5
      <3>1. /\ \A d \in HasBars' : d \in published /\ OpenAt(d) <= now
            /\ \A d \in published : CloseAt(d) <= job.at /\ (d \in days \/ stored[d] = "closed")
                                      => stored'[d] = "closed"
        BY <2>2, <3>0, UpsertTable
      <3>2. \A d \in pulled : d \in published /\ CloseAt(d) <= job.at /\ stored[d] = "closed"
        BY <2>1 DEF TableInv
      <3>3. ASSUME NEW d \in pulled'
            PROVE  d \in published /\ CloseAt(d) <= now /\ stored'[d] = "closed"
        <4>1. d \in published /\ CloseAt(d) <= job.at /\ (d \in days \/ stored[d] = "closed")
          BY <3>0, <3>2, <3>3
        <4>2. CloseAt(d) \in Int
          BY <1>t, <4>1
        <4>3. QED
          BY <1>t, <2>2, <3>1, <4>1, <4>2
      <3>4. \A d : OpenAt(d)' = OpenAt(d) /\ CloseAt(d)' = CloseAt(d)
        BY DEF OpenAt, CloseAt
      <3>5. QED
        BY <2>1, <3>1, <3>3, <3>4 DEF TableInv
    <2>6. CASE pulled' = pulled /\ \E days \in SUBSET Days : stored' = Upsert(days, job.at)
      BY <2>5, <2>6
    <2>7. CASE /\ new \in published /\ pulled' = pulled \cup {new}
               /\ stored' = Upsert(0..new, job.at)
      <3>1. 0..new \in SUBSET Days
        BY <2>3, Constants DEF Days
      <3>2. \A d \in pulled' :
              d \in pulled \/ (d \in published /\ d \in 0..new /\ CloseAt(d) <= job.at)
        BY <2>3, <2>7
      <3>3. QED
        BY <2>5, <2>7, <3>1, <3>2
    <2>8. QED
      BY <1>3, <2>4, <2>6, <2>7, FinishedJob DEF new
  <1>4. CASE BackfillByHand
    <2>1. UNCHANGED <<now, published, job, pulled>> /\ stored' = Upsert(Days, now)
      BY <1>4 DEF BackfillByHand
    <2>2. /\ \A d \in HasBars' : d \in published /\ OpenAt(d) <= now
          /\ \A d \in published : CloseAt(d) <= now /\ (d \in Days \/ stored[d] = "closed")
                                    => stored'[d] = "closed"
      BY <1>t, <2>1, UpsertTable
    <2>3. \A d \in pulled : stored'[d] = "closed"
      BY <1>t, <2>2 DEF TableInv
    <2>4. \A d : OpenAt(d)' = OpenAt(d) /\ CloseAt(d)' = CloseAt(d)
      BY DEF OpenAt, CloseAt
    <2>5. QED
      BY <2>1, <2>2, <2>3, <2>4 DEF TableInv
  <1>5. CASE Tick
    <2>1. UNCHANGED <<stored, job, pulled>> /\ now' = now + 1 /\ published \subseteq published'
      BY <1>5 DEF Tick, Publish
    <2>2. HasBars' = HasBars /\ HasBars \subseteq Days
      BY <2>1 DEF HasBars
    <2>3. \A d : OpenAt(d)' = OpenAt(d) /\ CloseAt(d)' = CloseAt(d)
      BY DEF OpenAt, CloseAt
    <2>4. ASSUME NEW d \in HasBars PROVE d \in published' /\ OpenAt(d) <= now'
      <3>1. d \in published /\ OpenAt(d) <= now /\ OpenAt(d) \in Int
        BY <1>t, <2>2 DEF TableInv
      <3>2. QED
        BY <1>t, <2>1, <3>1
    <2>5. ASSUME NEW d \in pulled PROVE d \in published' /\ CloseAt(d) <= now'
      <3>1. d \in published /\ CloseAt(d) <= now /\ CloseAt(d) \in Int
        BY <1>t DEF TableInv
      <3>2. QED
        BY <1>t, <2>1, <3>1
    <2>6. QED
      BY <2>1, <2>2, <2>3, <2>4, <2>5 DEF TableInv
  <1>6. CASE Boot \/ Stop \/ Sleep \/ Wake \/ Evaluate \/ UNCHANGED vars
    BY <1>1, <1>6, EvaluateType DEF Boot, Stop, Sleep, Wake, vars
  <1>7. QED
    BY <1>2, <1>3, <1>4, <1>5, <1>6 DEF Next

\* The table before anything has happened.
LEMMA TableInit == Init => TableInv
  <1> SUFFICES ASSUME Init PROVE TableInv
    OBVIOUS
  <1>1. PICK have \in SUBSET published :
               stored = [d \in Days |-> IF d \in have THEN "closed" ELSE "none"]
    BY DEF Init
  <1>2. published = {d \in Sessions : d < FirstDay} /\ now = FirstDay * DayLen /\ pulled = {}
    BY DEF Init
  <1>3. ASSUME NEW d \in HasBars PROVE d \in published /\ OpenAt(d) <= now
    <2>1. d \in have
      BY <1>1 DEF HasBars
    <2>2. d \in Sessions /\ d < FirstDay
      BY <1>2, <2>1
    <2>3. d \in Nat /\ FirstDay \in Nat
      BY <2>2, Constants
    <2>4. OpenAt(d) <= FirstDay * DayLen
      BY <2>2, <2>3 DEF OpenAt, DayLen, OpenSlot
    <2>5. QED
      BY <1>2, <2>1, <2>4
  <1>4. QED
    BY <1>2, <1>3 DEF TableInv

\* No lookahead: a strategy is asked about a session that has closed, and the
\* bar it is shown is the whole session's if a pull fetched it (_refresh_bars,
\* warmup, refresh_session_bars).
THEOREM NothingIsSeenEarly == Spec => []NoLookahead
  <1>1. Init => NoLookahead
    BY DEF Init, NoLookahead
  <1>2. TypeOK /\ TableInv /\ NoLookahead /\ [Next]_vars => NoLookahead'
    <2> SUFFICES ASSUME TypeOK, TableInv, NoLookahead, [Next]_vars PROVE NoLookahead'
      OBVIOUS
    <2>1. CASE ask' = ask
      BY <2>1 DEF NoLookahead, CloseAt
    <2>2. CASE Evaluate
      <3>1. SUFFICES ASSUME NEW bar \in JustClosed, ask'.bar = bar, ask'.at = now,
                            ask'.kind = stored[bar], ask'.pulled = (bar \in pulled)
                     PROVE  NoLookahead'
        BY <2>1, <2>2, EvaluateType
      <3>2. /\ runner.decision \in Sessions /\ CloseAt(runner.decision) <= now
            /\ bar \in Days /\ bar <= runner.decision
        BY <2>2, <3>1, EvaluateType, JustClosedType
      <3>3. CloseAt(bar) <= now
        <4>1. bar \in Nat /\ runner.decision \in Nat /\ now \in Nat
          BY <3>2, Constants, DayTypes
        <4>2. CloseAt(bar) <= CloseAt(runner.decision) /\ CloseAt(bar) \in Int
              /\ CloseAt(runner.decision) \in Int
          BY <3>2, <4>1 DEF CloseAt, DayLen, CloseSlot
        <4>3. QED
          BY <3>2, <4>1, <4>2
      <3>4. bar \in pulled => stored[bar] = "closed"
        BY DEF TableInv
      <3>5. CloseAt(ask'.bar) <= ask'.at /\ (ask'.pulled => ask'.kind = "closed")
        BY <3>1, <3>3, <3>4
      <3>6. QED
        BY <3>5 DEF NoLookahead, CloseAt
    <2>3. CASE ~Evaluate
      BY <2>1, <2>3 DEF Next, StartJob, FinishJob, Boot, Stop, Sleep, Wake, BackfillByHand, Tick,
         trading, vars
    <2>4. QED
      BY <2>2, <2>3
  <1>3. QED
    BY <1>1, <1>2, TableInit, TableStep, TypesHold, PTL DEF Spec
-----------------------------------------------------------------------------
(* Warm enough to decide. *)

\* A runner that had its history holds as many bars as the strategy needs.
WarmInv == runner.ample => Cardinality(runner.held) >= Needed

\* A warmup keeps what it needs, with the decision's own bar taken away: it reads
\* one row more than that.
LEMMA WarmAfterWarmup ==
  ASSUME TypeOK, Warmup
  PROVE  WarmInv'
  <1> DEFINE decision == PreviousSession(now)
             loaded == NewestOf(RowsToLoad, HasBars)
             bars == {b \in loaded : b <= decision}
             withheld == Withheld(bars, decision)
             before == HasBars \cap 0..(decision - 1)
             ample == loaded = bars /\ Needed <= Cardinality(before)
  <1>1. runner'.held = bars \ withheld /\ runner'.ample = ample
    BY DEF Warmup
  <1>2. SUFFICES ASSUME ample PROVE Cardinality(bars \ withheld) >= Needed
    BY <1>1 DEF WarmInv
  <1>3. decision \in Nat /\ decision \notin before
    <2>1. now \in Int /\ FirstDay * DayLen <= now
      BY DayTypes
    <2>2. decision \in Sessions
      BY <2>1, PreviousHasClosed
    <2> HIDE DEF decision
    <2>3. decision \in Nat
      BY <2>2, Constants
    <2>4. decision \notin 0..(decision - 1)
      BY <2>3
    <2>5. QED
      BY <2>3, <2>4
  <1>4. HasBars \in SUBSET Days /\ IsFiniteSet(HasBars) /\ Needed \in Nat /\ Needed + 1 \in Nat
        /\ RowsToLoad = Needed + 1
    <2>1. HasBars \in SUBSET Days /\ IsFiniteSet(Days)
      BY DayTypes, FiniteDays
    <2>2. IsFiniteSet(HasBars)
      BY <2>1, FS_Subset
    <2>3. Needed \in Nat /\ Needed + 1 \in Nat /\ RowsToLoad = Needed + 1
      BY Constants DEF RowsToLoad
    <2>4. QED
      BY <2>1, <2>2, <2>3
  <1>5. withheld \subseteq {decision}
    BY DEF Withheld
  <1>6. IsFiniteSet(before) /\ Cardinality(before) <= Cardinality(HasBars)
        /\ Cardinality(before) \in Nat /\ Cardinality(HasBars) \in Nat
    BY <1>4, FS_Subset, FS_CardinalityType
  <1>7. loaded = bars /\ Needed <= Cardinality(before)
    BY <1>2
  <1> HIDE DEF before, withheld, bars, decision
  <1>8. CASE decision \in HasBars
    <2>1. before \cup {decision} \subseteq HasBars
      BY <1>8 DEF before
    <2>2. Cardinality(before \cup {decision}) = Cardinality(before) + 1
      BY <1>3, <1>6, FS_AddElement
    <2>3. Cardinality(before) + 1 <= Cardinality(HasBars)
      BY <1>4, <2>1, <2>2, FS_Subset
    <2>4. Cardinality(HasBars) >= Needed + 1
      BY <1>4, <1>6, <1>7, <2>3
    <2>5. IsFiniteSet(loaded) /\ Cardinality(loaded) >= Needed + 1
      BY <1>4, <2>4, NewestAreEnough
    <2>6. IsFiniteSet(bars) /\ Cardinality(bars) >= Needed + 1
      BY <1>7, <2>5
    <2>7. /\ IsFiniteSet(bars \ {decision})
          /\ Cardinality(bars \ {decision}) \in {Cardinality(bars), Cardinality(bars) - 1}
      BY <2>6, FS_RemoveElement
    <2>8. IsFiniteSet(bars \ withheld) /\ bars \ {decision} \subseteq bars \ withheld
      BY <1>5, <2>6, FS_Subset
    <2>9. Cardinality(bars \ {decision}) <= Cardinality(bars \ withheld)
      BY <2>8, FS_Subset
    <2>10. Cardinality(bars) \in Nat /\ Cardinality(bars \ withheld) \in Nat
      BY <2>6, <2>8, FS_CardinalityType
    <2>11. QED
      BY <1>4, <2>6, <2>7, <2>9, <2>10
  <1>9. CASE decision \notin HasBars
    <2>1. NewestOf(Needed, HasBars) \subseteq HasBars /\ IsFiniteSet(NewestOf(Needed, HasBars))
          /\ Cardinality(NewestOf(Needed, HasBars)) >= Needed
      <3>1. Cardinality(HasBars) >= Needed
        BY <1>4, <1>6, <1>7
      <3>2. QED
        BY <1>4, <3>1, NewestAreEnough
    <2>2. NewestOf(Needed, HasBars) \subseteq loaded
      <3> SUFFICES ASSUME NEW b \in NewestOf(Needed, HasBars) PROVE b \in loaded
        OBVIOUS
      <3> DEFINE above == {c \in HasBars : c > b}
      <3>1. b \in HasBars /\ Cardinality(above) < Needed
        BY DEF NewestOf
      <3>2. above \subseteq HasBars
        OBVIOUS
      <3> HIDE DEF above
      <3>3. Cardinality(above) \in Nat
        BY <1>4, <3>2, FS_Subset, FS_CardinalityType
      <3>4. Cardinality(above) < Needed + 1
        BY <1>4, <3>1, <3>3
      <3>5. QED
        BY <1>4, <3>1, <3>4 DEF NewestOf, above
    <2>3. bars \ withheld = bars
      BY <1>5, <1>7, <1>9 DEF NewestOf
    <2>4. IsFiniteSet(bars)
      BY <1>4, <1>7, FS_Subset DEF NewestOf
    <2>5. NewestOf(Needed, HasBars) \subseteq bars
      BY <1>7, <2>2
    <2>6. Cardinality(NewestOf(Needed, HasBars)) <= Cardinality(bars)
      BY <2>4, <2>5, FS_Subset
    <2>7. Cardinality(bars) \in Nat /\ Cardinality(NewestOf(Needed, HasBars)) \in Nat
      BY <2>1, <2>4, FS_CardinalityType
    <2>8. Cardinality(bars) >= Needed
      BY <1>4, <2>1, <2>6, <2>7
    <2>9. QED
      BY <2>3, <2>8
  <1>10. QED
    BY <1>8, <1>9

\* A strategy with enough history is not taken for a cold one when it decides
\* (bars_to_load, warm_after, warmup, _poll_strategy).
THEOREM HistoryIsEnough == Spec => []WarmAtTheDecision
  <1>1. Init => WarmInv /\ WarmAtTheDecision
    BY DEF Init, Stopped, WarmInv, WarmAtTheDecision
  <1>2. TypeOK /\ WarmInv /\ WarmAtTheDecision /\ [Next]_vars => WarmInv' /\ WarmAtTheDecision'
    <2> SUFFICES ASSUME TypeOK, WarmInv, WarmAtTheDecision, [Next]_vars
                 PROVE  WarmInv' /\ WarmAtTheDecision'
      OBVIOUS
    <2> USE DEF trading
    <2>1. CASE UNCHANGED <<runner, ask>>
      BY <2>1 DEF WarmInv, WarmAtTheDecision
    <2>2. CASE Boot \/ Wake
      <3>1. ask' = ask /\ (Warmup \/ Quarantine)
        BY <2>2 DEF Boot, Wake
      <3>2. WarmInv'
        BY <3>1, WarmAfterWarmup DEF Quarantine, Stopped, WarmInv
      <3>3. QED
        BY <3>1, <3>2 DEF WarmAtTheDecision
    <2>3. CASE Stop
      BY <2>3 DEF Stop, Stopped, WarmInv, WarmAtTheDecision
    <2>4. CASE Sleep
      <3>1. ask' = ask /\ runner' = [runner EXCEPT !.state = "asleep", !.wake = NextOpen(now)]
        BY <2>4 DEF Sleep
      <3>2. runner'.held = runner.held /\ runner'.ample = runner.ample
        BY <3>1 DEF TypeOK
      <3>3. QED
        BY <3>1, <3>2 DEF WarmInv, WarmAtTheDecision
    <2>5. CASE Evaluate
      <3> DEFINE held == runner.held \cup JustClosed
      <3>1. runner.held \subseteq Days /\ JustClosed \subseteq Days /\ IsFiniteSet(Days)
            /\ Needed \in Nat /\ Days \subseteq Nat /\ runner.decision \in Sessions
        <4>1. runner.decision \in Sessions /\ runner.held \subseteq Days
          BY <2>5, EvaluateType DEF TypeOK
        <4>2. QED
          BY <4>1, JustClosedType, Constants, FiniteDays
      <3>2. IsFiniteSet(held) /\ IsFiniteSet(runner.held)
        BY <3>1, FS_Subset
      <3>3. Cardinality(held) \in Nat /\ Cardinality(runner.held) \in Nat
            /\ Cardinality(runner.held) <= Cardinality(held)
        BY <3>2, FS_Subset, FS_CardinalityType
      <3>4. JustClosed # {} => Cardinality(held) = Cardinality(runner.held) + 1
        <4> SUFFICES ASSUME JustClosed # {}
                     PROVE  Cardinality(held) = Cardinality(runner.held) + 1
          OBVIOUS
        <4>1. PICK b \in HasBars : JustClosed = {b} /\ \A h \in runner.held : h < b
          BY <3>1, JustClosedType
        <4>2. b \notin runner.held
          <5>1. b \in Nat
            BY <3>1, <4>1
          <5>2. ~(b < b)
            BY <5>1
          <5>3. QED
            BY <4>1, <5>2
        <4>3. QED
          BY <3>2, <4>1, <4>2, FS_AddElement
      <3> HIDE DEF held
      <3>5. runner'.ample = runner.ample /\ runner'.held \in {runner.held, held}
        BY <2>5, EvaluateType DEF TypeOK, held
      <3>6. WarmInv'
        BY <3>1, <3>3, <3>5 DEF WarmInv
      <3>7. \/ ask' = ask
            \/ JustClosed # {} /\ ask'.cold = Cold(held) /\ ask'.ample = runner.ample
        BY <2>5, EvaluateType DEF held
      <3>8. WarmAtTheDecision'
        <4>1. CASE ask' = ask
          BY <4>1 DEF WarmAtTheDecision
        <4>2. CASE JustClosed # {} /\ ask'.cold = Cold(held) /\ ask'.ample = runner.ample
          <5>1. runner.ample => ~(Cardinality(held) <= Needed)
            BY <3>1, <3>3, <3>4, <4>2 DEF WarmInv
          <5>2. QED
            BY <4>2, <5>1 DEF WarmAtTheDecision, Cold
        <4>3. QED
          BY <3>7, <4>1, <4>2
      <3>9. QED
        BY <3>6, <3>8
    <2>6. CASE StartJob \/ FinishJob \/ BackfillByHand \/ Tick \/ UNCHANGED vars
      BY <2>1, <2>6 DEF StartJob, FinishJob, BackfillByHand, Tick, vars
    <2>7. QED
      BY <2>2, <2>3, <2>4, <2>5, <2>6 DEF Next
  <1>3. QED
    BY <1>1, <1>2, TypesHold, PTL DEF Spec
-----------------------------------------------------------------------------
(* A missing decision. *)

\* The loop is not held up from one session into the next: a pass is made with
\* the decision of the session it is made in.  A process that was, as one
\* suspended over a night, would decide on a session that is no longer among the
\* two newest rows it reads, and say nothing.
NotHeldOverNight ==
  runner.state = "trading" /\ IsOpen(now) => runner.decision = PreviousSession(now)

\* What the decision of a trading process came to, or will come to at its next
\* pass: its bar is in the table and the process does not hold it.
Settled(d) == fate[d].taken \/ fate[d].warned \/ fate[d].failed
Awaited(d) == stored[d] # "none" /\ d \notin runner.held
MissingInv ==
  /\ MissingIsLoud
  /\ runner.state = "trading" =>
       /\ \A h \in runner.held : h <= runner.decision
       /\ Settled(runner.decision) \/ Awaited(runner.decision)

\* A bar of the table stays.
LEMMA BarsStay ==
  ASSUME TypeOK, [Next]_vars, NEW d \in Days, stored[d] # "none"
  PROVE  stored'[d] # "none"
  <1>1. CASE FinishJob
    BY <1>1, FinishedJob, UpsertType
  <1>2. CASE BackfillByHand
    BY <1>2, UpsertType DEF BackfillByHand
  <1>3. CASE ~(FinishJob \/ BackfillByHand)
    BY <1>3, EvaluateType DEF Next, StartJob, Boot, Stop, Sleep, Wake, Tick, vars, market
  <1>4. QED
    BY <1>1, <1>2, <1>3

\* A warmup settles the decision, or holds its bar back.
LEMMA MissingWarmup ==
  ASSUME TypeOK, MissingInv, Warmup, UNCHANGED stored
  PROVE  MissingInv'
  <1> DEFINE decision == PreviousSession(now)
             bars == {b \in NewestOf(RowsToLoad, HasBars) : b <= decision}
             withheld == Withheld(bars, decision)
  <1>1. /\ runner'.held = bars \ withheld /\ runner'.decision = decision
        /\ fate' = [fate EXCEPT ![decision] =
             [passed |-> FALSE, taken |-> @.taken, warned |-> withheld = {}, failed |-> FALSE]]
    BY DEF Warmup, Announce
  <1>2. decision \in Sessions
    BY WarmupType
  <1>3. bars \in SUBSET Nat /\ bars \subseteq HasBars /\ \A b \in bars : b <= LastDay /\ b <= decision
    BY DayTypes, Constants DEF NewestOf
  <1>4. withheld = IF bars # {} /\ Max(bars) = decision THEN {decision} ELSE {}
    BY DEF Withheld
  <1> HIDE DEF decision, bars, withheld
  <1>5. /\ fate'[decision].passed = FALSE /\ fate'[decision].warned = (withheld = {})
        /\ \A d \in Sessions \ {decision} : fate'[d] = fate[d]
    BY <1>1, <1>2 DEF TypeOK
  <1>6. MissingIsLoud'
    BY <1>5 DEF MissingInv, MissingIsLoud
  <1>7. fate'[decision].warned \/ (stored'[decision] # "none" /\ decision \notin runner'.held)
    <2>1. CASE withheld = {}
      BY <1>5, <2>1
    <2>2. CASE withheld # {}
      <3>1. withheld = {decision} /\ bars # {} /\ Max(bars) = decision
        BY <1>4, <2>2
      <3>2. decision \in bars
        BY <1>3, <3>1, MaxIsGreatest, Constants
      <3>3. stored[decision] # "none"
        BY <1>3, <3>2 DEF HasBars
      <3>4. decision \notin runner'.held
        BY <1>1, <3>1
      <3>5. QED
        BY <3>3, <3>4
    <2>3. QED
      BY <2>1, <2>2
  <1>8. \A h \in runner'.held : h <= runner'.decision
    BY <1>1, <1>3
  <1>9. Settled(runner.decision)' \/ Awaited(runner.decision)'
    <2>1. \/ fate'[runner'.decision].warned
          \/ stored'[runner'.decision] # "none" /\ runner'.decision \notin runner'.held
      BY <1>1, <1>7
    <2>2. QED
      BY <2>1 DEF Settled, Awaited
  <1>10. QED
    BY <1>6, <1>8, <1>9 DEF MissingInv

\* The session that closed last is one of the two newest rows.
LEMMA DecisionIsRead ==
  ASSUME TypeOK, TableInv, runner.decision = PreviousSession(now), stored[runner.decision] # "none"
  PROVE  runner.decision \in Readable(HasBars)
  <1> DEFINE d == runner.decision
             above == {c \in HasBars : c > d}
  <1>1. now \in Int /\ FirstDay * DayLen <= now
    BY DayTypes
  <1>2. d \in Sessions /\ \A c \in Sessions : CloseAt(c) <= now => c <= d
    BY <1>1, PreviousHasClosed
  <1>3. d \in HasBars /\ d \in Nat /\ HasBars \subseteq Days /\ Days \subseteq Nat
        /\ Sessions \subseteq Days
    BY <1>2, DayTypes, Constants DEF HasBars
  <1> HIDE DEF d
  <1>4. ASSUME NEW c \in above PROVE c = Day(now)
    <2>1. c \in Sessions /\ OpenAt(c) <= now /\ c > d
      BY DEF TableInv, TypeOK
    <2>2. c \in Nat
      BY <1>3
    <2>3. OpenAt(c) = c * 9 + 5 /\ CloseAt(c) = c * 9 + 7
      BY <2>2, Clock
    <2>4. ~(CloseAt(c) <= now)
      BY <1>2, <1>3, <2>1, <2>2
    <2>5. c * 9 <= now /\ now < c * 9 + 9
      BY <1>1, <2>1, <2>2, <2>3, <2>4
    <2>6. now \div 9 = c
      BY <1>1, <2>2, <2>5
    <2>7. QED
      BY <2>6 DEF Day, DayLen
  <1>5. above \subseteq {Day(now)}
    BY <1>4
  <1> HIDE DEF above
  <1>6. IsFiniteSet({Day(now)}) /\ Cardinality({Day(now)}) = 1
    BY FS_Singleton
  <1>7. IsFiniteSet(above) /\ Cardinality(above) <= 1
    BY <1>5, <1>6, FS_Subset
  <1>8. Cardinality(above) < 2
    BY <1>7, FS_CardinalityType
  <1>9. QED
    BY <1>3, <1>8 DEF Readable, NewestOf, above, d

\* A pass with the decision of its session takes the bar that was held back.
LEMMA AwaitedIsTaken ==
  ASSUME TypeOK, TableInv, MissingInv, runner.state = "trading",
         runner.decision = PreviousSession(now), Awaited(runner.decision)
  PROVE  runner.decision \in JustClosed
  <1> DEFINE d == runner.decision
             latest == Readable(HasBars)
  <1>1. d \in latest
    BY DecisionIsRead DEF Awaited
  <1>2. latest \in SUBSET Nat /\ \A b \in latest : b <= LastDay /\ b <= d
    BY DayTypes, Constants DEF Readable, NewestOf
  <1>3. \A h \in runner.held : h \in Nat /\ h <= d /\ h # d
    BY Constants DEF MissingInv, Awaited, TypeOK
  <1>4. JustClosed = IF latest = {} \/ \E h \in runner.held : h >= Max(latest)
                     THEN {} ELSE {Max(latest)}
    BY DEF JustClosed
  <1> HIDE DEF d, latest
  <1>5. d \in Nat
    BY <1>1, <1>2
  <1>6. Max(latest) = d
    <2>1. Max(latest) \in latest /\ \A b \in latest : b <= Max(latest)
      BY <1>1, <1>2, MaxIsGreatest, Constants
    <2>2. Max(latest) \in Nat /\ Max(latest) <= d /\ d <= Max(latest)
      BY <1>1, <1>2, <2>1
    <2> DEFINE m == Max(latest)
    <2> HIDE DEF m
    <2>3. m \in Nat /\ m <= d /\ d <= m
      BY <2>2 DEF m
    <2>4. m = d
      BY <1>5, <2>3
    <2>5. QED
      BY <2>4 DEF m
  <1>7. \A h \in runner.held : ~(h >= Max(latest))
    BY <1>3, <1>5, <1>6
  <1>8. JustClosed = {d}
    BY <1>1, <1>4, <1>6, <1>7
  <1>9. QED
    BY <1>8 DEF d
\* The announcement, of one step.
LEMMA MissingStep ==
  TypeOK /\ TableInv /\ MissingInv /\ NotHeldOverNight /\ [Next]_vars => MissingInv'
  <1> SUFFICES ASSUME TypeOK, TableInv, MissingInv, NotHeldOverNight, [Next]_vars
               PROVE  MissingInv'
    OBVIOUS
  <1> USE DEF market, trading
  <1>t. runner.state = "trading" => runner.decision \in Sessions /\ runner.decision \in Days
    BY Constants DEF TypeOK
  <1>1. CASE UNCHANGED <<runner, fate>>
    <2>1. MissingIsLoud' /\ \A d : Settled(d)' = Settled(d)
      BY <1>1 DEF MissingInv, MissingIsLoud, Settled
    <2>2. runner.state = "trading" /\ Awaited(runner.decision) => Awaited(runner.decision)'
      BY <1>1, <1>t, BarsStay DEF Awaited
    <2>3. runner.state = "trading" =>
            Settled(runner.decision)' \/ Awaited(runner.decision)'
      <3>1. Settled(runner.decision) => Settled(runner.decision)'
        BY <1>1 DEF Settled
      <3>2. QED
        BY <2>2, <3>1 DEF MissingInv
    <2>4. runner'.state = "trading" => runner.state = "trading" /\ \A h \in runner'.held : h <= runner'.decision
      BY <1>1 DEF MissingInv
    <2>5. QED
      BY <2>1, <2>3, <2>4 DEF MissingInv
  <1>2. CASE fate' = fate /\ runner'.state # "trading"
    BY <1>2 DEF MissingInv, MissingIsLoud
  <1>3. CASE Boot \/ Wake
    <2>1. stored' = stored /\ (Warmup \/ Quarantine)
      BY <1>3 DEF Boot, Wake
    <2>2. CASE Quarantine
      BY <1>2, <2>2 DEF Quarantine, Stopped
    <2>3. QED
      BY <2>1, <2>2, MissingWarmup
  <1>4. CASE Stop \/ Sleep
    <2>1. fate' = fate /\ (runner' = Stopped("down") \/ runner' = [runner EXCEPT !.state = "asleep", !.wake = NextOpen(now)])
      BY <1>4 DEF Stop, Sleep
    <2>2. runner'.state # "trading"
      <3>1. runner \in [state : {"down", "parked", "trading", "asleep"}, decision : Sessions \cup {None},
                        held : SUBSET Days, wake : Int, ample : BOOLEAN]
        BY DEF TypeOK
      <3>2. CASE runner' = Stopped("down")
        BY <3>2 DEF Stopped
      <3>3. CASE runner' = [runner EXCEPT !.state = "asleep", !.wake = NextOpen(now)]
        BY <3>1, <3>3
      <3>4. QED
        BY <2>1, <3>2, <3>3
    <2>3. QED
      BY <1>2, <2>1, <2>2
  <1>5. CASE Evaluate
    <2> DEFINE d == runner.decision
               x == fate[d].taken \/ d \in JustClosed
    <2>1. /\ runner.state = "trading" /\ IsOpen(now) /\ d \in Sessions
          /\ runner' \in {runner, [runner EXCEPT !.held = runner.held \cup JustClosed]}
          /\ \/ fate' = [fate EXCEPT ![d].passed = TRUE, ![d].taken = x]
             \/ fate' = [fate EXCEPT ![d].failed = TRUE]
      BY <1>5, EvaluateType
    <2>2. x \/ fate[d].warned \/ fate[d].failed
      BY <2>1, AwaitedIsTaken DEF MissingInv, NotHeldOverNight, Settled
    <2>3. runner'.decision = d /\ runner'.held \in {runner.held, runner.held \cup JustClosed}
      BY <2>1 DEF TypeOK
    <2>4. \A h \in runner'.held : h <= d
      <3>1. \A h \in runner.held : h <= d
        BY <2>1 DEF MissingInv
      <3>2. \A h \in JustClosed : h <= d
        BY <2>1, JustClosedType
      <3> HIDE DEF d
      <3>3. QED
        BY <2>3, <3>1, <3>2
    <2> HIDE DEF d, x
    <2>5. /\ fate'[d].taken \/ fate'[d].warned \/ fate'[d].failed
          /\ \A e \in Sessions \ {d} : fate'[e] = fate[e]
      <3>1. CASE fate' = [fate EXCEPT ![d].passed = TRUE, ![d].taken = x]
        <4>1. fate' = [fate EXCEPT ![d] = [fate[d] EXCEPT !.passed = TRUE, !.taken = x]]
          BY <2>1, <3>1 DEF TypeOK
        <4>2. fate'[d] = [fate[d] EXCEPT !.passed = TRUE, !.taken = x]
              /\ \A e \in Sessions \ {d} : fate'[e] = fate[e]
          BY <2>1, <4>1 DEF TypeOK
        <4>3. /\ fate'[d].taken = x /\ fate'[d].warned = fate[d].warned
              /\ fate'[d].failed = fate[d].failed
          BY <2>1, <4>2 DEF TypeOK
        <4>4. QED
          BY <2>2, <4>2, <4>3
      <3>2. CASE fate' = [fate EXCEPT ![d].failed = TRUE]
        BY <2>1, <3>2 DEF TypeOK
      <3>3. QED
        BY <2>1, <3>1, <3>2
    <2>6. MissingIsLoud'
      BY <2>5 DEF MissingInv, MissingIsLoud
    <2>7. Settled(runner.decision)'
      BY <2>3, <2>5 DEF Settled
    <2>8. QED
      BY <2>3, <2>4, <2>6, <2>7 DEF MissingInv
  <1>6. CASE StartJob \/ FinishJob \/ BackfillByHand \/ Tick \/ UNCHANGED vars
    BY <1>1, <1>6 DEF StartJob, FinishJob, BackfillByHand, Tick, vars
  <1>7. QED
    BY <1>3, <1>4, <1>5, <1>6 DEF Next

\* A session in which the strategy is not asked about the last closed session is
\* not a quiet one, unless the loop was held up over a night (warmup,
\* _announce_decision_bar, evaluate).
THEOREM AbsenceIsAnnounced == Spec /\ []NotHeldOverNight => []MissingIsLoud
  <1>1. Init => MissingInv
    BY DEF Init, Stopped, MissingInv, MissingIsLoud
  <1>2. MissingInv => MissingIsLoud
    BY DEF MissingInv
  <1>3. QED
    BY <1>1, <1>2, MissingStep, TableInit, TableStep, TypesHold, PTL DEF Spec

-----------------------------------------------------------------------------
(* The schedule. *)

\* No job is late for an edge, or at work on it, for a whole day: its next edge
\* may come then, and would be skipped when the job is done (next_due).
NotHeldUpForADay == Up => \A j \in EdgeJobs : now < due[j] + DayLen

\* What a job is due at is an edge; it has been started for every edge before
\* that one since the worker came up, and for that one if it runs.
EdgesInv ==
  /\ ~Up => job = NoJob
  /\ Up => \A j \in EdgeJobs :
       /\ due[j] \in EdgesOf(j) \cup {Beyond}
       /\ \A e \in EdgesOf(j) : booted < e /\ e < due[j] => e <= last[j]
       /\ job.name = j => last[j] = due[j]

\* A job that is done is due at its next edge, and none was passed over.
LEMMA EdgesFinish ==
  ASSUME TypeOK, EdgesInv, NotHeldUpForADay, Up, FinishJob, NEW j \in EdgeJobs
  PROVE  /\ due'[j] \in EdgesOf(j) \cup {Beyond}
         /\ \A e \in EdgesOf(j) : booted < e /\ e < due'[j] => e <= last[j]
  <1>1. /\ job # NoJob /\ job.name \in JobNames /\ due' = [due EXCEPT ![job.name] = NextDue(job.name, now)]
        /\ now \in Nat /\ j \in JobNames
    BY DayTypes, Jobs DEF FinishJob
  <1>2. CASE job.name # j
    BY <1>1, <1>2 DEF EdgesInv, TypeOK
  <1>3. CASE job.name = j
    <2>1. due'[j] = NextEdge(j, now)
      BY <1>1, <1>3, NextDueType DEF TypeOK
    <2>2. due[j] \in EdgesOf(j) \cup {Beyond} /\ last[j] = due[j] /\ due[j] \in Nat
          /\ now < due[j] + DayLen
          /\ \A e \in EdgesOf(j) : booted < e /\ e < due[j] => e <= last[j]
      BY <1>1, <1>3 DEF EdgesInv, NotHeldUpForADay, TypeOK
    <2>3. ASSUME NEW e \in EdgesOf(j), booted < e, e < due'[j] PROVE e <= last[j]
      <3>1. e \in Nat /\ e < Beyond /\ NextEdge(j, now) \in Nat
        BY <1>1, EdgesApart, NextEdgeIsNext
      <3>2. e <= now
        BY <1>1, <2>1, <2>3, <3>1, NextEdgeIsNext
      <3>3. CASE due[j] = Beyond
        BY <2>2, <3>1, <3>3
      <3>4. CASE due[j] \in EdgesOf(j)
        <4>1. due[j] < e => due[j] + DayLen <= e
          BY <3>4, EdgesApart
        <4>2. QED
          BY <1>1, <2>2, <3>1, <3>2, <4>1 DEF DayLen
      <3>5. QED
        BY <2>2, <3>3, <3>4
    <2>4. QED
      BY <1>1, <2>1, <2>3, NextEdgeIsNext
  <1>4. QED
    BY <1>2, <1>3
\* The schedule, of one step.
LEMMA EdgesStep == TypeOK /\ EdgesInv /\ NotHeldUpForADay /\ [Next]_vars => EdgesInv'
  <1> SUFFICES ASSUME TypeOK, EdgesInv, NotHeldUpForADay, [Next]_vars PROVE EdgesInv'
    OBVIOUS
  <1> USE DEF market, trading, jobs
  <1>t. now \in Nat /\ EdgeJobs \subseteq JobNames /\ NoJob.name \notin EdgeJobs
        /\ \A j : EdgesOf(j)' = EdgesOf(j)
    BY DayTypes, Jobs DEF EdgesOf
  <1>1. CASE UNCHANGED <<due, job, last, booted>> /\ Up' = Up
    BY <1>t, <1>1 DEF EdgesInv
  <1>2. CASE StartJob
    <2>1. Up /\ Up' /\ job = NoJob /\ UNCHANGED booted
      BY <1>2 DEF StartJob, Up
    <2>2. PICK k \in JobNames :
            IF k = "reconcile" /\ ~IsOpen(now)
            THEN due' = [due EXCEPT ![k] = NextDue(k, now)] /\ UNCHANGED <<job, last>>
            ELSE /\ job' = [name |-> k, at |-> now] /\ UNCHANGED due
                 /\ last' = IF k \in EdgeJobs THEN [last EXCEPT ![k] = due[k]] ELSE last
      BY <1>2 DEF StartJob
    <2>3. ASSUME NEW j \in EdgeJobs
          PROVE  /\ due'[j] = due[j] /\ job'.name = j => last'[j] = due[j]
                 /\ last'[j] \in {last[j], due[j]}
      <3>1. j # "reconcile" /\ j \in JobNames
        BY Jobs
      <3>2. CASE k = "reconcile" /\ ~IsOpen(now)
        BY <1>t, <2>1, <2>2, <3>1, <3>2 DEF TypeOK
      <3>3. CASE ~(k = "reconcile" /\ ~IsOpen(now))
        BY <2>2, <3>3 DEF TypeOK
      <3>4. QED
        BY <3>2, <3>3
    <2>4. ASSUME NEW j \in EdgeJobs
          PROVE  due'[j] = due[j]
      <3>1. j # "reconcile" /\ j \in JobNames
        BY Jobs
      <3>2. QED
        BY <2>2, <3>1 DEF TypeOK
    <2>5. ASSUME NEW j \in EdgeJobs, NEW e \in EdgesOf(j), booted < e, e < due[j]
          PROVE  e <= last'[j]
      <3>1. e <= last[j] /\ e \in Nat /\ due[j] \in Nat
        BY <1>t, <2>1, <2>5, EdgesApart DEF EdgesInv, TypeOK
      <3>2. QED
        BY <2>3, <2>5, <3>1
    <2>6. \A j \in EdgeJobs : due[j] \in EdgesOf(j) \cup {Beyond}
      BY <2>1 DEF EdgesInv
    <2>7. QED
      BY <1>t, <2>1, <2>3, <2>4, <2>5, <2>6 DEF EdgesInv
  <1>3. CASE FinishJob
    <2>1. job' = NoJob /\ UNCHANGED <<last, booted>> /\ Up' = Up
      BY <1>3 DEF FinishJob, Up
    <2>2. QED
      BY <1>t, <1>3, <2>1, EdgesFinish DEF EdgesInv
  <1>4. CASE Boot
    <2>1. /\ job' = NoJob /\ booted' = now /\ due' = [j \in JobNames |-> NextDue(j, now)]
          /\ UNCHANGED last
      BY <1>4 DEF Boot, EdgesInv
    <2>2. Up'
      BY <1>4, WarmupType DEF Boot, Quarantine, Stopped, Up
    <2>3. ASSUME NEW j \in EdgeJobs
          PROVE  /\ due'[j] \in EdgesOf(j) \cup {Beyond}
                 /\ \A e \in EdgesOf(j) : ~(now < e /\ e < due'[j])
      <3>1. due'[j] = NextEdge(j, now)
        BY <1>t, <2>1, NextDueType
      <3>2. \A e \in EdgesOf(j) : now < e => NextEdge(j, now) <= e
        BY <1>t, NextEdgeIsNext
      <3>3. NextEdge(j, now) \in Nat /\ EdgesOf(j) \subseteq Nat
        BY <1>t, NextEdgeIsNext, EdgesApart
      <3>4. \A e \in EdgesOf(j) : ~(now < e /\ e < due'[j])
        BY <3>1, <3>2, <3>3
      <3>5. QED
        BY <1>t, <3>1, <3>4, NextEdgeIsNext
    <2>4. QED
      BY <1>t, <2>1, <2>2, <2>3 DEF EdgesInv
  <1>5. CASE Stop
    BY <1>5 DEF Stop, Stopped, Up, EdgesInv
  <1>6. CASE Sleep
    <2>1. runner' = [runner EXCEPT !.state = "asleep", !.wake = NextOpen(now)] /\ Up
      BY <1>6 DEF Sleep, Up
    <2>2. runner \in [state : {"down", "parked", "trading", "asleep"}, decision : Sessions \cup {None},
                      held : SUBSET Days, wake : Int, ample : BOOLEAN]
      BY DEF TypeOK
    <2>3. Up'
      BY <2>1, <2>2 DEF Up
    <2>4. QED
      BY <1>1, <1>6, <2>1, <2>3 DEF Sleep, Up
  <1>7. CASE Wake
    <2>1. Up /\ UNCHANGED <<due, job, last, booted>> /\ (Warmup \/ Quarantine)
      BY <1>7 DEF Wake, Up
    <2>2. Up'
      BY <2>1, WarmupType DEF Quarantine, Stopped, Up
    <2>3. QED
      BY <2>1, <2>2 DEF EdgesInv
  <1>8. CASE Evaluate
    <2>1. UNCHANGED <<due, job, last, booted>> /\ runner'.state = runner.state
      BY <1>8, EvaluateType DEF TypeOK
    <2>2. QED
      BY <1>1, <2>1 DEF Up
  <1>9. CASE BackfillByHand \/ Tick \/ UNCHANGED vars
    BY <1>1, <1>9 DEF BackfillByHand, Tick, vars, Up
  <1>10. QED
    BY <1>2, <1>3, <1>4, <1>5, <1>6, <1>7, <1>8, <1>9 DEF Next

\* No edge is lost while the worker is up, unless it or a job was held up for a
\* day (run_scheduler, next_due).
THEOREM EveryEdgeIsServed == Spec /\ []NotHeldUpForADay => []NoEdgeMissed
  <1>1. Init => EdgesInv
    BY DEF Init, Stopped, Up, EdgesInv
  <1>2. TypeOK /\ EdgesInv => NoEdgeMissed
    <2> SUFFICES ASSUME TypeOK, EdgesInv, Up, \A j \in JobNames : due[j] > now,
                        NEW j \in EdgeJobs, NEW e \in EdgesOf(j), booted < e, e <= now
                 PROVE  last[j] >= e
      BY DEF NoEdgeMissed
    <2>1. j \in JobNames /\ due[j] \in Nat /\ due[j] > now /\ now \in Nat /\ e \in Nat
          /\ last[j] \in Int
      BY Jobs, DayTypes, EdgesApart DEF TypeOK
    <2>2. e < due[j]
      BY <2>1
    <2>3. e <= last[j]
      BY <2>2 DEF EdgesInv
    <2>4. QED
      BY <2>1, <2>3
  <1>3. QED
    BY <1>1, <1>2, EdgesStep, TypesHold, PTL DEF Spec
=============================================================================
