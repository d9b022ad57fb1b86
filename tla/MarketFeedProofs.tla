-------------------------- MODULE MarketFeedProofs --------------------------
(***************************************************************************)
(* Theorems about MarketFeed.                                              *)
(***************************************************************************)
EXTENDS MarketFeed, FiniteSetTheorems, WellFoundedInduction, TLAPS

-----------------------------------------------------------------------------
(* Numbers, and the grid. *)

\* A set of naturals that is not empty has a least element.
LEMMA LeastNatural ==
  ASSUME NEW S \in SUBSET Nat, S # {}
  PROVE  \E n \in S : \A m \in S : n <= m
  <1> DEFINE less == OpToRel(<, Nat)
  <1>1. IsWellFoundedOn(less, Nat)
    BY NatLessThanWellFounded
  <1>2. \A m, n \in Nat : m < n => <<m, n>> \in less
    BY DEF OpToRel
  <1> HIDE DEF less
  <1>3. PICK n \in S : \A m \in S : ~(<<m, n>> \in less)
    BY <1>1, WFMin
  <1>4. \A m \in S : m \in Nat /\ ~(m < n)
    BY <1>2, <1>3
  <1>5. QED
    BY <1>4

\* The greatest of a bounded set.
LEMMA MaxIsGreatest ==
  ASSUME NEW S \in SUBSET Nat, S # {}, NEW bound \in Nat, \A m \in S : m <= bound
  PROVE  Max(S) \in S /\ \A m \in S : m <= Max(S)
  <1> DEFINE below == {n \in Nat : \E m \in S : n = bound - m}
  <1>1. below \in SUBSET Nat /\ below # {}
    <2>1. PICK m \in S : TRUE
      OBVIOUS
    <2>2. m \in Nat /\ bound - m \in Nat
      BY <2>1
    <2>3. QED
      BY <2>1, <2>2
  <1>2. PICK n \in below : \A k \in below : n <= k
    BY <1>1, LeastNatural
  <1>3. PICK top \in S : n = bound - top
    BY <1>2
  <1>4. ASSUME NEW m \in S PROVE m <= top
    <2>1. m \in Nat /\ top \in Nat /\ m <= bound
      OBVIOUS
    <2>2. bound - m \in below
      BY <2>1
    <2>3. n <= bound - m
      BY <1>2, <2>2
    <2>4. QED
      BY <1>3, <2>1, <2>3
  <1>5. QED
    BY <1>4 DEF Max

\* The constants are numbers, and the schedule is on the grid.
LEMMA Constants ==
  /\ Step \in Nat /\ Step > 0 /\ OpenAt \in Nat /\ CloseAt \in Nat /\ MaxTime \in Nat
  /\ MaxSilence \in Nat /\ Budget \in Nat /\ MinHealthy \in Nat
  BY FeedAssumption

\* The start of the bar an instant falls in.
LEMMA FloorStep ==
  ASSUME NEW t \in Int
  PROVE  /\ FloorToGrid(t) \in Int /\ FloorToGrid(t) <= t /\ t < FloorToGrid(t) + Step
         /\ \E q \in Int : FloorToGrid(t) = q * Step
  <1>1. Step \in Int /\ Step > 0
    BY Constants
  <1> DEFINE q == t \div Step
             r == t % Step
  <1>2. q \in Int /\ r \in Int /\ 0 <= r /\ r < Step /\ t = Step * q + r
    BY <1>1
  <1>3. FloorToGrid(t) = t - r
    BY DEF FloorToGrid
  <1> HIDE DEF q, r
  <1>4. t - r = q * Step
    BY <1>1, <1>2
  <1>5. QED
    BY <1>1, <1>2, <1>3, <1>4

\* Multiples of a bar are ordered as what they are multiples of.
LEMMA GridOrder ==
  ASSUME NEW k \in Int, NEW q \in Int
  PROVE  /\ k * Step \in Int /\ q * Step \in Int /\ (k + 1) * Step = k * Step + Step
         /\ k * Step < (q + 1) * Step <=> k * Step <= q * Step
         /\ k * Step < q * Step => (k + 1) * Step <= q * Step
  <1>1. Step \in Int /\ Step > 0
    BY Constants
  <1>2. k * Step \in Int /\ q * Step \in Int /\ (k + 1) * Step = k * Step + Step
        /\ (q + 1) * Step = q * Step + Step
    BY <1>1
  <1>3. k < q => (k + 1) * Step <= q * Step
    BY <1>1
  <1>4. k >= q => k * Step >= q * Step
    BY <1>1
  <1>5. QED
    BY <1>1, <1>2, <1>3, <1>4

\* What starts a bar and is not after an instant is not after the start of its
\* bar.
LEMMA FloorIsLast ==
  ASSUME NEW t \in Int, NEW k \in Int, k * Step <= t
  PROVE  k * Step <= FloorToGrid(t)
  <1>1. PICK q \in Int : FloorToGrid(t) = q * Step /\ t < q * Step + Step
    BY FloorStep
  <1>2. k * Step < (q + 1) * Step
    BY <1>1, GridOrder, Constants
  <1>3. QED
    BY <1>1, <1>2, GridOrder
\* The bar that ends at an instant on the grid.
LEMMA BarThatEnds ==
  ASSUME NEW t \in Nat, t % Step = 0, OpenAt < t
  PROVE  (t \div Step) - 1 \in Nat /\ EndOf((t \div Step) - 1) = t
  <1>1. Step \in Int /\ Step > 0 /\ OpenAt \in Nat
    BY Constants
  <1> DEFINE q == t \div Step
             r == t % Step
  <1>2. q \in Int /\ t = Step * q + r /\ r = 0
    BY <1>1
  <1> HIDE DEF q, r
  <1>3. t = Step * q /\ t > 0
    BY <1>1, <1>2
  <1>4. q > 0
    BY <1>1, <1>2, <1>3
  <1>5. (q - 1) + 1 = q /\ q * Step = Step * q
    BY <1>1, <1>2
  <1>6. QED
    BY <1>2, <1>3, <1>4, <1>5 DEF EndOf, q

-----------------------------------------------------------------------------
(* Types. *)

\* A process knows when it started and when it last heard anything.  While bars
\* can still arrive, what is in the table is no newer than the last
\* instant data arrived; and while a gap is filled, the process has noted when
\* it reconnected and knows of nothing later.
FeedInv ==
  /\ TypeOK
  /\ phase # "down" => stats.since # None /\ feed.gap # None
  /\ now < CloseAt => \A b \in stored : EndOf(b) <= good
  /\ phase = "backfill" =>
       /\ repair.at \in 0..now /\ repair.to = FloorToGrid(repair.at) /\ stats.since = repair.at
       /\ Most(stats.last, stats.watermark) <= repair.at

\* What the types say of the parts, as numbers.
LEMMA FeedTypes ==
  ASSUME TypeOK
  PROVE  /\ now \in Nat /\ now <= MaxTime
         /\ \A t \in Times : t \in Int /\ -1 <= t /\ t <= now
         /\ feed.gap \in Times /\ feed.first \in Times /\ feed.at \in Times
         /\ feed.reconnecting \in BOOLEAN
         /\ stats.last \in Times /\ stats.watermark \in Times /\ stats.since \in Times
         /\ repair.from \in Int /\ repair.to \in Int /\ repair.at \in Times
         /\ origin \in Times /\ good \in Times /\ trouble \in Times
         /\ None \in Times /\ now \in Times
         /\ \A b \in printed : b \in Nat /\ EndOf(b) \in Int /\ EndOf(b) <= now
  <1>1. now \in Nat /\ now <= MaxTime
    BY Constants DEF TypeOK
  <1>2. \A t \in Times : t \in Int /\ -1 <= t /\ t <= now
    BY <1>1 DEF Times, None
  <1>3. None \in Times /\ now \in Times
    BY <1>1 DEF Times
  <1>4. \A b \in printed : b \in Nat /\ EndOf(b) \in Int /\ EndOf(b) <= now
    <2> SUFFICES ASSUME NEW b \in printed PROVE b \in Nat /\ EndOf(b) \in Int /\ EndOf(b) <= now
      OBVIOUS
    <2>1. b \in Nat /\ EndOf(b) <= now
      BY DEF TypeOK
    <2>2. QED
      BY <2>1, Constants DEF EndOf
  <1>5. QED
    BY <1>1, <1>2, <1>3, <1>4 DEF TypeOK

\* The newest bar of the table is one of it.
LEMMA WatermarkIsStored ==
  ASSUME TypeOK, stored # {}
  PROVE  \E b \in stored : StorageWatermark = EndOf(b)
  <1>1. stored \in SUBSET Nat /\ \A b \in stored : b <= now
    <2> SUFFICES ASSUME NEW b \in stored PROVE b \in Nat /\ b <= now
      OBVIOUS
    <2>1. b \in Nat /\ EndOf(b) <= now /\ now \in Nat
      BY FeedTypes DEF TypeOK
    <2>2. b <= (b + 1) * Step
      <3>1. \A m \in Nat, n \in Nat : n > 0 => m <= (m + 1) * n
        OBVIOUS
      <3>2. QED
        BY <2>1, <3>1, Constants
    <2>3. (b + 1) * Step \in Int
      BY <2>1, Constants
    <2>4. QED
      BY <2>1, <2>2, <2>3 DEF EndOf
  <1>2. Max(stored) \in stored
    BY <1>1, MaxIsGreatest, FeedTypes
  <1>3. QED
    BY <1>2 DEF StorageWatermark

\* The storage watermark is a time data had arrived by.
LEMMA WatermarkType ==
  ASSUME FeedInv, now < CloseAt
  PROVE  StorageWatermark \in Times /\ StorageWatermark <= good
  <1>1. TypeOK /\ good \in Int /\ -1 <= good
    BY FeedTypes DEF FeedInv
  <1>2. CASE stored = {}
    BY <1>1, <1>2 DEF StorageWatermark, Times, None
  <1>3. CASE stored # {}
    <2>1. PICK b \in stored : StorageWatermark = EndOf(b)
      BY <1>1, <1>3, WatermarkIsStored
    <2>2. b \in Nat /\ EndOf(b) \in Int /\ EndOf(b) <= now /\ EndOf(b) <= good /\ now \in Nat
      BY <1>1, FeedTypes DEF FeedInv, TypeOK
    <2>3. EndOf(b) >= 0
      <3>1. \A m \in Nat, n \in Nat : (m + 1) * n >= 0
        OBVIOUS
      <3>2. QED
        BY <2>2, <3>1, Constants DEF EndOf
    <2>4. QED
      BY <2>1, <2>2, <2>3 DEF Times
  <1>4. QED
    BY <1>2, <1>3

\* The bars of a window end in it.
LEMMA WindowEnds ==
  ASSUME NEW from, NEW to, NEW b \in BarsIn(from, to)
  PROVE  EndOf(b) <= to /\ b * Step >= from /\ b \in 0..(MaxTime \div Step)
  BY DEF BarsIn
\* The start of a bar that an instant of the run falls in is one too.
LEMMA FloorType == TypeOK => \A t \in 0..now : FloorToGrid(t) \in 0..t /\ FloorToGrid(t) \in Times
  <1> SUFFICES ASSUME TypeOK, NEW t \in 0..now
               PROVE  FloorToGrid(t) \in 0..t /\ FloorToGrid(t) \in Times
    OBVIOUS
  <1>1. now \in Nat /\ t \in Int /\ 0 <= t /\ t <= now
    BY FeedTypes
  <1>2. FloorToGrid(t) \in Int /\ FloorToGrid(t) <= t
    BY <1>1, FloorStep
  <1>3. 0 * Step = 0
    BY Constants
  <1>4. 0 <= FloorToGrid(t)
    BY <1>1, <1>3, FloorIsLast
  <1>5. QED
    BY <1>1, <1>2, <1>4 DEF Times

\* The end of a process leaves nothing it knew.
LEMMA StopsType ==
  ASSUME Stops, NEW t \in Nat
  PROVE  /\ phase' = "down" /\ alerted' = FALSE /\ origin' = None /\ trouble' = None
         /\ feed' \in [gap : {None} \cup 0..t, reconnecting : BOOLEAN, first : {None} \cup 0..t,
                       at : {None} \cup 0..t]
         /\ stats' \in [last : {None} \cup 0..t, watermark : {None} \cup 0..t, since : {None} \cup 0..t]
         /\ repair' \in [from : Int, to : Int, at : {None} \cup 0..t]
         /\ stats'.last = None /\ stats'.watermark = None /\ feed'.first = None
  BY DEF Stops, NoFeed, NoStats, NoRepair, None

\* A failed attempt ends the process or notes when the failures began.
LEMMA FailedType ==
  ASSUME TypeOK, NEW gap \in Times, Failed(gap)
  PROVE  \/ Stops /\ halted' = TRUE /\ UNCHANGED tried
         \/ /\ phase' = "connecting" /\ tried' = TRUE /\ UNCHANGED <<stats, repair, alerted, halted, origin>>
            /\ feed' \in [gap : Times, reconnecting : BOOLEAN, first : Times, at : Times]
            /\ feed'.gap = gap
            /\ feed'.first = IF feed.first = None THEN now ELSE feed.first
            /\ trouble' = (IF trouble = None THEN now ELSE trouble) /\ trouble' \in Times
            /\ ~BudgetExhausted(feed'.first)
  <1> DEFINE first == IF feed.first = None THEN now ELSE feed.first
             new == [gap |-> gap, reconnecting |-> TRUE, first |-> first, at |-> None]
  <1>1. \/ Stops /\ halted' = TRUE /\ UNCHANGED tried
        \/ /\ ~BudgetExhausted(first) /\ phase' = "connecting" /\ tried' = TRUE
           /\ feed' = new /\ trouble' = IF trouble = None THEN now ELSE trouble
           /\ UNCHANGED <<stats, repair, alerted, halted, origin>>
    BY DEF Failed
  <1>2. first \in Times /\ (IF trouble = None THEN now ELSE trouble) \in Times
    BY FeedTypes
  <1>3. /\ new \in [gap : Times, reconnecting : BOOLEAN, first : Times, at : Times]
        /\ new.gap = gap /\ new.first = first
    BY <1>2, FeedTypes
  <1>4. QED
    BY <1>1, <1>2, <1>3

\* Type correctness, of one step.
LEMMA TypeStep == FeedInv /\ [Next]_vars => TypeOK'
  <1> SUFFICES ASSUME FeedInv, [Next]_vars PROVE TypeOK'
    OBVIOUS
  <1> USE DEF venue, history
  <1>0. TypeOK
    BY DEF FeedInv
  <1>t. /\ now \in Nat /\ Times = {None} \cup 0..now /\ (now' = now => Times' = Times)
        /\ None = -1
    BY <1>0, FeedTypes DEF Times, None
  <1>1. CASE Start
    <2>1. UNCHANGED <<now, halted, stored, sweep, tape, printed, due, known, good>> /\ now < CloseAt
      BY <1>1 DEF Start
    <2>2. /\ stats'.last = None /\ stats'.watermark \in {None, StorageWatermark} /\ stats'.since = now
          /\ stats' = [last |-> None, watermark |-> stats'.watermark, since |-> now]
      BY <1>1 DEF Start
    <2>3. StorageWatermark \in Times /\ StorageWatermark <= good /\ good \in Times
      BY <1>0, <2>1, WatermarkType, FeedTypes
    <2>4. stats' \in [last : Times, watermark : Times, since : Times]
      BY <1>0, <2>2, <2>3, FeedTypes
    <2>5. Most(stats'.last, stats'.watermark) <= good
      BY <1>0, <1>t, <2>2, <2>3, FeedTypes DEF Most
    <2>6. feed' \in [gap : Times, reconnecting : BOOLEAN, first : Times, at : Times]
          /\ repair' \in [from : Int, to : Int, at : Times] /\ origin' = None /\ trouble' = None
      BY <1>0, <1>1, <1>t, FeedTypes DEF Start, NoRepair
    <2>7. {polled', tried', alerted'} = {FALSE} /\ phase' = "connecting"
      BY <1>1 DEF Start
    <2>8. QED
      BY <1>0, <1>t, <2>1, <2>4, <2>5, <2>6, <2>7, FeedTypes DEF TypeOK
  <1>2. ASSUME Stops, UNCHANGED <<now, polled, tried, stored, printed, tape, good>>,
               halted' \in BOOLEAN, due' \in {due, {}}
        PROVE  TypeOK'
    <2>1. /\ phase' = "down" /\ alerted' = FALSE /\ origin' = None /\ trouble' = None
          /\ feed' \in [gap : Times, reconnecting : BOOLEAN, first : Times, at : Times]
          /\ stats' \in [last : Times, watermark : Times, since : Times]
          /\ repair' \in [from : Int, to : Int, at : Times]
          /\ stats'.last = None /\ stats'.watermark = None
      BY <1>2, <1>t, StopsType
    <2>2. Most(None, None) <= good
      BY <1>0, <1>t, FeedTypes DEF Most
    <2>3. QED
      BY <1>0, <1>2, <1>t, <2>1, <2>2 DEF TypeOK
  <1>3. CASE Crash \/ OpenRefused
    BY <1>0, <1>2, <1>3 DEF Crash, OpenRefused, TypeOK
  <1>4. ASSUME NEW gap \in Times, Failed(gap),
               UNCHANGED <<now, polled, stored, printed, tape, good>>, due' \in {due, {}}
        PROVE  TypeOK'
    <2>1. CASE Stops /\ halted' = TRUE /\ UNCHANGED tried
      BY <1>2, <1>4, <2>1
    <2>2. CASE /\ phase' = "connecting" /\ tried' = TRUE
               /\ UNCHANGED <<stats, repair, alerted, halted, origin>>
               /\ feed' \in [gap : Times, reconnecting : BOOLEAN, first : Times, at : Times]
               /\ trouble' \in Times
      BY <1>0, <1>4, <1>t, <2>2 DEF TypeOK
    <2>3. QED
      BY <1>0, <1>4, <2>1, <2>2, FailedType
  <1>5. CASE OpenFails
    BY <1>0, <1>4, <1>5, FeedTypes DEF OpenFails
  <1>6. CASE Drop
    <2>1. /\ UNCHANGED <<now, polled, stored, printed, tape, good>> /\ due' = {}
      BY <1>6 DEF Drop
    <2>2. CASE Failed(feed.gap)
      BY <1>0, <1>4, <2>1, <2>2, FeedTypes
    <2>3. CASE /\ phase' = "connecting" /\ tried' = FALSE
               /\ feed' = [feed EXCEPT !.reconnecting = TRUE, !.first = None, !.at = None]
               /\ trouble' \in {None, now, trouble}
               /\ UNCHANGED <<stats, repair, alerted, halted, origin>>
      <3>1. feed' \in [gap : Times, reconnecting : BOOLEAN, first : Times, at : Times]
        BY <1>0, <2>3, FeedTypes DEF TypeOK
      <3>2. trouble' \in Times
        BY <1>0, <2>3, FeedTypes
      <3>3. QED
        BY <1>0, <1>t, <2>1, <2>3, <3>1, <3>2 DEF TypeOK
    <2>4. QED
      BY <1>6, <2>2, <2>3 DEF Drop
  <1>7. CASE Open
    <2> DEFINE from == GapStart(Most(stats.watermark, stats.last))
               to == FloorToGrid(now)
               start == Most(from, FloorToGrid(to - MaxBackfill))
    <2>1. /\ UNCHANGED <<now, polled, tried, alerted, halted, stored, printed, due, tape, good, trouble>>
          /\ phase' \in {"backfill", "live"}
          /\ stats' \in {stats, [stats EXCEPT !.since = now]}
          /\ feed' \in {[feed EXCEPT !.reconnecting = FALSE], [feed EXCEPT !.at = now]}
          /\ repair' \in {repair, [from |-> start, to |-> to, at |-> now]}
          /\ \/ origin' \in {origin, FloorToGrid(stats.since), FloorToGrid(now)}
             \/ stats.watermark # None /\ origin' = FloorToGrid(stats.watermark)
      BY <1>7 DEF Open
    <2>2. stats.since # None /\ feed.gap # None
      BY <1>7 DEF Open, FeedInv
    <2>3. /\ stats.since \in 0..now /\ now \in 0..now /\ feed.gap \in 0..now
          /\ stats.watermark # None => stats.watermark \in 0..now
          /\ stats.last # None => stats.last \in 0..now
      BY <1>0, <1>t, <2>2, FeedTypes
    <2>4. origin' \in Times
      BY <1>0, <2>1, <2>3, FloorType, FeedTypes
    <2>5. start \in Int /\ to \in Int
      <3>1. to \in Int /\ FloorToGrid(feed.gap) \in Int /\ MaxBackfill \in Int
        BY <1>t, <2>3, FloorStep, FeedAssumption
      <3>2. Most(stats.watermark, stats.last) \in Int
        BY <1>0, FeedTypes DEF Most
      <3>3. from \in Int
        BY <3>1, <3>2, FloorStep DEF GapStart, Least
      <3>4. FloorToGrid(to - MaxBackfill) \in Int
        BY <3>1, FloorStep
      <3>5. QED
        BY <3>1, <3>3, <3>4 DEF Most
    <2> HIDE DEF start, to
    <2>6. /\ stats' \in [last : Times, watermark : Times, since : Times]
          /\ Most(stats'.last, stats'.watermark) <= good
      BY <1>0, <2>1, FeedTypes DEF TypeOK
    <2>7. feed' \in [gap : Times, reconnecting : BOOLEAN, first : Times, at : Times]
      BY <1>0, <2>1, FeedTypes DEF TypeOK
    <2>8. repair' \in [from : Int, to : Int, at : Times]
      BY <1>0, <2>1, <2>5, FeedTypes DEF TypeOK
    <2>9. QED
      BY <1>0, <1>t, <2>1, <2>4, <2>6, <2>7, <2>8 DEF TypeOK
  <1>8. CASE Backfilled
    <2> DEFINE got == Fetch(BarsIn(repair.from, repair.to))
    <2>1. /\ phase = "backfill" /\ phase' = "live" /\ repair' = NoRepair
          /\ feed' = [feed EXCEPT !.at = now]
          /\ UNCHANGED <<now, polled, tried, alerted, tape, printed, due, origin, trouble>>
          /\ \/ /\ stored' = stored \cup got /\ halted' = halted
                /\ stats' = IF got # {} THEN [stats EXCEPT !.watermark = repair.at] ELSE stats
                /\ good' = IF got # {} THEN Most(good, repair.at) ELSE good
             \/ halted' = TRUE /\ UNCHANGED <<stored, stats, good>>
      BY <1>8 DEF Backfilled, UpsertBars, Recovered
    <2>2. repair.at \in 0..now /\ Most(stats.last, stats.watermark) <= repair.at
      BY <2>1 DEF FeedInv
    <2>3. got \subseteq printed
      BY DEF Fetch
    <2> HIDE DEF got
    <2>4. /\ feed' \in [gap : Times, reconnecting : BOOLEAN, first : Times, at : Times]
          /\ repair' \in [from : Int, to : Int, at : Times]
      BY <1>0, <1>t, <2>1, FeedTypes DEF TypeOK, NoRepair
    <2>5. /\ stats' \in [last : Times, watermark : Times, since : Times] /\ good' \in Times
          /\ Most(stats'.last, stats'.watermark) <= good'
      <3>1. CASE UNCHANGED <<stats, good>>
        BY <1>0, <3>1, FeedTypes DEF TypeOK
      <3>2. CASE stats' = [stats EXCEPT !.watermark = repair.at] /\ good' = Most(good, repair.at)
        <4>1. stats' \in [last : Times, watermark : Times, since : Times]
              /\ stats'.last = stats.last /\ stats'.watermark = repair.at
          BY <1>0, <3>2, FeedTypes DEF TypeOK
        <4>2. /\ stats.last \in Int /\ stats.watermark \in Int /\ good \in Times /\ repair.at \in Times
              /\ good \in Int /\ repair.at \in Int
          BY <1>0, FeedTypes
        <4>3. good' \in Times
          BY <3>2, <4>2 DEF Most
        <4>4. Most(stats'.last, stats'.watermark) <= good'
          BY <2>2, <3>2, <4>1, <4>2 DEF Most
        <4>5. QED
          BY <4>1, <4>3, <4>4
      <3>3. QED
        BY <2>1, <3>1, <3>2
    <2>6. stored' \subseteq printed /\ halted' \in BOOLEAN
      BY <1>0, <2>1, <2>3 DEF TypeOK
    <2>7. QED
      BY <1>0, <1>t, <2>1, <2>4, <2>5, <2>6 DEF TypeOK
  <1>9. ASSUME Heard,
               UNCHANGED <<now, polled, tried, phase, repair, alerted, halted, tape, printed,
                           origin, trouble>>,
               stored' \subseteq printed, due' \subseteq printed
        PROVE  TypeOK'
    <2>1. /\ stats' = [stats EXCEPT !.last = now] /\ feed' = [feed EXCEPT !.gap = now] /\ good' = now
      BY <1>9 DEF Heard
    <2>2. /\ feed' \in [gap : Times, reconnecting : BOOLEAN, first : Times, at : Times]
          /\ stats' \in [last : Times, watermark : Times, since : Times] /\ good' \in Times
          /\ stats'.last = now /\ stats'.watermark = stats.watermark
      BY <1>0, <2>1, FeedTypes DEF TypeOK
    <2>3. Most(stats'.last, stats'.watermark) <= good'
      BY <1>0, <2>1, <2>2, FeedTypes DEF Most
    <2>4. QED
      BY <1>0, <1>9, <1>t, <2>2, <2>3 DEF TypeOK
  <1>10. CASE Quote \/ Bar
    BY <1>0, <1>9, <1>10 DEF Quote, Bar, UpsertBars, TypeOK
  <1>11. CASE Poll
    BY <1>0, <1>11, <1>t DEF Poll, TypeOK
  <1>12. CASE Sweep
    <2>1. /\ stored \subseteq stored' /\ stored' \subseteq stored \cup printed
          /\ UNCHANGED <<now, polled, tried, phase, feed, stats, repair, alerted, halted, tape, printed,
                         due, origin, good, trouble>>
      BY <1>12 DEF Sweep, UpsertBars, Fetch
    <2>2. QED
      BY <1>0, <1>t, <2>1 DEF TypeOK
  <1>13. CASE TapeStops \/ TapeResumes
    BY <1>0, <1>13, <1>t DEF TapeStops, TapeResumes, TypeOK
  <1>14. CASE Tick
    <2> DEFINE b == (now' \div Step) - 1
    <2>1. /\ now < MaxTime /\ now' = now + 1 /\ polled' = FALSE /\ tried' = FALSE
          /\ UNCHANGED <<phase, feed, stats, repair, alerted, halted, stored, tape, origin, good, trouble>>
      BY <1>14 DEF Tick
    <2>2. \/ printed' = printed /\ due' = due
          \/ /\ now' % Step = 0 /\ OpenAt < now' /\ printed' = printed \cup {b}
             /\ due' \in {due, due \cup {b}}
      BY <1>14 DEF Tick
    <2>3. now' % Step = 0 /\ OpenAt < now' => b \in Nat /\ EndOf(b) = now'
      BY <1>t, <2>1, BarThatEnds
    <2>4. now' \in 0..MaxTime /\ Times \subseteq Times' /\ now' \in Nat /\ now <= now'
      BY <1>t, <2>1, Constants DEF Times
    <2>5. \A c \in printed' : c \in Nat /\ EndOf(c) <= now'
      <3>1. \A c \in printed : c \in Nat /\ EndOf(c) \in Int /\ EndOf(c) <= now
        BY <1>0, FeedTypes
      <3>2. \A c \in printed : c \in Nat /\ EndOf(c) <= now'
        BY <1>t, <2>4, <3>1
      <3>3. now' <= now'
        BY <2>4
      <3> HIDE DEF b
      <3>4. QED
        BY <2>2, <2>3, <3>2, <3>3
    <2>6. stored' \subseteq printed' /\ due' \subseteq printed'
      BY <1>0, <2>1, <2>2 DEF TypeOK
    <2> HIDE DEF b
    <2>7. /\ feed' \in [gap : Times', reconnecting : BOOLEAN, first : Times', at : Times']
          /\ stats' \in [last : Times', watermark : Times', since : Times']
          /\ repair' \in [from : Int, to : Int, at : Times']
          /\ {origin', good', trouble'} \subseteq Times'
          /\ Most(stats'.last, stats'.watermark) <= good'
      BY <1>0, <2>1, <2>4 DEF TypeOK
    <2>8. {polled', tried', alerted', halted', tape'} \subseteq BOOLEAN
          /\ phase' \in {"down", "connecting", "backfill", "live"}
      BY <1>0, <2>1 DEF TypeOK
    <2>9. QED
      BY <2>4, <2>5, <2>6, <2>7, <2>8 DEF TypeOK
  <1>15. CASE UNCHANGED vars
    BY <1>0, <1>15, <1>t DEF vars, TypeOK
  <1>16. QED
    BY <1>1, <1>3, <1>5, <1>6, <1>7, <1>8, <1>10, <1>11, <1>12, <1>13, <1>14, <1>15 DEF Next
\* What a process notes about its connection and its data, of one step.
LEMMA FeedStep == FeedInv /\ [Next]_vars => FeedInv'
  <1> SUFFICES ASSUME FeedInv, [Next]_vars PROVE FeedInv'
    OBVIOUS
  <1> USE DEF venue, history
  <1>0. TypeOK /\ TypeOK'
    BY TypeStep DEF FeedInv
  <1>1. now \in Nat /\ now' \in Nat /\ now <= now' /\ good \in Int
    <2>1. now \in Nat /\ good \in Int
      BY <1>0, FeedTypes
    <2>2. now' \in {now, now + 1}
      BY DEF Next, Start, Crash, OpenFails, OpenRefused, Open, Backfilled, Quote, Bar, Drop, Poll,
         Sweep, TapeStops, TapeResumes, Tick, vars
    <2>3. QED
      BY <2>1, <2>2
  <1>2. phase' # "down" => stats'.since # None /\ feed'.gap # None
    <2>1. ASSUME phase # "down", stats'.since \in {stats.since, now}, feed'.gap \in {feed.gap, now}
          PROVE  stats'.since # None /\ feed'.gap # None
      BY <1>1, <2>1 DEF FeedInv, None
    <2>2. CASE Start
      BY <1>1, <2>2 DEF Start, None
    <2>3. CASE Stops
      BY <2>3, StopsType, <1>1
    <2>4. ASSUME NEW gap \in Times, Failed(gap), gap = feed.gap, phase # "down"
          PROVE  phase' # "down" => stats'.since # None /\ feed'.gap # None
      BY <1>0, <2>1, <2>3, <2>4, FailedType
    <2>5. CASE Crash \/ OpenRefused
      BY <2>3, <2>5 DEF Crash, OpenRefused
    <2>6. CASE OpenFails
      BY <1>0, <2>4, <2>6, FeedTypes DEF OpenFails
    <2>7. CASE Drop
      <3>1. CASE Failed(feed.gap)
        BY <1>0, <2>4, <2>7, <3>1, FeedTypes DEF Drop
      <3>2. CASE stats' = stats /\ feed' = [feed EXCEPT !.reconnecting = TRUE, !.first = None, !.at = None]
        <4>1. feed'.gap = feed.gap
          BY <1>0, <3>2 DEF TypeOK
        <4>2. QED
          BY <2>1, <2>7, <3>2, <4>1 DEF Drop
      <3>3. QED
        BY <2>7, <3>1, <3>2 DEF Drop
    <2>8. CASE Open
      <3>1. /\ stats' \in {stats, [stats EXCEPT !.since = now]} /\ phase = "connecting"
            /\ feed' \in {[feed EXCEPT !.reconnecting = FALSE], [feed EXCEPT !.at = now]}
        BY <2>8 DEF Open
      <3>2. feed'.gap = feed.gap /\ stats'.since \in {stats.since, now}
        BY <1>0, <3>1 DEF TypeOK
      <3>3. QED
        BY <2>1, <3>1, <3>2
    <2>9. CASE Backfilled
      <3>1. /\ stats' \in {stats, [stats EXCEPT !.watermark = repair.at]} /\ phase = "backfill"
            /\ feed' = [feed EXCEPT !.at = now]
        BY <2>9 DEF Backfilled
      <3>2. feed'.gap = feed.gap /\ stats'.since = stats.since
        BY <1>0, <3>1 DEF TypeOK
      <3>3. QED
        BY <2>1, <3>1, <3>2
    <2>10. CASE Quote \/ Bar
      <3>1. /\ stats' = [stats EXCEPT !.last = now] /\ feed' = [feed EXCEPT !.gap = now]
            /\ phase = "live"
        BY <2>10 DEF Quote, Bar, Heard
      <3>2. feed'.gap = now /\ stats'.since = stats.since
        BY <1>0, <3>1 DEF TypeOK
      <3>3. QED
        BY <2>1, <3>1, <3>2
    <2>11. CASE Poll \/ Sweep \/ TapeStops \/ TapeResumes \/ Tick \/ UNCHANGED vars
      <3>1. UNCHANGED <<phase, stats, feed>>
        BY <2>11 DEF Poll, Sweep, TapeStops, TapeResumes, Tick, vars
      <3>2. QED
        BY <2>1, <3>1
    <2>12. QED
      BY <2>2, <2>5, <2>6, <2>7, <2>8, <2>9, <2>10, <2>11 DEF Next
  <1>3. now' < CloseAt => \A b \in stored' : EndOf(b) <= good'
    <2>1. ASSUME stored' = stored, good' = good
          PROVE  now' < CloseAt => \A b \in stored' : EndOf(b) <= good'
      BY <1>1, <2>1, Constants DEF FeedInv
    <2>2. CASE Quote \/ Bar
      <3>1. good' = now /\ stored' \subseteq printed
        BY <1>0, <2>2 DEF Quote, Bar, Heard, UpsertBars, TypeOK
      <3>2. QED
        BY <1>0, <3>1, FeedTypes
    <2>3. CASE Backfilled
      <3> DEFINE got == Fetch(BarsIn(repair.from, repair.to))
      <3>1. \/ UNCHANGED <<stored, good>>
            \/ /\ stored' = stored \cup got
               /\ good' = IF got # {} THEN Most(good, repair.at) ELSE good
        BY <2>3 DEF Backfilled, UpsertBars
      <3>2. repair.at \in 0..now /\ repair.to = FloorToGrid(repair.at) /\ FloorToGrid(repair.at) <= repair.at
            /\ FloorToGrid(repair.at) \in Int
        BY <1>1, <2>3, FloorStep DEF FeedInv, Backfilled
      <3>3. \A b \in got : b \in printed /\ EndOf(b) <= repair.to
        BY WindowEnds DEF Fetch
      <3> HIDE DEF got
      <3>4. CASE got # {} /\ stored' = stored \cup got /\ good' = Most(good, repair.at)
        <4>1. good <= good' /\ repair.at <= good' /\ good' \in Int
          BY <1>1, <3>2, <3>4 DEF Most
        <4>2. \A b \in stored \cup got : EndOf(b) \in Int
          BY <1>0, <3>3, FeedTypes DEF TypeOK
        <4>3. \A b \in got : EndOf(b) <= good'
          BY <1>1, <3>2, <3>3, <4>1, <4>2
        <4>4. now' < CloseAt => \A b \in stored : EndOf(b) <= good'
          <5>1. now' < CloseAt => \A b \in stored : EndOf(b) <= good
            BY <1>1, Constants DEF FeedInv
          <5>2. QED
            BY <1>1, <4>1, <4>2, <5>1
        <4>5. QED
          BY <3>4, <4>3, <4>4
      <3>5. QED
        BY <2>1, <3>1, <3>4
    <2>4. CASE Sweep
      BY <1>1, <2>4, Constants DEF Sweep
    <2>5. CASE ~(Quote \/ Bar \/ Backfilled \/ Sweep)
      <3>1. UNCHANGED <<stored, good>>
        BY <2>5 DEF Next, Start, Crash, OpenFails, OpenRefused, Open, Drop, Poll, TapeStops,
           TapeResumes, Tick, vars
      <3>2. QED
        BY <2>1, <3>1
    <2>6. QED
      BY <2>2, <2>3, <2>4, <2>5
  <1>4. phase' = "backfill" =>
          /\ repair'.at \in 0..now' /\ repair'.to = FloorToGrid(repair'.at) /\ stats'.since = repair'.at
          /\ Most(stats'.last, stats'.watermark) <= repair'.at
    <2>1. CASE Open
      <3>1. SUFFICES ASSUME phase' = "backfill"
                     PROVE  /\ repair'.at \in 0..now' /\ repair'.to = FloorToGrid(repair'.at)
                            /\ stats'.since = repair'.at
                            /\ Most(stats'.last, stats'.watermark) <= repair'.at
        OBVIOUS
      <3>2. /\ now' = now /\ repair'.at = now /\ repair'.to = FloorToGrid(now)
            /\ stats' = [stats EXCEPT !.since = now]
        BY <2>1, <3>1 DEF Open
      <3>3. stats'.since = now /\ stats'.last = stats.last /\ stats'.watermark = stats.watermark
        BY <1>0, <3>2 DEF TypeOK
      <3>4. Most(stats.last, stats.watermark) <= now
        BY <1>0, FeedTypes DEF Most
      <3>5. QED
        BY <1>1, <3>2, <3>3, <3>4
    <2>2. CASE ~Open
      <3>1. phase' = "backfill" => phase = "backfill" /\ UNCHANGED <<repair, stats>>
        BY <1>0, <2>2, StopsType, FailedType, FeedTypes
           DEF Next, Start, Crash, OpenFails, OpenRefused, Backfilled, Quote, Bar, Drop, Poll,
               Sweep, TapeStops, TapeResumes, Tick, vars
      <3>2. QED
        BY <1>1, <3>1 DEF FeedInv
    <2>3. QED
      BY <2>1, <2>2
  <1>5. QED
    BY <1>0, <1>2, <1>3, <1>4 DEF FeedInv

\* Before anything has happened.
LEMMA FeedInit == Init => FeedInv
  <1> SUFFICES ASSUME Init PROVE FeedInv
    OBVIOUS
  <1>1. now = 0 /\ 0 \in 0..MaxTime /\ Times = {None, 0}
    BY Constants DEF Init, Times
  <1>2. /\ feed \in [gap : Times, reconnecting : BOOLEAN, first : Times, at : Times]
        /\ stats \in [last : Times, watermark : Times, since : Times]
        /\ repair \in [from : Int, to : Int, at : Times]
        /\ Most(stats.last, stats.watermark) <= good
    BY <1>1 DEF Init, NoFeed, NoStats, NoRepair, None, Most
  <1>3. TypeOK
    BY <1>1, <1>2 DEF Init, TypeOK
  <1>4. QED
    BY <1>3 DEF Init, FeedInv

\* Type correctness.
THEOREM TypesHold == Spec => []TypeOK
  <1>1. FeedInv => TypeOK
    BY DEF FeedInv
  <1>2. QED
    BY <1>1, FeedInit, FeedStep, PTL DEF Spec
-----------------------------------------------------------------------------
(* Giving up. *)

\* What the feed counts its budget from is since when no connection has held.
TroubleInv == trouble = feed.first /\ OutageIsBounded

\* A failed attempt that goes on is inside the budget.
LEMMA TroubleFailed ==
  ASSUME TypeOK, TroubleInv, NEW gap \in Times, Failed(gap), now' = now
  PROVE  TroubleInv'
  <1>1. CASE Stops
    BY <1>1, FeedTypes, StopsType DEF TroubleInv, OutageIsBounded
  <1>2. CASE /\ feed'.first = IF feed.first = None THEN now ELSE feed.first
             /\ trouble' = (IF trouble = None THEN now ELSE trouble) /\ trouble' \in Times
             /\ ~BudgetExhausted(feed'.first)
    <2>1. trouble' = feed'.first /\ trouble' \in Int /\ now \in Int /\ Budget \in Int
      BY <1>2, FeedTypes, Constants DEF TroubleInv
    <2>2. now - trouble' < Budget
      BY <1>2, <2>1 DEF BudgetExhausted
    <2>3. QED
      BY <2>1, <2>2 DEF TroubleInv, OutageIsBounded
  <1>3. QED
    BY <1>1, <1>2, FailedType

\* The budget, of one step.
LEMMA TroubleStep == TypeOK /\ TroubleInv /\ [Next]_vars => TroubleInv'
  <1> SUFFICES ASSUME TypeOK, TroubleInv, [Next]_vars PROVE TroubleInv'
    OBVIOUS
  <1> USE DEF venue, history
  <1>1. ASSUME trouble' = trouble, feed'.first = feed.first,
               phase' # "connecting" \/ tried' = FALSE \/ UNCHANGED <<phase, tried, now>>
        PROVE  TroubleInv'
    BY <1>1 DEF TroubleInv, OutageIsBounded
  <1>2. CASE Start
    BY <1>2 DEF Start, TroubleInv, OutageIsBounded
  <1>3. CASE Crash \/ OpenRefused
    BY <1>3, FeedTypes, StopsType DEF Crash, OpenRefused, TroubleInv, OutageIsBounded
  <1>4. CASE OpenFails
    BY <1>4, FeedTypes, TroubleFailed DEF OpenFails
  <1>5. CASE Drop
    <2>1. CASE Failed(feed.gap)
      BY <1>5, <2>1, FeedTypes, TroubleFailed DEF Drop
    <2>2. CASE /\ ~IsFlap(feed.at) /\ tried' = FALSE
               /\ feed' = [feed EXCEPT !.reconnecting = TRUE, !.first = None, !.at = None]
               /\ trouble' = IF now - feed.at >= MinHealthy THEN None
                             ELSE IF trouble = None THEN now ELSE trouble
      <3>1. now - feed.at >= MinHealthy
        BY <2>2, FeedTypes, Constants DEF IsFlap
      <3>2. feed'.first = None
        BY <2>2 DEF TypeOK
      <3>3. QED
        BY <2>2, <3>1, <3>2 DEF TroubleInv, OutageIsBounded
    <2>3. QED
      BY <1>5, <2>1, <2>2 DEF Drop
  <1>6. CASE Open
    <2>1. /\ feed' \in {[feed EXCEPT !.reconnecting = FALSE], [feed EXCEPT !.at = now]}
          /\ phase' # "connecting" /\ trouble' = trouble
      BY <1>6 DEF Open
    <2>2. feed'.first = feed.first
      BY <2>1 DEF TypeOK
    <2>3. QED
      BY <1>1, <2>1, <2>2
  <1>7. CASE Backfilled \/ Quote \/ Bar
    <2>1. /\ feed' \in {[feed EXCEPT !.at = now], [feed EXCEPT !.gap = now]}
          /\ phase' # "connecting" /\ trouble' = trouble
      BY <1>7 DEF Backfilled, Quote, Bar, Heard
    <2>2. feed'.first = feed.first
      BY <2>1 DEF TypeOK
    <2>3. QED
      BY <1>1, <2>1, <2>2
  <1>8. CASE Poll \/ Sweep \/ TapeStops \/ TapeResumes \/ Tick \/ UNCHANGED vars
    <2>1. /\ UNCHANGED <<feed, trouble>>
          /\ tried' = FALSE \/ UNCHANGED <<phase, tried, now>>
      BY <1>8 DEF Poll, Sweep, TapeStops, TapeResumes, Tick, vars
    <2>2. QED
      BY <1>1, <2>1
  <1>9. QED
    BY <1>2, <1>3, <1>4, <1>5, <1>6, <1>7, <1>8 DEF Next

\* A feed that never holds is given up on within its budget (budget_exhausted,
\* is_flap).
THEOREM OutageEnds == Spec => []OutageIsBounded
  <1>1. Init => TroubleInv
    BY DEF Init, NoFeed, TroubleInv, OutageIsBounded
  <1>2. TroubleInv => OutageIsBounded
    BY DEF TroubleInv
  <1>3. QED
    BY <1>1, <1>2, TroubleStep, TypesHold, PTL DEF Spec

-----------------------------------------------------------------------------
(* Silence. *)

\* An alert halts, and once the monitor has looked at a silence it has alerted.
SilenceInv ==
  /\ alerted => halted
  /\ polled /\ phase # "down" /\ Stale => alerted

\* The baseline is an instant.
LEMMA BaselineType == TypeOK => Baseline \in Int
  <1> SUFFICES ASSUME TypeOK PROVE Baseline \in Int
    OBVIOUS
  <1>1. stats.last \in Int /\ stats.watermark \in Int /\ stats.since \in Int /\ OpenAt \in Int
    BY FeedTypes, Constants
  <1>2. QED
    BY <1>1 DEF Baseline, Most

\* A step of a running process that moves the baseline only forward makes no
\* silence that was not there.
LEMMA SilenceKept ==
  ASSUME TypeOK, TypeOK', SilenceInv, UNCHANGED <<now, polled, alerted>>, halted \in {halted', FALSE},
         phase # "down", Baseline <= Baseline'
  PROVE  SilenceInv'
  <1>1. Baseline \in Int /\ now \in Int /\ MaxSilence \in Int
    BY BaselineType, FeedTypes, Constants
  <1>2. Baseline' \in Int
    <2>1. /\ stats' \in [last : Times', watermark : Times', since : Times'] /\ now' \in Nat
      BY Constants DEF TypeOK
    <2>2. stats'.last \in Int /\ stats'.watermark \in Int /\ stats'.since \in Int /\ OpenAt \in Int
      BY <2>1, Constants DEF Times, None
    <2>3. QED
      BY <2>2 DEF Baseline, Most
  <1>3. Stale' => Stale
    <2>1. \A a, b, c, m \in Int : a <= b /\ c - b > m => c - a > m
      OBVIOUS
    <2>2. Baseline <= Baseline' /\ now - Baseline' > MaxSilence => now - Baseline > MaxSilence
      BY <1>1, <1>2, <2>1, Zenon
    <2>3. now' = now /\ MarketOpen' = MarketOpen
      BY DEF MarketOpen
    <2>4. (now - Baseline' > MaxSilence) = (now' - Baseline' > MaxSilence)
      BY <2>3
    <2>5. QED
      BY <2>2, <2>3, <2>4, Zenon DEF Stale
  <1>4. alerted' => halted'
    BY DEF SilenceInv, TypeOK
  <1>5. QED
    BY <1>3, <1>4 DEF SilenceInv

\* The monitor's promise, of one step.
LEMMA SilenceStep == FeedInv /\ SilenceInv /\ [Next]_vars => SilenceInv'
  <1> SUFFICES ASSUME FeedInv, SilenceInv, [Next]_vars PROVE SilenceInv'
    OBVIOUS
  <1> USE DEF venue, history
  <1>0. TypeOK /\ TypeOK'
    BY TypeStep DEF FeedInv
  <1>t. /\ stats.last \in Int /\ stats.watermark \in Int /\ stats.since \in Int /\ OpenAt \in Int
        /\ now \in Int /\ MaxSilence \in Nat
    BY <1>0, FeedTypes, Constants
  <1>1. CASE Start
    BY <1>1 DEF Start, SilenceInv
  <1>2. CASE Stops
    BY <1>2 DEF Stops, SilenceInv
  <1>3. ASSUME UNCHANGED <<now, polled, alerted, halted, stats>>, phase # "down" PROVE SilenceInv'
    <2>1. Baseline' = Baseline /\ Stale' = Stale
      BY <1>3 DEF Baseline, Stale, MarketOpen
    <2>2. QED
      BY <1>3, <2>1 DEF SilenceInv
  <1>4. ASSUME NEW gap \in Times, Failed(gap), UNCHANGED <<now, polled>>, phase # "down"
        PROVE  SilenceInv'
    BY <1>0, <1>2, <1>3, <1>4, FailedType
  <1>5. CASE Crash \/ OpenRefused
    BY <1>2, <1>5 DEF Crash, OpenRefused
  <1>6. CASE OpenFails
    BY <1>0, <1>4, <1>6, FeedTypes DEF OpenFails
  <1>7. CASE Drop
    <2>1. CASE Failed(feed.gap)
      BY <1>0, <1>4, <1>7, <2>1, FeedTypes DEF Drop
    <2>2. CASE UNCHANGED <<stats, alerted, halted>>
      BY <1>3, <1>7, <2>2 DEF Drop
    <2>3. QED
      BY <1>7, <2>1, <2>2 DEF Drop
  <1>8. CASE Open
    <2>1. /\ UNCHANGED <<now, polled, alerted, halted>> /\ phase # "down"
          /\ stats' \in {stats, [stats EXCEPT !.since = now]}
      BY <1>8 DEF Open
    <2>2. stats.since <= now
      BY <1>0, FeedTypes
    <2>3. /\ stats'.last = stats.last /\ stats'.watermark = stats.watermark
          /\ stats'.since \in {stats.since, now}
      BY <1>0, <2>1 DEF TypeOK
    <2>4. Baseline <= Baseline'
      BY <1>t, <2>2, <2>3 DEF Baseline, Most
    <2>5. QED
      BY <1>0, <2>1, <2>4, SilenceKept
  <1>9. CASE Backfilled
    <2>1. /\ UNCHANGED <<now, polled, alerted>> /\ phase = "backfill" /\ halted' \in {halted, TRUE}
          /\ stats' \in {stats, [stats EXCEPT !.watermark = repair.at]}
      BY <1>9 DEF Backfilled
    <2>2. /\ repair.at \in Nat /\ stats.since = repair.at
          /\ Most(stats.last, stats.watermark) <= repair.at
      BY <1>t, <2>1 DEF FeedInv
    <2>3. /\ stats'.last = stats.last /\ stats'.since = stats.since
          /\ stats'.watermark \in {stats.watermark, repair.at}
      BY <1>0, <2>1 DEF TypeOK
    <2>4. Baseline <= Baseline'
      <3>1. CASE stats'.watermark = stats.watermark
        BY <1>t, <2>3, <3>1 DEF Baseline, Most
      <3>2. CASE stats'.watermark = repair.at
        BY <1>t, <2>2, <2>3, <3>2 DEF Baseline, Most, None
      <3>3. QED
        BY <2>3, <3>1, <3>2
    <2>5. halted \in BOOLEAN
      BY <1>0 DEF TypeOK
    <2>6. QED
      BY <1>0, <2>1, <2>4, <2>5, SilenceKept
  <1>10. CASE Quote \/ Bar
    <2>1. /\ UNCHANGED <<now, polled, alerted, halted>> /\ stats' = [stats EXCEPT !.last = now]
      BY <1>10 DEF Quote, Bar, Heard
    <2>2. stats'.last = now /\ stats'.watermark = stats.watermark /\ now # None
      BY <1>0, <2>1, FeedTypes DEF TypeOK, None
    <2>3. Baseline' >= now /\ Baseline' \in Int
      BY <1>t, <2>2 DEF Baseline, Most
    <2>4. ~Stale'
      BY <1>t, <2>1, <2>3 DEF Stale
    <2>5. QED
      BY <2>1, <2>4 DEF SilenceInv
  <1>11. CASE Poll
    <2>1. /\ UNCHANGED <<now, stats, phase>>
          /\ \/ Stale /\ alerted' = TRUE /\ halted' = (halted \/ ~alerted)
             \/ ~Stale /\ alerted' = FALSE /\ UNCHANGED halted
             \/ ~Stale /\ UNCHANGED <<alerted, halted>>
      BY <1>11 DEF Poll
    <2>2. Stale' = Stale
      BY <2>1 DEF Baseline, Stale, MarketOpen
    <2>3. CASE Stale /\ alerted' = TRUE /\ halted' = (halted \/ ~alerted)
      BY <2>3, Zenon DEF SilenceInv
    <2>4. CASE ~Stale /\ alerted' = FALSE
      BY <2>2, <2>4, Zenon DEF SilenceInv
    <2>5. CASE ~Stale /\ UNCHANGED <<alerted, halted>>
      <3>1. alerted \in BOOLEAN /\ halted \in BOOLEAN /\ ~Stale'
        BY <1>0, <2>2, <2>5 DEF TypeOK
      <3>2. alerted' => halted'
        BY <2>5, <3>1 DEF SilenceInv
      <3>3. QED
        BY <3>1, <3>2 DEF SilenceInv
    <2>6. QED
      BY <2>1, <2>3, <2>4, <2>5
  <1>12. CASE Tick
    BY <1>12 DEF Tick, SilenceInv
  <1>13. CASE Sweep \/ TapeStops \/ TapeResumes \/ UNCHANGED vars
    <2>1. UNCHANGED <<now, polled, alerted, halted, stats, phase>>
      BY <1>13 DEF Sweep, TapeStops, TapeResumes, vars
    <2>2. Stale' = Stale
      BY <2>1 DEF Baseline, Stale, MarketOpen
    <2>3. QED
      BY <2>1, <2>2 DEF SilenceInv
  <1>14. QED
    BY <1>1, <1>5, <1>6, <1>7, <1>8, <1>9, <1>10, <1>11, <1>12, <1>13 DEF Next

\* Silence stops trading however often the worker is restarted in it (evaluate,
\* watch).
THEOREM SilenceIsNoticed == Spec => []SilenceHalts
  <1>1. Init => SilenceInv
    BY DEF Init, SilenceInv
  <1>2. TypeOK /\ SilenceInv => SilenceHalts
    <2> SUFFICES ASSUME TypeOK, SilenceInv, polled, phase # "down", MarketOpen,
                        stats.last # None \/ stats.watermark # None,
                        now - Most(OpenAt, good) > MaxSilence
                 PROVE  alerted /\ halted
      BY DEF SilenceHalts
    <2>1. /\ stats.last \in Int /\ stats.watermark \in Int /\ good \in Int /\ OpenAt \in Int
          /\ now \in Int /\ MaxSilence \in Nat
      BY FeedTypes, Constants
    <2>2. Most(stats.last, stats.watermark) <= good
      BY DEF TypeOK
    <2>3. Baseline \in Int /\ Baseline <= Most(OpenAt, good)
      BY <2>1, <2>2 DEF Baseline, Most
    <2>4. Most(OpenAt, good) \in Int
      BY <2>1 DEF Most
    <2>5. Stale
      BY <2>1, <2>3, <2>4 DEF Stale
    <2>6. QED
      BY <2>5 DEF SilenceInv
  <1>3. FeedInv => TypeOK
    BY DEF FeedInv
  <1>4. QED
    BY <1>1, <1>2, <1>3, FeedInit, FeedStep, SilenceStep, PTL DEF Spec
-----------------------------------------------------------------------------
(* Holes. *)

\* The bars this process answers for that are nowhere and that nobody was told
\* of.
Lost == {b \in printed \ (stored \cup due \cup known) : b * Step >= origin}

\* A connected process has lost nothing; what one that fills a gap has lost is
\* in the window it asked for; and what one that is connecting has lost, the
\* next window will reach back to.
HoleInv ==
  /\ phase \in {"live", "backfill"} => origin # None
  /\ phase = "live" => Lost = {}
  /\ phase = "backfill" => Lost \subseteq BarsIn(repair.from, repair.to)
  /\ phase = "connecting" =>
       IF origin # None THEN \A b \in Lost : b * Step >= FloorToGrid(feed.gap)
       ELSE stats.last = None /\ feed.gap = stats.since

\* What is accounted for stays accounted for.
LEMMA LostKept ==
  ASSUME printed' = printed, origin' = origin,
         stored \cup due \cup known \subseteq stored' \cup due' \cup known'
  PROVE  Lost' \subseteq Lost
  BY DEF Lost

\* A step that loses no bar and leaves alone what the next window is computed
\* from keeps the promise.
LEMMA HolesKept ==
  ASSUME HoleInv, Lost' \subseteq Lost, UNCHANGED <<phase, feed, stats, repair, origin>>
  PROVE  HoleInv'
  BY DEF HoleInv, BarsIn, FloorToGrid

\* Nor does a failed attempt lose one.
LEMMA HolesFailed ==
  ASSUME TypeOK, HoleInv, phase = "connecting" \/ phase = "live", Lost' \subseteq Lost,
         Failed(feed.gap)
  PROVE  HoleInv'
  <1>1. CASE phase' = "down"
    BY <1>1 DEF HoleInv
  <1>2. CASE phase' = "connecting" /\ UNCHANGED <<stats, origin>> /\ feed'.gap = feed.gap
    <2>1. FloorToGrid(feed'.gap) = FloorToGrid(feed.gap)
      BY <1>2
    <2>2. CASE origin # None
      <3>1. \A b \in Lost : b * Step >= FloorToGrid(feed.gap)
        BY <2>2 DEF HoleInv
      <3>2. QED
        BY <1>2, <2>1, <2>2, <3>1 DEF HoleInv
    <2>3. CASE origin = None
      BY <1>2, <2>3 DEF HoleInv
    <2>4. QED
      BY <2>2, <2>3
  <1>3. QED
    BY <1>1, <1>2, FailedType, FeedTypes DEF Stops

\* A bar that was printed is one of a run that is bounded, and it ended by the
\* start of the bar that is forming.
LEMMA PrintedBar ==
  ASSUME TypeOK, NEW b \in printed
  PROVE  b \in 0..(MaxTime \div Step) /\ EndOf(b) \in Int /\ EndOf(b) <= FloorToGrid(now)
         /\ b * Step \in Int /\ b * Step < EndOf(b) /\ EndOf(b) = b * Step + Step
  <1>1. b \in Nat /\ EndOf(b) \in Int /\ EndOf(b) <= now /\ now <= MaxTime /\ now \in Int
    BY FeedTypes
  <1>2. EndOf(b) <= FloorToGrid(now)
    BY <1>1, FloorIsLast DEF EndOf
  <1>3. EndOf(b) = b * Step + Step /\ b * Step \in Int /\ b * Step < EndOf(b)
    BY <1>1, GridOrder, Constants DEF EndOf
  <1>4. b <= MaxTime \div Step
    <2> DEFINE q == MaxTime \div Step
               r == MaxTime % Step
    <2>1. q \in Int /\ MaxTime = Step * q + r /\ r < Step /\ r \in Int
      BY Constants
    <2> HIDE DEF q, r
    <2>2. b * Step <= Step * q + r
      BY <1>1, <1>3, <2>1, Constants
    <2>3. \A m, n, s, t \in Int : m * s <= s * n + t /\ t < s /\ s > 0 => m <= n
      <3> SUFFICES ASSUME NEW m \in Int, NEW n \in Int, NEW s \in Int, NEW t \in Int,
                          m * s <= s * n + t, t < s, s > 0, m >= n + 1
                   PROVE  FALSE
        OBVIOUS
      <3>1. m * s >= (n + 1) * s /\ (n + 1) * s = s * n + s
        OBVIOUS
      <3>2. QED
        BY <3>1
    <2>4. b <= q
      BY <1>1, <2>1, <2>2, <2>3, Constants
    <2>5. QED
      BY <2>4 DEF q
  <1>5. QED
    BY <1>1, <1>2, <1>3, <1>4
\* A connection: the window of a reconnect reaches back to all that was lost,
\* and what is before it is given up on; the first connection of a process
\* answers for nothing older than itself.
LEMMA HolesOpen ==
  ASSUME FeedInv, HoleInv, Open
  PROVE  HoleInv'
  <1> DEFINE from == GapStart(Most(stats.watermark, stats.last))
             to == FloorToGrid(now)
             start == Most(from, FloorToGrid(to - MaxBackfill))
  <1>1. TypeOK /\ now \in Int /\ now \in 0..now /\ UNCHANGED <<printed, stored, due, now>>
    <2>1. TypeOK /\ UNCHANGED <<printed, stored, due, now>>
      BY DEF FeedInv, Open, venue
    <2>2. QED
      BY <2>1, FeedTypes
  <1>2. CASE feed.reconnecting
    <2>1. /\ phase = "connecting" /\ phase' = "backfill"
          /\ repair'.from = start /\ repair'.to = to
          /\ known' = known \cup BarsIn(from, start)
          /\ origin' = IF origin # None THEN origin
                       ELSE IF stats.watermark # None THEN FloorToGrid(stats.watermark)
                       ELSE FloorToGrid(stats.since)
      BY <1>2 DEF Open
    <2>2. /\ feed.gap \in 0..now /\ stats.since \in 0..now /\ stats.last \in Int
          /\ stats.watermark \in Int /\ (stats.watermark # None => stats.watermark \in 0..now)
          /\ (stats.watermark >= -1)
      BY <1>1, <2>1, FeedTypes DEF FeedInv, Times, None
    <2>3. /\ FloorToGrid(feed.gap) \in Nat /\ FloorToGrid(stats.since) \in Nat
          /\ (stats.watermark # None => FloorToGrid(stats.watermark) \in Nat)
          /\ to \in Nat
      BY <1>1, <2>2, FloorType
    <2>4. origin' # None
      BY <2>1, <2>3 DEF None
    <2>5. Most(stats.watermark, stats.last) \in Int
      BY <2>2 DEF Most
    <2>6. /\ from \in Int /\ start \in Int /\ from <= FloorToGrid(feed.gap) /\ from <= start
          /\ start \in {from, FloorToGrid(to - MaxBackfill)}
          /\ from \in {FloorToGrid(feed.gap), FloorToGrid(Most(stats.watermark, stats.last))}
      <3>1. FloorToGrid(Most(stats.watermark, stats.last)) \in Int
            /\ FloorToGrid(to - MaxBackfill) \in Int
        BY <2>3, <2>5, FloorStep, FeedAssumption
      <3>2. from \in Int /\ from <= FloorToGrid(feed.gap)
            /\ from \in {FloorToGrid(feed.gap), FloorToGrid(Most(stats.watermark, stats.last))}
        BY <2>3, <3>1 DEF GapStart, Least
      <3> HIDE DEF from
      <3>3. QED
        BY <3>1, <3>2 DEF Most
    <2>7. \E q \in Int : start = q * Step
      <3> HIDE DEF from, start
      <3>1. \A t \in Int : \E q \in Int : FloorToGrid(t) = q * Step
        BY FloorStep
      <3>2. feed.gap \in Int /\ to - MaxBackfill \in Int
        BY <2>2, <2>3, FeedAssumption
      <3>3. QED
        BY <2>5, <2>6, <3>1, <3>2
    <2>8. origin = None => from <= origin'
      <3> SUFFICES ASSUME origin = None PROVE from <= origin'
        OBVIOUS
      <3>1. stats.last = None /\ feed.gap = stats.since
        BY <2>1 DEF HoleInv
      <3>2. CASE stats.watermark = None
        <4>1. from = FloorToGrid(feed.gap) /\ origin' = FloorToGrid(stats.since)
          BY <2>1, <3>1, <3>2 DEF GapStart, Most, None
        <4>2. QED
          BY <2>3, <3>1, <4>1
      <3>3. CASE stats.watermark # None
        <4>1. Most(stats.watermark, stats.last) = stats.watermark
          BY <2>2, <3>1, <3>3 DEF Most, None
        <4>2. from = Least(FloorToGrid(feed.gap), FloorToGrid(stats.watermark))
              /\ origin' = FloorToGrid(stats.watermark)
          BY <2>1, <3>3, <4>1 DEF GapStart
        <4>3. QED
          BY <2>3, <3>3, <4>2 DEF Least
      <3>4. QED
        BY <3>2, <3>3
    <2> HIDE DEF from, to, start
    <2>9. ASSUME NEW b \in Lost' PROVE b \in BarsIn(start, to)
      <3>1. b \in printed /\ b \notin stored \cup due \cup known /\ b \notin BarsIn(from, start)
            /\ b * Step >= origin'
        BY <1>1, <2>1, <2>9 DEF Lost
      <3>2. /\ b \in 0..(MaxTime \div Step) /\ EndOf(b) \in Int /\ EndOf(b) <= to
            /\ b * Step \in Int
        BY <1>1, <3>1, PrintedBar DEF to
      <3>3. b * Step >= from
        <4>1. CASE origin = None
          BY <1>1, <2>1, <2>3, <2>6, <2>8, <3>1, <3>2, <4>1
        <4>2. CASE origin # None
          <5>1. b \in Lost
            BY <2>1, <3>1, <4>2 DEF Lost
          <5>2. b * Step >= FloorToGrid(feed.gap)
            BY <2>1, <4>2, <5>1 DEF HoleInv
          <5>3. QED
            BY <2>3, <2>6, <3>2, <5>2
        <4>3. QED
          BY <4>1, <4>2
      <3>4. CASE b * Step >= start
        BY <3>2, <3>4 DEF BarsIn
      <3>5. CASE b * Step < start
        <4>1. PICK q \in Int : start = q * Step
          BY <2>7
        <4>2. EndOf(b) <= start
          BY <3>2, <3>5, <4>1, GridOrder DEF EndOf
        <4>3. QED
          BY <3>1, <3>2, <3>3, <4>2 DEF BarsIn
      <3>6. QED
        BY <2>6, <3>2, <3>4, <3>5
    <2>10. QED
      <3>1. Lost' \subseteq BarsIn(repair'.from, repair'.to)
        BY <2>1, <2>9
      <3>2. BarsIn(repair'.from, repair'.to) = BarsIn(repair.from, repair.to)'
        BY DEF BarsIn, EndOf
      <3>3. QED
        BY <2>1, <2>4, <3>1, <3>2 DEF HoleInv
  <1>3. CASE ~feed.reconnecting
    <2>1. phase' = "live" /\ origin' = FloorToGrid(now)
      BY <1>3 DEF Open
    <2>2. FloorToGrid(now) \in Nat
      BY <1>1, FloorType
    <2>3. ASSUME NEW b \in Lost' PROVE FALSE
      <3>1. b \in printed /\ b * Step >= FloorToGrid(now)
        BY <1>1, <2>1, <2>3 DEF Lost
      <3>2. QED
        BY <1>1, <2>2, <3>1, PrintedBar
    <2>4. QED
      BY <2>1, <2>2, <2>3 DEF HoleInv, None
  <1>4. QED
    BY <1>2, <1>3

\* The answer to a reconnect: every bar of the window that was printed is in the
\* table, or the window is given up on.
LEMMA HolesBackfilled ==
  ASSUME HoleInv, Backfilled
  PROVE  HoleInv'
  <1> DEFINE window == BarsIn(repair.from, repair.to)
  <1>1. /\ phase = "backfill" /\ phase' = "live" /\ origin # None
        /\ UNCHANGED <<printed, due, origin>>
    BY DEF HoleInv, Backfilled, venue
  <1>2. \/ stored' = stored \cup (window \cap printed) /\ known' = known
        \/ stored' = stored /\ known' = known \cup window
    BY DEF Backfilled, UpsertBars, Fetch
  <1>3. Lost \subseteq window
    BY <1>1 DEF HoleInv
  <1> HIDE DEF window
  <1>4. Lost' = {}
    BY <1>1, <1>2, <1>3 DEF Lost
  <1>5. QED
    BY <1>1, <1>4 DEF HoleInv

\* A tick: a bar that ends is sent over a connection, and is newer than anything
\* a process without one has heard.
LEMMA HolesTick ==
  ASSUME FeedInv, HoleInv, Tick
  PROVE  HoleInv'
  <1> DEFINE ends == now' % Step = 0 /\ tape /\ OpenAt < now' /\ now' <= CloseAt
             bar == (now' \div Step) - 1
  <1>1. /\ TypeOK /\ now \in Nat /\ now' = now + 1
        /\ UNCHANGED <<phase, feed, stats, repair, stored, known, origin>>
    BY FeedTypes DEF FeedInv, Tick, history
  <1>2. /\ printed' = IF ends THEN printed \cup {bar} ELSE printed
        /\ due' = IF ends /\ phase \in {"backfill", "live"} THEN due \cup {bar} ELSE due
    BY DEF Tick
  <1>3. ends => bar \in Nat /\ EndOf(bar) = now'
    BY <1>1, BarThatEnds
  <1> HIDE DEF ends, bar
  <1>4. CASE phase \in {"backfill", "live"}
    <2>1. Lost' \subseteq Lost
      BY <1>1, <1>2, <1>4 DEF Lost
    <2>2. QED
      BY <1>1, <2>1, HolesKept
  <1>5. CASE phase = "connecting"
    <2>1. CASE origin = None
      BY <1>1, <1>5, <2>1 DEF HoleInv
    <2>2. CASE origin # None
      <3>1. ASSUME NEW b \in Lost' PROVE b * Step >= FloorToGrid(feed.gap)
        <4>1. CASE b \in Lost
          BY <1>5, <2>2, <4>1 DEF HoleInv
        <4>2. CASE b \notin Lost
          <5>1. ends /\ b = bar
            BY <1>1, <1>2, <3>1, <4>2 DEF Lost
          <5>2. feed.gap \in Int /\ feed.gap <= now
            BY <1>1, FeedTypes
          <5>3. PICK q \in Int : FloorToGrid(feed.gap) = q * Step
                                 /\ FloorToGrid(feed.gap) <= feed.gap
            BY <5>2, FloorStep
          <5>4. b \in Int /\ (b + 1) * Step = now + 1
            BY <1>1, <1>3, <5>1 DEF EndOf
          <5>5. q * Step \in Int /\ q * Step < (b + 1) * Step
            <6>1. q * Step \in Int /\ q * Step <= feed.gap
              BY <5>3, GridOrder
            <6> DEFINE floor == q * Step
                       next == (b + 1) * Step
            <6>2. floor \in Int /\ floor <= feed.gap /\ next = now + 1
              BY <5>4, <6>1
            <6> HIDE DEF floor, next
            <6>3. floor < next
              BY <1>1, <5>2, <6>2
            <6>4. QED
              BY <6>1, <6>3 DEF floor, next
          <5>6. QED
            BY <5>3, <5>4, <5>5, GridOrder
        <4>3. QED
          BY <4>1, <4>2
      <3>2. FloorToGrid(feed'.gap) = FloorToGrid(feed.gap)
        BY <1>1
      <3>3. QED
        BY <1>1, <1>5, <2>2, <3>1, <3>2 DEF HoleInv
    <2>3. QED
      BY <2>1, <2>2
  <1>6. CASE phase = "down"
    BY <1>1, <1>6 DEF HoleInv
  <1>7. QED
    BY <1>1, <1>4, <1>5, <1>6 DEF TypeOK

\* The promise about holes, of one step.
LEMMA HolesStep == FeedInv /\ HoleInv /\ [Next]_vars => HoleInv'
  <1> SUFFICES ASSUME FeedInv, HoleInv, [Next]_vars PROVE HoleInv'
    OBVIOUS
  <1> USE DEF venue, history
  <1>0. TypeOK
    BY DEF FeedInv
  <1>1. CASE Start
    BY <1>1 DEF Start, HoleInv
  <1>2. CASE Crash \/ OpenRefused
    BY <1>2 DEF Crash, OpenRefused, Stops, HoleInv
  <1>3. CASE OpenFails
    <2>1. Failed(feed.gap) /\ phase = "connecting" /\ UNCHANGED <<printed, stored, due, known>>
      BY <1>3 DEF OpenFails
    <2>2. CASE phase' = "down"
      BY <2>2 DEF HoleInv
    <2>3. CASE origin' = origin
      BY <1>0, <2>1, <2>3, LostKept, HolesFailed
    <2>4. QED
      BY <1>0, <2>1, <2>2, <2>3, FailedType, FeedTypes DEF Stops
  <1>4. CASE Open
    BY <1>4, HolesOpen
  <1>5. CASE Backfilled
    BY <1>5, HolesBackfilled
  <1>6. CASE Quote \/ Bar
    <2>1. /\ phase = "live" /\ phase' = "live" /\ UNCHANGED <<printed, origin, known>>
          /\ stored \cup due = stored' \cup due'
      BY <1>6 DEF Quote, Bar, UpsertBars
    <2>2. Lost' = {} /\ origin' # None
      BY <2>1 DEF Lost, HoleInv
    <2>3. QED
      BY <2>1, <2>2 DEF HoleInv
  <1>7. CASE Drop
    <2>1. /\ phase = "live" /\ UNCHANGED <<printed, stored>>
          /\ known' = known \cup due /\ due' = {}
      BY <1>7 DEF Drop
    <2>2. CASE phase' = "down"
      BY <2>2 DEF HoleInv
    <2>3. CASE phase' = "connecting" /\ origin' = origin
      <3>1. Lost = {} /\ origin # None
        BY <2>1 DEF HoleInv
      <3>2. Lost' = {}
        BY <2>1, <2>3, <3>1 DEF Lost
      <3>3. QED
        BY <2>3, <3>1, <3>2 DEF HoleInv
    <2>4. QED
      BY <1>0, <1>7, <2>2, <2>3, FailedType, FeedTypes DEF Drop, Stops
  <1>8. CASE Poll \/ Sweep \/ TapeStops \/ TapeResumes \/ UNCHANGED vars
    <2>1. /\ UNCHANGED <<phase, feed, stats, repair, origin, printed, due, known>>
          /\ stored \subseteq stored'
      BY <1>8 DEF Poll, Sweep, UpsertBars, TapeStops, TapeResumes, vars
    <2>2. QED
      BY <2>1, LostKept, HolesKept
  <1>9. CASE Tick
    BY <1>9, HolesTick
  <1>10. QED
    BY <1>1, <1>2, <1>3, <1>4, <1>5, <1>6, <1>7, <1>8, <1>9 DEF Next

\* A hole in the history is not silent (_stream, _on_reconnect, _backfill_gap).
THEOREM NoSilentHole == Spec => []HolesAreKnown
  <1>1. Init => HoleInv
    BY DEF Init, HoleInv
  <1>2. HoleInv => HolesAreKnown
    BY DEF HoleInv, HolesAreKnown, Lost
  <1>3. QED
    BY <1>1, <1>2, FeedInit, FeedStep, HolesStep, PTL DEF Spec
=============================================================================
