------------------------- MODULE OperationsProofs ---------------------------
(***************************************************************************)
(* Proofs about the parts around the trading loop, each for every value of *)
(* its constants: the dashboard's view of the book (LiveView), the         *)
(* operators' configuration, halts and flattening (ControlPlane), the      *)
(* venue's fees (FeeSettlement) and the halts in Redis (KillSwitch).  The  *)
(* parts have no variable in common, and no theorem is about two of them.  *)
(***************************************************************************)
EXTENDS KillSwitch, ControlPlane, FeeSettlement, LiveView, TLAPS

-----------------------------------------------------------------------------
(* LiveView: a book is stored before it is shown. *)

\* What the worker holds, has stored and has published, in that order.
StoredFirst ==
  /\ book \in Nat /\ db \in Nat /\ snap \in Nat /\ screen.book \in Nat
  /\ snap <= db /\ db <= book /\ screen.book <= db
  /\ pass = "saved" => db = book

\* Nothing is held, stored, published or shown at first.
LEMMA StoredFirstInit == ViewInit => StoredFirst
  BY DEF ViewInit, StoredFirst

\* Every step keeps the order: one case per action of the worker, one for the
\* bridge and the API, one for the browser.
LEMMA StoredFirstStep ==
  ASSUME StoredFirst, [ViewNext]_viewVars
  PROVE  StoredFirst'
  <1> USE DEF StoredFirst, switch, workerVars, api, link, page, Fault
  <1>1. CASE Halt \/ Announce
    BY <1>1 DEF Halt, Announce, Publish
  <1>2. CASE Fill
    BY <1>2 DEF Fill
  <1>3. CASE Checkpoint
    BY <1>3 DEF Checkpoint
  <1>4. CASE SaveBook
    BY <1>4 DEF SaveBook
  <1>5. CASE PublishSnapshot
    BY <1>5 DEF PublishSnapshot, MayPublish
  <1>6. CASE WorkerRestarts
    BY <1>6 DEF WorkerRestarts
  <1>7. CASE ReadBook
    BY <1>7 DEF ReadBook
  <1>8. CASE SignOut
    BY <1>8 DEF SignOut
  <1>9. CASE \/ Subscribe \/ BridgeFails \/ BridgeNotices \/ SendFails
             \/ Handshake \/ HandleSubscribe \/ ApiRestarts
             \/ \E m \in Messages : Broadcast(m)
    BY <1>9 DEF Subscribe, BridgeFails, BridgeNotices, SendFails, Handshake,
                HandleSubscribe, ApiRestarts, Broadcast
  <1>10. CASE \/ OnOpen \/ OnClose \/ Reconnect \/ ReadHalts \/ ReadFails
              \/ Focus \/ SignIn \/ SessionExpires
              \/ \E m \in Messages : OnMessage(m)
    BY <1>10 DEF OnOpen, OnClose, Reconnect, ReadHalts, ReadFails, Focus,
                 SignIn, SessionExpires, OnMessage, Invalidate
  <1>11. CASE UNCHANGED viewVars
    BY <1>11 DEF viewVars
  <1>12. QED
    BY <1>1, <1>2, <1>3, <1>4, <1>5, <1>6, <1>7, <1>8, <1>9, <1>10, <1>11 DEF ViewNext

\* ShownIsStored, for any bounds on halts, fills and faults: _persist stores the
\* book before _publish_snapshot hands it to the dashboard, so no lost message,
\* restart or late read puts a book on the screen that a restart would lose.
THEOREM ScreenIsStored == ViewSpec => []ShownIsStored
  <1>1. ViewInit => StoredFirst
    BY StoredFirstInit
  <1>2. StoredFirst /\ [ViewNext]_viewVars => StoredFirst'
    BY StoredFirstStep
  <1>3. StoredFirst => ShownIsStored
    BY DEF StoredFirst, ShownIsStored
  <1>4. QED
    BY <1>1, <1>2, <1>3, PTL DEF ViewSpec

-----------------------------------------------------------------------------
(* ControlPlane, death and flatten: two invariants about halts and orders alone. *)

\* The halt of a death is not the one the rollover releases.
DeathIsLatched == died => haltedFor \notin {"none", "daily"}

\* Under the halt of a flattened book nothing of the worker's works and nothing
\* is on its way.  Once that book is flat, no order closes it again: an operator's
\* and the worker's need a book that shows a position, and a halt that does not
\* name the symbol.
FlattenedIsQuiet == flattened => haltedFor # "none" /\ sending = {} /\ working = {}
FlatIsKnown ==
  flat => /\ haltedFor # "none" /\ sending = {} /\ working = {}
          /\ pos = 0 /\ closing = 0
          /\ unproven \/ (ownPos = 0 /\ storedPos = 0)
FlatIsQuiet == FlattenedIsQuiet /\ FlatIsKnown

\* DeathHalts, for any operators and configurations: no step of an operator, the
\* worker, the rollover or the venue leaves a death without its halt but Clear.
THEOREM DeathLeavesAHalt == PlaneSpec => []DeathHalts
<1>1. PlaneInit => DeathIsLatched
  BY DEF PlaneInit, DeathIsLatched
<1>2. DeathIsLatched /\ [PlaneNext]_planeVars => DeathIsLatched'
  <2> SUFFICES ASSUME DeathIsLatched, [PlaneNext]_planeVars PROVE DeathIsLatched'
    OBVIOUS
  <2> USE DEF DeathIsLatched, trading
  <2>1. ASSUME NEW o \in Operators,
               Login(o) \/ Expires(o) \/ Logout(o) \/ PrepareSave(o) \/ Save(o)
        PROVE  DeathIsLatched'
    BY <2>1 DEF Login, Expires, Logout, PrepareSave, Save
  <2>2. ASSUME NEW o \in Operators,
               CancelOrder(o) \/ CancelAllOrders(o) \/ ClosePosition(o) \/ FlattenAll(o)
        PROVE  DeathIsLatched'
    BY <2>2 DEF CancelOrder, CancelAllOrders, ClosePosition, FlattenAll
  <2>3. CASE HaltByHand
    BY <2>3 DEF HaltByHand, Engaged
  <2>4. CASE Clear
    BY <2>4 DEF Clear
  <2>5. CASE Start \/ PublishStatus \/ StatusExpires \/ ResponsibilityEnds \/ Stop \/ AdoptBrokerState
    BY <2>5 DEF Start, PublishStatus, StatusExpires, ResponsibilityEnds, Stop, AdoptBrokerState
  <2>6. CASE Exit
    BY <2>6 DEF Exit, HaltsAfter, Engaged
  <2>7. CASE PassRisk \/ PassExit \/ Send \/ Store \/ FillEntry \/ FillReduction \/ FillClose
    BY <2>7 DEF PassRisk, PassExit, Send, Store, FillEntry, FillReduction, FillClose
  <2>8. CASE LoseTooMuch \/ Warmup \/ Reconcile
    BY <2>8 DEF LoseTooMuch, Warmup, Reconcile, Impugn, Engaged
  <2>9. CASE Rollover
    BY <2>9 DEF Rollover
  <2>10. CASE UNCHANGED planeVars
    BY <2>10 DEF planeVars
  <2>11. QED
    BY <2>1, <2>2, <2>3, <2>4, <2>5, <2>6, <2>7, <2>8, <2>9, <2>10
       DEF PlaneNext, HaltFromDashboard, ResumeFromDashboard, ClearByHand
<1>3. DeathIsLatched => DeathHalts
  BY DEF DeathIsLatched, DeathHalts
<1>4. QED
  BY <1>1, <1>2, <1>3, PTL DEF PlaneSpec

\* What closes a flattened book finds nothing to close once it is flat.
LEMMA FlatIsNotSold ==
  ASSUME FlatIsKnown, flat
  PROVE  /\ ~FillClose /\ ~PassExit
         /\ \A o \in Operators : ~ClosePosition(o)
<1>1. ~FillClose
  BY DEF FlatIsKnown, FillClose
<1>2. ~PassExit
  <2> SUFFICES ASSUME ~unproven PROVE Reduces = {}
    BY DEF PassExit
  <2>1. ownPos = 0
    BY DEF FlatIsKnown
  <2>2. QED
    BY <2>1 DEF Reduces
<1>3. ASSUME NEW o \in Operators PROVE ~ClosePosition(o)
  BY DEF FlatIsKnown, ClosePosition, MarkedBook
<1>4. QED
  BY <1>1, <1>2, <1>3

\* FlattenSticks, for any operators and configurations: a flattened book's halt
\* stops the worker's orders, none is left to fill, and what could still sell
\* from an older book is refused by the halt that names the symbol.
THEOREM FlatStaysFlat == PlaneSpec => []FlattenSticks
<1>1. PlaneInit => FlatIsQuiet
  BY DEF PlaneInit, FlatIsQuiet, FlattenedIsQuiet, FlatIsKnown
<1>2. FlatIsQuiet /\ [PlaneNext]_planeVars => FlatIsQuiet'
  <2> SUFFICES ASSUME FlatIsQuiet, [PlaneNext]_planeVars PROVE FlatIsQuiet'
    OBVIOUS
  <2> USE DEF FlatIsQuiet, FlattenedIsQuiet, FlatIsKnown, trading, venue, books
  <2>1. ASSUME NEW o \in Operators,
               Login(o) \/ Expires(o) \/ Logout(o) \/ PrepareSave(o) \/ Save(o)
        PROVE  FlatIsQuiet'
    BY <2>1 DEF Login, Expires, Logout, PrepareSave, Save
  <2>2. ASSUME NEW o \in Operators, CancelOrder(o) \/ CancelAllOrders(o)
        PROVE  FlatIsQuiet'
    BY <2>2 DEF CancelOrder, CancelAllOrders, CancelAll
  <2>3. ASSUME NEW o \in Operators, ClosePosition(o) PROVE FlatIsQuiet'
    <3>1. ~flat
      BY <2>3, FlatIsNotSold
    <3>2. QED
      BY <2>3, <3>1 DEF ClosePosition
  <2>4. ASSUME NEW o \in Operators, FlattenAll(o) PROVE FlatIsQuiet'
    <3>1. /\ working' = {} /\ UNCHANGED <<haltedFor, unproven, sending, pos, ownPos, storedPos>>
          /\ closing' = pos \/ closing' = 0
      BY <2>4 DEF FlattenAll, LeftWorking
    <3>2. flattened' => haltedFor # "none" /\ sending = {}
      BY <2>4, Zenon DEF FlattenAll
    <3>3. flat' => \/ flat
                   \/ flattened' /\ pos' = 0 /\ closing' = 0
                      /\ (unproven' \/ (ownPos' = 0 /\ storedPos' = 0))
      BY <2>4, Zenon DEF FlattenAll, Settles
    <3>4. QED
      BY <3>1, <3>2, <3>3
  <2>5. CASE HaltByHand
    BY <2>5 DEF HaltByHand, Engaged
  <2>6. CASE Clear
    BY <2>6 DEF Clear
  <2>7. CASE AdoptBrokerState
    BY <2>7 DEF AdoptBrokerState
  <2>8. CASE Start \/ PublishStatus \/ StatusExpires
    BY <2>8 DEF Start, PublishStatus, StatusExpires
  <2>9. CASE ResponsibilityEnds \/ Stop
    BY <2>9 DEF ResponsibilityEnds, Stop, Cut
  <2>10. CASE Exit
    BY <2>10 DEF Exit, HaltsAfter, Engaged
  <2>11. CASE Warmup
    <3>1. flat' => \/ flat
                   \/ flattened' /\ pos' = 0 /\ closing' = 0
                      /\ (unproven' \/ (ownPos' = 0 /\ storedPos' = 0))
      BY <2>11, Zenon DEF Warmup, Settles
    <3>2. CASE Diverges
      <4>1. UNCHANGED <<sending, flattened, venue, books>> /\ haltedFor' # "none"
        BY <2>11, <3>2 DEF Warmup, Impugn, Engaged
      <4>2. unproven => unproven'
        BY <2>11, <3>2, Zenon DEF Warmup, Impugn
      <4>3. QED
        BY <3>1, <4>1, <4>2
    <3>3. CASE ~Diverges
      <4>1. UNCHANGED <<haltedFor, unproven, venue, books>> /\ ownPos = pos
        BY <2>11, <3>3 DEF Warmup, Diverges
      <4>2. flattened' => flattened /\ sending' = {}
        BY <2>11, <3>3, Zenon DEF Warmup
      <4>3. sending' = sending \/ ownPos > 0
        BY <2>11, <3>3 DEF Warmup
      <4>4. QED
        BY <3>1, <4>1, <4>2, <4>3
    <3>4. QED
      BY <3>2, <3>3
  <2>12. CASE Reconcile
    BY <2>12 DEF Reconcile, Settles, Impugn, Engaged
  <2>13. CASE PassRisk \/ Send \/ Store
    BY <2>13 DEF PassRisk, Send, Store
  <2>14. CASE PassExit
    <3>1. ~flat
      BY <2>14, FlatIsNotSold
    <3>2. QED
      BY <2>14, <3>1 DEF PassExit
  <2>15. CASE LoseTooMuch \/ Rollover
    BY <2>15 DEF LoseTooMuch, Rollover, Engaged
  <2>16. CASE FillEntry \/ FillReduction
    BY <2>16 DEF FillEntry, FillReduction
  <2>17. CASE FillClose
    BY <2>17 DEF FillClose, Settles
  <2>18. CASE UNCHANGED planeVars
    BY <2>18 DEF planeVars
  <2>19. QED
    BY <2>1, <2>2, <2>3, <2>4, <2>5, <2>6, <2>7, <2>8, <2>9, <2>10, <2>11, <2>12, <2>13,
       <2>14, <2>15, <2>16, <2>17, <2>18
       DEF PlaneNext, HaltFromDashboard, ResumeFromDashboard, ClearByHand
<1>3. FlatIsQuiet => FlattenSticks
  BY DEF FlatIsQuiet, FlatIsKnown, FlattenSticks
<1>4. QED
  BY <1>1, <1>2, <1>3, PTL DEF PlaneSpec

-----------------------------------------------------------------------------
(* ControlPlane, the configuration: who has read which revision of the row. *)

Stored == [rev : Nat, config : WorkerConfig]

ConfigTypes ==
  /\ row \in Stored
  /\ request \in [Operators -> [on : BOOLEAN, before : Stored, new : WorkerConfig]]
  /\ worker \in [phase : {"down", "starting", "running", "raised", "returned"},
                 rev : Nat \cup {None}, config : WorkerConfig]
  /\ status \in Nat \cup {None}

\* A revision names one row: whoever read it read what it still says.
SavesRead ==
  \A o \in Operators : request[o].on =>
    /\ request[o].before.rev <= row.rev
    /\ request[o].before.rev = row.rev => request[o].before.config = row.config

\* The status never names a later revision than the worker that is up has read.
WorkerRead ==
  /\ status <= row.rev
  /\ worker.phase # "down" =>
       /\ status <= worker.rev /\ worker.rev <= row.rev
       /\ worker.rev = row.rev => worker.config = row.config

ConfigInv == ConfigTypes /\ SavesRead /\ WorkerRead

LEMMA DefaultIsConfig == DefaultConfig \in WorkerConfig
BY DEF DefaultConfig, WorkerConfig

LEMMA ConfigInit == PlaneInit => ConfigInv
<1> SUFFICES ASSUME PlaneInit PROVE ConfigInv
  OBVIOUS
<1>1. ConfigTypes
  BY DefaultIsConfig DEF PlaneInit, ConfigTypes, Stored, Idle, Down, None
<1>2. SavesRead
  BY DEF PlaneInit, SavesRead, Idle
<1>3. WorkerRead
  BY DEF PlaneInit, WorkerRead, Down, None
<1>4. QED
  BY <1>1, <1>2, <1>3 DEF ConfigInv

\* What touches none of the four leaves the invariant alone.
LEMMA ConfigKept == ConfigInv /\ UNCHANGED <<row, request, worker, status>> => ConfigInv'
BY DEF ConfigInv, ConfigTypes, SavesRead, WorkerRead

LEMMA PrepareKeepsConfig ==
  ASSUME ConfigInv, NEW o \in Operators, PrepareSave(o) PROVE ConfigInv'
<1> USE DEF ConfigInv
<1>1. PICK new \in Configs :
        request' = [request EXCEPT ![o] = [on |-> TRUE, before |-> row, new |-> new]]
  BY DEF PrepareSave
<1>2. UNCHANGED <<row, worker, status>>
  BY DEF PrepareSave
<1>3. ConfigTypes'
  BY <1>1, <1>2, ControlAssumption DEF ConfigTypes, Stored
<1>4. SavesRead'
  BY <1>1, <1>2 DEF SavesRead, ConfigTypes, Stored
<1>5. WorkerRead'
  BY <1>2 DEF WorkerRead
<1>6. QED
  BY <1>3, <1>4, <1>5

LEMMA SaveKeepsConfig ==
  ASSUME ConfigInv, NEW o \in Operators, Save(o) PROVE ConfigInv'
<1> USE DEF ConfigInv
<1>1. request' = [request EXCEPT ![o] = Idle] /\ UNCHANGED <<worker, status>>
  BY DEF Save
<1>2. row' = row \/ row' = [rev |-> row.rev + 1, config |-> request[o].new]
  BY DEF Save, NextRevision
<1>3. ConfigTypes'
  BY <1>1, <1>2, DefaultIsConfig DEF ConfigTypes, Stored, Idle
<1>4. row' = row \/ row'.rev = row.rev + 1
  BY <1>2
<1>5. SavesRead'
  <2> SUFFICES ASSUME NEW p \in Operators, request'[p].on
               PROVE  /\ request'[p].before.rev <= row'.rev
                      /\ request'[p].before.rev = row'.rev
                            => request'[p].before.config = row'.config
    BY DEF SavesRead
  <2>1. p # o /\ request'[p] = request[p]
    BY <1>1 DEF ConfigTypes, Idle
  <2>2. /\ request[p].before.rev \in Nat /\ row.rev \in Nat
        /\ request[p].before.rev <= row.rev
        /\ request[p].before.rev = row.rev => request[p].before.config = row.config
    BY <2>1 DEF SavesRead, ConfigTypes, Stored
  <2>3. QED
    BY <1>4, <2>1, <2>2
<1>6. WorkerRead'
  <2>1. row.rev \in Nat /\ status \in Int /\ worker.rev \in Int
    BY DEF ConfigTypes, Stored, None
  <2>2. QED
    BY <1>1, <1>4, <2>1 DEF WorkerRead
<1>7. QED
  BY <1>3, <1>5, <1>6

LEMMA WorkerKeepsConfig ==
  ASSUME ConfigInv,
         Start \/ PublishStatus \/ StatusExpires \/ ResponsibilityEnds \/ Exit \/ Stop
  PROVE  ConfigInv'
<1> USE DEF ConfigInv
<1>0. /\ row.rev \in Nat /\ status \in Int /\ worker.rev \in Int /\ row.config \in WorkerConfig
      /\ worker = [phase |-> worker.phase, rev |-> worker.rev, config |-> worker.config]
  BY DEF ConfigTypes, Stored, None
<1>1. CASE Start
  <2>1. /\ worker' = [phase |-> "starting", rev |-> row.rev, config |-> row.config]
        /\ UNCHANGED <<row, request, status>>
    BY <1>1 DEF Start, config
  <2>2. QED
    BY <1>0, <2>1 DEF ConfigTypes, SavesRead, WorkerRead, Stored
<1>2. CASE PublishStatus
  <2>1. /\ worker.phase = "starting" /\ worker' = [worker EXCEPT !.phase = "running"]
        /\ status' \in {worker.rev, status} /\ UNCHANGED <<row, request>>
    BY <1>2 DEF PublishStatus
  <2>2. ConfigTypes'
    BY <2>1 DEF ConfigTypes
  <2>3. QED
    BY <1>0, <2>1, <2>2 DEF SavesRead, WorkerRead
<1>3. CASE StatusExpires
  <2>1. status' = None /\ UNCHANGED <<row, request, worker>>
    BY <1>3 DEF StatusExpires
  <2>2. worker.phase # "down" => worker.rev >= None
    BY DEF ConfigTypes, None
  <2>3. QED
    BY <1>0, <2>1, <2>2 DEF ConfigTypes, SavesRead, WorkerRead, None
<1>4. CASE ResponsibilityEnds
  <2>1. /\ worker.phase = "running" /\ UNCHANGED <<row, request, status>>
        /\ \E raised \in BOOLEAN :
             worker' = [worker EXCEPT !.phase = IF raised THEN "raised" ELSE "returned"]
    BY <1>4 DEF ResponsibilityEnds, config
  <2>2. ConfigTypes'
    BY <2>1 DEF ConfigTypes
  <2>3. QED
    BY <1>0, <2>1, <2>2 DEF SavesRead, WorkerRead
<1>5. CASE Exit \/ Stop
  <2>1. worker' = Down /\ UNCHANGED <<row, request, status>>
    BY <1>5 DEF Exit, Stop, config
  <2>2. QED
    BY <2>1, DefaultIsConfig DEF ConfigTypes, SavesRead, WorkerRead, Down
<1>6. QED
  BY <1>1, <1>2, <1>3, <1>4, <1>5

LEMMA ConfigStep == ConfigInv /\ [PlaneNext]_planeVars => ConfigInv'
<1> SUFFICES ASSUME ConfigInv, [PlaneNext]_planeVars PROVE ConfigInv'
  OBVIOUS
<1>1. ASSUME NEW o \in Operators,
             \/ Login(o) \/ Expires(o) \/ Logout(o)
             \/ HaltFromDashboard(o) \/ ResumeFromDashboard(o) \/ CancelOrder(o)
             \/ CancelAllOrders(o) \/ ClosePosition(o) \/ FlattenAll(o)
      PROVE  ConfigInv'
  <2>1. UNCHANGED <<row, request, worker, status>>
    BY <1>1 DEF Login, Expires, Logout, HaltFromDashboard, HaltByHand, ResumeFromDashboard,
                Clear, CancelOrder, CancelAllOrders, ClosePosition, FlattenAll, config
  <2>2. QED
    BY <2>1, ConfigKept
<1>2. ASSUME NEW o \in Operators, PrepareSave(o) PROVE ConfigInv'
  BY <1>2, PrepareKeepsConfig
<1>3. ASSUME NEW o \in Operators, Save(o) PROVE ConfigInv'
  BY <1>3, SaveKeepsConfig
<1>4. CASE Start \/ PublishStatus \/ StatusExpires \/ ResponsibilityEnds \/ Exit \/ Stop
  BY <1>4, WorkerKeepsConfig
<1>5. CASE \/ HaltByHand \/ ClearByHand \/ AdoptBrokerState \/ Warmup \/ Reconcile \/ PassRisk
           \/ PassExit \/ Send \/ Store \/ LoseTooMuch \/ Rollover \/ FillEntry
           \/ FillReduction \/ FillClose \/ UNCHANGED planeVars
  <2>1. UNCHANGED <<row, request, worker, status>>
    BY <1>5 DEF HaltByHand, ClearByHand, Clear, AdoptBrokerState, Warmup, Reconcile, PassRisk, PassExit,
                Send, Store, LoseTooMuch, Rollover, FillEntry, FillReduction, FillClose, config,
                planeVars
  <2>2. QED
    BY <2>1, ConfigKept
<1>6. QED
  BY <1>1, <1>2, <1>3, <1>4, <1>5 DEF PlaneNext

\* NoPendingMeansSaved, for any operators, configurations and number of saves:
\* when the status names the saved revision, the worker that is up read it.
THEOREM ScreenTellsTheTruth == PlaneSpec => []NoPendingMeansSaved
<1>1. ConfigInv => NoPendingMeansSaved
  <2> SUFFICES ASSUME ConfigInv, worker.phase # "down", status = row.rev
               PROVE  worker.config = row.config
    BY DEF NoPendingMeansSaved, InForce
  <2>1. row.rev \in Nat /\ worker.rev \in Int
    BY DEF ConfigInv, ConfigTypes, Stored, None
  <2>2. QED
    BY <2>1 DEF ConfigInv, WorkerRead
<1>2. QED
  BY <1>1, ConfigInit, ConfigStep, PTL DEF PlaneSpec

\* ArmedIsProved: a save that asks for no password found the row armed, and
\* wrote over that row or over another's save.
THEOREM ArmingIsProved == PlaneSpec => []ArmedIsProved
<1>1. PlaneInit => ArmedIsProved
  BY DEF PlaneInit, ArmedIsProved, DefaultConfig
<1>2. ConfigInv /\ ArmedIsProved /\ [PlaneNext]_planeVars => ArmedIsProved'
  <2> SUFFICES ASSUME ConfigInv, ArmedIsProved, [PlaneNext]_planeVars PROVE ArmedIsProved'
    OBVIOUS
  <2>1. CASE UNCHANGED <<row, proved, raced>>
    BY <2>1 DEF ArmedIsProved
  <2>2. ASSUME NEW o \in Operators, Save(o) PROVE ArmedIsProved'
    <3>1. PICK password \in BOOLEAN :
            IF Arming(request[o].before, request[o].new) /\ ~StepUp(password)
            THEN UNCHANGED <<row, proved, raced>>
            ELSE /\ row' = [rev |-> NextRevision(request[o].before), config |-> request[o].new]
                 /\ proved' = (request[o].new.armed /\ (proved \/ password))
                 /\ raced' = (request[o].new.armed /\ (raced \/ request[o].before.rev # row.rev))
      BY <2>2 DEF Save
    <3>2. CASE Arming(request[o].before, request[o].new) /\ ~StepUp(password)
      BY <2>1, <3>1, <3>2
    <3>3. CASE ~(Arming(request[o].before, request[o].new) /\ ~StepUp(password))
      <4> SUFFICES ASSUME row'.config.armed PROVE proved' \/ raced'
        BY DEF ArmedIsProved
      <4>1. request[o].new.armed
        BY <3>1, <3>3
      <4>2. CASE password
        BY <3>1, <3>3, <4>1, <4>2
      <4>3. CASE request[o].before.rev # row.rev
        BY <3>1, <3>3, <4>1, <4>3
      <4>4. CASE ~password /\ request[o].before.rev = row.rev
        <5>1. request[o].before.config.armed
          BY <3>3, <4>1, <4>4 DEF Arming, StepUp
        <5>2. request[o].before.config = row.config
          BY <2>2, <4>4 DEF ConfigInv, SavesRead, Save
        <5>3. proved \/ raced
          BY <5>1, <5>2 DEF ArmedIsProved
        <5>4. QED
          BY <3>1, <3>3, <4>1, <5>3
      <4>5. QED
        BY <4>2, <4>3, <4>4
    <3>4. QED
      BY <3>2, <3>3
  <2>3. ASSUME NEW o \in Operators,
               \/ Login(o) \/ Expires(o) \/ Logout(o) \/ PrepareSave(o)
               \/ HaltFromDashboard(o) \/ ResumeFromDashboard(o) \/ CancelOrder(o)
               \/ CancelAllOrders(o) \/ ClosePosition(o) \/ FlattenAll(o)
        PROVE  UNCHANGED <<row, proved, raced>>
    BY <2>3 DEF Login, Expires, Logout, PrepareSave, HaltFromDashboard, HaltByHand,
                ResumeFromDashboard, Clear, CancelOrder, CancelAllOrders, ClosePosition,
                FlattenAll, config
  <2>4. CASE \/ Start \/ PublishStatus \/ StatusExpires \/ ResponsibilityEnds \/ Exit \/ Stop
             \/ HaltByHand \/ ClearByHand \/ AdoptBrokerState \/ Warmup \/ Reconcile \/ PassRisk
             \/ PassExit \/ Send \/ Store \/ LoseTooMuch \/ Rollover \/ FillEntry
             \/ FillReduction \/ FillClose \/ UNCHANGED planeVars
    <3>1. UNCHANGED <<row, proved, raced>>
      BY <2>4 DEF Start, PublishStatus, StatusExpires, ResponsibilityEnds, Exit, Stop, HaltByHand,
                  ClearByHand, Clear, AdoptBrokerState, Warmup, Reconcile, PassRisk, PassExit, Send, Store,
                  LoseTooMuch, Rollover, FillEntry, FillReduction, FillClose, config, planeVars
    <3>2. QED
      BY <2>1, <3>1
  <2>5. QED
    BY <2>1, <2>2, <2>3, <2>4 DEF PlaneNext
<1>3. QED
  BY <1>1, <1>2, ConfigInit, ConfigStep, PTL DEF PlaneSpec

-----------------------------------------------------------------------------
(* FeeSettlement: what was settled and what the ledger holds. *)

\* No settler was told, and no book has settled, more than the ledger holds.
WithinLedger ==
  /\ \A s \in Settlers : total[s] <= Total[ledger]
  /\ portfolio.settled <= Total[ledger] /\ disk.settled <= Total[ledger]

\* The inductive invariant.
FeesInv == FeesTyped /\ SettledIsReflected /\ WithinLedger

\* The ledger's total is a natural number, and it does not shrink when charges
\* are added.
LEMMA TotalGrows ==
  ASSUME NEW S \in SUBSET Fees, NEW T \in SUBSET Fees, S \subseteq T
  PROVE  Total[S] \in Nat /\ Total[T] \in Nat /\ Total[S] <= Total[T]
  BY TotalAssumption

\* The initial state satisfies the invariant.
LEMMA FeesInit == FeeInit => FeesInv
  <1> SUFFICES ASSUME FeeInit PROVE FeesInv
    OBVIOUS
  <1>1. Total[{}] = 0 /\ {} \in SUBSET Fees
    BY EmptyTotalAssumption
  <1>2. FeesTyped
    BY MaxCrashesAssumption DEF FeeInit, FeesTyped, Book, Level, Restarted
  <1>3. SettledIsReflected
    <2>1. portfolio.cash = 0 /\ portfolio.settled = 0 /\ disk.cash = 0 /\ disk.settled = 0
      BY DEF FeeInit, Level
    <2> QED BY <2>1 DEF SettledIsReflected
  <1>4. WithinLedger
    BY <1>1 DEF FeeInit, WithinLedger, Level
  <1> QED BY <1>2, <1>3, <1>4 DEF FeesInv

\* Every step preserves the invariant: one case per action.
LEMMA FeesStep == FeesInv /\ [FeeNext]_feeVars => FeesInv'
  <1> SUFFICES ASSUME FeesInv, [FeeNext]_feeVars PROVE FeesInv'
    OBVIOUS
  <1> USE DEF FeesInv
  <1>0. Total[ledger] \in Nat /\ ledger \in SUBSET Fees
    BY TotalGrows DEF FeesTyped
  <1>1. ASSUME NEW f \in Fees, Charge(f) PROVE FeesInv'
    <2>1. FeesTyped'
      BY <1>1 DEF Charge, FeesTyped
    <2>2. SettledIsReflected' /\ WithinLedger'
      BY <1>1 DEF Charge, SettledIsReflected, WithinLedger
    <2> QED BY <2>1, <2>2
  <1>2. ASSUME NEW f \in Fees, Age(f) PROVE FeesInv'
    <2>1. FeesTyped'
      BY <1>2 DEF Age, FeesTyped
    <2>2. SettledIsReflected' /\ WithinLedger'
      BY <1>2 DEF Age, SettledIsReflected, WithinLedger
    <2> QED BY <2>1, <2>2
  <1>3. ASSUME NEW s \in Settlers, ReadFees(s) PROVE FeesInv'
    <2>1. FeesTyped'
      BY <1>3 DEF ReadFees, FeesTyped
    <2>2. SettledIsReflected' /\ WithinLedger'
      BY <1>3 DEF ReadFees, SettledIsReflected, WithinLedger
    <2> QED BY <2>1, <2>2
  <1>4. ASSUME NEW s \in Settlers, RecordSeen(s) PROVE FeesInv'
    <2>1. ledger' = ledger \cup swept[s] /\ swept[s] \subseteq charged
      BY <1>4 DEF RecordSeen, FeesTyped
    <2>2. ledger' \in SUBSET Fees /\ ledger' \subseteq charged /\ ledger \subseteq ledger'
      BY <2>1 DEF FeesTyped
    <2>3. Total[ledger'] \in Nat /\ Total[ledger] <= Total[ledger']
      BY <2>2, <1>0, TotalGrows
    <2>4. FeesTyped'
      BY <1>4, <2>2, <2>3 DEF RecordSeen, FeesTyped
    <2>5. SettledIsReflected'
      BY <1>4 DEF RecordSeen, SettledIsReflected
    <2>6. \A t \in Settlers : total'[t] <= Total[ledger']
      BY <1>4, <1>0, <2>3 DEF RecordSeen, WithinLedger, FeesTyped
    <2>7. portfolio'.settled <= Total[ledger'] /\ disk'.settled <= Total[ledger']
      BY <1>4, <1>0, <2>3 DEF RecordSeen, WithinLedger, FeesTyped, Book
    <2> QED BY <2>4, <2>5, <2>6, <2>7 DEF WithinLedger
  <1>5. ASSUME NEW s \in Settlers, Settle(s) PROVE FeesInv'
    <2>1. /\ portfolio' = [cash |-> portfolio.cash - (total[s] - portfolio.settled),
                            settled |-> total[s]]
          /\ total[s] \in Nat /\ portfolio.settled \in Nat /\ portfolio.cash \in Int
      BY <1>5 DEF Settle, Owed, FeesTyped, Book
    <2>2. portfolio' \in Book /\ portfolio'.settled = total[s] /\ portfolio'.cash + total[s] = 0
      BY <2>1 DEF Book, SettledIsReflected
    <2>3. FeesTyped'
      BY <1>5, <2>2 DEF Settle, FeesTyped
    <2>4. SettledIsReflected'
      BY <1>5, <2>2 DEF Settle, SettledIsReflected
    <2>5. WithinLedger'
      BY <1>5, <2>2 DEF Settle, WithinLedger
    <2> QED BY <2>3, <2>4, <2>5
  <1>6. CASE Snapshot
    <2>1. FeesTyped'
      BY <1>6 DEF Snapshot, FeesTyped
    <2>2. SettledIsReflected' /\ WithinLedger'
      BY <1>6 DEF Snapshot, SettledIsReflected, WithinLedger
    <2> QED BY <2>1, <2>2
  <1>7. CASE Crash
    <2>1. FeesTyped'
      <3>1. crashes' \in 0..MaxCrashes
        BY <1>7, MaxCrashesAssumption DEF Crash, FeesTyped
      <3>2. at' \in [Settlers -> {"idle", "read", "told"}] /\ up' \in BOOLEAN
        BY <1>7 DEF Crash, Restarted
      <3> QED BY <1>7, <3>1, <3>2 DEF Crash, FeesTyped
    <2>2. SettledIsReflected' /\ WithinLedger'
      BY <1>7 DEF Crash, SettledIsReflected, WithinLedger
    <2> QED BY <2>1, <2>2
  <1>8. CASE Restart
    <2>1. FeesTyped'
      BY <1>8 DEF Restart, FeesTyped
    <2>2. SettledIsReflected' /\ WithinLedger'
      BY <1>8 DEF Restart, SettledIsReflected, WithinLedger
    <2> QED BY <2>1, <2>2
  <1>9. CASE UNCHANGED feeVars
    BY <1>9 DEF feeVars, FeesTyped, SettledIsReflected, WithinLedger
  <1> QED
    BY <1>1, <1>2, <1>3, <1>4, <1>5, <1>6, <1>7, <1>8, <1>9
    DEF FeeNext, SettleBrokerFees

\* The invariant is strong enough.
LEMMA FeesSuffice == FeesInv => NeverOvercharged
  <1> SUFFICES ASSUME FeesInv PROVE portfolio.cash >= -Total[charged]
    BY DEF NeverOvercharged, AccountCash
  <1>1. Total[ledger] \in Nat /\ Total[charged] \in Nat /\ Total[ledger] <= Total[charged]
    BY TotalGrows DEF FeesInv, FeesTyped
  <1>2. portfolio.settled \in Nat /\ portfolio.cash + portfolio.settled = 0
        /\ portfolio.cash \in Int /\ portfolio.settled <= Total[ledger]
    BY DEF FeesInv, FeesTyped, Book, SettledIsReflected, WithinLedger
  <1> QED BY <1>1, <1>2

\* Whatever tasks settle at once and wherever the worker crashes, the stored
\* and the live fees_settled tell exactly what their cash reflects, and no
\* charge is taken twice (settle_broker_fees, record_seen, snapshot).
THEOREM FeesSettledOnce ==
  FeeSpec => [](FeesTyped /\ SettledIsReflected /\ NeverOvercharged)
  <1>1. FeeInit => FeesInv
    BY FeesInit
  <1>2. FeesInv /\ [FeeNext]_feeVars => FeesInv'
    BY FeesStep
  <1>3. FeesInv => FeesTyped /\ SettledIsReflected /\ NeverOvercharged
    BY FeesSuffice DEF FeesInv
  <1> QED BY <1>1, <1>2, <1>3, PTL DEF FeeSpec

-----------------------------------------------------------------------------
(* KillSwitch: the latch, for any engagers, keys, symbols, requests and rounds. *)

\* raw is what stands in the store as long as nobody has written the key since
\* the GET: what makes a compare-and-set a merge with the standing record.
FreshMatches == \A e \in fresh : store[req[e].key] = raw[e]

\* The inductive invariant.
IInv == TypeOK /\ FreshMatches /\ EvidenceStands

USE MaxAttemptsAssumption, RequestsAssumption

\* NoHalt is not a record and NoRequest is not a request.
LEMMA NotARecord == NoHalt \notin HaltRecord
BY DEF NoHalt, HaltRecord

LEMMA NewRecordType == ASSUME NEW r \in Requests PROVE NewRecord(r) \in HaltRecord
BY DEF NewRecord, HaltRecord, Request

\* _merge returns a record that covers both, dated and signed by the first.
LEMMA MergeFacts ==
  ASSUME NEW x \in HaltRecord, NEW r \in Requests
  PROVE /\ Merge(x, r) \in HaltRecord
        /\ Merge(x, r).impugned = x.impugned \cup r.symbols
        /\ Merge(x, r).engaged_by = x.engaged_by
        /\ Merge(x, r).engaged_at = x.engaged_at
        /\ Merge(x, r).reason # x.reason =>
              x.impugned = {} /\ Merge(x, r).impugned # {}
BY DEF Merge, HaltRecord, Request

-----------------------------------------------------------------------------
LEMMA InitIInv == Init => IInv
BY DEF Init, IInv, TypeOK, FreshMatches, EvidenceStands, Unproven, Resting

LEMMA CallIInv ==
  ASSUME IInv, NEW e \in Engagers, NEW r \in Requests, Call(e, r)
  PROVE IInv'
<1>1. NoRequest \notin Requests
  BY DEF NoRequest, Request
<1>2. TypeOK'
  BY <1>1 DEF IInv, TypeOK, Call, auxVars, Resting
<1>3. FreshMatches'
  BY DEF IInv, TypeOK, FreshMatches, Call, Resting
<1>4. EvidenceStands'
  BY DEF IInv, EvidenceStands, Call, auxVars
<1> QED BY <1>2, <1>3, <1>4 DEF IInv

LEMMA SetNXIInv ==
  ASSUME IInv, NEW e \in Engagers, SetNX(e)
  PROVE IInv'
<1> USE DEF IInv, TypeOK, Resting
<1>1. req[e] \in Requests /\ req[e].key \in Keys
  BY DEF SetNX, Request
<1>2. CASE /\ store[req[e].key] = NoHalt
           /\ Write(req[e].key, NewRecord(req[e]))
           /\ Return(e)
           /\ UNCHANGED snapshot
  <2>1. NewRecord(req[e]) \in HaltRecord
    BY <1>1, NewRecordType
  <2>2. TypeOK'
    BY <1>1, <1>2, <2>1 DEF Write, Return, End, Request
  <2>3. FreshMatches'
    BY <1>1, <1>2 DEF Write, Return, End, FreshMatches
  <2>4. EvidenceStands'
    BY <1>1, <1>2, <2>1, NotARecord
       DEF Write, Return, EvidenceStands, Unproven, NewRecord
  <2> QED BY <2>2, <2>3, <2>4
<1>3. CASE /\ pc[e] = "set"
           /\ pc' = [pc EXCEPT ![e] = "get"]
           /\ UNCHANGED <<store, req, attempt, raw, fresh, auxVars, snapshot>>
  <2>1. TypeOK'
    BY <1>1, <1>3 DEF auxVars
  <2>2. FreshMatches' /\ EvidenceStands'
    BY <1>3 DEF FreshMatches, EvidenceStands, auxVars
  <2> QED BY <2>1, <2>2
<1> QED BY <1>2, <1>3 DEF SetNX

LEMMA RetryFacts ==
  ASSUME IInv, NEW e \in Engagers, NEW claim \in Resting,
         pc[e] \in {"get", "cas"}, e \notin fresh,
         RetryOrRaise(e, claim), UNCHANGED <<store, fresh, snapshot>>
  PROVE IInv'
<1> USE DEF IInv, TypeOK, Resting
<1>1. req[e] \in Requests
  OBVIOUS
<1>2. TypeOK'
  BY <1>1 DEF RetryOrRaise, Raise, End, auxVars
<1>3. FreshMatches'
  BY DEF RetryOrRaise, Raise, End, auxVars, FreshMatches
<1>4. EvidenceStands'
  BY DEF RetryOrRaise, Raise, auxVars, EvidenceStands
<1> QED BY <1>2, <1>3, <1>4

LEMMA GetIInv ==
  ASSUME IInv, NEW e \in Engagers, Get(e)
  PROVE IInv'
<1> USE DEF IInv, TypeOK
<1> DEFINE found == store[req[e].key]
<1>1. /\ req[e] \in Requests /\ req[e].key \in Keys
      /\ e \notin fresh /\ pc[e] = "get"
      /\ found \in HaltRecord \cup {NoHalt}
  BY DEF Get, Request, Resting
<1>2. CASE found = NoHalt /\ RetryOrRaise(e, "nothing_recorded")
                          /\ UNCHANGED <<store, fresh, snapshot>>
  BY <1>1, <1>2, RetryFacts DEF Get, Resting
<1>3. CASE /\ found # NoHalt /\ Merge(found, req[e]) = found
           /\ Return(e)
           /\ UNCHANGED <<store, fresh, snapshot>>
  <2>1. TypeOK'
    BY <1>1, <1>3 DEF Return, End, Resting, Request
  <2>2. FreshMatches'
    BY <1>1, <1>3 DEF Return, End, FreshMatches
  <2>3. req[e].symbols \subseteq found.impugned
    BY <1>1, <1>3, MergeFacts
  <2>4. EvidenceStands'
    BY <1>1, <1>3, <2>3 DEF Return, EvidenceStands, Unproven
  <2> QED BY <2>1, <2>2, <2>4
<1>4. CASE /\ found # NoHalt
           /\ pc' = [pc EXCEPT ![e] = "cas"]
           /\ raw' = [raw EXCEPT ![e] = found]
           /\ fresh' = fresh \cup {e}
           /\ UNCHANGED <<req, attempt, auxVars, store, snapshot>>
  <2>1. TypeOK'
    BY <1>1, <1>4 DEF auxVars, Resting
  <2>2. FreshMatches'
    BY <1>1, <1>4 DEF FreshMatches
  <2>3. EvidenceStands'
    BY <1>4 DEF EvidenceStands, auxVars
  <2> QED BY <2>1, <2>2, <2>3
<1> QED BY <1>2, <1>3, <1>4 DEF Get

\* The compare-and-set of a fresh engager merges with the standing record.
LEMMA FreshCas ==
  ASSUME IInv, NEW e \in fresh
  PROVE /\ req[e] \in Requests /\ req[e].key \in Keys
        /\ raw[e] \in HaltRecord /\ store[req[e].key] = raw[e]
        /\ Merge(raw[e], req[e]) \in HaltRecord
        /\ Merge(raw[e], req[e]).impugned =
              Unproven(store[req[e].key]) \cup req[e].symbols
<1>1. /\ req[e] \in Requests /\ req[e].key \in Keys
      /\ raw[e] \in HaltRecord /\ store[req[e].key] = raw[e]
  BY DEF IInv, TypeOK, FreshMatches, Resting, Request
<1> QED BY <1>1, MergeFacts, NotARecord DEF Unproven

LEMMA CasIInv ==
  ASSUME IInv, NEW e \in Engagers, Cas(e)
  PROVE IInv'
<1> USE DEF IInv, TypeOK
<1>1. CASE /\ e \in fresh
           /\ Write(req[e].key, Merge(raw[e], req[e]))
           /\ Return(e)
           /\ UNCHANGED snapshot
  <2>1. TypeOK'
    BY <1>1, FreshCas DEF Write, Return, End, Resting, Request
  <2>2. FreshMatches'
    BY <1>1, FreshCas DEF Write, Return, End, FreshMatches
  <2>3. EvidenceStands'
    BY <1>1, FreshCas, NotARecord DEF Write, Return, EvidenceStands, Unproven
  <2> QED BY <2>1, <2>2, <2>3
<1>2. CASE /\ e \notin fresh
           /\ RetryOrRaise(e, "halt_stands")
           /\ UNCHANGED <<store, fresh, snapshot>>
  BY <1>2, RetryFacts DEF Cas, Resting
<1> QED BY <1>1, <1>2 DEF Cas

LEMMA StoreErrorIInv ==
  ASSUME IInv, NEW e \in Engagers, StoreError(e)
  PROVE IInv'
<1> USE DEF IInv, TypeOK, Raise, End, auxVars, StoreError
<1>1. req[e] \in Requests /\ req[e].key \in Keys
  BY DEF Request
<1>2. CASE fresh' = fresh \ {e} /\ UNCHANGED store
  <2>1. TypeOK'
    BY <1>2 DEF Resting
  <2>2. FreshMatches' /\ EvidenceStands'
    BY <1>2 DEF FreshMatches, EvidenceStands
  <2> QED BY <2>1, <2>2
<1>3. CASE pc[e] = "set" /\ store[req[e].key] = NoHalt
                         /\ Write(req[e].key, NewRecord(req[e]))
  <2>1. NewRecord(req[e]) \in HaltRecord
    BY <1>1, NewRecordType
  <2>2. TypeOK'
    BY <1>1, <1>3, <2>1 DEF Write, Resting
  <2>3. FreshMatches'
    BY <1>1, <1>3 DEF Write, FreshMatches
  <2>4. EvidenceStands'
    BY <1>1, <1>3, <2>1, NotARecord DEF Write, EvidenceStands, Unproven
  <2> QED BY <2>2, <2>3, <2>4
<1>4. CASE e \in fresh /\ Write(req[e].key, Merge(raw[e], req[e]))
  <2>1. TypeOK'
    BY <1>4, FreshCas DEF Write, Resting
  <2>2. FreshMatches'
    BY <1>4, FreshCas DEF Write, FreshMatches
  <2>3. EvidenceStands'
    BY <1>4, FreshCas, NotARecord DEF Write, EvidenceStands, Unproven
  <2> QED BY <2>1, <2>2, <2>3
<1> QED BY <1>2, <1>3, <1>4

LEMMA GetDelIInv ==
  ASSUME IInv, NEW k \in Keys, GetDel(k), UNCHANGED callVars,
         snapshot' \in [Keys -> HaltRecord \cup {NoHalt}]
  PROVE IInv'
<1> USE DEF IInv, GetDel, Write, callVars
<1>1. TypeOK'
  BY DEF TypeOK
<1>2. FreshMatches'
  BY DEF TypeOK, FreshMatches
<1>3. EvidenceStands'
  BY DEF TypeOK, EvidenceStands, Unproven
<1> QED BY <1>1, <1>2, <1>3

LEMMA RolloverJudgeIInv ==
  ASSUME IInv, NEW k \in Keys, RolloverJudge(k)
  PROVE IInv'
<1>1. snapshot' \in [Keys -> HaltRecord \cup {NoHalt}]
  BY DEF RolloverJudge, IInv, TypeOK
<1>2. CASE GetDel(k)
  BY <1>1, <1>2, GetDelIInv DEF RolloverJudge
<1>3. CASE UNCHANGED <<store, fresh, auxVars>>
  <2>1. TypeOK'
    BY <1>1, <1>3 DEF IInv, TypeOK, RolloverJudge, callVars, auxVars
  <2>2. FreshMatches' /\ EvidenceStands'
    BY <1>3 DEF IInv, FreshMatches, EvidenceStands, RolloverJudge, callVars, auxVars
  <2> QED BY <2>1, <2>2 DEF IInv
<1> QED BY <1>2, <1>3 DEF RolloverJudge

LEMMA RolloverReadIInv == ASSUME IInv, RolloverRead PROVE IInv'
<1>1. TypeOK'
  BY DEF IInv, TypeOK, RolloverRead, callVars, auxVars
<1>2. FreshMatches' /\ EvidenceStands'
  BY DEF IInv, FreshMatches, EvidenceStands, RolloverRead, callVars, auxVars
<1> QED BY <1>1, <1>2 DEF IInv

\* Ageing a record changes nothing but its date.
LEMMA AgeFacts ==
  ASSUME NEW x \in HaltRecord
  PROVE LET y == [x EXCEPT !.engaged_at = "earlier"] IN
        /\ y \in HaltRecord
        /\ y.impugned = x.impugned /\ y.reason = x.reason
        /\ y.engaged_by = x.engaged_by /\ y.engaged_at = "earlier"
BY DEF HaltRecord

LEMMA NewDayIInv == ASSUME IInv, NewDay PROVE IInv'
<1> DEFINE Older(x) == IF x = NoHalt THEN NoHalt
                     ELSE [x EXCEPT !.engaged_at = "earlier"]
<1>1. \A x \in HaltRecord \cup {NoHalt} :
        /\ Older(x) \in HaltRecord \cup {NoHalt}
        /\ Unproven(Older(x)) = Unproven(x)
        /\ Older(x) = NoHalt <=> x = NoHalt
  BY AgeFacts, NotARecord DEF Unproven
<1>2. /\ store' = [k \in Keys |-> Older(store[k])]
      /\ raw' = [e \in Engagers |-> Older(raw[e])]
      /\ UNCHANGED <<pc, req, attempt, fresh, snapshot, owed, told>>
  BY DEF NewDay, auxVars
<1> HIDE DEF Older
<1>3. TypeOK'
  BY <1>1, <1>2 DEF IInv, TypeOK
<1>4. FreshMatches'
  <2>1. \A e \in fresh : req[e].key \in Keys /\ e \in Engagers
    BY DEF IInv, TypeOK, Resting, Request
  <2> QED BY <1>2, <2>1 DEF IInv, TypeOK, FreshMatches
<1>5. EvidenceStands'
  BY <1>1, <1>2 DEF IInv, TypeOK, EvidenceStands
<1> QED BY <1>3, <1>4, <1>5 DEF IInv

LEMMA NextIInv == IInv /\ [Next]_vars => IInv'
<1> SUFFICES ASSUME IInv, [Next]_vars PROVE IInv'
  OBVIOUS
<1>1. ASSUME NEW e \in Engagers, EngagerStep(e) PROVE IInv'
  BY <1>1, SetNXIInv, GetIInv, CasIInv, StoreErrorIInv DEF EngagerStep
<1>2. ASSUME NEW e \in Engagers, NEW r \in Requests, Call(e, r) PROVE IInv'
  BY <1>2, CallIInv
<1>3. ASSUME NEW k \in Keys, OperatorClear(k) PROVE IInv'
  BY <1>3, GetDelIInv DEF OperatorClear, IInv, TypeOK
<1>4. ASSUME NEW k \in Keys, RolloverJudge(k) PROVE IInv'
  BY <1>4, RolloverJudgeIInv
<1>5. CASE UNCHANGED vars
  <2>1. TypeOK'
    BY <1>5 DEF IInv, TypeOK, vars, callVars, auxVars
  <2>2. FreshMatches' /\ EvidenceStands'
    BY <1>5 DEF IInv, FreshMatches, EvidenceStands, vars, callVars, auxVars
  <2> QED BY <2>1, <2>2 DEF IInv
<1> QED BY <1>1, <1>2, <1>3, <1>4, <1>5, RolloverReadIInv, NewDayIInv DEF Next

\* The switch keeps its types, and never knows less than its callers were
\* told: for any number of racing engagers, clears, rollovers and lost replies.
THEOREM SafetyInvariant == Spec => [](TypeOK /\ EvidenceStands)
<1>1. Spec => []IInv
  BY InitIInv, NextIInv, PTL DEF Spec
<1>2. IInv => TypeOK /\ EvidenceStands
  BY DEF IInv
<1> QED BY <1>1, <1>2, PTL

-----------------------------------------------------------------------------
\* What a step does to one key, seen by the latch.
KeyStep ==
  \/ UNCHANGED <<[k \in Keys |-> store[k] # NoHalt],
                 [k \in Keys |-> Unproven(store[k])], owed>>
  \/ \E k \in Keys : Latch!Release(k)
  \/ \E k \in Keys, S \in SUBSET Symbols : Latch!Engage(k, S)

\* A successful write of evidence S over what stands at k is an Engage.
LEMMA WriteIsEngage ==
  ASSUME IInv, NEW k \in Keys, NEW S \in SUBSET Symbols, NEW rec \in HaltRecord,
         store' = [store EXCEPT ![k] = rec],
         rec.impugned = Unproven(store[k]) \cup S,
         owed' \in {owed, [owed EXCEPT ![k] = @ \cup S]}
  PROVE Latch!Engage(k, S)
<1>1. [j \in Keys |-> store'[j] # NoHalt]
        = [[j \in Keys |-> store[j] # NoHalt] EXCEPT ![k] = TRUE]
  BY NotARecord DEF IInv, TypeOK
<1>2. [j \in Keys |-> Unproven(store'[j])]
        = [[j \in Keys |-> Unproven(store[j])] EXCEPT ![k] = @ \cup S]
  BY NotARecord DEF IInv, TypeOK, Unproven
<1> QED BY <1>1, <1>2 DEF Latch!Engage

LEMMA GetDelIsRelease ==
  ASSUME IInv, NEW k \in Keys, GetDel(k)
  PROVE Latch!Release(k)
<1>1. [j \in Keys |-> store'[j] # NoHalt]
        = [[j \in Keys |-> store[j] # NoHalt] EXCEPT ![k] = FALSE]
  BY DEF IInv, TypeOK, GetDel, Write
<1>2. [j \in Keys |-> Unproven(store'[j])]
        = [[j \in Keys |-> Unproven(store[j])] EXCEPT ![k] = {}]
  BY DEF IInv, TypeOK, GetDel, Write, Unproven
<1> QED BY <1>1, <1>2 DEF Latch!Release, GetDel

LEMMA RequestFacts ==
  ASSUME IInv, NEW e \in Engagers, pc[e] \notin Resting
  PROVE /\ req[e] \in Requests /\ req[e].key \in Keys
        /\ req[e].symbols \in SUBSET Symbols
BY DEF IInv, TypeOK, Request

LEMMA EngagerKeyStep ==
  ASSUME IInv, NEW e \in Engagers, EngagerStep(e)
  PROVE KeyStep
<1> DEFINE k == req[e].key
<1>1. /\ req[e] \in Requests /\ k \in Keys
      /\ req[e].symbols \in SUBSET Symbols
  BY RequestFacts DEF EngagerStep, SetNX, Get, Cas, StoreError, Resting
<1>2. ASSUME store[k] = NoHalt, Write(k, NewRecord(req[e])),
             owed' \in {owed, [owed EXCEPT ![k] = @ \cup req[e].symbols]}
      PROVE KeyStep
  <2>1. NewRecord(req[e]).impugned = Unproven(store[k]) \cup req[e].symbols
    BY <1>1, <1>2 DEF NewRecord, Unproven
  <2> QED BY <1>1, <1>2, <2>1, NewRecordType, WriteIsEngage DEF Write, KeyStep
<1>3. ASSUME e \in fresh, Write(k, Merge(raw[e], req[e])),
             owed' \in {owed, [owed EXCEPT ![k] = @ \cup req[e].symbols]}
      PROVE KeyStep
  BY <1>1, <1>3, FreshCas, WriteIsEngage DEF Write, KeyStep
<1>4. ASSUME UNCHANGED <<store, owed>> PROVE KeyStep
  BY <1>4 DEF KeyStep
<1>5. CASE SetNX(e)
  BY <1>2, <1>4, <1>5 DEF SetNX, Return, auxVars
<1>6. CASE Get(e)
  <2>1. ASSUME store[k] # NoHalt, Merge(store[k], req[e]) = store[k],
               Return(e), UNCHANGED store
        PROVE KeyStep
    <3>1. /\ store[k] \in HaltRecord /\ store' = [store EXCEPT ![k] = store[k]]
          /\ store[k].impugned = Unproven(store[k]) \cup req[e].symbols
      BY <1>1, <2>1, MergeFacts DEF IInv, TypeOK, Unproven
    <3> QED BY <1>1, <2>1, <3>1, WriteIsEngage DEF KeyStep, Return
  <2> QED BY <1>4, <1>6, <2>1 DEF Get, RetryOrRaise, Raise, auxVars
<1>7. CASE Cas(e)
  BY <1>3, <1>4, <1>7 DEF Cas, Return, RetryOrRaise, Raise, auxVars
<1>8. CASE StoreError(e)
  BY <1>2, <1>3, <1>4, <1>8 DEF StoreError, Raise, auxVars
<1> QED BY <1>5, <1>6, <1>7, <1>8 DEF EngagerStep

LEMMA NextKeyStep == IInv /\ [Next]_vars => KeyStep
<1> SUFFICES ASSUME IInv, [Next]_vars PROVE KeyStep
  OBVIOUS
<1>1. ASSUME UNCHANGED <<store, owed>> PROVE KeyStep
  BY <1>1 DEF KeyStep
<1>2. CASE \E e \in Engagers : EngagerStep(e)
  BY <1>2, EngagerKeyStep
<1>3. CASE \E e \in Engagers, r \in Requests : Call(e, r)
  BY <1>1, <1>3 DEF Call, auxVars
<1>4. CASE \E k \in Keys : OperatorClear(k) \/ RolloverJudge(k)
  BY <1>1, <1>4, GetDelIsRelease DEF OperatorClear, RolloverJudge, auxVars, KeyStep
<1>5. CASE RolloverRead \/ UNCHANGED vars
  BY <1>1, <1>5 DEF RolloverRead, vars, auxVars
<1>6. CASE NewDay
  <2>1. \A k \in Keys : Unproven(store'[k]) = Unproven(store[k])
                        /\ (store'[k] = NoHalt <=> store[k] = NoHalt)
    <3> SUFFICES ASSUME NEW k \in Keys
                 PROVE Unproven(store'[k]) = Unproven(store[k])
                        /\ (store'[k] = NoHalt <=> store[k] = NoHalt)
      OBVIOUS
    <3>1. CASE store[k] = NoHalt
      BY <1>6, <3>1 DEF NewDay
    <3>2. CASE store[k] \in HaltRecord
      BY <1>6, <3>2, AgeFacts, NotARecord DEF NewDay, Unproven
    <3> QED BY <3>1, <3>2 DEF IInv, TypeOK
  <2> QED BY <1>6, <2>1 DEF NewDay, KeyStep, auxVars
<1> QED BY <1>2, <1>3, <1>4, <1>5, <1>6 DEF Next

\* The switch in Redis implements the latch it promises to be: every step of
\* every process, lost replies included, is an engage, a release or a stutter
\* of HaltLatch.
THEOREM LatchImplemented == Spec => ImplementsLatch
<1>1. Init => Latch!Init
  BY DEF Init, Latch!Init, Unproven
<1>2. KeyStep => [Latch!Next]_(Latch!vars)
  BY DEF KeyStep, Latch!Next, Latch!vars
<1>3. Spec => []IInv
  BY InitIInv, NextIInv, PTL DEF Spec
<1> QED BY <1>1, <1>2, <1>3, NextKeyStep, PTL DEF Spec, ImplementsLatch, Latch!Spec

-----------------------------------------------------------------------------
\* An engager's write lands on an empty key or on the record it merged with.
LEMMA EngagerKeepsRecord ==
  ASSUME IInv, NEW e \in Engagers, EngagerStep(e), NEW k \in Keys
  PROVE KeepsRecord(k)
<1>1. req[e] \in Requests /\ req[e].key \in Keys
  BY RequestFacts DEF EngagerStep, SetNX, Get, Cas, StoreError, Resting
<1>2. ASSUME store[req[e].key] = NoHalt, Write(req[e].key, NewRecord(req[e]))
      PROVE KeepsRecord(k)
  BY <1>1, <1>2 DEF Write, KeepsRecord, IInv, TypeOK
<1>3. ASSUME e \in fresh, Write(req[e].key, Merge(raw[e], req[e]))
      PROVE KeepsRecord(k)
  <2>1. /\ raw[e] \in HaltRecord /\ store[req[e].key] = raw[e]
    BY <1>3, FreshCas
  <2> QED BY <1>1, <1>3, <2>1, MergeFacts DEF Write, KeepsRecord, IInv, TypeOK
<1>4. ASSUME UNCHANGED store PROVE KeepsRecord(k)
  BY <1>4 DEF KeepsRecord
<1> QED BY <1>2, <1>3, <1>4 DEF EngagerStep, SetNX, Get, Cas, StoreError

LEMMA NextKeepsRecord ==
  IInv /\ [Next]_vars => \A k \in Keys : KeepsRecord(k)
<1> SUFFICES ASSUME IInv, [Next]_vars, NEW k \in Keys PROVE KeepsRecord(k)
  OBVIOUS
<1>1. ASSUME UNCHANGED store PROVE KeepsRecord(k)
  BY <1>1 DEF KeepsRecord
<1>2. ASSUME NEW j \in Keys, GetDel(j) PROVE KeepsRecord(k)
  BY <1>2 DEF GetDel, Write, KeepsRecord, IInv, TypeOK
<1>3. CASE NewDay
  <2>1. CASE store[k] = NoHalt
    BY <2>1 DEF KeepsRecord
  <2>2. CASE store[k] \in HaltRecord
    BY <1>3, <2>2, AgeFacts, NotARecord DEF NewDay, KeepsRecord
  <2> QED BY <2>1, <2>2 DEF IInv, TypeOK
<1>4. CASE \E j \in Keys : OperatorClear(j) \/ RolloverJudge(j)
  BY <1>1, <1>2, <1>4 DEF OperatorClear, RolloverJudge
<1>5. CASE \E e \in Engagers : EngagerStep(e) \/ \E r \in Requests : Call(e, r)
  BY <1>1, <1>5, EngagerKeepsRecord DEF Call
<1>6. CASE RolloverRead \/ UNCHANGED vars
  BY <1>1, <1>6 DEF RolloverRead, vars
<1> QED BY <1>3, <1>4, <1>5, <1>6 DEF Next

\* A standing halt is a one-way latch: its engager and date stay, its evidence
\* only grows, its reason moves only with the first evidence.
THEOREM LatchIsOneWay == Spec => OneWayLatch
<1>1. Spec => []IInv
  BY InitIInv, NextIInv, PTL DEF Spec
<1> QED BY <1>1, NextKeepsRecord, PTL DEF Spec, OneWayLatch
=============================================================================
