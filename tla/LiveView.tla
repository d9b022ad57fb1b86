------------------------------ MODULE LiveView ------------------------------
(***************************************************************************)
(* What the operator's screen shows, and when: the kill switch and the     *)
(* worker announce over Redis pub/sub, the API's bridge fans out to the    *)
(* sockets of the browsers (ws.py), and the browser answers every          *)
(* announcement with one read of the whole dashboard (useLiveDashboard.ts, *)
(* routers/dashboard.py).  Pub/sub has no replay: what is published while  *)
(* somebody is not listening has to be made up for by a read.              *)
(*                                                                         *)
(* One browser.  A halt or a book is its version: how many transitions or  *)
(* fills it has taken in.  A message carries nothing the screen uses but   *)
(* its kind, so messages on their way are sets.  Quotes and signals change *)
(* nothing a read shows and are left out.                                  *)
(***************************************************************************)
EXTENDS Naturals

CONSTANTS MaxHalts, MaxFills,
          MaxFaults   \* bound on drops, restarts and failed calls

ASSUME LiveAssumption == MaxHalts \in Nat /\ MaxFills \in Nat /\ MaxFaults \in Nat

VARIABLES
  halt, unsent,      \* the kill switch, and whether its last transition is unpublished
  book, db, snap,    \* the worker's book, the stored one, the one for the dashboard
  pass,              \* what the worker is in the middle of, under its lock
  bridge, gapDue,    \* the API's subscription, and down_since
  tasks,             \* messages the bridge has dispatched
  server,            \* the API's record of the browser's socket
  wire,              \* messages sent to it
  sock, opened,      \* the browser's socket, and everOpened
  fetch, seen,       \* the read under way, and the halts it has read
  screen, failed,    \* what is shown, and whether an error is shown with it
  signedIn,
  missed,            \* a message was lost where no later read is owed
  faults

viewVars == <<halt, unsent, book, db, snap, pass, bridge, gapDue, tasks, server, wire,
              sock, opened, fetch, seen, screen, failed, signedIn, missed, faults>>
switch == <<halt, unsent>>
workerVars == <<book, db, snap, pass>>
api == <<bridge, gapDue, tasks>>
link == <<server, wire, sock, opened>>
page == <<fetch, seen, screen, failed>>

Fault == faults < MaxFaults /\ faults' = faults + 1

ViewInit ==
  /\ halt = 0 /\ unsent = FALSE
  /\ book = 0 /\ db = 0 /\ snap = 0 /\ pass = "idle"
  /\ bridge = "starting" /\ gapDue = FALSE /\ tasks = {}
  /\ server = "none" /\ wire = {} /\ sock = "stopped" /\ opened = FALSE
  /\ fetch = "none" /\ seen = 0 /\ screen = [halt |-> 0, book |-> 0] /\ failed = FALSE
  /\ signedIn = FALSE /\ missed = FALSE /\ faults = 0

-----------------------------------------------------------------------------
(* What is announced. *)

\* _dispatch: a task for every message.
Dispatch(m) == tasks \cup {m}

\* publish: who listens gets it, and a bridge that has not subscribed yet owes
\* nobody a read.
Publish(m) ==
  /\ tasks' = IF bridge = "up" THEN Dispatch(m) ELSE tasks
  /\ missed' = (missed \/ bridge = "starting")

\* RedisKillSwitch writes the record and then announces it; an announcement that
\* fails is logged.
Halt ==
  /\ halt < MaxHalts /\ ~unsent /\ halt' = halt + 1 /\ unsent' = TRUE
  /\ UNCHANGED <<workerVars, api, link, page, signedIn, missed, faults>>
Announce ==
  /\ unsent /\ unsent' = FALSE
  /\ \/ Publish("halt") /\ UNCHANGED faults
     \/ Fault /\ missed' = TRUE /\ UNCHANGED tasks
  /\ UNCHANGED <<halt, workerVars, bridge, gapDue, link, page, signedIn>>

\* on_fill_event: the book, the announcement, and then the checkpoint, which does
\* not touch what the dashboard reads.
Fill ==
  /\ pass = "idle" /\ book < MaxFills /\ book' = book + 1 /\ pass' = "filling"
  /\ Publish("fill")
  /\ UNCHANGED <<switch, db, snap, bridge, gapDue, link, page, signedIn, faults>>
Checkpoint ==
  /\ pass = "filling" /\ pass' = "idle"
  /\ \/ db' = book /\ UNCHANGED faults
     \/ Fault /\ UNCHANGED db
  /\ UNCHANGED <<switch, book, snap, api, link, page, signedIn, missed>>

\* _persist: a write that fails ends the pass.
SaveBook ==
  /\ pass = "idle" /\ snap # book
  /\ \/ db' = book /\ pass' = "saved" /\ UNCHANGED faults
     \/ Fault /\ UNCHANGED <<db, pass>>
  /\ UNCHANGED <<switch, book, snap, api, link, page, signedIn, missed>>
\* A fault: the snapshot is published first.
MayPublishEarly == pass # "filling"
MayPublish == pass = "saved"
\* _publish_snapshot: a failure is logged.
PublishSnapshot ==
  /\ MayPublish /\ pass' = "idle"
  /\ \/ snap' = book /\ UNCHANGED faults
     \/ Fault /\ UNCHANGED snap
  /\ UNCHANGED <<switch, book, db, api, link, page, signedIn, missed>>
WorkerRestarts ==
  /\ Fault /\ book' = db /\ pass' = "idle"
  /\ UNCHANGED <<switch, db, snap, api, link, page, signedIn, missed>>

-----------------------------------------------------------------------------
(* The API: redis_bridge and ConnectionManager. *)

\* A fault: the gap is not announced.
GapAnnouncedNever == {}
\* _announce_gap
GapAnnounced == IF gapDue THEN {"gap"} ELSE {}

Subscribe ==
  /\ bridge \in {"starting", "down"} /\ bridge' = "up"
  /\ tasks' = tasks \cup GapAnnounced /\ gapDue' = FALSE
  /\ UNCHANGED <<switch, workerVars, link, page, signedIn, missed, faults>>

\* The subscription fails, or dies without a word.
BridgeFails ==
  /\ Fault /\ bridge # "down"
  /\ \/ bridge' = "down" /\ gapDue' = TRUE
     \/ bridge = "up" /\ bridge' = "deaf" /\ UNCHANGED gapDue
  /\ UNCHANGED <<switch, workerVars, tasks, link, page, signedIn, missed>>
\* LIVENESS_TIMEOUT_SECONDS
BridgeNotices ==
  /\ bridge = "deaf" /\ bridge' = "down" /\ gapDue' = TRUE
  /\ UNCHANGED <<switch, workerVars, tasks, link, page, signedIn, missed, faults>>

\* _wants: a halt or a gap is not something to opt into.
Wants(m) == server = "subscribed" \/ (server = "known" /\ m # "fill")

\* broadcast: a socket that will open again reads then; one that has never opened,
\* or that the API forgot and could not close, does not.
Broadcast(m) ==
  /\ m \in tasks /\ tasks' = tasks \ {m}
  /\ wire' = IF Wants(m) THEN wire \cup {m} ELSE wire
  /\ missed' = (missed \/ (server = "none" /\ (~opened \/ sock = "open")))
  /\ UNCHANGED <<switch, workerVars, bridge, gapDue, server, sock, opened, page, signedIn, faults>>

\* _hang_up
HungUp(s) == "closed"

\* A send that times out: the client is dropped and hung up on, if that works.
SendFails ==
  /\ Fault /\ wire # {} /\ server # "none" /\ server' = "none" /\ wire' = {}
  /\ \/ sock' = HungUp(sock) /\ missed' = (missed \/ ~opened)
     \/ sock' = sock /\ missed' = TRUE
  /\ UNCHANGED <<switch, workerVars, api, opened, page, signedIn>>

\* websocket_endpoint: 1008 for a session that is not valid, and the browser shows
\* the login screen.
Handshake ==
  /\ sock = "opening" /\ server = "none"
  /\ IF signedIn
     THEN server' = "known" /\ UNCHANGED <<sock, fetch>>
     ELSE sock' = "stopped" /\ fetch' = "none" /\ UNCHANGED server
  /\ UNCHANGED <<switch, workerVars, api, wire, opened, seen, screen, failed, signedIn, missed, faults>>
\* _handle
HandleSubscribe ==
  /\ sock = "open" /\ server = "known" /\ server' = "subscribed"
  /\ UNCHANGED <<switch, workerVars, api, wire, sock, opened, page, signedIn, missed, faults>>

\* The process restarts: its tasks, its record of the clients and down_since go.
ApiRestarts ==
  /\ Fault /\ bridge' = "starting" /\ gapDue' = FALSE /\ tasks' = {}
  /\ server' = "none" /\ wire' = {} /\ sock' = IF sock = "stopped" THEN sock ELSE "closed"
  /\ missed' = (missed \/ ~opened)
  /\ UNCHANGED <<switch, workerVars, opened, page, signedIn>>

-----------------------------------------------------------------------------
(* The browser: useDashboardStream and the dashboard query. *)

\* A message, a reconnection: the query is invalidated, and a read under way is
\* given up for a new one.
Invalidate == fetch' = "asked" /\ UNCHANGED <<seen, screen, failed>>

OnOpen ==
  /\ sock = "opening" /\ server # "none" /\ sock' = "open" /\ opened' = TRUE
  /\ IF opened THEN Invalidate ELSE UNCHANGED page
  /\ UNCHANGED <<switch, workerVars, api, server, wire, signedIn, missed, faults>>
OnMessage(m) ==
  /\ sock = "open" /\ m \in wire /\ wire' = wire \ {m} /\ Invalidate
  /\ UNCHANGED <<switch, workerVars, api, server, sock, opened, signedIn, missed, faults>>
OnClose ==
  /\ Fault /\ sock \in {"opening", "open"} /\ sock' = "closed" /\ server' = "none" /\ wire' = {}
  /\ missed' = (missed \/ ~opened)
  /\ UNCHANGED <<switch, workerVars, api, opened, page, signedIn>>
Reconnect ==
  /\ sock = "closed" /\ sock' = "opening"
  /\ UNCHANGED <<switch, workerVars, api, server, wire, opened, page, signedIn, missed, faults>>

\* The effect goes away with its socket, and comes back as one that never opened:
\* the read that a reconnection under way would have made is not made.
Remount ==
  /\ sock' = "opening" /\ opened' = FALSE /\ server' = "none" /\ wire' = {}
  /\ missed' = (missed \/ wire # {} \/ sock # "open")

\* get_live_dashboard reads the halts and then the book.
ReadHalts ==
  /\ fetch = "asked" /\ signedIn /\ fetch' = "halts" /\ seen' = halt /\ missed' = FALSE
  /\ UNCHANGED <<switch, workerVars, api, link, screen, failed, signedIn, faults>>
\* The subscription follows the symbols the book holds.
ReadBook ==
  /\ fetch = "halts" /\ fetch' = "none" /\ failed' = FALSE
  /\ screen' = [halt |-> seen, book |-> snap]
  /\ \/ screen.book # snap /\ Remount
     \/ UNCHANGED <<link, missed>>
  /\ UNCHANGED <<switch, workerVars, api, seen, signedIn, faults>>
\* After its retries a read that fails leaves the last answer and shows the error;
\* a session that has ended leads to the login screen.
ReadFails ==
  /\ fetch # "none" /\ fetch' = "none"
  /\ \/ /\ Fault /\ failed' = TRUE /\ UNCHANGED link
     \/ /\ ~signedIn /\ sock' = "stopped" /\ server' = "none" /\ wire' = {}
        /\ UNCHANGED <<opened, failed, faults>>
  /\ UNCHANGED <<switch, workerVars, api, seen, screen, signedIn, missed>>
\* The reader comes back to the tab, or presses the button.
Focus ==
  /\ sock # "stopped" /\ fetch = "none" /\ fetch' = "asked"
  /\ UNCHANGED <<switch, workerVars, api, link, seen, screen, failed, signedIn, missed, faults>>

\* useLogin mounts the stream, and the first read with it.
SignIn ==
  /\ sock = "stopped" /\ signedIn' = TRUE /\ sock' = "opening" /\ opened' = FALSE
  /\ server' = "none" /\ wire' = {} /\ fetch' = "asked" /\ failed' = FALSE
  /\ UNCHANGED <<switch, workerVars, api, seen, screen, missed, faults>>
\* useLogout clears what was fetched.
SignOut ==
  /\ sock # "stopped" /\ signedIn' = FALSE /\ sock' = "stopped"
  /\ server' = "none" /\ wire' = {} /\ fetch' = "none"
  /\ screen' = [halt |-> 0, book |-> 0]
  /\ UNCHANGED <<switch, workerVars, api, opened, seen, failed, missed, faults>>
SessionExpires ==
  /\ signedIn /\ signedIn' = FALSE
  /\ UNCHANGED <<switch, workerVars, api, link, page, missed, faults>>

Messages == {"halt", "fill", "gap"}

ViewNext ==
  \/ Halt \/ Announce \/ Fill \/ Checkpoint \/ SaveBook \/ PublishSnapshot \/ WorkerRestarts
  \/ Subscribe \/ BridgeFails \/ BridgeNotices \/ SendFails \/ Handshake \/ HandleSubscribe
  \/ ApiRestarts \/ OnOpen \/ OnClose \/ Reconnect \/ ReadHalts \/ ReadBook \/ ReadFails
  \/ Focus \/ SignIn \/ SignOut \/ SessionExpires
  \/ \E m \in Messages : Broadcast(m) \/ OnMessage(m)

\* Timers and event loops run on: what is pending is done, unless it is undone.
ViewFairness ==
  /\ WF_viewVars(Announce) /\ WF_viewVars(Subscribe) /\ WF_viewVars(BridgeNotices)
  /\ WF_viewVars(Handshake) /\ WF_viewVars(OnOpen) /\ WF_viewVars(Reconnect)
  /\ WF_viewVars(ReadHalts) /\ WF_viewVars(ReadBook) /\ WF_viewVars(ReadFails /\ ~signedIn)
  /\ \A m \in Messages : WF_viewVars(Broadcast(m)) /\ WF_viewVars(OnMessage(m))

ViewSpec == ViewInit /\ [][ViewNext]_viewVars /\ ViewFairness

-----------------------------------------------------------------------------
(* Properties. *)

\* A halt, or its end, comes to be shown over any run of dropped sockets, dead
\* subscriptions and restarts; or the screen shows an error or the login; or the
\* announcement was lost where nothing owes a read (redis_bridge, _hang_up,
\* useDashboardStream).
HaltIsShown ==
  (screen.halt # halt) ~> (screen.halt = halt \/ missed \/ failed \/ sock = "stopped")

\* The screen never shows a fill the database does not have, whichever writes
\* fail and whenever the worker dies (_persist, _publish_snapshot).
ShownIsStored == screen.book <= db

=============================================================================
