----------------------------- MODULE MarketFeed -----------------------------
(***************************************************************************)
(* The live market data of a worker: the feed's reconnect loop             *)
(* (data/providers/alpaca.py, ws.py), the ingestor that stores bars and    *)
(* fills the gap a reconnect leaves (data/stream.py, data/backfill.py),    *)
(* the monitor that halts trading on silence (data/stream.py), and the     *)
(* nightly sweep for what is still missing (data/gaps.py, scheduler.py).   *)
(*                                                                         *)
(* Time is a count of ticks, Step of them to a bar; bar b covers           *)
(* [b * Step, (b + 1) * Step).  The monitor polls, and a feed that is down *)
(* retries, once a tick.  The venue's tape may stop: it then prints no     *)
(* bars.  The bar of a slot is sent some time after the slot has ended, so *)
(* a quote of the next one may come first.  The worker may die at any time *)
(* and is started again; bars are in a table that outlives it.             *)
(*                                                                         *)
(* One symbol.  Quotes, publishing and metrics keep no state here.         *)
(***************************************************************************)
EXTENDS Integers, FiniteSets, FiniteSetsExt, Sequences

CONSTANTS Step, OpenAt, CloseAt, MaxTime,
          MaxSilence,   \* StalenessMonitor.max_silence_seconds
          Budget,       \* RECONNECT_BUDGET_SECONDS
          MinHealthy,   \* MIN_HEALTHY_UPTIME_SECONDS
          MaxBackfill,  \* MAX_RECONNECT_BACKFILL
          MaxGaps,      \* DEFAULT_MAX_GAPS_PER_SYMBOL
          MaxFaults     \* bound on drops, outages, crashes and failed calls

ASSUME FeedAssumption ==
  /\ Step \in Nat \ {0} /\ OpenAt \in Nat /\ CloseAt \in Nat /\ MaxTime \in Nat
  /\ OpenAt % Step = 0 /\ CloseAt % Step = 0 /\ OpenAt < CloseAt /\ CloseAt <= MaxTime
  /\ MaxSilence \in Nat /\ Budget \in Nat /\ MinHealthy \in Nat
  /\ MaxBackfill \in Nat /\ MaxBackfill % Step = 0 /\ MaxGaps \in Nat /\ MaxFaults \in Nat

None == -1

VARIABLES
  now, polled, tried,
  phase,     \* of the worker: "down", "connecting", "backfill" or "live"
  feed,      \* the stream generator: gap_since, reconnecting, first_failure_at, connected_at
  stats,     \* IngestorStats: last_message_at, storage_watermark, connected_since
  repair,    \* the window a reconnect asks for, and when it reconnected
  alerted,   \* StalenessMonitor._alerted
  halted,    \* DATA_FEED_LOST is engaged
  stored,    \* the bar table
  sweep,     \* the nightly job's report
  tape, printed, due,  \* the venue: sending, the bars it printed, the bar it has yet to send
  known,     \* bars the code said it gave up on, and the bar a drop left unsent
  origin,    \* from when on this process answers for the history
  good,      \* the last instant data is known to have arrived, by any process
  trouble,   \* since when no connection of this process has held
  faults

vars == <<now, polled, tried, phase, feed, stats, repair, alerted, halted, stored, sweep,
          tape, printed, due, known, origin, good, trouble, faults>>
venue == <<tape, printed, due>>
history == <<known, origin, good, trouble>>

NoFeed == [gap |-> None, reconnecting |-> FALSE, first |-> None, at |-> None]
NoStats == [last |-> None, watermark |-> None, since |-> None]
NoRepair == [from |-> None, to |-> None, at |-> None]

Init ==
  /\ now = 0 /\ polled = FALSE /\ tried = FALSE /\ phase = "down"
  /\ feed = NoFeed /\ stats = NoStats /\ repair = NoRepair
  /\ alerted = FALSE /\ halted = FALSE /\ stored = {} /\ sweep = [done |-> FALSE, left |-> {}]
  /\ tape = TRUE /\ printed = {} /\ due = {}
  /\ known = {} /\ origin = None /\ good = None /\ trouble = None /\ faults = 0

Fault == faults < MaxFaults /\ faults' = faults + 1
Least(a, b) == IF a < b THEN a ELSE b
Most(a, b) == IF a > b THEN a ELSE b
FloorToGrid(t) == t - (t % Step)
EndOf(b) == (b + 1) * Step
BarsIn(from, to) == {b \in 0..(MaxTime \div Step) : b * Step >= from /\ EndOf(b) <= to}
MarketOpen == OpenAt <= now /\ now < CloseAt

-----------------------------------------------------------------------------
(* The worker's life. *)

\* The newest bar the table has, by when it closed (_read_storage_watermark).
StorageWatermark == IF stored = {} THEN None ELSE EndOf(Max(stored))

\* StreamIngestor.run: a table that cannot be read leaves no watermark.
Start ==
  /\ phase = "down" /\ now < CloseAt /\ phase' = "connecting" /\ tried' = FALSE /\ polled' = FALSE
  /\ \/ stats' = [last |-> None, watermark |-> StorageWatermark, since |-> now] /\ UNCHANGED faults
     \/ Fault /\ stored # {} /\ stats' = [last |-> None, watermark |-> None, since |-> now]
  /\ feed' = [gap |-> now, reconnecting |-> FALSE, first |-> None, at |-> None]
  /\ alerted' = FALSE /\ repair' = NoRepair /\ origin' = None /\ trouble' = None
  /\ UNCHANGED <<now, halted, stored, sweep, venue, known, good>>

\* What a process knew goes with it.
Stops ==
  /\ phase' = "down" /\ feed' = NoFeed /\ stats' = NoStats /\ repair' = NoRepair
  /\ alerted' = FALSE /\ origin' = None /\ trouble' = None

Crash ==
  /\ phase # "down" /\ Fault /\ Stops
  /\ UNCHANGED <<now, polled, tried, halted, stored, sweep, venue, known, good>>

-----------------------------------------------------------------------------
(* AlpacaRealtimeFeed._stream. *)

\* A fault: a connection that held for a moment was a connection.
IsFlapNever(at) == FALSE
IsFlap(at) == now - at < MinHealthy

BudgetExhausted(first) == now - first >= Budget

\* The loop's bookkeeping of a failed attempt: it gives up, which halts trading
\* and ends the worker, or waits for the next tick.
Failed(gap) ==
  LET first == IF feed.first = None THEN now ELSE feed.first IN
  \/ /\ BudgetExhausted(first) /\ halted' = TRUE /\ Stops /\ UNCHANGED tried
  \/ /\ ~BudgetExhausted(first) /\ phase' = "connecting" /\ tried' = TRUE
     /\ feed' = [gap |-> gap, reconnecting |-> TRUE, first |-> first, at |-> None]
     /\ trouble' = IF trouble = None THEN now ELSE trouble
     /\ UNCHANGED <<stats, repair, alerted, halted, origin>>

OpenFails ==
  /\ phase = "connecting" /\ ~tried /\ Fault
  /\ Failed(feed.gap)
  /\ UNCHANGED <<now, polled, stored, sweep, venue, known, good>>

\* An authentication or plan error is not retried.
OpenRefused ==
  /\ phase = "connecting" /\ ~tried /\ Fault
  /\ halted' = TRUE /\ Stops
  /\ UNCHANGED <<now, polled, tried, stored, sweep, venue, known, good>>

\* A fault: only the feed's own marker is asked where the gap began.
GapStartOfFeed(known_good) == FloorToGrid(feed.gap)

\* _backfill_gap: the feed's marker or the last known data, the earlier.
GapStart(known_good) ==
  IF known_good = None THEN FloorToGrid(feed.gap)
  ELSE Least(FloorToGrid(feed.gap), FloorToGrid(known_good))

\* The first connection of a process asks for nothing; a reconnection asks for
\* the window before anything of the new connection is handled.
Open ==
  /\ phase = "connecting" /\ ~tried
  /\ LET from == GapStart(Most(stats.watermark, stats.last))
         to == FloorToGrid(now)
         start == Most(from, FloorToGrid(to - MaxBackfill))
     IN IF feed.reconnecting
        THEN /\ phase' = "backfill" /\ feed' = [feed EXCEPT !.reconnecting = FALSE]
             /\ repair' = [from |-> start, to |-> to, at |-> now]
             /\ known' = known \cup BarsIn(from, start)
             /\ origin' = IF origin # None THEN origin
                          ELSE IF stats.watermark # None THEN FloorToGrid(stats.watermark)
                          ELSE FloorToGrid(stats.since)
             /\ stats' = [stats EXCEPT !.since = now]
        ELSE /\ phase' = "live" /\ feed' = [feed EXCEPT !.at = now]
             /\ origin' = FloorToGrid(now) /\ UNCHANGED <<repair, known, stats>>
  /\ UNCHANGED <<now, polled, tried, alerted, halted, stored, sweep, venue, good, trouble, faults>>

\* _GapRepair.recovered_the_window
Recovered(got) == got # {}

\* AlpacaHistoricalProvider.get_bars over a window, every page of it.
Fetch(window) == window \cap printed
\* PostgresBarRepository.upsert_bars
UpsertBars(bars) == stored' = stored \cup bars

\* The fetch of the window, or an error, which halts.  The watermark moves only
\* on data that came back.
Backfilled ==
  /\ phase = "backfill" /\ phase' = "live" /\ repair' = NoRepair
  /\ feed' = [feed EXCEPT !.at = now]
  /\ LET window == BarsIn(repair.from, repair.to)
         got == Fetch(window)
     IN \/ /\ UpsertBars(got)
           /\ stats' = IF Recovered(got) THEN [stats EXCEPT !.watermark = repair.at] ELSE stats
           /\ good' = IF got # {} THEN Most(good, repair.at) ELSE good
           /\ UNCHANGED <<halted, known, faults>>
        \/ /\ window # {} /\ Fault /\ halted' = TRUE /\ known' = known \cup window
           /\ UNCHANGED <<stored, stats, good>>
  /\ UNCHANGED <<now, polled, tried, alerted, sweep, venue, origin, trouble>>

\* A frame of the connection: every one is handled after the backfill.
Heard ==
  /\ stats' = [stats EXCEPT !.last = now] /\ feed' = [feed EXCEPT !.gap = now] /\ good' = now

Quote ==
  /\ phase = "live" /\ tape /\ MarketOpen /\ stats.last # now /\ Heard
  /\ UNCHANGED <<now, polled, tried, phase, repair, alerted, halted, stored, sweep, venue,
                 known, origin, trouble, faults>>

Bar ==
  /\ phase = "live" /\ due # {} /\ Heard
  /\ UpsertBars(due) /\ due' = {}
  /\ UNCHANGED <<now, polled, tried, phase, repair, alerted, halted, sweep, tape, printed,
                 known, origin, trouble, faults>>

\* The socket closes, or a frame cannot be parsed.  A connection that held
\* clears the count of failures, one that did not is another failure.
Drop ==
  /\ phase = "live" /\ Fault
  /\ known' = known \cup due
  /\ \/ IsFlap(feed.at) /\ Failed(feed.gap)
     \/ /\ ~IsFlap(feed.at) /\ phase' = "connecting" /\ tried' = FALSE
        /\ feed' = [feed EXCEPT !.reconnecting = TRUE, !.first = None, !.at = None]
        /\ trouble' = IF now - feed.at >= MinHealthy THEN None
                      ELSE IF trouble = None THEN now ELSE trouble
        /\ UNCHANGED <<stats, repair, alerted, halted, origin>>
  /\ due' = {}
  /\ UNCHANGED <<now, polled, stored, sweep, tape, printed, good>>

-----------------------------------------------------------------------------
(* StalenessMonitor.watch, once a tick. *)

\* A fault: a worker that has just started says data was fine until then.
BaselineOfProcess == Most(OpenAt, Most(stats.since, Most(stats.last, stats.watermark)))

\* evaluate: silence since the latest of the open, the last frame and the
\* watermark; since the worker's start only if neither is known.
Baseline ==
  Most(OpenAt, IF stats.last = None /\ stats.watermark = None THEN stats.since
               ELSE Most(stats.last, stats.watermark))
Stale == MarketOpen /\ now - Baseline > MaxSilence
DataIsCurrent ==
  MarketOpen /\ stats.last # None /\ stats.last >= OpenAt /\ now - stats.last <= MaxSilence

Poll ==
  /\ phase # "down" /\ ~polled /\ polled' = TRUE
  /\ \/ Stale /\ alerted' = TRUE /\ halted' = (halted \/ ~alerted)
     \/ ~Stale /\ (~MarketOpen \/ DataIsCurrent) /\ alerted' = FALSE /\ UNCHANGED halted
     \/ ~Stale /\ MarketOpen /\ ~DataIsCurrent /\ UNCHANGED <<alerted, halted>>
  /\ UNCHANGED <<now, tried, phase, feed, stats, repair, stored, sweep, venue, history, faults>>

-----------------------------------------------------------------------------
(* backfill_missing_bars, after the close. *)

\* scan_gaps: the runs of expected bars that are not stored.
Expected == BarsIn(OpenAt, Least(now, CloseAt))
Missing == Expected \ stored
GapStarts == {b \in Missing : (b - 1) \notin Missing}
RunFrom(b) == {c \in Missing : c >= b /\ (b..c) \subseteq Missing}

\* What is left is what the table says, not what was fetched.
Remaining(attempted, after) == Expected \ after

\* backfill_gaps: the first MaxGaps of them are asked for, one request each.
Attempted ==
  CHOOSE attempted \in SUBSET GapStarts :
    /\ Cardinality(attempted) = Least(MaxGaps, Cardinality(GapStarts))
    /\ \A a \in attempted, b \in GapStarts \ attempted : a < b

Sweep ==
  /\ now >= CloseAt /\ phase # "down" /\ ~sweep.done
  /\ LET found == Fetch(UNION {RunFrom(b) : b \in Attempted})
     IN /\ UpsertBars(found)
        /\ sweep' = [done |-> TRUE, left |-> Remaining(Attempted, stored \cup found)]
  /\ UNCHANGED <<now, polled, tried, phase, feed, stats, repair, alerted, halted, venue, history, faults>>

-----------------------------------------------------------------------------
(* The venue and the clock. *)

TapeStops ==
  /\ tape /\ Fault /\ tape' = FALSE
  /\ UNCHANGED <<now, polled, tried, phase, feed, stats, repair, alerted, halted, stored, sweep,
                 printed, due, history>>
TapeResumes ==
  /\ ~tape /\ tape' = TRUE
  /\ UNCHANGED <<now, polled, tried, phase, feed, stats, repair, alerted, halted, stored, sweep,
                 printed, due, history, faults>>

\* A connection delivers a bar before the next one ends; a reader that is still
\* filling a gap finds it when it is done.
Tick ==
  /\ now < MaxTime /\ now' = now + 1 /\ polled' = FALSE /\ tried' = FALSE
  /\ phase # "down" => polled
  /\ phase = "connecting" => tried
  /\ LET ends == now' % Step = 0 /\ tape /\ OpenAt < now' /\ now' <= CloseAt
         b == (now' \div Step) - 1
     IN /\ (phase = "live" /\ now' % Step = 0) => due = {}
        /\ printed' = IF ends THEN printed \cup {b} ELSE printed
        /\ due' = IF ends /\ phase \in {"backfill", "live"} THEN due \cup {b} ELSE due
  /\ UNCHANGED <<phase, feed, stats, repair, alerted, halted, stored, sweep, tape, history, faults>>

Next ==
  \/ Start \/ Crash \/ OpenFails \/ OpenRefused \/ Open \/ Backfilled \/ Quote \/ Bar \/ Drop
  \/ Poll \/ Sweep \/ TapeStops \/ TapeResumes \/ Tick

Spec == Init /\ [][Next]_vars

-----------------------------------------------------------------------------
(* Properties. *)

\* Types: what is printed has ended and what is stored was printed, nothing this
\* process knows is from the future, and what it took for data is data that
\* arrived.
Times == {None} \cup 0..now
TypeOK ==
  /\ now \in 0..MaxTime /\ {polled, tried, alerted, halted, tape} \subseteq BOOLEAN
  /\ phase \in {"down", "connecting", "backfill", "live"}
  /\ feed \in [gap : Times, reconnecting : BOOLEAN, first : Times, at : Times]
  /\ stats \in [last : Times, watermark : Times, since : Times]
  /\ repair \in [from : Int, to : Int, at : Times]
  /\ {origin, good, trouble} \subseteq Times
  /\ stored \subseteq printed /\ due \subseteq printed
  /\ \A b \in printed : b \in Nat /\ EndOf(b) <= now
  /\ Most(stats.last, stats.watermark) <= good

\* A hole in the history is not silent: a bar the venue printed while this
\* process answers for the history is in the table once the process is
\* connected, or the code has said that it could not get it; or it is the bar
\* that had ended but not been sent when a connection dropped (_stream,
\* _on_reconnect, _backfill_gap).
HolesAreKnown ==
  phase = "live" =>
    \A b \in printed \ (stored \cup due) : b * Step >= origin => b \in known

\* Silence stops trading however often the worker is restarted in it: once the
\* monitor has polled in a session, and no process has had data for longer than
\* MaxSilence, an outage is on and trading is halted (evaluate, watch).
SilenceHalts ==
  /\ polled /\ phase # "down" /\ MarketOpen
  /\ stats.last # None \/ stats.watermark # None
  /\ now - Most(OpenAt, good) > MaxSilence
  => alerted /\ halted

\* A feed that never holds is given up on: retrying, or a venue that accepts and
\* hangs up, goes on for less than the budget since the last connection that
\* held (budget_exhausted, is_flap).
OutageIsBounded == phase = "connecting" /\ tried => now - trouble < Budget

=============================================================================
