----------------------------- MODULE KillSwitch -----------------------------
(***************************************************************************)
(* The kill switch kept in Redis (risk/killswitch.py, RedisKillSwitch) and *)
(* everyone who writes it: engagers in several processes (the worker, the  *)
(* API, scripts/halt.py), operators who clear, and the session rollover of *)
(* the worker's scheduler, the one automated clear of the platform.        *)
(*                                                                         *)
(* Every Redis command is atomic; what lies between two commands of one    *)
(* call is not.  `engage` is SET NX, else GET, merge, compare-and-set, for *)
(* at most MaxAttempts rounds.                                             *)
(*                                                                         *)
(* Data: an impugnment is the set of symbols it names; `engaged_at` is     *)
(* whether it lies before today; the rest of a record's text is left out.  *)
(* Two encodings written at different times are different bytes, so `raw`  *)
(* still matches the store only while nobody has written the key since the *)
(* GET: `fresh` keeps that.                                                *)
(***************************************************************************)
EXTENDS FiniteSets, Naturals

CONSTANTS Engagers,      \* concurrent callers of engage
          Keys,          \* halt keys: global, strategy:<id>, symbol:<name>
          Symbols,       \* tradable symbols
          Requests,      \* the engages callers may ask for
          MaxAttempts    \* _MAX_ENGAGE_ATTEMPTS

DailyLossRule == "daily_loss_limit"     \* the engaged_by of the risk chain

HaltReason == {"manual", "daily_loss_limit", "reconciliation_mismatch",
               "data_feed_lost", "broker_unreachable", "rate_limit_storm",
               "unhandled_exception"}

Actors == {DailyLossRule, "human", "automation"}

Request == [key : Keys, reason : HaltReason, by : Actors,
            symbols : SUBSET Symbols]

HaltRecord == [reason : HaltReason, engaged_by : Actors,
               engaged_at : {"today", "earlier"},
               impugned : SUBSET Symbols]

NoHalt == [reason |-> "none"]
NoRequest == [key |-> "none"]

ASSUME MaxAttemptsAssumption == MaxAttempts \in Nat \ {0}
ASSUME RequestsAssumption == Requests \subseteq Request

VARIABLES
  store,     \* store[k]: the record at key k, or NoHalt
  pc,        \* pc[e]: the Redis command e issues next, or how its call ended
  req,       \* req[e]: what e was asked to engage
  attempt,   \* attempt[e]: e's round, counted from 1
  raw,       \* raw[e]: the record e's GET returned
  fresh,     \* the engagers whose raw is still the bytes in the store
  snapshot,  \* snapshot[k]: what the rollover read at k and has yet to judge
  owed,      \* owed[k]: symbols callers were told stand at k  (auxiliary)
  told       \* told[k]: reasons callers were told stand at k  (auxiliary)

callVars == <<pc, req, attempt, raw>>
auxVars == <<owed, told>>
vars == <<store, callVars, fresh, snapshot, auxVars>>

\* A call that raised KillSwitchUnavailableError rests in what it claimed.
Resting == {"idle", "halt_stands", "nothing_recorded"}

\* Type correctness.
TypeOK ==
  /\ store \in [Keys -> HaltRecord \cup {NoHalt}]
  /\ pc \in [Engagers -> Resting \cup {"set", "get", "cas"}]
  /\ req \in [Engagers -> Requests \cup {NoRequest}]
  /\ attempt \in [Engagers -> 1..MaxAttempts]
  /\ raw \in [Engagers -> HaltRecord \cup {NoHalt}]
  /\ fresh \subseteq Engagers
  /\ snapshot \in [Keys -> HaltRecord \cup {NoHalt}]
  /\ owed \in [Keys -> SUBSET Symbols]
  /\ told \in [Keys -> SUBSET HaltReason]
  /\ \A e \in Engagers : pc[e] \notin Resting => req[e] # NoRequest
  /\ \A e \in fresh : pc[e] = "cas" /\ raw[e] # NoHalt

Init ==
  /\ store = [k \in Keys |-> NoHalt]
  /\ pc = [e \in Engagers |-> "idle"]
  /\ req = [e \in Engagers |-> NoRequest]
  /\ attempt = [e \in Engagers |-> 1]
  /\ raw = [e \in Engagers |-> NoHalt]
  /\ fresh = {}
  /\ snapshot = [k \in Keys |-> NoHalt]
  /\ owed = [k \in Keys |-> {}]
  /\ told = [k \in Keys |-> {}]

-----------------------------------------------------------------------------
Unproven(rec) == IF rec = NoHalt THEN {} ELSE rec.impugned

\* The record a request writes when nothing stands.
NewRecord(r) == [reason |-> r.reason, engaged_by |-> r.by,
                 engaged_at |-> "today", impugned |-> r.symbols]

\* Fault: the first halt stands and later evidence is thrown away.
MergeDropsEvidence(existing, r) == existing

\* Fault: a later incident replaces the evidence instead of adding to it.
MergeOverwrites(existing, r) ==
  IF r.symbols \subseteq existing.impugned THEN existing
  ELSE [existing EXCEPT !.impugned = r.symbols, !.reason = r.reason]

\* _merge: who engaged and when never move; evidence is only added; the
\* reason moves once, with the first evidence.
Merge(existing, r) ==
  IF r.symbols \subseteq existing.impugned THEN existing
  ELSE [existing EXCEPT !.impugned = @ \cup r.symbols,
                        !.reason = IF existing.impugned = {}
                                   THEN r.reason ELSE @]

\* A write to key k makes what every engager has read of k stale.
Write(k, rec) ==
  /\ store' = [store EXCEPT ![k] = rec]
  /\ fresh' = {e \in fresh : req[e].key # k}

\* e's call is over, and its locals with it.
End(e, how) ==
  /\ pc' = [pc EXCEPT ![e] = how]
  /\ req' = [req EXCEPT ![e] = NoRequest]
  /\ attempt' = [attempt EXCEPT ![e] = 1]
  /\ raw' = [raw EXCEPT ![e] = NoHalt]

\* It returns normally: its caller now believes the request stands at its key.
Return(e) ==
  /\ End(e, "idle")
  /\ owed' = [owed EXCEPT ![req[e].key] = @ \cup req[e].symbols]
  /\ told' = [told EXCEPT ![req[e].key] = @ \cup {req[e].reason}]

\* It raises: nothing is promised.
Raise(e, how) == End(e, how) /\ UNCHANGED auxVars

\* Another round, or KillSwitchUnavailableError once the rounds are used up.
\* What the error claims is what the last GET saw.
RetryOrRaise(e, claim) ==
  IF attempt[e] < MaxAttempts
  THEN /\ pc' = [pc EXCEPT ![e] = "set"]
       /\ attempt' = [attempt EXCEPT ![e] = @ + 1]
       /\ raw' = [raw EXCEPT ![e] = NoHalt]
       /\ UNCHANGED <<req, auxVars>>
  ELSE Raise(e, claim)

-----------------------------------------------------------------------------
\* engage is called.
Call(e, r) ==
  /\ pc[e] \in Resting
  /\ pc' = [pc EXCEPT ![e] = "set"]
  /\ req' = [req EXCEPT ![e] = r]
  /\ UNCHANGED <<store, attempt, raw, fresh, snapshot, auxVars>>

\* SET NX: an empty key takes the whole record in one round trip.
SetNX(e) ==
  /\ pc[e] = "set"
  /\ \/ /\ store[req[e].key] = NoHalt
        /\ Write(req[e].key, NewRecord(req[e]))
        /\ Return(e)
     \/ /\ store[req[e].key] # NoHalt
        /\ pc' = [pc EXCEPT ![e] = "get"]
        /\ UNCHANGED <<store, req, attempt, raw, fresh, auxVars>>
  /\ UNCHANGED snapshot

\* GET, after losing the SET: gone again, already covered, or to be merged.
Get(e) ==
  LET found == store[req[e].key] IN
  /\ pc[e] = "get"
  /\ \/ /\ found = NoHalt
        /\ RetryOrRaise(e, "nothing_recorded")
        /\ UNCHANGED fresh
     \/ /\ found # NoHalt /\ Merge(found, req[e]) = found
        /\ Return(e)
        /\ UNCHANGED fresh
     \/ /\ found # NoHalt /\ Merge(found, req[e]) # found
        /\ pc' = [pc EXCEPT ![e] = "cas"]
        /\ raw' = [raw EXCEPT ![e] = found]
        /\ fresh' = fresh \cup {e}
        /\ UNCHANGED <<req, attempt, auxVars>>
  /\ UNCHANGED <<store, snapshot>>

\* Fault: a plain SET of the merged record instead of a compare-and-set.
SetBlindly(e) ==
  /\ pc[e] = "cas"
  /\ Write(req[e].key, Merge(raw[e], req[e]))
  /\ Return(e)
  /\ UNCHANGED snapshot

\* _CAS: the merged record lands only on the bytes the GET returned.
Cas(e) ==
  LET k == req[e].key IN
  /\ pc[e] = "cas"
  /\ \/ /\ e \in fresh
        /\ Write(k, Merge(raw[e], req[e]))
        /\ Return(e)
     \/ /\ e \notin fresh
        /\ RetryOrRaise(e, "halt_stands")
        /\ UNCHANGED <<store, fresh>>
  /\ UNCHANGED snapshot

\* The store does not answer e, or e's process dies: the command may have been
\* applied before the reply was lost, and the exception propagates.
StoreError(e) ==
  LET k == req[e].key IN
  /\ pc[e] \notin Resting
  /\ \/ fresh' = fresh \ {e} /\ UNCHANGED store
     \/ pc[e] = "set" /\ store[k] = NoHalt /\ Write(k, NewRecord(req[e]))
     \/ pc[e] = "cas" /\ e \in fresh /\ Write(k, Merge(raw[e], req[e]))
  /\ Raise(e, "idle")
  /\ UNCHANGED snapshot

-----------------------------------------------------------------------------
\* _GETDEL: the record goes, and with it everything callers were told.
GetDel(k) ==
  /\ Write(k, NoHalt)
  /\ owed' = [owed EXCEPT ![k] = {}]
  /\ told' = [told EXCEPT ![k] = {}]

\* A named human clears the halt on k (POST /risk/halt/clear, scripts/halt.py).
OperatorClear(k) ==
  /\ store[k] # NoHalt
  /\ GetDel(k)
  /\ UNCHANGED <<callVars, snapshot>>

\* What rollover_daily_counters may release, judged on the record it read.
Releasable(rec) ==
  /\ rec # NoHalt
  /\ rec.impugned = {}
  /\ rec.reason = "daily_loss_limit"
  /\ rec.engaged_by = DailyLossRule
  /\ rec.engaged_at = "earlier"

\* rollover_daily_counters reads every active halt in one MGET ...
RolloverRead ==
  /\ snapshot = [k \in Keys |-> NoHalt]
  /\ \E k \in Keys : store[k] # NoHalt
  /\ snapshot' = store
  /\ UNCHANGED <<store, callVars, fresh, auxVars>>

\* ... and then judges them one by one, clearing by key what it may release.
RolloverJudge(k) ==
  /\ snapshot[k] # NoHalt
  /\ snapshot' = [snapshot EXCEPT ![k] = NoHalt]
  /\ \/ Releasable(snapshot[k]) /\ GetDel(k)
     \/ ~Releasable(snapshot[k]) /\ UNCHANGED <<store, fresh, auxVars>>
  /\ UNCHANGED callVars

\* Midnight: every standing halt now dates from an earlier day.  A rollover
\* under way took its own `now` before it read, so its snapshot keeps its dates.
NewDay ==
  /\ \E k \in Keys : store[k] # NoHalt /\ store[k].engaged_at = "today"
  /\ store' = [k \in Keys |->
                 IF store[k] = NoHalt THEN NoHalt
                 ELSE [store[k] EXCEPT !.engaged_at = "earlier"]]
  /\ raw' = [e \in Engagers |->
               IF raw[e] = NoHalt THEN NoHalt
               ELSE [raw[e] EXCEPT !.engaged_at = "earlier"]]
  /\ UNCHANGED <<pc, req, attempt, fresh, snapshot, auxVars>>

EngagerStep(e) == SetNX(e) \/ Get(e) \/ Cas(e) \/ StoreError(e)

Next ==
  \/ \E e \in Engagers : EngagerStep(e) \/ \E r \in Requests : Call(e, r)
  \/ \E k \in Keys : OperatorClear(k) \/ RolloverJudge(k)
  \/ RolloverRead
  \/ NewDay

Spec == Init /\ [][Next]_vars

-----------------------------------------------------------------------------
\* Whoever was told a halt stands is right until somebody clears it: the key
\* is halted and every symbol a returned engage named is still impugned there,
\* however many engagers raced on the key (killswitch.py engage, _CAS).
EvidenceStands ==
  \A k \in Keys :
    /\ owed[k] \subseteq Unproven(store[k])
    /\ told[k] # {} => store[k] # NoHalt

\* One step keeps what a standing halt says of itself.
KeepsRecord(k) ==
  store[k] # NoHalt /\ store'[k] # NoHalt =>
    /\ store'[k].engaged_by = store[k].engaged_by
    /\ store[k].engaged_at = "earlier" => store'[k].engaged_at = "earlier"
    /\ store[k].impugned \subseteq store'[k].impugned
    /\ store'[k].reason # store[k].reason =>
         store[k].impugned = {} /\ store'[k].impugned # {}

\* A standing halt is a one-way latch: no step rewrites who engaged it, none
\* drops evidence, and its reason moves only together with the first evidence
\* (killswitch.py _merge).
OneWayLatch == [][\A k \in Keys : KeepsRecord(k)]_vars

\* The switch implements the latch it promises to be, whatever interleaving
\* of rounds, lost replies, clears and rollovers happens.
Latch == INSTANCE HaltLatch WITH
           halted <- [k \in Keys |-> store[k] # NoHalt],
           unproven <- [k \in Keys |-> Unproven(store[k])],
           acknowledged <- owed
ImplementsLatch == Latch!Spec

=============================================================================
