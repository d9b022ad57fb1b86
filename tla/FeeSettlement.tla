--------------------------- MODULE FeeSettlement ----------------------------
(***************************************************************************)
(* Settling the venue's fees against our cash (execution/fees.py), over a  *)
(* ledger of the charges seen (persistence/fees.py) and a book that is     *)
(* stored now and then (persistence/positions.py).                         *)
(*                                                                         *)
(* reconcile settles before it compares, and several tasks reconcile: the  *)
(* five-minute job, the trade-updates consumer, warmup.  Each one reads    *)
(* the venue's feed, records what it read and learns the ledger's total,   *)
(* and then corrects the book, with other tasks between any two of these.  *)
(*                                                                         *)
(* Data: cash is counted from the account's balance before any fee, and    *)
(* only fees move it.                                                      *)
(***************************************************************************)
EXTENDS Integers

CONSTANTS Fees,        \* the charges the venue may book
          Total,       \* Total[S]: what the charges in S come to
          Settlers,    \* the tasks that reconcile
          MaxCrashes   \* bound on crashes of the worker

ASSUME TotalAssumption ==
  /\ Total \in [SUBSET Fees -> Nat]
  /\ \A S, T \in SUBSET Fees : S \subseteq T => Total[S] <= Total[T]
ASSUME EmptyTotalAssumption == Total[{}] = 0
ASSUME MaxCrashesAssumption == MaxCrashes \in Nat

VARIABLES
  charged,   \* charges the venue has booked
  aged,      \* those too old for the lookback window
  ledger,    \* broker_fees: the charges seen
  portfolio, \* Portfolio: cash and fees_settled
  disk,      \* the newest equity snapshot: cash and fees_settled
  at,        \* at[s]: where settler s is
  swept,     \* swept[s]: the charges it read
  total,     \* total[s]: the ledger's total, as it was told
  up,        \* the worker is alive
  crashes    \* crashes so far

feeVars == <<charged, aged, ledger, portfolio, disk, at, swept, total, up, crashes>>

Book == [cash : Int, settled : Nat]
Level == [cash |-> 0, settled |-> 0]
Restarted == [s \in Settlers |-> "idle"]

FeeInit ==
  /\ charged = {} /\ aged = {} /\ ledger = {}
  /\ portfolio = Level /\ disk = Level
  /\ at = Restarted
  /\ swept = [s \in Settlers |-> {}]
  /\ total = [s \in Settlers |-> 0]
  /\ up = TRUE /\ crashes = 0

-----------------------------------------------------------------------------
(* The venue (external). *)

\* What the venue says our cash is.
AccountCash == -Total[charged]

Charge(f) ==
  /\ f \notin charged
  /\ charged' = charged \cup {f}
  /\ UNCHANGED <<aged, ledger, portfolio, disk, at, swept, total, up, crashes>>

\* Time passes: f is older than the days a sweep asks for.
Age(f) ==
  /\ f \in charged \ aged
  /\ aged' = aged \cup {f}
  /\ UNCHANGED <<charged, ledger, portfolio, disk, at, swept, total, up, crashes>>

-----------------------------------------------------------------------------
(* settle_broker_fees.  A sweep the venue does not answer changes nothing. *)

ReadFees(s) ==
  /\ up /\ at[s] = "idle"
  /\ swept' = [swept EXCEPT ![s] = charged \ aged]
  /\ at' = [at EXCEPT ![s] = "read"]
  /\ UNCHANGED <<charged, aged, ledger, portfolio, disk, total, up, crashes>>

\* Fault: the total of this sweep instead of the whole ledger.
RecordWindow(s) ==
  /\ up /\ at[s] = "read"
  /\ ledger' = ledger \cup swept[s]
  /\ total' = [total EXCEPT ![s] = Total[swept[s]]]
  /\ at' = [at EXCEPT ![s] = "told"]
  /\ UNCHANGED <<charged, aged, portfolio, disk, swept, up, crashes>>

\* record_seen: new charges are inserted and the whole ledger is totalled, in
\* one transaction, whether or not the sweep found anything.
RecordSeen(s) ==
  /\ up /\ at[s] = "read"
  /\ ledger' = ledger \cup swept[s]
  /\ total' = [total EXCEPT ![s] = Total[ledger']]
  /\ at' = [at EXCEPT ![s] = "told"]
  /\ UNCHANGED <<charged, aged, portfolio, disk, swept, up, crashes>>

Owed(s) == total[s] - portfolio.settled

\* Fault: what is owed is taken again by whoever was told the total.
SettleTwice(s) ==
  /\ up /\ at[s] = "told"
  /\ portfolio' = [cash |-> portfolio.cash - total[s], settled |-> total[s]]
  /\ at' = [at EXCEPT ![s] = "idle"]
  /\ UNCHANGED <<charged, aged, ledger, disk, swept, total, up, crashes>>

\* The correction is derived, and cash and fees_settled move together.
Settle(s) ==
  /\ up /\ at[s] = "told"
  /\ portfolio' = [cash |-> portfolio.cash - Owed(s), settled |-> total[s]]
  /\ at' = [at EXCEPT ![s] = "idle"]
  /\ UNCHANGED <<charged, aged, ledger, disk, swept, total, up, crashes>>

-----------------------------------------------------------------------------
(* The stored book. *)

\* snapshot: cash and fees_settled in one row.
Snapshot ==
  /\ up /\ disk # portfolio
  /\ disk' = portfolio
  /\ UNCHANGED <<charged, aged, ledger, portfolio, at, swept, total, up, crashes>>

Crash ==
  /\ up /\ crashes < MaxCrashes
  /\ crashes' = crashes + 1 /\ up' = FALSE
  /\ at' = Restarted
  /\ UNCHANGED <<charged, aged, ledger, portfolio, disk, swept, total>>

\* restore_or_adopt, with a stored book.
Restart ==
  /\ ~up
  /\ up' = TRUE /\ portfolio' = disk
  /\ UNCHANGED <<charged, aged, ledger, disk, at, swept, total, crashes>>

\* adopt_broker_state, as scripts/adopt_broker_state.py stores it: the venue's
\* cash in a new Portfolio, whose fees_settled is the default, zero.
Adopt ==
  /\ disk' = [cash |-> AccountCash, settled |-> 0]
  /\ UNCHANGED <<charged, aged, ledger, portfolio, at, swept, total, up, crashes>>

-----------------------------------------------------------------------------
SettleBrokerFees(s) == ReadFees(s) \/ RecordSeen(s) \/ Settle(s)

FeeNext ==
  \/ \E f \in Fees : Charge(f) \/ Age(f)
  \/ \E s \in Settlers : SettleBrokerFees(s)
  \/ Snapshot \/ Crash \/ Restart

\* The tasks keep reconciling, and the worker is restarted.
FeeFairness == /\ \A s \in Settlers : WF_feeVars(SettleBrokerFees(s))
               /\ WF_feeVars(Restart)

FeeSpec == FeeInit /\ [][FeeNext]_feeVars /\ FeeFairness

\* The same with an operator who may adopt the broker's book at any time.
AdoptingSpec == FeeInit /\ [][FeeNext \/ Adopt]_feeVars /\ FeeFairness

-----------------------------------------------------------------------------
(* Properties. *)

\* Type correctness.
FeesTyped ==
  /\ charged \subseteq Fees /\ aged \subseteq charged /\ ledger \subseteq charged
  /\ portfolio \in Book /\ disk \in Book
  /\ at \in [Settlers -> {"idle", "read", "told"}]
  /\ swept \in [Settlers -> SUBSET charged]
  /\ total \in [Settlers -> Nat]
  /\ up \in BOOLEAN /\ crashes \in 0..MaxCrashes

\* Portfolio.fees_settled says how much fee its cash already reflects: neither
\* a crash at any point nor two settlers at once parts the two numbers.
SettledIsReflected ==
  portfolio.cash + portfolio.settled = 0 /\ disk.cash + disk.settled = 0

\* No charge is taken from our cash twice: our book never has less than the
\* venue says we have.
NeverOvercharged == portfolio.cash >= AccountCash

\* A book that is behind is brought level: once the venue stops charging, the
\* book settles for good on everything that was seen, which is at least what
\* a sweep can still see.
SelfHealing == <>[](/\ portfolio.settled = Total[ledger]
                    /\ charged \ aged \subseteq ledger)
=============================================================================
