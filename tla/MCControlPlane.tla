--------------------------- MODULE MCControlPlane ---------------------------
EXTENDS ControlPlane, TLC
\* Off, trading without permission for live orders, trading with it, and a
\* timeframe the worker refuses.
MCConfigs ==
  {[armed |-> FALSE, kind |-> "trades"], [armed |-> TRUE, kind |-> "trades"],
   [armed |-> TRUE, kind |-> "refused"]}
\* Saves race each other, and a worker that starts, while nothing trades or is
\* halted; from then on one configuration has been saved, none is under way, and
\* one operator at a time is signed in.
Quiet == /\ sending = {} /\ working = {} /\ pos = 0 /\ closing = 0 /\ ownPos = 0 /\ storedPos = 0
         /\ haltedFor = "none"
\* One unit is held at most, and what is sold twice is one unit short.
Bounded ==
  /\ \/ Quiet
     \/ /\ row.rev <= 1 /\ \A o \in Operators : ~request[o].on
        /\ Cardinality({o \in Operators : session[o] # "none"}) <= 1
  /\ pos \in -1..1 /\ ownPos \in -1..1 /\ closing \in -1..2
Symmetry == Permutations(Operators)
=============================================================================
