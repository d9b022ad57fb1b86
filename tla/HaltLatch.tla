----------------------------- MODULE HaltLatch ------------------------------
(***************************************************************************)
(* What the kill switch promises, with no store, no retries and no races:  *)
(* every key is a one-way latch.  Engaging it closes the latch and may     *)
(* only add to the symbols whose quantity is beyond proof; it opens again  *)
(* in one step, which takes the evidence with it.  `acknowledged` is what  *)
(* callers have been told since the latch last opened, and the latch never *)
(* knows less than they do.                                                *)
(***************************************************************************)
EXTENDS FiniteSets

CONSTANTS Keys,     \* the halt keys: the global one, one per strategy, symbol
          Symbols   \* the symbols a halt can put beyond proof

VARIABLES halted,        \* halted[k]: a halt stands on key k
          unproven,      \* unproven[k]: the symbols that halt impugns
          acknowledged   \* acknowledged[k]: symbols callers were told it covers

vars == <<halted, unproven, acknowledged>>

Init == /\ halted = [k \in Keys |-> FALSE]
        /\ unproven = [k \in Keys |-> {}]
        /\ acknowledged = [k \in Keys |-> {}]

\* A halt with evidence S lands on k (S is empty for a halt about no symbol).
\* The caller is told so, unless the reply is lost on the way back.
Engage(k, S) ==
  /\ halted' = [halted EXCEPT ![k] = TRUE]
  /\ unproven' = [unproven EXCEPT ![k] = @ \cup S]
  /\ acknowledged' \in {acknowledged, [acknowledged EXCEPT ![k] = @ \cup S]}

\* Somebody resumes trading on k: the record and its evidence go together.
Release(k) ==
  /\ halted' = [halted EXCEPT ![k] = FALSE]
  /\ unproven' = [unproven EXCEPT ![k] = {}]
  /\ acknowledged' = [acknowledged EXCEPT ![k] = {}]

Next == \E k \in Keys : Release(k) \/ \E S \in SUBSET Symbols : Engage(k, S)

Spec == Init /\ [][Next]_vars
=============================================================================
