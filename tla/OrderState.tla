----------------------------- MODULE OrderState -----------------------------
(***************************************************************************)
(* An order's status, as our book keeps it: the transition table of        *)
(* execution/state.py, the fill arithmetic of domain/order.py, and how a   *)
(* venue's trade update is folded in (execution/trade_updates.py).         *)
(*                                                                         *)
(* An order is its status and the list of the fills applied to it; prices  *)
(* and times are left out.                                                 *)
(***************************************************************************)
EXTENDS Integers, FiniteSets, Sequences, SequencesExt

OrderStatus == {"PENDING_RISK", "PENDING_SUBMIT", "SUBMITTED",
                "PARTIALLY_FILLED", "FILLED", "CANCELLED", "REJECTED",
                "REJECTED_RISK", "EXPIRED"}

TRANSITIONS ==
  [s \in OrderStatus |->
     CASE s = "PENDING_RISK" -> {"PENDING_SUBMIT", "REJECTED_RISK"}
       [] s = "PENDING_SUBMIT" -> {"SUBMITTED", "REJECTED", "CANCELLED"}
       [] s = "SUBMITTED" -> {"PARTIALLY_FILLED", "FILLED", "CANCELLED",
                              "REJECTED", "EXPIRED"}
       [] s = "PARTIALLY_FILLED" -> {"PARTIALLY_FILLED", "FILLED",
                                     "CANCELLED", "EXPIRED"}
       [] OTHER -> {}]

\* OrderStatus.is_terminal
IsTerminal(s) == s \in {"FILLED", "CANCELLED", "REJECTED",
                        "REJECTED_RISK", "EXPIRED"}

CanTransition(s, t) == t \in TRANSITIONS[s]

\* _CAN_FILL, derived from the table.
CanFill == {s \in OrderStatus : CanTransition(s, "PARTIALLY_FILLED")}

PreAck == {"PENDING_RISK", "PENDING_SUBMIT"}

\* The result of folding something into an order: the order afterwards,
\* whether anything changed, and whether it raised instead.
Ignored(o) == [order |-> o, changed |-> FALSE, raised |-> FALSE]
Refused(o) == [order |-> o, changed |-> FALSE, raised |-> TRUE]
Applied(o) == [order |-> o, changed |-> TRUE, raised |-> FALSE]

\* state.transition: a repeat is a no-op, a late event for a finished order is
\* dropped, a move the table does not hold raises.
Transition(o, t) ==
  IF o.status = t \/ IsTerminal(o.status) THEN Ignored(o)
  ELSE IF CanTransition(o.status, t) THEN Applied([o EXCEPT !.status = t])
  ELSE Refused(o)

\* Order.filled_qty: what its fills add up to.
Filled(o) == FoldLeft(LAMBDA n, f : n + f.qty, 0, o.fills)

\* Order.apply_fill: the arithmetic decides whether the order is complete.
ApplyFill(o, id, n, qty) ==
  [status |-> IF Filled(o) + n = qty THEN "FILLED" ELSE "PARTIALLY_FILLED",
   fills |-> Append(o.fills, [id |-> id, qty |-> n])]

AlreadySeen(o, id) == \E i \in DOMAIN o.fills : o.fills[i].id = id

\* Fault: the venue's execution id is not looked at.
ApplyFillUpdateUnseen(o, id, n, qty) ==
  IF o.status \notin CanFill \/ n > qty - Filled(o) THEN Refused(o)
  ELSE Applied(ApplyFill(o, id, n, qty))

\* _apply_fill: a fill already seen is dropped; a fill proves the venue has the
\* order; a fill of an order our book calls dead, or past its size, raises.
ApplyFillUpdate(o, id, n, qty) ==
  LET acked == IF o.status \in PreAck THEN [o EXCEPT !.status = "SUBMITTED"]
               ELSE o
  IN IF AlreadySeen(o, id) THEN Ignored(o)
     ELSE IF acked.status \notin CanFill \/ n > qty - Filled(o) THEN Refused(acked)
     ELSE Applied(ApplyFill(acked, id, n, qty))

\* apply_trade_update: a fill, or a status only.
ApplyTradeUpdate(o, u, qty) ==
  IF u.kind = "fill" THEN ApplyFillUpdate(o, u.id, u.qty, qty)
  ELSE Transition(o, u.status)

-----------------------------------------------------------------------------
(* The stored row of an order (persistence/orders.py). *)

\* OrderRepository.save: the status is overwritten; fills are keyed by their
\* position, and a position already stored is left as it is.
Stored(rowFills, o) ==
  [status |-> o.status,
   fills |-> rowFills \o SubSeq(o.fills, Len(rowFills) + 1, Len(o.fills))]

\* OrderRepository._to_order: the fills are replayed; a stored status that
\* fills own is recomputed from them, any other is kept.
Loaded(row, qty) ==
  IF row.status \in {"FILLED", "PARTIALLY_FILLED"} /\ row.fills # <<>>
  THEN [row EXCEPT !.status = IF Filled(row) = qty THEN "FILLED"
                              ELSE "PARTIALLY_FILLED"]
  ELSE row
=============================================================================
