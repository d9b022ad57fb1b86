-------------------------- MODULE OrderSyncProofs --------------------------
(***************************************************************************)
(* Theorems about OrderSync, in every environment.                         *)
(*                                                                         *)
(* The state is well typed, always.  Until two readings of one order        *)
(* overlap, which nothing in the code prevents, the books are safe too.     *)
(* The inductive invariant:                                                *)
(*   RowsInv    a row holds a beginning of the fills we know;              *)
(*   BookInv    stored book <= book <= fills we know <= what executed;     *)
(*   FlightInv  a fill on the stream is known, or beyond what we know and  *)
(*              have read; one read over REST is all that is missing of    *)
(*              its order, and read once.                                  *)
(***************************************************************************)
EXTENDS OrderSync, SequenceTheorems, FoldTheorems

-----------------------------------------------------------------------------
(* What the fills of an order add up to (OrderState!Filled). *)

\* The fold of a sequence of fills is the value of a function on the sets of its
\* positions that takes the last position first.
IsTally(g, s, S) ==
  g = [t \in SUBSET S |-> IF t = {} THEN 0 ELSE g[t \ {Max(t)}] + s[Max(t)].qty]
Tally(s) == CHOOSE g : IsTally(g, s, DOMAIN s)

\* What is filled is what the tally gives for all positions.
LEMMA FilledIsTally == \A o : Filled(o) = Tally(o.fills)[DOMAIN o.fills]
  BY DEF Filled, FoldLeft, MapThenFoldSet, Tally, IsTally

\* A tally over the first n + 1 positions is one over the first n.
LEMMA TallyRestricts ==
  ASSUME NEW s, NEW n \in Nat, NEW g, IsTally(g, s, 1..(n + 1))
  PROVE  IsTally([t \in SUBSET (1..n) |-> g[t]], s, 1..n)
  <1> DEFINE h == [t \in SUBSET (1..n) |-> g[t]]
  <1>1. ASSUME NEW t \in SUBSET (1..n)
        PROVE  h[t] = IF t = {} THEN 0 ELSE h[t \ {Max(t)}] + s[Max(t)].qty
    <2>1. t \ {Max(t)} \in SUBSET (1..n)
      OBVIOUS
    <2>2. t \in SUBSET (1..(n + 1))
      OBVIOUS
    <2>3. g[t] = IF t = {} THEN 0 ELSE g[t \ {Max(t)}] + s[Max(t)].qty
      BY <2>2, Zenon DEF IsTally
    <2>4. QED
      BY <2>1, <2>3
  <1> HIDE DEF h
  <1>2. h = [t \in SUBSET (1..n) |-> h[t]]
    BY DEF h
  <1>3. IsTally(h, s, 1..n)
    BY <1>1, <1>2, Zenon DEF IsTally
  <1>4. QED
    BY <1>3 DEF h

\* There is a tally over the first n positions.
LEMMA TallyExists ==
  ASSUME NEW s, NEW n \in Nat
  PROVE  \E g : IsTally(g, s, 1..n)
  <1> DEFINE Good == {m \in Nat : \E g : IsTally(g, s, 1..m)}
  <1>1. 0 \in Good
    <2> DEFINE g == [t \in SUBSET (1..0) |-> 0]
    <2>1. \A t \in SUBSET (1..0) : t = {}
      OBVIOUS
    <2>2. IsTally(g, s, 1..0)
      BY <2>1 DEF IsTally
    <2>3. QED
      BY <2>2
  <1>2. ASSUME NEW m \in Nat, m \in Good PROVE m + 1 \in Good
    <2>1. PICK g : IsTally(g, s, 1..m)
      BY <1>2
    <2> DEFINE h == [t \in SUBSET (1..(m + 1)) |->
                       IF m + 1 \in t THEN g[t \ {m + 1}] + s[m + 1].qty ELSE g[t]]
    <2>2. ASSUME NEW t \in SUBSET (1..(m + 1))
          PROVE  h[t] = IF t = {} THEN 0 ELSE h[t \ {Max(t)}] + s[Max(t)].qty
      <3>1. CASE m + 1 \in t
        <4>1. Max(t) = m + 1 /\ t \ {m + 1} \in SUBSET (1..(m + 1))
          BY <3>1, NextPosition
        <4>2. h[t \ {m + 1}] = g[t \ {m + 1}]
          BY <4>1
        <4>3. QED
          BY <3>1, <4>1, <4>2
      <3>2. CASE m + 1 \notin t
        <4>1. t \in SUBSET (1..m) /\ t \ {Max(t)} \in SUBSET (1..(m + 1))
          BY <3>2, NextPosition
        <4>2. g[t] = IF t = {} THEN 0 ELSE g[t \ {Max(t)}] + s[Max(t)].qty
          BY <2>1, <4>1, Zenon DEF IsTally
        <4>3. h[t \ {Max(t)}] = g[t \ {Max(t)}] /\ h[t] = g[t]
          BY <3>2, <4>1
        <4>4. QED
          BY <4>2, <4>3
      <3>3. QED
        BY <3>1, <3>2
    <2> HIDE DEF h
    <2>3. h = [t \in SUBSET (1..(m + 1)) |-> h[t]]
      BY DEF h
    <2>4. IsTally(h, s, 1..(m + 1))
      BY <2>2, <2>3, Zenon DEF IsTally
    <2>5. QED
      BY <2>4
  <1> HIDE DEF Good
  <1>3. n \in Good
    BY <1>1, <1>2, NatSetInduction
  <1>4. QED
    BY <1>3 DEF Good

\* And one only.
LEMMA TallyUnique ==
  ASSUME NEW s, NEW n \in Nat, NEW g, IsTally(g, s, 1..n), NEW h, IsTally(h, s, 1..n)
  PROVE  g = h
  <1> DEFINE Good == {m \in Nat : \A x, y : IsTally(x, s, 1..m) /\ IsTally(y, s, 1..m) => x = y}
  <1>1. 0 \in Good
    <2> SUFFICES ASSUME NEW x, NEW y, IsTally(x, s, 1..0), IsTally(y, s, 1..0) PROVE x = y
      OBVIOUS
    <2>1. \A t \in SUBSET (1..0) : t = {}
      OBVIOUS
    <2>2. \A t \in SUBSET (1..0) : x[t] = 0 /\ y[t] = 0
      BY <2>1 DEF IsTally
    <2>3. QED
      BY <2>2 DEF IsTally
  <1>2. ASSUME NEW m \in Nat, m \in Good PROVE m + 1 \in Good
    <2> SUFFICES ASSUME NEW x, NEW y, IsTally(x, s, 1..(m + 1)), IsTally(y, s, 1..(m + 1)) PROVE x = y
      OBVIOUS
    <2>1. [t \in SUBSET (1..m) |-> x[t]] = [t \in SUBSET (1..m) |-> y[t]]
      <3> DEFINE u == [t \in SUBSET (1..m) |-> x[t]]
                 v == [t \in SUBSET (1..m) |-> y[t]]
      <3>1. IsTally(u, s, 1..m) /\ IsTally(v, s, 1..m)
        BY TallyRestricts
      <3> HIDE DEF u, v
      <3>2. u = v
        BY <1>2, <3>1
      <3>3. QED
        BY <3>2 DEF u, v
    <2>2. \A t \in SUBSET (1..m) : x[t] = y[t]
      BY <2>1, Zenon
    <2>3. ASSUME NEW t \in SUBSET (1..(m + 1)) PROVE x[t] = y[t]
      <3>1. CASE m + 1 \in t
        <4>1. Max(t) = m + 1 /\ t \ {m + 1} \in SUBSET (1..m)
          BY <3>1, NextPosition
        <4>2. x[t] = x[t \ {m + 1}] + s[m + 1].qty
          BY <3>1, <4>1 DEF IsTally
        <4>3. y[t] = y[t \ {m + 1}] + s[m + 1].qty
          BY <3>1, <4>1 DEF IsTally
        <4>4. QED
          BY <2>2, <4>1, <4>2, <4>3
      <3>2. CASE m + 1 \notin t
        BY <2>2, <3>2, NextPosition
      <3>3. QED
        BY <3>1, <3>2
    <2>4. QED
      BY <2>3 DEF IsTally
  <1> HIDE DEF Good
  <1>3. n \in Good
    BY <1>1, <1>2, NatSetInduction
  <1>4. QED
    BY <1>3 DEF Good

\* The fills of a new order come to nothing.
LEMMA FilledOfNone == \A o : o.fills = <<>> => Filled(o) = 0
  <1> SUFFICES ASSUME NEW o, o.fills = <<>> PROVE Filled(o) = 0
    OBVIOUS
  <1>1. DOMAIN o.fills = 1..0
    OBVIOUS
  <1>2. IsTally(Tally(o.fills), o.fills, DOMAIN o.fills)
    BY <1>1, TallyExists DEF Tally
  <1>3. {} \in SUBSET DOMAIN o.fills /\ DOMAIN o.fills = {}
    BY <1>1
  <1>4. Tally(o.fills)[{}] = 0
    BY <1>2, <1>3 DEF IsTally
  <1>5. QED
    BY <1>3, <1>4, FilledIsTally

\* One more fill adds its quantity.
LEMMA FilledAppend ==
  ASSUME NEW T, NEW s \in Seq(T), NEW f \in T, NEW o, NEW p, o.fills = s, p.fills = Append(s, f)
  PROVE  Filled(p) = Filled(o) + f.qty
  <1> DEFINE n == Len(s)
             q == Append(s, f)
             c == Tally(q)
  <1>1. /\ n \in Nat /\ DOMAIN s = 1..n /\ DOMAIN q = 1..(n + 1)
        /\ q[n + 1] = f /\ \A i \in 1..n : q[i] = s[i]
    OBVIOUS
  <1>2. IsTally(c, q, 1..(n + 1))
    <2> DEFINE m == n + 1
    <2>1. m \in Nat /\ DOMAIN q = 1..m
      BY <1>1
    <2> HIDE DEF m, q
    <2>2. \E g : IsTally(g, q, DOMAIN q)
      BY <2>1, TallyExists
    <2>3. IsTally(Tally(q), q, DOMAIN q)
      BY <2>2 DEF Tally
    <2>4. QED
      BY <2>1, <2>3 DEF m, q
  <1>3. IsTally(Tally(s), s, 1..n)
    BY <1>1, TallyExists DEF Tally
  <1>4. Filled(p) = c[1..(n + 1)] /\ Filled(o) = Tally(s)[1..n]
    BY <1>1, FilledIsTally
  <1> DEFINE r == [t \in SUBSET (1..n) |-> c[t]]
  <1>5. IsTally(r, q, 1..n)
    BY <1>1, <1>2, TallyRestricts
  <1>6. IsTally(r, s, 1..n)
    <2>1. ASSUME NEW t \in SUBSET (1..n)
          PROVE  r[t] = IF t = {} THEN 0 ELSE r[t \ {Max(t)}] + s[Max(t)].qty
      <3>1. r[t] = IF t = {} THEN 0 ELSE r[t \ {Max(t)}] + q[Max(t)].qty
        BY <1>5, Zenon DEF IsTally
      <3>2. t # {} => Max(t) \in 1..n
        BY <1>1, LastPosition
      <3>3. QED
        BY <1>1, <3>1, <3>2
    <2>2. r = [t \in SUBSET (1..n) |-> r[t]]
      OBVIOUS
    <2> HIDE DEF r
    <2>3. QED
      BY <2>1, <2>2, Zenon DEF IsTally
  <1>7. r = Tally(s)
    BY <1>1, <1>3, <1>6, TallyUnique
  <1>8. 1..n \in SUBSET (1..n) /\ r[1..n] = c[1..n]
    OBVIOUS
  <1>9. /\ 1..(n + 1) \in SUBSET (1..(n + 1)) /\ n + 1 \in 1..(n + 1)
        /\ (1..(n + 1)) \ {n + 1} = 1..n
    BY <1>1
  <1>10. Max(1..(n + 1)) = n + 1
    BY <1>1, <1>9, NextPosition
  <1>11. c[1..(n + 1)] = c[1..n] + q[n + 1].qty
    <2> DEFINE top == 1..(n + 1)
    <2>1. top \in SUBSET top /\ top # {} /\ top \ {Max(top)} = 1..n /\ Max(top) = n + 1
      BY <1>9, <1>10
    <2>2. IsTally(c, q, top)
      BY <1>2
    <2> HIDE DEF top, c, q, n
    <2>3. c[top] = c[top \ {Max(top)}] + q[Max(top)].qty
      BY <2>1, <2>2, Zenon DEF IsTally
    <2>4. QED
      BY <2>1, <2>3 DEF top
  <1>12. QED
    BY <1>1, <1>4, <1>7, <1>8, <1>11

Fill == [id : FillId, qty : 1..Qty]

\* Fills come to a natural number.
LEMMA FilledType == \A o : o.fills \in Seq(Fill) => Filled(o) \in Nat
  <1> DEFINE Made(s) == [fills |-> s]
             Good == {n \in Nat : \A s \in Seq(Fill) : Len(s) = n => Filled(Made(s)) \in Nat}
  <1>1. 0 \in Good
    <2> SUFFICES ASSUME NEW s \in Seq(Fill), Len(s) = 0 PROVE Filled(Made(s)) \in Nat
      OBVIOUS
    <2>1. Made(s).fills = <<>>
      OBVIOUS
    <2>2. QED
      BY <2>1, FilledOfNone
  <1>2. ASSUME NEW n \in Nat, n \in Good PROVE n + 1 \in Good
    <2> SUFFICES ASSUME NEW s \in Seq(Fill), Len(s) = n + 1 PROVE Filled(Made(s)) \in Nat
      OBVIOUS
    <2> DEFINE t == SubSeq(s, 1, n)
               f == s[n + 1]
    <2>1. t \in Seq(Fill) /\ Len(t) = n /\ f \in Fill /\ s = Append(t, f)
      OBVIOUS
    <2>2. Filled(Made(t)) \in Nat
      BY <1>2, <2>1
    <2>3. f.qty \in Nat
      BY <2>1, QtyAssumption DEF Fill
    <2> HIDE DEF t, f
    <2>4. Made(t).fills = t /\ Made(s).fills = Append(t, f)
      BY <2>1
    <2> HIDE DEF Made
    <2>5. Filled(Made(s)) = Filled(Made(t)) + f.qty
      BY <2>1, <2>4, FilledAppend
    <2>6. QED
      BY <2>2, <2>3, <2>5
  <1> HIDE DEF Good
  <1>3. Nat \subseteq Good
    BY <1>1, <1>2, NatSetInduction
  <1>4. ASSUME NEW o, o.fills \in Seq(Fill) PROVE Filled(o) \in Nat
    <2>1. Len(o.fills) \in Good
      BY <1>3, <1>4
    <2>2. Filled(Made(o.fills)) \in Nat
      BY <1>4, <2>1 DEF Good
    <2>3. Made(o.fills).fills = o.fills
      OBVIOUS
    <2>4. QED
      BY <2>2, <2>3, FilledIsTally
  <1>5. QED
    BY <1>4
-----------------------------------------------------------------------------
(* What an update does to an order (apply_trade_update). *)

\* A fill is applied to an order that does not have it: the order has one more
\* fill, and no more is filled than the order is for.
LEMMA FillApplied ==
  ASSUME NEW o \in Order, NEW id \in FillId, NEW n \in 1..Qty, NEW r, r = ApplyFillUpdate(o, id, n, Qty)
  PROVE  /\ r.order \in Order /\ r.changed \in BOOLEAN
         /\ r.changed => /\ ~AlreadySeen(o, id)
                         /\ r.order.fills = Append(o.fills, [id |-> id, qty |-> n])
                         /\ Filled(r.order) = Filled(o) + n
  <1> DEFINE acked == IF o.status \in PreAck THEN [o EXCEPT !.status = "SUBMITTED"] ELSE o
             f == [id |-> id, qty |-> n]
  <1>1. acked \in Order /\ acked.fills = o.fills
    BY DEF Order, OrderStatus
  <1>2. f \in Fill /\ o.fills \in Seq(Fill) /\ f.qty = n
    BY DEF Order, Fill
  <1>3. Append(o.fills, f) \in Seq(Fill)
    BY <1>2
  <1>4. ApplyFill(acked, id, n, Qty) \in Order /\ ApplyFill(acked, id, n, Qty).fills = Append(o.fills, f)
    BY <1>1, <1>2, <1>3 DEF ApplyFill, Order, OrderStatus, Fill
  <1>5. Filled(ApplyFill(acked, id, n, Qty)) = Filled(o) + n
    BY <1>2, <1>4, FilledAppend
  <1> HIDE DEF acked, f
  <1>6. \/ AlreadySeen(o, id) /\ r = Ignored(o)
        \/ r = Refused(acked)
        \/ ~AlreadySeen(o, id) /\ r = Applied(ApplyFill(acked, id, n, Qty))
    BY Zenon DEF ApplyFillUpdate, acked
  <1>7. CASE AlreadySeen(o, id) /\ r = Ignored(o)
    BY <1>7 DEF Ignored
  <1>8. CASE r = Refused(acked)
    BY <1>1, <1>8 DEF Refused
  <1>9. CASE ~AlreadySeen(o, id) /\ r = Applied(ApplyFill(acked, id, n, Qty))
    <2> DEFINE made == ApplyFill(acked, id, n, Qty)
    <2>1. made \in Order /\ made.fills = Append(o.fills, [id |-> id, qty |-> n])
          /\ Filled(made) = Filled(o) + n
      BY <1>4, <1>5 DEF f
    <2> HIDE DEF made
    <2>2. r.order = made /\ r.changed = TRUE
      BY <1>9 DEF Applied, made
    <2>3. QED
      BY <1>9, <2>1, <2>2, Zenon
  <1>10. QED
    BY <1>6, <1>7, <1>8, <1>9

\* A status is applied without touching the fills.
LEMMA StatusApplied ==
  ASSUME NEW o \in Order, NEW t \in OrderStatus, NEW r, r = Transition(o, t)
  PROVE  r.order \in Order /\ r.changed \in BOOLEAN /\ r.order.fills = o.fills
  BY DEF Transition, Ignored, Refused, Applied, Order

\* What booking an update amounts to: nothing, or an order with one more fill
\* and a book with its quantity, or an order with another status.
Kept(u, o, r, n) ==
  \/ /\ u.kind = "fill" /\ ~AlreadySeen(o, u.id) /\ n = u.qty
     /\ r.fills = Append(o.fills, [id |-> u.id, qty |-> n])
     /\ Filled(r) = Filled(o) + n
  \/ u.kind = "status" /\ n = 0 /\ r.fills = o.fills /\ Filled(r) = Filled(o)

\* Fills of an order of ours.
LEMMA OrderFilled == \A o \in Order : Filled(o) \in Nat /\ o # None
  <1>1. \A o \in Order : o.fills \in Seq(Fill)
    BY DEF Order, Fill
  <1>2. \A o \in Order : o # None
    BY DEF Order, None, OrderStatus
  <1>3. QED
    BY <1>1, <1>2, FilledType

\* Orders with the same fills have the same filled.
LEMMA FilledBySame == \A o, r : o.fills = r.fills => Filled(o) = Filled(r)
  BY FilledIsTally

\* on_fill_event books nothing, or one update of an order it knows, and leaves the
\* writes that go with it.
LEMMA FillEventBooked ==
  ASSUME SysTypeOK, NEW u \in Message, NEW by \in Tasks, OnFillEvent(u, by)
  PROVE  \/ UNCHANGED <<mem, book, lock>>
         \/ \E r \in Order, n \in 0..Qty :
              /\ mem[u.order] \in Order /\ Kept(u, mem[u.order], r, n)
              /\ mem' = [mem EXCEPT ![u.order] = r]
              /\ book' = [book EXCEPT ![u.order] = @ + n]
              /\ \/ lock' = [stage |-> "done", by |-> by, order |-> u.order, obj |-> r,
                             booked |-> n > 0]
                 \/ lock' = [stage |-> "orders", by |-> by]
                 \/ n = 0 /\ lock' = Free
  <1> DEFINE o == u.order
             old == mem[o]
             res == ApplyTradeUpdate(old, u, Qty)
             r == res.order
             n == Filled(r) - Filled(old)
  <1>1. o \in Orders /\ old \in Order \cup {None}
    BY DEF SysTypeOK, Message
  <1>2. CASE old = None \/ ~res.changed
    BY <1>2 DEF OnFillEvent
  <1>3. CASE old # None /\ res.changed
    <2>1. /\ mem' = [mem EXCEPT ![o] = r] /\ book' = [book EXCEPT ![o] = @ + n]
          /\ lock' = IF IsTerminal(r.status)
                     THEN [stage |-> "done", by |-> by, order |-> o,
                           obj |-> r, booked |-> n > 0]
                     ELSE IF n > 0 THEN [stage |-> "orders", by |-> by]
                     ELSE Free
      BY <1>3 DEF OnFillEvent
    <2>2. old \in Order /\ Filled(old) \in Nat
      BY <1>1, <1>3, OrderFilled
    <2>3. r \in Order /\ n \in 0..Qty /\ Kept(u, old, r, n)
      <3>1. CASE u.kind = "fill"
        <4>1. u.id \in FillId /\ u.qty \in 1..Qty
          BY <3>1 DEF Message
        <4>2. res = ApplyFillUpdate(old, u.id, u.qty, Qty)
          BY <3>1 DEF ApplyTradeUpdate
        <4> HIDE DEF res, old, o
        <4>3. /\ r \in Order /\ ~AlreadySeen(old, u.id) /\ Filled(r) = Filled(old) + u.qty
              /\ r.fills = Append(old.fills, [id |-> u.id, qty |-> u.qty])
          BY <1>3, <2>2, <4>1, <4>2, FillApplied
        <4> HIDE DEF r
        <4>4. n = u.qty
          BY <2>2, <4>1, <4>3
        <4>5. QED
          BY <3>1, <4>1, <4>3, <4>4, QtyAssumption DEF Kept
      <3>2. CASE u.kind # "fill"
        <4>1. u.status \in OrderStatus /\ u.kind = "status"
          BY <3>2 DEF Message
        <4>2. res = Transition(old, u.status)
          BY <3>2 DEF ApplyTradeUpdate
        <4> HIDE DEF res, old, o
        <4>3. r \in Order /\ r.fills = old.fills
          BY <2>2, <4>1, <4>2, StatusApplied
        <4> HIDE DEF r
        <4>4. Filled(r) = Filled(old) /\ n = 0
          BY <2>2, <4>3, FilledBySame
        <4>5. QED
          BY <4>1, <4>3, <4>4, QtyAssumption DEF Kept
      <3>3. QED
        BY <3>1, <3>2
    <2> HIDE DEF r, n, res
    <2>4. \/ lock' = [stage |-> "done", by |-> by, order |-> o, obj |-> r, booked |-> n > 0]
          \/ lock' = [stage |-> "orders", by |-> by]
          \/ n = 0 /\ lock' = Free
      BY <2>1, <2>3
    <2>5. QED
      BY <2>1, <2>2, <2>3, <2>4
  <1>4. QED
    BY <1>2, <1>3
-----------------------------------------------------------------------------
(* Types. *)

\* A row that is saved or loaded is an order.
LEMMA StoredType ==
  ASSUME NEW s \in Seq(Fill), NEW o \in Order
  PROVE  Stored(s, o) \in Order
  <1>1. SubSeq(o.fills, Len(s) + 1, Len(o.fills)) \in Seq(Fill)
    <2>1. o.fills \in Seq(Fill)
      BY DEF Order, Fill
    <2> DEFINE t == o.fills
               k == Len(s) + 1
    <2>2. t \in Seq(Fill) /\ k \in Nat /\ k >= 1 /\ Len(t) \in Nat
      BY <2>1
    <2> HIDE DEF t, k
    <2>3. \A i \in k..Len(t) : t[i] \in Fill
      BY <2>2
    <2>4. SubSeq(t, k, Len(t)) \in Seq(Fill)
      BY <2>2, <2>3
    <2>5. QED
      BY <2>4 DEF t, k
  <1>2. s \o SubSeq(o.fills, Len(s) + 1, Len(o.fills)) \in Seq(Fill)
    BY <1>1
  <1>3. QED
    BY <1>2 DEF Stored, Order, Fill

\* A loaded order has the fills of its row.
LEMMA LoadedType ==
  ASSUME NEW row \in Order
  PROVE  Loaded(row, Qty) \in Order /\ Loaded(row, Qty).fills = row.fills
  BY DEF Loaded, Order, OrderStatus

\* What a catch-up has to say of an order: at most one fill, for all that is
\* missing, and it comes first.
LEMMA MissedType ==
  ASSUME NEW o \in Orders, NEW ours \in Order, NEW v \in Venues
  PROVE  /\ MissedUpdates(o, ours, v) \in Seq(Message)
         /\ \A i \in DOMAIN MissedUpdates(o, ours, v) :
              LET m == MissedUpdates(o, ours, v)[i] IN
              /\ m.order = o
              /\ m.kind = "fill" => i = 1 /\ Filled(ours) + m.qty = v.filled
  <1> DEFINE missing == v.filled - Filled(ours)
             status == TheirStatus(v)
             f == FillMsg(o, <<"rest", v.filled>>, missing)
             s == StatusMsg(o, status)
             ms == MissedUpdates(o, ours, v)
  <1>1. Filled(ours) \in Nat /\ v.filled \in 0..Qty /\ Qty \in Nat
    BY OrderFilled, QtyAssumption DEF Venues
  <1>2. status \in OrderStatus
    BY DEF TheirStatus, OrderStatus, Venues
  <1>3. s \in Message /\ s.order = o /\ s.kind # "fill"
    BY <1>2 DEF StatusMsg, Message
  <1>4. ASSUME missing # 0, ~(v.filled < Filled(ours))
        PROVE  f \in Message /\ f.order = o /\ Filled(ours) + f.qty = v.filled
    <2>1. missing \in 1..Qty /\ <<"rest", v.filled>> \in FillId
      BY <1>1, <1>4 DEF FillId
    <2> HIDE DEF missing
    <2>2. f \in Message /\ f.order = o /\ f.qty = missing
      BY <2>1 DEF FillMsg, Message
    <2>3. QED
      BY <1>1, <2>2 DEF missing
  <1>5. \/ ms = <<>>
        \/ missing # 0 /\ ~(v.filled < Filled(ours)) /\ (ms = <<f>> \/ ms = <<f, s>>)
        \/ ms = <<s>>
    <2> DEFINE fill == IF missing = 0 THEN <<>> ELSE <<f>>
               move == IF status \in {"FILLED", "PARTIALLY_FILLED"} \/ status = ours.status
                       THEN <<>> ELSE <<s>>
    <2>1. ms = IF v.filled < Filled(ours) THEN <<>> ELSE fill \o move
      BY Zenon DEF MissedUpdates
    <2>2. move = <<>> \/ move = <<s>>
      OBVIOUS
    <2>3. (missing = 0 /\ fill = <<>>) \/ (missing # 0 /\ fill = <<f>>)
      OBVIOUS
    <2> HIDE DEF f, s, ms, missing, fill, move
    <2>4. /\ <<>> \o <<>> = <<>> /\ <<>> \o <<s>> = <<s>>
          /\ <<f>> \o <<>> = <<f>> /\ <<f>> \o <<s>> = <<f, s>>
      <3>1. <<f>> \in Seq({f, s}) /\ <<s>> \in Seq({f, s}) /\ <<f, s>> \in Seq({f, s})
            /\ <<>> \in Seq({f, s})
        OBVIOUS
      <3>2. <<f>> \o <<s>> \in Seq({f, s}) /\ Len(<<f>> \o <<s>>) = 2
            /\ (<<f>> \o <<s>>)[1] = f /\ (<<f>> \o <<s>>)[2] = s
        BY <3>1
      <3>3. <<f>> \o <<s>> = <<f, s>>
        <4> DEFINE a == <<f>> \o <<s>>
                   b == <<f, s>>
        <4>1. /\ a \in Seq({f, s}) /\ b \in Seq({f, s}) /\ Len(a) = 2 /\ Len(b) = 2
              /\ a[1] = b[1] /\ a[2] = b[2]
          BY <3>1, <3>2
        <4> HIDE DEF a, b
        <4>2. \A i \in 1..Len(a) : a[i] = b[i]
          BY <4>1
        <4>3. a = b
          BY <4>1, <4>2, SeqEqual
        <4>4. QED
          BY <4>3 DEF a, b
      <3>4. QED
        BY <3>1, <3>3, ConcatEmptySeq
    <2>5. QED
      BY <2>1, <2>2, <2>3, <2>4, Zenon
  <1> HIDE DEF f, s, ms, missing
  <1>6. CASE ms = <<>>
    BY <1>6 DEF ms
  <1>7. CASE missing # 0 /\ ~(v.filled < Filled(ours)) /\ (ms = <<f>> \/ ms = <<f, s>>)
    <2>1. f \in Message /\ f.order = o /\ Filled(ours) + f.qty = v.filled
      BY <1>4, <1>7
    <2>2. CASE ms = <<f>>
      <3>1. ms \in Seq(Message) /\ DOMAIN ms = 1..1 /\ ms[1] = f
        BY <2>1, <2>2
      <3>2. \A i \in DOMAIN ms : i = 1 /\ ms[i] = f
        BY <3>1
      <3>3. QED
        BY <2>1, <3>1, <3>2 DEF ms
    <2>3. CASE ms = <<f, s>>
      <3>1. ms \in Seq(Message) /\ DOMAIN ms = 1..2 /\ ms[1] = f /\ ms[2] = s
        BY <1>3, <2>1, <2>3
      <3>2. \A i \in DOMAIN ms : ms[i] = s \/ (i = 1 /\ ms[i] = f)
        BY <3>1
      <3>3. QED
        BY <1>3, <2>1, <3>1, <3>2 DEF ms
    <2>4. QED
      BY <1>7, <2>2, <2>3
  <1>8. CASE ms = <<s>>
    <2>1. ms \in Seq(Message) /\ DOMAIN ms = 1..1 /\ ms[1] = s
      BY <1>3, <1>8
    <2>2. \A i \in DOMAIN ms : ms[i] = s
      BY <2>1
    <2>3. QED
      BY <1>3, <2>1, <2>2 DEF ms
  <1>9. QED
    BY <1>5, <1>6, <1>7, <1>8

\* Every order a catch-up still has to ask about is one it can find.
Asked == \A c \in Catchers : \A o \in catch[c].left : mem[o] # None \/ catch[c].old[o] # None

\* Nothing going on, and nobody holding anything.
LEMMA IdleType == Idle \in Catch /\ NoOrders \in [Orders -> Order \cup {None}] /\ Free \in Locks
  BY DEF Idle, Catch, NoOrders, Locks

\* Keeping order objects keeps the types, and what is still to be asked.
LEMMA DetachType ==
  ASSUME SysTypeOK, Asked, NEW gone \in SUBSET Orders
  PROVE  /\ Detach(gone) \in [Catchers -> Catch]
         /\ \A c \in Catchers : /\ Detach(gone)[c].on = catch[c].on
                                /\ Detach(gone)[c].left = catch[c].left
                                /\ Detach(gone)[c].todo = catch[c].todo
                                /\ \A o \in catch[c].left :
                                     /\ catch[c].old[o] # None => Detach(gone)[c].old[o] # None
                                     /\ o \in gone => Detach(gone)[c].old[o] # None
                                /\ catch[c].left = {} => Detach(gone)[c] = catch[c]
                                /\ gone \cap catch[c].left = {} => Detach(gone)[c] = catch[c]
  <1>1. ASSUME NEW c \in Catchers
        PROVE  /\ Detach(gone)[c] \in Catch
               /\ Detach(gone)[c].on = catch[c].on /\ Detach(gone)[c].left = catch[c].left
               /\ Detach(gone)[c].todo = catch[c].todo
               /\ \A o \in catch[c].left :
                    /\ catch[c].old[o] # None => Detach(gone)[c].old[o] # None
                    /\ o \in gone => Detach(gone)[c].old[o] # None
               /\ gone \cap catch[c].left = {} => Detach(gone)[c] = catch[c]
    <2> DEFINE k == catch[c]
               old == [o \in Orders |-> IF o \in gone \cap k.left /\ k.old[o] = None
                                        THEN mem[o] ELSE k.old[o]]
    <2>1. k \in Catch /\ \A o \in k.left : mem[o] # None \/ k.old[o] # None
      BY DEF SysTypeOK, Catch, Asked
    <2>2. Detach(gone)[c] = [k EXCEPT !.old = old]
      BY DEF Detach
    <2>3. old \in [Orders -> Order \cup {None}]
      BY <2>1 DEF SysTypeOK, Catch
    <2>4. \A o \in k.left : (k.old[o] # None => old[o] # None) /\ (o \in gone => old[o] # None)
      BY <2>1 DEF Catch
    <2>5. gone \cap k.left = {} => old = k.old
      BY <2>1 DEF Catch
    <2> HIDE DEF k, old
    <2>6. /\ [k EXCEPT !.old = old] \in Catch
          /\ [k EXCEPT !.old = old].on = k.on /\ [k EXCEPT !.old = old].left = k.left
          /\ [k EXCEPT !.old = old].todo = k.todo /\ [k EXCEPT !.old = old].old = old
          /\ (old = k.old => [k EXCEPT !.old = old] = k)
      BY <2>1, <2>3 DEF Catch
    <2>7. QED
      BY <2>2, <2>4, <2>5, <2>6 DEF k
  <1>2. QED
    BY <1>1 DEF Detach

\* An order the venue works has something left, and one it does not have has
\* executed nothing.
Unfilled ==
  \A o \in Orders : /\ Open(venue[o]) => venue[o].filled < Qty
                    /\ venue[o].state = "none" => venue[o].filled = 0
TypeInv == SysTypeOK /\ Asked /\ Unfilled

\* What a process that ends leaves is well typed.
LEMMA TypeGone ==
  ASSUME TypeInv, Gone, UNCHANGED <<venue, disk, diskBook>>, halted' \in BOOLEAN, upsets' \in 0..MaxUpsets
  PROVE  TypeInv'
  <1>1. /\ up' = FALSE /\ mem' = NoOrders /\ loaded' = NoOrders /\ lock' = Free
        /\ catch' = [c \in Catchers |-> Idle] /\ warm' = "load" /\ cron' = "idle"
        /\ link' = "never" /\ stream' = <<>> /\ UNCHANGED <<book, venue, disk, diskBook>>
    BY DEF Gone
  <1>2. catch' \in [Catchers -> Catch] /\ \A c \in Catchers : catch'[c].left = {}
    BY <1>1, IdleType DEF Idle
  <1>3. stream' \in Seq(Message \cup {Marker})
    BY <1>1
  <1>4. SysTypeOK'
    BY <1>1, <1>2, <1>3, IdleType DEF TypeInv, SysTypeOK
  <1>5. Asked' /\ Unfilled'
    BY <1>1, <1>2 DEF Asked, Unfilled, TypeInv
  <1>6. QED
    BY <1>4, <1>5 DEF TypeInv

\* An upset is counted.
LEMMA UpsetType == SysTypeOK /\ Upset => upsets' \in 0..MaxUpsets
  BY MaxUpsetsAssumption DEF SysTypeOK, Upset

\* What is emitted is a message.
LEMMA EmitType ==
  ASSUME SysTypeOK, NEW m \in Message, Emit(m)
  PROVE  stream' \in Seq(Message \cup {Marker})
  BY DEF SysTypeOK, Emit

\* The messages that are sent.
LEMMA MessageType ==
  /\ \A o \in Orders, s \in OrderStatus : StatusMsg(o, s) \in Message
  /\ \A o \in Orders, id \in FillId, n \in 1..Qty : FillMsg(o, id, n) \in Message
  /\ \A m \in Message : m # Marker
  BY DEF StatusMsg, FillMsg, Message, Marker

\* The steps of the venue and of the connection keep the types.
LEMMA TypeVenue ==
  ASSUME TypeInv, NEW o \in Orders, VenueFill(o) \/ VenueCancelling(o) \/ VenueCancelled(o)
  PROVE  TypeInv'
  <1>1. venue[o] \in Venues
    BY DEF TypeInv, SysTypeOK
  <1>2. UNCHANGED <<link, disk, diskBook, up, halted, upsets, mem, book, lock, catch, warm, loaded, cron>>
    BY DEF VenueFill, VenueCancelling, VenueCancelled, taskVars
  <1>3. venue' \in [Orders -> Venues] /\ stream' \in Seq(Message \cup {Marker}) /\ Unfilled'
    <2>1. CASE VenueFill(o)
      <3> DEFINE n == venue[o].filled + 1
      <3>1. /\ Open(venue[o]) /\ Emit(FillMsg(o, <<"exec", n>>, 1))
            /\ venue' = [venue EXCEPT ![o].filled = n, ![o].state = IF n = Qty THEN "filled" ELSE @]
        BY <2>1 DEF VenueFill
      <3>2. n \in 1..Qty
        <4>1. venue[o].filled < Qty
          BY <3>1 DEF TypeInv, Unfilled, Open
        <4>2. venue[o].filled \in 0..Qty
          BY <1>1 DEF Venues
        <4>3. QED
          BY <4>1, <4>2, QtyAssumption
      <3>3. FillMsg(o, <<"exec", n>>, 1) \in Message
        BY <3>2, MessageType, QtyAssumption DEF FillId
      <3>4. stream' \in Seq(Message \cup {Marker})
        BY <3>1, <3>3, EmitType DEF TypeInv
      <3> HIDE DEF n
      <3>5. /\ venue' \in [Orders -> Venues] /\ venue'[o].filled = n
            /\ venue'[o].state = IF n = Qty THEN "filled" ELSE venue[o].state
            /\ \A p \in Orders \ {o} : venue'[p] = venue[p]
        <4> DEFINE v == [venue[o] EXCEPT !.filled = n,
                                         !.state = IF n = Qty THEN "filled" ELSE @]
        <4>1. venue' = [venue EXCEPT ![o] = v]
          BY <3>1
        <4>2. n \in 0..Qty
          BY <3>2, QtyAssumption
        <4>3. v \in Venues /\ v.filled = n /\ v.state = IF n = Qty THEN "filled" ELSE venue[o].state
          BY <1>1, <4>2 DEF Venues, VenueState
        <4> HIDE DEF v
        <4>4. QED
          BY <4>1, <4>3 DEF TypeInv, SysTypeOK
      <3>6. Unfilled'
        BY <1>1, <3>1, <3>2, <3>5, QtyAssumption DEF TypeInv, Unfilled, Open
      <3>7. QED
        BY <3>4, <3>5, <3>6
    <2>2. CASE VenueCancelling(o)
      <3>1. venue' \in [Orders -> Venues] /\ Unfilled'
        BY <1>1, <2>2 DEF VenueCancelling, TypeInv, SysTypeOK, Venues, VenueState, Unfilled, Open
      <3>2. QED
        BY <2>2, <3>1, EmitType, MessageType DEF VenueCancelling, TypeInv, OrderStatus
    <2>3. CASE VenueCancelled(o)
      <3>1. venue' \in [Orders -> Venues] /\ Unfilled'
        BY <1>1, <2>3 DEF VenueCancelled, TypeInv, SysTypeOK, Venues, VenueState, Unfilled, Open
      <3>2. QED
        BY <2>3, <3>1, EmitType, MessageType DEF VenueCancelled, TypeInv, OrderStatus
    <2>4. QED
      BY <2>1, <2>2, <2>3
  <1>4. QED
    BY <1>2, <1>3 DEF TypeInv, SysTypeOK, Asked

\* The steps of the stream keep the types.
LEMMA TypeStream ==
  ASSUME TypeInv, Redeliver \/ Drop \/ Connect
  PROVE  TypeInv'
  <1>1. UNCHANGED <<venue, disk, diskBook, up, halted, mem, book, lock, catch, warm, loaded, cron>>
    BY DEF Redeliver, Drop, Connect, taskVars
  <1>2. upsets' \in 0..MaxUpsets
    BY UpsetType DEF Redeliver, Drop, Connect, TypeInv, SysTypeOK
  <1>3. link' \in {"never", "up", "down"}
    BY DEF Redeliver, Drop, Connect, TypeInv, SysTypeOK
  <1>4. stream' \in Seq(Message \cup {Marker})
    <2>1. CASE Redeliver
      <3>1. stream \in Seq(Message \cup {Marker}) /\ stream # <<>>
        BY <2>1 DEF Redeliver, TypeInv, SysTypeOK
      <3>2. stream[Len(stream)] \in Message \cup {Marker}
        BY <3>1
      <3>3. QED
        BY <2>1, <3>1, <3>2 DEF Redeliver
    <2>2. CASE Drop
      <3>1. stream' = <<>> \/ stream' = stream
        BY <2>2 DEF Drop
      <3>2. QED
        BY <3>1, EmptySeq DEF TypeInv, SysTypeOK
    <2>3. CASE Connect
      <3>1. stream' = <<>> \/ stream' = <<Marker>>
        BY <2>3 DEF Connect
      <3> HIDE DEF Marker
      <3>2. <<Marker>> \in Seq(Message \cup {Marker})
        OBVIOUS
      <3>3. QED
        BY <3>1, <3>2, EmptySeq
    <2>4. QED
      BY <2>1, <2>2, <2>3
  <1>5. QED
    BY <1>1, <1>2, <1>3, <1>4 DEF TypeInv, SysTypeOK, Asked, Unfilled

\* What a lock can be, and what it says.
LEMMA LockType ==
  ASSUME SysTypeOK
  PROVE  /\ lock \in Locks
         /\ lock.stage = "done" => /\ lock.order \in Orders /\ lock.obj \in Order
                                   /\ lock.by \in Tasks /\ lock.booked \in BOOLEAN
         /\ lock.stage = "orders" => [lock EXCEPT !.stage = "book"] \in Locks
         /\ lock.stage \in {"orders", "book", "done"} => lock # Free /\ lock.by \in Tasks
         /\ \A t \in Tasks : [stage |-> "orders", by |-> t] \in Locks
  <1>1. lock \in Locks
    BY DEF SysTypeOK
  <1>2. CASE lock = Free
    BY <1>2 DEF Free, Locks
  <1>3. CASE lock \in [stage : {"orders", "book"}, by : Tasks]
    BY <1>3 DEF Free, Locks
  <1>4. CASE lock \in [stage : {"done"}, by : Tasks, order : Orders, obj : Order, booked : BOOLEAN]
    BY <1>4 DEF Free, Locks
  <1>5. QED
    BY <1>1, <1>2, <1>3, <1>4 DEF Locks

\* Booking an update keeps the types.
LEMMA TypeBooked ==
  ASSUME SysTypeOK, NEW u \in Message, NEW by \in Tasks, OnFillEvent(u, by)
  PROVE  /\ mem' \in [Orders -> Order \cup {None}] /\ book' \in [Orders -> Nat] /\ lock' \in Locks
         /\ \A o \in Orders : mem[o] # None => mem'[o] # None
  <1>1. CASE UNCHANGED <<mem, book, lock>>
    BY <1>1 DEF SysTypeOK
  <1>2. ASSUME NEW r \in Order, NEW n \in 0..Qty,
               mem' = [mem EXCEPT ![u.order] = r],
               book' = [book EXCEPT ![u.order] = @ + n],
               \/ lock' = [stage |-> "done", by |-> by, order |-> u.order, obj |-> r,
                           booked |-> n > 0]
               \/ lock' = [stage |-> "orders", by |-> by]
               \/ n = 0 /\ lock' = Free
        PROVE  /\ mem' \in [Orders -> Order \cup {None}] /\ book' \in [Orders -> Nat] /\ lock' \in Locks
               /\ \A o \in Orders : mem[o] # None => mem'[o] # None
    <2>1. u.order \in Orders /\ n \in Nat
      BY QtyAssumption DEF Message
    <2>2. mem' \in [Orders -> Order \cup {None}] /\ \A o \in Orders : mem[o] # None => mem'[o] # None
      BY <1>2, <2>1, OrderFilled DEF SysTypeOK
    <2>3. book' \in [Orders -> Nat]
      BY <1>2, <2>1 DEF SysTypeOK
    <2>4. lock' \in Locks
      <3>1. (n > 0) \in BOOLEAN
        OBVIOUS
      <3>2. CASE lock' = [stage |-> "done", by |-> by, order |-> u.order, obj |-> r, booked |-> n > 0]
        BY <2>1, <3>1, <3>2 DEF Locks
      <3>3. CASE lock' = [stage |-> "orders", by |-> by]
        BY <3>3 DEF Locks
      <3>4. QED
        BY <1>2, <3>2, <3>3, IdleType
    <2>5. QED
      BY <2>2, <2>3, <2>4
  <1>3. QED
    BY <1>1, <1>2, FillEventBooked

\* The fills of a row are fills.
LEMMA RowFillsType == SysTypeOK => \A o \in Orders : RowFills(o) \in Seq(Fill)
  <1> SUFFICES ASSUME SysTypeOK, NEW o \in Orders PROVE RowFills(o) \in Seq(Fill)
    OBVIOUS
  <1>1. CASE disk[o] = None
    BY <1>1, EmptySeq DEF RowFills
  <1>2. CASE disk[o] # None
    <2>1. disk[o] \in Order
      BY <1>2 DEF SysTypeOK
    <2>2. QED
      BY <1>2, <2>1 DEF RowFills, Order, Fill
  <1>3. QED
    BY <1>1, <1>2

\* The handler's steps keep the types.
LEMMA TypeHandler ==
  ASSUME TypeInv, Deliver \/ Save \/ SaveFails
  PROVE  TypeInv'
  <1>1. CASE Deliver
    <2>1. CASE Raises(Head(stream))
      <3>1. Gone /\ UNCHANGED <<venue, disk, diskBook, upsets>> /\ halted' = TRUE
        BY <1>1, <2>1 DEF Deliver, Die
      <3>2. QED
        BY <3>1, TypeGone DEF TypeInv, SysTypeOK
    <2>2. CASE ~Raises(Head(stream))
      <3>1. /\ OnFillEvent(Head(stream), "stream") /\ stream' = Tail(stream)
            /\ UNCHANGED <<venue, link, disk, diskBook, catch, warm, loaded, cron, up, halted, upsets>>
        BY <1>1, <2>2 DEF Deliver
      <3>2. Head(stream) \in Message /\ stream' \in Seq(Message \cup {Marker})
        BY <1>1, <3>1, HeadTailProperties DEF Deliver, TypeInv, SysTypeOK
      <3>3. /\ mem' \in [Orders -> Order \cup {None}] /\ book' \in [Orders -> Nat] /\ lock' \in Locks
            /\ \A o \in Orders : mem[o] # None => mem'[o] # None
        BY <3>1, <3>2, TypeBooked DEF TypeInv, Tasks
      <3>4. SysTypeOK'
        BY <3>1, <3>2, <3>3 DEF TypeInv, SysTypeOK
      <3>5. Asked' /\ Unfilled'
        BY <3>1, <3>3 DEF TypeInv, SysTypeOK, Catch, Asked, Unfilled
      <3>6. QED
        BY <3>4, <3>5 DEF TypeInv
    <2>3. QED
      BY <2>1, <2>2
  <1>2. CASE SaveDone
    <2>1. /\ lock.stage = "done" /\ lock.order \in Orders /\ lock.obj \in Order /\ lock.by \in Tasks
          /\ disk' = [disk EXCEPT ![lock.order] = Stored(RowFills(lock.order), lock.obj)]
          /\ mem' = [mem EXCEPT ![lock.order] = None]
          /\ catch' = Detach({lock.order})
          /\ lock' = IF lock.booked THEN [stage |-> "orders", by |-> lock.by] ELSE Free
          /\ UNCHANGED <<venue, stream, link, diskBook, up, halted, upsets, book, warm, loaded, cron>>
      BY <1>2, LockType DEF SaveDone, TypeInv
    <2>2. Stored(RowFills(lock.order), lock.obj) \in Order
      BY <2>1, RowFillsType, StoredType DEF TypeInv
    <2>3. /\ catch' \in [Catchers -> Catch]
          /\ \A c \in Catchers : /\ catch'[c].left = catch[c].left
                                 /\ \A o \in catch[c].left :
                                      /\ catch[c].old[o] # None => catch'[c].old[o] # None
                                      /\ o = lock.order => catch'[c].old[o] # None
      BY <2>1, DetachType DEF TypeInv
    <2>4. lock' \in Locks
      BY <2>1, LockType, IdleType DEF TypeInv
    <2>5. SysTypeOK'
      BY <2>1, <2>2, <2>3, <2>4 DEF TypeInv, SysTypeOK
    <2>6. Asked' /\ Unfilled'
      BY <2>1, <2>3 DEF TypeInv, SysTypeOK, Catch, Asked, Unfilled
    <2>7. QED
      BY <2>5, <2>6 DEF TypeInv
  <1>3. CASE SaveOrders
    <2>1. /\ lock.stage = "orders" /\ lock' = [lock EXCEPT !.stage = "book"]
          /\ disk' = [o \in Orders |-> IF o \in Known THEN Stored(RowFills(o), mem[o]) ELSE disk[o]]
          /\ UNCHANGED <<venue, stream, link, diskBook, up, halted, upsets, mem, book, catch, warm, loaded, cron>>
      BY <1>3 DEF SaveOrders
    <2>2. \A o \in Known : Stored(RowFills(o), mem[o]) \in Order
      BY RowFillsType, StoredType DEF Known, TypeInv, SysTypeOK
    <2>3. disk' \in [Orders -> Order \cup {None}]
      BY <2>1, <2>2 DEF TypeInv, SysTypeOK
    <2>4. lock' \in Locks
      BY <2>1, LockType DEF TypeInv
    <2>5. QED
      BY <2>1, <2>3, <2>4 DEF TypeInv, SysTypeOK, Asked, Unfilled
  <1>4. CASE SaveBook
    BY <1>4, IdleType DEF SaveBook, TypeInv, SysTypeOK, Asked, Unfilled
  <1>5. CASE SaveFails
    <2>1. upsets' \in 0..MaxUpsets
      BY <1>5, UpsetType DEF SaveFails, TypeInv
    <2>2. CASE Die
      BY <2>1, <2>2, TypeGone DEF Die
    <2>3. CASE ~Die
      <3>1. /\ lock' = Free
            /\ \/ /\ warm' = "quarantined" /\ halted' = TRUE
                  /\ catch' = [catch EXCEPT !["warmup"] = Idle]
               \/ UNCHANGED <<warm, halted, catch>>
            /\ UNCHANGED <<venue, stream, link, disk, diskBook, up, mem, book, loaded, cron>>
        BY <1>5, <2>3 DEF SaveFails
      <3>2. catch' \in [Catchers -> Catch] /\ \A c \in Catchers : catch'[c] = Idle \/ catch'[c] = catch[c]
        BY <3>1, IdleType DEF TypeInv, SysTypeOK
      <3>3. SysTypeOK'
        BY <2>1, <3>1, <3>2, IdleType DEF TypeInv, SysTypeOK
      <3>4. Asked' /\ Unfilled'
        BY <3>1, <3>2 DEF TypeInv, Asked, Unfilled, Idle
      <3>5. QED
        BY <3>3, <3>4 DEF TypeInv
    <2>4. QED
      BY <2>2, <2>3
  <1>6. QED
    BY <1>1, <1>2, <1>3, <1>4, <1>5 DEF Save

\* A reading of one order that found ms to be missing left the catch-up as k.
ReadAs(c, o, ms, k) ==
  /\ catch' = [catch EXCEPT ![c] = k]
  /\ k = [catch[c] EXCEPT !.left = @ \ {o}, !.todo = @ \o ms]
  /\ \A i \in DOMAIN ms :
       /\ ms[i].order = o
       /\ ms[i].kind = "fill" =>
            i = 1 /\ Filled(Ours(c, o)) + ms[i].qty = venue[o].filled

\* A reading of one order: what it was, and what is done about it.
LEMMA OrderRead ==
  ASSUME TypeInv, NEW c \in Catchers, NEW o \in Orders, ReadOrder(c, o)
  PROVE  /\ o \in catch[c].left
         /\ UNCHANGED <<venue, stream, link, disk, diskBook, up, halted, mem, book, lock, warm, loaded, cron>>
         /\ upsets' \in 0..MaxUpsets
         /\ Ours(c, o) \in Order
         /\ \E ms \in Seq(Message), k \in Catch : ReadAs(c, o, ms, k)
  <1> DEFINE k(ms) == [catch[c] EXCEPT !.left = @ \ {o}, !.todo = @ \o ms]
             ours == Ours(c, o)
  <1>1. /\ o \in catch[c].left
        /\ UNCHANGED <<venue, stream, link, disk, diskBook, up, halted, mem, book, lock, warm, loaded, cron>>
    BY DEF ReadOrder
  <1>2. upsets' \in 0..MaxUpsets
    BY UpsetType DEF ReadOrder, TypeInv, SysTypeOK
  <1>3. /\ catch[c] \in Catch /\ catch[c].todo \in Seq(Message) /\ ours \in Order
        /\ venue[o] \in Venues /\ catch[c].left \subseteq Orders
    BY <1>1 DEF TypeInv, SysTypeOK, Asked, Catch, Ours
  <1>4. \A ms \in Seq(Message) : k(ms) \in Catch
    <2> SUFFICES ASSUME NEW ms \in Seq(Message) PROVE k(ms) \in Catch
      OBVIOUS
    <2>1. catch[c].todo \o ms \in Seq(Message)
      BY <1>3
    <2>2. QED
      BY <1>3, <2>1 DEF Catch
  <1>5. \/ catch' = [catch EXCEPT ![c].left = @ \ {o}, ![c].todo = @ \o MissedUpdates(o, ours, venue[o])]
        \/ catch' = [catch EXCEPT ![c].left = @ \ {o}]
    BY DEF ReadOrder
  <1> HIDE DEF ours
  <1>6. CASE catch' = [catch EXCEPT ![c].left = @ \ {o}, ![c].todo = @ \o MissedUpdates(o, ours, venue[o])]
    <2> DEFINE ms == MissedUpdates(o, ours, venue[o])
    <2>1. /\ ms \in Seq(Message)
          /\ \A i \in DOMAIN ms :
               /\ ms[i].order = o
               /\ ms[i].kind = "fill" => i = 1 /\ Filled(ours) + ms[i].qty = venue[o].filled
      BY <1>3, MissedType
    <2> HIDE DEF ms
    <2>2. catch' = [catch EXCEPT ![c] = k(ms)]
      BY <1>3, <1>6 DEF TypeInv, SysTypeOK, Catch, ms
    <2>3. QED
      <3>1. ReadAs(c, o, ms, k(ms))
        BY <1>3, <2>1, <2>2 DEF ReadAs, ours
      <3>2. QED
        BY <1>1, <1>2, <1>3, <1>4, <2>1, <3>1 DEF ours
  <1>7. CASE catch' = [catch EXCEPT ![c].left = @ \ {o}]
    <2>1. <<>> \in Seq(Message) /\ catch[c].todo \o <<>> = catch[c].todo /\ DOMAIN <<>> = {}
      BY <1>3, ConcatEmptySeq, EmptySeq
    <2>2. k(<<>>) = [catch[c] EXCEPT !.left = @ \ {o}]
      BY <1>3, <2>1 DEF Catch
    <2>3. catch' = [catch EXCEPT ![c] = k(<<>>)]
      BY <1>3, <1>7, <2>2 DEF TypeInv, SysTypeOK, Catch
    <2>4. QED
      <3>1. ReadAs(c, o, <<>>, k(<<>>))
        BY <2>1, <2>3 DEF ReadAs
      <3>2. QED
        BY <1>1, <1>2, <1>3, <1>4, <2>1, <3>1 DEF ours
  <1>8. QED
    BY <1>5, <1>6, <1>7

\* The application of one missed update.
LEMMA MissedApplied ==
  ASSUME TypeInv, NEW c \in Catchers, ApplyMissed(c)
  PROVE  /\ up /\ lock = Free /\ catch[c].left = {} /\ catch[c].todo # <<>>
         /\ Head(catch[c].todo) \in Message
         /\ OnFillEvent(Head(catch[c].todo), c) \/ UNCHANGED <<mem, book, lock>>
         /\ [catch[c] EXCEPT !.todo = Tail(@)] \in Catch
         /\ catch' = [catch EXCEPT ![c] = [catch[c] EXCEPT !.todo = Tail(@)]]
         /\ UNCHANGED <<venue, stream, link, disk, diskBook, up, halted, upsets, warm, loaded, cron>>
  <1>1. /\ up /\ lock = Free /\ catch[c].left = {} /\ catch[c].todo # <<>>
        /\ OnFillEvent(Head(catch[c].todo), c) \/ UNCHANGED <<mem, book, lock>>
        /\ catch' = [catch EXCEPT ![c].todo = Tail(@)]
        /\ UNCHANGED <<venue, stream, link, disk, diskBook, up, halted, upsets, warm, loaded, cron>>
    BY DEF ApplyMissed
  <1>2. catch[c] \in Catch /\ catch[c].todo \in Seq(Message)
    BY DEF TypeInv, SysTypeOK, Catch
  <1>3. Head(catch[c].todo) \in Message /\ Tail(catch[c].todo) \in Seq(Message)
    BY <1>1, <1>2, HeadTailProperties
  <1>4. [catch[c] EXCEPT !.todo = Tail(@)] \in Catch
    BY <1>2, <1>3 DEF Catch
  <1>5. catch' = [catch EXCEPT ![c] = [catch[c] EXCEPT !.todo = Tail(@)]]
    BY <1>1, <1>2 DEF TypeInv, SysTypeOK
  <1>6. QED
    BY <1>1, <1>3, <1>4, <1>5

\* The steps of a catch-up keep the types.
LEMMA TypeCatchUp ==
  ASSUME TypeInv, MarkerSeen \/ ReconnectReconciled \/ \E c \in Catchers : CatchUp(c)
  PROVE  TypeInv'
  <1>1. CASE MarkerSeen
    <2> DEFINE k == [Idle EXCEPT !.on = TRUE, !.left = Known]
    <2>1. /\ catch' = [catch EXCEPT !["consumer"] = k] /\ stream' = Tail(stream)
          /\ UNCHANGED <<venue, link, disk, diskBook, up, halted, upsets, mem, book, lock, warm, loaded, cron>>
      BY <1>1 DEF MarkerSeen
    <2>2. k \in Catch /\ k.left = Known
      BY IdleType DEF Idle, Catch, Known
    <2>3. stream' \in Seq(Message \cup {Marker})
      BY <1>1, HeadTailProperties DEF MarkerSeen, TypeInv, SysTypeOK
    <2> HIDE DEF k
    <2>4. SysTypeOK'
      BY <2>1, <2>2, <2>3 DEF TypeInv, SysTypeOK
    <2>5. Asked' /\ Unfilled'
      BY <2>1, <2>2 DEF TypeInv, SysTypeOK, Asked, Unfilled, Known
    <2>6. QED
      BY <2>4, <2>5 DEF TypeInv
  <1>2. CASE ReconnectReconciled
    <2>1. /\ catch' = [catch EXCEPT !["consumer"] = Idle] /\ halted' = (halted \/ Diverged)
          /\ UNCHANGED <<venue, stream, link, disk, diskBook, up, upsets, mem, book, lock, warm, loaded, cron>>
      BY <1>2 DEF ReconnectReconciled
    <2>2. halted' \in BOOLEAN
      BY <2>1 DEF Diverged
    <2>3. SysTypeOK'
      BY <2>1, <2>2, IdleType DEF TypeInv, SysTypeOK
    <2>4. Asked' /\ Unfilled'
      BY <2>1 DEF TypeInv, SysTypeOK, Asked, Unfilled, Idle
    <2>5. QED
      BY <2>3, <2>4 DEF TypeInv
  <1>3. ASSUME NEW c \in Catchers, CatchUp(c) PROVE TypeInv'
    <2>1. ASSUME NEW o \in Orders, ReadOrder(c, o) PROVE TypeInv'
      <3>1. /\ UNCHANGED <<venue, stream, link, disk, diskBook, up, halted, mem, book, lock, warm, loaded, cron>>
            /\ upsets' \in 0..MaxUpsets
        BY <2>1, OrderRead
      <3>2. PICK ms \in Seq(Message), k \in Catch : ReadAs(c, o, ms, k)
        BY <2>1, OrderRead
      <3>3. catch[c] \in Catch /\ k.left \subseteq catch[c].left /\ k.old = catch[c].old
        BY <3>2 DEF TypeInv, SysTypeOK, Catch, ReadAs
      <3>4. SysTypeOK'
        BY <3>1, <3>2 DEF TypeInv, SysTypeOK, ReadAs
      <3>5. Asked' /\ Unfilled'
        BY <3>1, <3>2, <3>3 DEF TypeInv, SysTypeOK, Asked, Unfilled, ReadAs
      <3>6. QED
        BY <3>4, <3>5 DEF TypeInv
    <2>2. CASE ApplyMissed(c)
      <3> DEFINE k == [catch[c] EXCEPT !.todo = Tail(@)]
      <3>1. /\ k \in Catch /\ catch' = [catch EXCEPT ![c] = k]
            /\ UNCHANGED <<venue, stream, link, disk, diskBook, up, halted, upsets, warm, loaded, cron>>
        BY <2>2, MissedApplied
      <3>2. /\ mem' \in [Orders -> Order \cup {None}] /\ book' \in [Orders -> Nat] /\ lock' \in Locks
            /\ \A o \in Orders : mem[o] # None => mem'[o] # None
        BY <2>2, MissedApplied, TypeBooked DEF TypeInv, SysTypeOK, Tasks
      <3>3. k.left = catch[c].left /\ k.old = catch[c].old
        BY DEF TypeInv, SysTypeOK, Catch
      <3> HIDE DEF k
      <3>4. SysTypeOK'
        BY <3>1, <3>2 DEF TypeInv, SysTypeOK
      <3>5. Asked' /\ Unfilled'
        BY <3>1, <3>2, <3>3 DEF TypeInv, SysTypeOK, Catch, Asked, Unfilled
      <3>6. QED
        BY <3>4, <3>5 DEF TypeInv
    <2>3. CASE ReadAgain(c)
      <3> DEFINE k == [catch[c] EXCEPT !.dirty = TRUE]
      <3>1. /\ catch' = [catch EXCEPT ![c] = k]
            /\ UNCHANGED <<venue, stream, link, disk, diskBook, up, halted, upsets, mem, book, lock, warm, loaded, cron>>
        BY <2>3 DEF ReadAgain, TypeInv, SysTypeOK
      <3>2. k \in Catch /\ k.left = catch[c].left /\ k.old = catch[c].old
        BY DEF TypeInv, SysTypeOK, Catch
      <3> HIDE DEF k
      <3>3. SysTypeOK'
        BY <3>1, <3>2 DEF TypeInv, SysTypeOK
      <3>4. Asked' /\ Unfilled'
        BY <3>1, <3>2 DEF TypeInv, SysTypeOK, Asked, Unfilled
      <3>5. QED
        BY <3>3, <3>4 DEF TypeInv
    <2>4. QED
      BY <1>3, <2>1, <2>2, <2>3 DEF CatchUp
  <1>4. QED
    BY <1>1, <1>2, <1>3

\* The steps of the runner, the job and the process keep the types.
LEMMA TypeRunner ==
  ASSUME TypeInv, Warmup \/ NewSession \/ \E o \in Orders : Submit(o)
  PROVE  TypeInv'
  <1>1. CASE WarmupLoad
    <2>1. \A o \in Orders : disk[o] # None => Loaded(disk[o], Qty) \in Order
      BY LoadedType DEF TypeInv, SysTypeOK
    <2>2. /\ loaded' \in [Orders -> Order \cup {None}] /\ warm' = "install"
          /\ UNCHANGED <<venue, stream, link, disk, diskBook, up, halted, upsets, mem, book, lock, catch, cron>>
      BY <1>1, <2>1 DEF WarmupLoad
    <2>3. QED
      BY <2>2 DEF TypeInv, SysTypeOK, Asked, Unfilled
  <1>2. CASE WarmupInstall
    <2> DEFINE gone == {o \in Known : loaded[o] # None}
               k == [Idle EXCEPT !.on = TRUE, !.left = {o \in Orders : mem'[o] # None}]
    <2>1. /\ mem' = [o \in Orders |-> IF loaded[o] # None THEN loaded[o] ELSE mem[o]]
          /\ loaded' = NoOrders /\ warm' = "catchup"
          /\ catch' = [Detach(gone) EXCEPT !["warmup"] = k]
          /\ UNCHANGED <<venue, stream, link, disk, diskBook, up, halted, upsets, book, lock, cron>>
      BY <1>2 DEF WarmupInstall
    <2>2. mem' \in [Orders -> Order \cup {None}] /\ \A o \in Orders : mem[o] # None => mem'[o] # None
      BY <2>1 DEF TypeInv, SysTypeOK
    <2>3. k \in Catch /\ k.left = {o \in Orders : mem'[o] # None}
      BY IdleType DEF Idle, Catch
    <2>4. /\ Detach(gone) \in [Catchers -> Catch]
          /\ \A c \in Catchers : /\ Detach(gone)[c].left = catch[c].left
                                 /\ \A o \in catch[c].left :
                                      catch[c].old[o] # None => Detach(gone)[c].old[o] # None
      BY DetachType DEF TypeInv, Known
    <2> HIDE DEF k, gone
    <2>5. SysTypeOK'
      BY <2>1, <2>2, <2>3, <2>4, IdleType DEF TypeInv, SysTypeOK
    <2>6. Asked' /\ Unfilled'
      BY <2>1, <2>2, <2>3, <2>4 DEF TypeInv, SysTypeOK, Catch, Asked, Unfilled
    <2>7. QED
      BY <2>5, <2>6 DEF TypeInv
  <1>3. CASE WarmupReconciled
    <2>1. /\ catch' = [catch EXCEPT !["warmup"] = Idle] /\ halted' = (halted \/ Diverged)
          /\ warm' \in {"quarantined", "ready"}
          /\ UNCHANGED <<venue, stream, link, disk, diskBook, up, upsets, mem, book, lock, loaded, cron>>
      BY <1>3 DEF WarmupReconciled
    <2>2. halted' \in BOOLEAN
      BY <2>1 DEF Diverged
    <2>3. SysTypeOK'
      BY <2>1, <2>2, IdleType DEF TypeInv, SysTypeOK
    <2>4. Asked' /\ Unfilled'
      BY <2>1 DEF TypeInv, SysTypeOK, Asked, Unfilled, Idle
    <2>5. QED
      BY <2>3, <2>4 DEF TypeInv
  <1>4. CASE NewSession
    <2>1. upsets' \in 0..MaxUpsets
      BY <1>4, UpsetType DEF NewSession, TypeInv
    <2>2. QED
      BY <1>4, <2>1 DEF NewSession, TypeInv, SysTypeOK, Asked, Unfilled
  <1>5. ASSUME NEW o \in Orders, Submit(o) PROVE TypeInv'
    <2> DEFINE new == [status |-> "SUBMITTED", fills |-> <<>>]
    <2>1. /\ venue[o].state = "none" /\ venue' = [venue EXCEPT ![o].state = "working"]
          /\ Emit(StatusMsg(o, "SUBMITTED")) /\ mem' = [mem EXCEPT ![o] = new]
          /\ lock' = [stage |-> "orders", by |-> "evaluate"]
          /\ UNCHANGED <<link, disk, diskBook, up, halted, upsets, book, catch, warm, loaded, cron>>
      BY <1>5 DEF Submit
    <2>2. new \in Order /\ new # None
      BY EmptySeq, OrderFilled DEF Order, OrderStatus
    <2>3. stream' \in Seq(Message \cup {Marker})
      BY <2>1, EmitType, MessageType DEF TypeInv, OrderStatus
    <2>4. lock' \in Locks
      BY <2>1, LockType DEF TypeInv, Tasks
    <2>5. /\ venue' \in [Orders -> Venues] /\ venue'[o].filled = venue[o].filled
          /\ venue'[o].state = "working" /\ \A p \in Orders \ {o} : venue'[p] = venue[p]
      BY <2>1 DEF TypeInv, SysTypeOK, Venues, VenueState
    <2> HIDE DEF new
    <2>6. SysTypeOK'
      BY <2>1, <2>2, <2>3, <2>4, <2>5 DEF TypeInv, SysTypeOK
    <2>7. Asked'
      BY <2>1, <2>2 DEF TypeInv, SysTypeOK, Catch, Asked
    <2>8. Unfilled'
      BY <2>1, <2>5, QtyAssumption DEF TypeInv, Unfilled
    <2>9. QED
      BY <2>6, <2>7, <2>8 DEF TypeInv
  <1>6. QED
    BY <1>1, <1>2, <1>3, <1>4, <1>5 DEF Warmup

\* The job, the end of the process and its restart keep the types.
LEMMA TypeProcess ==
  ASSUME TypeInv, Cron \/ CronUnreachable \/ BrokerUnreachable \/ Crash \/ Restart
  PROVE  TypeInv'
  <1>1. CASE CronRead
    BY <1>1 DEF CronRead, TypeInv, SysTypeOK, Asked, Unfilled
  <1>2. CASE CronWrite
    <2>1. [stage |-> "orders", by |-> "cron"] \in Locks
      BY LockType DEF TypeInv, Tasks
    <2>2. QED
      BY <1>2, <2>1 DEF CronWrite, TypeInv, SysTypeOK, Asked, Unfilled
  <1>3. CASE CronUnreachable
    <2>1. upsets' \in 0..MaxUpsets
      BY <1>3, UpsetType DEF CronUnreachable, TypeInv
    <2>2. QED
      BY <1>3, <2>1 DEF CronUnreachable, TypeInv, SysTypeOK, Asked, Unfilled
  <1>4. CASE BrokerUnreachable
    BY <1>4, UpsetType, TypeGone DEF BrokerUnreachable, Die, TypeInv
  <1>5. CASE Crash
    BY <1>5, UpsetType, TypeGone DEF Crash, TypeInv, SysTypeOK
  <1>6. CASE Restart
    BY <1>6 DEF Restart, TypeInv, SysTypeOK, Asked, Unfilled
  <1>7. QED
    BY <1>1, <1>2, <1>3, <1>4, <1>5, <1>6 DEF Cron

\* A worker boots well typed.
LEMMA TypeInit == Init => TypeInv
  <1> SUFFICES ASSUME Init PROVE TypeInv
    OBVIOUS
  <1>1. stream \in Seq(Message \cup {Marker})
    BY EmptySeq DEF Init
  <1>2. catch \in [Catchers -> Catch] /\ \A c \in Catchers : catch[c].left = {}
    BY IdleType DEF Init, Idle
  <1>3. SysTypeOK
    <2>1. [state |-> "none", filled |-> 0] \in Venues
      BY QtyAssumption DEF Venues, VenueState
    <2>2. venue \in [Orders -> Venues] /\ book \in [Orders -> Nat] /\ diskBook \in [Orders -> Nat]
      BY <2>1 DEF Init
    <2>3. upsets \in 0..MaxUpsets
      BY MaxUpsetsAssumption DEF Init
    <2>4. QED
      BY <1>1, <1>2, <2>2, <2>3, IdleType DEF Init, SysTypeOK
  <1>4. Asked /\ Unfilled
    BY <1>2, QtyAssumption DEF Init, Asked, Unfilled, Open
  <1>5. QED
    BY <1>3, <1>4 DEF TypeInv

\* Every step keeps the types.
LEMMA TypeStep == TypeInv /\ [Next]_vars => TypeInv'
  <1>1. CASE UNCHANGED vars
    BY <1>1 DEF vars, sysVars, procVars, taskVars, TypeInv, SysTypeOK, Asked, Unfilled
  <1>2. ASSUME TypeInv, Next PROVE TypeInv'
    BY <1>2, TypeVenue, TypeStream, TypeHandler, TypeCatchUp, TypeRunner, TypeProcess
       DEF Next, Step, Consume
  <1>3. QED
    BY <1>1, <1>2

\* In every environment every state is well typed: messages name orders and
\* fills of theirs, a write in progress has an order to write, a catch-up has
\* the orders it asks about (OrderSync's state as the worker, the store and the
\* venue keep it).
THEOREM TypesHold == Spec => []TypeOK
  <1>1. Init => TypeInv /\ overlapped \in BOOLEAN
    BY TypeInit DEF Init
  <1>2. TypeInv /\ overlapped \in BOOLEAN /\ [Next]_vars => (TypeInv /\ overlapped \in BOOLEAN)'
    <2>1. overlapped \in BOOLEAN /\ [Next]_vars => overlapped' \in BOOLEAN
      BY Zenon DEF Next, vars
    <2>2. QED
      BY <2>1, TypeStep
  <1>3. TypeInv /\ overlapped \in BOOLEAN => TypeOK
    BY DEF TypeInv, TypeOK
  <1>4. QED
    BY <1>1, <1>2, <1>3, PTL DEF Spec
-----------------------------------------------------------------------------
(* What is stored of what is known, and what is booked of it. *)

\* The list t begins with s.
Begins(s, t) == Len(s) <= Len(t) /\ \A i \in 1..Len(s) : s[i] = t[i]

\* Units filled of an order, or of a row that may not be there.
Units(r) == IF r = None THEN 0 ELSE Filled(r)

SameFills(r, s) == r # None /\ r.fills = s.fills

\* An order the venue has not seen is not ours yet.  A stored row holds a
\* beginning of the fills we know, and all of them before the snapshot of the
\* book is written; a completed order that waits to be saved has the fills the
\* handler left.
RowsInv ==
  /\ ~up => mem = NoOrders
  /\ \A o \in Orders : venue[o].state = "none" => mem[o] = None /\ disk[o] = None
  /\ \A o \in Orders : loaded[o] # None => disk[o] # None
  /\ \A o \in Known : disk[o] # None => /\ Begins(disk[o].fills, mem[o].fills)
                                        /\ Filled(disk[o]) <= Filled(mem[o])
  /\ lock.stage = "book" => \A o \in Known : SameFills(disk[o], mem[o])
  /\ lock.stage = "done" => SameFills(mem[lock.order], lock.obj)

\* What we know and what we stored is what the venue executed, at most; the
\* stored book holds no more than the rows, and a living one no less than the
\* stored one and no more than what we know.
BookInv ==
  \A o \in Orders :
    /\ Units(mem[o]) <= venue[o].filled /\ Units(disk[o]) <= venue[o].filled
    /\ book[o] <= venue[o].filled /\ diskBook[o] <= Units(disk[o])
    /\ up => /\ diskBook[o] <= book[o]
             /\ book[o] <= IF mem[o] # None THEN Units(mem[o]) ELSE Units(disk[o])

\* Booking an update leaves the orders we know, and names its own order and
\* its caller in the write it leaves.
LEMMA BookedShape ==
  ASSUME SysTypeOK, NEW u \in Message, NEW by \in Tasks, OnFillEvent(u, by), lock = Free
  PROVE  /\ Known' = Known /\ lock'.stage # "book"
         /\ lock'.stage = "done" => SameFills(mem'[lock'.order], lock'.obj)
  <1>1. CASE UNCHANGED <<mem, book, lock>>
    BY <1>1 DEF Known, Free
  <1>2. ASSUME NEW r \in Order, NEW n \in 0..Qty, mem[u.order] \in Order,
               mem' = [mem EXCEPT ![u.order] = r],
               \/ lock' = [stage |-> "done", by |-> by, order |-> u.order, obj |-> r,
                           booked |-> n > 0]
               \/ lock' = [stage |-> "orders", by |-> by]
               \/ n = 0 /\ lock' = Free
        PROVE  /\ Known' = Known /\ lock'.stage # "book"
               /\ lock'.stage = "done" => SameFills(mem'[lock'.order], lock'.obj)
    <2>1. u.order \in Orders /\ mem'[u.order] = r
      BY <1>2 DEF Message, SysTypeOK
    <2>2. Known' = Known
      BY <1>2, <2>1, OrderFilled DEF Known, SysTypeOK
    <2>3. /\ lock'.stage # "book"
          /\ lock'.stage = "done" => lock'.order = u.order /\ lock'.obj = r
      BY <1>2 DEF Free
    <2>4. QED
      BY <2>1, <2>2, <2>3, OrderFilled DEF SameFills
  <1>3. QED
    BY <1>1, <1>2, FillEventBooked

\* A row that holds a beginning of an order's fills holds all of them once it
\* is saved.
LEMMA StoredFills ==
  ASSUME NEW s \in Seq(Fill), NEW o \in Order, Begins(s, o.fills)
  PROVE  Stored(s, o).fills = o.fills
  <1> DEFINE t == o.fills
             r == s \o SubSeq(t, Len(s) + 1, Len(t))
  <1>1. t \in Seq(Fill) /\ Begins(s, t)
    BY DEF Order, Fill
  <1>2. Stored(s, o).fills = r
    BY DEF Stored
  <1> HIDE DEF t
  <1>3. r \in Seq(Fill) /\ Len(r) = Len(t) /\ \A i \in 1..Len(r) : r[i] = t[i]
    <2> DEFINE k == Len(s)
    <2>1. k \in Nat /\ Len(t) \in Nat /\ k <= Len(t)
      BY <1>1 DEF Begins
    <2> DEFINE e == SubSeq(t, k + 1, Len(t))
    <2>2. e \in Seq(Fill) /\ Len(e) = Len(t) - k /\ \A i \in 1..Len(e) : e[i] = t[k + i]
      <3>1. \A i \in (k + 1)..Len(t) : t[i] \in Fill
        BY <1>1, <2>1
      <3>2. e \in Seq(Fill)
        BY <1>1, <2>1, <3>1
      <3>3. Len(e) = Len(t) - k
        BY <1>1, <2>1
      <3>4. \A i \in 1..Len(e) : e[i] = t[k + i]
        BY <1>1, <2>1, <3>3
      <3>5. QED
        BY <3>2, <3>3, <3>4
    <2> HIDE DEF e
    <2>3. (s \o e) \in Seq(Fill) /\ Len(s \o e) = Len(t)
      BY <2>1, <2>2
    <2>4. \A i \in 1..Len(t) : (s \o e)[i] = t[i]
      <3> SUFFICES ASSUME NEW i \in 1..Len(t) PROVE (s \o e)[i] = t[i]
        OBVIOUS
      <3>1. CASE i <= k
        BY <1>1, <2>1, <2>2, <3>1 DEF Begins
      <3>2. CASE i > k
        <4> DEFINE j == i - k
        <4>1. (s \o e)[i] = e[j] /\ j \in 1..Len(e) /\ k + j = i
          BY <2>1, <2>2, <3>2
        <4> HIDE DEF j
        <4>2. e[j] = t[k + j]
          BY <2>2, <4>1
        <4> HIDE DEF k
        <4>3. t[k + j] = t[i]
          BY <4>1
        <4>4. QED
          BY <4>1, <4>2, <4>3
      <3>3. i <= k \/ i > k
        BY <2>1
      <3>4. QED
        BY <3>1, <3>2, <3>3, Zenon
    <2>5. QED
      BY <2>3, <2>4 DEF e
  <1> HIDE DEF r
  <1>4. r = t
    BY <1>1, <1>3, SeqEqual
  <1>5. QED
    BY <1>2, <1>4 DEF t

\* Saving the row of an order we know, from an object with its fills, stores
\* them, all of them.
LEMMA RowSaved ==
  ASSUME TypeInv, RowsInv, NEW o \in Known, NEW x \in Order, x.fills = mem[o].fills
  PROVE  /\ Stored(RowFills(o), x) \in Order /\ mem[o] \in Order
         /\ Stored(RowFills(o), x).fills = mem[o].fills
         /\ Filled(Stored(RowFills(o), x)) = Filled(mem[o])
  <1>1. mem[o] \in Order /\ o \in Orders
    BY DEF Known, TypeInv, SysTypeOK
  <1>2. RowFills(o) \in Seq(Fill)
    BY <1>1, RowFillsType DEF TypeInv
  <1>3. Begins(RowFills(o), mem[o].fills)
    <2>1. mem[o].fills \in Seq(Fill)
      BY <1>1 DEF Order, Fill
    <2>2. CASE disk[o] = None
      BY <2>1, <2>2 DEF RowFills, Begins
    <2>3. CASE disk[o] # None
      BY <2>3 DEF RowFills, RowsInv
    <2>4. QED
      BY <2>2, <2>3
  <1>4. Stored(RowFills(o), x).fills = mem[o].fills
    BY <1>1, <1>2, <1>3, StoredFills
  <1>5. QED
    BY <1>1, <1>2, <1>4, StoredType, FilledBySame

\* What is filled of orders and rows are numbers.
LEMMA UnitsType ==
  ASSUME TypeInv
  PROVE  \A o \in Orders : /\ Units(mem[o]) \in Nat /\ Units(disk[o]) \in Nat /\ venue[o].filled \in Nat
                           /\ book[o] \in Nat /\ diskBook[o] \in Nat
                           /\ mem[o] # None => mem[o] \in Order /\ Units(mem[o]) = Filled(mem[o])
                           /\ disk[o] # None => disk[o] \in Order /\ Units(disk[o]) = Filled(disk[o])
  <1> SUFFICES ASSUME NEW o \in Orders
      PROVE  /\ Units(mem[o]) \in Nat /\ Units(disk[o]) \in Nat /\ venue[o].filled \in Nat
             /\ book[o] \in Nat /\ diskBook[o] \in Nat
             /\ mem[o] # None => mem[o] \in Order /\ Units(mem[o]) = Filled(mem[o])
             /\ disk[o] # None => disk[o] \in Order /\ Units(disk[o]) = Filled(disk[o])
    OBVIOUS
  <1>1. /\ mem[o] \in Order \cup {None} /\ disk[o] \in Order \cup {None}
        /\ book[o] \in Nat /\ diskBook[o] \in Nat /\ venue[o] \in Venues
    BY DEF TypeInv, SysTypeOK
  <1>2. venue[o].filled \in Nat
    BY <1>1, QtyAssumption DEF Venues
  <1>3. QED
    BY <1>1, <1>2, OrderFilled DEF Units

\* A list that begins with s still does with one more at its end.
LEMMA BeginsAppend ==
  ASSUME NEW s \in Seq(Fill), NEW t \in Seq(Fill), NEW f, Begins(s, t)
  PROVE  Begins(s, Append(t, f))
  <1>1. Len(s) \in Nat /\ Len(t) \in Nat /\ Len(s) <= Len(t)
    BY DEF Begins
  <1>2. \A i \in 1..Len(t) : Append(t, f)[i] = t[i]
    OBVIOUS
  <1>3. Len(Append(t, f)) = Len(t) + 1
    OBVIOUS
  <1>4. \A i \in 1..Len(s) : s[i] = t[i] /\ i \in 1..Len(t)
    BY <1>1 DEF Begins
  <1>5. \A i \in 1..Len(s) : s[i] = Append(t, f)[i]
    BY <1>2, <1>4
  <1>6. QED
    BY <1>1, <1>3, <1>5 DEF Begins

\* Steps that leave the venue, the orders, the rows and the books alone.
LEMMA StoreKept ==
  ASSUME RowsInv, BookInv, UNCHANGED <<venue, mem, disk, book, diskBook, loaded, up>>,
         lock' = lock \/ lock'.stage \notin {"book", "done"}
  PROVE  RowsInv' /\ BookInv'
  <1>1. RowsInv'
    BY DEF RowsInv, Known
  <1>2. BookInv'
    BY DEF BookInv
  <1>3. QED
    BY <1>1, <1>2

\* Booking an update that the venue has executed keeps rows and books in step.
LEMMA BookingKeeps ==
  ASSUME TypeInv, RowsInv, BookInv, NEW u \in Message, NEW by \in Tasks, OnFillEvent(u, by),
         lock = Free, up, UNCHANGED <<venue, disk, diskBook, loaded, up>>,
         u.kind = "fill" /\ mem[u.order] # None /\ ~AlreadySeen(mem[u.order], u.id) =>
           Filled(mem[u.order]) + u.qty <= venue[u.order].filled
  PROVE  RowsInv' /\ BookInv'
  <1> DEFINE d == u.order
  <1>1. CASE UNCHANGED <<mem, book, lock>>
    BY <1>1, StoreKept
  <1>2. ASSUME NEW r \in Order, NEW n \in 0..Qty, mem[d] \in Order, Kept(u, mem[d], r, n),
               mem' = [mem EXCEPT ![d] = r], book' = [book EXCEPT ![d] = @ + n]
        PROVE  RowsInv' /\ BookInv'
    <2>1. d \in Orders /\ n \in Nat /\ mem[d] # None /\ r # None
      BY <1>2, QtyAssumption, OrderFilled DEF Message
    <2>2. /\ Filled(mem[d]) \in Nat /\ Filled(r) = Filled(mem[d]) + n /\ Filled(r) \in Nat
          /\ mem[d].fills \in Seq(Fill)
      <3>1. Filled(mem[d]) \in Nat /\ Filled(r) \in Nat
        BY <1>2, OrderFilled
      <3>2. Filled(r) = Filled(mem[d]) + n
        BY <1>2, <3>1 DEF Kept
      <3>3. mem[d].fills \in Seq(Fill)
        BY <1>2 DEF Order, Fill
      <3>4. QED
        BY <3>1, <3>2, <3>3
    <2>3. Filled(r) <= venue[d].filled
      <3>1. Units(mem[d]) <= venue[d].filled /\ Units(mem[d]) = Filled(mem[d])
        BY <2>1 DEF BookInv, Units
      <3>2. CASE u.kind = "fill"
        BY <1>2, <2>1, <2>2, <3>2 DEF Kept
      <3>3. CASE u.kind # "fill"
        BY <1>2, <2>2, <3>1, <3>3 DEF Kept
      <3>4. QED
        BY <3>2, <3>3
    <2>4. /\ mem'[d] = r /\ book'[d] = book[d] + n /\ Known' = Known
          /\ \A o \in Orders \ {d} : mem'[o] = mem[o] /\ book'[o] = book[o]
      BY <1>2, <2>1 DEF TypeInv, SysTypeOK, Known
    <2>5. \A s \in Seq(Fill) : Begins(s, mem[d].fills) => Begins(s, r.fills)
      BY <1>2, <2>2, BeginsAppend DEF Kept
    <2>6. /\ Units(mem[d]) = Filled(mem[d]) /\ Units(mem'[d]) = Filled(r)
          /\ disk[d] # None => disk[d].fills \in Seq(Fill) /\ Filled(disk[d]) \in Nat
      <3>1. disk[d] # None => disk[d] \in Order
        BY <2>1 DEF TypeInv, SysTypeOK
      <3>2. QED
        BY <2>1, <2>4, <3>1, OrderFilled DEF Units, Order, Fill
    <2> HIDE DEF d
    <2>7. RowsInv'
      <3>1. /\ lock'.stage # "book" /\ up
            /\ lock'.stage = "done" => SameFills(mem'[lock'.order], lock'.obj)
        BY BookedShape DEF TypeInv
      <3>2. \A o \in Orders : venue[o].state = "none" => mem'[o] = None /\ disk[o] = None
        BY <2>1, <2>4 DEF RowsInv
      <3>3. \A o \in Known : disk[o] # None => /\ Begins(disk[o].fills, mem'[o].fills)
                                               /\ Filled(disk[o]) <= Filled(mem'[o])
        <4> SUFFICES ASSUME NEW o \in Known, disk[o] # None
            PROVE Begins(disk[o].fills, mem'[o].fills) /\ Filled(disk[o]) <= Filled(mem'[o])
          OBVIOUS
        <4>1. CASE o = d
          <5>1. Begins(disk[d].fills, mem[d].fills) /\ Filled(disk[d]) <= Filled(mem[d])
            BY <4>1 DEF RowsInv
          <5>2. QED
            BY <2>1, <2>2, <2>4, <2>5, <2>6, <4>1, <5>1
        <4>2. CASE o # d
          BY <2>4, <4>2 DEF RowsInv, Known
        <4>3. QED
          BY <4>1, <4>2
      <3>4. QED
        BY <2>4, <3>1, <3>2, <3>3 DEF RowsInv
    <2>8. BookInv'
      <3> SUFFICES ASSUME NEW o \in Orders
          PROVE /\ Units(mem'[o]) <= venue[o].filled /\ Units(disk[o]) <= venue[o].filled
                /\ book'[o] <= venue[o].filled /\ diskBook[o] <= Units(disk[o])
                /\ diskBook[o] <= book'[o]
                /\ book'[o] <= IF mem'[o] # None THEN Units(mem'[o]) ELSE Units(disk[o])
        BY DEF BookInv
      <3>1. CASE o = d
        <4>1. /\ Units(disk[d]) <= venue[d].filled /\ diskBook[d] <= Units(disk[d])
              /\ diskBook[d] <= book[d] /\ book[d] <= Filled(mem[d])
          BY <2>1, <2>6 DEF BookInv
        <4>2. book[d] \in Nat /\ diskBook[d] \in Nat /\ venue[d].filled \in Nat
          BY <2>1, UnitsType
        <4>3. book'[d] <= Filled(r) /\ book'[d] <= venue[d].filled /\ diskBook[d] <= book'[d]
          BY <2>1, <2>2, <2>3, <2>4, <4>1, <4>2
        <4>4. QED
          BY <2>1, <2>3, <2>4, <2>6, <3>1, <4>1, <4>3
      <3>2. CASE o # d
        BY <2>4, <3>2 DEF BookInv
      <3>3. QED
        BY <3>1, <3>2
    <2>9. QED
      BY <2>7, <2>8
  <1>3. QED
    BY <1>1, <1>2, FillEventBooked DEF TypeInv

\* A process that ends leaves the rows and the stored book as they are.
LEMMA StoreGone ==
  ASSUME TypeInv, RowsInv, BookInv, Gone, UNCHANGED <<venue, disk, diskBook>>
  PROVE  RowsInv' /\ BookInv'
  <1>1. /\ up' = FALSE /\ mem' = NoOrders /\ loaded' = NoOrders /\ lock' = Free /\ warm' = "load"
        /\ UNCHANGED <<book, venue, disk, diskBook>>
    BY DEF Gone
  <1>2. RowsInv'
    BY <1>1 DEF RowsInv, Known, NoOrders, Free
  <1>3. \A o \in Orders : Units(mem'[o]) = 0
    BY <1>1 DEF Units, NoOrders
  <1>4. BookInv'
    BY <1>1, <1>3, UnitsType DEF BookInv
  <1>5. QED
    BY <1>2, <1>4

\* The writes keep rows and books in step.
LEMMA StoreSaved ==
  ASSUME TypeInv, RowsInv, BookInv, Save \/ SaveFails
  PROVE  RowsInv' /\ BookInv'
  <1>1. CASE SaveDone
    <2> DEFINE d == lock.order
               row == Stored(RowFills(d), lock.obj)
    <2>1. /\ up /\ lock.stage = "done" /\ d \in Orders /\ lock.obj \in Order
          /\ mem[d] # None /\ mem[d].fills = lock.obj.fills
          /\ disk' = [disk EXCEPT ![d] = row] /\ mem' = [mem EXCEPT ![d] = None]
          /\ lock'.stage \notin {"book", "done"}
          /\ UNCHANGED <<venue, stream, link, diskBook, up, halted, upsets, book, warm, loaded, cron>>
      BY <1>1, LockType DEF SaveDone, TypeInv, RowsInv, SameFills, Free
    <2>3. mem[d] # None /\ d \in Known
      BY <2>1 DEF Known
    <2>4. row \in Order /\ Filled(row) = Filled(mem[d]) /\ row # None
      BY <2>1, <2>3, RowSaved, OrderFilled
    <2> HIDE DEF row, d
    <2>5. /\ mem'[d] = None /\ disk'[d] = row
          /\ \A o \in Orders \ {d} : mem'[o] = mem[o] /\ disk'[o] = disk[o]
      BY <2>1 DEF TypeInv, SysTypeOK
    <2>6. RowsInv'
      <3>1. \A o \in Known' : o \in Known /\ o # d
        BY <2>5 DEF Known
      <3>2. \A o \in Orders : venue[o].state = "none" => mem'[o] = None /\ disk'[o] = None
        BY <2>3, <2>5 DEF RowsInv
      <3>3. \A o \in Known' : disk'[o] # None => /\ Begins(disk'[o].fills, mem'[o].fills)
                                                 /\ Filled(disk'[o]) <= Filled(mem'[o])
        BY <2>5, <3>1 DEF RowsInv, Known
      <3>4. QED
        BY <2>1, <2>4, <2>5, <3>2, <3>3 DEF RowsInv
    <2>7. BookInv'
      <3> SUFFICES ASSUME NEW o \in Orders
          PROVE /\ Units(mem'[o]) <= venue[o].filled /\ Units(disk'[o]) <= venue[o].filled
                /\ book[o] <= venue[o].filled /\ diskBook[o] <= Units(disk'[o])
                /\ diskBook[o] <= book[o]
                /\ book[o] <= IF mem'[o] # None THEN Units(mem'[o]) ELSE Units(disk'[o])
        BY <2>1 DEF BookInv
      <3>1. CASE o = d
        <4>1. Units(mem'[d]) = 0 /\ Units(disk'[d]) = Filled(mem[d]) /\ Units(mem[d]) = Filled(mem[d])
          BY <2>3, <2>4, <2>5 DEF Units
        <4>2. /\ Units(mem[d]) <= venue[d].filled /\ book[d] <= venue[d].filled
              /\ diskBook[d] <= book[d] /\ book[d] <= Units(mem[d])
          BY <2>1, <2>3, <3>1 DEF BookInv
        <4>3. venue[d].filled \in Nat /\ book[d] \in Nat /\ diskBook[d] \in Nat /\ Units(mem[d]) \in Nat
          BY <3>1, UnitsType
        <4>4. 0 <= venue[d].filled /\ diskBook[d] <= Units(mem[d])
          BY <4>2, <4>3
        <4>5. QED
          BY <2>5, <3>1, <4>1, <4>2, <4>4
      <3>2. CASE o # d
        BY <2>1, <2>5, <3>2 DEF BookInv
      <3>3. QED
        BY <3>1, <3>2
    <2>8. QED
      BY <2>6, <2>7
  <1>2. CASE SaveOrders
    <2>1. /\ up /\ lock'.stage = "book"
          /\ disk' = [o \in Orders |-> IF o \in Known THEN Stored(RowFills(o), mem[o]) ELSE disk[o]]
          /\ UNCHANGED <<venue, stream, link, diskBook, up, halted, upsets, mem, book, catch, warm, loaded, cron>>
      BY <1>2, LockType DEF SaveOrders, TypeInv, Locks, Free
    <2>2. Known' = Known /\ Known \subseteq Orders
      BY <2>1 DEF Known
    <2>3. \A o \in Known : /\ mem[o] \in Order /\ disk'[o] \in Order /\ disk'[o] # None
                           /\ disk'[o].fills = mem[o].fills /\ Filled(disk'[o]) = Filled(mem[o])
      <3>1. \A o \in Known : mem[o] \in Order /\ disk'[o] = Stored(RowFills(o), mem[o])
        BY <2>1, <2>2 DEF Known, TypeInv, SysTypeOK
      <3>2. QED
        BY <3>1, RowSaved, OrderFilled
    <2>4. \A o \in Orders \ Known : disk'[o] = disk[o] /\ mem[o] = None
      BY <2>1 DEF Known
    <2>5. RowsInv'
      <3>1. \A o \in Orders : venue[o].state = "none" => mem[o] = None /\ disk'[o] = None
        BY <2>4 DEF RowsInv, Known
      <3>2. \A o \in Known : Begins(disk'[o].fills, mem[o].fills) /\ Filled(disk'[o]) <= Filled(mem[o])
        <4> SUFFICES ASSUME NEW o \in Known
            PROVE Begins(disk'[o].fills, mem[o].fills) /\ Filled(disk'[o]) <= Filled(mem[o])
          OBVIOUS
        <4>1. mem[o].fills \in Seq(Fill) /\ Filled(mem[o]) \in Nat
          BY <2>3, OrderFilled DEF Order, Fill
        <4>2. Begins(mem[o].fills, mem[o].fills)
          BY <4>1 DEF Begins
        <4>3. QED
          BY <2>3, <4>1, <4>2
      <3>3. \A o \in Known : SameFills(disk'[o], mem[o])
        BY <2>3 DEF SameFills
      <3>4. \A o \in Orders : loaded[o] # None => disk'[o] # None
        BY <2>3, <2>4 DEF RowsInv, Known
      <3>5. QED
        BY <2>1, <2>2, <3>1, <3>2, <3>3, <3>4 DEF RowsInv, Known
    <2>6. BookInv'
      <3> SUFFICES ASSUME NEW o \in Orders
          PROVE /\ Units(mem[o]) <= venue[o].filled /\ Units(disk'[o]) <= venue[o].filled
                /\ book[o] <= venue[o].filled /\ diskBook[o] <= Units(disk'[o])
                /\ diskBook[o] <= book[o]
                /\ book[o] <= IF mem[o] # None THEN Units(mem[o]) ELSE Units(disk'[o])
        BY <2>1 DEF BookInv
      <3>1. CASE o \in Known
        <4>1. mem[o] # None /\ Units(disk'[o]) = Units(mem[o])
          BY <2>3, <3>1 DEF Units, Known
        <4>2. /\ Units(mem[o]) <= venue[o].filled /\ book[o] <= venue[o].filled
              /\ diskBook[o] <= book[o] /\ book[o] <= Units(mem[o])
          BY <2>1, <4>1 DEF BookInv
        <4>3. book[o] \in Nat /\ diskBook[o] \in Nat /\ Units(mem[o]) \in Nat
          BY UnitsType
        <4>4. diskBook[o] <= Units(mem[o])
          BY <4>2, <4>3
        <4>5. QED
          BY <4>1, <4>2, <4>4
      <3>2. CASE o \notin Known
        BY <2>1, <2>4, <3>2 DEF BookInv
      <3>3. QED
        BY <3>1, <3>2
    <2>7. QED
      BY <2>5, <2>6
  <1>3. CASE SaveBook
    <2>1. /\ up /\ lock.stage = "book" /\ diskBook' = book /\ lock' = Free
          /\ UNCHANGED <<venue, stream, link, disk, up, halted, upsets, mem, book, catch, warm, loaded, cron>>
      BY <1>3 DEF SaveBook
    <2>2. RowsInv'
      BY <2>1 DEF RowsInv, Known, Free
    <2>3. ASSUME NEW o \in Orders
          PROVE  book[o] <= Units(disk[o]) /\ book[o] <= book[o]
      <3>1. mem[o] # None => Units(disk[o]) = Units(mem[o])
        <4>1. mem[o] # None => SameFills(disk[o], mem[o])
          BY <2>1 DEF RowsInv, Known
        <4>2. QED
          BY <4>1, FilledBySame DEF SameFills, Units
      <3>2. book[o] \in Nat
        BY UnitsType
      <3>3. QED
        BY <2>1, <3>1, <3>2 DEF BookInv
    <2>4. BookInv'
      BY <2>1, <2>3 DEF BookInv
    <2>5. QED
      BY <2>2, <2>4
  <1>4. CASE SaveFails
    <2>1. CASE Die
      BY <2>1, StoreGone DEF Die
    <2>2. CASE ~Die
      <3>1. /\ lock' = Free
            /\ UNCHANGED <<venue, stream, link, disk, diskBook, up, mem, book, loaded, cron>>
        BY <1>4, <2>2 DEF SaveFails
      <3>2. QED
        BY <3>1, StoreKept DEF Free
    <2>3. QED
      BY <2>1, <2>2
  <1>5. QED
    BY <1>1, <1>2, <1>3, <1>4 DEF Save

\* The venue only ever executes more, of an order it has.
LEMMA VenueGrows ==
  ASSUME TypeInv, NEW o \in Orders, VenueFill(o) \/ VenueCancelling(o) \/ VenueCancelled(o)
  PROVE  /\ venue[o].state # "none" /\ venue'[o].state # "none"
         /\ \A p \in Orders : /\ venue'[p].filled \in Nat /\ venue[p].filled \in Nat
                              /\ venue[p].filled <= venue'[p].filled
                              /\ p # o => venue'[p] = venue[p]
         /\ VenueFill(o) => /\ venue'[o].filled = venue[o].filled + 1
                            /\ Emit(FillMsg(o, <<"exec", venue'[o].filled>>, 1))
                            /\ venue'[o].filled \in 1..Qty
         /\ ~VenueFill(o) => \E s \in OrderStatus : Emit(StatusMsg(o, s))
  <1>1. venue \in [Orders -> Venues] /\ venue[o] \in Venues
    BY DEF TypeInv, SysTypeOK
  <1>2. \A p \in Orders : venue[p].filled \in Nat
    BY <1>1, UnitsType
  <1>3. CASE VenueFill(o)
    <2> DEFINE n == venue[o].filled + 1
               v == [venue[o] EXCEPT !.filled = n, !.state = IF n = Qty THEN "filled" ELSE @]
    <2>1. Open(venue[o]) /\ venue' = [venue EXCEPT ![o] = v] /\ Emit(FillMsg(o, <<"exec", n>>, 1))
      BY <1>3 DEF VenueFill
    <2>2. v.filled = n /\ v.state # "none" /\ venue[o].state # "none"
      BY <1>1, <2>1 DEF Venues, Open
    <2>3. n \in 1..Qty /\ n \in Nat /\ venue[o].filled <= n
      <3>1. venue[o].filled < Qty
        BY <2>1 DEF TypeInv, Unfilled
      <3>2. QED
        BY <1>2, <3>1, QtyAssumption
    <2> HIDE DEF v, n
    <2>4. venue'[o] = v /\ \A p \in Orders \ {o} : venue'[p] = venue[p]
      BY <1>1, <2>1
    <2>5. venue'[o].filled = venue[o].filled + 1 /\ venue'[o].filled = n
      BY <2>2, <2>4 DEF n
    <2>6. \A p \in Orders : /\ venue'[p].filled \in Nat /\ venue[p].filled <= venue'[p].filled
                            /\ p # o => venue'[p] = venue[p]
      <3> SUFFICES ASSUME NEW p \in Orders
          PROVE  /\ venue'[p].filled \in Nat /\ venue[p].filled <= venue'[p].filled
                 /\ p # o => venue'[p] = venue[p]
        OBVIOUS
      <3>1. CASE p = o
        BY <2>3, <2>5, <3>1
      <3>2. CASE p # o
        BY <1>2, <2>4, <3>2
      <3>3. QED
        BY <3>1, <3>2
    <2>7. QED
      BY <1>2, <1>3, <2>1, <2>2, <2>3, <2>4, <2>5, <2>6
  <1>4. CASE ~VenueFill(o)
    <2>1. /\ venue[o].state # "none"
          /\ \E s \in {"pending_cancel", "cancelled"} : venue' = [venue EXCEPT ![o].state = s]
          /\ \E s \in OrderStatus : Emit(StatusMsg(o, s))
      BY <1>4 DEF VenueCancelling, VenueCancelled, OrderStatus
    <2>2. /\ venue'[o].state # "none" /\ venue'[o].filled = venue[o].filled
          /\ \A p \in Orders \ {o} : venue'[p] = venue[p]
      BY <1>1, <2>1 DEF Venues
    <2>3. QED
      BY <1>2, <1>4, <2>1, <2>2
  <1>5. QED
    BY <1>3, <1>4

\* What the venue does keeps rows and books in step.
LEMMA StoreVenue ==
  ASSUME TypeInv, RowsInv, BookInv, NEW o \in Orders,
         VenueFill(o) \/ VenueCancelling(o) \/ VenueCancelled(o)
  PROVE  RowsInv' /\ BookInv'
  <1>1. UNCHANGED <<link, disk, diskBook, up, halted, upsets, mem, book, lock, catch, warm, loaded, cron>>
    BY DEF VenueFill, VenueCancelling, VenueCancelled, taskVars
  <1>2. /\ \A p \in Orders : venue'[p].state = "none" => venue[p].state = "none"
        /\ \A p \in Orders : /\ venue'[p].filled \in Nat /\ venue[p].filled \in Nat
                             /\ venue[p].filled <= venue'[p].filled
    BY VenueGrows
  <1>3. RowsInv'
    BY <1>1, <1>2 DEF RowsInv, Known
  <1>4. BookInv'
    <2> SUFFICES ASSUME NEW p \in Orders
        PROVE /\ Units(mem[p]) <= venue'[p].filled /\ Units(disk[p]) <= venue'[p].filled
              /\ book[p] <= venue'[p].filled
      BY <1>1 DEF BookInv
    <2>1. /\ Units(mem[p]) \in Nat /\ Units(disk[p]) \in Nat /\ book[p] \in Nat
          /\ Units(mem[p]) <= venue[p].filled /\ Units(disk[p]) <= venue[p].filled
          /\ book[p] <= venue[p].filled
      BY UnitsType DEF BookInv
    <2>2. QED
      BY <1>2, <2>1
  <1>5. QED
    BY <1>3, <1>4

\* What an unoverlapped installation leaves of an order has the fills that were
\* on record.
LEMMA Installed ==
  ASSUME TypeInv, RowsInv, WarmupInstall, ~InstallsOver
  PROVE  \A o \in Orders :
           /\ loaded[o] = None => mem'[o] = mem[o]
           /\ loaded[o] # None => /\ mem'[o] = loaded[o] /\ disk[o] # None /\ Record(o) # None
                                  /\ loaded[o].fills = Record(o).fills
  BY DEF WarmupInstall, InstallsOver, Record, RowsInv

\* Warming up, opening a session and submitting keep rows and books in step,
\* when nothing is installed over newer fills.
LEMMA StoreRunner ==
  ASSUME TypeInv, RowsInv, BookInv, ~InstallsOver, Warmup \/ NewSession \/ \E o \in Orders : Submit(o)
  PROVE  RowsInv' /\ BookInv'
  <1>1. CASE WarmupLoad
    <2>1. /\ up /\ warm = "load"
          /\ loaded' = [o \in Orders |-> IF disk[o] = None \/ IsTerminal(disk[o].status)
                                         THEN None ELSE Loaded(disk[o], Qty)]
          /\ UNCHANGED <<venue, stream, link, disk, diskBook, up, halted, upsets, mem, book, lock, catch, cron>>
      BY <1>1 DEF WarmupLoad
    <2>2. \A o \in Orders : loaded'[o] # None => disk[o] # None
      BY <2>1
    <2>3. RowsInv'
      BY <2>1, <2>2 DEF RowsInv, Known
    <2>4. BookInv'
      BY <2>1 DEF BookInv
    <2>5. QED
      BY <2>3, <2>4
  <1>2. CASE WarmupInstall
    <2>1. /\ up /\ loaded' = NoOrders
          /\ UNCHANGED <<venue, stream, link, disk, diskBook, up, halted, upsets, book, lock, cron>>
      BY <1>2 DEF WarmupInstall
    <2>2. \A o \in Orders :
            /\ loaded[o] = None => mem'[o] = mem[o]
            /\ loaded[o] # None => /\ mem'[o] = loaded[o] /\ disk[o] # None /\ disk[o].fills \in Seq(Fill)
                                   /\ mem[o] # None => mem'[o].fills = mem[o].fills
                                   /\ mem[o] = None => mem'[o].fills = disk[o].fills
      <3>1. \A o \in Orders : disk[o] # None => disk[o].fills \in Seq(Fill)
        BY DEF TypeInv, SysTypeOK, Order, Fill
      <3>2. QED
        BY <1>2, <3>1, Installed DEF Record
    <2>3. \A o \in Orders :
            /\ mem[o] # None => /\ mem'[o] # None /\ mem'[o].fills = mem[o].fills
                                /\ Filled(mem'[o]) = Filled(mem[o])
            /\ mem[o] = None /\ mem'[o] # None =>
                 /\ disk[o] # None /\ mem'[o].fills = disk[o].fills /\ disk[o].fills \in Seq(Fill)
                 /\ Filled(mem'[o]) = Filled(disk[o])
      BY <2>2, FilledBySame
    <2>4. RowsInv'
      <3>1. \A o \in Orders : venue[o].state = "none" => mem'[o] = None /\ disk[o] = None
        BY <2>3 DEF RowsInv
      <3>2. ASSUME NEW o \in Known', disk[o] # None
            PROVE  Begins(disk[o].fills, mem'[o].fills) /\ Filled(disk[o]) <= Filled(mem'[o])
        <4>1. o \in Orders /\ mem'[o] # None
          BY <3>2 DEF Known
        <4>2. CASE mem[o] # None
          BY <2>3, <3>2, <4>1, <4>2 DEF RowsInv, Known
        <4>3. CASE mem[o] = None
          <5>1. Filled(disk[o]) \in Nat
            BY <3>2, <4>1, UnitsType, OrderFilled
          <5>2. Begins(disk[o].fills, disk[o].fills)
            BY <2>3, <4>1, <4>3 DEF Begins
          <5>3. QED
            BY <2>3, <4>1, <4>3, <5>1, <5>2
        <4>4. QED
          BY <4>2, <4>3
      <3>3. lock.stage = "book" => \A o \in Known' : SameFills(disk[o], mem'[o])
        BY <2>3 DEF RowsInv, Known, SameFills
      <3>4. lock.stage = "done" => SameFills(mem'[lock.order], lock.obj)
        BY <2>3, LockType DEF TypeInv, RowsInv, SameFills
      <3>5. QED
        BY <2>1, <3>1, <3>2, <3>3, <3>4 DEF RowsInv, NoOrders
    <2>5. BookInv'
      <3> SUFFICES ASSUME NEW o \in Orders
          PROVE /\ Units(mem'[o]) <= venue[o].filled
                /\ book[o] <= IF mem'[o] # None THEN Units(mem'[o]) ELSE Units(disk[o])
        BY <2>1 DEF BookInv
      <3>1. /\ Units(mem[o]) <= venue[o].filled /\ Units(disk[o]) <= venue[o].filled
            /\ book[o] <= IF mem[o] # None THEN Units(mem[o]) ELSE Units(disk[o])
        BY <2>1 DEF BookInv
      <3>2. CASE mem[o] # None
        BY <2>3, <3>1, <3>2 DEF Units
      <3>3. CASE mem[o] = None
        BY <2>3, <3>1, <3>3 DEF Units
      <3>4. QED
        BY <3>2, <3>3
    <2>6. QED
      BY <2>4, <2>5
  <1>3. CASE WarmupReconciled
    BY <1>3, StoreKept DEF WarmupReconciled
  <1>4. CASE NewSession
    BY <1>4, StoreKept DEF NewSession
  <1>5. ASSUME NEW o \in Orders, Submit(o) PROVE RowsInv' /\ BookInv'
    <2> DEFINE new == [status |-> "SUBMITTED", fills |-> <<>>]
    <2>1. /\ up /\ warm = "ready" /\ lock' = [stage |-> "orders", by |-> "evaluate"]
          /\ venue[o].state = "none" /\ venue' = [venue EXCEPT ![o].state = "working"]
          /\ mem' = [mem EXCEPT ![o] = new]
          /\ UNCHANGED <<link, disk, diskBook, up, halted, upsets, book, catch, warm, loaded, cron>>
      BY <1>5 DEF Submit
    <2>2. new \in Order /\ new # None /\ Filled(new) = 0
      BY EmptySeq, OrderFilled, FilledOfNone DEF Order, OrderStatus
    <2> HIDE DEF new
    <2>3. /\ mem[o] = None /\ disk[o] = None /\ mem'[o] = new
          /\ venue'[o].state # "none" /\ venue'[o].filled = venue[o].filled
          /\ \A p \in Orders \ {o} : mem'[p] = mem[p] /\ venue'[p] = venue[p]
      BY <2>1 DEF RowsInv, TypeInv, SysTypeOK, Venues
    <2>4. Known' = Known \cup {o}
      BY <2>2, <2>3 DEF Known
    <2>5. RowsInv'
      <3>1. \A p \in Orders : venue'[p].state = "none" => mem'[p] = None /\ disk[p] = None
        BY <2>3 DEF RowsInv
      <3>2. \A p \in Known' : disk[p] # None => /\ Begins(disk[p].fills, mem'[p].fills)
                                                /\ Filled(disk[p]) <= Filled(mem'[p])
        BY <2>3, <2>4 DEF RowsInv, Known
      <3>3. QED
        BY <2>1, <3>1, <3>2 DEF RowsInv
    <2>6. BookInv'
      <3> SUFFICES ASSUME NEW p \in Orders
          PROVE /\ Units(mem'[p]) <= venue'[p].filled /\ Units(disk[p]) <= venue'[p].filled
                /\ book[p] <= venue'[p].filled /\ diskBook[p] <= book[p]
                /\ book[p] <= IF mem'[p] # None THEN Units(mem'[p]) ELSE Units(disk[p])
        BY <2>1 DEF BookInv
      <3>1. CASE p = o
        <4>1. Units(mem[o]) = 0 /\ Units(disk[o]) = 0 /\ Units(mem'[o]) = 0 /\ mem'[o] # None
          BY <2>2, <2>3 DEF Units
        <4>2. QED
          BY <2>1, <2>3, <3>1, <4>1 DEF BookInv
      <3>2. CASE p # o
        BY <2>1, <2>3, <3>2 DEF BookInv
      <3>3. QED
        BY <3>1, <3>2
    <2>7. QED
      BY <2>5, <2>6
  <1>6. QED
    BY <1>1, <1>2, <1>3, <1>4, <1>5 DEF Warmup

\* So do the five-minute job, the end of the process and its restart.
LEMMA StoreProcess ==
  ASSUME TypeInv, RowsInv, BookInv, Cron \/ CronUnreachable \/ BrokerUnreachable \/ Crash \/ Restart
  PROVE  RowsInv' /\ BookInv'
  <1>1. CASE Cron \/ CronUnreachable
    <2>1. /\ UNCHANGED <<venue, disk, diskBook, up, mem, book, warm, loaded>>
          /\ lock' = lock \/ lock'.stage \notin {"book", "done"}
      BY <1>1 DEF Cron, CronRead, CronWrite, CronUnreachable
    <2>2. QED
      BY <2>1, StoreKept
  <1>2. CASE BrokerUnreachable \/ Crash
    BY <1>2, StoreGone DEF BrokerUnreachable, Crash, Die
  <1>3. CASE Restart
    <2>1. /\ ~up /\ book' = diskBook
          /\ UNCHANGED <<venue, stream, link, disk, diskBook, halted, upsets, mem, lock, catch, warm, loaded, cron>>
      BY <1>3 DEF Restart
    <2>2. \A o \in Orders : mem[o] = None
      BY <2>1 DEF RowsInv, NoOrders
    <2>3. RowsInv'
      BY <2>1, <2>2 DEF RowsInv, Known
    <2>4. ASSUME NEW o \in Orders
          PROVE  /\ diskBook[o] <= venue[o].filled /\ diskBook[o] <= diskBook[o]
                 /\ diskBook[o] <= Units(disk[o])
      <3>1. diskBook[o] <= Units(disk[o]) /\ Units(disk[o]) <= venue[o].filled
        BY DEF BookInv
      <3>2. diskBook[o] \in Nat /\ Units(disk[o]) \in Nat /\ venue[o].filled \in Nat
        BY UnitsType
      <3>3. QED
        BY <3>1, <3>2
    <2>5. BookInv'
      BY <2>1, <2>2, <2>4 DEF BookInv
    <2>6. QED
      BY <2>3, <2>5
  <1>4. QED
    BY <1>1, <1>2, <1>3

-----------------------------------------------------------------------------
(* What is on its way: over the stream, and read by a catch-up.             *)

\* What the process has of every order.
Records == [o \in Orders |-> Record(o)]

Seen(r, id) == r # None /\ AlreadySeen(r, id)

\* A fill on the stream is one execution of the venue's, numbered as it was
\* executed: we have it, or we have less than its number.
Coming(m, v, k) ==
  /\ m.qty = 1 /\ m.id[1] = "exec" /\ m.id[2] <= v[m.order].filled
  /\ Seen(k[m.order], m.id) \/ Units(k[m.order]) < m.id[2]

\* With a fill t that a catch-up has read we have what the venue has, at most,
Due(t, v, k) == Units(k[t.order]) + t.qty <= v[t.order].filled

\* and what is on the stream of its order is not in t.
Beyond(m, t, k) == Seen(k[m.order], m.id) \/ Units(k[m.order]) + t.qty < m.id[2]

\* The executions of one order come in their order.
Ordered(s) ==
  \A i, j \in DOMAIN s :
    i < j /\ s[i].kind = "fill" /\ s[j].kind = "fill" /\ s[i].order = s[j].order
      => s[i].id[2] <= s[j].id[2]

\* A fill that is to be applied is the only one of its order that is.
FlightInv ==
  /\ Ordered(stream)
  /\ \A i \in DOMAIN stream : stream[i].kind = "fill" => Coming(stream[i], venue, Records)
  /\ \A c \in Catchers : \A i \in DOMAIN catch[c].todo : catch[c].todo[i].kind = "fill" =>
       /\ Due(catch[c].todo[i], venue, Records)
       /\ \A j \in DOMAIN stream : FillOf(stream[j], catch[c].todo[i].order) =>
            Beyond(stream[j], catch[c].todo[i], Records)
       /\ \A d \in Catchers : \A j \in DOMAIN catch[d].todo :
            FillOf(catch[d].todo[j], catch[c].todo[i].order) => d = c /\ j = i

\* Two records that count as the same: what is filled of them, and the ids seen.
Alike(r, s) == Units(r) = Units(s) /\ \A id : Seen(r, id) <=> Seen(s, id)

\* Records with the same fills count as the same.
LEMMA AlikeFills ==
  ASSUME NEW r, NEW s, r # None, s # None, r.fills = s.fills
  PROVE  Alike(r, s)
  BY FilledBySame DEF Alike, Units, Seen, AlreadySeen

\* Nothing of an order is on record beyond what the venue has executed.
LEMMA RecordsExecuted ==
  ASSUME TypeInv, BookInv
  PROVE  \A o \in Orders : /\ Units(Records[o]) \in Nat /\ Units(Records[o]) <= venue[o].filled
                           /\ venue[o].filled \in Nat
  BY UnitsType DEF BookInv, Records, Record

\* The ids of fills are what their parts are.
LEMMA SameId == \A a, b \in FillId : a[1] = b[1] /\ a[2] = b[2] => a = b
  BY DEF FillId

\* A message of ours: what its parts are.
LEMMA MessageParts ==
  ASSUME NEW m \in Message \cup {Marker}, m.kind = "fill"
  PROVE  /\ m \in Message /\ m.order \in Orders /\ m.id \in FillId /\ m.qty \in 1..Qty /\ m.id[2] \in 1..Qty
         /\ m.qty \in Nat /\ m.id[2] \in Nat
  <1>1. /\ m \in Message /\ m.order \in Orders /\ m.id \in FillId /\ m.qty \in 1..Qty /\ m.id[2] \in 1..Qty
    BY DEF Message, Marker, FillId
  <1>2. QED
    BY <1>1, QtyAssumption

\* What is on the stream and what is to be applied are messages.
LEMMA FlightTypes ==
  ASSUME TypeInv
  PROVE  /\ stream \in Seq(Message \cup {Marker})
         /\ \A i \in DOMAIN stream : stream[i] \in Message \cup {Marker}
         /\ \A c \in Catchers : catch[c] \in Catch /\ catch[c].todo \in Seq(Message)
         /\ \A c \in Catchers : \A i \in DOMAIN catch[c].todo : catch[c].todo[i] \in Message
  <1>1. stream \in Seq(Message \cup {Marker}) /\ \A c \in Catchers : catch[c] \in Catch
    BY DEF TypeInv, SysTypeOK
  <1>2. \A c \in Catchers : catch[c].todo \in Seq(Message)
    BY <1>1 DEF Catch
  <1>3. QED
    BY <1>1, <1>2

\* With nothing on its way there is nothing to say.
LEMMA FlightEmpty ==
  ASSUME stream = <<>>, \A c \in Catchers : catch[c].todo = <<>>
  PROVE  FlightInv
  BY DEF FlightInv, Ordered

\* A fill the venue has just executed.
Fresh(m, v, w) ==
  m.qty = 1 /\ m.id[1] = "exec" /\ v[m.order].filled < m.id[2] /\ m.id[2] <= w[m.order].filled

\* The list s is the list t, or nothing, or t without its first b.
Rest(s, t, b) == \A i \in DOMAIN s : i + b \in DOMAIN t /\ s[i] = t[i + b]

\* A step that reads nothing over REST: what is on its way was, or is fresh; and
\* the records of the orders D at most change, which are looked at apart.
LEMMA FlightKept ==
  ASSUME TypeInv, TypeInv', BookInv, FlightInv, NEW D \in SUBSET Orders, NEW b \in [Catchers -> Nat],
         \A o \in Orders \ D : Alike(Records'[o], Records[o]),
         \A o \in Orders : venue'[o].filled \in Nat /\ venue[o].filled <= venue'[o].filled,
         Ordered(stream'),
         \A i \in DOMAIN stream' : stream'[i].kind = "fill" =>
           (\E j \in DOMAIN stream : stream'[i] = stream[j]) \/ Fresh(stream'[i], venue, venue'),
         \A c \in Catchers : Rest(catch'[c].todo, catch[c].todo, b[c]),
         \A i \in DOMAIN stream' : stream'[i].kind = "fill" /\ stream'[i].order \in D =>
           Coming(stream'[i], venue', Records'),
         \A c \in Catchers : \A i \in DOMAIN catch'[c].todo :
           catch'[c].todo[i].kind = "fill" /\ catch'[c].todo[i].order \in D =>
           /\ Due(catch'[c].todo[i], venue', Records')
           /\ \A j \in DOMAIN stream' : FillOf(stream'[j], catch'[c].todo[i].order) =>
                Beyond(stream'[j], catch'[c].todo[i], Records')
  PROVE  FlightInv'
  <1>1. /\ \A i \in DOMAIN stream : stream[i] \in Message \cup {Marker}
        /\ \A i \in DOMAIN stream' : stream'[i] \in Message \cup {Marker}
        /\ \A c \in Catchers : \A i \in DOMAIN catch[c].todo : catch[c].todo[i] \in Message
        /\ \A c \in Catchers : catch'[c].todo \in Seq(Message)
    <2>1. stream' \in Seq(Message \cup {Marker}) /\ \A c \in Catchers : catch'[c] \in Catch
      BY DEF TypeInv, SysTypeOK
    <2>2. \A c \in Catchers : catch'[c].todo \in Seq(Message)
      BY <2>1 DEF Catch
    <2>3. QED
      BY <2>1, <2>2, FlightTypes
  <1>2. \A o \in Orders \ D : /\ Units(Records'[o]) = Units(Records[o]) /\ Units(Records[o]) \in Nat
                                /\ Units(Records[o]) <= venue[o].filled /\ venue[o].filled \in Nat
                                /\ venue'[o].filled \in Nat /\ venue[o].filled <= venue'[o].filled
                                /\ \A id : Seen(Records[o], id) => Seen(Records'[o], id)
    BY RecordsExecuted DEF Alike
  <1>3. ASSUME NEW i \in DOMAIN stream', stream'[i].kind = "fill"
        PROVE  Coming(stream'[i], venue', Records')
    <2> DEFINE m == stream'[i]
               o == m.order
    <2>1. m \in Message \cup {Marker} /\ o \in Orders /\ m.id[2] \in Nat
      BY <1>1, <1>3, MessageParts
    <2>2. CASE o \in D
      BY <1>3, <2>2 DEF FillOf
    <2>3. CASE o \notin D
      <3>1. CASE \E j \in DOMAIN stream : m = stream[j]
        <4>1. Coming(m, venue, Records)
          BY <1>3, <3>1 DEF FlightInv
        <4> HIDE DEF m
        <4>2. /\ m.qty = 1 /\ m.id[1] = "exec" /\ m.id[2] <= venue[o].filled
              /\ Seen(Records[o], m.id) \/ Units(Records[o]) < m.id[2]
          BY <4>1 DEF Coming
        <4>3. /\ m.qty = 1 /\ m.id[1] = "exec" /\ m.id[2] <= venue'[o].filled
              /\ Seen(Records'[o], m.id) \/ Units(Records'[o]) < m.id[2]
          <5>1. o \in Orders \ D
            BY <2>1, <2>3
          <5>2. m.id[2] <= venue'[o].filled
            BY <1>2, <2>1, <4>2, <5>1
          <5>3. CASE Seen(Records[o], m.id)
            BY <1>2, <4>2, <5>1, <5>2, <5>3, Zenon
          <5>4. CASE Units(Records[o]) < m.id[2]
            BY <1>2, <4>2, <5>1, <5>2, <5>4
          <5>5. QED
            BY <4>2, <5>3, <5>4
        <4>4. QED
          BY <4>3 DEF Coming, m
      <3>2. CASE Fresh(m, venue, venue')
        <4> HIDE DEF m
        <4>1. /\ m.qty = 1 /\ m.id[1] = "exec" /\ m.id[2] <= venue'[o].filled
              /\ Units(Records'[o]) < m.id[2]
          BY <1>2, <2>1, <2>3, <3>2 DEF Fresh
        <4>2. QED
          BY <4>1 DEF Coming, m
      <3>3. QED
        BY <1>3, <3>1, <3>2
    <2>4. QED
      BY <2>2, <2>3
  <1>4. ASSUME NEW c \in Catchers, NEW i \in DOMAIN catch'[c].todo, catch'[c].todo[i].kind = "fill"
        PROVE  /\ Due(catch'[c].todo[i], venue', Records')
               /\ \A j \in DOMAIN stream' : FillOf(stream'[j], catch'[c].todo[i].order) =>
                    Beyond(stream'[j], catch'[c].todo[i], Records')
               /\ \A e \in Catchers : \A j \in DOMAIN catch'[e].todo :
                    FillOf(catch'[e].todo[j], catch'[c].todo[i].order) => e = c /\ j = i
    <2> DEFINE t == catch'[c].todo[i]
               o == t.order
    <2>1. i + b[c] \in DOMAIN catch[c].todo /\ t = catch[c].todo[i + b[c]]
      BY <1>4 DEF Rest
    <2>2. t \in Message /\ t.kind = "fill" /\ o \in Orders /\ t.qty \in Nat
      <3>1. t \in Message
        BY <1>1, <2>1
      <3>2. QED
        BY <1>4, <3>1, MessageParts
    <2>3. /\ Due(t, venue, Records)
          /\ \A j \in DOMAIN stream : FillOf(stream[j], o) => Beyond(stream[j], t, Records)
          /\ \A e \in Catchers : \A j \in DOMAIN catch[e].todo :
               FillOf(catch[e].todo[j], o) => e = c /\ j = i + b[c]
      BY <1>4, <2>1 DEF FlightInv
    <2> HIDE DEF t
    <2>4. ASSUME NEW e \in Catchers, NEW j \in DOMAIN catch'[e].todo, FillOf(catch'[e].todo[j], o)
          PROVE  e = c /\ j = i
      <3>1. j + b[e] \in DOMAIN catch[e].todo /\ catch'[e].todo[j] = catch[e].todo[j + b[e]]
        BY DEF Rest
      <3>2. e = c /\ j + b[c] = i + b[c]
        BY <2>3, <2>4, <3>1
      <3>3. i \in Nat /\ j \in Nat /\ b[c] \in Nat
        BY <1>1
      <3>4. QED
        BY <3>2, <3>3
    <2>5. CASE o \in D
      BY <1>4, <2>2, <2>4, <2>5 DEF FillOf, t
    <2>6. CASE o \notin D
      <3>1. Due(t, venue', Records')
        BY <1>2, <2>2, <2>3, <2>6 DEF Due
      <3>2. ASSUME NEW j \in DOMAIN stream', FillOf(stream'[j], o)
            PROVE  Beyond(stream'[j], t, Records')
        <4> DEFINE m == stream'[j]
        <4>1. m.order = o /\ m.kind = "fill" /\ m.id[2] \in Nat
          BY <1>1, <3>2, MessageParts DEF FillOf
        <4>2. CASE \E k \in DOMAIN stream : m = stream[k]
          <5>1. Beyond(m, t, Records)
            BY <2>3, <3>2, <4>2
          <5> HIDE DEF m
          <5>2. Beyond(m, t, Records')
            BY <1>2, <2>2, <2>6, <4>1, <5>1 DEF Beyond
          <5>3. QED
            BY <5>2 DEF m
        <4>3. CASE Fresh(m, venue, venue')
          <5> HIDE DEF m
          <5>1. Units(Records'[o]) + t.qty < m.id[2]
            BY <1>2, <2>2, <2>3, <2>6, <4>1, <4>3 DEF Fresh, Due
          <5>2. QED
            BY <4>1, <5>1 DEF Beyond, m
        <4>4. QED
          BY <4>1, <4>2, <4>3
      <3>3. QED
        BY <2>4, <3>1, <3>2 DEF t
    <2>7. QED
      BY <2>5, <2>6
  <1>5. QED
    BY <1>3, <1>4 DEF FlightInv

\* An order that gets a fill has seen it, and what it had seen.
LEMMA SeenAppend ==
  ASSUME NEW o \in Order, NEW r, NEW f, r.fills = Append(o.fills, f)
  PROVE  AlreadySeen(r, f.id) /\ \A id : AlreadySeen(o, id) => AlreadySeen(r, id)
  <1>1. o.fills \in Seq(Fill)
    BY DEF Order, Fill
  <1>2. /\ Len(r.fills) = Len(o.fills) + 1 /\ r.fills[Len(o.fills) + 1] = f
        /\ DOMAIN r.fills = 1..(Len(o.fills) + 1)
        /\ \A i \in DOMAIN o.fills : r.fills[i] = o.fills[i] /\ i \in DOMAIN r.fills
    BY <1>1
  <1>3. Len(o.fills) + 1 \in DOMAIN r.fills
    BY <1>1, <1>2
  <1>4. QED
    BY <1>2, <1>3 DEF AlreadySeen

\* An event that is sent after all others of its order keeps them in order.
LEMMA OrderedAppend ==
  ASSUME NEW s \in Seq(Message \cup {Marker}), NEW m \in Message, Ordered(s),
         m.kind = "fill" => \A i \in DOMAIN s : s[i].kind = "fill" /\ s[i].order = m.order
                                                  => s[i].id[2] <= m.id[2]
  PROVE  Ordered(Append(s, m))
  <1> DEFINE t == Append(s, m)
  <1>1. /\ DOMAIN t = 1..(Len(s) + 1) /\ t[Len(s) + 1] = m /\ DOMAIN s = 1..Len(s) /\ Len(s) \in Nat
        /\ \A i \in DOMAIN s : t[i] = s[i]
    OBVIOUS
  <1> HIDE DEF t
  <1>2. SUFFICES ASSUME NEW i \in DOMAIN t, NEW j \in DOMAIN t,
                        i < j /\ t[i].kind = "fill" /\ t[j].kind = "fill" /\ t[i].order = t[j].order
                 PROVE  t[i].id[2] <= t[j].id[2]
    BY DEF Ordered, t
  <1>3. i \in DOMAIN s /\ (j \in DOMAIN s \/ j = Len(s) + 1)
    BY <1>1, <1>2
  <1>4. CASE j \in DOMAIN s
    BY <1>1, <1>2, <1>3, <1>4 DEF Ordered
  <1>5. CASE j = Len(s) + 1
    BY <1>1, <1>2, <1>3, <1>5
  <1>6. QED
    BY <1>3, <1>4, <1>5

\* Without its first event the stream is still in order.
LEMMA OrderedTail ==
  ASSUME NEW s \in Seq(Message \cup {Marker}), s # <<>>, Ordered(s)
  PROVE  /\ Ordered(Tail(s))
         /\ \A i \in DOMAIN Tail(s) :
              /\ i + 1 \in DOMAIN s /\ Tail(s)[i] = s[i + 1] /\ 1 < i + 1
  <1>1. /\ Len(s) \in Nat /\ Len(s) >= 1 /\ DOMAIN s = 1..Len(s) /\ DOMAIN Tail(s) = 1..(Len(s) - 1)
        /\ \A i \in DOMAIN Tail(s) : Tail(s)[i] = s[i + 1]
    BY HeadTailProperties
  <1>2. \A i \in DOMAIN Tail(s) : i \in Nat /\ i + 1 \in DOMAIN s /\ 1 < i + 1
    BY <1>1
  <1>3. Ordered(Tail(s))
    <2> DEFINE t == Tail(s)
    <2>1. \A i \in DOMAIN t : i \in Nat /\ i + 1 \in DOMAIN s /\ t[i] = s[i + 1]
      BY <1>1, <1>2
    <2> HIDE DEF t
    <2>2. \A i, j \in DOMAIN t : i < j => i + 1 < j + 1
      BY <2>1
    <2>3. QED
      BY <2>1, <2>2 DEF Ordered, t
  <1>4. QED
    BY <1>1, <1>2, <1>3

\* Records with the same orders and rows are the same.
LEMMA RecordsSame ==
  ASSUME UNCHANGED <<mem, disk>>
  PROVE  \A o \in Orders : Alike(Records'[o], Records[o])
  BY DEF Records, Record, Alike

\* A step that changes no record and reads nothing over REST.
LEMMA FlightStays ==
  ASSUME TypeInv, TypeInv', BookInv, FlightInv, NEW b \in [Catchers -> Nat],
         \A o \in Orders : Alike(Records'[o], Records[o]),
         \A o \in Orders : venue'[o].filled \in Nat /\ venue[o].filled <= venue'[o].filled,
         Ordered(stream'),
         \A i \in DOMAIN stream' : stream'[i].kind = "fill" =>
           (\E j \in DOMAIN stream : stream'[i] = stream[j]) \/ Fresh(stream'[i], venue, venue'),
         \A c \in Catchers : Rest(catch'[c].todo, catch[c].todo, b[c])
  PROVE  FlightInv'
  <1> DEFINE D == {}
  <1>1. D \in SUBSET Orders /\ \A o : o \notin D
    OBVIOUS
  <1>2. \A o \in Orders \ D : Alike(Records'[o], Records[o])
    OBVIOUS
  <1> HIDE DEF D
  <1>3. QED
    BY <1>1, <1>2, FlightKept

\* In particular when the venue stands still and the stream, if it is not as it
\* was, has lost its first event or all of them.
LEMMA FlightStands ==
  ASSUME TypeInv, TypeInv', BookInv, FlightInv, UNCHANGED venue,
         \A o \in Orders : Alike(Records'[o], Records[o]),
         \/ stream' = stream \/ stream' = <<>>
         \/ stream # <<>> /\ stream' = Tail(stream),
         \A c \in Catchers : \/ catch'[c].todo = catch[c].todo \/ catch'[c].todo = <<>>
                             \/ catch[c].todo # <<>> /\ catch'[c].todo = Tail(catch[c].todo)
  PROVE  FlightInv'
  <1>1. Ordered(stream) /\ stream \in Seq(Message \cup {Marker})
    BY FlightTypes DEF FlightInv
  <1>2. Ordered(stream') /\ \A i \in DOMAIN stream' : \E j \in DOMAIN stream : stream'[i] = stream[j]
    <2>1. CASE stream' = stream
      BY <1>1, <2>1
    <2>2. CASE stream' = <<>>
      BY <2>2 DEF Ordered
    <2>3. CASE stream # <<>> /\ stream' = Tail(stream)
      BY <1>1, <2>3, OrderedTail
    <2>4. QED
      BY <2>1, <2>2, <2>3
  <1>3. \A o \in Orders : venue'[o].filled \in Nat /\ venue[o].filled <= venue'[o].filled
    BY UnitsType
  <1> DEFINE b == [c \in Catchers |-> IF catch'[c].todo = catch[c].todo THEN 0 ELSE 1]
  <1>4. ASSUME NEW c \in Catchers PROVE Rest(catch'[c].todo, catch[c].todo, b[c])
    <2> DEFINE s == catch'[c].todo
               t == catch[c].todo
    <2>1. t \in Seq(Message) /\ (s = t => b[c] = 0) /\ (s # t => b[c] = 1)
      BY FlightTypes
    <2> HIDE DEF b, s, t
    <2>2. CASE s = t
      <3>1. \A i \in DOMAIN s : i \in Nat /\ i + 0 = i
        BY <2>1, <2>2
      <3>2. QED
        BY <2>1, <2>2, <3>1 DEF Rest, s, t
    <2>3. CASE s = <<>>
      BY <2>3 DEF Rest, s, t
    <2>4. CASE t # <<>> /\ s = Tail(t) /\ s # t
      <3>1. /\ Len(t) \in Nat /\ DOMAIN t = 1..Len(t) /\ DOMAIN s = 1..(Len(t) - 1)
            /\ \A i \in DOMAIN s : s[i] = t[i + 1]
        BY <2>1, <2>4, HeadTailProperties
      <3>2. \A i \in DOMAIN s : i + 1 \in DOMAIN t
        BY <3>1
      <3>3. QED
        BY <2>1, <2>4, <3>1, <3>2 DEF Rest, s, t
    <2>5. QED
      BY <2>2, <2>3, <2>4 DEF s, t
  <1>5. b \in [Catchers -> Nat]
    OBVIOUS
  <1> HIDE DEF b
  <1>6. QED
    BY <1>2, <1>3, <1>4, <1>5, FlightStays

\* What the venue does is on the stream after what it did before.
LEMMA FlightSent ==
  ASSUME TypeInv, TypeInv', BookInv, FlightInv, NEW m \in Message, UNCHANGED catch,
         \A o \in Orders : Alike(Records'[o], Records[o]),
         \A o \in Orders : venue'[o].filled \in Nat /\ venue[o].filled <= venue'[o].filled,
         stream' = Append(stream, m) \/ stream' = stream,
         m.kind = "fill" => \/ Fresh(m, venue, venue')
                            \/ stream # <<>> /\ m = stream[Len(stream)]
  PROVE  FlightInv'
  <1>1. /\ Ordered(stream) /\ stream \in Seq(Message \cup {Marker})
        /\ \A i \in DOMAIN stream : stream[i] \in Message \cup {Marker}
    BY FlightTypes DEF FlightInv
  <1>2. CASE stream' = Append(stream, m)
    <2>1. ASSUME m.kind = "fill", NEW i \in DOMAIN stream, stream[i].kind = "fill",
                 stream[i].order = m.order
          PROVE  stream[i].id[2] <= m.id[2]
      <3>1. /\ stream[i].id[2] \in Nat /\ m.id[2] \in Nat /\ m.order \in Orders
        BY <1>1, <2>1, MessageParts
      <3>2. CASE Fresh(m, venue, venue')
        <4>1. Coming(stream[i], venue, Records)
          BY <2>1 DEF FlightInv
        <4>2. stream[i].id[2] <= venue[m.order].filled
          BY <2>1, <4>1 DEF Coming
        <4>3. venue[m.order].filled \in Nat /\ venue[m.order].filled < m.id[2]
          BY <3>1, <3>2, UnitsType DEF Fresh
        <4>4. QED
          BY <3>1, <4>2, <4>3
      <3>3. CASE stream # <<>> /\ m = stream[Len(stream)]
        <4>1. Len(stream) \in DOMAIN stream /\ (i < Len(stream) \/ i = Len(stream))
          BY <1>1, <3>3
        <4>2. CASE i = Len(stream)
          BY <3>1, <3>3, <4>2
        <4>3. CASE i < Len(stream)
          BY <1>1, <2>1, <3>3, <4>1, <4>3 DEF Ordered
        <4>4. QED
          BY <4>1, <4>2, <4>3
      <3>4. QED
        BY <2>1, <3>2, <3>3
    <2>2. Ordered(stream')
      BY <1>1, <1>2, <2>1, OrderedAppend
    <2>3. \A i \in DOMAIN stream' : (i \in DOMAIN stream /\ stream'[i] = stream[i]) \/ stream'[i] = m
      BY <1>1, <1>2
    <2>4. \A i \in DOMAIN stream' : stream'[i].kind = "fill" =>
            (\E j \in DOMAIN stream : stream'[i] = stream[j]) \/ Fresh(stream'[i], venue, venue')
      <3>1. stream # <<>> => Len(stream) \in DOMAIN stream
        BY <1>1
      <3>2. QED
        BY <2>3, <3>1
    <2>5. QED
      <3> DEFINE b == [c \in Catchers |-> 0]
      <3>1. b \in [Catchers -> Nat] /\ \A c \in Catchers : b[c] = 0
        OBVIOUS
      <3> HIDE DEF b
      <3>2. \A c \in Catchers : \A i \in DOMAIN catch[c].todo : i \in Nat /\ i + 0 = i
        BY FlightTypes
      <3>3. \A c \in Catchers : Rest(catch'[c].todo, catch[c].todo, b[c])
        BY <3>1, <3>2 DEF Rest
      <3>4. QED
        BY <2>2, <2>4, <3>1, <3>3, FlightStays
  <1>3. CASE stream' = stream
    <2> DEFINE b == [c \in Catchers |-> 0]
    <2>1. b \in [Catchers -> Nat] /\ \A c \in Catchers : b[c] = 0
      OBVIOUS
    <2> HIDE DEF b
    <2>2. \A c \in Catchers : \A i \in DOMAIN catch[c].todo : i \in Nat /\ i + 0 = i
      BY FlightTypes
    <2>3. \A c \in Catchers : Rest(catch'[c].todo, catch[c].todo, b[c])
      BY <2>1, <2>2 DEF Rest
    <2>4. QED
      BY <1>1, <1>3, <2>1, <2>3, FlightStays
  <1>4. QED
    BY <1>2, <1>3

\* Writing a row, whole or as an order leaves _open_orders, leaves on record
\* what was.
LEMMA AlikeSaved ==
  ASSUME TypeInv, RowsInv, SaveDone \/ SaveOrders
  PROVE  \A o \in Orders : Alike(Records'[o], Records[o])
  <1>1. CASE SaveDone
    <2> DEFINE d == lock.order
               row == Stored(RowFills(d), lock.obj)
    <2>1. /\ d \in Orders /\ lock.obj \in Order
          /\ mem[d] # None /\ mem[d].fills = lock.obj.fills
          /\ disk' = [disk EXCEPT ![d] = row] /\ mem' = [mem EXCEPT ![d] = None]
      BY <1>1, LockType DEF SaveDone, TypeInv, RowsInv, SameFills
    <2>2. row # None /\ row.fills = mem[d].fills
      BY <2>1, RowSaved, OrderFilled DEF Known
    <2> HIDE DEF row, d
    <2>3. /\ mem'[d] = None /\ disk'[d] = row
          /\ \A o \in Orders \ {d} : mem'[o] = mem[o] /\ disk'[o] = disk[o]
      BY <2>1 DEF TypeInv, SysTypeOK
    <2>4. Alike(Records'[d], Records[d])
      <3>1. Records'[d] = row /\ Records[d] = mem[d]
        BY <2>1, <2>3 DEF Records, Record
      <3>2. QED
        BY <2>1, <2>2, <3>1, AlikeFills
    <2>5. \A o \in Orders \ {d} : Alike(Records'[o], Records[o])
      BY <2>3 DEF Records, Record, Alike
    <2>6. QED
      BY <2>4, <2>5
  <1>2. CASE SaveOrders
    <2>1. \A o \in Orders : mem'[o] = mem[o] /\ (mem[o] = None => disk'[o] = disk[o])
      BY <1>2 DEF SaveOrders, Known
    <2>2. QED
      BY <2>1 DEF Records, Record, Alike
  <1>3. QED
    BY <1>1, <1>2

\* So does installing what was on record,
LEMMA AlikeInstalled ==
  ASSUME TypeInv, RowsInv, WarmupInstall, ~InstallsOver
  PROVE  \A o \in Orders : Alike(Records'[o], Records[o])
  <1> SUFFICES ASSUME NEW o \in Orders PROVE Alike(Records'[o], Records[o])
    OBVIOUS
  <1>1. disk' = disk
    BY DEF WarmupInstall
  <1>2. CASE loaded[o] = None
    <2>1. mem'[o] = mem[o]
      BY <1>2, Installed
    <2>2. QED
      BY <1>1, <2>1 DEF Records, Record, Alike
  <1>3. CASE loaded[o] # None
    <2>1. Records'[o] = loaded[o] /\ Records[o] # None /\ loaded[o].fills = Records[o].fills
      BY <1>3, Installed DEF Records, Record
    <2>2. QED
      BY <1>3, <2>1, AlikeFills
  <1>4. QED
    BY <1>2, <1>3

\* and submitting, which adds an order with nothing filled.
LEMMA AlikeSubmitted ==
  ASSUME TypeInv, RowsInv, NEW d \in Orders, Submit(d)
  PROVE  \A o \in Orders : Alike(Records'[o], Records[o])
  <1> DEFINE new == [status |-> "SUBMITTED", fills |-> <<>>]
  <1>1. venue[d].state = "none" /\ mem' = [mem EXCEPT ![d] = new] /\ disk' = disk
    BY DEF Submit
  <1>2. new # None /\ Filled(new) = 0 /\ \A id : ~AlreadySeen(new, id)
    <2>1. new \in Order
      BY EmptySeq DEF Order, OrderStatus
    <2>2. new.fills = <<>> /\ DOMAIN new.fills = {}
      OBVIOUS
    <2> HIDE DEF new
    <2>3. QED
      BY <2>1, <2>2, OrderFilled, FilledOfNone DEF AlreadySeen
  <1> HIDE DEF new
  <1>3. /\ mem[d] = None /\ disk[d] = None /\ mem'[d] = new
        /\ \A o \in Orders \ {d} : mem'[o] = mem[o]
    BY <1>1 DEF RowsInv, TypeInv, SysTypeOK
  <1>4. Records[d] = None /\ Records'[d] = new /\ \A o \in Orders \ {d} : Records'[o] = Records[o]
    BY <1>1, <1>2, <1>3 DEF Records, Record
  <1>5. QED
    BY <1>2, <1>4 DEF Alike, Units, Seen

\* What is read of an order, no one else having its fills, is what we miss of it.
LEMMA FlightRead ==
  ASSUME TypeInv, TypeInv', BookInv, FlightInv,
         NEW c \in Catchers, NEW o \in Orders, ReadOrder(c, o), ~ReadsOver(c, o)
  PROVE  FlightInv'
  <1>1. /\ UNCHANGED <<venue, stream, disk, mem>> /\ Ours(c, o) \in Order
    BY OrderRead
  <1>2. PICK ms \in Seq(Message), k \in Catch : ReadAs(c, o, ms, k)
    BY OrderRead
  <1> DEFINE t == catch[c].todo
             n == Len(t)
             s == t \o ms
  <1>3. /\ t \in Seq(Message) /\ k.todo = s
        /\ \A d \in Catchers : catch'[d] = IF d = c THEN k ELSE catch[d]
    BY <1>2 DEF ReadAs, TypeInv, SysTypeOK, Catch
  <1>4. /\ n \in Nat /\ Len(ms) \in Nat /\ DOMAIN ms = 1..Len(ms) /\ DOMAIN t = 1..n
        /\ DOMAIN s = 1..(n + Len(ms)) /\ Len(s) = n + Len(ms)
        /\ \A i \in 1..n : s[i] = t[i]
        /\ \A i \in DOMAIN s : i > n => s[i] = ms[i - n] /\ i - n \in DOMAIN ms
    BY <1>3
  <1>5. \A i \in DOMAIN ms :
           /\ ms[i].order = o
           /\ ms[i].kind = "fill" => i = 1 /\ Filled(Ours(c, o)) + ms[i].qty = venue[o].filled
    BY <1>2 DEF ReadAs
  <1>6. \A e \in Catchers : \A i \in DOMAIN catch'[e].todo :
          \/ i \in DOMAIN catch[e].todo /\ catch'[e].todo[i] = catch[e].todo[i]
          \/ e = c /\ i \in DOMAIN s /\ i > n /\ i - n \in DOMAIN ms /\ catch'[c].todo[i] = ms[i - n]
    <2> SUFFICES ASSUME NEW e \in Catchers, NEW i \in DOMAIN catch'[e].todo
        PROVE  \/ i \in DOMAIN catch[e].todo /\ catch'[e].todo[i] = catch[e].todo[i]
               \/ e = c /\ i \in DOMAIN s /\ i > n /\ i - n \in DOMAIN ms /\ catch'[c].todo[i] = ms[i - n]
      OBVIOUS
    <2>1. CASE e # c
      BY <1>3, <2>1
    <2>2. CASE e = c
      <3>1. catch'[c].todo = s
        BY <1>3
      <3> HIDE DEF s, n
      <3>2. i \in DOMAIN s /\ (i \in 1..n \/ i > n)
        BY <1>4, <2>2, <3>1
      <3>3. QED
        BY <1>4, <2>2, <3>1, <3>2 DEF n
    <2>3. QED
      BY <2>1, <2>2
  <1>7. ASSUME NEW l \in DOMAIN ms, ms[l].kind = "fill"
        PROVE  /\ Record(o) # None /\ Record(o).fills = Ours(c, o).fills
               /\ \A i \in DOMAIN stream : FillOf(stream[i], o) => AlreadySeen(Ours(c, o), stream[i].id)
               /\ \A e \in Catchers : \A i \in DOMAIN catch[e].todo : ~FillOf(catch[e].todo[i], o)
    <2>1. catch'[c].todo # catch[c].todo
      <3>1. Len(s) # n
        BY <1>4
      <3>2. QED
        BY <1>3, <3>1
    <2>2. venue[o].filled > Filled(Ours(c, o))
      <3>1. ms[l].qty \in 1..Qty /\ Filled(Ours(c, o)) + ms[l].qty = venue[o].filled
        BY <1>2, <1>5, <1>7, MessageParts
      <3>2. Filled(Ours(c, o)) \in Nat
        BY <1>1, OrderFilled
      <3>3. QED
        BY <3>1, <3>2, QtyAssumption
    <2>3. QED
      BY <2>1, <2>2, Zenon DEF ReadsOver
  <1>8. ASSUME NEW l \in DOMAIN ms, ms[l].kind = "fill"
        PROVE  /\ Due(ms[l], venue, Records)
               /\ \A j \in DOMAIN stream : FillOf(stream[j], o) => Beyond(stream[j], ms[l], Records)
    <2>1. Records[o] # None /\ Records[o].fills = Ours(c, o).fills
      BY <1>7, <1>8 DEF Records
    <2>2. Units(Records[o]) = Filled(Ours(c, o)) /\ venue[o].filled \in Nat
      BY <2>1, FilledBySame, UnitsType DEF Units
    <2>3. \A id : AlreadySeen(Ours(c, o), id) => Seen(Records[o], id)
      BY <2>1 DEF Seen, AlreadySeen
    <2>4. ms[l].order = o /\ Units(Records[o]) + ms[l].qty = venue[o].filled
      BY <1>5, <1>8, <2>2
    <2>5. Due(ms[l], venue, Records)
      BY <2>2, <2>4 DEF Due
    <2>6. QED
      BY <1>7, <1>8, <2>3, <2>5 DEF Beyond, FillOf
  <1> HIDE DEF s, t
  <1>9. ASSUME NEW e \in Catchers, NEW i \in DOMAIN catch'[e].todo, catch'[e].todo[i].kind = "fill"
        PROVE  /\ Due(catch'[e].todo[i], venue, Records)
               /\ \A j \in DOMAIN stream : FillOf(stream[j], catch'[e].todo[i].order) =>
                    Beyond(stream[j], catch'[e].todo[i], Records)
               /\ \A d \in Catchers : \A j \in DOMAIN catch'[d].todo :
                    FillOf(catch'[d].todo[j], catch'[e].todo[i].order) => d = e /\ j = i
    <2>1. CASE i \in DOMAIN catch[e].todo /\ catch'[e].todo[i] = catch[e].todo[i]
      <3>1. /\ Due(catch[e].todo[i], venue, Records)
            /\ \A j \in DOMAIN stream : FillOf(stream[j], catch[e].todo[i].order) =>
                 Beyond(stream[j], catch[e].todo[i], Records)
            /\ \A d \in Catchers : \A j \in DOMAIN catch[d].todo :
                 FillOf(catch[d].todo[j], catch[e].todo[i].order) => d = e /\ j = i
        BY <1>9, <2>1 DEF FlightInv
      <3>2. ASSUME NEW d \in Catchers, NEW j \in DOMAIN catch'[d].todo,
                   FillOf(catch'[d].todo[j], catch[e].todo[i].order)
            PROVE  d = e /\ j = i
        <4>1. CASE j \in DOMAIN catch[d].todo /\ catch'[d].todo[j] = catch[d].todo[j]
          BY <3>1, <3>2, <4>1
        <4>2. CASE d = c /\ j - n \in DOMAIN ms /\ catch'[c].todo[j] = ms[j - n]
          <5>1. ms[j - n].kind = "fill" /\ catch[e].todo[i].order = o
            BY <1>5, <3>2, <4>2 DEF FillOf
          <5>2. ~FillOf(catch[e].todo[i], o)
            BY <1>7, <2>1, <4>2, <5>1
          <5>3. QED
            BY <1>9, <2>1, <5>1, <5>2 DEF FillOf
        <4>3. QED
          BY <1>6, <4>1, <4>2
      <3>3. QED
        BY <2>1, <3>1, <3>2
    <2>2. CASE e = c /\ i \in DOMAIN s /\ i > n /\ i - n \in DOMAIN ms /\ catch'[c].todo[i] = ms[i - n]
      <3>1. ms[i - n].kind = "fill" /\ ms[i - n].order = o /\ i - n = 1 /\ i \in Nat
        BY <1>4, <1>5, <1>9, <2>2
      <3>2. ASSUME NEW d \in Catchers, NEW j \in DOMAIN catch'[d].todo, FillOf(catch'[d].todo[j], o)
            PROVE  d = e /\ j = i
        <4>1. CASE j \in DOMAIN catch[d].todo /\ catch'[d].todo[j] = catch[d].todo[j]
          BY <1>7, <2>2, <3>1, <3>2, <4>1
        <4>2. CASE d = c /\ j \in DOMAIN s /\ j > n /\ j - n \in DOMAIN ms /\ catch'[c].todo[j] = ms[j - n]
          <5>1. j - n = 1 /\ j \in Nat
            BY <1>4, <1>5, <3>2, <4>2 DEF FillOf
          <5>2. QED
            BY <1>4, <2>2, <3>1, <4>2, <5>1
        <4>3. QED
          BY <1>6, <4>1, <4>2
      <3>3. QED
        BY <1>8, <2>2, <3>1, <3>2
    <2>3. QED
      BY <1>6, <2>1, <2>2
  <1>10. Records' = Records
    BY <1>1 DEF Records, Record
  <1>11. QED
    BY <1>1, <1>9, <1>10 DEF FlightInv

\* An order that an update changes in its status only counts as it did.
LEMMA BookedAlike ==
  ASSUME TypeInv, NEW d \in Orders, mem[d] \in Order, NEW r \in Order, UNCHANGED disk,
         mem' = [mem EXCEPT ![d] = r]
  PROVE  /\ Records[d] = mem[d] /\ Records'[d] = r /\ r # None /\ mem[d] # None
         /\ Units(Records[d]) = Filled(mem[d]) /\ Units(Records'[d]) = Filled(r)
         /\ \A o \in Orders \ {d} : Alike(Records'[o], Records[o])
         /\ r.fills = mem[d].fills => \A o \in Orders : Alike(Records'[o], Records[o])
  <1>1. mem'[d] = r /\ \A o \in Orders \ {d} : mem'[o] = mem[o]
    BY DEF TypeInv, SysTypeOK
  <1>2. r # None /\ mem[d] # None
    BY OrderFilled
  <1>3. Records[d] = mem[d] /\ Records'[d] = r
    BY <1>1, <1>2 DEF Records, Record
  <1>4. \A o \in Orders \ {d} : Alike(Records'[o], Records[o])
    BY <1>1 DEF Records, Record, Alike
  <1>5. r.fills = mem[d].fills => Alike(Records'[d], Records[d])
    BY <1>2, <1>3, AlikeFills
  <1>6. QED
    BY <1>2, <1>3, <1>4, <1>5 DEF Units

\* An order that gets a fill has its units more, and has seen it.
LEMMA BookedMore ==
  ASSUME TypeInv, NEW d \in Orders, mem[d] \in Order, NEW r \in Order, UNCHANGED disk,
         mem' = [mem EXCEPT ![d] = r], NEW u \in Message, u.kind = "fill", NEW n \in 0..Qty,
         Kept(u, mem[d], r, n)
  PROVE  /\ ~Seen(Records[d], u.id) /\ Seen(Records'[d], u.id)
         /\ \A id : Seen(Records[d], id) => Seen(Records'[d], id)
         /\ Units(Records[d]) \in Nat /\ Units(Records'[d]) = Units(Records[d]) + u.qty
  <1>1. /\ Records[d] = mem[d] /\ Records'[d] = r /\ r # None /\ mem[d] # None
        /\ Units(Records[d]) = Filled(mem[d]) /\ Units(Records'[d]) = Filled(r)
    BY BookedAlike
  <1> DEFINE f == [id |-> u.id, qty |-> n]
  <1>2. /\ ~AlreadySeen(mem[d], u.id) /\ n = u.qty /\ r.fills = Append(mem[d].fills, f)
        /\ Filled(r) = Filled(mem[d]) + n /\ f.id = u.id
    BY DEF Kept
  <1> HIDE DEF f
  <1>3. AlreadySeen(r, u.id) /\ \A id : AlreadySeen(mem[d], id) => AlreadySeen(r, id)
    BY <1>2, SeenAppend
  <1>4. QED
    BY <1>1, <1>2, <1>3, OrderFilled DEF Seen

\* A delivered event, applied or not, leaves what is behind it coming, and what
\* was read over REST still missing.
LEMMA FlightDelivered ==
  ASSUME TypeInv, TypeInv', BookInv, FlightInv, Deliver, ~Raises(Head(stream))
  PROVE  FlightInv'
  <1> DEFINE u == Head(stream)
             d == u.order
  <1>1. /\ OnFillEvent(u, "stream") /\ stream' = Tail(stream) /\ u # Marker
        /\ stream # <<>> /\ UNCHANGED <<venue, disk, catch>>
    BY DEF Deliver
  <1>2. stream \in Seq(Message \cup {Marker}) /\ u \in Message /\ u = stream[1] /\ 1 \in DOMAIN stream
    BY <1>1 DEF TypeInv, SysTypeOK
  <1>3. d \in Orders
    BY <1>2 DEF Message
  <1> HIDE DEF u, d
  <1>4. CASE \A o \in Orders : Alike(Records'[o], Records[o])
    BY <1>1, <1>4, FlightStands
  <1>5. ASSUME NEW r \in Order, NEW n \in 0..Qty, mem[d] \in Order, Kept(u, mem[d], r, n),
               mem' = [mem EXCEPT ![d] = r], u.kind = "fill"
        PROVE  FlightInv'
    <2>1. \A o \in Orders \ {d} : Alike(Records'[o], Records[o])
      BY <1>1, <1>3, <1>5, BookedAlike
    <2>2. /\ ~Seen(Records[d], u.id) /\ Seen(Records'[d], u.id)
          /\ \A id : Seen(Records[d], id) => Seen(Records'[d], id)
          /\ Units(Records[d]) \in Nat /\ Units(Records'[d]) = Units(Records[d]) + u.qty
      BY <1>1, <1>2, <1>3, <1>5, BookedMore
    <2>3. Coming(u, venue, Records) /\ u.id \in FillId /\ u.id[2] \in Nat
      BY <1>2, <1>5, MessageParts DEF FlightInv
    <2>4. /\ u.qty = 1 /\ u.id[1] = "exec" /\ u.id[2] <= venue[d].filled
          /\ Units(Records[d]) < u.id[2] /\ Units(Records'[d]) = Units(Records[d]) + 1
      BY <2>2, <2>3 DEF Coming, d
    <2>5. /\ Ordered(stream')
          /\ \A i \in DOMAIN stream' : i + 1 \in DOMAIN stream /\ stream'[i] = stream[i + 1] /\ 1 < i + 1
      BY <1>1, <1>2, OrderedTail DEF FlightInv
    <2>6. ASSUME NEW i \in DOMAIN stream', FillOf(stream'[i], d)
          PROVE  /\ Coming(stream'[i], venue, Records)
                 /\ stream'[i].id[1] = "exec" /\ stream'[i].id \in FillId /\ stream'[i].id[2] \in Nat
                 /\ u.id[2] = stream'[i].id[2] => stream'[i].id = u.id
                 /\ u.id[2] <= stream'[i].id[2]
      <3> DEFINE m == stream'[i]
      <3>1. i + 1 \in DOMAIN stream /\ m = stream[i + 1] /\ 1 < i + 1 /\ m.kind = "fill" /\ m.order = d
        BY <2>5, <2>6 DEF FillOf
      <3>2. Coming(m, venue, Records) /\ u.id[2] <= m.id[2]
        BY <1>2, <1>5, <3>1 DEF FlightInv, Ordered, d
      <3>3. m \in Message \cup {Marker}
        BY <1>2, <3>1
      <3> HIDE DEF m
      <3>4. m.id \in FillId /\ m.id[2] \in Nat /\ m.id[1] = "exec"
        BY <3>1, <3>2, <3>3, MessageParts DEF Coming
      <3>5. u.id[2] = m.id[2] => m.id = u.id
        BY <2>3, <2>4, <3>4, SameId
      <3>6. QED
        BY <3>2, <3>4, <3>5 DEF m
    <2>7. ASSUME NEW i \in DOMAIN stream', stream'[i].kind = "fill", stream'[i].order \in {d}
          PROVE  Coming(stream'[i], venue', Records')
      <3> DEFINE m == stream'[i]
      <3>1. /\ Coming(m, venue, Records) /\ m.order = d /\ m.id[2] \in Nat
            /\ u.id[2] = m.id[2] => m.id = u.id
            /\ u.id[2] <= m.id[2]
        BY <2>6, <2>7 DEF FillOf
      <3> HIDE DEF m
      <3>2. Seen(Records'[d], m.id) \/ Units(Records'[d]) < m.id[2]
        <4>1. CASE u.id[2] = m.id[2]
          BY <2>2, <3>1, <4>1
        <4>2. CASE u.id[2] # m.id[2]
          BY <2>2, <2>3, <2>4, <3>1, <4>2
        <4>3. QED
          BY <4>1, <4>2
      <3>3. QED
        BY <1>1, <3>1, <3>2 DEF Coming, m
    <2>8. ASSUME NEW c \in Catchers, NEW i \in DOMAIN catch'[c].todo,
                 catch'[c].todo[i].kind = "fill", catch'[c].todo[i].order \in {d}
          PROVE  /\ Due(catch'[c].todo[i], venue', Records')
                 /\ \A j \in DOMAIN stream' : FillOf(stream'[j], catch'[c].todo[i].order) =>
                      Beyond(stream'[j], catch'[c].todo[i], Records')
      <3> DEFINE t == catch[c].todo[i]
      <3>1. i \in DOMAIN catch[c].todo /\ catch'[c].todo[i] = t /\ t.kind = "fill" /\ t.order = d
        BY <1>1, <2>8
      <3>2. t.qty \in Nat
        BY <3>1, FlightTypes, MessageParts
      <3>3. \A j \in DOMAIN stream : FillOf(stream[j], d) => Beyond(stream[j], t, Records)
        BY <3>1 DEF FlightInv
      <3> HIDE DEF t
      <3>4. Beyond(u, t, Records)
        BY <1>2, <1>5, <3>3 DEF FillOf, d
      <3>5. Units(Records[d]) + t.qty < u.id[2]
        BY <2>2, <3>4 DEF Beyond, d
      <3>6. Due(t, venue', Records')
        <4>1. venue[d].filled \in Nat
          BY <1>3, UnitsType
        <4>2. Units(Records'[d]) + t.qty <= venue[d].filled
          BY <2>2, <2>3, <2>4, <3>2, <3>5, <4>1
        <4>3. QED
          BY <1>1, <3>1, <4>2 DEF Due
      <3>7. ASSUME NEW j \in DOMAIN stream', FillOf(stream'[j], d)
            PROVE  Beyond(stream'[j], t, Records')
        <4> DEFINE m == stream'[j]
        <4>1. /\ m.order = d /\ m.id[2] \in Nat /\ u.id[2] <= m.id[2]
              /\ u.id[2] = m.id[2] => m.id = u.id
          BY <2>6, <3>7 DEF FillOf
        <4> HIDE DEF m
        <4>2. Seen(Records'[d], m.id) \/ Units(Records'[d]) + t.qty < m.id[2]
          <5>1. CASE u.id[2] = m.id[2]
            BY <2>2, <4>1, <5>1
          <5>2. CASE u.id[2] # m.id[2]
            BY <2>2, <2>3, <2>4, <3>2, <3>5, <4>1, <5>2
          <5>3. QED
            BY <5>1, <5>2
        <4>3. QED
          BY <4>1, <4>2 DEF Beyond, m
      <3>8. QED
        BY <3>1, <3>6, <3>7
    <2> DEFINE b == [c \in Catchers |-> 0]
    <2>9. b \in [Catchers -> Nat] /\ \A c \in Catchers : b[c] = 0
      OBVIOUS
    <2> HIDE DEF b
    <2>10. \A c \in Catchers : Rest(catch'[c].todo, catch[c].todo, b[c])
      <3>1. \A c \in Catchers : \A i \in DOMAIN catch[c].todo : i \in Nat /\ i + 0 = i
        BY FlightTypes
      <3>2. QED
        BY <1>1, <2>9, <3>1 DEF Rest
    <2>11. \A o \in Orders : venue'[o].filled \in Nat /\ venue[o].filled <= venue'[o].filled
      BY <1>1, UnitsType
    <2>12. \A i \in DOMAIN stream' : \E j \in DOMAIN stream : stream'[i] = stream[j]
      BY <2>5
    <2> DEFINE D == {d}
    <2>13. D \in SUBSET Orders
      BY <1>3
    <2>14. QED
      BY <2>1, <2>5, <2>7, <2>8, <2>9, <2>10, <2>11, <2>12, <2>13, FlightKept
  <1>6. QED
    <2>1. CASE UNCHANGED <<mem, book, lock>>
      BY <1>1, <1>4, <2>1, RecordsSame
    <2>2. ASSUME NEW r \in Order, NEW n \in 0..Qty, mem[d] \in Order, Kept(u, mem[d], r, n),
                 mem' = [mem EXCEPT ![d] = r]
          PROVE  FlightInv'
      <3>1. CASE u.kind = "fill"
        BY <1>5, <2>2, <3>1
      <3>2. CASE u.kind # "fill"
        <4>1. r.fills = mem[d].fills
          BY <2>2, <3>2 DEF Kept
        <4>2. QED
          BY <1>1, <1>3, <1>4, <2>2, <4>1, BookedAlike
      <3>3. QED
        BY <3>1, <3>2
    <2>3. QED
      BY <1>1, <1>2, <2>1, <2>2, FillEventBooked DEF TypeInv, Tasks, d

\* A fill that was read over REST and is applied, or refused, was the only one
\* of its order, and the stream still has only what is beyond it.
LEMMA FlightApplied ==
  ASSUME TypeInv, TypeInv', BookInv, FlightInv, NEW c \in Catchers, ApplyMissed(c)
  PROVE  FlightInv'
  <1> DEFINE t == catch[c].todo
             u == Head(t)
             d == u.order
             k == [catch[c] EXCEPT !.todo = Tail(@)]
  <1>1. /\ t # <<>> /\ u \in Message
        /\ OnFillEvent(u, c) \/ UNCHANGED <<mem, book, lock>>
        /\ catch' = [catch EXCEPT ![c] = k] /\ UNCHANGED <<venue, disk, stream>>
    BY MissedApplied
  <1>2. /\ t \in Seq(Message) /\ k.todo = Tail(t) /\ d \in Orders
        /\ \A e \in Catchers : catch'[e] = IF e = c THEN k ELSE catch[e]
    <2>1. d \in Orders
      BY <1>1 DEF Message
    <2>2. QED
      BY <1>1, <2>1 DEF TypeInv, SysTypeOK, Catch
  <1>3. /\ u = t[1] /\ 1 \in DOMAIN t
        /\ \A i \in DOMAIN Tail(t) : i \in Nat /\ i + 1 \in DOMAIN t /\ Tail(t)[i] = t[i + 1] /\ i + 1 # 1
    <2>1. Len(t) \in Nat /\ Len(t) >= 1 /\ DOMAIN t = 1..Len(t) /\ DOMAIN Tail(t) = 1..(Len(t) - 1)
      BY <1>1, <1>2, HeadTailProperties
    <2>2. \A i \in DOMAIN Tail(t) : Tail(t)[i] = t[i + 1]
      BY <1>1, <1>2
    <2>3. \A i \in DOMAIN Tail(t) : i \in Nat /\ i + 1 \in DOMAIN t /\ i + 1 # 1
      BY <2>1
    <2>4. QED
      BY <1>1, <1>2, <2>1, <2>2, <2>3
  <1>4. \A e \in Catchers : /\ e = c => catch[e].todo # <<>> /\ catch'[e].todo = Tail(catch[e].todo)
                            /\ e # c => catch'[e].todo = catch[e].todo
    BY <1>1, <1>2
  <1> HIDE DEF t, u, d, k
  <1>5. CASE \A o \in Orders : Alike(Records'[o], Records[o])
    BY <1>1, <1>4, <1>5, FlightStands
  <1>6. ASSUME NEW r \in Order, NEW n \in 0..Qty, mem[d] \in Order, Kept(u, mem[d], r, n),
               mem' = [mem EXCEPT ![d] = r], u.kind = "fill"
        PROVE  FlightInv'
    <2>1. \A o \in Orders \ {d} : Alike(Records'[o], Records[o])
      BY <1>1, <1>2, <1>6, BookedAlike
    <2>2. /\ \A id : Seen(Records[d], id) => Seen(Records'[d], id)
          /\ Units(Records'[d]) = Units(Records[d]) + u.qty
      BY <1>1, <1>2, <1>6, BookedMore
    <2>3. /\ \A j \in DOMAIN stream : FillOf(stream[j], d) => Beyond(stream[j], u, Records)
          /\ \A e \in Catchers : \A j \in DOMAIN catch[e].todo :
               FillOf(catch[e].todo[j], d) => e = c /\ j = 1
      BY <1>3, <1>6 DEF FlightInv, t, d
    <2>4. ASSUME NEW i \in DOMAIN stream', stream'[i].kind = "fill", stream'[i].order \in {d}
          PROVE  Coming(stream'[i], venue', Records')
      <3> DEFINE m == stream[i]
      <3>1. /\ i \in DOMAIN stream /\ stream'[i] = m /\ m.kind = "fill" /\ m.order = d
        BY <1>1, <2>4
      <3>2. Coming(m, venue, Records) /\ Beyond(m, u, Records)
        BY <2>3, <3>1 DEF FlightInv, FillOf
      <3> HIDE DEF m
      <3>3. Seen(Records[d], m.id) \/ Units(Records[d]) + u.qty < m.id[2]
        BY <3>1, <3>2 DEF Beyond
      <3>4. Seen(Records'[d], m.id) \/ Units(Records'[d]) < m.id[2]
        BY <2>2, <3>3
      <3>5. QED
        BY <1>1, <3>1, <3>2, <3>4 DEF Coming
    <2>5. ASSUME NEW e \in Catchers, NEW i \in DOMAIN catch'[e].todo,
                 catch'[e].todo[i].kind = "fill", catch'[e].todo[i].order \in {d}
          PROVE  FALSE
      <3>1. CASE e = c
        <4>1. i \in DOMAIN Tail(t) /\ catch'[e].todo[i] = Tail(t)[i]
          BY <1>4, <3>1 DEF t
        <4>2. i + 1 \in DOMAIN catch[c].todo /\ FillOf(catch[c].todo[i + 1], d) /\ i + 1 # 1
          BY <1>3, <2>5, <4>1 DEF FillOf, t
        <4>3. QED
          BY <2>3, <4>2
      <3>2. CASE e # c
        <4>1. i \in DOMAIN catch[e].todo /\ FillOf(catch[e].todo[i], d)
          BY <1>4, <2>5, <3>2 DEF FillOf
        <4>2. QED
          BY <2>3, <3>2, <4>1
      <3>3. QED
        BY <3>1, <3>2
    <2> DEFINE b == [e \in Catchers |-> IF e = c THEN 1 ELSE 0]
    <2>6. b \in [Catchers -> Nat] /\ b[c] = 1 /\ \A e \in Catchers \ {c} : b[e] = 0
      OBVIOUS
    <2> HIDE DEF b
    <2>7. ASSUME NEW e \in Catchers PROVE Rest(catch'[e].todo, catch[e].todo, b[e])
      <3>1. CASE e = c
        <4>1. b[e] = 1 /\ catch'[e].todo = Tail(t) /\ catch[e].todo = t
          BY <1>4, <2>6, <3>1 DEF t
        <4>2. QED
          BY <1>3, <4>1 DEF Rest
      <3>2. CASE e # c
        <4>1. b[e] = 0 /\ catch'[e].todo = catch[e].todo
          BY <1>4, <2>6, <3>2
        <4>2. \A i \in DOMAIN catch[e].todo : i \in Nat /\ i + 0 = i
          BY FlightTypes
        <4>3. QED
          BY <4>1, <4>2 DEF Rest
      <3>3. QED
        BY <3>1, <3>2
    <2>8. \A o \in Orders : venue'[o].filled \in Nat /\ venue[o].filled <= venue'[o].filled
      BY <1>1, UnitsType
    <2>9. Ordered(stream') /\ \A i \in DOMAIN stream' : \E j \in DOMAIN stream : stream'[i] = stream[j]
      BY <1>1 DEF FlightInv
    <2> DEFINE D == {d}
    <2>10. D \in SUBSET Orders
      BY <1>2
    <2>11. QED
      BY <2>1, <2>4, <2>5, <2>6, <2>7, <2>8, <2>9, <2>10, FlightKept
  <1>7. QED
    <2>1. CASE UNCHANGED <<mem, book, lock>>
      BY <1>1, <1>5, <2>1, RecordsSame
    <2>2. ASSUME NEW r \in Order, NEW n \in 0..Qty, mem[d] \in Order, Kept(u, mem[d], r, n),
                 mem' = [mem EXCEPT ![d] = r]
          PROVE  FlightInv'
      <3>1. CASE u.kind = "fill"
        BY <1>6, <2>2, <3>1
      <3>2. CASE u.kind # "fill"
        <4>1. r.fills = mem[d].fills
          BY <2>2, <3>2 DEF Kept
        <4>2. QED
          BY <1>1, <1>2, <1>5, <2>2, <4>1, BookedAlike
      <3>3. QED
        BY <3>1, <3>2
    <2>3. CASE OnFillEvent(u, c)
      BY <1>1, <2>1, <2>2, <2>3, FillEventBooked DEF TypeInv, Tasks, d
    <2>4. QED
      BY <1>1, <2>1, <2>3

-----------------------------------------------------------------------------
(* The inductive invariant, and what follows from it. *)

\* Until two readings overlap, the rows, the books and what is on its way are
\* in step.
InStep == RowsInv /\ BookInv /\ FlightInv
SafeInv == TypeInv /\ (~overlapped => InStep)

\* A delivered fill is one the venue has executed and we have not booked.
LEMMA StoreDelivered ==
  ASSUME TypeInv, InStep, Deliver
  PROVE  RowsInv' /\ BookInv'
  <1> DEFINE u == Head(stream)
  <1>1. CASE Raises(u)
    BY <1>1, StoreGone DEF Deliver, Die, InStep
  <1>2. CASE ~Raises(u)
    <2>1. /\ OnFillEvent(u, "stream") /\ lock = Free /\ up /\ u # Marker /\ stream # <<>>
          /\ UNCHANGED <<venue, disk, diskBook, loaded, up>>
      BY <1>2 DEF Deliver
    <2>2. stream \in Seq(Message \cup {Marker}) /\ u \in Message /\ 1 \in DOMAIN stream /\ u = stream[1]
      BY <2>1 DEF TypeInv, SysTypeOK
    <2> HIDE DEF u
    <2>3. u.kind = "fill" /\ mem[u.order] # None /\ ~AlreadySeen(mem[u.order], u.id) =>
            Filled(mem[u.order]) + u.qty <= venue[u.order].filled
      <3> SUFFICES ASSUME u.kind = "fill", mem[u.order] # None, ~AlreadySeen(mem[u.order], u.id)
          PROVE Filled(mem[u.order]) + u.qty <= venue[u.order].filled
        OBVIOUS
      <3>1. u.order \in Orders /\ u.id[2] \in Nat
        BY <2>2, MessageParts
      <3>2. Records[u.order] = mem[u.order] /\ Units(mem[u.order]) = Filled(mem[u.order])
        BY <3>1 DEF Records, Record, Units
      <3>3. u.qty = 1 /\ u.id[2] <= venue[u.order].filled /\ Filled(mem[u.order]) < u.id[2]
        BY <2>2, <3>2 DEF InStep, FlightInv, Coming, Seen
      <3>4. venue[u.order].filled \in Nat /\ Filled(mem[u.order]) \in Nat
        BY <3>1, <3>2, UnitsType
      <3>5. QED
        BY <3>1, <3>3, <3>4
    <2>4. QED
      BY <2>1, <2>2, <2>3, BookingKeeps DEF InStep, Tasks
  <1>3. QED
    BY <1>1, <1>2

\* A fill read over REST is what we miss of its order.
LEMMA StoreCaughtUp ==
  ASSUME TypeInv, InStep, MarkerSeen \/ ReconnectReconciled \/ \E c \in Catchers : CatchUp(c)
  PROVE  RowsInv' /\ BookInv'
  <1>1. CASE MarkerSeen \/ ReconnectReconciled
    BY <1>1, StoreKept DEF MarkerSeen, ReconnectReconciled, InStep
  <1>2. ASSUME NEW c \in Catchers, NEW o \in Orders, ReadOrder(c, o) PROVE RowsInv' /\ BookInv'
    BY <1>2, OrderRead, StoreKept DEF InStep
  <1>3. ASSUME NEW c \in Catchers, ReadAgain(c) PROVE RowsInv' /\ BookInv'
    BY <1>3, StoreKept DEF ReadAgain, InStep
  <1>4. ASSUME NEW c \in Catchers, ApplyMissed(c) PROVE RowsInv' /\ BookInv'
    <2> DEFINE t == catch[c].todo
               u == Head(t)
    <2>1. /\ up /\ lock = Free /\ t # <<>> /\ u \in Message
          /\ OnFillEvent(u, c) \/ UNCHANGED <<mem, book, lock>>
          /\ UNCHANGED <<venue, disk, diskBook, up, warm, loaded>>
      BY <1>4, MissedApplied
    <2>2. t \in Seq(Message) /\ 1 \in DOMAIN t /\ u = t[1]
      BY <2>1 DEF TypeInv, SysTypeOK, Catch
    <2>3. u.kind = "fill" /\ mem[u.order] # None => Filled(mem[u.order]) + u.qty <= venue[u.order].filled
      <3> SUFFICES ASSUME u.kind = "fill", mem[u.order] # None
          PROVE Filled(mem[u.order]) + u.qty <= venue[u.order].filled
        OBVIOUS
      <3>1. Due(u, venue, Records)
        BY <2>2 DEF InStep, FlightInv
      <3> HIDE DEF u, t
      <3>2. u.order \in Orders
        BY <2>1, MessageParts
      <3>3. Units(Records[u.order]) = Filled(mem[u.order])
        BY <3>2 DEF Records, Record, Units
      <3>4. QED
        BY <3>1, <3>3 DEF Due
    <2> HIDE DEF u
    <2>4. CASE OnFillEvent(u, c)
      BY <2>1, <2>3, <2>4, BookingKeeps DEF InStep, Tasks
    <2>5. CASE UNCHANGED <<mem, book, lock>>
      BY <2>1, <2>5, StoreKept DEF InStep
    <2>6. QED
      BY <2>1, <2>4, <2>5
  <1>5. QED
    BY <1>1, <1>2, <1>3, <1>4 DEF CatchUp

\* Every step that reads nothing twice keeps the rows and the books in step.
LEMMA StoreStep ==
  ASSUME TypeInv, InStep, Step, ~Overlap
  PROVE  RowsInv' /\ BookInv'
  <1>1. ASSUME NEW o \in Orders, VenueFill(o) \/ VenueCancelling(o) \/ VenueCancelled(o)
        PROVE  RowsInv' /\ BookInv'
    BY <1>1, StoreVenue DEF InStep
  <1>2. CASE Warmup \/ NewSession \/ \E o \in Orders : Submit(o)
    BY <1>2, StoreRunner DEF InStep, Overlap
  <1>3. CASE MarkerSeen \/ ReconnectReconciled \/ \E c \in Catchers : CatchUp(c)
    BY <1>3, StoreCaughtUp
  <1>4. CASE Deliver
    BY <1>4, StoreDelivered
  <1>5. CASE Save \/ SaveFails
    BY <1>5, StoreSaved DEF InStep
  <1>6. CASE Cron \/ CronUnreachable \/ BrokerUnreachable \/ Crash \/ Restart
    BY <1>6, StoreProcess DEF InStep
  <1>7. CASE Redeliver \/ Drop \/ Connect
    BY <1>7, StoreKept DEF Redeliver, Drop, Connect, taskVars, InStep
  <1>8. QED
    BY <1>1, <1>2, <1>3, <1>4, <1>5, <1>6, <1>7 DEF Step, Consume

\* What the venue and the connection do keeps what is on its way in step.
LEMMA FlightVenue ==
  ASSUME TypeInv, TypeInv', BookInv, FlightInv,
         \/ \E o \in Orders : VenueFill(o) \/ VenueCancelling(o) \/ VenueCancelled(o)
         \/ Redeliver \/ Drop \/ Connect
  PROVE  FlightInv'
  <1>1. UNCHANGED <<mem, disk, catch>> /\ \A o \in Orders : Alike(Records'[o], Records[o])
    BY RecordsSame DEF VenueFill, VenueCancelling, VenueCancelled, Redeliver, Drop, Connect, taskVars
  <1>2. ASSUME NEW o \in Orders, VenueFill(o) PROVE FlightInv'
    <2> DEFINE k == venue'[o].filled
               m == FillMsg(o, <<"exec", k>>, 1)
    <2>1. /\ k = venue[o].filled + 1 /\ Emit(m) /\ k \in 1..Qty /\ venue[o].filled \in Nat
          /\ \A p \in Orders : venue'[p].filled \in Nat /\ venue[p].filled <= venue'[p].filled
      BY <1>2, VenueGrows
    <2>2. 1 \in 1..Qty /\ <<"exec", k>> \in FillId
      BY <2>1, QtyAssumption DEF FillId
    <2>3. m \in Message /\ m.kind = "fill" /\ m.order = o /\ m.qty = 1 /\ m.id = <<"exec", k>>
      BY <2>2, MessageType DEF FillMsg
    <2>4. venue[o].filled < k /\ k <= venue'[o].filled
      BY <2>1
    <2> HIDE DEF m
    <2>5. Fresh(m, venue, venue')
      BY <2>3, <2>4 DEF Fresh
    <2>6. stream' = Append(stream, m) \/ stream' = stream
      BY <2>1 DEF Emit
    <2>7. QED
      BY <1>1, <2>1, <2>3, <2>5, <2>6, FlightSent
  <1>3. ASSUME NEW o \in Orders, VenueCancelling(o) \/ VenueCancelled(o), ~VenueFill(o) PROVE FlightInv'
    <2>1. /\ \E s \in OrderStatus : Emit(StatusMsg(o, s))
          /\ \A p \in Orders : venue'[p].filled \in Nat /\ venue[p].filled <= venue'[p].filled
      BY <1>3, VenueGrows
    <2>2. PICK s \in OrderStatus : Emit(StatusMsg(o, s))
      BY <2>1
    <2> DEFINE m == StatusMsg(o, s)
    <2>3. m \in Message /\ m.kind # "fill"
      BY MessageType DEF StatusMsg
    <2> HIDE DEF m
    <2>4. stream' = Append(stream, m) \/ stream' = stream
      BY <2>2 DEF Emit, m
    <2>5. QED
      BY <1>1, <2>1, <2>3, <2>4, FlightSent
  <1>4. CASE Redeliver
    <2> DEFINE m == stream[Len(stream)]
    <2>1. stream # <<>> /\ m # Marker /\ stream' = Append(stream, m) /\ venue' = venue
      BY <1>4 DEF Redeliver
    <2>2. m \in Message
      BY <2>1, FlightTypes
    <2>3. \A p \in Orders : venue'[p].filled \in Nat /\ venue[p].filled <= venue'[p].filled
      BY <2>1, UnitsType
    <2> HIDE DEF m
    <2>4. m = stream[Len(stream)]
      BY DEF m
    <2>5. QED
      BY <1>1, <2>1, <2>2, <2>3, <2>4, FlightSent
  <1>5. CASE Drop
    BY <1>1, <1>5, FlightStands DEF Drop
  <1>6. CASE Connect
    <2>1. /\ UNCHANGED <<venue, catch>> /\ stream' \in {<<>>, <<Marker>>}
      BY <1>6 DEF Connect, taskVars
    <2>2. \A i \in DOMAIN stream' : stream'[i].kind # "fill"
      BY <2>1 DEF Marker
    <2>3. FlightInv' <=> \A c \in Catchers : \A i \in DOMAIN catch[c].todo : catch[c].todo[i].kind = "fill" =>
                            /\ Due(catch[c].todo[i], venue, Records)
                            /\ \A d \in Catchers : \A j \in DOMAIN catch[d].todo :
                                 FillOf(catch[d].todo[j], catch[c].todo[i].order) => d = c /\ j = i
      <3>1. Ordered(stream')
        BY <2>2 DEF Ordered
      <3>2. Records' = Records
        BY <1>1 DEF Records, Record
      <3>3. QED
        BY <2>1, <2>2, <3>1, <3>2 DEF FlightInv, FillOf
    <2>4. QED
      BY <2>3 DEF FlightInv
  <1>7. QED
    BY <1>2, <1>3, <1>4, <1>5, <1>6

\* A catch-up that ends, or begins, has nothing to apply.
LEMMA Emptied ==
  ASSUME TypeInv, NEW e, NEW k, k.todo = <<>>, catch' = [catch EXCEPT ![e] = k] \/ catch' = catch
  PROVE  \A c \in Catchers : catch'[c].todo = catch[c].todo \/ catch'[c].todo = <<>>
  <1>1. catch \in [Catchers -> Catch]
    BY DEF TypeInv, SysTypeOK
  <1>2. QED
    BY <1>1

\* So do the runner's own steps, when nothing is installed over newer fills.
LEMMA FlightRunner ==
  ASSUME TypeInv, TypeInv', InStep, ~InstallsOver, Warmup \/ NewSession \/ \E o \in Orders : Submit(o)
  PROVE  FlightInv'
  <1>1. CASE WarmupInstall
    <2> DEFINE gone == {o \in Known : loaded[o] # None}
    <2>1. /\ UNCHANGED <<venue, stream>>
          /\ \E k : k.todo = <<>> /\ catch' = [Detach(gone) EXCEPT !["warmup"] = k]
      BY <1>1 DEF WarmupInstall, Idle
    <2>2. gone \in SUBSET Orders
      BY DEF Known
    <2> HIDE DEF gone
    <2>3. /\ Detach(gone) \in [Catchers -> Catch]
          /\ \A c \in Catchers : Detach(gone)[c].todo = catch[c].todo
      BY <2>2, DetachType DEF TypeInv
    <2>4. \A c \in Catchers : catch'[c].todo = catch[c].todo \/ catch'[c].todo = <<>>
      BY <2>1, <2>3
    <2>5. \A o \in Orders : Alike(Records'[o], Records[o])
      BY <1>1, AlikeInstalled DEF InStep
    <2>6. QED
      BY <2>1, <2>4, <2>5, FlightStands DEF InStep
  <1>2. CASE WarmupLoad \/ WarmupReconciled \/ NewSession
    <2>1. /\ UNCHANGED <<venue, stream, mem, disk>>
          /\ \A c \in Catchers : catch'[c].todo = catch[c].todo \/ catch'[c].todo = <<>>
      BY <1>2 DEF WarmupLoad, WarmupReconciled, NewSession, TypeInv, SysTypeOK, Idle
    <2>2. QED
      BY <2>1, RecordsSame, FlightStands DEF InStep
  <1>3. ASSUME NEW o \in Orders, Submit(o) PROVE FlightInv'
    <2> DEFINE m == StatusMsg(o, "SUBMITTED")
    <2>1. venue' = [venue EXCEPT ![o].state = "working"] /\ Emit(m) /\ catch' = catch
      BY <1>3 DEF Submit
    <2>2. m \in Message /\ m.kind # "fill"
      BY MessageType DEF StatusMsg, OrderStatus
    <2> HIDE DEF m
    <2>3. stream' = Append(stream, m) \/ stream' = stream
      BY <2>1 DEF Emit
    <2>4. \A p \in Orders : venue'[p].filled = venue[p].filled
      BY <2>1 DEF TypeInv, SysTypeOK, Venues
    <2>5. \A p \in Orders : venue'[p].filled \in Nat /\ venue[p].filled <= venue'[p].filled
      BY <2>4, UnitsType
    <2>6. QED
      BY <1>3, <2>1, <2>2, <2>3, <2>5, AlikeSubmitted, FlightSent DEF InStep
  <1>4. QED
    BY <1>1, <1>2, <1>3 DEF Warmup

\* A process that ends takes what is on its way with it.
LEMMA FlightGone ==
  ASSUME Gone PROVE FlightInv'
  <1>1. stream' = <<>> /\ \A c \in Catchers : catch'[c].todo = <<>>
    BY DEF Gone, Idle
  <1>2. QED
    BY <1>1 DEF FlightInv, Ordered

\* The writes, the job, and the end of the process and its restart.
LEMMA FlightProcess ==
  ASSUME TypeInv, TypeInv', InStep,
         Save \/ SaveFails \/ Cron \/ CronUnreachable \/ BrokerUnreachable \/ Crash \/ Restart
  PROVE  FlightInv'
  <1>1. CASE SaveDone \/ SaveOrders
    <2>1. \A o \in Orders : Alike(Records'[o], Records[o])
      BY <1>1, AlikeSaved DEF InStep
    <2>2. UNCHANGED <<venue, stream>> /\ \A c \in Catchers : catch'[c].todo = catch[c].todo
      <3>1. CASE SaveDone
        <4>1. catch' = Detach({lock.order}) /\ {lock.order} \in SUBSET Orders /\ UNCHANGED <<venue, stream>>
          BY <3>1, LockType DEF SaveDone, TypeInv
        <4>2. QED
          BY <4>1, DetachType DEF TypeInv
      <3>2. CASE SaveOrders
        BY <3>2 DEF SaveOrders
      <3>3. QED
        BY <1>1, <3>1, <3>2
    <2>3. QED
      BY <2>1, <2>2, FlightStands DEF InStep
  <1>2. CASE SaveBook \/ Cron \/ Restart \/ CronUnreachable
    <2>1. UNCHANGED <<venue, stream, mem, disk, catch>>
      BY <1>2 DEF SaveBook, Cron, CronRead, CronWrite, CronUnreachable, Restart
    <2>2. QED
      BY <2>1, RecordsSame, FlightStands DEF InStep
  <1>3. CASE SaveFails
    <2>1. CASE Die
      BY <2>1, FlightGone DEF Die
    <2>2. CASE ~Die
      <3>1. /\ UNCHANGED <<venue, stream, mem, disk>>
            /\ catch' = [catch EXCEPT !["warmup"] = Idle] \/ catch' = catch
        BY <1>3, <2>2 DEF SaveFails
      <3>2. Idle.todo = <<>>
        BY DEF Idle
      <3>3. \A c \in Catchers : catch'[c].todo = catch[c].todo \/ catch'[c].todo = <<>>
        BY <3>1, <3>2, Emptied
      <3>4. QED
        BY <3>1, <3>3, RecordsSame, FlightStands DEF InStep
    <2>3. QED
      BY <2>1, <2>2
  <1>4. CASE BrokerUnreachable \/ Crash
    BY <1>4, FlightGone DEF BrokerUnreachable, Crash, Die
  <1>5. QED
    BY <1>1, <1>2, <1>3, <1>4 DEF Save

\* Every step that reads nothing twice keeps what is on its way in step.
LEMMA FlightStep ==
  ASSUME TypeInv, TypeInv', InStep, Step, ~Overlap
  PROVE  FlightInv'
  <1>1. CASE \/ \E o \in Orders : VenueFill(o) \/ VenueCancelling(o) \/ VenueCancelled(o)
             \/ Redeliver \/ Drop \/ Connect
    BY <1>1, FlightVenue DEF InStep
  <1>2. CASE Warmup \/ NewSession \/ \E o \in Orders : Submit(o)
    BY <1>2, FlightRunner DEF Overlap
  <1>3. CASE Save \/ SaveFails \/ Cron \/ CronUnreachable \/ BrokerUnreachable \/ Crash \/ Restart
    BY <1>3, FlightProcess
  <1>4. CASE MarkerSeen \/ ReconnectReconciled
    <2>1. /\ UNCHANGED <<venue, mem, disk>>
          /\ stream' = stream \/ (stream # <<>> /\ stream' = Tail(stream))
          /\ \E k : k.todo = <<>> /\ catch' = [catch EXCEPT !["consumer"] = k]
      <3>1. CASE MarkerSeen
        <4> DEFINE k == [Idle EXCEPT !.on = TRUE, !.left = Known]
        <4>1. k.todo = <<>> /\ catch' = [catch EXCEPT !["consumer"] = k]
          BY <3>1 DEF MarkerSeen, Idle
        <4>2. QED
          BY <3>1, <4>1 DEF MarkerSeen
      <3>2. CASE ReconnectReconciled
        BY <3>2 DEF ReconnectReconciled, Idle
      <3>3. QED
        BY <1>4, <3>1, <3>2
    <2>2. \A c \in Catchers : catch'[c].todo = catch[c].todo \/ catch'[c].todo = <<>>
      BY <2>1, Emptied
    <2>3. QED
      BY <2>1, <2>2, RecordsSame, FlightStands DEF InStep
  <1>5. ASSUME NEW c \in Catchers, CatchUp(c) PROVE FlightInv'
    <2>1. ASSUME NEW o \in Orders, ReadOrder(c, o) PROVE FlightInv'
      BY <2>1, FlightRead DEF InStep, Overlap
    <2>2. CASE ApplyMissed(c)
      BY <2>2, FlightApplied DEF InStep
    <2>3. CASE ReadAgain(c)
      <3> DEFINE k == [catch[c] EXCEPT !.dirty = TRUE]
      <3>1. UNCHANGED <<venue, stream, mem, disk>> /\ catch' = [catch EXCEPT ![c] = k]
        BY <2>3 DEF ReadAgain, TypeInv, SysTypeOK
      <3>2. k.todo = catch[c].todo
        BY DEF TypeInv, SysTypeOK, Catch
      <3> HIDE DEF k
      <3>3. \A e \in Catchers : catch'[e].todo = catch[e].todo
        BY <3>1, <3>2 DEF TypeInv, SysTypeOK
      <3>4. QED
        BY <3>1, <3>3, RecordsSame, FlightStands DEF InStep
    <2>4. QED
      BY <1>5, <2>1, <2>2, <2>3 DEF CatchUp
  <1>6. CASE Deliver
    <2>1. CASE Raises(Head(stream))
      BY <1>6, <2>1, FlightGone DEF Deliver, Die
    <2>2. CASE ~Raises(Head(stream))
      BY <1>6, <2>2, FlightDelivered DEF InStep
    <2>3. QED
      BY <2>1, <2>2
  <1>7. QED
    BY <1>1, <1>2, <1>3, <1>4, <1>5, <1>6 DEF Step, Consume

\* A worker boots with an empty, agreed book.
LEMMA SafeInit == Init => SafeInv
  <1> SUFFICES ASSUME Init PROVE SafeInv
    OBVIOUS
  <1>1. /\ \A o \in Orders : mem[o] = None /\ disk[o] = None /\ loaded[o] = None
        /\ \A o \in Orders : venue[o].filled = 0 /\ book[o] = 0 /\ diskBook[o] = 0
        /\ lock = Free /\ stream = <<>> /\ \A c \in Catchers : catch[c] = Idle
    BY DEF Init, NoOrders
  <1>2. RowsInv
    BY <1>1 DEF RowsInv, Init, Known, Free
  <1>3. BookInv
    BY <1>1 DEF BookInv, Units
  <1>4. FlightInv
    BY <1>1, FlightEmpty DEF Idle
  <1>5. QED
    BY <1>2, <1>3, <1>4, TypeInit DEF SafeInv, InStep

\* The invariant is inductive.
LEMMA SafeStep == SafeInv /\ [Next]_vars => SafeInv'
  <1>1. ASSUME SafeInv, UNCHANGED vars PROVE SafeInv'
    <2>1. /\ UNCHANGED <<venue, disk, diskBook, mem, book, lock, catch, warm, loaded, stream, up>>
          /\ overlapped' = overlapped /\ TypeInv'
      BY <1>1, TypeStep DEF vars, sysVars, procVars, taskVars, SafeInv
    <2>2. RowsInv => RowsInv'
      BY <2>1 DEF RowsInv, Known
    <2>3. BookInv => BookInv'
      BY <2>1 DEF BookInv
    <2>4. FlightInv => FlightInv'
      BY <2>1 DEF FlightInv, Records, Record
    <2>5. QED
      BY <1>1, <2>1, <2>2, <2>3, <2>4 DEF SafeInv, InStep
  <1>2. ASSUME SafeInv, Next PROVE SafeInv'
    <2>1. TypeInv /\ TypeInv'
      BY <1>2, TypeStep DEF SafeInv
    <2>2. SUFFICES ASSUME ~overlapped' PROVE InStep'
      BY <2>1 DEF SafeInv
    <2>3. ~overlapped /\ ~Overlap
      BY <1>2, <2>2, Zenon DEF Next
    <2>4. InStep /\ Step
      BY <1>2, <2>3 DEF SafeInv, Next
    <2>5. QED
      BY <2>1, <2>3, <2>4, StoreStep, FlightStep DEF InStep
  <1>3. QED
    BY <1>1, <1>2

\* The book holds no more of an order than the venue has executed: an execution
\* that reaches us twice, over the stream and over REST, before and after a
\* crash, is booked once, in every environment, until a reading over REST takes
\* in what is on its way (on_fill_event, apply_trade_update, _to_order).
THEOREM BookedOnce == Spec => []NoDoubleBooking
  <1>1. SafeInv => NoDoubleBooking
    BY DEF SafeInv, InStep, BookInv, NoDoubleBooking
  <1>2. QED
    BY <1>1, SafeInit, SafeStep, PTL DEF Spec

\* The stored book is never ahead of the stored orders, wherever a crash or a
\* failed write falls between the two (_save_book's order of writes).
THEOREM RowsComeFirst == Spec => []BookNotAheadOfRows
  <1>1. SafeInv => BookNotAheadOfRows
    BY DEF SafeInv, InStep, BookInv, Units, BookNotAheadOfRows
  <1>2. QED
    BY <1>1, SafeInit, SafeStep, PTL DEF Spec

\* Booking an update moves the book and the order together.
LEMMA BookedTogether ==
  ASSUME TypeInv, NEW u \in Message, NEW by \in Tasks, OnFillEvent(u, by),
         \A o \in Known : book[o] = Filled(mem[o])
  PROVE  \A o \in Known' : book'[o] = Filled(mem'[o])
  <1> DEFINE d == u.order
  <1>1. CASE UNCHANGED <<mem, book, lock>>
    BY <1>1 DEF Known
  <1>2. ASSUME NEW r \in Order, NEW n \in 0..Qty, mem[d] \in Order, Kept(u, mem[d], r, n),
               mem' = [mem EXCEPT ![d] = r], book' = [book EXCEPT ![d] = @ + n]
        PROVE  \A o \in Known' : book'[o] = Filled(mem'[o])
    <2>1. d \in Orders /\ mem[d] # None /\ Filled(mem[d]) \in Nat
      BY <1>2, OrderFilled DEF Message
    <2>2. Filled(r) = Filled(mem[d]) + n
      BY <1>2, <2>1 DEF Kept
    <2> HIDE DEF d
    <2>3. /\ mem'[d] = r /\ book'[d] = book[d] + n
          /\ \A o \in Orders \ {d} : mem'[o] = mem[o] /\ book'[o] = book[o]
      BY <1>2, <2>1 DEF TypeInv, SysTypeOK
    <2>4. book[d] = Filled(mem[d])
      BY <2>1 DEF Known
    <2>5. QED
      BY <2>2, <2>3, <2>4 DEF Known
  <1>3. QED
    BY <1>1, <1>2, FillEventBooked DEF TypeInv

\* A runner that is trading goes on with a book that agrees with its orders.
LEMMA ConsistentStep ==
  ASSUME TypeInv, InStep, Step,
         warm = "ready" /\ ~halted => \A o \in Known : book[o] = Filled(mem[o]),
         warm' = "ready", ~halted'
  PROVE  \A o \in Known' : book'[o] = Filled(mem'[o])
  <1>1. CASE WarmupReconciled
    <2>1. up /\ ~Diverged /\ mem' = mem /\ book' = book
      BY <1>1 DEF WarmupReconciled, CaughtUp
    <2>2. ASSUME NEW o \in Known PROVE book[o] = Filled(mem[o])
      <3>1. o \in Orders /\ mem[o] # None /\ book[o] = venue[o].filled
        BY <2>1 DEF Known, Diverged
      <3>2. Filled(mem[o]) <= venue[o].filled /\ book[o] <= Filled(mem[o])
        BY <2>1, <3>1 DEF InStep, BookInv, Units
      <3>3. Filled(mem[o]) \in Nat /\ book[o] \in Nat /\ venue[o].filled \in Nat
        BY <3>1, UnitsType
      <3>4. QED
        BY <3>1, <3>2, <3>3
    <2>3. QED
      BY <2>1, <2>2 DEF Known
  <1>2. CASE Deliver
    <2>1. ~Raises(Head(stream))
      BY <1>2 DEF Deliver, Die, Gone
    <2>2. /\ OnFillEvent(Head(stream), "stream") /\ warm' = warm /\ halted' = halted
          /\ stream # <<>> /\ Head(stream) # Marker
      BY <1>2, <2>1 DEF Deliver
    <2>3. Head(stream) \in Message
      BY <2>2 DEF TypeInv, SysTypeOK
    <2>4. \A o \in Known : book[o] = Filled(mem[o])
      BY <2>2
    <2>5. QED
      BY <2>2, <2>3, <2>4, BookedTogether DEF Tasks
  <1>3. ASSUME NEW c \in Catchers, ApplyMissed(c) PROVE \A o \in Known' : book'[o] = Filled(mem'[o])
    <2>1. /\ OnFillEvent(Head(catch[c].todo), c) \/ UNCHANGED <<mem, book, lock>>
          /\ Head(catch[c].todo) \in Message /\ warm' = warm /\ halted' = halted
      BY <1>3, MissedApplied
    <2>2. \A o \in Known : book[o] = Filled(mem[o])
      BY <2>1
    <2>3. CASE OnFillEvent(Head(catch[c].todo), c)
      BY <2>1, <2>2, <2>3, BookedTogether DEF Tasks
    <2>4. CASE UNCHANGED <<mem, book, lock>>
      BY <2>2, <2>4 DEF Known
    <2>5. QED
      BY <2>1, <2>3, <2>4
  <1>4. ASSUME NEW o \in Orders, Submit(o) PROVE \A p \in Known' : book'[p] = Filled(mem'[p])
    <2> DEFINE new == [status |-> "SUBMITTED", fills |-> <<>>]
    <2>1. /\ venue[o].state = "none" /\ mem' = [mem EXCEPT ![o] = new] /\ book' = book
          /\ warm' = warm /\ halted' = halted
      BY <1>4 DEF Submit
    <2>2. Filled(new) = 0
      BY FilledOfNone
    <2> HIDE DEF new
    <2>3. book[o] = 0
      <3>1. venue[o].filled = 0 /\ book[o] <= venue[o].filled /\ book[o] \in Nat
        BY <2>1, UnitsType DEF InStep, TypeInv, Unfilled, BookInv
      <3>2. QED
        BY <3>1
    <2>4. mem'[o] = new /\ \A p \in Orders \ {o} : mem'[p] = mem[p]
      BY <2>1 DEF TypeInv, SysTypeOK
    <2>5. \A p \in Known : book[p] = Filled(mem[p])
      BY <2>1
    <2>6. QED
      BY <2>1, <2>2, <2>3, <2>4, <2>5 DEF Known
  <1>5. CASE SaveDone
    <2>1. /\ warm' = warm /\ halted' = halted /\ book' = book
          /\ \A o \in Orders : mem'[o] = mem[o] \/ mem'[o] = None
      BY <1>5 DEF SaveDone, TypeInv, SysTypeOK
    <2>2. QED
      BY <2>1 DEF Known
  <1>6. CASE Restart
    <2>1. \A o \in Orders : mem'[o] = None
      BY <1>6 DEF Restart, InStep, RowsInv, NoOrders
    <2>2. QED
      BY <2>1 DEF Known
  <1>7. CASE /\ ~WarmupReconciled /\ ~Deliver /\ ~SaveDone /\ ~Restart
             /\ ~\E c \in Catchers : ApplyMissed(c)
             /\ ~\E o \in Orders : Submit(o)
    <2>1. /\ UNCHANGED <<mem, book>> /\ warm' = warm
          /\ halted => halted'
      <3>1. ASSUME NEW o \in Orders, VenueFill(o) \/ VenueCancelling(o) \/ VenueCancelled(o)
            PROVE  UNCHANGED <<mem, book, warm, halted>>
        BY <3>1 DEF VenueFill, VenueCancelling, VenueCancelled, taskVars
      <3>2. CASE Redeliver \/ Drop \/ Connect
        BY <3>2 DEF Redeliver, Drop, Connect, taskVars
      <3>3. CASE MarkerSeen \/ ReconnectReconciled
        <4>1. CASE MarkerSeen
          BY <4>1 DEF MarkerSeen
        <4>2. CASE ReconnectReconciled
          <5>1. UNCHANGED <<mem, book, warm>> /\ halted' = (halted \/ Diverged)
            BY <4>2 DEF ReconnectReconciled
          <5>2. halted => halted'
            BY <5>1, Zenon
          <5>3. QED
            BY <5>1, <5>2
        <4>3. QED
          BY <3>3, <4>1, <4>2
      <3>4. ASSUME NEW c \in Catchers, CatchUp(c) PROVE UNCHANGED <<mem, book, warm, halted>>
        BY <1>7, <3>4 DEF CatchUp, ReadOrder, ReadAgain
      <3>5. CASE WarmupLoad \/ WarmupInstall \/ NewSession
        BY <3>5 DEF WarmupLoad, WarmupInstall, NewSession
      <3>6. CASE SaveOrders \/ SaveBook \/ Cron \/ CronUnreachable
        BY <3>6 DEF SaveOrders, SaveBook, Cron, CronRead, CronWrite, CronUnreachable
      <3>7. CASE SaveFails
        BY <3>7 DEF SaveFails, Die, Gone
      <3>8. CASE BrokerUnreachable \/ Crash
        BY <3>8 DEF BrokerUnreachable, Crash, Die, Gone
      <3>9. QED
        BY <1>7, <3>1, <3>2, <3>3, <3>4, <3>5, <3>6, <3>7, <3>8 DEF Step, Consume, Warmup, Save
    <2>2. QED
      BY <2>1 DEF Known
  <1>8. QED
    BY <1>1, <1>2, <1>3, <1>4, <1>5, <1>6, <1>7

\* A runner that is trading sizes its orders against a book that agrees with
\* the fills of its own working orders (warmup ends in a reconcile, and
\* on_fill_event books the order and the portfolio under one lock).
THEOREM TradesInStep == Spec => []TradesOnAConsistentBook
  <1>1. Init => TradesOnAConsistentBook
    BY DEF Init, TradesOnAConsistentBook
  <1>2. SafeInv /\ TradesOnAConsistentBook /\ [Next]_vars => TradesOnAConsistentBook'
    <2>1. ASSUME TradesOnAConsistentBook, UNCHANGED vars PROVE TradesOnAConsistentBook'
      BY <2>1 DEF vars, sysVars, procVars, taskVars, TradesOnAConsistentBook, Known
    <2>2. ASSUME SafeInv, TradesOnAConsistentBook, Next PROVE TradesOnAConsistentBook'
      <3>1. SUFFICES ASSUME warm' = "ready", ~halted', ~overlapped'
                     PROVE  \A o \in Known' : book'[o] = Filled(mem'[o])
        BY DEF TradesOnAConsistentBook
      <3>2. ~overlapped
        BY <2>2, <3>1, Zenon DEF Next
      <3>3. TypeInv /\ InStep /\ Step
        BY <2>2, <3>2 DEF SafeInv, Next
      <3>4. QED
        BY <2>2, <3>1, <3>2, <3>3, ConsistentStep DEF TradesOnAConsistentBook
    <2>3. QED
      BY <2>1, <2>2
  <1>3. QED
    BY <1>1, <1>2, SafeInit, SafeStep, PTL DEF Spec
=============================================================================
