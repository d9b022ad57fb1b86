-------------------------- MODULE ProtectionProofs --------------------------
(***************************************************************************)
(* Proofs about Protection, for any size and bounds: nobody is paged about *)
(* a position whose stops are in place, for any entries; and, for a single *)
(* entry, a gap at the venue is one the engine knows of.                   *)
(*                                                                         *)
(* Both compare what two books hold: the venue's orders and ours.  A book  *)
(* is compared order by order, each for what it holds once the orders that *)
(* are selling have sold (HeldLess).                                       *)
(***************************************************************************)
EXTENDS Protection, FoldTheorems

-----------------------------------------------------------------------------
(* What the orders of a book come to. *)

Total(f) == SumFunctionOnSet(f, DOMAIN f)

\* What is held of each order once those in `selling` have sold what they are for.
HeldLess(orders, selling) ==
  [id \in DOMAIN orders |->
     IF id.kind = "entry" THEN orders[id].filled
     ELSE IF id \in selling THEN -orders[id].qty ELSE -orders[id].filled]

\* A book of finitely many orders of known kinds, none filled beyond its size.
IsBook(orders) ==
  /\ IsFiniteSet(DOMAIN orders)
  /\ \A id \in DOMAIN orders :
       /\ id.kind \in {"entry", "stop", "close"}
       /\ orders[id].qty \in Nat /\ orders[id].filled \in Nat
       /\ orders[id].filled <= orders[id].qty

Sells(orders) == {id \in DOMAIN orders : id.kind # "entry"}
Reserving(v) == {id \in Sells(v) : Working(v, id)}

\* The terms are integers, and so is their sum.
LEMMA HeldLessType ==
  ASSUME NEW orders, IsBook(orders), NEW selling
  PROVE  /\ DOMAIN HeldLess(orders, selling) = DOMAIN orders
         /\ Ints(HeldLess(orders, selling), DOMAIN orders)
         /\ Total(HeldLess(orders, selling)) \in Int
  <1>1. /\ DOMAIN HeldLess(orders, selling) = DOMAIN orders
        /\ Ints(HeldLess(orders, selling), DOMAIN orders)
    BY DEF HeldLess, IsBook, Ints
  <1>2. IsFiniteSet(DOMAIN orders)
    BY DEF IsBook
  <1>3. QED
    BY <1>1, <1>2, SumType DEF Total

\* A book that holds no more order by order holds no more.
LEMMA HoldsNoMore ==
  ASSUME NEW a, IsBook(a), NEW S, NEW b, IsBook(b), NEW T, DOMAIN a = DOMAIN b,
         \A id \in DOMAIN a : HeldLess(a, S)[id] <= HeldLess(b, T)[id]
  PROVE  Total(HeldLess(a, S)) <= Total(HeldLess(b, T))
  <1> DEFINE f == HeldLess(a, S)
             g == HeldLess(b, T)
  <1>1. /\ DOMAIN f = DOMAIN a /\ DOMAIN g = DOMAIN a
        /\ Ints(f, DOMAIN a) /\ Ints(g, DOMAIN a) /\ IsFiniteSet(DOMAIN a)
    BY HeldLessType DEF IsBook
  <1>2. \A id \in DOMAIN a : f[id] <= g[id]
    OBVIOUS
  <1> HIDE DEF f, g
  <1>3. SumFunctionOnSet(f, DOMAIN a) <= SumFunctionOnSet(g, DOMAIN a)
    BY <1>1, <1>2, SumMonotone
  <1>4. QED
    BY <1>1, <1>3 DEF Total, f, g

\* And less, if it holds less of one order.
LEMMA HoldsLess ==
  ASSUME NEW a, IsBook(a), NEW S, NEW b, IsBook(b), NEW T, DOMAIN a = DOMAIN b,
         \A id \in DOMAIN a : HeldLess(a, S)[id] <= HeldLess(b, T)[id],
         NEW x \in DOMAIN a, HeldLess(a, S)[x] < HeldLess(b, T)[x]
  PROVE  Total(HeldLess(a, S)) < Total(HeldLess(b, T))
  <1> DEFINE f == HeldLess(a, S)
             g == HeldLess(b, T)
             rest == DOMAIN a \ {x}
  <1>1. /\ DOMAIN f = DOMAIN a /\ DOMAIN g = DOMAIN a
        /\ Ints(f, DOMAIN a) /\ Ints(g, DOMAIN a) /\ IsFiniteSet(DOMAIN a)
    BY HeldLessType DEF IsBook
  <1>2. (\A id \in DOMAIN a : f[id] <= g[id]) /\ f[x] < g[x]
    OBVIOUS
  <1> HIDE DEF f, g
  <1>3. IsFiniteSet(rest) /\ Ints(f, rest) /\ Ints(g, rest) /\ f[x] \in Int /\ g[x] \in Int
    BY <1>1, FS_Subset DEF Ints
  <1>4. SumFunctionOnSet(f, rest) <= SumFunctionOnSet(g, rest)
    BY <1>2, <1>3, SumMonotone
  <1>5. /\ SumFunctionOnSet(f, DOMAIN a) = f[x] + SumFunctionOnSet(f, rest)
        /\ SumFunctionOnSet(g, DOMAIN a) = g[x] + SumFunctionOnSet(g, rest)
    BY <1>1, SumRemove
  <1>6. SumFunctionOnSet(f, rest) \in Int /\ SumFunctionOnSet(g, rest) \in Int
    BY <1>3, SumType
  <1>7. SumFunctionOnSet(f, DOMAIN a) < SumFunctionOnSet(g, DOMAIN a)
    BY <1>2, <1>3, <1>4, <1>5, <1>6
  <1>8. QED
    BY <1>1, <1>7 DEF Total, f, g

\* What the orders that are selling have left is what is held less.
LEMMA LeftIsHeldLess ==
  ASSUME NEW orders, IsBook(orders), NEW S \in SUBSET Sells(orders)
  PROVE  /\ SumFunctionOnSet(Left(orders), S) \in Nat
         /\ Total(HeldLess(orders, S))
              = Total(HeldLess(orders, {})) - SumFunctionOnSet(Left(orders), S)
  <1> DEFINE D == DOMAIN orders
             f == HeldLess(orders, {})
             h == HeldLess(orders, S)
             left == Left(orders)
             g == [id \in D |-> IF id \in S THEN left[id] ELSE 0]
  <1>1. /\ DOMAIN f = D /\ DOMAIN h = D /\ Ints(f, D) /\ IsFiniteSet(D)
    BY HeldLessType DEF IsBook
  <1>2. S \in SUBSET D /\ IsFiniteSet(S) /\ Ints(left, S) /\ (\A id \in S : left[id] >= 0)
        /\ \A id \in D : g[id] = IF id \in S THEN left[id] ELSE 0
    BY <1>1, FS_Subset DEF Sells, Left, IsBook, Ints
  <1>3. \A id \in D : h[id] = f[id] + (-1) * g[id]
    BY <1>2 DEF HeldLess, Left, IsBook, Sells
  <1>4. Ints(g, D)
    BY <1>2 DEF Ints
  <1> HIDE DEF f, h, g, left, D
  <1>5. SumFunctionOnSet(g, D) = SumFunctionOnSet(left, S)
    BY <1>1, <1>2, SumOverSubset
  <1>6. SumFunctionOnSet(h, D) = SumFunctionOnSet(f, D) + (-1) * SumFunctionOnSet(g, D)
    BY <1>1, <1>3, <1>4, SumLinear
  <1>7. SumFunctionOnSet(left, S) \in Int /\ SumFunctionOnSet(left, S) >= 0
    BY <1>2, SumType, SumNonNegative
  <1>8. SumFunctionOnSet(f, D) \in Int
    BY <1>1, SumType
  <1>9. SumFunctionOnSet(h, D) = SumFunctionOnSet(f, D) - SumFunctionOnSet(left, S)
    BY <1>5, <1>6, <1>7, <1>8
  <1>10. QED
    BY <1>1, <1>7, <1>9 DEF Total, f, h, left

\* The shares in the account, and those that are free.
LEMMA HeldAndFree ==
  ASSUME NEW v, IsBook(v)
  PROVE  /\ Held(v) = Total(HeldLess(v, {}))
         /\ Free(v) = Total(HeldLess(v, Reserving(v)))
  <1> DEFINE D == DOMAIN v
             buys == {id \in D : id.kind \in {"entry"}}
             sells == {id \in D : id.kind \in {"stop", "close"}}
             filled == [id \in D |-> v[id].filled]
             f == [id \in D |-> IF id \in buys THEN filled[id] ELSE 0]
             g == [id \in D |-> IF id \in sells THEN filled[id] ELSE 0]
             h == HeldLess(v, {})
  <1>1. DOMAIN h = D /\ IsFiniteSet(D)
    BY HeldLessType DEF IsBook
  <1>2. /\ buys \in SUBSET D /\ sells \in SUBSET D /\ Ints(filled, buys) /\ Ints(filled, sells)
        /\ Ints(f, D) /\ Ints(g, D)
        /\ \A id \in D : f[id] = IF id \in buys THEN filled[id] ELSE 0
        /\ \A id \in D : g[id] = IF id \in sells THEN filled[id] ELSE 0
    BY DEF IsBook, Ints
  <1>3. \A id \in D : h[id] = f[id] + (-1) * g[id]
    BY DEF HeldLess, IsBook
  <1>4. Filled(v, {"entry"}) = SumFunctionOnSet(filled, buys)
        /\ Filled(v, {"stop", "close"}) = SumFunctionOnSet(filled, sells)
    BY DEF Filled
  <1> HIDE DEF f, g, h, filled, buys, sells, D
  <1>5. /\ SumFunctionOnSet(f, D) = SumFunctionOnSet(filled, buys)
        /\ SumFunctionOnSet(g, D) = SumFunctionOnSet(filled, sells)
        /\ SumFunctionOnSet(h, D) = SumFunctionOnSet(f, D) + (-1) * SumFunctionOnSet(g, D)
        /\ SumFunctionOnSet(f, D) \in Int /\ SumFunctionOnSet(g, D) \in Int
    BY <1>1, <1>2, <1>3, SumOverSubset, SumLinear, SumType
  <1>6. Held(v) = Total(h)
    BY <1>1, <1>4, <1>5 DEF Held, Total
  <1>7. Reserving(v) \in SUBSET Sells(v)
        /\ {id \in DOMAIN v : id.kind \in {"stop", "close"} /\ Working(v, id)} = Reserving(v)
    BY DEF Reserving, Sells, IsBook
  <1>8. Resting(v, {"stop", "close"}) = SumFunctionOnSet(Left(v), Reserving(v))
    BY <1>7, Zenon DEF Resting
  <1>9. QED
    BY <1>6, <1>7, <1>8, LeftIsHeldLess DEF Free, h

\* One order of a book changes, or what it is selling.
LEMMA OneOrderChanged ==
  ASSUME NEW a, IsBook(a), NEW S, NEW b, IsBook(b), NEW T, DOMAIN a = DOMAIN b,
         NEW x \in DOMAIN a,
         \A id \in DOMAIN a \ {x} : HeldLess(b, T)[id] = HeldLess(a, S)[id]
  PROVE  Total(HeldLess(b, T))
           = Total(HeldLess(a, S)) + (HeldLess(b, T)[x] - HeldLess(a, S)[x])
  <1> DEFINE f == HeldLess(a, S)
             g == HeldLess(b, T)
  <1>1. /\ DOMAIN f = DOMAIN a /\ DOMAIN g = DOMAIN a
        /\ Ints(f, DOMAIN a) /\ Ints(g, DOMAIN a) /\ IsFiniteSet(DOMAIN a)
    BY HeldLessType DEF IsBook
  <1>2. \A id \in DOMAIN a \ {x} : g[id] = f[id]
    OBVIOUS
  <1> HIDE DEF f, g
  <1>3. SumFunctionOnSet(g, DOMAIN a) = SumFunctionOnSet(f, DOMAIN a) + (g[x] - f[x])
    BY <1>1, <1>2, SumOneChanged
  <1>4. QED
    BY <1>1, <1>3 DEF Total, f, g

\* An order joins a book.
LEMMA OneOrderAdded ==
  ASSUME NEW a, IsBook(a), NEW S, NEW b, IsBook(b), NEW T,
         NEW x, x \notin DOMAIN a, DOMAIN b = DOMAIN a \cup {x},
         \A id \in DOMAIN a : HeldLess(b, T)[id] = HeldLess(a, S)[id]
  PROVE  Total(HeldLess(b, T)) = Total(HeldLess(a, S)) + HeldLess(b, T)[x]
  <1> DEFINE f == HeldLess(a, S)
             g == HeldLess(b, T)
             D == DOMAIN a
  <1>1. /\ DOMAIN f = D /\ DOMAIN g = D \cup {x} /\ Ints(f, D) /\ Ints(g, D \cup {x})
        /\ IsFiniteSet(D) /\ x \notin D
    BY HeldLessType DEF IsBook
  <1>2. \A id \in D : g[id] = f[id]
    OBVIOUS
  <1> HIDE DEF f, g, D
  <1>3. Ints(g, D) /\ g[x] \in Int
    BY <1>1 DEF Ints
  <1>4. SumFunctionOnSet(g, D \cup {x}) = g[x] + SumFunctionOnSet(g, D)
    BY <1>1, SumInsert
  <1>5. SumFunctionOnSet(g, D) = SumFunctionOnSet(f, D)
    BY <1>1, <1>2, <1>3, SumCongruent
  <1>6. SumFunctionOnSet(f, D) \in Int
    BY <1>1, SumType
  <1>7. SumFunctionOnSet(g, D \cup {x}) = SumFunctionOnSet(f, D) + g[x]
    BY <1>3, <1>4, <1>5, <1>6
  <1>8. QED
    BY <1>1, <1>7 DEF Total, f, g

-----------------------------------------------------------------------------
(* The updates on their way. *)

\* A sequence, and its parts.
LEMMA SequenceFacts ==
  ASSUME NEW A, NEW s \in Seq(A)
  PROVE  /\ Len(s) \in Nat /\ DOMAIN s = 1..Len(s) /\ \A i \in DOMAIN s : s[i] \in A
         /\ s # <<>> => /\ 1 \in DOMAIN s /\ Head(s) = s[1] /\ Head(s) \in A
                        /\ Tail(s) \in Seq(A) /\ DOMAIN Tail(s) = 1..(Len(s) - 1)
                        /\ \A i \in DOMAIN Tail(s) : i + 1 \in DOMAIN s /\ Tail(s)[i] = s[i + 1]
                        /\ \A i \in DOMAIN s : i # 1 => i - 1 \in DOMAIN Tail(s) /\ s[i] = Tail(s)[i - 1]
  OBVIOUS

LEMMA AppendFacts ==
  ASSUME NEW A, NEW s \in Seq(A), NEW x \in A
  PROVE  /\ Append(s, x) \in Seq(A) /\ DOMAIN Append(s, x) = 1..(Len(s) + 1)
         /\ Append(s, x)[Len(s) + 1] = x
         /\ \A i \in DOMAIN s : Append(s, x)[i] = s[i]
         /\ \A i \in DOMAIN Append(s, x) : i \in DOMAIN s \/ i = Len(s) + 1
  OBVIOUS

\* How often x stands in a sequence.
Matches(s, x) == Cardinality({i \in DOMAIN s : s[i] = x})

\* The fills of an order that are on their way.
FillOf(id) == [id |-> id, what |-> "fill"]
Pending(ev, id) == Matches(ev, FillOf(id))

\* No x in the sequence is none of them.
LEMMA MatchesType ==
  ASSUME NEW A, NEW s \in Seq(A), NEW x
  PROVE  /\ Matches(s, x) \in Nat
         /\ Matches(s, x) = 0 <=> \A i \in DOMAIN s : s[i] # x
  <1> DEFINE hits == {i \in DOMAIN s : s[i] = x}
  <1>1. DOMAIN s = 1..Len(s) /\ Len(s) \in Nat
    OBVIOUS
  <1>2. IsFiniteSet(hits) /\ Cardinality(hits) \in Nat
    <2>1. 1 \in Int /\ Len(s) \in Int
      BY <1>1
    <2>2. IsFiniteSet(1..Len(s))
      BY <2>1, FS_Interval, Zenon
    <2>3. hits \in SUBSET (1..Len(s))
      BY <1>1
    <2>4. QED
      BY <2>2, <2>3, FS_Subset, FS_CardinalityType
  <1>3. Cardinality(hits) = 0 <=> hits = {}
    BY <1>2, FS_EmptySet
  <1>4. Matches(s, x) = Cardinality(hits)
    BY DEF Matches
  <1>5. hits = {} <=> \A i \in DOMAIN s : s[i] # x
    OBVIOUS
  <1> HIDE DEF hits
  <1>6. QED
    BY <1>2, <1>3, <1>4, <1>5

\* One more at the end.
LEMMA MatchesAppend ==
  ASSUME NEW A, NEW s \in Seq(A), NEW y \in A, NEW x
  PROVE  Matches(Append(s, y), x) = Matches(s, x) + (IF y = x THEN 1 ELSE 0)
  <1> DEFINE hits == {i \in DOMAIN s : s[i] = x}
             more == {i \in DOMAIN Append(s, y) : Append(s, y)[i] = x}
  <1>1. Matches(s, x) = Cardinality(hits) /\ Matches(Append(s, y), x) = Cardinality(more)
    BY DEF Matches
  <1>2. /\ DOMAIN s = 1..Len(s) /\ Len(s) \in Nat /\ DOMAIN Append(s, y) = 1..(Len(s) + 1)
        /\ Append(s, y)[Len(s) + 1] = y /\ \A i \in 1..Len(s) : Append(s, y)[i] = s[i]
    OBVIOUS
  <1>3. IsFiniteSet(hits) /\ Cardinality(hits) \in Nat /\ Len(s) + 1 \notin hits
    <2>1. 1 \in Int /\ Len(s) \in Int
      BY <1>2
    <2>2. IsFiniteSet(1..Len(s))
      BY <2>1, FS_Interval, Zenon
    <2>3. hits \in SUBSET (1..Len(s))
      BY <1>2
    <2>4. QED
      BY <1>2, <2>2, <2>3, FS_Subset, FS_CardinalityType
  <1>4. CASE y = x
    <2>1. more = hits \cup {Len(s) + 1}
      BY <1>2, <1>4
    <2>2. Cardinality(more) = Cardinality(hits) + 1
      BY <1>3, <2>1, FS_AddElement
    <2>3. QED
      BY <1>1, <1>4, <2>2
  <1>5. CASE y # x
    <2>1. more = hits
      BY <1>2, <1>5
    <2>2. Cardinality(more) = Cardinality(hits)
      BY <2>1
    <2> HIDE DEF hits, more
    <2>3. QED
      BY <1>1, <1>3, <1>5, <2>2
  <1>6. QED
    BY <1>4, <1>5

\* One less at the head.
LEMMA MatchesTail ==
  ASSUME NEW A, NEW s \in Seq(A), s # <<>>, NEW x
  PROVE  Matches(s, x) = Matches(Tail(s), x) + (IF Head(s) = x THEN 1 ELSE 0)
  <1> DEFINE n == Len(s) - 1
             hits == {i \in DOMAIN s : s[i] = x}
             rest == {i \in DOMAIN Tail(s) : Tail(s)[i] = x}
             moved == {i \in hits : i # 1}
             shift == [i \in rest |-> i + 1]
  <1>1. Matches(s, x) = Cardinality(hits) /\ Matches(Tail(s), x) = Cardinality(rest)
    BY DEF Matches
  <1>2. /\ n \in Nat /\ DOMAIN s = 1..(n + 1) /\ DOMAIN Tail(s) = 1..n
        /\ Head(s) = s[1] /\ \A i \in 1..n : Tail(s)[i] = s[i + 1]
    OBVIOUS
  <1>3. /\ IsFiniteSet(rest) /\ Cardinality(rest) \in Nat
        /\ IsFiniteSet(moved) /\ Cardinality(moved) \in Nat
    <2>1. IsFiniteSet(1..(n + 1))
      BY <1>2, FS_Interval
    <2>2. moved \in SUBSET (1..(n + 1)) /\ rest \in SUBSET (1..(n + 1))
      BY <1>2
    <2>3. QED
      BY <2>1, <2>2, FS_Subset, FS_CardinalityType
  <1>4. shift \in Bijection(rest, moved)
    <2>1. \A i \in rest : shift[i] \in moved /\ shift[i] = i + 1 /\ i \in 1..n
      BY <1>2
    <2>2. ASSUME NEW j \in moved PROVE \E i \in rest : shift[i] = j
      <3>1. j \in 1..(n + 1) /\ j # 1 /\ s[j] = x
        BY <1>2
      <3>2. j - 1 \in 1..n /\ (j - 1) + 1 = j
        BY <1>2, <3>1
      <3>3. j - 1 \in rest
        BY <1>2, <3>1, <3>2
      <3>4. shift[j - 1] = j
        BY <3>2, <3>3
      <3>5. QED
        BY <3>3, <3>4
    <2>3. DOMAIN shift = rest /\ shift \in [rest -> moved]
      BY <2>1
    <2>4. \A i, k \in rest : shift[i] = shift[k] => i = k
      BY <2>1
    <2> HIDE DEF shift, rest, moved
    <2>5. QED
      BY <2>2, <2>3, <2>4 DEF Bijection, Injection, Surjection, IsInjective
  <1>5. Cardinality(moved) = Cardinality(rest)
    <2> HIDE DEF shift, rest, moved
    <2>1. ExistsBijection(rest, moved)
      BY <1>4 DEF ExistsBijection
    <2>2. QED
      BY <1>3, <2>1, FS_Bijection
  <1>6. CASE s[1] = x
    <2>1. hits = moved \cup {1} /\ 1 \notin moved
      BY <1>2, <1>6
    <2>2. Cardinality(hits) = Cardinality(moved) + 1
      BY <1>3, <2>1, FS_AddElement
    <2> HIDE DEF hits, rest, moved
    <2>3. QED
      BY <1>1, <1>2, <1>3, <1>5, <1>6, <2>2
  <1>7. CASE s[1] # x
    <2>1. hits = moved
      BY <1>2, <1>7
    <2>2. Cardinality(hits) = Cardinality(moved)
      BY <2>1
    <2> HIDE DEF hits, rest, moved
    <2>3. QED
      BY <1>1, <1>2, <1>3, <1>5, <1>7, <2>2
  <1>8. QED
    BY <1>6, <1>7

-----------------------------------------------------------------------------
(* The venue's orders and ours. *)

States == {"working", "pending_cancel", "cancelled", "filled"}
VenueOrder == [qty : Nat \ {0}, filled : Nat, state : States]
OurOrder == [qty : Nat \ {0}, filled : Nat, complete : BOOLEAN]

\* One order, here and there.
SameOrder(id, a, b) ==
  /\ id.kind \in {"entry", "stop", "close"}
  /\ id.kind = "entry" => id.entry \in Entries /\ id = EntryId(id.entry)
  /\ a \in VenueOrder /\ b \in OurOrder /\ a.qty = b.qty
  /\ a.filled <= a.qty /\ b.filled <= b.qty
  /\ a.state = "filled" <=> a.filled = a.qty

\* They are the same orders.
SameOrders(v, o) ==
  /\ IsFiniteSet(DOMAIN v) /\ DOMAIN o = DOMAIN v
  /\ \A id \in DOMAIN v : SameOrder(id, v[id], o[id])

Updates(v) == [id : DOMAIN v, what : {"fill", "cancelled"}]

\* What is on its way is about these orders; nothing follows a cancellation, and
\* the cancellation of an order that is tracked is on its way.
InOrder(v, ev, t) ==
  /\ ev \in Seq(Updates(v))
  /\ \A i \in DOMAIN ev : ev[i].what = "cancelled" =>
       /\ v[ev[i].id].state = "cancelled"
       /\ \A j \in DOMAIN ev : j > i => ev[j].id # ev[i].id
  /\ \A id \in t : v[id].state = "cancelled" =>
       \E i \in DOMAIN ev : ev[i].id = id /\ ev[i].what = "cancelled"

\* Our order b is behind the venue's order a by the updates on their way, but for
\* the fills of a sell that the runner dropped (m).
Behind(id, a, b, ev, t, m) ==
  /\ b.filled + Pending(ev, id) <= a.filled
  /\ id \in t \/ ~m \/ id.kind = "entry" => b.filled + Pending(ev, id) = a.filled
  /\ b.complete => /\ a.state \in {"filled", "cancelled"}
                   /\ \A i \in DOMAIN ev : ev[i].id # id
  /\ b.filled = b.qty => b.complete
  /\ id.kind = "entry" /\ id \notin t => b.complete

Sync(v, ev, o, t, m) ==
  /\ SameOrders(v, o) /\ InOrder(v, ev, t) /\ m \in BOOLEAN
  /\ t \subseteq {id \in DOMAIN v : ~o[id].complete}
  /\ \A id \in DOMAIN v : Behind(id, v[id], o[id], ev, t, m)

\* Both are books.
LEMMA SameBooks ==
  ASSUME NEW v, NEW o, SameOrders(v, o)
  PROVE  IsBook(v) /\ IsBook(o)
  <1>1. ASSUME NEW id \in DOMAIN v
        PROVE  /\ id.kind \in {"entry", "stop", "close"}
               /\ v[id].qty \in Nat /\ v[id].filled \in Nat /\ v[id].filled <= v[id].qty
               /\ o[id].qty \in Nat /\ o[id].filled \in Nat /\ o[id].filled <= o[id].qty
    BY DEF SameOrders, SameOrder, VenueOrder, OurOrder
  <1>2. QED
    BY <1>1 DEF SameOrders, IsBook

\* How many fills are on their way is a number, and none is none.
LEMMA PendingType ==
  ASSUME NEW v, NEW ev, NEW t, InOrder(v, ev, t), NEW id \in DOMAIN v
  PROVE  /\ Pending(ev, id) \in Nat
         /\ Pending(ev, id) = 0 <=> \A i \in DOMAIN ev : ~(ev[i].id = id /\ ev[i].what = "fill")
         /\ ev = <<>> => Pending(ev, id) = 0
  <1>1. ev \in Seq(Updates(v)) /\ \A i \in DOMAIN ev : ev[i] \in Updates(v)
    BY SequenceFacts DEF InOrder
  <1>2. \A i \in DOMAIN ev : ev[i] = FillOf(id) <=> ev[i].id = id /\ ev[i].what = "fill"
    BY <1>1 DEF FillOf, Updates
  <1>3. /\ Pending(ev, id) \in Nat
        /\ Pending(ev, id) = 0 <=> \A i \in DOMAIN ev : ev[i] # FillOf(id)
    BY <1>1, MatchesType DEF Pending
  <1>4. ev = <<>> => DOMAIN ev = {}
    OBVIOUS
  <1>5. QED
    BY <1>2, <1>3, <1>4

\* An update joins those on their way.
LEMMA PendingAppend ==
  ASSUME NEW v, NEW ev, NEW t, InOrder(v, ev, t), NEW new \in Updates(v), NEW id \in DOMAIN v
  PROVE  Pending(Append(ev, new), id)
           = Pending(ev, id) + (IF id = new.id /\ new.what = "fill" THEN 1 ELSE 0)
  <1>1. ev \in Seq(Updates(v))
    BY DEF InOrder
  <1>2. new = FillOf(id) <=> id = new.id /\ new.what = "fill"
    BY DEF FillOf, Updates
  <1>3. Matches(Append(ev, new), FillOf(id))
          = Matches(ev, FillOf(id)) + (IF new = FillOf(id) THEN 1 ELSE 0)
    BY <1>1, MatchesAppend
  <1>4. QED
    BY <1>2, <1>3 DEF Pending

\* The first of them arrives.
LEMMA PendingTail ==
  ASSUME NEW v, NEW ev, NEW t, InOrder(v, ev, t), ev # <<>>, NEW id \in DOMAIN v
  PROVE  Pending(ev, id)
           = Pending(Tail(ev), id) + (IF id = Head(ev).id /\ Head(ev).what = "fill" THEN 1 ELSE 0)
  <1>1. ev \in Seq(Updates(v)) /\ Head(ev) \in Updates(v)
    BY SequenceFacts DEF InOrder
  <1>2. Head(ev) = FillOf(id) <=> id = Head(ev).id /\ Head(ev).what = "fill"
    BY <1>1 DEF FillOf, Updates
  <1>3. Matches(ev, FillOf(id))
          = Matches(Tail(ev), FillOf(id)) + (IF Head(ev) = FillOf(id) THEN 1 ELSE 0)
    BY <1>1, MatchesTail
  <1>4. QED
    BY <1>2, <1>3 DEF Pending

\* The venue fills one unit of a working order.
LEMMA SyncVenueFill ==
  ASSUME NEW v, NEW ev, NEW o, NEW t, NEW m, Sync(v, ev, o, t, m),
         NEW x \in DOMAIN v, Working(v, x),
         NEW w, w = [v EXCEPT ![x].filled = v[x].filled + 1,
                              ![x].state = IF v[x].filled + 1 = v[x].qty THEN "filled" ELSE @]
  PROVE  Sync(w, Append(ev, [id |-> x, what |-> "fill"]), o, t, m)
  <1> DEFINE new == [id |-> x, what |-> "fill"]
             ew == Append(ev, new)
  <1>1. /\ SameOrders(v, o) /\ InOrder(v, ev, t) /\ m \in BOOLEAN
        /\ t \subseteq {id \in DOMAIN v : ~o[id].complete}
        /\ \A id \in DOMAIN v : Behind(id, v[id], o[id], ev, t, m)
    BY DEF Sync
  <1>2. /\ v[x] \in VenueOrder /\ v[x].filled < v[x].qty
        /\ v[x].state \in {"working", "pending_cancel"} /\ v[x].state # "filled"
    BY <1>1 DEF SameOrders, SameOrder, VenueOrder, Working
  <1>3. /\ DOMAIN w = DOMAIN v /\ (\A id \in DOMAIN v \ {x} : w[id] = v[id])
        /\ w[x] \in VenueOrder /\ w[x].qty = v[x].qty /\ w[x].filled = v[x].filled + 1
        /\ w[x].state = IF w[x].filled = w[x].qty THEN "filled" ELSE v[x].state
    <2> DEFINE n == v[x].filled + 1
               new_state == IF n = v[x].qty THEN "filled" ELSE v[x].state
    <2>1. /\ DOMAIN w = DOMAIN v /\ (\A id \in DOMAIN v \ {x} : w[id] = v[id])
          /\ w[x] = [v[x] EXCEPT !.filled = n, !.state = new_state]
      OBVIOUS
    <2>2. n \in Nat /\ new_state \in States
      BY <1>2 DEF VenueOrder, States
    <2> HIDE DEF n, new_state
    <2>3. /\ w[x] \in VenueOrder /\ w[x].qty = v[x].qty
          /\ w[x].filled = n /\ w[x].state = new_state
      BY <1>2, <2>1, <2>2 DEF VenueOrder
    <2>4. QED
      BY <2>1, <2>3 DEF n, new_state
  <1>4. /\ ev \in Seq(Updates(v)) /\ Updates(w) = Updates(v) /\ new \in Updates(v)
        /\ new.id = x /\ new.what = "fill" /\ \A i \in DOMAIN ev : ev[i] \in Updates(v)
    BY <1>1, <1>3, SequenceFacts DEF InOrder, Updates
  <1>5. /\ Len(ev) \in Nat /\ DOMAIN ev = 1..Len(ev)
        /\ ew \in Seq(Updates(v)) /\ DOMAIN ew = 1..(Len(ev) + 1) /\ ew[Len(ev) + 1] = new
        /\ \A i \in DOMAIN ev : ew[i] = ev[i]
        /\ \A i \in DOMAIN ew : i \in DOMAIN ev \/ i = Len(ev) + 1
    BY <1>4, SequenceFacts, AppendFacts
  <1>6. \A id \in DOMAIN v : Pending(ew, id) = Pending(ev, id) + (IF id = x THEN 1 ELSE 0)
    BY <1>1, <1>4, PendingAppend
  <1>7. \A id \in DOMAIN v : Pending(ev, id) \in Nat
    BY <1>1, PendingType
  <1> HIDE DEF ew, new
  <1>8. SameOrders(w, o)
    <2>1. ASSUME NEW id \in DOMAIN v PROVE SameOrder(id, w[id], o[id])
      <3>1. CASE id = x
        <4>1. SameOrder(x, v[x], o[x])
          BY <1>1 DEF SameOrders
        <4>2. QED
          BY <1>2, <1>3, <3>1, <4>1 DEF SameOrder, VenueOrder
      <3>2. CASE id # x
        BY <1>1, <1>3, <3>2 DEF SameOrders
      <3>3. QED
        BY <3>1, <3>2
    <2>2. QED
      BY <1>1, <1>3, <2>1 DEF SameOrders
  <1>9. InOrder(w, ew, t)
    <2>1. ASSUME NEW i \in DOMAIN ew, ew[i].what = "cancelled"
          PROVE  /\ w[ew[i].id].state = "cancelled"
                 /\ \A j \in DOMAIN ew : j > i => ew[j].id # ew[i].id
      <3>1. i \in DOMAIN ev /\ ew[i] = ev[i] /\ ev[i].id \in DOMAIN v
        BY <1>4, <1>5, <2>1 DEF Updates
      <3>2. /\ v[ev[i].id].state = "cancelled"
            /\ \A j \in DOMAIN ev : j > i => ev[j].id # ev[i].id
        BY <1>1, <2>1, <3>1 DEF InOrder
      <3>3. ev[i].id # x
        BY <1>2, <3>2
      <3>4. QED
        BY <1>3, <1>4, <1>5, <3>1, <3>2, <3>3
    <2>2. ASSUME NEW id \in t, w[id].state = "cancelled"
          PROVE  \E i \in DOMAIN ew : ew[i].id = id /\ ew[i].what = "cancelled"
      <3>1. id \in DOMAIN v /\ id # x /\ v[id].state = "cancelled"
        BY <1>1, <1>2, <1>3, <2>2
      <3>2. QED
        BY <1>1, <1>5, <3>1 DEF InOrder
    <2>3. QED
      BY <1>3, <1>4, <1>5, <2>1, <2>2 DEF InOrder
  <1>10. ASSUME NEW id \in DOMAIN v PROVE Behind(id, w[id], o[id], ew, t, m)
    <2>1. /\ SameOrder(id, v[id], o[id]) /\ Behind(id, v[id], o[id], ev, t, m)
          /\ Pending(ev, id) \in Nat /\ v[id].filled \in Nat /\ o[id].filled \in Nat
      BY <1>1, <1>7 DEF SameOrders, SameOrder, VenueOrder, OurOrder
    <2>2. CASE id = x
      <3>1. ~o[x].complete
        BY <1>2, <2>1, <2>2 DEF Behind
      <3>2. QED
        BY <1>3, <1>6, <2>1, <2>2, <3>1 DEF Behind
    <2>3. CASE id # x
      <3>1. w[id] = v[id] /\ Pending(ew, id) = Pending(ev, id)
        BY <1>3, <1>6, <2>1, <2>3
      <3>2. o[id].complete => \A i \in DOMAIN ew : ew[i].id # id
        BY <1>4, <1>5, <2>1, <2>3 DEF Behind
      <3>3. QED
        BY <2>1, <3>1, <3>2 DEF Behind
    <2>4. QED
      BY <2>2, <2>3
  <1>11. QED
    BY <1>1, <1>3, <1>8, <1>9, <1>10 DEF Sync, ew, new

\* A working order ends without another fill.
LEMMA SyncVenueCancelled ==
  ASSUME NEW v, NEW ev, NEW o, NEW t, NEW m, Sync(v, ev, o, t, m),
         NEW x \in DOMAIN v,
         v[x].state = "pending_cancel" \/ (v[x].state = "working" /\ x.kind = "entry"),
         NEW w, w = [v EXCEPT ![x].state = "cancelled"]
  PROVE  Sync(w, Append(ev, [id |-> x, what |-> "cancelled"]), o, t, m)
  <1> DEFINE new == [id |-> x, what |-> "cancelled"]
             ew == Append(ev, new)
  <1>1. /\ SameOrders(v, o) /\ InOrder(v, ev, t) /\ m \in BOOLEAN
        /\ t \subseteq {id \in DOMAIN v : ~o[id].complete}
        /\ \A id \in DOMAIN v : Behind(id, v[id], o[id], ev, t, m)
    BY DEF Sync
  <1>2. /\ v[x] \in VenueOrder /\ v[x].filled # v[x].qty
        /\ v[x].state \notin {"filled", "cancelled"}
    BY <1>1 DEF SameOrders, SameOrder, VenueOrder
  <1>3. /\ DOMAIN w = DOMAIN v /\ (\A id \in DOMAIN v \ {x} : w[id] = v[id])
        /\ w[x] \in VenueOrder /\ w[x].qty = v[x].qty /\ w[x].filled = v[x].filled
        /\ w[x].state = "cancelled"
    <2>1. /\ DOMAIN w = DOMAIN v /\ (\A id \in DOMAIN v \ {x} : w[id] = v[id])
          /\ w[x] = [v[x] EXCEPT !.state = "cancelled"]
      OBVIOUS
    <2>2. QED
      BY <1>2, <2>1 DEF VenueOrder, States
  <1>4. /\ ev \in Seq(Updates(v)) /\ Updates(w) = Updates(v) /\ new \in Updates(v)
        /\ new.id = x /\ new.what = "cancelled" /\ \A i \in DOMAIN ev : ev[i] \in Updates(v)
    BY <1>1, <1>3, SequenceFacts DEF InOrder, Updates
  <1>5. /\ Len(ev) \in Nat /\ DOMAIN ev = 1..Len(ev)
        /\ ew \in Seq(Updates(v)) /\ DOMAIN ew = 1..(Len(ev) + 1) /\ ew[Len(ev) + 1] = new
        /\ \A i \in DOMAIN ev : ew[i] = ev[i]
        /\ \A i \in DOMAIN ew : i \in DOMAIN ev \/ i = Len(ev) + 1
    BY <1>4, SequenceFacts, AppendFacts
  <1>6. \A id \in DOMAIN v : Pending(ew, id) = Pending(ev, id)
    <2>1. \A id \in DOMAIN v : Pending(ev, id) \in Nat
      BY <1>1, PendingType
    <2>2. QED
      BY <1>1, <1>4, <2>1, PendingAppend
  <1> HIDE DEF ew, new
  <1>7. SameOrders(w, o)
    <2>1. ASSUME NEW id \in DOMAIN v PROVE SameOrder(id, w[id], o[id])
      <3>1. SameOrder(id, v[id], o[id])
        BY <1>1 DEF SameOrders
      <3>2. CASE id = x
        BY <1>2, <1>3, <3>1, <3>2 DEF SameOrder, VenueOrder
      <3>3. CASE id # x
        BY <1>3, <3>1, <3>3
      <3>4. QED
        BY <3>2, <3>3
    <2>2. QED
      BY <1>1, <1>3, <2>1 DEF SameOrders
  <1>8. InOrder(w, ew, t)
    <2>1. ASSUME NEW i \in DOMAIN ew, ew[i].what = "cancelled"
          PROVE  /\ w[ew[i].id].state = "cancelled"
                 /\ \A j \in DOMAIN ew : j > i => ew[j].id # ew[i].id
      <3>1. CASE i \in DOMAIN ev
        <4>1. ew[i] = ev[i] /\ ev[i].id \in DOMAIN v
          BY <1>4, <1>5, <3>1 DEF Updates
        <4>2. /\ v[ev[i].id].state = "cancelled"
              /\ \A j \in DOMAIN ev : j > i => ev[j].id # ev[i].id
          BY <1>1, <2>1, <3>1, <4>1 DEF InOrder
        <4>3. ev[i].id # x
          BY <1>2, <4>2
        <4>4. QED
          BY <1>3, <1>4, <1>5, <4>1, <4>2, <4>3
      <3>2. CASE i = Len(ev) + 1
        BY <1>3, <1>4, <1>5, <3>2
      <3>3. QED
        BY <1>5, <3>1, <3>2
    <2>2. ASSUME NEW id \in t, w[id].state = "cancelled"
          PROVE  \E i \in DOMAIN ew : ew[i].id = id /\ ew[i].what = "cancelled"
      <3>1. CASE id = x
        <4>1. Len(ev) + 1 \in DOMAIN ew
          BY <1>5
        <4>2. QED
          BY <1>4, <1>5, <3>1, <4>1
      <3>2. CASE id # x
        <4>1. id \in DOMAIN v /\ v[id].state = "cancelled"
          BY <1>1, <1>3, <2>2, <3>2
        <4>2. QED
          BY <1>1, <1>5, <4>1 DEF InOrder
      <3>3. QED
        BY <3>1, <3>2
    <2>3. QED
      BY <1>3, <1>4, <1>5, <2>1, <2>2 DEF InOrder
  <1>9. ASSUME NEW id \in DOMAIN v PROVE Behind(id, w[id], o[id], ew, t, m)
    <2>1. Behind(id, v[id], o[id], ev, t, m) /\ Pending(ew, id) = Pending(ev, id)
      BY <1>1, <1>6
    <2>2. o[id].complete => id # x
      BY <1>2, <2>1 DEF Behind
    <2>3. o[id].complete => \A i \in DOMAIN ew : ew[i].id # id
      BY <1>4, <1>5, <2>1, <2>2 DEF Behind
    <2>4. w[id].filled = v[id].filled /\ (id # x => w[id] = v[id])
      BY <1>3
    <2>5. QED
      BY <2>1, <2>2, <2>3, <2>4 DEF Behind
  <1>10. QED
    BY <1>1, <1>3, <1>7, <1>8, <1>9 DEF Sync, ew, new

\* Some of the working orders are being cancelled.
LEMMA SyncCancelRequested ==
  ASSUME NEW v, NEW ev, NEW o, NEW t, NEW m, Sync(v, ev, o, t, m),
         NEW orders, NEW w, w = [id \in DOMAIN v |->
                       IF id \in orders /\ v[id].state = "working"
                       THEN [v[id] EXCEPT !.state = "pending_cancel"] ELSE v[id]]
  PROVE  Sync(w, ev, o, t, m)
  <1>1. /\ SameOrders(v, o) /\ InOrder(v, ev, t) /\ m \in BOOLEAN
        /\ t \subseteq {id \in DOMAIN v : ~o[id].complete}
        /\ \A id \in DOMAIN v : Behind(id, v[id], o[id], ev, t, m)
    BY DEF Sync
  <1>2. DOMAIN w = DOMAIN v /\ Updates(w) = Updates(v)
    BY DEF Updates
  <1>3. ASSUME NEW id \in DOMAIN v
        PROVE  /\ SameOrder(id, w[id], o[id]) /\ w[id].filled = v[id].filled
               /\ w[id].state \in {"filled", "cancelled"} \/ v[id].state \in {"filled", "cancelled"}
                    => w[id] = v[id]
    <2>1. SameOrder(id, v[id], o[id]) /\ v[id] \in VenueOrder
      BY <1>1 DEF SameOrders, SameOrder
    <2>2. CASE id \in orders /\ v[id].state = "working"
      <3>1. w[id] = [v[id] EXCEPT !.state = "pending_cancel"]
        BY <2>2
      <3>2. /\ w[id] \in VenueOrder /\ w[id].qty = v[id].qty /\ w[id].filled = v[id].filled
            /\ w[id].state = "pending_cancel"
        BY <2>1, <3>1 DEF VenueOrder, States
      <3>3. QED
        BY <2>1, <2>2, <3>1, <3>2 DEF SameOrder
    <2>3. CASE ~(id \in orders /\ v[id].state = "working")
      BY <2>1, <2>3
    <2>4. QED
      BY <2>2, <2>3
  <1>4. SameOrders(w, o)
    BY <1>1, <1>2, <1>3 DEF SameOrders
  <1>5. InOrder(w, ev, t)
    <2>1. \A i \in DOMAIN ev : ev[i] \in Updates(v)
      BY <1>1, SequenceFacts DEF InOrder
    <2>2. \A i \in DOMAIN ev : ev[i].id \in DOMAIN v
      BY <2>1 DEF Updates
    <2>3. QED
      BY <1>1, <1>2, <1>3, <2>2 DEF InOrder
  <1>6. \A id \in DOMAIN v : Behind(id, w[id], o[id], ev, t, m)
    BY <1>1, <1>3 DEF Behind
  <1>7. QED
    BY <1>1, <1>2, <1>4, <1>5, <1>6 DEF Sync

\* A new order at the venue, and acknowledged in our objects.
Placed(v, x, qty) == With(v, x, [qty |-> qty, filled |-> 0, state |-> "working"])
Acknowledged(o, x, qty) == With(o, x, [qty |-> qty, filled |-> 0, complete |-> FALSE])

\* An order that may join the venue's, with the orders tracked from then on: a
\* sell is covered by free shares, an entry is tracked.
Joins(v, x, qty, t, u) ==
  /\ x \notin DOMAIN v /\ x.kind \in {"entry", "stop", "close"}
  /\ qty \in Nat \ {0} /\ u \in {t, t \cup {x}}
  /\ x.kind = "entry" \/ qty <= Free(v)
  /\ x.kind = "entry" => x.entry \in Entries /\ x = EntryId(x.entry) /\ u = t \cup {x}

\* It is one order more for both.
LEMMA SyncNewOrder ==
  ASSUME NEW v, NEW ev, NEW o, NEW t, NEW m, Sync(v, ev, o, t, m),
         NEW x, NEW qty, NEW u, Joins(v, x, qty, t, u)
  PROVE  Sync(Placed(v, x, qty), ev, Acknowledged(o, x, qty), u, m)
  <1> DEFINE w == Placed(v, x, qty)
             p == Acknowledged(o, x, qty)
  <1>1. /\ x \notin DOMAIN v /\ x.kind \in {"entry", "stop", "close"}
        /\ qty \in Nat \ {0} /\ u \in {t, t \cup {x}}
        /\ x.kind = "entry" => x.entry \in Entries /\ x = EntryId(x.entry) /\ u = t \cup {x}
    BY DEF Joins
  <1>2. /\ SameOrders(v, o) /\ InOrder(v, ev, t) /\ m \in BOOLEAN
        /\ t \subseteq {id \in DOMAIN v : ~o[id].complete}
        /\ \A id \in DOMAIN v : Behind(id, v[id], o[id], ev, t, m)
    BY DEF Sync
  <1>3. /\ DOMAIN w = DOMAIN v \cup {x} /\ DOMAIN p = DOMAIN v \cup {x}
        /\ w[x] = [qty |-> qty, filled |-> 0, state |-> "working"]
        /\ p[x] = [qty |-> qty, filled |-> 0, complete |-> FALSE]
        /\ \A id \in DOMAIN v : id # x /\ w[id] = v[id] /\ p[id] = o[id]
    BY <1>1, <1>2 DEF Placed, Acknowledged, With, SameOrders
  <1> HIDE DEF w, p
  <1>4. /\ ev \in Seq(Updates(w)) /\ \A i \in DOMAIN ev : ev[i].id \in DOMAIN v
    <2>1. ev \in Seq(Updates(v)) /\ \A i \in DOMAIN ev : ev[i] \in Updates(v)
      BY <1>2, SequenceFacts DEF InOrder
    <2>2. Updates(v) \subseteq Updates(w)
      BY <1>3 DEF Updates
    <2>3. \A i \in DOMAIN ev : ev[i].id \in DOMAIN v
      BY <2>1 DEF Updates
    <2>4. QED
      BY <2>1, <2>2, <2>3
  <1>5. SameOrders(w, p)
    <2>1. SameOrder(x, w[x], p[x])
      <3>1. w[x] \in VenueOrder /\ p[x] \in OurOrder
        <4>1. [qty |-> qty, filled |-> 0, state |-> "working"] \in VenueOrder
          BY <1>1 DEF VenueOrder, States
        <4>2. [qty |-> qty, filled |-> 0, complete |-> FALSE] \in OurOrder
          BY <1>1 DEF OurOrder
        <4>3. QED
          BY <1>3, <4>1, <4>2
      <3>2. /\ w[x].qty = qty /\ w[x].filled = 0 /\ w[x].state = "working"
            /\ p[x].qty = qty /\ p[x].filled = 0
        BY <1>3
      <3>3. QED
        BY <1>1, <3>1, <3>2 DEF SameOrder
    <2>2. IsFiniteSet(DOMAIN v \cup {x})
      BY <1>2, FS_AddElement DEF SameOrders
    <2>3. QED
      BY <1>2, <1>3, <2>1, <2>2 DEF SameOrders
  <1>6. InOrder(w, ev, u)
    BY <1>1, <1>2, <1>3, <1>4 DEF InOrder
  <1>7. Pending(ev, x) = 0
    <2>1. \A i \in DOMAIN ev : ev[i].id # x
      BY <1>3, <1>4
    <2>2. x \in DOMAIN w
      BY <1>3
    <2>3. QED
      BY <1>6, <2>1, <2>2, PendingType
  <1>8. ASSUME NEW id \in DOMAIN w PROVE Behind(id, w[id], p[id], ev, u, m)
    <2>1. CASE id = x
      BY <1>1, <1>3, <1>7, <2>1 DEF Behind
    <2>2. CASE id # x
      <3>1. id \in DOMAIN v /\ w[id] = v[id] /\ p[id] = o[id] /\ (id \in u <=> id \in t)
        BY <1>1, <1>3, <2>2
      <3>2. QED
        BY <1>2, <3>1 DEF Behind
    <2>3. QED
      BY <2>1, <2>2
  <1>9. u \subseteq {id \in DOMAIN w : ~p[id].complete}
    <2>1. p[x].complete = FALSE
      BY <1>3
    <2>2. ASSUME NEW id \in u PROVE id \in DOMAIN w /\ ~p[id].complete
      <3>1. id = x \/ id \in t
        BY <1>1
      <3>2. QED
        BY <1>2, <1>3, <2>1, <3>1
    <2>3. QED
      BY <2>2
  <1>10. QED
    BY <1>2, <1>5, <1>6, <1>8, <1>9 DEF Sync, w, p

\* What becomes of our order when an update arrives.
AfterUpdate(b, what) ==
  LET n == IF what = "fill" THEN b.filled + 1 ELSE b.filled
  IN [b EXCEPT !.filled = n, !.complete = (what = "cancelled" \/ n = b.qty)]

\* Our objects once the first update is in, and the orders that stay tracked.
Took(o, ev) == [o EXCEPT ![Head(ev).id] = AfterUpdate(o[Head(ev).id], Head(ev).what)]
StillTracked(o, ev, t) ==
  IF Took(o, ev)[Head(ev).id].complete THEN t \ {Head(ev).id} ELSE t

\* The books differ in the order x alone.
SameBut(a, b, x) == DOMAIN b = DOMAIN a /\ \A id \in DOMAIN a \ {x} : b[id] = a[id]

\* The runner takes an update in.
LEMMA SyncUpdate ==
  ASSUME NEW v, NEW ev, NEW o, NEW t, NEW m, Sync(v, ev, o, t, m),
         ev # <<>>, Head(ev).id \in t
  PROVE  /\ Sync(v, Tail(ev), Took(o, ev), StillTracked(o, ev, t), m)
         /\ SameBut(o, Took(o, ev), Head(ev).id)
         /\ Head(ev).id \in DOMAIN o /\ ~o[Head(ev).id].complete
         /\ Took(o, ev)[Head(ev).id].qty = o[Head(ev).id].qty
         /\ Head(ev).what = "fill" => Took(o, ev)[Head(ev).id].filled = o[Head(ev).id].filled + 1
         /\ Head(ev).what # "fill" => /\ Took(o, ev)[Head(ev).id].filled = o[Head(ev).id].filled
                                     /\ v[Head(ev).id].state = "cancelled"
         /\ Took(o, ev)[Head(ev).id].complete => v[Head(ev).id].state \in {"filled", "cancelled"}
  <1> DEFINE p == Took(o, ev)
             u == StillTracked(o, ev, t)
  <1>1. /\ p = [o EXCEPT ![Head(ev).id] = AfterUpdate(o[Head(ev).id], Head(ev).what)]
        /\ u = IF p[Head(ev).id].complete THEN t \ {Head(ev).id} ELSE t
    BY DEF Took, StillTracked
  <1> HIDE DEF p, u
  <1> DEFINE x == Head(ev).id
             what == Head(ev).what
             rest == Tail(ev)
             n == IF what = "fill" THEN o[x].filled + 1 ELSE o[x].filled
  <1>2. /\ SameOrders(v, o) /\ InOrder(v, ev, t) /\ m \in BOOLEAN
        /\ t \subseteq {id \in DOMAIN v : ~o[id].complete}
        /\ \A id \in DOMAIN v : Behind(id, v[id], o[id], ev, t, m)
    BY DEF Sync
  <1>3. x \in DOMAIN v /\ x \in t /\ ~o[x].complete /\ DOMAIN o = DOMAIN v
    BY <1>2 DEF SameOrders
  <1>4. /\ SameOrder(x, v[x], o[x]) /\ v[x] \in VenueOrder /\ o[x] \in OurOrder
        /\ Behind(x, v[x], o[x], ev, t, m)
    BY <1>2, <1>3 DEF SameOrders, SameOrder
  <1>5. /\ ev \in Seq(Updates(v)) /\ \A i \in DOMAIN ev : ev[i] \in Updates(v)
        /\ 1 \in DOMAIN ev /\ Head(ev) = ev[1] /\ Head(ev) \in Updates(v)
        /\ rest \in Seq(Updates(v)) /\ DOMAIN rest \subseteq Nat \ {0} /\ DOMAIN ev \subseteq Nat \ {0}
        /\ (\A i \in DOMAIN rest : i + 1 \in DOMAIN ev /\ rest[i] = ev[i + 1])
        /\ \A i \in DOMAIN ev : i # 1 => i - 1 \in DOMAIN rest /\ ev[i] = rest[i - 1]
    BY <1>2, SequenceFacts DEF InOrder
  <1>6. what \in {"fill", "cancelled"} /\ ev[1].id = x /\ ev[1].what = what
    BY <1>5 DEF Updates
  <1>7. \A id \in DOMAIN v : /\ Pending(rest, id) \in Nat /\ Pending(ev, id) \in Nat
                             /\ Pending(ev, id) = Pending(rest, id)
                                  + (IF id = x /\ what = "fill" THEN 1 ELSE 0)
    <2>1. \A id \in DOMAIN v : Pending(rest, id) \in Nat
      BY <1>5, MatchesType DEF Pending
    <2>2. QED
      BY <1>2, <2>1, PendingType, PendingTail
  <1>8. /\ DOMAIN p = DOMAIN v /\ (\A id \in DOMAIN v \ {x} : p[id] = o[id])
        /\ p[x] = [o[x] EXCEPT !.filled = n, !.complete = (what = "cancelled" \/ n = o[x].qty)]
    BY <1>1, <1>3 DEF AfterUpdate
  <1> DEFINE done == what = "cancelled" \/ n = o[x].qty
  <1>9. n \in Nat
    BY <1>4 DEF OurOrder
  <1>10. /\ p[x] \in OurOrder /\ p[x].qty = o[x].qty /\ p[x].filled = n
        /\ p[x].complete = (what = "cancelled" \/ n = o[x].qty)
    <2>1. p[x] = [o[x] EXCEPT !.filled = n, !.complete = done] /\ done \in BOOLEAN
      BY <1>8
    <2>2. o[x] \in OurOrder /\ n \in Nat
      BY <1>4, <1>9
    <2> HIDE DEF n, what, done, x, rest
    <2>3. /\ p[x] \in OurOrder /\ p[x].qty = o[x].qty /\ p[x].filled = n
          /\ p[x].complete = done
      <3>1. ASSUME NEW b \in OurOrder, NEW f \in Nat, NEW d \in BOOLEAN
            PROVE  [b EXCEPT !.filled = f, !.complete = d] \in OurOrder
        BY DEF OurOrder
      <3>2. done \in BOOLEAN
        BY <2>1
      <3>3. [o[x] EXCEPT !.filled = n, !.complete = done] \in OurOrder
        BY <3>2, <2>2, <3>1
      <3>4. p[x] = [o[x] EXCEPT !.filled = n, !.complete = done]
        BY <2>1
      <3>5. p[x] \in OurOrder
        BY <3>3, <3>4
      <3>6. p[x].qty = o[x].qty /\ p[x].filled = n
        BY <2>1, <2>2 DEF OurOrder
      <3>7. p[x].complete = done
        BY <2>1, <2>2, Zenon DEF OurOrder
      <3>8. QED
        BY <3>5, <3>6, <3>7
    <2>4. QED
      BY <2>3 DEF done
  <1>11. what = "cancelled" => /\ v[x].state = "cancelled"
                               /\ \A i \in DOMAIN rest : rest[i].id # x
    <2> SUFFICES ASSUME what = "cancelled"
                 PROVE  v[x].state = "cancelled" /\ \A i \in DOMAIN rest : rest[i].id # x
      OBVIOUS
    <2>1. /\ v[ev[1].id].state = "cancelled"
          /\ \A j \in DOMAIN ev : j > 1 => ev[j].id # ev[1].id
      BY <1>2, <1>5, <1>6 DEF InOrder
    <2>2. \A i \in DOMAIN rest : i + 1 > 1
      BY <1>5
    <2>3. QED
      BY <1>5, <1>6, <2>1, <2>2
  <1>12. n + Pending(rest, x) = v[x].filled
    <2>1. /\ o[x].filled \in Nat /\ v[x].filled \in Nat
          /\ o[x].filled + Pending(ev, x) = v[x].filled
          /\ Pending(rest, x) \in Nat
          /\ Pending(ev, x) = Pending(rest, x) + (IF what = "fill" THEN 1 ELSE 0)
      BY <1>3, <1>4, <1>7 DEF Behind, VenueOrder, OurOrder
    <2>2. QED
      BY <2>1
  <1>13. what # "cancelled" /\ n = o[x].qty =>
           v[x].state = "filled" /\ \A i \in DOMAIN rest : rest[i].id # x
    <2> SUFFICES ASSUME what # "cancelled", n = o[x].qty
                 PROVE  v[x].state = "filled" /\ \A i \in DOMAIN rest : rest[i].id # x
      OBVIOUS
    <2>1. n <= v[x].filled /\ v[x].filled <= v[x].qty /\ v[x].qty = o[x].qty /\ Pending(rest, x) \in Nat
          /\ v[x].filled \in Nat /\ v[x].qty \in Nat
      BY <1>3, <1>4, <1>7, <1>9, <1>12 DEF SameOrder, VenueOrder
    <2>2. v[x].filled = v[x].qty /\ Pending(rest, x) = 0
      BY <1>9, <1>12, <2>1
    <2>3. v[x].state = "filled"
      BY <1>4, <2>2 DEF SameOrder
    <2>4. \A i \in DOMAIN rest : rest[i] # FillOf(x)
      <3>1. rest \in Seq(Updates(v)) /\ Matches(rest, FillOf(x)) = 0
        BY <1>5, <2>2 DEF Pending
      <3> HIDE DEF rest, x
      <3>2. QED
        BY <3>1, MatchesType
    <2>5. ASSUME NEW i \in DOMAIN rest, rest[i].id = x PROVE FALSE
      <3>1. i + 1 \in DOMAIN ev /\ ev[i + 1] = rest[i] /\ rest[i] \in Updates(v)
        BY <1>5
      <3>2. rest[i].what = "cancelled"
        BY <2>4, <2>5, <3>1 DEF Updates, FillOf
      <3>3. v[x].state = "cancelled"
        BY <1>2, <2>5, <3>1, <3>2 DEF InOrder
      <3>4. QED
        BY <2>3, <3>3
    <2>6. QED
      BY <2>3, <2>5
  <1>14. p[x].complete => /\ v[x].state \in {"filled", "cancelled"}
                          /\ \A i \in DOMAIN rest : rest[i].id # x
    BY <1>10, <1>11, <1>13
  <1>15. /\ what = "fill" => n = o[x].filled + 1
         /\ what # "fill" => n = o[x].filled /\ v[x].state = "cancelled"
    BY <1>6, <1>11
  <1>16. u \subseteq t /\ (x \in u => ~p[x].complete) /\ (x \notin u => p[x].complete)
         /\ (\A id \in t \ {x} : id \in u) /\ u = IF p[x].complete THEN t \ {x} ELSE t
    BY <1>1, <1>3
  <1> HIDE DEF n, what, rest, x
  <1>17. SameOrders(v, p)
    <2>1. n <= o[x].qty
      BY <1>3, <1>4, <1>7, <1>9, <1>12 DEF SameOrder, VenueOrder, OurOrder
    <2>2. SameOrder(x, v[x], p[x])
      BY <1>4, <1>10, <2>1 DEF SameOrder
    <2>3. QED
      BY <1>2, <1>8, <2>2 DEF SameOrders
  <1>18. InOrder(v, rest, u)
    <2>1. ASSUME NEW i \in DOMAIN rest, rest[i].what = "cancelled"
          PROVE  /\ v[rest[i].id].state = "cancelled"
                 /\ \A j \in DOMAIN rest : j > i => rest[j].id # rest[i].id
      <3>1. i + 1 \in DOMAIN ev /\ ev[i + 1] = rest[i] /\ i \in Nat
        BY <1>5
      <3>2. /\ v[rest[i].id].state = "cancelled"
            /\ \A j \in DOMAIN ev : j > i + 1 => ev[j].id # rest[i].id
        BY <1>2, <2>1, <3>1 DEF InOrder
      <3>3. ASSUME NEW j \in DOMAIN rest, j > i PROVE rest[j].id # rest[i].id
        <4>1. j + 1 \in DOMAIN ev /\ ev[j + 1] = rest[j] /\ j \in Nat /\ j + 1 > i + 1
          BY <1>5, <3>1, <3>3
        <4>2. QED
          BY <3>2, <4>1
      <3>4. QED
        BY <3>2, <3>3
    <2>2. ASSUME NEW id \in u, v[id].state = "cancelled"
          PROVE  \E i \in DOMAIN rest : rest[i].id = id /\ rest[i].what = "cancelled"
      <3>1. id \in t
        BY <1>16
      <3>2. PICK i \in DOMAIN ev : ev[i].id = id /\ ev[i].what = "cancelled"
        BY <1>2, <2>2, <3>1 DEF InOrder
      <3>3. i # 1
        BY <1>6, <1>10, <1>16, <3>2
      <3>4. QED
        BY <1>5, <3>2, <3>3
    <2>3. QED
      BY <1>5, <2>1, <2>2 DEF InOrder
  <1>19. ASSUME NEW id \in DOMAIN v PROVE Behind(id, v[id], p[id], rest, u, m)
    <2>1. CASE id = x
      <3>1. p[x].filled + Pending(rest, x) = v[x].filled /\ v[x].filled \in Nat
        BY <1>4, <1>10, <1>12 DEF VenueOrder
      <3>2. p[x].filled = p[x].qty => p[x].complete
        BY <1>10
      <3>3. QED
        BY <1>14, <1>16, <2>1, <3>1, <3>2 DEF Behind
    <2>2. CASE id # x
      <3>1. /\ p[id] = o[id] /\ Behind(id, v[id], o[id], ev, t, m)
            /\ Pending(rest, id) = Pending(ev, id) /\ (id \in u <=> id \in t)
        BY <1>2, <1>7, <1>8, <1>16, <2>2
      <3>2. o[id].complete => \A i \in DOMAIN rest : rest[i].id # id
        BY <1>5, <3>1 DEF Behind
      <3>3. QED
        BY <3>1, <3>2 DEF Behind
    <2>3. QED
      BY <2>1, <2>2
  <1>20. u \subseteq {id \in DOMAIN v : ~p[id].complete}
    <2>1. ASSUME NEW id \in u PROVE id \in DOMAIN v /\ ~p[id].complete
      BY <1>2, <1>8, <1>16
    <2>2. QED
      BY <2>1
  <1>21. Sync(v, rest, p, u, m)
    BY <1>2, <1>17, <1>18, <1>19, <1>20 DEF Sync
  <1>22. QED
    BY <1>3, <1>8, <1>10, <1>14, <1>15, <1>21 DEF x, what, rest, p, u, SameBut

\* The runner drops an update of an order it does not track.
LEMMA SyncDrop ==
  ASSUME NEW v, NEW ev, NEW o, NEW t, NEW m, Sync(v, ev, o, t, m),
         ev # <<>>, Head(ev).id \notin t,
         NEW k, k = (m \/ Head(ev).what = "fill")
  PROVE  Sync(v, Tail(ev), o, t, k)
  <1> DEFINE x == Head(ev).id
             rest == Tail(ev)
  <1>1. /\ SameOrders(v, o) /\ InOrder(v, ev, t) /\ m \in BOOLEAN
        /\ t \subseteq {id \in DOMAIN v : ~o[id].complete}
        /\ \A id \in DOMAIN v : Behind(id, v[id], o[id], ev, t, m)
    BY DEF Sync
  <1>2. /\ ev \in Seq(Updates(v)) /\ \A i \in DOMAIN ev : ev[i] \in Updates(v)
        /\ 1 \in DOMAIN ev /\ Head(ev) = ev[1] /\ Head(ev) \in Updates(v)
        /\ rest \in Seq(Updates(v)) /\ DOMAIN rest \subseteq Nat \ {0} /\ DOMAIN ev \subseteq Nat \ {0}
        /\ (\A i \in DOMAIN rest : i + 1 \in DOMAIN ev /\ rest[i] = ev[i + 1])
        /\ \A i \in DOMAIN ev : i # 1 => i - 1 \in DOMAIN rest /\ ev[i] = rest[i - 1]
    BY <1>1, SequenceFacts DEF InOrder
  <1>3. x \in DOMAIN v /\ x \notin t /\ ev[1].id = x
    BY <1>2 DEF Updates
  <1>4. x.kind # "entry"
    BY <1>1, <1>2, <1>3 DEF Behind
  <1>5. \A id \in DOMAIN v : /\ Pending(rest, id) \in Nat /\ Pending(ev, id) \in Nat
                             /\ Pending(ev, id) = Pending(rest, id)
                                  + (IF id = x /\ Head(ev).what = "fill" THEN 1 ELSE 0)
    <2>1. \A id \in DOMAIN v : Pending(rest, id) \in Nat
      BY <1>2, MatchesType DEF Pending
    <2>2. QED
      BY <1>1, <2>1, PendingType, PendingTail
  <1> HIDE DEF x, rest
  <1>6. InOrder(v, rest, t)
    <2>1. ASSUME NEW i \in DOMAIN rest, rest[i].what = "cancelled"
          PROVE  /\ v[rest[i].id].state = "cancelled"
                 /\ \A j \in DOMAIN rest : j > i => rest[j].id # rest[i].id
      <3>1. i + 1 \in DOMAIN ev /\ ev[i + 1] = rest[i] /\ i \in Nat
        BY <1>2
      <3>2. /\ v[rest[i].id].state = "cancelled"
            /\ \A j \in DOMAIN ev : j > i + 1 => ev[j].id # rest[i].id
        BY <1>1, <2>1, <3>1 DEF InOrder
      <3>3. ASSUME NEW j \in DOMAIN rest, j > i PROVE rest[j].id # rest[i].id
        <4>1. j + 1 \in DOMAIN ev /\ ev[j + 1] = rest[j] /\ j \in Nat /\ j + 1 > i + 1
          BY <1>2, <3>1, <3>3
        <4>2. QED
          BY <3>2, <4>1
      <3>4. QED
        BY <3>2, <3>3
    <2>2. ASSUME NEW id \in t, v[id].state = "cancelled"
          PROVE  \E i \in DOMAIN rest : rest[i].id = id /\ rest[i].what = "cancelled"
      <3>1. PICK i \in DOMAIN ev : ev[i].id = id /\ ev[i].what = "cancelled"
        BY <1>1, <2>2 DEF InOrder
      <3>2. i # 1
        BY <1>3, <3>1
      <3>3. QED
        BY <1>2, <3>1, <3>2
    <2>3. QED
      BY <1>2, <2>1, <2>2 DEF InOrder
  <1>7. ASSUME NEW id \in DOMAIN v PROVE Behind(id, v[id], o[id], rest, t, k)
    <2>1. /\ Behind(id, v[id], o[id], ev, t, m) /\ o[id].filled \in Nat /\ v[id].filled \in Nat
          /\ Pending(rest, id) <= Pending(ev, id)
          /\ Pending(rest, id) \in Nat /\ Pending(ev, id) \in Nat
      BY <1>1, <1>5 DEF SameOrders, SameOrder, VenueOrder, OurOrder
    <2>2. o[id].filled + Pending(rest, id) <= v[id].filled
      BY <2>1 DEF Behind
    <2>3. id \in t \/ ~k \/ id.kind = "entry" => o[id].filled + Pending(rest, id) = v[id].filled
      <3>1. id \in t \/ ~k \/ id.kind = "entry" => Pending(rest, id) = Pending(ev, id)
        <4>1. id = x /\ Head(ev).what = "fill" => ~(id \in t \/ ~k \/ id.kind = "entry")
          BY <1>3, <1>4
        <4>2. ~(id = x /\ Head(ev).what = "fill") => Pending(rest, id) = Pending(ev, id)
          BY <1>5, <2>1
        <4>3. QED
          BY <4>1, <4>2
      <3>2. ~k => ~m
        BY <1>1
      <3>3. QED
        BY <2>1, <3>1, <3>2 DEF Behind
    <2>4. o[id].complete => \A i \in DOMAIN rest : rest[i].id # id
      BY <1>2, <2>1 DEF Behind
    <2>5. QED
      BY <2>1, <2>2, <2>3, <2>4 DEF Behind
  <1>8. k \in BOOLEAN
    BY <1>1
  <1>9. QED
    BY <1>1, <1>6, <1>7, <1>8 DEF Sync, rest

-----------------------------------------------------------------------------
(* What is held, and what is free. *)

\* What an order that may be reserving shares leaves held.
LEMMA ReservedTerm ==
  ASSUME NEW v, NEW id \in DOMAIN v
  PROVE  HeldLess(v, Reserving(v))[id] =
           IF id.kind = "entry" THEN v[id].filled
           ELSE IF Working(v, id) THEN -v[id].qty ELSE -v[id].filled
  BY DEF HeldLess, Reserving, Sells

\* Free shares are a number, and there are no fewer once an order has filled or
\* ended, or is being cancelled.
LEMMA FreeShares ==
  ASSUME NEW v, NEW o, SameOrders(v, o)
  PROVE  Free(v) \in Int
  <1>1. IsBook(v)
    BY SameBooks
  <1>2. QED
    BY <1>1, HeldAndFree, HeldLessType

LEMMA FreeNoLess ==
  ASSUME NEW v, IsBook(v), NEW w, IsBook(w), DOMAIN w = DOMAIN v,
         \A id \in DOMAIN v :
           HeldLess(v, Reserving(v))[id] <= HeldLess(w, Reserving(w))[id]
  PROVE  Free(v) <= Free(w)
  <1>1. Total(HeldLess(v, Reserving(v))) <= Total(HeldLess(w, Reserving(w)))
    BY HoldsNoMore
  <1>2. QED
    BY <1>1, HeldAndFree

LEMMA FreeAfterVenue ==
  ASSUME NEW v, NEW o, SameOrders(v, o), NEW w, SameOrders(w, o),
         \A id \in DOMAIN v :
           \/ w[id].filled = v[id].filled /\ (Working(w, id) => Working(v, id))
           \/ /\ w[id].filled = v[id].filled + 1 /\ Working(v, id)
              /\ Working(w, id) \/ w[id].filled = w[id].qty
  PROVE  Free(v) <= Free(w)
  <1>1. IsBook(v) /\ IsBook(w) /\ DOMAIN w = DOMAIN v
    BY SameBooks DEF SameOrders
  <1>2. ASSUME NEW id \in DOMAIN v
        PROVE  HeldLess(v, Reserving(v))[id] <= HeldLess(w, Reserving(w))[id]
    <2>1. /\ v[id].qty \in Nat /\ v[id].filled \in Nat /\ v[id].filled <= v[id].qty
          /\ w[id].qty \in Nat /\ w[id].filled \in Nat /\ w[id].filled <= w[id].qty
          /\ w[id].qty = v[id].qty
      BY <1>1 DEF SameOrders, SameOrder, VenueOrder
    <2>2. HeldLess(v, Reserving(v))[id] =
            IF id.kind = "entry" THEN v[id].filled
            ELSE IF Working(v, id) THEN -v[id].qty ELSE -v[id].filled
      BY ReservedTerm
    <2>3. HeldLess(w, Reserving(w))[id] =
            IF id.kind = "entry" THEN w[id].filled
            ELSE IF Working(w, id) THEN -w[id].qty ELSE -w[id].filled
      BY <1>1, ReservedTerm
    <2>4. CASE w[id].filled = v[id].filled /\ (Working(w, id) => Working(v, id))
      BY <2>1, <2>2, <2>3, <2>4
    <2>5. CASE /\ w[id].filled = v[id].filled + 1 /\ Working(v, id)
               /\ Working(w, id) \/ w[id].filled = w[id].qty
      BY <2>1, <2>2, <2>3, <2>5
    <2>6. QED
      BY <2>4, <2>5
  <1>3. QED
    BY <1>1, <1>2, FreeNoLess

\* The book b has the order x more than the book a.
OneMore(a, b, x) ==
  /\ DOMAIN b = DOMAIN a \cup {x}
  /\ \A id \in DOMAIN a : id # x /\ b[id] = a[id]

\* A new order is one more of each book, and has filled nothing yet.
LEMMA NewOrder ==
  ASSUME NEW v, NEW ev, NEW o, NEW t, NEW m, Sync(v, ev, o, t, m),
         NEW x, NEW qty, NEW u, Joins(v, x, qty, t, u),
         NEW w, w = Placed(v, x, qty), NEW p, p = Acknowledged(o, x, qty)
  PROVE  /\ OneMore(v, w, x) /\ OneMore(o, p, x)
         /\ w[x].qty = qty /\ w[x].filled = 0 /\ w[x].state = "working"
         /\ p[x].qty = qty /\ p[x].filled = 0 /\ ~p[x].complete
         /\ IsBook(v) /\ IsBook(o) /\ IsBook(w) /\ IsBook(p)
  <1>1. x \notin DOMAIN v /\ SameOrders(v, o) /\ SameOrders(Placed(v, x, qty), Acknowledged(o, x, qty))
    BY SyncNewOrder DEF Joins, Sync
  <1>2. DOMAIN o = DOMAIN v
    BY <1>1 DEF SameOrders
  <1>3. /\ OneMore(v, w, x) /\ w[x] = [qty |-> qty, filled |-> 0, state |-> "working"]
        /\ OneMore(o, p, x) /\ p[x] = [qty |-> qty, filled |-> 0, complete |-> FALSE]
    BY <1>1, <1>2 DEF Placed, Acknowledged, With, OneMore
  <1>4. IsBook(v) /\ IsBook(o) /\ IsBook(w) /\ IsBook(p)
    BY <1>1, SameBooks
  <1>5. /\ w[x].qty = qty /\ w[x].filled = 0 /\ w[x].state = "working"
        /\ p[x].qty = qty /\ p[x].filled = 0 /\ p[x].complete = FALSE
    BY <1>3
  <1>6. QED
    BY <1>3, <1>4, <1>5

\* It reserves what it sells.
LEMMA FreeAfterNewOrder ==
  ASSUME NEW v, NEW ev, NEW o, NEW t, NEW m, Sync(v, ev, o, t, m),
         NEW x, NEW qty, NEW u, Joins(v, x, qty, t, u)
  PROVE  Free(Placed(v, x, qty)) = Free(v) - (IF x.kind = "entry" THEN 0 ELSE qty)
  <1> DEFINE w == Placed(v, x, qty)
             p == Acknowledged(o, x, qty)
  <1>1. x \notin DOMAIN v /\ qty \in Nat \ {0}
    BY DEF Joins
  <1>2. w = Placed(v, x, qty) /\ p = Acknowledged(o, x, qty)
    OBVIOUS
  <1> HIDE DEF w, p
  <1>3. /\ OneMore(v, w, x) /\ IsBook(v) /\ IsBook(w)
        /\ w[x].qty = qty /\ w[x].filled = 0 /\ w[x].state = "working"
    BY <1>2, NewOrder
  <1>4. \A id \in DOMAIN v : HeldLess(w, Reserving(w))[id] = HeldLess(v, Reserving(v))[id]
    BY <1>3, ReservedTerm DEF Working, OneMore
  <1>5. HeldLess(w, Reserving(w))[x] = IF x.kind = "entry" THEN 0 ELSE -qty
    BY <1>1, <1>3, ReservedTerm DEF Working, OneMore
  <1>6. Total(HeldLess(w, Reserving(w))) = Total(HeldLess(v, Reserving(v))) + HeldLess(w, Reserving(w))[x]
    BY <1>1, <1>3, <1>4, OneOrderAdded DEF OneMore
  <1>7. Total(HeldLess(v, Reserving(v))) \in Int
    BY <1>3, HeldLessType
  <1>8. Total(HeldLess(w, Reserving(w)))
          = Total(HeldLess(v, Reserving(v))) - (IF x.kind = "entry" THEN 0 ELSE qty)
    BY <1>1, <1>5, <1>6, <1>7
  <1>9. QED
    BY <1>3, <1>8, HeldAndFree DEF w

\* What it leaves held once orders have sold what they are for.
LEMMA SellingNewOrder ==
  ASSUME NEW v, NEW ev, NEW o, NEW t, NEW m, Sync(v, ev, o, t, m),
         NEW x, NEW qty, NEW u, Joins(v, x, qty, t, u), NEW T
  PROVE  Total(HeldLess(Acknowledged(o, x, qty), T))
           = Total(HeldLess(o, T)) - (IF x.kind # "entry" /\ x \in T THEN qty ELSE 0)
  <1> DEFINE p == Acknowledged(o, x, qty)
  <1>1. x \notin DOMAIN o /\ qty \in Nat \ {0}
    BY DEF Joins, Sync, SameOrders
  <1>2. p = Acknowledged(o, x, qty) /\ DOMAIN o = DOMAIN v
    BY DEF Sync, SameOrders
  <1> HIDE DEF p
  <1>3. /\ OneMore(o, p, x) /\ IsBook(o) /\ IsBook(p)
        /\ p[x].qty = qty /\ p[x].filled = 0
    BY <1>2, NewOrder
  <1>4. \A id \in DOMAIN o : HeldLess(p, T)[id] = HeldLess(o, T)[id]
    BY <1>3 DEF HeldLess, OneMore
  <1>5. HeldLess(p, T)[x] = IF x.kind # "entry" /\ x \in T THEN -qty ELSE 0
    BY <1>1, <1>3 DEF HeldLess, OneMore
  <1>6. Total(HeldLess(p, T)) = Total(HeldLess(o, T)) + HeldLess(p, T)[x]
    BY ONLY <1>1, <1>3, <1>4, OneOrderAdded, SMTT(30) DEF OneMore
  <1>7. Total(HeldLess(o, T)) \in Int
    BY <1>3, HeldLessType
  <1>8. QED
    BY <1>1, <1>5, <1>6, <1>7 DEF p

\* An update moves the position as the fill it reports, if it does.
LEMMA AfterOneFill ==
  ASSUME NEW o, IsBook(o), NEW p, IsBook(p), DOMAIN p = DOMAIN o, NEW x \in DOMAIN o,
         \A id \in DOMAIN o \ {x} : p[id] = o[id],
         NEW k \in {0, 1}, p[x].filled = o[x].filled + k
  PROVE  Total(HeldLess(p, {})) = Total(HeldLess(o, {})) + (IF x.kind = "entry" THEN k ELSE -k)
  <1>1. \A id \in DOMAIN o \ {x} : HeldLess(p, {})[id] = HeldLess(o, {})[id]
    BY DEF HeldLess
  <1>2. Total(HeldLess(p, {}))
          = Total(HeldLess(o, {})) + (HeldLess(p, {})[x] - HeldLess(o, {})[x])
    BY <1>1, OneOrderChanged
  <1>3. HeldLess(p, {})[x] - HeldLess(o, {})[x] = IF x.kind = "entry" THEN k ELSE -k
    <2>1. o[x].filled \in Nat
      BY DEF IsBook
    <2>2. QED
      BY <2>1 DEF HeldLess
  <1>4. QED
    BY <1>2, <1>3

-----------------------------------------------------------------------------
(* What every step keeps, whatever the entries. *)

StopsOf(v) == {s \in DOMAIN v : s.kind = "stop"}

\* The books agree but for what is on its way, nothing is sold twice, and the
\* router counts on every stop that works.
Accounts(v, ev, o, t, m, pos, prot) ==
  /\ Sync(v, ev, o, t, m)
  /\ pos = Total(HeldLess(o, {})) /\ Free(v) >= 0
  /\ prot \subseteq StopsOf(v)
  /\ \A s \in StopsOf(v) : v[s].state = "working" => s \in prot

\* Which request is next, about which stops.
Requests(v) ==
  [at : {"idle", "cancel", "release"}] \cup
  [at : {"await", "retry", "rearm"}, known : SUBSET StopsOf(v), inherited : SUBSET StopsOf(v)]

\* A close under way is the close of something.
ClosingOf(v, c, pos) ==
  c \in Requests(v) /\ (c.at \in {"release", "await", "retry", "rearm"} => pos > 0)

\* A gap that is asked about belongs to an entry.
AskingOf(o, cov, ask) ==
  /\ cov \in [Entries -> Int] /\ ask \in Entries \cup {NoEntry}
  /\ ask # NoEntry => EntryId(ask) \in DOMAIN o

\* The inductive invariant of any number of entries.
BaseInv ==
  /\ Accounts(venue, events, ours, tracked, missed, position, protective)
  /\ ClosingOf(venue, closing, position)
  /\ AskingOf(ours, covered, asking)

\* The parts of it that the steps use.
LEMMA AccountsFacts ==
  ASSUME NEW v, NEW ev, NEW o, NEW t, NEW m, NEW pos, NEW prot,
         Accounts(v, ev, o, t, m, pos, prot)
  PROVE  /\ SameOrders(v, o) /\ InOrder(v, ev, t) /\ m \in BOOLEAN
         /\ DOMAIN o = DOMAIN v /\ IsBook(v) /\ IsBook(o) /\ prot \subseteq StopsOf(v)
         /\ pos \in Int /\ Free(v) \in Int /\ pos = Total(HeldLess(o, {}))
         /\ \A id \in DOMAIN v : /\ SameOrder(id, v[id], o[id])
                                 /\ Behind(id, v[id], o[id], ev, t, m)
                                 /\ v[id].qty \in Nat \ {0} /\ o[id].qty = v[id].qty
                                 /\ v[id].filled \in Nat /\ o[id].filled \in Nat
                                 /\ v[id].filled <= v[id].qty /\ o[id].filled <= v[id].filled
  <1>1. /\ SameOrders(v, o) /\ InOrder(v, ev, t) /\ m \in BOOLEAN
        /\ \A id \in DOMAIN v : Behind(id, v[id], o[id], ev, t, m)
    BY DEF Accounts, Sync
  <1>2. IsBook(v) /\ IsBook(o) /\ DOMAIN o = DOMAIN v
    BY <1>1, SameBooks DEF SameOrders
  <1>3. pos \in Int /\ Free(v) \in Int
    BY <1>1, <1>2, HeldLessType, FreeShares DEF Accounts
  <1>4. ASSUME NEW id \in DOMAIN v
        PROVE  /\ SameOrder(id, v[id], o[id])
               /\ v[id].qty \in Nat \ {0} /\ o[id].qty = v[id].qty
               /\ v[id].filled \in Nat /\ o[id].filled \in Nat
               /\ v[id].filled <= v[id].qty /\ o[id].filled <= v[id].filled
    <2>1. SameOrder(id, v[id], o[id])
      BY <1>1 DEF SameOrders
    <2>2. /\ v[id].qty \in Nat \ {0} /\ o[id].qty = v[id].qty
          /\ v[id].filled \in Nat /\ o[id].filled \in Nat /\ v[id].filled <= v[id].qty
      BY <2>1 DEF SameOrder, VenueOrder, OurOrder
    <2>3. Pending(ev, id) \in Nat /\ o[id].filled + Pending(ev, id) <= v[id].filled
      BY <1>1, PendingType DEF Behind
    <2>4. QED
      BY <2>1, <2>2, <2>3
  <1>5. QED
    BY <1>1, <1>2, <1>3, <1>4 DEF Accounts

\* What the router counts as covered is what the position's stops have left.
LEMMA ProtectedIsHeldLess ==
  ASSUME NEW o, IsBook(o), NEW prot, prot \subseteq StopsOf(o),
         prot = protective
  PROVE  /\ ProtectedQty(o) \in Nat
         /\ Total(HeldLess(o, {s \in prot : ~o[s].complete}))
              = Total(HeldLess(o, {})) - ProtectedQty(o)
  <1>1. {s \in prot : ~o[s].complete} \in SUBSET Sells(o)
    BY DEF StopsOf, Sells
  <1>2. QED
    BY <1>1, LeftIsHeldLess DEF ProtectedQty

\* A new order keeps the accounts, if a sell reserves no more than is free.
LEMMA AccountsAccept ==
  ASSUME NEW v, NEW ev, NEW o, NEW t, NEW m, NEW pos, NEW prot,
         Accounts(v, ev, o, t, m, pos, prot),
         NEW x, NEW qty, NEW u, Joins(v, x, qty, t, u)
  PROVE  Accounts(Placed(v, x, qty), ev, Acknowledged(o, x, qty), u, m, pos,
                  IF x.kind = "stop" THEN prot \cup {x} ELSE prot)
  <1> DEFINE w == Placed(v, x, qty)
             p == Acknowledged(o, x, qty)
             q == IF x.kind = "stop" THEN prot \cup {x} ELSE prot
  <1>1. Sync(v, ev, o, t, m)
    BY DEF Accounts
  <1>2. Sync(w, ev, p, u, m)
    BY <1>1, SyncNewOrder
  <1>3. /\ Free(w) = Free(v) - (IF x.kind = "entry" THEN 0 ELSE qty)
        /\ Total(HeldLess(p, {})) = Total(HeldLess(o, {})) - 0
    BY <1>1, FreeAfterNewOrder, SellingNewOrder
  <1>4. w = Placed(v, x, qty) /\ p = Acknowledged(o, x, qty)
    OBVIOUS
  <1> HIDE DEF w, p
  <1>5. OneMore(v, w, x)
    BY <1>1, <1>4, NewOrder
  <1>6. Free(w) >= 0
    <2>1. Free(v) \in Int /\ Free(v) >= 0 /\ qty \in Nat \ {0} /\ (x.kind = "entry" \/ qty <= Free(v))
      BY AccountsFacts DEF Accounts, Joins
    <2>2. QED
      BY <1>3, <2>1
  <1>7. pos = Total(HeldLess(p, {}))
    <2>1. pos \in Int /\ pos = Total(HeldLess(o, {}))
      BY AccountsFacts
    <2>2. QED
      BY <1>3, <2>1
  <1>8. q \subseteq StopsOf(w) /\ \A s \in StopsOf(w) : w[s].state = "working" => s \in q
    <2>1. \A s \in StopsOf(w) : s = x => x.kind = "stop"
      BY DEF StopsOf
    <2>2. QED
      BY <1>5, <2>1 DEF Accounts, StopsOf, OneMore
  <1>9. QED
    BY <1>2, <1>6, <1>7, <1>8 DEF Accounts, w, p

\* The venue's own steps keep them: a stop that no longer works may be let go.
LEMMA AccountsVenue ==
  ASSUME NEW v, NEW ev, NEW o, NEW t, NEW m, NEW pos, NEW prot,
         Accounts(v, ev, o, t, m, pos, prot),
         NEW w, NEW ew, Sync(w, ew, o, t, m),
         \A id \in DOMAIN v :
           \/ w[id].filled = v[id].filled /\ (Working(w, id) => Working(v, id))
           \/ /\ w[id].filled = v[id].filled + 1 /\ Working(v, id)
              /\ Working(w, id) \/ w[id].filled = w[id].qty,
         NEW q \in SUBSET prot,
         \A s \in StopsOf(v) : w[s].state = "working" => s \in q
  PROVE  Accounts(w, ew, o, t, m, pos, q) /\ StopsOf(w) = StopsOf(v)
  <1>1. SameOrders(v, o) /\ Free(v) \in Int /\ prot \subseteq StopsOf(v)
    BY AccountsFacts
  <1>2. SameOrders(w, o)
    BY DEF Sync
  <1>3. StopsOf(w) = StopsOf(v)
    BY <1>1, <1>2 DEF SameOrders, StopsOf
  <1>4. Free(v) <= Free(w) /\ Free(w) \in Int
    BY <1>1, <1>2, FreeAfterVenue, FreeShares
  <1>5. pos = Total(HeldLess(o, {})) /\ Free(v) >= 0
    BY DEF Accounts
  <1>6. Free(w) >= 0
    BY <1>1, <1>4, <1>5
  <1>7. QED
    BY <1>1, <1>3, <1>5, <1>6 DEF Accounts

\* So do requests to cancel stops, if the router lets go of no other.
LEMMA AccountsCancel ==
  ASSUME NEW v, NEW ev, NEW o, NEW t, NEW m, NEW pos, NEW prot,
         Accounts(v, ev, o, t, m, pos, prot), NEW stops \in SUBSET StopsOf(v),
         NEW w, w = [id \in DOMAIN v |->
                       IF id \in stops /\ v[id].state = "working"
                       THEN [v[id] EXCEPT !.state = "pending_cancel"] ELSE v[id]],
         NEW q \in SUBSET prot,
         \A s \in prot \ stops : v[s].state = "working" => s \in q
  PROVE  Accounts(w, ev, o, t, m, pos, q) /\ StopsOf(w) = StopsOf(v)
  <1>1. SameOrders(v, o) /\ Sync(v, ev, o, t, m)
    BY DEF Accounts, Sync
  <1>3. Sync(w, ev, o, t, m)
    BY ONLY <1>1, SyncCancelRequested,
            w = [id \in DOMAIN v |->
                       IF id \in stops /\ v[id].state = "working"
                       THEN [v[id] EXCEPT !.state = "pending_cancel"] ELSE v[id]]
  <1>4. ASSUME NEW id \in DOMAIN v
        PROVE  /\ w[id].filled = v[id].filled /\ (Working(w, id) => Working(v, id))
               /\ w[id].state = "working" => v[id].state = "working" /\ id \notin stops
    <2>1. v[id] \in VenueOrder
      BY <1>1 DEF SameOrders, SameOrder
    <2>2. CASE id \in stops /\ v[id].state = "working"
      <3>1. w[id] = [v[id] EXCEPT !.state = "pending_cancel"]
        BY <2>2
      <3>2. w[id].filled = v[id].filled /\ w[id].state = "pending_cancel"
        BY <2>1, <3>1 DEF VenueOrder
      <3>3. QED
        BY <2>2, <3>2 DEF Working
    <2>3. CASE ~(id \in stops /\ v[id].state = "working")
      <3>1. w[id] = v[id]
        BY <2>3
      <3>2. QED
        BY <2>3, <3>1 DEF Working
    <2>4. QED
      BY <2>2, <2>3
  <1>5. \A s \in StopsOf(v) : w[s].state = "working" => s \in q
    BY <1>4 DEF Accounts, StopsOf
  <1>6. \A id \in DOMAIN v :
           \/ w[id].filled = v[id].filled /\ (Working(w, id) => Working(v, id))
           \/ /\ w[id].filled = v[id].filled + 1 /\ Working(v, id)
              /\ Working(w, id) \/ w[id].filled = w[id].qty
    BY <1>4
  <1>7. QED
    BY ONLY <1>3, <1>5, <1>6, AccountsVenue, Accounts(v, ev, o, t, m, pos, prot),
            q \in SUBSET prot, SMTT(30)

\* An operation under way, or a gap that is asked about, stays one.
LEMMA ClosingGrows ==
  ASSUME NEW v, NEW c, NEW pos, ClosingOf(v, c, pos), NEW w, StopsOf(v) \subseteq StopsOf(w)
  PROVE  ClosingOf(w, c, pos)
  BY DEF ClosingOf, Requests

LEMMA AskingGrows ==
  ASSUME NEW o, NEW cov, NEW ask, AskingOf(o, cov, ask), NEW p, DOMAIN o \subseteq DOMAIN p
  PROVE  AskingOf(p, cov, ask)
  BY DEF AskingOf

\* Before anything has happened.
LEMMA BaseInit == Init => BaseInv
  <1> SUFFICES ASSUME Init PROVE BaseInv
    OBVIOUS
  <1>1. /\ venue = <<>> /\ events = <<>> /\ ours = <<>> /\ tracked = {} /\ missed = FALSE
        /\ position = 0 /\ protective = {} /\ closing = [at |-> "idle"]
        /\ covered = [e \in Entries |-> 0] /\ asking = NoEntry
    BY DEF Init, Idle
  <1>2. DOMAIN <<>> = {} /\ <<>> \in Seq(Updates(venue))
    OBVIOUS
  <1>3. SameOrders(venue, ours)
    BY <1>1, <1>2, FS_EmptySet DEF SameOrders
  <1>4. Sync(venue, events, ours, tracked, missed)
    BY <1>1, <1>2, <1>3 DEF Sync, InOrder
  <1>5. \A orders, S : orders = <<>> => Total(HeldLess(orders, S)) = 0
    BY <1>2, SumOfNone DEF Total, HeldLess
  <1>6. Free(venue) = 0
    BY <1>1, <1>3, <1>5, SameBooks, HeldAndFree
  <1>7. StopsOf(venue) = {}
    BY <1>1, <1>2 DEF StopsOf
  <1>8. position = Total(HeldLess(ours, {}))
    BY <1>1, <1>5
  <1>9. Accounts(venue, events, ours, tracked, missed, position, protective)
    BY <1>1, <1>4, <1>6, <1>7, <1>8 DEF Accounts
  <1>10. ClosingOf(venue, closing, position)
    BY <1>1 DEF ClosingOf, Requests
  <1>11. AskingOf(ours, covered, asking)
    BY <1>1 DEF AskingOf
  <1>12. QED
    BY <1>9, <1>10, <1>11 DEF BaseInv

\* The venue fills or ends an order.
LEMMA BaseVenueFill ==
  ASSUME BaseInv, NEW id \in DOMAIN venue, VenueFill(id)
  PROVE  BaseInv'
  <1>1. /\ Accounts(venue, events, ours, tracked, missed, position, protective)
        /\ ClosingOf(venue, closing, position) /\ AskingOf(ours, covered, asking)
    BY DEF BaseInv
  <1>2. /\ Working(venue, id) /\ events' = Append(events, [id |-> id, what |-> "fill"])
        /\ venue' = [venue EXCEPT ![id].filled = venue[id].filled + 1,
                                  ![id].state = IF venue[id].filled + 1 = venue[id].qty THEN "filled" ELSE @]
    BY DEF VenueFill
  <1>3. UNCHANGED <<ours, tracked, missed, position, protective, closing, covered, asking>>
    BY DEF VenueFill, bookVars, routerVars, runnerVars
  <1>4. Sync(venue, events, ours, tracked, missed) /\ SameOrders(venue, ours)
    BY <1>1 DEF Accounts, Sync
  <1>5. Sync(venue', events', ours, tracked, missed)
    BY <1>2, <1>4, SyncVenueFill
  <1>6. ASSUME NEW x \in DOMAIN venue
        PROVE  /\ \/ venue'[x].filled = venue[x].filled /\ (Working(venue', x) => Working(venue, x))
                  \/ /\ venue'[x].filled = venue[x].filled + 1 /\ Working(venue, x)
                     /\ Working(venue', x) \/ venue'[x].filled = venue'[x].qty
               /\ venue'[x].state = "working" => venue[x].state = "working"
    <2>1. venue[x] \in VenueOrder
      BY <1>4 DEF SameOrders, SameOrder
    <2> DEFINE n == venue[id].filled + 1
               next == IF n = venue[id].qty THEN "filled" ELSE venue[id].state
    <2>2. CASE x = id
      <3>1. venue'[x] = [venue[x] EXCEPT !.filled = n, !.state = next]
        BY <1>2, <2>2
      <3>2. n = venue[x].filled + 1 /\ next = IF n = venue[x].qty THEN "filled" ELSE venue[x].state
        BY <2>2
      <3> HIDE DEF n, next
      <3>3. venue'[x].filled = n /\ venue'[x].state = next /\ venue'[x].qty = venue[x].qty
        BY <2>1, <3>1 DEF VenueOrder
      <3>4. QED
        BY <1>2, <2>2, <3>2, <3>3 DEF Working
    <2>3. CASE x # id
      BY <1>2, <2>3 DEF Working
    <2>4. QED
      BY <2>2, <2>3
  <1>7. \A s \in StopsOf(venue) : venue'[s].state = "working" => s \in protective
    BY <1>1, <1>6 DEF Accounts, StopsOf
  <1>8. Accounts(venue', events', ours, tracked, missed, position, protective) /\ StopsOf(venue') = StopsOf(venue)
    BY ONLY <1>1, <1>5, <1>6, <1>7, AccountsVenue, SMTT(30)
  <1>9. ClosingOf(venue', closing, position)
    BY <1>1, <1>8, ClosingGrows
  <1>10. QED
    BY <1>1, <1>3, <1>8, <1>9 DEF BaseInv

LEMMA BaseVenueCancelled ==
  ASSUME BaseInv, NEW id \in DOMAIN venue, VenueCancelled(id)
  PROVE  BaseInv'
  <1>1. /\ Accounts(venue, events, ours, tracked, missed, position, protective)
        /\ ClosingOf(venue, closing, position) /\ AskingOf(ours, covered, asking)
    BY DEF BaseInv
  <1>2. /\ venue[id].state = "pending_cancel" \/ (venue[id].state = "working" /\ id.kind = "entry")
        /\ events' = Append(events, [id |-> id, what |-> "cancelled"])
        /\ venue' = [venue EXCEPT ![id].state = "cancelled"]
    BY DEF VenueCancelled
  <1>3. UNCHANGED <<ours, tracked, missed, position, protective, closing, covered, asking>>
    BY DEF VenueCancelled, bookVars, routerVars, runnerVars
  <1>4. Sync(venue, events, ours, tracked, missed) /\ SameOrders(venue, ours)
    BY <1>1 DEF Accounts, Sync
  <1>5. Sync(venue', events', ours, tracked, missed)
    BY <1>2, <1>4, SyncVenueCancelled
  <1>6. ASSUME NEW x \in DOMAIN venue
        PROVE  /\ \/ venue'[x].filled = venue[x].filled /\ (Working(venue', x) => Working(venue, x))
                  \/ /\ venue'[x].filled = venue[x].filled + 1 /\ Working(venue, x)
                     /\ Working(venue', x) \/ venue'[x].filled = venue'[x].qty
               /\ venue'[x].state = "working" => venue[x].state = "working"
    <2>1. venue[x] \in VenueOrder
      BY <1>4 DEF SameOrders, SameOrder
    <2>2. CASE x = id
      <3>1. venue'[x] = [venue[x] EXCEPT !.state = "cancelled"]
        BY <1>2, <2>2
      <3>2. venue'[x].filled = venue[x].filled /\ venue'[x].state = "cancelled"
        BY <2>1, <3>1 DEF VenueOrder
      <3>3. QED
        BY <3>2 DEF Working
    <2>3. CASE x # id
      BY <1>2, <2>3 DEF Working
    <2>4. QED
      BY <2>2, <2>3
  <1>7. \A s \in StopsOf(venue) : venue'[s].state = "working" => s \in protective
    BY <1>1, <1>6 DEF Accounts, StopsOf
  <1>8. Accounts(venue', events', ours, tracked, missed, position, protective) /\ StopsOf(venue') = StopsOf(venue)
    BY ONLY <1>1, <1>5, <1>6, <1>7, AccountsVenue, SMTT(30)
  <1>9. ClosingOf(venue', closing, position)
    BY <1>1, <1>8, ClosingGrows
  <1>10. QED
    BY <1>1, <1>3, <1>8, <1>9 DEF BaseInv

\* The router's books do not see that somebody else has asked for a cancel.
LEMMA BaseCancelledByOthers ==
  ASSUME BaseInv, NEW id \in DOMAIN venue, CancelledByOthers(id)
  PROVE  BaseInv'
  <1>1. /\ Accounts(venue, events, ours, tracked, missed, position, protective)
        /\ ClosingOf(venue, closing, position) /\ AskingOf(ours, covered, asking)
    BY DEF BaseInv
  <1>2. /\ venue[id].state = "working" /\ venue' = [venue EXCEPT ![id].state = "pending_cancel"]
        /\ UNCHANGED <<events, ours, tracked, missed, position, protective, closing, covered, asking>>
    BY DEF CancelledByOthers, bookVars, routerVars, runnerVars
  <1>3. Sync(venue, events, ours, tracked, missed) /\ SameOrders(venue, ours)
    BY <1>1 DEF Accounts, Sync
  <1>4. venue' = [x \in DOMAIN venue |->
                    IF x \in {id} /\ venue[x].state = "working"
                    THEN [venue[x] EXCEPT !.state = "pending_cancel"] ELSE venue[x]]
    BY <1>2
  <1>5. Sync(venue', events, ours, tracked, missed)
    BY ONLY <1>3, <1>4, SyncCancelRequested
  <1>6. ASSUME NEW x \in DOMAIN venue
        PROVE  /\ venue'[x].filled = venue[x].filled /\ (Working(venue', x) => Working(venue, x))
               /\ venue'[x].state = "working" => venue[x].state = "working"
    <2>1. venue[x] \in VenueOrder
      BY <1>3 DEF SameOrders, SameOrder
    <2>2. CASE x = id
      <3>1. venue'[x] = [venue[x] EXCEPT !.state = "pending_cancel"]
        BY <1>2, <2>2
      <3>2. venue'[x].filled = venue[x].filled /\ venue'[x].state = "pending_cancel"
        BY <2>1, <3>1 DEF VenueOrder
      <3>3. QED
        BY <1>2, <2>2, <3>2 DEF Working
    <2>3. CASE x # id
      BY <1>2, <2>3 DEF Working
    <2>4. QED
      BY <2>2, <2>3
  <1>7. \A s \in StopsOf(venue) : venue'[s].state = "working" => s \in protective
    BY <1>1, <1>6 DEF Accounts, StopsOf
  <1>8. \A x \in DOMAIN venue :
           \/ venue'[x].filled = venue[x].filled /\ (Working(venue', x) => Working(venue, x))
           \/ /\ venue'[x].filled = venue[x].filled + 1 /\ Working(venue, x)
              /\ Working(venue', x) \/ venue'[x].filled = venue'[x].qty
    BY <1>6
  <1>9. Accounts(venue', events, ours, tracked, missed, position, protective) /\ StopsOf(venue') = StopsOf(venue)
    BY ONLY <1>1, <1>5, <1>7, <1>8, AccountsVenue, SMTT(30)
  <1>10. ClosingOf(venue', closing, position)
    BY <1>1, <1>9, ClosingGrows
  <1>11. QED
    BY <1>1, <1>2, <1>9, <1>10 DEF BaseInv

\* Requests to cancel stops, and what they leave counted on.
LEMMA CancelRequests ==
  ASSUME BaseInv, NEW failed \in SUBSET Cancellable, CancelAtVenue(Cancellable \ failed),
         NEW q, q = protective \cap failed \/ q = protective \ (Cancellable \ failed)
  PROVE  /\ Accounts(venue', events, ours, tracked, missed, position, q)
         /\ StopsOf(venue') = StopsOf(venue) /\ Cancellable \subseteq StopsOf(venue)
  <1> DEFINE stops == Cancellable \ failed
  <1>1. Accounts(venue, events, ours, tracked, missed, position, protective)
    BY DEF BaseInv
  <1>2. /\ protective \subseteq StopsOf(venue) /\ DOMAIN ours = DOMAIN venue
        /\ \A id \in DOMAIN venue : Behind(id, venue[id], ours[id], events, tracked, missed)
    BY <1>1, AccountsFacts
  <1>3. Cancellable \subseteq StopsOf(venue)
    BY <1>2 DEF Cancellable, StopsOf
  <1>4. ASSUME NEW s \in protective \ stops, venue[s].state = "working" PROVE s \in q
    <2>1. ~ours[s].complete
      BY <1>2, <1>4 DEF Behind, StopsOf
    <2>2. s \in Cancellable
      BY <2>1 DEF Cancellable
    <2>3. QED
      BY <2>2
  <1>5. venue' = [id \in DOMAIN venue |->
                       IF id \in stops /\ venue[id].state = "working"
                       THEN [venue[id] EXCEPT !.state = "pending_cancel"] ELSE venue[id]]
    BY DEF CancelAtVenue
  <1>6. stops \in SUBSET StopsOf(venue) /\ q \in SUBSET protective
    BY <1>3
  <1>7. \A s \in protective \ stops : venue[s].state = "working" => s \in q
    BY <1>4
  <1> HIDE DEF stops
  <1>8. Accounts(venue', events, ours, tracked, missed, position, q) /\ StopsOf(venue') = StopsOf(venue)
    BY ONLY <1>1, <1>5, <1>6, <1>7, AccountsCancel, SMTT(30)
  <1>9. QED
    BY <1>3, <1>8

LEMMA BaseCancelProtection ==
  ASSUME BaseInv, CancelProtection
  PROVE  BaseInv'
  <1>1. PICK failed \in SUBSET Cancellable :
          CancelAtVenue(Cancellable \ failed) /\ protective' = protective \cap failed
    BY DEF CancelProtection
  <1>2. /\ closing' = [at |-> "idle"]
        /\ UNCHANGED <<events, ours, tracked, missed, position, covered, asking>>
    BY DEF CancelProtection, Idle, bookVars, runnerVars
  <1>3. Accounts(venue', events, ours, tracked, missed, position, protective')
    BY <1>1, CancelRequests
  <1>4. ClosingOf(venue', closing', position)
    BY <1>2 DEF ClosingOf, Requests
  <1>5. QED
    BY <1>2, <1>3, <1>4 DEF BaseInv

LEMMA BaseRelease ==
  ASSUME BaseInv, Release
  PROVE  BaseInv'
  <1>1. PICK failed \in SUBSET Cancellable :
          /\ CancelAtVenue(Cancellable \ failed)
          /\ protective' = protective \ (Cancellable \ failed)
          /\ \/ closing' = [at |-> "idle"]
             \/ closing' = [at |-> "await", known |-> (Cancellable \ failed) \cap protective,
                            inherited |-> (Cancellable \ failed) \ protective]
    BY DEF Release, Idle
  <1>2. /\ closing.at = "release"
        /\ UNCHANGED <<events, ours, tracked, missed, position, covered, asking>>
    BY DEF Release, bookVars
  <1>3. /\ Accounts(venue', events, ours, tracked, missed, position, protective')
        /\ StopsOf(venue') = StopsOf(venue) /\ Cancellable \subseteq StopsOf(venue)
    BY <1>1, CancelRequests
  <1>4. ClosingOf(venue', closing', position)
    <2>1. position > 0
      BY <1>2 DEF BaseInv, ClosingOf
    <2>2. CASE closing' = [at |-> "idle"]
      BY <2>2 DEF ClosingOf, Requests
    <2>3. CASE closing' = [at |-> "await", known |-> (Cancellable \ failed) \cap protective,
                           inherited |-> (Cancellable \ failed) \ protective]
      <3>1. /\ (Cancellable \ failed) \cap protective \in SUBSET StopsOf(venue')
            /\ (Cancellable \ failed) \ protective \in SUBSET StopsOf(venue')
        BY <1>3
      <3>2. closing' \in Requests(venue')
        BY <2>3, <3>1 DEF Requests
      <3>3. QED
        BY <2>1, <3>2 DEF ClosingOf
    <2>4. QED
      BY <1>1, <2>2, <2>3
  <1>5. QED
    BY <1>2, <1>3, <1>4 DEF BaseInv

\* Asking for a stop keeps the accounts, of the orders as the update left them.
LEMMA BaseProtect ==
  ASSUME NEW e \in Entries, NEW ev, NEW objects, NEW pos, NEW working, NEW m,
         Accounts(venue, ev, objects, working, m, pos, protective),
         EntryId(e) \in DOMAIN objects, covered \in [Entries -> Int],
         Protect(e, objects, pos, working)
  PROVE  /\ Accounts(venue', ev, ours', tracked', m, pos, protective')
         /\ StopsOf(venue) \subseteq StopsOf(venue') /\ AskingOf(ours', covered', asking')
  <1> DEFINE more == Increment(e, objects, pos)
             upTo == covered[e] + more
             id == StopOrder(e, upTo)
  <1>1. /\ DOMAIN objects = DOMAIN venue /\ IsBook(objects) /\ pos \in Int
        /\ objects[EntryId(e)].filled \in Nat /\ protective \subseteq StopsOf(venue)
    BY AccountsFacts
  <1>2. ProtectedQty(objects) \in Nat
    BY <1>1, ProtectedIsHeldLess DEF StopsOf
  <1>3. more \in Int /\ upTo \in Int
    BY <1>1, <1>2 DEF Increment, Smaller
  <1>4. CASE /\ UNCHANGED <<venue, routerVars>> /\ ours' = objects /\ tracked' = working
             /\ asking' = e \/ asking' = NoEntry
    BY <1>1, <1>4 DEF AskingOf, routerVars
  <1>5. CASE /\ more > 0 /\ id \notin DOMAIN venue /\ more <= Free(venue)
             /\ Accept(id, more, objects) /\ asking' = NoEntry
             /\ covered' = [covered EXCEPT ![e] = upTo]
             /\ protective' = protective \cup {id} /\ tracked' = working \cup {id}
    <2>1. id.kind = "stop" /\ more \in Nat \ {0}
      BY <1>3, <1>5 DEF StopOrder, StopId
    <2>2. venue' = Placed(venue, id, more) /\ ours' = Acknowledged(objects, id, more)
      BY <1>5 DEF Accept, Placed, Acknowledged
    <2>3. covered' \in [Entries -> Int]
      BY <1>3, <1>5
    <2>4. /\ id \notin DOMAIN venue /\ more <= Free(venue) /\ protective' = protective \cup {id}
          /\ tracked' \in {working, working \cup {id}} /\ asking' = NoEntry
      BY <1>5
    <2> HIDE DEF more, upTo, id
    <2>5. Joins(venue, id, more, working, tracked')
      BY <2>1, <2>4 DEF Joins
    <2>6. Accounts(Placed(venue, id, more), ev, Acknowledged(objects, id, more), tracked', m, pos,
                   IF id.kind = "stop" THEN protective \cup {id} ELSE protective)
      BY <2>5, AccountsAccept
    <2>7. Accounts(venue', ev, ours', tracked', m, pos, protective')
      BY <2>1, <2>2, <2>4, <2>6
    <2>8. StopsOf(venue) \subseteq StopsOf(venue')
      BY <2>2 DEF StopsOf, Placed, With
    <2>9. QED
      BY <2>3, <2>4, <2>7, <2>8 DEF AskingOf
  <1>6. \/ /\ UNCHANGED <<venue, routerVars>> /\ ours' = objects /\ tracked' = working
           /\ asking' = e \/ asking' = NoEntry
        \/ /\ more > 0 /\ id \notin DOMAIN venue /\ more <= Free(venue)
           /\ Accept(id, more, objects) /\ asking' = NoEntry
           /\ covered' = [covered EXCEPT ![e] = upTo]
           /\ protective' = protective \cup {id} /\ tracked' = working \cup {id}
    BY DEF Protect, NotPlaced, Gap, NoGap, Outcome, Outcomes
  <1>7. QED
    BY <1>4, <1>5, <1>6

LEMMA BaseRetryProtection ==
  ASSUME BaseInv, RetryProtection
  PROVE  BaseInv'
  <1>1. /\ Accounts(venue, events, ours, tracked, missed, position, protective)
        /\ ClosingOf(venue, closing, position)
        /\ asking \in Entries /\ EntryId(asking) \in DOMAIN ours /\ covered \in [Entries -> Int]
    BY DEF BaseInv, AskingOf, RetryProtection
  <1>2. /\ Protect(asking, ours, position, tracked)
        /\ UNCHANGED <<events, missed, position, closing>>
    BY DEF RetryProtection
  <1>3. /\ Accounts(venue', events, ours', tracked', missed, position, protective')
        /\ StopsOf(venue) \subseteq StopsOf(venue') /\ AskingOf(ours', covered', asking')
    BY <1>1, <1>2, BaseProtect
  <1>4. ClosingOf(venue', closing, position)
    BY <1>1, <1>3, ClosingGrows
  <1>5. QED
    BY <1>2, <1>3, <1>4 DEF BaseInv

\* The position once the first update is in.
PositionAfter ==
  IF Head(events).what # "fill" THEN position
  ELSE IF Head(events).id.kind = "entry" THEN position + 1 ELSE position - 1

LEMMA UpdateTaken ==
  ASSUME BaseInv, events # <<>>, Head(events).id \in tracked
  PROVE  Accounts(venue, Tail(events), Took(ours, events), StillTracked(ours, events, tracked),
                  missed, PositionAfter, protective)
  <1> DEFINE x == Head(events).id
             what == Head(events).what
             p == Took(ours, events)
             u == StillTracked(ours, events, tracked)
             k == IF what = "fill" THEN 1 ELSE 0
  <1>1. /\ Accounts(venue, events, ours, tracked, missed, position, protective)
        /\ Sync(venue, events, ours, tracked, missed)
    BY DEF BaseInv, Accounts
  <1>2. /\ Sync(venue, Tail(events), p, u, missed)
        /\ SameBut(ours, p, x) /\ x \in DOMAIN ours
        /\ what = "fill" => p[x].filled = ours[x].filled + 1
        /\ what # "fill" => p[x].filled = ours[x].filled
    BY <1>1, SyncUpdate
  <1> HIDE DEF p, u
  <1>3. /\ IsBook(ours) /\ position \in Int /\ position = Total(HeldLess(ours, {}))
        /\ DOMAIN ours = DOMAIN venue
        /\ \A id \in DOMAIN ours : ours[id].filled \in Nat /\ SameOrder(id, venue[id], ours[id])
    BY <1>1, AccountsFacts
  <1>4. IsBook(p)
    BY <1>2, SameBooks DEF Sync
  <1>5. k \in {0, 1} /\ p[x].filled = ours[x].filled + k
    BY <1>2, <1>3
  <1>6. x.kind \in {"entry", "stop", "close"}
    BY <1>2, <1>3 DEF SameOrder
  <1>7. Total(HeldLess(p, {})) = Total(HeldLess(ours, {})) + (IF x.kind = "entry" THEN k ELSE -k)
    <2> HIDE DEF x, k
    <2>1. QED
      BY ONLY <1>2, <1>3, <1>4, <1>5, AfterOneFill, SMTT(30) DEF SameBut
  <1>8. PositionAfter = Total(HeldLess(p, {}))
    BY <1>3, <1>7 DEF PositionAfter
  <1>9. QED
    BY <1>1, <1>2, <1>8 DEF Accounts, p, u

LEMMA BaseApplyUpdate ==
  ASSUME BaseInv, ApplyUpdate
  PROVE  BaseInv'
  <1> DEFINE x == Head(events).id
             objects == Took(ours, events)
             pos == PositionAfter
             working == StillTracked(ours, events, tracked)
  <1>1. /\ events # <<>> /\ Head(events).id \in tracked /\ closing = [at |-> "idle"]
        /\ events' = Tail(events) /\ position' = pos /\ UNCHANGED missed
        /\ \/ /\ OpensOrAdds(x, objects, pos) /\ Protect(x.entry, objects, pos, working)
              /\ UNCHANGED closing
           \/ /\ ours' = objects /\ tracked' = working
              /\ asking' = asking \/ asking' = NoEntry
              /\ closing' = closing \/ closing' = [at |-> "cancel"]
              /\ UNCHANGED <<venue, routerVars>>
    BY DEF ApplyUpdate, Updated, Took, AfterUpdate, StillTracked, PositionAfter, NoGap, Idle
  <1>2. /\ Accounts(venue, Tail(events), objects, working, missed, pos, protective)
        /\ DOMAIN objects = DOMAIN ours /\ x \in DOMAIN ours
    BY <1>1, UpdateTaken, SyncUpdate DEF BaseInv, Accounts, SameBut
  <1>3. ClosingOf(venue, closing, position) /\ AskingOf(ours, covered, asking) /\ covered \in [Entries -> Int]
    BY DEF BaseInv, AskingOf
  <1>4. x.kind = "entry" => x.entry \in Entries /\ x = EntryId(x.entry)
    <2>1. DOMAIN ours = DOMAIN venue /\ SameOrder(x, venue[x], ours[x])
      BY <1>2, AccountsFacts DEF BaseInv
    <2>2. QED
      BY <2>1 DEF SameOrder
  <1> HIDE DEF x, objects, pos, working
  <1>5. CASE /\ OpensOrAdds(x, objects, pos) /\ Protect(x.entry, objects, pos, working)
             /\ UNCHANGED closing
    <2>1. x.entry \in Entries /\ EntryId(x.entry) \in DOMAIN objects
      BY <1>2, <1>4, <1>5 DEF OpensOrAdds
    <2>2. /\ Accounts(venue', Tail(events), ours', tracked', missed, pos, protective')
          /\ AskingOf(ours', covered', asking')
      BY ONLY <1>2, <1>3, <1>5, <2>1, BaseProtect, SMTT(30)
    <2>3. ClosingOf(venue', closing', position')
      BY <1>1, <1>5 DEF ClosingOf, Requests
    <2>4. QED
      BY <1>1, <2>2, <2>3 DEF BaseInv
  <1>6. CASE /\ ours' = objects /\ tracked' = working
             /\ asking' = asking \/ asking' = NoEntry
             /\ closing' = closing \/ closing' = [at |-> "cancel"]
             /\ UNCHANGED <<venue, routerVars>>
    <2>1. AskingOf(ours', covered', asking')
      BY <1>2, <1>3, <1>6 DEF AskingOf, routerVars
    <2>2. ClosingOf(venue', closing', position')
      BY <1>1, <1>6 DEF ClosingOf, Requests
    <2>3. Accounts(venue', events', ours', tracked', missed', position', protective')
      BY <1>1, <1>2, <1>6 DEF routerVars
    <2>4. QED
      BY <2>1, <2>2, <2>3 DEF BaseInv
  <1>7. QED
    BY <1>1, <1>5, <1>6

LEMMA BaseDropUpdate ==
  ASSUME BaseInv, DropUpdate
  PROVE  BaseInv'
  <1>1. /\ events # <<>> /\ Head(events).id \notin tracked /\ events' = Tail(events)
        /\ missed' = (missed \/ Head(events).what = "fill")
        /\ UNCHANGED <<venue, ours, tracked, position, protective, closing, covered, asking>>
    BY DEF DropUpdate, routerVars, runnerVars
  <1>2. Sync(venue, Tail(events), ours, tracked, missed')
    <2>1. Sync(venue, events, ours, tracked, missed)
      BY DEF BaseInv, Accounts
    <2>2. QED
      BY <1>1, <2>1, SyncDrop
  <1>3. Accounts(venue, Tail(events), ours, tracked, missed', position, protective)
    BY <1>2 DEF BaseInv, Accounts
  <1>4. QED
    BY <1>1, <1>3 DEF BaseInv

LEMMA BaseSubmitEntry ==
  ASSUME BaseInv, NEW e \in Entries, SubmitEntry(e)
  PROVE  BaseInv'
  <1> DEFINE x == EntryId(e)
  <1>1. /\ x \notin DOMAIN ours /\ venue' = Placed(venue, x, Qty) /\ ours' = Acknowledged(ours, x, Qty)
        /\ tracked' = tracked \cup {x}
        /\ UNCHANGED <<events, missed, position, protective, closing, covered, asking>>
    BY DEF SubmitEntry, Accept, Placed, Acknowledged, routerVars
  <1>2. Accounts(venue, events, ours, tracked, missed, position, protective)
    BY DEF BaseInv
  <1>3. /\ x \notin DOMAIN venue /\ x.kind = "entry" /\ x.entry = e /\ x = EntryId(x.entry)
        /\ Qty \in Nat \ {0} /\ DOMAIN ours = DOMAIN venue
    BY <1>1, <1>2, AccountsFacts, QtyAssumption DEF EntryId
  <1>4. Joins(venue, x, Qty, tracked, tracked')
    BY <1>1, <1>3 DEF Joins
  <1> HIDE DEF x
  <1>5. Accounts(Placed(venue, x, Qty), events, Acknowledged(ours, x, Qty), tracked', missed, position,
                 IF x.kind = "stop" THEN protective \cup {x} ELSE protective)
    BY <1>2, <1>4, AccountsAccept
  <1>6. Accounts(venue', events', ours', tracked', missed', position', protective')
    BY <1>1, <1>3, <1>5
  <1>7. StopsOf(venue) \subseteq StopsOf(venue') /\ DOMAIN ours \subseteq DOMAIN ours'
    BY <1>1 DEF StopsOf, Placed, Acknowledged, With
  <1>8. QED
    BY <1>1, <1>6, <1>7, ClosingGrows, AskingGrows DEF BaseInv

\* An accepted close, or an accepted replacement of a stop.
LEMMA SellAccepted ==
  ASSUME BaseInv, NEW id, id.kind \in {"stop", "close"}, NEW qty \in Nat \ {0},
         Outcome("accepted", id, qty), Accept(id, qty, ours),
         tracked' \in {tracked, tracked \cup {id}},
         UNCHANGED <<events, missed, position>>,
         protective' = IF id.kind = "stop" THEN protective \cup {id} ELSE protective
  PROVE  /\ Accounts(venue', events', ours', tracked', missed', position', protective')
         /\ StopsOf(venue) \subseteq StopsOf(venue') /\ DOMAIN ours \subseteq DOMAIN ours'
  <1>1. /\ venue' = Placed(venue, id, qty) /\ ours' = Acknowledged(ours, id, qty)
        /\ id \notin DOMAIN venue /\ qty <= Free(venue)
    BY DEF Accept, Placed, Acknowledged, Outcome
  <1>2. Accounts(venue, events, ours, tracked, missed, position, protective)
    BY DEF BaseInv
  <1>3. Joins(venue, id, qty, tracked, tracked')
    BY <1>1 DEF Joins
  <1>4. Accounts(Placed(venue, id, qty), events, Acknowledged(ours, id, qty), tracked', missed, position,
                 IF id.kind = "stop" THEN protective \cup {id} ELSE protective)
    BY <1>2, <1>3, AccountsAccept
  <1>5. StopsOf(venue) \subseteq StopsOf(venue') /\ DOMAIN ours \subseteq DOMAIN ours'
    BY <1>1 DEF StopsOf, Placed, Acknowledged, With
  <1>6. QED
    BY <1>1, <1>4, <1>5

LEMMA BaseAttemptClose ==
  ASSUME BaseInv, position > 0, closing.at = "idle", AttemptClose
  PROVE  BaseInv'
  <1> DEFINE id == CloseId(Cardinality({x \in DOMAIN venue : x.kind = "close"}))
  <1>1. /\ \/ /\ Outcome("accepted", id, position) /\ Accept(id, position, ours)
              /\ tracked' = tracked \cup {id} /\ closing' = [at |-> "cancel"]
           \/ /\ closing' = [at |-> "release"] /\ UNCHANGED <<venue, ours, tracked>>
           \/ UNCHANGED <<closing, venue, ours, tracked>>
        /\ UNCHANGED <<events, missed, position, protective, covered, asking>>
    BY DEF AttemptClose, Outcomes, routerVars
  <1>2. position \in Nat \ {0} /\ id.kind = "close"
    BY AccountsFacts DEF BaseInv, CloseId
  <1> HIDE DEF id
  <1>3. CASE /\ Outcome("accepted", id, position) /\ Accept(id, position, ours)
             /\ tracked' = tracked \cup {id} /\ closing' = [at |-> "cancel"]
    <2>1. /\ Accounts(venue', events', ours', tracked', missed', position', protective')
          /\ DOMAIN ours \subseteq DOMAIN ours'
      BY <1>1, <1>2, <1>3, SellAccepted
    <2>2. ClosingOf(venue', closing', position')
      BY <1>3 DEF ClosingOf, Requests
    <2>3. QED
      BY <1>1, <2>1, <2>2, AskingGrows DEF BaseInv
  <1>4. CASE closing' = [at |-> "release"] /\ UNCHANGED <<venue, ours, tracked>>
    <2>1. ClosingOf(venue', closing', position')
      BY <1>1, <1>4 DEF ClosingOf, Requests
    <2>2. QED
      BY <1>1, <1>4, <2>1 DEF BaseInv
  <1>5. CASE UNCHANGED <<closing, venue, ours, tracked>>
    BY <1>1, <1>5 DEF BaseInv
  <1>6. QED
    BY <1>1, <1>3, <1>4, <1>5

LEMMA BaseAwait ==
  ASSUME BaseInv, Await
  PROVE  BaseInv'
  <1>1. /\ closing.at = "await"
        /\ closing' = [at |-> "idle"] \/ closing' = [closing EXCEPT !.at = "retry"]
        /\ UNCHANGED <<venue, events, ours, tracked, missed, position, protective, covered, asking>>
    BY DEF Await, Idle, bookVars, routerVars
  <1>2. ClosingOf(venue, closing', position)
    <2>1. closing \in Requests(venue) /\ position > 0
      BY <1>1 DEF BaseInv, ClosingOf
    <2>2. closing \in [at : {"await", "retry", "rearm"}, known : SUBSET StopsOf(venue), inherited : SUBSET StopsOf(venue)]
      BY <1>1, <2>1 DEF Requests
    <2>3. closing' \in Requests(venue)
      BY <1>1, <2>2 DEF Requests
    <2>4. QED
      BY <2>1, <2>3 DEF ClosingOf
  <1>3. QED
    BY <1>1, <1>2 DEF BaseInv

LEMMA BaseRetryClose ==
  ASSUME BaseInv, RetryClose
  PROVE  BaseInv'
  <1> DEFINE id == CloseId(Cardinality({x \in DOMAIN venue : x.kind = "close"}))
  <1>1. /\ closing.at = "retry"
        /\ \/ /\ Outcome("accepted", id, position) /\ Accept(id, position, ours)
              /\ tracked' = tracked \cup {id} /\ closing' = [at |-> "idle"]
           \/ /\ closing' = [closing EXCEPT !.at = "rearm"] /\ UNCHANGED <<venue, ours, tracked>>
        /\ UNCHANGED <<events, missed, position, protective, covered, asking>>
    BY DEF RetryClose, Outcomes, routerVars, Idle
  <1>2. position \in Nat \ {0} /\ id.kind = "close"
    BY <1>1, AccountsFacts DEF BaseInv, CloseId, ClosingOf
  <1> HIDE DEF id
  <1>3. CASE /\ Outcome("accepted", id, position) /\ Accept(id, position, ours)
             /\ tracked' = tracked \cup {id} /\ closing' = [at |-> "idle"]
    <2>1. /\ Accounts(venue', events', ours', tracked', missed', position', protective')
          /\ DOMAIN ours \subseteq DOMAIN ours'
      BY <1>1, <1>2, <1>3, SellAccepted
    <2>2. ClosingOf(venue', closing', position')
      BY <1>3 DEF ClosingOf, Requests
    <2>3. QED
      BY <1>1, <2>1, <2>2, AskingGrows DEF BaseInv
  <1>4. CASE closing' = [closing EXCEPT !.at = "rearm"] /\ UNCHANGED <<venue, ours, tracked>>
    <2>1. closing \in Requests(venue)
      BY DEF BaseInv, ClosingOf
    <2>2. closing \in [at : {"await", "retry", "rearm"}, known : SUBSET StopsOf(venue), inherited : SUBSET StopsOf(venue)]
      BY <1>1, <2>1 DEF Requests
    <2>3. closing' \in Requests(venue)
      BY <1>4, <2>2 DEF Requests
    <2>4. QED
      BY <1>1, <1>2, <1>4, <2>3 DEF BaseInv, ClosingOf
  <1>5. QED
    BY <1>1, <1>3, <1>4

LEMMA BaseRearm ==
  ASSUME BaseInv, NEW s, Rearm(s)
  PROVE  BaseInv'
  <1> DEFINE left == IF s \in closing.known THEN Left(ours)[s] ELSE Left(venue)[s]
             qty == Smaller(left, position - ProtectedQty(ours))
             id == ReplacementId(s, qty)
  <1>1. /\ closing.at = "rearm" /\ s \in closing.known \cup closing.inherited
        /\ closing' = [closing EXCEPT !.known = @ \ {s}, !.inherited = @ \ {s}]
        /\ \/ UNCHANGED <<venue, ours, protective>>
           \/ /\ ~(qty <= 0) /\ Outcome("accepted", id, qty) /\ Accept(id, qty, ours)
              /\ protective' = protective \cup {id}
        /\ UNCHANGED <<events, tracked, missed, position, covered, asking>>
    BY DEF Rearm, Outcomes, runnerVars
  <1>2. closing \in Requests(venue) /\ position > 0
    BY <1>1 DEF BaseInv, ClosingOf
  <1>3. closing \in [at : {"await", "retry", "rearm"}, known : SUBSET StopsOf(venue), inherited : SUBSET StopsOf(venue)]
    BY <1>1, <1>2 DEF Requests
  <1>4. ClosingOf(venue, closing', position)
    <2>1. closing' \in Requests(venue)
      BY <1>1, <1>3 DEF Requests
    <2>2. QED
      BY <1>2, <2>1 DEF ClosingOf
  <1>5. CASE UNCHANGED <<venue, ours, protective>>
    BY <1>1, <1>4, <1>5 DEF BaseInv
  <1>6. CASE /\ ~(qty <= 0) /\ Outcome("accepted", id, qty) /\ Accept(id, qty, ours)
             /\ protective' = protective \cup {id}
    <2>1. /\ IsBook(ours) /\ IsBook(venue) /\ position \in Int /\ DOMAIN ours = DOMAIN venue
          /\ protective \subseteq StopsOf(venue)
      BY AccountsFacts DEF BaseInv
    <2>2. ProtectedQty(ours) \in Nat
      BY <2>1, ProtectedIsHeldLess DEF StopsOf
    <2>3. s \in DOMAIN venue
      BY <1>1, <1>3 DEF StopsOf
    <2>4. left \in Int
      BY <2>1, <2>3 DEF Left, IsBook
    <2>5. qty \in Nat \ {0}
      BY <1>6, <2>1, <2>2, <2>4 DEF Smaller
    <2>6. id.kind = "stop"
      BY DEF ReplacementId, StopId
    <2> HIDE DEF left, qty, id
    <2>7. /\ Accounts(venue', events', ours', tracked', missed', position', protective')
          /\ StopsOf(venue) \subseteq StopsOf(venue') /\ DOMAIN ours \subseteq DOMAIN ours'
      BY <1>1, <1>6, <2>5, <2>6, SellAccepted
    <2>8. ClosingOf(venue', closing', position')
      BY <1>1, <1>4, <2>7, ClosingGrows
    <2>9. QED
      BY <1>1, <2>7, <2>8, AskingGrows DEF BaseInv
  <1>7. QED
    BY <1>1, <1>5, <1>6

LEMMA BaseRestart ==
  ASSUME BaseInv, Restart
  PROVE  BaseInv'
  <1>1. /\ \A id \in DOMAIN venue : Working(venue, id) => id \in tracked
        /\ protective' = {s \in tracked : s.kind = "stop" /\ ~ours[s].complete}
        /\ covered' = [e \in Entries |-> 0] /\ asking' = NoEntry
        /\ UNCHANGED <<venue, events, ours, tracked, missed, position, closing>>
    BY DEF Restart, AdoptProtection, NoGap, bookVars
  <1>2. tracked \subseteq {id \in DOMAIN venue : ~ours[id].complete}
    BY DEF BaseInv, Accounts, Sync
  <1>3. Accounts(venue, events, ours, tracked, missed, position, protective')
    BY <1>1, <1>2 DEF BaseInv, Accounts, StopsOf, Working
  <1>4. AskingOf(ours, covered', asking')
    BY <1>1 DEF AskingOf
  <1>5. QED
    BY <1>1, <1>3, <1>4 DEF BaseInv

\* Every step keeps it.
LEMMA BaseStep == BaseInv /\ [Next]_vars => BaseInv'
  <1> SUFFICES ASSUME BaseInv, [Next]_vars PROVE BaseInv'
    OBVIOUS
  <1>1. ASSUME NEW id \in DOMAIN venue, VenueFill(id) \/ VenueCancelled(id) \/ CancelledByOthers(id)
        PROVE  BaseInv'
    BY <1>1, BaseVenueFill, BaseVenueCancelled, BaseCancelledByOthers
  <1>2. CASE ApplyUpdate
    BY <1>2, BaseApplyUpdate
  <1>3. CASE DropUpdate
    BY <1>3, BaseDropUpdate
  <1>4. CASE CancelProtection
    BY <1>4, BaseCancelProtection
  <1>5. CASE Release
    BY <1>5, BaseRelease
  <1>6. CASE Await
    BY <1>6, BaseAwait
  <1>7. CASE RetryClose
    BY <1>7, BaseRetryClose
  <1>8. CASE CloseFailed
    <2>1. /\ closing' = [at |-> "idle"]
          /\ UNCHANGED <<venue, events, ours, tracked, missed, position, protective, covered, asking>>
      BY <1>8 DEF CloseFailed, Idle, bookVars, routerVars
    <2>2. ClosingOf(venue, closing', position)
      BY <2>1 DEF ClosingOf, Requests
    <2>3. QED
      BY <2>1, <2>2 DEF BaseInv
  <1>9. ASSUME NEW id, Rearm(id) PROVE BaseInv'
    BY <1>9, BaseRearm
  <1>10. CASE RetryProtection
    BY <1>10, BaseRetryProtection
  <1>11. CASE EngineStop \/ Exit
    <2>1. position > 0 /\ closing.at = "idle" /\ AttemptClose
      BY <1>11 DEF EngineStop, Exit, Idle
    <2>2. QED
      BY <2>1, BaseAttemptClose
  <1>12. CASE Market \/ Persist \/ UNCHANGED vars
    <2>1. UNCHANGED <<venue, events, ours, tracked, missed, position, protective, closing, covered, asking>>
      BY <1>12 DEF Market, Persist, vars, bookVars, routerVars, runnerVars
    <2>2. QED
      BY <2>1 DEF BaseInv
  <1>13. CASE Restart
    BY <1>13, BaseRestart
  <1>14. ASSUME NEW e \in Entries, SubmitEntry(e) PROVE BaseInv'
    BY <1>14, BaseSubmitEntry
  <1>15. QED
    BY <1>1, <1>2, <1>3, <1>4, <1>5, <1>6, <1>7, <1>8, <1>9, <1>10, <1>11, <1>12, <1>13, <1>14
       DEF Next, VenueStep, OnFillEvent, Continue

\* Whatever the venue fills, refuses, cancels or reports late, the router's orders
\* are the venue's but for updates on their way, and no stop sells a share twice.
THEOREM BaseIsInvariant == Spec => []BaseInv
  <1>1. Init => BaseInv
    BY BaseInit
  <1>2. BaseInv /\ [Next]_vars => BaseInv'
    BY BaseStep
  <1>3. QED
    BY <1>1, <1>2, PTL DEF Spec

-----------------------------------------------------------------------------
(* Pages are true. *)

\* An order with no update on its way is ours as it is at the venue.
LEMMA UpToDate ==
  ASSUME NEW v, NEW ev, NEW o, NEW t, NEW m, NEW pos, NEW prot,
         Accounts(v, ev, o, t, m, pos, prot), NEW id \in DOMAIN v,
         \A i \in DOMAIN ev : ev[i].id # id, ~m \/ id.kind = "entry"
  PROVE  o[id].filled = v[id].filled
  <1>1. /\ InOrder(v, ev, t) /\ Behind(id, v[id], o[id], ev, t, m)
        /\ o[id].filled \in Nat /\ v[id].filled \in Nat
    BY AccountsFacts
  <1>2. Pending(ev, id) = 0
    BY <1>1, PendingType
  <1>3. QED
    BY <1>1, <1>2 DEF Behind

\* Orders that are sold whole, of the venue's book and of ours.
LEMMA SoldWhole ==
  ASSUME NEW v, NEW ev, NEW o, NEW t, NEW m, NEW pos, NEW prot,
         Accounts(v, ev, o, t, m, pos, prot), NEW S, NEW T,
         \A id \in DOMAIN v : id.kind = "entry" => o[id].filled = v[id].filled,
         \A id \in DOMAIN v : id.kind # "entry" /\ id \in T => id \in S \/ v[id].filled = v[id].qty
  PROVE  /\ \A id \in DOMAIN v : HeldLess(v, S)[id] <= HeldLess(o, T)[id]
         /\ Total(HeldLess(v, S)) <= Total(HeldLess(o, T))
  <1>1. /\ IsBook(v) /\ IsBook(o) /\ DOMAIN o = DOMAIN v
        /\ \A id \in DOMAIN v : /\ v[id].qty \in Nat \ {0} /\ o[id].qty = v[id].qty
                                /\ v[id].filled \in Nat /\ o[id].filled \in Nat
                                /\ v[id].filled <= v[id].qty /\ o[id].filled <= v[id].filled
    BY AccountsFacts
  <1>2. ASSUME NEW id \in DOMAIN v PROVE HeldLess(v, S)[id] <= HeldLess(o, T)[id]
    <2>1. /\ v[id].qty \in Nat /\ o[id].qty = v[id].qty /\ v[id].filled \in Nat /\ o[id].filled \in Nat
          /\ v[id].filled <= v[id].qty /\ o[id].filled <= v[id].filled
      BY <1>1
    <2>2. HeldLess(v, S)[id] = IF id.kind = "entry" THEN v[id].filled
                               ELSE IF id \in S THEN -v[id].qty ELSE -v[id].filled
      BY DEF HeldLess
    <2>3. HeldLess(o, T)[id] = IF id.kind = "entry" THEN o[id].filled
                               ELSE IF id \in T THEN -o[id].qty ELSE -o[id].filled
      BY <1>1 DEF HeldLess
    <2>4. QED
      BY <2>1, <2>2, <2>3
  <1>3. Total(HeldLess(v, S)) <= Total(HeldLess(o, T))
    BY <1>1, <1>2, HoldsNoMore
  <1>4. QED
    BY <1>2, <1>3

\* With every update in, what the router counts falls short only of what is held
\* and not covered by a working stop.
LEMMA ShortIsNaked ==
  ASSUME BaseInv, events = <<>>, ~missed, ShortAtVenue
  PROVE  Stops({"working"}) < Held(venue)
  <1> DEFINE W == {s \in DOMAIN venue : s.kind = "stop" /\ venue[s].state \in {"working"}}
             S == {s \in protective : ~ours[s].complete}
  <1>1. Accounts(venue, events, ours, tracked, missed, position, protective)
    BY DEF BaseInv
  <1>2. /\ IsBook(venue) /\ IsBook(ours) /\ DOMAIN ours = DOMAIN venue /\ protective \subseteq StopsOf(venue)
        /\ position \in Int /\ position = Total(HeldLess(ours, {}))
        /\ \A id \in DOMAIN venue : /\ Behind(id, venue[id], ours[id], events, tracked, missed)
                                    /\ ours[id].qty = venue[id].qty
    BY <1>1, AccountsFacts
  <1>3. \A id \in DOMAIN venue : ours[id].filled = venue[id].filled
    BY <1>1, UpToDate
  <1>4. /\ ProtectedQty(ours) \in Nat
        /\ Total(HeldLess(ours, S)) = position - ProtectedQty(ours)
    BY <1>2, ProtectedIsHeldLess DEF StopsOf
  <1>5. W \in SUBSET Sells(venue) /\ W \subseteq S
    BY <1>1, <1>2 DEF Accounts, StopsOf, Sells, Behind
  <1>6. /\ Total(HeldLess(venue, W)) = Held(venue) - Stops({"working"})
        /\ Stops({"working"}) \in Nat /\ Held(venue) \in Int
    <2>1. Stops({"working"}) = SumFunctionOnSet(Left(venue), W)
      BY DEF Stops
    <2> HIDE DEF W
    <2>2. QED
      BY <1>2, <1>5, <2>1, LeftIsHeldLess, HeldAndFree, HeldLessType
  <1>7. \A id \in DOMAIN ours : HeldLess(ours, S)[id] <= HeldLess(venue, W)[id]
    BY <1>2, <1>3, <1>5 DEF HeldLess, IsBook
  <1> HIDE DEF W, S
  <1>8. Total(HeldLess(ours, S)) <= Total(HeldLess(venue, W))
    BY <1>2, <1>7, HoldsNoMore
  <1>9. QED
    BY <1>2, <1>4, <1>6, <1>8 DEF ShortAtVenue

\* Only the end of a pass pages.
LEMMA PersistPages ==
  ASSUME Next, paged', ~paged
  PROVE  Persist
  <1>1. ASSUME NEW id \in DOMAIN venue, VenueFill(id) \/ VenueCancelled(id) \/ CancelledByOthers(id)
        PROVE  FALSE
    BY <1>1 DEF VenueFill, VenueCancelled, CancelledByOthers, lifeVars
  <1>2. CASE OnFillEvent
    BY <1>2 DEF OnFillEvent, ApplyUpdate, DropUpdate, lifeVars
  <1>3. CASE Continue
    BY <1>3 DEF Continue, CancelProtection, Release, Await, RetryClose, CloseFailed, Rearm, lifeVars
  <1>4. CASE Market \/ RetryProtection \/ EngineStop \/ Exit
    BY <1>4 DEF Market, RetryProtection, EngineStop, Exit, AttemptClose, Outcomes, lifeVars
  <1>5. CASE Restart
    BY <1>5 DEF Restart
  <1>6. ASSUME NEW e \in Entries, SubmitEntry(e) PROVE FALSE
    BY <1>6 DEF SubmitEntry, lifeVars
  <1>7. QED
    BY <1>1, <1>2, <1>3, <1>4, <1>5, <1>6 DEF Next, VenueStep

\* _announce_unprotected: nobody is paged about a position the venue protects in
\* full, by stops nobody asked it to cancel.
THEOREM PagesTrue == Spec => PagesAreTrue
  <1>1. BaseInv /\ [Next]_vars =>
          [paged' /\ ~paged /\ events = <<>> /\ ~missed => Stops({"working"}) < Held(venue)]_vars
    <2> SUFFICES ASSUME BaseInv, Next, paged', ~paged, events = <<>>, ~missed
                 PROVE  Stops({"working"}) < Held(venue)
      OBVIOUS
    <2>1. Persist
      BY PersistPages
    <2>2. ShortAtVenue
      BY <2>1 DEF Persist
    <2>3. QED
      BY <2>2, ShortIsNaked
  <1>2. QED
    BY <1>1, BaseIsInvariant, PTL DEF Spec, PagesAreTrue

-----------------------------------------------------------------------------
(* A single entry: which stops are there, and the gaps that are known.       *)

\* The one entry e: its stops are placed once it is complete, and a gap is asked
\* about before any of it is covered.
EntryOf(o, cov, ask, e) ==
  /\ cov \in [Entries -> Nat]
  /\ cov[e] # 0 => EntryId(e) \in DOMAIN o /\ o[EntryId(e)].complete /\ ask = NoEntry
  /\ ask # NoEntry => EntryId(e) \in DOMAIN o /\ o[EntryId(e)].filled > 0
  /\ StopsOf(o) # {} => EntryId(e) \in DOMAIN o /\ o[EntryId(e)].complete

\* A gap the engine cannot know of: a restart lost its record, or it is not a
\* gap that the engine's own requests made.
Excused == forgotten \/ taken

\* The closes that sell what they are for.
Closes(v) == {id \in DOMAIN v : id.kind = "close" /\ v[id].state \in {"working", "filled"}}

\* The stops the router counts on: solid, unless the venue is letting them go.
CountedOn(o, prot) == {s \in prot : ~o[s].complete}
Solid(v, o, prot) == {s \in CountedOn(o, prot) : v[s].state \in {"working", "filled"}}
LettingGo(v) == {s \in StopsOf(v) : v[s].state = "pending_cancel"}

\* What the orders in `selling` are for is all there is to sell.
AllSold(o, selling) == Total(HeldLess(o, selling)) <= 0

\* A gap is known, or excused, or there is none.
Known(v, o, prot, pos, unprot, exc) ==
  \/ unprot \/ exc
  \/ /\ AllSold(o, Closes(v) \cup Solid(v, o, prot))
     /\ LettingGo(v) # {} => pos <= 0

\* What the router counts on is there.
Counted(v, o, prot, pos, exc) == CountedOn(o, prot) # Solid(v, o, prot) => exc \/ pos <= 0

\* A close that is out covers the position, and left no stop working.
ClosedOut(v, o, pos) ==
  \/ pos <= 0
  \/ AllSold(o, Closes(v)) /\ \A s \in StopsOf(v) : ~Working(v, s)

Gaps(v, o, prot, pos, unprot, exc, c) ==
  /\ unprot \in BOOLEAN /\ exc \in BOOLEAN
  /\ Counted(v, o, prot, pos, exc)
  /\ c.at = "cancel" => exc \/ ClosedOut(v, o, pos)
  /\ c.at = "idle" => Known(v, o, prot, pos, unprot, exc)

\* The inductive invariant of a single entry.
GapInv(e) ==
  /\ BaseInv
  /\ EntryOf(ours, covered, asking, e)
  /\ Gaps(venue, ours, protective, position, unprotected, Excused, closing)

\* The more orders are selling, the less is held.
LEMMA SellingMore ==
  ASSUME NEW o, IsBook(o), NEW S, NEW T, \A id \in DOMAIN o : id \in S => id \in T
  PROVE  /\ Total(HeldLess(o, T)) <= Total(HeldLess(o, S))
         /\ AllSold(o, S) => AllSold(o, T)
  <1>1. \A id \in DOMAIN o : HeldLess(o, T)[id] <= HeldLess(o, S)[id]
    BY DEF HeldLess, IsBook
  <1>2. Total(HeldLess(o, T)) <= Total(HeldLess(o, S))
    BY <1>1, HoldsNoMore
  <1>3. Total(HeldLess(o, T)) \in Int /\ Total(HeldLess(o, S)) \in Int
    BY HeldLessType
  <1>4. QED
    BY <1>2, <1>3 DEF AllSold

\* With nothing bought there is nothing to sell.
LEMMA FlatIsSold ==
  ASSUME NEW v, NEW ev, NEW o, NEW t, NEW m, NEW pos, NEW prot,
         Accounts(v, ev, o, t, m, pos, prot), pos <= 0, NEW S
  PROVE  AllSold(o, S)
  <1>1. IsBook(o) /\ pos = Total(HeldLess(o, {}))
    BY AccountsFacts
  <1>2. AllSold(o, {})
    BY <1>1 DEF AllSold
  <1>3. QED
    BY <1>1, <1>2, SellingMore

\* Once there are stops, the entry is ours as it is at the venue.
LEMMA EntryIsIn ==
  ASSUME NEW e, Entries = {e},
         NEW v, NEW ev, NEW o, NEW t, NEW m, NEW pos, NEW prot,
         Accounts(v, ev, o, t, m, pos, prot), NEW cov, NEW ask, EntryOf(o, cov, ask, e),
         StopsOf(v) # {}, NEW id \in DOMAIN v, id.kind = "entry"
  PROVE  o[id].filled = v[id].filled
  <1>1. /\ DOMAIN o = DOMAIN v /\ SameOrder(id, v[id], o[id]) /\ Behind(id, v[id], o[id], ev, t, m)
    BY AccountsFacts
  <1>2. id = EntryId(e)
    BY <1>1 DEF SameOrder
  <1>3. o[id].complete
    BY <1>1, <1>2 DEF EntryOf, StopsOf
  <1>4. \A i \in DOMAIN ev : ev[i].id # id
    BY <1>1, <1>3 DEF Behind
  <1>5. QED
    BY <1>4, UpToDate

\* A stop that works and is not counted reserves shares that are not free.
LEMMA FreeIsLess ==
  ASSUME NEW e, Entries = {e},
         NEW v, NEW ev, NEW o, NEW t, NEW m, NEW pos, NEW prot,
         Accounts(v, ev, o, t, m, pos, prot), NEW cov, NEW ask, EntryOf(o, cov, ask, e),
         NEW S, \A s \in S : s \in DOMAIN v => v[s].state \in {"working", "filled"},
         NEW x \in StopsOf(v), Working(v, x), x \notin S
  PROVE  Free(v) < Total(HeldLess(o, S))
  <1>1. /\ IsBook(v) /\ IsBook(o) /\ DOMAIN o = DOMAIN v /\ x \in DOMAIN v /\ x.kind = "stop"
        /\ \A id \in DOMAIN v : SameOrder(id, v[id], o[id])
    BY AccountsFacts DEF StopsOf
  <1>2. \A id \in DOMAIN v : id.kind = "entry" => o[id].filled = v[id].filled
    BY EntryIsIn
  <1>3. ASSUME NEW id \in DOMAIN v, id.kind # "entry", id \in S
        PROVE  id \in Reserving(v) \/ v[id].filled = v[id].qty
    BY <1>1, <1>3 DEF Reserving, Sells, Working, SameOrder
  <1>4. \A id \in DOMAIN v : HeldLess(v, Reserving(v))[id] <= HeldLess(o, S)[id]
    BY <1>2, <1>3, SoldWhole
  <1>5. HeldLess(v, Reserving(v))[x] < HeldLess(o, S)[x]
    <2>1. /\ v[x].qty \in Nat /\ v[x].filled \in Nat /\ o[x].filled \in Nat
          /\ v[x].filled <= v[x].qty /\ o[x].filled <= v[x].filled
      BY <1>1, AccountsFacts
    <2>2. v[x].filled # v[x].qty
      BY <1>1 DEF Working, SameOrder
    <2>3. HeldLess(v, Reserving(v))[x] = -v[x].qty
      BY <1>1, ReservedTerm
    <2>4. HeldLess(o, S)[x] = -o[x].filled
      BY <1>1 DEF HeldLess
    <2>5. QED
      BY <2>1, <2>2, <2>3, <2>4
  <1>6. Total(HeldLess(v, Reserving(v))) < Total(HeldLess(o, S))
    BY ONLY <1>1, <1>4, <1>5, HoldsLess, SMTT(30)
  <1>7. QED
    BY <1>1, <1>6, HeldAndFree

\* No stop works while the whole position is free.
LEMMA FreeMeansNoStop ==
  ASSUME NEW e, Entries = {e},
         NEW v, NEW ev, NEW o, NEW t, NEW m, NEW pos, NEW prot,
         Accounts(v, ev, o, t, m, pos, prot), NEW cov, NEW ask, EntryOf(o, cov, ask, e),
         pos <= Free(v)
  PROVE  \A s \in StopsOf(v) : ~Working(v, s)
  <1> SUFFICES ASSUME NEW x \in StopsOf(v), Working(v, x) PROVE FALSE
    OBVIOUS
  <1>1. \A s \in {} : s \in DOMAIN v => v[s].state \in {"working", "filled"}
    OBVIOUS
  <1>2. Free(v) < Total(HeldLess(o, {}))
    BY ONLY <1>1, FreeIsLess, Entries = {e}, Accounts(v, ev, o, t, m, pos, prot),
            EntryOf(o, cov, ask, e), x \in StopsOf(v), Working(v, x), SMTT(30)
  <1>3. pos = Total(HeldLess(o, {})) /\ pos \in Int /\ Free(v) \in Int
    BY AccountsFacts
  <1>4. QED
    BY <1>2, <1>3

\* No more is held than the entry bought.
LEMMA PositionIsBought ==
  ASSUME NEW e, Entries = {e},
         NEW v, NEW ev, NEW o, NEW t, NEW m, NEW pos, NEW prot,
         Accounts(v, ev, o, t, m, pos, prot),
         EntryId(e) \in DOMAIN o
  PROVE  pos <= o[EntryId(e)].filled
  <1> DEFINE x == EntryId(e)
             f == HeldLess(o, {})
             z == [id \in DOMAIN o |-> 0]
  <1>1. /\ IsBook(o) /\ DOMAIN o = DOMAIN v /\ pos = Total(f)
        /\ \A id \in DOMAIN v : SameOrder(id, v[id], o[id]) /\ o[id].filled \in Nat
    BY AccountsFacts
  <1>2. DOMAIN f = DOMAIN o /\ Ints(f, DOMAIN o) /\ IsFiniteSet(DOMAIN o)
    BY <1>1, HeldLessType DEF IsBook
  <1>3. \A id \in DOMAIN o \ {x} : f[id] <= z[id]
    BY <1>1 DEF HeldLess, SameOrder
  <1>4. f[x] = o[x].filled
    BY DEF HeldLess, EntryId
  <1> DEFINE rest == DOMAIN o \ {x}
  <1>5. IsFiniteSet(rest) /\ Ints(f, rest) /\ Ints(z, rest) /\ \A id \in rest : z[id] = 0
    BY <1>2, FS_Subset DEF Ints
  <1> HIDE DEF f, z, x, rest
  <1>6. SumFunctionOnSet(z, rest) = 0
    BY <1>5, SumOfZeros
  <1>7. SumFunctionOnSet(f, rest) <= 0 /\ SumFunctionOnSet(f, rest) \in Int
    <2>1. SumFunctionOnSet(f, rest) <= SumFunctionOnSet(z, rest)
      BY <1>3, <1>5, SumMonotone DEF rest
    <2>2. QED
      BY <1>5, <1>6, <2>1, SumType
  <1>8. SumFunctionOnSet(f, DOMAIN o) = f[x] + SumFunctionOnSet(f, rest)
    BY <1>2, SumRemove DEF x, rest
  <1>9. f[x] \in Int
    BY <1>1, <1>4 DEF x
  <1>10. SumFunctionOnSet(f, DOMAIN o) <= f[x]
    BY <1>7, <1>8, <1>9
  <1>11. QED
    BY <1>1, <1>2, <1>4, <1>10 DEF Total, x

\* _note_protection_gap: what is counted on covers the position, or the gap is
\* recorded.
LEMMA NoteGapEnough ==
  ASSUME NEW e, Entries = {e},
         NEW v, NEW ev, NEW o, NEW t, NEW m, NEW pos,
         Accounts(v, ev, o, t, m, pos, protective), NEW cov, NEW ask, EntryOf(o, cov, ask, e),
         NEW exc, Counted(v, o, protective, pos, exc),
         NEW unprot, ProtectedQty(o) < pos => unprot
  PROVE  Known(v, o, protective, pos, unprot, exc)
  <1> DEFINE S == CountedOn(o, protective)
  <1> SUFFICES ASSUME ~unprot, ~exc PROVE Known(v, o, protective, pos, unprot, exc)
    BY DEF Known
  <1>1. /\ IsBook(v) /\ IsBook(o) /\ DOMAIN o = DOMAIN v /\ protective \subseteq StopsOf(v)
        /\ pos \in Int /\ Free(v) \in Int /\ pos = Total(HeldLess(o, {}))
    BY AccountsFacts
  <1>2. CASE pos <= 0
    BY <1>2, FlatIsSold DEF Known
  <1>3. CASE pos > 0
    <2>1. S = Solid(v, o, protective)
      BY <1>1, <1>3 DEF Counted
    <2>2. ProtectedQty(o) \in Nat /\ Total(HeldLess(o, S)) = pos - ProtectedQty(o)
      BY <1>1, ProtectedIsHeldLess DEF StopsOf, CountedOn
    <2>3. Total(HeldLess(o, S)) <= 0
      BY <1>1, <2>2
    <2>4. AllSold(o, Closes(v) \cup Solid(v, o, protective))
      <3>1. AllSold(o, S)
        BY <2>3 DEF AllSold
      <3> HIDE DEF S
      <3>2. QED
        BY <1>1, <2>1, <3>1, SellingMore
    <2>5. ASSUME NEW x \in LettingGo(v) PROVE FALSE
      <3>1. /\ x \in StopsOf(v) /\ Working(v, x) /\ x \notin S
            /\ \A s \in S : s \in DOMAIN v => v[s].state \in {"working", "filled"}
        BY <2>1 DEF LettingGo, Working, Solid
      <3> HIDE DEF S
      <3>2. Free(v) < Total(HeldLess(o, S))
        BY ONLY <3>1, FreeIsLess, Entries = {e}, Accounts(v, ev, o, t, m, pos, protective),
                EntryOf(o, cov, ask, e), SMTT(30)
      <3>3. Free(v) >= 0
        BY DEF Accounts
      <3>4. QED
        BY <1>1, <2>2, <2>3, <3>2, <3>3
    <2>6. QED
      BY <2>4, <2>5 DEF Known
  <1>4. QED
    BY <1>1, <1>2, <1>3

\* A close of the whole position is accepted: it covers the position, and no stop
\* works.
LEMMA CloseAccepted ==
  ASSUME NEW e, Entries = {e},
         NEW v, NEW ev, NEW o, NEW t, NEW m, NEW pos, NEW prot,
         Accounts(v, ev, o, t, m, pos, prot), NEW cov, NEW ask, EntryOf(o, cov, ask, e),
         NEW x, x.kind = "close", x \notin DOMAIN v, pos > 0, pos <= Free(v),
         NEW w, w = Placed(v, x, pos), NEW p, p = Acknowledged(o, x, pos),
         SameOrders(w, p)
  PROVE  /\ \A S : Closes(w) \subseteq S => AllSold(p, S)
         /\ \A s \in StopsOf(w) : ~Working(w, s)
         /\ LettingGo(w) = {} /\ StopsOf(w) = StopsOf(v)
         /\ CountedOn(p, prot) = CountedOn(o, prot) /\ Solid(w, p, prot) = Solid(v, o, prot)
         /\ EntryOf(p, cov, ask, e)
  <1>1. /\ SameOrders(v, o) /\ IsBook(o) /\ DOMAIN o = DOMAIN v /\ prot \subseteq StopsOf(v)
        /\ pos \in Nat \ {0} /\ pos = Total(HeldLess(o, {}))
    BY AccountsFacts
  <1>2. /\ DOMAIN w = DOMAIN v \cup {x} /\ DOMAIN p = DOMAIN v \cup {x}
        /\ \A id \in DOMAIN v : w[id] = v[id] /\ p[id] = o[id]
        /\ ~p[x].complete /\ w[x].state = "working"
        /\ Total(HeldLess(p, {x})) = Total(HeldLess(o, {x})) - pos
    <2>1. Sync(v, ev, o, t, m) /\ Joins(v, x, pos, t, t)
      BY <1>1 DEF Accounts, Joins
    <2>2. x.kind # "entry" /\ x \in {x}
      OBVIOUS
    <2>3. Total(HeldLess(p, {x})) = Total(HeldLess(o, {x})) - pos
      BY <2>1, <2>2, SellingNewOrder
    <2>4. OneMore(v, w, x) /\ OneMore(o, p, x) /\ ~p[x].complete /\ w[x].state = "working"
      BY <2>1, NewOrder
    <2>5. QED
      BY <1>1, <2>3, <2>4 DEF OneMore
  <1>3. IsBook(p)
    BY SameBooks
  <1>4. AllSold(p, {x})
    <2>1. HeldLess(o, {x}) = HeldLess(o, {})
      BY <1>1 DEF HeldLess
    <2>2. QED
      BY <1>1, <1>2, <2>1 DEF AllSold
  <1>5. ASSUME NEW S, Closes(w) \subseteq S PROVE AllSold(p, S)
    <2>1. x \in S
      BY <1>2, <1>5 DEF Closes
    <2>2. \A id \in DOMAIN p : id \in {x} => id \in S
      BY <2>1
    <2>3. QED
      BY <1>3, <1>4, <2>2, SellingMore
  <1>6. StopsOf(w) = StopsOf(v)
    BY <1>2 DEF StopsOf
  <1>7. \A s \in StopsOf(v) : ~Working(v, s)
    BY ONLY FreeMeansNoStop, Entries = {e}, Accounts(v, ev, o, t, m, pos, prot),
            EntryOf(o, cov, ask, e), pos <= Free(v), SMTT(30)
  <1>8. \A s \in StopsOf(w) : ~Working(w, s)
    BY <1>2, <1>6, <1>7 DEF Working, StopsOf
  <1>9. LettingGo(w) = {}
    BY <1>8 DEF LettingGo, Working
  <1>10. CountedOn(p, prot) = CountedOn(o, prot) /\ Solid(w, p, prot) = Solid(v, o, prot)
    BY <1>1, <1>2 DEF CountedOn, Solid, StopsOf
  <1>11. EntryOf(p, cov, ask, e)
    BY <1>1, <1>2, x.kind = "close" DEF EntryOf, StopsOf
  <1>12. QED
    BY <1>5, <1>6, <1>8, <1>9, <1>10, <1>11

\* Nothing changes but what the venue has done to the orders.
LEMMA GapVenue ==
  ASSUME NEW e, GapInv(e), BaseInv',
         DOMAIN venue' = DOMAIN venue,
         \A s \in Sells(venue) :
           /\ venue[s].state \in {"working", "filled"} => venue'[s].state \in {"working", "filled"}
           /\ Working(venue', s) => Working(venue, s)
           /\ venue'[s].state = "pending_cancel" => venue[s].state = "pending_cancel",
         UNCHANGED <<ours, covered, asking, protective, position, unprotected, Excused, closing>>
  PROVE  GapInv(e)'
  <1>1. /\ BaseInv /\ EntryOf(ours, covered, asking, e)
        /\ Gaps(venue, ours, protective, position, unprotected, Excused, closing)
    BY DEF GapInv
  <1>2. /\ StopsOf(venue') = StopsOf(venue) /\ protective \subseteq StopsOf(venue) /\ IsBook(ours)
        /\ StopsOf(venue) \subseteq Sells(venue)
    BY <1>1, AccountsFacts DEF BaseInv, StopsOf, Sells
  <1>3. /\ Solid(venue, ours, protective) \subseteq Solid(venue', ours, protective)
        /\ Solid(venue', ours, protective) \subseteq CountedOn(ours, protective)
        /\ LettingGo(venue') \subseteq LettingGo(venue) /\ Closes(venue) \subseteq Closes(venue')
    BY <1>2 DEF Solid, LettingGo, CountedOn, Closes, Sells
  <1>4. Counted(venue', ours, protective, position, Excused)
    BY <1>1, <1>3 DEF Gaps, Counted
  <1>5. ClosedOut(venue, ours, position) => ClosedOut(venue', ours, position)
    BY <1>2, <1>3, SellingMore DEF ClosedOut
  <1>6. Known(venue, ours, protective, position, unprotected, Excused)
          => Known(venue', ours, protective, position, unprotected, Excused)
    <2>1. AllSold(ours, Closes(venue) \cup Solid(venue, ours, protective))
            => AllSold(ours, Closes(venue') \cup Solid(venue', ours, protective))
      BY <1>2, <1>3, SellingMore
    <2>2. QED
      BY <1>3, <2>1 DEF Known
  <1>7. Gaps(venue', ours, protective, position, unprotected, Excused, closing)
    BY <1>1, <1>4, <1>5, <1>6 DEF Gaps
  <1>8. QED
    BY <1>1, <1>7 DEF GapInv

LEMMA GapVenueFill ==
  ASSUME NEW e, GapInv(e), BaseInv', NEW id \in DOMAIN venue, VenueFill(id)
  PROVE  GapInv(e)'
  <1>1. /\ Working(venue, id)
        /\ venue' = [venue EXCEPT ![id].filled = venue[id].filled + 1,
                                  ![id].state = IF venue[id].filled + 1 = venue[id].qty THEN "filled" ELSE @]
        /\ UNCHANGED <<ours, covered, asking, protective, position, unprotected, Excused, closing>>
    BY DEF VenueFill, bookVars, routerVars, runnerVars, lifeVars, Excused
  <1>2. SameOrders(venue, ours)
    BY DEF GapInv, BaseInv, Accounts, Sync
  <1>3. ASSUME NEW s \in Sells(venue)
        PROVE  /\ venue[s].state \in {"working", "filled"} => venue'[s].state \in {"working", "filled"}
               /\ Working(venue', s) => Working(venue, s)
               /\ venue'[s].state = "pending_cancel" => venue[s].state = "pending_cancel"
    <2>1. s \in DOMAIN venue /\ venue[s] \in VenueOrder
      BY <1>2 DEF SameOrders, SameOrder, Sells
    <2> DEFINE n == venue[id].filled + 1
               next == IF n = venue[id].qty THEN "filled" ELSE venue[id].state
    <2>2. CASE s = id
      <3>1. venue'[s] = [venue[s] EXCEPT !.filled = n, !.state = next]
        BY <1>1, <2>1, <2>2
      <3>2. next = "filled" \/ next = venue[s].state
        BY <2>2
      <3> HIDE DEF n, next
      <3>3. venue'[s].state = next
        BY <2>1, <3>1 DEF VenueOrder
      <3>4. QED
        BY <1>1, <2>2, <3>2, <3>3 DEF Working
    <2>3. CASE s # id
      BY <1>1, <2>1, <2>3 DEF Working
    <2>4. QED
      BY <2>2, <2>3
  <1>4. DOMAIN venue' = DOMAIN venue
    BY <1>1
  <1>5. QED
    BY <1>1, <1>3, <1>4, GapVenue

LEMMA GapVenueCancelled ==
  ASSUME NEW e, GapInv(e), BaseInv', NEW id \in DOMAIN venue, VenueCancelled(id)
  PROVE  GapInv(e)'
  <1>1. /\ venue[id].state = "pending_cancel" \/ (venue[id].state = "working" /\ id.kind = "entry")
        /\ venue' = [venue EXCEPT ![id].state = "cancelled"]
        /\ UNCHANGED <<ours, covered, asking, protective, position, unprotected, Excused, closing>>
    BY DEF VenueCancelled, bookVars, routerVars, runnerVars, lifeVars, Excused
  <1>2. SameOrders(venue, ours)
    BY DEF GapInv, BaseInv, Accounts, Sync
  <1>3. ASSUME NEW s \in Sells(venue)
        PROVE  /\ venue[s].state \in {"working", "filled"} => venue'[s].state \in {"working", "filled"}
               /\ Working(venue', s) => Working(venue, s)
               /\ venue'[s].state = "pending_cancel" => venue[s].state = "pending_cancel"
    <2>1. s \in DOMAIN venue /\ venue[s] \in VenueOrder /\ s.kind # "entry"
      BY <1>2 DEF SameOrders, SameOrder, Sells
    <2>2. CASE s = id
      <3>1. venue'[s] = [venue[s] EXCEPT !.state = "cancelled"]
        BY <1>1, <2>1, <2>2
      <3>2. venue'[s].state = "cancelled"
        BY <2>1, <3>1 DEF VenueOrder
      <3>3. QED
        BY <1>1, <2>1, <2>2, <3>2 DEF Working
    <2>3. CASE s # id
      BY <1>1, <2>1, <2>3 DEF Working
    <2>4. QED
      BY <2>2, <2>3
  <1>4. DOMAIN venue' = DOMAIN venue
    BY <1>1
  <1>5. QED
    BY <1>1, <1>3, <1>4, GapVenue

\* The gap that somebody else makes is excused.
LEMMA GapCancelledByOthers ==
  ASSUME NEW e, GapInv(e), BaseInv', NEW id \in DOMAIN venue, CancelledByOthers(id)
  PROVE  GapInv(e)'
  <1>1. Excused' /\ UNCHANGED <<ours, covered, asking, unprotected>>
    BY DEF CancelledByOthers, bookVars, routerVars, runnerVars, Excused
  <1>2. EntryOf(ours, covered, asking, e) /\ unprotected \in BOOLEAN
    BY DEF GapInv, Gaps
  <1>3. Excused' \in BOOLEAN
    BY DEF Excused
  <1>4. QED
    BY <1>1, <1>2, <1>3 DEF GapInv, Gaps, Counted, Known

\* What a request to cancel does to the venue's orders.
LEMMA CancelledAtVenue ==
  ASSUME BaseInv, NEW stops, CancelAtVenue(stops)
  PROVE  /\ DOMAIN venue' = DOMAIN venue
         /\ \A id \in DOMAIN venue :
              /\ venue[id].state # "working" => venue'[id] = venue[id]
              /\ id \notin stops => venue'[id] = venue[id]
  BY DEF CancelAtVenue

LEMMA GapCancelProtection ==
  ASSUME NEW e, GapInv(e), BaseInv', CancelProtection
  PROVE  GapInv(e)'
  <1>1. PICK failed \in SUBSET Cancellable :
          CancelAtVenue(Cancellable \ failed) /\ protective' = protective \cap failed
    BY DEF CancelProtection
  <1>2. /\ closing.at = "cancel" /\ closing' = [at |-> "idle"]
        /\ UNCHANGED <<ours, position, covered, asking, unprotected, Excused>>
    BY DEF CancelProtection, Idle, bookVars, runnerVars, lifeVars, Excused
  <1>3. /\ BaseInv /\ EntryOf(ours, covered, asking, e)
        /\ unprotected \in BOOLEAN /\ Excused \in BOOLEAN
        /\ Counted(venue, ours, protective, position, Excused)
        /\ Excused \/ ClosedOut(venue, ours, position)
        /\ Accounts(venue, events, ours, tracked, missed, position, protective)
    BY <1>2 DEF GapInv, Gaps, BaseInv
  <1>4. /\ IsBook(ours) /\ DOMAIN ours = DOMAIN venue /\ protective \subseteq StopsOf(venue)
        /\ position \in Int
    BY <1>3, AccountsFacts
  <1>5. /\ DOMAIN venue' = DOMAIN venue /\ StopsOf(venue') = StopsOf(venue)
        /\ \A id \in DOMAIN venue : venue[id].state # "working" => venue'[id] = venue[id]
        /\ Closes(venue') = Closes(venue)
    <2>1. Cancellable \ failed \subseteq StopsOf(venue)
      BY <1>1, <1>3, CancelRequests
    <2>2. QED
      BY <1>1, <1>3, <2>1, CancelledAtVenue DEF StopsOf, Closes
  <1>6. CASE Excused
    BY <1>2, <1>3, <1>6 DEF GapInv, Gaps, Counted, Known
  <1>7. CASE ~Excused /\ position <= 0
    <2>1. AllSold(ours, Closes(venue') \cup Solid(venue', ours, protective'))
      BY <1>3, <1>7, FlatIsSold
    <2>2. /\ Counted(venue', ours, protective', position, Excused)
          /\ Known(venue', ours, protective', position, unprotected, Excused)
      BY <1>7, <2>1 DEF Counted, Known
    <2>3. QED
      BY <1>2, <1>3, <2>2 DEF GapInv, Gaps
  <1>8. CASE ~Excused /\ position > 0
    <2>1. AllSold(ours, Closes(venue')) /\ \A s \in StopsOf(venue) : ~Working(venue, s)
      BY <1>3, <1>4, <1>5, <1>8 DEF ClosedOut
    <2>2. \A s \in StopsOf(venue) : venue'[s] = venue[s]
      BY <1>5, <2>1 DEF Working, StopsOf
    <2>3. LettingGo(venue') = {}
      BY <1>5, <2>1, <2>2 DEF LettingGo, Working
    <2>4. AllSold(ours, Closes(venue') \cup Solid(venue', ours, protective'))
      BY <1>4, <2>1, SellingMore
    <2>5. Counted(venue', ours, protective', position, Excused)
      BY <1>1, <1>3, <1>4, <2>2 DEF Counted, CountedOn, Solid
    <2>6. QED
      BY <1>2, <1>3, <2>3, <2>4, <2>5 DEF GapInv, Gaps, Known
  <1>9. QED
    BY <1>4, <1>6, <1>7, <1>8

\* After a close that was not sent, _note_protection_gap leaves the gap known.
LEMMA GapNoted ==
  ASSUME NEW e, Entries = {e}, GapInv(e), NoteGap(protective),
         UNCHANGED <<venue, ours, protective, position, Excused>>
  PROVE  /\ unprotected' \in BOOLEAN
         /\ Known(venue', ours', protective', position', unprotected', Excused')
  <1>1. /\ Accounts(venue, events, ours, tracked, missed, position, protective)
        /\ EntryOf(ours, covered, asking, e)
        /\ Counted(venue, ours, protective, position, Excused)
    BY DEF GapInv, BaseInv, Gaps
  <1>2. ProtectedQty(ours) < position => unprotected'
    BY DEF NoteGap, ProtectedQty
  <1>3. Known(venue, ours, protective, position, unprotected', Excused)
    BY ONLY Entries = {e}, <1>1, <1>2, NoteGapEnough, SMTT(30)
  <1>4. QED
    BY <1>3 DEF NoteGap

LEMMA GapRelease ==
  ASSUME NEW e, Entries = {e}, GapInv(e), BaseInv', Release
  PROVE  GapInv(e)'
  <1>1. PICK failed \in SUBSET Cancellable :
          /\ CancelAtVenue(Cancellable \ failed)
          /\ protective' = protective \ (Cancellable \ failed)
          /\ \/ Cancellable \ failed = {} /\ closing' = [at |-> "idle"] /\ NoteGap(protective)
             \/ /\ closing' = [at |-> "await", known |-> (Cancellable \ failed) \cap protective,
                            inherited |-> (Cancellable \ failed) \ protective]
                /\ UNCHANGED unprotected
    BY DEF Release, Idle
  <1>2. /\ closing.at = "release"
        /\ UNCHANGED <<ours, position, covered, asking, Excused>>
    BY DEF Release, bookVars, lifeVars, Excused
  <1>3. /\ BaseInv /\ EntryOf(ours, covered, asking, e)
        /\ unprotected \in BOOLEAN /\ Excused \in BOOLEAN
        /\ Counted(venue, ours, protective, position, Excused)
        /\ Accounts(venue, events, ours, tracked, missed, position, protective)
    BY DEF GapInv, Gaps, BaseInv
  <1>4. DOMAIN ours = DOMAIN venue /\ protective \subseteq StopsOf(venue)
    BY <1>3, AccountsFacts
  <1>5. /\ DOMAIN venue' = DOMAIN venue
        /\ \A id \in DOMAIN venue : id \notin Cancellable \ failed => venue'[id] = venue[id]
    BY <1>1, <1>3, CancelledAtVenue
  <1>6. Counted(venue', ours, protective', position, Excused)
    BY <1>1, <1>3, <1>4, <1>5 DEF Counted, CountedOn, Solid, StopsOf
  <1>7. CASE Cancellable \ failed = {} /\ closing' = [at |-> "idle"] /\ NoteGap(protective)
    <2>1. protective' = protective
      BY <1>1, <1>7
    <2>2. Accounts(venue', events', ours, tracked', missed', position, protective)
      BY <1>2, <2>1 DEF BaseInv
    <2>3. ProtectedQty(ours) < position => unprotected'
      BY <1>7 DEF NoteGap, ProtectedQty
    <2>4. Counted(venue', ours, protective, position, Excused)
      BY <1>6, <2>1
    <2>5. Known(venue', ours, protective, position, unprotected', Excused)
      BY ONLY Entries = {e}, <1>3, <2>2, <2>3, <2>4, NoteGapEnough, SMTT(30)
    <2>6. unprotected' \in BOOLEAN
      BY <1>7 DEF NoteGap
    <2>7. QED
      BY <1>2, <1>3, <1>6, <1>7, <2>1, <2>5, <2>6 DEF GapInv, Gaps
  <1>8. CASE /\ closing' = [at |-> "await", known |-> (Cancellable \ failed) \cap protective,
                            inherited |-> (Cancellable \ failed) \ protective]
             /\ UNCHANGED unprotected
    <2>1. closing'.at = "await"
      BY <1>8
    <2>2. QED
      BY <1>2, <1>3, <1>6, <1>8, <2>1 DEF GapInv, Gaps
  <1>9. QED
    BY <1>1, <1>7, <1>8

LEMMA GapAwait ==
  ASSUME NEW e, Entries = {e}, GapInv(e), BaseInv', Await
  PROVE  GapInv(e)'
  <1>1. /\ closing.at = "await"
        /\ \/ closing' = [at |-> "idle"] /\ NoteGap(protective)
           \/ closing' = [closing EXCEPT !.at = "retry"] /\ UNCHANGED unprotected
        /\ UNCHANGED <<venue, ours, protective, position, covered, asking, Excused>>
    BY DEF Await, Idle, bookVars, routerVars, lifeVars, Excused
  <1>2. /\ EntryOf(ours, covered, asking, e) /\ closing \in Requests(venue)
        /\ unprotected \in BOOLEAN /\ Excused \in BOOLEAN
        /\ Counted(venue, ours, protective, position, Excused)
    BY DEF GapInv, Gaps, BaseInv, ClosingOf
  <1>3. CASE closing' = [at |-> "idle"] /\ NoteGap(protective)
    <2>1. /\ unprotected' \in BOOLEAN
          /\ Known(venue', ours', protective', position', unprotected', Excused')
      BY <1>1, <1>3, GapNoted
    <2>2. QED
      BY <1>1, <1>2, <1>3, <2>1 DEF GapInv, Gaps
  <1>4. CASE closing' = [closing EXCEPT !.at = "retry"] /\ UNCHANGED unprotected
    <2>1. closing'.at = "retry"
      BY <1>1, <1>2, <1>4 DEF Requests
    <2>2. QED
      BY <1>1, <1>2, <1>4, <2>1 DEF GapInv, Gaps
  <1>5. QED
    BY <1>1, <1>3, <1>4

LEMMA GapCloseFailed ==
  ASSUME NEW e, Entries = {e}, GapInv(e), BaseInv', CloseFailed
  PROVE  GapInv(e)'
  <1>1. /\ closing' = [at |-> "idle"] /\ NoteGap(protective)
        /\ UNCHANGED <<venue, ours, protective, position, covered, asking, Excused>>
    BY DEF CloseFailed, Idle, bookVars, routerVars, lifeVars, Excused
  <1>2. /\ EntryOf(ours, covered, asking, e) /\ Excused \in BOOLEAN
        /\ Counted(venue, ours, protective, position, Excused)
    BY DEF GapInv, Gaps
  <1>3. /\ unprotected' \in BOOLEAN
        /\ Known(venue', ours', protective', position', unprotected', Excused')
    BY <1>1, GapNoted
  <1>4. QED
    BY <1>1, <1>2, <1>3 DEF GapInv, Gaps

\* The close of the whole position joins the books.
LEMMA GapCloseSent ==
  ASSUME NEW e, Entries = {e}, GapInv(e), BaseInv', NEW id, id.kind = "close", position > 0,
         Outcome("accepted", id, position), Accept(id, position, ours),
         UNCHANGED <<position, protective, covered, asking, unprotected, Excused>>
  PROVE  /\ EntryOf(ours', covered', asking', e)
         /\ unprotected' \in BOOLEAN /\ Excused' \in BOOLEAN
         /\ Counted(venue', ours', protective', position', Excused')
         /\ ClosedOut(venue', ours', position')
         /\ Known(venue', ours', protective', position', unprotected', Excused')
  <1>1. /\ Accounts(venue, events, ours, tracked, missed, position, protective)
        /\ EntryOf(ours, covered, asking, e)
        /\ unprotected \in BOOLEAN /\ Excused \in BOOLEAN
        /\ Counted(venue, ours, protective, position, Excused)
    BY DEF GapInv, BaseInv, Gaps
  <1>2. /\ venue' = Placed(venue, id, position) /\ ours' = Acknowledged(ours, id, position)
        /\ id \notin DOMAIN venue /\ position <= Free(venue)
    BY DEF Accept, Placed, Acknowledged, Outcome
  <1>3. SameOrders(venue', ours')
    BY DEF BaseInv, Accounts, Sync
  <1>4. /\ \A S : Closes(venue') \subseteq S => AllSold(ours', S)
        /\ \A s \in StopsOf(venue') : ~Working(venue', s)
        /\ LettingGo(venue') = {} /\ StopsOf(venue') = StopsOf(venue)
        /\ CountedOn(ours', protective) = CountedOn(ours, protective)
        /\ Solid(venue', ours', protective) = Solid(venue, ours, protective)
        /\ EntryOf(ours', covered, asking, e)
    <2>1. id.kind = "close" /\ position > 0
      OBVIOUS
    <2>2. QED
      BY ONLY Entries = {e}, <1>1, <1>2, <1>3, <2>1, CloseAccepted, SMTT(30)
  <1>5. /\ AllSold(ours', Closes(venue'))
        /\ AllSold(ours', Closes(venue') \cup Solid(venue', ours', protective))
    BY <1>4
  <1>6. QED
    BY <1>1, <1>4, <1>5 DEF Counted, ClosedOut, Known

LEMMA GapRetryClose ==
  ASSUME NEW e, Entries = {e}, GapInv(e), BaseInv', RetryClose
  PROVE  GapInv(e)'
  <1> DEFINE id == CloseId(Cardinality({x \in DOMAIN venue : x.kind = "close"}))
  <1>1. /\ closing.at = "retry"
        /\ \/ /\ Outcome("accepted", id, position) /\ Accept(id, position, ours)
              /\ closing' = [at |-> "idle"]
           \/ /\ closing' = [closing EXCEPT !.at = "rearm"] /\ UNCHANGED <<venue, ours>>
        /\ UNCHANGED <<position, protective, covered, asking, unprotected, Excused>>
    BY DEF RetryClose, Outcomes, routerVars, Idle, lifeVars, Excused
  <1>2. position > 0 /\ id.kind = "close" /\ closing \in Requests(venue)
    BY <1>1 DEF GapInv, BaseInv, CloseId, ClosingOf
  <1> HIDE DEF id
  <1>3. CASE /\ Outcome("accepted", id, position) /\ Accept(id, position, ours)
             /\ closing' = [at |-> "idle"]
    <2>1. /\ EntryOf(ours', covered', asking', e)
          /\ unprotected' \in BOOLEAN /\ Excused' \in BOOLEAN
          /\ Counted(venue', ours', protective', position', Excused')
          /\ Known(venue', ours', protective', position', unprotected', Excused')
      BY <1>1, <1>2, <1>3, GapCloseSent
    <2>2. QED
      BY <1>3, <2>1 DEF GapInv, Gaps
  <1>4. CASE closing' = [closing EXCEPT !.at = "rearm"] /\ UNCHANGED <<venue, ours>>
    <2>1. closing'.at = "rearm"
      BY <1>1, <1>2, <1>4 DEF Requests
    <2>2. QED
      BY <1>1, <1>4, <2>1 DEF GapInv, Gaps
  <1>5. QED
    BY <1>1, <1>3, <1>4

LEMMA GapAttemptClose ==
  ASSUME NEW e, Entries = {e}, GapInv(e), BaseInv', position > 0, closing.at = "idle", AttemptClose
  PROVE  GapInv(e)'
  <1> DEFINE id == CloseId(Cardinality({x \in DOMAIN venue : x.kind = "close"}))
  <1>1. /\ \/ /\ Outcome("accepted", id, position) /\ Accept(id, position, ours)
              /\ closing' = [at |-> "cancel"] /\ UNCHANGED unprotected
           \/ /\ closing' = [at |-> "release"] /\ UNCHANGED <<venue, ours, unprotected>>
           \/ NoteGap(protective) /\ UNCHANGED <<closing, venue, ours>>
        /\ UNCHANGED <<position, protective, covered, asking, forgotten, taken>>
    BY DEF AttemptClose, Outcomes, routerVars, lifeVars
  <1>2. id.kind = "close"
    BY DEF CloseId
  <1> HIDE DEF id
  <1>0. UNCHANGED Excused
    BY <1>1 DEF Excused
  <1>3. CASE /\ Outcome("accepted", id, position) /\ Accept(id, position, ours)
             /\ closing' = [at |-> "cancel"] /\ UNCHANGED unprotected
    <2>1. /\ EntryOf(ours', covered', asking', e)
          /\ unprotected' \in BOOLEAN /\ Excused' \in BOOLEAN
          /\ Counted(venue', ours', protective', position', Excused')
          /\ ClosedOut(venue', ours', position')
      BY <1>0, <1>1, <1>2, <1>3, GapCloseSent
    <2>2. QED
      BY <1>0, <1>3, <2>1 DEF GapInv, Gaps
  <1>4. CASE closing' = [at |-> "release"] /\ UNCHANGED <<venue, ours, unprotected>>
    BY <1>0, <1>1, <1>4 DEF GapInv, Gaps
  <1>5. CASE NoteGap(protective) /\ UNCHANGED <<closing, venue, ours>>
    <2>1. /\ unprotected' \in BOOLEAN
          /\ Known(venue', ours', protective', position', unprotected', Excused')
      BY <1>0, <1>1, <1>5, GapNoted
    <2>2. QED
      BY <1>0, <1>1, <1>5, <2>1 DEF GapInv, Gaps
  <1>6. QED
    BY <1>1, <1>3, <1>4, <1>5

\* A replacement is counted on and works.
LEMMA GapRearm ==
  ASSUME NEW e, Entries = {e}, GapInv(e), BaseInv', NEW s, Rearm(s)
  PROVE  GapInv(e)'
  <1> DEFINE left == IF s \in closing.known THEN Left(ours)[s] ELSE Left(venue)[s]
             qty == Smaller(left, position - ProtectedQty(ours))
             id == ReplacementId(s, qty)
  <1>1. /\ closing.at = "rearm" /\ s \in closing.known \cup closing.inherited
        /\ closing' = [closing EXCEPT !.known = @ \ {s}, !.inherited = @ \ {s}]
        /\ \/ UNCHANGED <<venue, ours, protective>>
           \/ /\ id \notin DOMAIN venue /\ Accept(id, qty, ours)
              /\ protective' = protective \cup {id}
        /\ UNCHANGED <<position, covered, asking, unprotected, Excused>>
    BY DEF Rearm, Outcomes, Outcome, runnerVars, lifeVars, Excused
  <1>2. /\ Accounts(venue, events, ours, tracked, missed, position, protective)
        /\ EntryOf(ours, covered, asking, e) /\ closing \in Requests(venue)
        /\ unprotected \in BOOLEAN /\ Excused \in BOOLEAN
        /\ Counted(venue, ours, protective, position, Excused)
    BY DEF GapInv, Gaps, BaseInv, ClosingOf
  <1>3. /\ DOMAIN ours = DOMAIN venue /\ protective \subseteq StopsOf(venue)
    BY <1>2, AccountsFacts
  <1>4. closing \in [at : {"await", "retry", "rearm"}, known : SUBSET StopsOf(venue), inherited : SUBSET StopsOf(venue)]
    BY <1>1, <1>2 DEF Requests
  <1>5. closing'.at = "rearm" /\ s \in StopsOf(venue)
    BY <1>1, <1>4
  <1>6. CASE UNCHANGED <<venue, ours, protective>>
    BY <1>1, <1>2, <1>5, <1>6 DEF GapInv, Gaps
  <1>7. CASE /\ id \notin DOMAIN venue /\ Accept(id, qty, ours)
             /\ protective' = protective \cup {id}
    <2>1. id.kind = "stop"
      BY DEF ReplacementId, StopId
    <2> HIDE DEF left, qty, id
    <2>2. /\ DOMAIN ours' = DOMAIN ours \cup {id} /\ DOMAIN venue' = DOMAIN venue \cup {id}
          /\ \A x \in DOMAIN venue : venue'[x] = venue[x] /\ ours'[x] = ours[x] /\ x # id
          /\ venue'[id] = [qty |-> qty, filled |-> 0, state |-> "working"]
          /\ ours'[id] = [qty |-> qty, filled |-> 0, complete |-> FALSE]
      BY <1>3, <1>7 DEF Accept, With
    <2>3. venue'[id].state = "working" /\ ours'[id].complete = FALSE
      BY <2>2
    <2>4. EntryOf(ours', covered', asking', e)
      <3>1. EntryId(e) \in DOMAIN ours /\ ours[EntryId(e)].complete
        BY <1>2, <1>3, <1>5 DEF EntryOf, StopsOf
      <3>2. EntryId(e) \in DOMAIN ours' /\ ours'[EntryId(e)] = ours[EntryId(e)]
        BY <1>3, <2>2, <3>1
      <3>3. QED
        BY <1>1, <1>2, <3>1, <3>2 DEF EntryOf
    <2>5. /\ CountedOn(ours', protective') = CountedOn(ours, protective) \cup {id}
          /\ Solid(venue', ours', protective') = Solid(venue, ours, protective) \cup {id}
      <3>1. \A x \in protective : x \in DOMAIN venue /\ x # id
        BY <1>3, <1>7 DEF StopsOf
      <3>2. CountedOn(ours', protective') = CountedOn(ours, protective) \cup {id}
        BY <1>7, <2>2, <2>3, <3>1 DEF CountedOn
      <3>3. QED
        BY <1>7, <2>2, <2>3, <3>1, <3>2 DEF CountedOn, Solid
    <2>6. Counted(venue', ours', protective', position', Excused')
      BY <1>1, <1>2, <2>5 DEF Counted
    <2>7. QED
      BY <1>1, <1>2, <1>5, <2>4, <2>6 DEF GapInv, Gaps
  <1>8. QED
    BY <1>1, <1>6, <1>7

\* A new process counts on what it adopts, and has Excused the gaps.
LEMMA GapRestart ==
  ASSUME NEW e, Entries = {e}, GapInv(e), BaseInv', Restart
  PROVE  GapInv(e)'
  <1>1. /\ closing = Idle /\ events = <<>> /\ ~missed
        /\ \A id \in DOMAIN venue : Working(venue, id) => id \in tracked
        /\ protective' = {s \in tracked : s.kind = "stop" /\ ~ours[s].complete}
        /\ covered' = [x \in Entries |-> 0] /\ asking' = NoEntry
        /\ unprotected' = FALSE /\ Excused' = (Excused \/ unprotected)
        /\ UNCHANGED <<venue, ours, position, closing>>
    BY DEF Restart, AdoptProtection, NoGap, bookVars, Excused
  <1>2. /\ Accounts(venue, events, ours, tracked, missed, position, protective)
        /\ EntryOf(ours, covered, asking, e)
        /\ unprotected \in BOOLEAN /\ Excused \in BOOLEAN
        /\ Known(venue, ours, protective, position, unprotected, Excused)
        /\ closing.at = "idle"
    BY <1>1 DEF GapInv, Gaps, BaseInv, Idle
  <1>3. /\ DOMAIN ours = DOMAIN venue /\ IsBook(ours) /\ InOrder(venue, events, tracked)
        /\ \A id \in DOMAIN venue : /\ SameOrder(id, venue[id], ours[id])
                                    /\ Behind(id, venue[id], ours[id], events, tracked, missed)
        /\ protective \subseteq StopsOf(venue)
    BY <1>2, AccountsFacts
  <1>4. tracked \subseteq {id \in DOMAIN venue : ~ours[id].complete}
    BY <1>2 DEF Accounts, Sync
  <1>5. EntryOf(ours', covered', asking', e)
    <2>1. covered' \in [Entries -> Nat] /\ covered'[e] = 0
      BY <1>1
    <2>2. QED
      BY <1>1, <1>2, <2>1 DEF EntryOf
  <1>6. CASE Excused'
    <2>1. Excused' \in BOOLEAN /\ unprotected' \in BOOLEAN
      BY <1>1, <1>2
    <2>2. closing'.at = "idle"
      BY <1>1, <1>2
    <2>3. QED
      BY <1>5, <1>6, <2>1, <2>2 DEF GapInv, Gaps, Counted, Known
  <1>7. CASE ~Excused'
    <2>1. ~Excused /\ ~unprotected
      BY <1>1, <1>2, <1>7
    <2>2. /\ AllSold(ours, Closes(venue) \cup Solid(venue, ours, protective))
          /\ LettingGo(venue) # {} => position <= 0
      BY <1>2, <2>1 DEF Known
    <2>3. ASSUME NEW s \in tracked, s.kind = "stop"
          PROVE  venue[s].state \in {"working", "pending_cancel", "filled"}
      <3>1. s \in DOMAIN venue /\ venue[s].state \in States
        BY <1>3, <1>4, <2>3 DEF SameOrder, VenueOrder
      <3>2. venue[s].state # "cancelled"
        <4>1. DOMAIN events = {}
          BY <1>1
        <4>2. QED
          BY <1>3, <2>3, <4>1 DEF InOrder
      <3>3. QED
        BY <3>1, <3>2 DEF States
    <2>4. Counted(venue, ours, protective', position, Excused')
      <3> SUFFICES ASSUME ~(position <= 0)
                   PROVE  CountedOn(ours, protective') = Solid(venue, ours, protective')
        BY DEF Counted
      <3>1. LettingGo(venue) = {}
        BY <2>2
      <3>2. \A s \in protective' : venue[s].state \in {"working", "filled"}
        BY <1>1, <1>4, <2>3, <3>1 DEF LettingGo, StopsOf
      <3>3. QED
        BY <3>2 DEF CountedOn, Solid
    <2>5. ASSUME NEW s \in Solid(venue, ours, protective) PROVE s \in Solid(venue, ours, protective')
      <3>1. s \in StopsOf(venue) /\ ~ours[s].complete /\ venue[s].state \in {"working", "filled"}
        BY <1>3 DEF Solid, CountedOn
      <3>2. venue[s].state # "filled"
        <4>1. s \in DOMAIN venue /\ \A i \in DOMAIN events : events[i].id # s
          BY <1>1, <3>1 DEF StopsOf
        <4>2. ours[s].filled = venue[s].filled
          BY <1>1, <1>2, <4>1, UpToDate
        <4>3. QED
          BY <1>3, <3>1, <4>1, <4>2 DEF SameOrder, Behind
      <3>3. s \in tracked
        BY <1>1, <3>1, <3>2 DEF Working, StopsOf
      <3>4. QED
        BY <1>1, <3>1, <3>3 DEF Solid, CountedOn, StopsOf
    <2>6. AllSold(ours, Closes(venue) \cup Solid(venue, ours, protective'))
      BY <1>3, <2>2, <2>5, SellingMore
    <2>7. Known(venue, ours, protective', position, unprotected', Excused')
      BY <2>2, <2>6 DEF Known
    <2>8. Excused' \in BOOLEAN /\ unprotected' \in BOOLEAN
      BY <1>1, <1>2
    <2>9. closing'.at = "idle"
      BY <1>1, <1>2
    <2>10. QED
      BY <1>1, <1>5, <2>4, <2>7, <2>8, <2>9 DEF GapInv, Gaps
  <1>8. QED
    BY <1>6, <1>7

\* The entry is submitted once, before there is anything to cover.
LEMMA GapSubmitEntry ==
  ASSUME NEW e, Entries = {e}, GapInv(e), BaseInv', SubmitEntry(e)
  PROVE  GapInv(e)'
  <1> DEFINE x == EntryId(e)
  <1>1. /\ closing = Idle /\ x \notin DOMAIN ours
        /\ venue' = Placed(venue, x, Qty) /\ ours' = Acknowledged(ours, x, Qty)
        /\ UNCHANGED <<position, protective, closing, covered, asking, unprotected, Excused>>
    BY DEF SubmitEntry, Accept, Placed, Acknowledged, routerVars, lifeVars, Excused
  <1>2. /\ Accounts(venue, events, ours, tracked, missed, position, protective)
        /\ Sync(venue, events, ours, tracked, missed)
        /\ EntryOf(ours, covered, asking, e)
        /\ unprotected \in BOOLEAN /\ Excused \in BOOLEAN
        /\ Known(venue, ours, protective, position, unprotected, Excused)
        /\ closing.at = "idle"
    BY <1>1 DEF GapInv, Gaps, BaseInv, Idle, Accounts
  <1>3. /\ DOMAIN ours = DOMAIN venue /\ protective \subseteq StopsOf(venue) /\ SameOrders(venue', ours')
    BY <1>2, AccountsFacts DEF BaseInv, Accounts, Sync
  <1>4. StopsOf(ours) = {} /\ covered[e] = 0 /\ asking = NoEntry
    BY <1>1, <1>2 DEF EntryOf
  <1>5. x.kind = "entry" /\ x.entry = e /\ x = EntryId(x.entry)
    BY DEF EntryId
  <1>6. Joins(venue, x, Qty, tracked, tracked \cup {x})
    BY <1>1, <1>3, <1>5, QtyAssumption DEF Joins
  <1> HIDE DEF x
  <1>7. OneMore(venue, venue', x) /\ OneMore(ours, ours', x) /\ IsBook(ours')
    <2>1. /\ OneMore(venue, Placed(venue, x, Qty), x) /\ OneMore(ours, Acknowledged(ours, x, Qty), x)
          /\ IsBook(Acknowledged(ours, x, Qty))
      BY <1>2, <1>6, NewOrder
    <2>2. QED
      BY <1>1, <2>1
  <1>8. StopsOf(venue') = {} /\ StopsOf(ours') = {} /\ protective = {}
    BY <1>3, <1>4, <1>5, <1>7 DEF OneMore, StopsOf
  <1>9. EntryOf(ours', covered, asking, e)
    BY <1>2, <1>4, <1>8 DEF EntryOf
  <1>10. Closes(venue') = Closes(venue) /\ CountedOn(ours', protective) = {} /\ CountedOn(ours, protective) = {}
    BY <1>5, <1>7, <1>8 DEF Closes, OneMore, CountedOn
  <1>11. Solid(venue', ours', protective) = {} /\ Solid(venue, ours, protective) = {} /\ LettingGo(venue') = {}
    BY <1>8, <1>10 DEF Solid, LettingGo
  <1>12. AllSold(ours, Closes(venue)) => AllSold(ours', Closes(venue'))
    <2>1. Total(HeldLess(Acknowledged(ours, x, Qty), Closes(venue)))
            = Total(HeldLess(ours, Closes(venue))) - (IF x.kind # "entry" /\ x \in Closes(venue) THEN Qty ELSE 0)
      BY <1>2, <1>6, SellingNewOrder
    <2>2. Total(HeldLess(ours, Closes(venue))) \in Int
      BY <1>2, AccountsFacts, HeldLessType
    <2>3. QED
      BY <1>1, <1>5, <1>10, <2>1, <2>2 DEF AllSold
  <1>13. Known(venue', ours', protective, position, unprotected, Excused)
    <2>1. Closes(venue) \cup {} = Closes(venue) /\ Closes(venue') \cup {} = Closes(venue')
      OBVIOUS
    <2>2. QED
      BY <1>2, <1>11, <1>12, <2>1 DEF Known
  <1>14. Counted(venue', ours', protective, position, Excused)
    BY <1>10, <1>11 DEF Counted
  <1>15. closing'.at = "idle"
    BY <1>1, <1>2
  <1>16. QED
    BY <1>1, <1>2, <1>9, <1>13, <1>14, <1>15 DEF GapInv, Gaps

\* Asking for a stop leaves no gap unknown: the stop covers all that is not
\* counted on yet, or the gap is recorded with its entry.
LEMMA GapProtect ==
  ASSUME NEW e, Entries = {e}, NEW ev, NEW objects, NEW pos, NEW working, NEW m, NEW ask, NEW exc,
         Accounts(venue, ev, objects, working, m, pos, protective),
         EntryOf(objects, covered, ask, e), covered[e] = 0,
         EntryId(e) \in DOMAIN objects, objects[EntryId(e)].filled > 0,
         Counted(venue, objects, protective, pos, exc),
         Protect(e, objects, pos, working)
  PROVE  /\ EntryOf(ours', covered', asking', e) /\ unprotected' \in BOOLEAN
         /\ Counted(venue', ours', protective', pos, exc)
         /\ Known(venue', ours', protective', pos, unprotected', exc)
  <1> DEFINE more == Increment(e, objects, pos)
             upTo == covered[e] + more
             id == StopOrder(e, upTo)
             S == CountedOn(objects, protective)
  <1>1. /\ DOMAIN objects = DOMAIN venue /\ IsBook(objects) /\ pos \in Int /\ Free(venue) \in Int
        /\ pos = Total(HeldLess(objects, {})) /\ objects[EntryId(e)].filled \in Nat /\ protective \subseteq StopsOf(venue)
        /\ Sync(venue, ev, objects, working, m)
    BY AccountsFacts DEF Accounts
  <1>2. /\ ProtectedQty(objects) \in Nat
        /\ Total(HeldLess(objects, S)) = pos - ProtectedQty(objects)
    BY <1>1, ProtectedIsHeldLess DEF StopsOf, CountedOn
  <1>3. more = pos - ProtectedQty(objects) /\ more \in Int /\ upTo = more
    <2>1. pos <= objects[EntryId(e)].filled
      BY PositionIsBought
    <2>2. QED
      BY <1>1, <1>2, <2>1 DEF Increment, Smaller
  <1>4. \/ /\ more <= 0 /\ unprotected' = FALSE /\ asking' = NoEntry
           /\ ours' = objects /\ UNCHANGED <<venue, covered, protective>>
        \/ /\ unprotected' = TRUE /\ asking' = e
           /\ ours' = objects /\ UNCHANGED <<venue, covered, protective>>
        \/ /\ more > 0 /\ objects[EntryId(e)].complete /\ id \notin DOMAIN venue /\ more <= Free(venue)
           /\ venue' = Placed(venue, id, more) /\ ours' = Acknowledged(objects, id, more)
           /\ unprotected' = FALSE /\ asking' = NoEntry
           /\ covered' = [covered EXCEPT ![e] = upTo] /\ protective' = protective \cup {id}
    BY DEF Protect, NotPlaced, Gap, NoGap, Outcome, Outcomes, Accept, Placed, Acknowledged, routerVars
  <1>5. CASE /\ more <= 0 /\ unprotected' = FALSE /\ asking' = NoEntry
             /\ ours' = objects /\ UNCHANGED <<venue, covered, protective>>
    <2>1. ProtectedQty(objects) < pos => unprotected'
      BY <1>1, <1>2, <1>3, <1>5
    <2>2. Known(venue, objects, protective, pos, unprotected', exc)
      BY ONLY <2>1, NoteGapEnough, Entries = {e}, EntryOf(objects, covered, ask, e),
              Accounts(venue, ev, objects, working, m, pos, protective),
              Counted(venue, objects, protective, pos, exc), SMTT(30)
    <2>3. EntryOf(objects, covered, NoEntry, e)
      BY DEF EntryOf
    <2>4. QED
      BY <1>5, <2>2, <2>3
  <1>6. CASE /\ unprotected' = TRUE /\ asking' = e
             /\ ours' = objects /\ UNCHANGED <<venue, covered, protective>>
    <2>1. EntryOf(objects, covered, e, e)
      BY DEF EntryOf
    <2>2. QED
      BY <1>6, <2>1 DEF Known
  <1>7. CASE /\ more > 0 /\ objects[EntryId(e)].complete /\ id \notin DOMAIN venue /\ more <= Free(venue)
             /\ venue' = Placed(venue, id, more) /\ ours' = Acknowledged(objects, id, more)
             /\ unprotected' = FALSE /\ asking' = NoEntry
             /\ covered' = [covered EXCEPT ![e] = upTo] /\ protective' = protective \cup {id}
    <2>1. id.kind = "stop"
      BY DEF StopOrder, StopId
    <2>2. covered' \in [Entries -> Nat] /\ covered'[e] = more
      BY <1>3, <1>7 DEF EntryOf
    <2>3. /\ more > 0 /\ objects[EntryId(e)].complete /\ id \notin DOMAIN venue /\ more <= Free(venue)
          /\ venue' = Placed(venue, id, more) /\ ours' = Acknowledged(objects, id, more)
          /\ unprotected' = FALSE /\ asking' = NoEntry /\ protective' = protective \cup {id}
      BY <1>7
    <2>4. more = pos - ProtectedQty(objects) /\ more \in Int /\ Total(HeldLess(objects, S)) = more
      BY <1>2, <1>3
    <2> HIDE DEF more, upTo, id, S
    <2>5. Joins(venue, id, more, working, working)
      BY <2>1, <2>3, <2>4 DEF Joins
    <2>6. /\ OneMore(venue, venue', id) /\ OneMore(objects, ours', id) /\ IsBook(ours')
          /\ venue'[id].state = "working" /\ ~ours'[id].complete
      BY <1>1, <2>3, <2>5, NewOrder
    <2>7. EntryOf(ours', covered', NoEntry, e)
      BY <2>2, <2>3, <2>6 DEF EntryOf, OneMore
    <2>8. /\ CountedOn(ours', protective') = S \cup {id}
          /\ Solid(venue', ours', protective') = Solid(venue, objects, protective) \cup {id}
      BY <1>1, <2>3, <2>6 DEF CountedOn, Solid, OneMore, StopsOf, S
    <2>9. Counted(venue', ours', protective', pos, exc)
      BY <2>8 DEF Counted, S
    <2>10. CASE exc \/ pos <= 0
      <3>1. Known(venue', ours', protective', pos, FALSE, exc)
        BY <1>1, <1>2, <2>3, <2>4, <2>10 DEF Known
      <3>2. QED
        BY <2>3, <2>7, <2>9, <3>1
    <2>11. CASE ~exc /\ ~(pos <= 0)
      <3>1. S = Solid(venue, objects, protective)
        BY <2>11 DEF Counted, S
      <3>2. Total(HeldLess(ours', S \cup {id})) = 0
        <4>1. Total(HeldLess(ours', S \cup {id})) = Total(HeldLess(objects, S \cup {id})) - more
          BY <1>1, <2>1, <2>3, <2>5, SellingNewOrder
        <4>2. HeldLess(objects, S \cup {id}) = HeldLess(objects, S)
          BY <1>1, <2>3 DEF HeldLess
        <4>3. QED
          BY <2>4, <4>1, <4>2
      <3>3. AllSold(ours', Closes(venue') \cup Solid(venue', ours', protective'))
        <4>1. AllSold(ours', S \cup {id})
          BY <3>2 DEF AllSold
        <4>2. QED
          BY <2>6, <2>8, <3>1, <4>1, SellingMore
      <3>4. ASSUME NEW x \in LettingGo(venue') PROVE FALSE
        <4>1. x \in StopsOf(venue) /\ venue[x].state = "pending_cancel"
          BY <2>6, <3>4 DEF LettingGo, StopsOf, OneMore
        <4>2. Working(venue, x) /\ x \notin S /\ \A s \in S : s \in DOMAIN venue => venue[s].state \in {"working", "filled"}
          BY <3>1, <4>1 DEF Working, Solid
        <4>3. Free(venue) < Total(HeldLess(objects, S))
          BY ONLY <4>1, <4>2, FreeIsLess, Entries = {e}, EntryOf(objects, covered, ask, e),
                  Accounts(venue, ev, objects, working, m, pos, protective), SMTT(30)
        <4>4. QED
          BY <1>1, <2>3, <2>4, <4>3
      <3>5. Known(venue', ours', protective', pos, FALSE, exc)
        BY <3>3, <3>4 DEF Known
      <3>6. QED
        BY <2>3, <2>7, <2>9, <3>5
    <2>12. QED
      BY <2>10, <2>11
  <1>8. QED
    BY <1>4, <1>5, <1>6, <1>7

LEMMA GapRetryProtection ==
  ASSUME NEW e, Entries = {e}, GapInv(e), BaseInv', RetryProtection
  PROVE  GapInv(e)'
  <1>1. /\ closing = Idle /\ asking # NoEntry /\ Protect(asking, ours, position, tracked)
        /\ UNCHANGED <<position, closing, Excused>>
    BY DEF RetryProtection, lifeVars, Excused
  <1>2. /\ Accounts(venue, events, ours, tracked, missed, position, protective)
        /\ EntryOf(ours, covered, asking, e) /\ asking \in Entries \cup {NoEntry}
        /\ Counted(venue, ours, protective, position, Excused)
        /\ Excused \in BOOLEAN /\ closing.at = "idle"
    BY <1>1 DEF GapInv, Gaps, BaseInv, AskingOf, Idle
  <1>3. /\ asking = e /\ covered \in [Entries -> Nat] /\ covered[e] = 0
        /\ EntryId(e) \in DOMAIN ours /\ ours[EntryId(e)].filled > 0
    BY <1>1, <1>2 DEF EntryOf
  <1>4. /\ EntryOf(ours', covered', asking', e) /\ unprotected' \in BOOLEAN
        /\ Counted(venue', ours', protective', position, Excused)
        /\ Known(venue', ours', protective', position, unprotected', Excused)
    BY <1>1, <1>2, <1>3, GapProtect
  <1>5. QED
    BY <1>1, <1>2, <1>4 DEF GapInv, Gaps

\* An update of the sell x, before and after.
SellUpdate(v, o, p, x) ==
  /\ x \in DOMAIN o /\ x.kind # "entry" /\ SameBut(o, p, x)
  /\ ~o[x].complete /\ p[x].qty = o[x].qty /\ p[x].filled >= o[x].filled
  /\ p[x].complete => p[x].filled = p[x].qty \/ v[x].state = "cancelled"

\* What is counted on stays, but for what is sold in full.
LEMMA SellTaken ==
  ASSUME NEW v, NEW o, IsBook(o), NEW p, IsBook(p), NEW x, SellUpdate(v, o, p, x),
         NEW prot, prot \subseteq StopsOf(o)
  PROVE  /\ AllSold(o, Closes(v) \cup Solid(v, o, prot))
              => AllSold(p, Closes(v) \cup Solid(v, p, prot))
         /\ CountedOn(p, prot) # Solid(v, p, prot) => CountedOn(o, prot) # Solid(v, o, prot)
  <1> DEFINE S == Closes(v) \cup Solid(v, o, prot)
             T == Closes(v) \cup Solid(v, p, prot)
  <1> USE DEF SellUpdate
  <1>1. /\ CountedOn(p, prot) \subseteq CountedOn(o, prot)
        /\ \A s \in CountedOn(o, prot) : s # x => s \in CountedOn(p, prot)
        /\ x \in CountedOn(o, prot) /\ ~p[x].complete => x \in CountedOn(p, prot)
    BY DEF CountedOn, SameBut, StopsOf
  <1>2. /\ \A id : id # x => (id \in S <=> id \in T)
        /\ x \in T => x \in S
        /\ x \in S /\ x \notin T => p[x].filled = p[x].qty
    BY <1>1 DEF Solid
  <1> HIDE DEF S, T
  <1>3. ASSUME NEW id \in DOMAIN o PROVE HeldLess(p, T)[id] <= HeldLess(o, S)[id]
    <2>1. /\ o[id].filled \in Nat /\ o[id].qty \in Nat /\ o[id].filled <= o[id].qty
          /\ p[id].filled \in Nat /\ p[id].qty \in Nat /\ p[id].filled <= p[id].qty
      BY DEF IsBook, SameBut
    <2>2. HeldLess(o, S)[id] = IF id.kind = "entry" THEN o[id].filled
                               ELSE IF id \in S THEN -o[id].qty ELSE -o[id].filled
      BY DEF HeldLess
    <2>3. HeldLess(p, T)[id] = IF id.kind = "entry" THEN p[id].filled
                               ELSE IF id \in T THEN -p[id].qty ELSE -p[id].filled
      BY DEF HeldLess, SameBut
    <2>4. CASE id = x
      BY <1>2, <2>1, <2>2, <2>3, <2>4
    <2>5. CASE id # x
      <3>1. p[id] = o[id]
        BY <2>5 DEF SameBut
      <3>2. QED
        BY <1>2, <2>1, <2>2, <2>3, <2>5, <3>1
    <2>6. QED
      BY <2>4, <2>5
  <1>4. Total(HeldLess(p, T)) <= Total(HeldLess(o, S))
    BY <1>3, HoldsNoMore DEF SameBut
  <1>5. AllSold(o, S) => AllSold(p, T)
    <2>1. Total(HeldLess(p, T)) \in Int /\ Total(HeldLess(o, S)) \in Int
      BY HeldLessType
    <2>2. QED
      BY <1>4, <2>1 DEF AllSold
  <1>6. CountedOn(p, prot) # Solid(v, p, prot) => CountedOn(o, prot) # Solid(v, o, prot)
    BY <1>1 DEF Solid
  <1>7. QED
    BY <1>5, <1>6 DEF S, T

\* What the books are once the first update is taken in.
LEMMA GapTaken ==
  ASSUME NEW e, Entries = {e}, GapInv(e), closing.at = "idle",
         events # <<>>, Head(events).id \in tracked,
         NEW x, x = Head(events).id, NEW objects, objects = Took(ours, events),
         NEW pos, pos = PositionAfter
  PROVE  /\ EntryOf(objects, covered, asking, e)
         /\ Counted(venue, objects, protective, pos, Excused)
         /\ x.kind = "entry" => x = EntryId(e) /\ x \in DOMAIN objects /\ covered[e] = 0
         /\ ~OpensOrAdds(x, objects, pos) => Known(venue, objects, protective, pos, unprotected, Excused)
  <1>1. /\ Accounts(venue, events, ours, tracked, missed, position, protective)
        /\ Sync(venue, events, ours, tracked, missed)
        /\ EntryOf(ours, covered, asking, e)
        /\ Counted(venue, ours, protective, position, Excused)
        /\ Known(venue, ours, protective, position, unprotected, Excused)
    BY DEF GapInv, Gaps, BaseInv, Accounts
  <1>2. /\ SameBut(ours, objects, x) /\ x \in DOMAIN ours /\ ~ours[x].complete
        /\ objects[x].qty = ours[x].qty
        /\ objects[x].filled = ours[x].filled \/ objects[x].filled = ours[x].filled + 1
    BY <1>1, SyncUpdate
  <1>3. objects[x].complete => objects[x].filled = objects[x].qty \/ venue[x].state = "cancelled"
    <2>1. Head(events).what # "fill" => venue[x].state = "cancelled"
      BY <1>1, SyncUpdate
    <2>2. /\ SameOrder(x, venue[x], ours[x]) /\ ours[x] \in OurOrder
      BY <1>1, <1>2, AccountsFacts DEF SameOrder
    <2>3. objects[x] = AfterUpdate(ours[x], Head(events).what)
      BY <1>2 DEF Took
    <2>4. Head(events).what = "fill" =>
            objects[x] = [ours[x] EXCEPT !.filled = ours[x].filled + 1,
                                         !.complete = (ours[x].filled + 1 = ours[x].qty)]
      BY <2>3 DEF AfterUpdate
    <2>5. Head(events).what = "fill" =>
            /\ objects[x].filled = ours[x].filled + 1 /\ objects[x].qty = ours[x].qty
            /\ objects[x].complete = (ours[x].filled + 1 = ours[x].qty)
      BY <2>2, <2>4 DEF OurOrder
    <2>6. QED
      BY <2>1, <2>5
  <1>4. Accounts(venue, Tail(events), objects, StillTracked(ours, events, tracked), missed, pos, protective)
    BY UpdateTaken DEF GapInv
  <1>5. /\ DOMAIN ours = DOMAIN venue /\ IsBook(ours) /\ IsBook(objects) /\ DOMAIN objects = DOMAIN ours
        /\ protective \subseteq StopsOf(ours) /\ StopsOf(venue) = StopsOf(ours) /\ StopsOf(objects) = StopsOf(ours)
        /\ ours[x].filled \in Nat /\ objects[x].filled \in Nat
        /\ position \in Int /\ pos \in Int
        /\ SameOrder(x, venue[x], ours[x])
    <2>1. /\ DOMAIN ours = DOMAIN venue /\ IsBook(ours) /\ protective \subseteq StopsOf(venue)
          /\ position \in Int /\ \A id \in DOMAIN venue : SameOrder(id, venue[id], ours[id]) /\ ours[id].filled \in Nat
      BY <1>1, AccountsFacts
    <2>2. /\ DOMAIN objects = DOMAIN venue /\ IsBook(objects) /\ pos \in Int
          /\ \A id \in DOMAIN venue : objects[id].filled \in Nat
      BY <1>4, AccountsFacts
    <2>3. QED
      BY <1>2, <2>1, <2>2 DEF StopsOf
  <1>6. objects[x].filled >= ours[x].filled
    BY <1>2, <1>5
  <1>7. CASE x.kind = "entry"
    <2>1. x = EntryId(e)
      BY <1>5, <1>7 DEF SameOrder
    <2>2. covered[e] = 0 /\ StopsOf(ours) = {} /\ protective = {}
      BY <1>1, <1>2, <1>5, <2>1 DEF EntryOf
    <2>3. EntryOf(objects, covered, asking, e)
      BY <1>1, <1>2, <1>5, <1>6, <2>1, <2>2 DEF EntryOf
    <2>4. CountedOn(objects, protective) = {} /\ Solid(venue, objects, protective) = {} /\ LettingGo(venue) = {}
      BY <1>5, <2>2 DEF CountedOn, Solid, LettingGo
    <2>5. Counted(venue, objects, protective, pos, Excused)
      BY <2>4 DEF Counted
    <2>6. ASSUME ~OpensOrAdds(x, objects, pos)
          PROVE  Known(venue, objects, protective, pos, unprotected, Excused)
      <3>1. pos <= 0
        <4>1. pos <= objects[x].filled
          BY <1>4, <1>5, <1>2, <2>1, PositionIsBought
        <4>2. QED
          BY <1>5, <1>7, <2>6, <4>1 DEF OpensOrAdds
      <3>2. AllSold(objects, Closes(venue) \cup Solid(venue, objects, protective))
        BY <1>4, <3>1, FlatIsSold
      <3>3. QED
        BY <2>4, <3>2 DEF Known
    <2>7. QED
      BY <1>2, <1>5, <2>1, <2>2, <2>3, <2>5, <2>6
  <1>8. CASE x.kind # "entry"
    <2>1. pos <= position
      BY <1>5, <1>8 DEF PositionAfter
    <2>2. EntryId(e) # x
      BY <1>8 DEF EntryId
    <2>3. EntryId(e) \in DOMAIN ours => objects[EntryId(e)] = ours[EntryId(e)]
      BY <1>2, <2>2 DEF SameBut
    <2>4. EntryOf(objects, covered, asking, e)
      BY <1>1, <1>5, <2>3 DEF EntryOf
    <2>5. /\ AllSold(ours, Closes(venue) \cup Solid(venue, ours, protective))
               => AllSold(objects, Closes(venue) \cup Solid(venue, objects, protective))
          /\ CountedOn(objects, protective) # Solid(venue, objects, protective)
               => CountedOn(ours, protective) # Solid(venue, ours, protective)
      <3>1. SellUpdate(venue, ours, objects, x)
        BY <1>2, <1>3, <1>6, <1>8 DEF SellUpdate
      <3>2. QED
        BY ONLY <1>5, <3>1, SellTaken, SMTT(30)
    <2>6. position <= 0 => pos <= 0
      BY <1>5, <2>1
    <2>7. Counted(venue, objects, protective, pos, Excused)
      BY <1>1, <2>5, <2>6 DEF Counted
    <2>8. Known(venue, objects, protective, pos, unprotected, Excused)
      BY <1>1, <2>5, <2>6 DEF Known
    <2>9. QED
      BY <1>8, <2>4, <2>7, <2>8
  <1>9. QED
    BY <1>7, <1>8

LEMMA GapApplyUpdate ==
  ASSUME NEW e, Entries = {e}, GapInv(e), BaseInv', ApplyUpdate
  PROVE  GapInv(e)'
  <1> DEFINE x == Head(events).id
             objects == Took(ours, events)
             pos == PositionAfter
             working == StillTracked(ours, events, tracked)
             flat == pos = 0 /\ Head(events).what = "fill"
  <1>1. /\ events # <<>> /\ x \in tracked /\ closing.at = "idle" /\ position' = pos
        /\ \/ /\ OpensOrAdds(x, objects, pos) /\ Protect(x.entry, objects, pos, working)
              /\ UNCHANGED <<closing, Excused>>
           \/ /\ ~OpensOrAdds(x, objects, pos) /\ ours' = objects /\ UNCHANGED <<venue, covered, protective>>
              /\ \/ /\ flat /\ unprotected' = FALSE /\ asking' = NoEntry
                    /\ closing' = [at |-> "cancel"] /\ Excused' = FALSE
                 \/ UNCHANGED <<unprotected, asking, closing, Excused>>
    BY DEF ApplyUpdate, Updated, Took, AfterUpdate, StillTracked, PositionAfter, NoGap, Idle, routerVars, Excused
  <1>2. /\ EntryOf(objects, covered, asking, e)
        /\ Counted(venue, objects, protective, pos, Excused)
        /\ x.kind = "entry" => x = EntryId(e) /\ x \in DOMAIN objects /\ covered[e] = 0
        /\ ~OpensOrAdds(x, objects, pos) => Known(venue, objects, protective, pos, unprotected, Excused)
    BY <1>1, GapTaken
  <1>3. /\ Accounts(venue, Tail(events), objects, working, missed, pos, protective)
        /\ unprotected \in BOOLEAN /\ Excused \in BOOLEAN
    BY <1>1, UpdateTaken DEF GapInv, Gaps
  <1> HIDE DEF x, objects, pos, working
  <1>4. CASE /\ OpensOrAdds(x, objects, pos) /\ Protect(x.entry, objects, pos, working)
             /\ UNCHANGED <<closing, Excused>>
    <2>1. /\ x.entry = e /\ EntryId(e) \in DOMAIN objects /\ objects[EntryId(e)].filled > 0 /\ covered[e] = 0
      BY <1>2, <1>4 DEF OpensOrAdds, EntryId
    <2>2. Protect(e, objects, pos, working)
      BY <1>4, <2>1
    <2>3. /\ EntryOf(ours', covered', asking', e) /\ unprotected' \in BOOLEAN
          /\ Counted(venue', ours', protective', pos, Excused)
          /\ Known(venue', ours', protective', pos, unprotected', Excused)
      BY ONLY <1>2, <1>3, <2>1, <2>2, GapProtect, Entries = {e}, SMTT(30)
    <2>4. QED
      BY <1>1, <1>3, <1>4, <2>3 DEF GapInv, Gaps
  <1>5. CASE /\ ours' = objects /\ UNCHANGED <<venue, covered, protective>>
             /\ flat /\ unprotected' = FALSE /\ asking' = NoEntry
             /\ closing' = [at |-> "cancel"] /\ Excused' = FALSE
    <2>1. EntryOf(ours', covered', asking', e)
      BY <1>2, <1>5 DEF EntryOf
    <2>2. Counted(venue', ours', protective', position', Excused') /\ ClosedOut(venue', ours', position')
      BY <1>1, <1>5 DEF Counted, ClosedOut
    <2>3. closing'.at # "idle"
      BY <1>5
    <2>4. QED
      BY <1>5, <2>1, <2>2, <2>3 DEF GapInv, Gaps
  <1>6. CASE /\ ~OpensOrAdds(x, objects, pos) /\ ours' = objects
             /\ UNCHANGED <<venue, covered, protective, unprotected, asking, closing, Excused>>
    BY <1>1, <1>2, <1>3, <1>6 DEF GapInv, Gaps
  <1>7. QED
    BY <1>1, <1>4, <1>5, <1>6

\* Before anything has happened.
LEMMA GapInit ==
  ASSUME NEW e, Entries = {e}, Init
  PROVE  GapInv(e)
  <1>1. /\ venue = <<>> /\ ours = <<>> /\ position = 0 /\ protective = {} /\ closing = [at |-> "idle"]
        /\ covered = [x \in Entries |-> 0] /\ asking = NoEntry
        /\ unprotected = FALSE /\ Excused = FALSE
    BY DEF Init, Idle, Excused
  <1>2. BaseInv
    BY BaseInit
  <1>3. DOMAIN ours = {} /\ DOMAIN venue = {}
    BY <1>1
  <1>4. EntryOf(ours, covered, asking, e)
    BY <1>1, <1>3 DEF EntryOf, StopsOf
  <1>5. Counted(venue, ours, protective, position, Excused)
    BY <1>1 DEF Counted, CountedOn, Solid
  <1>6. AllSold(ours, Closes(venue) \cup Solid(venue, ours, protective))
    BY <1>1, <1>2, FlatIsSold DEF BaseInv
  <1>7. Known(venue, ours, protective, position, unprotected, Excused)
    BY <1>1, <1>6 DEF Known
  <1>8. closing.at = "idle" /\ unprotected \in BOOLEAN /\ Excused \in BOOLEAN
    BY <1>1
  <1>9. QED
    BY <1>2, <1>4, <1>5, <1>7, <1>8 DEF GapInv, Gaps

\* Every step keeps the gaps known.
LEMMA GapStep ==
  ASSUME NEW e, Entries = {e}, GapInv(e), [Next]_vars
  PROVE  GapInv(e)'
  <1>1. BaseInv'
    BY BaseStep DEF GapInv
  <1>2. ASSUME NEW id \in DOMAIN venue, VenueFill(id) \/ VenueCancelled(id) \/ CancelledByOthers(id)
        PROVE  GapInv(e)'
    BY <1>1, <1>2, GapVenueFill, GapVenueCancelled, GapCancelledByOthers
  <1>3. CASE ApplyUpdate
    BY <1>1, <1>3, GapApplyUpdate
  <1>4. CASE CancelProtection
    BY <1>1, <1>4, GapCancelProtection
  <1>5. CASE Release
    BY <1>1, <1>5, GapRelease
  <1>6. CASE Await
    BY <1>1, <1>6, GapAwait
  <1>7. CASE RetryClose
    BY <1>1, <1>7, GapRetryClose
  <1>8. CASE CloseFailed
    BY <1>1, <1>8, GapCloseFailed
  <1>9. ASSUME NEW id, Rearm(id) PROVE GapInv(e)'
    BY <1>1, <1>9, GapRearm
  <1>10. CASE RetryProtection
    BY <1>1, <1>10, GapRetryProtection
  <1>11. CASE EngineStop \/ Exit
    <2>1. position > 0 /\ closing.at = "idle" /\ AttemptClose
      BY <1>11 DEF EngineStop, Exit, Idle
    <2>2. QED
      BY <1>1, <2>1, GapAttemptClose
  <1>12. CASE DropUpdate \/ Market \/ Persist \/ UNCHANGED vars
    <2>1. UNCHANGED <<venue, ours, covered, asking, protective, position, unprotected, Excused, closing>>
      BY <1>12 DEF DropUpdate, Market, Persist, vars, bookVars, routerVars, runnerVars, lifeVars, Excused
    <2>2. QED
      BY <1>1, <2>1 DEF GapInv
  <1>13. CASE Restart
    BY <1>1, <1>13, GapRestart
  <1>14. ASSUME NEW x \in Entries, SubmitEntry(x) PROVE GapInv(e)'
    BY <1>1, <1>14, GapSubmitEntry
  <1>15. QED
    BY <1>2, <1>3, <1>4, <1>5, <1>6, <1>7, <1>8, <1>9, <1>10, <1>11, <1>12, <1>13, <1>14
       DEF Next, VenueStep, OnFillEvent, Continue

\* Shares that no working order would sell are a gap the engine watches.
LEMMA GapIsKnown ==
  ASSUME NEW e, Entries = {e}, GapInv(e)
  PROVE  NakedIsKnown
  <1> DEFINE W == {id \in Ids : id.kind # "entry" /\ venue[id].state = "working"}
             S == CountedOn(ours, protective)
             T == Closes(venue) \cup Solid(venue, ours, protective)
  <1> SUFFICES ASSUME closing = Idle, events = <<>>, ~Excused,
                      SumFunctionOnSet(Left(venue), W) < Held(venue)
               PROVE  unprotected /\ ProtectedQty(ours) < position
    BY DEF NakedIsKnown, StopIsMissing, Excused
  <1>1. /\ Accounts(venue, events, ours, tracked, missed, position, protective)
        /\ Counted(venue, ours, protective, position, Excused)
        /\ Known(venue, ours, protective, position, unprotected, Excused)
    BY DEF GapInv, Gaps, BaseInv, Idle
  <1>2. /\ IsBook(venue) /\ IsBook(ours) /\ DOMAIN ours = DOMAIN venue /\ protective \subseteq StopsOf(venue)
        /\ position \in Int /\ position = Total(HeldLess(ours, {}))
        /\ \A id \in DOMAIN venue : SameOrder(id, venue[id], ours[id])
    BY <1>1, AccountsFacts
  <1>3. W \in SUBSET Sells(venue)
    BY <1>2 DEF Ids, Sells
  <1>4. DOMAIN events = {}
    OBVIOUS
  <1>5. \A id \in DOMAIN venue : id.kind = "entry" => ours[id].filled = venue[id].filled
    BY <1>1, <1>4, UpToDate
  <1>6. ASSUME NEW id \in DOMAIN venue, id.kind # "entry", id \in S \cup T,
               id \in S => id \in Solid(venue, ours, protective)
        PROVE  id \in W \/ venue[id].filled = venue[id].qty
    <2>1. venue[id].state \in {"working", "filled"}
      BY <1>2, <1>6 DEF Closes, Solid, SameOrder
    <2>2. QED
      BY <1>2, <1>6, <2>1 DEF SameOrder, Ids
  <1> HIDE DEF W, S, T
  <1>7. Total(HeldLess(venue, W)) > 0
    <2>1. /\ Total(HeldLess(venue, W)) = Held(venue) - SumFunctionOnSet(Left(venue), W)
          /\ SumFunctionOnSet(Left(venue), W) \in Nat /\ Held(venue) \in Int
      BY <1>2, <1>3, LeftIsHeldLess, HeldAndFree, HeldLessType
    <2>2. QED
      BY <2>1
  <1>8. ASSUME NEW X, \A id \in DOMAIN venue : id.kind # "entry" /\ id \in X => id \in W \/ venue[id].filled = venue[id].qty
        PROVE  Total(HeldLess(ours, X)) > 0
    <2>1. Total(HeldLess(venue, W)) <= Total(HeldLess(ours, X))
      BY ONLY <1>1, <1>5, <1>8, SoldWhole, SMTT(30)
    <2>2. Total(HeldLess(venue, W)) \in Int /\ Total(HeldLess(ours, X)) \in Int
      BY <1>2, HeldLessType
    <2>3. QED
      BY <1>7, <2>1, <2>2
  <1>9. unprotected
    <2>1. ASSUME NEW id \in DOMAIN venue, id \in T, id \in S PROVE id \in Solid(venue, ours, protective)
      BY <1>2, <2>1 DEF T, S, Closes, StopsOf, CountedOn
    <2>2. Total(HeldLess(ours, T)) > 0
      BY <1>6, <1>8, <2>1
    <2>3. Total(HeldLess(ours, T)) \in Int
      BY <1>2, HeldLessType
    <2>4. ~AllSold(ours, T)
      BY <2>2, <2>3 DEF AllSold
    <2>5. QED
      BY <1>1, <2>4 DEF Known, T
  <1>10. position > 0
    <2>1. Total(HeldLess(ours, {})) > 0
      BY <1>8
    <2>2. QED
      BY <1>2, <2>1
  <1>11. ProtectedQty(ours) < position
    <2>1. S = Solid(venue, ours, protective)
      BY <1>1, <1>2, <1>10 DEF Counted, S
    <2>2. Total(HeldLess(ours, S)) > 0
      BY <1>6, <1>8, <2>1
    <2>3. /\ ProtectedQty(ours) \in Nat
          /\ Total(HeldLess(ours, S)) = position - ProtectedQty(ours)
      BY <1>2, ProtectedIsHeldLess DEF StopsOf, CountedOn, S
    <2>4. QED
      BY <1>2, <2>2, <2>3
  <1>12. QED
    BY <1>9, <1>11

\* _stop_is_missing: with one entry, shares that no order of ours would sell are a
\* gap the engine knows of, unless a restart lost the record of it or somebody
\* else cancelled what was to sell them.
THEOREM NakedKnown ==
  ASSUME NEW e, Entries = {e}
  PROVE  Spec => []NakedIsKnown
  <1>1. Init => GapInv(e)
    BY GapInit
  <1>2. GapInv(e) /\ [Next]_vars => GapInv(e)'
    BY GapStep
  <1>3. GapInv(e) => NakedIsKnown
    BY GapIsKnown
  <1>4. QED
    BY <1>1, <1>2, <1>3, PTL DEF Spec
=============================================================================
