-------------------------- MODULE RiskChainProofs --------------------------
(***************************************************************************)
(* Proofs about RiskChain: what is sent keeps to the rate limit, a restart *)
(* renews no allowance, no ceiling traps an exit, and no outcome of the    *)
(* orders in flight exceeds a ceiling.                                     *)
(*                                                                         *)
(* The book is valued by sums over symbols and over orders: what is known  *)
(* of sums is in FoldTheorems.                                              *)
(***************************************************************************)
EXTENDS RiskChain, FoldTheorems

-----------------------------------------------------------------------------
(* Types. *)

\* The library's Min of naturals is their least, and Max of bounded ones their
\* greatest.
LEMMA MinIsLeast ==
  ASSUME NEW S \in SUBSET Nat, S # {}
  PROVE  Min(S) \in S /\ \A m \in S : Min(S) <= m
  <1>1. \E n \in S : \A m \in S : n <= m
    BY LeastNatural
  <1>2. QED
    BY <1>1 DEF Min

\* The greatest of a bounded set.
LEMMA MaxIsGreatest ==
  ASSUME NEW S \in SUBSET Nat, S # {}, NEW bound \in Nat, \A m \in S : m <= bound
  PROVE  Max(S) \in S /\ \A m \in S : m <= Max(S)
  <1> DEFINE below == {n \in Nat : \E m \in S : n = bound - m}
  <1>1. below \in SUBSET Nat /\ below # {}
    <2>1. PICK m \in S : TRUE
      OBVIOUS
    <2>2. m \in Nat /\ bound - m \in Nat
      BY <2>1
    <2>3. QED
      BY <2>1, <2>2
  <1>2. PICK n \in below : \A k \in below : n <= k
    BY <1>1, LeastNatural
  <1>3. PICK top \in S : n = bound - top
    BY <1>2
  <1>4. ASSUME NEW m \in S PROVE m <= top
    <2>1. m \in Nat /\ top \in Nat /\ m <= bound
      OBVIOUS
    <2>2. bound - m \in below
      BY <2>1
    <2>3. n <= bound - m
      BY <1>2, <2>2
    <2>4. QED
      BY <1>3, <2>1, <2>3
  <1>5. QED
    BY <1>4 DEF Max

\* The parts of the book.
LEMMA BookType ==
  TypeOK => /\ book.qty \in [Symbols -> Int] /\ book.mark \in [Symbols -> Nat]
            /\ book.cash \in Int
            /\ \A s \in Symbols : book.qty[s] \in Int /\ book.mark[s] \in Nat
  <1>1. Prices \cup {NoPrice} \subseteq Nat
    BY DataAssumption DEF NoPrice
  <1>2. QED
    BY <1>1 DEF TypeOK

\* The limits are numbers (RiskLimits.__post_init__).
LEMMA LimitTypes ==
  /\ MaxOrdersPerMinute \in Nat /\ 0 < MaxOrdersPerMinute
  /\ MaxPositionPct \in Nat /\ MaxGrossExposurePct \in Nat
  BY LimitsAssumption DEF LegalLimits

\* Equity is an integer.
LEMMA EquityType == TypeOK => Equity(book) \in Int
  <1> SUFFICES ASSUME TypeOK PROVE Equity(book) \in Int
    OBVIOUS
  <1> DEFINE f == [s \in Symbols |-> book.qty[s] * book.mark[s]]
  <1>1. Ints(f, Symbols) /\ DOMAIN f = Symbols /\ book.cash \in Int
    <2>1. \A s \in Symbols : book.qty[s] * book.mark[s] \in Int
      BY BookType
    <2>2. QED
      BY <2>1, BookType DEF Ints
  <1> HIDE DEF f
  <1>2. SumFunctionOnSet(f, Symbols) \in Int
    BY <1>1, SumType, DataAssumption
  <1>3. QED
    BY <1>1, <1>2 DEF Equity, SumFunction, f

\* Dropping what is too old from the front: what remains is a suffix, and nothing
\* inside the window is dropped if the times are in order.
LEMMA WithoutUpToSuffix ==
  ASSUME recent \in Seq(Nat), NEW cutoff \in Int
  PROVE  \/ WithoutUpTo(cutoff) = <<>> /\ \A i \in 1..Len(recent) : ~(recent[i] > cutoff)
         \/ \E m \in 1..Len(recent) :
              /\ WithoutUpTo(cutoff) = SubSeq(recent, m, Len(recent))
              /\ recent[m] > cutoff
              /\ \A i \in 1..(m - 1) : ~(recent[i] > cutoff)
  <1> DEFINE inside == {i \in DOMAIN recent : recent[i] > cutoff}
  <1>1. DOMAIN recent = 1..Len(recent) /\ Len(recent) \in Nat /\ inside \in SUBSET Nat
    OBVIOUS
  <1>2. CASE inside = {}
    <2>1. WithoutUpTo(cutoff) = <<>>
      BY <1>2 DEF WithoutUpTo
    <2>2. QED
      BY <1>1, <1>2, <2>1
  <1>3. CASE inside # {}
    <2>1. Min(inside) \in inside /\ \A m \in inside : Min(inside) <= m
      BY <1>1, <1>3, MinIsLeast
    <2>2. WithoutUpTo(cutoff) = SubSeq(recent, Min(inside), Len(recent))
      BY <1>3 DEF WithoutUpTo
    <2>3. \A i \in 1..(Min(inside) - 1) : ~(recent[i] > cutoff)
      <3> SUFFICES ASSUME NEW i \in 1..(Min(inside) - 1), recent[i] > cutoff PROVE FALSE
        OBVIOUS
      <3>1. Min(inside) \in 1..Len(recent)
        BY <1>1, <2>1
      <3>2. i \in 1..Len(recent) /\ i < Min(inside)
        BY <1>1, <3>1
      <3>3. i \in inside
        BY <1>1, <3>2
      <3> HIDE DEF inside
      <3>4. Min(inside) <= i
        BY <2>1, <3>3
      <3>5. QED
        BY <3>1, <3>2, <3>4
    <2>4. QED
      BY <1>1, <2>1, <2>2, <2>3
  <1>4. QED
    BY <1>2, <1>3

\* What is left of the window is a sequence of times, no longer than it was.
LEMMA StillRecentType ==
  ASSUME recent \in Seq(Nat), clock \in Nat
  PROVE  StillRecent \in Seq(Nat) /\ Len(StillRecent) <= Len(recent)
  <1>1. clock - Minute \in Int
    BY DataAssumption
  <1>2. CASE StillRecent = <<>>
    BY <1>2
  <1>3. ASSUME NEW m \in 1..Len(recent), StillRecent = SubSeq(recent, m, Len(recent))
        PROVE  StillRecent \in Seq(Nat) /\ Len(StillRecent) <= Len(recent)
    <2>1. Len(recent) \in Nat /\ \A i \in m..Len(recent) : recent[i] \in Nat
      OBVIOUS
    <2>2. SubSeq(recent, m, Len(recent)) \in Seq(Nat)
          /\ Len(SubSeq(recent, m, Len(recent))) = Len(recent) - m + 1
      BY <2>1
    <2>3. QED
      BY <1>3, <2>2
  <1>4. QED
    BY <1>1, <1>2, <1>3, WithoutUpToSuffix DEF StillRecent

\* A submission changes nothing but the orders, the rate window and the halt; an
\* order that reaches the venue was approved.
LEMMA SubmitStep ==
  ASSUME NEW o, NEW orders, NEW escalates, Submit(o, orders, escalates)
  PROVE  /\ UNCHANGED <<book, anchorVars, worldVars>>
         /\ recent' = RecentAfter(Validate(o, orders))
         /\ \/ /\ Validate(o, orders) = "approved" /\ VenueTakes(o)
               /\ working' = [id \in DOMAIN working \cup {issued + 1} |->
                                IF id = issued + 1 THEN o ELSE working[id]]
               /\ issued' = issued + 1 /\ sent' = Append(sent, clock)
            \/ UNCHANGED <<working, issued, sent>>
  BY DEF Submit, Route

\* What it does to the halt and to the count of refusals.
LEMMA SubmitHalts ==
  ASSUME NEW o, NEW orders, NEW escalates, Submit(o, orders, escalates)
  PROVE  /\ refusals' \in {0, refusals, refusals + 1}
         /\ \/ UNCHANGED haltVars
            \/ halted' = TRUE /\ unproven' \in {unproven, unproven \cup {o.symbol}}
  <1>1. \A v : Escalate(v) => /\ refusals' \in {0, refusals, refusals + 1}
                              /\ \/ UNCHANGED haltVars
                                 \/ halted' = TRUE /\ unproven' = unproven
    BY DEF Escalate, Engage, haltVars
  <1>2. QED
    BY <1>1 DEF Submit, Route, Engage, haltVars
\* An order of a symbol, and what the strategy's entries are sized to.
LEMMA SizeType == ASSUME TypeOK, NEW e \in Entries PROVE Size(e) \in Int
  <1> DEFINE price == ReferencePrice(e.symbol, book, e.limit)
             equity == Equity(book)
  <1>1. /\ e.symbol \in Symbols /\ e.limit \in Nat /\ e.stop \in Nat /\ e.value \in Nat \ {0}
        /\ e.side \in {1, -1}
    BY DataAssumption
  <1>2. price \in Nat
    BY <1>1, BookType DEF ReferencePrice
  <1>3. equity \in Int
    BY EquityType
  <1>4. ASSUME price # NoPrice PROVE PositionSize(e.method, equity, price, e.stop, e.value) \in Int
    <2>1. price > 0
      BY <1>2, <1>4 DEF NoPrice
    <2> HIDE DEF price, equity
    <2>2. /\ e.value \div price \in Int
          /\ equity * e.value \in Int /\ 100 * price \in Nat /\ 100 * price > 0
      BY <1>1, <1>2, <1>3, <2>1
    <2>3. (equity * e.value) \div (100 * price) \in Int
      BY <2>2
    <2>4. ASSUME e.stop # price
          PROVE  (equity * e.value) \div (100 * Abs(price - e.stop)) \in Int
      <3>1. Abs(price - e.stop) \in Nat /\ Abs(price - e.stop) > 0
        BY <1>1, <1>2, <2>4 DEF Abs
      <3>2. QED
        BY <2>2, <3>1
    <2>5. QED
      BY <1>1, <2>2, <2>3, <2>4 DEF PositionSize
  <1>5. QED
    BY <1>4 DEF Size

\* A submission keeps the types.
LEMMA SubmitType ==
  ASSUME TypeOK, NEW o \in Order, NEW orders, NEW escalates, Submit(o, orders, escalates)
  PROVE  TypeOK'
  <1>1. UNCHANGED <<book, anchorVars, worldVars>>
    BY SubmitStep
  <1>2. /\ refusals' \in Nat /\ halted' \in BOOLEAN /\ unproven' \subseteq Symbols
        /\ (unproven' # {} => halted')
    <2>1. o.symbol \in Symbols
      BY DEF Order
    <2>2. refusals' \in Nat
      <3>1. refusals' \in {0, refusals, refusals + 1}
        BY SubmitHalts
      <3>2. refusals \in Nat
        BY DEF TypeOK
      <3>3. QED
        BY <3>1, <3>2
    <2>3. CASE UNCHANGED haltVars
      BY <2>2, <2>3 DEF haltVars, TypeOK
    <2>4. CASE halted' = TRUE /\ unproven' \in {unproven, unproven \cup {o.symbol}}
      BY <2>1, <2>2, <2>4 DEF TypeOK
    <2>5. QED
      BY <2>3, <2>4, SubmitHalts
  <1>3. recent' \in Seq(Nat)
    <2>1. StillRecent \in Seq(Nat) /\ Append(StillRecent, clock) \in Seq(Nat)
      BY StillRecentType DEF TypeOK
    <2>2. QED
      BY <2>1, SubmitStep DEF RecentAfter, TypeOK
  <1>4. /\ sent' \in Seq(Nat) /\ issued' \in Nat /\ DOMAIN working' \subseteq 1..issued'
        /\ working' \in [DOMAIN working' -> Order]
    <2>1. CASE UNCHANGED <<working, issued, sent>>
      BY <2>1 DEF TypeOK
    <2>2. CASE /\ working' = [id \in DOMAIN working \cup {issued + 1} |->
                                IF id = issued + 1 THEN o ELSE working[id]]
               /\ issued' = issued + 1 /\ sent' = Append(sent, clock)
      <3>1. sent' \in Seq(Nat) /\ issued' \in Nat
        BY <2>2 DEF TypeOK
      <3>2. DOMAIN working' \subseteq 1..issued'
        BY <2>2 DEF TypeOK
      <3>3. working' \in [DOMAIN working' -> Order]
        BY <2>2 DEF TypeOK
      <3>4. QED
        BY <3>1, <3>2, <3>3
    <2>3. QED
      BY <2>1, <2>2, SubmitStep
  <1>5. QED
    BY <1>1, <1>2, <1>3, <1>4 DEF TypeOK, anchorVars, worldVars

\* What closes a holding is an order.
LEMMA ClosingType ==
  ASSUME TypeOK, NEW s \in Symbols, book.qty[s] # 0
  PROVE  Closing(s) \in Order
  <1>1. book.qty[s] \in Int
    BY BookType
  <1>2. QED
    BY <1>1 DEF Closing, Order, Abs, NoPrice

\* An entry is one too.
LEMMA EntryType ==
  ASSUME TypeOK, NEW e \in Entries, Size(e) > 0
  PROVE  [symbol |-> e.symbol, side |-> e.side, qty |-> Size(e), limit |-> e.limit] \in Order
  <1>1. Size(e) \in Nat \ {0}
    BY SizeType
  <1>2. e.symbol \in Symbols /\ e.limit \in Nat /\ e.side \in {1, -1}
    BY DataAssumption
  <1>3. QED
    BY <1>1, <1>2 DEF Order

\* Type correctness, of one step.
LEMMA TypeStep == TypeOK /\ [Next]_vars => TypeOK'
  <1> SUFFICES ASSUME TypeOK, [Next]_vars PROVE TypeOK'
    OBVIOUS
  <1> USE DEF orderVars, haltVars, rateVars, anchorVars, worldVars
  <1>1. ASSUME NEW o \in Entries, Enter(o) PROVE TypeOK'
    BY <1>1, EntryType, SubmitType DEF Enter
  <1>2. ASSUME NEW s \in Symbols, Exit(s) \/ FlattenPosition(s) PROVE TypeOK'
    BY <1>2, ClosingType, SubmitType DEF Exit, FlattenPosition
  <1>3. ASSUME NEW s \in Symbols, Quote(s) PROVE TypeOK'
    <2>1. book' \in [qty : [Symbols -> Int], mark : [Symbols -> Prices \cup {NoPrice}], cash : Int]
      BY <1>3 DEF Quote, TypeOK
    <2>2. QED
      BY <1>3, <2>1 DEF Quote, TypeOK
  <1>4. ASSUME NEW s \in Symbols, GoesStale(s) PROVE TypeOK'
    BY <1>4 DEF GoesStale, TypeOK
  <1>5. ASSUME NEW id \in DOMAIN working, Fill(id) PROVE TypeOK'
    <2> DEFINE o == working[id]
    <2>1. o \in Order /\ o.symbol \in Symbols /\ o.side \in {1, -1} /\ o.qty \in Nat \ {0}
      BY DEF TypeOK, Order
    <2>2. market[o.symbol] \in Prices /\ market[o.symbol] \in Nat
      BY <2>1, DataAssumption DEF TypeOK
    <2>3. book.qty[o.symbol] + o.side \in Int /\ book.cash - o.side * market[o.symbol] \in Int
      BY <2>1, <2>2, BookType
    <2>4. book' \in [qty : [Symbols -> Int], mark : [Symbols -> Prices \cup {NoPrice}], cash : Int]
      BY <1>5, <2>1, <2>2, <2>3 DEF Fill, TypeOK
    <2>5. DOMAIN working' \subseteq DOMAIN working /\ working' \in [DOMAIN working' -> Order]
      <3>1. CASE o.qty = 1
        BY <1>5, <3>1 DEF Fill, TypeOK
      <3>2. CASE o.qty # 1
        <4>1. o.qty - 1 \in Nat \ {0}
          BY <2>1, <3>2
        <4>2. [o EXCEPT !.qty = @ - 1] \in Order
          BY <2>1, <4>1 DEF Order
        <4>3. working' = [working EXCEPT ![id] = [o EXCEPT !.qty = @ - 1]]
          BY <1>5, <3>2 DEF Fill
        <4>4. QED
          BY <4>2, <4>3 DEF TypeOK
      <3>3. QED
        BY <3>1, <3>2
    <2>6. QED
      BY <1>5, <2>4, <2>5 DEF Fill, TypeOK
  <1>6. ASSUME NEW id \in DOMAIN working, Gone(id) PROVE TypeOK'
    BY <1>6 DEF Gone, TypeOK
  <1>7. ASSUME NEW s \in Symbols, NEW p \in Prices, Move(s, p) PROVE TypeOK'
    BY <1>7 DEF Move, TypeOK
  <1>8. ASSUME NEW symbols \in SUBSET Symbols, Halt(symbols) PROVE TypeOK'
    BY <1>8 DEF Halt, Engage, TypeOK
  <1>9. ASSUME Tick PROVE TypeOK'
    BY <1>9 DEF Tick, TypeOK
  <1>10. ASSUME Clear PROVE TypeOK'
    BY <1>10 DEF Clear, TypeOK
  <1>11. ASSUME MarketCloses PROVE TypeOK'
    BY <1>11 DEF MarketCloses, TypeOK
  <1>12. ASSUME MarketOpens PROVE TypeOK'
    BY <1>12 DEF MarketOpens, TypeOK
  <1>13. ASSUME AnchorIfPending PROVE TypeOK'
    <2>1. AnchorEquity \subseteq Int
      BY EquityType DEF AnchorEquity, TypeOK
    <2>2. QED
      BY <1>13, <2>1 DEF AnchorIfPending, AnchorSession, TypeOK
  <1>14. ASSUME Restart PROVE TypeOK'
    BY <1>14 DEF Restart, TypeOK, None
  <1>15. CASE UNCHANGED vars
    BY <1>15 DEF vars, TypeOK
  <1>16. QED
    BY <1>1, <1>2, <1>3, <1>4, <1>5, <1>6, <1>7, <1>8, <1>9, <1>10, <1>11, <1>12, <1>13, <1>14,
       <1>15 DEF Next

\* The type invariant of the chain's state and of the orders at the venue.
THEOREM Typed == Spec => []TypeOK
  <1>1. Init => TypeOK
    <2> SUFFICES ASSUME Init PROVE TypeOK
      OBVIOUS
    <2>1. book \in [qty : [Symbols -> Int], mark : [Symbols -> Prices \cup {NoPrice}], cash : Int]
      BY DataAssumption DEF Init
    <2>2. DOMAIN working = {} /\ working \in [DOMAIN working -> Order]
      BY DEF Init
    <2>3. market \in [Symbols -> Prices]
      BY DataAssumption DEF Init
    <2>4. recent \in Seq(Nat) /\ sent \in Seq(Nat) /\ refusals \in Nat /\ issued \in Nat
      BY DEF Init
    <2>5. /\ halted \in BOOLEAN /\ unproven = {} /\ pending \in BOOLEAN /\ moved \in BOOLEAN
          /\ open \in BOOLEAN /\ stored = {} /\ anchors = {} /\ fresh = {}
      BY DEF Init
    <2>6. anchor \in Int /\ clock \in Nat
      BY DEF Init, None
    <2>7. QED
      BY <2>1, <2>2, <2>3, <2>4, <2>5, <2>6 DEF TypeOK
  <1>2. QED
    BY <1>1, TypeStep, PTL DEF Spec
-----------------------------------------------------------------------------
(* The day's allowance. *)

\* The store holds at most one equity, and the day was anchored at no other.
AnchorInv == anchors \subseteq stored /\ \A e, f \in stored : e = f

\* Every step keeps to the stored anchor.
LEMMA AnchorStep == AnchorInv /\ [Next]_vars => AnchorInv'
  <1> SUFFICES ASSUME AnchorInv, [Next]_vars PROVE AnchorInv'
    OBVIOUS
  <1>1. ASSUME UNCHANGED <<anchors, stored>> PROVE AnchorInv'
    BY <1>1 DEF AnchorInv
  <1>2. CASE AnchorIfPending
    <2>1. CASE UNCHANGED <<stored, anchors>>
      BY <1>1, <2>1
    <2>2. ASSUME NEW equity \in AnchorEquity, stored' = {equity}, anchors' = anchors \cup {equity}
          PROVE  AnchorInv'
      <3>1. CASE stored = {}
        BY <2>2, <3>1 DEF AnchorInv
      <3>2. CASE stored # {}
        BY <2>2, <3>2 DEF AnchorInv, AnchorEquity
      <3>3. QED
        BY <3>1, <3>2
    <2>3. QED
      BY <1>2, <2>1, <2>2 DEF AnchorIfPending
  <1>3. CASE MarketOpens
    BY <1>3 DEF MarketOpens, AnchorInv
  <1>4. ASSUME NEW o, NEW orders, NEW escalates, Submit(o, orders, escalates)
        PROVE  UNCHANGED <<anchors, stored>>
    BY <1>4, SubmitStep DEF anchorVars
  <1>5. CASE UNCHANGED vars
    BY <1>1, <1>5 DEF vars, anchorVars
  <1>6. ASSUME ~MarketOpens, ~AnchorIfPending, Next PROVE UNCHANGED <<anchors, stored>>
    BY <1>4, <1>6 DEF Next, Enter, Exit, FlattenPosition, Quote, GoesStale, Fill, Gone, Move, Halt,
       Tick, Clear, MarketCloses, Restart, anchorVars
  <1>7. QED
    BY <1>1, <1>2, <1>3, <1>5, <1>6

\* A restart renews no allowance: whatever crashes, failed reads and failed writes
\* come between, one session is anchored at one equity while the store holds it.
THEOREM AllowanceIsNotRenewed == Spec => []AllowanceNotRenewed
  <1>1. Init => AnchorInv
    BY DEF Init, AnchorInv
  <1>2. AnchorInv => AllowanceNotRenewed
    <2> SUFFICES ASSUME AnchorInv PROVE AllowanceNotRenewed
      OBVIOUS
    <2>1. CASE anchors = {}
      BY <2>1, FS_EmptySet DEF AllowanceNotRenewed
    <2>2. ASSUME NEW e \in anchors PROVE AllowanceNotRenewed
      <3>1. anchors = {e}
        BY <2>2 DEF AnchorInv
      <3>2. Cardinality({e}) = 1
        BY FS_Singleton
      <3>3. QED
        BY <3>1, <3>2 DEF AllowanceNotRenewed
    <2>3. QED
      BY <2>1, <2>2
  <1>3. QED
    BY <1>1, <1>2, AnchorStep, PTL DEF Spec

-----------------------------------------------------------------------------
(* The rate limit. *)

\* The verdict is the first rule that refuses.
LEMMA VerdictIsFirstRefusal ==
  ASSUME NEW o, NEW orders
  PROVE  LET v == Validate(o, orders)
             b == RiskBooks(orders)
         IN \/ v = "approved" /\ \A i \in 1..9 : Allows(Chain[i], o, b)
            \/ \E i \in 1..9 : /\ v = Chain[i] /\ ~Allows(Chain[i], o, b)
                               /\ \A j \in 1..(i - 1) : Allows(Chain[j], o, b)
  <1> DEFINE b == RiskBooks(orders)
             refusing == {i \in DOMAIN Chain : ~Allows(Chain[i], o, b)}
  <1>1. DOMAIN Chain = 1..9
    BY DEF Chain
  <1>2. CASE refusing = {}
    BY <1>1, <1>2 DEF Validate
  <1>3. CASE refusing # {}
    <2> DEFINE first == Min(refusing)
    <2>1. refusing \in SUBSET Nat
      BY <1>1
    <2>2. first \in refusing /\ \A m \in refusing : first <= m
      BY <1>3, <2>1, MinIsLeast
    <2>3. Validate(o, orders) = Chain[first]
      BY <1>3 DEF Validate
    <2> HIDE DEF first
    <2>4. \A j \in 1..(first - 1) : Allows(Chain[j], o, b)
      <3> SUFFICES ASSUME NEW j \in 1..(first - 1) PROVE j \notin refusing
        BY <1>1, <2>2
      <3>1. first \in 1..9 /\ j \in 1..9 /\ j < first
        BY <1>1, <2>2
      <3> HIDE DEF refusing
      <3>2. QED
        BY <2>2, <3>1
    <2>5. QED
      BY <1>1, <2>2, <2>3, <2>4
  <1>4. QED
    BY <1>2, <1>3

\* Where a sequence of times is after x.
After(seq, x) == {i \in DOMAIN seq : seq[i] > x}

\* It is a finite set, and no more than the whole sequence.
LEMMA AfterIsFinite ==
  ASSUME NEW seq \in Seq(Nat), NEW T \in SUBSET DOMAIN seq
  PROVE  IsFiniteSet(T) /\ Cardinality(T) \in Nat /\ Cardinality(T) <= Len(seq)
  <1>1. DOMAIN seq = 1..Len(seq) /\ Len(seq) \in Nat
    OBVIOUS
  <1>2. IsFiniteSet(1..Len(seq)) /\ Cardinality(1..Len(seq)) = Len(seq)
    <2> DEFINE n == Len(seq)
    <2>1. n \in Nat /\ n \in Int /\ 1 \in Int
      BY <1>1
    <2> HIDE DEF n
    <2>2. IsFiniteSet(1..n) /\ Cardinality(1..n) = IF 1 > n THEN 0 ELSE n - 1 + 1
      BY <2>1, FS_Interval
    <2>3. (IF 1 > n THEN 0 ELSE n - 1 + 1) = n
      BY <2>1
    <2>4. QED
      BY <2>2, <2>3 DEF n
  <1>3. QED
    BY <1>1, <1>2, FS_Subset, FS_CardinalityType

\* One time more.
LEMMA AfterAppend ==
  ASSUME NEW seq \in Seq(Nat), NEW t \in Nat, NEW x \in Int
  PROVE  Cardinality(After(Append(seq, t), x)) = Cardinality(After(seq, x)) + (IF t > x THEN 1 ELSE 0)
  <1>1. /\ DOMAIN Append(seq, t) = 1..(Len(seq) + 1) /\ Append(seq, t)[Len(seq) + 1] = t
        /\ Len(seq) \in Nat /\ DOMAIN seq = 1..Len(seq)
        /\ \A i \in 1..Len(seq) : Append(seq, t)[i] = seq[i]
    OBVIOUS
  <1>2. IsFiniteSet(After(seq, x)) /\ Len(seq) + 1 \notin After(seq, x) /\ Cardinality(After(seq, x)) \in Nat
    <2>1. After(seq, x) \in SUBSET DOMAIN seq
      BY DEF After
    <2>2. QED
      BY <1>1, <2>1, AfterIsFinite
  <1>3. CASE t > x
    <2>1. After(Append(seq, t), x) = After(seq, x) \cup {Len(seq) + 1}
      BY <1>1, <1>3 DEF After
    <2>2. Cardinality(After(seq, x) \cup {Len(seq) + 1}) = Cardinality(After(seq, x)) + 1
      BY <1>2, FS_AddElement
    <2>3. QED
      BY <1>3, <2>1, <2>2
  <1>4. CASE ~(t > x)
    <2>1. After(Append(seq, t), x) = After(seq, x)
      BY <1>1, <1>4 DEF After
    <2>2. QED
      BY <1>2, <1>4, <2>1
  <1>5. QED
    BY <1>3, <1>4

\* What the window drops was not inside it.
LEMMA WindowKeeps ==
  ASSUME recent \in Seq(Nat), clock \in Nat, NEW x \in Int, x >= clock - Minute
  PROVE  Cardinality(After(recent, x)) <= Cardinality(After(StillRecent, x))
  <1>1. clock - Minute \in Int /\ Len(recent) \in Nat /\ DOMAIN recent = 1..Len(recent)
    BY DataAssumption
  <1>2. CASE \A i \in 1..Len(recent) : ~(recent[i] > clock - Minute)
    <2>1. After(recent, x) = {}
      BY <1>1, <1>2 DEF After
    <2>2. After(StillRecent, x) \in SUBSET DOMAIN StillRecent /\ StillRecent \in Seq(Nat)
      BY StillRecentType DEF After
    <2>3. QED
      BY <2>1, <2>2, AfterIsFinite, FS_EmptySet
  <1>3. ASSUME NEW m \in 1..Len(recent), StillRecent = SubSeq(recent, m, Len(recent)),
               \A i \in 1..(m - 1) : ~(recent[i] > clock - Minute)
        PROVE  Cardinality(After(recent, x)) <= Cardinality(After(StillRecent, x))
    <2> DEFINE shift == [i \in After(recent, x) |-> i - m + 1]
    <2>1. /\ DOMAIN StillRecent = 1..(Len(recent) - m + 1)
          /\ \A i \in 1..(Len(recent) - m + 1) : StillRecent[i] = recent[m + i - 1]
      BY <1>1, <1>3
    <2>2. ASSUME NEW i \in After(recent, x)
          PROVE  i \in m..Len(recent) /\ i - m + 1 \in After(StillRecent, x)
      <3>1. i \in 1..Len(recent) /\ recent[i] > x /\ recent[i] \in Nat
        BY <1>1 DEF After
      <3>2. recent[i] > clock - Minute
        BY <1>1, <3>1
      <3>3. ~(i \in 1..(m - 1))
        BY <1>3, <3>2
      <3>4. i \in m..Len(recent)
        BY <1>1, <3>1, <3>3
      <3>5. i - m + 1 \in 1..(Len(recent) - m + 1) /\ m + (i - m + 1) - 1 = i
        BY <1>1, <3>4
      <3>6. StillRecent[i - m + 1] = recent[i]
        BY <2>1, <3>5
      <3>7. QED
        BY <2>1, <3>1, <3>4, <3>5, <3>6 DEF After
    <2>3. shift \in Injection(After(recent, x), After(StillRecent, x))
      <3>1. shift \in [After(recent, x) -> After(StillRecent, x)]
        BY <2>2
      <3>2. \A i, j \in After(recent, x) : shift[i] = shift[j] => i = j
        BY <1>1, <2>2
      <3> HIDE DEF shift
      <3>3. QED
        BY <3>1, <3>2 DEF Injection, IsInjective
    <2>4. IsFiniteSet(After(StillRecent, x))
      <3>1. After(StillRecent, x) \in SUBSET DOMAIN StillRecent /\ StillRecent \in Seq(Nat)
        BY StillRecentType DEF After
      <3>2. QED
        BY <3>1, AfterIsFinite
    <2>5. QED
      BY <2>3, <2>4, FS_Injection
  <1>4. QED
    BY <1>1, <1>2, <1>3, WithoutUpToSuffix DEF StillRecent
\* Inside the window nothing was sent that the rule has not counted.
RateInv ==
  /\ Len(recent) <= MaxOrdersPerMinute
  /\ \A x \in Int :
       x >= clock - Minute => Cardinality(After(sent, x)) <= Cardinality(After(recent, x))

\* An order that the rate limit was asked about and let through found room.
LEMMA RateLimitPassed ==
  ASSUME NEW o, NEW orders,
         Validate(o, orders) \notin {"kill_switch", "trading_hours", "rate_limit"}
  PROVE  Len(StillRecent) < MaxOrdersPerMinute
  <1> DEFINE b == RiskBooks(orders)
  <1>1. Chain[1] = "kill_switch" /\ Chain[2] = "trading_hours" /\ Chain[3] = "rate_limit"
    BY DEF Chain
  <1>2. Allows(Chain[3], o, b)
    <2>1. CASE \A i \in 1..9 : Allows(Chain[i], o, b)
      BY <2>1
    <2>2. ASSUME NEW i \in 1..9, Validate(o, orders) = Chain[i],
                 \A j \in 1..(i - 1) : Allows(Chain[j], o, b)
          PROVE  Allows(Chain[3], o, b)
      <3>1. i # 1 /\ i # 2 /\ i # 3
        BY <1>1, <2>2
      <3>2. 3 \in 1..(i - 1)
        BY <3>1
      <3>3. QED
        BY <2>2, <3>2
    <2>3. QED
      BY <2>1, <2>2, VerdictIsFirstRefusal
  <1>3. QED
    BY <1>1, <1>2 DEF Allows, RateLimitRule

\* A submission keeps the rule's count ahead of what was sent.
LEMMA RateSubmit ==
  ASSUME TypeOK, RateInv, NEW o, NEW orders, NEW escalates, Submit(o, orders, escalates)
  PROVE  RateInv' /\ (sent' = sent \/ sent' = Append(sent, clock))
  <1> DEFINE v == Validate(o, orders)
  <1>1. /\ recent \in Seq(Nat) /\ sent \in Seq(Nat) /\ clock \in Nat /\ Minute \in Nat
        /\ MaxOrdersPerMinute \in Nat /\ Len(recent) \in Nat
        /\ StillRecent \in Seq(Nat) /\ Len(StillRecent) <= Len(recent)
    BY StillRecentType, DataAssumption, LimitTypes DEF TypeOK
  <1>2. clock' = clock /\ recent' = RecentAfter(v)
    BY SubmitStep DEF worldVars
  <1>3. \/ v = "approved" /\ sent' = Append(sent, clock)
        \/ sent' = sent
    BY SubmitStep
  <1>4a. v \notin {"kill_switch", "trading_hours", "rate_limit"} => Len(StillRecent) < MaxOrdersPerMinute
    BY RateLimitPassed
  <1> HIDE DEF v
  <1>4. CASE v \in {"kill_switch", "trading_hours"}
    <2>1. recent' = recent /\ sent' = sent
      BY <1>2, <1>3, <1>4 DEF RecentAfter
    <2>2. QED
      BY <1>2, <2>1 DEF RateInv
  <1>5. CASE v = "rate_limit"
    <2>1. recent' = StillRecent /\ sent' = sent
      BY <1>2, <1>3, <1>5 DEF RecentAfter
    <2>2. Len(recent') <= MaxOrdersPerMinute
      <3>1. Len(StillRecent) \in Nat
        BY <1>1
      <3>2. QED
        BY <1>1, <2>1, <3>1 DEF RateInv
    <2>3. ASSUME NEW x \in Int, x >= clock - Minute
          PROVE  Cardinality(After(sent, x)) <= Cardinality(After(StillRecent, x))
      <3>1. Cardinality(After(sent, x)) <= Cardinality(After(recent, x))
        BY <2>3 DEF RateInv
      <3>2. Cardinality(After(recent, x)) <= Cardinality(After(StillRecent, x))
        BY <1>1, <2>3, WindowKeeps
      <3>3. /\ Cardinality(After(sent, x)) \in Nat /\ Cardinality(After(recent, x)) \in Nat
            /\ Cardinality(After(StillRecent, x)) \in Nat
        BY <1>1, AfterIsFinite DEF After
      <3>4. QED
        BY <3>1, <3>2, <3>3
    <2>4. QED
      BY <1>2, <2>1, <2>2, <2>3 DEF RateInv, After
  <1>6. CASE v \notin {"kill_switch", "trading_hours", "rate_limit"}
    <2>1. recent' = Append(StillRecent, clock)
      BY <1>2, <1>6 DEF RecentAfter
    <2>2. Len(recent') <= MaxOrdersPerMinute
      <3>1. Len(StillRecent) < MaxOrdersPerMinute
        BY <1>6, <1>4a
      <3>2. Len(recent') = Len(StillRecent) + 1 /\ Len(StillRecent) \in Nat
        BY <1>1, <2>1
      <3>3. QED
        BY <1>1, <3>1, <3>2
    <2>3. ASSUME NEW x \in Int, x >= clock - Minute
          PROVE  Cardinality(After(sent', x)) <= Cardinality(After(recent', x))
      <3> DEFINE one == IF clock > x THEN 1 ELSE 0
      <3>1. Cardinality(After(sent, x)) <= Cardinality(After(recent, x))
        BY <2>3 DEF RateInv
      <3>2. Cardinality(After(recent, x)) <= Cardinality(After(StillRecent, x))
        BY <1>1, <2>3, WindowKeeps
      <3>3. /\ Cardinality(After(sent, x)) \in Nat /\ Cardinality(After(recent, x)) \in Nat
            /\ Cardinality(After(StillRecent, x)) \in Nat
        BY <1>1, AfterIsFinite DEF After
      <3>4. Cardinality(After(Append(StillRecent, clock), x)) = Cardinality(After(StillRecent, x)) + one
        BY <1>1, AfterAppend
      <3>5. Cardinality(After(Append(sent, clock), x)) = Cardinality(After(sent, x)) + one
        BY <1>1, AfterAppend
      <3>6. one \in {0, 1}
        OBVIOUS
      <3> HIDE DEF one
      <3>7. CASE sent' = sent
        BY <2>1, <3>1, <3>2, <3>3, <3>4, <3>6, <3>7
      <3>8. CASE sent' = Append(sent, clock)
        BY <2>1, <3>1, <3>2, <3>3, <3>4, <3>5, <3>6, <3>8
      <3>9. QED
        BY <1>3, <3>7, <3>8
    <2>4. QED
      BY <1>2, <1>3, <2>2, <2>3 DEF RateInv, After
  <1>7. QED
    BY <1>3, <1>4, <1>5, <1>6

\* Every step does.
LEMMA RateStep ==
  TypeOK /\ RateInv /\ [Next]_vars =>
    /\ RateInv'
    /\ \/ sent' = <<>>
       \/ clock' = clock /\ (sent' = sent \/ sent' = Append(sent, clock))
       \/ clock' = clock + 1 /\ sent' = sent
  <1> SUFFICES ASSUME TypeOK, RateInv, [Next]_vars
               PROVE  /\ RateInv'
                      /\ \/ sent' = <<>>
                         \/ clock' = clock /\ (sent' = sent \/ sent' = Append(sent, clock))
                         \/ clock' = clock + 1 /\ sent' = sent
    OBVIOUS
  <1>1. ASSUME NEW o, NEW orders, NEW escalates, Submit(o, orders, escalates)
        PROVE  RateInv' /\ clock' = clock /\ (sent' = sent \/ sent' = Append(sent, clock))
    BY <1>1, RateSubmit, SubmitStep DEF worldVars
  <1>2. ASSUME UNCHANGED <<recent, sent, clock>> PROVE RateInv'
    BY <1>2 DEF RateInv
  <1>3. CASE Restart
    <2>1. recent' = <<>> /\ sent' = <<>> /\ clock' = clock
      BY <1>3 DEF Restart
    <2>2. Len(<<>>) <= MaxOrdersPerMinute /\ \A x \in Int : After(<<>>, x) = {}
      BY LimitTypes DEF After
    <2>3. Cardinality({}) <= Cardinality({})
      BY FS_EmptySet
    <2>4. QED
      BY <2>1, <2>2, <2>3 DEF RateInv
  <1>4. CASE Tick
    <2>1. recent' = recent /\ sent' = sent /\ clock' = clock + 1 /\ clock \in Nat /\ Minute \in Nat
      BY <1>4, DataAssumption DEF Tick, rateVars, TypeOK
    <2>2. \A x \in Int : x >= clock' - Minute => x >= clock - Minute
      BY <2>1
    <2>3. RateInv'
      BY <2>1, <2>2 DEF RateInv
    <2>4. QED
      BY <2>1, <2>3
  <1>5. CASE UNCHANGED vars
    BY <1>2, <1>5 DEF vars, rateVars, worldVars
  <1>6. ASSUME ~Restart, ~Tick, Next,
               ~\E o, orders, escalates : Submit(o, orders, escalates)
        PROVE  UNCHANGED <<recent, sent, clock>>
    BY <1>6 DEF Next, Enter, Exit, FlattenPosition, Quote, GoesStale, Fill, Gone, Move, Halt,
       Clear, MarketCloses, MarketOpens, AnchorIfPending, rateVars, worldVars
  <1>7. QED
    BY <1>1, <1>2, <1>3, <1>4, <1>5, <1>6

\* No more of a sequence of times is in a window than another has counted in it.
LEMMA WindowIsCounted ==
  ASSUME NEW seq \in Seq(Nat), NEW counted \in Seq(Nat), NEW t \in Nat,
         Len(counted) <= MaxOrdersPerMinute,
         Cardinality(After(seq, t - Minute)) <= Cardinality(After(counted, t - Minute))
  PROVE  Cardinality({i \in DOMAIN seq : seq[i] \in (t - Minute + 1)..t}) <= MaxOrdersPerMinute
  <1> DEFINE x == t - Minute
             window == {i \in DOMAIN seq : seq[i] \in (t - Minute + 1)..t}
  <1>1. x \in Int /\ MaxOrdersPerMinute \in Nat /\ Len(counted) \in Nat
    BY DataAssumption, LimitTypes
  <1>2. window \in SUBSET After(seq, x)
    BY <1>1, DataAssumption DEF After
  <1>3. /\ IsFiniteSet(After(seq, x)) /\ Cardinality(After(seq, x)) \in Nat
        /\ Cardinality(After(counted, x)) <= Len(counted) /\ Cardinality(After(counted, x)) \in Nat
    BY <1>1, AfterIsFinite DEF After
  <1> HIDE DEF window
  <1>4. Cardinality(window) <= Cardinality(After(seq, x)) /\ Cardinality(window) \in Nat
    BY <1>2, <1>3, FS_Subset, FS_CardinalityType
  <1>5. Cardinality(window) <= MaxOrdersPerMinute
    BY <1>1, <1>3, <1>4
  <1>6. QED
    BY <1>5 DEF window

\* A window that has ended holds what it held, and the present one no more than
\* the rule has counted: no minute holds more orders than the limit allows.
THEOREM RateIsHeld == Spec => []RateHeld
  <1> DEFINE Window(seq, t) == {i \in DOMAIN seq : seq[i] \in (t - Minute + 1)..t}
  <1>2. Init => RateInv /\ RateHeld
    <2> SUFFICES ASSUME Init PROVE RateInv /\ RateHeld
      OBVIOUS
    <2>1. recent = <<>> /\ sent = <<>> /\ \A x : Window(<<>>, x) = {}
      BY DEF Init
    <2>2. Cardinality({}) = 0 /\ MaxOrdersPerMinute \in Nat
      BY FS_EmptySet, LimitTypes
    <2>3. RateInv
      <3>1. Len(<<>>) <= MaxOrdersPerMinute /\ \A x \in Int : After(<<>>, x) = {}
        BY <2>2 DEF After
      <3>2. Cardinality({}) <= Cardinality({})
        BY <2>2
      <3>3. QED
        BY <2>1, <3>1, <3>2 DEF RateInv
    <2>4. \A t \in 0..clock : Cardinality(Window(sent, t)) <= MaxOrdersPerMinute
      BY <2>1, <2>2
    <2>5. QED
      BY <2>3, <2>4 DEF RateHeld
  <1>3. TypeOK /\ RateInv /\ RateHeld /\ [Next]_vars => RateHeld'
    <2> SUFFICES ASSUME TypeOK, RateInv, RateHeld, [Next]_vars, NEW t \in 0..clock'
                 PROVE  Cardinality(Window(sent', t)) <= MaxOrdersPerMinute
      BY DEF RateHeld
    <2>1. RateInv' /\ TypeOK'
      BY RateStep, TypeStep
    <2>2. CASE t >= clock'
      <3>1. /\ t \in Nat /\ t - Minute \in Int /\ t - Minute >= clock' - Minute
            /\ sent' \in Seq(Nat) /\ recent' \in Seq(Nat)
        <4>1. clock' \in Nat /\ sent' \in Seq(Nat) /\ recent' \in Seq(Nat)
          BY <2>1 DEF TypeOK
        <4>2. t \in Nat /\ Minute \in Nat
          BY <4>1, DataAssumption
        <4>3. \A a, b, c \in Nat : a >= b => a - c \in Int /\ a - c >= b - c
          OBVIOUS
        <4>4. t - Minute \in Int /\ t - Minute >= clock' - Minute
          BY ONLY <2>2, <4>1, <4>2, <4>3, Zenon
        <4>5. QED
          BY <4>1, <4>2, <4>4
      <3>2. /\ Len(recent') <= MaxOrdersPerMinute
            /\ Cardinality(After(sent', t - Minute)) <= Cardinality(After(recent', t - Minute))
        BY <2>1, <3>1 DEF RateInv, After
      <3>3. QED
        BY <3>1, <3>2, WindowIsCounted
    <2>3. CASE ~(t >= clock')
      <3>0. clock \in Nat /\ sent \in Seq(Nat) /\ t \in Nat /\ clock' \in Nat
        BY <2>1 DEF TypeOK
      <3>1. CASE sent' = <<>>
        <4>1. Window(<<>>, t) = {}
          OBVIOUS
        <4>2. QED
          BY <3>1, <4>1, FS_EmptySet, LimitTypes
      <3>2. CASE sent' = sent /\ clock' \in {clock, clock + 1}
        <4>1. t \in 0..clock
          BY <2>3, <3>0, <3>2
        <4>2. QED
          BY <3>2, <4>1 DEF RateHeld
      <3>3. CASE clock' = clock /\ sent' = Append(sent, clock)
        <4>1. t \in 0..clock /\ clock \notin (t - Minute + 1)..t
          BY <2>3, <3>0, <3>3, DataAssumption
        <4>2. /\ DOMAIN sent' = 1..(Len(sent) + 1) /\ DOMAIN sent = 1..Len(sent)
              /\ sent'[Len(sent) + 1] = clock /\ Len(sent) \in Nat
              /\ \A i \in 1..Len(sent) : sent'[i] = sent[i]
          BY <3>0, <3>3
        <4>3. Window(sent', t) = Window(sent, t)
          BY <4>1, <4>2
        <4>4. QED
          BY <4>1, <4>3 DEF RateHeld
      <3>4. QED
        BY <3>1, <3>2, <3>3, RateStep
    <2>4. QED
      BY <2>2, <2>3
  <1>4. QED
    BY <1>2, <1>3, RateStep, Typed, PTL DEF Spec
-----------------------------------------------------------------------------
(* Exits. *)

\* What is in flight: finitely many orders.
FinitelyMany(orders) == IsFiniteSet(DOMAIN orders) /\ \A id \in DOMAIN orders : orders[id] \in Order

\* The orders in flight, or none of them, are finitely many orders.
LEMMA OrdersInFlight == TypeOK => \A orders \in {working, NoOrders} : FinitelyMany(orders)
  <1> SUFFICES ASSUME TypeOK PROVE \A orders \in {working, NoOrders} : FinitelyMany(orders)
    OBVIOUS
  <1>1. DOMAIN working \subseteq 1..issued /\ issued \in Nat /\ working \in [DOMAIN working -> Order]
    BY DEF TypeOK
  <1>2. IsFiniteSet(DOMAIN working)
    BY <1>1, FS_Interval, FS_Subset
  <1>3. FinitelyMany(working)
    BY <1>1, <1>2 DEF FinitelyMany
  <1>4. DOMAIN NoOrders = {}
    BY DEF NoOrders
  <1>5. FinitelyMany(NoOrders)
    BY <1>4, FS_EmptySet DEF FinitelyMany
  <1>6. QED
    BY <1>3, <1>5

\* The parts of an order.
LEMMA OrderParts ==
  ASSUME NEW o \in Order
  PROVE  /\ o.symbol \in Symbols /\ o.side \in {1, -1} /\ o.qty \in Nat \ {0} /\ o.limit \in Nat
         /\ Signed(o) \in Int /\ Signed(o) = (IF o.side = 1 THEN o.qty ELSE -o.qty)
  <1>1. o.symbol \in Symbols /\ o.side \in {1, -1} /\ o.qty \in Nat \ {0} /\ o.limit \in Nat
    BY DEF Order
  <1>2. QED
    BY <1>1 DEF Signed

\* An order to close what is held reduces it and does not reverse it.
LEMMA ClosingCloses ==
  ASSUME TypeOK, NEW s \in Symbols, book.qty[s] # 0
  PROVE  /\ Closing(s).symbol = s /\ Reduces(Closing(s), book)
         /\ ClosesWithoutReversing(Closing(s), book)
  <1>1. book.qty[s] \in Int
    BY BookType
  <1>2. /\ Closing(s).symbol = s /\ Closing(s).qty = Abs(book.qty[s])
        /\ Closing(s).side = (IF book.qty[s] > 0 THEN -1 ELSE 1)
    BY DEF Closing
  <1>3. book.qty[s] * Closing(s).side < 0
    BY <1>1, <1>2
  <1>4. Abs(book.qty[s]) <= Abs(book.qty[s])
    BY <1>1 DEF Abs
  <1>5. QED
    BY <1>2, <1>3, <1>4 DEF Reduces, ClosesWithoutReversing

\* The committed book counts no exit, so it holds no less of what is held.
LEMMA CommittedHoldsNoLess ==
  ASSUME TypeOK, NEW orders, FinitelyMany(orders), NEW s \in Symbols
  PROVE  LET held == book.qty[s]
             committed == ProjectPending(book, orders).qty[s]
         IN /\ committed \in Int
            /\ held > 0 => committed >= held
            /\ held < 0 => committed <= held
  <1> DEFINE held == book.qty[s]
             committed == ProjectPending(book, orders).qty[s]
             ids == {id \in DOMAIN orders : ~Reduces(orders[id], book)}
             In == {id \in ids : orders[id].symbol = s}
             signed == [id \in In |-> Signed(orders[id])]
             none == [id \in In |-> 0]
  <1>1. committed = held + SumFunctionOnSet(signed, In) /\ held \in Int
    BY BookType DEF ProjectPending, SumFunction
  <1>2. \A id \in In : /\ orders[id] \in Order /\ Signed(orders[id]) \in Int
                       /\ held > 0 => Signed(orders[id]) >= 0
                       /\ held < 0 => Signed(orders[id]) <= 0
    <2> SUFFICES ASSUME NEW id \in In
                 PROVE  /\ orders[id] \in Order /\ Signed(orders[id]) \in Int
                        /\ held > 0 => Signed(orders[id]) >= 0
                        /\ held < 0 => Signed(orders[id]) <= 0
      OBVIOUS
    <2> DEFINE o == orders[id]
    <2>1. o \in Order /\ o.symbol = s /\ ~(held * o.side < 0)
      BY DEF FinitelyMany, Reduces
    <2>2. o.side \in {1, -1} /\ o.qty \in Nat \ {0} /\ Signed(o) \in Int
          /\ Signed(o) = (IF o.side = 1 THEN o.qty ELSE -o.qty)
      BY <2>1, OrderParts
    <2> HIDE DEF o, held
    <2>3. (held > 0 => o.side = 1) /\ (held < 0 => o.side = -1)
      BY <1>1, <2>1, <2>2
    <2>4. (held > 0 => Signed(o) >= 0) /\ (held < 0 => Signed(o) <= 0)
      BY <2>2, <2>3
    <2>5. QED
      BY <2>1, <2>2, <2>4 DEF o
  <1>3. IsFiniteSet(In)
    BY FS_Subset DEF FinitelyMany
  <1>4. /\ Ints(signed, In) /\ Ints(none, In)
        /\ held > 0 => \A id \in In : none[id] <= signed[id]
        /\ held < 0 => \A id \in In : signed[id] <= none[id]
        /\ \A id \in In : none[id] = 0
    BY <1>2 DEF Ints
  <1> HIDE DEF signed, none, In, held, committed
  <1>5. SumFunctionOnSet(none, In) = 0
    BY <1>3, <1>4, SumOfZeros
  <1>6. SumFunctionOnSet(signed, In) \in Int
    BY <1>3, <1>4, SumType
  <1>7. held > 0 => 0 <= SumFunctionOnSet(signed, In)
    BY <1>3, <1>4, <1>5, SumMonotone
  <1>8. held < 0 => SumFunctionOnSet(signed, In) <= 0
    BY <1>3, <1>4, <1>5, SumMonotone
  <1>9. committed \in Int /\ (held > 0 => committed >= held) /\ (held < 0 => committed <= held)
    BY <1>1, <1>6, <1>7, <1>8
  <1>10. QED
    BY <1>9 DEF held, committed

\* Every rule that could trap a position allows an order that closes into it,
\* whatever else is in flight.
LEMMA ClosingIsAllowed ==
  ASSUME TypeOK, NEW orders, FinitelyMany(orders), NEW s \in Symbols, book.qty[s] # 0
  PROVE  LET o == Closing(s)
             b == RiskBooks(orders)
         IN /\ s \notin unproven => KillSwitchRule(o, b)
            /\ MaxPositionSizeRule(o, b) /\ MaxExposureRule(o, b) /\ MaxOpenPositionsRule(o, b)
            /\ DailyLossLimitRule(o, b) /\ BuyingPowerRule(o, b)
  <1> DEFINE o == Closing(s)
             b == RiskBooks(orders)
  <1>1. b.settled = book /\ b.committed = ProjectPending(book, orders)
    BY DEF RiskBooks
  <1>2. o.symbol = s /\ Reduces(o, b.settled) /\ ClosesWithoutReversing(o, b.settled)
    BY <1>1, ClosingCloses
  <1>3. b.committed.qty[s] # 0
    BY <1>1, BookType, CommittedHoldsNoLess
  <1> HIDE DEF o, b
  <1>4. (s \notin unproven => KillSwitchRule(o, b)) /\ MaxPositionSizeRule(o, b)
    BY <1>2 DEF KillSwitchRule, MaxPositionSizeRule
  <1>5. MaxExposureRule(o, b) /\ MaxOpenPositionsRule(o, b)
    BY <1>2, <1>3 DEF MaxExposureRule, MaxOpenPositionsRule
  <1>6. DailyLossLimitRule(o, b) /\ BuyingPowerRule(o, b)
    BY <1>2 DEF DailyLossLimitRule, BuyingPowerRule
  <1>7. QED
    BY <1>4, <1>5, <1>6 DEF o, b

\* No rule about the size, the loss or the value of the book refuses an order
\* that closes into a holding, and no halt does but one that names its symbol.
THEOREM ExitsAreNeverTrapped == Spec => []ExitsAreNotTrapped
  <1>1. TypeOK => ExitsAreNotTrapped
    <2> SUFFICES ASSUME TypeOK, NEW s \in OpenPositions(book), NEW orders \in {working, NoOrders}
                 PROVE  LET verdict == Validate(Closing(s), orders) IN
                        \/ verdict \in {"approved", "trading_hours", "rate_limit", "stale_data"}
                        \/ verdict = "kill_switch" /\ s \in unproven
      BY DEF ExitsAreNotTrapped
    <2> DEFINE o == Closing(s)
               b == RiskBooks(orders)
               v == Validate(o, orders)
    <2>1. s \in Symbols /\ book.qty[s] # 0
      BY DEF OpenPositions
    <2>2. FinitelyMany(orders)
      BY OrdersInFlight
    <2>3. /\ s \notin unproven => KillSwitchRule(o, b)
          /\ MaxPositionSizeRule(o, b) /\ MaxExposureRule(o, b) /\ MaxOpenPositionsRule(o, b)
          /\ DailyLossLimitRule(o, b) /\ BuyingPowerRule(o, b)
      BY <2>1, <2>2, ClosingIsAllowed
    <2>4. v = "approved" \/ \E i \in 1..9 : v = Chain[i] /\ ~Allows(Chain[i], o, b)
      BY VerdictIsFirstRefusal
    <2> HIDE DEF o, b, v
    <2>5. ASSUME NEW i \in 1..9, v = Chain[i], ~Allows(Chain[i], o, b)
          PROVE  \/ v \in {"trading_hours", "rate_limit", "stale_data"}
                 \/ v = "kill_switch" /\ s \in unproven
      <3>1. CASE i = 1
        BY <2>3, <2>5, <3>1 DEF Chain, Allows
      <3>2. CASE i \in 2..4
        BY <2>5, <3>2 DEF Chain
      <3>3. CASE i \in 5..9
        <4>1. /\ Chain[5] = "max_position_size" /\ Chain[6] = "max_gross_exposure"
              /\ Chain[7] = "max_open_positions" /\ Chain[8] = "daily_loss_limit"
              /\ Chain[9] = "buying_power"
          BY DEF Chain
        <4>2. Allows("max_position_size", o, b) /\ Allows("max_gross_exposure", o, b)
          BY <2>3 DEF Allows
        <4>3. Allows("max_open_positions", o, b)
          BY <2>3 DEF Allows
        <4>4. Allows("daily_loss_limit", o, b) /\ Allows("buying_power", o, b)
          BY <2>3 DEF Allows
        <4>5. i = 5 \/ i = 6 \/ i = 7 \/ i = 8 \/ i = 9
          BY <3>3
        <4>6. QED
          BY <2>5, <4>1, <4>2, <4>3, <4>4, <4>5
      <3>4. QED
        BY <3>1, <3>2, <3>3
    <2>6. QED
      BY <2>4, <2>5 DEF v, o
  <1>2. QED
    BY <1>1, Typed, PTL
-----------------------------------------------------------------------------
(* What the orders in flight can do to one symbol. *)

\* What an order takes part in a sum over the orders of one symbol and side.
Share(o, s, side) == IF o.symbol = s /\ o.side = side THEN o.qty ELSE 0

\* What is in flight, as a sum over all the orders.
LEMMA InFlightIsShares ==
  ASSUME NEW orders, FinitelyMany(orders), NEW s, NEW side
  PROVE  /\ InFlight(s, side, orders)
              = SumFunctionOnSet([id \in DOMAIN orders |-> Share(orders[id], s, side)], DOMAIN orders)
         /\ Ints([id \in DOMAIN orders |-> Share(orders[id], s, side)], DOMAIN orders)
         /\ InFlight(s, side, orders) \in Nat
  <1> DEFINE ids == {id \in DOMAIN orders : orders[id].symbol = s /\ orders[id].side = side}
             quantities == [id \in ids |-> orders[id].qty]
             shares == [id \in DOMAIN orders |-> Share(orders[id], s, side)]
  <1>1. InFlight(s, side, orders) = SumFunctionOnSet(quantities, ids)
    BY DEF InFlight, SumFunction
  <1>2. IsFiniteSet(DOMAIN orders) /\ ids \in SUBSET DOMAIN orders
    BY DEF FinitelyMany
  <1>3. \A id \in DOMAIN orders : orders[id].qty \in Nat
    BY OrderParts DEF FinitelyMany
  <1>4. \A id \in ids : quantities[id] \in Int
    BY <1>3
  <1>5. \A id \in DOMAIN orders : /\ shares[id] = IF id \in ids THEN quantities[id] ELSE 0
                                  /\ shares[id] \in Int /\ shares[id] >= 0
    BY <1>3 DEF Share
  <1> HIDE DEF ids, quantities, shares
  <1>6. SumFunctionOnSet(shares, DOMAIN orders) = SumFunctionOnSet(quantities, ids)
    BY <1>2, <1>4, <1>5, SumOverSubset DEF Ints
  <1>7. Ints(shares, DOMAIN orders)
    BY <1>5 DEF Ints
  <1>8. /\ SumFunctionOnSet(shares, DOMAIN orders) \in Int
        /\ SumFunctionOnSet(shares, DOMAIN orders) >= 0
    BY <1>2, <1>5, <1>7, SumType, SumNonNegative
  <1>9. QED
    BY <1>1, <1>6, <1>7, <1>8 DEF shares

\* Orders with one more, with one less, and with one executed by a unit.
With(orders, new, o) == [id \in DOMAIN orders \cup {new} |-> IF id = new THEN o ELSE orders[id]]
Without(orders, id) == [i \in DOMAIN orders \ {id} |-> orders[i]]
Executed(orders, id) == [orders EXCEPT ![id].qty = @ - 1]

\* An order more in flight.
LEMMA InFlightWith ==
  ASSUME NEW orders, FinitelyMany(orders), NEW new, new \notin DOMAIN orders, NEW o \in Order,
         NEW s, NEW side
  PROVE  /\ FinitelyMany(With(orders, new, o))
         /\ InFlight(s, side, With(orders, new, o)) = InFlight(s, side, orders) + Share(o, s, side)
  <1> DEFINE D == DOMAIN orders
             more == [id \in D \cup {new} |-> IF id = new THEN o ELSE orders[id]]
             before == [id \in D |-> Share(orders[id], s, side)]
             after == [id \in DOMAIN more |-> Share(more[id], s, side)]
  <1>1. DOMAIN more = D \cup {new} /\ IsFiniteSet(D) /\ IsFiniteSet(D \cup {new})
    BY FS_AddElement DEF FinitelyMany
  <1>2. FinitelyMany(more)
    BY <1>1 DEF FinitelyMany
  <1>3. /\ InFlight(s, side, orders) = SumFunctionOnSet(before, D) /\ Ints(before, D)
        /\ InFlight(s, side, more) = SumFunctionOnSet(after, D \cup {new})
        /\ Ints(after, D \cup {new})
    BY <1>1, <1>2, InFlightIsShares
  <1>4. after[new] = Share(o, s, side) /\ \A id \in D : before[id] = after[id]
    OBVIOUS
  <1> HIDE DEF before, after, more, D
  <1>5. new \notin D
    BY DEF D
  <1>6. SumFunctionOnSet(after, D \cup {new}) = after[new] + SumFunctionOnSet(after, D)
    BY <1>1, <1>3, <1>5, SumInsert
  <1>7. SumFunctionOnSet(before, D) = SumFunctionOnSet(after, D)
    BY <1>1, <1>3, <1>4, SumCongruent
  <1>8. SumFunctionOnSet(before, D) \in Int /\ after[new] \in Int
    BY <1>1, <1>3, SumType DEF Ints
  <1>9. InFlight(s, side, more) = InFlight(s, side, orders) + Share(o, s, side)
    BY <1>3, <1>4, <1>6, <1>7, <1>8
  <1>10. QED
    BY <1>2, <1>9 DEF more, D, With

\* An order less.
LEMMA InFlightWithout ==
  ASSUME NEW orders, FinitelyMany(orders), NEW id \in DOMAIN orders, NEW s, NEW side
  PROVE  /\ FinitelyMany(Without(orders, id))
         /\ InFlight(s, side, Without(orders, id)) = InFlight(s, side, orders) - Share(orders[id], s, side)
  <1> DEFINE D == DOMAIN orders
             fewer == [i \in D \ {id} |-> orders[i]]
             before == [i \in D |-> Share(orders[i], s, side)]
             after == [i \in DOMAIN fewer |-> Share(fewer[i], s, side)]
  <1>1. DOMAIN fewer = D \ {id} /\ IsFiniteSet(D) /\ IsFiniteSet(D \ {id})
    BY FS_RemoveElement DEF FinitelyMany
  <1>2. FinitelyMany(fewer)
    BY <1>1 DEF FinitelyMany
  <1>3. /\ InFlight(s, side, orders) = SumFunctionOnSet(before, D) /\ Ints(before, D)
        /\ InFlight(s, side, fewer) = SumFunctionOnSet(after, D \ {id})
        /\ Ints(after, D \ {id})
    BY <1>1, <1>2, InFlightIsShares
  <1>4. before[id] = Share(orders[id], s, side) /\ \A i \in D \ {id} : before[i] = after[i]
    OBVIOUS
  <1> HIDE DEF before, after, fewer
  <1>5. SumFunctionOnSet(before, D) = before[id] + SumFunctionOnSet(before, D \ {id})
    BY <1>1, <1>3, SumRemove
  <1>6. SumFunctionOnSet(after, D \ {id}) = SumFunctionOnSet(before, D \ {id})
    BY <1>1, <1>3, <1>4, SumCongruent
  <1>7. SumFunctionOnSet(after, D \ {id}) \in Int /\ before[id] \in Int
    BY <1>1, <1>3, SumType DEF Ints
  <1>8. InFlight(s, side, fewer) = InFlight(s, side, orders) - Share(orders[id], s, side)
    BY <1>3, <1>4, <1>5, <1>6, <1>7
  <1>9. QED
    BY <1>2, <1>8 DEF fewer, D, Without

\* An order with one unit less to go.
LEMMA InFlightExecuted ==
  ASSUME NEW orders, FinitelyMany(orders), NEW id \in DOMAIN orders, orders[id].qty # 1,
         NEW s, NEW side
  PROVE  LET unit == IF orders[id].symbol = s /\ orders[id].side = side THEN 1 ELSE 0
         IN /\ FinitelyMany(Executed(orders, id))
            /\ InFlight(s, side, Executed(orders, id)) = InFlight(s, side, orders) - unit
  <1> DEFINE D == DOMAIN orders
             less == [orders EXCEPT ![id].qty = @ - 1]
             unit == IF orders[id].symbol = s /\ orders[id].side = side THEN 1 ELSE 0
             before == [i \in D |-> Share(orders[i], s, side)]
             after == [i \in DOMAIN less |-> Share(less[i], s, side)]
  <1>1. DOMAIN less = D /\ IsFiniteSet(D)
    BY DEF FinitelyMany
  <1>2. orders[id] \in Order /\ orders[id].qty \in Nat \ {0}
    BY OrderParts DEF FinitelyMany
  <1>3. /\ less[id].qty = orders[id].qty - 1 /\ less[id].symbol = orders[id].symbol
        /\ less[id].side = orders[id].side /\ less[id] \in Order
        /\ \A i \in D \ {id} : less[i] = orders[i]
    <2>1. less[id] = [orders[id] EXCEPT !.qty = @ - 1]
      BY DEF FinitelyMany
    <2>2. orders[id].qty - 1 \in Nat \ {0}
      BY <1>2
    <2>3. /\ less[id].qty = orders[id].qty - 1 /\ less[id].symbol = orders[id].symbol
          /\ less[id].side = orders[id].side /\ less[id] \in Order
      BY <1>2, <2>1, <2>2 DEF Order
    <2>4. QED
      BY <2>3
  <1>4. FinitelyMany(less)
    BY <1>1, <1>3 DEF FinitelyMany
  <1>5. /\ InFlight(s, side, orders) = SumFunctionOnSet(before, D) /\ Ints(before, D)
        /\ InFlight(s, side, less) = SumFunctionOnSet(after, D) /\ Ints(after, D)
    BY <1>1, <1>4, InFlightIsShares
  <1>6. \A i \in D \ {id} : after[i] = before[i]
    BY <1>1, <1>3
  <1>7. after[id] - before[id] = -unit
    BY <1>1, <1>2, <1>3 DEF Share
  <1> HIDE DEF before, after, less, unit
  <1>8. SumFunctionOnSet(after, D) = SumFunctionOnSet(before, D) + (after[id] - before[id])
    BY <1>1, <1>5, <1>6, SumOneChanged
  <1>9. SumFunctionOnSet(before, D) \in Int /\ unit \in Int
    BY <1>1, <1>5, SumType DEF unit
  <1>10. InFlight(s, side, less) = InFlight(s, side, orders) - unit
    BY <1>5, <1>7, <1>8, <1>9
  <1>11. QED
    BY <1>4, <1>10 DEF less, unit, Executed
-----------------------------------------------------------------------------
(* What the ceilings measure, while no price has moved. *)

\* Marks and limits are at the one price there has been, and what an order is
\* in flight for has been marked.
OnePrice(orders) ==
  /\ \A s \in Symbols : book.mark[s] \in {NoPrice, StartPrice}
  /\ \A id \in DOMAIN orders : /\ book.mark[orders[id].symbol] = StartPrice
                               /\ orders[id].limit \in {NoPrice, StartPrice}

Worth == book.cash + SumFunction([s \in Symbols |-> book.qty[s] * StartPrice])

\* The first price is one.
LEMMA StartPriceType == StartPrice \in Nat /\ StartPrice > 0 /\ StartPrice # NoPrice
  <1>1. StartPrice \in Nat \ {0}
    BY DataAssumption
  <1>2. QED
    BY <1>1 DEF NoPrice

\* Orders in flight pay what they are worth: the committed book, once all of it
\* can be valued, is worth what the settled one is.
LEMMA CommittedWorth ==
  ASSUME TypeOK, NEW orders, FinitelyMany(orders), OnePrice(orders)
  PROVE  LET p == ProjectPending(book, orders)
         IN /\ \A s \in Symbols : p.mark[s] = book.mark[s] /\ p.qty[s] \in Int
            /\ p.cash \in Int
            /\ UnmarkedSymbols(p) = {} =>
                 /\ Equity(p) = Worth
                 /\ \A s \in Symbols : p.qty[s] # 0 => p.mark[s] = StartPrice
  <1> DEFINE p == ProjectPending(book, orders)
             ids == {id \in DOMAIN orders : ~Reduces(orders[id], book)}
             In(s) == {id \in ids : orders[id].symbol = s}
             Price(id) == ReferencePrice(orders[id].symbol, book, orders[id].limit)
             Priced(s) == {id \in In(s) : Price(id) # NoPrice}
             signed == [id \in ids |-> Signed(orders[id])]
             cost == [id \in ids |-> Signed(orders[id]) * Price(id)]
             none == [id \in ids |-> 0]
             key == [id \in ids |-> orders[id].symbol]
             change == [s \in Symbols |-> SumFunctionOnSet(signed, {id \in ids : key[id] = s})]
             held == [s \in Symbols |-> book.qty[s] * StartPrice]
             value == [s \in Symbols |-> p.qty[s] * p.mark[s]]
  <1>1. /\ \A s \in Symbols : p.qty[s] = book.qty[s] + SumFunctionOnSet([id \in In(s) |-> Signed(orders[id])], In(s))
        /\ p.cash = book.cash - SumFunctionOnSet(cost, ids)
    BY DEF ProjectPending, SumFunction
  <1>2. IsFiniteSet(ids) /\ IsFiniteSet(Symbols) /\ \A s : IsFiniteSet(In(s)) /\ In(s) \in SUBSET ids
    BY FS_Subset, DataAssumption DEF FinitelyMany
  <1>3. \A id \in ids : /\ orders[id] \in Order /\ Signed(orders[id]) \in Int
                        /\ orders[id].symbol \in Symbols /\ Price(id) = StartPrice
    <2> SUFFICES ASSUME NEW id \in ids
                 PROVE  /\ orders[id] \in Order /\ Signed(orders[id]) \in Int
                        /\ orders[id].symbol \in Symbols /\ Price(id) = StartPrice
      OBVIOUS
    <2>1. orders[id] \in Order
      BY DEF FinitelyMany
    <2>2. Price(id) = StartPrice
      BY DEF OnePrice, ReferencePrice
    <2>3. QED
      BY <2>1, <2>2, OrderParts
  <1>4. \A s \in Symbols : p.mark[s] = book.mark[s]
    <2> SUFFICES ASSUME NEW s \in Symbols PROVE p.mark[s] = book.mark[s]
      OBVIOUS
    <2>1. p.mark[s] = IF book.mark[s] = NoPrice /\ Priced(s) # {} THEN Price(Min(Priced(s))) ELSE book.mark[s]
      BY DEF ProjectPending
    <2>2. Priced(s) # {} => book.mark[s] = StartPrice
      BY DEF OnePrice
    <2>3. QED
      BY <2>1, <2>2, StartPriceType
  <1>5. \A s \in Symbols : /\ change[s] = SumFunctionOnSet([id \in In(s) |-> Signed(orders[id])], In(s))
                           /\ change[s] \in Int
    <2> SUFFICES ASSUME NEW s \in Symbols
                 PROVE  /\ change[s] = SumFunctionOnSet([id \in In(s) |-> Signed(orders[id])], In(s))
                        /\ change[s] \in Int
      OBVIOUS
    <2> DEFINE part == [id \in In(s) |-> Signed(orders[id])]
    <2>1. {id \in ids : key[id] = s} = In(s)
      OBVIOUS
    <2>2. Ints(signed, In(s)) /\ \A id \in In(s) : signed[id] = part[id]
      BY <1>3 DEF Ints
    <2>3. change[s] = SumFunctionOnSet(signed, In(s))
      BY <2>1
    <2> HIDE DEF part, signed, In, change
    <2>4. SumFunctionOnSet(signed, In(s)) = SumFunctionOnSet(part, In(s))
      BY <1>2, <2>2, SumCongruent
    <2>5. SumFunctionOnSet(signed, In(s)) \in Int
      BY <1>2, <2>2, SumType
    <2>6. QED
      BY <2>3, <2>4, <2>5 DEF part
  <1>6. Ints(signed, ids) /\ Ints(none, ids) /\ \A id \in ids : none[id] = 0
    BY <1>3 DEF Ints
  <1>7. \A id \in ids : cost[id] = none[id] + StartPrice * signed[id]
    <2> SUFFICES ASSUME NEW id \in ids PROVE cost[id] = none[id] + StartPrice * signed[id]
      OBVIOUS
    <2>1. cost[id] = Signed(orders[id]) * StartPrice /\ signed[id] = Signed(orders[id])
          /\ none[id] = 0 /\ Signed(orders[id]) \in Int
      BY <1>3
    <2>2. \A a, b \in Int : a * b = 0 + b * a
      OBVIOUS
    <2>3. QED
      BY <2>1, <2>2, StartPriceType
  <1>8. key \in [ids -> Symbols]
    BY <1>3
  <1>9. /\ Ints(held, Symbols) /\ Ints(change, Symbols)
        /\ \A s \in Symbols : p.qty[s] = book.qty[s] + change[s] /\ p.qty[s] \in Int
    <2>1. \A s \in Symbols : book.qty[s] \in Int
      BY BookType
    <2>2. \A s \in Symbols : p.qty[s] = book.qty[s] + change[s] /\ p.qty[s] \in Int
      <3> SUFFICES ASSUME NEW s \in Symbols
                   PROVE  p.qty[s] = book.qty[s] + change[s] /\ p.qty[s] \in Int
        OBVIOUS
      <3> DEFINE sum == SumFunctionOnSet([id \in In(s) |-> Signed(orders[id])], In(s))
      <3>1. p.qty[s] = book.qty[s] + sum /\ change[s] = sum /\ change[s] \in Int
        BY <1>1, <1>5
      <3> HIDE DEF sum, change, p
      <3>2. QED
        BY <2>1, <3>1
    <2>3. Ints(change, Symbols)
      BY <1>5 DEF Ints
    <2>4. Ints(held, Symbols)
      BY <2>1, StartPriceType DEF Ints
    <2>5. QED
      BY <2>2, <2>3, <2>4
  <1>10. Worth = book.cash + SumFunctionOnSet(held, Symbols)
    BY DEF Worth, SumFunction
  <1>11. Equity(p) = p.cash + SumFunctionOnSet(value, Symbols)
    BY DEF Equity, SumFunction
  <1>12. UnmarkedSymbols(p) = {} =>
           \A s \in Symbols : p.qty[s] # 0 => p.mark[s] = StartPrice
    <2> SUFFICES ASSUME UnmarkedSymbols(p) = {}, NEW s \in Symbols, p.qty[s] # 0
                 PROVE  p.mark[s] = StartPrice
      OBVIOUS
    <2>1. p.mark[s] # NoPrice
      BY DEF UnmarkedSymbols, OpenPositions
    <2>2. QED
      BY <1>4, <2>1 DEF OnePrice
  <1>13. UnmarkedSymbols(p) = {} => \A s \in Symbols : value[s] = held[s] + StartPrice * change[s]
    <2> SUFFICES ASSUME UnmarkedSymbols(p) = {}, NEW s \in Symbols
                 PROVE  value[s] = held[s] + StartPrice * change[s]
      OBVIOUS
    <2>1. /\ value[s] = p.qty[s] * p.mark[s] /\ held[s] = book.qty[s] * StartPrice
          /\ p.qty[s] # 0 => p.mark[s] = StartPrice
          /\ p.mark[s] \in {NoPrice, StartPrice}
      BY <1>4, <1>12 DEF OnePrice
    <2>2. book.qty[s] \in Int /\ change[s] \in Int /\ p.qty[s] = book.qty[s] + change[s]
      BY <1>5, <1>9, BookType
    <2> HIDE DEF value, held, change, p
    <2>3. value[s] = p.qty[s] * StartPrice
      BY <2>1, <2>2, StartPriceType DEF NoPrice
    <2>4. \A a, b, c \in Int : (a + b) * c = a * c + c * b
      OBVIOUS
    <2>5. QED
      BY <2>1, <2>2, <2>3, <2>4, StartPriceType
  <1> HIDE DEF p, ids, signed, cost, none, key, change, held, value
  <1>14. SumFunctionOnSet(none, ids) = 0 /\ SumFunctionOnSet(signed, ids) \in Int
    BY <1>2, <1>6, SumOfZeros, SumType
  <1>15. SumFunctionOnSet(cost, ids)
           = SumFunctionOnSet(none, ids) + StartPrice * SumFunctionOnSet(signed, ids)
    BY <1>2, <1>6, <1>7, StartPriceType, SumLinear
  <1>16. SumFunctionOnSet(change, Symbols) = SumFunctionOnSet(signed, ids)
    BY <1>2, <1>6, <1>8, SumByClass DEF change
  <1>17. SumFunctionOnSet(held, Symbols) \in Int
    BY <1>2, <1>9, SumType
  <1>18. UnmarkedSymbols(p) = {} =>
           SumFunctionOnSet(value, Symbols)
             = SumFunctionOnSet(held, Symbols) + StartPrice * SumFunctionOnSet(change, Symbols)
    BY <1>2, <1>9, <1>13, StartPriceType, SumLinear
  <1>19. p.cash = book.cash - StartPrice * SumFunctionOnSet(signed, ids) /\ book.cash \in Int
         /\ StartPrice * SumFunctionOnSet(signed, ids) \in Int
    BY <1>1, <1>14, <1>15, BookType, StartPriceType
  <1>20. UnmarkedSymbols(p) = {} => Equity(p) = Worth
    <2>1. \A a, b, c \in Int : (a - b) + (c + b) = a + c
      OBVIOUS
    <2>2. QED
      BY <1>10, <1>11, <1>16, <1>17, <1>18, <1>19, <2>1
  <1>21. p.cash \in Int
    BY <1>19
  <1>22. QED
    BY <1>4, <1>9, <1>12, <1>20, <1>21 DEF p
\* The ends of what the orders in flight can leave of a symbol, and the larger.
Low(s) == book.qty[s] - InFlight(s, -1, working)
High(s) == book.qty[s] + InFlight(s, 1, working)
Larger(m, n) == IF m <= n THEN n ELSE m
Furthest(s) == Larger(Abs(Low(s)), Abs(High(s)))

\* The magnitude of an integer.
LEMMA AbsType == \A n \in Int : Abs(n) \in Nat /\ n <= Abs(n) /\ -n <= Abs(n)
  BY DEF Abs

\* The magnitude of a multiple.
LEMMA AbsScaled ==
  \A m \in Int, n \in Nat : n > 0 => Abs(m * n) = Abs(m) * n /\ Abs(m) * n \in Int
  <1> SUFFICES ASSUME NEW m \in Int, NEW n \in Nat, n > 0
               PROVE  Abs(m * n) = Abs(m) * n /\ Abs(m) * n \in Int
    OBVIOUS
  <1>1. CASE m < 0
    <2>1. m * n < 0 /\ -(m * n) = (-m) * n /\ (-m) * n \in Int
      BY <1>1
    <2>2. QED
      BY <1>1, <2>1 DEF Abs
  <1>2. CASE m >= 0
    <2>1. m * n >= 0 /\ m * n \in Int
      BY <1>2
    <2>2. QED
      BY <1>2, <2>1 DEF Abs
  <1>3. QED
    BY <1>1, <1>2

\* The account at boot has a worth.
LEMMA StartWorthType == StartWorth \in Int
  <1> DEFINE held == [s \in Symbols |-> StartQty[s] * StartPrice]
  <1>1. IsFiniteSet(Symbols) /\ StartCash \in Int /\ \A s \in Symbols : StartQty[s] \in Int
    BY DataAssumption
  <1>2. Ints(held, Symbols) /\ StartWorth = StartCash + SumFunctionOnSet(held, Symbols)
    BY <1>1, StartPriceType DEF Ints, StartWorth, SumFunction
  <1> HIDE DEF held
  <1>3. QED
    BY <1>1, <1>2, SumType

\* The interval is around what is held, and its furthest end is a number.
LEMMA EndsType ==
  ASSUME TypeOK, NEW s \in Symbols
  PROVE  /\ Low(s) \in Int /\ High(s) \in Int /\ Low(s) <= book.qty[s] /\ book.qty[s] <= High(s)
         /\ Furthest(s) \in Nat /\ Abs(book.qty[s]) <= Furthest(s)
         /\ Abs(Low(s)) <= Furthest(s) /\ Abs(High(s)) <= Furthest(s)
  <1>1. book.qty[s] \in Int /\ InFlight(s, 1, working) \in Nat /\ InFlight(s, -1, working) \in Nat
    BY BookType, OrdersInFlight, InFlightIsShares
  <1>2. Low(s) \in Int /\ High(s) \in Int /\ Low(s) <= book.qty[s] /\ book.qty[s] <= High(s)
    BY <1>1 DEF Low, High
  <1>3. QED
    BY <1>1, <1>2 DEF Furthest, Larger, Abs

\* Inside an interval no position is larger than at the further end.
LEMMA InsideInterval ==
  ASSUME NEW low \in Int, NEW high \in Int, NEW q \in Int, low <= q, q <= high
  PROVE  Abs(q) <= Larger(Abs(low), Abs(high))
  BY DEF Larger, Abs

\* The worst outcome of a symbol is one of the two ends.
LEMMA WorstIsFurthest ==
  ASSUME TypeOK, NEW s \in Symbols
  PROVE  Worst(s) = Furthest(s) * book.mark[s]
  <1> DEFINE sizes == {Abs(q) : q \in Outcomes(s)}
  <1>1. Low(s) \in Int /\ High(s) \in Int /\ Low(s) <= High(s) /\ Furthest(s) \in Nat
    BY EndsType, BookType
  <1>2. Outcomes(s) = Low(s)..High(s)
    BY DEF Outcomes, Low, High
  <1>3. \A m \in sizes : m \in Nat /\ m <= Furthest(s)
    BY <1>1, <1>2, InsideInterval, AbsType DEF Furthest
  <1>4. Furthest(s) \in sizes
    BY <1>1, <1>2 DEF Furthest, Larger
  <1> HIDE DEF sizes
  <1>5. Max(sizes) \in sizes /\ \A m \in sizes : m <= Max(sizes)
    BY <1>1, <1>3, <1>4, MaxIsGreatest
  <1>6. Max(sizes) = Furthest(s)
    BY <1>1, <1>3, <1>4, <1>5
  <1>7. QED
    BY <1>6 DEF Worst, sizes

\* The largest of four magnitudes is none less than any.
LEMMA MaxOfFour ==
  ASSUME NEW a \in Nat, NEW b \in Nat, NEW c \in Nat, NEW d \in Nat
  PROVE  /\ Max({a, b, c, d}) \in Nat
         /\ a <= Max({a, b, c, d}) /\ b <= Max({a, b, c, d}) /\ c <= Max({a, b, c, d})
  <1> DEFINE S == {a, b, c, d}
  <1>1. S \in SUBSET Nat /\ S # {} /\ a + b + c + d \in Nat /\ \A m \in S : m <= a + b + c + d
    OBVIOUS
  <1>2. a \in S /\ b \in S /\ c \in S
    OBVIOUS
  <1> HIDE DEF S
  <1>3. Max(S) \in S /\ \A m \in S : m <= Max(S)
    BY <1>1, MaxIsGreatest
  <1>4. QED
    BY <1>1, <1>2, <1>3 DEF S

\* What the ceilings measure is none less than either end of the interval, and
\* with the order at hand none less than either end moved by it.
LEMMA ProducibleEnds ==
  ASSUME TypeOK, OnePrice(working), NEW s \in Symbols
  PROVE  LET b == RiskBooks(working)
         IN /\ WorstMagnitude(s, b) \in Nat /\ Furthest(s) <= WorstMagnitude(s, b)
            /\ \A o \in Order : o.symbol = s =>
                 /\ WorstResulting(o, b) \in Nat
                 /\ Abs(Low(s) + Signed(o)) <= WorstResulting(o, b)
                 /\ Abs(High(s) + Signed(o)) <= WorstResulting(o, b)
  <1> DEFINE b == RiskBooks(working)
             committed == b.committed.qty[s]
             held == book.qty[s]
  <1>1. b.settled = book /\ b.buys[s] = InFlight(s, 1, working) /\ b.sells[s] = InFlight(s, -1, working)
        /\ b.committed = ProjectPending(book, working)
    BY DEF RiskBooks
  <1>2. committed \in Int /\ held \in Int /\ Low(s) \in Int /\ High(s) \in Int
    BY <1>1, EndsType, BookType, CommittedWorth, OrdersInFlight
  <1>3. Producible(s, b) = {held, High(s), Low(s), committed}
    BY <1>1 DEF Producible, Low, High
  <1> HIDE DEF b, committed, held
  <1>4. /\ Abs(held) \in Nat /\ Abs(High(s)) \in Nat /\ Abs(Low(s)) \in Nat /\ Abs(committed) \in Nat
    BY <1>2, AbsType
  <1>5. {Abs(q) : q \in Producible(s, b)} = {Abs(held), Abs(High(s)), Abs(Low(s)), Abs(committed)}
    BY <1>3
  <1>6. WorstMagnitude(s, b) \in Nat /\ Furthest(s) <= WorstMagnitude(s, b)
    BY <1>4, <1>5, MaxOfFour DEF WorstMagnitude, Furthest, Larger
  <1>7. ASSUME NEW o \in Order, o.symbol = s
        PROVE  /\ WorstResulting(o, b) \in Nat
               /\ Abs(Low(s) + Signed(o)) <= WorstResulting(o, b)
               /\ Abs(High(s) + Signed(o)) <= WorstResulting(o, b)
    <2>1. Signed(o) \in Int
      BY OrderParts
    <2> DEFINE x == Signed(o)
    <2> HIDE DEF x
    <2>2. /\ Abs(held + x) \in Nat /\ Abs(High(s) + x) \in Nat /\ Abs(Low(s) + x) \in Nat
          /\ Abs(committed + x) \in Nat
      BY <1>2, <2>1, AbsType DEF x
    <2>3. {Abs(q + x) : q \in Producible(s, b)}
            = {Abs(held + x), Abs(High(s) + x), Abs(Low(s) + x), Abs(committed + x)}
      BY <1>3
    <2>4. WorstResulting(o, b) = Max({Abs(q + x) : q \in Producible(s, b)})
      BY <1>7 DEF WorstResulting, x
    <2> DEFINE largest == Max({Abs(held + x), Abs(High(s) + x), Abs(Low(s) + x), Abs(committed + x)})
    <2>5. largest \in Nat /\ Abs(High(s) + x) <= largest /\ Abs(Low(s) + x) <= largest
      BY <2>2, MaxOfFour
    <2>6. WorstResulting(o, b) = largest
      BY <2>3, <2>4
    <2>7. QED
      BY <2>5, <2>6 DEF x
  <1>8. QED
    BY <1>6, <1>7 DEF b

\* An order that was approved was allowed by every rule.
LEMMA ApprovedByAll ==
  ASSUME NEW o, NEW orders, Validate(o, orders) = "approved"
  PROVE  LET b == RiskBooks(orders)
         IN /\ StaleDataRule(o) /\ MaxPositionSizeRule(o, b) /\ MaxExposureRule(o, b)
  <1> DEFINE b == RiskBooks(orders)
  <1>1. \A i \in 1..9 : Allows(Chain[i], o, b)
    <2>1. \A i \in 1..9 : Chain[i] # "approved"
      BY DEF Chain
    <2>2. QED
      BY <2>1, VerdictIsFirstRefusal
  <1>2. Chain[4] = "stale_data" /\ Chain[5] = "max_position_size" /\ Chain[6] = "max_gross_exposure"
    BY DEF Chain
  <1>3. Allows("stale_data", o, b) /\ Allows("max_position_size", o, b)
        /\ Allows("max_gross_exposure", o, b)
    BY <1>1, <1>2
  <1> HIDE DEF b
  <1>4. StaleDataRule(o)
    BY <1>3 DEF Allows
  <1>5. MaxPositionSizeRule(o, b)
    BY <1>3 DEF Allows
  <1>6. MaxExposureRule(o, b)
    BY <1>3 DEF Allows
  <1>7. QED
    BY <1>4, <1>5, <1>6 DEF b
\* What the exposure ceiling counts for a symbol other than the order's own is
\* none less than its furthest end, at the market.
LEMMA CountedElsewhere ==
  ASSUME TypeOK, OnePrice(working), NEW s \in Symbols, NEW counted,
         LET b == RiskBooks(working)
             c == b.committed.qty[s]
             extra == WorstMagnitude(s, b) - Abs(c)
         IN /\ c # 0 => b.committed.mark[s] = StartPrice
            /\ counted = (b.buys[s] + b.sells[s] > 0 /\ extra > 0)
            /\ counted => b.committed.mark[s] = StartPrice
  PROVE  LET b == RiskBooks(working)
             c == b.committed.qty[s]
             extra == WorstMagnitude(s, b) - Abs(c)
             mark == b.committed.mark[s]
         IN /\ Abs(c * mark) = Abs(c) * StartPrice
            /\ extra * mark \in Int
            /\ Furthest(s) * StartPrice <= Abs(c * mark) + (IF counted THEN extra * mark ELSE 0)
  <1> DEFINE b == RiskBooks(working)
             c == b.committed.qty[s]
             mark == b.committed.mark[s]
             wm == WorstMagnitude(s, b)
             extra == wm - Abs(c)
             held == book.qty[s]
  <1>1. /\ b.buys[s] = InFlight(s, 1, working) /\ b.sells[s] = InFlight(s, -1, working)
        /\ b.committed = ProjectPending(book, working)
    BY DEF RiskBooks
  <1>2. /\ InFlight(s, 1, working) \in Nat /\ InFlight(s, -1, working) \in Nat
        /\ FinitelyMany(working)
    BY OrdersInFlight, InFlightIsShares
  <1>3. /\ c \in Int /\ held \in Int /\ mark = book.mark[s] /\ mark \in Nat
        /\ held > 0 => c >= held
        /\ held < 0 => c <= held
    BY <1>1, <1>2, BookType, CommittedWorth, CommittedHoldsNoLess
  <1>4. wm \in Nat /\ Furthest(s) \in Nat /\ Furthest(s) <= wm
    BY ProducibleEnds, EndsType
  <1>5. /\ c # 0 => mark = StartPrice
        /\ counted = (b.buys[s] + b.sells[s] > 0 /\ extra > 0)
        /\ counted => mark = StartPrice
    OBVIOUS
  <1>6. b.buys[s] + b.sells[s] > 0 \/ Furthest(s) = Abs(held)
    BY <1>1, <1>2, <1>3 DEF Furthest, Larger, Low, High
  <1> HIDE DEF b, c, mark, wm, held
  <1>7. Abs(held) <= Abs(c) /\ Abs(c) \in Nat
    BY <1>3 DEF Abs
  <1>8. Abs(c * mark) = Abs(c) * StartPrice
    <2>1. CASE c = 0
      BY <1>3, <2>1, StartPriceType DEF Abs
    <2>2. CASE c # 0
      <3>1. mark = StartPrice /\ StartPrice \in Nat /\ StartPrice > 0
        BY <1>5, <2>2, StartPriceType
      <3>2. QED
        BY <1>3, <3>1, AbsScaled
    <2>3. QED
      BY <2>1, <2>2
  <1>9. extra \in Int /\ extra * mark \in Int
    BY <1>3, <1>4, <1>7
  <1>10. \A m, n \in Nat : m <= n => m * StartPrice <= n * StartPrice
    BY StartPriceType
  <1>11. Furthest(s) * StartPrice <= Abs(c) * StartPrice + (IF counted THEN extra * mark ELSE 0)
    <2>1. CASE counted
      <3>1. extra * mark = wm * StartPrice - Abs(c) * StartPrice
        BY <1>4, <1>5, <1>7, <2>1, StartPriceType
      <3>2. Furthest(s) * StartPrice <= wm * StartPrice
        BY <1>4, <1>10
      <3>3. /\ wm * StartPrice \in Int /\ Abs(c) * StartPrice \in Int
            /\ Furthest(s) * StartPrice \in Int
        BY <1>4, <1>7, StartPriceType
      <3>4. QED
        BY <2>1, <3>1, <3>2, <3>3
    <2>2. CASE ~counted
      <3>1. Furthest(s) <= Abs(c)
        <4>1. Furthest(s) = Abs(held) \/ ~(extra > 0)
          BY <1>5, <1>6, <2>2, Zenon
        <4>2. ~(extra > 0) => wm <= Abs(c)
          BY <1>4, <1>7
        <4>3. QED
          BY <1>4, <1>7, <4>1, <4>2
      <3>2. Furthest(s) * StartPrice <= Abs(c) * StartPrice /\ Abs(c) * StartPrice \in Int
        BY <1>4, <1>7, <1>10, <3>1, StartPriceType
      <3>3. QED
        BY <2>2, <3>2
    <2>3. QED
      BY <2>1, <2>2
  <1>12. QED
    BY <1>8, <1>9, <1>11 DEF b, c, mark, wm
\* An order that closes nothing is approved only where its worst outcome fits
\* the ceiling of a position, and with every other symbol at its furthest end
\* the ceiling of the book.
LEMMA ApprovedFits ==
  ASSUME TypeOK, OnePrice(working), Worth = StartWorth, \A s \in fresh : book.mark[s] = StartPrice,
         NEW o \in Order, o.limit \in {NoPrice, StartPrice}, ~ClosesWithoutReversing(o, book),
         Validate(o, working) = "approved"
  PROVE  LET wr == WorstResulting(o, RiskBooks(working))
             new == [s \in Symbols |-> IF s = o.symbol THEN wr * StartPrice ELSE Furthest(s) * StartPrice]
         IN /\ book.mark[o.symbol] = StartPrice /\ wr \in Nat
            /\ 100 * (wr * StartPrice) <= MaxPositionPct * StartWorth
            /\ Ints(new, Symbols)
            /\ 100 * SumFunctionOnSet(new, Symbols) <= MaxGrossExposurePct * StartWorth
  <1> DEFINE a == o.symbol
             b == RiskBooks(working)
             p == b.committed
             c(s) == p.qty[s]
             wr == WorstResulting(o, b)
             Extra(s) == WorstMagnitude(s, b) - Abs(c(s))
             others == {s \in Symbols \ {a} : b.buys[s] + b.sells[s] > 0 /\ Extra(s) > 0}
             price == ReferencePrice(a, p, o.limit)
             gross == [s \in Symbols |-> Abs(c(s) * p.mark[s])]
             extra == [s \in others |-> Extra(s) * p.mark[s]]
             spread == [s \in Symbols |-> IF s \in others THEN extra[s] ELSE 0]
             both == [s \in Symbols |-> gross[s] + spread[s]]
             mine == [s \in Symbols |-> IF s = a THEN wr * StartPrice ELSE both[s]]
             new == [s \in Symbols |-> IF s = a THEN wr * StartPrice ELSE Furthest(s) * StartPrice]
  <1>1. /\ a \in Symbols /\ IsFiniteSet(Symbols) /\ b.settled = book
        /\ p = ProjectPending(book, working) /\ FinitelyMany(working)
    BY OrderParts, OrdersInFlight, DataAssumption DEF RiskBooks
  <1>2. a \in fresh /\ book.mark[a] = StartPrice
    BY ApprovedByAll DEF StaleDataRule
  <1>3. /\ Valued(o, b)
        /\ 100 * wr * price <= MaxPositionPct * Equity(p)
    BY <1>1, ApprovedByAll DEF MaxPositionSizeRule
  <1>4. /\ \A s \in Symbols : p.mark[s] = book.mark[s] /\ c(s) \in Int
        /\ Equity(p) = StartWorth
        /\ \A s \in Symbols : c(s) # 0 => p.mark[s] = StartPrice
    <2>1. UnmarkedSymbols(ProjectPending(book, working)) = {}
      BY <1>1, <1>3 DEF Valued
    <2>2. QED
      BY <1>1, <2>1, CommittedWorth
  <1>5. price = StartPrice /\ p.mark[a] = StartPrice
    BY <1>1, <1>2, <1>4 DEF ReferencePrice
  <1>6. wr \in Nat
    BY <1>1, ProducibleEnds
  <1>7. 100 * (wr * StartPrice) <= MaxPositionPct * StartWorth
    <2>1. \A m, n \in Nat : 100 * m * n = 100 * (m * n)
      OBVIOUS
    <2>2. 100 * wr * StartPrice = 100 * (wr * StartPrice)
      BY <1>6, <2>1, StartPriceType
    <2>3. QED
      BY <1>3, <1>4, <1>5, <2>2
  <1>8. /\ \A s \in others : p.mark[s] # NoPrice
        /\ 100 * (GrossExposure(p) - Abs(c(a)) * price + wr * price + SumFunction(extra))
             <= MaxGrossExposurePct * Equity(p)
    <2>1. MaxExposureRule(o, b) /\ ~ClosesWithoutReversing(o, b.settled)
      BY <1>1, ApprovedByAll
    <2>2. QED
      BY <2>1 DEF MaxExposureRule
  <1>9. SumFunction(extra) = SumFunctionOnSet(extra, others)
        /\ GrossExposure(p) = SumFunctionOnSet(gross, Symbols)
    BY DEF SumFunction, GrossExposure
  <1>10. \A s \in Symbols : s # a =>
           /\ gross[s] = Abs(c(s)) * StartPrice /\ gross[s] \in Int
           /\ Extra(s) * p.mark[s] \in Int
           /\ Furthest(s) * StartPrice <= gross[s] + spread[s]
    <2> SUFFICES ASSUME NEW s \in Symbols, s # a
                 PROVE  /\ gross[s] = Abs(c(s)) * StartPrice /\ gross[s] \in Int
                        /\ Extra(s) * p.mark[s] \in Int
                        /\ Furthest(s) * StartPrice <= gross[s] + spread[s]
      OBVIOUS
    <2> DEFINE counted == b.buys[s] + b.sells[s] > 0 /\ Extra(s) > 0
    <2>1. /\ counted = (s \in others)
          /\ c(s) # 0 => p.mark[s] = StartPrice
          /\ counted => p.mark[s] = StartPrice
      BY <1>4, <1>8 DEF OnePrice
    <2>2. /\ Abs(c(s) * p.mark[s]) = Abs(c(s)) * StartPrice
          /\ Extra(s) * p.mark[s] \in Int
          /\ Furthest(s) * StartPrice
               <= Abs(c(s) * p.mark[s]) + (IF counted THEN Extra(s) * p.mark[s] ELSE 0)
      BY <2>1, CountedElsewhere
    <2>3. gross[s] = Abs(c(s) * p.mark[s]) /\ spread[s] = IF counted THEN Extra(s) * p.mark[s] ELSE 0
      BY <2>1
    <2>4. Abs(c(s)) * StartPrice \in Int
      BY <1>4, AbsType, StartPriceType
    <2>5. QED
      BY <2>2, <2>3, <2>4
  <1>11. gross[a] = Abs(c(a)) * StartPrice /\ gross[a] \in Int /\ spread[a] = 0
    <2>1. Abs(c(a) * StartPrice) = Abs(c(a)) * StartPrice /\ Abs(c(a)) * StartPrice \in Int
      BY <1>1, <1>4, AbsScaled, StartPriceType
    <2>2. gross[a] = Abs(c(a) * p.mark[a]) /\ a \notin others
      BY <1>1
    <2>3. spread[a] = 0
      BY <1>1, <2>2
    <2>4. QED
      BY <1>5, <2>1, <2>2, <2>3
  <1>12. Ints(gross, Symbols) /\ Ints(spread, Symbols) /\ Ints(extra, others)
    <2>1. \A s \in others : s \in Symbols /\ s # a
      OBVIOUS
    <2>2. \A s \in others : extra[s] \in Int
      BY <1>10, <2>1
    <2>3. \A s \in Symbols : gross[s] \in Int
      BY <1>10, <1>11
    <2> HIDE DEF gross, extra, others
    <2>4. \A s \in Symbols : spread[s] \in Int
      BY <2>2
    <2>5. QED
      BY <2>2, <2>3, <2>4 DEF Ints
  <1>13. wr * StartPrice \in Int /\ \A s \in Symbols : Furthest(s) * StartPrice \in Int
    BY <1>6, EndsType, StartPriceType
  <1>14. /\ others \in SUBSET Symbols
         /\ \A s \in Symbols : spread[s] = IF s \in others THEN extra[s] ELSE 0
         /\ \A s \in Symbols : both[s] = gross[s] + spread[s]
         /\ \A s \in Symbols : mine[s] = IF s = a THEN wr * StartPrice ELSE both[s]
         /\ \A s \in Symbols : new[s] = IF s = a THEN wr * StartPrice ELSE Furthest(s) * StartPrice
    OBVIOUS
  <1> HIDE DEF gross, extra, spread, both, mine, new, others, wr, c, p, price, a, b
  <1>15. Ints(both, Symbols) /\ \A s \in Symbols : both[s] = gross[s] + 1 * spread[s]
    BY <1>12, <1>14 DEF Ints
  <1>16. Ints(mine, Symbols) /\ Ints(new, Symbols)
    BY <1>13, <1>14, <1>15 DEF Ints
  <1>17. \A s \in Symbols : new[s] <= mine[s]
    <2> SUFFICES ASSUME NEW s \in Symbols PROVE new[s] <= mine[s]
      OBVIOUS
    <2>1. CASE s = a
      BY <1>13, <1>14, <2>1
    <2>2. CASE s # a
      BY <1>10, <1>14, <2>2
    <2>3. QED
      BY <2>1, <2>2
  <1>18. SumFunctionOnSet(new, Symbols) <= SumFunctionOnSet(mine, Symbols)
    BY <1>1, <1>16, <1>17, SumMonotone
  <1>19. SumFunctionOnSet(both, Symbols)
           = SumFunctionOnSet(gross, Symbols) + 1 * SumFunctionOnSet(spread, Symbols)
    BY <1>1, <1>12, <1>15, SumLinear
  <1>20. SumFunctionOnSet(spread, Symbols) = SumFunctionOnSet(extra, others)
    BY <1>1, <1>12, <1>14, SumOverSubset
  <1>21. SumFunctionOnSet(mine, Symbols)
           = SumFunctionOnSet(both, Symbols) + (mine[a] - both[a])
    BY <1>1, <1>14, <1>15, <1>16, SumOneChanged
  <1>22. /\ SumFunctionOnSet(gross, Symbols) \in Int /\ SumFunctionOnSet(spread, Symbols) \in Int
         /\ SumFunctionOnSet(new, Symbols) \in Int /\ SumFunctionOnSet(mine, Symbols) \in Int
    BY <1>1, <1>12, <1>16, SumType
  <1>23. mine[a] = wr * StartPrice /\ both[a] = Abs(c(a)) * StartPrice
    BY <1>1, <1>11, <1>14
  <1>24. SumFunctionOnSet(mine, Symbols)
           = GrossExposure(p) - Abs(c(a)) * price + wr * price + SumFunction(extra)
    BY <1>5, <1>9, <1>11, <1>13, <1>19, <1>20, <1>21, <1>22, <1>23
  <1>25. 100 * SumFunctionOnSet(mine, Symbols) <= MaxGrossExposurePct * StartWorth
    BY <1>4, <1>8, <1>24
  <1>26. 100 * SumFunctionOnSet(new, Symbols) <= MaxGrossExposurePct * StartWorth
    <2> DEFINE most == MaxGrossExposurePct * StartWorth
    <2>1. most \in Int
      BY StartWorthType, LimitTypes
    <2> HIDE DEF most
    <2>2. 100 * SumFunctionOnSet(mine, Symbols) <= most
      BY <1>25 DEF most
    <2>3. 100 * SumFunctionOnSet(new, Symbols) <= most
      BY <1>18, <1>22, <2>1, <2>2
    <2>4. QED
      BY <2>3 DEF most
  <1>27. QED
    BY <1>2, <1>6, <1>7, <1>16, <1>26 DEF new, wr, a, b
-----------------------------------------------------------------------------
(* Ceilings. *)

\* Every symbol at its furthest end is within its ceiling, and all at theirs
\* within the ceiling of the book, at the first prices.
Bounded ==
  /\ \A s \in Symbols : 100 * (Furthest(s) * StartPrice) <= MaxPositionPct * StartWorth
  /\ 100 * SumFunction([s \in Symbols |-> Furthest(s) * StartPrice])
       <= MaxGrossExposurePct * StartWorth

\* While no price has moved, the account is worth what it was at boot, whatever
\* can be ordered has been marked, and what is in flight is bounded.
WithinInv ==
  StartsWithinCeilings /\ LimitsAtTheMarket /\ ~moved =>
    /\ OnePrice(working) /\ \A s \in Symbols : market[s] = StartPrice
    /\ \A s \in fresh : book.mark[s] = StartPrice
    /\ Worth = StartWorth
    /\ Bounded

\* An interval inside another has no further end.
LEMMA Narrower ==
  ASSUME NEW low \in Int, NEW high \in Int, NEW low2 \in Int, NEW high2 \in Int,
         low <= low2, low2 <= high2, high2 <= high
  PROVE  Larger(Abs(low2), Abs(high2)) <= Larger(Abs(low), Abs(high))
  BY DEF Larger, Abs

\* The ends of the next state are numbers too.
LEMMA NextEndsType ==
  ASSUME TypeOK', NEW s \in Symbols
  PROVE  /\ Low(s)' \in Int /\ High(s)' \in Int /\ Low(s)' <= High(s)' /\ Furthest(s)' \in Nat
         /\ book.qty[s]' \in Int /\ FinitelyMany(working)'
  <1>1. /\ DOMAIN working' \subseteq 1..issued' /\ issued' \in Nat
        /\ working' \in [DOMAIN working' -> Order] /\ book'.qty \in [Symbols -> Int]
    BY DEF TypeOK
  <1>2. FinitelyMany(working') /\ book'.qty[s] \in Int
    <2>0. \A n \in Nat : IsFiniteSet(1..n)
      BY FS_Interval
    <2>1. IsFiniteSet(1..issued')
      BY <1>1, <2>0, Zenon
    <2>2. IsFiniteSet(DOMAIN working')
      BY <1>1, <2>1, FS_Subset
    <2>3. \A id \in DOMAIN working' : working'[id] \in Order
      BY <1>1
    <2>4. FinitelyMany(working')
      BY <2>2, <2>3 DEF FinitelyMany
    <2>5. QED
      BY <1>1, <2>4
  <1>3. InFlight(s, 1, working') \in Nat /\ InFlight(s, -1, working') \in Nat
    BY <1>2, InFlightIsShares
  <1>4. Low(s)' \in Int /\ High(s)' \in Int /\ Low(s)' <= High(s)'
    BY <1>2, <1>3 DEF Low, High
  <1>5. Furthest(s)' \in Nat
    BY <1>4 DEF Furthest, Larger, Abs
  <1>6. QED
    BY <1>2, <1>4, <1>5 DEF FinitelyMany

\* What is bounded by numbers within the ceilings is within them.
LEMMA BoundedBy ==
  ASSUME TypeOK', NEW most, Ints(most, Symbols),
         \A s \in Symbols : Furthest(s)' * StartPrice <= most[s],
         \A s \in Symbols : 100 * most[s] <= MaxPositionPct * StartWorth,
         100 * SumFunctionOnSet(most, Symbols) <= MaxGrossExposurePct * StartWorth
  PROVE  Bounded'
  <1> DEFINE next == [s \in Symbols |-> (Furthest(s) * StartPrice)']
  <1>1. /\ IsFiniteSet(Symbols) /\ MaxPositionPct * StartWorth \in Int
        /\ MaxGrossExposurePct * StartWorth \in Int
    BY DataAssumption, LimitTypes, StartWorthType
  <1>2. \A s \in Symbols : next[s] = Furthest(s)' * StartPrice /\ next[s] \in Int /\ most[s] \in Int
    BY NextEndsType, StartPriceType DEF Ints
  <1>3. SumFunction([s \in Symbols |-> Furthest(s) * StartPrice])' = SumFunctionOnSet(next, Symbols)
    BY DEF SumFunction
  <1> HIDE DEF next
  <1>4. Ints(next, Symbols) /\ \A s \in Symbols : next[s] <= most[s]
    BY <1>2 DEF Ints
  <1>5. SumFunctionOnSet(next, Symbols) <= SumFunctionOnSet(most, Symbols)
    BY <1>1, <1>4, SumMonotone
  <1>6. SumFunctionOnSet(next, Symbols) \in Int /\ SumFunctionOnSet(most, Symbols) \in Int
    BY <1>1, <1>4, SumType
  <1>7. \A s \in Symbols : 100 * (Furthest(s)' * StartPrice) <= MaxPositionPct * StartWorth
    <2> SUFFICES ASSUME NEW s \in Symbols
                 PROVE  100 * (Furthest(s)' * StartPrice) <= MaxPositionPct * StartWorth
      OBVIOUS
    <2> DEFINE cap == MaxPositionPct * StartWorth
    <2>1. /\ next[s] <= most[s] /\ next[s] \in Int /\ most[s] \in Int /\ cap \in Int
          /\ 100 * most[s] <= cap
      BY <1>1, <1>2, <1>4
    <2> HIDE DEF cap
    <2>2. 100 * next[s] <= cap
      BY <2>1
    <2>3. QED
      BY <1>2, <2>2 DEF cap
  <1>8. 100 * SumFunctionOnSet(next, Symbols) <= MaxGrossExposurePct * StartWorth
    <2> DEFINE cap == MaxGrossExposurePct * StartWorth
    <2>1. cap \in Int /\ 100 * SumFunctionOnSet(most, Symbols) <= cap
      BY <1>1
    <2> HIDE DEF cap
    <2>2. 100 * SumFunctionOnSet(next, Symbols) <= cap
      BY <1>5, <1>6, <2>1
    <2>3. QED
      BY <2>2 DEF cap
  <1>9. QED
    BY <1>3, <1>7, <1>8 DEF Bounded

\* A step after which no symbol can go further keeps the bound.
LEMMA BoundedKept ==
  ASSUME TypeOK, TypeOK', Bounded, \A s \in Symbols : Furthest(s)' <= Furthest(s)
  PROVE  Bounded'
  <1> DEFINE most == [s \in Symbols |-> Furthest(s) * StartPrice]
  <1>1. \A s \in Symbols : Furthest(s) \in Nat /\ Furthest(s)' \in Nat
    BY EndsType, NextEndsType
  <1>2. Ints(most, Symbols)
    BY <1>1, StartPriceType DEF Ints
  <1>3. \A s \in Symbols : Furthest(s)' * StartPrice <= most[s]
    <2>1. \A m, n \in Nat : m <= n => m * StartPrice <= n * StartPrice
      BY StartPriceType
    <2>2. QED
      BY <1>1, <2>1
  <1>4. /\ \A s \in Symbols : 100 * most[s] <= MaxPositionPct * StartWorth
        /\ 100 * SumFunctionOnSet(most, Symbols) <= MaxGrossExposurePct * StartWorth
    BY DEF Bounded, SumFunction
  <1> HIDE DEF most
  <1>5. QED
    BY <1>2, <1>3, <1>4, BoundedBy
\* An order taken by the venue moves one end of its symbol's interval.
LEMMA TakenEnds ==
  ASSUME TypeOK, NEW o \in Order, book' = book,
         working' = [id \in DOMAIN working \cup {issued + 1} |->
                       IF id = issued + 1 THEN o ELSE working[id]]
  PROVE  \A s \in Symbols :
           /\ Low(s)' = Low(s) - Share(o, s, -1)
           /\ High(s)' = High(s) + Share(o, s, 1)
  <1> SUFFICES ASSUME NEW s \in Symbols
               PROVE  /\ Low(s)' = Low(s) - Share(o, s, -1)
                      /\ High(s)' = High(s) + Share(o, s, 1)
    OBVIOUS
  <1>1. issued + 1 \notin DOMAIN working /\ FinitelyMany(working)
    <2>1. DOMAIN working \subseteq 1..issued /\ issued \in Nat
      BY DEF TypeOK
    <2>2. issued + 1 \notin 1..issued
      BY <2>1
    <2>3. QED
      BY <2>1, <2>2, OrdersInFlight
  <1>2. /\ InFlight(s, 1, working') = InFlight(s, 1, working) + Share(o, s, 1)
        /\ InFlight(s, -1, working') = InFlight(s, -1, working) + Share(o, s, -1)
    <2>1. working' = With(working, issued + 1, o)
      BY DEF With
    <2>2. QED
      BY <1>1, <2>1, InFlightWith
  <1>3. /\ InFlight(s, 1, working) \in Nat /\ InFlight(s, -1, working) \in Nat
        /\ Share(o, s, 1) \in Nat /\ Share(o, s, -1) \in Nat /\ book.qty[s] \in Int
    BY <1>1, InFlightIsShares, OrderParts, BookType DEF Share
  <1>4. book'.qty[s] = book.qty[s]
    OBVIOUS
  <1>5. Low(s)' = Low(s) - Share(o, s, -1)
    BY <1>2, <1>3, <1>4 DEF Low
  <1>6. High(s)' = High(s) + Share(o, s, 1)
    BY <1>2, <1>3, <1>4 DEF High
  <1>7. QED
    BY <1>5, <1>6

\* What the venue takes to close a holding leaves no end further than it was.
LEMMA TakenToClose ==
  ASSUME TypeOK, TypeOK', NEW o \in Order, VenueTakes(o), ClosesWithoutReversing(o, book),
         \A s \in Symbols : /\ Low(s)' = Low(s) - Share(o, s, -1)
                            /\ High(s)' = High(s) + Share(o, s, 1)
  PROVE  \A s \in Symbols : Furthest(s)' <= Furthest(s)
  <1> SUFFICES ASSUME NEW s \in Symbols PROVE Furthest(s)' <= Furthest(s)
    OBVIOUS
  <1>1. /\ o.symbol \in Symbols /\ o.side \in {1, -1} /\ o.qty \in Nat \ {0}
    BY OrderParts
  <1>2. /\ Low(s) \in Int /\ High(s) \in Int /\ Low(s) <= book.qty[s] /\ book.qty[s] <= High(s)
        /\ book.qty[s] \in Int /\ Low(s)' \in Int /\ High(s)' \in Int
    BY EndsType, NextEndsType, BookType
  <1>3. CASE o.symbol # s
    BY <1>2, <1>3 DEF Share, Furthest, Larger, Abs
  <1>4. CASE o.symbol = s
    <2> DEFINE held == book.qty[s]
               reserved == InFlight(s, o.side, working)
    <2>1. held * o.side < 0 /\ o.qty <= Abs(held) - reserved /\ reserved \in Nat
      BY <1>4, OrdersInFlight, InFlightIsShares DEF VenueTakes, ClosesWithoutReversing, Reduces
    <2>2. CASE o.side = -1
      <3>1. held > 0 /\ held \in Int /\ Low(s) = held - reserved
        BY <1>2, <2>1, <2>2 DEF Low
      <3>2. Low(s)' = Low(s) - o.qty /\ High(s)' = High(s)
        BY <1>2, <1>4, <2>2 DEF Share
      <3> HIDE DEF held, reserved
      <3>3. 0 <= Low(s)' /\ Low(s)' <= held /\ held <= High(s)
        BY <1>1, <1>2, <2>1, <3>1, <3>2 DEF Abs, held
      <3>4. QED
        BY <1>2, <3>1, <3>2, <3>3 DEF Furthest, Larger, Abs
    <2>3. CASE o.side = 1
      <3>1. held < 0 /\ held \in Int /\ High(s) = held + reserved
        BY <1>2, <2>1, <2>3 DEF High
      <3>2. High(s)' = High(s) + o.qty /\ Low(s)' = Low(s)
        BY <1>2, <1>4, <2>3 DEF Share
      <3> HIDE DEF held, reserved
      <3>3. High(s)' <= 0 /\ held <= High(s)' /\ Low(s) <= held
        BY <1>1, <1>2, <2>1, <3>1, <3>2 DEF Abs, held
      <3>4. QED
        BY <1>2, <3>1, <3>2, <3>3 DEF Furthest, Larger, Abs
    <2>4. QED
      BY <1>1, <2>2, <2>3
  <1>5. QED
    BY <1>3, <1>4

\* What is taken otherwise goes no further than its worst outcome, or than what
\* was in flight went.
LEMMA TakenToOpen ==
  ASSUME TypeOK, TypeOK', OnePrice(working), NEW o \in Order,
         \A s \in Symbols : /\ Low(s)' = Low(s) - Share(o, s, -1)
                            /\ High(s)' = High(s) + Share(o, s, 1)
  PROVE  LET wr == WorstResulting(o, RiskBooks(working))
         IN \A s \in Symbols : \/ Furthest(s)' <= Furthest(s)
                               \/ s = o.symbol /\ Furthest(s)' <= wr
  <1> DEFINE wr == WorstResulting(o, RiskBooks(working))
  <1> SUFFICES ASSUME NEW s \in Symbols
               PROVE  Furthest(s)' <= Furthest(s) \/ (s = o.symbol /\ Furthest(s)' <= wr)
    OBVIOUS
  <1>1. /\ o.side \in {1, -1} /\ o.qty \in Nat \ {0}
        /\ Signed(o) = (IF o.side = 1 THEN o.qty ELSE -o.qty)
    BY OrderParts
  <1>2. Low(s) \in Int /\ High(s) \in Int /\ Low(s)' \in Int /\ High(s)' \in Int
    BY EndsType, NextEndsType
  <1>3. CASE o.symbol # s
    BY <1>2, <1>3 DEF Share, Furthest, Larger, Abs
  <1>4. CASE o.symbol = s
    <2>1. /\ wr \in Nat /\ Abs(Low(s) + Signed(o)) <= wr /\ Abs(High(s) + Signed(o)) <= wr
      BY <1>4, ProducibleEnds
    <2> HIDE DEF wr
    <2>2. CASE o.side = 1
      <3>1. High(s)' = High(s) + Signed(o) /\ Low(s)' = Low(s)
        BY <1>1, <1>2, <1>4, <2>2 DEF Share
      <3>2. QED
        BY <1>2, <1>4, <2>1, <3>1 DEF Furthest, Larger, Abs
    <2>3. CASE o.side = -1
      <3>1. Low(s)' = Low(s) + Signed(o) /\ High(s)' = High(s)
        BY <1>1, <1>2, <1>4, <2>3 DEF Share
      <3>2. QED
        BY <1>2, <1>4, <2>1, <3>1 DEF Furthest, Larger, Abs
    <2>4. QED
      BY <1>1, <2>2, <2>3
  <1>5. QED
    BY <1>3, <1>4
\* A step that changes neither the book nor what is in flight keeps everything.
LEMMA WithinUnchanged ==
  ASSUME WithinInv, UNCHANGED <<book, working, market, moved>>, fresh' \subseteq fresh
  PROVE  WithinInv'
  <1>1. /\ OnePrice(working)' = OnePrice(working) /\ Worth' = Worth /\ Bounded' = Bounded
    BY DEF OnePrice, Worth, Bounded, Furthest, Low, High
  <1>2. QED
    BY <1>1 DEF WithinInv

\* An order, judged, and taken or not.
LEMMA WithinSubmit ==
  ASSUME TypeOK, TypeOK', WithinInv, NEW o \in Order, NEW orders, NEW escalates,
         Submit(o, orders, escalates), LimitsAtTheMarket => o.limit \in {NoPrice, StartPrice},
         orders = working \/ ClosesWithoutReversing(o, book)
  PROVE  WithinInv'
  <1>1. /\ book' = book /\ UNCHANGED worldVars
        /\ \/ UNCHANGED working
           \/ /\ Validate(o, orders) = "approved" /\ VenueTakes(o)
              /\ working' = With(working, issued + 1, o)
    BY SubmitStep DEF With
  <1>2. UNCHANGED <<fresh, market, moved>>
    BY <1>1 DEF worldVars
  <1>3. CASE UNCHANGED working
    BY <1>1, <1>2, <1>3, WithinUnchanged
  <1>4. CASE /\ Validate(o, orders) = "approved" /\ VenueTakes(o)
             /\ working' = With(working, issued + 1, o)
    <2> SUFFICES ASSUME StartsWithinCeilings, LimitsAtTheMarket, ~moved
                 PROVE  /\ OnePrice(working)' /\ \A s \in Symbols : market'[s] = StartPrice
                        /\ \A s \in fresh' : book'.mark[s] = StartPrice
                        /\ Worth' = StartWorth
                        /\ Bounded'
      BY <1>2 DEF WithinInv
    <2>1. /\ OnePrice(working) /\ \A s \in Symbols : market[s] = StartPrice
          /\ \A s \in fresh : book.mark[s] = StartPrice
          /\ Worth = StartWorth /\ Bounded
      BY DEF WithinInv
    <2>2. book.mark[o.symbol] = StartPrice /\ o.limit \in {NoPrice, StartPrice}
      BY <1>4, <2>1, ApprovedByAll DEF StaleDataRule
    <2>3. OnePrice(working)'
      BY <1>1, <1>4, <2>1, <2>2 DEF OnePrice, With
    <2>4. Worth' = StartWorth
      BY <1>1, <2>1 DEF Worth
    <2>5. \A s \in Symbols : Low(s)' = Low(s) - Share(o, s, -1) /\ High(s)' = High(s) + Share(o, s, 1)
      BY <1>1, <1>4, TakenEnds DEF With
    <2>6. Bounded'
      <3>1. CASE ClosesWithoutReversing(o, book)
        <4>1. \A s \in Symbols : Furthest(s)' <= Furthest(s)
          BY <1>4, <2>5, <3>1, TakenToClose
        <4>2. QED
          BY <2>1, <4>1, BoundedKept
      <3>2. CASE ~ClosesWithoutReversing(o, book)
        <4> DEFINE wr == WorstResulting(o, RiskBooks(working))
                   new == [s \in Symbols |-> IF s = o.symbol THEN wr * StartPrice
                                             ELSE Furthest(s) * StartPrice]
        <4>1. /\ wr \in Nat /\ 100 * (wr * StartPrice) <= MaxPositionPct * StartWorth
              /\ Ints(new, Symbols)
              /\ 100 * SumFunctionOnSet(new, Symbols) <= MaxGrossExposurePct * StartWorth
          BY <1>4, <2>1, <2>2, <3>2, ApprovedFits
        <4>2. \A s \in Symbols : \/ Furthest(s)' <= Furthest(s)
                                 \/ s = o.symbol /\ Furthest(s)' <= wr
          BY <2>1, <2>5, TakenToOpen
        <4>3. \A s \in Symbols : Furthest(s) \in Nat /\ Furthest(s)' \in Nat
          BY EndsType, NextEndsType
        <4>4. \A m, n \in Nat : m <= n => m * StartPrice <= n * StartPrice
          BY StartPriceType
        <4>5. \A s \in Symbols :
                100 * new[s] <= MaxPositionPct * StartWorth
          BY <2>1, <4>1 DEF Bounded
        <4>6. /\ \A s \in Symbols : s = o.symbol => new[s] = wr * StartPrice
              /\ \A s \in Symbols : s # o.symbol => new[s] = Furthest(s) * StartPrice
          OBVIOUS
        <4> HIDE DEF wr, new
        <4>7. CASE Furthest(o.symbol)' <= Furthest(o.symbol)
          <5>1. \A s \in Symbols : Furthest(s)' <= Furthest(s)
            BY <4>2, <4>7
          <5>2. QED
            BY <2>1, <5>1, BoundedKept
        <4>8. CASE ~(Furthest(o.symbol)' <= Furthest(o.symbol))
          <5>1. \A s \in Symbols : Furthest(s)' * StartPrice <= new[s]
            <6> SUFFICES ASSUME NEW s \in Symbols PROVE Furthest(s)' * StartPrice <= new[s]
              OBVIOUS
            <6>1. CASE s = o.symbol
              <7>1. Furthest(s)' <= wr
                BY <4>2, <4>8, <6>1
              <7>2. QED
                BY <4>1, <4>3, <4>4, <4>6, <6>1, <7>1
            <6>2. CASE s # o.symbol
              <7>1. Furthest(s)' <= Furthest(s)
                BY <4>2, <6>2
              <7>2. QED
                BY <4>3, <4>4, <4>6, <6>2, <7>1
            <6>3. QED
              BY <6>1, <6>2
          <5>2. QED
            BY <4>1, <4>5, <5>1, BoundedBy
        <4>9. QED
          BY <4>7, <4>8
      <3>3. QED
        BY <3>1, <3>2
    <2>7. QED
      BY <1>1, <1>2, <2>1, <2>3, <2>4, <2>6
  <1>5. QED
    BY <1>1, <1>3, <1>4

\* A unit executed at the market changes what is held and pays for it, and
\* leaves less in flight.
LEMMA WithinFill ==
  ASSUME TypeOK, TypeOK', WithinInv, NEW id \in DOMAIN working, Fill(id)
  PROVE  WithinInv'
  <1> DEFINE o == working[id]
             a == o.symbol
             unit(s, side) == IF o.symbol = s /\ o.side = side THEN 1 ELSE 0
             held == [s \in Symbols |-> book.qty[s] * StartPrice]
             next == [s \in Symbols |-> book'.qty[s] * StartPrice]
  <1>1. /\ FinitelyMany(working) /\ o \in Order /\ a \in Symbols /\ o.side \in {1, -1}
        /\ o.qty \in Nat \ {0}
    BY OrdersInFlight, OrderParts DEF FinitelyMany
  <1>2. /\ o.qty = 1 => working' = Without(working, id)
        /\ o.qty # 1 => working' = Executed(working, id)
        /\ UNCHANGED <<fresh, market, moved>>
    BY DEF Fill, Without, Executed, worldVars
  <1>3. /\ \A s \in Symbols : book'.qty[s] = IF s = a THEN book.qty[s] + o.side ELSE book.qty[s]
        /\ \A s \in Symbols : book'.mark[s] = IF s = a THEN market[s] ELSE book.mark[s]
        /\ book'.cash = book.cash - o.side * market[a]
    BY <1>1, BookType DEF Fill, TypeOK
  <1>4. \A s, side : InFlight(s, side, working') = InFlight(s, side, working) - unit(s, side)
    <2> SUFFICES ASSUME NEW s, NEW side
                 PROVE  InFlight(s, side, working') = InFlight(s, side, working) - unit(s, side)
      OBVIOUS
    <2>1. CASE o.qty = 1
      <3>1. Share(o, s, side) = unit(s, side)
        BY <2>1 DEF Share
      <3>2. QED
        BY <1>1, <1>2, <2>1, <3>1, InFlightWithout
    <2>2. CASE o.qty # 1
      BY <1>1, <1>2, <2>2, InFlightExecuted
    <2>3. QED
      BY <2>1, <2>2
  <1>5. \A s \in Symbols : Furthest(s)' <= Furthest(s)
    <2> SUFFICES ASSUME NEW s \in Symbols PROVE Furthest(s)' <= Furthest(s)
      OBVIOUS
    <2>1. /\ Low(s) \in Int /\ High(s) \in Int /\ Low(s)' \in Int /\ High(s)' \in Int
          /\ Low(s)' <= High(s)' /\ book.qty[s] \in Int
      BY EndsType, NextEndsType, BookType
    <2>2. /\ InFlight(s, 1, working) \in Nat /\ InFlight(s, -1, working) \in Nat
          /\ InFlight(s, 1, working') = InFlight(s, 1, working) - unit(s, 1)
          /\ InFlight(s, -1, working') = InFlight(s, -1, working) - unit(s, -1)
      BY <1>1, <1>4, InFlightIsShares
    <2>3. book'.qty[s] = IF s = a THEN book.qty[s] + o.side ELSE book.qty[s]
      BY <1>3
    <2>4. Low(s) <= Low(s)' /\ High(s)' <= High(s)
      <3>1. CASE s = a /\ o.side = 1
        BY <2>1, <2>2, <2>3, <3>1 DEF Low, High
      <3>2. CASE s = a /\ o.side = -1
        BY <2>1, <2>2, <2>3, <3>2 DEF Low, High
      <3>3. CASE s # a
        BY <2>1, <2>2, <2>3, <3>3 DEF Low, High
      <3>4. QED
        BY <1>1, <3>1, <3>2, <3>3
    <2>5. QED
      BY <2>1, <2>4, Narrower DEF Furthest
  <1> SUFFICES ASSUME StartsWithinCeilings, LimitsAtTheMarket, ~moved
               PROVE  /\ OnePrice(working)' /\ \A s \in Symbols : market'[s] = StartPrice
                      /\ \A s \in fresh' : book'.mark[s] = StartPrice
                      /\ Worth' = StartWorth
                      /\ Bounded'
    BY <1>2 DEF WithinInv
  <1>6. /\ OnePrice(working) /\ \A s \in Symbols : market[s] = StartPrice
        /\ \A s \in fresh : book.mark[s] = StartPrice
        /\ Worth = StartWorth /\ Bounded
    BY DEF WithinInv
  <1>7. Bounded'
    BY <1>5, <1>6, BoundedKept
  <1>8. /\ \A s \in Symbols : book'.mark[s] \in {book.mark[s], StartPrice}
        /\ \A s \in Symbols : book.mark[s] = StartPrice => book'.mark[s] = StartPrice
    BY <1>3, <1>6
  <1>9. \A s \in fresh' : book'.mark[s] = StartPrice
    BY <1>2, <1>6, <1>8 DEF TypeOK
  <1>10. \A i \in DOMAIN working' : /\ i \in DOMAIN working /\ working'[i].symbol = working[i].symbol
                                    /\ working'[i].limit = working[i].limit
    <2>1. CASE o.qty = 1
      BY <1>2, <2>1 DEF Without
    <2>2. CASE o.qty # 1
      <3>1. working' = [working EXCEPT ![id] = [o EXCEPT !.qty = o.qty - 1]]
        BY <1>2, <2>2 DEF Executed
      <3>2. [o EXCEPT !.qty = o.qty - 1].symbol = o.symbol /\ [o EXCEPT !.qty = o.qty - 1].limit = o.limit
        BY <1>1 DEF Order
      <3>3. DOMAIN working' = DOMAIN working /\ working'[id] = [o EXCEPT !.qty = o.qty - 1]
            /\ \A i \in DOMAIN working \ {id} : working'[i] = working[i]
        BY <3>1 DEF TypeOK
      <3> HIDE DEF o
      <3>4. QED
        BY <3>2, <3>3 DEF o
    <2>3. QED
      BY <2>1, <2>2
  <1>11. \A i \in DOMAIN working : working[i].symbol \in Symbols
    BY <1>1, OrderParts DEF FinitelyMany
  <1>12. OnePrice(working)'
    BY <1>6, <1>8, <1>10, <1>11 DEF OnePrice
  <1>13. Worth' = StartWorth
    <2>1. \A s \in Symbols : book.qty[s] \in Int /\ book'.qty[s] \in Int
      BY <1>1, <1>3, BookType
    <2>2. Ints(held, Symbols) /\ Ints(next, Symbols) /\ \A s \in Symbols \ {a} : next[s] = held[s]
      BY <1>3, <2>1, StartPriceType DEF Ints
    <2>3. next[a] - held[a] = o.side * StartPrice
      <3>1. next[a] = (book.qty[a] + o.side) * StartPrice /\ held[a] = book.qty[a] * StartPrice
            /\ book.qty[a] \in Int
        BY <1>1, <1>3, <2>1
      <3>2. \A m, n, k \in Int : (m + n) * k - m * k = n * k
        OBVIOUS
      <3>3. QED
        BY <1>1, <3>1, <3>2, StartPriceType
    <2>4. Worth = book.cash + SumFunctionOnSet(held, Symbols)
          /\ Worth' = book'.cash + SumFunctionOnSet(next, Symbols)
      BY DEF Worth, SumFunction
    <2>5. book'.cash = book.cash - o.side * StartPrice /\ book.cash \in Int
          /\ o.side * StartPrice \in Int
      BY <1>1, <1>3, <1>6, BookType, StartPriceType
    <2>6. IsFiniteSet(Symbols)
      BY DataAssumption
    <2> HIDE DEF held, next
    <2>7. SumFunctionOnSet(next, Symbols) = SumFunctionOnSet(held, Symbols) + (next[a] - held[a])
      BY <1>1, <2>2, <2>6, SumOneChanged
    <2>8. SumFunctionOnSet(held, Symbols) \in Int
      BY <2>2, <2>6, SumType
    <2>9. QED
      BY <1>6, <2>3, <2>4, <2>5, <2>7, <2>8
  <1>14. QED
    BY <1>2, <1>6, <1>7, <1>9, <1>12, <1>13
\* An order that is gone leaves less in flight.
LEMMA WithinGone ==
  ASSUME TypeOK, TypeOK', WithinInv, NEW id \in DOMAIN working, Gone(id)
  PROVE  WithinInv'
  <1>1. /\ FinitelyMany(working) /\ working' = Without(working, id)
        /\ book' = book /\ UNCHANGED <<fresh, market, moved>>
    BY OrdersInFlight DEF Gone, Without, worldVars
  <1>2. \A s \in Symbols : Furthest(s)' <= Furthest(s)
    <2> SUFFICES ASSUME NEW s \in Symbols PROVE Furthest(s)' <= Furthest(s)
      OBVIOUS
    <2> DEFINE less(side) == Share(working[id], s, side)
    <2>1. /\ Low(s) \in Int /\ High(s) \in Int /\ Low(s)' \in Int /\ High(s)' \in Int
          /\ Low(s)' <= High(s)' /\ book.qty[s] \in Int /\ book'.qty[s] = book.qty[s]
      BY <1>1, EndsType, NextEndsType, BookType
    <2>2. \A side : /\ InFlight(s, side, working) \in Nat
                     /\ InFlight(s, side, working') = InFlight(s, side, working) - less(side)
      BY <1>1, InFlightIsShares, InFlightWithout
    <2>3. \A side : less(side) \in Nat
      <3>1. working[id].qty \in Nat
        BY <1>1, OrderParts DEF FinitelyMany
      <3>2. QED
        BY <3>1 DEF Share
    <2> HIDE DEF less
    <2>4. Low(s) <= Low(s)' /\ High(s)' <= High(s)
      BY <2>1, <2>2, <2>3 DEF Low, High
    <2>5. QED
      BY <2>1, <2>4, Narrower DEF Furthest
  <1> SUFFICES ASSUME StartsWithinCeilings, LimitsAtTheMarket, ~moved
               PROVE  /\ OnePrice(working)' /\ \A s \in Symbols : market'[s] = StartPrice
                      /\ \A s \in fresh' : book'.mark[s] = StartPrice
                      /\ Worth' = StartWorth
                      /\ Bounded'
    BY <1>1 DEF WithinInv
  <1>3. /\ OnePrice(working) /\ \A s \in Symbols : market[s] = StartPrice
        /\ \A s \in fresh : book.mark[s] = StartPrice
        /\ Worth = StartWorth /\ Bounded
    BY DEF WithinInv
  <1>4. OnePrice(working)' /\ Worth' = StartWorth
    BY <1>1, <1>3 DEF OnePrice, Worth, Without
  <1>5. Bounded'
    BY <1>2, <1>3, BoundedKept
  <1>6. QED
    BY <1>1, <1>3, <1>4, <1>5

\* A quote marks a symbol at the market.
LEMMA WithinQuote ==
  ASSUME TypeOK, TypeOK', WithinInv, NEW s \in Symbols, Quote(s)
  PROVE  WithinInv'
  <1>1. /\ book'.qty = book.qty /\ book'.cash = book.cash
        /\ \A r \in Symbols : book'.mark[r] = IF r = s THEN market[s] ELSE book.mark[r]
        /\ fresh' = fresh \cup {s} /\ UNCHANGED <<working, market, moved>>
    BY BookType DEF Quote, TypeOK
  <1>2. Worth' = Worth /\ Bounded' = Bounded
    BY <1>1 DEF Worth, Bounded, Furthest, Low, High
  <1> SUFFICES ASSUME StartsWithinCeilings, LimitsAtTheMarket, ~moved
               PROVE  /\ OnePrice(working)' /\ \A r \in Symbols : market'[r] = StartPrice
                      /\ \A r \in fresh' : book'.mark[r] = StartPrice
                      /\ Worth' = StartWorth
                      /\ Bounded'
    BY <1>1 DEF WithinInv
  <1>3. /\ OnePrice(working) /\ \A r \in Symbols : market[r] = StartPrice
        /\ \A r \in fresh : book.mark[r] = StartPrice
        /\ Worth = StartWorth /\ Bounded
    BY DEF WithinInv
  <1>4. /\ \A r \in Symbols : book'.mark[r] \in {book.mark[r], StartPrice}
        /\ \A r \in Symbols : book.mark[r] = StartPrice => book'.mark[r] = StartPrice
        /\ book'.mark[s] = StartPrice
    BY <1>1, <1>3
  <1>5. \A id \in DOMAIN working : working[id].symbol \in Symbols
    BY OrderParts DEF TypeOK
  <1>6. OnePrice(working)'
    BY <1>1, <1>3, <1>4, <1>5 DEF OnePrice
  <1>7. \A r \in fresh' : book'.mark[r] = StartPrice
    BY <1>1, <1>3, <1>4 DEF TypeOK
  <1>8. QED
    BY <1>1, <1>2, <1>3, <1>6, <1>7

\* The invariant, of one step.
LEMMA WithinStep == TypeOK /\ WithinInv /\ [Next]_vars => WithinInv'
  <1> SUFFICES ASSUME TypeOK, WithinInv, [Next]_vars PROVE WithinInv'
    OBVIOUS
  <1>0. TypeOK'
    BY TypeStep
  <1>1. ASSUME NEW e \in Entries, Enter(e) PROVE WithinInv'
    <2> DEFINE o == [symbol |-> e.symbol, side |-> e.side, qty |-> Size(e), limit |-> e.limit]
    <2>1. o \in Order /\ Submit(o, working, TRUE)
      BY <1>1, EntryType DEF Enter
    <2>2. LimitsAtTheMarket => o.limit \in {NoPrice, StartPrice}
      BY DEF LimitsAtTheMarket
    <2> HIDE DEF o
    <2>3. QED
      BY <1>0, <2>1, <2>2, WithinSubmit
  <1>2. ASSUME NEW s \in Symbols, Exit(s) \/ FlattenPosition(s) PROVE WithinInv'
    <2>1. /\ book.qty[s] # 0
          /\ \E orders, escalates : Submit(Closing(s), orders, escalates)
      BY <1>2 DEF Exit, FlattenPosition
    <2>2. Closing(s) \in Order /\ ClosesWithoutReversing(Closing(s), book) /\ Closing(s).limit = NoPrice
      BY <2>1, ClosingType, ClosingCloses DEF Closing
    <2>3. QED
      BY <1>0, <2>1, <2>2, WithinSubmit
  <1>3. ASSUME NEW id \in DOMAIN working, Fill(id) \/ Gone(id) PROVE WithinInv'
    BY <1>0, <1>3, WithinFill, WithinGone
  <1>4. ASSUME NEW s \in Symbols, Quote(s) PROVE WithinInv'
    BY <1>0, <1>4, WithinQuote
  <1>5. ASSUME NEW s \in Symbols, NEW q \in Prices, Move(s, q) PROVE WithinInv'
    BY <1>5 DEF Move, WithinInv
  <1>6. ASSUME UNCHANGED <<book, working, market, moved>>, fresh' \subseteq fresh PROVE WithinInv'
    BY <1>6, WithinUnchanged
  <1>7. CASE UNCHANGED vars
    BY <1>6, <1>7 DEF vars, orderVars, worldVars
  <1>8. CASE (\E s \in Symbols : GoesStale(s)) \/ Restart
    <2>1. UNCHANGED <<book, working, market, moved>> /\ fresh' \subseteq fresh
      BY <1>8 DEF GoesStale, Restart, orderVars
    <2>2. QED
      BY <1>6, <2>1
  <1>9. CASE Halt({}) \/ (\E s \in Symbols : Halt({s})) \/ Tick \/ Clear \/ MarketCloses
             \/ MarketOpens \/ AnchorIfPending
    <2>1. UNCHANGED <<book, working, market, moved, fresh>>
      BY <1>9 DEF Halt, Tick, Clear, MarketCloses, MarketOpens, AnchorIfPending, orderVars, worldVars
    <2>2. QED
      BY <1>6, <2>1
  <1>10. QED
    BY <1>1, <1>2, <1>3, <1>4, <1>5, <1>7, <1>8, <1>9 DEF Next

\* At boot nothing is in flight.
LEMMA WithinInit == Init => WithinInv
  <1> SUFFICES ASSUME Init, StartsWithinCeilings, LimitsAtTheMarket, ~moved
               PROVE  /\ OnePrice(working) /\ \A s \in Symbols : market[s] = StartPrice
                      /\ \A s \in fresh : book.mark[s] = StartPrice
                      /\ Worth = StartWorth
                      /\ Bounded
    BY DEF WithinInv
  <1>1. /\ book.qty = StartQty /\ book.cash = StartCash /\ working = <<>> /\ fresh = {}
        /\ \A s \in Symbols : book.mark[s] = NoPrice /\ market[s] = StartPrice
    BY DEF Init
  <1>2. DOMAIN working = {} /\ FinitelyMany(working)
    BY <1>1, FS_EmptySet DEF FinitelyMany
  <1>3. OnePrice(working) /\ \A s \in Symbols : market[s] = StartPrice
    BY <1>1, <1>2 DEF OnePrice
  <1>4. Worth = StartWorth
    BY <1>1 DEF Worth, StartWorth
  <1>5. \A s, side : InFlight(s, side, working) = 0
    BY <1>2, InFlightIsShares, SumOfNone
  <1>6. \A s \in Symbols : Furthest(s) = Abs(StartQty[s])
    <2> SUFFICES ASSUME NEW s \in Symbols PROVE Furthest(s) = Abs(StartQty[s])
      OBVIOUS
    <2>1. book.qty[s] = StartQty[s] /\ StartQty[s] \in Int
      BY <1>1, DataAssumption
    <2>2. QED
      BY <1>5, <2>1 DEF Furthest, Low, High, Larger, Abs
  <1>7. [s \in Symbols |-> Furthest(s) * StartPrice] = [s \in Symbols |-> Abs(StartQty[s]) * StartPrice]
    BY <1>6
  <1>8. Bounded
    BY <1>6, <1>7 DEF Bounded, StartsWithinCeilings
  <1>9. QED
    BY <1>1, <1>3, <1>4, <1>8

\* What is bounded at the first prices is within the ceilings as the book is
\* marked.
LEMMA WithinCeilings == TypeOK /\ WithinInv => ReachableWithinCeilings
  <1> SUFFICES ASSUME TypeOK, WithinInv, StartsWithinCeilings, LimitsAtTheMarket, ~moved,
                      UnmarkedSymbols(book) = {}
               PROVE  /\ \A s \in Symbols : 100 * Worst(s) <= MaxPositionPct * Equity(book)
                      /\ 100 * SumFunction([s \in Symbols |-> Worst(s)])
                           <= MaxGrossExposurePct * Equity(book)
    BY DEF ReachableWithinCeilings
  <1> DEFINE held == [s \in Symbols |-> book.qty[s] * StartPrice]
             value == [s \in Symbols |-> book.qty[s] * book.mark[s]]
             furthest == [s \in Symbols |-> Furthest(s) * StartPrice]
             worst == [s \in Symbols |-> Worst(s)]
             cap == MaxGrossExposurePct * StartWorth
  <1>1. OnePrice(working) /\ Worth = StartWorth /\ Bounded /\ IsFiniteSet(Symbols)
    BY DataAssumption DEF WithinInv
  <1>2. \A s \in Symbols : /\ book.qty[s] \in Int /\ Furthest(s) \in Nat
                           /\ book.mark[s] \in {NoPrice, StartPrice}
                           /\ book.qty[s] # 0 => book.mark[s] = StartPrice
    BY <1>1, BookType, EndsType DEF OnePrice, UnmarkedSymbols, OpenPositions
  <1>3. /\ Ints(held, Symbols) /\ \A s \in Symbols : held[s] = value[s]
        /\ Ints(furthest, Symbols)
    <2>1. Ints(held, Symbols) /\ Ints(furthest, Symbols)
      BY <1>2, StartPriceType DEF Ints
    <2>2. \A s \in Symbols : held[s] = value[s]
      <3> SUFFICES ASSUME NEW s \in Symbols PROVE book.qty[s] * StartPrice = book.qty[s] * book.mark[s]
        OBVIOUS
      <3>1. CASE book.qty[s] # 0
        BY <1>2, <3>1
      <3>2. CASE book.qty[s] = 0
        <4>1. book.mark[s] \in Int /\ StartPrice \in Int
          BY BookType, StartPriceType
        <4>2. QED
          BY <3>2, <4>1
      <3>3. QED
        BY <3>1, <3>2
    <2>3. QED
      BY <2>1, <2>2
  <1>4. \A s \in Symbols : worst[s] \in Int /\ worst[s] <= furthest[s]
    <2> SUFFICES ASSUME NEW s \in Symbols PROVE worst[s] \in Int /\ worst[s] <= furthest[s]
      OBVIOUS
    <2>1. worst[s] = Furthest(s) * book.mark[s] /\ furthest[s] = Furthest(s) * StartPrice
      BY WorstIsFurthest
    <2>2. Furthest(s) \in Nat /\ (book.mark[s] = 0 \/ book.mark[s] = StartPrice)
      BY <1>2 DEF NoPrice
    <2> HIDE DEF worst, furthest
    <2>3. \A n \in Nat : n * 0 = 0 /\ n * StartPrice \in Nat
      BY StartPriceType
    <2>4. QED
      BY <2>1, <2>2, <2>3
  <1>5. /\ Worth = book.cash + SumFunctionOnSet(held, Symbols)
        /\ Equity(book) = book.cash + SumFunctionOnSet(value, Symbols)
        /\ SumFunction([s \in Symbols |-> Worst(s)]) = SumFunctionOnSet(worst, Symbols)
        /\ 100 * SumFunctionOnSet(furthest, Symbols) <= cap
        /\ \A s \in Symbols : 100 * furthest[s] <= MaxPositionPct * StartWorth
    BY <1>1 DEF Worth, Equity, Bounded, SumFunction
  <1>6. \A s \in Symbols : worst[s] = Worst(s)
    OBVIOUS
  <1> HIDE DEF held, value, furthest, worst
  <1>7. Ints(worst, Symbols)
    BY <1>4 DEF Ints
  <1>8. Equity(book) = StartWorth
    BY <1>1, <1>3, <1>5, SumCongruent
  <1>9. /\ SumFunctionOnSet(worst, Symbols) <= SumFunctionOnSet(furthest, Symbols)
        /\ SumFunctionOnSet(worst, Symbols) \in Int /\ SumFunctionOnSet(furthest, Symbols) \in Int
    BY <1>1, <1>3, <1>4, <1>7, SumMonotone, SumType
  <1>10. cap \in Int /\ MaxPositionPct * StartWorth \in Int
    BY StartWorthType, LimitTypes
  <1>11. 100 * SumFunctionOnSet(worst, Symbols) <= cap
    <2> HIDE DEF cap
    <2>1. QED
      BY <1>5, <1>9, <1>10
  <1>12. \A s \in Symbols : 100 * worst[s] <= MaxPositionPct * StartWorth
    <2> DEFINE limit == MaxPositionPct * StartWorth
    <2>1. limit \in Int /\ \A s \in Symbols : 100 * furthest[s] <= limit
      BY <1>5, <1>10
    <2> HIDE DEF limit
    <2>2. \A s \in Symbols : 100 * worst[s] <= limit
      BY <1>3, <1>4, <2>1 DEF Ints
    <2>3. QED
      BY <2>2 DEF limit
  <1>13. QED
    BY <1>5, <1>6, <1>8, <1>11, <1>12

\* Whatever the orders in flight do, no position and no book exceeds its ceiling
\* while no price has moved (max_position_size and max_gross_exposure).
THEOREM CeilingsHold == Spec => []ReachableWithinCeilings
  <1>1. TypeOK /\ WithinInv /\ [Next]_vars => WithinInv'
    BY WithinStep
  <1>2. QED
    BY <1>1, WithinInit, WithinCeilings, Typed, PTL DEF Spec
=============================================================================
