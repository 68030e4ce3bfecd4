---------------------------- MODULE PhysMemProofs ----------------------------
(***************************************************************************)
(* Proofs about the physical page allocator, for every memory size, word   *)
(* width and number of reserved pages that satisfies PhysMemAssumption.    *)
(* The arithmetic of the code (word i / BITS, bit i % BITS) is treated     *)
(* once, in lemma FrameFacts; the rest is about sets.                      *)
(***************************************************************************)
EXTENDS PhysMem, NaturalOrder, TLAPS

IInv ==
    /\ TypeOK
    /\ held \subseteq Usable
    /\ BitmapMatchesHeld
    /\ FailsOnlyWhenFull

-----------------------------------------------------------------------------
\* Quotient and remainder are the inverse of Frame.
LEMMA QuotientRemainder ==
    ASSUME NEW b \in Nat \ {0}
    PROVE  /\ \A i \in Nat, j \in 0 .. (b - 1) :
                 /\ i * b + j \in Nat
                 /\ (i * b + j) \div b = i
                 /\ (i * b + j) % b = j
           /\ \A n \in Nat : /\ n \div b \in Nat
                             /\ n % b \in 0 .. (b - 1)
                             /\ n = (n \div b) * b + (n % b)
<1>1. ASSUME NEW i \in Nat, NEW j \in 0 .. (b - 1)
      PROVE  i * b + j \in Nat /\ (i * b + j) \div b = i /\ (i * b + j) % b = j
  OBVIOUS
<1>2. ASSUME NEW n \in Nat
      PROVE  /\ n \div b \in Nat /\ n % b \in 0 .. (b - 1)
             /\ n = (n \div b) * b + (n % b)
  OBVIOUS
<1> QED
  BY <1>1, <1>2

\* Multiples of b keep a distance of b.
LEMMA MultiplesApart ==
    ASSUME NEW x \in Nat, NEW y \in Nat, NEW b \in Nat, x < y
    PROVE  x * b + b <= y * b
OBVIOUS

\* The bitmap has a bit for every page of the memory and for no other.
LEMMA FrameFacts ==
    /\ BITS \in Nat \ {0} /\ LOW \in Nat \ {0} /\ NUM_PAGES \in Nat /\ Words \subseteq Nat
    /\ \A i \in Words, j \in Bits : /\ Frame(i, j) \in 0 .. (NUM_PAGES - 1)
                                    /\ Frame(i, j) \div BITS = i
                                    /\ Frame(i, j) % BITS = j
    /\ \A f \in 0 .. (NUM_PAGES - 1) : /\ f \div BITS \in Words
                                       /\ f % BITS \in Bits
                                       /\ Frame(f \div BITS, f % BITS) = f
<1> DEFINE words == NUM_PAGES \div BITS
<1>1. /\ BITS \in Nat \ {0} /\ LOW \in Nat \ {0} /\ NUM_PAGES \in Nat
      /\ NUM_PAGES % BITS = 0
  BY PhysMemAssumption
<1>2. words \in Nat /\ NUM_PAGES = words * BITS
  BY <1>1, QuotientRemainder
<1> HIDE DEF words
<1>3. bitmap_size = words
  <2>1. BITS - 1 \in 0 .. (BITS - 1)
    BY <1>1
  <2>2. (words * BITS + (BITS - 1)) \div BITS = words
    BY <1>1, <1>2, <2>1, QuotientRemainder
  <2>3. words * BITS \in Nat
    BY <1>1, <1>2
  <2> QED
    BY <1>1, <1>2, <2>2, <2>3 DEF bitmap_size
<1>4. Words = 0 .. (words - 1) /\ Bits = 0 .. (BITS - 1)
  BY <1>3 DEF Words, Bits
<1>5. ASSUME NEW i \in Words, NEW j \in Bits
      PROVE  /\ Frame(i, j) \in 0 .. (NUM_PAGES - 1)
             /\ Frame(i, j) \div BITS = i
             /\ Frame(i, j) % BITS = j
  <2>1. i \in Nat /\ i < words /\ j \in 0 .. (BITS - 1)
    BY <1>2, <1>4
  <2>2. i * BITS + BITS <= words * BITS /\ i * BITS \in Nat
    BY <1>1, <1>2, <2>1, MultiplesApart
  <2>3. i * BITS + j \in Nat /\ i * BITS + j < words * BITS
    BY <1>1, <1>2, <2>1, <2>2
  <2>4. Frame(i, j) \in 0 .. (NUM_PAGES - 1)
    BY <1>1, <1>2, <2>3 DEF Frame
  <2>5. Frame(i, j) \div BITS = i /\ Frame(i, j) % BITS = j
    <3>1. i \in Nat /\ j \in 0 .. (BITS - 1) /\ BITS \in Nat \ {0}
      BY <1>1, <2>1
    <3>2. (i * BITS + j) \div BITS = i /\ (i * BITS + j) % BITS = j
      BY <3>1, QuotientRemainder, Zenon
    <3> QED
      BY <3>2 DEF Frame
  <2> QED
    BY <2>4, <2>5
<1>6. ASSUME NEW f \in 0 .. (NUM_PAGES - 1)
      PROVE  /\ f \div BITS \in Words /\ f % BITS \in Bits
             /\ Frame(f \div BITS, f % BITS) = f
  <2> DEFINE q == f \div BITS
             r == f % BITS
  <2>1. f \in Nat /\ f < words * BITS
    BY <1>1, <1>2
  <2>2. q \in Nat /\ r \in 0 .. (BITS - 1) /\ f = q * BITS + r
    BY <1>1, <2>1, QuotientRemainder
  <2> HIDE DEF q, r
  <2>3. q < words
    <3> SUFFICES ASSUME words <= q PROVE FALSE
      BY <1>2, <2>2
    <3>1. words * BITS <= q * BITS
      BY <1>1, <1>2, <2>2, MultiplesApart
    <3>2. q * BITS \in Nat /\ words * BITS \in Nat
      BY <1>1, <1>2, <2>2
    <3> QED
      BY <1>1, <2>1, <2>2, <3>1, <3>2
  <2>4. q \in Words /\ r \in Bits /\ Frame(q, r) = f
    BY <1>2, <1>4, <2>2, <2>3 DEF Frame
  <2> QED
    BY <2>4 DEF q, r
<1>7. Words \subseteq Nat
  BY <1>4
<1> QED
  BY <1>1, <1>5, <1>6, <1>7

\* Two bits stand for two pages.
LEMMA FrameInjective ==
    ASSUME NEW i \in Words, NEW j \in Bits, NEW k \in Words, NEW l \in Bits
    PROVE  Frame(i, j) = Frame(k, l) <=> i = k /\ j = l
BY FrameFacts

-----------------------------------------------------------------------------
\* pm_init establishes the invariant.
LEMMA InitIInv == Init => IInv
<1> SUFFICES ASSUME Init PROVE IInv
  OBVIOUS
<1>1. bitmap = [i \in Words |-> Marked(i)] /\ held = {} /\ exhausted = FALSE
  BY DEF Init
<1>2. \A i \in Words : Marked(i) \subseteq Bits
  BY DEF Marked
<1>3. TypeOK
  BY <1>1, <1>2 DEF TypeOK
<1>4. BitmapMatchesHeld
  BY <1>1 DEF BitmapMatchesHeld, Marked
<1> QED
  BY <1>1, <1>3, <1>4 DEF IInv, FailsOnlyWhenFull

\* The page of a clear bit is neither reserved nor held.
LEMMA ClearBit ==
    ASSUME IInv, NEW i \in Words, NEW j \in Bits, j \notin bitmap[i]
    PROVE  Frame(i, j) \in Usable /\ Frame(i, j) \notin held
BY FrameFacts DEF IInv, BitmapMatchesHeld, Usable

\* pm_alloc_page sets the bit of the page it hands out and no other.
LEMMA AllocIInv == IInv /\ pm_alloc_page => IInv'
<1> SUFFICES ASSUME IInv, pm_alloc_page PROVE IInv'
  OBVIOUS
<1>1. PICK i \in Words, j \in Bits :
            /\ FirstClear(i, j)
            /\ bitmap' = [bitmap EXCEPT ![i] = @ \cup {j}]
            /\ held' = held \cup {Frame(i, j)}
            /\ exhausted' = FALSE
  BY DEF pm_alloc_page
<1>2. bitmap \in [Words -> SUBSET Bits] /\ held \subseteq Nat
  BY DEF IInv, TypeOK
<1>3. Frame(i, j) \in Usable /\ Frame(i, j) \in Nat
  BY <1>1, ClearBit, FrameFacts DEF FirstClear
<1>4. TypeOK'
  BY <1>1, <1>2, <1>3 DEF TypeOK
<1>5. held' \subseteq Usable
  BY <1>1, <1>3 DEF IInv
<1>6. ASSUME NEW k \in Words, NEW l \in Bits
      PROVE  l \in bitmap'[k] <=> Frame(k, l) < LOW \/ Frame(k, l) \in held'
  <2>1. l \in bitmap'[k] <=> l \in bitmap[k] \/ (k = i /\ l = j)
    BY <1>1, <1>2
  <2>2. Frame(k, l) \in held' <=> Frame(k, l) \in held \/ (k = i /\ l = j)
    BY <1>1, FrameInjective
  <2>3. l \in bitmap[k] <=> Frame(k, l) < LOW \/ Frame(k, l) \in held
    BY DEF IInv, BitmapMatchesHeld
  <2> QED
    BY <2>1, <2>2, <2>3
<1> QED
  BY <1>1, <1>4, <1>5, <1>6 DEF IInv, BitmapMatchesHeld, FailsOnlyWhenFull

\* If some bit is clear, the two loops find one: the first of its word in the
\* first word that has one.
LEMMA LoopsFindClearBit ==
    ASSUME TypeOK, NEW k \in Words, NEW l \in Bits, l \notin bitmap[k]
    PROVE  \E i \in Words, j \in Bits : FirstClear(i, j)
<1>1. bitmap \in [Words -> SUBSET Bits] /\ Words \subseteq Nat /\ Bits \subseteq Nat
  BY FrameFacts DEF TypeOK, Bits
<1> DEFINE W == {w \in Words : bitmap[w] # Bits}
<1>2. W \subseteq Nat /\ W # {}
  BY <1>1
<1>3. PICK i \in W : \A w \in W : i <= w
  <2> HIDE DEF W
  <2> QED
    BY <1>2, LeastElement
<1>4. i \in Words /\ bitmap[i] # Bits /\ \A w \in Words : w < i => bitmap[w] = Bits
  BY <1>1, <1>3
<1> DEFINE C == {b \in Bits : b \notin bitmap[i]}
<1>5. C \subseteq Nat /\ C # {}
  BY <1>1, <1>4
<1>6. PICK j \in C : \A b \in C : j <= b
  <2> HIDE DEF C
  <2> QED
    BY <1>5, LeastElement
<1>7. j \in Bits /\ j \notin bitmap[i] /\ \A b \in Bits : b < j => b \in bitmap[i]
  BY <1>1, <1>6
<1> QED
  BY <1>4, <1>7 DEF FirstClear

\* pm_alloc_page returns nullptr only when every usable page is held.
LEMMA FailIInv == IInv /\ pm_alloc_fails => IInv'
<1> SUFFICES ASSUME IInv, pm_alloc_fails PROVE IInv'
  OBVIOUS
<1>1. /\ bitmap' = bitmap /\ held' = held /\ exhausted' = TRUE
      /\ ~ \E i \in Words, j \in Bits : FirstClear(i, j)
  BY DEF pm_alloc_fails
<1>2. ASSUME NEW f \in Usable PROVE f \in held
  <2> DEFINE k == f \div BITS
             l == f % BITS
  <2>1. f \in 0 .. (NUM_PAGES - 1) /\ f >= LOW
    BY FrameFacts DEF Usable
  <2>2. k \in Words /\ l \in Bits /\ Frame(k, l) = f
    BY <2>1, FrameFacts
  <2> HIDE DEF k, l
  <2>3. l \in bitmap[k]
    BY <1>1, <2>2, LoopsFindClearBit DEF IInv
  <2>4. f < LOW \/ f \in held
    BY <2>2, <2>3 DEF IInv, BitmapMatchesHeld
  <2>5. ~ (f < LOW)
    BY <2>1, FrameFacts
  <2> QED
    BY <2>4, <2>5
<1>3. held' = Usable
  BY <1>1, <1>2 DEF IInv
<1> QED
  BY <1>1, <1>3 DEF IInv, TypeOK, BitmapMatchesHeld, FailsOnlyWhenFull

\* pm_free_page clears the bit of the page it is given and no other.
LEMMA FreeIInv == \A frame \in held : IInv /\ pm_free_page(frame) => IInv'
<1> SUFFICES ASSUME NEW frame \in held, IInv, pm_free_page(frame) PROVE IInv'
  OBVIOUS
<1> DEFINE i == frame \div BITS
           j == frame % BITS
<1>1. /\ bitmap' = [bitmap EXCEPT ![i] = @ \ {j}]
      /\ held' = held \ {frame} /\ exhausted' = FALSE
  BY DEF pm_free_page
<1>2. bitmap \in [Words -> SUBSET Bits] /\ held \subseteq Nat /\ held \subseteq Usable
  BY DEF IInv, TypeOK
<1>3. frame \in 0 .. (NUM_PAGES - 1) /\ ~ (frame < LOW)
  BY <1>2, FrameFacts DEF Usable
<1>4. i \in Words /\ j \in Bits /\ Frame(i, j) = frame
  BY <1>3, FrameFacts
<1> HIDE DEF i, j
<1>5. TypeOK'
  BY <1>1, <1>2, <1>4 DEF TypeOK
<1>6. ASSUME NEW k \in Words, NEW l \in Bits
      PROVE  l \in bitmap'[k] <=> Frame(k, l) < LOW \/ Frame(k, l) \in held'
  <2>1. l \in bitmap'[k] <=> l \in bitmap[k] /\ ~ (k = i /\ l = j)
    BY <1>1, <1>2, <1>4
  <2>2. Frame(k, l) \in held' <=> Frame(k, l) \in held /\ ~ (k = i /\ l = j)
    BY <1>1, <1>4, FrameInjective
  <2>3. l \in bitmap[k] <=> Frame(k, l) < LOW \/ Frame(k, l) \in held
    BY DEF IInv, BitmapMatchesHeld
  <2>4. k = i /\ l = j => ~ (Frame(k, l) < LOW)
    BY <1>3, <1>4
  <2> QED
    BY <2>1, <2>2, <2>3, <2>4
<1> QED
  BY <1>1, <1>2, <1>5, <1>6 DEF IInv, BitmapMatchesHeld, FailsOnlyWhenFull

\* The invariant is inductive.
LEMMA NextIInv == IInv /\ [Next]_vars => IInv'
<1>1. IInv /\ UNCHANGED vars => IInv'
  BY DEF IInv, TypeOK, BitmapMatchesHeld, FailsOnlyWhenFull, vars
<1> QED
  BY <1>1, AllocIInv, FailIInv, FreeIInv DEF Next

\* Every reachable state satisfies the invariant.
THEOREM Invariance == Spec => []IInv
<1> QED
  BY InitIInv, NextIInv, PTL DEF Spec

\* The bitmap keeps its type: one set of bits per word.
THEOREM TypeCorrect == Spec => []TypeOK
<1>1. IInv => TypeOK
  BY DEF IInv
<1> QED
  BY <1>1, Invariance, PTL

\* After any sequence of pm_alloc_page and pm_free_page the set bits are those of
\* the reserved and the held pages.
THEOREM BitmapCorrect == Spec => []BitmapMatchesHeld
<1>1. IInv => BitmapMatchesHeld
  BY DEF IInv
<1> QED
  BY <1>1, Invariance, PTL

\* pm_alloc_page does not return nullptr while a page is free.
THEOREM AllocationComplete == Spec => []FailsOnlyWhenFull
<1>1. IInv => FailsOnlyWhenFull
  BY DEF IInv
<1> QED
  BY <1>1, Invariance, PTL

\* The page functions implement the abstract allocator of pages.
THEOREM PhysMemIsAllocator == Spec => AllocatorSpec
<1> DEFINE regions == [frame \in held |-> 1]
<1>1. Init => A!Init
  BY DEF Init, A!Init
<1>2. IInv /\ [Next]_vars => [A!Next]_regions
  <2> SUFFICES ASSUME IInv, [Next]_vars PROVE [A!Next]_regions
    OBVIOUS
  <2>1. CASE pm_alloc_page
    <3>1. PICK i \in Words, j \in Bits :
                FirstClear(i, j) /\ held' = held \cup {Frame(i, j)}
      BY <2>1 DEF pm_alloc_page
    <3> DEFINE f == Frame(i, j)
    <3>2. f \in Usable /\ f \notin held
      BY <3>1, ClearBit DEF FirstClear
    <3>3. held \subseteq Nat /\ f \in Nat
      BY FrameFacts DEF IInv, TypeOK
    <3>4. held' = held \cup {f}
      BY <3>1
    <3> HIDE DEF f
    <3>5. \A q \in Nat : A!Region(q, 1) = {q}
      BY DEF A!Region
    <3>6. A!Alloc(f, 1)
      BY <3>2, <3>3, <3>4, <3>5 DEF A!Alloc
    <3> QED
      BY <3>2, <3>6 DEF A!Next
  <2>2. CASE \E frame \in held : pm_free_page(frame)
    <3>1. PICK frame \in held : held' = held \ {frame}
      BY <2>2 DEF pm_free_page
    <3>2. A!Free(frame) /\ frame \in Usable
      BY <3>1 DEF A!Free, IInv
    <3> QED
      BY <3>2 DEF A!Next
  <2>3. CASE pm_alloc_fails \/ UNCHANGED vars
    BY <2>3 DEF pm_alloc_fails, vars
  <2> QED
    BY <2>1, <2>2, <2>3 DEF Next
<1> QED
  BY <1>1, <1>2, Invariance, PTL DEF Spec, AllocatorSpec, A!Spec
=============================================================================
