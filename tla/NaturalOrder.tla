----------------------------- MODULE NaturalOrder -----------------------------
(***************************************************************************)
(* The least element of a set of naturals: the loops of the kernel that    *)
(* search a table stop at the first entry that fits.  Those that walk      *)
(* along a string are functions defined by recursion on the position: a    *)
(* set that holds the first position and with each the next holds them     *)
(* all, and the function that starts and goes on as it should exists.      *)
(***************************************************************************)
EXTENDS Naturals, WellFoundedInduction, TLAPS

\* A set of naturals that is not empty has a least element, in three lemmas: by
\* the library there is an element with none below it in a relation;
LEMMA NoneBelow ==
    ASSUME NEW T, T \subseteq Nat, T # {}
    PROVE  \E x \in T : \A y \in T : ~ (<<y, x>> \in OpToRel(<, Nat))
BY NatLessThanWellFounded, WFMin

\* the relation is the order of the naturals;
LEMMA BelowIsLess ==
    ASSUME NEW m \in Nat, NEW n \in Nat, n < m
    PROVE  <<n, m>> \in OpToRel(<, Nat)
BY Zenon DEF OpToRel

\* and that element is the least.
LEMMA LeastElement ==
    ASSUME NEW T, T \subseteq Nat, T # {}
    PROVE  \E m \in T : \A n \in T : m <= n
<1>1. PICK x \in T : \A y \in T : ~ (<<y, x>> \in OpToRel(<, Nat))
  BY NoneBelow
<1>2. \A y \in T : ~ (y < x)
  BY <1>1, BelowIsLess
<1> QED
  BY <1>2

\* Induction on the positions 0 to n, with a set for the predicate.
LEMMA AllPositions ==
    ASSUME NEW n \in Nat, NEW T, 0 \in T, \A k \in 1 .. n : k - 1 \in T => k \in T
    PROVE  0 .. n \subseteq T
<1> SUFFICES ASSUME ~(0 .. n \subseteq T) PROVE FALSE
  OBVIOUS
<1> DEFINE Missing == (0 .. n) \ T
<1>1. Missing \subseteq Nat /\ Missing # {}
  OBVIOUS
<1>2. PICK m \in Missing : \A k \in Missing : m <= k
  <2> HIDE DEF Missing
  <2> QED
    BY <1>1, LeastElement
<1>3. m \in 0 .. n /\ m \notin T /\ m # 0
  BY <1>2
<1>4. m \in 1 .. n /\ m - 1 \in 0 .. n /\ ~(m <= m - 1)
  BY <1>3
<1>5. m - 1 \in T
  BY <1>2, <1>4
<1> QED
  BY <1>3, <1>4, <1>5

\* The same from all the positions before one, as for the quotients of a number.
LEMMA AllFromBefore ==
    ASSUME NEW n \in Nat, NEW T, \A k \in 0 .. n : (\A j \in 0 .. n : j < k => j \in T) => k \in T
    PROVE  0 .. n \subseteq T
<1> SUFFICES ASSUME ~(0 .. n \subseteq T) PROVE FALSE
  OBVIOUS
<1> DEFINE Missing == (0 .. n) \ T
<1>1. Missing \subseteq Nat /\ Missing # {}
  OBVIOUS
<1>2. PICK m \in Missing : \A k \in Missing : m <= k
  <2> HIDE DEF Missing
  <2> QED
    BY <1>1, LeastElement
<1>3. m \in 0 .. n /\ m \notin T
  BY <1>2
<1>4. \A j \in 0 .. n : j < m => j \in T
  BY <1>2, <1>3
<1> QED
  BY <1>3, <1>4

\* Recursion: Step goes on inside S at the positions 1 to n, and the function
\* that starts with base goes on as Step does.
Advances(Step, n, S) == \A k \in 1 .. n : \A x \in S : Step[<<k, x>>] \in S

Unfolds(f, base, n, Step) ==
    /\ f = [k \in 0 .. n |-> f[k]]
    /\ f[0] = base
    /\ \A k \in 1 .. n : f[k] = Step[<<k, f[k - 1]>>]

Within(f, n, S) == \A k \in 0 .. n : f[k] \in S

\* Such a function exists.
LEMMA Recursion ==
    ASSUME NEW S, NEW base \in S, NEW n \in Nat, NEW Step, Advances(Step, n, S)
    PROVE  \E f : Unfolds(f, base, n, Step) /\ Within(f, n, S)
<1> DEFINE Upto(k, f) == Unfolds(f, base, k, Step) /\ Within(f, k, S)
           T == {k \in 0 .. n : \E f : Upto(k, f)}
<1>1. 0 \in T
  <2> DEFINE f == [j \in 0 .. 0 |-> base]
  <2>1. f = [j \in 0 .. 0 |-> f[j]] /\ f[0] = base /\ \A j \in 0 .. 0 : f[j] \in S
    OBVIOUS
  <2>2. \A j \in 1 .. 0 : FALSE
    OBVIOUS
  <2> HIDE DEF f
  <2>3. Upto(0, f)
    BY <2>1, <2>2 DEF Unfolds, Within
  <2> QED
    BY <2>3
<1>2. ASSUME NEW k \in 1 .. n, k - 1 \in T PROVE k \in T
  <2>1. PICK g : Upto(k - 1, g)
    BY <1>2
  <2> DEFINE f == [j \in 0 .. k |-> IF j = k THEN Step[<<k, g[k - 1]>>] ELSE g[j]]
  <2>2. k \in Nat /\ k - 1 \in 0 .. k - 1 /\ k # 0 /\ k \in 0 .. n /\ 0 \in 0 .. k
    OBVIOUS
  <2>3. Step[<<k, g[k - 1]>>] \in S
    BY <2>1, <2>2 DEF Advances, Within
  <2>4. f = [j \in 0 .. k |-> f[j]]
    OBVIOUS
  <2>5. f[0] = g[0] /\ f[k] = Step[<<k, g[k - 1]>>]
    BY <2>2
  <2>6. \A j \in 1 .. k : f[j - 1] = g[j - 1] /\ (j # k => j \in 1 .. k - 1 /\ f[j] = g[j])
    BY <2>2
  <2>7. \A j \in 0 .. k : j # k => j \in 0 .. k - 1 /\ f[j] = g[j]
    BY <2>2
  <2> HIDE DEF f
  <2>8. Unfolds(f, base, k, Step)
    BY <2>1, <2>4, <2>5, <2>6 DEF Unfolds
  <2>9. Within(f, k, S)
    BY <2>1, <2>3, <2>5, <2>7 DEF Within
  <2> QED
    BY <2>2, <2>8, <2>9
<1>3. n \in T
  <2> HIDE DEF T
  <2>1. 0 .. n \subseteq T
    BY <1>1, <1>2, AllPositions
  <2> QED
    BY <2>1
<1> QED
  BY <1>3
=============================================================================
