------------------------------- MODULE PhysMem -------------------------------
(***************************************************************************)
(* The physical page allocator, kernel/memory/physmem.cpp: one bit per     *)
(* page, kept in an array of words; the lowest pages are marked used at    *)
(* start and pm_alloc_page hands out the first page whose bit is clear.    *)
(* Its functions run to completion one at a time: each is one action.      *)
(*                                                                         *)
(* A page is its frame number (address / PAGE_SIZE).  Frame 0, whose       *)
(* address is also nullptr, is one of the pages marked at start.           *)
(***************************************************************************)
EXTENDS Naturals

CONSTANTS NUM_PAGES,  \* mem_size / PAGE_SIZE; 32768 for the kernel's 128 MB
          BITS,       \* bits of a bitmap word, 32 in the code
          LOW         \* pages marked at start, 256 in the code: the first 1 MB

\* pm_init(128 MB) gives a whole number of words; a memory size that does not
\* would leave bits in the last word that stand for no page.
ASSUME PhysMemAssumption ==
    /\ NUM_PAGES \in Nat
    /\ BITS \in Nat \ {0}
    /\ LOW \in Nat \ {0}
    /\ LOW <= NUM_PAGES
    /\ NUM_PAGES % BITS = 0

bitmap_size == (NUM_PAGES + BITS - 1) \div BITS

Words == 0 .. (bitmap_size - 1)

Bits == 0 .. (BITS - 1)

Usable == LOW .. (NUM_PAGES - 1)

VARIABLES bitmap,    \* memory_bitmap: word -> the set of its bits that are 1
          held,      \* the frames in clients' hands
          exhausted  \* the last call was pm_alloc_page and returned nullptr

vars == <<bitmap, held, exhausted>>

Frame(i, j) == i * BITS + j

\* Mistakes: the bit is not taken modulo the word; the loop stops one short.
Marked_Absolute(i) == {f \in {Frame(i, j) : j \in Bits} : f < LOW}

Marked_OneShort(i) == {j \in Bits : Frame(i, j) + 1 < LOW}

\* The bits the second loop of pm_init sets.
Marked(i) == {j \in Bits : Frame(i, j) < LOW}

Init ==
    /\ bitmap = [i \in Words |-> Marked(i)]
    /\ held = {}
    /\ exhausted = FALSE

\* A mistake: the last bit of a word is not looked at.
FirstClear_ShortWord(i, j) ==
    /\ j # BITS - 1
    /\ \A k \in Words : k < i => Bits \ {BITS - 1} \subseteq bitmap[k]
    /\ j \notin bitmap[i]
    /\ \A k \in Bits : k < j => k \in bitmap[i]

\* The two nested loops stop at the first clear bit of the first word that is
\* not all ones.
FirstClear(i, j) ==
    /\ \A k \in Words : k < i => bitmap[k] = Bits
    /\ j \notin bitmap[i]
    /\ \A k \in Bits : k < j => k \in bitmap[i]

pm_alloc_page ==
    \E i \in Words, j \in Bits :
        /\ FirstClear(i, j)
        /\ bitmap' = [bitmap EXCEPT ![i] = @ \cup {j}]
        /\ held' = held \cup {Frame(i, j)}
        /\ exhausted' = FALSE

\* No clear bit: pm_alloc_page returns nullptr.
pm_alloc_fails ==
    /\ ~ \E i \in Words, j \in Bits : FirstClear(i, j)
    /\ exhausted' = TRUE
    /\ UNCHANGED <<bitmap, held>>

\* A mistake: the whole word is cleared.
pm_free_page_Word(frame) ==
    /\ frame \in held
    /\ bitmap' = [bitmap EXCEPT ![frame \div BITS] = {}]
    /\ held' = held \ {frame}
    /\ exhausted' = FALSE

\* pm_free_page of a page the client holds; the code checks nothing.
pm_free_page(frame) ==
    /\ frame \in held
    /\ bitmap' = [bitmap EXCEPT ![frame \div BITS] = @ \ {frame % BITS}]
    /\ held' = held \ {frame}
    /\ exhausted' = FALSE

Next == \/ pm_alloc_page
        \/ pm_alloc_fails
        \/ \E frame \in held : pm_free_page(frame)

Spec == Init /\ [][Next]_vars

-----------------------------------------------------------------------------
TypeOK ==
    /\ bitmap \in [Words -> SUBSET Bits]
    /\ held \subseteq Nat
    /\ exhausted \in BOOLEAN

\* The bitmap says who has each page: a bit is set exactly when its page was
\* marked at start or is in a client's hands.  A page is never lost by a free
\* and a reserved one never becomes available, whatever the calls before.
BitmapMatchesHeld ==
    \A i \in Words, j \in Bits :
        j \in bitmap[i] <=> Frame(i, j) < LOW \/ Frame(i, j) \in held

\* pm_alloc_page returns nullptr only when every page above the reserved ones
\* is in clients' hands.
FailsOnlyWhenFull == exhausted => held = Usable

\* The pages are handed out as an allocator must: above the first megabyte,
\* inside the memory, and never two times.
A == INSTANCE Allocator WITH Arena <- Usable,
                             Requests <- {1},
                             live <- [frame \in held |-> 1]
AllocatorSpec == A!Spec
=============================================================================
