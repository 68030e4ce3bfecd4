-------------------------------- MODULE Heap --------------------------------
(***************************************************************************)
(* The kernel heap, kernel/memory/heap.cpp: a first-fit allocator over one *)
(* singly linked list of headers.  Two features of the code shape the      *)
(* model.  A block that is split STAYS on the list while it is allocated,  *)
(* and kfree pushes the header on the list without looking whether it is   *)
(* already there; so the list may lose blocks or become a cycle, and the   *)
(* walk of kmalloc is modelled one iteration at a time.                    *)
(*                                                                         *)
(* Clients are the callers of malloc and free (stdlib.cpp): they free a    *)
(* pointer they hold and write only inside what they were given.           *)
(***************************************************************************)
EXTENDS Naturals

CONSTANTS HEAP_START,  \* address of the heap, 0x200000 in the code
          HEAP_SIZE,   \* its length in bytes, 0x100000 in the code
          HEADER,      \* sizeof(Header), 12 on the 32-bit target
          SLACK,       \* the 32 bytes a split must leave besides a header
          WORD,        \* 2^32: uint32_t arithmetic is modulo WORD
          Sizes        \* the request sizes of the clients

\* The heap lies inside the address space and above address 0, and requests
\* are small enough for size + sizeof(Header) not to wrap around.
ASSUME HeapAssumption ==
    /\ HEAP_START \in Nat \ {0}
    /\ HEAP_SIZE \in Nat
    /\ HEADER \in Nat \ {0}
    /\ SLACK \in Nat
    /\ WORD \in Nat
    /\ HEADER <= HEAP_SIZE
    /\ HEAP_START + HEAP_SIZE < WORD
    /\ Sizes \subseteq Nat
    /\ \A s \in Sizes : s + HEADER < WORD

NULL == 0

HEAP_END == HEAP_START + HEAP_SIZE

Address == HEAP_START .. HEAP_END

VARIABLES hdr,        \* the headers in memory: block address -> Header
          free_list,  \* the static head of the list
          curr, prev, \* the cursors of the walk in kmalloc
          size,       \* the parameter of the kmalloc in progress
          pc,         \* "idle", or "scan" while kmalloc walks the list
          live        \* what the clients hold: pointer -> requested size

vars == <<hdr, free_list, curr, prev, size, pc, live>>

Blocks == DOMAIN hdr

Header == [size : Nat, free : {0, 1}, next : Nat]

Block(bytes, free, next) == [size |-> bytes, free |-> free, next |-> next]

\* A mistake: the header is not counted.
total_size_NoHeader == size

total_size == (size + HEADER) % WORD

\* heap_init: one free block spans the heap.
Init ==
    /\ hdr = [b \in {HEAP_START} |-> Block(HEAP_SIZE, 1, NULL)]
    /\ free_list = HEAP_START
    /\ curr = NULL
    /\ prev = NULL
    /\ size = 0
    /\ pc = "idle"
    /\ live = << >>

\* kmalloc(s) up to its loop; kmalloc(0) returns 0 at once and changes nothing.
Kmalloc(s) ==
    /\ pc = "idle"
    /\ s # 0
    /\ size' = s
    /\ curr' = free_list
    /\ prev' = NULL
    /\ pc' = "scan"
    /\ UNCHANGED <<hdr, free_list, live>>

\* Mistakes: a taken block is taken again; the room for the header is forgotten.
Fits_Taken(b) == hdr[b].size >= total_size

Fits_RequestOnly(b) == hdr[b].free = 1 /\ hdr[b].size >= size

\* The test of the loop body on the current block.
Fits(b) == hdr[b].free = 1 /\ hdr[b].size >= total_size

\* A mistake: a rest too small for a header is split off.
Splits_AnyRest(b) == hdr[b].size > total_size

Splits(b) == hdr[b].size >= total_size + HEADER + SLACK

\* The next iteration: curr is taken or too small.
Skip ==
    /\ pc = "scan"
    /\ curr # NULL
    /\ ~Fits(curr)
    /\ prev' = curr
    /\ curr' = hdr[curr].next
    /\ UNCHANGED <<hdr, free_list, size, pc, live>>

\* What every successful path ends with: return curr + sizeof(Header).
Return ==
    /\ live' = [p \in DOMAIN live \cup {curr + HEADER} |->
                  IF p = curr + HEADER THEN size ELSE live[p]]
    /\ pc' = "idle"
    /\ curr' = NULL
    /\ prev' = NULL
    /\ size' = 0

\* The headers after the split.  The code's last assignment links the previous
\* block to the current one.
SplitHeaders ==
    LET new == curr + total_size
    IN  [b \in Blocks \cup {new} |->
            IF b = new
            THEN Block(hdr[curr].size - total_size, 1, hdr[curr].next)
            ELSE Block(IF b = curr THEN total_size ELSE hdr[b].size,
                       IF b = curr THEN 0 ELSE hdr[b].free,
                       IF b = prev THEN curr
                       ELSE IF b = curr THEN new ELSE hdr[b].next)]

TakeSplit ==
    /\ pc = "scan"
    /\ curr # NULL
    /\ Fits(curr)
    /\ Splits(curr)
    /\ hdr' = SplitHeaders
    /\ free_list' = IF prev = NULL THEN curr ELSE free_list
    /\ Return

\* The block is too small to split: it is unlinked and handed out whole.
TakeWhole ==
    /\ pc = "scan"
    /\ curr # NULL
    /\ Fits(curr)
    /\ ~Splits(curr)
    /\ hdr' = [b \in Blocks |->
                 Block(hdr[b].size,
                       IF b = curr THEN 0 ELSE hdr[b].free,
                       IF b = prev THEN hdr[curr].next ELSE hdr[b].next)]
    /\ free_list' = IF prev = NULL THEN hdr[curr].next ELSE free_list
    /\ Return

\* The end of the list: return nullptr.
ScanFail ==
    /\ pc = "scan"
    /\ curr = NULL
    /\ pc' = "idle"
    /\ prev' = NULL
    /\ size' = 0
    /\ UNCHANGED <<hdr, free_list, curr, live>>

\* A mistake: the pointer is taken for the header.
HeaderOf_Pointer(p) == p

\* The header in front of what kmalloc returned.
HeaderOf(p) == p - HEADER

\* kfree of a pointer some client holds; kfree(0) returns at once.
Kfree(p) ==
    /\ pc = "idle"
    /\ p \in DOMAIN live
    /\ hdr' = [hdr EXCEPT ![HeaderOf(p)] = Block(@.size, 1, free_list)]
    /\ free_list' = HeaderOf(p)
    /\ live' = [q \in DOMAIN live \ {p} |-> live[q]]
    /\ UNCHANGED <<curr, prev, size, pc>>

Walk == Skip \/ TakeSplit \/ TakeWhole \/ ScanFail

Next == \/ \E s \in Sizes : Kmalloc(s)
        \/ Walk
        \/ \E p \in DOMAIN live : Kfree(p)

Spec == Init /\ [][Next]_vars

\* The processor keeps executing the loop of a kmalloc in progress.
FairSpec == Spec /\ WF_vars(Walk)

-----------------------------------------------------------------------------
TypeOK ==
    /\ hdr \in [Blocks -> Header]
    /\ Blocks \subseteq Address
    /\ free_list \in Blocks \cup {NULL}
    /\ \A b \in Blocks : hdr[b].next \in Blocks \cup {NULL}
    /\ curr \in Blocks \cup {NULL}
    /\ prev \in Blocks \cup {NULL}
    /\ size \in Sizes \cup {0}
    /\ pc \in {"idle", "scan"}
    /\ pc = "scan" => size \in Sizes \ {0}
    /\ DOMAIN live \subseteq Nat
    /\ live \in [DOMAIN live -> Sizes \ {0}]

\* The headers tile the heap: the first block starts the heap, every block is
\* followed at once by another block or by the end, and none reaches into the
\* next.  kmalloc cuts blocks by address arithmetic on sizes it reads through
\* links that may be stale, so nothing else keeps a header out of client data.
BlocksTile ==
    /\ HEAP_START \in Blocks
    /\ \A b \in Blocks : /\ hdr[b].size >= HEADER
                         /\ b + hdr[b].size \in Blocks \cup {HEAP_END}
    /\ \A b, c \in Blocks : b < c => b + hdr[b].size <= c

\* The free flags agree with what clients hold: a block is marked taken exactly
\* while a client holds the pointer kmalloc made from it, and is then large
\* enough for its header and the requested bytes.
LiveBlocks ==
    /\ \A p \in DOMAIN live : /\ p - HEADER \in Blocks
                              /\ p >= HEADER
                              /\ live[p] + HEADER <= hdr[p - HEADER].size
    /\ \A b \in Blocks : (hdr[b].free = 0) <=> (b + HEADER \in DOMAIN live)

\* A block in a client's hands is never resized by another client's request:
\* it stays on the list the walks go through, and they must leave it alone.
LiveBlocksStable ==
    [][\A p \in DOMAIN live \cap DOMAIN live' :
          /\ live'[p] = live[p]
          /\ hdr'[p - HEADER].size = hdr[p - HEADER].size]_vars

\* kmalloc and kfree keep the promise of an allocator.
A == INSTANCE Allocator WITH Arena <- HEAP_START .. (HEAP_END - 1),
                             Requests <- Sizes
AllocatorSpec == A!Spec

\* Every call of kmalloc returns.
KmallocReturns == (pc = "scan") ~> (pc = "idle")
=============================================================================
