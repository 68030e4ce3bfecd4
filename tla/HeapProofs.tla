------------------------------ MODULE HeapProofs ------------------------------
(***************************************************************************)
(* Proofs about the kernel heap, for every heap size, header size and set  *)
(* of request sizes that satisfies HeapAssumption.                         *)
(*                                                                         *)
(* The free list cannot be part of the argument, since it loses blocks and *)
(* becomes cyclic.  What is inductive is that the headers tile the heap    *)
(* and that the free flags agree with what the clients hold: the walk may  *)
(* reach a block through any stale link, the cut it makes is still inside  *)
(* that block.                                                             *)
(***************************************************************************)
EXTENDS Heap, TLAPS

IInv == TypeOK /\ BlocksTile /\ LiveBlocks

USE DEF NULL, HEAP_END

\* A request does not wrap around: the total is the request and a header.
LEMMA TotalSize ==
    ASSUME TypeOK
    PROVE  /\ size \in Nat
           /\ total_size = size + HEADER
           /\ total_size \in Nat
           /\ total_size >= HEADER
           /\ HEADER > 0
<1>1. size \in Nat /\ size + HEADER < WORD /\ HEADER \in Nat /\ HEADER > 0 /\ WORD \in Nat
  BY HeapAssumption DEF TypeOK
<1>2. \A x, w \in Nat : x < w => x % w = x
  OBVIOUS
<1> QED
  BY <1>1, <1>2 DEF total_size

\* heap_init establishes the invariant.
LEMMA InitIInv == Init => IInv
<1> SUFFICES ASSUME Init PROVE IInv
  OBVIOUS
<1> USE HeapAssumption DEF Init
<1>1. Blocks = {HEAP_START} /\ hdr[HEAP_START].size = HEAP_SIZE
      /\ hdr[HEAP_START].free = 1 /\ hdr[HEAP_START].next = 0
  BY DEF Blocks, Block
<1>2. live = [p \in {} |-> 0] /\ DOMAIN live = {}
  OBVIOUS
<1>3. hdr \in [Blocks -> Header]
  BY <1>1 DEF Blocks, Header, Block
<1>4. TypeOK
  BY <1>1, <1>2, <1>3 DEF TypeOK, Address
<1>5. BlocksTile
  BY <1>1 DEF BlocksTile
<1>6. LiveBlocks
  BY <1>1, <1>2 DEF LiveBlocks
<1> QED
  BY <1>4, <1>5, <1>6 DEF IInv

-----------------------------------------------------------------------------
\* A block that is split: the new block is not one of the old ones and no block
\* but the current one changes its size or its flag.
LEMMA SplitFacts ==
    ASSUME IInv, pc = "scan", curr # NULL, Fits(curr), Splits(curr),
           NEW new, new = curr + total_size, hdr' = SplitHeaders
    PROVE  /\ curr \in Blocks /\ new \notin Blocks
           /\ Blocks' = Blocks \cup {new}
           /\ hdr' \in [Blocks' -> Header]
           /\ \A b \in Blocks' : hdr'[b].next \in Blocks' \cup {NULL}
           /\ hdr'[curr].size = total_size /\ hdr'[curr].free = 0
           /\ hdr'[new].size = hdr[curr].size - total_size /\ hdr'[new].free = 1
           /\ \A b \in Blocks \ {curr} : /\ hdr'[b].size = hdr[b].size
                                         /\ hdr'[b].free = hdr[b].free
<1>1. /\ total_size \in Nat /\ total_size >= HEADER /\ HEADER \in Nat /\ HEADER > 0
      /\ SLACK \in Nat
  BY TotalSize, HeapAssumption DEF IInv
<1>2. /\ curr \in Blocks /\ hdr \in [Blocks -> Header] /\ Blocks \subseteq Address
      /\ \A b \in Blocks : hdr[b].next \in Blocks \cup {NULL}
      /\ prev \in Blocks \cup {NULL}
  BY DEF IInv, TypeOK
<1>3. curr \in Nat /\ hdr[curr].size \in Nat /\ hdr[curr].size >= total_size + HEADER
  BY <1>1, <1>2, HeapAssumption DEF Splits, Address, Header
<1>4. new \notin Blocks
  <2>1. \A b \in Blocks : curr < b => curr + hdr[curr].size <= b
    BY <1>2 DEF IInv, BlocksTile
  <2>2. new \in Nat /\ curr < new /\ new < curr + hdr[curr].size
    BY <1>1, <1>3
  <2> QED
    BY <2>1, <2>2, <1>3
<1>5. new # curr /\ new # NULL
  BY <1>1, <1>2, <1>3, <1>4
<1>6. hdr' = [b \in Blocks \cup {new} |->
                IF b = new
                THEN Block(hdr[curr].size - total_size, 1, hdr[curr].next)
                ELSE Block(IF b = curr THEN total_size ELSE hdr[b].size,
                           IF b = curr THEN 0 ELSE hdr[b].free,
                           IF b = prev THEN curr
                           ELSE IF b = curr THEN new ELSE hdr[b].next)]
  BY DEF SplitHeaders
<1>7. Blocks' = Blocks \cup {new}
  BY <1>6 DEF Blocks
<1>8. /\ hdr'[new] \in Header
      /\ hdr'[new].size = hdr[curr].size - total_size /\ hdr'[new].free = 1
      /\ hdr'[new].next \in Blocks \cup {NULL}
  BY <1>1, <1>2, <1>3, <1>6 DEF Block, Header, Address
<1>9. ASSUME NEW b \in Blocks
      PROVE  /\ hdr'[b] \in Header
             /\ hdr'[b].size = IF b = curr THEN total_size ELSE hdr[b].size
             /\ hdr'[b].free = IF b = curr THEN 0 ELSE hdr[b].free
             /\ hdr'[b].next \in Blocks \cup {new, NULL}
  <2>1. hdr[b] \in Header /\ b # new /\ hdr[b].next \in Blocks \cup {NULL}
    BY <1>2, <1>4
  <2>2. hdr'[b] = Block(IF b = curr THEN total_size ELSE hdr[b].size,
                        IF b = curr THEN 0 ELSE hdr[b].free,
                        IF b = prev THEN curr
                        ELSE IF b = curr THEN new ELSE hdr[b].next)
    BY <1>6, <2>1
  <2>3. curr \in Nat /\ new \in Nat
    BY <1>1, <1>3
  <2> QED
    BY <1>1, <1>2, <2>1, <2>2, <2>3 DEF Block, Header
<1>10. hdr' \in [Blocks' -> Header]
  BY <1>6, <1>7, <1>8, <1>9
<1> QED
  BY <1>2, <1>4, <1>5, <1>7, <1>8, <1>9, <1>10

\* A block that is taken whole: no block changes its size, and no block but the
\* current one its flag.
LEMMA WholeFacts ==
    ASSUME IInv, TakeWhole
    PROVE  /\ curr \in Blocks
           /\ Blocks' = Blocks
           /\ hdr' \in [Blocks' -> Header]
           /\ \A b \in Blocks : hdr'[b].next \in Blocks \cup {NULL}
           /\ \A b \in Blocks : hdr'[b].size = hdr[b].size
           /\ hdr'[curr].free = 0
           /\ \A b \in Blocks \ {curr} : hdr'[b].free = hdr[b].free
<1>1. /\ curr \in Blocks /\ hdr \in [Blocks -> Header]
      /\ \A b \in Blocks : hdr[b].next \in Blocks \cup {NULL}
  BY DEF IInv, TypeOK, TakeWhole
<1>2. \A b \in Blocks : hdr[b].next \in Nat /\ hdr[b].size \in Nat /\ hdr[b].free \in {0, 1}
  BY <1>1 DEF Header
<1>3. hdr' = [b \in Blocks |->
                 Block(hdr[b].size,
                       IF b = curr THEN 0 ELSE hdr[b].free,
                       IF b = prev THEN hdr[curr].next ELSE hdr[b].next)]
  BY DEF TakeWhole
<1>4. ASSUME NEW b \in Blocks
      PROVE  /\ hdr'[b] \in Header
             /\ hdr'[b].size = hdr[b].size
             /\ hdr'[b].free = IF b = curr THEN 0 ELSE hdr[b].free
             /\ hdr'[b].next \in Blocks \cup {NULL}
  BY <1>1, <1>2, <1>3 DEF Block, Header
<1>5. Blocks' = Blocks /\ hdr' \in [Blocks' -> Header]
  BY <1>3, <1>4 DEF Blocks
<1> QED
  BY <1>1, <1>4, <1>5

-----------------------------------------------------------------------------
\* What a successful kmalloc leaves behind, whichever way it took the block:
\* one block is no longer free and belongs to the new pointer.
LEMMA ReturnLive ==
    ASSUME IInv, pc = "scan", curr \in Blocks, Fits(curr), Return,
           Blocks \subseteq Blocks', Blocks' \subseteq Nat, hdr'[curr].free = 0,
           size + HEADER <= hdr'[curr].size,
           \A b \in Blocks \ {curr} : /\ hdr'[b].size = hdr[b].size
                                     /\ hdr'[b].free = hdr[b].free,
           \A b \in Blocks' \ Blocks : hdr'[b].free = 1
    PROVE  /\ LiveBlocks'
           /\ DOMAIN live' \subseteq Nat /\ live' \in [DOMAIN live' -> Sizes \ {0}]
<1>1. /\ size \in Sizes \ {0} /\ Sizes \subseteq Nat /\ HEADER \in Nat /\ curr \in Nat
      /\ DOMAIN live \subseteq Nat /\ live \in [DOMAIN live -> Sizes \ {0}]
      /\ hdr[curr].free = 1
      /\ \A b \in Blocks' : b \in Blocks \/ b \in Blocks' \ Blocks
  BY HeapAssumption DEF IInv, TypeOK, Address, Fits
<1>2. /\ DOMAIN live' = DOMAIN live \cup {curr + HEADER}
      /\ live'[curr + HEADER] = size
      /\ \A p \in DOMAIN live \ {curr + HEADER} : live'[p] = live[p]
  BY DEF Return
<1>3. DOMAIN live' \subseteq Nat /\ live' \in [DOMAIN live' -> Sizes \ {0}]
  BY <1>1, <1>2 DEF Return
<1>4. (curr + HEADER) - HEADER = curr /\ curr + HEADER >= HEADER
  BY <1>1
<1>5. curr + HEADER \notin DOMAIN live
  BY <1>1 DEF IInv, LiveBlocks
<1>6. ASSUME NEW p \in DOMAIN live'
      PROVE  /\ p - HEADER \in Blocks' /\ p >= HEADER
             /\ live'[p] + HEADER <= hdr'[p - HEADER].size
  <2>1. CASE p = curr + HEADER
    BY <1>2, <1>4, <2>1
  <2>2. CASE p # curr + HEADER
    <3>1. p \in DOMAIN live /\ live'[p] = live[p]
      BY <1>2, <2>2
    <3>2. p - HEADER \in Blocks /\ p >= HEADER
          /\ live[p] + HEADER <= hdr[p - HEADER].size
          /\ hdr[p - HEADER].free = 0
      <4>1. /\ p - HEADER \in Blocks /\ p >= HEADER
            /\ live[p] + HEADER <= hdr[p - HEADER].size
        BY <3>1 DEF IInv, LiveBlocks
      <4>2. hdr[p - HEADER].free = 0 <=> (p - HEADER) + HEADER \in DOMAIN live
        BY <4>1 DEF IInv, LiveBlocks
      <4> QED
        BY <1>1, <3>1, <4>1, <4>2
    <3> QED
      BY <1>1, <3>1, <3>2
  <2> QED
    BY <2>1, <2>2
<1>7. ASSUME NEW b \in Blocks'
      PROVE  (hdr'[b].free = 0) <=> (b + HEADER \in DOMAIN live')
  <2>1. CASE b = curr
    BY <1>2, <2>1
  <2>2. CASE b \in Blocks \ {curr}
    <3>1. b \in Nat /\ b + HEADER # curr + HEADER
      BY <1>1, <2>2, HeapAssumption DEF IInv, TypeOK, Address
    <3>2. (hdr[b].free = 0) <=> (b + HEADER \in DOMAIN live)
      BY <2>2 DEF IInv, LiveBlocks
    <3> QED
      BY <1>2, <2>2, <3>1, <3>2
  <2>3. CASE b \in Blocks' \ Blocks
    <3>1. b + HEADER \notin DOMAIN live'
      <4> SUFFICES ASSUME b + HEADER \in DOMAIN live' PROVE FALSE
        OBVIOUS
      <4>1. b + HEADER \in DOMAIN live \/ b + HEADER = curr + HEADER
        BY <1>2
      <4>2. b \in Nat
        OBVIOUS
      <4> QED
        BY <1>1, <1>4, <2>3, <4>1, <4>2 DEF IInv, LiveBlocks
    <3> QED
      BY <2>3, <3>1
  <2> QED
    BY <1>1, <2>1, <2>2, <2>3
<1> QED
  BY <1>3, <1>6, <1>7 DEF LiveBlocks

-----------------------------------------------------------------------------
\* What the invariant says of a block, with the facts the arithmetic needs.
LEMMA BlockFacts ==
    ASSUME TypeOK
    PROVE  /\ HEADER \in Nat /\ HEADER > 0 /\ SLACK \in Nat
           /\ HEAP_START \in Nat /\ HEAP_SIZE \in Nat
           /\ \A b \in Blocks : /\ b \in Nat /\ b > 0 /\ b <= HEAP_START + HEAP_SIZE
                                /\ hdr[b].size \in Nat /\ hdr[b].free \in {0, 1}
                                /\ hdr[b].next \in Nat
<1>1. hdr \in [Blocks -> Header] /\ Blocks \subseteq Address
  BY DEF TypeOK
<1> QED
  BY <1>1, HeapAssumption DEF Address, Header

\* The two halves of a split tile what the block covered.
LEMMA SplitTile ==
    ASSUME IInv, pc = "scan", curr # NULL, Fits(curr), Splits(curr), hdr' = SplitHeaders
    PROVE  BlocksTile'
<1> DEFINE new == curr + total_size
<1>1. /\ curr \in Blocks /\ new \notin Blocks
      /\ Blocks' = Blocks \cup {new}
      /\ hdr'[curr].size = total_size
      /\ hdr'[new].size = hdr[curr].size - total_size
      /\ \A b \in Blocks \ {curr} : hdr'[b].size = hdr[b].size
  BY SplitFacts
<1>2. /\ total_size \in Nat /\ total_size >= HEADER /\ HEADER \in Nat /\ SLACK \in Nat
      /\ \A b \in Blocks : b \in Nat /\ hdr[b].size \in Nat
      /\ HEADER > 0
  BY TotalSize, BlockFacts DEF IInv
<1>3. hdr[curr].size >= total_size + HEADER
  BY <1>1, <1>2 DEF Splits
<1>4. /\ HEAP_START \in Blocks
      /\ \A b \in Blocks : /\ hdr[b].size >= HEADER
                           /\ b + hdr[b].size \in Blocks \cup {HEAP_END}
      /\ \A b, c \in Blocks : b < c => b + hdr[b].size <= c
  BY DEF IInv, BlocksTile
<1>5. curr \in Nat /\ new \in Nat /\ new + hdr'[new].size = curr + hdr[curr].size
  BY <1>1, <1>2, <1>3
<1> HIDE DEF new
<1>6. \A b \in Blocks' : /\ hdr'[b].size >= HEADER
                        /\ b + hdr'[b].size \in Blocks' \cup {HEAP_END}
  <2> TAKE b \in Blocks'
  <2>1. CASE b = curr
    BY <1>1, <1>2, <2>1 DEF new
  <2>2. CASE b = new
    BY <1>1, <1>2, <1>3, <1>4, <1>5, <2>2
  <2>3. CASE b \in Blocks \ {curr}
    BY <1>1, <1>4, <2>3
  <2> QED
    BY <1>1, <2>1, <2>2, <2>3
<1>7. \A b, c \in Blocks' : b < c => b + hdr'[b].size <= c
  <2> SUFFICES ASSUME NEW b \in Blocks', NEW c \in Blocks', b < c
               PROVE  b + hdr'[b].size <= c
    OBVIOUS
  <2>1. CASE b = new
    <3>1. c \in Blocks /\ curr < c
      BY <1>1, <1>2, <1>5, <2>1 DEF new
    <3> QED
      BY <1>1, <1>4, <1>5, <2>1, <3>1
  <2>2. CASE b \in Blocks /\ c = new
    <3>1. CASE b = curr
      BY <1>1, <1>2, <2>2, <3>1 DEF new
    <3>2. CASE b < curr
      BY <1>1, <1>2, <1>4, <2>2, <3>2 DEF new
    <3>3. CASE curr < b
      BY <1>1, <1>2, <1>3, <1>4, <2>2, <3>3 DEF new
    <3> QED
      BY <1>1, <1>2, <2>2, <3>1, <3>2, <3>3
  <2>3. CASE b \in Blocks /\ c \in Blocks
    <3>1. hdr'[b].size <= hdr[b].size /\ hdr'[b].size \in Nat
      BY <1>1, <1>2, <1>3, <2>3
    <3> QED
      BY <1>2, <1>4, <2>3, <3>1
  <2> QED
    BY <1>1, <2>1, <2>2, <2>3
<1> QED
  BY <1>1, <1>4, <1>6, <1>7 DEF BlocksTile

\* kmalloc that splits its block preserves the invariant.
LEMMA TakeSplitIInv == IInv /\ TakeSplit => IInv'
<1> SUFFICES ASSUME IInv, TakeSplit PROVE IInv'
  OBVIOUS
<1> DEFINE new == curr + total_size
<1>1. /\ pc = "scan" /\ curr # NULL /\ Fits(curr) /\ Splits(curr)
      /\ hdr' = SplitHeaders /\ Return
      /\ free_list' = IF prev = NULL THEN curr ELSE free_list
  BY DEF TakeSplit
<1>2. /\ curr \in Blocks /\ new \notin Blocks
      /\ Blocks' = Blocks \cup {new}
      /\ hdr' \in [Blocks' -> Header]
      /\ \A b \in Blocks' : hdr'[b].next \in Blocks' \cup {NULL}
      /\ hdr'[curr].size = total_size /\ hdr'[curr].free = 0
      /\ hdr'[new].size = hdr[curr].size - total_size /\ hdr'[new].free = 1
      /\ \A b \in Blocks \ {curr} : /\ hdr'[b].size = hdr[b].size
                                    /\ hdr'[b].free = hdr[b].free
  BY <1>1, SplitFacts
<1>3. BlocksTile'
  BY <1>1, SplitTile
<1>4. /\ size \in Nat /\ total_size = size + HEADER /\ total_size \in Nat
      /\ total_size >= HEADER /\ HEADER \in Nat
      /\ \A b \in Blocks : b \in Nat /\ b <= HEAP_START + HEAP_SIZE
      /\ \A b \in Blocks : hdr[b].size \in Nat
      /\ HEAP_START \in Nat /\ HEAP_SIZE \in Nat
  BY TotalSize, BlockFacts DEF IInv
<1>5. new \in Nat /\ new >= HEAP_START /\ new <= HEAP_START + HEAP_SIZE
  <2>1. curr \in Nat /\ curr >= HEAP_START /\ hdr[curr].size >= total_size + HEADER
    BY <1>1, <1>2, <1>4, HeapAssumption DEF IInv, TypeOK, Address, Splits
  <2>2. curr + hdr[curr].size <= HEAP_START + HEAP_SIZE
    <3>1. curr + hdr[curr].size \in Blocks \cup {HEAP_END}
      BY <1>2 DEF IInv, BlocksTile
    <3> QED
      BY <1>4, <3>1
  <2>3. new <= curr + hdr[curr].size
    BY <1>2, <1>4, <2>1
  <2> QED
    BY <1>2, <1>4, <2>1, <2>2, <2>3
<1>6. Blocks' \subseteq Address /\ Blocks' \subseteq Nat
  BY <1>2, <1>4, <1>5 DEF IInv, TypeOK, Address
<1>7. /\ LiveBlocks'
      /\ DOMAIN live' \subseteq Nat /\ live' \in [DOMAIN live' -> Sizes \ {0}]
  <2>1. Blocks \subseteq Blocks' /\ size + HEADER <= hdr'[curr].size
        /\ \A b \in Blocks' \ Blocks : hdr'[b].free = 1
    BY <1>2, <1>4
  <2> HIDE DEF new
  <2> QED
    BY <1>1, <1>2, <1>6, <2>1, ReturnLive
<1>8. /\ free_list' \in Blocks' \cup {NULL} /\ curr' = NULL /\ prev' = NULL
      /\ size' = 0 /\ pc' = "idle"
  BY <1>1, <1>2 DEF IInv, TypeOK, Return
<1>9. TypeOK'
  BY <1>2, <1>6, <1>7, <1>8 DEF TypeOK
<1> QED
  BY <1>3, <1>7, <1>9 DEF IInv

\* kmalloc that takes its block whole preserves the invariant.
LEMMA TakeWholeIInv == IInv /\ TakeWhole => IInv'
<1> SUFFICES ASSUME IInv, TakeWhole PROVE IInv'
  OBVIOUS
<1>1. /\ pc = "scan" /\ curr # NULL /\ Fits(curr) /\ Return
      /\ free_list' = IF prev = NULL THEN hdr[curr].next ELSE free_list
  BY DEF TakeWhole
<1>2. /\ curr \in Blocks
      /\ Blocks' = Blocks
      /\ hdr' \in [Blocks' -> Header]
      /\ \A b \in Blocks : hdr'[b].next \in Blocks \cup {NULL}
      /\ \A b \in Blocks : hdr'[b].size = hdr[b].size
      /\ hdr'[curr].free = 0
      /\ \A b \in Blocks \ {curr} : hdr'[b].free = hdr[b].free
  BY WholeFacts
<1>3. BlocksTile'
  BY <1>2 DEF IInv, BlocksTile
<1>4. /\ LiveBlocks'
      /\ DOMAIN live' \subseteq Nat /\ live' \in [DOMAIN live' -> Sizes \ {0}]
  <2>1. size + HEADER <= hdr'[curr].size
    <3>1. total_size = size + HEADER /\ size \in Nat /\ HEADER \in Nat
          /\ hdr[curr].size \in Nat
      BY <1>2, TotalSize, BlockFacts DEF IInv
    <3> QED
      BY <1>1, <1>2, <3>1 DEF Fits
  <2>2. Blocks' \subseteq Nat /\ \A b \in Blocks' \ Blocks : hdr'[b].free = 1
    BY <1>2, BlockFacts DEF IInv
  <2> QED
    BY <1>1, <1>2, <2>1, <2>2, ReturnLive
<1>5. /\ free_list' \in Blocks' \cup {NULL} /\ curr' = NULL /\ prev' = NULL
      /\ size' = 0 /\ pc' = "idle"
  BY <1>1, <1>2 DEF IInv, TypeOK, Return
<1>6. TypeOK'
  BY <1>2, <1>4, <1>5 DEF IInv, TypeOK
<1> QED
  BY <1>3, <1>4, <1>6 DEF IInv

\* kfree: one block becomes free and its pointer is gone.
LEMMA KfreeFacts ==
    ASSUME IInv, NEW p, Kfree(p), NEW h, h = HeaderOf(p)
    PROVE  /\ p \in DOMAIN live /\ p \in Nat /\ h \in Blocks /\ p = h + HEADER
           /\ Blocks' = Blocks
           /\ hdr' \in [Blocks' -> Header]
           /\ \A b \in Blocks : hdr'[b].next \in Blocks \cup {NULL}
           /\ \A b \in Blocks : hdr'[b].size = hdr[b].size
           /\ hdr'[h].free = 1
           /\ \A b \in Blocks \ {h} : hdr'[b].free = hdr[b].free
           /\ DOMAIN live' = DOMAIN live \ {p}
           /\ \A q \in DOMAIN live' : live'[q] = live[q]
<1>1. /\ p \in DOMAIN live /\ p \in Nat /\ h = p - HEADER /\ h \in Blocks
      /\ p >= HEADER /\ HEADER \in Nat /\ free_list \in Blocks \cup {NULL}
      /\ hdr \in [Blocks -> Header]
      /\ \A b \in Blocks : hdr[b].next \in Blocks \cup {NULL}
  BY HeapAssumption DEF IInv, TypeOK, LiveBlocks, Kfree, HeaderOf
<1>2. /\ hdr' = [hdr EXCEPT ![h] = Block(hdr[h].size, 1, free_list)]
      /\ live' = [q \in DOMAIN live \ {p} |-> live[q]]
  BY DEF Kfree
<1>3. free_list \in Nat /\ hdr[h].size \in Nat
  BY <1>1, BlockFacts DEF IInv
<1>4. Block(hdr[h].size, 1, free_list) \in Header
  BY <1>3 DEF Block, Header
<1>5. hdr' \in [Blocks -> Header] /\ Blocks' = Blocks
  BY <1>1, <1>2, <1>4 DEF Blocks
<1>6. ASSUME NEW b \in Blocks
      PROVE  /\ hdr'[b].next \in Blocks \cup {NULL}
             /\ hdr'[b].size = hdr[b].size
             /\ hdr'[b].free = IF b = h THEN 1 ELSE hdr[b].free
  <2>1. CASE b = h
    BY <1>1, <1>2, <2>1 DEF Block
  <2>2. CASE b # h
    BY <1>1, <1>2, <2>2
  <2> QED
    BY <2>1, <2>2
<1>7. DOMAIN live' = DOMAIN live \ {p} /\ \A q \in DOMAIN live' : live'[q] = live[q]
  BY <1>2
<1> QED
  BY <1>1, <1>5, <1>6, <1>7

\* kfree preserves the invariant.
LEMMA KfreeIInv == \A p : IInv /\ Kfree(p) => IInv'
<1> SUFFICES ASSUME NEW p, IInv, Kfree(p) PROVE IInv'
  OBVIOUS
<1> DEFINE h == HeaderOf(p)
<1>1. /\ p \in DOMAIN live /\ p \in Nat /\ h \in Blocks /\ p = h + HEADER
      /\ Blocks' = Blocks
      /\ hdr' \in [Blocks' -> Header]
      /\ \A b \in Blocks : hdr'[b].next \in Blocks \cup {NULL}
      /\ \A b \in Blocks : hdr'[b].size = hdr[b].size
      /\ hdr'[h].free = 1
      /\ \A b \in Blocks \ {h} : hdr'[b].free = hdr[b].free
      /\ DOMAIN live' = DOMAIN live \ {p}
      /\ \A q \in DOMAIN live' : live'[q] = live[q]
  BY KfreeFacts
<1>2. free_list' = h /\ UNCHANGED <<curr, prev, size, pc>>
      /\ live' = [q \in DOMAIN live \ {p} |-> live[q]] /\ pc = "idle"
  BY DEF Kfree
<1> HIDE DEF h
<1>3. TypeOK'
  BY <1>1, <1>2 DEF IInv, TypeOK
<1>4. BlocksTile'
  BY <1>1 DEF IInv, BlocksTile
<1>5. HEADER \in Nat /\ \A b \in Blocks : b \in Nat
  BY BlockFacts DEF IInv
<1>6. ASSUME NEW q \in DOMAIN live'
      PROVE  q - HEADER \in Blocks' /\ q >= HEADER
             /\ live'[q] + HEADER <= hdr'[q - HEADER].size
  BY <1>1 DEF IInv, LiveBlocks
<1>7. ASSUME NEW b \in Blocks'
      PROVE  (hdr'[b].free = 0) <=> (b + HEADER \in DOMAIN live')
  <2>1. CASE b = h
    BY <1>1, <2>1
  <2>2. CASE b # h
    <3>1. b + HEADER # p
      BY <1>1, <1>5, <2>2
    <3>2. (hdr[b].free = 0) <=> (b + HEADER \in DOMAIN live)
      BY <1>1 DEF IInv, LiveBlocks
    <3> QED
      BY <1>1, <2>2, <3>1, <3>2
  <2> QED
    BY <2>1, <2>2
<1>8. LiveBlocks'
  BY <1>6, <1>7 DEF LiveBlocks
<1> QED
  BY <1>3, <1>4, <1>8 DEF IInv

\* The other steps only move the cursors of the walk.
LEMMA CursorIInv ==
    IInv /\ ((\E s \in Sizes : Kmalloc(s)) \/ Skip \/ ScanFail \/ UNCHANGED vars) => IInv'
<1> SUFFICES ASSUME IInv, (\E s \in Sizes : Kmalloc(s)) \/ Skip \/ ScanFail \/ UNCHANGED vars
             PROVE  IInv'
  OBVIOUS
<1>1. hdr' = hdr /\ live' = live /\ free_list' = free_list
  BY DEF Kmalloc, Skip, ScanFail, vars
<1>2. Blocks' = Blocks
  BY <1>1 DEF Blocks
<1>3. /\ curr' \in Blocks \cup {NULL} /\ prev' \in Blocks \cup {NULL}
      /\ size' \in Sizes \cup {0} /\ pc' \in {"idle", "scan"}
      /\ pc' = "scan" => size' \in Sizes \ {0}
  BY DEF IInv, TypeOK, Kmalloc, Skip, ScanFail, vars
<1>4. TypeOK'
  BY <1>1, <1>2, <1>3 DEF IInv, TypeOK
<1>5. BlocksTile' /\ LiveBlocks'
  BY <1>1, <1>2 DEF IInv, BlocksTile, LiveBlocks
<1> QED
  BY <1>4, <1>5 DEF IInv

\* The invariant is inductive.
LEMMA NextIInv == IInv /\ [Next]_vars => IInv'
BY TakeSplitIInv, TakeWholeIInv, KfreeIInv, CursorIInv DEF Next, Walk

\* Every reachable state satisfies the invariant.
THEOREM Invariance == Spec => []IInv
<1> QED
  BY InitIInv, NextIInv, PTL DEF Spec

\* The variables of the heap keep their types: every link and every cursor is
\* NULL or the address of a header.
THEOREM TypeCorrect == Spec => []TypeOK
<1>1. IInv => TypeOK
  BY DEF IInv
<1> QED
  BY <1>1, Invariance, PTL

\* kmalloc and kfree keep the heap tiled by its headers.
THEOREM HeadersTileTheHeap == Spec => []BlocksTile
<1>1. IInv => BlocksTile
  BY DEF IInv
<1> QED
  BY <1>1, Invariance, PTL

\* A block is marked taken exactly while a client holds it, and is as large as
\* the client asked for.
THEOREM TakenBlocksAreHeld == Spec => []LiveBlocks
<1>1. IInv => LiveBlocks
  BY DEF IInv
<1> QED
  BY <1>1, Invariance, PTL

-----------------------------------------------------------------------------
\* A step of the heap leaves the blocks of the pointers that stay alive as
\* they were.
LEMMA NextStable ==
    ASSUME IInv, [Next]_vars, NEW p \in DOMAIN live \cap DOMAIN live'
    PROVE  live'[p] = live[p] /\ hdr'[p - HEADER].size = hdr[p - HEADER].size
<1>1. /\ p - HEADER \in Blocks /\ hdr[p - HEADER].free = 0
      /\ HEADER \in Nat /\ p \in Nat
  <2>1. p \in Nat /\ HEADER \in Nat /\ p - HEADER \in Blocks /\ (p - HEADER) + HEADER = p
    BY HeapAssumption DEF IInv, TypeOK, LiveBlocks
  <2> QED
    BY <2>1 DEF IInv, LiveBlocks
<1>2. CASE TakeSplit
  <2> DEFINE new == curr + total_size
  <2>1. curr \in Blocks /\ hdr[curr].free = 1 /\ curr \in Nat
    BY <1>2, BlockFacts DEF IInv, TypeOK, TakeSplit, Fits
  <2>2. hdr'[p - HEADER].size = hdr[p - HEADER].size
    <3>1. \A b \in Blocks \ {curr} : hdr'[b].size = hdr[b].size
      BY <1>2, SplitFacts DEF TakeSplit
    <3> QED
      BY <1>1, <2>1, <3>1
  <2>3. p # curr + HEADER
    BY <1>1, <2>1
  <2>4. live'[p] = live[p]
    BY <1>2, <2>3 DEF TakeSplit, Return
  <2> QED
    BY <2>2, <2>4
<1>3. CASE TakeWhole
  <2>1. curr \in Blocks /\ hdr[curr].free = 1 /\ curr \in Nat
    BY <1>3, BlockFacts DEF IInv, TypeOK, TakeWhole, Fits
  <2>2. hdr'[p - HEADER].size = hdr[p - HEADER].size
    BY <1>1, <1>3, WholeFacts
  <2>3. p # curr + HEADER
    BY <1>1, <2>1
  <2>4. live'[p] = live[p]
    BY <1>3, <2>3 DEF TakeWhole, Return
  <2> QED
    BY <2>2, <2>4
<1>4. CASE \E q \in DOMAIN live : Kfree(q)
  <2>1. PICK q \in DOMAIN live : Kfree(q)
    BY <1>4
  <2> QED
    BY <1>1, <2>1, KfreeFacts
<1>5. CASE (\E s \in Sizes : Kmalloc(s)) \/ Skip \/ ScanFail \/ UNCHANGED vars
  BY <1>5 DEF Kmalloc, Skip, ScanFail, vars
<1> QED
  BY <1>2, <1>3, <1>4, <1>5 DEF Next, Walk

\* The walk of one client's kmalloc, which passes over the blocks of the others,
\* never resizes a block that is in a client's hands.
THEOREM HeldBlocksStay == Spec => LiveBlocksStable
<1>1. IInv /\ [Next]_vars =>
        [\A p \in DOMAIN live \cap DOMAIN live' :
            /\ live'[p] = live[p]
            /\ hdr'[p - HEADER].size = hdr[p - HEADER].size]_vars
  BY NextStable
<1> QED
  BY <1>1, Invariance, PTL DEF Spec, LiveBlocksStable

-----------------------------------------------------------------------------
\* The pointer a successful kmalloc returns is a region of the arena that
\* meets no region in a client's hands.
LEMMA ReturnAllocates ==
    ASSUME IInv, pc = "scan", curr # NULL, Fits(curr), Return
    PROVE  /\ size \in Sizes /\ curr + HEADER \in HEAP_START .. (HEAP_END - 1)
           /\ A!Alloc(curr + HEADER, size)
<1> DEFINE p == curr + HEADER
<1>1. /\ size \in Sizes \ {0} /\ curr \in Blocks
      /\ size \in Nat /\ size > 0 /\ total_size = size + HEADER
  BY TotalSize DEF IInv, TypeOK
<1>2. /\ HEADER \in Nat /\ HEADER > 0 /\ HEAP_START \in Nat /\ HEAP_SIZE \in Nat
      /\ \A b \in Blocks : /\ b \in Nat /\ b <= HEAP_START + HEAP_SIZE
                           /\ hdr[b].size \in Nat /\ b >= HEAP_START
  BY BlockFacts DEF IInv, TypeOK, Address
<1>3. /\ curr \in Nat /\ hdr[curr].free = 1 /\ size + HEADER <= hdr[curr].size
      /\ curr >= HEAP_START
      /\ curr + hdr[curr].size <= HEAP_START + HEAP_SIZE
  <2>1. curr + hdr[curr].size \in Blocks \cup {HEAP_END}
    BY <1>1 DEF IInv, BlocksTile
  <2> QED
    BY <1>1, <1>2, <2>1 DEF Fits
<1>4. p \in Nat /\ p \notin DOMAIN live
  BY <1>1, <1>2, <1>3 DEF IInv, LiveBlocks
<1>5. p \in HEAP_START .. (HEAP_END - 1) /\ A!Region(p, size) \subseteq HEAP_START .. (HEAP_END - 1)
  BY <1>1, <1>2, <1>3 DEF A!Region
<1>6. ASSUME NEW q \in DOMAIN live
      PROVE  A!Region(p, size) \cap A!Region(q, live[q]) = {}
  <2> DEFINE c == q - HEADER
  <2>1. /\ q \in Nat /\ c \in Blocks /\ live[q] \in Nat /\ q >= HEADER
        /\ live[q] + HEADER <= hdr[c].size
    BY HeapAssumption DEF IInv, TypeOK, LiveBlocks
  <2>2. c \in Nat /\ q = c + HEADER /\ c # curr
    BY <1>2, <1>4, <2>1
  <2>3. hdr[c].size \in Nat
    BY <1>2, <2>1
  <2> HIDE DEF c
  <2>4. CASE c < curr
    <3>1. c + hdr[c].size <= curr
      BY <1>1, <2>1, <2>4 DEF IInv, BlocksTile
    <3> QED
      BY <1>1, <1>2, <1>3, <2>1, <2>2, <2>3, <3>1 DEF A!Region
  <2>5. CASE curr < c
    <3>1. curr + hdr[curr].size <= c
      BY <1>1, <2>1, <2>5 DEF IInv, BlocksTile
    <3>2. hdr[curr].size \in Nat
      BY <1>1, <1>2
    <3> QED
      BY <1>1, <1>2, <1>3, <2>1, <2>2, <2>3, <3>1, <3>2 DEF A!Region
  <2> QED
    BY <1>3, <2>2, <2>4, <2>5
<1>7. live' = [q \in DOMAIN live \cup {p} |-> IF q = p THEN size ELSE live[q]]
  BY DEF Return
<1> QED
  BY <1>1, <1>4, <1>5, <1>6, <1>7 DEF A!Alloc

\* A pointer in a client's hands lies in the arena.
LEMMA LiveInArena ==
    ASSUME IInv, NEW p \in DOMAIN live
    PROVE  p \in HEAP_START .. (HEAP_END - 1)
<1> DEFINE c == p - HEADER
<1>1. /\ p \in Nat /\ c \in Blocks /\ live[p] \in Nat /\ live[p] > 0
      /\ p >= HEADER /\ live[p] + HEADER <= hdr[c].size
  BY HeapAssumption DEF IInv, TypeOK, LiveBlocks
<1>2. /\ HEADER \in Nat /\ HEAP_START \in Nat /\ HEAP_SIZE \in Nat
      /\ c \in Nat /\ c >= HEAP_START /\ hdr[c].size \in Nat
      /\ c + hdr[c].size <= HEAP_START + HEAP_SIZE
  <2>1. /\ HEADER \in Nat /\ HEAP_START \in Nat /\ HEAP_SIZE \in Nat
        /\ \A b \in Blocks : /\ b \in Nat /\ b <= HEAP_START + HEAP_SIZE
                             /\ hdr[b].size \in Nat /\ b >= HEAP_START
    BY BlockFacts DEF IInv, TypeOK, Address
  <2>2. c + hdr[c].size \in Blocks \cup {HEAP_END}
    BY <1>1 DEF IInv, BlocksTile
  <2> QED
    BY <1>1, <2>1, <2>2
<1> QED
  BY <1>1, <1>2

\* kmalloc and kfree implement the abstract allocator: what is handed out lies
\* in the heap and overlaps nothing that is held, on every history of requests
\* and frees and for every heap.
THEOREM HeapIsAllocator == Spec => AllocatorSpec
<1>1. Init => A!Init
  BY DEF Init, A!Init
<1>2. IInv /\ [Next]_vars => [A!Next]_live
  <2> SUFFICES ASSUME IInv, [Next]_vars PROVE [A!Next]_live
    OBVIOUS
  <2>1. CASE TakeSplit \/ TakeWhole
    <3>1. pc = "scan" /\ curr # NULL /\ Fits(curr) /\ Return
      BY <2>1 DEF TakeSplit, TakeWhole
    <3> QED
      BY <3>1, ReturnAllocates DEF A!Next
  <2>2. CASE \E p \in DOMAIN live : Kfree(p)
    <3>1. PICK p \in DOMAIN live : Kfree(p)
      BY <2>2
    <3>2. A!Free(p) /\ p \in HEAP_START .. (HEAP_END - 1)
      BY <3>1, LiveInArena DEF Kfree, A!Free
    <3> QED
      BY <3>2 DEF A!Next
  <2>3. CASE (\E s \in Sizes : Kmalloc(s)) \/ Skip \/ ScanFail \/ UNCHANGED vars
    BY <2>3 DEF Kmalloc, Skip, ScanFail, vars
  <2> QED
    BY <2>1, <2>2, <2>3 DEF Next, Walk
<1> QED
  BY <1>1, <1>2, Invariance, PTL DEF Spec, AllocatorSpec, A!Spec
=============================================================================
