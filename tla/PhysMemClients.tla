---------------------------- MODULE PhysMemClients ----------------------------
(***************************************************************************)
(* The page allocator together with clients that write the pages they are  *)
(* given, as any client may.  pm_init puts the bitmap itself in memory, at *)
(* 0x100000, which is the first page above the 256 it marks as used; the   *)
(* kernel image is loaded at the same address (kernel/linker.ld).          *)
(***************************************************************************)
EXTENDS PhysMem

\* The frame that holds memory_bitmap: 0x100000 / PAGE_SIZE = 256.
BITMAP_FRAME == LOW

\* A write to a page; to the bitmap's page it may leave any bits there.
ClientWrite(frame) ==
    /\ frame \in held
    /\ frame = BITMAP_FRAME
    /\ bitmap' \in [Words -> SUBSET Bits]
    /\ UNCHANGED <<held, exhausted>>

ClientNext == Next \/ \E frame \in held : ClientWrite(frame)

ClientSpec == Init /\ [][ClientNext]_vars

\* An allocator of physical memory never hands out a page a client holds: the
\* page pm_alloc_page is about to return is in nobody's hands.
HandedOutOnce ==
    \A i \in Words, j \in Bits : FirstClear(i, j) => Frame(i, j) \notin held
=============================================================================
