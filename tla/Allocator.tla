------------------------------ MODULE Allocator ------------------------------
(***************************************************************************)
(* What a memory allocator of the kernel promises its clients, whatever    *)
(* its bookkeeping: a request either fails and nothing changes, or hands   *)
(* out a region of the arena that no client holds; a client gives back     *)
(* what it holds and nothing else.  kmalloc/kfree (module Heap) and        *)
(* pm_alloc_page/pm_free_page (module PhysMem) both implement it.          *)
(***************************************************************************)
EXTENDS Naturals

CONSTANTS Arena,    \* the addresses that may be handed out
          Requests  \* the sizes clients ask for

VARIABLE live       \* the regions in clients' hands: start address -> size

Region(p, s) == p .. (p + s - 1)

Init == live = << >>

\* A failed request is a stuttering step of this specification.
Alloc(p, s) ==
    /\ p \notin DOMAIN live
    /\ Region(p, s) \subseteq Arena
    /\ \A q \in DOMAIN live : Region(p, s) \cap Region(q, live[q]) = {}
    /\ live' = [q \in DOMAIN live \cup {p} |-> IF q = p THEN s ELSE live[q]]

Free(p) ==
    /\ p \in DOMAIN live
    /\ live' = [q \in DOMAIN live \ {p} |-> live[q]]

Next == \/ \E s \in Requests, p \in Arena : Alloc(p, s)
        \/ \E p \in Arena : Free(p)

Spec == Init /\ [][Next]_live
=============================================================================
