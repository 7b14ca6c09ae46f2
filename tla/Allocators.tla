------------------------------ MODULE Allocators ------------------------------
(***************************************************************************)
(* The allocators of alloc.rs and the collector of gc.rs against the one   *)
(* promise their clients rely on.  `which` names the allocator a behaviour *)
(* uses; variables that it does not have stay unused.                      *)
(***************************************************************************)
EXTENDS AllocParameters

VARIABLES
  which,
  live,                                     \* every allocator
  allocation_count,                         \* Bump, FreeList, Slab
  bytes_allocated,                          \* Bump, FreeList, Collector
  start, size,                              \* Bump, FreeList
  ptr,                                      \* Bump
  free_list,                                \* FreeList, Slab
  header, call, prev, current,              \* FreeList, Collector
  slabs, link,                              \* Slab
  all_objects, roots, stats                 \* Collector

B == INSTANCE Bump
F == INSTANCE FreeList
S == INSTANCE Slab
C == INSTANCE Collector

collectorOnly == <<all_objects, roots, stats>>

vars == <<which, allocation_count, live, start, size, bytes_allocated, ptr,
          free_list, header, call, prev, current, slabs, link, all_objects, roots, stats>>

Init ==
  \/ /\ which = "bump" /\ B!Init
     /\ free_list = NULL /\ header = NULL /\ call = F!Idle /\ prev = NULL
     /\ current = NULL /\ slabs = NULL /\ link = NULL
     /\ all_objects = NULL /\ roots = NULL /\ stats = NULL
  \/ /\ which = "free_list" /\ F!Init
     /\ ptr = NULL /\ slabs = NULL /\ link = NULL
     /\ all_objects = NULL /\ roots = NULL /\ stats = NULL
  \/ /\ which = "slab" /\ S!Init
     /\ start = NULL /\ size = NULL /\ bytes_allocated = NULL /\ ptr = NULL
     /\ header = NULL /\ call = F!Idle /\ prev = NULL /\ current = NULL
     /\ all_objects = NULL /\ roots = NULL /\ stats = NULL
  \/ /\ which = "collector" /\ C!Init
     /\ allocation_count = NULL /\ start = NULL /\ size = NULL /\ ptr = NULL
     /\ free_list = NULL /\ slabs = NULL /\ link = NULL

UseBump ==
  /\ which = "bump" /\ B!Next
  /\ UNCHANGED <<which, free_list, header, call, prev, current, slabs, link,
                 collectorOnly>>

UseFreeList ==
  /\ which = "free_list" /\ F!Next
  /\ UNCHANGED <<which, ptr, slabs, link, collectorOnly>>

UseSlab ==
  /\ which = "slab" /\ S!Next
  /\ UNCHANGED <<which, start, size, bytes_allocated, ptr, header, call, prev, current,
                 collectorOnly>>

UseCollector ==
  /\ which = "collector" /\ C!Next
  /\ UNCHANGED <<which, allocation_count, start, size, ptr, free_list, slabs, link>>

\* A collector that was dropped, or a process that died, does nothing more.
CollectorOver == which = "collector" /\ C!Over /\ UNCHANGED vars

Next == UseBump \/ UseFreeList \/ UseSlab \/ UseCollector \/ CollectorOver

\* A call in progress goes on; clients need not call.
InCall == call # F!Idle /\ (UseFreeList \/ UseCollector)

Spec     == Init /\ [][Next]_vars
FairSpec == Spec /\ WF_vars(InCall)

(***************************************************************************)
(* Properties.                                                             *)
(***************************************************************************)

\* Every allocator keeps the promise of Heap: no request is answered with
\* memory that is in use, not its own or not aligned.
H == INSTANCE Heap WITH
       memory <- CASE which = "slab" -> UNION {S!Span(s) : s \in slabs}
                   [] which = "collector" -> C!Memory
                   [] OTHER -> start .. start + size - 1
ImplementsHeap == H!HeapSpec

\* What stats() reports adds up, for the allocators that count: the counters are
\* those of the blocks in use, and for FreeListAllocator of its list
\* (StatsAgree of Bump, FreeList and Collector).
CountersAgree ==
  CASE which = "bump"      -> B!StatsAgree
    [] which = "free_list" -> F!StatsAgree
    [] which = "collector" -> C!StatsAgree
    [] OTHER -> TRUE

\* The blocks of FreeListAllocator tile its arena, used and free ones, a client's
\* bytes lie within its block, and no two free blocks touch between calls.
FreeListTiled ==
  which = "free_list" => F!TypeOK /\ F!Tiled /\ F!DataInsideBlocks /\ F!Coalesced

\* The list that lives in the managed memory is exact: it holds the free blocks,
\* sorted (FreeList), every free object once (Slab), every object that was not
\* given back, in the middle of a sweep too (Collector).
ListsExact ==
  CASE which = "free_list" -> F!ListExact
    [] which = "slab"      -> S!ListExact
    [] which = "collector" -> C!ListExact
    [] OTHER -> TRUE

\* The calls that loop, alloc and free of FreeListAllocator and alloc and collect
\* of the collector, return: they run along finite lists.
CallsReturn == (call # F!Idle) ~> (call = F!Idle \/ C!Over)

\* A slab is allocated only when every object is in use: objects that were
\* freed, in whatever order, are all found again.
SlabGrowsOnlyWhenFull == S!GrowsOnlyWhenFull

\* A collection gives back every object that is not rooted (Collector).
CollectorSweepComplete == which = "collector" => C!SweepComplete

\* A rooted object survives every collection (Collector).
CollectorRootedSurvive == [][which = "collector" => C!Rooted]_vars

\* alloc lets garbage grow to the threshold and no further (Collector).
CollectorGarbageBounded == [][which = "collector" => C!Bounded]_vars
===============================================================================
