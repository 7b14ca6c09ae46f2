--------------------------------- MODULE Slab ---------------------------------
(***************************************************************************)
(* SlabAllocator of alloc.rs: objects of one size, free ones linked        *)
(* through their own first word.  `link` holds these words; the word of an *)
(* object in use belongs to its client and is not kept.                    *)
(***************************************************************************)
EXTENDS AllocParameters, FiniteSets

VARIABLES
  slabs,            \* the bases of the slabs
  free_list,
  link,             \* address of a free object -> the next one
  allocation_count,
  live              \* the objects the clients hold

vars == <<slabs, free_list, link, allocation_count, live>>

\* A free object holds a link.
object_size ==
  align_up(IF requested_size < POINTER_SIZE THEN POINTER_SIZE ELSE requested_size,
           ALIGNMENT)

Objects(base) == {base + i * object_size : i \in 0 .. objects_per_slab - 1}
Span(base)    == base .. base + object_size * objects_per_slab - 1

Init ==
  /\ slabs = {} /\ free_list = NULL /\ link = <<>>
  /\ allocation_count = 0
  /\ live = {}

\* MUTANT of NewLinks: the last object links to the first.
NewLinksCyclic(base) ==
  [a \in Objects(base) |->
     IF a + object_size \in Objects(base) THEN a + object_size ELSE base]

\* allocate_slab: the objects are linked in order, the last to the old list.
NewLinks(base) ==
  [a \in Objects(base) |->
     IF a + object_size \in Objects(base) THEN a + object_size ELSE free_list]

\* MUTANT of Object: one byte of the next object is handed out too.
ObjectPlusOne(a) == [ptr |-> a, len |-> object_size + 1, align |-> ALIGNMENT]

Object(a) == [ptr |-> a, len |-> object_size, align |-> ALIGNMENT]

\* The object at the head of the list goes to the client.
Pop(head, links) ==
  /\ free_list' = links[head]
  /\ link' = [a \in DOMAIN links \ {head} |-> links[a]]
  /\ allocation_count' = allocation_count + 1
  /\ live' = live \cup {Object(head)}

\* MUTANT of NeedsSlab: a slab is allocated ahead of need.
NeedsSlabEarly == IF free_list = NULL THEN TRUE ELSE link[free_list] = NULL

NeedsSlab == free_list = NULL

\* The system's memory is not exhausted; a new slab overlaps no other one.
AllocNewSlab ==
  /\ NeedsSlab /\ Cardinality(slabs) < MaxSlabs
  /\ \E base \in Bases :
       /\ \A s \in slabs : Span(base) \cap Span(s) = {}
       /\ slabs' = slabs \cup {base}
       /\ Pop(base, [a \in DOMAIN link \cup Objects(base) |->
                       IF a \in Objects(base) THEN NewLinks(base)[a] ELSE link[a]])

Alloc == ~NeedsSlab /\ Pop(free_list, link) /\ UNCHANGED slabs

Free(b) ==
  /\ link' = [a \in DOMAIN link \cup {b.ptr} |->
                IF a = b.ptr THEN free_list ELSE link[a]]
  /\ free_list' = b.ptr
  /\ allocation_count' = allocation_count - 1
  /\ live' = live \ {b}
  /\ UNCHANGED slabs

Next == AllocNewSlab \/ Alloc \/ \E b \in live : Free(b)

Spec == Init /\ [][Next]_vars

(***************************************************************************)
(* Properties.                                                             *)
(***************************************************************************)
AllObjects  == UNION {Objects(s) : s \in slabs}
FreeObjects == AllObjects \ {b.ptr : b \in live}

\* The k-th object of the list.
nth[k \in Nat] ==
  IF k = 0 THEN free_list
  ELSE IF nth[k - 1] = NULL THEN NULL ELSE link[nth[k - 1]]

\* The list runs through every free object once and ends: none is lost over
\* any sequence of calls, and none is handed out twice (allocate_slab, alloc
\* and free).  With it, stats() counts right.
ListExact ==
  LET n == Cardinality(FreeObjects)
  IN  /\ DOMAIN link = FreeObjects
      /\ {nth[k] : k \in 0 .. n - 1} = FreeObjects
      /\ nth[n] = NULL
      /\ allocation_count = Cardinality(AllObjects) - n

\* A slab is allocated only when every object is in use.
GrowsOnlyWhenFull == [][slabs' # slabs => FreeObjects = {}]_vars
===============================================================================
