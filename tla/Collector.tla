------------------------------- MODULE Collector -------------------------------
(***************************************************************************)
(* GarbageCollector of gc.rs with the arrays of runtime.rs.                *)
(*                                                                         *)
(* An object is a header and its data, a block of the system's allocator   *)
(* (external: it answers with a free block at one of GcBases, or fails);   *)
(* `live` holds the objects that have not been given back.  mark is one    *)
(* step, sweep one step per object.  Clients pass any address to add_root, *)
(* addresses of objects long gone included.  The tag of an object, which   *)
(* mark_object inspects to no effect, the number of collections and their  *)
(* time are left out.                                                      *)
(***************************************************************************)
EXTENDS AllocParameters, FiniteSets, Functions

VARIABLES
  all_objects,
  header,           \* address of an object -> GcHeader
  roots,
  bytes_allocated,
  stats,
  live,
  call,             \* what the collector is doing, and for whom
  prev, current     \* the loop of sweep

counters == <<bytes_allocated, stats>>
vars == <<all_objects, header, roots, counters, live, call, prev, current>>

Idle    == [op |-> "none", arg |-> 0]
Dropped == [op |-> "dropped", arg |-> 0]
Crashed == [op |-> "crashed", arg |-> 0]

Init ==
  /\ all_objects = NULL /\ header = <<>> /\ roots = {}
  /\ bytes_allocated = 0
  /\ stats = [objects_allocated |-> 0, objects_freed |-> 0,
              bytes_allocated |-> 0, bytes_freed |-> 0]
  /\ live = {}
  /\ call = Idle /\ prev = NULL /\ current = NULL

total_size(n) == align_up(GC_HEADER_SIZE + n, ALIGNMENT)

\* The data of the object at a, which mark_object takes a root for.
Data(a) == a + GC_HEADER_SIZE

(***************************************************************************)
(* Roots.                                                                  *)
(***************************************************************************)
\* base_ptr and gc_ptr of the array at a: its data starts with an ArrayHeader.
base_ptr(a) == Data(a)
gc_ptr(a)   == Data(a) + ARRAY_HEADER_SIZE

Pointers == {NULL} \cup {base_ptr(a) : a \in GcBases} \cup {gc_ptr(a) : a \in GcBases}

SetRoots(rs) ==
  /\ call = Idle
  /\ roots' = rs
  /\ UNCHANGED <<all_objects, header, counters, live, call, prev, current>>

add_root(p)    == SetRoots(roots \cup {p})
remove_root(p) == SetRoots(roots \ {p})
clear_roots    == SetRoots({})

(***************************************************************************)
(* collect.                                                                *)
(***************************************************************************)
\* MUTANT of is_gc_object: the object at the head of the list is missed.
IsGcObjectBehindHead(a) == a \in DOMAIN header \ {all_objects}

is_gc_object(a) == a \in DOMAIN header

Marked == {a \in {p - GC_HEADER_SIZE : p \in roots \ {NULL}} : is_gc_object(a)}

\* mark, and the first lines of sweep.  What follows is in `then`.
Collect(then) ==
  /\ header' = [a \in DOMAIN header |->
                  IF a \in Marked THEN [header[a] EXCEPT !.marked = TRUE] ELSE header[a]]
  /\ call' = [op |-> "sweep", then |-> then]
  /\ prev' = NULL /\ current' = all_objects
  /\ UNCHANGED <<all_objects, roots, counters, live>>

collect == call = Idle /\ Collect(Idle)

Sweeping == call.op = "sweep" /\ current # NULL

\* MUTANT of Unmark: the mark stays.
UnmarkNot == UNCHANGED header

Unmark == header' = [header EXCEPT ![current].marked = FALSE]

SweepMarked ==
  /\ Sweeping /\ header[current].marked
  /\ Unmark
  /\ prev' = current /\ current' = header[current].next
  /\ UNCHANGED <<all_objects, roots, counters, live, call>>

\* MUTANT of Unlink: the head moves on, whatever is in front of the object.
UnlinkHead(next) ==
  /\ all_objects' = next
  /\ header' = [a \in DOMAIN header \ {current} |-> header[a]]

Unlink(next) ==
  /\ all_objects' = IF prev = NULL THEN next ELSE all_objects
  /\ header' = [a \in DOMAIN header \ {current} |->
                  IF a = prev THEN [header[a] EXCEPT !.next = next] ELSE header[a]]

\* MUTANT of Uncount: the size without header and padding is subtracted.
UncountData(n) ==
  /\ bytes_allocated' = bytes_allocated - n
  /\ stats' = [stats EXCEPT !.bytes_freed = @ + n, !.objects_freed = @ + 1]

Uncount(n) ==
  /\ bytes_allocated' = bytes_allocated - total_size(n)
  /\ stats' = [stats EXCEPT !.bytes_freed = @ + total_size(n), !.objects_freed = @ + 1]

SweepGarbage ==
  /\ Sweeping /\ ~header[current].marked
  /\ Unlink(header[current].next)
  /\ Uncount(header[current].size)
  /\ live' = {b \in live : b.ptr # Data(current)}
  /\ current' = header[current].next
  /\ UNCHANGED <<roots, call, prev>>

SweepDone ==
  /\ call.op = "sweep" /\ current = NULL
  /\ call' = call.then /\ prev' = NULL
  /\ UNCHANGED <<all_objects, header, roots, counters, live, current>>

(***************************************************************************)
(* alloc.                                                                  *)
(***************************************************************************)
\* MUTANT of MustCollect: the object to come is not counted.
MustCollectLate(n) == bytes_allocated > gc_threshold

MustCollect(n) == bytes_allocated + n > gc_threshold

\* alloc of a blob, alloc_int_array, GcArray::new (with its ArrayHeader).
Alloc(n) ==
  /\ call = Idle
  /\ stats.objects_allocated < MaxAllocations
  /\ LET request == [op |-> "request", arg |-> n]
     IN  IF MustCollect(n)
         THEN Collect(request)
         ELSE /\ call' = request
              /\ UNCHANGED <<all_objects, header, roots, counters, live, prev, current>>

\* External: where the system has room for n bytes.
FreeBases(n) ==
  {a \in GcBases :
     \A o \in DOMAIN header :
       \/ a + n <= o
       \/ o + total_size(header[o].size) <= a}

Link(a, n) ==
  /\ header' = [o \in DOMAIN header \cup {a} |->
                  IF o = a THEN [size |-> n, marked |-> FALSE, next |-> all_objects]
                  ELSE header[o]]
  /\ all_objects' = a

Granted ==
  /\ call.op = "request"
  /\ \E a \in FreeBases(total_size(call.arg)) :
       /\ Link(a, call.arg)
       /\ live' = live \cup {[ptr |-> Data(a), len |-> call.arg, align |-> ALIGNMENT]}
  /\ bytes_allocated' = bytes_allocated + total_size(call.arg)
  /\ stats' = [stats EXCEPT !.bytes_allocated = @ + total_size(call.arg),
                            !.objects_allocated = @ + 1]
  /\ call' = Idle
  /\ UNCHANGED <<roots, prev, current>>

\* The system is out of memory at the first attempt ...
Refused == call.op = "request" /\ Collect([op |-> "retry", arg |-> call.arg])

\* ... and at the second one: alloc returns None.
RefusedAgain ==
  /\ call.op = "retry" /\ call' = Idle
  /\ UNCHANGED <<all_objects, header, roots, counters, live, prev, current>>

\* The second attempt succeeds, but its pointer is a variable of the inner
\* block: the header is written through the null of the first attempt.
GrantedTooLate ==
  /\ call.op = "retry" /\ FreeBases(total_size(call.arg)) # {}
  /\ call' = Crashed
  /\ UNCHANGED <<all_objects, header, roots, counters, live, prev, current>>

\* Drop gives every object back.
Drop ==
  /\ call = Idle
  /\ live' = {} /\ header' = <<>> /\ all_objects' = NULL
  /\ call' = Dropped
  /\ UNCHANGED <<roots, counters, prev, current>>

Step ==
  \/ SweepMarked \/ SweepGarbage \/ SweepDone
  \/ Granted \/ Refused \/ RefusedAgain \/ GrantedTooLate

Next ==
  \/ \E p \in Pointers : add_root(p) \/ remove_root(p)
  \/ clear_roots \/ collect
  \/ \E n \in ObjectSizes : Alloc(n)
  \/ Step
  \/ Drop

Spec == Init /\ [][Next]_vars

(***************************************************************************)
(* Properties.                                                             *)
(***************************************************************************)
Memory == UNION {a .. a + total_size(n) - 1 : a \in GcBases, n \in ObjectSizes}

Over == call \in {Dropped, Crashed}

\* The k-th object of the list.
nth[k \in Nat] ==
  IF k = 0 THEN all_objects
  ELSE IF nth[k - 1] = NULL THEN NULL ELSE header[nth[k - 1]].next

\* The list runs through every object that was not given back once and ends, in
\* the middle of a sweep too, and no mark outlives it: alloc, mark and sweep
\* find each object and none that is gone.
ListExact ==
  LET n == Cardinality(live)
  IN  /\ {Data(a) : a \in DOMAIN header} = {b.ptr : b \in live}
      /\ {nth[k] : k \in 0 .. n - 1} = DOMAIN header
      /\ nth[n] = NULL
      /\ call.op # "sweep" => \A a \in DOMAIN header : ~header[a].marked

\* What stats() and bytes_allocated() report adds up to the objects in the list.
StatsAgree ==
  ~Over =>
    /\ bytes_allocated = SumFunction([a \in DOMAIN header |-> total_size(header[a].size)])
    /\ stats.bytes_allocated - stats.bytes_freed = bytes_allocated
    /\ stats.objects_allocated - stats.objects_freed = Cardinality(live)

\* An object whose data pointer is a root is not given back, by any collection,
\* until it is dropped with the collector.
Rooted == call' # Dropped => \A b \in live : b.ptr \in roots => b \in live'

\* A collection leaves nothing else: an object whose root was removed is not
\* kept by a mark of an earlier collection, nor by a pointer into its data.
SweepComplete ==
  call.op = "sweep" /\ current = NULL => \A b \in live : b.ptr \in roots

\* Garbage is bounded: alloc exceeds the threshold by more than a header only
\* with objects that are all rooted.
Bounded ==
  live' \ live # {} =>
    \/ bytes_allocated' <= gc_threshold + GC_HEADER_SIZE + ALIGNMENT
    \/ \A b \in live : b.ptr \in roots
===============================================================================
