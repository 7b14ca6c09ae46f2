--------------------------------- MODULE Bump ---------------------------------
(***************************************************************************)
(* BumpAllocator of alloc.rs.  alloc, alloc_zeroed and alloc_typed are     *)
(* alloc_aligned with an alignment of their own.  `live` is what the       *)
(* clients hold; `size` is the capacity.  Requests are far from usize::MAX.*)
(***************************************************************************)
EXTENDS AllocParameters, Functions

VARIABLES start, size, ptr, allocation_count, bytes_allocated, live

vars == <<start, size, ptr, allocation_count, bytes_allocated, live>>

end == start + size

Init ==
  /\ start \in Bases /\ size \in Capacities
  /\ ptr = start
  /\ allocation_count = 0 /\ bytes_allocated = 0
  /\ live = {}

\* MUTANT of Aligned: the offset is aligned, not the address.
AlignedOffset(align) == start + align_up(ptr - start, align)

Aligned(align) == align_up(ptr, align)

Fits(n, align) == Aligned(align) + n <= end

\* Out of memory changes nothing.
AllocAligned(n, align) ==
  /\ Fits(n, align)
  /\ ptr' = Aligned(align) + n
  /\ allocation_count' = allocation_count + 1
  /\ bytes_allocated' = bytes_allocated + n
  /\ live' = live \cup {[ptr |-> Aligned(align), len |-> n, align |-> align]}
  /\ UNCHANGED <<start, size>>

\* MUTANT of ResetCounters: the bytes are not reset.
ResetCountOnly == allocation_count' = 0 /\ UNCHANGED bytes_allocated

ResetCounters == allocation_count' = 0 /\ bytes_allocated' = 0

Reset ==
  /\ ptr' = start
  /\ ResetCounters
  /\ live' = {}
  /\ UNCHANGED <<start, size>>

Alloc ==
  /\ allocation_count < MaxAllocations
  /\ \E n \in Sizes, align \in Alignments : AllocAligned(n, align)

Next == Alloc \/ Reset

Spec == Init /\ [][Next]_vars

(***************************************************************************)
(* Properties.                                                             *)
(***************************************************************************)
used == ptr - start

\* What stats() reports makes sense: `capacity - used` does not underflow, and
\* the bytes counted are those in use, which all lie below ptr.
StatsAgree ==
  /\ used \in 0 .. size
  /\ bytes_allocated = SumFunction([b \in live |-> b.len])
  /\ bytes_allocated <= used
  /\ \A b \in live : b.ptr + b.len <= ptr
===============================================================================
