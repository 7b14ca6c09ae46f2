------------------------------- MODULE FreeList -------------------------------
(***************************************************************************)
(* FreeListAllocator of alloc.rs: first fit, split, coalesce.              *)
(*                                                                         *)
(* The headers in the arena are kept as a function from the addresses of   *)
(* the blocks, allocated ones included; a header that a neighbour absorbs  *)
(* is dropped, its bytes are free memory.  A call is a few steps: one for  *)
(* each turn of its search loop and one for what follows the loop.  `live` *)
(* is what the clients hold; free is called with one of these pointers, as *)
(* its safety comment demands.  Sizes are far from usize::MAX.             *)
(***************************************************************************)
EXTENDS AllocParameters, FiniteSets, FiniteSetsExt

VARIABLES
  start, size,      \* the arena
  free_list,
  header,           \* address of a block -> BlockHeader
  allocation_count,
  bytes_allocated,
  live,             \* the blocks the clients hold
  call,             \* the call in progress
  prev, current     \* its search loop

arena == <<start, size>>
counters == <<allocation_count, bytes_allocated>>
vars == <<arena, free_list, header, counters, live, call, prev, current>>

Idle == [op |-> "none", arg |-> 0]

MIN_BLOCK_SIZE == HEADER_SIZE + ALIGNMENT

min_size == Max({align_up(call.arg + HEADER_SIZE, ALIGNMENT), MIN_BLOCK_SIZE})

Init ==
  /\ start \in Bases /\ size \in Capacities
  /\ free_list = start
  /\ header = [a \in {start} |-> [size |-> size, next |-> NULL]]
  /\ allocation_count = 0 /\ bytes_allocated = 0
  /\ live = {}
  /\ call = Idle /\ prev = NULL /\ current = NULL

\* The first lines of alloc and free: a search from the head of the list.
Search(op, arg) ==
  /\ call = Idle
  /\ call' = [op |-> op, arg |-> arg]
  /\ prev' = NULL /\ current' = free_list
  /\ UNCHANGED <<arena, free_list, header>>

\* MUTANT of Advance: the loop does not follow the link.
AdvanceNot ==
  /\ prev' = current
  /\ UNCHANGED <<current, arena, free_list, header, counters, live, call>>

Advance ==
  /\ prev' = current /\ current' = header[current].next
  /\ UNCHANGED <<arena, free_list, header, counters, live, call>>

Answer ==
  /\ call' = Idle /\ prev' = NULL /\ current' = NULL
  /\ UNCHANGED arena

(***************************************************************************)
(* alloc.                                                                  *)
(***************************************************************************)
Alloc(n) == Search("alloc", n) /\ UNCHANGED <<counters, live>>

Fits == header[current].size >= min_size

TooSmall == call.op = "alloc" /\ current # NULL /\ ~Fits /\ Advance

\* *self.free_list.get() = a, unless a block before it links to a.
HeadAfter(a) == IF prev = NULL THEN a ELSE free_list

\* MUTANT of HandOut: the size asked for is counted, not that of the block.
HandOutMinSize(n) ==
  /\ allocation_count' = allocation_count + 1
  /\ bytes_allocated' = bytes_allocated + min_size
  /\ live' = live \cup {[ptr |-> current + HEADER_SIZE, len |-> call.arg,
                         align |-> ALIGNMENT]}
  /\ Answer

\* The block at current, of n bytes, goes to the client.
HandOut(n) ==
  /\ allocation_count' = allocation_count + 1
  /\ bytes_allocated' = bytes_allocated + n
  /\ live' = live \cup {[ptr |-> current + HEADER_SIZE, len |-> call.arg,
                         align |-> ALIGNMENT]}
  /\ Answer

remaining == header[current].size - min_size

SplitsOff == remaining >= MIN_BLOCK_SIZE

Split ==
  /\ call.op = "alloc" /\ current # NULL /\ Fits /\ SplitsOff
  /\ LET new_block == current + min_size
     IN  /\ header' =
              [a \in DOMAIN header \cup {new_block} |->
                 CASE a = new_block -> [size |-> remaining, next |-> header[current].next]
                   [] a = current -> [size |-> min_size, next |-> NULL]
                   [] a = prev -> [header[prev] EXCEPT !.next = new_block]
                   [] OTHER -> header[a]]
         /\ free_list' = HeadAfter(new_block)
  /\ HandOut(min_size)

UseWhole ==
  /\ call.op = "alloc" /\ current # NULL /\ Fits /\ ~SplitsOff
  /\ header' = [a \in DOMAIN header |->
                  CASE a = current -> [header[current] EXCEPT !.next = NULL]
                    [] a = prev -> [header[prev] EXCEPT !.next = header[current].next]
                    [] OTHER -> header[a]]
  /\ free_list' = HeadAfter(header[current].next)
  /\ HandOut(header[current].size)

OutOfMemory ==
  /\ call.op = "alloc" /\ current = NULL
  /\ Answer
  /\ UNCHANGED <<free_list, header, counters, live>>

(***************************************************************************)
(* free.                                                                   *)
(***************************************************************************)
\* MUTANT of Uncount: the header is subtracted once more.
UncountHeaderTwice(n) ==
  /\ allocation_count' = allocation_count - 1
  /\ bytes_allocated' = bytes_allocated - (n + HEADER_SIZE)

Uncount(n) ==
  /\ allocation_count' = allocation_count - 1
  /\ bytes_allocated' = bytes_allocated - n

Free(b) ==
  /\ Search("free", b.ptr - HEADER_SIZE)
  /\ live' = live \ {b}
  /\ Uncount(header[b.ptr - HEADER_SIZE].size)

\* MUTANT of Ahead: blocks are put at the head of the list.
AheadNever == FALSE

Ahead == current # NULL /\ current < call.arg

Below == call.op = "free" /\ Ahead /\ Advance

\* MUTANT of TouchesNext: the next free block is taken for a neighbour.
TouchesNextAlways == current # NULL

TouchesNext == call.arg + header[call.arg].size = current

\* MUTANT of TouchesPrev: a block is never joined with the one before it.
TouchesPrevNever == FALSE

TouchesPrev == prev # NULL /\ prev + header[prev].size = call.arg

Insert ==
  /\ call.op = "free" /\ ~Ahead
  /\ LET freed == call.arg
         block == IF TouchesNext
                  THEN [size |-> header[freed].size + header[current].size,
                        next |-> header[current].next]
                  ELSE [size |-> header[freed].size, next |-> current]
         absorbed == (IF TouchesNext THEN {current} ELSE {})
                       \cup (IF TouchesPrev THEN {freed} ELSE {})
     IN  /\ header' =
              [a \in DOMAIN header \ absorbed |->
                 CASE a = freed -> block
                   [] a = prev /\ TouchesPrev ->
                        [size |-> header[prev].size + block.size, next |-> block.next]
                   [] a = prev /\ ~TouchesPrev -> [header[prev] EXCEPT !.next = freed]
                   [] OTHER -> header[a]]
         /\ free_list' = HeadAfter(freed)
  /\ Answer
  /\ UNCHANGED <<counters, live>>

Step == TooSmall \/ Split \/ UseWhole \/ OutOfMemory \/ Below \/ Insert

Next == (\E n \in Sizes : Alloc(n)) \/ (\E b \in live : Free(b)) \/ Step

Spec     == Init /\ [][Next]_vars
FairSpec == Spec /\ WF_vars(Step)

(***************************************************************************)
(* Properties.                                                             *)
(***************************************************************************)
BlockHeader == [size : Nat, next : Nat]
HeaderOf(b) == b.ptr - HEADER_SIZE
FreeBlocks  == DOMAIN header \ ({HeaderOf(b) : b \in live}
                                  \cup (IF call.op = "free" THEN {call.arg} ELSE {}))
End(a)      == a + header[a].size

\* The fields keep their types, and the search stays on the list.
TypeOK ==
  /\ start \in Bases /\ size \in Capacities
  /\ DOMAIN header \subseteq start .. start + size - 1
  /\ \A a \in DOMAIN header : header[a] \in BlockHeader
  /\ allocation_count \in Nat /\ bytes_allocated \in Nat
  /\ live \subseteq [ptr : Nat, len : Sizes, align : {ALIGNMENT}]
  /\ {free_list, prev, current} \subseteq DOMAIN header \cup {NULL}

\* The blocks tile the arena: the first starts at its base, each of the others
\* where one ends, the last ends at its end, and none overlaps the next (the
\* sizes written by alloc and free).
Tiled ==
  /\ start \in DOMAIN header
  /\ \A a \in DOMAIN header :
       /\ header[a].size > 0
       /\ End(a) \in DOMAIN header \cup {start + size}
       /\ \A c \in DOMAIN header : c > a => c >= End(a)

\* A client's bytes lie in its block, behind the header: writing them damages
\* no header (the size alloc computes from the request).
DataInsideBlocks ==
  \A b \in live : /\ HeaderOf(b) \in DOMAIN header
                  /\ b.ptr + b.len <= End(HeaderOf(b))

\* The first free block at or behind an address.
FirstFrom(a) ==
  LET behind == {f \in FreeBlocks : f >= a}
  IN  IF behind = {} THEN NULL ELSE CHOOSE f \in behind : \A g \in behind : f <= g

\* The links form one list of exactly the free blocks, by address: no block is
\* lost, listed twice or listed while a client holds it (first fit and the
\* insertion of free rely on it).
ListExact ==
  /\ free_list = FirstFrom(start)
  /\ \A f \in FreeBlocks : header[f].next = FirstFrom(f + 1)

\* Between calls no two free blocks touch, so the arena never fragments more
\* than its live blocks force it to, and is one block again once all have been
\* freed (the two coalescing steps of free).
Coalesced == call = Idle => \A f \in FreeBlocks : End(f) \notin FreeBlocks

\* What stats() reports adds up: the bytes off the free list are those counted
\* by alloc and free, and the count is that of the blocks in use.
StatsAgree ==
  call = Idle =>
    /\ bytes_allocated = size - SumFunction([f \in FreeBlocks |-> header[f].size])
    /\ allocation_count = Cardinality(live)
===============================================================================
