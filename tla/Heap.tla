--------------------------------- MODULE Heap ---------------------------------
(***************************************************************************)
(* What the allocators of alloc.rs promise their clients, whatever their   *)
(* strategy: a block that is handed out lies in the allocator's memory, is *)
(* aligned as requested and shares no byte with a block in use.            *)
(***************************************************************************)
EXTENDS Integers

VARIABLES
  memory,           \* the bytes the allocator has got from the system
  live              \* the blocks in use: records with a ptr, a len and an align

Bytes(b) == b.ptr .. b.ptr + b.len - 1

HeapInit == live = {}

\* The allocator may get more memory on the way.
Grant ==
  /\ memory \subseteq memory'
  /\ \E b \in live' :
       /\ Bytes(b) \subseteq memory'
       /\ b.ptr % b.align = 0
       /\ \A c \in live : Bytes(b) \cap Bytes(c) = {}
       /\ live' = live \cup {b}

Release == memory' = memory /\ \E b \in live : live' = live \ {b}

ReleaseAll == memory' = memory /\ live' = {}

HeapSpec == HeapInit /\ [][Grant \/ Release \/ ReleaseAll]_<<memory, live>>
===============================================================================
