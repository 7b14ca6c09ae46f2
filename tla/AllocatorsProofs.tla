---------------------------- MODULE AllocatorsProofs ----------------------------
(***************************************************************************)
(* The allocators keep the promise of Heap, their lists are exact, and     *)
(* their counters agree with what is in use.                               *)
(*                                                                         *)
(* One invariant for each allocator, a lemma for each of its steps, and    *)
(* the theorems about all of them at the end.                              *)
(***************************************************************************)
EXTENDS FreeListProofs

\* The memory of the allocator in use, as H takes it.
Memory ==
  CASE which = "slab" -> UNION {S!Span(s) : s \in slabs}
    [] which = "collector" -> C!Memory
    [] OTHER -> start .. start + size - 1

HeapStep == H!Grant \/ H!Release \/ H!ReleaseAll \/ UNCHANGED <<Memory, live>>

LEMMA Grants ==
  ASSUME NEW b \in live', live' = live \cup {b},
         Memory \subseteq Memory', b.ptr .. b.ptr + b.len - 1 \subseteq Memory',
         b.ptr % b.align = 0,
         \A c \in live : (b.ptr .. b.ptr + b.len - 1) \cap (c.ptr .. c.ptr + c.len - 1) = {}
  PROVE  HeapStep
BY DEF HeapStep, H!Grant, H!Bytes, Memory

LEMMA Releases ==
  ASSUME Memory' = Memory, NEW b \in live, live' = live \ {b}
  PROVE  HeapStep
BY DEF HeapStep, H!Release, Memory

LEMMA ReleasesAll ==
  ASSUME Memory' = Memory, live' = {}
  PROVE  HeapStep
BY DEF HeapStep, H!ReleaseAll, Memory

LEMMA Keeps ==
  ASSUME Memory' = Memory, live' = live
  PROVE  HeapStep
BY DEF HeapStep

LEMMA ArenaKept ==
  ASSUME which \in {"bump", "free_list"}, UNCHANGED <<which, start, size>>
  PROVE  Memory' = Memory /\ Memory = start .. start + size - 1
BY DEF Memory

(***************************************************************************)
(* Bump.                                                                   *)
(***************************************************************************)
BumpOK ==
  /\ start \in Bases /\ size \in Capacities
  /\ ptr \in start .. start + size
  /\ \A b \in live : /\ b.ptr \in Nat /\ b.len \in Nat
                     /\ start <= b.ptr /\ b.ptr + b.len <= ptr

LEMMA BumpInit ==
  ASSUME B!Init
  PROVE  BumpOK
BY BasesAssumption, CapacitiesAssumption, LayoutAssumption DEF B!Init, BumpOK

LEMMA BumpStep ==
  ASSUME BumpOK, which = "bump", which' = which, B!Next
  PROVE  BumpOK' /\ HeapStep
PROOF
<1>1. /\ start \in Nat \ {0} /\ size \in Nat
      /\ ptr \in Nat /\ start <= ptr /\ ptr <= start + size
  BY BasesAssumption, CapacitiesAssumption, LayoutAssumption DEF BumpOK
<1>2. CASE B!Reset
  <2>1. UNCHANGED <<start, size>> /\ ptr' = start /\ live' = {}
    BY <1>2 DEF B!Reset
  <2>2. BumpOK'
    BY <1>1, <2>1 DEF BumpOK
  <2>3. Memory' = Memory
    BY <2>1, ArenaKept
  <2> QED
    BY <2>1, <2>2, <2>3, ReleasesAll
<1>3. ASSUME NEW n \in Sizes, NEW align \in Alignments, B!AllocAligned(n, align)
      PROVE  BumpOK' /\ HeapStep
  <2> DEFINE at == B!Aligned(align)
             b  == [ptr |-> at, len |-> n, align |-> align]
  <2>1. n \in Nat /\ align \in Nat \ {0}
    BY RequestsAssumption
  <2>2. at = ((ptr + align - 1) \div align) * align
    BY DEF B!Aligned, B!align_up
  <2>3. at \in Nat /\ ptr <= at /\ at % align = 0
    <3> HIDE DEF at
    <3> QED
      BY <1>1, <2>1, <2>2, AlignUp
  <2>4. /\ UNCHANGED <<start, size>>
        /\ at + n <= start + size
        /\ ptr' = at + n
        /\ live' = live \cup {b}
    BY <1>3 DEF B!AllocAligned, B!Fits, B!end
  <2>5. b.ptr = at /\ b.len = n /\ b.align = align
    OBVIOUS
  <2> HIDE DEF at, b
  <2>6. BumpOK'
    BY <1>1, <2>1, <2>3, <2>4, <2>5 DEF BumpOK
  <2>7. Memory' = Memory /\ Memory = start .. start + size - 1
    BY <2>4, ArenaKept
  <2>8. b.ptr .. b.ptr + b.len - 1 \subseteq Memory'
    BY <1>1, <2>1, <2>3, <2>4, <2>5, <2>7
  <2>9. \A c \in live : (b.ptr .. b.ptr + b.len - 1) \cap (c.ptr .. c.ptr + c.len - 1) = {}
    BY <1>1, <2>1, <2>3, <2>5 DEF BumpOK
  <2>10. b.ptr % b.align = 0 /\ b \in live'
    BY <2>3, <2>4, <2>5
  <2>11. HeapStep
    BY <2>4, <2>7, <2>8, <2>9, <2>10, Grants
  <2> QED
    BY <2>6, <2>11
<1> QED
  BY <1>2, <1>3 DEF B!Next, B!Alloc

(***************************************************************************)
(* Slab.                                                                   *)
(***************************************************************************)
LEMMA SlabCardinality ==
  ASSUME NEW T
  PROVE  S!Cardinality(T) = Cardinality(T)
BY DEF S!Cardinality, Cardinality

LEMMA ObjectSize == S!object_size \in Nat \ {0} /\ S!object_size % ALIGNMENT = 0
PROOF
<1> DEFINE n == IF requested_size < POINTER_SIZE THEN POINTER_SIZE ELSE requested_size
<1>1. n \in Nat \ {0} /\ ALIGNMENT \in Nat \ {0}
  BY LayoutAssumption, SlabAssumption
<1>2. S!object_size = ((n + ALIGNMENT - 1) \div ALIGNMENT) * ALIGNMENT
  BY DEF S!object_size, S!align_up
<1> HIDE DEF n
<1>3. S!object_size \in Nat /\ n <= S!object_size /\ S!object_size % ALIGNMENT = 0
  BY <1>1, <1>2, AlignUp
<1> QED
  BY <1>1, <1>3

\* An object lies in its slab, and shares no byte with the slab's others.
LEMMA ObjectInSlab ==
  ASSUME NEW s \in Bases, NEW a \in S!Objects(s)
  PROVE  /\ a \in Nat \ {0} /\ a % ALIGNMENT = 0
         /\ a .. a + S!object_size - 1 \subseteq S!Span(s)
         /\ a \in S!Span(s)
         /\ \A c \in S!Objects(s) :
              c # a => (a .. a + S!object_size - 1) \cap (c .. c + S!object_size - 1) = {}
PROOF
<1> DEFINE o == S!object_size
<1>1. o \in Nat \ {0} /\ o % ALIGNMENT = 0 /\ ALIGNMENT \in Nat \ {0}
  BY ObjectSize, LayoutAssumption
<1>2. s \in Nat \ {0} /\ s % ALIGNMENT = 0 /\ objects_per_slab \in Nat \ {0}
  BY BasesAssumption, SlabAssumption
<1>3. PICK i \in 0 .. objects_per_slab - 1 : a = s + i * o
  BY DEF S!Objects
<1>4. S!Span(s) = s .. s + o * objects_per_slab - 1
  BY DEF S!Span
<1> HIDE DEF o
<1>5. i * o \in Nat /\ (i * o) % ALIGNMENT = 0
  <2>1. i \in Nat /\ i \in Int /\ o \in Int
    BY <1>1, <1>2
  <2>2. (i * o) % ALIGNMENT = 0
    BY <1>1, <2>1, AlignedProduct
  <2> QED
    BY <1>1, <2>1, <2>2
<1>6. a \in Nat \ {0} /\ a % ALIGNMENT = 0
  <2>1. PICK x \in Nat : x = i * o
    BY <1>5
  <2>2. (s + x) % ALIGNMENT = 0
    <3>1. x \in Int /\ s \in Int /\ x % ALIGNMENT = 0
      BY <1>2, <1>5, <2>1
    <3> QED
      BY <1>1, <1>2, <3>1, AlignedSum
  <2> QED
    BY <1>2, <1>3, <2>1, <2>2
<1>7. i * o + o <= objects_per_slab * o /\ objects_per_slab * o = o * objects_per_slab
  <2>1. i \in Int /\ objects_per_slab \in Int /\ o \in Nat /\ i < objects_per_slab
    BY <1>1, <1>2
  <2> QED
    BY <2>1, Spaced
<1>8. a .. a + o - 1 \subseteq S!Span(s) /\ a \in S!Span(s)
  <2>1. o * objects_per_slab \in Nat
    BY <1>1, <1>2
  <2> QED
    BY <1>1, <1>2, <1>3, <1>4, <1>5, <1>7, <2>1
<1>9. ASSUME NEW c \in S!Objects(s), c # a
      PROVE  (a .. a + o - 1) \cap (c .. c + o - 1) = {}
  <2>1. PICK j \in 0 .. objects_per_slab - 1 : c = s + j * o
    BY DEF S!Objects, o
  <2>2. i \in Int /\ j \in Int /\ o \in Nat /\ i # j /\ j * o \in Nat
    BY <1>1, <1>2, <1>3, <1>9, <2>1
  <2>3. i * o + o <= j * o \/ j * o + o <= i * o
    BY <2>2, Spaced
  <2> QED
    BY <1>1, <1>2, <1>3, <1>5, <2>1, <2>2, <2>3
<1> QED
  BY <1>6, <1>8, <1>9 DEF o

\* What a new slab adds is a list of its objects.
LEMMA SlabChain ==
  ASSUME NEW s \in Bases, free_list = NULL
  PROVE  \E L \in [1 .. objects_per_slab -> S!Objects(s)] :
           IsChain(L, objects_per_slab, S!Objects(s), s, S!NewLinks(s))
PROOF
<1> DEFINE o == S!object_size
           n == objects_per_slab
           L == [i \in 1 .. n |-> s + (i - 1) * o]
<1>1. o \in Nat \ {0} /\ n \in Nat \ {0} /\ s \in Nat \ {0}
  BY ObjectSize, SlabAssumption, BasesAssumption
<1>2. S!Objects(s) = {s + i * o : i \in 0 .. n - 1}
  BY DEF S!Objects
<1>3. \A i \in 1 .. n : i - 1 \in 0 .. n - 1 /\ L[i] = s + (i - 1) * o
  BY <1>1
<1>4. L \in [1 .. n -> S!Objects(s)]
  BY <1>2, <1>3
<1> HIDE DEF L
<1>5. ASSUME NEW e \in S!Objects(s) PROVE \E i \in 1 .. n : L[i] = e
  <2>1. PICK j \in 0 .. n - 1 : e = s + j * o
    BY <1>2
  <2>2. j + 1 \in 1 .. n /\ (j + 1) - 1 = j
    BY <1>1
  <2> QED
    BY <1>3, <2>1, <2>2
<1> HIDE DEF o, n
<1>6. ASSUME NEW i \in 0 .. n, NEW j \in 0 .. n, s + i * o = s + j * o PROVE i = j
  <2>1. i \in Int /\ j \in Int /\ o \in Nat /\ i * o \in Nat /\ j * o \in Nat
    BY <1>1
  <2>2. i < j => i * o + o <= j * o
    BY <2>1, Spaced
  <2>3. j < i => j * o + o <= i * o
    BY <2>1, Spaced
  <2> QED
    BY <1>1, <1>6, <2>1, <2>2, <2>3
<1>7. ASSUME NEW i \in 1 .. n, NEW j \in 1 .. n, L[i] = L[j] PROVE i = j
  <2>1. i - 1 \in 0 .. n /\ j - 1 \in 0 .. n /\ s + (i - 1) * o = s + (j - 1) * o
    BY <1>1, <1>3, <1>7
  <2>2. i - 1 = j - 1
    BY <1>6, <2>1
  <2> QED
    BY <1>1, <2>2
<1>8. NULL \notin S!Objects(s)
  BY ObjectInSlab DEF NULL
<1>9. s = L[1]
  <2>1. 1 \in 1 .. n /\ (1 - 1) * o = 0
    BY <1>1
  <2> QED
    BY <1>1, <1>3, <2>1
<1>10. ASSUME NEW i \in 1 .. n
       PROVE  S!NewLinks(s)[L[i]] = IF i = n THEN NULL ELSE L[i + 1]
  <2>1. L[i] \in S!Objects(s)
    BY <1>4
  <2>2. S!NewLinks(s)[L[i]] = IF L[i] + o \in S!Objects(s) THEN L[i] + o ELSE NULL
    BY <2>1 DEF S!NewLinks, o
  <2>3. L[i] + o = s + i * o
    <3>1. (i - 1) * o + o = i * o /\ (i - 1) * o \in Int
      BY <1>1
    <3> QED
      BY <1>1, <1>3, <3>1
  <2>4. CASE i = n
    <3>1. L[i] + o \notin S!Objects(s)
      <4> SUFFICES ASSUME L[i] + o \in S!Objects(s) PROVE FALSE
        OBVIOUS
      <4>1. PICK j \in 0 .. n - 1 : s + n * o = s + j * o
        BY <1>2, <2>3, <2>4
      <4>2. n \in 0 .. n /\ j \in 0 .. n /\ j # n
        BY <1>1
      <4> QED
        BY <1>6, <4>1, <4>2
    <3> QED
      BY <2>2, <2>4, <3>1
  <2>5. CASE i # n
    <3>1. i \in 0 .. n - 1 /\ i + 1 \in 1 .. n /\ (i + 1) - 1 = i
      BY <1>1, <2>5
    <3>2. L[i + 1] = L[i] + o /\ L[i] + o \in S!Objects(s)
      BY <1>2, <1>3, <2>3, <3>1
    <3> QED
      BY <2>2, <2>5, <3>2
  <2> QED
    BY <2>4, <2>5
<1>11. IsChain(L, n, S!Objects(s), s, S!NewLinks(s))
  <2>1. n \in Nat /\ n # 0
    BY <1>1
  <2> QED
    BY <1>4, <1>5, <1>7, <1>8, <1>9, <1>10, <2>1 DEF IsChain
<1> QED
  BY <1>4, <1>11 DEF n

SlabOK ==
  /\ slabs \subseteq Bases
  /\ \A s, t \in slabs : s # t => S!Span(s) \cap S!Span(t) = {}
  /\ live \subseteq {S!Object(a) : a \in S!AllObjects}
  /\ DOMAIN link = S!FreeObjects
  /\ HasChain(S!FreeObjects, free_list, link)
  /\ IsFiniteSet(S!AllObjects)
  /\ allocation_count = Cardinality(S!AllObjects) - Cardinality(S!FreeObjects)

\* Objects share no byte, those of different slabs neither.
LEMMA ObjectsApart ==
  ASSUME SlabOK, NEW a \in S!AllObjects, NEW c \in S!AllObjects, a # c
  PROVE  (a .. a + S!object_size - 1) \cap (c .. c + S!object_size - 1) = {}
PROOF
<1>1. PICK s \in slabs : a \in S!Objects(s)
  BY DEF S!AllObjects
<1>2. PICK t \in slabs : c \in S!Objects(t)
  BY DEF S!AllObjects
<1>3. s \in Bases /\ t \in Bases
  BY DEF SlabOK
<1>4. CASE s = t
  BY <1>1, <1>2, <1>3, <1>4, ObjectInSlab
<1>5. CASE s # t
  <2>1. S!Span(s) \cap S!Span(t) = {}
    BY <1>5 DEF SlabOK
  <2>2. /\ a .. a + S!object_size - 1 \subseteq S!Span(s)
        /\ c .. c + S!object_size - 1 \subseteq S!Span(t)
    BY <1>1, <1>2, <1>3, ObjectInSlab
  <2> QED
    BY <2>1, <2>2
<1> QED
  BY <1>4, <1>5

\* The fields of an object's block.
LEMMA ObjectFields ==
  ASSUME NEW a
  PROVE  S!Object(a).ptr = a /\ S!Object(a).len = S!object_size
         /\ S!Object(a).align = ALIGNMENT
BY DEF S!Object

LEMMA SlabInit ==
  ASSUME S!Init
  PROVE  SlabOK
PROOF
<1>1. slabs = {} /\ free_list = NULL /\ link = <<>> /\ allocation_count = 0 /\ live = {}
  BY DEF S!Init, S!NULL, NULL
<1>2. S!AllObjects = {} /\ S!FreeObjects = {}
  BY <1>1 DEF S!AllObjects, S!FreeObjects
<1>3. IsFiniteSet({}) /\ Cardinality({}) = 0
  BY FS_EmptySet
<1>4. DOMAIN link = {}
  BY <1>1
<1>5. HasChain({}, free_list, link)
  <2> DEFINE L == [i \in 1 .. 0 |-> NULL]
  <2>1. 0 \in Nat /\ L \in [1 .. 0 -> {}]
    OBVIOUS
  <2>2. IsChain(L, 0, {}, free_list, link)
    BY <1>1, <2>1 DEF IsChain
  <2> QED
    BY <2>1, <2>2 DEF HasChain
<1> QED
  BY <1>1, <1>2, <1>3, <1>4, <1>5 DEF SlabOK

\* An object is handed out, from slabs that may have just grown.
LEMMA SlabPop ==
  ASSUME SlabOK, NEW free, NEW head, NEW links,
         S!Pop(head, links), head # NULL,
         slabs \subseteq slabs', slabs' \subseteq Bases,
         \A s, t \in slabs' : s # t => S!Span(s) \cap S!Span(t) = {},
         free = S!AllObjects' \ {b.ptr : b \in live},
         DOMAIN links = free, HasChain(free, head, links),
         IsFiniteSet(S!AllObjects'),
         allocation_count = Cardinality(S!AllObjects') - Cardinality(free)
  PROVE  /\ SlabOK'
         /\ head \in S!AllObjects' \ {b.ptr : b \in live}
         /\ live' = live \cup {S!Object(head)}
PROOF
<1>1. PICK all : all = S!AllObjects'
  OBVIOUS
<1>2. /\ free_list' = links[head]
      /\ link' = [a \in DOMAIN links \ {head} |-> links[a]]
      /\ allocation_count' = allocation_count + 1
      /\ live' = live \cup {S!Object(head)}
  BY DEF S!Pop
<1>3. head \in free /\ HasChain(free \ {head}, free_list', link')
  <2>1. \A x \in free \ {head} : link'[x] = links[x]
    BY <1>2
  <2>2. PICK later : later = link'
    OBVIOUS
  <2>3. head \in free /\ HasChain(free \ {head}, links[head], later)
    BY <2>1, <2>2, ChainPop
  <2> QED
    BY <1>2, <2>2, <2>3
<1>4. S!FreeObjects' = free \ {head}
  <2>1. {b.ptr : b \in live'} = {b.ptr : b \in live} \cup {head}
    BY <1>2, ObjectFields
  <2>2. S!FreeObjects' = S!AllObjects' \ {b.ptr : b \in live'}
    BY DEF S!FreeObjects
  <2> QED
    BY <2>1, <2>2
<1>5. DOMAIN link' = free \ {head}
  BY <1>2
<1>6. live' \subseteq {S!Object(a) : a \in S!AllObjects'}
  <2>1. S!AllObjects \subseteq S!AllObjects'
    BY DEF S!AllObjects
  <2>2. live \subseteq {S!Object(a) : a \in S!AllObjects}
    BY DEF SlabOK
  <2>3. head \in S!AllObjects'
    BY <1>3
  <2> QED
    BY <1>2, <2>1, <2>2, <2>3
<1>7. allocation_count' = Cardinality(all) - Cardinality(free \ {head})
  <2>1. IsFiniteSet(free) /\ IsFiniteSet(all)
    BY <1>1, FS_Subset
  <2>2. /\ Cardinality(free \ {head}) = Cardinality(free) - 1
        /\ Cardinality(free) \in Nat /\ Cardinality(all) \in Nat
    BY <1>3, <2>1, FS_RemoveElement, FS_CardinalityType
  <2>3. allocation_count = Cardinality(all) - Cardinality(free)
    BY <1>1
  <2> QED
    BY <1>2, <2>2, <2>3
<1>8. HasChain(free \ {head}, free_list', link')
  BY <1>3
<1>9. SlabOK'
  BY <1>1, <1>4, <1>5, <1>6, <1>7, <1>8 DEF SlabOK
<1> QED
  BY <1>2, <1>3, <1>9

\* So the promise of Heap is kept.
LEMMA SlabGrants ==
  ASSUME SlabOK, which = "slab", which' = which, slabs \subseteq slabs', SlabOK',
         NEW head, head \in S!AllObjects' \ {b.ptr : b \in live},
         live' = live \cup {S!Object(head)}
  PROVE  HeapStep
PROOF
<1> DEFINE b == S!Object(head)
<1>1. b.ptr = head /\ b.len = S!object_size /\ b.align = ALIGNMENT /\ b \in live'
  BY ObjectFields
<1>2. PICK s \in slabs' : head \in S!Objects(s)
  BY DEF S!AllObjects
<1>3. s \in Bases
  BY DEF SlabOK
<1>4. Memory \subseteq Memory' /\ Memory' = UNION {S!Span(t) : t \in slabs'}
  BY DEF Memory
<1>5. head .. head + S!object_size - 1 \subseteq Memory' /\ head % ALIGNMENT = 0
  BY <1>2, <1>3, <1>4, ObjectInSlab
<1>6. ASSUME NEW c \in live
      PROVE  (b.ptr .. b.ptr + b.len - 1) \cap (c.ptr .. c.ptr + c.len - 1) = {}
  <2>1. PICK a \in S!AllObjects : c = S!Object(a)
    BY DEF SlabOK
  <2>2. c.ptr = a /\ c.len = S!object_size /\ a # head
    BY <2>1, ObjectFields
  <2>3. PICK t \in slabs : a \in S!Objects(t)
    BY DEF S!AllObjects
  <2>4. t \in slabs' /\ t \in Bases
    BY DEF SlabOK
  <2>5. CASE s = t
    BY <1>1, <1>2, <1>3, <2>2, <2>3, <2>5, ObjectInSlab
  <2>6. CASE s # t
    <3>1. S!Span(s) \cap S!Span(t) = {}
      BY <2>4, <2>6 DEF SlabOK
    <3>2. /\ head .. head + S!object_size - 1 \subseteq S!Span(s)
          /\ a .. a + S!object_size - 1 \subseteq S!Span(t)
      BY <1>2, <1>3, <2>3, <2>4, ObjectInSlab
    <3> QED
      BY <1>1, <2>2, <3>1, <3>2
  <2> QED
    BY <2>5, <2>6
<1> HIDE DEF b
<1> QED
  BY <1>1, <1>4, <1>5, <1>6, Grants DEF b

LEMMA SlabAlloc ==
  ASSUME SlabOK, which = "slab", which' = which, S!Alloc
  PROVE  SlabOK' /\ HeapStep
PROOF
<1>1. free_list # NULL /\ S!Pop(free_list, link) /\ slabs' = slabs
  BY DEF S!Alloc, S!NeedsSlab, S!NULL, NULL
<1>2. S!AllObjects' = S!AllObjects
  BY <1>1 DEF S!AllObjects
<1>3. S!FreeObjects = S!AllObjects' \ {b.ptr : b \in live}
  BY <1>2 DEF S!FreeObjects
<1>4. /\ IsFiniteSet(S!AllObjects') /\ HasChain(S!FreeObjects, free_list, link)
      /\ DOMAIN link = S!FreeObjects
      /\ allocation_count = Cardinality(S!AllObjects') - Cardinality(S!FreeObjects)
  BY <1>2 DEF SlabOK
<1>5. /\ slabs \subseteq slabs' /\ slabs' \subseteq Bases
      /\ \A s, t \in slabs' : s # t => S!Span(s) \cap S!Span(t) = {}
  BY <1>1 DEF SlabOK
<1>6. /\ SlabOK'
      /\ free_list \in S!AllObjects' \ {b.ptr : b \in live}
      /\ live' = live \cup {S!Object(free_list)}
  BY <1>1, <1>3, <1>4, <1>5, SlabPop
<1> QED
  BY <1>5, <1>6, SlabGrants

LEMMA SlabGrowth ==
  ASSUME SlabOK, which = "slab", which' = which, S!AllocNewSlab
  PROVE  SlabOK' /\ HeapStep /\ S!FreeObjects = {}
PROOF
<1>1. free_list = NULL
  BY DEF S!AllocNewSlab, S!NeedsSlab, S!NULL, NULL
<1>2. S!FreeObjects = {}
  BY <1>1, ChainHead DEF SlabOK
<1>3. PICK base \in Bases :
        /\ \A s \in slabs : S!Span(base) \cap S!Span(s) = {}
        /\ slabs' = slabs \cup {base}
        /\ S!Pop(base, [a \in DOMAIN link \cup S!Objects(base) |->
                          IF a \in S!Objects(base) THEN S!NewLinks(base)[a] ELSE link[a]])
  BY DEF S!AllocNewSlab
<1> DEFINE links == [a \in DOMAIN link \cup S!Objects(base) |->
                       IF a \in S!Objects(base) THEN S!NewLinks(base)[a] ELSE link[a]]
           ptrs == {b.ptr : b \in live}
<1>4. DOMAIN links = S!Objects(base) /\ \A a \in S!Objects(base) : links[a] = S!NewLinks(base)[a]
  BY <1>2 DEF SlabOK
<1>5. PICK L \in [1 .. objects_per_slab -> S!Objects(base)] :
        IsChain(L, objects_per_slab, S!Objects(base), base, S!NewLinks(base))
  BY <1>1, SlabChain
<1> HIDE DEF links
<1>6. IsChain(L, objects_per_slab, S!Objects(base), base, links)
  BY <1>4, <1>5 DEF IsChain
<1>7. HasChain(S!Objects(base), base, links)
  BY <1>5, <1>6, SlabAssumption DEF HasChain
<1>8. IsFiniteSet(S!Objects(base)) /\ base # NULL
  BY <1>6, ChainLength, BasesAssumption DEF NULL
<1>9. S!AllObjects' = S!AllObjects \cup S!Objects(base)
  BY <1>3 DEF S!AllObjects
<1>10. S!AllObjects \cap S!Objects(base) = {}
  <2> SUFFICES ASSUME NEW a \in S!AllObjects, a \in S!Objects(base) PROVE FALSE
    OBVIOUS
  <2>1. PICK s \in slabs : a \in S!Objects(s)
    BY DEF S!AllObjects
  <2>2. a \in S!Span(s) /\ a \in S!Span(base)
    BY <2>1, ObjectInSlab DEF SlabOK
  <2> QED
    BY <1>3, <2>2
<1>11. S!AllObjects \subseteq ptrs /\ ptrs \subseteq S!AllObjects
  <2>1. S!AllObjects \subseteq ptrs
    BY <1>2 DEF S!FreeObjects
  <2>2. ASSUME NEW b \in live PROVE b.ptr \in S!AllObjects
    <3>1. PICK a \in S!AllObjects : b = S!Object(a)
      BY DEF SlabOK
    <3> QED
      BY <3>1, ObjectFields
  <2> QED
    BY <2>1, <2>2
<1> HIDE DEF ptrs
<1>12. S!Objects(base) = S!AllObjects' \ ptrs
  BY <1>9, <1>10, <1>11
<1>13. IsFiniteSet(S!AllObjects) /\ allocation_count = Cardinality(S!AllObjects)
  <2>1. Cardinality(S!FreeObjects) = 0
    BY <1>2, FS_EmptySet
  <2>2. /\ IsFiniteSet(S!AllObjects)
        /\ allocation_count = Cardinality(S!AllObjects) - Cardinality(S!FreeObjects)
    BY DEF SlabOK
  <2>3. Cardinality(S!AllObjects) \in Nat
    BY <2>2, FS_CardinalityType
  <2> QED
    BY <2>1, <2>2, <2>3
<1>14. /\ IsFiniteSet(S!AllObjects')
       /\ allocation_count = Cardinality(S!AllObjects') - Cardinality(S!Objects(base))
  <2>1. PICK old : old = S!AllObjects
    OBVIOUS
  <2>2. PICK new : new = S!Objects(base)
    OBVIOUS
  <2>3. IsFiniteSet(old \cup new) /\ Cardinality(old \cup new) = Cardinality(old) + Cardinality(new)
    <3>1. /\ IsFiniteSet(old \cup new)
          /\ Cardinality(old \cup new)
               = Cardinality(old) + Cardinality(new) - Cardinality(old \cap new)
      BY <1>8, <1>13, <2>1, <2>2, FS_Union
    <3>2. Cardinality(old \cap new) = 0
      BY <1>10, <2>1, <2>2, FS_EmptySet
    <3>3. Cardinality(old) \in Nat /\ Cardinality(new) \in Nat
      BY <1>8, <1>13, <2>1, <2>2, FS_CardinalityType
    <3> QED
      BY <3>1, <3>2, <3>3
  <2>4. Cardinality(old) \in Nat /\ Cardinality(new) \in Nat
    BY <1>8, <1>13, <2>1, <2>2, FS_CardinalityType
  <2>5. S!AllObjects' = old \cup new
    BY <1>9, <2>1, <2>2
  <2>6. allocation_count = Cardinality(old)
    BY <1>13, <2>1
  <2> QED
    BY <2>2, <2>3, <2>4, <2>5, <2>6
<1>15. /\ slabs \subseteq slabs' /\ slabs' \subseteq Bases
       /\ \A s, t \in slabs' : s # t => S!Span(s) \cap S!Span(t) = {}
  BY <1>3 DEF SlabOK
<1>16. S!Pop(base, links)
  BY <1>3 DEF links
<1>17. /\ SlabOK'
       /\ base \in S!AllObjects' \ {b.ptr : b \in live}
       /\ live' = live \cup {S!Object(base)}
  BY <1>4, <1>7, <1>8, <1>12, <1>14, <1>15, <1>16, SlabPop DEF ptrs
<1> QED
  BY <1>2, <1>15, <1>17, SlabGrants

LEMMA SlabFree ==
  ASSUME SlabOK, which = "slab", which' = which, NEW b \in live, S!Free(b)
  PROVE  SlabOK' /\ HeapStep
PROOF
<1>1. PICK a \in S!AllObjects : b = S!Object(a)
  BY DEF SlabOK
<1>2. b.ptr = a
  BY <1>1, ObjectFields
<1>3. /\ link' = [x \in DOMAIN link \cup {a} |-> IF x = a THEN free_list ELSE link[x]]
      /\ free_list' = a
      /\ allocation_count' = allocation_count - 1
      /\ live' = live \ {b}
      /\ slabs' = slabs
  BY <1>2 DEF S!Free
<1>4. S!AllObjects' = S!AllObjects
  BY <1>3 DEF S!AllObjects
<1>5. {c.ptr : c \in live'} = {c.ptr : c \in live} \ {a}
  <2>1. ASSUME NEW c \in live, c.ptr = a PROVE c = b
    <3>1. PICK x \in S!AllObjects : c = S!Object(x)
      BY DEF SlabOK
    <3> QED
      BY <1>1, <2>1, <3>1, ObjectFields
  <2> QED
    BY <1>2, <1>3, <2>1
<1>6. S!FreeObjects' = S!FreeObjects \cup {a} /\ a \notin S!FreeObjects
  <2>1. S!FreeObjects' = S!AllObjects' \ {c.ptr : c \in live'}
    BY DEF S!FreeObjects
  <2>2. a \in {c.ptr : c \in live}
    BY <1>2
  <2> QED
    BY <1>4, <1>5, <2>1, <2>2 DEF S!FreeObjects
<1>7. PICK free : free = S!FreeObjects
  OBVIOUS
<1>8. DOMAIN link' = free \cup {a}
  BY <1>3, <1>7 DEF SlabOK
<1>9. HasChain(free \cup {a}, free_list', link')
  <2>1. a # NULL
    BY ObjectInSlab DEF SlabOK, S!AllObjects, NULL
  <2>2. HasChain(free, free_list, link) /\ DOMAIN link = free
    BY <1>7 DEF SlabOK
  <2>3. link'[a] = free_list /\ \A x \in free : link'[x] = link[x]
    BY <1>3, <1>6, <1>7, <2>2
  <2> QED
    BY <1>3, <1>6, <1>7, <2>1, <2>2, <2>3, ChainPush
<1>10. PICK all : all = S!AllObjects
  OBVIOUS
<1>11. allocation_count' = Cardinality(all) - Cardinality(free \cup {a})
  <2>1. IsFiniteSet(all) /\ IsFiniteSet(free)
    BY <1>7, <1>10, FS_Subset DEF SlabOK, S!FreeObjects
  <2>2. /\ Cardinality(free \cup {a}) = Cardinality(free) + 1
        /\ Cardinality(free) \in Nat /\ Cardinality(all) \in Nat
    BY <1>6, <1>7, <2>1, FS_AddElement, FS_CardinalityType
  <2>3. allocation_count = Cardinality(all) - Cardinality(free)
    BY <1>7, <1>10 DEF SlabOK
  <2> QED
    BY <1>3, <2>2, <2>3
<1>12. live' \subseteq {S!Object(x) : x \in S!AllObjects'}
  BY <1>3, <1>4 DEF SlabOK
<1>13. S!AllObjects' = all /\ IsFiniteSet(all) /\ S!FreeObjects' = free \cup {a}
  BY <1>4, <1>6, <1>7, <1>10 DEF SlabOK
<1>14. SlabOK'
  BY <1>3, <1>8, <1>9, <1>11, <1>12, <1>13 DEF SlabOK
<1>15. Memory' = Memory
  BY <1>3 DEF Memory
<1> QED
  BY <1>3, <1>14, <1>15, Releases

LEMMA SlabStep ==
  ASSUME SlabOK, which = "slab", which' = which, S!Next
  PROVE  SlabOK' /\ HeapStep
BY SlabAlloc, SlabGrowth, SlabFree DEF S!Next

\* The list that SlabOK describes is the one ListExact follows.
LEMMA SlabList ==
  ASSUME SlabOK
  PROVE  S!ListExact
PROOF
<1>1. PICK n \in Nat : \E L \in [1 .. n -> S!FreeObjects] :
                         IsChain(L, n, S!FreeObjects, free_list, link)
  BY DEF SlabOK, HasChain
<1>2. PICK L \in [1 .. n -> S!FreeObjects] : IsChain(L, n, S!FreeObjects, free_list, link)
  BY <1>1
<1>3. n = Cardinality(S!FreeObjects)
  BY <1>2, ChainLength
<1>4. S!NULL = NULL
  BY DEF S!NULL, NULL
<1>5. \E w : w = [k \in Nat |-> IF k = 0 THEN free_list
                                ELSE IF w[k - 1] = NULL THEN NULL ELSE link[w[k - 1]]]
  <2>1. PICK w : Walk(w, free_list, link)
    BY <1>2, ChainWalk
  <2> QED
    BY <2>1 DEF Walk
<1>6. S!nth = [k \in Nat |-> IF k = 0 THEN free_list
                             ELSE IF S!nth[k - 1] = NULL THEN NULL ELSE link[S!nth[k - 1]]]
  BY <1>4, <1>5, ZenonT(30) DEF S!nth
<1>7. PICK nth : nth = S!nth
  OBVIOUS
<1>8. {nth[k] : k \in 0 .. n - 1} = S!FreeObjects /\ nth[n] = NULL
  <2>1. \A k \in Nat : nth[k] = IF k = 0 THEN free_list
                                ELSE IF nth[k - 1] = NULL THEN NULL ELSE link[nth[k - 1]]
    BY <1>6, <1>7
  <2>2. \A k \in 1 .. n : k \in Nat /\ k # 0
    OBVIOUS
  <2>3. nth[0] = free_list
    BY <2>1
  <2>4. NULL \notin S!FreeObjects
    BY <1>2 DEF IsChain
  <2>5. \A k \in 1 .. n : nth[k - 1] \in S!FreeObjects => nth[k] = link[nth[k - 1]]
    BY <2>1, <2>2, <2>4
  <2>6. \A k \in 1 .. n : nth[k - 1] = NULL => nth[k] = NULL
    BY <2>1, <2>2
  <2>7. Follows(nth, n, S!FreeObjects, free_list, link)
    BY <2>3, <2>5, <2>6 DEF Follows
  <2>8. Visits(nth, n, S!FreeObjects)
    BY <1>2, <2>7, ChainNth
  <2> QED
    BY <2>8 DEF Visits
<1>9. n = S!Cardinality(S!FreeObjects)
      /\ S!Cardinality(S!AllObjects) = Cardinality(S!AllObjects)
  BY <1>3, SlabCardinality
<1> QED
  BY <1>3, <1>4, <1>7, <1>8, <1>9 DEF S!ListExact, SlabOK

(***************************************************************************)
(* Collector.                                                              *)
(***************************************************************************)
GcHeader == [size : ObjectSizes, marked : BOOLEAN, next : GcBases \cup {NULL}]

HeadersOK ==
  /\ DOMAIN header \subseteq GcBases
  /\ \A a \in DOMAIN header : header[a] \in GcHeader

BlockAt(a) == [ptr |-> C!Data(a), len |-> header[a].size, align |-> ALIGNMENT]

\* The objects the collector knows are the blocks in use, and lie apart.
ObjectsOK ==
  /\ live = {BlockAt(a) : a \in DOMAIN header}
  /\ \A a, o \in DOMAIN header :
       a # o => \/ a + C!total_size(header[a].size) <= o
                \/ o + C!total_size(header[o].size) <= a

Requests(op) == {[op |-> op, arg |-> n] : n \in ObjectSizes}
Outcomes     == {C!Idle} \cup Requests("request") \cup Requests("retry")

CallOK ==
  call \in Outcomes \cup {C!Dropped, C!Crashed} \cup {[op |-> "sweep", then |-> t] : t \in Outcomes}

IsRooted(a) == C!Data(a) \in roots

Unmarked == \A a \in DOMAIN header : ~header[a].marked

\* The list of the objects; sweep is at the p-th: it has kept the rooted ones
\* before it and has taken their marks, and it will find the others marked.
Links == [a \in DOMAIN header |-> header[a].next]

SweepAt(L, n, p) ==
  /\ current = IF p = n + 1 THEN NULL ELSE L[p]
  /\ prev = IF p = 1 THEN NULL ELSE L[p - 1]
  /\ \A i \in 1 .. n : i < p => IsRooted(L[i]) /\ ~header[L[i]].marked
  /\ \A i \in 1 .. n : i >= p => (header[L[i]].marked <=> IsRooted(L[i]))

ListOK == HasChain(DOMAIN header, all_objects, Links)

SweepOK ==
  \E n \in Nat : \E L \in [1 .. n -> DOMAIN header] :
    /\ IsChain(L, n, DOMAIN header, all_objects, Links)
    /\ \E p \in 1 .. n + 1 : SweepAt(L, n, p)

\* alloc has room below the threshold or has just collected.
RequestOK ==
  call.op = "request" => \/ bytes_allocated + call.arg <= gc_threshold
                         \/ \A a \in DOMAIN header : IsRooted(a)

CollectorOK ==
  /\ roots \subseteq C!Pointers
  /\ bytes_allocated \in Int
  /\ HeadersOK /\ ObjectsOK /\ CallOK /\ ListOK /\ RequestOK
  /\ call.op # "sweep" => Unmarked
  /\ call.op = "sweep" => SweepOK

\* What total_size adds to a request.
LEMMA TotalSize ==
  ASSUME NEW n \in ObjectSizes
  PROVE  /\ n \in Nat /\ C!total_size(n) \in Nat
         /\ GC_HEADER_SIZE + n <= C!total_size(n)
         /\ C!total_size(n) < GC_HEADER_SIZE + n + ALIGNMENT
PROOF
<1>1. n \in Nat /\ GC_HEADER_SIZE \in Nat \ {0} /\ ALIGNMENT \in Nat \ {0}
  BY CollectorAssumption, LayoutAssumption
<1>2. PICK m \in Nat : m = GC_HEADER_SIZE + n
  BY <1>1
<1>3. C!total_size(n) = ((m + ALIGNMENT - 1) \div ALIGNMENT) * ALIGNMENT
  BY <1>2 DEF C!total_size, C!align_up
<1>4. C!total_size(n) \in Nat /\ m <= C!total_size(n) /\ C!total_size(n) < m + ALIGNMENT
  BY <1>1, <1>3, AlignUp
<1> QED
  BY <1>1, <1>2, <1>4

LEMMA DataAddress ==
  ASSUME NEW a \in GcBases
  PROVE  /\ a \in Nat \ {0} /\ C!Data(a) \in Nat \ {0}
         /\ C!Data(a) = a + GC_HEADER_SIZE
         /\ C!Data(a) % ALIGNMENT = 0
PROOF
<1>1. /\ a \in Nat \ {0} /\ a % ALIGNMENT = 0 /\ ALIGNMENT \in Nat \ {0}
      /\ GC_HEADER_SIZE \in Nat \ {0} /\ GC_HEADER_SIZE % ALIGNMENT = 0
  BY CollectorAssumption, LayoutAssumption
<1>2. (a + GC_HEADER_SIZE) % ALIGNMENT = 0
  <2>1. a \in Int /\ GC_HEADER_SIZE \in Int
    BY <1>1
  <2> QED
    BY <1>1, <2>1, AlignedSum
<1> QED
  BY <1>1, <1>2 DEF C!Data

\* mark marks the rooted objects.
LEMMA MarksRooted ==
  ASSUME CollectorOK, NEW a \in DOMAIN header
  PROVE  a \in C!Marked <=> IsRooted(a)
PROOF
<1>1. a \in GcBases
  BY DEF CollectorOK, HeadersOK
<1>2. /\ a \in Nat \ {0} /\ C!Data(a) \in Nat \ {0} /\ C!Data(a) = a + GC_HEADER_SIZE
      /\ GC_HEADER_SIZE \in Nat
  BY <1>1, DataAddress, CollectorAssumption
<1>3. roots \subseteq Nat
  <2>1. ASSUME NEW o \in GcBases PROVE C!base_ptr(o) \in Nat /\ C!gc_ptr(o) \in Nat
    BY DataAddress, CollectorAssumption DEF C!base_ptr, C!gc_ptr
  <2> QED
    BY <2>1 DEF CollectorOK, C!Pointers, C!NULL
<1>4. C!Marked = {x \in {p - GC_HEADER_SIZE : p \in roots \ {0}} : x \in DOMAIN header}
  BY DEF C!Marked, C!is_gc_object, C!NULL
<1>5. ASSUME a \in C!Marked PROVE IsRooted(a)
  <2>1. PICK p \in roots \ {0} : a = p - GC_HEADER_SIZE
    BY <1>4, <1>5
  <2>2. p = C!Data(a)
    BY <1>2, <1>3, <2>1
  <2> QED
    BY <2>2 DEF IsRooted
<1>6. ASSUME IsRooted(a) PROVE a \in C!Marked
  <2>1. C!Data(a) \in roots \ {0} /\ a = C!Data(a) - GC_HEADER_SIZE
    BY <1>2, <1>6 DEF IsRooted
  <2> QED
    BY <1>4, <2>1
<1> QED
  BY <1>5, <1>6

LEMMA CollectorKept ==
  ASSUME which = "collector", which' = which
  PROVE  Memory' = Memory /\ Memory = C!Memory
BY DEF Memory, C!Memory

LEMMA CallKinds ==
  /\ C!Idle.op = "none" /\ C!Dropped.op = "dropped" /\ C!Crashed.op = "crashed"
  /\ \A op : \A c \in Requests(op) : c.op = op /\ c.arg \in ObjectSizes
  /\ \A t : [op |-> "sweep", then |-> t].op = "sweep"
            /\ [op |-> "sweep", then |-> t].then = t
BY DEF C!Idle, C!Dropped, C!Crashed, Requests

LEMMA CollectorInit ==
  ASSUME C!Init
  PROVE  CollectorOK
PROOF
<1>1. /\ all_objects = NULL /\ header = <<>> /\ roots = {} /\ bytes_allocated = 0
      /\ live = {} /\ call = C!Idle
  BY DEF C!Init, C!NULL, NULL
<1>2. DOMAIN header = {}
  BY <1>1
<1>3. ListOK
  <2> DEFINE L == [i \in 1 .. 0 |-> NULL]
  <2>1. 0 \in Nat /\ L \in [1 .. 0 -> {}]
    OBVIOUS
  <2>2. IsChain(L, 0, {}, all_objects, Links)
    BY <1>1, <2>1 DEF IsChain
  <2>3. HasChain({}, all_objects, Links)
    BY <2>1, <2>2 DEF HasChain
  <2> QED
    BY <1>2, <2>3 DEF ListOK
<1>4. call.op = "none" /\ CallOK
  BY <1>1, CallKinds DEF CallOK, Outcomes
<1> QED
  BY <1>1, <1>2, <1>3, <1>4
     DEF CollectorOK, HeadersOK, ObjectsOK, RequestOK, Unmarked

\* What a step of the collector owes its clients.
CollectorSafe == HeapStep /\ C!Rooted /\ C!Bounded

LEMMA CollectorSame ==
  ASSUME which = "collector", which' = which, live' = live
  PROVE  CollectorSafe
PROOF
<1>1. HeapStep
  BY CollectorKept, Keeps
<1> QED
  BY <1>1 DEF CollectorSafe, C!Rooted, C!Bounded

\* A step that leaves the objects alone: roots, calls that end or begin.
LEMMA CollectorQuiet ==
  ASSUME CollectorOK, call.op # "sweep",
         UNCHANGED <<all_objects, header, bytes_allocated, live>>,
         roots' \subseteq C!Pointers, CallOK', RequestOK', call'.op # "sweep"
  PROVE  CollectorOK'
PROOF
<1>1. HeadersOK' /\ ObjectsOK' /\ ListOK' /\ Unmarked'
  BY DEF CollectorOK, HeadersOK, ObjectsOK, BlockAt, ListOK, Links, Unmarked
<1> QED
  BY <1>1 DEF CollectorOK

LEMMA RootsStep ==
  ASSUME CollectorOK, which = "collector", which' = which,
         NEW rs, rs \subseteq C!Pointers, C!SetRoots(rs)
  PROVE  CollectorOK' /\ CollectorSafe
PROOF
<1>1. /\ call = C!Idle /\ roots' = rs
      /\ UNCHANGED <<all_objects, header, bytes_allocated, live, call>>
  BY DEF C!SetRoots, C!counters
<1>2. call.op = "none" /\ call'.op = "none"
  BY <1>1, CallKinds
<1>3. CallOK' /\ RequestOK'
  BY <1>1, <1>2 DEF CollectorOK, CallOK, RequestOK
<1>4. CollectorOK'
  BY <1>1, <1>2, <1>3, CollectorQuiet
<1> QED
  BY <1>1, <1>4, CollectorSame

\* Marks change nothing but marks.
LEMMA Remarked ==
  ASSUME CollectorOK, UNCHANGED <<all_objects, roots, live>>,
         DOMAIN header' = DOMAIN header,
         \A a \in DOMAIN header : /\ header'[a] \in GcHeader
                                  /\ header'[a].size = header[a].size
                                  /\ header'[a].next = header[a].next
  PROVE  HeadersOK' /\ ObjectsOK' /\ ListOK' /\ Links' = Links
PROOF
<1>1. Links' = Links
  BY DEF Links
<1>2. HeadersOK'
  BY DEF CollectorOK, HeadersOK
<1>3. ListOK'
  BY <1>1 DEF CollectorOK, ListOK
<1>4. ObjectsOK'
  <2>1. \A a \in DOMAIN header : BlockAt(a)' = BlockAt(a)
    BY DEF BlockAt
  <2>2. {BlockAt(a) : a \in DOMAIN header}' = {BlockAt(a) : a \in DOMAIN header}
    BY <2>1
  <2> QED
    BY <2>2 DEF CollectorOK, ObjectsOK
<1> QED
  BY <1>1, <1>2, <1>3, <1>4

LEMMA CollectStep ==
  ASSUME CollectorOK, which = "collector", which' = which, call.op # "sweep",
         NEW then \in Outcomes, C!Collect(then)
  PROVE  CollectorOK' /\ CollectorSafe
PROOF
<1>1. /\ header' = [a \in DOMAIN header |->
                      IF a \in C!Marked THEN [header[a] EXCEPT !.marked = TRUE]
                      ELSE header[a]]
      /\ call' = [op |-> "sweep", then |-> then]
      /\ prev' = NULL /\ current' = all_objects
      /\ UNCHANGED <<all_objects, roots, bytes_allocated, live>>
  BY DEF C!Collect, C!counters, C!NULL, NULL
<1>2. DOMAIN header' = DOMAIN header
  BY <1>1
<1>3. ASSUME NEW a \in DOMAIN header
      PROVE  /\ header'[a] \in GcHeader
             /\ header'[a].size = header[a].size /\ header'[a].next = header[a].next
             /\ header'[a].marked <=> IsRooted(a)
  <2>1. header[a] \in GcHeader /\ header[a].marked = FALSE
    <3>1. header[a] \in GcHeader /\ ~header[a].marked
      BY DEF CollectorOK, HeadersOK, Unmarked
    <3> QED
      BY <3>1 DEF GcHeader
  <2>2. header'[a] = IF a \in C!Marked THEN [header[a] EXCEPT !.marked = TRUE] ELSE header[a]
    BY <1>1
  <2>3. a \in C!Marked <=> IsRooted(a)
    BY MarksRooted
  <2> QED
    BY <2>1, <2>2, <2>3 DEF GcHeader
<1>4. HeadersOK' /\ ObjectsOK' /\ ListOK' /\ Links' = Links
  BY <1>1, <1>2, <1>3, Remarked
<1>5. SweepOK'
  <2>1. PICK n \in Nat : \E L \in [1 .. n -> DOMAIN header] :
                           IsChain(L, n, DOMAIN header, all_objects, Links)
    BY DEF CollectorOK, ListOK, HasChain
  <2>2. PICK L \in [1 .. n -> DOMAIN header] : IsChain(L, n, DOMAIN header, all_objects, Links)
    BY <2>1
  <2>3. IsChain(L, n, DOMAIN header', all_objects', Links')
    BY <1>1, <1>2, <1>4, <2>2
  <2>4. 1 \in 1 .. n + 1 /\ (1 = n + 1 <=> n = 0)
    OBVIOUS
  <2>5. current' = IF 1 = n + 1 THEN NULL ELSE L[1]
    BY <1>1, <2>2, <2>4 DEF IsChain
  <2>6. \A a \in DOMAIN header : IsRooted(a)' <=> IsRooted(a)
    BY <1>1 DEF IsRooted
  <2>7. \A i \in 1 .. n : header'[L[i]].marked <=> IsRooted(L[i])'
    BY <1>3, <2>2, <2>6
  <2>8. SweepAt(L, n, 1)'
    <3>1. \A i \in 1 .. n : ~(i < 1)
      OBVIOUS
    <3>2. prev' = NULL
      BY <1>1
    <3> QED
      BY <2>5, <2>7, <3>1, <3>2 DEF SweepAt
  <2>9. L \in [1 .. n -> DOMAIN header']
    BY <1>2
  <2> QED
    BY <2>3, <2>4, <2>8, <2>9 DEF SweepOK
<1>6. CallOK' /\ call'.op = "sweep" /\ RequestOK'
  BY <1>1, CallKinds DEF CallOK, RequestOK
<1>7. CollectorOK'
  BY <1>1, <1>4, <1>5, <1>6 DEF CollectorOK
<1> QED
  BY <1>1, <1>7, CollectorSame

\* Where sweep is.
LEMMA SweepPosition ==
  ASSUME CollectorOK, C!Sweeping
  PROVE  \E n \in Nat : \E L \in [1 .. n -> DOMAIN header] : \E p \in 1 .. n :
           /\ IsChain(L, n, DOMAIN header, all_objects, Links)
           /\ SweepAt(L, n, p) /\ current = L[p]
PROOF
<1>1. call.op = "sweep" /\ current # NULL
  BY DEF C!Sweeping, C!NULL, NULL
<1>2. SweepOK
  BY <1>1 DEF CollectorOK
<1>3. PICK n \in Nat : \E L \in [1 .. n -> DOMAIN header] :
        /\ IsChain(L, n, DOMAIN header, all_objects, Links)
        /\ \E p \in 1 .. n + 1 : SweepAt(L, n, p)
  BY <1>2 DEF SweepOK
<1>4. PICK L \in [1 .. n -> DOMAIN header] :
        /\ IsChain(L, n, DOMAIN header, all_objects, Links)
        /\ \E p \in 1 .. n + 1 : SweepAt(L, n, p)
  BY <1>3
<1>5. PICK p \in 1 .. n + 1 : SweepAt(L, n, p)
  BY <1>4
<1>6. p # n + 1 /\ current = L[p]
  BY <1>1, <1>5 DEF SweepAt
<1>7. p \in 1 .. n
  BY <1>6
<1> QED
  BY <1>4, <1>5, <1>6, <1>7

LEMMA SweepMarkedStep ==
  ASSUME CollectorOK, which = "collector", which' = which, C!SweepMarked
  PROVE  CollectorOK' /\ CollectorSafe
PROOF
<1>1. /\ C!Sweeping /\ header[current].marked
      /\ header' = [header EXCEPT ![current].marked = FALSE]
      /\ prev' = current /\ current' = header[current].next
      /\ UNCHANGED <<all_objects, roots, bytes_allocated, live, call>>
  BY DEF C!SweepMarked, C!Unmark, C!counters
<1>2. PICK n \in Nat : \E L \in [1 .. n -> DOMAIN header] : \E p \in 1 .. n :
        /\ IsChain(L, n, DOMAIN header, all_objects, Links)
        /\ SweepAt(L, n, p) /\ current = L[p]
  BY <1>1, SweepPosition
<1>3. PICK L \in [1 .. n -> DOMAIN header] : \E p \in 1 .. n :
        /\ IsChain(L, n, DOMAIN header, all_objects, Links)
        /\ SweepAt(L, n, p) /\ current = L[p]
  BY <1>2
<1>4. PICK p \in 1 .. n :
        /\ IsChain(L, n, DOMAIN header, all_objects, Links)
        /\ SweepAt(L, n, p) /\ current = L[p]
  BY <1>3
<1>5. current \in DOMAIN header /\ DOMAIN header' = DOMAIN header
  BY <1>1, <1>4
<1>6. ASSUME NEW a \in DOMAIN header
      PROVE  /\ header'[a] \in GcHeader
             /\ header'[a].size = header[a].size /\ header'[a].next = header[a].next
             /\ a = current => ~header'[a].marked
             /\ a # current => header'[a] = header[a]
  <2>1. header[a] \in GcHeader
    BY DEF CollectorOK, HeadersOK
  <2>2. header'[a] = IF a = current THEN [header[a] EXCEPT !.marked = FALSE] ELSE header[a]
    BY <1>1, <1>5
  <2> QED
    BY <2>1, <2>2 DEF GcHeader
<1>7. HeadersOK' /\ ObjectsOK' /\ ListOK' /\ Links' = Links
  BY <1>1, <1>5, <1>6, Remarked
<1>8. p + 1 \in 1 .. n + 1 /\ (p + 1) - 1 = p /\ p + 1 # 1 /\ (p + 1 = n + 1 <=> p = n)
  OBVIOUS
<1>9. current' = IF p + 1 = n + 1 THEN NULL ELSE L[p + 1]
  <2>1. Links[L[p]] = IF p = n THEN NULL ELSE L[p + 1]
    BY <1>4 DEF IsChain
  <2> QED
    BY <1>1, <1>4, <1>5, <1>8, <2>1 DEF Links
<1>10. prev' = L[(p + 1) - 1]
  BY <1>1, <1>4, <1>8
<1>11. \A a \in DOMAIN header : IsRooted(a)' <=> IsRooted(a)
  BY <1>1 DEF IsRooted
<1>12. \A i \in 1 .. n : L[i] \in DOMAIN header /\ (L[i] = current => i = p)
  BY <1>4 DEF IsChain
<1>13. ASSUME NEW i \in 1 .. n, i < p + 1
       PROVE  IsRooted(L[i])' /\ ~header'[L[i]].marked
  <2>1. CASE i = p
    BY <1>1, <1>4, <1>6, <1>11, <1>12, <2>1 DEF SweepAt
  <2>2. CASE i < p
    BY <1>4, <1>6, <1>11, <1>12, <2>2 DEF SweepAt
  <2> QED
    BY <1>13, <2>1, <2>2
<1>14. ASSUME NEW i \in 1 .. n, i >= p + 1
       PROVE  header'[L[i]].marked <=> IsRooted(L[i])'
  <2>1. i >= p /\ i # p
    BY <1>14
  <2> QED
    BY <1>4, <1>6, <1>11, <1>12, <2>1 DEF SweepAt
<1>15. SweepAt(L, n, p + 1)'
  BY <1>8, <1>9, <1>10, <1>13, <1>14 DEF SweepAt
<1>16. SweepOK'
  <2>1. IsChain(L, n, DOMAIN header', all_objects', Links')
    BY <1>1, <1>4, <1>5, <1>7
  <2>2. L \in [1 .. n -> DOMAIN header']
    BY <1>5
  <2> QED
    BY <1>8, <1>15, <2>1, <2>2 DEF SweepOK
<1>17. CallOK' /\ RequestOK' /\ call'.op = "sweep"
  BY <1>1 DEF CollectorOK, CallOK, RequestOK, C!Sweeping
<1>18. CollectorOK'
  BY <1>1, <1>7, <1>16, <1>17 DEF CollectorOK
<1> QED
  BY <1>1, <1>18, CollectorSame

\* When sweep is through, what is left is rooted and unmarked.
LEMMA SweepEnd ==
  ASSUME CollectorOK, call.op = "sweep", current = NULL
  PROVE  \A a \in DOMAIN header : IsRooted(a) /\ ~header[a].marked
PROOF
<1>1. SweepOK
  BY DEF CollectorOK
<1>2. PICK n \in Nat : \E L \in [1 .. n -> DOMAIN header] :
        /\ IsChain(L, n, DOMAIN header, all_objects, Links)
        /\ \E p \in 1 .. n + 1 : SweepAt(L, n, p)
  BY <1>1 DEF SweepOK
<1>3. PICK L \in [1 .. n -> DOMAIN header] :
        /\ IsChain(L, n, DOMAIN header, all_objects, Links)
        /\ \E p \in 1 .. n + 1 : SweepAt(L, n, p)
  BY <1>2
<1>4. PICK p \in 1 .. n + 1 : SweepAt(L, n, p)
  BY <1>3
<1>5. p = n + 1
  <2> SUFFICES ASSUME p # n + 1 PROVE FALSE
    OBVIOUS
  <2>1. p \in 1 .. n /\ current = L[p]
    BY <1>4 DEF SweepAt
  <2> QED
    BY <1>3, <2>1 DEF IsChain
<1>6. \A i \in 1 .. n : IsRooted(L[i]) /\ ~header[L[i]].marked
  BY <1>4, <1>5 DEF SweepAt
<1> QED
  BY <1>3, <1>6 DEF IsChain

LEMMA SweepDoneStep ==
  ASSUME CollectorOK, which = "collector", which' = which, C!SweepDone
  PROVE  CollectorOK' /\ CollectorSafe
PROOF
<1>1. /\ call.op = "sweep" /\ current = NULL /\ call' = call.then
      /\ UNCHANGED <<all_objects, header, roots, bytes_allocated, live>>
  BY DEF C!SweepDone, C!counters, C!NULL, NULL
<1>2. call' \in Outcomes
  BY <1>1, CallKinds DEF CollectorOK, CallOK, Outcomes
<1>3. CallOK' /\ call'.op # "sweep"
  BY <1>2, CallKinds DEF CallOK, Outcomes
<1>4. \A a \in DOMAIN header : IsRooted(a) /\ ~header[a].marked
  BY <1>1, SweepEnd
<1>5. RequestOK' /\ Unmarked'
  BY <1>1, <1>4 DEF RequestOK, Unmarked, IsRooted
<1>6. HeadersOK' /\ ObjectsOK' /\ ListOK'
  BY <1>1 DEF CollectorOK, HeadersOK, ObjectsOK, BlockAt, ListOK, Links
<1>7. CollectorOK'
  BY <1>1, <1>3, <1>5, <1>6 DEF CollectorOK
<1> QED
  BY <1>1, <1>7, CollectorSame

\* Blocks are the objects', one each.
LEMMA BlocksDiffer ==
  ASSUME CollectorOK, NEW a \in DOMAIN header
  PROVE  /\ BlockAt(a) \in live /\ BlockAt(a).ptr = C!Data(a)
         /\ BlockAt(a).len = header[a].size /\ BlockAt(a).align = ALIGNMENT
         /\ \A o \in DOMAIN header : C!Data(o) = C!Data(a) => o = a
PROOF
<1>1. \A o \in DOMAIN header : o \in Nat /\ C!Data(o) = o + GC_HEADER_SIZE
  BY DataAddress DEF CollectorOK, HeadersOK
<1>2. GC_HEADER_SIZE \in Nat
  BY CollectorAssumption
<1>3. \A o \in DOMAIN header : C!Data(o) = C!Data(a) => o = a
  BY <1>1, <1>2
<1>4. BlockAt(a) \in live
  BY DEF CollectorOK, ObjectsOK
<1> QED
  BY <1>3, <1>4 DEF BlockAt

LEMMA SweepGarbageStep ==
  ASSUME CollectorOK, which = "collector", which' = which, C!SweepGarbage
  PROVE  CollectorOK' /\ CollectorSafe
PROOF
<1>1. /\ C!Sweeping /\ ~header[current].marked
      /\ all_objects' = IF prev = NULL THEN header[current].next ELSE all_objects
      /\ header' = [a \in DOMAIN header \ {current} |->
                      IF a = prev THEN [header[a] EXCEPT !.next = header[current].next]
                      ELSE header[a]]
      /\ bytes_allocated' = bytes_allocated - C!total_size(header[current].size)
      /\ live' = {b \in live : b.ptr # C!Data(current)}
      /\ current' = header[current].next
      /\ UNCHANGED <<roots, call, prev>>
  BY DEF C!SweepGarbage, C!Unlink, C!Uncount, C!NULL, NULL
<1>2. PICK n \in Nat : \E L \in [1 .. n -> DOMAIN header] : \E p \in 1 .. n :
        /\ IsChain(L, n, DOMAIN header, all_objects, Links)
        /\ SweepAt(L, n, p) /\ current = L[p]
  BY <1>1, SweepPosition
<1>3. PICK L \in [1 .. n -> DOMAIN header] : \E p \in 1 .. n :
        /\ IsChain(L, n, DOMAIN header, all_objects, Links)
        /\ SweepAt(L, n, p) /\ current = L[p]
  BY <1>2
<1>4. PICK p \in 1 .. n :
        /\ IsChain(L, n, DOMAIN header, all_objects, Links)
        /\ SweepAt(L, n, p) /\ current = L[p]
  BY <1>3
<1>5. PICK old : old = DOMAIN header
  OBVIOUS
<1>6. current \in old /\ DOMAIN header' = old \ {current}
  BY <1>1, <1>4, <1>5
<1>7. ~IsRooted(current)
  BY <1>1, <1>4 DEF SweepAt
<1>8. \A i, j \in 1 .. n : L[i] = L[j] => i = j
  BY <1>4 DEF IsChain
<1>9. \A i \in 1 .. n : L[i] \in old /\ L[i] # NULL
  BY <1>4, <1>5 DEF IsChain
<1>10. header[current].next \in GcBases \cup {NULL}
  BY <1>5, <1>6 DEF CollectorOK, HeadersOK, GcHeader
<1>11. ASSUME NEW a \in old \ {current}
       PROVE  /\ header'[a] \in GcHeader
              /\ header'[a].size = header[a].size /\ header'[a].marked = header[a].marked
              /\ header'[a].next = IF a = prev THEN header[current].next ELSE header[a].next
  <2>1. header[a] \in GcHeader
    BY <1>5 DEF CollectorOK, HeadersOK
  <2>2. header'[a] = IF a = prev THEN [header[a] EXCEPT !.next = header[current].next]
                     ELSE header[a]
    BY <1>1, <1>5
  <2> QED
    BY <1>10, <2>1, <2>2 DEF GcHeader
<1>12. HeadersOK'
  BY <1>5, <1>6, <1>11 DEF CollectorOK, HeadersOK
<1>13. live' = live \ {BlockAt(current)} /\ BlockAt(current) \in live
  <2>1. \A a \in old : BlockAt(a).ptr = C!Data(a) /\ (C!Data(a) = C!Data(current) => a = current)
    BY <1>5, <1>6, BlocksDiffer
  <2>2. live = {BlockAt(a) : a \in old}
    BY <1>5 DEF CollectorOK, ObjectsOK
  <2> QED
    BY <1>1, <1>6, <2>1, <2>2
<1>14. ObjectsOK'
  <2>1. \A a \in old \ {current} : BlockAt(a)' = BlockAt(a)
    BY <1>11 DEF BlockAt
  <2>2. live = {BlockAt(a) : a \in old}
    BY <1>5 DEF CollectorOK, ObjectsOK
  <2>3. \A a \in old \ {current} : BlockAt(a) # BlockAt(current)
    BY <1>5, <1>6, BlocksDiffer
  <2>4. live' = {BlockAt(a) : a \in old \ {current}}
    BY <1>13, <2>2, <2>3
  <2>5. {BlockAt(a) : a \in DOMAIN header}' = {BlockAt(a) : a \in old \ {current}}
    BY <1>6, <2>1
  <2>6. \A a, o \in old \ {current} :
          a # o => \/ a + C!total_size(header'[a].size) <= o
                   \/ o + C!total_size(header'[o].size) <= a
    BY <1>5, <1>11 DEF CollectorOK, ObjectsOK
  <2> QED
    BY <1>6, <2>4, <2>5, <2>6 DEF ObjectsOK
<1>15. bytes_allocated' \in Int
  <2>1. header[current].size \in ObjectSizes
    BY <1>5, <1>6 DEF CollectorOK, HeadersOK, GcHeader
  <2>2. C!total_size(header[current].size) \in Nat
    BY <2>1, TotalSize
  <2> QED
    BY <1>1, <2>2 DEF CollectorOK
<1>16. ASSUME NEW i \in 1 .. n, i # p
       PROVE  Links'[L[i]] = IF i = p - 1 THEN Links[L[p]] ELSE Links[L[i]]
  <2>1. L[i] \in old \ {current}
    BY <1>4, <1>8, <1>9, <1>16
  <2>2. Links'[L[i]] = header'[L[i]].next /\ Links[L[i]] = header[L[i]].next
        /\ Links[L[p]] = header[current].next
    BY <1>4, <1>5, <1>6, <2>1 DEF Links
  <2>3. L[i] = prev <=> i = p - 1
    <3>1. CASE p = 1
      BY <1>4, <1>9, <3>1 DEF SweepAt
    <3>2. CASE p # 1
      <4>1. p - 1 \in 1 .. n /\ prev = L[p - 1]
        BY <1>4, <3>2 DEF SweepAt
      <4> QED
        BY <1>8, <4>1
    <3> QED
      BY <3>1, <3>2
  <2> QED
    BY <1>11, <2>1, <2>2, <2>3
<1> DEFINE K == [i \in 1 .. n - 1 |-> IF i < p THEN L[i] ELSE L[i + 1]]
<1>17. IsChain(K, n - 1, old \ {current}, all_objects', Links')
  <2>1. IsChain(L, n, old, all_objects, Links)
    BY <1>4, <1>5
  <2>2. IsChain(K, n - 1, old \ {L[p]}, IF p = 1 THEN Links[L[p]] ELSE all_objects, Links')
    BY <1>16, <2>1, ChainRemove
  <2>3. all_objects' = IF p = 1 THEN Links[L[p]] ELSE all_objects
    <3>1. Links[L[p]] = header[current].next
      BY <1>4, <1>5, <1>6 DEF Links
    <3>2. prev = NULL <=> p = 1
      <4>1. p # 1 => p - 1 \in 1 .. n
        OBVIOUS
      <4> QED
        BY <1>4, <1>9, <4>1 DEF SweepAt
    <3> QED
      BY <1>1, <3>1, <3>2
  <2> QED
    BY <1>4, <2>2, <2>3
<1>18. /\ n - 1 \in Nat /\ p \in 1 .. (n - 1) + 1 /\ (p = (n - 1) + 1 <=> p = n)
       /\ \A i \in 1 .. n - 1 : /\ i \in 1 .. n /\ i + 1 \in 1 .. n
                                /\ i < p => K[i] = L[i]
                                /\ i >= p => K[i] = L[i + 1] /\ i + 1 >= p /\ i + 1 # p
                                /\ i # p \/ K[i] = L[i + 1]
  OBVIOUS
<1>19. K \in [1 .. n - 1 -> old \ {current}]
  BY <1>17 DEF IsChain
<1>20. current' = IF p = (n - 1) + 1 THEN NULL ELSE K[p]
  <2>1. Links[L[p]] = IF p = n THEN NULL ELSE L[p + 1]
    BY <1>4 DEF IsChain
  <2>2. Links[L[p]] = header[current].next
    BY <1>4, <1>5, <1>6 DEF Links
  <2>3. p # n => p \in 1 .. n - 1 /\ K[p] = L[p + 1]
    OBVIOUS
  <2> QED
    BY <1>1, <1>18, <2>1, <2>2, <2>3
<1>21. prev' = IF p = 1 THEN NULL ELSE K[p - 1]
  <2>1. p # 1 => p - 1 \in 1 .. n - 1 /\ K[p - 1] = L[p - 1]
    OBVIOUS
  <2> QED
    BY <1>1, <1>4, <2>1 DEF SweepAt
<1> HIDE DEF K
<1>22. \A a \in old : IsRooted(a)' <=> IsRooted(a)
  BY <1>1 DEF IsRooted
<1>23. ASSUME NEW i \in 1 .. n - 1, i < p
       PROVE  IsRooted(K[i])' /\ ~header'[K[i]].marked
  <2>1. K[i] = L[i] /\ i \in 1 .. n /\ K[i] \in old \ {current}
    BY <1>18, <1>19, <1>23
  <2>2. IsRooted(L[i]) /\ ~header[L[i]].marked
    BY <1>4, <1>23, <2>1 DEF SweepAt
  <2> QED
    BY <1>11, <1>22, <2>1, <2>2
<1>24. ASSUME NEW i \in 1 .. n - 1, i >= p
       PROVE  header'[K[i]].marked <=> IsRooted(K[i])'
  <2>1. K[i] = L[i + 1] /\ i + 1 \in 1 .. n /\ i + 1 >= p /\ K[i] \in old \ {current}
    BY <1>18, <1>19, <1>24
  <2>2. header[L[i + 1]].marked <=> IsRooted(L[i + 1])
    BY <1>4, <2>1 DEF SweepAt
  <2> QED
    BY <1>11, <1>22, <2>1, <2>2
<1>25. SweepAt(K, n - 1, p)'
  BY <1>20, <1>21, <1>23, <1>24 DEF SweepAt
<1>26. SweepOK' /\ ListOK'
  BY <1>6, <1>17, <1>18, <1>19, <1>25 DEF SweepOK, ListOK, HasChain
<1>27. CallOK' /\ RequestOK' /\ call'.op = "sweep"
  BY <1>1 DEF CollectorOK, CallOK, RequestOK, C!Sweeping
<1>28. CollectorOK'
  BY <1>1, <1>12, <1>14, <1>15, <1>26, <1>27 DEF CollectorOK
<1>29. HeapStep
  BY <1>13, CollectorKept, Releases
<1>30. C!Rooted
  <2>1. \A b \in live : b.ptr \in roots => b.ptr # C!Data(current)
    BY <1>7 DEF IsRooted
  <2> QED
    BY <1>1, <2>1 DEF C!Rooted
<1>31. C!Bounded
  BY <1>13 DEF C!Bounded
<1> QED
  BY <1>28, <1>29, <1>30, <1>31 DEF CollectorSafe

LEMMA GrantedStep ==
  ASSUME CollectorOK, which = "collector", which' = which, C!Granted
  PROVE  CollectorOK' /\ CollectorSafe
PROOF
<1>1. /\ call.op = "request" /\ call' = C!Idle
      /\ bytes_allocated' = bytes_allocated + C!total_size(call.arg)
      /\ roots' = roots
  BY DEF C!Granted
<1>2. call.arg \in ObjectSizes
  BY <1>1, CallKinds DEF CollectorOK, CallOK, Outcomes
<1>3. PICK n \in ObjectSizes : n = call.arg
  BY <1>2
<1>4. PICK a \in C!FreeBases(C!total_size(n)) :
        /\ C!Link(a, n)
        /\ live' = live \cup {[ptr |-> C!Data(a), len |-> n, align |-> ALIGNMENT]}
  BY <1>3 DEF C!Granted
<1>5. PICK old : old = DOMAIN header
  OBVIOUS
<1>6. /\ header' = [o \in old \cup {a} |->
                      IF o = a THEN [size |-> n, marked |-> FALSE, next |-> all_objects]
                      ELSE header[o]]
      /\ all_objects' = a
  BY <1>4, <1>5 DEF C!Link
<1>7. /\ a \in GcBases
      /\ \A o \in old : \/ a + C!total_size(n) <= o
                        \/ o + C!total_size(header[o].size) <= a
  BY <1>4, <1>5 DEF C!FreeBases
<1>8. /\ a \in Nat \ {0} /\ n \in Nat /\ C!total_size(n) \in Nat
      /\ GC_HEADER_SIZE \in Nat \ {0} /\ ALIGNMENT \in Nat \ {0}
      /\ GC_HEADER_SIZE + n <= C!total_size(n)
      /\ C!total_size(n) < GC_HEADER_SIZE + n + ALIGNMENT
      /\ C!Data(a) = a + GC_HEADER_SIZE /\ C!Data(a) % ALIGNMENT = 0
  BY <1>7, DataAddress, TotalSize, CollectorAssumption, LayoutAssumption
<1>9. ASSUME NEW o \in old
      PROVE  /\ o \in Nat /\ C!Data(o) = o + GC_HEADER_SIZE
             /\ header[o].size \in Nat /\ C!total_size(header[o].size) \in Nat
             /\ GC_HEADER_SIZE + header[o].size <= C!total_size(header[o].size)
  <2>1. o \in GcBases /\ header[o].size \in ObjectSizes
    BY <1>5 DEF CollectorOK, HeadersOK, GcHeader
  <2> QED
    BY <2>1, DataAddress, TotalSize
<1>10. a \notin old
  BY <1>7, <1>8, <1>9
<1>11. /\ DOMAIN header' = old \cup {a}
       /\ header'[a] = [size |-> n, marked |-> FALSE, next |-> all_objects]
       /\ \A o \in old : header'[o] = header[o]
  BY <1>6, <1>10
<1>12. NULL \notin old /\ all_objects \in old \cup {NULL}
  BY <1>5, ChainHead DEF CollectorOK, ListOK
<1>13. old \subseteq GcBases /\ \A o \in old : header[o] \in GcHeader
  BY <1>5 DEF CollectorOK, HeadersOK
<1>14. HeadersOK'
  <2>1. header'[a] \in GcHeader
    BY <1>11, <1>12, <1>13 DEF GcHeader
  <2> QED
    BY <1>7, <1>11, <1>13, <2>1 DEF HeadersOK
<1>15. ListOK'
  <2>1. HasChain(old, all_objects, Links)
    BY <1>5 DEF CollectorOK, ListOK
  <2>2. Links'[a] = all_objects /\ \A o \in old : Links'[o] = Links[o]
    BY <1>5, <1>11 DEF Links
  <2>3. a # NULL
    BY <1>8 DEF NULL
  <2>4. HasChain(old \cup {a}, a, Links')
    BY <1>10, <2>1, <2>2, <2>3, ChainPush
  <2> QED
    BY <1>6, <1>11, <2>4 DEF ListOK
<1> DEFINE b == [ptr |-> C!Data(a), len |-> n, align |-> ALIGNMENT]
<1>16. BlockAt(a)' = b /\ \A o \in old : BlockAt(o)' = BlockAt(o)
  BY <1>11 DEF BlockAt
<1>17. live = {BlockAt(o) : o \in old}
  BY <1>5 DEF CollectorOK, ObjectsOK
<1>18. ObjectsOK'
  <2>1. live' = {BlockAt(o) : o \in old} \cup {b}
    BY <1>4, <1>17
  <2>2. {BlockAt(o) : o \in DOMAIN header}' = {BlockAt(o) : o \in old} \cup {b}
    BY <1>11, <1>16
  <2>3. ASSUME NEW x \in old \cup {a}, NEW y \in old \cup {a}, x # y
        PROVE  \/ x + C!total_size(header'[x].size) <= y
               \/ y + C!total_size(header'[y].size) <= x
    <3>1. header'[a].size = n
      BY <1>11
    <3>2. CASE x = a
      BY <1>7, <1>11, <2>3, <3>1, <3>2
    <3>3. CASE y = a
      BY <1>7, <1>11, <2>3, <3>1, <3>3
    <3>4. CASE x # a /\ y # a
      BY <1>5, <1>11, <2>3, <3>4 DEF CollectorOK, ObjectsOK
    <3> QED
      BY <3>2, <3>3, <3>4
  <2> QED
    BY <1>11, <2>1, <2>2, <2>3 DEF ObjectsOK
<1>19. call.op # "sweep" /\ call'.op = "none"
  BY <1>1, CallKinds
<1>20. Unmarked'
  BY <1>5, <1>11, <1>19 DEF CollectorOK, Unmarked
<1>21. CallOK' /\ RequestOK'
  BY <1>1, <1>19 DEF CallOK, Outcomes, RequestOK
<1>22. bytes_allocated \in Int /\ bytes_allocated' \in Int
  BY <1>1, <1>3, <1>8 DEF CollectorOK
<1>23. CollectorOK'
  BY <1>1, <1>14, <1>15, <1>18, <1>19, <1>20, <1>21, <1>22 DEF CollectorOK
<1>24. b.ptr = C!Data(a) /\ b.len = n /\ b.align = ALIGNMENT /\ b \in live'
       /\ live' = live \cup {b}
  BY <1>4
<1> HIDE DEF b
<1>25. HeapStep
  <2>1. Memory' = Memory /\ Memory = C!Memory
    BY CollectorKept
  <2>2. b.ptr .. b.ptr + b.len - 1 \subseteq a .. a + C!total_size(n) - 1
    BY <1>8, <1>24
  <2>3. a .. a + C!total_size(n) - 1 \subseteq Memory
    <3> DEFINE parts == {x .. x + C!total_size(m) - 1 : x \in GcBases, m \in ObjectSizes}
    <3>1. (a .. a + C!total_size(n) - 1) \in parts
      BY <1>7
    <3>2. Memory = UNION parts
      BY <2>1 DEF C!Memory
    <3> HIDE DEF parts
    <3> QED
      BY <3>1, <3>2
  <2>4. ASSUME NEW c \in live
        PROVE  (b.ptr .. b.ptr + b.len - 1) \cap (c.ptr .. c.ptr + c.len - 1) = {}
    <3>1. PICK o \in old : c = BlockAt(o)
      BY <1>17
    <3>2. c.ptr = C!Data(o) /\ c.len = header[o].size
      BY <3>1 DEF BlockAt
    <3>3. c.ptr .. c.ptr + c.len - 1 \subseteq o .. o + C!total_size(header[o].size) - 1
      BY <1>8, <1>9, <3>2
    <3>4. (a .. a + C!total_size(n) - 1) \cap (o .. o + C!total_size(header[o].size) - 1) = {}
      BY <1>7, <1>8, <1>9
    <3> QED
      BY <2>2, <3>3, <3>4
  <2> QED
    <3>1. b.ptr % b.align = 0 /\ b \in live' /\ live' = live \cup {b}
      BY <1>8, <1>24
    <3>2. Memory \subseteq Memory' /\ b.ptr .. b.ptr + b.len - 1 \subseteq Memory'
      BY <2>1, <2>2, <2>3
    <3> QED
      BY <2>4, <3>1, <3>2, Grants
<1>26. C!Rooted
  BY <1>24 DEF C!Rooted
<1>27. C!Bounded
  <2>1. CASE bytes_allocated + n <= gc_threshold
    <3>1. gc_threshold \in Nat
      BY CollectorAssumption
    <3>2. bytes_allocated' <= gc_threshold + GC_HEADER_SIZE + ALIGNMENT
      BY <1>1, <1>3, <1>8, <1>22, <2>1, <3>1
    <3> QED
      BY <3>2 DEF C!Bounded
  <2>2. CASE \A o \in old : IsRooted(o)
    <3>1. ASSUME NEW c \in live PROVE c.ptr \in roots
      <4>1. PICK o \in old : c = BlockAt(o)
        BY <1>17
      <4> QED
        BY <2>2, <4>1 DEF BlockAt, IsRooted
    <3> QED
      BY <3>1 DEF C!Bounded
  <2> QED
    BY <1>1, <1>3, <1>5, <2>1, <2>2 DEF CollectorOK, RequestOK
<1> QED
  BY <1>23, <1>25, <1>26, <1>27 DEF CollectorSafe

LEMMA AllocStep ==
  ASSUME CollectorOK, which = "collector", which' = which,
         NEW n \in ObjectSizes, C!Alloc(n)
  PROVE  CollectorOK' /\ CollectorSafe
PROOF
<1> DEFINE request == [op |-> "request", arg |-> n]
<1>1. call = C!Idle /\ call.op = "none"
  BY CallKinds DEF C!Alloc
<1>2. request \in Requests("request") /\ request \in Outcomes
  BY DEF Requests, Outcomes
<1>3. CASE C!MustCollect(n)
  <2>1. C!Collect(request)
    BY <1>3 DEF C!Alloc
  <2> QED
    BY <1>1, <1>2, <2>1, CollectStep
<1>4. CASE ~C!MustCollect(n)
  <2>1. /\ call' = request
        /\ UNCHANGED <<all_objects, header, roots, bytes_allocated, live>>
    BY <1>4 DEF C!Alloc, C!counters
  <2>2. bytes_allocated + n <= gc_threshold
    <3>1. bytes_allocated \in Int /\ n \in Nat /\ gc_threshold \in Nat
      BY CollectorAssumption DEF CollectorOK
    <3> QED
      BY <1>4, <3>1 DEF C!MustCollect
  <2>3. CallOK' /\ RequestOK' /\ call'.op # "sweep"
    BY <1>2, <2>1, <2>2 DEF CallOK, RequestOK
  <2>4. CollectorOK'
    BY <1>1, <2>1, <2>3, CollectorQuiet DEF CollectorOK
  <2> QED
    BY <2>1, <2>4, CollectorSame
<1> QED
  BY <1>3, <1>4

LEMMA RefusedStep ==
  ASSUME CollectorOK, which = "collector", which' = which, C!Refused
  PROVE  CollectorOK' /\ CollectorSafe
PROOF
<1>1. call.op = "request" /\ C!Collect([op |-> "retry", arg |-> call.arg])
  BY DEF C!Refused
<1>2. call.arg \in ObjectSizes
  BY <1>1, CallKinds DEF CollectorOK, CallOK, Outcomes
<1>3. [op |-> "retry", arg |-> call.arg] \in Outcomes
  BY <1>2 DEF Outcomes, Requests
<1> QED
  BY <1>1, <1>3, CollectStep

LEMMA RetryStep ==
  ASSUME CollectorOK, which = "collector", which' = which,
         C!RefusedAgain \/ C!GrantedTooLate
  PROVE  CollectorOK' /\ CollectorSafe
PROOF
<1>1. /\ call.op = "retry" /\ call' \in {C!Idle, C!Crashed}
      /\ UNCHANGED <<all_objects, header, roots, bytes_allocated, live>>
  BY DEF C!RefusedAgain, C!GrantedTooLate, C!counters
<1>2. call'.op \notin {"sweep", "request"} /\ CallOK'
  BY <1>1, CallKinds DEF CallOK, Outcomes
<1>3. RequestOK'
  BY <1>2 DEF RequestOK
<1>4. CollectorOK'
  BY <1>1, <1>2, <1>3, CollectorQuiet DEF CollectorOK
<1> QED
  BY <1>1, <1>4, CollectorSame

LEMMA DropStep ==
  ASSUME CollectorOK, which = "collector", which' = which, C!Drop
  PROVE  CollectorOK' /\ CollectorSafe
PROOF
<1>1. /\ live' = {} /\ header' = <<>> /\ all_objects' = NULL /\ call' = C!Dropped
      /\ UNCHANGED <<roots, bytes_allocated>>
  BY DEF C!Drop, C!counters, C!NULL, NULL
<1>2. DOMAIN header' = {}
  BY <1>1
<1>3. ListOK'
  <2> DEFINE L == [i \in 1 .. 0 |-> NULL]
  <2>1. 0 \in Nat /\ L \in [1 .. 0 -> {}]
    OBVIOUS
  <2>2. IsChain(L, 0, {}, all_objects', Links')
    BY <1>1, <2>1 DEF IsChain
  <2>3. HasChain({}, all_objects', Links')
    BY <2>1, <2>2 DEF HasChain
  <2> QED
    BY <1>2, <2>3 DEF ListOK
<1>4. call'.op = "dropped" /\ CallOK'
  BY <1>1, CallKinds DEF CallOK
<1>5. HeadersOK' /\ ObjectsOK' /\ RequestOK' /\ Unmarked'
  BY <1>1, <1>2, <1>4 DEF HeadersOK, ObjectsOK, RequestOK, Unmarked
<1>6. CollectorOK'
  BY <1>1, <1>3, <1>4, <1>5 DEF CollectorOK
<1>7. HeapStep
  BY <1>1, CollectorKept, ReleasesAll
<1> QED
  BY <1>1, <1>6, <1>7 DEF CollectorSafe, C!Rooted, C!Bounded

LEMMA CollectorStep ==
  ASSUME CollectorOK, which = "collector", which' = which, C!Next
  PROVE  CollectorOK' /\ CollectorSafe
PROOF
<1>1. ASSUME NEW p \in C!Pointers, C!add_root(p) \/ C!remove_root(p) \/ C!clear_roots
      PROVE  CollectorOK' /\ CollectorSafe
  <2>1. /\ roots \cup {p} \subseteq C!Pointers /\ roots \ {p} \subseteq C!Pointers
        /\ {} \subseteq C!Pointers
    BY DEF CollectorOK
  <2> QED
    BY <1>1, <2>1, RootsStep DEF C!add_root, C!remove_root, C!clear_roots
<1>2. C!NULL \in C!Pointers
  BY DEF C!Pointers
<1>3. CASE C!collect
  <2>1. call.op # "sweep" /\ C!Idle \in Outcomes
    BY <1>3, CallKinds DEF C!collect, Outcomes
  <2> QED
    BY <1>3, <2>1, CollectStep DEF C!collect
<1> QED
  BY <1>1, <1>2, <1>3, AllocStep, SweepMarkedStep, SweepGarbageStep, SweepDoneStep,
     GrantedStep, RefusedStep, RetryStep, DropStep DEF C!Next, C!Step

\* The properties of the collector's states.
LEMMA CollectorCardinality ==
  ASSUME NEW T
  PROVE  C!Cardinality(T) = Cardinality(T)
BY DEF C!Cardinality, Cardinality

LEMMA CollectorList ==
  ASSUME CollectorOK
  PROVE  C!ListExact
PROOF
<1>1. PICK n \in Nat : \E L \in [1 .. n -> DOMAIN header] :
                         IsChain(L, n, DOMAIN header, all_objects, Links)
  BY DEF CollectorOK, ListOK, HasChain
<1>2. PICK L \in [1 .. n -> DOMAIN header] : IsChain(L, n, DOMAIN header, all_objects, Links)
  BY <1>1
<1>3. NULL \notin DOMAIN header /\ C!NULL = NULL
  BY <1>2 DEF IsChain, C!NULL, NULL
<1>4. IsFiniteSet(DOMAIN header) /\ Cardinality(DOMAIN header) = n
  BY <1>2, ChainLength
<1>5. Cardinality(live) = n
  <2> DEFINE g == [a \in DOMAIN header |-> BlockAt(a)]
  <2>1. live = {BlockAt(a) : a \in DOMAIN header}
    BY DEF CollectorOK, ObjectsOK
  <2>2. \A a, o \in DOMAIN header : BlockAt(a) = BlockAt(o) => a = o
    BY BlocksDiffer
  <2>3. g \in Bijection(DOMAIN header, live)
    BY <2>1, <2>2 DEF Bijection, Injection, Surjection, IsInjective
  <2>4. ExistsBijection(DOMAIN header, live)
    BY <2>3 DEF ExistsBijection
  <2> QED
    BY <1>4, <2>4, FS_Bijection
<1>6. \E w : w = [k \in Nat |-> IF k = 0 THEN all_objects
                                ELSE IF w[k - 1] = NULL THEN NULL
                                     ELSE header[w[k - 1]].next]
  <2>1. PICK w : /\ Walk(w, all_objects, Links)
                 /\ \A k \in Nat : w[k] \in DOMAIN header \cup {NULL}
    BY <1>2, ChainWalk
  <2>2. w = [k \in Nat |-> IF k = 0 THEN all_objects
                           ELSE IF w[k - 1] = NULL THEN NULL ELSE Links[w[k - 1]]]
    BY <2>1 DEF Walk
  <2>3. ASSUME NEW k \in Nat
        PROVE  w[k] = IF k = 0 THEN all_objects
                      ELSE IF w[k - 1] = NULL THEN NULL ELSE header[w[k - 1]].next
    <3>1. w[k] = IF k = 0 THEN all_objects
                 ELSE IF w[k - 1] = NULL THEN NULL ELSE Links[w[k - 1]]
      BY <2>2
    <3>2. k # 0 => w[k - 1] \in DOMAIN header \cup {NULL}
      <4>1. k # 0 => k - 1 \in Nat
        OBVIOUS
      <4> QED
        BY <2>1, <4>1
    <3>3. \A a \in DOMAIN header : Links[a] = header[a].next
      BY DEF Links
    <3> QED
      BY <3>1, <3>2, <3>3
  <2>4. w = [k \in Nat |-> w[k]]
    BY <2>2
  <2>5. w = [k \in Nat |-> IF k = 0 THEN all_objects
                           ELSE IF w[k - 1] = NULL THEN NULL ELSE header[w[k - 1]].next]
    BY <2>3, <2>4
  <2> QED
    BY <2>5
<1>7. C!nth = [k \in Nat |-> IF k = 0 THEN all_objects
                             ELSE IF C!nth[k - 1] = NULL THEN NULL
                                  ELSE header[C!nth[k - 1]].next]
  <2>1. C!NULL = NULL
    BY <1>3
  <2> QED
    BY <1>6, <2>1, ZenonT(30) DEF C!nth
<1>8. PICK nth : nth = C!nth
  OBVIOUS
<1>9. {nth[k] : k \in 0 .. n - 1} = DOMAIN header /\ nth[n] = NULL
  <2>1. \A k \in Nat : nth[k] = IF k = 0 THEN all_objects
                                ELSE IF nth[k - 1] = NULL THEN NULL
                                     ELSE header[nth[k - 1]].next
    BY <1>7, <1>8
  <2>2. \A k \in 1 .. n : k \in Nat /\ k # 0
    OBVIOUS
  <2>3. nth[0] = all_objects
    BY <2>1
  <2>4. \A a \in DOMAIN header : Links[a] = header[a].next
    BY DEF Links
  <2>5. \A k \in 1 .. n : nth[k - 1] \in DOMAIN header => nth[k] = Links[nth[k - 1]]
    BY <1>3, <2>1, <2>2, <2>4
  <2>6. \A k \in 1 .. n : nth[k - 1] = NULL => nth[k] = NULL
    BY <2>1, <2>2
  <2>7. Follows(nth, n, DOMAIN header, all_objects, Links)
    BY <2>3, <2>5, <2>6 DEF Follows
  <2>8. Visits(nth, n, DOMAIN header)
    BY <1>2, <2>7, ChainNth
  <2> QED
    BY <2>8 DEF Visits
<1>10. {C!Data(a) : a \in DOMAIN header} = {b.ptr : b \in live}
  <2>1. live = {BlockAt(a) : a \in DOMAIN header}
    BY DEF CollectorOK, ObjectsOK
  <2>2. \A a \in DOMAIN header : BlockAt(a).ptr = C!Data(a)
    BY DEF BlockAt
  <2> QED
    BY <2>1, <2>2
<1>11. call.op # "sweep" => \A a \in DOMAIN header : ~header[a].marked
  BY DEF CollectorOK, Unmarked
<1>12. C!Cardinality(live) = n
  BY <1>5, CollectorCardinality
<1> QED
  BY <1>3, <1>8, <1>9, <1>10, <1>11, <1>12 DEF C!ListExact

LEMMA CollectorSweeps ==
  ASSUME CollectorOK
  PROVE  C!SweepComplete
PROOF
<1> SUFFICES ASSUME call.op = "sweep", current = NULL, NEW b \in live PROVE b.ptr \in roots
  BY DEF C!SweepComplete, C!NULL, NULL
<1>1. PICK a \in DOMAIN header : b = BlockAt(a)
  BY DEF CollectorOK, ObjectsOK
<1>2. IsRooted(a)
  BY SweepEnd
<1> QED
  BY <1>1, <1>2 DEF BlockAt, IsRooted

(***************************************************************************)
(* FreeList, whose steps are in FreeListProofs.                            *)
(***************************************************************************)
LEMMA FreeListStep ==
  ASSUME FreeListOK, which = "free_list", which' = which, F!Next
  PROVE  FreeListOK' /\ HeapStep
PROOF
<1>1. /\ FreeListOK' /\ UNCHANGED <<start, size>>
      /\ \/ live' = live
         \/ \E b \in live : live' = live \ {b}
         \/ \E b : b \notin live /\ live' = live \cup {b}
  BY FreeListTurn
<1>2. Memory' = Memory /\ Memory = start .. start + size - 1
  BY <1>1, ArenaKept
<1>3. ClientsApart'
  BY <1>1, ClientBytes, PTL
<1>4. CASE live' = live
  BY <1>1, <1>2, <1>4, Keeps
<1>5. CASE \E b \in live : live' = live \ {b}
  BY <1>1, <1>2, <1>5, Releases
<1>6. CASE \E b : b \notin live /\ live' = live \cup {b}
  <2>1. PICK b \in live' : b \notin live /\ live' = live \cup {b}
    BY <1>6
  <2>2. /\ b.ptr .. b.ptr + b.len - 1 \subseteq start' .. start' + size' - 1
        /\ b.ptr % b.align = 0
        /\ \A c \in live :
             (b.ptr .. b.ptr + b.len - 1) \cap (c.ptr .. c.ptr + c.len - 1) = {}
    BY <1>3, <2>1 DEF ClientsApart
  <2>3. b.ptr .. b.ptr + b.len - 1 \subseteq Memory'
    BY <1>1, <1>2, <2>2
  <2> QED
    BY <1>1, <1>2, <2>1, <2>2, <2>3, Grants
<1> QED
  BY <1>1, <1>4, <1>5, <1>6

(***************************************************************************)
(* The allocators together.                                                *)
(***************************************************************************)
IInv ==
  \/ which = "bump" /\ BumpOK
  \/ which = "free_list" /\ FreeListOK
  \/ which = "slab" /\ SlabOK
  \/ which = "collector" /\ CollectorOK

\* What a step owes the clients of the allocator in use.
Safe ==
  /\ HeapStep
  /\ slabs' # slabs => S!FreeObjects = {}
  /\ which = "collector" => C!Rooted /\ C!Bounded

LEMMA Stutters ==
  ASSUME IInv, UNCHANGED vars
  PROVE  IInv' /\ Safe
PROOF
<1>1. /\ UNCHANGED <<which, allocation_count, live, start, size, bytes_allocated, ptr>>
      /\ UNCHANGED <<free_list, header, call, prev, current, slabs, link, all_objects, roots, stats>>
  BY DEF vars
<1>2. Memory' = Memory
  BY <1>1 DEF Memory, S!Span, S!object_size, S!align_up, C!Memory
<1>3. HeapStep
  BY <1>1, <1>2, Keeps
<1>4. Safe
  BY <1>1, <1>3 DEF Safe, C!Rooted, C!Bounded
<1>5. CASE which = "bump" /\ BumpOK
  BY <1>1, <1>4, <1>5 DEF IInv, BumpOK
<1>6. CASE which = "free_list" /\ FreeListOK
  <2>1. F!FreeBlocks' = F!FreeBlocks
    BY <1>1 DEF F!FreeBlocks, F!HeaderOf
  <2>2. SearchesAt' <=> SearchesAt
    BY <1>1, <2>1 DEF SearchesAt, At, BlockNexts
  <2>3. SearchOK
    BY <1>6 DEF FreeListOK
  <2>4. SearchOK'
    BY <1>1, <2>2, <2>3 DEF SearchOK, F!HeaderOf, F!Idle
  <2>5. FreeListOK'
    BY <1>1, <1>6, <2>1, <2>4, QuietStep
  <2> QED
    BY <1>1, <1>4, <1>6, <2>5 DEF IInv
<1>7. CASE which = "slab" /\ SlabOK
  <2>1. /\ S!AllObjects' = S!AllObjects /\ S!FreeObjects' = S!FreeObjects
        /\ \A a : S!Object(a)' = S!Object(a) /\ S!Span(a)' = S!Span(a)
    BY <1>1 DEF S!AllObjects, S!FreeObjects, S!Objects, S!Object, S!Span, S!object_size, S!align_up
  <2>2. SlabOK'
    <3>1. live' \subseteq {S!Object(a)' : a \in S!AllObjects'}
      BY <1>1, <1>7, <2>1 DEF SlabOK
    <3> QED
      BY <1>1, <1>7, <2>1, <3>1 DEF SlabOK
  <2> QED
    BY <1>1, <1>4, <1>7, <2>2 DEF IInv
<1>8. CASE which = "collector" /\ CollectorOK
  <2>1. Links' = Links /\ C!Pointers' = C!Pointers /\ \A a : C!Data(a)' = C!Data(a)
    BY <1>1 DEF Links, C!Pointers, C!Data
  <2>2. HeadersOK' /\ ObjectsOK' /\ ListOK' /\ CallOK' /\ RequestOK'
    BY <1>1, <1>8, <2>1
       DEF CollectorOK, HeadersOK, ObjectsOK, BlockAt, C!total_size, C!align_up, ListOK, CallOK,
           RequestOK, IsRooted
  <2>3. Unmarked' <=> Unmarked
    BY <1>1 DEF Unmarked
  <2>4. \A L, n, p : SweepAt(L, n, p)' <=> SweepAt(L, n, p)
    BY <1>1, <2>1 DEF SweepAt, IsRooted
  <2>5. SweepOK' <=> SweepOK
    BY <1>1, <2>1, <2>4 DEF SweepOK
  <2>6. CollectorOK'
    BY <1>1, <1>8, <2>1, <2>2, <2>3, <2>5 DEF CollectorOK
  <2> QED
    BY <1>1, <1>4, <1>8, <2>6 DEF IInv
<1> QED
  BY <1>5, <1>6, <1>7, <1>8 DEF IInv

LEMMA AllocatorStep ==
  ASSUME IInv, [Next]_vars
  PROVE  IInv' /\ Safe
PROOF
<1>1. CASE UseBump
  <2>1. /\ which = "bump" /\ which' = which /\ slabs' = slabs /\ B!Next /\ BumpOK
    BY <1>1 DEF UseBump, IInv
  <2> QED
    BY <2>1, BumpStep DEF IInv, Safe
<1>2. CASE UseFreeList
  <2>1. /\ which = "free_list" /\ which' = which /\ slabs' = slabs /\ F!Next /\ FreeListOK
    BY <1>2 DEF UseFreeList, IInv
  <2> QED
    BY <2>1, FreeListStep DEF IInv, Safe
<1>3. CASE UseSlab
  <2>1. /\ which = "slab" /\ which' = which /\ S!Next /\ SlabOK
    BY <1>3 DEF UseSlab, IInv
  <2>2. SlabOK' /\ HeapStep
    BY <2>1, SlabStep
  <2>3. slabs' # slabs => S!FreeObjects = {}
    BY <2>1, SlabGrowth DEF S!Next, S!Alloc, S!Free
  <2> QED
    BY <2>1, <2>2, <2>3 DEF IInv, Safe
<1>4. CASE UseCollector
  <2>1. /\ which = "collector" /\ which' = which /\ slabs' = slabs /\ C!Next /\ CollectorOK
    BY <1>4 DEF UseCollector, IInv
  <2> QED
    BY <2>1, CollectorStep DEF IInv, Safe, CollectorSafe
<1>5. CASE CollectorOver \/ UNCHANGED vars
  BY <1>5, Stutters DEF CollectorOver
<1> QED
  BY <1>1, <1>2, <1>3, <1>4, <1>5 DEF Next

\* The allocator in use keeps its blocks, lists and counters in order: IInv
\* holds from new on, over every sequence of the clients' calls.
THEOREM Invariance == Spec => []IInv
PROOF
<1>1. Init => IInv
  BY BumpInit, FreeListInit, SlabInit, CollectorInit DEF Init, IInv
<1>2. IInv /\ [Next]_vars => IInv'
  BY AllocatorStep
<1> QED
  BY <1>1, <1>2, PTL DEF Spec

\* Every allocator implements Heap: alloc answers with memory that is the
\* allocator's, aligned as asked and shared with no block in use.
THEOREM Implementation == Spec => ImplementsHeap
PROOF
<1>1. Init => H!HeapInit
  BY DEF Init, B!Init, F!Init, S!Init, C!Init, H!HeapInit
<1>2. IInv /\ [Next]_vars => [H!Grant \/ H!Release \/ H!ReleaseAll]_<<Memory, live>>
  BY AllocatorStep DEF Safe, HeapStep
<1> QED
  BY <1>1, <1>2, Invariance, PTL DEF Spec, ImplementsHeap, H!HeapSpec, Memory

\* FreeListAllocator's blocks tile its arena, hold what their clients asked for
\* and are coalesced between calls: the sizes that alloc and free write.
THEOREM BlocksTile == Spec => []FreeListTiled
PROOF
<1>1. IInv => FreeListTiled
  BY FreeListTiles DEF IInv, FreeListTiled
<1> QED
  BY <1>1, Invariance, PTL

\* The lists in the managed memory hold what is free (FreeList, Slab) or what
\* was not given back (Collector), each once, and end in null.
THEOREM ListsHoldAll == Spec => []ListsExact
PROOF
<1>1. IInv => ListsExact
  BY FreeListList, SlabList, CollectorList DEF IInv, ListsExact
<1> QED
  BY <1>1, Invariance, PTL

\* allocate_slab is called only when every object of every slab is in use.
THEOREM SlabsGrowWhenFull == Spec => SlabGrowsOnlyWhenFull
PROOF
<1>1. IInv /\ [Next]_vars => [slabs' # slabs => S!FreeObjects = {}]_S!vars
  BY AllocatorStep DEF Safe
<1> QED
  BY <1>1, Invariance, PTL DEF Spec, SlabGrowsOnlyWhenFull, S!GrowsOnlyWhenFull

\* At the end of a sweep every object that is left is rooted.
THEOREM SweepTakesAll == Spec => []CollectorSweepComplete
PROOF
<1>1. IInv => CollectorSweepComplete
  BY CollectorSweeps DEF IInv, CollectorSweepComplete
<1> QED
  BY <1>1, Invariance, PTL

\* No step but the drop of the collector takes a rooted object.
THEOREM RootedSurvive == Spec => CollectorRootedSurvive
PROOF
<1>1. IInv /\ [Next]_vars => [which = "collector" => C!Rooted]_vars
  BY AllocatorStep DEF Safe
<1> QED
  BY <1>1, Invariance, PTL DEF Spec, CollectorRootedSurvive

\* alloc grants an object beyond the threshold only when nothing could be
\* collected.
THEOREM GarbageIsBounded == Spec => CollectorGarbageBounded
PROOF
<1>1. IInv /\ [Next]_vars => [which = "collector" => C!Bounded]_vars
  BY AllocatorStep DEF Safe
<1> QED
  BY <1>1, Invariance, PTL DEF Spec, CollectorGarbageBounded

(***************************************************************************)
(* The counters.  FreeListOK already has those of FreeList.                *)
(***************************************************************************)
LEMMA SameSums ==
  ASSUME NEW f
  PROVE  B!SumFunction(f) = SumFunction(f) /\ C!SumFunction(f) = SumFunction(f)
BY Zenon DEF B!SumFunction, B!SumFunctionOnSet, B!FoldFunctionOnSet, B!MapThenFoldSet,
             C!SumFunction, C!SumFunctionOnSet, C!FoldFunctionOnSet, C!MapThenFoldSet,
             SumFunction, SumFunctionOnSet, FoldFunctionOnSet, MapThenFoldSet

Lengths == [b \in live |-> b.len]

BumpCounts ==
  /\ IsFiniteSet(live)
  /\ bytes_allocated = SumFunction(Lengths)
  /\ bytes_allocated \in Nat /\ bytes_allocated <= ptr - start

\* Two grants may answer with the same block: of no bytes.
LEMMA BumpCounted ==
  ASSUME BumpOK, BumpCounts, B!Next
  PROVE  BumpCounts'
PROOF
<1>1. /\ start \in Nat \ {0} /\ size \in Nat
      /\ ptr \in Nat /\ start <= ptr /\ ptr <= start + size
  BY BasesAssumption, CapacitiesAssumption, LayoutAssumption DEF BumpOK
<1>2. CASE B!Reset
  <2>1. start' = start /\ ptr' = start /\ live' = {} /\ bytes_allocated' = 0
    BY <1>2 DEF B!Reset, B!ResetCounters
  <2>2. Lengths' = [b \in {} |-> Lengths'[b]]
    BY <2>1 DEF Lengths
  <2>3. SumFunction(Lengths') = 0
    BY <2>2, SumOfNone
  <2> QED
    BY <1>1, <2>1, <2>3, FS_EmptySet DEF BumpCounts
<1>3. ASSUME NEW n \in Sizes, NEW align \in Alignments, B!AllocAligned(n, align)
      PROVE  BumpCounts'
  <2>1. PICK at : at = B!Aligned(align)
    OBVIOUS
  <2>2. n \in Nat /\ align \in Nat \ {0}
    BY RequestsAssumption
  <2>3. at = ((ptr + align - 1) \div align) * align
    BY <2>1 DEF B!Aligned, B!align_up
  <2>4. at \in Nat /\ ptr <= at
    BY <1>1, <2>2, <2>3, AlignUp
  <2>5. PICK b : b = [ptr |-> at, len |-> n, align |-> align]
    OBVIOUS
  <2>6. /\ start' = start /\ ptr' = at + n /\ live' = live \cup {b}
        /\ bytes_allocated' = bytes_allocated + n
    BY <1>3, <2>1, <2>5 DEF B!AllocAligned
  <2>7. b.ptr = at /\ b.len = n
    BY <2>5
  <2>8. IsFiniteSet(live) /\ IsFiniteSet(live')
    BY <2>6, FS_AddElement DEF BumpCounts
  <2>9. \A c \in live : c.len \in Nat /\ c.ptr \in Nat /\ c.ptr + c.len <= ptr
    BY DEF BumpOK
  <2>10. SumFunction(Lengths') = SumFunction(Lengths) + n
    <3>1. CASE b \in live
      <4>1. n = 0
        BY <1>1, <2>2, <2>4, <2>7, <2>9, <3>1
      <4>2. live' = live
        BY <2>6, <3>1
      <4>3. Lengths' = Lengths
        BY <4>2 DEF Lengths
      <4> QED
        BY <4>1, <4>3 DEF BumpCounts
    <3>2. CASE b \notin live
      <4>1. Lengths' \in [live' -> Int] /\ Lengths \in [live' \ {b} -> Int] /\ Lengths'[b] = n
        BY <2>2, <2>6, <2>7, <2>9, <3>2 DEF Lengths
      <4>2. \A c \in live' \ {b} : Lengths[c] = Lengths'[c]
        BY <2>6, <3>2 DEF Lengths
      <4>3. b \in live'
        BY <2>6
      <4>4. PICK T, l, k : T = live' /\ l = Lengths /\ k = Lengths'
        OBVIOUS
      <4>5. IsFiniteSet(T) /\ b \in T /\ k \in [T -> Int] /\ Without(l, k, T, b)
        BY <2>8, <4>1, <4>2, <4>3, <4>4 DEF Without
      <4>6. SumFunction(l) \in Int /\ SumFunction(k) = k[b] + SumFunction(l)
        BY <4>5, SumOfMore
      <4> QED
        BY <2>2, <4>1, <4>4, <4>6
    <3> QED
      BY <3>1, <3>2
  <2> QED
    BY <1>1, <2>2, <2>4, <2>6, <2>8, <2>10 DEF BumpCounts
<1> QED
  BY <1>2, <1>3 DEF B!Next, B!Alloc

TotalSizes == [a \in DOMAIN header |-> C!total_size(header[a].size)]

GcStats == [objects_allocated : Int, objects_freed : Int, bytes_allocated : Int, bytes_freed : Int]

CollectorCounts ==
  /\ stats \in GcStats
  /\ call # C!Dropped =>
       /\ bytes_allocated = SumFunction(TotalSizes)
       /\ stats.bytes_allocated - stats.bytes_freed = bytes_allocated
       /\ stats.objects_allocated - stats.objects_freed = Cardinality(DOMAIN header)

\* A step that counts nothing and leaves the sizes of the objects alone.
LEMMA NothingCounted ==
  ASSUME CollectorCounts, call # C!Dropped, UNCHANGED <<bytes_allocated, stats>>,
         DOMAIN header' = DOMAIN header,
         \A a \in DOMAIN header : header'[a].size = header[a].size
  PROVE  CollectorCounts'
PROOF
<1>1. TotalSizes' = TotalSizes
  BY DEF TotalSizes, C!total_size, C!align_up
<1> QED
  BY <1>1 DEF CollectorCounts

LEMMA GarbageCounted ==
  ASSUME CollectorOK, CollectorCounts, C!SweepGarbage
  PROVE  CollectorCounts'
PROOF
<1>1. /\ C!Sweeping
      /\ header' = [a \in DOMAIN header \ {current} |->
                      IF a = prev THEN [header[a] EXCEPT !.next = header[current].next]
                      ELSE header[a]]
      /\ bytes_allocated' = bytes_allocated - C!total_size(header[current].size)
      /\ stats' = [stats EXCEPT !.bytes_freed = @ + C!total_size(header[current].size),
                                !.objects_freed = @ + 1]
  BY DEF C!SweepGarbage, C!Unlink, C!Uncount
<1>2. current \in DOMAIN header
  BY <1>1, SweepPosition
<1>3. PICK old : old = DOMAIN header
  OBVIOUS
<1>4. IsFiniteSet(old) /\ \A a \in old : header[a] \in GcHeader
  BY <1>3, ChainLength DEF CollectorOK, ListOK, HasChain, HeadersOK
<1>5. \A a \in old : C!total_size(header[a].size) \in Nat
  BY <1>4, TotalSize DEF GcHeader
<1>6. DOMAIN header' = old \ {current}
  BY <1>1, <1>3
<1>7. \A a \in old \ {current} : header'[a].size = header[a].size
  BY <1>1, <1>3, <1>4 DEF GcHeader
<1>8. PICK m \in Nat : m = C!total_size(header[current].size)
  BY <1>2, <1>3, <1>5
<1>9. TotalSizes \in [old -> Int] /\ TotalSizes' \in [old \ {current} -> Int]
      /\ TotalSizes[current] = m /\ \A a \in old \ {current} : TotalSizes'[a] = TotalSizes[a]
  <2>1. \A a \in old : TotalSizes[a] = C!total_size(header[a].size)
    BY <1>3 DEF TotalSizes
  <2>2. \A a \in old \ {current} : TotalSizes'[a] = C!total_size(header[a].size)
    BY <1>6, <1>7 DEF TotalSizes, C!total_size, C!align_up
  <2>3. TotalSizes \in [old -> Int]
    BY <1>3, <1>5, <2>1 DEF TotalSizes
  <2>4. TotalSizes' \in [old \ {current} -> Int]
    <3>1. TotalSizes' = [a \in old \ {current} |-> TotalSizes'[a]]
      BY <1>6 DEF TotalSizes
    <3> QED
      BY <1>5, <2>2, <3>1
  <2> QED
    BY <1>2, <1>3, <1>8, <2>1, <2>2, <2>3, <2>4
<1>10. /\ SumFunction(TotalSizes) \in Int /\ SumFunction(TotalSizes') \in Int
       /\ SumFunction(TotalSizes) = m + SumFunction(TotalSizes')
  <2>1. Without(TotalSizes', TotalSizes, old, current)
    BY <1>9 DEF Without
  <2> QED
    BY <1>2, <1>3, <1>4, <1>9, <2>1, SumOfMore
<1>11. /\ Cardinality(old) \in Nat /\ Cardinality(old \ {current}) = Cardinality(old) - 1
  BY <1>2, <1>3, <1>4, OneLess
<1>12. call # C!Dropped
  BY <1>1, CallKinds DEF C!Sweeping
<1>13. /\ stats' \in GcStats
       /\ stats'.bytes_allocated = stats.bytes_allocated
       /\ stats'.bytes_freed = stats.bytes_freed + m
       /\ stats'.objects_allocated = stats.objects_allocated
       /\ stats'.objects_freed = stats.objects_freed + 1
       /\ stats.bytes_allocated \in Int /\ stats.bytes_freed \in Int
       /\ stats.objects_allocated \in Int /\ stats.objects_freed \in Int
  <2>1. stats \in GcStats /\ m \in Int
    BY DEF CollectorCounts
  <2>2. stats' = [stats EXCEPT !.bytes_freed = @ + m, !.objects_freed = @ + 1]
    BY <1>1, <1>8
  <2>3. PICK mid : mid = [stats EXCEPT !.bytes_freed = @ + m]
    OBVIOUS
  <2>4. /\ mid \in GcStats /\ mid.bytes_freed = stats.bytes_freed + m
        /\ \A field \in {"objects_allocated", "objects_freed", "bytes_allocated", "bytes_freed"} :
             field # "bytes_freed" => mid[field] = stats[field]
    BY <2>1, <2>3 DEF GcStats
  <2>5. stats' = [mid EXCEPT !.objects_freed = mid.objects_freed + 1]
    BY <2>2, <2>3, <2>4
  <2> QED
    BY <2>1, <2>4, <2>5 DEF GcStats
<1>14. /\ bytes_allocated' = SumFunction(TotalSizes')
       /\ stats'.bytes_allocated - stats'.bytes_freed = bytes_allocated'
  BY <1>1, <1>8, <1>10, <1>12, <1>13 DEF CollectorCounts
<1>15. stats'.objects_allocated - stats'.objects_freed = Cardinality(DOMAIN header')
  BY <1>3, <1>6, <1>11, <1>12, <1>13 DEF CollectorCounts
<1> QED
  BY <1>13, <1>14, <1>15 DEF CollectorCounts

LEMMA GrantCounted ==
  ASSUME CollectorOK, CollectorCounts, C!Granted
  PROVE  CollectorCounts'
PROOF
<1>1. call.op = "request" /\ call' = C!Idle
  BY DEF C!Granted
<1>2. call.arg \in ObjectSizes
  BY <1>1, CallKinds DEF CollectorOK, CallOK, Outcomes
<1>3. PICK n \in ObjectSizes : n = call.arg
  BY <1>2
<1>4. PICK m : m = C!total_size(n)
  OBVIOUS
<1>5. m \in Nat /\ n \in Nat /\ m > 0
  BY <1>4, TotalSize, CollectorAssumption
<1>6. PICK a \in C!FreeBases(m) : C!Link(a, n)
  BY <1>3, <1>4 DEF C!Granted
<1>7. PICK old : old = DOMAIN header
  OBVIOUS
<1>8. header' = [o \in old \cup {a} |->
                   IF o = a THEN [size |-> n, marked |-> FALSE, next |-> all_objects]
                   ELSE header[o]]
  BY <1>6, <1>7 DEF C!Link
<1>9. IsFiniteSet(old) /\ \A o \in old : header[o] \in GcHeader /\ o \in Nat
  BY <1>7, ChainLength, DataAddress DEF CollectorOK, ListOK, HasChain, HeadersOK
<1>10. \A o \in old : C!total_size(header[o].size) \in Nat /\ C!total_size(header[o].size) > 0
  <2> SUFFICES ASSUME NEW o \in old
               PROVE  C!total_size(header[o].size) \in Nat /\ C!total_size(header[o].size) > 0
    OBVIOUS
  <2>1. PICK k \in ObjectSizes : k = header[o].size
    BY <1>9 DEF GcHeader
  <2>2. C!total_size(k) \in Nat /\ GC_HEADER_SIZE + k <= C!total_size(k) /\ k \in Nat
        /\ GC_HEADER_SIZE \in Nat \ {0}
    BY TotalSize, CollectorAssumption
  <2> QED
    BY <2>1, <2>2
<1>11. a \notin old
  <2>1. \A o \in old : a + m <= o \/ o + C!total_size(header[o].size) <= a
    BY <1>6, <1>7 DEF C!FreeBases
  <2> QED
    BY <1>5, <1>9, <1>10, <2>1
<1>12. /\ DOMAIN header' = old \cup {a} /\ header'[a].size = n
       /\ \A o \in old : header'[o] = header[o]
  BY <1>8, <1>11
<1>13. TotalSizes' \in [old \cup {a} -> Int] /\ TotalSizes \in [(old \cup {a}) \ {a} -> Int]
       /\ TotalSizes'[a] = m /\ \A o \in (old \cup {a}) \ {a} : TotalSizes[o] = TotalSizes'[o]
  <2>1. \A o \in old : TotalSizes[o] = C!total_size(header[o].size)
    BY <1>7 DEF TotalSizes
  <2>2. \A o \in old : TotalSizes'[o] = C!total_size(header[o].size)
    BY <1>12 DEF TotalSizes, C!total_size, C!align_up
  <2>3. TotalSizes'[a] = m
    BY <1>4, <1>12 DEF TotalSizes, C!total_size, C!align_up
  <2>4. TotalSizes \in [old -> Int]
    BY <1>7, <1>10, <2>1 DEF TotalSizes
  <2>5. TotalSizes' \in [old \cup {a} -> Int]
    <3>1. TotalSizes' = [o \in old \cup {a} |-> TotalSizes'[o]]
      BY <1>12 DEF TotalSizes
    <3> QED
      BY <1>5, <1>10, <2>2, <2>3, <3>1
  <2>6. (old \cup {a}) \ {a} = old
    BY <1>11
  <2> QED
    BY <2>1, <2>2, <2>3, <2>4, <2>5, <2>6
<1>14. IsFiniteSet(old \cup {a}) /\ Cardinality(old \cup {a}) = Cardinality(old) + 1
       /\ Cardinality(old) \in Nat
  BY <1>9, <1>11, FS_AddElement, FS_CardinalityType
<1>15. /\ SumFunction(TotalSizes) \in Int /\ SumFunction(TotalSizes') \in Int
       /\ SumFunction(TotalSizes') = m + SumFunction(TotalSizes)
  <2>1. a \in old \cup {a} /\ Without(TotalSizes, TotalSizes', old \cup {a}, a)
    BY <1>13 DEF Without
  <2> QED
    BY <1>13, <1>14, <2>1, SumOfMore
<1>16. call # C!Dropped
  BY <1>1, CallKinds
<1>17. /\ bytes_allocated' = bytes_allocated + m
       /\ stats' = [stats EXCEPT !.bytes_allocated = @ + m, !.objects_allocated = @ + 1]
  BY <1>3, <1>4 DEF C!Granted
<1>18. /\ stats' \in GcStats
       /\ stats'.bytes_allocated = stats.bytes_allocated + m
       /\ stats'.bytes_freed = stats.bytes_freed
       /\ stats'.objects_allocated = stats.objects_allocated + 1
       /\ stats'.objects_freed = stats.objects_freed
       /\ stats.bytes_allocated \in Int /\ stats.bytes_freed \in Int
       /\ stats.objects_allocated \in Int /\ stats.objects_freed \in Int
  <2>1. stats \in GcStats /\ m \in Int
    BY <1>5 DEF CollectorCounts
  <2>2. stats' = [stats EXCEPT !.bytes_allocated = @ + m, !.objects_allocated = @ + 1]
    BY <1>5, <1>17
  <2>3. PICK mid : mid = [stats EXCEPT !.bytes_allocated = @ + m]
    OBVIOUS
  <2>4. /\ mid \in GcStats /\ mid.bytes_allocated = stats.bytes_allocated + m
        /\ \A field \in {"objects_allocated", "objects_freed", "bytes_allocated", "bytes_freed"} :
             field # "bytes_allocated" => mid[field] = stats[field]
    BY <2>1, <2>3 DEF GcStats
  <2>5. stats' = [mid EXCEPT !.objects_allocated = mid.objects_allocated + 1]
    BY <2>2, <2>3, <2>4
  <2> QED
    BY <2>1, <2>4, <2>5 DEF GcStats
<1>19. /\ bytes_allocated' = SumFunction(TotalSizes')
       /\ stats'.bytes_allocated - stats'.bytes_freed = bytes_allocated'
  BY <1>5, <1>15, <1>16, <1>17, <1>18 DEF CollectorCounts
<1>20. stats'.objects_allocated - stats'.objects_freed = Cardinality(DOMAIN header')
  BY <1>7, <1>12, <1>14, <1>16, <1>18 DEF CollectorCounts
<1> QED
  BY <1>18, <1>19, <1>20 DEF CollectorCounts

LEMMA CollectorCounted ==
  ASSUME CollectorOK, CollectorCounts, C!Next
  PROVE  CollectorCounts'
PROOF
<1>1. \A a \in DOMAIN header : header[a] \in GcHeader
  BY DEF CollectorOK, HeadersOK
<1>2. ASSUME call # C!Dropped, UNCHANGED <<header, bytes_allocated, stats>>
      PROVE  CollectorCounts'
  BY <1>2, NothingCounted
<1>3. ASSUME NEW rs, C!SetRoots(rs) PROVE CollectorCounts'
  <2>1. call = C!Idle /\ UNCHANGED <<header, bytes_allocated, stats>>
    BY <1>3 DEF C!SetRoots, C!counters
  <2> QED
    BY <1>2, <2>1, CallKinds
<1>4. ASSUME NEW then, C!Collect(then), call # C!Dropped PROVE CollectorCounts'
  <2>1. /\ header' = [a \in DOMAIN header |->
                        IF a \in C!Marked THEN [header[a] EXCEPT !.marked = TRUE]
                        ELSE header[a]]
        /\ UNCHANGED <<bytes_allocated, stats>>
    BY <1>4 DEF C!Collect, C!counters
  <2>2. DOMAIN header' = DOMAIN header /\ \A a \in DOMAIN header : header'[a].size = header[a].size
    BY <1>1, <2>1 DEF GcHeader
  <2> QED
    BY <1>4, <2>1, <2>2, NothingCounted
<1>5. CASE C!SweepMarked
  <2>1. /\ C!Sweeping /\ header' = [header EXCEPT ![current].marked = FALSE]
        /\ UNCHANGED <<bytes_allocated, stats>>
    BY <1>5 DEF C!SweepMarked, C!Unmark, C!counters
  <2>2. call # C!Dropped
    BY <2>1, CallKinds DEF C!Sweeping
  <2>3. DOMAIN header' = DOMAIN header /\ \A a \in DOMAIN header : header'[a].size = header[a].size
    BY <1>1, <2>1 DEF GcHeader
  <2> QED
    BY <2>1, <2>2, <2>3, NothingCounted
<1>6. CASE C!SweepDone \/ C!RefusedAgain \/ C!GrantedTooLate
  <2>1. call.op \in {"sweep", "retry"} /\ UNCHANGED <<header, bytes_allocated, stats>>
    BY <1>6 DEF C!SweepDone, C!RefusedAgain, C!GrantedTooLate, C!counters
  <2> QED
    BY <1>2, <2>1, CallKinds
<1>7. CASE C!collect \/ C!Refused
  <2>1. call.op \in {"none", "request"} /\ \E then : C!Collect(then)
    BY <1>7, CallKinds DEF C!collect, C!Refused
  <2> QED
    BY <1>4, <2>1, CallKinds
<1>8. ASSUME NEW n \in ObjectSizes, C!Alloc(n) PROVE CollectorCounts'
  <2>1. call = C!Idle
    BY <1>8 DEF C!Alloc
  <2>2. (\E then : C!Collect(then)) \/ UNCHANGED <<header, bytes_allocated, stats>>
    BY <1>8 DEF C!Alloc, C!counters
  <2> QED
    BY <1>2, <1>4, <2>1, <2>2, CallKinds
<1>9. CASE C!Drop
  BY <1>9 DEF C!Drop, C!counters, CollectorCounts
<1> QED
  BY <1>3, <1>5, <1>6, <1>7, <1>8, <1>9, GarbageCounted, GrantCounted
     DEF C!Next, C!Step, C!add_root, C!remove_root, C!clear_roots

\* The collector's blocks are as many as its objects.
LEMMA BlocksCounted ==
  ASSUME CollectorOK
  PROVE  Cardinality(live) = Cardinality(DOMAIN header)
PROOF
<1>1. IsFiniteSet(DOMAIN header)
  BY ChainLength DEF CollectorOK, ListOK, HasChain
<1> DEFINE m == [a \in DOMAIN header |-> BlockAt(a)]
<1>2. live = {BlockAt(a) : a \in DOMAIN header}
  BY DEF CollectorOK, ObjectsOK
<1>3. \A a, o \in DOMAIN header : BlockAt(a) = BlockAt(o) => a = o
  BY BlocksDiffer
<1>4. m \in Bijection(DOMAIN header, live)
  BY <1>2, <1>3 DEF Bijection, Injection, Surjection, IsInjective
<1>5. ExistsBijection(DOMAIN header, live)
  BY <1>4 DEF ExistsBijection
<1> QED
  BY <1>1, <1>5, FS_Bijection

Counts ==
  /\ which = "bump" => BumpCounts
  /\ which = "collector" => CollectorCounts

LEMMA CountsInit ==
  ASSUME Init
  PROVE  Counts
PROOF
<1>1. ASSUME B!Init PROVE BumpCounts
  <2>1. start \in Nat /\ ptr = start /\ live = {} /\ bytes_allocated = 0
    BY <1>1, BasesAssumption DEF B!Init
  <2>2. SumFunction(Lengths) = 0
    BY <2>1, SumOfNone DEF Lengths
  <2> QED
    BY <2>1, <2>2, FS_EmptySet DEF BumpCounts
<1>2. ASSUME C!Init PROVE CollectorCounts
  <2>1. /\ header = <<>> /\ bytes_allocated = 0
        /\ stats = [objects_allocated |-> 0, objects_freed |-> 0,
                    bytes_allocated |-> 0, bytes_freed |-> 0]
    BY <1>2 DEF C!Init
  <2>2. DOMAIN header = {}
    BY <2>1
  <2>3. SumFunction(TotalSizes) = 0
    BY <2>2, SumOfNone DEF TotalSizes
  <2> QED
    BY <2>1, <2>2, <2>3, FS_EmptySet DEF CollectorCounts, GcStats
<1> QED
  BY <1>1, <1>2 DEF Init, Counts

LEMMA CountsStep ==
  ASSUME IInv, Counts, [Next]_vars
  PROVE  Counts'
PROOF
<1>1. CASE UseBump
  BY <1>1, BumpCounted DEF UseBump, IInv, Counts
<1>2. CASE UseCollector
  BY <1>2, CollectorCounted DEF UseCollector, IInv, Counts
<1>3. CASE UseFreeList \/ UseSlab
  BY <1>3 DEF UseFreeList, UseSlab, Counts
<1>4. CASE CollectorOver \/ UNCHANGED vars
  <2>1. UNCHANGED <<which, live, bytes_allocated, start, ptr, header, call, stats>>
    BY <1>4 DEF CollectorOver, vars
  <2>2. Lengths' = Lengths /\ TotalSizes' = TotalSizes
    BY <2>1 DEF Lengths, TotalSizes, C!total_size, C!align_up
  <2> QED
    BY <2>1, <2>2 DEF Counts, BumpCounts, CollectorCounts
<1> QED
  BY <1>1, <1>2, <1>3, <1>4 DEF Next

LEMMA CountsAgree ==
  ASSUME IInv, Counts
  PROVE  CountersAgree
PROOF
<1>1. CASE which = "bump"
  <2>1. BumpOK /\ BumpCounts
    BY <1>1 DEF IInv, Counts
  <2>2. /\ start \in Nat /\ size \in Nat /\ ptr \in Nat /\ start <= ptr /\ ptr <= start + size
    BY <2>1, BasesAssumption, CapacitiesAssumption, LayoutAssumption DEF BumpOK
  <2>3. B!used = ptr - start
    BY DEF B!used
  <2>4. bytes_allocated = B!SumFunction([b \in live |-> b.len])
    BY <2>1, SameSums DEF BumpCounts, Lengths
  <2>5. B!StatsAgree
    BY <2>1, <2>2, <2>3, <2>4 DEF B!StatsAgree, BumpOK, BumpCounts
  <2> QED
    BY <1>1, <2>5 DEF CountersAgree
<1>2. CASE which = "free_list"
  BY <1>2, FreeListCounts DEF IInv, CountersAgree
<1>3. CASE which = "collector"
  <2>1. CollectorOK /\ CollectorCounts
    BY <1>3 DEF IInv, Counts
  <2>2. C!Cardinality(live) = Cardinality(DOMAIN header)
    BY <2>1, BlocksCounted, CollectorCardinality
  <2>3. C!SumFunction([a \in DOMAIN header |-> C!total_size(header[a].size)]) = SumFunction(TotalSizes)
    BY SameSums DEF TotalSizes
  <2>4. C!StatsAgree
    BY <2>1, <2>2, <2>3 DEF C!StatsAgree, C!Over, CollectorCounts
  <2> QED
    BY <1>3, <2>4 DEF CountersAgree
<1>4. CASE which = "slab"
  BY <1>4 DEF CountersAgree
<1> QED
  BY <1>1, <1>2, <1>3, <1>4 DEF IInv

\* What stats() reports adds up: the bytes counted by alloc, free and sweep are
\* those of the blocks in use, for FreeListAllocator the arena without its free
\* list, and the counts are those of the blocks.
THEOREM CountersKept == Spec => []CountersAgree
PROOF
<1>1. Init => Counts
  BY CountsInit
<1>2. IInv /\ Counts /\ [Next]_vars => Counts'
  BY CountsStep
<1>3. IInv /\ Counts => CountersAgree
  BY CountsAgree
<1> QED
  BY <1>1, <1>2, <1>3, Invariance, PTL DEF Spec
===============================================================================
