------------------------------ MODULE GcVmProofs ------------------------------
(***************************************************************************)
(* Proofs about GcVm, for every value of the limits, every threshold and   *)
(* every set of programs.  IInv is the inductive invariant.  LiveValues    *)
(* joins the type of a value with NoDanglingRefs: a value is an integer or *)
(* a reference to an array that exists, so that what an instruction copies *)
(* from one place to another stays such a value as long as no step empties *)
(* a slot some place still refers to.  Only AllocArray empties slots, and  *)
(* it spares the roots: RootsAreReachable says these are all the places.   *)
(* FreeListExact makes the slot that AllocArray fills an empty one.        *)
(***************************************************************************)
EXTENDS GcVm, BytecodeProofs, FiniteSetTheorems, SequenceTheorems

ArraySlot == [live : BOOLEAN, data : Seq(Int)]

\* The values that do not dangle, those of a local, and the frames of such.
LiveValues  == {x \in Value : IsRef(x) => Live(x.v)}
LocalValues == LiveValues \cup {Undef}
FrameType   == [return_pc : Nat, locals : Seq(LocalValues)]

DataOK ==
  /\ stack \in Seq(LiveValues) /\ Len(stack) <= MAX_OPERAND_STACK
  /\ globals \in [1 .. MAX_GLOBAL_SLOTS -> LiveValues]
  /\ call_stack \in Seq(FrameType) /\ Len(call_stack) <= MAX_FRAMES

HeapOK ==
  /\ heap_arrays \in Seq(ArraySlot)
  /\ free_array_slots \in Seq(Nat)
  /\ next_array_id \in Nat /\ gc_collections \in Nat /\ gc_objects_freed \in Nat
  /\ FreeListExact

\* The rest of TypeOK.
ControlOK ==
  /\ IsProgram(prog)
  /\ pc \in Nat
  /\ pending \subseteq DOMAIN prog.globals
  /\ cycles \in Nat /\ (MAX_CYCLES > 0 => cycles <= MAX_CYCLES)
  /\ output \in Seq(Int)
  /\ status \in {"new", "running"} \cup Final
  /\ trap_code \in TrapCode
  /\ (trap_code # "None") <=> (status = "trapped")
  /\ return_value \in Int

\* A frame exists while instructions run, and they run only once the preflight
\* has accepted the program.
Loaded ==
  /\ status = "new" => call_stack = <<>>
  /\ status = "running" => call_stack # <<>> /\ PreflightTraps(prog) = {}

IInv == DataOK /\ HeapOK /\ ControlOK /\ Loaded

-------------------------------------------------------------------------------
(***************************************************************************)
(* The heap: what a sweep leaves, and what an allocation makes of it.      *)
(***************************************************************************)

\* The order in which the sweep pushes freed ids lists each of them once.
LEMMA AscendingLists ==
  ASSUME NEW S, IsFiniteSet(S)
  PROVE  LET n == Cardinality(S)
         IN  /\ n \in Nat
             /\ Ascending(S) \in [1 .. n -> S]
             /\ \A x \in S : \E i \in 1 .. n : Ascending(S)[i] = x
             /\ \A i, j \in 1 .. n : Ascending(S)[i] = Ascending(S)[j] => i = j
<1> DEFINE n == Cardinality(S)
<1> DEFINE P(s) == (\E t \in Orders(S) : Increasing(t)) => Increasing(s)
<1>1. n \in Nat /\ ExistsBijection(1 .. n, S)
  BY FS_CardinalityType
<1>2. PICK b : b \in Bijection(1 .. n, S)
  BY <1>1 DEF ExistsBijection
<1>3. b \in Orders(S)
  BY <1>2 DEF Bijection, Surjection, Orders
<1>4. \E s \in Orders(S) : P(s)
  BY <1>3
<1>5. Ascending(S) \in Orders(S)
  BY <1>4 DEF Ascending
<1>6. Ascending(S) \in Surjection(1 .. n, S)
  BY <1>5 DEF Orders, Surjection
<1>7. IsFiniteSet(1 .. n) /\ Cardinality(1 .. n) = n
  BY <1>1, FS_Interval
<1>8. Ascending(S) \in Injection(1 .. n, S)
  BY <1>6, <1>7, FS_SurjSameCardinalityImpliesInj
<1>9. \A i, j \in 1 .. n : Ascending(S)[i] = Ascending(S)[j] => i = j
  BY <1>8 DEF Injection, IsInjective
<1> QED
  BY <1>1, <1>6, <1>9 DEF Surjection

\* The ids a collection frees: slots of the heap that hold an array.
LEMMA GarbageFacts ==
  ASSUME HeapOK
  PROVE  /\ Len(heap_arrays) \in Nat
         /\ Garbage \subseteq 0 .. Len(heap_arrays) - 1
         /\ IsFiniteSet(Garbage)
         /\ \A id \in Garbage : Live(id) /\ id \notin Roots
<1>1. Len(heap_arrays) \in Nat
  BY DEF HeapOK
<1>2. Garbage \subseteq 0 .. Len(heap_arrays) - 1
  BY DEF Garbage
<1>3. IsFiniteSet(0 .. Len(heap_arrays) - 1)
  BY <1>1, FS_Interval
<1>4. IsFiniteSet(Garbage)
  BY <1>2, <1>3, FS_Subset
<1> QED
  BY <1>1, <1>2, <1>4 DEF Garbage

\* The slots that hold no array once the sweep, if any, is done.
EmptyAfterSweep == {id \in 0 .. Len(heap_arrays) - 1 : ~Live(id) \/ id \in Garbage}

\* After the sweep the free list holds exactly these, each once.
LEMMA SweptFreeExact ==
  ASSUME HeapOK
  PROVE  /\ SweptFree \in Seq(Nat)
         /\ \A i \in 1 .. Len(SweptFree) : SweptFree[i] \in EmptyAfterSweep
         /\ \A i, j \in 1 .. Len(SweptFree) : SweptFree[i] = SweptFree[j] => i = j
         /\ \A id \in EmptyAfterSweep : \E i \in 1 .. Len(SweptFree) : SweptFree[i] = id
<1> DEFINE old == free_array_slots
<1> DEFINE new == Ascending(Garbage)
<1> DEFINE n == Cardinality(Garbage)
<1>1. /\ n \in Nat
      /\ new \in [1 .. n -> Garbage]
      /\ \A x \in Garbage : \E i \in 1 .. n : new[i] = x
      /\ \A i, j \in 1 .. n : new[i] = new[j] => i = j
  BY GarbageFacts, AscendingLists
<1>2. Garbage \subseteq Nat /\ Len(heap_arrays) \in Nat
  BY GarbageFacts
<1>3. new \in Seq(Nat) /\ Len(new) = n
  <2>1. new \in [1 .. n -> Nat]
    BY <1>1, <1>2
  <2> QED
    BY <1>1, <2>1, SeqDef
<1>4. /\ old \in Seq(Nat) /\ Len(old) \in Nat
      /\ \A i \in 1 .. Len(old) : old[i] \in 0 .. Len(heap_arrays) - 1 /\ ~Live(old[i])
      /\ \A i, j \in 1 .. Len(old) : old[i] = old[j] => i = j
      /\ \A id \in 0 .. Len(heap_arrays) - 1 : ~Live(id) => \E i \in 1 .. Len(old) : old[i] = id
  BY DEF HeapOK, FreeListExact
<1>5. \A id \in Garbage : id \in 0 .. Len(heap_arrays) - 1 /\ Live(id)
  BY GarbageFacts
<1> HIDE DEF new, n
<1> HIDE DEF old
<1>6. /\ SweptFree \in Seq(Nat)
      /\ Len(SweptFree) = Len(old) + n
      /\ \A i \in 1 .. Len(old) + n :
           SweptFree[i] = IF i <= Len(old) THEN old[i] ELSE new[i - Len(old)]
  BY <1>3, <1>4, ConcatProperties DEF SweptFree, new, old
<1>7. ASSUME NEW i \in 1 .. Len(old)
      PROVE  i \in 1 .. Len(SweptFree) /\ SweptFree[i] = old[i]
  BY <1>1, <1>4, <1>6
<1>8. ASSUME NEW k \in 1 .. n
      PROVE  Len(old) + k \in 1 .. Len(SweptFree) /\ SweptFree[Len(old) + k] = new[k]
  <2>1. /\ Len(old) + k \in 1 .. Len(old) + n
        /\ ~(Len(old) + k <= Len(old))
        /\ (Len(old) + k) - Len(old) = k
    BY <1>1, <1>4
  <2> QED
    BY <1>6, <2>1
<1>9. ASSUME NEW i \in 1 .. Len(SweptFree)
      PROVE  i \in 1 .. Len(old) \/ \E k \in 1 .. n : i = Len(old) + k
  <2>1. i \in 1 .. Len(old) \/ i - Len(old) \in 1 .. n
    BY <1>1, <1>4, <1>6
  <2>2. i = Len(old) + (i - Len(old))
    BY <1>1, <1>4, <1>6
  <2> QED
    BY <2>1, <2>2
<1>10. ASSUME NEW i \in 1 .. Len(SweptFree)
       PROVE  SweptFree[i] \in EmptyAfterSweep
  <2>1. CASE i \in 1 .. Len(old)
    BY <1>4, <1>7, <2>1 DEF EmptyAfterSweep
  <2>2. CASE \E k \in 1 .. n : i = Len(old) + k
    <3>1. PICK k \in 1 .. n : i = Len(old) + k
      BY <2>2
    <3>2. SweptFree[i] = new[k]
      BY <1>8, <3>1
    <3>3. new[k] \in Garbage
      BY <1>1, <3>1
    <3> QED
      BY <1>5, <3>2, <3>3 DEF EmptyAfterSweep
  <2> QED
    BY <1>9, <2>1, <2>2
<1>11. ASSUME NEW i \in 1 .. Len(SweptFree), NEW j \in 1 .. Len(SweptFree),
              SweptFree[i] = SweptFree[j]
       PROVE  i = j
  <2>1. \A m \in 1 .. Len(old), k \in 1 .. n : SweptFree[m] # SweptFree[Len(old) + k]
    BY <1>1, <1>4, <1>5, <1>7, <1>8
  <2>2. CASE i \in 1 .. Len(old) /\ j \in 1 .. Len(old)
    BY <1>4, <1>7, <1>11, <2>2
  <2>3. ASSUME NEW k \in 1 .. n, NEW m \in 1 .. n, i = Len(old) + k, j = Len(old) + m
        PROVE  i = j
    <3>1. new[k] = new[m]
      BY <1>8, <1>11, <2>3
    <3>2. k = m
      BY <1>1, <3>1
    <3> QED
      BY <2>3, <3>2
  <2> QED
    BY <1>9, <1>11, <2>1, <2>2, <2>3
<1>12. ASSUME NEW id \in EmptyAfterSweep
       PROVE  \E i \in 1 .. Len(SweptFree) : SweptFree[i] = id
  <2>1. CASE ~Live(id)
    BY <1>4, <1>7, <2>1 DEF EmptyAfterSweep
  <2>2. CASE id \in Garbage
    BY <1>1, <1>8, <2>2
  <2> QED
    BY <2>1, <2>2 DEF EmptyAfterSweep
<1> QED
  BY <1>6, <1>10, <1>11, <1>12

\* The slots after the sweep.
LEMMA SweptHeapSlots ==
  ASSUME HeapOK
  PROVE  /\ SweptHeap \in Seq(ArraySlot)
         /\ Len(SweptHeap) = Len(heap_arrays)
         /\ \A id \in 0 .. Len(heap_arrays) - 1 :
              SweptHeap[id + 1] = IF id \in Garbage THEN NoArray ELSE heap_arrays[id + 1]
<1> DEFINE n == Len(heap_arrays)
<1>1. n \in Nat /\ \A i \in 1 .. n : heap_arrays[i] \in ArraySlot
  BY DEF HeapOK
<1>2. NoArray \in ArraySlot
  BY DEF NoArray, ArraySlot
<1>3. SweptHeap \in [1 .. n -> ArraySlot]
  BY <1>1, <1>2 DEF SweptHeap
<1>4. SweptHeap \in Seq(ArraySlot) /\ Len(SweptHeap) = n
  BY <1>1, <1>3, SeqDef
<1>5. ASSUME NEW id \in 0 .. n - 1
      PROVE  SweptHeap[id + 1] = IF id \in Garbage THEN NoArray ELSE heap_arrays[id + 1]
  <2>1. id + 1 \in 1 .. n /\ (id + 1) - 1 = id
    BY <1>1
  <2> QED
    BY <2>1 DEF SweptHeap
<1> QED
  BY <1>4, <1>5

\* The array alloc_array makes.
LEMMA NewArrayType ==
  ASSUME NEW size \in Nat
  PROVE  HeapArray(size) \in ArraySlot /\ HeapArray(size).live
<1>1. [i \in 1 .. size |-> 0] \in [1 .. size -> Int]
  OBVIOUS
<1>2. [i \in 1 .. size |-> 0] \in Seq(Int)
  BY <1>1, SeqDef
<1> QED
  BY <1>2 DEF HeapArray, ArraySlot

\* alloc_array fills an empty slot or the next one, and changes no other slot
\* but those of the garbage it has swept.
LEMMA AllocSlots ==
  ASSUME HeapOK, NEW size \in Nat, AllocArray(size)
  PROVE  /\ NewArrayId \in EmptyAfterSweep \cup {Len(heap_arrays)}
         /\ heap_arrays' \in Seq(ArraySlot)
         /\ Len(heap_arrays') = IF NewArrayId = Len(heap_arrays)
                                THEN Len(heap_arrays) + 1 ELSE Len(heap_arrays)
         /\ next_array_id' = Len(heap_arrays')
         /\ heap_arrays'[NewArrayId + 1] = HeapArray(size)
         /\ \A id \in (0 .. Len(heap_arrays) - 1) \ {NewArrayId} :
              heap_arrays'[id + 1] = IF id \in Garbage THEN NoArray ELSE heap_arrays[id + 1]
<1> DEFINE n == Len(heap_arrays)
<1> DEFINE new == NewArrayId
<1> DEFINE swept == SweptHeap
<1> DEFINE arr == HeapArray(size)
<1>1. /\ n \in Nat
      /\ next_array_id = n
  BY DEF HeapOK, FreeListExact
<1>2. /\ swept \in Seq(ArraySlot) /\ Len(swept) = n
      /\ \A id \in 0 .. n - 1 :
           swept[id + 1] = IF id \in Garbage THEN NoArray ELSE heap_arrays[id + 1]
  BY SweptHeapSlots
<1>3. arr \in ArraySlot
  BY NewArrayType
<1>4. /\ heap_arrays' = IF new < n THEN [swept EXCEPT ![new + 1] = arr] ELSE Append(swept, arr)
      /\ next_array_id' = IF SweptFree # <<>> THEN n ELSE n + 1
  BY <1>1 DEF AllocArray
<1>5. CASE SweptFree # <<>>
  <2>1. SweptFree \in Seq(Nat) /\ \A i \in 1 .. Len(SweptFree) : SweptFree[i] \in EmptyAfterSweep
    BY SweptFreeExact
  <2>2. Len(SweptFree) \in 1 .. Len(SweptFree)
    BY <1>5, <2>1
  <2>3. new \in EmptyAfterSweep
    BY <1>5, <2>1, <2>2 DEF NewArrayId
  <2>4. new \in 0 .. n - 1
    BY <2>3 DEF EmptyAfterSweep
  <2> HIDE DEF new, swept, arr
  <2>5. new < n /\ new + 1 \in 1 .. Len(swept) /\ new # n
    BY <1>1, <1>2, <2>4
  <2>6. /\ heap_arrays' \in Seq(ArraySlot) /\ Len(heap_arrays') = n
        /\ \A j \in 1 .. n : heap_arrays'[j] = IF j = new + 1 THEN arr ELSE swept[j]
    BY <1>2, <1>3, <1>4, <2>5, ExceptSeq
  <2>7. ASSUME NEW id \in (0 .. n - 1) \ {new}
        PROVE  heap_arrays'[id + 1] = IF id \in Garbage THEN NoArray ELSE heap_arrays[id + 1]
    <3>1. id + 1 \in 1 .. n /\ id + 1 # new + 1
      BY <1>1, <2>4
    <3> QED
      BY <1>2, <2>6, <3>1
  <2>8. heap_arrays'[new + 1] = arr
    BY <1>2, <2>5, <2>6
  <2> QED
    BY <1>4, <1>5, <2>3, <2>5, <2>6, <2>7, <2>8 DEF new, arr
<1>6. CASE SweptFree = <<>>
  <2>1. new = n
    BY <1>1, <1>6 DEF NewArrayId
  <2> HIDE DEF new, swept, arr
  <2>2. heap_arrays' = Append(swept, arr) /\ next_array_id' = n + 1
    BY <1>1, <1>4, <1>6, <2>1
  <2>3. /\ heap_arrays' \in Seq(ArraySlot) /\ Len(heap_arrays') = n + 1
        /\ \A i \in 1 .. n : heap_arrays'[i] = swept[i]
        /\ heap_arrays'[n + 1] = arr
    BY <1>2, <1>3, <2>2, AppendProperties
  <2>4. ASSUME NEW id \in 0 .. n - 1
        PROVE  heap_arrays'[id + 1] = IF id \in Garbage THEN NoArray ELSE heap_arrays[id + 1]
    <3>1. id + 1 \in 1 .. n
      BY <1>1
    <3> QED
      BY <1>2, <2>3, <3>1
  <2> QED
    BY <2>1, <2>2, <2>3, <2>4 DEF new, arr
<1> QED
  BY <1>5, <1>6

\* What is live after alloc_array: the new array, and what was and is no garbage.
LEMMA AllocLive ==
  ASSUME HeapOK, NEW size \in Nat, AllocArray(size), NEW id \in Int
  PROVE  Live(id)' <=> id = NewArrayId \/ (Live(id) /\ id \notin Garbage)
<1> DEFINE n == Len(heap_arrays)
<1>1. n \in Nat /\ \A i \in 0 .. n - 1 : heap_arrays[i + 1] \in ArraySlot
  BY DEF HeapOK
<1>2. /\ NewArrayId \in EmptyAfterSweep \cup {n}
      /\ Len(heap_arrays') = IF NewArrayId = n THEN n + 1 ELSE n
      /\ heap_arrays'[NewArrayId + 1] = HeapArray(size)
      /\ \A i \in (0 .. n - 1) \ {NewArrayId} :
           heap_arrays'[i + 1] = IF i \in Garbage THEN NoArray ELSE heap_arrays[i + 1]
  BY AllocSlots
<1>3. NewArrayId \in 0 .. Len(heap_arrays') - 1
  BY <1>1, <1>2 DEF EmptyAfterSweep
<1>4. CASE id = NewArrayId
  <2>1. id + 1 \in 1 .. Len(heap_arrays')
    BY <1>1, <1>2, <1>3, <1>4
  <2>2. heap_arrays'[id + 1].live
    BY <1>2, <1>4, NewArrayType
  <2> QED
    BY <1>4, <2>1, <2>2 DEF Live
<1>5. CASE id # NewArrayId /\ id \in 0 .. n - 1
  <2>1. id + 1 \in 1 .. Len(heap_arrays') /\ id + 1 \in 1 .. n
    BY <1>1, <1>2, <1>5
  <2>2. heap_arrays'[id + 1] = IF id \in Garbage THEN NoArray ELSE heap_arrays[id + 1]
    BY <1>2, <1>5
  <2> QED
    BY <1>5, <2>1, <2>2 DEF Live, NoArray
<1>6. CASE id # NewArrayId /\ id \notin 0 .. n - 1
  <2>1. id + 1 \notin 1 .. n /\ id + 1 \notin 1 .. Len(heap_arrays')
    BY <1>1, <1>2, <1>6 DEF EmptyAfterSweep
  <2> QED
    BY <1>6, <2>1 DEF Live
<1> QED
  BY <1>4, <1>5, <1>6

\* alloc_array keeps the free list exact: it holds the empty slots and no other.
LEMMA AllocKeepsHeap ==
  ASSUME HeapOK, NEW size \in Nat, AllocArray(size)
  PROVE  HeapOK'
<1> DEFINE n == Len(heap_arrays)
<1> DEFINE free == free_array_slots'
<1> DEFINE new == NewArrayId
<1> DEFINE after(id) == id + 1 \in 1 .. Len(heap_arrays') /\ heap_arrays'[id + 1].live
<1>1. n \in Nat /\ gc_collections \in Nat /\ gc_objects_freed \in Nat
  BY DEF HeapOK
<1>2. /\ heap_arrays' \in Seq(ArraySlot)
      /\ next_array_id' = Len(heap_arrays')
      /\ Len(heap_arrays') = IF new = n THEN n + 1 ELSE n
      /\ new \in EmptyAfterSweep \cup {n}
  BY AllocSlots
<1>3. gc_collections' \in Nat /\ gc_objects_freed' \in Nat /\ next_array_id' \in Nat
  <2>1. Cardinality(Garbage) \in Nat
    BY GarbageFacts, FS_CardinalityType
  <2> QED
    BY <1>1, <1>2, <2>1 DEF AllocArray
<1>4. /\ SweptFree \in Seq(Nat) /\ Len(SweptFree) \in Nat
      /\ \A i \in 1 .. Len(SweptFree) : SweptFree[i] \in EmptyAfterSweep
      /\ \A i, j \in 1 .. Len(SweptFree) : SweptFree[i] = SweptFree[j] => i = j
      /\ \A id \in EmptyAfterSweep : \E i \in 1 .. Len(SweptFree) : SweptFree[i] = id
  BY SweptFreeExact
<1>5. EmptyAfterSweep \subseteq 0 .. n - 1
  BY DEF EmptyAfterSweep
<1>6. \A id \in EmptyAfterSweep : after(id) <=> id = new
  BY <1>1, <1>5, AllocLive DEF EmptyAfterSweep, Live
<1>7. \A id \in 0 .. Len(heap_arrays') - 1 : ~after(id) => id \in EmptyAfterSweep \ {new}
  <2>1. ASSUME NEW id \in 0 .. Len(heap_arrays') - 1, ~after(id)
        PROVE  id \in EmptyAfterSweep \ {new}
    <3>1. id \in Int /\ id # new /\ ~(Live(id) /\ id \notin Garbage)
      BY <1>1, <1>2, <2>1, AllocLive DEF Live
    <3>2. id \in 0 .. n - 1
      BY <1>1, <1>2, <1>5, <3>1
    <3> QED
      BY <3>1, <3>2 DEF EmptyAfterSweep
  <2> QED
    BY <2>1
<1>8. CASE SweptFree # <<>>
  <2> DEFINE m == Len(SweptFree)
  <2>1. /\ m \in 1 .. m /\ m - 1 \in Nat
        /\ new = SweptFree[m]
        /\ free = SubSeq(SweptFree, 1, m - 1)
    BY <1>4, <1>8 DEF NewArrayId, AllocArray
  <2>2. /\ free \in Seq(Nat) /\ Len(free) = m - 1
        /\ \A i \in 1 .. m - 1 : free[i] = SweptFree[i]
    <3>1. \A i \in 1 .. m - 1 : SweptFree[i] \in Nat
      BY <1>4
    <3>2. /\ free \in Seq(Nat)
          /\ Len(free) = IF 1 <= m - 1 THEN (m - 1) - 1 + 1 ELSE 0
          /\ \A i \in 1 .. (m - 1) - 1 + 1 : free[i] = SweptFree[1 + i - 1]
      BY <2>1, <3>1, SubSeqProperties
    <3>3. (m - 1) - 1 + 1 = m - 1 /\ \A i \in 1 .. m - 1 : 1 + i - 1 = i
      BY <1>4
    <3> QED
      BY <2>1, <3>2, <3>3
  <2>3. new # n /\ Len(heap_arrays') = n
    BY <1>1, <1>2, <1>4, <1>5, <2>1
  <2> HIDE DEF free, new, m, after
  <2>4. ASSUME NEW i \in 1 .. Len(free)
        PROVE  /\ free[i] \in 0 .. Len(heap_arrays') - 1
               /\ ~after(free[i])
               /\ \A j \in 1 .. Len(free) : free[i] = free[j] => i = j
    <3>1. i \in 1 .. m - 1 /\ i \in 1 .. m /\ i # m /\ free[i] = SweptFree[i]
      BY <2>1, <2>2
    <3>2. free[i] \in EmptyAfterSweep /\ free[i] # new
      BY <1>4, <2>1, <3>1 DEF m
    <3>3. ASSUME NEW j \in 1 .. Len(free), free[i] = free[j]
          PROVE  i = j
      <4>1. j \in 1 .. m /\ free[j] = SweptFree[j]
        BY <2>1, <2>2
      <4> QED
        BY <1>4, <3>1, <3>3, <4>1 DEF m
    <3> QED
      BY <1>5, <1>6, <2>3, <3>2, <3>3
  <2>5. ASSUME NEW id \in 0 .. Len(heap_arrays') - 1, ~after(id)
        PROVE  \E i \in 1 .. Len(free) : free[i] = id
    <3>1. id \in EmptyAfterSweep /\ id # new
      BY <1>7, <2>5
    <3>2. PICK i \in 1 .. m : SweptFree[i] = id
      BY <1>4, <3>1 DEF m
    <3>3. i \in 1 .. m - 1
      BY <2>1, <3>1, <3>2
    <3> QED
      BY <2>2, <3>2, <3>3
  <2> QED
    BY <1>2, <1>3, <2>2, <2>4, <2>5 DEF HeapOK, FreeListExact, free, after, Live
<1>9. CASE SweptFree = <<>>
  <2>1. free = <<>> /\ Len(free) = 0
    BY <1>9 DEF AllocArray
  <2>2. \A id \in 0 .. Len(heap_arrays') - 1 : after(id)
    <3>1. EmptyAfterSweep = {}
      BY <1>4, <1>9
    <3> HIDE DEF after
    <3> QED
      BY <1>7, <3>1
  <2> QED
    BY <1>2, <1>3, <2>1, <2>2 DEF HeapOK, FreeListExact, Live
<1> QED
  BY <1>8, <1>9

\* The roots collect_garbage scans are all the arrays the program can name.
LEMMA RootsAreReachable ==
  ASSUME DataOK
  PROVE  Roots = Reachable
<1>1. /\ DOMAIN stack = 1 .. Len(stack)
      /\ DOMAIN globals = 1 .. MAX_GLOBAL_SLOTS
      /\ DOMAIN call_stack = 1 .. Len(call_stack)
  BY DEF DataOK
<1>2. \A k \in 1 .. Len(call_stack) :
        DOMAIN call_stack[k].locals = 1 .. Len(call_stack[k].locals)
  <2>1. \A k \in 1 .. Len(call_stack) : call_stack[k] \in FrameType
    BY DEF DataOK
  <2> QED
    BY <2>1 DEF FrameType
<1>3. ASSUME NEW id \in Roots PROVE id \in Reachable
  <2>1. CASE id \in StackRoots
    BY <1>1, <2>1 DEF StackRoots, Reachable, Held
  <2>2. CASE id \in GlobalRoots
    BY <1>1, <2>2 DEF GlobalRoots, Reachable, Held
  <2>3. ASSUME NEW k \in 1 .. Len(call_stack), id \in FrameRoots(k)
        PROVE  id \in Reachable
    <3>1. PICK i \in 1 .. Len(call_stack[k].locals) :
            IsRef(call_stack[k].locals[i]) /\ id = to_i64(call_stack[k].locals[i])
      BY <2>3 DEF FrameRoots
    <3>2. call_stack[k].locals[i] \in Held
      BY <1>1, <1>2, <2>3 DEF Held
    <3> QED
      BY <3>1, <3>2 DEF Reachable
  <2> QED
    BY <2>1, <2>2, <2>3 DEF Roots, Depth
<1>4. ASSUME NEW id \in Reachable PROVE id \in Roots
  <2>1. PICK x \in Held : IsRef(x) /\ id = to_i64(x)
    BY DEF Reachable
  <2>2. CASE \E i \in DOMAIN stack : x = stack[i]
    BY <1>1, <2>1, <2>2 DEF StackRoots, Roots
  <2>3. CASE \E i \in DOMAIN globals : x = globals[i]
    BY <1>1, <2>1, <2>3 DEF GlobalRoots, Roots
  <2>4. ASSUME NEW k \in DOMAIN call_stack, NEW i \in DOMAIN call_stack[k].locals,
               x = call_stack[k].locals[i]
        PROVE  id \in Roots
    <3>1. id \in FrameRoots(k)
      BY <1>1, <1>2, <2>1, <2>4 DEF FrameRoots
    <3> QED
      BY <1>1, <3>1 DEF Roots, Depth
  <2> QED
    BY <2>1, <2>2, <2>3, <2>4 DEF Held
<1> QED
  BY <1>3, <1>4

\* Every value the program holds is an integer or refers to an array.
LEMMA HeldValues == ASSUME DataOK PROVE Held \subseteq LocalValues
<1>1. \A i \in DOMAIN stack : stack[i] \in LocalValues
  BY DEF DataOK, LocalValues
<1>2. \A i \in DOMAIN globals : globals[i] \in LocalValues
  BY DEF DataOK, LocalValues
<1>3. ASSUME NEW k \in DOMAIN call_stack, NEW i \in DOMAIN call_stack[k].locals
      PROVE  call_stack[k].locals[i] \in LocalValues
  <2>1. call_stack[k] \in FrameType
    BY DEF DataOK
  <2>2. call_stack[k].locals \in Seq(LocalValues)
    BY <2>1 DEF FrameType
  <2> QED
    BY <2>2
<1> QED
  BY <1>1, <1>2, <1>3 DEF Held

\* What the program holds survives an allocation, and the new reference is good.
LEMMA AllocKeepsHeld ==
  ASSUME DataOK, HeapOK, NEW size \in Nat, AllocArray(size)
  PROVE  /\ \A x \in Held : x \in LocalValues' /\ (x \in LiveValues => x \in LiveValues')
         /\ ArrayRef(NewArrayId) \in LiveValues'
<1>1. ASSUME NEW x \in Held, x \in LiveValues
      PROVE  x \in LiveValues'
  <2>1. x \in Value /\ x.v \in Int /\ (IsRef(x) => Live(x.v))
    BY <1>1 DEF LiveValues, Value
  <2>2. ASSUME IsRef(x) PROVE Live(x.v)'
    <3>1. x.v \in Roots
      BY <1>1, <2>2, RootsAreReachable DEF Reachable, to_i64
    <3>2. x.v \notin Garbage
      BY <3>1, GarbageFacts
    <3> QED
      BY <2>1, <2>2, <3>2, AllocLive
  <2> QED
    BY <2>1, <2>2 DEF LiveValues
<1>2. \A x \in Held : x \in LocalValues'
  BY <1>1, HeldValues DEF LocalValues
<1>3. ArrayRef(NewArrayId) \in LiveValues'
  <2>1. PICK id \in Int : id = NewArrayId
    BY AllocSlots DEF EmptyAfterSweep, HeapOK
  <2>2. Live(id)'
    BY <2>1, AllocLive
  <2>3. ArrayRef(id) \in Value /\ ArrayRef(id).v = id
    BY <2>1 DEF Value, ArrayRef
  <2>4. ArrayRef(id) \in LiveValues'
    BY <2>2, <2>3 DEF LiveValues
  <2> QED
    BY <2>1, <2>4
<1> QED
  BY <1>1, <1>2, <1>3

\* So a step that allocates and leaves the data alone keeps them good.
LEMMA AllocKeepsData ==
  ASSUME DataOK, HeapOK, NEW size \in Nat, AllocArray(size)
  PROVE  /\ stack \in Seq(LiveValues')
         /\ globals \in [1 .. MAX_GLOBAL_SLOTS -> LiveValues']
         /\ call_stack \in Seq(FrameType')
<1>1. /\ \A x \in Held : x \in LocalValues' /\ (x \in LiveValues => x \in LiveValues')
  BY AllocKeepsHeld
<1>2. stack \in Seq(LiveValues')
  <2>1. Len(stack) \in Nat /\ stack \in [1 .. Len(stack) -> LiveValues]
    BY DEF DataOK
  <2>2. \A i \in 1 .. Len(stack) : stack[i] \in Held
    BY <2>1 DEF Held
  <2>3. stack \in [1 .. Len(stack) -> LiveValues']
    BY <1>1, <2>1, <2>2
  <2> QED
    BY <2>1, <2>3, SeqDef
<1>3. globals \in [1 .. MAX_GLOBAL_SLOTS -> LiveValues']
  <2>1. globals \in [1 .. MAX_GLOBAL_SLOTS -> LiveValues]
    BY DEF DataOK
  <2>2. \A i \in 1 .. MAX_GLOBAL_SLOTS : globals[i] \in Held
    BY <2>1 DEF Held
  <2> QED
    BY <1>1, <2>1, <2>2
<1>4. ASSUME NEW k \in 1 .. Len(call_stack)
      PROVE  call_stack[k] \in FrameType'
  <2> DEFINE ls == call_stack[k].locals
  <2>1. call_stack[k] \in FrameType /\ k \in DOMAIN call_stack
    BY DEF DataOK
  <2>2. call_stack[k].return_pc \in Nat /\ ls \in Seq(LocalValues)
    BY <2>1 DEF FrameType
  <2>3. Len(ls) \in Nat /\ DOMAIN ls = 1 .. Len(ls) /\ ls \in [1 .. Len(ls) -> LocalValues]
    BY <2>2
  <2>4. \A i \in 1 .. Len(ls) : ls[i] \in Held
    BY <2>1, <2>3 DEF Held
  <2>5. ls \in [1 .. Len(ls) -> LocalValues']
    BY <1>1, <2>3, <2>4
  <2>6. ls \in Seq(LocalValues')
    BY <2>3, <2>5, SeqDef
  <2> QED
    BY <2>1, <2>2, <2>6 DEF FrameType
<1>5. call_stack \in Seq(FrameType')
  <2>1. Len(call_stack) \in Nat /\ call_stack \in [1 .. Len(call_stack) -> FrameType]
    BY DEF DataOK
  <2>2. call_stack \in [1 .. Len(call_stack) -> FrameType']
    BY <1>4, <2>1
  <2> QED
    BY <2>1, <2>2, SeqDef
<1> QED
  BY <1>2, <1>3, <1>5

-------------------------------------------------------------------------------
(***************************************************************************)
(* The instructions.                                                       *)
(***************************************************************************)

\* Integers are values; a value carries an integer and is not undefined.
LEMMA ValueFacts ==
  /\ \A n \in Int : IntVal(n) \in LiveValues
  /\ \A x \in LiveValues : x.v \in Int /\ x # Undef /\ x \in LocalValues
  /\ \A x \in LocalValues : x # Undef => x \in LiveValues
  /\ Undef \in LocalValues
<1>1. \A n \in Int : IntVal(n) \in LiveValues
  BY DEF LiveValues, IntVal, Value, IsRef
<1>2. \A x \in LiveValues : x.v \in Int /\ x # Undef
  BY DEF LiveValues, Value, Undef
<1> QED
  BY <1>1, <1>2 DEF LocalValues

\* A step that empties no slot keeps the set of good values.
LEMMA ValuesKept ==
  ASSUME \A id \in Int : Live(id)' <=> Live(id)
  PROVE  LiveValues' = LiveValues /\ LocalValues' = LocalValues /\ FrameType' = FrameType
<1>1. LiveValues' = LiveValues
  BY DEF LiveValues, Value
<1>2. LocalValues' = LocalValues
  BY <1>1 DEF LocalValues
<1> QED
  BY <1>1, <1>2 DEF FrameType

\* A step that does not touch the heap keeps all that is said of it.
LEMMA HeapKept ==
  ASSUME UNCHANGED heap
  PROVE  /\ LiveValues' = LiveValues /\ LocalValues' = LocalValues /\ FrameType' = FrameType
         /\ HeapOK => HeapOK'
<1>1. \A id \in Int : Live(id)' <=> Live(id)
  BY DEF heap, Live
<1>2. HeapOK => HeapOK'
  BY DEF HeapOK, FreeListExact, heap, Live
<1> QED
  BY <1>1, <1>2, ValuesKept

\* A stack a step may leave behind, and a fault a handler may trap with.
GoodStack(stk) == stk \in Seq(LiveValues) /\ Len(stk) <= MAX_OPERAND_STACK

FaultOK(f) == f.code \in TrapCode /\ (f.code # "None" => GoodStack(f.stack))

\* The innermost frame, while instructions run.
LEMMA RunningFacts ==
  ASSUME IInv, status = "running"
  PROVE  /\ Depth \in 1 .. MAX_FRAMES /\ Depth = Len(call_stack)
         /\ Frame \in FrameType
         /\ Frame.return_pc \in Nat
         /\ Frame.locals \in Seq(LocalValues) /\ Len(Frame.locals) \in Nat
<1>1. call_stack \in Seq(FrameType) /\ call_stack # <<>> /\ Len(call_stack) <= MAX_FRAMES
  BY DEF IInv, DataOK, Loaded
<1>2. Depth \in 1 .. MAX_FRAMES /\ Depth = Len(call_stack)
  BY <1>1, LimitsAssumption DEF Depth
<1>3. Frame \in FrameType
  BY <1>1, <1>2 DEF Frame
<1> QED
  BY <1>2, <1>3 DEF FrameType

\* The instruction execute_instruction is given, and its operands.
LEMMA FetchFacts ==
  ASSUME IInv, NEW ops, Fetch(ops)
  PROVE  /\ status = "running" /\ Instr.opcode \in ops /\ Instr.opcode \in Opcode
         /\ arg1 \in I32 /\ arg2 \in I32 /\ arg1 \in Int /\ arg2 \in Int
         /\ pc \in Nat /\ prog' = prog
<1>1. status = "running" /\ pc < Len(Code) /\ Instr.opcode \in ops /\ prog' = prog
  BY DEF Fetch
<1>2. pc \in Nat /\ Code \in Seq(Instruction) /\ Len(Code) \in Nat
  BY DEF IInv, ControlOK, IsProgram, Code
<1>3. Instr \in Instruction
  BY <1>1, <1>2 DEF Instr
<1>4. arg1 \in I32 /\ arg2 \in I32 /\ Instr.opcode \in Opcode
  BY <1>3 DEF Instruction, arg1, arg2
<1>5. I32 \subseteq Int
  BY LimitsAssumption DEF I32
<1> QED
  BY <1>1, <1>2, <1>4, <1>5

\* A step of execute_instruction that ends well only has to keep the data.
LEMMA DataStep ==
  ASSUME IInv, NEW ops, Fetch(ops), UNCHANGED result, pc' \in Nat, output' \in Seq(Int),
         DataOK', HeapOK', call_stack' # <<>>
  PROVE  IInv'
<1>1. ControlOK'
  BY LimitsAssumption DEF IInv, ControlOK, Fetch, result
<1>2. Loaded'
  BY DEF IInv, Loaded, Fetch, result
<1> QED
  BY <1>1, <1>2 DEF IInv

\* The same for a step that does not touch the heap.
LEMMA PlainStep ==
  ASSUME IInv, NEW ops, Fetch(ops), UNCHANGED <<heap, result>>, pc' \in Nat,
         output' \in Seq(Int), GoodStack(stack'),
         globals' \in [1 .. MAX_GLOBAL_SLOTS -> LiveValues],
         call_stack' \in Seq(FrameType), Len(call_stack') \in 1 .. MAX_FRAMES
  PROVE  IInv'
<1>1. LiveValues' = LiveValues /\ FrameType' = FrameType /\ HeapOK'
  BY HeapKept DEF IInv
<1>2. DataOK'
  BY <1>1, LimitsAssumption DEF DataOK, GoodStack
<1>3. call_stack' # <<>>
  OBVIOUS
<1> QED
  BY <1>1, <1>2, <1>3, DataStep

\* The data as they are.
LEMMA DataFacts ==
  ASSUME IInv
  PROVE  /\ GoodStack(stack) /\ Len(stack) \in Nat
         /\ globals \in [1 .. MAX_GLOBAL_SLOTS -> LiveValues]
         /\ call_stack \in Seq(FrameType)
         /\ output \in Seq(Int)
         /\ status = "running" => Len(call_stack) \in 1 .. MAX_FRAMES
<1>1. status = "running" => Len(call_stack) \in 1 .. MAX_FRAMES
  BY RunningFacts
<1> QED
  BY <1>1 DEF IInv, DataOK, ControlOK, GoodStack

\* Every trap (make_trap_result) keeps the invariant.
LEMMA TrapStep ==
  ASSUME IInv, NEW ops, NEW f, FaultOK(f), f.code # "None", Fetch(ops), Trap(f)
  PROVE  IInv'
<1>1. LiveValues' = LiveValues /\ FrameType' = FrameType /\ HeapOK'
  BY HeapKept DEF IInv, Trap
<1>2. DataOK'
  BY <1>1 DEF IInv, DataOK, FaultOK, GoodStack, Trap, Abort
<1>3. ControlOK'
  BY LimitsAssumption DEF IInv, ControlOK, FaultOK, Trap, Abort, Fetch, Final
<1>4. Loaded'
  BY DEF Loaded, Trap, Abort
<1> QED
  BY <1>1, <1>2, <1>3, <1>4 DEF IInv

\* An instruction that replaces the operand stack by a good one keeps it.
LEMMA StackStep ==
  ASSUME IInv, NEW ops, NEW stk, GoodStack(stk), Fetch(ops), StackOnly(stk)
  PROVE  IInv'
<1>1. /\ stack' = stk /\ pc' \in Nat /\ UNCHANGED <<heap, result>>
      /\ UNCHANGED <<globals, call_stack, output>>
  BY FetchFacts DEF StackOnly, Advance, GoTo
<1> QED
  BY <1>1, DataFacts, FetchFacts, PlainStep

\* Popping n operands, and pushing.
LEMMA StackFacts ==
  ASSUME IInv
  PROVE  /\ GoodStack(<<>>)
         /\ \A n \in Nat : n <= Len(stack) => GoodStack(Drop(n)) /\ Len(Drop(n)) = Len(stack) - n
         /\ \A stk, x : GoodStack(stk) /\ x \in LiveValues /\ Len(stk) < MAX_OPERAND_STACK
                        => GoodStack(Append(stk, x))
         /\ 1 <= Len(stack) => Top(0) \in LiveValues /\ PopInt(0) \in Int
         /\ 2 <= Len(stack) => Top(1) \in LiveValues /\ PopInt(1) \in Int
<1>1. stack \in Seq(LiveValues) /\ Len(stack) \in Nat /\ Len(stack) <= MAX_OPERAND_STACK
  BY DEF IInv, DataOK
<1>2. GoodStack(<<>>)
  BY LimitsAssumption DEF GoodStack
<1>3. ASSUME NEW n \in Nat, n <= Len(stack)
      PROVE  GoodStack(Drop(n)) /\ Len(Drop(n)) = Len(stack) - n
  <2>1. Drop(n) \in Seq(LiveValues) /\ Len(Drop(n)) = Len(stack) - n
    BY <1>1, <1>3, SubSeqProperties DEF Drop
  <2> QED
    BY <1>1, <1>3, <2>1, LimitsAssumption DEF GoodStack
<1>4. ASSUME NEW stk, NEW x, GoodStack(stk), x \in LiveValues, Len(stk) < MAX_OPERAND_STACK
      PROVE  GoodStack(Append(stk, x))
  BY <1>4, AppendProperties, LimitsAssumption DEF GoodStack
<1>5. 1 <= Len(stack) => Top(0) \in LiveValues
  BY <1>1 DEF Top
<1>6. 2 <= Len(stack) => Top(1) \in LiveValues
  BY <1>1 DEF Top
<1> QED
  BY <1>2, <1>3, <1>4, <1>5, <1>6, ValueFacts DEF PopInt, to_i64

\* What pop and push check.
LEMMA StackChecks ==
  ASSUME IInv
  PROVE  /\ \A n \in Nat : /\ FaultOK(PopFault(stack, n))
                           /\ PopFault(stack, n).code = "None" <=> n <= Len(stack)
         /\ FaultOK(PushFault(stack))
         /\ PushFault(stack).code = "None" <=> Len(stack) < MAX_OPERAND_STACK
<1>1. GoodStack(stack) /\ GoodStack(<<>>) /\ Len(stack) \in Nat
  BY DataFacts, StackFacts
<1>2. ASSUME NEW n \in Nat
      PROVE  FaultOK(PopFault(stack, n)) /\ (PopFault(stack, n).code = "None" <=> n <= Len(stack))
  BY <1>1 DEF PopFault, Fault, NoFault, FaultOK, TrapCode
<1>3. FaultOK(PushFault(stack)) /\ (PushFault(stack).code = "None" <=> Len(stack) < MAX_OPERAND_STACK)
  BY <1>1, LimitsAssumption DEF PushFault, Fault, NoFault, FaultOK, TrapCode
<1> QED
  BY <1>2, <1>3

\* Checks in a row.
LEMMA Checks ==
  ASSUME NEW f, NEW g, FaultOK(f), f.code = "None" => FaultOK(g)
  PROVE  FaultOK(f ?? g) /\ ((f ?? g).code = "None" <=> f.code = "None" /\ g.code = "None")
BY DEF ??, FaultOK

\* current_local_slot: a slot that passes is one of the running frame's locals.
LEMMA SlotCheck ==
  ASSUME IInv, status = "running", NEW raw \in I32, NEW stk, GoodStack(stk)
  PROVE  /\ FaultOK(SlotFault(raw, stk))
         /\ SlotFault(raw, stk).code = "None" =>
              raw + 1 \in 1 .. Len(Frame.locals) /\ Frame.locals[raw + 1] \in LocalValues
<1>1. Frame.locals \in Seq(LocalValues) /\ Len(Frame.locals) \in Nat /\ raw \in Int
  BY RunningFacts, LimitsAssumption DEF I32
<1>2. FaultOK(SlotFault(raw, stk))
  BY <1>1 DEF SlotFault, Fault, NoFault, FaultOK, TrapCode
<1>3. SlotFault(raw, stk).code = "None" => raw + 1 \in 1 .. Len(Frame.locals)
  BY <1>1 DEF SlotFault, Fault, NoFault
<1> QED
  BY <1>1, <1>2, <1>3

\* global_slot: a slot that passes is one of the globals.
LEMMA GlobalCheck ==
  ASSUME NEW raw \in I32, NEW stk, GoodStack(stk)
  PROVE  /\ FaultOK(GlobalFault(raw, stk))
         /\ GlobalFault(raw, stk).code = "None" => raw + 1 \in 1 .. MAX_GLOBAL_SLOTS
BY LimitsAssumption DEF GlobalFault, Fault, NoFault, FaultOK, TrapCode, I32

\* global_array_range: a range that passes lies within the globals.
LEMMA RangeCheck ==
  ASSUME NEW base \in I32, NEW size \in I32, NEW stk, GoodStack(stk)
  PROVE  /\ FaultOK(GlobalRangeFault(base, size, stk))
         /\ GlobalRangeFault(base, size, stk).code = "None" =>
              base \in Nat /\ size \in Nat /\ base + size <= MAX_GLOBAL_SLOTS
BY LimitsAssumption DEF GlobalRangeFault, GlobalFault, SizeFault, Fault, NoFault, FaultOK,
                        TrapCode, I32, ??

\* array_size and array_index.
LEMMA SizeAndIndexChecks ==
  ASSUME NEW index \in Int, NEW size \in Int, NEW stk, GoodStack(stk)
  PROVE  /\ FaultOK(SizeFault(size, stk))
         /\ SizeFault(size, stk).code = "None" => size \in Nat
         /\ FaultOK(IndexFault(index, size, stk))
         /\ IndexFault(index, size, stk).code = "None" => index \in 0 .. (size - 1)
BY DEF SizeFault, IndexFault, Fault, NoFault, FaultOK, TrapCode

\* get_array and its bounds check: what passes is an element of an array.
LEMMA RefCheck ==
  ASSUME IInv, NEW x \in LiveValues, IsRef(x), NEW index \in Nat, NEW stk, GoodStack(stk)
  PROVE  /\ x.v + 1 \in 1 .. Len(heap_arrays) /\ heap_arrays[x.v + 1] \in ArraySlot
         /\ heap_arrays[x.v + 1].live
         /\ FaultOK(RefFault(x.v, index, stk))
         /\ RefFault(x.v, index, stk).code = "None" =>
              index + 1 \in 1 .. Len(Data(x.v)) /\ Data(x.v)[index + 1] \in Int
<1>1. heap_arrays \in Seq(ArraySlot) /\ Live(x.v)
  BY DEF IInv, HeapOK, LiveValues
<1>2. x.v + 1 \in 1 .. Len(heap_arrays) /\ heap_arrays[x.v + 1] \in ArraySlot
  BY <1>1 DEF Live
<1>3. Data(x.v) \in Seq(Int) /\ Len(Data(x.v)) \in Nat
  BY <1>2 DEF Data, ArraySlot
<1>4. /\ FaultOK(RefFault(x.v, index, stk))
      /\ RefFault(x.v, index, stk).code = "None" => index + 1 \in 1 .. Len(Data(x.v))
  BY <1>1, <1>3 DEF RefFault, Fault, NoFault, FaultOK, TrapCode, ??
<1> QED
  BY <1>1, <1>2, <1>3, <1>4 DEF Live

\* The handlers of execute_instruction keep the invariant, one lemma each:
\* LoadConst.
LEMMA LoadConstStep == ASSUME IInv, LoadConst PROVE IInv'
<1> DEFINE f == PushFault(stack)
<1> DEFINE stk == Append(stack, IntVal(arg1))
<1>1. Fetch({"LoadConst"}) /\ Checked(f, StackOnly(stk))
  BY DEF LoadConst
<1>2. FaultOK(f) /\ (f.code = "None" => GoodStack(stk))
  BY <1>1, StackChecks, StackFacts, DataFacts, FetchFacts, ValueFacts
<1> HIDE DEF f, stk
<1> QED
  BY <1>1, <1>2, TrapStep, StackStep DEF Checked

\* LoadLocal keeps it.
LEMMA LoadLocalStep == ASSUME IInv, LoadLocal PROVE IInv'
<1> DEFINE slot == SlotFault(arg1, stack)
<1> DEFINE undef == Fault(Local = Undef, "UndefinedLocal", stack)
<1> DEFINE f == slot ?? undef ?? PushFault(stack)
<1> DEFINE stk == Append(stack, Local)
<1>1. Fetch({"LoadLocal"}) /\ Checked(f, StackOnly(stk))
  BY DEF LoadLocal
<1>2. GoodStack(stack) /\ FaultOK(PushFault(stack))
  BY DataFacts, StackChecks
<1>3. FaultOK(slot) /\ (slot.code = "None" => Local \in LocalValues)
  BY <1>1, <1>2, FetchFacts, SlotCheck DEF Local
<1>4. FaultOK(undef) /\ (undef.code = "None" <=> Local # Undef)
  BY <1>2 DEF Fault, NoFault, FaultOK, TrapCode
<1> HIDE DEF slot, undef
<1>5. FaultOK(f) /\ (f.code = "None" => Local \in LiveValues /\ Len(stack) < MAX_OPERAND_STACK)
  BY <1>2, <1>3, <1>4, StackChecks, Checks, ValueFacts
<1>6. f.code = "None" => GoodStack(stk)
  BY <1>2, <1>5, StackFacts
<1> HIDE DEF f, stk
<1> QED
  BY <1>1, <1>5, <1>6, TrapStep, StackStep DEF Checked

\* LoadGlobal keeps it.
LEMMA LoadGlobalStep == ASSUME IInv, LoadGlobal PROVE IInv'
<1> DEFINE slot == GlobalFault(arg1, stack)
<1> DEFINE f == slot ?? PushFault(stack)
<1> DEFINE stk == Append(stack, globals[arg1 + 1])
<1>1. Fetch({"LoadGlobal"}) /\ Checked(f, StackOnly(stk))
  BY DEF LoadGlobal
<1>2. GoodStack(stack) /\ FaultOK(PushFault(stack))
  BY DataFacts, StackChecks
<1>3. FaultOK(slot) /\ (slot.code = "None" => globals[arg1 + 1] \in LiveValues)
  BY <1>1, <1>2, FetchFacts, GlobalCheck, DataFacts
<1> HIDE DEF slot
<1>4. FaultOK(f) /\ (f.code = "None" => slot.code = "None" /\ Len(stack) < MAX_OPERAND_STACK)
  BY <1>2, <1>3, StackChecks, Checks
<1>5. f.code = "None" => GoodStack(stk)
  BY <1>2, <1>3, <1>4, StackFacts
<1> HIDE DEF f, stk
<1> QED
  BY <1>1, <1>4, <1>5, TrapStep, StackStep DEF Checked

\* What a binary opcode pushes is an integer.
LEMMA BinaryInt ==
  ASSUME IInv, Fetch(BinaryOps), 2 <= Len(stack), Instr.opcode = "Div" => PopInt(0) # 0
  PROVE  BinaryValue \in Int
<1>1. PopInt(0) \in Int /\ PopInt(1) \in Int
  BY StackFacts, DataFacts
<1>2. BinaryResult(Instr.opcode, PopInt(1), PopInt(0)) \in I32
  BY <1>1, FetchFacts, BinaryResultRange
<1>3. I32 \subseteq Int
  BY LimitsAssumption DEF I32
<1>4. CASE Instr.opcode \in {"And", "Or"}
  BY <1>4 DEF BinaryValue, Bool
<1>5. CASE Instr.opcode \notin {"And", "Or"}
  BY <1>2, <1>3, <1>5 DEF BinaryValue
<1> QED
  BY <1>4, <1>5

\* Binary keeps it.
LEMMA BinaryStep == ASSUME IInv, Binary PROVE IInv'
<1> DEFINE zero == Fault(Instr.opcode = "Div" /\ PopInt(0) = 0, "DivideByZero", Drop(2))
<1> DEFINE f == PopFault(stack, 2) ?? zero
<1> DEFINE stk == Append(Drop(2), IntVal(BinaryValue))
<1>1. Fetch(BinaryOps) /\ Checked(f, StackOnly(stk))
  BY DEF Binary
<1>2. FaultOK(PopFault(stack, 2)) /\ (PopFault(stack, 2).code = "None" <=> 2 <= Len(stack))
  BY StackChecks
<1>3. ASSUME 2 <= Len(stack)
      PROVE  FaultOK(zero) /\ (zero.code = "None" => (Instr.opcode = "Div" => PopInt(0) # 0))
  BY <1>3, StackFacts DEF Fault, NoFault, FaultOK, TrapCode
<1> HIDE DEF zero
<1>4. FaultOK(f) /\ (f.code = "None" => 2 <= Len(stack) /\ (Instr.opcode = "Div" => PopInt(0) # 0))
  BY <1>2, <1>3, Checks
<1>5. ASSUME f.code = "None" PROVE GoodStack(stk)
  <2>1. BinaryValue \in Int
    BY <1>1, <1>4, <1>5, BinaryInt
  <2>2. GoodStack(Drop(2)) /\ Len(Drop(2)) < MAX_OPERAND_STACK
    BY <1>4, <1>5, StackFacts, DataFacts, LimitsAssumption DEF GoodStack
  <2> QED
    BY <2>1, <2>2, StackFacts, ValueFacts
<1> HIDE DEF f, stk
<1> QED
  BY <1>1, <1>4, <1>5, TrapStep, StackStep DEF Checked

\* Unary keeps it.
LEMMA UnaryStep == ASSUME IInv, Unary PROVE IInv'
<1> DEFINE f == PopFault(stack, 1)
<1> DEFINE stk == Append(Drop(1), IntVal(UnaryValue))
<1>1. Fetch(UnaryOps) /\ Checked(f, StackOnly(stk))
  BY DEF Unary
<1>2. FaultOK(f) /\ (f.code = "None" <=> 1 <= Len(stack))
  BY StackChecks
<1>3. ASSUME 1 <= Len(stack) PROVE GoodStack(stk)
  <2>1. PopInt(0) \in Int
    BY <1>3, StackFacts
  <2>2. UnaryResult("Neg", PopInt(0)) \in I32 /\ I32 \subseteq Int
    BY <2>1, UnaryResultRange, LimitsAssumption DEF UnaryOps, I32
  <2>3. UnaryValue \in Int
    <3>1. CASE Instr.opcode = "Neg"
      BY <2>2, <3>1 DEF UnaryValue
    <3>2. CASE Instr.opcode # "Neg"
      BY <3>2 DEF UnaryValue, Bool
    <3> QED
      BY <3>1, <3>2
  <2>4. GoodStack(Drop(1)) /\ Len(Drop(1)) < MAX_OPERAND_STACK
    BY <1>3, StackFacts, DataFacts, LimitsAssumption DEF GoodStack
  <2> QED
    BY <2>3, <2>4, StackFacts, ValueFacts
<1> HIDE DEF f, stk
<1> QED
  BY <1>1, <1>2, <1>3, TrapStep, StackStep DEF Checked

\* Pop keeps it.
LEMMA PopStep == ASSUME IInv, Pop PROVE IInv'
<1> DEFINE f == PopFault(stack, 1)
<1>1. Fetch({"Pop"}) /\ Checked(f, StackOnly(Drop(1)))
  BY DEF Pop
<1>2. FaultOK(f) /\ (f.code = "None" => GoodStack(Drop(1)))
  BY StackChecks, StackFacts
<1> HIDE DEF f
<1> QED
  BY <1>1, <1>2, TrapStep, StackStep DEF Checked

\* Dup keeps it.
LEMMA DupStep == ASSUME IInv, Dup PROVE IInv'
<1> DEFINE f == PopFault(stack, 1) ?? PushFault(stack)
<1> DEFINE stk == Append(stack, Top(0))
<1>1. Fetch({"Dup"}) /\ Checked(f, StackOnly(stk))
  BY DEF Dup
<1>2. FaultOK(f) /\ (f.code = "None" => 1 <= Len(stack) /\ Len(stack) < MAX_OPERAND_STACK)
  BY StackChecks, Checks
<1>3. f.code = "None" => GoodStack(stk)
  BY <1>2, StackFacts, DataFacts
<1> HIDE DEF f, stk
<1> QED
  BY <1>1, <1>2, <1>3, TrapStep, StackStep DEF Checked

\* PrintTop keeps it.
LEMMA PrintStep == ASSUME IInv, PrintTop PROVE IInv'
<1> DEFINE f == PopFault(stack, 1)
<1>1. Fetch({"Print"}) /\ FaultOK(f) /\ (f.code = "None" <=> 1 <= Len(stack))
  BY StackChecks DEF PrintTop
<1>2. CASE f.code # "None"
  BY <1>1, <1>2, TrapStep DEF PrintTop, Checked
<1>3. CASE f.code = "None"
  <2>1. /\ stack' = Drop(1) /\ output' = Append(output, PopInt(0))
        /\ pc' = pc + 1 /\ UNCHANGED <<globals, call_stack, heap, result>>
    BY <1>3 DEF PrintTop, Checked, Advance, GoTo
  <2>2. GoodStack(Drop(1)) /\ PopInt(0) \in Int
    BY <1>1, <1>3, StackFacts
  <2>3. output' \in Seq(Int)
    BY <2>1, <2>2, DataFacts, AppendProperties
  <2>4. pc' \in Nat /\ GoodStack(stack')
    BY <1>1, <2>1, <2>2, FetchFacts
  <2>5. /\ globals' \in [1 .. MAX_GLOBAL_SLOTS -> LiveValues]
        /\ call_stack' \in Seq(FrameType) /\ Len(call_stack') \in 1 .. MAX_FRAMES
    BY <1>1, <2>1, DataFacts, FetchFacts
  <2> QED
    BY <1>1, <2>1, <2>3, <2>4, <2>5, PlainStep
<1> QED
  BY <1>2, <1>3

\* Jump keeps it.
LEMMA JumpStep == ASSUME IInv, Jump PROVE IInv'
<1>1. /\ Fetch({"Jump"}) /\ pc' = AsUsize(arg1)
      /\ UNCHANGED <<stack, globals, call_stack, heap, output, result>>
  BY DEF Jump, GoTo
<1>2. pc' \in Nat
  BY <1>1, FetchFacts, AsUsizeNat
<1> QED
  BY <1>1, <1>2, DataFacts, FetchFacts, PlainStep

\* Branch keeps it.
LEMMA BranchStep == ASSUME IInv, Branch PROVE IInv'
<1> DEFINE f == PopFault(stack, 1)
<1>1. /\ Fetch({"JumpIfFalse", "JumpIfTrue"})
      /\ FaultOK(f) /\ (f.code = "None" <=> 1 <= Len(stack))
  BY StackChecks DEF Branch
<1>2. CASE f.code # "None"
  BY <1>1, <1>2, TrapStep DEF Branch, Checked
<1>3. CASE f.code = "None"
  <2>1. /\ stack' = Drop(1) /\ pc' \in {AsUsize(arg1), pc + 1}
        /\ UNCHANGED <<globals, call_stack, heap, output, result>>
    BY <1>3 DEF Branch, Checked, GoTo
  <2>2. GoodStack(Drop(1)) /\ pc' \in Nat
    BY <1>1, <1>3, <2>1, StackFacts, FetchFacts, AsUsizeNat
  <2> QED
    BY <1>1, <2>1, <2>2, DataFacts, FetchFacts, PlainStep
<1> QED
  BY <1>2, <1>3

\* Writing a local of the running frame keeps the frames.
LEMMA LocalWrite ==
  ASSUME IInv, status = "running", arg1 + 1 \in 1 .. Len(Frame.locals),
         NEW x \in LocalValues, SetLocal(x)
  PROVE  call_stack' \in Seq(FrameType) /\ Len(call_stack') = Len(call_stack)
<1> DEFINE ls == [Frame.locals EXCEPT ![arg1 + 1] = x]
<1> DEFINE frame == [Frame EXCEPT !.locals = ls]
<1>1. /\ call_stack \in Seq(FrameType) /\ Depth \in 1 .. Len(call_stack)
      /\ Frame \in FrameType /\ Frame.locals \in Seq(LocalValues)
  BY RunningFacts, DataFacts
<1>2. ls \in Seq(LocalValues)
  BY <1>1, ExceptSeq
<1>3. frame \in FrameType
  BY <1>1, <1>2 DEF FrameType
<1>4. call_stack' = [call_stack EXCEPT ![Depth] = frame]
  BY <1>1 DEF SetLocal, Frame
<1> HIDE DEF frame
<1> QED
  BY <1>1, <1>3, <1>4, ExceptSeq

\* StoreLocal keeps it.
LEMMA StoreLocalStep == ASSUME IInv, StoreLocal PROVE IInv'
<1> DEFINE slot == SlotFault(arg1, stack)
<1> DEFINE f == slot ?? PopFault(stack, 1)
<1>1. Fetch({"StoreLocal"}) /\ GoodStack(stack)
  BY DataFacts DEF StoreLocal
<1>2. FaultOK(slot) /\ (slot.code = "None" => arg1 + 1 \in 1 .. Len(Frame.locals))
  BY <1>1, FetchFacts, SlotCheck
<1>3. FaultOK(f) /\ (f.code = "None" => slot.code = "None" /\ 1 <= Len(stack))
  BY <1>2, StackChecks, Checks
<1>4. CASE f.code # "None"
  BY <1>1, <1>3, <1>4, TrapStep DEF StoreLocal, Checked
<1>5. CASE f.code = "None"
  <2>1. /\ stack' = Drop(1) /\ SetLocal(Top(0)) /\ pc' = pc + 1
        /\ UNCHANGED <<globals, heap, output, result>>
    BY <1>5 DEF StoreLocal, Checked, Advance, GoTo
  <2>2. GoodStack(Drop(1)) /\ Top(0) \in LocalValues
    BY <1>3, <1>5, StackFacts, ValueFacts
  <2>3. call_stack' \in Seq(FrameType) /\ Len(call_stack') = Len(call_stack)
    BY <1>1, <1>2, <1>3, <1>5, <2>1, <2>2, FetchFacts, LocalWrite
  <2> QED
    BY <1>1, <2>1, <2>2, <2>3, DataFacts, FetchFacts, PlainStep
<1> QED
  BY <1>4, <1>5

\* StoreGlobal keeps it.
LEMMA StoreGlobalStep == ASSUME IInv, StoreGlobal PROVE IInv'
<1> DEFINE slot == GlobalFault(arg1, stack)
<1> DEFINE f == slot ?? PopFault(stack, 1)
<1>1. Fetch({"StoreGlobal"}) /\ GoodStack(stack)
  BY DataFacts DEF StoreGlobal
<1>2. FaultOK(slot)
  BY <1>1, FetchFacts, GlobalCheck
<1>3. FaultOK(f) /\ (f.code = "None" => 1 <= Len(stack))
  BY <1>2, StackChecks, Checks
<1>4. CASE f.code # "None"
  BY <1>1, <1>3, <1>4, TrapStep DEF StoreGlobal, Checked
<1>5. CASE f.code = "None"
  <2>1. /\ stack' = Drop(1) /\ globals' = [globals EXCEPT ![arg1 + 1] = Top(0)]
        /\ pc' = pc + 1 /\ UNCHANGED <<call_stack, heap, output, result>>
    BY <1>5 DEF StoreGlobal, Checked, Advance, GoTo
  <2>2. GoodStack(Drop(1)) /\ Top(0) \in LiveValues
    BY <1>3, <1>5, StackFacts
  <2>3. globals' \in [1 .. MAX_GLOBAL_SLOTS -> LiveValues]
    BY <2>1, <2>2, DataFacts
  <2> QED
    BY <1>1, <2>1, <2>2, <2>3, DataFacts, FetchFacts, PlainStep
<1> QED
  BY <1>4, <1>5

\* ArrayLoad keeps it: an element of an array is an integer, and a slot of the
\* globals holds a good value.
LEMMA ArrayLoadStep == ASSUME IInv, ArrayLoad PROVE IInv'
<1> DEFINE g == globals[arg1 + 1]
<1> DEFINE range == GlobalRangeFault(arg1, arg2, stack)
<1> DEFINE idx == IndexFault(PopInt(0), arg2, Drop(1))
<1> DEFINE ref == IF IsRef(g) THEN RefFault(g.v, PopInt(0), Drop(1)) ELSE NoFault
<1> DEFINE f == range ?? PopFault(stack, 1) ?? idx ?? ref
<1> DEFINE x == IF IsRef(g) THEN IntVal(Data(g.v)[PopInt(0) + 1])
                ELSE globals[arg1 + PopInt(0) + 1]
<1> DEFINE stk == Append(Drop(1), x)
<1>1. Fetch({"ArrayLoad"}) /\ Checked(f, StackOnly(stk))
  BY DEF ArrayLoad
<1>2. FaultOK(PopFault(stack, 1)) /\ (PopFault(stack, 1).code = "None" <=> 1 <= Len(stack))
  BY StackChecks
<1>3. /\ FaultOK(range)
      /\ range.code = "None" => arg1 \in Nat /\ arg2 \in Nat /\ arg1 + arg2 <= MAX_GLOBAL_SLOTS
  BY <1>1, DataFacts, FetchFacts, RangeCheck
<1>4. ASSUME 1 <= Len(stack)
      PROVE  FaultOK(idx) /\ (idx.code = "None" => PopInt(0) \in 0 .. (arg2 - 1))
  BY <1>1, <1>4, StackFacts, FetchFacts, SizeAndIndexChecks
<1>5. ASSUME range.code = "None", 1 <= Len(stack), idx.code = "None"
      PROVE  FaultOK(ref) /\ (ref.code = "None" => x \in LiveValues)
  <2>1. PopInt(0) \in 0 .. (arg2 - 1) /\ PopInt(0) \in Nat
    BY <1>3, <1>4, <1>5
  <2>2. arg1 + 1 \in 1 .. MAX_GLOBAL_SLOTS /\ arg1 + PopInt(0) + 1 \in 1 .. MAX_GLOBAL_SLOTS
    BY <1>3, <1>5, <2>1, LimitsAssumption
  <2>3. g \in LiveValues /\ globals[arg1 + PopInt(0) + 1] \in LiveValues
    BY <2>2, DataFacts
  <2>4. GoodStack(Drop(1))
    BY <1>5, StackFacts
  <2> HIDE DEF g
  <2>5. CASE IsRef(g)
    BY <2>1, <2>3, <2>4, <2>5, RefCheck, ValueFacts
  <2>6. CASE ~IsRef(g)
    BY <2>3, <2>6 DEF NoFault, FaultOK, TrapCode
  <2> QED
    BY <2>5, <2>6
<1> HIDE DEF range, idx, ref, x
<1>6. /\ FaultOK(f)
      /\ f.code = "None" => 1 <= Len(stack) /\ x \in LiveValues
  BY <1>2, <1>3, <1>4, <1>5 DEF FaultOK, ??
<1>7. ASSUME f.code = "None" PROVE GoodStack(stk)
  <2>1. GoodStack(Drop(1)) /\ Len(Drop(1)) < MAX_OPERAND_STACK
    BY <1>6, <1>7, StackFacts, DataFacts, LimitsAssumption DEF GoodStack
  <2> QED
    BY <1>6, <1>7, <2>1, StackFacts
<1> HIDE DEF f, stk
<1> QED
  BY <1>1, <1>6, <1>7, TrapStep, StackStep DEF Checked

\* LocalArrayLoad keeps it.
LEMMA LocalArrayLoadStep == ASSUME IInv, LocalArrayLoad PROVE IInv'
<1> DEFINE slot == SlotFault(arg1, stack)
<1> DEFINE size == SizeFault(arg2, stack)
<1> DEFINE idx == IndexFault(PopInt(0), arg2, Drop(1))
<1> DEFINE undef == Fault(Local = Undef, "UndefinedLocal", Drop(1))
<1> DEFINE ref == IF IsRef(Local) THEN RefFault(Local.v, PopInt(0), Drop(1)) ELSE NoFault
<1> DEFINE f == slot ?? size ?? PopFault(stack, 1) ?? idx ?? undef ?? ref
<1> DEFINE x == IF IsRef(Local) THEN IntVal(Data(Local.v)[PopInt(0) + 1]) ELSE Local
<1> DEFINE stk == Append(Drop(1), x)
<1>1. Fetch({"LocalArrayLoad"}) /\ Checked(f, StackOnly(stk))
  BY DEF LocalArrayLoad
<1>2. FaultOK(PopFault(stack, 1)) /\ (PopFault(stack, 1).code = "None" <=> 1 <= Len(stack))
  BY StackChecks
<1>3. FaultOK(slot) /\ (slot.code = "None" => Local \in LocalValues)
  BY <1>1, DataFacts, FetchFacts, SlotCheck DEF Local
<1>4. FaultOK(size)
  BY <1>1, DataFacts, FetchFacts, SizeAndIndexChecks
<1>5. ASSUME 1 <= Len(stack)
      PROVE  /\ FaultOK(idx) /\ (idx.code = "None" => PopInt(0) \in 0 .. (arg2 - 1))
             /\ FaultOK(undef) /\ (undef.code = "None" => Local # Undef)
  <2>1. GoodStack(Drop(1))
    BY <1>5, StackFacts
  <2>2. FaultOK(undef) /\ (undef.code = "None" => Local # Undef)
    BY <2>1 DEF Fault, NoFault, FaultOK, TrapCode
  <2> QED
    BY <1>1, <1>5, <2>1, <2>2, StackFacts, FetchFacts, SizeAndIndexChecks
<1>6. ASSUME slot.code = "None", 1 <= Len(stack), idx.code = "None", undef.code = "None"
      PROVE  FaultOK(ref) /\ (ref.code = "None" => x \in LiveValues)
  <2>1. PopInt(0) \in Nat /\ Local \in LiveValues /\ GoodStack(Drop(1))
    BY <1>3, <1>5, <1>6, StackFacts, ValueFacts
  <2>2. CASE IsRef(Local)
    BY <2>1, <2>2, RefCheck, ValueFacts
  <2>3. CASE ~IsRef(Local)
    BY <2>1, <2>3 DEF NoFault, FaultOK, TrapCode
  <2> QED
    BY <2>2, <2>3
<1> HIDE DEF slot, size, idx, undef, ref, x
<1>7. /\ FaultOK(f)
      /\ f.code = "None" => 1 <= Len(stack) /\ x \in LiveValues
  BY <1>2, <1>3, <1>4, <1>5, <1>6 DEF FaultOK, ??
<1>8. ASSUME f.code = "None" PROVE GoodStack(stk)
  <2>1. GoodStack(Drop(1)) /\ Len(Drop(1)) < MAX_OPERAND_STACK
    BY <1>7, <1>8, StackFacts, DataFacts, LimitsAssumption DEF GoodStack
  <2> QED
    BY <1>7, <1>8, <2>1, StackFacts
<1> HIDE DEF f, stk
<1> QED
  BY <1>1, <1>7, <1>8, TrapStep, StackStep DEF Checked

\* Writing an element keeps the heap, and empties no slot.
LEMMA ElementWrite ==
  ASSUME IInv, NEW x \in LiveValues, IsRef(x), NEW index \in Nat, NEW n \in Int,
         index + 1 \in 1 .. Len(Data(x.v)), SetElement(x.v, index, n)
  PROVE  /\ HeapOK'
         /\ LiveValues' = LiveValues /\ LocalValues' = LocalValues /\ FrameType' = FrameType
         /\ \A id \in Int : Live(id)' <=> Live(id)
         /\ Len(heap_arrays') = Len(heap_arrays)
<1> DEFINE at == x.v + 1
<1> DEFINE data == [Data(x.v) EXCEPT ![index + 1] = n]
<1> DEFINE arr == [heap_arrays[at] EXCEPT !.data = data]
<1>1. /\ heap_arrays \in Seq(ArraySlot) /\ at \in 1 .. Len(heap_arrays)
      /\ heap_arrays[at] \in ArraySlot /\ heap_arrays[at].live
  BY RefCheck, DataFacts DEF IInv, HeapOK
<1>2. data \in Seq(Int)
  <2>1. Data(x.v) \in Seq(Int)
    BY <1>1 DEF Data, ArraySlot
  <2> QED
    BY <2>1, ExceptSeq
<1>3. arr \in ArraySlot /\ arr.live
  BY <1>1, <1>2 DEF ArraySlot
<1>4. /\ heap_arrays' = [heap_arrays EXCEPT ![at] = arr]
      /\ UNCHANGED <<free_array_slots, next_array_id, gc_collections, gc_objects_freed>>
  BY <1>1 DEF SetElement, Data
<1> HIDE DEF arr, at
<1>5. /\ heap_arrays' \in Seq(ArraySlot) /\ Len(heap_arrays') = Len(heap_arrays)
      /\ \A j \in 1 .. Len(heap_arrays) : heap_arrays'[j] = IF j = at THEN arr ELSE heap_arrays[j]
  BY <1>1, <1>3, <1>4, ExceptSeq
<1>6. \A j \in 1 .. Len(heap_arrays) : heap_arrays'[j].live = heap_arrays[j].live
  <2>1. arr.live = TRUE /\ heap_arrays[at].live = TRUE
    BY <1>1, <1>3 DEF ArraySlot
  <2> QED
    BY <1>5, <2>1
<1>7. \A id \in Int : Live(id)' <=> Live(id)
  BY <1>5, <1>6 DEF Live
<1>8. FreeListExact'
  <2>1. \A i \in 1 .. Len(free_array_slots) : free_array_slots[i] \in Int
    BY DEF IInv, HeapOK
  <2>2. FreeListExact
    BY DEF IInv, HeapOK
  <2>3. \A id \in 0 .. Len(heap_arrays) - 1 : id \in Int
    OBVIOUS
  <2>4. \A i \in 1 .. Len(free_array_slots) : Live(free_array_slots[i])' <=> Live(free_array_slots[i])
    BY <1>4, <1>7, <2>1
  <2> QED
    BY <1>4, <1>5, <1>7, <2>2, <2>3, <2>4 DEF FreeListExact
<1>9. HeapOK'
  BY <1>4, <1>5, <1>8 DEF IInv, HeapOK
<1> QED
  BY <1>5, <1>7, <1>9, ValuesKept

\* A step that writes an element and pops keeps the invariant.
LEMMA ElementStep ==
  ASSUME IInv, NEW ops, Fetch(ops), NEW x \in LiveValues, IsRef(x), NEW index \in Nat,
         NEW n \in Int, index + 1 \in 1 .. Len(Data(x.v)), SetElement(x.v, index, n),
         GoodStack(stack'), Advance, UNCHANGED <<globals, call_stack, output>>
  PROVE  IInv'
<1>1. HeapOK' /\ LiveValues' = LiveValues /\ FrameType' = FrameType
  BY ElementWrite
<1>2. DataOK'
  BY <1>1 DEF IInv, DataOK, GoodStack
<1>3. UNCHANGED result /\ pc' \in Nat /\ output' \in Seq(Int) /\ call_stack' # <<>>
  BY FetchFacts, DataFacts DEF Advance, GoTo, IInv, Loaded
<1> QED
  BY <1>1, <1>2, <1>3, DataStep

\* ArrayStore keeps it.
LEMMA ArrayStoreStep == ASSUME IInv, ArrayStore PROVE IInv'
<1> DEFINE g == globals[arg1 + 1]
<1> DEFINE range == GlobalRangeFault(arg1, arg2, stack)
<1> DEFINE idx == IndexFault(PopInt(1), arg2, Drop(2))
<1> DEFINE ref == IF IsRef(g) THEN RefFault(g.v, PopInt(1), Drop(2)) ELSE NoFault
<1> DEFINE f == range ?? PopFault(stack, 2) ?? idx ?? ref
<1>1. Fetch({"ArrayStore"})
  BY DEF ArrayStore
<1>2. FaultOK(PopFault(stack, 2)) /\ (PopFault(stack, 2).code = "None" <=> 2 <= Len(stack))
  BY StackChecks
<1>3. /\ FaultOK(range)
      /\ range.code = "None" => arg1 \in Nat /\ arg2 \in Nat /\ arg1 + arg2 <= MAX_GLOBAL_SLOTS
  BY <1>1, DataFacts, FetchFacts, RangeCheck
<1>4. ASSUME 2 <= Len(stack)
      PROVE  FaultOK(idx) /\ (idx.code = "None" => PopInt(1) \in 0 .. (arg2 - 1))
  BY <1>1, <1>4, StackFacts, FetchFacts, SizeAndIndexChecks
<1>5. ASSUME range.code = "None", 2 <= Len(stack), idx.code = "None"
      PROVE  /\ g \in LiveValues /\ PopInt(1) \in Nat
             /\ FaultOK(ref)
             /\ ref.code = "None" /\ IsRef(g) => PopInt(1) + 1 \in 1 .. Len(Data(g.v))
  <2>1. PopInt(1) \in 0 .. (arg2 - 1) /\ PopInt(1) \in Nat
    BY <1>3, <1>4, <1>5
  <2>2. arg1 + 1 \in 1 .. MAX_GLOBAL_SLOTS
    BY <1>3, <1>5, <2>1, LimitsAssumption
  <2>3. g \in LiveValues /\ GoodStack(Drop(2))
    BY <1>5, <2>2, DataFacts, StackFacts
  <2> HIDE DEF g
  <2>4. CASE IsRef(g)
    BY <2>1, <2>3, <2>4, RefCheck
  <2>5. CASE ~IsRef(g)
    BY <2>1, <2>3, <2>5 DEF NoFault, FaultOK, TrapCode
  <2> QED
    BY <2>4, <2>5
<1>6. /\ FaultOK(f)
      /\ f.code = "None" =>
           /\ 2 <= Len(stack) /\ g \in LiveValues /\ PopInt(1) \in Nat
           /\ IsRef(g) => PopInt(1) + 1 \in 1 .. Len(Data(g.v))
  <2> HIDE DEF range, idx, ref, g
  <2> QED
    BY <1>2, <1>3, <1>4, <1>5 DEF FaultOK, ??
<1>7. CASE f.code # "None"
  BY <1>1, <1>6, <1>7, TrapStep DEF ArrayStore, Checked
<1>8. CASE f.code = "None"
  <2>1. /\ stack' = Drop(2) /\ Advance /\ UNCHANGED <<call_stack, output>>
        /\ \/ IsRef(g) /\ SetElement(g.v, PopInt(1), PopInt(0)) /\ UNCHANGED globals
           \/ /\ globals' = [globals EXCEPT ![arg1 + PopInt(1) + 1] = IntVal(PopInt(0))]
              /\ UNCHANGED heap
    BY <1>8 DEF ArrayStore, Checked
  <2>2. PopInt(0) \in Int /\ GoodStack(stack')
    BY <1>6, <1>8, <2>1, StackFacts, DataFacts
  <2>3. CASE IsRef(g) /\ SetElement(g.v, PopInt(1), PopInt(0)) /\ UNCHANGED globals
    <3> HIDE DEF g
    <3> QED
      BY <1>1, <1>6, <1>8, <2>1, <2>2, <2>3, ElementStep
  <2>4. CASE /\ globals' = [globals EXCEPT ![arg1 + PopInt(1) + 1] = IntVal(PopInt(0))]
             /\ UNCHANGED heap
    <3>1. globals' \in [1 .. MAX_GLOBAL_SLOTS -> LiveValues]
      BY <2>2, <2>4, DataFacts, ValueFacts
    <3> QED
      BY <1>1, <2>1, <2>2, <2>4, <3>1, DataFacts, FetchFacts, PlainStep DEF Advance, GoTo
  <2> QED
    BY <2>1, <2>3, <2>4
<1> QED
  BY <1>7, <1>8

\* LocalArrayStore keeps it.
LEMMA LocalArrayStoreStep == ASSUME IInv, LocalArrayStore PROVE IInv'
<1> DEFINE slot == SlotFault(arg1, stack)
<1> DEFINE size == SizeFault(arg2, stack)
<1> DEFINE idx == IndexFault(PopInt(1), arg2, Drop(2))
<1> DEFINE kind == Fault(~IsRef(Local), "InvalidInstruction", Drop(2))
<1> DEFINE ref == RefFault(Local.v, PopInt(1), Drop(2))
<1> DEFINE f == slot ?? size ?? PopFault(stack, 2) ?? idx ?? kind ?? ref
<1>1. Fetch({"LocalArrayStore"})
  BY DEF LocalArrayStore
<1>2. FaultOK(PopFault(stack, 2)) /\ (PopFault(stack, 2).code = "None" <=> 2 <= Len(stack))
  BY StackChecks
<1>3. FaultOK(slot) /\ (slot.code = "None" => Local \in LocalValues)
  BY <1>1, DataFacts, FetchFacts, SlotCheck DEF Local
<1>4. FaultOK(size)
  BY <1>1, DataFacts, FetchFacts, SizeAndIndexChecks
<1>5. ASSUME 2 <= Len(stack)
      PROVE  /\ FaultOK(idx) /\ (idx.code = "None" => PopInt(1) \in Nat)
             /\ FaultOK(kind) /\ (kind.code = "None" => IsRef(Local))
  <2>1. GoodStack(Drop(2))
    BY <1>5, StackFacts
  <2>2. FaultOK(kind) /\ (kind.code = "None" => IsRef(Local))
    BY <2>1 DEF Fault, NoFault, FaultOK, TrapCode
  <2> QED
    BY <1>1, <1>5, <2>1, <2>2, StackFacts, FetchFacts, SizeAndIndexChecks
<1>6. ASSUME slot.code = "None", 2 <= Len(stack), idx.code = "None", kind.code = "None"
      PROVE  /\ Local \in LiveValues
             /\ FaultOK(ref)
             /\ ref.code = "None" => PopInt(1) + 1 \in 1 .. Len(Data(Local.v))
  <2>1. PopInt(1) \in Nat /\ Local \in LocalValues /\ IsRef(Local) /\ GoodStack(Drop(2))
    BY <1>3, <1>5, <1>6, StackFacts
  <2>2. Local \in LiveValues
    BY <2>1, ValueFacts DEF IsRef, Undef
  <2> QED
    BY <2>1, <2>2, RefCheck
<1>7. /\ FaultOK(f)
      /\ f.code = "None" =>
           /\ 2 <= Len(stack) /\ Local \in LiveValues /\ IsRef(Local) /\ PopInt(1) \in Nat
           /\ PopInt(1) + 1 \in 1 .. Len(Data(Local.v))
  <2> HIDE DEF slot, size, idx, kind, ref
  <2> QED
    BY <1>2, <1>3, <1>4, <1>5, <1>6 DEF FaultOK, ??
<1>8. CASE f.code # "None"
  BY <1>1, <1>7, <1>8, TrapStep DEF LocalArrayStore, Checked
<1>9. CASE f.code = "None"
  <2>1. /\ stack' = Drop(2) /\ SetElement(Local.v, PopInt(1), PopInt(0)) /\ Advance
        /\ UNCHANGED <<globals, call_stack, output>>
    BY <1>9 DEF LocalArrayStore, Checked
  <2>2. PopInt(0) \in Int /\ GoodStack(stack')
    BY <1>7, <1>9, <2>1, StackFacts, DataFacts
  <2> QED
    BY <1>1, <1>7, <1>9, <2>1, <2>2, ElementStep
<1> QED
  BY <1>8, <1>9

\* AllocArray and ArrayNew keep it, whether the push fits or not.
LEMMA AllocStep == ASSUME IInv, Alloc PROVE IInv'
<1> DEFINE f == SizeFault(arg1, stack)
<1> DEFINE push == PushFault(stack)
<1>1. Fetch(Allocations) /\ GoodStack(stack)
  BY DataFacts DEF Alloc
<1>2. FaultOK(f) /\ (f.code = "None" => arg1 \in Nat)
  BY <1>1, FetchFacts, SizeAndIndexChecks
<1>3. FaultOK(push) /\ (push.code = "None" <=> Len(stack) < MAX_OPERAND_STACK)
  BY StackChecks
<1>4. CASE f.code # "None"
  BY <1>1, <1>2, <1>4, TrapStep DEF Alloc, Checked
<1>5. CASE f.code = "None"
  <2>1. /\ AllocArray(arg1)
        /\ \/ push.code # "None" /\ Abort(push)
           \/ /\ push.code = "None" /\ stack' = Append(stack, ArrayRef(NewArrayId)) /\ Advance
              /\ UNCHANGED <<globals, call_stack, output>>
    BY <1>5 DEF Alloc, Checked
  <2>2. PICK size \in Nat : size = arg1
    BY <1>2, <1>5
  <2>3. AllocArray(size) /\ DataOK /\ HeapOK
    BY <2>1, <2>2 DEF IInv
  <2>4. /\ HeapOK'
        /\ stack \in Seq(LiveValues') /\ ArrayRef(NewArrayId) \in LiveValues'
        /\ globals \in [1 .. MAX_GLOBAL_SLOTS -> LiveValues']
        /\ call_stack \in Seq(FrameType')
    BY <2>3, AllocKeepsHeap, AllocKeepsData, AllocKeepsHeld
  <2>5. CASE push.code # "None" /\ Abort(push)
    <3>1. stack' = stack
      BY <2>5 DEF Abort, PushFault, Fault, NoFault
    <3>2. DataOK'
      BY <2>4, <2>5, <3>1 DEF DataOK, IInv, Abort
    <3>3. ControlOK'
      BY <1>1, <1>3, <2>5, LimitsAssumption DEF IInv, ControlOK, FaultOK, Abort, Fetch, Final
    <3>4. Loaded'
      BY <2>5 DEF Loaded, Abort
    <3> QED
      BY <2>4, <3>2, <3>3, <3>4 DEF IInv
  <2>6. CASE /\ push.code = "None" /\ stack' = Append(stack, ArrayRef(NewArrayId)) /\ Advance
             /\ UNCHANGED <<globals, call_stack, output>>
    <3>1. stack' \in Seq(LiveValues') /\ Len(stack') <= MAX_OPERAND_STACK
      BY <1>3, <2>4, <2>6, DataFacts, AppendProperties, LimitsAssumption
    <3>2. DataOK'
      BY <2>4, <2>6, <3>1 DEF DataOK, IInv
    <3>3. UNCHANGED result /\ pc' \in Nat /\ output' \in Seq(Int) /\ call_stack' # <<>>
      BY <1>1, <2>6, FetchFacts, DataFacts DEF Advance, GoTo, IInv, Loaded
    <3> QED
      BY <1>1, <2>4, <3>2, <3>3, DataStep
  <2> QED
    BY <2>1, <2>5, <2>6
<1> QED
  BY <1>4, <1>5

\* The end of `run`: no frame is left.
LEMMA ExitStep ==
  ASSUME IInv, NEW ops, Fetch(ops), Exit, pc' \in Nat
  PROVE  IInv'
<1>1. LiveValues' = LiveValues /\ FrameType' = FrameType /\ HeapOK'
  BY HeapKept DEF IInv, Exit
<1>2. return_value' \in Int /\ GoodStack(stack')
  <2>1. CASE stack = <<>>
    BY <2>1, DataFacts DEF Exit
  <2>2. CASE stack # <<>>
    <3>1. 1 <= Len(stack)
      BY <2>2, DataFacts DEF GoodStack
    <3>2. GoodStack(Drop(1)) /\ PopInt(0) \in Int
      BY <3>1, StackFacts
    <3> QED
      BY <2>2, <3>2 DEF Exit, PopInt
  <2> QED
    BY <2>1, <2>2
<1>3. DataOK'
  BY <1>1, <1>2, LimitsAssumption DEF IInv, DataOK, GoodStack, Exit
<1>4. ControlOK'
  BY <1>2, LimitsAssumption DEF IInv, ControlOK, Exit, Fetch, Final
<1>5. Loaded'
  BY DEF Loaded, Exit
<1> QED
  BY <1>1, <1>3, <1>4, <1>5 DEF IInv

\* Halt keeps it.
LEMMA HaltStep == ASSUME IInv, Halt PROVE IInv'
BY ExitStep, FetchFacts DEF Halt

\* Return keeps it.
LEMMA ReturnStep == ASSUME IInv, Return PROVE IInv'
<1> DEFINE f == PopFault(stack, 1)
<1> DEFINE target == IF Frame.return_pc = USIZE_MAX THEN pc ELSE Frame.return_pc
<1>1. Fetch({"Return"}) /\ FaultOK(f)
  BY StackChecks DEF Return
<1>2. target \in Nat
  BY <1>1, FetchFacts, RunningFacts
<1>3. CASE f.code # "None"
  BY <1>1, <1>3, TrapStep DEF Return, Checked
<1>4. CASE f.code = "None"
  <2>1. /\ pc' = target
        /\ \/ Depth = 1 /\ Exit
           \/ /\ Depth > 1 /\ call_stack' = SubSeq(call_stack, 1, Depth - 1)
              /\ UNCHANGED <<stack, globals, heap, output, result>>
    BY <1>4 DEF Return, Checked
  <2> HIDE DEF target
  <2>2. CASE Exit
    BY <1>1, <1>2, <2>1, <2>2, ExitStep
  <2>3. CASE /\ Depth > 1 /\ call_stack' = SubSeq(call_stack, 1, Depth - 1)
             /\ UNCHANGED <<stack, globals, heap, output, result>>
    <3>1. /\ call_stack \in Seq(FrameType) /\ Depth \in 1 .. MAX_FRAMES
          /\ Depth = Len(call_stack)
      BY <1>1, DataFacts, FetchFacts, RunningFacts
    <3>2. /\ call_stack' \in Seq(FrameType) /\ Len(call_stack') = Depth - 1
      BY <2>3, <3>1, SubSeqProperties
    <3>3. Len(call_stack') \in 1 .. MAX_FRAMES
      BY <2>3, <3>1, <3>2, LimitsAssumption
    <3> QED
      BY <1>1, <1>2, <2>1, <2>3, <3>2, <3>3, DataFacts, PlainStep
  <2> QED
    BY <2>1, <2>2, <2>3
<1> QED
  BY <1>3, <1>4

\* What Call checks: the callee exists, its arguments are on the stack and
\* there is room for one more frame.
LEMMA CallChecks ==
  ASSUME IInv, Fetch({"Call"})
  PROVE  /\ FaultOK(CallFault)
         /\ CallFault.code = "None" =>
              /\ arg1 \in DOMAIN prog.functions /\ Callee \in FunctionInfo
              /\ Depth < MAX_FRAMES
              /\ arg2 \in Nat /\ arg2 <= Len(stack)
<1> DEFINE neg == Fault(arg1 < 0 \/ arg2 < 0, "InvalidInstruction", stack)
<1> DEFINE known == Fault(arg1 \notin DOMAIN prog.functions, "UndefinedFunction", stack)
<1> DEFINE room == Fault(Depth >= MAX_FRAMES, "StackOverflow", stack)
<1> DEFINE arity == Fault(arg2 # Callee.param_count, "InvalidInstruction", stack)
<1>1. GoodStack(stack) /\ arg1 \in Int /\ arg2 \in Int /\ Depth \in Nat
  BY DataFacts, FetchFacts, RunningFacts
<1>2. FaultOK(neg) /\ (neg.code = "None" => arg2 \in Nat)
  BY <1>1 DEF Fault, NoFault, FaultOK, TrapCode
<1>3. FaultOK(known) /\ (known.code = "None" => arg1 \in DOMAIN prog.functions)
  BY <1>1 DEF Fault, NoFault, FaultOK, TrapCode
<1>4. FaultOK(room) /\ (room.code = "None" => Depth < MAX_FRAMES)
  BY <1>1, LimitsAssumption DEF Fault, NoFault, FaultOK, TrapCode
<1>5. FaultOK(arity)
  BY <1>1 DEF Fault, NoFault, FaultOK, TrapCode
<1>6. ASSUME arg2 \in Nat
      PROVE  /\ FaultOK(PopFault(stack, arg2))
             /\ PopFault(stack, arg2).code = "None" <=> arg2 <= Len(stack)
  BY <1>6, StackChecks
<1>7. CallFault = neg ?? known ?? room ?? arity ?? PopFault(stack, arg2)
  BY DEF CallFault
<1> HIDE DEF neg, known, room, arity
<1>8. /\ FaultOK(CallFault)
      /\ CallFault.code = "None" => /\ arg1 \in DOMAIN prog.functions /\ Depth < MAX_FRAMES
                                    /\ arg2 \in Nat /\ arg2 <= Len(stack)
  BY <1>2, <1>3, <1>4, <1>5, <1>6, <1>7 DEF FaultOK, ??
<1>9. arg1 \in DOMAIN prog.functions => Callee \in FunctionInfo
  BY DEF IInv, ControlOK, IsProgram, Callee
<1> QED
  BY <1>8, <1>9

\* The locals of the callee: its arguments, then undefined ones.
LEMMA CalleeFrame ==
  ASSUME IInv, Callee \in FunctionInfo, arg2 \in Nat, arg2 <= Len(stack), pc \in Nat
  PROVE  NewFrame(pc + 1, CalleeLocals) \in FrameType
<1>1. Callee.local_count \in Nat
  BY DEF FunctionInfo
<1>2. ASSUME NEW i \in 1 .. Callee.local_count, i <= arg2
      PROVE  stack[Len(stack) - arg2 + i] \in LocalValues
  <2>1. stack \in Seq(LiveValues) /\ Len(stack) \in Nat
    BY DataFacts DEF GoodStack
  <2>2. Len(stack) - arg2 + i \in 1 .. Len(stack)
    BY <1>1, <1>2, <2>1
  <2> QED
    BY <2>1, <2>2, ValueFacts
<1>3. CalleeLocals \in [1 .. Callee.local_count -> LocalValues]
  BY <1>2, ValueFacts DEF CalleeLocals
<1>4. CalleeLocals \in Seq(LocalValues)
  BY <1>1, <1>3, SeqDef
<1> QED
  BY <1>4 DEF NewFrame, FrameType

\* Call keeps it.
LEMMA CallStep == ASSUME IInv, Call PROVE IInv'
<1>1. Fetch({"Call"})
  BY DEF Call
<1>2. CASE CallFault.code # "None"
  BY <1>1, <1>2, CallChecks, TrapStep DEF Call, Checked
<1>3. CASE CallFault.code = "None"
  <2> DEFINE frame == NewFrame(pc + 1, CalleeLocals)
  <2>1. /\ stack' = Drop(arg2) /\ call_stack' = Append(call_stack, frame)
        /\ pc' = Callee.entry_pc /\ UNCHANGED <<globals, heap, output, result>>
    BY <1>3 DEF Call, Checked
  <2>2. /\ Callee \in FunctionInfo /\ Depth < MAX_FRAMES /\ arg2 \in Nat /\ arg2 <= Len(stack)
    BY <1>1, <1>3, CallChecks
  <2>3. frame \in FrameType
    BY <1>1, <2>2, FetchFacts, CalleeFrame
  <2> HIDE DEF frame
  <2>4. call_stack \in Seq(FrameType) /\ Depth = Len(call_stack) /\ Depth \in Nat
    BY <1>1, DataFacts, FetchFacts, RunningFacts
  <2>5. call_stack' \in Seq(FrameType) /\ Len(call_stack') \in 1 .. MAX_FRAMES
    BY <2>1, <2>2, <2>3, <2>4, AppendProperties, LimitsAssumption
  <2>6. GoodStack(stack') /\ pc' \in Nat
    BY <2>1, <2>2, StackFacts DEF FunctionInfo
  <2> QED
    BY <1>1, <2>1, <2>5, <2>6, DataFacts, PlainStep
<1> QED
  BY <1>2, <1>3

-------------------------------------------------------------------------------
(***************************************************************************)
(* The start and the end of `run`.                                         *)
(***************************************************************************)

\* The two traps at the top of the loop of `run` keep it.
LEMMA LoopTrapStep == ASSUME IInv, LoopTrap PROVE IInv'
<1>1. PICK code \in {"CycleLimit", "InvalidInstruction"} : Trap([code |-> code, stack |-> stack])
  BY DEF LoopTrap
<1>2. UNCHANGED <<prog, pending, cycles>>
  BY DEF LoopTrap
<1>3. LiveValues' = LiveValues /\ FrameType' = FrameType /\ HeapOK'
  BY <1>1, HeapKept DEF IInv, Trap
<1>4. DataOK'
  BY <1>1, <1>3 DEF IInv, DataOK, Trap, Abort
<1>5. ControlOK'
  BY <1>1, <1>2 DEF IInv, ControlOK, Trap, Abort, Final, TrapCode
<1>6. Loaded'
  BY <1>1 DEF Loaded, Trap, Abort
<1> QED
  BY <1>3, <1>4, <1>5, <1>6 DEF IInv

\* validate_program rejecting the program keeps it.
LEMMA RejectStep == ASSUME IInv, RejectProgram PROVE IInv'
<1>1. PICK code \in PreflightTraps(prog) :
        /\ status' = "trapped"
        /\ trap_code' = code
        /\ UNCHANGED <<prog, pc, stack, globals, call_stack, heap, pending, cycles, output,
                       return_value>>
  BY DEF RejectProgram, ValidateProgram
<1>2. code \in TrapCode \ {"None"}
  BY PreflightPasses DEF IInv, ControlOK
<1>3. LiveValues' = LiveValues /\ FrameType' = FrameType /\ HeapOK'
  BY <1>1, HeapKept DEF IInv
<1>4. DataOK'
  BY <1>1, <1>3 DEF IInv, DataOK
<1>5. ControlOK'
  BY <1>1, <1>2 DEF IInv, ControlOK, Final
<1>6. Loaded'
  BY <1>1 DEF Loaded
<1> QED
  BY <1>3, <1>4, <1>5, <1>6 DEF IInv

\* Allocating a global array before main runs keeps it.
LEMMA AllocGlobalStep == ASSUME IInv, AllocGlobalArray PROVE IInv'
<1>1. PICK x \in pending :
        /\ pending' = pending \ {x}
        /\ AllocArray(prog.globals[x].array_size)
        /\ globals' = [globals EXCEPT ![prog.globals[x].slot + 1] = ArrayRef(NewArrayId)]
  BY DEF AllocGlobalArray
<1>2. status = "new" /\ UNCHANGED <<prog, pc, stack, call_stack, cycles, output, result>>
  BY DEF AllocGlobalArray
<1>3. PICK size \in Nat : size = prog.globals[x].array_size
  <2>1. prog.globals[x] \in GlobalInfo
    BY DEF IInv, ControlOK, IsProgram
  <2> QED
    BY <2>1 DEF GlobalInfo
<1>4. AllocArray(size) /\ DataOK /\ HeapOK
  BY <1>1, <1>3 DEF IInv
<1>5. /\ HeapOK'
      /\ stack \in Seq(LiveValues') /\ ArrayRef(NewArrayId) \in LiveValues'
      /\ globals \in [1 .. MAX_GLOBAL_SLOTS -> LiveValues']
      /\ call_stack \in Seq(FrameType')
  BY <1>4, AllocKeepsHeap, AllocKeepsData, AllocKeepsHeld
<1>6. DataOK'
  BY <1>1, <1>2, <1>5 DEF IInv, DataOK
<1>7. ControlOK'
  BY <1>1, <1>2 DEF IInv, ControlOK, result
<1>8. Loaded'
  BY <1>2 DEF IInv, Loaded, result
<1> QED
  BY <1>5, <1>6, <1>7, <1>8 DEF IInv

\* Setting up main's frame keeps it.
LEMMA EnterMainStep == ASSUME IInv, EnterMain PROVE IInv'
<1> DEFINE main == prog.functions[prog.main_func_id]
<1> DEFINE ls == [i \in 1 .. main.local_count |-> Undef]
<1> DEFINE frame == NewFrame(USIZE_MAX, ls)
<1>1. /\ PreflightTraps(prog) = {} /\ status' = "running" /\ pc' = main.entry_pc
      /\ call_stack' = <<frame>>
      /\ UNCHANGED <<prog, stack, globals, heap, pending, cycles, output, trap_code,
                     return_value>>
  BY DEF EnterMain, ValidateProgram
<1>2. main \in FunctionInfo
  BY <1>1, PreflightPasses DEF IInv, ControlOK
<1> HIDE DEF main
<1>3. main.local_count \in Nat /\ main.entry_pc \in Nat
  BY <1>2 DEF FunctionInfo
<1>4. ls \in Seq(LocalValues)
  <2>1. ls \in [1 .. main.local_count -> LocalValues]
    BY ValueFacts
  <2> QED
    BY <1>3, <2>1, SeqDef
<1> HIDE DEF ls
<1>5. frame \in FrameType
  BY <1>4, UsizeAssumption DEF FrameType, NewFrame
<1> HIDE DEF frame
<1>6. LiveValues' = LiveValues /\ FrameType' = FrameType /\ HeapOK'
  BY <1>1, HeapKept DEF IInv
<1>7. call_stack' \in Seq(FrameType) /\ Len(call_stack') = 1 /\ call_stack' # <<>>
  BY <1>1, <1>5
<1>8. DataOK'
  BY <1>1, <1>6, <1>7, LimitsAssumption DEF IInv, DataOK
<1>9. ControlOK'
  BY <1>1, <1>3 DEF IInv, ControlOK, EnterMain
<1>10. Loaded'
  BY <1>1, <1>7 DEF Loaded
<1> QED
  BY <1>6, <1>8, <1>9, <1>10 DEF IInv

\* A machine that has returned keeps it.
LEMMA StutterStep == ASSUME IInv, UNCHANGED vars PROVE IInv'
<1>1. UNCHANGED heap
  BY DEF vars, heap
<1>2. LiveValues' = LiveValues /\ FrameType' = FrameType /\ HeapOK'
  BY <1>1, HeapKept DEF IInv
<1> QED
  BY <1>2 DEF IInv, DataOK, ControlOK, Loaded, vars

\* A new machine satisfies it.
LEMMA InitOK == Init => IInv
<1>1. SUFFICES ASSUME Init PROVE IInv
  OBVIOUS
<1>2. IsProgram(prog)
  BY <1>1, ProgramsAssumption DEF Init
<1>3. HeapOK
  BY <1>1 DEF Init, New, HeapOK, FreeListExact
<1>4. DataOK
  BY <1>1, LimitsAssumption, ValueFacts DEF Init, New, DataOK
<1>5. ControlOK
  BY <1>1, <1>2, LimitsAssumption DEF Init, New, ControlOK, TrapCode
<1>6. Loaded
  BY <1>1 DEF Init, New, Loaded
<1> QED
  BY <1>3, <1>4, <1>5, <1>6 DEF IInv

\* Every step keeps it.
LEMMA NextOK == IInv /\ [Next]_vars => IInv'
<1>1. SUFFICES ASSUME IInv, [Next]_vars PROVE IInv'
  OBVIOUS
<1>2. CASE Execute
  BY <1>1, <1>2, LoadConstStep, LoadLocalStep, StoreLocalStep, LoadGlobalStep, StoreGlobalStep,
     BinaryStep, UnaryStep, JumpStep, BranchStep, CallStep, ReturnStep, ArrayLoadStep,
     ArrayStoreStep, LocalArrayLoadStep, LocalArrayStoreStep, AllocStep, PrintStep, PopStep,
     DupStep, HaltStep DEF Execute
<1> QED
  BY <1>1, <1>2, RejectStep, AllocGlobalStep, EnterMainStep, LoopTrapStep, StutterStep
     DEF Next, Done

\* The invariant holds in every state of every run.
THEOREM Invariance == Spec => []IInv
BY InitOK, NextOK, PTL DEF Spec

-------------------------------------------------------------------------------
(***************************************************************************)
(* What follows from it.                                                   *)
(***************************************************************************)

\* The fields of the machine hold values of their types within their limits
\* (struct GcVm), after any sequence of instructions, traps and collections.
THEOREM TypeCorrect == Spec => []TypeOK
<1>1. IInv => TypeOK
  <2>1. SUFFICES ASSUME IInv PROVE TypeOK
    OBVIOUS
  <2>2. LiveValues \subseteq Value
    BY DEF LiveValues
  <2>3. stack \in Seq(Value) /\ globals \in [1 .. MAX_GLOBAL_SLOTS -> Value]
    BY <2>1, <2>2, SeqMonotonic DEF IInv, DataOK
  <2>4. call_stack \in Seq([return_pc : Nat, locals : Seq(Value \cup {Undef})])
    <3>1. Seq(LocalValues) \subseteq Seq(Value \cup {Undef})
      BY <2>2, SeqMonotonic DEF LocalValues
    <3>2. FrameType \subseteq [return_pc : Nat, locals : Seq(Value \cup {Undef})]
      BY <3>1 DEF FrameType
    <3> QED
      BY <2>1, <3>2, SeqMonotonic DEF IInv, DataOK
  <2> QED
    BY <2>1, <2>3, <2>4 DEF IInv, DataOK, HeapOK, ControlOK, TypeOK, ArraySlot, Depth
<1> QED
  BY <1>1, Invariance, PTL

\* The free list holds exactly the empty slots, each once: alloc_array never
\* hands out the slot of an array that exists, however many collections ran.
THEOREM FreeSlotsExact == Spec => []FreeListExact
<1>1. IInv => FreeListExact
  BY DEF IInv, HeapOK
<1> QED
  BY <1>1, Invariance, PTL

\* No reference on the operand stack, in a global or in a local of any frame
\* has been swept (collect_garbage).
THEOREM ReferencesLive == Spec => []NoDanglingRefs
<1>1. IInv => NoDanglingRefs
  <2>1. SUFFICES ASSUME IInv, NEW x \in Held, IsRef(x) PROVE Live(x.v)
    BY DEF NoDanglingRefs, Reachable, to_i64
  <2>2. x \in LocalValues /\ x # Undef
    BY <2>1, HeldValues DEF IInv, IsRef, Undef
  <2> QED
    BY <2>1, <2>2, ValueFacts DEF LiveValues
<1> QED
  BY <1>1, Invariance, PTL

\* What the program can reach stays where it is in a step that allocates.
LEMMA AllocKeepsReachable ==
  ASSUME IInv, NEW size \in Nat, AllocArray(size), NEW id \in Reachable
  PROVE  id < Len(heap_arrays') /\ heap_arrays'[id + 1] = heap_arrays[id + 1]
<1>1. DataOK /\ HeapOK /\ Len(heap_arrays) \in Nat
  BY DEF IInv, HeapOK
<1>2. PICK x \in Held : IsRef(x) /\ id = x.v
  BY DEF Reachable, to_i64
<1>3. x \in LiveValues
  BY <1>1, <1>2, HeldValues DEF LocalValues, IsRef, Undef
<1>4. id \in Int /\ Live(id) /\ id \notin Garbage
  BY <1>1, <1>2, <1>3, RootsAreReachable, GarbageFacts, ValueFacts DEF LiveValues
<1>5. id \in 0 .. Len(heap_arrays) - 1
  BY <1>1, <1>4 DEF Live
<1>6. /\ NewArrayId \in EmptyAfterSweep \cup {Len(heap_arrays)}
      /\ Len(heap_arrays') >= Len(heap_arrays)
      /\ \A i \in (0 .. Len(heap_arrays) - 1) \ {NewArrayId} :
           heap_arrays'[i + 1] = IF i \in Garbage THEN NoArray ELSE heap_arrays[i + 1]
  BY <1>1, AllocSlots
<1>7. id # NewArrayId
  BY <1>1, <1>4, <1>5, <1>6 DEF EmptyAfterSweep
<1>8. Len(heap_arrays') \in Nat
  BY <1>1, AllocSlots
<1> QED
  BY <1>1, <1>4, <1>5, <1>6, <1>7, <1>8

\* Writing an element, whatever its position, gives and takes no array.
LEMMA StoreKeepsLive ==
  ASSUME HeapOK, NEW at, NEW index, NEW n, SetElement(at, index, n)
  PROVE  /\ Len(heap_arrays') = Len(heap_arrays)
         /\ \A id \in Int : Live(id)' <=> Live(id)
<1> DEFINE m == Len(heap_arrays)
<1> DEFINE T == {heap_arrays'[i] : i \in 1 .. m}
<1>1. m \in Nat /\ DOMAIN heap_arrays = 1 .. m /\ \A i \in 1 .. m : heap_arrays[i] \in ArraySlot
  BY DEF HeapOK
<1>2. heap_arrays' = [i \in 1 .. m |->
                        IF i = at + 1
                        THEN [heap_arrays[i] EXCEPT !.data = [@ EXCEPT ![index + 1] = n]]
                        ELSE heap_arrays[i]]
  BY <1>1 DEF SetElement
<1>3. heap_arrays' \in [1 .. m -> T]
  BY <1>2
<1>4. heap_arrays' \in Seq(T) /\ Len(heap_arrays') = m
  BY <1>1, <1>3, SeqDef
<1>5. \A i \in 1 .. m : heap_arrays'[i].live = heap_arrays[i].live
  BY <1>1, <1>2 DEF ArraySlot
<1> QED
  BY <1>1, <1>4, <1>5 DEF Live

\* What a step does to the heap: nothing, or it writes an element (the two
\* store instructions), or it is a call of alloc_array.
LEMMA HeapSteps ==
  ASSUME IInv, [Next]_vars
  PROVE  \/ UNCHANGED heap
         \/ IsStore /\ \E at, index, n : SetElement(at, index, n)
         \/ \E size \in Nat : AllocArray(size)
<1>1. CASE Alloc
  <2>1. \/ UNCHANGED heap
        \/ SizeFault(arg1, stack).code = "None" /\ AllocArray(arg1)
    BY <1>1 DEF Alloc, Checked, Trap
  <2>2. SizeFault(arg1, stack).code = "None" => arg1 \in Nat
    BY <1>1, FetchFacts, DataFacts, SizeAndIndexChecks DEF Alloc
  <2> QED
    BY <2>1, <2>2
<1>2. CASE AllocGlobalArray
  <2>1. PICK x \in pending : AllocArray(prog.globals[x].array_size)
    BY <1>2 DEF AllocGlobalArray
  <2>2. prog.globals[x] \in GlobalInfo
    BY DEF IInv, ControlOK, IsProgram
  <2> QED
    BY <2>1, <2>2 DEF GlobalInfo
<1>3. CASE ArrayStore \/ LocalArrayStore
  <2>1. IsStore
    BY <1>3 DEF ArrayStore, LocalArrayStore, Fetch, IsStore
  <2>2. UNCHANGED heap \/ \E at, index, n : SetElement(at, index, n)
    BY <1>3 DEF ArrayStore, LocalArrayStore, Checked, Trap
  <2> QED
    BY <2>1, <2>2
<1>4. CASE LoadConst \/ LoadLocal \/ StoreLocal \/ LoadGlobal \/ StoreGlobal
  BY <1>4 DEF LoadConst, LoadLocal, StoreLocal, LoadGlobal, StoreGlobal, Checked, Trap, StackOnly
<1>5. CASE Binary \/ Unary \/ Jump \/ Branch \/ Call \/ Return
  BY <1>5 DEF Binary, Unary, Jump, Branch, Call, Return, Exit, Checked, Trap, StackOnly
<1>6. CASE ArrayLoad \/ LocalArrayLoad \/ PrintTop \/ Pop \/ Dup \/ Halt
  BY <1>6 DEF ArrayLoad, LocalArrayLoad, PrintTop, Pop, Dup, Halt, Exit, Checked, Trap, StackOnly
<1>7. CASE RejectProgram \/ EnterMain \/ LoopTrap
  BY <1>7 DEF RejectProgram, EnterMain, LoopTrap, Trap
<1>8. CASE UNCHANGED vars
  BY <1>8 DEF vars, heap
<1> QED
  BY <1>1, <1>2, <1>3, <1>4, <1>5, <1>6, <1>7, <1>8 DEF Next, Execute, Done

\* Only a store instruction changes an array the program can reach; allocations
\* and collections leave each of them in its slot with its elements.
THEOREM ReachableKept == Spec => ReachableArraysKept
<1> DEFINE Keeps == ~IsStore => \A id \in Reachable : id < Len(heap_arrays') /\
                                    heap_arrays'[id + 1] = heap_arrays[id + 1]
<1>1. IInv /\ [Next]_vars => Keeps
  <2>1. SUFFICES ASSUME IInv, [Next]_vars, ~IsStore, NEW id \in Reachable
                 PROVE  id < Len(heap_arrays') /\ heap_arrays'[id + 1] = heap_arrays[id + 1]
    OBVIOUS
  <2>2. CASE UNCHANGED heap
    <3>1. PICK x \in Held : IsRef(x) /\ id = x.v
      BY <2>1 DEF Reachable, to_i64
    <3>2. x \in LiveValues
      BY <2>1, <3>1, HeldValues DEF IInv, LocalValues, IsRef, Undef
    <3>3. id \in Int /\ id + 1 \in 1 .. Len(heap_arrays)
      BY <3>1, <3>2, ValueFacts DEF LiveValues, Live
    <3>4. Len(heap_arrays) \in Nat
      BY <2>1 DEF IInv, HeapOK
    <3> QED
      BY <2>2, <3>3, <3>4 DEF heap
  <2>3. CASE \E size \in Nat : AllocArray(size)
    BY <2>1, <2>3, AllocKeepsReachable
  <2> QED
    BY <2>1, <2>2, <2>3, HeapSteps
<1>2. IInv /\ [Next]_vars => [Keeps]_vars
  BY <1>1
<1> QED
  BY <1>2, Invariance, PTL DEF Spec, ReachableArraysKept

\* The number of arrays is what alloc_array compares with the threshold.
LEMMA LiveCounted ==
  ASSUME HeapOK
  PROVE  /\ LiveCount = Len(heap_arrays) - Len(free_array_slots)
         /\ LiveCount \in Nat
         /\ IsFiniteSet({id \in 0 .. Len(heap_arrays) - 1 : Live(id)})
<1> DEFINE n == Len(heap_arrays)
<1> DEFINE m == Len(free_array_slots)
<1> DEFINE All == 0 .. n - 1
<1> DEFINE Full == {id \in All : Live(id)}
<1> DEFINE Empty == {id \in All : ~Live(id)}
<1>1. n \in Nat /\ m \in Nat /\ free_array_slots \in [1 .. m -> Nat]
  BY DEF HeapOK
<1>2. IsFiniteSet(All) /\ Cardinality(All) = n
  <2>1. 0 \in Int /\ n - 1 \in Int
    BY <1>1
  <2>2. IsFiniteSet(0 .. n - 1) /\ Cardinality(0 .. n - 1) = IF 0 > n - 1 THEN 0 ELSE (n - 1) - 0 + 1
    BY <2>1, FS_Interval
  <2> QED
    BY <1>1, <2>2
<1>3. IsFiniteSet(Full) /\ IsFiniteSet(Empty)
  BY <1>2, FS_Subset
<1>4. free_array_slots \in Bijection(1 .. m, Empty)
  <2>1. \A i \in 1 .. m : free_array_slots[i] \in Empty
    BY DEF HeapOK, FreeListExact
  <2>2. free_array_slots \in [1 .. m -> Empty]
    BY <1>1, <2>1
  <2>3. IsInjective(free_array_slots)
    BY <2>2 DEF HeapOK, FreeListExact, IsInjective
  <2>4. \A id \in Empty : \E i \in 1 .. m : free_array_slots[i] = id
    BY DEF HeapOK, FreeListExact
  <2> QED
    BY <2>2, <2>3, <2>4 DEF Bijection, Injection, Surjection
<1>5. Cardinality(Empty) = m
  BY <1>1, <1>4, FS_CountingElements DEF ExistsBijection
<1>6. Cardinality(Full) = n - m
  <2>1. Full = All \ Empty /\ All \cap Empty = Empty
    OBVIOUS
  <2> HIDE DEF All, Full, Empty
  <2>2. Cardinality(All \ Empty) = Cardinality(All) - Cardinality(All \cap Empty)
    BY <1>2, FS_Difference
  <2> QED
    BY <1>2, <1>5, <2>1, <2>2
<1>7. Cardinality(Full) \in Nat
  BY <1>3, FS_CardinalityType
<1> QED
  BY <1>3, <1>6, <1>7 DEF LiveCount

\* An allocation that does not collect adds one array.
LEMMA AllocAddsOne ==
  ASSUME HeapOK, NEW size \in Nat, AllocArray(size), ~MustCollect
  PROVE  LiveCount' = LiveCount + 1
<1> DEFINE before == {id \in 0 .. Len(heap_arrays) - 1 : Live(id)}
<1> DEFINE after == {id \in 0 .. Len(heap_arrays') - 1 : Live(id)'}
<1>1. Garbage = {}
  BY DEF Garbage
<1>2. /\ Len(heap_arrays) \in Nat
      /\ Len(heap_arrays') \in {Len(heap_arrays), Len(heap_arrays) + 1}
      /\ NewArrayId \in 0 .. Len(heap_arrays') - 1
  <2>1. Len(heap_arrays) \in Nat
    BY DEF HeapOK
  <2> QED
    BY <2>1, AllocSlots DEF EmptyAfterSweep
<1>3. NewArrayId \notin before
  BY <1>1, <1>2, AllocSlots DEF EmptyAfterSweep
<1>4. \A id \in Int : Live(id)' <=> id = NewArrayId \/ Live(id)
  BY <1>1, AllocLive
<1>5. after = before \cup {NewArrayId}
  <2>1. \A id \in Int : Live(id) => id \in 0 .. Len(heap_arrays) - 1
    BY <1>2 DEF Live
  <2> QED
    BY <1>2, <1>4, <2>1
<1>6. IsFiniteSet(before)
  BY LiveCounted
<1> HIDE DEF before, after
<1>7. Cardinality(before \cup {NewArrayId}) = Cardinality(before) + 1
  BY <1>3, <1>6, FS_AddElement
<1> QED
  BY <1>5, <1>7 DEF LiveCount, before, after

\* A step after which there are more arrays than before and more than the
\* threshold has collected: what it leaves is reachable, or the new array.
THEOREM GarbageStaysBounded == Spec => GarbageBounded
<1> DEFINE Bounded ==
      LiveCount' > LiveCount /\ LiveCount' > GC_THRESHOLD
      => \A id \in 0 .. Len(heap_arrays) - 1 :
           heap_arrays'[id + 1].live => id \in Reachable \/ id = NewArrayId
<1>1. IInv /\ [Next]_vars => Bounded
  <2>1. SUFFICES ASSUME IInv, [Next]_vars, LiveCount' > LiveCount, LiveCount' > GC_THRESHOLD,
                        NEW id \in 0 .. Len(heap_arrays) - 1, heap_arrays'[id + 1].live
                 PROVE  id \in Reachable \/ id = NewArrayId
    OBVIOUS
  <2>2. HeapOK /\ DataOK /\ Len(heap_arrays) \in Nat /\ LiveCount \in Nat
    BY <2>1, LiveCounted DEF IInv, HeapOK
  <2>3. ASSUME Len(heap_arrays') = Len(heap_arrays), \A i \in Int : Live(i)' <=> Live(i)
        PROVE  FALSE
    <3> DEFINE before == {i \in 0 .. Len(heap_arrays) - 1 : Live(i)}
    <3> DEFINE after == {i \in 0 .. Len(heap_arrays') - 1 : Live(i)'}
    <3>1. after = before
      BY <2>2, <2>3
    <3> HIDE DEF before, after
    <3>2. LiveCount' = LiveCount
      BY <3>1 DEF LiveCount, before, after
    <3> QED
      BY <2>1, <2>2, <3>2
  <2>4. CASE UNCHANGED heap
    <3>1. Len(heap_arrays') = Len(heap_arrays) /\ \A i \in Int : Live(i)' <=> Live(i)
      BY <2>4 DEF heap, Live
    <3> QED
      BY <2>3, <3>1
  <2>5. CASE \E at, index, n : SetElement(at, index, n)
    BY <2>2, <2>3, <2>5, StoreKeepsLive
  <2>6. ASSUME NEW size \in Nat, AllocArray(size)
        PROVE  id \in Reachable \/ id = NewArrayId
    <3>1. MustCollect
      <4>1. SUFFICES ASSUME ~MustCollect PROVE FALSE
        OBVIOUS
      <4>2. LiveCount' = LiveCount + 1
        BY <2>2, <2>6, <4>1, AllocAddsOne
      <4>3. LiveCount < GC_THRESHOLD
        BY <2>2, <4>1, LiveCounted, ThresholdAssumption DEF MustCollect
      <4> QED
        BY <2>1, <2>2, <4>2, <4>3, ThresholdAssumption
    <3>2. Live(id)'
      <4>1. id + 1 \in 1 .. Len(heap_arrays')
        BY <2>2, <2>6, AllocSlots
      <4> QED
        BY <2>1, <4>1 DEF Live
    <3>3. id = NewArrayId \/ (Live(id) /\ id \notin Garbage)
      BY <2>1, <2>2, <2>6, <3>2, AllocLive
    <3>4. Live(id) /\ id \notin Garbage => id \in Roots
      BY <2>1, <3>1 DEF Garbage
    <3> QED
      BY <2>2, <3>3, <3>4, RootsAreReachable
  <2> QED
    BY <2>1, <2>4, <2>5, <2>6, HeapSteps
<1>2. IInv /\ [Next]_vars => [Bounded]_vars
  BY <1>1
<1> QED
  BY <1>2, Invariance, PTL DEF Spec, GarbageBounded
===============================================================================
