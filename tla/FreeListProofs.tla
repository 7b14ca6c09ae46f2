----------------------------- MODULE FreeListProofs -----------------------------
(***************************************************************************)
(* The steps of FreeListAllocator keep its blocks and its list in order.   *)
(*                                                                         *)
(* What the proofs about all the allocators share comes first: alignment,  *)
(* stated for the formula of align_up since each allocator's module has an *)
(* align_up of its own, lists that live in the managed memory, and sums.   *)
(* Then tilings and sorted lists, as facts about functions and sets, the   *)
(* invariant FreeListOK, a lemma for each step, and what follows from the  *)
(* invariant.  The theorems are in AllocatorsProofs.                       *)
(***************************************************************************)
EXTENDS Allocators, Sequences, FiniteSets, SequenceTheorems, FiniteSetTheorems,
        NaturalsInduction, WellFoundedInduction, TLAPS

(***************************************************************************)
(* Alignment.                                                              *)
(***************************************************************************)
LEMMA Multiple ==
  ASSUME NEW k \in Int, NEW m \in Nat \ {0}
  PROVE  (k * m) % m = 0
OBVIOUS

LEMMA Quotient ==
  ASSUME NEW x \in Int, NEW m \in Nat \ {0}, x % m = 0
  PROVE  \E k \in Int : x = k * m
OBVIOUS

LEMMA QuotientBounds ==
  ASSUME NEW x \in Int, NEW m \in Nat \ {0}
  PROVE  /\ x \div m \in Int
         /\ (x \div m) * m <= x /\ x < (x \div m) * m + m
OBVIOUS

\* Aligned distances from an aligned address are aligned.
LEMMA AlignedSum ==
  ASSUME NEW x \in Int, NEW y \in Int, NEW m \in Nat \ {0}, x % m = 0, y % m = 0
  PROVE  (x + y) % m = 0
PROOF
<1>1. PICK i \in Int : x = i * m
  BY Quotient
<1>2. PICK j \in Int : y = j * m
  BY Quotient
<1>3. x + y = (i + j) * m /\ i + j \in Int
  BY <1>1, <1>2
<1> QED
  BY <1>3, Multiple

LEMMA AlignedProduct ==
  ASSUME NEW i \in Int, NEW x \in Int, NEW m \in Nat \ {0}, x % m = 0
  PROVE  (i * x) % m = 0
PROOF
<1>1. PICK j \in Int : x = j * m
  BY Quotient
<1>2. i * x = (i * j) * m /\ i * j \in Int
  BY <1>1
<1> QED
  BY <1>2, Multiple

\* align_up yields the next multiple.
LEMMA AlignUp ==
  ASSUME NEW n \in Nat, NEW m \in Nat \ {0}
  PROVE  LET up == ((n + m - 1) \div m) * m
         IN  up \in Nat /\ n <= up /\ up < n + m /\ up % m = 0
PROOF
<1> DEFINE q == (n + m - 1) \div m
<1>1. q \in Int /\ q * m <= n + m - 1 /\ n + m - 1 < q * m + m
  BY QuotientBounds
<1> HIDE DEF q
<1>2. (q * m) % m = 0
  BY <1>1, Multiple
<1>3. q * m \in Int
  BY <1>1
<1>4. n <= q * m /\ q * m < n + m
  BY <1>1, <1>3
<1> QED
  BY <1>2, <1>3, <1>4 DEF q

\* Consecutive objects of one size do not overlap.
LEMMA Spaced ==
  ASSUME NEW i \in Int, NEW j \in Int, NEW n \in Nat, i < j
  PROVE  i * n + n <= j * n
PROOF
<1>1. PICK d \in Nat : j = i + 1 + d
  <2>1. j - i - 1 \in Nat
    OBVIOUS
  <2> QED
    BY <2>1
<1>2. j * n = i * n + n + d * n
  BY <1>1
<1>3. d * n \in Nat /\ i * n \in Int
  OBVIOUS
<1> QED
  BY <1>2, <1>3

(***************************************************************************)
(* Lists.                                                                  *)
(***************************************************************************)

\* A set of numbers has a least one.
LEMMA Least ==
  ASSUME NEW T, T \subseteq Nat, T # {}
  PROVE  \E x \in T : \A y \in T : x <= y
PROOF
<1>1. IsWellFoundedOn(OpToRel(<, Nat), Nat)
  BY NatLessThanWellFounded
<1>2. PICK x \in T : \A y \in T : ~(<<y, x>> \in OpToRel(<, Nat))
  BY <1>1, WFMin
<1>3. \A y \in T : ~(y < x)
  BY <1>2 DEF OpToRel
<1> QED
  BY <1>3

\* Two functions that start alike and go on alike agree: the k-th element of
\* a list, followed link by link, is the k-th element of a sequence.
LEMMA StepByStep ==
  ASSUME NEW f, NEW g, NEW n \in Nat, f[0] = g[0],
         \A k \in 1 .. n : f[k - 1] = g[k - 1] => f[k] = g[k]
  PROVE  \A k \in 0 .. n : f[k] = g[k]
PROOF
<1> DEFINE T == {k \in 0 .. n : f[k] # g[k]}
<1> SUFFICES ASSUME T # {} PROVE FALSE
  OBVIOUS
<1>1. T \subseteq Nat
  OBVIOUS
<1>2. PICK x \in T : \A y \in T : x <= y
  BY <1>1, Least
<1>3. x \in 0 .. n /\ f[x] # g[x]
  OBVIOUS
<1>4. x \in 1 .. n
  BY <1>3
<1>5. x - 1 \notin T /\ x - 1 \in 0 .. n
  BY <1>2, <1>4
<1> QED
  BY <1>3, <1>4, <1>5

\* A linked list of n elements: L lists each of them once, head is the first,
\* next leads from each to the one behind it.
IsChain(L, n, elements, head, next) ==
  /\ n \in Nat /\ L \in [1 .. n -> elements]
  /\ \A e \in elements : \E i \in 1 .. n : L[i] = e
  /\ \A i, j \in 1 .. n : L[i] = L[j] => i = j
  /\ NULL \notin elements
  /\ head = IF n = 0 THEN NULL ELSE L[1]
  /\ \A i \in 1 .. n : next[L[i]] = IF i = n THEN NULL ELSE L[i + 1]

HasChain(elements, head, next) ==
  \E n \in Nat : \E L \in [1 .. n -> elements] : IsChain(L, n, elements, head, next)

\* It is finite and as long as it has elements.
LEMMA ChainLength ==
  ASSUME NEW L, NEW n, NEW elements, NEW head, NEW next,
         IsChain(L, n, elements, head, next)
  PROVE  IsFiniteSet(elements) /\ Cardinality(elements) = n
PROOF
<1>1. n \in Nat /\ L \in [1 .. n -> elements]
  BY DEF IsChain
<1>2. L \in Bijection(1 .. n, elements)
  BY <1>1 DEF IsChain, Bijection, Injection, Surjection, IsInjective
<1>3. IsFiniteSet(1 .. n) /\ Cardinality(1 .. n) = n
  BY <1>1, FS_Interval
<1>4. ExistsBijection(1 .. n, elements)
  BY <1>2 DEF ExistsBijection
<1> QED
  BY <1>1, <1>3, <1>4, FS_Bijection

\* The links say where the list is empty and where it ends.
LEMMA ChainHead ==
  ASSUME NEW elements, NEW head, NEW next, HasChain(elements, head, next)
  PROVE  /\ NULL \notin elements
         /\ head \in elements \cup {NULL}
         /\ head = NULL <=> elements = {}
         /\ \A e \in elements : next[e] \in elements \cup {NULL}
PROOF
<1>0. PICK n \in Nat : \E L \in [1 .. n -> elements] : IsChain(L, n, elements, head, next)
  BY DEF HasChain
<1>1. PICK L \in [1 .. n -> elements] : IsChain(L, n, elements, head, next)
  BY <1>0
<1> QED
  BY <1>1 DEF IsChain

\* A new element becomes the head.
LEMMA ChainPush ==
  ASSUME NEW elements, NEW head, NEW next, HasChain(elements, head, next),
         NEW e, e \notin elements, e # NULL,
         NEW later, later[e] = head, \A x \in elements : later[x] = next[x]
  PROVE  HasChain(elements \cup {e}, e, later)
PROOF
<1>0. PICK n \in Nat : \E L \in [1 .. n -> elements] : IsChain(L, n, elements, head, next)
  BY DEF HasChain
<1>1. PICK L \in [1 .. n -> elements] : IsChain(L, n, elements, head, next)
  BY <1>0
<1> DEFINE K == [i \in 1 .. n + 1 |-> IF i = 1 THEN e ELSE L[i - 1]]
<1>2. /\ K \in [1 .. n + 1 -> elements \cup {e}] /\ n + 1 \in Nat
      /\ K[1] = e /\ \A i \in 2 .. n + 1 : K[i] = L[i - 1] /\ i - 1 \in 1 .. n
  BY <1>1 DEF IsChain
<1> HIDE DEF K
<1>3. ASSUME NEW x \in elements \cup {e} PROVE \E i \in 1 .. n + 1 : K[i] = x
  <2>1. CASE x = e
    BY <1>2, <2>1
  <2>2. CASE x \in elements
    <3>1. PICK i \in 1 .. n : L[i] = x
      BY <1>1, <2>2 DEF IsChain
    <3>2. i + 1 \in 2 .. n + 1 /\ i + 1 \in 1 .. n + 1 /\ (i + 1) - 1 = i
      OBVIOUS
    <3> QED
      BY <1>2, <3>1, <3>2
  <2> QED
    BY <2>1, <2>2
<1>4. ASSUME NEW i \in 1 .. n + 1, NEW j \in 1 .. n + 1, K[i] = K[j] PROVE i = j
  <2>1. CASE i = 1 \/ j = 1
    BY <1>1, <1>2, <1>4, <2>1 DEF IsChain
  <2>2. CASE i # 1 /\ j # 1
    <3>1. i \in 2 .. n + 1 /\ j \in 2 .. n + 1
      BY <2>2
    <3> QED
      BY <1>1, <1>2, <1>4, <3>1 DEF IsChain
  <2> QED
    BY <2>1, <2>2
<1>5. ASSUME NEW i \in 1 .. n + 1
      PROVE  later[K[i]] = IF i = n + 1 THEN NULL ELSE K[i + 1]
  <2>1. CASE i = 1
    <3>1. n # 0 => 2 \in 2 .. n + 1 /\ K[2] = L[1]
      <4>1. n # 0 => 2 \in 2 .. n + 1
        OBVIOUS
      <4>2. 2 - 1 = 1
        OBVIOUS
      <4> QED
        BY <1>2, <4>1, <4>2
    <3> QED
      BY <1>1, <1>2, <2>1, <3>1 DEF IsChain
  <2>2. CASE i # 1
    <3>1. i \in 2 .. n + 1 /\ i - 1 \in 1 .. n /\ L[i - 1] \in elements
      <4>1. i \in 2 .. n + 1 /\ i - 1 \in 1 .. n
        BY <2>2
      <4> QED
        BY <1>1, <4>1 DEF IsChain
    <3>2. later[K[i]] = IF i - 1 = n THEN NULL ELSE L[(i - 1) + 1]
      BY <1>1, <1>2, <3>1 DEF IsChain
    <3>3. i # n + 1 => i + 1 \in 2 .. n + 1 /\ K[i + 1] = L[i]
      BY <1>2, <3>1
    <3> QED
      BY <3>1, <3>2, <3>3
  <2> QED
    BY <2>1, <2>2
<1>6. IsChain(K, n + 1, elements \cup {e}, e, later)
  BY <1>1, <1>2, <1>3, <1>4, <1>5 DEF IsChain
<1> QED
  BY <1>2, <1>6 DEF HasChain

\* The element at position p is taken out: the one before it, or the head,
\* takes over its link.
LEMMA ChainRemove ==
  ASSUME NEW elements, NEW head, NEW next, NEW n \in Nat, NEW L,
         IsChain(L, n, elements, head, next), NEW p \in 1 .. n,
         NEW later,
         \A i \in 1 .. n : i # p =>
           later[L[i]] = IF i = p - 1 THEN next[L[p]] ELSE next[L[i]]
  PROVE  LET K == [i \in 1 .. n - 1 |-> IF i < p THEN L[i] ELSE L[i + 1]]
         IN  IsChain(K, n - 1, elements \ {L[p]}, IF p = 1 THEN next[L[p]] ELSE head, later)
PROOF
<1> DEFINE K == [i \in 1 .. n - 1 |-> IF i < p THEN L[i] ELSE L[i + 1]]
           at(i) == IF i < p THEN i ELSE i + 1
<1>1. /\ L \in [1 .. n -> elements] /\ NULL \notin elements
      /\ \A e \in elements : \E i \in 1 .. n : L[i] = e
      /\ \A i, j \in 1 .. n : L[i] = L[j] => i = j
      /\ head = L[1]
      /\ \A i \in 1 .. n : next[L[i]] = IF i = n THEN NULL ELSE L[i + 1]
  BY DEF IsChain
<1>2. n - 1 \in Nat
  OBVIOUS
<1>3. \A i \in 1 .. n - 1 : K[i] = L[at(i)] /\ at(i) \in 1 .. n /\ at(i) # p
  OBVIOUS
<1>4. \A i, j \in 1 .. n - 1 : at(i) = at(j) => i = j
  OBVIOUS
<1>5. K \in [1 .. n - 1 -> elements \ {L[p]}]
  BY <1>1, <1>3
<1>6. DOMAIN K = 1 .. n - 1
  OBVIOUS
<1> HIDE DEF K
<1>7. ASSUME NEW e \in elements \ {L[p]} PROVE \E i \in 1 .. n - 1 : K[i] = e
  <2>1. PICK j \in 1 .. n : L[j] = e
    BY <1>1
  <2>2. j # p
    BY <2>1
  <2>3. \E i \in 1 .. n - 1 : at(i) = j
    <3>1. CASE j < p
      <4>1. j \in 1 .. n - 1 /\ at(j) = j
        BY <3>1
      <4> QED
        BY <4>1
    <3>2. CASE j > p
      <4>1. j - 1 \in 1 .. n - 1 /\ at(j - 1) = j
        BY <3>2
      <4> QED
        BY <4>1
    <3> QED
      BY <2>2, <3>1, <3>2
  <2> QED
    BY <1>3, <2>1, <2>3
<1>8. \A i, j \in 1 .. n - 1 : K[i] = K[j] => i = j
  BY <1>1, <1>3, <1>4
<1>9. (IF p = 1 THEN next[L[p]] ELSE head) = IF n - 1 = 0 THEN NULL ELSE K[1]
  <2>1. CASE n = 1
    BY <1>1, <2>1
  <2>2. CASE n # 1
    <3>1. K[1] = L[at(1)] /\ 1 \in 1 .. n /\ (p = 1 => at(1) = 2) /\ (p # 1 => at(1) = 1)
      BY <1>3, <2>2
    <3> QED
      BY <1>1, <2>2, <3>1
  <2> QED
    BY <2>1, <2>2
<1>10. ASSUME NEW i \in 1 .. n - 1
       PROVE  later[K[i]] = IF i = n - 1 THEN NULL ELSE K[i + 1]
  <2>1. K[i] = L[at(i)] /\ at(i) \in 1 .. n /\ at(i) # p
    BY <1>3
  <2>2. later[K[i]] = IF at(i) = p - 1 THEN next[L[p]] ELSE next[L[at(i)]]
    BY <2>1
  <2>3. i # n - 1 => K[i + 1] = L[at(i + 1)] /\ i + 1 \in 1 .. n - 1
    BY <1>3
  <2>4. CASE at(i) = p - 1
    <3>1. i = p - 1 /\ (i # n - 1 => at(i + 1) = p + 1)
      BY <2>4
    <3> QED
      BY <1>1, <2>2, <2>3, <2>4, <3>1
  <2>5. CASE at(i) # p - 1
    <3>1. /\ (at(i) = n) <=> (i = n - 1)
          /\ i # n - 1 => at(i + 1) = at(i) + 1
      BY <2>5
    <3> QED
      BY <1>1, <2>1, <2>2, <2>3, <2>5, <3>1
  <2> QED
    BY <2>4, <2>5
<1>11. NULL \notin elements \ {L[p]}
  BY <1>1
<1> HIDE DEF at
<1>12. IsChain(K, n - 1, elements \ {L[p]}, IF p = 1 THEN next[L[p]] ELSE head, later)
  BY <1>2, <1>5, <1>7, <1>8, <1>9, <1>10, <1>11 DEF IsChain
<1> QED
  BY <1>12 DEF K

\* Following the links from the head ...
Walk(f, head, next) ==
  f = [k \in Nat |-> IF k = 0 THEN head
                     ELSE IF f[k - 1] = NULL THEN NULL ELSE next[f[k - 1]]]

Follows(f, n, elements, head, next) ==
  /\ f[0] = head
  /\ \A k \in 1 .. n : f[k - 1] \in elements => f[k] = next[f[k - 1]]
  /\ \A k \in 1 .. n : f[k - 1] = NULL => f[k] = NULL

\* ... visits the elements and then ends: ...
Visits(f, n, elements) ==
  /\ \A k \in 0 .. n - 1 : f[k] \in elements
  /\ \A e \in elements : \E k \in 0 .. n - 1 : f[k] = e
  /\ f[n] = NULL

\* ... one function does so, ...
LEMMA ChainWalk ==
  ASSUME NEW elements, NEW head, NEW next, NEW n \in Nat, NEW L,
         IsChain(L, n, elements, head, next)
  PROVE  \E w : /\ Walk(w, head, next)
                /\ \A k \in Nat : w[k] \in elements \cup {NULL}
                /\ Visits(w, n, elements)
PROOF
<1> DEFINE w == [k \in Nat |-> IF k < n THEN L[k + 1] ELSE NULL]
           step(k) == IF k = 0 THEN head
                      ELSE IF w[k - 1] = NULL THEN NULL ELSE next[w[k - 1]]
<1>1. /\ L \in [1 .. n -> elements] /\ NULL \notin elements
      /\ \A e \in elements : \E i \in 1 .. n : L[i] = e
      /\ head = IF n = 0 THEN NULL ELSE L[1]
      /\ \A i \in 1 .. n : next[L[i]] = IF i = n THEN NULL ELSE L[i + 1]
  BY DEF IsChain
<1>2. \A k \in Nat : w[k] = IF k < n THEN L[k + 1] ELSE NULL
  OBVIOUS
<1>3. \A k \in 0 .. n - 1 : k \in Nat /\ w[k] = L[k + 1] /\ k + 1 \in 1 .. n
  BY <1>2
<1>4. \A k \in 0 .. n - 1 : w[k] \in elements
  BY <1>1, <1>3
<1>5. w[n] = NULL
  BY <1>2
<1>6. ASSUME NEW k \in Nat PROVE w[k] = step(k)
  <2>1. CASE k = 0
    BY <1>1, <1>2, <2>1
  <2>2. CASE k # 0
    <3>1. k - 1 \in Nat
      BY <2>2
    <3>2. CASE k - 1 >= n
      <4>1. w[k - 1] = NULL /\ w[k] = NULL
        BY <1>2, <3>1, <3>2
      <4> QED
        BY <2>2, <4>1
    <3>3. CASE k - 1 < n
      <4>1. k \in 1 .. n /\ w[k - 1] = L[k] /\ L[k] \in elements /\ L[k] # NULL
        <5>1. k \in 1 .. n /\ (k - 1) + 1 = k
          BY <2>2, <3>3
        <5> QED
          BY <1>1, <1>2, <3>1, <3>3, <5>1
      <4>2. step(k) = IF k = n THEN NULL ELSE L[k + 1]
        BY <1>1, <2>2, <4>1
      <4> QED
        BY <1>2, <4>1, <4>2
    <3> QED
      BY <3>1, <3>2, <3>3
  <2> QED
    BY <2>1, <2>2
<1>7. w = [k \in Nat |-> step(k)]
  <2>1. w = [k \in Nat |-> w[k]]
    OBVIOUS
  <2> HIDE DEF w, step
  <2> QED
    BY <1>6, <2>1
<1>8. \A k \in Nat : w[k] \in elements \cup {NULL}
  BY <1>2, <1>4
<1>9. ASSUME NEW e \in elements PROVE \E k \in 0 .. n - 1 : w[k] = e
  <2>1. PICK i \in 1 .. n : L[i] = e
    BY <1>1
  <2>2. i - 1 \in 0 .. n - 1 /\ (i - 1) + 1 = i
    OBVIOUS
  <2> QED
    BY <1>3, <2>1, <2>2
<1>10. Walk(w, head, next)
  BY <1>7 DEF Walk
<1> HIDE DEF w
<1>11. Visits(w, n, elements)
  BY <1>4, <1>5, <1>9 DEF Visits
<1> QED
  BY <1>8, <1>10, <1>11

\* ... and every function that follows the links does the same.
LEMMA ChainNth ==
  ASSUME NEW elements, NEW head, NEW next, NEW n \in Nat, NEW L,
         IsChain(L, n, elements, head, next),
         NEW f, Follows(f, n, elements, head, next)
  PROVE  Visits(f, n, elements)
PROOF
<1>1. PICK w : /\ Walk(w, head, next)
               /\ \A k \in Nat : w[k] \in elements \cup {NULL}
               /\ Visits(w, n, elements)
  BY ChainWalk
<1>2. f[0] = w[0]
  <2>1. w[0] = head
    BY <1>1 DEF Walk
  <2> QED
    BY <2>1 DEF Follows
<1>3. ASSUME NEW k \in 1 .. n, f[k - 1] = w[k - 1] PROVE f[k] = w[k]
  <2>1. k \in Nat /\ k # 0 /\ k - 1 \in Nat
    OBVIOUS
  <2>2. w[k] = IF w[k - 1] = NULL THEN NULL ELSE next[w[k - 1]]
    BY <1>1, <2>1 DEF Walk
  <2>3. w[k - 1] \in elements \cup {NULL}
    BY <1>1, <2>1
  <2> QED
    BY <1>3, <2>2, <2>3 DEF Follows
<1>4. \A k \in 0 .. n : f[k] = w[k]
  BY <1>2, <1>3, StepByStep
<1>5. \A k \in 0 .. n - 1 : k \in 0 .. n
  OBVIOUS
<1>6. n \in 0 .. n
  OBVIOUS
<1>7. \A k \in 0 .. n - 1 : f[k] = w[k]
  BY <1>4, <1>5
<1> QED
  BY <1>1, <1>4, <1>6, <1>7 DEF Visits

\* The head is taken out of a list.
LEMMA ChainPop ==
  ASSUME NEW elements, NEW head, NEW next, HasChain(elements, head, next), head # NULL,
         NEW later, \A x \in elements \ {head} : later[x] = next[x]
  PROVE  head \in elements /\ HasChain(elements \ {head}, next[head], later)
PROOF
<1>1. PICK n \in Nat : \E L \in [1 .. n -> elements] : IsChain(L, n, elements, head, next)
  BY DEF HasChain
<1>2. PICK L \in [1 .. n -> elements] : IsChain(L, n, elements, head, next)
  BY <1>1
<1>3. n # 0 /\ head = L[1]
  BY <1>2 DEF IsChain
<1>4. 1 \in 1 .. n /\ n - 1 \in Nat
  BY <1>3
<1>5. ASSUME NEW i \in 1 .. n, i # 1
      PROVE  later[L[i]] = IF i = 1 - 1 THEN next[L[1]] ELSE next[L[i]]
  BY <1>2, <1>3, <1>5 DEF IsChain
<1> DEFINE K == [i \in 1 .. n - 1 |-> IF i < 1 THEN L[i] ELSE L[i + 1]]
<1>6. IsChain(K, n - 1, elements \ {L[1]}, IF 1 = 1 THEN next[L[1]] ELSE head, later)
  BY <1>2, <1>4, <1>5, ChainRemove
<1> HIDE DEF K
<1>7. IsChain(K, n - 1, elements \ {head}, next[head], later)
  BY <1>3, <1>6
<1>8. K \in [1 .. n - 1 -> elements \ {head}]
  BY <1>7 DEF IsChain
<1> QED
  BY <1>3, <1>4, <1>7, <1>8 DEF HasChain

\* The bytes of a block.
LEMMA BlockBytes ==
  ASSUME NEW a \in Nat, NEW n \in Nat, n > 0
  PROVE  IsFiniteSet(a .. a + n - 1) /\ Cardinality(a .. a + n - 1) = n
PROOF
<1>1. PICK hi \in Int : hi = a + n - 1
  OBVIOUS
<1>2. a \in Int /\ ~(a > hi) /\ hi - a + 1 = n
  BY <1>1
<1>3. IsFiniteSet(a .. hi) /\ Cardinality(a .. hi) = IF a > hi THEN 0 ELSE hi - a + 1
  BY <1>2, FS_Interval
<1> QED
  BY <1>1, <1>2, <1>3

(***************************************************************************)
(* Sums.  SumFunction folds in the order of CHOOSE; the sums of the parts  *)
(* of a finite set, g, are those of any order.  Facts about all parts are  *)
(* shown with a smallest part in place of an induction.                    *)
(***************************************************************************)
Pick(s) == CHOOSE x \in s : TRUE

Adds(g, f, D) ==
  \A s \in SUBSET D :
    g[s] = IF s = {} THEN 0 ELSE f[Pick(s)] + g[s \ {Pick(s)}]

\* Taking an element away.
LEMMA OneLess ==
  ASSUME NEW s, IsFiniteSet(s), NEW x \in s
  PROVE  /\ IsFiniteSet(s \ {x}) /\ Cardinality(s) \in Nat \ {0}
         /\ Cardinality(s \ {x}) \in Nat /\ Cardinality(s \ {x}) = Cardinality(s) - 1
BY FS_RemoveElement, FS_CardinalityType, FS_EmptySet

LEMMA PartOfFinite ==
  ASSUME NEW D, IsFiniteSet(D), NEW s \in SUBSET D
  PROVE  /\ IsFiniteSet(s) /\ Cardinality(s) \in Nat
         /\ s = {} <=> Cardinality(s) = 0
         /\ s # {} => /\ Pick(s) \in s /\ s \ {Pick(s)} \in SUBSET D
                      /\ Cardinality(s \ {Pick(s)}) = Cardinality(s) - 1
PROOF
<1>1. IsFiniteSet(s) /\ Cardinality(s) \in Nat
  BY FS_Subset, FS_CardinalityType
<1>2. s = {} <=> Cardinality(s) = 0
  BY <1>1, FS_EmptySet
<1>3. s # {} => Pick(s) \in s
  BY DEF Pick
<1> QED
  BY <1>1, <1>2, <1>3, OneLess

\* The sums of the parts of a finite set exist.
LEMMA SumsExist ==
  ASSUME NEW D, IsFiniteSet(D), NEW f \in [D -> Int]
  PROVE  \E g \in [SUBSET D -> Int] : Adds(g, f, D)
PROOF
<1> DEFINE Up(n, g) ==
      \A s \in SUBSET D : Cardinality(s) <= n =>
        g[s] = IF s = {} THEN 0 ELSE f[Pick(s)] + g[s \ {Pick(s)}]
           T == {n \in Nat : ~ \E g \in [SUBSET D -> Int] : Up(n, g)}
<1>1. T = {}
  <2> SUFFICES ASSUME T # {} PROVE FALSE
    OBVIOUS
  <2>1. PICK n \in T : \A y \in T : n <= y
    BY Least
  <2>2. n # 0
    <3> DEFINE g == [s \in SUBSET D |-> 0]
    <3>1. g \in [SUBSET D -> Int]
      OBVIOUS
    <3>2. ASSUME NEW s \in SUBSET D, Cardinality(s) <= 0 PROVE s = {} /\ g[s] = 0
      <4>1. Cardinality(s) \in Nat /\ (s = {} <=> Cardinality(s) = 0)
        <5> HIDE DEF T, g
        <5> QED
          BY PartOfFinite
      <4>2. s = {}
        <5>1. \A c \in Nat : c <= 0 => c = 0
          OBVIOUS
        <5>2. Cardinality(s) = 0
          <6> HIDE DEF T, g
          <6> QED
            BY <3>2, <4>1, <5>1
        <5> QED
          BY <4>1, <5>2
      <4> QED
        BY <4>2
    <3>3. Up(0, g)
      BY <3>2
    <3>4. 0 \notin T
      <4> HIDE DEF Up, g
      <4> QED
        BY <3>1, <3>3
    <3> QED
      BY <2>1, <3>4
  <2>3. n - 1 \in Nat /\ n - 1 \notin T
    <3>1. n \in Nat
      OBVIOUS
    <3> HIDE DEF T
    <3> QED
      BY <3>1, <2>1, <2>2
  <2>4. PICK g \in [SUBSET D -> Int] : Up(n - 1, g)
    BY <2>3
  <2> DEFINE h == [s \in SUBSET D |-> IF Cardinality(s) <= n - 1 THEN g[s]
                                      ELSE f[Pick(s)] + g[s \ {Pick(s)}]]
  <2>5. ASSUME NEW s \in SUBSET D
        PROVE  h[s] \in Int /\ (Cardinality(s) <= n =>
                  h[s] = IF s = {} THEN 0 ELSE f[Pick(s)] + h[s \ {Pick(s)}])
    <3>1. Cardinality(s) \in Nat /\ n \in Nat \ {0} /\ (s = {} <=> Cardinality(s) = 0)
      BY <2>2, PartOfFinite
    <3>2. CASE s = {}
      <4>1. Cardinality(s) <= n - 1
        BY <3>1, <3>2
      <4>2. h[s] = g[s] /\ g[s] = 0
        BY <4>1, <3>2, <2>4
      <4> QED
        BY <4>2, <3>2
    <3>3. CASE s # {}
      <4>1. /\ Pick(s) \in D /\ s \ {Pick(s)} \in SUBSET D
            /\ Cardinality(s \ {Pick(s)}) = Cardinality(s) - 1
        BY <3>3, PartOfFinite
      <4>2. PICK p, q : p = Pick(s) /\ q = s \ {Pick(s)}
        OBVIOUS
      <4>3. p \in D /\ q \in SUBSET D /\ Cardinality(q) = Cardinality(s) - 1
        BY <4>1, <4>2
      <4>4. f[p] \in Int /\ g[q] \in Int /\ g[s] \in Int
        BY <4>3
      <4>5. h[s] = (IF Cardinality(s) <= n - 1 THEN g[s] ELSE f[p] + g[q])
            /\ h[q] = (IF Cardinality(q) <= n - 1 THEN g[q]
                       ELSE f[Pick(q)] + g[q \ {Pick(q)}])
        BY <4>2, <4>3
      <4>6. Cardinality(s) <= n - 1 => g[s] = f[p] + g[q]
        BY <2>4, <3>3, <4>2
      <4> HIDE DEF h
      <4>7. Cardinality(s) <= n => h[s] = f[p] + h[q]
        BY <3>1, <4>3, <4>4, <4>5, <4>6
      <4>8. h[s] \in Int
        BY <4>4, <4>5
      <4> QED
        BY <3>3, <4>2, <4>7, <4>8
    <3> QED
      BY <3>2, <3>3
  <2>6. h \in [SUBSET D -> Int] /\ Up(n, h)
    <3>1. \A s \in SUBSET D : h[s] \in Int
      BY <2>5
    <3>2. Up(n, h)
      BY <2>5
    <3> QED
      BY <3>1, <3>2
  <2> QED
    BY <2>1, <2>6
<1>2. Cardinality(D) \in Nat /\ Cardinality(D) \notin T
  BY <1>1, FS_CardinalityType
<1>3. PICK g \in [SUBSET D -> Int] : Up(Cardinality(D), g)
  BY <1>2
<1>4. ASSUME NEW s \in SUBSET D PROVE Cardinality(s) <= Cardinality(D)
  BY FS_Subset
<1> QED
  BY <1>3, <1>4 DEF Adds

AddsInAnyOrder(g, f, D) ==
  \A s \in SUBSET D : \A x \in s : g[s] = f[x] + g[s \ {x}]

\* They do not depend on the order.
LEMMA SumsCommute ==
  ASSUME NEW D, IsFiniteSet(D), NEW f \in [D -> Int], NEW g \in [SUBSET D -> Int],
         Adds(g, f, D)
  PROVE  AddsInAnyOrder(g, f, D)
PROOF
<1> DEFINE T == {n \in Nat : \E s \in SUBSET D : \E x \in s :
                               Cardinality(s) = n /\ g[s] # f[x] + g[s \ {x}]}
<1>1. T = {}
  <2> SUFFICES ASSUME T # {} PROVE FALSE
    OBVIOUS
  <2>1. PICK n \in T : \A y \in T : n <= y
    BY Least
  <2>2. PICK s \in SUBSET D : \E x \in s : Cardinality(s) = n /\ g[s] # f[x] + g[s \ {x}]
    OBVIOUS
  <2>0. PICK x \in s : Cardinality(s) = n /\ g[s] # f[x] + g[s \ {x}]
    BY <2>2
  <2>3. PICK y : y = Pick(s)
    OBVIOUS
  <2>4. y \in s /\ IsFiniteSet(s) /\ x \in D /\ y \in D
    <3>1. IsFiniteSet(s) /\ (s # {} => Pick(s) \in s)
      BY PartOfFinite
    <3> QED
      BY <2>3, <3>1
  <2>5. g[s] = f[y] + g[s \ {y}]
    BY <2>3 DEF Adds
  <2>6. x # y
    BY <2>0, <2>5
  <2> DEFINE a == s \ {x}
             b == s \ {y}
             c == s \ {x, y}
  <2>7. a \in SUBSET D /\ b \in SUBSET D /\ c \in SUBSET D /\ y \in a /\ x \in b
        /\ a \ {y} = c /\ b \ {x} = c
    BY <2>4, <2>6
  <2>8. Cardinality(a) \in Nat /\ Cardinality(a) < n /\ Cardinality(b) \in Nat /\ Cardinality(b) < n
    <3>1. n \in Nat /\ Cardinality(s) = n /\ x \in s
      BY <2>0
    <3> HIDE DEF T
    <3>2. Cardinality(s \ {x}) \in Nat /\ Cardinality(s \ {x}) = n - 1
      BY <2>4, <3>1, OneLess
    <3>3. Cardinality(s \ {y}) \in Nat /\ Cardinality(s \ {y}) = n - 1
      BY <2>4, <3>1, OneLess
    <3> QED
      BY <3>1, <3>2, <3>3
  <2>9. Cardinality(a) \notin T /\ Cardinality(b) \notin T
    <3>1. n \in Nat
      OBVIOUS
    <3> HIDE DEF T, a, b
    <3> QED
      BY <2>1, <2>8, <3>1
  <2>10. g[a] = f[y] + g[c] /\ g[b] = f[x] + g[c]
    <3>1. \A d \in SUBSET D : \A z \in d :
            Cardinality(d) \in Nat /\ Cardinality(d) \notin T => g[d] = f[z] + g[d \ {z}]
      OBVIOUS
    <3>2. g[a] = f[y] + g[a \ {y}] /\ g[b] = f[x] + g[b \ {x}]
      <4> HIDE DEF T, a, b, c
      <4> QED
        BY <2>7, <2>8, <2>9, <3>1
    <3> QED
      BY <2>7, <3>2
  <2>11. g[a] \in Int /\ g[b] \in Int /\ g[c] \in Int /\ f[x] \in Int /\ f[y] \in Int
    BY <2>4, <2>7
  <2> HIDE DEF a, b, c
  <2>12. f[y] + g[b] = f[x] + g[a]
    BY <2>10, <2>11
  <2> QED
    BY <2>0, <2>5, <2>12 DEF a, b
<1> SUFFICES ASSUME NEW s \in SUBSET D, NEW x \in s PROVE g[s] = f[x] + g[s \ {x}]
  BY DEF AddsInAnyOrder
<1>2. Cardinality(s) \in Nat /\ Cardinality(s) \notin T
  BY <1>1, PartOfFinite
<1> QED
  BY <1>2

\* They depend on nothing but the values of the elements.
LEMMA SumsUnique ==
  ASSUME NEW D, IsFiniteSet(D), NEW R \in SUBSET D, NEW f, NEW e,
         \A x \in R : f[x] = e[x],
         NEW g, NEW h, Adds(g, f, D), Adds(h, e, R)
  PROVE  \A s \in SUBSET R : g[s] = h[s]
PROOF
<1> DEFINE T == {n \in Nat : \E s \in SUBSET R : Cardinality(s) = n /\ g[s] # h[s]}
<1>1. ASSUME NEW s \in SUBSET R
      PROVE  /\ s \in SUBSET D /\ Cardinality(s) \in Nat
             /\ s # {} => /\ Pick(s) \in R /\ s \ {Pick(s)} \in SUBSET R
                          /\ Cardinality(s \ {Pick(s)}) \in Nat
                          /\ Cardinality(s \ {Pick(s)}) < Cardinality(s)
  <2>1. s \in SUBSET D
    OBVIOUS
  <2>2. /\ IsFiniteSet(s) /\ Cardinality(s) \in Nat
        /\ s # {} => /\ Pick(s) \in s /\ Cardinality(s \ {Pick(s)}) = Cardinality(s) - 1
    BY <2>1, PartOfFinite
  <2>3. s # {} => Cardinality(s \ {Pick(s)}) \in Nat
    BY <2>2, OneLess
  <2> QED
    BY <2>1, <2>2, <2>3
<1>2. T = {}
  <2> SUFFICES ASSUME T # {} PROVE FALSE
    OBVIOUS
  <2>1. PICK n \in T : \A y \in T : n <= y
    BY Least
  <2>2. PICK s \in SUBSET R : Cardinality(s) = n /\ g[s] # h[s]
    OBVIOUS
  <2>3. s # {}
    BY <1>1, <2>2 DEF Adds
  <2>4. PICK p, q : p = Pick(s) /\ q = s \ {Pick(s)}
    OBVIOUS
  <2>5. p \in R /\ q \in SUBSET R /\ Cardinality(q) \in Nat /\ Cardinality(q) < n
    BY <1>1, <2>2, <2>3, <2>4
  <2>6. Cardinality(q) \notin T
    <3>1. n \in Nat
      OBVIOUS
    <3> HIDE DEF T
    <3> QED
      BY <2>1, <2>5, <3>1
  <2>7. g[q] = h[q]
    BY <2>5, <2>6
  <2>8. s \in SUBSET D
    OBVIOUS
  <2>9. g[s] = f[p] + g[q] /\ h[s] = e[p] + h[q]
    BY <2>3, <2>4, <2>8 DEF Adds
  <2> QED
    BY <2>2, <2>5, <2>7, <2>9
<1> SUFFICES ASSUME NEW s \in SUBSET R PROVE g[s] = h[s]
  OBVIOUS
<1>3. Cardinality(s) \in Nat /\ Cardinality(s) \notin T
  BY <1>1, <1>2
<1> QED
  BY <1>3

\* SumFunction is such a sum.
LEMMA SumIs ==
  ASSUME NEW D, IsFiniteSet(D), NEW f \in [D -> Int]
  PROVE  \E g \in [SUBSET D -> Int] : Adds(g, f, D) /\ SumFunction(f) = g[D]
PROOF
<1> DEFINE Rec(g) == [s \in SUBSET D |-> IF s = {} THEN 0
                        ELSE f[CHOOSE x \in s : TRUE] + g[s \ {CHOOSE x \in s : TRUE}]]
           g == CHOOSE g : g = Rec(g)
<1>1. SumFunction(f) = g[D]
  <2>1. DOMAIN f = D
    OBVIOUS
  <2> QED
    BY <2>1, Zenon DEF SumFunction, SumFunctionOnSet, FoldFunctionOnSet, MapThenFoldSet
<1>2. PICK h \in [SUBSET D -> Int] : Adds(h, f, D)
  BY SumsExist
<1>3. h = Rec(h)
  BY <1>2 DEF Adds, Pick
<1>4. g = Rec(g)
  <2> HIDE DEF Rec
  <2> QED
    BY <1>3
<1>5. Adds(g, f, D)
  <2> HIDE DEF g
  <2> SUFFICES ASSUME NEW s \in SUBSET D
               PROVE  g[s] = IF s = {} THEN 0 ELSE f[Pick(s)] + g[s \ {Pick(s)}]
    BY DEF Adds
  <2>1. g[s] = Rec(g)[s]
    BY <1>4
  <2> QED
    BY <2>1 DEF Pick
<1>6. g = [s \in SUBSET D |-> g[s]]
  <2> HIDE DEF g
  <2> QED
    BY <1>4
<1> HIDE DEF g
<1>7. \A s \in SUBSET D : g[s] = h[s]
  BY <1>2, <1>5, SumsUnique
<1>8. g \in [SUBSET D -> Int]
  BY <1>6, <1>7
<1> QED
  BY <1>1, <1>5, <1>8

LEMMA SumOfNone ==
  ASSUME NEW f, f = [x \in {} |-> f[x]]
  PROVE  SumFunction(f) = 0
PROOF
<1>1. f \in [{} -> Int] /\ IsFiniteSet({})
  BY FS_EmptySet
<1>2. PICK g \in [SUBSET {} -> Int] : Adds(g, f, {}) /\ SumFunction(f) = g[{}]
  BY <1>1, SumIs
<1> QED
  BY <1>2 DEF Adds

\* e is f without x.
Without(e, f, D, x) ==
  e \in [D \ {x} -> Int] /\ \A y \in D \ {x} : e[y] = f[y]

\* One element more adds its value.
LEMMA SumOfMore ==
  ASSUME NEW D, IsFiniteSet(D), NEW f \in [D -> Int], NEW x \in D, NEW e, Without(e, f, D, x)
  PROVE  /\ SumFunction(f) \in Int /\ SumFunction(e) \in Int
         /\ SumFunction(f) = f[x] + SumFunction(e)
PROOF
<1>1. IsFiniteSet(D \ {x}) /\ D \ {x} \in SUBSET D
  BY FS_Subset
<1> e \in [D \ {x} -> Int] /\ \A y \in D \ {x} : e[y] = f[y]
  BY DEF Without
<1>2. PICK g \in [SUBSET D -> Int] : Adds(g, f, D) /\ SumFunction(f) = g[D]
  BY SumIs
<1>3. PICK h \in [SUBSET (D \ {x}) -> Int] :
        Adds(h, e, D \ {x}) /\ SumFunction(e) = h[D \ {x}]
  BY <1>1, SumIs
<1>4. \A s \in SUBSET (D \ {x}) : g[s] = h[s]
  BY <1>1, <1>2, <1>3, SumsUnique
<1>5. g[D] = f[x] + g[D \ {x}]
  <2>1. AddsInAnyOrder(g, f, D)
    BY <1>2, SumsCommute
  <2> QED
    BY <2>1 DEF AddsInAnyOrder
<1> QED
  BY <1>2, <1>3, <1>4, <1>5

\* Z is a family of disjoint sets, f gives their sizes.
DisjointSets(Z, f, D) ==
  /\ \A x \in D : IsFiniteSet(Z[x]) /\ f[x] = Cardinality(Z[x])
  /\ \A x, y \in D : x # y => Z[x] \cap Z[y] = {}

\* They have as many elements together as the sum of their sizes.
LEMMA SumOfSizes ==
  ASSUME NEW D, IsFiniteSet(D), NEW Z, NEW f \in [D -> Int], DisjointSets(Z, f, D)
  PROVE  /\ IsFiniteSet(UNION {Z[x] : x \in D})
         /\ Cardinality(UNION {Z[x] : x \in D}) = SumFunction(f)
PROOF
<1> DEFINE U(s) == UNION {Z[x] : x \in s}
<1>1. PICK g \in [SUBSET D -> Int] : Adds(g, f, D) /\ SumFunction(f) = g[D]
  BY SumIs
<1> DEFINE T == {n \in Nat : \E s \in SUBSET D :
                   Cardinality(s) = n /\ ~(IsFiniteSet(U(s)) /\ Cardinality(U(s)) = g[s])}
<1>2. T = {}
  <2> SUFFICES ASSUME T # {} PROVE FALSE
    OBVIOUS
  <2>1. PICK n \in T : \A y \in T : n <= y
    BY Least
  <2>2. PICK s \in SUBSET D : /\ Cardinality(s) = n
                              /\ ~(IsFiniteSet(U(s)) /\ Cardinality(U(s)) = g[s])
    OBVIOUS
  <2>3. s # {}
    <3> SUFFICES ASSUME s = {} PROVE FALSE
      OBVIOUS
    <3>1. U(s) = {}
      OBVIOUS
    <3>2. g[s] = 0
      BY <1>1 DEF Adds
    <3> QED
      BY <2>2, <3>1, <3>2, FS_EmptySet
  <2>4. PICK p \in s : TRUE
    BY <2>3
  <2>5. PICK q : q = s \ {p}
    OBVIOUS
  <2>6. q \in SUBSET D /\ p \in D /\ IsFiniteSet(s) /\ Cardinality(q) \in Nat /\ Cardinality(q) < n
    <3>1. IsFiniteSet(s)
      BY PartOfFinite
    <3>2. /\ Cardinality(s) \in Nat \ {0} /\ Cardinality(s \ {p}) \in Nat
          /\ Cardinality(s \ {p}) = Cardinality(s) - 1
      BY <3>1, OneLess
    <3> QED
      BY <2>2, <2>5, <3>1, <3>2
  <2>7. Cardinality(q) \notin T
    <3>1. n \in Nat
      OBVIOUS
    <3> HIDE DEF T
    <3> QED
      BY <2>1, <2>6, <3>1
  <2>8. IsFiniteSet(U(q)) /\ Cardinality(U(q)) = g[q]
    BY <2>6, <2>7
  <2>9. g[s] = f[p] + g[q]
    <3>1. AddsInAnyOrder(g, f, D)
      BY <1>1, SumsCommute
    <3> QED
      BY <2>5, <3>1 DEF AddsInAnyOrder
  <2>10. U(s) = U(q) \cup Z[p] /\ U(q) \cap Z[p] = {}
    <3>1. U(s) = U(q) \cup Z[p]
      BY <2>5
    <3>2. ASSUME NEW z \in U(q) PROVE z \notin Z[p]
      <4>1. PICK x \in q : z \in Z[x]
        OBVIOUS
      <4>2. x \in D /\ x # p /\ p \in D
        BY <2>5, <2>6
      <4> QED
        BY <4>1, <4>2 DEF DisjointSets
    <3> QED
      BY <3>1, <3>2
  <2>11. IsFiniteSet(Z[p]) /\ f[p] = Cardinality(Z[p]) /\ f[p] \in Int /\ g[q] \in Int
    BY <2>6 DEF DisjointSets
  <2>12. /\ IsFiniteSet(U(q) \cup Z[p])
         /\ Cardinality(U(q) \cup Z[p])
              = Cardinality(U(q)) + Cardinality(Z[p]) - Cardinality(U(q) \cap Z[p])
    <3> HIDE DEF U
    <3> QED
      BY <2>8, <2>11, FS_Union
  <2>13. Cardinality(U(q) \cap Z[p]) = 0
    BY <2>10, FS_EmptySet
  <2> HIDE DEF U, T
  <2>14. Cardinality(U(s)) = g[q] + f[p]
    BY <2>8, <2>10, <2>11, <2>12, <2>13
  <2> QED
    BY <2>2, <2>9, <2>10, <2>11, <2>12, <2>14
<1>3. D \in SUBSET D /\ Cardinality(D) \in Nat /\ Cardinality(D) \notin T
  BY <1>2, FS_CardinalityType
<1>4. IsFiniteSet(U(D)) /\ Cardinality(U(D)) = g[D]
  BY <1>3
<1> QED
  BY <1>1, <1>4

(***************************************************************************)
(* Tilings.  s gives the blocks' sizes.                                    *)
(***************************************************************************)
Tiling(s, lo, hi) ==
  /\ DOMAIN s \subseteq lo .. hi - 1 /\ lo \in DOMAIN s
  /\ \A a \in DOMAIN s : /\ s[a] \in Nat /\ s[a] > 0
                         /\ a + s[a] \in DOMAIN s \cup {hi}
                         /\ \A c \in DOMAIN s : c > a => c >= a + s[a]

\* A block is cut in two.
LEMMA TilingSplit ==
  ASSUME NEW lo \in Nat, NEW hi \in Nat, NEW s, Tiling(s, lo, hi),
         NEW x \in DOMAIN s, NEW m \in Nat, m > 0, m < s[x],
         NEW t, DOMAIN t = DOMAIN s \cup {x + m}, t[x] = m, t[x + m] = s[x] - m,
         \A a \in DOMAIN s \ {x} : t[a] = s[a]
  PROVE  Tiling(t, lo, hi) /\ x + m \notin DOMAIN s
PROOF
<1>1. \A a \in DOMAIN s : a \in Nat /\ a >= lo /\ a < hi /\ s[a] \in Nat /\ s[a] > 0
  BY DEF Tiling
<1>2. /\ x + s[x] \in DOMAIN s \cup {hi}
      /\ \A c \in DOMAIN s : c > x => c >= x + s[x]
      /\ \A a, c \in DOMAIN s : c > a => c >= a + s[a]
      /\ \A a \in DOMAIN s : a + s[a] \in DOMAIN s \cup {hi}
      /\ lo \in DOMAIN s
  BY DEF Tiling
<1>3. x + m \notin DOMAIN s /\ x + m \in Nat /\ x + m > x /\ x + m < x + s[x] /\ x + s[x] <= hi
  BY <1>1, <1>2
<1>4. PICK y \in Nat : y = x + m
  BY <1>3
<1>5. ASSUME NEW a \in DOMAIN t
      PROVE  /\ a \in lo .. hi - 1 /\ t[a] \in Nat /\ t[a] > 0
             /\ a + t[a] \in DOMAIN t \cup {hi}
             /\ \A c \in DOMAIN t : c > a => c >= a + t[a]
  <2>1. CASE a = x
    BY <1>1, <1>2, <1>3, <1>4, <2>1
  <2>2. CASE a = y
    <3>1. a + t[a] = x + s[x]
      BY <1>1, <1>3, <1>4, <2>2
    <3> QED
      BY <1>1, <1>2, <1>3, <1>4, <2>2, <3>1
  <2>3. CASE a # x /\ a # y
    <3>1. a \in DOMAIN s /\ t[a] = s[a]
      BY <1>4, <2>3
    <3>2. y > a => y >= a + s[a]
      BY <1>1, <1>2, <1>3, <1>4, <2>3, <3>1
    <3> QED
      BY <1>1, <1>2, <1>4, <3>1, <3>2
  <2> QED
    BY <2>1, <2>2, <2>3
<1> QED
  BY <1>2, <1>3, <1>5 DEF Tiling

\* A block is joined with the one that follows it.
LEMMA TilingJoin ==
  ASSUME NEW lo \in Nat, NEW hi \in Nat, NEW s, Tiling(s, lo, hi),
         NEW x \in DOMAIN s, NEW y \in DOMAIN s, x + s[x] = y,
         NEW t, DOMAIN t = DOMAIN s \ {y}, t[x] = s[x] + s[y],
         \A a \in DOMAIN s \ {x, y} : t[a] = s[a]
  PROVE  Tiling(t, lo, hi) /\ x # y
PROOF
<1>1. \A a \in DOMAIN s : a \in Nat /\ a >= lo /\ a < hi /\ s[a] \in Nat /\ s[a] > 0
  BY DEF Tiling
<1>2. /\ \A a, c \in DOMAIN s : c > a => c >= a + s[a]
      /\ \A a \in DOMAIN s : a + s[a] \in DOMAIN s \cup {hi}
      /\ lo \in DOMAIN s
  BY DEF Tiling
<1>3. x < y /\ lo # y /\ x \in DOMAIN t
  BY <1>1
<1>4. x + t[x] = y + s[y]
  BY <1>1
<1>5. \A a \in DOMAIN s : a # x => a + s[a] # y
  <2> SUFFICES ASSUME NEW a \in DOMAIN s, a # x, a + s[a] = y PROVE FALSE
    OBVIOUS
  <2>1. CASE a < x
    BY <1>1, <1>2, <2>1
  <2>2. CASE a > x
    BY <1>1, <1>2, <2>2
  <2> QED
    BY <1>1, <2>1, <2>2
<1>6. ASSUME NEW a \in DOMAIN t
      PROVE  /\ a \in lo .. hi - 1 /\ t[a] \in Nat /\ t[a] > 0
             /\ a + t[a] \in DOMAIN t \cup {hi}
             /\ \A c \in DOMAIN t : c > a => c >= a + t[a]
  <2>1. CASE a = x
    <3>1. y + s[y] \in DOMAIN t \cup {hi} /\ t[x] \in Nat /\ t[x] > 0
      BY <1>1, <1>2
    <3>2. \A c \in DOMAIN t : c > x => c > y /\ c >= y + s[y]
      BY <1>1, <1>2
    <3> QED
      BY <1>1, <1>4, <2>1, <3>1, <3>2
  <2>2. CASE a # x
    <3>1. a \in DOMAIN s /\ t[a] = s[a] /\ a + s[a] # y
      BY <1>5, <2>2
    <3> QED
      BY <1>1, <1>2, <3>1
  <2> QED
    BY <2>1, <2>2
<1> QED
  BY <1>2, <1>3, <1>6 DEF Tiling

(***************************************************************************)
(* Sorted lists.  free is the set of the listed addresses.                 *)
(***************************************************************************)
\* x is the first of them at or behind a.
IsFirst(x, free, a) ==
  \/ x = NULL /\ \A f \in free : f < a
  \/ x \in free /\ x >= a /\ \A f \in free : f >= a => f >= x

Sorted(free, head, next, lo) ==
  /\ free \subseteq Nat \ {NULL}
  /\ \A f \in free : f >= lo
  /\ IsFirst(head, free, lo)
  /\ \A f \in free : IsFirst(next[f], free, f + 1)

\* A search has come to cur, behind pre.
At(pre, cur, free, head, next) ==
  \/ pre = NULL /\ cur = head
  \/ pre \in free /\ cur = next[pre]

\* Only what is before cur leads there.
LEMMA OneWay ==
  ASSUME NEW lo \in Nat, NEW free, NEW head, NEW next, Sorted(free, head, next, lo),
         NEW pre, NEW cur \in free, At(pre, cur, free, head, next)
  PROVE  /\ \A f \in free : f # pre => next[f] # cur
         /\ pre # NULL => head # cur /\ pre < cur
PROOF
<1>1. /\ free \subseteq Nat /\ NULL \notin free /\ cur \in Nat
      /\ IsFirst(head, free, lo)
      /\ \A f \in free : IsFirst(next[f], free, f + 1) /\ f >= lo
  BY DEF Sorted
<1>2. CASE pre = NULL /\ cur = head
  <2>1. \A f \in free : cur <= f
    BY <1>1, <1>2 DEF IsFirst
  <2>2. \A f \in free : next[f] # cur
    BY <1>1, <2>1 DEF IsFirst
  <2> QED
    BY <1>2, <2>2
<1>3. CASE pre \in free /\ cur = next[pre]
  <2>1. pre < cur /\ \A f \in free : f > pre => f >= cur
    BY <1>1, <1>3 DEF IsFirst
  <2>2. ASSUME NEW f \in free, f # pre, next[f] = cur PROVE FALSE
    <3>1. CASE f < pre
      BY <1>1, <1>3, <2>1, <2>2, <3>1 DEF IsFirst
    <3>2. CASE f > pre
      BY <1>1, <1>3, <2>1, <2>2, <3>2 DEF IsFirst
    <3> QED
      BY <1>1, <1>3, <2>2, <3>1, <3>2
  <2>3. head # cur
    BY <1>1, <1>3, <2>1 DEF IsFirst
  <2> QED
    BY <1>1, <1>3, <2>1, <2>2, <2>3
<1> QED
  BY <1>2, <1>3 DEF At

\* cur is taken out.
LEMMA SortedRemove ==
  ASSUME NEW lo \in Nat, NEW free, NEW head, NEW next, Sorted(free, head, next, lo),
         NEW pre, NEW cur \in free, At(pre, cur, free, head, next),
         NEW later,
         \A f \in free \ {cur} : later[f] = IF f = pre THEN next[cur] ELSE next[f]
  PROVE  /\ Sorted(free \ {cur}, IF pre = NULL THEN next[cur] ELSE head, later, lo)
         /\ At(pre, next[cur], free \ {cur}, IF pre = NULL THEN next[cur] ELSE head, later)
PROOF
<1> DEFINE rest  == free \ {cur}
           first == IF pre = NULL THEN next[cur] ELSE head
<1>1. /\ free \subseteq Nat /\ NULL \notin free /\ cur \in Nat
      /\ IsFirst(head, free, lo)
      /\ \A f \in free : IsFirst(next[f], free, f + 1) /\ f >= lo
  BY DEF Sorted
<1>2. /\ \A f \in free : f # pre => next[f] # cur
      /\ pre # NULL => head # cur /\ pre < cur
  BY OneWay
<1>3. ASSUME NEW a \in Nat, NEW x, IsFirst(x, free, a), x # cur
      PROVE  IsFirst(x, rest, a)
  BY <1>1, <1>3 DEF IsFirst
<1>4. ASSUME NEW a \in Nat, IsFirst(cur, free, a)
      PROVE  IsFirst(next[cur], rest, a)
  <2>1. a <= cur /\ \A f \in free : f >= a => f >= cur
    BY <1>1, <1>4 DEF IsFirst
  <2>2. IsFirst(next[cur], free, cur + 1)
    BY <1>1
  <2>3. \A f \in rest : f >= a => f >= cur + 1
    BY <1>1, <2>1
  <2>4. CASE next[cur] = NULL
    <3>1. \A f \in free : f < cur + 1
      BY <1>1, <2>2, <2>4 DEF IsFirst
    <3>2. \A f \in rest : f < a
      BY <1>1, <2>3, <3>1
    <3> QED
      BY <2>4, <3>2 DEF IsFirst
  <2>5. CASE next[cur] # NULL
    <3>1. /\ next[cur] \in free /\ next[cur] >= cur + 1
          /\ \A f \in free : f >= cur + 1 => f >= next[cur]
      BY <2>2, <2>5 DEF IsFirst
    <3>2. next[cur] \in rest /\ next[cur] >= a
      <4>1. PICK y \in Nat : y = next[cur]
        BY <1>1, <3>1
      <4> QED
        BY <1>1, <2>1, <3>1, <4>1
    <3>3. \A f \in rest : f >= a => f >= next[cur]
      BY <2>3, <3>1
    <3> QED
      BY <3>2, <3>3 DEF IsFirst
  <2> QED
    BY <2>4, <2>5
<1>5. IsFirst(first, rest, lo)
  BY <1>1, <1>2, <1>3, <1>4 DEF At
<1>6. ASSUME NEW f \in rest PROVE IsFirst(later[f], rest, f + 1)
  <2>1. f + 1 \in Nat /\ f \in free /\ IsFirst(next[f], free, f + 1)
    BY <1>1
  <2>2. CASE f = pre
    <3>1. next[f] = cur /\ later[f] = next[cur]
      BY <1>1, <2>2 DEF At
    <3> QED
      BY <1>4, <2>1, <3>1
  <2>3. CASE f # pre
    <3>1. next[f] # cur /\ later[f] = next[f]
      BY <1>2, <2>1, <2>3
    <3> QED
      BY <1>3, <2>1, <3>1
  <2> QED
    BY <2>2, <2>3
<1>7. Sorted(rest, first, later, lo)
  BY <1>1, <1>5, <1>6 DEF Sorted
<1>8. At(pre, next[cur], rest, first, later)
  <2>1. CASE pre = NULL
    BY <2>1 DEF At
  <2>2. CASE pre # NULL
    <3>1. pre \in free /\ pre < cur
      BY <1>2, <2>2 DEF At
    <3>2. pre \in rest
      BY <1>1, <3>1
    <3>3. later[pre] = next[cur]
      BY <3>2
    <3> QED
      BY <3>2, <3>3 DEF At
  <2> QED
    BY <2>1, <2>2
<1> QED
  BY <1>7, <1>8

\* x is put between pre and cur.
LEMMA SortedInsert ==
  ASSUME NEW lo \in Nat, NEW free, NEW head, NEW next, Sorted(free, head, next, lo),
         NEW pre, NEW cur, At(pre, cur, free, head, next),
         NEW x \in Nat \ {NULL}, x \notin free, x >= lo,
         pre # NULL => pre < x, cur # NULL => x < cur,
         NEW later, later[x] = cur,
         \A f \in free : later[f] = IF f = pre THEN x ELSE next[f]
  PROVE  Sorted(free \cup {x}, IF pre = NULL THEN x ELSE head, later, lo)
PROOF
<1> DEFINE all   == free \cup {x}
           first == IF pre = NULL THEN x ELSE head
<1>1. /\ free \subseteq Nat /\ NULL \notin free
      /\ IsFirst(head, free, lo)
      /\ \A f \in free : IsFirst(next[f], free, f + 1) /\ f >= lo
  BY DEF Sorted
<1>2. CASE pre = NULL /\ cur = head
  <2>1. \A f \in free : f > x
    <3>1. CASE head = NULL
      <4>1. \A f \in free : f < lo /\ f >= lo /\ f \in Nat
        BY <1>1, <3>1 DEF IsFirst
      <4> QED
        BY <4>1
    <3>2. CASE head # NULL
      <4>1. head \in Nat /\ head > x /\ \A f \in free : f >= head /\ f \in Nat
        BY <1>1, <1>2, <3>2 DEF IsFirst
      <4> QED
        BY <4>1
    <3> QED
      BY <3>1, <3>2
  <2>2. IsFirst(x, all, lo)
    BY <1>1, <2>1 DEF IsFirst
  <2>3. IsFirst(cur, all, x + 1)
    <3>1. CASE head = NULL
      <4>1. \A f \in free : f < lo /\ f >= lo /\ f \in Nat
        BY <1>1, <3>1 DEF IsFirst
      <4>2. \A f \in all : f < x + 1
        BY <4>1
      <4> QED
        BY <1>2, <3>1, <4>2 DEF IsFirst
    <3>2. CASE head # NULL
      <4>1. head \in free /\ head \in Nat /\ head > x /\ \A f \in free : f >= head /\ f \in Nat
        BY <1>1, <1>2, <3>2 DEF IsFirst
      <4>2. head >= x + 1 /\ \A f \in all : f >= x + 1 => f >= head
        BY <4>1
      <4> QED
        BY <1>2, <4>1, <4>2 DEF IsFirst
    <3> QED
      BY <3>1, <3>2
  <2>4. ASSUME NEW f \in free PROVE IsFirst(later[f], all, f + 1)
    <3>1. later[f] = next[f] /\ IsFirst(next[f], free, f + 1)
      BY <1>1, <1>2
    <3> QED
      BY <1>1, <2>1, <3>1 DEF IsFirst
  <2>5. \A f \in all : f \in Nat \ {NULL} /\ f >= lo
    BY <1>1
  <2> QED
    BY <1>2, <2>2, <2>3, <2>4, <2>5 DEF Sorted
<1>3. CASE pre \in free /\ cur = next[pre]
  <2>1. pre < x /\ pre \in Nat /\ pre # NULL
    BY <1>1, <1>3
  <2>2. \A f \in free : f > pre => f > x
    <3>1. IsFirst(cur, free, pre + 1)
      BY <1>1, <1>3
    <3>2. CASE cur = NULL
      <4>1. \A f \in free : f < pre + 1 /\ f \in Nat
        BY <1>1, <3>1, <3>2 DEF IsFirst
      <4> QED
        BY <2>1, <4>1
    <3>3. CASE cur # NULL
      <4>1. cur \in Nat /\ cur > x /\ \A f \in free : f \in Nat /\ (f >= pre + 1 => f >= cur)
        BY <1>1, <3>1, <3>3 DEF IsFirst
      <4> QED
        BY <2>1, <4>1
    <3> QED
      BY <3>2, <3>3
  <2>3. IsFirst(head, all, lo)
    <3>1. head \in free /\ head <= pre
      BY <1>1, <1>3 DEF IsFirst
    <3> QED
      BY <1>1, <2>1, <3>1 DEF IsFirst
  <2>4. IsFirst(cur, all, x + 1)
    <3>1. IsFirst(cur, free, pre + 1)
      BY <1>1, <1>3
    <3>2. CASE cur = NULL
      <4>1. \A f \in free : f < pre + 1 /\ f \in Nat
        BY <1>1, <3>1, <3>2 DEF IsFirst
      <4>2. \A f \in all : f < x + 1
        BY <2>1, <4>1
      <4> QED
        BY <3>2, <4>2 DEF IsFirst
    <3>3. CASE cur # NULL
      <4>1. /\ cur \in free /\ cur \in Nat /\ cur > x
            /\ \A f \in free : f \in Nat /\ (f >= pre + 1 => f >= cur)
        BY <1>1, <3>1, <3>3 DEF IsFirst
      <4>2. cur >= x + 1 /\ \A f \in all : f >= x + 1 => f >= cur
        BY <2>1, <4>1
      <4> QED
        BY <4>1, <4>2 DEF IsFirst
    <3> QED
      BY <3>2, <3>3
  <2>5. IsFirst(x, all, pre + 1)
    BY <1>1, <2>1, <2>2 DEF IsFirst
  <2>6. ASSUME NEW f \in free, f # pre PROVE IsFirst(later[f], all, f + 1)
    <3>1. later[f] = next[f] /\ IsFirst(next[f], free, f + 1)
      BY <1>1, <2>6
    <3>2. CASE f < pre
      <4>1. /\ next[f] \in free /\ next[f] <= pre /\ next[f] >= f + 1
            /\ \A g \in free : g >= f + 1 => g >= next[f]
        <5>1. f \in Nat /\ pre >= f + 1
          BY <1>1, <2>1, <3>2
        <5>2. next[f] # NULL
          <6> SUFFICES ASSUME next[f] = NULL PROVE FALSE
            OBVIOUS
          <6>1. pre < f + 1
            BY <1>1, <1>3, <3>1 DEF IsFirst
          <6> QED
            BY <2>1, <5>1, <6>1
        <5> QED
          BY <1>3, <3>1, <5>1, <5>2 DEF IsFirst
      <4>2. x >= next[f]
        <5>1. next[f] \in Nat
          BY <1>1, <4>1
        <5> QED
          BY <2>1, <4>1, <5>1
      <4> QED
        BY <3>1, <4>1, <4>2 DEF IsFirst
    <3>3. CASE f > pre
      BY <1>1, <2>2, <3>1, <3>3 DEF IsFirst
    <3> QED
      BY <1>1, <2>1, <2>6, <3>2, <3>3
  <2>7. \A f \in all : f \in Nat \ {NULL} /\ f >= lo
    BY <1>1
  <2>8. later[pre] = x
    BY <1>3
  <2> QED
    BY <1>3, <2>1, <2>3, <2>4, <2>5, <2>6, <2>7, <2>8 DEF Sorted
<1> QED
  BY <1>2, <1>3 DEF At

\* x takes the place of cur.
LEMMA SortedReplace ==
  ASSUME NEW lo \in Nat, NEW free, NEW head, NEW next, Sorted(free, head, next, lo),
         NEW pre, NEW cur \in free, At(pre, cur, free, head, next),
         NEW x \in Nat \ {NULL}, x \notin free, x >= lo,
         pre # NULL => pre < x, next[cur] # NULL => x < next[cur],
         NEW later, later[x] = next[cur],
         \A f \in free \ {cur} : later[f] = IF f = pre THEN x ELSE next[f]
  PROVE  Sorted((free \ {cur}) \cup {x}, IF pre = NULL THEN x ELSE head, later, lo)
PROOF
<1> DEFINE rest  == free \ {cur}
           first == IF pre = NULL THEN next[cur] ELSE head
           mid   == [f \in rest |-> IF f = pre THEN next[cur] ELSE next[f]]
<1>1. \A f \in rest : mid[f] = IF f = pre THEN next[cur] ELSE next[f]
  OBVIOUS
<1> HIDE DEF mid
<1>2. Sorted(rest, first, mid, lo) /\ At(pre, next[cur], rest, first, mid)
  BY <1>1, SortedRemove
<1>3. x \notin rest /\ \A f \in rest : later[f] = IF f = pre THEN x ELSE mid[f]
  BY <1>1
<1> HIDE DEF rest, first
<1>4. Sorted(rest \cup {x}, IF pre = NULL THEN x ELSE first, later, lo)
  BY <1>2, <1>3, SortedInsert
<1> QED
  BY <1>4 DEF rest, first

(***************************************************************************)
(* The inductive invariant.                                                *)
(***************************************************************************)
BlockSizes == [a \in DOMAIN header |-> header[a].size]
BlockNexts == [a \in DOMAIN header |-> header[a].next]

BlocksOK ==
  /\ \A a \in DOMAIN header : header[a] \in F!BlockHeader /\ a % ALIGNMENT = 0
  /\ Tiling(BlockSizes, start, start + size)

ClientsOK ==
  /\ live \subseteq [ptr : Nat, len : Sizes, align : {ALIGNMENT}]
  /\ F!DataInsideBlocks
  /\ \A b, c \in live : F!HeaderOf(b) = F!HeaderOf(c) => b = c

\* No two free blocks touch, between calls and in the middle of one.
FreeOK ==
  /\ Sorted(F!FreeBlocks, free_list, BlockNexts, start)
  /\ \A f \in F!FreeBlocks : F!End(f) \notin F!FreeBlocks

SearchesAt == At(prev, current, F!FreeBlocks, free_list, BlockNexts)

SearchOK ==
  \/ call = F!Idle /\ prev = NULL /\ current = NULL
  \/ (\E n \in Sizes : call = [op |-> "alloc", arg |-> n]) /\ SearchesAt
  \/ /\ \E a \in DOMAIN header : /\ call = [op |-> "free", arg |-> a]
                                 /\ \A b \in live : F!HeaderOf(b) # a
                                 /\ prev # NULL => prev < a
     /\ SearchesAt

\* The counted bytes are those of the blocks in use, headers included.
UsedBytes == UNION {F!HeaderOf(b) .. F!End(F!HeaderOf(b)) - 1 : b \in live}

CountOK ==
  /\ IsFiniteSet(live) /\ allocation_count = Cardinality(live)
  /\ bytes_allocated = Cardinality(UsedBytes)

FreeListOK ==
  /\ start \in Bases /\ size \in Capacities
  /\ BlocksOK /\ ClientsOK /\ FreeOK /\ SearchOK /\ CountOK

LEMMA Layout ==
  /\ ALIGNMENT \in Nat \ {0} /\ HEADER_SIZE \in Nat \ {0} /\ HEADER_SIZE % ALIGNMENT = 0
  /\ Sizes \subseteq Nat
BY LayoutAssumption, RequestsAssumption

LEMMA Arena ==
  ASSUME start \in Bases, size \in Capacities
  PROVE  start \in Nat \ {0} /\ size \in Nat \ {0} /\ start % ALIGNMENT = 0
BY BasesAssumption, CapacitiesAssumption, LayoutAssumption

\* What BlocksOK says of a block.
LEMMA Blocks ==
  ASSUME start \in Bases, size \in Capacities, BlocksOK, NEW a \in DOMAIN header
  PROVE  /\ a \in Nat \ {0} /\ a >= start /\ a < start + size /\ a % ALIGNMENT = 0
         /\ header[a] \in F!BlockHeader
         /\ header[a].size \in Nat /\ header[a].size > 0 /\ header[a].next \in Nat
         /\ F!End(a) = a + header[a].size /\ F!End(a) \in Nat
         /\ F!End(a) \in DOMAIN header \cup {start + size} /\ F!End(a) <= start + size
         /\ \A c \in DOMAIN header : c > a => c >= F!End(a)
PROOF
<1>1. start \in Nat \ {0} /\ size \in Nat \ {0}
  BY Arena
<1>2. DOMAIN BlockSizes = DOMAIN header /\ BlockSizes[a] = header[a].size
  BY DEF BlockSizes
<1>3. /\ DOMAIN header \subseteq start .. start + size - 1
      /\ header[a].size \in Nat /\ header[a].size > 0
      /\ a + header[a].size \in DOMAIN header \cup {start + size}
      /\ \A c \in DOMAIN header : c > a => c >= a + header[a].size
  <2>1. PICK s : s = BlockSizes
    OBVIOUS
  <2>2. PICK hi \in Nat : hi = start + size
    BY <1>1
  <2>3. DOMAIN s = DOMAIN header /\ s[a] = header[a].size /\ Tiling(s, start, hi)
    BY <1>2, <2>1, <2>2 DEF BlocksOK
  <2>4. DOMAIN s \subseteq start .. hi - 1
    BY <2>3 DEF Tiling
  <2>5. a \in DOMAIN s /\ s[a] \in Nat /\ s[a] > 0
    BY <2>3 DEF Tiling
  <2>6. a + s[a] \in DOMAIN s \cup {hi}
    BY <2>3, <2>5 DEF Tiling
  <2>7. \A c \in DOMAIN s : c > a => c >= a + s[a]
    BY <2>3, <2>5 DEF Tiling
  <2>8. DOMAIN header \subseteq start .. start + size - 1
    BY <1>1, <2>2, <2>3, <2>4
  <2>9. a + header[a].size \in DOMAIN header \cup {start + size}
    BY <2>2, <2>3, <2>6
  <2>10. \A c \in DOMAIN header : c > a => c >= a + header[a].size
    BY <2>3, <2>7
  <2> QED
    BY <2>3, <2>5, <2>8, <2>9, <2>10
<1>4. F!End(a) = a + header[a].size
  BY DEF F!End
<1>5. header[a] \in F!BlockHeader /\ header[a].next \in Nat /\ a % ALIGNMENT = 0
  BY DEF BlocksOK, F!BlockHeader
<1>6. \A c \in DOMAIN header : c \in Nat \ {0} /\ c >= start /\ c < start + size
  BY <1>1, <1>3
<1>7. a + header[a].size \in Nat /\ a + header[a].size <= start + size
  <2>1. PICK e : e = a + header[a].size
    OBVIOUS
  <2>2. e \in Nat
    BY <1>3, <1>6, <2>1
  <2>3. e <= start + size
    BY <1>1, <1>3, <1>6, <2>1, <2>2
  <2> QED
    BY <2>1, <2>2, <2>3
<1> QED
  BY <1>3, <1>4, <1>5, <1>6, <1>7

\* The blocks of two headers share no byte.
LEMMA BlocksApart ==
  ASSUME start \in Bases, size \in Capacities, BlocksOK,
         NEW a \in DOMAIN header, NEW c \in DOMAIN header, a # c
  PROVE  /\ F!End(a) <= c \/ F!End(c) <= a
         /\ (a .. F!End(a) - 1) \cap (c .. F!End(c) - 1) = {}
PROOF
<1>1. /\ a \in Nat /\ c \in Nat /\ F!End(a) \in Nat /\ F!End(c) \in Nat
      /\ c > a => c >= F!End(a)
      /\ a > c => a >= F!End(c)
  BY Blocks
<1> QED
  BY <1>1

\* What ClientsOK says of a client's block.
LEMMA Clients ==
  ASSUME ClientsOK, NEW b \in live
  PROVE  /\ b.ptr \in Nat /\ b.len \in Nat /\ b.len \in Sizes /\ b.align = ALIGNMENT
         /\ F!HeaderOf(b) = b.ptr - HEADER_SIZE
         /\ F!HeaderOf(b) \in DOMAIN header /\ F!HeaderOf(b) \notin F!FreeBlocks
         /\ b.ptr + b.len <= F!End(F!HeaderOf(b))
BY Layout DEF ClientsOK, F!DataInsideBlocks, F!HeaderOf, F!FreeBlocks

LEMMA MinSize ==
  ASSUME call.arg \in Nat
  PROVE  /\ F!min_size \in Nat /\ F!min_size % ALIGNMENT = 0
         /\ call.arg + HEADER_SIZE <= F!min_size /\ F!min_size > 0
PROOF
<1>1. PICK n \in Nat : n = call.arg + HEADER_SIZE
  BY Layout
<1>2. PICK x : x = ((n + ALIGNMENT - 1) \div ALIGNMENT) * ALIGNMENT
  OBVIOUS
<1>3. x \in Nat /\ n <= x /\ x % ALIGNMENT = 0
  BY <1>2, Layout, AlignUp
<1>4. PICK y : y = HEADER_SIZE + ALIGNMENT
  OBVIOUS
<1>5. y \in Nat /\ y > 0
  BY <1>4, Layout
<1>6. y % ALIGNMENT = 0
  <2>1. ALIGNMENT % ALIGNMENT = 0
    BY Layout
  <2>2. HEADER_SIZE \in Int /\ ALIGNMENT \in Int
    BY Layout
  <2> QED
    BY <1>4, <2>1, <2>2, Layout, AlignedSum
<1>7. F!min_size = CHOOSE m \in {x, y} : \A k \in {x, y} : m >= k
  BY <1>1, <1>2, <1>4 DEF F!min_size, F!Max, F!align_up, F!MIN_BLOCK_SIZE
<1>8. \E m \in {x, y} : \A k \in {x, y} : m >= k
  BY <1>3, <1>5
<1>9. F!min_size \in {x, y} /\ F!min_size >= x /\ F!min_size >= y
  BY <1>7, <1>8
<1>10. F!min_size \in Nat /\ F!min_size % ALIGNMENT = 0
  BY <1>3, <1>5, <1>6, <1>9
<1> QED
  BY <1>1, <1>3, <1>5, <1>9, <1>10

LEMMA FreeCalls ==
  /\ F!Idle.op = "none"
  /\ \A op, n : [op |-> op, arg |-> n].op = op /\ [op |-> op, arg |-> n].arg = n
BY DEF F!Idle

\* The search is on the list.
LEMMA Searching ==
  ASSUME FreeListOK, call # F!Idle
  PROVE  /\ SearchesAt
         /\ prev \in F!FreeBlocks \cup {NULL} /\ current \in F!FreeBlocks \cup {NULL}
         /\ NULL \notin F!FreeBlocks
         /\ call.op = "alloc" => call.arg \in Sizes
         /\ call.op = "free" => /\ call.arg \in DOMAIN header \ F!FreeBlocks
                                /\ \A b \in live : F!HeaderOf(b) # call.arg
                                /\ prev # NULL => prev < call.arg
         /\ call.op \in {"alloc", "free"}
PROOF
<1>1. SearchesAt
  BY DEF FreeListOK, SearchOK
<1>2. Sorted(F!FreeBlocks, free_list, BlockNexts, start)
  BY DEF FreeListOK, FreeOK
<1>3. NULL \notin F!FreeBlocks /\ prev \in F!FreeBlocks \cup {NULL}
      /\ current \in F!FreeBlocks \cup {NULL}
  BY <1>1, <1>2 DEF SearchesAt, At, Sorted, IsFirst
<1>4. CASE \E n \in Sizes : call = [op |-> "alloc", arg |-> n]
  BY <1>1, <1>3, <1>4, FreeCalls
<1>5. CASE \E a \in DOMAIN header : /\ call = [op |-> "free", arg |-> a]
                                    /\ \A b \in live : F!HeaderOf(b) # a
                                    /\ prev # NULL => prev < a
  <2>1. PICK a \in DOMAIN header : /\ call = [op |-> "free", arg |-> a]
                                   /\ \A b \in live : F!HeaderOf(b) # a
                                   /\ prev # NULL => prev < a
    BY <1>5
  <2>2. call.op = "free" /\ call.arg = a
    BY <2>1, FreeCalls
  <2>3. a \notin F!FreeBlocks
    BY <2>2 DEF F!FreeBlocks
  <2> QED
    BY <1>1, <1>3, <2>1, <2>2, <2>3
<1> QED
  BY <1>4, <1>5 DEF FreeListOK, SearchOK

(***************************************************************************)
(* The steps that leave the blocks alone.                                  *)
(***************************************************************************)
LEMMA FreeListInit ==
  ASSUME F!Init
  PROVE  FreeListOK
PROOF
<1>1. /\ start \in Bases /\ size \in Capacities /\ free_list = start
      /\ header = [a \in {start} |-> [size |-> size, next |-> NULL]]
      /\ allocation_count = 0 /\ bytes_allocated = 0 /\ live = {}
      /\ call = F!Idle /\ prev = NULL /\ current = NULL
  BY DEF F!Init, F!NULL, NULL
<1>2. start \in Nat \ {0} /\ size \in Nat \ {0} /\ start % ALIGNMENT = 0
  BY <1>1, Arena
<1>3. /\ DOMAIN header = {start} /\ header[start] = [size |-> size, next |-> NULL]
      /\ header[start].size = size /\ header[start].next = NULL
  BY <1>1
<1>4. F!FreeBlocks = {start}
  BY <1>1, <1>3, FreeCalls DEF F!FreeBlocks
<1>5. BlocksOK
  <2>1. header[start] \in F!BlockHeader
    BY <1>2, <1>3 DEF F!BlockHeader, NULL
  <2>2. DOMAIN BlockSizes = {start} /\ BlockSizes[start] = size
    BY <1>3 DEF BlockSizes
  <2>3. Tiling(BlockSizes, start, start + size)
    BY <1>2, <2>2 DEF Tiling
  <2> QED
    BY <1>2, <1>3, <2>1, <2>3 DEF BlocksOK
<1>6. FreeOK
  <2>1. BlockNexts[start] = NULL
    BY <1>3 DEF BlockNexts
  <2>2. IsFirst(NULL, {start}, start + 1) /\ IsFirst(start, {start}, start)
    BY <1>2 DEF IsFirst
  <2>3. Sorted({start}, start, BlockNexts, start)
    BY <1>2, <2>1, <2>2 DEF Sorted, NULL
  <2>4. F!End(start) \notin {start}
    BY <1>2, <1>3 DEF F!End
  <2> QED
    BY <1>1, <1>4, <2>3, <2>4 DEF FreeOK
<1>7. CountOK
  <2>1. UsedBytes = {}
    BY <1>1 DEF UsedBytes
  <2> QED
    BY <1>1, <2>1, FS_EmptySet DEF CountOK
<1>8. ClientsOK /\ SearchOK
  BY <1>1 DEF ClientsOK, F!DataInsideBlocks, SearchOK
<1> QED
  BY <1>1, <1>5, <1>6, <1>7, <1>8 DEF FreeListOK

LEMMA BlocksKept ==
  ASSUME FreeListOK, UNCHANGED <<start, size, header>>
  PROVE  BlocksOK' /\ BlockNexts' = BlockNexts
         /\ \A a : F!End(a)' = F!End(a)
BY DEF FreeListOK, BlocksOK, BlockSizes, BlockNexts, F!End, F!BlockHeader

LEMMA FreeKept ==
  ASSUME FreeListOK, UNCHANGED <<start, size, header, free_list>>,
         F!FreeBlocks' = F!FreeBlocks
  PROVE  FreeOK'
PROOF
<1>1. PICK free : free = F!FreeBlocks
  OBVIOUS
<1>2. BlockNexts' = BlockNexts /\ \A a : F!End(a)' = F!End(a)
  BY BlocksKept
<1>3. Sorted(free, free_list, BlockNexts, start) /\ \A f \in free : F!End(f) \notin free
  BY <1>1 DEF FreeListOK, FreeOK
<1>4. Sorted(free, free_list', BlockNexts', start') /\ \A f \in free : F!End(f)' \notin free
  BY <1>2, <1>3
<1>5. F!FreeBlocks' = free
  BY <1>1
<1> QED
  BY <1>4, <1>5 DEF FreeOK

\* A step of a search, or the end of one that found nothing.
LEMMA QuietStep ==
  ASSUME FreeListOK,
         UNCHANGED <<start, size, header, free_list, allocation_count, bytes_allocated, live>>,
         F!FreeBlocks' = F!FreeBlocks, SearchOK'
  PROVE  FreeListOK'
PROOF
<1>1. BlocksOK' /\ FreeOK'
  BY BlocksKept, FreeKept
<1>2. ClientsOK' /\ CountOK'
  BY DEF FreeListOK, ClientsOK, F!DataInsideBlocks, F!HeaderOf, F!End, CountOK, UsedBytes
<1> QED
  BY <1>1, <1>2 DEF FreeListOK

LEMMA SearchStep ==
  ASSUME FreeListOK, NEW n \in Sizes, F!Alloc(n)
  PROVE  FreeListOK' /\ live' = live /\ UNCHANGED <<start, size>>
PROOF
<1>1. /\ call = F!Idle /\ call' = [op |-> "alloc", arg |-> n]
      /\ prev' = NULL /\ current' = free_list
      /\ UNCHANGED <<start, size, header, free_list, allocation_count, bytes_allocated, live>>
  BY DEF F!Alloc, F!Search, F!arena, F!counters, F!NULL, NULL
<1>2. call.op # "free" /\ call'.op # "free"
  BY <1>1, FreeCalls
<1>3. F!FreeBlocks' = F!FreeBlocks
  BY <1>1, <1>2 DEF F!FreeBlocks, F!HeaderOf
<1>4. SearchOK'
  BY <1>1 DEF SearchOK, SearchesAt, At
<1> QED
  BY <1>1, <1>3, <1>4, QuietStep

LEMMA AdvanceStep ==
  ASSUME FreeListOK, F!TooSmall \/ F!Below
  PROVE  FreeListOK' /\ live' = live /\ UNCHANGED <<start, size>>
PROOF
<1>1. /\ call.op \in {"alloc", "free"} /\ current # NULL
      /\ call.op = "free" => current < call.arg
      /\ prev' = current /\ current' = header[current].next
      /\ UNCHANGED <<start, size, header, free_list, allocation_count, bytes_allocated, live, call>>
  BY DEF F!TooSmall, F!Below, F!Ahead, F!Advance, F!arena, F!counters, F!NULL, NULL
<1>2. call # F!Idle
  BY <1>1, FreeCalls
<1>3. /\ current \in F!FreeBlocks
      /\ call.op = "alloc" => call.arg \in Sizes
      /\ call.op = "free" => /\ call.arg \in DOMAIN header
                             /\ \A b \in live : F!HeaderOf(b) # call.arg
  BY <1>1, <1>2, Searching
<1>4. F!FreeBlocks' = F!FreeBlocks
  BY <1>1 DEF F!FreeBlocks, F!HeaderOf
<1>5. SearchesAt'
  <2>1. PICK free : free = F!FreeBlocks
    OBVIOUS
  <2>2. current \in DOMAIN header
    BY <1>3 DEF F!FreeBlocks
  <2>3. BlockNexts'[current] = header[current].next
    BY <1>1, <2>2 DEF BlockNexts
  <2>4. prev' \in free /\ current' = BlockNexts'[prev']
    BY <1>1, <1>3, <2>1, <2>3
  <2>5. F!FreeBlocks' = free
    BY <1>4, <2>1
  <2> QED
    BY <2>4, <2>5 DEF SearchesAt, At
<1>6. SearchOK'
  <2>1. CASE call.op = "alloc"
    <3>1. \E n \in Sizes : call = [op |-> "alloc", arg |-> n]
      BY <1>2, <2>1, FreeCalls DEF FreeListOK, SearchOK
    <3> QED
      BY <1>1, <1>5, <3>1 DEF SearchOK
  <2>2. CASE call.op = "free"
    <3>1. \E a \in DOMAIN header : /\ call = [op |-> "free", arg |-> a]
                                   /\ \A b \in live : F!HeaderOf(b) # a
      BY <1>2, <2>2, FreeCalls DEF FreeListOK, SearchOK
    <3>2. PICK a \in DOMAIN header : /\ call = [op |-> "free", arg |-> a]
                                     /\ \A b \in live : F!HeaderOf(b) # a
      BY <3>1
    <3>3. call.arg = a /\ prev' < a
      BY <1>1, <2>2, <3>2, FreeCalls
    <3>4. \A b \in live' : F!HeaderOf(b)' # a
      BY <1>1, <3>2 DEF F!HeaderOf
    <3> QED
      BY <1>1, <1>5, <3>2, <3>3, <3>4 DEF SearchOK, F!HeaderOf
  <2> QED
    BY <1>1, <2>1, <2>2
<1> QED
  BY <1>1, <1>4, <1>6, QuietStep

LEMMA OutOfMemoryStep ==
  ASSUME FreeListOK, F!OutOfMemory
  PROVE  FreeListOK' /\ live' = live /\ UNCHANGED <<start, size>>
PROOF
<1>1. /\ call.op = "alloc" /\ call' = F!Idle /\ prev' = NULL /\ current' = NULL
      /\ UNCHANGED <<start, size, header, free_list, allocation_count, bytes_allocated, live>>
  BY DEF F!OutOfMemory, F!Answer, F!arena, F!counters, F!NULL, NULL
<1>2. call'.op # "free"
  BY <1>1, FreeCalls
<1>3. F!FreeBlocks' = F!FreeBlocks
  BY <1>1, <1>2 DEF F!FreeBlocks, F!HeaderOf
<1>4. SearchOK'
  BY <1>1 DEF SearchOK
<1> QED
  BY <1>1, <1>3, <1>4, QuietStep

(***************************************************************************)
(* The steps of clients' blocks.                                           *)
(***************************************************************************)
\* The bytes in use lie in the arena.
LEMMA UsedFinite ==
  ASSUME FreeListOK
  PROVE  IsFiniteSet(UsedBytes) /\ Cardinality(UsedBytes) \in Nat
PROOF
<1>1. start \in Nat /\ start + size - 1 \in Int
  BY Arena DEF FreeListOK
<1>2. IsFiniteSet(start .. start + size - 1)
  BY <1>1, FS_Interval
<1>3. UsedBytes \subseteq start .. start + size - 1
  <2> SUFFICES ASSUME NEW b \in live
               PROVE  F!HeaderOf(b) .. F!End(F!HeaderOf(b)) - 1 \subseteq start .. start + size - 1
    BY DEF UsedBytes
  <2>1. PICK a \in DOMAIN header : a = F!HeaderOf(b)
    BY Clients DEF FreeListOK
  <2>2. a \in Nat /\ a >= start /\ F!End(a) \in Nat /\ F!End(a) <= start + size
    BY Blocks DEF FreeListOK
  <2>3. a .. F!End(a) - 1 \subseteq start .. start + size - 1
    <3>1. PICK e \in Nat : e = F!End(a)
      BY <2>2
    <3>2. start \in Nat /\ size \in Nat
      BY Arena DEF FreeListOK
    <3> QED
      BY <2>2, <3>1, <3>2
  <2> QED
    BY <2>1, <2>3
<1> QED
  BY <1>2, <1>3, FS_Subset, FS_CardinalityType

LEMMA FreeStep ==
  ASSUME FreeListOK, NEW b \in live, F!Free(b)
  PROVE  FreeListOK' /\ live' = live \ {b} /\ UNCHANGED <<start, size>>
PROOF
<1>1. PICK a : a = F!HeaderOf(b)
  OBVIOUS
<1>2. /\ call = F!Idle /\ call' = [op |-> "free", arg |-> a]
      /\ prev' = NULL /\ current' = free_list
      /\ UNCHANGED <<start, size, header, free_list>>
      /\ live' = live \ {b}
      /\ allocation_count' = allocation_count - 1
      /\ bytes_allocated' = bytes_allocated - header[a].size
  BY <1>1 DEF F!Free, F!Search, F!Uncount, F!HeaderOf, F!arena, F!NULL, NULL
<1>3. a \in DOMAIN header /\ \A c \in live' : F!HeaderOf(c) # a
  BY <1>1, <1>2, Clients DEF FreeListOK, ClientsOK
<1>4. call.op = "none" /\ call'.op = "free" /\ call'.arg = a
  BY <1>2, FreeCalls
<1>5. F!FreeBlocks' = F!FreeBlocks
  <2>1. F!FreeBlocks = DOMAIN header \ {F!HeaderOf(c) : c \in live}
    BY <1>4 DEF F!FreeBlocks
  <2>2. F!FreeBlocks' = DOMAIN header' \ ({F!HeaderOf(c) : c \in live'} \cup {a})
    BY <1>4 DEF F!FreeBlocks, F!HeaderOf
  <2>3. {F!HeaderOf(c) : c \in live'} \cup {a} = {F!HeaderOf(c) : c \in live}
    BY <1>1, <1>2
  <2> QED
    BY <1>2, <2>1, <2>2, <2>3
<1>6. BlocksOK' /\ FreeOK' /\ \A x : F!End(x)' = F!End(x)
  BY <1>2, <1>5, BlocksKept, FreeKept
<1>7. ClientsOK'
  BY <1>2 DEF FreeListOK, ClientsOK, F!DataInsideBlocks, F!HeaderOf, F!End
<1>8. SearchOK'
  <2>1. SearchesAt'
    BY <1>2 DEF SearchesAt, At
  <2>2. \A c \in live' : F!HeaderOf(c)' # a
    BY <1>3 DEF F!HeaderOf
  <2> QED
    BY <1>2, <1>3, <2>1, <2>2 DEF SearchOK, F!HeaderOf
<1>9. CountOK'
  <2> DEFINE block == a .. F!End(a) - 1
  <2>1. a \in Nat /\ F!End(a) \in Nat /\ F!End(a) = a + header[a].size /\ header[a].size \in Nat
        /\ header[a].size > 0
    BY <1>3, Blocks DEF FreeListOK
  <2>2. IsFiniteSet(block) /\ Cardinality(block) = header[a].size
    <3>1. PICK n \in Nat : n = header[a].size
      BY <2>1
    <3>2. block = a .. a + n - 1 /\ n > 0
      BY <2>1, <3>1
    <3> QED
      BY <2>1, <3>1, <3>2, BlockBytes
  <2>3. UsedBytes = UsedBytes' \cup block
    <3>1. UsedBytes' = UNION {F!HeaderOf(c) .. F!End(F!HeaderOf(c)) - 1 : c \in live'}
      BY <1>6, <1>2 DEF UsedBytes, F!HeaderOf, F!End
    <3>2. live = live' \cup {b}
      BY <1>2
    <3> QED
      BY <1>1, <3>1, <3>2 DEF UsedBytes
  <2>4. UsedBytes' \cap block = {}
    <3>1. UsedBytes' = UNION {F!HeaderOf(c) .. F!End(F!HeaderOf(c)) - 1 : c \in live'}
      BY <1>6, <1>2 DEF UsedBytes, F!HeaderOf, F!End
    <3>2. ASSUME NEW c \in live' PROVE (F!HeaderOf(c) .. F!End(F!HeaderOf(c)) - 1) \cap block = {}
      <4>1. c \in live /\ F!HeaderOf(c) # a
        BY <1>2, <1>3
      <4>2. PICK x \in DOMAIN header : x = F!HeaderOf(c)
        BY <4>1, Clients DEF FreeListOK
      <4> QED
        BY <1>3, <4>1, <4>2, BlocksApart DEF FreeListOK
    <3> HIDE DEF block
    <3> QED
      BY <3>1, <3>2
  <2>5. PICK used : used = UsedBytes
    OBVIOUS
  <2>6. PICK rest : rest = UsedBytes'
    OBVIOUS
  <2> HIDE DEF block
  <2>7. IsFiniteSet(used) /\ Cardinality(used) \in Nat /\ bytes_allocated = Cardinality(used)
    BY <2>5, UsedFinite DEF FreeListOK, CountOK
  <2>8. IsFiniteSet(rest) /\ Cardinality(rest) \in Nat
    BY <2>3, <2>5, <2>6, <2>7, FS_Subset, FS_CardinalityType
  <2>9. Cardinality(used) = Cardinality(rest) + Cardinality(block) - Cardinality(rest \cap block)
    BY <2>2, <2>3, <2>5, <2>6, <2>8, FS_Union
  <2>10. Cardinality(rest \cap block) = 0
    BY <2>4, <2>6, FS_EmptySet
  <2>11. bytes_allocated' = Cardinality(rest)
    BY <1>2, <2>1, <2>2, <2>7, <2>8, <2>9, <2>10
  <2>12. IsFiniteSet(live') /\ allocation_count' = Cardinality(live')
    BY <1>2, FS_RemoveElement DEF FreeListOK, CountOK
  <2> QED
    BY <2>6, <2>11, <2>12 DEF CountOK
<1> QED
  BY <1>2, <1>6, <1>7, <1>8, <1>9 DEF FreeListOK

\* alloc's answer, whatever the strategy did to the blocks: the client's block
\* is the first n bytes of the one the search found.
LEMMA HandOutKeeps ==
  ASSUME FreeListOK, call.op = "alloc", current # NULL, NEW n \in Nat, F!HandOut(n),
         call.arg + HEADER_SIZE <= n, n <= header[current].size,
         DOMAIN header \subseteq DOMAIN header', header'[current].size = n,
         \A a \in DOMAIN header \ {current} : header'[a].size = header[a].size
  PROVE  /\ ClientsOK' /\ CountOK' /\ SearchOK'
         /\ F!FreeBlocks' = DOMAIN header' \ ({F!HeaderOf(b) : b \in live} \cup {current})
         /\ F!FreeBlocks = DOMAIN header \ {F!HeaderOf(b) : b \in live}
         /\ \E b : b \notin live /\ live' = live \cup {b}
PROOF
<1>0. PICK cur : cur = current
  OBVIOUS
<1>b. PICK b : b = [ptr |-> cur + HEADER_SIZE, len |-> call.arg, align |-> ALIGNMENT]
  OBVIOUS
<1>1. /\ call' = F!Idle /\ prev' = NULL /\ current' = NULL
      /\ UNCHANGED <<start, size>>
      /\ allocation_count' = allocation_count + 1
      /\ bytes_allocated' = bytes_allocated + n
      /\ live' = live \cup {b}
  BY <1>0, <1>b DEF F!HandOut, F!Answer, F!arena, F!NULL, NULL
<1>2. call # F!Idle
  BY FreeCalls
<1>3. cur \in F!FreeBlocks /\ call.arg \in Sizes
  BY <1>0, <1>2, Searching
<1>4. F!FreeBlocks = DOMAIN header \ {F!HeaderOf(c) : c \in live}
  BY DEF F!FreeBlocks
<1>5. cur \in DOMAIN header /\ \A c \in live : F!HeaderOf(c) # cur
  BY <1>3, <1>4
<1>6. /\ cur \in Nat /\ header[cur].size \in Nat /\ header[cur].size > 0
      /\ F!End(cur) = cur + header[cur].size
  BY <1>5, Blocks DEF FreeListOK
<1>7. /\ b.ptr = cur + HEADER_SIZE /\ b.len = call.arg /\ b.align = ALIGNMENT
      /\ b \in [ptr : Nat, len : Sizes, align : {ALIGNMENT}]
  BY <1>b, <1>3, <1>6, Layout
<1>8. F!HeaderOf(b) = cur
  BY <1>6, <1>7, Layout DEF F!HeaderOf
<1>9. b \notin live
  BY <1>5, <1>8
<1>10. \A x : F!HeaderOf(x)' = F!HeaderOf(x)
  BY DEF F!HeaderOf
<1>11. F!End(cur)' = cur + n
  BY <1>0 DEF F!End
<1>12. \A c \in live : F!HeaderOf(c) \in DOMAIN header \ {cur}
                       /\ F!End(F!HeaderOf(c))' = F!End(F!HeaderOf(c))
  <2> SUFFICES ASSUME NEW c \in live
               PROVE  F!HeaderOf(c) \in DOMAIN header \ {cur}
                      /\ F!End(F!HeaderOf(c))' = F!End(F!HeaderOf(c))
    OBVIOUS
  <2>1. PICK x : x = F!HeaderOf(c)
    OBVIOUS
  <2>2. x \in DOMAIN header \ {cur}
    BY <1>5, <2>1, Clients DEF FreeListOK
  <2>3. F!End(x)' = F!End(x)
    BY <1>0, <2>2 DEF F!End
  <2> QED
    BY <1>10, <2>1, <2>2, <2>3
<1>13. ClientsOK'
  <2>1. live' \subseteq [ptr : Nat, len : Sizes, align : {ALIGNMENT}]
    BY <1>1, <1>7 DEF FreeListOK, ClientsOK
  <2>2. ASSUME NEW c \in live'
        PROVE  /\ F!HeaderOf(c)' \in DOMAIN header'
               /\ c.ptr + c.len <= F!End(F!HeaderOf(c))'
    <3>1. CASE c = b
      <4>1. F!HeaderOf(c)' = cur /\ F!End(F!HeaderOf(c))' = cur + n
        BY <1>8, <1>10, <1>11, <3>1
      <4>2. call.arg \in Nat /\ HEADER_SIZE \in Nat
        BY <1>3, Layout
      <4>3. c.ptr + c.len <= cur + n
        BY <1>6, <1>7, <3>1, <4>2
      <4> QED
        BY <1>5, <4>1, <4>3
    <3>2. CASE c \in live
      BY <1>10, <1>12, <3>2, Clients DEF FreeListOK
    <3> QED
      BY <1>1, <3>1, <3>2
  <2>3. ASSUME NEW c \in live', NEW d \in live', F!HeaderOf(c) = F!HeaderOf(d)
        PROVE  c = d
    BY <1>1, <1>5, <1>8, <2>3 DEF FreeListOK, ClientsOK
  <2> QED
    BY <1>10, <2>1, <2>2, <2>3 DEF ClientsOK, F!DataInsideBlocks
<1>14. SearchOK'
  BY <1>1 DEF SearchOK
<1>15. F!FreeBlocks' = DOMAIN header' \ ({F!HeaderOf(c) : c \in live} \cup {cur})
  <2>1. call'.op # "free"
    BY <1>1, FreeCalls
  <2>2. F!FreeBlocks' = DOMAIN header' \ {F!HeaderOf(c) : c \in live'}
    BY <1>10, <2>1 DEF F!FreeBlocks
  <2>3. {F!HeaderOf(c) : c \in live'} = {F!HeaderOf(c) : c \in live} \cup {cur}
    BY <1>1, <1>8
  <2> QED
    BY <2>2, <2>3
<1>16. CountOK'
  <2> DEFINE block == cur .. cur + n - 1
  <2>1. n > 0
    <3>1. call.arg \in Nat /\ HEADER_SIZE \in Nat \ {0}
      BY <1>3, Layout
    <3> QED
      BY <3>1
  <2>2. IsFiniteSet(block) /\ Cardinality(block) = n
    BY <1>6, <2>1, BlockBytes
  <2>3. UsedBytes' = UsedBytes \cup block
    <3> DEFINE bytes(c)  == F!HeaderOf(c) .. F!End(F!HeaderOf(c)) - 1
               bytes2(c) == F!HeaderOf(c)' .. F!End(F!HeaderOf(c))' - 1
    <3>1. UsedBytes' = UNION {bytes2(c) : c \in live'} /\ UsedBytes = UNION {bytes(c) : c \in live}
      BY DEF UsedBytes
    <3>2. \A c \in live : bytes2(c) = bytes(c)
      BY <1>10, <1>12
    <3>3. bytes2(b) = block
      <4>1. F!HeaderOf(b)' = cur
        BY <1>8, <1>10
      <4>2. F!End(F!HeaderOf(b))' = cur + n
        BY <1>11, <4>1
      <4> QED
        BY <1>6, <4>1, <4>2
    <3> HIDE DEF bytes, bytes2, block
    <3>4. {bytes2(c) : c \in live'} = {bytes(c) : c \in live} \cup {block}
      BY <1>1, <3>2, <3>3
    <3> QED
      BY <3>1, <3>4
  <2>4. UsedBytes \cap block = {}
    <3>1. ASSUME NEW c \in live PROVE (F!HeaderOf(c) .. F!End(F!HeaderOf(c)) - 1) \cap block = {}
      <4>1. PICK x \in DOMAIN header : x = F!HeaderOf(c) /\ x # cur
        BY <1>5, Clients DEF FreeListOK
      <4>2. (x .. F!End(x) - 1) \cap (cur .. F!End(cur) - 1) = {}
        BY <1>5, <4>1, BlocksApart DEF FreeListOK
      <4>3. block \subseteq cur .. F!End(cur) - 1
        BY <1>0, <1>6
      <4> QED
        BY <4>1, <4>2, <4>3
    <3> HIDE DEF block
    <3> QED
      BY <3>1 DEF UsedBytes
  <2>5. PICK used : used = UsedBytes
    OBVIOUS
  <2> HIDE DEF block
  <2>6. IsFiniteSet(used) /\ Cardinality(used) \in Nat /\ bytes_allocated = Cardinality(used)
    BY <2>5, UsedFinite DEF FreeListOK, CountOK
  <2>7. Cardinality(used \cup block)
          = Cardinality(used) + Cardinality(block) - Cardinality(used \cap block)
    BY <2>2, <2>6, FS_Union
  <2>8. Cardinality(used \cap block) = 0
    BY <2>4, <2>5, FS_EmptySet
  <2>9. bytes_allocated' = Cardinality(used \cup block)
    BY <1>1, <2>2, <2>6, <2>7, <2>8
  <2>10. IsFiniteSet(live') /\ allocation_count' = Cardinality(live')
    BY <1>1, <1>9, FS_AddElement DEF FreeListOK, CountOK
  <2>11. UsedBytes' = used \cup block
    BY <2>3, <2>5
  <2> QED
    BY <2>9, <2>10, <2>11 DEF CountOK
<1> QED
  BY <1>0, <1>1, <1>4, <1>9, <1>13, <1>14, <1>15, <1>16

\* Where a search is that has found a block.
LEMMA Found ==
  ASSUME FreeListOK, call # F!Idle, current # NULL
  PROVE  /\ current \in F!FreeBlocks /\ current \in DOMAIN header
         /\ F!FreeBlocks \subseteq DOMAIN header /\ NULL \notin F!FreeBlocks
         /\ prev # NULL => prev \in F!FreeBlocks /\ prev < current
         /\ header[current].next # NULL => /\ header[current].next \in F!FreeBlocks
                                           /\ header[current].next > current
PROOF
<1>1. /\ SearchesAt /\ current \in F!FreeBlocks /\ NULL \notin F!FreeBlocks
      /\ prev \in F!FreeBlocks \cup {NULL}
  BY Searching
<1>2. F!FreeBlocks \subseteq DOMAIN header
  BY DEF F!FreeBlocks
<1>3. Sorted(F!FreeBlocks, free_list, BlockNexts, start) /\ start \in Nat
  BY Arena DEF FreeListOK, FreeOK
<1>4. prev # NULL => prev < current
  BY <1>1, <1>3, OneWay DEF SearchesAt
<1>5. current \in DOMAIN header /\ BlockNexts[current] = header[current].next
  BY <1>1, <1>2 DEF BlockNexts
<1>6. IsFirst(header[current].next, F!FreeBlocks, current + 1) /\ F!FreeBlocks \subseteq Nat
  BY <1>1, <1>3, <1>5 DEF Sorted
<1>7. header[current].next # NULL => /\ header[current].next \in F!FreeBlocks
                                     /\ header[current].next >= current + 1
  BY <1>6 DEF IsFirst
<1>8. header[current].next # NULL => header[current].next > current
  <2> SUFFICES ASSUME header[current].next # NULL PROVE header[current].next > current
    OBVIOUS
  <2>1. PICK x \in Nat : x = header[current].next
    BY <1>6, <1>7
  <2>2. PICK y \in Nat : y = current
    BY <1>1, <1>6
  <2> QED
    BY <1>7, <2>1, <2>2
<1> QED
  BY <1>1, <1>2, <1>4, <1>5, <1>7, <1>8

LEMMA UseWholeStep ==
  ASSUME FreeListOK, F!UseWhole
  PROVE  FreeListOK' /\ UNCHANGED <<start, size>>
         /\ \E b : b \notin live /\ live' = live \cup {b}
PROOF
<1>1. PICK cur : cur = current
  OBVIOUS
<1>2. PICK pre : pre = prev
  OBVIOUS
<1>3. /\ call.op = "alloc" /\ cur # NULL /\ header[cur].size >= F!min_size
      /\ header' = [a \in DOMAIN header |->
                      CASE a = cur -> [header[cur] EXCEPT !.next = NULL]
                        [] a = pre -> [header[pre] EXCEPT !.next = header[cur].next]
                        [] OTHER -> header[a]]
      /\ free_list' = IF pre = NULL THEN header[cur].next ELSE free_list
      /\ F!HandOut(header[cur].size)
      /\ UNCHANGED <<start, size>>
  BY <1>1, <1>2
     DEF F!UseWhole, F!Fits, F!HeadAfter, F!HandOut, F!Answer, F!arena, F!NULL, NULL
<1>4. call # F!Idle
  BY <1>3, FreeCalls
<1>5. PICK free : free = F!FreeBlocks
  OBVIOUS
<1>6. /\ cur \in free /\ cur \in DOMAIN header /\ free \subseteq DOMAIN header /\ NULL \notin free
      /\ pre # NULL => pre \in free /\ pre < cur
      /\ header[cur].next # NULL => header[cur].next \in free
  BY <1>1, <1>2, <1>3, <1>4, <1>5, Found
<1>7. \A a \in DOMAIN header : /\ a \in Nat \ {0} /\ header[a] \in F!BlockHeader
                               /\ header[a].size \in Nat /\ header[a].next \in Nat
                               /\ a % ALIGNMENT = 0
  BY Blocks DEF FreeListOK
<1>8. pre # cur
  BY <1>3, <1>6, <1>7
<1>9. ASSUME NEW a \in DOMAIN header
      PROVE  /\ header'[a] \in F!BlockHeader /\ header'[a].size = header[a].size
             /\ a # cur => header'[a].next = IF a = pre THEN header[cur].next ELSE header[a].next
  <2>1. header[a] \in F!BlockHeader /\ header[cur].next \in Nat /\ NULL \in Nat
    BY <1>6, <1>7 DEF NULL
  <2>2. CASE a = cur
    <3>1. header'[a] = [header[a] EXCEPT !.next = NULL]
      BY <1>3, <1>8, <2>2
    <3> QED
      BY <2>1, <2>2, <3>1 DEF F!BlockHeader
  <2>3. CASE a = pre
    <3>1. header'[a] = [header[a] EXCEPT !.next = header[cur].next]
      BY <1>3, <1>8, <2>3
    <3> QED
      BY <2>1, <2>3, <3>1 DEF F!BlockHeader
  <2>4. CASE a # cur /\ a # pre
    <3>1. header'[a] = header[a]
      BY <1>3, <2>4
    <3> QED
      BY <2>1, <2>4, <3>1
  <2> QED
    BY <2>2, <2>3, <2>4
<1>10. DOMAIN header' = DOMAIN header
  BY <1>3
<1>11. BlockSizes' = BlockSizes
  BY <1>9, <1>10 DEF BlockSizes
<1>12. BlocksOK'
  BY <1>3, <1>7, <1>9, <1>10, <1>11 DEF FreeListOK, BlocksOK, F!BlockHeader
<1>13. call.arg \in Sizes /\ call.arg \in Nat
  BY <1>3, <1>4, Searching, Layout
<1>14. /\ ClientsOK' /\ CountOK' /\ SearchOK'
       /\ F!FreeBlocks' = DOMAIN header' \ ({F!HeaderOf(b) : b \in live} \cup {cur})
       /\ F!FreeBlocks = DOMAIN header \ {F!HeaderOf(b) : b \in live}
       /\ \E b : b \notin live /\ live' = live \cup {b}
  <2>1. PICK n \in Nat : n = header[cur].size
    BY <1>6, <1>7
  <2>2. F!min_size \in Nat /\ call.arg + HEADER_SIZE <= F!min_size
    BY <1>13, MinSize
  <2>3. call.arg + HEADER_SIZE <= n
    BY <1>3, <1>13, <2>1, <2>2, Layout
  <2>4. F!HandOut(n) /\ n <= header[current].size /\ header'[current].size = n
        /\ \A a \in DOMAIN header \ {current} : header'[a].size = header[a].size
    BY <1>1, <1>3, <1>6, <1>9, <2>1
  <2> QED
    BY <1>1, <1>3, <1>10, <2>3, <2>4, HandOutKeeps
<1>15. F!FreeBlocks' = free \ {cur}
  BY <1>5, <1>10, <1>14
<1>16. FreeOK'
  <2>1. /\ Sorted(free, free_list, BlockNexts, start) /\ start \in Nat
        /\ At(pre, cur, free, free_list, BlockNexts)
        /\ \A f \in free : F!End(f) \notin free
    BY <1>1, <1>2, <1>4, <1>5, Arena, Searching DEF FreeListOK, FreeOK, SearchesAt
  <2>2. /\ BlockNexts[cur] = header[cur].next
        /\ \A f \in free \ {cur} :
             BlockNexts'[f] = IF f = pre THEN BlockNexts[cur] ELSE BlockNexts[f]
    BY <1>6, <1>9, <1>10 DEF BlockNexts
  <2>3. Sorted(free \ {cur}, IF pre = NULL THEN BlockNexts[cur] ELSE free_list, BlockNexts', start)
    <3>1. PICK next : next = BlockNexts
      OBVIOUS
    <3>2. PICK later : later = BlockNexts'
      OBVIOUS
    <3>3. /\ Sorted(free, free_list, next, start) /\ At(pre, cur, free, free_list, next)
          /\ \A f \in free \ {cur} : later[f] = IF f = pre THEN next[cur] ELSE next[f]
      BY <2>1, <2>2, <3>1, <3>2
    <3>4. start \in Nat
      BY <2>1
    <3>5. cur \in free
      BY <1>6
    <3>6. Sorted(free \ {cur}, IF pre = NULL THEN next[cur] ELSE free_list, later, start)
      BY <3>3, <3>4, <3>5, SortedRemove, ZenonT(60)
    <3> QED
      BY <3>1, <3>2, <3>6
  <2>4. Sorted(free \ {cur}, free_list', BlockNexts', start')
    BY <1>3, <2>2, <2>3
  <2>5. \A f \in free \ {cur} : F!End(f)' \notin free \ {cur}
    <3>1. \A f \in free \ {cur} : F!End(f)' = F!End(f)
      BY <1>6, <1>9 DEF F!End
    <3> QED
      BY <2>1, <3>1
  <2> QED
    BY <1>15, <2>4, <2>5 DEF FreeOK
<1> QED
  BY <1>3, <1>12, <1>14, <1>16 DEF FreeListOK

LEMMA SplitStep ==
  ASSUME FreeListOK, F!Split
  PROVE  FreeListOK' /\ UNCHANGED <<start, size>>
         /\ \E b : b \notin live /\ live' = live \cup {b}
PROOF
<1>1. PICK cur : cur = current
  OBVIOUS
<1>2. PICK pre : pre = prev
  OBVIOUS
<1>3. PICK m : m = F!min_size
  OBVIOUS
<1>4. PICK y : y = cur + m
  OBVIOUS
<1>5. /\ call.op = "alloc" /\ cur # NULL
      /\ header[cur].size - m >= HEADER_SIZE + ALIGNMENT
      /\ header' =
           [a \in DOMAIN header \cup {y} |->
              CASE a = y -> [size |-> header[cur].size - m, next |-> header[cur].next]
                [] a = cur -> [size |-> m, next |-> NULL]
                [] a = pre -> [header[pre] EXCEPT !.next = y]
                [] OTHER -> header[a]]
      /\ free_list' = IF pre = NULL THEN y ELSE free_list
      /\ F!HandOut(m)
      /\ UNCHANGED <<start, size>>
  BY <1>1, <1>2, <1>3, <1>4
     DEF F!Split, F!SplitsOff, F!remaining, F!MIN_BLOCK_SIZE, F!HeadAfter, F!HandOut,
         F!Answer, F!arena, F!NULL, NULL
<1>6. call # F!Idle
  BY <1>5, FreeCalls
<1>7. PICK free : free = F!FreeBlocks
  OBVIOUS
<1>8. /\ cur \in free /\ cur \in DOMAIN header /\ free \subseteq DOMAIN header /\ NULL \notin free
      /\ pre # NULL => pre \in free /\ pre < cur
      /\ header[cur].next # NULL => header[cur].next \in free /\ header[cur].next > cur
  BY <1>1, <1>2, <1>5, <1>6, <1>7, Found
<1>9. \A a \in DOMAIN header : /\ a \in Nat \ {0} /\ a >= start /\ header[a] \in F!BlockHeader
                               /\ header[a].size \in Nat /\ header[a].next \in Nat
                               /\ a % ALIGNMENT = 0
                               /\ F!End(a) = a + header[a].size /\ F!End(a) \in Nat
                               /\ F!End(a) \in DOMAIN header \cup {start + size}
  BY Blocks DEF FreeListOK
<1>10. /\ F!End(cur) <= start + size
       /\ \A c \in DOMAIN header : c > cur => c >= F!End(cur)
       /\ start \in Nat \ {0} /\ size \in Nat
  BY <1>8, Blocks, Arena DEF FreeListOK
<1>11. call.arg \in Sizes /\ call.arg \in Nat
  BY <1>5, <1>6, Searching, Layout
<1>12. m \in Nat /\ m > 0 /\ m % ALIGNMENT = 0 /\ call.arg + HEADER_SIZE <= m
  BY <1>3, <1>11, MinSize
<1>13. PICK n \in Nat : n = header[cur].size
  BY <1>8, <1>9
<1>14. n - m \in Nat /\ n - m > 0 /\ m < n
  BY <1>5, <1>12, <1>13, Layout
<1>15. /\ y \in Nat \ {0} /\ y > cur /\ y < F!End(cur) /\ y + (n - m) = F!End(cur)
       /\ y < start + size /\ y >= start
  BY <1>4, <1>8, <1>9, <1>10, <1>12, <1>13, <1>14
<1>16. y \notin DOMAIN header
  <2>1. cur \in Nat /\ F!End(cur) \in Nat /\ y \in Nat
    BY <1>8, <1>9, <1>15
  <2>2. y > cur /\ ~(y >= F!End(cur))
    BY <1>15, <2>1
  <2> QED
    BY <1>10, <2>2
<1>17. pre # cur /\ pre # y
  BY <1>5, <1>8, <1>9, <1>15 DEF NULL
<1>18. y % ALIGNMENT = 0
  <2>1. cur \in Int /\ m \in Int /\ cur % ALIGNMENT = 0
    BY <1>8, <1>9, <1>12
  <2> QED
    BY <1>4, <1>12, <2>1, Layout, AlignedSum
<1>19. /\ DOMAIN header' = DOMAIN header \cup {y}
       /\ header'[y] = [size |-> n - m, next |-> header[cur].next]
       /\ header'[cur] = [size |-> m, next |-> NULL]
       /\ \A a \in DOMAIN header \ {cur} :
            header'[a] = IF a = pre THEN [header[a] EXCEPT !.next = y] ELSE header[a]
  <2>1. header'[y] = [size |-> n - m, next |-> header[cur].next]
    BY <1>5, <1>13, <1>15, <1>17
  <2>2. header'[cur] = [size |-> m, next |-> NULL]
    BY <1>5, <1>8, <1>16, <1>17
  <2>3. ASSUME NEW a \in DOMAIN header \ {cur}
        PROVE  header'[a] = IF a = pre THEN [header[a] EXCEPT !.next = y] ELSE header[a]
    <3>1. a # y /\ a # cur
      BY <1>16
    <3>2. CASE a = pre
      BY <1>5, <3>1, <3>2
    <3>3. CASE a # pre
      BY <1>5, <3>1, <3>3
    <3> QED
      BY <3>2, <3>3
  <2> QED
    BY <1>5, <2>1, <2>2, <2>3
<1>20. ASSUME NEW a \in DOMAIN header \ {cur}
       PROVE  /\ header'[a] \in F!BlockHeader /\ header'[a].size = header[a].size
              /\ header'[a].next = IF a = pre THEN y ELSE header[a].next
  BY <1>9, <1>15, <1>19 DEF F!BlockHeader
<1>21. /\ header'[y] \in F!BlockHeader /\ header'[y].size = n - m
       /\ header'[y].next = header[cur].next
       /\ header'[cur] \in F!BlockHeader /\ header'[cur].size = m
  BY <1>8, <1>9, <1>12, <1>14, <1>19 DEF F!BlockHeader, NULL
<1>22. BlocksOK'
  <2>1. PICK s : s = BlockSizes
    OBVIOUS
  <2>2. PICK t : t = BlockSizes'
    OBVIOUS
  <2>3. DOMAIN s = DOMAIN header /\ \A a \in DOMAIN header : s[a] = header[a].size
    BY <2>1 DEF BlockSizes
  <2>4. DOMAIN t = DOMAIN header \cup {y}
        /\ \A a \in DOMAIN header \cup {y} : t[a] = header'[a].size
    BY <1>19, <2>2 DEF BlockSizes
  <2>5. PICK hi \in Nat : hi = start + size
    BY <1>10
  <2>6. Tiling(s, start, hi)
    BY <2>1, <2>5 DEF FreeListOK, BlocksOK
  <2>7. /\ cur \in DOMAIN s /\ m < s[cur] /\ DOMAIN t = DOMAIN s \cup {cur + m}
        /\ t[cur] = m /\ t[cur + m] = s[cur] - m
        /\ \A a \in DOMAIN s \ {cur} : t[a] = s[a]
    BY <1>4, <1>8, <1>13, <1>14, <1>20, <1>21, <2>3, <2>4
  <2>8. Tiling(t, start, hi)
    BY <1>10, <1>12, <2>6, <2>7, TilingSplit
  <2>9. Tiling(BlockSizes', start', start' + size')
    BY <1>5, <2>2, <2>5, <2>8
  <2>10. \A a \in DOMAIN header' : header'[a] \in F!BlockHeader /\ a % ALIGNMENT = 0
    BY <1>9, <1>18, <1>19, <1>20, <1>21
  <2> QED
    BY <2>9, <2>10 DEF BlocksOK, F!BlockHeader
<1>23. /\ ClientsOK' /\ CountOK' /\ SearchOK'
       /\ F!FreeBlocks' = DOMAIN header' \ ({F!HeaderOf(b) : b \in live} \cup {cur})
       /\ F!FreeBlocks = DOMAIN header \ {F!HeaderOf(b) : b \in live}
       /\ \E b : b \notin live /\ live' = live \cup {b}
  <2>1. F!HandOut(m) /\ m <= header[current].size /\ header'[current].size = m
        /\ \A a \in DOMAIN header \ {current} : header'[a].size = header[a].size
    BY <1>1, <1>5, <1>12, <1>13, <1>14, <1>20, <1>21
  <2>2. DOMAIN header \subseteq DOMAIN header'
    BY <1>19
  <2> QED
    BY <1>1, <1>5, <1>12, <2>1, <2>2, HandOutKeeps
<1>24. F!FreeBlocks' = (free \ {cur}) \cup {y}
  <2>1. y \notin {F!HeaderOf(b) : b \in live}
    <3>1. \A b \in live : F!HeaderOf(b) \in DOMAIN header
      BY Clients DEF FreeListOK
    <3> QED
      BY <1>16, <3>1
  <2>2. y # cur
    BY <1>8, <1>16
  <2> QED
    BY <1>7, <1>19, <1>23, <2>1, <2>2
<1>25. FreeOK'
  <2>1. /\ Sorted(free, free_list, BlockNexts, start)
        /\ At(pre, cur, free, free_list, BlockNexts)
        /\ \A f \in free : F!End(f) \notin free
    BY <1>1, <1>2, <1>6, <1>7, Searching DEF FreeListOK, FreeOK, SearchesAt
  <2>2. /\ BlockNexts[cur] = header[cur].next
        /\ BlockNexts'[y] = BlockNexts[cur]
        /\ \A f \in free \ {cur} :
             BlockNexts'[f] = IF f = pre THEN y ELSE BlockNexts[f]
    BY <1>8, <1>19, <1>20, <1>21 DEF BlockNexts
  <2>3. y \notin free /\ y \in Nat \ {NULL} /\ y >= start
    BY <1>8, <1>15, <1>16 DEF NULL
  <2>4. pre # NULL => pre < y
    <3> SUFFICES ASSUME pre # NULL PROVE pre < y
      OBVIOUS
    <3>1. pre \in Nat /\ cur \in Nat /\ y \in Nat /\ pre < cur /\ cur < y
      BY <1>8, <1>9, <1>15
    <3> QED
      BY <3>1
  <2>5. BlockNexts[cur] # NULL => y < BlockNexts[cur]
    <3> SUFFICES ASSUME BlockNexts[cur] # NULL PROVE y < BlockNexts[cur]
      OBVIOUS
    <3>1. PICK x \in DOMAIN header : x = header[cur].next /\ x > cur
      BY <1>8, <2>2
    <3>2. x \in Nat /\ x >= F!End(cur)
      BY <1>9, <1>10, <3>1
    <3> QED
      BY <1>8, <1>9, <1>15, <2>2, <3>1, <3>2
  <2>6. Sorted((free \ {cur}) \cup {y}, IF pre = NULL THEN y ELSE free_list, BlockNexts', start)
    BY <1>8, <1>10, <2>1, <2>2, <2>3, <2>4, <2>5, SortedReplace
  <2>7. Sorted((free \ {cur}) \cup {y}, free_list', BlockNexts', start')
    BY <1>5, <2>6
  <2>8. ASSUME NEW f \in (free \ {cur}) \cup {y} PROVE F!End(f)' \notin (free \ {cur}) \cup {y}
    <3>1. CASE f = y
      <4>1. F!End(f)' = F!End(cur)
        BY <1>15, <1>21, <3>1 DEF F!End
      <4>2. F!End(cur) # y
        BY <1>8, <1>9, <1>15
      <4> QED
        BY <1>8, <2>1, <4>1, <4>2
    <3>2. CASE f \in free \ {cur}
      <4>1. F!End(f)' = F!End(f)
        BY <1>8, <1>20, <3>2 DEF F!End
      <4>2. F!End(f) # y
        BY <1>8, <1>9, <1>10, <1>15, <1>16, <3>2
      <4> QED
        BY <2>1, <3>2, <4>1, <4>2
    <3> QED
      BY <3>1, <3>2
  <2> QED
    BY <1>24, <2>7, <2>8 DEF FreeOK
<1> QED
  BY <1>5, <1>22, <1>23, <1>25 DEF FreeListOK

\* free's answer, whatever it did to the blocks no client holds.
LEMMA InsertKeeps ==
  ASSUME FreeListOK, call.op = "free", F!Answer,
         UNCHANGED <<allocation_count, bytes_allocated, live>>,
         \A b \in live : /\ F!HeaderOf(b) \in DOMAIN header'
                         /\ header'[F!HeaderOf(b)].size = header[F!HeaderOf(b)].size
  PROVE  /\ ClientsOK' /\ CountOK' /\ SearchOK'
         /\ F!FreeBlocks' = DOMAIN header' \ {F!HeaderOf(b) : b \in live}
         /\ F!FreeBlocks = DOMAIN header \ ({F!HeaderOf(b) : b \in live} \cup {call.arg})
PROOF
<1>1. call' = F!Idle /\ prev' = NULL /\ current' = NULL /\ call'.op # "free"
  BY FreeCalls DEF F!Answer, F!NULL, NULL
<1>2. \A x : F!HeaderOf(x)' = F!HeaderOf(x)
  BY DEF F!HeaderOf
<1>3. \A b \in live : F!End(F!HeaderOf(b))' = F!End(F!HeaderOf(b))
  <2> SUFFICES ASSUME NEW b \in live PROVE F!End(F!HeaderOf(b))' = F!End(F!HeaderOf(b))
    OBVIOUS
  <2>1. PICK x : x = F!HeaderOf(b)
    OBVIOUS
  <2>2. F!End(x)' = F!End(x)
    BY <2>1 DEF F!End
  <2> QED
    BY <1>2, <2>1, <2>2
<1>4. ClientsOK'
  <2>1. ASSUME NEW b \in live'
        PROVE  /\ F!HeaderOf(b)' \in DOMAIN header'
               /\ b.ptr + b.len <= F!End(F!HeaderOf(b))'
    BY <1>2, <1>3, Clients DEF FreeListOK
  <2>2. \A b, c \in live' : F!HeaderOf(b)' = F!HeaderOf(c)' => b = c
    BY <1>2 DEF FreeListOK, ClientsOK
  <2>3. live' \subseteq [ptr : Nat, len : Sizes, align : {ALIGNMENT}]
    BY DEF FreeListOK, ClientsOK
  <2> QED
    BY <2>1, <2>2, <2>3 DEF ClientsOK, F!DataInsideBlocks
<1>5. UsedBytes' = UsedBytes
  <2> DEFINE bytes(b)  == F!HeaderOf(b) .. F!End(F!HeaderOf(b)) - 1
             bytes2(b) == F!HeaderOf(b)' .. F!End(F!HeaderOf(b))' - 1
  <2>1. UsedBytes' = UNION {bytes2(b) : b \in live'} /\ UsedBytes = UNION {bytes(b) : b \in live}
    BY DEF UsedBytes
  <2>2. \A b \in live : bytes2(b) = bytes(b)
    BY <1>2, <1>3
  <2> HIDE DEF bytes, bytes2
  <2> QED
    BY <2>1, <2>2
<1>6. CountOK'
  BY <1>5 DEF FreeListOK, CountOK
<1>7. SearchOK'
  BY <1>1 DEF SearchOK
<1>8. F!FreeBlocks' = DOMAIN header' \ {F!HeaderOf(b) : b \in live}
  BY <1>1, <1>2 DEF F!FreeBlocks
<1> QED
  BY <1>4, <1>6, <1>7, <1>8 DEF F!FreeBlocks

\* No listed address lies between pre and cur.
LEMMA Between ==
  ASSUME NEW lo \in Nat, NEW free, NEW head, NEW next, Sorted(free, head, next, lo),
         NEW pre, NEW cur, At(pre, cur, free, head, next),
         NEW x \in Nat, x \notin free, pre # NULL => pre < x, cur # NULL => ~(cur < x)
  PROVE  /\ cur # NULL => cur \in free /\ x < cur
         /\ pre # NULL => pre \in free
         /\ \A f \in free : f < x => pre # NULL /\ f <= pre
         /\ \A f \in free : x < f => cur # NULL /\ cur <= f
PROOF
<1>1. /\ free \subseteq Nat /\ NULL \notin free
      /\ IsFirst(head, free, lo)
      /\ \A f \in free : IsFirst(next[f], free, f + 1) /\ f >= lo
  BY DEF Sorted
<1>2. CASE pre = NULL /\ cur = head
  <2>1. cur # NULL => cur \in free /\ cur \in Nat /\ x < cur /\ \A f \in free : cur <= f
    <3> SUFFICES ASSUME cur # NULL
                 PROVE  cur \in free /\ cur \in Nat /\ x < cur /\ \A f \in free : cur <= f
      OBVIOUS
    <3>1. cur \in free /\ cur \in Nat /\ \A f \in free : f >= cur /\ f \in Nat
      BY <1>1, <1>2 DEF IsFirst
    <3>2. cur # x /\ ~(cur < x)
      BY <3>1
    <3> QED
      BY <3>1, <3>2
  <2>2. cur = NULL => free = {}
    <3> SUFFICES ASSUME cur = NULL, NEW f \in free PROVE FALSE
      OBVIOUS
    <3>1. f \in Nat /\ f < lo /\ f >= lo
      BY <1>1, <1>2 DEF IsFirst
    <3> QED
      BY <3>1
  <2>3. \A f \in free : ~(f < x)
    BY <1>1, <2>1, <2>2
  <2> QED
    BY <1>2, <2>1, <2>2, <2>3
<1>3. CASE pre \in free /\ cur = next[pre]
  <2>1. pre \in Nat /\ pre # NULL /\ pre < x /\ IsFirst(cur, free, pre + 1)
    BY <1>1, <1>3
  <2>2. cur # NULL => cur \in free /\ cur \in Nat /\ x < cur
                      /\ \A f \in free : f > pre => cur <= f
    <3> SUFFICES ASSUME cur # NULL
                 PROVE  cur \in free /\ cur \in Nat /\ x < cur
                        /\ \A f \in free : f > pre => cur <= f
      OBVIOUS
    <3>1. cur \in free /\ cur \in Nat
          /\ \A f \in free : f \in Nat /\ (f >= pre + 1 => f >= cur)
      BY <1>1, <2>1 DEF IsFirst
    <3>2. cur # x /\ ~(cur < x)
      BY <3>1
    <3> QED
      BY <2>1, <3>1, <3>2
  <2>3. cur = NULL => \A f \in free : f <= pre
    BY <1>1, <2>1 DEF IsFirst
  <2>4. ASSUME NEW f \in free PROVE /\ f < x => f <= pre
                                    /\ x < f => cur # NULL /\ cur <= f
    <3>1. f \in Nat
      BY <1>1
    <3> QED
      BY <2>1, <2>2, <2>3, <3>1
  <2> QED
    BY <1>3, <2>1, <2>2, <2>4
<1> QED
  BY <1>2, <1>3 DEF At

LEMMA InsertStep ==
  ASSUME FreeListOK, F!Insert
  PROVE  FreeListOK' /\ live' = live /\ UNCHANGED <<start, size>>
PROOF
<1>1. PICK cur : cur = current
  OBVIOUS
<1>2. PICK pre : pre = prev
  OBVIOUS
<1>3. PICK freed : freed = call.arg
  OBVIOUS
<1>4. PICK free : free = F!FreeBlocks
  OBVIOUS
<1> DEFINE next   == freed + header[freed].size = cur
           before == pre # NULL /\ pre + header[pre].size = freed
<1>5. PICK block : block = IF next
                           THEN [size |-> header[freed].size + header[cur].size,
                                 next |-> header[cur].next]
                           ELSE [size |-> header[freed].size, next |-> cur]
  OBVIOUS
<1>6. PICK absorbed : absorbed = (IF next THEN {cur} ELSE {}) \cup (IF before THEN {freed} ELSE {})
  OBVIOUS
<1>7. /\ call.op = "free" /\ ~(cur # NULL /\ cur < freed)
      /\ header' =
           [a \in DOMAIN header \ absorbed |->
              CASE a = freed -> block
                [] a = pre /\ before ->
                     [size |-> header[pre].size + block.size, next |-> block.next]
                [] a = pre /\ ~before -> [header[pre] EXCEPT !.next = freed]
                [] OTHER -> header[a]]
      /\ free_list' = IF pre = NULL THEN freed ELSE free_list
      /\ F!Answer /\ UNCHANGED <<start, size, allocation_count, bytes_allocated, live>>
  BY <1>1, <1>2, <1>3, <1>5, <1>6
     DEF F!Insert, F!Ahead, F!TouchesNext, F!TouchesPrev, F!HeadAfter, F!Answer, F!arena,
         F!counters, F!NULL, NULL
<1>8. call # F!Idle
  BY <1>7, FreeCalls
<1>9. /\ Sorted(free, free_list, BlockNexts, start) /\ At(pre, cur, free, free_list, BlockNexts)
      /\ NULL \notin free /\ free \subseteq DOMAIN header
      /\ freed \in DOMAIN header \ free
      /\ \A b \in live : F!HeaderOf(b) # freed
      /\ pre # NULL => pre < freed
      /\ \A f \in free : F!End(f) \notin free
  BY <1>1, <1>2, <1>3, <1>4, <1>7, <1>8, Searching DEF FreeListOK, FreeOK, SearchesAt, F!FreeBlocks
<1>10. start \in Nat \ {0} /\ size \in Nat
  BY Arena DEF FreeListOK
<1>11. \A a \in DOMAIN header : /\ a \in Nat \ {0} /\ a >= start /\ header[a] \in F!BlockHeader
                                /\ header[a].size \in Nat /\ header[a].size > 0
                                /\ header[a].next \in Nat
                                /\ a % ALIGNMENT = 0
                                /\ F!End(a) = a + header[a].size /\ F!End(a) \in Nat
                                /\ \A c \in DOMAIN header : c > a => c >= F!End(a)
  BY Blocks DEF FreeListOK
<1>12. freed \in Nat /\ freed # 0 /\ freed \notin free
  BY <1>9, <1>11
<1>13. /\ cur # NULL => cur \in free /\ freed < cur
       /\ pre # NULL => pre \in free
       /\ \A f \in free : f < freed => pre # NULL /\ f <= pre
       /\ \A f \in free : freed < f => cur # NULL /\ cur <= f
  BY <1>7, <1>9, <1>10, <1>12, Between
<1>14. next => cur # NULL /\ cur \in free /\ freed < cur
  BY <1>9, <1>11, <1>12, <1>13 DEF NULL
<1>15. pre # NULL => pre # freed /\ pre # cur
  <2> SUFFICES ASSUME pre # NULL PROVE pre # freed /\ pre # cur
    OBVIOUS
  <2>1. pre \in Nat /\ pre < freed
    BY <1>9, <1>11, <1>13
  <2>2. cur # NULL => cur \in Nat /\ freed < cur
    BY <1>9, <1>11, <1>13
  <2> QED
    BY <1>12, <2>1, <2>2
<1> HIDE DEF next, before
<1>16. /\ block \in F!BlockHeader /\ block.size \in Nat
       /\ block.size = IF next THEN header[freed].size + header[cur].size ELSE header[freed].size
       /\ block.next = IF next THEN header[cur].next ELSE cur
  <2>1. CASE next
    BY <1>5, <1>9, <1>11, <1>14, <2>1 DEF F!BlockHeader
  <2>2. CASE ~next
    <3>1. cur \in Nat
      BY <1>9, <1>11, <1>13 DEF NULL
    <3> QED
      BY <1>5, <1>9, <1>11, <2>2, <3>1 DEF F!BlockHeader
  <2> QED
    BY <2>1, <2>2
<1>17. before => pre # NULL /\ pre \in free
  BY <1>13 DEF before
<1>18. /\ DOMAIN header' = DOMAIN header \ absorbed
       /\ ~before => freed \in DOMAIN header' /\ header'[freed] = block
       /\ pre # NULL => pre \in DOMAIN header'
       /\ before => header'[pre] = [size |-> header[pre].size + block.size, next |-> block.next]
       /\ pre # NULL /\ ~before => header'[pre] = [header[pre] EXCEPT !.next = freed]
       /\ \A a \in DOMAIN header' : a # freed /\ a # pre => header'[a] = header[a]
  <2>1. DOMAIN header' = DOMAIN header \ absorbed
    BY <1>7
  <2>2. next => freed # cur
    BY <1>9, <1>14
  <2>3. ~before => freed \in DOMAIN header' /\ header'[freed] = block
    <3> SUFFICES ASSUME ~before PROVE freed \in DOMAIN header' /\ header'[freed] = block
      OBVIOUS
    <3>1. freed \in DOMAIN header \ absorbed
      BY <1>6, <1>9, <2>2
    <3>2. freed # pre
      BY <1>12, <1>15 DEF NULL
    <3> QED
      BY <1>7, <3>1, <3>2
  <2>4. pre # NULL => pre \in DOMAIN header'
    BY <1>6, <1>9, <1>13, <1>15, <2>1
  <2>5. before => header'[pre] = [size |-> header[pre].size + block.size, next |-> block.next]
    BY <1>7, <1>15, <1>17, <2>1, <2>4
  <2>6. pre # NULL /\ ~before => header'[pre] = [header[pre] EXCEPT !.next = freed]
    BY <1>7, <1>15, <2>1, <2>4
  <2>7. \A a \in DOMAIN header' : a # freed /\ a # pre => header'[a] = header[a]
    BY <1>7, <2>1
  <2> QED
    BY <2>1, <2>3, <2>4, <2>5, <2>6, <2>7
<1>19. ASSUME NEW a \in DOMAIN header'
       PROVE  /\ a \in DOMAIN header /\ header'[a] \in F!BlockHeader
              /\ header'[a].size = IF a = freed THEN block.size
                                   ELSE IF a = pre /\ before THEN header[pre].size + block.size
                                   ELSE header[a].size
              /\ header'[a].next = IF a = freed THEN block.next
                                   ELSE IF a = pre /\ before THEN block.next
                                   ELSE IF a = pre THEN freed
                                   ELSE header[a].next
  <2>1. a \in DOMAIN header /\ header[a] \in F!BlockHeader /\ a # NULL
    BY <1>11, <1>18 DEF NULL
  <2>2. CASE a = freed
    <3>1. ~before
      BY <1>6, <1>18, <2>2
    <3> QED
      BY <1>16, <1>18, <2>1, <2>2, <3>1
  <2>3. CASE a = pre /\ before
    <3>1. header'[a] = [size |-> header[pre].size + block.size, next |-> block.next] /\ a # freed
      BY <1>15, <1>18, <2>1, <2>3
    <3>2. header[pre].size + block.size \in Nat /\ block.next \in Nat
      BY <1>11, <1>16, <2>1, <2>3 DEF F!BlockHeader
    <3> QED
      BY <2>1, <2>3, <3>1, <3>2 DEF F!BlockHeader
  <2>4. CASE a = pre /\ ~before
    <3>1. header'[a] = [header[a] EXCEPT !.next = freed] /\ a # freed
      BY <1>15, <1>18, <2>1, <2>4
    <3> QED
      BY <1>12, <2>1, <2>4, <3>1 DEF F!BlockHeader
  <2>5. CASE a # freed /\ a # pre
    BY <1>18, <2>1, <2>5
  <2> QED
    BY <2>2, <2>3, <2>4, <2>5
<1>20. BlocksOK'
  <2>1. PICK s : s = BlockSizes
    OBVIOUS
  <2>2. PICK t : t = BlockSizes'
    OBVIOUS
  <2>3. PICK hi \in Nat : hi = start + size
    BY <1>10
  <2>4. /\ DOMAIN s = DOMAIN header /\ \A a \in DOMAIN s : s[a] = header[a].size
        /\ Tiling(s, start, hi)
    BY <2>1, <2>3 DEF BlockSizes, FreeListOK, BlocksOK
  <2>5. DOMAIN t = DOMAIN header \ absorbed /\ \A a \in DOMAIN t : t[a] = header'[a].size
    BY <1>18, <2>2 DEF BlockSizes
  <2>6. \E mid : /\ Tiling(mid, start, hi)
                 /\ DOMAIN mid = IF next THEN DOMAIN header \ {cur} ELSE DOMAIN header
                 /\ mid[freed] = block.size
                 /\ \A a \in DOMAIN mid \ {freed} : mid[a] = header[a].size
    <3>1. CASE ~next
      BY <1>9, <1>16, <2>4, <3>1
    <3>2. CASE next
      <4>1. PICK mid : mid = [a \in DOMAIN s \ {cur} |->
                                IF a = freed THEN s[freed] + s[cur] ELSE s[a]]
        OBVIOUS
      <4>2. /\ freed \in DOMAIN s /\ cur \in DOMAIN s /\ freed + s[freed] = cur /\ freed # cur
        BY <1>9, <1>14, <2>4, <3>2 DEF next
      <4>3. /\ DOMAIN mid = DOMAIN s \ {cur} /\ mid[freed] = s[freed] + s[cur]
            /\ \A a \in DOMAIN s \ {freed, cur} : mid[a] = s[a]
        BY <4>1, <4>2
      <4>4. Tiling(mid, start, hi)
        BY <1>10, <2>4, <4>2, <4>3, TilingJoin
      <4>5. /\ mid[freed] = block.size
            /\ \A a \in DOMAIN mid \ {freed} : mid[a] = header[a].size
        BY <1>16, <2>4, <3>2, <4>2, <4>3
      <4> QED
        BY <2>4, <3>2, <4>3, <4>4, <4>5
    <3> QED
      BY <3>1, <3>2
  <2>7. PICK mid : /\ Tiling(mid, start, hi)
                   /\ DOMAIN mid = IF next THEN DOMAIN header \ {cur} ELSE DOMAIN header
                   /\ mid[freed] = block.size
                   /\ \A a \in DOMAIN mid \ {freed} : mid[a] = header[a].size
    BY <2>6
  <2>8. freed \in DOMAIN mid
    BY <1>9, <1>14, <2>7
  <2>9. Tiling(t, start, hi)
    <3>1. CASE before
      <4>1. pre \in DOMAIN mid /\ pre # freed /\ pre + mid[pre] = freed
        BY <1>9, <1>15, <1>17, <2>7, <3>1 DEF before
      <4>2. DOMAIN t = DOMAIN mid \ {freed}
        BY <1>6, <2>5, <2>7, <3>1
      <4>3. t[pre] = mid[pre] + mid[freed]
        BY <1>19, <2>5, <2>7, <3>1, <4>1, <4>2, <1>18
      <4>4. \A a \in DOMAIN mid \ {pre, freed} : t[a] = mid[a]
        BY <1>18, <1>19, <2>5, <2>7, <4>2
      <4> QED
        BY <1>10, <2>7, <2>8, <4>1, <4>2, <4>3, <4>4, TilingJoin
    <3>2. CASE ~before
      <4>1. DOMAIN t = DOMAIN mid
        BY <1>6, <2>5, <2>7, <3>2
      <4>2. \A a \in DOMAIN mid : t[a] = mid[a]
        BY <1>18, <1>19, <2>5, <2>7, <3>2, <4>1
      <4> QED
        BY <2>7, <4>1, <4>2 DEF Tiling
    <3> QED
      BY <3>1, <3>2
  <2>10. Tiling(BlockSizes', start', start' + size')
    BY <1>7, <2>2, <2>3, <2>9
  <2>11. \A a \in DOMAIN header' : header'[a] \in F!BlockHeader /\ a % ALIGNMENT = 0
    BY <1>11, <1>19
  <2> QED
    BY <2>10, <2>11 DEF BlocksOK, F!BlockHeader

<1>21. /\ ClientsOK' /\ CountOK' /\ SearchOK'
       /\ F!FreeBlocks' = DOMAIN header' \ {F!HeaderOf(b) : b \in live}
       /\ F!FreeBlocks = DOMAIN header \ ({F!HeaderOf(b) : b \in live} \cup {call.arg})
  <2>1. ASSUME NEW b \in live
        PROVE  /\ F!HeaderOf(b) \in DOMAIN header'
               /\ header'[F!HeaderOf(b)].size = header[F!HeaderOf(b)].size
    <3>1. PICK x : x = F!HeaderOf(b)
      OBVIOUS
    <3>2. x \in DOMAIN header \ free /\ x # freed
      BY <1>4, <1>9, <3>1, Clients DEF FreeListOK
    <3>3. x # NULL
      BY <1>11, <3>2 DEF NULL
    <3>4. x \notin absorbed /\ x # pre
      BY <1>6, <1>13, <1>14, <3>2, <3>3
    <3>5. x \in DOMAIN header' /\ header'[x].size = header[x].size
      BY <1>18, <3>2, <3>4
    <3> QED
      BY <3>1, <3>5
  <2> QED
    BY <1>7, <2>1, InsertKeeps
<1>22. PICK rest : rest = IF next THEN free \ {cur} ELSE free
  OBVIOUS
<1>23. F!FreeBlocks' = (rest \cup {freed}) \ (IF before THEN {freed} ELSE {})
  <2>1. PICK held : held = {F!HeaderOf(b) : b \in live}
    OBVIOUS
  <2>2. free = DOMAIN header \ (held \cup {freed})
    BY <1>3, <1>4, <1>21, <2>1
  <2>3. F!FreeBlocks' = (DOMAIN header \ absorbed) \ held
    BY <1>18, <1>21, <2>1
  <2>4. freed \notin held /\ freed \in DOMAIN header /\ (next => cur # freed)
    BY <1>9, <1>14, <2>1
  <2> QED
    BY <1>6, <1>22, <2>2, <2>3, <2>4
<1>24. PICK links : links = [f \in rest \cup {freed} |->
                               IF f = freed THEN block.next
                               ELSE IF f = pre THEN freed ELSE header[f].next]
  OBVIOUS
<1>25. PICK head : head = free_list'
  OBVIOUS
<1>26. \A f \in free : BlockNexts[f] = header[f].next
  BY <1>9 DEF BlockNexts
<1>27. /\ rest \subseteq free /\ freed \notin rest /\ freed \in Nat \ {NULL} /\ freed >= start
       /\ links[freed] = block.next
       /\ \A f \in rest : links[f] = IF f = pre THEN freed ELSE BlockNexts[f]
  BY <1>9, <1>11, <1>12, <1>22, <1>24, <1>26 DEF NULL
<1>28. Sorted(rest \cup {freed}, head, links, start)
  <2>1. CASE next
    <3>1. cur \in free /\ rest = free \ {cur} /\ links[freed] = BlockNexts[cur]
      BY <1>14, <1>16, <1>22, <1>26, <1>27, <2>1
    <3>2. BlockNexts[cur] # NULL => freed < BlockNexts[cur]
      <4> SUFFICES ASSUME BlockNexts[cur] # NULL PROVE freed < BlockNexts[cur]
        OBVIOUS
      <4>1. PICK x : x = BlockNexts[cur]
        OBVIOUS
      <4>2. x \in free /\ x >= cur + 1
        BY <1>9, <3>1, <4>1 DEF Sorted, IsFirst
      <4>3. x \in Nat /\ cur \in Nat /\ freed < cur
        BY <1>9, <1>11, <1>14, <2>1, <3>1, <4>2
      <4> QED
        BY <1>12, <4>1, <4>2, <4>3
    <3>3. Sorted((free \ {cur}) \cup {freed}, IF pre = NULL THEN freed ELSE free_list, links, start)
      BY <1>9, <1>10, <1>12, <1>27, <3>1, <3>2, SortedReplace
    <3> QED
      BY <1>7, <1>25, <3>1, <3>3
  <2>2. CASE ~next
    <3>1. rest = free /\ links[freed] = cur
      BY <1>16, <1>22, <1>27, <2>2
    <3>2. Sorted(free \cup {freed}, IF pre = NULL THEN freed ELSE free_list, links, start)
      BY <1>9, <1>10, <1>12, <1>13, <1>27, <3>1, SortedInsert
    <3> QED
      BY <1>7, <1>25, <3>1, <3>2
  <2> QED
    BY <2>1, <2>2
<1>29. pre # NULL => pre \in rest
  BY <1>13, <1>15, <1>22
<1>30. PICK after : after = F!FreeBlocks'
  OBVIOUS
<1>31. after \subseteq DOMAIN header'
  BY <1>21, <1>30
<1>32. Sorted(after, head, BlockNexts', start)
  <2>1. \A f \in after : BlockNexts'[f] = header'[f].next
    BY <1>31 DEF BlockNexts
  <2>2. CASE before
    <3>1. after = (rest \cup {freed}) \ {freed}
      BY <1>23, <1>30, <2>2
    <3>2. At(pre, freed, rest \cup {freed}, head, links)
      BY <1>17, <1>27, <1>29, <2>2 DEF At
    <3>3. \A f \in (rest \cup {freed}) \ {freed} :
            BlockNexts'[f] = IF f = pre THEN links[freed] ELSE links[f]
      <4> SUFFICES ASSUME NEW f \in (rest \cup {freed}) \ {freed}
                   PROVE  BlockNexts'[f] = IF f = pre THEN links[freed] ELSE links[f]
        OBVIOUS
      <4>1. f \in after /\ f # freed /\ f \in rest /\ f \in DOMAIN header'
        BY <1>31, <3>1
      <4> QED
        BY <1>19, <1>26, <1>27, <2>1, <2>2, <4>1
    <3>4. Sorted((rest \cup {freed}) \ {freed}, IF pre = NULL THEN links[freed] ELSE head,
                 BlockNexts', start)
      <4>1. freed \in rest \cup {freed}
        OBVIOUS
      <4>2. PICK all : all = rest \cup {freed}
        OBVIOUS
      <4> QED
        BY <1>10, <1>28, <3>2, <3>3, <4>1, <4>2, SortedRemove
    <3> QED
      BY <1>17, <2>2, <3>1, <3>4
  <2>3. CASE ~before
    <3>1. after = rest \cup {freed}
      BY <1>23, <1>30, <2>3
    <3>2. ASSUME NEW f \in after PROVE BlockNexts'[f] = links[f]
      <4>1. f \in DOMAIN header' /\ f \in rest \cup {freed}
        BY <1>31, <3>1
      <4>2. CASE f = freed
        BY <1>19, <1>27, <2>1, <4>1, <4>2
      <4>3. CASE f # freed
        BY <1>19, <1>26, <1>27, <2>1, <2>3, <4>1, <4>3
      <4> QED
        BY <4>2, <4>3
    <3> QED
      BY <1>28, <3>1, <3>2 DEF Sorted
  <2> QED
    BY <2>2, <2>3

<1>33. ASSUME NEW f \in after PROVE F!End(f)' \notin after
  <2>1. /\ f \in DOMAIN header' /\ f \in DOMAIN header /\ after \subseteq free \cup {freed}
        /\ F!End(f)' = f + header'[f].size
    BY <1>19, <1>22, <1>23, <1>30, <1>31 DEF F!End
  <2>2. PICK n \in Nat : n = header[freed].size /\ n > 0 /\ F!End(freed) = freed + n
    BY <1>9, <1>11
  <2>3. CASE f = freed \/ (f = pre /\ before)
    <3>1. F!End(f)' = freed + block.size
      <4>1. CASE f = freed
        BY <1>19, <2>1, <4>1
      <4>2. CASE f # freed /\ f = pre /\ before
        <5>1. header'[f].size = header[pre].size + block.size /\ pre + header[pre].size = freed
          BY <1>19, <2>1, <4>2 DEF before
        <5>2. pre \in Nat /\ header[pre].size \in Nat /\ block.size \in Nat
          BY <1>11, <1>16, <2>1, <4>2
        <5> QED
          BY <2>1, <4>2, <5>1, <5>2
      <4> QED
        BY <2>3, <4>1, <4>2
    <3>2. CASE next
      <4>1. PICK k \in Nat : k = header[cur].size /\ k > 0 /\ F!End(cur) = cur + k /\ cur \in Nat
        BY <1>9, <1>11, <1>14, <3>2
      <4>2. block.size = n + k /\ freed + n = cur
        BY <1>16, <2>2, <3>2, <4>1 DEF next
      <4>3. F!End(f)' = F!End(cur) /\ F!End(cur) # freed
        BY <1>12, <2>2, <3>1, <4>1, <4>2
      <4> QED
        BY <1>9, <1>14, <2>1, <3>2, <4>3
    <3>3. CASE ~next
      <4>1. F!End(f)' = F!End(freed) /\ F!End(freed) # freed /\ F!End(freed) > freed
        BY <1>12, <1>16, <2>2, <3>1, <3>3
      <4>2. F!End(freed) \notin free
        <5> SUFFICES ASSUME F!End(freed) \in free PROVE FALSE
          OBVIOUS
        <5>1. PICK e \in Nat : e = F!End(freed)
          BY <2>2, <1>12
        <5>2. e \in free /\ freed < e
          BY <1>12, <4>1, <5>1
        <5>3. cur # NULL /\ cur <= e /\ cur \in free /\ freed < cur
          BY <1>13, <5>2
        <5>4. cur \in Nat /\ cur >= e
          BY <1>9, <1>11, <1>12, <5>1, <5>3
        <5>5. cur = e
          BY <5>1, <5>3, <5>4
        <5> QED
          BY <2>2, <3>3, <5>1, <5>5 DEF next
      <4> QED
        BY <2>1, <4>1, <4>2
    <3> QED
      BY <3>2, <3>3
  <2>4. CASE f # freed /\ ~(f = pre /\ before)
    <3>1. f \in free /\ F!End(f)' = F!End(f)
      BY <1>19, <2>1, <2>4 DEF F!End
    <3>2. ~before => F!End(f) # freed
      <4> SUFFICES ASSUME ~before, F!End(f) = freed PROVE FALSE
        OBVIOUS
      <4>1. PICK k \in Nat : k = header[f].size /\ k > 0 /\ F!End(f) = f + k /\ f \in Nat
        BY <1>11, <2>1
      <4>2. f < freed
        BY <4>1
      <4>3. pre # NULL /\ f <= pre /\ pre \in free /\ pre < freed
        BY <1>9, <1>13, <3>1, <4>2
      <4>4. pre \in DOMAIN header /\ pre \in Nat
        BY <1>9, <1>11, <4>3
      <4>5. ~(pre > f)
        BY <1>11, <1>12, <2>1, <4>3, <4>4
      <4>6. pre = f
        BY <4>1, <4>3, <4>4, <4>5
      <4> QED
        BY <4>1, <4>3, <4>6 DEF before
    <3>3. before => freed \notin after
      BY <1>23, <1>30
    <3> QED
      BY <1>9, <2>1, <3>1, <3>2, <3>3
  <2> QED
    BY <2>3, <2>4
<1>34. FreeOK'
  BY <1>7, <1>25, <1>30, <1>32, <1>33 DEF FreeOK
<1> QED
  BY <1>7, <1>20, <1>21, <1>34 DEF FreeListOK

(***************************************************************************)
(* Every step, and what the invariant implies.                             *)
(***************************************************************************)
LEMMA FreeListTurn ==
  ASSUME FreeListOK, F!Next
  PROVE  /\ FreeListOK' /\ UNCHANGED <<start, size>>
         /\ \/ live' = live
            \/ \E b \in live : live' = live \ {b}
            \/ \E b : b \notin live /\ live' = live \cup {b}
PROOF
<1>1. ASSUME NEW n \in Sizes, F!Alloc(n)
      PROVE  FreeListOK' /\ UNCHANGED <<start, size>> /\ live' = live
  BY <1>1, SearchStep
<1>2. ASSUME NEW b \in live, F!Free(b)
      PROVE  FreeListOK' /\ UNCHANGED <<start, size>> /\ live' = live \ {b}
  BY <1>2, FreeStep
<1>3. CASE F!TooSmall \/ F!Below
  BY <1>3, AdvanceStep
<1>4. CASE F!Split
  BY <1>4, SplitStep
<1>5. CASE F!UseWhole
  BY <1>5, UseWholeStep
<1>6. CASE F!OutOfMemory
  BY <1>6, OutOfMemoryStep
<1>7. CASE F!Insert
  BY <1>7, InsertStep
<1> QED
  BY <1>1, <1>2, <1>3, <1>4, <1>5, <1>6, <1>7 DEF F!Next, F!Step

\* The clients' bytes lie in the arena, are aligned and are nobody else's.
ClientsApart ==
  \A b \in live :
    /\ b.ptr .. b.ptr + b.len - 1 \subseteq start .. start + size - 1
    /\ b.ptr % b.align = 0
    /\ \A c \in live :
         c # b => (b.ptr .. b.ptr + b.len - 1) \cap (c.ptr .. c.ptr + c.len - 1) = {}

LEMMA ClientBytes == FreeListOK => ClientsApart
PROOF
<1> SUFFICES ASSUME FreeListOK PROVE ClientsApart
  OBVIOUS
<1>1. start \in Nat \ {0} /\ size \in Nat
  BY Arena DEF FreeListOK
<1>2. ASSUME NEW b \in live
      PROVE  /\ F!HeaderOf(b) \in DOMAIN header /\ F!HeaderOf(b) \in Nat /\ F!HeaderOf(b) >= start
             /\ F!HeaderOf(b) % ALIGNMENT = 0
             /\ F!End(F!HeaderOf(b)) \in Nat /\ F!End(F!HeaderOf(b)) <= start + size
             /\ b.ptr \in Nat /\ b.len \in Nat /\ b.ptr = F!HeaderOf(b) + HEADER_SIZE
             /\ b.ptr + b.len <= F!End(F!HeaderOf(b))
             /\ b.align = ALIGNMENT
  <2>1. PICK a : a = F!HeaderOf(b)
    OBVIOUS
  <2>2. /\ b.ptr \in Nat /\ b.len \in Nat /\ b.align = ALIGNMENT /\ a = b.ptr - HEADER_SIZE
        /\ a \in DOMAIN header /\ b.ptr + b.len <= F!End(a)
    BY <2>1, Clients DEF FreeListOK
  <2>3. /\ a \in Nat /\ a >= start /\ a % ALIGNMENT = 0
        /\ F!End(a) \in Nat /\ F!End(a) <= start + size
    BY <2>2, Blocks DEF FreeListOK
  <2>4. b.ptr = a + HEADER_SIZE
    BY <2>2, <2>3, Layout
  <2> QED
    BY <2>1, <2>2, <2>3, <2>4
<1>3. ASSUME NEW b \in live
      PROVE  /\ b.ptr .. b.ptr + b.len - 1 \subseteq
                  F!HeaderOf(b) .. F!End(F!HeaderOf(b)) - 1
             /\ b.ptr .. b.ptr + b.len - 1 \subseteq start .. start + size - 1
             /\ b.ptr % b.align = 0
  <2>1. PICK a \in Nat : a = F!HeaderOf(b)
    BY <1>2
  <2>2. PICK e \in Nat : e = F!End(a)
    BY <1>2, <2>1
  <2>3. PICK p \in Nat : p = b.ptr
    BY <1>2
  <2>4. PICK n \in Nat : n = b.len
    BY <1>2
  <2>5. p = a + HEADER_SIZE /\ p + n <= e /\ e <= start + size /\ a >= start /\ a % ALIGNMENT = 0
        /\ b.align = ALIGNMENT
    BY <1>2, <2>1, <2>2, <2>3, <2>4
  <2>6. p .. p + n - 1 \subseteq a .. e - 1 /\ p .. p + n - 1 \subseteq start .. start + size - 1
    BY <1>1, <2>5, Layout
  <2>7. p % ALIGNMENT = 0
    <3>1. a \in Int /\ HEADER_SIZE \in Int
      BY Layout
    <3> QED
      BY <2>5, <3>1, Layout, AlignedSum
  <2> QED
    BY <2>1, <2>2, <2>3, <2>4, <2>5, <2>6, <2>7
<1>4. ASSUME NEW b \in live, NEW c \in live, c # b
      PROVE  (b.ptr .. b.ptr + b.len - 1) \cap (c.ptr .. c.ptr + c.len - 1) = {}
  <2>1. PICK x \in DOMAIN header : x = F!HeaderOf(b)
    BY <1>2
  <2>2. PICK y \in DOMAIN header : y = F!HeaderOf(c)
    BY <1>2
  <2>3. x # y
    BY <1>4, <2>1, <2>2 DEF FreeListOK, ClientsOK
  <2>4. (x .. F!End(x) - 1) \cap (y .. F!End(y) - 1) = {}
    BY <2>3, BlocksApart DEF FreeListOK
  <2> QED
    BY <1>3, <2>1, <2>2, <2>4
<1> QED
  BY <1>3, <1>4 DEF ClientsApart

\* FreeListTiled, state by state.
LEMMA FreeListTiles ==
  ASSUME FreeListOK
  PROVE  F!TypeOK /\ F!Tiled /\ F!DataInsideBlocks /\ F!Coalesced
PROOF
<1>1. start \in Nat \ {0} /\ size \in Nat
  BY Arena DEF FreeListOK
<1>2. DOMAIN header \subseteq start .. start + size - 1 /\ start \in DOMAIN header
  <2>1. PICK hi : hi = start + size
    OBVIOUS
  <2>2. hi \in Nat /\ DOMAIN BlockSizes \subseteq start .. hi - 1 /\ start \in DOMAIN BlockSizes
    BY <1>1, <2>1 DEF FreeListOK, BlocksOK, Tiling
  <2>3. DOMAIN BlockSizes = DOMAIN header
    BY DEF BlockSizes
  <2> QED
    BY <1>1, <2>1, <2>2, <2>3
<1>3. F!Tiled
  BY <1>2, Blocks DEF FreeListOK, F!Tiled
<1>4. F!DataInsideBlocks /\ F!Coalesced
  BY DEF FreeListOK, ClientsOK, FreeOK, F!Coalesced
<1>5. allocation_count \in Nat /\ bytes_allocated \in Nat
  BY UsedFinite, FS_CardinalityType DEF FreeListOK, CountOK
<1>6. {free_list, prev, current} \subseteq DOMAIN header \cup {NULL}
  <2>1. F!FreeBlocks \subseteq DOMAIN header
    BY DEF F!FreeBlocks
  <2>2. free_list \in F!FreeBlocks \cup {NULL}
    BY DEF FreeListOK, FreeOK, Sorted, IsFirst
  <2>3. CASE call = F!Idle
    <3>1. call.op = "none"
      BY <2>3, FreeCalls
    <3>2. prev = NULL /\ current = NULL
      BY <3>1, FreeCalls DEF FreeListOK, SearchOK
    <3> QED
      BY <2>1, <2>2, <3>2
  <2>4. CASE call # F!Idle
    BY <2>1, <2>2, <2>4, Searching
  <2> QED
    BY <2>3, <2>4
<1>7. F!TypeOK
  BY <1>2, <1>5, <1>6, Blocks DEF FreeListOK, ClientsOK, F!TypeOK, F!NULL, NULL
<1> QED
  BY <1>3, <1>4, <1>7

\* ListExact of FreeList.
LEMMA FreeListList ==
  ASSUME FreeListOK
  PROVE  F!ListExact
PROOF
<1>1. /\ Sorted(F!FreeBlocks, free_list, BlockNexts, start)
      /\ F!FreeBlocks \subseteq DOMAIN header
  BY DEF FreeListOK, FreeOK, F!FreeBlocks
<1>2. ASSUME NEW a \in Nat, NEW x, IsFirst(x, F!FreeBlocks, a) PROVE F!FirstFrom(a) = x
  <2> DEFINE behind == {f \in F!FreeBlocks : f >= a}
  <2>1. F!FirstFrom(a) = IF behind = {} THEN NULL
                         ELSE CHOOSE f \in behind : \A g \in behind : f <= g
    BY DEF F!FirstFrom, F!NULL, NULL
  <2>2. F!FreeBlocks \subseteq Nat
    BY <1>1 DEF Sorted
  <2>3. CASE x = NULL /\ \A f \in F!FreeBlocks : f < a
    <3>1. ASSUME NEW f \in behind PROVE FALSE
      <4>1. f \in Nat /\ f >= a /\ f < a
        BY <2>2, <2>3
      <4> QED
        BY <4>1
    <3> QED
      BY <2>1, <2>3, <3>1
  <2>4. CASE x \in F!FreeBlocks /\ x >= a /\ \A f \in F!FreeBlocks : f >= a => f >= x
    <3>1. x \in behind /\ \A g \in behind : x <= g
      <4>1. x \in Nat /\ \A g \in behind : g \in Nat /\ g >= x
        BY <2>2, <2>4
      <4>2. x \in behind
        BY <2>4
      <4> QED
        BY <4>1, <4>2
    <3>2. \A f \in behind : (\A g \in behind : f <= g) => f = x
      BY <2>2, <3>1
    <3> HIDE DEF behind
    <3> QED
      BY <2>1, <3>1, <3>2
  <2> QED
    BY <1>2, <2>3, <2>4 DEF IsFirst
<1>3. start \in Nat
  BY Arena DEF FreeListOK
<1>4. free_list = F!FirstFrom(start)
  BY <1>1, <1>2, <1>3 DEF Sorted
<1>5. ASSUME NEW f \in F!FreeBlocks PROVE header[f].next = F!FirstFrom(f + 1)
  <2>1. BlockNexts[f] = header[f].next /\ f \in Nat
    BY <1>1 DEF BlockNexts, Sorted
  <2>2. IsFirst(header[f].next, F!FreeBlocks, f + 1) /\ f + 1 \in Nat
    BY <1>1, <2>1 DEF Sorted
  <2> QED
    BY <1>2, <2>2
<1> QED
  BY <1>4, <1>5 DEF F!ListExact

\* Every byte of the arena is in a block.
LEMMA BytesInBlocks ==
  ASSUME FreeListOK, NEW y \in start .. start + size - 1
  PROVE  \E a \in DOMAIN header : y \in a .. F!End(a) - 1
PROOF
<1>1. start \in Nat \ {0} /\ size \in Nat /\ y \in Nat /\ start <= y /\ y < start + size
  BY Arena DEF FreeListOK
<1>2. ASSUME NEW a \in DOMAIN header
      PROVE  /\ a \in Nat /\ F!End(a) \in Nat /\ a < F!End(a)
             /\ F!End(a) \in DOMAIN header \cup {start + size}
  BY Blocks DEF FreeListOK
<1>3. start \in DOMAIN header
  BY FreeListTiles DEF F!Tiled
<1> DEFINE T == {y - a : a \in {x \in DOMAIN header : x <= y}}
<1>4. T \subseteq Nat /\ T # {}
  BY <1>1, <1>2, <1>3
<1>5. PICK d \in T : \A e \in T : d <= e
  BY <1>4, Least
<1>6. PICK a \in DOMAIN header : a <= y /\ d = y - a
  OBVIOUS
<1>7. \A x \in DOMAIN header : x <= y => y - a <= y - x
  BY <1>5, <1>6
<1> HIDE DEF T
<1>8. PICK e : e = F!End(a)
  OBVIOUS
<1>9. a \in Nat /\ e \in Nat /\ a < e /\ e \in DOMAIN header \cup {start + size}
  BY <1>2, <1>8
<1>10. y < e
  BY <1>1, <1>7, <1>9
<1> QED
  BY <1>1, <1>6, <1>8, <1>9, <1>10

LEMMA FreeListSums ==
  ASSUME NEW f, NEW T
  PROVE  F!SumFunction(f) = SumFunction(f) /\ F!Cardinality(T) = Cardinality(T)
BY Zenon DEF F!SumFunction, F!SumFunctionOnSet, F!FoldFunctionOnSet, F!MapThenFoldSet, F!Cardinality,
             SumFunction, SumFunctionOnSet, FoldFunctionOnSet, MapThenFoldSet, Cardinality

\* StatsAgree of FreeList: between calls, bytes in use and free blocks make up
\* the arena.
LEMMA FreeListCounts ==
  ASSUME FreeListOK
  PROVE  F!StatsAgree
PROOF
<1> SUFFICES ASSUME call = F!Idle
             PROVE  /\ bytes_allocated = size - SumFunction([f \in F!FreeBlocks |-> header[f].size])
                    /\ allocation_count = Cardinality(live)
  BY FreeListSums DEF F!StatsAgree
<1>1. PICK free : free = F!FreeBlocks
  OBVIOUS
<1> DEFINE bytes == [f \in free |-> f .. F!End(f) - 1]
           sizes == [f \in free |-> header[f].size]
           freeBytes == UNION {bytes[f] : f \in free}
<1>2. free = DOMAIN header \ {F!HeaderOf(b) : b \in live}
  BY <1>1, FreeCalls DEF F!FreeBlocks
<1>3. start \in Nat \ {0} /\ size \in Nat
  BY Arena DEF FreeListOK
<1>4. PICK arena : arena = start .. start + size - 1
  OBVIOUS
<1>5. IsFiniteSet(arena) /\ Cardinality(arena) = size
  <2>1. start \in Int /\ start + size - 1 \in Int
    BY <1>3
  <2>2. IsFiniteSet(arena) /\ Cardinality(arena) = IF start > start + size - 1 THEN 0
                                              ELSE (start + size - 1) - start + 1
    BY <1>4, <2>1, FS_Interval
  <2> QED
    BY <1>3, <2>2
<1>6. ASSUME NEW a \in DOMAIN header
      PROVE  /\ a \in arena /\ a .. F!End(a) - 1 \subseteq arena
             /\ IsFiniteSet(a .. F!End(a) - 1) /\ Cardinality(a .. F!End(a) - 1) = header[a].size
             /\ header[a].size \in Nat
  <2>1. /\ a \in Nat /\ a >= start /\ a < start + size
        /\ header[a].size \in Nat /\ header[a].size > 0
        /\ F!End(a) = a + header[a].size /\ F!End(a) \in Nat /\ F!End(a) <= start + size
    BY Blocks DEF FreeListOK
  <2>2. PICK m \in Nat, e \in Nat : m = header[a].size /\ e = F!End(a)
    BY <2>1
  <2>3. e = a + m /\ m > 0 /\ e <= start + size
    BY <2>1, <2>2
  <2>4. /\ IsFiniteSet(a .. e - 1)
        /\ Cardinality(a .. e - 1) = IF a > e - 1 THEN 0 ELSE (e - 1) - a + 1
    <3>1. a \in Int /\ e - 1 \in Int
      BY <2>1
    <3> QED
      BY <3>1, FS_Interval
  <2>5. Cardinality(a .. e - 1) = m
    BY <2>1, <2>3, <2>4
  <2>6. a \in arena /\ a .. e - 1 \subseteq arena
    BY <1>3, <1>4, <2>1, <2>3
  <2> QED
    BY <2>2, <2>4, <2>5, <2>6
<1>7. IsFiniteSet(free) /\ free \subseteq DOMAIN header
  <2>1. free \subseteq arena
    BY <1>2, <1>6
  <2> QED
    BY <1>2, <1>5, <2>1, FS_Subset
<1>8. IsFiniteSet(freeBytes) /\ Cardinality(freeBytes) = SumFunction(sizes)
  <2>1. sizes \in [free -> Int]
    BY <1>6, <1>7
  <2>2. \A f \in free : IsFiniteSet(bytes[f]) /\ sizes[f] = Cardinality(bytes[f])
    BY <1>6, <1>7
  <2>3. ASSUME NEW f \in free, NEW g \in free, f # g PROVE bytes[f] \cap bytes[g] = {}
    <3>1. (f .. F!End(f) - 1) \cap (g .. F!End(g) - 1) = {}
      BY <1>7, <2>3, BlocksApart DEF FreeListOK
    <3> QED
      BY <3>1
  <2> HIDE DEF bytes, sizes
  <2>4. DisjointSets(bytes, sizes, free)
    BY <2>2, <2>3 DEF DisjointSets
  <2> QED
    BY <1>7, <2>1, <2>4, SumOfSizes
<1>9. \A x : x \in freeBytes <=> \E f \in free : x \in f .. F!End(f) - 1
  OBVIOUS
<1>10. \A x : x \in UsedBytes
              <=> \E b \in live : x \in F!HeaderOf(b) .. F!End(F!HeaderOf(b)) - 1
  BY DEF UsedBytes
<1>11. \A b \in live : F!HeaderOf(b) \in DOMAIN header /\ F!HeaderOf(b) \notin free
  BY <1>2, Clients DEF FreeListOK
<1> HIDE DEF freeBytes
<1>12. freeBytes \cap UsedBytes = {}
  <2> SUFFICES ASSUME NEW x \in freeBytes, x \in UsedBytes PROVE FALSE
    OBVIOUS
  <2>1. PICK f \in free : x \in f .. F!End(f) - 1
    BY <1>9
  <2>2. PICK b \in live : x \in F!HeaderOf(b) .. F!End(F!HeaderOf(b)) - 1
    BY <1>10
  <2>3. PICK a \in DOMAIN header : a = F!HeaderOf(b) /\ a # f
    BY <1>11
  <2>4. (f .. F!End(f) - 1) \cap (a .. F!End(a) - 1) = {}
    BY <1>7, <2>3, BlocksApart DEF FreeListOK
  <2> QED
    BY <2>1, <2>2, <2>3, <2>4
<1>13. freeBytes \cup UsedBytes = arena
  <2>1. freeBytes \subseteq arena
    BY <1>6, <1>7, <1>9
  <2>2. UsedBytes \subseteq arena
    BY <1>6, <1>10, <1>11
  <2>3. ASSUME NEW y \in arena PROVE y \in freeBytes \cup UsedBytes
    <3>1. PICK a \in DOMAIN header : y \in a .. F!End(a) - 1
      BY <1>4, BytesInBlocks
    <3>2. a \in free \/ \E b \in live : a = F!HeaderOf(b)
      BY <1>2
    <3> QED
      BY <1>9, <1>10, <3>1, <3>2
  <2> QED
    BY <2>1, <2>2, <2>3
<1>14. IsFiniteSet(UsedBytes) /\ Cardinality(UsedBytes) \in Nat
  BY UsedFinite
<1>15. Cardinality(arena) = Cardinality(freeBytes) + Cardinality(UsedBytes) - Cardinality({})
  BY <1>8, <1>12, <1>13, <1>14, FS_Union
<1>16. Cardinality({}) = 0 /\ Cardinality(freeBytes) \in Nat
  BY <1>8, FS_EmptySet, FS_CardinalityType
<1>17. Cardinality(UsedBytes) = size - SumFunction(sizes)
  <2> HIDE DEF sizes
  <2> QED
    BY <1>3, <1>5, <1>8, <1>14, <1>15, <1>16
<1> QED
  BY <1>1, <1>17 DEF FreeListOK, CountOK
===============================================================================
