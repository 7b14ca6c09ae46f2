---------------------------- MODULE AllocParameters ----------------------------
(***************************************************************************)
(* What the allocators of alloc.rs and the collector of gc.rs share: the   *)
(* layout, the arguments their constructors and clients may pass, and      *)
(* align_up, which both files define.                                      *)
(***************************************************************************)
EXTENDS Integers

CONSTANTS
  ALIGNMENT,
  HEADER_SIZE,      \* size_of::<BlockHeader>()
  POINTER_SIZE      \* size_of::<*mut u8>()

ASSUME LayoutAssumption ==
  /\ ALIGNMENT \in Nat \ {0}
  /\ HEADER_SIZE \in Nat \ {0} /\ HEADER_SIZE % ALIGNMENT = 0
  /\ POINTER_SIZE \in Nat \ {0}

CONSTANTS
  Bases,            \* addresses the system's allocator may return
  Capacities,       \* the region sizes passed to new
  Sizes,            \* the sizes passed to alloc
  Alignments        \* the alignments passed to alloc_aligned

ASSUME BasesAssumption == \A a \in Bases : a \in Nat \ {0} /\ a % ALIGNMENT = 0

\* An arena holds its first header.
ASSUME CapacitiesAssumption == \A n \in Capacities : n \in Nat /\ n >= HEADER_SIZE

ASSUME RequestsAssumption == Sizes \subseteq Nat /\ Alignments \subseteq Nat \ {0}

CONSTANTS
  MaxAllocations,   \* BOUND: the bump allocator serves requests of no bytes forever,
                    \* and the collector counts its objects
  requested_size,   \* the object size and the number of objects passed to
  objects_per_slab, \* SlabAllocator::new
  MaxSlabs          \* BOUND: the slab allocator grows as long as the system does

ASSUME SlabAssumption == requested_size \in Nat /\ objects_per_slab \in Nat \ {0}

CONSTANTS
  GC_HEADER_SIZE,   \* size_of::<GcHeader>()
  ARRAY_HEADER_SIZE,\* size_of::<ArrayHeader>()
  GcBases,          \* addresses of the collector's blocks
  ObjectSizes,      \* the sizes of the collector's objects
  gc_threshold

ASSUME CollectorAssumption ==
  /\ GC_HEADER_SIZE \in Nat \ {0} /\ GC_HEADER_SIZE % ALIGNMENT = 0
  /\ ARRAY_HEADER_SIZE \in Nat
  /\ \A a \in GcBases : a \in Nat \ {0} /\ a % ALIGNMENT = 0
  /\ ObjectSizes \subseteq Nat /\ gc_threshold \in Nat

NULL == 0

\* MUTANT of align_up: rounds down.
AlignDown(n, align) == (n \div align) * align

\* MUTANT of align_up: does not round.
AlignNot(n, align) == n

\* Code and model agree for powers of two, which Rust's alignments are.
align_up(n, align) == ((n + align - 1) \div align) * align
===============================================================================
