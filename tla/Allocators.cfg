\* Units of four bytes: alignment 8, header 16, pointers 8 bytes.
CONSTANTS
  ALIGNMENT = 2
  HEADER_SIZE = 4
  POINTER_SIZE = 2
  Bases = {6, 10, 12, 20}
  Capacities = {4, 11, 32}
  Sizes = {0, 1, 3, 8}
  Alignments = {1, 2, 4}
  MaxAllocations = 4
  requested_size = 1
  objects_per_slab = 2
  MaxSlabs = 3
  GC_HEADER_SIZE = 6
  ARRAY_HEADER_SIZE = 4
  GcBases = {10, 18, 30}
  ObjectSizes = {1, 6}
  gc_threshold = 16
SPECIFICATION FairSpec
INVARIANTS
  CountersAgree FreeListTiled ListsExact CollectorSweepComplete
PROPERTIES
  ImplementsHeap CallsReturn SlabGrowsOnlyWhenFull
  CollectorRootedSurvive CollectorGarbageBounded
