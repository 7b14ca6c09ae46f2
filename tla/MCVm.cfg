SPECIFICATION FairSpec
CONSTANTS
  Half = 8
  USIZE_MAX = 99
  MAX_GLOBAL_SLOTS = 3
  MAX_LOCAL_SLOTS = 5
  MAX_FRAMES = 3
  MAX_OPERAND_STACK = 4
  MAX_CYCLES = 12
  MAX_INSTRUCTIONS = 10
  Programs <- Handmade
INVARIANTS
  TypeOK
  FrameLayout
  ReturnAddresses
  OperandsNormalized
PROPERTIES
  SuspendedFramesFrozen
  Termination
