SPECIFICATION Spec
CONSTANTS
  Half = 32
  USIZE_MAX = 999
  MAX_GLOBAL_SLOTS = 3
  MAX_LOCAL_SLOTS = 6
  MAX_FRAMES = 3
  MAX_OPERAND_STACK = 4
  MAX_CYCLES = 60
  MAX_INSTRUCTIONS = 50
  GC_THRESHOLD = 3
  Programs <- Compared
INVARIANTS
  ObservableAgreement
  OptimizedAgreement
  InStep
PROPERTY
  TracesAgree
