SPECIFICATION Spec
CONSTANTS
  Half = 16
  USIZE_MAX = 99
  MAX_GLOBAL_SLOTS = 3
  MAX_LOCAL_SLOTS = 8
  MAX_FRAMES = 3
  MAX_OPERAND_STACK = 3
  MAX_CYCLES = 16
  MAX_INSTRUCTIONS = 10
  JIT_FRAME_WORDS = 8
  Programs <- NegatedMin
INVARIANT
  JitAgrees
