\* The programs come from the compiler (PipelineInit), none from Programs.
SPECIFICATION PipelineSpec
CONSTANTS
  Half = 128
  USIZE_MAX = 299
  MAX_GLOBAL_SLOTS = 5
  MAX_LOCAL_SLOTS = 20
  MAX_FRAMES = 4
  MAX_OPERAND_STACK = 12
  MAX_CYCLES = 90
  MAX_INSTRUCTIONS = 80
  JIT_FRAME_WORDS = 20
  Programs = {}
  Sources <- Reentered
INVARIANT
  OracleAgrees
