---------------------------- MODULE BytecodeProofs ----------------------------
(***************************************************************************)
(* Lemmas about Bytecode that the proofs about both machines use: what the *)
(* arithmetic yields, where a jump can lead, and what the preflight has    *)
(* established once it lets a program through.                             *)
(***************************************************************************)
EXTENDS Bytecode, TLAPS

\* normalize_i32 wraps every integer into the 32-bit range.
LEMMA NormalizeRange ==
  ASSUME NEW x \in Int
  PROVE  normalize_i32(x) \in I32
<1>1. x % (2 * Half) \in 0 .. (2 * Half - 1)
  BY LimitsAssumption
<1> QED
  BY <1>1, LimitsAssumption DEF normalize_i32, I32

\* Rust's truncating division by a nonzero number yields an integer.
LEMMA TruncDivInt ==
  ASSUME NEW a \in Int, NEW b \in Int, b # 0
  PROVE  TruncDiv(a, b) \in Int
<1>1. Abs(a) \in Nat /\ Abs(b) \in Nat \ {0}
  BY DEF Abs
<1>2. Abs(a) \div Abs(b) \in Int
  BY <1>1
<1> QED
  BY <1>2 DEF TruncDiv

\* What Add, Sub, Mul, Div, the comparisons, And and Or push is a 32-bit
\* value, whatever two integers were popped.
LEMMA BinaryResultRange ==
  ASSUME NEW op \in BinaryOps, NEW a \in Int, NEW b \in Int, op = "Div" => b # 0
  PROVE  BinaryResult(op, a, b) \in I32
<1>1. /\ a + b \in Int /\ a - b \in Int /\ a * b \in Int
      /\ {0, 1} \subseteq I32
  BY LimitsAssumption DEF I32
<1>2. CASE op \in {"Add", "Sub", "Mul"}
  BY <1>1, <1>2, NormalizeRange DEF BinaryResult
<1>3. CASE op = "Div"
  BY <1>3, TruncDivInt, NormalizeRange DEF BinaryResult
<1>4. CASE op \notin Arithmetic
  BY <1>1, <1>4 DEF BinaryResult, Bool, BinaryOps, Comparisons, Arithmetic
<1> QED
  BY <1>2, <1>3, <1>4 DEF Arithmetic

\* What Neg and Not push is a 32-bit value.
LEMMA UnaryResultRange ==
  ASSUME NEW op \in UnaryOps, NEW a \in Int
  PROVE  UnaryResult(op, a) \in I32
<1>1. -a \in Int /\ {0, 1} \subseteq I32
  BY LimitsAssumption DEF I32
<1> QED
  BY <1>1, NormalizeRange DEF UnaryResult, Bool

\* A 32-bit operand cast to usize is a natural number.
LEMMA AsUsizeNat == ASSUME NEW x \in I32 PROVE AsUsize(x) \in Nat
BY LimitsAssumption, UsizeAssumption DEF AsUsize, I32

\* validate_program reports real trap codes, and a program it lets through has
\* a main function and in every function room for the parameters.
LEMMA PreflightPasses ==
  ASSUME NEW p, IsProgram(p)
  PROVE  /\ PreflightTraps(p) \subseteq TrapCode \ {"None"}
         /\ PreflightTraps(p) = {} =>
              /\ p.main_func_id \in DOMAIN p.functions
              /\ Len(p.instructions) <= MAX_INSTRUCTIONS
              /\ \A f \in DOMAIN p.functions :
                   /\ p.functions[f] \in FunctionInfo
                   /\ p.functions[f].param_count <= p.functions[f].local_count
                   /\ p.functions[f].local_count <= MAX_LOCAL_SLOTS
<1>1. PreflightTraps(p) \subseteq TrapCode \ {"None"}
  BY DEF PreflightTraps, FunctionTrap, TrapCode
<1>2. ASSUME PreflightTraps(p) = {}
      PROVE  /\ p.main_func_id \in DOMAIN p.functions
             /\ Len(p.instructions) <= MAX_INSTRUCTIONS
             /\ \A f \in DOMAIN p.functions : FunctionTrap(p.functions[f]) = "None"
  <2> DEFINE bad == {FunctionTrap(p.functions[f]) : f \in DOMAIN p.functions} \ {"None"}
  <2>1. Len(p.instructions) \in Nat
    BY DEF IsProgram
  <2>2. ~(Len(p.instructions) > MAX_INSTRUCTIONS) /\ bad = {}
    BY <1>2 DEF PreflightTraps
  <2>3. p.main_func_id \in DOMAIN p.functions
    BY <1>2, <2>2 DEF PreflightTraps
  <2>4. \A f \in DOMAIN p.functions : FunctionTrap(p.functions[f]) = "None"
    BY <2>2
  <2> QED
    BY <2>1, <2>2, <2>3, <2>4, LimitsAssumption
<1>3. \A f \in DOMAIN p.functions : p.functions[f] \in FunctionInfo
  BY DEF IsProgram
<1>4. ASSUME NEW g \in FunctionInfo, FunctionTrap(g) = "None"
      PROVE  g.param_count <= g.local_count /\ g.local_count <= MAX_LOCAL_SLOTS
  BY <1>4, LimitsAssumption DEF FunctionTrap, FunctionInfo
<1> QED
  BY <1>1, <1>2, <1>3, <1>4
===============================================================================
