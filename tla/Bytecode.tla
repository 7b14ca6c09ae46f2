------------------------------- MODULE Bytecode -------------------------------
(***************************************************************************)
(* The bytecode of compiler.rs and the limits of limits.rs: what a         *)
(* CompiledProgram is, the preflight both virtual machines run on it, and  *)
(* the 32-bit arithmetic they share.  A program is any value of the Rust   *)
(* type, not only what the compiler emits: the machines accept bytecode    *)
(* built by hand (the unit tests of vm.rs and gc_vm.rs do so) and promise  *)
(* to trap on a malformed one.                                             *)
(***************************************************************************)
EXTENDS Integers, Sequences

CONSTANTS
  Half,               \* 2^31: i32 is -Half .. Half-1; TLC uses a small one
  USIZE_MAX,          \* usize::MAX, the return address of main's frame
  MAX_GLOBAL_SLOTS,   \* the limits of limits.rs, under their own names
  MAX_LOCAL_SLOTS,
  MAX_FRAMES,
  MAX_OPERAND_STACK,
  MAX_CYCLES,         \* 0 means unlimited
  MAX_INSTRUCTIONS,
  Programs            \* the programs a run may be given

(***************************************************************************)
(* Opcodes, instructions, metadata.  Names and constants pools are left    *)
(* out: no backend reads them.  A FunctionInfo's id is its key.            *)
(***************************************************************************)
Arithmetic  == {"Add", "Sub", "Mul", "Div"}
Comparisons == {"Eq", "Ne", "Lt", "Gt", "Le", "Ge"}
BinaryOps   == Arithmetic \cup Comparisons \cup {"And", "Or"}
UnaryOps    == {"Neg", "Not"}
Jumps       == {"Jump", "JumpIfFalse", "JumpIfTrue"}
Allocations == {"AllocArray", "ArrayNew"}

Opcode == BinaryOps \cup UnaryOps \cup Jumps \cup Allocations \cup
          {"LoadConst", "LoadLocal", "StoreLocal", "LoadGlobal", "StoreGlobal",
           "Call", "Return", "ArrayLoad", "ArrayStore", "LocalArrayLoad",
           "LocalArrayStore", "Print", "Pop", "Dup", "Halt"}

TrapCode == {"None", "DivideByZero", "UndefinedLocal", "ArrayOutOfBounds",
             "StackOverflow", "CycleLimit", "UndefinedFunction",
             "StackUnderflow", "InvalidInstruction"}

I32 == (-Half) .. (Half - 1)

Instruction  == [opcode : Opcode, arg1 : I32, arg2 : I32]
FunctionInfo == [entry_pc : Nat, param_count : Nat, local_count : Nat]
GlobalInfo   == [slot : Nat, is_array : BOOLEAN, array_size : Nat]

IsProgram(p) ==
  /\ p.instructions \in Seq(Instruction)
  /\ DOMAIN p.functions \subseteq Nat
  /\ p.functions \in [DOMAIN p.functions -> FunctionInfo]
  /\ p.globals \in [DOMAIN p.globals -> GlobalInfo]
  /\ p.main_func_id \in Nat

ASSUME LimitsAssumption ==
  /\ Half \in Nat \ {0, 1}
  /\ MAX_GLOBAL_SLOTS \in Nat
  /\ MAX_LOCAL_SLOTS \in Nat
  /\ MAX_FRAMES \in Nat \ {0}
  /\ MAX_OPERAND_STACK \in Nat \ {0}
  /\ MAX_CYCLES \in Nat
  /\ MAX_INSTRUCTIONS \in Nat

\* No 32-bit jump target, sign-extended to usize, falls into the code by
\* wrapping around, and no return address equals the sentinel.
ASSUME UsizeAssumption ==
  /\ USIZE_MAX \in Nat
  /\ MAX_INSTRUCTIONS + Half < USIZE_MAX

ASSUME ProgramsAssumption == \A p \in Programs : IsProgram(p)

(***************************************************************************)
(* 32-bit arithmetic on i64 carriers.                                      *)
(***************************************************************************)

\* i64::MIN, the reference VM's marker of an undefined local.
I64Min == -(2 * Half * Half)

\* `x as usize` of an i32 x.
AsUsize(x) == IF x >= 0 THEN x ELSE USIZE_MAX + 1 + x

\* MUTANT of normalize_i32: the comparison with 0x7FFFFFFF is off by one.
NormalizeOffByOne(value) ==
  LET masked == value % (2 * Half)
  IN  IF masked > Half THEN masked - 2 * Half ELSE masked

normalize_i32(value) ==
  LET masked == value % (2 * Half)
  IN  IF masked >= Half THEN masked - 2 * Half ELSE masked

Abs(x) == IF x < 0 THEN -x ELSE x

\* Rust's `/` truncates toward zero; \div rounds down.
TruncDiv(a, b) ==
  IF (a < 0) = (b < 0) THEN Abs(a) \div Abs(b) ELSE -(Abs(a) \div Abs(b))

Bool(b) == IF b THEN 1 ELSE 0

\* The value a binary opcode pushes for a (below) and b (on top).
BinaryResult(op, a, b) ==
  CASE op = "Add" -> normalize_i32(a + b)
    [] op = "Sub" -> normalize_i32(a - b)
    [] op = "Mul" -> normalize_i32(a * b)
    [] op = "Div" -> normalize_i32(TruncDiv(a, b))
    [] op = "Eq"  -> Bool(a = b)
    [] op = "Ne"  -> Bool(a # b)
    [] op = "Lt"  -> Bool(a < b)
    [] op = "Gt"  -> Bool(a > b)
    [] op = "Le"  -> Bool(a <= b)
    [] op = "Ge"  -> Bool(a >= b)
    [] op = "And" -> Bool(a # 0 /\ b # 0)
    [] op = "Or"  -> Bool(a # 0 \/ b # 0)

UnaryResult(op, a) == IF op = "Neg" THEN normalize_i32(-a) ELSE Bool(a = 0)

(***************************************************************************)
(* validate_program: the preflight of `run`.  The functions of a program   *)
(* are a HashMap, visited in no fixed order: the first bad one visited     *)
(* decides the trap, so with several bad ones any of their codes may come. *)
(***************************************************************************)
FunctionTrap(f) ==
  IF f.param_count > f.local_count THEN "InvalidInstruction"
  ELSE IF f.local_count > MAX_LOCAL_SLOTS THEN "StackOverflow"
  ELSE "None"

Width(g) == IF g.is_array THEN g.array_size ELSE 1

BadGlobals(p) ==
  \E x \in DOMAIN p.globals :
    \/ p.globals[x].is_array /\ p.globals[x].array_size = 0
    \/ p.globals[x].slot + Width(p.globals[x]) > MAX_GLOBAL_SLOTS

\* The trap codes `run` may stop with before the first instruction.
PreflightTraps(p) ==
  LET bad == {FunctionTrap(p.functions[f]) : f \in DOMAIN p.functions} \ {"None"}
  IN  IF Len(p.instructions) > MAX_INSTRUCTIONS THEN {"InvalidInstruction"}
      ELSE IF bad # {} THEN bad
      ELSE IF BadGlobals(p) THEN {"InvalidInstruction"}
      ELSE IF p.main_func_id \notin DOMAIN p.functions THEN {"UndefinedFunction"}
      ELSE {}

(***************************************************************************)
(* Checks.  A handler is a list of checks and pops followed by its effect. *)
(* A fault is the trap code of the first failing check and the operand     *)
(* stack at that moment, stk (earlier pops are not undone); f ?? g is the  *)
(* first of the two that fails.  Both machines have the same checks.       *)
(***************************************************************************)
NoFault == [code |-> "None", stack |-> <<>>]

f ?? g == IF f.code # "None" THEN f ELSE g

Fault(cond, code, stk) == IF cond THEN [code |-> code, stack |-> stk] ELSE NoFault

\* n pops in a row: the ones before the failing one have emptied the stack.
PopFault(stk, n) == Fault(Len(stk) < n, "StackUnderflow", <<>>)

\* MUTANT of PushFault: one operand too many fits.
PushFaultOffByOne(stk) == Fault(Len(stk) > MAX_OPERAND_STACK, "StackOverflow", stk)

PushFault(stk) == Fault(Len(stk) >= MAX_OPERAND_STACK, "StackOverflow", stk)

\* global_slot
GlobalFault(raw, stk) ==
  Fault(raw < 0 \/ raw >= MAX_GLOBAL_SLOTS, "InvalidInstruction", stk)

\* array_size
SizeFault(size, stk) == Fault(size < 0, "InvalidInstruction", stk)

\* global_array_range
GlobalRangeFault(base, size, stk) ==
  GlobalFault(base, stk)
    ?? SizeFault(size, stk)
    ?? Fault(base + size > MAX_GLOBAL_SLOTS, "InvalidInstruction", stk)

\* array_index
IndexFault(index, size, stk) ==
  Fault(index < 0 \/ index >= size, "ArrayOutOfBounds", stk)
===============================================================================
