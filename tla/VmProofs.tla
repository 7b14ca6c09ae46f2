------------------------------- MODULE VmProofs -------------------------------
(***************************************************************************)
(* Proofs about Vm, for every value of the limits and every set of         *)
(* programs.  IInv is the inductive invariant: the data are values within  *)
(* their limits (DataOK), the control state has its types (ControlOK), the *)
(* frames are laid out and return as they should, and a running program    *)
(* has passed the preflight (Loaded).  DataOK says Seq(Values) where       *)
(* TypeOK says Seq(Int): without it OperandsNormalized would not be        *)
(* inductive, because what LoadLocal pushes is what StoreLocal stored.     *)
(* FrameLayout is needed by every access to `locals`, and Loaded by Call:  *)
(* only the preflight knows that a function has at least as many slots as  *)
(* parameters.                                                             *)
(***************************************************************************)
EXTENDS Vm, BytecodeProofs, SequenceTheorems

\* The undefined marker is an integer.
LEMMA I64MinInt == I64Min \in Int
BY LimitsAssumption DEF I64Min

-------------------------------------------------------------------------------
\* The operand stack, the locals, the globals and the output hold values.
DataOK ==
  /\ stack \in Seq(Values) /\ Len(stack) <= MAX_OPERAND_STACK
  /\ locals \in Seq(Values) /\ Len(locals) >= MAX_LOCAL_SLOTS
  /\ globals \in [1 .. MAX_GLOBAL_SLOTS -> Values]
  /\ output \in Seq(Values)
  /\ return_value \in Values

\* The rest of TypeOK.
ControlOK ==
  /\ IsProgram(prog)
  /\ pc \in Nat
  /\ call_stack \in Seq(FrameType) /\ Len(call_stack) <= MAX_FRAMES
  /\ cycles \in Nat /\ (MAX_CYCLES > 0 => cycles <= MAX_CYCLES)
  /\ status \in {"new", "running"} \cup Final
  /\ trap_code \in TrapCode
  /\ (trap_code # "None") <=> (status = "trapped")

\* A frame exists only once `run` has started, and it starts only what the
\* preflight accepts.
Loaded ==
  /\ status = "new" => call_stack = <<>>
  /\ status = "running" => PreflightTraps(prog) = {}

IInv == DataOK /\ ControlOK /\ FrameLayout /\ ReturnAddresses /\ Loaded

\* A fault a handler may trap with.
FaultOK(f) ==
  /\ f.code \in TrapCode
  /\ f.code # "None" => f.stack \in Seq(Values) /\ Len(f.stack) <= MAX_OPERAND_STACK

\* Every value is an integer; constants and the undefined marker are values.
LEMMA ValuesAreInt == Values \subseteq Int /\ I32 \subseteq Values /\ 0 \in I32 /\ I64Min \in Values
BY LimitsAssumption, I64MinInt DEF Values, I32

\* The innermost frame and the fetched instruction while `run` executes.
LEMMA RunningFacts ==
  ASSUME IInv, status = "running"
  PROVE  /\ Len(call_stack) \in 1 .. MAX_FRAMES
         /\ Frame \in FrameType
         /\ Frame.func_id \in DOMAIN prog.functions
         /\ LocalCount(Frame) \in Nat
         /\ Frame.base_ptr + LocalCount(Frame) <= MAX_LOCAL_SLOTS
         /\ pc < Len(Code) => Instr \in Instruction
<1>1. call_stack \in Seq(FrameType) /\ call_stack # <<>> /\ Len(call_stack) <= MAX_FRAMES
  BY DEF IInv, ControlOK, FrameLayout
<1>2. Len(call_stack) \in 1 .. MAX_FRAMES
  BY <1>1, LimitsAssumption
<1>3. Frame \in FrameType
  BY <1>1, <1>2 DEF Frame
<1>4. /\ Frame.func_id \in DOMAIN prog.functions
      /\ Frame.base_ptr + LocalCount(Frame) <= MAX_LOCAL_SLOTS
  BY <1>1, <1>2 DEF IInv, FrameLayout, Frame
<1>5. LocalCount(Frame) \in Nat
  BY <1>4 DEF IInv, ControlOK, IsProgram, LocalCount, FunctionInfo
<1>6. pc < Len(Code) => Instr \in Instruction
  BY DEF IInv, ControlOK, IsProgram, Instr, Code
<1> QED
  BY <1>2, <1>3, <1>4, <1>5, <1>6

\* A step that keeps the frames keeps what is said about them.
LEMMA FramesKept ==
  ASSUME IInv, UNCHANGED <<prog, call_stack>>, status = "running", status' # "new"
  PROVE  FrameLayout' /\ ReturnAddresses' /\ Loaded'
<1>1. FrameLayout'
  BY DEF IInv, FrameLayout, LocalCount
<1>2. ReturnAddresses'
  BY DEF IInv, ReturnAddresses, Code
<1>3. Loaded'
  BY DEF IInv, Loaded
<1> QED
  BY <1>1, <1>2, <1>3

\* Every trap (make_trap_result) keeps the invariant.
LEMMA TrapStep ==
  ASSUME IInv, NEW ops, NEW f, FaultOK(f), f.code # "None", Fetch(ops), Trap(f)
  PROVE  IInv'
<1>1. FrameLayout' /\ ReturnAddresses' /\ Loaded'
  BY FramesKept DEF Trap, Abort, Fetch
<1>2. DataOK'
  BY DEF IInv, DataOK, FaultOK, Trap, Abort, Values
<1>3. ControlOK'
  BY LimitsAssumption DEF IInv, ControlOK, FaultOK, Trap, Abort, Fetch, Final
<1> QED
  BY <1>1, <1>2, <1>3 DEF IInv

\* An instruction that replaces the operand stack by a good one keeps it.
LEMMA StackStep ==
  ASSUME IInv, NEW ops, NEW stk, stk \in Seq(Values), Len(stk) <= MAX_OPERAND_STACK,
         Fetch(ops), StackOnly(stk)
  PROVE  IInv'
<1>1. FrameLayout' /\ ReturnAddresses' /\ Loaded'
  BY FramesKept DEF StackOnly, Advance, GoTo, Fetch, result
<1>2. DataOK'
  BY DEF IInv, DataOK, StackOnly, Advance, GoTo, Values, result
<1>3. ControlOK'
  BY LimitsAssumption DEF IInv, ControlOK, StackOnly, Advance, GoTo, Fetch, result
<1> QED
  BY <1>1, <1>2, <1>3 DEF IInv

\* Popping n operands.
LEMMA Pops ==
  ASSUME IInv, NEW n \in Nat, n <= Len(stack)
  PROVE  /\ Drop(n) \in Seq(Values)
         /\ Len(Drop(n)) = Len(stack) - n
         /\ Len(stack) \in Nat /\ Len(stack) <= MAX_OPERAND_STACK
<1>1. stack \in Seq(Values) /\ Len(stack) \in Nat /\ Len(stack) <= MAX_OPERAND_STACK
  BY DEF IInv, DataOK
<1>2. Drop(n) \in Seq(Values) /\ Len(Drop(n)) = Len(stack) - n
  BY <1>1, SubSeqProperties DEF Drop
<1> QED
  BY <1>1, <1>2

\* The operands a handler pops are values.
LEMMA Operands ==
  ASSUME IInv
  PROVE  /\ 1 <= Len(stack) => Top(0) \in Values /\ Top(0) \in Int
         /\ 2 <= Len(stack) => Top(1) \in Values /\ Top(1) \in Int
                              /\ Top(0) \in Values /\ Top(0) \in Int
<1>1. stack \in Seq(Values) /\ Len(stack) \in Nat
  BY DEF IInv, DataOK
<1>2. 1 <= Len(stack) => Top(0) \in Values
  BY <1>1 DEF Top
<1>3. 2 <= Len(stack) => Top(1) \in Values
  BY <1>1 DEF Top
<1>4. 2 <= Len(stack) => 1 <= Len(stack)
  BY <1>1
<1> QED
  BY <1>2, <1>3, <1>4, ValuesAreInt

\* Pushing onto what n pops left.
LEMMA PushAfterPops ==
  ASSUME IInv, NEW n \in Nat, n <= Len(stack), NEW v \in Values,
         Len(stack) - n < MAX_OPERAND_STACK
  PROVE  /\ Append(Drop(n), v) \in Seq(Values)
         /\ Len(Append(Drop(n), v)) <= MAX_OPERAND_STACK
<1>1. Drop(n) \in Seq(Values) /\ Len(Drop(n)) = Len(stack) - n /\ Len(stack) \in Nat
  BY Pops
<1> QED
  BY <1>1, AppendProperties, LimitsAssumption

\* Pushing onto a stack below its limit.
LEMMA PushKeeps ==
  ASSUME IInv, NEW v \in Values, Len(stack) < MAX_OPERAND_STACK
  PROVE  /\ Append(stack, v) \in Seq(Values)
         /\ Len(Append(stack, v)) <= MAX_OPERAND_STACK
BY AppendProperties, LimitsAssumption DEF IInv, DataOK


\* A stack a trap may leave behind.
GoodStack(stk) == stk \in Seq(Values) /\ Len(stk) <= MAX_OPERAND_STACK

\* What pop and push check, and the stacks they leave.
LEMMA StackChecks ==
  ASSUME IInv
  PROVE  /\ GoodStack(stack) /\ GoodStack(<<>>)
         /\ \A n \in Nat : n <= Len(stack) => GoodStack(Drop(n))
         /\ \A n \in Nat : /\ FaultOK(PopFault(stack, n))
                           /\ PopFault(stack, n).code = "None" <=> n <= Len(stack)
         /\ FaultOK(PushFault(stack))
         /\ PushFault(stack).code = "None" <=> Len(stack) < MAX_OPERAND_STACK
<1>1. GoodStack(stack) /\ GoodStack(<<>>) /\ Len(stack) \in Nat
  BY LimitsAssumption DEF IInv, DataOK, GoodStack
<1>2. \A n \in Nat : n <= Len(stack) => GoodStack(Drop(n))
  BY Pops, LimitsAssumption DEF GoodStack
<1>3. ASSUME NEW n \in Nat
      PROVE  FaultOK(PopFault(stack, n)) /\ (PopFault(stack, n).code = "None" <=> n <= Len(stack))
  BY <1>1 DEF PopFault, Fault, NoFault, FaultOK, TrapCode, GoodStack
<1>4. FaultOK(PushFault(stack)) /\ (PushFault(stack).code = "None" <=> Len(stack) < MAX_OPERAND_STACK)
  BY <1>1, LimitsAssumption DEF PushFault, Fault, NoFault, FaultOK, TrapCode, GoodStack
<1> QED
  BY <1>1, <1>2, <1>3, <1>4

\* current_local_slot: a slot that passes lies in the running frame's window
\* of `locals`.
LEMMA SlotCheck ==
  ASSUME IInv, status = "running", NEW raw \in I32, NEW stk, GoodStack(stk)
  PROVE  /\ FaultOK(SlotFault(raw, stk))
         /\ SlotFault(raw, stk).code = "None" =>
              /\ raw \in Nat
              /\ Slot(raw) \in 1 .. MAX_LOCAL_SLOTS
              /\ Slot(raw) \in 1 .. Len(locals)
              /\ Slot(raw) > Frame.base_ptr
              /\ locals[Slot(raw)] \in Values
<1>1. /\ Frame.base_ptr \in Nat
      /\ LocalCount(Frame) \in Nat
      /\ Frame.base_ptr + LocalCount(Frame) <= MAX_LOCAL_SLOTS
  BY RunningFacts DEF FrameType
<1>2. FaultOK(SlotFault(raw, stk))
  BY <1>1, LimitsAssumption DEF SlotFault, Fault, NoFault, FaultOK, TrapCode, ??, GoodStack
<1>3. SlotFault(raw, stk).code = "None" => raw \in Nat /\ raw < LocalCount(Frame)
  BY <1>1, LimitsAssumption DEF SlotFault, Fault, NoFault, ??, I32
<1>4. locals \in Seq(Values) /\ Len(locals) \in Nat /\ MAX_LOCAL_SLOTS <= Len(locals)
  BY DEF IInv, DataOK
<1>5. ASSUME SlotFault(raw, stk).code = "None"
      PROVE  Slot(raw) \in 1 .. MAX_LOCAL_SLOTS /\ Slot(raw) \in 1 .. Len(locals) /\ Slot(raw) > Frame.base_ptr
  BY <1>1, <1>3, <1>4, <1>5, LimitsAssumption DEF Slot
<1> QED
  BY <1>2, <1>3, <1>4, <1>5

\* global_slot: a slot that passes is one of the globals.
LEMMA GlobalCheck ==
  ASSUME IInv, NEW raw \in I32, NEW stk, GoodStack(stk)
  PROVE  /\ FaultOK(GlobalFault(raw, stk))
         /\ GlobalFault(raw, stk).code = "None" =>
              raw + 1 \in 1 .. MAX_GLOBAL_SLOTS /\ globals[raw + 1] \in Values
BY LimitsAssumption DEF GlobalFault, Fault, NoFault, FaultOK, TrapCode, GoodStack, I32, IInv, DataOK

\* global_array_range: a range that passes lies within the globals.
LEMMA RangeCheck ==
  ASSUME NEW base \in I32, NEW size \in I32, NEW stk, GoodStack(stk)
  PROVE  /\ FaultOK(GlobalRangeFault(base, size, stk))
         /\ GlobalRangeFault(base, size, stk).code = "None" =>
              base \in Nat /\ size \in Nat /\ base + size <= MAX_GLOBAL_SLOTS
BY LimitsAssumption DEF GlobalRangeFault, GlobalFault, SizeFault, Fault, NoFault, FaultOK,
                        TrapCode, GoodStack, I32, ??

\* array_size: a size that passes is not negative.
LEMMA SizeCheck ==
  ASSUME NEW size \in I32, NEW stk, GoodStack(stk)
  PROVE  FaultOK(SizeFault(size, stk)) /\ (SizeFault(size, stk).code = "None" => size \in Nat)
BY LimitsAssumption DEF SizeFault, Fault, NoFault, FaultOK, TrapCode, GoodStack, I32

\* array_index: an index that passes is below the size.
LEMMA IndexCheck ==
  ASSUME NEW index \in Int, NEW size \in Int, NEW stk, GoodStack(stk)
  PROVE  /\ FaultOK(IndexFault(index, size, stk))
         /\ IndexFault(index, size, stk).code = "None" => index \in 0 .. (size - 1)
BY DEF IndexFault, Fault, NoFault, FaultOK, TrapCode, GoodStack

\* local_array_base: a base that passes has `size` elements behind it.
LEMMA BaseCheck ==
  ASSUME IInv, NEW base \in Values, NEW size \in Nat, NEW stk, GoodStack(stk)
  PROVE  /\ FaultOK(ArrayBaseFault(base, size, stk))
         /\ ArrayBaseFault(base, size, stk).code = "None" => base \in Nat /\ base + size <= Len(locals)
<1>1. base \in Int /\ Len(locals) \in Nat
  BY ValuesAreInt DEF IInv, DataOK
<1> QED
  BY <1>1 DEF ArrayBaseFault, Fault, NoFault, FaultOK, TrapCode, GoodStack, ??

\* The instruction execute_instruction is given, and its operands.
LEMMA FetchFacts ==
  ASSUME IInv, NEW ops, Fetch(ops)
  PROVE  /\ status = "running" /\ Instr \in Instruction /\ Instr.opcode \in ops
         /\ arg1 \in I32 /\ arg2 \in I32 /\ Instr.opcode \in Opcode
         /\ arg1 \in Values
         /\ arg1 \in Int /\ arg2 \in Int /\ pc \in Nat /\ Len(Code) \in Nat /\ pc < Len(Code)
         /\ prog' = prog
<1>1. status = "running" /\ pc < Len(Code) /\ Instr.opcode \in ops /\ prog' = prog
  BY DEF Fetch
<1>2. Instr \in Instruction
  BY <1>1, RunningFacts
<1>3. pc \in Nat /\ Len(Code) \in Nat
  BY DEF IInv, ControlOK, IsProgram, Code
<1>4. arg1 \in I32 /\ arg2 \in I32 /\ Instr.opcode \in Opcode
  BY <1>2 DEF Instruction, arg1, arg2
<1> QED
  BY <1>1, <1>2, <1>3, <1>4, ValuesAreInt

\* The handlers of execute_instruction keep the invariant, one lemma each:
\* LoadConst.
LEMMA LoadConstStep == ASSUME IInv, LoadConst PROVE IInv'
<1>1. FaultOK(PushFault(stack)) /\ Fetch({"LoadConst"})
  BY StackChecks DEF LoadConst
<1>2. CASE PushFault(stack).code # "None"
  BY <1>1, <1>2, TrapStep DEF LoadConst, Checked
<1>3. CASE PushFault(stack).code = "None"
  BY <1>1, <1>3, StackChecks, FetchFacts, PushKeeps, StackStep DEF LoadConst, Checked
<1> QED
  BY <1>2, <1>3

\* LoadLocal keeps it.
LEMMA LoadLocalStep == ASSUME IInv, LoadLocal PROVE IInv'
<1> DEFINE v == locals[Slot(arg1)]
<1> DEFINE undef == Fault(v = I64Min, "UndefinedLocal", stack)
<1> DEFINE f == SlotFault(arg1, stack) ?? undef ?? PushFault(stack)
<1>1. Fetch({"LoadLocal"}) /\ Checked(f, StackOnly(Append(stack, v)))
  BY DEF LoadLocal
<1>2. FaultOK(PushFault(stack)) /\ GoodStack(stack)
  BY StackChecks
<1>3. FaultOK(SlotFault(arg1, stack)) /\ (SlotFault(arg1, stack).code = "None" => v \in Values)
  BY <1>1, <1>2, FetchFacts, SlotCheck
<1>4. FaultOK(undef)
  BY <1>2 DEF Fault, NoFault, FaultOK, TrapCode, GoodStack
<1> HIDE DEF undef, v
<1>5. /\ FaultOK(f)
      /\ f.code = "None" => v \in Values /\ Len(stack) < MAX_OPERAND_STACK
  BY <1>2, <1>3, <1>4, StackChecks DEF FaultOK, ??
<1> HIDE DEF f
<1>6. CASE f.code # "None"
  BY <1>1, <1>5, <1>6, TrapStep DEF Checked
<1>7. CASE f.code = "None"
  BY <1>1, <1>5, <1>7, PushKeeps, StackStep DEF Checked
<1> QED
  BY <1>6, <1>7

\* LoadGlobal keeps it.
LEMMA LoadGlobalStep == ASSUME IInv, LoadGlobal PROVE IInv'
<1> DEFINE v == globals[arg1 + 1]
<1> DEFINE f == GlobalFault(arg1, stack) ?? PushFault(stack)
<1>1. Fetch({"LoadGlobal"}) /\ Checked(f, StackOnly(Append(stack, v)))
  BY DEF LoadGlobal
<1>2. FaultOK(PushFault(stack)) /\ GoodStack(stack)
  BY StackChecks
<1>3. FaultOK(GlobalFault(arg1, stack)) /\ (GlobalFault(arg1, stack).code = "None" => v \in Values)
  BY <1>1, <1>2, FetchFacts, GlobalCheck
<1> HIDE DEF v
<1>4. /\ FaultOK(f)
      /\ f.code = "None" => v \in Values /\ Len(stack) < MAX_OPERAND_STACK
  BY <1>2, <1>3, StackChecks DEF FaultOK, ??
<1> HIDE DEF f
<1>5. CASE f.code # "None"
  BY <1>1, <1>4, <1>5, TrapStep DEF Checked
<1>6. CASE f.code = "None"
  BY <1>1, <1>4, <1>6, PushKeeps, StackStep DEF Checked
<1> QED
  BY <1>5, <1>6

\* Binary keeps it.
LEMMA BinaryStep == ASSUME IInv, Binary PROVE IInv'
<1> DEFINE v == BinaryResult(Instr.opcode, Top(1), Top(0))
<1> DEFINE zero == Fault(Instr.opcode = "Div" /\ Top(0) = 0, "DivideByZero", Drop(2))
<1> DEFINE f == PopFault(stack, 2) ?? zero
<1>1. Fetch(BinaryOps) /\ Checked(f, StackOnly(Append(Drop(2), v)))
  BY DEF Binary
<1>2. FaultOK(PopFault(stack, 2)) /\ (PopFault(stack, 2).code = "None" <=> 2 <= Len(stack))
  BY StackChecks
<1>3. 2 <= Len(stack) =>
        /\ FaultOK(zero)
        /\ zero.code = "None" => (Instr.opcode = "Div" => Top(0) # 0)
  BY StackChecks DEF Fault, NoFault, FaultOK, TrapCode, GoodStack
<1>4. 2 <= Len(stack) /\ zero.code = "None" => v \in Values
  <2>1. SUFFICES ASSUME 2 <= Len(stack), zero.code = "None" PROVE v \in Values
    OBVIOUS
  <2>2. Top(0) \in Int /\ Top(1) \in Int
    BY <2>1, Operands
  <2> QED
    BY <1>1, <1>3, <2>1, <2>2, FetchFacts, BinaryResultRange, ValuesAreInt
<1> HIDE DEF v, zero
<1>5. FaultOK(f) /\ (f.code = "None" => v \in Values /\ 2 <= Len(stack))
  BY <1>2, <1>3, <1>4 DEF FaultOK, ??
<1> HIDE DEF f
<1>6. CASE f.code # "None"
  BY <1>1, <1>5, <1>6, TrapStep DEF Checked
<1>7. CASE f.code = "None"
  <2>1. Len(stack) - 2 < MAX_OPERAND_STACK
    BY <1>5, <1>7, Pops, LimitsAssumption
  <2> QED
    BY <1>1, <1>5, <1>7, <2>1, PushAfterPops, StackStep DEF Checked
<1> QED
  BY <1>6, <1>7

\* Unary keeps it.
LEMMA UnaryStep == ASSUME IInv, Unary PROVE IInv'
<1> DEFINE v == UnaryResult(Instr.opcode, Top(0))
<1> DEFINE f == PopFault(stack, 1)
<1>1. Fetch(UnaryOps) /\ Checked(f, StackOnly(Append(Drop(1), v)))
  BY DEF Unary
<1>2. FaultOK(f) /\ (f.code = "None" <=> 1 <= Len(stack))
  BY StackChecks
<1>3. 1 <= Len(stack) => v \in Values
  BY <1>1, Operands, FetchFacts, UnaryResultRange, ValuesAreInt
<1> HIDE DEF v, f
<1>4. CASE f.code # "None"
  BY <1>1, <1>2, <1>4, TrapStep DEF Checked
<1>5. CASE f.code = "None"
  <2>1. Len(stack) - 1 < MAX_OPERAND_STACK
    BY <1>2, <1>5, Pops, LimitsAssumption
  <2> QED
    BY <1>1, <1>2, <1>3, <1>5, <2>1, PushAfterPops, StackStep DEF Checked
<1> QED
  BY <1>4, <1>5

\* Pop keeps it.
LEMMA PopStep == ASSUME IInv, Pop PROVE IInv'
<1> DEFINE f == PopFault(stack, 1)
<1>1. Fetch({"Pop"}) /\ Checked(f, StackOnly(Drop(1)))
  BY DEF Pop
<1>2. FaultOK(f) /\ (f.code = "None" => GoodStack(Drop(1)))
  BY StackChecks
<1> HIDE DEF f
<1> QED
  BY <1>1, <1>2, TrapStep, StackStep DEF Checked, GoodStack

\* Dup keeps it.
LEMMA DupStep == ASSUME IInv, Dup PROVE IInv'
<1> DEFINE f == PopFault(stack, 1) ?? PushFault(stack)
<1>1. Fetch({"Dup"}) /\ Checked(f, StackOnly(Append(stack, Top(0))))
  BY DEF Dup
<1>2. FaultOK(f) /\ (f.code = "None" => 1 <= Len(stack) /\ Len(stack) < MAX_OPERAND_STACK)
  BY StackChecks DEF FaultOK, ??
<1>3. f.code = "None" => Top(0) \in Values
  BY <1>2, Operands
<1> HIDE DEF f
<1>4. CASE f.code # "None"
  BY <1>1, <1>2, <1>4, TrapStep DEF Checked
<1>5. CASE f.code = "None"
  BY <1>1, <1>2, <1>3, <1>5, PushKeeps, StackStep DEF Checked
<1> QED
  BY <1>4, <1>5

\* ArrayLoad keeps it.
LEMMA ArrayLoadStep == ASSUME IInv, ArrayLoad PROVE IInv'
<1> DEFINE v == globals[arg1 + Top(0) + 1]
<1> DEFINE range == GlobalRangeFault(arg1, arg2, stack)
<1> DEFINE idx == IndexFault(Top(0), arg2, Drop(1))
<1> DEFINE f == range ?? PopFault(stack, 1) ?? idx
<1>1. Fetch({"ArrayLoad"}) /\ Checked(f, StackOnly(Append(Drop(1), v)))
  BY DEF ArrayLoad
<1>2. FaultOK(PopFault(stack, 1)) /\ (PopFault(stack, 1).code = "None" <=> 1 <= Len(stack))
  BY StackChecks
<1>3. /\ FaultOK(range)
      /\ range.code = "None" => arg1 \in Nat /\ arg2 \in Nat /\ arg1 + arg2 <= MAX_GLOBAL_SLOTS
  BY <1>1, StackChecks, FetchFacts, RangeCheck
<1>4. 1 <= Len(stack) => FaultOK(idx) /\ (idx.code = "None" => Top(0) \in 0 .. (arg2 - 1))
  <2>1. SUFFICES ASSUME 1 <= Len(stack)
                 PROVE  FaultOK(idx) /\ (idx.code = "None" => Top(0) \in 0 .. (arg2 - 1))
    OBVIOUS
  <2>2. Top(0) \in Int /\ arg2 \in Int /\ GoodStack(Drop(1))
    BY <1>1, <2>1, Operands, StackChecks, FetchFacts
  <2> QED
    BY <2>2, IndexCheck
<1> HIDE DEF range, idx
<1>5. /\ FaultOK(f)
      /\ f.code = "None" =>
           /\ arg1 \in Nat /\ arg2 \in Nat /\ arg1 + arg2 <= MAX_GLOBAL_SLOTS
           /\ 1 <= Len(stack) /\ Top(0) \in 0 .. (arg2 - 1)
  BY <1>2, <1>3, <1>4 DEF FaultOK, ??
<1>6. f.code = "None" => v \in Values
  <2>1. ASSUME f.code = "None" PROVE arg1 + Top(0) + 1 \in 1 .. MAX_GLOBAL_SLOTS
    BY <1>5, <2>1, LimitsAssumption
  <2> QED
    BY <2>1 DEF IInv, DataOK
<1> HIDE DEF f, v
<1>7. CASE f.code # "None"
  BY <1>1, <1>5, <1>7, TrapStep DEF Checked
<1>8. CASE f.code = "None"
  <2>1. Len(stack) - 1 < MAX_OPERAND_STACK
    BY <1>5, <1>8, Pops, LimitsAssumption
  <2> QED
    BY <1>1, <1>5, <1>6, <1>8, <2>1, PushAfterPops, StackStep DEF Checked
<1> QED
  BY <1>7, <1>8

\* LocalArrayLoad keeps it.
LEMMA LocalArrayLoadStep == ASSUME IInv, LocalArrayLoad PROVE IInv'
<1> DEFINE base == locals[Slot(arg1)]
<1> DEFINE v == locals[base + Top(0) + 1]
<1> DEFINE size == SizeFault(arg2, stack)
<1> DEFINE idx == IndexFault(Top(0), arg2, Drop(1))
<1> DEFINE slot == SlotFault(arg1, Drop(1))
<1> DEFINE arr == ArrayBaseFault(base, arg2, Drop(1))
<1> DEFINE f == size ?? PopFault(stack, 1) ?? idx ?? slot ?? arr
<1>1. Fetch({"LocalArrayLoad"}) /\ Checked(f, StackOnly(Append(Drop(1), v)))
  BY DEF LocalArrayLoad
<1>2. FaultOK(PopFault(stack, 1)) /\ (PopFault(stack, 1).code = "None" <=> 1 <= Len(stack))
  BY StackChecks
<1>3. FaultOK(size) /\ (size.code = "None" => arg2 \in Nat)
  BY <1>1, StackChecks, FetchFacts, SizeCheck
<1>4. ASSUME 1 <= Len(stack)
      PROVE  /\ FaultOK(idx) /\ (idx.code = "None" => Top(0) \in 0 .. (arg2 - 1))
             /\ FaultOK(slot) /\ (slot.code = "None" => base \in Values)
  <2>1. Top(0) \in Int /\ GoodStack(Drop(1))
    BY <1>4, Operands, StackChecks
  <2>2. status = "running" /\ arg1 \in I32 /\ arg2 \in Int
    BY <1>1, FetchFacts
  <2>3. FaultOK(idx) /\ (idx.code = "None" => Top(0) \in 0 .. (arg2 - 1))
    BY <2>1, <2>2, IndexCheck
  <2> QED
    BY <2>1, <2>2, <2>3, SlotCheck
<1>5. ASSUME 1 <= Len(stack), arg2 \in Nat, base \in Values
      PROVE  FaultOK(arr) /\ (arr.code = "None" => base \in Nat /\ base + arg2 <= Len(locals))
  <2>1. GoodStack(Drop(1))
    BY <1>5, StackChecks
  <2> QED
    BY <1>5, <2>1, BaseCheck
<1> HIDE DEF size, idx, slot, arr, base, v
<1>6. /\ FaultOK(f)
      /\ f.code = "None" =>
           /\ arg2 \in Nat /\ base \in Nat /\ base + arg2 <= Len(locals)
           /\ 1 <= Len(stack) /\ Top(0) \in 0 .. (arg2 - 1)
  BY <1>2, <1>3, <1>4, <1>5 DEF FaultOK, ??
<1> HIDE DEF f
<1>7. CASE f.code # "None"
  BY <1>1, <1>6, <1>7, TrapStep DEF Checked
<1>8. CASE f.code = "None"
  <2>1. v \in Values /\ Len(stack) - 1 < MAX_OPERAND_STACK
    <3>1. locals \in Seq(Values) /\ Len(locals) \in Nat
      BY DEF IInv, DataOK
    <3>2. base + Top(0) + 1 \in 1 .. Len(locals)
      BY <1>6, <1>8, <3>1
    <3>3. v \in Values
      BY <3>1, <3>2 DEF v
    <3> QED
      BY <1>6, <1>8, <3>3, Pops, LimitsAssumption
  <2> QED
    BY <1>1, <1>6, <1>8, <2>1, PushAfterPops, StackStep DEF Checked
<1> QED
  BY <1>7, <1>8

\* A step that leaves the frames and the outcome alone only has to keep the data.
LEMMA DataStep ==
  ASSUME IInv, NEW ops, Fetch(ops), UNCHANGED <<call_stack, result>>, pc' \in Nat, DataOK'
  PROVE  IInv'
<1>1. FrameLayout' /\ ReturnAddresses' /\ Loaded'
  BY FramesKept DEF Fetch, result
<1>2. ControlOK'
  BY LimitsAssumption DEF IInv, ControlOK, Fetch, result
<1> QED
  BY <1>1, <1>2 DEF IInv

\* Writing one local keeps the vector and the set of values.
LEMMA LocalWrite ==
  ASSUME IInv, NEW i \in 1 .. Len(locals), NEW v \in Values,
         locals' = [locals EXCEPT ![i] = v]
  PROVE  locals' \in Seq(Values) /\ Len(locals') = Len(locals) /\ Values' = Values
<1>1. locals \in Seq(Values)
  BY DEF IInv, DataOK
<1>2. locals' \in Seq(Values) /\ Len(locals') = Len(locals)
  BY <1>1, ExceptSeq
<1> QED
  BY <1>2 DEF Values

\* StoreLocal keeps it.
LEMMA StoreLocalStep == ASSUME IInv, StoreLocal PROVE IInv'
<1> DEFINE slot == SlotFault(arg1, Drop(1))
<1> DEFINE f == PopFault(stack, 1) ?? slot
<1> DEFINE effect == /\ stack' = Drop(1)
                     /\ locals' = [locals EXCEPT ![Slot(arg1)] = Top(0)]
                     /\ Advance
                     /\ UNCHANGED <<globals, output>>
<1>1. Fetch({"StoreLocal"}) /\ Checked(f, effect)
  BY DEF StoreLocal
<1>2. FaultOK(PopFault(stack, 1)) /\ (PopFault(stack, 1).code = "None" <=> 1 <= Len(stack))
  BY StackChecks
<1>3. ASSUME 1 <= Len(stack)
      PROVE  FaultOK(slot) /\ (slot.code = "None" => Slot(arg1) \in 1 .. Len(locals))
  BY <1>1, <1>3, StackChecks, FetchFacts, SlotCheck
<1> HIDE DEF slot
<1>4. FaultOK(f) /\ (f.code = "None" => 1 <= Len(stack) /\ Slot(arg1) \in 1 .. Len(locals))
  BY <1>2, <1>3 DEF FaultOK, ??
<1> HIDE DEF f
<1>5. CASE f.code # "None"
  BY <1>1, <1>4, <1>5, TrapStep DEF Checked
<1>6. CASE f.code = "None"
  <2>1. effect
    BY <1>1, <1>6 DEF Checked
  <2>2. Top(0) \in Values /\ GoodStack(Drop(1))
    BY <1>4, <1>6, Operands, StackChecks
  <2>3. locals' \in Seq(Values) /\ Len(locals') = Len(locals) /\ Values' = Values
    BY <1>4, <1>6, <2>1, <2>2, LocalWrite
  <2>4. DataOK'
    BY <2>1, <2>2, <2>3 DEF IInv, DataOK, GoodStack, Advance, GoTo, result
  <2>5. pc' \in Nat /\ UNCHANGED <<call_stack, result>>
    BY <2>1 DEF Advance, GoTo, result, IInv, ControlOK
  <2> QED
    BY <1>1, <2>4, <2>5, DataStep
<1> QED
  BY <1>5, <1>6

\* StoreGlobal keeps it.
LEMMA StoreGlobalStep == ASSUME IInv, StoreGlobal PROVE IInv'
<1> DEFINE g == GlobalFault(arg1, stack)
<1> DEFINE f == g ?? PopFault(stack, 1)
<1> DEFINE effect == /\ stack' = Drop(1)
                     /\ globals' = [globals EXCEPT ![arg1 + 1] = Top(0)]
                     /\ Advance
                     /\ UNCHANGED <<locals, output>>
<1>1. Fetch({"StoreGlobal"}) /\ Checked(f, effect)
  BY DEF StoreGlobal
<1>2. FaultOK(PopFault(stack, 1)) /\ (PopFault(stack, 1).code = "None" <=> 1 <= Len(stack))
  BY StackChecks
<1>3. FaultOK(g)
  BY <1>1, StackChecks, FetchFacts, GlobalCheck
<1> HIDE DEF g
<1>4. FaultOK(f) /\ (f.code = "None" => 1 <= Len(stack))
  BY <1>2, <1>3 DEF FaultOK, ??
<1> HIDE DEF f
<1>5. CASE f.code # "None"
  BY <1>1, <1>4, <1>5, TrapStep DEF Checked
<1>6. CASE f.code = "None"
  <2>1. effect
    BY <1>1, <1>6 DEF Checked
  <2>2. Top(0) \in Values /\ GoodStack(Drop(1))
    BY <1>4, <1>6, Operands, StackChecks
  <2>3. Values' = Values
    BY <2>1 DEF Values
  <2>4. DataOK'
    BY <2>1, <2>2, <2>3 DEF IInv, DataOK, GoodStack, Advance, GoTo, result
  <2>5. pc' \in Nat /\ UNCHANGED <<call_stack, result>>
    BY <2>1 DEF Advance, GoTo, result, IInv, ControlOK
  <2> QED
    BY <1>1, <2>4, <2>5, DataStep
<1> QED
  BY <1>5, <1>6

\* ArrayStore keeps it.
LEMMA ArrayStoreStep == ASSUME IInv, ArrayStore PROVE IInv'
<1> DEFINE range == GlobalRangeFault(arg1, arg2, stack)
<1> DEFINE idx == IndexFault(Top(1), arg2, Drop(2))
<1> DEFINE f == range ?? PopFault(stack, 2) ?? idx
<1> DEFINE effect == /\ stack' = Drop(2)
                     /\ globals' = [globals EXCEPT ![arg1 + Top(1) + 1] = Top(0)]
                     /\ Advance
                     /\ UNCHANGED <<locals, output>>
<1>1. Fetch({"ArrayStore"}) /\ Checked(f, effect)
  BY DEF ArrayStore
<1>2. FaultOK(PopFault(stack, 2)) /\ (PopFault(stack, 2).code = "None" <=> 2 <= Len(stack))
  BY StackChecks
<1>3. FaultOK(range)
  BY <1>1, StackChecks, FetchFacts, RangeCheck
<1>4. ASSUME 2 <= Len(stack) PROVE FaultOK(idx)
  <2>1. Top(1) \in Int /\ arg2 \in Int /\ GoodStack(Drop(2))
    BY <1>1, <1>4, Operands, StackChecks, FetchFacts
  <2> QED
    BY <2>1, IndexCheck
<1> HIDE DEF range, idx
<1>5. FaultOK(f) /\ (f.code = "None" => 2 <= Len(stack))
  BY <1>2, <1>3, <1>4 DEF FaultOK, ??
<1> HIDE DEF f
<1>6. CASE f.code # "None"
  BY <1>1, <1>5, <1>6, TrapStep DEF Checked
<1>7. CASE f.code = "None"
  <2>1. effect
    BY <1>1, <1>7 DEF Checked
  <2>2. Top(0) \in Values /\ GoodStack(Drop(2))
    BY <1>5, <1>7, Operands, StackChecks
  <2>3. Values' = Values
    BY <2>1 DEF Values
  <2>4. DataOK'
    BY <2>1, <2>2, <2>3 DEF IInv, DataOK, GoodStack, Advance, GoTo, result
  <2>5. pc' \in Nat /\ UNCHANGED <<call_stack, result>>
    BY <2>1 DEF Advance, GoTo, result, IInv, ControlOK
  <2> QED
    BY <1>1, <2>4, <2>5, DataStep
<1> QED
  BY <1>6, <1>7

\* LocalArrayStore keeps it.
LEMMA LocalArrayStoreStep == ASSUME IInv, LocalArrayStore PROVE IInv'
<1> DEFINE base == locals[Slot(arg1)]
<1> DEFINE size == SizeFault(arg2, stack)
<1> DEFINE idx == IndexFault(Top(1), arg2, Drop(2))
<1> DEFINE slot == SlotFault(arg1, Drop(2))
<1> DEFINE arr == ArrayBaseFault(base, arg2, Drop(2))
<1> DEFINE f == size ?? PopFault(stack, 2) ?? idx ?? slot ?? arr
<1> DEFINE effect == /\ stack' = Drop(2)
                     /\ locals' = [locals EXCEPT ![base + Top(1) + 1] = Top(0)]
                     /\ Advance
                     /\ UNCHANGED <<globals, output>>
<1>1. Fetch({"LocalArrayStore"}) /\ Checked(f, effect)
  BY DEF LocalArrayStore
<1>2. FaultOK(PopFault(stack, 2)) /\ (PopFault(stack, 2).code = "None" <=> 2 <= Len(stack))
  BY StackChecks
<1>3. FaultOK(size) /\ (size.code = "None" => arg2 \in Nat)
  BY <1>1, StackChecks, FetchFacts, SizeCheck
<1>4. ASSUME 2 <= Len(stack)
      PROVE  /\ FaultOK(idx) /\ (idx.code = "None" => Top(1) \in 0 .. (arg2 - 1))
             /\ FaultOK(slot) /\ (slot.code = "None" => base \in Values)
  <2>1. Top(1) \in Int /\ GoodStack(Drop(2))
    BY <1>4, Operands, StackChecks
  <2>2. status = "running" /\ arg1 \in I32 /\ arg2 \in Int
    BY <1>1, FetchFacts
  <2>3. FaultOK(idx) /\ (idx.code = "None" => Top(1) \in 0 .. (arg2 - 1))
    BY <2>1, <2>2, IndexCheck
  <2> QED
    BY <2>1, <2>2, <2>3, SlotCheck
<1>5. ASSUME 2 <= Len(stack), arg2 \in Nat, base \in Values
      PROVE  FaultOK(arr) /\ (arr.code = "None" => base \in Nat /\ base + arg2 <= Len(locals))
  <2>1. GoodStack(Drop(2))
    BY <1>5, StackChecks
  <2> QED
    BY <1>5, <2>1, BaseCheck
<1> HIDE DEF size, idx, slot, arr, base
<1>6. /\ FaultOK(f)
      /\ f.code = "None" =>
           /\ arg2 \in Nat /\ base \in Nat /\ base + arg2 <= Len(locals)
           /\ 2 <= Len(stack) /\ Top(1) \in 0 .. (arg2 - 1)
  BY <1>2, <1>3, <1>4, <1>5 DEF FaultOK, ??
<1> HIDE DEF f
<1>7. CASE f.code # "None"
  BY <1>1, <1>6, <1>7, TrapStep DEF Checked
<1>8. CASE f.code = "None"
  <2>1. effect
    BY <1>1, <1>8 DEF Checked
  <2>2. Top(0) \in Values /\ GoodStack(Drop(2))
    BY <1>6, <1>8, Operands, StackChecks
  <2>3. base + Top(1) + 1 \in 1 .. Len(locals)
    BY <1>6, <1>8 DEF IInv, DataOK
  <2>4. locals' \in Seq(Values) /\ Len(locals') = Len(locals) /\ Values' = Values
    BY <2>1, <2>2, <2>3, LocalWrite
  <2>5. DataOK'
    BY <2>1, <2>2, <2>4 DEF IInv, DataOK, GoodStack, Advance, GoTo, result
  <2>6. pc' \in Nat /\ UNCHANGED <<call_stack, result>>
    BY <2>1 DEF Advance, GoTo, result, IInv, ControlOK
  <2> QED
    BY <1>1, <2>5, <2>6, DataStep
<1> QED
  BY <1>7, <1>8

\* Print keeps it.
LEMMA PrintStep == ASSUME IInv, PrintTop PROVE IInv'
<1> DEFINE f == PopFault(stack, 1)
<1> DEFINE effect == /\ stack' = Drop(1)
                     /\ output' = Append(output, Top(0))
                     /\ Advance
                     /\ UNCHANGED <<locals, globals>>
<1>1. Fetch({"Print"}) /\ Checked(f, effect)
  BY DEF PrintTop
<1>2. FaultOK(f) /\ (f.code = "None" <=> 1 <= Len(stack))
  BY StackChecks
<1> HIDE DEF f
<1>3. CASE f.code # "None"
  BY <1>1, <1>2, <1>3, TrapStep DEF Checked
<1>4. CASE f.code = "None"
  <2>1. effect
    BY <1>1, <1>4 DEF Checked
  <2>2. Top(0) \in Values /\ GoodStack(Drop(1))
    BY <1>2, <1>4, Operands, StackChecks
  <2>3. Values' = Values /\ output' \in Seq(Values)
    BY <2>1, <2>2, AppendProperties DEF Values, IInv, DataOK
  <2>4. DataOK'
    BY <2>1, <2>2, <2>3 DEF IInv, DataOK, GoodStack, Advance, GoTo, result
  <2>5. pc' \in Nat /\ UNCHANGED <<call_stack, result>>
    BY <2>1 DEF Advance, GoTo, result, IInv, ControlOK
  <2> QED
    BY <1>1, <2>4, <2>5, DataStep
<1> QED
  BY <1>3, <1>4

\* Jump keeps it.
LEMMA JumpStep == ASSUME IInv, Jump PROVE IInv'
<1>1. Fetch({"Jump"}) /\ GoTo(AsUsize(arg1)) /\ UNCHANGED <<stack, locals, globals, output>>
  BY DEF Jump
<1>2. pc' \in Nat /\ UNCHANGED <<call_stack, result>>
  BY <1>1, FetchFacts, AsUsizeNat DEF GoTo
<1>3. DataOK'
  BY <1>1 DEF IInv, DataOK, Values, GoTo, result
<1> QED
  BY <1>1, <1>2, <1>3, DataStep

\* Branch keeps it.
LEMMA BranchStep == ASSUME IInv, Branch PROVE IInv'
<1> DEFINE f == PopFault(stack, 1)
<1> DEFINE target == IF BranchTaken THEN AsUsize(arg1) ELSE pc + 1
<1> DEFINE effect == /\ stack' = Drop(1)
                     /\ GoTo(target)
                     /\ UNCHANGED <<locals, globals, output>>
<1>1. Fetch({"JumpIfFalse", "JumpIfTrue"}) /\ Checked(f, effect)
  BY DEF Branch
<1>2. FaultOK(f) /\ (f.code = "None" <=> 1 <= Len(stack))
  BY StackChecks
<1>3. target \in Nat
  BY <1>1, FetchFacts, AsUsizeNat
<1> HIDE DEF f, target
<1>4. CASE f.code # "None"
  BY <1>1, <1>2, <1>4, TrapStep DEF Checked
<1>5. CASE f.code = "None"
  <2>1. effect /\ GoodStack(Drop(1))
    BY <1>1, <1>2, <1>5, StackChecks DEF Checked
  <2>2. Values' = Values
    BY <2>1 DEF Values
  <2>3. DataOK'
    BY <2>1, <2>2 DEF IInv, DataOK, GoodStack, GoTo, result
  <2> QED
    BY <1>1, <1>3, <2>1, <2>3, DataStep DEF GoTo
<1> QED
  BY <1>4, <1>5

\* A panicking Div or Neg keeps it.
LEMMA PanicStep == ASSUME IInv, ArithmeticPanic PROVE IInv'
<1>1. FrameLayout' /\ ReturnAddresses' /\ Loaded'
  BY FramesKept DEF ArithmeticPanic, Fetch
<1>2. DataOK'
  BY DEF IInv, DataOK, Values, ArithmeticPanic
<1>3. ControlOK'
  BY LimitsAssumption DEF IInv, ControlOK, ArithmeticPanic, Fetch, Final
<1> QED
  BY <1>1, <1>2, <1>3 DEF IInv

\* The two traps at the top of the loop of `run` keep it.
LEMMA LoopTrapStep == ASSUME IInv, LoopTrap PROVE IInv'
<1>1. PICK code \in {"CycleLimit", "InvalidInstruction"} : Trap([code |-> code, stack |-> stack])
  BY DEF LoopTrap
<1>2. status = "running" /\ UNCHANGED <<prog, cycles>>
  BY DEF LoopTrap
<1>3. FrameLayout' /\ ReturnAddresses' /\ Loaded'
  BY <1>1, <1>2, FramesKept DEF Trap, Abort
<1>4. DataOK'
  BY <1>1 DEF IInv, DataOK, Values, Trap, Abort
<1>5. ControlOK'
  BY <1>1, <1>2 DEF IInv, ControlOK, Trap, Abort, Final, TrapCode
<1> QED
  BY <1>3, <1>4, <1>5 DEF IInv

\* validate_program rejecting the program keeps it.
LEMMA RejectStep == ASSUME IInv, RejectProgram PROVE IInv'
<1>1. PICK code \in PreflightTraps(prog) :
        /\ status' = "trapped"
        /\ trap_code' = code
        /\ UNCHANGED <<prog, pc, stack, locals, globals, call_stack, cycles, output, return_value>>
  BY DEF RejectProgram
<1>2. code \in TrapCode \ {"None"}
  BY DEF PreflightTraps, FunctionTrap, TrapCode
<1>3. call_stack = <<>>
  BY DEF RejectProgram, IInv, Loaded
<1>4. FrameLayout' /\ ReturnAddresses' /\ Loaded'
  BY <1>1, <1>3 DEF FrameLayout, ReturnAddresses, Loaded
<1>5. DataOK'
  BY <1>1 DEF IInv, DataOK, Values
<1>6. ControlOK'
  BY <1>1, <1>2 DEF IInv, ControlOK, Final
<1> QED
  BY <1>4, <1>5, <1>6 DEF IInv

\* A machine that has returned keeps it.
LEMMA StutterStep == ASSUME IInv, UNCHANGED vars PROVE IInv'
BY DEF IInv, DataOK, ControlOK, FrameLayout, ReturnAddresses, Loaded, Values, vars, LocalCount, Code

\* Setting up main's frame keeps it.
LEMMA EnterMainStep == ASSUME IInv, EnterMain PROVE IInv'
<1> DEFINE main == prog.functions[prog.main_func_id]
<1> DEFINE frame == [return_pc |-> USIZE_MAX, base_ptr |-> 0, func_id |-> prog.main_func_id]
<1>1. /\ prog.main_func_id \in DOMAIN prog.functions
      /\ FunctionTrap(main) = "None"
  BY DEF EnterMain, PreflightTraps
<1>2. IsProgram(prog) /\ main \in FunctionInfo /\ prog.main_func_id \in Nat
  BY <1>1 DEF IInv, ControlOK, IsProgram
<1>3. main.local_count \in Nat /\ main.local_count <= MAX_LOCAL_SLOTS /\ main.entry_pc \in Nat
  BY <1>1, <1>2, LimitsAssumption DEF FunctionTrap, FunctionInfo
<1>4. frame \in FrameType
  BY <1>2, UsizeAssumption DEF FrameType
<1>5. /\ call_stack' = <<frame>> /\ prog' = prog /\ status' = "running" /\ pc' = main.entry_pc
      /\ PreflightTraps(prog) = {}
      /\ UNCHANGED <<stack, locals, globals, cycles, output, trap_code, return_value>>
  BY DEF EnterMain
<1>6. call_stack' \in Seq(FrameType) /\ Len(call_stack') = 1 /\ call_stack'[1] = frame
  BY <1>4, <1>5
<1>7. FrameLayout'
  BY <1>1, <1>3, <1>5, <1>6 DEF FrameLayout, LocalCount
<1>8. ReturnAddresses'
  BY <1>6 DEF ReturnAddresses
<1>9. Loaded'
  BY <1>5 DEF Loaded
<1>10. DataOK'
  BY <1>5 DEF IInv, DataOK, Values
<1>11. ControlOK'
  BY <1>3, <1>5, <1>6, LimitsAssumption DEF IInv, ControlOK, EnterMain
<1> QED
  BY <1>7, <1>8, <1>9, <1>10, <1>11 DEF IInv

\* The end of `run`: no frame is left.
LEMMA ExitStep ==
  ASSUME IInv, NEW ops, Fetch(ops), Exit, pc' \in Nat
  PROVE  IInv'
<1>1. stack \in Seq(Values) /\ Len(stack) \in Nat /\ Len(stack) <= MAX_OPERAND_STACK
  BY DEF IInv, DataOK
<1>2. Values' = Values
  BY DEF Exit, Values
<1>3. return_value' \in Values /\ stack' \in Seq(Values) /\ Len(stack') <= MAX_OPERAND_STACK
  <2>1. CASE stack = <<>>
    BY <1>1, <2>1, ValuesAreInt DEF Exit
  <2>2. CASE stack # <<>>
    <3>1. 1 <= Len(stack)
      BY <1>1, <2>2
    <3>2. GoodStack(Drop(1)) /\ Top(0) \in Values
      BY <3>1, Operands, StackChecks
    <3> QED
      BY <2>2, <3>2 DEF Exit, GoodStack
  <2> QED
    BY <2>1, <2>2
<1>4. DataOK'
  BY <1>2, <1>3 DEF IInv, DataOK, Exit
<1>5. FrameLayout' /\ ReturnAddresses' /\ Loaded'
  BY DEF Exit, FrameLayout, ReturnAddresses, Loaded
<1>6. ControlOK'
  BY LimitsAssumption DEF IInv, ControlOK, Exit, Fetch, Final
<1> QED
  BY <1>4, <1>5, <1>6 DEF IInv

\* Halt keeps it.
LEMMA HaltStep == ASSUME IInv, Halt PROVE IInv'
BY ExitStep DEF Halt, IInv, ControlOK

\* Return keeps it: what is left of the call stack was well formed before.
LEMMA ReturnStep == ASSUME IInv, Return PROVE IInv'
<1> DEFINE f == PopFault(stack, 1)
<1> DEFINE rest == SubSeq(call_stack, 1, Len(call_stack) - 1)
<1> DEFINE target == IF Frame.return_pc = USIZE_MAX THEN pc ELSE Frame.return_pc
<1> DEFINE effect ==
             /\ pc' = target
             /\ \/ /\ Len(call_stack) = 1
                   /\ Exit
                \/ /\ Len(call_stack) > 1
                   /\ call_stack' = rest
                   /\ UNCHANGED <<stack, locals, globals, output, result>>
<1>1. Fetch({"Return"}) /\ Checked(f, effect)
  BY DEF Return
<1>2. FaultOK(f)
  BY StackChecks
<1>3. target \in Nat
  BY <1>1, FetchFacts, RunningFacts DEF FrameType
<1> HIDE DEF f, target
<1>4. CASE f.code # "None"
  BY <1>1, <1>2, <1>4, TrapStep DEF Checked
<1>5. CASE f.code = "None" /\ Len(call_stack) = 1
  BY <1>1, <1>3, <1>5, ExitStep DEF Checked
<1>6. CASE f.code = "None" /\ Len(call_stack) # 1
  <2>1. /\ pc' = target /\ call_stack' = rest /\ Len(call_stack) > 1
        /\ UNCHANGED <<stack, locals, globals, output, result>>
    BY <1>1, <1>6 DEF Checked
  <2>2. call_stack \in Seq(FrameType) /\ Len(call_stack) \in Nat
    BY DEF IInv, ControlOK
  <2>3. /\ rest \in Seq(FrameType)
        /\ Len(rest) = Len(call_stack) - 1
        /\ \A k \in 1 .. Len(rest) : rest[k] = call_stack[k]
    BY <2>1, <2>2, SubSeqProperties
  <2> HIDE DEF rest
  <2>4. prog' = prog /\ status = "running" /\ Len(call_stack) <= MAX_FRAMES
    BY <1>1 DEF Fetch, IInv, ControlOK
  <2>5. FrameLayout'
    <3>1. call_stack' # <<>>
      BY <2>1, <2>2, <2>3
    <3>2. ASSUME NEW k \in 1 .. Len(rest)
          PROVE  /\ rest[k].func_id \in DOMAIN prog.functions
                 /\ rest[k].base_ptr = IF k = 1 THEN 0
                      ELSE rest[k - 1].base_ptr + LocalCount(rest[k - 1])
                 /\ rest[k].base_ptr + LocalCount(rest[k]) <= MAX_LOCAL_SLOTS
      <4>1. k \in 1 .. Len(call_stack) /\ (k # 1 => k - 1 \in 1 .. Len(rest))
        BY <2>2, <2>3, <3>2
      <4> QED
        BY <2>3, <4>1 DEF IInv, FrameLayout
    <3> QED
      BY <2>1, <2>4, <3>1, <3>2 DEF FrameLayout, LocalCount
  <2>6. ReturnAddresses'
    <3>1. \A k \in 1 .. Len(rest) : k \in 1 .. Len(call_stack)
      BY <2>2, <2>3
    <3>2. ReturnAddresses /\ Code' = Code
      BY <2>4 DEF IInv, Code
    <3>3. Len(call_stack') = Len(rest)
          /\ \A k \in 1 .. Len(rest) : call_stack'[k] = call_stack[k]
      BY <2>1, <2>3
    <3> QED
      BY <2>4, <3>1, <3>2, <3>3 DEF ReturnAddresses
  <2>7. Loaded'
    BY <2>1, <2>4 DEF IInv, Loaded, result
  <2>8. DataOK'
    BY <2>1 DEF IInv, DataOK, Values, result
  <2>9. ControlOK'
    BY <1>1, <1>3, <2>1, <2>2, <2>3, <2>4, LimitsAssumption DEF IInv, ControlOK, result, Fetch
  <2> QED
    BY <2>5, <2>6, <2>7, <2>8, <2>9 DEF IInv
<1> QED
  BY <1>4, <1>5, <1>6

\* AllocArray and ArrayNew keep it: the set of values grows with `locals`.
LEMMA AllocStep == ASSUME IInv, Alloc PROVE IInv'
<1> DEFINE zeros == [i \in 1 .. arg1 |-> 0]
<1> DEFINE f == SizeFault(arg1, stack)
<1> DEFINE push == PushFault(stack)
<1> DEFINE effect ==
             /\ locals' = locals \o zeros
             /\ \/ /\ push.code # "None"
                   /\ Abort(push)
                \/ /\ push.code = "None"
                   /\ stack' = Append(stack, Len(locals))
                   /\ Advance
                   /\ UNCHANGED <<globals, output>>
<1>1. Fetch(Allocations) /\ Checked(f, effect)
  BY DEF Alloc
<1>2. FaultOK(f) /\ (f.code = "None" => arg1 \in Nat)
  BY <1>1, StackChecks, FetchFacts, SizeCheck
<1>3. FaultOK(push) /\ (push.code = "None" <=> Len(stack) < MAX_OPERAND_STACK)
  BY StackChecks
<1> HIDE DEF f, push
<1>4. CASE f.code # "None"
  BY <1>1, <1>2, <1>4, TrapStep DEF Checked
<1>5. CASE f.code = "None"
  <2>1. effect /\ arg1 \in Nat
    BY <1>1, <1>2, <1>5 DEF Checked
  <2>2. locals \in Seq(Values) /\ Len(locals) \in Nat /\ MAX_LOCAL_SLOTS <= Len(locals)
    BY DEF IInv, DataOK
  <2>3. zeros \in Seq(Values) /\ Len(zeros) = arg1
    BY <2>1, ValuesAreInt
  <2>4. locals' \in Seq(Values) /\ Len(locals') = Len(locals) + arg1
    BY <2>1, <2>2, <2>3, ConcatProperties
  <2>5. Values \subseteq Values' /\ Len(locals) \in Values'
    BY <2>1, <2>2, <2>4, LimitsAssumption DEF Values
  <2>6. \A s \in Seq(Values) : s \in Seq(Values')
    BY <2>5
  <2>7. /\ locals' \in Seq(Values') /\ Len(locals') >= MAX_LOCAL_SLOTS
        /\ globals \in [1 .. MAX_GLOBAL_SLOTS -> Values']
        /\ output \in Seq(Values') /\ stack \in Seq(Values')
        /\ return_value \in Values'
    <3>1. globals \in [1 .. MAX_GLOBAL_SLOTS -> Values] /\ return_value \in Values
          /\ output \in Seq(Values) /\ stack \in Seq(Values)
      BY DEF IInv, DataOK
    <3> HIDE DEF zeros
    <3>2. Len(locals') >= MAX_LOCAL_SLOTS
      BY <2>1, <2>2, <2>4, LimitsAssumption
    <3> QED
      BY <2>4, <2>5, <2>6, <3>1, <3>2
  <2> HIDE DEF zeros
  <2>8. CASE push.code # "None"
    <3>1. Abort(push)
      BY <2>1, <2>8
    <3>2. push.stack \in Seq(Values') /\ Len(push.stack) <= MAX_OPERAND_STACK
      BY <1>3, <2>6, <2>8 DEF FaultOK
    <3>3. DataOK'
      BY <2>7, <3>1, <3>2 DEF DataOK, Abort
    <3>4. ControlOK'
      BY <1>1, <1>3, <2>8, <3>1, LimitsAssumption DEF IInv, ControlOK, FaultOK, Abort, Fetch, Final
    <3> QED
      BY <1>1, <3>1, <3>3, <3>4, FramesKept DEF IInv, Abort, Fetch
  <2>9. CASE push.code = "None"
    <3>1. /\ stack' = Append(stack, Len(locals)) /\ Advance /\ UNCHANGED <<globals, output>>
      BY <2>1, <2>9
    <3>2. stack' \in Seq(Values') /\ Len(stack') <= MAX_OPERAND_STACK
      <4>1. Len(stack) \in Nat /\ Len(stack) < MAX_OPERAND_STACK
        BY <1>3, <2>9, <2>7
      <4> QED
        BY <2>5, <2>7, <3>1, <4>1, LimitsAssumption, AppendProperties
    <3>3. DataOK'
      BY <2>7, <3>1, <3>2 DEF DataOK, Advance, GoTo, result
    <3> QED
      BY <1>1, <3>1, <3>3, DataStep DEF Advance, GoTo, IInv, ControlOK
  <2> QED
    BY <2>8, <2>9
<1> QED
  BY <1>4, <1>5

\* What a call that passes every check knows about its callee.
LEMMA CallChecks ==
  ASSUME IInv, Fetch({"Call"})
  PROVE  /\ FaultOK(CallFault)
         /\ CallFault.code = "None" =>
              /\ arg1 \in DOMAIN prog.functions /\ arg2 \in Nat
              /\ Callee \in FunctionInfo /\ arg2 = Callee.param_count
              /\ NewBase \in Nat /\ Frame.base_ptr <= NewBase
              /\ NewBase + Callee.local_count <= MAX_LOCAL_SLOTS
              /\ Len(call_stack) < MAX_FRAMES
<1>1. arg1 \in Int /\ arg2 \in Int /\ status = "running"
  BY FetchFacts
<1>2. NewBase \in Nat /\ Frame.base_ptr <= NewBase /\ Len(call_stack) \in Nat
  BY <1>1, RunningFacts DEF NewBase, FrameType
<1>3. GoodStack(stack)
  BY StackChecks
<1>4. FaultOK(CallFault)
  BY <1>3 DEF CallFault, Fault, NoFault, FaultOK, TrapCode, GoodStack, ??
<1>5. ASSUME CallFault.code = "None"
      PROVE  /\ ~(arg1 < 0 \/ arg2 < 0) /\ arg1 \in DOMAIN prog.functions
             /\ arg2 = Callee.param_count /\ ~(Len(call_stack) >= MAX_FRAMES)
             /\ ~(NewBase + Callee.local_count > MAX_LOCAL_SLOTS)
  BY <1>5 DEF CallFault, Fault, NoFault, ??
<1>6. ASSUME CallFault.code = "None"
      PROVE  Callee \in FunctionInfo /\ Callee.local_count \in Nat
  BY <1>5, <1>6 DEF IInv, ControlOK, IsProgram, Callee, FunctionInfo
<1> QED
  BY <1>1, <1>2, <1>4, <1>5, <1>6, LimitsAssumption

\* Writing the arguments writes values, and nothing below the new frame.
LEMMA ArgumentsPassed ==
  ASSUME IInv, NEW base \in Nat, base = NewBase, arg2 \in Nat
  PROVE  /\ PassArguments \in Seq(Values) /\ Len(PassArguments) = Len(locals)
         /\ CalleeLocals \in Seq(Values) /\ Len(CalleeLocals) = Len(locals)
<1>1. /\ locals \in Seq(Values) /\ Len(locals) \in Nat
      /\ stack \in Seq(Values) /\ Len(stack) \in Nat
  BY DEF IInv, DataOK
<1>2. ASSUME NEW i \in 1 .. Len(locals)
      PROVE  PassArguments[i] \in Values
  <2> DEFINE from == Len(stack) - arg2 + (i - NewBase)
  <2>1. PassArguments[i] =
          IF i - NewBase \in 1 .. arg2 /\ from >= 1 THEN stack[from] ELSE locals[i]
    BY <1>2 DEF PassArguments
  <2>2. CASE i - NewBase \in 1 .. arg2 /\ from >= 1
    <3>1. from \in 1 .. Len(stack)
      BY <1>1, <2>2
    <3> QED
      BY <1>1, <2>1, <2>2, <3>1
  <2>3. CASE ~(i - NewBase \in 1 .. arg2 /\ from >= 1)
    BY <1>1, <2>1, <2>3
  <2> QED
    BY <2>2, <2>3
<1>3. PassArguments \in [1 .. Len(locals) -> Values]
  BY <1>2 DEF PassArguments
<1>4. CalleeLocals \in [1 .. Len(locals) -> Values]
  BY <1>2, ValuesAreInt DEF CalleeLocals
<1>5. \A f \in [1 .. Len(locals) -> Values] : f \in Seq(Values) /\ Len(f) = Len(locals)
  BY <1>1
<1> QED
  BY <1>3, <1>4, <1>5

\* Call keeps it: the new frame lies right above the caller's and returns to
\* just behind this Call.
LEMMA CallStep == ASSUME IInv, Call PROVE IInv'
<1> DEFINE under == /\ Len(stack) < arg2
                    /\ Abort(PopFault(stack, arg2))
                    /\ locals' = PassArguments
<1> DEFINE enter == /\ Len(stack) >= arg2
                    /\ stack' = Drop(arg2)
                    /\ locals' = CalleeLocals
                    /\ call_stack' = Append(call_stack, CalleeFrame)
                    /\ pc' = Callee.entry_pc
                    /\ UNCHANGED <<globals, output, result>>
<1>1. Fetch({"Call"}) /\ Checked(CallFault, under \/ enter)
  BY DEF Call
<1>2. CASE CallFault.code # "None"
  BY <1>1, <1>2, CallChecks, TrapStep DEF Checked
<1>3. CASE CallFault.code = "None"
  <2>1. /\ arg1 \in DOMAIN prog.functions /\ arg2 \in Nat
        /\ Callee \in FunctionInfo /\ arg2 = Callee.param_count
        /\ NewBase \in Nat
        /\ NewBase + Callee.local_count <= MAX_LOCAL_SLOTS
        /\ Len(call_stack) < MAX_FRAMES
    BY <1>1, <1>3, CallChecks
  <2>2. /\ PassArguments \in Seq(Values) /\ Len(PassArguments) = Len(locals)
        /\ CalleeLocals \in Seq(Values) /\ Len(CalleeLocals) = Len(locals)
    BY <2>1, ArgumentsPassed
  <2>3. prog' = prog /\ status = "running" /\ Len(stack) \in Nat
    BY <1>1 DEF Fetch, IInv, DataOK
  <2>4. CASE under
    <3>1. PopFault(stack, arg2).code # "None" /\ FaultOK(PopFault(stack, arg2))
      BY <2>1, <2>3, <2>4, StackChecks
    <3>2. Values' = Values /\ locals' \in Seq(Values) /\ Len(locals') = Len(locals)
      BY <2>2, <2>4 DEF Values
    <3>3. DataOK'
      BY <2>4, <3>1, <3>2 DEF IInv, DataOK, Abort, FaultOK
    <3>4. ControlOK'
      BY <1>1, <2>4, <3>1, LimitsAssumption DEF IInv, ControlOK, FaultOK, Abort, Fetch, Final
    <3> QED
      BY <2>3, <2>4, <3>3, <3>4, FramesKept DEF IInv, Abort
  <2>5. CASE enter
    <3>1. Values' = Values /\ locals' \in Seq(Values) /\ Len(locals') = Len(locals)
      BY <2>2, <2>5 DEF Values
    <3>2. GoodStack(Drop(arg2))
      BY <2>1, <2>3, <2>5, StackChecks
    <3>3. DataOK'
      BY <2>5, <3>1, <3>2 DEF IInv, DataOK, GoodStack, result
    <3>4. call_stack \in Seq(FrameType) /\ Len(call_stack) \in Nat /\ Len(call_stack) >= 1
      BY <2>3, RunningFacts DEF IInv, ControlOK
    <3>5. pc \in Nat /\ pc < Len(Code) /\ Len(Code) \in Nat /\ Instr.opcode = "Call"
      BY <1>1, FetchFacts
    <3>6. CalleeFrame \in FrameType
      BY <2>1, <3>5 DEF CalleeFrame, FrameType, IInv, ControlOK, IsProgram
    <3>7. /\ call_stack' \in Seq(FrameType) /\ Len(call_stack') = Len(call_stack) + 1
          /\ \A k \in 1 .. Len(call_stack) : call_stack'[k] = call_stack[k]
          /\ call_stack'[Len(call_stack) + 1] = CalleeFrame
      BY <2>5, <3>4, <3>6, AppendProperties
    <3>8. ControlOK'
      BY <1>1, <2>1, <2>5, <3>4, <3>7, LimitsAssumption
      DEF IInv, ControlOK, result, Fetch, FunctionInfo
    <3>9. FrameLayout'
      <4>1. call_stack' # <<>>
        BY <3>4, <3>7
      <4>2. ASSUME NEW k \in 1 .. (Len(call_stack) + 1)
            PROVE  /\ call_stack'[k].func_id \in DOMAIN prog.functions
                   /\ call_stack'[k].base_ptr = IF k = 1 THEN 0
                        ELSE call_stack'[k - 1].base_ptr + LocalCount(call_stack'[k - 1])
                   /\ call_stack'[k].base_ptr + LocalCount(call_stack'[k]) <= MAX_LOCAL_SLOTS
        <5>1. CASE k <= Len(call_stack)
          <6>1. k \in 1 .. Len(call_stack) /\ (k # 1 => k - 1 \in 1 .. Len(call_stack))
            BY <3>4, <5>1
          <6> QED
            BY <3>7, <6>1 DEF IInv, FrameLayout
        <5>2. CASE k = Len(call_stack) + 1
          <6>1. k # 1 /\ k - 1 = Len(call_stack) /\ k - 1 \in 1 .. Len(call_stack)
            BY <3>4, <5>2
          <6>2. call_stack'[k] = CalleeFrame /\ call_stack'[k - 1] = Frame
            BY <3>7, <5>2, <6>1 DEF Frame
          <6> QED
            BY <2>1, <6>1, <6>2 DEF CalleeFrame, NewBase, LocalCount, Callee
        <5> QED
          BY <3>4, <5>1, <5>2
      <4> QED
        BY <2>3, <3>7, <4>1, <4>2 DEF FrameLayout, LocalCount
    <3>10. ReturnAddresses'
      <4>1. ASSUME NEW k \in 1 .. (Len(call_stack) + 1)
            PROVE  LET frame == call_stack'[k]
                   IN  IF k = 1 THEN frame.return_pc = USIZE_MAX
                       ELSE /\ frame.return_pc \in 1 .. Len(Code)
                            /\ Code[frame.return_pc].opcode = "Call"
                            /\ Code[frame.return_pc].arg1 = frame.func_id
                            /\ Code[frame.return_pc].arg2 = prog.functions[frame.func_id].param_count
        <5>1. CASE k \in 1 .. Len(call_stack)
          BY <3>7, <5>1 DEF IInv, ReturnAddresses
        <5>2. CASE k = Len(call_stack) + 1
          <6>1. k # 1 /\ call_stack'[k] = CalleeFrame
            BY <3>4, <3>7, <5>2
          <6>2. pc + 1 \in 1 .. Len(Code)
            BY <3>5
          <6> QED
            BY <2>1, <3>5, <6>1, <6>2 DEF CalleeFrame, Instr, arg1, arg2, Callee
        <5> QED
          BY <3>4, <5>1, <5>2
      <4> QED
        BY <2>3, <3>7, <4>1 DEF ReturnAddresses, Code
    <3>11. Loaded'
      BY <2>3, <2>5 DEF IInv, Loaded, result
    <3> QED
      BY <3>3, <3>8, <3>9, <3>10, <3>11 DEF IInv
  <2> QED
    BY <1>1, <1>3, <2>4, <2>5 DEF Checked
<1> QED
  BY <1>2, <1>3

\* Vm::new establishes the invariant.
LEMMA InitOK == Init => IInv
<1> SUFFICES ASSUME Init PROVE IInv
  OBVIOUS
<1>1. IsProgram(prog)
  BY ProgramsAssumption DEF Init, New
<1>2. locals \in Seq(Values) /\ Len(locals) = MAX_LOCAL_SLOTS
  BY LimitsAssumption, ValuesAreInt DEF Init, New
<1>3. DataOK
  BY <1>2, LimitsAssumption, ValuesAreInt DEF Init, New, DataOK
<1>4. ControlOK
  BY <1>1, LimitsAssumption DEF Init, New, ControlOK, TrapCode
<1>5. FrameLayout /\ ReturnAddresses /\ Loaded
  BY DEF Init, New, FrameLayout, ReturnAddresses, Loaded
<1> QED
  BY <1>3, <1>4, <1>5 DEF IInv

\* Every step keeps the invariant.
LEMMA NextOK == IInv /\ [Next]_vars => IInv'
<1> SUFFICES ASSUME IInv, [Next]_vars PROVE IInv'
  OBVIOUS
<1>1. CASE Execute
  BY <1>1, LoadConstStep, LoadLocalStep, StoreLocalStep, LoadGlobalStep, StoreGlobalStep,
     BinaryStep, UnaryStep, PanicStep, JumpStep, BranchStep, CallStep, ReturnStep,
     ArrayLoadStep, ArrayStoreStep, LocalArrayLoadStep, LocalArrayStoreStep, AllocStep,
     PrintStep, PopStep, DupStep, HaltStep DEF Execute
<1> QED
  BY <1>1, RejectStep, EnterMainStep, LoopTrapStep, StutterStep DEF Next, Done

\* The inductive invariant holds in every reachable state of the machine.
THEOREM Invariance == Spec => []IInv
<1> QED
  BY InitOK, NextOK, PTL DEF Spec

\* The fields of struct Vm keep their types and limits in every run of every
\* program, for all values of the limits.
THEOREM TypeCorrect == Spec => []TypeOK
<1>1. IInv => TypeOK
  <2>1. IInv => /\ stack \in Seq(Int) /\ locals \in Seq(Int) /\ output \in Seq(Int)
                /\ globals \in [1 .. MAX_GLOBAL_SLOTS -> Int] /\ return_value \in Int
    <3>1. \A s \in Seq(Values) : s \in Seq(Int)
      BY ValuesAreInt, SeqMonotonic, Zenon
    <3> QED
      BY <3>1, ValuesAreInt DEF IInv, DataOK
  <2> QED
    BY <2>1 DEF IInv, DataOK, ControlOK, TypeOK
<1> QED
  BY <1>1, Invariance, PTL

\* In every run the frames are adjacent windows at the bottom of `locals`, and
\* there is one while the program runs (Call, Return, current_local_slot).
THEOREM FramesLaidOut == Spec => []FrameLayout
<1>1. IInv => FrameLayout
  BY DEF IInv
<1> QED
  BY <1>1, Invariance, PTL

\* In every run each frame returns behind the Call that made it, and only
\* main's carries the exit sentinel (Call, Return).
THEOREM ReturnsBehindCalls == Spec => []ReturnAddresses
<1>1. IInv => ReturnAddresses
  BY DEF IInv
<1> QED
  BY <1>1, Invariance, PTL

\* In every run each value held is a 32-bit integer, an array base or the
\* undefined marker (normalize_i32 after every arithmetic opcode).
THEOREM Normalized == Spec => []OperandsNormalized
<1>1. IInv => OperandsNormalized
  BY DEF IInv, DataOK, OperandsNormalized
<1> QED
  BY <1>1, Invariance, PTL

\* Every handler but LocalArrayStore leaves the slots out of its reach alone.
LEMMA OthersUntouchedStep ==
  ASSUME IInv, [Next]_vars, status = "running", pc < Len(Code),
         Instr.opcode # "LocalArrayStore"
  PROVE  OthersUntouched
<1>1. CASE locals' = locals
  BY <1>1 DEF OthersUntouched
<1>2. locals \in Seq(Values) /\ Len(locals) \in Nat /\ Frame.base_ptr \in Nat
  BY RunningFacts DEF IInv, DataOK, FrameType
<1>3. CASE StoreLocal /\ locals' # locals
  <2>1. Fetch({"StoreLocal"}) /\ locals' = [locals EXCEPT ![Slot(arg1)] = Top(0)]
    BY <1>3 DEF StoreLocal, Checked, Trap
  <2>2. /\ (PopFault(stack, 1) ?? SlotFault(arg1, Drop(1))).code = "None"
    BY <1>3 DEF StoreLocal, Checked, Trap
  <2>3. 1 <= Len(stack)
    BY <2>2, StackChecks DEF ??
  <2>4. SlotFault(arg1, Drop(1)).code = "None" /\ GoodStack(Drop(1))
    BY <2>2, <2>3, StackChecks DEF ??
  <2>5. Slot(arg1) \in 1 .. MAX_LOCAL_SLOTS /\ Slot(arg1) > Frame.base_ptr
    BY <2>1, <2>4, FetchFacts, SlotCheck
  <2> QED
    BY <1>2, <2>1, <2>5, LimitsAssumption, FetchFacts DEF OthersUntouched, OutOfReach
<1>4. CASE Alloc /\ locals' # locals
  <2>1. Fetch(Allocations) /\ SizeFault(arg1, stack).code = "None"
        /\ locals' = locals \o [i \in 1 .. arg1 |-> 0]
    BY <1>4 DEF Alloc, Checked, Trap
  <2>2. arg1 \in Nat
    BY <2>1, FetchFacts, StackChecks, SizeCheck
  <2>3. [i \in 1 .. arg1 |-> 0] \in Seq(Int)
    BY <2>2
  <2>4. \A i \in 1 .. Len(locals) : locals'[i] = locals[i]
    BY <1>2, <2>1, <2>3, ValuesAreInt, ConcatProperties
  <2> QED
    BY <2>4 DEF OthersUntouched
<1>5. CASE Call /\ locals' # locals
  <2>1. Fetch({"Call"}) /\ CallFault.code = "None"
        /\ (locals' = PassArguments \/ locals' = CalleeLocals)
    BY <1>5 DEF Call, Checked, Trap
  <2>2. /\ arg1 \in DOMAIN prog.functions /\ arg2 \in Nat
        /\ Callee \in FunctionInfo /\ arg2 = Callee.param_count
        /\ NewBase \in Nat /\ Frame.base_ptr <= NewBase
        /\ NewBase + Callee.local_count <= MAX_LOCAL_SLOTS
    BY <2>1, CallChecks
  <2>3. arg2 <= Callee.local_count /\ Callee.local_count \in Nat
    <3>1. PreflightTraps(prog) = {}
      BY DEF IInv, Loaded
    <3>2. FunctionTrap(Callee) = "None"
      BY <2>2, <3>1 DEF PreflightTraps, Callee
    <3> QED
      BY <2>2, <3>2 DEF FunctionTrap, FunctionInfo
  <2>4. ASSUME NEW i \in 1 .. Len(locals), OutOfReach(i)
        PROVE  PassArguments[i] = locals[i] /\ CalleeLocals[i] = locals[i]
    <3>0. i <= NewBase \/ i > MAX_LOCAL_SLOTS
      BY <1>2, <2>2, <2>4 DEF OutOfReach, NewBase
    <3>1. i - NewBase \notin 1 .. arg2 /\ i - NewBase \notin (arg2 + 1) .. Callee.local_count
      BY <1>2, <2>2, <2>3, <3>0, LimitsAssumption
    <3>2. PassArguments[i] = locals[i]
      BY <3>1 DEF PassArguments
    <3> QED
      BY <3>1, <3>2 DEF CalleeLocals
  <2> QED
    BY <2>1, <2>4 DEF OthersUntouched
<1>6. locals' = locals \/ StoreLocal \/ Alloc \/ Call
  <2>1. CASE Execute
    <3>1. ~LocalArrayStore
      BY DEF LocalArrayStore, Fetch
    <3> QED
      BY <2>1, <3>1
      DEF Execute, LoadConst, LoadLocal, LoadGlobal, StoreGlobal, Binary, Unary,
          ArithmeticPanic, Jump, Branch, Return, ArrayLoad, ArrayStore, LocalArrayLoad,
          PrintTop, Pop, Dup, Halt, Checked, Trap, StackOnly, Exit
  <2> QED
    BY <2>1 DEF Next, RejectProgram, EnterMain, LoopTrap, Done, vars, Trap
<1> QED
  BY <1>1, <1>3, <1>4, <1>5, <1>6

\* Only StoreLocal writes the running frame and only LocalArrayStore anything
\* below it or in an array: callers find their locals as they left them (Call,
\* StoreLocal, Alloc).
THEOREM CallersKeepTheirLocals == Spec => SuspendedFramesFrozen
<1>1. IInv /\ [Next]_vars =>
        [ (status = "running" /\ pc < Len(Code) /\ Instr.opcode # "LocalArrayStore")
          => OthersUntouched ]_vars
  BY OthersUntouchedStep
<1> QED
  BY <1>1, Invariance, PTL DEF Spec, SuspendedFramesFrozen

(***************************************************************************)
(* What an instruction does when the checks of its operands and its pops   *)
(* cannot fail.  The verifier promises just that (see VerifiedVmProofs),   *)
(* so these lemmas say nothing of how it knows.                            *)
(***************************************************************************)
LocalArrays == {"LocalArrayLoad", "LocalArrayStore"}

Popped(ins) ==
  IF ins.opcode \in BinaryOps \cup {"ArrayStore", "LocalArrayStore"} THEN 2
  ELSE IF ins.opcode = "Call" THEN ins.arg2
  ELSE IF ins.opcode \in {"LoadConst", "LoadLocal", "LoadGlobal", "Jump", "Halt"}
                           \cup Allocations THEN 0
  ELSE 1

Pushed(ins) ==
  IF ins.opcode \in {"StoreLocal", "StoreGlobal", "ArrayStore", "LocalArrayStore",
                     "Return", "Print", "Pop", "Halt"} \cup Jumps THEN 0
  ELSE IF ins.opcode = "Dup" THEN 2 ELSE 1

WellFormed ==
  /\ Instr.opcode \in {"LoadLocal", "StoreLocal"} \cup LocalArrays
       => arg1 \in 0 .. LocalCount(Frame) - 1
  /\ Instr.opcode \in {"LoadGlobal", "StoreGlobal"} => arg1 \in 0 .. MAX_GLOBAL_SLOTS - 1
  /\ Instr.opcode \in {"ArrayLoad", "ArrayStore"}
       => arg1 \in 0 .. MAX_GLOBAL_SLOTS - 1 /\ arg2 >= 0 /\ arg1 + arg2 <= MAX_GLOBAL_SLOTS
  /\ Instr.opcode \in LocalArrays => arg2 >= 0
  /\ Instr.opcode \in Allocations \cup Jumps => arg1 >= 0
  /\ Instr.opcode = "Call"
       => arg1 \in DOMAIN prog.functions /\ arg2 = Callee.param_count

Guarded == pc < Len(Code) /\ WellFormed /\ Len(stack) >= Popped(Instr)

DataTraps ==
  {"DivideByZero", "UndefinedLocal", "ArrayOutOfBounds", "StackOverflow", "CycleLimit"}

\* A trap that is no fault of the code's structure.
DataTrap(code) ==
  \/ code \in DataTraps
  \/ code = "InvalidInstruction" /\ Instr.opcode \in LocalArrays

Traps == status' = "trapped" /\ pc' = pc /\ prog' = prog /\ DataTrap(trap_code')

Ends == status' \in {"exited", "panicked"} /\ trap_code' = trap_code /\ prog' = prog

Stays == prog' = prog /\ status' = status /\ trap_code' = trap_code

\* The next instruction of the same frame.
Targets ==
  IF Instr.opcode = "Jump" THEN {arg1}
  ELSE IF Instr.opcode \in Jumps THEN {arg1, pc + 1} ELSE {pc + 1}

Moves ==
  /\ Stays
  /\ Instr.opcode \notin {"Call", "Return", "Halt"}
  /\ call_stack' = call_stack
  /\ Len(stack') = Len(stack) - Popped(Instr) + Pushed(Instr)
  /\ pc' \in Targets

Enters ==
  /\ Stays
  /\ Instr.opcode = "Call"
  /\ call_stack' = Append(call_stack, CalleeFrame)
  /\ Len(stack') = Len(stack) - arg2
  /\ pc' = Callee.entry_pc

Leaves ==
  /\ Stays
  /\ Instr.opcode = "Return"
  /\ Len(call_stack) > 1
  /\ call_stack' = SubSeq(call_stack, 1, Len(call_stack) - 1)
  /\ stack' = stack
  /\ pc' = Frame.return_pc

Outcome == Traps \/ Ends \/ Moves \/ Enters \/ Leaves

\* The stack operations behind Moves.
LEMMA StackLengths ==
  ASSUME IInv
  PROVE  /\ Len(stack) \in Nat
         /\ \A v : Len(Append(stack, v)) = Len(stack) + 1
         /\ \A n \in Nat : n <= Len(stack) =>
              /\ Len(Drop(n)) = Len(stack) - n
              /\ \A v : Len(Append(Drop(n), v)) = Len(stack) - n + 1
<1>1. stack \in Seq(Values) /\ Len(stack) \in Nat
  BY DEF IInv, DataOK
<1>2. ASSUME NEW n \in Nat, n <= Len(stack)
      PROVE  Drop(n) \in Seq(Values) /\ Len(Drop(n)) = Len(stack) - n
  BY <1>2, Pops
<1>3. ASSUME NEW S, NEW s \in Seq(S), NEW v PROVE Len(Append(s, v)) = Len(s) + 1
  <2>1. s \in Seq(S \cup {v}) /\ v \in S \cup {v}
    <3>1. S \subseteq S \cup {v}
      OBVIOUS
    <3>2. Seq(S) \subseteq Seq(S \cup {v})
      BY <3>1, SeqMonotonic
    <3> QED
      BY <3>2
  <2> QED
    BY <2>1, AppendProperties
<1> QED
  BY <1>1, <1>2, <1>3

\* A handler whose checks raise data traps only.
LEMMA TrapOutcome ==
  ASSUME NEW ops, Fetch(ops), NEW f, Trap(f), DataTrap(f.code)
  PROVE  Traps
BY DEF Fetch, Trap, Abort, Traps

\* A handler that only rewrites the operand stack.
LEMMA StackOutcome ==
  ASSUME NEW ops, Fetch(ops), NEW stk, StackOnly(stk),
         Instr.opcode \notin {"Call", "Return", "Halt"} \cup Jumps,
         Len(stk) = Len(stack) - Popped(Instr) + Pushed(Instr)
  PROVE  Moves
BY DEF Fetch, StackOnly, Advance, GoTo, Moves, Stays, Targets, result, Jumps

\* The stack effects, opcode by opcode.
LEMMA Effects ==
  ASSUME NEW ins
  PROVE  /\ ins.opcode \in {"LoadConst", "LoadLocal", "LoadGlobal"} \cup Allocations
              => Popped(ins) = 0 /\ Pushed(ins) = 1
         /\ ins.opcode \in BinaryOps => Popped(ins) = 2 /\ Pushed(ins) = 1
         /\ ins.opcode \in UnaryOps \cup {"ArrayLoad", "LocalArrayLoad"}
              => Popped(ins) = 1 /\ Pushed(ins) = 1
         /\ ins.opcode \in {"StoreLocal", "StoreGlobal", "Print", "Pop", "JumpIfFalse",
                            "JumpIfTrue"}
              => Popped(ins) = 1 /\ Pushed(ins) = 0
         /\ ins.opcode \in {"ArrayStore", "LocalArrayStore"}
              => Popped(ins) = 2 /\ Pushed(ins) = 0
         /\ ins.opcode = "Dup" => Popped(ins) = 1 /\ Pushed(ins) = 2
         /\ ins.opcode = "Jump" => Popped(ins) = 0 /\ Pushed(ins) = 0
         /\ ins.opcode = "Call" => Popped(ins) = ins.arg2
         /\ ins.opcode = "Return" => Popped(ins) = 1
BY DEF Popped, Pushed, BinaryOps, UnaryOps, Arithmetic, Comparisons, Jumps, Allocations

\* The codes of the checks.
LEMMA FaultCodes ==
  ASSUME NEW stk
  PROVE  /\ PushFault(stk).code \in {"None", "StackOverflow"}
         /\ \A i, n : IndexFault(i, n, stk).code \in {"None", "ArrayOutOfBounds"}
         /\ \A b, n : ArrayBaseFault(b, n, stk).code
                        \in {"None", "UndefinedLocal", "InvalidInstruction"}
         /\ \A b : Fault(b, "UndefinedLocal", stk).code \in {"None", "UndefinedLocal"}
BY DEF PushFault, IndexFault, ArrayBaseFault, Fault, NoFault, ??

\* Of the checks of a guarded instruction's own operands none fails but the
\* one that the locals are not exhausted.
LEMMA GuardedChecks ==
  ASSUME IInv, Guarded, status = "running", NEW stk
  PROVE  /\ Instr.opcode \in {"LoadLocal", "StoreLocal"} \cup LocalArrays
              => SlotFault(arg1, stk).code \in {"None", "StackOverflow"}
         /\ Instr.opcode \in {"LoadGlobal", "StoreGlobal"}
              => GlobalFault(arg1, stk).code = "None"
         /\ Instr.opcode \in {"ArrayLoad", "ArrayStore"}
              => GlobalRangeFault(arg1, arg2, stk).code = "None"
         /\ Instr.opcode \in LocalArrays => SizeFault(arg2, stk).code = "None"
         /\ Instr.opcode \in Allocations => SizeFault(arg1, stk).code = "None"
         /\ PopFault(stack, Popped(Instr)).code = "None"
<1>1. /\ pc < Len(Code) /\ Instr \in Instruction /\ LocalCount(Frame) \in Nat
      /\ arg1 \in Int /\ arg2 \in Int
  BY RunningFacts, LimitsAssumption DEF Guarded, Instruction, I32, arg1, arg2
<1>2. Instr.opcode \in {"LoadLocal", "StoreLocal"} \cup LocalArrays
        => SlotFault(arg1, stk).code \in {"None", "StackOverflow"}
  <2>1. Instr.opcode \in {"LoadLocal", "StoreLocal"} \cup LocalArrays
          => ~(arg1 < 0 \/ arg1 >= LocalCount(Frame))
    BY <1>1 DEF Guarded, WellFormed
  <2> QED
    BY <2>1 DEF SlotFault, Fault, NoFault, ??
<1>3. Instr.opcode \in {"LoadGlobal", "StoreGlobal", "ArrayLoad", "ArrayStore"}
        => GlobalFault(arg1, stk).code = "None"
  <2>1. Instr.opcode \in {"LoadGlobal", "StoreGlobal", "ArrayLoad", "ArrayStore"}
          => ~(arg1 < 0 \/ arg1 >= MAX_GLOBAL_SLOTS)
    BY <1>1, LimitsAssumption DEF Guarded, WellFormed
  <2> QED
    BY <2>1 DEF GlobalFault, Fault, NoFault
<1>4. Instr.opcode \in {"ArrayLoad", "ArrayStore"} \cup LocalArrays
        => SizeFault(arg2, stk).code = "None"
  <2>1. Instr.opcode \in {"ArrayLoad", "ArrayStore"} \cup LocalArrays => ~(arg2 < 0)
    BY <1>1 DEF Guarded, WellFormed
  <2> QED
    BY <2>1 DEF SizeFault, Fault, NoFault
<1>5. Instr.opcode \in {"ArrayLoad", "ArrayStore"}
        => GlobalRangeFault(arg1, arg2, stk).code = "None"
  <2>1. Instr.opcode \in {"ArrayLoad", "ArrayStore"}
          => Fault(arg1 + arg2 > MAX_GLOBAL_SLOTS, "InvalidInstruction", stk).code = "None"
    <3>1. Instr.opcode \in {"ArrayLoad", "ArrayStore"} => ~(arg1 + arg2 > MAX_GLOBAL_SLOTS)
      BY <1>1, LimitsAssumption DEF Guarded, WellFormed
    <3> QED
      BY <3>1 DEF Fault, NoFault
  <2> QED
    BY <1>3, <1>4, <2>1 DEF GlobalRangeFault, ??
<1>6. Instr.opcode \in Allocations => SizeFault(arg1, stk).code = "None"
  <2>1. Instr.opcode \in Allocations => ~(arg1 < 0)
    BY <1>1 DEF Guarded, WellFormed
  <2> QED
    BY <2>1 DEF SizeFault, Fault, NoFault
<1>7. PopFault(stack, Popped(Instr)).code = "None"
  <2>1. Popped(Instr) \in Int
    BY <1>1 DEF Popped, arg2
  <2>2. ~(Len(stack) < Popped(Instr))
    BY <2>1, StackLengths DEF Guarded
  <2> QED
    BY <2>2 DEF PopFault, Fault, NoFault
<1> QED
  BY <1>2, <1>3, <1>4, <1>5, <1>6, <1>7

\* A handler that rewrites the operand stack, with its checks.
LEMMA CheckedStackOutcome ==
  ASSUME NEW ops, Fetch(ops), NEW f, NEW stk, Checked(f, StackOnly(stk)),
         Instr.opcode \notin {"Call", "Return", "Halt"} \cup Jumps,
         f.code = "None" \/ DataTrap(f.code),
         Len(stk) = Len(stack) - Popped(Instr) + Pushed(Instr)
  PROVE  Outcome
<1>1. CASE f.code # "None"
  BY <1>1, TrapOutcome DEF Checked, Outcome
<1>2. CASE f.code = "None"
  BY <1>2, StackOutcome DEF Checked, Outcome
<1> QED
  BY <1>1, <1>2

\* Per handler, under Guarded: the outcome.
LEMMA LoadConstOutcome == ASSUME IInv, Guarded, LoadConst PROVE Outcome
<1>1. Fetch({"LoadConst"}) /\ Checked(PushFault(stack), StackOnly(Append(stack, arg1)))
  BY DEF LoadConst
<1>2. Instr.opcode = "LoadConst" /\ Popped(Instr) = 0 /\ Pushed(Instr) = 1
  BY <1>1, Effects DEF Fetch
<1>3. PushFault(stack).code = "None" \/ DataTrap(PushFault(stack).code)
  BY FaultCodes DEF DataTrap, DataTraps
<1>4. Len(Append(stack, arg1)) = Len(stack) - 0 + 1
  BY StackLengths
<1> QED
  BY <1>1, <1>2, <1>3, <1>4, CheckedStackOutcome DEF Jumps

LEMMA LoadLocalOutcome == ASSUME IInv, Guarded, LoadLocal PROVE Outcome
<1> DEFINE v == locals[Slot(arg1)]
<1> DEFINE f == SlotFault(arg1, stack) ?? Fault(v = I64Min, "UndefinedLocal", stack)
                  ?? PushFault(stack)
<1>1. Fetch({"LoadLocal"}) /\ Checked(f, StackOnly(Append(stack, v)))
  BY DEF LoadLocal
<1>2. Instr.opcode = "LoadLocal" /\ Popped(Instr) = 0 /\ Pushed(Instr) = 1
  BY <1>1, Effects DEF Fetch
<1>3. f.code = "None" \/ DataTrap(f.code)
  <2>1. SlotFault(arg1, stack).code \in {"None", "StackOverflow"}
    BY <1>1, <1>2, GuardedChecks DEF Fetch
  <2>2. Fault(v = I64Min, "UndefinedLocal", stack).code \in {"None", "UndefinedLocal"}
    BY FaultCodes
  <2>3. PushFault(stack).code \in {"None", "StackOverflow"}
    BY FaultCodes
  <2> QED
    BY <2>1, <2>2, <2>3 DEF DataTrap, DataTraps, ??
<1>4. Len(Append(stack, v)) = Len(stack) - 0 + 1
  BY StackLengths
<1> HIDE DEF f, v
<1> QED
  BY <1>1, <1>2, <1>3, <1>4, CheckedStackOutcome DEF Jumps

LEMMA LoadGlobalOutcome == ASSUME IInv, Guarded, LoadGlobal PROVE Outcome
<1> DEFINE f == GlobalFault(arg1, stack) ?? PushFault(stack)
<1> DEFINE stk == Append(stack, globals[arg1 + 1])
<1>1. Fetch({"LoadGlobal"}) /\ Checked(f, StackOnly(stk))
  BY DEF LoadGlobal
<1>2. Instr.opcode = "LoadGlobal" /\ Popped(Instr) = 0 /\ Pushed(Instr) = 1
  BY <1>1, Effects DEF Fetch
<1>3. f.code = "None" \/ DataTrap(f.code)
  <2>1. GlobalFault(arg1, stack).code = "None"
    BY <1>1, <1>2, GuardedChecks DEF Fetch
  <2>2. PushFault(stack).code \in {"None", "StackOverflow"}
    BY FaultCodes
  <2> QED
    BY <2>1, <2>2 DEF DataTrap, DataTraps, ??
<1>4. Len(stk) = Len(stack) - 0 + 1
  BY StackLengths
<1> HIDE DEF f, stk
<1> QED
  BY <1>1, <1>2, <1>3, <1>4, CheckedStackOutcome DEF Jumps

LEMMA BinaryOutcome == ASSUME IInv, Guarded, Binary PROVE Outcome
<1> DEFINE f == PopFault(stack, 2)
                  ?? Fault(Instr.opcode = "Div" /\ Top(0) = 0, "DivideByZero", Drop(2))
<1> DEFINE stk == Append(Drop(2), BinaryResult(Instr.opcode, Top(1), Top(0)))
<1>1. Fetch(BinaryOps) /\ Checked(f, StackOnly(stk))
  BY DEF Binary
<1>2. Instr.opcode \in BinaryOps /\ Popped(Instr) = 2 /\ Pushed(Instr) = 1
  BY <1>1, Effects DEF Fetch
<1>3. f.code = "None" \/ DataTrap(f.code)
  <2>1. PopFault(stack, 2).code = "None"
    BY <1>1, <1>2, GuardedChecks DEF Fetch
  <2>2. Fault(Instr.opcode = "Div" /\ Top(0) = 0, "DivideByZero", Drop(2)).code
          \in {"None", "DivideByZero"}
    BY DEF Fault, NoFault
  <2> QED
    BY <2>1, <2>2 DEF DataTrap, DataTraps, ??
<1>4. Len(stk) = Len(stack) - 2 + 1
  BY <1>2, StackLengths DEF Guarded
<1> HIDE DEF f, stk
<1> QED
  BY <1>1, <1>2, <1>3, <1>4, CheckedStackOutcome DEF Jumps, BinaryOps, Arithmetic, Comparisons

LEMMA UnaryOutcome == ASSUME IInv, Guarded, Unary PROVE Outcome
<1> DEFINE f == PopFault(stack, 1)
<1> DEFINE stk == Append(Drop(1), UnaryResult(Instr.opcode, Top(0)))
<1>1. Fetch(UnaryOps) /\ Checked(f, StackOnly(stk))
  BY DEF Unary
<1>2. Instr.opcode \in UnaryOps /\ Popped(Instr) = 1 /\ Pushed(Instr) = 1
  BY <1>1, Effects DEF Fetch
<1>3. f.code = "None" \/ DataTrap(f.code)
  <2>1. PopFault(stack, 1).code = "None"
    BY <1>1, <1>2, GuardedChecks DEF Fetch
  <2> QED
    BY <2>1 DEF DataTrap, DataTraps, ??
<1>4. Len(stk) = Len(stack) - 1 + 1
  BY <1>2, StackLengths DEF Guarded
<1> HIDE DEF f, stk
<1> QED
  BY <1>1, <1>2, <1>3, <1>4, CheckedStackOutcome DEF Jumps, UnaryOps

LEMMA PopOutcome == ASSUME IInv, Guarded, Pop PROVE Outcome
<1> DEFINE f == PopFault(stack, 1)
<1> DEFINE stk == Drop(1)
<1>1. Fetch({"Pop"}) /\ Checked(f, StackOnly(stk))
  BY DEF Pop
<1>2. Instr.opcode = "Pop" /\ Popped(Instr) = 1 /\ Pushed(Instr) = 0
  BY <1>1, Effects DEF Fetch
<1>3. f.code = "None" \/ DataTrap(f.code)
  <2>1. PopFault(stack, 1).code = "None"
    BY <1>1, <1>2, GuardedChecks DEF Fetch
  <2> QED
    BY <2>1 DEF DataTrap, DataTraps, ??
<1>4. Len(stk) = Len(stack) - 1 + 0
  BY <1>2, StackLengths DEF Guarded
<1> HIDE DEF f, stk
<1> QED
  BY <1>1, <1>2, <1>3, <1>4, CheckedStackOutcome DEF Jumps

LEMMA DupOutcome == ASSUME IInv, Guarded, Dup PROVE Outcome
<1> DEFINE f == PopFault(stack, 1) ?? PushFault(stack)
<1> DEFINE stk == Append(stack, Top(0))
<1>1. Fetch({"Dup"}) /\ Checked(f, StackOnly(stk))
  BY DEF Dup
<1>2. Instr.opcode = "Dup" /\ Popped(Instr) = 1 /\ Pushed(Instr) = 2
  BY <1>1, Effects DEF Fetch
<1>3. f.code = "None" \/ DataTrap(f.code)
  <2>1. PopFault(stack, 1).code = "None"
    BY <1>1, <1>2, GuardedChecks DEF Fetch
  <2>2. PushFault(stack).code \in {"None", "StackOverflow"}
    BY FaultCodes
  <2> QED
    BY <2>1, <2>2 DEF DataTrap, DataTraps, ??
<1>4. Len(stk) = Len(stack) - 1 + 2
  BY <1>2, StackLengths DEF Guarded
<1> HIDE DEF f, stk
<1> QED
  BY <1>1, <1>2, <1>3, <1>4, CheckedStackOutcome DEF Jumps

LEMMA ArrayLoadOutcome == ASSUME IInv, Guarded, ArrayLoad PROVE Outcome
<1> DEFINE f == GlobalRangeFault(arg1, arg2, stack) ?? PopFault(stack, 1)
                  ?? IndexFault(Top(0), arg2, Drop(1))
<1> DEFINE stk == Append(Drop(1), globals[arg1 + Top(0) + 1])
<1>1. Fetch({"ArrayLoad"}) /\ Checked(f, StackOnly(stk))
  BY DEF ArrayLoad
<1>2. Instr.opcode = "ArrayLoad" /\ Popped(Instr) = 1 /\ Pushed(Instr) = 1
  BY <1>1, Effects DEF Fetch
<1>3. f.code = "None" \/ DataTrap(f.code)
  <2>1. GlobalRangeFault(arg1, arg2, stack).code = "None"
    BY <1>1, <1>2, GuardedChecks DEF Fetch
  <2>2. PopFault(stack, 1).code = "None"
    BY <1>1, <1>2, GuardedChecks DEF Fetch
  <2>3. IndexFault(Top(0), arg2, Drop(1)).code \in {"None", "ArrayOutOfBounds"}
    BY FaultCodes
  <2> QED
    BY <2>1, <2>2, <2>3 DEF DataTrap, DataTraps, ??
<1>4. Len(stk) = Len(stack) - 1 + 1
  BY <1>2, StackLengths DEF Guarded
<1> HIDE DEF f, stk
<1> QED
  BY <1>1, <1>2, <1>3, <1>4, CheckedStackOutcome DEF Jumps

LEMMA LocalArrayLoadOutcome == ASSUME IInv, Guarded, LocalArrayLoad PROVE Outcome
<1> DEFINE f == SizeFault(arg2, stack) ?? PopFault(stack, 1)
                  ?? IndexFault(Top(0), arg2, Drop(1)) ?? SlotFault(arg1, Drop(1))
                  ?? ArrayBaseFault(locals[Slot(arg1)], arg2, Drop(1))
<1> DEFINE stk == Append(Drop(1), locals[locals[Slot(arg1)] + Top(0) + 1])
<1>1. Fetch({"LocalArrayLoad"}) /\ Checked(f, StackOnly(stk))
  BY DEF LocalArrayLoad
<1>2. Instr.opcode = "LocalArrayLoad" /\ Popped(Instr) = 1 /\ Pushed(Instr) = 1
  BY <1>1, Effects DEF Fetch
<1>3. f.code = "None" \/ DataTrap(f.code)
  <2>1. SizeFault(arg2, stack).code = "None"
    BY <1>1, <1>2, GuardedChecks DEF Fetch, LocalArrays
  <2>2. PopFault(stack, 1).code = "None"
    BY <1>1, <1>2, GuardedChecks DEF Fetch
  <2>3. IndexFault(Top(0), arg2, Drop(1)).code \in {"None", "ArrayOutOfBounds"}
    BY FaultCodes
  <2>4. SlotFault(arg1, Drop(1)).code \in {"None", "StackOverflow"}
    BY <1>1, <1>2, GuardedChecks DEF Fetch, LocalArrays
  <2>5. ArrayBaseFault(locals[Slot(arg1)], arg2, Drop(1)).code
          \in {"None", "UndefinedLocal", "InvalidInstruction"}
    BY FaultCodes
  <2>6. Instr.opcode \in LocalArrays
    BY <1>2 DEF LocalArrays
  <2> QED
    BY <2>1, <2>2, <2>3, <2>4, <2>5, <2>6 DEF DataTrap, DataTraps, ??
<1>4. Len(stk) = Len(stack) - 1 + 1
  BY <1>2, StackLengths DEF Guarded
<1> HIDE DEF f, stk
<1> QED
  BY <1>1, <1>2, <1>3, <1>4, CheckedStackOutcome DEF Jumps

\* A handler that pops and writes elsewhere, with its checks.
LEMMA CheckedWriteOutcome ==
  ASSUME IInv, NEW ops, Fetch(ops), NEW f, NEW n \in Nat, n <= Len(stack),
         \/ f.code # "None" /\ Trap(f)
         \/ f.code = "None" /\ stack' = Drop(n) /\ Advance,
         Instr.opcode \notin {"Call", "Return", "Halt"} \cup Jumps,
         f.code = "None" \/ DataTrap(f.code),
         Popped(Instr) = n, Pushed(Instr) = 0
  PROVE  Outcome
<1>1. CASE f.code # "None"
  BY <1>1, TrapOutcome DEF Outcome
<1>2. CASE f.code = "None"
  <2>1. Len(stack') = Len(stack) - Popped(Instr) + Pushed(Instr)
    BY <1>2, StackLengths
  <2> QED
    BY <1>2, <2>1 DEF Fetch, Advance, GoTo, Moves, Stays, Targets, result, Jumps, Outcome
<1> QED
  BY <1>1, <1>2

LEMMA StoreLocalOutcome == ASSUME IInv, Guarded, StoreLocal PROVE Outcome
<1> DEFINE f == PopFault(stack, 1) ?? SlotFault(arg1, Drop(1))
<1>1. /\ Fetch({"StoreLocal"})
      /\ \/ f.code # "None" /\ Trap(f)
         \/ f.code = "None" /\ stack' = Drop(1) /\ Advance
  BY DEF StoreLocal, Checked
<1>2. Instr.opcode = "StoreLocal" /\ Popped(Instr) = 1 /\ Pushed(Instr) = 0
  BY <1>1, Effects DEF Fetch
<1>3. f.code = "None" \/ DataTrap(f.code)
  <2>1. PopFault(stack, 1).code = "None"
    BY <1>1, <1>2, GuardedChecks DEF Fetch
  <2>2. SlotFault(arg1, Drop(1)).code \in {"None", "StackOverflow"}
    BY <1>1, <1>2, GuardedChecks DEF Fetch
  <2> QED
    BY <2>1, <2>2 DEF DataTrap, DataTraps, ??
<1>4. 1 <= Len(stack)
  BY <1>2, StackLengths DEF Guarded
<1> HIDE DEF f
<1> QED
  BY <1>1, <1>2, <1>3, <1>4, CheckedWriteOutcome DEF Jumps

LEMMA StoreGlobalOutcome == ASSUME IInv, Guarded, StoreGlobal PROVE Outcome
<1> DEFINE f == GlobalFault(arg1, stack) ?? PopFault(stack, 1)
<1>1. /\ Fetch({"StoreGlobal"})
      /\ \/ f.code # "None" /\ Trap(f)
         \/ f.code = "None" /\ stack' = Drop(1) /\ Advance
  BY DEF StoreGlobal, Checked
<1>2. Instr.opcode = "StoreGlobal" /\ Popped(Instr) = 1 /\ Pushed(Instr) = 0
  BY <1>1, Effects DEF Fetch
<1>3. f.code = "None" \/ DataTrap(f.code)
  <2>1. PopFault(stack, 1).code = "None"
    BY <1>1, <1>2, GuardedChecks DEF Fetch
  <2>2. GlobalFault(arg1, stack).code = "None"
    BY <1>1, <1>2, GuardedChecks DEF Fetch
  <2> QED
    BY <2>1, <2>2 DEF DataTrap, DataTraps, ??
<1>4. 1 <= Len(stack)
  BY <1>2, StackLengths DEF Guarded
<1> HIDE DEF f
<1> QED
  BY <1>1, <1>2, <1>3, <1>4, CheckedWriteOutcome DEF Jumps

LEMMA PrintTopOutcome == ASSUME IInv, Guarded, PrintTop PROVE Outcome
<1> DEFINE f == PopFault(stack, 1)
<1>1. /\ Fetch({"Print"})
      /\ \/ f.code # "None" /\ Trap(f)
         \/ f.code = "None" /\ stack' = Drop(1) /\ Advance
  BY DEF PrintTop, Checked
<1>2. Instr.opcode = "Print" /\ Popped(Instr) = 1 /\ Pushed(Instr) = 0
  BY <1>1, Effects DEF Fetch
<1>3. f.code = "None" \/ DataTrap(f.code)
  <2>1. PopFault(stack, 1).code = "None"
    BY <1>1, <1>2, GuardedChecks DEF Fetch
  <2> QED
    BY <2>1 DEF DataTrap, DataTraps, ??
<1>4. 1 <= Len(stack)
  BY <1>2, StackLengths DEF Guarded
<1> HIDE DEF f
<1> QED
  BY <1>1, <1>2, <1>3, <1>4, CheckedWriteOutcome DEF Jumps

LEMMA ArrayStoreOutcome == ASSUME IInv, Guarded, ArrayStore PROVE Outcome
<1> DEFINE f == GlobalRangeFault(arg1, arg2, stack) ?? PopFault(stack, 2)
                  ?? IndexFault(Top(1), arg2, Drop(2))
<1>1. /\ Fetch({"ArrayStore"})
      /\ \/ f.code # "None" /\ Trap(f)
         \/ f.code = "None" /\ stack' = Drop(2) /\ Advance
  BY DEF ArrayStore, Checked
<1>2. Instr.opcode = "ArrayStore" /\ Popped(Instr) = 2 /\ Pushed(Instr) = 0
  BY <1>1, Effects DEF Fetch
<1>3. f.code = "None" \/ DataTrap(f.code)
  <2>1. GlobalRangeFault(arg1, arg2, stack).code = "None"
    BY <1>1, <1>2, GuardedChecks DEF Fetch
  <2>2. PopFault(stack, 2).code = "None"
    BY <1>1, <1>2, GuardedChecks DEF Fetch
  <2>3. IndexFault(Top(1), arg2, Drop(2)).code \in {"None", "ArrayOutOfBounds"}
    BY FaultCodes
  <2> QED
    BY <2>1, <2>2, <2>3 DEF DataTrap, DataTraps, ??
<1>4. 2 <= Len(stack)
  BY <1>2, StackLengths DEF Guarded
<1> HIDE DEF f
<1> QED
  BY <1>1, <1>2, <1>3, <1>4, CheckedWriteOutcome DEF Jumps

LEMMA LocalArrayStoreOutcome == ASSUME IInv, Guarded, LocalArrayStore PROVE Outcome
<1> DEFINE f == SizeFault(arg2, stack) ?? PopFault(stack, 2)
                  ?? IndexFault(Top(1), arg2, Drop(2)) ?? SlotFault(arg1, Drop(2))
                  ?? ArrayBaseFault(locals[Slot(arg1)], arg2, Drop(2))
<1>1. /\ Fetch({"LocalArrayStore"})
      /\ \/ f.code # "None" /\ Trap(f)
         \/ f.code = "None" /\ stack' = Drop(2) /\ Advance
  BY DEF LocalArrayStore, Checked
<1>2. Instr.opcode = "LocalArrayStore" /\ Popped(Instr) = 2 /\ Pushed(Instr) = 0
  BY <1>1, Effects DEF Fetch
<1>3. f.code = "None" \/ DataTrap(f.code)
  <2>1. SizeFault(arg2, stack).code = "None"
    BY <1>1, <1>2, GuardedChecks DEF Fetch, LocalArrays
  <2>2. PopFault(stack, 2).code = "None"
    BY <1>1, <1>2, GuardedChecks DEF Fetch
  <2>3. IndexFault(Top(1), arg2, Drop(2)).code \in {"None", "ArrayOutOfBounds"}
    BY FaultCodes
  <2>4. SlotFault(arg1, Drop(2)).code \in {"None", "StackOverflow"}
    BY <1>1, <1>2, GuardedChecks DEF Fetch, LocalArrays
  <2>5. ArrayBaseFault(locals[Slot(arg1)], arg2, Drop(2)).code
          \in {"None", "UndefinedLocal", "InvalidInstruction"}
    BY FaultCodes
  <2>6. Instr.opcode \in LocalArrays
    BY <1>2 DEF LocalArrays
  <2> QED
    BY <2>1, <2>2, <2>3, <2>4, <2>5, <2>6 DEF DataTrap, DataTraps, ??
<1>4. 2 <= Len(stack)
  BY <1>2, StackLengths DEF Guarded
<1> HIDE DEF f
<1> QED
  BY <1>1, <1>2, <1>3, <1>4, CheckedWriteOutcome DEF Jumps

LEMMA AllocOutcome == ASSUME IInv, Guarded, Alloc PROVE Outcome
<1>1. Fetch(Allocations)
  BY DEF Alloc
<1>2. Instr.opcode \in Allocations /\ Popped(Instr) = 0 /\ Pushed(Instr) = 1
  BY <1>1, Effects DEF Fetch
<1>3. SizeFault(arg1, stack).code = "None"
  BY <1>1, <1>2, GuardedChecks DEF Fetch
<1>4. CASE PushFault(stack).code # "None"
  <2>1. DataTrap(PushFault(stack).code)
    BY <1>4, FaultCodes DEF DataTrap, DataTraps
  <2> QED
    BY <1>1, <1>3, <1>4, <2>1 DEF Alloc, Checked, Abort, Fetch, Traps, Outcome
<1>5. CASE PushFault(stack).code = "None"
  <2>1. stack' = Append(stack, Len(locals)) /\ Advance
    BY <1>3, <1>5 DEF Alloc, Checked
  <2>2. Len(stack') = Len(stack) - Popped(Instr) + Pushed(Instr)
    BY <1>2, <2>1, StackLengths
  <2> QED
    BY <1>1, <1>2, <2>1, <2>2
    DEF Fetch, Advance, GoTo, Moves, Stays, Targets, result, Jumps, Allocations, Outcome
<1> QED
  BY <1>4, <1>5

LEMMA JumpOutcome == ASSUME IInv, Guarded, Jump PROVE Outcome
<1>1. Fetch({"Jump"}) /\ GoTo(AsUsize(arg1)) /\ stack' = stack
  BY DEF Jump
<1>2. Instr.opcode = "Jump" /\ Popped(Instr) = 0 /\ Pushed(Instr) = 0
  BY <1>1, Effects DEF Fetch
<1>3. AsUsize(arg1) = arg1
  BY <1>2 DEF Guarded, WellFormed, AsUsize, Jumps
<1>4. Len(stack') = Len(stack) - Popped(Instr) + Pushed(Instr)
  BY <1>1, <1>2, StackLengths
<1> QED
  BY <1>1, <1>2, <1>3, <1>4 DEF Fetch, GoTo, Moves, Stays, Targets, result, Outcome

LEMMA BranchOutcome == ASSUME IInv, Guarded, Branch PROVE Outcome
<1>1. Fetch({"JumpIfFalse", "JumpIfTrue"})
  BY DEF Branch
<1>2. /\ Instr.opcode \in {"JumpIfFalse", "JumpIfTrue"}
      /\ Popped(Instr) = 1 /\ Pushed(Instr) = 0
  BY <1>1, Effects DEF Fetch
<1>3. PopFault(stack, 1).code = "None"
  BY <1>1, <1>2, GuardedChecks DEF Fetch
<1>4. /\ stack' = Drop(1)
      /\ GoTo(IF BranchTaken THEN AsUsize(arg1) ELSE pc + 1)
  BY <1>3 DEF Branch, Checked
<1>5. AsUsize(arg1) = arg1
  BY <1>2 DEF Guarded, WellFormed, AsUsize, Jumps
<1>6. Len(stack') = Len(stack) - Popped(Instr) + Pushed(Instr)
  BY <1>2, <1>4, StackLengths DEF Guarded
<1>7. pc' \in {arg1, pc + 1}
  BY <1>4, <1>5 DEF GoTo
<1> QED
  BY <1>1, <1>2, <1>4, <1>6, <1>7
  DEF Fetch, GoTo, Moves, Stays, Targets, result, Jumps, Outcome

LEMMA CallOutcome == ASSUME IInv, Guarded, Call PROVE Outcome
<1>1. Fetch({"Call"})
  BY DEF Call
<1>2. Instr.opcode = "Call" /\ Popped(Instr) = arg2
  BY <1>1, Effects DEF Fetch, arg2
<1>3. /\ arg1 \in DOMAIN prog.functions /\ arg2 = Callee.param_count
      /\ arg1 \in Nat /\ arg2 \in Nat
  <2>1. arg1 \in DOMAIN prog.functions /\ arg2 = Callee.param_count
    BY <1>2 DEF Guarded, WellFormed
  <2> QED
    BY <2>1 DEF IInv, ControlOK, IsProgram, Callee, FunctionInfo
<1>4. CallFault.code \in {"None", "StackOverflow"}
  <2>1. /\ ~(arg1 < 0 \/ arg2 < 0) /\ ~(arg1 \notin DOMAIN prog.functions)
        /\ ~(arg2 # Callee.param_count)
    BY <1>3
  <2> QED
    BY <2>1 DEF CallFault, Fault, NoFault, ??
<1>5. CASE CallFault.code # "None"
  <2>1. DataTrap(CallFault.code)
    BY <1>4, <1>5 DEF DataTrap, DataTraps
  <2>2. Trap(CallFault)
    BY <1>5 DEF Call, Checked
  <2> QED
    BY <1>1, <2>1, <2>2, TrapOutcome DEF Outcome
<1>6. CASE CallFault.code = "None"
  <2>1. Len(stack) >= arg2
    BY <1>2 DEF Guarded
  <2>2. ~(Len(stack) < arg2)
    BY <1>3, <2>1, StackLengths
  <2>3. /\ stack' = Drop(arg2) /\ call_stack' = Append(call_stack, CalleeFrame)
        /\ pc' = Callee.entry_pc /\ UNCHANGED result
    BY <1>6, <2>2 DEF Call, Checked
  <2>4. Len(stack') = Len(stack) - arg2
    BY <1>3, <2>1, <2>3, StackLengths
  <2> QED
    BY <1>1, <1>2, <2>3, <2>4 DEF Fetch, Enters, Stays, result, Outcome
<1> QED
  BY <1>5, <1>6

LEMMA ReturnOutcome == ASSUME IInv, Guarded, Return PROVE Outcome
<1>1. Fetch({"Return"})
  BY DEF Return
<1>2. Instr.opcode = "Return" /\ Popped(Instr) = 1
  BY <1>1, Effects DEF Fetch
<1>3. PopFault(stack, 1).code = "None"
  BY <1>1, <1>2, GuardedChecks DEF Fetch
<1>4. CASE Len(call_stack) = 1
  <2>1. Exit
    BY <1>3, <1>4 DEF Return, Checked
  <2> QED
    BY <1>1, <2>1 DEF Exit, Fetch, Ends, Outcome
<1>5. CASE Len(call_stack) # 1
  <2>1. /\ pc' = IF Frame.return_pc = USIZE_MAX THEN pc ELSE Frame.return_pc
        /\ Len(call_stack) > 1
        /\ call_stack' = SubSeq(call_stack, 1, Len(call_stack) - 1)
        /\ UNCHANGED <<stack, result>>
    BY <1>3, <1>5 DEF Return, Checked
  <2>2. Frame.return_pc # USIZE_MAX
    <3>1. Len(call_stack) \in 1 .. Len(call_stack) /\ Len(call_stack) # 1
      BY <1>1, <1>5, RunningFacts DEF Fetch
    <3>2. Frame.return_pc \in 1 .. Len(Code)
      BY <3>1 DEF IInv, ReturnAddresses, Frame
    <3>3. Len(Code) <= MAX_INSTRUCTIONS /\ Len(Code) \in Nat
      BY <1>1, PreflightPasses DEF Fetch, IInv, Loaded, ControlOK, Code, IsProgram
    <3> QED
      BY <3>2, <3>3, LimitsAssumption, UsizeAssumption
  <2> QED
    BY <1>1, <1>2, <2>1, <2>2 DEF Fetch, Leaves, Stays, result, Outcome
<1> QED
  BY <1>4, <1>5

LEMMA EndOutcome == ASSUME Halt \/ ArithmeticPanic PROVE Outcome
BY DEF Halt, Exit, ArithmeticPanic, Fetch, Ends, Outcome

\* The step of a guarded instruction ends the run, traps on data, or moves
\* within the frame, into a callee or back to the caller, with the stack
\* effect of its opcode (execute_instruction).
LEMMA GuardedStep ==
  ASSUME IInv, status = "running", Guarded, Next
  PROVE  Outcome
<1>1. CASE LoopTrap
  <2>1. Trap([code |-> "CycleLimit", stack |-> stack]) /\ prog' = prog
    <3>1. ~(pc >= Len(Code))
      BY DEF Guarded, IInv, ControlOK, Code, IsProgram
    <3> QED
      BY <1>1, <3>1 DEF LoopTrap
  <2>2. DataTrap("CycleLimit")
    BY DEF DataTrap, DataTraps
  <2> QED
    BY <2>1, <2>2 DEF Trap, Abort, Traps, Outcome
<1>2. CASE Execute
  BY <1>2, LoadConstOutcome, LoadLocalOutcome, StoreLocalOutcome, LoadGlobalOutcome,
     StoreGlobalOutcome, BinaryOutcome, UnaryOutcome, EndOutcome, JumpOutcome,
     BranchOutcome, CallOutcome, ReturnOutcome, ArrayLoadOutcome, ArrayStoreOutcome,
     LocalArrayLoadOutcome, LocalArrayStoreOutcome, AllocOutcome, PrintTopOutcome,
     PopOutcome, DupOutcome DEF Execute
<1>3. ~RejectProgram /\ ~EnterMain /\ ~Done
  BY DEF RejectProgram, EnterMain, Done, Final
<1> QED
  BY <1>1, <1>2, <1>3 DEF Next

(***************************************************************************)
(* What any step does to the call stack, and which instruction each data   *)
(* trap belongs to.                                                        *)
(***************************************************************************)

\* Frames come with main and with Call, and go one by one or all at once.
LEMMA CallStackAfter ==
  ASSUME Next
  PROVE  \/ call_stack' = call_stack \/ call_stack' = <<>>
         \/ EnterMain
         \/ /\ status = "running" /\ Instr.opcode = "Call"
            /\ prog' = prog
            /\ call_stack' = Append(call_stack, CalleeFrame)
         \/ /\ Len(call_stack) > 1
            /\ call_stack' = SubSeq(call_stack, 1, Len(call_stack) - 1)
<1>1. CASE Execute
  <2>1. CASE Call
    BY <2>1 DEF Call, Checked, Trap, Abort, Fetch
  <2>2. CASE Return
    BY <2>2 DEF Return, Checked, Trap, Abort, Exit
  <2>3. CASE ~Call /\ ~Return
    BY <1>1, <2>3
       DEF Execute, LoadConst, LoadLocal, StoreLocal, LoadGlobal, StoreGlobal, Binary,
           Unary, ArithmeticPanic, Jump, Branch, ArrayLoad, ArrayStore, LocalArrayLoad,
           LocalArrayStore, Alloc, PrintTop, Pop, Dup, Halt, Checked, Trap, Abort,
           StackOnly, Advance, GoTo, Exit
  <2> QED
    BY <2>1, <2>2, <2>3
<1>2. CASE ~Execute
  BY <1>2 DEF Next, RejectProgram, LoopTrap, Trap, Abort, Done, vars
<1> QED
  BY <1>1, <1>2

\* A handler's check of the operands of its instruction traps with the code of
\* that check, without moving.
LEMMA TrapKinds ==
  ASSUME IInv, status = "running", Next, status' = "trapped"
  PROVE  /\ prog' = prog /\ pc' = pc /\ UNCHANGED call_stack
         /\ trap_code' = "DivideByZero" => pc < Len(Code) /\ Instr.opcode = "Div"
         /\ trap_code' = "ArrayOutOfBounds" =>
              pc < Len(Code) /\ Instr.opcode \in {"ArrayLoad", "ArrayStore"} \cup LocalArrays
         /\ trap_code' = "UndefinedLocal" =>
              /\ pc < Len(Code) /\ Instr.opcode \in {"LoadLocal"} \cup LocalArrays
              /\ locals[Slot(arg1)] = I64Min
<1> DEFINE Kinds ==
      /\ prog' = prog /\ pc' = pc /\ UNCHANGED call_stack
      /\ trap_code' = "DivideByZero" => pc < Len(Code) /\ Instr.opcode = "Div"
      /\ trap_code' = "ArrayOutOfBounds" =>
           pc < Len(Code) /\ Instr.opcode \in {"ArrayLoad", "ArrayStore"} \cup LocalArrays
      /\ trap_code' = "UndefinedLocal" =>
           /\ pc < Len(Code) /\ Instr.opcode \in {"LoadLocal"} \cup LocalArrays
           /\ locals[Slot(arg1)] = I64Min
<1>1. CASE LoadConst \/ LoadGlobal \/ Unary \/ Pop \/ Dup \/ Branch \/ PrintTop
  BY <1>1 DEF LoadConst, LoadGlobal, Unary, Pop, Dup, Branch, PrintTop, Fetch, Checked,
     Trap, Abort, StackOnly, Advance, GoTo, result, PushFault, PopFault, GlobalFault,
     Fault, NoFault, ??
<1>2. CASE StoreLocal \/ StoreGlobal \/ Alloc
  BY <1>2 DEF StoreLocal, StoreGlobal, Alloc, Fetch, Checked,
     Trap, Abort, Advance, GoTo, result, PushFault, PopFault, GlobalFault, SlotFault,
     SizeFault, Fault, NoFault, ??
<1>3. CASE Call
  BY <1>3 DEF Call, Fetch, Checked, Trap, Abort, result, PopFault, CallFault, Fault,
     NoFault, ??
<1>4. CASE Return \/ Halt \/ ArithmeticPanic \/ Jump
  BY <1>4 DEF Return, Halt, ArithmeticPanic, Jump, Exit, Fetch, Checked, Trap, Abort,
     GoTo, result, PopFault, Fault, NoFault
<1>5. CASE LoadLocal
  BY <1>5 DEF LoadLocal, Fetch, Checked, Trap, Abort, StackOnly, Advance, GoTo, result,
     PushFault, SlotFault, Fault, NoFault, ??
<1>6. CASE Binary
  BY <1>6 DEF Binary, Fetch, Checked, Trap, Abort, StackOnly, Advance, GoTo, result,
     PopFault, Fault, NoFault, ??
<1>7. CASE ArrayLoad \/ ArrayStore
  BY <1>7 DEF ArrayLoad, ArrayStore, Fetch, Checked, Trap, Abort, StackOnly, Advance,
     GoTo, result, PopFault, GlobalRangeFault, GlobalFault, SizeFault, IndexFault, Fault,
     NoFault, ??
<1>8. CASE LocalArrayLoad \/ LocalArrayStore
  BY <1>8 DEF LocalArrayLoad, LocalArrayStore, LocalArrays, Fetch, Checked, Trap, Abort,
     StackOnly, Advance, GoTo, result, PopFault, SizeFault, IndexFault, SlotFault,
     ArrayBaseFault, Fault, NoFault, ??
<1>9. CASE LoopTrap
  BY <1>9 DEF LoopTrap, Trap, Abort
<1>10. ~RejectProgram /\ ~EnterMain /\ ~Done
  BY DEF RejectProgram, EnterMain, Done, Final
<1> QED
  BY <1>1, <1>2, <1>3, <1>4, <1>5, <1>6, <1>7, <1>8, <1>9, <1>10 DEF Next, Execute

(***************************************************************************)
(* The undefined marker.  It sits in the slots of frames that nobody has   *)
(* written, and stays there as long as LocalArrayLoad goes through what    *)
(* AllocArray returned: local_array_base takes any integer for a base, and *)
(* through one below MAX_LOCAL_SLOTS the marker can be read like a number  *)
(* (see NeverPanics).                                                      *)
(***************************************************************************)
Definite == Int \ {I64Min}

\* The operand of a LocalArrayLoad is undefined or the base of an array.
ArraysBased ==
  status = "running" /\ pc < Len(Code) /\ Instr.opcode = "LocalArrayLoad" =>
    locals[Slot(arg1)] = I64Min \/ locals[Slot(arg1)] >= MAX_LOCAL_SLOTS

\* The marker is on no stack, in no global and in no array.
MarkerConfined ==
  /\ stack \in Seq(Definite)
  /\ globals \in [1 .. MAX_GLOBAL_SLOTS -> Definite]
  /\ \A i \in 1 .. Len(locals) : i > MAX_LOCAL_SLOTS => locals[i] \in Definite

\* 32-bit integers and lengths are not the marker.
LEMMA DefiniteValues == I32 \subseteq Definite /\ Nat \subseteq Definite
<1>1. PICK h \in Nat : h = Half /\ h > 1
  BY LimitsAssumption
<1>2. h * h \in Nat /\ h * h > 0
  BY <1>1
<1>3. 2 * h * h \in Nat /\ 2 * h * h = h * h + h * h
  BY <1>1
<1>4. h * h >= h
  BY <1>1
<1>5. 2 * h * h > h
  BY <1>1, <1>2, <1>3, <1>4
<1>6. I64Min = -(2 * h * h) /\ I32 = (-h) .. (h - 1)
  BY <1>1 DEF I64Min, I32
<1> HIDE DEF I64Min, I32
<1>7. \A x \in I32 : x \in Int /\ x # I64Min
  BY <1>1, <1>3, <1>5, <1>6
<1>8. \A x \in Nat : x \in Int /\ x # I64Min
  BY <1>3, <1>5, <1>6, <1>1
<1> QED
  BY <1>7, <1>8 DEF Definite

\* Operands that are popped, and stacks that are left, are definite.
LEMMA DefiniteOperands ==
  ASSUME IInv, MarkerConfined
  PROVE  /\ Len(stack) \in Nat
         /\ 1 <= Len(stack) => Top(0) \in Definite
         /\ 2 <= Len(stack) => Top(1) \in Definite /\ Top(0) \in Definite
         /\ \A n \in Nat : n <= Len(stack) => Drop(n) \in Seq(Definite)
<1>1. stack \in Seq(Definite) /\ Len(stack) \in Nat
  BY DEF MarkerConfined
<1>2. \A n \in Nat : n <= Len(stack) => Drop(n) \in Seq(Definite)
  BY <1>1, SubSeqProperties DEF Drop
<1>3. 1 <= Len(stack) => Top(0) \in Definite
  BY <1>1 DEF Top
<1>4. 2 <= Len(stack) => Top(1) \in Definite /\ Top(0) \in Definite
  BY <1>1 DEF Top
<1> QED
  BY <1>1, <1>2, <1>3, <1>4

\* Pushing a definite value onto what n pops left.
LEMMA DefinitePush ==
  ASSUME IInv, MarkerConfined, NEW n \in Nat, n <= Len(stack), NEW v \in Definite,
         stack' = Append(Drop(n), v) \/ stack' = Append(stack, v),
         UNCHANGED <<locals, globals>>
  PROVE  MarkerConfined'
<1>1. Drop(n) \in Seq(Definite) /\ stack \in Seq(Definite)
  BY DefiniteOperands DEF MarkerConfined
<1>2. \A s \in Seq(Definite) : Append(s, v) \in Seq(Definite)
  BY AppendProperties
<1>3. stack' \in Seq(Definite)
  BY <1>1, <1>2
<1>4. locals' = locals /\ globals' = globals
  OBVIOUS
<1> QED
  BY <1>3, <1>4 DEF MarkerConfined

\* A chain of checks passes when each of them does.
LEMMA FaultFree == \A f, g : (f ?? g).code = "None" => f.code = "None" /\ g.code = "None"
BY DEF ??

LEMMA Unfaulted ==
  ASSUME NEW f, NEW stk, Checked(f, StackOnly(stk)), status' = "running"
  PROVE  f.code = "None" /\ stack' = stk /\ locals' = locals /\ globals' = globals
BY DEF Checked, Trap, Abort, StackOnly

\* What the instructions that only rewrite the stack push is definite.
LEMMA LoadsDefinite ==
  ASSUME IInv, MarkerConfined, status' = "running",
         LoadConst \/ LoadLocal \/ LoadGlobal \/ Dup
  PROVE  MarkerConfined' /\ locals' = locals
<1>1. CASE LoadConst
  <2>1. Fetch({"LoadConst"}) /\ Checked(PushFault(stack), StackOnly(Append(stack, arg1)))
    BY <1>1 DEF LoadConst
  <2>2. arg1 \in Definite
    BY <2>1, FetchFacts, DefiniteValues
  <2>3. stack' = Append(stack, arg1) /\ locals' = locals /\ globals' = globals
    BY <2>1, Unfaulted
  <2>4. 0 \in Nat /\ 0 <= Len(stack)
    BY DefiniteOperands
  <2> QED
    BY <2>2, <2>3, <2>4, DefinitePush
<1>2. CASE LoadLocal
  <2> DEFINE v == locals[Slot(arg1)]
  <2> DEFINE undef == Fault(v = I64Min, "UndefinedLocal", stack)
  <2> DEFINE f == SlotFault(arg1, stack) ?? undef ?? PushFault(stack)
  <2>1. Fetch({"LoadLocal"}) /\ Checked(f, StackOnly(Append(stack, v)))
    BY <1>2 DEF LoadLocal
  <2>2. f.code = "None" /\ stack' = Append(stack, v) /\ locals' = locals /\ globals' = globals
    BY <2>1, Unfaulted
  <2>3. SlotFault(arg1, stack).code = "None" /\ undef.code = "None"
    BY <2>2, FaultFree
  <2>4. v # I64Min
    BY <2>3 DEF Fault
  <2>5. v \in Int
    BY <2>1, <2>3, FetchFacts, SlotCheck, StackChecks, ValuesAreInt
  <2>6. v \in Definite /\ 0 \in Nat /\ 0 <= Len(stack)
    BY <2>4, <2>5, DefiniteOperands DEF Definite
  <2> HIDE DEF v
  <2> QED
    BY <2>2, <2>6, DefinitePush
<1>3. CASE LoadGlobal
  <2> DEFINE v == globals[arg1 + 1]
  <2> DEFINE f == GlobalFault(arg1, stack) ?? PushFault(stack)
  <2>1. Fetch({"LoadGlobal"}) /\ Checked(f, StackOnly(Append(stack, v)))
    BY <1>3 DEF LoadGlobal
  <2>2. f.code = "None" /\ stack' = Append(stack, v) /\ locals' = locals /\ globals' = globals
    BY <2>1, Unfaulted
  <2>3. GlobalFault(arg1, stack).code = "None"
    BY <2>2, FaultFree
  <2>4. arg1 + 1 \in 1 .. MAX_GLOBAL_SLOTS
    BY <2>1, <2>3, FetchFacts, GlobalCheck, StackChecks
  <2>5. v \in Definite /\ 0 \in Nat /\ 0 <= Len(stack)
    BY <2>4, DefiniteOperands DEF MarkerConfined
  <2> HIDE DEF v
  <2> QED
    BY <2>2, <2>5, DefinitePush
<1>4. CASE Dup
  <2> DEFINE f == PopFault(stack, 1) ?? PushFault(stack)
  <2>1. Fetch({"Dup"}) /\ Checked(f, StackOnly(Append(stack, Top(0))))
    BY <1>4 DEF Dup
  <2>2. f.code = "None" /\ stack' = Append(stack, Top(0)) /\ locals' = locals
        /\ globals' = globals
    BY <2>1, Unfaulted
  <2>3. 1 <= Len(stack)
    BY <2>2, FaultFree, StackChecks
  <2>4. Top(0) \in Definite /\ 0 \in Nat /\ 0 <= Len(stack)
    BY <2>3, DefiniteOperands
  <2> QED
    BY <2>2, <2>4, DefinitePush
<1> QED
  BY <1>1, <1>2, <1>3, <1>4

LEMMA ResultsDefinite ==
  ASSUME IInv, MarkerConfined, ArraysBased, status' = "running",
         Binary \/ Unary \/ ArrayLoad \/ LocalArrayLoad \/ Pop
  PROVE  MarkerConfined' /\ locals' = locals
<1>1. CASE Binary
  <2> DEFINE v == BinaryResult(Instr.opcode, Top(1), Top(0))
  <2> DEFINE zero == Fault(Instr.opcode = "Div" /\ Top(0) = 0, "DivideByZero", Drop(2))
  <2> DEFINE f == PopFault(stack, 2) ?? zero
  <2>1. Fetch(BinaryOps) /\ Checked(f, StackOnly(Append(Drop(2), v)))
    BY <1>1 DEF Binary
  <2>2. f.code = "None" /\ stack' = Append(Drop(2), v) /\ locals' = locals
        /\ globals' = globals
    BY <2>1, Unfaulted
  <2>3. PopFault(stack, 2).code = "None" /\ zero.code = "None"
    BY <2>2, FaultFree
  <2>4. 2 <= Len(stack) /\ (Instr.opcode = "Div" => Top(0) # 0)
    BY <2>3, StackChecks DEF Fault
  <2>5. v \in Definite
    BY <2>1, <2>4, Operands, FetchFacts, BinaryResultRange, DefiniteValues
  <2> HIDE DEF v
  <2> QED
    BY <2>2, <2>4, <2>5, DefinitePush
<1>2. CASE Unary
  <2> DEFINE v == UnaryResult(Instr.opcode, Top(0))
  <2>1. Fetch(UnaryOps) /\ Checked(PopFault(stack, 1), StackOnly(Append(Drop(1), v)))
    BY <1>2 DEF Unary
  <2>2. PopFault(stack, 1).code = "None" /\ stack' = Append(Drop(1), v) /\ locals' = locals
        /\ globals' = globals
    BY <2>1, Unfaulted
  <2>3. 1 <= Len(stack)
    BY <2>2, StackChecks
  <2>4. v \in Definite
    BY <2>1, <2>3, Operands, FetchFacts, UnaryResultRange, DefiniteValues
  <2> HIDE DEF v
  <2> QED
    BY <2>2, <2>3, <2>4, DefinitePush
<1>3. CASE ArrayLoad
  <2> DEFINE v == globals[arg1 + Top(0) + 1]
  <2> DEFINE f == GlobalRangeFault(arg1, arg2, stack) ?? PopFault(stack, 1)
                    ?? IndexFault(Top(0), arg2, Drop(1))
  <2>1. Fetch({"ArrayLoad"}) /\ Checked(f, StackOnly(Append(Drop(1), v)))
    BY <1>3 DEF ArrayLoad
  <2>2. f.code = "None" /\ stack' = Append(Drop(1), v) /\ locals' = locals
        /\ globals' = globals
    BY <2>1, Unfaulted
  <2>3. /\ GlobalRangeFault(arg1, arg2, stack).code = "None" /\ PopFault(stack, 1).code = "None"
        /\ IndexFault(Top(0), arg2, Drop(1)).code = "None"
    BY <2>2, FaultFree
  <2>4. 1 <= Len(stack)
    BY <2>3, StackChecks
  <2>5. arg1 \in Nat /\ arg2 \in Nat /\ arg1 + arg2 <= MAX_GLOBAL_SLOTS
    BY <2>1, <2>3, FetchFacts, RangeCheck, StackChecks
  <2>6. Top(0) \in 0 .. (arg2 - 1)
    BY <2>3, <2>4, <2>5, Operands, IndexCheck, StackChecks
  <2>7. arg1 + Top(0) + 1 \in 1 .. MAX_GLOBAL_SLOTS
    BY <2>5, <2>6, LimitsAssumption
  <2>8. v \in Definite
    BY <2>7 DEF MarkerConfined
  <2> HIDE DEF v
  <2> QED
    BY <2>2, <2>4, <2>8, DefinitePush
<1>4. CASE LocalArrayLoad
  <2> DEFINE base == locals[Slot(arg1)]
  <2> DEFINE v == locals[base + Top(0) + 1]
  <2> DEFINE f == SizeFault(arg2, stack) ?? PopFault(stack, 1)
                    ?? IndexFault(Top(0), arg2, Drop(1)) ?? SlotFault(arg1, Drop(1))
                    ?? ArrayBaseFault(base, arg2, Drop(1))
  <2>1. Fetch({"LocalArrayLoad"}) /\ Checked(f, StackOnly(Append(Drop(1), v)))
    BY <1>4 DEF LocalArrayLoad
  <2>2. f.code = "None" /\ stack' = Append(Drop(1), v) /\ locals' = locals
        /\ globals' = globals
    BY <2>1, Unfaulted
  <2>3. /\ SizeFault(arg2, stack).code = "None" /\ PopFault(stack, 1).code = "None"
        /\ IndexFault(Top(0), arg2, Drop(1)).code = "None"
        /\ SlotFault(arg1, Drop(1)).code = "None"
        /\ ArrayBaseFault(base, arg2, Drop(1)).code = "None"
    BY <2>2, FaultFree
  <2>4. 1 <= Len(stack) /\ arg1 \in I32 /\ arg2 \in Nat
    BY <2>1, <2>3, FetchFacts, SizeCheck, StackChecks
  <2>5. GoodStack(Drop(1)) /\ Top(0) \in 0 .. (arg2 - 1)
    BY <2>3, <2>4, Operands, IndexCheck, StackChecks
  <2>6. base \in Values
    BY <2>1, <2>3, <2>4, <2>5, FetchFacts, SlotCheck
  <2>7. base \in Nat /\ base + arg2 <= Len(locals) /\ base # I64Min
    BY <2>3, <2>4, <2>5, <2>6, BaseCheck, DefiniteValues DEF Definite
  <2>8. base >= MAX_LOCAL_SLOTS
    BY <2>1, <2>7 DEF ArraysBased, Fetch
  <2>9. locals \in Seq(Values) /\ Len(locals) \in Nat
    BY DEF IInv, DataOK
  <2> HIDE DEF base
  <2>10. base + Top(0) + 1 \in 1 .. Len(locals) /\ base + Top(0) + 1 > MAX_LOCAL_SLOTS
    BY <2>4, <2>5, <2>7, <2>8, <2>9, LimitsAssumption
  <2>11. v \in Definite
    BY <2>10 DEF MarkerConfined
  <2> HIDE DEF v
  <2> QED
    BY <2>2, <2>4, <2>11, DefinitePush
<1>5. CASE Pop
  <2>1. Checked(PopFault(stack, 1), StackOnly(Drop(1)))
    BY <1>5 DEF Pop
  <2>2. PopFault(stack, 1).code = "None" /\ stack' = Drop(1) /\ locals' = locals
        /\ globals' = globals
    BY <2>1, Unfaulted
  <2>3. Drop(1) \in Seq(Definite)
    BY <2>2, StackChecks, DefiniteOperands
  <2> QED
    BY <2>2, <2>3 DEF MarkerConfined
<1> QED
  BY <1>1, <1>2, <1>3, <1>4, <1>5

\* The slots of the running frame and of those below it that hold a value still
\* hold one.
DefinedKept ==
  \A i \in 1 .. Len(locals) : i <= NewBase /\ locals[i] # I64Min => locals'[i] # I64Min

LEMMA WriteDefinite ==
  ASSUME IInv, MarkerConfined, NEW i \in 1 .. Len(locals), NEW v \in Definite,
         locals' = [locals EXCEPT ![i] = v]
  PROVE  /\ \A j \in 1 .. Len(locals') : j > MAX_LOCAL_SLOTS => locals'[j] \in Definite
         /\ DefinedKept
         /\ locals'[i] # I64Min
<1>1. locals \in Seq(Values) /\ Len(locals) \in Nat /\ locals \in [1 .. Len(locals) -> Values]
  BY DEF IInv, DataOK
<1>2. locals' \in [1 .. Len(locals) -> Values \cup Definite]
  BY <1>1
<1>3. Len(locals') = Len(locals)
  BY <1>1, <1>2
<1>4. \A j \in 1 .. Len(locals) : locals'[j] = IF j = i THEN v ELSE locals[j]
  BY <1>1
<1>5. v # I64Min
  BY DEF Definite
<1>6. \A j \in 1 .. Len(locals') : j > MAX_LOCAL_SLOTS => locals'[j] \in Definite
  BY <1>3, <1>4 DEF MarkerConfined
<1>7. DefinedKept
  BY <1>4, <1>5 DEF DefinedKept
<1> QED
  BY <1>4, <1>5, <1>6, <1>7

\* What the stores write is definite.
LEMMA LocalStoresDefinite ==
  ASSUME IInv, MarkerConfined, status' = "running", StoreLocal \/ LocalArrayStore
  PROVE  /\ MarkerConfined' /\ DefinedKept
         /\ StoreLocal => locals'[Slot(arg1)] # I64Min
<1>1. ASSUME StoreLocal
      PROVE  MarkerConfined' /\ DefinedKept /\ locals'[Slot(arg1)] # I64Min
  <2> DEFINE f == PopFault(stack, 1) ?? SlotFault(arg1, Drop(1))
  <2>1. Fetch({"StoreLocal"})
    BY <1>1 DEF StoreLocal
  <2>2. /\ f.code = "None" /\ stack' = Drop(1) /\ globals' = globals
        /\ locals' = [locals EXCEPT ![Slot(arg1)] = Top(0)]
    BY <1>1 DEF StoreLocal, Checked, Trap, Abort
  <2>3. PopFault(stack, 1).code = "None" /\ SlotFault(arg1, Drop(1)).code = "None"
    BY <2>2, FaultFree
  <2>4. 1 <= Len(stack) /\ GoodStack(Drop(1))
    BY <2>3, StackChecks
  <2>5. Slot(arg1) \in 1 .. Len(locals)
    BY <2>1, <2>3, <2>4, FetchFacts, SlotCheck
  <2>6. Top(0) \in Definite /\ Drop(1) \in Seq(Definite)
    BY <2>4, DefiniteOperands
  <2>7. PICK i, v : i = Slot(arg1) /\ v = Top(0)
    OBVIOUS
  <2>8. /\ \A j \in 1 .. Len(locals') : j > MAX_LOCAL_SLOTS => locals'[j] \in Definite
        /\ DefinedKept /\ locals'[i] # I64Min
    BY <2>2, <2>5, <2>6, <2>7, WriteDefinite
  <2> QED
    BY <2>2, <2>6, <2>7, <2>8 DEF MarkerConfined
<1>2. ASSUME LocalArrayStore
      PROVE  MarkerConfined' /\ DefinedKept /\ ~StoreLocal
  <2> DEFINE base == locals[Slot(arg1)]
  <2> DEFINE f == SizeFault(arg2, stack) ?? PopFault(stack, 2)
                    ?? IndexFault(Top(1), arg2, Drop(2)) ?? SlotFault(arg1, Drop(2))
                    ?? ArrayBaseFault(base, arg2, Drop(2))
  <2>1. Fetch({"LocalArrayStore"})
    BY <1>2 DEF LocalArrayStore
  <2>2. /\ f.code = "None" /\ stack' = Drop(2) /\ globals' = globals
        /\ locals' = [locals EXCEPT ![base + Top(1) + 1] = Top(0)]
    BY <1>2 DEF LocalArrayStore, Checked, Trap, Abort
  <2>3. /\ SizeFault(arg2, stack).code = "None" /\ PopFault(stack, 2).code = "None"
        /\ IndexFault(Top(1), arg2, Drop(2)).code = "None"
        /\ SlotFault(arg1, Drop(2)).code = "None"
        /\ ArrayBaseFault(base, arg2, Drop(2)).code = "None"
    BY <2>2, FaultFree
  <2>4. 2 <= Len(stack) /\ arg1 \in I32 /\ arg2 \in Nat
    BY <2>1, <2>3, FetchFacts, SizeCheck, StackChecks
  <2>5. GoodStack(Drop(2)) /\ Top(1) \in 0 .. (arg2 - 1)
    BY <2>3, <2>4, Operands, IndexCheck, StackChecks
  <2>6. base \in Values
    BY <2>1, <2>3, <2>4, <2>5, FetchFacts, SlotCheck
  <2>7. base \in Nat /\ base + arg2 <= Len(locals)
    BY <2>3, <2>4, <2>5, <2>6, BaseCheck
  <2>8. Len(locals) \in Nat
    BY DEF IInv, DataOK
  <2> HIDE DEF base, f
  <2>9. base + Top(1) + 1 \in 1 .. Len(locals)
    BY <2>4, <2>5, <2>7, <2>8
  <2>10. Top(0) \in Definite /\ Drop(2) \in Seq(Definite)
    BY <2>4, DefiniteOperands
  <2>11. PICK i, v : i = base + Top(1) + 1 /\ v = Top(0)
    OBVIOUS
  <2>12. /\ \A j \in 1 .. Len(locals') : j > MAX_LOCAL_SLOTS => locals'[j] \in Definite
         /\ DefinedKept
    BY <2>2, <2>9, <2>10, <2>11, WriteDefinite
  <2>13. ~StoreLocal
    BY <2>1 DEF StoreLocal, Fetch
  <2> QED
    BY <2>2, <2>10, <2>12, <2>13 DEF MarkerConfined
<1> QED
  BY <1>1, <1>2

LEMMA GlobalStoresDefinite ==
  ASSUME IInv, MarkerConfined, status' = "running", StoreGlobal \/ ArrayStore
  PROVE  MarkerConfined' /\ locals' = locals
<1>0. \A i \in 1 .. MAX_GLOBAL_SLOTS, v \in Definite :
        [globals EXCEPT ![i] = v] \in [1 .. MAX_GLOBAL_SLOTS -> Definite]
  BY DEF MarkerConfined
<1>1. CASE StoreGlobal
  <2> DEFINE f == GlobalFault(arg1, stack) ?? PopFault(stack, 1)
  <2>1. Fetch({"StoreGlobal"})
    BY <1>1 DEF StoreGlobal
  <2>2. /\ f.code = "None" /\ stack' = Drop(1) /\ locals' = locals
        /\ globals' = [globals EXCEPT ![arg1 + 1] = Top(0)]
    BY <1>1 DEF StoreGlobal, Checked, Trap, Abort
  <2>3. PopFault(stack, 1).code = "None" /\ GlobalFault(arg1, stack).code = "None"
    BY <2>2, FaultFree
  <2>4. 1 <= Len(stack) /\ arg1 + 1 \in 1 .. MAX_GLOBAL_SLOTS
    BY <2>1, <2>3, FetchFacts, GlobalCheck, StackChecks
  <2>5. Top(0) \in Definite /\ Drop(1) \in Seq(Definite)
    BY <2>4, DefiniteOperands
  <2>6. globals' \in [1 .. MAX_GLOBAL_SLOTS -> Definite]
    BY <1>0, <2>2, <2>4, <2>5
  <2> QED
    BY <2>2, <2>5, <2>6 DEF MarkerConfined
<1>2. CASE ArrayStore
  <2> DEFINE f == GlobalRangeFault(arg1, arg2, stack) ?? PopFault(stack, 2)
                    ?? IndexFault(Top(1), arg2, Drop(2))
  <2>1. Fetch({"ArrayStore"})
    BY <1>2 DEF ArrayStore
  <2>2. /\ f.code = "None" /\ stack' = Drop(2) /\ locals' = locals
        /\ globals' = [globals EXCEPT ![arg1 + Top(1) + 1] = Top(0)]
    BY <1>2 DEF ArrayStore, Checked, Trap, Abort
  <2>3. /\ GlobalRangeFault(arg1, arg2, stack).code = "None" /\ PopFault(stack, 2).code = "None"
        /\ IndexFault(Top(1), arg2, Drop(2)).code = "None"
    BY <2>2, FaultFree
  <2>4. 2 <= Len(stack)
    BY <2>3, StackChecks
  <2>5. arg1 \in Nat /\ arg2 \in Nat /\ arg1 + arg2 <= MAX_GLOBAL_SLOTS
    BY <2>1, <2>3, FetchFacts, RangeCheck, StackChecks
  <2>6. Top(1) \in 0 .. (arg2 - 1)
    BY <2>3, <2>4, <2>5, Operands, IndexCheck, StackChecks
  <2>7. arg1 + Top(1) + 1 \in 1 .. MAX_GLOBAL_SLOTS
    BY <2>5, <2>6, LimitsAssumption
  <2>8. Top(0) \in Definite /\ Drop(2) \in Seq(Definite)
    BY <2>4, DefiniteOperands
  <2>9. globals' \in [1 .. MAX_GLOBAL_SLOTS -> Definite]
    BY <1>0, <2>2, <2>7, <2>8
  <2> QED
    BY <2>2, <2>8, <2>9 DEF MarkerConfined
<1> QED
  BY <1>1, <1>2

\* Jumps, branches, Print and Return move no marker.
LEMMA OthersDefinite ==
  ASSUME IInv, MarkerConfined, status' = "running", Jump \/ Branch \/ PrintTop \/ Return
  PROVE  MarkerConfined' /\ locals' = locals
<1>0. ASSUME Jump \/ Branch \/ PrintTop \/ Return
      PROVE  /\ globals' = globals /\ locals' = locals
             /\ stack' = stack \/ (stack' = Drop(1) /\ PopFault(stack, 1).code = "None")
  <2>1. CASE Jump
    BY <2>1 DEF Jump
  <2>2. CASE Branch
    BY <2>2 DEF Branch, Checked, Trap, Abort
  <2>3. CASE PrintTop
    BY <2>3 DEF PrintTop, Checked, Trap, Abort
  <2>4. CASE Return
    BY <2>4 DEF Return, Exit, Checked, Trap, Abort
  <2> QED
    BY <1>0, <2>1, <2>2, <2>3, <2>4
<1>1. globals' = globals /\ locals' = locals /\ stack' \in {stack, Drop(1)}
  BY <1>0
<1>2. stack' = stack \/ 1 <= Len(stack)
  BY <1>0, StackChecks
<1>3. stack' \in Seq(Definite)
  BY <1>1, <1>2, DefiniteOperands DEF MarkerConfined
<1> QED
  BY <1>1, <1>3 DEF MarkerConfined

\* An array is born with zeros, and its base is a length.
LEMMA AllocDefinite ==
  ASSUME IInv, MarkerConfined, status = "running", status' = "running", Alloc
  PROVE  MarkerConfined' /\ DefinedKept
<1>1. /\ Fetch(Allocations) /\ SizeFault(arg1, stack).code = "None"
      /\ locals' = locals \o [i \in 1 .. arg1 |-> 0]
      /\ stack' = Append(stack, Len(locals)) /\ globals' = globals
  BY DEF Alloc, Checked, Trap, Abort
<1>2. arg1 \in Nat
  BY <1>1, FetchFacts, StackChecks, SizeCheck
<1>3. locals \in Seq(Values) /\ Len(locals) \in Nat
  BY DEF IInv, DataOK
<1>4. [i \in 1 .. arg1 |-> 0] \in Seq(Values) /\ Len([i \in 1 .. arg1 |-> 0]) = arg1
  BY <1>2, ValuesAreInt
<1>5. PICK zeros : zeros = [i \in 1 .. arg1 |-> 0]
  OBVIOUS
<1>6. /\ Len(locals') = Len(locals) + arg1
      /\ \A i \in 1 .. Len(locals) : locals'[i] = locals[i]
      /\ \A i \in 1 .. Len(locals') : i > Len(locals) => locals'[i] = zeros[i - Len(locals)]
  BY <1>1, <1>2, <1>3, <1>4, <1>5, ConcatProperties
<1>7. \A i \in 1 .. Len(locals') : i > Len(locals) => locals'[i] = 0
  BY <1>2, <1>3, <1>5, <1>6
<1>8. 0 \in Definite /\ Len(locals) \in Definite
  BY <1>3, DefiniteValues
<1>9. \A i \in 1 .. Len(locals') : i > MAX_LOCAL_SLOTS => locals'[i] \in Definite
  <2>1. SUFFICES ASSUME NEW i \in 1 .. Len(locals'), i > MAX_LOCAL_SLOTS
                 PROVE  locals'[i] \in Definite
    OBVIOUS
  <2>2. CASE i > Len(locals)
    BY <1>7, <1>8, <2>1, <2>2
  <2>3. CASE ~(i > Len(locals))
    <3>1. i \in 1 .. Len(locals)
      BY <1>2, <1>3, <1>6, <2>1, <2>3
    <3> QED
      BY <1>6, <2>1, <3>1 DEF MarkerConfined
  <2> QED
    BY <2>2, <2>3
<1>10. stack' \in Seq(Definite)
  BY <1>1, <1>8, AppendProperties DEF MarkerConfined
<1>11. DefinedKept
  BY <1>6 DEF DefinedKept
<1> QED
  BY <1>1, <1>9, <1>10, <1>11 DEF MarkerConfined

\* A call hands its arguments over as they are, and marks the rest of the new
\* frame, which lies in the first MAX_LOCAL_SLOTS slots.
LEMMA CallDefinite ==
  ASSUME IInv, MarkerConfined, status = "running", status' = "running", Call
  PROVE  /\ MarkerConfined' /\ DefinedKept
         /\ \A i \in 1 .. arg2 : locals'[NewBase + i] # I64Min
<1>1. /\ Fetch({"Call"}) /\ CallFault.code = "None" /\ Len(stack) >= arg2
      /\ locals' = CalleeLocals /\ stack' = Drop(arg2) /\ globals' = globals
  BY DEF Call, Checked, Trap, Abort
<1>2. /\ arg1 \in DOMAIN prog.functions /\ arg2 \in Nat
      /\ Callee \in FunctionInfo /\ arg2 = Callee.param_count
      /\ NewBase \in Nat /\ Frame.base_ptr <= NewBase
      /\ NewBase + Callee.local_count <= MAX_LOCAL_SLOTS
  BY <1>1, CallChecks
<1>3. arg2 <= Callee.local_count /\ Callee.local_count \in Nat
  <2>1. FunctionTrap(Callee) = "None"
    BY <1>2 DEF PreflightTraps, Callee, IInv, Loaded
  <2> QED
    BY <1>2, <2>1 DEF FunctionTrap, FunctionInfo
<1>4. OthersUntouched
  BY <1>1, OthersUntouchedStep DEF Next, Execute, Fetch
<1>5. Len(locals') = Len(locals) /\ Len(locals) \in Nat /\ Len(locals) >= MAX_LOCAL_SLOTS
  BY <1>1, <1>2, ArgumentsPassed DEF IInv, DataOK
<1>6. Instr.opcode = "Call"
  BY <1>1 DEF Fetch
<1>7. \A i \in 1 .. Len(locals) : i <= NewBase \/ i > MAX_LOCAL_SLOTS => locals'[i] = locals[i]
  BY <1>4, <1>6 DEF OthersUntouched, OutOfReach, NewBase
<1>8. ASSUME NEW i \in 1 .. arg2
      PROVE  locals'[NewBase + i] # I64Min
  <2>1. stack \in Seq(Definite) /\ Len(stack) \in Nat
    BY DEF MarkerConfined
  <2>2. PICK j \in Nat : j = NewBase + i
    BY <1>2
  <2>3. j \in 1 .. Len(locals) /\ j - NewBase = i
    BY <1>2, <1>3, <1>5, <2>2, LimitsAssumption
  <2>4. i \notin (arg2 + 1) .. Callee.local_count
    BY <1>2, <1>3
  <2>5. Len(stack) - arg2 + i \in 1 .. Len(stack)
    BY <1>1, <1>2, <2>1
  <2>6. CalleeLocals[j] = PassArguments[j]
    BY <2>3, <2>4 DEF CalleeLocals
  <2>7. PassArguments[j] = stack[Len(stack) - arg2 + i]
    BY <2>3, <2>5 DEF PassArguments
  <2>8. stack[Len(stack) - arg2 + i] # I64Min
    BY <2>1, <2>5 DEF Definite
  <2> QED
    BY <1>1, <2>2, <2>6, <2>7, <2>8
<1>9. stack' \in Seq(Definite)
  BY <1>1, <1>2, DefiniteOperands
<1>10. \A i \in 1 .. Len(locals') : i > MAX_LOCAL_SLOTS => locals'[i] \in Definite
  BY <1>5, <1>7 DEF MarkerConfined
<1>11. DefinedKept
  BY <1>7 DEF DefinedKept
<1> QED
  BY <1>1, <1>8, <1>9, <1>10, <1>11 DEF MarkerConfined

\* The marker stays in the slots of frames nobody has written, what is defined
\* stays so, and StoreLocal and Call define what they are said to.
LEMMA MarkerStays ==
  ASSUME IInv, MarkerConfined, ArraysBased, status = "running", Next, status' = "running"
  PROVE  /\ MarkerConfined' /\ DefinedKept
         /\ pc < Len(Code)
         /\ Instr.opcode = "StoreLocal" => locals'[Slot(arg1)] # I64Min
         /\ Instr.opcode = "Call" => \A i \in 1 .. arg2 : locals'[NewBase + i] # I64Min
<1>0. ASSUME locals' = locals PROVE DefinedKept
  BY <1>0 DEF DefinedKept
<1>1. ASSUME NEW ops, Fetch(ops), "StoreLocal" \notin ops, "Call" \notin ops,
             MarkerConfined', DefinedKept
      PROVE  /\ MarkerConfined' /\ DefinedKept /\ pc < Len(Code)
             /\ Instr.opcode # "StoreLocal" /\ Instr.opcode # "Call"
  BY <1>1 DEF Fetch
<1>2. CASE LoadConst \/ LoadLocal \/ LoadGlobal \/ Dup
  <2>1. \E ops : Fetch(ops) /\ "StoreLocal" \notin ops /\ "Call" \notin ops
    BY <1>2 DEF LoadConst, LoadLocal, LoadGlobal, Dup
  <2> QED
    BY <1>0, <1>1, <1>2, <2>1, LoadsDefinite
<1>3. CASE Binary \/ Unary \/ ArrayLoad \/ LocalArrayLoad \/ Pop
  <2>1. \E ops : Fetch(ops) /\ "StoreLocal" \notin ops /\ "Call" \notin ops
    BY <1>3 DEF Binary, Unary, ArrayLoad, LocalArrayLoad, Pop, BinaryOps, UnaryOps,
       Arithmetic, Comparisons
  <2> QED
    BY <1>0, <1>1, <1>3, <2>1, ResultsDefinite
<1>4. CASE StoreGlobal \/ ArrayStore
  <2>1. \E ops : Fetch(ops) /\ "StoreLocal" \notin ops /\ "Call" \notin ops
    BY <1>4 DEF StoreGlobal, ArrayStore
  <2> QED
    BY <1>0, <1>1, <1>4, <2>1, GlobalStoresDefinite
<1>5. CASE Jump \/ Branch \/ PrintTop \/ Return
  <2>1. \E ops : Fetch(ops) /\ "StoreLocal" \notin ops /\ "Call" \notin ops
    BY <1>5 DEF Jump, Branch, PrintTop, Return
  <2> QED
    BY <1>0, <1>1, <1>5, <2>1, OthersDefinite
<1>6. CASE StoreLocal
  BY <1>6, LocalStoresDefinite DEF StoreLocal, Fetch
<1>7. CASE LocalArrayStore
  BY <1>7, LocalStoresDefinite DEF LocalArrayStore, Fetch
<1>8. CASE Alloc
  BY <1>8, AllocDefinite DEF Alloc, Fetch, Allocations
<1>9. CASE Call
  BY <1>9, CallDefinite DEF Call, Fetch
<1>10. ~(RejectProgram \/ EnterMain \/ LoopTrap \/ Done \/ Halt \/ ArithmeticPanic)
  BY DEF RejectProgram, EnterMain, LoopTrap, Done, Final, Halt, ArithmeticPanic, Exit,
     Trap, Abort
<1> QED
  BY <1>2, <1>3, <1>4, <1>5, <1>6, <1>7, <1>8, <1>9, <1>10 DEF Next, Execute

\* A new machine starts or refuses, and one that has ended does nothing.
LEMMA NewStarts == ASSUME Next, status = "new" PROVE RejectProgram \/ EnterMain
<1>1. ~Execute
  BY DEF Execute, LoadConst, LoadLocal, StoreLocal, LoadGlobal, StoreGlobal, Binary, Unary,
     ArithmeticPanic, Jump, Branch, Call, Return, ArrayLoad, ArrayStore, LocalArrayLoad,
     LocalArrayStore, Alloc, PrintTop, Pop, Dup, Halt, Fetch
<1> QED
  BY <1>1 DEF Next, LoopTrap, Done, Final

\* The only panic of a running machine is that of an arithmetic instruction.
LEMMA GoesOn ==
  ASSUME Next, status = "running", ~ArithmeticPanic
  PROVE  status' \notin {"new", "panicked"}
<1>1. CASE Execute
  BY <1>1 DEF Execute, LoadConst, LoadLocal, StoreLocal, LoadGlobal, StoreGlobal, Binary,
     Unary, Jump, Branch, Call, Return, ArrayLoad, ArrayStore, LocalArrayLoad,
     LocalArrayStore, Alloc, PrintTop, Pop, Dup, Halt, Checked, Trap, Abort, StackOnly,
     Advance, GoTo, Exit, result
<1> QED
  BY <1>1 DEF Next, RejectProgram, EnterMain, LoopTrap, Trap, Abort, Done, Final

LEMMA FinalStays == ASSUME Next, status \in Final PROVE Done
<1>1. ~Execute
  BY DEF Execute, LoadConst, LoadLocal, StoreLocal, LoadGlobal, StoreGlobal, Binary, Unary,
     ArithmeticPanic, Jump, Branch, Call, Return, ArrayLoad, ArrayStore, LocalArrayLoad,
     LocalArrayStore, Alloc, PrintTop, Pop, Dup, Halt, Fetch, Final
<1> QED
  BY <1>1 DEF Next, RejectProgram, EnterMain, LoopTrap, Final

LEMMA MarkerFresh == New => MarkerConfined
<1> SUFFICES ASSUME New PROVE MarkerConfined
  OBVIOUS
<1>1. 0 \in Definite
  BY DefiniteValues
<1>2. globals \in [1 .. MAX_GLOBAL_SLOTS -> Definite] /\ stack \in Seq(Definite)
  BY <1>1 DEF New
<1>3. Len(locals) = MAX_LOCAL_SLOTS
  BY LimitsAssumption DEF New
<1>4. \A i \in 1 .. Len(locals) : ~(i > MAX_LOCAL_SLOTS)
  BY <1>3, LimitsAssumption
<1> QED
  BY <1>2, <1>4 DEF MarkerConfined

\* The marker where it belongs, and nothing has panicked.
Confined == NeverPanics /\ (status \in {"new", "running"} => MarkerConfined)

LEMMA ConfinedStep ==
  ASSUME IInv, Confined, ArraysBased, [Next]_vars
  PROVE  Confined'
<1>1. CASE UNCHANGED vars
  BY <1>1 DEF vars, Confined, NeverPanics, MarkerConfined
<1>2. CASE Next /\ status = "new"
  <2>1. CASE RejectProgram
    BY <2>1 DEF RejectProgram, Confined, NeverPanics
  <2>2. CASE EnterMain
    <3>1. MarkerConfined'
      BY <1>2, <2>2 DEF EnterMain, Confined, MarkerConfined
    <3> QED
      BY <2>2, <3>1 DEF EnterMain, Confined, NeverPanics
  <2> QED
    BY <1>2, <2>1, <2>2, NewStarts
<1>3. CASE Next /\ status = "running"
  <2>1. MarkerConfined
    BY <1>3 DEF Confined
  <2>2. CASE status' = "running"
    BY <1>3, <2>1, <2>2, MarkerStays DEF Confined, NeverPanics
  <2>3. ~ArithmeticPanic
    <3>1. /\ 1 <= Len(stack) => Top(0) # I64Min
          /\ 2 <= Len(stack) => Top(1) # I64Min
      BY <2>1, DefiniteOperands DEF Definite
    <3>2. Len(stack) \in Nat
      BY <2>1, DefiniteOperands
    <3> QED
      BY <3>1, <3>2 DEF ArithmeticPanic, DivOverflows
  <2>4. status' \notin {"new", "panicked"}
    BY <1>3, <2>3, GoesOn
  <2> QED
    BY <2>2, <2>4 DEF Confined, NeverPanics
<1>4. CASE Next /\ status \in Final
  BY <1>4, FinalStays DEF Done, vars, Confined, NeverPanics, Final
<1>5. status \in {"new", "running"} \cup Final
  BY DEF IInv, ControlOK
<1> QED
  BY <1>1, <1>2, <1>3, <1>4, <1>5

\* docs/system-artifact.md, "malformed bytecode traps instead of panicking": so
\* it does, whatever the program, as long as local array loads go through array
\* bases.  Without that the undefined marker reaches a division or a negation
\* (run vm_panic).
THEOREM PanicsNeedABadBase == Spec /\ []ArraysBased => []NeverPanics
<1>1. Init => Confined
  BY MarkerFresh DEF Init, New, Confined, NeverPanics
<1>2. IInv /\ Confined /\ ArraysBased /\ [Next]_vars => Confined'
  BY ConfinedStep
<1>3. Confined => NeverPanics
  BY DEF Confined
<1> QED
  BY <1>1, <1>2, <1>3, Invariance, PTL DEF Spec

(***************************************************************************)
(* Straight-line code: what an instruction does that neither jumps nor     *)
(* touches globals, arrays or other frames, when nothing can stop it.      *)
(***************************************************************************)
StraightOps ==
  Comparisons \cup UnaryOps \cup
  {"Add", "Sub", "Mul", "LoadConst", "LoadLocal", "StoreLocal", "Pop", "Dup"}

\* No check of the instruction fails, nor does the loop of run stop in front of it.
Unstopped ==
  /\ Guarded
  /\ MAX_CYCLES = 0 \/ cycles < MAX_CYCLES
  /\ Len(stack) - Popped(Instr) + Pushed(Instr) <= MAX_OPERAND_STACK
  /\ Instr.opcode = "LoadLocal" => locals[Slot(arg1)] # I64Min
  /\ Instr.opcode = "Neg" => Top(0) # I64Min

LEMMA UnstoppedExecutes ==
  ASSUME IInv, status = "running", Unstopped, Next
  PROVE  Execute
PROOF
<1>1. ~LoopTrap
  <2>1. ~(pc >= Len(Code))
    BY DEF Unstopped, Guarded, IInv, ControlOK, Code, IsProgram
  <2>2. ~(MAX_CYCLES > 0 /\ cycles >= MAX_CYCLES)
    BY LimitsAssumption DEF Unstopped, IInv, ControlOK
  <2> QED
    BY <2>1, <2>2 DEF LoopTrap
<1>2. ~RejectProgram /\ ~EnterMain /\ ~Done
  BY DEF RejectProgram, EnterMain, Done, Final
<1> QED
  BY <1>1, <1>2 DEF Next

\* The slot of a guarded instruction lies below the limit of the locals.
LEMMA UnstoppedSlot ==
  ASSUME IInv, status = "running", Guarded, NEW stk,
         Instr.opcode \in {"LoadLocal", "StoreLocal"}
  PROVE  /\ SlotFault(arg1, stk).code = "None"
         /\ Slot(arg1) \in 1 .. MAX_LOCAL_SLOTS
PROOF
<1>1. /\ arg1 \in 0 .. LocalCount(Frame) - 1 /\ LocalCount(Frame) \in Nat
      /\ Frame.base_ptr + LocalCount(Frame) <= MAX_LOCAL_SLOTS
      /\ Frame.base_ptr \in Nat
  BY RunningFacts DEF Guarded, WellFormed, FrameType
<1>2. ~(arg1 < 0 \/ arg1 >= LocalCount(Frame)) /\ ~(Frame.base_ptr + arg1 >= MAX_LOCAL_SLOTS)
  BY <1>1, LimitsAssumption
<1>3. SlotFault(arg1, stk).code = "None"
  BY <1>2 DEF SlotFault, Fault, NoFault, ??
<1>4. Slot(arg1) \in 1 .. MAX_LOCAL_SLOTS
  BY <1>1, LimitsAssumption DEF Slot
<1> QED
  BY <1>3, <1>4

\* A step that rewrites the operand stack alone.
Rewrites(stk) ==
  /\ stack' = stk /\ locals' = locals /\ call_stack' = call_stack
  /\ status' = status /\ pc' = pc + 1 /\ cycles' = cycles + 1

LEMMA CheckedRewrites ==
  ASSUME NEW ops, Fetch(ops), NEW f, f.code = "None", NEW stk, Checked(f, StackOnly(stk))
  PROVE  Rewrites(stk)
BY DEF Fetch, Checked, StackOnly, Advance, GoTo, Rewrites, result

LEMMA StraightStep ==
  ASSUME IInv, status = "running", Unstopped, Next, Instr.opcode \in StraightOps
  PROVE  /\ Instr.opcode = "LoadConst" => Rewrites(Append(stack, arg1))
         /\ Instr.opcode = "LoadLocal" => Rewrites(Append(stack, locals[Slot(arg1)]))
         /\ Instr.opcode = "StoreLocal" =>
              /\ stack' = Drop(1) /\ locals' = [locals EXCEPT ![Slot(arg1)] = Top(0)]
              /\ call_stack' = call_stack /\ status' = status
              /\ pc' = pc + 1 /\ cycles' = cycles + 1
         /\ Instr.opcode \in Comparisons \cup {"Add", "Sub", "Mul"} =>
              Rewrites(Append(Drop(2), BinaryResult(Instr.opcode, Top(1), Top(0))))
         /\ Instr.opcode \in UnaryOps =>
              Rewrites(Append(Drop(1), UnaryResult(Instr.opcode, Top(0))))
         /\ Instr.opcode = "Pop" => Rewrites(Drop(1))
         /\ Instr.opcode = "Dup" => Rewrites(Append(stack, Top(0)))
PROOF
<1>1. Execute /\ Guarded
  BY UnstoppedExecutes DEF Unstopped
<1>2. PICK op : op = Instr.opcode
  OBVIOUS
<1>3. Len(stack) \in Nat /\ PopFault(stack, Popped(Instr)).code = "None"
  BY <1>1, StackLengths, GuardedChecks
<1>4. Popped(Instr) = 0 /\ Pushed(Instr) = 1 => PushFault(stack).code = "None"
  BY <1>3, LimitsAssumption DEF Unstopped, PushFault, Fault, NoFault
<1>5. \A f, g : f.code = "None" /\ g.code = "None" => (f ?? g).code = "None"
  BY DEF ??
<1>6. ASSUME op = "LoadConst" PROVE Rewrites(Append(stack, arg1))
  <2>1. LoadConst
    BY <1>1, <1>2, <1>6 DEF Execute, LoadLocal, StoreLocal, LoadGlobal, StoreGlobal, Binary,
       Unary, ArithmeticPanic, Jump, Branch, Call, Return, ArrayLoad, ArrayStore,
       LocalArrayLoad, LocalArrayStore, Alloc, PrintTop, Pop, Dup, Halt, Fetch, BinaryOps,
       Arithmetic, Comparisons, UnaryOps, Allocations
  <2>2. PushFault(stack).code = "None"
    BY <1>2, <1>4, <1>6, Effects
  <2> QED
    BY <2>1, <2>2, CheckedRewrites DEF LoadConst
<1>7. ASSUME op = "LoadLocal" PROVE Rewrites(Append(stack, locals[Slot(arg1)]))
  <2>1. LoadLocal
    BY <1>1, <1>2, <1>7 DEF Execute, LoadConst, StoreLocal, LoadGlobal, StoreGlobal, Binary,
       Unary, ArithmeticPanic, Jump, Branch, Call, Return, ArrayLoad, ArrayStore,
       LocalArrayLoad, LocalArrayStore, Alloc, PrintTop, Pop, Dup, Halt, Fetch, BinaryOps,
       Arithmetic, Comparisons, UnaryOps, Allocations
  <2>2. PushFault(stack).code = "None"
    BY <1>2, <1>4, <1>7, Effects
  <2>3. SlotFault(arg1, stack).code = "None"
    BY <1>1, <1>2, <1>7, UnstoppedSlot
  <2>4. Fault(locals[Slot(arg1)] = I64Min, "UndefinedLocal", stack).code = "None"
    BY <1>2, <1>7 DEF Unstopped, Fault, NoFault
  <2>5. (SlotFault(arg1, stack) ?? Fault(locals[Slot(arg1)] = I64Min, "UndefinedLocal", stack)
           ?? PushFault(stack)).code = "None"
    BY <1>5, <2>2, <2>3, <2>4
  <2> QED
    BY <2>1, <2>5, CheckedRewrites DEF LoadLocal
<1>8. ASSUME op = "StoreLocal"
      PROVE  /\ stack' = Drop(1) /\ locals' = [locals EXCEPT ![Slot(arg1)] = Top(0)]
             /\ call_stack' = call_stack /\ status' = status
             /\ pc' = pc + 1 /\ cycles' = cycles + 1
  <2>1. StoreLocal
    BY <1>1, <1>2, <1>8 DEF Execute, LoadConst, LoadLocal, LoadGlobal, StoreGlobal, Binary,
       Unary, ArithmeticPanic, Jump, Branch, Call, Return, ArrayLoad, ArrayStore,
       LocalArrayLoad, LocalArrayStore, Alloc, PrintTop, Pop, Dup, Halt, Fetch, BinaryOps,
       Arithmetic, Comparisons, UnaryOps, Allocations
  <2>2. PopFault(stack, 1).code = "None"
    BY <1>2, <1>3, <1>8, Effects
  <2>3. SlotFault(arg1, Drop(1)).code = "None"
    BY <1>1, <1>2, <1>8, UnstoppedSlot
  <2>4. (PopFault(stack, 1) ?? SlotFault(arg1, Drop(1))).code = "None"
    BY <1>5, <2>2, <2>3
  <2> QED
    BY <2>1, <2>4 DEF StoreLocal, Checked, Advance, GoTo, Fetch, result
<1>9. ASSUME op \in Comparisons \cup {"Add", "Sub", "Mul"}
      PROVE  Rewrites(Append(Drop(2), BinaryResult(op, Top(1), Top(0))))
  <2>1. Binary
    BY <1>1, <1>2, <1>9 DEF Execute, LoadConst, LoadLocal, StoreLocal, LoadGlobal,
       StoreGlobal, Unary, ArithmeticPanic, Jump, Branch, Call, Return, ArrayLoad,
       ArrayStore, LocalArrayLoad, LocalArrayStore, Alloc, PrintTop, Pop, Dup, Halt, Fetch,
       Comparisons, UnaryOps, Allocations
  <2>2. PopFault(stack, 2).code = "None"
    BY <1>2, <1>3, <1>9, Effects DEF BinaryOps, Arithmetic
  <2>3. Fault(op = "Div" /\ Top(0) = 0, "DivideByZero", Drop(2)).code = "None"
    BY <1>9 DEF Fault, NoFault, Comparisons
  <2>4. (PopFault(stack, 2) ?? Fault(op = "Div" /\ Top(0) = 0, "DivideByZero", Drop(2))).code
          = "None"
    BY <1>5, <2>2, <2>3
  <2> QED
    BY <1>2, <2>1, <2>4, CheckedRewrites DEF Binary
<1>10. ASSUME op \in UnaryOps PROVE Rewrites(Append(Drop(1), UnaryResult(op, Top(0))))
  <2>1. ~ArithmeticPanic
    BY <1>2, <1>10 DEF ArithmeticPanic, DivOverflows, Unstopped, UnaryOps
  <2>2. Unary
    BY <1>1, <1>2, <1>10, <2>1 DEF Execute, LoadConst, LoadLocal, StoreLocal, LoadGlobal,
       StoreGlobal, Binary, Jump, Branch, Call, Return, ArrayLoad, ArrayStore,
       LocalArrayLoad, LocalArrayStore, Alloc, PrintTop, Pop, Dup, Halt, Fetch, BinaryOps,
       Arithmetic, Comparisons, UnaryOps, Allocations
  <2>3. PopFault(stack, 1).code = "None"
    BY <1>2, <1>3, <1>10, Effects
  <2> QED
    BY <1>2, <2>2, <2>3, CheckedRewrites DEF Unary
<1>11. ASSUME op = "Pop" PROVE Rewrites(Drop(1))
  <2>1. Pop
    BY <1>1, <1>2, <1>11 DEF Execute, LoadConst, LoadLocal, StoreLocal, LoadGlobal,
       StoreGlobal, Binary, Unary, ArithmeticPanic, Jump, Branch, Call, Return, ArrayLoad,
       ArrayStore, LocalArrayLoad, LocalArrayStore, Alloc, PrintTop, Dup, Halt, Fetch,
       BinaryOps, Arithmetic, Comparisons, UnaryOps, Allocations
  <2>2. PopFault(stack, 1).code = "None"
    BY <1>2, <1>3, <1>11, Effects
  <2> QED
    BY <2>1, <2>2, CheckedRewrites DEF Pop
<1>12. ASSUME op = "Dup" PROVE Rewrites(Append(stack, Top(0)))
  <2>1. Dup
    BY <1>1, <1>2, <1>12 DEF Execute, LoadConst, LoadLocal, StoreLocal, LoadGlobal,
       StoreGlobal, Binary, Unary, ArithmeticPanic, Jump, Branch, Call, Return, ArrayLoad,
       ArrayStore, LocalArrayLoad, LocalArrayStore, Alloc, PrintTop, Pop, Halt, Fetch,
       BinaryOps, Arithmetic, Comparisons, UnaryOps, Allocations
  <2>2. Popped(Instr) = 1 /\ Pushed(Instr) = 2
    BY <1>2, <1>12, Effects DEF Pushed, Jumps
  <2>3. PopFault(stack, 1).code = "None"
    BY <1>3, <2>2
  <2>4. PushFault(stack).code = "None"
    BY <1>3, <2>2, LimitsAssumption DEF Unstopped, PushFault, Fault, NoFault
  <2>5. (PopFault(stack, 1) ?? PushFault(stack)).code = "None"
    BY <1>5, <2>3, <2>4
  <2> QED
    BY <2>1, <2>5, CheckedRewrites DEF Dup
<1> QED
  BY <1>2, <1>6, <1>7, <1>8, <1>9, <1>10, <1>11, <1>12

\* Main returns the operand on top.
LEMMA MainReturns ==
  ASSUME IInv, status = "running", Unstopped, Next, Instr.opcode = "Return",
         Len(call_stack) = 1
  PROVE  status' = "exited" /\ return_value' = Top(0)
PROOF
<1>1. Execute /\ Guarded
  BY UnstoppedExecutes DEF Unstopped
<1>2. Return
  BY <1>1 DEF Execute, LoadConst, LoadLocal, StoreLocal, LoadGlobal, StoreGlobal, Binary,
     Unary, ArithmeticPanic, Jump, Branch, Call, ArrayLoad, ArrayStore, LocalArrayLoad,
     LocalArrayStore, Alloc, PrintTop, Pop, Dup, Halt, Fetch, BinaryOps, Arithmetic,
     Comparisons, UnaryOps, Allocations
<1>3. Popped(Instr) = 1 /\ Len(stack) \in Nat
  BY Effects, StackLengths
<1>4. PopFault(stack, 1).code = "None" /\ Len(stack) >= 1
  BY <1>1, <1>3, GuardedChecks DEF Guarded
<1>5. Exit
  BY <1>2, <1>4 DEF Return, Checked
<1> QED
  BY <1>3, <1>4, <1>5 DEF Exit
===============================================================================
