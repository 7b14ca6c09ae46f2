--------------------------- MODULE VerifiedVmProofs ---------------------------
(***************************************************************************)
(* The verifier is sound for the reference machine: whatever the program   *)
(* and the limits, a program whose report is valid never meets a           *)
(* structural check of the machine, every frame stays within what the      *)
(* report says of its operands, the call stack within its frame depth, and *)
(* the data traps of a run are among its possible traps.  A program that   *)
(* the report lets through to the JIT returns from its native code what it *)
(* returns from the machine.                                               *)
(*                                                                         *)
(* The proof puts together what VerifierProofs knows of a valid report     *)
(* (ValidFacts) and what VmProofs knows of an instruction whose checks     *)
(* cannot fail (GuardedStep); JitProofs knows the native code.  V and M of *)
(* VerifiedVm are instances of Verifier and Vm; VP and MP are those of the *)
(* modules that prove about them.  The lemmas Same... say that the two are *)
(* the same.                                                               *)
(***************************************************************************)
EXTENDS VerifiedVm, JitProofs, SequenceTheorems, FiniteSetTheorems, TLAPS

VP == INSTANCE VerifierProofs
MP == INSTANCE VmProofs

\* The assumptions of the instances.
LEMMA Assumptions ==
  /\ \A p \in Programs : VP!IsFiniteSet(DOMAIN p.functions)
  /\ \A p \in Programs : VP!IsProgram(p)
  /\ \A p \in Programs : MP!IsProgram(p)
  /\ USIZE_MAX \in Nat
  /\ MAX_INSTRUCTIONS + Half < USIZE_MAX
  /\ Half \in Nat \ {0, 1}
  /\ MAX_GLOBAL_SLOTS \in Nat
  /\ MAX_LOCAL_SLOTS \in Nat
  /\ MAX_FRAMES \in Nat \ {0}
  /\ MAX_OPERAND_STACK \in Nat \ {0}
  /\ MAX_CYCLES \in Nat
  /\ MAX_INSTRUCTIONS \in Nat
PROOF
<1>1. \A p \in Programs : VP!IsFiniteSet(DOMAIN p.functions)
  BY FiniteFunctionsAssumption DEF IsFiniteSet, VP!IsFiniteSet
<1>2. \A p \in Programs : VP!IsProgram(p)
  BY ProgramsAssumption DEF IsProgram, VP!IsProgram, Instruction, VP!Instruction,
     FunctionInfo, VP!FunctionInfo, GlobalInfo, VP!GlobalInfo, I32, VP!I32, Opcode,
     VP!Opcode, BinaryOps, VP!BinaryOps, Arithmetic, VP!Arithmetic, Comparisons,
     VP!Comparisons, UnaryOps, VP!UnaryOps, Jumps, VP!Jumps, Allocations,
     VP!Allocations
<1>3. \A p \in Programs : MP!IsProgram(p)
  BY ProgramsAssumption DEF IsProgram, MP!IsProgram, Instruction, MP!Instruction,
     FunctionInfo, MP!FunctionInfo, GlobalInfo, MP!GlobalInfo, I32, MP!I32, Opcode,
     MP!Opcode, BinaryOps, MP!BinaryOps, Arithmetic, MP!Arithmetic, Comparisons,
     MP!Comparisons, UnaryOps, MP!UnaryOps, Jumps, MP!Jumps, Allocations,
     MP!Allocations
<1> QED
  BY <1>1, <1>2, <1>3, LimitsAssumption, UsizeAssumption

\* The steps of the two instances of Verifier.

LEMMA SameCheckMetadata == V!CheckMetadata <=> VP!CheckMetadata
  BY DEF V!CheckMetadata, VP!CheckMetadata, V!Orders, VP!Orders, V!Info, VP!Info,
     V!Cardinality, VP!Cardinality, V!IsFiniteSet, VP!IsFiniteSet, V!Code, VP!Code,
     V!FunctionErrors, VP!FunctionErrors, V!BadFunction, VP!BadFunction,
     V!ProgramErrors, VP!ProgramErrors, V!NoPc, VP!NoPc, V!GlobalsOverlap,
     VP!GlobalsOverlap, V!SlotsOf, VP!SlotsOf, V!Width, VP!Width, V!BadGlobals,
     VP!BadGlobals

LEMMA SameEnterFunction == V!EnterFunction <=> VP!EnterFunction
  BY DEF V!EnterFunction, VP!EnterFunction, V!Info, VP!Info, V!Start, VP!Start

LEMMA SameLeaveRange == V!LeaveRange <=> VP!LeaveRange
  BY DEF V!LeaveRange, VP!LeaveRange, V!Here, VP!Here, V!pc_in_range, VP!pc_in_range,
     V!End, VP!End, V!Info, VP!Info, V!Code, VP!Code, V!Start, VP!Start, V!Dequeue,
     VP!Dequeue

LEMMA SameRejectInstruction == V!RejectInstruction <=> VP!RejectInstruction
  BY DEF V!RejectInstruction, VP!RejectInstruction, V!State, VP!State, V!Here,
     VP!Here, V!Known, VP!Known, V!Largest, VP!Largest, V!Instr, VP!Instr, V!Code,
     VP!Code, V!UndefinedUse, VP!UndefinedUse, V!LocalArrayOps, VP!LocalArrayOps,
     V!OperandsOK, VP!OperandsOK, V!Info, VP!Info, V!pc_in_range, VP!pc_in_range,
     V!End, VP!End, V!Start, VP!Start, V!Jumps, VP!Jumps, V!Allocations,
     VP!Allocations, V!LocalOK, VP!LocalOK, V!GlobalOK, VP!GlobalOK, V!GlobalArrayOps,
     VP!GlobalArrayOps, V!Accepted, VP!Accepted, V!Pops, VP!Pops, V!BinaryOps,
     VP!BinaryOps, V!Comparisons, VP!Comparisons, V!Arithmetic, VP!Arithmetic,
     V!Dequeue, VP!Dequeue

LEMMA SameStepInstruction == V!StepInstruction <=> VP!StepInstruction
  BY DEF V!StepInstruction, VP!StepInstruction, V!Instr, VP!Instr, V!Here, VP!Here,
     V!Code, VP!Code, V!State, VP!State, V!Known, VP!Known, V!UndefinedUse,
     VP!UndefinedUse, V!LocalArrayOps, VP!LocalArrayOps, V!OpcodeTraps,
     VP!OpcodeTraps, V!Jumps, VP!Jumps, V!GlobalArrayOps, VP!GlobalArrayOps,
     V!Largest, VP!Largest, V!SuccessorErrors, VP!SuccessorErrors, V!pc_in_range,
     VP!pc_in_range, V!End, VP!End, V!Info, VP!Info, V!Start, VP!Start, V!Merge,
     VP!Merge, V!Enqueued, VP!Enqueued, V!Enqueue, VP!Enqueue, V!Propagates,
     VP!Propagates, V!Successors, VP!Successors, V!After, VP!After, V!Pushes,
     VP!Pushes, V!Pops, VP!Pops, V!Allocations, VP!Allocations, V!BinaryOps,
     VP!BinaryOps, V!Comparisons, VP!Comparisons, V!Arithmetic, VP!Arithmetic,
     V!Accepted, VP!Accepted, V!OperandsOK, VP!OperandsOK, V!LocalOK, VP!LocalOK,
     V!GlobalOK, VP!GlobalOK, V!Dequeue, VP!Dequeue

\* Their initial states and verdicts.
LEMMA SameVerdict == (V!New <=> VP!New) /\ (V!valid <=> VP!valid)
  BY DEF V!New, VP!New, V!Unbounded, VP!Unbounded, V!valid, VP!valid

\* The two instances of Vm.
LEMMA SameNext == M!Next <=> MP!Next
  BY DEF M!Next, MP!Next, M!Done, MP!Done, M!vars, MP!vars, M!Final, MP!Final,
     M!Execute, MP!Execute, M!Halt, MP!Halt, M!Exit, MP!Exit, M!Drop, MP!Drop, M!Top,
     MP!Top, M!Fetch, MP!Fetch, M!Instr, MP!Instr, M!Code, MP!Code, M!Dup, MP!Dup,
     M!StackOnly, MP!StackOnly, M!Advance, MP!Advance, M!GoTo, MP!GoTo, M!result,
     MP!result, M!PushFault, MP!PushFault, M!Fault, MP!Fault, M!NoFault, MP!NoFault,
     M!PopFault, MP!PopFault, M!Checked, MP!Checked, M!Trap, MP!Trap, M!Abort,
     MP!Abort, M!Pop, MP!Pop, M!PrintTop, MP!PrintTop, M!Alloc, MP!Alloc, M!arg1,
     MP!arg1, M!SizeFault, MP!SizeFault, M!Allocations, MP!Allocations,
     M!LocalArrayStore, MP!LocalArrayStore, M!Slot, MP!Slot, M!Frame, MP!Frame,
     M!arg2, MP!arg2, M!ArrayBaseFault, MP!ArrayBaseFault, M!I64Min, MP!I64Min,
     M!SlotFault, MP!SlotFault, M!LocalCount, MP!LocalCount, M!IndexFault,
     MP!IndexFault, M!LocalArrayLoad, MP!LocalArrayLoad, M!ArrayStore, MP!ArrayStore,
     M!GlobalRangeFault, MP!GlobalRangeFault, M!GlobalFault, MP!GlobalFault,
     M!ArrayLoad, MP!ArrayLoad, M!Return, MP!Return, M!Call, MP!Call, M!Callee,
     MP!Callee, M!CalleeFrame, MP!CalleeFrame, M!NewBase, MP!NewBase, M!CalleeLocals,
     MP!CalleeLocals, M!PassArguments, MP!PassArguments, M!CallFault, MP!CallFault,
     M!Branch, MP!Branch, M!AsUsize, MP!AsUsize, M!BranchTaken, MP!BranchTaken,
     M!Jump, MP!Jump, M!ArithmeticPanic, MP!ArithmeticPanic, M!DivOverflows,
     MP!DivOverflows, M!Unary, MP!Unary, M!UnaryResult, MP!UnaryResult, M!Bool,
     MP!Bool, M!normalize_i32, MP!normalize_i32, M!UnaryOps, MP!UnaryOps, M!Binary,
     MP!Binary, M!BinaryResult, MP!BinaryResult, M!TruncDiv, MP!TruncDiv, M!Abs,
     MP!Abs, M!BinaryOps, MP!BinaryOps, M!Comparisons, MP!Comparisons, M!Arithmetic,
     MP!Arithmetic, M!StoreGlobal, MP!StoreGlobal, M!LoadGlobal, MP!LoadGlobal,
     M!StoreLocal, MP!StoreLocal, M!LoadLocal, MP!LoadLocal, M!LoadConst,
     MP!LoadConst, M!LoopTrap, MP!LoopTrap, M!EnterMain, MP!EnterMain,
     M!PreflightTraps, MP!PreflightTraps, M!BadGlobals, MP!BadGlobals, M!Width,
     MP!Width, M!FunctionTrap, MP!FunctionTrap, M!RejectProgram, MP!RejectProgram,
     M!??, MP!??

LEMMA SameNew == M!New <=> MP!New
  BY DEF M!New, MP!New, M!I64Min, MP!I64Min

(***************************************************************************)
(* The invariant.  DepthsCovered is not inductive: a frame below the top   *)
(* must have room for the result it waits for, and the base of every frame *)
(* must be known to be a number of operands.                               *)
(***************************************************************************)
FrameOK(k) ==
  /\ PcOf(k) \in DOMAIN states[call_stack[k].func_id]
  /\ k < Len(call_stack) => StateOf(k).depth >= 1
  /\ OwnOperands(k) >= ReportedDepth(k)
  /\ BalancedReturns => OwnOperands(k) = ReportedDepth(k)

FramesOK ==
  /\ operand_base \in Seq(Nat) /\ Len(operand_base) = Len(call_stack)
  /\ \A k \in 1 .. Len(call_stack) : FrameOK(k)

\* Only a program with a valid report is run.
MachineOK ==
  /\ status = "new" => stack = << >> /\ call_stack = << >> /\ operand_base = << >>
  /\ status # "new" => V!valid
  /\ status = "running" => FramesOK

IInv == VP!IInv /\ VP!ReportOK /\ MP!IInv /\ MachineOK /\ NoStructuralTrap

(***************************************************************************)
(* What a valid report says.                                               *)
(***************************************************************************)

\* The checks of verify include those of validate_program.
LEMMA ValidPassesPreflight ==
  ASSUME VP!IInv, VP!ReportOK, V!valid
  PROVE  MP!PreflightTraps(prog) = {}
PROOF
<1>1. VP!valid
  BY SameVerdict
<1>2. VP!ProgramErrors = {} /\ VP!FunctionErrors = {}
  BY <1>1, VP!ValidFacts, Assumptions
<1>3. /\ ~VP!BadGlobals(prog) /\ prog.main_func_id \in DOMAIN prog.functions
      /\ ~(Len(prog.instructions) > MAX_INSTRUCTIONS)
  BY <1>2 DEF VP!ProgramErrors, VP!Code
<1>4. \A f \in DOMAIN prog.functions : ~VP!BadFunction(f)
  BY <1>2 DEF VP!FunctionErrors
<1>5. \A f \in DOMAIN prog.functions : MP!FunctionTrap(prog.functions[f]) = "None"
  BY <1>4 DEF VP!BadFunction, VP!Info, MP!FunctionTrap
<1>6. ~MP!BadGlobals(prog)
  BY <1>3 DEF VP!BadGlobals, MP!BadGlobals, VP!Width, MP!Width
<1> QED
  BY <1>3, <1>5, <1>6 DEF MP!PreflightTraps

\* Every function is covered from its entry, with an empty stack, and the pcs
\* it covers are sound.
LEMMA FunctionCovered ==
  ASSUME VP!IInv, VP!ReportOK, V!valid, NEW f \in DOMAIN prog.functions
  PROVE  /\ prog.functions[f].entry_pc \in DOMAIN states[f]
         /\ states[f][prog.functions[f].entry_pc].depth = 0
         /\ \A q \in DOMAIN states[f] :
              /\ q \in Nat /\ q < Len(prog.instructions)
              /\ states[f][q].depth \in Nat
              /\ states[f][q].depth <= max_stack_depth
              /\ \E i \in 1 .. Len(order) : order[i] = f /\ VP!Sound(i, q, states[f])
PROOF
<1>1. VP!valid
  BY SameVerdict
<1>2. PICK i \in 1 .. Len(order) :
        /\ order[i] = f
        /\ VP!EntryCovered(i, states[f])
        /\ \A q \in DOMAIN states[f] : VP!Sound(i, q, states[f])
  BY <1>1, VP!ValidFacts, Assumptions
<1>3. /\ prog.functions[f].entry_pc \in DOMAIN states[f]
      /\ states[f][prog.functions[f].entry_pc].depth = 0
  BY <1>2 DEF VP!EntryCovered, VP!Start, VP!Info
<1>4. \A q \in DOMAIN states[f] : states[f][q].depth <= max_stack_depth
  BY DEF VP!ReportOK, VP!DepthsReported
<1>5. \A q \in DOMAIN states[f] :
        q \in 0 .. Len(prog.instructions) - 1 /\ states[f][q] \in VP!AbstractState
  BY DEF VP!IInv, VP!StatesOK, VP!KnownOK, VP!Code
<1>6. Len(prog.instructions) \in Nat
  BY Assumptions DEF VP!IInv, VP!IsProgram
<1> QED
  BY <1>2, <1>3, <1>4, <1>5, <1>6 DEF VP!AbstractState

\* The verifier and the machine agree on what an instruction pops and pushes.
LEMMA SameEffects ==
  ASSUME NEW ins
  PROVE  VP!Pops(ins) = MP!Popped(ins) /\ VP!Pushes(ins) = MP!Pushed(ins)
PROOF
<1>2. VP!Pops(ins) = MP!Popped(ins)
  BY DEF VP!Pops, MP!Popped, VP!BinaryOps, MP!BinaryOps, VP!Arithmetic,
     MP!Arithmetic, VP!Comparisons, MP!Comparisons, VP!Allocations, MP!Allocations
<1>3. VP!Pushes(ins) = MP!Pushed(ins)
  BY DEF VP!Pushes, MP!Pushed, VP!Jumps, MP!Jumps
<1> QED
  BY <1>2, <1>3

\* The operands step_instruction accepts pass the machine's checks.
LEMMA AcceptedWellFormed ==
  ASSUME NEW i, order[i] = MP!Frame.func_id, VP!OperandsOK(i, MP!Instr),
         MP!Instr \in MP!Instruction, MP!LocalCount(MP!Frame) \in Nat
  PROVE  MP!WellFormed
PROOF
<1>1. MP!arg1 \in Int /\ MP!arg2 \in Int
  BY Assumptions DEF MP!Instruction, MP!I32, MP!arg1, MP!arg2
<1>2. VP!Info(order[i]).local_count = MP!LocalCount(MP!Frame)
  BY DEF VP!Info, MP!LocalCount
<1>3. MP!Instr.opcode \in {"LoadLocal", "StoreLocal"} \cup MP!LocalArrays
        => MP!arg1 \in 0 .. MP!LocalCount(MP!Frame) - 1
  <2>1. MP!Instr.opcode \in {"LoadLocal", "StoreLocal"} \cup MP!LocalArrays
          => VP!LocalOK(i, MP!Instr.arg1)
    BY DEF VP!OperandsOK, MP!LocalArrays, VP!GlobalArrayOps, VP!LocalArrayOps,
       VP!Allocations, VP!Jumps
  <2> QED
    BY <1>1, <1>2, <2>1 DEF VP!LocalOK, MP!arg1
<1>4. MP!Instr.opcode \in {"LoadGlobal", "StoreGlobal"}
        => MP!arg1 \in 0 .. MAX_GLOBAL_SLOTS - 1
  BY <1>1, Assumptions DEF VP!OperandsOK, VP!GlobalOK, MP!arg1, VP!GlobalArrayOps,
     VP!LocalArrayOps, VP!Allocations, VP!Jumps
<1>5. MP!Instr.opcode \in {"ArrayLoad", "ArrayStore"}
        => /\ MP!arg1 \in 0 .. MAX_GLOBAL_SLOTS - 1 /\ MP!arg2 >= 0
           /\ MP!arg1 + MP!arg2 <= MAX_GLOBAL_SLOTS
  BY <1>1, Assumptions DEF VP!OperandsOK, VP!GlobalOK, MP!arg1, MP!arg2,
     VP!GlobalArrayOps, VP!LocalArrayOps, VP!Allocations, VP!Jumps
<1>6. MP!Instr.opcode \in MP!LocalArrays => MP!arg2 >= 0
  BY <1>1 DEF VP!OperandsOK, MP!LocalArrays, MP!arg2, VP!GlobalArrayOps,
     VP!LocalArrayOps, VP!Allocations, VP!Jumps
<1>7. MP!Instr.opcode \in MP!Allocations \cup MP!Jumps => MP!arg1 >= 0
  BY <1>1 DEF VP!OperandsOK, MP!Allocations, MP!Jumps, MP!arg1, VP!GlobalArrayOps,
     VP!LocalArrayOps, VP!Allocations, VP!Jumps
<1>8. MP!Instr.opcode = "Call"
        => /\ MP!arg1 \in DOMAIN prog.functions
           /\ MP!arg2 = MP!Callee.param_count
  BY DEF VP!OperandsOK, VP!Info, MP!Callee, MP!arg1, MP!arg2, VP!GlobalArrayOps,
     VP!LocalArrayOps, VP!Allocations, VP!Jumps
<1> QED
  BY <1>3, <1>4, <1>5, <1>6, <1>7, <1>8 DEF MP!WellFormed

(***************************************************************************)
(* The frame on top.                                                       *)
(***************************************************************************)

\* Where the machine goes is among the successors step_instruction names.
LEMMA TargetsAreSuccessors ==
  ASSUME MP!Instr.opcode \notin {"Call", "Return", "Halt"}, NEW t \in MP!Targets
  PROVE  \E k \in DOMAIN VP!Successors(MP!Instr, pc) : VP!Successors(MP!Instr, pc)[k] = t
PROOF
<1> DEFINE ins == MP!Instr
<1>1. CASE ins.opcode = "Jump"
  <2>1. VP!Successors(ins, pc) = <<ins.arg1>> /\ t = ins.arg1
    BY <1>1 DEF VP!Successors, MP!Targets, MP!arg1
  <2> QED
    BY <2>1
<1>2. CASE ins.opcode \in MP!Jumps \ {"Jump"}
  <2>1. VP!Successors(ins, pc) = <<ins.arg1, pc + 1>> /\ t \in {ins.arg1, pc + 1}
    BY <1>2 DEF VP!Successors, MP!Targets, MP!arg1, VP!Jumps, MP!Jumps
  <2> QED
    BY <2>1
<1>3. CASE ins.opcode \notin MP!Jumps
  <2>1. VP!Successors(ins, pc) = <<pc + 1>> /\ t = pc + 1
    BY <1>3 DEF VP!Successors, MP!Targets, VP!Jumps, MP!Jumps
  <2> QED
    BY <2>1
<1> QED
  BY <1>1, <1>2, <1>3

\* What the report says of the instruction at pc: the machine's checks of it
\* cannot fail, and its successors have the depth it leaves.
LEMMA TopFrame ==
  ASSUME IInv, status = "running"
  PROVE  LET n   == Len(call_stack)
             f   == call_stack[n].func_id
             s   == states[f][pc]
             ins == MP!Instr
         IN  /\ V!valid
             /\ n \in Nat \ {0} /\ f \in DOMAIN prog.functions
             /\ pc \in DOMAIN states[f] /\ s.depth \in Nat
             /\ MP!Popped(ins) \in Nat /\ MP!Pushed(ins) \in Nat
             /\ s.depth >= MP!Popped(ins)
             /\ MP!Guarded
             /\ ins.opcode \notin {"Call", "Return", "Halt"} =>
                  \A t \in MP!Targets :
                    /\ t \in DOMAIN states[f]
                    /\ states[f][t].depth = s.depth - MP!Popped(ins) + MP!Pushed(ins)
             /\ ins.opcode = "Call" =>
                  /\ MP!arg1 \in DOMAIN prog.functions
                  /\ MP!Popped(ins) = MP!arg2
                  /\ pc + 1 \in DOMAIN states[f]
                  /\ states[f][pc + 1].depth = s.depth - MP!arg2 + 1
             /\ ins.opcode = "Return" => s.depth >= 1
PROOF
<1> DEFINE n   == Len(call_stack)
           f   == call_stack[n].func_id
           s   == states[f][pc]
           ins == MP!Instr
<1>1. V!valid /\ FramesOK
  BY DEF IInv, MachineOK
<1>2. /\ n \in 1 .. MAX_FRAMES /\ MP!Frame.func_id \in DOMAIN prog.functions
      /\ MP!LocalCount(MP!Frame) \in Nat
      /\ pc < Len(MP!Code) => MP!Instr \in MP!Instruction
  BY MP!RunningFacts, Assumptions DEF IInv
<1>3. n \in Nat \ {0} /\ f \in DOMAIN prog.functions /\ f = MP!Frame.func_id
  BY <1>2 DEF MP!Frame
<1>4. pc \in DOMAIN states[f] /\ OwnOperands(n) >= s.depth
  <2>1. FrameOK(n)
    BY <1>1, <1>3 DEF FramesOK
  <2>2. pc \in DOMAIN states[f]
    BY <2>1 DEF FrameOK, PcOf
  <2>3. s.depth \in Nat
    BY <1>1, <1>3, <2>2, FunctionCovered DEF IInv
  <2>4. ReportedDepth(n) = s.depth - 0
    BY DEF ReportedDepth, StateOf, PcOf
  <2> QED
    BY <2>1, <2>2, <2>3, <2>4 DEF FrameOK
<1>5. /\ pc \in Nat /\ pc < Len(prog.instructions) /\ s.depth \in Nat
      /\ \E i \in 1 .. Len(order) : order[i] = f /\ VP!Sound(i, pc, states[f])
  BY <1>1, <1>3, <1>4, FunctionCovered DEF IInv
<1>6. PICK i \in 1 .. Len(order) : order[i] = f /\ VP!Sound(i, pc, states[f])
  BY <1>5
<1>7. ins = prog.instructions[pc + 1] /\ ins \in MP!Instruction /\ pc < Len(MP!Code)
  BY <1>2, <1>5 DEF MP!Instr, MP!Code
<1>8. /\ VP!OperandsOK(i, ins)
      /\ s.depth >= VP!Pops(ins)
      /\ \A k \in DOMAIN VP!Successors(ins, pc) :
           LET t == VP!Successors(ins, pc)[k]
           IN  /\ t \in DOMAIN states[f]
               /\ states[f][t].depth = VP!After(ins, s).depth
  BY <1>6, <1>7 DEF VP!Sound, VP!Code
<1>9. MP!WellFormed
  BY <1>2, <1>3, <1>6, <1>7, <1>8, AcceptedWellFormed
<1>10. s.depth >= MP!Popped(ins) /\ MP!Pushed(ins) \in Nat
  BY <1>8, SameEffects DEF MP!Pushed
<1>11. MP!Popped(ins) \in Nat
  <2>1. CASE ins.opcode = "Call"
    <3>1. /\ MP!arg1 \in DOMAIN prog.functions
          /\ MP!arg2 = prog.functions[MP!arg1].param_count
      BY <1>9, <2>1 DEF MP!WellFormed, MP!Callee
    <3>2. prog.functions[MP!arg1] \in MP!FunctionInfo
      BY <3>1 DEF IInv, MP!IInv, MP!ControlOK, MP!IsProgram
    <3> QED
      BY <2>1, <3>1, <3>2 DEF MP!Popped, MP!FunctionInfo, MP!arg2, MP!BinaryOps,
         MP!Arithmetic, MP!Comparisons
  <2>2. CASE ins.opcode # "Call"
    BY <2>2 DEF MP!Popped
  <2> QED
    BY <2>1, <2>2
<1>12. Len(stack) >= s.depth
  <2>1. operand_base[n] \in Nat /\ Len(stack) \in Nat
    BY <1>1, <1>3 DEF FramesOK, IInv, MP!IInv, MP!DataOK
  <2> QED
    BY <1>4, <1>5, <2>1 DEF OwnOperands
<1>13. MP!Guarded
  <2>1. Len(stack) \in Nat
    BY DEF IInv, MP!IInv, MP!DataOK
  <2>2. Len(stack) >= MP!Popped(ins)
    <3>1. PICK d \in Nat : d = s.depth
      BY <1>5
    <3>2. PICK k \in Nat : k = MP!Popped(ins)
      BY <1>11
    <3> QED
      BY <1>10, <1>12, <2>1, <3>1, <3>2
  <2> QED
    BY <1>7, <1>9, <2>2 DEF MP!Guarded
<1>14. VP!After(ins, s).depth = s.depth - MP!Popped(ins) + MP!Pushed(ins)
  BY SameEffects DEF VP!After
<1>15. ASSUME ins.opcode \notin {"Call", "Return", "Halt"}, NEW t \in MP!Targets
       PROVE  /\ t \in DOMAIN states[f]
              /\ states[f][t].depth = s.depth - MP!Popped(ins) + MP!Pushed(ins)
  <2>1. \E k \in DOMAIN VP!Successors(ins, pc) : VP!Successors(ins, pc)[k] = t
    BY <1>15, TargetsAreSuccessors
  <2> QED
    BY <1>8, <1>14, <2>1
<1>16. ASSUME ins.opcode = "Call"
       PROVE  /\ MP!arg1 \in DOMAIN prog.functions
              /\ MP!Popped(ins) = MP!arg2
              /\ pc + 1 \in DOMAIN states[f]
              /\ states[f][pc + 1].depth = s.depth - MP!arg2 + 1
  <2>1. VP!Successors(ins, pc) = <<pc + 1>>
    BY <1>16 DEF VP!Successors, VP!Jumps
  <2>2. MP!Popped(ins) = MP!arg2 /\ MP!Pushed(ins) = 1
    BY <1>16 DEF MP!Popped, MP!Pushed, MP!arg2, MP!BinaryOps, MP!Arithmetic,
       MP!Comparisons, MP!Jumps
  <2>3. 1 \in DOMAIN VP!Successors(ins, pc) /\ VP!Successors(ins, pc)[1] = pc + 1
    BY <2>1
  <2> QED
    BY <1>8, <1>9, <1>14, <1>16, <2>2, <2>3 DEF MP!WellFormed
<1>17. ins.opcode = "Return" => s.depth >= 1
  BY <1>8 DEF VP!Pops, VP!BinaryOps, VP!Arithmetic, VP!Comparisons, VP!Allocations
<1> QED
  BY <1>1, <1>3, <1>4, <1>5, <1>10, <1>11, <1>13, <1>15, <1>16, <1>17

(***************************************************************************)
(* The frames behind a step of the machine.                                *)
(***************************************************************************)

\* operand_base follows the call stack.
Bases == operand_base' = IF Len(call_stack') > Len(call_stack)
                         THEN Append(operand_base, Len(stack'))
                         ELSE SubSeq(operand_base, 1, Len(call_stack'))

\* A frame whose place and operands stay as they are.
LEMMA FrameStays ==
  ASSUME UNCHANGED <<prog, states>>, NEW k \in Nat, FrameOK(k),
         call_stack'[k].func_id = call_stack[k].func_id,
         PcOf(k)' = PcOf(k), OwnOperands(k)' = OwnOperands(k),
         (k = Len(call_stack')) <=> (k = Len(call_stack)),
         k < Len(call_stack') => k < Len(call_stack)
  PROVE  FrameOK(k)'
PROOF
<1>1. BalancedReturns' = BalancedReturns
  BY DEF BalancedReturns
<1>2. StateOf(k)' = StateOf(k)
  BY DEF StateOf
<1>3. ReportedDepth(k)' = ReportedDepth(k)
  BY <1>2 DEF ReportedDepth
<1> QED
  BY <1>1, <1>2, <1>3 DEF FrameOK

\* The operands a frame owns and the depth of its state grow together.
LEMMA Together ==
  ASSUME NEW len \in Nat, NEW base \in Nat, NEW depth \in Nat, NEW pops \in Nat,
         NEW pushes \in Nat
  PROVE  /\ len - base >= depth =>
              (len - pops + pushes) - base >= depth - pops + pushes
         /\ len - base = depth =>
              (len - pops + pushes) - base = depth - pops + pushes
OBVIOUS

\* Execution begins with main's frame and an empty stack.
LEMMA EntersMain ==
  ASSUME IInv, V!valid, MP!EnterMain, Bases, UNCHANGED states
  PROVE  FramesOK'
PROOF
<1> DEFINE main == prog.main_func_id
<1>1. /\ status = "new" /\ prog' = prog /\ stack' = stack /\ status' = "running"
      /\ pc' = prog.functions[main].entry_pc
      /\ call_stack' = <<[return_pc |-> USIZE_MAX, base_ptr |-> 0, func_id |-> main]>>
      /\ MP!PreflightTraps(prog) = {}
  BY DEF MP!EnterMain
<1>2. stack = << >> /\ call_stack = << >> /\ operand_base = << >>
  BY <1>1 DEF IInv, MachineOK
<1>3. /\ Len(call_stack) = 0 /\ Len(call_stack') = 1 /\ Len(stack') = 0
      /\ call_stack'[1].func_id = main
  BY <1>1, <1>2
<1>4. operand_base' = <<0>>
  BY <1>2, <1>3 DEF Bases
<1>5. operand_base' \in Seq(Nat) /\ Len(operand_base') = 1 /\ operand_base'[1] = 0
  BY <1>4
<1>6. main \in DOMAIN prog.functions
  <2>1. MP!PreflightTraps(prog) # {"InvalidInstruction"}
    BY <1>1
  <2> QED
    BY <1>1 DEF MP!PreflightTraps
<1>7. /\ pc' \in DOMAIN states[main] /\ states[main][pc'].depth = 0
  BY <1>1, <1>6, FunctionCovered DEF IInv
<1>8. FrameOK(1)'
  <2>1. PcOf(1)' = pc' /\ OwnOperands(1)' = 0
    BY <1>3, <1>5 DEF PcOf, OwnOperands
  <2>2. StateOf(1)' = states[main][pc']
    BY <1>3, <2>1 DEF StateOf
  <2>3. ReportedDepth(1)' = 0
    BY <1>3, <1>7, <2>2 DEF ReportedDepth
  <2> QED
    BY <1>3, <1>7, <2>1, <2>3 DEF FrameOK
<1> QED
  BY <1>3, <1>5, <1>8 DEF FramesOK

\* An instruction of the frame on top.
LEMMA MovesFrames ==
  ASSUME IInv, status = "running", MP!Moves, Bases, UNCHANGED states
  PROVE  FramesOK'
PROOF
<1>0. PICK n : n = Len(call_stack)
  OBVIOUS
<1> DEFINE f   == call_stack[n].func_id
           own == operand_base[n]
<1>1. /\ prog' = prog /\ call_stack' = call_stack
      /\ Len(stack') = Len(stack) - MP!Popped(MP!Instr) + MP!Pushed(MP!Instr)
      /\ pc' \in MP!Targets /\ MP!Instr.opcode \notin {"Call", "Return", "Halt"}
  BY DEF MP!Moves, MP!Stays
<1>2. /\ n \in Nat \ {0} /\ pc \in DOMAIN states[f] /\ states[f][pc].depth \in Nat
      /\ MP!Popped(MP!Instr) \in Nat /\ MP!Pushed(MP!Instr) \in Nat
      /\ pc' \in DOMAIN states[f]
      /\ states[f][pc'].depth =
           states[f][pc].depth - MP!Popped(MP!Instr) + MP!Pushed(MP!Instr)
  BY <1>0, <1>1, TopFrame
<1>3. FramesOK /\ operand_base \in Seq(Nat) /\ Len(operand_base) = n
  BY <1>0 DEF IInv, MachineOK, FramesOK
<1>4. operand_base' = operand_base
  <2>1. ~(Len(call_stack') > Len(call_stack)) /\ Len(call_stack') = n
    BY <1>0, <1>1, <1>2
  <2>2. operand_base' = SubSeq(operand_base, 1, n)
    BY <2>1 DEF Bases
  <2> QED
    BY <1>3, <2>2
<1>5. Len(stack) \in Nat /\ own \in Nat
  BY <1>2, <1>3 DEF IInv, MP!IInv, MP!DataOK
<1>6. ASSUME NEW k \in 1 .. n PROVE FrameOK(k)'
  <2>1. FrameOK(k)
    BY <1>0, <1>3 DEF FramesOK
  <2>2. CASE k # n
    <3>1. PcOf(k)' = PcOf(k) /\ OwnOperands(k)' = OwnOperands(k)
      BY <1>0, <1>1, <1>4, <2>2 DEF PcOf, OwnOperands
    <3> QED
      BY <1>1, <1>2, <2>1, <3>1, FrameStays
  <2>3. CASE k = n
    <3>1. /\ PcOf(k) = pc /\ PcOf(k)' = pc'
          /\ OwnOperands(k) = Len(stack) - own /\ OwnOperands(k)' = Len(stack') - own
      BY <1>0, <1>1, <1>4, <2>3 DEF PcOf, OwnOperands
    <3>2. StateOf(k) = states[f][pc] /\ StateOf(k)' = states[f][pc']
      BY <1>1, <2>3, <3>1 DEF StateOf
    <3>3. /\ ReportedDepth(k) = states[f][pc].depth
          /\ ReportedDepth(k)' = states[f][pc'].depth
      <4>1. /\ ReportedDepth(k) = states[f][pc].depth - 0
            /\ ReportedDepth(k)' = states[f][pc'].depth - 0
        BY <1>0, <1>1, <2>3, <3>2 DEF ReportedDepth
      <4>2. states[f][pc'].depth \in Int
        BY <1>2
      <4> QED
        BY <1>2, <4>1, <4>2
    <3>4. BalancedReturns' = BalancedReturns
      BY <1>1 DEF BalancedReturns
    <3>5. /\ OwnOperands(k) >= ReportedDepth(k) => OwnOperands(k)' >= ReportedDepth(k)'
          /\ OwnOperands(k) = ReportedDepth(k) => OwnOperands(k)' = ReportedDepth(k)'
      <4> DEFINE len    == Len(stack)
                 depth  == states[f][pc].depth
                 pops   == MP!Popped(MP!Instr)
                 pushes == MP!Pushed(MP!Instr)
      <4>1. /\ OwnOperands(k) = len - own /\ ReportedDepth(k) = depth
            /\ OwnOperands(k)' = (len - pops + pushes) - own
            /\ ReportedDepth(k)' = depth - pops + pushes
        BY <1>1, <1>2, <3>1, <3>3
      <4>2. /\ len \in Nat /\ own \in Nat /\ depth \in Nat /\ pops \in Nat
            /\ pushes \in Nat
        BY <1>2, <1>5
      <4> HIDE DEF len, depth, pops, pushes, own
      <4> QED
        BY <4>1, <4>2, Together
    <3>6. /\ OwnOperands(k)' >= ReportedDepth(k)'
          /\ BalancedReturns => OwnOperands(k)' = ReportedDepth(k)'
      BY <2>1, <3>5 DEF FrameOK
    <3>7. ~(k < Len(call_stack'))
      BY <1>0, <1>1, <1>2, <2>3
    <3> QED
      BY <1>1, <1>2, <2>3, <3>1, <3>4, <3>5, <3>6, <3>7 DEF FrameOK
  <2> QED
    BY <2>2, <2>3
<1> QED
  BY <1>0, <1>1, <1>3, <1>4, <1>6 DEF FramesOK

\* A call: the caller keeps what is below the arguments and will find the
\* result on top of it; the callee starts at its entry with nothing.
LEMMA EntersFrames ==
  ASSUME IInv, status = "running", MP!Enters, Bases, UNCHANGED states
  PROVE  FramesOK'
PROOF
<1>0. PICK n : n = Len(call_stack)
  OBVIOUS
<1>a. PICK g : g = MP!arg1
  OBVIOUS
<1> DEFINE f     == call_stack[n].func_id
           own   == operand_base[n]
           len   == Len(stack)
           depth == states[f][pc].depth
           args  == MP!arg2
<1>1. /\ prog' = prog /\ call_stack' = Append(call_stack, MP!CalleeFrame)
      /\ Len(stack') = len - args
      /\ pc' = prog.functions[g].entry_pc /\ MP!Instr.opcode = "Call"
  BY <1>a DEF MP!Enters, MP!Stays, MP!Callee
<1>2. /\ n \in Nat \ {0} /\ pc \in DOMAIN states[f] /\ depth \in Nat
      /\ V!valid /\ args \in Nat /\ depth >= args
      /\ g \in DOMAIN prog.functions
      /\ pc + 1 \in DOMAIN states[f]
      /\ states[f][pc + 1].depth = depth - args + 1
  BY <1>0, <1>a, <1>1, TopFrame
<1>3. FramesOK /\ operand_base \in Seq(Nat) /\ Len(operand_base) = n
  BY <1>0 DEF IInv, MachineOK, FramesOK
<1>4. /\ Len(call_stack') = n + 1
      /\ \A k \in 1 .. n : call_stack'[k] = call_stack[k]
      /\ call_stack'[n + 1].return_pc = pc + 1
      /\ call_stack'[n + 1].func_id = g
  <2>1. call_stack \in Seq(MP!FrameType)
    BY DEF IInv, MP!IInv, MP!ControlOK
  <2>2. call_stack \in Seq(MP!FrameType \cup {MP!CalleeFrame})
    BY <2>1, SeqMonotonic
  <2>3. /\ Len(call_stack') = n + 1
        /\ \A k \in 1 .. n : call_stack'[k] = call_stack[k]
        /\ call_stack'[n + 1] = MP!CalleeFrame
    BY <1>0, <1>1, <2>2, AppendProperties
  <2> QED
    BY <1>a, <2>3 DEF MP!CalleeFrame
<1>5. len \in Nat /\ own \in Nat /\ len >= args
  <2>1. len \in Nat /\ own \in Nat
    BY <1>2, <1>3 DEF IInv, MP!IInv, MP!DataOK
  <2>2. len >= args
    BY <1>1, TopFrame DEF MP!Guarded
  <2> QED
    BY <2>1, <2>2
<1>6. /\ operand_base' \in Seq(Nat) /\ Len(operand_base') = n + 1
      /\ \A k \in 1 .. n : operand_base'[k] = operand_base[k]
      /\ operand_base'[n + 1] = len - args
  <2>1. Len(call_stack') > Len(call_stack)
    BY <1>0, <1>2, <1>4
  <2>2. operand_base' = Append(operand_base, len - args) /\ len - args \in Nat
    BY <1>1, <1>2, <1>5, <2>1 DEF Bases
  <2> HIDE DEF len, args
  <2> QED
    BY <1>2, <1>3, <2>2, AppendProperties
<1>7. BalancedReturns' = BalancedReturns
  BY <1>1 DEF BalancedReturns
<1>8. ASSUME NEW k \in 1 .. n, k # n PROVE FrameOK(k)'
  <2>1. FrameOK(k)
    BY <1>0, <1>3 DEF FramesOK
  <2>2. k \in Nat /\ k < n /\ k + 1 \in 1 .. n /\ k # n + 1
    BY <1>2, <1>8
  <2>3. PcOf(k)' = PcOf(k) /\ OwnOperands(k)' = OwnOperands(k)
    BY <1>0, <1>4, <1>6, <1>8, <2>2 DEF PcOf, OwnOperands
  <2> QED
    BY <1>0, <1>1, <1>2, <1>4, <2>1, <2>2, <2>3, FrameStays
<1>9. FrameOK(n)'
  <2>1. FrameOK(n) /\ n # n + 1 /\ n \in 1 .. n
    BY <1>0, <1>2, <1>3 DEF FramesOK
  <2>2. /\ PcOf(n) = pc /\ PcOf(n)' = pc + 1
        /\ OwnOperands(n) = len - own /\ OwnOperands(n)' = (len - args) - own
    BY <1>0, <1>2, <1>4, <1>6, <2>1 DEF PcOf, OwnOperands
  <2>3. StateOf(n) = states[f][pc] /\ StateOf(n)' = states[f][pc + 1]
    BY <1>4, <2>1, <2>2 DEF StateOf
  <2>4. /\ ReportedDepth(n) = depth - 0
        /\ ReportedDepth(n)' = states[f][pc + 1].depth - 1
    BY <1>0, <1>4, <2>1, <2>3 DEF ReportedDepth
  <2>5. StateOf(n)'.depth >= 1
    BY <1>2, <2>3
  <2>6. states[f][pc + 1].depth - 1 = depth - args
    BY <1>2
  <2>7. /\ OwnOperands(n) >= ReportedDepth(n) => OwnOperands(n)' >= ReportedDepth(n)'
        /\ OwnOperands(n) = ReportedDepth(n) => OwnOperands(n)' = ReportedDepth(n)'
    <3> HIDE DEF len, own, depth, args
    <3>1. OwnOperands(n)' = (len - args) - own /\ ReportedDepth(n)' = depth - args
      BY <2>2, <2>4, <2>6
    <3>2. OwnOperands(n) = len - own /\ ReportedDepth(n) = depth
      BY <1>2, <2>2, <2>4
    <3> QED
      BY <1>2, <1>5, <3>1, <3>2
  <2> QED
    BY <1>2, <1>4, <1>7, <2>1, <2>2, <2>5, <2>7 DEF FrameOK
<1>10. FrameOK(n + 1)'
  <2>1. PICK m : m = n + 1
    OBVIOUS
  <2>2. prog.functions[g].entry_pc \in DOMAIN states[g] /\ states[g][pc'].depth = 0
    BY <1>1, <1>2, FunctionCovered DEF IInv
  <2>3. PcOf(m)' = pc' /\ OwnOperands(m)' = (len - args) - (len - args)
    BY <1>1, <1>4, <1>6, <2>1 DEF PcOf, OwnOperands
  <2>4. OwnOperands(m)' = 0
    <3>1. len - args \in Int
      BY <1>2, <1>5
    <3> QED
      BY <2>3, <3>1
  <2>5. StateOf(m)' = states[g][pc']
    BY <1>4, <2>1, <2>3 DEF StateOf
  <2>6. ReportedDepth(m)' = 0
    BY <1>4, <2>1, <2>2, <2>5 DEF ReportedDepth
  <2>7. ~(m < Len(call_stack'))
    BY <1>2, <1>4, <2>1
  <2>8. FrameOK(m)'
    BY <1>1, <1>4, <2>1, <2>2, <2>3, <2>4, <2>6, <2>7 DEF FrameOK
  <2> QED
    BY <1>4, <1>6, <2>1, <2>2, <2>3, <2>4, <2>6, <2>7, <2>8
<1> QED
  BY <1>2, <1>4, <1>6, <1>8, <1>9, <1>10 DEF FramesOK

\* A return: the caller inherits whatever its callee owned, which is at least
\* the result it waits for.
LEMMA LeavesFrames ==
  ASSUME IInv, status = "running", MP!Leaves, Bases, UNCHANGED states
  PROVE  FramesOK'
PROOF
<1>0. PICK n : n = Len(call_stack)
  OBVIOUS
<1>a. PICK m : m = n - 1
  OBVIOUS
<1> DEFINE f     == call_stack[n].func_id
           len   == Len(stack)
           depth == states[f][pc].depth
<1>1. /\ prog' = prog /\ call_stack' = SubSeq(call_stack, 1, Len(call_stack) - 1)
      /\ stack' = stack /\ Len(call_stack) > 1
      /\ pc' = call_stack[n].return_pc /\ MP!Instr.opcode = "Return"
  BY <1>0 DEF MP!Leaves, MP!Stays, MP!Frame
<1>2. /\ n \in Nat \ {0} /\ f \in DOMAIN prog.functions
      /\ pc \in DOMAIN states[f] /\ depth \in Nat /\ V!valid /\ depth >= 1
  BY <1>0, <1>1, TopFrame
<1>3. FramesOK /\ operand_base \in Seq(Nat) /\ Len(operand_base) = n
  BY <1>0 DEF IInv, MachineOK, FramesOK
<1>4. m \in Nat \ {0} /\ m + 1 = n /\ m < n /\ m # n /\ m \in 1 .. n
  BY <1>0, <1>a, <1>1, <1>2
<1>5. Len(call_stack') = m /\ \A k \in 1 .. m : call_stack'[k] = call_stack[k]
  <2>1. call_stack \in Seq(MP!FrameType)
    BY DEF IInv, MP!IInv, MP!ControlOK
  <2> QED
    BY <1>0, <1>a, <1>1, <1>4, <2>1
<1>6. /\ operand_base' \in Seq(Nat) /\ Len(operand_base') = m
      /\ \A k \in 1 .. m : operand_base'[k] = operand_base[k]
  <2>1. ~(Len(call_stack') > Len(call_stack))
    BY <1>0, <1>4, <1>5
  <2>2. operand_base' = SubSeq(operand_base, 1, m)
    BY <1>5, <2>1 DEF Bases
  <2> QED
    BY <1>3, <1>4, <2>2
<1>7. ASSUME NEW k \in 1 .. m, k # m PROVE FrameOK(k)'
  <2>1. k \in Nat /\ k < m /\ k + 1 \in 1 .. m /\ k # n /\ k < n /\ k \in 1 .. n
    BY <1>4, <1>7
  <2>2. FrameOK(k)
    BY <1>0, <1>3, <2>1 DEF FramesOK
  <2>3. PcOf(k)' = PcOf(k) /\ OwnOperands(k)' = OwnOperands(k)
    BY <1>0, <1>5, <1>6, <1>7, <2>1 DEF PcOf, OwnOperands
  <2> QED
    BY <1>0, <1>1, <1>5, <1>7, <2>1, <2>2, <2>3, FrameStays
<1>8. FrameOK(m)'
  <2> DEFINE g     == call_stack[m].func_id
             below == states[g][pc'].depth
             own   == operand_base[m]
             base  == operand_base[n]
  <2>1. FrameOK(m) /\ FrameOK(n)
    BY <1>0, <1>2, <1>3, <1>4 DEF FramesOK
  <2>2. len \in Nat /\ own \in Nat /\ base \in Nat
    BY <1>2, <1>3, <1>4 DEF IInv, MP!IInv, MP!DataOK
  <2>3. /\ PcOf(m) = pc' /\ PcOf(m)' = pc'
        /\ OwnOperands(m) = base - own /\ OwnOperands(n) = len - base
        /\ OwnOperands(m)' = len - own
    BY <1>0, <1>1, <1>4, <1>5, <1>6 DEF PcOf, OwnOperands
  <2>4. /\ StateOf(m) = states[g][pc'] /\ StateOf(m)' = states[g][pc']
        /\ StateOf(n) = states[f][pc]
    BY <1>0, <1>4, <1>5, <2>3 DEF StateOf, PcOf
  <2>5. /\ ReportedDepth(m) = below - 1 /\ ReportedDepth(m)' = below - 0
        /\ ReportedDepth(n) = depth - 0
    BY <1>0, <1>4, <1>5, <2>4 DEF ReportedDepth
  <2>6. pc' \in DOMAIN states[g] /\ below \in Nat
    <3>1. pc' \in DOMAIN states[g]
      BY <2>1, <2>3 DEF FrameOK
    <3>2. g \in DOMAIN prog.functions
      <4>1. status # "new"
        OBVIOUS
      <4> QED
        BY <1>0, <1>4 DEF IInv, MP!IInv, MP!FrameLayout
    <3> QED
      BY <1>2, <3>1, <3>2, FunctionCovered DEF IInv
  <2>7. BalancedReturns' = BalancedReturns
    BY <1>1 DEF BalancedReturns
  <2>8. BalancedReturns => depth = 1
    <3>1. f \in DOMAIN states
      BY <1>2 DEF IInv, VP!IInv, VP!StatesOK
    <3>2. prog.instructions[pc + 1].opcode = "Return"
      BY <1>1 DEF MP!Instr, MP!Code
    <3> QED
      BY <1>2, <3>1, <3>2 DEF BalancedReturns
  <2>9. /\ base - own >= below - 1 /\ len - base >= depth
        /\ BalancedReturns => base - own = below - 1 /\ len - base = 1
    <3> HIDE DEF len, depth, below, own, base
    <3> QED
      BY <1>2, <2>1, <2>3, <2>5, <2>8 DEF FrameOK
  <2>10. len - own >= below /\ (BalancedReturns => len - own = below)
    <3> HIDE DEF len, depth, below, own, base
    <3> QED
      BY <1>2, <2>2, <2>6, <2>9
  <2>11. OwnOperands(m)' = len - own /\ ReportedDepth(m)' = below
    <3> HIDE DEF len, below, own
    <3> QED
      BY <2>3, <2>5, <2>6
  <2>12. ~(m < Len(call_stack'))
    BY <1>4, <1>5
  <2> QED
    BY <1>4, <1>5, <2>3, <2>6, <2>7, <2>10, <2>11, <2>12 DEF FrameOK
<1> QED
  BY <1>4, <1>5, <1>6, <1>7, <1>8 DEF FramesOK

(***************************************************************************)
(* Every step keeps the invariant.                                         *)
(***************************************************************************)
LEMMA InitHolds == Init => IInv
PROOF
<1> SUFFICES ASSUME Init PROVE IInv
  OBVIOUS
<1>1. VP!Init /\ MP!Init
  BY SameVerdict, SameNew DEF Init, VP!Init, MP!Init
<1>2. VP!IInv /\ VP!ReportOK /\ MP!IInv
  BY <1>1, VP!NewHolds, VP!NewReported, MP!InitOK, Assumptions
<1>3. /\ status = "new" /\ trap_code = "None" /\ operand_base = << >>
      /\ stack = << >> /\ call_stack = << >>
  BY DEF Init, M!New
<1>4. MachineOK /\ NoStructuralTrap
  BY <1>3 DEF MachineOK, NoStructuralTrap
<1> QED
  BY <1>2, <1>4 DEF IInv

\* A step of the verifier: the machine has not started, or the report is out.
LEMMA VerifyStepHolds == ASSUME IInv, VerifyStep PROVE IInv'
PROOF
<1>1. V!Verify /\ UNCHANGED <<m_vars, operand_base>>
  BY DEF VerifyStep
<1>2. VP!IInv /\ VP!ReportOK
  BY DEF IInv
<1>3. VP!IInv' /\ VP!ReportOK' /\ prog' = prog /\ phase # "done"
  <2>1. CASE V!CheckMetadata
    <3>1. VP!CheckMetadata
      BY <2>1, SameCheckMetadata
    <3> QED
      BY <1>2, <3>1, VP!MetadataKeeps, VP!MetadataReported, Assumptions
         DEF VP!CheckMetadata
  <2>2. CASE V!EnterFunction
    <3>1. VP!EnterFunction
      BY <2>2, SameEnterFunction
    <3> QED
      BY <1>2, <3>1, VP!EnterKeeps, VP!EnterReported, Assumptions
         DEF VP!EnterFunction
  <2>3. CASE V!LeaveRange \/ V!RejectInstruction
    <3>1. VP!LeaveRange \/ VP!RejectInstruction
      BY <2>3, SameLeaveRange, SameRejectInstruction
    <3>2. prog' = prog /\ phase # "done"
      BY <3>1 DEF VP!LeaveRange, VP!RejectInstruction, VP!Dequeue
    <3> QED
      BY <1>2, <3>1, <3>2, VP!ErrorKeeps, VP!ErrorReported, Assumptions
  <2>4. CASE V!StepInstruction
    <3>1. VP!StepInstruction
      BY <2>4, SameStepInstruction
    <3>2. prog' = prog /\ phase # "done"
      BY <3>1 DEF VP!StepInstruction, VP!Dequeue
    <3> QED
      BY <1>2, <3>1, <3>2, VP!StepKeeps, VP!StepReported, Assumptions
  <2>5. CASE V!Report
    <3>1. /\ phase = "functions" /\ worklist = << >> /\ at = Len(order)
          /\ phase' = "done"
          /\ UNCHANGED <<prog, order, at, states, worklist, errors, max_stack_depth>>
      BY <2>5 DEF V!Report
    <3> QED
      BY <1>2, <3>1, VP!ReportKeeps, VP!DoneReported, Assumptions
  <2> QED
    BY <1>1, <2>1, <2>2, <2>3, <2>4, <2>5 DEF V!Verify
<1>4. status = "new"
  BY <1>3 DEF IInv, MachineOK, V!valid
<1>5. MP!IInv'
  <2>1. UNCHANGED MP!vars
    BY <1>1, <1>3 DEF m_vars, MP!vars
  <2> QED
    BY <2>1, MP!NextOK, Assumptions DEF IInv
<1>6. MachineOK' /\ NoStructuralTrap'
  BY <1>1, <1>3, <1>4 DEF IInv, MachineOK, NoStructuralTrap, m_vars, MP!IInv, MP!ControlOK
<1> QED
  BY <1>3, <1>5, <1>6 DEF IInv

\* A step of the machine, on a program with a valid report.
LEMMA RunStepHolds == ASSUME IInv, RunStep PROVE IInv'
PROOF
<1>1. V!valid /\ MP!Next /\ Bases /\ UNCHANGED v_vars
  BY SameNext DEF RunStep, Bases
<1>2. /\ VP!IInv /\ VP!ReportOK /\ MP!IInv /\ MachineOK /\ NoStructuralTrap
      /\ phase = "done" /\ worklist = << >> /\ at = Len(order)
  BY <1>1 DEF IInv, V!valid, VP!ReportOK
<1>3. MP!IInv'
  BY <1>1, <1>2, MP!NextOK, Assumptions
<1>4. ASSUME prog' = prog PROVE VP!IInv' /\ VP!ReportOK' /\ V!valid'
  <2>1. UNCHANGED <<phase, order, at, states, worklist, errors, max_stack_depth>>
    BY <1>1 DEF v_vars
  <2>2. VP!IInv'
    BY <1>2, <1>4, <2>1, VP!ReportKeeps, Assumptions
  <2>3. VP!ReportOK'
    BY <1>2, <1>4, <2>1, VP!DoneReported, Assumptions
  <2> QED
    BY <1>1, <2>1, <2>2, <2>3 DEF V!valid
<1>5. states' = states
  BY <1>1 DEF v_vars
<1>6. status \in {"new", "running"} => trap_code = "None"
  BY <1>2 DEF MP!IInv, MP!ControlOK
<1>7. ASSUME prog' = prog, trap_code' = trap_code, status' # "new",
             status' = "running" => FramesOK', status \in {"new", "running"}
      PROVE  IInv'
  <2>1. NoStructuralTrap'
    BY <1>6, <1>7 DEF NoStructuralTrap
  <2>2. MachineOK'
    BY <1>4, <1>7 DEF MachineOK
  <2> QED
    BY <1>3, <1>4, <1>7, <2>1, <2>2 DEF IInv
<1>8. CASE status = "new"
  <2>1. MP!PreflightTraps(prog) = {}
    BY <1>1, <1>2, ValidPassesPreflight
  <2>2. MP!EnterMain
    <3>1. ~MP!RejectProgram
      BY <2>1 DEF MP!RejectProgram
    <3> QED
      BY <1>1, <1>8, <3>1, MP!NewStarts, Assumptions
  <2>3. FramesOK'
    BY <1>1, <1>5, <2>2, EntersMain
  <2>4. prog' = prog /\ trap_code' = trap_code /\ status' = "running"
    BY <2>2 DEF MP!EnterMain
  <2> QED
    BY <1>7, <1>8, <2>3, <2>4
<1>9. CASE status = "running"
  <2>1. MP!Outcome
    <3>1. MP!Guarded
      BY <1>9, TopFrame
    <3> QED
      BY <1>1, <1>2, <1>9, <3>1, MP!GuardedStep, Assumptions
  <2>2. CASE MP!Traps
    <3>1. /\ status' = "trapped" /\ pc' = pc /\ prog' = prog
          /\ MP!DataTrap(trap_code')
      BY <2>2 DEF MP!Traps
    <3>2. M!Instr' = M!Instr /\ M!Instr = MP!Instr
      BY <3>1 DEF M!Instr, M!Code, MP!Instr, MP!Code
    <3>3. MP!LocalArrays = V!LocalArrayOps
      BY DEF MP!LocalArrays, V!LocalArrayOps
    <3>4. NoStructuralTrap'
      <4>1. \/ trap_code' \in MP!DataTraps
            \/ trap_code' = "InvalidInstruction" /\ MP!Instr.opcode \in MP!LocalArrays
        BY <3>1 DEF MP!DataTrap
      <4>2. V!LocalArrayOps' = V!LocalArrayOps
        BY DEF V!LocalArrayOps
      <4> QED
        BY <3>2, <3>3, <4>1, <4>2 DEF NoStructuralTrap, MP!DataTraps
    <3>5. MachineOK'
      BY <1>4, <3>1 DEF MachineOK
    <3> QED
      BY <1>3, <1>4, <3>1, <3>4, <3>5 DEF IInv
  <2>3. CASE MP!Ends
    BY <1>7, <1>9, <2>3 DEF MP!Ends
  <2>4. CASE MP!Moves
    BY <1>1, <1>5, <1>7, <1>9, <2>4, MovesFrames DEF MP!Moves, MP!Stays
  <2>5. CASE MP!Enters
    BY <1>1, <1>5, <1>7, <1>9, <2>5, EntersFrames DEF MP!Enters, MP!Stays
  <2>6. CASE MP!Leaves
    BY <1>1, <1>5, <1>7, <1>9, <2>6, LeavesFrames DEF MP!Leaves, MP!Stays
  <2> QED
    BY <2>1, <2>2, <2>3, <2>4, <2>5, <2>6 DEF MP!Outcome
<1>10. CASE status \in MP!Final
  <2>1. MP!Done
    BY <1>1, <1>10, MP!FinalStays, Assumptions
  <2>2. prog' = prog /\ UNCHANGED <<status, trap_code, pc>>
    BY <2>1 DEF MP!Done, MP!vars
  <2>3. MachineOK'
    BY <1>4, <1>10, <2>2 DEF MachineOK, MP!Final
  <2>4. NoStructuralTrap'
    BY <1>2, <2>2 DEF NoStructuralTrap, M!Instr, M!Code, V!LocalArrayOps
  <2> QED
    BY <1>3, <1>4, <2>2, <2>3, <2>4 DEF IInv
<1>11. status \in {"new", "running"} \cup MP!Final
  BY <1>2 DEF MP!IInv, MP!ControlOK
<1> QED
  BY <1>8, <1>9, <1>10, <1>11

\* Nothing changes once a program is refused.
LEMMA StutterHolds == ASSUME IInv, UNCHANGED vars PROVE IInv'
PROOF
<1>1. UNCHANGED <<prog, v_vars, m_vars, operand_base>>
  BY DEF vars
<1>2. VP!IInv'
  BY <1>1, VP!ReportKeeps, Assumptions DEF IInv, v_vars
<1>3. VP!ReportOK'
  BY <1>1 DEF IInv, v_vars, VP!ReportOK, VP!DepthsReported, VP!ProgramErrors,
     VP!FunctionErrors, VP!BadFunction, VP!BadGlobals, VP!GlobalsOverlap, VP!SlotsOf,
     VP!Width, VP!Code, VP!Info
<1>4. MP!IInv'
  BY <1>1, MP!NextOK, Assumptions DEF IInv, m_vars, MP!vars
<1>5. MachineOK' /\ NoStructuralTrap'
  <2>1. ASSUME FramesOK PROVE FramesOK'
    BY <1>1, <2>1 DEF FramesOK, FrameOK, PcOf, StateOf, OwnOperands, ReportedDepth,
       BalancedReturns, v_vars, m_vars
  <2>2. V!valid' = V!valid
    BY <1>1 DEF V!valid, v_vars
  <2>3. MachineOK'
    BY <1>1, <2>1, <2>2 DEF IInv, MachineOK, m_vars
  <2>4. NoStructuralTrap'
    BY <1>1 DEF IInv, NoStructuralTrap, m_vars, M!Instr, M!Code, V!LocalArrayOps
  <2> QED
    BY <2>3, <2>4
<1> QED
  BY <1>2, <1>3, <1>4, <1>5 DEF IInv

\* IInv holds of the verifier and the machine it guards, for every program and
\* all limits (audit_source_core).
THEOREM Invariance == Spec => []IInv
PROOF
<1>1. Init => IInv
  BY InitHolds
<1>2. IInv /\ [Next]_vars => IInv'
  BY VerifyStepHolds, RunStepHolds, StutterHolds DEF Next, Refused
<1> QED
  BY <1>1, <1>2, PTL DEF Spec

\* The verifier's abstract stack depths cover every frame of a program it calls
\* valid: a frame is at a pc verify_function reached in its own function and
\* owns at least the operands reported there, exactly these and at most
\* max_stack_depth when every Return leaves nothing behind.
THEOREM FramesCovered == Spec => []DepthsCovered
PROOF
<1>1. IInv => DepthsCovered
  <2> SUFFICES ASSUME IInv, status = "running", NEW k \in 1 .. Len(call_stack)
               PROVE  /\ PcOf(k) \in DOMAIN states[call_stack[k].func_id]
                      /\ OwnOperands(k) >= ReportedDepth(k)
                      /\ BalancedReturns => /\ OwnOperands(k) = ReportedDepth(k)
                                            /\ OwnOperands(k) <= max_stack_depth
    BY DEF DepthsCovered
  <2>1. FrameOK(k) /\ V!valid
    BY DEF IInv, MachineOK, FramesOK
  <2>2. call_stack[k].func_id \in DOMAIN prog.functions
    BY DEF IInv, MP!IInv, MP!FrameLayout
  <2>3. PcOf(k) \in DOMAIN states[call_stack[k].func_id]
    BY <2>1 DEF FrameOK
  <2>4. StateOf(k).depth \in Nat /\ StateOf(k).depth <= max_stack_depth
    BY <2>1, <2>2, <2>3, FunctionCovered DEF IInv, StateOf
  <2>5. max_stack_depth \in Nat
    BY DEF IInv, VP!ReportOK, VP!DepthsReported
  <2>6. ReportedDepth(k) <= max_stack_depth
    BY <2>4, <2>5 DEF ReportedDepth
  <2> QED
    BY <2>1, <2>3, <2>6 DEF FrameOK
<1> QED
  BY <1>1, Invariance, PTL

\* A program with a valid report never meets the machine's checks for an empty
\* operand stack, a missing function, or a malformed instruction, slot or
\* target; only a local array operation may still meet an operand that is no
\* array base (verify and execute_instruction).
THEOREM NoStructuralTraps == Spec => []NoStructuralTrap
PROOF
<1>1. IInv => NoStructuralTrap
  BY DEF IInv
<1> QED
  BY <1>1, Invariance, PTL

\* docs/system-artifact.md, "Stack is balanced (push/pop match)": it is, in
\* every program whose Returns leave nothing of their frames behind.  What the
\* verifier does not ask for is just that (Return in step_instruction).
THEOREM BalancedWhenReturnsAre == Spec => [](BalancedReturns => StackBalanced)
PROOF
<1>1. IInv => (BalancedReturns => StackBalanced)
  BY DEF IInv, MachineOK, FramesOK, FrameOK, StackBalanced
<1> QED
  BY <1>1, Invariance, PTL

(***************************************************************************)
(* The call stack follows the call edges of the report.  For this and for  *)
(* the data traps the records of the report are needed as well (RecordsOK  *)
(* of VerifierProofs).                                                     *)
(***************************************************************************)
CallsRecorded ==
  /\ call_stack # << >> => call_stack[1].func_id = prog.main_func_id
  /\ \A k \in 1 .. Len(call_stack) : k + 1 \in 1 .. Len(call_stack) =>
       <<call_stack[k].func_id, call_stack[k + 1].func_id>> \in call_edges

\* max_frame_depth and jit_status of the two instances.
LEMMA SameReport == V!Report => VP!Report
PROOF
<1>1. V!visit = VP!visit
  BY ZenonT(30) DEF V!visit, VP!visit, V!Deepest, VP!Deepest, V!Largest, VP!Largest,
     V!Callees, VP!Callees, V!Unbounded, VP!Unbounded
<1>2. \A traps : V!JitStatus(traps) <=> VP!JitStatus(traps)
  BY DEF V!JitStatus, VP!JitStatus, V!Cardinality, VP!Cardinality, V!IsFiniteSet,
     VP!IsFiniteSet, V!Info, VP!Info, V!Code, VP!Code, V!JitOpcodes, VP!JitOpcodes,
     V!Comparisons, VP!Comparisons, V!UnaryOps, VP!UnaryOps
<1> QED
  BY <1>1, <1>2 DEF V!Report, VP!Report, V!Unbounded, VP!Unbounded

\* No step changes the program.
LEMMA ProgramKept == MP!Next => prog' = prog
  BY DEF MP!Next, MP!RejectProgram, MP!EnterMain, MP!LoopTrap, MP!Execute, MP!LoadConst,
     MP!LoadLocal, MP!StoreLocal, MP!LoadGlobal, MP!StoreGlobal, MP!Binary, MP!Unary,
     MP!ArithmeticPanic, MP!Jump, MP!Branch, MP!Call, MP!Return, MP!ArrayLoad,
     MP!ArrayStore, MP!LocalArrayLoad, MP!LocalArrayStore, MP!Alloc, MP!PrintTop, MP!Pop,
     MP!Dup, MP!Halt, MP!Fetch, MP!Done, MP!vars

\* The verifier's records are kept by its own steps and by the machine's.
LEMMA RecordsKept ==
  ASSUME IInv, VP!RecordsOK, [Next]_vars
  PROVE  VP!RecordsOK'
PROOF
<1>1. VP!IInv /\ VP!ReportOK
  BY DEF IInv
<1>2. CASE VerifyStep
  <2>1. V!Verify
    BY <1>2 DEF VerifyStep
  <2>2. CASE V!CheckMetadata
    BY <1>1, <2>2, SameCheckMetadata, VP!MetadataRecorded, Assumptions
  <2>3. CASE V!EnterFunction
    BY <1>1, <2>3, SameEnterFunction, VP!EnterRecorded, Assumptions
  <2>4. CASE V!LeaveRange \/ V!RejectInstruction
    BY <1>1, <2>4, SameLeaveRange, SameRejectInstruction, VP!ErrorRecorded, Assumptions
  <2>5. CASE V!StepInstruction
    BY <1>1, <2>5, SameStepInstruction, VP!StepRecorded, Assumptions
  <2>6. CASE V!Report
    BY <1>1, <2>6, SameReport, VP!ReportRecorded, Assumptions
  <2> QED
    BY <2>1, <2>2, <2>3, <2>4, <2>5, <2>6 DEF V!Verify
<1>3. CASE RunStep
  <2>1. UNCHANGED v_vars /\ M!Next
    BY <1>3 DEF RunStep
  <2>2. prog' = prog
    BY <2>1, SameNext, ProgramKept
  <2>3. UNCHANGED VP!vars
    BY <2>1, <2>2 DEF v_vars, VP!vars
  <2> QED
    BY <2>3, VP!RecordsStay, Assumptions
<1>4. CASE UNCHANGED vars
  <2>1. UNCHANGED VP!vars
    BY <1>4 DEF vars, v_vars, VP!vars
  <2> QED
    BY <2>1, VP!RecordsStay, Assumptions
<1> QED
  BY <1>2, <1>3, <1>4 DEF Next, Refused

\* What a valid report has noted of the instruction at pc.
LEMMA InstructionNoted ==
  ASSUME IInv, VP!RecordsOK, status = "running"
  PROVE  LET f == call_stack[Len(call_stack)].func_id
         IN  VP!Noted(f, pc)
PROOF
<1> DEFINE n == Len(call_stack)
           f == call_stack[n].func_id
<1>1. V!valid /\ n \in Nat \ {0} /\ f \in DOMAIN prog.functions /\ pc \in DOMAIN states[f]
  BY TopFrame
<1>2. PICK i \in 1 .. Len(order) : order[i] = f
  BY <1>1, FunctionCovered DEF IInv
<1>3. /\ phase = "done" /\ errors = {} /\ worklist = << >> /\ at = Len(order)
  BY <1>1 DEF V!valid, IInv, VP!ReportOK
<1>4. ~VP!Waiting(pc)
  BY <1>3 DEF VP!Waiting
<1> QED
  BY <1>1, <1>2, <1>3, <1>4 DEF VP!RecordsOK, VP!Recorded

\* A step of the machine follows the recorded calls.
LEMMA CallsFollowed ==
  ASSUME IInv, VP!RecordsOK, CallsRecorded, [Next]_vars
  PROVE  CallsRecorded'
PROOF
<1>0. call_stack \in Seq(MP!FrameType) /\ Len(call_stack) \in Nat
  BY DEF IInv, MP!IInv, MP!ControlOK
<1>1. CASE VerifyStep
  <2>1. UNCHANGED m_vars /\ V!Verify
    BY <1>1 DEF VerifyStep
  <2>2. phase # "done"
    BY <2>1 DEF V!Verify, V!CheckMetadata, V!EnterFunction, V!LeaveRange,
       V!RejectInstruction, V!StepInstruction, V!Report, V!Dequeue
  <2>3. call_stack = << >> /\ call_stack' = << >>
    BY <2>1, <2>2 DEF IInv, MachineOK, V!valid, m_vars
  <2> QED
    BY <2>3 DEF CallsRecorded
<1>2. CASE RunStep
  <2>1. UNCHANGED v_vars /\ MP!Next /\ V!valid
    BY <1>2, SameNext DEF RunStep
  <2>2. prog' = prog /\ call_edges' = call_edges
    BY <2>1, SameNext, ProgramKept DEF v_vars
  <2>3. CASE call_stack' = call_stack \/ call_stack' = << >>
    BY <2>2, <2>3 DEF CallsRecorded
  <2>4. CASE MP!EnterMain
    <3>1. call_stack' = <<[return_pc |-> USIZE_MAX, base_ptr |-> 0,
                           func_id |-> prog.main_func_id]>>
      BY <2>4 DEF MP!EnterMain
    <3>2. Len(call_stack') = 1 /\ call_stack'[1].func_id = prog.main_func_id
      BY <3>1
    <3> QED
      BY <2>2, <3>2 DEF CallsRecorded
  <2>5. CASE /\ status = "running" /\ MP!Instr.opcode = "Call"
             /\ call_stack' = Append(call_stack, MP!CalleeFrame)
    <3>0. PICK n : n = Len(call_stack)
      OBVIOUS
    <3> DEFINE f == call_stack[n].func_id
    <3>1. n \in Nat \ {0} /\ VP!Noted(f, pc)
      BY <2>5, <3>0, TopFrame, InstructionNoted
    <3>2. <<f, MP!arg1>> \in call_edges
      BY <2>5, <3>1 DEF VP!Noted, VP!Code, MP!Instr, MP!Code, MP!arg1
    <3>3. /\ Len(call_stack') = n + 1
          /\ \A k \in 1 .. n : call_stack'[k] = call_stack[k]
          /\ call_stack'[n + 1].func_id = MP!arg1
      <4>1. call_stack \in Seq(MP!FrameType \cup {MP!CalleeFrame})
        BY <1>0, SeqMonotonic
      <4>2. /\ Len(call_stack') = n + 1
            /\ \A k \in 1 .. n : call_stack'[k] = call_stack[k]
            /\ call_stack'[n + 1] = MP!CalleeFrame
        BY <2>5, <3>0, <4>1, AppendProperties
      <4> QED
        BY <4>2 DEF MP!CalleeFrame
    <3>4. call_stack # << >> /\ call_stack[1].func_id = prog.main_func_id
      BY <1>0, <3>0, <3>1 DEF CallsRecorded
    <3>5. ASSUME NEW k \in 1 .. n + 1, k + 1 \in 1 .. n + 1
          PROVE  <<call_stack'[k].func_id, call_stack'[k + 1].func_id>> \in call_edges
      <4>1. CASE k = n
        BY <3>1, <3>2, <3>3, <4>1
      <4>2. CASE k # n
        <5>1. k \in 1 .. n /\ k + 1 \in 1 .. n
          BY <3>1, <3>5, <4>2
        <5>2. <<call_stack[k].func_id, call_stack[k + 1].func_id>> \in call_edges
          BY <3>0, <5>1 DEF CallsRecorded
        <5> QED
          BY <3>3, <5>1, <5>2
      <4> QED
        BY <4>1, <4>2
    <3>6. call_stack'[1].func_id = prog.main_func_id
      BY <3>1, <3>3, <3>4
    <3> QED
      BY <2>2, <3>3, <3>5, <3>6 DEF CallsRecorded
  <2>6. CASE /\ Len(call_stack) > 1
             /\ call_stack' = SubSeq(call_stack, 1, Len(call_stack) - 1)
    <3>1. PICK m : m = Len(call_stack) - 1
      OBVIOUS
    <3>2. m \in Nat \ {0} /\ 1 \in 1 .. m
      BY <1>0, <2>6, <3>1
    <3>3. Len(call_stack') = m /\ \A k \in 1 .. m : call_stack'[k] = call_stack[k]
      BY <1>0, <2>6, <3>1, <3>2
    <3>4. call_stack # << >> /\ \A k \in 1 .. m : k \in 1 .. Len(call_stack)
      BY <1>0, <3>1, <3>2
    <3> QED
      BY <2>2, <3>2, <3>3, <3>4 DEF CallsRecorded
  <2> QED
    BY <2>1, <2>3, <2>4, <2>5, <2>6, MP!CallStackAfter, Assumptions
<1>3. CASE UNCHANGED vars
  BY <1>3 DEF vars, v_vars, m_vars, CallsRecorded
<1> QED
  BY <1>1, <1>2, <1>3 DEF Next, Refused

\* The frames of a recorded chain of calls are within the reported depth.
LEMMA WithinReport ==
  ASSUME IInv, VP!RecordsOK, CallsRecorded
  PROVE  FramesWithinReport
PROOF
<1>1. max_frame_depth \in Nat /\ VP!EdgesOK /\ prog \in Programs
  BY DEF IInv, VP!IInv, VP!RecordsOK, VP!RecordsTyped
<1>2. CASE call_stack = << >>
  BY <1>1, <1>2 DEF FramesWithinReport
<1>3. CASE call_stack # << >>
  <2> DEFINE s == [k \in 1 .. Len(call_stack) |-> call_stack[k].func_id]
  <2>1. call_stack \in Seq(MP!FrameType)
    BY DEF IInv, MP!IInv, MP!ControlOK
  <2>2. s \in Seq(Nat) /\ Len(s) = Len(call_stack) /\ s # << >>
    <3>1. PICK n \in Nat : n = Len(call_stack)
      BY <2>1
    <3>2. ASSUME NEW k \in 1 .. n PROVE call_stack[k].func_id \in Nat
      <4>1. PICK frame : frame = call_stack[k]
        OBVIOUS
      <4>2. frame \in MP!FrameType
        BY <2>1, <3>1, <4>1
      <4> QED
        BY <4>1, <4>2 DEF MP!FrameType
    <3>3. n # 0
      BY <1>3, <2>1, <3>1
    <3>4. s = [k \in 1 .. n |-> call_stack[k].func_id]
      BY <3>1
    <3> QED
      BY <3>1, <3>2, <3>3, <3>4
  <2>3. Len(call_stack) \in Nat \ {0} /\ s[1] = prog.main_func_id
    <3>1. Len(call_stack) \in Nat \ {0}
      BY <1>3, <2>1
    <3> QED
      BY <1>3, <3>1 DEF CallsRecorded
  <2>4. \A k \in 1 .. Len(s) : k + 1 \in 1 .. Len(s) => <<s[k], s[k + 1]>> \in call_edges
    BY <2>2 DEF CallsRecorded
  <2>5. max_frame_depth = VP!visit[<<s[1], {}>>]
    <3>1. V!valid
      BY <1>3 DEF IInv, MachineOK
    <3>2. phase = "done"
      BY <3>1 DEF V!valid
    <3> HIDE DEF s
    <3> QED
      BY <2>3, <3>2 DEF VP!RecordsOK, VP!Concluded
  <2> HIDE DEF s
  <2>6. max_frame_depth # VP!Unbounded => Len(s) <= max_frame_depth
    BY <1>1, <2>2, <2>4, <2>5, VP!ChainWithin, Assumptions
  <2> QED
    BY <2>2, <2>6 DEF FramesWithinReport, V!Unbounded, VP!Unbounded
<1> QED
  BY <1>2, <1>3

\* The records are kept in every behaviour (verify and the run behind it).
THEOREM RecordsHold == Spec => []VP!RecordsOK
PROOF
<1>1. Init => VP!RecordsOK
  <2>1. Init => VP!Init
    BY SameVerdict DEF Init, VP!Init
  <2> QED
    BY <2>1, VP!NewRecorded, Assumptions
<1>2. IInv /\ VP!RecordsOK /\ [Next]_vars => VP!RecordsOK'
  BY RecordsKept
<1> QED
  BY <1>1, <1>2, Invariance, PTL DEF Spec

\* The call stack of a program never grows beyond the depth the report gives,
\* whatever the program: calls happen only along the edges the verifier
\* collected, and its search of them found no longer chain (max_frame_depth).
THEOREM FrameDepthBounds == Spec => []FramesWithinReport
PROOF
<1>1. Init => CallsRecorded
  BY DEF Init, M!New, CallsRecorded
<1>2. IInv /\ VP!RecordsOK /\ CallsRecorded /\ [Next]_vars => CallsRecorded'
  BY CallsFollowed
<1>3. IInv /\ VP!RecordsOK /\ CallsRecorded => FramesWithinReport
  BY WithinReport
<1> QED
  BY <1>1, <1>2, <1>3, Invariance, RecordsHold, PTL DEF Spec

(***************************************************************************)
(* Data traps are announced.                                               *)
(***************************************************************************)
CheckedTraps == {"DivideByZero", "ArrayOutOfBounds"}

TrapsNoted == trap_code \in CheckedTraps => trap_code \in possible_traps

\* No step changes a trap code that is out: only a running machine traps.
LEMMA TrapComesOnce ==
  ASSUME IInv, [Next]_vars
  PROVE  \/ trap_code' = trap_code /\ possible_traps \subseteq possible_traps'
         \/ /\ UNCHANGED v_vars /\ MP!Next /\ V!valid
            /\ status \in {"new", "running"} /\ status' = "trapped"
PROOF
<1>1. CASE VerifyStep
  <2>1. possible_traps \subseteq possible_traps'
    BY <1>1 DEF VerifyStep, V!Verify, V!CheckMetadata, V!EnterFunction, V!LeaveRange,
       V!RejectInstruction, V!StepInstruction, V!Report
  <2> QED
    BY <1>1, <2>1 DEF VerifyStep, m_vars
<1>2. CASE RunStep
  <2>1. UNCHANGED v_vars /\ MP!Next /\ V!valid
    BY <1>2, SameNext DEF RunStep
  <2>2. possible_traps' = possible_traps
    BY <2>1 DEF v_vars
  <2>3. MP!IInv /\ MP!IInv'
    BY <1>2, RunStepHolds DEF IInv
  <2>4. CASE status \in MP!Final
    <3>1. MP!Done
      BY <2>1, <2>4, MP!FinalStays, Assumptions
    <3> QED
      BY <2>2, <3>1 DEF MP!Done, MP!vars
  <2>5. CASE status \notin MP!Final
    <3>1. status \in {"new", "running"} /\ trap_code = "None"
      BY <2>3, <2>5 DEF MP!IInv, MP!ControlOK, MP!Final
    <3>2. status' = "trapped" \/ trap_code' = "None"
      BY <2>3 DEF MP!IInv, MP!ControlOK
    <3> QED
      BY <2>1, <2>2, <3>1, <3>2
  <2> QED
    BY <2>4, <2>5
<1>3. CASE UNCHANGED vars
  BY <1>3 DEF vars, v_vars, m_vars
<1> QED
  BY <1>1, <1>2, <1>3 DEF Next, Refused

\* A trap of a running machine is one of the instruction at pc, which the report
\* has noted; a new machine with a valid report does not trap.
LEMMA TrapsAreNoted ==
  ASSUME IInv, VP!RecordsOK, UNCHANGED v_vars, MP!Next, V!valid,
         status \in {"new", "running"}, status' = "trapped"
  PROVE  /\ status = "running"
         /\ TrapsNoted'
         /\ trap_code' = "UndefinedLocal" /\ trap_code' \notin possible_traps'
              => LET n == Len(call_stack)
                 IN  /\ MP!arg1 \in states[call_stack[n].func_id][pc].init
                     /\ locals[MP!Slot(MP!arg1)] = MP!I64Min
PROOF
<1>1. status = "running"
  <2>1. MP!PreflightTraps(prog) = {}
    BY ValidPassesPreflight DEF IInv
  <2>2. CASE status = "new"
    <3>1. MP!RejectProgram \/ MP!EnterMain
      BY <2>2, MP!NewStarts, Assumptions
    <3> QED
      BY <2>1, <3>1 DEF MP!RejectProgram, MP!EnterMain
  <2> QED
    BY <2>2
<1>2. possible_traps' = possible_traps
  BY DEF v_vars
<1>3. MP!IInv
  BY DEF IInv
<1> DEFINE f   == call_stack[Len(call_stack)].func_id
           ins == MP!Instr
<1>4. VP!Noted(f, pc)
  BY <1>1, InstructionNoted
<1>5. /\ VP!OpcodeTraps(ins, pc) \subseteq possible_traps
      /\ VP!UndefinedUse(ins, states[f][pc]) => "UndefinedLocal" \in possible_traps
  BY <1>4 DEF VP!Noted, VP!Code, MP!Instr, MP!Code
<1>6. /\ trap_code' = "DivideByZero" => ins.opcode = "Div"
      /\ trap_code' = "ArrayOutOfBounds" =>
           ins.opcode \in {"ArrayLoad", "ArrayStore"} \cup MP!LocalArrays
      /\ trap_code' = "UndefinedLocal" =>
           /\ ins.opcode \in {"LoadLocal"} \cup MP!LocalArrays
           /\ locals[MP!Slot(MP!arg1)] = MP!I64Min
  BY <1>1, <1>3, MP!TrapKinds, Assumptions
<1>7. ins.opcode = "Div" => VP!OpcodeTraps(ins, pc) = {"DivideByZero"}
  BY DEF VP!OpcodeTraps, VP!GlobalArrayOps, VP!LocalArrayOps, VP!Jumps
<1>8. ins.opcode \in {"ArrayLoad", "ArrayStore"} \cup MP!LocalArrays =>
        VP!OpcodeTraps(ins, pc) = {"ArrayOutOfBounds"}
  BY DEF VP!OpcodeTraps, VP!GlobalArrayOps, VP!LocalArrayOps, MP!LocalArrays, VP!Jumps
<1>9. ins.opcode \in {"LoadLocal"} \cup MP!LocalArrays /\ MP!arg1 \notin states[f][pc].init =>
        VP!UndefinedUse(ins, states[f][pc])
  BY DEF VP!UndefinedUse, VP!LocalArrayOps, MP!LocalArrays, MP!arg1
<1>10. TrapsNoted'
  BY <1>2, <1>5, <1>6, <1>7, <1>8 DEF TrapsNoted, CheckedTraps
<1> QED
  BY <1>1, <1>2, <1>5, <1>6, <1>9, <1>10

\* A division by zero and an index out of bounds are in the report of every
\* program before they happen (push_trap in step_instruction).
THEOREM CheckedTrapsReported ==
  Spec => [](trap_code \in {"DivideByZero", "ArrayOutOfBounds"}
               => trap_code \in possible_traps)
PROOF
<1>1. Init => TrapsNoted
  BY DEF Init, M!New, TrapsNoted, CheckedTraps
<1>2. IInv /\ VP!RecordsOK /\ TrapsNoted /\ [Next]_vars => TrapsNoted'
  <2> SUFFICES ASSUME IInv, VP!RecordsOK, TrapsNoted, [Next]_vars PROVE TrapsNoted'
    OBVIOUS
  <2>1. CASE trap_code' = trap_code /\ possible_traps \subseteq possible_traps'
    BY <2>1 DEF TrapsNoted, CheckedTraps
  <2> QED
    BY <2>1, TrapComesOnce, TrapsAreNoted
<1>3. TrapsNoted => (trap_code \in {"DivideByZero", "ArrayOutOfBounds"}
                       => trap_code \in possible_traps)
  BY DEF TrapsNoted, CheckedTraps
<1> QED
  BY <1>1, <1>2, <1>3, Invariance, RecordsHold, PTL DEF Spec

(***************************************************************************)
(* Initialised locals.  Two things that verify does not look at are asked  *)
(* for.  main has no parameters: verify_function counts every parameter as *)
(* initialised, but run passes main nothing (the analyzer rejects such a   *)
(* main).  And local array loads go through the bases that AllocArray      *)
(* returned (ArraysBased): the analyzer never lets an array's name stand   *)
(* for a value, or a value for an array.                                   *)
(***************************************************************************)
MainTakesNothing ==
  prog.main_func_id \in DOMAIN prog.functions =>
    prog.functions[prog.main_func_id].param_count = 0

Disciplined == MP!ArraysBased /\ MainTakesNothing

LocalsDefined(k) ==
  \A s \in StateOf(k).init : locals[call_stack[k].base_ptr + s + 1] # MP!I64Min

\* The invariant: the marker is where nobody wrote.
LocalsOK ==
  /\ status \in {"new", "running"} => MP!MarkerConfined
  /\ status = "running" => \A k \in 1 .. Len(call_stack) : LocalsDefined(k)

LEMMA SameMarker == M!I64Min = MP!I64Min /\ MP!I64Min' = MP!I64Min
  BY DEF M!I64Min, MP!I64Min

\* What is initialised behind an instruction was before it or is stored by it.
LEMMA InitFlows ==
  ASSUME IInv, status = "running"
  PROVE  LET f == call_stack[Len(call_stack)].func_id
             s == states[f][pc]
         IN  /\ MP!Instr.opcode \notin {"Call", "Return", "Halt"} =>
                  \A t \in MP!Targets : \A x \in states[f][t].init :
                    x \in s.init \/ (MP!Instr.opcode = "StoreLocal" /\ x = MP!arg1)
             /\ MP!Instr.opcode = "Call" => states[f][pc + 1].init \subseteq s.init
PROOF
<1> DEFINE f   == call_stack[Len(call_stack)].func_id
           s   == states[f][pc]
           ins == MP!Instr
<1>1. V!valid /\ f \in DOMAIN prog.functions /\ pc \in DOMAIN states[f]
  BY TopFrame
<1>2. PICK i \in 1 .. Len(order) : order[i] = f /\ VP!Sound(i, pc, states[f])
  BY <1>1, FunctionCovered DEF IInv
<1>3. ins = prog.instructions[pc + 1]
  BY DEF MP!Instr, MP!Code
<1>4. \A k \in DOMAIN VP!Successors(ins, pc) :
        states[f][VP!Successors(ins, pc)[k]].init \subseteq VP!After(ins, s).init
  BY <1>2, <1>3 DEF VP!Sound, VP!Code
<1>5. VP!After(ins, s).init =
        IF ins.opcode = "StoreLocal" THEN s.init \cup {MP!arg1} ELSE s.init
  BY DEF VP!After, MP!arg1
<1>6. ASSUME ins.opcode \notin {"Call", "Return", "Halt"}, NEW t \in MP!Targets,
             NEW x \in states[f][t].init
      PROVE  x \in s.init \/ (ins.opcode = "StoreLocal" /\ x = MP!arg1)
  <2>1. PICK k \in DOMAIN VP!Successors(ins, pc) : VP!Successors(ins, pc)[k] = t
    BY <1>6, TargetsAreSuccessors
  <2>2. x \in VP!After(ins, s).init
    BY <1>4, <1>6, <2>1
  <2> QED
    BY <1>5, <2>2
<1>7. ASSUME ins.opcode = "Call" PROVE states[f][pc + 1].init \subseteq s.init
  <2>1. VP!Successors(ins, pc) = <<pc + 1>>
    BY <1>7 DEF VP!Successors, VP!Jumps
  <2>2. 1 \in DOMAIN VP!Successors(ins, pc) /\ VP!Successors(ins, pc)[1] = pc + 1
    BY <2>1
  <2>3. states[f][pc + 1].init \subseteq VP!After(ins, s).init
    BY <1>4, <2>2
  <2> QED
    BY <1>5, <1>7, <2>3
<1> QED
  BY <1>6, <1>7

\* At its entry only parameters are initialised.
LEMMA EntryInit ==
  ASSUME VP!IInv, VP!ReportOK, V!valid, NEW f \in DOMAIN prog.functions
  PROVE  \A s \in states[f][prog.functions[f].entry_pc].init :
           s < prog.functions[f].param_count
PROOF
<1>1. VP!valid
  BY SameVerdict
<1>2. PICK i \in 1 .. Len(order) : order[i] = f /\ VP!EntryCovered(i, states[f])
  BY <1>1, VP!ValidFacts, Assumptions
<1> QED
  BY <1>2 DEF VP!EntryCovered, VP!Start, VP!Info

\* The window of every frame lies below the end of the running one's.
LEMMA FramesBelow ==
  ASSUME IInv, status = "running", NEW k \in 1 .. Len(call_stack)
  PROVE  /\ call_stack[k].base_ptr \in Nat
         /\ MP!LocalCount(call_stack[k]) \in Nat
         /\ call_stack[k].func_id \in DOMAIN prog.functions
         /\ call_stack[k].base_ptr + MP!LocalCount(call_stack[k]) <= MP!NewBase
         /\ MP!NewBase <= MAX_LOCAL_SLOTS
PROOF
<1>0. PICK n : n = Len(call_stack)
  OBVIOUS
<1>1. call_stack \in Seq(MP!FrameType) /\ n \in Nat \ {0} /\ MP!IsProgram(prog)
  BY <1>0, TopFrame DEF IInv, MP!IInv, MP!ControlOK
<1> DEFINE E(j) == call_stack[j].base_ptr + MP!LocalCount(call_stack[j])
<1>2. ASSUME NEW j \in 1 .. n
      PROVE  /\ call_stack[j].base_ptr \in Nat /\ MP!LocalCount(call_stack[j]) \in Nat
             /\ call_stack[j].func_id \in DOMAIN prog.functions
             /\ E(j) \in Nat /\ E(j) <= MAX_LOCAL_SLOTS
             /\ j # 1 => call_stack[j].base_ptr = E(j - 1)
  <2>1. PICK frame : frame = call_stack[j]
    OBVIOUS
  <2>2. frame \in MP!FrameType
    BY <1>0, <1>1, <2>1
  <2>3. /\ frame.func_id \in DOMAIN prog.functions
        /\ E(j) <= MAX_LOCAL_SLOTS
        /\ j # 1 => call_stack[j].base_ptr = E(j - 1)
    BY <1>0, <2>1 DEF IInv, MP!IInv, MP!FrameLayout
  <2>4. prog.functions[frame.func_id] \in MP!FunctionInfo
    BY <1>1, <2>3 DEF MP!IsProgram
  <2>5. frame.base_ptr \in Nat /\ MP!LocalCount(frame) \in Nat
    BY <2>2, <2>4 DEF MP!FrameType, MP!LocalCount, MP!FunctionInfo
  <2> QED
    BY <2>1, <2>3, <2>5
<1> HIDE DEF E
<1>3. \A j \in 1 .. n - 1 : E(j) <= E(j + 1)
  <2> SUFFICES ASSUME NEW j \in 1 .. n - 1 PROVE E(j) <= E(j + 1)
    OBVIOUS
  <2>1. j \in 1 .. n /\ j + 1 \in 1 .. n /\ j + 1 # 1 /\ (j + 1) - 1 = j
    BY <1>1
  <2>2. call_stack[j + 1].base_ptr = E(j) /\ MP!LocalCount(call_stack[j + 1]) \in Nat
        /\ E(j) \in Nat
    BY <1>2, <2>1
  <2>3. E(j + 1) = E(j) + MP!LocalCount(call_stack[j + 1])
    BY <2>2 DEF E
  <2> QED
    BY <2>2, <2>3
<1>4. E(k) <= E(n)
  <2> DEFINE Bad == {d \in Nat : n - d \in 1 .. n /\ ~(E(n - d) <= E(n))}
  <2>1. SUFFICES ASSUME ~(E(k) <= E(n)) PROVE FALSE
    OBVIOUS
  <2>2. n - k \in Bad
    <3>1. n - k \in Nat /\ n - (n - k) = k /\ k \in 1 .. n
      BY <1>0, <1>1
    <3> QED
      BY <2>1, <3>1
  <2>3. PICK d \in Bad : \A e \in Bad : d <= e
    <3>1. Bad \subseteq Nat /\ Bad # {}
      BY <2>2
    <3> HIDE DEF Bad
    <3> QED
      BY <3>1, VP!Least, Assumptions
  <2>4. d \in Nat /\ n - d \in 1 .. n /\ ~(E(n - d) <= E(n))
    BY <2>3
  <2>5. E(n) \in Nat /\ E(n) <= E(n)
    BY <1>1, <1>2
  <2>6. d # 0
    BY <1>1, <2>4, <2>5
  <2>7. PICK j \in 1 .. n - 1 : j = n - d /\ n - (d - 1) = j + 1 /\ d - 1 \in Nat
                                /\ j + 1 \in 1 .. n /\ j \in 1 .. n
    BY <1>1, <2>4, <2>6
  <2>8. E(j + 1) <= E(n)
    <3>1. d - 1 \notin Bad
      <4> HIDE DEF Bad
      <4> QED
        BY <2>3, <2>4, <2>7
    <3> QED
      BY <2>7, <3>1
  <2>9. E(j) \in Nat /\ E(j + 1) \in Nat /\ E(j) <= E(j + 1)
    BY <1>2, <1>3, <2>7
  <2> QED
    BY <2>4, <2>5, <2>7, <2>8, <2>9
<1>5. MP!NewBase = E(n)
  BY <1>0 DEF MP!NewBase, MP!Frame, E
<1>6. E(k) = call_stack[k].base_ptr + MP!LocalCount(call_stack[k])
  BY DEF E
<1> QED
  BY <1>0, <1>1, <1>2, <1>4, <1>5, <1>6

\* A slot that counts as initialised is a slot of its frame.
LEMMA OwnSlots ==
  ASSUME IInv, VP!RecordsOK, status = "running", NEW k \in 1 .. Len(call_stack),
         NEW s \in StateOf(k).init
  PROVE  /\ s \in Nat /\ call_stack[k].base_ptr \in Nat
         /\ call_stack[k].base_ptr + s + 1 \in 1 .. Len(locals)
         /\ call_stack[k].base_ptr + s + 1 <= MP!NewBase
PROOF
<1>1. /\ call_stack[k].base_ptr \in Nat
      /\ MP!LocalCount(call_stack[k]) \in Nat
      /\ call_stack[k].func_id \in DOMAIN prog.functions
      /\ call_stack[k].base_ptr + MP!LocalCount(call_stack[k]) <= MP!NewBase
      /\ MP!NewBase <= MAX_LOCAL_SLOTS
  BY FramesBelow
<1>2. PcOf(k) \in DOMAIN states[call_stack[k].func_id]
  BY DEF IInv, MachineOK, FramesOK, FrameOK
<1>3. s \in 0 .. MP!LocalCount(call_stack[k]) - 1
  BY <1>1, <1>2 DEF StateOf, VP!RecordsOK, VP!SlotsOK, VP!Info, MP!LocalCount
<1>4. Len(locals) \in Nat /\ Len(locals) >= MAX_LOCAL_SLOTS
  BY DEF IInv, MP!IInv, MP!DataOK
<1>5. MP!NewBase \in Nat /\ MAX_LOCAL_SLOTS \in Nat
  BY TopFrame, FramesBelow, LimitsAssumption DEF MP!NewBase, MP!Frame
<1>6. PICK b, c, m : b = call_stack[k].base_ptr /\ c = MP!LocalCount(call_stack[k])
                     /\ m = MP!NewBase
  OBVIOUS
<1>7. /\ b \in Nat /\ c \in Nat /\ m \in Nat /\ s \in 0 .. c - 1
      /\ b + c <= m /\ m <= MAX_LOCAL_SLOTS
  BY <1>1, <1>3, <1>5, <1>6
<1>8. s \in Nat /\ b + s + 1 \in Nat \ {0} /\ b + s + 1 <= m
  BY <1>7
<1>9. b + s + 1 \in 1 .. Len(locals)
  BY <1>4, <1>5, <1>7, <1>8
<1> QED
  BY <1>6, <1>7, <1>8, <1>9

\* Defined slots stay defined in a frame whose place in its function stays, or
\* whose state behind the step counts no more of them.
LEMMA FrameKeepsLocals ==
  ASSUME IInv, VP!RecordsOK, LocalsOK, status = "running", MP!DefinedKept,
         NEW k \in 1 .. Len(call_stack),
         call_stack'[k].base_ptr = call_stack[k].base_ptr,
         StateOf(k)'.init \subseteq StateOf(k).init
  PROVE  LocalsDefined(k)'
PROOF
<1>1. ASSUME NEW s \in StateOf(k).init
      PROVE  locals'[call_stack[k].base_ptr + s + 1] # MP!I64Min
  <2>1. /\ call_stack[k].base_ptr + s + 1 \in 1 .. Len(locals)
        /\ call_stack[k].base_ptr + s + 1 <= MP!NewBase
    BY <1>1, OwnSlots
  <2>2. locals[call_stack[k].base_ptr + s + 1] # MP!I64Min
    BY <1>1 DEF LocalsOK, LocalsDefined
  <2> QED
    BY <2>1, <2>2 DEF MP!DefinedKept
<1> QED
  BY <1>1, SameMarker DEF LocalsDefined

\* A step of a running machine that goes on.
LEMMA RunKeepsLocals ==
  ASSUME IInv, VP!RecordsOK, LocalsOK, Disciplined, MP!Next, UNCHANGED v_vars,
         status = "running", status' = "running"
  PROVE  LocalsOK'
PROOF
<1>0. PICK n : n = Len(call_stack)
  OBVIOUS
<1> DEFINE f == call_stack[n].func_id
<1>1. MP!IInv /\ MP!MarkerConfined /\ MP!ArraysBased
  BY DEF IInv, LocalsOK, Disciplined
<1>2. /\ MP!MarkerConfined' /\ MP!DefinedKept
      /\ MP!Instr.opcode = "StoreLocal" => locals'[MP!Slot(MP!arg1)] # MP!I64Min
      /\ MP!Instr.opcode = "Call" =>
           \A i \in 1 .. MP!arg2 : locals'[MP!NewBase + i] # MP!I64Min
  BY <1>1, MP!MarkerStays, Assumptions
<1>3. MP!Outcome
  BY <1>1, TopFrame, MP!GuardedStep, Assumptions
<1>4. states' = states /\ prog' = prog
  BY ProgramKept DEF v_vars
<1>5. call_stack \in Seq(MP!FrameType) /\ n \in Nat \ {0} /\ V!valid
  BY <1>0, TopFrame DEF IInv, MP!IInv, MP!ControlOK
<1>6. SUFFICES \A k \in 1 .. Len(call_stack') : LocalsDefined(k)'
  BY <1>2 DEF LocalsOK
<1>7. CASE MP!Moves
  <2>1. call_stack' = call_stack /\ pc' \in MP!Targets
        /\ MP!Instr.opcode \notin {"Call", "Return", "Halt"}
    BY <1>7 DEF MP!Moves
  <2>2. ASSUME NEW k \in 1 .. n, k # n PROVE LocalsDefined(k)'
    <3>1. StateOf(k)' = StateOf(k)
      BY <1>0, <1>4, <2>1, <2>2 DEF StateOf, PcOf
    <3> QED
      BY <1>0, <1>2, <2>1, <3>1, FrameKeepsLocals
  <2>3. LocalsDefined(n)'
    <3>1. StateOf(n) = states[f][pc] /\ StateOf(n)' = states[f][pc']
      BY <1>0, <1>4, <2>1 DEF StateOf, PcOf
    <3>2. n \in 1 .. Len(call_stack)
      BY <1>0, <1>5
    <3>3. ASSUME NEW s \in StateOf(n)'.init
          PROVE  locals'[call_stack[n].base_ptr + s + 1] # MP!I64Min
      <4>1. s \in StateOf(n).init \/ (MP!Instr.opcode = "StoreLocal" /\ s = MP!arg1)
        BY <1>0, <2>1, <3>1, <3>3, InitFlows
      <4>2. CASE s \in StateOf(n).init
        <5>1. /\ call_stack[n].base_ptr + s + 1 \in 1 .. Len(locals)
              /\ call_stack[n].base_ptr + s + 1 <= MP!NewBase
          BY <3>2, <4>2, OwnSlots
        <5>2. locals[call_stack[n].base_ptr + s + 1] # MP!I64Min
          BY <3>2, <4>2 DEF LocalsOK, LocalsDefined
        <5> QED
          BY <1>2, <5>1, <5>2 DEF MP!DefinedKept
      <4>3. CASE MP!Instr.opcode = "StoreLocal" /\ s = MP!arg1
        <5>1. MP!Slot(MP!arg1) = call_stack[n].base_ptr + s + 1
          BY <1>0, <4>3 DEF MP!Slot, MP!Frame
        <5> QED
          BY <1>2, <4>3, <5>1
      <4> QED
        BY <4>1, <4>2, <4>3
    <3> QED
      BY <2>1, <3>3, SameMarker DEF LocalsDefined
  <2> QED
    BY <1>0, <2>1, <2>2, <2>3
<1>8. CASE MP!Enters
  <2>0. PICK g : g = MP!arg1
    OBVIOUS
  <2>1. /\ call_stack' = Append(call_stack, MP!CalleeFrame) /\ MP!Instr.opcode = "Call"
        /\ pc' = prog.functions[g].entry_pc
    BY <1>8, <2>0 DEF MP!Enters, MP!Callee
  <2>2. /\ Len(call_stack') = n + 1
        /\ \A k \in 1 .. n : call_stack'[k] = call_stack[k]
        /\ call_stack'[n + 1] = MP!CalleeFrame
    <3>1. call_stack \in Seq(MP!FrameType \cup {MP!CalleeFrame})
      BY <1>5, SeqMonotonic
    <3> QED
      BY <1>0, <2>1, <3>1, AppendProperties
  <2>3. /\ call_stack'[n + 1].return_pc = pc + 1 /\ call_stack'[n + 1].func_id = g
        /\ call_stack'[n + 1].base_ptr = MP!NewBase
    BY <2>0, <2>2 DEF MP!CalleeFrame
  <2>4. ASSUME NEW k \in 1 .. n, k # n PROVE LocalsDefined(k)'
    <3>1. k # n + 1 /\ k + 1 \in 1 .. n
      BY <1>5, <2>4
    <3>2. StateOf(k)' = StateOf(k)
      BY <1>0, <1>4, <2>2, <2>4, <3>1 DEF StateOf, PcOf
    <3> QED
      BY <1>0, <1>2, <2>2, <3>2, FrameKeepsLocals
  <2>5. LocalsDefined(n)'
    <3>1. n \in 1 .. n /\ n # n + 1
      BY <1>5
    <3>2. StateOf(n) = states[f][pc] /\ StateOf(n)' = states[f][pc + 1]
      BY <1>0, <1>4, <2>2, <2>3, <3>1 DEF StateOf, PcOf
    <3>3. StateOf(n)'.init \subseteq StateOf(n).init
      BY <1>0, <2>1, <3>2, InitFlows
    <3> QED
      BY <1>0, <1>2, <2>2, <3>1, <3>3, FrameKeepsLocals
  <2>6. LocalsDefined(n + 1)'
    <3>0. PICK m : m = n + 1
      OBVIOUS
    <3>1. g \in DOMAIN prog.functions /\ MP!arg2 = prog.functions[g].param_count
      <4>1. MP!WellFormed
        BY TopFrame DEF MP!Guarded
      <4> QED
        BY <2>0, <2>1, <4>1 DEF MP!WellFormed, MP!Callee
    <3>2. StateOf(m)' = states[g][prog.functions[g].entry_pc]
      BY <1>4, <2>1, <2>2, <2>3, <3>0 DEF StateOf, PcOf
    <3>3. ASSUME NEW s \in StateOf(m)'.init
          PROVE  s < MP!arg2 /\ s \in Nat
      <4>1. s < MP!arg2
        BY <1>5, <3>1, <3>2, <3>3, EntryInit DEF IInv
      <4>2. prog.functions[g].entry_pc \in DOMAIN states[g]
        BY <1>5, <3>1, FunctionCovered DEF IInv
      <4>3. s \in 0 .. prog.functions[g].local_count - 1
        BY <3>1, <3>2, <3>3, <4>2 DEF VP!RecordsOK, VP!SlotsOK, VP!Info
      <4> QED
        BY <4>1, <4>3
    <3>4. MP!NewBase \in Nat /\ MP!arg2 \in Nat
      <4>1. prog.functions[g] \in MP!FunctionInfo
        BY <3>1 DEF IInv, MP!IInv, MP!ControlOK, MP!IsProgram
      <4>2. MP!arg2 \in Nat
        BY <3>1, <4>1 DEF MP!FunctionInfo
      <4> QED
        BY <1>0, <1>5, <4>2, FramesBelow DEF MP!NewBase, MP!Frame
    <3>5. ASSUME NEW s \in StateOf(m)'.init
          PROVE  locals'[MP!NewBase + s + 1] # MP!I64Min
      <4>1. s + 1 \in 1 .. MP!arg2 /\ MP!NewBase + s + 1 = MP!NewBase + (s + 1)
        BY <3>3, <3>4, <3>5
      <4> QED
        BY <1>2, <2>1, <4>1
    <3>6. LocalsDefined(m)'
      BY <2>3, <3>0, <3>5, SameMarker DEF LocalsDefined
    <3> QED
      BY <2>2, <3>0, <3>5, <3>6
  <2>7. \A k \in 1 .. n + 1 : k \in 1 .. n \/ k = n + 1
    BY <1>5
  <2> QED
    BY <1>5, <2>2, <2>4, <2>5, <2>6, <2>7
<1>9. CASE MP!Leaves
  <2>0. PICK m : m = n - 1
    OBVIOUS
  <2>1. /\ call_stack' = SubSeq(call_stack, 1, n - 1) /\ n > 1
        /\ pc' = call_stack[n].return_pc
    BY <1>0, <1>9 DEF MP!Leaves, MP!Frame
  <2>2. m \in Nat \ {0} /\ m + 1 = n /\ m # n
    BY <1>5, <2>0, <2>1
  <2>3. Len(call_stack') = m /\ \A k \in 1 .. m : call_stack'[k] = call_stack[k]
    BY <1>0, <1>5, <2>0, <2>1, <2>2
  <2>4. ASSUME NEW k \in 1 .. m PROVE LocalsDefined(k)'
    <3>1. k \in 1 .. n /\ k # n /\ (k # m => k + 1 \in 1 .. m)
      BY <2>2, <2>4
    <3>2. PcOf(k)' = PcOf(k)
      BY <1>0, <2>1, <2>2, <2>3, <2>4, <3>1 DEF PcOf
    <3>3. StateOf(k)' = StateOf(k)
      BY <1>4, <2>3, <2>4, <3>2 DEF StateOf
    <3> QED
      BY <1>0, <1>2, <2>3, <2>4, <3>1, <3>3, FrameKeepsLocals
  <2> QED
    BY <2>3, <2>4
<1>10. ~MP!Traps /\ ~MP!Ends
  BY DEF MP!Traps, MP!Ends
<1> QED
  BY <1>3, <1>7, <1>8, <1>9, <1>10 DEF MP!Outcome

\* Before the first instruction nothing is initialised, as main has no
\* parameters.
LEMMA MainKeepsLocals ==
  ASSUME IInv, LocalsOK, MainTakesNothing, VP!RecordsOK, V!valid, MP!EnterMain,
         UNCHANGED v_vars
  PROVE  LocalsOK'
PROOF
<1> DEFINE main == prog.main_func_id
<1>1. /\ status = "new" /\ status' = "running" /\ prog' = prog /\ states' = states
      /\ UNCHANGED <<stack, locals, globals>>
      /\ pc' = prog.functions[main].entry_pc
      /\ call_stack' = <<[return_pc |-> USIZE_MAX, base_ptr |-> 0, func_id |-> main]>>
      /\ MP!PreflightTraps(prog) = {}
  BY DEF MP!EnterMain, v_vars
<1>2. Len(call_stack') = 1 /\ call_stack'[1].func_id = main
  BY <1>1
<1>3. main \in DOMAIN prog.functions
  BY <1>1, MP!PreflightPasses, Assumptions DEF IInv, MP!IInv, MP!ControlOK
<1>4. prog.functions[main].param_count = 0
  BY <1>3 DEF MainTakesNothing
<1>5. StateOf(1)' = states[main][prog.functions[main].entry_pc]
  BY <1>1, <1>2 DEF StateOf, PcOf
<1>6. \A s \in StateOf(1)'.init : s < 0 /\ s \in Nat
  <2>1. prog.functions[main].entry_pc \in DOMAIN states[main]
    BY <1>3, FunctionCovered DEF IInv
  <2>2. \A s \in StateOf(1)'.init : s \in 0 .. prog.functions[main].local_count - 1
    BY <1>3, <1>5, <2>1 DEF VP!RecordsOK, VP!SlotsOK, VP!Info
  <2>3. \A s \in StateOf(1)'.init : s < 0
    BY <1>3, <1>4, <1>5, EntryInit DEF IInv
  <2> QED
    BY <2>2, <2>3
<1>7. LocalsDefined(1)'
  BY <1>6 DEF LocalsDefined
<1>8. MP!MarkerConfined'
  BY <1>1 DEF LocalsOK, MP!MarkerConfined
<1> QED
  BY <1>2, <1>7, <1>8 DEF LocalsOK

LEMMA LocalsKept ==
  ASSUME IInv, VP!RecordsOK, LocalsOK, Disciplined, [Next]_vars
  PROVE  LocalsOK'
PROOF
<1>1. CASE VerifyStep
  <2>1. UNCHANGED m_vars /\ V!Verify
    BY <1>1 DEF VerifyStep
  <2>2. phase # "done"
    BY <2>1 DEF V!Verify, V!CheckMetadata, V!EnterFunction, V!LeaveRange,
       V!RejectInstruction, V!StepInstruction, V!Report, V!Dequeue
  <2>3. status = "new" /\ status' = "new"
    BY <2>1, <2>2 DEF IInv, MachineOK, V!valid, m_vars
  <2>4. MP!MarkerConfined'
    BY <2>1, <2>3 DEF LocalsOK, MP!MarkerConfined, m_vars
  <2> QED
    BY <2>3, <2>4 DEF LocalsOK
<1>2. CASE RunStep
  <2>1. UNCHANGED v_vars /\ MP!Next /\ V!valid
    BY <1>2, SameNext DEF RunStep
  <2>2. MP!IInv /\ MP!PreflightTraps(prog) = {}
    BY <2>1, ValidPassesPreflight DEF IInv
  <2>3. CASE status = "new"
    <3>1. MP!EnterMain
      BY <2>1, <2>2, <2>3, MP!NewStarts, Assumptions DEF MP!RejectProgram
    <3> QED
      BY <2>1, <3>1, MainKeepsLocals DEF Disciplined
  <2>4. CASE status = "running" /\ status' = "running"
    BY <2>1, <2>4, RunKeepsLocals
  <2>5. CASE status = "running" /\ status' # "running"
    <3>1. status' # "new"
      BY <2>1, <2>2, <2>5, MP!GuardedStep, TopFrame, Assumptions
         DEF MP!Outcome, MP!Traps, MP!Ends, MP!Moves, MP!Enters, MP!Leaves, MP!Stays
    <3> QED
      BY <2>5, <3>1 DEF LocalsOK
  <2>6. CASE status \in MP!Final
    <3>1. status' = status
      BY <2>1, <2>6, MP!FinalStays, Assumptions DEF MP!Done, MP!vars
    <3> QED
      BY <2>6, <3>1 DEF LocalsOK, MP!Final
  <2>7. status \in {"new", "running"} \cup MP!Final
    BY <2>2 DEF MP!IInv, MP!ControlOK
  <2> QED
    BY <2>3, <2>4, <2>5, <2>6, <2>7
<1>3. CASE UNCHANGED vars
  BY <1>3 DEF vars, v_vars, m_vars, LocalsOK, LocalsDefined, StateOf, PcOf,
     MP!MarkerConfined, MP!Definite, MP!I64Min
<1> QED
  BY <1>1, <1>2, <1>3 DEF Next, Refused

LEMMA LocalsFresh == Init => LocalsOK
PROOF
<1>1. Init => MP!New /\ status = "new"
  BY SameNew DEF Init, MP!New
<1>2. MP!New => MP!MarkerConfined
  BY MP!MarkerFresh, Assumptions
<1> QED
  BY <1>1, <1>2 DEF LocalsOK

\* A local the verifier counts as initialised holds a value, in every frame of
\* every program whose main takes nothing and whose local array loads go
\* through array bases: StoreLocal and Call define what verify_function says
\* they do, and nothing brings the marker back.
THEOREM InitializedMeansDefined ==
  Spec /\ []Disciplined => []InitializedLocalsDefined
PROOF
<1>1. LocalsOK => InitializedLocalsDefined
  BY SameMarker DEF LocalsOK, LocalsDefined, InitializedLocalsDefined
<1>2. IInv /\ VP!RecordsOK /\ LocalsOK /\ Disciplined /\ [Next]_vars => LocalsOK'
  BY LocalsKept
<1> QED
  BY <1>1, <1>2, LocalsFresh, Invariance, RecordsHold, PTL DEF Spec

\* Under the same conditions the three data traps are all in the report before
\* they happen, the read of an undefined local included (push_trap in
\* step_instruction).
THEOREM DataTrapsForeseen == Spec /\ []Disciplined => []DataTrapsReported
PROOF
<1>1. Init => DataTrapsReported
  BY DEF Init, M!New, DataTrapsReported
<1>2. IInv /\ VP!RecordsOK /\ InitializedLocalsDefined /\ DataTrapsReported /\ [Next]_vars
        => DataTrapsReported'
  <2> SUFFICES ASSUME IInv, VP!RecordsOK, InitializedLocalsDefined, DataTrapsReported,
                      [Next]_vars
               PROVE  DataTrapsReported'
    OBVIOUS
  <2>1. CASE trap_code' = trap_code /\ possible_traps \subseteq possible_traps'
    BY <2>1 DEF DataTrapsReported
  <2>2. CASE /\ UNCHANGED v_vars /\ MP!Next /\ V!valid
             /\ status \in {"new", "running"} /\ status' = "trapped"
    <3>1. /\ status = "running" /\ TrapsNoted'
          /\ trap_code' = "UndefinedLocal" /\ trap_code' \notin possible_traps' =>
               LET n == Len(call_stack)
               IN  /\ MP!arg1 \in states[call_stack[n].func_id][pc].init
                   /\ locals[MP!Slot(MP!arg1)] = MP!I64Min
      BY <2>2, TrapsAreNoted
    <3>2. PICK n : n = Len(call_stack)
      OBVIOUS
    <3>3. n \in 1 .. Len(call_stack)
      BY <3>1, <3>2, TopFrame
    <3>4. StateOf(n) = states[call_stack[n].func_id][pc]
      BY <3>2 DEF StateOf, PcOf
    <3>5. \A s \in StateOf(n).init : locals[call_stack[n].base_ptr + s + 1] # MP!I64Min
      BY <3>1, <3>3, SameMarker DEF InitializedLocalsDefined
    <3>6. MP!arg1 \in StateOf(n).init => locals[MP!Slot(MP!arg1)] # MP!I64Min
      BY <3>2, <3>5 DEF MP!Slot, MP!Frame
    <3> QED
      BY <3>1, <3>2, <3>4, <3>6 DEF TrapsNoted, CheckedTraps, DataTrapsReported
  <2> QED
    BY <2>1, <2>2, TrapComesOnce
<1> QED
  BY <1>1, <1>2, InitializedMeansDefined, Invariance, RecordsHold, PTL DEF Spec

(***************************************************************************)
(* The JIT.  The native code of a program is what the whole of compile     *)
(* yields, but it can be run beside the machine: while main is at pc, the  *)
(* code emitted so far, that of the instructions before pc, has left a     *)
(* frame that shows the machine's operands and initialised locals.         *)
(***************************************************************************)

\* The limits: every local has a word in the native frame, and the cycle limit
\* does not cut a program that runs straight through (limits.rs, jit.rs).
FrameFits ==
  /\ MAX_LOCAL_SLOTS <= JIT_FRAME_WORDS
  /\ MAX_CYCLES = 0 \/ MAX_INSTRUCTIONS <= MAX_CYCLES

\* No negation of the least i32: the machine wraps it, the native code does not.
NegationsFit ==
  status = "running" /\ MP!Instr.opcode = "Neg" => MP!Top(0) # -Half

MainEntry == prog.functions[prog.main_func_id].entry_pc

\* The native machine behind the code of the instructions before pc.
Behind == Executed(Machine, Emitted(prog, pc - MainEntry))

\* Main is under way: it has come straight from its entry, and the native frame
\* shows what the machine holds.
InMain ==
  /\ status = "running"
  /\ Len(call_stack) = 1 /\ call_stack[1].func_id = prog.main_func_id
  /\ pc >= MainEntry /\ cycles = pc - MainEntry
  /\ \A q \in MainEntry .. pc - 1 : prog.instructions[q + 1].opcode # "Return"
  /\ Len(stack) = states[prog.main_func_id][pc].depth
  /\ Emitted(prog, pc - MainEntry) \in Seq(MachineCode)
  /\ Shows(Behind, stack, locals, states[prog.main_func_id][pc].init)

\* Main is back, and so is the native code.
Returned ==
  /\ status = "exited"
  /\ supports_program(prog)
  /\ Native(prog).returned /\ Native(prog).rsp = Entry + 1 /\ Native(prog).rbp = Caller
  /\ Native(prog).rax = return_value

\* The invariant.
NativeOK ==
  /\ status = "new" => cycles = 0
  /\ jit /\ status # "new" => InMain \/ Returned

\* What eligibility means for the code (jit_status).
LEMMA JitFacts ==
  ASSUME IInv, VP!RecordsOK, V!valid, jit
  PROVE  /\ prog.main_func_id \in DOMAIN prog.functions
         /\ MainEntry \in Nat
         /\ possible_traps = {}
         /\ Cardinality(DOMAIN prog.functions) = 1
         /\ \E r \in MainEntry .. Len(prog.instructions) - 1 :
              /\ prog.instructions[r + 1].opcode = "Return"
              /\ \A q \in MainEntry .. r : prog.instructions[q + 1].opcode \in Supported
PROOF
<1>1. VP!JitStatus(possible_traps)
  BY DEF VP!RecordsOK, VP!Concluded, V!valid
<1>2. MP!PreflightTraps(prog) = {}
  BY ValidPassesPreflight DEF IInv
<1>3. prog.main_func_id \in DOMAIN prog.functions
  BY <1>2, MP!PreflightPasses, Assumptions DEF IInv, MP!IInv, MP!ControlOK
<1>4. MainEntry \in Nat
  <2>1. prog.functions[prog.main_func_id] \in MP!FunctionInfo
    BY <1>3 DEF IInv, MP!IInv, MP!ControlOK, MP!IsProgram
  <2> QED
    BY <2>1 DEF MP!FunctionInfo, MainEntry
<1>5. VP!Cardinality(DOMAIN prog.functions) = Cardinality(DOMAIN prog.functions)
  BY DEF VP!Cardinality, Cardinality, VP!IsFiniteSet, IsFiniteSet
<1>6. VP!JitOpcodes = Supported
  BY DEF VP!JitOpcodes, Supported, VP!Comparisons, Comparisons, VP!UnaryOps, UnaryOps
<1>7. VP!Info(prog.main_func_id).entry_pc = MainEntry /\ VP!Code = prog.instructions
  BY DEF VP!Info, VP!Code, MainEntry
<1> QED
  BY <1>1, <1>3, <1>4, <1>5, <1>6, <1>7 DEF VP!JitStatus

\* How many addresses an interval holds.
LEMMA IntervalSize ==
  ASSUME NEW a \in Int, NEW b \in Int, a <= b
  PROVE  Cardinality(a .. b) = (b - a) + 1
PROOF
<1>1. Cardinality(a .. b) = IF a > b THEN 0 ELSE (b - a) + 1
  BY FS_Interval
<1>2. ~ a > b
  OBVIOUS
<1> QED
  BY <1>1, <1>2

\* MainRange ends with the first Return.
LEMMA MainRangeIs ==
  ASSUME NEW p, NEW e \in Nat, e = p.functions[p.main_func_id].entry_pc,
         NEW q \in e .. Len(p.instructions) - 1, p.instructions[q + 1].opcode = "Return",
         \A k \in e .. q - 1 : p.instructions[k + 1].opcode # "Return",
         Len(p.instructions) \in Nat
  PROVE  MainRange(p) = e .. q /\ Cardinality(MainRange(p)) = (q - e) + 1
PROOF
<1> DEFINE returns == {k \in e .. Len(p.instructions) - 1 :
                         p.instructions[k + 1].opcode = "Return"}
           first == CHOOSE k \in returns : \A r \in returns : k <= r
<1>1. q \in returns /\ \A r \in returns : q <= r
  OBVIOUS
<1>2. \A k \in returns : k \in Int
  OBVIOUS
<1>3. MainRange(p) = e .. first
  BY <1>1 DEF MainRange
<1> HIDE DEF returns
<1>4. first \in returns /\ \A r \in returns : first <= r
  BY <1>1
<1>5. first = q
  <2> HIDE DEF first
  <2> QED
    BY <1>1, <1>2, <1>4
<1>6. Cardinality(e .. q) = (q - e) + 1
  <2>1. q \in Int /\ e \in Int /\ e <= q
    OBVIOUS
  <2> HIDE DEF first
  <2> QED
    BY <2>1, IntervalSize
<1> QED
  BY <1>3, <1>5, <1>6

\* One more instruction of main, when the native code of it shows what the
\* machine has now.
LEMMA Onward ==
  ASSUME InMain, MainEntry \in Nat, pc \in Nat, UNCHANGED <<prog, states>>,
         MP!Instr.opcode \in Supported \ {"Return"}, MP!Instr.arg1 \in Int,
         status' = "running", call_stack' = call_stack,
         pc' = pc + 1, cycles' = cycles + 1,
         Len(stack') = states[prog.main_func_id][pc + 1].depth,
         Shows(Executed(Behind, compile_instruction(MP!Instr)), stack', locals',
               states[prog.main_func_id][pc + 1].init)
  PROVE  InMain'
PROOF
<1> DEFINE code == Emitted(prog, pc - MainEntry)
           next == compile_instruction(MP!Instr)
<1>1. MainEntry' = MainEntry
  BY DEF MainEntry
<1>2. PICK n \in Nat : n = pc - MainEntry
  BY DEF InMain
<1>3. pc' - MainEntry' = n + 1 /\ pc + 1 = MainEntry + (n + 1)
  BY <1>1, <1>2
<1>4. Emitted(prog, n + 1) = code \o next
  <2>1. Emitted(prog, n + 1) =
          Emitted(prog, n) \o compile_instruction(prog.instructions[MainEntry + (n + 1)])
    BY EmittedGrows DEF MainEntry
  <2> QED
    BY <1>2, <1>3, <2>1 DEF MP!Instr, MP!Code
<1>5. code \in Seq(MachineCode) /\ next \in Seq(MachineCode)
  BY CodeTyped DEF InMain
<1>6. Emitted(prog', pc' - MainEntry') = code \o next
  BY <1>3, <1>4
<1>7. Behind' = Executed(Behind, next)
  <2>1. Executed(Machine, code \o next) = Executed(Executed(Machine, code), next)
    BY <1>5, ExecutedJoins
  <2> QED
    BY <1>6, <2>1 DEF Behind
<1>8. code \o next \in Seq(MachineCode)
  BY <1>5
<1>9. /\ Len(call_stack') = 1 /\ call_stack'[1].func_id = prog'.main_func_id
      /\ pc' >= MainEntry' /\ cycles' = pc' - MainEntry'
  BY <1>1 DEF InMain
<1>10. \A q \in MainEntry' .. pc' - 1 : prog'.instructions[q + 1].opcode # "Return"
  <2> SUFFICES ASSUME NEW q \in MainEntry .. pc
               PROVE  prog.instructions[q + 1].opcode # "Return"
    BY <1>1
  <2>1. CASE q = pc
    BY <2>1 DEF MP!Instr, MP!Code
  <2>2. CASE q # pc
    BY <2>2 DEF InMain
  <2> QED
    BY <2>1, <2>2
<1>11. Shows(Behind', stack', locals', states'[prog'.main_func_id][pc'].init)
  BY <1>7
<1> QED
  BY <1>6, <1>8, <1>9, <1>10, <1>11 DEF InMain

\* The call of main and the prologue.
LEMMA MainEntersNative ==
  ASSUME IInv, VP!RecordsOK, jit, V!valid, MainTakesNothing, cycles = 0, MP!EnterMain,
         UNCHANGED v_vars
  PROVE  InMain'
PROOF
<1> DEFINE main == prog.main_func_id
<1>1. /\ status = "new" /\ status' = "running" /\ prog' = prog /\ states' = states
      /\ UNCHANGED <<stack, locals, cycles>>
      /\ pc' = prog.functions[main].entry_pc
      /\ call_stack' = <<[return_pc |-> USIZE_MAX, base_ptr |-> 0, func_id |-> main]>>
  BY DEF MP!EnterMain, v_vars
<1>2. Len(call_stack') = 1 /\ call_stack'[1].func_id = main
  BY <1>1
<1>3. main \in DOMAIN prog.functions /\ MainEntry \in Nat
  BY JitFacts
<1>4. MainEntry' = MainEntry /\ pc' = MainEntry
  BY <1>1 DEF MainEntry
<1>5. stack' = << >> /\ cycles' = 0
  BY <1>1 DEF IInv, MachineOK
<1>6. MainEntry \in DOMAIN states[main] /\ states[main][MainEntry].depth = 0
  BY <1>3, FunctionCovered DEF IInv, MainEntry
<1>7. states[main][MainEntry].init = {}
  <2>1. \A s \in states[main][MainEntry].init :
          s \in 0 .. prog.functions[main].local_count - 1
    BY <1>3, <1>6 DEF VP!RecordsOK, VP!SlotsOK, VP!Info
  <2>2. \A s \in states[main][MainEntry].init : s < prog.functions[main].param_count
    BY <1>3, EntryInit DEF IInv, MainEntry
  <2>3. prog.functions[main].param_count = 0
    BY <1>3 DEF MainTakesNothing
  <2>4. \A s \in states[main][MainEntry].init : s \in Nat /\ s < 0
    BY <2>1, <2>2, <2>3
  <2> QED
    BY <2>4
<1>8. Emitted(prog', pc' - MainEntry') = emit_prologue
  <2>1. pc' - MainEntry' = 0
    BY <1>3, <1>4
  <2>2. Emitted(prog, 0) = emit_prologue
    BY EmittedGrows
  <2> QED
    BY <1>1, <2>1, <2>2
<1>9. Shows(Executed(Machine, emit_prologue), << >>, locals', {})
  BY PrologueShows
<1>10. Shows(Behind', stack', locals', states'[prog'.main_func_id][pc'].init)
  BY <1>1, <1>4, <1>5, <1>7, <1>8, <1>9 DEF Behind
<1>11. Emitted(prog', pc' - MainEntry') \in Seq(MachineCode)
  BY <1>8, CodeTyped
<1>12. \A q \in MainEntry' .. pc' - 1 : prog'.instructions[q + 1].opcode # "Return"
  BY <1>3, <1>4
<1>13. Len(stack') = states'[prog'.main_func_id][pc'].depth
  BY <1>1, <1>4, <1>5, <1>6
<1>14. pc' >= MainEntry' /\ cycles' = pc' - MainEntry'
  BY <1>3, <1>4, <1>5
<1> QED
  BY <1>1, <1>2, <1>10, <1>11, <1>12, <1>13, <1>14 DEF InMain

\* The frame of main: what the report and the limits say of the instruction at
\* pc while main runs straight through.  Nothing stops it on the machine.
LEMMA MainUnstopped ==
  ASSUME IInv, VP!RecordsOK, FrameFits, NegationsFit, V!valid, jit, InMain
  PROVE  LET s == states[prog.main_func_id][pc]
         IN  /\ MainEntry \in Nat /\ pc \in Nat
             /\ MP!Instr.opcode \in Supported /\ MP!Instr.arg1 \in MP!I32
             /\ Len(stack) >= MP!Popped(MP!Instr)
             /\ MP!Slot(MP!arg1) = MP!arg1 + 1
             /\ MP!Instr.opcode = "LoadLocal" => MP!arg1 \in s.init
             /\ MP!Instr.opcode = "StoreLocal" => MP!arg1 \in 0 .. JIT_FRAME_WORDS - 1
             /\ MP!Unstopped
PROOF
<1> DEFINE main == prog.main_func_id
           s == states[main][pc]
           ins == MP!Instr
<1>1. /\ status = "running" /\ Len(call_stack) = 1 /\ call_stack[1].func_id = main
      /\ pc >= MainEntry /\ cycles = pc - MainEntry /\ Len(stack) = s.depth
      /\ \A q \in MainEntry .. pc - 1 : prog.instructions[q + 1].opcode # "Return"
  BY DEF InMain
<1>2. /\ main \in DOMAIN prog.functions /\ pc \in DOMAIN states[main] /\ s.depth \in Nat
      /\ MP!Popped(ins) \in Nat /\ s.depth >= MP!Popped(ins) /\ MP!Guarded
  BY <1>1, TopFrame
<1>3. MainEntry \in Nat /\ possible_traps = {}
  BY JitFacts
<1>4. PICK r \in MainEntry .. Len(prog.instructions) - 1 :
        /\ prog.instructions[r + 1].opcode = "Return"
        /\ \A q \in MainEntry .. r : prog.instructions[q + 1].opcode \in Supported
  BY JitFacts
<1>5. /\ pc \in Nat /\ pc < Len(prog.instructions)
      /\ \E i \in 1 .. Len(order) : order[i] = main /\ VP!Sound(i, pc, states[main])
  BY <1>2, FunctionCovered DEF IInv
<1>6. Len(prog.instructions) \in Nat /\ Len(prog.instructions) <= MAX_INSTRUCTIONS
  <2>1. MP!PreflightTraps(prog) = {} /\ MP!IsProgram(prog)
    BY ValidPassesPreflight DEF IInv, MP!IInv, MP!ControlOK
  <2> QED
    BY <2>1, MP!PreflightPasses, Assumptions DEF MP!IsProgram
<1>7. ins = prog.instructions[pc + 1] /\ ins \in MP!Instruction
  <2>1. pc < Len(MP!Code)
    BY <1>5 DEF MP!Code
  <2> QED
    BY <1>1, <2>1, MP!RunningFacts, Assumptions DEF IInv, MP!Instr, MP!Code
<1>8. pc \in MainEntry .. r
  <2>1. r < pc => prog.instructions[r + 1].opcode # "Return"
    BY <1>1, <1>3, <1>5
  <2> QED
    BY <1>1, <1>3, <1>4, <1>5, <2>1
<1>9. ins.opcode \in Supported /\ ins.arg1 \in MP!I32
  BY <1>4, <1>7, <1>8 DEF MP!Instruction
<1>10. MAX_CYCLES = 0 \/ cycles < MAX_CYCLES
  BY <1>1, <1>3, <1>5, <1>6, Assumptions DEF FrameFits
<1>11. Len(stack) - MP!Popped(ins) + MP!Pushed(ins) <= MAX_OPERAND_STACK
  <2>1. PICK i \in 1 .. Len(order) : order[i] = main /\ VP!Sound(i, pc, states[main])
    BY <1>5
  <2>2. VP!After(ins, s).depth <= MAX_OPERAND_STACK
    BY <1>7, <2>1 DEF VP!Sound, VP!Code
  <2>3. VP!After(ins, s).depth = s.depth - MP!Popped(ins) + MP!Pushed(ins)
    BY SameEffects DEF VP!After
  <2> QED
    BY <1>1, <2>2, <2>3
<1>12. MP!Slot(MP!arg1) = MP!arg1 + 1
  <2>1. MP!Frame.base_ptr = 0
    BY <1>1 DEF IInv, MP!IInv, MP!FrameLayout, MP!Frame
  <2>2. MP!arg1 \in Int
    BY <1>9, Assumptions DEF MP!I32, MP!arg1
  <2> QED
    BY <2>1, <2>2 DEF MP!Slot
<1>13. ASSUME ins.opcode = "LoadLocal" PROVE MP!arg1 \in s.init
  <2>1. VP!Noted(main, pc)
    BY <1>1, InstructionNoted
  <2>2. ~VP!UndefinedUse(ins, s)
    BY <1>3, <1>7, <2>1 DEF VP!Noted, VP!Code
  <2> QED
    BY <1>13, <2>2 DEF VP!UndefinedUse, MP!arg1
<1>14. ASSUME ins.opcode = "StoreLocal" PROVE MP!arg1 \in 0 .. JIT_FRAME_WORDS - 1
  <2>1. MP!arg1 \in 0 .. MP!LocalCount(MP!Frame) - 1
    BY <1>2, <1>14 DEF MP!Guarded, MP!WellFormed
  <2>2. MP!Slot(MP!arg1) \in 1 .. MAX_LOCAL_SLOTS
    BY <1>1, <1>2, <1>14, MP!UnstoppedSlot, Assumptions DEF IInv
  <2>3. MP!arg1 \in Nat /\ MP!arg1 + 1 <= MAX_LOCAL_SLOTS
    <3>1. MP!LocalCount(MP!Frame) \in Nat
      BY <1>1, MP!RunningFacts, Assumptions DEF IInv
    <3> QED
      BY <1>12, <2>1, <2>2, <3>1
  <2> QED
    BY <2>3, FrameAssumption, Assumptions DEF FrameFits
<1>15. MP!I64Min \notin MP!I32 /\ MP!I32 = I32
  BY MP!DefiniteValues, Assumptions DEF MP!Definite, MP!I32, I32
<1>16. stack \in Seq(I32) /\ \A x \in s.init : locals[x + 1] \in I32
  BY DEF InMain, Shows
<1>17. ins.opcode = "LoadLocal" => locals[MP!Slot(MP!arg1)] # MP!I64Min
  BY <1>12, <1>13, <1>15, <1>16
<1>18. ASSUME ins.opcode = "Neg" PROVE MP!Top(0) # MP!I64Min
  <2>1. MP!Popped(ins) = 1
    BY <1>18 DEF MP!Popped, MP!BinaryOps, MP!Arithmetic, MP!Comparisons, MP!Allocations
  <2>2. Len(stack) \in Nat /\ Len(stack) >= 1
    BY <1>1, <1>2, <2>1
  <2>3. stack[Len(stack)] \in I32
    BY <1>16, <2>2
  <2>4. MP!Top(0) = stack[Len(stack)]
    BY <2>2 DEF MP!Top
  <2> QED
    BY <1>15, <2>3, <2>4
<1>19. MP!Unstopped
  BY <1>2, <1>10, <1>11, <1>17, <1>18 DEF MP!Unstopped
<1> QED
  BY <1>1, <1>2, <1>3, <1>5, <1>9, <1>12, <1>13, <1>14, <1>19

\* The operations of the machine are those of the native code's definition.
LEMMA SameResults ==
  /\ \A op, a, b : MP!BinaryResult(op, a, b) = BinaryResult(op, a, b)
  /\ \A op, a : MP!UnaryResult(op, a) = UnaryResult(op, a)
  /\ MP!Comparisons = Comparisons /\ MP!UnaryOps = UnaryOps /\ MP!I32 = I32
  BY DEF MP!BinaryResult, BinaryResult, MP!UnaryResult, UnaryResult, MP!normalize_i32,
     normalize_i32, MP!TruncDiv, TruncDiv, MP!Abs, Abs, MP!Bool, Bool, MP!Comparisons,
     Comparisons, MP!UnaryOps, UnaryOps, MP!I32, I32

\* An instruction of main other than Return: the next one is behind it, with the
\* depth and the locals the report says, when its code shows the stack stk.
LEMMA OneMore ==
  ASSUME IInv, VP!RecordsOK, FrameFits, NegationsFit, V!valid, jit, InMain, MP!Next,
         UNCHANGED v_vars, MP!Instr.opcode # "Return",
         call_stack' = call_stack, status' = status, pc' = pc + 1, cycles' = cycles + 1,
         LET s == states[prog.main_func_id][pc]
         IN  Shows(Executed(Behind, compile_instruction(MP!Instr)), stack', locals',
                   IF MP!Instr.opcode = "StoreLocal" THEN s.init \cup {MP!arg1} ELSE s.init)
  PROVE  InMain'
PROOF
<1> DEFINE main == prog.main_func_id
           s == states[main][pc]
           ins == MP!Instr
           after == IF ins.opcode = "StoreLocal" THEN s.init \cup {MP!arg1} ELSE s.init
<1>1. /\ status = "running" /\ Len(call_stack) = 1 /\ call_stack[1].func_id = main
      /\ Len(stack) = s.depth
  BY DEF InMain
<1>2. MainEntry \in Nat /\ pc \in Nat /\ ins.opcode \in Supported /\ ins.arg1 \in MP!I32
  BY MainUnstopped
<1>3. prog' = prog /\ states' = states
  BY ProgramKept DEF v_vars
<1>4. ins.opcode \notin {"Call", "Return", "Halt"} /\ MP!Targets = {pc + 1}
  BY <1>2 DEF Supported, Comparisons, UnaryOps, MP!Targets, MP!Jumps
<1>5. MP!Moves
  <2>1. MP!Outcome
    BY <1>1, TopFrame, MP!GuardedStep, Assumptions DEF IInv
  <2> QED
    BY <1>1, <1>4, <2>1 DEF MP!Outcome, MP!Traps, MP!Ends, MP!Enters, MP!Leaves
<1>6. states[main][pc + 1].depth = s.depth - MP!Popped(ins) + MP!Pushed(ins)
  BY <1>1, <1>4, TopFrame
<1>7. Len(stack') = states[main][pc + 1].depth
  BY <1>1, <1>5, <1>6 DEF MP!Moves
<1>8. states[main][pc + 1].init \subseteq after
  <2>1. \A x \in states[main][pc + 1].init :
          x \in s.init \/ (ins.opcode = "StoreLocal" /\ x = MP!arg1)
    BY <1>1, <1>4, InitFlows
  <2> QED
    BY <2>1
<1>9. Shows(Executed(Behind, compile_instruction(ins)), stack', locals',
            states[main][pc + 1].init)
  BY <1>8, ShowsFewer
<1>10. ins.arg1 \in Int
  BY <1>2, Assumptions DEF MP!I32
<1> QED
  BY <1>1, <1>2, <1>3, <1>4, <1>7, <1>9, <1>10, Onward

\* One instruction of main, on the machine and as native code.
LEMMA MainGoesOn ==
  ASSUME IInv, VP!RecordsOK, FrameFits, NegationsFit, V!valid, jit, InMain, MP!Next,
         UNCHANGED v_vars, MP!Instr.opcode # "Return"
  PROVE  InMain'
PROOF
<1> DEFINE main == prog.main_func_id
           init == states[main][pc].init
           ins == MP!Instr
           len == Len(stack)
           native == Executed(Behind, compile_instruction(ins))
<1>1. /\ status = "running" /\ Shows(Behind, stack, locals, init)
  BY DEF InMain
<1>2. /\ ins.opcode \in Supported /\ ins.arg1 \in I32 /\ MP!arg1 = ins.arg1
      /\ len >= MP!Popped(ins)
      /\ MP!Slot(MP!arg1) = MP!arg1 + 1
      /\ ins.opcode = "LoadLocal" => MP!arg1 \in init
      /\ ins.opcode = "StoreLocal" => MP!arg1 \in 0 .. JIT_FRAME_WORDS - 1
      /\ MP!Unstopped
  BY MainUnstopped, SameResults DEF MP!arg1
<1>3. ASSUME NEW stk, MP!Rewrites(stk), ins.opcode # "StoreLocal",
             Shows(native, stk, locals, init)
      PROVE  InMain'
  BY <1>3, OneMore DEF MP!Rewrites
<1>4. /\ MP!Drop(1) = SubSeq(stack, 1, len - 1) /\ MP!Drop(2) = SubSeq(stack, 1, len - 2)
      /\ MP!Top(1) = stack[len - 1] /\ MP!Top(0) = stack[len]
  <2>1. len - 0 = len
    BY DEF IInv, MP!IInv, MP!DataOK
  <2> QED
    BY <2>1 DEF MP!Drop, MP!Top
<1>5. ins.opcode \in MP!StraightOps
  BY <1>2, SameResults DEF MP!StraightOps, Supported
<1>6. MP!IInv
  BY DEF IInv
<1>7. CASE ins.opcode = "LoadConst"
  <2>1. MP!Rewrites(Append(stack, ins.arg1))
    BY <1>1, <1>2, <1>5, <1>6, <1>7, MP!StraightStep, Assumptions
  <2>2. Shows(native, Append(stack, ins.arg1), locals, init)
    BY <1>1, <1>2, <1>7, LoadsShow
  <2> QED
    BY <1>3, <1>7, <2>1, <2>2
<1>8. CASE ins.opcode = "LoadLocal"
  <2>1. MP!Rewrites(Append(stack, locals[ins.arg1 + 1]))
    BY <1>1, <1>2, <1>5, <1>6, <1>8, MP!StraightStep, Assumptions
  <2>2. Shows(native, Append(stack, locals[ins.arg1 + 1]), locals, init)
    BY <1>1, <1>2, <1>8, LoadsShow
  <2> QED
    BY <1>3, <1>8, <2>1, <2>2
<1>9. CASE ins.opcode = "StoreLocal"
  <2>1. /\ stack' = SubSeq(stack, 1, len - 1)
        /\ locals' = [locals EXCEPT ![ins.arg1 + 1] = stack[len]]
        /\ call_stack' = call_stack /\ status' = status
        /\ pc' = pc + 1 /\ cycles' = cycles + 1
    BY <1>1, <1>2, <1>4, <1>5, <1>6, <1>9, MP!StraightStep, Assumptions
  <2>2. len >= 1
    BY <1>2, <1>9, MP!Effects, Assumptions
  <2>3. ins.arg1 + 1 \in DOMAIN locals
    <3>1. MP!Slot(MP!arg1) \in 1 .. MAX_LOCAL_SLOTS
      BY <1>1, <1>2, <1>6, <1>9, MP!UnstoppedSlot, Assumptions DEF MP!Unstopped
    <3>2. locals \in Seq(MP!Values) /\ Len(locals) >= MAX_LOCAL_SLOTS
      BY <1>6 DEF MP!IInv, MP!DataOK
    <3> QED
      BY <1>2, <3>1, <3>2, Assumptions
  <2>4. locals'[ins.arg1 + 1] = stack[len]
    BY <2>1, <2>3
  <2>5. ASSUME NEW x \in init, x # ins.arg1 PROVE locals'[x + 1] = locals[x + 1]
    <3>1. x \in Int /\ ins.arg1 \in Int
      BY <1>1, <1>2, <1>9, FrameAssumption DEF Shows
    <3>2. x + 1 # ins.arg1 + 1
      BY <2>5, <3>1
    <3> QED
      BY <2>1, <3>2
  <2>6. Shows(native, SubSeq(stack, 1, len - 1), locals', init \cup {ins.arg1})
    BY <1>1, <1>2, <1>9, <2>2, <2>4, <2>5, StoresShow
  <2> QED
    BY <1>2, <1>9, <2>1, <2>6, OneMore
<1>10. CASE ins.opcode \in Comparisons \cup {"Add", "Sub", "Mul"}
  <2>1. MP!Popped(ins) = 2
    BY <1>10, MP!Effects, Assumptions DEF MP!BinaryOps, MP!Arithmetic, MP!Comparisons,
       Comparisons
  <2>2. PICK stk : stk = Append(SubSeq(stack, 1, len - 2),
                                BinaryResult(ins.opcode, stack[len - 1], stack[len]))
    OBVIOUS
  <2>3. MP!Rewrites(Append(MP!Drop(2), MP!BinaryResult(ins.opcode, MP!Top(1), MP!Top(0))))
    BY <1>1, <1>2, <1>5, <1>6, <1>10, MP!StraightStep, SameResults, Assumptions
  <2>4. MP!Rewrites(stk)
    BY <1>4, <2>2, <2>3, SameResults
  <2>5. Shows(native, stk, locals, init)
    BY <1>1, <1>2, <1>10, <2>1, <2>2, BinaryShows
  <2> QED
    BY <1>3, <1>10, <2>4, <2>5 DEF Comparisons
<1>11. CASE ins.opcode \in UnaryOps
  <2>1. MP!Popped(ins) = 1
    BY <1>11, MP!Effects, SameResults, Assumptions
  <2>2. PICK stk : stk = Append(SubSeq(stack, 1, len - 1),
                                UnaryResult(ins.opcode, stack[len]))
    OBVIOUS
  <2>3. MP!Rewrites(Append(MP!Drop(1), MP!UnaryResult(ins.opcode, MP!Top(0))))
    BY <1>1, <1>2, <1>5, <1>6, <1>11, MP!StraightStep, SameResults, Assumptions
  <2>4. MP!Rewrites(stk)
    BY <1>4, <2>2, <2>3, SameResults
  <2>5. ins.opcode = "Neg" => stack[len] # -Half
    BY <1>1, <1>4 DEF NegationsFit
  <2>6. Shows(native, stk, locals, init)
    BY <1>1, <1>2, <1>11, <2>1, <2>2, <2>5, UnaryShows
  <2> QED
    BY <1>3, <1>11, <2>4, <2>6 DEF UnaryOps
<1>12. CASE ins.opcode \in {"Pop", "Dup"}
  <2>1. len >= 1
    BY <1>2, <1>12, MP!Effects, Assumptions
  <2>2. /\ ins.opcode = "Pop" => MP!Rewrites(SubSeq(stack, 1, len - 1))
        /\ ins.opcode = "Dup" => MP!Rewrites(Append(stack, stack[len]))
    BY <1>1, <1>2, <1>4, <1>5, <1>6, <1>12, MP!StraightStep, Assumptions
  <2>3. /\ ins.opcode = "Pop" => Shows(native, SubSeq(stack, 1, len - 1), locals, init)
        /\ ins.opcode = "Dup" => Shows(native, Append(stack, stack[len]), locals, init)
    BY <1>1, <2>1, CopiesShow
  <2> QED
    BY <1>3, <1>12, <2>2, <2>3
<1> QED
  BY <1>2, <1>7, <1>8, <1>9, <1>10, <1>11, <1>12 DEF Supported

\* The Return of main: the machine exits with the operand on top, and the code
\* compile emits, which ends here, returns it.
LEMMA MainComesBack ==
  ASSUME IInv, VP!RecordsOK, FrameFits, NegationsFit, V!valid, jit, InMain, MP!Next,
         UNCHANGED v_vars, MP!Instr.opcode = "Return"
  PROVE  Returned'
PROOF
<1> DEFINE ins == MP!Instr
           code == Emitted(prog, pc - MainEntry)
           native == Executed(Behind, compile_instruction(ins))
<1>1. /\ status = "running" /\ Len(call_stack) = 1 /\ pc >= MainEntry
      /\ \A q \in MainEntry .. pc - 1 : prog.instructions[q + 1].opcode # "Return"
      /\ code \in Seq(MachineCode)
      /\ Shows(Behind, stack, locals, states[prog.main_func_id][pc].init)
  BY DEF InMain
<1>2. /\ MainEntry \in Nat /\ pc \in Nat /\ ins.arg1 \in I32
      /\ Len(stack) >= MP!Popped(ins) /\ MP!Unstopped
  BY MainUnstopped, SameResults
<1>3. status' = "exited" /\ return_value' = MP!Top(0)
  BY <1>1, <1>2, MP!MainReturns, Assumptions DEF IInv
<1>4. prog' = prog
  BY ProgramKept
<1>5. pc \in MainEntry .. Len(prog.instructions) - 1 /\ Len(prog.instructions) \in Nat
      /\ ins = prog.instructions[pc + 1]
  <2>1. pc < Len(MP!Code) /\ Len(prog.instructions) \in Nat
    BY <1>2 DEF MP!Unstopped, MP!Guarded, IInv, MP!IInv, MP!ControlOK, MP!IsProgram
  <2> QED
    BY <1>1, <1>2, <2>1 DEF MP!Instr, MP!Code
<1>6. PICK r \in MainEntry .. Len(prog.instructions) - 1 :
        /\ prog.instructions[r + 1].opcode = "Return"
        /\ \A q \in MainEntry .. r : prog.instructions[q + 1].opcode \in Supported
  BY JitFacts
<1>7. MainRange(prog) = MainEntry .. pc /\ Cardinality(MainRange(prog)) = (pc - MainEntry) + 1
  BY <1>1, <1>2, <1>5, MainRangeIs DEF MainEntry
<1>8. pc <= r
  <2>1. r < pc => prog.instructions[r + 1].opcode # "Return"
    BY <1>1, <1>2
  <2> QED
    BY <1>2, <1>5, <1>6, <2>1
<1>9. supports_program(prog)
  <2>1. Cardinality(DOMAIN prog.functions) = 1
    BY JitFacts
  <2>2. MainRange(prog) # {}
    BY <1>2, <1>5, <1>7
  <2>3. \A q \in MainRange(prog) : prog.instructions[q + 1].opcode \in Supported
    BY <1>2, <1>5, <1>6, <1>7, <1>8
  <2> QED
    BY <2>1, <2>2, <2>3 DEF supports_program
<1>10. Native(prog) = native
  <2>1. PICK n \in Nat : n = pc - MainEntry
    BY <1>1, <1>2
  <2>2. compile(prog) = Emitted(prog, n + 1)
    BY <1>7, <2>1 DEF compile
  <2>3. Emitted(prog, n + 1) = code \o compile_instruction(ins)
    <3>1. Emitted(prog, n + 1) =
            Emitted(prog, n) \o compile_instruction(prog.instructions[MainEntry + (n + 1)])
      BY EmittedGrows DEF MainEntry
    <3>2. MainEntry + (n + 1) = pc + 1
      BY <1>2, <2>1
    <3> QED
      BY <1>5, <2>1, <3>1, <3>2
  <2>4. compile_instruction(ins) \in Seq(MachineCode)
    <3>1. ins.opcode \in Supported
      BY DEF Supported
    <3>2. ins.arg1 \in Int
      BY <1>2, Assumptions DEF I32
    <3> QED
      BY <3>1, <3>2, CodeTyped
  <2>5. Executed(Machine, code \o compile_instruction(ins)) =
          Executed(Executed(Machine, code), compile_instruction(ins))
    BY <1>1, <2>4, ExecutedJoins
  <2> QED
    BY <2>2, <2>3, <2>5 DEF Native, Behind
<1>11. Len(stack) \in Nat /\ Len(stack) >= 1 /\ MP!Top(0) = stack[Len(stack)]
  <2>1. Len(stack) \in Nat /\ MP!Popped(ins) = 1
    BY MP!Effects, Assumptions DEF IInv, MP!IInv, MP!DataOK
  <2> QED
    BY <1>2, <2>1 DEF MP!Top
<1>12. /\ native.returned /\ native.rsp = Entry + 1 /\ native.rbp = Caller
       /\ native.rax = stack[Len(stack)]
  BY <1>1, <1>11, ReturnShows
<1> QED
  BY <1>3, <1>4, <1>9, <1>10, <1>11, <1>12 DEF Returned

\* A step of the machine keeps the invariant.
LEMMA NativeKept ==
  ASSUME IInv, VP!RecordsOK, FrameFits, MainTakesNothing, NegationsFit, NativeOK,
         [Next]_vars
  PROVE  NativeOK'
PROOF
<1>1. CASE VerifyStep
  <2>1. UNCHANGED m_vars /\ V!Verify
    BY <1>1 DEF VerifyStep
  <2>2. phase # "done"
    BY <2>1 DEF V!Verify, V!CheckMetadata, V!EnterFunction, V!LeaveRange,
       V!RejectInstruction, V!StepInstruction, V!Report, V!Dequeue
  <2>3. status = "new" /\ status' = "new" /\ cycles' = cycles
    BY <2>1, <2>2 DEF IInv, MachineOK, V!valid, m_vars
  <2> QED
    BY <2>3 DEF NativeOK
<1>2. CASE RunStep
  <2>1. UNCHANGED v_vars /\ MP!Next /\ V!valid /\ jit' = jit /\ prog' = prog
    BY <1>2, SameNext, ProgramKept DEF RunStep, v_vars
  <2>2. MP!IInv /\ MP!PreflightTraps(prog) = {}
    BY <2>1, ValidPassesPreflight DEF IInv
  <2>3. CASE status = "new"
    <3>1. MP!EnterMain
      BY <2>1, <2>2, <2>3, MP!NewStarts, Assumptions DEF MP!RejectProgram
    <3>2. jit => InMain'
      BY <2>1, <2>3, <3>1, MainEntersNative DEF NativeOK
    <3>3. status' # "new"
      BY <3>1 DEF MP!EnterMain
    <3> QED
      BY <2>1, <3>2, <3>3 DEF NativeOK
  <2>4. CASE status = "running"
    <3>1. status' # "new"
      BY <2>1, <2>2, <2>4, MP!GuardedStep, TopFrame, Assumptions
         DEF MP!Outcome, MP!Traps, MP!Ends, MP!Moves, MP!Enters, MP!Leaves, MP!Stays
    <3>2. ASSUME jit PROVE InMain' \/ Returned'
      <4>1. InMain
        BY <2>4, <3>2 DEF NativeOK, Returned
      <4>2. CASE MP!Instr.opcode = "Return"
        BY <2>1, <3>2, <4>1, <4>2, MainComesBack
      <4>3. CASE MP!Instr.opcode # "Return"
        BY <2>1, <3>2, <4>1, <4>3, MainGoesOn
      <4> QED
        BY <4>2, <4>3
    <3> QED
      BY <2>1, <3>1, <3>2 DEF NativeOK
  <2>5. CASE status \in MP!Final
    <3>1. status' = status /\ return_value' = return_value
      BY <2>1, <2>5, MP!FinalStays, Assumptions DEF MP!Done, MP!vars
    <3>2. jit => Returned
      BY <2>5 DEF NativeOK, InMain, MP!Final
    <3> QED
      BY <2>1, <2>5, <3>1, <3>2 DEF NativeOK, Returned, MP!Final
  <2>6. status \in {"new", "running"} \cup MP!Final
    BY <2>2 DEF MP!IInv, MP!ControlOK
  <2> QED
    BY <2>3, <2>4, <2>5, <2>6
<1>3. CASE UNCHANGED vars
  <2>1. UNCHANGED <<prog, states, jit, pc, stack, locals, call_stack, cycles, status,
                    return_value>>
    BY <1>3 DEF vars, v_vars, m_vars
  <2>2. MainEntry' = MainEntry /\ Behind' = Behind
    BY <2>1 DEF MainEntry, Behind
  <2>3. InMain' = InMain
    BY <2>1, <2>2 DEF InMain
  <2>4. Returned' = Returned
    BY <2>1 DEF Returned
  <2> QED
    BY <2>1, <2>3, <2>4 DEF NativeOK
<1> QED
  BY <1>1, <1>2, <1>3 DEF Next, Refused

\* A program jit_status lets through runs to the end of main on the machine and
\* never traps, and the native code compile emits for it returns the same value
\* to its caller: for every program and all limits under which a local has its
\* word in the native frame, if main takes nothing and no Neg meets the least
\* i32 (compile, emit_prologue, compile_instruction, run_jit).
THEOREM NativeCodeAgrees ==
  FrameFits => (Spec /\ []MainTakesNothing /\ []NegationsFit => []JitAgrees)
PROOF
<1> SUFFICES ASSUME FrameFits
             PROVE  Spec /\ []MainTakesNothing /\ []NegationsFit => []JitAgrees
  OBVIOUS
<1>1. Init => NativeOK
  BY DEF Init, M!New, NativeOK
<1>2. IInv /\ VP!RecordsOK /\ MainTakesNothing /\ NegationsFit /\ NativeOK /\ [Next]_vars
        => NativeOK'
  BY NativeKept
<1>3. NativeOK => JitAgrees
  BY DEF NativeOK, InMain, Returned, JitAgrees
<1> QED
  BY <1>1, <1>2, <1>3, Invariance, RecordsHold, PTL DEF Spec
===============================================================================
