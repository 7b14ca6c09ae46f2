---------------------------------- MODULE Vm ----------------------------------
(***************************************************************************)
(* The reference virtual machine, vm.rs: one instruction per step.         *)
(*                                                                         *)
(* The operand stack is shared by all frames.  Every frame's locals live   *)
(* in one vector, `locals`: frame k occupies the local_count slots from    *)
(* base_ptr, right above its caller's, and AllocArray appends arrays after *)
(* the first MAX_LOCAL_SLOTS slots.  An array reference is the plain index *)
(* of its first element.  Slots are numbered from 0 as in the code; the    *)
(* TLA+ sequences are indexed from 1, hence the + 1.                       *)
(*                                                                         *)
(* Debug printing, traces, allocator and collector statistics do not feed  *)
(* back into execution and are left out.                                   *)
(***************************************************************************)
EXTENDS Bytecode

VARIABLES
  prog,          \* the CompiledProgram; never written
  pc,
  stack,         \* operand stack of i64
  locals,        \* slots of all frames, then the local arrays
  globals,
  call_stack,    \* frames [return_pc, base_ptr, func_id], innermost last
  cycles,
  output,        \* printed values
  status,        \* "new", "running", or how `run` ended
  trap_code,     \* VmResult.trap_code
  return_value   \* VmResult.return_value

result  == <<status, trap_code, return_value>>
vars    == <<prog, pc, stack, locals, globals, call_stack, cycles, output,
             status, trap_code, return_value>>

Final == {"exited", "trapped", "panicked"}

(***************************************************************************)
(* Reading the machine.                                                    *)
(***************************************************************************)
Code  == prog.instructions
Instr == Code[pc + 1]
arg1  == Instr.arg1
arg2  == Instr.arg2
Frame == call_stack[Len(call_stack)]
Top(k)  == stack[Len(stack) - k]                \* Top(0) is the last pushed
Drop(n) == SubSeq(stack, 1, Len(stack) - n)     \* after n pops

LocalCount(f) == prog.functions[f.func_id].local_count

\* The element of `locals` a slot operand of the running frame names.
Slot(raw) == Frame.base_ptr + raw + 1

(***************************************************************************)
(* Checks of the locals; the other ones are in Bytecode.                   *)
(***************************************************************************)

\* current_local_slot
SlotFault(raw, stk) ==
  Fault(raw < 0 \/ raw >= LocalCount(Frame), "InvalidInstruction", stk)
    ?? Fault(Frame.base_ptr + raw >= MAX_LOCAL_SLOTS, "StackOverflow", stk)

\* local_array_base: the slot must hold an index with `size` elements behind it.
ArrayBaseFault(base, size, stk) ==
  Fault(base = I64Min, "UndefinedLocal", stk)
    ?? Fault(base < 0 \/ base + size > Len(locals), "InvalidInstruction", stk)

(***************************************************************************)
(* How an instruction ends.                                                *)
(***************************************************************************)
\* MUTANT of Fetch: jumps are not counted.
FetchFreeJumps(ops) ==
  /\ status = "running"
  /\ MAX_CYCLES = 0 \/ cycles < MAX_CYCLES
  /\ pc < Len(Code)
  /\ Instr.opcode \in ops
  /\ cycles' = IF Instr.opcode \in Jumps THEN cycles ELSE cycles + 1
  /\ prog' = prog

\* The top of the loop of `run`, for an instruction of `ops`.
Fetch(ops) ==
  /\ status = "running"
  /\ MAX_CYCLES = 0 \/ cycles < MAX_CYCLES
  /\ pc < Len(Code)
  /\ Instr.opcode \in ops
  /\ cycles' = cycles + 1
  /\ prog' = prog

\* Err(..): make_trap_result.  `locals` may have been written already.
Abort(fault) ==
  /\ status' = "trapped"
  /\ trap_code' = fault.code
  /\ stack' = fault.stack
  /\ UNCHANGED <<pc, globals, call_stack, output, return_value>>

Trap(fault) == Abort(fault) /\ UNCHANGED locals

\* Run `effect` unless a check of the handler fails first.
Checked(fault, effect) ==
  \/ fault.code # "None" /\ Trap(fault)
  \/ fault.code = "None" /\ effect

\* Ok(true) and Ok(false): fall through, or go where the handler says.
GoTo(target) ==
  /\ pc' = target
  /\ UNCHANGED <<call_stack, result>>

Advance == GoTo(pc + 1)

\* An instruction that only rewrites the operand stack.
StackOnly(stk) ==
  /\ stack' = stk
  /\ Advance
  /\ UNCHANGED <<locals, globals, output>>

\* The end of `run` once the call stack is empty: the result is popped.
Exit ==
  /\ status' = "exited"
  /\ return_value' = IF stack = <<>> THEN 0 ELSE Top(0)
  /\ stack' = IF stack = <<>> THEN stack ELSE Drop(1)
  /\ call_stack' = <<>>
  /\ UNCHANGED <<locals, globals, output, trap_code>>

(***************************************************************************)
(* Start of `run`.                                                         *)
(***************************************************************************)
New ==
  /\ pc = 0
  /\ stack = <<>>
  /\ locals = [i \in 1 .. MAX_LOCAL_SLOTS |-> I64Min]
  /\ globals = [i \in 1 .. MAX_GLOBAL_SLOTS |-> 0]
  /\ call_stack = <<>>
  /\ cycles = 0
  /\ output = <<>>
  /\ status = "new"
  /\ trap_code = "None"
  /\ return_value = 0

Init == prog \in Programs /\ New

RejectProgram ==
  /\ status = "new"
  /\ \E code \in PreflightTraps(prog) :
       /\ status' = "trapped"
       /\ trap_code' = code
       /\ UNCHANGED <<prog, pc, stack, locals, globals, call_stack, cycles,
                      output, return_value>>

EnterMain ==
  /\ status = "new"
  /\ PreflightTraps(prog) = {}
  /\ status' = "running"
  /\ pc' = prog.functions[prog.main_func_id].entry_pc
  /\ call_stack' = <<[return_pc |-> USIZE_MAX, base_ptr |-> 0,
                      func_id |-> prog.main_func_id]>>
  /\ UNCHANGED <<prog, stack, locals, globals, cycles, output, trap_code,
                 return_value>>

\* The cycle limit and the fetch check at the top of the loop.
LoopTrap ==
  /\ status = "running"
  /\ \/ /\ MAX_CYCLES > 0 /\ cycles >= MAX_CYCLES
        /\ Trap([code |-> "CycleLimit", stack |-> stack])
     \/ /\ MAX_CYCLES = 0 \/ cycles < MAX_CYCLES
        /\ pc >= Len(Code)
        /\ Trap([code |-> "InvalidInstruction", stack |-> stack])
  /\ UNCHANGED <<prog, cycles>>

(***************************************************************************)
(* execute_instruction, one action per opcode or group of like opcodes.    *)
(***************************************************************************)
LoadConst ==
  /\ Fetch({"LoadConst"})
  /\ Checked(PushFault(stack), StackOnly(Append(stack, arg1)))

LoadLocal ==
  /\ Fetch({"LoadLocal"})
  /\ Checked(SlotFault(arg1, stack)
               ?? Fault(locals[Slot(arg1)] = I64Min, "UndefinedLocal", stack)
               ?? PushFault(stack),
             StackOnly(Append(stack, locals[Slot(arg1)])))

StoreLocal ==
  /\ Fetch({"StoreLocal"})
  /\ Checked(PopFault(stack, 1) ?? SlotFault(arg1, Drop(1)),
             /\ stack' = Drop(1)
             /\ locals' = [locals EXCEPT ![Slot(arg1)] = Top(0)]
             /\ Advance
             /\ UNCHANGED <<globals, output>>)

LoadGlobal ==
  /\ Fetch({"LoadGlobal"})
  /\ Checked(GlobalFault(arg1, stack) ?? PushFault(stack),
             StackOnly(Append(stack, globals[arg1 + 1])))

StoreGlobal ==
  /\ Fetch({"StoreGlobal"})
  /\ Checked(GlobalFault(arg1, stack) ?? PopFault(stack, 1),
             /\ stack' = Drop(1)
             /\ globals' = [globals EXCEPT ![arg1 + 1] = Top(0)]
             /\ Advance
             /\ UNCHANGED <<locals, output>>)

\* Overflowing i64 division panics; i64::MIN is the only dividend it can
\* happen to.  A failing push is impossible after two pops.
DivOverflows == Instr.opcode = "Div" /\ Top(1) = I64Min /\ Top(0) = -1

Binary ==
  /\ Fetch(BinaryOps)
  /\ Len(stack) >= 2 => ~DivOverflows
  /\ Checked(PopFault(stack, 2)
               ?? Fault(Instr.opcode = "Div" /\ Top(0) = 0, "DivideByZero", Drop(2)),
             StackOnly(Append(Drop(2),
                              BinaryResult(Instr.opcode, Top(1), Top(0)))))

\* -i64::MIN wraps to itself in a release build (see ArithmeticPanic).
Unary ==
  /\ Fetch(UnaryOps)
  /\ Checked(PopFault(stack, 1),
             StackOnly(Append(Drop(1), UnaryResult(Instr.opcode, Top(0)))))

\* The two operations on i64 that are not wrapping_*: `a / b` panics on
\* overflow in every build, `-a` in builds with overflow checks.
ArithmeticPanic ==
  /\ Fetch({"Div", "Neg"})
  /\ \/ Len(stack) >= 2 /\ DivOverflows
     \/ Len(stack) >= 1 /\ Instr.opcode = "Neg" /\ Top(0) = I64Min
  /\ status' = "panicked"
  /\ UNCHANGED <<pc, stack, locals, globals, call_stack, output, trap_code,
                 return_value>>

Jump ==
  /\ Fetch({"Jump"})
  /\ GoTo(AsUsize(arg1))
  /\ UNCHANGED <<stack, locals, globals, output>>

\* JumpIfFalse, JumpIfTrue
BranchTaken == IF Instr.opcode = "JumpIfFalse" THEN Top(0) = 0 ELSE Top(0) # 0

Branch ==
  /\ Fetch({"JumpIfFalse", "JumpIfTrue"})
  /\ Checked(PopFault(stack, 1),
             /\ stack' = Drop(1)
             /\ GoTo(IF BranchTaken THEN AsUsize(arg1) ELSE pc + 1)
             /\ UNCHANGED <<locals, globals, output>>)

\* MUTANT of NewBase: the callee's first slot is the caller's last one.
NewBaseOverlap == Frame.base_ptr + LocalCount(Frame) - 1

\* The callee's frame starts right above the caller's.
NewBase == Frame.base_ptr + LocalCount(Frame)
Callee  == prog.functions[arg1]

CallFault ==
  Fault(arg1 < 0 \/ arg2 < 0, "InvalidInstruction", stack)
    ?? Fault(arg1 \notin DOMAIN prog.functions, "UndefinedFunction", stack)
    ?? Fault(arg2 # Callee.param_count, "InvalidInstruction", stack)
    ?? Fault(Len(call_stack) >= MAX_FRAMES, "StackOverflow", stack)
    ?? Fault(NewBase + Callee.local_count > MAX_LOCAL_SLOTS, "StackOverflow", stack)

\* MUTANT of PassArguments: every argument lands one slot too low.
PassArgumentsLow ==
  [i \in 1 .. Len(locals) |->
     LET from == Len(stack) - arg2 + (i + 1 - NewBase)
     IN  IF i + 1 - NewBase \in 1 .. arg2 /\ from >= 1 THEN stack[from] ELSE locals[i]]

\* Arguments are popped from the last to the first into the new slots; the
\* ones that were popped before an underflow have been written.
PassArguments ==
  [i \in 1 .. Len(locals) |->
     LET from == Len(stack) - arg2 + (i - NewBase)
     IN  IF i - NewBase \in 1 .. arg2 /\ from >= 1 THEN stack[from] ELSE locals[i]]

\* ... and the remaining slots of the frame become undefined.
CalleeLocals ==
  [i \in 1 .. Len(locals) |->
     IF i - NewBase \in (arg2 + 1) .. Callee.local_count THEN I64Min
     ELSE PassArguments[i]]

\* MUTANT of CalleeFrame: the return address is the Call itself.
CalleeFrameReturnsToCall ==
  [return_pc |-> pc, base_ptr |-> NewBase, func_id |-> arg1]

CalleeFrame == [return_pc |-> pc + 1, base_ptr |-> NewBase, func_id |-> arg1]

Call ==
  /\ Fetch({"Call"})
  /\ Checked(CallFault,
       \/ /\ Len(stack) < arg2
          /\ Abort(PopFault(stack, arg2))
          /\ locals' = PassArguments
       \/ /\ Len(stack) >= arg2
          /\ stack' = Drop(arg2)
          /\ locals' = CalleeLocals
          /\ call_stack' = Append(call_stack, CalleeFrame)
          /\ pc' = Callee.entry_pc
          /\ UNCHANGED <<globals, output, result>>)

\* The popped value is pushed again for the caller: the stack is unchanged.
\* The sentinel address of main's frame leaves pc alone; `run` returns when
\* no frame is left.
Return ==
  /\ Fetch({"Return"})
  /\ Checked(PopFault(stack, 1),
       /\ pc' = IF Frame.return_pc = USIZE_MAX THEN pc ELSE Frame.return_pc
       /\ \/ /\ Len(call_stack) = 1
             /\ Exit
          \/ /\ Len(call_stack) > 1
             /\ call_stack' = SubSeq(call_stack, 1, Len(call_stack) - 1)
             /\ UNCHANGED <<stack, locals, globals, output, result>>)

ArrayLoad ==
  /\ Fetch({"ArrayLoad"})
  /\ Checked(GlobalRangeFault(arg1, arg2, stack) ?? PopFault(stack, 1)
               ?? IndexFault(Top(0), arg2, Drop(1)),
             StackOnly(Append(Drop(1), globals[arg1 + Top(0) + 1])))

ArrayStore ==
  /\ Fetch({"ArrayStore"})
  /\ Checked(GlobalRangeFault(arg1, arg2, stack) ?? PopFault(stack, 2)
               ?? IndexFault(Top(1), arg2, Drop(2)),
             /\ stack' = Drop(2)
             /\ globals' = [globals EXCEPT ![arg1 + Top(1) + 1] = Top(0)]
             /\ Advance
             /\ UNCHANGED <<locals, output>>)

LocalArrayLoad ==
  /\ Fetch({"LocalArrayLoad"})
  /\ Checked(SizeFault(arg2, stack) ?? PopFault(stack, 1)
               ?? IndexFault(Top(0), arg2, Drop(1)) ?? SlotFault(arg1, Drop(1))
               ?? ArrayBaseFault(locals[Slot(arg1)], arg2, Drop(1)),
             StackOnly(Append(Drop(1), locals[locals[Slot(arg1)] + Top(0) + 1])))

LocalArrayStore ==
  /\ Fetch({"LocalArrayStore"})
  /\ Checked(SizeFault(arg2, stack) ?? PopFault(stack, 2)
               ?? IndexFault(Top(1), arg2, Drop(2)) ?? SlotFault(arg1, Drop(2))
               ?? ArrayBaseFault(locals[Slot(arg1)], arg2, Drop(2)),
             /\ stack' = Drop(2)
             /\ locals' = [locals EXCEPT ![locals[Slot(arg1)] + Top(1) + 1] = Top(0)]
             /\ Advance
             /\ UNCHANGED <<globals, output>>)

\* AllocArray, ArrayNew: the array is appended before the push can fail.
Alloc ==
  /\ Fetch(Allocations)
  /\ Checked(SizeFault(arg1, stack),
       /\ locals' = locals \o [i \in 1 .. arg1 |-> 0]
       /\ \/ /\ PushFault(stack).code # "None"
             /\ Abort(PushFault(stack))
          \/ /\ PushFault(stack).code = "None"
             /\ stack' = Append(stack, Len(locals))
             /\ Advance
             /\ UNCHANGED <<globals, output>>)

PrintTop ==
  /\ Fetch({"Print"})
  /\ Checked(PopFault(stack, 1),
             /\ stack' = Drop(1)
             /\ output' = Append(output, Top(0))
             /\ Advance
             /\ UNCHANGED <<locals, globals>>)

Pop ==
  /\ Fetch({"Pop"})
  /\ Checked(PopFault(stack, 1), StackOnly(Drop(1)))

Dup ==
  /\ Fetch({"Dup"})
  /\ Checked(PopFault(stack, 1) ?? PushFault(stack), StackOnly(Append(stack, Top(0))))

\* Pops a value or takes 0, clears the call stack, pushes the value: `run`
\* then pops it as the result.
Halt ==
  /\ Fetch({"Halt"})
  /\ Exit
  /\ pc' = pc

(***************************************************************************)
(* The machine.  It is one thread that runs until `run` returns: weak      *)
(* fairness says it is not suspended for ever.                             *)
(***************************************************************************)
Execute ==
  \/ LoadConst \/ LoadLocal \/ StoreLocal \/ LoadGlobal \/ StoreGlobal
  \/ Binary \/ Unary \/ ArithmeticPanic
  \/ Jump \/ Branch \/ Call \/ Return
  \/ ArrayLoad \/ ArrayStore \/ LocalArrayLoad \/ LocalArrayStore \/ Alloc
  \/ PrintTop \/ Pop \/ Dup \/ Halt

\* `run` has returned.
Done == status \in Final /\ UNCHANGED vars

Next == RejectProgram \/ EnterMain \/ LoopTrap \/ Execute \/ Done

Spec     == Init /\ [][Next]_vars
FairSpec == Spec /\ WF_vars(Next)

(***************************************************************************)
(* Properties.                                                             *)
(***************************************************************************)
FrameType == [return_pc : Nat, base_ptr : Nat, func_id : Nat]

\* The fields of struct Vm hold values of their types and stay within their
\* limits: at most MAX_OPERAND_STACK operands, at most MAX_FRAMES frames, at
\* most MAX_CYCLES executed instructions; `locals` never shrinks below its
\* first MAX_LOCAL_SLOTS slots (push, Call, the loop of run).
TypeOK ==
  /\ IsProgram(prog)
  /\ pc \in Nat
  /\ stack \in Seq(Int) /\ Len(stack) <= MAX_OPERAND_STACK
  /\ locals \in Seq(Int) /\ Len(locals) >= MAX_LOCAL_SLOTS
  /\ globals \in [1 .. MAX_GLOBAL_SLOTS -> Int]
  /\ call_stack \in Seq(FrameType) /\ Len(call_stack) <= MAX_FRAMES
  /\ cycles \in Nat /\ (MAX_CYCLES > 0 => cycles <= MAX_CYCLES)
  /\ output \in Seq(Int)
  /\ status \in {"new", "running"} \cup Final
  /\ trap_code \in TrapCode
  /\ (trap_code # "None") <=> (status = "trapped")
  /\ return_value \in Int

\* Each frame is the window of its function's local_count slots right above
\* its caller's, main's starts at slot 0, and the innermost ends within the
\* first MAX_LOCAL_SLOTS slots; while `run` executes there is always a frame.
\* So no access to `locals` through a frame is out of range or in another
\* frame (Call, current_local_slot, the unwrap in Return).
FrameLayout ==
  /\ status = "running" => call_stack # <<>>
  /\ \A k \in 1 .. Len(call_stack) :
       /\ call_stack[k].func_id \in DOMAIN prog.functions
       /\ call_stack[k].base_ptr =
            IF k = 1 THEN 0
            ELSE call_stack[k - 1].base_ptr + LocalCount(call_stack[k - 1])
       /\ call_stack[k].base_ptr + LocalCount(call_stack[k]) <= MAX_LOCAL_SLOTS

\* Main's frame alone carries the exit sentinel; every other frame returns to
\* just behind a Call of its own function with the right number of arguments.
\* So `run` ends exactly when main returns (Call, Return).
ReturnAddresses ==
  \A k \in 1 .. Len(call_stack) :
    LET frame == call_stack[k]
    IN  IF k = 1 THEN frame.return_pc = USIZE_MAX
        ELSE /\ frame.return_pc \in 1 .. Len(Code)
             /\ Code[frame.return_pc].opcode = "Call"
             /\ Code[frame.return_pc].arg1 = frame.func_id
             /\ Code[frame.return_pc].arg2 = prog.functions[frame.func_id].param_count

\* Every value the machine holds is a 32-bit integer, the base of an array in
\* `locals`, or the undefined marker: arithmetic never leaves a value that
\* normalize_i32 should have wrapped, and never fabricates the marker.
Values == I32 \cup {I64Min} \cup MAX_LOCAL_SLOTS .. Len(locals)

OperandsNormalized ==
  /\ \A i \in 1 .. Len(stack) : stack[i] \in Values
  /\ \A i \in 1 .. Len(locals) : locals[i] \in Values
  /\ \A i \in 1 .. MAX_GLOBAL_SLOTS : globals[i] \in Values
  /\ \A i \in 1 .. Len(output) : output[i] \in Values
  /\ return_value \in Values

\* The slots below the running frame, its own unless a local is stored, and
\* the arrays.
OutOfReach(i) ==
  \/ i <= Frame.base_ptr
  \/ Instr.opcode # "StoreLocal" /\ i <= Frame.base_ptr + LocalCount(Frame)
  \/ i > MAX_LOCAL_SLOTS

OthersUntouched ==
  \A i \in 1 .. Len(locals) : OutOfReach(i) => locals'[i] = locals[i]

\* Only StoreLocal writes a slot of the running frame and only LocalArrayStore
\* one of a suspended frame or an array element: a call, complete or not, and
\* what the callee does to its own locals leave the callers' as they were
\* (Call, StoreLocal, Alloc).
SuspendedFramesFrozen ==
  [][ (status = "running" /\ pc < Len(Code) /\ Instr.opcode # "LocalArrayStore")
      => OthersUntouched ]_vars

\* `run` returns for every program: the cycle limit cuts every loop and every
\* recursion (the check at the top of the loop of run).
Termination == <>(status \in Final)

\* docs/system-artifact.md, contract of the VM: malformed bytecode traps
\* instead of panicking.
NeverPanics == status # "panicked"
===============================================================================
