------------------------------ MODULE VerifiedVm ------------------------------
(***************************************************************************)
(* The verifier in front of the reference machine, as audit_source_core of *)
(* fuzz.rs has it: a program is run only when its report is valid.  The    *)
(* JIT stands behind the same verifier in run_jit of compare.rs.           *)
(*                                                                         *)
(* operand_base is an auxiliary variable: for each frame of the machine,   *)
(* the number of operands that belong to the frames below it.              *)
(***************************************************************************)
EXTENDS Jit

VARIABLES
  prog,
  phase, order, at, states, worklist, errors, possible_traps, call_edges,
  max_stack_depth, max_frame_depth, jit,
  pc, stack, locals, globals, call_stack, cycles, output, status, trap_code,
  return_value,
  operand_base

v_vars == <<phase, order, at, states, worklist, errors, possible_traps, call_edges,
            max_stack_depth, max_frame_depth, jit>>
m_vars == <<pc, stack, locals, globals, call_stack, cycles, output, status,
            trap_code, return_value>>
vars   == <<prog, v_vars, m_vars, operand_base>>

\* Verifier's assumption on the programs, for the instance below.
ASSUME FiniteFunctionsAssumption ==
  \A p \in Programs : IsFiniteSet(DOMAIN p.functions)

V == INSTANCE Verifier
M == INSTANCE Vm

Init == prog \in Programs /\ V!New /\ M!New /\ operand_base = <<>>

VerifyStep == V!Verify /\ UNCHANGED <<m_vars, operand_base>>

\* A call's operands are popped before the frame exists.
RunStep ==
  /\ V!valid
  /\ M!Next
  /\ operand_base' = IF Len(call_stack') > Len(call_stack)
                     THEN Append(operand_base, Len(stack'))
                     ELSE SubSeq(operand_base, 1, Len(call_stack'))
  /\ UNCHANGED v_vars

\* An invalid program is reported and not run.
Refused == phase = "done" /\ ~V!valid /\ UNCHANGED vars

Next == VerifyStep \/ RunStep \/ Refused

Spec == Init /\ [][Next]_vars

(***************************************************************************)
(* Properties.                                                             *)
(***************************************************************************)

\* Where frame k is in its function: suspended frames wait behind their call.
PcOf(k) == IF k = Len(call_stack) THEN pc ELSE call_stack[k + 1].return_pc

\* The operands frame k owns.
OwnOperands(k) ==
  (IF k = Len(call_stack) THEN Len(stack) ELSE operand_base[k + 1]) - operand_base[k]

StateOf(k) == states[call_stack[k].func_id][PcOf(k)]

\* A frame that waits for a call's result has one operand less than the state
\* behind the call.
ReportedDepth(k) == StateOf(k).depth - (IF k = Len(call_stack) THEN 0 ELSE 1)

\* Every Return the verifier reached leaves nothing of its frame behind.
BalancedReturns ==
  \A f \in DOMAIN states : \A q \in DOMAIN states[f] :
    prog.instructions[q + 1].opcode = "Return" => states[f][q].depth = 1

\* Every frame is at a pc verify_function reached in its own function and owns
\* at least the operands of the abstract state there, so no pop can reach into
\* its caller's; exactly these, and at most max_stack_depth, when no function
\* returns with operands to spare.
DepthsCovered ==
  status = "running" =>
    \A k \in 1 .. Len(call_stack) :
      /\ PcOf(k) \in DOMAIN states[call_stack[k].func_id]
      /\ OwnOperands(k) >= ReportedDepth(k)
      /\ BalancedReturns => /\ OwnOperands(k) = ReportedDepth(k)
                            /\ OwnOperands(k) <= max_stack_depth

\* docs/system-artifact.md: "Stack is balanced (push/pop match)", enforced by
\* "Compiler + verifier + VM guards": a frame of a valid program owns what the
\* verifier says it owns.
StackBalanced ==
  status = "running" =>
    \A k \in 1 .. Len(call_stack) : OwnOperands(k) = ReportedDepth(k)

\* A local the verifier counts as initialised holds a value in every frame
\* (StoreLocal and the merge in verify_function; Call clears the others).
InitializedLocalsDefined ==
  status = "running" =>
    \A k \in 1 .. Len(call_stack) : \A s \in StateOf(k).init :
      locals[call_stack[k].base_ptr + s + 1] # M!I64Min

\* docs/correctness-lab.md: a valid program has "structurally valid control
\* flow, stack effects, slot references, function calls".  The machine's own
\* checks of these never fire on it; only an operand that is no array base can
\* still be an invalid instruction.
NoStructuralTrap ==
  /\ trap_code \notin {"StackUnderflow", "UndefinedFunction"}
  /\ trap_code = "InvalidInstruction" => M!Instr.opcode \in V!LocalArrayOps

\* max_frame_depth is never exceeded: the call stack follows the call edges the
\* verifier collected (the DFS of max_frame_depth).
FramesWithinReport ==
  max_frame_depth = V!Unbounded \/ Len(call_stack) <= max_frame_depth

\* A division by zero, an undefined local and an index out of bounds are in the
\* report's possible_traps before they happen (push_trap in step_instruction).
DataTrapsReported ==
  trap_code \in {"DivideByZero", "UndefinedLocal", "ArrayOutOfBounds"}
    => trap_code \in possible_traps

\* docs/correctness-lab.md: the verifier "blocks trap-capable bytecode from
\* JIT", and "Executed backends agree on success/trap status, return value".
\* What jit_status lets through never traps on the reference machine, the JIT
\* compiles it, and its native code returns to its caller, with the caller's
\* rbp and stack pointer, the value the reference machine returns; locals and
\* operands share the native frame without overlapping (compile,
\* emit_prologue, compile_instruction, run_jit).
JitAgrees ==
  jit =>
    /\ status \notin {"trapped", "panicked"}
    /\ status = "exited" =>
         /\ supports_program(prog)
         /\ LET m == Native(prog)
            IN  /\ m.returned /\ m.rsp = Entry + 1 /\ m.rbp = Caller
                /\ m.rax = return_value
===============================================================================
