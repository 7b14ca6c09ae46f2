------------------------------- MODULE Backends -------------------------------
(***************************************************************************)
(* The comparison of compare.rs and the trace diff of trace.rs: the        *)
(* reference machine and the GC machine run the same program, a third      *)
(* machine, again a reference VM, what the optimizer makes of it.  In the  *)
(* code they run one after the other and the traces of the first two are   *)
(* compared entry by entry; here they run side by side, one instruction    *)
(* each per step, so that the states the entries come from can be compared *)
(* as well.  The fourth backend, the JIT, is behind the verifier and is    *)
(* compared in VerifiedVm.                                                 *)
(***************************************************************************)
EXTENDS Optimizer, Trace

CONSTANT GC_THRESHOLD

VARIABLES
  prog,
  v_pc, v_stack, v_locals, v_globals, v_call_stack, v_cycles, v_output, v_status,
  v_trap_code, v_return_value,
  g_pc, g_stack, g_globals, g_call_stack, heap_arrays, free_array_slots,
  next_array_id, gc_collections, gc_objects_freed, pending, g_cycles, g_output,
  g_status, g_trap_code, g_return_value,
  o_prog, o_pc, o_stack, o_locals, o_globals, o_call_stack, o_cycles, o_output,
  o_status, o_trap_code, o_return_value,
  v_normalizer, g_normalizer      \* of first_semantic_trace_divergence

v_vars == <<v_pc, v_stack, v_locals, v_globals, v_call_stack, v_cycles, v_output,
            v_status, v_trap_code, v_return_value>>
g_vars == <<g_pc, g_stack, g_globals, g_call_stack, heap_arrays, free_array_slots,
            next_array_id, gc_collections, gc_objects_freed, pending, g_cycles,
            g_output, g_status, g_trap_code, g_return_value>>
o_vars == <<o_prog, o_pc, o_stack, o_locals, o_globals, o_call_stack, o_cycles,
            o_output, o_status, o_trap_code, o_return_value>>
normalizers == <<v_normalizer, g_normalizer>>
vars   == <<prog, v_vars, g_vars, o_vars, normalizers>>

V == INSTANCE Vm WITH
       pc <- v_pc, stack <- v_stack, locals <- v_locals, globals <- v_globals,
       call_stack <- v_call_stack, cycles <- v_cycles, output <- v_output,
       status <- v_status, trap_code <- v_trap_code, return_value <- v_return_value

G == INSTANCE GcVm WITH
       pc <- g_pc, stack <- g_stack, globals <- g_globals, call_stack <- g_call_stack,
       cycles <- g_cycles, output <- g_output, status <- g_status,
       trap_code <- g_trap_code, return_value <- g_return_value

O == INSTANCE Vm WITH
       prog <- o_prog, pc <- o_pc, stack <- o_stack, locals <- o_locals,
       globals <- o_globals, call_stack <- o_call_stack, cycles <- o_cycles,
       output <- o_output, status <- o_status, trap_code <- o_trap_code,
       return_value <- o_return_value

Init ==
  /\ prog \in Programs /\ V!New /\ G!New
  /\ o_prog = optimize(prog) /\ O!New
  /\ v_normalizer = NewNormalizer /\ g_normalizer = NewNormalizer

\* The GC machine allocates the global arrays before its first instruction.
Prepare == G!AllocGlobalArray /\ UNCHANGED <<v_vars, o_vars, normalizers>>

(***************************************************************************)
(* The event a machine records for an instruction (record_trace), from its *)
(* state before and after.  Its result is still on the stack when an exit  *)
(* is recorded; nothing is recorded for a limit met at the top of the loop *)
(* or for a panic.  A Halt that finds no operand differs: the reference    *)
(* machine pushes the 0 it returns, the GC machine leaves its stack alone. *)
(***************************************************************************)
Outcome(instr, taken, ended, code) ==
  CASE ended = "trapped" -> code
    [] ended = "exited"  -> "Exit"
    [] OTHER -> IF instr.opcode \in {"Jump", "Call", "Return"} \/ taken THEN "Jump" ELSE "Continue"

Branches == {"JumpIfFalse", "JumpIfTrue"}

VmEvents ==
  IF v_cycles' = v_cycles \/ v_status' = "panicked" THEN <<>>
  ELSE <<[cycle |-> v_cycles', pc |-> v_pc, instr |-> V!Instr,
          stack_before |-> v_stack,
          stack_after  |-> IF v_status' = "exited" THEN Append(v_stack', v_return_value')
                           ELSE v_stack',
          frame_depth_before |-> Len(v_call_stack), frame_depth_after |-> Len(v_call_stack'),
          next_pc |-> v_pc',
          outcome |-> Outcome(V!Instr, V!Instr.opcode \in Branches /\ V!BranchTaken,
                              v_status', v_trap_code')]>>

RawStack(stk) == [i \in DOMAIN stk |-> G!to_i64(stk[i])]     \* stack_as_i64

ResultOnStack == g_status' = "exited" /\ ~(G!Instr.opcode = "Halt" /\ g_stack = <<>>)

GcEvents ==
  IF g_cycles' = g_cycles THEN <<>>
  ELSE <<[cycle |-> g_cycles', pc |-> g_pc, instr |-> G!Instr,
          stack_before |-> RawStack(g_stack),
          stack_after  |-> IF ResultOnStack THEN Append(RawStack(g_stack'), g_return_value')
                           ELSE RawStack(g_stack'),
          frame_depth_before |-> Len(g_call_stack), frame_depth_after |-> Len(g_call_stack'),
          next_pc |-> g_pc',
          outcome |-> Outcome(G!Instr, G!Instr.opcode \in Branches /\ G!BranchTaken,
                              g_status', g_trap_code')]>>

Normalized(n, events) == IF events = <<>> THEN n ELSE normalize_event(n, events[1])

\* One loop iteration of each machine; one that has returned waits.
Together ==
  /\ pending = {} /\ V!Next /\ G!Next /\ O!Next
  /\ v_normalizer' = Normalized(v_normalizer, VmEvents)
  /\ g_normalizer' = Normalized(g_normalizer, GcEvents)

Next == Prepare \/ Together

Spec == Init /\ [][Next]_vars

(***************************************************************************)
(* Properties.                                                             *)
(***************************************************************************)

\* BackendOutcome: success (implied by the trap code), result, trap, output.
VmOutcome == <<v_status, v_return_value, v_trap_code, v_output>>
GcOutcome == <<g_status, g_return_value, g_trap_code, g_output>>

\* docs/system-artifact.md: "VM and GC VM observable results agree".  Once both
\* have returned, compare_observable_outcomes finds no mismatch.
ObservableAgreement ==
  v_status \in V!Final /\ g_status \in G!Final => VmOutcome = GcOutcome

OptOutcome == <<o_status, o_return_value, o_trap_code, o_output>>

\* docs/correctness-lab.md: "Executed backends agree on success/trap status,
\* return value, trap code, and printed output".  What the optimizer folds,
\* drops and moves changes none of these: traps come as before, and every jump
\* and call still arrives where it did (optimize and its four passes).
OptimizedAgreement ==
  v_status \in V!Final /\ o_status \in O!Final => VmOutcome = OptOutcome

\* An integer is itself; an undefined local is the marker; an array reference
\* is a base in `locals` behind which the same elements lie.
Same(v, x) ==
  CASE x.tag = "Int"   -> v = x.v
    [] x.tag = "Undef" -> v = I64Min
    [] x.tag = "Ref"   ->
         LET data == heap_arrays[x.v + 1].data
         IN  /\ v \in MAX_LOCAL_SLOTS .. Len(v_locals) - Len(data)
             /\ \A i \in 1 .. Len(data) : v_locals[v + i] = data[i]

SameFrame(f, h) ==
  /\ f.return_pc = h.return_pc
  /\ Len(h.locals) = V!LocalCount(f)
  /\ \A i \in 1 .. Len(h.locals) : Same(v_locals[f.base_ptr + i], h.locals[i])

\* A global array is a window of the VM's globals and an array of the heap.
SameGlobal(g) ==
  IF g.is_array
  THEN heap_arrays[g_globals[g.slot + 1].v + 1].data
         = SubSeq(v_globals, g.slot + 1, g.slot + g.array_size)
  ELSE Same(v_globals[g.slot + 1], g_globals[g.slot + 1])

\* The trace diff finds no difference, and more: while both run, the machines
\* are at the same instruction with the same operands, frames, globals and
\* array elements, whatever was collected in between and wherever the arrays
\* lie.  Two arrays that alias in one machine only would show here.
InStep ==
  v_status = "running" /\ g_status = "running" =>
    /\ <<v_pc, v_cycles, v_output>> = <<g_pc, g_cycles, g_output>>
    /\ Len(v_stack) = Len(g_stack)
    /\ \A i \in 1 .. Len(v_stack) : Same(v_stack[i], g_stack[i])
    /\ Len(v_call_stack) = Len(g_call_stack)
    /\ \A k \in 1 .. Len(v_call_stack) : SameFrame(v_call_stack[k], g_call_stack[k])
    /\ \A n \in DOMAIN prog.globals : SameGlobal(prog.globals[n])

\* docs/correctness-lab.md: "The reference VM and GC VM agree at semantic
\* instruction-trace level".  Step by step both record an event or none, and
\* the normalized events are equal: trapping instructions leave the same
\* operands behind, and the normalizers tell the same references apart
\* (diff_vm_gc_traces).
TracesAgree ==
  [][LET Compared(n, events) == [i \in DOMAIN events |-> Semantic(n, events[i])]
     IN  Compared(v_normalizer, VmEvents) = Compared(g_normalizer, GcEvents)]_vars
===============================================================================
