------------------------------- MODULE Verifier -------------------------------
(***************************************************************************)
(* The bytecode verifier, verifier.rs: an abstract interpretation of every *)
(* function over operand stack depths and sets of initialised locals.      *)
(*                                                                         *)
(* The code of a program is cut into ranges at the functions' entry pcs.   *)
(* verify_function explores one range with a FIFO worklist; an abstract    *)
(* state is merged into its successors until nothing changes.  One step of *)
(* the model is one turn of a loop of the code.                            *)
(*                                                                         *)
(* A VerificationError is its pc (its wording is left out); names and      *)
(* per-function summaries are left out of the report.  The build target is *)
(* linux x86-64, the only one with a JIT.                                  *)
(***************************************************************************)
EXTENDS Bytecode, FiniteSets

VARIABLES
  prog,             \* the CompiledProgram; never written
  phase,            \* "new", "functions" (the loop over the ranges), "done"
  order,            \* the ids of the functions with a range, by entry pc
  at,               \* the range under verification is that of order[at]
  states,           \* per function: pc -> AbstractState
  worklist,
  errors,           \* the pcs of the errors
  possible_traps,
  call_edges,       \* pairs <<caller, callee>>
  max_stack_depth,
  max_frame_depth,  \* Unbounded stands for None
  jit               \* backend_eligibility.jit.eligible

vars == <<prog, phase, order, at, states, worklist, errors, possible_traps,
          call_edges, max_stack_depth, max_frame_depth, jit>>

\* A HashMap holds finitely many functions.
ASSUME FunctionsAssumption == \A p \in Programs : IsFiniteSet(DOMAIN p.functions)

NoPc      == -1     \* the error is not about an instruction
Unbounded == 0      \* a call chain has at least one frame

(***************************************************************************)
(* verify_global_metadata and the checks of verify and function_ranges.    *)
(***************************************************************************)
Code    == prog.instructions
Info(f) == prog.functions[f]

SlotsOf(g) == g.slot .. (g.slot + Width(g) - 1)

GlobalsOverlap ==
  \E x, y \in DOMAIN prog.globals :
    x # y /\ SlotsOf(prog.globals[x]) \cap SlotsOf(prog.globals[y]) # {}

ProgramErrors ==
  IF \/ BadGlobals(prog) \/ GlobalsOverlap
     \/ prog.main_func_id \notin DOMAIN prog.functions
     \/ Len(Code) > MAX_INSTRUCTIONS
  THEN {NoPc} ELSE {}

BadFunction(f) ==
  \/ Info(f).param_count > Info(f).local_count
  \/ Info(f).local_count > MAX_LOCAL_SLOTS
  \/ Info(f).entry_pc >= Len(Code)
  \/ \E g \in DOMAIN prog.functions \ {f} : Info(g).entry_pc = Info(f).entry_pc

FunctionErrors ==
  {Info(f).entry_pc : f \in {g \in DOMAIN prog.functions : BadFunction(g)}}

\* The functions with code, sorted by entry pc; among equal ones the order
\* is that of the HashMap.
Orders ==
  LET coded == {f \in DOMAIN prog.functions : Info(f).entry_pc < Len(Code)}
  IN  {o \in [1 .. Cardinality(coded) -> coded] :
         \A i, j \in DOMAIN o :
           i < j => /\ o[i] # o[j]
                    /\ Info(o[i]).entry_pc <= Info(o[j]).entry_pc}

\* The range of order[i] ends where the next one starts.
Start(i) == Info(order[i]).entry_pc
End(i)   == IF i = Len(order) THEN Len(Code) ELSE Info(order[i + 1]).entry_pc

\* MUTANT of pc_in_range: the end belongs to the range.
PcInClosedRange(i, q) == Start(i) <= q /\ q <= End(i)

pc_in_range(i, q) == Start(i) <= q /\ q < End(i)

(***************************************************************************)
(* step_instruction, for an instruction of function order[i].              *)
(***************************************************************************)
LocalArrayOps == {"LocalArrayLoad", "LocalArrayStore"}
GlobalArrayOps == {"ArrayLoad", "ArrayStore"}

\* local_slot
LocalOK(i, raw) == raw >= 0 /\ raw < Info(order[i]).local_count

\* global_slot, global_array_range
GlobalOK(raw, size) ==
  raw >= 0 /\ raw < MAX_GLOBAL_SLOTS /\ raw + size <= MAX_GLOBAL_SLOTS

\* MUTANT of OperandsOK: any number of arguments may be passed.
OperandsOKAnyArity(i, ins) ==
  CASE ins.opcode \in {"LoadLocal", "StoreLocal"} -> LocalOK(i, ins.arg1)
    [] ins.opcode \in {"LoadGlobal", "StoreGlobal"} -> GlobalOK(ins.arg1, 1)
    [] ins.opcode \in GlobalArrayOps -> ins.arg2 > 0 /\ GlobalOK(ins.arg1, ins.arg2)
    [] ins.opcode \in LocalArrayOps -> ins.arg2 > 0 /\ LocalOK(i, ins.arg1)
    [] ins.opcode \in Allocations -> ins.arg1 > 0
    [] ins.opcode \in Jumps -> ins.arg1 >= 0 /\ pc_in_range(i, ins.arg1)
    [] ins.opcode = "Call" -> ins.arg1 \in DOMAIN prog.functions
    [] OTHER -> TRUE

\* The checks of an instruction's operands: local_slot, global_slot,
\* array_size, global_array_range, jump_target, and those of Call.
OperandsOK(i, ins) ==
  CASE ins.opcode \in {"LoadLocal", "StoreLocal"} -> LocalOK(i, ins.arg1)
    [] ins.opcode \in {"LoadGlobal", "StoreGlobal"} -> GlobalOK(ins.arg1, 1)
    [] ins.opcode \in GlobalArrayOps -> ins.arg2 > 0 /\ GlobalOK(ins.arg1, ins.arg2)
    [] ins.opcode \in LocalArrayOps -> ins.arg2 > 0 /\ LocalOK(i, ins.arg1)
    [] ins.opcode \in Allocations -> ins.arg1 > 0
    [] ins.opcode \in Jumps -> ins.arg1 >= 0 /\ pc_in_range(i, ins.arg1)
    [] ins.opcode = "Call" -> /\ ins.arg1 \in DOMAIN prog.functions
                              /\ ins.arg2 = Info(ins.arg1).param_count
    [] OTHER -> TRUE

Pops(ins) ==
  CASE ins.opcode \in BinaryOps \cup {"ArrayStore", "LocalArrayStore"} -> 2
    [] ins.opcode = "Call" -> ins.arg2
    [] ins.opcode \in {"LoadConst", "LoadLocal", "LoadGlobal", "Jump", "Halt"}
                        \cup Allocations -> 0
    [] OTHER -> 1

\* MUTANT of Pushes: Dup is taken for a replacement of the top.
PushesDupOnce(ins) ==
  CASE ins.opcode \in {"StoreLocal", "StoreGlobal", "ArrayStore", "LocalArrayStore",
                       "Return", "Print", "Pop", "Halt"} \cup Jumps -> 0
    [] OTHER -> 1

\* Dup looks at the top and adds a copy.
Pushes(ins) ==
  CASE ins.opcode \in {"StoreLocal", "StoreGlobal", "ArrayStore", "LocalArrayStore",
                       "Return", "Print", "Pop", "Halt"} \cup Jumps -> 0
    [] ins.opcode = "Dup" -> 2
    [] OTHER -> 1

\* The abstract state behind an instruction.
After(ins, s) ==
  [depth |-> s.depth - Pops(ins) + Pushes(ins),
   init  |-> IF ins.opcode = "StoreLocal" THEN s.init \cup {ins.arg1} ELSE s.init]

Successors(ins, q) ==
  CASE ins.opcode = "Jump" -> <<ins.arg1>>
    [] ins.opcode \in Jumps \ {"Jump"} -> <<ins.arg1, q + 1>>
    [] ins.opcode \in {"Return", "Halt"} -> <<>>
    [] OTHER -> <<q + 1>>

\* A slot that may be uninitialised is read.
UndefinedUse(ins, s) ==
  ins.opcode \in {"LoadLocal"} \cup LocalArrayOps /\ ins.arg1 \notin s.init

\* MUTANT of OpcodeTraps: stores to arrays are taken to be safe.
OpcodeTrapsLoadOnly(ins, q) ==
  CASE ins.opcode = "Div" -> {"DivideByZero"}
    [] ins.opcode \in {"ArrayLoad", "LocalArrayLoad"} -> {"ArrayOutOfBounds"}
    [] ins.opcode \in Jumps /\ ins.arg1 <= q -> {"CycleLimit"}
    [] OTHER -> {}

\* The traps an instruction may raise whatever the abstract state.
OpcodeTraps(ins, q) ==
  CASE ins.opcode = "Div" -> {"DivideByZero"}
    [] ins.opcode \in GlobalArrayOps \cup LocalArrayOps -> {"ArrayOutOfBounds"}
    [] ins.opcode \in Jumps /\ ins.arg1 <= q -> {"CycleLimit"}
    [] OTHER -> {}

(***************************************************************************)
(* max_frame_depth: the longest chain of calls from f; `visiting` are the  *)
(* callers above f, and meeting one of them again is recursion.  The memo  *)
(* of the code only avoids computing a result twice.                       *)
(***************************************************************************)
\* MUTANT of Callees: only main's calls are recorded.
CalleesOfMain(f) ==
  {e[2] : e \in {d \in call_edges : d[1] = f /\ f = prog.main_func_id}}

Callees(f) == {e[2] : e \in {d \in call_edges : d[1] = f}}

Largest(S) == CHOOSE x \in S : \A y \in S : y <= x

\* One more than the longest chain from a callee.
Deepest(depths) ==
  IF Unbounded \in depths THEN Unbounded ELSE Largest(depths \cup {0}) + 1

\* visit[<<f, visiting>>]
visit[c \in Nat \X SUBSET Nat] ==
  IF c[1] \in c[2] THEN Unbounded
  ELSE Deepest({visit[<<g, c[2] \cup {c[1]}>>] : g \in Callees(c[1])})

(***************************************************************************)
(* jit_status: one function, straight-line supported code up to its first  *)
(* Return, and nothing in the report that may trap.                        *)
(***************************************************************************)
JitOpcodes ==
  (Comparisons \cup UnaryOps \cup
     {"Add", "Sub", "Mul", "LoadConst", "LoadLocal", "StoreLocal", "Pop", "Dup", "Return"})

\* MUTANT of JitStatus: possible traps do not matter.
JitStatusIgnoresTraps(traps) ==
  /\ errors = {}
  /\ Cardinality(DOMAIN prog.functions) = 1
  /\ \E r \in Info(prog.main_func_id).entry_pc .. Len(Code) - 1 :
       /\ Code[r + 1].opcode = "Return"
       /\ \A q \in Info(prog.main_func_id).entry_pc .. r :
            Code[q + 1].opcode \in JitOpcodes

JitStatus(traps) ==
  /\ errors = {}
  /\ traps = {}
  /\ Cardinality(DOMAIN prog.functions) = 1
  /\ \E r \in Info(prog.main_func_id).entry_pc .. Len(Code) - 1 :
       /\ Code[r + 1].opcode = "Return"
       /\ \A q \in Info(prog.main_func_id).entry_pc .. r :
            Code[q + 1].opcode \in JitOpcodes

(***************************************************************************)
(* verify.                                                                 *)
(***************************************************************************)
New ==
  /\ phase = "new"
  /\ order = <<>>
  /\ at = 0
  /\ states = [f \in DOMAIN prog.functions |-> <<>>]
  /\ worklist = <<>>
  /\ errors = {}
  /\ possible_traps = {}
  /\ call_edges = {}
  /\ max_stack_depth = 0
  /\ max_frame_depth = Unbounded
  /\ jit = FALSE

Init == prog \in Programs /\ New

CheckMetadata ==
  /\ phase = "new"
  /\ phase' = "functions"
  /\ errors' = ProgramErrors \cup FunctionErrors
  /\ order' \in Orders
  /\ UNCHANGED <<prog, at, states, worklist, possible_traps, call_edges,
                 max_stack_depth, max_frame_depth, jit>>

\* verify_function: parameters are initialised, the operand stack is empty.
EnterFunction ==
  /\ phase = "functions" /\ worklist = <<>> /\ at < Len(order)
  /\ at' = at + 1
  /\ worklist' = <<Start(at + 1)>>
  /\ LET info == Info(order[at + 1])
     IN  states' = [states EXCEPT ![order[at + 1]] =
           [q \in {info.entry_pc} |->
              [depth |-> 0,
               init  |-> {s \in 0 .. info.local_count - 1 : s < info.param_count}]]]
  /\ UNCHANGED <<prog, phase, order, errors, possible_traps, call_edges,
                 max_stack_depth, max_frame_depth, jit>>

\* The pc at the head of the worklist, its instruction and abstract state.
Here  == Head(worklist)
Instr == Code[Here + 1]
Known == states[order[at]]
State == Known[Here]

Dequeue ==
  /\ phase = "functions" /\ worklist # <<>>
  /\ UNCHANGED <<prog, phase, order, at, max_frame_depth, jit>>

\* Only the entry of an empty range (a duplicate entry pc) is outside it.
LeaveRange ==
  /\ Dequeue
  /\ ~pc_in_range(at, Here)
  /\ worklist' = Tail(worklist)
  /\ errors' = errors \cup {Here}
  /\ UNCHANGED <<states, possible_traps, call_edges, max_stack_depth>>

Accepted == OperandsOK(at, Instr) /\ State.depth >= Pops(Instr)

\* step_instruction returns None: the slot of a local array operation is
\* looked at before the operands are popped.
RejectInstruction ==
  /\ Dequeue
  /\ pc_in_range(at, Here)
  /\ ~Accepted
  /\ worklist' = Tail(worklist)
  /\ errors' = errors \cup {Here}
  /\ possible_traps' = possible_traps \cup
       (IF OperandsOK(at, Instr) /\ UndefinedUse(Instr, State) THEN {"UndefinedLocal"}
        ELSE {})
  /\ max_stack_depth' = Largest({max_stack_depth, State.depth})
  /\ UNCHANGED <<states, call_edges>>

\* MUTANT of Merge: the first state that reaches a pc stays.
MergeKeepsFirst(old, new) == old

\* Two paths meet: only what both initialised is.
Merge(old, new) == [depth |-> old.depth, init |-> old.init \cap new.init]

\* MUTANT of Propagates: a pc that has been visited is not visited again.
PropagatesOnce(new, q) == pc_in_range(at, q) /\ q \notin DOMAIN Known

\* MUTANT of Propagates: a pc is visited again even if its state stays.
PropagatesUnchanged(new, q) ==
  /\ pc_in_range(at, q)
  /\ q \notin DOMAIN Known \/ Known[q].depth = new.depth

\* The new state reaches successor q for the first time or changes its state.
Propagates(new, q) ==
  /\ pc_in_range(at, q)
  /\ \/ q \notin DOMAIN Known
     \/ Known[q].depth = new.depth /\ Merge(Known[q], new) # Known[q]

SuccessorErrors(new, succs) ==
  {IF pc_in_range(at, succs[k]) THEN succs[k] ELSE Here :
     k \in {j \in DOMAIN succs :
              \/ ~pc_in_range(at, succs[j])
              \/ succs[j] \in DOMAIN Known /\ Known[succs[j]].depth # new.depth}}

Enqueue(new, q) == IF Propagates(new, q) THEN <<q>> ELSE <<>>

\* The loop over the successors; one that is named twice is enqueued once.
Enqueued(new, succs) ==
  CASE succs = <<>> -> <<>>
    [] Len(succs) = 1 -> Enqueue(new, succs[1])
    [] OTHER -> Enqueue(new, succs[1]) \o
                (IF succs[2] = succs[1] THEN <<>> ELSE Enqueue(new, succs[2]))

StepInstruction ==
  /\ Dequeue
  /\ pc_in_range(at, Here)
  /\ Accepted
  /\ LET new   == After(Instr, State)
         succs == Successors(Instr, Here)
         reached == {q \in {succs[k] : k \in DOMAIN succs} : Propagates(new, q)}
     IN  /\ worklist' = Tail(worklist) \o Enqueued(new, succs)
         /\ states' = [states EXCEPT ![order[at]] =
              [q \in DOMAIN Known \cup reached |->
                 IF q \notin reached THEN Known[q]
                 ELSE IF q \in DOMAIN Known THEN Merge(Known[q], new) ELSE new]]
         /\ errors' = errors \cup SuccessorErrors(new, succs) \cup
              (IF new.depth > MAX_OPERAND_STACK THEN {Here} ELSE {})
         /\ max_stack_depth' = Largest({max_stack_depth, State.depth, new.depth})
  /\ possible_traps' = possible_traps \cup OpcodeTraps(Instr, Here) \cup
       (IF UndefinedUse(Instr, State) THEN {"UndefinedLocal"} ELSE {})
  /\ call_edges' = call_edges \cup
       (IF Instr.opcode = "Call" THEN {<<order[at], Instr.arg1>>} ELSE {})

Report ==
  /\ phase = "functions" /\ worklist = <<>> /\ at = Len(order)
  /\ phase' = "done"
  /\ max_frame_depth' = visit[<<prog.main_func_id, {}>>]
  /\ possible_traps' = possible_traps \cup
       (IF max_frame_depth' = Unbounded \/ max_frame_depth' > MAX_FRAMES
        THEN {"StackOverflow"} ELSE {})
  /\ jit' = JitStatus(possible_traps')
  /\ UNCHANGED <<prog, order, at, states, worklist, errors, call_edges,
                 max_stack_depth>>

Verify == CheckMetadata \/ EnterFunction \/ LeaveRange \/ RejectInstruction
            \/ StepInstruction \/ Report

Done == phase = "done" /\ UNCHANGED vars

Next == Verify \/ Done

Spec     == Init /\ [][Next]_vars
FairSpec == Spec /\ WF_vars(Next)

valid == phase = "done" /\ errors = {}

(***************************************************************************)
(* Properties.                                                             *)
(***************************************************************************)
AbstractState == [depth : Nat, init : SUBSET Nat]

\* The verifier's collections hold values of their types, and a state is
\* kept only for a pc of the code (verify, verify_function).
TypeOK ==
  /\ phase \in {"new", "functions", "done"}
  /\ order \in Seq(DOMAIN prog.functions)
  /\ at \in 0 .. Len(order)
  /\ DOMAIN states = DOMAIN prog.functions
  /\ \A f \in DOMAIN states :
       /\ DOMAIN states[f] \subseteq 0 .. Len(Code) - 1
       /\ \A q \in DOMAIN states[f] : states[f][q] \in AbstractState
  /\ worklist \in Seq(Nat)
  /\ errors \subseteq Nat \cup {NoPc}
  /\ possible_traps \subseteq TrapCode \ {"None"}
  /\ call_edges \subseteq (DOMAIN prog.functions) \X (DOMAIN prog.functions)
  /\ max_stack_depth \in Nat /\ max_frame_depth \in Nat
  /\ jit \in BOOLEAN

\* What the states of function order[i], `known`, must satisfy at pc q to prove
\* the code safe: the operands are well formed and on the stack, the stack
\* stays within its limit, and every successor lies in the range, has exactly
\* the depth the instruction leaves, and counts no local as initialised that
\* is not behind the instruction.
Sound(i, q, known) ==
  LET ins == Code[q + 1]
      new == After(ins, known[q])
  IN  /\ OperandsOK(i, ins)
      /\ known[q].depth >= Pops(ins)
      /\ new.depth <= MAX_OPERAND_STACK
      /\ \A k \in DOMAIN Successors(ins, q) :
           LET t == Successors(ins, q)[k]
           IN  /\ pc_in_range(i, t)
               /\ t \in DOMAIN known
               /\ known[t].depth = new.depth
               /\ known[t].init \subseteq new.init

\* The entry of function order[i] is covered, with an empty stack and at most
\* the parameters initialised.
EntryCovered(i, known) ==
  /\ Start(i) \in DOMAIN known
  /\ known[Start(i)].depth = 0
  /\ \A s \in known[Start(i)].init : s < Info(order[i]).param_count

Waiting(q) == \E k \in DOMAIN worklist : worklist[k] = q

\* A program without errors has been explored to a fixpoint: every function's
\* entry is covered and all that is covered is sound; the pcs of the worklist
\* are the only ones whose successors may lag behind (the worklist of
\* verify_function, its merge and its re-enqueueing).
Fixpoint ==
  errors = {} =>
    \A i \in 1 .. at :
      /\ EntryCovered(i, states[order[i]])
      /\ \A q \in DOMAIN states[order[i]] :
           (i = at /\ Waiting(q)) \/ Sound(i, q, states[order[i]])

\* The verifier always delivers its report: a pc is enqueued again only when
\* it lost an initialised local (the changed flag of verify_function).
Completes == <>(phase = "done")
===============================================================================
