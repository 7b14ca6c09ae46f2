--------------------------------- MODULE GcVm ---------------------------------
(***************************************************************************)
(* The GC-integrated virtual machine, gc_vm.rs: one instruction per step,  *)
(* a collection being part of the allocation that triggers it.             *)
(*                                                                         *)
(* Every frame owns its locals.  Arrays live in `heap_arrays`, numbered    *)
(* from 0; a freed array leaves its slot empty and on the free list, from  *)
(* which the next allocation takes it.  Values are tagged: an integer or   *)
(* an array reference.  A local whose init flag is unset is Undef here.    *)
(* The mark bit only lives during a collection and is the set of roots.    *)
(***************************************************************************)
EXTENDS Bytecode, FiniteSets

CONSTANT GC_THRESHOLD   \* collect when this many arrays are allocated

ASSUME ThresholdAssumption == GC_THRESHOLD \in Nat

VARIABLES
  prog, pc, stack, globals,
  call_stack,         \* frames [return_pc, locals], innermost last
  heap_arrays,        \* [live, data]: Some(array) or None
  free_array_slots,
  next_array_id,
  gc_collections, gc_objects_freed,
  pending,            \* global arrays `run` has yet to allocate
  cycles, output, status, trap_code, return_value

heap   == <<heap_arrays, free_array_slots, next_array_id, gc_collections,
            gc_objects_freed>>
result == <<status, trap_code, return_value>>
vars   == <<prog, pc, stack, globals, call_stack, heap_arrays, free_array_slots,
            next_array_id, gc_collections, gc_objects_freed, pending, cycles,
            output, status, trap_code, return_value>>

Final == {"exited", "trapped"}

(***************************************************************************)
(* Values.                                                                 *)
(***************************************************************************)
IntVal(n)    == [tag |-> "Int", v |-> n]
ArrayRef(id) == [tag |-> "Ref", v |-> id]
Undef        == [tag |-> "Undef", v |-> 0]
IsRef(x)     == x.tag = "Ref"

is_truthy(x) == IsRef(x) \/ x.v # 0
to_i64(x)    == x.v

NoArray       == [live |-> FALSE, data |-> <<>>]
HeapArray(n)  == [live |-> TRUE, data |-> [i \in 1 .. n |-> 0]]

(***************************************************************************)
(* Reading the machine.                                                    *)
(***************************************************************************)
Code  == prog.instructions
Instr == Code[pc + 1]
arg1  == Instr.arg1
arg2  == Instr.arg2
Depth == Len(call_stack)
Frame == call_stack[Depth]
Top(k)  == stack[Len(stack) - k]
PopInt(k) == to_i64(Top(k))                    \* pop_int
Drop(n) == SubSeq(stack, 1, Len(stack) - n)

\* get_array finds an array behind the reference.
Live(id) == id + 1 \in 1 .. Len(heap_arrays) /\ heap_arrays[id + 1].live
Data(id) == heap_arrays[id + 1].data

(***************************************************************************)
(* collect_garbage and alloc_array.                                        *)
(***************************************************************************)
StackRoots  == {to_i64(stack[i]) : i \in {j \in 1 .. Len(stack) : IsRef(stack[j])}}
GlobalRoots == {to_i64(globals[i]) : i \in {j \in 1 .. MAX_GLOBAL_SLOTS : IsRef(globals[j])}}
FrameRoots(k) ==
  LET ls == call_stack[k].locals
  IN  {to_i64(ls[i]) : i \in {j \in 1 .. Len(ls) : IsRef(ls[j])}}

\* MUTANT of Roots: only the running frame's locals are scanned.
RootsOfRunningFrame ==
  StackRoots \cup GlobalRoots \cup
  UNION {FrameRoots(k) : k \in {d \in 1 .. Depth : d = Depth}}

\* MUTANT of Roots: a collection before main starts has no roots.
RootsOfFrames ==
  IF Depth = 0 THEN {}
  ELSE StackRoots \cup GlobalRoots \cup UNION {FrameRoots(k) : k \in 1 .. Depth}

Roots == StackRoots \cup GlobalRoots \cup UNION {FrameRoots(k) : k \in 1 .. Depth}

\* MUTANT of MustCollect: the collection comes one allocation too late.
MustCollectLate == Len(heap_arrays) - Len(free_array_slots) > GC_THRESHOLD

MustCollect == Len(heap_arrays) - Len(free_array_slots) >= GC_THRESHOLD

\* The arrays this allocation's collection, if any, frees.
Garbage ==
  {id \in 0 .. Len(heap_arrays) - 1 : MustCollect /\ Live(id) /\ id \notin Roots}

\* A set of ids in increasing order, as the sweep pushes them.
Orders(S)     == {s \in [1 .. Cardinality(S) -> S] : \A x \in S : \E i \in 1 .. Cardinality(S) : s[i] = x}
Increasing(s) == \A i, j \in DOMAIN s : i < j => s[i] < s[j]
Ascending(S)  == CHOOSE s \in Orders(S) : (\E t \in Orders(S) : Increasing(t)) => Increasing(s)

SweptHeap ==
  [i \in 1 .. Len(heap_arrays) |-> IF i - 1 \in Garbage THEN NoArray ELSE heap_arrays[i]]

\* MUTANT of SweptFree: the sweep starts a new free list.
SweptFreeReset == IF MustCollect THEN Ascending(Garbage) ELSE free_array_slots

SweptFree == free_array_slots \o Ascending(Garbage)

\* The id alloc_array returns.
NewArrayId ==
  IF SweptFree # <<>> THEN SweptFree[Len(SweptFree)] ELSE next_array_id

\* The effect of alloc_array.
AllocArray(size) ==
  /\ heap_arrays' = IF NewArrayId < Len(heap_arrays)
                    THEN [SweptHeap EXCEPT ![NewArrayId + 1] = HeapArray(size)]
                    ELSE Append(SweptHeap, HeapArray(size))
  /\ free_array_slots' = IF SweptFree # <<>>
                         THEN SubSeq(SweptFree, 1, Len(SweptFree) - 1) ELSE <<>>
  /\ next_array_id' = IF SweptFree # <<>> THEN next_array_id ELSE next_array_id + 1
  /\ gc_collections' = IF MustCollect THEN gc_collections + 1 ELSE gc_collections
  /\ gc_objects_freed' = gc_objects_freed + Cardinality(Garbage)

(***************************************************************************)
(* How an instruction ends.                                                *)
(***************************************************************************)
Fetch(ops) ==
  /\ status = "running"
  /\ MAX_CYCLES = 0 \/ cycles < MAX_CYCLES
  /\ pc < Len(Code)
  /\ Instr.opcode \in ops
  /\ cycles' = cycles + 1
  /\ UNCHANGED <<prog, pending>>

\* Err(..): make_trap_result.  An allocation may have happened already.
Abort(fault) ==
  /\ status' = "trapped"
  /\ trap_code' = fault.code
  /\ stack' = fault.stack
  /\ UNCHANGED <<pc, globals, call_stack, output, return_value>>

Trap(fault) == Abort(fault) /\ UNCHANGED heap

Checked(fault, effect) ==
  \/ fault.code # "None" /\ Trap(fault)
  \/ fault.code = "None" /\ effect

GoTo(target) ==
  /\ pc' = target
  /\ UNCHANGED result

Advance == GoTo(pc + 1)

StackOnly(stk) ==
  /\ stack' = stk
  /\ Advance
  /\ UNCHANGED <<globals, call_stack, heap, output>>

Exit ==
  /\ status' = "exited"
  /\ return_value' = IF stack = <<>> THEN 0 ELSE to_i64(Top(0))
  /\ stack' = IF stack = <<>> THEN stack ELSE Drop(1)
  /\ call_stack' = <<>>
  /\ UNCHANGED <<globals, heap, output, trap_code>>

(***************************************************************************)
(* Start of `run`: preflight, then the global arrays one by one in the     *)
(* unspecified order of the HashMap, then main's frame.                    *)
(***************************************************************************)
New ==
  /\ pc = 0
  /\ stack = <<>>
  /\ globals = [i \in 1 .. MAX_GLOBAL_SLOTS |-> IntVal(0)]
  /\ call_stack = <<>>
  /\ heap_arrays = <<>>
  /\ free_array_slots = <<>>
  /\ next_array_id = 0
  /\ gc_collections = 0
  /\ gc_objects_freed = 0
  /\ pending = {x \in DOMAIN prog.globals : prog.globals[x].is_array}
  /\ cycles = 0
  /\ output = <<>>
  /\ status = "new"
  /\ trap_code = "None"
  /\ return_value = 0

Init == prog \in Programs /\ New

\* validate_program is the reference machine's, line for line.
ValidateProgram == PreflightTraps(prog)

RejectProgram ==
  /\ status = "new"
  /\ \E code \in ValidateProgram :
       /\ status' = "trapped"
       /\ trap_code' = code
       /\ UNCHANGED <<prog, pc, stack, globals, call_stack, heap, pending, cycles,
                      output, return_value>>

AllocGlobalArray ==
  /\ status = "new"
  /\ ValidateProgram = {}
  /\ \E x \in pending :
       /\ pending' = pending \ {x}
       /\ AllocArray(prog.globals[x].array_size)
       /\ globals' = [globals EXCEPT ![prog.globals[x].slot + 1] = ArrayRef(NewArrayId)]
  /\ UNCHANGED <<prog, pc, stack, call_stack, cycles, output, result>>

NewFrame(return_pc, ls) == [return_pc |-> return_pc, locals |-> ls]

EnterMain ==
  LET main == prog.functions[prog.main_func_id]
  IN  /\ status = "new"
      /\ ValidateProgram = {}
      /\ pending = {}
      /\ status' = "running"
      /\ pc' = main.entry_pc
      /\ call_stack' = <<NewFrame(USIZE_MAX, [i \in 1 .. main.local_count |-> Undef])>>
      /\ UNCHANGED <<prog, stack, globals, heap, pending, cycles, output, trap_code,
                     return_value>>

LoopTrap ==
  /\ status = "running"
  /\ \/ /\ MAX_CYCLES > 0 /\ cycles >= MAX_CYCLES
        /\ Trap([code |-> "CycleLimit", stack |-> stack])
     \/ /\ MAX_CYCLES = 0 \/ cycles < MAX_CYCLES
        /\ pc >= Len(Code)
        /\ Trap([code |-> "InvalidInstruction", stack |-> stack])
  /\ UNCHANGED <<prog, pending, cycles>>

(***************************************************************************)
(* execute_instruction.                                                    *)
(***************************************************************************)

\* current_local_slot
SlotFault(raw, stk) ==
  Fault(raw < 0 \/ raw >= Len(Frame.locals), "InvalidInstruction", stk)

\* GcCallFrame::get, GcCallFrame::set
Local == Frame.locals[arg1 + 1]
SetLocal(x) == call_stack' = [call_stack EXCEPT ![Depth].locals[arg1 + 1] = x]

\* A reference that get_array cannot follow; an index behind its array's end.
RefFault(id, index, stk) ==
  Fault(~Live(id), "InvalidInstruction", stk)
    ?? Fault(index >= Len(Data(id)), "ArrayOutOfBounds", stk)

LoadConst ==
  /\ Fetch({"LoadConst"})
  /\ Checked(PushFault(stack), StackOnly(Append(stack, IntVal(arg1))))

LoadLocal ==
  /\ Fetch({"LoadLocal"})
  /\ Checked(SlotFault(arg1, stack)
               ?? Fault(Local = Undef, "UndefinedLocal", stack)
               ?? PushFault(stack),
             StackOnly(Append(stack, Local)))

StoreLocal ==
  /\ Fetch({"StoreLocal"})
  /\ Checked(SlotFault(arg1, stack) ?? PopFault(stack, 1),
             /\ stack' = Drop(1)
             /\ SetLocal(Top(0))
             /\ Advance
             /\ UNCHANGED <<globals, heap, output>>)

LoadGlobal ==
  /\ Fetch({"LoadGlobal"})
  /\ Checked(GlobalFault(arg1, stack) ?? PushFault(stack),
             StackOnly(Append(stack, globals[arg1 + 1])))

StoreGlobal ==
  /\ Fetch({"StoreGlobal"})
  /\ Checked(GlobalFault(arg1, stack) ?? PopFault(stack, 1),
             /\ stack' = Drop(1)
             /\ globals' = [globals EXCEPT ![arg1 + 1] = Top(0)]
             /\ Advance
             /\ UNCHANGED <<call_stack, heap, output>>)

\* And, Or look at the tag; every other opcode at the number, for a
\* reference its id.  No i64::MIN exists here: the division cannot overflow.
BinaryValue ==
  CASE Instr.opcode = "And" -> Bool(is_truthy(Top(1)) /\ is_truthy(Top(0)))
    [] Instr.opcode = "Or"  -> Bool(is_truthy(Top(1)) \/ is_truthy(Top(0)))
    [] OTHER -> BinaryResult(Instr.opcode, PopInt(1), PopInt(0))

Binary ==
  /\ Fetch(BinaryOps)
  /\ Checked(PopFault(stack, 2)
               ?? Fault(Instr.opcode = "Div" /\ PopInt(0) = 0, "DivideByZero", Drop(2)),
             StackOnly(Append(Drop(2), IntVal(BinaryValue))))

UnaryValue ==
  IF Instr.opcode = "Neg" THEN UnaryResult("Neg", PopInt(0)) ELSE Bool(~is_truthy(Top(0)))

Unary ==
  /\ Fetch(UnaryOps)
  /\ Checked(PopFault(stack, 1), StackOnly(Append(Drop(1), IntVal(UnaryValue))))

Jump ==
  /\ Fetch({"Jump"})
  /\ GoTo(AsUsize(arg1))
  /\ UNCHANGED <<stack, globals, call_stack, heap, output>>

\* JumpIfFalse, JumpIfTrue
BranchTaken == is_truthy(Top(0)) = (Instr.opcode = "JumpIfTrue")

Branch ==
  /\ Fetch({"JumpIfFalse", "JumpIfTrue"})
  /\ Checked(PopFault(stack, 1),
             /\ stack' = Drop(1)
             /\ GoTo(IF BranchTaken THEN AsUsize(arg1) ELSE pc + 1)
             /\ UNCHANGED <<globals, call_stack, heap, output>>)

\* The frame limit is looked at before the arity, unlike in the reference
\* machine, and there is no limit on the slots of all frames together.
Callee == prog.functions[arg1]

CallFault ==
  Fault(arg1 < 0 \/ arg2 < 0, "InvalidInstruction", stack)
    ?? Fault(arg1 \notin DOMAIN prog.functions, "UndefinedFunction", stack)
    ?? Fault(Depth >= MAX_FRAMES, "StackOverflow", stack)
    ?? Fault(arg2 # Callee.param_count, "InvalidInstruction", stack)
    ?? PopFault(stack, arg2)

CalleeLocals ==
  [i \in 1 .. Callee.local_count |->
     IF i <= arg2 THEN stack[Len(stack) - arg2 + i] ELSE Undef]

Call ==
  /\ Fetch({"Call"})
  /\ Checked(CallFault,
             /\ stack' = Drop(arg2)
             /\ call_stack' = Append(call_stack, NewFrame(pc + 1, CalleeLocals))
             /\ pc' = Callee.entry_pc
             /\ UNCHANGED <<globals, heap, output, result>>)

Return ==
  /\ Fetch({"Return"})
  /\ Checked(PopFault(stack, 1),
       /\ pc' = IF Frame.return_pc = USIZE_MAX THEN pc ELSE Frame.return_pc
       /\ \/ /\ Depth = 1
             /\ Exit
          \/ /\ Depth > 1
             /\ call_stack' = SubSeq(call_stack, 1, Depth - 1)
             /\ UNCHANGED <<stack, globals, heap, output, result>>)

Halt ==
  /\ Fetch({"Halt"})
  /\ Exit
  /\ pc' = pc

\* The element ArrayLoad and ArrayStore name: in the heap when the slot holds
\* a reference, else (legacy) in the globals themselves.
ArrayLoad ==
  /\ Fetch({"ArrayLoad"})
  /\ Checked(GlobalRangeFault(arg1, arg2, stack) ?? PopFault(stack, 1)
               ?? IndexFault(PopInt(0), arg2, Drop(1))
               ?? (IF IsRef(globals[arg1 + 1])
                   THEN RefFault(globals[arg1 + 1].v, PopInt(0), Drop(1)) ELSE NoFault),
             StackOnly(Append(Drop(1),
               IF IsRef(globals[arg1 + 1])
               THEN IntVal(Data(globals[arg1 + 1].v)[PopInt(0) + 1])
               ELSE globals[arg1 + PopInt(0) + 1])))

SetElement(id, index, n) ==
  /\ heap_arrays' = [heap_arrays EXCEPT ![id + 1].data[index + 1] = n]
  /\ UNCHANGED <<free_array_slots, next_array_id, gc_collections, gc_objects_freed>>

ArrayStore ==
  /\ Fetch({"ArrayStore"})
  /\ Checked(GlobalRangeFault(arg1, arg2, stack) ?? PopFault(stack, 2)
               ?? IndexFault(PopInt(1), arg2, Drop(2))
               ?? (IF IsRef(globals[arg1 + 1])
                   THEN RefFault(globals[arg1 + 1].v, PopInt(1), Drop(2)) ELSE NoFault),
       /\ stack' = Drop(2)
       /\ \/ /\ IsRef(globals[arg1 + 1])
             /\ SetElement(globals[arg1 + 1].v, PopInt(1), PopInt(0))
             /\ UNCHANGED globals
          \/ /\ ~IsRef(globals[arg1 + 1])
             /\ globals' = [globals EXCEPT ![arg1 + PopInt(1) + 1] = IntVal(PopInt(0))]
             /\ UNCHANGED heap
       /\ Advance
       /\ UNCHANGED <<call_stack, output>>)

\* A local that holds an integer stands for each of its elements.
LocalArrayLoad ==
  /\ Fetch({"LocalArrayLoad"})
  /\ Checked(SlotFault(arg1, stack) ?? SizeFault(arg2, stack) ?? PopFault(stack, 1)
               ?? IndexFault(PopInt(0), arg2, Drop(1))
               ?? Fault(Local = Undef, "UndefinedLocal", Drop(1))
               ?? (IF IsRef(Local) THEN RefFault(Local.v, PopInt(0), Drop(1)) ELSE NoFault),
             StackOnly(Append(Drop(1),
               IF IsRef(Local) THEN IntVal(Data(Local.v)[PopInt(0) + 1]) ELSE Local)))

LocalArrayStore ==
  /\ Fetch({"LocalArrayStore"})
  /\ Checked(SlotFault(arg1, stack) ?? SizeFault(arg2, stack) ?? PopFault(stack, 2)
               ?? IndexFault(PopInt(1), arg2, Drop(2))
               ?? Fault(~IsRef(Local), "InvalidInstruction", Drop(2))
               ?? RefFault(Local.v, PopInt(1), Drop(2)),
             /\ stack' = Drop(2)
             /\ SetElement(Local.v, PopInt(1), PopInt(0))
             /\ Advance
             /\ UNCHANGED <<globals, call_stack, output>>)

\* AllocArray, ArrayNew: the array is allocated before the push can fail.
Alloc ==
  /\ Fetch(Allocations)
  /\ Checked(SizeFault(arg1, stack),
       /\ AllocArray(arg1)
       /\ \/ /\ PushFault(stack).code # "None"
             /\ Abort(PushFault(stack))
          \/ /\ PushFault(stack).code = "None"
             /\ stack' = Append(stack, ArrayRef(NewArrayId))
             /\ Advance
             /\ UNCHANGED <<globals, call_stack, output>>)

PrintTop ==
  /\ Fetch({"Print"})
  /\ Checked(PopFault(stack, 1),
             /\ stack' = Drop(1)
             /\ output' = Append(output, PopInt(0))
             /\ Advance
             /\ UNCHANGED <<globals, call_stack, heap>>)

Pop ==
  /\ Fetch({"Pop"})
  /\ Checked(PopFault(stack, 1), StackOnly(Drop(1)))

Dup ==
  /\ Fetch({"Dup"})
  /\ Checked(PopFault(stack, 1) ?? PushFault(stack), StackOnly(Append(stack, Top(0))))

(***************************************************************************)
(* The machine.                                                            *)
(***************************************************************************)
Execute ==
  \/ LoadConst \/ LoadLocal \/ StoreLocal \/ LoadGlobal \/ StoreGlobal
  \/ Binary \/ Unary \/ Jump \/ Branch \/ Call \/ Return
  \/ ArrayLoad \/ ArrayStore \/ LocalArrayLoad \/ LocalArrayStore \/ Alloc
  \/ PrintTop \/ Pop \/ Dup \/ Halt

\* `run` has returned.
Done == status \in Final /\ UNCHANGED vars

Next == RejectProgram \/ AllocGlobalArray \/ EnterMain \/ LoopTrap \/ Execute \/ Done

Spec == Init /\ [][Next]_vars

(***************************************************************************)
(* Properties.                                                             *)
(***************************************************************************)
Value == [tag : {"Int", "Ref"}, v : Int]

\* The fields of struct GcVm hold values of their types within their limits;
\* an undefined local is a local's value only, never an operand or a global.
TypeOK ==
  /\ IsProgram(prog)
  /\ pc \in Nat
  /\ stack \in Seq(Value) /\ Len(stack) <= MAX_OPERAND_STACK
  /\ globals \in [1 .. MAX_GLOBAL_SLOTS -> Value]
  /\ call_stack \in Seq([return_pc : Nat, locals : Seq(Value \cup {Undef})])
  /\ Depth <= MAX_FRAMES
  /\ heap_arrays \in Seq([live : BOOLEAN, data : Seq(Int)])
  /\ free_array_slots \in Seq(Nat)
  /\ {next_array_id, gc_collections, gc_objects_freed} \subseteq Nat
  /\ pending \subseteq DOMAIN prog.globals
  /\ cycles \in Nat /\ (MAX_CYCLES > 0 => cycles <= MAX_CYCLES)
  /\ output \in Seq(Int)
  /\ status \in {"new", "running"} \cup Final
  /\ trap_code \in TrapCode
  /\ (trap_code # "None") <=> (status = "trapped")
  /\ return_value \in Int

\* The free list holds exactly the empty heap slots, each once, and the next
\* fresh id is the length of the heap: alloc_array never hands out the slot of
\* an array that exists, and its count of allocated arrays does not underflow.
FreeListExact ==
  /\ next_array_id = Len(heap_arrays)
  /\ \A i \in 1 .. Len(free_array_slots) :
       /\ free_array_slots[i] \in 0 .. Len(heap_arrays) - 1
       /\ ~Live(free_array_slots[i])
       /\ \A j \in 1 .. Len(free_array_slots) :
            free_array_slots[i] = free_array_slots[j] => i = j
  /\ \A id \in 0 .. Len(heap_arrays) - 1 :
       ~Live(id) => \E i \in 1 .. Len(free_array_slots) : free_array_slots[i] = id

\* Everything the program holds, and the arrays it can still name.
Held ==
  {stack[i] : i \in DOMAIN stack} \cup {globals[i] : i \in DOMAIN globals} \cup
  UNION {{call_stack[k].locals[i] : i \in DOMAIN call_stack[k].locals} : k \in DOMAIN call_stack}
Reachable == {to_i64(x) : x \in {y \in Held : IsRef(y)}}

\* docs/system-artifact.md: all ArrayRefs point to valid heap slots.  No
\* reference a program can still use has been swept (collect_garbage).
NoDanglingRefs == \A id \in Reachable : Live(id)

IsStore == pc < Len(Code) /\ Instr.opcode \in {"ArrayStore", "LocalArrayStore"}

\* Allocating, with or without a collection, leaves every array the program
\* can reach in place with its elements; only the two store instructions
\* change an element (alloc_array, collect_garbage).
ReachableArraysKept ==
  [][ ~IsStore => \A id \in Reachable : id < Len(heap_arrays') /\
                                    heap_arrays'[id + 1] = heap_arrays[id + 1] ]_vars

LiveCount == Cardinality({id \in 0 .. Len(heap_arrays) - 1 : Live(id)})

\* The heap only grows past the threshold with arrays the program could
\* reach when it grew: garbage never accumulates beyond GC_THRESHOLD arrays
\* (the test at the top of alloc_array).
GarbageBounded ==
  [][ LiveCount' > LiveCount /\ LiveCount' > GC_THRESHOLD
      => \A id \in 0 .. Len(heap_arrays) - 1 :
           heap_arrays'[id + 1].live => id \in Reachable \/ id = NewArrayId ]_vars
===============================================================================
