# A TLA+ model of MiniLang's execution core

MiniLang (Minilang-rs) compiles a small imperative language to stack bytecode
and executes it on several backends that must agree. This directory holds
TLA+ modules translated from the Rust source, the TLC configurations that
check them on small instances, and proofs about them checked by TLAPS.

## 1. The system

| Component | Source | State | Operations | Modelled in |
| --- | --- | --- | --- | --- |
| Bytecode, limits | `compiler.rs`, `limits.rs` | the immutable `CompiledProgram` | - | `Bytecode`, `BytecodeProofs` |
| Reference VM | `vm.rs` | pc, operand stack, one vector of locals for all frames, globals, call stack, cycles, output | `new`, `run` (preflight, loop, 32 opcodes), traps | `Vm`, `VmProofs` |
| GC VM | `gc_vm.rs` | as above with tagged values, locals per frame, array heap, free list | the same, `alloc_array`, `collect_garbage` | `GcVm`, `GcVmProofs` |
| Backend comparison | `compare.rs` | outcomes of each backend | run all, compare | `Backends`, `VerifiedVm` |
| Trace diff | `trace.rs` | event lists, array ids normalised | semantic diff, fingerprints | `Trace`, `Backends` |
| Verifier | `verifier.rs` | worklist, abstract state per pc, errors, possible traps, call edges | `verify`: metadata, one worklist per function, frame depth, JIT gate | `Verifier`, `VerifiedVm`, `VerifierProofs`, `VerifiedVmProofs` |
| Parser, syntax | `parser.rs`, `ast.rs`, `token.rs` | position in the tokens | one function per rule | `Parser`, `Syntax` |
| Semantic analysis | `sema.rs` | chain of scopes, functions, errors | `analyze`: declarations, types, slots | `Sema` |
| Compiler | `compiler.rs` | code, locals and globals by name | `compile`: slots, code per statement and expression | `Compiler` |
| AST oracle | `oracle.rs` | globals, frames, cycles, output | interpret a tree | `Oracle` |
| Optimizer | `optimizer.rs` | instruction list, functions | fold, reduce, peephole, remove dead code and retarget | `Optimizer`, `Backends` |
| JIT | `jit.rs` | code buffer | gate, emit, run | `Jit`, `VerifiedVm` |
| Allocators | `alloc.rs` | region and pointer; arena, headers, free list; slabs, links | `alloc`, `free`, `reset`, `stats` | `Bump`, `FreeList`, `Slab`, abstract: `Heap`; `FreeListProofs`, `AllocatorsProofs` |
| Tracing collector | `gc.rs`, `runtime.rs` | object list, marks, roots, counters | `alloc`, `add_root`, `remove_root`, `collect`, drop | `Collector`, `AllocatorsProofs` |
| Fuzzer | `fuzz.rs` | seeds, corpus, failures | generate, audit, rewrite, shrink | `Emitter`, `Metamorphic`, `Shrinker`, `Pipeline` |
| Audit | `audit.rs` | verdicts | combine the checks | `Pipeline`, `Backends` |
| Lexer, CLI, REPL, evidence | rest | - | text in and out, reports | not modelled |

How they interact: the front end (lexer, parser, sema) hands a checked tree to
the compiler and to the oracle. The compiler's program goes to the verifier,
the optimizer and every machine; no machine changes it. `compare.rs` runs the
machines one after the other on one program and compares success, result,
trap code and output; `audit.rs` adds the verifier, the oracle and the trace
diff. Everything is one thread; nothing is persisted. The hard behaviours are
therefore not concurrency but long sequences: frames pushed and popped over
stale slots, collections in the middle of an expression, values that leave
32 bits, limits met half way through a handler, and two implementations of one
instruction set drifting apart. `PROJECT.json` lists these hazards at their
lines.

What makes each component correct:

* both machines: they trap rather than index out of range, respect the limits,
  return, and a callee cannot disturb its callers;
* GC VM: no reference dangles, reachable arrays keep their elements, the free
  list is exact, garbage is bounded;
* comparison: the machines agree on every compiled program;
* verifier: it ends, what it accepts never underflows or leaves the code, and
  its report (depths, initialised locals, frames, traps, JIT) is what a run
  does;
* optimizer, JIT, compiler: they preserve the outcome of the reference VM (of
  the oracle, for the compiler);
* front end: text and tree agree, what the analyzer accepts verifies and never
  meets a trap meant for malformed bytecode;
* fuzzer: a variant behaves as its original, a shrink is smaller;
* allocators and collector: live blocks are disjoint, freed memory is reused,
  rooted objects survive.

## 2. Modules

**`Bytecode`** - opcodes, metadata, the preflight `validate_program`, 32-bit
arithmetic, and the checks that both machines share. `Half` is 2^31 in the
code; every operator is written for any `Half >= 2`, so TLC can use 8 or 32.
`I64Min` is `-(2 * Half * Half)`: below every value arithmetic can produce, and
a multiple of `2 * Half` as i64::MIN is of 2^32. A handler of the code is a list of checks and pops followed by
an effect; `f ?? g` chains the checks, and a fault carries the operand stack
as the earlier pops left it, because a trap does not undo them. The functions
and globals of a program are HashMaps: where the code iterates over one, the
model allows every order (`PreflightTraps` is the set of codes that may come).

**`Vm`** - `vm.rs`, one action per opcode or group of like opcodes, one step
per loop iteration of `run`. The variables are the fields of `struct Vm` and
`VmResult`. `Call` follows the handler's order, including that arguments are
written into the new slots before an underflow is noticed. The two
non-wrapping i64 operations are modelled by what a build can do: `Div` of
i64::MIN by -1 panics, `Neg` of i64::MIN either panics (overflow checks on)
or wraps. `FunctionInfo.id` is taken to be the function's key in the map.

**`GcVm`** - `gc_vm.rs`. A collection is part of the allocation that triggers
it (`AllocArray`), as in the code. `Roots` are the references the marker
visits; arrays hold integers only, so marking does not recurse. `Ascending`
is the order in which the sweep pushes freed slots. Global arrays are
allocated one by one in any order before `main` starts.

**`Backends`** - instances `V` of `Vm` and `G` of `GcVm` executing the same
program, one instruction each per step, and a third, `O`, an instance of `Vm`
on what **`Optimizer`** makes of the program. The code runs them in sequence and
compares traces entry by entry; side by side the states behind the entries can
be compared too. `VmEvents` and `GcEvents` are what `record_trace` records in
a step; **`Trace`** holds the normalizer that replaces array references by
their order of allocation, and the two normalizers of a diff are variables. The
one instruction after which the diff itself tells the machines apart is a Halt
that finds no operand (vm.rs:740 pushes the 0 it returns, gc_vm.rs:818 leaves the
stack empty: `ResultOnStack`). The compiler emits no Halt, and the programs of
`backends` halt with an operand.
`Optimizer` is the four passes of `optimizer.rs` as functions of the code;
`Scan` is the loop the three size-changing passes share, a rule says what is
replaced where.

**`Verifier`** - `verifier.rs`. One step per turn of a loop: `CheckMetadata`,
then for each function `EnterFunction` and one step per worklist entry
(`StepInstruction`, or `RejectInstruction` when `step_instruction` returns
None), then `Report`. An abstract state is an operand depth and the set of
initialised slots (the code's vector of flags). `states` keeps the states of
every function, where the code drops them with each function, because the
properties compare them with runs. An error is its pc. `Pops` and `Pushes` are
the stack effects of `step_instruction`, `OperandsOK` its other checks; where a
trap is recorded before a failing check (local array operations), so it is
here.

**`VerifiedVm`** - `Verifier` in front of `Vm`, as `audit_source_core` in
`fuzz.rs` has them. The auxiliary `operand_base` records where each frame's
operands start on the shared stack; no guard reads it. **`Jit`** is the code
`jit.rs` emits for a program its gate lets through: a sequence of machine
instructions on registers and a memory of words (`Emitted`, by the number of
bytecode instructions translated), and the machine behind it (`Executed`).
Bytes are left out. `JitAgrees` compares its result with the VM's.

**`Pipeline`** - `audit_source_core` of `fuzz.rs`, from source to result: a
syntax tree (**`Syntax`**) is analyzed (**`Sema`**), compiled (**`Compiler`**),
verified and run (`VerifiedVm`), and interpreted (**`Oracle`**). The front end
is a chain of pure functions, so it is a chain of operators here, evaluated in
the initial state. **`Parser`** has one operator per rule of `parser.rs`, over
sequences of tokens; a result is a node and the position behind it. Its texts
come from **`Emitter`**, `emit_program` of `fuzz.rs`, in two styles: with the
parentheses the emitter writes, and with only those that the precedences of
`docs/grammar.md` call for. `Sema` keeps the verdict, not the list of errors.
`Compiler` generates code for the pc it starts at, so that jumps carry their
targets instead of being patched. `Oracle` threads the interpreter's state
through its operators; `Go` is the code's `?`. **`Metamorphic`** is the seven
families of rewritings that must keep a program's outcome, **`Shrinker`** the
set of candidates the shrinker may go on with. The code compares texts: a
candidate with the tree of the source is passed over when the source is itself
the emitter's text, which the first pass need not find (`emitted`).

**`Heap`** - what a client of any allocator in `alloc.rs` relies on: a block
that is handed out is aligned, lies in memory the allocator owns and shares no
byte with a block in use. **`Bump`**, **`FreeList`**, **`Slab`** - the three
allocators; each has `live`, the blocks its clients hold. `AllocParameters`
holds the arguments they may be given, `Allocators` puts them side by side, one
per behaviour, and states that each implements `Heap`. `FreeList` keeps the headers in
the arena as a function from the addresses of blocks, allocated ones included;
`alloc` and `free` take one step per turn of their search loops and one for
splitting, taking or inserting with both coalescings. In `Slab` the word of a
free object is its link; a word in use belongs to the client and is not kept,
so an allocator that followed it would be stuck. `free` is called with live
pointers only, as the safety comments demand. Requests near usize::MAX, where
`ptr.add` is undefined, and a system without memory are left out of these
three. **`Collector`** is `gc.rs` with the arrays of `runtime.rs` as objects:
the system's allocator is external and may refuse, a mark is one step, the
sweep one step per object. The allocation that is refused, collects and is
granted on the second attempt writes its header through the first, null
pointer (the name `ptr` is bound again in an inner block, gc.rs:139): that is
`GrantedTooLate`, and behaviours end there.

**`MCPrograms`, `MCVm`, `MCGcVm`, `MCBackends`, `MCVerifier`,
`MCVerifiedVm`, `MCPipeline`** - the programs and instances for TLC.

**`VmProofs`**, **`GcVmProofs`**, **`VerifierProofs`**, **`VerifiedVmProofs`**,
**`AllocatorsProofs`** - the theorems about `Vm`, `GcVm`, `Verifier`,
`VerifiedVm` and `Allocators`. **`BytecodeProofs`** holds the lemmas both
machines' proofs use, **`JitProofs`** what emitted code does to its frame, and
**`FreeListProofs`** what the allocators share (alignment, linked lists, sums
over sets) and the steps of `FreeList`; `AllocatorsProofs` extends it.

Operators whose comment starts with MUTANT are deliberate mistakes that the
mutation entries of `PROJECT.json` put in place of the real definition; no
specification uses them.

## 3. Runs

| Run | Programs | Checks | Result |
| --- | --- | --- | --- |
| `vm` | all bodies of 3 instructions over 36, calls of a function of two parameters, rejected programs, a forged array base | `TypeOK`, `FrameLayout`, `ReturnAddresses`, `OperandsNormalized`, `SuspendedFramesFrozen`, `Termination` under `FairSpec` | holds, about 300,000 states |
| `vm_panic` | the forged array base | `NeverPanics` | violated: finding 1 |
| `gc_vm` | all bodies of 4 heap instructions after an allocation, three global arrays, all pairs of the 36, rejected programs | `TypeOK`, `FreeListExact`, `NoDanglingRefs`, `ReachableArraysKept`, `GarbageBounded` | holds, about 216,000 states |
| `backends` | 9,066 programs: compiled statements with a loop and a recursive function; code the optimizer folds, shortens and moves; code that halts | `ObservableAgreement`, `OptimizedAgreement`, `InStep`, `TracesAgree` | holds, about 247,000 states |
| `backends_slots` | three nested calls | `ObservableAgreement` | violated: finding 2 |
| `verifier` | all bodies of 3 instructions over 21 in a program of two functions, branches that meet again, bad metadata | `TypeOK`, `Fixpoint`, `Completes` under `FairSpec` | holds, about 135,000 states |
| `verified_vm` | 20,814: bodies with calls, loops and well-used arrays; branches that meet again; straight-line single functions, which the JIT takes | `DepthsCovered`, `InitializedLocalsDefined`, `NoStructuralTrap`, `FramesWithinReport`, `DataTrapsReported`, `JitAgrees` | holds, about 310,000 states |
| `jit_neg` | the smallest integer negated | `JitAgrees` | violated: finding 3 |
| `allocators` | every sequence of calls on each allocator and on the collector | `ImplementsHeap`, `CountersAgree`, `FreeListTiled`, `ListsExact`, `SlabGrowsOnlyWhenFull`, `CollectorSweepComplete`, `CollectorRootedSurvive`, `CollectorGarbageBounded`, `CallsReturn` under `FairSpec` | holds, about 490,000 states |
| `source` | 9,739 syntax trees | `RoundTrip`, `VariantsAgree`, `ShrinksDescend`, `AcceptedVerifies`, `OracleAgrees`, `SourceSafe`, `StackBalanced` | holds, about 186,000 states |
| `source_globals` | a main that calls itself | `OracleAgrees` | violated: finding 4 |
| `source_names` | a name of two kinds | `OracleAgrees` | violated: finding 5 |

Bounds. The handmade bodies start with two operands on the stack and share
their code with a function of one parameter, so that three instructions reach
calls, recursion up to `MAX_FRAMES = 3`, stack overflow at 4 operands, jumps
back to the start and every trap; 12 cycles let the body run about twice. Five
local slots hold two frames but not three, so both the frame limit and the
slot limit are met. In a second family the function takes two parameters, so
that a call with one operand pops it into its slot before it misses the other.
`Half = 8` lets one addition or multiplication overflow.
`GC_THRESHOLD = 2` with one global array makes the second allocation of a
program collect; with three, the third is allocated before `main` starts and
collects while only the globals stored so far are roots. In `backends`, `MAX_LOCAL_SLOTS` is `MAX_FRAMES` times the
slots of a function: with fewer, the machines disagree (finding 2). Its
programs loop twice, allocate in the loop and in a callee (collections happen
with references in suspended frames), and reach divide by zero, index out of
bounds, the frame limit and the cycle limit.

In `verifier` and `verified_vm` the operand limit is 3, so that bodies exceed
it; branches over two to four instructions store locals on one path only and
jump back, so that states are merged, change and are visited again. In
`verified_vm` the slot that local array operations use holds an array, as in
compiled code: with any integer there, `InitializedLocalsDefined` and
`DataTrapsReported` fail for the reason of finding 1. `MAX_CYCLES` is above
`MAX_INSTRUCTIONS`, as in `limits.rs`: `JitAgrees` needs it.

The allocators count in units of four bytes: alignment 2, header 4, as 8 and 16
bytes are in the code. The regions are one that holds a header
only, one that a single block uses up with a rest too small to split, and one
that holds up to five blocks, enough for a freed block with free and with used
neighbours on both sides. They start at addresses that are multiples of 16
bytes and at others. Slabs of two objects may lie next to each other or apart;
with three of them every order of freeing six objects is reached. The
collector has three places for objects of two sizes, two of which overlap when
the object in the lower one is large, and a threshold that the third
small object exceeds; roots are any of the addresses arrays give out, also of objects that
are gone.

The sources of `source` come in four families: every body of three statements
out of 13 (declarations with and without value, sibling blocks that declare
one name, a loop that allocates, recursion, divisions and indices that trap)
and of two out of these and 11 statements the analyzer must reject; every
expression of two operators over five atoms, one of which prints, so that the
order of evaluation shows; globals and functions at the top level, well-formed
and not; neighbouring writes and names for the fuzzer's rewritings.
`Half = 128` lets one addition overflow. `MAX_LOCAL_SLOTS` is `MAX_FRAMES`
times the most slots a function here has, because of finding 2. Cycles are
counted per statement in the oracle and per instruction in the machine, so
that `OracleAgrees` and `VariantsAgree` say nothing of a run that the cycle
limit cuts; `VariantsAgree` also exempts the frame limit, since the helper of
one rewriting needs a frame more. One difference is outside these bounds: in
`a[i] = e` with a negative `i` the oracle traps before it evaluates `e`, the
machine after it. Calls in global initializers at the frame limit, and the
operand limit within an expression, which the oracle does not have, are
outside them too. In `verified_vm` the smallest integer is never negated, for
the reason of finding 3.

Fairness. `FairSpec` adds weak fairness of `Next`: the machine is one thread in
a loop without blocking calls, so it takes another step unless it has
returned; the same holds of the verifier. In `FreeList` only the steps of a
call in progress are fair: clients need not call. Nothing stronger is assumed.

Deadlock is checked in every run: a machine that has returned stutters
(`Done`), so a state without successor would be an opcode the model forgot.

### Findings

1. `vm_panic`: `docs/system-artifact.md` promises that malformed bytecode traps
   instead of panicking. `LocalArrayLoad` accepts any in-range integer as an
   array base and so reads an undefined slot, i64::MIN, without a trap;
   dividing it by -1 panics.
2. `backends_slots`: `docs/system-artifact.md` states that the observable
   results of the two machines agree. Only the reference VM bounds the locals
   of all frames together by `MAX_LOCAL_SLOTS`, so deep recursion with large
   frames, within `MAX_FRAMES`, traps there and succeeds in the GC VM.
3. `jit_neg`: `docs/correctness-lab.md` states that executed backends agree on
   the return value. The emitted code brings sums, differences and products
   back to 32 bits, negations it does not: `-(-2^31)` is `-2^31` in the VM and
   `2^31` in native code.
4. `source_globals`: `docs/spec.md` has global initializers execute before
   `main`. They are compiled to the head of `main`, so that a `main` that calls
   itself resets the globals with every call; the oracle initializes them once.
5. `source_names`: the analyzer accepts a name that is an array in one block and
   a scalar in the next. The compiler keeps locals by name for the whole
   function, with the kind of the first declaration: the machine returns an
   array base as if it were a number, and the oracle, which also keeps one slot
   per name, traps.

More facts came up on the way. The verifier accepts a `Return` at any depth
of at least one and the machines keep what lies below the result;
`DepthsCovered` says what remains true of such bytecode (never fewer operands
than computed, and exactly as many when every return is balanced), and
`StackBalanced`, that every frame has exactly the operands the verifier
computed, is checked in `source` for what the compiler emits. The overflow
of finding 2 is not among the possible traps a report lists. The front end does
not count instructions, although `limits.rs` says that it rejects what exceeds
the limits: a source whose program is longer than `MAX_INSTRUCTIONS` is accepted
and then refused by every machine. Local arrays of the reference VM are never
reclaimed; only the cycle limit bounds their number. A REPL definition is kept
once it parses, so that one that clashes with an earlier one makes later
evaluations fail until `:clear`.

## 4. Proofs

Every theorem holds for all values of the constants that satisfy the
assumptions named beside their declarations: all limits, all `Half >= 2` and
every set of programs for the machines and the verifier; every alignment,
header size, region, request and threshold for the allocators. An inductive
invariant of a module is called `IInv` there; there is one lemma per action.

### The reference VM (`VmProofs`)

* `TypeCorrect`: `Spec => []TypeOK`
* `FramesLaidOut`: `Spec => []FrameLayout`
* `ReturnsBehindCalls`: `Spec => []ReturnAddresses`
* `Normalized`: `Spec => []OperandsNormalized`
* `CallersKeepTheirLocals`: `Spec => SuspendedFramesFrozen`
* `PanicsNeedABadBase`: `Spec /\ []ArraysBased => []NeverPanics`

The assumptions are those of `Bytecode`: the limits are naturals, those of
the frames and the operand stack positive; usize is wide enough that neither a
sign-extended jump target nor a return address meets the sentinel; the
programs are well-typed values of `CompiledProgram` (not: valid programs).

`IInv` is data, control, frame layout, return addresses, and that a running
program has passed the preflight. The properties are not inductive one by one.
Values pass from locals to the stack and back, so `OperandsNormalized` has to
speak of all of them at once (`DataOK`); the set `Values` grows with every
`AllocArray`. An access to `locals` is in range only because of `FrameLayout`,
and `FrameLayout` survives `Call` only because of the slot limit.
`SuspendedFramesFrozen` needs the preflight: a `Call` that runs out of
arguments writes up to `param_count` slots, and only `validate_program` knows
that these lie within the frame. Lemmas about the checks (`StackChecks`,
`SlotCheck`, `BaseCheck`, ...) say what a handler knows once they have passed.

`PanicsNeedABadBase` is finding 1 from the other side: the forged base is the
only way to a panic. `ArraysBased` says that the local a `LocalArrayLoad` names
holds an array base whenever the instruction is about to run. Then the
undefined marker i64::MIN stays in the slots it was put in
(`MarkerConfined`: it is never on the stack, in a global or in an element of
an array): `LoadLocal` tests for it, every operator's result is a 32-bit
integer, and array elements start as zeros (`MarkerStays`). The two
operations that can panic take their operands from the stack.

### The GC VM (`GcVmProofs`)

* `TypeCorrect`: `Spec => []TypeOK`
* `FreeSlotsExact`: `Spec => []FreeListExact`
* `ReferencesLive`: `Spec => []NoDanglingRefs`
* `ReachableKept`: `Spec => ReachableArraysKept`
* `GarbageStaysBounded`: `Spec => GarbageBounded`

`IInv` says that every value anywhere is an integer or a live reference
(`DataOK`), that the free list names each empty slot once and the counters fit
the heap (`HeapOK`), that control is within the limits (`ControlOK`) and that
a running program has passed the preflight (`Loaded`). `NoDanglingRefs` is not
inductive without the free list: an allocation reuses a slot, which is
harmless only if nobody refers to it, and nobody does because the slot is
empty. The argument for a collection has three parts: the roots are
all the references a program can use (`RootsAreReachable`), so that a sweep
empties only slots without references; `Ascending` lists each freed slot once,
so that the free list stays exact (`AscendingLists`, `SweptFreeExact`); the
slot an allocation takes held no array before it (`AllocLive`). `GarbageBounded`
counts what is live before and after a step (`LiveCounted`).

### The verifier (`VerifierProofs`)

* `FixpointReached`: `Spec => []Fixpoint`
* `TypesKept`: `Spec => []TypeOK`

with one more assumption: a program has finitely many functions, as a `HashMap`
does. `IInv` adds to `Fixpoint` the types of the abstract states and that the
functions of `order` are distinct and start within the code (`OrderOK`,
`StatesOK`), and that every pc in the worklist has a state (`WorklistOK`). A
step of the worklist can disturb soundness in two places only. The pcs it
reaches have a new state, and they are enqueued (`EnqueuedElements`,
`StepWorklist`), so they are allowed to lag behind. All other pcs may have
one of them as a successor; there a merge keeps the depth and only takes
initialised locals away (`StepMerges`), which keeps them sound
(`SoundStays`). The pc at the head leaves the worklist, and is sound if the
step reported no error (`StepSound`): a successor it did not reach already
held a state that the merge left as it was. `EnterFunction` leaves the
functions before it alone because their names are distinct, and finds all of
their pcs sound because the worklist is empty. `ReportOK` and `ValidFacts` add
what a report without errors says as a whole: no metadata error, every
function in the order, its entry covered, every covered pc sound, no depth
above `max_stack_depth`.

`TypesKept` rests on what `max_frame_depth` computes: a number of frames no
larger than the number of functions, or unbounded. `visit` is a recursive
function over pairs of a function and the functions being visited; that it
unfolds at every pair is shown with functions defined on the pairs with at most
k functions left to visit (`VisitApproximated`, `VisitUnfolds`), the least k
without one taking the place of an induction. `ChainWithin` says what the
number means: no chain of call edges from `main` is longer. `RecordsOK` collects
what the verifier writes down as it goes: the call edges, the traps and the
undefined uses of every pc it has covered and has not enqueued again
(`Noted`), and that flags are kept for the function's own slots (`SlotsOK`).

### The verifier is sound for the machine (`VerifiedVmProofs`)

* `FramesCovered`: `Spec => []DepthsCovered`
* `NoStructuralTraps`: `Spec => []NoStructuralTrap`
* `BalancedWhenReturnsAre`: `Spec => [](BalancedReturns => StackBalanced)`
* `FrameDepthBounds`: `Spec => []FramesWithinReport`
* `CheckedTrapsReported`: a division by zero or an index out of bounds is among
  the possible traps
* `InitializedMeansDefined`: `Spec /\ []Disciplined => []InitializedLocalsDefined`
* `DataTrapsForeseen`: `Spec /\ []Disciplined => []DataTrapsReported`

`DepthsCovered` is not inductive: when a callee returns, its caller receives a
result, so the invariant has to know that the state reported at the return
address already counts that result (`FrameOK`: depth at least one below the
top frame). The proof joins the two halves: `ValidFacts` says that the pc of
the running frame has a sound abstract state, which makes every check of the
instruction there pass (`Guarded`), and `GuardedStep` of `VmProofs` says what
the machine does with an instruction whose checks pass: it ends, traps on
data, or moves within the frame, into a callee or back, with the stack effect
of its opcode. Soundness of the pc then gives the abstract state of the next
one. `VP` and `MP` are the proof modules instantiated as `VerifiedVm`
instantiates `Verifier` and `Vm`; the lemmas `Same...` identify the two.

The rest of the report follows from `RecordsOK` in the same way: the function
of each frame is called from that of the frame below along a recorded edge
(`CallsRecorded`), so the call stack is a chain and `ChainWithin` bounds it; a
trap comes from the instruction at pc, whose traps are noted (`TrapKinds`,
`TrapsAreNoted`).

`Disciplined` has two parts, and both are needed. `ArraysBased` is that of
`VmProofs`: a forged base reads the marker (finding 1) or writes over another
frame's local. `MainTakesNothing` came out of the proof: `verify_function`
counts the parameters of every function as initialised, those of `main` too,
but `run` enters `main` without arguments. The analyzer rejects a `main` with
parameters; the verifier and the preflight do not, so the bytecode
`LoadLocal 0; Return` with a `main` of one parameter has a valid report without
possible traps, is eligible for the JIT, and traps with UndefinedLocal. The
compiler's output satisfies both: over all sources of `source`, TLC finds
no state without `ArraysBased` and no `main` with parameters.

### Native code (`JitProofs`, `VerifiedVmProofs`)

* `NativeCodeAgrees`:
  `FrameFits => (Spec /\ []MainTakesNothing /\ []NegationsFit => []JitAgrees)`

For every program the verifier accepts and the gate lets through: the machine
runs `main` to its end without a trap, and the native code returns the same
value, with `rsp` and `rbp` as the caller had them. Three hypotheses:

* `FrameFits`: `MAX_LOCAL_SLOTS <= JIT_FRAME_WORDS`, and
  `MAX_INSTRUCTIONS <= MAX_CYCLES` unless cycles are unlimited. In the code,
  1,024 slots and 8,192 bytes, 10,000 and 100,000. The gate compares no slot
  with the frame, so only the first limit keeps a local inside it; native code
  counts no cycles, so only the second keeps the machine from cutting a run the
  native code finishes.
* `NegationsFit`: no `Neg` meets the least i32. Without it the theorem is false
  (finding 3, run `jit_neg`).
* `MainTakesNothing`: as above; the gate lets a `main` with parameters through.

`NativeOK` is the invariant. While `main` is under way it is straight-line from
its entry to pc, and `Behind`, the machine behind the code emitted for the
instructions before pc, is a frame that `Shows` the VM's operands, and those
locals the verifier counts as initialised (`InMain`); afterwards `Native` has
returned what the VM returned (`Returned`). `Shows` is kept by the code of every
opcode (one lemma each in `JitProofs`): the pushes below the frame reach none of
its words, and a local's word lies above every operand. That sums and products
agree rests on `normalize_i32` of a 64-bit result being that of the exact one.
`MainUnstopped` gives that an eligible program meets no trap and no limit:
structural checks pass by the soundness of the verifier, and of the possible
traps none is left, or the gate would have refused (`StraightStep` of `VmProofs`
is the machine's half). `MainRangeIs` says that compile stops at the same
`Return` the machine comes to.

### Allocators and collector (`AllocatorsProofs`, `FreeListProofs`)

* `Implementation`: `Spec => ImplementsHeap`, the refinement of `Heap`
* `BlocksTile`: `Spec => []FreeListTiled`
* `ListsHoldAll`: `Spec => []ListsExact`
* `SlabsGrowWhenFull`: `Spec => SlabGrowsOnlyWhenFull`
* `SweepTakesAll`: `Spec => []CollectorSweepComplete`
* `RootedSurvive`: `Spec => CollectorRootedSurvive`
* `GarbageIsBounded`: `Spec => CollectorGarbageBounded`
* `CountersKept`: `Spec => []CountersAgree`

The assumptions are those of `AllocParameters`: alignments positive, headers a
multiple of the alignment, regions and system blocks aligned and large enough
for a header. `IInv` is one invariant per allocator, and every step is shown
to be a step of `Heap` or to leave memory and blocks alone (`HeapStep`).

* `BumpOK`: what is handed out lies below the bump pointer.
* `SlabOK`: there is a sequence of the free objects along the links
  (`HasChain`). `ListExact` follows the links by a recursive function; that the
  two agree is shown once, for any list (`ChainWalk`, `ChainNth`), with the
  least counterexample in place of an induction (`Least`, `StepByStep`).
* `CollectorOK`: the same for the object list, also in the middle of a sweep,
  where `SweepAt` says how far the sweep has come: objects before it are
  rooted and unmarked, those behind it marked exactly if rooted. That is why a
  sweep leaves no garbage and why no mark survives it. A request that is about
  to be granted either stays below the threshold or follows a collection
  (`RequestOK`).
* `FreeListOK`: the blocks tile the arena (`Tiling`, kept by `TilingSplit` and
  `TilingJoin`); the free ones are listed in order of their addresses
  (`Sorted`, kept by `SortedRemove`, `SortedInsert`, `SortedReplace`); no two of
  them touch, in the middle of a call too; the search stands between a listed
  block and its successor (`SearchesAt`), in `free` below the block to insert.
  `Insert` is the step that needs all of it: that no free block lies between
  `prev` and `current` (`Between`), so that coalescing with these two leaves no
  others that touch. The counters are in the invariant as the cardinalities of
  `live` and of the bytes in use (`CountOK`), which keeps the subtraction in
  `free` from underflowing.
* `Counts`: the counters of `Bump` and of the collector are sums over what is in
  use; a step adds or takes one term. `SumFunction` is a fold whose order is
  left to CHOOSE; `FreeListProofs` shows that every order gives
  one sum (`SumsCommute`, `SumsUnique`) and that the sum over a set with one
  element more has one term more (`SumOfMore`), by the smallest set for which
  that fails. For the free list, the sum over free blocks and the bytes in use
  make up the arena because the blocks tile it (`BytesInBlocks`, `FreeListSums`).

### Only model-checked

* `Termination`, `Completes`, `CallsReturn`: liveness under fairness is out of
  the prover's reach.
* `ObservableAgreement`, `OptimizedAgreement`, `InStep`, `TracesAgree`: false
  for all limits (finding 2), and the optimizer's passes are recursive.
* `Pipeline`: `Parser`, `Sema`, `Compiler`, `Oracle`, `Emitter`, `Metamorphic` and
  `Shrinker` are recursive operators over trees.

## 5. Plan

1. `InStep` and `ObservableAgreement` of the two machines, from `IInv` of `Vm`
   and of `GcVm`, under the relation of the limits that finding 2 calls for;
   this needs `Backends` split, so that the optimizer's recursive operators are
   not in reach of the proof.
2. `NegationsFit` from the operands of an eligible program, which are the
   constants and products of its own code, so that the hypothesis speaks of
   the program alone.
3. `ArraysBased` for what the compiler emits, from the analyzer's rule that an
   array's name is no value.

## 6. Not modelled

The lexer and the arena variant of the tree (characters to tokens; a second
representation no other part builds), the command line and the REPL, whose
definitions are text kept between inputs, the generator of random programs and
its guidance, reduction by lines and artifacts, evidence reports, the assembling
of audit reports. The bytes of x86-64 instructions and executable memory. Debug
output, JSON, fingerprints, and the wording of messages: the trace diff compares
the messages of traps too, and the machines word a few of them differently.
Trace replay compares two runs of one deterministic machine. In `runtime.rs`
the operand stack, frames and global store have no caller outside their tests.
`PROJECT.json` lists every part with its status.
