---------------------------- MODULE VerifierProofs ----------------------------
(***************************************************************************)
(* What verify leaves in its report, for every program and every value of  *)
(* the limits.  The worklist of verify_function computes a fixpoint        *)
(* (Fixpoint), the depths it reaches are reported (ReportOK), so are the   *)
(* traps and calls of every instruction it steps (RecordsOK), and the      *)
(* frame depth bounds every chain of these calls (ChainWithin).            *)
(***************************************************************************)
EXTENDS Verifier, FiniteSetTheorems, FunctionTheorems, SequenceTheorems,
        NaturalsInduction, WellFoundedInduction, TLAPS

(***************************************************************************)
(* The inductive invariant.  Fixpoint needs to know that the functions of  *)
(* `order` are distinct (a step touches the states of one function only),  *)
(* that the worklist holds pcs with a state, and the types.                *)
(***************************************************************************)
OrderOK ==
  /\ order \in Seq(DOMAIN prog.functions)
  /\ at \in 0 .. Len(order)
  /\ \A i, j \in 1 .. Len(order) : i < j => order[i] # order[j]
  /\ \A i \in 1 .. Len(order) : Start(i) < Len(Code)
  /\ phase = "new" => at = 0 /\ worklist = <<>>

KnownOK(known) ==
  \A q \in DOMAIN known : q \in 0 .. Len(Code) - 1 /\ known[q] \in AbstractState

StatesOK ==
  /\ states = [f \in DOMAIN prog.functions |-> states[f]]
  /\ \A f \in DOMAIN prog.functions : KnownOK(states[f])

WorklistOK ==
  /\ worklist \in Seq(Nat)
  /\ worklist # <<>> => at >= 1
  /\ \A k \in 1 .. Len(worklist) : worklist[k] \in DOMAIN states[order[at]]

IInv == prog \in Programs /\ OrderOK /\ StatesOK /\ WorklistOK /\ Fixpoint

(***************************************************************************)
(* Instructions and their effects.                                         *)
(***************************************************************************)

\* A pc of the code names an instruction; metadata has the types of the Rust
\* structs (CompiledProgram).
LEMMA ProgramTypes ==
  ASSUME prog \in Programs
  PROVE  /\ Code \in Seq(Instruction)
         /\ \A q \in 0 .. Len(Code) - 1 : Code[q + 1] \in Instruction
         /\ DOMAIN prog.functions \subseteq Nat
         /\ \A f \in DOMAIN prog.functions : Info(f) \in FunctionInfo
PROOF
<1>1. IsProgram(prog)
  BY ProgramsAssumption
<1>2. Code \in Seq(Instruction)
  BY <1>1 DEF IsProgram, Code
<1>3. \A q \in 0 .. Len(Code) - 1 : Code[q + 1] \in Instruction
  BY <1>2
<1>4. QED
  BY <1>1, <1>2, <1>3 DEF IsProgram, Info

\* An accepted instruction turns an abstract state into another one: the depth
\* stays a natural number (pop_stack before every subtraction).
LEMMA EffectTypes ==
  ASSUME prog \in Programs, NEW i, NEW ins \in Instruction, NEW s \in AbstractState,
         OperandsOK(i, ins), s.depth >= Pops(ins)
  PROVE  After(ins, s) \in AbstractState
PROOF
<1>1. Pops(ins) \in Nat
  <2>1. CASE ins.opcode = "Call"
    BY <2>1, ProgramTypes DEF OperandsOK, Pops, FunctionInfo, BinaryOps, Arithmetic,
       Comparisons, Allocations, GlobalArrayOps, LocalArrayOps, Jumps
  <2>2. CASE ins.opcode # "Call"
    BY <2>2 DEF Pops
  <2>3. QED
    BY <2>1, <2>2
<1>2. Pushes(ins) \in Nat
  BY DEF Pushes
<1>3. ins.opcode = "StoreLocal" => ins.arg1 \in Nat
  <2>1. ins.opcode = "StoreLocal" => LocalOK(i, ins.arg1)
    BY DEF OperandsOK, Jumps, GlobalArrayOps, LocalArrayOps, Allocations
  <2>2. ins.arg1 \in Int
    BY LimitsAssumption DEF Instruction, I32
  <2>3. QED
    BY <2>1, <2>2 DEF LocalOK
<1>4. QED
  BY <1>1, <1>2, <1>3 DEF After, AbstractState

\* The successors of an accepted instruction are at most two pcs.
LEMMA SuccessorTypes ==
  ASSUME prog \in Programs, NEW i, NEW ins \in Instruction, NEW q \in Nat,
         OperandsOK(i, ins)
  PROVE  Successors(ins, q) \in Seq(Nat) /\ Len(Successors(ins, q)) <= 2
PROOF
<1>1. ins.opcode \in Jumps => ins.arg1 \in Nat
  BY DEF OperandsOK, Instruction, I32, Jumps, GlobalArrayOps, LocalArrayOps, Allocations
<1>2. QED
  BY <1>1 DEF Successors, Jumps

\* A range lies within the code (function_ranges).
LEMMA RangeInCode ==
  ASSUME prog \in Programs, OrderOK, NEW i \in 1 .. Len(order), NEW q \in Int,
         pc_in_range(i, q)
  PROVE  q \in 0 .. Len(Code) - 1
PROOF
<1>1. /\ DOMAIN prog.functions \subseteq Nat
      /\ \A f \in DOMAIN prog.functions : Info(f).entry_pc \in Nat
      /\ Len(Code) \in Nat
  BY ProgramTypes DEF FunctionInfo
<1>2. \A j \in 1 .. Len(order) : order[j] \in DOMAIN prog.functions
  BY DEF OrderOK
<1>3. \A j \in 1 .. Len(order) : Start(j) \in Nat /\ Start(j) < Len(Code)
  BY <1>1, <1>2 DEF OrderOK, Start
<1>4. End(i) <= Len(Code) /\ End(i) \in Int
  <2>1. CASE i = Len(order)
    BY <1>1, <2>1 DEF End
  <2>2. CASE i # Len(order)
    <3>1. i + 1 \in 1 .. Len(order) /\ Len(order) \in Nat
      BY <2>2 DEF OrderOK
    <3>2. End(i) = Start(i + 1)
      BY <2>2 DEF End, Start
    <3>3. QED
      BY <1>1, <1>3, <3>1, <3>2
  <2>3. QED
    BY <2>1, <2>2
<1>5. QED
  BY <1>1, <1>3, <1>4 DEF pc_in_range

\* Concatenations of at most one element each.
LEMMA ShortConcat ==
  ASSUME NEW a \in Nat, NEW b \in Nat
  PROVE  /\ <<a>> \in Seq(Nat) /\ Len(<<a>>) = 1 /\ <<a>>[1] = a
         /\ <<a>> \o <<b>> \in Seq(Nat) /\ Len(<<a>> \o <<b>>) = 2
         /\ (<<a>> \o <<b>>)[1] = a /\ (<<a>> \o <<b>>)[2] = b
         /\ <<a>> \o << >> = <<a>> /\ << >> \o <<b>> = <<b>>
         /\ << >> \o << >> = << >> /\ << >> \in Seq(Nat) /\ Len(<< >>) = 0
  OBVIOUS

EnqueuedExactly(new, succs) ==
  /\ Enqueued(new, succs) \in Seq(Nat)
  /\ \A k \in 1 .. Len(Enqueued(new, succs)) :
       \E j \in 1 .. Len(succs) : /\ Enqueued(new, succs)[k] = succs[j]
                                  /\ Propagates(new, succs[j])
  /\ \A j \in 1 .. Len(succs) : Propagates(new, succs[j]) =>
       \E k \in 1 .. Len(Enqueued(new, succs)) : Enqueued(new, succs)[k] = succs[j]

\* What the loop over the successors enqueues are the successors the new state
\* propagates to.
LEMMA EnqueuedElements ==
  ASSUME NEW new, NEW succs \in Seq(Nat), Len(succs) <= 2
  PROVE  EnqueuedExactly(new, succs)
PROOF
<1>1. CASE Len(succs) = 0
  <2>1. Enqueued(new, succs) = << >>
    BY <1>1 DEF Enqueued
  <2>2. QED
    BY <1>1, <2>1 DEF EnqueuedExactly
<1>2. CASE Len(succs) = 1
  <2>1. succs[1] \in Nat /\ succs # << >>
    <3>1. 1 \in 1 .. Len(succs)
      BY <1>2
    <3>2. succs[1] \in Nat
      BY <3>1
    <3>3. Len(<< >>) = 0
      OBVIOUS
    <3>4. QED
      BY <1>2, <3>2, <3>3
  <2>2. Enqueued(new, succs) = Enqueue(new, succs[1])
    BY <1>2, <2>1 DEF Enqueued
  <2>3. CASE Propagates(new, succs[1])
    <3>1. Enqueued(new, succs) = <<succs[1]>>
      BY <2>2, <2>3 DEF Enqueue
    <3>2. QED
      BY <1>2, <2>1, <2>3, <3>1, ShortConcat DEF EnqueuedExactly
  <2>4. CASE ~Propagates(new, succs[1])
    <3>1. Enqueued(new, succs) = << >>
      BY <2>2, <2>4 DEF Enqueue
    <3>2. QED
      BY <1>2, <2>1, <2>4, <3>1, ShortConcat DEF EnqueuedExactly
  <2>5. QED
    BY <2>3, <2>4
<1>3. CASE Len(succs) = 2
  <2>1. succs[1] \in Nat /\ succs[2] \in Nat /\ succs # << >> /\ Len(succs) # 1
    <3>1. 1 \in 1 .. Len(succs) /\ 2 \in 1 .. Len(succs)
      BY <1>3
    <3>2. succs[1] \in Nat /\ succs[2] \in Nat
      BY <3>1
    <3>3. Len(<< >>) = 0
      OBVIOUS
    <3>4. QED
      BY <1>3, <3>2, <3>3
  <2>2. Enqueued(new, succs) =
          Enqueue(new, succs[1]) \o
            (IF succs[2] = succs[1] THEN << >> ELSE Enqueue(new, succs[2]))
    BY <2>1 DEF Enqueued
  <2>3. /\ Propagates(new, succs[1]) => Enqueue(new, succs[1]) = <<succs[1]>>
        /\ ~Propagates(new, succs[1]) => Enqueue(new, succs[1]) = << >>
        /\ Propagates(new, succs[2]) => Enqueue(new, succs[2]) = <<succs[2]>>
        /\ ~Propagates(new, succs[2]) => Enqueue(new, succs[2]) = << >>
    BY DEF Enqueue
  <2>4. CASE Propagates(new, succs[1]) /\ Propagates(new, succs[2])
                                       /\ succs[2] # succs[1]
    <3>1. Enqueued(new, succs) = <<succs[1]>> \o <<succs[2]>>
      BY <2>2, <2>3, <2>4
    <3>2. QED
      BY <1>3, <2>1, <2>4, <3>1, ShortConcat DEF EnqueuedExactly
  <2>5. CASE Propagates(new, succs[1]) /\ (succs[2] = succs[1] \/ ~Propagates(new, succs[2]))
    <3>1. Enqueued(new, succs) = <<succs[1]>> \o << >>
      BY <2>2, <2>3, <2>5
    <3>2. Enqueued(new, succs) = <<succs[1]>>
      BY <2>1, <3>1, ShortConcat
    <3>3. QED
      BY <1>3, <2>1, <2>5, <3>2, ShortConcat DEF EnqueuedExactly
  <2>6. CASE ~Propagates(new, succs[1]) /\ Propagates(new, succs[2])
    <3>1. succs[2] # succs[1]
      BY <2>6
    <3>2. Enqueued(new, succs) = << >> \o <<succs[2]>>
      BY <2>2, <2>3, <2>6, <3>1
    <3>3. Enqueued(new, succs) = <<succs[2]>>
      BY <2>1, <3>2, ShortConcat
    <3>4. QED
      BY <1>3, <2>1, <2>6, <3>3, ShortConcat DEF EnqueuedExactly
  <2>7. CASE ~Propagates(new, succs[1]) /\ ~Propagates(new, succs[2])
    <3>1. Enqueued(new, succs) = << >> \o << >>
      BY <2>2, <2>3, <2>7
    <3>2. Enqueued(new, succs) = << >>
      BY <2>1, <3>1, ShortConcat
    <3>3. QED
      BY <1>3, <2>1, <2>7, <3>2, ShortConcat DEF EnqueuedExactly
  <2>8. QED
    BY <2>4, <2>5, <2>6, <2>7
<1>4. Len(succs) \in Nat
  OBVIOUS
<1>5. \A n \in Nat : n <= 2 => n = 0 \/ n = 1 \/ n = 2
  OBVIOUS
<1>6. QED
  BY <1>1, <1>2, <1>3, <1>4, <1>5

(***************************************************************************)
(* Steps that leave the program and the order of its functions alone.      *)
(***************************************************************************)

\* The checks of an instruction depend on the program and the ranges only.
LEMMA ChecksStay ==
  ASSUME prog' = prog, order' = order, NEW i, NEW q
  PROVE  /\ Code' = Code
         /\ OperandsOK(i, Code[q + 1])' <=> OperandsOK(i, Code[q + 1])
         /\ Start(i)' = Start(i) /\ End(i)' = End(i)
         /\ Info(order[i])' = Info(order[i])
PROOF
  BY DEF OperandsOK, LocalOK, GlobalOK, pc_in_range, Start, End, Info, Code

\* A pc stays sound when its own state does not change and the others keep
\* their depth and lose initialised locals at most (the merge).
LEMMA SoundStays ==
  ASSUME prog' = prog, order' = order, NEW i, NEW q,
         Sound(i, q, states[order[i]]),
         states'[order[i]][q] = states[order[i]][q],
         \A t \in DOMAIN states[order[i]] :
           /\ t \in DOMAIN states'[order[i]]
           /\ states'[order[i]][t].depth = states[order[i]][t].depth
           /\ states'[order[i]][t].init \subseteq states[order[i]][t].init
  PROVE  Sound(i, q, states[order[i]])'
PROOF
  BY ChecksStay DEF Sound, pc_in_range

\* The entry of a function stays covered under the same condition.
LEMMA EntryStays ==
  ASSUME prog' = prog, order' = order, NEW i,
         EntryCovered(i, states[order[i]]),
         \A t \in DOMAIN states[order[i]] :
           /\ t \in DOMAIN states'[order[i]]
           /\ states'[order[i]][t].depth = states[order[i]][t].depth
           /\ states'[order[i]][t].init \subseteq states[order[i]][t].init
  PROVE  EntryCovered(i, states[order[i]])'
PROOF
  BY ChecksStay DEF EntryCovered

(***************************************************************************)
(* StepInstruction.                                                        *)
(***************************************************************************)

\* The pc at the head of the worklist has a state and an instruction.
LEMMA HeadTypes ==
  ASSUME IInv, worklist # << >>
  PROVE  /\ at \in 1 .. Len(order) /\ order[at] \in DOMAIN prog.functions
         /\ Here = worklist[1] /\ Here \in DOMAIN Known
         /\ Here \in 0 .. Len(Code) - 1 /\ Here \in Nat
         /\ Instr \in Instruction /\ State \in AbstractState
         /\ KnownOK(Known)
         /\ Tail(worklist) \in Seq(Nat) /\ Len(Tail(worklist)) = Len(worklist) - 1
         /\ \A k \in 1 .. Len(worklist) - 1 : Tail(worklist)[k] = worklist[k + 1]
         /\ Len(worklist) \in Nat \ {0}
PROOF
<1>1. at \in 1 .. Len(order) /\ order[at] \in DOMAIN prog.functions
  BY DEF IInv, OrderOK, WorklistOK
<1>2. /\ worklist \in Seq(Nat) /\ Len(worklist) \in Nat \ {0}
      /\ Here = worklist[1] /\ Tail(worklist) \in Seq(Nat)
      /\ Len(Tail(worklist)) = Len(worklist) - 1
      /\ \A k \in 1 .. Len(worklist) - 1 : Tail(worklist)[k] = worklist[k + 1]
  BY DEF IInv, WorklistOK, Here
<1>3. Here \in DOMAIN Known
  BY <1>2 DEF IInv, WorklistOK, Known
<1>4. KnownOK(Known)
  BY <1>1 DEF IInv, StatesOK, Known
<1>5. Here \in 0 .. Len(Code) - 1 /\ State \in AbstractState
  BY <1>3, <1>4 DEF KnownOK, State
<1>6. Instr \in Instruction
  BY <1>5, ProgramTypes DEF IInv, Instr
<1>7. Len(Code) \in Nat
  BY ProgramTypes DEF IInv
<1>8. Here \in Nat
  BY <1>5, <1>7
<1>9. QED
  BY <1>1, <1>2, <1>3, <1>4, <1>5, <1>6, <1>8

\* What the step writes: the states of the current function, merged.
LEMMA StepStates ==
  ASSUME IInv, StepInstruction
  PROVE  LET new     == After(Instr, State)
             succs   == Successors(Instr, Here)
             reached == {q \in {succs[k] : k \in DOMAIN succs} : Propagates(new, q)}
             later   == states'[order[at]]
         IN  /\ new \in AbstractState
             /\ succs \in Seq(Nat) /\ Len(succs) <= 2
             /\ states' = [f \in DOMAIN prog.functions |-> states'[f]]
             /\ \A f \in DOMAIN prog.functions \ {order[at]} : states'[f] = states[f]
             /\ DOMAIN later = DOMAIN Known \cup reached
             /\ \A q \in DOMAIN later \ reached : later[q] = Known[q]
             /\ \A q \in reached :
                  later[q] = IF q \in DOMAIN Known THEN Merge(Known[q], new) ELSE new
             /\ \A q \in reached \cap DOMAIN Known : Known[q].depth = new.depth
             /\ reached \subseteq 0 .. Len(Code) - 1
PROOF
<1> DEFINE new     == After(Instr, State)
           succs   == Successors(Instr, Here)
           reached == {q \in {succs[k] : k \in DOMAIN succs} : Propagates(new, q)}
           later   == states'[order[at]]
           update  == [q \in DOMAIN Known \cup reached |->
                         IF q \notin reached THEN Known[q]
                         ELSE IF q \in DOMAIN Known THEN Merge(Known[q], new) ELSE new]
<1>1. worklist # << >> /\ Accepted
  BY DEF StepInstruction, Dequeue
<1>2. new \in AbstractState
  BY <1>1, HeadTypes, EffectTypes DEF IInv, Accepted
<1>3. succs \in Seq(Nat) /\ Len(succs) <= 2
  BY <1>1, HeadTypes, SuccessorTypes DEF IInv, Accepted
<1>4. states' = [states EXCEPT ![order[at]] = update]
  BY DEF StepInstruction
<1>5. states = [f \in DOMAIN prog.functions |-> states[f]]
  BY DEF IInv, StatesOK
<1>6. order[at] \in DOMAIN prog.functions
  BY <1>1, HeadTypes
<1> HIDE DEF update
<1>7. /\ states' = [f \in DOMAIN prog.functions |-> states'[f]]
      /\ \A f \in DOMAIN prog.functions \ {order[at]} : states'[f] = states[f]
      /\ later = update
  BY <1>4, <1>5, <1>6
<1>8. reached \subseteq 0 .. Len(Code) - 1
  <2> SUFFICES ASSUME NEW q \in reached PROVE q \in 0 .. Len(Code) - 1
    OBVIOUS
  <2>1. q \in Nat
    BY <1>3
  <2>2. pc_in_range(at, q)
    BY DEF Propagates
  <2>3. QED
    BY <1>1, <2>1, <2>2, HeadTypes, RangeInCode DEF IInv
<1>9. \A q \in reached \cap DOMAIN Known : Known[q].depth = new.depth
  BY DEF Propagates
<1>10. /\ DOMAIN later = DOMAIN Known \cup reached
       /\ \A q \in DOMAIN later \ reached : later[q] = Known[q]
       /\ \A q \in reached :
            later[q] = IF q \in DOMAIN Known THEN Merge(Known[q], new) ELSE new
  <2> HIDE DEF reached, new
  <2>1. QED
    BY <1>7 DEF update
<1>11. QED
  BY <1>2, <1>3, <1>7, <1>8, <1>9, <1>10

\* What the step enqueues: the old worklist without its head, and every pc
\* whose state is new or has changed.
LEMMA StepWorklist ==
  ASSUME IInv, StepInstruction
  PROVE  LET new     == After(Instr, State)
             succs   == Successors(Instr, Here)
             reached == {q \in {succs[k] : k \in DOMAIN succs} : Propagates(new, q)}
         IN  /\ worklist' \in Seq(Nat)
             /\ \A q \in reached : \E k \in 1 .. Len(worklist') : worklist'[k] = q
             /\ \A j \in 2 .. Len(worklist) :
                  \E k \in 1 .. Len(worklist') : worklist'[k] = worklist[j]
             /\ \A k \in 1 .. Len(worklist') :
                  \/ worklist'[k] \in reached
                  \/ \E j \in 1 .. Len(worklist) : worklist'[k] = worklist[j]
PROOF
<1> DEFINE new     == After(Instr, State)
           succs   == Successors(Instr, Here)
           reached == {q \in {succs[k] : k \in DOMAIN succs} : Propagates(new, q)}
           tail    == Tail(worklist)
           news    == Enqueued(new, succs)
<1>1. worklist # << >>
  BY DEF StepInstruction, Dequeue
<1>2. worklist' = tail \o news
  BY DEF StepInstruction
<1>3. succs \in Seq(Nat) /\ Len(succs) <= 2 /\ DOMAIN succs = 1 .. Len(succs)
  BY StepStates
<1>4. /\ tail \in Seq(Nat) /\ Len(tail) = Len(worklist) - 1
      /\ \A k \in 1 .. Len(worklist) - 1 : tail[k] = worklist[k + 1]
      /\ Len(worklist) \in Nat \ {0}
  BY <1>1, HeadTypes
<1> HIDE DEF new, succs, tail
<1>5. /\ news \in Seq(Nat)
      /\ \A k \in 1 .. Len(news) : news[k] \in reached
      /\ \A q \in reached : \E k \in 1 .. Len(news) : news[k] = q
  <2>1. /\ news \in Seq(Nat)
        /\ \A k \in 1 .. Len(news) :
             \E j \in 1 .. Len(succs) : news[k] = succs[j] /\ Propagates(new, succs[j])
        /\ \A j \in 1 .. Len(succs) : Propagates(new, succs[j]) =>
             \E k \in 1 .. Len(news) : news[k] = succs[j]
    <3>1. EnqueuedExactly(new, succs)
      BY <1>3, EnqueuedElements
    <3>2. QED
      BY <3>1 DEF EnqueuedExactly
  <2> HIDE DEF news
  <2>2. \A q : q \in reached <=>
              \E j \in 1 .. Len(succs) : q = succs[j] /\ Propagates(new, succs[j])
    BY <1>3
  <2> HIDE DEF reached
  <2>3. ASSUME NEW k \in 1 .. Len(news) PROVE news[k] \in reached
    <3>1. PICK j \in 1 .. Len(succs) : news[k] = succs[j] /\ Propagates(new, succs[j])
      BY <2>1
    <3>2. QED
      BY <2>2, <3>1
  <2>4. ASSUME NEW q \in reached PROVE \E k \in 1 .. Len(news) : news[k] = q
    <3>1. PICK j \in 1 .. Len(succs) : q = succs[j] /\ Propagates(new, succs[j])
      BY <2>2
    <3>2. QED
      BY <2>1, <3>1
  <2>5. QED
    BY <2>1, <2>3, <2>4
<1> HIDE DEF reached, news
<1>6. /\ worklist' \in Seq(Nat) /\ Len(worklist') = Len(tail) + Len(news)
      /\ \A k \in 1 .. Len(tail) : worklist'[k] = tail[k]
      /\ \A k \in 1 .. Len(news) : worklist'[Len(tail) + k] = news[k]
      /\ Len(tail) \in Nat /\ Len(news) \in Nat
  <2>1. Len(tail) \in Nat /\ Len(news) \in Nat
    BY <1>4, <1>5
  <2>2. tail \in Seq(Nat) /\ news \in Seq(Nat)
    BY <1>4, <1>5
  <2>3. /\ tail \o news \in Seq(Nat) /\ Len(tail \o news) = Len(tail) + Len(news)
        /\ \A k \in 1 .. Len(tail) + Len(news) :
             (tail \o news)[k] = IF k <= Len(tail) THEN tail[k] ELSE news[k - Len(tail)]
    BY <2>2, ConcatProperties
  <2>4. QED
    BY <1>2, <2>1, <2>3
<1>7. \A q \in reached : \E k \in 1 .. Len(worklist') : worklist'[k] = q
  <2> SUFFICES ASSUME NEW q \in reached
               PROVE  \E k \in 1 .. Len(worklist') : worklist'[k] = q
    OBVIOUS
  <2>1. PICK k \in 1 .. Len(news) : news[k] = q
    BY <1>5
  <2>2. Len(tail) + k \in 1 .. Len(worklist') /\ worklist'[Len(tail) + k] = q
    BY <1>6, <2>1
  <2>3. QED
    BY <2>2
<1>8. \A j \in 2 .. Len(worklist) :
        \E k \in 1 .. Len(worklist') : worklist'[k] = worklist[j]
  <2> SUFFICES ASSUME NEW j \in 2 .. Len(worklist)
               PROVE  \E k \in 1 .. Len(worklist') : worklist'[k] = worklist[j]
    OBVIOUS
  <2>1. j - 1 \in 1 .. Len(worklist') /\ worklist'[j - 1] = worklist[j]
    <3>1. PICK i \in Int : i = j - 1
      OBVIOUS
    <3>2. i \in 1 .. Len(tail) /\ i + 1 = j
      BY <1>4, <3>1
    <3>3. tail[i] = worklist[j]
      BY <1>4, <3>2
    <3>4. i \in 1 .. Len(worklist') /\ worklist'[i] = worklist[j]
      BY <1>6, <3>2, <3>3
    <3>5. QED
      BY <3>1, <3>4
  <2>2. QED
    BY <2>1
<1>9. \A k \in 1 .. Len(worklist') :
        \/ worklist'[k] \in reached
        \/ \E j \in 1 .. Len(worklist) : worklist'[k] = worklist[j]
  <2> SUFFICES ASSUME NEW k \in 1 .. Len(worklist')
               PROVE  \/ worklist'[k] \in reached
                      \/ \E j \in 1 .. Len(worklist) : worklist'[k] = worklist[j]
    OBVIOUS
  <2>1. CASE k <= Len(tail)
    <3>1. k + 1 \in 1 .. Len(worklist) /\ worklist'[k] = worklist[k + 1]
      BY <1>4, <1>6, <2>1
    <3>2. QED
      BY <3>1
  <2>2. CASE k > Len(tail)
    <3>1. k - Len(tail) \in 1 .. Len(news) /\ Len(tail) + (k - Len(tail)) = k
      BY <1>6, <2>2
    <3>2. worklist'[k] = news[k - Len(tail)]
      BY <1>6, <3>1
    <3>3. QED
      BY <1>5, <3>1, <3>2
  <2>3. QED
    BY <1>6, <2>1, <2>2
<1>10. QED
  BY <1>6, <1>7, <1>8, <1>9 DEF reached, new, succs

\* Depths stay and initialised locals can only be lost in the states of the
\* current function; the types are kept.
LEMMA StepMerges ==
  ASSUME IInv, StepInstruction
  PROVE  /\ KnownOK(states'[order[at]])
         /\ \A t \in DOMAIN Known :
              /\ t \in DOMAIN states'[order[at]]
              /\ states'[order[at]][t].depth = Known[t].depth
              /\ states'[order[at]][t].init \subseteq Known[t].init
PROOF
<1> DEFINE new     == After(Instr, State)
           succs   == Successors(Instr, Here)
           reached == {q \in {succs[k] : k \in DOMAIN succs} : Propagates(new, q)}
           later   == states'[order[at]]
<1>1. worklist # << >>
  BY DEF StepInstruction, Dequeue
<1>2. KnownOK(Known)
  BY <1>1, HeadTypes
<1>3. /\ new \in AbstractState
      /\ DOMAIN later = DOMAIN Known \cup reached
      /\ \A q \in DOMAIN later \ reached : later[q] = Known[q]
      /\ \A q \in reached :
           later[q] = IF q \in DOMAIN Known THEN Merge(Known[q], new) ELSE new
      /\ \A q \in reached \cap DOMAIN Known : Known[q].depth = new.depth
      /\ reached \subseteq 0 .. Len(Code) - 1
  BY StepStates
<1> HIDE DEF new, reached, later
<1>4. \A a \in AbstractState :
        /\ Merge(a, new) \in AbstractState
        /\ Merge(a, new).depth = a.depth /\ Merge(a, new).init \subseteq a.init
  BY <1>3 DEF Merge, AbstractState
<1>5. KnownOK(later)
  <2> SUFFICES ASSUME NEW q \in DOMAIN later
               PROVE  q \in 0 .. Len(Code) - 1 /\ later[q] \in AbstractState
    BY DEF KnownOK
  <2>1. CASE q \in reached /\ q \in DOMAIN Known
    BY <1>2, <1>3, <1>4, <2>1 DEF KnownOK
  <2>2. CASE q \in reached /\ q \notin DOMAIN Known
    BY <1>3, <2>2
  <2>3. CASE q \notin reached
    BY <1>2, <1>3, <2>3 DEF KnownOK
  <2>4. QED
    BY <2>1, <2>2, <2>3
<1>6. ASSUME NEW t \in DOMAIN Known
      PROVE  /\ t \in DOMAIN later
             /\ later[t].depth = Known[t].depth
             /\ later[t].init \subseteq Known[t].init
  <2>1. t \in DOMAIN later
    BY <1>3
  <2>2. CASE t \in reached
    BY <1>2, <1>3, <1>4, <2>1, <2>2 DEF KnownOK
  <2>3. CASE t \notin reached
    BY <1>3, <2>1, <2>3
  <2>4. QED
    BY <2>1, <2>2, <2>3
<1>7. QED
  BY <1>5, <1>6 DEF later

\* If the step reports no error and does not enqueue its own pc again, that pc
\* is sound behind the step.
LEMMA StepSound ==
  ASSUME IInv, StepInstruction, errors' = {},
         ~ \E k \in 1 .. Len(worklist') : worklist'[k] = Here
  PROVE  Sound(at, Here, states'[order[at]])
PROOF
<1> DEFINE new     == After(Instr, State)
           succs   == Successors(Instr, Here)
           reached == {q \in {succs[k] : k \in DOMAIN succs} : Propagates(new, q)}
           later   == states'[order[at]]
<1>1. worklist # << >> /\ Accepted
  BY DEF StepInstruction, Dequeue
<1>2. Here \in DOMAIN Known /\ KnownOK(Known)
  BY <1>1, HeadTypes
<1>3. Here \notin reached
  BY StepWorklist
<1>4. /\ new \in AbstractState
      /\ DOMAIN later = DOMAIN Known \cup reached
      /\ \A q \in DOMAIN later \ reached : later[q] = Known[q]
      /\ \A q \in reached :
           later[q] = IF q \in DOMAIN Known THEN Merge(Known[q], new) ELSE new
      /\ \A q \in reached \cap DOMAIN Known : Known[q].depth = new.depth
      /\ succs \in Seq(Nat)
  BY StepStates
<1>5. later[Here] = State
  BY <1>2, <1>3, <1>4 DEF State
<1>6. SuccessorErrors(new, succs) = {} /\ ~(new.depth > MAX_OPERAND_STACK)
  BY DEF StepInstruction
<1>7. new.depth <= MAX_OPERAND_STACK
  BY <1>4, <1>6, LimitsAssumption DEF AbstractState
<1>8. \A j \in DOMAIN succs :
        /\ pc_in_range(at, succs[j])
        /\ succs[j] \in DOMAIN Known => Known[succs[j]].depth = new.depth
  BY <1>6 DEF SuccessorErrors
<1>9. ASSUME NEW j \in DOMAIN succs
      PROVE  /\ succs[j] \in DOMAIN later
             /\ later[succs[j]].depth = new.depth
             /\ later[succs[j]].init \subseteq new.init
  <2> DEFINE t == succs[j]
  <2>1. pc_in_range(at, t) /\ (t \in DOMAIN Known => Known[t].depth = new.depth)
    BY <1>8
  <2>2. t \in reached <=> Propagates(new, t)
    OBVIOUS
  <2> HIDE DEF new, reached, later, t
  <2>3. CASE t \notin DOMAIN Known
    <3>1. t \in reached
      BY <2>1, <2>2, <2>3 DEF Propagates
    <3>2. QED
      BY <1>4, <2>3, <3>1 DEF t
  <2>4. CASE t \in DOMAIN Known /\ t \in reached
    BY <1>4, <2>1, <2>4 DEF t, Merge
  <2>5. CASE t \in DOMAIN Known /\ t \notin reached
    <3>1. Merge(Known[t], new) = Known[t]
      BY <2>1, <2>2, <2>5 DEF Propagates
    <3>2. Known[t].init = Known[t].init \cap new.init
      BY <3>1 DEF Merge
    <3>3. later[t] = Known[t] /\ t \in DOMAIN later
      BY <1>4, <2>5
    <3>4. QED
      BY <2>1, <2>5, <3>2, <3>3 DEF t
  <2>6. QED
    BY <2>3, <2>4, <2>5
<1>10. QED
  BY <1>1, <1>5, <1>7, <1>8, <1>9 DEF Sound, Accepted, Instr

\* Soundness of the new states does not depend on what else the step changed.
LEMMA SoundThen ==
  ASSUME prog' = prog, order' = order, NEW i, NEW q,
         Sound(i, q, states'[order[i]])
  PROVE  Sound(i, q, states[order[i]])'
PROOF
  BY ChecksStay DEF Sound, pc_in_range

(***************************************************************************)
(* Every action keeps the invariant.                                       *)
(***************************************************************************)

\* OrderOK and KnownOK speak of the program and the order of its functions.
LEMMA OrderStays ==
  ASSUME OrderOK, prog' = prog, order' = order, at' = at, phase' # "new"
  PROVE  OrderOK'
PROOF
  BY ChecksStay DEF OrderOK, Start, Info, Code

\* The worklist loses its head (LeaveRange, RejectInstruction).
LEMMA ErrorKeeps ==
  ASSUME IInv, LeaveRange \/ RejectInstruction
  PROVE  IInv'
PROOF
<1>1. /\ worklist # << >> /\ phase = "functions"
      /\ UNCHANGED <<prog, phase, order, at, states>>
      /\ worklist' = Tail(worklist) /\ errors' # {}
  BY DEF LeaveRange, RejectInstruction, Dequeue
<1>2. prog' \in Programs
  BY <1>1 DEF IInv
<1>3. OrderOK'
  BY <1>1, OrderStays DEF IInv
<1>4. StatesOK'
  BY <1>1 DEF IInv, StatesOK, KnownOK, Code
<1>5. WorklistOK'
  <2>1. /\ at \in 1 .. Len(order)
        /\ Tail(worklist) \in Seq(Nat) /\ Len(Tail(worklist)) = Len(worklist) - 1
        /\ \A k \in 1 .. Len(worklist) - 1 : Tail(worklist)[k] = worklist[k + 1]
        /\ Len(worklist) \in Nat \ {0}
    BY <1>1, HeadTypes
  <2>2. \A k \in 1 .. Len(worklist) - 1 : Tail(worklist)[k] \in DOMAIN states[order[at]]
    BY <2>1 DEF IInv, WorklistOK
  <2>3. QED
    BY <1>1, <2>1, <2>2 DEF WorklistOK
<1>6. Fixpoint'
  BY <1>1 DEF Fixpoint
<1>7. QED
  BY <1>2, <1>3, <1>4, <1>5, <1>6 DEF IInv

\* verify_function's turn for an accepted instruction.
LEMMA StepKeeps ==
  ASSUME IInv, StepInstruction
  PROVE  IInv'
PROOF
<1> DEFINE new     == After(Instr, State)
           succs   == Successors(Instr, Here)
           reached == {q \in {succs[k] : k \in DOMAIN succs} : Propagates(new, q)}
           later   == states'[order[at]]
<1>1. /\ worklist # << >> /\ phase = "functions"
      /\ UNCHANGED <<prog, phase, order, at>>
      /\ errors \subseteq errors'
  BY DEF StepInstruction, Dequeue
<1>2. /\ at \in 1 .. Len(order) /\ order[at] \in DOMAIN prog.functions
      /\ Here = worklist[1]
      /\ worklist \in Seq(Nat) /\ Len(worklist) \in Nat \ {0}
  BY <1>1, HeadTypes DEF IInv, WorklistOK
<1>3. /\ states' = [f \in DOMAIN prog.functions |-> states'[f]]
      /\ \A f \in DOMAIN prog.functions \ {order[at]} : states'[f] = states[f]
      /\ DOMAIN later = DOMAIN Known \cup reached
      /\ \A q \in DOMAIN later \ reached : later[q] = Known[q]
  BY StepStates
<1>4. /\ worklist' \in Seq(Nat)
      /\ \A q \in reached : \E k \in 1 .. Len(worklist') : worklist'[k] = q
      /\ \A j \in 2 .. Len(worklist) :
           \E k \in 1 .. Len(worklist') : worklist'[k] = worklist[j]
      /\ \A k \in 1 .. Len(worklist') :
           \/ worklist'[k] \in reached
           \/ \E j \in 1 .. Len(worklist) : worklist'[k] = worklist[j]
  BY StepWorklist
<1> HIDE DEF reached
<1>5. prog' \in Programs
  BY <1>1 DEF IInv
<1>6. OrderOK'
  BY <1>1, OrderStays DEF IInv
<1>7. StatesOK'
  <2>1. \A f \in DOMAIN prog.functions : KnownOK(states'[f])
    BY <1>3, StepMerges DEF IInv, StatesOK
  <2>2. QED
    BY <1>1, <1>3, <2>1 DEF StatesOK, KnownOK, Code
<1>8. WorklistOK'
  <2>1. ASSUME NEW k \in 1 .. Len(worklist') PROVE worklist'[k] \in DOMAIN later
    <3>1. CASE worklist'[k] \in reached
      BY <1>3, <3>1
    <3>2. CASE \E j \in 1 .. Len(worklist) : worklist'[k] = worklist[j]
      BY <1>3, <3>2 DEF IInv, WorklistOK, Known
    <3>3. QED
      BY <1>4, <3>1, <3>2
  <2>2. QED
    BY <1>1, <1>2, <1>4, <2>1 DEF WorklistOK
<1>9. Fixpoint'
  <2> SUFFICES ASSUME errors' = {}, NEW i \in 1 .. at
               PROVE  /\ EntryCovered(i, states[order[i]])'
                      /\ \A q \in DOMAIN states'[order[i]] :
                           (i = at /\ Waiting(q)') \/ Sound(i, q, states[order[i]])'
    BY <1>1 DEF Fixpoint
  <2>1. /\ EntryCovered(i, states[order[i]])
        /\ \A q \in DOMAIN states[order[i]] :
             (i = at /\ Waiting(q)) \/ Sound(i, q, states[order[i]])
    BY <1>1 DEF IInv, Fixpoint
  <2>2. CASE i # at
    <3>1. states'[order[i]] = states[order[i]]
      <4>1. i \in 1 .. Len(order) /\ i < at
        BY <1>2, <2>2
      <4>2. order[i] # order[at] /\ order[i] \in DOMAIN prog.functions
        BY <1>2, <4>1 DEF IInv, OrderOK
      <4>3. QED
        BY <1>3, <4>2
    <3>2. EntryCovered(i, states[order[i]])'
      BY <1>1, <2>1, <3>1, EntryStays
    <3>3. ASSUME NEW q \in DOMAIN states'[order[i]]
          PROVE  Sound(i, q, states[order[i]])'
      <4>1. Sound(i, q, states[order[i]])
        BY <2>1, <2>2, <3>1
      <4>2. QED
        BY <1>1, <3>1, <4>1, SoundStays
    <3>4. QED
      BY <3>2, <3>3
  <2>3. CASE i = at
    <3>1. \A t \in DOMAIN states[order[i]] :
            /\ t \in DOMAIN states'[order[i]]
            /\ states'[order[i]][t].depth = states[order[i]][t].depth
            /\ states'[order[i]][t].init \subseteq states[order[i]][t].init
      BY <2>3, StepMerges DEF Known
    <3>2. EntryCovered(i, states[order[i]])'
      BY <1>1, <2>1, <3>1, EntryStays
    <3>3. ASSUME NEW q \in DOMAIN states'[order[i]], ~Waiting(q)'
          PROVE  Sound(i, q, states[order[i]])'
      <4>1. ~ \E k \in 1 .. Len(worklist') : worklist'[k] = q
        BY <1>4, <3>3 DEF Waiting
      <4>2. q \notin reached /\ q \in DOMAIN Known /\ later[q] = Known[q]
        BY <1>3, <1>4, <2>3, <4>1
      <4>3. CASE q = Here
        <5>1. Sound(at, Here, states'[order[at]])
          BY <4>1, <4>3, StepSound
        <5>2. QED
          BY <1>1, <2>3, <4>3, <5>1, SoundThen
      <4>4. CASE q # Here
        <5>1. ~Waiting(q)
          <6>1. SUFFICES ASSUME NEW j \in 1 .. Len(worklist), worklist[j] = q PROVE FALSE
            BY <1>2 DEF Waiting
          <6>2. j \in 2 .. Len(worklist)
            BY <1>2, <4>4, <6>1
          <6>3. QED
            BY <1>4, <4>1, <6>1, <6>2
        <5>2. Sound(i, q, states[order[i]])
          BY <2>1, <2>3, <4>2, <5>1 DEF Known
        <5>3. states'[order[i]][q] = states[order[i]][q]
          BY <2>3, <4>2 DEF Known
        <5>4. QED
          BY <1>1, <3>1, <5>2, <5>3, SoundStays
      <4>5. QED
        BY <4>3, <4>4
    <3>4. QED
      BY <2>3, <3>2, <3>3
  <2>4. QED
    BY <2>2, <2>3
<1>10. QED
  BY <1>5, <1>6, <1>7, <1>8, <1>9 DEF IInv

\* A new Verifier: no function has been entered, nothing is known.
LEMMA NewHolds ==
  ASSUME Init
  PROVE  IInv
PROOF
<1>1. /\ prog \in Programs /\ phase = "new" /\ order = << >> /\ at = 0
      /\ worklist = << >> /\ states = [f \in DOMAIN prog.functions |-> << >>]
  BY DEF Init, New
<1>2. Len(order) = 0 /\ order \in Seq(DOMAIN prog.functions)
  BY <1>1
<1>3. OrderOK
  BY <1>1, <1>2 DEF OrderOK
<1>4. StatesOK
  <2>1. DOMAIN << >> = {}
    OBVIOUS
  <2>2. QED
    BY <1>1, <2>1 DEF StatesOK, KnownOK
<1>5. WorklistOK
  <2>1. worklist \in Seq(Nat) /\ Len(worklist) = 0
    BY <1>1
  <2>2. QED
    BY <1>1, <2>1 DEF WorklistOK
<1>6. Fixpoint
  BY <1>1 DEF Fixpoint
<1>7. QED
  BY <1>1, <1>3, <1>4, <1>5, <1>6 DEF IInv

\* The sorted list of ranges names every function with code once
\* (function_ranges).
LEMMA OrdersListFunctions ==
  ASSUME prog \in Programs, NEW o \in Orders
  PROVE  /\ o \in Seq(DOMAIN prog.functions)
         /\ \A i, j \in 1 .. Len(o) : i < j => o[i] # o[j]
         /\ \A i \in 1 .. Len(o) : Info(o[i]).entry_pc < Len(Code)
PROOF
<1> DEFINE coded == {f \in DOMAIN prog.functions : Info(f).entry_pc < Len(Code)}
           n     == Cardinality(coded)
<1>1. IsFiniteSet(coded)
  BY FunctionsAssumption, FS_Subset
<1>2. n \in Nat
  BY <1>1, FS_CardinalityType
<1>3. /\ o \in [1 .. n -> coded]
      /\ \A i, j \in DOMAIN o : i < j => o[i] # o[j]
  BY DEF Orders
<1> HIDE DEF n
<1>4. o \in [1 .. n -> DOMAIN prog.functions] /\ DOMAIN o = 1 .. n
  BY <1>3
<1>5. o \in Seq(DOMAIN prog.functions) /\ Len(o) = n
  BY <1>2, <1>4
<1>6. QED
  BY <1>3, <1>4, <1>5

\* The loop over the ranges starts before the first one.
LEMMA MetadataKeeps ==
  ASSUME IInv, CheckMetadata
  PROVE  IInv'
PROOF
<1>1. /\ phase = "new" /\ phase' = "functions" /\ order' \in Orders
      /\ UNCHANGED <<prog, at, states, worklist>>
  BY DEF CheckMetadata
<1>2. prog' \in Programs /\ at = 0 /\ worklist = << >>
  BY <1>1 DEF IInv, OrderOK
<1>3. OrderOK'
  <2>1. /\ order' \in Seq(DOMAIN prog.functions)
        /\ \A i, j \in 1 .. Len(order') : i < j => order'[i] # order'[j]
        /\ \A i \in 1 .. Len(order') : Info(order'[i]).entry_pc < Len(Code)
    BY <1>1, OrdersListFunctions DEF IInv
  <2>2. at' \in 0 .. Len(order')
    BY <1>1, <1>2, <2>1
  <2>3. QED
    BY <1>1, <2>1, <2>2 DEF OrderOK, Start, Info, Code
<1>4. StatesOK'
  BY <1>1 DEF IInv, StatesOK, KnownOK, Code
<1>5. WorklistOK'
  <2>1. worklist' = << >> /\ Len(<< >>) = 0 /\ << >> \in Seq(Nat)
    BY <1>1, <1>2
  <2>2. QED
    BY <2>1 DEF WorklistOK
<1>6. Fixpoint'
  BY <1>1, <1>2 DEF Fixpoint
<1>7. QED
  BY <1>2, <1>3, <1>4, <1>5, <1>6 DEF IInv

\* verify_function starts with its entry pc alone; the functions before it
\* have left an empty worklist, so all of their pcs are sound.
LEMMA EnterKeeps ==
  ASSUME IInv, EnterFunction
  PROVE  IInv'
PROOF
<1> DEFINE f     == order[at + 1]
           entry == [depth |-> 0,
                     init  |-> {s \in 0 .. Info(f).local_count - 1 :
                                  s < Info(f).param_count}]
           known == [q \in {Info(f).entry_pc} |-> entry]
<1>1. /\ phase = "functions" /\ worklist = << >> /\ at < Len(order)
      /\ UNCHANGED <<prog, phase, order, errors>> /\ at' = at + 1
      /\ worklist' = <<Start(at + 1)>>
      /\ states' = [states EXCEPT ![f] = known]
  BY DEF EnterFunction
<1>2. /\ order \in Seq(DOMAIN prog.functions) /\ at \in Nat
      /\ at + 1 \in 1 .. Len(order) /\ Len(order) \in Nat
  BY <1>1 DEF IInv, OrderOK
<1>3. f \in DOMAIN prog.functions
  BY <1>2
<1>4. Info(f) \in FunctionInfo /\ Len(Code) \in Nat
  BY <1>3, ProgramTypes DEF IInv
<1>5. Start(at + 1) = Info(f).entry_pc /\ Start(at + 1) \in 0 .. Len(Code) - 1
  BY <1>2, <1>4 DEF IInv, OrderOK, Start, FunctionInfo
<1>6. entry \in AbstractState
  BY <1>4 DEF AbstractState, FunctionInfo
<1>7. \A s \in entry.init : s < Info(f).param_count
  OBVIOUS
<1>8. entry.depth = 0
  OBVIOUS
<1> HIDE DEF entry
<1>9. KnownOK(known)
  BY <1>5, <1>6 DEF KnownOK
<1>10. /\ DOMAIN known = {Start(at + 1)} /\ known[Start(at + 1)] = entry
  BY <1>5
<1>11. states = [g \in DOMAIN prog.functions |-> states[g]]
  BY DEF IInv, StatesOK
<1> HIDE DEF known
<1>12. /\ states' = [g \in DOMAIN prog.functions |-> states'[g]]
       /\ \A g \in DOMAIN prog.functions \ {f} : states'[g] = states[g]
       /\ states'[f] = known
  BY <1>1, <1>3, <1>11
<1>13. prog' \in Programs
  BY <1>1 DEF IInv
<1>14. OrderOK'
  BY <1>1, <1>2 DEF IInv, OrderOK, Start, Info, Code
<1>15. StatesOK'
  <2>1. \A g \in DOMAIN prog.functions : KnownOK(states'[g])
    BY <1>9, <1>12 DEF IInv, StatesOK
  <2>2. QED
    BY <1>1, <1>12, <2>1 DEF StatesOK, KnownOK, Code
<1>16. /\ worklist' \in Seq(Nat) /\ Len(worklist') = 1
       /\ worklist'[1] = Start(at + 1)
  BY <1>1, <1>4, <1>5
<1>17. WorklistOK'
  <2>1. states'[order'[at']] = known
    BY <1>1, <1>12
  <2>2. QED
    BY <1>1, <1>2, <1>10, <1>16, <2>1 DEF WorklistOK
<1>18. Fixpoint'
  <2> SUFFICES ASSUME errors = {}, NEW i \in 1 .. at + 1
               PROVE  /\ EntryCovered(i, states[order[i]])'
                      /\ \A q \in DOMAIN states'[order[i]] :
                           (i = at + 1 /\ Waiting(q)') \/ Sound(i, q, states[order[i]])'
    BY <1>1 DEF Fixpoint
  <2>1. CASE i = at + 1
    <3>1. states'[order[i]] = known /\ DOMAIN known = {Start(i)}
          /\ known[Start(i)] = entry
      BY <1>10, <1>12, <2>1
    <3>2. EntryCovered(i, states[order[i]])'
      BY <1>1, <1>7, <1>8, <2>1, <3>1, ChecksStay DEF EntryCovered
    <3>3. ASSUME NEW q \in DOMAIN states'[order[i]] PROVE Waiting(q)'
      <4>1. q = worklist'[1] /\ 1 \in DOMAIN worklist'
        BY <1>16, <2>1, <3>1
      <4>2. QED
        BY <4>1 DEF Waiting
    <3>4. QED
      BY <2>1, <3>2, <3>3
  <2>2. CASE i # at + 1
    <3>1. i \in 1 .. at /\ i \in 1 .. Len(order) /\ i < at + 1
      BY <1>2, <2>2
    <3>2. order[i] # f /\ order[i] \in DOMAIN prog.functions
      BY <1>2, <3>1 DEF IInv, OrderOK
    <3>3. states'[order[i]] = states[order[i]]
      BY <1>12, <3>2
    <3>4. /\ EntryCovered(i, states[order[i]])
          /\ \A q \in DOMAIN states[order[i]] :
               Waiting(q) \/ Sound(i, q, states[order[i]])
      BY <3>1 DEF IInv, Fixpoint
    <3>5. \A q : ~Waiting(q)
      BY <1>1 DEF Waiting
    <3>6. EntryCovered(i, states[order[i]])'
      BY <1>1, <3>3, <3>4, EntryStays
    <3>7. ASSUME NEW q \in DOMAIN states'[order[i]]
          PROVE  Sound(i, q, states[order[i]])'
      <4>1. Sound(i, q, states[order[i]])
        BY <3>3, <3>4, <3>5
      <4>2. QED
        BY <1>1, <3>3, <4>1, SoundStays
    <3>8. QED
      BY <3>6, <3>7
  <2>3. QED
    BY <2>1, <2>2
<1>19. QED
  BY <1>13, <1>14, <1>15, <1>17, <1>18 DEF IInv

\* The report is computed from what the loop left and does not touch it.
LEMMA ReportKeeps ==
  ASSUME IInv,
         phase' = "done" \/ phase' = phase,
         UNCHANGED <<prog, order, at, states, worklist, errors>>
  PROVE  IInv'
PROOF
<1>1. prog' \in Programs
  BY DEF IInv
<1>2. OrderOK'
  BY DEF IInv, OrderOK, Start, Info, Code
<1>3. StatesOK'
  BY DEF IInv, StatesOK, KnownOK, Code
<1>4. WorklistOK'
  BY DEF IInv, WorklistOK
<1>5. Fixpoint'
  <2> SUFFICES ASSUME errors = {}, NEW i \in 1 .. at
               PROVE  /\ EntryCovered(i, states[order[i]])'
                      /\ \A q \in DOMAIN states[order[i]] :
                           (i = at /\ Waiting(q)') \/ Sound(i, q, states[order[i]])'
    BY DEF Fixpoint
  <2>1. /\ EntryCovered(i, states[order[i]])
        /\ \A q \in DOMAIN states[order[i]] :
             (i = at /\ Waiting(q)) \/ Sound(i, q, states[order[i]])
    BY DEF IInv, Fixpoint
  <2>2. EntryCovered(i, states[order[i]])'
    BY <2>1, EntryStays
  <2>3. \A q : Waiting(q) => Waiting(q)'
    BY DEF Waiting
  <2>4. \A q \in DOMAIN states[order[i]] :
          Sound(i, q, states[order[i]]) => Sound(i, q, states[order[i]])'
    BY SoundStays
  <2>5. QED
    BY <2>1, <2>2, <2>3, <2>4
<1>6. QED
  BY <1>1, <1>2, <1>3, <1>4, <1>5 DEF IInv

\* The verifier explores every program to a fixpoint: whatever the program and
\* the limits, and at every turn of its loops, a Verifier that has reported no
\* error has covered the entry of every function it has entered, and every pc
\* it has covered passes its checks and agrees with its successors, unless it
\* still waits in the worklist (verify, verify_function, step_instruction).
THEOREM FixpointReached == Spec => []Fixpoint
PROOF
<1>1. Init => IInv
  BY NewHolds
<1>2. IInv /\ [Next]_vars => IInv'
  <2> SUFFICES ASSUME IInv, [Next]_vars PROVE IInv'
    OBVIOUS
  <2>1. CASE CheckMetadata
    BY <2>1, MetadataKeeps
  <2>2. CASE EnterFunction
    BY <2>2, EnterKeeps
  <2>3. CASE LeaveRange \/ RejectInstruction
    BY <2>3, ErrorKeeps
  <2>4. CASE StepInstruction
    BY <2>4, StepKeeps
  <2>5. CASE Report
    BY <2>5, ReportKeeps DEF Report
  <2>6. CASE Done \/ UNCHANGED vars
    BY <2>6, ReportKeeps DEF Done, vars
  <2>7. QED
    BY <2>1, <2>2, <2>3, <2>4, <2>5, <2>6 DEF Next, Verify
<1>3. IInv => Fixpoint
  BY DEF IInv
<1>4. QED
  BY <1>1, <1>2, <1>3, PTL DEF Spec

(***************************************************************************)
(* What a finished verification is worth.  ReportOK adds what the loop     *)
(* over the functions leaves behind: every function with code has been in  *)
(* `order`, an error of the metadata is still in `errors`, the loops have  *)
(* ended, and max_stack_depth bounds every depth.                          *)
(***************************************************************************)
DepthsReported ==
  /\ max_stack_depth \in Nat
  /\ \A f \in DOMAIN prog.functions : \A q \in DOMAIN states[f] :
       states[f][q].depth <= max_stack_depth

ReportOK ==
  /\ phase # "new" =>
       /\ ProgramErrors \cup FunctionErrors \subseteq errors
       /\ \A f \in DOMAIN prog.functions :
            Info(f).entry_pc < Len(Code) => \E i \in 1 .. Len(order) : order[i] = f
  /\ phase = "done" => worklist = << >> /\ at = Len(order)
  /\ DepthsReported

\* The sorted list of ranges misses no function with code (function_ranges).
LEMMA OrdersComplete ==
  ASSUME prog \in Programs, NEW o \in Orders,
         NEW f \in DOMAIN prog.functions, Info(f).entry_pc < Len(Code)
  PROVE  \E i \in 1 .. Len(o) : o[i] = f
PROOF
<1> DEFINE coded == {g \in DOMAIN prog.functions : Info(g).entry_pc < Len(Code)}
           n     == Cardinality(coded)
<1>1. IsFiniteSet(coded)
  BY FunctionsAssumption, FS_Subset
<1>2. n \in Nat
  BY <1>1, FS_CardinalityType
<1>3. /\ o \in [1 .. n -> coded]
      /\ \A i, j \in DOMAIN o : i < j => o[i] # o[j]
  BY DEF Orders
<1>4. f \in coded
  OBVIOUS
<1> HIDE DEF n, coded
<1>5. o \in Injection(1 .. n, coded)
  <2>1. ASSUME NEW i \in 1 .. n, NEW j \in 1 .. n, o[i] = o[j] PROVE i = j
    <3>1. i \in Int /\ j \in Int /\ DOMAIN o = 1 .. n
      BY <1>3
    <3> QED
      BY <1>3, <2>1, <3>1
  <2> QED
    BY <1>3, <2>1, Fun_IsInj
<1>6. Cardinality(1 .. n) = n
  BY <1>2, FS_Interval
<1>7. o \in Surjection(1 .. n, coded)
  BY <1>1, <1>5, <1>6, FS_Injection DEF n
<1>8. \E i \in 1 .. n : o[i] = f
  BY <1>4, <1>7 DEF Surjection
<1>9. Len(o) = n
  BY <1>2, <1>3
<1> QED
  BY <1>8, <1>9

\* The larger of the depths.
LEMMA LargestDepth ==
  ASSUME NEW a \in Nat, NEW b \in Nat, NEW c \in Nat
  PROVE  LET m == Largest({a, b, c}) IN m \in Nat /\ a <= m /\ b <= m /\ c <= m
PROOF
<1>1. \E x \in {a, b, c} : \A y \in {a, b, c} : y <= x
  <2>1. CASE a >= b /\ a >= c
    BY <2>1
  <2>2. CASE b >= a /\ b >= c
    BY <2>2
  <2>3. CASE c >= a /\ c >= b
    BY <2>3
  <2> QED
    BY <2>1, <2>2, <2>3
<1> DEFINE m == Largest({a, b, c})
<1>2. m \in {a, b, c} /\ \A y \in {a, b, c} : y <= m
  BY <1>1 DEF Largest
<1> QED
  BY <1>2

\* A step that leaves the report's basis alone.
LEMMA ReportBasisStays ==
  ASSUME ReportOK, phase # "new", phase' # "new", errors \subseteq errors',
         UNCHANGED <<prog, order>>,
         phase' = "done" => worklist' = << >> /\ at' = Len(order),
         DepthsReported'
  PROVE  ReportOK'
PROOF
<1>1. Code' = Code /\ \A f : Info(f)' = Info(f)
  BY DEF Code, Info
<1>2. ProgramErrors' = ProgramErrors
  BY DEF ProgramErrors, BadGlobals, GlobalsOverlap, SlotsOf, Code, Width
<1>3. FunctionErrors' = FunctionErrors
  BY DEF FunctionErrors, BadFunction, Code, Info
<1> QED
  BY <1>1, <1>2, <1>3 DEF ReportOK

\* A new Verifier has nothing to report.
LEMMA NewReported ==
  ASSUME Init
  PROVE  ReportOK
PROOF
<1>1. /\ phase = "new" /\ max_stack_depth = 0
      /\ states = [f \in DOMAIN prog.functions |-> << >>]
  BY DEF Init, New
<1>2. DOMAIN << >> = {}
  OBVIOUS
<1>3. DepthsReported
  BY <1>1, <1>2 DEF DepthsReported
<1> QED
  BY <1>1, <1>3 DEF ReportOK

\* The errors of the metadata are the first ones, and every function with code
\* gets its turn (verify, function_ranges).
LEMMA MetadataReported ==
  ASSUME IInv, ReportOK, CheckMetadata
  PROVE  ReportOK'
PROOF
<1>1. /\ phase' = "functions" /\ order' \in Orders
      /\ errors' = ProgramErrors \cup FunctionErrors
      /\ UNCHANGED <<prog, states, max_stack_depth>>
  BY DEF CheckMetadata
<1>2. Code' = Code /\ \A f : Info(f)' = Info(f)
  BY <1>1 DEF Code, Info
<1>3. ProgramErrors' = ProgramErrors
  BY <1>1 DEF ProgramErrors, BadGlobals, GlobalsOverlap, SlotsOf, Code, Width
<1>4. FunctionErrors' = FunctionErrors
  BY <1>1 DEF FunctionErrors, BadFunction, Code, Info
<1>5. \A f \in DOMAIN prog.functions :
        Info(f).entry_pc < Len(Code) => \E i \in 1 .. Len(order') : order'[i] = f
  BY <1>1, OrdersComplete DEF IInv
<1>6. DepthsReported'
  BY <1>1 DEF ReportOK, DepthsReported
<1> QED
  BY <1>1, <1>2, <1>3, <1>4, <1>5, <1>6 DEF ReportOK

\* A function is entered with an empty stack.
LEMMA EnterReported ==
  ASSUME IInv, ReportOK, EnterFunction
  PROVE  ReportOK'
PROOF
<1> DEFINE f     == order[at + 1]
           entry == [depth |-> 0,
                     init  |-> {s \in 0 .. Info(f).local_count - 1 :
                                  s < Info(f).param_count}]
           known == [q \in {Info(f).entry_pc} |-> entry]
<1>1. /\ phase = "functions" /\ at < Len(order)
      /\ UNCHANGED <<prog, phase, order, errors, max_stack_depth>>
      /\ states' = [states EXCEPT ![f] = known]
  BY DEF EnterFunction
<1>2. /\ order \in Seq(DOMAIN prog.functions) /\ at \in Nat
      /\ at + 1 \in 1 .. Len(order) /\ Len(order) \in Nat
  BY <1>1 DEF IInv, OrderOK
<1>3. f \in DOMAIN prog.functions
  BY <1>2
<1>4. entry.depth = 0
  OBVIOUS
<1> HIDE DEF entry
<1>5. \A q \in DOMAIN known : known[q].depth = 0
  BY <1>4
<1> HIDE DEF known
<1>6. states = [g \in DOMAIN prog.functions |-> states[g]]
  BY DEF IInv, StatesOK
<1>7. /\ \A g \in DOMAIN prog.functions \ {f} : states'[g] = states[g]
      /\ states'[f] = known
  BY <1>1, <1>3, <1>6
<1>8. max_stack_depth \in Nat
  BY DEF ReportOK, DepthsReported
<1> HIDE DEF f
<1>9. DepthsReported'
  <2> SUFFICES ASSUME NEW g \in DOMAIN prog.functions, NEW q \in DOMAIN states'[g]
               PROVE  states'[g][q].depth <= max_stack_depth
    BY <1>1, <1>8 DEF DepthsReported
  <2>1. CASE g = f
    BY <1>5, <1>7, <1>8, <2>1
  <2>2. CASE g # f
    BY <1>7, <2>2 DEF ReportOK, DepthsReported
  <2> QED
    BY <2>1, <2>2
<1> QED
  BY <1>1, <1>9, ReportBasisStays

\* An instruction that is not accepted adds an error.
LEMMA ErrorReported ==
  ASSUME IInv, ReportOK, LeaveRange \/ RejectInstruction
  PROVE  ReportOK'
PROOF
<1>1. /\ worklist # << >> /\ phase = "functions"
      /\ UNCHANGED <<prog, phase, order, at, states>>
      /\ errors \subseteq errors'
      /\ \/ max_stack_depth' = max_stack_depth
         \/ max_stack_depth' = Largest({max_stack_depth, State.depth})
  BY DEF LeaveRange, RejectInstruction, Dequeue
<1>2. max_stack_depth \in Nat
  BY DEF ReportOK, DepthsReported
<1>3. State.depth \in Nat
  BY <1>1, HeadTypes DEF AbstractState
<1>4. {max_stack_depth, State.depth} = {max_stack_depth, State.depth, State.depth}
  OBVIOUS
<1>5. max_stack_depth' \in Nat /\ max_stack_depth <= max_stack_depth'
  BY <1>1, <1>2, <1>3, <1>4, LargestDepth
<1>6. \A f \in DOMAIN prog.functions : KnownOK(states[f])
  BY DEF IInv, StatesOK
<1>7. DepthsReported'
  <2> SUFFICES ASSUME NEW f \in DOMAIN prog.functions, NEW q \in DOMAIN states[f]
               PROVE  states[f][q].depth <= max_stack_depth'
    BY <1>1, <1>5 DEF DepthsReported
  <2>1. states[f][q].depth \in Nat
    BY <1>6 DEF KnownOK, AbstractState
  <2>2. states[f][q].depth <= max_stack_depth
    BY DEF ReportOK, DepthsReported
  <2> QED
    BY <1>2, <1>5, <2>1, <2>2
<1> QED
  BY <1>1, <1>7, ReportBasisStays

\* The depth behind an instruction is reported before it is propagated.
LEMMA StepReported ==
  ASSUME IInv, ReportOK, StepInstruction
  PROVE  ReportOK'
PROOF
<1> DEFINE new     == After(Instr, State)
           succs   == Successors(Instr, Here)
           reached == {q \in {succs[k] : k \in DOMAIN succs} : Propagates(new, q)}
           later   == states'[order[at]]
<1>1. /\ worklist # << >> /\ phase = "functions"
      /\ UNCHANGED <<prog, phase, order, at>>
      /\ errors \subseteq errors'
      /\ max_stack_depth' = Largest({max_stack_depth, State.depth, new.depth})
  BY DEF StepInstruction, Dequeue
<1>2. /\ new \in AbstractState
      /\ \A f \in DOMAIN prog.functions \ {order[at]} : states'[f] = states[f]
      /\ DOMAIN later = DOMAIN Known \cup reached
      /\ \A q \in DOMAIN later \ reached : later[q] = Known[q]
      /\ \A q \in reached :
           later[q] = IF q \in DOMAIN Known THEN Merge(Known[q], new) ELSE new
  BY StepStates
<1>3. /\ order[at] \in DOMAIN prog.functions /\ State.depth \in Nat
      /\ KnownOK(Known)
  BY <1>1, HeadTypes DEF AbstractState
<1> HIDE DEF reached, new, succs
<1>4. max_stack_depth \in Nat /\ new.depth \in Nat
  BY <1>2 DEF ReportOK, DepthsReported, AbstractState
<1>5. /\ max_stack_depth' \in Nat /\ max_stack_depth <= max_stack_depth'
      /\ new.depth <= max_stack_depth'
  BY <1>1, <1>3, <1>4, LargestDepth
<1>6. \A f \in DOMAIN prog.functions : KnownOK(states[f])
  BY DEF IInv, StatesOK
<1>7. ASSUME NEW f \in DOMAIN prog.functions, NEW q \in DOMAIN states[f]
      PROVE  states[f][q].depth <= max_stack_depth'
  <2>1. states[f][q].depth \in Nat
    BY <1>6 DEF KnownOK, AbstractState
  <2>2. states[f][q].depth <= max_stack_depth
    BY DEF ReportOK, DepthsReported
  <2> QED
    BY <1>4, <1>5, <2>1, <2>2
<1>8. DepthsReported'
  <2> SUFFICES ASSUME NEW f \in DOMAIN prog.functions, NEW q \in DOMAIN states'[f]
               PROVE  states'[f][q].depth <= max_stack_depth'
    BY <1>1, <1>5 DEF DepthsReported
  <2>1. CASE f # order[at]
    BY <1>2, <1>7, <2>1
  <2>2. CASE f = order[at] /\ q \in DOMAIN Known
    <3>1. states'[order[at]][q].depth = Known[q].depth
      BY <2>2, StepMerges
    <3> QED
      BY <1>7, <2>2, <3>1 DEF Known
  <2>3. CASE f = order[at] /\ q \notin DOMAIN Known
    <3>1. later[q] = new
      BY <1>2, <2>3
    <3> QED
      BY <1>5, <2>3, <3>1
  <2> QED
    BY <2>1, <2>2, <2>3
<1> QED
  BY <1>1, <1>8, ReportBasisStays

\* The report leaves the loops' results alone (verify).
LEMMA DoneReported ==
  ASSUME ReportOK, phase # "new", phase' # "new",
         phase' = "done" => worklist = << >> /\ at = Len(order),
         UNCHANGED <<prog, order, at, states, worklist, errors, max_stack_depth>>
  PROVE  ReportOK'
PROOF
<1>1. DepthsReported'
  BY DEF ReportOK, DepthsReported
<1> QED
  BY <1>1, ReportBasisStays

\* A valid report: the metadata passes its checks, every function is covered
\* from its entry, and all that is covered is sound and within
\* max_stack_depth.
LEMMA ValidFacts ==
  ASSUME IInv, ReportOK, valid
  PROVE  /\ ProgramErrors = {} /\ FunctionErrors = {}
         /\ \A f \in DOMAIN prog.functions : \E i \in 1 .. Len(order) :
              /\ order[i] = f
              /\ EntryCovered(i, states[f])
              /\ \A q \in DOMAIN states[f] : Sound(i, q, states[f])
         /\ DepthsReported
PROOF
<1>1. /\ phase = "done" /\ errors = {} /\ worklist = << >> /\ at = Len(order)
      /\ ProgramErrors = {} /\ FunctionErrors = {} /\ DepthsReported
  BY DEF valid, ReportOK
<1>2. ASSUME NEW f \in DOMAIN prog.functions
      PROVE  \E i \in 1 .. Len(order) :
              /\ order[i] = f
              /\ EntryCovered(i, states[f])
              /\ \A q \in DOMAIN states[f] : Sound(i, q, states[f])
  <2>1. ~BadFunction(f)
    BY <1>1 DEF FunctionErrors
  <2>2. Info(f).entry_pc \in Nat /\ Len(Code) \in Nat
    BY ProgramTypes DEF IInv, FunctionInfo
  <2>3. Info(f).entry_pc < Len(Code)
    BY <2>1, <2>2 DEF BadFunction
  <2>4. PICK i \in 1 .. Len(order) : order[i] = f
    BY <1>1, <2>3 DEF ReportOK
  <2>5. \A q : ~Waiting(q)
    BY <1>1 DEF Waiting
  <2> QED
    BY <1>1, <2>4, <2>5 DEF IInv, Fixpoint
<1> QED
  BY <1>1, <1>2

(***************************************************************************)
(* max_frame_depth.  The recursion of visit ends because every call adds a *)
(* function to those above it, and a program has finitely many: that is    *)
(* why a function with the equation of visit exists.  Arguments by         *)
(* induction look at a least counterexample.                               *)
(***************************************************************************)
EdgesOK == call_edges \subseteq (DOMAIN prog.functions) \X (DOMAIN prog.functions)

Chains == Nat \X SUBSET Nat

\* The right-hand side of the definition of visit.
Visited(v, c) ==
  IF c[1] \in c[2] THEN Unbounded
  ELSE Deepest({v[<<g, c[2] \cup {c[1]}>>] : g \in Callees(c[1])})

\* The functions that a chain can still call.
Left(visiting) == Cardinality(DOMAIN prog.functions \ visiting)

\* A set of numbers has a least one.
LEMMA Least ==
  ASSUME NEW T, T \subseteq Nat, T # {}
  PROVE  \E x \in T : \A y \in T : x <= y
PROOF
<1>1. IsWellFoundedOn(OpToRel(<, Nat), Nat)
  BY NatLessThanWellFounded
<1>2. PICK x \in T : \A y \in T : ~(<<y, x>> \in OpToRel(<, Nat))
  BY <1>1, WFMin
<1>3. \A y \in T : ~(y < x)
  BY <1>2 DEF OpToRel
<1> QED
  BY <1>3

\* A bounded set of numbers has a largest one.
LEMMA LargestIn ==
  ASSUME NEW n \in Nat, NEW S, S \subseteq 0 .. n, S # {}
  PROVE  Largest(S) \in S /\ \A y \in S : y <= Largest(S)
PROOF
<1> DEFINE T == {k \in Nat : n - k \in S}
<1>1. T \subseteq Nat /\ T # {}
  <2>1. PICK x \in S : x \in 0 .. n
    OBVIOUS
  <2>2. n - x \in Nat /\ n - (n - x) = x
    BY <2>1
  <2> QED
    BY <2>1, <2>2
<1>2. PICK t \in T : \A u \in T : t <= u
  <2> HIDE DEF T
  <2> QED
    BY <1>1, Least
<1>3. n - t \in S /\ t \in Nat
  OBVIOUS
<1>4. ASSUME NEW y \in S PROVE y <= n - t
  <2>1. y \in 0 .. n
    OBVIOUS
  <2>2. n - y \in Nat /\ n - (n - y) = y
    BY <2>1
  <2>3. t <= n - y
    BY <1>2, <2>2
  <2> QED
    BY <1>3, <2>1, <2>3
<1> QED
  BY <1>3, <1>4 DEF Largest

\* Only functions of the program are called, and only these call.
LEMMA CalleesAre ==
  ASSUME EdgesOK, NEW f
  PROVE  /\ \A g \in Callees(f) : g \in DOMAIN prog.functions /\ f \in DOMAIN prog.functions
         /\ \A g : <<f, g>> \in call_edges => g \in Callees(f)
  BY DEF EdgesOK, Callees

\* A call uses up one of the functions that are left.
LEMMA OneLess ==
  ASSUME prog \in Programs, NEW visiting
  PROVE  /\ Left(visiting) \in Nat
         /\ \A f \in DOMAIN prog.functions \ visiting :
              Left(visiting \cup {f}) + 1 = Left(visiting)
PROOF
<1> DEFINE R == DOMAIN prog.functions \ visiting
<1>1. IsFiniteSet(DOMAIN prog.functions)
  BY FunctionsAssumption
<1>2. IsFiniteSet(R) /\ Cardinality(R) \in Nat
  BY <1>1, FS_Difference, FS_CardinalityType
<1>3. ASSUME NEW f \in R PROVE Left(visiting \cup {f}) + 1 = Left(visiting)
  <2>1. DOMAIN prog.functions \ (visiting \cup {f}) = R \ {f}
    OBVIOUS
  <2>2. Cardinality(R \ {f}) = Cardinality(R) - 1
    <3> HIDE DEF R
    <3> QED
      BY <1>2, <1>3, FS_RemoveElement
  <2>3. Left(visiting \cup {f}) = Cardinality(R \ {f}) /\ Left(visiting) = Cardinality(R)
    BY <2>1 DEF Left
  <2> HIDE DEF R
  <2> QED
    BY <1>2, <2>2, <2>3
<1> QED
  BY <1>2, <1>3 DEF Left

\* What a chain's call leads to is a chain, and fewer functions are left; two
\* functions that agree there agree on the right-hand side.
LEMMA VisitedDepends ==
  ASSUME prog \in Programs, EdgesOK, NEW c \in Chains, NEW v, NEW w,
         \A d \in Chains : Left(d[2]) < Left(c[2]) => v[d] = w[d]
  PROVE  Visited(v, c) = Visited(w, c)
PROOF
<1>1. CASE c[1] \in c[2]
  BY <1>1 DEF Visited
<1>2. CASE c[1] \notin c[2]
  <2> DEFINE next(g) == <<g, c[2] \cup {c[1]}>>
  <2>1. ASSUME NEW g \in Callees(c[1]) PROVE v[next(g)] = w[next(g)]
    <3>1. g \in DOMAIN prog.functions /\ c[1] \in DOMAIN prog.functions
      BY CalleesAre
    <3>2. DOMAIN prog.functions \subseteq Nat
      BY ProgramTypes
    <3>3. next(g) \in Chains /\ next(g)[2] = c[2] \cup {c[1]}
      BY <3>1, <3>2 DEF Chains
    <3>4. Left(c[2] \cup {c[1]}) < Left(c[2])
      BY <1>2, <3>1, OneLess
    <3> QED
      BY <3>3, <3>4
  <2>2. {v[next(g)] : g \in Callees(c[1])} = {w[next(g)] : g \in Callees(c[1])}
    BY <2>1
  <2> QED
    BY <2>2 DEF Visited
<1> QED
  BY <1>1, <1>2

\* For every n there is a function with the equation of visit on the chains
\* that can call fewer than n functions.
LEMMA VisitApproximated ==
  ASSUME prog \in Programs, EdgesOK, NEW n \in Nat
  PROVE  \E w : /\ w = [c \in Chains |-> w[c]]
                /\ \A c \in Chains : Left(c[2]) < n => w[c] = Visited(w, c)
PROOF
<1> DEFINE Approximates(w, k) ==
             /\ w = [c \in Chains |-> w[c]]
             /\ \A c \in Chains : Left(c[2]) < k => w[c] = Visited(w, c)
           Bad == {k \in Nat : ~ \E w : Approximates(w, k)}
<1>1. SUFFICES ASSUME Bad # {} PROVE FALSE
  OBVIOUS
<1>2. PICK k \in Bad : \A j \in Bad : k <= j
  <2>1. Bad \subseteq Nat
    OBVIOUS
  <2> HIDE DEF Bad
  <2> QED
    BY <1>1, <2>1, Least
<1>3. CASE k = 0
  <2> DEFINE w == [c \in Chains |-> 0]
  <2>1. w = [c \in Chains |-> w[c]]
    OBVIOUS
  <2>2. \A c \in Chains : ~(Left(c[2]) < 0)
    BY OneLess
  <2>3. Approximates(w, k)
    BY <1>3, <2>1, <2>2
  <2> QED
    BY <2>3
<1>4. CASE k # 0
  <2>1. k - 1 \in Nat /\ k - 1 \notin Bad
    BY <1>2, <1>4
  <2>2. PICK w : Approximates(w, k - 1)
    BY <2>1
  <2> DEFINE v == [c \in Chains |-> Visited(w, c)]
  <2>3. \A c \in Chains : v[c] = Visited(w, c)
    OBVIOUS
  <2>4. v = [c \in Chains |-> v[c]]
    OBVIOUS
  <2> HIDE DEF v
  <2>5. ASSUME NEW c \in Chains, Left(c[2]) < k PROVE v[c] = Visited(v, c)
    <3>1. Left(c[2]) \in Nat
      BY OneLess
    <3>2. ASSUME NEW d \in Chains, Left(d[2]) < Left(c[2]) PROVE w[d] = v[d]
      <4>1. Left(d[2]) \in Nat
        BY OneLess
      <4>2. Left(d[2]) < k - 1
        BY <1>2, <2>5, <3>1, <3>2, <4>1
      <4> QED
        BY <2>2, <2>3, <4>2
    <3>3. Visited(w, c) = Visited(v, c)
      BY <3>2, VisitedDepends
    <3> QED
      BY <2>3, <3>3
  <2>6. Approximates(v, k)
    BY <2>4, <2>5
  <2> QED
    BY <2>6
<1> QED
  BY <1>3, <1>4

\* The definition of visit has a solution, so visit is one.
LEMMA VisitUnfolds ==
  ASSUME prog \in Programs, EdgesOK
  PROVE  \A c \in Chains : visit[c] = Visited(visit, c)
PROOF
<1>1. Left({}) + 1 \in Nat
  BY OneLess
<1>2. PICK w : /\ w = [c \in Chains |-> w[c]]
               /\ \A c \in Chains : Left(c[2]) < Left({}) + 1 => w[c] = Visited(w, c)
  BY <1>1, VisitApproximated
<1>3. ASSUME NEW c \in Chains PROVE w[c] = Visited(w, c)
  <2>1. IsFiniteSet(DOMAIN prog.functions)
    BY FunctionsAssumption
  <2>2. Left(c[2]) <= Left({})
    BY <2>1, FS_Subset DEF Left
  <2>3. Left(c[2]) \in Nat /\ Left({}) \in Nat
    BY OneLess
  <2> QED
    BY <1>2, <2>2, <2>3
<1>4. w = [c \in Chains |-> Visited(w, c)]
  <2>1. [c \in Chains |-> w[c]] = [c \in Chains |-> Visited(w, c)]
    BY <1>3, Zenon
  <2> QED
    BY <1>2, <2>1, Zenon
<1>5. visit = [c \in Chains |-> Visited(visit, c)]
  BY <1>4, ZenonT(30) DEF visit, Visited, Chains
<1> QED
  BY <1>5, Zenon

\* The depth of a chain counts its functions: unless it is unbounded it is at
\* least one and at most what is left.
LEMMA VisitBounded ==
  ASSUME prog \in Programs, EdgesOK, NEW c \in Chains
  PROVE  visit[c] \in 0 .. Left(c[2]) + 1
PROOF
<1> DEFINE Good(d) == visit[d] \in 0 .. Left(d[2]) + 1
           Bad     == {Left(d[2]) : d \in {e \in Chains : ~Good(e)}}
<1>1. SUFFICES ASSUME ~Good(c) PROVE FALSE
  OBVIOUS
<1>2. Bad \subseteq Nat /\ Bad # {}
  BY <1>1, OneLess
<1>3. PICK m \in Bad : \A k \in Bad : m <= k
  <2> HIDE DEF Bad
  <2> QED
    BY <1>2, Least
<1>4. PICK d \in Chains : m = Left(d[2]) /\ ~Good(d)
  OBVIOUS
<1>5. \A e \in Chains : Left(e[2]) < m => Good(e)
  BY <1>2, <1>3
<1>6. visit[d] = Visited(visit, d)
  BY VisitUnfolds
<1>7. m \in Nat
  BY <1>2
<1>8. d[1] \notin d[2]
  BY <1>4, <1>6, <1>7 DEF Visited, Unbounded
<1> DEFINE next(g) == <<g, d[2] \cup {d[1]}>>
           depths  == {visit[next(g)] : g \in Callees(d[1])}
<1>9. visit[d] = Deepest(depths)
  BY <1>6, <1>8 DEF Visited
<1>10. depths \subseteq 0 .. m
  <2> SUFFICES ASSUME NEW g \in Callees(d[1]) PROVE visit[next(g)] \in 0 .. m
    OBVIOUS
  <2>1. g \in DOMAIN prog.functions /\ d[1] \in DOMAIN prog.functions
    BY CalleesAre
  <2>2. DOMAIN prog.functions \subseteq Nat
    BY ProgramTypes
  <2>3. next(g) \in Chains /\ next(g)[2] = d[2] \cup {d[1]}
    BY <2>1, <2>2 DEF Chains
  <2>4. Left(next(g)[2]) + 1 = m /\ Left(next(g)[2]) \in Nat
    BY <1>4, <1>8, <2>1, <2>3, OneLess
  <2>5. PICK e \in Chains : e = next(g)
    BY <2>3
  <2>6. Left(e[2]) + 1 = m /\ Left(e[2]) \in Nat
    BY <2>4, <2>5
  <2>7. Left(e[2]) < m
    BY <1>7, <2>6
  <2>8. visit[e] \in 0 .. m
    BY <1>5, <2>6, <2>7
  <2> QED
    BY <2>5, <2>8
<1> HIDE DEF depths
<1>11. Largest(depths \cup {0}) \in 0 .. m
  <2>1. depths \cup {0} \subseteq 0 .. m /\ depths \cup {0} # {}
    BY <1>7, <1>10
  <2> QED
    BY <1>7, <2>1, LargestIn
<1>12. visit[d] \in 0 .. m + 1
  BY <1>7, <1>9, <1>11 DEF Deepest, Unbounded
<1> QED
  BY <1>4, <1>12

\* A chain of recorded calls from main is no longer than max_frame_depth, if
\* that is bounded.
LEMMA ChainWithin ==
  ASSUME prog \in Programs, EdgesOK, NEW s \in Seq(Nat), s # << >>,
         \A k \in 1 .. Len(s) : k + 1 \in 1 .. Len(s) => <<s[k], s[k + 1]>> \in call_edges,
         visit[<<s[1], {}>>] # Unbounded
  PROVE  Len(s) <= visit[<<s[1], {}>>]
PROOF
<1> DEFINE above(k) == {s[j] : j \in 1 .. k - 1}
           D       == [k \in 1 .. Len(s) |-> visit[<<s[k], above(k)>>]]
           Good(k) == D[k] # Unbounded /\ D[1] >= D[k] + (k - 1)
           Bad     == {k \in 1 .. Len(s) : ~Good(k)}
<1>1. Len(s) \in Nat \ {0} /\ \A k \in 1 .. Len(s) : s[k] \in Nat
  OBVIOUS
<1>2. ASSUME NEW k \in 1 .. Len(s) PROVE <<s[k], above(k)>> \in Chains
  <2>1. k \in Nat /\ s[k] \in Nat
    BY <1>1
  <2>2. \A j \in 1 .. k - 1 : j \in 1 .. Len(s)
    BY <1>1
  <2>3. above(k) \in SUBSET Nat
    BY <1>1, <2>2
  <2> HIDE DEF above
  <2> QED
    BY <2>1, <2>3 DEF Chains
<1>3. \A k \in 1 .. Len(s) : D[k] = visit[<<s[k], above(k)>>]
  OBVIOUS
<1> HIDE DEF D
<1>4. D[1] = visit[<<s[1], {}>>] /\ 1 \in 1 .. Len(s)
  <2>1. above(1) = {}
    OBVIOUS
  <2>2. 1 \in 1 .. Len(s)
    BY <1>1
  <2> HIDE DEF above
  <2> QED
    BY <1>3, <2>1, <2>2
<1>5. \A k \in 1 .. Len(s) : D[k] \in Nat
  <2> SUFFICES ASSUME NEW k \in 1 .. Len(s) PROVE D[k] \in Nat
    OBVIOUS
  <2>1. D[k] \in 0 .. Left(above(k)) + 1
    <3> HIDE DEF above
    <3>1. visit[<<s[k], above(k)>>] \in 0 .. Left(above(k)) + 1
      BY <1>2, VisitBounded
    <3> QED
      BY <1>3, <3>1
  <2>2. Left(above(k)) \in Nat
    BY OneLess
  <2> QED
    BY <2>1, <2>2
<1>6. Bad = {}
  <2> SUFFICES ASSUME Bad # {} PROVE FALSE
    OBVIOUS
  <2>1. PICK k \in Bad : \A j \in Bad : k <= j
    <3>1. Bad \subseteq Nat
      BY <1>1
    <3> HIDE DEF Bad
    <3> QED
      BY <3>1, Least
  <2>2. k \in 1 .. Len(s) /\ ~Good(k) /\ k \in Nat
    BY <1>1
  <2>3. k # 1
    BY <1>4, <1>5, <2>2
  <2>4. PICK i \in Nat : i + 1 = k /\ i \in 1 .. Len(s) /\ i \notin Bad
    <3>1. k - 1 \in Nat /\ (k - 1) + 1 = k /\ k - 1 \in 1 .. Len(s) /\ ~(k <= k - 1)
      BY <1>1, <2>2, <2>3
    <3> HIDE DEF Bad
    <3> QED
      BY <2>1, <3>1
  <2>5. D[i] # Unbounded /\ D[1] >= D[i] + (i - 1)
    BY <2>4
  <2> HIDE DEF Bad
  <2>6. above(k) = above(i) \cup {s[i]}
    <3>1. 1 .. k - 1 = (1 .. i - 1) \cup {i}
      BY <2>4
    <3> QED
      BY <3>1
  <2> DEFINE depths == {visit[<<g, above(k)>>] : g \in Callees(s[i])}
  <2>7. D[i] = Deepest(depths)
    <3> HIDE DEF above
    <3>1. D[i] = Visited(visit, <<s[i], above(i)>>)
      BY <1>2, <1>3, <2>4, VisitUnfolds
    <3>2. s[i] \notin above(i)
      BY <2>5, <3>1 DEF Visited
    <3> QED
      BY <2>6, <3>1, <3>2 DEF Visited
  <2>8. D[k] \in depths
    <3>1. <<s[i], s[k]>> \in call_edges
      BY <2>2, <2>4
    <3>2. s[k] \in Callees(s[i])
      BY <3>1, CalleesAre
    <3> HIDE DEF above
    <3> QED
      BY <1>3, <2>2, <3>2
  <2>9. PICK n \in Nat : depths \subseteq 0 .. n
    <3> HIDE DEF above
    <3>1. Left(above(k)) + 1 \in Nat
      BY OneLess
    <3>2. ASSUME NEW g \in Callees(s[i])
          PROVE  visit[<<g, above(k)>>] \in 0 .. Left(above(k)) + 1
      <4>1. g \in Nat
        BY CalleesAre, ProgramTypes
      <4>2. <<g, above(k)>> \in Chains
        BY <1>2, <2>2, <4>1 DEF Chains
      <4> QED
        BY <4>2, VisitBounded
    <3>3. depths \subseteq 0 .. Left(above(k)) + 1
      BY <3>2
    <3> HIDE DEF depths
    <3> QED
      BY <3>1, <3>3
  <2> HIDE DEF depths
  <2> DEFINE m == Largest(depths \cup {0})
  <2>10. m \in Nat /\ D[k] <= m
    <3>1. depths \cup {0} \subseteq 0 .. n /\ depths \cup {0} # {}
      BY <2>9
    <3>2. m \in depths \cup {0} /\ \A y \in depths \cup {0} : y <= m
      BY <2>9, <3>1, LargestIn
    <3> HIDE DEF m
    <3>3. m \in 0 .. n
      BY <3>1, <3>2
    <3>4. D[k] \in depths \cup {0}
      BY <2>8
    <3>5. m \in Nat
      BY <2>9, <3>3
    <3>6. D[k] <= m
      BY <3>2, <3>4, Zenon
    <3> QED
      BY <3>5, <3>6
  <2>11. Unbounded \notin depths /\ D[i] = m + 1
    BY <2>5, <2>7 DEF Deepest
  <2> HIDE DEF m
  <2>12. D[k] # Unbounded
    BY <2>8, <2>11
  <2>13. D[1] >= D[k] + (k - 1)
    <3>1. D[1] >= D[i] + (i - 1) /\ D[i] \in Nat /\ D[k] \in Nat /\ D[1] \in Nat
      BY <1>4, <1>5, <2>2, <2>4, <2>5
    <3> QED
      BY <2>4, <2>10, <2>11, <3>1
  <2> QED
    BY <2>2, <2>12, <2>13
<1>7. Len(s) \in 1 .. Len(s)
  BY <1>1
<1>8. D[Len(s)] \in Nat /\ D[Len(s)] # 0 /\ D[1] >= D[Len(s)] + (Len(s) - 1) /\ D[1] \in Nat
  BY <1>4, <1>5, <1>6, <1>7 DEF Unbounded
<1> QED
  BY <1>1, <1>4, <1>8

(***************************************************************************)
(* What the report records.  Every pc that has been stepped has left its   *)
(* traps and its call in the report; the pcs of the worklist may not have  *)
(* yet.                                                                    *)
(***************************************************************************)
RecordsTyped ==
  /\ phase \in {"new", "functions", "done"}
  /\ errors \subseteq Nat \cup {NoPc}
  /\ possible_traps \subseteq TrapCode \ {"None"}
  /\ EdgesOK
  /\ max_frame_depth \in Nat
  /\ jit \in BOOLEAN

Noted(f, q) ==
  LET ins == Code[q + 1]
  IN  /\ OpcodeTraps(ins, q) \subseteq possible_traps
      /\ UndefinedUse(ins, states[f][q]) => "UndefinedLocal" \in possible_traps
      /\ ins.opcode = "Call" => <<f, ins.arg1>> \in call_edges

Recorded ==
  errors = {} =>
    \A i \in 1 .. at : \A q \in DOMAIN states[order[i]] :
      (i = at /\ Waiting(q)) \/ Noted(order[i], q)

Concluded ==
  phase = "done" =>
    /\ max_frame_depth = visit[<<prog.main_func_id, {}>>]
    /\ jit = JitStatus(possible_traps)

\* Only slots of the function count as initialised.
SlotsOK ==
  \A f \in DOMAIN prog.functions : \A q \in DOMAIN states[f] :
    states[f][q].init \subseteq 0 .. Info(f).local_count - 1

RecordsOK == RecordsTyped /\ Recorded /\ Concluded /\ SlotsOK

\* What has been noted of a pc stays so while its state does.
LEMMA NoteStays ==
  ASSUME NEW f, NEW q, Noted(f, q), prog' = prog,
         possible_traps \subseteq possible_traps', call_edges \subseteq call_edges',
         states'[f][q] = states[f][q]
  PROVE  Noted(f, q)'
  BY DEF Noted, Code, OpcodeTraps, UndefinedUse

\* Nothing is recorded before the first step (verify).
LEMMA NewRecorded ==
  ASSUME Init
  PROVE  RecordsOK
PROOF
<1>1. /\ phase = "new" /\ at = 0 /\ errors = {} /\ possible_traps = {}
      /\ call_edges = {} /\ max_frame_depth = Unbounded /\ jit = FALSE
  BY DEF Init, New
<1>2. EdgesOK /\ Recorded /\ Concluded
  BY <1>1 DEF EdgesOK, Recorded, Concluded
<1>3. max_frame_depth \in Nat /\ jit \in BOOLEAN
  BY <1>1 DEF Unbounded
<1>4. SlotsOK
  BY DEF Init, New, SlotsOK
<1> QED
  BY <1>1, <1>2, <1>3, <1>4 DEF RecordsOK, RecordsTyped

\* The errors of the metadata name entry pcs.
LEMMA MetadataRecorded ==
  ASSUME IInv, RecordsOK, CheckMetadata
  PROVE  RecordsOK'
PROOF
<1>1. /\ phase = "new" /\ phase' = "functions"
      /\ errors' = ProgramErrors \cup FunctionErrors
      /\ UNCHANGED <<prog, at, states, possible_traps, call_edges, max_frame_depth, jit>>
  BY DEF CheckMetadata
<1>2. at = 0
  BY <1>1 DEF IInv, OrderOK
<1>3. ProgramErrors \subseteq {NoPc}
  BY DEF ProgramErrors
<1>4. FunctionErrors \subseteq Nat
  <2>1. \A f \in DOMAIN prog.functions : Info(f).entry_pc \in Nat
    BY ProgramTypes DEF IInv, FunctionInfo
  <2> QED
    BY <2>1 DEF FunctionErrors
<1>5. RecordsTyped'
  <2>1. errors' \subseteq Nat \cup {NoPc}
    BY <1>1, <1>3, <1>4
  <2> QED
    BY <1>1, <2>1 DEF RecordsOK, RecordsTyped, EdgesOK
<1>6. Recorded'
  BY <1>1, <1>2 DEF Recorded
<1>7. SlotsOK'
  BY <1>1 DEF RecordsOK, SlotsOK, Info
<1> QED
  BY <1>1, <1>5, <1>6, <1>7 DEF RecordsOK, Concluded

\* The entry of a function waits to be stepped.
LEMMA EnterRecorded ==
  ASSUME IInv, RecordsOK, EnterFunction
  PROVE  RecordsOK'
PROOF
<1>1. /\ phase = "functions" /\ worklist = << >> /\ at < Len(order)
      /\ UNCHANGED <<prog, phase, order, errors, possible_traps, call_edges,
                     max_frame_depth, jit>>
      /\ at' = at + 1 /\ worklist' = <<Start(at + 1)>>
  BY DEF EnterFunction
<1>2. /\ order \in Seq(DOMAIN prog.functions) /\ at \in Nat
      /\ at + 1 \in 1 .. Len(order) /\ Len(order) \in Nat
  BY <1>1 DEF IInv, OrderOK
<1>3. /\ \A g \in DOMAIN prog.functions \ {order[at + 1]} : states'[g] = states[g]
      /\ DOMAIN states'[order[at + 1]] = {Start(at + 1)}
      /\ \A q \in DOMAIN states'[order[at + 1]] :
           states'[order[at + 1]][q].init
             \subseteq 0 .. Info(order[at + 1]).local_count - 1
  <2> DEFINE f     == order[at + 1]
             known == [q \in {Info(f).entry_pc} |->
                         [depth |-> 0,
                          init  |-> {s \in 0 .. Info(f).local_count - 1 :
                                       s < Info(f).param_count}]]
  <2>1. states' = [states EXCEPT ![f] = known]
    BY DEF EnterFunction
  <2>2. states = [g \in DOMAIN prog.functions |-> states[g]] /\ f \in DOMAIN prog.functions
    BY <1>2 DEF IInv, StatesOK
  <2>3. /\ DOMAIN known = {Start(at + 1)}
        /\ \A q \in DOMAIN known : known[q].init \subseteq 0 .. Info(f).local_count - 1
    BY DEF Start
  <2> HIDE DEF known
  <2> QED
    BY <2>1, <2>2, <2>3
<1>4. Recorded'
  <2> SUFFICES ASSUME errors = {}, NEW i \in 1 .. at + 1, NEW q \in DOMAIN states'[order[i]]
               PROVE  (i = at + 1 /\ Waiting(q)') \/ Noted(order[i], q)'
    BY <1>1 DEF Recorded
  <2>1. CASE i = at + 1
    <3>1. q = worklist'[1] /\ 1 \in DOMAIN worklist'
      BY <1>1, <1>3, <2>1
    <3> QED
      BY <2>1, <3>1 DEF Waiting
  <2>2. CASE i # at + 1
    <3>1. i \in 1 .. at /\ i \in 1 .. Len(order) /\ i < at + 1
      BY <1>2, <2>2
    <3>2. order[i] # order[at + 1] /\ order[i] \in DOMAIN prog.functions
      BY <1>2, <3>1 DEF IInv, OrderOK
    <3>3. states'[order[i]] = states[order[i]]
      BY <1>3, <3>2
    <3>4. Noted(order[i], q)
      BY <1>1, <3>1, <3>3 DEF RecordsOK, Recorded, Waiting
    <3> QED
      BY <1>1, <3>3, <3>4, NoteStays
  <2> QED
    BY <2>1, <2>2
<1>5. SlotsOK'
  BY <1>1, <1>3 DEF RecordsOK, SlotsOK, Info
<1> QED
  BY <1>1, <1>4, <1>5 DEF RecordsOK, RecordsTyped, EdgesOK, Concluded

\* An error makes the records of no use (LeaveRange, RejectInstruction).
LEMMA ErrorRecorded ==
  ASSUME IInv, RecordsOK, LeaveRange \/ RejectInstruction
  PROVE  RecordsOK'
PROOF
<1>1. /\ worklist # << >> /\ phase = "functions"
      /\ UNCHANGED <<prog, phase, states, call_edges, max_frame_depth, jit>>
      /\ errors' = errors \cup {Here}
      /\ possible_traps' \subseteq possible_traps \cup {"UndefinedLocal"}
  BY DEF LeaveRange, RejectInstruction, Dequeue
<1>2. Here \in Nat
  BY <1>1, HeadTypes
<1>3. RecordsTyped'
  BY <1>1, <1>2 DEF RecordsOK, RecordsTyped, EdgesOK, TrapCode
<1>4. SlotsOK'
  BY <1>1 DEF RecordsOK, SlotsOK, Info
<1> QED
  BY <1>1, <1>3, <1>4 DEF RecordsOK, Recorded, Concluded

\* A step leaves the traps and the call of its pc in the report.
LEMMA StepRecorded ==
  ASSUME IInv, RecordsOK, StepInstruction
  PROVE  RecordsOK'
PROOF
<1> DEFINE new     == After(Instr, State)
           succs   == Successors(Instr, Here)
           reached == {q \in {succs[k] : k \in DOMAIN succs} : Propagates(new, q)}
           later   == states'[order[at]]
<1>1. /\ worklist # << >> /\ phase = "functions" /\ Accepted
      /\ UNCHANGED <<prog, phase, order, at, max_frame_depth, jit>>
      /\ errors' = errors \cup SuccessorErrors(new, succs) \cup
                     (IF new.depth > MAX_OPERAND_STACK THEN {Here} ELSE {})
      /\ possible_traps' = possible_traps \cup OpcodeTraps(Instr, Here) \cup
           (IF UndefinedUse(Instr, State) THEN {"UndefinedLocal"} ELSE {})
      /\ call_edges' = call_edges \cup
           (IF Instr.opcode = "Call" THEN {<<order[at], Instr.arg1>>} ELSE {})
  BY DEF StepInstruction, Dequeue
<1>2. /\ at \in 1 .. Len(order) /\ order[at] \in DOMAIN prog.functions
      /\ Here = worklist[1] /\ Here \in Nat /\ Here \in DOMAIN Known
      /\ worklist \in Seq(Nat) /\ Len(worklist) \in Nat \ {0}
  BY <1>1, HeadTypes DEF IInv, WorklistOK
<1>3. /\ succs \in Seq(Nat)
      /\ \A f \in DOMAIN prog.functions \ {order[at]} : states'[f] = states[f]
      /\ DOMAIN later = DOMAIN Known \cup reached
      /\ \A q \in DOMAIN later \ reached : later[q] = Known[q]
      /\ \A q \in reached :
           later[q] = IF q \in DOMAIN Known THEN Merge(Known[q], new) ELSE new
  BY StepStates
<1>4. /\ \A q \in reached : \E k \in 1 .. Len(worklist') : worklist'[k] = q
      /\ \A j \in 2 .. Len(worklist) :
           \E k \in 1 .. Len(worklist') : worklist'[k] = worklist[j]
      /\ worklist' \in Seq(Nat)
  BY StepWorklist
<1>5. RecordsTyped'
  <2>1. SuccessorErrors(new, succs) \subseteq Nat
    <3>1. \A k \in DOMAIN succs : succs[k] \in Nat
      BY <1>3
    <3> HIDE DEF new, succs
    <3> QED
      BY <1>2, <3>1 DEF SuccessorErrors
  <2>2. OpcodeTraps(Instr, Here) \subseteq TrapCode \ {"None"}
    BY DEF OpcodeTraps, TrapCode
  <2>3. Instr.opcode = "Call" => Instr.arg1 \in DOMAIN prog.functions
    BY <1>1 DEF Accepted, OperandsOK, GlobalArrayOps, LocalArrayOps, Allocations, Jumps
  <2> HIDE DEF new, succs
  <2>4. errors' \subseteq Nat \cup {NoPc}
    BY <1>1, <1>2, <2>1 DEF RecordsOK, RecordsTyped
  <2>5. possible_traps' \subseteq TrapCode \ {"None"}
    BY <1>1, <2>2 DEF RecordsOK, RecordsTyped, TrapCode
  <2>6. EdgesOK'
    BY <1>1, <1>2, <2>3 DEF RecordsOK, RecordsTyped, EdgesOK
  <2> QED
    BY <1>1, <2>4, <2>5, <2>6 DEF RecordsOK, RecordsTyped
<1> HIDE DEF reached, new, succs
<1>6. Recorded'
  <2> SUFFICES ASSUME errors = {}, NEW i \in 1 .. at, NEW q \in DOMAIN states'[order[i]],
                      ~(i = at /\ Waiting(q)')
               PROVE  Noted(order[i], q)'
    BY <1>1 DEF Recorded
  <2>1. \A p \in DOMAIN states[order[i]] : (i = at /\ Waiting(p)) \/ Noted(order[i], p)
    BY DEF RecordsOK, Recorded
  <2>2. possible_traps \subseteq possible_traps' /\ call_edges \subseteq call_edges'
    BY <1>1
  <2>3. CASE i # at
    <3>1. i \in 1 .. Len(order) /\ i < at
      BY <1>2, <2>3
    <3>2. order[i] # order[at] /\ order[i] \in DOMAIN prog.functions
      BY <1>2, <3>1 DEF IInv, OrderOK
    <3>3. states'[order[i]] = states[order[i]]
      BY <1>3, <3>2
    <3> QED
      BY <1>1, <2>1, <2>2, <2>3, <3>3, NoteStays
  <2>4. CASE i = at
    <3>1. ~ \E k \in 1 .. Len(worklist') : worklist'[k] = q
      BY <1>4, <2>4 DEF Waiting
    <3>2. q \notin reached /\ q \in DOMAIN Known /\ later[q] = Known[q]
      BY <1>3, <1>4, <2>4, <3>1
    <3>3. CASE q = Here
      BY <1>1, <2>4, <3>2, <3>3 DEF Noted, Instr, State, Code, OpcodeTraps, UndefinedUse
    <3>4. CASE q # Here
      <4>1. ~Waiting(q)
        <5>1. SUFFICES ASSUME NEW j \in 1 .. Len(worklist), worklist[j] = q PROVE FALSE
          BY <1>2 DEF Waiting
        <5>2. j \in 2 .. Len(worklist)
          BY <1>2, <3>4, <5>1
        <5> QED
          BY <1>4, <3>1, <5>1, <5>2
      <4>2. Noted(order[i], q)
        BY <2>1, <2>4, <3>2, <4>1 DEF Known
      <4> QED
        BY <1>1, <2>2, <2>4, <3>2, <4>2, NoteStays DEF Known
    <3> QED
      BY <3>3, <3>4
  <2> QED
    BY <2>3, <2>4
<1>7. SlotsOK'
  <2> DEFINE slots == 0 .. Info(order[at]).local_count - 1
  <2>1. \A q \in DOMAIN Known : Known[q].init \subseteq slots
    BY <1>2 DEF RecordsOK, SlotsOK, Known
  <2>2. new.init \subseteq slots
    <3>1. State.init \subseteq slots
      BY <1>2, <2>1 DEF State
    <3>2. Instr.opcode = "StoreLocal" => Instr.arg1 \in slots
      <4>1. Instr.opcode = "StoreLocal" => LocalOK(at, Instr.arg1)
        BY <1>1 DEF Accepted, OperandsOK, GlobalArrayOps, LocalArrayOps, Allocations, Jumps
      <4>2. Instr \in Instruction /\ Info(order[at]) \in FunctionInfo
        BY <1>1, <1>2, HeadTypes, ProgramTypes DEF IInv
      <4> QED
        BY <4>1, <4>2, LimitsAssumption DEF LocalOK, Instruction, I32, FunctionInfo
    <3> HIDE DEF slots
    <3> QED
      BY <3>1, <3>2 DEF new, After
  <2>3. ASSUME NEW q \in DOMAIN later PROVE later[q].init \subseteq slots
    <3> HIDE DEF slots, later
    <3>1. CASE q \in reached
      <4>1. later[q] = IF q \in DOMAIN Known THEN Merge(Known[q], new) ELSE new
        BY <1>3, <3>1
      <4> QED
        BY <2>1, <2>2, <4>1 DEF Merge
    <3>2. CASE q \notin reached
      BY <1>3, <2>1, <2>3, <3>2
    <3> QED
      BY <3>1, <3>2
  <2>4. ASSUME NEW f \in DOMAIN prog.functions, NEW q \in DOMAIN states'[f]
        PROVE  states'[f][q].init \subseteq 0 .. Info(f).local_count - 1
    <3>1. CASE f = order[at]
      BY <2>3, <3>1
    <3>2. CASE f # order[at]
      BY <1>3, <3>2 DEF RecordsOK, SlotsOK
    <3> QED
      BY <3>1, <3>2
  <2> QED
    BY <1>1, <2>4 DEF SlotsOK, Info
<1> QED
  BY <1>1, <1>5, <1>6, <1>7 DEF RecordsOK, Concluded

\* The last step of verify computes the frame depth and the eligibility.
LEMMA ReportRecorded ==
  ASSUME IInv, RecordsOK, Report
  PROVE  RecordsOK'
PROOF
<1>1. /\ phase' = "done"
      /\ max_frame_depth' = visit[<<prog.main_func_id, {}>>]
      /\ possible_traps \subseteq possible_traps'
      /\ possible_traps' \subseteq possible_traps \cup {"StackOverflow"}
      /\ jit' = JitStatus(possible_traps')
      /\ UNCHANGED <<prog, order, at, states, worklist, errors, call_edges>>
  BY DEF Report
<1>2. EdgesOK /\ EdgesOK'
  BY <1>1 DEF RecordsOK, RecordsTyped, EdgesOK
<1>3. max_frame_depth' \in Nat
  <2>1. IsProgram(prog)
    BY ProgramsAssumption DEF IInv
  <2>2. <<prog.main_func_id, {}>> \in Chains
    BY <2>1 DEF IsProgram, Chains
  <2>3. visit[<<prog.main_func_id, {}>>] \in 0 .. Left({}) + 1 /\ Left({}) \in Nat
    BY <1>2, <2>2, VisitBounded, OneLess DEF IInv
  <2> QED
    BY <1>1, <2>3
<1>4. JitStatus(possible_traps') \in BOOLEAN
  BY DEF JitStatus
<1>5. RecordsTyped'
  BY <1>1, <1>2, <1>3, <1>4 DEF RecordsOK, RecordsTyped, TrapCode
<1>6. Recorded'
  <2> SUFFICES ASSUME errors = {}, NEW i \in 1 .. at, NEW q \in DOMAIN states[order[i]]
               PROVE  (i = at /\ Waiting(q)') \/ Noted(order[i], q)'
    BY <1>1 DEF Recorded
  <2>1. (i = at /\ Waiting(q)) \/ Noted(order[i], q)
    BY DEF RecordsOK, Recorded
  <2>2. Waiting(q) => Waiting(q)'
    BY <1>1 DEF Waiting
  <2>3. Noted(order[i], q) => Noted(order[i], q)'
    BY <1>1, NoteStays
  <2> QED
    BY <2>1, <2>2, <2>3
<1>7. Concluded'
  <2>1. visit' = visit
    BY <1>1 DEF visit, Callees
  <2>2. JitStatus(possible_traps)' = JitStatus(possible_traps')
    BY <1>1 DEF JitStatus, Info, Code
  <2> QED
    BY <1>1, <2>1, <2>2 DEF Concluded
<1>8. SlotsOK'
  BY <1>1 DEF RecordsOK, SlotsOK, Info
<1> QED
  BY <1>5, <1>6, <1>7, <1>8 DEF RecordsOK

\* The records stay as they are once the report is out.
LEMMA RecordsStay ==
  ASSUME RecordsOK, UNCHANGED vars
  PROVE  RecordsOK'
PROOF
<1>1. UNCHANGED <<prog, phase, order, at, states, worklist, errors, possible_traps,
                  call_edges, max_frame_depth, jit>>
  BY DEF vars
<1>2. RecordsTyped'
  BY <1>1 DEF RecordsOK, RecordsTyped, EdgesOK
<1>3. Recorded'
  BY <1>1 DEF RecordsOK, Recorded, Noted, Waiting, Code, OpcodeTraps, UndefinedUse
<1>4. Concluded'
  <2>1. visit' = visit
    BY <1>1 DEF visit, Callees
  <2>2. JitStatus(possible_traps)' = JitStatus(possible_traps)
    BY <1>1 DEF JitStatus, Info, Code
  <2> QED
    BY <1>1, <2>1, <2>2 DEF RecordsOK, Concluded
<1>5. SlotsOK'
  BY <1>1 DEF RecordsOK, SlotsOK, Info
<1> QED
  BY <1>2, <1>3, <1>4, <1>5 DEF RecordsOK

(***************************************************************************)
(* The type invariant needs all three: the stepped pcs have states         *)
(* (StatesOK), the depths are numbers (DepthsReported), and visit yields a *)
(* number (RecordsTyped).                                                  *)
(***************************************************************************)
LEMMA NextKeeps ==
  ASSUME IInv, ReportOK, RecordsOK, [Next]_vars
  PROVE  IInv' /\ ReportOK' /\ RecordsOK'
PROOF
<1>1. CASE CheckMetadata
  BY <1>1, MetadataKeeps, MetadataReported, MetadataRecorded
<1>2. CASE EnterFunction
  BY <1>2, EnterKeeps, EnterReported, EnterRecorded
<1>3. CASE LeaveRange \/ RejectInstruction
  BY <1>3, ErrorKeeps, ErrorReported, ErrorRecorded
<1>4. CASE StepInstruction
  BY <1>4, StepKeeps, StepReported, StepRecorded
<1>5. CASE Report
  <2>1. /\ phase = "functions" /\ phase' = "done" /\ worklist = << >> /\ at = Len(order)
        /\ UNCHANGED <<prog, order, at, states, worklist, errors, max_stack_depth>>
    BY <1>5 DEF Report
  <2> QED
    BY <1>5, <2>1, ReportKeeps, DoneReported, ReportRecorded
<1>6. CASE UNCHANGED vars
  <2>1. IInv'
    BY <1>6, ReportKeeps DEF vars
  <2>2. ReportOK'
    <3>1. UNCHANGED <<prog, phase, order, at, states, worklist, errors, max_stack_depth>>
      BY <1>6 DEF vars
    <3>2. CASE phase = "new"
      BY <3>1, <3>2 DEF ReportOK, DepthsReported
    <3>3. CASE phase # "new"
      <4>1. phase' = "done" => worklist = << >> /\ at = Len(order)
        BY <3>1 DEF ReportOK
      <4> QED
        BY <3>1, <3>3, <4>1, DoneReported
    <3> QED
      BY <3>2, <3>3
  <2> QED
    BY <1>6, <2>1, <2>2, RecordsStay
<1> QED
  BY <1>1, <1>2, <1>3, <1>4, <1>5, <1>6 DEF Next, Verify, Done

\* Whatever the program and the limits, the verifier's collections hold values
\* of their types; in particular the frame depth it reports is a number,
\* because its search of the call graph ends (verify, max_frame_depth).
THEOREM TypesKept == Spec => []TypeOK
PROOF
<1>1. Init => IInv /\ ReportOK /\ RecordsOK
  BY NewHolds, NewReported, NewRecorded
<1>2. (IInv /\ ReportOK /\ RecordsOK) /\ [Next]_vars => (IInv /\ ReportOK /\ RecordsOK)'
  BY NextKeeps
<1>3. IInv /\ ReportOK /\ RecordsOK => TypeOK
  BY DEF IInv, OrderOK, StatesOK, KnownOK, WorklistOK, ReportOK, DepthsReported,
     RecordsOK, RecordsTyped, EdgesOK, TypeOK
<1> QED
  BY <1>1, <1>2, <1>3, PTL DEF Spec
===============================================================================
