------------------------------- MODULE Optimizer -------------------------------
(***************************************************************************)
(* The optimizer of bytecode, optimizer.rs: four passes over a program.    *)
(* The first three change the length of the code without moving any target *)
(* and run only where there is none to move: one function and no jumps.    *)
(* Dead code elimination removes what no entry reaches and moves the       *)
(* targets of what stays.  The statistics are left out.                    *)
(***************************************************************************)
EXTENDS Bytecode, FiniteSets

Load(c) == [opcode |-> "LoadConst", arg1 |-> c, arg2 |-> 0]
Plain(op) == [opcode |-> op, arg1 |-> 0, arg2 |-> 0]

(***************************************************************************)
(* A pass is a scan: its rule looks at the code from position i on and     *)
(* says how many instructions it replaces and by what.  Replacements are   *)
(* not looked at again by the same pass.                                   *)
(***************************************************************************)
Replace(n, by) == [takes |-> n, gives |-> by]

Scan(code, Rule(_, _)) ==
  LET from[i \in 1 .. Len(code) + 3] ==
        IF i > Len(code) THEN <<>>
        ELSE LET r == Rule(code, i) IN r.gives \o from[i + r.takes]
  IN  from[1]

OpAt(code, i) == IF i <= Len(code) THEN code[i].opcode ELSE "none"

(***************************************************************************)
(* constant_folding                                                        *)
(***************************************************************************)
\* `a / b` is folded unless it would trap or leave 32 bits.
Foldable(op, a, b) ==
  \/ op \in (Arithmetic \ {"Div"}) \cup Comparisons
  \/ op = "Div" /\ b # 0 /\ ~(a = -Half /\ b = -1)

FoldRule(code, i) ==
  IF /\ OpAt(code, i) = "LoadConst" /\ OpAt(code, i + 1) = "LoadConst"
     /\ i + 2 <= Len(code) /\ Foldable(code[i + 2].opcode, code[i].arg1, code[i + 1].arg1)
  THEN Replace(3, <<Load(BinaryResult(code[i + 2].opcode, code[i].arg1, code[i + 1].arg1))>>)
  ELSE IF OpAt(code, i) = "LoadConst" /\ OpAt(code, i + 1) \in UnaryOps
  THEN Replace(2, <<Load(UnaryResult(code[i + 1].opcode, code[i].arg1))>>)
  ELSE Replace(1, <<code[i]>>)

constant_folding(code) == Scan(code, FoldRule)

(***************************************************************************)
(* strength_reduction                                                      *)
(***************************************************************************)
\* The operations that leave their left operand alone.
Neutral == {<<1, "Mul">>, <<0, "Add">>, <<0, "Sub">>, <<1, "Div">>}

ReduceRule(code, i) ==
  LET pair == IF OpAt(code, i) = "LoadConst"
              THEN <<code[i].arg1, OpAt(code, i + 1)>> ELSE <<0, "none">>
  IN  IF pair = <<0, "Mul">> THEN Replace(2, <<Plain("Pop"), Load(0)>>)
      ELSE IF pair \in Neutral THEN Replace(2, <<>>)
      ELSE Replace(1, <<code[i]>>)

strength_reduction(code) == Scan(code, ReduceRule)

(***************************************************************************)
(* peephole_optimization.  Its second pattern, a jump to the next          *)
(* instruction, cannot occur in code without jumps.                        *)
(***************************************************************************)
\* MUTANT of PeepholeRule: a load of a local is dropped with its Pop.
PeepholeRuleLocal(code, i) ==
  IF OpAt(code, i) \in {"LoadConst", "LoadLocal"} /\ OpAt(code, i + 1) = "Pop"
  THEN Replace(2, <<>>)
  ELSE Replace(1, <<code[i]>>)

PeepholeRule(code, i) ==
  IF OpAt(code, i) = "LoadConst" /\ OpAt(code, i + 1) = "Pop"
  THEN Replace(2, <<>>)
  ELSE IF OpAt(code, i) = "Jump" /\ i < Len(code) /\ code[i].arg1 = i
  THEN Replace(1, <<>>)
  ELSE Replace(1, <<code[i]>>)

peephole_optimization(code) == Scan(code, PeepholeRule)

(***************************************************************************)
(* dead_code_elimination.  pcs count from 0.                               *)
(***************************************************************************)
Follow(code, q) ==
  LET ins == code[q + 1]
  IN  CASE ins.opcode = "Jump" -> {AsUsize(ins.arg1)}
        [] ins.opcode \in {"JumpIfFalse", "JumpIfTrue"} -> {q + 1, AsUsize(ins.arg1)}
        [] ins.opcode \in {"Return", "Halt"} -> {}
        [] OTHER -> {q + 1}

\* The worklist from the functions' entries, n instructions deep.
Reachable(code, fns) ==
  LET pcs == 0 .. Len(code) - 1
      reach[n \in Nat] ==
        IF n = 0 THEN {fns[f].entry_pc : f \in DOMAIN fns} \cap pcs
        ELSE LET known == reach[n - 1]
             IN  known \cup (UNION {Follow(code, q) : q \in known} \cap pcs)
  IN  reach[Len(code)]

\* MUTANT of OldToNew: targets stay where they were.
OldToNewIdentity(live, q) == q

\* Where a pc moves; one that is not kept stays as it is.
OldToNew(live, q) ==
  IF q \in live THEN Cardinality({r \in live : r < q}) ELSE q

\* The n-th (from 0) pc that is kept.
Kept(live, n) == CHOOSE q \in live : Cardinality({r \in live : r < q}) = n

Moved(live, ins) ==
  IF ins.opcode \in Jumps /\ ins.arg1 >= 0
  THEN [ins EXCEPT !.arg1 = OldToNew(live, ins.arg1)] ELSE ins

\* A function whose entry is not in the code is dropped.
dead_code_elimination(code, fns) ==
  LET live == Reachable(code, fns)
      kept == {f \in DOMAIN fns : fns[f].entry_pc \in live}
  IN  IF Cardinality(live) = Len(code) THEN [code |-> code, fns |-> fns]
      ELSE [code |-> [i \in 1 .. Cardinality(live) |->
                        Moved(live, code[Kept(live, i - 1) + 1])],
            fns  |-> [f \in kept |->
                        [fns[f] EXCEPT !.entry_pc = OldToNew(live, fns[f].entry_pc)]]]

(***************************************************************************)
(* optimize                                                                *)
(***************************************************************************)
\* MUTANT of can_run_size_changing_passes: jumps are no obstacle.
CanRunDespiteJumps(code, fns) == Cardinality(DOMAIN fns) = 1

can_run_size_changing_passes(code, fns) ==
  /\ Cardinality(DOMAIN fns) = 1
  /\ \A i \in DOMAIN code : code[i].opcode \notin Jumps

optimize(p) ==
  LET code == p.instructions
      short == IF can_run_size_changing_passes(code, p.functions)
               THEN peephole_optimization(strength_reduction(constant_folding(code)))
               ELSE code
      dce == dead_code_elimination(short, p.functions)
  IN  [p EXCEPT !.instructions = dce.code, !.functions = dce.fns]
===============================================================================
