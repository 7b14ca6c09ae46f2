---------------------------------- MODULE Jit ----------------------------------
(***************************************************************************)
(* The x86-64 JIT, jit.rs: the machine code it emits for a program that    *)
(* supports_program lets through, and what that code does.                 *)
(*                                                                         *)
(* An instruction of the machine is modelled by its effect, its encoding   *)
(* in bytes is left out.  Registers and memory hold 64-bit values, which   *)
(* the emitted code never overflows; memory is counted in words of eight   *)
(* bytes and the stack grows downwards.  Opcodes supports_program refuses  *)
(* have emission code as well; it never runs and is left out.              *)
(***************************************************************************)
EXTENDS Bytecode, FiniteSets

CONSTANT
  JIT_FRAME_WORDS     \* the 8192 bytes emit_prologue reserves: 1024 words

ASSUME FrameAssumption == JIT_FRAME_WORDS \in Nat

(***************************************************************************)
(* supports_program, supports_opcode                                       *)
(***************************************************************************)
Supported ==
  Comparisons \cup UnaryOps \cup
  {"Add", "Sub", "Mul", "LoadConst", "LoadLocal", "StoreLocal", "Pop", "Dup", "Return"}

\* The code from main's entry to its first Return, as pcs; empty if none.
MainRange(p) ==
  LET entry   == p.functions[p.main_func_id].entry_pc
      returns == {q \in entry .. Len(p.instructions) - 1 :
                    p.instructions[q + 1].opcode = "Return"}
  IN  IF returns = {} THEN {}
      ELSE entry .. (CHOOSE q \in returns : \A r \in returns : q <= r)

supports_program(p) ==
  /\ Cardinality(DOMAIN p.functions) = 1
  /\ MainRange(p) # {}
  /\ \A q \in MainRange(p) : p.instructions[q + 1].opcode \in Supported

(***************************************************************************)
(* The machine: registers by name, memory, and one operator per            *)
(* instruction MachineCode can emit for these opcodes.                     *)
(***************************************************************************)
Entry    == 0         \* rsp when the code is called: the return address is there
Caller   == "caller"  \* what the caller keeps in rbp
Address  == "address" \* the return address
Garbage  == I64Min    \* memory nobody has written

Machine ==
  [rax |-> Garbage, rcx |-> Garbage, rsp |-> Entry, rbp |-> Caller,
   returned |-> FALSE, mem |-> [w \in {Entry} |-> Address]]

Read(m, w) == IF w \in DOMAIN m.mem THEN m.mem[w] ELSE Garbage
Write(m, w, v) ==
  [m EXCEPT !.mem = [a \in DOMAIN m.mem \cup {w} |-> IF a = w THEN v ELSE m.mem[a]]]

X(op, reg, imm) == [op |-> op, reg |-> reg, imm |-> imm]

\* Two-register instructions are all emitted with rax and rcx, the moves from
\* and to memory and of an immediate all with rax.  A member of Comparisons
\* stands for cmp or test, setcc and movzx, which leave 0 or 1 in rax.
Exec(m, x) ==
  CASE x.op = "push"      -> Write([m EXCEPT !.rsp = @ - 1], m.rsp - 1, m[x.reg])
    [] x.op = "pop"       -> [m EXCEPT ![x.reg] = Read(m, m.rsp), !["rsp"] = @ + 1]
    [] x.op = "mov_imm32" -> [m EXCEPT !.rax = x.imm]
    [] x.op = "mov_load"  -> [m EXCEPT !.rax = Read(m, m.rbp + x.imm)]
    [] x.op = "mov_store" -> Write(m, m.rbp + x.imm, m.rax)
    [] x.op = "enter"     -> [m EXCEPT !.rbp = m.rsp]
    [] x.op = "leave"     -> [m EXCEPT !.rsp = m.rbp]
    [] x.op = "sub_imm"   -> [m EXCEPT !.rsp = @ - x.imm]
    [] x.op = "add"       -> [m EXCEPT !.rax = @ + m.rcx]
    [] x.op = "sub"       -> [m EXCEPT !.rax = @ - m.rcx]
    [] x.op = "imul"      -> [m EXCEPT !.rax = @ * m.rcx]
    [] x.op = "neg"       -> [m EXCEPT !.rax = -@]
    [] x.op = "movsxd_32" -> [m EXCEPT !.rax = normalize_i32(@)]
    [] x.op \in Comparisons -> [m EXCEPT !.rax = BinaryResult(x.op, m.rax, m.rcx)]
    [] x.op = "test_sete" -> [m EXCEPT !.rax = Bool(m.rax = 0)]
    [] x.op = "ret"       -> [m EXCEPT !.returned = (Read(m, m.rsp) = Address),
                                       !.rsp = @ + 1]

\* The machine behind all of the code.
Executed(m, code) ==
  LET after[k \in 0 .. Len(code)] ==
        IF k = 0 THEN m ELSE Exec(after[k - 1], code[k])
  IN  after[Len(code)]

(***************************************************************************)
(* compile: prologue, one sequence per instruction up to the first Return. *)
(***************************************************************************)
Push == X("push", "rax", 0)
PopRight == X("pop", "rcx", 0)
PopLeft  == X("pop", "rax", 0)

emit_prologue ==
  <<X("push", "rbp", 0), X("enter", "rbp", 0), X("sub_imm", "rsp", JIT_FRAME_WORDS)>>

emit_epilogue ==
  <<X("leave", "rsp", 0), X("pop", "rbp", 0), X("ret", "rsp", 0)>>

LocalOffset(slot) == -(1 + slot)

Mnemonic == [Add |-> "add", Sub |-> "sub", Mul |-> "imul"]

\* MUTANT of Narrowed: a product stays as wide as imul leaves it.
NarrowedNoMul(op) == IF op = "Mul" THEN <<>> ELSE <<X("movsxd_32", "rax", 0)>>

\* Sums and products are sign-extended from 32 bits; a negation is not.
Narrowed(op) == <<X("movsxd_32", "rax", 0)>>

compile_instruction(ins) ==
  CASE ins.opcode = "LoadConst"  -> <<X("mov_imm32", "rax", ins.arg1), Push>>
    [] ins.opcode = "LoadLocal"  -> <<X("mov_load", "rax", LocalOffset(ins.arg1)), Push>>
    [] ins.opcode = "StoreLocal" -> <<PopLeft, X("mov_store", "rax", LocalOffset(ins.arg1))>>
    [] ins.opcode \in {"Add", "Sub", "Mul"} ->
         <<PopRight, PopLeft, X(Mnemonic[ins.opcode], "rax", 0)>>
           \o Narrowed(ins.opcode) \o <<Push>>
    [] ins.opcode = "Neg" -> <<PopLeft, X("neg", "rax", 0), Push>>
    [] ins.opcode \in Comparisons -> <<PopRight, PopLeft, X(ins.opcode, "rax", 0), Push>>
    [] ins.opcode = "Not" -> <<PopLeft, X("test_sete", "rax", 0), Push>>
    [] ins.opcode = "Return" -> <<PopLeft>> \o emit_epilogue
    [] ins.opcode = "Pop" -> <<PopLeft>>
    [] ins.opcode = "Dup" -> <<PopLeft, Push, Push>>

\* The code of the first n instructions of main.
Emitted(p, n) ==
  LET entry == p.functions[p.main_func_id].entry_pc
      upto[i \in 0 .. n] ==
        IF i = 0 THEN emit_prologue
        ELSE upto[i - 1] \o compile_instruction(p.instructions[entry + i])
  IN  upto[n]

compile(p) == Emitted(p, Cardinality(MainRange(p)))

\* The call of the compiled function by run_jit_eligible of compare.rs.
Native(p) == Executed(Machine, compile(p))
===============================================================================
