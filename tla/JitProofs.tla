------------------------------- MODULE JitProofs -------------------------------
(***************************************************************************)
(* The native code of straight-line programs: what the emitted code does   *)
(* to the frame it runs in, whatever the operands, the locals and the size *)
(* of the frame.  VerifiedVmProofs puts it beside the reference machine.   *)
(*                                                                         *)
(* Shows says that the frame holds the operands and the initialised locals *)
(* of the reference machine.  The prologue establishes it, the code of     *)
(* every instruction keeps it, and the code of Return gives the caller     *)
(* back what it had.                                                       *)
(***************************************************************************)
EXTENDS Jit, BytecodeProofs, SequenceTheorems, FiniteSetTheorems, WellFoundedInduction,
        NaturalsInduction, TLAPS

(***************************************************************************)
(* Executed.                                                               *)
(***************************************************************************)

\* A set of natural numbers has a least one.
LEMMA Least ==
  ASSUME NEW S, S \subseteq Nat, S # {}
  PROVE  \E n \in S : \A k \in S : n <= k
PROOF
<1>1. IsWellFoundedOn(OpToRel(<, Nat), Nat)
  BY NatLessThanWellFounded
<1>2. PICK x \in S : \A y \in S : ~(<<y, x>> \in OpToRel(<, Nat))
  BY <1>1, WFMin
<1>3. \A y \in S : ~(y < x)
  BY <1>2 DEF OpToRel
<1> QED
  BY <1>3

\* g holds the machines behind the first 0, 1, 2, ... instructions of code.
Runs(g, m, code) ==
  g[0] = m /\ \A k \in 1 .. Len(code) : g[k] = Exec(g[k - 1], code[k])

\* A run exists, by the shortest one that does not.
LEMMA RunExists ==
  ASSUME NEW m, NEW code, Len(code) \in Nat
  PROVE  \E g : Runs(g, m, code)
PROOF
<1> DEFINE Upto(g, n) == g[0] = m /\ \A k \in 1 .. n : g[k] = Exec(g[k - 1], code[k])
           Bad == {n \in Nat : ~\E g : Upto(g, n)}
<1>1. SUFFICES Bad = {}
  <2>1. Len(code) \notin Bad
    BY <1>1
  <2> QED
    BY <2>1 DEF Runs
<1>2. SUFFICES ASSUME Bad # {} PROVE FALSE
  OBVIOUS
<1>3. PICK n \in Bad : \A k \in Bad : n <= k
  <2>1. Bad \subseteq Nat
    OBVIOUS
  <2> HIDE DEF Bad
  <2> QED
    BY <1>2, <2>1, Least
<1>4. n \in Nat /\ ~\E g : Upto(g, n)
  BY <1>3
<1>5. n # 0
  <2> DEFINE g == [k \in {0} |-> m]
  <2>1. Upto(g, 0)
    OBVIOUS
  <2> HIDE DEF Upto
  <2> QED
    BY <1>4, <2>1
<1>6. n - 1 \in Nat /\ ~(n <= n - 1)
  BY <1>4, <1>5
<1>7. PICK g : Upto(g, n - 1)
  <2>1. n - 1 \notin Bad
    <3> HIDE DEF Bad
    <3> QED
      BY <1>3, <1>6
  <2> QED
    BY <1>6, <2>1
<1> DEFINE h == [k \in 0 .. n |-> IF k = n THEN Exec(g[n - 1], code[n]) ELSE g[k]]
<1>8. Upto(h, n)
  <2>1. h[0] = m
    BY <1>4, <1>5, <1>7
  <2>2. ASSUME NEW k \in 1 .. n PROVE h[k] = Exec(h[k - 1], code[k])
    <3>1. k \in 0 .. n /\ k - 1 \in 0 .. n /\ k - 1 # n
      BY <1>4
    <3>2. h[k - 1] = g[k - 1]
      BY <3>1
    <3>3. CASE k = n
      BY <3>1, <3>2, <3>3
    <3>4. CASE k # n
      <4>1. k \in 1 .. n - 1
        BY <1>4, <3>4
      <4>2. h[k] = g[k]
        BY <3>1, <3>4
      <4> QED
        BY <1>7, <3>2, <4>1, <4>2
    <3> QED
      BY <3>3, <3>4
  <2> QED
    BY <2>1, <2>2
<1> HIDE DEF Upto, h
<1> QED
  BY <1>4, <1>8

\* The last machine of a run is what Executed yields.
LEMMA RunsIs ==
  ASSUME NEW m, NEW code, Len(code) \in Nat, NEW g, Runs(g, m, code)
  PROVE  Executed(m, code) = g[Len(code)]
PROOF
<1>0. PICK n \in Nat : n = Len(code)
  OBVIOUS
<1> DEFINE Eq(f) == f = [k \in 0 .. Len(code) |-> IF k = 0 THEN m ELSE Exec(f[k - 1], code[k])]
           h == [k \in 0 .. n |-> g[k]]
           f == CHOOSE x : Eq(x)
<1>1. Eq(h)
  <2>1. ASSUME NEW k \in 0 .. n
        PROVE  h[k] = IF k = 0 THEN m ELSE Exec(h[k - 1], code[k])
    <3>1. CASE k = 0
      BY <1>0, <3>1 DEF Runs
    <3>2. CASE k # 0
      <4>1. k \in 1 .. n /\ k - 1 \in 0 .. n
        BY <3>2
      <4> QED
        BY <1>0, <3>2, <4>1 DEF Runs
    <3> QED
      BY <3>1, <3>2
  <2>2. h = [k \in 0 .. n |-> IF k = 0 THEN m ELSE Exec(h[k - 1], code[k])]
    <3> QED
      BY <2>1
  <2> QED
    BY <1>0, <2>2
<1>2. Eq(f)
  <2> HIDE DEF Eq, h
  <2> QED
    BY <1>1
<1>3. Executed(m, code) = f[n]
  BY <1>0 DEF Executed
<1> HIDE DEF f, h
<1>4. f[0] = m /\ \A k \in 1 .. n : f[k] = Exec(f[k - 1], code[k])
  <2>1. ASSUME NEW k \in 0 .. n PROVE f[k] = IF k = 0 THEN m ELSE Exec(f[k - 1], code[k])
    BY <1>0, <1>2
  <2>2. 0 \in 0 .. n /\ \A k \in 1 .. n : k \in 0 .. n /\ k # 0
    OBVIOUS
  <2> HIDE DEF Eq
  <2> QED
    BY <2>1, <2>2
<1> HIDE DEF Eq
<1> DEFINE Bad == {k \in 0 .. n : f[k] # g[k]}
<1>5. Bad = {}
  <2>1. SUFFICES ASSUME Bad # {} PROVE FALSE
    OBVIOUS
  <2>2. PICK k \in Bad : \A j \in Bad : k <= j
    <3>1. Bad \subseteq Nat
      OBVIOUS
    <3> HIDE DEF Bad
    <3> QED
      BY <2>1, <3>1, Least
  <2>3. k \in 0 .. n /\ f[k] # g[k] /\ k # 0
    BY <1>4, <2>2 DEF Runs
  <2>4. k \in 1 .. n /\ k - 1 \in 0 .. n /\ ~(k <= k - 1)
    BY <2>3
  <2>5. f[k - 1] = g[k - 1]
    <3>1. k - 1 \notin Bad
      <4> HIDE DEF Bad
      <4> QED
        BY <2>2, <2>4
    <3> QED
      BY <2>4, <3>1
  <2> QED
    BY <1>0, <1>4, <2>3, <2>4, <2>5 DEF Runs
<1> QED
  BY <1>0, <1>3, <1>5

\* Code runs piece by piece.
LEMMA ExecutedJoins ==
  ASSUME NEW S, NEW c \in Seq(S), NEW d \in Seq(S), NEW m
  PROVE  Executed(m, c \o d) = Executed(Executed(m, c), d)
PROOF
<1>0. PICK a \in Nat, b \in Nat : a = Len(c) /\ b = Len(d)
  OBVIOUS
<1>1. PICK g : Runs(g, m, c)
  BY <1>0, RunExists
<1>2. PICK h : Runs(h, Executed(m, c), d)
  BY <1>0, RunExists
<1>3. Executed(m, c) = g[a] /\ Executed(Executed(m, c), d) = h[b]
  BY <1>0, <1>1, <1>2, RunsIs
<1>4. /\ Len(c \o d) = a + b
      /\ \A k \in 1 .. a + b : (c \o d)[k] = IF k <= a THEN c[k] ELSE d[k - a]
  BY <1>0, ConcatProperties
<1> DEFINE f == [k \in 0 .. a + b |-> IF k <= a THEN g[k] ELSE h[k - a]]
<1>5. Runs(f, m, c \o d)
  <2>1. f[0] = m
    BY <1>0, <1>1 DEF Runs
  <2>2. ASSUME NEW k \in 1 .. a + b PROVE f[k] = Exec(f[k - 1], (c \o d)[k])
    <3>1. k \in 0 .. a + b /\ k - 1 \in 0 .. a + b
      OBVIOUS
    <3>2. CASE k <= a
      <4>1. f[k] = g[k] /\ f[k - 1] = g[k - 1] /\ k \in 1 .. a /\ (c \o d)[k] = c[k]
        BY <1>4, <3>1, <3>2
      <4> HIDE DEF f
      <4> QED
        BY <1>0, <1>1, <4>1 DEF Runs
    <3>3. CASE k = a + 1
      <4>1. f[k] = h[1] /\ f[k - 1] = g[a] /\ (c \o d)[k] = d[1] /\ 1 \in 1 .. b
        BY <1>4, <3>1, <3>3
      <4>2. h[1] = Exec(h[0], d[1]) /\ h[0] = g[a]
        BY <1>0, <1>2, <1>3, <4>1 DEF Runs
      <4> HIDE DEF f
      <4> QED
        BY <4>1, <4>2
    <3>4. CASE k > a + 1
      <4>1. /\ f[k] = h[k - a] /\ f[k - 1] = h[(k - a) - 1] /\ (c \o d)[k] = d[k - a]
            /\ k - a \in 1 .. b
        BY <1>4, <3>1, <3>4
      <4> HIDE DEF f
      <4> QED
        BY <1>0, <1>2, <4>1 DEF Runs
    <3>5. k <= a \/ k = a + 1 \/ k > a + 1
      OBVIOUS
    <3> QED
      BY <3>2, <3>3, <3>4, <3>5
  <2> HIDE DEF f
  <2> QED
    BY <1>4, <2>1, <2>2 DEF Runs
<1>6. Executed(m, c \o d) = f[a + b]
  <2>1. Len(c \o d) \in Nat
    BY <1>4
  <2> HIDE DEF f
  <2> QED
    BY <1>4, <1>5, <2>1, RunsIs
<1>7. f[a + b] = h[b]
  <2>1. CASE b = 0
    BY <1>0, <1>2, <1>3, <2>1 DEF Runs
  <2>2. CASE b # 0
    BY <2>2
  <2> QED
    BY <2>1, <2>2
<1> QED
  BY <1>3, <1>6, <1>7

(***************************************************************************)
(* The frame.                                                              *)
(***************************************************************************)
Registers == {"rax", "rcx", "rsp", "rbp", "returned", "mem"}

\* A write changes one word of memory.
LEMMA Written ==
  ASSUME NEW m, DOMAIN m = Registers, NEW w, NEW v
  PROVE  LET n == Write(m, w, v)
         IN  /\ DOMAIN n = Registers
             /\ n.rax = m.rax /\ n.rcx = m.rcx /\ n.rsp = m.rsp /\ n.rbp = m.rbp
             /\ n.returned = m.returned
             /\ \A a : Read(n, a) = IF a = w THEN v ELSE Read(m, a)
PROOF
<1> DEFINE f == [a \in DOMAIN m.mem \cup {w} |-> IF a = w THEN v ELSE m.mem[a]]
           n == [m EXCEPT !.mem = f]
<1>1. Write(m, w, v) = n
  BY DEF Write
<1>2. DOMAIN n = Registers /\ n.mem = f
      /\ n.rax = m.rax /\ n.rcx = m.rcx /\ n.rsp = m.rsp /\ n.rbp = m.rbp
      /\ n.returned = m.returned
  <2> HIDE DEF f
  <2> QED
    BY DEF Registers
<1>3. \A a : Read(n, a) = IF a = w THEN v ELSE Read(m, a)
  <2> HIDE DEF n
  <2>1. DOMAIN f = DOMAIN m.mem \cup {w}
    OBVIOUS
  <2>2. \A a \in DOMAIN f : f[a] = IF a = w THEN v ELSE m.mem[a]
    OBVIOUS
  <2> HIDE DEF f
  <2> QED
    BY <1>2, <2>1, <2>2 DEF Read
<1> QED
  BY <1>1, <1>2, <1>3

\* The words of the frame: locals below rbp, operands below the locals.
LocalWord(s)   == Entry - 2 - s
OperandWord(i) == Entry - 1 - JIT_FRAME_WORDS - i

\* The native frame shows the operands stk and the locals of `init`.
Shows(m, stk, loc, init) ==
  /\ DOMAIN m = Registers
  /\ stk \in Seq(I32)
  /\ m.rbp = Entry - 1
  /\ m.rsp = OperandWord(Len(stk))
  /\ Read(m, Entry) = Address /\ Read(m, Entry - 1) = Caller
  /\ \A i \in 1 .. Len(stk) : Read(m, OperandWord(i)) = stk[i]
  /\ init \subseteq 0 .. JIT_FRAME_WORDS - 1
  /\ \A s \in init : loc[s + 1] \in I32 /\ Read(m, LocalWord(s)) = loc[s + 1]

\* Locals may be forgotten.
LEMMA ShowsFewer ==
  ASSUME NEW m, NEW stk, NEW loc, NEW init, Shows(m, stk, loc, init),
         NEW fewer, fewer \subseteq init
  PROVE  Shows(m, stk, loc, fewer)
BY DEF Shows

\* A change of rax and rcx only.
LEMMA ShowsStill ==
  ASSUME NEW m, NEW n, NEW stk, NEW loc, NEW init, Shows(m, stk, loc, init),
         DOMAIN n = Registers, n.rsp = m.rsp, n.rbp = m.rbp, n.mem = m.mem
  PROVE  Shows(n, stk, loc, init)
BY DEF Shows, Read

\* The operand in rax is pushed.
LEMMA PushShows ==
  ASSUME NEW m, NEW stk, NEW loc, NEW init, Shows(m, stk, loc, init), m.rax \in I32
  PROVE  /\ Shows(Exec(m, Push), Append(stk, m.rax), loc, init)
         /\ Exec(m, Push).rax = m.rax
PROOF
<1>0. DOMAIN m = Registers /\ stk \in Seq(I32) /\ JIT_FRAME_WORDS \in Nat
  BY FrameAssumption DEF Shows
<1>1. PICK k \in Nat : k = Len(stk)
  BY <1>0
<1>2. PICK w : w = m.rsp - 1
  OBVIOUS
<1>3. m.rsp = OperandWord(k) /\ w = OperandWord(k + 1) /\ m.rsp \in Int /\ w \in Int
  BY <1>0, <1>1, <1>2 DEF Shows, OperandWord, Entry
<1>4. PICK l : l = [m EXCEPT !.rsp = w]
  OBVIOUS
<1>5. /\ DOMAIN l = Registers /\ l.mem = m.mem /\ l.rsp = w /\ l.rbp = m.rbp
      /\ l.rax = m.rax
  BY <1>0, <1>4 DEF Registers
<1>6. PICK n : n = Exec(m, Push)
  OBVIOUS
<1>7. n = Write(l, w, m.rax)
  <2>1. X("push", "rax", 0).op = "push" /\ X("push", "rax", 0).reg = "rax"
    BY DEF X
  <2>2. n = Write([m EXCEPT !.rsp = @ - 1], m.rsp - 1, m["rax"])
    BY <1>6, <2>1 DEF Exec, Push, Comparisons
  <2>3. [m EXCEPT !.rsp = @ - 1] = l
    BY <1>2, <1>4
  <2> QED
    BY <1>2, <2>2, <2>3
<1>8. /\ DOMAIN n = Registers /\ n.rsp = w /\ n.rbp = m.rbp /\ n.rax = m.rax
      /\ \A a : Read(n, a) = IF a = w THEN m.rax ELSE Read(m, a)
  BY <1>5, <1>7, Written DEF Read
<1>9. PICK s : s = Append(stk, m.rax)
  OBVIOUS
<1>10. /\ s \in Seq(I32) /\ Len(s) = k + 1 /\ s[k + 1] = m.rax
       /\ \A i \in 1 .. k : s[i] = stk[i]
  BY <1>0, <1>1, <1>9, AppendProperties
<1>11. Read(n, Entry) = Address /\ Read(n, Entry - 1) = Caller
  <2>1. w # Entry /\ w # Entry - 1
    BY <1>0, <1>3 DEF OperandWord, Entry
  <2> QED
    BY <1>8, <2>1 DEF Shows
<1>12. ASSUME NEW i \in 1 .. k + 1 PROVE Read(n, OperandWord(i)) = s[i]
  <2>1. CASE i = k + 1
    BY <1>3, <1>8, <1>10, <2>1
  <2>2. CASE i # k + 1
    <3>1. i \in 1 .. k /\ OperandWord(i) # w
      BY <1>0, <1>3, <2>2 DEF OperandWord, Entry
    <3> QED
      BY <1>1, <1>8, <1>10, <3>1 DEF Shows
  <2> QED
    BY <2>1, <2>2
<1>13. ASSUME NEW x \in init PROVE Read(n, LocalWord(x)) = loc[x + 1] /\ loc[x + 1] \in I32
  <2>1. x \in 0 .. JIT_FRAME_WORDS - 1
    BY DEF Shows
  <2>2. LocalWord(x) # w
    BY <1>0, <1>3, <2>1 DEF OperandWord, LocalWord, Entry
  <2> QED
    BY <1>8, <2>2 DEF Shows
<1>14. Shows(n, s, loc, init)
  <2>1. init \subseteq 0 .. JIT_FRAME_WORDS - 1 /\ n.rbp = Entry - 1
    BY <1>8 DEF Shows
  <2> QED
    BY <1>3, <1>8, <1>10, <1>11, <1>12, <1>13, <2>1 DEF Shows
<1> QED
  BY <1>6, <1>8, <1>9, <1>14

\* The operand on top is popped into rax or rcx.
LEMMA PopShows ==
  ASSUME NEW m, NEW stk, NEW loc, NEW init, Shows(m, stk, loc, init), Len(stk) >= 1,
         NEW r \in {"rax", "rcx"}
  PROVE  LET n == Exec(m, X("pop", r, 0))
         IN  /\ Shows(n, SubSeq(stk, 1, Len(stk) - 1), loc, init)
             /\ n[r] = stk[Len(stk)]
             /\ r = "rax" => n.rcx = m.rcx
             /\ r = "rcx" => n.rax = m.rax
PROOF
<1>0. DOMAIN m = Registers /\ stk \in Seq(I32) /\ JIT_FRAME_WORDS \in Nat
  BY FrameAssumption DEF Shows
<1>1. PICK k \in Nat : k = Len(stk)
  BY <1>0
<1>2. PICK v : v = Read(m, m.rsp)
  OBVIOUS
<1>3. v = stk[k] /\ m.rsp = OperandWord(k) /\ k >= 1 /\ m.rsp + 1 = OperandWord(k - 1)
  <2>1. m.rsp = OperandWord(k) /\ k \in 1 .. Len(stk)
    BY <1>1 DEF Shows
  <2> QED
    BY <1>0, <1>2, <2>1 DEF Shows, OperandWord, Entry
<1>4. PICK n : n = Exec(m, X("pop", r, 0))
  OBVIOUS
<1>5. n = [m EXCEPT ![r] = v, !["rsp"] = @ + 1]
  <2>1. X("pop", r, 0).op = "pop" /\ X("pop", r, 0).reg = r
    BY DEF X
  <2> QED
    BY <1>2, <1>4, <2>1 DEF Exec, Comparisons
<1>6. /\ DOMAIN n = Registers /\ n.mem = m.mem /\ n.rsp = m.rsp + 1 /\ n.rbp = m.rbp
      /\ n[r] = v /\ (r = "rax" => n.rcx = m.rcx) /\ (r = "rcx" => n.rax = m.rax)
  BY <1>0, <1>5 DEF Registers
<1>7. PICK s : s = SubSeq(stk, 1, Len(stk) - 1)
  OBVIOUS
<1>8. s \in Seq(I32) /\ Len(s) = k - 1 /\ \A i \in 1 .. k - 1 : s[i] = stk[i]
  BY <1>0, <1>1, <1>3, <1>7
<1>9. Shows(n, s, loc, init)
  <2>1. \A a : Read(n, a) = Read(m, a)
    BY <1>6 DEF Read
  <2>2. \A i \in 1 .. k - 1 : Read(n, OperandWord(i)) = s[i]
    BY <1>1, <1>8, <2>1 DEF Shows
  <2> QED
    BY <1>3, <1>6, <1>8, <2>1, <2>2 DEF Shows
<1> QED
  BY <1>1, <1>3, <1>4, <1>6, <1>7, <1>9

\* rax alone changes.
WithRax(m, v) == [m EXCEPT !.rax = v]

\* rax is neither an operand nor a local.
LEMMA RaxShows ==
  ASSUME NEW m, NEW stk, NEW loc, NEW init, Shows(m, stk, loc, init), NEW v
  PROVE  LET n == WithRax(m, v)
         IN  Shows(n, stk, loc, init) /\ n.rax = v /\ n.rcx = m.rcx
PROOF
<1>1. PICK n : n = WithRax(m, v)
  OBVIOUS
<1>2. DOMAIN m = Registers
  BY DEF Shows
<1>3. /\ DOMAIN n = Registers /\ n.rax = v /\ n.rcx = m.rcx /\ n.rsp = m.rsp
      /\ n.rbp = m.rbp /\ n.mem = m.mem
  BY <1>1, <1>2 DEF Registers, WithRax
<1> QED
  BY <1>1, <1>3, ShowsStill

\* The instructions that change rax alone, and the one that stores it.
LEMMA RaxEffects ==
  ASSUME NEW m
  PROVE  /\ Exec(m, X("add", "rax", 0)) = WithRax(m, m.rax + m.rcx)
         /\ Exec(m, X("sub", "rax", 0)) = WithRax(m, m.rax - m.rcx)
         /\ Exec(m, X("imul", "rax", 0)) = WithRax(m, m.rax * m.rcx)
         /\ Exec(m, X("neg", "rax", 0)) = WithRax(m, -m.rax)
         /\ Exec(m, X("movsxd_32", "rax", 0)) = WithRax(m, normalize_i32(m.rax))
         /\ Exec(m, X("test_sete", "rax", 0)) = WithRax(m, Bool(m.rax = 0))
         /\ \A op \in Comparisons :
              Exec(m, X(op, "rax", 0)) = WithRax(m, BinaryResult(op, m.rax, m.rcx))
         /\ \A i : Exec(m, X("mov_imm32", "rax", i)) = WithRax(m, i)
         /\ \A i : Exec(m, X("mov_load", "rax", i)) = WithRax(m, Read(m, m.rbp + i))
         /\ \A i : Exec(m, X("mov_store", "rax", i)) = Write(m, m.rbp + i, m.rax)
PROOF
<1>0. \A op, i : X(op, "rax", i).op = op /\ X(op, "rax", i).reg = "rax"
                 /\ X(op, "rax", i).imm = i
  BY DEF X
<1>1. Exec(m, X("add", "rax", 0)) = WithRax(m, m.rax + m.rcx)
  BY <1>0 DEF Exec, Comparisons, WithRax
<1>2. Exec(m, X("sub", "rax", 0)) = WithRax(m, m.rax - m.rcx)
  BY <1>0 DEF Exec, Comparisons, WithRax
<1>3. Exec(m, X("imul", "rax", 0)) = WithRax(m, m.rax * m.rcx)
  BY <1>0 DEF Exec, Comparisons, WithRax
<1>4. Exec(m, X("neg", "rax", 0)) = WithRax(m, -m.rax)
  BY <1>0 DEF Exec, Comparisons, WithRax
<1>5. Exec(m, X("movsxd_32", "rax", 0)) = WithRax(m, normalize_i32(m.rax))
  BY <1>0 DEF Exec, Comparisons, WithRax
<1>6. Exec(m, X("test_sete", "rax", 0)) = WithRax(m, Bool(m.rax = 0))
  BY <1>0 DEF Exec, Comparisons, WithRax
<1>7. ASSUME NEW op \in Comparisons
      PROVE  Exec(m, X(op, "rax", 0)) = WithRax(m, BinaryResult(op, m.rax, m.rcx))
  BY <1>0 DEF Exec, Comparisons, WithRax
<1>8. ASSUME NEW i PROVE Exec(m, X("mov_imm32", "rax", i)) = WithRax(m, i)
  BY <1>0 DEF Exec, Comparisons, WithRax
<1>9. ASSUME NEW i
      PROVE  Exec(m, X("mov_load", "rax", i)) = WithRax(m, Read(m, m.rbp + i))
  BY <1>0 DEF Exec, Comparisons, WithRax
<1>10. ASSUME NEW i PROVE Exec(m, X("mov_store", "rax", i)) = Write(m, m.rbp + i, m.rax)
  <2>1. PICK n : n = Write(m, m.rbp + i, m.rax)
    OBVIOUS
  <2>2. X("mov_store", "rax", i).op = "mov_store" /\ X("mov_store", "rax", i).imm = i
    BY <1>0
  <2>3. Exec(m, X("mov_store", "rax", i)) = n
    BY <2>1, <2>2 DEF Exec, Comparisons, WithRax
  <2> QED
    BY <2>1, <2>3
<1> QED
  BY <1>1, <1>2, <1>3, <1>4, <1>5, <1>6, <1>7, <1>8, <1>9, <1>10

\* The instructions of prologue and epilogue.
LEMMA FrameEffects ==
  ASSUME NEW m
  PROVE  /\ Exec(m, X("leave", "rsp", 0)) = [m EXCEPT !.rsp = m.rbp]
         /\ Exec(m, X("pop", "rbp", 0)) = [m EXCEPT !["rbp"] = Read(m, m.rsp), !["rsp"] = @ + 1]
         /\ Exec(m, X("ret", "rsp", 0)) =
              [m EXCEPT !.returned = (Read(m, m.rsp) = Address), !.rsp = @ + 1]
         /\ Exec(m, X("push", "rbp", 0)) = Write([m EXCEPT !.rsp = @ - 1], m.rsp - 1, m.rbp)
         /\ Exec(m, X("enter", "rbp", 0)) = [m EXCEPT !.rbp = m.rsp]
         /\ \A i : Exec(m, X("sub_imm", "rsp", i)) = [m EXCEPT !.rsp = @ - i]
PROOF
<1>1. Exec(m, X("leave", "rsp", 0)) = [m EXCEPT !.rsp = m.rbp]
  <2>1. PICK x : x = X("leave", "rsp", 0)
    OBVIOUS
  <2>2. x.op = "leave"
    BY <2>1 DEF X
  <2>3. Exec(m, x) = [m EXCEPT !.rsp = m.rbp]
    BY <2>2 DEF Exec, Comparisons
  <2> QED
    BY <2>1, <2>3
<1>2. Exec(m, X("pop", "rbp", 0)) = [m EXCEPT !["rbp"] = Read(m, m.rsp), !["rsp"] = @ + 1]
  <2>1. PICK x : x = X("pop", "rbp", 0)
    OBVIOUS
  <2>2. x.op = "pop" /\ x.reg = "rbp"
    BY <2>1 DEF X
  <2>3. Exec(m, x) = [m EXCEPT !["rbp"] = Read(m, m.rsp), !["rsp"] = @ + 1]
    BY <2>2 DEF Exec, Comparisons
  <2> QED
    BY <2>1, <2>3
<1>3. Exec(m, X("ret", "rsp", 0)) =
        [m EXCEPT !.returned = (Read(m, m.rsp) = Address), !.rsp = @ + 1]
  <2>1. PICK x : x = X("ret", "rsp", 0)
    OBVIOUS
  <2>2. x.op = "ret"
    BY <2>1 DEF X
  <2>3. Exec(m, x) = [m EXCEPT !.returned = (Read(m, m.rsp) = Address), !.rsp = @ + 1]
    BY <2>2 DEF Exec, Comparisons
  <2> QED
    BY <2>1, <2>3
<1>4. Exec(m, X("push", "rbp", 0)) = Write([m EXCEPT !.rsp = @ - 1], m.rsp - 1, m.rbp)
  <2>1. PICK x : x = X("push", "rbp", 0)
    OBVIOUS
  <2>2. x.op = "push" /\ x.reg = "rbp"
    BY <2>1 DEF X
  <2>3. Exec(m, x) = Write([m EXCEPT !.rsp = @ - 1], m.rsp - 1, m["rbp"])
    BY <2>2 DEF Exec, Comparisons
  <2> QED
    BY <2>1, <2>3
<1>5. Exec(m, X("enter", "rbp", 0)) = [m EXCEPT !.rbp = m.rsp]
  <2>1. PICK x : x = X("enter", "rbp", 0)
    OBVIOUS
  <2>2. x.op = "enter"
    BY <2>1 DEF X
  <2>3. Exec(m, x) = [m EXCEPT !.rbp = m.rsp]
    BY <2>2 DEF Exec, Comparisons
  <2> QED
    BY <2>1, <2>3
<1>6. ASSUME NEW i PROVE Exec(m, X("sub_imm", "rsp", i)) = [m EXCEPT !.rsp = @ - i]
  <2>1. PICK x : x = X("sub_imm", "rsp", i)
    OBVIOUS
  <2>2. x.op = "sub_imm" /\ x.imm = i
    BY <2>1 DEF X
  <2>3. Exec(m, x) = [m EXCEPT !.rsp = @ - i]
    BY <2>2 DEF Exec, Comparisons
  <2> QED
    BY <2>1, <2>3
<1> QED
  BY <1>1, <1>2, <1>3, <1>4, <1>5, <1>6

\* The word of an initialised local is read.
LEMMA LoadShows ==
  ASSUME NEW m, NEW stk, NEW loc, NEW init, Shows(m, stk, loc, init), NEW s \in init
  PROVE  LET n == Exec(m, X("mov_load", "rax", LocalOffset(s)))
         IN  Shows(n, stk, loc, init) /\ n.rax = loc[s + 1] /\ n.rax \in I32
PROOF
<1>1. s \in Int /\ m.rbp + LocalOffset(s) = LocalWord(s)
  BY FrameAssumption DEF Shows, LocalOffset, LocalWord, Entry
<1>2. Read(m, m.rbp + LocalOffset(s)) = loc[s + 1] /\ loc[s + 1] \in I32
  BY <1>1 DEF Shows
<1>3. PICK v : v = Read(m, m.rbp + LocalOffset(s))
  OBVIOUS
<1>4. Exec(m, X("mov_load", "rax", LocalOffset(s))) = WithRax(m, v)
  BY <1>3, RaxEffects
<1> QED
  BY <1>2, <1>3, <1>4, RaxShows

\* The word of a local is written; no other local or operand is in it.
LEMMA StoreShows ==
  ASSUME NEW m, NEW stk, NEW loc, NEW init, Shows(m, stk, loc, init), m.rax \in I32,
         NEW s \in 0 .. JIT_FRAME_WORDS - 1, NEW after, after[s + 1] = m.rax,
         \A x \in init : x # s => after[x + 1] = loc[x + 1]
  PROVE  Shows(Exec(m, X("mov_store", "rax", LocalOffset(s))), stk, after, init \cup {s})
PROOF
<1>0. DOMAIN m = Registers /\ JIT_FRAME_WORDS \in Nat /\ stk \in Seq(I32)
  BY FrameAssumption DEF Shows
<1>1. PICK w : w = LocalWord(s)
  OBVIOUS
<1>2. w \in Int /\ m.rbp + LocalOffset(s) = w
  BY <1>0, <1>1 DEF Shows, LocalOffset, LocalWord, Entry
<1>3. PICK n : n = Exec(m, X("mov_store", "rax", LocalOffset(s)))
  OBVIOUS
<1>4. n = Write(m, w, m.rax)
  BY <1>2, <1>3, RaxEffects
<1>5. /\ DOMAIN n = Registers /\ n.rsp = m.rsp /\ n.rbp = m.rbp
      /\ \A a : Read(n, a) = IF a = w THEN m.rax ELSE Read(m, a)
  BY <1>0, <1>4, Written
<1>6. w # Entry /\ w # Entry - 1
  BY <1>0, <1>1 DEF LocalWord, Entry
<1>7. \A i \in 1 .. Len(stk) : OperandWord(i) # w
  BY <1>0, <1>1 DEF LocalWord, OperandWord, Entry
<1>8. \A x \in init \cup {s} : x \in 0 .. JIT_FRAME_WORDS - 1
  BY DEF Shows
<1>9. ASSUME NEW x \in init \cup {s}
      PROVE  after[x + 1] \in I32 /\ Read(n, LocalWord(x)) = after[x + 1]
  <2>1. CASE x = s
    BY <1>1, <1>5, <2>1
  <2>2. CASE x # s
    <3>1. LocalWord(x) # w
      BY <1>1, <1>8, <2>2 DEF LocalWord, Entry
    <3>2. x \in init /\ after[x + 1] = loc[x + 1]
      BY <2>2
    <3> QED
      BY <1>5, <3>1, <3>2 DEF Shows
  <2> QED
    BY <2>1, <2>2
<1>10. Shows(n, stk, after, init \cup {s})
  BY <1>5, <1>6, <1>7, <1>8, <1>9 DEF Shows
<1> QED
  BY <1>3, <1>10

(***************************************************************************)
(* compile_instruction.                                                    *)
(***************************************************************************)

\* Code of one to five instructions.
LEMMA RunOfOne ==
  ASSUME NEW m, NEW a
  PROVE  Executed(m, <<a>>) = Exec(m, a)
PROOF
<1>1. PICK k : k = <<a>>
  OBVIOUS
<1>2. Len(k) = 1 /\ Len(k) \in Nat
      /\ k[1] = a
  BY <1>1
<1>3. PICK g : Runs(g, m, k)
  BY <1>2, RunExists
<1>4. Executed(m, k) = g[1]
  BY <1>2, <1>3, RunsIs
<1>5. g[0] = m /\ g[1] = Exec(g[0], k[1])
  BY <1>2, <1>3 DEF Runs
<1> QED
  BY <1>1, <1>2, <1>4, <1>5

LEMMA RunOfTwo ==
  ASSUME NEW m, NEW a, NEW b
  PROVE  Executed(m, <<a, b>>) = Exec(Exec(m, a), b)
PROOF
<1>1. PICK k : k = <<a, b>>
  OBVIOUS
<1>2. Len(k) = 2 /\ Len(k) \in Nat
      /\ k[1] = a /\ k[2] = b
  BY <1>1
<1>3. PICK g : Runs(g, m, k)
  BY <1>2, RunExists
<1>4. Executed(m, k) = g[2]
  BY <1>2, <1>3, RunsIs
<1>5. g[0] = m /\ g[1] = Exec(g[0], k[1]) /\ g[2] = Exec(g[1], k[2])
  BY <1>2, <1>3 DEF Runs
<1> QED
  BY <1>1, <1>2, <1>4, <1>5

LEMMA RunOfThree ==
  ASSUME NEW m, NEW a, NEW b, NEW c
  PROVE  Executed(m, <<a, b, c>>) = Exec(Exec(Exec(m, a), b), c)
PROOF
<1>1. PICK k : k = <<a, b, c>>
  OBVIOUS
<1>2. Len(k) = 3 /\ Len(k) \in Nat
      /\ k[1] = a /\ k[2] = b /\ k[3] = c
  BY <1>1
<1>3. PICK g : Runs(g, m, k)
  BY <1>2, RunExists
<1>4. Executed(m, k) = g[3]
  BY <1>2, <1>3, RunsIs
<1>5. /\ g[0] = m /\ g[1] = Exec(g[0], k[1]) /\ g[2] = Exec(g[1], k[2])
      /\ g[3] = Exec(g[2], k[3])
  BY <1>2, <1>3 DEF Runs
<1> QED
  BY <1>1, <1>2, <1>4, <1>5

LEMMA RunOfFour ==
  ASSUME NEW m, NEW a, NEW b, NEW c, NEW d
  PROVE  Executed(m, <<a, b, c, d>>) = Exec(Exec(Exec(Exec(m, a), b), c), d)
PROOF
<1>1. PICK k : k = <<a, b, c, d>>
  OBVIOUS
<1>2. Len(k) = 4 /\ Len(k) \in Nat
      /\ k[1] = a /\ k[2] = b /\ k[3] = c /\ k[4] = d
  BY <1>1
<1>3. PICK g : Runs(g, m, k)
  BY <1>2, RunExists
<1>4. Executed(m, k) = g[4]
  BY <1>2, <1>3, RunsIs
<1>5. /\ g[0] = m /\ g[1] = Exec(g[0], k[1]) /\ g[2] = Exec(g[1], k[2])
      /\ g[3] = Exec(g[2], k[3]) /\ g[4] = Exec(g[3], k[4])
  BY <1>2, <1>3 DEF Runs
<1> QED
  BY <1>1, <1>2, <1>4, <1>5

LEMMA RunOfFive ==
  ASSUME NEW m, NEW a, NEW b, NEW c, NEW d, NEW e
  PROVE  Executed(m, <<a, b, c, d, e>>) = Exec(Exec(Exec(Exec(Exec(m, a), b), c), d), e)
PROOF
<1>1. PICK k : k = <<a, b, c, d, e>>
  OBVIOUS
<1>2. Len(k) = 5 /\ Len(k) \in Nat
      /\ k[1] = a /\ k[2] = b /\ k[3] = c /\ k[4] = d /\ k[5] = e
  BY <1>1
<1>3. PICK g : Runs(g, m, k)
  BY <1>2, RunExists
<1>4. Executed(m, k) = g[5]
  BY <1>2, <1>3, RunsIs
<1>5. /\ g[0] = m /\ g[1] = Exec(g[0], k[1]) /\ g[2] = Exec(g[1], k[2])
      /\ g[3] = Exec(g[2], k[3]) /\ g[4] = Exec(g[3], k[4]) /\ g[5] = Exec(g[4], k[5])
  BY <1>2, <1>3 DEF Runs
<1> QED
  BY <1>1, <1>2, <1>4, <1>5

\* What compile_instruction emits, instruction by instruction.
LEMMA EmittedCode ==
  ASSUME NEW ins
  PROVE  LET code == compile_instruction(ins)
             rax(op) == X(op, "rax", 0)
         IN  /\ ins.opcode = "LoadConst" => code = <<X("mov_imm32", "rax", ins.arg1), Push>>
             /\ ins.opcode = "LoadLocal" =>
                  code = <<X("mov_load", "rax", LocalOffset(ins.arg1)), Push>>
             /\ ins.opcode = "StoreLocal" =>
                  code = <<PopLeft, X("mov_store", "rax", LocalOffset(ins.arg1))>>
             /\ ins.opcode = "Add" =>
                  code = <<PopRight, PopLeft, rax("add"), rax("movsxd_32"), Push>>
             /\ ins.opcode = "Sub" =>
                  code = <<PopRight, PopLeft, rax("sub"), rax("movsxd_32"), Push>>
             /\ ins.opcode = "Mul" =>
                  code = <<PopRight, PopLeft, rax("imul"), rax("movsxd_32"), Push>>
             /\ ins.opcode = "Neg" => code = <<PopLeft, rax("neg"), Push>>
             /\ ins.opcode \in Comparisons =>
                  code = <<PopRight, PopLeft, rax(ins.opcode), Push>>
             /\ ins.opcode = "Not" => code = <<PopLeft, rax("test_sete"), Push>>
             /\ ins.opcode = "Return" =>
                  code = <<PopLeft, X("leave", "rsp", 0), X("pop", "rbp", 0), X("ret", "rsp", 0)>>
             /\ ins.opcode = "Pop" => code = <<PopLeft>>
             /\ ins.opcode = "Dup" => code = <<PopLeft, Push, Push>>
PROOF
<1>1. ASSUME NEW a, NEW b, NEW c, NEW d, NEW e
      PROVE  <<a, b, c>> \o <<d>> \o <<e>> = <<a, b, c, d, e>>
  <2>1. PICK u, v, w : u = <<a, b, c>> /\ v = <<d>> /\ w = <<e>>
    OBVIOUS
  <2>2. PICK S : S = {a, b, c, d, e}
    OBVIOUS
  <2>3. u \in Seq(S) /\ v \in Seq(S) /\ w \in Seq(S) /\ <<a, b, c, d, e>> \in Seq(S)
    BY <2>1, <2>2
  <2>4. Len(u) = 3 /\ Len(v) = 1 /\ Len(w) = 1
    BY <2>1
  <2>5. PICK z : z = u \o v
    OBVIOUS
  <2>6. z \in Seq(S) /\ Len(z) = 4 /\ z[1] = a /\ z[2] = b /\ z[3] = c /\ z[4] = d
    BY <2>1, <2>3, <2>4, <2>5, ConcatProperties
  <2>7. PICK y : y = z \o w
    OBVIOUS
  <2>8. /\ y \in Seq(S) /\ Len(y) = 5
        /\ y[1] = a /\ y[2] = b /\ y[3] = c /\ y[4] = d /\ y[5] = e
    <3>1. /\ y \in Seq(S) /\ Len(y) = 5
          /\ \A i \in 1 .. 5 : y[i] = IF i <= 4 THEN z[i] ELSE w[i - 4]
      <4>1. z \in Seq(S) /\ w \in Seq(S) /\ Len(z) = 4 /\ Len(w) = 1
        BY <2>3, <2>4, <2>6
      <4>2. /\ y \in Seq(S) /\ Len(y) = Len(z) + Len(w)
            /\ \A i \in 1 .. Len(z) + Len(w) : y[i] = IF i <= Len(z) THEN z[i] ELSE w[i - Len(z)]
        BY ONLY <2>7, <4>1, ConcatProperties
      <4> QED
        BY <4>1, <4>2
    <3>2. w[1] = e
      BY <2>1
    <3> QED
      BY <2>6, <3>1, <3>2
  <2>9. y = <<a, b, c, d, e>>
    BY <2>3, <2>8, SeqEqual
  <2> QED
    BY <2>1, <2>5, <2>7, <2>9
<1>2. ASSUME NEW a, NEW b, NEW c, NEW d PROVE <<a>> \o <<b, c, d>> = <<a, b, c, d>>
  <2>1. PICK u, v : u = <<a>> /\ v = <<b, c, d>>
    OBVIOUS
  <2>2. PICK S : S = {a, b, c, d}
    OBVIOUS
  <2>3. u \in Seq(S) /\ v \in Seq(S) /\ <<a, b, c, d>> \in Seq(S)
    BY <2>1, <2>2
  <2>4. Len(u) = 1 /\ Len(v) = 3
    BY <2>1
  <2>5. PICK y : y = u \o v
    OBVIOUS
  <2>6. y \in Seq(S) /\ Len(y) = 4 /\ y[1] = a /\ y[2] = b /\ y[3] = c /\ y[4] = d
    BY <2>1, <2>3, <2>4, <2>5, ConcatProperties
  <2>7. y = <<a, b, c, d>>
    BY <2>3, <2>6, SeqEqual
  <2> QED
    BY <2>1, <2>5, <2>7
<1>3. ASSUME ins.opcode \in {"Add", "Sub", "Mul"}
      PROVE  compile_instruction(ins) =
               <<PopRight, PopLeft, X(Mnemonic[ins.opcode], "rax", 0),
                 X("movsxd_32", "rax", 0), Push>>
  <2>1. compile_instruction(ins) =
          <<PopRight, PopLeft, X(Mnemonic[ins.opcode], "rax", 0)>>
            \o Narrowed(ins.opcode) \o <<Push>>
    BY <1>3 DEF compile_instruction, Comparisons
  <2> QED
    BY <1>1, <2>1 DEF Narrowed
<1>4. Mnemonic["Add"] = "add" /\ Mnemonic["Sub"] = "sub" /\ Mnemonic["Mul"] = "imul"
  BY DEF Mnemonic
<1>5. ASSUME ins.opcode = "Return"
      PROVE  compile_instruction(ins) =
               <<PopLeft, X("leave", "rsp", 0), X("pop", "rbp", 0), X("ret", "rsp", 0)>>
  <2>1. compile_instruction(ins) = <<PopLeft>> \o emit_epilogue
    BY <1>5 DEF compile_instruction, Comparisons
  <2> QED
    BY <1>2, <2>1 DEF emit_epilogue
<1>6. ins.opcode \in Comparisons =>
        compile_instruction(ins) = <<PopRight, PopLeft, X(ins.opcode, "rax", 0), Push>>
  BY DEF compile_instruction, Comparisons
<1>7. /\ ins.opcode = "LoadConst" =>
           compile_instruction(ins) = <<X("mov_imm32", "rax", ins.arg1), Push>>
      /\ ins.opcode = "LoadLocal" =>
           compile_instruction(ins) = <<X("mov_load", "rax", LocalOffset(ins.arg1)), Push>>
      /\ ins.opcode = "StoreLocal" =>
           compile_instruction(ins) = <<PopLeft, X("mov_store", "rax", LocalOffset(ins.arg1))>>
  BY DEF compile_instruction, Comparisons
<1>8. /\ ins.opcode = "Neg" =>
           compile_instruction(ins) = <<PopLeft, X("neg", "rax", 0), Push>>
      /\ ins.opcode = "Not" =>
           compile_instruction(ins) = <<PopLeft, X("test_sete", "rax", 0), Push>>
      /\ ins.opcode = "Pop" => compile_instruction(ins) = <<PopLeft>>
      /\ ins.opcode = "Dup" => compile_instruction(ins) = <<PopLeft, Push, Push>>
  BY DEF compile_instruction, Comparisons
<1> QED
  BY <1>3, <1>4, <1>5, <1>6, <1>7, <1>8

\* Behind an instruction that pushes v.
LEMMA PushedShows ==
  ASSUME NEW m, NEW stk, NEW loc, NEW init, Shows(m, stk, loc, init),
         NEW v \in I32, m.rax = v
  PROVE  Shows(Exec(m, Push), Append(stk, v), loc, init)
BY PushShows

\* The two pops in front of a binary operation.
LEMMA OperandsShow ==
  ASSUME NEW m, NEW stk, NEW loc, NEW init, Shows(m, stk, loc, init), Len(stk) >= 2
  PROVE  LET n == Exec(Exec(m, PopRight), PopLeft)
         IN  /\ Shows(n, SubSeq(stk, 1, Len(stk) - 2), loc, init)
             /\ n.rax = stk[Len(stk) - 1] /\ n.rcx = stk[Len(stk)]
             /\ n.rax \in I32 /\ n.rcx \in I32
PROOF
<1>1. stk \in Seq(I32)
  BY DEF Shows
<1>2. PICK k \in Nat : k = Len(stk)
  BY <1>1
<1>3. PICK l : l = Exec(m, PopRight)
  OBVIOUS
<1>4. PICK s : s = SubSeq(stk, 1, Len(stk) - 1)
  OBVIOUS
<1>5. Shows(l, s, loc, init) /\ l.rcx = stk[k]
  <2>1. Len(stk) >= 1
    BY <1>2
  <2> QED
    BY <1>2, <1>3, <1>4, <2>1, PopShows DEF PopRight
<1>6. s \in Seq(I32) /\ Len(s) = k - 1 /\ s[k - 1] = stk[k - 1]
  BY <1>1, <1>2, <1>4
<1>7. SubSeq(s, 1, Len(s) - 1) = SubSeq(stk, 1, k - 2)
  <2>1. PICK x, y : x = SubSeq(s, 1, Len(s) - 1) /\ y = SubSeq(stk, 1, k - 2)
    OBVIOUS
  <2>2. x \in Seq(I32) /\ Len(x) = k - 2 /\ \A i \in 1 .. k - 2 : x[i] = s[i]
    BY <1>2, <1>6, <2>1
  <2>3. y \in Seq(I32) /\ Len(y) = k - 2 /\ \A i \in 1 .. k - 2 : y[i] = stk[i]
    BY <1>1, <1>2, <2>1
  <2>4. \A i \in 1 .. k - 2 : s[i] = stk[i]
    BY <1>1, <1>2, <1>4
  <2>5. x = y
    BY <2>2, <2>3, <2>4, SeqEqual
  <2> QED
    BY <2>1, <2>5
<1>8. PICK n : n = Exec(l, PopLeft)
  OBVIOUS
<1>9. Shows(n, SubSeq(s, 1, Len(s) - 1), loc, init) /\ n.rax = s[Len(s)] /\ n.rcx = l.rcx
  <2>1. Len(s) >= 1
    BY <1>2, <1>6
  <2> QED
    BY <1>5, <1>8, <2>1, PopShows DEF PopLeft
<1>10. stk[k - 1] \in I32 /\ stk[k] \in I32
  BY <1>1, <1>2
<1> QED
  BY <1>2, <1>3, <1>5, <1>6, <1>7, <1>8, <1>9, <1>10

\* The pop in front of an operation on the top.
LEMMA TopShows ==
  ASSUME NEW m, NEW stk, NEW loc, NEW init, Shows(m, stk, loc, init), Len(stk) >= 1
  PROVE  LET n == Exec(m, PopLeft)
         IN  /\ Shows(n, SubSeq(stk, 1, Len(stk) - 1), loc, init)
             /\ n.rax = stk[Len(stk)] /\ n.rax \in I32
PROOF
<1>1. stk \in Seq(I32)
  BY DEF Shows
<1>2. stk[Len(stk)] \in I32
  BY <1>1
<1> QED
  BY <1>2, PopShows DEF PopLeft

\* A change of rax, then a push.
LEMMA ResultShows ==
  ASSUME NEW m, NEW stk, NEW loc, NEW init, Shows(m, stk, loc, init), NEW v \in I32
  PROVE  Shows(Exec(WithRax(m, v), Push), Append(stk, v), loc, init)
PROOF
<1>1. PICK n : n = WithRax(m, v)
  OBVIOUS
<1>2. Shows(n, stk, loc, init) /\ n.rax = v
  BY <1>1, RaxShows
<1> QED
  BY <1>1, <1>2, PushedShows

\* LoadConst and LoadLocal.
LEMMA LoadsShow ==
  ASSUME NEW m, NEW stk, NEW loc, NEW init, Shows(m, stk, loc, init), NEW ins
  PROVE  LET n == Executed(m, compile_instruction(ins))
         IN  /\ ins.opcode = "LoadConst" /\ ins.arg1 \in I32
                  => Shows(n, Append(stk, ins.arg1), loc, init)
             /\ ins.opcode = "LoadLocal" /\ ins.arg1 \in init
                  => Shows(n, Append(stk, loc[ins.arg1 + 1]), loc, init)
PROOF
<1>1. ASSUME ins.opcode = "LoadConst", ins.arg1 \in I32
      PROVE  Shows(Executed(m, compile_instruction(ins)), Append(stk, ins.arg1), loc, init)
  <2>1. Executed(m, compile_instruction(ins)) =
          Exec(Exec(m, X("mov_imm32", "rax", ins.arg1)), Push)
    <3>1. compile_instruction(ins) = <<X("mov_imm32", "rax", ins.arg1), Push>>
      BY <1>1, EmittedCode
    <3> QED
      BY <3>1, RunOfTwo
  <2>2. Exec(m, X("mov_imm32", "rax", ins.arg1)) = WithRax(m, ins.arg1)
    BY RaxEffects
  <2> QED
    BY <1>1, <2>1, <2>2, ResultShows
<1>2. ASSUME ins.opcode = "LoadLocal", ins.arg1 \in init
      PROVE  Shows(Executed(m, compile_instruction(ins)), Append(stk, loc[ins.arg1 + 1]), loc, init)
  <2>1. PICK l : l = Exec(m, X("mov_load", "rax", LocalOffset(ins.arg1)))
    OBVIOUS
  <2>2. Executed(m, compile_instruction(ins)) = Exec(l, Push)
    <3>1. compile_instruction(ins) = <<X("mov_load", "rax", LocalOffset(ins.arg1)), Push>>
      BY <1>2, EmittedCode
    <3> QED
      BY <2>1, <3>1, RunOfTwo
  <2>3. Shows(l, stk, loc, init) /\ l.rax = loc[ins.arg1 + 1] /\ l.rax \in I32
    BY <1>2, <2>1, LoadShows
  <2> QED
    BY <2>2, <2>3, PushShows
<1> QED
  BY <1>1, <1>2

\* StoreLocal.
LEMMA StoresShow ==
  ASSUME NEW m, NEW stk, NEW loc, NEW init, Shows(m, stk, loc, init), NEW ins,
         ins.opcode = "StoreLocal", Len(stk) >= 1,
         ins.arg1 \in 0 .. JIT_FRAME_WORDS - 1, NEW after,
         after[ins.arg1 + 1] = stk[Len(stk)],
         \A x \in init : x # ins.arg1 => after[x + 1] = loc[x + 1]
  PROVE  Shows(Executed(m, compile_instruction(ins)), SubSeq(stk, 1, Len(stk) - 1), after,
               init \cup {ins.arg1})
PROOF
<1>1. PICK l : l = Exec(m, PopLeft)
  OBVIOUS
<1>2. Executed(m, compile_instruction(ins)) =
        Exec(l, X("mov_store", "rax", LocalOffset(ins.arg1)))
  <2>1. compile_instruction(ins) =
          <<PopLeft, X("mov_store", "rax", LocalOffset(ins.arg1))>>
    BY EmittedCode
  <2> QED
    BY <1>1, <2>1, RunOfTwo
<1>3. PICK s : s = SubSeq(stk, 1, Len(stk) - 1)
  OBVIOUS
<1>4. Shows(l, s, loc, init) /\ l.rax = stk[Len(stk)] /\ l.rax \in I32
  BY <1>1, <1>3, TopShows
<1>5. Shows(Exec(l, X("mov_store", "rax", LocalOffset(ins.arg1))), s, after,
            init \cup {ins.arg1})
  BY <1>4, StoreShows
<1> QED
  BY <1>2, <1>3, <1>5

\* A value that fits stays.
LEMMA NormalizeKeeps == ASSUME NEW x \in I32 PROVE normalize_i32(x) = x
PROOF
<1>1. CASE x >= 0
  <2>1. x % (2 * Half) = x
    BY <1>1, LimitsAssumption DEF I32
  <2> QED
    BY <1>1, <2>1, LimitsAssumption DEF I32, normalize_i32
<1>2. CASE x < 0
  <2>1. x % (2 * Half) = x + 2 * Half
    BY <1>2, LimitsAssumption DEF I32
  <2> QED
    BY <1>2, <2>1, LimitsAssumption DEF I32, normalize_i32
<1>3. x \in Int
  BY LimitsAssumption DEF I32
<1> QED
  BY <1>1, <1>2, <1>3

\* Add, Sub, Mul and the comparisons.
LEMMA BinaryShows ==
  ASSUME NEW m, NEW stk, NEW loc, NEW init, Shows(m, stk, loc, init), Len(stk) >= 2,
         NEW ins, ins.opcode \in Comparisons \cup {"Add", "Sub", "Mul"}
  PROVE  LET v == BinaryResult(ins.opcode, stk[Len(stk) - 1], stk[Len(stk)])
         IN  Shows(Executed(m, compile_instruction(ins)),
                   Append(SubSeq(stk, 1, Len(stk) - 2), v), loc, init)
PROOF
<1>1. PICK l : l = Exec(Exec(m, PopRight), PopLeft)
  OBVIOUS
<1>2. PICK s : s = SubSeq(stk, 1, Len(stk) - 2)
  OBVIOUS
<1>3. PICK a, b : a = stk[Len(stk) - 1] /\ b = stk[Len(stk)]
  OBVIOUS
<1>4. Shows(l, s, loc, init) /\ l.rax = a /\ l.rcx = b /\ a \in I32 /\ b \in I32
  BY <1>1, <1>2, <1>3, OperandsShow
<1>5. a \in Int /\ b \in Int
  BY <1>4, LimitsAssumption DEF I32
<1>6. PICK v : v = BinaryResult(ins.opcode, a, b)
  OBVIOUS
<1>7. v \in I32
  BY <1>5, <1>6, BinaryResultRange DEF BinaryOps, Arithmetic, Comparisons
<1>8. Shows(Executed(m, compile_instruction(ins)), Append(s, v), loc, init)
  <2>1. CASE ins.opcode \in Comparisons
    <3>1. compile_instruction(ins) = <<PopRight, PopLeft, X(ins.opcode, "rax", 0), Push>>
      BY <2>1, EmittedCode
    <3>2. Executed(m, compile_instruction(ins)) = Exec(Exec(l, X(ins.opcode, "rax", 0)), Push)
      BY <1>1, <3>1, RunOfFour
    <3>3. Exec(l, X(ins.opcode, "rax", 0)) = WithRax(l, v)
      BY <1>4, <1>6, <2>1, RaxEffects
    <3> QED
      BY <1>4, <1>7, <3>2, <3>3, ResultShows
  <2>2. ASSUME NEW op, NEW w,
               compile_instruction(ins) =
                 <<PopRight, PopLeft, X(op, "rax", 0), X("movsxd_32", "rax", 0), Push>>,
               Exec(l, X(op, "rax", 0)) = WithRax(l, w), v = normalize_i32(w)
        PROVE  Shows(Executed(m, compile_instruction(ins)), Append(s, v), loc, init)
    <3>1. PICK n : n = WithRax(l, w)
      OBVIOUS
    <3>2. Executed(m, compile_instruction(ins)) =
            Exec(Exec(n, X("movsxd_32", "rax", 0)), Push)
      BY <1>1, <2>2, <3>1, RunOfFive
    <3>3. Shows(n, s, loc, init) /\ n.rax = w
      BY <1>4, <3>1, RaxShows
    <3>4. Exec(n, X("movsxd_32", "rax", 0)) = WithRax(n, v)
      BY <2>2, <3>3, RaxEffects
    <3> QED
      BY <1>7, <3>2, <3>3, <3>4, ResultShows
  <2>3. CASE ins.opcode = "Add"
    <3>1. v = normalize_i32(a + b)
      BY <1>6, <2>3 DEF BinaryResult
    <3>2. Exec(l, X("add", "rax", 0)) = WithRax(l, a + b)
      BY <1>4, RaxEffects
    <3>3. compile_instruction(ins) =
            <<PopRight, PopLeft, X("add", "rax", 0), X("movsxd_32", "rax", 0), Push>>
      BY <2>3, EmittedCode
    <3> QED
      BY <2>2, <3>1, <3>2, <3>3
  <2>4. CASE ins.opcode = "Sub"
    <3>1. v = normalize_i32(a - b)
      BY <1>6, <2>4 DEF BinaryResult
    <3>2. Exec(l, X("sub", "rax", 0)) = WithRax(l, a - b)
      BY <1>4, RaxEffects
    <3>3. compile_instruction(ins) =
            <<PopRight, PopLeft, X("sub", "rax", 0), X("movsxd_32", "rax", 0), Push>>
      BY <2>4, EmittedCode
    <3> QED
      BY <2>2, <3>1, <3>2, <3>3
  <2>5. CASE ins.opcode = "Mul"
    <3>1. v = normalize_i32(a * b)
      BY <1>6, <2>5 DEF BinaryResult
    <3>2. Exec(l, X("imul", "rax", 0)) = WithRax(l, a * b)
      BY <1>4, RaxEffects
    <3>3. compile_instruction(ins) =
            <<PopRight, PopLeft, X("imul", "rax", 0), X("movsxd_32", "rax", 0), Push>>
      BY <2>5, EmittedCode
    <3> QED
      BY <2>2, <3>1, <3>2, <3>3
  <2> QED
    BY <2>1, <2>3, <2>4, <2>5
<1> QED
  BY <1>2, <1>3, <1>6, <1>8

\* Neg, of anything but the least i32, and Not.
LEMMA UnaryShows ==
  ASSUME NEW m, NEW stk, NEW loc, NEW init, Shows(m, stk, loc, init), Len(stk) >= 1,
         NEW ins, ins.opcode \in UnaryOps,
         ins.opcode = "Neg" => stk[Len(stk)] # -Half
  PROVE  LET v == UnaryResult(ins.opcode, stk[Len(stk)])
         IN  Shows(Executed(m, compile_instruction(ins)),
                   Append(SubSeq(stk, 1, Len(stk) - 1), v), loc, init)
PROOF
<1>1. PICK l : l = Exec(m, PopLeft)
  OBVIOUS
<1>2. PICK s : s = SubSeq(stk, 1, Len(stk) - 1)
  OBVIOUS
<1>3. PICK a : a = stk[Len(stk)]
  OBVIOUS
<1>4. Shows(l, s, loc, init) /\ l.rax = a /\ a \in I32
  BY <1>1, <1>2, <1>3, TopShows
<1>5. a \in Int
  BY <1>4, LimitsAssumption DEF I32
<1>6. PICK v : v = UnaryResult(ins.opcode, a)
  OBVIOUS
<1>7. v \in I32
  BY <1>5, <1>6, UnaryResultRange
<1>8. Shows(Executed(m, compile_instruction(ins)), Append(s, v), loc, init)
  <2>1. CASE ins.opcode = "Not"
    <3>1. compile_instruction(ins) = <<PopLeft, X("test_sete", "rax", 0), Push>>
      BY <2>1, EmittedCode
    <3>2. Executed(m, compile_instruction(ins)) = Exec(Exec(l, X("test_sete", "rax", 0)), Push)
      BY <1>1, <3>1, RunOfThree
    <3>3. Exec(l, X("test_sete", "rax", 0)) = WithRax(l, Bool(l.rax = 0))
      BY RaxEffects
    <3>4. v = Bool(l.rax = 0)
      BY <1>4, <1>6, <2>1 DEF UnaryResult, Bool
    <3> QED
      BY <1>4, <1>7, <3>2, <3>3, <3>4, ResultShows
  <2>2. CASE ins.opcode = "Neg"
    <3>1. compile_instruction(ins) = <<PopLeft, X("neg", "rax", 0), Push>>
      BY <2>2, EmittedCode
    <3>2. Executed(m, compile_instruction(ins)) = Exec(Exec(l, X("neg", "rax", 0)), Push)
      BY <1>1, <3>1, RunOfThree
    <3>3. Exec(l, X("neg", "rax", 0)) = WithRax(l, -a)
      BY <1>4, RaxEffects
    <3>4. v = -a
      <4>1. v = normalize_i32(-a)
        BY <1>6, <2>2 DEF UnaryResult
      <4>2. -a \in I32
        BY <1>3, <1>4, <2>2, LimitsAssumption DEF I32
      <4> QED
        BY <4>1, <4>2, NormalizeKeeps
    <3> QED
      BY <1>4, <1>7, <3>2, <3>3, <3>4, ResultShows
  <2> QED
    BY <2>1, <2>2 DEF UnaryOps
<1> QED
  BY <1>2, <1>3, <1>6, <1>8

\* Pop and Dup.
LEMMA CopiesShow ==
  ASSUME NEW m, NEW stk, NEW loc, NEW init, Shows(m, stk, loc, init), Len(stk) >= 1,
         NEW ins
  PROVE  LET n == Executed(m, compile_instruction(ins))
         IN  /\ ins.opcode = "Pop" => Shows(n, SubSeq(stk, 1, Len(stk) - 1), loc, init)
             /\ ins.opcode = "Dup" => Shows(n, Append(stk, stk[Len(stk)]), loc, init)
PROOF
<1>1. PICK l : l = Exec(m, PopLeft)
  OBVIOUS
<1>2. PICK s : s = SubSeq(stk, 1, Len(stk) - 1)
  OBVIOUS
<1>3. PICK a : a = stk[Len(stk)]
  OBVIOUS
<1>4. Shows(l, s, loc, init) /\ l.rax = a /\ a \in I32
  BY <1>1, <1>2, <1>3, TopShows
<1>5. ASSUME ins.opcode = "Pop" PROVE Executed(m, compile_instruction(ins)) = l
  <2>1. compile_instruction(ins) = <<PopLeft>>
    BY <1>5, EmittedCode
  <2> QED
    BY <1>1, <2>1, RunOfOne
<1>6. ASSUME ins.opcode = "Dup"
      PROVE  Shows(Executed(m, compile_instruction(ins)), Append(stk, a), loc, init)
  <2>1. compile_instruction(ins) = <<PopLeft, Push, Push>>
    BY <1>6, EmittedCode
  <2>2. Executed(m, compile_instruction(ins)) = Exec(Exec(l, Push), Push)
    BY <1>1, <2>1, RunOfThree
  <2>3. PICK k : k = Exec(l, Push)
    OBVIOUS
  <2>4. Shows(k, Append(s, a), loc, init) /\ k.rax = a
    BY <1>4, <2>3, PushShows
  <2>5. Append(s, a) = stk
    BY <1>2, <1>3 DEF Shows
  <2> QED
    BY <1>4, <2>2, <2>3, <2>4, <2>5, PushedShows
<1> QED
  BY <1>2, <1>3, <1>4, <1>5, <1>6

\* Return: the frame is gone and rax holds the top.
LEMMA ReturnShows ==
  ASSUME NEW m, NEW stk, NEW loc, NEW init, Shows(m, stk, loc, init), Len(stk) >= 1,
         NEW ins, ins.opcode = "Return"
  PROVE  LET n == Executed(m, compile_instruction(ins))
         IN  /\ n.returned /\ n.rsp = Entry + 1 /\ n.rbp = Caller
             /\ n.rax = stk[Len(stk)]
PROOF
<1>1. PICK l : l = Exec(m, PopLeft)
  OBVIOUS
<1>2. PICK j : j = Exec(l, X("leave", "rsp", 0))
  OBVIOUS
<1>3. PICK k : k = Exec(j, X("pop", "rbp", 0))
  OBVIOUS
<1>4. PICK n : n = Exec(k, X("ret", "rsp", 0))
  OBVIOUS
<1>5. Executed(m, compile_instruction(ins)) = n
  <2>1. compile_instruction(ins) =
          <<PopLeft, X("leave", "rsp", 0), X("pop", "rbp", 0), X("ret", "rsp", 0)>>
    BY EmittedCode
  <2> QED
    BY <1>1, <1>2, <1>3, <1>4, <2>1, RunOfFour
<1>6. PICK s : s = SubSeq(stk, 1, Len(stk) - 1)
  OBVIOUS
<1>7. Shows(l, s, loc, init) /\ l.rax = stk[Len(stk)]
  BY <1>1, <1>6, TopShows
<1>8. /\ DOMAIN l = Registers /\ l.rbp = Entry - 1
      /\ Read(l, Entry) = Address /\ Read(l, Entry - 1) = Caller
  BY <1>7 DEF Shows
<1>9. j = [l EXCEPT !.rsp = l.rbp]
  BY <1>2, FrameEffects
<1>10. /\ DOMAIN j = Registers /\ j.rsp = Entry - 1 /\ j.mem = l.mem /\ j.rax = l.rax
  BY <1>8, <1>9 DEF Registers
<1>11. Read(j, j.rsp) = Caller
  BY <1>8, <1>10 DEF Read
<1>12. k = [j EXCEPT !["rbp"] = Caller, !["rsp"] = @ + 1]
  BY <1>3, <1>11, FrameEffects
<1>13. /\ DOMAIN k = Registers /\ k.rsp = Entry /\ k.mem = l.mem /\ k.rax = l.rax
       /\ k.rbp = Caller
  <2>1. (Entry - 1) + 1 = Entry
    BY DEF Entry
  <2> QED
    BY <1>10, <1>12, <2>1 DEF Registers
<1>14. Read(k, k.rsp) = Address
  BY <1>8, <1>13 DEF Read
<1>15. n = [k EXCEPT !.returned = TRUE, !.rsp = @ + 1]
  BY <1>4, <1>14, FrameEffects
<1>16. n.returned /\ n.rsp = Entry + 1 /\ n.rbp = Caller /\ n.rax = l.rax
  BY <1>13, <1>15 DEF Registers
<1> QED
  BY <1>5, <1>7, <1>16

\* The prologue: an empty frame below the caller's rbp.
LEMMA PrologueShows ==
  ASSUME NEW loc
  PROVE  Shows(Executed(Machine, emit_prologue), << >>, loc, {})
PROOF
<1>1. PICK j : j = Exec(Machine, X("push", "rbp", 0))
  OBVIOUS
<1>2. PICK k : k = Exec(j, X("enter", "rbp", 0))
  OBVIOUS
<1>3. PICK n : n = Exec(k, X("sub_imm", "rsp", JIT_FRAME_WORDS))
  OBVIOUS
<1>4. Executed(Machine, emit_prologue) = n
  BY <1>1, <1>2, <1>3, RunOfThree DEF emit_prologue
<1>5. PICK l : l = [Machine EXCEPT !.rsp = @ - 1]
  OBVIOUS
<1>6. /\ DOMAIN l = Registers /\ l.rsp = Entry - 1 /\ l.rbp = Caller
      /\ l.mem = [w \in {Entry} |-> Address]
  BY <1>5 DEF Machine, Registers
<1>7. Read(l, Entry) = Address
  BY <1>6 DEF Read
<1>8. j = Write(l, Entry - 1, Caller)
  <2>1. j = Write([Machine EXCEPT !.rsp = @ - 1], Machine.rsp - 1, Machine.rbp)
    BY <1>1, FrameEffects
  <2>2. Machine.rsp = Entry /\ Machine.rbp = Caller
    BY DEF Machine
  <2> QED
    BY <1>5, <2>1, <2>2
<1>9. /\ DOMAIN j = Registers /\ j.rsp = Entry - 1
       /\ \A a : Read(j, a) = IF a = Entry - 1 THEN Caller ELSE Read(l, a)
  BY <1>6, <1>8, Written
<1>10. k = [j EXCEPT !.rbp = j.rsp]
  BY <1>2, FrameEffects
<1>11. /\ DOMAIN k = Registers /\ k.rsp = Entry - 1 /\ k.rbp = Entry - 1 /\ k.mem = j.mem
  BY <1>9, <1>10 DEF Registers
<1>12. n = [k EXCEPT !.rsp = @ - JIT_FRAME_WORDS]
  BY <1>3, FrameEffects
<1>13. /\ DOMAIN n = Registers /\ n.rsp = Entry - 1 - JIT_FRAME_WORDS
       /\ n.rbp = Entry - 1 /\ n.mem = j.mem
  BY <1>11, <1>12 DEF Registers
<1>14. Read(n, Entry) = Address /\ Read(n, Entry - 1) = Caller
  <2>1. Entry # Entry - 1
    BY DEF Entry
  <2>2. \A a : Read(n, a) = Read(j, a)
    BY <1>13 DEF Read
  <2> QED
    BY <1>7, <1>9, <2>1, <2>2
<1>15. n.rsp = OperandWord(0)
  BY <1>13, FrameAssumption DEF OperandWord, Entry
<1>16. << >> \in Seq(I32) /\ Len(<< >>) = 0
  OBVIOUS
<1> QED
  BY <1>4, <1>13, <1>14, <1>15, <1>16 DEF Shows

(***************************************************************************)
(* Emitted.                                                                *)
(***************************************************************************)

\* The code of main's instructions; g holds the prologue followed by that of
\* the first 0, 1, ..., n of them.
CodeOf(p) ==
  [i \in Nat |-> compile_instruction(p.instructions[p.functions[p.main_func_id].entry_pc + i])]

Emits(g, c, n) ==
  /\ g[0] = emit_prologue
  /\ \A i \in 1 .. n : g[i] = g[i - 1] \o c[i]

\* There is such a g, by the shortest that does not exist.
LEMMA EmitsExist ==
  ASSUME NEW c, NEW n \in Nat
  PROVE  \E g : Emits(g, c, n)
PROOF
<1> DEFINE Bad == {k \in Nat : ~\E g : Emits(g, c, k)}
<1>1. SUFFICES ASSUME Bad # {} PROVE FALSE
  OBVIOUS
<1>2. PICK k \in Bad : \A j \in Bad : k <= j
  <2>1. Bad \subseteq Nat
    OBVIOUS
  <2> HIDE DEF Bad
  <2> QED
    BY <1>1, <2>1, Least
<1>3. k \in Nat /\ ~\E g : Emits(g, c, k)
  BY <1>2
<1>4. k # 0
  <2> DEFINE g == [i \in {0} |-> emit_prologue]
  <2>1. g[0] = emit_prologue
    OBVIOUS
  <2> HIDE DEF g
  <2>2. Emits(g, c, 0)
    BY <2>1 DEF Emits
  <2> QED
    BY <1>3, <2>2
<1>5. k - 1 \in Nat /\ ~(k <= k - 1)
  BY <1>3, <1>4
<1>6. PICK g : Emits(g, c, k - 1)
  <2>1. k - 1 \notin Bad
    <3> HIDE DEF Bad
    <3> QED
      BY <1>2, <1>5
  <2> QED
    BY <1>5, <2>1
<1>7. PICK x : x = g[k - 1] \o c[k]
  OBVIOUS
<1> DEFINE h == [i \in 0 .. k |-> IF i = k THEN x ELSE g[i]]
<1>8. (\A i \in 0 .. k - 1 : h[i] = g[i]) /\ h[k] = x
  BY <1>3
<1>9. (\A i \in 0 .. k - 1 : h[i] = g[i]) /\ h[k] = g[k - 1] \o c[k]
  BY <1>7, <1>8
<1> HIDE DEF h
<1>10. h[0] = emit_prologue
  BY <1>5, <1>6, <1>9 DEF Emits
<1>11. ASSUME NEW i \in 1 .. k
      PROVE  h[i] = h[i - 1] \o c[i]
  <2>1. i - 1 \in 0 .. k - 1
    BY <1>3
  <2>2. CASE i = k
    BY <1>9, <2>1, <2>2
  <2>3. CASE i # k
    <3>1. i \in 1 .. k - 1 /\ i \in 0 .. k - 1
      BY <1>3, <2>3
    <3> QED
      BY <1>6, <1>9, <2>1, <3>1 DEF Emits
  <2> QED
    BY <2>2, <2>3
<1>12. Emits(h, c, k)
  BY <1>10, <1>11 DEF Emits
<1> QED
  BY <1>3, <1>12

\* Its last piece is what Emitted yields.
LEMMA EmitsIs ==
  ASSUME NEW p, NEW n \in Nat, NEW g, Emits(g, CodeOf(p), n)
  PROVE  Emitted(p, n) = g[n]
PROOF
<1>0. PICK e : e = p.functions[p.main_func_id].entry_pc
  OBVIOUS
<1> DEFINE code(i) == compile_instruction(p.instructions[e + i])
           Eq(f) == f = [i \in 0 .. n |-> IF i = 0 THEN emit_prologue ELSE f[i - 1] \o code(i)]
           h == [i \in 0 .. n |-> g[i]]
           f == CHOOSE x : Eq(x)
<1>1. Emits(g, CodeOf(p), n) /\ \A i \in 1 .. n : CodeOf(p)[i] = code(i)
  <2>1. \A i \in Nat : CodeOf(p)[i] = code(i)
    <3> HIDE DEF Eq, h, f
    <3> QED
      BY <1>0 DEF CodeOf
  <2>2. \A i \in 1 .. n : i \in Nat
    OBVIOUS
  <2> HIDE DEF code, Eq, h, f
  <2> QED
    BY <2>1, <2>2
<1>2. Eq(h)
  <2>1. ASSUME NEW i \in 0 .. n
        PROVE  h[i] = IF i = 0 THEN emit_prologue ELSE h[i - 1] \o code(i)
    <3>1. CASE i = 0
      BY <1>1, <3>1 DEF Emits
    <3>2. CASE i # 0
      <4>1. i \in 1 .. n /\ i - 1 \in 0 .. n
        BY <3>2
      <4> HIDE DEF code
      <4> QED
        BY <1>1, <3>2, <4>1 DEF Emits
    <3> QED
      BY <3>1, <3>2
  <2> HIDE DEF code
  <2> QED
    BY <2>1
<1>3. Eq(f)
  <2> HIDE DEF Eq, h
  <2> QED
    BY <1>2
<1>4. Emitted(p, n) = f[n]
  BY <1>0 DEF Emitted
<1> HIDE DEF f, h
<1>5. f[0] = emit_prologue /\ \A i \in 1 .. n : f[i] = f[i - 1] \o code(i)
  <2> HIDE DEF code
  <2>1. ASSUME NEW i \in 0 .. n
        PROVE  f[i] = IF i = 0 THEN emit_prologue ELSE f[i - 1] \o code(i)
    BY <1>3
  <2>2. 0 \in 0 .. n /\ \A i \in 1 .. n : i \in 0 .. n /\ i # 0
    OBVIOUS
  <2> HIDE DEF Eq
  <2> QED
    BY <2>1, <2>2
<1>6. g[0] = emit_prologue /\ \A i \in 1 .. n : g[i] = g[i - 1] \o code(i)
  BY <1>1 DEF Emits
<1> HIDE DEF Eq, code
<1> DEFINE Bad == {i \in 0 .. n : f[i] # g[i]}
<1>7. Bad = {}
  <2>1. SUFFICES ASSUME Bad # {} PROVE FALSE
    OBVIOUS
  <2>2. PICK k \in Bad : \A j \in Bad : k <= j
    <3>1. Bad \subseteq Nat
      OBVIOUS
    <3> HIDE DEF Bad
    <3> QED
      BY <2>1, <3>1, Least
  <2>3. k \in 0 .. n /\ f[k] # g[k] /\ k # 0
    BY <1>5, <1>6, <2>2
  <2>4. k \in 1 .. n /\ k - 1 \in 0 .. n /\ ~(k <= k - 1)
    BY <2>3
  <2>5. f[k - 1] = g[k - 1]
    <3>1. k - 1 \notin Bad
      <4> HIDE DEF Bad
      <4> QED
        BY <2>2, <2>4
    <3> QED
      BY <2>4, <3>1
  <2> QED
    BY <1>5, <1>6, <2>3, <2>4, <2>5
<1> QED
  BY <1>4, <1>7

\* The code grows by one instruction's.
LEMMA EmittedGrows ==
  ASSUME NEW p, NEW n \in Nat
  PROVE  LET e == p.functions[p.main_func_id].entry_pc
         IN  /\ Emitted(p, 0) = emit_prologue
             /\ Emitted(p, n + 1) =
                  Emitted(p, n) \o compile_instruction(p.instructions[e + (n + 1)])
PROOF
<1>1. PICK c : c = CodeOf(p)
  OBVIOUS
<1>2. PICK m \in Nat : m = n + 1
  OBVIOUS
<1>3. PICK g : Emits(g, c, m)
  BY EmitsExist
<1>4. Emits(g, c, n) /\ Emits(g, c, 0)
  <2>1. (\A i \in 1 .. n : i \in 1 .. m) /\ \A i \in 1 .. 0 : i \in 1 .. m
    BY <1>2
  <2> QED
    BY <1>3, <2>1, Zenon DEF Emits
<1>5. Emitted(p, m) = g[m] /\ Emitted(p, n) = g[n] /\ Emitted(p, 0) = g[0]
  BY <1>1, <1>3, <1>4, EmitsIs
<1>6. g[0] = emit_prologue /\ g[m] = g[n] \o c[m]
  <2>1. m \in 1 .. m /\ m - 1 = n
    BY <1>2
  <2> QED
    BY <1>3, <2>1 DEF Emits
<1>7. c[m] = compile_instruction(p.instructions[p.functions[p.main_func_id].entry_pc + m])
  BY <1>1 DEF CodeOf
<1> QED
  BY <1>2, <1>5, <1>6, <1>7

\* The instructions of the machine.
Mnemonics ==
  Comparisons \cup {"push", "pop", "mov_imm32", "mov_load", "mov_store", "enter", "leave",
                   "sub_imm", "add", "sub", "imul", "neg", "movsxd_32", "test_sete", "ret"}

MachineCode == {X(op, reg, imm) : op \in Mnemonics, reg \in Registers, imm \in Int}

\* All of the emitted code consists of instructions of the machine.
LEMMA CodeTyped ==
  /\ emit_prologue \in Seq(MachineCode)
  /\ \A ins : ins.opcode \in Supported /\ ins.arg1 \in Int
                => compile_instruction(ins) \in Seq(MachineCode)
PROOF
<1>1. \A op \in Mnemonics : \A reg \in Registers : \A i \in Int :
        X(op, reg, i) \in MachineCode
  BY DEF MachineCode
<1>2. ASSUME NEW a \in MachineCode, NEW b \in MachineCode, NEW c \in MachineCode,
             NEW d \in MachineCode, NEW e \in MachineCode
      PROVE  /\ <<a>> \in Seq(MachineCode) /\ <<a, b>> \in Seq(MachineCode)
             /\ <<a, b, c>> \in Seq(MachineCode) /\ <<a, b, c, d>> \in Seq(MachineCode)
             /\ <<a, b, c, d, e>> \in Seq(MachineCode)
  OBVIOUS
<1>3. JIT_FRAME_WORDS \in Int /\ 0 \in Int
  BY FrameAssumption
<1>4. emit_prologue \in Seq(MachineCode)
  <2>1. /\ X("push", "rbp", 0) \in MachineCode /\ X("enter", "rbp", 0) \in MachineCode
        /\ X("sub_imm", "rsp", JIT_FRAME_WORDS) \in MachineCode
    BY <1>1, <1>3 DEF Mnemonics, Registers
  <2> QED
    BY <1>2, <2>1 DEF emit_prologue
<1>5. /\ Push \in MachineCode /\ PopLeft \in MachineCode /\ PopRight \in MachineCode
      /\ X("leave", "rsp", 0) \in MachineCode /\ X("pop", "rbp", 0) \in MachineCode
      /\ X("ret", "rsp", 0) \in MachineCode
      /\ \A op \in Mnemonics : X(op, "rax", 0) \in MachineCode
  BY <1>1 DEF Push, PopLeft, PopRight, Mnemonics, Registers
<1>6. ASSUME NEW ins, ins.opcode \in Supported, ins.arg1 \in Int
      PROVE  compile_instruction(ins) \in Seq(MachineCode)
  <2>1. PICK op : op = ins.opcode
    OBVIOUS
  <2>2. \/ op \in Comparisons \/ op = "Neg" \/ op = "Not" \/ op = "Add" \/ op = "Sub" \/ op = "Mul"
        \/ op = "LoadConst" \/ op = "LoadLocal" \/ op = "StoreLocal" \/ op = "Pop" \/ op = "Dup"
        \/ op = "Return"
    BY <1>6, <2>1 DEF Supported, UnaryOps
  <2>3. CASE op \in Comparisons
    <3>1. compile_instruction(ins) = <<PopRight, PopLeft, X(op, "rax", 0), Push>>
      BY <2>1, <2>3, EmittedCode
    <3>2. X(op, "rax", 0) \in MachineCode
      BY <1>5, <2>3 DEF Mnemonics
    <3> QED
      BY <1>2, <1>5, <3>1, <3>2
  <2>4. CASE op = "Neg" \/ op = "Not"
    <3>1. \E x \in Mnemonics : compile_instruction(ins) = <<PopLeft, X(x, "rax", 0), Push>>
      BY <2>1, <2>4, EmittedCode DEF Mnemonics
    <3> QED
      BY <1>2, <1>5, <3>1
  <2>5. CASE op = "Add" \/ op = "Sub" \/ op = "Mul"
    <3>1. \E x \in Mnemonics : compile_instruction(ins) =
            <<PopRight, PopLeft, X(x, "rax", 0), X("movsxd_32", "rax", 0), Push>>
      BY <2>1, <2>5, EmittedCode DEF Mnemonics
    <3>2. X("movsxd_32", "rax", 0) \in MachineCode
      BY <1>5 DEF Mnemonics
    <3> QED
      BY <1>2, <1>5, <3>1, <3>2
  <2>6. CASE op = "LoadConst" \/ op = "LoadLocal"
    <3>1. \E x \in Mnemonics : \E i \in Int : compile_instruction(ins) = <<X(x, "rax", i), Push>>
      <4>1. ins.arg1 \in Int /\ LocalOffset(ins.arg1) \in Int
        BY <1>6 DEF LocalOffset
      <4>2. CASE op = "LoadConst"
        BY <2>1, <4>1, <4>2, EmittedCode DEF Mnemonics
      <4>3. CASE op = "LoadLocal"
        BY <2>1, <4>1, <4>3, EmittedCode DEF Mnemonics
      <4> QED
        BY <2>6, <4>2, <4>3
    <3>2. PICK x \in Mnemonics, i \in Int : compile_instruction(ins) = <<X(x, "rax", i), Push>>
      BY <3>1
    <3>3. X(x, "rax", i) \in MachineCode
      BY <1>1, <3>2 DEF Registers
    <3> QED
      BY <1>2, <1>5, <3>2, <3>3
  <2>7. CASE op = "StoreLocal"
    <3>1. compile_instruction(ins) =
            <<PopLeft, X("mov_store", "rax", LocalOffset(ins.arg1))>>
      BY <2>1, <2>7, EmittedCode
    <3>2. LocalOffset(ins.arg1) \in Int
      BY <1>6 DEF LocalOffset
    <3>3. X("mov_store", "rax", LocalOffset(ins.arg1)) \in MachineCode
      BY <1>1, <3>2 DEF Mnemonics, Registers
    <3> QED
      BY <1>2, <1>5, <3>1, <3>3
  <2>8. CASE op = "Pop" \/ op = "Dup"
    <3>1. compile_instruction(ins) = <<PopLeft>> \/ compile_instruction(ins) = <<PopLeft, Push, Push>>
      BY <2>1, <2>8, EmittedCode
    <3>2. <<PopLeft>> \in Seq(MachineCode) /\ <<PopLeft, Push, Push>> \in Seq(MachineCode)
      BY <1>2, <1>5
    <3> QED
      BY <3>1, <3>2
  <2>9. CASE op = "Return"
    <3>1. compile_instruction(ins) =
            <<PopLeft, X("leave", "rsp", 0), X("pop", "rbp", 0), X("ret", "rsp", 0)>>
      BY <2>1, <2>9, EmittedCode
    <3> QED
      BY <1>2, <1>5, <3>1
  <2> QED
    BY <2>2, <2>3, <2>4, <2>5, <2>6, <2>7, <2>8, <2>9
<1> QED
  BY <1>4, <1>6
================================================================================
