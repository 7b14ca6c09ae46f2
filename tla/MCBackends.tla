------------------------------ MODULE MCBackends ------------------------------
(***************************************************************************)
(* Programs as compiler.rs emits them: each statement below is the code    *)
(* compile_stmt produces for it.  The reference machine and the GC machine *)
(* need not agree on other bytecode (an integer used as an array base).    *)
(***************************************************************************)
EXTENDS Backends, MCPrograms

\* Slot 0 is the int x, slot 1 the array `int a[2]`; global 0 is the int g,
\* globals 1 and 2 the array ga.  Function 1, f(x), has the same locals.
SetX(c)   == <<I("LoadConst", c, 0), I("StoreLocal", 0, 0)>>
Declare   == <<I("AllocArray", 2, 0), I("StoreLocal", 1, 0)>>

Statements ==
  {SetX(1),                                                          \* x = 1
   <<I("LoadLocal", 0, 0), I("LoadConst", 7, 0), I("Add", 0, 0),
     I("StoreLocal", 0, 0)>>,                                        \* x = x + 7
   Declare,                                                          \* int a[2]
   <<I("LoadLocal", 0, 0), I("LoadLocal", 0, 0),
     I("LocalArrayStore", 1, 2)>>,                                   \* a[x] = x
   <<I("LoadConst", 1, 0), I("LocalArrayLoad", 1, 2),
     I("Print", 0, 0)>>,                                             \* print(a[1])
   <<I("LoadLocal", 0, 0), I("LoadGlobal", 0, 0), I("Div", 0, 0),
     I("StoreGlobal", 0, 0)>>,                                       \* g = x / g
   <<I("LoadLocal", 0, 0), I("LoadLocal", 0, 0),
     I("ArrayStore", 1, 2)>>,                                        \* ga[x] = x
   <<I("LoadConst", 1, 0), I("ArrayLoad", 1, 2), I("Neg", 0, 0),
     I("StoreGlobal", 0, 0)>>,                                       \* g = -ga[1]
   <<I("LoadLocal", 0, 0), I("Call", 1, 1), I("StoreLocal", 0, 0)>>} \* x = f(x)

\* return x; and the `return 0` the compiler puts behind every body.
ReturnX == <<I("LoadLocal", 0, 0), I("Return", 0, 0), I("LoadConst", 0, 0),
             I("Return", 0, 0)>>

\* while (x < 2) { body; x = x + 1 } at position `at`
While(at, body) ==
  LET size == Len(body)
  IN  <<I("LoadLocal", 0, 0), I("LoadConst", 2, 0), I("Lt", 0, 0),
        I("JumpIfFalse", at + size + 9, 0)>> \o body
      \o <<I("LoadLocal", 0, 0), I("LoadConst", 1, 0), I("Add", 0, 0),
           I("StoreLocal", 0, 0), I("Jump", at, 0)>>

\* main: int x = 0; int a[2]; while (x < 2) { s; t; x = x + 1 } u; return x;
\* f(x): int a[2]; w; return x;
Source(s, t, u, w) ==
  LET prologue == SetX(0) \o Declare
      main     == prologue \o While(Len(prologue), s \o t) \o u \o ReturnX
      f        == Declare \o w \o ReturnX
  IN  Program(main \o f,
              (0 :> Fn(0, 0, 2)) @@ (1 :> Fn(Len(main), 1, 2)),
              ("g" :> Scalar(0)) @@ ("ga" :> Array(1, 2)))

\* One function without jumps, for the passes that need it: constants, the
\* local x (7) and the undefined local y, an operation, and an operation by a
\* constant.
Atoms  == {<<I("LoadConst", c, 0)>> : c \in {0, 1, -1, -Half}} \cup
          {<<I("LoadLocal", 0, 0)>>, <<I("LoadLocal", 1, 0)>>}
Simple == {a \o b \o <<I(op, 0, 0)>> : a, b \in Atoms,
                                      op \in {"Add", "Sub", "Mul", "Div", "Lt"}} \cup
          {a \o <<I(op, 0, 0)>> : a \in Atoms, op \in UnaryOps}
By     == {<<I("LoadConst", 0, 0), I("Mul", 0, 0)>>, <<I("LoadConst", 1, 0), I("Mul", 0, 0)>>,
           <<I("LoadConst", 0, 0), I("Sub", 0, 0)>>, <<I("LoadConst", 1, 0), I("Div", 0, 0)>>,
           <<I("LoadConst", -1, 0), I("Div", 0, 0)>>, <<I("LoadConst", 0, 0), I("Div", 0, 0)>>}
Linear ==
  {Program(SetX(7) \o e \o by \o s \o ReturnX, (0 :> Fn(0, 0, 2)), <<>>) :
     e \in Simple, by \in By, s \in {<<I("Pop", 0, 0)>>, <<I("Return", 0, 0)>>}}

\* The compiler emits no Halt; both machines have it, and return its operand.
Halting ==
  {Program(SetX(7) \o e \o <<I("Halt", 0, 0)>> \o ReturnX, (0 :> Fn(0, 0, 2)), <<>>) :
     e \in Simple}

\* main alone, with a loop: what can be folded stays, for the jumps' sake.
Folds == {<<I("LoadConst", 1, 0), I("LoadConst", 1, 0), I("Add", 0, 0), I("Print", 0, 0)>>,
          <<I("LoadLocal", 0, 0), I("LoadConst", 1, 0), I("Mul", 0, 0), I("Print", 0, 0)>>,
          <<I("LoadConst", 7, 0), I("Pop", 0, 0)>>}
Looping ==
  {Program(SetX(0) \o While(2, s) \o t \o ReturnX, (0 :> Fn(0, 0, 1)), <<>>) :
     s, t \in Folds}

Sources == {Source(s, t, u, w) : s, t, u, w \in Statements}
Compared == Sources \cup Linear \cup Looping \cup Halting
===============================================================================
