------------------------------ MODULE MCPipeline ------------------------------
(***************************************************************************)
(* Instances of Pipeline: sources, most of them well-formed, put together  *)
(* from a few statements and expressions.                                  *)
(***************************************************************************)
EXTENDS Pipeline, Syntax

N(n) == IntLit(n)
Var(x, e) == VarDecl("Int", x, <<e>>, <<>>)
Arr(x, n) == VarDecl("Int", x, <<>>, <<n>>)
Set(x, e) == Assign(x, <<>>, e)
Put(a, i, e) == Assign(a, <<i>>, e)
F(e) == CallOf("f", <<e>>)
Big == N(Half - 1)     \* the largest 32-bit integer
Arg == Id("x")
Glob == Id("g")

Globals == <<VarDecl("Int", "g", <<N(1)>>, <<>>), VarDecl("Int", "a", <<>>, <<2>>)>>

\* Statements of f, which has the parameter x: declarations with and without
\* value, sibling blocks that declare the same name, a loop that allocates,
\* recursion, divisions and indices that may trap.
Good ==
  {Var("y", Bin("Sub", Arg, N(1))), VarDecl("Int", "y", <<>>, <<>>), Arr("r", 2),
   Put("r", Arg, N(7)), Set("x", Elem("r", N(0))), Set("g", Bin("Div", Glob, Arg)),
   Put("a", Glob, Bin("Add", Elem("a", N(0)), Big)), ExprStmt(F(Arg)),
   ExprStmt(Elem("a", Arg)),
   Set("x", Id("y")),
   IfElse(Bin("Lt", Arg, Glob), <<Var("y", N(2)), PrintOf(Id("y"))>>,
          <<<<VarDecl("Int", "y", <<>>, <<>>), PrintOf(Un("Neg", Arg))>>>>),
   While(Bin("Lt", Arg, N(2)), <<Arr("q", 1), Put("q", N(0), Arg),
                               Set("x", Bin("Add", Elem("q", N(0)), N(1)))>>),
   IfElse(Bin("Or", Glob, F(N(0))), <<ReturnOf(Bin("Add", Arg, F(Un("Neg", Arg))))>>, <<>>)}

\* Statements the analyzer must reject, wherever they are.
Bad ==
  {Set("x", Id("a")), Set("a", N(1)), Set("f", N(1)), Set("x", Elem("g", N(0))),
   ExprStmt(CallOf("f", <<>>)), Set("x", BoolLit(TRUE)), Set("g", Id("f")),
   Arr("r", 0), Var("g", N(1)), Put("a", BoolLit(TRUE), N(1)),
   IfElse(Glob, <<Arr("z", 1), Set("z", Un("Neg", N(1))), Set("x", Elem("z", N(0)))>>, <<>>)}

\* f is called by main with 1, prints and returns.
Bodies ==
  {Source(Globals,
          <<Function("f", <<Param("Int", "x")>>, b \o <<PrintOf(Glob), ReturnOf(Arg)>>),
            Function("main", <<>>, <<ReturnOf(Bin("Sub", F(N(1)), Elem("a", N(1))))>>)>>) :
     b \in [1 .. 3 -> Good] \cup [1 .. 2 -> Good \cup Bad]}

\* Expressions: p prints its argument, so that the order of evaluation shows.
Atoms == {N(0), Big, Glob, BoolLit(TRUE), CallOf("p", <<N(5)>>)}
Ops   == {"Add", "Sub", "Mul", "Div", "Lt", "Eq", "And", "Or"}
Flat  == {Bin(o, l, r) : o \in Ops, l \in Atoms, r \in Atoms}
           \cup {Un(o, e) : o \in {"Neg", "Not"}, e \in Atoms}
Deep  == {Bin(o, l, r) : o \in Ops, l \in Flat, r \in {Big, CallOf("p", <<N(5)>>)}}
           \cup {Bin(o, l, r) : o \in Ops, l \in {Big, CallOf("p", <<N(5)>>)}, r \in Flat}

Expressions ==
  {Source(Globals,
          <<Function("main", <<>>, <<PrintOf(e)>>),
            Function("p", <<Param("Int", "x")>>, <<PrintOf(Arg), ReturnOf(Arg)>>)>>) : e \in Deep}

\* The top level: initializers that read later globals, names used twice, too
\* many slots, main missing or with a parameter.
Main(body) == Function("main", <<>>, body)
TopLevel ==
  {Source(globs, fns) :
     globs \in {Globals, Globals \o <<Var("h", Bin("Add", Glob, Big))>>,
                <<Var("h", Glob)>> \o Globals, Globals \o Globals,
                Globals \o <<Arr("b", 3)>>, Globals \o <<Arr("b", 0)>>,
                <<VarDecl("Int", "f", <<>>, <<>>)>>,
                Globals \o <<Var("h", CallOf("f", <<N(1), BoolLit(FALSE)>>))>>},
     fns \in {<<Main(<<ReturnOf(Id("h"))>>)>>, <<Main(<<ReturnOf(Elem("a", N(0)))>>)>>,
              <<Function("main", <<Param("Int", "x")>>, <<>>)>>, <<Function("f", <<>>, <<>>)>>,
              <<Main(<<>>), Main(<<>>)>>,
              <<Main(<<Var("u", N(1)), Var("v", N(2)), Var("w", N(3)), Var("z", N(4))>>)>>,
              <<Function("f", <<Param("Int", "x"), Param("Bool", "t")>>, <<ReturnOf(Arg)>>),
                Main(<<ReturnOf(CallOf("f", <<N(3), BoolLit(TRUE)>>))>>)>>,
              <<Function("f", <<Param("Int", "g")>>, <<>>), Main(<<>>)>>}}

\* Neighbouring writes, boolean variables, and names that the rewritings of the
\* fuzzer would choose.
Constant(x) == {Set(x, N(2)), Set(x, Un("Neg", N(3))), Set(x, Bin("Div", N(1), N(0)))}
Writes ==
  Constant("x") \cup Constant("g")
    \cup {Var("mm0", N(1)), Var("mm0", Arg), VarDecl("Bool", "t", <<BoolLit(FALSE)>>, <<>>),
          Assign("t", <<>>, BoolLit(TRUE)), PrintOf(Id("t")),
          IfElse(Bin("Eq", Glob, N(2)), <<Set("g", N(0)), Set("x", N(1))>>,
                 <<<<Set("g", N(3)), Set("g", N(5))>>>>),
          While(Bin("Eq", Arg, N(2)), <<Set("x", N(1)), Set("g", N(4))>>)}

Rewritten ==
  {Source(<<Var("g", N(1))>>,
          <<Function("wrap0", <<Param("Int", "x")>>, b \o <<PrintOf(Glob), ReturnOf(Arg)>>),
            Main(<<Var("mm0", CallOf("wrap0", <<N(4)>>)), ReturnOf(Id("mm0"))>>)>>) :
     b \in [1 .. 2 -> Writes] \cup [{1} -> Writes]}

Audited == Bodies \cup Expressions \cup TopLevel \cup Rewritten

\* main calls itself once.
Reentered ==
  {Source(<<VarDecl("Int", "g", <<N(1)>>, <<>>)>>,
          <<Main(<<IfElse(Bin("Eq", Glob, N(1)), <<Set("g", N(2)), ReturnOf(CallOf("main", <<>>))>>,
                          <<>>), ReturnOf(Glob)>>)>>)}

\* A name is an array in one block and an integer in the next one.
TwoKinds ==
  {Source(<<>>, <<Main(<<IfElse(BoolLit(TRUE), <<Arr("t", 2)>>, <<>>),
                         IfElse(BoolLit(TRUE), <<Var("t", N(5)), ReturnOf(Id("t"))>>, <<>>)>>)>>)}
===============================================================================
