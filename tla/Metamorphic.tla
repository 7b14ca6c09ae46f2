------------------------------ MODULE Metamorphic ------------------------------
(***************************************************************************)
(* The rewritings of fuzz.rs that must not change what a program does:     *)
(* metamorphic_variants_with_families and the functions it calls.          *)
(*                                                                         *)
(* A rewriting that finds nothing to do leaves the tree as it is, which    *)
(* the code reports as `changed`.  Names are made up from a sequence of    *)
(* names nobody is likely to use, as from a prefix with a number.          *)
(***************************************************************************)
EXTENDS Syntax, Sema

LOCAL INSTANCE SequencesExt

neutral_add_zero(e) == Bin("Add", e, IntLit(0))
neutral_sub_zero(e) == Bin("Sub", e, IntLit(0))
neutral_mul_one(e)  == Bin("Mul", e, IntLit(1))
logical_not(e)      == Un("Not", e)
double_not(e)       == logical_not(logical_not(e))

\* For every function of a program: its body rewritten.
WithBodies(src, Rewrite(_)) ==
  [src EXCEPT !.functions =
     [i \in DOMAIN @ |-> [@[i] EXCEPT !.body = Rewrite(@)]]]

\* main's body with statements in front of it.
InMain(src, stmts) ==
  [src EXCEPT !.functions =
     [i \in DOMAIN @ |-> IF @[i].name = "main" THEN [@[i] EXCEPT !.body = stmts \o @]
                         ELSE @[i]]]

(***************************************************************************)
(* ReturnNeutral and HelperWrapping change every return.                   *)
(***************************************************************************)
RECURSIVE wrap_returns(_, _)

\* wrap_return_exprs_with_zero when there is no helper, and
\* wrap_returns_with_helper.
wrap_returns(stmts, helper) ==
  [i \in DOMAIN stmts |->
     LET s == stmts[i]
     IN  CASE s.kind = "Return" ->
                ReturnOf(IF helper = <<>> THEN neutral_add_zero(s.expr)
                         ELSE CallOf(helper[1], <<s.expr>>))
           [] s.kind = "If" ->
                IfElse(s.cond, wrap_returns(s.body, helper),
                       [j \in DOMAIN s.else |-> wrap_returns(s.else[j], helper)])
           [] s.kind = "While" -> While(s.cond, wrap_returns(s.body, helper))
           [] OTHER -> s]

ReturnNeutral(src) == WithBodies(src, LAMBDA body : wrap_returns(body, <<>>))

(***************************************************************************)
(* New names.                                                              *)
(***************************************************************************)
RECURSIVE declared_names(_)

declared_names(stmts) ==
  UNION {LET s == stmts[i]
         IN  CASE s.kind = "VarDecl" -> {s.name}
               [] s.kind = "If" -> declared_names(s.body)
                                     \cup UNION {declared_names(s.else[j]) : j \in DOMAIN s.else}
               [] s.kind = "While" -> declared_names(s.body)
               [] OTHER -> {} : i \in DOMAIN stmts}

top_level_names(src) == Names(src.globals) \cup Names(src.functions)

\* The loops of unique_top_level_name and unique_function_local_name.
FirstNotIn(names, taken) == SelectSeq(names, LAMBDA x : x \notin taken)[1]

unique_top_level_name(src, names) == FirstNotIn(names, top_level_names(src))

unique_function_local_name(src, f, names) ==
  FirstNotIn(names, top_level_names(src) \cup Names(f.params) \cup declared_names(f.body))

HelperWrapping(src) ==
  LET helper  == unique_top_level_name(src, <<"wrap0", "wrap1", "wrap2">>)
      arg     == unique_top_level_name(src, <<"arg0", "arg1", "arg2">>)
      wrapped == WithBodies(src, LAMBDA body : wrap_returns(body, <<helper>>))
  IN  IF wrapped = src THEN src
      ELSE [wrapped EXCEPT !.functions =
              <<Function(helper, <<Param("Int", arg)>>, <<ReturnOf(Id(arg))>>)>> \o @]

(***************************************************************************)
(* DeadBranch and UnusedLocal add statements to main.                      *)
(***************************************************************************)
dead_print_branch == IfElse(IntLit(0), <<PrintOf(IntLit(42))>>, <<>>)

neutral_local_statements(x) ==
  <<VarDecl("Int", x, <<IntLit(0)>>, <<>>), Assign(x, <<>>, neutral_add_zero(Id(x)))>>

DeadBranch(src) == InMain(src, <<dead_print_branch>>)

UnusedLocal(src) ==
  LET mains == SelectSeq(src.functions, LAMBDA f : f.name = "main")
  IN  IF mains = <<>> THEN src
      ELSE InMain(src, neutral_local_statements(
                         unique_function_local_name(src, mains[1], <<"mm0", "mm1", "mm2">>)))

(***************************************************************************)
(* AlgebraicNeutral: every expression whose type is known to be int, and   *)
(* every condition.  Bindings are Sema's symbols.                          *)
(***************************************************************************)
RECURSIVE infer_expr_type(_, _), neutral_body(_, _)

\* "None" when the type is not known.
infer_expr_type(e, bindings) ==
  LET ints(es) == \A x \in es : infer_expr_type(x, bindings) = "Int"
      bound(x, is_array) ==
        IF x \in DOMAIN bindings /\ bindings[x].is_array = is_array
        THEN bindings[x].type ELSE "None"
  IN  CASE e.kind = "IntLiteral"  -> "Int"
        [] e.kind = "BoolLiteral" -> "Bool"
        [] e.kind = "Identifier"  -> bound(e.name, FALSE)
        [] e.kind = "ArrayIndex"  -> bound(e.name, TRUE)
        [] e.kind = "Call"        -> "Int"
        [] e.kind = "Binary" ->
             (CASE e.op \in Arithmetic -> IF ints({e.left, e.right}) THEN "Int" ELSE "None"
                [] e.op \in {"Lt", "Gt", "Le", "Ge"} ->
                     IF ints({e.left, e.right}) THEN "Bool" ELSE "None"
                [] OTHER -> "Bool")
        [] e.kind = "Unary" ->
             IF e.op = "Not" THEN "Bool" ELSE IF ints({e.operand}) THEN "Int" ELSE "None"

neutral_init(d) ==
  IF d.type = "Int" /\ d.size = <<>> /\ d.init # <<>>
  THEN [d EXCEPT !.init[1] = neutral_mul_one(@)] ELSE d

neutral_stmt(s, bindings) ==
  CASE s.kind = "VarDecl" -> neutral_init(s)
    [] s.kind = "Assign" ->
         Assign(s.name, [i \in DOMAIN s.at |-> neutral_add_zero(s.at[i])],
                IF s.name \in DOMAIN bindings /\ bindings[s.name].type = "Int"
                THEN neutral_sub_zero(s.expr) ELSE s.expr)
    [] s.kind = "If" ->
         IfElse(double_not(s.cond), neutral_body(s.body, bindings),
                [j \in DOMAIN s.else |-> neutral_body(s.else[j], bindings)])
    [] s.kind = "While" -> While(double_not(s.cond), neutral_body(s.body, bindings))
    [] s.kind = "Return" -> ReturnOf(neutral_mul_one(s.expr))
    [] s.kind = "Print" ->
         IF infer_expr_type(s.expr, bindings) = "Int"
         THEN PrintOf(neutral_add_zero(s.expr)) ELSE s
    [] s.kind = "ExprStmt" ->
         IF infer_expr_type(s.expr, bindings) = "Int"
         THEN ExprStmt(neutral_mul_one(s.expr)) ELSE s

\* A declaration is bound for the statements behind it.
neutral_body(stmts, bindings) ==
  IF stmts = <<>> THEN <<>>
  ELSE LET s == Head(stmts)
           bound == IF s.kind = "VarDecl" THEN Define(bindings, s.name, Variable(s.type, s.size))
                    ELSE bindings
       IN  <<neutral_stmt(s, bindings)>> \o neutral_body(Tail(stmts), bound)

Bind(scope, decls) ==
  FoldLeft(LAMBDA b, d : Define(b, d.name, Variable(d.type, d.size)), scope, decls)

AlgebraicNeutral(src) ==
  LET outer == Bind(<<>>, src.globals)
      inner(f) == FoldLeft(LAMBDA b, d : Define(b, d.name, Variable(d.type, <<>>)), outer, f.params)
  IN  Source([i \in DOMAIN src.globals |-> neutral_init(src.globals[i])],
             [i \in DOMAIN src.functions |->
                [src.functions[i] EXCEPT !.body = neutral_body(@, inner(src.functions[i]))]])

(***************************************************************************)
(* BranchInversion and StatementReordering change the first place that     *)
(* fits, function by function.                                             *)
(***************************************************************************)
\* The first element that a rewriting changes is rewritten.
FirstChange(seq, Rewrite(_)) ==
  LET changes == {i \in DOMAIN seq : Rewrite(seq[i]) # seq[i]}
  IN  IF changes = {} THEN seq
      ELSE LET i == CHOOSE i \in changes : \A j \in changes : i <= j
           IN  [seq EXCEPT ![i] = Rewrite(@)]

InFirstFunction(src, Rewrite(_)) ==
  [src EXCEPT !.functions =
     FirstChange(@, LAMBDA f : [f EXCEPT !.body = Rewrite(f.body)])]

RECURSIVE invert_first_branch_in_body(_), reorder_in_body(_)

\* Branches of an if statement are not searched: it is inverted itself.
invert_first_branch_in_body(stmts) ==
  FirstChange(stmts, LAMBDA s :
    CASE s.kind = "If" ->
           IfElse(logical_not(s.cond), IF s.else = <<>> THEN <<>> ELSE s.else[1], <<s.body>>)
      [] s.kind = "While" -> While(s.cond, invert_first_branch_in_body(s.body))
      [] OTHER -> s)

BranchInversion(src) == InFirstFunction(src, invert_first_branch_in_body)

RECURSIVE expr_is_reorder_constant(_)

expr_is_reorder_constant(e) ==
  \/ e.kind \in {"IntLiteral", "BoolLiteral"}
  \/ e.kind = "Unary" /\ expr_is_reorder_constant(e.operand)
  \/ /\ e.kind = "Binary" /\ e.op # "Div"
     /\ expr_is_reorder_constant(e.left) /\ expr_is_reorder_constant(e.right)

\* A declaration or an assignment of a scalar that evaluates only constants.
reorderable_scalar_write(s) ==
  \/ /\ s.kind = "VarDecl" /\ s.size = <<>>
     /\ \A i \in DOMAIN s.init : expr_is_reorder_constant(s.init[i])
  \/ s.kind = "Assign" /\ s.at = <<>> /\ expr_is_reorder_constant(s.expr)

\* MUTANT of can_reorder_adjacent_statements: the names are not compared.
CanReorderAny(left, right) ==
  reorderable_scalar_write(left) /\ reorderable_scalar_write(right)

can_reorder_adjacent_statements(left, right) ==
  /\ reorderable_scalar_write(left) /\ reorderable_scalar_write(right)
  /\ left.name # right.name

\* Two neighbours here, or else in the first nested block that has some.
reorder_in_body(stmts) ==
  LET places == {i \in 1 .. Len(stmts) - 1 :
                   can_reorder_adjacent_statements(stmts[i], stmts[i + 1])}
  IN  IF places # {}
      THEN LET i == CHOOSE i \in places : \A j \in places : i <= j
           IN  [stmts EXCEPT ![i] = stmts[i + 1], ![i + 1] = stmts[i]]
      ELSE FirstChange(stmts, LAMBDA s :
             CASE s.kind = "If" ->
                    LET then == reorder_in_body(s.body)
                    IN  IF then # s.body THEN IfElse(s.cond, then, s.else)
                        ELSE IfElse(s.cond, s.body, [j \in DOMAIN s.else |->
                                                       reorder_in_body(s.else[j])])
               [] s.kind = "While" -> While(s.cond, reorder_in_body(s.body))
               [] OTHER -> s)

StatementReordering(src) == InFirstFunction(src, reorder_in_body)

(***************************************************************************)
(* metamorphic_variants_with_families: the candidates that are new and     *)
(* that the analyzer accepts.                                              *)
(***************************************************************************)
metamorphic_variants(src) ==
  {v \in {ReturnNeutral(src), DeadBranch(src), UnusedLocal(src), AlgebraicNeutral(src),
          BranchInversion(src), HelperWrapping(src), StatementReordering(src)} :
     v # src /\ analyze(v)}
===============================================================================
