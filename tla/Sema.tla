--------------------------------- MODULE Sema ---------------------------------
(***************************************************************************)
(* The semantic analyzer, sema.rs: which syntax trees reach the compiler.  *)
(*                                                                         *)
(* Only the verdict is kept: whether any error is reported.  The code goes *)
(* on after an error to find more of them; here an erroneous expression    *)
(* has type "Error", and so has everything around it.                      *)
(*                                                                         *)
(* A declaration may not shadow a visible name, so the chain of scopes is  *)
(* one function from visible names to symbols: a block ends with the       *)
(* function it began with.                                                 *)
(***************************************************************************)
EXTENDS Syntax, Bytecode, FiniteSets

LOCAL INSTANCE SequencesExt

Names(decls) == {decls[i].name : i \in DOMAIN decls}

Distinct(decls) == Cardinality(Names(decls)) = Len(decls)

\* Symbol: a variable's type and whether it is an array; functions are apart.
Variable(type, size) == [type |-> type, is_array |-> size # <<>>]

Define(scope, name, symbol) ==
  [x \in DOMAIN scope \cup {name} |-> IF x = name THEN symbol ELSE scope[x]]

(***************************************************************************)
(* analyze_expr.  `scope` holds the visible variables, `functions` the     *)
(* parameter types of every function.                                      *)
(***************************************************************************)
RECURSIVE analyze_expr(_, _, _)

\* MUTANT of scalar: an array's name passes for a value.
ScalarOrArray(scope, x) == x \in DOMAIN scope

\* What can be read or assigned without an index.
scalar(scope, x) == x \in DOMAIN scope /\ ~scope[x].is_array
array(scope, x)  == x \in DOMAIN scope /\ scope[x].is_array

\* MUTANT of ArgumentsMatch: missing arguments are not noticed.
ArgumentsMatchShort(types, params) ==
  /\ Len(types) <= Len(params)
  /\ \A i \in DOMAIN types : types[i] = params[i]

ArgumentsMatch(types, params) == types = params

BinaryType(o, l, r) ==
  CASE "Error" \in {l, r} -> "Error"
    [] o \in Arithmetic -> IF l = "Int" /\ r = "Int" THEN "Int" ELSE "Error"
    [] o \in {"Lt", "Gt", "Le", "Ge"} -> IF l = "Int" /\ r = "Int" THEN "Bool" ELSE "Error"
    [] o \in {"Eq", "Ne"} -> IF l = r THEN "Bool" ELSE "Error"
    [] o \in {"And", "Or"} -> "Bool"

UnaryType(o, t) ==
  CASE t = "Error" -> "Error"
    [] o = "Neg" -> IF t = "Int" THEN "Int" ELSE "Error"
    [] o = "Not" -> "Bool"

analyze_expr(e, scope, functions) ==
  CASE e.kind = "IntLiteral"  -> "Int"
    [] e.kind = "BoolLiteral" -> "Bool"
    [] e.kind = "Identifier"  -> IF scalar(scope, e.name) THEN scope[e.name].type ELSE "Error"
    [] e.kind = "Binary" -> BinaryType(e.op, analyze_expr(e.left, scope, functions),
                                       analyze_expr(e.right, scope, functions))
    [] e.kind = "Unary"  -> UnaryType(e.op, analyze_expr(e.operand, scope, functions))
    [] e.kind = "Call" ->
         IF /\ e.name \in DOMAIN functions
            /\ ArgumentsMatch([i \in DOMAIN e.args |-> analyze_expr(e.args[i], scope, functions)],
                              functions[e.name])
         THEN "Int" ELSE "Error"
    [] e.kind = "ArrayIndex" ->
         IF array(scope, e.name) /\ analyze_expr(e.index, scope, functions) = "Int"
         THEN scope[e.name].type ELSE "Error"

(***************************************************************************)
(* analyze_stmt.  The state: no error so far, the visible variables, and   *)
(* the names that already have a slot in this function.                    *)
(***************************************************************************)
PositiveSize(size) == size = <<>> \/ size[1] > 0

RECURSIVE analyze_stmt(_, _, _)

analyze_block(stmts, s, functions) ==
  FoldLeft(LAMBDA t, stmt : analyze_stmt(stmt, t, functions), s, stmts)

\* push_scope .. pop_scope around a block: the slots it took stay taken.
Scoped(stmts, s, functions) ==
  [analyze_block(stmts, s, functions) EXCEPT !.scope = s.scope]

Shadows(name, s, functions) == name \in DOMAIN s.scope \/ name \in DOMAIN functions

analyze_stmt(stmt, s, functions) ==
  LET typed(e)  == analyze_expr(e, s.scope, functions)
      require(c) == [s EXCEPT !.ok = @ /\ c]
  IN
  CASE stmt.kind = "VarDecl" ->
         IF Shadows(stmt.name, s, functions) THEN [s EXCEPT !.ok = FALSE]
         ELSE LET scope == Define(s.scope, stmt.name, Variable(stmt.type, stmt.size))
                  names == s.names \cup {stmt.name}
              IN  [ok |-> /\ s.ok
                          /\ PositiveSize(stmt.size)
                          /\ Cardinality(names) <= MAX_LOCAL_SLOTS
                          /\ \A i \in DOMAIN stmt.init :
                               analyze_expr(stmt.init[i], scope, functions) = stmt.type,
                   scope |-> scope, names |-> names]
    [] stmt.kind = "Assign" ->
         require(/\ IF stmt.at = <<>> THEN scalar(s.scope, stmt.name)
                    ELSE array(s.scope, stmt.name) /\ typed(stmt.at[1]) = "Int"
                 /\ typed(stmt.expr) = s.scope[stmt.name].type)
    [] stmt.kind = "If" ->
         LET after == Scoped(stmt.body, require(typed(stmt.cond) # "Error"), functions)
         IN  IF stmt.else = <<>> THEN after ELSE Scoped(stmt.else[1], after, functions)
    [] stmt.kind = "While" ->
         Scoped(stmt.body, require(typed(stmt.cond) # "Error"), functions)
    [] stmt.kind = "Return" -> require(typed(stmt.expr) = "Int")
    [] stmt.kind \in {"Print", "ExprStmt"} -> require(typed(stmt.expr) # "Error")

(***************************************************************************)
(* analyze                                                                 *)
(***************************************************************************)

\* collect_declarations: the variables and functions of the top level, ...
GlobalScope(src) ==
  [x \in Names(src.globals) |->
     LET i == CHOOSE i \in DOMAIN src.globals : src.globals[i].name = x
     IN  Variable(src.globals[i].type, src.globals[i].size)]

FunctionTypes(src) ==
  [f \in Names(src.functions) |->
     LET ps == src.functions[CHOOSE i \in DOMAIN src.functions : src.functions[i].name = f].params
     IN  [i \in DOMAIN ps |-> ps[i].type]]

GlobalSlots(src) ==
  FoldLeft(LAMBDA n, g : n + (IF g.size = <<>> THEN 1 ELSE g.size[1]), 0, src.globals)

\* ... their own rules, and the types of the initializers.
collect_declarations(src) ==
  /\ Distinct(src.globals) /\ Distinct(src.functions)
  /\ Names(src.globals) \cap Names(src.functions) = {}
  /\ \A i \in DOMAIN src.globals : PositiveSize(src.globals[i].size)
  /\ GlobalSlots(src) <= MAX_GLOBAL_SLOTS
  /\ \A i \in DOMAIN src.globals : \A j \in DOMAIN src.globals[i].init :
       analyze_expr(src.globals[i].init[j], GlobalScope(src), FunctionTypes(src))
         = src.globals[i].type

analyze_function(f, src) ==
  LET outer == GlobalScope(src)
      params == [x \in Names(f.params) |->
                   Variable((CHOOSE d \in ToSet(f.params) : d.name = x).type, <<>>)]
      start == [ok    |-> /\ Len(f.params) <= MAX_LOCAL_SLOTS
                          /\ Distinct(f.params)
                          /\ Names(f.params) \cap (DOMAIN outer \cup Names(src.functions)) = {},
                scope |-> [x \in DOMAIN outer \cup Names(f.params) |->
                             IF x \in Names(f.params) THEN params[x] ELSE outer[x]],
                names |-> Names(f.params)]
  IN  analyze_block(f.body, start, FunctionTypes(src)).ok

analyze(src) ==
  /\ collect_declarations(src)
  /\ "main" \in Names(src.functions) /\ FunctionTypes(src)["main"] = <<>>
  /\ \A i \in DOMAIN src.functions : analyze_function(src.functions[i], src)
===============================================================================
