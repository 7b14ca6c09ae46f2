------------------------------- MODULE Compiler -------------------------------
(***************************************************************************)
(* The code generator, compiler.rs, on trees the analyzer has accepted.    *)
(*                                                                         *)
(* Code is generated for the pc it starts at, so a jump is emitted with    *)
(* its target instead of being patched.  String interning and the pool of  *)
(* constants are left out: nothing reads them.                             *)
(***************************************************************************)
EXTENDS Syntax, Bytecode, FiniteSets

LOCAL INSTANCE SequencesExt

emit(op, a, b) == <<[opcode |-> op, arg1 |-> a, arg2 |-> b]>>

(***************************************************************************)
(* compile_expr.  env: where the names are.  Its fields are `locals`, from *)
(* the names declared so far to LocalVar records, `globals` and `ids`, the *)
(* function ids.                                                           *)
(***************************************************************************)
RECURSIVE compile_expr(_, _, _), compile_args(_, _, _)

\* Left to right, one behind the other.
compile_args(es, env, at) ==
  IF es = <<>> THEN <<>>
  ELSE LET first == compile_expr(Head(es), env, at)
       IN  first \o compile_args(Tail(es), env, at + Len(first))

\* MUTANT of ShortCircuit: the value is the right operand's, not its truth.
ShortCircuitRaw(op, left, right, at) ==
  LET skip == at + Len(left) + 1 + Len(right) + 1
  IN  left \o emit(IF op = "And" THEN "JumpIfFalse" ELSE "JumpIfTrue", skip, 0)
        \o right \o emit("Jump", skip + 1, 0)
        \o emit("LoadConst", IF op = "And" THEN 0 ELSE 1, 0)

\* && and ||: the right operand only when the left one does not decide.
ShortCircuit(op, left, right, at) ==
  LET skip  == at + Len(left) + 1 + Len(right) + 3
      short == IF op = "And" THEN 0 ELSE 1
  IN  left \o emit(IF op = "And" THEN "JumpIfFalse" ELSE "JumpIfTrue", skip, 0)
        \o right \o emit("LoadConst", 0, 0) \o emit("Ne", 0, 0)
        \o emit("Jump", skip + 1, 0) \o emit("LoadConst", short, 0)

compile_expr(e, env, at) ==
  CASE e.kind = "IntLiteral"  -> emit("LoadConst", e.int, 0)
    [] e.kind = "BoolLiteral" -> emit("LoadConst", Bool(e.bool), 0)
    [] e.kind = "Identifier" ->
         IF e.name \in DOMAIN env.locals
         THEN emit("LoadLocal", env.locals[e.name].slot, 0)
         ELSE emit("LoadGlobal", env.globals[e.name].slot, 0)
    [] e.kind = "Binary" ->
         LET left  == compile_expr(e.left, env, at)
             lazy  == e.op \in {"And", "Or"}
             right == compile_expr(e.right, env, at + Len(left) + (IF lazy THEN 1 ELSE 0))
         IN  IF lazy THEN ShortCircuit(e.op, left, right, at)
             ELSE left \o right \o emit(e.op, 0, 0)
    [] e.kind = "Unary" -> compile_expr(e.operand, env, at) \o emit(e.op, 0, 0)
    [] e.kind = "Call" ->
         compile_args(e.args, env, at) \o emit("Call", env.ids[e.name], Len(e.args))
    [] e.kind = "ArrayIndex" ->
         compile_expr(e.index, env, at) \o
         (IF e.name \in DOMAIN env.locals
          THEN emit("LocalArrayLoad", env.locals[e.name].slot, env.locals[e.name].array_size)
          ELSE emit("ArrayLoad", env.globals[e.name].slot, env.globals[e.name].array_size))

(***************************************************************************)
(* compile_stmt.  c is the compiler at work on a function: the code        *)
(* emitted so far, from pc c.base on, and the environment.                 *)
(***************************************************************************)
RECURSIVE compile_stmt(_, _)

compile_block(stmts, c) == FoldLeft(LAMBDA d, s : compile_stmt(s, d), c, stmts)

current_pc(c) == c.base + Len(c.code)

Emit(c, code) == [c EXCEPT !.code = @ \o code]

Code(c, e) == compile_expr(e, c.env, current_pc(c))

\* A name keeps the LocalVar of its first declaration in the function.
Declare(locals, name, size) ==
  IF name \in DOMAIN locals THEN locals
  ELSE [x \in DOMAIN locals \cup {name} |->
          IF x # name THEN locals[x]
          ELSE [slot |-> Cardinality(DOMAIN locals), is_array |-> size # <<>>,
                array_size |-> IF size = <<>> THEN 0 ELSE size[1]]]

\* MUTANT of Discard: the value of an expression statement stays.
DiscardNothing(c) == c

\* The Pop of an expression statement.
Discard(c) == Emit(c, emit("Pop", 0, 0))

\* What is emitted behind the value of an assignment.
StoreTo(s, env) ==
  LET x == IF s.name \in DOMAIN env.locals THEN env.locals[s.name] ELSE env.globals[s.name]
  IN  IF s.name \in DOMAIN env.locals
      THEN IF s.at # <<>> THEN emit("LocalArrayStore", x.slot, x.array_size)
           ELSE emit("StoreLocal", x.slot, 0)
      ELSE IF s.at # <<>> THEN emit("ArrayStore", x.slot, x.array_size)
           ELSE emit("StoreGlobal", x.slot, 0)

compile_decl(s, c) ==
  LET locals == Declare(c.env.locals, s.name, s.size)
      d      == [c EXCEPT !.env.locals = locals]
      local  == locals[s.name]
  IN  IF local.is_array
      THEN Emit(d, emit("AllocArray", local.array_size, 0) \o emit("StoreLocal", local.slot, 0))
      ELSE IF s.init = <<>> THEN d
      ELSE Emit(d, Code(d, s.init[1]) \o emit("StoreLocal", local.slot, 0))

\* A block behind a conditional jump that leaves it for the pc behind
\* `extra` more instructions.
Conditional(cond, stmts, c, extra) ==
  LET test   == Code(c, cond)
      inside == compile_block(stmts, Emit(c, test \o emit("JumpIfFalse", 0, 0)))
      jump   == Len(c.code) + Len(test) + 1
  IN  [inside EXCEPT !.code[jump].arg1 = current_pc(inside) + extra]

compile_stmt(s, c) ==
  CASE s.kind = "VarDecl" -> compile_decl(s, c)
    [] s.kind = "Assign" ->
         LET index == IF s.at = <<>> THEN c ELSE Emit(c, Code(c, s.at[1]))
         IN  Emit(index, Code(index, s.expr) \o StoreTo(s, c.env))
    [] s.kind = "If" ->
         IF s.else = <<>> THEN Conditional(s.cond, s.body, c, 0)
         ELSE LET then == Emit(Conditional(s.cond, s.body, c, 1), emit("Jump", 0, 0))
                  done == compile_block(s.else[1], then)
              IN  [done EXCEPT !.code[Len(then.code)].arg1 = current_pc(done)]
    [] s.kind = "While" ->
         Emit(Conditional(s.cond, s.body, c, 1), emit("Jump", current_pc(c), 0))
    [] s.kind = "Return"   -> Emit(c, Code(c, s.expr) \o emit("Return", 0, 0))
    [] s.kind = "Print"    -> Emit(c, Code(c, s.expr) \o emit("Print", 0, 0))
    [] s.kind = "ExprStmt" -> Discard(Emit(c, Code(c, s.expr)))

(***************************************************************************)
(* compile                                                                 *)
(***************************************************************************)
RECURSIVE collect_local_decls(_)

\* The names a body declares, nested blocks included.
collect_local_decls(stmts) ==
  UNION {LET s == stmts[i]
         IN  CASE s.kind = "VarDecl" -> {s.name}
               [] s.kind = "While"   -> collect_local_decls(s.body)
               [] s.kind = "If"      -> collect_local_decls(s.body) \cup
                    UNION {collect_local_decls(s.else[j]) : j \in DOMAIN s.else}
               [] OTHER -> {} : i \in DOMAIN stmts}

Size(g) == IF g.size = <<>> THEN 1 ELSE g.size[1]

\* collect_globals: slots in the order of the source.
collect_globals(src) ==
  [x \in {src.globals[i].name : i \in DOMAIN src.globals} |->
     LET i == CHOOSE i \in DOMAIN src.globals : src.globals[i].name = x
         g == src.globals[i]
     IN  [slot |-> FoldLeft(LAMBDA n, h : n + Size(h), 0, SubSeq(src.globals, 1, i - 1)),
          is_array |-> g.size # <<>>,
          array_size |-> IF g.size = <<>> THEN 0 ELSE g.size[1]]]

\* register_functions
register_functions(src) ==
  [f \in {src.functions[i].name : i \in DOMAIN src.functions} |->
     (CHOOSE i \in DOMAIN src.functions : src.functions[i].name = f) - 1]

\* The initializers of the globals, at the head of main.
compile_initializers(src, c) ==
  FoldLeft(LAMBDA d, g :
             IF g.init = <<>> THEN d
             ELSE Emit(d, Code(d, g.init[1]) \o emit("StoreGlobal", d.env.globals[g.name].slot, 0)),
           c, src.globals)

compile_function(f, src, base) ==
  LET params == [x \in {f.params[i].name : i \in DOMAIN f.params} |->
                   [slot |-> (CHOOSE i \in DOMAIN f.params : f.params[i].name = x) - 1,
                    is_array |-> FALSE, array_size |-> 0]]
      fresh  == [base |-> base, code |-> <<>>,
                 env |-> [locals |-> params, globals |-> collect_globals(src),
                          ids |-> register_functions(src)]]
      start  == IF f.name = "main" THEN compile_initializers(src, fresh) ELSE fresh
  IN  [code |-> compile_block(f.body, start).code
                  \o emit("LoadConst", 0, 0) \o emit("Return", 0, 0),
       info |-> [entry_pc |-> base, param_count |-> Len(f.params),
                 local_count |-> Cardinality(DOMAIN params \cup collect_local_decls(f.body))]]

compile(src) ==
  LET next(p, f) ==
        LET done == compile_function(f, src, Len(p.instructions))
        IN  [p EXCEPT !.instructions = @ \o done.code, !.infos = Append(@, done.info)]
      all == FoldLeft(next, [instructions |-> <<>>, infos |-> <<>>], src.functions)
  IN  [instructions |-> all.instructions,
       functions    |-> [id \in 0 .. Len(all.infos) - 1 |-> all.infos[id + 1]],
       globals      |-> collect_globals(src),
       main_func_id |-> register_functions(src)["main"]]
===============================================================================
