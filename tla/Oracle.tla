-------------------------------- MODULE Oracle --------------------------------
(***************************************************************************)
(* The source-level interpreter, oracle.rs: what a syntax tree means,      *)
(* without bytecode.                                                       *)
(*                                                                         *)
(* s is the AstOracle at work, with what the last call yielded: `value`    *)
(* and `returning` (Control::Return), and the trap once there is one.      *)
(* A frame is one function from names to slots: frames never have more     *)
(* than their root scope, since exec_block does not open one.  A slot's    *)
(* cells are the elements of an array, or at most one value.               *)
(***************************************************************************)
EXTENDS Syntax, Bytecode

LOCAL INSTANCE SequencesExt

Scalar(cells) == [is_array |-> FALSE, cells |-> cells]
Zeros(n)      == [is_array |-> TRUE, cells |-> [i \in 1 .. n |-> 0]]

Fail(s, code)   == [s EXCEPT !.trap = code]
Yield(s, value) == [s EXCEPT !.value = value]

\* The `?` operator: nothing more happens after a trap.
Go(s, Next(_)) == IF s.trap # "None" THEN s ELSE Next(s)

tick(s) ==
  IF s.cycles >= MAX_CYCLES THEN Fail(s, "CycleLimit") ELSE [s EXCEPT !.cycles = @ + 1]

(***************************************************************************)
(* Names: the innermost frame, then the globals.                           *)
(***************************************************************************)
InFrame(s, x) == s.frames # <<>> /\ x \in DOMAIN s.frames[Len(s.frames)]

Known(s, x) == InFrame(s, x) \/ x \in DOMAIN s.globals

lookup_slot(s, x) == IF InFrame(s, x) THEN s.frames[Len(s.frames)][x] ELSE s.globals[x]

\* current_scope_mut().insert
Insert(s, x, slot) ==
  [s EXCEPT !.frames[Len(s.frames)] =
     [y \in DOMAIN @ \cup {x} |-> IF y = x THEN slot ELSE @[y]]]

\* Writing through lookup_slot_mut; declare_or_update for a new array.
Update(s, x, slot) ==
  IF InFrame(s, x) \/ ~Known(s, x) THEN Insert(s, x, slot)
  ELSE [s EXCEPT !.globals[x] = slot]

read_scalar(s, x) ==
  CASE ~Known(s, x) \/ lookup_slot(s, x).is_array -> Fail(s, "InvalidInstruction")
    [] Known(s, x) /\ lookup_slot(s, x).cells = <<>> -> Fail(s, "UndefinedLocal")
    [] OTHER -> Yield(s, lookup_slot(s, x).cells[1])

assign_scalar(s, x, v) ==
  IF ~Known(s, x) \/ lookup_slot(s, x).is_array THEN Fail(s, "InvalidInstruction")
  ELSE Update(s, x, Scalar(<<normalize_i32(v)>>))

\* The checks of read_array and assign_array; index and cells count from 0.
ArrayTrap(s, a, i) ==
  IF ~Known(s, a) \/ ~lookup_slot(s, a).is_array THEN "InvalidInstruction"
  ELSE IF i >= Len(lookup_slot(s, a).cells) THEN "ArrayOutOfBounds"
  ELSE "None"

read_array(s, a, i) ==
  IF ArrayTrap(s, a, i) # "None" THEN Fail(s, ArrayTrap(s, a, i))
  ELSE Yield(s, lookup_slot(s, a).cells[i + 1])

assign_array(s, a, i, v) ==
  IF ArrayTrap(s, a, i) # "None" THEN Fail(s, ArrayTrap(s, a, i))
  ELSE Update(s, a, [lookup_slot(s, a) EXCEPT !.cells[i + 1] = normalize_i32(v)])

checked_array_index(s) == IF s.value < 0 THEN Fail(s, "ArrayOutOfBounds") ELSE s

(***************************************************************************)
(* Expressions, statements and calls.                                      *)
(***************************************************************************)
RECURSIVE eval_expr(_, _, _), eval_args(_, _, _, _), exec_stmt(_, _, _),
          repeat(_, _, _), call_function(_, _, _, _), exec_block(_, _, _)

eval_binary(s, op, left, right) ==
  IF op = "Div" /\ right = 0 THEN Fail(s, "DivideByZero")
  ELSE Yield(s, BinaryResult(op, left, right))

\* The arguments from left to right, then the call.
eval_args(src, e, vs, s) ==
  IF Len(vs) = Len(e.args) THEN call_function(src, e.name, vs, s)
  ELSE Go(eval_expr(src, e.args[Len(vs) + 1], s),
          LAMBDA t : eval_args(src, e, Append(vs, t.value), t))

\* && and ||
eval_lazy(src, e, s) ==
  Go(eval_expr(src, e.left, s),
     LAMBDA t :
       IF (t.value = 0) = (e.op = "And") THEN Yield(t, Bool(t.value # 0))
       ELSE Go(eval_expr(src, e.right, t), LAMBDA u : Yield(u, Bool(u.value # 0))))

eval_expr(src, e, s0) ==
  Go(tick(s0), LAMBDA s :
    CASE e.kind = "IntLiteral"  -> Yield(s, e.int)
      [] e.kind = "BoolLiteral" -> Yield(s, Bool(e.bool))
      [] e.kind = "Identifier"  -> read_scalar(s, e.name)
      [] e.kind = "Binary" /\ e.op \in {"And", "Or"} -> eval_lazy(src, e, s)
      [] e.kind = "Binary" /\ e.op \notin {"And", "Or"} ->
           Go(eval_expr(src, e.left, s), LAMBDA t :
             Go(eval_expr(src, e.right, t), LAMBDA u :
               eval_binary(u, e.op, t.value, u.value)))
      [] e.kind = "Unary" ->
           Go(eval_expr(src, e.operand, s), LAMBDA t : Yield(t, UnaryResult(e.op, t.value)))
      [] e.kind = "Call" -> eval_args(src, e, <<>>, s)
      [] e.kind = "ArrayIndex" ->
           Go(eval_expr(src, e.index, s), LAMBDA t :
             Go(checked_array_index(t), LAMBDA u : read_array(u, e.name, u.value))))

call_function(src, f, args, s0) ==
  Go(tick(s0), LAMBDA s :
    LET fns == {i \in DOMAIN src.functions : src.functions[i].name = f}
        fn  == src.functions[CHOOSE i \in fns : TRUE]
    IN  CASE Len(s.frames) >= MAX_FRAMES -> Fail(s, "StackOverflow")
          [] Len(s.frames) < MAX_FRAMES /\ fns = {} -> Fail(s, "UndefinedFunction")
          [] Len(s.frames) < MAX_FRAMES /\ fns # {} /\ Len(args) # Len(fn.params) ->
               Fail(s, "InvalidInstruction")
          [] OTHER ->
               LET root == [x \in {fn.params[i].name : i \in DOMAIN fn.params} |->
                              Scalar(<<normalize_i32(
                                args[CHOOSE i \in DOMAIN args : fn.params[i].name = x])>>)]
               IN  Go(exec_block(src, fn.body, [s EXCEPT !.frames = Append(@, root)]),
                      LAMBDA t : [t EXCEPT !.frames = s.frames, !.returning = FALSE,
                                    !.value = IF t.returning THEN normalize_i32(@) ELSE 0]))

exec_block(src, stmts, s) ==
  IF stmts = <<>> THEN s
  ELSE Go(exec_stmt(src, Head(stmts), s),
          LAMBDA t : IF t.returning THEN t ELSE exec_block(src, Tail(stmts), t))

\* The loop of a while statement.
repeat(src, stmt, s) ==
  Go(eval_expr(src, stmt.cond, s), LAMBDA t :
    IF t.value = 0 THEN t
    ELSE Go(exec_block(src, stmt.body, t),
            LAMBDA u : IF u.returning THEN u ELSE repeat(src, stmt, u)))

exec_decl(src, d, s) ==
  LET declared == IF Known(s, d.name) THEN s ELSE Insert(s, d.name, Scalar(<<>>))
  IN  IF d.size # <<>> THEN Update(s, d.name, Zeros(d.size[1]))
      ELSE IF d.init = <<>> THEN declared
      ELSE Go(eval_expr(src, d.init[1], declared), LAMBDA t : assign_scalar(t, d.name, t.value))

exec_stmt(src, stmt, s0) ==
  Go(tick(s0), LAMBDA s :
    CASE stmt.kind = "VarDecl" -> exec_decl(src, stmt, s)
      [] stmt.kind = "Assign" /\ stmt.at = <<>> ->
           Go(eval_expr(src, stmt.expr, s), LAMBDA t : assign_scalar(t, stmt.name, t.value))
      [] stmt.kind = "Assign" /\ stmt.at # <<>> ->
           Go(eval_expr(src, stmt.at[1], s), LAMBDA t :
             Go(checked_array_index(t), LAMBDA u :
               Go(eval_expr(src, stmt.expr, u), LAMBDA v :
                 assign_array(v, stmt.name, u.value, v.value))))
      [] stmt.kind = "If" ->
           Go(eval_expr(src, stmt.cond, s), LAMBDA t :
             IF t.value # 0 THEN exec_block(src, stmt.body, t)
             ELSE IF stmt.else # <<>> THEN exec_block(src, stmt.else[1], t)
             ELSE t)
      [] stmt.kind = "While"  -> repeat(src, stmt, s)
      [] stmt.kind = "Return" ->
           Go(eval_expr(src, stmt.expr, s), LAMBDA t : [t EXCEPT !.returning = TRUE])
      [] stmt.kind = "Print"  ->
           Go(eval_expr(src, stmt.expr, s), LAMBDA t : [t EXCEPT !.output = Append(@, t.value)])
      [] stmt.kind = "ExprStmt" -> eval_expr(src, stmt.expr, s))

(***************************************************************************)
(* run_ast_oracle                                                          *)
(***************************************************************************)

\* AstOracle::new
Start(src) ==
  [globals |-> [x \in {src.globals[i].name : i \in DOMAIN src.globals} |->
      LET g == src.globals[CHOOSE i \in DOMAIN src.globals : src.globals[i].name = x]
      IN  IF g.size = <<>> THEN Scalar(<<0>>) ELSE Zeros(g.size[1])],
   frames |-> <<>>, output |-> <<>>, cycles |-> 0,
   value |-> 0, returning |-> FALSE, trap |-> "None"]

initialize_globals(src) ==
  FoldLeft(LAMBDA s, g :
             IF g.init = <<>> THEN s
             ELSE Go(s, LAMBDA t : Go(eval_expr(src, g.init[1], t),
                                      LAMBDA u : assign_scalar(u, g.name, u.value))),
           Start(src), src.globals)

\* OracleOutcome: success is the absence of a trap.
run_ast_oracle(src) ==
  LET s == Go(initialize_globals(src), LAMBDA t : call_function(src, "main", <<>>, t))
  IN  [return_value |-> IF s.trap = "None" THEN s.value ELSE 0,
       trap_code |-> s.trap, output |-> s.output]
===============================================================================
