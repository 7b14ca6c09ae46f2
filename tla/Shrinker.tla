------------------------------- MODULE Shrinker -------------------------------
(***************************************************************************)
(* The candidates the shrinker of fuzz.rs tries on a failing program, as   *)
(* sets: any of them may be the first that fails in the same way.          *)
(***************************************************************************)
EXTENDS Syntax, Integers

LOCAL INSTANCE SequencesExt

Zero == IntLit(0)

\* MUTANT of BoolShrinks: either literal is replaced by the other.
BoolShrinksBoth(b) == {BoolLit(~b)}

BoolShrinks(b) == IF b THEN {BoolLit(FALSE)} ELSE {}

RECURSIVE expr_shrink_candidates(_)

expr_shrink_candidates(e) ==
  CASE e.kind = "IntLiteral"  -> {Zero} \ {e}
    [] e.kind = "BoolLiteral" -> BoolShrinks(e.bool)
    [] e.kind = "Identifier"  -> {Zero}
    [] e.kind = "Binary" ->
         {e.left, e.right, Zero}
           \cup {Bin(e.op, l, e.right) : l \in expr_shrink_candidates(e.left)}
           \cup {Bin(e.op, e.left, r) : r \in expr_shrink_candidates(e.right)}
    [] e.kind = "Unary" ->
         {e.operand} \cup {Un(e.op, o) : o \in expr_shrink_candidates(e.operand)}
    [] e.kind = "Call" ->
         {Zero} \cup UNION {{CallOf(e.name, [e.args EXCEPT ![i] = a]) :
                               a \in expr_shrink_candidates(e.args[i])} : i \in DOMAIN e.args}
    [] e.kind = "ArrayIndex" ->
         {Zero, Elem(e.name, Zero)}
           \cup {Elem(e.name, i) : i \in expr_shrink_candidates(e.index)}

RECURSIVE body_shrink_candidates(_)

\* A statement is replaced by a sequence of statements: an if statement or a
\* loop by its body.
stmt_shrink_candidates(s) ==
  CASE s.kind = "VarDecl" ->
         UNION {{<<VarDecl(s.type, s.name, <<e>>, s.size)>> :
                   e \in expr_shrink_candidates(s.init[i])} : i \in DOMAIN s.init}
    [] s.kind = "Assign" ->
         {<<Assign(s.name, s.at, e)>> : e \in expr_shrink_candidates(s.expr)}
           \cup UNION {{<<Assign(s.name, <<e>>, s.expr)>> :
                          e \in {Zero} \cup expr_shrink_candidates(s.at[i])} : i \in DOMAIN s.at}
    [] s.kind = "If" ->
         {s.body} \cup {s.else[j] : j \in DOMAIN s.else}
           \cup {<<IfElse(c, s.body, s.else)>> : c \in expr_shrink_candidates(s.cond)}
           \cup {<<IfElse(s.cond, b, s.else)>> : b \in body_shrink_candidates(s.body)}
           \cup UNION {{<<IfElse(s.cond, s.body, <<b>>)>> :
                          b \in body_shrink_candidates(s.else[j])} : j \in DOMAIN s.else}
    [] s.kind = "While" ->
         {s.body} \cup {<<While(c, s.body)>> : c \in expr_shrink_candidates(s.cond)}
           \cup {<<While(s.cond, b)>> : b \in body_shrink_candidates(s.body)}
    [] s.kind = "Return"   -> {<<ReturnOf(e)>> : e \in expr_shrink_candidates(s.expr)}
    [] s.kind = "Print"    -> {<<PrintOf(e)>> : e \in expr_shrink_candidates(s.expr)}
    [] s.kind = "ExprStmt" -> {<<ExprStmt(e)>> : e \in expr_shrink_candidates(s.expr)}

Splice(seq, i, by) == SubSeq(seq, 1, i - 1) \o by \o SubSeq(seq, i + 1, Len(seq))

body_shrink_candidates(body) ==
  UNION {{Splice(body, i, by) :
            by \in stmt_shrink_candidates(body[i])
                     \cup (IF body[i].kind = "Return" THEN {} ELSE {<<>>})} : i \in DOMAIN body}

ast_shrink_candidates(src) ==
  {[src EXCEPT !.globals = Splice(@, i, <<>>)] : i \in DOMAIN src.globals}
    \cup {[src EXCEPT !.functions = Splice(@, i, <<>>)] :
            i \in {i \in DOMAIN src.functions : src.functions[i].name # "main"}}
    \cup UNION {{[src EXCEPT !.functions[i].body = b] :
                   b \in body_shrink_candidates(src.functions[i].body)} : i \in DOMAIN src.functions}

\* find_ast_shrink: a candidate whose text is the current text is passed over.
\* Texts of the emitter (`emitted`) are the same when the trees are; a source
\* laid out in another way differs from the text of its own tree.
find_ast_shrinks(src, emitted) ==
  ast_shrink_candidates(src) \ (IF emitted THEN {src} ELSE {})

(***************************************************************************)
(* A size for programs: one for each node, and one more for an expression  *)
(* that is neither 0 nor false.                                            *)
(***************************************************************************)
RECURSIVE ExprSize(_), BodySize(_)

Total(seq, Size(_)) == FoldLeft(LAMBDA n, x : n + Size(x), 0, seq)

ExprSize(e) ==
  CASE e.kind \in {"IntLiteral", "BoolLiteral", "Identifier"} ->
         IF e \in {Zero, BoolLit(FALSE)} THEN 1 ELSE 2
    [] e.kind = "Binary" -> 2 + ExprSize(e.left) + ExprSize(e.right)
    [] e.kind = "Unary"  -> 2 + ExprSize(e.operand)
    [] e.kind = "Call"   -> 2 + Total(e.args, ExprSize)
    [] e.kind = "ArrayIndex" -> 2 + ExprSize(e.index)

StmtSize(s) ==
  CASE s.kind = "VarDecl" -> 1 + Total(s.init, ExprSize)
    [] s.kind = "Assign"  -> 1 + ExprSize(s.expr) + Total(s.at, ExprSize)
    [] s.kind = "If"      -> 1 + ExprSize(s.cond) + BodySize(s.body) + Total(s.else, BodySize)
    [] s.kind = "While"   -> 1 + ExprSize(s.cond) + BodySize(s.body)
    [] OTHER -> 1 + ExprSize(s.expr)

BodySize(stmts) == Total(stmts, StmtSize)

SourceSize(src) ==
  Len(src.globals) + Len(src.functions) + Total(src.functions, LAMBDA f : BodySize(f.body))
===============================================================================
