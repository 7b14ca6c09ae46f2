-------------------------------- MODULE Emitter --------------------------------
(***************************************************************************)
(* From syntax trees back to text: emit_program of fuzz.rs, as the tokens  *)
(* of what it writes.  Layout is left out.                                 *)
(*                                                                         *)
(* The emitter writes parentheses around every operator.  The parser is    *)
(* checked with a second style that writes only those the precedences of   *)
(* docs/grammar.md call for.                                               *)
(***************************************************************************)
EXTENDS Syntax, Integers

LOCAL INSTANCE SequencesExt

Styles == {"emit", "grammar"}

Symbol ==
  [Or |-> "Or", And |-> "And", Eq |-> "Eq", Ne |-> "Ne", Lt |-> "Lt", Gt |-> "Gt",
   Le |-> "Le", Ge |-> "Ge", Add |-> "Plus", Sub |-> "Minus", Mul |-> "Star",
   Div |-> "Slash", Neg |-> "Minus", Not |-> "Not"]

\* docs/grammar.md: operators "by precedence, lowest to highest".
Precedence(e) ==
  CASE e.kind = "Binary" ->
         (CASE e.op = "Or" -> 1
            [] e.op = "And" -> 2
            [] e.op \in {"Eq", "Ne"} -> 3
            [] e.op \in {"Lt", "Gt", "Le", "Ge"} -> 4
            [] e.op \in {"Add", "Sub"} -> 5
            [] e.op \in {"Mul", "Div"} -> 6)
    [] e.kind = "Unary" -> 7
    [] OTHER -> 8

\* Whether e stands where the grammar wants at least this precedence.
Parenthesized(style, e, least) ==
  IF style = "emit" THEN e.kind \in {"Binary", "Unary"} ELSE Precedence(e) < least

\* Sequences of tokens with a separator between them.
Joined(texts, sep) ==
  FlattenSeq([i \in 1 .. Len(texts) |-> IF i = 1 THEN texts[i] ELSE <<Tok(sep)>> \o texts[i]])

Within(open, text, close) == <<Tok(open)>> \o text \o <<Tok(close)>>

RECURSIVE emit_expr(_, _, _), emit_stmt(_, _)

\* All levels associate to the left.
emit_expr(style, e, least) ==
  LET text ==
        CASE e.kind = "IntLiteral"  -> <<TokInt(e.int)>>
          [] e.kind = "BoolLiteral" -> <<TokBool(e.bool)>>
          [] e.kind = "Identifier"  -> <<TokId(e.name)>>
          [] e.kind = "Binary" ->
               emit_expr(style, e.left, Precedence(e)) \o <<Tok(Symbol[e.op])>>
                 \o emit_expr(style, e.right, Precedence(e) + 1)
          [] e.kind = "Unary" -> <<Tok(Symbol[e.op])>> \o emit_expr(style, e.operand, 7)
          [] e.kind = "Call" ->
               <<TokId(e.name)>> \o
               Within("LParen",
                      Joined([i \in 1 .. Len(e.args) |-> emit_expr(style, e.args[i], 1)], "Comma"),
                      "RParen")
          [] e.kind = "ArrayIndex" ->
               <<TokId(e.name)>> \o Within("LBracket", emit_expr(style, e.index, 1), "RBracket")
  IN  IF Parenthesized(style, e, least) THEN Within("LParen", text, "RParen") ELSE text

\* emit_global and the VarDecl of emit_stmt: an array has no initializer.
emit_decl(style, d) ==
  <<Tok(d.type), TokId(d.name)>>
    \o (IF d.size # <<>> THEN Within("LBracket", <<TokInt(d.size[1])>>, "RBracket")
        ELSE IF d.init # <<>> THEN <<Tok("Assign")>> \o emit_expr(style, d.init[1], 1)
        ELSE <<>>)
    \o <<Tok("Semicolon")>>

emit_body(style, stmts) ==
  Within("LBrace", FlattenSeq([i \in 1 .. Len(stmts) |-> emit_stmt(style, stmts[i])]), "RBrace")

emit_cond(style, c) == Within("LParen", emit_expr(style, c, 1), "RParen")

emit_stmt(style, s) ==
  CASE s.kind = "VarDecl" -> emit_decl(style, s)
    [] s.kind = "Assign" ->
         <<TokId(s.name)>>
           \o (IF s.at = <<>> THEN <<>>
               ELSE Within("LBracket", emit_expr(style, s.at[1], 1), "RBracket"))
           \o <<Tok("Assign")>> \o emit_expr(style, s.expr, 1) \o <<Tok("Semicolon")>>
    [] s.kind = "If" ->
         <<Tok("If")>> \o emit_cond(style, s.cond) \o emit_body(style, s.body)
           \o (IF s.else = <<>> THEN <<>> ELSE <<Tok("Else")>> \o emit_body(style, s.else[1]))
    [] s.kind = "While" -> <<Tok("While")>> \o emit_cond(style, s.cond) \o emit_body(style, s.body)
    [] s.kind \in {"Return", "Print"} ->
         <<Tok(s.kind)>> \o emit_expr(style, s.expr, 1) \o <<Tok("Semicolon")>>
    [] s.kind = "ExprStmt" -> emit_expr(style, s.expr, 1) \o <<Tok("Semicolon")>>

emit_param(d) == <<Tok(d.type), TokId(d.name)>>

emit_function(style, f) ==
  <<Tok("Func"), TokId(f.name)>>
    \o Within("LParen", Joined([i \in 1 .. Len(f.params) |-> emit_param(f.params[i])], "Comma"),
              "RParen")
    \o emit_body(style, f.body)

emit_program(style, src) ==
  FlattenSeq([i \in 1 .. Len(src.globals) |-> emit_decl(style, src.globals[i])])
    \o FlattenSeq([i \in 1 .. Len(src.functions) |-> emit_function(style, src.functions[i])])
    \o <<Tok("Eof")>>
===============================================================================
