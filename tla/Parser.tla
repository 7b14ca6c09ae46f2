-------------------------------- MODULE Parser --------------------------------
(***************************************************************************)
(* The recursive descent parser, parser.rs, on token sequences that end in *)
(* Eof.                                                                    *)
(*                                                                         *)
(* A parsing operator takes the tokens and a position and yields           *)
(* Parsed(node, position behind it), or Failed for the first error.        *)
(***************************************************************************)
EXTENDS Syntax, Integers

LOCAL INSTANCE SequencesExt

Parsed(node, p) == [ok |-> TRUE, node |-> node, pos |-> p]
Failed == [ok |-> FALSE]

\* The `?` operator: go on with the node and the position, or fail.
Then(r, Next(_, _)) == IF r.ok THEN Next(r.node, r.pos) ELSE Failed

\* expect, match_token and check
Is(ts, p, kind) == ts[p].kind = kind
Expect(ts, p, kind, node) == IF Is(ts, p, kind) THEN Parsed(node, p + 1) ELSE Failed

\* token_at
KindAt(ts, p) == IF p > Len(ts) THEN "Eof" ELSE ts[p].kind

(***************************************************************************)
(* Expressions.  The six binary levels, loosest first, are loops of the    *)
(* same shape: parse_or .. parse_multiplicative.                           *)
(***************************************************************************)
OpOf ==
  [Or |-> "Or", And |-> "And", Eq |-> "Eq", Ne |-> "Ne", Lt |-> "Lt", Gt |-> "Gt",
   Le |-> "Le", Ge |-> "Ge", Plus |-> "Add", Minus |-> "Sub", Star |-> "Mul",
   Slash |-> "Div"]

\* MUTANT of Levels: comparisons bind tighter than sums.
LevelsSwapped ==
  <<{"Or"}, {"And"}, {"Eq", "Ne"}, {"Plus", "Minus"}, {"Lt", "Gt", "Le", "Ge"},
    {"Star", "Slash"}>>

Levels ==
  <<{"Or"}, {"And"}, {"Eq", "Ne"}, {"Lt", "Gt", "Le", "Ge"}, {"Plus", "Minus"},
    {"Star", "Slash"}>>

RECURSIVE parse_binary(_, _, _), parse_operators(_, _, _, _), parse_unary(_, _),
          parse_args(_, _, _)

parse_expr(ts, p) == parse_binary(1, ts, p)

parse_binary(n, ts, p) ==
  IF n > Len(Levels) THEN parse_unary(ts, p)
  ELSE Then(parse_binary(n + 1, ts, p),
            LAMBDA left, q : parse_operators(n, ts, left, q))

\* The loop of a level: the operators associate to the left.
parse_operators(n, ts, left, p) ==
  IF ts[p].kind \notin Levels[n] THEN Parsed(left, p)
  ELSE Then(parse_binary(n + 1, ts, p + 1),
            LAMBDA right, q : parse_operators(n, ts, Bin(OpOf[ts[p].kind], left, right), q))

\* Arguments up to the closing parenthesis; one has been read when es # <<>>.
parse_args(ts, es, p) ==
  IF es = <<>> /\ Is(ts, p, "RParen") THEN Parsed(es, p)
  ELSE Then(parse_expr(ts, p),
            LAMBDA e, q : IF Is(ts, q, "Comma") THEN parse_args(ts, Append(es, e), q + 1)
                          ELSE Parsed(Append(es, e), q))

parse_primary(ts, p) ==
  CASE Is(ts, p, "IntLiteral")  -> Parsed(IntLit(ts[p].int), p + 1)
    [] Is(ts, p, "BoolLiteral") -> Parsed(BoolLit(ts[p].bool), p + 1)
    [] Is(ts, p, "Identifier") /\ KindAt(ts, p + 1) = "LParen" ->
         Then(parse_args(ts, <<>>, p + 2),
              LAMBDA es, q : Expect(ts, q, "RParen", CallOf(ts[p].name, es)))
    [] Is(ts, p, "Identifier") /\ KindAt(ts, p + 1) = "LBracket" ->
         Then(parse_expr(ts, p + 2),
              LAMBDA e, q : Expect(ts, q, "RBracket", Elem(ts[p].name, e)))
    [] Is(ts, p, "Identifier") /\ KindAt(ts, p + 1) \notin {"LParen", "LBracket"} ->
         Parsed(Id(ts[p].name), p + 1)
    [] Is(ts, p, "LParen") ->
         Then(parse_expr(ts, p + 1), LAMBDA e, q : Expect(ts, q, "RParen", e))
    [] OTHER -> Failed

parse_unary(ts, p) ==
  CASE Is(ts, p, "Minus") ->
         Then(parse_unary(ts, p + 1), LAMBDA e, q : Parsed(Un("Neg", e), q))
    [] Is(ts, p, "Not") ->
         Then(parse_unary(ts, p + 1), LAMBDA e, q : Parsed(Un("Not", e), q))
    [] OTHER -> parse_primary(ts, p)

(***************************************************************************)
(* Declarations and statements.                                            *)
(***************************************************************************)
Types == {"Int", "Bool"}

\* parse_type and the identifier behind it, as in parse_param.
parse_param(ts, p) ==
  IF ts[p].kind \in Types /\ KindAt(ts, p + 1) = "Identifier"
  THEN Parsed(Param(ts[p].kind, ts[p + 1].name), p + 2)
  ELSE Failed

\* An expression and the semicolon behind it.
Terminated(ts, p, Node(_)) ==
  Then(parse_expr(ts, p), LAMBDA e, q : Expect(ts, q, "Semicolon", Node(e)))

\* parse_var_decl and parse_global
parse_var_decl(ts, p) ==
  Then(parse_param(ts, p),
       LAMBDA d, q :
         CASE Is(ts, q, "LBracket") ->
                IF KindAt(ts, q + 1) = "IntLiteral" /\ KindAt(ts, q + 2) = "RBracket"
                THEN Expect(ts, q + 3, "Semicolon",
                            VarDecl(d.type, d.name, <<>>, <<ts[q + 1].int>>))
                ELSE Failed
           [] Is(ts, q, "Assign") ->
                Terminated(ts, q + 1, LAMBDA e : VarDecl(d.type, d.name, <<e>>, <<>>))
           [] OTHER -> Expect(ts, q, "Semicolon", VarDecl(d.type, d.name, <<>>, <<>>)))

\* is_assignment_start: the brackets behind the name are skipped, counting.
Depth(ts, p, q) ==
  Len(SelectSeq(SubSeq(ts, p, q), LAMBDA t : t.kind = "LBracket"))
    - Len(SelectSeq(SubSeq(ts, p, q), LAMBDA t : t.kind = "RBracket"))

is_assignment_start(ts, p) ==
  LET closing == {q \in p + 2 .. Len(ts) : Depth(ts, p + 1, q) = 0}
  IN  \/ KindAt(ts, p + 1) = "Assign"
      \/ /\ KindAt(ts, p + 1) = "LBracket"
         /\ closing # {}
         /\ KindAt(ts, (CHOOSE q \in closing : \A r \in closing : q <= r) + 1) = "Assign"

parse_assignment(ts, p) ==
  IF Is(ts, p + 1, "LBracket")
  THEN Then(parse_expr(ts, p + 2),
            LAMBDA i, q :
              IF Is(ts, q, "RBracket") /\ KindAt(ts, q + 1) = "Assign"
              THEN Terminated(ts, q + 2, LAMBDA e : Assign(ts[p].name, <<i>>, e))
              ELSE Failed)
  ELSE Terminated(ts, p + 2, LAMBDA e : Assign(ts[p].name, <<>>, e))

RECURSIVE parse_stmt(_, _), parse_stmts(_, _, _), parse_params(_, _, _),
          parse_items(_, _, _)

parse_stmts(ts, stmts, p) ==
  IF ts[p].kind \in {"RBrace", "Eof"} THEN Expect(ts, p, "RBrace", stmts)
  ELSE Then(parse_stmt(ts, p), LAMBDA s, q : parse_stmts(ts, Append(stmts, s), q))

parse_block(ts, p) ==
  IF Is(ts, p, "LBrace") THEN parse_stmts(ts, <<>>, p + 1) ELSE Failed

\* The condition of parse_if and parse_while, and the block behind it.
Guarded(ts, p, Node(_, _)) ==
  IF ~Is(ts, p, "LParen") THEN Failed
  ELSE Then(parse_expr(ts, p + 1),
            LAMBDA c, q :
              IF ~Is(ts, q, "RParen") THEN Failed
              ELSE Then(parse_block(ts, q + 1), LAMBDA b, r : Parsed(Node(c, b), r)))

parse_if(ts, p) ==
  Then(Guarded(ts, p + 1, LAMBDA c, b : IfElse(c, b, <<>>)),
       LAMBDA s, q :
         IF ~Is(ts, q, "Else") THEN Parsed(s, q)
         ELSE Then(parse_block(ts, q + 1),
                   LAMBDA b, r : Parsed(IfElse(s.cond, s.body, <<b>>), r)))

ExprStart == {"Identifier", "IntLiteral", "BoolLiteral", "LParen", "Minus", "Not"}

parse_stmt(ts, p) ==
  CASE ts[p].kind \in Types -> parse_var_decl(ts, p)
    [] Is(ts, p, "If")      -> parse_if(ts, p)
    [] Is(ts, p, "While")   -> Guarded(ts, p + 1, While)
    [] Is(ts, p, "Return")  -> Terminated(ts, p + 1, ReturnOf)
    [] Is(ts, p, "Print")   -> Terminated(ts, p + 1, PrintOf)
    [] ts[p].kind \in ExprStart ->
         IF Is(ts, p, "Identifier") /\ is_assignment_start(ts, p)
         THEN parse_assignment(ts, p)
         ELSE Terminated(ts, p, ExprStmt)
    [] OTHER -> Failed

parse_params(ts, ps, p) ==
  IF ps = <<>> /\ Is(ts, p, "RParen") THEN Parsed(ps, p + 1)
  ELSE Then(parse_param(ts, p),
            LAMBDA d, q : IF Is(ts, q, "Comma") THEN parse_params(ts, Append(ps, d), q + 1)
                          ELSE Expect(ts, q, "RParen", Append(ps, d)))

parse_function(ts, p) ==
  IF KindAt(ts, p + 1) = "Identifier" /\ KindAt(ts, p + 2) = "LParen"
  THEN Then(parse_params(ts, <<>>, p + 3),
            LAMBDA ps, q :
              Then(parse_block(ts, q),
                   LAMBDA b, r : Parsed(Function(ts[p + 1].name, ps, b), r)))
  ELSE Failed

\* The loop of parse.
parse_items(ts, src, p) ==
  CASE Is(ts, p, "Eof")  -> Parsed(src, p)
    [] Is(ts, p, "Func") ->
         Then(parse_function(ts, p),
              LAMBDA f, q : parse_items(ts, Source(src.globals, Append(src.functions, f)), q))
    [] ts[p].kind \in Types ->
         Then(parse_var_decl(ts, p),
              LAMBDA g, q : parse_items(ts, Source(Append(src.globals, g), src.functions), q))
    [] OTHER -> Failed

parse(ts) == parse_items(ts, Source(<<>>, <<>>), 1)
===============================================================================
