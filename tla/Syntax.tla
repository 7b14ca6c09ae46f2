-------------------------------- MODULE Syntax --------------------------------
(***************************************************************************)
(* The syntax trees of ast.rs and the tokens of token.rs.  Source          *)
(* positions are left out: only messages carry them.  An Option is a       *)
(* sequence of at most one element.  Fields of different types have        *)
(* different names, so that any two trees can be compared.                 *)
(***************************************************************************)
EXTENDS Sequences

(***************************************************************************)
(* Expr                                                                    *)
(***************************************************************************)
IntLit(n)         == [kind |-> "IntLiteral", int |-> n]
BoolLit(b)        == [kind |-> "BoolLiteral", bool |-> b]
Id(x)             == [kind |-> "Identifier", name |-> x]
Bin(o, l, r)      == [kind |-> "Binary", op |-> o, left |-> l, right |-> r]
Un(o, e)          == [kind |-> "Unary", op |-> o, operand |-> e]
CallOf(f, es)     == [kind |-> "Call", name |-> f, args |-> es]
Elem(a, i)        == [kind |-> "ArrayIndex", name |-> a, index |-> i]

(***************************************************************************)
(* Stmt                                                                    *)
(***************************************************************************)
VarDecl(t, x, init, size) ==
  [kind |-> "VarDecl", type |-> t, name |-> x, init |-> init, size |-> size]
Assign(x, at, e)  == [kind |-> "Assign", name |-> x, at |-> at, expr |-> e]
IfElse(c, then, else) == [kind |-> "If", cond |-> c, body |-> then, else |-> else]
While(c, body)    == [kind |-> "While", cond |-> c, body |-> body]
ReturnOf(e)       == [kind |-> "Return", expr |-> e]
PrintOf(e)        == [kind |-> "Print", expr |-> e]
ExprStmt(e)       == [kind |-> "ExprStmt", expr |-> e]

(***************************************************************************)
(* Function, GlobalVar, Program.  A Param is a declaration without value,  *)
(* a GlobalVar has the shape of a local one.                               *)
(***************************************************************************)
Param(t, x)       == [type |-> t, name |-> x]
Function(f, ps, body) == [name |-> f, params |-> ps, body |-> body]
Source(globs, fns)    == [globals |-> globs, functions |-> fns]

(***************************************************************************)
(* Tokens: a kind, with a payload for literals and identifiers.            *)
(***************************************************************************)
Tok(k)     == [kind |-> k]
TokInt(n)  == [kind |-> "IntLiteral", int |-> n]
TokBool(b) == [kind |-> "BoolLiteral", bool |-> b]
TokId(x)   == [kind |-> "Identifier", name |-> x]
===============================================================================
