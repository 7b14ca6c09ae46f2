------------------------------ MODULE MCPrograms ------------------------------
(***************************************************************************)
(* The programs the instances run.                                         *)
(***************************************************************************)
EXTENDS Integers, Sequences, TLC

I(op, a, b) == [opcode |-> op, arg1 |-> a, arg2 |-> b]
Fn(entry, params, slots) ==
  [entry_pc |-> entry, param_count |-> params, local_count |-> slots]
Scalar(slot)   == [slot |-> slot, is_array |-> FALSE, array_size |-> 0]
Array(slot, n) == [slot |-> slot, is_array |-> TRUE, array_size |-> n]

Program(code, fns, glob) ==
  [instructions |-> code, functions |-> fns, globals |-> glob, main_func_id |-> 0]

\* Main has two slots; function 1 takes one argument and has two slots,
\* function 2 has none.  All enter the same code: recursion is one Call away.
Fns == (0 :> Fn(0, 0, 2)) @@ (1 :> Fn(2, 1, 2)) @@ (2 :> Fn(2, 0, 0))
Globals == ("a" :> Array(0, 2))

Alphabet ==
  {I("LoadConst", 7, 0), I("LoadConst", -1, 0),
   I("LoadLocal", 0, 0), I("LoadLocal", 2, 0), I("LoadLocal", -1, 0),
   I("StoreLocal", 0, 0), I("StoreLocal", 2, 0),
   I("LoadGlobal", 0, 0), I("LoadGlobal", 3, 0), I("StoreGlobal", 1, 0),
   I("Add", 0, 0), I("Mul", 0, 0), I("Div", 0, 0), I("Lt", 0, 0),
   I("Neg", 0, 0), I("Not", 0, 0),
   I("Jump", 2, 0), I("Jump", -1, 0), I("JumpIfFalse", 5, 0), I("JumpIfTrue", 0, 0),
   I("Call", 1, 1), I("Call", 1, 0), I("Call", 2, 0), I("Call", 3, 0),
   I("Return", 0, 0),
   I("ArrayLoad", 0, 2), I("ArrayLoad", 2, 2), I("ArrayStore", 0, 2),
   I("LocalArrayLoad", 0, 2), I("LocalArrayStore", 0, 2),
   I("AllocArray", 2, 0), I("ArrayNew", -1, 0),
   I("Print", 0, 0), I("Pop", 0, 0), I("Dup", 0, 0), I("Halt", 0, 0)}

Body(b) ==
  Program(<<I("LoadConst", 1, 0), I("LoadConst", 0, 0)>> \o b \o <<I("Return", 0, 0)>>,
          Fns, Globals)

\* Every body of three instructions.
Bodies == {Body(b) : b \in [1 .. 3 -> Alphabet]}

\* Programs the preflight rejects: too long, a function with more parameters
\* than slots, one with too many slots, both at once (the HashMap decides
\* which is seen first), a global array without elements or past the last
\* slot, no main function.
Nothing == <<I("Halt", 0, 0)>>
Rejected ==
  {Program([i \in 1 .. 11 |-> I("Pop", 0, 0)], (0 :> Fn(0, 0, 0)), <<>>),
   Program(Nothing, (0 :> Fn(0, 2, 1)), <<>>),
   Program(Nothing, (0 :> Fn(0, 0, 6)), <<>>),
   Program(Nothing, (0 :> Fn(0, 0, 6)) @@ (1 :> Fn(0, 2, 1)), <<>>),
   Program(Nothing, (0 :> Fn(0, 0, 0)), ("a" :> Array(0, 0))),
   Program(Nothing, (0 :> Fn(0, 0, 0)), ("a" :> Array(1, 3)) @@ ("b" :> Scalar(0))),
   Program(Nothing, (1 :> Fn(0, 0, 0)), <<>>)}

\* Main writes 0 into a slot that LocalArrayLoad then takes for an array base:
\* the undefined slot 1 of the frame comes onto the stack without a trap, and
\* the arithmetic meets i64::MIN.
ForgedBase ==
  {Program(<<I("LoadConst", 0, 0), I("StoreLocal", 0, 0), I("LoadConst", 1, 0),
             I("LocalArrayLoad", 0, 2), I("LoadConst", -1, 0), I("Div", 0, 0),
             I("Return", 0, 0)>>, Fns, <<>>)}

\* Main and a function of two parameters share their code: a call finds two,
\* one or no operands, and one operand is popped before the second is missed.
TwoParams == (0 :> Fn(0, 0, 2)) @@ (1 :> Fn(1, 2, 2))
PairAlphabet ==
  {I("LoadConst", 7, 0), I("LoadLocal", 1, 0), I("StoreLocal", 0, 0),
   I("StoreLocal", 1, 0), I("Sub", 0, 0), I("Call", 1, 2), I("Dup", 0, 0),
   I("Jump", 2, 0)}
Pairs ==
  {Program(<<I("LoadConst", 1, 0)>> \o b \o <<I("Return", 0, 0)>>, TwoParams, <<>>) :
     b \in [1 .. 3 -> PairAlphabet]}

Handmade == Bodies \cup Rejected \cup ForgedBase \cup Pairs

\* Allocation, references kept in locals, globals, on the stack and in
\* suspended frames, and code that runs again by jumping back or recursion.
\* The first instructions of the body are also those of functions 1 and 2.
HeapAlphabet ==
  {I("AllocArray", 1, 0), I("StoreLocal", 0, 0), I("StoreLocal", 1, 0),
   I("LoadLocal", 0, 0), I("StoreGlobal", 0, 0), I("LoadGlobal", 1, 0),
   I("Pop", 0, 0), I("Dup", 0, 0), I("Call", 1, 1), I("Jump", 2, 0),
   I("LocalArrayStore", 0, 1), I("ArrayLoad", 0, 1)}
HeapBodies == {Body(<<I("AllocArray", 1, 0)>> \o b) : b \in [1 .. 4 -> HeapAlphabet]}

\* Three global arrays, in any order: the third allocation collects while the
\* first two are in their globals and main has no frame.
ThreeArrays == ("a" :> Array(0, 1)) @@ ("b" :> Array(1, 1)) @@ ("c" :> Array(2, 1))
GlobalHeapBodies ==
  {Program(<<I("LoadGlobal", 2, 0)>> \o b \o <<I("Return", 0, 0)>>, Fns, ThreeArrays) :
     b \in [1 .. 2 -> HeapAlphabet]}

\* The verifier's programs: two functions with a range each, main with every
\* body of three instructions, f with one parameter.
TwoFns(entry) == (0 :> Fn(0, 0, 2)) @@ (1 :> Fn(entry, 1, 2))

\* Of the opcodes with the same rule in the verifier one is enough.
VerifierAlphabet ==
  Alphabet \ {I("LoadConst", -1, 0), I("StoreLocal", 2, 0), I("LoadLocal", -1, 0),
              I("Mul", 0, 0), I("Lt", 0, 0), I("Not", 0, 0), I("Print", 0, 0),
              I("LoadGlobal", 0, 0), I("Neg", 0, 0), I("ArrayLoad", 0, 2),
              I("LocalArrayStore", 0, 2), I("ArrayNew", -1, 0), I("Call", 3, 0),
              I("ArrayStore", 0, 2), I("Halt", 0, 0)}

TwoFunctions ==
  {Program(<<I("LoadConst", 1, 0)>> \o b \o
           <<I("Return", 0, 0), I("LoadLocal", 0, 0), I("Neg", 0, 0), I("Return", 0, 0)>>,
           TwoFns(5), Globals) : b \in [1 .. 3 -> VerifierAlphabet]}

\* A branch over a few instructions, which meet again: different depths,
\* locals stored on one path only, loops.
DiamondAlphabet ==
  {I("LoadConst", 1, 0), I("StoreLocal", 0, 0), I("StoreLocal", 1, 0),
   I("LoadLocal", 0, 0), I("Dup", 0, 0), I("Jump", 6, 0), I("JumpIfFalse", 3, 0)}

Diamonds ==
  {Program(<<I("LoadConst", 1, 0), I("Dup", 0, 0), I("JumpIfFalse", 5, 0)>> \o b \o
           <<I("Return", 0, 0), I("LoadLocal", 0, 0), I("Return", 0, 0)>>,
           TwoFns(8), <<>>) : b \in [1 .. 4 -> DiamondAlphabet]}

\* Metadata the verifier rejects: the programs of Rejected, two functions with
\* one entry, an entry behind the code, overlapping globals; and code that
\* runs off its end.
BadMetadata ==
  Rejected \cup
  {Program(<<I("LoadConst", 1, 0), I("Return", 0, 0)>>, TwoFns(0), <<>>),
   Program(<<I("LoadConst", 1, 0), I("Return", 0, 0)>>, TwoFns(5), <<>>),
   Program(Nothing, (0 :> Fn(0, 0, 0)), ("a" :> Array(0, 2)) @@ ("b" :> Scalar(1))),
   Program(<<I("LoadConst", 1, 0)>>, (0 :> Fn(0, 0, 0)), <<>>)}

Verifiable == TwoFunctions \cup Diamonds \cup BadMetadata

\* Local arrays used as the compiler uses them: slot 1 of main holds an array
\* and is not stored to again.
CallAlphabet ==
  {I("LoadConst", 0, 0), I("LoadLocal", 0, 0), I("StoreLocal", 0, 0),
   I("LoadGlobal", 0, 0), I("StoreGlobal", 0, 0), I("Div", 0, 0), I("Pop", 0, 0),
   I("Dup", 0, 0), I("Jump", 3, 0), I("JumpIfFalse", 5, 0), I("Call", 1, 1),
   I("Call", 1, 0), I("ArrayLoad", 0, 2), I("LocalArrayLoad", 1, 1), I("LocalArrayStore", 1, 1)}

WithCalls ==
  {Program(<<I("AllocArray", 1, 0), I("StoreLocal", 1, 0), I("LoadConst", 1, 0)>> \o b \o
           <<I("Return", 0, 0), I("LoadLocal", 0, 0), c, I("Return", 0, 0)>>,
           TwoFns(7), Globals) :
     b \in [1 .. 3 -> CallAlphabet],
     c \in {I("Neg", 0, 0), I("Dup", 0, 0), I("Call", 1, 1), I("LoadLocal", 1, 0)}}

\* One function of straight-line code, most of it within the JIT's opcodes.
\* Sums and products leave the 32 bits; no value negated is the smallest one.
JitAlphabet ==
  {I("LoadConst", 7, 0), I("LoadConst", -1, 0), I("StoreLocal", 0, 0),
   I("LoadLocal", 0, 0), I("LoadLocal", 1, 0), I("Add", 0, 0), I("Sub", 0, 0),
   I("Mul", 0, 0), I("Lt", 0, 0), I("Ne", 0, 0), I("Neg", 0, 0), I("Not", 0, 0),
   I("Dup", 0, 0), I("Pop", 0, 0), I("Div", 0, 0), I("Jump", 1, 0), I("Return", 0, 0)}

Straight ==
  {Program(<<I("LoadConst", 5, 0)>> \o b \o <<I("Return", 0, 0)>>, (0 :> Fn(0, 0, 2)), <<>>) :
     b \in [1 .. 3 -> JitAlphabet]}

Guarded == WithCalls \cup Diamonds \cup Straight

\* The negation of the smallest 32-bit integer, when Half is 16.
NegatedMin ==
  {Program(<<I("LoadConst", -16, 0), I("Neg", 0, 0), I("Return", 0, 0)>>,
           (0 :> Fn(0, 0, 0)), <<>>)}

\* main returns f(1), f(x) returns h(x), h(x) returns x: three frames of two
\* slots each, within the frame limit and within each function's slot limit.
Nested ==
  {Program(<<I("LoadConst", 1, 0), I("Call", 1, 1), I("Return", 0, 0),
             I("LoadLocal", 0, 0), I("Call", 2, 1), I("Return", 0, 0),
             I("LoadLocal", 0, 0), I("Return", 0, 0)>>,
           (0 :> Fn(0, 0, 2)) @@ (1 :> Fn(3, 1, 2)) @@ (2 :> Fn(6, 1, 2)), <<>>)}
===============================================================================
