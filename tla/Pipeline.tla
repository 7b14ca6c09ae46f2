------------------------------- MODULE Pipeline -------------------------------
(***************************************************************************)
(* From source to result, as audit_source_core of fuzz.rs has it: parse,   *)
(* analyze, compile, verify, run on the reference machine, and compare the *)
(* result with the source-level oracle's (compare_ast_oracle).             *)
(*                                                                         *)
(* The front end is a chain of pure functions.  A source starts out as a   *)
(* tree; its text is what the emitter of fuzz.rs writes for it, or what    *)
(* docs/grammar.md has one write.  The rest of the fuzzer's checks, the    *)
(* metamorphic variants and the shrinker, are functions of the tree too.   *)
(***************************************************************************)
EXTENDS VerifiedVm

CONSTANT Sources     \* the syntax trees a run may be given

VARIABLE source

P  == INSTANCE Parser
S  == INSTANCE Sema
C  == INSTANCE Compiler
O  == INSTANCE Oracle
E  == INSTANCE Emitter
MM == INSTANCE Metamorphic
SH == INSTANCE Shrinker

p_vars == <<source, vars>>

Accepted == S!analyze(source)

\* What stands for the program of a rejected source: it is never run.
NoProgram ==
  [instructions |-> <<>>, functions |-> <<>>, globals |-> <<>>, main_func_id |-> 0]

PipelineInit ==
  /\ source \in Sources
  /\ prog = IF Accepted THEN C!compile(source) ELSE NoProgram
  /\ V!New /\ M!New /\ operand_base = <<>>

\* The analyzer's errors end the audit.
Rejected == prog = NoProgram /\ UNCHANGED p_vars

Compiled == prog # NoProgram /\ Next /\ UNCHANGED source

PipelineNext == Rejected \/ Compiled

PipelineSpec == PipelineInit /\ [][PipelineNext]_p_vars

(***************************************************************************)
(* Properties.                                                             *)
(***************************************************************************)

\* The text of a source parses back to it, whether the emitter wrote it or
\* somebody who knows the precedences of docs/grammar.md and writes no
\* parentheses too many (Levels, parse_operators, is_assignment_start).
RoundTrip ==
  phase = "new" =>
    \A style \in E!Styles :
      LET r == P!parse(E!emit_program(style, source)) IN r.ok /\ r.node = source

\* docs/correctness-lab.md: the variants of a program have its observable
\* outcome, up to the limits on cycles and frames: variants run longer, and the
\* helper of one of them needs a frame more (audit_metamorphic_source).
VariantsAgree ==
  phase = "new" /\ prog # NoProgram =>
    LET outcome == O!run_ast_oracle(source)
    IN  \A v \in MM!metamorphic_variants(source) :
          LET other == O!run_ast_oracle(v)
          IN  \/ other = outcome
              \/ {"CycleLimit", "StackOverflow"} \cap {outcome.trap_code, other.trap_code} # {}

\* Shrinking makes progress: what the shrinker goes on with is smaller, so that
\* it cannot come back to a program it has left and spend its passes in a circle.
\* Only the first pass, on a text the emitter has not written, may do no more
\* than lay the same program out again (find_ast_shrink, shrink_source).
ShrinksDescend ==
  phase = "new" =>
    \A emitted \in BOOLEAN : \A c \in SH!find_ast_shrinks(source, emitted) :
      \/ SH!SourceSize(c) < SH!SourceSize(source)
      \/ ~emitted /\ c = source

\* What the analyzer accepts, the compiler turns into a CompiledProgram that the
\* verifier finds valid: the scopes and slot counts of sema.rs are those of the
\* compiler, and every jump, call and operand it emits fits.
AcceptedVerifies ==
  prog # NoProgram /\ phase = "done" => IsProgram(prog) /\ V!valid

\* docs/correctness-lab.md: "A source-level interpreter that does not use
\* bytecode agrees with executable backends on success/trap status, return
\* value, trap code, and output."  The two count cycles differently: a run
\* that one of them cuts short is not compared.
OracleAgrees ==
  status \in M!Final =>
    LET oracle == O!run_ast_oracle(source)
    IN  "CycleLimit" \in {trap_code, oracle.trap_code} \/
        /\ status # "panicked"
        /\ trap_code = oracle.trap_code
        /\ output = oracle.output
        /\ return_value = oracle.return_value

\* docs/spec.md lists the traps of a program: division by zero, undefined
\* locals, array bounds, overflow and the cycle limit.  The others are for
\* malformed bytecode, and an accepted source never meets them, nor a panic.
SourceSafe ==
  /\ status # "panicked"
  /\ trap_code \notin {"InvalidInstruction", "StackUnderflow", "UndefinedFunction"}
===============================================================================
