--------------------------------- MODULE Trace ---------------------------------
(***************************************************************************)
(* The semantic trace diff of trace.rs.  Each machine records an event for *)
(* every instruction; array references differ between the machines, so a   *)
(* TraceNormalizer replaces those it recognizes by the number of their     *)
(* allocation.  A trace is compared entry by entry: a normalizer and the   *)
(* next event of each side are all there is to remember.  The wording of a *)
(* trap is left out, its code is not.                                      *)
(***************************************************************************)
EXTENDS Bytecode

\* NormalizedValue
IntVal(v)   == [int |-> v]
ArrayRef(n) == [array |-> n]

NewNormalizer == [stack |-> <<>>, next_array_ref |-> 0]

\* What the last event left on the stack, unless the lengths show that this
\* event is not the next one.
normalize_before(n, event) ==
  IF Len(n.stack) = Len(event.stack_before) THEN n.stack
  ELSE [i \in DOMAIN event.stack_before |-> IntVal(event.stack_before[i])]

\* A slot whose raw value did not change is what it was.
preserve_stack_prefix(raw_before, before, raw_after) ==
  [i \in DOMAIN raw_after |->
     IF i \in DOMAIN raw_before /\ raw_before[i] = raw_after[i]
     THEN before[i] ELSE IntVal(raw_after[i])]

\* MUTANT of Allocates: ArrayNew only.
AllocatesNewOnly(event) ==
  /\ event.instr.opcode = "ArrayNew"
  /\ Len(event.stack_after) = Len(event.stack_before) + 1

\* Has the event pushed a new reference?
Allocates(event) ==
  /\ event.instr.opcode \in Allocations
  /\ Len(event.stack_after) = Len(event.stack_before) + 1

normalize_after(n, event) ==
  LET after == preserve_stack_prefix(event.stack_before, normalize_before(n, event),
                                     event.stack_after)
  IN  IF Allocates(event) THEN [after EXCEPT ![Len(after)] = ArrayRef(n.next_array_ref)]
      ELSE after

\* The normalizer behind an event, and the event as it is compared.
normalize_event(n, event) ==
  [stack          |-> normalize_after(n, event),
   next_array_ref |-> IF Allocates(event) THEN n.next_array_ref + 1 ELSE n.next_array_ref]

Semantic(n, event) ==
  [event EXCEPT !.stack_before = normalize_before(n, event),
                !.stack_after  = normalize_after(n, event)]
================================================================================
