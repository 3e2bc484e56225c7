----------------------------- MODULE EnumExtract -----------------------------
(***************************************************************************)
(* What the enum extraction of one target promises (specification,        *)
(* sections 4.1 and 4.4): the members written in the enum body are        *)
(* emitted one at a time, in source order, each exactly once, each with   *)
(* the documentation written for it; then the target file is written.     *)
(***************************************************************************)
EXTENDS Naturals, Sequences

VARIABLES
  source,    \* the members as written in the enum body (never changes)
  emitted,   \* the members handed to the section assembler so far
  closed     \* the generated file has been written

vars == <<source, emitted, closed>>

Init ==
  /\ emitted = <<>>
  /\ closed = FALSE

Emit ==
  /\ ~closed
  /\ Len(emitted) < Len(source)
  /\ emitted' = Append(emitted, source[Len(emitted) + 1])
  /\ UNCHANGED <<source, closed>>

Close ==
  /\ ~closed
  /\ emitted = source
  /\ closed' = TRUE
  /\ UNCHANGED <<source, emitted>>

Next == Emit \/ Close

SafetySpec == Init /\ [][Next]_vars

Spec == SafetySpec /\ WF_vars(Next)
=============================================================================
