------------------------------ MODULE BytePipe ------------------------------
(***************************************************************************)
(* What a bulk transfer to a UUT promises: a pipe that takes one chunk at  *)
(* a time, lets it through in pieces, in order, and may break.  A broken   *)
(* pipe loses what was on its way and lets nothing more through, but the   *)
(* one who fills it is not told and goes on.                               *)
(***************************************************************************)
EXTENDS Naturals, SequencesExt

VARIABLES
  given,    \* bytes put into the pipe
  taken,    \* bytes the pipe has accepted and not lost
  broken

pipeVars == <<given, taken, broken>>

PipeInit == given = <<>> /\ taken = <<>> /\ broken \in BOOLEAN

\* The next chunk, when the one before was accepted to its end.
Give ==
  /\ broken \/ taken = given
  /\ IsStrictPrefix(given, given')
  /\ UNCHANGED <<taken, broken>>

Take ==
  /\ ~broken
  /\ IsStrictPrefix(taken, taken') /\ IsPrefix(taken', given)
  /\ UNCHANGED <<given, broken>>

Break ==
  /\ ~broken /\ broken' = TRUE
  /\ IsPrefix(taken', taken)
  /\ UNCHANGED given

PipeNext == Give \/ Take \/ Break

PipeSpec == PipeInit /\ [][PipeNext]_pipeVars
=============================================================================
