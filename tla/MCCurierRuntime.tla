-------------------------- MODULE MCCurierRuntime --------------------------
(* Instances of CurierRuntime for TLC. *)
EXTENDS CurierRuntime, TLC

\* Application tasks are interchangeable; used by safety runs only.
CallerSymmetry == Permutations(Callers)
=============================================================================
