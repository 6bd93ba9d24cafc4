-------------------------- MODULE MCTerminalSession --------------------------
(***************************************************************************)
(* TerminalSession for TLC: a few operator requests on one session, each   *)
(* configuration with the other goroutines its question is about.          *)
(***************************************************************************)
EXTENDS TerminalSession, TLC

\* Viewers are interchangeable: no action names one.
ViewerSymmetry == Permutations(Viewers)
=============================================================================
