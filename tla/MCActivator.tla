---------------------------- MODULE MCActivator ----------------------------
(***************************************************************************)
(* Activator instantiated for model checking: three free ports to choose   *)
(* the two of the test from, and three parallel clients (the test has      *)
(* six).                                                                   *)
(***************************************************************************)
EXTENDS Activator

CONSTANTS p1, p2, p3, g1, g2, g3

=============================================================================
