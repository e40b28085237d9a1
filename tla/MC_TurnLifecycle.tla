-------------------------- MODULE MC_TurnLifecycle --------------------------
(* TurnLifecycle on a small instance. *)
EXTENDS TurnLifecycle

CONSTANTS t1, t2, s1, s2

=============================================================================
