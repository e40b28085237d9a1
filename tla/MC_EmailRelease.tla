-------------------------- MODULE MC_EmailRelease --------------------------
(* EmailRelease on a small instance. *)
EXTENDS EmailRelease

CONSTANTS d1, c1, personal, health

=============================================================================
