----------------------- MODULE MC_UpstreamSupervisor -----------------------
(* UpstreamSupervisor on a small instance. *)
EXTENDS UpstreamSupervisor

CONSTANTS a, b

=============================================================================
