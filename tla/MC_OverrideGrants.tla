------------------------- MODULE MC_OverrideGrants -------------------------
(***************************************************************************)
(* Two principals, a floor under dual control and one without a policy.    *)
(***************************************************************************)
EXTENDS OverrideGrants, TLC

CONSTANTS alice, bob

DualControl == [policy |-> "dual-control", authorized |-> {alice, bob}, attesters |-> {alice, bob},
                expiry |-> MaxExpiry]

Disallowed == [policy |-> "disallowed", authorized |-> {alice}, attesters |-> {}, expiry |-> 1]

\* Managed with dual control, personal with alice as the operator, and closed.
MC_Catalogues ==
  {[by_floor |-> [f \in Floors |-> DualControl], operator |-> NoOne],
   [by_floor |-> [f \in Floors |-> NoEntry], operator |-> alice],
   [by_floor |-> [f \in Floors |-> Disallowed], operator |-> alice]}

\* Grants, sessions and actions are only compared with each other.
Symmetry == Permutations(Ids) \cup Permutations(Sessions) \cup Permutations(Actions)

=============================================================================
