------------------------------ MODULE MCRouting ------------------------------
(***************************************************************************)
(* Instances of Routing for TLC.  No action tells rooms, channel names,    *)
(* admins or requests apart.                                               *)
(***************************************************************************)
EXTENDS Routing, TLC

CONSTANTS n1, n2, r1, r2, a1, a2, q1, q2

RoutingSymmetry ==
  Permutations({n1, n2} \cap Names) \cup Permutations({r1, r2} \cap Rooms)
    \cup Permutations({a1, a2} \cap Admins) \cup Permutations({q1, q2} \cap Requests)
==============================================================================
