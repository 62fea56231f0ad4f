---------------------------- MODULE MCRouteManager ----------------------------
(***************************************************************************)
(* Two interfaces, which may be on the same network or on two, and may     *)
(* have the same gateway or two.                                           *)
(***************************************************************************)
EXTENDS RouteManager, TLC

CONSTANTS net1, net2, gw1, gw2

MCOif     == {1, 2}
MCNet     == {net1, net2}
MCGateway == {gw1, gw2}
Symmetry  == Permutations(MCNet) \cup Permutations(MCGateway)
===============================================================================
