----------------------------- MODULE MCDhcpLease ------------------------------
(* Values for the constants of DhcpLease: one lease for each of two          *)
(* interchangeable addresses, or a single lease.                             *)
EXTENDS DhcpLease, TLC

CONSTANTS a1, a2, g1, g2

MCLease == {[ip |-> a1, gateway |-> g1], [ip |-> a2, gateway |-> g1]}

MCOneLease == {[ip |-> a1, gateway |-> g1]}

Symmetry == Permutations({a1, a2})
===============================================================================
