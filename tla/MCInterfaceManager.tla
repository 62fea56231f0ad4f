-------------------------- MODULE MCInterfaceManager --------------------------
(***************************************************************************)
(* Two interfaces, a wired one and a wireless one that the daemon can      *)
(* create.  With three indices the kernel may hold back one the daemon     *)
(* still knows; with two an interface soon takes what the other one freed. *)
(* Nothing but equality is asked of indices, so they are interchangeable.  *)
(* The leases differ in one field or in the other.                         *)
(***************************************************************************)
EXTENDS InterfaceManager, TLC

CONSTANTS em0, wlan0, iwn0, i1, i2, i3, addr1, addr2, gw1, gw2

MCWired      == {em0}
MCName       == {em0, wlan0}
MCIndex      == {i1, i2, i3}
MCFewIndices == {i1, i2}
Symmetry     == Permutations(MCIndex)
FewSymmetry  == Permutations(MCFewIndices)

MCType     == {"Ethernet", "Wlan"}
MCTypeOf   == (em0 :> "Ethernet") @@ (wlan0 :> "Wlan")
MCDevice   == {iwn0}
MCParentOf == (em0 :> None) @@ (wlan0 :> iwn0)
MCLogical  == {wlan0}

MCAddr    == {addr1, addr2}
MCGateway == {gw1, gw2}
MCLease   == {[ip |-> addr1, gateway |-> gw1], [ip |-> addr1, gateway |-> gw2],
              [ip |-> addr2, gateway |-> gw1]}
MCFewAddr  == {addr1}
MCFewLease == {[ip |-> addr1, gateway |-> gw1], [ip |-> addr1, gateway |-> gw2]}
===============================================================================
