------------------------------ MODULE RouteTables ------------------------------
(***************************************************************************)
(* The two tables of the route manager as values: BackupRouteTable         *)
(* (route/backup.rs), the gateway and the networks of each interface that  *)
(* could carry the default route, and RouteTable (route/table.rs), its     *)
(* mirror of the kernel's routes.  One address family: the other has       *)
(* tables of its own that are handled alike.                               *)
(*                                                                         *)
(* A RouteTable files its routes by prefix in a BTreeSet<Route>, and       *)
(* Route's Ord compares the prefix length alone                            *)
(* (vendor/route_manager/src/common/mod.rs).  All routes of a prefix are   *)
(* equal to the set, so it never has more than one, and an insert next to  *)
(* another route changes nothing but by_oif: routes has a route or None.   *)
(***************************************************************************)
CONSTANTS
  Oif,      \* interface indices
  Net,      \* networks
  Default,  \* the prefix of the default route
  Gateway,  \* gateway addresses
  None      \* no value

Prefix == Net \cup {Default}

Route == [gateway : Gateway \cup {None}, oif : Oif]

ASSUME RouteAssumption ==
  /\ Default \notin Net
  /\ None \notin Prefix \cup Gateway \cup Route

-------------------------------------------------------------------------------
(***************************************************************************)
(* BackupRouteTable.                                                       *)
(***************************************************************************)
BackupRouteTable ==
  [gateways  : [Oif -> Gateway \cup {None}],
   id_to_net : [Oif -> SUBSET Net],
   net_to_id : [Net -> SUBSET Oif]]

NoBackup ==
  [gateways  |-> [o \in Oif |-> None],
   id_to_net |-> [o \in Oif |-> {}],
   net_to_id |-> [n \in Net |-> {}]]

\* Mutant of BackupInsert: the networks are taken for the gateway.
BackupInsertSwapped(b, o, gateway, nets) ==
  [b EXCEPT !.gateways[o] = nets, !.id_to_net[o] = @ \cup nets]

\* The networks are added to those an earlier insert of the interface left.
BackupInsert(b, o, gateway, nets) ==
  [gateways  |-> [b.gateways EXCEPT ![o] = gateway],
   id_to_net |-> [b.id_to_net EXCEPT ![o] = @ \cup nets],
   net_to_id |-> [n \in Net |-> IF n \in nets THEN b.net_to_id[n] \cup {o}
                                ELSE b.net_to_id[n]]]

\* Mutant of BackupRemove: the networks still lead to the interface.
BackupRemoveOneWay(b, o) ==
  [b EXCEPT !.gateways[o] = None, !.id_to_net[o] = {}]

BackupRemove(b, o) ==
  [gateways  |-> [b.gateways EXCEPT ![o] = None],
   id_to_net |-> [b.id_to_net EXCEPT ![o] = {}],
   net_to_id |-> [n \in Net |-> IF n \in b.id_to_net[o] THEN b.net_to_id[n] \ {o}
                                ELSE b.net_to_id[n]]]

AvailableGateways(b) ==
  {[gateway |-> b.gateways[o], oif |-> o] : o \in {q \in Oif : b.gateways[q] # None}}

NetOutputs(b, n) == IF n \in Net THEN b.net_to_id[n] ELSE {}

\* The two directions of the network mapping agree, and only an interface with a
\* gateway has networks: what dead-route cleanup finds by network is exactly
\* what a later removal of the interface will find and take out again.
BackupConsistent(b) ==
  /\ \A o \in Oif, n \in Net : o \in b.net_to_id[n] <=> n \in b.id_to_net[o]
  /\ \A o \in Oif : b.gateways[o] = None => b.id_to_net[o] = {}

-------------------------------------------------------------------------------
(***************************************************************************)
(* RouteTable.                                                             *)
(***************************************************************************)
RouteTable ==
  [routes : [Prefix -> Route \cup {None}],
   by_oif : [Oif -> SUBSET Prefix]]

NoRoutes ==
  [routes |-> [p \in Prefix |-> None], by_oif |-> [o \in Oif |-> {}]]

RouteInsert(t, p, r) ==
  [routes |-> [t.routes EXCEPT ![p] = IF @ = None THEN r ELSE @],
   by_oif |-> [t.by_oif EXCEPT ![r.oif] = @ \cup {p}]]

\* Removes the route of the prefix, whichever it is.
RouteRemove(t, p) ==
  IF t.routes[p] = None THEN t
  ELSE [routes |-> [t.routes EXCEPT ![p] = None],
        by_oif |-> [t.by_oif EXCEPT ![t.routes[p].oif] = @ \ {p}]]

\* Mutant of RouteTableOf: by_oif is not filled.
RouteTableUnindexed(fib) == [routes |-> fib, by_oif |-> [o \in Oif |-> {}]]

\* An insert into an empty table of each route that a kernel dump lists, which
\* has one route per prefix.
RouteTableOf(fib) ==
  [routes |-> fib,
   by_oif |-> [o \in Oif |-> {p \in Prefix : fib[p] # None /\ fib[p].oif = o}]]

FindDefault(t) == t.routes[Default]

\* The prefixes whose route goes out by an interface.
FindByOif(t, o) == {p \in t.by_oif[o] : t.routes[p] # None /\ t.routes[p].oif = o}

\* Every route of the table is found under its interface.
ByOifComplete(t) ==
  \A p \in Prefix : t.routes[p] # None => p \in FindByOif(t, t.routes[p].oif)
===============================================================================
