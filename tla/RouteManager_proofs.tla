-------------------------- MODULE RouteManager_proofs --------------------------
(***************************************************************************)
(* The RouteManager keeps its types, its backup table stays consistent and *)
(* its mirror of the routes stays indexed, for any number of interfaces,   *)
(* networks and gateways and for any number of changes.                    *)
(*                                                                         *)
(* When everything that was sent has been handled the mirror has the       *)
(* kernel's routes, the gateways are those of the connected interfaces,    *)
(* and there is a default route if there can be one. Each needs what the   *)
(* messages on their way will still change: Mirrored, BackupKept and       *)
(* DefaultKept.                                                            *)
(***************************************************************************)
EXTENDS RouteManager, TLAPS, FiniteSetTheorems

-------------------------------------------------------------------------------
(***************************************************************************)
(* What the operations of the two tables keep.                             *)
(***************************************************************************)

\* Every operation of backup.rs yields a consistent backup table.
LEMMA BackupInsertSound ==
  ASSUME NEW b \in BackupRouteTable, BackupConsistent(b), NEW o \in Oif,
         NEW gateway \in Gateway, NEW nets \in SUBSET Net
  PROVE  /\ BackupInsert(b, o, gateway, nets) \in BackupRouteTable
         /\ BackupConsistent(BackupInsert(b, o, gateway, nets))
<1> DEFINE s == BackupInsert(b, o, gateway, nets)
<1>0. gateway # None
  BY RouteAssumption
<1>1. s \in BackupRouteTable
  BY DEF BackupInsert, BackupRouteTable
<1>2. ASSUME NEW q \in Oif, NEW n \in Net
      PROVE  /\ q \in s.net_to_id[n] <=> n \in s.id_to_net[q]
             /\ s.gateways[q] = None => s.id_to_net[q] = {}
  <2>1. s.net_to_id[n] = IF n \in nets THEN b.net_to_id[n] \cup {o} ELSE b.net_to_id[n]
    BY DEF BackupInsert
  <2>2. s.id_to_net[q] = IF q = o THEN b.id_to_net[q] \cup nets ELSE b.id_to_net[q]
    BY DEF BackupInsert, BackupRouteTable
  <2>3. s.gateways[q] = IF q = o THEN gateway ELSE b.gateways[q]
    BY DEF BackupInsert, BackupRouteTable
  <2>4. q \in b.net_to_id[n] <=> n \in b.id_to_net[q]
    BY DEF BackupConsistent
  <2>5. b.gateways[q] = None => b.id_to_net[q] = {}
    BY DEF BackupConsistent
  <2>6. QED
    BY <1>0, <2>1, <2>2, <2>3, <2>4, <2>5
<1>3. ASSUME NEW q \in Oif
      PROVE  s.gateways[q] = None => s.id_to_net[q] = {}
  <2>1. s.id_to_net[q] = IF q = o THEN b.id_to_net[q] \cup nets ELSE b.id_to_net[q]
    BY DEF BackupInsert, BackupRouteTable
  <2>2. s.gateways[q] = IF q = o THEN gateway ELSE b.gateways[q]
    BY DEF BackupInsert, BackupRouteTable
  <2>3. QED
    BY <1>0, <2>1, <2>2 DEF BackupConsistent
<1>4. QED
  BY <1>1, <1>2, <1>3 DEF BackupConsistent

\* A removal leaves no network that leads to the interface.
LEMMA BackupRemoveSound ==
  ASSUME NEW b \in BackupRouteTable, BackupConsistent(b), NEW o \in Oif
  PROVE  BackupRemove(b, o) \in BackupRouteTable /\ BackupConsistent(BackupRemove(b, o))
<1> DEFINE s == BackupRemove(b, o)
<1>1. s \in BackupRouteTable
  BY DEF BackupRemove, BackupRouteTable
<1>2. ASSUME NEW q \in Oif
      PROVE  /\ s.id_to_net[q] = IF q = o THEN {} ELSE b.id_to_net[q]
             /\ s.gateways[q] = IF q = o THEN None ELSE b.gateways[q]
  BY DEF BackupRemove, BackupRouteTable
<1>3. ASSUME NEW q \in Oif, NEW n \in Net
      PROVE  q \in s.net_to_id[n] <=> n \in s.id_to_net[q]
  <2>1. s.net_to_id[n] = IF n \in b.id_to_net[o] THEN b.net_to_id[n] \ {o} ELSE b.net_to_id[n]
    BY DEF BackupRemove
  <2>2. q \in b.net_to_id[n] <=> n \in b.id_to_net[q]
    BY DEF BackupConsistent
  <2>3. QED
    BY <1>2, <2>1, <2>2
<1>4. ASSUME NEW q \in Oif
      PROVE  s.gateways[q] = None => s.id_to_net[q] = {}
  BY <1>2 DEF BackupConsistent
<1>5. QED
  BY <1>1, <1>3, <1>4 DEF BackupConsistent

\* Every operation of route/table.rs yields a table whose routes are found by
\* their interface.
LEMMA RouteInsertSound ==
  ASSUME NEW t \in RouteTable, ByOifComplete(t), NEW p \in Prefix, NEW r \in Route
  PROVE  RouteInsert(t, p, r) \in RouteTable /\ ByOifComplete(RouteInsert(t, p, r))
<1> DEFINE s == RouteInsert(t, p, r)
<1>0. r # None /\ r.oif \in Oif
  BY RouteAssumption DEF Route
<1>1. s \in RouteTable
  BY <1>0 DEF RouteInsert, RouteTable
<1>2. ASSUME NEW q \in Prefix, s.routes[q] # None
      PROVE  q \in FindByOif(s, s.routes[q].oif)
  <2>1. s.routes[q] = IF q = p /\ t.routes[p] = None THEN r ELSE t.routes[q]
    BY DEF RouteInsert, RouteTable
  <2>2. s.routes[q] \in Route /\ s.routes[q].oif \in Oif
    BY <1>1, <1>2 DEF RouteTable, Route
  <2>3. s.by_oif[s.routes[q].oif] = IF s.routes[q].oif = r.oif
                                    THEN t.by_oif[s.routes[q].oif] \cup {p}
                                    ELSE t.by_oif[s.routes[q].oif]
    BY <1>0, <2>2 DEF RouteInsert, RouteTable
  <2>4. CASE q = p /\ t.routes[p] = None
    BY <1>2, <2>1, <2>3, <2>4 DEF FindByOif
  <2>5. CASE ~(q = p /\ t.routes[p] = None)
    <3>1. q \in t.by_oif[t.routes[q].oif]
      BY <1>2, <2>1, <2>5 DEF ByOifComplete, FindByOif
    <3>2. QED
      BY <1>2, <2>1, <2>3, <2>5, <3>1 DEF FindByOif
  <2>6. QED
    BY <2>4, <2>5
<1>3. QED
  BY <1>1, <1>2 DEF ByOifComplete

\* A removal from route/table.rs keeps what it does not remove.
LEMMA RouteRemoveSound ==
  ASSUME NEW t \in RouteTable, ByOifComplete(t), NEW p \in Prefix
  PROVE  RouteRemove(t, p) \in RouteTable /\ ByOifComplete(RouteRemove(t, p))
<1> DEFINE s == RouteRemove(t, p)
<1>1. CASE t.routes[p] = None
  BY <1>1 DEF RouteRemove
<1>2. CASE t.routes[p] # None
  <2>1. t.routes[p] \in Route /\ t.routes[p].oif \in Oif
    BY <1>2 DEF RouteTable, Route
  <2>2. /\ s.routes = [t.routes EXCEPT ![p] = None]
        /\ s.by_oif = [t.by_oif EXCEPT ![t.routes[p].oif] = @ \ {p}]
    BY <1>2 DEF RouteRemove
  <2>3. s \in RouteTable
    BY <1>2, <2>1 DEF RouteRemove, RouteTable
  <2>4. ASSUME NEW q \in Prefix, s.routes[q] # None
        PROVE  q \in FindByOif(s, s.routes[q].oif)
    <3>1. q # p /\ s.routes[q] = t.routes[q]
      BY <2>2, <2>4 DEF RouteTable
    <3>2. q \in t.by_oif[t.routes[q].oif]
      BY <2>4, <3>1 DEF ByOifComplete, FindByOif
    <3>3. t.routes[q] \in Route /\ t.routes[q].oif \in Oif
      BY <2>4, <3>1 DEF RouteTable, Route
    <3>4. q \in s.by_oif[t.routes[q].oif]
      BY <2>2, <3>1, <3>2, <3>3 DEF RouteTable
    <3>5. QED
      BY <2>4, <3>1, <3>4 DEF FindByOif
  <2>5. QED
    BY <2>3, <2>4 DEF ByOifComplete
<1>3. QED
  BY <1>1, <1>2

\* The list of the kernel's routes yields such a table as well.
LEMMA RouteTableOfSound ==
  ASSUME NEW fib \in [Prefix -> Route \cup {None}]
  PROVE  RouteTableOf(fib) \in RouteTable /\ ByOifComplete(RouteTableOf(fib))
<1> DEFINE s == RouteTableOf(fib)
<1>1. s \in RouteTable
  BY DEF RouteTableOf, RouteTable
<1>2. ASSUME NEW q \in Prefix, s.routes[q] # None
      PROVE  q \in FindByOif(s, s.routes[q].oif)
  <2>1. fib[q] \in Route /\ fib[q].oif \in Oif /\ s.routes[q] = fib[q]
    BY <1>2 DEF RouteTableOf, Route
  <2>2. s.by_oif[fib[q].oif] = {p \in Prefix : fib[p] # None /\ fib[p].oif = fib[q].oif}
    BY <2>1 DEF RouteTableOf
  <2>3. QED
    BY <1>2, <2>1, <2>2 DEF FindByOif
<1>3. QED
  BY <1>1, <1>2 DEF ByOifComplete

-------------------------------------------------------------------------------
(***************************************************************************)
(* Types of the parts of a step.                                           *)
(***************************************************************************)
Kernel == [fib : [Prefix -> Route \cup {None}], notices : Seq(RouteChange)]

\* What a handler has still to do.
LEMMA ContinueType ==
  /\ Idle \in Continue /\ Restore \in Continue
  /\ \A o \in Oif, left \in SUBSET Prefix, restore \in BOOLEAN :
       Cleanup(o, left, restore) \in Cleanups
  /\ Cleanups \subseteq Continue
  /\ \A p \in Prefix, rest \in Cleanups : AddBackTo(p, rest) \in Continue
  /\ \A c \in Continue : c.at = "cleanup" => c \in Cleanups
  /\ \A c \in Continue : c.at = "addback" => c.prefix \in Prefix /\ c.rest \in Cleanups
  BY DEF Continue, Cleanups, Idle, Restore, Cleanup, AddBackTo

\* The routing table with one more change and its notice.
LEMMA KernelDoesType ==
  ASSUME kernel \in Kernel, NEW kind \in {"Add", "Delete", "Change"}, NEW p \in Prefix,
         NEW r \in Route \cup {None}, NEW route \in Route
  PROVE  KernelDoes(kind, p, r, route) \in Kernel
<1>1. [kind |-> kind, prefix |-> p, route |-> route] \in RouteChange
  BY DEF RouteChange
<1>2. kernel.notices \in Seq(RouteChange) /\ kernel.fib \in [Prefix -> Route \cup {None}]
  BY DEF Kernel
<1>3. Append(kernel.notices, [kind |-> kind, prefix |-> p, route |-> route]) \in Seq(RouteChange)
  BY <1>1, <1>2
<1>4. QED
  BY <1>2, <1>3 DEF KernelDoes, Kernel

\* What the daemon's own requests leave of the routing table.
LEMMA KernelRequestType ==
  ASSUME kernel \in Kernel, NEW p \in Prefix
  PROVE  /\ \A r \in Route : KernelAdd(p, r) \in Kernel
         /\ \A r : KernelDelete(p, r) \in Kernel
<1>1. ASSUME NEW r \in Route PROVE KernelAdd(p, r) \in Kernel
  BY KernelDoesType DEF KernelAdd
<1>2. ASSUME NEW r PROVE KernelDelete(p, r) \in Kernel
  <2>1. CASE kernel.fib[p] # None
    <3>1. kernel.fib[p] \in Route
      BY <2>1 DEF Kernel
    <3>2. KernelDoes("Delete", p, None, kernel.fib[p]) \in Kernel
      BY <3>1, KernelDoesType
    <3>3. QED
      BY <3>2 DEF KernelDelete
  <2>2. CASE kernel.fib[p] = None
    BY <2>2 DEF KernelDelete
  <2>3. QED
    BY <2>1, <2>2
<1>3. QED
  BY <1>1, <1>2

\* A change of an interface and the event that tells of it.
LEMMA BecomesInfoType ==
  ASSUME TypeOK, NEW kind \in {"Added", "Removed", "Changed"}, NEW o \in Oif, NEW info \in Iface,
         BecomesInfo(kind, o, info)
  PROVE  /\ iface' \in [Oif -> Iface] /\ ifEvents' \in Seq(IfEvent)
         /\ untold' \subseteq Oif /\ changes' \in 0..MaxChanges
<1>1. [kind |-> kind, oif |-> o, info |-> info] \in IfEvent
  BY DEF IfEvent
<1>2. Tells(kind, o, info) \in Seq(IfEvent)
  BY <1>1 DEF Tells
<1>3. QED
  BY <1>2, BoundAssumption DEF BecomesInfo, TypeOK

-------------------------------------------------------------------------------
(***************************************************************************)
(* The inductive invariant: types, and the two tables.                     *)
(***************************************************************************)
TablesSound == TypeOK /\ BackupSound /\ RoutesFound

\* The initial states satisfy the invariant.
LEMMA InitTablesSound == Init => TablesSound
<1> SUFFICES ASSUME Init PROVE TablesSound
  OBVIOUS
<1>1. iface \in [Oif -> Iface]
  BY DEF Init
<1>2. kernel \in Kernel
  BY DEF Init, Kernel
<1>3. backup \in BackupRouteTable /\ BackupSound
  BY DEF Init, NoBackup, BackupRouteTable, BackupSound, BackupConsistent
<1>4. table \in RouteTable /\ RoutesFound
  BY DEF Init, NoRoutes, RouteTable, RoutesFound, ByOifComplete
<1>5. untold \subseteq Oif /\ changes \in 0..MaxChanges /\ removals \in 0..MaxRemovals
  BY BoundAssumption DEF Init
<1>6. ifEvents \in Seq(IfEvent) /\ started \in BOOLEAN /\ pc \in Continue
  <2>1. ifEvents = <<>> /\ started = FALSE /\ pc = Idle
    BY DEF Init
  <2>2. Idle \in Continue
    BY ContinueType
  <2>3. ifEvents \in Seq(IfEvent)
    BY <2>1
  <2>4. started \in BOOLEAN
    BY <2>1
  <2>5. QED
    BY <2>1, <2>2, <2>3, <2>4
<1>7. QED
  BY <1>1, <1>2, <1>3, <1>4, <1>5, <1>6 DEF TablesSound, TypeOK, Kernel

\* Changes of the interfaces.
LEMMA InterfaceChangeStep ==
  ASSUME TablesSound, InterfaceChange
  PROVE  TablesSound'
<1>0. TypeOK /\ BackupSound' /\ RoutesFound' /\ UNCHANGED <<kernel, started, backup, table, pc>>
  BY DEF TablesSound, InterfaceChange, Appears, Configured, LosesCarrier, Deconfigured, Departs,
         Vanishes, Refreshed, BecomesInfo, BackupSound, RoutesFound
<1>1. removals' \in 0..MaxRemovals
  <2>1. removals' = removals \/ (removals < MaxRemovals /\ removals' = removals + 1)
    BY DEF InterfaceChange, Appears, Configured, LosesCarrier, Deconfigured, Departs, Vanishes,
           Refreshed
  <2>2. removals \in 0..MaxRemovals
    BY <1>0 DEF TypeOK
  <2>3. QED
    BY <2>1, <2>2, BoundAssumption
<1> DEFINE Typed == /\ iface' \in [Oif -> Iface] /\ ifEvents' \in Seq(IfEvent)
                    /\ untold' \subseteq Oif /\ changes' \in 0..MaxChanges
<1>2. Typed
  <2>1. PICK o \in Oif :
          \/ Appears(o)
          \/ \E gateway \in Gateway \cup {None}, n \in Net : Configured(o, gateway, n)
          \/ LosesCarrier(o)
          \/ Deconfigured(o)
          \/ Departs(o)
          \/ Vanishes(o)
          \/ Refreshed(o)
    BY DEF InterfaceChange
  <2>2. iface[o] \in Iface
    BY <1>0 DEF TypeOK
  <2>3. CASE Appears(o)
    BY <1>0, <2>3, BecomesInfoType DEF Appears, Iface
  <2>4. ASSUME NEW gateway \in Gateway \cup {None}, NEW n \in Net, Configured(o, gateway, n)
        PROVE  Typed
    <3>1. [state |-> "Connected", gateway |-> gateway, nets |-> {n}] \in Iface
      BY DEF Iface
    <3>2. QED
      BY <1>0, <2>4, <3>1, BecomesInfoType DEF Configured
  <2>5. CASE LosesCarrier(o)
    <3>1. [iface[o] EXCEPT !.state = "NoCarrier"] \in Iface
      BY <2>2 DEF Iface
    <3>2. QED
      BY <1>0, <2>5, <3>1, BecomesInfoType DEF LosesCarrier
  <2>6. CASE Deconfigured(o)
    BY <1>0, <2>6, BecomesInfoType DEF Deconfigured, Iface
  <2>7. CASE Departs(o)
    BY <1>0, <2>7, BecomesInfoType DEF Departs, Gone, Iface
  <2>8. CASE Vanishes(o)
    BY <1>0, <2>8, BoundAssumption DEF Vanishes, Gone, Iface, TypeOK
  <2>9. CASE Refreshed(o)
    <3> DEFINE found == [iface[o] EXCEPT !.gateway = None]
    <3>1. found \in Iface
      BY <2>2 DEF Iface
    <3>2. Tells("Removed", o, iface[o]) \in Seq(IfEvent) /\ Tells("Added", o, found) \in Seq(IfEvent)
      BY <2>2, <3>1 DEF Tells, IfEvent
    <3>3. iface' = [iface EXCEPT ![o] = found] /\ ifEvents' = ifEvents \o Tells("Removed", o, iface[o]) \o Tells("Added", o, found)
      BY <2>9 DEF Refreshed
    <3>4. changes' \in 0..MaxChanges
      BY <1>0, <2>9, BoundAssumption DEF Refreshed, TypeOK
    <3>5. untold' \subseteq Oif
      BY <1>0, <2>9 DEF Refreshed, TypeOK
    <3>6. QED
      BY <1>0, <3>1, <3>2, <3>3, <3>4, <3>5 DEF TypeOK
  <2>10. QED
    BY <2>1, <2>3, <2>4, <2>5, <2>6, <2>7, <2>8, <2>9
<1>3. QED
  BY <1>0, <1>1, <1>2 DEF TablesSound, TypeOK

\* Changes of the routes by the kernel and by others.
LEMMA KernelStepStep ==
  ASSUME TablesSound, KernelStep
  PROVE  TablesSound'
<1>0. /\ kernel \in Kernel /\ TypeOK /\ BackupSound' /\ RoutesFound'
      /\ UNCHANGED <<iface, ifEvents, untold, removals, started, backup, table, pc>>
  BY DEF TablesSound, TypeOK, Kernel, KernelStep, KernelWithdraws, KernelConnects, AdminRoute,
         env, BackupSound, RoutesFound
<1>1. changes' \in 0..MaxChanges
  <2>1. changes' = changes \/ (changes < MaxChanges /\ changes' = changes + 1)
    BY DEF KernelStep, KernelWithdraws, KernelConnects, AdminRoute, env
  <2>2. changes \in 0..MaxChanges
    BY <1>0 DEF TypeOK
  <2>3. QED
    BY <2>1, <2>2, BoundAssumption
<1>2. kernel' \in Kernel
  <2>1. ASSUME NEW p \in Prefix, KernelWithdraws(p) PROVE kernel' \in Kernel
    <3>1. kernel.fib[p] \in Route
      BY <1>0, <2>1 DEF KernelWithdraws, Kernel
    <3>2. QED
      BY <1>0, <2>1, <3>1, KernelDoesType DEF KernelWithdraws
  <2>2. ASSUME NEW o \in Oif, NEW n \in Net, KernelConnects(o, n) PROVE kernel' \in Kernel
    <3>1. [gateway |-> None, oif |-> o] \in Route /\ n \in Prefix
      BY DEF Route, Prefix
    <3>2. QED
      BY <1>0, <2>2, <3>1, KernelDoesType DEF KernelConnects
  <2>3. ASSUME NEW r \in Route, AdminRoute(r) PROVE kernel' \in Kernel
    <3>1. Default \in Prefix
      BY DEF Prefix
    <3>2. QED
      BY <1>0, <2>3, <3>1, KernelDoesType DEF AdminRoute
  <2>4. QED
    BY <2>1, <2>2, <2>3 DEF KernelStep
<1>3. QED
  BY <1>0, <1>1, <1>2 DEF TablesSound, TypeOK, Kernel

\* The handlers of the actor: those of messages change a table, the rest the
\* kernel's routes.
LEMMA HandleIfEventStep ==
  ASSUME TablesSound, HandleIfEvent
  PROVE  TablesSound'
<1> DEFINE e == Head(ifEvents)
<1>1. e \in IfEvent /\ ifEvents' \in Seq(IfEvent)
  BY DEF TablesSound, TypeOK, HandleIfEvent
<1>2. e.oif \in Oif /\ e.info.gateway \in Gateway \cup {None} /\ e.info.nets \in SUBSET Net
  BY <1>1 DEF IfEvent, Iface
<1>3. backup \in BackupRouteTable /\ BackupConsistent(backup)
  BY DEF TablesSound, TypeOK, BackupSound
<1>4. /\ BackupRemove(backup, e.oif) \in BackupRouteTable
      /\ BackupConsistent(BackupRemove(backup, e.oif))
  BY <1>2, <1>3, BackupRemoveSound
<1>5. ASSUME e.info.gateway # None
      PROVE  /\ BackupInsert(backup, e.oif, e.info.gateway, e.info.nets) \in BackupRouteTable
             /\ BackupConsistent(BackupInsert(backup, e.oif, e.info.gateway, e.info.nets))
  BY <1>2, <1>3, <1>5, BackupInsertSound
<1>6. backup' \in BackupRouteTable /\ BackupConsistent(backup')
  BY <1>3, <1>4, <1>5 DEF HandleIfEvent, InterfaceAdded, InterfaceRemoved, InterfaceChanged
<1>7. pc' \in Continue
  <2>1. FindByOif(table, e.oif) \in SUBSET Prefix
    BY <1>2 DEF FindByOif, TablesSound, TypeOK, RouteTable
  <2>2. /\ Cleanup(e.oif, FindByOif(table, e.oif), TRUE) \in Continue
        /\ Cleanup(e.oif, FindByOif(table, e.oif), FALSE) \in Continue
    BY <1>2, <2>1, ContinueType
  <2>3. QED
    BY <2>2, ContinueType DEF HandleIfEvent, InterfaceAdded, InterfaceRemoved, InterfaceChanged
<1>8. QED
  BY <1>1, <1>6, <1>7 DEF TablesSound, TypeOK, BackupSound, RoutesFound, HandleIfEvent

\* A route message changes the mirror.
LEMMA HandleRouteChangeStep ==
  ASSUME TablesSound, HandleRouteChange
  PROVE  TablesSound'
<1> DEFINE c == Head(kernel.notices)
<1>1. c \in RouteChange /\ kernel' \in Kernel
  <2>1. kernel \in Kernel /\ kernel.notices \in Seq(RouteChange) /\ kernel.notices # <<>>
    BY DEF TablesSound, TypeOK, HandleRouteChange, Kernel
  <2>2. c \in RouteChange /\ Tail(kernel.notices) \in Seq(RouteChange)
    BY <2>1
  <2>3. kernel' = [kernel EXCEPT !.notices = Tail(kernel.notices)]
    BY DEF HandleRouteChange
  <2>4. QED
    BY <2>1, <2>2, <2>3 DEF Kernel
<1>2. c.prefix \in Prefix /\ c.route \in Route
  BY <1>1 DEF RouteChange
<1>3. table \in RouteTable /\ ByOifComplete(table)
  BY DEF TablesSound, TypeOK, RoutesFound
<1>4. RouteRemove(table, c.prefix) \in RouteTable /\ ByOifComplete(RouteRemove(table, c.prefix))
  BY <1>2, <1>3, RouteRemoveSound
<1>5. ASSUME NEW t \in RouteTable, ByOifComplete(t)
      PROVE  /\ RouteInsert(t, c.prefix, c.route) \in RouteTable
             /\ ByOifComplete(RouteInsert(t, c.prefix, c.route))
  BY <1>2, <1>5, RouteInsertSound
<1>6. TableAfter(c) \in RouteTable /\ ByOifComplete(TableAfter(c))
  <2>1. CASE c.kind = "Add"
    BY <1>3, <1>5, <2>1 DEF TableAfter
  <2>2. CASE c.kind = "Delete"
    BY <1>4, <2>2 DEF TableAfter
  <2>3. CASE c.kind = "Change"
    BY <1>4, <1>5, <2>3 DEF TableAfter
  <2>4. QED
    BY <1>1, <2>1, <2>2, <2>3 DEF RouteChange
<1>7. QED
  BY <1>1, <1>6, ContinueType
  DEF TablesSound, TypeOK, Kernel, BackupSound, RoutesFound, HandleRouteChange, env

\* The mirror is filled from the list of the kernel's routes.
LEMMA StartStep ==
  ASSUME TablesSound, Start
  PROVE  TablesSound'
<1>1. table' \in RouteTable /\ ByOifComplete(table')
  BY RouteTableOfSound DEF TablesSound, TypeOK, Start
<1>2. QED
  BY <1>1 DEF TablesSound, TypeOK, BackupSound, RoutesFound, Start, env

\* Cleanup and the default route change the kernel's routes only.
LEMMA CleanupStep ==
  ASSUME TablesSound,
         (\E p \in Prefix : DeleteDead(p)) \/ AddBack \/ EndCleanup \/ AddDefaultIfNeeded
  PROVE  TablesSound'
<1>0. /\ TypeOK /\ kernel \in Kernel /\ BackupSound' /\ RoutesFound'
      /\ UNCHANGED <<env, started, backup, table>>
  BY DEF TablesSound, TypeOK, Kernel, BackupSound, RoutesFound, DeleteDead, AddBack, EndCleanup,
         AddDefaultIfNeeded, env
<1>1. kernel' \in Kernel /\ pc' \in Continue
  <2>1. ASSUME NEW p \in Prefix, DeleteDead(p)
        PROVE  kernel' \in Kernel /\ pc' \in Continue
    <3>1. pc \in Cleanups
      BY <1>0, <2>1, ContinueType DEF DeleteDead, TypeOK
    <3>2. [pc EXCEPT !.left = @ \ {p}] \in Cleanups
      BY <3>1 DEF Cleanups
    <3>3. QED
      BY <1>0, <2>1, <3>2, ContinueType, KernelRequestType DEF DeleteDead
  <2>2. CASE AddBack
    <3>1. pc.prefix \in Prefix /\ pc.rest \in Cleanups
      BY <1>0, <2>2, ContinueType DEF AddBack, TypeOK
    <3>2. NetOutputs(backup, pc.prefix) \in SUBSET Oif
      BY <1>0 DEF NetOutputs, TypeOK, BackupRouteTable
    <3>3. \A o \in Oif : [gateway |-> None, oif |-> o] \in Route
      BY DEF Route
    <3>4. kernel' \in Kernel
      BY <1>0, <2>2, <3>1, <3>2, <3>3, KernelRequestType DEF AddBack
    <3>5. QED
      BY <2>2, <3>1, <3>4, ContinueType DEF AddBack
  <2>3. CASE EndCleanup
    BY <1>0, <2>3, ContinueType DEF EndCleanup
  <2>4. CASE AddDefaultIfNeeded
    <3>1. AvailableGateways(backup) \in SUBSET Route
      BY <1>0 DEF AvailableGateways, TypeOK, BackupRouteTable, Route
    <3>2. Default \in Prefix
      BY DEF Prefix
    <3>3. QED
      BY <1>0, <2>4, <3>1, <3>2, ContinueType, KernelRequestType DEF AddDefaultIfNeeded
  <2>5. QED
    BY <2>1, <2>2, <2>3, <2>4
<1>2. QED
  BY <1>0, <1>1 DEF TablesSound, TypeOK, Kernel, env

\* Every step keeps the invariant.
LEMMA TablesStaySound == TablesSound /\ [Next]_vars => TablesSound'
<1> SUFFICES ASSUME TablesSound, [Next]_vars PROVE TablesSound'
  OBVIOUS
<1>1. CASE InterfaceChange
  BY <1>1, InterfaceChangeStep
<1>2. CASE KernelStep
  BY <1>2, KernelStepStep
<1>3. CASE ActorStep
  BY <1>3, StartStep, HandleIfEventStep, HandleRouteChangeStep, CleanupStep DEF ActorStep
<1>4. CASE UNCHANGED vars
  BY <1>4 DEF vars, TablesSound, TypeOK, BackupSound, RoutesFound
<1>5. QED
  BY <1>1, <1>2, <1>3, <1>4 DEF Next

\* Every variable keeps its type.
THEOREM TypeCorrect == Spec => []TypeOK
<1>1. TablesSound => TypeOK
  BY DEF TablesSound
<1>2. QED
  BY InitTablesSound, TablesStaySound, <1>1, PTL DEF Spec

\* Whatever order interface events come in, the two directions of the backup
\* table's network mapping agree and only interfaces with a gateway have networks.
THEOREM BackupAlwaysSound == Spec => []BackupSound
<1>1. TablesSound => BackupSound
  BY DEF TablesSound
<1>2. QED
  BY InitTablesSound, TablesStaySound, <1>1, PTL DEF Spec

\* Whatever order route messages come in, every route of the mirror is found by
\* its interface, so that cleanup misses none.
THEOREM RoutesAlwaysFound == Spec => []RoutesFound
<1>1. TablesSound => RoutesFound
  BY DEF TablesSound
<1>2. QED
  BY InitTablesSound, TablesStaySound, <1>1, PTL DEF Spec

-------------------------------------------------------------------------------
(***************************************************************************)
(* Queues.  The positions of the messages about one thing in a queue, when *)
(* a message is added at its end or taken from its front.                  *)
(***************************************************************************)
FirstOf(A, j)    == j \in A /\ \A k \in A : j <= k
LastOf(A, j)     == j \in A /\ \A k \in A : k <= j
Follows(A, j, k) == j \in A /\ k \in A /\ j < k /\ \A i \in A : i <= j \/ k <= i

\* One more message at the end is the last one.
EndsAt(A, B, e) ==
  /\ \A j : LastOf(B, j) => j = e
  /\ \A j, k : Follows(B, j, k) => Follows(A, j, k) \/ (k = e /\ LastOf(A, j))
  /\ \A j : FirstOf(B, j) => FirstOf(A, j) \/ (j = e /\ A = {})
  /\ \A j : B = {j} => j = e /\ A = {}

LEMMA AddedPosition ==
  ASSUME NEW n \in Nat, NEW A \in SUBSET (1..n), NEW B, B = A \cup {n + 1}
  PROVE  EndsAt(A, B, n + 1)
<1>1. ASSUME NEW j, NEW k, Follows(B, j, k)
      PROVE  Follows(A, j, k) \/ (k = n + 1 /\ LastOf(A, j))
  <2>1. CASE k = n + 1
    <3>1. j \in A
      BY <1>1, <2>1 DEF Follows
    <3>2. \A i \in A : i <= j
      BY <1>1, <2>1 DEF Follows
    <3>3. QED
      BY <2>1, <3>1, <3>2 DEF LastOf
  <2>2. CASE k # n + 1
    BY <1>1, <2>2 DEF Follows
  <2>3. QED
    BY <2>1, <2>2
<1>2. \A j : LastOf(B, j) => j = n + 1
  BY DEF LastOf
<1>3. ASSUME NEW j, FirstOf(B, j)
      PROVE  FirstOf(A, j) \/ (j = n + 1 /\ A = {})
  BY <1>3 DEF FirstOf
<1>4. ASSUME NEW j, B = {j}
      PROVE  j = n + 1 /\ A = {}
  BY <1>4
<1>5. QED
  BY <1>1, <1>2, <1>3, <1>4 DEF EndsAt

\* When the first message is taken, the positions of the others shift by one.
LEMMA ShiftedPositions ==
  ASSUME NEW n \in Nat \ {0}, NEW A \in SUBSET (1..n), NEW B, B = {j \in 1..(n - 1) : j + 1 \in A}
  PROVE  /\ \A j : LastOf(B, j) => LastOf(A, j + 1)
         /\ \A j, k : Follows(B, j, k) => Follows(A, j + 1, k + 1)
         /\ \A j : FirstOf(B, j) => IF 1 \in A THEN Follows(A, 1, j + 1) ELSE FirstOf(A, j + 1)
         /\ B = {} => A \subseteq {1}
         /\ \A j : B = {j} => j \in B /\ (1 \notin A => A = {j + 1})
<1>1. \A i \in A : i \in Nat /\ (i # 1 => i - 1 \in B)
  OBVIOUS
<1>2. \A i \in B : i \in Nat /\ i + 1 \in A
  OBVIOUS
<1>3. ASSUME NEW j, LastOf(B, j)
      PROVE  LastOf(A, j + 1)
  <2>1. j \in B /\ \A k \in B : k <= j
    BY <1>3 DEF LastOf
  <2>2. ASSUME NEW i \in A
        PROVE  i <= j + 1
    <3>1. CASE i = 1
      BY <1>2, <2>1, <3>1
    <3>2. CASE i # 1
      <4>1. i - 1 <= j
        BY <1>1, <2>1, <3>2
      <4>2. QED
        BY <1>1, <1>2, <2>1, <4>1
    <3>3. QED
      BY <3>1, <3>2
  <2>3. QED
    BY <1>2, <2>1, <2>2 DEF LastOf
<1>4. ASSUME NEW j, NEW k, Follows(B, j, k)
      PROVE  Follows(A, j + 1, k + 1)
  <2>1. j \in B /\ k \in B /\ j < k /\ \A i \in B : i <= j \/ k <= i
    BY <1>4 DEF Follows
  <2>2. j + 1 \in A /\ k + 1 \in A /\ j + 1 < k + 1
    BY <1>2, <2>1
  <2>3. ASSUME NEW i \in A
        PROVE  i <= j + 1 \/ k + 1 <= i
    <3>1. CASE i = 1
      BY <1>2, <2>1, <3>1
    <3>2. CASE i # 1
      <4>1. i - 1 <= j \/ k <= i - 1
        BY <1>1, <2>1, <3>2
      <4>2. QED
        BY <1>1, <1>2, <2>1, <4>1
    <3>3. QED
      BY <3>1, <3>2
  <2>4. QED
    BY <2>2, <2>3 DEF Follows
<1>5. ASSUME NEW j, FirstOf(B, j)
      PROVE  IF 1 \in A THEN Follows(A, 1, j + 1) ELSE FirstOf(A, j + 1)
  <2>1. j \in B /\ \A k \in B : j <= k
    BY <1>5 DEF FirstOf
  <2>2. j + 1 \in A /\ 1 < j + 1
    BY <1>2, <2>1
  <2>3. ASSUME NEW i \in A, i # 1
        PROVE  j + 1 <= i
    <3>1. j <= i - 1
      BY <1>1, <2>1, <2>3
    <3>2. QED
      BY <1>1, <1>2, <2>1, <3>1
  <2>4. QED
    BY <2>2, <2>3 DEF Follows, FirstOf
<1>6. B = {} => A \subseteq {1}
  BY <1>1
<1>7. ASSUME NEW j, B = {j}
      PROVE  j \in B /\ (1 \notin A => A = {j + 1})
  <2>1. j \in B /\ j + 1 \in A
    BY <1>2, <1>7
  <2>2. ASSUME NEW i \in A, i # 1
        PROVE  i = j + 1
    <3>1. i - 1 = j
      BY <1>1, <1>7, <2>2
    <3>2. QED
      BY <1>1, <3>1
  <2>3. QED
    BY <2>1, <2>2
<1>8. QED
  BY <1>3, <1>4, <1>5, <1>6, <1>7

-------------------------------------------------------------------------------
(***************************************************************************)
(* The mirror and the route messages that are still to be handled.         *)
(***************************************************************************)
NoticesOf(s, p) == {j \in DOMAIN s : s[j].prefix = p}
Notices(p)      == NoticesOf(kernel.notices, p)

\* The route of a prefix after a message about it.
RouteAfter(c) == IF c.kind = "Delete" THEN None ELSE c.route

\* The last message about a prefix tells of its route, and a route is only added
\* after the one before was deleted.
NoticesInv ==
  \A p \in Prefix :
    /\ \A j \in Notices(p) :
         LastOf(Notices(p), j) => kernel.fib[p] = RouteAfter(kernel.notices[j])
    /\ \A j, k \in Notices(p) :
         Follows(Notices(p), j, k) /\ kernel.notices[k].kind = "Add" => kernel.notices[j].kind = "Delete"

\* The mirror has the routes that no message is about, and an added route that it has
\* already is one it was started with.
MirrorInv ==
  started => \A p \in Prefix :
    /\ Notices(p) = {} => table.routes[p] = kernel.fib[p]
    /\ \A j \in Notices(p) : Notices(p) = {j} /\ kernel.notices[j].kind = "Add"
         => table.routes[p] \in {None, kernel.notices[j].route}

\* The positions in the queue when a message is added or taken.
LEMMA NoticesAppend ==
  ASSUME NEW s \in Seq(RouteChange), NEW c \in RouteChange
  PROVE  /\ Len(s) \in Nat
         /\ \A p : NoticesOf(s, p) \in SUBSET (1..Len(s))
         /\ \A j \in 1..Len(s) : Append(s, c)[j] = s[j]
         /\ Append(s, c)[Len(s) + 1] = c
         /\ \A p : NoticesOf(Append(s, c), p) =
                     IF p = c.prefix THEN NoticesOf(s, p) \cup {Len(s) + 1} ELSE NoticesOf(s, p)
<1>1. /\ Len(s) \in Nat /\ DOMAIN s = 1..Len(s) /\ DOMAIN Append(s, c) = 1..(Len(s) + 1)
      /\ \A j \in 1..Len(s) : Append(s, c)[j] = s[j]
      /\ Append(s, c)[Len(s) + 1] = c
  OBVIOUS
<1>2. ASSUME NEW p
      PROVE  NoticesOf(Append(s, c), p) =
               IF p = c.prefix THEN NoticesOf(s, p) \cup {Len(s) + 1} ELSE NoticesOf(s, p)
  BY <1>1 DEF NoticesOf
<1>3. QED
  BY <1>1, <1>2 DEF NoticesOf

LEMMA NoticesTail ==
  ASSUME NEW s \in Seq(RouteChange), s # <<>>
  PROVE  /\ Len(s) \in Nat \ {0} /\ Head(s) = s[1]
         /\ \A p : NoticesOf(s, p) \in SUBSET (1..Len(s))
         /\ \A p : 1 \in NoticesOf(s, p) <=> p = Head(s).prefix
         /\ \A j \in 1..(Len(s) - 1) : Tail(s)[j] = s[j + 1]
         /\ \A p : NoticesOf(Tail(s), p) = {j \in 1..(Len(s) - 1) : j + 1 \in NoticesOf(s, p)}
<1>1. /\ Len(s) \in Nat \ {0} /\ Head(s) = s[1] /\ DOMAIN s = 1..Len(s)
      /\ DOMAIN Tail(s) = 1..(Len(s) - 1)
      /\ \A j \in 1..(Len(s) - 1) : Tail(s)[j] = s[j + 1] /\ j + 1 \in DOMAIN s
  OBVIOUS
<1>2. QED
  BY <1>1 DEF NoticesOf

\* Every change of the kernel's table and the message that tells of it.
LEMMA KernelDoesMirror ==
  ASSUME TypeOK, NoticesInv, MirrorInv, UNCHANGED <<started, table>>,
         NEW kind \in {"Add", "Delete", "Change"}, NEW q \in Prefix, NEW r, NEW route \in Route,
         kernel' = KernelDoes(kind, q, r, route),
         r = IF kind = "Delete" THEN None ELSE route,
         kind = "Add" => kernel.fib[q] = None
  PROVE  NoticesInv' /\ MirrorInv'
<1> DEFINE c == [kind |-> kind, prefix |-> q, route |-> route]
           s == kernel.notices
           n == Len(s)
<1>1. c \in RouteChange /\ c.kind = kind /\ c.prefix = q /\ c.route = route
  BY DEF RouteChange
<1>2. /\ kernel'.notices = Append(s, c) /\ kernel'.fib = [kernel.fib EXCEPT ![q] = r]
      /\ kernel.fib \in [Prefix -> Route \cup {None}] /\ s \in Seq(RouteChange)
  BY DEF KernelDoes, TypeOK
<1> HIDE DEF c
<1>3. /\ n \in Nat
      /\ \A p : NoticesOf(s, p) \in SUBSET (1..n)
      /\ \A j \in 1..n : Append(s, c)[j] = s[j]
      /\ Append(s, c)[n + 1] = c
      /\ \A p : NoticesOf(Append(s, c), p) =
                  IF p = q THEN NoticesOf(s, p) \cup {n + 1} ELSE NoticesOf(s, p)
  <2>1. s \in Seq(RouteChange) /\ c \in RouteChange /\ c.prefix = q
    BY <1>1, <1>2
  <2> HIDE DEF s, n
  <2>2. /\ Len(s) \in Nat
        /\ \A p : NoticesOf(s, p) \in SUBSET (1..Len(s))
        /\ \A j \in 1..Len(s) : Append(s, c)[j] = s[j]
        /\ Append(s, c)[Len(s) + 1] = c
        /\ \A p : NoticesOf(Append(s, c), p) =
                    IF p = c.prefix THEN NoticesOf(s, p) \cup {Len(s) + 1} ELSE NoticesOf(s, p)
    BY <2>1, NoticesAppend
  <2>3. QED
    BY <2>1, <2>2 DEF n
<1> HIDE DEF n
<1>4. ASSUME NEW p \in Prefix, p # q
      PROVE  /\ Notices(p)' = Notices(p) /\ kernel'.fib[p] = kernel.fib[p]
             /\ \A j \in Notices(p) : kernel'.notices[j] = kernel.notices[j]
  BY <1>2, <1>3, <1>4 DEF Notices
<1>5. /\ Notices(q)' = Notices(q) \cup {n + 1} /\ Notices(q) \in SUBSET (1..n)
      /\ kernel'.fib[q] = r /\ kernel'.notices[n + 1] = c
      /\ \A j \in Notices(q) : kernel'.notices[j] = kernel.notices[j]
  BY <1>2, <1>3 DEF Notices
<1>6. /\ \A j : LastOf(Notices(q)', j) => j = n + 1
      /\ \A j, k : Follows(Notices(q)', j, k)
           => Follows(Notices(q), j, k) \/ (k = n + 1 /\ LastOf(Notices(q), j))
      /\ \A j : Notices(q)' = {j} => j = n + 1 /\ Notices(q) = {}
  <2>1. PICK A, B : A = Notices(q) /\ B = Notices(q)'
    OBVIOUS
  <2>2. n \in Nat
    BY <1>3
  <2>3. EndsAt(A, B, n + 1)
    BY <1>5, <2>1, <2>2, AddedPosition
  <2>4. QED
    BY <2>1, <2>3 DEF EndsAt
<1>7. NoticesInv'
  <2>1. ASSUME NEW p \in Prefix, NEW j \in Notices(p)', LastOf(Notices(p)', j)
        PROVE  kernel'.fib[p] = RouteAfter(kernel'.notices[j])
    <3>1. CASE p = q
      BY <1>1, <1>5, <1>6, <2>1, <3>1 DEF RouteAfter
    <3>2. CASE p # q
      BY <1>4, <2>1, <3>2 DEF NoticesInv
    <3>3. QED
      BY <3>1, <3>2
  <2>2. ASSUME NEW p \in Prefix, NEW j \in Notices(p)', NEW k \in Notices(p)',
               Follows(Notices(p)', j, k), kernel'.notices[k].kind = "Add"
        PROVE  kernel'.notices[j].kind = "Delete"
    <3>1. CASE p = q
      <4>1. CASE Follows(Notices(q), j, k)
        <5>1. j \in Notices(q) /\ k \in Notices(q)
          BY <4>1 DEF Follows
        <5>2. QED
          BY <1>5, <2>2, <4>1, <5>1 DEF NoticesInv
      <4>2. CASE k = n + 1 /\ LastOf(Notices(q), j)
        <5>1. j \in Notices(q) /\ kernel.fib[q] = RouteAfter(kernel.notices[j])
          BY <4>2 DEF LastOf, NoticesInv
        <5>2. kernel.fib[q] = None
          BY <1>1, <1>5, <2>2, <4>2
        <5>3. kernel.notices[j] \in RouteChange
          BY <1>2, <5>1 DEF Notices, NoticesOf
        <5>4. kernel.notices[j].kind = "Delete"
          BY <5>1, <5>2, <5>3, RouteAssumption DEF RouteAfter, RouteChange
        <5>5. QED
          BY <1>5, <5>1, <5>4
      <4>3. QED
        BY <1>6, <2>2, <3>1, <4>1, <4>2
    <3>2. CASE p # q
      BY <1>4, <2>2, <3>2 DEF NoticesInv
    <3>3. QED
      BY <3>1, <3>2
  <2>3. QED
    BY <2>1, <2>2 DEF NoticesInv
<1>8. MirrorInv'
  <2> SUFFICES ASSUME started, NEW p \in Prefix
               PROVE  /\ Notices(p)' = {} => table.routes[p] = kernel'.fib[p]
                      /\ \A j \in Notices(p)' : Notices(p)' = {j} /\ kernel'.notices[j].kind = "Add"
                           => table.routes[p] \in {None, kernel'.notices[j].route}
    BY DEF MirrorInv
  <2>1. CASE p = q
    <3>1. Notices(q)' # {}
      BY <1>5
    <3>2. ASSUME NEW j, Notices(q)' = {j}, kernel'.notices[j].kind = "Add"
          PROVE  table.routes[q] = None
      <4>1. j = n + 1 /\ Notices(q) = {}
        BY <1>6, <3>2
      <4>2. table.routes[q] = kernel.fib[q]
        BY <4>1 DEF MirrorInv
      <4>3. QED
        BY <1>1, <1>5, <3>2, <4>1, <4>2
    <3>3. QED
      BY <2>1, <3>1, <3>2
  <2>2. CASE p # q
    BY <1>4, <2>2 DEF MirrorInv
  <2>3. QED
    BY <2>1, <2>2
<1>9. QED
  BY <1>7, <1>8

\* The actor handles a route message.
LEMMA RouteChangeMirror ==
  ASSUME TypeOK, NoticesInv, MirrorInv, HandleRouteChange
  PROVE  NoticesInv' /\ MirrorInv'
<1> DEFINE s == kernel.notices
           n == Len(s)
           c == Head(s)
<1>1. /\ s \in Seq(RouteChange) /\ s # <<>> /\ started /\ UNCHANGED started
      /\ kernel'.notices = Tail(s) /\ kernel'.fib = kernel.fib
      /\ table' = TableAfter(c)
  BY DEF HandleRouteChange, Ready, TypeOK
<1>2. /\ n \in Nat \ {0} /\ c = s[1]
      /\ \A p : NoticesOf(s, p) \in SUBSET (1..n)
      /\ \A p : 1 \in NoticesOf(s, p) <=> p = c.prefix
      /\ \A j \in 1..(n - 1) : Tail(s)[j] = s[j + 1]
      /\ \A p : NoticesOf(Tail(s), p) = {j \in 1..(n - 1) : j + 1 \in NoticesOf(s, p)}
  BY <1>1, NoticesTail
<1>3. c \in RouteChange
  BY <1>1
<1> HIDE DEF c, n
<1>4. ASSUME NEW p \in Prefix
      PROVE  /\ Notices(p) \in SUBSET (1..n) /\ Notices(p)' = {j \in 1..(n - 1) : j + 1 \in Notices(p)}
             /\ \A j \in Notices(p)' : kernel'.notices[j] = s[j + 1] /\ j + 1 \in Notices(p)
             /\ 1 \in Notices(p) <=> p = c.prefix
  BY <1>1, <1>2 DEF Notices
<1>5. ASSUME NEW p \in Prefix
      PROVE  /\ \A j : LastOf(Notices(p)', j) => LastOf(Notices(p), j + 1)
             /\ \A j, k : Follows(Notices(p)', j, k) => Follows(Notices(p), j + 1, k + 1)
             /\ \A j : FirstOf(Notices(p)', j)
                  => IF 1 \in Notices(p) THEN Follows(Notices(p), 1, j + 1) ELSE FirstOf(Notices(p), j + 1)
             /\ Notices(p)' = {} => Notices(p) \subseteq {1}
             /\ \A j : Notices(p)' = {j} => j \in Notices(p)' /\ (1 \notin Notices(p) => Notices(p) = {j + 1})
  BY <1>2, <1>4, ShiftedPositions
<1>6. NoticesInv'
  <2>1. ASSUME NEW p \in Prefix, NEW j \in Notices(p)', LastOf(Notices(p)', j)
        PROVE  kernel'.fib[p] = RouteAfter(kernel'.notices[j])
    <3>1. j + 1 \in Notices(p) /\ kernel'.notices[j] = s[j + 1] /\ LastOf(Notices(p), j + 1)
      BY <1>4, <1>5, <2>1
    <3>2. kernel.fib[p] = RouteAfter(s[j + 1])
      BY <3>1 DEF NoticesInv
    <3>3. QED
      BY <1>1, <3>1, <3>2
  <2>2. ASSUME NEW p \in Prefix, NEW j \in Notices(p)', NEW k \in Notices(p)',
               Follows(Notices(p)', j, k), kernel'.notices[k].kind = "Add"
        PROVE  kernel'.notices[j].kind = "Delete"
    <3>1. /\ j + 1 \in Notices(p) /\ kernel'.notices[j] = s[j + 1]
          /\ k + 1 \in Notices(p) /\ kernel'.notices[k] = s[k + 1]
          /\ Follows(Notices(p), j + 1, k + 1)
      BY <1>4, <1>5, <2>2
    <3>2. s[j + 1].kind = "Delete"
      BY <2>2, <3>1 DEF NoticesInv
    <3>3. QED
      BY <3>1, <3>2
  <2>3. QED
    BY <2>1, <2>2 DEF NoticesInv
<1>7. table.routes \in [Prefix -> Route \cup {None}] /\ c.prefix \in Prefix
  BY <1>3 DEF TypeOK, RouteTable, RouteChange
<1>8. /\ table'.routes[c.prefix] = IF c.kind = "Delete" THEN None
                                   ELSE IF c.kind = "Add" /\ table.routes[c.prefix] # None
                                   THEN table.routes[c.prefix] ELSE c.route
      /\ \A p \in Prefix : p # c.prefix => table'.routes[p] = table.routes[p]
  BY <1>1, <1>3, <1>7 DEF TableAfter, RouteInsert, RouteRemove, RouteChange
<1>9. MirrorInv'
  <2> SUFFICES ASSUME NEW p \in Prefix
               PROVE  /\ Notices(p)' = {} => table'.routes[p] = kernel'.fib[p]
                      /\ \A j \in Notices(p)' : Notices(p)' = {j} /\ kernel'.notices[j].kind = "Add"
                           => table'.routes[p] \in {None, kernel'.notices[j].route}
    BY DEF MirrorInv
  <2>1. CASE p # c.prefix
    <3>1. 1 \notin Notices(p) /\ table'.routes[p] = table.routes[p]
      BY <1>4, <1>8, <2>1
    <3>2. Notices(p)' = {} => Notices(p) = {}
      BY <1>5, <3>1
    <3>3. ASSUME NEW j \in Notices(p)', Notices(p)' = {j}, kernel'.notices[j].kind = "Add"
          PROVE  table'.routes[p] \in {None, kernel'.notices[j].route}
      <4>1. j + 1 \in Notices(p) /\ Notices(p) = {j + 1} /\ kernel'.notices[j] = s[j + 1]
        BY <1>4, <1>5, <3>1, <3>3
      <4>2. s[j + 1].kind = "Add" => table.routes[p] \in {None, s[j + 1].route}
        BY <1>1, <4>1 DEF MirrorInv
      <4>3. QED
        BY <3>1, <3>3, <4>1, <4>2
    <3>4. QED
      BY <1>1, <3>1, <3>2, <3>3 DEF MirrorInv
  <2>2. CASE p = c.prefix
    <3>1. 1 \in Notices(p)
      BY <1>4, <2>2
    <3>2. ASSUME Notices(p)' = {}
          PROVE  table'.routes[p] = kernel'.fib[p]
      <4>1. Notices(p) = {1}
        BY <1>5, <3>1, <3>2
      <4>2. kernel.fib[p] = RouteAfter(c)
        BY <1>2, <3>1, <4>1 DEF NoticesInv, LastOf
      <4>3. c.kind = "Add" => table.routes[p] \in {None, c.route}
        BY <1>1, <1>2, <3>1, <4>1 DEF MirrorInv
      <4>4. QED
        BY <1>1, <1>8, <2>2, <4>2, <4>3 DEF RouteAfter
    <3>3. ASSUME NEW j \in Notices(p)', Notices(p)' = {j}, kernel'.notices[j].kind = "Add"
          PROVE  table'.routes[p] = None
      <4>1. FirstOf(Notices(p)', j)
        BY <1>4, <3>3 DEF FirstOf
      <4>2. Follows(Notices(p), 1, j + 1) /\ j + 1 \in Notices(p) /\ s[j + 1].kind = "Add"
        BY <1>4, <1>5, <3>1, <3>3, <4>1
      <4>3. s[1].kind = "Delete"
        BY <3>1, <4>2 DEF NoticesInv
      <4>4. QED
        BY <1>2, <1>8, <2>2, <4>3
    <3>4. QED
      BY <3>2, <3>3
  <2>3. QED
    BY <2>1, <2>2
<1>10. QED
  BY <1>6, <1>9

\* Every step keeps the mirror and the route messages together.
LEMMA MirrorStep ==
  ASSUME TypeOK, NoticesInv, MirrorInv, [Next]_vars
  PROVE  NoticesInv' /\ MirrorInv'
<1>0. kernel.fib \in [Prefix -> Route \cup {None}] /\ Default \in Prefix /\ Net \subseteq Prefix
  BY DEF TypeOK, Prefix
<1>1. CASE UNCHANGED <<kernel, started, table>>
  BY <1>1 DEF NoticesInv, MirrorInv, Notices
<1>2. ASSUME NEW p \in Prefix, KernelWithdraws(p)
      PROVE  NoticesInv' /\ MirrorInv'
  <2>1. /\ kernel.fib[p] \in Route /\ UNCHANGED <<started, table>>
        /\ kernel' = KernelDoes("Delete", p, None, kernel.fib[p])
    BY <1>0, <1>2 DEF KernelWithdraws
  <2>2. QED
    BY <2>1, KernelDoesMirror
<1>3. ASSUME NEW o \in Oif, NEW n \in Net, KernelConnects(o, n)
      PROVE  NoticesInv' /\ MirrorInv'
  <2> DEFINE r == [gateway |-> None, oif |-> o]
  <2>1. /\ r \in Route /\ n \in Prefix /\ kernel.fib[n] = None /\ UNCHANGED <<started, table>>
        /\ kernel' = KernelDoes("Add", n, r, r)
    BY <1>0, <1>3 DEF KernelConnects, Route
  <2>2. QED
    BY <2>1, KernelDoesMirror
<1>4. ASSUME NEW r \in Route, AdminRoute(r)
      PROVE  NoticesInv' /\ MirrorInv'
  <2>1. UNCHANGED <<started, table>>
    BY <1>4 DEF AdminRoute
  <2>2. \/ kernel.fib[Default] = None /\ kernel' = KernelDoes("Add", Default, r, r)
        \/ kernel' = KernelDoes("Delete", Default, None, r)
        \/ kernel' = KernelDoes("Change", Default, r, r)
    BY <1>4 DEF AdminRoute, Accepts
  <2>3. QED
    BY <1>0, <2>1, <2>2, KernelDoesMirror
<1>5. ASSUME NEW p \in Prefix, NEW r \in Route, kernel' = KernelAdd(p, r), UNCHANGED <<started, table>>
      PROVE  NoticesInv' /\ MirrorInv'
  <2>1. CASE Accepts(p, r)
    <3>1. kernel.fib[p] = None /\ kernel' = KernelDoes("Add", p, r, r)
      BY <1>5, <2>1 DEF Accepts, KernelAdd
    <3>2. QED
      BY <1>5, <3>1, KernelDoesMirror
  <2>2. CASE ~Accepts(p, r)
    BY <1>1, <1>5, <2>2 DEF KernelAdd
  <2>3. QED
    BY <2>1, <2>2
<1>6. ASSUME NEW p \in Prefix, NEW r, kernel' = KernelDelete(p, r), UNCHANGED <<started, table>>
      PROVE  NoticesInv' /\ MirrorInv'
  <2>1. CASE kernel' = kernel
    BY <1>1, <1>6, <2>1
  <2>2. CASE kernel' # kernel
    <3>1. kernel.fib[p] \in Route /\ kernel' = KernelDoes("Delete", p, None, kernel.fib[p])
      BY <1>0, <1>6, <2>2 DEF KernelDelete
    <3>2. QED
      BY <1>6, <3>1, KernelDoesMirror
  <2>3. QED
    BY <2>1, <2>2
<1>7. CASE Start
  <2>1. table'.routes = kernel.fib /\ UNCHANGED kernel
    BY <1>7 DEF Start, RouteTableOf
  <2>2. ASSUME NEW p \in Prefix
        PROVE  Notices(p)' = Notices(p) /\ table'.routes[p] = kernel'.fib[p]
    BY <2>1 DEF Notices
  <2>3. NoticesInv'
    BY <2>1 DEF NoticesInv, Notices
  <2>4. ASSUME NEW p \in Prefix, NEW j \in Notices(p), Notices(p) = {j}, kernel.notices[j].kind = "Add"
        PROVE  table'.routes[p] = kernel.notices[j].route
    <3>1. LastOf(Notices(p), j)
      BY <2>4 DEF LastOf, Notices, NoticesOf, TypeOK
    <3>2. QED
      BY <2>2, <2>1, <2>4, <3>1 DEF NoticesInv, RouteAfter
  <2>5. QED
    BY <2>1, <2>2, <2>3, <2>4 DEF MirrorInv
<1>8. CASE HandleRouteChange
  BY <1>8, RouteChangeMirror
<1>9. CASE HandleIfEvent
  BY <1>1, <1>9 DEF HandleIfEvent
<1>10. ASSUME NEW p \in Prefix, DeleteDead(p)
       PROVE  NoticesInv' /\ MirrorInv'
  BY <1>6, <1>10 DEF DeleteDead
<1>11. CASE AddBack
  <2>1. pc.prefix \in Prefix /\ UNCHANGED <<started, table>>
    BY <1>11, ContinueType DEF AddBack, TypeOK
  <2>2. \/ UNCHANGED kernel
        \/ \E o \in NetOutputs(backup, pc.prefix) : kernel' = KernelAdd(pc.prefix, [gateway |-> None, oif |-> o])
    BY <1>11 DEF AddBack
  <2>3. \A o \in NetOutputs(backup, pc.prefix) : [gateway |-> None, oif |-> o] \in Route
    BY DEF NetOutputs, TypeOK, BackupRouteTable, Route
  <2>4. QED
    BY <1>1, <1>5, <2>1, <2>2, <2>3
<1>12. CASE EndCleanup
  BY <1>1, <1>12 DEF EndCleanup
<1>13. CASE AddDefaultIfNeeded
  <2>1. \/ UNCHANGED kernel
        \/ \E r \in AvailableGateways(backup) : kernel' = KernelAdd(Default, r)
    BY <1>13 DEF AddDefaultIfNeeded
  <2>2. AvailableGateways(backup) \in SUBSET Route
    BY DEF AvailableGateways, TypeOK, BackupRouteTable, Route
  <2>3. UNCHANGED <<started, table>>
    BY <1>13 DEF AddDefaultIfNeeded
  <2>4. QED
    BY <1>0, <1>1, <1>5, <2>1, <2>2, <2>3
<1>14. CASE InterfaceChange
  <2>1. UNCHANGED <<kernel, started, table>>
    BY <1>14 DEF InterfaceChange, Appears, Configured, LosesCarrier, Deconfigured, Departs,
               Vanishes, Refreshed, BecomesInfo
  <2>2. QED
    BY <1>1, <2>1
<1>15. CASE KernelStep
  BY <1>15, <1>2, <1>3, <1>4 DEF KernelStep
<1>16. CASE ActorStep
  BY <1>16, <1>7, <1>8, <1>9, <1>10, <1>11, <1>12, <1>13 DEF ActorStep
<1>17. CASE UNCHANGED vars
  BY <1>1, <1>17 DEF vars
<1>18. QED
  BY <1>14, <1>15, <1>16, <1>17 DEF Next

\* The inductive invariant of the mirror.
Mirrored == TablesSound /\ NoticesInv /\ MirrorInv

LEMMA MirroredInvariant == Spec => []Mirrored
<1>1. Init => Mirrored
  <2> SUFFICES ASSUME Init PROVE NoticesInv /\ MirrorInv
    BY InitTablesSound DEF Mirrored
  <2>1. kernel.notices = <<>> /\ ~started
    BY DEF Init
  <2>2. \A p : Notices(p) = {}
    BY <2>1 DEF Notices, NoticesOf
  <2>3. QED
    BY <2>1, <2>2 DEF NoticesInv, MirrorInv
<1>2. Mirrored /\ [Next]_vars => Mirrored'
  BY TablesStaySound, MirrorStep DEF Mirrored, TablesSound
<1>3. QED
  BY <1>1, <1>2, PTL DEF Spec

\* Once every route message has been handled the mirror is the kernel's table,
\* whoever changed the routes and however the messages raced with the listing at
\* the start and with the daemon's own requests.
THEOREM MirrorAlwaysAgrees == Spec => []MirrorAgrees
<1>1. Mirrored => MirrorAgrees
  <2> SUFFICES ASSUME Mirrored, started, kernel.notices = <<>>
               PROVE  table.routes = kernel.fib
    BY DEF MirrorAgrees
  <2>1. \A p : Notices(p) = {}
    BY DEF Notices, NoticesOf
  <2>2. \A p \in Prefix : table.routes[p] = kernel.fib[p]
    BY <2>1 DEF Mirrored, MirrorInv
  <2>3. table.routes \in [Prefix -> Route \cup {None}] /\ kernel.fib \in [Prefix -> Route \cup {None}]
    BY DEF Mirrored, TablesSound, TypeOK, RouteTable
  <2>4. QED
    BY <2>2, <2>3
<1>2. QED
  BY MirroredInvariant, <1>1, PTL

-------------------------------------------------------------------------------
(***************************************************************************)
(* The backup table and the interface events that are still to be handled. *)
(* f is what is known of the interfaces, s the queue of events, g the      *)
(* gateways kept, and `told` the interfaces whose gateway events tell of.  *)
(***************************************************************************)

\* The events that bear on an interface's gateway: it is announced without one.
HeardOf(s, o) == {j \in DOMAIN s : s[j].oif = o /\ s[j].kind # "Added"}

\* The gateway that is to be kept for an interface, and what an event makes of it.
GatewayOf(info) == IF info.state = "Connected" THEN info.gateway ELSE None
Kept(e)         == IF e.kind = "Removed" THEN None ELSE GatewayOf(e.info)

EventsOk(s) == \A j \in DOMAIN s : s[j].kind = "Added" => s[j].info.gateway = None

\* The last of these events, and without any of them the backup table itself, has the
\* gateway of the interface as it is now.
BackupOk(f, s, g, told) ==
  \A o \in told :
    /\ HeardOf(s, o) = {} => g[o] = GatewayOf(f[o])
    /\ \A j \in HeardOf(s, o) : LastOf(HeardOf(s, o), j) => Kept(s[j]) = GatewayOf(f[o])

\* An interface that is gone has no gateway, a connected one has a network.
IfacesOk(f) ==
  \A o \in Oif : /\ f[o].state = "Absent" => f[o].gateway = None
                 /\ f[o].state = "Connected" => f[o].nets # {}

\* The positions in the queue when an event is added or taken.
LEMMA EventsAppend ==
  ASSUME NEW s \in Seq(IfEvent), NEW e \in IfEvent
  PROVE  /\ Len(s) \in Nat /\ DOMAIN s = 1..Len(s) /\ DOMAIN Append(s, e) = 1..(Len(s) + 1)
         /\ \A o : HeardOf(s, o) \in SUBSET (1..Len(s))
         /\ \A j \in 1..Len(s) : Append(s, e)[j] = s[j]
         /\ Append(s, e)[Len(s) + 1] = e
         /\ \A o : HeardOf(Append(s, e), o) =
                     IF o = e.oif /\ e.kind # "Added" THEN HeardOf(s, o) \cup {Len(s) + 1}
                     ELSE HeardOf(s, o)
<1>1. /\ Len(s) \in Nat /\ DOMAIN s = 1..Len(s) /\ DOMAIN Append(s, e) = 1..(Len(s) + 1)
      /\ \A j \in 1..Len(s) : Append(s, e)[j] = s[j]
      /\ Append(s, e)[Len(s) + 1] = e
  OBVIOUS
<1>2. ASSUME NEW o
      PROVE  HeardOf(Append(s, e), o) =
               IF o = e.oif /\ e.kind # "Added" THEN HeardOf(s, o) \cup {Len(s) + 1}
               ELSE HeardOf(s, o)
  BY <1>1 DEF HeardOf
<1>3. QED
  BY <1>1, <1>2 DEF HeardOf

LEMMA EventsTail ==
  ASSUME NEW s \in Seq(IfEvent), s # <<>>
  PROVE  /\ Len(s) \in Nat \ {0} /\ Head(s) = s[1] /\ DOMAIN s = 1..Len(s)
         /\ DOMAIN Tail(s) = 1..(Len(s) - 1)
         /\ \A o : HeardOf(s, o) \in SUBSET (1..Len(s))
         /\ \A o : 1 \in HeardOf(s, o) <=> o = Head(s).oif /\ Head(s).kind # "Added"
         /\ \A j \in 1..(Len(s) - 1) : Tail(s)[j] = s[j + 1]
         /\ \A o : HeardOf(Tail(s), o) = {j \in 1..(Len(s) - 1) : j + 1 \in HeardOf(s, o)}
<1>1. /\ Len(s) \in Nat \ {0} /\ Head(s) = s[1] /\ DOMAIN s = 1..Len(s)
      /\ DOMAIN Tail(s) = 1..(Len(s) - 1)
      /\ \A j \in 1..(Len(s) - 1) : Tail(s)[j] = s[j + 1] /\ j + 1 \in DOMAIN s
  OBVIOUS
<1>2. QED
  BY <1>1 DEF HeardOf

\* An interface changes and an event is queued that tells what becomes of its gateway,
\* or that it is there when it has none.
LEMMA EventAdded ==
  ASSUME NEW s \in Seq(IfEvent), NEW f \in [Oif -> Iface], NEW g, NEW told \in SUBSET Oif,
         EventsOk(s), BackupOk(f, s, g, told), NEW e \in IfEvent, NEW info \in Iface,
         IF e.kind = "Added" THEN e.info.gateway = None /\ GatewayOf(info) = GatewayOf(f[e.oif])
         ELSE Kept(e) = GatewayOf(info)
  PROVE  /\ EventsOk(Append(s, e))
         /\ BackupOk([f EXCEPT ![e.oif] = info], Append(s, e), g,
                     IF e.kind = "Added" THEN told ELSE told \cup {e.oif})
<1> DEFINE q == e.oif
           h == [f EXCEPT ![q] = info]
           t == Append(s, e)
           n == Len(s)
           now == IF e.kind = "Added" THEN told ELSE told \cup {q}
<1>1. q \in Oif /\ h[q] = info /\ \A o \in Oif : o # q => h[o] = f[o]
  BY DEF IfEvent
<1>2. /\ n \in Nat /\ DOMAIN s = 1..n /\ DOMAIN t = 1..(n + 1)
      /\ \A o : HeardOf(s, o) \in SUBSET (1..n)
      /\ \A j \in 1..n : t[j] = s[j]
      /\ t[n + 1] = e
      /\ \A o : HeardOf(t, o) = IF o = q /\ e.kind # "Added" THEN HeardOf(s, o) \cup {n + 1}
                                ELSE HeardOf(s, o)
  BY EventsAppend
<1>3. IF e.kind = "Added" THEN e.info.gateway = None /\ GatewayOf(info) = GatewayOf(f[q])
      ELSE Kept(e) = GatewayOf(info)
  OBVIOUS
<1> HIDE DEF q, h, t, n
<1>4. EventsOk(t)
  BY <1>2, <1>3 DEF EventsOk
<1>5. ASSUME NEW o \in now
      PROVE  /\ HeardOf(t, o) = {} => g[o] = GatewayOf(h[o])
             /\ \A j \in HeardOf(t, o) : LastOf(HeardOf(t, o), j) => Kept(t[j]) = GatewayOf(h[o])
  <2>1. CASE o = q /\ e.kind # "Added"
    <3>1. HeardOf(t, o) = HeardOf(s, o) \cup {n + 1} /\ HeardOf(s, o) \in SUBSET (1..n)
      BY <1>2, <2>1
    <3>2. \A j : LastOf(HeardOf(t, o), j) => j = n + 1
      BY <1>2, <3>1 DEF LastOf
    <3>3. QED
      BY <1>1, <1>2, <1>3, <2>1, <3>1, <3>2
  <2>2. CASE o # q \/ e.kind = "Added"
    <3>1. o \in told /\ o \in Oif /\ GatewayOf(h[o]) = GatewayOf(f[o])
      BY <1>1, <1>3, <2>2
    <3>2. HeardOf(t, o) = HeardOf(s, o) /\ \A j \in HeardOf(s, o) : t[j] = s[j]
      BY <1>2, <2>2
    <3>3. QED
      BY <3>1, <3>2 DEF BackupOk
  <2>3. QED
    BY <2>1, <2>2
<1>6. BackupOk(h, t, g, now)
  BY <1>5 DEF BackupOk
<1>7. QED
  BY <1>4, <1>6 DEF h, t, q

EventsInv == EventsOk(ifEvents)
BackupInv == BackupOk(iface, ifEvents, backup.gateways, Oif \ untold)
IfacesInv == IfacesOk(iface)

\* A change of an interface that one event tells of.
LEMMA BecomesInfoEvents ==
  ASSUME TypeOK, EventsInv, BackupInv, NEW kind \in {"Added", "Removed", "Changed"}, NEW o \in Oif,
         NEW info \in Iface, BecomesInfo(kind, o, info),
         kind = "Added" => info.gateway = None /\ GatewayOf(iface[o]) = None,
         kind = "Removed" => info.state = "Absent"
  PROVE  EventsInv' /\ BackupInv'
<1> DEFINE e == [kind |-> kind, oif |-> o, info |-> info]
<1>1. e \in IfEvent /\ e.kind = kind /\ e.oif = o /\ e.info = info
  BY DEF IfEvent
<1>2. /\ iface' = [iface EXCEPT ![o] = info] /\ UNCHANGED backup
      /\ ifEvents' = ifEvents \o <<e>>
      /\ iface \in [Oif -> Iface] /\ ifEvents \in Seq(IfEvent)
      /\ untold' = IF kind = "Added" THEN untold ELSE untold \ {o}
      /\ untold \in SUBSET Oif
  BY DEF BecomesInfo, TypeOK, Tells
<1> HIDE DEF e
<1>3. ifEvents' = Append(ifEvents, e)
  BY <1>1, <1>2
<1>4. IF e.kind = "Added" THEN e.info.gateway = None /\ GatewayOf(info) = GatewayOf(iface[e.oif])
      ELSE Kept(e) = GatewayOf(info)
  BY <1>1 DEF Kept, GatewayOf
<1>5. Oif \ untold' = IF e.kind = "Added" THEN Oif \ untold ELSE (Oif \ untold) \cup {e.oif}
  BY <1>1, <1>2
<1>6. /\ EventsOk(Append(ifEvents, e))
      /\ BackupOk([iface EXCEPT ![e.oif] = info], Append(ifEvents, e), backup.gateways, Oif \ untold')
  <2> DEFINE told == Oif \ untold
  <2>1. told \in SUBSET Oif /\ EventsOk(ifEvents) /\ BackupOk(iface, ifEvents, backup.gateways, told)
    BY DEF EventsInv, BackupInv
  <2> HIDE DEF told
  <2>2. /\ EventsOk(Append(ifEvents, e))
        /\ BackupOk([iface EXCEPT ![e.oif] = info], Append(ifEvents, e), backup.gateways,
                    IF e.kind = "Added" THEN told ELSE told \cup {e.oif})
    BY <1>1, <1>2, <1>4, <2>1, EventAdded
  <2>3. QED
    BY <1>5, <2>2 DEF told
<1>7. QED
  BY <1>1, <1>2, <1>3, <1>6 DEF EventsInv, BackupInv

\* A refresh tells of an interface as if it had gone and come back.
LEMMA RefreshedEvents ==
  ASSUME TypeOK, EventsInv, BackupInv, NEW o \in Oif, Refreshed(o)
  PROVE  EventsInv' /\ BackupInv'
<1> DEFINE found == [iface[o] EXCEPT !.gateway = None]
           f     == [iface EXCEPT ![o] = Gone]
           e     == [kind |-> "Removed", oif |-> o, info |-> iface[o]]
           a     == [kind |-> "Added", oif |-> o, info |-> found]
           s     == Append(ifEvents, e)
           told  == Oif \ untold
           now   == told \cup {o}
<1>1. iface[o] \in Iface /\ iface \in [Oif -> Iface] /\ ifEvents \in Seq(IfEvent)
  BY DEF TypeOK
<1>2. /\ found \in Iface /\ GatewayOf(found) = None
      /\ Gone \in Iface /\ GatewayOf(Gone) = None
  BY <1>1 DEF Iface, Gone, GatewayOf
<1>3. /\ e \in IfEvent /\ e.kind = "Removed" /\ e.oif = o
      /\ a \in IfEvent /\ a.kind = "Added" /\ a.oif = o /\ a.info = found /\ found.gateway = None
  BY <1>1, <1>2 DEF IfEvent
<1>4. /\ iface' = [iface EXCEPT ![o] = found] /\ UNCHANGED backup
      /\ ifEvents' = ifEvents \o <<e>> \o <<a>>
      /\ Oif \ untold' = now /\ now \in SUBSET Oif /\ told \in SUBSET Oif
  BY DEF Refreshed, Tells
<1>5. EventsOk(ifEvents) /\ BackupOk(iface, ifEvents, backup.gateways, told)
  BY DEF EventsInv, BackupInv
<1> HIDE DEF found, e, a, told
<1>6. /\ ifEvents' = Append(s, a) /\ s \in Seq(IfEvent)
      /\ f \in [Oif -> Iface] /\ f[o] = Gone /\ iface' = [f EXCEPT ![o] = found]
  <2>1. s \in Seq(IfEvent) /\ ifEvents' = Append(s, a)
    <3>1. \A q \in Seq(IfEvent), x \in IfEvent : Append(q, x) = q \o <<x>> /\ Append(q, x) \in Seq(IfEvent)
      OBVIOUS
    <3>2. QED
      BY <1>1, <1>3, <1>4, <3>1
  <2>2. f \in [Oif -> Iface] /\ f[o] = Gone
    BY <1>1, <1>2
  <2>3. [iface EXCEPT ![o] = found] = [f EXCEPT ![o] = found]
    BY <1>1
  <2>4. QED
    BY <1>4, <2>1, <2>2, <2>3
<1>7. EventsOk(s) /\ BackupOk(f, s, backup.gateways, now)
  <2>1. Kept(e) = GatewayOf(Gone)
    BY <1>2, <1>3 DEF Kept
  <2>2. /\ EventsOk(Append(ifEvents, e))
        /\ BackupOk([iface EXCEPT ![e.oif] = Gone], Append(ifEvents, e), backup.gateways,
                    IF e.kind = "Added" THEN told ELSE told \cup {e.oif})
    BY <1>1, <1>2, <1>3, <1>4, <1>5, <2>1, EventAdded
  <2>3. QED
    BY <1>3, <2>2
<1> HIDE DEF f, s, now
<1>8. a.info.gateway = None /\ GatewayOf(found) = GatewayOf(f[a.oif])
  BY <1>2, <1>3, <1>6
<1>9. /\ EventsOk(Append(s, a))
      /\ BackupOk([f EXCEPT ![a.oif] = found], Append(s, a), backup.gateways,
                  IF a.kind = "Added" THEN now ELSE now \cup {a.oif})
  <2>1. /\ s \in Seq(IfEvent) /\ f \in [Oif -> Iface] /\ now \in SUBSET Oif
        /\ a \in IfEvent /\ found \in Iface
    BY <1>2, <1>3, <1>4, <1>6
  <2>2. IF a.kind = "Added" THEN a.info.gateway = None /\ GatewayOf(found) = GatewayOf(f[a.oif])
        ELSE Kept(a) = GatewayOf(found)
    BY <1>3, <1>8
  <2>3. QED
    BY <1>7, <2>1, <2>2, EventAdded
<1>10. QED
  BY <1>3, <1>4, <1>6, <1>9 DEF EventsInv, BackupInv

\* An interface goes away and nothing tells of it.
LEMMA VanishesEvents ==
  ASSUME TypeOK, EventsInv, BackupInv, NEW o \in Oif, Vanishes(o)
  PROVE  EventsInv' /\ BackupInv'
<1>1. /\ UNCHANGED <<ifEvents, backup>> /\ iface' = [iface EXCEPT ![o] = Gone]
      /\ untold' = untold \cup {o} /\ iface \in [Oif -> Iface]
  BY DEF Vanishes, TypeOK
<1>2. \A q \in Oif \ untold' : q \in Oif \ untold /\ iface'[q] = iface[q]
  BY <1>1
<1>3. QED
  BY <1>1, <1>2 DEF EventsInv, EventsOk, BackupInv, BackupOk

\* The interfaces change as the InterfaceManager tells, or does not tell.
LEMMA InterfaceChangeEvents ==
  ASSUME TypeOK, EventsInv, BackupInv, IfacesInv, InterfaceChange
  PROVE  EventsInv' /\ BackupInv' /\ IfacesInv'
<1>1. PICK o \in Oif :
        \/ Appears(o)
        \/ \E gateway \in Gateway \cup {None}, n \in Net : Configured(o, gateway, n)
        \/ LosesCarrier(o)
        \/ Deconfigured(o)
        \/ Departs(o)
        \/ Vanishes(o)
        \/ Refreshed(o)
  BY DEF InterfaceChange
<1>2. iface[o] \in Iface /\ iface \in [Oif -> Iface]
  BY DEF TypeOK
<1>3. ASSUME NEW info \in Iface, iface' = [iface EXCEPT ![o] = info],
             info.state = "Absent" => info.gateway = None, info.state = "Connected" => info.nets # {}
      PROVE  IfacesInv'
  BY <1>2, <1>3 DEF IfacesInv, IfacesOk
<1>4. CASE Appears(o)
  <2> DEFINE info == [state |-> "Up", gateway |-> None, nets |-> {}]
  <2>1. info \in Iface /\ BecomesInfo("Added", o, info) /\ GatewayOf(iface[o]) = None
    BY <1>4 DEF Appears, Iface, GatewayOf
  <2>2. QED
    BY <1>3, <2>1, BecomesInfoEvents DEF BecomesInfo
<1>5. ASSUME NEW gateway \in Gateway \cup {None}, NEW n \in Net, Configured(o, gateway, n)
      PROVE  EventsInv' /\ BackupInv' /\ IfacesInv'
  <2> DEFINE info == [state |-> "Connected", gateway |-> gateway, nets |-> {n}]
  <2>1. info \in Iface /\ BecomesInfo("Changed", o, info)
    BY <1>5 DEF Configured, Iface
  <2>2. QED
    BY <1>3, <2>1, BecomesInfoEvents DEF BecomesInfo
<1>6. CASE LosesCarrier(o)
  <2> DEFINE info == [iface[o] EXCEPT !.state = "NoCarrier"]
  <2>1. info \in Iface /\ info.state = "NoCarrier" /\ BecomesInfo("Changed", o, info)
    BY <1>2, <1>6 DEF LosesCarrier, Iface
  <2> HIDE DEF info
  <2>2. QED
    BY <1>3, <2>1, BecomesInfoEvents DEF BecomesInfo
<1>7. CASE Deconfigured(o)
  <2> DEFINE info == [state |-> "Up", gateway |-> None, nets |-> {}]
  <2>1. info \in Iface /\ BecomesInfo("Changed", o, info)
    BY <1>7 DEF Deconfigured, Iface
  <2>2. QED
    BY <1>3, <2>1, BecomesInfoEvents DEF BecomesInfo
<1>8. Gone \in Iface /\ Gone.state = "Absent" /\ Gone.gateway = None
  BY DEF Gone, Iface
<1>9. CASE Departs(o)
  <2>1. BecomesInfo("Removed", o, Gone)
    BY <1>9 DEF Departs
  <2>2. QED
    BY <1>3, <1>8, <2>1, BecomesInfoEvents DEF BecomesInfo
<1>10. CASE Vanishes(o)
  <2>1. iface' = [iface EXCEPT ![o] = Gone]
    BY <1>10 DEF Vanishes
  <2>2. QED
    BY <1>3, <1>8, <1>10, <2>1, VanishesEvents
<1>11. CASE Refreshed(o)
  <2> DEFINE info == [iface[o] EXCEPT !.gateway = None]
  <2>1. /\ info \in Iface /\ info.state = iface[o].state /\ info.nets = iface[o].nets
        /\ info.gateway = None /\ iface' = [iface EXCEPT ![o] = info]
    BY <1>2, <1>11 DEF Refreshed, Iface
  <2> HIDE DEF info
  <2>2. QED
    BY <1>3, <1>11, <2>1, RefreshedEvents DEF IfacesInv, IfacesOk
<1>12. QED
  BY <1>1, <1>4, <1>5, <1>6, <1>7, <1>9, <1>10, <1>11

\* The actor handles an interface event.
LEMMA IfEventBackup ==
  ASSUME TypeOK, EventsInv, BackupInv, HandleIfEvent
  PROVE  EventsInv' /\ BackupInv'
<1> DEFINE s == ifEvents
           t == Tail(s)
           n == Len(s)
           e == Head(s)
           g == backup.gateways
           h == backup'.gateways
<1>1. /\ s \in Seq(IfEvent) /\ s # <<>> /\ e \in IfEvent
      /\ ifEvents' = t /\ UNCHANGED <<iface, untold>>
  BY DEF HandleIfEvent, TypeOK
<1>2. /\ n \in Nat \ {0} /\ e = s[1] /\ DOMAIN s = 1..n
      /\ DOMAIN t = 1..(n - 1)
      /\ \A o : HeardOf(s, o) \in SUBSET (1..n)
      /\ \A o : 1 \in HeardOf(s, o) <=> o = e.oif /\ e.kind # "Added"
      /\ \A j \in 1..(n - 1) : t[j] = s[j + 1]
      /\ \A o : HeardOf(t, o) = {j \in 1..(n - 1) : j + 1 \in HeardOf(s, o)}
  BY <1>1, EventsTail
<1>3. /\ e.oif \in Oif /\ e.kind \in {"Added", "Removed", "Changed"}
      /\ g \in [Oif -> Gateway \cup {None}]
  BY <1>1 DEF IfEvent, TypeOK, BackupRouteTable
<1>4. \A o \in Oif : o # e.oif => h[o] = g[o]
  <2>1. \/ backup' = backup
        \/ backup' = BackupRemove(backup, e.oif)
        \/ backup' = BackupInsert(backup, e.oif, e.info.gateway, e.info.nets)
    BY DEF HandleIfEvent, InterfaceAdded, InterfaceRemoved, InterfaceChanged
  <2>2. QED
    BY <1>3, <2>1 DEF BackupRemove, BackupInsert
<1>5. h[e.oif] = IF e.kind = "Added" THEN g[e.oif] ELSE Kept(e)
  <2>1. BackupRemove(backup, e.oif).gateways[e.oif] = None
    BY <1>3 DEF BackupRemove
  <2>2. BackupInsert(backup, e.oif, e.info.gateway, e.info.nets).gateways[e.oif] = e.info.gateway
    BY <1>3 DEF BackupInsert
  <2>3. InterfaceAdded(e) \/ InterfaceRemoved(e) \/ InterfaceChanged(e)
    BY DEF HandleIfEvent
  <2>4. CASE InterfaceAdded(e)
    <3>1. e.kind = "Added" => e.info.gateway = None
      BY <1>1, <1>2 DEF EventsInv, EventsOk
    <3>2. QED
      BY <2>4, <3>1 DEF InterfaceAdded
  <2>5. CASE InterfaceRemoved(e)
    BY <2>1, <2>5 DEF InterfaceRemoved, Kept
  <2>6. CASE InterfaceChanged(e)
    BY <2>1, <2>2, <2>6 DEF InterfaceChanged, Kept, GatewayOf
  <2>7. QED
    BY <2>3, <2>4, <2>5, <2>6
<1> HIDE DEF s, t, n, e, g, h
<1>6. EventsOk(s) /\ BackupOk(iface, s, g, Oif \ untold)
  BY DEF EventsInv, BackupInv, s, g
<1>7. EventsOk(t)
  <2>1. ASSUME NEW j \in DOMAIN t, t[j].kind = "Added"
        PROVE  t[j].info.gateway = None
    <3>1. j + 1 \in DOMAIN s /\ t[j] = s[j + 1]
      BY <1>2
    <3>2. QED
      BY <1>6, <2>1, <3>1 DEF EventsOk
  <2>2. QED
    BY <2>1 DEF EventsOk
<1>8. ASSUME NEW o \in Oif \ untold
      PROVE  /\ HeardOf(t, o) = {} => h[o] = GatewayOf(iface[o])
             /\ \A j \in HeardOf(t, o) : LastOf(HeardOf(t, o), j) => Kept(t[j]) = GatewayOf(iface[o])
  <2>1. /\ \A j : LastOf(HeardOf(t, o), j) => LastOf(HeardOf(s, o), j + 1)
        /\ HeardOf(t, o) = {} => HeardOf(s, o) \subseteq {1}
    <3>1. /\ HeardOf(s, o) \in SUBSET (1..n) /\ n \in Nat \ {0}
          /\ HeardOf(t, o) = {j \in 1..(n - 1) : j + 1 \in HeardOf(s, o)}
      BY <1>2
    <3>2. QED
      BY <3>1, ShiftedPositions
  <2>2. /\ HeardOf(s, o) = {} => g[o] = GatewayOf(iface[o])
        /\ \A j \in HeardOf(s, o) : LastOf(HeardOf(s, o), j) => Kept(s[j]) = GatewayOf(iface[o])
    BY <1>6 DEF BackupOk
  <2>3. ASSUME HeardOf(t, o) = {}
        PROVE  h[o] = GatewayOf(iface[o])
    <3>1. CASE HeardOf(s, o) = {}
      <4>1. o # e.oif \/ e.kind = "Added"
        BY <1>2, <3>1
      <4>2. QED
        BY <1>4, <1>5, <2>2, <3>1, <4>1
    <3>2. CASE HeardOf(s, o) # {}
      <4>1. HeardOf(s, o) = {1}
        BY <2>1, <2>3, <3>2
      <4>2. LastOf(HeardOf(s, o), 1) /\ o = e.oif /\ e.kind # "Added"
        BY <1>2, <4>1 DEF LastOf
      <4>3. QED
        BY <1>2, <1>5, <2>2, <4>1, <4>2
    <3>3. QED
      BY <3>1, <3>2
  <2>4. ASSUME NEW j \in HeardOf(t, o), LastOf(HeardOf(t, o), j)
        PROVE  Kept(t[j]) = GatewayOf(iface[o])
    <3>1. t[j] = s[j + 1] /\ j + 1 \in HeardOf(s, o)
      BY <1>2
    <3>2. QED
      BY <2>1, <2>2, <2>4, <3>1
  <2>5. QED
    BY <2>3, <2>4
<1>9. BackupOk(iface, t, h, Oif \ untold)
  BY <1>8 DEF BackupOk
<1>10. QED
  BY <1>1, <1>7, <1>9 DEF EventsInv, BackupInv, h, t

\* The inductive invariant of the backup table.
BackupKept == TablesSound /\ EventsInv /\ BackupInv /\ IfacesInv

LEMMA InitBackupKept == Init => BackupKept
<1> SUFFICES ASSUME Init PROVE EventsInv /\ BackupInv /\ IfacesInv
  BY InitTablesSound DEF BackupKept
<1>1. /\ ifEvents = <<>> /\ backup.gateways = [o \in Oif |-> None]
      /\ \A o \in Oif : iface[o].state \in {"Absent", "Up"} /\ iface[o].gateway = None
  BY DEF Init, NoBackup
<1>2. DOMAIN ifEvents = {} /\ \A o : HeardOf(ifEvents, o) = {}
  <2>1. DOMAIN ifEvents = {}
    BY <1>1
  <2>2. QED
    BY <2>1 DEF HeardOf
<1>3. EventsInv
  BY <1>2 DEF EventsInv, EventsOk
<1>4. BackupInv /\ IfacesInv
  BY <1>1, <1>2 DEF BackupInv, BackupOk, IfacesInv, IfacesOk, GatewayOf
<1>5. QED
  BY <1>3, <1>4

LEMMA BackupStaysKept == BackupKept /\ [Next]_vars => BackupKept'
<1> SUFFICES ASSUME BackupKept, [Next]_vars PROVE EventsInv' /\ BackupInv' /\ IfacesInv'
  BY TablesStaySound DEF BackupKept
<1>0. TypeOK
  BY DEF BackupKept, TablesSound
<1>1. CASE InterfaceChange
  BY <1>0, <1>1, InterfaceChangeEvents DEF BackupKept
<1>2. CASE HandleIfEvent
  <2>1. UNCHANGED iface
    BY <1>2 DEF HandleIfEvent
  <2>2. QED
    BY <1>0, <1>2, <2>1, IfEventBackup DEF BackupKept, IfacesInv
<1>3. CASE UNCHANGED <<iface, ifEvents, untold, backup>>
  BY <1>3 DEF BackupKept, EventsInv, BackupInv, IfacesInv
<1>4. CASE KernelStep
  BY <1>3, <1>4 DEF KernelStep, KernelWithdraws, KernelConnects, AdminRoute, env
<1>5. CASE ActorStep
  BY <1>2, <1>3, <1>5 DEF ActorStep, Start, HandleRouteChange, DeleteDead, AddBack, EndCleanup,
                          AddDefaultIfNeeded, env
<1>6. CASE UNCHANGED vars
  BY <1>3, <1>6 DEF vars
<1>7. QED
  BY <1>1, <1>4, <1>5, <1>6 DEF Next

\* Once every event has been handled, the gateways kept for the default route are
\* those of the connected interfaces, whatever the interfaces went through and in
\* whatever bursts the events came, except for those whose removal no event told of
\* and whose state none has told of since: that an interface announced anew leaves
\* its entry alone is right for all others, because they had no gateway.
THEOREM BackupAlwaysCurrent == Spec => []BackupCurrent
<1>1. BackupKept => BackupCurrent
  <2> SUFFICES ASSUME BackupKept, Quiet, NEW o \in Oif \ untold
               PROVE  backup.gateways[o] = IF iface[o].state = "Connected" THEN iface[o].gateway ELSE None
    BY DEF BackupCurrent
  <2>1. DOMAIN ifEvents = {}
    BY DEF Quiet
  <2>2. HeardOf(ifEvents, o) = {}
    BY <2>1 DEF HeardOf
  <2>3. QED
    BY <2>2 DEF BackupKept, BackupInv, BackupOk, GatewayOf
<1>2. QED
  BY InitBackupKept, BackupStaysKept, <1>1, PTL DEF Spec

-------------------------------------------------------------------------------
(***************************************************************************)
(* The default route.  When no interface was removed every handler ends    *)
(* with a look at the default route, and a request for one that the kernel *)
(* refuses has a cause whose event or message is still to be handled.      *)
(***************************************************************************)
IdleInv == ~started => pc = Idle /\ \A o \in Oif : backup.gateways[o] = None

NoRemovals == \A j \in DOMAIN ifEvents : ifEvents[j].kind # "Removed"

RestoreInv == /\ pc.at = "cleanup" => pc.restore = TRUE
              /\ pc.at = "addback" => pc.rest.restore = TRUE

NothingMissing ==
  (Quiet /\ kernel.fib[Default] = None) => \A o \in Oif : backup.gateways[o] = None

DefaultInv == /\ IdleInv
              /\ removals = 0 => untold = {} /\ NoRemovals /\ RestoreInv /\ NothingMissing

\* What a handler has still to do is told apart.
LEMMA ContinueKinds ==
  /\ Idle.at = "idle" /\ Restore.at = "restore"
  /\ \A o, left, restore : /\ Cleanup(o, left, restore).at = "cleanup"
                           /\ Cleanup(o, left, restore).restore = restore
  /\ \A p, rest : AddBackTo(p, rest).at = "addback" /\ AddBackTo(p, rest).rest = rest
  /\ \A c \in Cleanups : c.at = "cleanup" /\ c.restore \in BOOLEAN
  BY DEF Idle, Restore, Cleanup, AddBackTo, Cleanups

\* A change of the kernel's table leaves a route message.
LEMMA KernelDoesNotice ==
  ASSUME TypeOK, NEW kind \in {"Add", "Delete", "Change"}, NEW p \in Prefix, NEW r, NEW route \in Route
  PROVE  KernelDoes(kind, p, r, route).notices # <<>>
<1>1. [kind |-> kind, prefix |-> p, route |-> route] \in RouteChange /\ kernel.notices \in Seq(RouteChange)
  BY DEF RouteChange, TypeOK
<1>2. Append(kernel.notices, [kind |-> kind, prefix |-> p, route |-> route]) # <<>>
  BY <1>1
<1>3. QED
  BY <1>2 DEF KernelDoes

\* The interfaces change, and an event tells of it.
LEMMA InterfaceChangeDefault ==
  ASSUME TypeOK, DefaultInv, InterfaceChange
  PROVE  DefaultInv'
<1>0. /\ UNCHANGED <<kernel, started, backup, pc>> /\ ifEvents \in Seq(IfEvent)
      /\ removals \in Nat /\ removals' \in {removals, removals + 1}
  <2>1. UNCHANGED <<kernel, started, backup, pc>>
    BY DEF InterfaceChange, Appears, Configured, LosesCarrier, Deconfigured, Departs,
           Vanishes, Refreshed, BecomesInfo
  <2>2. removals' = removals \/ removals' = removals + 1
    BY DEF InterfaceChange, Appears, Configured, LosesCarrier, Deconfigured, Departs, Vanishes,
           Refreshed
  <2>3. QED
    BY <2>1, <2>2, BoundAssumption DEF TypeOK
<1>1. IdleInv' /\ (RestoreInv => RestoreInv')
  BY <1>0 DEF DefaultInv, IdleInv, RestoreInv
<1>2. SUFFICES ASSUME removals' = 0
               PROVE  untold' = {} /\ NoRemovals' /\ RestoreInv' /\ NothingMissing'
  BY <1>1 DEF DefaultInv
<1>3. PICK o \in Oif, kind \in {"Added", "Changed"}, info \in Iface : BecomesInfo(kind, o, info)
  <2>1. PICK o \in Oif :
          \/ Appears(o)
          \/ \E gateway \in Gateway \cup {None}, n \in Net : Configured(o, gateway, n)
          \/ LosesCarrier(o)
          \/ Deconfigured(o)
          \/ Departs(o)
          \/ Vanishes(o)
          \/ Refreshed(o)
    BY DEF InterfaceChange
  <2>2. iface[o] \in Iface
    BY DEF TypeOK
  <2>3. CASE Appears(o)
    BY <2>3 DEF Appears, Iface
  <2>4. ASSUME NEW gateway \in Gateway \cup {None}, NEW n \in Net, Configured(o, gateway, n)
        PROVE  \E kind \in {"Added", "Changed"}, info \in Iface : BecomesInfo(kind, o, info)
    BY <2>4 DEF Configured, Iface
  <2>5. CASE LosesCarrier(o)
    <3>1. [iface[o] EXCEPT !.state = "NoCarrier"] \in Iface
      BY <2>2 DEF Iface
    <3>2. QED
      BY <2>5, <3>1 DEF LosesCarrier
  <2>6. CASE Deconfigured(o)
    BY <2>6 DEF Deconfigured, Iface
  <2>7. ~Departs(o) /\ ~Vanishes(o) /\ ~Refreshed(o)
    BY <1>0, <1>2 DEF Departs, Vanishes, Refreshed
  <2>8. QED
    BY <2>1, <2>3, <2>4, <2>5, <2>6, <2>7
<1>4. removals = 0
  BY <1>0, <1>2
<1> DEFINE e == [kind |-> kind, oif |-> o, info |-> info]
<1>5. e \in IfEvent /\ e.kind # "Removed" /\ ifEvents' = ifEvents \o <<e>>
  BY <1>3 DEF IfEvent, BecomesInfo, Tells
<1> HIDE DEF e
<1>6. ifEvents' = Append(ifEvents, e)
  BY <1>0, <1>5
<1>7. /\ ifEvents' # <<>>
      /\ \A j \in DOMAIN ifEvents' : ifEvents'[j] = e \/ (j \in DOMAIN ifEvents /\ ifEvents'[j] = ifEvents[j])
  BY <1>0, <1>5, <1>6
<1>8. NoRemovals'
  BY <1>4, <1>5, <1>7 DEF DefaultInv, NoRemovals
<1>9. untold' = {}
  BY <1>3, <1>4 DEF BecomesInfo, DefaultInv
<1>10. QED
  BY <1>1, <1>4, <1>7, <1>8, <1>9 DEF DefaultInv, NothingMissing, Quiet

\* The kernel's table changes, and a message tells of it.
LEMMA KernelStepDefault ==
  ASSUME TypeOK, DefaultInv, KernelStep
  PROVE  DefaultInv'
<1>0. kernel.fib \in [Prefix -> Route \cup {None}] /\ Default \in Prefix /\ Net \subseteq Prefix
  BY DEF TypeOK, Prefix
<1>1. UNCHANGED <<ifEvents, untold, removals, started, backup, pc>>
  BY DEF KernelStep, KernelWithdraws, KernelConnects, AdminRoute, env
<1>2. kernel'.notices # <<>>
  <2>1. ASSUME NEW p \in Prefix, KernelWithdraws(p) PROVE kernel'.notices # <<>>
    <3>1. kernel.fib[p] \in Route /\ kernel' = KernelDoes("Delete", p, None, kernel.fib[p])
      BY <1>0, <2>1 DEF KernelWithdraws
    <3>2. QED
      BY <3>1, KernelDoesNotice
  <2>2. ASSUME NEW o \in Oif, NEW n \in Net, KernelConnects(o, n) PROVE kernel'.notices # <<>>
    <3>1. [gateway |-> None, oif |-> o] \in Route /\ n \in Prefix
      BY <1>0 DEF Route
    <3>2. QED
      BY <2>2, <3>1, KernelDoesNotice DEF KernelConnects
  <2>3. ASSUME NEW r \in Route, AdminRoute(r) PROVE kernel'.notices # <<>>
    BY <1>0, <2>3, KernelDoesNotice DEF AdminRoute
  <2>4. QED
    BY <2>1, <2>2, <2>3 DEF KernelStep
<1>3. QED
  BY <1>1, <1>2 DEF DefaultInv, IdleInv, NoRemovals, RestoreInv, NothingMissing, Quiet

\* The end of a handler: a default route is asked for.
LEMMA AddDefaultDefault ==
  ASSUME TypeOK, DefaultInv, MirrorInv, BackupInv, IfacesInv, AddDefaultIfNeeded
  PROVE  DefaultInv'
<1>1. /\ pc = Restore /\ pc' = Idle /\ UNCHANGED <<iface, ifEvents, untold, removals, started, backup, table>>
  BY DEF AddDefaultIfNeeded, env
<1>2. started
  BY <1>1, ContinueKinds DEF DefaultInv, IdleInv
<1>3. IdleInv' /\ RestoreInv' /\ (NoRemovals => NoRemovals')
  BY <1>1, <1>2, ContinueKinds DEF IdleInv, RestoreInv, NoRemovals
<1>4. SUFFICES ASSUME removals = 0, Quiet', kernel'.fib[Default] = None, NEW o \in Oif, backup.gateways[o] # None
               PROVE  FALSE
  BY <1>1, <1>3 DEF DefaultInv, NothingMissing
<1>5. ifEvents = <<>> /\ kernel'.notices = <<>>
  BY <1>1, <1>4 DEF Quiet
<1>6. ASSUME NEW r \in AvailableGateways(backup), kernel' = KernelAdd(Default, r)
      PROVE  kernel' = kernel /\ ~Accepts(Default, r)
  <2>1. r \in Route /\ Default \in Prefix
    BY DEF AvailableGateways, TypeOK, BackupRouteTable, Route, Prefix
  <2>2. KernelDoes("Add", Default, r, r).notices # <<>>
    BY <2>1, KernelDoesNotice
  <2>3. QED
    BY <1>5, <1>6, <2>2 DEF KernelAdd
<1>7. kernel' = kernel
  BY <1>6 DEF AddDefaultIfNeeded
<1>8. FindDefault(table) = None /\ kernel.fib[Default] = None
  <2>1. Notices(Default) = {}
    <3>1. DOMAIN kernel.notices = {}
      BY <1>5, <1>7
    <3>2. QED
      BY <3>1 DEF Notices, NoticesOf
  <2>2. table.routes[Default] = kernel.fib[Default]
    BY <1>2, <2>1 DEF MirrorInv, Prefix
  <2>3. QED
    BY <1>4, <1>7, <2>2 DEF FindDefault
<1>9. AvailableGateways(backup) # {}
  BY <1>4 DEF AvailableGateways
<1>10. PICK r \in AvailableGateways(backup) : kernel' = KernelAdd(Default, r)
  BY <1>8, <1>9 DEF AddDefaultIfNeeded
<1>11. PICK q \in Oif : backup.gateways[q] # None /\ r.oif = q
  BY DEF AvailableGateways
<1>12. GatewayOf(iface[q]) # None
  <2>1. DOMAIN ifEvents = {}
    BY <1>5
  <2>2. HeardOf(ifEvents, q) = {}
    BY <2>1 DEF HeardOf
  <2>3. q \in Oif \ untold
    BY <1>4 DEF DefaultInv
  <2>4. QED
    BY <1>11, <2>2, <2>3 DEF BackupInv, BackupOk
<1>13. Accepts(Default, r)
  BY <1>8, <1>11, <1>12 DEF Accepts, GatewayOf, IfacesInv, IfacesOk
<1>14. QED
  BY <1>6, <1>10, <1>13

\* The other steps of the actor do not end a handler that looks at the default route.
LEMMA ActorStepDefault ==
  ASSUME TypeOK, DefaultInv, MirrorInv, BackupInv, IfacesInv, ActorStep
  PROVE  DefaultInv'
<1>1. CASE Start
  <2>1. /\ ~started /\ pc = Idle /\ started' = TRUE
        /\ UNCHANGED <<ifEvents, untold, removals, backup, pc>>
        /\ \A o \in Oif : backup.gateways[o] = None
    BY <1>1 DEF Start, env, DefaultInv, IdleInv
  <2>2. QED
    BY <2>1 DEF DefaultInv, IdleInv, NoRemovals, RestoreInv, NothingMissing
<1>2. CASE HandleIfEvent
  <2> DEFINE e == Head(ifEvents)
  <2>1. /\ started /\ UNCHANGED <<started, untold, removals>> /\ ifEvents' = Tail(ifEvents)
        /\ ifEvents \in Seq(IfEvent) /\ ifEvents # <<>>
        /\ InterfaceAdded(e) \/ InterfaceRemoved(e) \/ InterfaceChanged(e)
    BY <1>2 DEF HandleIfEvent, Ready, TypeOK
  <2>2. /\ \A j \in DOMAIN Tail(ifEvents) : j + 1 \in DOMAIN ifEvents /\ Tail(ifEvents)[j] = ifEvents[j + 1]
        /\ 1 \in DOMAIN ifEvents /\ e = ifEvents[1]
    BY <2>1
  <2> HIDE DEF e
  <2>3. /\ pc'.at \in {"restore", "cleanup"}
        /\ e.kind # "Removed" => pc' = Restore \/ pc'.restore = TRUE
    <3>1. CASE InterfaceAdded(e)
      BY <3>1, ContinueKinds DEF InterfaceAdded
    <3>2. CASE InterfaceRemoved(e)
      BY <3>2 DEF InterfaceRemoved, Cleanup
    <3>3. CASE InterfaceChanged(e) /\ e.info.state = "Connected"
      BY <3>3, ContinueKinds DEF InterfaceChanged
    <3>4. CASE InterfaceChanged(e) /\ e.info.state # "Connected"
      <4>1. pc' = Cleanup(e.oif, FindByOif(table, e.oif), TRUE)
        BY <3>4 DEF InterfaceChanged
      <4>2. pc'.at = "cleanup" /\ pc'.restore = TRUE
        BY <4>1 DEF Cleanup
      <4>3. QED
        BY <4>2
    <3>5. QED
      BY <2>1, <3>1, <3>2, <3>3, <3>4
  <2>4. NoRemovals => NoRemovals' /\ e.kind # "Removed"
    BY <2>1, <2>2 DEF NoRemovals
  <2>5. pc' # Idle
    BY <2>3, ContinueKinds
  <2>6. QED
    BY <2>1, <2>3, <2>4, <2>5, ContinueKinds DEF DefaultInv, IdleInv, RestoreInv, NothingMissing, Quiet
<1>3. CASE HandleRouteChange
  <2>1. pc' = Restore /\ started /\ UNCHANGED <<started, untold, removals, ifEvents>>
    BY <1>3 DEF HandleRouteChange, Ready, env
  <2>2. QED
    BY <2>1, ContinueKinds DEF DefaultInv, IdleInv, NoRemovals, RestoreInv, NothingMissing, Quiet
<1>4. ASSUME NEW p \in Prefix, DeleteDead(p)
      PROVE  DefaultInv'
  <2> DEFINE rest == [pc EXCEPT !.left = @ \ {p}]
  <2>1. pc' = AddBackTo(p, rest) /\ pc.at = "cleanup" /\ UNCHANGED <<started, untold, removals, ifEvents, backup>>
    BY <1>4 DEF DeleteDead, env
  <2>2. rest.restore = pc.restore
    BY <2>1, ContinueType DEF TypeOK, Cleanups
  <2> HIDE DEF rest
  <2>3. started
    BY <2>1, ContinueKinds DEF DefaultInv, IdleInv
  <2>4. QED
    BY <2>1, <2>2, <2>3, ContinueKinds
    DEF DefaultInv, IdleInv, NoRemovals, RestoreInv, NothingMissing, Quiet
<1>5. CASE AddBack
  <2>1. pc' = pc.rest /\ pc.at = "addback" /\ UNCHANGED <<started, untold, removals, ifEvents, backup>>
    BY <1>5 DEF AddBack, env
  <2>2. pc.rest \in Cleanups
    BY <2>1, ContinueType DEF TypeOK
  <2>3. started
    BY <2>1, ContinueKinds DEF DefaultInv, IdleInv
  <2>4. QED
    BY <2>1, <2>2, <2>3, ContinueKinds
    DEF DefaultInv, IdleInv, NoRemovals, RestoreInv, NothingMissing, Quiet
<1>6. CASE EndCleanup
  <2>1. /\ pc' = IF pc.restore THEN Restore ELSE Idle
        /\ pc.at = "cleanup" /\ UNCHANGED <<started, untold, removals, ifEvents, backup>>
    BY <1>6 DEF EndCleanup, env
  <2>2. started
    BY <2>1, ContinueKinds DEF DefaultInv, IdleInv
  <2>3. RestoreInv'
    BY <2>1, ContinueKinds DEF RestoreInv
  <2>4. removals = 0 => pc' = Restore
    BY <2>1 DEF DefaultInv, RestoreInv
  <2>5. QED
    BY <2>1, <2>2, <2>3, <2>4, ContinueKinds
    DEF DefaultInv, IdleInv, NoRemovals, NothingMissing, Quiet
<1>7. CASE AddDefaultIfNeeded
  BY <1>7, AddDefaultDefault
<1>8. QED
  BY <1>1, <1>2, <1>3, <1>4, <1>5, <1>6, <1>7 DEF ActorStep

\* The inductive invariant of the default route.
DefaultKept == Mirrored /\ BackupKept /\ DefaultInv

LEMMA InitDefaultKept == Init => DefaultKept
<1> SUFFICES ASSUME Init PROVE DefaultInv /\ NoticesInv /\ MirrorInv
  BY InitTablesSound, InitBackupKept DEF DefaultKept, Mirrored
<1>1. /\ kernel.notices = <<>> /\ ifEvents = <<>> /\ ~started /\ pc = Idle
      /\ untold = {} /\ backup.gateways = [o \in Oif |-> None]
  BY DEF Init, NoBackup
<1>2. \A p : Notices(p) = {}
  BY <1>1 DEF Notices, NoticesOf
<1>3. NoticesInv /\ MirrorInv
  BY <1>1, <1>2 DEF NoticesInv, MirrorInv
<1>4. NoRemovals
  BY <1>1 DEF NoRemovals
<1>5. QED
  BY <1>1, <1>3, <1>4, ContinueKinds DEF DefaultInv, IdleInv, RestoreInv, NothingMissing

LEMMA DefaultStaysKept == DefaultKept /\ [Next]_vars => DefaultKept'
<1> SUFFICES ASSUME DefaultKept, [Next]_vars PROVE DefaultKept'
  OBVIOUS
<1>0. TypeOK /\ TablesSound /\ NoticesInv /\ MirrorInv /\ BackupInv /\ IfacesInv /\ DefaultInv
  BY DEF DefaultKept, Mirrored, BackupKept, TablesSound
<1>1. Mirrored'
  BY <1>0, TablesStaySound, MirrorStep DEF Mirrored
<1>2. ASSUME UNCHANGED vars PROVE DefaultInv'
  BY <1>0, <1>2 DEF vars, DefaultInv, IdleInv, NoRemovals, RestoreInv, NothingMissing, Quiet
<1>3. DefaultInv'
  BY <1>0, <1>2, InterfaceChangeDefault, KernelStepDefault, ActorStepDefault DEF Next
<1>4. BackupKept'
  BY BackupStaysKept DEF DefaultKept
<1>5. QED
  BY <1>1, <1>3, <1>4 DEF DefaultKept

\* Once everything has been handled there is a default route when a connected
\* interface has a gateway, as long as no interface was removed: no order of
\* events, messages, refused requests and changes by others loses it.
THEOREM DefaultAlwaysRestored == Spec => []DefaultRestored
<1>1. DefaultKept => DefaultRestored
  <2> SUFFICES ASSUME DefaultKept, removals = 0, Quiet, kernel.fib[Default] = None,
                      NEW o \in Oif, iface[o].state = "Connected", iface[o].gateway # None
               PROVE  FALSE
    BY DEF DefaultRestored
  <2>1. backup.gateways[o] = None
    BY DEF DefaultKept, DefaultInv, NothingMissing
  <2>2. DOMAIN ifEvents = {}
    BY DEF Quiet
  <2>3. HeardOf(ifEvents, o) = {}
    BY <2>2 DEF HeardOf
  <2>4. backup.gateways[o] = GatewayOf(iface[o])
    BY <2>3 DEF DefaultInv, DefaultKept, BackupKept, BackupInv, BackupOk
  <2>5. QED
    BY <2>1, <2>4 DEF GatewayOf
<1>2. QED
  BY InitDefaultKept, DefaultStaysKept, <1>1, PTL DEF Spec

-------------------------------------------------------------------------------
(***************************************************************************)
(* Progress.  Every step of the actor lowers Work, the number of steps it  *)
(* may still take by itself.                                               *)
(***************************************************************************)

\* Sets of prefixes are finite.
LEMMA PrefixSets ==
  /\ Cardinality(Prefix) \in Nat
  /\ \A S \in SUBSET Prefix :
       /\ Cardinality(S) \in Nat /\ Cardinality(S) <= Cardinality(Prefix)
       /\ \A p \in S : Cardinality(S \ {p}) = Cardinality(S) - 1
<1>1. IsFiniteSet(Prefix)
  BY FiniteAssumption, FS_AddElement DEF Prefix
<1>2. ASSUME NEW S \in SUBSET Prefix
      PROVE  /\ Cardinality(S) \in Nat /\ Cardinality(S) <= Cardinality(Prefix)
             /\ \A p \in S : Cardinality(S \ {p}) = Cardinality(S) - 1
  <2>1. IsFiniteSet(S) /\ Cardinality(S) <= Cardinality(Prefix)
    BY <1>1, FS_Subset
  <2>2. \A p \in S : Cardinality(S \ {p}) = Cardinality(S) - 1
    BY <2>1, FS_RemoveElement
  <2>3. QED
    BY <2>1, <2>2, FS_CardinalityType
<1>3. QED
  BY <1>1, <1>2, FS_CardinalityType

\* A number of steps for each of several things.
LEMMA Multiples ==
  ASSUME NEW a \in Nat, NEW b \in Nat
  PROVE  /\ a * b \in Nat
         /\ b > 0 => a * (b - 1) = a * b - a
         /\ \A c \in Nat : c <= b => a * c <= a * b
<1>1. a * b \in Nat
  OBVIOUS
<1>2. b > 0 => a * (b - 1) = a * b - a
  OBVIOUS
<1>3. ASSUME NEW c \in Nat, c <= b
      PROVE  a * c <= a * b
  <2>1. a * b = a * c + a * (b - c)
    OBVIOUS
  <2>2. b - c \in Nat
    BY <1>3
  <2>3. a * (b - c) \in Nat /\ a * c \in Nat
    BY <2>2
  <2>4. QED
    BY <2>1, <2>3
<1>4. QED
  BY <1>1, <1>2, <1>3

\* The messages that are under way, and the default route that may be added.
LEMMA RouteWorkOf ==
  ASSUME NEW k, Len(k.notices) \in Nat
  PROVE  /\ RouteWork(k) \in Nat
         /\ k.fib[Default] = None => RouteWork(k) = 2 * Len(k.notices) + 2
         /\ k.fib[Default] # None => RouteWork(k) = 2 * Len(k.notices)
<1>1. CASE k.fib[Default] = None
  <2>1. RouteWork(k) = 2 * Len(k.notices) + 2
    BY <1>1 DEF RouteWork
  <2>2. QED
    BY <1>1, <2>1
<1>2. CASE k.fib[Default] # None
  <2>1. RouteWork(k) = 2 * Len(k.notices) + 0
    BY <1>2 DEF RouteWork
  <2>2. QED
    BY <1>2, <2>1
<1>3. QED
  BY <1>1, <1>2

\* One more message, and what it says of the default route.
LEMMA OneMoreNotice ==
  ASSUME NEW k, NEW l, Len(l.notices) \in Nat, Len(k.notices) = Len(l.notices) + 1
  PROVE  /\ RouteWork(k) \in Nat /\ RouteWork(l) \in Nat
         /\ RouteWork(k) <= RouteWork(l) + 4
         /\ k.fib[Default] = l.fib[Default] => RouteWork(k) <= RouteWork(l) + 2
         /\ k.fib[Default] # None /\ l.fib[Default] = None => RouteWork(k) <= RouteWork(l)
<1> DEFINE n == Len(l.notices)
<1>1. RouteWork(k) \in Nat /\ RouteWork(l) \in Nat
  BY RouteWorkOf
<1>0. Len(k.notices) \in Nat
  OBVIOUS
<1>2. \/ k.fib[Default] = None /\ RouteWork(k) = 2 * Len(k.notices) + 2
      \/ k.fib[Default] # None /\ RouteWork(k) = 2 * Len(k.notices)
  BY <1>0, RouteWorkOf
<1>3. \/ l.fib[Default] = None /\ RouteWork(l) = 2 * n + 2
      \/ l.fib[Default] # None /\ RouteWork(l) = 2 * n
  BY RouteWorkOf
<1>4. n \in Nat /\ Len(k.notices) = n + 1
  OBVIOUS
<1> HIDE DEF n
<1>5. QED
  BY <1>1, <1>2, <1>3, <1>4

\* What a handler has still to do.
LEMMA ContinueWorkOf ==
  /\ ContinueWork(Idle) = 0 /\ ContinueWork(Restore) = 1
  /\ \A c \in Cleanups : ContinueWork(c) = 8 * Cardinality(c.left) + 2
  /\ \A p \in Prefix, c \in Cleanups : ContinueWork(AddBackTo(p, c)) = 8 * Cardinality(c.left) + 5
  /\ \A c \in Continue : ContinueWork(c) \in Nat
<1>1. ContinueWork(Idle) = 0 /\ ContinueWork(Restore) = 1
  BY DEF ContinueWork, Idle, Restore
<1>2. ASSUME NEW c \in Cleanups
      PROVE  ContinueWork(c) = 8 * Cardinality(c.left) + 2 /\ Cardinality(c.left) \in Nat
  BY PrefixSets DEF ContinueWork, PerRoute, Cleanups
<1>3. ASSUME NEW c, c.at = "addback"
      PROVE  ContinueWork(c) = 8 * Cardinality(c.rest.left) + 5
  BY <1>3 DEF ContinueWork, PerRoute
<1>4. ASSUME NEW p \in Prefix, NEW c \in Cleanups
      PROVE  ContinueWork(AddBackTo(p, c)) = 8 * Cardinality(c.left) + 5
  BY <1>3 DEF AddBackTo
<1>5. ASSUME NEW c \in Continue
      PROVE  ContinueWork(c) \in Nat
  <2>1. CASE c.at = "addback"
    BY <1>2, <1>3, <2>1, ContinueType
  <2>2. CASE c.at # "addback"
    BY <1>1, <1>2, <2>2 DEF Continue
  <2>3. QED
    BY <2>1, <2>2
<1>6. QED
  BY <1>1, <1>2, <1>4, <1>5

\* What an event may cost.
LEMMA PerEventType ==
  PerEvent = 8 * Cardinality(Prefix) + 3 /\ PerEvent \in Nat
  BY PrefixSets DEF PerEvent, PerRoute

\* A request of the daemon to the kernel comes back as one message at most, and a
\* default route that is added is not missing any more.
LEMMA RequestWork ==
  ASSUME TypeOK, NEW p \in Prefix
  PROVE  /\ \A r \in Route : /\ RouteWork(KernelAdd(p, r)) \in Nat
                             /\ RouteWork(KernelAdd(p, r)) <= RouteWork(kernel) + 2
                             /\ p = Default => RouteWork(KernelAdd(p, r)) <= RouteWork(kernel)
         /\ \A r : /\ RouteWork(KernelDelete(p, r)) \in Nat
                   /\ RouteWork(KernelDelete(p, r)) <= RouteWork(kernel) + 4
<1>1. /\ kernel.notices \in Seq(RouteChange) /\ kernel.fib \in [Prefix -> Route \cup {None}]
      /\ None \notin Route /\ Default \in Prefix
  BY RouteAssumption DEF TypeOK, Prefix
<1>2. ASSUME NEW kind \in {"Add", "Delete", "Change"}, NEW r \in Route \cup {None}, NEW route \in Route
      PROVE  LET k == KernelDoes(kind, p, r, route)
             IN  /\ Len(k.notices) = Len(kernel.notices) + 1
                 /\ k.fib[Default] = IF p = Default THEN r ELSE kernel.fib[Default]
  <2>1. [kind |-> kind, prefix |-> p, route |-> route] \in RouteChange
    BY DEF RouteChange
  <2>2. Len(Append(kernel.notices, [kind |-> kind, prefix |-> p, route |-> route]))
          = Len(kernel.notices) + 1
    BY <1>1, <2>1
  <2>3. QED
    BY <1>1, <2>2 DEF KernelDoes
<1>3. Len(kernel.notices) \in Nat
  BY <1>1
<1>4. ASSUME NEW r \in Route
      PROVE  /\ RouteWork(KernelAdd(p, r)) \in Nat
             /\ RouteWork(KernelAdd(p, r)) <= RouteWork(kernel) + 2
             /\ p = Default => RouteWork(KernelAdd(p, r)) <= RouteWork(kernel)
  <2>1. CASE Accepts(p, r)
    <3>1. kernel.fib[p] = None /\ KernelAdd(p, r) = KernelDoes("Add", p, r, r)
      BY <2>1 DEF Accepts, KernelAdd
    <3>2. PICK k : k = KernelAdd(p, r)
      OBVIOUS
    <3>3. /\ Len(k.notices) = Len(kernel.notices) + 1
          /\ k.fib[Default] = IF p = Default THEN r ELSE kernel.fib[Default]
      BY <1>2, <3>1, <3>2
    <3>4. /\ RouteWork(k) \in Nat /\ RouteWork(kernel) \in Nat
          /\ RouteWork(k) <= RouteWork(kernel) + 2
          /\ p = Default => RouteWork(k) <= RouteWork(kernel)
      <4>1. CASE p = Default
        <5>1. k.fib[Default] # None /\ kernel.fib[Default] = None
          BY <1>1, <3>1, <3>3, <4>1
        <5>2. QED
          BY <1>3, <3>3, <5>1, OneMoreNotice
      <4>2. CASE p # Default
        <5>1. k.fib[Default] = kernel.fib[Default]
          BY <3>3, <4>2
        <5>2. QED
          BY <1>3, <3>3, <4>2, <5>1, OneMoreNotice
      <4>3. QED
        BY <4>1, <4>2
    <3>5. QED
      BY <3>2, <3>4
  <2>2. CASE ~Accepts(p, r)
    BY <1>3, <2>2, RouteWorkOf DEF KernelAdd
  <2>3. QED
    BY <2>1, <2>2
<1>5. ASSUME NEW r
      PROVE  /\ RouteWork(KernelDelete(p, r)) \in Nat
             /\ RouteWork(KernelDelete(p, r)) <= RouteWork(kernel) + 4
  <2>1. CASE KernelDelete(p, r) = kernel
    BY <1>3, <2>1, RouteWorkOf
  <2>2. CASE kernel.fib[p] # None /\ KernelDelete(p, r) = KernelDoes("Delete", p, None, kernel.fib[p])
    <3>1. kernel.fib[p] \in Route
      BY <1>1, <2>2
    <3>2. PICK k : k = KernelDelete(p, r)
      OBVIOUS
    <3>3. /\ Len(k.notices) = Len(kernel.notices) + 1
          /\ k.fib[Default] = IF p = Default THEN None ELSE kernel.fib[Default]
      <4>1. k = KernelDoes("Delete", p, None, kernel.fib[p])
        BY <2>2, <3>2
      <4>2. LET l == KernelDoes("Delete", p, None, kernel.fib[p])
            IN  /\ Len(l.notices) = Len(kernel.notices) + 1
                /\ l.fib[Default] = IF p = Default THEN None ELSE kernel.fib[Default]
        BY <1>2, <3>1
      <4>3. QED
        BY <4>1, <4>2
    <3>4. RouteWork(k) \in Nat /\ RouteWork(k) <= RouteWork(kernel) + 4
      BY <1>3, <3>3, OneMoreNotice
    <3>5. QED
      BY <3>2, <3>4
  <2>3. QED
    BY <2>1, <2>2 DEF KernelDelete
<1>6. QED
  BY <1>4, <1>5

\* Where the sum is less.
LEMMA SumLess ==
  ASSUME NEW d \in Nat, NEW e \in Nat, NEW r \in Nat, NEW c \in Nat,
         NEW r2 \in Nat, NEW c2 \in Nat, r2 <= r, c2 < c
  PROVE  d + e + r2 + c2 < d + e + r + c
  OBVIOUS

\* Each action of the actor lowers Work.
LEMMA ActorStepWork ==
  ASSUME TypeOK, TypeOK', ActorStep
  PROVE  Work' < Work
<1> DEFINE E == PerEvent * Len(ifEvents)
           R == RouteWork(kernel)
           D == IF started THEN 0 ELSE 1
           C == ContinueWork(pc)
<1>1. Work = D + E + R + C /\ Work' = D' + E' + R' + C'
  BY DEF Work
<1>2. D \in Nat /\ D' \in Nat
  OBVIOUS
<1>3. E \in Nat
  BY PerEventType, Multiples DEF TypeOK
<1>4. R \in Nat
  <2>1. Len(kernel.notices) \in Nat
    BY DEF TypeOK
  <2>2. QED
    BY <2>1, RouteWorkOf
<1>5. C \in Nat
  BY ContinueWorkOf DEF TypeOK
<1>6. UNCHANGED ifEvents => E' = E
  BY DEF PerEvent, PerRoute
<1>7. UNCHANGED started => D' = D
  OBVIOUS
<1>8. UNCHANGED kernel => R' = R
  BY DEF RouteWork
<1>9. UNCHANGED pc => C' = C
  BY DEF ContinueWork, PerRoute
<1>10. CASE Start
  <2>1. D = 1 /\ D' = 0 /\ UNCHANGED <<ifEvents, kernel, pc>>
    BY <1>10 DEF Start, env
  <2>2. E' = E /\ R' = R /\ C' = C
    BY <1>6, <1>8, <1>9, <2>1
  <2> HIDE DEF E, R, D, C
  <2>3. QED
    BY <1>1, <1>3, <1>4, <1>5, <2>1, <2>2
<1>11. CASE HandleIfEvent
  <2>1. E' = E - PerEvent
    <3>1. ifEvents # <<>> /\ ifEvents' = Tail(ifEvents) /\ ifEvents \in Seq(IfEvent)
      BY <1>11 DEF HandleIfEvent, TypeOK
    <3>2. Len(ifEvents) \in Nat /\ Len(ifEvents) > 0 /\ Len(ifEvents') = Len(ifEvents) - 1
      BY <3>1
    <3>3. E' = PerEvent * (Len(ifEvents) - 1)
      BY <3>2 DEF PerEvent, PerRoute
    <3>4. QED
      BY <3>2, <3>3, PerEventType, Multiples
  <2>2. C = 0 /\ UNCHANGED <<started, kernel>>
    BY <1>11, ContinueWorkOf DEF HandleIfEvent, Ready
  <2>3. C' <= 8 * Cardinality(Prefix) + 2 /\ C' \in Nat
    <3>1. PICK e \in IfEvent : InterfaceAdded(e) \/ InterfaceRemoved(e) \/ InterfaceChanged(e)
      <4>1. Head(ifEvents) \in IfEvent
        BY <1>11 DEF HandleIfEvent, TypeOK
      <4>2. QED
        BY <1>11, <4>1 DEF HandleIfEvent
    <3>2. C' = ContinueWork(pc')
      BY DEF ContinueWork, PerRoute
    <3>3. pc' = Restore \/ \E b \in BOOLEAN : pc' = Cleanup(e.oif, FindByOif(table, e.oif), b)
      BY <3>1 DEF InterfaceAdded, InterfaceRemoved, InterfaceChanged
    <3>4. CASE pc' = Restore
      BY <3>2, <3>4, ContinueWorkOf, PrefixSets
    <3>5. ASSUME NEW b \in BOOLEAN, pc' = Cleanup(e.oif, FindByOif(table, e.oif), b)
          PROVE  C' <= 8 * Cardinality(Prefix) + 2 /\ C' \in Nat
      <4>1. FindByOif(table, e.oif) \in SUBSET Prefix /\ e.oif \in Oif
        BY DEF TypeOK, RouteTable, FindByOif, IfEvent
      <4>2. pc' \in Cleanups /\ pc'.left = FindByOif(table, e.oif)
        BY <3>5, <4>1 DEF Cleanup, Cleanups
      <4>3. C' = 8 * Cardinality(FindByOif(table, e.oif)) + 2
        BY <3>2, <4>2, ContinueWorkOf
      <4>4. QED
        BY <4>1, <4>3, PrefixSets
    <3>6. QED
      BY <3>3, <3>4, <3>5
  <2>4. D' = D /\ R' = R
    BY <1>7, <1>8, <2>2
  <2> HIDE DEF E, R, D, C
  <2>5. QED
    BY <1>1, <1>2, <1>3, <1>4, <2>1, <2>2, <2>3, <2>4, PerEventType, PrefixSets
<1>12. CASE HandleRouteChange
  <2>1. R' = R - 2
    <3>1. /\ kernel.notices # <<>> /\ kernel.notices \in Seq(RouteChange)
          /\ kernel' = [kernel EXCEPT !.notices = Tail(@)]
          /\ kernel \in [fib : [Prefix -> Route \cup {None}], notices : Seq(RouteChange)]
      BY <1>12 DEF HandleRouteChange, TypeOK
    <3>2. kernel'.notices = Tail(kernel.notices) /\ kernel'.fib = kernel.fib
      BY <3>1
    <3>3. Len(kernel.notices) \in Nat /\ Len(kernel'.notices) = Len(kernel.notices) - 1
          /\ Len(kernel'.notices) \in Nat
      BY <3>1, <3>2
    <3>4. R' = RouteWork(kernel')
      BY DEF RouteWork
    <3>5. \/ RouteWork(kernel') = 2 * Len(kernel'.notices) + 2 /\ R = 2 * Len(kernel.notices) + 2
          \/ RouteWork(kernel') = 2 * Len(kernel'.notices) /\ R = 2 * Len(kernel.notices)
      <4>1. CASE kernel.fib[Default] = None
        BY <3>2, <3>3, <4>1, RouteWorkOf
      <4>2. CASE kernel.fib[Default] # None
        BY <3>2, <3>3, <4>2, RouteWorkOf
      <4>3. QED
        BY <4>1, <4>2
    <3> HIDE DEF R
    <3>6. QED
      BY <3>3, <3>4, <3>5
  <2>2. C = 0 /\ pc' = Restore /\ UNCHANGED <<started, ifEvents>>
    BY <1>12, ContinueWorkOf DEF HandleRouteChange, Ready, env
  <2>3. C' = 1
    BY <2>2, ContinueWorkOf DEF ContinueWork, PerRoute
  <2>4. D' = D /\ E' = E
    BY <1>6, <1>7, <2>2
  <2> HIDE DEF E, R, D, C
  <2>5. QED
    BY <1>1, <1>2, <1>3, <1>4, <2>1, <2>2, <2>3, <2>4
<1>13. ASSUME NEW p \in Prefix, DeleteDead(p)
       PROVE  Work' < Work
  <2>1. pc \in Cleanups /\ p \in pc.left /\ pc.left \in SUBSET Prefix
    BY <1>13, ContinueType DEF DeleteDead, TypeOK, Cleanups
  <2> DEFINE rest == [pc EXCEPT !.left = @ \ {p}]
  <2>2. rest \in Cleanups /\ rest.left = pc.left \ {p}
    BY <2>1 DEF Cleanups
  <2>3. Cardinality(rest.left) = Cardinality(pc.left) - 1 /\ Cardinality(pc.left) \in Nat
    BY <2>1, <2>2, PrefixSets
  <2>4. C = 8 * Cardinality(pc.left) + 2
    BY <2>1, ContinueWorkOf
  <2>5. C' = 8 * Cardinality(rest.left) + 5
    <3>1. pc' = AddBackTo(p, rest)
      BY <1>13 DEF DeleteDead
    <3>2. C' = ContinueWork(pc')
      BY DEF ContinueWork, PerRoute
    <3>3. QED
      BY <2>2, <3>1, <3>2, ContinueWorkOf
  <2>6. R' <= R + 4 /\ R' \in Nat
    <3>1. R' = RouteWork(kernel')
      BY DEF RouteWork
    <3>2. kernel' = KernelDelete(p, table.routes[p])
      BY <1>13 DEF DeleteDead
    <3>3. QED
      BY <3>1, <3>2, RequestWork
  <2>7. D' = D /\ E' = E
    BY <1>6, <1>7, <1>13 DEF DeleteDead, env
  <2> HIDE DEF E, R, D, C, rest
  <2>8. QED
    BY <1>1, <1>2, <1>3, <1>4, <2>3, <2>4, <2>5, <2>6, <2>7
<1>14. CASE AddBack
  <2>1. pc \in Continue /\ pc.at = "addback" /\ pc' = pc.rest
    BY <1>14 DEF AddBack, TypeOK
  <2>2. pc.prefix \in Prefix /\ pc.rest \in Cleanups
    BY <2>1, ContinueType
  <2>3. Cardinality(pc.rest.left) \in Nat
    BY <2>2, PrefixSets DEF Cleanups
  <2>4. C = 8 * Cardinality(pc.rest.left) + 5
    BY <2>1 DEF ContinueWork, PerRoute
  <2>5. C' = 8 * Cardinality(pc.rest.left) + 2
    <3>1. C' = ContinueWork(pc')
      BY DEF ContinueWork, PerRoute
    <3>2. QED
      BY <2>1, <2>2, <3>1, ContinueWorkOf
  <2>6. R' <= R + 2 /\ R' \in Nat
    <3>1. R' = RouteWork(kernel')
      BY DEF RouteWork
    <3>2. CASE kernel' = kernel
      BY <1>4, <3>1, <3>2
    <3>3. ASSUME NEW o \in NetOutputs(backup, pc.prefix),
                 kernel' = KernelAdd(pc.prefix, [gateway |-> None, oif |-> o])
          PROVE  R' <= R + 2 /\ R' \in Nat
      <4>1. [gateway |-> None, oif |-> o] \in Route
        BY <2>2, <3>3 DEF NetOutputs, Route, TypeOK, BackupRouteTable
      <4>2. QED
        BY <2>2, <3>1, <3>3, <4>1, RequestWork
    <3>4. QED
      BY <1>14, <3>2, <3>3 DEF AddBack
  <2>7. D' = D /\ E' = E
    BY <1>6, <1>7, <1>14 DEF AddBack, env
  <2> HIDE DEF E, R, D, C
  <2>8. QED
    BY <1>1, <1>2, <1>3, <1>4, <2>3, <2>4, <2>5, <2>6, <2>7
<1>15. CASE EndCleanup
  <2>1. pc \in Cleanups /\ pc.left = {} /\ pc' \in {Restore, Idle}
    BY <1>15, ContinueType DEF EndCleanup, TypeOK
  <2>2. C = 2
    <3>1. Cardinality(pc.left) = 0
      BY <2>1, FS_EmptySet
    <3>2. C = 8 * Cardinality(pc.left) + 2
      BY <2>1, ContinueWorkOf
    <3>3. QED
      BY <3>1, <3>2
  <2>3. C' \in {0, 1}
    BY <2>1, ContinueWorkOf DEF ContinueWork, PerRoute
  <2>4. D' = D /\ E' = E /\ R' = R
    BY <1>6, <1>7, <1>8, <1>15 DEF EndCleanup, env
  <2> HIDE DEF E, R, D, C
  <2>5. QED
    <3>1. C' \in Nat /\ C \in Nat /\ C' < C
      BY <2>2, <2>3
    <3>2. D + E + R + C' < D + E + R + C
      <4>1. D \in Nat /\ E \in Nat /\ R \in Nat /\ R <= R
        BY <1>2, <1>3, <1>4
      <4>2. QED
        BY <3>1, <4>1, SumLess
    <3>3. QED
      BY <1>1, <2>4, <3>2
<1>16. CASE AddDefaultIfNeeded
  <2>1. C = 1
    BY <1>16, ContinueWorkOf DEF AddDefaultIfNeeded
  <2>2. C' = 0
    BY <1>16, ContinueWorkOf DEF AddDefaultIfNeeded, ContinueWork, PerRoute
  <2>3. R' <= R /\ R' \in Nat
    <3>1. R' = RouteWork(kernel')
      BY DEF RouteWork
    <3>2. CASE kernel' = kernel
      BY <1>4, <3>1, <3>2
    <3>3. ASSUME NEW r \in AvailableGateways(backup), kernel' = KernelAdd(Default, r)
          PROVE  R' <= R /\ R' \in Nat
      <4>1. r \in Route /\ Default \in Prefix
        BY <3>3 DEF AvailableGateways, Route, Prefix, TypeOK, BackupRouteTable
      <4>2. QED
        BY <3>1, <3>3, <4>1, RequestWork
    <3>4. QED
      BY <1>16, <3>2, <3>3 DEF AddDefaultIfNeeded
  <2>4. D' = D /\ E' = E
    BY <1>6, <1>7, <1>16 DEF AddDefaultIfNeeded, env
  <2> HIDE DEF E, R, D, C
  <2>5. QED
    <3>1. C' \in Nat /\ C \in Nat /\ C' < C
      BY <2>1, <2>2
    <3>2. D + E + R' + C' < D + E + R + C
      <4>1. D \in Nat /\ E \in Nat /\ R \in Nat /\ R' \in Nat /\ R' <= R
        BY <1>2, <1>3, <1>4, <2>3
      <4>2. QED
        BY <3>1, <4>1, SumLess
    <3>3. QED
      BY <1>1, <2>4, <3>2
<1>17. QED
  BY <1>10, <1>11, <1>12, <1>13, <1>14, <1>15, <1>16 DEF ActorStep

\* Each step of the actor leaves it less to do, for any number of interfaces, networks
\* and gateways: whatever it is told, it comes to rest after as many steps unless
\* it is told more (route/mod.rs, the handlers of InterfaceEvent and RouteChange).
THEOREM ActorAlwaysProgresses == Spec => ActorProgresses
<1>1. TablesSound /\ TablesSound' /\ [Next]_vars => [ActorStep => Work' < Work]_vars
  BY ActorStepWork DEF TablesSound
<1>2. QED
  BY InitTablesSound, TablesStaySound, <1>1, PTL DEF Spec, ActorProgresses

===============================================================================
