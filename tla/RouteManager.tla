----------------------------- MODULE RouteManager -----------------------------
(***************************************************************************)
(* The RouteManager actor (route/mod.rs) between the InterfaceManager,     *)
(* whose events tell it of the interfaces, and the kernel's routing table, *)
(* which it mirrors from route messages, its own changes among them, and   *)
(* in which it keeps a default route and removes those of interfaces that  *)
(* are no longer connected.                                                *)
(*                                                                         *)
(* The actor handles one message at a time; pc is what the running handler *)
(* still does, because every change of the kernel's table is awaited and   *)
(* the kernel and the InterfaceManager go on meanwhile.                    *)
(*                                                                         *)
(* The interfaces and the kernel are the environment.  The kernel has one  *)
(* route per prefix; it refuses to add a second one, to add a route by an  *)
(* interface that is gone, or by a gateway of a network the interface has  *)
(* no address in; it deletes a route by prefix and, where one is given, by *)
(* gateway.                                                                *)
(***************************************************************************)
EXTENDS RouteTables, Naturals, Sequences, FiniteSets

CONSTANTS
  MaxChanges,  \* bound: changes of interfaces and routes by others
  MaxRemovals  \* bound: those of them that remove an interface or refresh it

ASSUME BoundAssumption == MaxChanges \in Nat /\ MaxRemovals \in Nat

\* There are finitely many networks.
ASSUME FiniteAssumption == IsFiniteSet(Net)

VARIABLES
  iface,     \* what the InterfaceManager knows of each interface
  ifEvents,  \* its events, not handled yet
  kernel,    \* [fib, notices]: the routing table, and route messages not handled yet
  started,   \* on_start has listed the routes
  backup,    \* v4_backup
  table,     \* route_table
  pc,        \* what the running handler still does
  untold,    \* the interfaces that went away without an event, and nothing since
             \* told what has become of their gateway
  changes,   \* changes by others so far
  removals   \* those that removed or refreshed an interface

vars == <<iface, ifEvents, kernel, started, backup, table, pc, untold, changes, removals>>

env == <<iface, ifEvents, untold, changes, removals>>

-------------------------------------------------------------------------------
(***************************************************************************)
(* Data.                                                                   *)
(***************************************************************************)
Iface == [state : {"Absent", "Up", "NoCarrier", "Connected"},
          gateway : Gateway \cup {None}, nets : SUBSET Net]

IfEvent == [kind : {"Added", "Removed", "Changed"}, oif : Oif, info : Iface]

RouteChange == [kind : {"Add", "Delete", "Change"}, prefix : Prefix, route : Route]

\* pc: the default route is still to be looked at; routes of an interface are
\* still to be removed (and then the default route, if restore); the network of
\* one of them is still to be added back.
Idle    == [at |-> "idle"]
Restore == [at |-> "restore"]
Cleanup(o, left, restore) == [at |-> "cleanup", oif |-> o, left |-> left, restore |-> restore]
AddBackTo(p, rest)        == [at |-> "addback", prefix |-> p, rest |-> rest]

Cleanups == [at : {"cleanup"}, oif : Oif, left : SUBSET Prefix, restore : BOOLEAN]
Continue == {Idle, Restore} \cup Cleanups
              \cup [at : {"addback"}, prefix : Prefix, rest : Cleanups]

Gone == [state |-> "Absent", gateway |-> None, nets |-> {}]

Init ==
  /\ iface \in [Oif -> {i \in Iface : i.state \in {"Absent", "Up"} /\ i.gateway = None /\ i.nets = {}}]
  /\ ifEvents = <<>>
  /\ kernel = [fib |-> [p \in Prefix |-> None], notices |-> <<>>]
  /\ started = FALSE
  /\ backup = NoBackup
  /\ table = NoRoutes
  /\ pc = Idle
  /\ untold = {}
  /\ changes = 0
  /\ removals = 0

-------------------------------------------------------------------------------
(***************************************************************************)
(* The kernel's routing table.                                             *)
(***************************************************************************)
KernelDoes(kind, p, r, route) ==
  [fib     |-> [kernel.fib EXCEPT ![p] = r],
   notices |-> Append(kernel.notices, [kind |-> kind, prefix |-> p, route |-> route])]

Accepts(p, r) ==
  /\ kernel.fib[p] = None
  /\ iface[r.oif].state # "Absent"
  /\ r.gateway # None => iface[r.oif].nets # {}

\* The kernel after a request of the daemon, granted or not.
KernelAdd(p, r) == IF Accepts(p, r) THEN KernelDoes("Add", p, r, r) ELSE kernel

KernelDelete(p, r) ==
  IF kernel.fib[p] # None /\ r.gateway \in {None, kernel.fib[p].gateway}
  THEN KernelDoes("Delete", p, None, kernel.fib[p])
  ELSE kernel

\* A route that its interface cannot carry any more goes away.
KernelWithdraws(p) ==
  /\ kernel.fib[p] # None
  /\ LET r == kernel.fib[p]
     IN \/ iface[r.oif].state = "Absent"
        \/ r.gateway = None /\ p \in Net /\ p \notin iface[r.oif].nets
        \/ r.gateway # None /\ iface[r.oif].nets = {}
  /\ kernel' = KernelDoes("Delete", p, None, kernel.fib[p])
  /\ UNCHANGED <<env, started, backup, table, pc>>

\* The network of a connected interface gets a route when it has none.
KernelConnects(o, n) ==
  /\ iface[o].state = "Connected" /\ n \in iface[o].nets
  /\ kernel.fib[n] = None
  /\ kernel' = KernelDoes("Add", n, [gateway |-> None, oif |-> o], [gateway |-> None, oif |-> o])
  /\ UNCHANGED <<env, started, backup, table, pc>>

\* Somebody else adds, deletes or replaces the default route.
AdminRoute(r) ==
  /\ changes < MaxChanges /\ changes' = changes + 1
  /\ \/ Accepts(Default, r) /\ kernel' = KernelDoes("Add", Default, r, r)
     \/ /\ kernel.fib[Default] = r
        /\ kernel' = KernelDoes("Delete", Default, None, r)
     \/ /\ kernel.fib[Default] \notin {None, r}
        /\ iface[r.oif].nets # {}
        /\ kernel' = KernelDoes("Change", Default, r, r)
  /\ UNCHANGED <<iface, ifEvents, untold, removals, started, backup, table, pc>>

-------------------------------------------------------------------------------
(***************************************************************************)
(* The interfaces, as the events of the InterfaceManager tell of them.     *)
(***************************************************************************)
Tells(kind, o, info) == <<[kind |-> kind, oif |-> o, info |-> info]>>

\* That an interface is there, again or for the first time, says nothing of the gateway
\* it had.
BecomesInfo(kind, o, info) ==
  /\ changes < MaxChanges /\ changes' = changes + 1
  /\ info # iface[o]
  /\ iface' = [iface EXCEPT ![o] = info]
  /\ ifEvents' = ifEvents \o Tells(kind, o, info)
  /\ untold' = IF kind = "Added" THEN untold ELSE untold \ {o}
  /\ UNCHANGED <<kernel, started, backup, table, pc>>

\* A new interface is announced as the kernel knows it, without a gateway.
Appears(o) ==
  /\ iface[o].state = "Absent"
  /\ BecomesInfo("Added", o, [state |-> "Up", gateway |-> None, nets |-> {}])
  /\ UNCHANGED removals

\* An address, with a gateway if DHCP brought one.
Configured(o, gateway, n) ==
  /\ iface[o].state # "Absent"
  /\ BecomesInfo("Changed", o, [state |-> "Connected", gateway |-> gateway, nets |-> {n}])
  /\ UNCHANGED removals

\* A lost carrier takes neither the address nor the gateway.
LosesCarrier(o) ==
  /\ iface[o].state \in {"Up", "Connected"}
  /\ BecomesInfo("Changed", o, [iface[o] EXCEPT !.state = "NoCarrier"])
  /\ UNCHANGED removals

Deconfigured(o) ==
  /\ iface[o].state = "Connected"
  /\ BecomesInfo("Changed", o, [state |-> "Up", gateway |-> None, nets |-> {}])
  /\ UNCHANGED removals

\* A refresh finds that an interface is gone.
Departs(o) ==
  /\ removals < MaxRemovals /\ removals' = removals + 1
  /\ iface[o].state # "Absent"
  /\ BecomesInfo("Removed", o, Gone)

\* A removal that netlink reports takes the interface out of the table and is not told
\* (interface/mod.rs, UpdateInterfaceInfo).
Vanishes(o) ==
  /\ removals < MaxRemovals /\ removals' = removals + 1
  /\ changes < MaxChanges /\ changes' = changes + 1
  /\ iface[o].state # "Absent"
  /\ iface' = [iface EXCEPT ![o] = Gone]
  /\ untold' = untold \cup {o}
  /\ UNCHANGED <<ifEvents, kernel, started, backup, table, pc>>

\* A refresh announces an interface whose gateway came from DHCP as removed and as
\* added without it.
Refreshed(o) ==
  /\ removals < MaxRemovals /\ removals' = removals + 1
  /\ changes < MaxChanges /\ changes' = changes + 1
  /\ iface[o].gateway # None
  /\ LET found == [iface[o] EXCEPT !.gateway = None]
     IN /\ iface' = [iface EXCEPT ![o] = found]
        /\ ifEvents' = ifEvents \o Tells("Removed", o, iface[o]) \o Tells("Added", o, found)
  /\ untold' = untold \ {o}
  /\ UNCHANGED <<kernel, started, backup, table, pc>>

-------------------------------------------------------------------------------
(***************************************************************************)
(* The actor.                                                              *)
(***************************************************************************)

\* on_start lists the routes after it has opened the listener, so that changes in
\* between are in the list and are notified as well.
Start ==
  /\ ~started /\ started' = TRUE
  /\ table' = RouteTableOf(kernel.fib)
  /\ UNCHANGED <<env, kernel, backup, pc>>

Ready == started /\ pc = Idle

InterfaceAdded(e) ==
  /\ e.kind = "Added"
  /\ backup' = IF e.info.gateway = None THEN backup
               ELSE BackupInsert(backup, e.oif, e.info.gateway, e.info.nets)
  /\ pc' = Restore

InterfaceRemoved(e) ==
  /\ e.kind = "Removed"
  /\ backup' = BackupRemove(backup, e.oif)
  /\ pc' = Cleanup(e.oif, FindByOif(table, e.oif), FALSE)

\* Mutant of InterfaceChanged: an interface that is not connected keeps its gateway.
InterfaceChangedKept(e) ==
  /\ e.kind = "Changed"
  /\ backup' = IF e.info.gateway = None THEN BackupRemove(backup, e.oif)
               ELSE BackupInsert(backup, e.oif, e.info.gateway, e.info.nets)
  /\ pc' = IF e.info.state = "Connected" THEN Restore
           ELSE Cleanup(e.oif, FindByOif(table, e.oif), TRUE)

\* What is inserted for an interface that is not connected is removed at once.
InterfaceChanged(e) ==
  /\ e.kind = "Changed"
  /\ IF e.info.state = "Connected"
     THEN /\ backup' = IF e.info.gateway = None THEN BackupRemove(backup, e.oif)
                       ELSE BackupInsert(backup, e.oif, e.info.gateway, e.info.nets)
          /\ pc' = Restore
     ELSE /\ backup' = BackupRemove(backup, e.oif)
          /\ pc' = Cleanup(e.oif, FindByOif(table, e.oif), TRUE)

HandleIfEvent ==
  /\ Ready /\ ifEvents # <<>>
  /\ LET e == Head(ifEvents)
     IN InterfaceAdded(e) \/ InterfaceRemoved(e) \/ InterfaceChanged(e)
  /\ ifEvents' = Tail(ifEvents)
  /\ UNCHANGED <<iface, kernel, started, table, untold, changes, removals>>

\* Mutant of TableAfter: a changed route is inserted next to the old one.
TableAfterNoReplace(c) ==
  IF c.kind = "Delete" THEN RouteRemove(table, c.prefix)
  ELSE RouteInsert(table, c.prefix, c.route)

TableAfter(c) ==
  CASE c.kind = "Add"    -> RouteInsert(table, c.prefix, c.route)
    [] c.kind = "Delete" -> RouteRemove(table, c.prefix)
    [] c.kind = "Change" -> RouteInsert(RouteRemove(table, c.prefix), c.prefix, c.route)

\* Mutant of HandleRouteChange: the default route is not looked at.
HandleRouteChangeOnly ==
  /\ Ready /\ kernel.notices # <<>>
  /\ table' = TableAfter(Head(kernel.notices))
  /\ kernel' = [kernel EXCEPT !.notices = Tail(@)]
  /\ UNCHANGED <<env, started, backup, pc>>

HandleRouteChange ==
  /\ Ready /\ kernel.notices # <<>>
  /\ table' = TableAfter(Head(kernel.notices))
  /\ kernel' = [kernel EXCEPT !.notices = Tail(@)]
  /\ pc' = Restore
  /\ UNCHANGED <<env, started, backup>>

\* Mutant of DeleteDead: the route stays on the list.
DeleteDeadAgain(p) ==
  /\ pc.at = "cleanup" /\ p \in pc.left
  /\ kernel' = KernelDelete(p, table.routes[p])
  /\ pc' = AddBackTo(p, pc)
  /\ UNCHANGED <<env, started, backup, table>>

\* dead_rt_cleanup deletes the routes of an interface one by one, in any order, and
\* adds each network back by another interface that reaches it.
DeleteDead(p) ==
  /\ pc.at = "cleanup" /\ p \in pc.left
  /\ kernel' = KernelDelete(p, table.routes[p])
  /\ pc' = AddBackTo(p, [pc EXCEPT !.left = @ \ {p}])
  /\ UNCHANGED <<env, started, backup, table>>

AddBack ==
  /\ pc.at = "addback"
  /\ LET others == NetOutputs(backup, pc.prefix) \ {pc.rest.oif}
     IN IF others = {} THEN UNCHANGED kernel
        ELSE \E o \in others : kernel' = KernelAdd(pc.prefix, [gateway |-> None, oif |-> o])
  /\ pc' = pc.rest
  /\ UNCHANGED <<env, started, backup, table>>

EndCleanup ==
  /\ pc.at = "cleanup" /\ pc.left = {}
  /\ pc' = IF pc.restore THEN Restore ELSE Idle
  /\ UNCHANGED <<env, kernel, started, backup, table>>

\* The first gateway in the order of a HashMap is any of them.
AddDefaultIfNeeded ==
  /\ pc = Restore
  /\ IF FindDefault(table) = None /\ AvailableGateways(backup) # {}
     THEN \E r \in AvailableGateways(backup) : kernel' = KernelAdd(Default, r)
     ELSE UNCHANGED kernel
  /\ pc' = Idle
  /\ UNCHANGED <<env, started, backup, table>>

-------------------------------------------------------------------------------
InterfaceChange ==
  \E o \in Oif :
    \/ Appears(o)
    \/ \E gateway \in Gateway \cup {None}, n \in Net : Configured(o, gateway, n)
    \/ LosesCarrier(o)
    \/ Deconfigured(o)
    \/ Departs(o)
    \/ Vanishes(o)
    \/ Refreshed(o)

KernelStep ==
  \/ \E p \in Prefix : KernelWithdraws(p)
  \/ \E o \in Oif, n \in Net : KernelConnects(o, n)
  \/ \E r \in Route : r.gateway # None /\ AdminRoute(r)

ActorStep ==
  \/ Start \/ HandleIfEvent \/ HandleRouteChange
  \/ (\E p \in Prefix : DeleteDead(p)) \/ AddBack \/ EndCleanup
  \/ AddDefaultIfNeeded

Next == InterfaceChange \/ KernelStep \/ ActorStep

Spec == Init /\ [][Next]_vars

\* The actor is a task of the runtime: it goes on as long as it has work.
FairSpec == Spec /\ WF_vars(ActorStep)

-------------------------------------------------------------------------------
(***************************************************************************)
(* Properties.                                                             *)
(***************************************************************************)

\* Types of all variables.
TypeOK ==
  /\ iface \in [Oif -> Iface]
  /\ ifEvents \in Seq(IfEvent)
  /\ kernel \in [fib : [Prefix -> Route \cup {None}], notices : Seq(RouteChange)]
  /\ started \in BOOLEAN
  /\ backup \in BackupRouteTable
  /\ table \in RouteTable
  /\ pc \in Continue
  /\ untold \subseteq Oif
  /\ changes \in 0..MaxChanges
  /\ removals \in 0..MaxRemovals

Quiet == started /\ pc = Idle /\ ifEvents = <<>> /\ kernel.notices = <<>>

\* The backup table stays consistent whatever order interface events come in, also
\* when an interface moves to another network without a removal in between.
BackupSound == BackupConsistent(backup)

\* Dead-route cleanup finds every route of the mirror by its interface, although
\* the mirror drops a second route of a prefix and deletes routes by prefix.
RoutesFound == ByOifComplete(table)

\* When every route message has been handled the mirror is the kernel's table:
\* changes made while the actor was starting, by itself or in bursts included
\* (route/mod.rs, on_start and the RouteChange handler).
MirrorAgrees == started /\ kernel.notices = <<>> => table.routes = kernel.fib

\* When everything has been handled, the gateways kept for the default route are
\* those of the connected interfaces, but for an interface that went away without an
\* event and of which no change was told since: its gateway stays, also when it comes
\* back without one.
BackupCurrent ==
  Quiet => \A o \in Oif \ untold :
    backup.gateways[o] = IF iface[o].state = "Connected" THEN iface[o].gateway ELSE None

\* When everything has been handled, no gateway is kept of an interface that is gone.
GoneIsForgotten ==
  Quiet => \A o \in Oif : iface[o].state = "Absent" => backup.gateways[o] = None

\* When everything has been handled and a connected interface has a gateway, there
\* is a default route, as long as no interface was removed: the handler of
\* InterfaceRemoved leaves the default route to route messages (route/mod.rs:158-159,
\* "Default route addition will be handled in `RouteChange` handler"), and there
\* are none if the removed interface had no route left in the mirror.
DefaultRestored ==
  (removals = 0 /\ Quiet /\ \E o \in Oif : iface[o].state = "Connected" /\ iface[o].gateway # None)
    => kernel.fib[Default] # None

\* When everything has been handled, the default route does not go out by an
\* interface that lost its carrier while another one could take it
\* (README.md:32, "Auto remove dead route").
NoDeadDefault ==
  (Quiet /\ kernel.fib[Default] # None
         /\ \E o \in Oif : iface[o].state = "Connected" /\ iface[o].gateway # None)
    => iface[kernel.fib[Default].oif].state # "NoCarrier"

\* The actor and the kernel do not chase each other for ever: what the daemon's own
\* additions and deletions trigger comes to an end.
Settles == []<>Quiet

\* The steps that the actor may still take before others change anything: a route
\* message is handled in two, a cleanup deletes each route, adds its network back and
\* hears of both, and an interface event may start a cleanup of all routes.
PerRoute == 8
PerEvent == PerRoute * Cardinality(Prefix) + 3

ContinueWork(c) ==
  CASE c.at = "idle"    -> 0
    [] c.at = "restore" -> 1
    [] c.at = "cleanup" -> PerRoute * Cardinality(c.left) + 2
    [] c.at = "addback" -> PerRoute * Cardinality(c.rest.left) + 5

RouteWork(k) == 2 * Len(k.notices) + (IF k.fib[Default] = None THEN 2 ELSE 0)

Work ==
  (IF started THEN 0 ELSE 1) + PerEvent * Len(ifEvents) + RouteWork(kernel) + ContinueWork(pc)

\* Each step of the actor leaves it less to do, although its own additions and deletions
\* come back as route messages: a default route that is added and deleted, or a network
\* that is deleted and added back, is never a reason to do so again.
ActorProgresses == [][ActorStep => Work' < Work]_vars
===============================================================================
