----------------------------- MODULE NetworkDaemon ----------------------------
(***************************************************************************)
(* NetworkDaemon (daemon/service.rs): the Wi-Fi and DHCP managers it       *)
(* starts and stops as interfaces come, go and change, and the clients it  *)
(* accepts meanwhile (daemon/client.rs).                                   *)
(*                                                                         *)
(* It is one actor.  While it asks a new Wi-Fi manager to load networks it *)
(* waits for that manager's start, and handles no event and no connection. *)
(* It is not linked to the managers: of one that ends by itself it is told *)
(* nothing.  A manager told to stop goes on until it has handled what it   *)
(* was sent before.  A Wi-Fi manager passes requests on to its backend,    *)
(* whose requests to wpa_supplicant have no timeout: when that does not    *)
(* answer, neither does the manager, for good.                             *)
(*                                                                         *)
(* The interface manager is its table and the events it broadcasts         *)
(* (InterfaceManager has the details): an interface that netlink reports   *)
(* as gone leaves the table without an event, and a refresh announces      *)
(* every interface as removed and added.  The Wi-Fi manager is its start   *)
(* and end (WifiManager has the details), the DHCP manager likewise.       *)
(***************************************************************************)
EXTENDS Naturals, Sequences, FiniteSetsExt

CONSTANTS
  None,
  Name,        \* interfaces
  Wlan,        \* those that are wireless
  Manager,     \* Wi-Fi and DHCP managers alive at a time (bound)
  Client,
  MaxChanges,  \* bound: changes of interfaces
  MaxFaults    \* bound: failures

ASSUME DaemonAssumption ==
  /\ Wlan \subseteq Name /\ None \notin Name
  /\ Manager \subseteq Nat /\ Manager # {} /\ None \notin Manager
  /\ MaxChanges \in Nat /\ MaxFaults \in Nat

VARIABLES
  table,        \* the interfaces of the interface manager
  events,       \* its events on their way to NetworkDaemon
  last,         \* the kind of the last event of every interface
  daemon,       \* the event it handles while it waits for a Wi-Fi manager, if it does
  wifi_supervisors, dhcp_supervisors,
  wifi, dhcp,   \* the managers
  registry,     \* the Wi-Fi managers a client can find
  socket,       \* interfaces with a control socket of wpa_supplicant
  clients,
  changes, faults

tableVars == <<table, events, last, changes>>
wifiVars  == <<wifi, registry, socket>>
maps      == <<wifi_supervisors, dhcp_supervisors>>
vars == <<tableVars, daemon, maps, wifiVars, dhcp, clients, faults>>

-------------------------------------------------------------------------------
State == {"Up", "Connected", "NoCarrier"}
Info  == [state : State, dhcpv4_enabled : BOOLEAN]
Event == [kind : {"Added", "Removed", "Changed"}, name : Name, info : Info]

\* A manager: of which interface, how far, and whether it has been told to stop.
ManagerState == [at : {"spawned", "starting", "up", "blocked", "stopped"}, name : Name \cup {None}, told : BOOLEAN]

Gone       == [at |-> "stopped", name |-> None, told |-> FALSE]
Spawned(n) == [at |-> "spawned", name |-> n, told |-> FALSE]

\* A client: waiting for its connection to be accepted, or for the answer to a request
\* for a Wi-Fi manager, which is being looked up or has been asked.
ClientState == [at : {"away", "connecting", "ready", "lookup", "asked"}, name : Name \cup {None},
                manager : Manager \cup {None}]

Away  == [at |-> "away", name |-> None, manager |-> None]
Ready == [Away EXCEPT !.at = "ready"]

Fault == faults < MaxFaults /\ faults' = faults + 1

Busy == daemon.manager # None

-------------------------------------------------------------------------------
(***************************************************************************)
(* The interface manager.                                                  *)
(***************************************************************************)
Announce(n, kind, info) ==
  /\ events' = Append(events, [kind |-> kind, name |-> n, info |-> info])
  /\ last' = [last EXCEPT ![n] = kind]

Changing == changes < MaxChanges /\ changes' = changes + 1

LinkAppears(n) ==
  /\ Changing /\ table[n] = None
  /\ \E info \in Info : table' = [table EXCEPT ![n] = info] /\ Announce(n, "Added", info)
  /\ UNCHANGED <<daemon, maps, wifiVars, dhcp, clients, faults>>

LinkDisappears(n) ==
  /\ Changing /\ table[n] # None
  /\ table' = [table EXCEPT ![n] = None]
  /\ UNCHANGED <<events, last, daemon, maps, wifiVars, dhcp, clients, faults>>

LinkChanges(n) ==
  /\ Changing /\ table[n] # None
  /\ \E info \in Info \ {table[n]} : table' = [table EXCEPT ![n] = info] /\ Announce(n, "Changed", info)
  /\ UNCHANGED <<daemon, maps, wifiVars, dhcp, clients, faults>>

\* Of one interface; those of a refresh follow each other.
Refresh(n) ==
  /\ Changing /\ table[n] # None
  /\ \E info \in Info :
       /\ table' = [table EXCEPT ![n] = info]
       /\ events' = events \o <<[kind |-> "Removed", name |-> n, info |-> table[n]],
                                [kind |-> "Added", name |-> n, info |-> info]>>
       /\ last' = [last EXCEPT ![n] = "Added"]
  /\ UNCHANGED <<daemon, maps, wifiVars, dhcp, clients, faults>>

-------------------------------------------------------------------------------
(***************************************************************************)
(* NetworkDaemon.                                                          *)
(***************************************************************************)
\* Managers that are no more and that nobody knows.
Forgotten(managers) ==
  {m \in Manager :
     /\ managers[m].at = "stopped"
     /\ m # daemon.manager
     /\ \A n \in Name : m # wifi_supervisors[n] /\ m # dhcp_supervisors[n]
     /\ \A c \in Client : m # clients[c].manager}

StartDhcp(n) ==
  \E m \in {Min(Forgotten(dhcp))} :
    /\ dhcp' = [dhcp EXCEPT ![m] = [Spawned(n) EXCEPT !.at = "up"]]
    /\ dhcp_supervisors' = [dhcp_supervisors EXCEPT ![n] = m]

\* stop_gracefully.
ToldToStop(managers, m) == [managers EXCEPT ![m].told = managers[m].at # "stopped"]

\* Mutant of StopDhcp: the manager is dropped and not stopped.
StopDhcpForgetting(n) ==
  /\ dhcp_supervisors' = [dhcp_supervisors EXCEPT ![n] = None]
  /\ UNCHANGED dhcp

StopDhcp(n) ==
  IF dhcp_supervisors[n] = None THEN UNCHANGED <<dhcp, dhcp_supervisors>>
  ELSE /\ dhcp' = ToldToStop(dhcp, dhcp_supervisors[n])
       /\ dhcp_supervisors' = [dhcp_supervisors EXCEPT ![n] = None]

\* The second half of InterfaceAdded.
StartDhcpIfUp(n, info) ==
  IF info.dhcpv4_enabled /\ info.state = "Up" /\ dhcp_supervisors[n] = None
  THEN Forgotten(dhcp) # {} /\ StartDhcp(n) ELSE UNCHANGED <<dhcp, dhcp_supervisors>>

\* The first half: a new Wi-Fi manager takes the place of the one in the map, which is
\* not stopped, and is asked to load its networks.
HandleAdded ==
  /\ ~Busy /\ events # <<>> /\ Head(events).kind = "Added"
  /\ LET e == Head(events)
     IN  IF e.name \in Wlan
         THEN /\ Forgotten(wifi) # {}
              /\ \E m \in {Min(Forgotten(wifi))} :
                   /\ wifi' = [wifi EXCEPT ![m] = Spawned(e.name)]
                   /\ wifi_supervisors' = [wifi_supervisors EXCEPT ![e.name] = m]
                   /\ daemon' = [manager |-> m, name |-> e.name, info |-> e.info]
              /\ UNCHANGED <<dhcp, dhcp_supervisors>>
         ELSE /\ StartDhcpIfUp(e.name, e.info)
              /\ UNCHANGED <<wifi, wifi_supervisors, daemon>>
  /\ events' = Tail(events)
  /\ UNCHANGED <<table, last, changes, registry, socket, clients, faults>>

NotWaiting == [manager |-> None, name |-> None, info |-> None]

\* Mutant of NetworksLoaded: the daemon waits for a manager that runs.
NetworksLoadedIfUp ==
  /\ Busy /\ wifi[daemon.manager].at = "up"
  /\ StartDhcpIfUp(daemon.name, daemon.info)
  /\ daemon' = NotWaiting
  /\ UNCHANGED <<tableVars, wifi_supervisors, wifiVars, clients, faults>>

\* The answer to LoadNetworks: the manager runs, or could not start.
NetworksLoaded ==
  /\ Busy /\ wifi[daemon.manager].at \in {"up", "stopped"}
  /\ StartDhcpIfUp(daemon.name, daemon.info)
  /\ daemon' = NotWaiting
  /\ UNCHANGED <<tableVars, wifi_supervisors, wifiVars, clients, faults>>

\* Mutant of HandleRemoved: it does not wait for the handler of InterfaceAdded.
HandleRemovedMeanwhile ==
  /\ events # <<>> /\ Head(events).kind = "Removed"
  /\ LET n == Head(events).name
     IN  IF n \in Wlan /\ wifi_supervisors[n] # None
         THEN /\ wifi' = ToldToStop(wifi, wifi_supervisors[n])
              /\ wifi_supervisors' = [wifi_supervisors EXCEPT ![n] = None]
         ELSE UNCHANGED <<wifi, wifi_supervisors>>
  /\ events' = Tail(events)
  /\ UNCHANGED <<table, last, changes, daemon, dhcp_supervisors, registry, socket, dhcp, clients, faults>>

\* The DHCP manager stays.
HandleRemoved ==
  /\ ~Busy /\ events # <<>> /\ Head(events).kind = "Removed"
  /\ LET n == Head(events).name
     IN  IF n \in Wlan /\ wifi_supervisors[n] # None
         THEN /\ wifi' = ToldToStop(wifi, wifi_supervisors[n])
              /\ wifi_supervisors' = [wifi_supervisors EXCEPT ![n] = None]
         ELSE UNCHANGED <<wifi, wifi_supervisors>>
  /\ events' = Tail(events)
  /\ UNCHANGED <<table, last, changes, daemon, dhcp_supervisors, registry, socket, dhcp, clients, faults>>

Wanted(info) == info.dhcpv4_enabled /\ info.state \in {"Up", "Connected"}

HandleChanged ==
  /\ ~Busy /\ events # <<>> /\ Head(events).kind = "Changed"
  /\ LET e == Head(events)
     IN  IF ~Wanted(e.info) THEN StopDhcp(e.name)
         ELSE IF dhcp_supervisors[e.name] = None
         THEN Forgotten(dhcp) # {} /\ StartDhcp(e.name)
         ELSE UNCHANGED <<dhcp, dhcp_supervisors>>
  /\ events' = Tail(events)
  /\ UNCHANGED <<table, last, changes, daemon, wifi_supervisors, wifiVars, clients, faults>>

Accept(c) ==
  /\ ~Busy /\ clients[c].at = "connecting"
  /\ clients' = [clients EXCEPT ![c] = Ready]
  /\ UNCHANGED <<tableVars, daemon, maps, wifiVars, dhcp, faults>>

-------------------------------------------------------------------------------
(***************************************************************************)
(* The managers.                                                           *)
(***************************************************************************)
\* on_start.  A name that is taken stays with the one who has it.
WifiRegisters(m) ==
  /\ wifi[m].at = "spawned"
  /\ wifi' = [wifi EXCEPT ![m].at = "starting"]
  /\ registry' = [registry EXCEPT ![wifi[m].name] = IF @ = None THEN m ELSE @]
  /\ UNCHANGED <<tableVars, daemon, maps, socket, dhcp, clients, faults>>

\* It is no longer found, and its process goes on.
WifiEnds(m) ==
  /\ wifi' = [wifi EXCEPT ![m] = Gone]
  /\ registry' = [n \in Name |-> IF registry[n] = m THEN None ELSE registry[n]]

\* A socket that is there already makes the start fail.
WifiStarts(m) ==
  /\ wifi[m].at = "starting"
  /\ LET n == wifi[m].name
     IN  \/ /\ n \notin socket /\ socket' = socket \cup {n}
            /\ wifi' = [wifi EXCEPT ![m].at = "up"] /\ UNCHANGED <<registry, faults>>
         \/ /\ n \in socket /\ WifiEnds(m) /\ UNCHANGED <<socket, faults>>
         \/ /\ n \notin socket /\ Fault /\ WifiEnds(m)
            /\ socket' \in {socket, socket \cup {n}}
  /\ UNCHANGED <<tableVars, daemon, maps, dhcp, clients>>

WifiStops(m) ==
  /\ wifi[m].at = "up" /\ wifi[m].told
  /\ WifiEnds(m)
  /\ UNCHANGED <<tableVars, daemon, maps, socket, dhcp, clients, faults>>

\* wpa_supplicant ends in the middle of a request, or answers nobody any more.
WifiBlocks(m) ==
  /\ wifi[m].at = "up"
  /\ wifi' = [wifi EXCEPT ![m].at = "blocked"]
  /\ UNCHANGED <<tableVars, daemon, maps, registry, socket, dhcp, clients, faults>>

\* Only if no request that its backend will not answer came before.
BlockedStops(m) ==
  /\ wifi[m].at = "blocked" /\ wifi[m].told
  /\ WifiEnds(m)
  /\ UNCHANGED <<tableVars, daemon, maps, socket, dhcp, clients, faults>>

\* It gives up, or the process it left behind is killed.
WifiFails(m) ==
  /\ wifi[m].at = "up" /\ Fault
  /\ WifiEnds(m) /\ socket' \in SUBSET socket
  /\ UNCHANGED <<tableVars, daemon, maps, dhcp, clients>>

DhcpStops(m) ==
  /\ dhcp[m].at = "up" /\ dhcp[m].told
  /\ dhcp' = [dhcp EXCEPT ![m] = Gone]
  /\ UNCHANGED <<tableVars, daemon, maps, wifiVars, clients, faults>>

\* It cannot open its socket.
DhcpFails(m) ==
  /\ dhcp[m].at = "up" /\ Fault
  /\ dhcp' = [dhcp EXCEPT ![m] = Gone]
  /\ UNCHANGED <<tableVars, daemon, maps, wifiVars, clients>>

-------------------------------------------------------------------------------
(***************************************************************************)
(* Clients.                                                                *)
(***************************************************************************)
Connect(c) ==
  /\ clients[c].at = "away"
  /\ clients' = [clients EXCEPT ![c] = [Away EXCEPT !.at = "connecting"]]
  /\ UNCHANGED <<tableVars, daemon, maps, wifiVars, dhcp, faults>>

Send(c) ==
  /\ clients[c].at = "ready"
  /\ \E n \in Name : clients' = [clients EXCEPT ![c].at = "lookup", ![c].name = n]
  /\ UNCHANGED <<tableVars, daemon, maps, wifiVars, dhcp, faults>>

\* lookup_wifi_manager: found in one of 20 attempts, or not.
Lookup(c) ==
  /\ clients[c].at = "lookup"
  /\ LET m == registry[clients[c].name]
     IN  clients' = [clients EXCEPT ![c] = IF m = None THEN Ready ELSE [@ EXCEPT !.at = "asked", !.manager = m]]
  /\ UNCHANGED <<tableVars, daemon, maps, wifiVars, dhcp, faults>>

\* The answer, or the error of an actor that has stopped.
Answered(c) ==
  /\ clients[c].at = "asked" /\ wifi[clients[c].manager].at \in {"up", "stopped"}
  /\ clients' = [clients EXCEPT ![c] = Ready]
  /\ UNCHANGED <<tableVars, daemon, maps, wifiVars, dhcp, faults>>

-------------------------------------------------------------------------------
Init ==
  /\ table = [n \in Name |-> None] /\ events = <<>> /\ last = [n \in Name |-> "Removed"]
  /\ daemon = NotWaiting
  /\ wifi_supervisors = [n \in Name |-> None] /\ dhcp_supervisors = [n \in Name |-> None]
  /\ wifi = [m \in Manager |-> Gone] /\ dhcp = [m \in Manager |-> Gone]
  /\ registry = [n \in Name |-> None] /\ socket = {}
  /\ clients = [c \in Client |-> Away]
  /\ changes = 0 /\ faults = 0

HandleEvent == HandleAdded \/ HandleRemoved \/ HandleChanged \/ NetworksLoaded

WifiStep(m) == WifiRegisters(m) \/ WifiStarts(m) \/ WifiStops(m)

Next ==
  \/ \E n \in Name : LinkAppears(n) \/ LinkDisappears(n) \/ LinkChanges(n) \/ Refresh(n)
  \/ HandleEvent
  \/ \E m \in Manager : \/ WifiStep(m) \/ WifiBlocks(m) \/ BlockedStops(m) \/ WifiFails(m)
                         \/ DhcpStops(m) \/ DhcpFails(m)
  \/ \E c \in Client : Accept(c) \/ Connect(c) \/ Send(c) \/ Lookup(c) \/ Answered(c)

Spec == Init /\ [][Next]_vars

\* Actors are tasks of the runtime, and the start of a manager comes to an end (its waits
\* are timed).  A request to a manager does, unless the manager is blocked.
FairSpec ==
  /\ Spec
  /\ WF_vars(HandleEvent)
  /\ \A m \in Manager : WF_vars(WifiStep(m)) /\ WF_vars(DhcpStops(m))
  /\ \A c \in Client : WF_vars(Accept(c)) /\ WF_vars(Lookup(c)) /\ WF_vars(Answered(c))

-------------------------------------------------------------------------------
(***************************************************************************)
(* Properties.                                                             *)
(***************************************************************************)
TypeOK ==
  /\ table \in [Name -> Info \cup {None}]
  /\ events \in Seq(Event) /\ last \in [Name -> {"Added", "Removed", "Changed"}]
  /\ daemon \in [manager : Manager, name : Name, info : Info] \cup {NotWaiting}
  /\ wifi_supervisors \in [Name -> Manager \cup {None}]
  /\ Busy => wifi_supervisors[daemon.name] = daemon.manager   \* what an `expect` relies on
  /\ dhcp_supervisors \in [Name -> Manager \cup {None}]
  /\ wifi \in [Manager -> ManagerState] /\ dhcp \in [Manager -> ManagerState]
  /\ registry \in [Name -> Manager \cup {None}] /\ socket \subseteq Name
  /\ clients \in [Client -> ClientState]
  /\ changes \in 0..MaxChanges /\ faults \in 0..MaxFaults

\* No interface ever has two DHCP managers that both believe in it: one that has not
\* been told to stop is the one in the map.  And when the events have been handled, the
\* last of them a change, there is one exactly if the interface wants it.
Active(n) == {m \in Manager : dhcp[m].name = n /\ dhcp[m].at = "up" /\ ~dhcp[m].told}

DhcpFollows ==
  \A n \in Name :
    /\ Active(n) \subseteq {dhcp_supervisors[n]}
    /\ events = <<>> /\ ~Busy /\ last[n] = "Changed" /\ table[n] # None /\ faults = 0
         => (Active(n) # {}) = Wanted(table[n])

\* Every connection is accepted and every request answered, also while a Wi-Fi manager
\* starts, fails to start or is being replaced.  A manager that is blocked blocks those
\* who have asked it, and nobody else: if NetworkDaemon has, all connections to come.
Blocking(c) ==
  IF clients[c].at = "connecting" THEN daemon.manager ELSE clients[c].manager

ClientsAreServed ==
  \A c \in Client :
    clients[c].at \in {"connecting", "lookup", "asked"}
      ~> \/ clients[c].at = "ready"
         \/ \E m \in Manager : m = Blocking(c) /\ wifi[m].at = "blocked"

\* "Auto create WiFiManager actor" (README.md): a wireless interface has a Wi-Fi manager
\* that runs.
Running(n) == \E m \in Manager : wifi[m].name = n /\ wifi[m].at \in {"up", "blocked"}

WifiReturns == \A n \in Wlan : table[n] # None ~> table[n] = None \/ Running(n) \/ faults > 0
===============================================================================
