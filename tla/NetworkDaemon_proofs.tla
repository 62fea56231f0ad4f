-------------------------- MODULE NetworkDaemon_proofs -------------------------
(***************************************************************************)
(* NetworkDaemon keeps its types, the map entry that LoadNetworks relies   *)
(* on among them, and its DHCP managers follow the interfaces, for any     *)
(* number of interfaces, managers and clients and for any number of        *)
(* changes and failures.                                                   *)
(***************************************************************************)
EXTENDS NetworkDaemon, WellFoundedInduction, TLAPS

-------------------------------------------------------------------------------
(***************************************************************************)
(* The manager that is taken for a new one.                                *)
(***************************************************************************)
\* A set of natural numbers has a least one.
LEMMA MinIsLeast ==
  ASSUME NEW S, S \subseteq Nat, S # {}
  PROVE  Min(S) \in S /\ \A y \in S : Min(S) <= y
<1> DEFINE R == OpToRel(<, Nat)
<1>1. IsWellFoundedOn(R, Nat)
  BY NatLessThanWellFounded
<1>2. \A x, y \in Nat : <<x, y>> \in R <=> x < y
  BY DEF OpToRel
<1> HIDE DEF R
<1>3. PICK x \in S : \A y \in S : ~ (<<y, x>> \in R)
  BY <1>1, WFMin
<1>4. ASSUME NEW y \in S
      PROVE  x <= y
  <2>1. x \in Nat /\ y \in Nat
    OBVIOUS
  <2>2. ~(y < x)
    BY <1>2, <1>3, <2>1
  <2>3. QED
    BY <2>1, <2>2
<1>5. QED
  BY <1>4 DEF Min

\* It is one that has stopped and that nobody knows.
LEMMA TakenIsForgotten ==
  ASSUME NEW managers, Forgotten(managers) # {}
  PROVE  /\ Min(Forgotten(managers)) \in Manager
         /\ managers[Min(Forgotten(managers))].at = "stopped"
         /\ \A n \in Name : /\ Min(Forgotten(managers)) # wifi_supervisors[n]
                            /\ Min(Forgotten(managers)) # dhcp_supervisors[n]
<1>1. Forgotten(managers) \subseteq Nat
  BY DaemonAssumption DEF Forgotten
<1>2. Min(Forgotten(managers)) \in Forgotten(managers)
  BY <1>1, MinIsLeast
<1>3. QED
  BY <1>2 DEF Forgotten

-------------------------------------------------------------------------------
(***************************************************************************)
(* Types.  A manager that has not stopped and a client that waits for one  *)
(* have an interface.                                                      *)
(***************************************************************************)
\* A DHCP manager that was just started.
Runs(n) == [Spawned(n) EXCEPT !.at = "up"]

\* States of the managers.
LEMMA ManagerStates ==
  /\ Gone \in ManagerState /\ Gone.at = "stopped"
  /\ \A n \in Name : Spawned(n) \in ManagerState /\ Spawned(n).name = n
  /\ \A n \in Name : Runs(n) \in ManagerState
  /\ \A n \in Name : Runs(n).at = "up" /\ Runs(n).name = n /\ Runs(n).told = FALSE
<1>1. Gone \in ManagerState /\ Gone.at = "stopped"
  BY DEF Gone, ManagerState
<1>2. \A n \in Name : Spawned(n) \in ManagerState /\ Spawned(n).name = n
  BY DEF Spawned, ManagerState
<1>3. ASSUME NEW n \in Name
      PROVE  Runs(n) \in ManagerState /\ Runs(n).at = "up" /\ Runs(n).name = n /\ Runs(n).told = FALSE
  BY <1>2 DEF Spawned, Runs, ManagerState
<1>4. QED
  BY <1>1, <1>2, <1>3

\* A manager that is told to stop is the same otherwise.
LEMMA ToldType ==
  ASSUME NEW managers \in [Manager -> ManagerState], NEW m \in Manager
  PROVE  /\ ToldToStop(managers, m) \in [Manager -> ManagerState]
         /\ \A k \in Manager : /\ ToldToStop(managers, m)[k].at = managers[k].at
                               /\ ToldToStop(managers, m)[k].name = managers[k].name
                               /\ k # m => ToldToStop(managers, m)[k] = managers[k]
         /\ managers[m].at = "up" => ToldToStop(managers, m)[m].told = TRUE
<1>1. (managers[m].at # "stopped") \in BOOLEAN
  OBVIOUS
<1>2. \A k \in Manager : managers[k] \in ManagerState
  OBVIOUS
<1>3. QED
  BY <1>1, <1>2 DEF ToldToStop, ManagerState

\* The least forgotten DHCP manager is started for an interface that has none.
DhcpStarted(n) ==
  \E m \in Manager :
    /\ dhcp[m].at = "stopped" /\ \A k \in Name : m # dhcp_supervisors[k]
    /\ dhcp_supervisors[n] = None
    /\ dhcp' = [dhcp EXCEPT ![m] = Runs(n)]
    /\ dhcp_supervisors' = [dhcp_supervisors EXCEPT ![n] = m]

LEMMA StartsForgotten ==
  ASSUME NEW n \in Name, Forgotten(dhcp) # {}, StartDhcp(n), dhcp_supervisors[n] = None
  PROVE  DhcpStarted(n)
<1> DEFINE m == Min(Forgotten(dhcp))
<1>1. /\ dhcp' = [dhcp EXCEPT ![m] = Runs(n)]
      /\ dhcp_supervisors' = [dhcp_supervisors EXCEPT ![n] = m]
  BY DEF StartDhcp, Runs
<1>2. m \in Manager /\ dhcp[m].at = "stopped" /\ \A k \in Name : m # dhcp_supervisors[k]
  BY TakenIsForgotten
<1> HIDE DEF m
<1>3. QED
  BY <1>1, <1>2 DEF DhcpStarted

\* What the handlers do to the DHCP managers.
DhcpKept == UNCHANGED <<dhcp, dhcp_supervisors>>

LEMMA StartIfUpCases ==
  ASSUME NEW n \in Name, NEW info, StartDhcpIfUp(n, info)
  PROVE  DhcpKept \/ DhcpStarted(n)
  BY StartsForgotten DEF StartDhcpIfUp, DhcpKept

DhcpType == dhcp \in [Manager -> ManagerState] /\ dhcp_supervisors \in [Name -> Manager \cup {None}]

LEMMA DhcpChangeType ==
  ASSUME DhcpType, NEW n \in Name, DhcpKept \/ DhcpStarted(n) \/ StopDhcp(n)
  PROVE  DhcpType'
<1>1. CASE DhcpKept
  BY <1>1 DEF DhcpKept, DhcpType
<1>2. CASE DhcpStarted(n)
  <2>1. PICK m \in Manager :
          /\ dhcp' = [dhcp EXCEPT ![m] = Runs(n)]
          /\ dhcp_supervisors' = [dhcp_supervisors EXCEPT ![n] = m]
    BY <1>2 DEF DhcpStarted
  <2>2. Runs(n) \in ManagerState
    BY ManagerStates
  <2>3. QED
    BY <2>1, <2>2 DEF DhcpType
<1>3. CASE StopDhcp(n)
  <2>1. CASE dhcp_supervisors[n] = None
    BY <1>3, <2>1 DEF StopDhcp, DhcpType
  <2>2. CASE dhcp_supervisors[n] # None
    <3>1. dhcp_supervisors[n] \in Manager
      BY <2>2 DEF DhcpType
    <3>2. /\ dhcp' = ToldToStop(dhcp, dhcp_supervisors[n])
          /\ dhcp_supervisors' = [dhcp_supervisors EXCEPT ![n] = None]
      BY <1>3, <2>2 DEF StopDhcp
    <3>3. dhcp' \in [Manager -> ManagerState]
      BY <3>1, <3>2, ToldType DEF DhcpType
    <3>4. QED
      BY <3>2, <3>3 DEF DhcpType
  <2>3. QED
    BY <2>1, <2>2
<1>4. QED
  BY <1>1, <1>2, <1>3

\* The parts of the invariant, by the variables they are about.
TableType ==
  /\ table \in [Name -> Info \cup {None}] /\ events \in Seq(Event)
  /\ last \in [Name -> {"Added", "Removed", "Changed"}] /\ changes \in 0..MaxChanges

DaemonType ==
  /\ daemon \in [manager : Manager, name : Name, info : Info] \cup {NotWaiting}
  /\ wifi_supervisors \in [Name -> Manager \cup {None}]
  /\ Busy => wifi_supervisors[daemon.name] = daemon.manager

WifiType ==
  /\ wifi \in [Manager -> ManagerState]
  /\ registry \in [Name -> Manager \cup {None}] /\ socket \subseteq Name
  /\ \A m \in Manager : wifi[m].at # "stopped" => wifi[m].name \in Name

ClientType ==
  /\ clients \in [Client -> ClientState]
  /\ \A c \in Client : clients[c].at \in {"lookup", "asked"} => clients[c].name \in Name

FaultType == faults \in 0..MaxFaults

TypeInv == TableType /\ DaemonType /\ DhcpType /\ WifiType /\ ClientType /\ FaultType

\* What a step leaves alone keeps its type.
LEMMA SameType ==
  /\ TableType /\ UNCHANGED <<table, events, last, changes>> => TableType'
  /\ DaemonType /\ UNCHANGED <<daemon, wifi_supervisors>> => DaemonType'
  /\ DhcpType /\ UNCHANGED <<dhcp, dhcp_supervisors>> => DhcpType'
  /\ WifiType /\ UNCHANGED <<wifi, registry, socket>> => WifiType'
  /\ ClientType /\ UNCHANGED clients => ClientType'
  /\ FaultType /\ UNCHANGED faults => FaultType'
  BY DEF TableType, DaemonType, Busy, DhcpType, WifiType, ClientType, FaultType

\* The interfaces change and their events are queued.
InterfaceStep == \E n \in Name : LinkAppears(n) \/ LinkDisappears(n) \/ LinkChanges(n) \/ Refresh(n)

LEMMA InterfaceStepType ==
  ASSUME TypeInv, InterfaceStep
  PROVE  TypeInv'
<1>1. PICK n \in Name : LinkAppears(n) \/ LinkDisappears(n) \/ LinkChanges(n) \/ Refresh(n)
  BY DEF InterfaceStep
<1>2. /\ UNCHANGED <<daemon, wifi_supervisors, dhcp_supervisors, wifi, registry, socket, dhcp, clients, faults>>
      /\ changes < MaxChanges /\ changes' = changes + 1
  BY <1>1 DEF LinkAppears, LinkDisappears, LinkChanges, Refresh, Changing, maps, wifiVars
<1>3. TableType
  BY DEF TypeInv
<1>4. changes' \in 0..MaxChanges
  BY <1>2, <1>3, DaemonAssumption DEF TableType
<1>5. ASSUME NEW kind \in {"Added", "Removed", "Changed"}, NEW info \in Info, Announce(n, kind, info),
             table' = [table EXCEPT ![n] = info]
      PROVE  TableType'
  <2>1. [kind |-> kind, name |-> n, info |-> info] \in Event
    BY DEF Event
  <2>2. QED
    BY <1>3, <1>4, <1>5, <2>1 DEF TableType, Announce
<1>6. ASSUME LinkAppears(n) PROVE TableType'
  BY <1>5, <1>6 DEF LinkAppears
<1>7. ASSUME LinkDisappears(n) PROVE TableType'
  BY <1>3, <1>4, <1>7 DEF LinkDisappears, TableType
<1>8. ASSUME LinkChanges(n) PROVE TableType'
  BY <1>5, <1>8 DEF LinkChanges
<1>9. ASSUME Refresh(n) PROVE TableType'
  <2>1. PICK info \in Info :
          /\ table' = [table EXCEPT ![n] = info]
          /\ events' = events \o <<[kind |-> "Removed", name |-> n, info |-> table[n]],
                                   [kind |-> "Added", name |-> n, info |-> info]>>
          /\ last' = [last EXCEPT ![n] = "Added"]
    BY <1>9 DEF Refresh
  <2>2. table[n] \in Info
    BY <1>3, <1>9 DEF Refresh, TableType
  <2>3. /\ [kind |-> "Removed", name |-> n, info |-> table[n]] \in Event
        /\ [kind |-> "Added", name |-> n, info |-> info] \in Event
    BY <2>2 DEF Event
  <2>4. QED
    BY <1>3, <1>4, <2>1, <2>3 DEF TableType
<1>10. TableType'
  BY <1>1, <1>6, <1>7, <1>8, <1>9
<1>11. QED
  BY <1>2, <1>10, SameType DEF TypeInv

\* The daemon handles an event or an answer.
LEMMA HandleAddedType ==
  ASSUME TypeInv, HandleAdded
  PROVE  TypeInv'
<1> DEFINE e == Head(events)
<1>1. /\ TableType /\ DaemonType /\ DhcpType /\ WifiType /\ ClientType /\ FaultType
      /\ UNCHANGED <<table, last, changes, registry, socket, clients, faults>>
      /\ ~Busy /\ events # <<>> /\ events' = Tail(events)
  BY DEF TypeInv, HandleAdded
<1>2. e \in Event /\ events' \in Seq(Event)
  BY <1>1 DEF TableType
<1>3. e.name \in Name /\ e.info \in Info
  BY <1>2 DEF Event
<1>4. TableType'
  BY <1>1, <1>2 DEF TableType
<1> HIDE DEF e
<1>5. CASE e.name \in Wlan
  <2> DEFINE m == Min(Forgotten(wifi))
  <2>1. /\ m \in Manager
        /\ wifi' = [wifi EXCEPT ![m] = Spawned(e.name)]
        /\ wifi_supervisors' = [wifi_supervisors EXCEPT ![e.name] = m]
        /\ daemon' = [manager |-> m, name |-> e.name, info |-> e.info]
        /\ UNCHANGED <<dhcp, dhcp_supervisors>>
    BY <1>5, TakenIsForgotten DEF HandleAdded, e
  <2> HIDE DEF m
  <2>2. DaemonType'
    BY <1>1, <1>3, <2>1 DEF DaemonType
  <2>3. WifiType'
    BY <1>1, <1>3, <2>1, ManagerStates DEF WifiType
  <2>4. QED
    BY <1>1, <1>4, <2>1, <2>2, <2>3, SameType DEF TypeInv
<1>6. CASE e.name \notin Wlan
  <2>1. StartDhcpIfUp(e.name, e.info) /\ UNCHANGED <<wifi, wifi_supervisors, daemon>>
    BY <1>6 DEF HandleAdded, e
  <2>2. DhcpType'
    BY <1>1, <1>3, <2>1, StartIfUpCases, DhcpChangeType
  <2>3. QED
    BY <1>1, <1>4, <2>1, <2>2, SameType DEF TypeInv
<1>7. QED
  BY <1>5, <1>6

LEMMA NetworksLoadedType ==
  ASSUME TypeInv, NetworksLoaded
  PROVE  TypeInv'
<1>1. /\ TableType /\ DaemonType /\ DhcpType /\ WifiType /\ ClientType /\ FaultType
      /\ UNCHANGED <<table, events, last, changes, wifi_supervisors, wifi, registry, socket, clients, faults>>
      /\ Busy /\ StartDhcpIfUp(daemon.name, daemon.info) /\ daemon' = NotWaiting
  BY DEF TypeInv, NetworksLoaded, tableVars, wifiVars
<1>2. daemon.name \in Name
  BY <1>1 DEF DaemonType, Busy, NotWaiting
<1>3. DhcpType'
  BY <1>1, <1>2, StartIfUpCases, DhcpChangeType
<1>4. DaemonType'
  BY <1>1 DEF DaemonType, Busy, NotWaiting
<1>5. QED
  BY <1>1, <1>3, <1>4, SameType DEF TypeInv

LEMMA HandleRemovedType ==
  ASSUME TypeInv, HandleRemoved
  PROVE  TypeInv'
<1> DEFINE n == Head(events).name
<1>1. /\ TableType /\ DaemonType /\ DhcpType /\ WifiType /\ ClientType /\ FaultType
      /\ UNCHANGED <<table, last, changes, daemon, dhcp_supervisors, registry, socket, dhcp, clients, faults>>
      /\ ~Busy /\ events # <<>> /\ events' = Tail(events)
  BY DEF TypeInv, HandleRemoved
<1>2. Head(events) \in Event /\ events' \in Seq(Event)
  BY <1>1 DEF TableType
<1>3. n \in Name
  BY <1>2 DEF Event
<1>4. TableType'
  BY <1>1, <1>2 DEF TableType
<1>5. CASE UNCHANGED <<wifi, wifi_supervisors>>
  BY <1>1, <1>4, <1>5, SameType DEF TypeInv
<1>6. CASE ~UNCHANGED <<wifi, wifi_supervisors>>
  <2>1. /\ wifi' = ToldToStop(wifi, wifi_supervisors[n])
        /\ wifi_supervisors' = [wifi_supervisors EXCEPT ![n] = None]
        /\ wifi_supervisors[n] # None
    BY <1>6 DEF HandleRemoved
  <2>2. wifi_supervisors[n] \in Manager
    BY <1>1, <1>3, <2>1 DEF DaemonType
  <2>3. DaemonType'
    BY <1>1, <2>1 DEF DaemonType, Busy
  <2>4. WifiType'
    <3>1. PICK m \in Manager : m = wifi_supervisors[n]
      BY <2>2
    <3>2. /\ wifi' = ToldToStop(wifi, m) /\ UNCHANGED <<registry, socket>>
          /\ wifi \in [Manager -> ManagerState]
      BY <1>1, <2>1, <3>1 DEF WifiType
    <3>3. /\ wifi' \in [Manager -> ManagerState]
          /\ \A k \in Manager : wifi'[k].at = wifi[k].at /\ wifi'[k].name = wifi[k].name
      BY <3>2, ToldType
    <3>4. QED
      BY <1>1, <3>2, <3>3 DEF WifiType
  <2>5. QED
    BY <1>1, <1>4, <2>3, <2>4, SameType DEF TypeInv
<1>7. QED
  BY <1>5, <1>6

LEMMA HandleChangedType ==
  ASSUME TypeInv, HandleChanged
  PROVE  TypeInv'
<1> DEFINE e == Head(events)
<1>1. /\ TableType /\ DaemonType /\ DhcpType /\ WifiType /\ ClientType /\ FaultType
      /\ UNCHANGED <<table, last, changes, daemon, wifi_supervisors, wifi, registry, socket, clients, faults>>
      /\ events # <<>> /\ events' = Tail(events)
  BY DEF TypeInv, HandleChanged, wifiVars
<1>2. e \in Event /\ events' \in Seq(Event)
  BY <1>1 DEF TableType
<1>3. e.name \in Name
  BY <1>2 DEF Event
<1>4. TableType'
  BY <1>1, <1>2 DEF TableType
<1>5. DhcpKept \/ DhcpStarted(e.name) \/ StopDhcp(e.name)
  BY <1>3, StartsForgotten DEF HandleChanged, DhcpKept
<1>6. DhcpType'
  BY <1>1, <1>3, <1>5, DhcpChangeType
<1>7. QED
  BY <1>1, <1>4, <1>6, SameType DEF TypeInv

\* The managers go their ways.
LEMMA FaultsBounded == ASSUME FaultType, Fault PROVE FaultType'
  BY DaemonAssumption DEF Fault, FaultType

LEMMA WifiEndsType == ASSUME WifiType, NEW m \in Manager, WifiEnds(m), socket' \subseteq Name PROVE WifiType'
  BY ManagerStates DEF WifiEnds, WifiType

ManagerStep(m) ==
  WifiStep(m) \/ WifiBlocks(m) \/ BlockedStops(m) \/ WifiFails(m) \/ DhcpStops(m) \/ DhcpFails(m)

LEMMA ManagerStepType ==
  ASSUME TypeInv, NEW m \in Manager, ManagerStep(m)
  PROVE  TypeInv'
<1>0. TableType /\ DaemonType /\ DhcpType /\ WifiType /\ ClientType /\ FaultType
  BY DEF TypeInv
<1>1. /\ UNCHANGED <<table, events, last, changes, daemon, wifi_supervisors, dhcp_supervisors, clients>>
      /\ UNCHANGED faults \/ Fault
  BY DEF ManagerStep, WifiStep, WifiRegisters, WifiStarts, WifiStops, WifiBlocks, BlockedStops, WifiFails,
         DhcpStops, DhcpFails, tableVars, maps
<1>2. FaultType'
  BY <1>0, <1>1, FaultsBounded, SameType
<1>3. ASSUME NEW at \in {"starting", "up", "blocked"}, wifi' = [wifi EXCEPT ![m].at = at], wifi[m].at # "stopped"
      PROVE  /\ wifi' \in [Manager -> ManagerState]
             /\ \A k \in Manager : wifi'[k].at # "stopped" => wifi'[k].name \in Name
  <2>1. [wifi[m] EXCEPT !.at = at] \in ManagerState /\ [wifi[m] EXCEPT !.at = at].name = wifi[m].name
    BY <1>0 DEF WifiType, ManagerState
  <2>2. QED
    BY <1>0, <1>3, <2>1 DEF WifiType
<1>4. ASSUME WifiRegisters(m) PROVE DhcpType' /\ WifiType'
  <2>1. /\ wifi' = [wifi EXCEPT ![m].at = "starting"] /\ wifi[m].at # "stopped"
        /\ UNCHANGED <<socket, dhcp, dhcp_supervisors>>
        /\ registry' = [registry EXCEPT ![wifi[m].name] = IF @ = None THEN m ELSE @]
    BY <1>4 DEF WifiRegisters, maps
  <2>2. wifi[m].name \in Name
    BY <1>0, <2>1 DEF WifiType
  <2>3. registry' \in [Name -> Manager \cup {None}]
    BY <1>0, <2>1, <2>2 DEF WifiType
  <2>4. QED
    BY <1>0, <1>3, <2>1, <2>3, SameType DEF WifiType
<1>5. ASSUME WifiStarts(m) PROVE DhcpType' /\ WifiType'
  <2>1. UNCHANGED <<dhcp, dhcp_supervisors>> /\ wifi[m].at = "starting" /\ wifi[m].name \in Name
    BY <1>0, <1>5 DEF WifiStarts, maps, WifiType
  <2>2. \/ /\ wifi' = [wifi EXCEPT ![m].at = "up"] /\ UNCHANGED registry
           /\ socket' = socket \cup {wifi[m].name}
        \/ WifiEnds(m) /\ socket' \in {socket, socket \cup {wifi[m].name}}
    BY <1>5 DEF WifiStarts
  <2>3. socket' \subseteq Name
    BY <1>0, <2>1, <2>2 DEF WifiType
  <2>4. QED
    BY <1>0, <1>3, <2>1, <2>2, <2>3, SameType, WifiEndsType DEF WifiType
<1>6. ASSUME WifiStops(m) \/ BlockedStops(m) PROVE DhcpType' /\ WifiType'
  BY <1>0, <1>6, SameType, WifiEndsType DEF WifiStops, BlockedStops, WifiType, maps
<1>7. ASSUME WifiBlocks(m) PROVE DhcpType' /\ WifiType'
  BY <1>0, <1>3, <1>7, SameType DEF WifiBlocks, WifiType, maps
<1>8. ASSUME WifiFails(m) PROVE DhcpType' /\ WifiType'
  BY <1>0, <1>8, SameType, WifiEndsType DEF WifiFails, WifiType, maps
<1>9. ASSUME DhcpStops(m) \/ DhcpFails(m) PROVE DhcpType' /\ WifiType'
  <2>1. /\ dhcp' = [dhcp EXCEPT ![m] = Gone]
        /\ UNCHANGED <<dhcp_supervisors, wifi, registry, socket>>
    BY <1>9 DEF DhcpStops, DhcpFails, maps, wifiVars
  <2>2. QED
    BY <1>0, <2>1, SameType, ManagerStates DEF DhcpType
<1>10. QED
  BY <1>0, <1>1, <1>2, <1>4, <1>5, <1>6, <1>7, <1>8, <1>9, SameType DEF TypeInv, ManagerStep, WifiStep


\* Clients.
LEMMA ClientStepType ==
  ASSUME TypeInv, NEW c \in Client, Accept(c) \/ Connect(c) \/ Send(c) \/ Lookup(c) \/ Answered(c)
  PROVE  TypeInv'
<1>0. TableType /\ DaemonType /\ DhcpType /\ WifiType /\ ClientType /\ FaultType
  BY DEF TypeInv
<1>1. UNCHANGED <<table, events, last, changes, daemon, wifi_supervisors, dhcp_supervisors, wifi,
                  registry, socket, dhcp, faults>>
  BY DEF Accept, Connect, Send, Lookup, Answered, tableVars, maps, wifiVars
<1>2. Away \in ClientState /\ Away.at = "away" /\ Ready \in ClientState /\ Ready.at = "ready"
  BY DEF Away, Ready, ClientState
<1>3. ASSUME NEW s \in ClientState, s.at \in {"lookup", "asked"} => s.name \in Name,
             clients' = [clients EXCEPT ![c] = s]
      PROVE  ClientType'
  BY <1>0, <1>3 DEF ClientType
<1>4. clients[c] \in ClientState
  BY <1>0 DEF ClientType
<1>5. ASSUME Accept(c) \/ Answered(c) PROVE ClientType'
  BY <1>2, <1>3, <1>5 DEF Accept, Answered
<1>6. ASSUME Connect(c) PROVE ClientType'
  <2>1. [Away EXCEPT !.at = "connecting"] \in ClientState /\ [Away EXCEPT !.at = "connecting"].at = "connecting"
    BY <1>2 DEF ClientState
  <2>2. QED
    BY <1>3, <1>6, <2>1 DEF Connect
<1>7. ASSUME Send(c) PROVE ClientType'
  <2>1. PICK n \in Name : clients' = [clients EXCEPT ![c].at = "lookup", ![c].name = n]
    BY <1>7 DEF Send
  <2>2. clients' = [clients EXCEPT ![c] = [clients[c] EXCEPT !.at = "lookup", !.name = n]]
    BY <1>0, <2>1 DEF ClientType
  <2>3. /\ [clients[c] EXCEPT !.at = "lookup", !.name = n] \in ClientState
        /\ [clients[c] EXCEPT !.at = "lookup", !.name = n].name = n
    BY <1>4 DEF ClientState
  <2>4. QED
    BY <1>3, <2>2, <2>3
<1>8. ASSUME Lookup(c) PROVE ClientType'
  <2> DEFINE m == registry[clients[c].name]
  <2>1. clients[c].name \in Name /\ m \in Manager \cup {None}
    BY <1>0, <1>8 DEF Lookup, ClientType, WifiType
  <2>2. clients' = [clients EXCEPT ![c] =
                      IF m = None THEN Ready ELSE [clients[c] EXCEPT !.at = "asked", !.manager = m]]
    BY <1>0, <1>8 DEF Lookup, ClientType
  <2>3. m # None => /\ [clients[c] EXCEPT !.at = "asked", !.manager = m] \in ClientState
                    /\ [clients[c] EXCEPT !.at = "asked", !.manager = m].name = clients[c].name
    BY <1>4, <2>1 DEF ClientState
  <2> HIDE DEF m
  <2>4. QED
    BY <1>2, <1>3, <2>1, <2>2, <2>3
<1>9. QED
  BY <1>0, <1>1, <1>5, <1>6, <1>7, <1>8, SameType DEF TypeInv

LEMMA InitTypeInv == ASSUME Init PROVE TypeInv
<1>1. TableType /\ FaultType
  BY DaemonAssumption DEF Init, TableType, FaultType
<1>2. DaemonType /\ DhcpType
  BY ManagerStates DEF Init, DaemonType, DhcpType, Busy, NotWaiting
<1>3. WifiType
  BY ManagerStates DEF Init, WifiType
<1>4. ClientType
  BY DEF Init, ClientType, Away, ClientState
<1>5. QED
  BY <1>1, <1>2, <1>3, <1>4 DEF TypeInv

LEMMA NextTypeInv == ASSUME TypeInv, [Next]_vars PROVE TypeInv'
<1>1. CASE InterfaceStep
  BY <1>1, InterfaceStepType
<1>2. CASE HandleEvent
  BY <1>2, HandleAddedType, HandleRemovedType, HandleChangedType, NetworksLoadedType DEF HandleEvent
<1>3. ASSUME NEW m \in Manager, ManagerStep(m)
      PROVE  TypeInv'
  BY <1>3, ManagerStepType
<1>4. ASSUME NEW c \in Client, Accept(c) \/ Connect(c) \/ Send(c) \/ Lookup(c) \/ Answered(c)
      PROVE  TypeInv'
  BY <1>4, ClientStepType
<1>5. CASE UNCHANGED vars
  BY <1>5, SameType DEF TypeInv, vars, tableVars, maps, wifiVars
<1>6. QED
  BY <1>1, <1>2, <1>3, <1>4, <1>5 DEF Next, InterfaceStep, ManagerStep

LEMMA SpecTypeInv == Spec => []TypeInv
<1>1. Init => TypeInv
  BY InitTypeInv
<1>2. TypeInv /\ [Next]_vars => TypeInv'
  BY NextTypeInv
<1>3. QED
  BY <1>1, <1>2, PTL DEF Spec

\* Every variable keeps its type, and while the daemon waits for a new Wi-Fi manager
\* the manager is the one in the map, which the handler expects when it looks there.
THEOREM TypeCorrect == Spec => []TypeOK
<1>1. TypeInv => TypeOK
  BY DEF TypeInv, TypeOK, TableType, DaemonType, DhcpType, WifiType, ClientType, FaultType
<1>2. QED
  BY SpecTypeInv, <1>1, PTL

-------------------------------------------------------------------------------
(***************************************************************************)
(* DHCP managers.  One that has not been told to stop is the one in the    *)
(* map, and as long as nothing failed the one in the map runs.             *)
(***************************************************************************)
SupervisedInv ==
  \A n \in Name : /\ Active(n) \subseteq {dhcp_supervisors[n]}
                  /\ faults = 0 /\ dhcp_supervisors[n] # None => dhcp_supervisors[n] \in Active(n)

\* What a handler does to the managers of an interface and of the others.
LEMMA StartedActive ==
  ASSUME TypeInv, SupervisedInv, NEW n \in Name, DhcpStarted(n), UNCHANGED faults
  PROVE  /\ SupervisedInv' /\ Active(n)' # {}
         /\ \A k \in Name : k # n => Active(k)' = Active(k)
<1>1. PICK m \in Manager :
        /\ dhcp[m].at = "stopped" /\ \A k \in Name : m # dhcp_supervisors[k]
        /\ dhcp_supervisors[n] = None
        /\ dhcp' = [dhcp EXCEPT ![m] = Runs(n)]
        /\ dhcp_supervisors' = [dhcp_supervisors EXCEPT ![n] = m]
  BY DEF DhcpStarted
<1>2. DhcpType
  BY DEF TypeInv
<1>3. /\ dhcp'[m].at = "up" /\ dhcp'[m].name = n /\ ~dhcp'[m].told
      /\ \A j \in Manager : j # m => dhcp'[j] = dhcp[j]
      /\ dhcp_supervisors'[n] = m
      /\ \A k \in Name : k # n => dhcp_supervisors'[k] = dhcp_supervisors[k]
  BY <1>1, <1>2, ManagerStates DEF DhcpType
<1>4. Active(n) = {}
  BY <1>1, DaemonAssumption DEF SupervisedInv, Active
<1>5. Active(n)' = {m}
  BY <1>3, <1>4 DEF Active
<1>6. ASSUME NEW k \in Name, k # n
      PROVE  Active(k)' = Active(k)
  BY <1>1, <1>3, <1>6 DEF Active
<1>7. SupervisedInv'
  BY <1>3, <1>5, <1>6 DEF SupervisedInv
<1>8. QED
  BY <1>5, <1>6, <1>7

LEMMA StoppedActive ==
  ASSUME TypeInv, SupervisedInv, NEW n \in Name, StopDhcp(n), UNCHANGED faults
  PROVE  /\ SupervisedInv' /\ Active(n)' = {}
         /\ faults = 0 => \A k \in Name : k # n => Active(k)' = Active(k)
<1> DEFINE m == dhcp_supervisors[n]
<1>1. DhcpType
  BY DEF TypeInv
<1>2. CASE m = None
  <2>1. UNCHANGED <<dhcp, dhcp_supervisors>>
    BY <1>2 DEF StopDhcp
  <2>2. Active(n) = {}
    BY <1>2, DaemonAssumption DEF SupervisedInv, Active
  <2>3. \A k \in Name : Active(k)' = Active(k)
    BY <2>1 DEF Active
  <2>4. QED
    BY <2>1, <2>2, <2>3 DEF SupervisedInv
<1>3. CASE m # None
  <2>1. m \in Manager
    BY <1>1, <1>3 DEF DhcpType
  <2>2. dhcp' = ToldToStop(dhcp, m) /\ dhcp_supervisors' = [dhcp_supervisors EXCEPT ![n] = None]
    BY <1>3 DEF StopDhcp
  <2>3. /\ \A j \in Manager : /\ dhcp'[j].at = dhcp[j].at /\ dhcp'[j].name = dhcp[j].name
                              /\ j # m => dhcp'[j] = dhcp[j]
        /\ dhcp[m].at = "up" => dhcp'[m].told = TRUE
    BY <1>1, <2>1, <2>2, ToldType DEF DhcpType
  <2>4. /\ dhcp_supervisors'[n] = None
        /\ \A k \in Name : k # n => dhcp_supervisors'[k] = dhcp_supervisors[k]
    BY <1>1, <2>2 DEF DhcpType
  <2>5. Active(n) \subseteq {m}
    BY DEF SupervisedInv
  <2> HIDE DEF m
  <2>6. \A k \in Name : Active(k)' = Active(k) \ {m}
    BY <2>1, <2>3 DEF Active
  <2>7. Active(n)' = {}
    BY <2>5, <2>6
  <2>8. ASSUME faults = 0, NEW k \in Name, k # n
        PROVE  Active(k)' = Active(k)
    <3>1. m \in Active(n)
      BY <1>3, <2>8 DEF SupervisedInv, m
    <3>2. m \notin Active(k)
      BY <2>8, <3>1 DEF Active
    <3>3. QED
      BY <2>6, <3>2
  <2>9. SupervisedInv'
    <3>1. ASSUME NEW k \in Name, k # n
          PROVE  Active(k)' \subseteq {dhcp_supervisors'[k]}
      BY <2>4, <2>6, <3>1 DEF SupervisedInv
    <3>2. ASSUME NEW k \in Name, k # n, faults' = 0, dhcp_supervisors'[k] # None
          PROVE  dhcp_supervisors'[k] \in Active(k)'
      BY <2>4, <2>8, <3>2 DEF SupervisedInv
    <3>3. QED
      BY <2>4, <2>7, <3>1, <3>2 DEF SupervisedInv
  <2>10. QED
    BY <2>7, <2>8, <2>9
<1>4. QED
  BY <1>2, <1>3

\* A manager that ends was told to, or failed.
LEMMA EndedActive ==
  ASSUME TypeInv, SupervisedInv, NEW m \in Manager, DhcpStops(m) \/ DhcpFails(m)
  PROVE  /\ SupervisedInv'
         /\ faults' = 0 => faults = 0 /\ \A n \in Name : Active(n)' = Active(n)
<1>1. DhcpType /\ FaultType
  BY DEF TypeInv
<1>2. dhcp' = [dhcp EXCEPT ![m] = Gone] /\ UNCHANGED dhcp_supervisors
  BY DEF DhcpStops, DhcpFails, maps
<1>3. ~(dhcp'[m].at = "up") /\ \A j \in Manager : j # m => dhcp'[j] = dhcp[j]
  BY <1>1, <1>2, ManagerStates DEF DhcpType
<1>4. \A n \in Name : Active(n)' = Active(n) \ {m}
  BY <1>3 DEF Active
<1>5. faults' = 0 => faults = 0 /\ \A n \in Name : m \notin Active(n)
  <2>1. CASE DhcpStops(m)
    BY <2>1 DEF DhcpStops, Active
  <2>2. CASE DhcpFails(m)
    BY <1>1, <2>2, DaemonAssumption DEF DhcpFails, Fault, FaultType
  <2>3. QED
    BY <2>1, <2>2
<1>6. faults' = 0 => faults = 0 /\ \A n \in Name : Active(n)' = Active(n)
  BY <1>4, <1>5
<1>7. SupervisedInv'
  BY <1>2, <1>4, <1>6 DEF SupervisedInv
<1>8. QED
  BY <1>6, <1>7

-------------------------------------------------------------------------------
(***************************************************************************)
(* The events.  The last one about an interface is what it was told of     *)
(* last; once all of them have been handled, the DHCP managers follow.     *)
(* While the daemon waits for a Wi-Fi manager it has taken an InterfaceAdded *)
(* from the queue that it has not finished.                                *)
(***************************************************************************)
LastAbout(s, j) == \A k \in DOMAIN s : s[k].name = s[j].name => k <= j
NoneAbout(s, n) == \A k \in DOMAIN s : s[k].name # n

ToldLast(links, kinds, s) ==
  \A j \in DOMAIN s : LastAbout(s, j) =>
    /\ s[j].kind = kinds[s[j].name]
    /\ s[j].kind = "Changed" /\ links[s[j].name] # None => s[j].info = links[s[j].name]

Followed(links, kinds, n) ==
  /\ kinds[n] = "Changed" /\ links[n] # None /\ faults = 0 => (Active(n) # {} <=> Wanted(links[n]))
  /\ Busy /\ daemon.name = n => kinds[n] = "Added"

AllFollowed(links, kinds, s) == \A n \in Name : NoneAbout(s, n) => Followed(links, kinds, n)

\* The positions in the queue when an event is added or taken.
LEMMA EventQueued ==
  ASSUME NEW s \in Seq(Event), NEW e \in Event
  PROVE  /\ \A j \in DOMAIN Append(s, e) :
              LastAbout(Append(s, e), j) =>
                \/ j \in DOMAIN s /\ LastAbout(s, j) /\ Append(s, e)[j] = s[j] /\ s[j].name # e.name
                \/ Append(s, e)[j] = e
         /\ \A n : NoneAbout(Append(s, e), n) => NoneAbout(s, n) /\ n # e.name
<1> DEFINE t == Append(s, e)
<1>1. /\ Len(s) \in Nat /\ DOMAIN s = 1..Len(s) /\ DOMAIN t = 1..(Len(s) + 1)
      /\ \A j \in 1..Len(s) : t[j] = s[j]
      /\ t[Len(s) + 1] = e
  OBVIOUS
<1> HIDE DEF t
<1>2. ASSUME NEW j \in DOMAIN t, LastAbout(t, j), t[j] # e
      PROVE  j \in DOMAIN s /\ LastAbout(s, j) /\ t[j] = s[j] /\ s[j].name # e.name
  <2>1. j \in 1..Len(s) /\ t[j] = s[j]
    BY <1>1, <1>2
  <2>2. s[j].name # e.name
    BY <1>1, <1>2, <2>1 DEF LastAbout
  <2>3. LastAbout(s, j)
    BY <1>1, <1>2, <2>1 DEF LastAbout
  <2>4. QED
    BY <1>1, <2>1, <2>2, <2>3
<1>3. ASSUME NEW n, NoneAbout(t, n)
      PROVE  NoneAbout(s, n) /\ n # e.name
  BY <1>1, <1>3 DEF NoneAbout
<1>4. QED
  BY <1>2, <1>3 DEF t

LEMMA EventTaken ==
  ASSUME NEW s \in Seq(Event), s # <<>>
  PROVE  /\ 1 \in DOMAIN s /\ Head(s) = s[1] /\ Head(s) \in Event
         /\ \A j \in DOMAIN Tail(s) : j + 1 \in DOMAIN s /\ Tail(s)[j] = s[j + 1]
         /\ \A j \in DOMAIN Tail(s) : LastAbout(Tail(s), j) => LastAbout(s, j + 1)
         /\ \A n : NoneAbout(Tail(s), n) =>
                     \/ n # Head(s).name /\ NoneAbout(s, n)
                     \/ n = Head(s).name /\ LastAbout(s, 1)
<1> DEFINE t == Tail(s)
<1>1. /\ Len(s) \in Nat \ {0} /\ DOMAIN s = 1..Len(s) /\ DOMAIN t = 1..(Len(s) - 1)
      /\ \A j \in 1..(Len(s) - 1) : t[j] = s[j + 1]
      /\ Head(s) = s[1] /\ Head(s) \in Event
  OBVIOUS
<1> HIDE DEF t
<1>2. \A k \in DOMAIN s : k = 1 \/ (k - 1 \in DOMAIN t /\ s[k] = t[k - 1])
  <2>1. \A k \in DOMAIN s : k # 1 => k - 1 \in 1..(Len(s) - 1) /\ (k - 1) + 1 = k
    BY <1>1
  <2>2. QED
    BY <1>1, <2>1
<1>3. ASSUME NEW j \in DOMAIN t, LastAbout(t, j)
      PROVE  LastAbout(s, j + 1)
  <2>1. j + 1 \in DOMAIN s /\ t[j] = s[j + 1] /\ j \in Nat
    BY <1>1
  <2>2. ASSUME NEW k \in DOMAIN s, s[k].name = s[j + 1].name
        PROVE  k <= j + 1
    <3>1. k \in Nat
      BY <1>1
    <3>2. CASE k = 1
      BY <1>1, <3>2
    <3>3. CASE k # 1
      <4>1. k - 1 <= j
        BY <1>2, <1>3, <2>1, <2>2, <3>3 DEF LastAbout
      <4>2. QED
        BY <2>1, <3>1, <4>1
    <3>4. QED
      BY <3>2, <3>3
  <2>3. QED
    BY <2>2 DEF LastAbout
<1>4. ASSUME NEW n, NoneAbout(t, n), n # s[1].name
      PROVE  NoneAbout(s, n)
  BY <1>2, <1>4 DEF NoneAbout
<1>5. ASSUME NEW n, NoneAbout(t, n), n = s[1].name
      PROVE  LastAbout(s, 1)
  <2>1. \A k \in DOMAIN s : s[k].name = s[1].name => k = 1
    BY <1>2, <1>5 DEF NoneAbout
  <2>2. QED
    BY <2>1 DEF LastAbout
<1>6. QED
  BY <1>1, <1>3, <1>4, <1>5 DEF t

\* An interface changes and the event that tells of it is queued.
LEMMA EventTold ==
  ASSUME NEW s \in Seq(Event), NEW e \in Event, NEW x, NEW links, NEW kinds,
         DOMAIN links = Name, links = [n \in Name |-> links[n]],
         DOMAIN kinds = Name, kinds = [n \in Name |-> kinds[n]],
         ToldLast(links, kinds, s), AllFollowed(links, kinds, s),
         e.kind = "Changed" => e.info = x
  PROVE  /\ ToldLast([links EXCEPT ![e.name] = x], [kinds EXCEPT ![e.name] = e.kind], Append(s, e))
         /\ AllFollowed([links EXCEPT ![e.name] = x], [kinds EXCEPT ![e.name] = e.kind], Append(s, e))
<1> DEFINE l == [links EXCEPT ![e.name] = x]
           k == [kinds EXCEPT ![e.name] = e.kind]
           t == Append(s, e)
<1>1. /\ e.name \in Name /\ l[e.name] = x /\ k[e.name] = e.kind
      /\ \A n \in Name : n # e.name => l[n] = links[n] /\ k[n] = kinds[n]
  BY DEF Event
<1>2. /\ \A j \in DOMAIN t : LastAbout(t, j) =>
           \/ j \in DOMAIN s /\ LastAbout(s, j) /\ t[j] = s[j] /\ s[j].name # e.name
           \/ t[j] = e
      /\ \A n : NoneAbout(t, n) => NoneAbout(s, n) /\ n # e.name
  BY EventQueued
<1>3. \A j \in DOMAIN s : s[j].name \in Name
  <2>1. DOMAIN s = 1..Len(s) /\ \A j \in 1..Len(s) : s[j] \in Event
    OBVIOUS
  <2>2. QED
    BY <2>1 DEF Event
<1> HIDE DEF l, k, t
<1>4. ASSUME NEW j \in DOMAIN t, LastAbout(t, j)
      PROVE  /\ t[j].kind = k[t[j].name]
             /\ t[j].kind = "Changed" /\ l[t[j].name] # None => t[j].info = l[t[j].name]
  <2>1. CASE t[j] = e
    BY <1>1, <2>1
  <2>2. CASE j \in DOMAIN s /\ LastAbout(s, j) /\ t[j] = s[j] /\ s[j].name # e.name
    BY <1>1, <1>3, <2>2 DEF ToldLast
  <2>3. QED
    BY <1>2, <1>4, <2>1, <2>2
<1>5. ASSUME NEW n \in Name, NoneAbout(t, n)
      PROVE  Followed(l, k, n)
  <2>1. NoneAbout(s, n) /\ n # e.name /\ l[n] = links[n] /\ k[n] = kinds[n]
    BY <1>1, <1>2, <1>5
  <2>2. QED
    BY <2>1 DEF AllFollowed, Followed
<1>6. QED
  BY <1>4, <1>5 DEF ToldLast, AllFollowed, l, k, t

EventsInv == ToldLast(table, last, events)
FollowInv == AllFollowed(table, last, events)

\* The interfaces change, and the managers do not.
LEMMA InterfaceStepFollowed ==
  ASSUME TypeInv, SupervisedInv, EventsInv, FollowInv, InterfaceStep
  PROVE  SupervisedInv' /\ EventsInv' /\ FollowInv'
<1>1. PICK n \in Name : LinkAppears(n) \/ LinkDisappears(n) \/ LinkChanges(n) \/ Refresh(n)
  BY DEF InterfaceStep
<1>2. UNCHANGED <<daemon, dhcp_supervisors, dhcp, faults>>
  BY <1>1 DEF LinkAppears, LinkDisappears, LinkChanges, Refresh, maps
<1>3. \A k \in Name : Active(k)' = Active(k)
  BY <1>2 DEF Active
<1>4. SupervisedInv'
  BY <1>2, <1>3 DEF SupervisedInv
<1>5. ASSUME AllFollowed(table', last', events')
      PROVE  FollowInv'
  BY <1>2, <1>3, <1>5 DEF FollowInv, AllFollowed, Followed, Busy
<1>6. /\ DOMAIN table = Name /\ table = [k \in Name |-> table[k]]
      /\ DOMAIN last = Name /\ last = [k \in Name |-> last[k]]
      /\ events \in Seq(Event)
  BY DEF TypeInv, TableType
<1>7. ASSUME NEW kind \in {"Added", "Removed", "Changed"}, NEW info \in Info, Announce(n, kind, info),
             table' = [table EXCEPT ![n] = info]
      PROVE  EventsInv' /\ FollowInv'
  <2> DEFINE e == [kind |-> kind, name |-> n, info |-> info]
  <2>1. /\ e \in Event /\ e.kind = kind /\ e.name = n /\ e.info = info
        /\ events' = Append(events, e) /\ last' = [last EXCEPT ![n] = kind]
    BY <1>7 DEF Event, Announce
  <2> HIDE DEF e
  <2>2. /\ ToldLast([table EXCEPT ![e.name] = info], [last EXCEPT ![e.name] = e.kind], Append(events, e))
        /\ AllFollowed([table EXCEPT ![e.name] = info], [last EXCEPT ![e.name] = e.kind], Append(events, e))
    BY <1>6, <2>1, EventTold DEF EventsInv, FollowInv
  <2>3. QED
    BY <1>5, <1>7, <2>1, <2>2 DEF EventsInv
<1>8. ASSUME LinkAppears(n) PROVE EventsInv' /\ FollowInv'
  BY <1>7, <1>8 DEF LinkAppears
<1>9. ASSUME LinkDisappears(n) PROVE EventsInv' /\ FollowInv'
  <2>1. table' = [table EXCEPT ![n] = None] /\ UNCHANGED <<events, last>>
    BY <1>9 DEF LinkDisappears
  <2>2. \A k \in Name : table'[k] = None \/ table'[k] = table[k]
    BY <1>6, <2>1
  <2>3. \A j \in DOMAIN events : events[j].name \in Name
    <3>1. DOMAIN events = 1..Len(events) /\ \A j \in 1..Len(events) : events[j] \in Event
      BY <1>6
    <3>2. QED
      BY <3>1 DEF Event
  <2>4. EventsInv'
    BY <2>1, <2>2, <2>3 DEF EventsInv, ToldLast
  <2>5. AllFollowed(table', last', events')
    BY <2>1, <2>2 DEF FollowInv, AllFollowed, Followed
  <2>6. QED
    BY <1>5, <2>4, <2>5
<1>10. ASSUME LinkChanges(n) PROVE EventsInv' /\ FollowInv'
  BY <1>7, <1>10 DEF LinkChanges
<1>11. ASSUME Refresh(n) PROVE EventsInv' /\ FollowInv'
  <2>1. PICK info \in Info :
          /\ table' = [table EXCEPT ![n] = info]
          /\ events' = events \o <<[kind |-> "Removed", name |-> n, info |-> table[n]],
                                   [kind |-> "Added", name |-> n, info |-> info]>>
          /\ last' = [last EXCEPT ![n] = "Added"]
    BY <1>11 DEF Refresh
  <2> DEFINE r == [kind |-> "Removed", name |-> n, info |-> table[n]]
             a == [kind |-> "Added", name |-> n, info |-> info]
             s == Append(events, r)
             k == [last EXCEPT ![n] = "Removed"]
  <2>2. table[n] \in Info
    BY <1>11 DEF Refresh, TypeInv, TableType
  <2>3. /\ r \in Event /\ r.kind = "Removed" /\ r.name = n
        /\ a \in Event /\ a.kind = "Added" /\ a.name = n
        /\ events' = events \o <<r, a>>
    BY <2>1, <2>2 DEF Event
  <2> HIDE DEF r, a
  <2>4. s \in Seq(Event) /\ events' = Append(s, a)
    BY <1>6, <2>3
  <2>5. [table EXCEPT ![n] = table[n]] = table
    BY <1>6
  <2>6. /\ ToldLast([table EXCEPT ![r.name] = table[n]], [last EXCEPT ![r.name] = r.kind], s)
        /\ AllFollowed([table EXCEPT ![r.name] = table[n]], [last EXCEPT ![r.name] = r.kind], s)
    BY <1>6, <2>3, EventTold DEF EventsInv, FollowInv
  <2>7. ToldLast(table, k, s) /\ AllFollowed(table, k, s)
    BY <2>3, <2>5, <2>6
  <2>8. /\ DOMAIN k = Name /\ k = [m \in Name |-> k[m]]
        /\ [k EXCEPT ![n] = "Added"] = [last EXCEPT ![n] = "Added"]
    BY <1>6
  <2> HIDE DEF s, k
  <2>9. /\ ToldLast([table EXCEPT ![a.name] = info], [k EXCEPT ![a.name] = a.kind], Append(s, a))
        /\ AllFollowed([table EXCEPT ![a.name] = info], [k EXCEPT ![a.name] = a.kind], Append(s, a))
    BY <1>6, <2>3, <2>4, <2>7, <2>8, EventTold
  <2>10. ToldLast(table', last', events') /\ AllFollowed(table', last', events')
    BY <2>1, <2>3, <2>4, <2>8, <2>9
  <2>11. QED
    BY <1>5, <2>10 DEF EventsInv
<1>12. QED
  BY <1>1, <1>4, <1>8, <1>9, <1>10, <1>11

\* The daemon takes an event from the queue.
LEMMA TakenFollowed ==
  ASSUME TypeInv, EventsInv, FollowInv, events # <<>>, events' = Tail(events), UNCHANGED <<table, last>>
  PROVE  /\ EventsInv' /\ Head(events) \in Event
         /\ \A n \in Name : NoneAbout(events', n) =>
              \/ n # Head(events).name /\ NoneAbout(events, n) /\ Followed(table, last, n)
              \/ /\ n = Head(events).name /\ last[n] = Head(events).kind
                 /\ last[n] = "Changed" /\ table[n] # None => Head(events).info = table[n]
<1> DEFINE t == Tail(events)
<1>1. events \in Seq(Event)
  BY DEF TypeInv, TableType
<1>2. /\ 1 \in DOMAIN events /\ Head(events) = events[1] /\ Head(events) \in Event
      /\ \A j \in DOMAIN t : j + 1 \in DOMAIN events /\ t[j] = events[j + 1]
      /\ \A j \in DOMAIN t : LastAbout(t, j) => LastAbout(events, j + 1)
      /\ \A n : NoneAbout(t, n) =>
           \/ n # Head(events).name /\ NoneAbout(events, n)
           \/ n = Head(events).name /\ LastAbout(events, 1)
  BY <1>1, EventTaken
<1> HIDE DEF t
<1>3. ToldLast(table, last, t)
  BY <1>2 DEF EventsInv, ToldLast
<1>4. EventsInv'
  BY <1>3 DEF EventsInv, t
<1>5. ASSUME NEW n \in Name, NoneAbout(t, n)
      PROVE  \/ n # Head(events).name /\ NoneAbout(events, n) /\ Followed(table, last, n)
             \/ /\ n = Head(events).name /\ last[n] = Head(events).kind
                /\ last[n] = "Changed" /\ table[n] # None => Head(events).info = table[n]
  BY <1>2, <1>5 DEF EventsInv, ToldLast, FollowInv, AllFollowed
<1>6. QED
  BY <1>2, <1>4, <1>5 DEF t

\* What is left of the handler's work once the managers are as the event wants them.
LEMMA HandledFollowed ==
  ASSUME TypeInv, EventsInv, FollowInv, events # <<>>, events' = Tail(events),
         UNCHANGED <<table, last, faults>>, NEW i \in Name, i = Head(events).name,
         faults = 0 => \A k \in Name : k # i => Active(k)' = Active(k),
         Busy' => daemon'.name = i /\ Head(events).kind = "Added",
         Head(events).kind = "Changed" /\ faults = 0 => (Active(i)' # {} <=> Wanted(Head(events).info)),
         ~Busy
  PROVE  EventsInv' /\ FollowInv'
<1> DEFINE e == Head(events)
<1>1. /\ EventsInv'
      /\ \A n \in Name : NoneAbout(events', n) =>
           \/ n # i /\ NoneAbout(events, n) /\ Followed(table, last, n)
           \/ /\ n = i /\ last[n] = e.kind
              /\ last[n] = "Changed" /\ table[n] # None => e.info = table[n]
  BY TakenFollowed
<1>2. /\ faults = 0 => \A k \in Name : k # i => Active(k)' = Active(k)
      /\ Busy' => daemon'.name = i /\ e.kind = "Added"
      /\ e.kind = "Changed" /\ faults = 0 => (Active(i)' # {} <=> Wanted(e.info))
      /\ faults' = faults /\ table' = table /\ last' = last
  OBVIOUS
<1> HIDE DEF e
<1>3. ASSUME NEW n \in Name, NoneAbout(events', n)
      PROVE  /\ last'[n] = "Changed" /\ table'[n] # None /\ faults' = 0 => (Active(n)' # {} <=> Wanted(table'[n]))
             /\ Busy' /\ daemon'.name = n => last'[n] = "Added"
  <2>1. CASE n # i /\ Followed(table, last, n)
    BY <1>2, <2>1 DEF Followed
  <2>2. CASE /\ n = i /\ last[n] = e.kind
             /\ last[n] = "Changed" /\ table[n] # None => e.info = table[n]
    BY <1>2, <2>2
  <2>3. QED
    BY <1>1, <1>3, <2>1, <2>2
<1>4. FollowInv'
  BY <1>3 DEF FollowInv, AllFollowed, Followed
<1>5. QED
  BY <1>1, <1>4

LEMMA KeptActive ==
  ASSUME SupervisedInv, DhcpKept, UNCHANGED faults
  PROVE  SupervisedInv' /\ \A n \in Name : Active(n)' = Active(n)
<1>1. \A n \in Name : Active(n)' = Active(n)
  BY DEF DhcpKept, Active
<1>2. QED
  BY <1>1 DEF SupervisedInv, DhcpKept

FollowsInv == SupervisedInv /\ EventsInv /\ FollowInv

\* The daemon handles an event or an answer.
LEMMA HandleAddedFollowed ==
  ASSUME TypeInv, FollowsInv, HandleAdded
  PROVE  FollowsInv'
<1> DEFINE e == Head(events)
<1>1. /\ SupervisedInv /\ EventsInv /\ FollowInv
      /\ ~Busy /\ events # <<>> /\ events' = Tail(events) /\ e.kind = "Added"
      /\ UNCHANGED <<table, last, faults>>
  BY DEF FollowsInv, HandleAdded
<1>2. e \in Event
  BY <1>1, TakenFollowed
<1>3. PICK n \in Name : n = e.name
  BY <1>2 DEF Event
<1>4. /\ SupervisedInv'
      /\ \A k \in Name : k # n => Active(k)' = Active(k)
      /\ Busy' => daemon'.name = n
  <2>1. CASE n \in Wlan
    <3>1. DhcpKept
      BY <1>3, <2>1 DEF HandleAdded, DhcpKept
    <3>2. daemon'.name = n
      BY <1>3, <2>1 DEF HandleAdded
    <3>3. QED
      BY <1>1, <3>1, <3>2, KeptActive
  <2>2. CASE n \notin Wlan
    <3>1. StartDhcpIfUp(n, e.info) /\ UNCHANGED daemon
      BY <1>3, <2>2 DEF HandleAdded
    <3>2. DhcpKept \/ DhcpStarted(n)
      BY <1>3, <3>1, StartIfUpCases
    <3>3. ~Busy'
      BY <1>1, <3>1 DEF Busy
    <3> HIDE DEF e
    <3>4. QED
      BY <1>1, <1>3, <3>2, <3>3, KeptActive, StartedActive
  <2>3. QED
    BY <2>1, <2>2
<1>5. EventsInv' /\ FollowInv'
  BY <1>1, <1>3, <1>4, HandledFollowed
<1>6. QED
  BY <1>4, <1>5 DEF FollowsInv

LEMMA HandleRemovedFollowed ==
  ASSUME TypeInv, FollowsInv, HandleRemoved
  PROVE  FollowsInv'
<1>1. /\ SupervisedInv /\ EventsInv /\ FollowInv
      /\ ~Busy /\ events # <<>> /\ events' = Tail(events) /\ Head(events).kind = "Removed"
      /\ UNCHANGED <<table, last, faults, daemon>> /\ DhcpKept
  BY DEF FollowsInv, HandleRemoved, DhcpKept
<1>2. SupervisedInv' /\ \A k \in Name : Active(k)' = Active(k)
  BY <1>1, KeptActive
<1>3. ~Busy'
  BY <1>1 DEF Busy
<1>4. Head(events) \in Event
  BY <1>1, TakenFollowed
<1>5. PICK n \in Name : n = Head(events).name
  BY <1>4 DEF Event
<1>6. EventsInv' /\ FollowInv'
  BY <1>1, <1>2, <1>3, <1>5, HandledFollowed
<1>7. QED
  BY <1>2, <1>6 DEF FollowsInv

LEMMA HandleChangedFollowed ==
  ASSUME TypeInv, FollowsInv, HandleChanged
  PROVE  FollowsInv'
<1> DEFINE e == Head(events)
<1>1. /\ SupervisedInv /\ EventsInv /\ FollowInv
      /\ ~Busy /\ events # <<>> /\ events' = Tail(events)
      /\ UNCHANGED <<table, last, faults, daemon>>
  BY DEF FollowsInv, HandleChanged
<1>2. e \in Event
  BY <1>1, TakenFollowed
<1>3. PICK n \in Name : n = e.name
  BY <1>2 DEF Event
<1>4. ~Busy'
  BY <1>1 DEF Busy
<1>5. \/ ~Wanted(e.info) /\ StopDhcp(n)
      \/ Wanted(e.info) /\ DhcpStarted(n)
      \/ Wanted(e.info) /\ DhcpKept /\ dhcp_supervisors[n] # None
  BY <1>3, StartsForgotten DEF HandleChanged, DhcpKept
<1> HIDE DEF e
<1>6. /\ SupervisedInv'
      /\ faults = 0 => \A k \in Name : k # n => Active(k)' = Active(k)
      /\ faults = 0 => (Active(n)' # {} <=> Wanted(e.info))
  <2>1. CASE ~Wanted(e.info) /\ StopDhcp(n)
    BY <1>1, <1>3, <2>1, StoppedActive
  <2>2. CASE Wanted(e.info) /\ DhcpStarted(n)
    BY <1>1, <1>3, <2>2, StartedActive
  <2>3. CASE Wanted(e.info) /\ DhcpKept /\ dhcp_supervisors[n] # None
    <3>1. SupervisedInv' /\ \A k \in Name : Active(k)' = Active(k)
      BY <1>1, <2>3, KeptActive
    <3>2. faults = 0 => Active(n) # {}
      BY <1>1, <1>3, <2>3 DEF SupervisedInv
    <3>3. QED
      BY <1>3, <2>3, <3>1, <3>2
  <2>4. QED
    BY <1>5, <2>1, <2>2, <2>3
<1>7. EventsInv' /\ FollowInv'
  BY <1>1, <1>3, <1>4, <1>6, HandledFollowed DEF e
<1>8. QED
  BY <1>6, <1>7 DEF FollowsInv

LEMMA NetworksLoadedFollowed ==
  ASSUME TypeInv, FollowsInv, NetworksLoaded
  PROVE  FollowsInv'
<1>1. /\ SupervisedInv /\ EventsInv /\ FollowInv /\ Busy
      /\ UNCHANGED <<table, events, last, faults>>
      /\ daemon' = NotWaiting /\ StartDhcpIfUp(daemon.name, daemon.info)
  BY DEF FollowsInv, NetworksLoaded, tableVars
<1>2. PICK n \in Name : n = daemon.name
  BY <1>1 DEF TypeInv, DaemonType, Busy, NotWaiting
<1>3. DhcpKept \/ DhcpStarted(n)
  BY <1>1, <1>2, StartIfUpCases
<1>4. ~Busy'
  BY <1>1 DEF Busy, NotWaiting
<1>5. /\ SupervisedInv'
      /\ \A k \in Name : k # n => Active(k)' = Active(k)
  BY <1>1, <1>2, <1>3, KeptActive, StartedActive
<1>6. EventsInv'
  BY <1>1 DEF EventsInv
<1>7. ASSUME NEW k \in Name, NoneAbout(events', k)
      PROVE  /\ last'[k] = "Changed" /\ table'[k] # None /\ faults' = 0 => (Active(k)' # {} <=> Wanted(table'[k]))
             /\ Busy' /\ daemon'.name = k => last'[k] = "Added"
  <2>1. Followed(table, last, k)
    BY <1>1, <1>7 DEF FollowInv, AllFollowed
  <2>2. CASE k = n
    BY <1>1, <1>2, <1>4, <2>1, <2>2 DEF Followed
  <2>3. CASE k # n
    BY <1>1, <1>4, <1>5, <2>1, <2>3 DEF Followed
  <2>4. QED
    BY <2>2, <2>3
<1>8. FollowInv'
  BY <1>7 DEF FollowInv, AllFollowed, Followed
<1>9. QED
  BY <1>5, <1>6, <1>8 DEF FollowsInv

\* The managers go their ways: they leave the events and the daemon alone.
LEMMA AloneFollowed ==
  ASSUME FollowsInv, SupervisedInv', UNCHANGED <<table, events, last, daemon>>,
         faults' = 0 => faults = 0 /\ \A n \in Name : Active(n)' = Active(n)
  PROVE  FollowsInv'
<1>1. EventsInv'
  BY DEF FollowsInv, EventsInv
<1>2. ASSUME NEW n \in Name, NoneAbout(events', n)
      PROVE  /\ last'[n] = "Changed" /\ table'[n] # None /\ faults' = 0 => (Active(n)' # {} <=> Wanted(table'[n]))
             /\ Busy' /\ daemon'.name = n => last'[n] = "Added"
  <2>1. Followed(table, last, n)
    BY <1>2 DEF FollowsInv, FollowInv, AllFollowed
  <2>2. QED
    BY <2>1 DEF Followed, Busy
<1>3. FollowInv'
  BY <1>2 DEF FollowInv, AllFollowed, Followed
<1>4. QED
  BY <1>1, <1>3 DEF FollowsInv

LEMMA ManagerStepFollowed ==
  ASSUME TypeInv, FollowsInv, NEW m \in Manager, ManagerStep(m)
  PROVE  FollowsInv'
<1>1. UNCHANGED <<table, events, last, daemon>>
  BY DEF ManagerStep, WifiStep, WifiRegisters, WifiStarts, WifiStops, WifiBlocks, BlockedStops, WifiFails,
         DhcpStops, DhcpFails, tableVars
<1>2. SupervisedInv
  BY DEF FollowsInv
<1>3. CASE DhcpStops(m) \/ DhcpFails(m)
  BY <1>1, <1>2, <1>3, EndedActive, AloneFollowed
<1>4. CASE WifiStep(m) \/ WifiBlocks(m) \/ BlockedStops(m) \/ WifiFails(m)
  <2>1. DhcpKept /\ (UNCHANGED faults \/ Fault)
    BY <1>4 DEF WifiStep, WifiRegisters, WifiStarts, WifiStops, WifiBlocks, BlockedStops, WifiFails,
                maps, DhcpKept
  <2>2. faults \in Nat
    BY DaemonAssumption DEF TypeInv, FaultType
  <2>3. faults' = 0 => faults = 0
    BY <2>1, <2>2 DEF Fault
  <2>4. \A n \in Name : Active(n)' = Active(n)
    BY <2>1 DEF DhcpKept, Active
  <2>5. SupervisedInv'
    BY <1>2, <2>1, <2>3, <2>4 DEF SupervisedInv, DhcpKept
  <2>6. QED
    BY <1>1, <2>3, <2>4, <2>5, AloneFollowed
<1>5. QED
  BY <1>3, <1>4 DEF ManagerStep

LEMMA StillFollowed ==
  ASSUME FollowsInv, UNCHANGED <<table, events, last, daemon, dhcp, dhcp_supervisors, faults>>
  PROVE  FollowsInv'
<1>1. SupervisedInv' /\ \A n \in Name : Active(n)' = Active(n)
  BY KeptActive DEF FollowsInv, DhcpKept
<1>2. QED
  BY <1>1, AloneFollowed

LEMMA InitFollows == ASSUME Init PROVE FollowsInv
<1>1. /\ table = [n \in Name |-> None] /\ last = [n \in Name |-> "Removed"] /\ events = <<>>
      /\ daemon.manager = None
  BY DEF Init, NotWaiting
<1>2. \A n \in Name : Active(n) = {} /\ dhcp_supervisors[n] = None
  BY ManagerStates DEF Init, Active
<1>3. SupervisedInv
  BY <1>2 DEF SupervisedInv
<1>4. DOMAIN events = {}
  BY <1>1
<1>5. EventsInv
  BY <1>4 DEF EventsInv, ToldLast
<1>6. FollowInv
  BY <1>1 DEF FollowInv, AllFollowed, Followed, Busy
<1>7. QED
  BY <1>3, <1>5, <1>6 DEF FollowsInv

LEMMA NextFollows == ASSUME TypeInv, FollowsInv, [Next]_vars PROVE FollowsInv'
<1>1. CASE InterfaceStep
  BY <1>1, InterfaceStepFollowed DEF FollowsInv
<1>2. CASE HandleEvent
  BY <1>2, HandleAddedFollowed, HandleRemovedFollowed, HandleChangedFollowed, NetworksLoadedFollowed
     DEF HandleEvent
<1>3. ASSUME NEW m \in Manager, ManagerStep(m)
      PROVE  FollowsInv'
  BY <1>3, ManagerStepFollowed
<1>4. ASSUME NEW c \in Client, Accept(c) \/ Connect(c) \/ Send(c) \/ Lookup(c) \/ Answered(c)
      PROVE  FollowsInv'
  BY <1>4, StillFollowed DEF Accept, Connect, Send, Lookup, Answered, tableVars, maps
<1>5. CASE UNCHANGED vars
  BY <1>5, StillFollowed DEF vars, tableVars, maps
<1>6. QED
  BY <1>1, <1>2, <1>3, <1>4, <1>5 DEF Next, InterfaceStep, ManagerStep

\* No interface has two DHCP managers that both believe in it; and when its events have
\* been handled, the last of them a change, and nothing failed, it has one exactly if it
\* wants one: however many interfaces change meanwhile, also while the daemon waits for a
\* Wi-Fi manager.
THEOREM DhcpAlwaysFollows == Spec => []DhcpFollows
<1>1. Init => FollowsInv
  BY InitFollows
<1>2. TypeInv /\ FollowsInv /\ [Next]_vars => FollowsInv'
  BY NextFollows
<1>3. FollowsInv => DhcpFollows
  <2> SUFFICES ASSUME FollowsInv, NEW n \in Name
               PROVE  /\ Active(n) \subseteq {dhcp_supervisors[n]}
                      /\ events = <<>> /\ ~Busy /\ last[n] = "Changed" /\ table[n] # None /\ faults = 0
                           => (Active(n) # {}) = Wanted(table[n])
    BY DEF DhcpFollows
  <2>1. Active(n) \subseteq {dhcp_supervisors[n]}
    BY DEF FollowsInv, SupervisedInv
  <2>2. ASSUME events = <<>>, last[n] = "Changed", table[n] # None, faults = 0
        PROVE  Active(n) # {} <=> Wanted(table[n])
    <3>1. DOMAIN events = {}
      BY <2>2
    <3>2. NoneAbout(events, n)
      BY <3>1 DEF NoneAbout
    <3>3. QED
      BY <2>2, <3>2 DEF FollowsInv, FollowInv, AllFollowed, Followed
  <2>3. (Active(n) # {}) \in BOOLEAN /\ Wanted(table[n]) \in BOOLEAN
    BY DEF Wanted
  <2>4. QED
    BY <2>1, <2>2, <2>3
<1>4. QED
  BY SpecTypeInv, <1>1, <1>2, <1>3, PTL DEF Spec
===============================================================================
