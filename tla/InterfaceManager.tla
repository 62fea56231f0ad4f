--------------------------- MODULE InterfaceManager ---------------------------
(***************************************************************************)
(* The InterfaceManager actor (interface/mod.rs) between the kernel, whose *)
(* links it mirrors in its table, and the subscribers it tells of changes  *)
(* (RouteManager and NetworkDaemon, reached by an unbounded FIFO channel). *)
(*                                                                         *)
(* Kernel notices wait in the netlink socket (netlink) until the stream    *)
(* task forwards them to the actor's mailbox.  A notice makes the actor    *)
(* query the link and send itself an UpdateInterfaceInfo message, which    *)
(* goes to the tail of the mailbox: pc holds what a handler that has       *)
(* awaited a query has still to do, and the kernel and the stream task run *)
(* in between.  Requests of clients, of the DHCP managers and of the Wi-Fi *)
(* managers are independent of the mailbox's content, so a request may be  *)
(* taken whenever the actor is idle, once the ForceRefresh that on_start   *)
(* sends has been taken.                                                   *)
(*                                                                         *)
(* A handler that answers a message sent with tell with an error stops the *)
(* actor (kameo's default on_panic), and with it the daemon: alive.        *)
(*                                                                         *)
(* IPv6 addresses and gateways are handled like the IPv4 ones and left     *)
(* out.  The SLAAC flag of an info is not a field of Info: what matters of *)
(* it is whether the table's is the one the subscribers were told.         *)
(***************************************************************************)
EXTENDS InterfaceTable, Naturals, Sequences, FiniteSets

CONSTANTS
  TypeOf,      \* the type of each interface
  ParentOf,    \* its parent device, or None
  Logical,     \* the interfaces the daemon can create and destroy
  AutoDevice,  \* the wireless devices it may create an interface for unasked
  Addr,        \* addresses with their prefix
  Gateway,     \* gateway addresses
  Lease,       \* DHCP leases: records [ip, gateway]
  PromptReuse, \* whether the kernel reuses an index the daemon still knows
  MaxStimuli   \* bound: kernel changes and requests in a behaviour

ConnectionState == {"Up", "Connected", "NoCarrier", "Disabled", "NotApplicable", "Unmanaged"}

ASSUME ManagerAssumption ==
  /\ IsFiniteSet(Name)
  /\ State = ConnectionState
  /\ \A n \in Name : TypeOf[n] \in Type /\ ParentOf[n] \in Device \cup {None}
  /\ Logical \subseteq Name
  /\ AutoDevice \subseteq Device
  /\ Lease \subseteq [ip : Addr, gateway : Gateway \cup {None}]
  /\ PromptReuse \in BOOLEAN
  /\ MaxStimuli \in Nat

VARIABLES
  kernel,     \* the link of each interface: [id, oper, addrs], or None
  netlink,    \* notices in the netlink socket, oldest first
  mailbox,    \* the actor's mailbox
  pc,         \* what the running handler still does
  table,      \* the actor's InterfaceTable
  config,     \* the [interface] part of config.toml
  announced,  \* what the events broadcast so far say of each interface
  untold,     \* the interfaces whose SLAAC flag in the table they do not say
  lease,      \* the lease each DHCP manager last reported
  alive,      \* FALSE once the actor has stopped
  stimuli     \* kernel changes and requests so far

vars ==
  <<kernel, netlink, mailbox, pc, table, config, announced, untold, lease, alive, stimuli>>

-------------------------------------------------------------------------------
(***************************************************************************)
(* Data.                                                                   *)
(***************************************************************************)
Link == [id : Index, oper : {"Up", "NoCarrier", "Disabled"}, addrs : SUBSET Addr]

Info == [name : Name, id : Index, interface_type : Type, parent : Device \cup {None},
         state : State, addrs : SUBSET Addr, gateway : Gateway \cup {None},
         dhcpv4 : BOOLEAN]

\* None is none of the records.
ASSUME NoneIsNoRecord == None \notin Link \cup Info \cup Lease

Notice  == [kind : {"NewLink", "DyingLink", "DelLink", "Address"}, index : Index]
Event   == [kind : {"Added", "Removed", "Changed"}, info : Info]
Message == [type : {"Netlink"}, notice : Notice] \cup [type : {"ForceRefresh"}]
             \cup [type : {"Update"}, event : Event]

Idle     == [at |-> "idle"]
Continue == {Idle} \cup [at : {"tell"}, event : Event]
              \cup [at : {"install"}, links : [Name -> Info \cup {None}]]

\* The daemon's initial configuration file names no interface.
NoConfig == [creation |-> {}, dhcpv4 |-> [n \in Name |-> TRUE]]

Init ==
  /\ kernel \in [Name -> Link \cup {None}]
  /\ \A n, m \in Name : kernel[n] # None /\ kernel[m] # None /\ kernel[n].id = kernel[m].id
                          => n = m
  /\ \A n \in Name : kernel[n] # None => kernel[n].oper = "Up" /\ kernel[n].addrs = {}
  /\ netlink = <<>>
  /\ mailbox = <<[type |-> "ForceRefresh"]>>
  /\ pc = Idle
  /\ table = EmptyTable
  /\ config = NoConfig
  /\ announced = [n \in Name |-> None]
  /\ untold = {}
  /\ lease = [n \in Name |-> None]
  /\ alive = TRUE
  /\ stimuli = 0

-------------------------------------------------------------------------------
(***************************************************************************)
(* The kernel, and what a query of it answers.                             *)
(***************************************************************************)
Present(k) == {n \in Name : k[n] # None}

\* The indices that something the daemon has not handled yet, or its table, names.
Mentioned ==
  {netlink[j].index : j \in DOMAIN netlink}
    \cup {mailbox[j].notice.index : j \in {k \in DOMAIN mailbox : mailbox[k].type = "Netlink"}}
    \cup {mailbox[j].event.info.id : j \in {k \in DOMAIN mailbox : mailbox[k].type = "Update"}}
    \cup (IF pc.at = "tell" THEN {pc.event.info.id} ELSE {})
    \cup (IF pc.at = "install"
          THEN {pc.links[n].id : n \in {m \in Name : pc.links[m] # None}} ELSE {})
    \cup {table.interfaces[n].id : n \in {m \in Name : table.interfaces[m] # None}}

FreeIndex(k) ==
  Index \ ({k[n].id : n \in Present(k)} \cup (IF PromptReuse THEN {} ELSE Mentioned))

\* The name of the link with an index, or None.
LinkAt(i) ==
  IF \E n \in Present(kernel) : kernel[n].id = i
  THEN CHOOSE n \in Present(kernel) : kernel[n].id = i
  ELSE None

\* An address makes any interface but a WLAN or an unplugged one Connected.
StateOf(n, link) ==
  IF link.addrs # {} /\ link.oper # "NoCarrier" /\ TypeOf[n] # "Wlan"
  THEN "Connected"
  ELSE link.oper

InfoOf(n, link) ==
  [name |-> n, id |-> link.id, interface_type |-> TypeOf[n], parent |-> ParentOf[n],
   state |-> StateOf(n, link), addrs |-> link.addrs, gateway |-> None, dhcpv4 |-> TRUE]

QueryLink(i) == IF LinkAt(i) = None THEN None ELSE InfoOf(LinkAt(i), kernel[LinkAt(i)])

\* query_links followed by apply_saved_policies.
QueryLinks(k) ==
  [n \in Name |-> IF k[n] = None THEN None
                  ELSE [InfoOf(n, k[n]) EXCEPT !.dhcpv4 = config.dhcpv4[n]]]

NewLink(i)      == [kind |-> "NewLink", index |-> i]
DelLinkOf(i)    == <<[kind |-> "DelLink", index |-> i]>>
AddressNotice(i) == [kind |-> "Address", index |-> i]

NewlyCreated(i) == [id |-> i, oper |-> "Up", addrs |-> {}]

Stimulus == alive /\ stimuli < MaxStimuli /\ stimuli' = stimuli + 1

LinkArrives(n, i, oper) ==
  /\ Stimulus
  /\ kernel[n] = None /\ i \in FreeIndex(kernel)
  /\ kernel' = [kernel EXCEPT ![n] = [id |-> i, oper |-> oper, addrs |-> {}]]
  /\ netlink' = Append(netlink, NewLink(i))
  /\ UNCHANGED <<mailbox, pc, table, config, announced, untold, lease, alive>>

\* The kernel may announce a departure with the Dying flag before DelLink.
LinkDeparts(n, warned) ==
  /\ Stimulus
  /\ kernel[n] # None
  /\ kernel' = [kernel EXCEPT ![n] = None]
  /\ netlink' = netlink
                  \o (IF warned THEN <<[kind |-> "DyingLink", index |-> kernel[n].id]>> ELSE <<>>)
                  \o DelLinkOf(kernel[n].id)
  /\ UNCHANGED <<mailbox, pc, table, config, announced, untold, lease, alive>>

OperChanges(n, oper) ==
  /\ Stimulus
  /\ kernel[n] # None /\ kernel[n].oper # oper
  /\ kernel' = [kernel EXCEPT ![n].oper = oper]
  /\ netlink' = Append(netlink, NewLink(kernel[n].id))
  /\ UNCHANGED <<mailbox, pc, table, config, announced, untold, lease, alive>>

-------------------------------------------------------------------------------
(***************************************************************************)
(* The stream task, and the handler of netlink messages.                   *)
(***************************************************************************)
Forward ==
  /\ alive /\ netlink # <<>>
  /\ mailbox' = Append(mailbox, [type |-> "Netlink", notice |-> Head(netlink)])
  /\ netlink' = Tail(netlink)
  /\ UNCHANGED <<kernel, pc, table, config, announced, untold, lease, alive, stimuli>>

\* The actor takes the oldest message, which is of the given type.
Take(type) ==
  /\ alive /\ pc = Idle
  /\ mailbox # <<>> /\ Head(mailbox).type = type
  /\ mailbox' = Tail(mailbox)

TellSelf(kind, info) == [at |-> "tell", event |-> [kind |-> kind, info |-> info]]

\* Mutant of Reaction: the answer of the query is not looked at.
ReactionUnchecked(notice) ==
  LET cached == GetByIndex(table, notice.index)
  IN IF notice.kind = "DelLink"
     THEN IF cached # None THEN TellSelf("Removed", cached) ELSE Idle
     ELSE TellSelf("Changed", QueryLink(notice.index))

\* Mutant of Reaction: only new links are news.
ReactionToNew(notice) ==
  LET cached == GetByIndex(table, notice.index)
      now    == QueryLink(notice.index)
  IN IF notice.kind = "DelLink"
     THEN IF cached # None THEN TellSelf("Removed", cached) ELSE Idle
     ELSE IF cached = None /\ now # None THEN TellSelf("Added", now) ELSE Idle

\* Mutant of Reaction: only links the table has are news.
ReactionToKnown(notice) ==
  LET cached == GetByIndex(table, notice.index)
      now    == QueryLink(notice.index)
  IN IF cached = None THEN Idle
     ELSE IF now = None THEN TellSelf("Removed", cached) ELSE TellSelf("Changed", now)

\* The event a notice is turned into, from the table and a query made now.
Reaction(notice) ==
  LET cached == GetByIndex(table, notice.index)
      now    == QueryLink(notice.index)
      dying  == now = None \/ notice.kind = "DyingLink"
  IN CASE notice.kind = "DelLink" ->
            IF cached # None THEN TellSelf("Removed", cached) ELSE Idle
       [] notice.kind = "Address" ->
            IF now # None THEN TellSelf("Changed", now) ELSE Idle
       [] OTHER ->
            IF dying
            THEN IF cached # None THEN TellSelf("Removed", cached) ELSE Idle
            ELSE TellSelf(IF cached # None THEN "Changed" ELSE "Added", now)

HandleNetlink ==
  /\ Take("Netlink")
  /\ pc' = Reaction(Head(mailbox).notice)
  /\ UNCHANGED <<kernel, netlink, table, config, announced, untold, lease, alive, stimuli>>

Tell ==
  /\ alive /\ pc.at = "tell"
  /\ mailbox' = Append(mailbox, [type |-> "Update", event |-> pc.event])
  /\ pc' = Idle
  /\ UNCHANGED <<kernel, netlink, table, config, announced, untold, lease, alive, stimuli>>

-------------------------------------------------------------------------------
(***************************************************************************)
(* The handler of UpdateInterfaceInfo.                                     *)
(***************************************************************************)
\* An event says everything of an interface, its SLAAC flag included.
Broadcast(info) ==
  /\ announced' = [announced EXCEPT ![info.name] = info]
  /\ untold' = untold \ {info.name}

\* A link's new info keeps what the kernel does not know: the state of an
\* unmanaged or wireless interface, the gateway, the DHCP policy and the SLAAC
\* flag.
Merge(cur, info) ==
  IF cur = None THEN info
  ELSE [info EXCEPT
          !.state   = IF cur.state = "Unmanaged" \/ cur.interface_type = "Wlan"
                      THEN cur.state ELSE info.state,
          !.gateway = cur.gateway,
          !.dhcpv4  = cur.dhcpv4]

UpdateAdded(info) == table' = Insert(table, info) /\ Broadcast(info)

UpdateRemoved(info) ==
  /\ table' = Remove(table, info.name)
  /\ untold' = untold \ {info.name}
  /\ UNCHANGED announced

\* Mutant of UpdateChanged: it broadcasts what the query said.
UpdateChangedTooEarly(info) ==
  table' = Update(table, Merge(table.interfaces[info.name], info)) /\ Broadcast(info)

UpdateChanged(info) ==
  LET merged == Merge(table.interfaces[info.name], info)
  IN table' = Update(table, merged) /\ Broadcast(merged)

HandleUpdate ==
  /\ Take("Update")
  /\ LET event == Head(mailbox).event
     IN \/ event.kind = "Added"   /\ UpdateAdded(event.info)
        \/ event.kind = "Removed" /\ UpdateRemoved(event.info)
        \/ event.kind = "Changed" /\ UpdateChanged(event.info)
  /\ UNCHANGED <<kernel, netlink, pc, config, lease, alive, stimuli>>

-------------------------------------------------------------------------------
(***************************************************************************)
(* refresh_interfaces: create the configured links that are missing and    *)
(* interfaces for the wireless devices that have none (any creation may    *)
(* fail), query all links, and after the query's await replace the table   *)
(* by what it found.                                                       *)
(***************************************************************************)

\* The orders in which some of the interfaces of a set may be created, as
\* sequences.
CreationOrders(S) ==
  UNION {{o \in [1..Cardinality(T) -> T] : \A a, b \in 1..Cardinality(T) : o[a] = o[b] => a = b}
           : T \in SUBSET S}

IsChildOf(n, device) == TypeOf[n] = "Wlan" /\ ParentOf[n] = device

\* The interfaces of wireless devices that have none and are configured none.
AutoWlans(k, creation) ==
  {n \in Logical \ Present(k) :
     \E device \in AutoDevice :
       IsChildOf(n, device) /\ ~\E m \in Present(k) \cup creation : IsChildOf(m, device)}

\* At most one of them for a device.
AutoCreationOrders(k, creation) ==
  {o \in CreationOrders(AutoWlans(k, creation)) :
     \A a, b \in DOMAIN o : ParentOf[o[a]] = ParentOf[o[b]] => a = b}

\* k is the kernel when the refresh begins, pending the notices already sent.
BeginRefresh(k, pending, creation) ==
  \E configured \in CreationOrders(creation \ Present(k)),
     auto \in AutoCreationOrders(k, creation) :
    LET made == configured \o auto
    IN \E index \in [DOMAIN made -> FreeIndex(k)] :
         /\ \A a, b \in DOMAIN made : index[a] = index[b] => a = b
         /\ kernel' = [n \in Name |->
                         IF \E a \in DOMAIN made : made[a] = n
                         THEN NewlyCreated(index[CHOOSE a \in DOMAIN made : made[a] = n])
                         ELSE k[n]]
         /\ netlink' = pending \o [a \in DOMAIN made |-> NewLink(index[a])]
         /\ pc' = [at |-> "install", links |-> QueryLinks(kernel')]

HandleForceRefresh ==
  /\ Take("ForceRefresh")
  /\ BeginRefresh(kernel, netlink, config.creation)
  /\ UNCHANGED <<table, config, announced, untold, lease, alive, stimuli>>

\* Interfaces whose info differs are announced, the old one as removed and then
\* the new one as added; whatever the table held is gone.  flags are interfaces
\* that differ in their SLAAC flag only: the query reads it afresh, and it is
\* then set to what config.toml says, if that succeeds.
Install ==
  /\ alive /\ pc.at = "install"
  /\ LET same == {n \in Name : pc.links[n] = table.interfaces[n]}
     IN \E flags \in SUBSET (same \cap Present(pc.links)) :
          /\ announced' = [n \in Name |-> IF n \in same \ flags THEN announced[n]
                                          ELSE pc.links[n]]
          /\ untold' = untold \cap (same \ flags)
  /\ table' = TableOf(pc.links)
  /\ pc' = Idle
  /\ UNCHANGED <<kernel, netlink, mailbox, config, lease, alive, stimuli>>

-------------------------------------------------------------------------------
(***************************************************************************)
(* Requests.  A request the code refuses before it changes anything, and   *)
(* the queries, are steps that change nothing and are left out.            *)
(***************************************************************************)
Request ==
  /\ Stimulus
  /\ pc = Idle
  /\ mailbox # <<>> => Head(mailbox).type # "ForceRefresh"

ForceRefresh ==
  /\ Request
  /\ BeginRefresh(kernel, netlink, config.creation)
  /\ UNCHANGED <<mailbox, table, config, announced, untold, lease, alive>>

\* The link is created and recorded in config.toml, and a refresh follows; when
\* it cannot be recorded it is destroyed again, unless that fails as well.
AddLink(n, i) ==
  /\ Request
  /\ table.interfaces[n] = None
  /\ n \in Logical /\ kernel[n] = None /\ i \in FreeIndex(kernel)
  /\ \/ /\ config' = [config EXCEPT !.creation = @ \cup {n}]
        /\ BeginRefresh([kernel EXCEPT ![n] = NewlyCreated(i)],
                        Append(netlink, NewLink(i)), config'.creation)
     \/ /\ netlink' = Append(netlink, NewLink(i)) \o DelLinkOf(i)
        /\ UNCHANGED <<config, kernel, pc>>
     \/ /\ kernel' = [kernel EXCEPT ![n] = NewlyCreated(i)]
        /\ netlink' = Append(netlink, NewLink(i))
        /\ UNCHANGED <<config, pc>>
  /\ UNCHANGED <<mailbox, table, announced, untold, lease, alive>>

\* The link is destroyed by the index the table has for it; the table follows
\* when the kernel's notice comes back.  The record in config.toml may stay.
DelLink(n) ==
  /\ Request
  /\ table.interfaces[n] # None
  /\ LET target == LinkAt(table.interfaces[n].id)
     IN /\ target \in Logical
        /\ kernel' = [kernel EXCEPT ![target] = None]
  /\ netlink' = netlink \o DelLinkOf(table.interfaces[n].id)
  /\ \/ config' = [config EXCEPT !.creation = @ \ {n}]
     \/ UNCHANGED config
  /\ UNCHANGED <<mailbox, pc, table, announced, untold, lease, alive>>

-------------------------------------------------------------------------------
(***************************************************************************)
(* Address changes: what a sequence of them may leave and whether it went  *)
(* through.  One notice stands for those of one handler, which queries the *)
(* kernel afresh for each of them.                                         *)
(***************************************************************************)
Outcome(addrs, ok) == [addrs |-> addrs, ok |-> ok]

\* Addresses are deleted one by one in any order until one is missing.
DeleteAll(have, gone) ==
  IF gone \subseteq have
  THEN {Outcome(have \ gone, TRUE)}
  ELSE {Outcome(have \ d, FALSE) : d \in SUBSET (gone \cap have)}

AddAll(have, new) == IF new \cap have = {} THEN Outcome(have \cup new, TRUE)
                     ELSE Outcome(have, FALSE)

\* A deletion that fails is not followed by the additions.
Change(have, gone, new) ==
  {IF r.ok THEN AddAll(r.addrs, new) ELSE r : r \in DeleteAll(have, gone)}

\* del_address and add_address on the link with an index.
AddressOutcomes(i, gone, new) ==
  IF LinkAt(i) # None THEN Change(kernel[LinkAt(i)].addrs, gone, new)
  ELSE {Outcome({}, gone = {} /\ new = {})}

WithAddrs(k, i, addrs) ==
  [n \in Name |-> IF n = LinkAt(i) THEN [k[n] EXCEPT !.addrs = addrs] ELSE k[n]]

AddressNotices(i, addrs) ==
  IF LinkAt(i) # None /\ kernel[LinkAt(i)].addrs # addrs THEN <<AddressNotice(i)>> ELSE <<>>

Modification == [op : {"NoChange", "Clear"}] \cup [op : {"Append", "Remove", "Replace"}, addr : Addr]

Deleted(mod, cached) ==
  CASE mod.op = "Remove"               -> {mod.addr}
    [] mod.op \in {"Clear", "Replace"} -> cached
    [] OTHER                           -> {}

Added(mod) == IF mod.op \in {"Append", "Replace"} THEN {mod.addr} ELSE {}

\* Switching on a link that is on, plugged or not, changes nothing.
SwitchTo(link, oper) ==
  IF oper = "Up" /\ link.oper # "Disabled" THEN link ELSE [link EXCEPT !.oper = oper]

\* ModLink: addresses, then the link status, the SLAAC flag, the DHCP policy in
\* the table and, last, config.toml; each of them may fail and ends the handler.
\* oper is "Up", "Disabled" or None and dhcpv4 is TRUE, FALSE or None, for no
\* change; slaac says whether the flag is to be set, flagged that it was.  The
\* table gets the new flag and, unlike the policy, no event says so.
ModLink(n, mod, oper, slaac, dhcpv4) ==
  /\ Request
  /\ table.interfaces[n] # None
  /\ LET info == table.interfaces[n]
     IN \E r \in AddressOutcomes(info.id, Deleted(mod, info.addrs), Added(mod)),
           flagged \in BOOLEAN :
          LET switch  == r.ok /\ oper # None /\ kernel[n] # None
              through == r.ok /\ (oper = None \/ kernel[n] # None)
              set     == through /\ (slaac => flagged) /\ dhcpv4 # None
              after   == IF set THEN [info EXCEPT !.dhcpv4 = dhcpv4] ELSE info
              addrs   == WithAddrs(kernel, info.id, r.addrs)
          IN /\ flagged => slaac /\ through /\ kernel[n] # None
             /\ kernel' = IF switch THEN [addrs EXCEPT ![n] = SwitchTo(@, oper)] ELSE addrs
             /\ netlink' = netlink \o AddressNotices(info.id, r.addrs)
                             \o (IF switch THEN <<NewLink(kernel[n].id)>> ELSE <<>>)
             /\ table' = IF flagged \/ after # info THEN Insert(table, after) ELSE table
             /\ \/ after # info /\ Broadcast(after)
                \/ after = info /\ UNCHANGED announced
                     /\ untold' \in IF flagged THEN {untold \ {n}, untold \cup {n}}
                                    ELSE {untold}
             /\ \/ set /\ config' = [config EXCEPT !.dhcpv4[n] = dhcpv4]
                \/ UNCHANGED config
  /\ UNCHANGED <<mailbox, pc, lease, alive>>

Router(l)  == IF l = None THEN None ELSE l.gateway
Address(l) == IF l = None THEN {} ELSE {l.ip}

\* Mutant of GatewayAfter: a lost lease leaves its gateway.
GatewayAfterLost(info, old, new) == IF new = None THEN info.gateway ELSE Router(new)

\* The gateway of an interface whose lease changes.
GatewayAfter(info, old, new) ==
  IF Router(old) = Router(new) THEN info.gateway ELSE Router(new)

\* A DHCP manager reports that its lease is now new (None: no lease).  The old
\* lease it names is the one it reported last, or None after its client has
\* been restarted.  The table gets the gateway before the kernel gets the
\* address, and only a change of gateway alone is broadcast from here.
DhcpV4Set(n, old, new) ==
  /\ Request
  /\ old \in {lease[n], None}
  /\ old # None \/ new # None
  /\ lease' = [lease EXCEPT ![n] = new]
  /\ LET info       == table.interfaces[n]
         rerouted   == Router(old) # Router(new)
         after      == [info EXCEPT !.gateway = GatewayAfter(info, old, new)]
     IN IF info = None
        THEN alive' = FALSE /\ UNCHANGED <<kernel, netlink, table, announced, untold>>
        ELSE /\ table' = IF rerouted THEN Insert(table, after) ELSE table
             /\ IF Address(old) # Address(new)
                THEN /\ \E r \in AddressOutcomes(info.id, Address(old), Address(new)) :
                          /\ kernel' = WithAddrs(kernel, info.id, r.addrs)
                          /\ netlink' = netlink \o AddressNotices(info.id, r.addrs)
                          /\ alive' = r.ok
                     /\ UNCHANGED <<announced, untold>>
                ELSE /\ IF rerouted THEN Broadcast(after) ELSE UNCHANGED <<announced, untold>>
                     /\ UNCHANGED <<kernel, netlink, alive>>
  /\ UNCHANGED <<mailbox, pc, config>>

SetState(n, state) ==
  LET info == [table.interfaces[n] EXCEPT !.state = state]
  IN table' = Update(table, info) /\ Broadcast(info)

\* A Wi-Fi status, told by NetworkDaemon: an error stops the actor.
UpdateExternalInterfaceState(n, state) ==
  /\ Request
  /\ IF table.interfaces[n] # None
     THEN SetState(n, state) /\ UNCHANGED alive
     ELSE alive' = FALSE /\ UNCHANGED <<table, announced, untold>>
  /\ UNCHANGED <<kernel, netlink, mailbox, pc, config, lease>>

MarkAsUnManaged(n) ==
  /\ Request
  /\ table.interfaces[n] # None
  /\ SetState(n, "Unmanaged")
  /\ UNCHANGED <<kernel, netlink, mailbox, pc, config, lease, alive>>
-------------------------------------------------------------------------------
(***************************************************************************)
(* Specification.  Wi-Fi states come from service.rs, which maps a status  *)
(* of wpa_supplicant to one of ExternalState.                              *)
(***************************************************************************)
ExternalState == {"Up", "Connected", "NoCarrier", "Disabled", "NotApplicable"}

Wlans == {n \in Name : TypeOf[n] = "Wlan"}

KernelChange ==
  \E n \in Name :
    \/ \E i \in Index, oper \in {"Up", "NoCarrier", "Disabled"} : LinkArrives(n, i, oper)
    \/ \E warned \in BOOLEAN : LinkDeparts(n, warned)
    \/ \E oper \in {"Up", "NoCarrier", "Disabled"} : OperChanges(n, oper)

ClientRequest ==
  \/ ForceRefresh
  \/ \E n \in Name :
       \/ \E i \in Index : AddLink(n, i)
       \/ DelLink(n)
       \/ \E mod \in Modification, oper \in {None, "Up", "Disabled"}, slaac \in BOOLEAN,
             dhcpv4 \in {None, TRUE, FALSE} : ModLink(n, mod, oper, slaac, dhcpv4)
       \/ MarkAsUnManaged(n)

ManagerRequest ==
  \/ \E n \in Name, old \in Lease \cup {None}, new \in Lease \cup {None} : DhcpV4Set(n, old, new)
  \/ \E n \in Wlans, state \in ExternalState : UpdateExternalInterfaceState(n, state)

Handle == HandleNetlink \/ Tell \/ HandleUpdate \/ HandleForceRefresh \/ Install

Next == KernelChange \/ ClientRequest \/ ManagerRequest \/ Forward \/ Handle

Spec == Init /\ [][Next]_vars

\* The stream task and the actor are tasks of the runtime: each runs on as long
\* as it has a message.
FairSpec == Spec /\ WF_vars(Forward) /\ WF_vars(Handle)

-------------------------------------------------------------------------------
(***************************************************************************)
(* Properties.                                                             *)
(***************************************************************************)

\* Types of all variables.
TypeOK ==
  /\ kernel \in [Name -> Link \cup {None}]
  /\ netlink \in Seq(Notice)
  /\ mailbox \in Seq(Message)
  /\ pc \in Continue
  /\ table \in Table(Info)
  /\ config \in [creation : SUBSET Logical, dhcpv4 : [Name -> BOOLEAN]]
  /\ announced \in [Name -> Info \cup {None}]
  /\ untold \in SUBSET Name
  /\ lease \in [Name -> Lease \cup {None}]
  /\ alive \in BOOLEAN
  /\ stimuli \in 0..MaxStimuli

\* Whatever order refreshes, notices and requests come in, also when the kernel
\* reuses an index before the old link's removal is handled, a lookup by index
\* is never answered with another index's interface and no listing misses an
\* interface (mod.rs uses get_by_index to tell a new link from a known one).
TableSound == IndexSound(table) /\ ListingsComplete(table)

Quiet == alive /\ netlink = <<>> /\ mailbox = <<>> /\ pc = Idle

\* When every notice has been handled, each link of the kernel is in the table
\* with its index and addresses, and with its state unless that is managed
\* elsewhere: no event is lost between queries, refreshes and self-sent updates
\* (mod.rs, the netlink stream's handler).
LiveLinksKnown ==
  Quiet => \A n \in Present(kernel) :
    LET info == table.interfaces[n]
    IN /\ info # None
       /\ info.id = kernel[n].id /\ info.addrs = kernel[n].addrs
       /\ info.state \in {StateOf(n, kernel[n]), "Unmanaged"} \/ n \in Wlans

\* When every notice has been handled, what the subscribers were last told of an
\* interface is what the table has in every field of Info, although several
\* changes of the table are not broadcast by the handler that makes them
\* (DhcpV4Set relies on the notice of its own address change).  It does not hold
\* of the SLAAC flag, of which no event and no notice speaks: FlagsTold.
SubscribersCurrent ==
  Quiet => \A n \in Name : table.interfaces[n] # None => announced[n] = table.interfaces[n]

\* A gateway in the table is the router of the lease last reported for the
\* interface: netlink updates carry it over, a lost or moved lease takes the old
\* one away, and an update that was queued before never brings it back
\* (mod.rs, DhcpV4Set and UpdateInterfaceInfo).  Every lease names a router; see
\* the README for leases that do not.
GatewayIsLeased ==
  \A n \in Name :
    (table.interfaces[n] # None /\ table.interfaces[n].gateway # None) =>
      lease[n] # None /\ lease[n].gateway = table.interfaces[n].gateway

\* A link that stays becomes known under its index, or the actor stops.
LinkBecomesKnown ==
  \A n \in Name, i \in Index :
    (kernel[n] # None /\ kernel[n].id = i) ~>
      \/ ~alive
      \/ kernel[n] = None \/ kernel[n].id # i
      \/ table.interfaces[n] # None /\ table.interfaces[n].id = i

\* A subscriber that was told of an interface is told when it is gone (the doc of
\* subscribe, mod.rs: "Subscribe to interface events").
RemovalsAnnounced ==
  Quiet => \A n \in Name : table.interfaces[n] = None => announced[n] = None

\* What does not hold: the SLAAC flag of the table is the one the subscribers were
\* last told (mod.rs:721, ModLink records it "so status/TUI reflect the state",
\* and broadcasts a change of the DHCP policy only).
FlagsTold == Quiet => untold = {}
===============================================================================
