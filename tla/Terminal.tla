------------------------------ MODULE Terminal ------------------------------
(***************************************************************************)
(* network-manager-tui: one thread that draws, polls and handles keys, and *)
(* its conversation with the daemon over one socket.  A key may start      *)
(* several requests; each waits for its reply, or for a read timeout after *)
(* which the reply still comes.  The daemon serves the requests in order,  *)
(* while other clients, DHCP, the kernel and the access points act on its  *)
(* state.  What it lists of an interface follows the kernel: it is behind  *)
(* until a notice is handled.                                              *)
(*                                                                         *)
(* Which control of a form has the focus is left out: every control can be *)
(* reached, so its key is enabled.  The only Wi-Fi interface is Wlan; a    *)
(* network's BSSID and identity are part of its name, and "Psk" stands for *)
(* every kind of security that needs a secret.  The addresses of an        *)
(* interface are a set; a form lists them in some order.                   *)
(***************************************************************************)
EXTENDS Naturals, Sequences, FiniteSets

CONSTANTS
  None,
  Device, Wlan,       \* names of interfaces, the one of the Wi-Fi interface among them
  Ssid,
  Lists4, Lists6,     \* lists of addresses that a form may hold
  LinksAtStart,       \* the configuration of the interfaces when the terminal starts
  ProfilesAtStart,    \* the networks that are known then
  MaxCommands,        \* keys that send a request or change a form
  MaxTroubles         \* what others do, requests that fail, replies that come after the read timeout

Network   == [ssid : Ssid, security : {"Open", "Psk"}]
Mode      == {"Automatic", "Manual", "Ignore"}
Addr(lists) == UNION {{l[i] : i \in DOMAIN l} : l \in lists}

\* The Wi-Fi interface is one of the interfaces, lists hold addresses, and what stands for
\* no change, for clearing or for the flags is neither an address nor a flag.
ASSUME TerminalAssumption ==
  /\ Wlan \in Device
  /\ Lists4 \subseteq Seq(Addr(Lists4)) /\ Lists6 \subseteq Seq(Addr(Lists6))
  /\ IsFiniteSet(Addr(Lists4)) /\ IsFiniteSet(Addr(Lists6))
  /\ {None, "Clear", "flags"} \cap (Addr(Lists4) \cup Addr(Lists6)) = {}
  /\ None # "Clear" /\ None \notin BOOLEAN /\ None \notin [dhcp : BOOLEAN, slaac : BOOLEAN]
  /\ ProfilesAtStart \subseteq Network
  /\ MaxCommands \in Nat /\ MaxTroubles \in Nat

\* What the daemon has of an interface, and what the kernel has.
Link      == [up : BOOLEAN, dhcp : BOOLEAN, slaac : BOOLEAN, v4 : SUBSET Addr(Lists4), v6 : SUBSET Addr(Lists6)]
Wire   == [up : BOOLEAN, v4 : SUBSET Addr(Lists4), v6 : SUBSET Addr(Lists6)]
NewLink   == [up |-> FALSE, dhcp |-> TRUE, slaac |-> FALSE, v4 |-> {}, v6 |-> {}]
InKernel(l) == [up |-> l.up, v4 |-> l.v4, v6 |-> l.v6]

ASSUME LinksAssumption == LinksAtStart \in [Device -> Link]

\* "Disconnected" stands for InterfaceDisabled, too; "Associating" for the states from
\* Scanning to GroupHandshake, in which wpa_supplicant tries; "Inactive" for Unknown, too.
Status    == [state : {"Disconnected", "Inactive", "Associating", "Completed"}, network : Network \cup {None}]
NoNetwork(state) == [state |-> state, network |-> None]
Trying(n) == [state |-> "Associating", network |-> n]
Inactive  == NoNetwork("Inactive")

VARIABLES
  screen, popup, interfaces, known, status,   \* App
  task,                                       \* the requests a key handler still has to make
  requests, replies,                          \* the socket
  links,                                      \* the interfaces as the daemon lists them
  kernel,                                     \* and as they are
  profiles, assoc, manager,                   \* the Wi-Fi interface
  exempt, taken,                              \* history, see Configured and ConnectingIsSelected
  commands, troubles, late

app    == <<screen, popup, interfaces, known, status, task>>
wifi   == <<profiles, assoc, manager>>
daemon == <<links, kernel, wifi, taken>>
bounds == <<commands, troubles, late>>
vars   == <<app, requests, replies, daemon, exempt, bounds>>

-------------------------------------------------------------------------------
(***************************************************************************)
(* Forms and popups.                                                       *)
(***************************************************************************)
Form == [device : Device, new : {"No", "Link", "Wlan"}, mode4 : Mode, v4 : Seq(Addr(Lists4)),
         mode6 : Mode, v6 : Seq(Addr(Lists6)), slaac : BOOLEAN]

NoPopup  == [kind |-> "None"]
Message  == [kind |-> "Message"]
Over(kind, target) == [kind |-> kind, target |-> target]
Editor(f, ns)      == [kind |-> "Editor", form |-> f, networks |-> ns]
Saved(f, ns)       == [kind |-> "SavedNetworks", form |-> f, networks |-> ns]
AccessPoint(f, ns, original) ==
  [kind |-> "AccessPointEditor", form |-> f, networks |-> ns, original |-> original]

Popup ==
  [kind : {"None", "Message", "NewConnection", "WirelessDevices"}]
    \cup [kind : {"BindBssid", "WifiCredentials", "Connecting"}, target : Network \cup {None}]
    \cup [kind : {"Editor", "SavedNetworks"}, form : Form, networks : SUBSET Network]
    \cup [kind : {"AccessPointEditor"}, form : Form, networks : SUBSET Network,
          original : Network \cup {None}]

Listed(addresses) ==
  CHOOSE l \in [1..Cardinality(addresses) -> addresses] : \A i, j \in DOMAIN l : l[i] = l[j] => i = j

FromInterface(d) ==
  LET i == interfaces[d]
  IN  [device |-> d, new |-> "No",
       mode4  |-> IF i.dhcp THEN "Automatic" ELSE "Manual",
       v4     |-> Listed(i.v4),
       mode6  |-> IF i.slaac THEN "Automatic" ELSE IF i.v6 = {} THEN "Ignore" ELSE "Manual",
       v6     |-> Listed(i.v6),
       slaac  |-> i.slaac]

FromNew(d, new) ==
  [device |-> d, new |-> new, mode4 |-> "Automatic", v4 |-> <<>>,
   mode6 |-> "Ignore", v6 |-> <<>>, slaac |-> FALSE]

\* One control of the form is changed: a choice, a checkbox or a list.
Edited(f) ==
  {[f EXCEPT !.mode4 = m] : m \in Mode} \cup {[f EXCEPT !.mode6 = m] : m \in Mode}
    \cup {[f EXCEPT !.v4 = l] : l \in Lists4} \cup {[f EXCEPT !.v6 = l] : l \in Lists6}
    \cup {[f EXCEPT !.slaac = ~@]}

-------------------------------------------------------------------------------
(***************************************************************************)
(* Requests.                                                               *)
(***************************************************************************)
NoChange == None

Ask(op, arg) == [op |-> op, arg |-> arg]

Modify(d, v4, v6, ip, up) ==
  Ask("ModLink", [device |-> d, v4 |-> v4, v6 |-> v6, ip |-> ip, up |-> up])

Invalid(f) == (f.mode4 = "Manual" /\ f.v4 = <<>>) \/ (f.mode6 = "Manual" /\ f.v6 = <<>>)

Modifications(mode, list) == IF mode = "Manual" THEN <<"Clear">> \o list ELSE <<"Clear">>

\* Mutant of InterfaceActions: as many requests as both lists have changes for.
InterfaceActionsShort(f) ==
  LET v4 == Modifications(f.mode4, f.v4)
      v6 == IF f.mode6 = "Automatic" THEN <<NoChange>> ELSE Modifications(f.mode6, f.v6)
  IN  [i \in 1..(IF Len(v4) < Len(v6) THEN Len(v4) ELSE Len(v6)) |->
         Modify(f.device, v4[i], v6[i],
                IF i = 1 THEN [dhcp |-> f.mode4 = "Automatic", slaac |-> f.slaac] ELSE NoChange,
                NoChange)]

\* interface_actions: the i-th request carries the i-th change of either list.
InterfaceActions(f) ==
  LET v4 == Modifications(f.mode4, f.v4)
      v6 == IF f.mode6 = "Automatic" THEN <<NoChange>> ELSE Modifications(f.mode6, f.v6)
      at(mods, i) == IF i \in DOMAIN mods THEN mods[i] ELSE NoChange
  IN  [i \in DOMAIN v4 \cup DOMAIN v6 |->
         Modify(f.device, at(v4, i), at(v6, i),
                IF i = 1 THEN [dhcp |-> f.mode4 = "Automatic", slaac |-> f.slaac] ELSE NoChange,
                NoChange)]

RefreshInterfaces == <<Ask("List", None)>>
RefreshWifi       == <<Ask("Status", None), Ask("Known", None)>>

\* refresh_wifi does nothing when no Wi-Fi interface is listed.
Due(todo, listed) ==
  IF todo # <<>> /\ Head(todo).op = "Status" /\ Wlan \notin listed THEN <<>> ELSE todo

\* Whether a handler gives up when the request fails; the others refresh what is shown.
Must(q) == q.op \notin {"List", "Status", "Known", "Poll"}

\* Mutant of Fits: an error passes for success, too.
FitsAnyway(q, r) ==
  CASE q.op \in {"List", "Check"} -> r.shape = "InfoList"
    [] q.op \in {"Status", "Poll"} -> r.shape = "Status"
    [] q.op = "Known" -> r.shape = "KnownNetworks"
    [] OTHER -> TRUE

\* Any reply but an error passes for the success of most requests (App::request).
Fits(q, r) ==
  CASE q.op \in {"List", "Check"} -> r.shape = "InfoList"
    [] q.op \in {"Status", "Poll"} -> r.shape = "Status"
    [] q.op = "Known" -> r.shape = "KnownNetworks"
    [] q.op = "AddLink" -> r.shape = "Success"
    [] q.op = "Devices" -> r.shape = "WirelessDevices"
    [] q.op \in {"GetHostname", "SetHostname"} -> r.shape = "Hostname"
    [] OTHER -> r.shape # "Error"

-------------------------------------------------------------------------------
(***************************************************************************)
(* Key handlers and the replies they wait for.                             *)
(***************************************************************************)
Idle == [todo |-> <<>>, after |-> NoPopup, goal |-> None]

\* Mutant of Free: keys are handled while a reply is awaited.
FreeWhileBusy == commands < MaxCommands

Free == task.todo = <<>> /\ commands < MaxCommands

First(todo) == IF todo = <<>> THEN <<>> ELSE <<Head(todo)>>

\* A handler sends the first of the requests `todo`; once those that must succeed have,
\* it shows `after`.
Handle(todo, after, goal) ==
  LET due == Due(todo, DOMAIN interfaces)
  IN  /\ task' = IF due = <<>> THEN Idle ELSE [todo |-> due, after |-> after, goal |-> goal]
      /\ requests' = requests \o First(due)
      /\ exempt' = {}
      /\ UNCHANGED <<interfaces, known, status, replies, daemon, troubles, late>>

Starts(todo, after) == Free /\ commands' = commands + 1 /\ Handle(todo, after, None)

Shows(p) ==
  /\ task.todo = <<>> /\ popup' = p
  /\ UNCHANGED <<screen, interfaces, known, status, task, requests, replies, daemon, exempt, bounds>>

\* The reply `r` to the request that is awaited.
Continue(r) ==
  LET q     == Head(task.todo)
      ok    == Fits(q, r)
      list  == IF ok /\ q.op \in {"List", "Check"} THEN r.data ELSE interfaces
      nets  == IF ok /\ q.op = "Known" THEN r.data ELSE known
      fails == \/ Must(q) /\ ~ok
               \/ q.op = "Check" /\ q.arg \notin DOMAIN list
      done  == Must(q) /\ \A i \in 2..Len(task.todo) : ~Must(task.todo[i])
      joined == q.op = "Poll" /\ ok /\ r.data.state = "Completed"
      rest  == IF fails THEN <<>>
               ELSE IF joined THEN RefreshInterfaces
               ELSE Due(Tail(task.todo), DOMAIN list)
      shown == IF fails \/ (q.op = "List" /\ ~ok) \/ (q.op = "Poll" /\ ok /\ r.data.state = "Disconnected")
               THEN Message
               ELSE IF done THEN task.after ELSE IF joined THEN NoPopup ELSE popup
  IN  /\ interfaces' = list
      /\ known' = nets
      /\ status' = IF ok /\ (q.op = "Status" \/ joined) THEN r.data ELSE status
      /\ screen' = IF q.op = "SetHostname" /\ ok THEN "MainMenu" ELSE screen
      /\ popup' = IF rest = <<>> /\ shown.kind = "SavedNetworks"
                  THEN [shown EXCEPT !.networks = nets] ELSE shown
      /\ task' = IF rest = <<>> THEN Idle
                 ELSE IF done THEN [Idle EXCEPT !.todo = rest] ELSE [task EXCEPT !.todo = rest]
      /\ requests' = requests \o First(rest)

Answered ==
  /\ task.todo # <<>> /\ replies # <<>>
  /\ Continue(Head(replies)) /\ replies' = Tail(replies)
  /\ UNCHANGED <<daemon, exempt, bounds>>

Trouble == troubles < MaxTroubles /\ troubles' = troubles + 1

\* The read times out; the daemon serves the request all the same.
TimedOut ==
  /\ task.todo # <<>> /\ replies = <<>> /\ Trouble
  /\ Continue([shape |-> "Error", data |-> None]) /\ late' = late + 1
  /\ UNCHANGED <<replies, daemon, exempt, commands>>

-------------------------------------------------------------------------------
(***************************************************************************)
(* The main menu and the list of connections to edit.                      *)
(***************************************************************************)
OpenEditConnections ==
  /\ screen = "MainMenu" /\ popup.kind = "None"
  /\ Starts(RefreshInterfaces, NoPopup)
  /\ screen' = "EditConnections" /\ popup' = popup

OpenActivateConnections ==
  /\ screen = "MainMenu" /\ popup.kind = "None"
  /\ Starts(RefreshInterfaces \o RefreshWifi, NoPopup)
  /\ screen' = "ActivateConnections" /\ popup' = popup

OpenHostname ==
  /\ screen = "MainMenu" /\ popup.kind = "None"
  /\ Starts(<<Ask("GetHostname", None)>>, NoPopup)
  /\ screen' = "Hostname" /\ popup' = popup

SaveHostname ==
  /\ screen = "Hostname" /\ popup.kind = "None"
  /\ Starts(<<Ask("SetHostname", None)>>, NoPopup)
  /\ UNCHANGED <<screen, popup>>

Back ==
  /\ screen # "MainMenu" /\ popup.kind = "None" /\ task.todo = <<>>
  /\ screen' = "MainMenu"
  /\ UNCHANGED <<popup, interfaces, known, status, task, requests, replies, daemon, exempt, bounds>>

OpenEditor(d) ==
  /\ screen = "EditConnections" /\ popup.kind = "None" /\ d \in DOMAIN interfaces
  /\ Shows(Editor(FromInterface(d), known))

DeleteLink(d) ==
  /\ screen = "EditConnections" /\ popup.kind = "None" /\ d \in DOMAIN interfaces
  /\ Starts(<<Ask("DelLink", d)>> \o RefreshInterfaces, NoPopup)
  /\ UNCHANGED <<screen, popup>>

NewConnection ==
  /\ screen = "EditConnections" /\ popup.kind = "None"
  /\ Shows([kind |-> "NewConnection"])

\* The name proposed for a new interface is one that is not listed.
CreateConnection ==
  /\ popup.kind = "NewConnection"
  /\ \E d \in Device \ (DOMAIN interfaces \cup {Wlan}) : Shows(Editor(FromNew(d, "Link"), {}))

CreateWifi ==
  /\ popup.kind = "NewConnection"
  /\ Starts(<<Ask("Devices", None)>>, [kind |-> "WirelessDevices"])
  /\ popup' = NoPopup /\ UNCHANGED screen

SelectWirelessDevice ==
  /\ popup.kind = "WirelessDevices" /\ Wlan \notin DOMAIN interfaces
  /\ Shows(Editor(FromNew(Wlan, "Wlan"), {}))

-------------------------------------------------------------------------------
(***************************************************************************)
(* The editor of a connection and its saved networks.                      *)
(***************************************************************************)
EditForm ==
  /\ popup.kind = "Editor" /\ Free /\ commands' = commands + 1
  /\ \E f \in Edited(popup.form) \ {popup.form} : popup' = [popup EXCEPT !.form = f]
  /\ UNCHANGED <<screen, interfaces, known, status, task, requests, replies, daemon, exempt,
                 troubles, late>>

Creation(f) ==
  CASE f.new = "No"   -> <<>>
    [] f.new = "Link" -> <<Ask("AddLink", f.device)>>
    [] f.new = "Wlan" -> <<Ask("AddLink", f.device), Ask("Check", f.device)>>

SaveEditor ==
  LET f == popup.form
  IN  /\ popup.kind = "Editor" /\ ~Invalid(f)
      /\ Free /\ commands' = commands + 1
      /\ Handle(Creation(f) \o InterfaceActions(f)
                  \o (IF f.new = "Wlan" THEN <<>> ELSE RefreshInterfaces)
                  \o (IF f.device = Wlan THEN RefreshWifi ELSE <<>>), NoPopup, f)
      /\ popup' = NoPopup /\ UNCHANGED screen

RefuseForm == popup.kind = "Editor" /\ Invalid(popup.form) /\ Shows(Message)

OpenSavedNetworks ==
  /\ popup.kind = "Editor" /\ popup.form.device = Wlan /\ popup.form.new = "No"
  /\ Shows(Saved(popup.form, popup.networks))

DeleteSavedNetwork ==
  /\ popup.kind = "SavedNetworks"
  /\ \E n \in popup.networks : Starts(<<Ask("RemoveNetwork", n)>> \o RefreshWifi, popup)
  /\ popup' = NoPopup /\ UNCHANGED screen

OpenAccessPointEditor ==
  /\ popup.kind = "SavedNetworks"
  /\ \E n \in popup.networks \cup {None} : Shows(AccessPoint(popup.form, popup.networks, n))

\* A profile whose name changes is removed and added again.  Only a new profile must
\* bring its secret.
SaveAccessPoint ==
  /\ popup.kind = "AccessPointEditor"
  /\ \E n \in Network, secret \in BOOLEAN :
       /\ popup.original = None /\ n.security = "Psk" => secret
       /\ Starts((IF popup.original \in {None, n} THEN <<>>
                  ELSE <<Ask("RemoveNetwork", popup.original)>>)
                   \o <<Ask("AddNetwork", [network |-> n, secret |-> secret])>>
                   \o RefreshWifi, Saved(popup.form, popup.networks))
  /\ popup' = NoPopup /\ UNCHANGED screen

RefuseAccessPoint == popup.kind = "AccessPointEditor" /\ Shows(Message)

-------------------------------------------------------------------------------
(***************************************************************************)
(* The list of connections to activate.                                    *)
(***************************************************************************)
Activating == screen = "ActivateConnections" /\ popup.kind = "None"

ActivateInterface(d) ==
  /\ Activating /\ d \in DOMAIN interfaces \ {Wlan}
  /\ Starts(<<Modify(d, NoChange, NoChange, NoChange, ~interfaces[d].up)>>
              \o RefreshInterfaces, NoPopup)
  /\ UNCHANGED <<screen, popup>>

Rescan == Activating /\ Starts(RefreshWifi, NoPopup) /\ UNCHANGED <<screen, popup>>

\* is_current_wifi_target
IsCurrent(n) ==
  /\ status.state = "Completed" /\ status.network # None
  /\ n # None /\ status.network.ssid = n.ssid

\* The networks in range are all there are, and one that hides its name (None).
DisconnectWifi ==
  /\ Activating /\ Wlan \in DOMAIN interfaces /\ \E n \in Network : IsCurrent(n)
  /\ Starts(<<Ask("Disconnect", None)>> \o RefreshWifi, NoPopup)
  /\ UNCHANGED <<screen, popup>>

OpenWifiConnection ==
  /\ Activating /\ Wlan \in DOMAIN interfaces
  /\ \E n \in Network \cup {None} : ~IsCurrent(n) /\ Shows(Over("BindBssid", n))

StartWifi(n, secret, hidden) ==
  /\ Starts((IF n \notin known \/ secret \/ hidden
             THEN <<Ask("AddNetwork", [network |-> n, secret |-> secret])>> ELSE <<>>)
              \o <<Ask("Connect", n)>>, Over("Connecting", n))
  /\ popup' = NoPopup /\ UNCHANGED screen

\* start_wifi asks for what it needs to know of a network.
NeedsCredentials(n) == n = None \/ (n \notin known /\ n.security = "Psk")

AnswerBindPrompt ==
  /\ popup.kind = "BindBssid"
  /\ IF NeedsCredentials(popup.target) THEN Shows(Over("WifiCredentials", popup.target))
     ELSE StartWifi(popup.target, FALSE, FALSE)

\* A hidden network is named here; the security of any can be chosen.  A form that does
\* not validate gives a message.
SubmitCredentials ==
  /\ popup.kind = "WifiCredentials"
  /\ \/ \E n \in Network :
          /\ popup.target # None => n.ssid = popup.target.ssid
          /\ StartWifi(n, n.security = "Psk", popup.target = None)
     \/ Shows(Message)

\* App::tick, twice a second.
PollConnecting ==
  /\ popup.kind = "Connecting" /\ task.todo = <<>>
  /\ Handle(<<Ask("Poll", None)>>, NoPopup, None)
  /\ UNCHANGED <<screen, popup, commands>>

\* Esc, Cancel and Back, or Enter on a message.
Cancel ==
  \/ popup.kind = "SavedNetworks" /\ Shows(Editor(popup.form, popup.networks))
  \/ popup.kind = "AccessPointEditor" /\ Shows(Saved(popup.form, popup.networks))
  \/ popup.kind \notin {"None", "SavedNetworks", "AccessPointEditor"} /\ Shows(NoPopup)

-------------------------------------------------------------------------------
(***************************************************************************)
(* The daemon, which answers every request with one line.                  *)
(***************************************************************************)
Reply(shape, data) ==
  /\ requests' = Tail(requests)
  /\ replies' = Append(replies, [shape |-> shape, data |-> data])
  /\ UNCHANGED <<app, commands, late>>

OfWifi(q) == q.op \in {"Status", "Poll", "Known", "AddNetwork", "RemoveNetwork", "Connect", "Disconnect"}

Query(q) ==
  /\ UNCHANGED <<daemon, exempt, troubles>>
  /\ \/ q.op \in {"List", "Check"} /\ Reply("InfoList", links)
     \/ q.op \in {"Status", "Poll"} /\ manager = "up" /\ Reply("Status", assoc)
     \/ q.op = "Known" /\ manager = "up" /\ Reply("KnownNetworks", profiles)
     \/ q.op = "Devices" /\ Reply("WirelessDevices", None)
     \/ q.op \in {"GetHostname", "SetHostname"} /\ Reply("Hostname", None)

With(f, d, l) == [e \in DOMAIN f \cup {d} |-> IF e = d THEN l ELSE f[e]]
Without(f, d) == [e \in DOMAIN f \ {d} |-> f[e]]

\* What the daemon lists of an interface once it has heard of its last change.
Heard(d, k) ==
  LET l == IF d \in DOMAIN links THEN links[d] ELSE NewLink
  IN  [l EXCEPT !.up = k.up, !.v4 = k.v4, !.v6 = k.v6]

\* An interface is cleared of the addresses that the daemon lists.
Changed(list, listed, mod) ==
  CASE mod = NoChange -> list
    [] mod = "Clear"  -> list \ listed
    [] OTHER          -> list \cup {mod}

\* The kernel refuses an address that the interface has, and to delete one it has not.
Addable(list, listed, mod) == IF mod = "Clear" THEN listed \subseteq list ELSE mod \notin list

\* InterfaceManagerAction::ModLink.  The kernel is changed in this order, then the flags.
Modified(k, l, m) ==
  [up |-> IF m.up = NoChange THEN k.up ELSE m.up,
   v4 |-> Changed(k.v4, l.v4, m.v4),
   v6 |-> Changed(k.v6, l.v6, m.v6)]

Flagged(l, m) == IF m.ip = NoChange THEN l ELSE [l EXCEPT !.dhcp = m.ip.dhcp, !.slaac = m.ip.slaac]

\* What clearing leaves because it is not listed yet.
Missed(k, l, m) ==
  (IF m.v4 = "Clear" THEN k.v4 \ l.v4 ELSE {}) \cup (IF m.v6 = "Clear" THEN k.v6 \ l.v6 ELSE {})

\* What the daemon can do of what it is asked.  A profile that needs a secret is refused
\* unless the request or the profile has one.
Possible(q) ==
  CASE q.op = "AddLink" -> q.arg \notin DOMAIN kernel
    [] q.op = "DelLink" -> q.arg \in DOMAIN kernel \cap DOMAIN links
    [] q.op = "ModLink" ->
         /\ q.arg.device \in DOMAIN kernel \cap DOMAIN links
         /\ Addable(kernel[q.arg.device].v4, links[q.arg.device].v4, q.arg.v4)
         /\ Addable(kernel[q.arg.device].v6, links[q.arg.device].v6, q.arg.v6)
    [] q.op = "AddNetwork" ->
         /\ manager = "up"
         /\ q.arg.network \in profiles \/ q.arg.secret \/ q.arg.network.security = "Open"
    [] q.op \in {"RemoveNetwork", "Connect"} -> manager = "up" /\ q.arg \in profiles
    [] OTHER -> OfWifi(q) => manager = "up"

\* A refresh gives the Wi-Fi interface a new manager, which loads what is stored, or
\* cannot start beside the process of the old one.
Restarted ==
  \/ manager' = "up" /\ profiles' \in SUBSET Network /\ assoc' = Inactive
  \/ manager' = "gone" /\ UNCHANGED profiles /\ assoc' = Inactive

\* The manager of an interface that is gone stays, unless its process gives up.
Orphaned(d) ==
  IF d # Wlan THEN UNCHANGED wifi
  ELSE manager' \in {manager, "gone"} /\ assoc' = NoNetwork("Disconnected") /\ UNCHANGED profiles

AddLink(d) ==
  /\ kernel' = With(kernel, d, InKernel(NewLink))
  /\ links' = [e \in DOMAIN kernel' |-> Heard(e, kernel'[e])]
  /\ IF Wlan \in DOMAIN kernel' THEN Restarted ELSE UNCHANGED wifi

\* The link is gone, and listed until netlink says so.
DelLink(d) == kernel' = Without(kernel, d) /\ Orphaned(d) /\ UNCHANGED links

ModLink(m) ==
  LET k == kernel[m.device]
      l == links[m.device]
  IN  /\ kernel' = With(kernel, m.device, Modified(k, l, m))
      /\ links' = With(links, m.device, Flagged(l, m))
      /\ exempt' = exempt \cup Missed(k, l, m)
      /\ UNCHANGED wifi

ChangeLink(q) ==
  /\ Possible(q)
  /\ \/ q.op = "AddLink" /\ AddLink(q.arg) /\ UNCHANGED exempt
     \/ q.op = "DelLink" /\ DelLink(q.arg) /\ UNCHANGED exempt
     \/ q.op = "ModLink" /\ ModLink(q.arg)
  /\ Reply("Success", None) /\ UNCHANGED <<taken, troubles>>

\* The process takes a network out that it may have selected.
Forgotten(n) ==
  IF assoc.network = n THEN assoc' \in {Inactive, NoNetwork("Disconnected")} ELSE UNCHANGED assoc

ChangeWifi(q) ==
  /\ Possible(q)
  /\ \/ /\ q.op = "AddNetwork"
        /\ profiles' = profiles \cup {q.arg.network} /\ Forgotten(q.arg.network) /\ UNCHANGED taken
     \/ /\ q.op = "RemoveNetwork"
        /\ profiles' = profiles \ {q.arg} /\ Forgotten(q.arg) /\ UNCHANGED taken
     \/ /\ q.op = "Connect"
        /\ assoc' = Trying(q.arg) /\ taken' = FALSE /\ UNCHANGED profiles
     \/ /\ q.op = "Disconnect"
        /\ assoc' = NoNetwork("Disconnected") /\ UNCHANGED <<profiles, taken>>
  /\ Reply("Done", None) /\ UNCHANGED <<links, kernel, manager, exempt, troubles>>

\* Mutant of Refuse: the error is not answered.
RefuseSilently(q) ==
  /\ IF Possible(q) THEN Trouble ELSE UNCHANGED troubles
  /\ requests' = Tail(requests)
  /\ UNCHANGED <<daemon, exempt, replies, app, commands, late>>

\* A change of addresses that fails on the way.
Begun(list, listed, mod) == IF mod = "Clear" THEN {list \ s : s \in SUBSET (list \cap listed)} ELSE {list}

\* How far a change of an interface that fails may have come.
ModLinkFails(m) ==
  LET k == kernel[m.device]
      l == links[m.device]
      done == Modified(k, l, m)
      flags == Flagged(l, m)
  IN  \E ends \in Wire, shown \in {l, [l EXCEPT !.slaac = flags.slaac], flags} :
        /\ \/ \E v4 \in Begun(k.v4, l.v4, m.v4) : ends = [k EXCEPT !.v4 = v4] /\ shown = l
           \/ /\ Addable(k.v4, l.v4, m.v4) /\ shown = l
              /\ \E v6 \in Begun(k.v6, l.v6, m.v6) : ends = [k EXCEPT !.v4 = done.v4, !.v6 = v6]
           \/ /\ Addable(k.v4, l.v4, m.v4) /\ Addable(k.v6, l.v6, m.v6)
              /\ ends = done \/ (shown = l /\ ends = [done EXCEPT !.up = k.up])
        /\ kernel' = With(kernel, m.device, ends)
        /\ links' = With(links, m.device, shown)

\* What a request that fails has changed.
Partly(q) ==
  \/ UNCHANGED <<links, kernel, wifi>>
  \/ /\ q.op = "ModLink" /\ q.arg.device \in DOMAIN kernel \cap DOMAIN links
     /\ ModLinkFails(q.arg) /\ UNCHANGED wifi
  \/ q.op = "AddLink" /\ Possible(q) /\ kernel' = With(kernel, q.arg, InKernel(NewLink)) /\ UNCHANGED <<links, wifi>>
  \/ q.op = "DelLink" /\ Possible(q) /\ DelLink(q.arg)
  \/ /\ q.op = "RemoveNetwork" /\ Possible(q)
     /\ profiles' = profiles \ {q.arg} /\ UNCHANGED <<links, kernel, assoc, manager>>
  \/ /\ q.op = "Connect" /\ Possible(q)
     /\ assoc' \in {Inactive, Trying(q.arg)} /\ UNCHANGED <<links, kernel, profiles, manager>>

\* What cannot be done is answered with an error, and anything may be.
Refuse(q) ==
  /\ IF Possible(q) THEN Trouble ELSE UNCHANGED troubles
  /\ Partly(q)
  /\ Reply("Error", None) /\ UNCHANGED <<exempt, taken>>

\* A manager that is blocked by its process does not answer.
Serve ==
  /\ requests # <<>> /\ (OfWifi(Head(requests)) => manager # "blocked")
  /\ \/ Query(Head(requests)) \/ ChangeLink(Head(requests)) \/ ChangeWifi(Head(requests))
     \/ Refuse(Head(requests))

-------------------------------------------------------------------------------
(***************************************************************************)
(* What happens to the daemon besides.                                     *)
(***************************************************************************)
Unasked == UNCHANGED <<app, requests, replies, commands, late>>

Change == Trouble /\ Unasked

\* A notice of the kernel is handled.
Notice(d) ==
  /\ links' = IF d \in DOMAIN kernel THEN With(links, d, Heard(d, kernel[d])) ELSE Without(links, d)
  /\ links' # links
  /\ Unasked /\ UNCHANGED <<kernel, wifi, taken, exempt, troubles>>

Unplug(d) ==
  /\ Change /\ d \in DOMAIN kernel
  /\ kernel' = Without(kernel, d) /\ Orphaned(d)
  /\ UNCHANGED <<links, taken, exempt>>

\* What others do to the interface that is being saved.
Besides(d, part) ==
  exempt' = IF task.goal # None /\ task.goal.device = d THEN exempt \cup {part} ELSE exempt

Toggled(list, a) == IF a \in list THEN list \ {a} ELSE list \cup {a}

\* An address comes or goes: with a lease (DhcpV4Set), also one of a DHCP manager that is
\* about to stop, or by another client or program.  Or another client changes a flag.
Reconfigure(d) ==
  /\ Change /\ d \in DOMAIN kernel
  /\ \/ \E a \in Addr(Lists4) :
          /\ kernel' = [kernel EXCEPT ![d].v4 = Toggled(@, a)] /\ Besides(d, a) /\ UNCHANGED links
     \/ \E a \in Addr(Lists6) :
          /\ kernel' = [kernel EXCEPT ![d].v6 = Toggled(@, a)] /\ Besides(d, a) /\ UNCHANGED links
     \/ /\ d \in DOMAIN links
        /\ links' = [links EXCEPT ![d].dhcp = ~@] /\ Besides(d, "flags") /\ UNCHANGED kernel
  /\ UNCHANGED <<wifi, taken>>

\* The requests of another client for the Wi-Fi interface.
Elsewhere(n) ==
  /\ Change /\ manager = "up"
  /\ \/ profiles' = profiles \cup {n} /\ Forgotten(n) /\ UNCHANGED taken
     \/ n \in profiles /\ profiles' = profiles \ {n} /\ Forgotten(n) /\ UNCHANGED taken
     \/ n \in profiles /\ assoc' = Trying(n) /\ taken' = TRUE /\ UNCHANGED profiles
     \/ assoc' = NoNetwork("Disconnected") /\ UNCHANGED <<profiles, taken>>
  /\ UNCHANGED <<links, kernel, manager, exempt>>

\* The backend ends, and a new one, which knows no network, takes its place; or the
\* manager gives up; or its process does not answer any more.
BackendEnds ==
  /\ Change /\ manager = "up"
  /\ \/ profiles' = {} /\ assoc' = Inactive /\ UNCHANGED manager
     \/ manager' \in {"gone", "blocked"} /\ UNCHANGED <<profiles, assoc>>
  /\ UNCHANGED <<links, kernel, taken, exempt>>

\* An association succeeds or fails, and is tried again; an access point may go away.
Associate ==
  /\ assoc.network # None
  /\ assoc' \in {[assoc EXCEPT !.state = s] :
                   s \in IF assoc.state = "Associating" THEN {"Completed", "Disconnected"} ELSE {"Associating"}}
  /\ Unasked /\ UNCHANGED <<links, kernel, profiles, manager, taken, exempt, troubles>>

-------------------------------------------------------------------------------
Init ==
  /\ screen = "MainMenu" /\ popup = NoPopup
  /\ links = LinksAtStart /\ interfaces = links /\ kernel = [d \in Device |-> InKernel(LinksAtStart[d])]
  /\ profiles = ProfilesAtStart /\ known = {} /\ assoc = Inactive /\ status = Inactive /\ manager = "up"
  /\ exempt = {} /\ taken = FALSE
  /\ task = Idle /\ requests = <<>> /\ replies = <<>>
  /\ commands = 0 /\ troubles = 0 /\ late = 0

Key ==
  \/ OpenEditConnections \/ OpenActivateConnections \/ OpenHostname \/ SaveHostname \/ Back
  \/ \E d \in Device : OpenEditor(d) \/ DeleteLink(d) \/ ActivateInterface(d)
  \/ NewConnection \/ CreateConnection \/ CreateWifi \/ SelectWirelessDevice
  \/ EditForm \/ SaveEditor \/ RefuseForm
  \/ OpenSavedNetworks \/ DeleteSavedNetwork \/ OpenAccessPointEditor
  \/ SaveAccessPoint \/ RefuseAccessPoint
  \/ Rescan \/ DisconnectWifi \/ OpenWifiConnection \/ AnswerBindPrompt \/ SubmitCredentials
  \/ Cancel

Next ==
  \/ Key \/ PollConnecting \/ Answered \/ TimedOut \/ Serve
  \/ \E d \in Device : Notice(d) \/ Unplug(d) \/ Reconfigure(d)
  \/ \E n \in Network : Elsewhere(n)
  \/ BackendEnds \/ Associate

Spec == Init /\ [][Next]_vars

\* The event loop goes on polling, and the daemon serves what it is sent.
FairSpec == Spec /\ WF_vars(PollConnecting) /\ WF_vars(Answered) /\ WF_vars(Serve)

-------------------------------------------------------------------------------
(***************************************************************************)
(* Properties.                                                             *)
(***************************************************************************)
\* All values have their types; at most one reply more than the late ones is under way.
TypeOK ==
  /\ screen \in {"MainMenu", "EditConnections", "ActivateConnections", "Hostname"}
  /\ popup \in Popup
  /\ DOMAIN interfaces \subseteq Device /\ \A d \in DOMAIN interfaces : interfaces[d] \in Link
  /\ DOMAIN links \subseteq Device /\ \A d \in DOMAIN links : links[d] \in Link
  /\ DOMAIN kernel \subseteq Device /\ \A d \in DOMAIN kernel : kernel[d] \in Wire
  /\ known \subseteq Network /\ profiles \subseteq Network
  /\ status \in Status /\ assoc \in Status /\ manager \in {"up", "blocked", "gone"}
  /\ exempt \subseteq Addr(Lists4) \cup Addr(Lists6) \cup {"flags"} /\ taken \in BOOLEAN
  /\ task.after \in Popup /\ task.goal \in Form \cup {None}
  /\ Len(requests) + Len(replies) = late + (IF task.todo = <<>> THEN 0 ELSE 1)
  /\ commands \in 0..MaxCommands /\ troubles \in 0..MaxTroubles /\ late \in Nat

\* A form whose saving ended without a message is what the interface has: no address of
\* it is dropped (the test editor_saves_all_manual_addresses_without_dropping_values) and
\* none of before is left, whatever requests the saving took.  Exempt are what others
\* have changed of the interface meanwhile, a lease among them, and addresses that the
\* daemon did not list yet when it was to clear them.
Same(list, wanted) == list \ exempt = wanted \ exempt

Elements(list) == {list[i] : i \in DOMAIN list}

Configured(f) ==
  f.device \in DOMAIN links \cap DOMAIN kernel =>
    LET l == links[f.device]
        k == kernel[f.device]
    IN  /\ "flags" \notin exempt => l.dhcp = (f.mode4 = "Automatic") /\ l.slaac = f.slaac
        /\ Same(k.v4, IF f.mode4 = "Manual" THEN Elements(f.v4) ELSE {})
        /\ f.mode6 # "Automatic" => Same(k.v6, IF f.mode6 = "Manual" THEN Elements(f.v6) ELSE {})

SavedAsShown ==
  [][(late = 0 /\ task.goal # None /\ task'.goal = None /\ popup'.kind = "None")
       => Configured(task.goal)]_vars

\* The user is told that a connection is being made only when the daemon has taken the
\* request for it: a network that was forgotten since the list was made, or one the
\* daemon refuses, is reported as a failure.  No other network is selected while the
\* popup is open, unless another client has one selected after that request.
ConnectingIsSelected ==
  (late = 0 /\ popup.kind = "Connecting" /\ ~taken) => assoc.network \in {popup.target, None}

\* The popup of a connection closes by itself once it is decided how the association
\* ends: it does not stay open for ever unless wpa_supplicant goes on trying, or has
\* nothing to try (Inactive), again and again, or its manager does not answer.
Decided == manager = "up" /\ assoc.state \in {"Completed", "Disconnected"}

ConnectingEnds == []<>(popup.kind # "Connecting") \/ []<>~Decided
===============================================================================
