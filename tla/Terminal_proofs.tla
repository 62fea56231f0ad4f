---------------------------- MODULE Terminal_proofs ----------------------------
(***************************************************************************)
(* What the terminal client shows is what the daemon has: types, the       *)
(* network a connection is made to, and the saving of a form.              *)
(*                                                                         *)
(* The inductive invariant Inv has four parts.  With no late reply the one *)
(* request that is awaited is the first of the task (AwaitedInv), so that  *)
(* every reply is the answer to it.  A connection is shown once the daemon *)
(* has granted the request for it (SelectedInv).  What remains of a save   *)
(* is j requests that create the interface, the modifications after the    *)
(* k-th, and queries; the kernel and the daemon have what k modifications  *)
(* make of the interface (SavingInv), whatever the lengths of the lists    *)
(* and whatever others do, but for what the history variable exempts.      *)
(***************************************************************************)
EXTENDS Terminal, SequenceTheorems, FiniteSetTheorems, TLAPS

-------------------------------------------------------------------------------
(***************************************************************************)
(* Types.                                                                  *)
(***************************************************************************)
Links == UNION {[D -> Link] : D \in SUBSET Device}

Wires == UNION {[D -> Wire] : D \in SUBSET Device}

Changes(lists) == Addr(lists) \cup {NoChange, "Clear"}

Modification ==
  [device : Device, v4 : Changes(Lists4), v6 : Changes(Lists6),
   ip : [dhcp : BOOLEAN, slaac : BOOLEAN] \cup {NoChange}, up : BOOLEAN \cup {NoChange}]

RequestType ==
  [op : {"List", "Status", "Known", "Poll", "Devices", "GetHostname", "SetHostname", "Disconnect"}, arg : {None}]
    \cup [op : {"AddLink", "DelLink", "Check"}, arg : Device]
    \cup [op : {"ModLink"}, arg : Modification]
    \cup [op : {"AddNetwork"}, arg : [network : Network, secret : BOOLEAN]]
    \cup [op : {"RemoveNetwork", "Connect"}, arg : Network]

ReplyType ==
  [shape : {"InfoList"}, data : Links] \cup [shape : {"Status"}, data : Status]
    \cup [shape : {"KnownNetworks"}, data : SUBSET Network]
    \cup [shape : {"WirelessDevices", "Hostname", "Success", "Done", "Error"}, data : {None}]

TaskType == [todo : Seq(RequestType), after : Popup, goal : Form \cup {None}]

TypesInv ==
  /\ TypeOK
  /\ interfaces \in Links /\ links \in Links /\ kernel \in Wires
  /\ task \in TaskType /\ requests \in Seq(RequestType) /\ replies \in Seq(ReplyType)

(***************************************************************************)
(* With no late reply under way the one request that is awaited is the     *)
(* first of the task.                                                      *)
(***************************************************************************)
AwaitedInv ==
  late = 0 =>
    IF task.todo = <<>> THEN requests = <<>> /\ replies = <<>>
    ELSE \/ requests = <<Head(task.todo)>> /\ replies = <<>>
         \/ requests = <<>> /\ Len(replies) = 1

\* The awaited request was granted.
Granted == task.todo # <<>> /\ replies # <<>> /\ Fits(Head(task.todo), Head(replies))

\* A connection is shown once the daemon has taken it on.
SelectedInv ==
  late = 0 =>
    /\ popup.kind = "Connecting" =>
         /\ taken \/ assoc.network \in {popup.target, None}
         /\ task.todo \in {<<>>, <<Ask("Poll", None)>>} /\ task.after = NoPopup
    /\ task.after.kind = "Connecting" =>
         /\ Len(task.todo) \in {1, 2} /\ task.todo[Len(task.todo)] = Ask("Connect", task.after.target)
         /\ Len(task.todo) = 2 => task.todo[1].op = "AddNetwork"
         /\ Len(task.todo) = 1 /\ Granted => taken \/ assoc.network \in {task.after.target, None}

(***************************************************************************)
(* Saving a form.                                                          *)
(***************************************************************************)
\* The addresses that k modifications leave.
Part(mode, list, k) == IF mode = "Manual" THEN {list[i] : i \in {j \in 1..Len(list) : j < k}} ELSE {}

\* An interface that has been modified is listed, unless it is gone.
Saved4(f, k) ==
  (k > 0 /\ f.device \in DOMAIN kernel) =>
    /\ f.device \in DOMAIN links
    /\ "flags" \notin exempt =>
         links[f.device].dhcp = (f.mode4 = "Automatic") /\ links[f.device].slaac = f.slaac
    /\ Same(kernel[f.device].v4, Part(f.mode4, f.v4, k))
    /\ f.mode6 # "Automatic" => Same(kernel[f.device].v6, Part(f.mode6, f.v6, k))

\* j requests that create the interface, the modifications after the k-th, and what
\* need not succeed.
Remaining(todo, f, j, k) ==
  LET mods == InterfaceActions(f)
      n    == Len(mods) - k
  IN  /\ k < Len(mods) /\ (j > 0 => k = 0) /\ j + n <= Len(todo)
      /\ \A i \in 1..j : todo[i].op \in {"AddLink", "Check"}
      /\ \A i \in 1..n : todo[j + i] = mods[k + i]
      /\ \A i \in (j + n + 1)..Len(todo) : ~Must(todo[i])

SavingInv ==
  (late = 0 /\ task.goal # None) =>
    /\ task.after = NoPopup
    /\ \E j \in 0..Len(task.todo), k \in 0..Len(InterfaceActions(task.goal)) :
         /\ Remaining(task.todo, task.goal, j, k)
         /\ replies = <<>> => Saved4(task.goal, k)
         /\ j = 0 /\ Granted => Saved4(task.goal, k + 1)

\* The inductive invariant.
Inv == TypesInv /\ AwaitedInv /\ SelectedInv /\ SavingInv

-------------------------------------------------------------------------------
(***************************************************************************)
(* What handlers compute.                                                  *)
(***************************************************************************)
LEMMA PopupTypes ==
  /\ NoPopup \in Popup /\ Message \in Popup
  /\ [kind |-> "NewConnection"] \in Popup /\ [kind |-> "WirelessDevices"] \in Popup
  /\ \A kind \in {"BindBssid", "WifiCredentials", "Connecting"}, n \in Network \cup {None} : Over(kind, n) \in Popup
  /\ \A f \in Form, ns \in SUBSET Network :
       /\ Editor(f, ns) \in Popup /\ Saved(f, ns) \in Popup
       /\ \A n \in Network \cup {None} : AccessPoint(f, ns, n) \in Popup
  BY DEF Popup, NoPopup, Message, Over, Editor, Saved, AccessPoint

\* What a popup holds is known from its kind.
LEMMA PopupFields ==
  ASSUME NEW p \in Popup
  PROVE  /\ p.kind \in {"BindBssid", "WifiCredentials", "Connecting"} => p.target \in Network \cup {None}
         /\ p.kind \in {"Editor", "SavedNetworks", "AccessPointEditor"} => p.form \in Form /\ p.networks \subseteq Network
         /\ p.kind = "AccessPointEditor" => p.original \in Network \cup {None}
         /\ p.kind = "SavedNetworks" => \A ns \in SUBSET Network : [p EXCEPT !.networks = ns] \in Popup
         /\ p.kind = "Editor" => \A f \in Form : [p EXCEPT !.form = f] \in Popup
  BY DEF Popup

\* The lists of a form hold addresses.
LEMMA ListsTyped ==
  /\ \A l \in Lists4 : l \in Seq(Addr(Lists4))
  /\ \A l \in Lists6 : l \in Seq(Addr(Lists6))
  /\ <<>> \in Seq(Addr(Lists4)) /\ <<>> \in Seq(Addr(Lists6))
  BY TerminalAssumption

\* A form that is opened for a new interface or edited is a form.
LEMMA FormTypes ==
  /\ \A f \in Form : Edited(f) \subseteq Form
  /\ \A d \in Device, new \in {"No", "Link", "Wlan"} : FromNew(d, new) \in Form
<1>1. ASSUME NEW f \in Form, NEW g \in Edited(f) PROVE g \in Form
  <2>1. CASE \E m \in Mode : g = [f EXCEPT !.mode4 = m]
    BY <2>1 DEF Form
  <2>2. CASE \E m \in Mode : g = [f EXCEPT !.mode6 = m]
    BY <2>2 DEF Form
  <2>3. CASE \E l \in Lists4 : g = [f EXCEPT !.v4 = l]
    BY <2>3, ListsTyped DEF Form
  <2>4. CASE \E l \in Lists6 : g = [f EXCEPT !.v6 = l]
    BY <2>4, ListsTyped DEF Form
  <2>5. CASE g = [f EXCEPT !.slaac = ~@]
    BY <2>5 DEF Form
  <2> QED
    BY <1>1, <2>1, <2>2, <2>3, <2>4, <2>5 DEF Edited
<1>2. ASSUME NEW d \in Device, NEW new \in {"No", "Link", "Wlan"} PROVE FromNew(d, new) \in Form
  BY ListsTyped DEF FromNew, Form, Mode
<1> QED
  BY <1>1, <1>2

\* A finite set of addresses can be listed.
LEMMA ListedType ==
  ASSUME NEW lists, IsFiniteSet(Addr(lists)), NEW S \in SUBSET Addr(lists)
  PROVE  Listed(S) \in Seq(Addr(lists))
<1>1. IsFiniteSet(S)
  BY FS_Subset
<1>2. PICK n : n = Cardinality(S)
  OBVIOUS
<1>3. n \in Nat /\ ExistsBijection(1..n, S)
  BY <1>1, <1>2, FS_CardinalityType
<1>4. \E l \in [1..n -> S] : \A i, j \in DOMAIN l : l[i] = l[j] => i = j
  BY <1>3 DEF ExistsBijection, Bijection, Injection, IsInjective
<1>5. Listed(S) \in [1..n -> S]
  BY <1>2, <1>4, Zenon DEF Listed
<1>6. Listed(S) \in [1..n -> Addr(lists)]
  BY <1>5
<1> QED
  BY <1>3, <1>6, SeqDef

\* So is one that shows an interface.
LEMMA FromInterfaceType ==
  ASSUME NEW d \in Device, interfaces[d] \in Link
  PROVE  FromInterface(d) \in Form
<1> DEFINE i == interfaces[d]
           m4 == IF i.dhcp THEN "Automatic" ELSE "Manual"
           m6 == IF i.slaac THEN "Automatic" ELSE IF i.v6 = {} THEN "Ignore" ELSE "Manual"
<1>1. i.v4 \in SUBSET Addr(Lists4) /\ i.v6 \in SUBSET Addr(Lists6) /\ i.slaac \in BOOLEAN
  BY DEF Link
<1>2. m4 \in Mode /\ m6 \in Mode
  BY DEF Mode
<1>3. FromInterface(d) = [device |-> d, new |-> "No", mode4 |-> m4, v4 |-> Listed(i.v4),
                          mode6 |-> m6, v6 |-> Listed(i.v6), slaac |-> i.slaac]
  BY DEF FromInterface
<1> HIDE DEF m4, m6, i
<1>4. Listed(i.v4) \in Seq(Addr(Lists4)) /\ Listed(i.v6) \in Seq(Addr(Lists6))
  BY <1>1, ListedType, TerminalAssumption
<1> QED
  BY <1>1, <1>2, <1>3, <1>4 DEF Form

\* Queries need not succeed.
LEMMA RefreshTypes ==
  /\ RefreshInterfaces \in Seq(RequestType) /\ Len(RefreshInterfaces) = 1
  /\ RefreshWifi \in Seq(RequestType) /\ Len(RefreshWifi) = 2
  /\ ~Must(RefreshInterfaces[1]) /\ ~Must(RefreshWifi[1]) /\ ~Must(RefreshWifi[2])
  /\ \A op \in {"List", "Status", "Known", "Poll", "Devices", "GetHostname", "SetHostname", "Disconnect"} :
       Ask(op, None) \in RequestType
<1>1. \A op \in {"List", "Status", "Known", "Poll", "Devices", "GetHostname", "SetHostname", "Disconnect"} :
        Ask(op, None) \in RequestType
  BY DEF Ask, RequestType
<1> QED
  BY <1>1 DEF RefreshInterfaces, RefreshWifi, Must, Ask

\* What a handler asks for is a request.
LEMMA AskTypes ==
  /\ \A op \in {"AddLink", "DelLink", "Check"}, d \in Device : Ask(op, d) \in RequestType
  /\ \A n \in Network : Ask("RemoveNetwork", n) \in RequestType /\ Ask("Connect", n) \in RequestType
  /\ \A n \in Network, secret \in BOOLEAN : Ask("AddNetwork", [network |-> n, secret |-> secret]) \in RequestType
  /\ \A m \in Modification : Ask("ModLink", m) \in RequestType
  BY DEF Ask, RequestType

\* The requests of a list whose head is not the status query are not dropped.
LEMMA DueIs ==
  ASSUME NEW todo \in Seq(RequestType), NEW listed
  PROVE  /\ Due(todo, listed) \in {todo, <<>>}
         /\ todo # <<>> /\ Head(todo).op # "Status" => Due(todo, listed) = todo
  BY DEF Due

-------------------------------------------------------------------------------
(***************************************************************************)
(* The requests that save a form.                                          *)
(***************************************************************************)
\* The i-th change of a list, or none.
At(mods, i) == IF i \in DOMAIN mods THEN mods[i] ELSE NoChange

Changes6(f) == IF f.mode6 = "Automatic" THEN <<NoChange>> ELSE Modifications(f.mode6, f.v6)

\* The changes of one list: it is cleared, then its addresses are added in order.
LEMMA ModificationsAre ==
  ASSUME NEW lists, NEW mode \in Mode, NEW list \in Seq(Addr(lists))
  PROVE  LET mods == Modifications(mode, list)
         IN  /\ mods \in Seq(Changes(lists))
             /\ Len(mods) = IF mode = "Manual" THEN Len(list) + 1 ELSE 1
             /\ mods[1] = "Clear"
             /\ mode = "Manual" => \A i \in 1..Len(list) : mods[i + 1] = list[i]
<1>1. <<"Clear">> \in Seq(Changes(lists)) /\ list \in Seq(Changes(lists))
  BY DEF Changes
<1>2. CASE mode = "Manual"
  <2>1. Modifications(mode, list) = <<"Clear">> \o list
    BY <1>2 DEF Modifications
  <2>2. /\ <<"Clear">> \o list \in Seq(Changes(lists))
        /\ Len(<<"Clear">> \o list) = 1 + Len(list)
        /\ \A i \in 1..(1 + Len(list)) :
             (<<"Clear">> \o list)[i] = IF i <= 1 THEN <<"Clear">>[i] ELSE list[i - 1]
    BY <1>1, ConcatProperties
  <2>3. Len(list) \in Nat /\ (<<"Clear">> \o list)[1] = "Clear"
    BY <2>2
  <2>4. \A i \in 1..Len(list) : (<<"Clear">> \o list)[i + 1] = list[i]
    <3> TAKE i \in 1..Len(list)
    <3>1. i + 1 \in 1..(1 + Len(list)) /\ ~(i + 1 <= 1) /\ (i + 1) - 1 = i
      BY <2>3
    <3> QED
      BY <2>2, <3>1
  <2>5. PICK mods : mods = <<"Clear">> \o list
    OBVIOUS
  <2>6. /\ mods \in Seq(Changes(lists)) /\ Len(mods) = Len(list) + 1
        /\ mods[1] = "Clear" /\ \A i \in 1..Len(list) : mods[i + 1] = list[i]
    BY <2>2, <2>3, <2>4, <2>5
  <2>7. Modifications(mode, list) = mods
    BY <2>1, <2>5
  <2> QED
    BY <1>2, <2>6, <2>7
<1>3. CASE mode # "Manual"
  BY <1>1, <1>3 DEF Modifications
<1> QED
  BY <1>2, <1>3

\* The changes of the IPv6 list are at least one, which may be none at all.
LEMMA Changes6Are ==
  ASSUME NEW f \in Form
  PROVE  Changes6(f) \in Seq(Changes(Lists6)) /\ Len(Changes6(f)) \in Nat \ {0}
<1>1. f.mode6 \in Mode /\ f.v6 \in Seq(Addr(Lists6))
  BY DEF Form
<1>2. Modifications(f.mode6, f.v6) \in Seq(Changes(Lists6)) /\ Len(Modifications(f.mode6, f.v6)) \in Nat \ {0}
  BY <1>1, ModificationsAre
<1>3. <<NoChange>> \in Seq(Changes(Lists6)) /\ Len(<<NoChange>>) = 1
  BY DEF Changes
<1> QED
  BY <1>2, <1>3 DEF Changes6

\* As many requests as the longer list has changes.
LEMMA InterfaceActionsAre ==
  ASSUME NEW f \in Form
  PROVE  LET mods == InterfaceActions(f)
             v4   == Modifications(f.mode4, f.v4)
             v6   == Changes6(f)
         IN  /\ mods \in Seq(RequestType)
             /\ Len(mods) = IF Len(v4) < Len(v6) THEN Len(v6) ELSE Len(v4)
             /\ Len(mods) \in Nat \ {0}
             /\ \A i \in 1..Len(mods) :
                  mods[i] = Modify(f.device, At(v4, i), At(v6, i),
                                   IF i = 1 THEN [dhcp |-> f.mode4 = "Automatic", slaac |-> f.slaac] ELSE NoChange,
                                   NoChange)
<1> DEFINE v4 == Modifications(f.mode4, f.v4)
           v6 == Changes6(f)
           n  == IF Len(v4) < Len(v6) THEN Len(v6) ELSE Len(v4)
           ip(i) == IF i = 1 THEN [dhcp |-> f.mode4 = "Automatic", slaac |-> f.slaac] ELSE NoChange
           mod(i) == Modify(f.device, At(v4, i), At(v6, i), ip(i), NoChange)
<1>1. /\ f.device \in Device /\ f.mode4 \in Mode /\ f.v4 \in Seq(Addr(Lists4)) /\ f.slaac \in BOOLEAN
  BY DEF Form
<1>2. v4 \in Seq(Changes(Lists4)) /\ Len(v4) \in Nat \ {0}
  BY <1>1, ModificationsAre
<1>3. v6 \in Seq(Changes(Lists6)) /\ Len(v6) \in Nat \ {0}
  BY Changes6Are
<1>4. InterfaceActions(f) = [i \in DOMAIN v4 \cup DOMAIN v6 |-> mod(i)]
  BY DEF InterfaceActions, At, Changes6
<1> HIDE DEF v4, v6
<1>5. DOMAIN v4 \cup DOMAIN v6 = 1..n /\ n \in Nat \ {0}
  BY <1>2, <1>3
<1>6. ASSUME NEW i \in 1..n PROVE mod(i) \in RequestType
  <2>1. At(v4, i) \in Changes(Lists4) /\ At(v6, i) \in Changes(Lists6)
    BY <1>2, <1>3 DEF At, Changes
  <2>2. ip(i) \in [dhcp : BOOLEAN, slaac : BOOLEAN] \cup {NoChange}
    BY <1>1
  <2> HIDE DEF ip
  <2>3. [device |-> f.device, v4 |-> At(v4, i), v6 |-> At(v6, i), ip |-> ip(i), up |-> NoChange] \in Modification
    BY <1>1, <2>1, <2>2 DEF Modification
  <2> QED
    BY <2>3, AskTypes DEF Modify
<1>7. InterfaceActions(f) = [i \in 1..n |-> mod(i)]
  BY <1>4, <1>5
<1> HIDE DEF mod, n
<1>8. InterfaceActions(f) \in [1..n -> RequestType]
  BY <1>6, <1>7
<1>9. InterfaceActions(f) \in Seq(RequestType) /\ Len(InterfaceActions(f)) = n
  BY <1>5, <1>8, SeqDef
<1>10. \A i \in 1..n : InterfaceActions(f)[i] = mod(i)
  BY <1>7
<1> QED
  BY <1>5, <1>9, <1>10 DEF mod, n, v4, v6

-------------------------------------------------------------------------------
(***************************************************************************)
(* Keys.                                                                   *)
(***************************************************************************)
Screen == {"MainMenu", "EditConnections", "ActivateConnections", "Hostname"}

\* Nothing but what is shown changes.
LEMMA ShownInv ==
  ASSUME Inv, UNCHANGED <<interfaces, known, status, task, requests, replies, daemon, exempt, troubles, late>>,
         commands' \in 0..MaxCommands, screen' \in Screen, popup' \in Popup, popup'.kind # "Connecting"
  PROVE  Inv'
<1>1. TypesInv'
  BY DEF Inv, TypesInv, TypeOK, daemon, wifi, Screen
<1>2. AwaitedInv'
  BY DEF Inv, AwaitedInv
<1>3. Granted' = Granted
  BY DEF Granted
<1>4. SelectedInv'
  BY <1>3 DEF Inv, SelectedInv, daemon, wifi
<1>5. SavingInv'
  BY <1>3 DEF Inv, SavingInv, daemon, Saved4, Same
<1> QED
  BY <1>1, <1>2, <1>4, <1>5 DEF Inv

\* So it is when a popup is shown.
LEMMA ShowsInv ==
  ASSUME Inv, NEW p \in Popup, p.kind # "Connecting", Shows(p)
  PROVE  Inv'
<1>1. /\ UNCHANGED <<interfaces, known, status, task, requests, replies, daemon, exempt, troubles, late>>
      /\ commands' = commands /\ screen' = screen /\ popup' = p
  BY DEF Shows, bounds
<1> QED
  BY <1>1, ShownInv DEF Inv, TypesInv, TypeOK, Screen

\* A handler that begins when nothing is awaited.
LEMMA HandleStep ==
  ASSUME Inv, NEW todo \in Seq(RequestType), NEW after \in Popup, NEW goal \in Form \cup {None},
         task.todo = <<>>, Handle(todo, after, goal),
         commands' \in 0..MaxCommands, screen' \in Screen, popup' \in Popup
  PROVE  /\ TypesInv' /\ AwaitedInv'
         /\ \/ task' = Idle
            \/ todo # <<>> /\ task' = [todo |-> todo, after |-> after, goal |-> goal]
         /\ UNCHANGED <<links, kernel, assoc, taken, late>>
         /\ late = 0 => replies' = <<>>
<1> DEFINE due == Due(todo, DOMAIN interfaces)
<1>1. UNCHANGED <<interfaces, known, status, replies, links, kernel, profiles, assoc, manager, taken, troubles, late>>
  BY DEF Handle, daemon, wifi
<1>2. due \in {todo, <<>>} /\ due \in Seq(RequestType)
  <2>1. due \in {todo, <<>>}
    BY DueIs
  <2>2. <<>> \in Seq(RequestType)
    BY EmptySeq
  <2> HIDE DEF due
  <2> QED
    BY <2>1, <2>2, Zenon
<1>3. /\ task' = IF due = <<>> THEN Idle ELSE [todo |-> due, after |-> after, goal |-> goal]
      /\ requests' = requests \o First(due)
  BY DEF Handle
<1>4. due # <<>> => due = todo
  BY <1>2
<1> HIDE DEF due
<1>5. task' \in TaskType /\ task'.after \in Popup /\ task'.goal \in Form \cup {None}
  BY <1>2, <1>3, PopupTypes DEF TaskType, Idle
<1>6. /\ requests \in Seq(RequestType) /\ replies \in Seq(ReplyType) /\ late \in Nat
      /\ Len(requests) + Len(replies) = late
  BY TerminalAssumption DEF Inv, TypesInv, TypeOK
<1>7. /\ First(due) \in Seq(RequestType)
      /\ Len(First(due)) = IF due = <<>> THEN 0 ELSE 1
      /\ due # <<>> => First(due) = <<Head(due)>>
  <2>1. CASE due = <<>>
    BY <2>1, EmptySeq DEF First
  <2>2. CASE due # <<>>
    <3>1. First(due) = <<Head(due)>> /\ Head(due) \in RequestType
      BY <1>2, <2>2 DEF First
    <3> QED
      BY <2>2, <3>1
  <2> QED
    BY <2>1, <2>2
<1>8. /\ requests' \in Seq(RequestType) /\ Len(requests') = Len(requests) + Len(First(due))
      /\ requests = <<>> => requests' = First(due)
  BY <1>3, <1>6, <1>7, ConcatProperties, ConcatEmptySeq
<1>9. Len(requests') + Len(replies') = late' + (IF task'.todo = <<>> THEN 0 ELSE 1)
  <2>1. task'.todo = due /\ Len(requests) \in Nat /\ Len(replies) \in Nat /\ Len(replies') = Len(replies)
    BY <1>1, <1>3, <1>6 DEF Idle
  <2>2. Len(requests') = Len(requests) + (IF due = <<>> THEN 0 ELSE 1)
    BY <1>7, <1>8
  <2> QED
    BY <1>1, <1>6, <2>1, <2>2
<1>13. exempt' = {}
  BY DEF Handle
<1>10. TypesInv'
  BY <1>1, <1>5, <1>8, <1>9, <1>13 DEF Inv, TypesInv, TypeOK, Screen
<1>11. late = 0 => requests = <<>> /\ replies = <<>>
  BY DEF Inv, AwaitedInv
<1>12. AwaitedInv'
  BY <1>1, <1>3, <1>7, <1>8, <1>11 DEF AwaitedInv, Idle
<1> QED
  BY <1>1, <1>3, <1>4, <1>10, <1>11, <1>12

\* A key that makes requests without saving a form.
LEMMA StartsInv ==
  ASSUME Inv, NEW todo \in Seq(RequestType), NEW after \in Popup, Starts(todo, after),
         screen' \in Screen, popup' \in Popup, popup'.kind # "Connecting",
         after.kind = "Connecting" =>
           /\ Len(todo) \in {1, 2} /\ todo[Len(todo)] = Ask("Connect", after.target)
           /\ Len(todo) = 2 => todo[1].op = "AddNetwork"
  PROVE  Inv'
<1>1. task.todo = <<>> /\ Handle(todo, after, None) /\ commands' \in 0..MaxCommands
  BY TerminalAssumption DEF Starts, Free, Inv, TypesInv, TypeOK
<1>2. /\ TypesInv' /\ AwaitedInv'
      /\ \/ task' = Idle
         \/ todo # <<>> /\ task' = [todo |-> todo, after |-> after, goal |-> None]
      /\ UNCHANGED <<links, kernel, assoc, taken, late>>
      /\ late = 0 => replies' = <<>>
  BY <1>1, HandleStep
<1>3. SelectedInv'
  BY <1>2 DEF SelectedInv, Idle, NoPopup, Granted
<1>4. SavingInv'
  BY <1>2 DEF SavingInv, Idle
<1> QED
  BY <1>2, <1>3, <1>4 DEF Inv

\* The main menu and the hostname.
LEMMA MenuInv ==
  ASSUME Inv, OpenEditConnections \/ OpenActivateConnections \/ OpenHostname \/ SaveHostname \/ Back
  PROVE  Inv'
<1>1. NoPopup \in Popup /\ NoPopup.kind = "None" /\ popup \in Popup /\ screen \in Screen
  BY PopupTypes DEF NoPopup, Inv, TypesInv, TypeOK, Screen
<1>2. CASE OpenEditConnections
  <2>1. popup.kind = "None" /\ Starts(RefreshInterfaces, NoPopup) /\ screen' = "EditConnections" /\ popup' = popup
    BY <1>2 DEF OpenEditConnections
  <2> QED
    BY <1>1, <2>1, RefreshTypes, StartsInv DEF Screen
<1>3. CASE OpenActivateConnections
  <2>1. /\ popup.kind = "None" /\ Starts(RefreshInterfaces \o RefreshWifi, NoPopup)
        /\ screen' = "ActivateConnections" /\ popup' = popup
    BY <1>3 DEF OpenActivateConnections
  <2>2. RefreshInterfaces \o RefreshWifi \in Seq(RequestType)
    BY RefreshTypes, ConcatProperties
  <2> QED
    BY <1>1, <2>1, <2>2, StartsInv DEF Screen
<1>4. CASE OpenHostname
  <2>1. popup.kind = "None" /\ Starts(<<Ask("GetHostname", None)>>, NoPopup) /\ screen' = "Hostname" /\ popup' = popup
    BY <1>4 DEF OpenHostname
  <2>2. <<Ask("GetHostname", None)>> \in Seq(RequestType)
    BY RefreshTypes
  <2> QED
    BY <1>1, <2>1, <2>2, StartsInv DEF Screen
<1>5. CASE SaveHostname
  <2>1. popup.kind = "None" /\ Starts(<<Ask("SetHostname", None)>>, NoPopup) /\ screen' = screen /\ popup' = popup
    BY <1>5 DEF SaveHostname
  <2>2. <<Ask("SetHostname", None)>> \in Seq(RequestType)
    BY RefreshTypes
  <2> QED
    BY <1>1, <2>1, <2>2, StartsInv
<1>6. CASE Back
  <2>1. /\ UNCHANGED <<interfaces, known, status, task, requests, replies, daemon, exempt, troubles, late>>
        /\ commands' = commands /\ screen' = "MainMenu" /\ popup' = popup /\ popup.kind = "None"
    BY <1>6 DEF Back, bounds
  <2> QED
    BY <1>1, <2>1, ShownInv DEF Inv, TypesInv, TypeOK, Screen
<1> QED
  BY <1>2, <1>3, <1>4, <1>5, <1>6

\* The list of connections.
LEMMA ConnectionsInv ==
  ASSUME Inv,
         \/ \E d \in Device : OpenEditor(d) \/ DeleteLink(d) \/ ActivateInterface(d)
         \/ NewConnection \/ CreateConnection \/ CreateWifi \/ SelectWirelessDevice
  PROVE  Inv'
<1>1. NoPopup \in Popup /\ NoPopup.kind = "None" /\ popup \in Popup /\ screen \in Screen /\ known \in SUBSET Network
  BY PopupTypes DEF NoPopup, Inv, TypesInv, TypeOK, Screen
<1>2. ASSUME NEW d \in Device, OpenEditor(d) PROVE Inv'
  <2>1. interfaces[d] \in Link
    BY <1>2 DEF OpenEditor, Inv, TypesInv, TypeOK
  <2>2. FromInterface(d) \in Form
    BY <2>1, FromInterfaceType
  <2>3. Editor(FromInterface(d), known) \in Popup /\ Editor(FromInterface(d), known).kind = "Editor"
    BY <1>1, <2>2, PopupTypes DEF Editor
  <2> QED
    BY <1>2, <2>3, ShowsInv DEF OpenEditor
<1>3. ASSUME NEW d \in Device, DeleteLink(d) PROVE Inv'
  <2>1. popup.kind = "None" /\ Starts(<<Ask("DelLink", d)>> \o RefreshInterfaces, NoPopup) /\ UNCHANGED <<screen, popup>>
    BY <1>3 DEF DeleteLink
  <2>2. <<Ask("DelLink", d)>> \in Seq(RequestType)
    BY AskTypes
  <2>3. <<Ask("DelLink", d)>> \o RefreshInterfaces \in Seq(RequestType)
    BY <2>2, RefreshTypes, ConcatProperties
  <2> QED
    BY <1>1, <2>1, <2>3, StartsInv
<1>4. ASSUME NEW d \in Device, ActivateInterface(d) PROVE Inv'
  <2> DEFINE ask == Modify(d, NoChange, NoChange, NoChange, ~interfaces[d].up)
  <2>1. popup.kind = "None" /\ Starts(<<ask>> \o RefreshInterfaces, NoPopup) /\ UNCHANGED <<screen, popup>>
    BY <1>4 DEF ActivateInterface, Activating
  <2>2. ask \in RequestType
    <3>1. interfaces[d].up \in BOOLEAN
      BY <1>4 DEF ActivateInterface, Inv, TypesInv, TypeOK, Link
    <3>2. [device |-> d, v4 |-> NoChange, v6 |-> NoChange, ip |-> NoChange, up |-> ~interfaces[d].up] \in Modification
      <4>1. PICK up \in BOOLEAN : up = ~interfaces[d].up
        BY <3>1
      <4>2. [device |-> d, v4 |-> NoChange, v6 |-> NoChange, ip |-> NoChange, up |-> up] \in Modification
        BY DEF Modification, Changes
      <4> QED
        BY <4>1, <4>2
    <3> QED
      BY <3>2, AskTypes DEF Modify
  <2> HIDE DEF ask
  <2>3. <<ask>> \in Seq(RequestType)
    BY <2>2
  <2>4. <<ask>> \o RefreshInterfaces \in Seq(RequestType)
    BY <2>3, RefreshTypes, ConcatProperties
  <2> QED
    BY <1>1, <2>1, <2>4, StartsInv
<1>5. CASE NewConnection
  <2>1. Shows([kind |-> "NewConnection"]) /\ [kind |-> "NewConnection"] \in Popup
    BY <1>5, PopupTypes DEF NewConnection
  <2> QED
    BY <2>1, ShowsInv
<1>6. CASE CreateConnection
  <2>1. PICK d \in Device : Shows(Editor(FromNew(d, "Link"), {}))
    BY <1>6 DEF CreateConnection
  <2>2. FromNew(d, "Link") \in Form
    BY FormTypes
  <2>3. Editor(FromNew(d, "Link"), {}) \in Popup /\ Editor(FromNew(d, "Link"), {}).kind = "Editor"
    BY <2>2, PopupTypes DEF Editor
  <2> QED
    BY <2>1, <2>3, ShowsInv
<1>7. CASE CreateWifi
  <2>1. Starts(<<Ask("Devices", None)>>, [kind |-> "WirelessDevices"]) /\ popup' = NoPopup /\ UNCHANGED screen
    BY <1>7 DEF CreateWifi
  <2>2. <<Ask("Devices", None)>> \in Seq(RequestType) /\ [kind |-> "WirelessDevices"] \in Popup
    BY RefreshTypes, PopupTypes
  <2> QED
    BY <1>1, <2>1, <2>2, StartsInv
<1>8. CASE SelectWirelessDevice
  <2>1. FromNew(Wlan, "Wlan") \in Form
    BY TerminalAssumption, FormTypes
  <2>2. Editor(FromNew(Wlan, "Wlan"), {}) \in Popup /\ Editor(FromNew(Wlan, "Wlan"), {}).kind = "Editor"
    BY <2>1, PopupTypes DEF Editor
  <2> QED
    BY <1>8, <2>2, ShowsInv DEF SelectWirelessDevice
<1> QED
  BY <1>2, <1>3, <1>4, <1>5, <1>6, <1>7, <1>8

\* The forms, the saved networks and their editor.
LEMMA NetworksInv ==
  ASSUME Inv, EditForm \/ RefuseForm \/ OpenSavedNetworks \/ DeleteSavedNetwork \/ OpenAccessPointEditor
              \/ SaveAccessPoint \/ RefuseAccessPoint \/ Cancel
  PROVE  Inv'
<1>1. /\ NoPopup \in Popup /\ NoPopup.kind = "None" /\ Message \in Popup /\ Message.kind = "Message"
      /\ popup \in Popup /\ screen \in Screen
  BY PopupTypes DEF NoPopup, Message, Inv, TypesInv, TypeOK, Screen
<1>2. CASE EditForm
  <2>1. PICK f \in Edited(popup.form) : popup' = [popup EXCEPT !.form = f]
    BY <1>2 DEF EditForm
  <2>2. /\ popup.kind = "Editor" /\ commands' \in 0..MaxCommands /\ screen' = screen
        /\ UNCHANGED <<interfaces, known, status, task, requests, replies, daemon, exempt, troubles, late>>
    BY <1>2, TerminalAssumption DEF EditForm, Free, Inv, TypesInv, TypeOK
  <2>3. f \in Form
    BY <1>1, <2>1, <2>2, PopupFields, FormTypes
  <2>4. popup' \in Popup /\ popup'.kind = "Editor"
    BY <1>1, <2>1, <2>2, <2>3, PopupFields DEF Popup
  <2> QED
    BY <1>1, <2>2, <2>4, ShownInv
<1>3. CASE RefuseForm \/ RefuseAccessPoint
  BY <1>1, <1>3, ShowsInv DEF RefuseForm, RefuseAccessPoint
<1>4. CASE OpenSavedNetworks
  <2>1. Shows(Saved(popup.form, popup.networks)) /\ popup.form \in Form /\ popup.networks \in SUBSET Network
    BY <1>1, <1>4, PopupFields DEF OpenSavedNetworks
  <2>2. Saved(popup.form, popup.networks) \in Popup /\ Saved(popup.form, popup.networks).kind = "SavedNetworks"
    BY <2>1, PopupTypes DEF Saved
  <2> QED
    BY <2>1, <2>2, ShowsInv
<1>5. CASE DeleteSavedNetwork
  <2>1. popup.kind = "SavedNetworks" /\ popup.networks \subseteq Network
    BY <1>1, <1>5, PopupFields DEF DeleteSavedNetwork
  <2>2. PICK n \in Network : Starts(<<Ask("RemoveNetwork", n)>> \o RefreshWifi, popup)
    BY <1>5, <2>1 DEF DeleteSavedNetwork
  <2>3. <<Ask("RemoveNetwork", n)>> \in Seq(RequestType)
    BY AskTypes
  <2>4. <<Ask("RemoveNetwork", n)>> \o RefreshWifi \in Seq(RequestType)
    BY <2>3, RefreshTypes, ConcatProperties
  <2>5. popup' = NoPopup /\ UNCHANGED screen
    BY <1>5 DEF DeleteSavedNetwork
  <2> QED
    BY <1>1, <2>1, <2>2, <2>4, <2>5, StartsInv
<1>6. CASE OpenAccessPointEditor
  <2>1. popup.form \in Form /\ popup.networks \in SUBSET Network
    BY <1>1, <1>6, PopupFields DEF OpenAccessPointEditor
  <2>2. PICK n \in Network \cup {None} : Shows(AccessPoint(popup.form, popup.networks, n))
    BY <1>6, <2>1 DEF OpenAccessPointEditor
  <2>3. /\ AccessPoint(popup.form, popup.networks, n) \in Popup
        /\ AccessPoint(popup.form, popup.networks, n).kind = "AccessPointEditor"
    BY <2>1, PopupTypes DEF AccessPoint
  <2> QED
    BY <2>2, <2>3, ShowsInv
<1>7. CASE SaveAccessPoint
  <2>1. popup.form \in Form /\ popup.networks \in SUBSET Network /\ popup.original \in Network \cup {None}
    BY <1>1, <1>7, PopupFields DEF SaveAccessPoint
  <2>2. PICK n \in Network, secret \in BOOLEAN :
          Starts((IF popup.original \in {None, n} THEN <<>> ELSE <<Ask("RemoveNetwork", popup.original)>>)
                   \o <<Ask("AddNetwork", [network |-> n, secret |-> secret])>> \o RefreshWifi,
                 Saved(popup.form, popup.networks))
    BY <1>7 DEF SaveAccessPoint
  <2> DEFINE first  == IF popup.original \in {None, n} THEN <<>> ELSE <<Ask("RemoveNetwork", popup.original)>>
             second == <<Ask("AddNetwork", [network |-> n, secret |-> secret])>>
  <2>3. first \in Seq(RequestType)
    <3>1. CASE popup.original \in {None, n}
      BY <3>1, EmptySeq
    <3>2. CASE popup.original \notin {None, n}
      <4>1. Ask("RemoveNetwork", popup.original) \in RequestType
        BY <2>1, <3>2, AskTypes
      <4> QED
        BY <3>2, <4>1
    <3> QED
      BY <3>1, <3>2
  <2>4. second \in Seq(RequestType)
    BY AskTypes
  <2>5. Starts(first \o second \o RefreshWifi, Saved(popup.form, popup.networks))
    BY <2>2
  <2> HIDE DEF first, second
  <2>6. first \o second \o RefreshWifi \in Seq(RequestType)
    <3>1. first \o second \in Seq(RequestType)
      BY <2>3, <2>4, ConcatProperties
    <3> QED
      BY <3>1, RefreshTypes, ConcatProperties
  <2>7. Saved(popup.form, popup.networks) \in Popup /\ Saved(popup.form, popup.networks).kind = "SavedNetworks"
    BY <2>1, PopupTypes DEF Saved
  <2>8. popup' = NoPopup /\ UNCHANGED screen
    BY <1>7 DEF SaveAccessPoint
  <2> QED
    BY <1>1, <2>5, <2>6, <2>7, <2>8, StartsInv
<1>8. CASE Cancel
  <2>1. CASE popup.kind = "SavedNetworks" /\ Shows(Editor(popup.form, popup.networks))
    <3>1. Editor(popup.form, popup.networks) \in Popup /\ Editor(popup.form, popup.networks).kind = "Editor"
      BY <1>1, <2>1, PopupFields, PopupTypes DEF Editor
    <3> QED
      BY <2>1, <3>1, ShowsInv
  <2>2. CASE popup.kind = "AccessPointEditor" /\ Shows(Saved(popup.form, popup.networks))
    <3>1. Saved(popup.form, popup.networks) \in Popup /\ Saved(popup.form, popup.networks).kind = "SavedNetworks"
      BY <1>1, <2>2, PopupFields, PopupTypes DEF Saved
    <3> QED
      BY <2>2, <3>1, ShowsInv
  <2>3. CASE Shows(NoPopup)
    BY <1>1, <2>3, ShowsInv
  <2> QED
    BY <1>8, <2>1, <2>2, <2>3 DEF Cancel
<1> QED
  BY <1>2, <1>3, <1>4, <1>5, <1>6, <1>7, <1>8

\* What one request after at most one other looks like.
LEMMA AppendsOne ==
  ASSUME NEW S, NEW s \in Seq(S), NEW a \in S, Len(s) \in {0, 1}
  PROVE  /\ s \o <<a>> \in Seq(S) /\ Len(s \o <<a>>) \in {1, 2} /\ (s \o <<a>>)[Len(s \o <<a>>)] = a
         /\ Len(s \o <<a>>) = 2 => Len(s) = 1 /\ (s \o <<a>>)[1] = s[1]
<1>1. <<a>> \in Seq(S) /\ Len(<<a>>) = 1 /\ <<a>>[1] = a
  OBVIOUS
<1>2. PICK t : t = s \o <<a>>
  OBVIOUS
<1>3. /\ t \in Seq(S) /\ Len(t) = Len(s) + 1
      /\ \A i \in 1..(Len(s) + 1) : t[i] = IF i <= Len(s) THEN s[i] ELSE <<a>>[i - Len(s)]
  BY <1>1, <1>2, ConcatProperties
<1>4. PICK k \in {0, 1} : k = Len(s)
  OBVIOUS
<1>5. Len(t) = k + 1 /\ \A i \in 1..(k + 1) : t[i] = IF i <= k THEN s[i] ELSE <<a>>[i - k]
  BY <1>3, <1>4
<1>6. t[k + 1] = a /\ (k = 1 => t[1] = s[1])
  <2>1. CASE k = 0
    <3>1. 1 \in 1..(k + 1) /\ ~(1 <= k) /\ 1 - k = 1
      BY <2>1
    <3>2. t[1] = <<a>>[1]
      BY <1>5, <3>1
    <3> QED
      BY <1>1, <2>1, <3>2
  <2>2. CASE k = 1
    <3>1. 1 \in 1..(k + 1) /\ 1 <= k /\ 2 \in 1..(k + 1) /\ ~(2 <= k) /\ 2 - k = 1
      BY <2>2
    <3>2. t[1] = s[1] /\ t[2] = <<a>>[1]
      BY <1>5, <3>1
    <3> QED
      BY <1>1, <2>2, <3>2
  <2> QED
    BY <2>1, <2>2
<1> QED
  BY <1>2, <1>3, <1>4, <1>5, <1>6

\* The request for a connection is the last of its handler.
LEMMA StartWifiInv ==
  ASSUME Inv, NEW n \in Network, NEW secret \in BOOLEAN, NEW hidden, StartWifi(n, secret, hidden)
  PROVE  Inv'
<1> DEFINE first == IF n \notin known \/ secret \/ hidden
                    THEN <<Ask("AddNetwork", [network |-> n, secret |-> secret])>> ELSE <<>>
           ask  == Ask("Connect", n)
           todo == first \o <<ask>>
<1>1. Starts(todo, Over("Connecting", n)) /\ popup' = NoPopup /\ UNCHANGED screen
  BY DEF StartWifi
<1>2. ask \in RequestType /\ <<ask>> \in Seq(RequestType)
  BY AskTypes
<1>3. first \in Seq(RequestType) /\ (Len(first) = 0 \/ (Len(first) = 1 /\ first[1].op = "AddNetwork"))
  <2>1. Ask("AddNetwork", [network |-> n, secret |-> secret]) \in RequestType
    BY AskTypes
  <2>2. CASE first = <<>>
    BY <2>2, EmptySeq
  <2>3. CASE first = <<Ask("AddNetwork", [network |-> n, secret |-> secret])>>
    <3> HIDE DEF first
    <3> QED
      BY <2>1, <2>3 DEF Ask
  <2> QED
    BY <2>2, <2>3
<1>4. Over("Connecting", n) \in Popup /\ Over("Connecting", n).target = n
  BY PopupTypes DEF Over
<1> HIDE DEF first, ask
<1>8. PICK s \in Seq(RequestType) : s = first
  BY <1>3
<1>9. Len(s) \in {0, 1} /\ (Len(s) = 1 => s[1].op = "AddNetwork")
  BY <1>3, <1>8
<1>10. /\ s \o <<ask>> \in Seq(RequestType) /\ Len(s \o <<ask>>) \in {1, 2}
       /\ (s \o <<ask>>)[Len(s \o <<ask>>)] = ask
       /\ Len(s \o <<ask>>) = 2 => Len(s) = 1 /\ (s \o <<ask>>)[1] = s[1]
  BY <1>2, <1>9, AppendsOne
<1>11. PICK t \in Seq(RequestType) : t = s \o <<ask>>
  BY <1>10
<1>6. /\ Len(t) \in {1, 2} /\ t[Len(t)] = Ask("Connect", Over("Connecting", n).target)
      /\ Len(t) = 2 => t[1].op = "AddNetwork"
  BY <1>4, <1>9, <1>10, <1>11, Zenon DEF ask
<1>12. todo = t
  BY <1>8, <1>11
<1> HIDE DEF todo
<1>7. NoPopup \in Popup /\ NoPopup.kind = "None" /\ screen \in Screen
  BY PopupTypes DEF NoPopup, Inv, TypesInv, TypeOK, Screen
<1> QED
  BY <1>1, <1>4, <1>6, <1>7, <1>11, <1>12, StartsInv

\* The list of connections to activate.
LEMMA ActivateInv ==
  ASSUME Inv, Rescan \/ DisconnectWifi \/ OpenWifiConnection \/ AnswerBindPrompt \/ SubmitCredentials
  PROVE  Inv'
<1>1. /\ NoPopup \in Popup /\ Message \in Popup /\ Message.kind = "Message"
      /\ popup \in Popup /\ screen \in Screen
  BY PopupTypes DEF Message, Inv, TypesInv, TypeOK, Screen
<1>2. NoPopup.kind = "None"
  BY DEF NoPopup
<1>3. CASE Rescan
  <2>1. popup.kind = "None" /\ Starts(RefreshWifi, NoPopup) /\ UNCHANGED <<screen, popup>>
    BY <1>3 DEF Rescan, Activating
  <2> QED
    BY <1>1, <1>2, <2>1, RefreshTypes, StartsInv
<1>4. CASE DisconnectWifi
  <2>1. popup.kind = "None" /\ Starts(<<Ask("Disconnect", None)>> \o RefreshWifi, NoPopup) /\ UNCHANGED <<screen, popup>>
    BY <1>4 DEF DisconnectWifi, Activating
  <2>2. <<Ask("Disconnect", None)>> \in Seq(RequestType)
    BY RefreshTypes
  <2>3. <<Ask("Disconnect", None)>> \o RefreshWifi \in Seq(RequestType)
    BY <2>2, RefreshTypes, ConcatProperties
  <2> QED
    BY <1>1, <1>2, <2>1, <2>3, StartsInv
<1>5. CASE OpenWifiConnection
  <2>1. PICK n \in Network \cup {None} : Shows(Over("BindBssid", n))
    BY <1>5 DEF OpenWifiConnection
  <2>2. Over("BindBssid", n) \in Popup /\ Over("BindBssid", n).kind = "BindBssid"
    BY PopupTypes DEF Over
  <2> QED
    BY <2>1, <2>2, ShowsInv
<1>6. CASE AnswerBindPrompt
  <2>1. popup.target \in Network \cup {None}
    BY <1>1, <1>6, PopupFields DEF AnswerBindPrompt
  <2>2. CASE NeedsCredentials(popup.target)
    <3>1. Shows(Over("WifiCredentials", popup.target))
      BY <1>6, <2>2 DEF AnswerBindPrompt
    <3>2. Over("WifiCredentials", popup.target) \in Popup /\ Over("WifiCredentials", popup.target).kind = "WifiCredentials"
      BY <2>1, PopupTypes DEF Over
    <3> QED
      BY <3>1, <3>2, ShowsInv
  <2>3. CASE ~NeedsCredentials(popup.target)
    <3>1. StartWifi(popup.target, FALSE, FALSE) /\ popup.target \in Network
      BY <1>6, <2>1, <2>3 DEF AnswerBindPrompt, NeedsCredentials
    <3> QED
      BY <3>1, StartWifiInv
  <2> QED
    BY <2>2, <2>3
<1>7. CASE SubmitCredentials
  <2>1. CASE Shows(Message)
    BY <1>1, <2>1, ShowsInv
  <2>2. CASE \E n \in Network : StartWifi(n, n.security = "Psk", popup.target = None)
    <3>1. PICK n \in Network : StartWifi(n, n.security = "Psk", popup.target = None)
      BY <2>2
    <3>2. PICK secret \in BOOLEAN : secret = (n.security = "Psk")
      OBVIOUS
    <3>3. StartWifi(n, secret, popup.target = None)
      BY <3>1, <3>2
    <3> QED
      BY <3>3, StartWifiInv
  <2> QED
    BY <1>7, <2>1, <2>2 DEF SubmitCredentials
<1> QED
  BY <1>3, <1>4, <1>5, <1>6, <1>7

\* A poll waits with the popup of the connection.
LEMMA PollConnectingInv == ASSUME Inv, PollConnecting PROVE Inv'
<1>1. /\ popup.kind = "Connecting" /\ task.todo = <<>>
      /\ Handle(<<Ask("Poll", None)>>, NoPopup, None) /\ UNCHANGED <<screen, popup, commands>>
  BY DEF PollConnecting
<1>2. <<Ask("Poll", None)>> \in Seq(RequestType) /\ NoPopup \in Popup
  BY RefreshTypes, PopupTypes
<1>3. commands \in 0..MaxCommands /\ popup \in Popup /\ screen \in Screen
  BY DEF Inv, TypesInv, TypeOK, Screen
<1>4. /\ TypesInv' /\ AwaitedInv'
      /\ task' = Idle \/ task' = [todo |-> <<Ask("Poll", None)>>, after |-> NoPopup, goal |-> None]
      /\ UNCHANGED <<links, kernel, assoc, taken, late>>
      /\ late = 0 => replies' = <<>>
  BY <1>1, <1>2, <1>3, HandleStep
<1>5. task'.after = NoPopup /\ task'.goal = None /\ task'.todo \in {<<>>, <<Ask("Poll", None)>>} /\ NoPopup.kind = "None"
  BY <1>4 DEF Idle, NoPopup
<1>6. SelectedInv' /\ SavingInv'
  BY <1>1, <1>4, <1>5 DEF Inv, SelectedInv, SavingInv
<1> QED
  BY <1>4, <1>6 DEF Inv

-------------------------------------------------------------------------------
(***************************************************************************)
(* Saving a form.                                                          *)
(***************************************************************************)
\* Where the elements of three sequences are in their concatenation.
LEMMA ThreeParts ==
  ASSUME NEW S, NEW a \in Seq(S), NEW b \in Seq(S), NEW c \in Seq(S), NEW abc, abc = (a \o b) \o c
  PROVE  /\ abc \in Seq(S) /\ Len(abc) = Len(a) + Len(b) + Len(c)
         /\ \A i \in 1..Len(a) : abc[i] = a[i]
         /\ \A i \in 1..Len(b) : abc[Len(a) + i] = b[i]
         /\ \A i \in (Len(a) + Len(b) + 1)..(Len(a) + Len(b) + Len(c)) : abc[i] = c[i - (Len(a) + Len(b))]
<1>1. PICK ab \in Seq(S) : ab = a \o b
  BY ConcatProperties
<1>2. abc = ab \o c
  BY <1>1
<1>3. /\ ab \in Seq(S) /\ Len(ab) = Len(a) + Len(b)
      /\ \A i \in 1..(Len(a) + Len(b)) : ab[i] = IF i <= Len(a) THEN a[i] ELSE b[i - Len(a)]
  BY <1>1, ConcatProperties
<1>4. /\ abc \in Seq(S) /\ Len(abc) = Len(ab) + Len(c)
      /\ \A i \in 1..(Len(ab) + Len(c)) : abc[i] = IF i <= Len(ab) THEN ab[i] ELSE c[i - Len(ab)]
  <2>1. /\ ab \o c \in Seq(S) /\ Len(ab \o c) = Len(ab) + Len(c)
        /\ \A i \in 1..(Len(ab) + Len(c)) : (ab \o c)[i] = IF i <= Len(ab) THEN ab[i] ELSE c[i - Len(ab)]
    BY ConcatProperties
  <2> QED
    BY <1>2, <2>1
<1>5. PICK k \in Nat, m \in Nat, n \in Nat : k = Len(a) /\ m = Len(b) /\ n = Len(c)
  OBVIOUS
<1>6. /\ \A i \in 1..(k + m) : ab[i] = IF i <= k THEN a[i] ELSE b[i - k]
      /\ \A i \in 1..((k + m) + n) : abc[i] = IF i <= k + m THEN ab[i] ELSE c[i - (k + m)]
      /\ Len(abc) = (k + m) + n
  BY <1>3, <1>4, <1>5
<1>7. \A i \in 1..k : abc[i] = a[i]
  <2> TAKE i \in 1..k
  <2>1. i \in 1..(k + m) /\ i \in 1..((k + m) + n) /\ i <= k + m /\ i <= k
    OBVIOUS
  <2> QED
    BY <1>6, <2>1
<1>8. \A i \in 1..m : abc[k + i] = b[i]
  <2> TAKE i \in 1..m
  <2>1. k + i \in 1..(k + m) /\ k + i \in 1..((k + m) + n) /\ k + i <= k + m /\ ~(k + i <= k) /\ (k + i) - k = i
    OBVIOUS
  <2> QED
    BY <1>6, <2>1
<1>9. \A i \in (k + m + 1)..(k + m + n) : abc[i] = c[i - (k + m)]
  <2> TAKE i \in (k + m + 1)..(k + m + n)
  <2>1. i \in 1..((k + m) + n) /\ ~(i <= k + m)
    OBVIOUS
  <2> QED
    BY <1>6, <2>1
<1>10. /\ abc \in Seq(S) /\ Len(abc) = k + m + n
       /\ \A i \in 1..k : abc[i] = a[i]
       /\ \A i \in 1..m : abc[k + i] = b[i]
       /\ \A i \in (k + m + 1)..(k + m + n) : abc[i] = c[i - (k + m)]
  BY <1>4, <1>6, <1>7, <1>8, <1>9
<1> HIDE <1>6, <1>7, <1>8, <1>9, <1>3, <1>4
<1> QED
  BY <1>1, <1>2, <1>5, <1>10

\* What is asked for first creates the interface.
LEMMA CreationIs ==
  ASSUME NEW f \in Form
  PROVE  /\ Creation(f) \in Seq(RequestType) /\ Len(Creation(f)) \in Nat
         /\ \A i \in 1..Len(Creation(f)) : Creation(f)[i].op \in {"AddLink", "Check"}
<1>1. f.device \in Device /\ f.new \in {"No", "Link", "Wlan"}
  BY DEF Form
<1>2. /\ Ask("AddLink", f.device) \in RequestType /\ Ask("Check", f.device) \in RequestType
      /\ Ask("AddLink", f.device).op = "AddLink" /\ Ask("Check", f.device).op = "Check"
  BY <1>1, AskTypes DEF Ask
<1>3. CASE f.new = "No"
  <2>1. Creation(f) = <<>>
    BY <1>3 DEF Creation
  <2> QED
    BY <2>1, EmptySeq
<1>4. CASE f.new = "Link"
  <2>1. Creation(f) = <<Ask("AddLink", f.device)>>
    BY <1>4 DEF Creation
  <2> QED
    BY <1>2, <2>1
<1>5. CASE f.new = "Wlan"
  <2>1. Creation(f) = <<Ask("AddLink", f.device), Ask("Check", f.device)>>
    BY <1>5 DEF Creation
  <2> QED
    BY <1>2, <2>1
<1> QED
  BY <1>1, <1>3, <1>4, <1>5

\* What is asked for at last need not succeed.
LEMMA RefreshesAre ==
  ASSUME NEW f \in Form
  PROVE  LET last == (IF f.new = "Wlan" THEN <<>> ELSE RefreshInterfaces) \o (IF f.device = Wlan THEN RefreshWifi ELSE <<>>)
         IN  /\ last \in Seq(RequestType) /\ Len(last) \in Nat
             /\ \A i \in 1..Len(last) : ~Must(last[i])
<1> DEFINE x == IF f.new = "Wlan" THEN <<>> ELSE RefreshInterfaces
           y == IF f.device = Wlan THEN RefreshWifi ELSE <<>>
<1>1. x \in Seq(RequestType) /\ \A i \in 1..Len(x) : ~Must(x[i])
  <2>1. CASE f.new = "Wlan"
    BY <2>1, EmptySeq
  <2>2. CASE f.new # "Wlan"
    <3>1. x = RefreshInterfaces
      BY <2>2
    <3>2. \A i \in 1..Len(RefreshInterfaces) : i = 1
      BY RefreshTypes
    <3> HIDE DEF x
    <3> QED
      BY <3>1, <3>2, RefreshTypes
  <2> QED
    BY <2>1, <2>2
<1>2. y \in Seq(RequestType) /\ \A i \in 1..Len(y) : ~Must(y[i])
  <2>1. CASE f.device # Wlan
    BY <2>1, EmptySeq
  <2>2. CASE f.device = Wlan
    <3>1. y = RefreshWifi
      BY <2>2
    <3>2. \A i \in 1..Len(RefreshWifi) : i = 1 \/ i = 2
      BY RefreshTypes
    <3> HIDE DEF y
    <3> QED
      BY <3>1, <3>2, RefreshTypes
  <2> QED
    BY <2>1, <2>2
<1> HIDE DEF x, y
<1>3. PICK s : s = x \o y
  OBVIOUS
<1>4. /\ s \in Seq(RequestType) /\ Len(s) = Len(x) + Len(y)
      /\ \A i \in 1..(Len(x) + Len(y)) : s[i] = IF i <= Len(x) THEN x[i] ELSE y[i - Len(x)]
  BY <1>1, <1>2, <1>3, ConcatProperties
<1>5. PICK m \in Nat, n \in Nat : m = Len(x) /\ n = Len(y)
  BY <1>1, <1>2
<1>6. ASSUME NEW i \in 1..(m + n) PROVE ~Must(s[i])
  <2>1. CASE i <= m
    BY <1>1, <1>4, <1>5, <2>1
  <2>2. CASE ~(i <= m)
    <3>1. i - m \in 1..n
      BY <2>2
    <3> QED
      BY <1>2, <1>4, <1>5, <2>2, <3>1
  <2> QED
    BY <2>1, <2>2
<1>7. s \in Seq(RequestType) /\ Len(s) = m + n /\ \A i \in 1..Len(s) : ~Must(s[i])
  BY <1>4, <1>5, <1>6
<1> QED
  <2>1. (x \o y) \in Seq(RequestType) /\ Len(x \o y) \in Nat /\ \A i \in 1..Len(x \o y) : ~Must((x \o y)[i])
    BY <1>3, <1>5, <1>7
  <2> QED
    BY <2>1 DEF x, y

Save(f) ==
  Creation(f) \o InterfaceActions(f) \o (IF f.new = "Wlan" THEN <<>> ELSE RefreshInterfaces)
    \o (IF f.device = Wlan THEN RefreshWifi ELSE <<>>)

\* At first all modifications remain.
LEMMA SaveIs ==
  ASSUME NEW f \in Form
  PROVE  /\ Save(f) \in Seq(RequestType)
         /\ Len(Creation(f)) \in 0..Len(Save(f)) /\ 0 \in 0..Len(InterfaceActions(f))
         /\ Remaining(Save(f), f, Len(Creation(f)), 0)
<1> DEFINE x == IF f.new = "Wlan" THEN <<>> ELSE RefreshInterfaces
           y == IF f.device = Wlan THEN RefreshWifi ELSE <<>>
<1>1. PICK a \in Seq(RequestType) : a = Creation(f) /\ \A i \in 1..Len(a) : a[i].op \in {"AddLink", "Check"}
  BY CreationIs
<1>2. PICK b \in Seq(RequestType) : b = InterfaceActions(f) /\ Len(b) > 0
  <2>1. InterfaceActions(f) \in Seq(RequestType) /\ Len(InterfaceActions(f)) \in Nat \ {0}
    BY InterfaceActionsAre
  <2> QED
    BY <2>1
<1>3. PICK c \in Seq(RequestType) : c = x \o y /\ \A i \in 1..Len(c) : ~Must(c[i])
  BY RefreshesAre
<1>4. x \in Seq(RequestType) /\ y \in Seq(RequestType)
  BY RefreshTypes, EmptySeq
<1>5. Save(f) = (a \o b) \o c
  <2>1. Save(f) = ((a \o b) \o x) \o y
    BY <1>1, <1>2 DEF Save
  <2>2. a \o b \in Seq(RequestType)
    BY ConcatProperties
  <2>4. PICK ab \in Seq(RequestType) : ab = a \o b
    BY <2>2
  <2> HIDE DEF x, y
  <2>3. \A s, t, u \in Seq(RequestType) : (s \o t) \o u = s \o (t \o u)
    BY ConcatAssociative, SMTT(30)
  <2>5. (ab \o x) \o y = ab \o (x \o y)
    BY <1>4, <2>3, Zenon
  <2> QED
    BY <1>3, <2>1, <2>4, <2>5, Zenon
<1> HIDE DEF x, y
<1>6. PICK t \in Seq(RequestType) :
        /\ t = Save(f)
        /\ Len(t) = Len(a) + Len(b) + Len(c)
        /\ \A i \in 1..Len(a) : t[i] = a[i]
        /\ \A i \in 1..Len(b) : t[Len(a) + i] = b[i]
        /\ \A i \in (Len(a) + Len(b) + 1)..(Len(a) + Len(b) + Len(c)) : t[i] = c[i - (Len(a) + Len(b))]
  <2>1. PICK t : t = Save(f)
    OBVIOUS
  <2>2. t = (a \o b) \o c
    BY <1>5, <2>1
  <2>3. /\ t \in Seq(RequestType)
        /\ Len(t) = Len(a) + Len(b) + Len(c)
        /\ \A i \in 1..Len(a) : t[i] = a[i]
        /\ \A i \in 1..Len(b) : t[Len(a) + i] = b[i]
        /\ \A i \in (Len(a) + Len(b) + 1)..(Len(a) + Len(b) + Len(c)) : t[i] = c[i - (Len(a) + Len(b))]
    BY <2>2, ThreeParts
  <2> QED
    BY <2>1, <2>3
<1>7. \A i \in (Len(a) + Len(b) + 1)..Len(t) : ~Must(t[i])
  <2> TAKE i \in (Len(a) + Len(b) + 1)..Len(t)
  <2>1. i - (Len(a) + Len(b)) \in 1..Len(c) /\ t[i] = c[i - (Len(a) + Len(b))]
    BY <1>6
  <2> QED
    BY <1>3, <2>1
<1>8. \A i \in 1..Len(a) : t[i].op \in {"AddLink", "Check"}
  BY <1>1, <1>6
<1>9. Remaining(t, f, Len(a), 0)
  <2>1. Len(b) - 0 = Len(b) /\ \A i \in 1..Len(b) : 0 + i = i
    OBVIOUS
  <2>2. /\ 0 < Len(b) /\ Len(a) + Len(b) <= Len(t)
        /\ \A i \in 1..Len(b) : t[Len(a) + i] = b[0 + i]
    BY <1>2, <1>6, <2>1
  <2> QED
    BY <1>2, <1>7, <1>8, <2>1, <2>2 DEF Remaining
<1> QED
  BY <1>1, <1>2, <1>6, <1>9

\* Saving begins with none of them made.
LEMMA SaveEditorInv == ASSUME Inv, SaveEditor PROVE Inv'
<1>1. PICK f : f = popup.form
  OBVIOUS
<1>2. /\ popup.kind = "Editor" /\ task.todo = <<>> /\ commands < MaxCommands /\ commands' = commands + 1
      /\ popup' = NoPopup /\ UNCHANGED screen /\ Handle(Save(f), NoPopup, f)
  BY <1>1 DEF SaveEditor, Save, Free
<1>3. f \in Form /\ screen \in Screen /\ commands' \in 0..MaxCommands
  BY <1>1, <1>2, PopupFields, TerminalAssumption DEF Inv, TypesInv, TypeOK, Screen
<1>4. /\ Save(f) \in Seq(RequestType)
      /\ Len(Creation(f)) \in 0..Len(Save(f)) /\ 0 \in 0..Len(InterfaceActions(f))
      /\ Remaining(Save(f), f, Len(Creation(f)), 0)
  BY <1>3, SaveIs
<1>5. NoPopup \in Popup /\ NoPopup.kind = "None"
  BY PopupTypes DEF NoPopup
<1>6. /\ TypesInv' /\ AwaitedInv'
      /\ \/ task' = Idle
         \/ task' = [todo |-> Save(f), after |-> NoPopup, goal |-> f]
      /\ UNCHANGED <<links, kernel, assoc, taken, late>>
      /\ late = 0 => replies' = <<>>
  BY <1>2, <1>3, <1>4, <1>5, HandleStep
<1>7. SelectedInv'
  BY <1>2, <1>5, <1>6 DEF SelectedInv, Idle
<1>8. SavingInv'
  <2>1. CASE task' = Idle
    BY <2>1 DEF SavingInv, Idle
  <2>2. CASE task' = [todo |-> Save(f), after |-> NoPopup, goal |-> f]
    <3>1. task'.todo = Save(f) /\ task'.after = NoPopup /\ task'.goal = f
      BY <2>2
    <3>2. late' = 0 => replies' = <<>>
      BY <1>6
    <3>3. Saved4(f, 0)'
      BY DEF Saved4
    <3>4. replies' = <<>> => ~Granted'
      BY DEF Granted
    <3>5. PICK j : j = Len(Creation(f))
      OBVIOUS
    <3>6. late' = 0 =>
             /\ j \in 0..Len(Save(f)) /\ 0 \in 0..Len(InterfaceActions(f))
             /\ Remaining(Save(f), f, j, 0)
             /\ replies' = <<>> => Saved4(f, 0)'
             /\ j = 0 /\ Granted' => Saved4(f, 0 + 1)'
      BY <1>4, <3>2, <3>3, <3>4, <3>5
    <3>7. late' = 0 =>
            \E jj \in 0..Len(Save(f)), k \in 0..Len(InterfaceActions(f)) :
             /\ Remaining(Save(f), f, jj, k)
             /\ replies' = <<>> => Saved4(f, k)'
             /\ jj = 0 /\ Granted' => Saved4(f, k + 1)'
      BY <3>6
    <3> QED
      BY <3>1, <3>7 DEF SavingInv
  <2> QED
    BY <1>6, <2>1, <2>2
<1> QED
  BY <1>6, <1>7, <1>8 DEF Inv

-------------------------------------------------------------------------------
(***************************************************************************)
(* Replies.                                                                *)
(***************************************************************************)
\* The first request is the last that must succeed.
Last(todo) == Must(Head(todo)) /\ \A i \in 2..Len(todo) : ~Must(todo[i])

\* What a reply that fits carries.
LEMMA ReplyData ==
  ASSUME NEW q \in RequestType, NEW r \in ReplyType, Fits(q, r)
  PROVE  /\ q.op \in {"List", "Check"} => r.data \in Links
         /\ q.op \in {"Status", "Poll"} => r.data \in Status
         /\ q.op = "Known" => r.data \in SUBSET Network
<1>1. ASSUME q.op \in {"List", "Check"} PROVE r.data \in Links
  <2>1. r.shape = "InfoList"
    BY <1>1 DEF Fits
  <2> QED
    BY <2>1 DEF ReplyType
<1>2. ASSUME q.op \in {"Status", "Poll"} PROVE r.data \in Status
  <2>1. r.shape = "Status"
    BY <1>2 DEF Fits
  <2> QED
    BY <2>1 DEF ReplyType
<1>3. ASSUME q.op = "Known" PROVE r.data \in SUBSET Network
  <2>1. r.shape = "KnownNetworks"
    BY <1>3 DEF Fits
  <2> QED
    BY <2>1 DEF ReplyType
<1> QED
  BY <1>1, <1>2, <1>3

\* The first request and the others.
LEMMA TailOfTodo ==
  ASSUME NEW todo \in Seq(RequestType), todo # <<>>
  PROVE  /\ Head(todo) \in RequestType /\ Head(todo) = todo[1] /\ Tail(todo) \in Seq(RequestType)
         /\ Len(todo) \in Nat \ {0} /\ Len(Tail(todo)) = Len(todo) - 1
         /\ \A i \in 1..(Len(todo) - 1) : Tail(todo)[i] = todo[i + 1]
  BY HeadTailProperties

\* A reply ends the handler, ends the wait for a connection, or lets the handler go on.
LEMMA ContinueCases ==
  ASSUME Inv, task.todo # <<>>, NEW r \in ReplyType, Continue(r)
  PROVE  LET q  == Head(task.todo)
             ok == Fits(q, r)
         IN  \/ popup' = Message /\ task' = Idle
             \/ /\ q.op = "Poll" /\ popup' = NoPopup /\ task' = [task EXCEPT !.todo = RefreshInterfaces]
             \/ /\ Must(q) => ok
                /\ task'.todo = Due(Tail(task.todo), DOMAIN interfaces')
                /\ task' = IF task'.todo = <<>> THEN Idle
                           ELSE IF Last(task.todo) THEN [Idle EXCEPT !.todo = task'.todo]
                           ELSE [task EXCEPT !.todo = task'.todo]
                /\ popup'.kind = "Connecting" => popup' = IF Last(task.todo) THEN task.after ELSE popup
<1> DEFINE q     == Head(task.todo)
           ok    == Fits(q, r)
           list  == IF ok /\ q.op \in {"List", "Check"} THEN r.data ELSE interfaces
           nets  == IF ok /\ q.op = "Known" THEN r.data ELSE known
           fails == \/ Must(q) /\ ~ok
                    \/ q.op = "Check" /\ q.arg \notin DOMAIN list
           joined == q.op = "Poll" /\ ok /\ r.data.state = "Completed"
           rest  == IF fails THEN <<>>
                    ELSE IF joined THEN RefreshInterfaces
                    ELSE Due(Tail(task.todo), DOMAIN list)
           shown == IF fails \/ (q.op = "List" /\ ~ok) \/ (q.op = "Poll" /\ ok /\ r.data.state = "Disconnected")
                    THEN Message
                    ELSE IF Last(task.todo) THEN task.after ELSE IF joined THEN NoPopup ELSE popup
<1>1. /\ interfaces' = list
      /\ popup' = IF rest = <<>> /\ shown.kind = "SavedNetworks"
                  THEN [shown EXCEPT !.networks = nets] ELSE shown
      /\ task' = IF rest = <<>> THEN Idle
                 ELSE IF Last(task.todo) THEN [Idle EXCEPT !.todo = rest] ELSE [task EXCEPT !.todo = rest]
  BY DEF Continue, Last
<1>2. task \in TaskType /\ task.after \in Popup /\ popup \in Popup
  BY DEF Inv, TypesInv, TypeOK
<1>3. shown \in Popup
  BY <1>2, PopupTypes
<1>4. /\ Message.kind = "Message" /\ NoPopup.kind = "None" /\ RefreshInterfaces # <<>>
  BY RefreshTypes DEF Message, NoPopup, RefreshInterfaces
<1>5. popup'.kind = "Connecting" => popup' = shown
  <2>1. shown.kind = "SavedNetworks" => [shown EXCEPT !.networks = nets].kind = "SavedNetworks"
    BY <1>3 DEF Popup
  <2> HIDE DEF shown, rest, nets
  <2> QED
    BY <1>1, <2>1
<1>6. task'.todo = rest
  BY <1>1, <1>2 DEF TaskType, Idle
<1>7. CASE fails
  <2>1. rest = <<>> /\ shown = Message
    BY <1>7
  <2> HIDE DEF shown, rest
  <2> QED
    BY <1>1, <1>4, <2>1
<1>8. CASE ~fails /\ joined
  <2>1. q.op = "Poll" /\ ~Must(q) /\ ~Last(task.todo)
    BY <1>8 DEF Must, Last
  <2>2. rest = RefreshInterfaces /\ shown = NoPopup
    BY <1>8, <2>1
  <2> HIDE DEF shown, rest
  <2> QED
    BY <1>1, <1>4, <2>1, <2>2
<1>9. CASE ~fails /\ ~joined
  <2>1. Must(q) => ok
    BY <1>9
  <2>2. rest = Due(Tail(task.todo), DOMAIN list)
    BY <1>9
  <2>3. shown.kind = "Connecting" => shown = IF Last(task.todo) THEN task.after ELSE popup
    BY <1>4, <1>9
  <2> HIDE DEF shown, rest, fails, joined
  <2> QED
    BY <1>1, <1>5, <1>6, <2>1, <2>2, <2>3
<1> QED
  BY <1>7, <1>8, <1>9

\* What a reply leaves has its types, and one request at most is sent.
LEMMA ContinueTypes ==
  ASSUME Inv, task.todo # <<>>, NEW r \in ReplyType, Continue(r)
  PROVE  /\ interfaces' \in Links /\ known' \in SUBSET Network /\ status' \in Status /\ screen' \in Screen
         /\ popup' \in Popup
         /\ task' \in TaskType /\ task'.after \in Popup /\ task'.goal \in Form \cup {None}
         /\ requests' \in Seq(RequestType)
         /\ Len(requests') = Len(requests) + (IF task'.todo = <<>> THEN 0 ELSE 1)
         /\ requests = <<>> => requests' = IF task'.todo = <<>> THEN <<>> ELSE <<Head(task'.todo)>>
<1> DEFINE q     == Head(task.todo)
           ok    == Fits(q, r)
           list  == IF ok /\ q.op \in {"List", "Check"} THEN r.data ELSE interfaces
           nets  == IF ok /\ q.op = "Known" THEN r.data ELSE known
           fails == \/ Must(q) /\ ~ok
                    \/ q.op = "Check" /\ q.arg \notin DOMAIN list
           joined == q.op = "Poll" /\ ok /\ r.data.state = "Completed"
           rest  == IF fails THEN <<>>
                    ELSE IF joined THEN RefreshInterfaces
                    ELSE Due(Tail(task.todo), DOMAIN list)
           shown == IF fails \/ (q.op = "List" /\ ~ok) \/ (q.op = "Poll" /\ ok /\ r.data.state = "Disconnected")
                    THEN Message
                    ELSE IF Last(task.todo) THEN task.after ELSE IF joined THEN NoPopup ELSE popup
<1>1. /\ interfaces' = list /\ known' = nets
      /\ status' = IF ok /\ (q.op = "Status" \/ joined) THEN r.data ELSE status
      /\ screen' = IF q.op = "SetHostname" /\ ok THEN "MainMenu" ELSE screen
      /\ popup' = IF rest = <<>> /\ shown.kind = "SavedNetworks"
                  THEN [shown EXCEPT !.networks = nets] ELSE shown
      /\ task' = IF rest = <<>> THEN Idle
                 ELSE IF Last(task.todo) THEN [Idle EXCEPT !.todo = rest] ELSE [task EXCEPT !.todo = rest]
      /\ requests' = requests \o First(rest)
  BY DEF Continue, Last
<1>2. /\ task \in TaskType /\ task.after \in Popup /\ popup \in Popup /\ task.goal \in Form \cup {None}
      /\ interfaces \in Links /\ known \in SUBSET Network /\ status \in Status /\ screen \in Screen
      /\ requests \in Seq(RequestType) /\ task.todo \in Seq(RequestType)
  BY DEF Inv, TypesInv, TypeOK, Screen, TaskType
<1>3. q \in RequestType /\ Tail(task.todo) \in Seq(RequestType)
  BY <1>2, TailOfTodo
<1>4. shown \in Popup
  BY <1>2, PopupTypes
<1>5. rest \in Seq(RequestType)
  <2>1. Due(Tail(task.todo), DOMAIN list) \in {Tail(task.todo), <<>>}
    BY <1>3, DueIs
  <2>2. <<>> \in Seq(RequestType)
    BY EmptySeq
  <2> HIDE DEF list, fails, joined, q
  <2> QED
    BY <1>3, <2>1, <2>2, RefreshTypes, Zenon
<1> HIDE DEF rest, shown
<1>6. interfaces' \in Links /\ known' \in SUBSET Network /\ status' \in Status /\ screen' \in Screen
  <2>1. ok => /\ q.op \in {"List", "Check"} => r.data \in Links
              /\ q.op \in {"Status", "Poll"} => r.data \in Status
              /\ q.op = "Known" => r.data \in SUBSET Network
    BY <1>3, ReplyData
  <2> HIDE DEF ok, q
  <2> QED
    BY <1>1, <1>2, <2>1 DEF Screen
<1>7. nets \in SUBSET Network
  BY <1>1, <1>6
<1> HIDE DEF nets, list, ok, joined, fails, q
<1>8. popup' \in Popup
  BY <1>1, <1>4, <1>7, PopupFields
<1>9. task' \in TaskType /\ task'.after \in Popup /\ task'.goal \in Form \cup {None} /\ task'.todo = rest
  BY <1>1, <1>2, <1>5, PopupTypes, EmptySeq DEF TaskType, Idle
<1>10. /\ First(rest) \in Seq(RequestType)
       /\ Len(First(rest)) = IF rest = <<>> THEN 0 ELSE 1
       /\ First(rest) = IF rest = <<>> THEN <<>> ELSE <<Head(rest)>>
  BY <1>5 DEF First
<1>11. /\ requests \o First(rest) \in Seq(RequestType)
       /\ Len(requests \o First(rest)) = Len(requests) + Len(First(rest))
       /\ <<>> \o First(rest) = First(rest)
  BY <1>2, <1>10, ConcatProperties, ConcatEmptySeq
<1>12. /\ requests' \in Seq(RequestType) /\ Len(requests') = Len(requests) + Len(First(rest))
       /\ requests = <<>> => requests' = First(rest)
  BY <1>1, <1>11
<1> QED
  BY <1>6, <1>8, <1>9, <1>10, <1>12

-------------------------------------------------------------------------------
(***************************************************************************)
(* How far a form is saved.                                                *)
(***************************************************************************)
Fields(todo, mods, j, k, n) ==
  /\ n \in Nat \ {0} /\ Len(mods) \in Nat /\ k < Len(mods) /\ (j > 0 => k = 0)
  /\ Len(todo) \in Nat \ {0} /\ j + n <= Len(todo)
  /\ \A i \in 1..j : todo[i].op \in {"AddLink", "Check"}
  /\ \A i \in 1..n : todo[j + i] = mods[k + i] /\ todo[j + i].op = "ModLink" /\ Must(todo[j + i])
  /\ \A i \in (j + n + 1)..Len(todo) : ~Must(todo[i])

\* What remains of a save, spelled out.
LEMMA RemainingFields ==
  ASSUME NEW f \in Form, NEW todo \in Seq(RequestType), NEW j \in Nat, NEW k \in Nat, Remaining(todo, f, j, k),
         NEW mods, mods = InterfaceActions(f), NEW n, n = Len(mods) - k
  PROVE  Fields(todo, mods, j, k, n)
<1>2. Len(mods) \in Nat /\ \A i \in 1..Len(mods) : mods[i].op = "ModLink" /\ Must(mods[i])
  <2>1. /\ Len(InterfaceActions(f)) \in Nat
        /\ \A i \in 1..Len(InterfaceActions(f)) :
             InterfaceActions(f)[i] = Modify(f.device, At(Modifications(f.mode4, f.v4), i), At(Changes6(f), i),
                                   IF i = 1 THEN [dhcp |-> f.mode4 = "Automatic", slaac |-> f.slaac] ELSE NoChange,
                                   NoChange)
    BY InterfaceActionsAre, Zenon
  <2>2. \A d, x, y, z, u : Modify(d, x, y, z, u).op = "ModLink"
    BY DEF Modify, Ask
  <2> QED
    BY <2>1, <2>2 DEF Must
<1>4. /\ k < Len(mods) /\ (j > 0 => k = 0) /\ j + n <= Len(todo)
      /\ \A i \in 1..j : todo[i].op \in {"AddLink", "Check"}
      /\ \A i \in 1..n : todo[j + i] = mods[k + i]
      /\ \A i \in (j + n + 1)..Len(todo) : ~Must(todo[i])
  BY DEF Remaining
<1>5. n \in Nat \ {0} /\ Len(todo) \in Nat \ {0}
  BY <1>2, <1>4
<1>6. \A i \in 1..n : todo[j + i].op = "ModLink" /\ Must(todo[j + i])
  <2> TAKE i \in 1..n
  <2>1. k + i \in 1..Len(mods)
    BY <1>2, <1>5
  <2> QED
    BY <1>2, <1>4, <2>1
<1> QED
  BY <1>2, <1>4, <1>5, <1>6 DEF Fields

\* The next request must succeed, and is the last that must exactly at the end.
LEMMA RemainingHead ==
  ASSUME NEW f \in Form, NEW todo \in Seq(RequestType), NEW j \in Nat, NEW k \in Nat, Remaining(todo, f, j, k)
  PROVE  /\ todo # <<>> /\ Must(Head(todo)) /\ Head(todo).op \in {"AddLink", "Check", "ModLink"}
         /\ j = 0 => Head(todo) = InterfaceActions(f)[k + 1]
         /\ Last(todo) <=> j = 0 /\ k + 1 = Len(InterfaceActions(f))
<1>1. PICK mods : mods = InterfaceActions(f)
  OBVIOUS
<1>2. PICK n : n = Len(mods) - k
  OBVIOUS
<1>3. /\ n \in Nat \ {0} /\ Len(mods) \in Nat /\ k < Len(mods) /\ (j > 0 => k = 0)
      /\ Len(todo) \in Nat \ {0} /\ j + n <= Len(todo)
      /\ \A i \in 1..j : todo[i].op \in {"AddLink", "Check"}
      /\ \A i \in 1..n : todo[j + i] = mods[k + i] /\ todo[j + i].op = "ModLink" /\ Must(todo[j + i])
      /\ \A i \in (j + n + 1)..Len(todo) : ~Must(todo[i])
  <2>1. Fields(todo, mods, j, k, n)
    BY <1>1, <1>2, RemainingFields
  <2> QED
    BY <2>1 DEF Fields
<1>4. todo # <<>> /\ Head(todo) = todo[1]
  BY <1>3
<1>5. todo[j + 1] = mods[k + 1] /\ todo[j + 1].op = "ModLink" /\ Must(todo[j + 1])
  BY <1>3
<1>6. CASE j = 0
  <2>1. j + 1 = 1
    BY <1>6
  <2>2. Head(todo) = mods[k + 1] /\ Must(Head(todo)) /\ Head(todo).op = "ModLink"
    BY <1>4, <1>5, <2>1
  <2>3. CASE n = 1
    <3>1. k + 1 = Len(mods)
      BY <1>2, <1>3, <2>3
    <3>2. \A i \in 2..Len(todo) : ~Must(todo[i])
      <4>1. j + n + 1 = 2
        BY <1>6, <2>3
      <4> QED
        BY <1>3, <4>1
    <3> QED
      BY <1>1, <1>4, <1>6, <2>2, <3>1, <3>2 DEF Last
  <2>4. CASE n # 1
    <3>1. k + 1 # Len(mods)
      BY <1>2, <1>3, <2>4
    <3>2. 2 \in 1..n /\ j + 2 = 2 /\ 2 \in 2..Len(todo)
      BY <1>3, <1>6, <2>4
    <3>3. Must(todo[2])
      BY <1>3, <3>2
    <3>4. ~Last(todo)
      BY <3>2, <3>3 DEF Last
    <3> QED
      BY <1>1, <1>4, <1>6, <2>2, <3>1, <3>4
  <2> QED
    BY <2>3, <2>4
<1>7. CASE j # 0
  <2>1. 1 \in 1..j /\ j + 1 \in 2..Len(todo)
    BY <1>3, <1>7
  <2>2. todo[1].op \in {"AddLink", "Check"}
    BY <1>3, <2>1
  <2>3. ~Last(todo)
    BY <1>5, <2>1 DEF Last
  <2>4. Must(Head(todo)) /\ Head(todo).op \in {"AddLink", "Check"}
    BY <1>4, <2>2 DEF Must
  <2> QED
    BY <1>4, <1>7, <2>3, <2>4
<1> QED
  BY <1>6, <1>7

\* Before the end what remains after the next request remains.
LEMMA RemainingTail ==
  ASSUME NEW f \in Form, NEW todo \in Seq(RequestType), NEW j \in Nat, NEW k \in Nat, Remaining(todo, f, j, k),
         ~Last(todo)
  PROVE  /\ Tail(todo) # <<>> /\ Head(Tail(todo)).op # "Status"
         /\ j > 0 => j - 1 \in 0..Len(Tail(todo)) /\ k = 0 /\ Remaining(Tail(todo), f, j - 1, 0)
         /\ j = 0 => k + 1 \in 0..Len(InterfaceActions(f)) /\ Remaining(Tail(todo), f, 0, k + 1)
<1>1. PICK mods : mods = InterfaceActions(f)
  OBVIOUS
<1>2. PICK n : n = Len(mods) - k
  OBVIOUS
<1>3. /\ n \in Nat \ {0} /\ Len(mods) \in Nat /\ k < Len(mods) /\ (j > 0 => k = 0)
      /\ Len(todo) \in Nat \ {0} /\ j + n <= Len(todo)
      /\ \A i \in 1..j : todo[i].op \in {"AddLink", "Check"}
      /\ \A i \in 1..n : todo[j + i] = mods[k + i] /\ todo[j + i].op = "ModLink" /\ Must(todo[j + i])
      /\ \A i \in (j + n + 1)..Len(todo) : ~Must(todo[i])
  <2>1. Fields(todo, mods, j, k, n)
    BY <1>1, <1>2, RemainingFields
  <2> QED
    BY <2>1 DEF Fields
<1>4. PICK rest \in Seq(RequestType) :
        /\ rest = Tail(todo) /\ Len(rest) = Len(todo) - 1
        /\ \A i \in 1..(Len(todo) - 1) : rest[i] = todo[i + 1]
  <2>1. todo # <<>>
    BY <1>3
  <2>2. /\ Tail(todo) \in Seq(RequestType) /\ Len(Tail(todo)) = Len(todo) - 1
        /\ \A i \in 1..(Len(todo) - 1) : Tail(todo)[i] = todo[i + 1]
    BY <2>1, TailOfTodo
  <2> QED
    BY <2>2
<1>5. CASE j > 0
  <2>1. k = 0 /\ n = Len(mods) /\ j - 1 \in 0..Len(rest) /\ (j - 1) + n <= Len(rest) /\ Len(rest) \in Nat \ {0}
    BY <1>2, <1>3, <1>4, <1>5
  <2>2. \A i \in 1..(j - 1) : rest[i].op \in {"AddLink", "Check"}
    <3> TAKE i \in 1..(j - 1)
    <3>1. i \in 1..(Len(todo) - 1) /\ i + 1 \in 1..j
      BY <1>3, <1>5
    <3> QED
      BY <1>3, <1>4, <3>1
  <2>3. \A i \in 1..n : rest[(j - 1) + i] = mods[0 + i]
    <3> TAKE i \in 1..n
    <3>1. (j - 1) + i \in 1..(Len(todo) - 1) /\ ((j - 1) + i) + 1 = j + i /\ k + i = 0 + i
      BY <1>3, <1>5, <2>1
    <3> QED
      BY <1>3, <1>4, <3>1
  <2>4. \A i \in ((j - 1) + n + 1)..Len(rest) : ~Must(rest[i])
    <3> TAKE i \in ((j - 1) + n + 1)..Len(rest)
    <3>1. i \in 1..(Len(todo) - 1) /\ i + 1 \in (j + n + 1)..Len(todo)
      BY <1>3, <1>4, <1>5
    <3> QED
      BY <1>3, <1>4, <3>1
  <2>5. Remaining(rest, f, j - 1, 0)
    <3>1. Len(mods) - 0 = n /\ 0 < Len(mods)
      BY <1>3, <2>1
    <3> QED
      BY <1>1, <2>1, <2>2, <2>3, <2>4, <3>1 DEF Remaining
  <2>6. rest # <<>> /\ Head(rest).op # "Status"
    <3>1. rest # <<>> /\ Head(rest) = rest[1] /\ rest[1] = todo[2]
      BY <1>3, <1>4, <2>1
    <3>2. todo[2].op \in {"AddLink", "Check", "ModLink"}
      <4>1. CASE j = 1
        BY <1>3, <4>1
      <4>2. CASE j # 1
        <5>1. 2 \in 1..j
          BY <1>5, <4>2
        <5> QED
          BY <1>3, <5>1
      <4> QED
        BY <4>1, <4>2
    <3> QED
      BY <3>1, <3>2
  <2> QED
    BY <1>4, <1>5, <2>1, <2>5, <2>6
<1>6. CASE j = 0
  <2>1. k + 1 # Len(mods)
    BY <1>1, <1>6, RemainingHead
  <2>2. n \in Nat /\ n > 1 /\ Len(mods) - (k + 1) = n - 1 /\ k + 1 < Len(mods) /\ k + 1 \in 0..Len(mods)
        /\ 0 + (n - 1) <= Len(rest) /\ Len(rest) \in Nat \ {0}
    BY <1>2, <1>3, <1>4, <1>6, <2>1
  <2>3. \A i \in 1..(n - 1) : rest[0 + i] = mods[(k + 1) + i]
    <3> TAKE i \in 1..(n - 1)
    <3>1. /\ 0 + i = i /\ i \in 1..(Len(todo) - 1) /\ i + 1 \in 1..n /\ j + (i + 1) = i + 1
          /\ k + (i + 1) = (k + 1) + i
      BY <1>3, <1>6, <2>2
    <3> QED
      BY <1>3, <1>4, <3>1
  <2>4. \A i \in (0 + (n - 1) + 1)..Len(rest) : ~Must(rest[i])
    <3> TAKE i \in (0 + (n - 1) + 1)..Len(rest)
    <3>1. i \in 1..(Len(todo) - 1) /\ i + 1 \in (j + n + 1)..Len(todo)
      BY <1>3, <1>4, <1>6, <2>2
    <3> QED
      BY <1>3, <1>4, <3>1
  <2>5. Remaining(rest, f, 0, k + 1)
    <3>1. PICK l : l = k + 1
      OBVIOUS
    <3>2. /\ l < Len(mods) /\ 0 + (Len(mods) - l) <= Len(rest)
          /\ \A i \in 1..(Len(mods) - l) : rest[0 + i] = mods[l + i]
          /\ \A i \in (0 + (Len(mods) - l) + 1)..Len(rest) : ~Must(rest[i])
      BY <2>2, <2>3, <2>4, <3>1
    <3>3. /\ l < Len(InterfaceActions(f)) /\ 0 + (Len(InterfaceActions(f)) - l) <= Len(rest)
          /\ \A i \in 1..(Len(InterfaceActions(f)) - l) : rest[0 + i] = InterfaceActions(f)[l + i]
          /\ \A i \in (0 + (Len(InterfaceActions(f)) - l) + 1)..Len(rest) : ~Must(rest[i])
      BY <1>1, <3>2, Zenon
    <3>4. (0 > 0 => l = 0) /\ \A i \in 1..0 : rest[i].op \in {"AddLink", "Check"}
      OBVIOUS
    <3>5. Remaining(rest, f, 0, l)
      BY <3>3, <3>4, Zenon DEF Remaining
    <3> QED
      BY <3>1, <3>5
  <2>6. rest # <<>> /\ Head(rest).op # "Status"
    <3>1. rest # <<>> /\ Head(rest) = rest[1]
      BY <2>2
    <3>2. 1 \in 1..(Len(todo) - 1) /\ 2 \in 1..n /\ j + 2 = 2
      BY <1>3, <1>6, <2>2
    <3>3. rest[1] = todo[2]
      BY <1>4, <3>2
    <3> QED
      BY <1>3, <3>1, <3>2, <3>3
  <2> QED
    BY <1>1, <1>4, <1>6, <2>2, <2>5, <2>6
<1> QED
  BY <1>5, <1>6

\* All modifications make of the lists what the form has.
LEMMA SavedIsConfigured ==
  ASSUME NEW f \in Form, Saved4(f, Len(InterfaceActions(f)))
  PROVE  Configured(f)
<1>1. PICK m : m = Len(InterfaceActions(f))
  OBVIOUS
<1>2. /\ f.mode4 \in Mode /\ f.v4 \in Seq(Addr(Lists4)) /\ f.mode6 \in Mode /\ f.v6 \in Seq(Addr(Lists6))
  BY DEF Form
<1>3. Len(Modifications(f.mode4, f.v4)) = IF f.mode4 = "Manual" THEN Len(f.v4) + 1 ELSE 1
  BY <1>2, ModificationsAre
<1>4. f.mode6 # "Automatic" =>
        Changes6(f) = Modifications(f.mode6, f.v6)
        /\ Len(Modifications(f.mode6, f.v6)) = IF f.mode6 = "Manual" THEN Len(f.v6) + 1 ELSE 1
  BY <1>2, ModificationsAre DEF Changes6
<1>5. /\ m \in Nat \ {0} /\ m >= Len(Modifications(f.mode4, f.v4)) /\ m >= Len(Changes6(f))
  <2>1. PICK a \in Nat, b \in Nat : a = Len(Modifications(f.mode4, f.v4)) /\ b = Len(Changes6(f))
    BY <1>2, <1>3, Changes6Are
  <2>2. m = (IF a < b THEN b ELSE a) /\ m \in Nat \ {0}
    BY <1>1, <2>1, InterfaceActionsAre
  <2> QED
    BY <2>1, <2>2
<1>6. ASSUME NEW S, NEW list \in Seq(S), m >= Len(list) + 1
      PROVE  {list[i] : i \in {j \in 1..Len(list) : j < m}} = Elements(list)
  <2>1. PICK n \in Nat : n = Len(list) /\ DOMAIN list = 1..n
    OBVIOUS
  <2>2. m \in Nat /\ m >= n + 1
    BY <1>5, <1>6, <2>1
  <2>3. {j \in 1..n : j < m} = 1..n
    BY <2>2
  <2> QED
    BY <2>1, <2>3 DEF Elements
<1>7. Part(f.mode4, f.v4, m) = IF f.mode4 = "Manual" THEN Elements(f.v4) ELSE {}
  <2>1. CASE f.mode4 = "Manual"
    <3>1. m >= Len(f.v4) + 1
      BY <1>3, <1>5, <2>1
    <3> QED
      BY <1>2, <1>6, <2>1, <3>1 DEF Part
  <2> QED
    BY <2>1 DEF Part
<1>8. f.mode6 # "Automatic" => Part(f.mode6, f.v6, m) = IF f.mode6 = "Manual" THEN Elements(f.v6) ELSE {}
  <2>1. CASE f.mode6 = "Manual"
    <3>1. m >= Len(f.v6) + 1
      BY <1>4, <1>5, <2>1
    <3> QED
      BY <1>2, <1>6, <2>1, <3>1 DEF Part
  <2> QED
    BY <2>1 DEF Part
<1>9. m > 0
  BY <1>5
<1> QED
  BY <1>1, <1>7, <1>8, <1>9 DEF Saved4, Configured

-------------------------------------------------------------------------------
(***************************************************************************)
(* A reply that arrives, or does not.                                      *)
(***************************************************************************)
LEMMA AnsweredTypes ==
  ASSUME Inv, Answered
  PROVE  /\ Head(replies) \in ReplyType /\ task.todo # <<>> /\ Continue(Head(replies))
         /\ TypesInv' /\ AwaitedInv' /\ UNCHANGED <<links, kernel, assoc, taken, exempt, late>>
         /\ late = 0 => replies' = <<>>
<1>1. /\ task.todo # <<>> /\ replies # <<>> /\ Continue(Head(replies)) /\ replies' = Tail(replies)
      /\ UNCHANGED <<daemon, exempt, bounds>>
  BY DEF Answered
<1>2. /\ replies \in Seq(ReplyType) /\ requests \in Seq(RequestType) /\ late \in Nat
      /\ Len(requests) + Len(replies) = late + 1
  BY <1>1, TerminalAssumption DEF Inv, TypesInv, TypeOK
<1>3. /\ Head(replies) \in ReplyType /\ replies' \in Seq(ReplyType) /\ Len(replies') = Len(replies) - 1
      /\ Len(replies) \in Nat /\ Len(requests) \in Nat
  BY <1>1, <1>2, HeadTailProperties
<1>4. PICK r \in ReplyType : r = Head(replies)
  BY <1>3
<1>5. /\ interfaces' \in Links /\ known' \in SUBSET Network /\ status' \in Status /\ screen' \in Screen
      /\ popup' \in Popup
      /\ task' \in TaskType /\ task'.after \in Popup /\ task'.goal \in Form \cup {None}
      /\ requests' \in Seq(RequestType)
      /\ Len(requests') = Len(requests) + (IF task'.todo = <<>> THEN 0 ELSE 1)
      /\ requests = <<>> => requests' = IF task'.todo = <<>> THEN <<>> ELSE <<Head(task'.todo)>>
  BY <1>1, <1>4, ContinueTypes
<1>6. UNCHANGED <<links, kernel, profiles, assoc, manager, taken, exempt, commands, troubles, late>>
  BY <1>1 DEF daemon, wifi, bounds
<1>7. Len(requests') + Len(replies') = late' + (IF task'.todo = <<>> THEN 0 ELSE 1)
  BY <1>2, <1>3, <1>5, <1>6
<1>8. TypesInv'
  <2>1. \A ls \in Links : DOMAIN ls \subseteq Device /\ \A d \in DOMAIN ls : ls[d] \in Link
    BY DEF Links
  <2> QED
    BY <1>3, <1>5, <1>6, <1>7, <2>1 DEF Inv, TypesInv, TypeOK, Screen
<1>9. late = 0 => requests = <<>> /\ replies' = <<>>
  <2>1. late = 0 => requests = <<>> /\ Len(replies) = 1
    BY <1>1 DEF Inv, AwaitedInv
  <2>2. Len(replies') = 0 => replies' = <<>>
    BY <1>3
  <2> QED
    BY <1>3, <2>1, <2>2
<1>10. AwaitedInv'
  BY <1>5, <1>6, <1>9 DEF AwaitedInv
<1> QED
  BY <1>1, <1>3, <1>6, <1>8, <1>9, <1>10

\* The popup of a connection is shown on the grant of the request for it.
LEMMA AnsweredSelected ==
  ASSUME Inv, Answered, late = 0
  PROVE  SelectedInv'
<1>1. PICK r \in ReplyType : r = Head(replies)
  BY AnsweredTypes
<1>2. /\ task.todo # <<>> /\ Continue(r) /\ UNCHANGED <<links, kernel, assoc, taken, late>> /\ replies' = <<>>
  BY <1>1, AnsweredTypes
<1>3. replies # <<>>
  BY DEF Answered
<1>4. /\ task \in TaskType /\ task.todo \in Seq(RequestType) /\ task.after \in Popup
  BY DEF Inv, TypesInv, TypeOK, TaskType
<1>5. /\ popup.kind = "Connecting" =>
           /\ taken \/ assoc.network \in {popup.target, None}
           /\ task.todo \in {<<>>, <<Ask("Poll", None)>>} /\ task.after = NoPopup
      /\ task.after.kind = "Connecting" =>
           /\ Len(task.todo) \in {1, 2} /\ task.todo[Len(task.todo)] = Ask("Connect", task.after.target)
           /\ Len(task.todo) = 2 => task.todo[1].op = "AddNetwork"
           /\ Len(task.todo) = 1 /\ Granted => taken \/ assoc.network \in {task.after.target, None}
  BY DEF Inv, SelectedInv
<1>6. NoPopup.kind = "None" /\ Message.kind = "Message" /\ Idle.after = NoPopup /\ Idle.todo = <<>>
  BY DEF NoPopup, Message, Idle
<1>7. /\ Head(task.todo) = task.todo[1] /\ Tail(task.todo) \in Seq(RequestType)
      /\ Len(task.todo) \in Nat \ {0} /\ Len(Tail(task.todo)) = Len(task.todo) - 1
      /\ \A i \in 1..(Len(task.todo) - 1) : Tail(task.todo)[i] = task.todo[i + 1]
  BY <1>2, <1>4, TailOfTodo
<1>8. Granted <=> Fits(Head(task.todo), r)
  BY <1>1, <1>2, <1>3 DEF Granted
<1>9. ~Granted'
  BY <1>2 DEF Granted
<1>10. CASE popup' = Message /\ task' = Idle
  BY <1>6, <1>10 DEF SelectedInv
<1>11. CASE Head(task.todo).op = "Poll" /\ popup' = NoPopup /\ task' = [task EXCEPT !.todo = RefreshInterfaces]
  <2>1. task.after.kind # "Connecting"
    <3> SUFFICES ASSUME task.after.kind = "Connecting" PROVE FALSE
      OBVIOUS
    <3>1. CASE Len(task.todo) = 1
      BY <1>5, <1>7, <1>11, <3>1 DEF Ask
    <3>2. CASE Len(task.todo) = 2
      BY <1>5, <1>7, <1>11, <3>2
    <3> QED
      BY <1>5, <3>1, <3>2
  <2>2. task'.after = task.after
    BY <1>4, <1>11 DEF TaskType
  <2> QED
    BY <1>6, <1>11, <2>1, <2>2 DEF SelectedInv
<1>12. CASE /\ Must(Head(task.todo)) => Fits(Head(task.todo), r)
            /\ task'.todo = Due(Tail(task.todo), DOMAIN interfaces')
            /\ task' = IF task'.todo = <<>> THEN Idle
                       ELSE IF Last(task.todo) THEN [Idle EXCEPT !.todo = task'.todo]
                       ELSE [task EXCEPT !.todo = task'.todo]
            /\ popup'.kind = "Connecting" => popup' = IF Last(task.todo) THEN task.after ELSE popup
  <2>1. task'.todo \in {Tail(task.todo), <<>>}
    BY <1>7, <1>12, DueIs
  <2>2. Len(task.todo) = 1 => task'.todo = <<>>
    BY <1>7, <2>1
  <2>3. Len(task.todo) = 1 /\ Last(task.todo) /\ task.after.kind = "Connecting"
          => taken \/ assoc.network \in {task.after.target, None}
    BY <1>5, <1>8, <1>12 DEF Last
  <2>4. task.after.kind = "Connecting" => (Last(task.todo) <=> Len(task.todo) = 1)
    <3>1. \A x : Must(Ask("Connect", x))
      BY DEF Must, Ask
    <3>2. task.after.kind = "Connecting" =>
            Len(task.todo) \in {1, 2} /\ task.todo[Len(task.todo)] = Ask("Connect", task.after.target)
      BY <1>5
    <3> QED
      BY <1>7, <3>1, <3>2 DEF Last
  <2>5. popup.kind = "Connecting" => Len(task.todo) = 1 /\ ~Last(task.todo)
    <3>1. popup.kind = "Connecting" => task.todo = <<Ask("Poll", None)>>
      BY <1>2, <1>5
    <3>2. ~Must(Ask("Poll", None))
      BY DEF Must, Ask
    <3>3. popup.kind = "Connecting" => Len(task.todo) = 1 /\ Head(task.todo) = Ask("Poll", None)
      BY <3>1
    <3> QED
      BY <3>2, <3>3 DEF Last
  <2>6. ASSUME popup'.kind = "Connecting"
        PROVE  /\ taken' \/ assoc'.network \in {popup'.target, None}
               /\ task'.todo \in {<<>>, <<Ask("Poll", None)>>} /\ task'.after = NoPopup
    <3>1. CASE Last(task.todo)
      <4>1. popup' = task.after /\ task.after.kind = "Connecting"
        BY <1>12, <2>6, <3>1
      <4>2. Len(task.todo) = 1 /\ (taken \/ assoc.network \in {task.after.target, None})
        BY <2>3, <2>4, <3>1, <4>1
      <4>3. task'.todo = <<>> /\ task' = Idle
        BY <1>12, <2>2, <4>2
      <4> QED
        BY <1>2, <1>6, <4>1, <4>2, <4>3
    <3>2. CASE ~Last(task.todo)
      <4>1. popup' = popup /\ popup.kind = "Connecting"
        BY <1>12, <2>6, <3>2
      <4>2. task'.todo = <<>> /\ task' = Idle
        BY <1>12, <2>2, <2>5, <4>1
      <4> QED
        BY <1>2, <1>5, <1>6, <4>1, <4>2
    <3> QED
      BY <3>1, <3>2
  <2>7. ASSUME task'.after.kind = "Connecting"
        PROVE  /\ Len(task'.todo) \in {1, 2} /\ task'.todo[Len(task'.todo)] = Ask("Connect", task'.after.target)
               /\ Len(task'.todo) = 2 => task'.todo[1].op = "AddNetwork"
    <3>1. task'.todo # <<>> /\ ~Last(task.todo) /\ task' = [task EXCEPT !.todo = task'.todo]
      BY <1>6, <1>12, <2>7 DEF Idle
    <3>2. task'.after = task.after
      BY <1>4, <3>1 DEF TaskType
    <3>3. Len(task.todo) = 2 /\ task.todo[2] = Ask("Connect", task.after.target)
      BY <1>5, <2>4, <2>7, <3>1, <3>2
    <3>4. task'.todo = Tail(task.todo)
      BY <2>1, <3>1
    <3>5. Len(task'.todo) = 1 /\ task'.todo[1] = task.todo[2]
      BY <1>7, <3>3, <3>4
    <3> QED
      BY <3>2, <3>3, <3>5
  <2> QED
    BY <1>9, <2>6, <2>7 DEF SelectedInv
<1> QED
  BY <1>2, <1>10, <1>11, <1>12, ContinueCases

\* The saving of a form goes on as long as each request is granted, and is then complete.
LEMMA AnsweredSaving ==
  ASSUME Inv, Answered, late = 0, task.goal # None
  PROVE  /\ SavingInv'
         /\ task'.goal = None /\ popup'.kind = "None" => Configured(task.goal)
<1>1. PICK r \in ReplyType : r = Head(replies)
  BY AnsweredTypes
<1>2. /\ task.todo # <<>> /\ Continue(r) /\ UNCHANGED <<links, kernel, assoc, taken, exempt, late>> /\ replies' = <<>>
  BY <1>1, AnsweredTypes
<1>3. replies # <<>>
  BY DEF Answered
<1>4. PICK f \in Form, todo \in Seq(RequestType) : f = task.goal /\ todo = task.todo
  BY DEF Inv, TypesInv, TypeOK, TaskType
<1>5. task \in TaskType /\ todo # <<>>
  BY <1>2, <1>4 DEF Inv, TypesInv
<1>6. PICK j \in Nat, k \in Nat :
        /\ task.after = NoPopup /\ Remaining(todo, f, j, k)
        /\ j = 0 /\ Granted => Saved4(f, k + 1)
  <2>1. PICK j \in 0..Len(todo), k \in 0..Len(InterfaceActions(f)) :
          /\ Remaining(todo, f, j, k)
          /\ j = 0 /\ Granted => Saved4(f, k + 1)
    BY <1>4 DEF Inv, SavingInv
  <2>2. task.after = NoPopup
    BY DEF Inv, SavingInv
  <2>3. j \in Nat /\ k \in Nat
    BY InterfaceActionsAre
  <2> QED
    BY <2>1, <2>2, <2>3
<1>7. /\ Must(Head(todo)) /\ Head(todo).op \in {"AddLink", "Check", "ModLink"}
      /\ Last(todo) <=> j = 0 /\ k + 1 = Len(InterfaceActions(f))
  BY <1>6, RemainingHead
<1>8. Granted <=> Fits(Head(todo), r)
  BY <1>1, <1>2, <1>3, <1>4 DEF Granted
<1>9. Message.kind = "Message" /\ Idle.goal = None /\ Idle.todo = <<>>
  BY DEF Message, Idle
<1>10. CASE popup' = Message /\ task' = Idle
  BY <1>9, <1>10 DEF SavingInv
<1>11. CASE Head(todo).op = "Poll"
  BY <1>7, <1>11
<1>12. CASE /\ Must(Head(todo)) => Fits(Head(todo), r)
            /\ task'.todo = Due(Tail(todo), DOMAIN interfaces')
            /\ task' = IF task'.todo = <<>> THEN Idle
                       ELSE IF Last(todo) THEN [Idle EXCEPT !.todo = task'.todo]
                       ELSE [task EXCEPT !.todo = task'.todo]
  <2>1. Granted
    BY <1>7, <1>8, <1>12
  <2>2. CASE Last(todo)
    <3>1. Configured(f)
      BY <1>6, <1>7, <2>1, <2>2, SavedIsConfigured
    <3>2. task'.goal = None
      BY <1>9, <1>12, <2>2 DEF Idle
    <3> QED
      BY <1>4, <3>1, <3>2 DEF SavingInv
  <2>3. CASE ~Last(todo)
    <3>1. /\ Tail(todo) # <<>> /\ Head(Tail(todo)).op # "Status"
          /\ j > 0 => j - 1 \in 0..Len(Tail(todo)) /\ k = 0 /\ Remaining(Tail(todo), f, j - 1, 0)
          /\ j = 0 => k + 1 \in 0..Len(InterfaceActions(f)) /\ Remaining(Tail(todo), f, 0, k + 1)
      BY <1>6, <2>3, RemainingTail
    <3>2. Tail(todo) \in Seq(RequestType) /\ Len(Tail(todo)) \in Nat
      BY <1>5, TailOfTodo
    <3>3. Due(Tail(todo), DOMAIN interfaces') = Tail(todo)
      BY <3>1, <3>2, DueIs
    <3>4. /\ task'.todo = Tail(todo) /\ task' = [task EXCEPT !.todo = task'.todo]
      BY <1>12, <2>3, <3>1, <3>3
    <3>5. task'.goal = f /\ task'.after = NoPopup
      BY <1>4, <1>5, <1>6, <3>4 DEF TaskType
    <3>6. ~Granted'
      BY <1>2 DEF Granted
    <3>7. \E i \in 0..Len(Tail(todo)), m \in 0..Len(InterfaceActions(f)) :
            Remaining(Tail(todo), f, i, m) /\ Saved4(f, m)'
      <4>1. CASE j = 0
        <5>1. Saved4(f, k + 1)
          BY <1>6, <2>1, <4>1
        <5>2. Saved4(f, k + 1)'
          BY <1>2, <5>1 DEF Saved4, Same
        <5>3. 0 \in 0..Len(Tail(todo))
          BY <3>2
        <5> QED
          BY <3>1, <4>1, <5>2, <5>3
      <4>2. CASE j # 0
        <5>1. Saved4(f, 0)'
          BY DEF Saved4
        <5>2. 0 \in 0..Len(InterfaceActions(f)) /\ j > 0
          BY <4>2, InterfaceActionsAre
        <5> QED
          BY <3>1, <5>1, <5>2
      <4> QED
        BY <4>1, <4>2
    <3>8. SavingInv'
      BY <3>4, <3>5, <3>6, <3>7 DEF SavingInv
    <3>9. task'.goal # None
      BY <1>4, <3>5
    <3> QED
      BY <3>8, <3>9
  <2> QED
    BY <2>2, <2>3
<1>13. \/ popup' = Message /\ task' = Idle
       \/ Head(todo).op = "Poll"
       \/ /\ Must(Head(todo)) => Fits(Head(todo), r)
          /\ task'.todo = Due(Tail(todo), DOMAIN interfaces')
          /\ task' = IF task'.todo = <<>> THEN Idle
                     ELSE IF Last(todo) THEN [Idle EXCEPT !.todo = task'.todo]
                     ELSE [task EXCEPT !.todo = task'.todo]
  BY <1>2, <1>4, ContinueCases
<1> QED
  BY <1>10, <1>11, <1>12, <1>13

\* A task without a form is not given one.
LEMMA AnsweredNoGoal ==
  ASSUME Inv, Answered, task.goal = None
  PROVE  task'.goal = None
<1>1. PICK r \in ReplyType : r = Head(replies)
  BY AnsweredTypes
<1>2. task.todo # <<>> /\ Continue(r) /\ task \in TaskType
  BY <1>1, AnsweredTypes DEF Inv, TypesInv
<1>3. /\ Idle.goal = None /\ \A s : [task EXCEPT !.todo = s].goal = None /\ [Idle EXCEPT !.todo = s].goal = None
  BY <1>2 DEF Idle, TaskType
<1> QED
  BY <1>2, <1>3, ContinueCases

\* A reply that is awaited.
LEMMA AnsweredInv == ASSUME Inv, Answered PROVE Inv'
<1>1. TypesInv' /\ AwaitedInv' /\ late' = late
  BY AnsweredTypes
<1>2. SelectedInv'
  <2>1. CASE late = 0
    BY <2>1, AnsweredSelected
  <2>2. CASE late # 0
    BY <1>1, <2>2 DEF SelectedInv
  <2> QED
    BY <2>1, <2>2
<1>3. SavingInv'
  <2>1. CASE late = 0 /\ task.goal # None
    BY <2>1, AnsweredSaving
  <2>2. CASE late # 0
    BY <1>1, <2>2 DEF SavingInv
  <2>3. CASE task.goal = None
    BY <2>3, AnsweredNoGoal DEF SavingInv
  <2> QED
    BY <2>1, <2>2, <2>3
<1> QED
  BY <1>1, <1>2, <1>3 DEF Inv

\* After a timeout a reply is late.
LEMMA TimedOutInv ==
  ASSUME Inv, TimedOut
  PROVE  /\ Inv'
         /\ late = 0 /\ task.goal # None => popup'.kind = "Message"
<1> DEFINE r == [shape |-> "Error", data |-> None]
<1>1. /\ task.todo # <<>> /\ replies = <<>> /\ Continue(r) /\ late' = late + 1 /\ Trouble
      /\ UNCHANGED <<replies, links, kernel, profiles, assoc, manager, taken, exempt, commands>>
  BY DEF TimedOut, daemon, wifi
<1>2. r \in ReplyType
  BY DEF ReplyType
<1>3. /\ interfaces' \in Links /\ known' \in SUBSET Network /\ status' \in Status /\ screen' \in Screen
      /\ popup' \in Popup
      /\ task' \in TaskType /\ task'.after \in Popup /\ task'.goal \in Form \cup {None}
      /\ requests' \in Seq(RequestType)
      /\ Len(requests') = Len(requests) + (IF task'.todo = <<>> THEN 0 ELSE 1)
  BY <1>1, <1>2, ContinueTypes
<1>4. /\ late \in Nat /\ replies \in Seq(ReplyType) /\ requests \in Seq(RequestType)
      /\ Len(requests) + Len(replies) = late + 1
  BY <1>1, TerminalAssumption DEF Inv, TypesInv, TypeOK
<1>5. late' \in Nat /\ late' # 0 /\ troubles' \in 0..MaxTroubles
  BY <1>1, <1>4, TerminalAssumption DEF Trouble, Inv, TypesInv, TypeOK
<1>6. Len(requests') + Len(replies') = late' + (IF task'.todo = <<>> THEN 0 ELSE 1)
  <2>1. Len(requests) \in Nat /\ Len(replies) \in Nat /\ Len(replies') = Len(replies)
    BY <1>1, <1>4
  <2> QED
    BY <1>1, <1>3, <1>4, <2>1
<1>7. TypesInv'
  <2>1. \A ls \in Links : DOMAIN ls \subseteq Device /\ \A d \in DOMAIN ls : ls[d] \in Link
    BY DEF Links
  <2> HIDE DEF r
  <2> QED
    BY <1>1, <1>3, <1>5, <1>6, <2>1 DEF Inv, TypesInv, TypeOK, Screen
<1>8. AwaitedInv' /\ SelectedInv' /\ SavingInv'
  BY <1>5 DEF AwaitedInv, SelectedInv, SavingInv
<1>9. ASSUME late = 0, task.goal # None PROVE popup'.kind = "Message"
  <2>1. PICK f \in Form, todo \in Seq(RequestType) : f = task.goal /\ todo = task.todo
    BY <1>9 DEF Inv, TypesInv, TypeOK, TaskType
  <2>2. PICK j \in Nat, k \in Nat : Remaining(todo, f, j, k)
    <3>1. PICK j \in 0..Len(todo), k \in 0..Len(InterfaceActions(f)) : Remaining(todo, f, j, k)
      BY <1>9, <2>1 DEF Inv, SavingInv
    <3>2. j \in Nat /\ k \in Nat
      BY InterfaceActionsAre
    <3> QED
      BY <3>1, <3>2
  <2>3. Must(Head(todo)) /\ Head(todo).op \in {"AddLink", "Check", "ModLink"}
    BY <2>2, RemainingHead
  <2>4. ~Fits(Head(todo), r)
    BY <2>3 DEF Fits
  <2>5. Message.kind = "Message"
    BY DEF Message
  <2> HIDE DEF r
  <2>6. popup' = Message
    BY <1>1, <1>2, <2>1, <2>3, <2>4, ContinueCases
  <2> QED
    BY <2>5, <2>6
<1> QED
  BY <1>7, <1>8, <1>9 DEF Inv

-------------------------------------------------------------------------------
(***************************************************************************)
(* The daemon.                                                             *)
(***************************************************************************)
\* What the next modification makes of the addresses `old`, of which `listed` are listed,
\* up to the exempt ones `ex`.
LEMMA PartStep ==
  ASSUME NEW lists, {None, "Clear"} \cap Addr(lists) = {}, None # "Clear",
         NEW mode \in Mode, NEW list \in Seq(Addr(lists)), NEW k \in Nat, NEW old, NEW listed, NEW ex,
         k = 0 \/ old \ ex = Part(mode, list, k) \ ex,
         At(Modifications(mode, list), k + 1) = "Clear" => old \ listed \subseteq ex
  PROVE  Changed(old, listed, At(Modifications(mode, list), k + 1)) \ ex = Part(mode, list, k + 1) \ ex
<1>1. PICK mods : mods = Modifications(mode, list)
  OBVIOUS
<1>2. /\ Len(mods) = IF mode = "Manual" THEN Len(list) + 1 ELSE 1
      /\ DOMAIN mods = 1..Len(mods) /\ mods[1] = "Clear" /\ Len(list) \in Nat
      /\ mode = "Manual" => \A i \in 1..Len(list) : mods[i + 1] = list[i]
  BY <1>1, ModificationsAre
<1>3. CASE k = 0
  <2>1. 1 \in DOMAIN mods /\ k + 1 = 1
    BY <1>2, <1>3
  <2>2. At(mods, k + 1) = "Clear"
    BY <1>2, <2>1 DEF At
  <2>3. Changed(old, listed, At(mods, k + 1)) \ ex = {}
    BY <1>1, <2>2 DEF Changed, NoChange
  <2>4. {j \in 1..Len(list) : j < k + 1} = {}
    BY <1>2, <2>1
  <2>5. Part(mode, list, k + 1) = {}
    BY <2>4 DEF Part
  <2> QED
    BY <1>1, <2>3, <2>5
<1>4. CASE k > 0 /\ mode = "Manual" /\ k <= Len(list)
  <2>1. k + 1 \in DOMAIN mods /\ k \in 1..Len(list)
    BY <1>2, <1>4
  <2>2. At(mods, k + 1) = list[k] /\ list[k] \in Addr(lists)
    BY <1>2, <1>4, <2>1 DEF At
  <2>3. Changed(old, listed, list[k]) = old \cup {list[k]}
    BY <2>2 DEF Changed, NoChange
  <2>4. {j \in 1..Len(list) : j < k + 1} = {j \in 1..Len(list) : j < k} \cup {k}
    BY <1>2, <2>1
  <2>5. Part(mode, list, k + 1) = Part(mode, list, k) \cup {list[k]}
    BY <1>4, <2>4 DEF Part
  <2> QED
    BY <1>1, <1>4, <2>2, <2>3, <2>5
<1>5. CASE k > 0 /\ ~(mode = "Manual" /\ k <= Len(list))
  <2>1. At(mods, k + 1) = NoChange
    <3>1. k + 1 \notin DOMAIN mods
      BY <1>2, <1>5
    <3> QED
      BY <3>1 DEF At
  <2>2. Changed(old, listed, At(mods, k + 1)) = old
    <3>1. Changed(old, listed, None) = old
      BY DEF Changed, NoChange
    <3> QED
      BY <2>1, <3>1 DEF NoChange
  <2>3. Part(mode, list, k + 1) = Part(mode, list, k)
    <3>1. CASE mode = "Manual"
      <4>1. {j \in 1..Len(list) : j < k + 1} = {j \in 1..Len(list) : j < k}
        BY <1>2, <1>5, <3>1
      <4> QED
        BY <4>1 DEF Part
    <3> QED
      BY <3>1 DEF Part
  <2> QED
    BY <1>1, <1>5, <2>2, <2>3
<1> QED
  BY <1>3, <1>4, <1>5

\* What is left are addresses.
LEMMA ChangedType ==
  ASSUME NEW lists, NEW old \in SUBSET Addr(lists), NEW listed, NEW mod \in Changes(lists)
  PROVE  Changed(old, listed, mod) \in SUBSET Addr(lists)
<1>1. CASE mod = NoChange \/ mod = "Clear"
  BY <1>1 DEF Changed
<1>2. CASE mod # NoChange /\ mod # "Clear"
  <2>1. mod \in Addr(lists) /\ Changed(old, listed, mod) = old \cup {mod}
    BY <1>2 DEF Changes, Changed
  <2> QED
    BY <2>1
<1> QED
  BY <1>1, <1>2

\* A modified interface is an interface.
LEMMA ModifiedType ==
  ASSUME NEW k \in Wire, NEW l \in Link, NEW m \in Modification
  PROVE  /\ Modified(k, l, m) \in Wire /\ Flagged(l, m) \in Link
         /\ [l EXCEPT !.slaac = Flagged(l, m).slaac] \in Link
         /\ Missed(k, l, m) \subseteq Addr(Lists4) \cup Addr(Lists6)
<1>1. Changed(k.v4, l.v4, m.v4) \in SUBSET Addr(Lists4) /\ Changed(k.v6, l.v6, m.v6) \in SUBSET Addr(Lists6)
  BY ChangedType DEF Wire, Modification
<1>2. /\ m.up = NoChange \/ m.up \in BOOLEAN
      /\ m.ip = NoChange \/ (m.ip.dhcp \in BOOLEAN /\ m.ip.slaac \in BOOLEAN)
  BY DEF Modification
<1>3. Modified(k, l, m) \in Wire
  BY <1>1, <1>2, Zenon DEF Wire, Modified
<1>4. Flagged(l, m) \in Link
  BY <1>2, Zenon DEF Link, Flagged
<1>5. Flagged(l, m).slaac \in BOOLEAN
  BY <1>4 DEF Link
<1>6. [l EXCEPT !.slaac = Flagged(l, m).slaac] \in Link
  BY <1>5 DEF Link
<1>7. k.v4 \subseteq Addr(Lists4) /\ k.v6 \subseteq Addr(Lists6)
  BY DEF Wire
<1> QED
  BY <1>3, <1>4, <1>6, <1>7 DEF Missed

\* An interface that comes, changes or goes leaves interfaces.
LEMMA DomainTypes ==
  ASSUME NEW S, NEW f \in UNION {[D -> S] : D \in SUBSET Device}, NEW d \in Device
  PROVE  /\ Without(f, d) \in UNION {[D -> S] : D \in SUBSET Device}
         /\ \A l \in S : With(f, d, l) \in UNION {[D -> S] : D \in SUBSET Device}
<1>1. DOMAIN f \subseteq Device /\ \A e \in DOMAIN f : f[e] \in S
  OBVIOUS
<1>2. Without(f, d) \in [DOMAIN f \ {d} -> S]
  BY <1>1 DEF Without
<1>3. ASSUME NEW l \in S PROVE With(f, d, l) \in [DOMAIN f \cup {d} -> S]
  BY <1>1 DEF With
<1>4. DOMAIN f \ {d} \in SUBSET Device /\ DOMAIN f \cup {d} \in SUBSET Device
  BY <1>1
<1> QED
  BY <1>2, <1>3, <1>4

\* What a request carries.
LEMMA RequestArgs ==
  ASSUME NEW q \in RequestType
  PROVE  /\ q.op \in {"AddLink", "DelLink", "Check"} => q.arg \in Device
         /\ q.op = "ModLink" => q.arg \in Modification
         /\ q.op = "AddNetwork" => q.arg.network \in Network
         /\ q.op \in {"RemoveNetwork", "Connect"} => q.arg \in Network
  BY DEF RequestType

WifiTypes == profiles \in SUBSET Network /\ assoc \in Status /\ manager \in {"up", "blocked", "gone"}

DaemonTypes ==
  /\ links \in Links /\ kernel \in Wires /\ WifiTypes /\ taken \in BOOLEAN
  /\ exempt \in SUBSET (Addr(Lists4) \cup Addr(Lists6) \cup {"flags"}) /\ troubles \in 0..MaxTroubles

LEMMA DaemonIsTyped == ASSUME Inv PROVE DaemonTypes
  BY DEF Inv, TypesInv, TypeOK, DaemonTypes, WifiTypes

\* Interfaces by their names.
LEMMA LinksAndWires ==
  /\ \A ls \in Links : DOMAIN ls \subseteq Device /\ \A d \in DOMAIN ls : ls[d] \in Link
  /\ \A ws \in Wires : DOMAIN ws \subseteq Device /\ \A d \in DOMAIN ws : ws[d] \in Wire
  BY DEF Links, Wires

\* No network is selected, or one that is tried.
LEMMA StatusTypes ==
  /\ \A s \in {"Disconnected", "Inactive", "Associating", "Completed"} :
       NoNetwork(s) \in Status /\ NoNetwork(s).network = None
  /\ Inactive \in Status /\ Inactive.network = None
  /\ \A n \in Network : Trying(n) \in Status /\ Trying(n).network = n
  BY DEF NoNetwork, Inactive, Trying, Status

\* An interface that is forgotten is not selected.
LEMMA ForgottenType ==
  ASSUME NEW n, assoc \in Status, Forgotten(n)
  PROVE  assoc' \in Status /\ assoc'.network \in {assoc.network, None}
  BY StatusTypes DEF Forgotten

\* What is heard of an interface is an interface, and changes no flag of it.
LEMMA HeardType ==
  ASSUME links \in Links, NEW d, NEW k \in Wire
  PROVE  /\ Heard(d, k) \in Link
         /\ d \in DOMAIN links => Heard(d, k).dhcp = links[d].dhcp /\ Heard(d, k).slaac = links[d].slaac
<1>1. NewLink \in Link
  BY DEF NewLink, Link
<1>2. PICK l \in Link : l = IF d \in DOMAIN links THEN links[d] ELSE NewLink
  BY <1>1, LinksAndWires
<1>3. Heard(d, k) = [l EXCEPT !.up = k.up, !.v4 = k.v4, !.v6 = k.v6]
  BY <1>2 DEF Heard
<1>4. k.up \in BOOLEAN /\ k.v4 \in SUBSET Addr(Lists4) /\ k.v6 \in SUBSET Addr(Lists6)
  BY DEF Wire
<1> QED
  BY <1>2, <1>3, <1>4 DEF Link

\* The kernel has a new interface.
LEMMA NewKernelType ==
  ASSUME kernel \in Wires, NEW d \in Device
  PROVE  With(kernel, d, InKernel(NewLink)) \in Wires
<1>1. InKernel(NewLink) \in Wire
  BY DEF NewLink, InKernel, Wire
<1> QED
  BY <1>1, DomainTypes DEF Wires

\* Interfaces come and go.
LEMMA LinkTypes ==
  ASSUME DaemonTypes, NEW d \in Device
  PROVE  /\ AddLink(d) => links' \in Links /\ kernel' \in Wires /\ WifiTypes'
         /\ DelLink(d) => links' \in Links /\ kernel' \in Wires /\ WifiTypes'
<1>1. ASSUME AddLink(d) PROVE links' \in Links /\ kernel' \in Wires /\ WifiTypes'
  <2>1. kernel' \in Wires
    BY <1>1, NewKernelType DEF AddLink, DaemonTypes
  <2>2. \A e \in DOMAIN kernel' : Heard(e, kernel'[e]) \in Link
    BY <2>1, HeardType, LinksAndWires DEF DaemonTypes
  <2>3. links' \in [DOMAIN kernel' -> Link] /\ DOMAIN kernel' \in SUBSET Device
    BY <1>1, <2>1, <2>2, LinksAndWires DEF AddLink
  <2>4. WifiTypes'
    BY <1>1, StatusTypes DEF AddLink, Restarted, wifi, WifiTypes, DaemonTypes
  <2> QED
    BY <2>1, <2>3, <2>4 DEF Links
<1>2. ASSUME DelLink(d) PROVE links' \in Links /\ kernel' \in Wires /\ WifiTypes'
  <2>1. kernel' \in Wires
    BY <1>2, DomainTypes DEF DelLink, DaemonTypes, Wires
  <2>2. WifiTypes'
    BY <1>2, StatusTypes DEF DelLink, Orphaned, wifi, WifiTypes, DaemonTypes
  <2> QED
    BY <1>2, <2>1, <2>2 DEF DelLink, DaemonTypes
<1> QED
  BY <1>1, <1>2

\* Interfaces change, or do so in part.
LEMMA ModLinkTypes ==
  ASSUME DaemonTypes, NEW m \in Modification, m.device \in DOMAIN kernel \cap DOMAIN links
  PROVE  /\ ModLink(m) => DaemonTypes' \/ troubles' \notin 0..MaxTroubles \/ taken' \notin BOOLEAN
         /\ ModLinkFails(m) => links' \in Links /\ kernel' \in Wires
<1>1. m.device \in Device
  BY DEF Modification
<1>2. PICK k \in Wire, l \in Link : k = kernel[m.device] /\ l = links[m.device]
  BY LinksAndWires DEF DaemonTypes
<1>3. /\ Modified(k, l, m) \in Wire /\ Flagged(l, m) \in Link
      /\ [l EXCEPT !.slaac = Flagged(l, m).slaac] \in Link
      /\ Missed(k, l, m) \subseteq Addr(Lists4) \cup Addr(Lists6)
  BY ModifiedType
<1>4. /\ \A w \in Wire : With(kernel, m.device, w) \in Wires
      /\ \A i \in Link : With(links, m.device, i) \in Links
  BY <1>1, DomainTypes DEF DaemonTypes, Links, Wires
<1>5. ASSUME ModLink(m) PROVE DaemonTypes' \/ troubles' \notin 0..MaxTroubles \/ taken' \notin BOOLEAN
  <2>1. /\ kernel' = With(kernel, m.device, Modified(k, l, m)) /\ links' = With(links, m.device, Flagged(l, m))
        /\ exempt' = exempt \cup Missed(k, l, m) /\ UNCHANGED <<profiles, assoc, manager>>
    BY <1>2, <1>5 DEF ModLink, wifi
  <2>2. kernel' \in Wires /\ links' \in Links
    BY <1>3, <1>4, <2>1
  <2> QED
    BY <1>3, <2>1, <2>2 DEF DaemonTypes, WifiTypes
<1>6. ASSUME ModLinkFails(m) PROVE links' \in Links /\ kernel' \in Wires
  <2>1. PICK ends \in Wire, shown \in {l, [l EXCEPT !.slaac = Flagged(l, m).slaac], Flagged(l, m)} :
          kernel' = With(kernel, m.device, ends) /\ links' = With(links, m.device, shown)
    BY <1>2, <1>6 DEF ModLinkFails
  <2>2. shown \in Link
    BY <1>3, <2>1
  <2> QED
    BY <1>4, <2>1, <2>2
<1> QED
  BY <1>5, <1>6

\* What an answer says, and what has been done.
Outcome(q, rep) ==
  /\ rep \in ReplyType
  /\ requests' = Tail(requests) /\ replies' = Append(replies, rep) /\ UNCHANGED <<app, commands, late>>
  /\ DaemonTypes'
  /\ q.op = "Poll" => assoc' = assoc /\ taken' = taken
  /\ q.op = "Connect" => rep.shape = "Error" \/ assoc'.network = q.arg
  /\ q.op = "ModLink" => \/ rep.shape = "Error"
                         \/ q.arg.device \in DOMAIN kernel \cap DOMAIN links /\ ModLink(q.arg)

\* A query changes nothing.
LEMMA QueryOutcome ==
  ASSUME Inv, NEW q \in RequestType, Query(q)
  PROVE  \E rep : Outcome(q, rep)
<1>1. /\ DaemonTypes /\ UNCHANGED <<links, kernel, profiles, assoc, manager, taken, exempt, troubles>>
  BY DaemonIsTyped DEF Query, daemon, wifi
<1>2. DaemonTypes'
  BY <1>1 DEF DaemonTypes, WifiTypes
<1>3. ASSUME NEW shape, NEW data, Reply(shape, data), [shape |-> shape, data |-> data] \in ReplyType,
             q.op \notin {"Connect", "ModLink"}
      PROVE  \E rep : Outcome(q, rep)
  <2>1. Outcome(q, [shape |-> shape, data |-> data])
    BY <1>1, <1>2, <1>3 DEF Outcome, Reply
  <2> QED
    BY <2>1
<1>4. /\ [shape |-> "InfoList", data |-> links] \in ReplyType
      /\ [shape |-> "Status", data |-> assoc] \in ReplyType
      /\ [shape |-> "KnownNetworks", data |-> profiles] \in ReplyType
      /\ [shape |-> "WirelessDevices", data |-> None] \in ReplyType
      /\ [shape |-> "Hostname", data |-> None] \in ReplyType
  BY <1>1 DEF ReplyType, DaemonTypes, WifiTypes
<1>5. \/ q.op \in {"List", "Check"} /\ Reply("InfoList", links)
      \/ q.op \in {"Status", "Poll"} /\ Reply("Status", assoc)
      \/ q.op = "Known" /\ Reply("KnownNetworks", profiles)
      \/ q.op = "Devices" /\ Reply("WirelessDevices", None)
      \/ q.op \in {"GetHostname", "SetHostname"} /\ Reply("Hostname", None)
  BY DEF Query
<1>6. q.op \notin {"Connect", "ModLink"}
  BY <1>5
<1> QED
  BY <1>3, <1>4, <1>5, <1>6

\* What is granted of an interface is done.
LEMMA ChangeLinkOutcome ==
  ASSUME Inv, NEW q \in RequestType, ChangeLink(q)
  PROVE  \E rep : Outcome(q, rep)
<1>1. DaemonTypes /\ UNCHANGED <<taken, troubles>>
  BY DaemonIsTyped DEF ChangeLink
<1>2. PICK rep : rep = [shape |-> "Success", data |-> None]
  OBVIOUS
<1>3. /\ rep \in ReplyType /\ requests' = Tail(requests) /\ replies' = Append(replies, rep)
      /\ UNCHANGED <<app, commands, late>>
  BY <1>2 DEF ChangeLink, Reply, ReplyType
<1>4. q.op \in {"AddLink", "DelLink", "ModLink"} /\ Possible(q)
  BY DEF ChangeLink
<1>5. CASE q.op \in {"AddLink", "DelLink"}
  <2>1. q.arg \in Device /\ (AddLink(q.arg) \/ DelLink(q.arg)) /\ UNCHANGED exempt
    BY <1>5, RequestArgs DEF ChangeLink
  <2>2. DaemonTypes'
    BY <1>1, <2>1, LinkTypes DEF DaemonTypes
  <2>3. Outcome(q, rep)
    BY <1>3, <1>5, <2>2 DEF Outcome
  <2> QED
    BY <2>3
<1>6. CASE q.op = "ModLink"
  <2>1. q.arg \in Modification /\ ModLink(q.arg) /\ q.arg.device \in DOMAIN kernel \cap DOMAIN links
    BY <1>4, <1>6, RequestArgs DEF ChangeLink, Possible
  <2>2. DaemonTypes'
    BY <1>1, <2>1, ModLinkTypes DEF DaemonTypes
  <2>3. Outcome(q, rep)
    BY <1>3, <1>6, <2>1, <2>2 DEF Outcome
  <2> QED
    BY <2>3
<1> QED
  BY <1>4, <1>5, <1>6

\* What is granted of a network is done.
LEMMA ChangeWifiOutcome ==
  ASSUME Inv, NEW q \in RequestType, ChangeWifi(q)
  PROVE  \E rep : Outcome(q, rep)
<1>1. DaemonTypes /\ UNCHANGED <<links, kernel, manager, exempt, troubles>>
  BY DaemonIsTyped DEF ChangeWifi
<1>2. PICK rep : rep = [shape |-> "Done", data |-> None]
  OBVIOUS
<1>3. /\ rep \in ReplyType /\ requests' = Tail(requests) /\ replies' = Append(replies, rep)
      /\ UNCHANGED <<app, commands, late>>
  BY <1>2 DEF ChangeWifi, Reply, ReplyType
<1>4. q.op \in {"AddNetwork", "RemoveNetwork", "Connect", "Disconnect"}
  BY DEF ChangeWifi
<1>5. profiles' \in SUBSET Network /\ taken' \in BOOLEAN
  BY <1>1, RequestArgs DEF ChangeWifi, DaemonTypes, WifiTypes
<1>6. assoc \in Status
  BY <1>1 DEF DaemonTypes, WifiTypes
<1>7. assoc' \in Status
  BY <1>6, StatusTypes, ForgottenType, RequestArgs DEF ChangeWifi
<1>8. q.op = "Connect" => assoc'.network = q.arg
  BY StatusTypes, RequestArgs DEF ChangeWifi
<1>9. DaemonTypes'
  BY <1>1, <1>5, <1>7 DEF DaemonTypes, WifiTypes
<1>10. Outcome(q, rep)
  BY <1>3, <1>4, <1>8, <1>9 DEF Outcome
<1> QED
  BY <1>10

\* A refusal is an error, whatever has been done.
LEMMA RefuseOutcome ==
  ASSUME Inv, NEW q \in RequestType, Refuse(q)
  PROVE  \E rep : Outcome(q, rep)
<1>1. DaemonTypes /\ UNCHANGED <<exempt, taken>>
  BY DaemonIsTyped DEF Refuse
<1>2. PICK rep : rep = [shape |-> "Error", data |-> None]
  OBVIOUS
<1>3. /\ rep \in ReplyType /\ rep.shape = "Error" /\ requests' = Tail(requests) /\ replies' = Append(replies, rep)
      /\ UNCHANGED <<app, commands, late>>
  BY <1>2 DEF Refuse, Reply, ReplyType
<1>4. troubles' \in 0..MaxTroubles
  BY <1>1, TerminalAssumption DEF Refuse, Trouble, DaemonTypes
<1>5. links' \in Links /\ kernel' \in Wires /\ WifiTypes' /\ (q.op = "Poll" => assoc' = assoc)
  <2>1. CASE UNCHANGED <<links, kernel, wifi>>
    BY <1>1, <2>1 DEF wifi, DaemonTypes, WifiTypes
  <2>2. CASE q.op = "ModLink" /\ q.arg.device \in DOMAIN kernel \cap DOMAIN links /\ ModLinkFails(q.arg) /\ UNCHANGED wifi
    <3>1. links' \in Links /\ kernel' \in Wires
      BY <1>1, <2>2, RequestArgs, ModLinkTypes
    <3> QED
      BY <1>1, <2>2, <3>1 DEF wifi, DaemonTypes, WifiTypes
  <2>3. CASE q.op = "AddLink" /\ kernel' = With(kernel, q.arg, InKernel(NewLink)) /\ UNCHANGED <<links, wifi>>
    <3>1. kernel' \in Wires
      BY <1>1, <2>3, RequestArgs, NewKernelType DEF DaemonTypes
    <3> QED
      BY <1>1, <2>3, <3>1 DEF wifi, DaemonTypes, WifiTypes
  <2>4. CASE q.op = "DelLink" /\ DelLink(q.arg)
    BY <1>1, <2>4, RequestArgs, LinkTypes
  <2>5. CASE /\ q.op = "RemoveNetwork"
             /\ profiles' = profiles \ {q.arg} /\ UNCHANGED <<links, kernel, assoc, manager>>
    BY <1>1, <2>5 DEF DaemonTypes, WifiTypes
  <2>6. CASE /\ q.op = "Connect"
             /\ assoc' \in {Inactive, Trying(q.arg)} /\ UNCHANGED <<links, kernel, profiles, manager>>
    BY <1>1, <2>6, RequestArgs, StatusTypes DEF DaemonTypes, WifiTypes
  <2> QED
    BY <2>1, <2>2, <2>3, <2>4, <2>5, <2>6 DEF Refuse, Partly
<1>6. DaemonTypes'
  BY <1>1, <1>4, <1>5 DEF DaemonTypes
<1>7. Outcome(q, rep)
  BY <1>1, <1>3, <1>5, <1>6 DEF Outcome
<1> QED
  BY <1>7

\* The next modification leaves what one more modification should.
LEMMA ModifiedIsSaved ==
  ASSUME NEW f \in Form, NEW k \in Nat, k < Len(InterfaceActions(f)), Saved4(f, k), links \in Links,
         NEW m, m = InterfaceActions(f)[k + 1].arg,
         m.device \in DOMAIN kernel \cap DOMAIN links, ModLink(m)
  PROVE  m.device = f.device /\ Saved4(f, k + 1)'
<1> DEFINE ip == IF k = 0 THEN [dhcp |-> f.mode4 = "Automatic", slaac |-> f.slaac] ELSE NoChange
<1>1. /\ f.mode4 \in Mode /\ f.v4 \in Seq(Addr(Lists4)) /\ f.mode6 \in Mode /\ f.v6 \in Seq(Addr(Lists6))
      /\ f.slaac \in BOOLEAN
  BY DEF Form
<1>2. m = [device |-> f.device, v4 |-> At(Modifications(f.mode4, f.v4), k + 1), v6 |-> At(Changes6(f), k + 1),
           ip |-> ip, up |-> NoChange]
  <2>1. PICK mods : mods = InterfaceActions(f)
    OBVIOUS
  <2>5. PICK n \in Nat : n = Len(mods)
    BY <2>1, InterfaceActionsAre
  <2>2. \A i \in 1..n :
          mods[i] = Modify(f.device, At(Modifications(f.mode4, f.v4), i), At(Changes6(f), i),
                           IF i = 1 THEN [dhcp |-> f.mode4 = "Automatic", slaac |-> f.slaac] ELSE NoChange,
                           NoChange)
    BY <2>1, <2>5, InterfaceActionsAre
  <2>3. k + 1 \in 1..n /\ (k + 1 = 1 <=> k = 0)
    BY <2>1, <2>5
  <2>4. mods[k + 1] = Modify(f.device, At(Modifications(f.mode4, f.v4), k + 1), At(Changes6(f), k + 1), ip, NoChange)
    BY <2>2, <2>3
  <2> HIDE DEF ip
  <2> QED
    BY <2>1, <2>4 DEF Modify, Ask
<1>3. PICK l, w : l = links[f.device] /\ w = kernel[f.device]
  OBVIOUS
<1>4. /\ m.device = f.device /\ f.device \in DOMAIN links' /\ f.device \in DOMAIN kernel'
      /\ links'[f.device] = Flagged(l, m) /\ kernel'[f.device] = Modified(w, l, m)
      /\ exempt' = exempt \cup Missed(w, l, m)
  <2>1. m.device = f.device
    BY <1>2
  <2> QED
    BY <1>3, <2>1 DEF ModLink, With
<1>10. f.device \in DOMAIN kernel /\ f.device \in DOMAIN links
  BY <1>2
<1>5. k > 0 => /\ "flags" \notin exempt => l.dhcp = (f.mode4 = "Automatic") /\ l.slaac = f.slaac
               /\ Same(w.v4, Part(f.mode4, f.v4, k))
               /\ f.mode6 # "Automatic" => Same(w.v6, Part(f.mode6, f.v6, k))
  BY <1>3, <1>10 DEF Saved4
<1>6. m.ip = ip /\ m.v4 = At(Modifications(f.mode4, f.v4), k + 1) /\ m.v6 = At(Changes6(f), k + 1)
  BY <1>2
<1>7. "flags" \notin exempt' => Flagged(l, m).dhcp = (f.mode4 = "Automatic") /\ Flagged(l, m).slaac = f.slaac
  <2>1. CASE k = 0
    <3>1. [dhcp |-> f.mode4 = "Automatic", slaac |-> f.slaac] \in [dhcp : BOOLEAN, slaac : BOOLEAN]
      BY <1>1
    <3>2. m.ip # NoChange /\ m.ip = [dhcp |-> f.mode4 = "Automatic", slaac |-> f.slaac]
      BY <1>6, <2>1, <3>1, TerminalAssumption DEF NoChange
    <3>3. Flagged(l, m) = [l EXCEPT !.dhcp = m.ip.dhcp, !.slaac = m.ip.slaac]
      BY <3>2 DEF Flagged
    <3>4. l \in Link
      BY <1>3, <1>10, LinksAndWires
    <3> QED
      BY <3>2, <3>3, <3>4 DEF Link
  <2>2. CASE k # 0
    <3>1. Flagged(l, m) = l
      BY <1>6, <2>2 DEF Flagged
    <3> QED
      BY <1>4, <1>5, <2>2, <3>1
  <2> QED
    BY <2>1, <2>2
<1>8. Same(Modified(w, l, m).v4, Part(f.mode4, f.v4, k + 1))'
  <2>1. Modified(w, l, m).v4 = Changed(w.v4, l.v4, m.v4)
    BY DEF Modified
  <2>2. k = 0 \/ w.v4 \ exempt' = Part(f.mode4, f.v4, k) \ exempt'
    BY <1>4, <1>5 DEF Same
  <2>3. {None, "Clear"} \cap Addr(Lists4) = {} /\ None # "Clear"
    BY TerminalAssumption
  <2>4. m.v4 = "Clear" => w.v4 \ l.v4 \subseteq exempt'
    BY <1>4 DEF Missed
  <2>5. PICK ex : ex = exempt'
    OBVIOUS
  <2>6. Changed(w.v4, l.v4, At(Modifications(f.mode4, f.v4), k + 1)) \ ex = Part(f.mode4, f.v4, k + 1) \ ex
    BY <1>1, <1>6, <2>2, <2>3, <2>4, <2>5, PartStep
  <2> QED
    BY <1>6, <2>1, <2>5, <2>6 DEF Same
<1>9. f.mode6 # "Automatic" => Same(Modified(w, l, m).v6, Part(f.mode6, f.v6, k + 1))'
  <2> SUFFICES ASSUME f.mode6 # "Automatic" PROVE Same(Modified(w, l, m).v6, Part(f.mode6, f.v6, k + 1))'
    OBVIOUS
  <2>1. Modified(w, l, m).v6 = Changed(w.v6, l.v6, m.v6) /\ Changes6(f) = Modifications(f.mode6, f.v6)
    BY DEF Modified, Changes6
  <2>2. k = 0 \/ w.v6 \ exempt' = Part(f.mode6, f.v6, k) \ exempt'
    BY <1>4, <1>5 DEF Same
  <2>3. {None, "Clear"} \cap Addr(Lists6) = {} /\ None # "Clear"
    BY TerminalAssumption
  <2>4. m.v6 = "Clear" => w.v6 \ l.v6 \subseteq exempt'
    BY <1>4 DEF Missed
  <2>5. PICK ex : ex = exempt'
    OBVIOUS
  <2>6. Changed(w.v6, l.v6, At(Modifications(f.mode6, f.v6), k + 1)) \ ex = Part(f.mode6, f.v6, k + 1) \ ex
    BY <1>1, <1>6, <2>1, <2>2, <2>3, <2>4, <2>5, PartStep
  <2> QED
    BY <1>6, <2>1, <2>5, <2>6 DEF Same
<1> HIDE DEF ip
<1> QED
  BY <1>4, <1>7, <1>8, <1>9 DEF Saved4, Same

\* Every request is answered, and what is answered is true of the daemon.
LEMMA ServeOutcome ==
  ASSUME Inv, Serve
  PROVE  Head(requests) \in RequestType /\ \E rep : Outcome(Head(requests), rep)
<1>1. requests # <<>> /\ requests \in Seq(RequestType)
  BY DEF Serve, Inv, TypesInv
<1>2. Head(requests) \in RequestType
  BY <1>1
<1> QED
  BY <1>2, QueryOutcome, ChangeLinkOutcome, ChangeWifiOutcome, RefuseOutcome DEF Serve

\* The daemon's answer is true of what it has.
LEMMA ServeInv == ASSUME Inv, Serve PROVE Inv'
<1>0. PICK q \in RequestType : q = Head(requests)
  BY ServeOutcome
<1>1. PICK rep : q = Head(requests) /\ Outcome(q, rep)
  BY <1>0, ServeOutcome
<1>2. /\ rep \in ReplyType
      /\ requests' = Tail(requests) /\ replies' = Append(replies, rep)
      /\ UNCHANGED <<screen, popup, interfaces, known, status, task, commands, late>>
      /\ DaemonTypes'
  BY <1>1 DEF Outcome, app
<1>3. /\ requests \in Seq(RequestType) /\ requests # <<>> /\ replies \in Seq(ReplyType) /\ late \in Nat
      /\ Len(requests) + Len(replies) = late + (IF task.todo = <<>> THEN 0 ELSE 1)
  BY TerminalAssumption DEF Serve, Inv, TypesInv, TypeOK
<1>4. /\ requests' \in Seq(RequestType) /\ Len(requests') = Len(requests) - 1
      /\ replies' \in Seq(ReplyType) /\ Len(replies') = Len(replies) + 1
      /\ Len(requests) \in Nat /\ Len(replies) \in Nat
  <2>1. Tail(requests) \in Seq(RequestType) /\ Len(Tail(requests)) = Len(requests) - 1
    BY <1>3, HeadTailProperties
  <2>2. Append(replies, rep) \in Seq(ReplyType) /\ Len(Append(replies, rep)) = Len(replies) + 1
    BY <1>2, <1>3, AppendProperties
  <2> QED
    BY <1>2, <1>3, <2>1, <2>2
<1>5. TypesInv'
  <2>2. Len(requests') + Len(replies') = late' + (IF task'.todo = <<>> THEN 0 ELSE 1)
    <3>1. (Len(requests) - 1) + (Len(replies) + 1) = Len(requests) + Len(replies)
      BY <1>4
    <3> QED
      BY <1>2, <1>3, <1>4, <3>1
  <2> QED
    BY <1>2, <1>4, <2>2, LinksAndWires DEF Inv, TypesInv, TypeOK, DaemonTypes, WifiTypes
<1>6. ASSUME late = 0
      PROVE  /\ task.todo # <<>> /\ requests = <<Head(task.todo)>> /\ replies = <<>> /\ q = Head(task.todo)
             /\ requests' = <<>> /\ Len(replies') = 1 /\ replies' # <<>> /\ Head(replies') = rep
  <2>1. task.todo # <<>> /\ requests = <<Head(task.todo)>> /\ replies = <<>>
    BY <1>3, <1>6 DEF Inv, AwaitedInv
  <2>2. Len(requests) = 1 /\ Head(requests) = Head(task.todo) /\ Len(replies) = 0
    BY <2>1
  <2>3. requests' = <<>> /\ Len(replies') = 1
    BY <1>4, <2>2
  <2>4. replies' = <<rep>>
    BY <1>2, <2>1
  <2> QED
    BY <1>1, <2>1, <2>2, <2>3, <2>4
<1>7. AwaitedInv'
  BY <1>2, <1>6 DEF AwaitedInv
<1>8. late = 0 => (Granted' <=> Fits(q, rep)) /\ ~Granted
  BY <1>2, <1>6 DEF Granted
<1>9. SelectedInv'
  <2> SUFFICES ASSUME late = 0 PROVE SelectedInv'
    BY <1>2 DEF SelectedInv
  <2>1. /\ popup.kind = "Connecting" =>
             /\ taken \/ assoc.network \in {popup.target, None}
             /\ task.todo \in {<<>>, <<Ask("Poll", None)>>} /\ task.after = NoPopup
        /\ task.after.kind = "Connecting" =>
             /\ Len(task.todo) \in {1, 2} /\ task.todo[Len(task.todo)] = Ask("Connect", task.after.target)
             /\ Len(task.todo) = 2 => task.todo[1].op = "AddNetwork"
    BY DEF Inv, SelectedInv
  <2>2. ASSUME popup.kind = "Connecting" PROVE assoc' = assoc /\ taken' = taken
    <3>1. task.todo = <<Ask("Poll", None)>>
      BY <1>6, <2>1, <2>2
    <3>2. q.op = "Poll"
      BY <1>6, <3>1 DEF Ask
    <3> QED
      BY <1>1, <3>2 DEF Outcome
  <2>3. ASSUME task.after.kind = "Connecting", Len(task.todo) = 1, Granted'
        PROVE  assoc'.network = task.after.target
    <3>1. q = Ask("Connect", task.after.target)
      <4>1. task.todo \in Seq(RequestType)
        BY DEF Inv, TypesInv, TaskType
      <4>2. Head(task.todo) = task.todo[1]
        BY <1>6, <4>1, TailOfTodo
      <4> QED
        BY <1>6, <2>1, <2>3, <4>2
    <3>2. q.op = "Connect" /\ q.arg = task.after.target
      BY <3>1 DEF Ask
    <3>3. rep.shape # "Error"
      BY <1>8, <2>3, <3>2 DEF Fits
    <3> QED
      BY <1>1, <3>2, <3>3 DEF Outcome
  <2> QED
    BY <1>2, <2>1, <2>2, <2>3 DEF SelectedInv
<1>10. SavingInv'
  <2> SUFFICES ASSUME late = 0, task.goal # None PROVE SavingInv'
    BY <1>2 DEF SavingInv
  <2>1. PICK f \in Form, todo \in Seq(RequestType) : f = task.goal /\ todo = task.todo
    BY DEF Inv, TypesInv, TypeOK, TaskType
  <2>2. PICK j \in 0..Len(todo), k \in 0..Len(InterfaceActions(f)) :
          Remaining(todo, f, j, k) /\ Saved4(f, k)
    BY <1>6, <2>1 DEF Inv, SavingInv
  <2>3. j \in Nat /\ k \in Nat /\ k < Len(InterfaceActions(f))
    <3>1. Len(InterfaceActions(f)) \in Nat /\ Len(todo) \in Nat
      BY InterfaceActionsAre
    <3> QED
      BY <2>2, <3>1 DEF Remaining
  <2>4. ASSUME j = 0, Granted' PROVE Saved4(f, k + 1)'
    <3>1. q = InterfaceActions(f)[k + 1]
      BY <1>6, <2>1, <2>2, <2>3, <2>4, RemainingHead
    <3>2. q.op = "ModLink"
      <4>1. PICK n \in Nat : n = Len(InterfaceActions(f))
        BY InterfaceActionsAre
      <4>2. k + 1 \in 1..n
        BY <2>3, <4>1
      <4>3. \A i \in 1..n :
              InterfaceActions(f)[i] = Modify(f.device, At(Modifications(f.mode4, f.v4), i), At(Changes6(f), i),
                                              IF i = 1 THEN [dhcp |-> f.mode4 = "Automatic", slaac |-> f.slaac]
                                              ELSE NoChange, NoChange)
        BY <4>1, InterfaceActionsAre
      <4>4. \A d, x, y, z : Modify(d, x, y, z, NoChange).op = "ModLink"
        BY DEF Modify, Ask
      <4> QED
        BY <3>1, <4>2, <4>3, <4>4
    <3>3. rep.shape # "Error"
      BY <1>8, <2>4, <3>2 DEF Fits
    <3>4. q.arg.device \in DOMAIN kernel \cap DOMAIN links /\ ModLink(q.arg)
      BY <1>1, <3>2, <3>3 DEF Outcome
    <3>5. links \in Links
      BY DEF Inv, TypesInv
    <3> QED
      BY <2>2, <2>3, <3>1, <3>4, <3>5, ModifiedIsSaved
  <2>5. task' = task /\ replies' # <<>> /\ task.after = NoPopup
    BY <1>2, <1>6 DEF Inv, SavingInv
  <2>6. Remaining(todo, f, j, k) /\ (j = 0 /\ Granted' => Saved4(f, k + 1)')
    BY <2>2, <2>4
  <2> QED
    BY <2>1, <2>5, <2>6 DEF SavingInv
<1> QED
  BY <1>5, <1>7, <1>9, <1>10 DEF Inv

-------------------------------------------------------------------------------
(***************************************************************************)
(* What happens to the daemon besides.                                     *)
(***************************************************************************)
\* Nothing that has been saved is undone, but for what is exempt.
Kept == task.goal # None => \A k \in Nat : Saved4(task.goal, k) => Saved4(task.goal, k)'

\* How an interface is not.
Stays(d) ==
  d \in DOMAIN kernel' =>
    /\ d \in DOMAIN kernel
    /\ d \in DOMAIN links =>
         /\ d \in DOMAIN links'
         /\ "flags" \in exempt' \/ (links'[d].dhcp = links[d].dhcp /\ links'[d].slaac = links[d].slaac)
    /\ kernel'[d].v4 \ exempt' = kernel[d].v4 \ exempt'
    /\ kernel'[d].v6 \ exempt' = kernel[d].v6 \ exempt'

LEMMA SavedKept ==
  ASSUME NEW f, NEW k, Saved4(f, k), exempt \subseteq exempt', Stays(f.device)
  PROVE  Saved4(f, k)'
<1> SUFFICES ASSUME k > 0, f.device \in DOMAIN kernel' PROVE Saved4(f, k)'
  BY DEF Saved4
<1>1. /\ f.device \in DOMAIN links
      /\ "flags" \notin exempt => links[f.device].dhcp = (f.mode4 = "Automatic") /\ links[f.device].slaac = f.slaac
      /\ Same(kernel[f.device].v4, Part(f.mode4, f.v4, k))
      /\ f.mode6 # "Automatic" => Same(kernel[f.device].v6, Part(f.mode6, f.v6, k))
  BY DEF Saved4, Stays
<1>2. f.device \in DOMAIN links'
  BY <1>1 DEF Stays
<1>3. "flags" \notin exempt' => links'[f.device].dhcp = (f.mode4 = "Automatic") /\ links'[f.device].slaac = f.slaac
  BY <1>1 DEF Stays
<1>4. ASSUME NEW old, NEW new, NEW wanted, new \ exempt' = old \ exempt', Same(old, wanted)
      PROVE  new \ exempt' = wanted \ exempt'
  BY <1>4 DEF Same
<1>5. kernel'[f.device].v4 \ exempt' = Part(f.mode4, f.v4, k) \ exempt'
  BY <1>1, <1>4 DEF Stays
<1>6. f.mode6 # "Automatic" => kernel'[f.device].v6 \ exempt' = Part(f.mode6, f.v6, k) \ exempt'
  BY <1>1, <1>4 DEF Stays
<1> QED
  BY <1>2, <1>3, <1>5, <1>6 DEF Saved4, Same

LEMMA KeptIs ==
  ASSUME task' = task, exempt \subseteq exempt', task.goal # None => Stays(task.goal.device)
  PROVE  Kept
<1> SUFFICES ASSUME task.goal # None, NEW k \in Nat, Saved4(task.goal, k) PROVE Saved4(task.goal, k)'
  BY DEF Kept
<1>1. PICK f : f = task.goal
  OBVIOUS
<1>2. Saved4(f, k)'
  BY <1>1, SavedKept
<1> QED
  BY <1>1, <1>2

\* What others do keeps the invariant if it keeps what has been saved, and the network
\* that is selected unless another client selects one.
LEMMA KeptInv ==
  ASSUME Inv, UNCHANGED <<screen, popup, interfaces, known, status, task, requests, replies, commands, late>>,
         DaemonTypes', Kept, taken => taken', taken' \/ assoc'.network \in {assoc.network, None}
  PROVE  Inv'
<1>1. TypesInv'
  BY LinksAndWires DEF Inv, TypesInv, TypeOK, DaemonTypes, WifiTypes
<1>2. AwaitedInv'
  BY DEF Inv, AwaitedInv
<1>3. Granted' = Granted
  BY DEF Granted
<1>4. SelectedInv'
  BY <1>3 DEF Inv, SelectedInv
<1>6. SavingInv'
  <2> SUFFICES ASSUME late = 0, task.goal # None PROVE SavingInv'
    BY DEF SavingInv
  <2>1. task.after = NoPopup
    BY DEF Inv, SavingInv
  <2>2. PICK j \in 0..Len(task.todo), k \in 0..Len(InterfaceActions(task.goal)) :
          /\ Remaining(task.todo, task.goal, j, k)
          /\ replies = <<>> => Saved4(task.goal, k)
          /\ j = 0 /\ Granted => Saved4(task.goal, k + 1)
    BY DEF Inv, SavingInv
  <2>3. PICK f \in Form, todo \in Seq(RequestType) : f = task.goal /\ todo = task.todo
    BY DEF Inv, TypesInv, TypeOK, TaskType
  <2>4. k \in Nat /\ k + 1 \in Nat
    BY <2>3, InterfaceActionsAre
  <2>5. /\ Saved4(f, k) => Saved4(f, k)'
        /\ Saved4(f, k + 1) => Saved4(f, k + 1)'
    <3>1. PICK n \in Nat : n = k + 1
      BY <2>4
    <3>2. \A i \in Nat : Saved4(f, i) => Saved4(f, i)'
      BY <2>3 DEF Kept
    <3> QED
      BY <2>4, <3>2
  <2>6. /\ Remaining(todo, f, j, k)
        /\ replies' = <<>> => Saved4(f, k)'
        /\ j = 0 /\ Granted' => Saved4(f, k + 1)'
    BY <1>3, <2>2, <2>3, <2>5
  <2> QED
    BY <2>1, <2>2, <2>3, <2>6 DEF SavingInv
<1> QED
  BY <1>1, <1>2, <1>4, <1>6 DEF Inv

\* What happens to the daemon is not seen by the terminal.
LEMMA UnaskedFrame ==
  ASSUME Unasked
  PROVE  UNCHANGED <<screen, popup, interfaces, known, status, task, requests, replies, commands, late>>
  BY DEF Unasked, app

LEMMA ChangeCounted ==
  ASSUME troubles \in 0..MaxTroubles, Change
  PROVE  Unasked /\ troubles' \in 0..MaxTroubles
  BY TerminalAssumption DEF Change, Trouble

\* A notice changes no flag.
LEMMA NoticeInv == ASSUME Inv, NEW d \in Device, Notice(d) PROVE Inv'
<1>1. DaemonTypes /\ UNCHANGED <<kernel, profiles, assoc, manager, taken, exempt, troubles>>
  BY DaemonIsTyped DEF Notice, wifi
<1>2. CASE d \in DOMAIN kernel
  <2>1. links' = With(links, d, Heard(d, kernel[d])) /\ kernel[d] \in Wire
    BY <1>1, <1>2, LinksAndWires DEF Notice, DaemonTypes
  <2>2. /\ Heard(d, kernel[d]) \in Link
        /\ d \in DOMAIN links => /\ Heard(d, kernel[d]).dhcp = links[d].dhcp
                                 /\ Heard(d, kernel[d]).slaac = links[d].slaac
    BY <1>1, <2>1, HeardType DEF DaemonTypes
  <2>3. links' \in Links
    BY <1>1, <2>1, <2>2, DomainTypes DEF DaemonTypes, Links
  <2>4. \A e \in DOMAIN links :
          e \in DOMAIN links' /\ links'[e].dhcp = links[e].dhcp /\ links'[e].slaac = links[e].slaac
    BY <2>1, <2>2 DEF With
  <2>5. Kept
    BY <1>1, <2>4, UnaskedFrame, KeptIs DEF Notice, Stays
  <2>6. DaemonTypes'
    BY <1>1, <2>3 DEF DaemonTypes, WifiTypes
  <2> QED
    BY <1>1, <2>5, <2>6, UnaskedFrame, KeptInv DEF Notice
<1>3. CASE d \notin DOMAIN kernel
  <2>1. links' = Without(links, d)
    BY <1>3 DEF Notice
  <2>2. links' \in Links
    BY <1>1, <2>1, DomainTypes DEF DaemonTypes, Links
  <2>3. \A e \in DOMAIN kernel \cap DOMAIN links : e \in DOMAIN links' /\ links'[e] = links[e]
    BY <1>3, <2>1 DEF Without
  <2>4. Kept
    BY <1>1, <2>3, UnaskedFrame, KeptIs DEF Notice, Stays
  <2>5. DaemonTypes'
    BY <1>1, <2>2 DEF DaemonTypes, WifiTypes
  <2> QED
    BY <1>1, <2>4, <2>5, UnaskedFrame, KeptInv DEF Notice
<1> QED
  BY <1>2, <1>3

\* An interface that is gone has nothing to be kept.
LEMMA UnplugInv == ASSUME Inv, NEW d \in Device, Unplug(d) PROVE Inv'
<1>1. DaemonTypes /\ UNCHANGED <<links, taken, exempt>>
  BY DaemonIsTyped DEF Unplug
<1>2. Unasked /\ troubles' \in 0..MaxTroubles
  BY <1>1, ChangeCounted DEF Unplug, DaemonTypes
<1>3. DelLink(d)
  BY DEF Unplug, DelLink
<1>4. DaemonTypes'
  BY <1>1, <1>2, <1>3, LinkTypes DEF DaemonTypes
<1>5. \A e \in DOMAIN kernel' : e \in DOMAIN kernel /\ kernel'[e] = kernel[e]
  BY DEF Unplug, Without
<1>6. Kept
  BY <1>1, <1>2, <1>5, UnaskedFrame, KeptIs DEF Stays
<1>7. assoc'.network \in {assoc.network, None}
  BY StatusTypes DEF Unplug, Orphaned, wifi
<1> QED
  BY <1>1, <1>2, <1>4, <1>6, <1>7, UnaskedFrame, KeptInv

\* What others change of the interface that is saved is exempt.
LEMMA ReconfigureInv == ASSUME Inv, NEW d \in Device, Reconfigure(d) PROVE Inv'
<1>1. DaemonTypes /\ UNCHANGED <<profiles, assoc, manager, taken>> /\ d \in DOMAIN kernel
  BY DaemonIsTyped DEF Reconfigure, wifi
<1>2. Unasked /\ troubles' \in 0..MaxTroubles
  BY <1>1, ChangeCounted DEF Reconfigure, DaemonTypes
<1>3. ASSUME NEW part \in Addr(Lists4) \cup Addr(Lists6) \cup {"flags"}, Besides(d, part)
      PROVE  /\ exempt \subseteq exempt' /\ exempt' \in SUBSET (Addr(Lists4) \cup Addr(Lists6) \cup {"flags"})
             /\ task.goal # None /\ task.goal.device = d => part \in exempt'
  BY <1>1, <1>3 DEF Besides, DaemonTypes
<1>4. ASSUME NEW A, NEW list \in SUBSET A, NEW a \in A
      PROVE  /\ Toggled(list, a) \in SUBSET A
             /\ \A ex : a \in ex => Toggled(list, a) \ ex = list \ ex
  BY <1>4 DEF Toggled
<1>5. \A e \in DOMAIN kernel : /\ e \in Device /\ kernel[e] \in Wire
                               /\ kernel[e].v4 \in SUBSET Addr(Lists4) /\ kernel[e].v6 \in SUBSET Addr(Lists6)
  BY <1>1, LinksAndWires DEF DaemonTypes, Wire
<1>6. ASSUME NEW a \in Addr(Lists4), kernel' = [kernel EXCEPT ![d].v4 = Toggled(@, a)], Besides(d, a), UNCHANGED links
      PROVE  Inv'
  <2>1. DOMAIN kernel' = DOMAIN kernel /\ kernel'[d] = [kernel[d] EXCEPT !.v4 = Toggled(kernel[d].v4, a)]
    BY <1>1, <1>6
  <2>2. \A e \in DOMAIN kernel \ {d} : kernel'[e] = kernel[e]
    BY <1>6
  <2>3. Toggled(kernel[d].v4, a) \in SUBSET Addr(Lists4)
    BY <1>1, <1>4, <1>5
  <2>4. kernel'[d] \in Wire /\ kernel'[d].v4 = Toggled(kernel[d].v4, a) /\ kernel'[d].v6 = kernel[d].v6
    BY <1>1, <1>5, <2>1, <2>3 DEF Wire
  <2>5. kernel' \in [DOMAIN kernel -> Wire] /\ DOMAIN kernel \in SUBSET Device
    <3>1. kernel' = [e \in DOMAIN kernel |-> kernel'[e]]
      BY <1>6
    <3> QED
      BY <1>5, <2>2, <2>4, <3>1
  <2>6. DaemonTypes'
    BY <1>1, <1>2, <1>3, <1>6, <2>5 DEF DaemonTypes, WifiTypes, Wires
  <2>7. Kept
    <3>1. PICK f : f = task.goal
      OBVIOUS
    <3>2. task.goal # None => Stays(f.device)
      <4>1. CASE f.device = d
        BY <1>1, <1>3, <1>4, <1>5, <1>6, <2>4, <3>1, <4>1 DEF Stays
      <4>2. CASE f.device # d
        BY <1>6, <2>1, <2>2, <4>2 DEF Stays
      <4> QED
        BY <4>1, <4>2
    <3> QED
      BY <1>2, <1>3, <1>6, <3>1, <3>2, UnaskedFrame, KeptIs
  <2> QED
    BY <1>1, <1>2, <2>6, <2>7, UnaskedFrame, KeptInv
<1>7. ASSUME NEW a \in Addr(Lists6), kernel' = [kernel EXCEPT ![d].v6 = Toggled(@, a)], Besides(d, a), UNCHANGED links
      PROVE  Inv'
  <2>1. DOMAIN kernel' = DOMAIN kernel /\ kernel'[d] = [kernel[d] EXCEPT !.v6 = Toggled(kernel[d].v6, a)]
    BY <1>1, <1>7
  <2>2. \A e \in DOMAIN kernel \ {d} : kernel'[e] = kernel[e]
    BY <1>7
  <2>3. Toggled(kernel[d].v6, a) \in SUBSET Addr(Lists6)
    BY <1>1, <1>4, <1>5
  <2>4. kernel'[d] \in Wire /\ kernel'[d].v6 = Toggled(kernel[d].v6, a) /\ kernel'[d].v4 = kernel[d].v4
    BY <1>1, <1>5, <2>1, <2>3 DEF Wire
  <2>5. kernel' \in [DOMAIN kernel -> Wire] /\ DOMAIN kernel \in SUBSET Device
    <3>1. kernel' = [e \in DOMAIN kernel |-> kernel'[e]]
      BY <1>7
    <3> QED
      BY <1>5, <2>2, <2>4, <3>1
  <2>6. DaemonTypes'
    BY <1>1, <1>2, <1>3, <1>7, <2>5 DEF DaemonTypes, WifiTypes, Wires
  <2>7. Kept
    <3>1. PICK f : f = task.goal
      OBVIOUS
    <3>2. task.goal # None => Stays(f.device)
      <4>1. CASE f.device = d
        BY <1>1, <1>3, <1>4, <1>5, <1>7, <2>4, <3>1, <4>1 DEF Stays
      <4>2. CASE f.device # d
        BY <1>7, <2>1, <2>2, <4>2 DEF Stays
      <4> QED
        BY <4>1, <4>2
    <3> QED
      BY <1>2, <1>3, <1>7, <3>1, <3>2, UnaskedFrame, KeptIs
  <2> QED
    BY <1>1, <1>2, <2>6, <2>7, UnaskedFrame, KeptInv
<1>8. ASSUME d \in DOMAIN links, links' = [links EXCEPT ![d].dhcp = ~@], Besides(d, "flags"), UNCHANGED kernel
      PROVE  Inv'
  <2>1. DOMAIN links' = DOMAIN links /\ \A e \in DOMAIN links \ {d} : links'[e] = links[e]
    BY <1>8
  <2>2. links'[d] = [links[d] EXCEPT !.dhcp = ~links[d].dhcp] /\ links[d] \in Link
    BY <1>1, <1>8, LinksAndWires DEF DaemonTypes
  <2>3. links'[d] \in Link
    BY <2>2 DEF Link
  <2>4. links' \in [DOMAIN links -> Link] /\ DOMAIN links \in SUBSET Device
    <3>1. links' = [e \in DOMAIN links |-> links'[e]]
      BY <1>8
    <3>2. DOMAIN links \subseteq Device /\ \A e \in DOMAIN links : links[e] \in Link
      BY <1>1, LinksAndWires DEF DaemonTypes
    <3> QED
      BY <2>1, <2>3, <3>1, <3>2
  <2>5. DaemonTypes'
    BY <1>1, <1>2, <1>3, <1>8, <2>4 DEF DaemonTypes, WifiTypes, Links
  <2>6. Kept
    <3>1. PICK f : f = task.goal
      OBVIOUS
    <3>2. task.goal # None => Stays(f.device)
      <4>1. CASE f.device = d
        BY <1>1, <1>3, <1>8, <2>1, <3>1, <4>1 DEF Stays
      <4>2. CASE f.device # d
        BY <1>8, <2>1, <4>2 DEF Stays
      <4> QED
        BY <4>1, <4>2
    <3> QED
      BY <1>2, <1>3, <1>8, <3>1, <3>2, UnaskedFrame, KeptIs
  <2> QED
    BY <1>1, <1>2, <2>5, <2>6, UnaskedFrame, KeptInv
<1> QED
  BY <1>6, <1>7, <1>8 DEF Reconfigure

\* The Wi-Fi interface changes hands, and no address.
LEMMA WifiInv ==
  ASSUME Inv, (\E n \in Network : Elsewhere(n)) \/ BackendEnds \/ Associate
  PROVE  Inv'
<1>1. DaemonTypes /\ UNCHANGED <<links, kernel, exempt>>
  BY DaemonIsTyped DEF Elsewhere, BackendEnds, Associate
<1>2. Unasked /\ troubles' \in 0..MaxTroubles
  BY <1>1, ChangeCounted DEF Elsewhere, BackendEnds, Associate, DaemonTypes
<1>3. Kept
  BY <1>1, <1>2, UnaskedFrame, KeptIs DEF Stays
<1>4. assoc \in Status /\ profiles \in SUBSET Network /\ manager \in {"up", "blocked", "gone"} /\ taken \in BOOLEAN
  BY <1>1 DEF DaemonTypes, WifiTypes
<1>5. ASSUME NEW n \in Network, Elsewhere(n)
      PROVE  /\ WifiTypes' /\ taken' \in BOOLEAN
             /\ (taken => taken') /\ (taken' \/ assoc'.network \in {assoc.network, None})
  <2>1. UNCHANGED manager
    BY <1>5 DEF Elsewhere
  <2>2. CASE Forgotten(n) /\ UNCHANGED taken /\ profiles' \in SUBSET Network
    BY <1>4, <2>1, <2>2, ForgottenType DEF WifiTypes
  <2>3. CASE assoc' = Trying(n) /\ taken' = TRUE /\ UNCHANGED profiles
    BY <1>4, <2>1, <2>3, StatusTypes DEF WifiTypes
  <2>4. CASE assoc' = NoNetwork("Disconnected") /\ UNCHANGED <<profiles, taken>>
    BY <1>4, <2>1, <2>4, StatusTypes DEF WifiTypes
  <2> QED
    BY <1>4, <1>5, <2>2, <2>3, <2>4 DEF Elsewhere
<1>6. ASSUME BackendEnds
      PROVE  /\ WifiTypes' /\ taken' \in BOOLEAN
             /\ (taken => taken') /\ (taken' \/ assoc'.network \in {assoc.network, None})
  BY <1>4, <1>6, StatusTypes DEF BackendEnds, WifiTypes
<1>7. ASSUME Associate
      PROVE  /\ WifiTypes' /\ taken' \in BOOLEAN
             /\ (taken => taken') /\ (taken' \/ assoc'.network \in {assoc.network, None})
  <2>1. PICK s \in {"Completed", "Disconnected", "Associating"} : assoc' = [assoc EXCEPT !.state = s]
    BY <1>7 DEF Associate
  <2>2. assoc' \in Status /\ assoc'.network = assoc.network
    BY <1>4, <2>1 DEF Status
  <2> QED
    BY <1>4, <1>7, <2>2 DEF Associate, WifiTypes
<1>8. /\ WifiTypes' /\ taken' \in BOOLEAN
      /\ (taken => taken') /\ (taken' \/ assoc'.network \in {assoc.network, None})
  BY <1>5, <1>6, <1>7
<1>9. DaemonTypes'
  BY <1>1, <1>2, <1>8 DEF DaemonTypes
<1> QED
  BY <1>2, <1>3, <1>8, <1>9, UnaskedFrame, KeptInv

\* What happens to the daemon besides what the terminal asks for.
ByOthers ==
  \/ \E d \in Device : Notice(d) \/ Unplug(d) \/ Reconfigure(d)
  \/ \E n \in Network : Elsewhere(n)
  \/ BackendEnds \/ Associate

LEMMA ByOthersInv ==
  ASSUME Inv, ByOthers
  PROVE  Inv' /\ UNCHANGED <<popup, task>>
<1>1. Inv'
  BY NoticeInv, UnplugInv, ReconfigureInv, WifiInv DEF ByOthers
<1>2. Unasked
  BY DEF ByOthers, Notice, Unplug, Reconfigure, Elsewhere, BackendEnds, Associate, Change
<1> QED
  BY <1>1, <1>2, UnaskedFrame

-------------------------------------------------------------------------------

\* Nothing is asked for at the start.
LEMMA InitInv == Init => Inv
<1> SUFFICES ASSUME Init PROVE Inv
  OBVIOUS
<1>1. links \in [Device -> Link] /\ interfaces = links
  BY LinksAssumption DEF Init
<1>2. links \in Links
  BY <1>1 DEF Links
<1>3. interfaces \in Links
  BY <1>1, <1>2
<1>9. kernel \in Wires
  <2>1. \A l \in Link : InKernel(l) \in Wire
    BY DEF Link, Wire, InKernel
  <2>2. kernel \in [Device -> Wire]
    BY <2>1, LinksAssumption DEF Init
  <2> QED
    BY <2>2 DEF Wires
<1>4. /\ task = Idle /\ Idle.todo = <<>> /\ Idle.after = NoPopup /\ Idle.goal = None
      /\ NoPopup \in Popup /\ NoPopup.kind = "None"
  BY PopupTypes DEF Init, Idle, NoPopup
<1>5. <<>> \in Seq(RequestType) /\ <<>> \in Seq(ReplyType)
  BY EmptySeq
<1>6. Idle \in TaskType
  BY <1>4, <1>5 DEF Idle, TaskType
<1>7. TypesInv
  <2>1. Len(requests) = 0 /\ Len(replies) = 0
    BY DEF Init
  <2>2. commands \in 0..MaxCommands /\ troubles \in 0..MaxTroubles /\ late \in Nat /\ profiles \subseteq Network
    BY TerminalAssumption DEF Init
  <2> QED
    BY <1>1, <1>2, <1>3, <1>4, <1>5, <1>6, <1>9, <2>1, <2>2, StatusTypes, LinksAndWires DEF Init, TypesInv, TypeOK
<1>8. AwaitedInv /\ SelectedInv /\ SavingInv
  BY <1>4 DEF Init, AwaitedInv, SelectedInv, SavingInv
<1> QED
  BY <1>7, <1>8 DEF Inv

\* Every key keeps the invariant.
LEMMA KeyInv == ASSUME Inv, Key PROVE Inv'
  BY MenuInv, ConnectionsInv, NetworksInv, SaveEditorInv, ActivateInv DEF Key

\* So does a step that changes nothing.
LEMMA StutterInv == ASSUME Inv, UNCHANGED vars PROVE Inv'
<1>1. UNCHANGED <<screen, popup, interfaces, known, status, task, requests, replies, links, kernel, profiles, assoc,
                  manager, taken, exempt, commands, troubles, late>>
  BY DEF vars, app, daemon, wifi, bounds
<1>2. DaemonTypes'
  BY <1>1, DaemonIsTyped DEF DaemonTypes, WifiTypes
<1>3. Kept
  BY <1>1, KeptIs DEF Stays
<1> QED
  BY <1>1, <1>2, <1>3, KeptInv

\* So does every step.
LEMMA NextInv == Inv /\ [Next]_vars => Inv'
<1> SUFFICES ASSUME Inv, [Next]_vars PROVE Inv'
  OBVIOUS
<1>1. Key \/ PollConnecting \/ Answered \/ TimedOut \/ Serve \/ ByOthers \/ UNCHANGED vars
  BY DEF Next, ByOthers
<1> QED
  BY <1>1, KeyInv, PollConnectingInv, AnsweredInv, TimedOutInv, ServeInv, ByOthersInv, StutterInv

\* While a form is saved there is a request that is awaited.
LEMMA SavingIsBusy ==
  ASSUME Inv, late = 0, task.goal # None
  PROVE  task.todo # <<>>
<1>1. PICK f \in Form, todo \in Seq(RequestType) : f = task.goal /\ todo = task.todo
  BY DEF Inv, TypesInv, TypeOK, TaskType
<1>2. PICK j \in 0..Len(todo), k \in 0..Len(InterfaceActions(f)) : Remaining(todo, f, j, k)
  BY <1>1 DEF Inv, SavingInv
<1>3. j \in Nat /\ k \in Nat
  BY InterfaceActionsAre
<1> QED
  BY <1>1, <1>2, <1>3, RemainingHead

\* Keys wait for the reply that is awaited.
LEMMA KeyIsFree == ASSUME Key PROVE task.todo = <<>>
  BY DEF Key, OpenEditConnections, OpenActivateConnections, OpenHostname, SaveHostname, Back,
         OpenEditor, DeleteLink, ActivateInterface, NewConnection, CreateConnection, CreateWifi,
         SelectWirelessDevice, EditForm, SaveEditor, RefuseForm, OpenSavedNetworks, DeleteSavedNetwork,
         OpenAccessPointEditor, SaveAccessPoint, RefuseAccessPoint, Rescan, DisconnectWifi,
         OpenWifiConnection, AnswerBindPrompt, SubmitCredentials, StartWifi, Cancel, Shows, Starts, Free

\* The step that ends a save without a message leaves the daemon with the form.
LEMMA SavedStep ==
  ASSUME Inv, [Next]_vars, late = 0, task.goal # None, task'.goal = None, popup'.kind = "None"
  PROVE  Configured(task.goal)
<1>1. task.todo # <<>>
  BY SavingIsBusy
<1>2. CASE Key \/ PollConnecting
  BY <1>1, <1>2, KeyIsFree DEF PollConnecting
<1>3. CASE Answered
  BY <1>3, AnsweredSaving
<1>4. CASE TimedOut
  BY <1>4, TimedOutInv
<1>5. CASE Serve
  <2>1. PICK q, rep : Outcome(q, rep)
    BY <1>5, ServeOutcome
  <2> QED
    BY <2>1 DEF Outcome, app
<1>6. CASE ByOthers
  BY <1>6, ByOthersInv
<1>7. CASE UNCHANGED vars
  BY <1>7 DEF vars, app
<1> QED
  BY <1>2, <1>3, <1>4, <1>5, <1>6, <1>7 DEF Next, ByOthers

-------------------------------------------------------------------------------

\* The invariant holds always.
LEMMA Invariant == Spec => []Inv
  BY InitInv, NextInv, PTL DEF Spec

(***************************************************************************)
(* Every value has its type, and the requests and replies under way are    *)
(* the one that is awaited and those whose wait has timed out.             *)
(***************************************************************************)
THEOREM TypeCorrect == Spec => []TypeOK
<1>1. Inv => TypeOK
  BY DEF Inv, TypesInv
<1> QED
  BY <1>1, Invariant, PTL

(***************************************************************************)
(* While the terminal says that it connects to a network, that is the one  *)
(* the daemon has selected, if it has one: unless another client has one   *)
(* selected after the terminal's request was granted, whatever else other  *)
(* clients, the access point and the manager do (no late reply).           *)
(***************************************************************************)
THEOREM ConnectingAlwaysSelected == Spec => []ConnectingIsSelected
<1>1. Inv => ConnectingIsSelected
  BY DEF Inv, SelectedInv, ConnectingIsSelected
<1> QED
  BY <1>1, Invariant, PTL

(***************************************************************************)
(* A form whose saving ends without a message is what the kernel and the   *)
(* daemon have, of whatever length its lists are, although leases, other   *)
(* clients and notices change the interface meanwhile: but for the very    *)
(* addresses and flags they change, and addresses that the daemon did not  *)
(* list when it was to clear them (no late reply).                         *)
(***************************************************************************)
THEOREM SavedAlwaysShown == Spec => SavedAsShown
<1>1. Inv /\ [Next]_vars
        => [(late = 0 /\ task.goal # None /\ task'.goal = None /\ popup'.kind = "None")
              => Configured(task.goal)]_vars
  BY SavedStep
<1> QED
  BY <1>1, Invariant, PTL DEF Spec, SavedAsShown

===============================================================================
