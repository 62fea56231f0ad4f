------------------------ MODULE InterfaceManager_proofs ------------------------
(***************************************************************************)
(* The InterfaceManager keeps its types, and its table stays sound, for    *)
(* any number of interfaces, indices, addresses and leases and for any     *)
(* number of kernel changes and requests.  From that follow what its       *)
(* subscribers know, and which links it knows.                             *)
(***************************************************************************)
EXTENDS InterfaceManager, FiniteSetTheorems, TLAPS

-------------------------------------------------------------------------------
(***************************************************************************)
(* What every operation on an interface table keeps: the type of the       *)
(* table, the soundness of its index and the completeness of its listings. *)
(***************************************************************************)
\* The infos a table of a set may have.
WellFormed(Infos) ==
  /\ None \notin Infos
  /\ \A x \in Infos :
       /\ x.name \in Name /\ x.id \in Index /\ x.interface_type \in Type
       /\ x.parent \in Device \cup {None} /\ x.state \in State

\* Every operation of table.rs yields a table.
LEMMA InsertType ==
  ASSUME NEW Infos, WellFormed(Infos), NEW t \in Table(Infos), NEW info \in Infos
  PROVE  Insert(t, info) \in Table(Infos)
<1>1. info.name \in Name /\ info.id \in Index /\ info.interface_type \in Type
        /\ info.state \in State
  BY DEF WellFormed
<1>2. QED
  BY <1>1 DEF Insert, Table

\* A removal yields a table.
LEMMA RemoveType ==
  ASSUME NEW Infos, WellFormed(Infos), NEW t \in Table(Infos), NEW n \in Name
  PROVE  Remove(t, n) \in Table(Infos)
<1>1. CASE t.interfaces[n] = None
  BY <1>1 DEF Remove
<1>2. CASE t.interfaces[n] # None
  <2>1. t.interfaces[n] \in Infos
    BY <1>2 DEF Table
  <2>2. t.interfaces[n].id \in Index /\ t.interfaces[n].interface_type \in Type
          /\ t.interfaces[n].state \in State
    BY <2>1 DEF WellFormed
  <2>3. QED
    BY <1>2, <2>2 DEF Remove, Table
<1>3. QED
  BY <1>1, <1>2

\* An update yields a table.
LEMMA UpdateType ==
  ASSUME NEW Infos, WellFormed(Infos), NEW t \in Table(Infos), NEW info \in Infos
  PROVE  Update(t, info) \in Table(Infos)
<1>1. info.name \in Name
  BY DEF WellFormed
<1>2. QED
  BY <1>1, RemoveType, InsertType DEF Update

\* A dump of the kernel yields a table.
LEMMA TableOfType ==
  ASSUME NEW Infos, WellFormed(Infos), NEW links \in [Name -> Infos \cup {None}]
  PROVE  TableOf(links) \in Table(Infos)
<1> DEFINE present == {n \in Name : links[n] # None}
<1>1. \A n \in present : links[n] \in Infos /\ links[n].id \in Index
  BY DEF WellFormed
<1>2. [i \in Index |-> IF \E n \in present : links[n].id = i
                       THEN CHOOSE n \in present : links[n].id = i
                       ELSE None] \in [Index -> Name \cup {None}]
  OBVIOUS
<1>3. [n \in Name |-> IF n \in present THEN links[n].id ELSE None]
        \in [Name -> Index \cup {None}]
  BY <1>1
<1>4. /\ [k \in Type |-> {n \in present : links[n].interface_type = k}] \in [Type -> SUBSET Name]
      /\ [d \in Device |-> {n \in present : links[n].parent = d}] \in [Device -> SUBSET Name]
      /\ [s \in State |-> {n \in present : links[n].state = s}] \in [State -> SUBSET Name]
  OBVIOUS
<1>5. QED
  BY <1>2, <1>3, <1>4 DEF TableOf, Table

\* The empty table is a sound table.
LEMMA EmptyTableType ==
  ASSUME NEW Infos
  PROVE  EmptyTable \in Table(Infos) /\ IndexSound(EmptyTable) /\ ListingsComplete(EmptyTable)
  BY DEF EmptyTable, Table, IndexSound, ListingsComplete

\* The index stays sound when a name or an index moves.
LEMMA InsertIndexSound ==
  ASSUME NEW Infos, WellFormed(Infos), NEW t \in Table(Infos), NEW info \in Infos,
         IndexSound(t)
  PROVE  IndexSound(Insert(t, info))
<1> DEFINE s == Insert(t, info)
<1>0. /\ info # None /\ info.name \in Name /\ info.id \in Index
      /\ info.name # None /\ info.id # None
  BY NoneAssumption DEF WellFormed
<1>t. /\ t.interfaces \in [Name -> Infos \cup {None}]
      /\ t.index_to_name \in [Index -> Name \cup {None}]
      /\ t.name_to_index \in [Name -> Index \cup {None}]
  BY DEF Table
<1>1. /\ s.interfaces = [t.interfaces EXCEPT ![info.name] = info]
      /\ \A j \in Index : s.index_to_name[j] = IF j = info.id THEN info.name
                                               ELSE IF j = t.name_to_index[info.name] THEN None
                                               ELSE t.index_to_name[j]
      /\ \A m \in Name : s.name_to_index[m] = IF m = info.name THEN info.id
                                              ELSE IF m = t.index_to_name[info.id] THEN None
                                              ELSE t.name_to_index[m]
  BY DEF Insert
<1>2. ASSUME NEW i \in Index, s.index_to_name[i] # None
      PROVE  /\ s.interfaces[s.index_to_name[i]] # None
             /\ s.interfaces[s.index_to_name[i]].id = i
             /\ s.name_to_index[s.index_to_name[i]] = i
  <2>1. CASE i = info.id
    BY <2>1, <1>0, <1>1, <1>t
  <2>2. CASE i # info.id
    <3> DEFINE m == t.index_to_name[i]
    <3>1. s.index_to_name[i] = m /\ m \in Name /\ i # t.name_to_index[info.name]
      BY <1>2, <2>2, <1>1, <1>t
    <3>2. t.interfaces[m] # None /\ t.interfaces[m].id = i /\ t.name_to_index[m] = i
      BY <3>1, <1>2 DEF IndexSound
    <3>3. m # info.name
      BY <3>1, <3>2
    <3>4. m # t.index_to_name[info.id]
      BY <3>1, <3>2, <2>2, <1>0, NoneAssumption DEF IndexSound
    <3>5. QED
      BY <3>1, <3>2, <3>3, <3>4, <1>1, <1>t
  <2>3. QED
    BY <2>1, <2>2
<1>3. ASSUME NEW n \in Name, s.name_to_index[n] # None
      PROVE  s.interfaces[n] # None /\ s.interfaces[n].id = s.name_to_index[n]
  <2>1. CASE n = info.name
    BY <2>1, <1>0, <1>1, <1>t
  <2>2. CASE n # info.name
    BY <2>2, <1>3, <1>0, <1>1, <1>t DEF IndexSound
  <2>3. QED
    BY <2>1, <2>2
<1>4. QED
  BY <1>2, <1>3 DEF IndexSound

\* The index stays sound when an interface is removed.
LEMMA RemoveIndexSound ==
  ASSUME NEW Infos, WellFormed(Infos), NEW t \in Table(Infos), NEW n \in Name,
         IndexSound(t)
  PROVE  IndexSound(Remove(t, n))
<1>1. CASE t.interfaces[n] = None
  BY <1>1 DEF Remove
<1>2. CASE t.interfaces[n] # None
  <2> DEFINE s == Remove(t, n)
             x == t.interfaces[n].id
  <2>t. /\ t.interfaces \in [Name -> Infos \cup {None}]
        /\ t.index_to_name \in [Index -> Name \cup {None}]
        /\ t.name_to_index \in [Name -> Index \cup {None}]
    BY DEF Table
  <2>1. x \in Index
    BY <1>2, <2>t DEF WellFormed
  <2>2. /\ s.interfaces = [t.interfaces EXCEPT ![n] = None]
        /\ s.index_to_name = [t.index_to_name EXCEPT ![x] = None]
        /\ s.name_to_index = [t.name_to_index EXCEPT ![n] = None]
    BY <1>2 DEF Remove
  <2>3. ASSUME NEW i \in Index, s.index_to_name[i] # None
        PROVE  /\ s.interfaces[s.index_to_name[i]] # None
               /\ s.interfaces[s.index_to_name[i]].id = i
               /\ s.name_to_index[s.index_to_name[i]] = i
    <3>1. i # x /\ s.index_to_name[i] = t.index_to_name[i] /\ t.index_to_name[i] \in Name
      BY <2>1, <2>2, <2>3, <2>t
    <3>2. t.index_to_name[i] # n
      BY <3>1, <2>3 DEF IndexSound
    <3>3. QED
      BY <3>1, <3>2, <2>2, <2>3, <2>t DEF IndexSound
  <2>4. ASSUME NEW m \in Name, s.name_to_index[m] # None
        PROVE  s.interfaces[m] # None /\ s.interfaces[m].id = s.name_to_index[m]
    BY <2>2, <2>4, <2>t DEF IndexSound
  <2>5. QED
    BY <2>3, <2>4 DEF IndexSound
<1>3. QED
  BY <1>1, <1>2

\* The index of a dump is sound.
LEMMA TableOfIndexSound ==
  ASSUME NEW links
  PROVE  IndexSound(TableOf(links))
<1> DEFINE present == {n \in Name : links[n] # None}
           s == TableOf(links)
<1>1. /\ s.interfaces = links
      /\ \A i \in Index : s.index_to_name[i] = IF \E n \in present : links[n].id = i
                                               THEN CHOOSE n \in present : links[n].id = i
                                               ELSE None
      /\ \A n \in Name : s.name_to_index[n] = IF n \in present THEN links[n].id ELSE None
  BY DEF TableOf
<1>2. ASSUME NEW i \in Index, s.index_to_name[i] # None
      PROVE  s.index_to_name[i] \in present /\ links[s.index_to_name[i]].id = i
  BY <1>1, <1>2
<1>3. QED
  BY <1>1, <1>2 DEF IndexSound

\* No listing loses an interface.
LEMMA InsertListings ==
  ASSUME NEW Infos, WellFormed(Infos), NEW t \in Table(Infos), NEW info \in Infos,
         ListingsComplete(t)
  PROVE  ListingsComplete(Insert(t, info))
<1> DEFINE s == Insert(t, info)
<1>0. /\ info.name \in Name /\ info.interface_type \in Type
      /\ info.parent \in Device \cup {None} /\ info.state \in State
  BY DEF WellFormed
<1>t. /\ t.interfaces \in [Name -> Infos \cup {None}]
      /\ t.by_type \in [Type -> SUBSET Name]
      /\ t.by_parent \in [Device -> SUBSET Name]
      /\ t.by_state \in [State -> SUBSET Name]
  BY DEF Table
<1>1. /\ s.interfaces = [t.interfaces EXCEPT ![info.name] = info]
      /\ \A k \in Type : s.by_type[k] = IF k = info.interface_type
                                        THEN t.by_type[k] \cup {info.name}
                                        ELSE t.by_type[k]
      /\ \A d \in Device : s.by_parent[d] = IF d = info.parent
                                            THEN t.by_parent[d] \cup {info.name}
                                            ELSE t.by_parent[d]
      /\ \A k \in State : s.by_state[k] = IF k = info.state
                                          THEN t.by_state[k] \cup {info.name}
                                          ELSE t.by_state[k]
  BY <1>t DEF Insert
<1> HIDE DEF s
<1>2. ASSUME NEW n \in Name, s.interfaces[n] # None
      PROVE  /\ n \in s.by_type[s.interfaces[n].interface_type]
             /\ s.interfaces[n].parent # None => n \in s.by_parent[s.interfaces[n].parent]
             /\ n \in s.by_state[s.interfaces[n].state]
  <2>1. CASE n = info.name
    <3>1. s.interfaces[n] = info
      BY <2>1, <1>0, <1>1, <1>t
    <3>2. QED
      BY <2>1, <3>1, <1>0, <1>1
  <2>2. CASE n # info.name
    <3>1. s.interfaces[n] = t.interfaces[n] /\ t.interfaces[n] \in Infos
      BY <2>2, <1>2, <1>1, <1>t
    <3>2. /\ n \in t.by_type[t.interfaces[n].interface_type]
          /\ t.interfaces[n].parent # None => n \in t.by_parent[t.interfaces[n].parent]
          /\ n \in t.by_state[t.interfaces[n].state]
      BY <3>1, <1>2 DEF ListingsComplete
    <3>3. /\ t.interfaces[n].interface_type \in Type
          /\ t.interfaces[n].parent \in Device \cup {None}
          /\ t.interfaces[n].state \in State
      BY <3>1 DEF WellFormed
    <3>4. n \in s.by_type[t.interfaces[n].interface_type]
      BY <3>1, <3>2, <3>3, <1>1
    <3>5. t.interfaces[n].parent # None => n \in s.by_parent[t.interfaces[n].parent]
      BY <3>1, <3>2, <3>3, <1>1
    <3>6. n \in s.by_state[t.interfaces[n].state]
      BY <3>1, <3>2, <3>3, <1>1
    <3>7. QED
      BY <3>1, <3>4, <3>5, <3>6
  <2>3. QED
    BY <2>1, <2>2
<1>3. QED
  BY <1>2 DEF ListingsComplete, s

\* A removal takes no other interface from a listing.
LEMMA RemoveListings ==
  ASSUME NEW Infos, WellFormed(Infos), NEW t \in Table(Infos), NEW n \in Name,
         ListingsComplete(t)
  PROVE  ListingsComplete(Remove(t, n))
<1>1. CASE t.interfaces[n] = None
  BY <1>1 DEF Remove
<1>2. CASE t.interfaces[n] # None
  <2> DEFINE s == Remove(t, n)
             info == t.interfaces[n]
  <2>t. /\ t.interfaces \in [Name -> Infos \cup {None}]
        /\ t.by_type \in [Type -> SUBSET Name]
        /\ t.by_parent \in [Device -> SUBSET Name]
        /\ t.by_state \in [State -> SUBSET Name]
    BY DEF Table
  <2>1. /\ s.interfaces = [t.interfaces EXCEPT ![n] = None]
        /\ \A k \in Type : s.by_type[k] = IF k = info.interface_type THEN t.by_type[k] \ {n}
                                          ELSE t.by_type[k]
        /\ \A d \in Device : s.by_parent[d] = IF d = info.parent THEN t.by_parent[d] \ {n}
                                              ELSE t.by_parent[d]
        /\ \A k \in State : s.by_state[k] = IF k = info.state THEN t.by_state[k] \ {n}
                                            ELSE t.by_state[k]
    BY <1>2, <2>t DEF Remove
  <2> HIDE DEF s
  <2>2. ASSUME NEW m \in Name, s.interfaces[m] # None
        PROVE  /\ m \in s.by_type[s.interfaces[m].interface_type]
               /\ s.interfaces[m].parent # None => m \in s.by_parent[s.interfaces[m].parent]
               /\ m \in s.by_state[s.interfaces[m].state]
    <3>1. m # n /\ s.interfaces[m] = t.interfaces[m] /\ t.interfaces[m] \in Infos
      BY <2>1, <2>2, <2>t
    <3>2. /\ m \in t.by_type[t.interfaces[m].interface_type]
          /\ t.interfaces[m].parent # None => m \in t.by_parent[t.interfaces[m].parent]
          /\ m \in t.by_state[t.interfaces[m].state]
      BY <3>1, <2>2 DEF ListingsComplete
    <3>3. /\ t.interfaces[m].interface_type \in Type
          /\ t.interfaces[m].parent \in Device \cup {None}
          /\ t.interfaces[m].state \in State
      BY <3>1 DEF WellFormed
    <3>4. m \in s.by_type[t.interfaces[m].interface_type]
      BY <3>1, <3>2, <3>3, <2>1
    <3>5. t.interfaces[m].parent # None => m \in s.by_parent[t.interfaces[m].parent]
      BY <3>1, <3>2, <3>3, <2>1
    <3>6. m \in s.by_state[t.interfaces[m].state]
      BY <3>1, <3>2, <3>3, <2>1
    <3>7. QED
      BY <3>1, <3>4, <3>5, <3>6
  <2>3. QED
    BY <2>2 DEF ListingsComplete, s
<1>3. QED
  BY <1>1, <1>2

\* The listings of a dump are complete.
LEMMA TableOfListings ==
  ASSUME NEW Infos, WellFormed(Infos), NEW links \in [Name -> Infos \cup {None}]
  PROVE  ListingsComplete(TableOf(links))
<1>1. \A n \in Name : links[n] # None =>
        /\ links[n].interface_type \in Type
        /\ links[n].parent \in Device \cup {None}
        /\ links[n].state \in State
  BY DEF WellFormed
<1>2. QED
  BY <1>1 DEF TableOf, ListingsComplete

\* What complete listings are for: the queries of the manager that list the
\* interfaces of a type, a parent or a state (mod.rs, list_by_type and the two
\* after it) miss none of them.
THEOREM ListingsMissNothing ==
  ASSUME NEW t, ListingsComplete(t), NEW n \in Name, t.interfaces[n] # None
  PROVE  LET info == t.interfaces[n]
         IN /\ info \in ListByType(t, info.interface_type)
            /\ info.parent # None => info \in ListByParent(t, info.parent)
            /\ info \in ListByState(t, info.state)
  BY DEF ListingsComplete, ListByType, ListByParent, ListByState, Listed


-------------------------------------------------------------------------------
(***************************************************************************)
(* Types of what the handlers compute.                                     *)
(***************************************************************************)
\* The infos of the manager are infos a table may have.
LEMMA InfosWellFormed == WellFormed(Info)
  BY NoneIsNoRecord DEF WellFormed, Info

\* What the kernel answers about a link is an info.
LEMMA InfoOfType ==
  ASSUME NEW n \in Name, NEW link \in Link
  PROVE  InfoOf(n, link) \in Info
<1>1. StateOf(n, link) \in State
  BY ManagerAssumption DEF StateOf, Link, ConnectionState
<1>2. QED
  BY <1>1, ManagerAssumption DEF InfoOf, Info, Link

\* The link at an index is one the kernel has.
LEMMA LinkAtType ==
  ASSUME NEW i
  PROVE  LinkAt(i) # None => LinkAt(i) \in Present(kernel)
  BY DEF LinkAt

\* A query answers with an info or with nothing.
LEMMA QueryLinkType ==
  ASSUME TypeOK, NEW i
  PROVE  QueryLink(i) \in Info \cup {None}
<1>1. CASE LinkAt(i) = None
  BY <1>1 DEF QueryLink
<1>2. CASE LinkAt(i) # None
  <2>1. LinkAt(i) \in Name /\ kernel[LinkAt(i)] \in Link
    BY <1>2, LinkAtType DEF Present, TypeOK
  <2>2. QED
    BY <1>2, <2>1, InfoOfType DEF QueryLink
<1>3. QED
  BY <1>1, <1>2

\* A dump of the kernel, with the saved DHCP policies, is made of infos.
LEMMA QueryLinksType ==
  ASSUME TypeOK, NEW k \in [Name -> Link \cup {None}]
  PROVE  QueryLinks(k) \in [Name -> Info \cup {None}]
<1>1. ASSUME NEW n \in Name, k[n] # None
      PROVE  [InfoOf(n, k[n]) EXCEPT !.dhcpv4 = config.dhcpv4[n]] \in Info
  <2>1. InfoOf(n, k[n]) \in Info
    BY <1>1, InfoOfType
  <2>2. config.dhcpv4[n] \in BOOLEAN
    BY DEF TypeOK
  <2>3. QED
    BY <2>1, <2>2 DEF Info
<1>2. QED
  BY <1>1 DEF QueryLinks

\* A lookup in the table answers with an info or with nothing.
LEMMA GetByIndexType ==
  ASSUME TypeOK, NEW i \in Index
  PROVE  GetByIndex(table, i) \in Info \cup {None}
  BY DEF TypeOK, Table, GetByIndex

\* So does a lookup by name.
LEMMA StoredType ==
  ASSUME TypeOK, NEW n \in Name
  PROVE  table.interfaces[n] \in Info \cup {None}
  BY DEF TypeOK, Table

\* What the messages of the mailbox carry.
LEMMA MessageType ==
  /\ \A m \in Message : m.type = "Netlink" => m.notice \in Notice
  /\ \A m \in Message : m.type = "Update" => m.event \in Event
  /\ \A notice \in Notice : [type |-> "Netlink", notice |-> notice] \in Message
  /\ \A event \in Event : [type |-> "Update", event |-> event] \in Message
  BY DEF Message

\* What a handler takes from the mailbox, and what it leaves there.
LEMMA TakeType ==
  ASSUME TypeOK, NEW type, Take(type)
  PROVE  Head(mailbox) \in Message /\ Head(mailbox).type = type /\ mailbox' \in Seq(Message)
  BY DEF TypeOK, Take

\* What a handler has still to do.
LEMMA ContinueType ==
  /\ Idle \in Continue
  /\ \A info \in Info : \A kind \in {"Added", "Removed", "Changed"} :
       TellSelf(kind, info) \in Continue
  /\ \A links \in [Name -> Info \cup {None}] : [at |-> "install", links |-> links] \in Continue
  /\ \A c \in Continue : c.at = "tell" => c.event \in Event
  /\ \A c \in Continue : c.at = "install" => c.links \in [Name -> Info \cup {None}]
  BY DEF Continue, Idle, TellSelf, Event

\* A notice leads to nothing or to an event the actor tells itself.
LEMMA ReactionType ==
  ASSUME TypeOK, NEW notice \in Notice
  PROVE  Reaction(notice) \in Continue
<1> DEFINE cached == GetByIndex(table, notice.index)
           now    == QueryLink(notice.index)
<1>1. cached \in Info \cup {None} /\ now \in Info \cup {None}
  BY GetByIndexType, QueryLinkType DEF Notice
<1> HIDE DEF cached, now
<1>2. CASE notice.kind = "DelLink"
  <2>1. Reaction(notice) = IF cached # None THEN TellSelf("Removed", cached) ELSE Idle
    BY <1>2 DEF Reaction, cached
  <2>2. QED
    BY <2>1, <1>1, ContinueType
<1>3. CASE notice.kind = "Address"
  <2>1. Reaction(notice) = IF now # None THEN TellSelf("Changed", now) ELSE Idle
    BY <1>3 DEF Reaction, now
  <2>2. QED
    BY <2>1, <1>1, ContinueType
<1>4. CASE notice.kind \notin {"DelLink", "Address"}
  <2>1. Reaction(notice) = IF now = None \/ notice.kind = "DyingLink"
                           THEN IF cached # None THEN TellSelf("Removed", cached) ELSE Idle
                           ELSE TellSelf(IF cached # None THEN "Changed" ELSE "Added", now)
    BY <1>4 DEF Reaction, now, cached
  <2>2. QED
    BY <2>1, <1>1, ContinueType
<1>5. QED
  BY <1>2, <1>3, <1>4

\* An update merged with what is known is an info.
LEMMA MergeType ==
  ASSUME NEW cur \in Info \cup {None}, NEW info \in Info
  PROVE  Merge(cur, info) \in Info
  BY DEF Merge, Info

\* The notices the kernel sends about an index it knows.
LEMMA NoticeType ==
  ASSUME NEW i \in Index
  PROVE  /\ NewLink(i) \in Notice
         /\ AddressNotice(i) \in Notice
         /\ [kind |-> "DyingLink", index |-> i] \in Notice
         /\ DelLinkOf(i) \in Seq(Notice)
         /\ \A addrs : AddressNotices(i, addrs) \in Seq(Notice)
<1>1. /\ NewLink(i) \in Notice
      /\ AddressNotice(i) \in Notice
      /\ [kind |-> "DyingLink", index |-> i] \in Notice
      /\ [kind |-> "DelLink", index |-> i] \in Notice
  BY DEF NewLink, AddressNotice, Notice
<1>2. DelLinkOf(i) \in Seq(Notice)
  BY <1>1 DEF DelLinkOf
<1>3. ASSUME NEW addrs PROVE AddressNotices(i, addrs) \in Seq(Notice)
  BY <1>1 DEF AddressNotices
<1>4. QED
  BY <1>1, <1>2, <1>3

\* A sequence of address changes leaves addresses.
LEMMA AddressOutcomesType ==
  ASSUME TypeOK, NEW i, NEW gone \in SUBSET Addr, NEW new \in SUBSET Addr,
         NEW r \in AddressOutcomes(i, gone, new)
  PROVE  r.addrs \in SUBSET Addr /\ r.ok \in BOOLEAN
<1>1. ASSUME NEW have \in SUBSET Addr, NEW q \in DeleteAll(have, gone)
      PROVE  q.addrs \in SUBSET Addr /\ q.ok \in BOOLEAN
  <2>1. CASE gone \subseteq have
    <3>1. q = Outcome(have \ gone, TRUE)
      BY <2>1 DEF DeleteAll
    <3>2. QED
      BY <3>1 DEF Outcome
  <2>2. CASE ~(gone \subseteq have)
    <3>1. PICK d \in SUBSET (gone \cap have) : q = Outcome(have \ d, FALSE)
      BY <2>2 DEF DeleteAll
    <3>2. QED
      BY <3>1 DEF Outcome
  <2>3. QED
    BY <2>1, <2>2
<1>2. ASSUME NEW have \in SUBSET Addr
      PROVE  AddAll(have, new).addrs \in SUBSET Addr /\ AddAll(have, new).ok \in BOOLEAN
  BY DEF AddAll, Outcome
<1>3. CASE LinkAt(i) # None
  <2>1. kernel[LinkAt(i)].addrs \in SUBSET Addr
    BY <1>3, LinkAtType DEF Present, TypeOK, Link
  <2>2. PICK q \in DeleteAll(kernel[LinkAt(i)].addrs, gone) :
          r = IF q.ok THEN AddAll(q.addrs, new) ELSE q
    BY <1>3 DEF AddressOutcomes, Change
  <2>3. QED
    BY <2>1, <2>2, <1>1, <1>2
<1>4. CASE LinkAt(i) = None
  <2>1. PICK ok \in BOOLEAN : r = Outcome({}, ok)
    <3>1. r = Outcome({}, gone = {} /\ new = {})
      BY <1>4 DEF AddressOutcomes
    <3>2. QED
      BY <3>1
  <2>2. QED
    BY <2>1 DEF Outcome
<1>5. QED
  BY <1>3, <1>4

\* The kernel with other addresses on a link.
LEMMA WithAddrsType ==
  ASSUME TypeOK, NEW i, NEW addrs \in SUBSET Addr
  PROVE  WithAddrs(kernel, i, addrs) \in [Name -> Link \cup {None}]
<1>1. ASSUME NEW n \in Name, n = LinkAt(i), LinkAt(i) # None
      PROVE  [kernel[n] EXCEPT !.addrs = addrs] \in Link
  <2>1. kernel[n] \in Link
    BY <1>1, LinkAtType DEF Present, TypeOK
  <2>2. QED
    BY <2>1 DEF Link
<1>2. ASSUME NEW n \in Name, n = LinkAt(i), LinkAt(i) = None
      PROVE  FALSE
  BY <1>2, NoneAssumption
<1>3. QED
  BY <1>1, <1>2 DEF WithAddrs, TypeOK

\* An order of creation is a sequence of names.
LEMMA CreationOrdersType ==
  ASSUME NEW S \in SUBSET Name, NEW o \in CreationOrders(S)
  PROVE  o \in Seq(Name)
<1>1. PICK T \in SUBSET S : o \in [1..Cardinality(T) -> T]
  BY DEF CreationOrders
<1>2. Cardinality(T) \in Nat
  <2>1. IsFiniteSet(T)
    BY FS_Subset, ManagerAssumption
  <2>2. QED
    BY <2>1, FS_CardinalityType
<1>3. QED
  BY <1>1, <1>2

\* What a refresh starts with: created links, their notices and the dump.
LEMMA BeginRefreshType ==
  ASSUME TypeOK, NEW k \in [Name -> Link \cup {None}], NEW pending \in Seq(Notice),
         NEW creation \in SUBSET Name, BeginRefresh(k, pending, creation)
  PROVE  /\ kernel' \in [Name -> Link \cup {None}]
         /\ netlink' \in Seq(Notice)
         /\ pc' \in Continue
<1>1. PICK configured \in CreationOrders(creation \ Present(k)),
           auto \in AutoCreationOrders(k, creation) :
        LET made == configured \o auto
        IN \E index \in [DOMAIN made -> FreeIndex(k)] :
             /\ \A a, b \in DOMAIN made : index[a] = index[b] => a = b
             /\ kernel' = [n \in Name |->
                             IF \E a \in DOMAIN made : made[a] = n
                             THEN NewlyCreated(index[CHOOSE a \in DOMAIN made : made[a] = n])
                             ELSE k[n]]
             /\ netlink' = pending \o [a \in DOMAIN made |-> NewLink(index[a])]
             /\ pc' = [at |-> "install", links |-> QueryLinks(kernel')]
  BY Zenon DEF BeginRefresh
<1> DEFINE made == configured \o auto
<1>2. PICK index \in [DOMAIN made -> FreeIndex(k)] :
          /\ kernel' = [n \in Name |->
                          IF \E a \in DOMAIN made : made[a] = n
                          THEN NewlyCreated(index[CHOOSE a \in DOMAIN made : made[a] = n])
                          ELSE k[n]]
          /\ netlink' = pending \o [a \in DOMAIN made |-> NewLink(index[a])]
          /\ pc' = [at |-> "install", links |-> QueryLinks(kernel')]
  BY <1>1
<1>3. made \in Seq(Name)
  <2>1. configured \in Seq(Name)
    BY CreationOrdersType
  <2>2. auto \in Seq(Name)
    <3>1. AutoWlans(k, creation) \in SUBSET Name
      BY ManagerAssumption DEF AutoWlans
    <3>2. auto \in CreationOrders(AutoWlans(k, creation))
      BY DEF AutoCreationOrders
    <3>3. QED
      BY <3>1, <3>2, CreationOrdersType
  <2>3. QED
    BY <2>1, <2>2
<1> HIDE DEF made
<1>5. \A a \in DOMAIN made : index[a] \in Index
  BY DEF FreeIndex
<1>6. kernel' \in [Name -> Link \cup {None}]
  <2>1. \A i \in Index : NewlyCreated(i) \in Link
    BY DEF NewlyCreated, Link
  <2>2. ASSUME NEW n \in Name
        PROVE  kernel'[n] \in Link \cup {None}
    <3>1. CASE \E a \in DOMAIN made : made[a] = n
      <4>1. (CHOOSE a \in DOMAIN made : made[a] = n) \in DOMAIN made
        BY <3>1
      <4>2. QED
        BY <3>1, <4>1, <1>2, <1>5, <2>1
    <3>2. CASE ~\E a \in DOMAIN made : made[a] = n
      BY <3>2, <1>2
    <3>3. QED
      BY <3>1, <3>2
  <2>3. QED
    BY <2>2, <1>2
<1>7. netlink' \in Seq(Notice)
  <2>1. DOMAIN made = 1..Len(made) /\ Len(made) \in Nat
    BY <1>3
  <2>2. \A a \in DOMAIN made : NewLink(index[a]) \in Notice
    BY <1>5, NoticeType
  <2>3. [a \in DOMAIN made |-> NewLink(index[a])] \in Seq(Notice)
    BY <2>1, <2>2
  <2>4. QED
    BY <2>3, <1>2
<1>8. pc' \in Continue
  BY <1>2, <1>6, QueryLinksType, ContinueType
<1>9. QED
  BY <1>6, <1>7, <1>8

\* What ModLink is asked to delete and to add.
LEMMA ModificationType ==
  ASSUME NEW mod \in Modification, NEW cached \in SUBSET Addr
  PROVE  Deleted(mod, cached) \in SUBSET Addr /\ Added(mod) \in SUBSET Addr
<1>1. mod.op \in {"Append", "Remove", "Replace"} => mod.addr \in Addr
  BY DEF Modification
<1>2. Deleted(mod, cached) \in SUBSET Addr
  <2>1. CASE mod.op = "Remove"
    BY <2>1, <1>1 DEF Deleted
  <2>2. CASE mod.op \in {"Clear", "Replace"}
    BY <2>2 DEF Deleted
  <2>3. CASE mod.op \notin {"Remove", "Clear", "Replace"}
    BY <2>3 DEF Deleted
  <2>4. QED
    BY <2>1, <2>2, <2>3
<1>3. QED
  BY <1>1, <1>2 DEF Added

\* The addresses and the router of a lease.
LEMMA LeaseType ==
  ASSUME NEW l \in Lease \cup {None}
  PROVE  Address(l) \in SUBSET Addr /\ Router(l) \in Gateway \cup {None}
  BY ManagerAssumption DEF Address, Router

\* A request is counted below its bound.
LEMMA StimulusType ==
  ASSUME TypeOK, Stimulus
  PROVE  stimuli' \in 0..MaxStimuli
  BY ManagerAssumption DEF TypeOK, Stimulus

\* A broadcast of an info is what its subscribers know of it.
LEMMA BroadcastType ==
  ASSUME TypeOK, NEW info \in Info, Broadcast(info)
  PROVE  announced' \in [Name -> Info \cup {None}] /\ untold' \in SUBSET Name
  BY DEF TypeOK, Broadcast

-------------------------------------------------------------------------------
(***************************************************************************)
(* A step leaves the table alone or applies one operation of table.rs.     *)
(***************************************************************************)
TableOperation ==
  \/ table' = table
  \/ \E info \in Info : table' = Insert(table, info)
  \/ \E info \in Info : table' = Update(table, info)
  \/ \E n \in Name : table' = Remove(table, n)
  \/ \E links \in [Name -> Info \cup {None}] : table' = TableOf(links)

\* Every operation keeps the table's type.
LEMMA TableOperationType ==
  ASSUME table \in Table(Info), TableOperation
  PROVE  table' \in Table(Info)
<1>1. ASSUME NEW info \in Info PROVE Insert(table, info) \in Table(Info)
  BY InsertType, InfosWellFormed
<1>2. ASSUME NEW info \in Info PROVE Update(table, info) \in Table(Info)
  BY UpdateType, InfosWellFormed
<1>3. ASSUME NEW n \in Name PROVE Remove(table, n) \in Table(Info)
  BY RemoveType, InfosWellFormed
<1>4. ASSUME NEW links \in [Name -> Info \cup {None}] PROVE TableOf(links) \in Table(Info)
  BY TableOfType, InfosWellFormed
<1>5. QED
  BY <1>1, <1>2, <1>3, <1>4 DEF TableOperation

\* Every operation keeps the index sound and the listings complete.
LEMMA TableOperationSound ==
  ASSUME table \in Table(Info), TableSound, TableOperation
  PROVE  TableSound'
<1> USE DEF TableSound
<1>1. ASSUME NEW info \in Info
      PROVE  IndexSound(Insert(table, info)) /\ ListingsComplete(Insert(table, info))
  BY InsertIndexSound, InsertListings, InfosWellFormed
<1>2. ASSUME NEW n \in Name
      PROVE  IndexSound(Remove(table, n)) /\ ListingsComplete(Remove(table, n))
  BY RemoveIndexSound, RemoveListings, InfosWellFormed
<1>3. ASSUME NEW info \in Info
      PROVE  IndexSound(Update(table, info)) /\ ListingsComplete(Update(table, info))
  <2>1. info.name \in Name
    BY DEF Info
  <2>2. Remove(table, info.name) \in Table(Info)
    BY <2>1, RemoveType, InfosWellFormed
  <2>3. QED
    BY <2>1, <2>2, <1>2, InsertIndexSound, InsertListings, InfosWellFormed DEF Update
<1>4. ASSUME NEW links \in [Name -> Info \cup {None}]
      PROVE  IndexSound(TableOf(links)) /\ ListingsComplete(TableOf(links))
  BY TableOfIndexSound, TableOfListings, InfosWellFormed
<1>5. QED
  BY <1>1, <1>2, <1>3, <1>4 DEF TableOperation

-------------------------------------------------------------------------------
(***************************************************************************)
(* One lemma per group of actions.                                         *)
(***************************************************************************)
StepOK == TypeOK' /\ TableOperation

\* The types of all variables but the table, whose type its operation keeps.
LEMMA StepOKFromParts ==
  ASSUME TypeOK, TableOperation,
         kernel' \in [Name -> Link \cup {None}], netlink' \in Seq(Notice),
         mailbox' \in Seq(Message), pc' \in Continue,
         config' \in [creation : SUBSET Logical, dhcpv4 : [Name -> BOOLEAN]],
         announced' \in [Name -> Info \cup {None}], untold' \in SUBSET Name,
         lease' \in [Name -> Lease \cup {None}],
         alive' \in BOOLEAN, stimuli' \in 0..MaxStimuli
  PROVE  StepOK
  BY TableOperationType DEF StepOK, TypeOK

\* Changes of the kernel's links.
LEMMA KernelChangeStep ==
  ASSUME TypeOK, KernelChange
  PROVE  StepOK
<1>0. TableOperation /\ stimuli' \in 0..MaxStimuli
  BY StimulusType DEF KernelChange, LinkArrives, LinkDeparts, OperChanges, TableOperation
<1>1. ASSUME NEW n \in Name, NEW i \in Index, NEW oper \in {"Up", "NoCarrier", "Disabled"},
             LinkArrives(n, i, oper)
      PROVE  StepOK
  <2>1. kernel' \in [Name -> Link \cup {None}]
    <3>1. [id |-> i, oper |-> oper, addrs |-> {}] \in Link
      BY DEF Link
    <3>2. QED
      BY <1>1, <3>1 DEF LinkArrives, TypeOK
  <2>2. netlink' \in Seq(Notice)
    <3>1. NewLink(i) \in Notice /\ netlink' = Append(netlink, NewLink(i))
      BY <1>1, NoticeType DEF LinkArrives
    <3>2. QED
      BY <3>1 DEF TypeOK
  <2>3. QED
    BY <1>0, <1>1, <2>1, <2>2, StepOKFromParts DEF LinkArrives, TypeOK
<1>2. ASSUME NEW n \in Name, NEW warned \in BOOLEAN, LinkDeparts(n, warned)
      PROVE  StepOK
  <2>1. kernel[n] \in Link /\ kernel[n].id \in Index
    BY <1>2 DEF LinkDeparts, TypeOK, Link
  <2>2. netlink' \in Seq(Notice)
    <3>1. (IF warned THEN <<[kind |-> "DyingLink", index |-> kernel[n].id]>> ELSE <<>>)
            \in Seq(Notice)
      BY <2>1, NoticeType
    <3>2. DelLinkOf(kernel[n].id) \in Seq(Notice)
      BY <2>1, NoticeType
    <3>3. QED
      BY <1>2, <3>1, <3>2 DEF LinkDeparts, TypeOK
  <2>3. kernel' \in [Name -> Link \cup {None}]
    BY <1>2 DEF LinkDeparts, TypeOK
  <2>4. QED
    BY <1>0, <1>2, <2>2, <2>3, StepOKFromParts DEF LinkDeparts, TypeOK
<1>3. ASSUME NEW n \in Name, NEW oper \in {"Up", "NoCarrier", "Disabled"}, OperChanges(n, oper)
      PROVE  StepOK
  <2>1. kernel[n] \in Link /\ kernel[n].id \in Index
    BY <1>3 DEF OperChanges, TypeOK, Link
  <2>2. kernel' \in [Name -> Link \cup {None}]
    <3>1. [kernel[n] EXCEPT !.oper = oper] \in Link
      BY <2>1 DEF Link
    <3>2. kernel' = [kernel EXCEPT ![n] = [kernel[n] EXCEPT !.oper = oper]]
      BY <1>3 DEF OperChanges
    <3>3. QED
      BY <3>1, <3>2 DEF TypeOK
  <2>3. netlink' \in Seq(Notice)
    <3>1. NewLink(kernel[n].id) \in Notice /\ netlink' = Append(netlink, NewLink(kernel[n].id))
      BY <1>3, <2>1, NoticeType DEF OperChanges
    <3>2. QED
      BY <3>1 DEF TypeOK
  <2>4. QED
    BY <1>0, <1>3, <2>2, <2>3, StepOKFromParts DEF OperChanges, TypeOK
<1>4. QED
  BY <1>1, <1>2, <1>3 DEF KernelChange

\* The stream task.
LEMMA ForwardStep ==
  ASSUME TypeOK, Forward
  PROVE  StepOK
<1>1. Head(netlink) \in Notice /\ netlink' \in Seq(Notice)
  BY DEF Forward, TypeOK
<1>2. mailbox' \in Seq(Message)
  BY <1>1, MessageType DEF Forward, TypeOK
<1>3. TableOperation
  BY DEF Forward, TableOperation
<1>4. QED
  BY <1>1, <1>2, <1>3, StepOKFromParts DEF Forward, TypeOK

\* The handlers of netlink messages and of the updates they send.
LEMMA HandleNetlinkStep ==
  ASSUME TypeOK, HandleNetlink
  PROVE  StepOK
<1>1. Head(mailbox) \in Message /\ Head(mailbox).type = "Netlink" /\ mailbox' \in Seq(Message)
  BY TakeType DEF HandleNetlink
<1>2. Head(mailbox).notice \in Notice
  BY <1>1, MessageType
<1>3. pc' \in Continue
  BY <1>2, ReactionType DEF HandleNetlink
<1>4. TableOperation
  BY DEF HandleNetlink, TableOperation
<1>5. QED
  BY <1>1, <1>3, <1>4, StepOKFromParts DEF HandleNetlink, TypeOK

\* The actor's message to itself.
LEMMA TellStep ==
  ASSUME TypeOK, Tell
  PROVE  StepOK
<1>1. pc.event \in Event
  BY ContinueType DEF Tell, TypeOK
<1>2. mailbox' \in Seq(Message)
  BY <1>1, MessageType DEF Tell, TypeOK
<1>3. TableOperation /\ pc' \in Continue
  BY ContinueType DEF Tell, TableOperation
<1>4. QED
  BY <1>2, <1>3, StepOKFromParts DEF Tell, TypeOK

\* The handler of the updates it sends itself.
LEMMA HandleUpdateStep ==
  ASSUME TypeOK, HandleUpdate
  PROVE  StepOK
<1> DEFINE event == Head(mailbox).event
<1>1. Head(mailbox) \in Message /\ Head(mailbox).type = "Update" /\ mailbox' \in Seq(Message)
  BY TakeType DEF HandleUpdate
<1>2. event \in Event /\ event.info \in Info /\ event.info.name \in Name
  BY <1>1, MessageType DEF Event, Info
<1>3. TableOperation /\ announced' \in [Name -> Info \cup {None}] /\ untold' \in SUBSET Name
  <2>1. CASE UpdateAdded(event.info)
    BY <2>1, <1>2, BroadcastType DEF UpdateAdded, TableOperation
  <2>2. CASE UpdateRemoved(event.info)
    BY <2>2, <1>2 DEF UpdateRemoved, TableOperation, TypeOK
  <2>3. CASE UpdateChanged(event.info)
    <3>1. Merge(table.interfaces[event.info.name], event.info) \in Info
      BY <1>2, StoredType, MergeType
    <3>2. QED
      BY <2>3, <3>1, BroadcastType DEF UpdateChanged, TableOperation
  <2>4. QED
    BY <2>1, <2>2, <2>3 DEF HandleUpdate
<1>4. QED
  BY <1>1, <1>3, StepOKFromParts DEF HandleUpdate, TypeOK

\* Refreshes.
LEMMA HandleForceRefreshStep ==
  ASSUME TypeOK, HandleForceRefresh
  PROVE  StepOK
<1>1. kernel \in [Name -> Link \cup {None}] /\ netlink \in Seq(Notice)
        /\ config.creation \in SUBSET Name
  BY ManagerAssumption DEF TypeOK
<1>2. /\ kernel' \in [Name -> Link \cup {None}] /\ netlink' \in Seq(Notice)
      /\ pc' \in Continue
  BY <1>1, BeginRefreshType DEF HandleForceRefresh
<1>3. mailbox' \in Seq(Message) /\ TableOperation
  BY TakeType DEF HandleForceRefresh, TableOperation
<1>4. QED
  BY <1>2, <1>3, StepOKFromParts DEF HandleForceRefresh, TypeOK

\* The end of a refresh.
LEMMA InstallStep ==
  ASSUME TypeOK, Install
  PROVE  StepOK
<1>1. pc.links \in [Name -> Info \cup {None}]
  BY ContinueType DEF Install, TypeOK
<1>2. TableOperation
  BY <1>1 DEF Install, TableOperation
<1>3. announced' \in [Name -> Info \cup {None}] /\ untold' \in SUBSET Name
  BY <1>1 DEF Install, TypeOK
<1>4. pc' \in Continue
  BY ContinueType DEF Install
<1>5. QED
  BY <1>2, <1>3, <1>4, StepOKFromParts DEF Install, TypeOK

-------------------------------------------------------------------------------
(***************************************************************************)
(* Requests.                                                               *)
(***************************************************************************)
\* Every request is counted.
LEMMA RequestType ==
  ASSUME TypeOK, Request
  PROVE  stimuli' \in 0..MaxStimuli
  BY StimulusType DEF Request

\* A refresh that a client asked for.
LEMMA ForceRefreshStep ==
  ASSUME TypeOK, ForceRefresh
  PROVE  StepOK
<1>1. kernel \in [Name -> Link \cup {None}] /\ netlink \in Seq(Notice)
        /\ config.creation \in SUBSET Name
  BY ManagerAssumption DEF TypeOK
<1>2. /\ kernel' \in [Name -> Link \cup {None}] /\ netlink' \in Seq(Notice)
      /\ pc' \in Continue
  BY <1>1, BeginRefreshType DEF ForceRefresh
<1>3. stimuli' \in 0..MaxStimuli /\ TableOperation
  BY RequestType DEF ForceRefresh, TableOperation
<1>4. QED
  BY <1>2, <1>3, StepOKFromParts DEF ForceRefresh, TypeOK

\* A link is created, taken back, or left behind.
LEMMA AddLinkStep ==
  ASSUME TypeOK, NEW n \in Name, NEW i \in Index, AddLink(n, i)
  PROVE  StepOK
<1> DEFINE created  == [kernel EXCEPT ![n] = NewlyCreated(i)]
           recorded == [config EXCEPT !.creation = @ \cup {n}]
           pending  == Append(netlink, NewLink(i))
<1>1. created \in [Name -> Link \cup {None}]
  BY DEF TypeOK, NewlyCreated, Link
<1>2. pending \in Seq(Notice)
  <2>1. NewLink(i) \in Notice
    BY NoticeType
  <2>2. QED
    BY <2>1 DEF TypeOK
<1>3. stimuli' \in 0..MaxStimuli /\ TableOperation
  BY RequestType DEF AddLink, TableOperation
<1>4. CASE config' = recorded /\ BeginRefresh(created, pending, config'.creation)
  <2>1. config' \in [creation : SUBSET Logical, dhcpv4 : [Name -> BOOLEAN]]
    BY <1>4 DEF AddLink, TypeOK
  <2>2. config'.creation \in SUBSET Name
    BY <2>1, ManagerAssumption
  <2>3. /\ kernel' \in [Name -> Link \cup {None}] /\ netlink' \in Seq(Notice)
        /\ pc' \in Continue
    BY <1>1, <1>2, <1>4, <2>2, BeginRefreshType
  <2>4. QED
    BY <1>3, <2>1, <2>3, StepOKFromParts DEF AddLink, TypeOK
<1>5. CASE netlink' = pending \o DelLinkOf(i) /\ UNCHANGED <<config, kernel, pc>>
  <2>1. netlink' \in Seq(Notice)
    <3>1. DelLinkOf(i) \in Seq(Notice)
      BY NoticeType
    <3>2. QED
      BY <1>2, <1>5, <3>1
  <2>2. QED
    BY <1>3, <1>5, <2>1, StepOKFromParts DEF AddLink, TypeOK
<1>6. CASE kernel' = created /\ netlink' = pending /\ UNCHANGED <<config, pc>>
  BY <1>1, <1>2, <1>3, <1>6, StepOKFromParts DEF AddLink, TypeOK
<1>7. QED
  BY <1>4, <1>5, <1>6 DEF AddLink

\* A link is destroyed.
LEMMA DelLinkStep ==
  ASSUME TypeOK, NEW n \in Name, DelLink(n)
  PROVE  StepOK
<1>1. table.interfaces[n] \in Info /\ table.interfaces[n].id \in Index
  BY StoredType DEF DelLink, Info
<1>2. netlink' \in Seq(Notice)
  <2>1. DelLinkOf(table.interfaces[n].id) \in Seq(Notice)
    BY <1>1, NoticeType
  <2>2. QED
    BY <2>1 DEF DelLink, TypeOK
<1>3. kernel' \in [Name -> Link \cup {None}]
  BY DEF DelLink, TypeOK
<1>4. config' \in [creation : SUBSET Logical, dhcpv4 : [Name -> BOOLEAN]]
  BY DEF DelLink, TypeOK
<1>5. stimuli' \in 0..MaxStimuli /\ TableOperation
  BY RequestType DEF DelLink, TableOperation
<1>6. QED
  BY <1>2, <1>3, <1>4, <1>5, StepOKFromParts DEF DelLink, TypeOK

\* Addresses, status and DHCP policy of a link are changed.
LEMMA ModLinkStep ==
  ASSUME TypeOK, NEW n \in Name, NEW mod \in Modification, NEW oper \in {None, "Up", "Disabled"},
         NEW slaac \in BOOLEAN,
         NEW dhcpv4 \in {None, TRUE, FALSE}, ModLink(n, mod, oper, slaac, dhcpv4)
  PROVE  StepOK
<1> DEFINE info == table.interfaces[n]
<1>1. info \in Info /\ info.id \in Index /\ info.addrs \in SUBSET Addr
  BY StoredType DEF ModLink, Info
<1>2. PICK r \in AddressOutcomes(info.id, Deleted(mod, info.addrs), Added(mod)), flagged \in BOOLEAN :
        LET switch  == r.ok /\ oper # None /\ kernel[n] # None
            through == r.ok /\ (oper = None \/ kernel[n] # None)
            set     == through /\ (slaac => flagged) /\ dhcpv4 # None
            after   == IF set THEN [info EXCEPT !.dhcpv4 = dhcpv4] ELSE info
            addrs   == WithAddrs(kernel, info.id, r.addrs)
        IN /\ kernel' = IF switch THEN [addrs EXCEPT ![n] = SwitchTo(@, oper)] ELSE addrs
           /\ netlink' = netlink \o AddressNotices(info.id, r.addrs)
                           \o (IF switch THEN <<NewLink(kernel[n].id)>> ELSE <<>>)
           /\ table' = IF flagged \/ after # info THEN Insert(table, after) ELSE table
           /\ \/ after # info /\ Broadcast(after)
              \/ after = info /\ UNCHANGED announced
                   /\ untold' \in IF flagged THEN {untold \ {n}, untold \cup {n}} ELSE {untold}
           /\ \/ set /\ config' = [config EXCEPT !.dhcpv4[n] = dhcpv4]
              \/ UNCHANGED config
  BY DEF ModLink
<1> DEFINE switch == r.ok /\ oper # None /\ kernel[n] # None
           set    == (r.ok /\ (oper = None \/ kernel[n] # None)) /\ (slaac => flagged) /\ dhcpv4 # None
           after  == IF set THEN [info EXCEPT !.dhcpv4 = dhcpv4] ELSE info
           addrs  == WithAddrs(kernel, info.id, r.addrs)
<1>3. addrs \in [Name -> Link \cup {None}]
  <2>1. r.addrs \in SUBSET Addr
    BY <1>1, ModificationType, AddressOutcomesType
  <2>2. QED
    BY <2>1, WithAddrsType
<1>4. kernel' \in [Name -> Link \cup {None}]
  <2>1. CASE ~switch
    BY <1>2, <1>3, <2>1
  <2>2. CASE switch
    <3>1. addrs[n] \in Link
      <4>1. addrs[n] # None
        <5>1. kernel[n] \in Link
          BY <2>2 DEF TypeOK
        <5>2. addrs[n] = IF n = LinkAt(info.id) THEN [kernel[n] EXCEPT !.addrs = r.addrs]
                         ELSE kernel[n]
          BY DEF WithAddrs
        <5>3. r.addrs \in SUBSET Addr
          BY <1>1, ModificationType, AddressOutcomesType
        <5>4. [kernel[n] EXCEPT !.addrs = r.addrs] \in Link
          BY <5>1, <5>3 DEF Link
        <5>5. QED
          BY <5>1, <5>2, <5>4, NoneIsNoRecord
      <4>2. QED
        BY <4>1, <1>3
    <3>2. SwitchTo(addrs[n], oper) \in Link
      <4>1. [addrs[n] EXCEPT !.oper = oper] \in Link
        BY <2>2, <3>1 DEF Link
      <4>2. QED
        BY <3>1, <4>1 DEF SwitchTo
    <3>3. kernel' = [addrs EXCEPT ![n] = SwitchTo(addrs[n], oper)]
      BY <1>2, <2>2
    <3>4. QED
      BY <1>3, <3>2, <3>3
  <2>3. QED
    BY <2>1, <2>2
<1>5. netlink' \in Seq(Notice)
  <2>1. (IF switch THEN <<NewLink(kernel[n].id)>> ELSE <<>>) \in Seq(Notice)
    <3>1. CASE switch
      <4>1. kernel[n].id \in Index
        BY <3>1 DEF TypeOK, Link
      <4>2. NewLink(kernel[n].id) \in Notice
        BY <4>1, NoticeType
      <4>3. QED
        BY <3>1, <4>2
    <3>2. QED
      BY <3>1
  <2>2. AddressNotices(info.id, r.addrs) \in Seq(Notice)
    BY <1>1, NoticeType
  <2>3. QED
    BY <1>2, <2>1, <2>2 DEF TypeOK
<1>6. TableOperation /\ announced' \in [Name -> Info \cup {None}] /\ untold' \in SUBSET Name
  <2>1. after \in Info
    BY <1>1 DEF Info
  <2>2. table' \in {table, Insert(table, after)}
    BY <1>2
  <2>3. Broadcast(after) \/ (UNCHANGED announced /\ untold' \in SUBSET Name)
    BY <1>2 DEF TypeOK
  <2> HIDE DEF after
  <2>4. QED
    BY <2>1, <2>2, <2>3, BroadcastType DEF TableOperation, TypeOK
<1>7. config' \in [creation : SUBSET Logical, dhcpv4 : [Name -> BOOLEAN]]
  <2>1. CASE set /\ config' = [config EXCEPT !.dhcpv4[n] = dhcpv4]
    BY <2>1 DEF TypeOK
  <2>2. CASE UNCHANGED config
    BY <2>2 DEF TypeOK
  <2>3. QED
    BY <1>2, <2>1, <2>2
<1>8. stimuli' \in 0..MaxStimuli
  BY RequestType DEF ModLink
<1>9. QED
  BY <1>4, <1>5, <1>6, <1>7, <1>8, StepOKFromParts DEF ModLink, TypeOK

\* A lease is reported.
LEMMA DhcpV4SetStep ==
  ASSUME TypeOK, NEW n \in Name, NEW old \in Lease \cup {None}, NEW new \in Lease \cup {None},
         DhcpV4Set(n, old, new)
  PROVE  StepOK
<1> DEFINE info     == table.interfaces[n]
           rerouted == Router(old) # Router(new)
           after    == [info EXCEPT !.gateway = GatewayAfter(info, old, new)]
<1>1. stimuli' \in 0..MaxStimuli /\ lease' \in [Name -> Lease \cup {None}]
  BY RequestType DEF DhcpV4Set, TypeOK
<1>2. CASE info = None
  <2>1. alive' = FALSE /\ UNCHANGED <<kernel, netlink, table, announced, untold>>
    BY <1>2 DEF DhcpV4Set
  <2>2. TableOperation
    BY <2>1 DEF TableOperation
  <2>3. QED
    BY <1>1, <2>1, <2>2, StepOKFromParts DEF DhcpV4Set, TypeOK
<1>3. CASE info # None
  <2>1. info \in Info /\ info.id \in Index /\ info.gateway \in Gateway \cup {None}
    BY <1>3, StoredType DEF Info
  <2>2. after \in Info
    <3>1. GatewayAfter(info, old, new) \in Gateway \cup {None}
      BY <2>1, LeaseType DEF GatewayAfter
    <3>2. QED
      BY <2>1, <3>1 DEF Info
  <2>3. /\ table' = IF rerouted THEN Insert(table, after) ELSE table
        /\ IF Address(old) # Address(new)
           THEN /\ \E r \in AddressOutcomes(info.id, Address(old), Address(new)) :
                     /\ kernel' = WithAddrs(kernel, info.id, r.addrs)
                     /\ netlink' = netlink \o AddressNotices(info.id, r.addrs)
                     /\ alive' = r.ok
                /\ UNCHANGED <<announced, untold>>
           ELSE /\ IF rerouted THEN Broadcast(after) ELSE UNCHANGED <<announced, untold>>
                /\ UNCHANGED <<kernel, netlink, alive>>
    BY <1>3 DEF DhcpV4Set
  <2>4. TableOperation
    BY <2>2, <2>3 DEF TableOperation
  <2>5. announced' \in [Name -> Info \cup {None}] /\ untold' \in SUBSET Name
    BY <2>2, <2>3, BroadcastType DEF TypeOK
  <2>6. /\ kernel' \in [Name -> Link \cup {None}] /\ netlink' \in Seq(Notice)
        /\ alive' \in BOOLEAN
    <3>1. CASE Address(old) # Address(new)
      <4>1. PICK r \in AddressOutcomes(info.id, Address(old), Address(new)) :
              /\ kernel' = WithAddrs(kernel, info.id, r.addrs)
              /\ netlink' = netlink \o AddressNotices(info.id, r.addrs)
              /\ alive' = r.ok
        BY <2>3, <3>1
      <4>2. r.addrs \in SUBSET Addr /\ r.ok \in BOOLEAN
        BY LeaseType, AddressOutcomesType
      <4>3. kernel' \in [Name -> Link \cup {None}]
        BY <4>1, <4>2, WithAddrsType
      <4>4. netlink' \in Seq(Notice)
        <5>1. AddressNotices(info.id, r.addrs) \in Seq(Notice)
          BY <2>1, NoticeType
        <5>2. QED
          BY <4>1, <5>1 DEF TypeOK
      <4>5. QED
        BY <4>1, <4>2, <4>3, <4>4
    <3>2. CASE Address(old) = Address(new)
      BY <2>3, <3>2 DEF TypeOK
    <3>3. QED
      BY <3>1, <3>2
  <2>7. QED
    BY <1>1, <2>4, <2>5, <2>6, StepOKFromParts DEF DhcpV4Set, TypeOK
<1>4. QED
  BY <1>2, <1>3

\* A state that is set is the table's and the subscribers'.
LEMMA SetStateType ==
  ASSUME TypeOK, NEW n \in Name, NEW state \in State, table.interfaces[n] # None,
         SetState(n, state)
  PROVE  TableOperation /\ announced' \in [Name -> Info \cup {None}] /\ untold' \in SUBSET Name
<1> DEFINE info == [table.interfaces[n] EXCEPT !.state = state]
<1>1. info \in Info
  BY StoredType DEF Info
<1>2. table' = Update(table, info) /\ Broadcast(info)
  BY DEF SetState
<1>3. QED
  BY <1>1, <1>2, BroadcastType DEF TableOperation

\* A state is set by a client or by the Wi-Fi manager.
LEMMA StateRequestStep ==
  ASSUME TypeOK, NEW n \in Name,
         MarkAsUnManaged(n) \/ \E state \in ExternalState : UpdateExternalInterfaceState(n, state)
  PROVE  StepOK
<1>1. CASE MarkAsUnManaged(n)
  <2>1. TableOperation /\ announced' \in [Name -> Info \cup {None}] /\ untold' \in SUBSET Name
    BY <1>1, SetStateType, ManagerAssumption DEF MarkAsUnManaged, ConnectionState
  <2>2. stimuli' \in 0..MaxStimuli
    BY <1>1, RequestType DEF MarkAsUnManaged
  <2>3. QED
    BY <1>1, <2>1, <2>2, StepOKFromParts DEF MarkAsUnManaged, TypeOK
<1>2. ASSUME NEW state \in ExternalState, UpdateExternalInterfaceState(n, state)
      PROVE  StepOK
  <2>1. stimuli' \in 0..MaxStimuli
    BY <1>2, RequestType DEF UpdateExternalInterfaceState
  <2>2. CASE table.interfaces[n] # None
    <3>1. TableOperation /\ announced' \in [Name -> Info \cup {None}] /\ untold' \in SUBSET Name
      <4>1. state \in State
        BY ManagerAssumption DEF ExternalState, ConnectionState
      <4>2. QED
        BY <1>2, <2>2, <4>1, SetStateType DEF UpdateExternalInterfaceState
    <3>2. QED
      BY <1>2, <2>1, <2>2, <3>1, StepOKFromParts DEF UpdateExternalInterfaceState, TypeOK
  <2>3. CASE table.interfaces[n] = None
    <3>1. TableOperation
      BY <1>2, <2>3 DEF UpdateExternalInterfaceState, TableOperation
    <3>2. QED
      BY <1>2, <2>1, <2>3, <3>1, StepOKFromParts DEF UpdateExternalInterfaceState, TypeOK
  <2>4. QED
    BY <2>2, <2>3
<1>3. QED
  BY <1>1, <1>2

-------------------------------------------------------------------------------
(***************************************************************************)
(* The theorems.                                                           *)
(***************************************************************************)
\* The initial states have the types and a sound table.
LEMMA InitType == Init => TypeOK /\ TableSound
<1> SUFFICES ASSUME Init PROVE TypeOK /\ TableSound
  OBVIOUS
<1>1. table \in Table(Info) /\ TableSound
  BY EmptyTableType DEF Init, TableSound
<1>2. netlink \in Seq(Notice)
  BY DEF Init
<1>3. mailbox \in Seq(Message)
  <2>1. [type |-> "ForceRefresh"] \in Message
    BY DEF Message
  <2>2. QED
    BY <2>1 DEF Init
<1>4. config \in [creation : SUBSET Logical, dhcpv4 : [Name -> BOOLEAN]]
  BY DEF Init, NoConfig
<1>5. stimuli \in 0..MaxStimuli
  BY ManagerAssumption DEF Init
<1>6. QED
  BY <1>1, <1>2, <1>3, <1>4, <1>5, ContinueType DEF Init, TypeOK

\* Every step keeps the types and is one operation on the table.
LEMMA NextStep ==
  ASSUME TypeOK, [Next]_vars
  PROVE  StepOK
<1>1. CASE KernelChange
  BY <1>1, KernelChangeStep
<1>2. CASE ClientRequest
  BY <1>2, ForceRefreshStep, AddLinkStep, DelLinkStep, ModLinkStep, StateRequestStep
  DEF ClientRequest
<1>3. CASE ManagerRequest
  BY <1>3, DhcpV4SetStep, StateRequestStep DEF ManagerRequest, Wlans
<1>4. CASE Forward
  BY <1>4, ForwardStep
<1>5. CASE Handle
  BY <1>5, HandleNetlinkStep, TellStep, HandleUpdateStep, HandleForceRefreshStep, InstallStep
  DEF Handle
<1>6. CASE UNCHANGED vars
  BY <1>6 DEF vars, StepOK, TypeOK, TableOperation
<1>7. QED
  BY <1>1, <1>2, <1>3, <1>4, <1>5, <1>6 DEF Next

\* Every variable keeps its type.
THEOREM TypeCorrect == Spec => []TypeOK
<1>1. TypeOK /\ [Next]_vars => TypeOK'
  BY NextStep DEF StepOK
<1>2. QED
  BY InitType, <1>1, PTL DEF Spec

\* A lookup by index never answers with another index's interface and no listing
\* misses an interface, for any number of interfaces, indices and requests, and
\* whether or not the kernel reuses indices.
THEOREM TableAlwaysSound == Spec => []TableSound
<1>1. TypeOK /\ TableSound /\ [Next]_vars => TableSound'
  <2> SUFFICES ASSUME TypeOK, TableSound, [Next]_vars PROVE TableSound'
    OBVIOUS
  <2>1. TableOperation /\ table \in Table(Info)
    BY NextStep DEF StepOK, TypeOK
  <2>2. QED
    BY <2>1, TableOperationSound
<1>2. QED
  BY InitType, TypeCorrect, <1>1, PTL DEF Spec

-------------------------------------------------------------------------------
(***************************************************************************)
(* A gateway in the interface table is the router of the lease that the    *)
(* interface's DHCP manager reported last, provided that every lease names *)
(* a router.                                                               *)
(***************************************************************************)
RoutersNamed == \A l \in Lease : l.gateway # None

-------------------------------------------------------------------------------
(***************************************************************************)
(* The invariant.  GatewayIsLeased alone is not inductive: a query, or an  *)
(* update on its way, could bring a gateway of its own, and an interface   *)
(* could be filed under another's name.                                    *)
(***************************************************************************)
Filed == \A n \in Name : table.interfaces[n] # None => table.interfaces[n].name = n

FromKernel(event) == event.kind # "Removed" => event.info.gateway = None

UpdatesFromKernel ==
  /\ pc.at = "tell" => FromKernel(pc.event)
  /\ \A j \in 1..Len(mailbox) : mailbox[j].type = "Update" => FromKernel(mailbox[j].event)

DumpFromKernel ==
  pc.at = "install" =>
    \A n \in Name : pc.links[n] # None => pc.links[n].name = n /\ pc.links[n].gateway = None

LeaseInv == Filed /\ UpdatesFromKernel /\ DumpFromKernel /\ GatewayIsLeased

-------------------------------------------------------------------------------
(***************************************************************************)
(* Lemmas.                                                                 *)
(***************************************************************************)

\* Where the operations of table.rs put an interface.
LEMMA InterfacesAfter ==
  ASSUME NEW t \in Table(Info), NEW info \in Info
  PROVE  /\ Insert(t, info).interfaces = [t.interfaces EXCEPT ![info.name] = info]
         /\ Update(t, info).interfaces = [t.interfaces EXCEPT ![info.name] = info]
         /\ \A n \in Name : Remove(t, n).interfaces = [t.interfaces EXCEPT ![n] = None]
<1>1. Insert(t, info).interfaces = [t.interfaces EXCEPT ![info.name] = info]
  BY DEF Insert
<1>2. ASSUME NEW n \in Name
      PROVE  Remove(t, n).interfaces = [t.interfaces EXCEPT ![n] = None]
  <2>1. CASE t.interfaces[n] = None
    <3>1. [t.interfaces EXCEPT ![n] = None] = t.interfaces
      BY <2>1 DEF Table
    <3>2. QED
      BY <2>1, <3>1 DEF Remove
  <2>2. CASE t.interfaces[n] # None
    BY <2>2 DEF Remove
  <2>3. QED
    BY <2>1, <2>2
<1>3. Update(t, info).interfaces = [t.interfaces EXCEPT ![info.name] = info]
  <2>1. info.name \in Name
    BY DEF Info
  <2>2. Update(t, info).interfaces = [Remove(t, info.name).interfaces EXCEPT ![info.name] = info]
    BY DEF Update, Insert
  <2>3. t.interfaces \in [Name -> Info \cup {None}]
    BY DEF Table
  <2>4. QED
    BY <1>2, <2>1, <2>2, <2>3
<1>4. QED
  BY <1>1, <1>2, <1>3

\* A query of the kernel brings no gateway.
LEMMA QueriesBringNoGateway ==
  /\ \A n, link : InfoOf(n, link).gateway = None /\ InfoOf(n, link).name = n
  /\ \A i : QueryLink(i) # None => QueryLink(i).gateway = None
  /\ \A k : \A n \in Name : QueryLinks(k)[n] # None =>
       QueryLinks(k)[n].name = n /\ QueryLinks(k)[n].gateway = None
<1>1. \A n, link : InfoOf(n, link).gateway = None /\ InfoOf(n, link).name = n
  BY DEF InfoOf
<1>2. \A i : QueryLink(i) # None => QueryLink(i).gateway = None
  BY <1>1 DEF QueryLink
<1>3. ASSUME NEW k, NEW n \in Name, QueryLinks(k)[n] # None
      PROVE  QueryLinks(k)[n].name = n /\ QueryLinks(k)[n].gateway = None
  <2>1. QueryLinks(k)[n] = [InfoOf(n, k[n]) EXCEPT !.dhcpv4 = config.dhcpv4[n]]
    BY <1>3 DEF QueryLinks
  <2>2. QED
    BY <2>1 DEF InfoOf
<1>4. QED
  BY <1>1, <1>2, <1>3

\* What a netlink message makes the actor tell itself is fresh from the kernel,
\* unless it is a removal.
LEMMA ReactionFromKernel ==
  ASSUME NEW notice
  PROVE  LET c == Reaction(notice)
         IN c.at # "install" /\ (c.at = "tell" => FromKernel(c.event))
<1> DEFINE cached == GetByIndex(table, notice.index)
           now    == QueryLink(notice.index)
<1>1. /\ \A info : TellSelf("Removed", info).at = "tell"
      /\ \A info : FromKernel(TellSelf("Removed", info).event)
      /\ Idle.at = "idle"
  BY DEF TellSelf, FromKernel, Idle
<1>2. ASSUME NEW kind, now # None
      PROVE  TellSelf(kind, now).at = "tell" /\ FromKernel(TellSelf(kind, now).event)
  BY <1>2, QueriesBringNoGateway DEF TellSelf, FromKernel
<1> HIDE DEF cached, now
<1>3. CASE notice.kind = "DelLink"
  <2>1. Reaction(notice) = IF cached # None THEN TellSelf("Removed", cached) ELSE Idle
    BY <1>3 DEF Reaction, cached
  <2>2. QED
    BY <2>1, <1>1
<1>4. CASE notice.kind = "Address"
  <2>1. Reaction(notice) = IF now # None THEN TellSelf("Changed", now) ELSE Idle
    BY <1>4 DEF Reaction, now
  <2>2. QED
    BY <2>1, <1>1, <1>2
<1>5. CASE notice.kind \notin {"DelLink", "Address"}
  <2>1. Reaction(notice) = IF now = None \/ notice.kind = "DyingLink"
                           THEN IF cached # None THEN TellSelf("Removed", cached) ELSE Idle
                           ELSE TellSelf(IF cached # None THEN "Changed" ELSE "Added", now)
    BY <1>5 DEF Reaction, now, cached
  <2>2. QED
    BY <2>1, <1>1, <1>2
<1>6. QED
  BY <1>3, <1>4, <1>5

\* An interface that is stored with no gateway, or with the one it had, breaks
\* neither of the two facts about the table.
LEMMA StoreKeepsLeased ==
  ASSUME TypeOK, Filed, GatewayIsLeased, NEW info \in Info,
         table'.interfaces = [table.interfaces EXCEPT ![info.name] = info], lease' = lease,
         \/ info.gateway = None
         \/ /\ table.interfaces[info.name] # None
            /\ info.gateway = table.interfaces[info.name].gateway
  PROVE  Filed' /\ GatewayIsLeased'
<1>1. info.name \in Name /\ table.interfaces \in [Name -> Info \cup {None}]
  BY DEF Info, TypeOK, Table
<1>2. \A n \in Name : table'.interfaces[n] = IF n = info.name THEN info ELSE table.interfaces[n]
  BY <1>1
<1>3. Filed'
  BY <1>2 DEF Filed
<1>4. GatewayIsLeased'
  BY <1>1, <1>2 DEF GatewayIsLeased
<1>5. QED
  BY <1>3, <1>4

\* The rest of the mailbox is still from the kernel.
LEMMA TailFromKernel ==
  ASSUME TypeOK, UpdatesFromKernel, mailbox # <<>>
  PROVE  \A j \in 1..Len(Tail(mailbox)) :
           Tail(mailbox)[j].type = "Update" => FromKernel(Tail(mailbox)[j].event)
<1>1. mailbox \in Seq(Message)
  BY DEF TypeOK
<1>2. ASSUME NEW j \in 1..Len(Tail(mailbox))
      PROVE  Tail(mailbox)[j] = mailbox[j + 1] /\ j + 1 \in 1..Len(mailbox)
  BY <1>1
<1>3. QED
  BY <1>2 DEF UpdatesFromKernel

-------------------------------------------------------------------------------
(***************************************************************************)
(* One lemma per group of actions.                                         *)
(***************************************************************************)
\* Steps that touch neither the table nor what is on its way to it.
LEMMA NothingOfLeases ==
  ASSUME LeaseInv, UNCHANGED <<table, lease, mailbox, pc>>
  PROVE  LeaseInv'
  BY DEF LeaseInv, Filed, UpdatesFromKernel, DumpFromKernel, GatewayIsLeased, FromKernel

\* A refresh starts from a dump of the kernel.
LEMMA RefreshKeepsLeased ==
  ASSUME LeaseInv, NEW k, NEW pending, NEW creation, BeginRefresh(k, pending, creation),
         UNCHANGED <<table, lease>>,
         \A j \in 1..Len(mailbox') : mailbox'[j].type = "Update" => FromKernel(mailbox'[j].event)
  PROVE  LeaseInv'
<1>1. pc' = [at |-> "install", links |-> QueryLinks(kernel')]
  BY DEF BeginRefresh
<1>2. DumpFromKernel'
  BY <1>1, QueriesBringNoGateway DEF DumpFromKernel
<1>3. UpdatesFromKernel'
  BY <1>1 DEF UpdatesFromKernel, FromKernel
<1>4. Filed' /\ GatewayIsLeased'
  BY DEF LeaseInv, Filed, GatewayIsLeased
<1>5. QED
  BY <1>2, <1>3, <1>4 DEF LeaseInv

\* The stream task, and the two steps that turn a notice into an update.
LEMMA MessagesKeepLeased ==
  ASSUME TypeOK, LeaseInv, Forward \/ HandleNetlink \/ Tell
  PROVE  LeaseInv'
<1>0. UNCHANGED <<table, lease>> /\ mailbox \in Seq(Message)
  BY DEF Forward, HandleNetlink, Tell, TypeOK
<1>1. Filed' /\ GatewayIsLeased'
  BY <1>0 DEF LeaseInv, Filed, GatewayIsLeased
<1>2. CASE Forward
  <2>1. mailbox' = Append(mailbox, [type |-> "Netlink", notice |-> Head(netlink)]) /\ pc' = pc
    BY <1>2 DEF Forward
  <2>2. ASSUME NEW j \in 1..Len(mailbox'), mailbox'[j].type = "Update"
        PROVE  j \in 1..Len(mailbox) /\ mailbox'[j] = mailbox[j]
    BY <1>0, <2>1, <2>2
  <2>3. UpdatesFromKernel'
    BY <2>1, <2>2 DEF LeaseInv, UpdatesFromKernel, FromKernel
  <2>4. DumpFromKernel'
    BY <2>1 DEF LeaseInv, DumpFromKernel
  <2>5. QED
    BY <1>1, <2>3, <2>4 DEF LeaseInv
<1>3. CASE HandleNetlink
  <2>1. pc' = Reaction(Head(mailbox).notice) /\ mailbox' = Tail(mailbox) /\ mailbox # <<>>
    BY <1>3 DEF HandleNetlink, Take
  <2>2. pc'.at # "install" /\ (pc'.at = "tell" => FromKernel(pc'.event))
    BY <2>1, ReactionFromKernel
  <2>3. UpdatesFromKernel'
    BY <2>1, <2>2, TailFromKernel DEF LeaseInv, UpdatesFromKernel, FromKernel
  <2>4. QED
    BY <1>1, <2>2, <2>3 DEF LeaseInv, DumpFromKernel
<1>4. CASE Tell
  <2>1. /\ pc.at = "tell" /\ pc' = Idle
        /\ mailbox' = Append(mailbox, [type |-> "Update", event |-> pc.event])
    BY <1>4 DEF Tell
  <2>2. ASSUME NEW j \in 1..Len(mailbox')
        PROVE  \/ j \in 1..Len(mailbox) /\ mailbox'[j] = mailbox[j]
               \/ mailbox'[j] = [type |-> "Update", event |-> pc.event]
    BY <1>0, <2>1
  <2>3. \A j \in 1..Len(mailbox') : mailbox'[j].type = "Update" => FromKernel(mailbox'[j].event)
    BY <2>1, <2>2 DEF LeaseInv, UpdatesFromKernel
  <2>4. UpdatesFromKernel' /\ DumpFromKernel'
    BY <2>1, <2>3 DEF UpdatesFromKernel, DumpFromKernel, Idle, FromKernel
  <2>5. QED
    BY <1>1, <2>4 DEF LeaseInv
<1>5. QED
  BY <1>2, <1>3, <1>4

\* An update stores a link without a gateway, or with the one it had.
LEMMA UpdateKeepsLeased ==
  ASSUME TypeOK, LeaseInv, HandleUpdate
  PROVE  LeaseInv'
<1> DEFINE event == Head(mailbox).event
           cur   == table.interfaces[event.info.name]
<1>1. /\ mailbox # <<>> /\ mailbox' = Tail(mailbox) /\ UNCHANGED <<pc, lease>> /\ pc = Idle
      /\ Head(mailbox) \in Message /\ Head(mailbox).type = "Update"
  BY TakeType DEF HandleUpdate, Take
<1>2. event \in Event /\ event.info \in Info /\ event.info.name \in Name
  BY <1>1, MessageType DEF Event, Info
<1>3. FromKernel(event)
  <2>1. Head(mailbox) = mailbox[1] /\ 1 \in 1..Len(mailbox)
    BY <1>1 DEF TypeOK
  <2>2. QED
    BY <1>1, <2>1 DEF LeaseInv, UpdatesFromKernel
<1>4. UpdatesFromKernel' /\ DumpFromKernel'
  BY <1>1, TailFromKernel DEF LeaseInv, UpdatesFromKernel, DumpFromKernel, Idle, FromKernel
<1>5. table \in Table(Info) /\ Filed /\ GatewayIsLeased /\ cur \in Info \cup {None}
  BY <1>2, StoredType DEF TypeOK, LeaseInv
<1>6. Filed' /\ GatewayIsLeased'
  <2>1. CASE event.kind = "Added" /\ UpdateAdded(event.info)
    <3>1. table' = Insert(table, event.info) /\ event.info.gateway = None
      BY <1>3, <2>1 DEF UpdateAdded, FromKernel
    <3>2. table'.interfaces = [table.interfaces EXCEPT ![event.info.name] = event.info]
      BY <1>2, <1>5, <3>1, InterfacesAfter
    <3>3. QED
      BY <1>1, <1>2, <1>5, <3>1, <3>2, StoreKeepsLeased
  <2>2. CASE event.kind = "Removed" /\ UpdateRemoved(event.info)
    <3>1. table'.interfaces = [table.interfaces EXCEPT ![event.info.name] = None]
      BY <1>2, <1>5, <2>2, InterfacesAfter DEF UpdateRemoved
    <3>2. \A n \in Name : table'.interfaces[n] \in {table.interfaces[n], None}
      BY <1>5, <3>1 DEF Table
    <3>3. QED
      BY <1>1, <1>5, <3>2 DEF Filed, GatewayIsLeased
  <2>3. CASE event.kind = "Changed" /\ UpdateChanged(event.info)
    <3> DEFINE merged == Merge(cur, event.info)
    <3>1. merged \in Info
      BY <1>2, <1>5, MergeType
    <3>2. table' = Update(table, merged) /\ event.info.gateway = None
      BY <1>3, <2>3 DEF UpdateChanged, FromKernel
    <3>3. merged.name = event.info.name
      BY <1>2 DEF Merge, Info
    <3>4. merged.gateway = None \/ (cur # None /\ merged.gateway = cur.gateway)
      BY <1>2, <3>2 DEF Merge, Info
    <3> HIDE DEF merged
    <3>5. table'.interfaces = [table.interfaces EXCEPT ![merged.name] = merged]
      BY <1>5, <3>1, <3>2, InterfacesAfter
    <3>6. QED
      BY <1>1, <1>5, <3>1, <3>3, <3>4, <3>5, StoreKeepsLeased
  <2>4. QED
    BY <2>1, <2>2, <2>3 DEF HandleUpdate
<1>7. QED
  BY <1>4, <1>6 DEF LeaseInv

\* A refresh forgets every gateway.
LEMMA InstallKeepsLeased ==
  ASSUME TypeOK, LeaseInv, Install
  PROVE  LeaseInv'
<1>1. /\ table'.interfaces = pc.links /\ pc' = Idle /\ pc.at = "install"
      /\ UNCHANGED <<mailbox, lease>>
  BY DEF Install, TableOf
<1>2. Filed' /\ GatewayIsLeased'
  BY <1>1 DEF LeaseInv, DumpFromKernel, Filed, GatewayIsLeased
<1>3. UpdatesFromKernel' /\ DumpFromKernel'
  BY <1>1 DEF LeaseInv, UpdatesFromKernel, DumpFromKernel, Idle, FromKernel
<1>4. QED
  BY <1>2, <1>3 DEF LeaseInv

\* A request that changes another field of an interface keeps its gateway.
LEMMA FieldsKeepLeased ==
  ASSUME TypeOK, LeaseInv, NEW n \in Name, table.interfaces[n] # None,
         NEW info \in Info, info.name = table.interfaces[n].name,
         info.gateway = table.interfaces[n].gateway,
         table' = Insert(table, info) \/ table' = Update(table, info),
         UNCHANGED <<mailbox, pc, lease>>
  PROVE  LeaseInv'
<1>1. table \in Table(Info) /\ Filed /\ GatewayIsLeased
  BY DEF TypeOK, LeaseInv
<1>2. table'.interfaces = [table.interfaces EXCEPT ![info.name] = info]
  BY <1>1, InterfacesAfter
<1>3. info.name = n
  BY <1>1 DEF Filed
<1>4. Filed' /\ GatewayIsLeased'
  BY <1>1, <1>2, <1>3, StoreKeepsLeased
<1>5. QED
  BY <1>4 DEF LeaseInv, UpdatesFromKernel, DumpFromKernel, FromKernel

\* A client's request changes no gateway.
LEMMA ClientRequestKeepsLeased ==
  ASSUME TypeOK, LeaseInv, ClientRequest
  PROVE  LeaseInv'
<1>0. \A j \in 1..Len(mailbox) : mailbox[j].type = "Update" => FromKernel(mailbox[j].event)
  BY DEF LeaseInv, UpdatesFromKernel
<1>1. CASE ForceRefresh
  BY <1>0, <1>1, RefreshKeepsLeased DEF ForceRefresh
<1>2. ASSUME NEW n \in Name, NEW i \in Index, AddLink(n, i)
      PROVE  LeaseInv'
  <2>1. UNCHANGED <<mailbox, table, lease>>
    BY <1>2 DEF AddLink
  <2>2. CASE BeginRefresh([kernel EXCEPT ![n] = NewlyCreated(i)],
                          Append(netlink, NewLink(i)), config'.creation)
    BY <1>0, <2>1, <2>2, RefreshKeepsLeased
  <2>3. CASE UNCHANGED pc
    BY <2>1, <2>3, NothingOfLeases
  <2>4. QED
    BY <1>2, <2>2, <2>3 DEF AddLink
<1>3. ASSUME NEW n \in Name, DelLink(n)
      PROVE  LeaseInv'
  BY <1>3, NothingOfLeases DEF DelLink
<1>4. ASSUME NEW n \in Name, NEW mod \in Modification, NEW oper \in {None, "Up", "Disabled"},
             NEW slaac \in BOOLEAN,
             NEW dhcpv4 \in {None, TRUE, FALSE}, ModLink(n, mod, oper, slaac, dhcpv4)
      PROVE  LeaseInv'
  <2> DEFINE info     == table.interfaces[n]
             after(b) == IF b THEN [info EXCEPT !.dhcpv4 = dhcpv4] ELSE info
  <2>1. UNCHANGED <<mailbox, pc, lease>> /\ info # None
    BY <1>4 DEF ModLink
  <2>2. UNCHANGED table \/ \E b \in BOOLEAN : (b => dhcpv4 # None) /\ table' = Insert(table, after(b))
    BY <1>4 DEF ModLink
  <2>3. ASSUME NEW b \in BOOLEAN, b => dhcpv4 # None, table' = Insert(table, after(b))
        PROVE  LeaseInv'
    <3>1. info \in Info
      BY <2>1, StoredType
    <3>2. after(b) \in Info /\ after(b).name = info.name /\ after(b).gateway = info.gateway
      BY <2>3, <3>1 DEF Info
    <3> HIDE DEF after
    <3>3. QED
      BY <2>1, <2>3, <3>2, FieldsKeepLeased
  <2>4. QED
    BY <2>1, <2>2, <2>3, NothingOfLeases
<1>5. ASSUME NEW n \in Name, MarkAsUnManaged(n)
      PROVE  LeaseInv'
  <2> DEFINE info == [table.interfaces[n] EXCEPT !.state = "Unmanaged"]
  <2>1. table.interfaces[n] \in Info
    BY <1>5, StoredType DEF MarkAsUnManaged
  <2>2. /\ info \in Info /\ info.name = table.interfaces[n].name
        /\ info.gateway = table.interfaces[n].gateway
    BY <2>1, ManagerAssumption DEF Info, ConnectionState
  <2>3. table' = Update(table, info) /\ UNCHANGED <<mailbox, pc, lease>>
    BY <1>5 DEF MarkAsUnManaged, SetState
  <2> HIDE DEF info
  <2>4. QED
    BY <1>5, <2>2, <2>3, FieldsKeepLeased DEF MarkAsUnManaged
<1>6. QED
  BY <1>1, <1>2, <1>3, <1>4, <1>5 DEF ClientRequest

\* A Wi-Fi status changes no gateway.
LEMMA WlanStateKeepsLeased ==
  ASSUME TypeOK, LeaseInv, NEW n \in Name, NEW state \in ExternalState,
         UpdateExternalInterfaceState(n, state)
  PROVE  LeaseInv'
<1> DEFINE info == [table.interfaces[n] EXCEPT !.state = state]
<1>0. UNCHANGED <<mailbox, pc, lease>>
  BY DEF UpdateExternalInterfaceState
<1>1. CASE table.interfaces[n] = None
  BY <1>0, <1>1, NothingOfLeases DEF UpdateExternalInterfaceState
<1>2. CASE table.interfaces[n] # None
  <2>1. table.interfaces[n] \in Info /\ state \in State
    BY <1>2, StoredType, ManagerAssumption DEF ExternalState, ConnectionState
  <2>2. /\ info \in Info /\ info.name = table.interfaces[n].name
        /\ info.gateway = table.interfaces[n].gateway
    BY <2>1 DEF Info
  <2>3. table' = Update(table, info)
    BY <1>2 DEF UpdateExternalInterfaceState, SetState
  <2> HIDE DEF info
  <2>4. QED
    BY <1>0, <1>2, <2>2, <2>3, FieldsKeepLeased
<1>3. QED
  BY <1>1, <1>2

\* The gateway follows the lease, also when the DHCP client has been restarted
\* and names no old lease.
LEMMA LeaseChangeKeepsLeased ==
  ASSUME RoutersNamed, TypeOK, LeaseInv, NEW n \in Name,
         NEW old \in Lease \cup {None}, NEW new \in Lease \cup {None}, DhcpV4Set(n, old, new)
  PROVE  LeaseInv'
<1> DEFINE info     == table.interfaces[n]
           rerouted == Router(old) # Router(new)
           after    == [info EXCEPT !.gateway = GatewayAfter(info, old, new)]
<1>1. /\ old \in {lease[n], None} /\ (old # None \/ new # None)
      /\ lease' = [lease EXCEPT ![n] = new] /\ UNCHANGED <<mailbox, pc>>
      /\ table \in Table(Info) /\ lease \in [Name -> Lease \cup {None}]
      /\ Filed /\ GatewayIsLeased
  BY DEF DhcpV4Set, TypeOK, LeaseInv
<1>2. UpdatesFromKernel' /\ DumpFromKernel'
  BY <1>1 DEF LeaseInv, UpdatesFromKernel, DumpFromKernel, FromKernel
<1>3. \A m \in Name \ {n} : lease'[m] = lease[m]
  BY <1>1
<1>4. lease'[n] = new
  BY <1>1
<1>5. Filed' /\ GatewayIsLeased'
  <2>1. CASE info = None
    <3>1. table' = table
      BY <2>1 DEF DhcpV4Set
    <3>2. QED
      BY <1>1, <1>3, <2>1, <3>1 DEF Filed, GatewayIsLeased
  <2>2. CASE info # None /\ ~rerouted
    <3>1. table' = table
      BY <2>2 DEF DhcpV4Set
    <3>2. old # None /\ new # None /\ old = lease[n] /\ old.gateway = new.gateway
      BY <1>1, <2>2 DEF RoutersNamed, Router
    <3>3. Filed'
      BY <1>1, <3>1 DEF Filed
    <3>4. GatewayIsLeased'
      BY <1>1, <1>3, <1>4, <3>1, <3>2 DEF GatewayIsLeased
    <3>5. QED
      BY <3>3, <3>4
  <2>3. CASE info # None /\ rerouted
    <3>1. info \in Info /\ info.name = n
      BY <1>1, <2>3, StoredType DEF Filed
    <3>2. /\ after.gateway = Router(new) /\ after.name = n
          /\ after \in Info
      BY <2>3, <3>1, LeaseType DEF GatewayAfter, Info
    <3>3. table' = Insert(table, after)
      BY <2>3 DEF DhcpV4Set
    <3> HIDE DEF after
    <3>4. table'.interfaces = [table.interfaces EXCEPT ![n] = after]
      BY <1>1, <3>2, <3>3, InterfacesAfter
    <3>5. /\ table'.interfaces[n] = after
          /\ \A m \in Name \ {n} : table'.interfaces[m] = table.interfaces[m]
      BY <1>1, <3>4 DEF Table
    <3>6. Filed'
      BY <1>1, <3>2, <3>5 DEF Filed
    <3>7. GatewayIsLeased'
      <4>1. ASSUME NEW m \in Name, m # n, table'.interfaces[m] # None,
                   table'.interfaces[m].gateway # None
            PROVE  lease'[m] # None /\ lease'[m].gateway = table'.interfaces[m].gateway
        BY <1>1, <1>3, <3>5, <4>1 DEF GatewayIsLeased
      <4>2. ASSUME after.gateway # None
            PROVE  new # None /\ new.gateway = after.gateway
        BY <3>2, <4>2 DEF Router
      <4>3. QED
        BY <1>4, <3>5, <4>1, <4>2 DEF GatewayIsLeased
    <3>8. QED
      BY <3>6, <3>7
  <2>4. QED
    BY <2>1, <2>2, <2>3
<1>6. QED
  BY <1>2, <1>5 DEF LeaseInv

-------------------------------------------------------------------------------
\* A gateway in the table is the router of the lease reported last, for any
\* number of interfaces, leases and requests.
THEOREM GatewayAlwaysLeased ==
  ASSUME RoutersNamed
  PROVE  Spec => []GatewayIsLeased
<1>1. Init => LeaseInv
  BY DEF Init, EmptyTable, Idle, LeaseInv, Filed, UpdatesFromKernel, DumpFromKernel, GatewayIsLeased
<1>2. TypeOK /\ LeaseInv /\ [Next]_vars => LeaseInv'
  <2> SUFFICES ASSUME TypeOK, LeaseInv, [Next]_vars PROVE LeaseInv'
    OBVIOUS
  <2>1. CASE KernelChange
    BY <2>1, NothingOfLeases DEF KernelChange, LinkArrives, LinkDeparts, OperChanges
  <2>2. CASE ClientRequest
    BY <2>2, ClientRequestKeepsLeased
  <2>3. CASE ManagerRequest
    BY <2>3, RoutersNamed, LeaseChangeKeepsLeased, WlanStateKeepsLeased DEF ManagerRequest, Wlans
  <2>4. CASE Forward
    BY <2>4, MessagesKeepLeased
  <2>5. CASE Handle
    <3>1. CASE HandleForceRefresh
      <4>1. \A j \in 1..Len(mailbox') : mailbox'[j].type = "Update" => FromKernel(mailbox'[j].event)
        BY <3>1, TailFromKernel DEF HandleForceRefresh, Take, LeaseInv
      <4>2. QED
        BY <3>1, <4>1, RefreshKeepsLeased DEF HandleForceRefresh
    <3>2. QED
      BY <2>5, <3>1, MessagesKeepLeased, UpdateKeepsLeased, InstallKeepsLeased DEF Handle
  <2>6. CASE UNCHANGED vars
    BY <2>6, NothingOfLeases DEF vars
  <2>7. QED
    BY <2>1, <2>2, <2>3, <2>4, <2>5, <2>6 DEF Next
<1>3. LeaseInv => GatewayIsLeased
  BY DEF LeaseInv
<1>4. QED
  BY TypeCorrect, <1>1, <1>2, <1>3, PTL DEF Spec

-------------------------------------------------------------------------------
(***************************************************************************)
(* What subscribers and the table know once every notice is handled, when  *)
(* the kernel gives no index away that the daemon still knows              *)
(* (~PromptReuse).  The steps are of few kinds then: the kernel evolves    *)
(* and queues notices of what it has done, while one interface of the      *)
(* table changes in ways that no notice tells of, or a refresh begins; or  *)
(* the stream task or the actor moves one message on.                      *)
(***************************************************************************)
News   == {"NewLink", "Address"}
Deaths == {"DyingLink", "DelLink"}

\* All that is queued, in the order in which it will be handled.
Queue ==
  [p \in 1..(Len(mailbox) + Len(netlink)) |->
     IF p <= Len(mailbox) THEN mailbox[p]
     ELSE [type |-> "Netlink", notice |-> netlink[p - Len(mailbox)]]]

Tells(message, kinds, i) ==
  message.type = "Netlink" /\ message.notice.kind \in kinds /\ message.notice.index = i

Waiting(kinds, i) == \E p \in DOMAIN Queue : Tells(Queue[p], kinds, i)

\* The kernel's link n has the index i, and what the daemon holds knows n by i.
Owns(i, n)   == kernel[n] # None /\ kernel[n].id = i

Stored(i, n) == table.interfaces[n] # None /\ table.interfaces[n].id = i
Told(i, n)   == pc.at = "tell" /\ pc.event.info.id = i /\ pc.event.info.name = n
Mailed(i, n) == \E j \in 1..Len(mailbox) :
                  mailbox[j].type = "Update" /\ mailbox[j].event.info.id = i /\ mailbox[j].event.info.name = n
Dumped(i, n) == pc.at = "install" /\ pc.links[n] # None /\ pc.links[n].id = i

KnownAs(i, n) == Stored(i, n) \/ Told(i, n) \/ Mailed(i, n) \/ Dumped(i, n)

\* The kernel's links after a step that has queued the notices new.
Evolves(new) ==
  /\ netlink' = netlink \o new
  /\ \A n \in Name : kernel'[n] # None =>
       IF kernel[n] # None THEN kernel'[n].id = kernel[n].id ELSE kernel'[n].id \in FreeIndex(kernel)
  /\ \A n, m \in Name : kernel[n] = None /\ kernel[m] = None /\ kernel'[n] # None /\ kernel'[m] # None
                          /\ kernel'[n].id = kernel'[m].id => n = m
  /\ \A n \in Name : kernel'[n] # None /\ kernel'[n] # kernel[n] =>
       \E a \in DOMAIN new : new[a].index = kernel'[n].id /\ new[a].kind \in News
  /\ \A n \in Name : kernel[n] # None /\ kernel'[n] = None =>
       \E a \in DOMAIN new : new[a].index = kernel[n].id /\ new[a].kind \in Deaths
  /\ \A a \in DOMAIN new :
       \/ new[a].kind \in News /\ \E n \in Name : kernel'[n] # None /\ kernel'[n].id = new[a].index
       \/ \E n \in Name : kernel[n] # None /\ kernel'[n] = None /\ kernel[n].id = new[a].index
       \/ /\ new[a].index \in FreeIndex(kernel)
          /\ \A n \in Name : kernel'[n] # None => kernel'[n].id # new[a].index

\* An interface of the table changes in its gateway, its policy or a state of its own,
\* and the subscribers are told of it or will be when a notice of its address is handled;
\* or it is stored again with another SLAAC flag only, and they are not.
SameLink(info, n) ==
  LET cur == table.interfaces[n]
  IN /\ cur # None /\ info.name = n
     /\ info.id = cur.id /\ info.addrs = cur.addrs /\ info.interface_type = cur.interface_type
     /\ info.state \in {cur.state, "Unmanaged"} \/ n \in Wlans

Touches(new, info, n) ==
  /\ SameLink(info, n)
  /\ table' = Insert(table, info) \/ table' = Update(table, info)
  /\ \/ announced' = [announced EXCEPT ![n] = info]
     \/ UNCHANGED announced /\ info = table.interfaces[n]
     \/ /\ UNCHANGED announced
        /\ alive' => /\ \E a \in DOMAIN new : new[a].index = info.id /\ new[a].kind = "Address"
                     /\ \E m \in Name : kernel'[m] # None /\ kernel'[m].id = info.id

Touched(new) ==
  /\ UNCHANGED <<mailbox, pc>>
  /\ \/ UNCHANGED <<table, announced>>
     \/ \E n \in Name, info \in Info : Touches(new, info, n)

RefreshBegins ==
  /\ pc = Idle /\ pc' = [at |-> "install", links |-> QueryLinks(kernel')]
  /\ UNCHANGED <<table, announced>>
  /\ mailbox' = mailbox \/ (mailbox # <<>> /\ Head(mailbox).type = "ForceRefresh" /\ mailbox' = Tail(mailbox))

Environment == \E new \in Seq(Notice) : Evolves(new) /\ (Touched(new) \/ RefreshBegins)

\* Infos are filed under their names, and have the type of their interface.
Proper(info, n) == info.name = n /\ info.interface_type = TypeOf[n]

FiledInv ==
  /\ \A n \in Name : table.interfaces[n] # None => Proper(table.interfaces[n], n)
  /\ \A j \in 1..Len(mailbox) : mailbox[j].type = "Update" =>
       Proper(mailbox[j].event.info, mailbox[j].event.info.name)
  /\ pc.at = "tell" => Proper(pc.event.info, pc.event.info.name)
  /\ pc.at = "install" => \A n \in Name : pc.links[n] # None => Proper(pc.links[n], n)

-------------------------------------------------------------------------------
(***************************************************************************)
(* The kernel's steps evolve it.                                           *)
(***************************************************************************)
\* Nothing happens to the kernel.
LEMMA StaysEvolves ==
  ASSUME TypeOK, UNCHANGED <<kernel, netlink>>
  PROVE  Evolves(<<>>) /\ <<>> \in Seq(Notice)
<1>1. netlink' = netlink \o <<>>
  BY DEF TypeOK
<1>2. DOMAIN (<<>>) = {}
  OBVIOUS
<1>3. QED
  BY <1>1, <1>2 DEF Evolves

\* Links change in their status or addresses.
LEMMA ChangeEvolves ==
  ASSUME TypeOK, NEW new \in Seq(Notice), netlink' = netlink \o new,
         \A n \in Name : (kernel'[n] # None <=> kernel[n] # None)
                         /\ (kernel[n] # None => kernel'[n].id = kernel[n].id),
         \A n \in Name : kernel'[n] # kernel[n] => \E a \in DOMAIN new : new[a].index = kernel'[n].id,
         \A a \in DOMAIN new : new[a].kind \in News
                               /\ \E n \in Name : kernel[n] # None /\ kernel[n].id = new[a].index
  PROVE  Evolves(new)
<1>1. \A n \in Name : kernel'[n] # None /\ kernel'[n] # kernel[n] =>
        \E a \in DOMAIN new : new[a].index = kernel'[n].id /\ new[a].kind \in News
  OBVIOUS
<1>2. \A a \in DOMAIN new :
        new[a].kind \in News /\ \E n \in Name : kernel'[n] # None /\ kernel'[n].id = new[a].index
  <2> SUFFICES ASSUME NEW a \in DOMAIN new
               PROVE  new[a].kind \in News
                      /\ \E n \in Name : kernel'[n] # None /\ kernel'[n].id = new[a].index
    OBVIOUS
  <2>1. PICK n \in Name : kernel[n] # None /\ kernel[n].id = new[a].index
    OBVIOUS
  <2>2. QED
    BY <2>1
<1>3. QED
  BY <1>1, <1>2 DEF Evolves

\* A link leaves.
LEMMA LeaveEvolves ==
  ASSUME TypeOK, NEW n \in Name, kernel[n] # None, kernel' = [kernel EXCEPT ![n] = None],
         NEW new \in Seq(Notice), netlink' = netlink \o new, new # <<>>,
         \A a \in DOMAIN new : new[a].index = kernel[n].id /\ new[a].kind \in Deaths
  PROVE  Evolves(new)
<1>1. \A m \in Name : kernel'[m] = IF m = n THEN None ELSE kernel[m]
  BY DEF TypeOK
<1>2. 1 \in DOMAIN new
  OBVIOUS
<1>3. QED
  BY <1>1, <1>2 DEF Evolves

\* A link comes and may be gone at once.
LEMMA ComeEvolves ==
  ASSUME TypeOK, NEW n \in Name, kernel[n] = None, NEW i \in FreeIndex(kernel),
         NEW new \in Seq(Notice), netlink' = netlink \o new,
         \/ new = <<NewLink(i)>> /\ \E link \in Link :
              link.id = i /\ kernel' = [kernel EXCEPT ![n] = link]
         \/ new = <<NewLink(i)>> \o DelLinkOf(i) /\ kernel' = kernel
  PROVE  Evolves(new)
<1>1. \A m \in Name : kernel[m] # None => kernel[m].id # i
  BY DEF FreeIndex, Present
<1>2. CASE new = <<NewLink(i)>> /\ \E link \in Link :
             link.id = i /\ kernel' = [kernel EXCEPT ![n] = link]
  <2>1. PICK link \in Link : link.id = i /\ kernel' = [kernel EXCEPT ![n] = link]
    BY <1>2
  <2>2. \A m \in Name : kernel'[m] = IF m = n THEN link ELSE kernel[m]
    BY <2>1 DEF TypeOK
  <2>3. DOMAIN new = {1} /\ new[1] = NewLink(i)
    BY <1>2
  <2>4. new[1].index = i /\ new[1].kind \in News
    BY <2>3 DEF NewLink, News
  <2>5. link # None
    BY NoneIsNoRecord
  <2>6. QED
    BY <2>1, <2>2, <2>3, <2>4, <2>5 DEF Evolves
<1>3. CASE new = <<NewLink(i)>> \o DelLinkOf(i) /\ kernel' = kernel
  <2>1. \A a \in DOMAIN new : new[a].index = i
    BY <1>3 DEF NewLink, DelLinkOf
  <2>2. QED
    BY <1>1, <1>3, <2>1 DEF Evolves
<1>4. QED
  BY <1>2, <1>3

\* A refresh creates some links, each with an index of its own.
Creates(k, new) ==
  /\ \A m \in Name :
       \/ kernel'[m] = k[m]
       \/ /\ k[m] = None /\ kernel'[m] # None /\ kernel'[m].id \in FreeIndex(k)
          /\ \E a \in DOMAIN new : new[a] = NewLink(kernel'[m].id)
  /\ \A m, p \in Name : k[m] = None /\ k[p] = None /\ kernel'[m] # None /\ kernel'[p] # None
                          /\ kernel'[m].id = kernel'[p].id => m = p
  /\ \A a \in DOMAIN new : new[a].kind = "NewLink" /\ new[a].index \in FreeIndex(k)

LEMMA RefreshCreates ==
  ASSUME NEW k \in [Name -> Link \cup {None}], NEW pending \in Seq(Notice),
         NEW creation \in SUBSET Name, BeginRefresh(k, pending, creation)
  PROVE  /\ pc' = [at |-> "install", links |-> QueryLinks(kernel')]
         /\ \E new \in Seq(Notice) : netlink' = pending \o new /\ Creates(k, new)
<1>1. PICK configured \in CreationOrders(creation \ Present(k)),
           auto \in AutoCreationOrders(k, creation) :
        LET made == configured \o auto
        IN \E index \in [DOMAIN made -> FreeIndex(k)] :
             /\ \A a, b \in DOMAIN made : index[a] = index[b] => a = b
             /\ kernel' = [n \in Name |->
                             IF \E a \in DOMAIN made : made[a] = n
                             THEN NewlyCreated(index[CHOOSE a \in DOMAIN made : made[a] = n])
                             ELSE k[n]]
             /\ netlink' = pending \o [a \in DOMAIN made |-> NewLink(index[a])]
             /\ pc' = [at |-> "install", links |-> QueryLinks(kernel')]
  BY Zenon DEF BeginRefresh
<1> DEFINE made == configured \o auto
           new(index) == [a \in DOMAIN made |-> NewLink(index[a])]
<1>2. PICK index \in [DOMAIN made -> FreeIndex(k)] :
          /\ \A a, b \in DOMAIN made : index[a] = index[b] => a = b
          /\ kernel' = [n \in Name |->
                          IF \E a \in DOMAIN made : made[a] = n
                          THEN NewlyCreated(index[CHOOSE a \in DOMAIN made : made[a] = n])
                          ELSE k[n]]
          /\ netlink' = pending \o new(index)
          /\ pc' = [at |-> "install", links |-> QueryLinks(kernel')]
  BY <1>1
<1>3. configured \in Seq(Name \ Present(k)) /\ auto \in Seq(Name \ Present(k))
  <2>1. ASSUME NEW S \in SUBSET (Name \ Present(k)), NEW o \in CreationOrders(S)
        PROVE  o \in Seq(Name \ Present(k))
    <3>1. PICK T \in SUBSET S : o \in [1..Cardinality(T) -> T]
      BY DEF CreationOrders
    <3>2. Cardinality(T) \in Nat
      BY FS_Subset, FS_CardinalityType, ManagerAssumption
    <3>3. QED
      BY <3>1, <3>2
  <2>2. AutoWlans(k, creation) \in SUBSET (Name \ Present(k))
    BY ManagerAssumption DEF AutoWlans
  <2>3. auto \in CreationOrders(AutoWlans(k, creation))
    BY DEF AutoCreationOrders
  <2>4. QED
    BY <2>1, <2>2, <2>3
<1>4. made \in Seq(Name \ Present(k))
  BY <1>3
<1> HIDE DEF made
<1>5. \A a \in DOMAIN made : k[made[a]] = None
  BY <1>4 DEF Present
<1>6. new(index) \in Seq(Notice)
  <2>1. DOMAIN made = 1..Len(made) /\ Len(made) \in Nat
    BY <1>4
  <2>2. \A a \in DOMAIN made : NewLink(index[a]) \in Notice
    BY NoticeType DEF FreeIndex
  <2>3. QED
    BY <2>1, <2>2
<1>7. Creates(k, new(index))
  <2>1. ASSUME NEW m \in Name, kernel'[m] # k[m]
        PROVE  /\ k[m] = None /\ kernel'[m] # None
               /\ \E a \in DOMAIN made : made[a] = m /\ kernel'[m].id = index[a]
    <3>1. \E a \in DOMAIN made : made[a] = m
      BY <1>2, <2>1
    <3> DEFINE a == CHOOSE b \in DOMAIN made : made[b] = m
    <3>2. a \in DOMAIN made /\ made[a] = m
      BY <3>1
    <3>3. kernel'[m] = NewlyCreated(index[a])
      BY <1>2, <3>1
    <3> HIDE DEF a
    <3>4. index[a] \in Index
      BY <3>2, <1>2 DEF FreeIndex
    <3>5. NewlyCreated(index[a]) \in Link
      BY <3>4 DEF NewlyCreated, Link
    <3>6. kernel'[m].id = index[a]
      BY <3>3 DEF NewlyCreated
    <3>7. QED
      BY <1>5, <3>2, <3>3, <3>5, <3>6, NoneIsNoRecord
  <2>2. ASSUME NEW m \in Name, NEW p \in Name, k[m] = None, k[p] = None, kernel'[m] # None,
               kernel'[p] # None, kernel'[m].id = kernel'[p].id
        PROVE  m = p
    <3>1. PICK a \in DOMAIN made : made[a] = m /\ kernel'[m].id = index[a]
      BY <2>1, <2>2
    <3>2. PICK b \in DOMAIN made : made[b] = p /\ kernel'[p].id = index[b]
      BY <2>1, <2>2
    <3>3. QED
      BY <1>2, <2>2, <3>1, <3>2
  <2>3. \A a \in DOMAIN new(index) :
          new(index)[a].kind = "NewLink" /\ new(index)[a].index \in FreeIndex(k)
    BY <1>2 DEF NewLink
  <2>4. ASSUME NEW m \in Name, kernel'[m] # k[m]
        PROVE  /\ kernel'[m].id \in FreeIndex(k)
               /\ \E a \in DOMAIN new(index) : new(index)[a] = NewLink(kernel'[m].id)
    <3>1. DOMAIN new(index) = DOMAIN made /\ \A a \in DOMAIN made : new(index)[a] = NewLink(index[a])
      OBVIOUS
    <3>2. PICK a \in DOMAIN made : kernel'[m].id = index[a]
      BY <2>1, <2>4
    <3> HIDE DEF new
    <3>3. QED
      BY <1>2, <3>1, <3>2
  <2> HIDE DEF new
  <2>5. QED
    BY <2>1, <2>2, <2>3, <2>4 DEF Creates
<1>8. QED
  BY <1>2, <1>6, <1>7

\* So the kernel evolves, also when a link comes just before.
LEMMA RefreshEvolves ==
  ASSUME TypeOK, NEW k \in [Name -> Link \cup {None}], NEW first \in Seq(Notice),
         NEW new \in Seq(Notice), netlink' = (netlink \o first) \o new, Creates(k, new),
         \/ k = kernel /\ first = <<>>
         \/ \E n \in Name, i \in FreeIndex(kernel) :
              kernel[n] = None /\ k = [kernel EXCEPT ![n] = NewlyCreated(i)] /\ first = <<NewLink(i)>>
  PROVE  first \o new \in Seq(Notice) /\ Evolves(first \o new)
<1>1. netlink' = netlink \o (first \o new) /\ first \o new \in Seq(Notice)
  BY DEF TypeOK
<1> DEFINE all == first \o new
<1>2. /\ \A a \in DOMAIN first : a \in DOMAIN all /\ all[a] = first[a]
      /\ \A a \in DOMAIN new : Len(first) + a \in DOMAIN all /\ all[Len(first) + a] = new[a]
      /\ \A b \in DOMAIN all : \/ b \in DOMAIN first /\ all[b] = first[b]
                               \/ b - Len(first) \in DOMAIN new /\ all[b] = new[b - Len(first)]
  OBVIOUS
<1> HIDE DEF all
<1>3. FreeIndex(k) \subseteq FreeIndex(kernel) /\ \A m \in Name : kernel[m] # None => k[m] = kernel[m]
  <2>1. ASSUME NEW n \in Name, NEW i \in FreeIndex(kernel), kernel[n] = None,
               k = [kernel EXCEPT ![n] = NewlyCreated(i)]
        PROVE  FreeIndex(k) \subseteq FreeIndex(kernel) /\ \A m \in Name : kernel[m] # None => k[m] = kernel[m]
    <3>1. \A m \in Name : m # n => k[m] = kernel[m]
      BY <2>1 DEF TypeOK
    <3>2. \A m \in Name : kernel[m] # None => k[m] = kernel[m]
      BY <2>1, <3>1
    <3>3. Present(kernel) \subseteq Present(k) /\ \A m \in Present(kernel) : k[m] = kernel[m]
      BY <3>2 DEF Present
    <3>4. QED
      BY <3>2, <3>3 DEF FreeIndex
  <2>2. QED
    BY <2>1
<1>4. \A a \in DOMAIN new : new[a].kind \in News /\ new[a].index \in FreeIndex(kernel)
  BY <1>3 DEF Creates, News
<1>5. \A i : NewLink(i).kind \in News /\ NewLink(i).index = i
  BY DEF NewLink, News
<1>6. \A m \in Name : kernel[m] # None => kernel'[m] = kernel[m]
  BY <1>3 DEF Creates
<1>7. /\ \A m \in Name : kernel'[m] # None /\ kernel[m] = None =>
           /\ kernel'[m].id \in FreeIndex(kernel)
           /\ \E a \in DOMAIN all : all[a].index = kernel'[m].id /\ all[a].kind \in News
      /\ \A m, p \in Name : kernel[m] = None /\ kernel[p] = None /\ kernel'[m] # None
                              /\ kernel'[p] # None /\ kernel'[m].id = kernel'[p].id => m = p
      /\ \A a \in DOMAIN all : all[a].kind \in News /\ all[a].index \in FreeIndex(kernel)
  <2>1. CASE k = kernel /\ first = <<>>
    <3>1. DOMAIN first = {}
      BY <2>1
    <3>2. \A b \in DOMAIN all : all[b].kind \in News /\ all[b].index \in FreeIndex(kernel)
      BY <1>2, <1>4, <3>1
    <3>3. ASSUME NEW m \in Name, kernel'[m] # None, kernel[m] = None
          PROVE  /\ kernel'[m].id \in FreeIndex(kernel)
                 /\ \E a \in DOMAIN all : all[a].index = kernel'[m].id /\ all[a].kind \in News
      <4>1. PICK a \in DOMAIN new : new[a] = NewLink(kernel'[m].id)
        BY <2>1, <3>3 DEF Creates
      <4>2. QED
        BY <1>2, <1>5, <2>1, <3>3, <4>1 DEF Creates
    <3>4. QED
      BY <2>1, <3>2, <3>3 DEF Creates
  <2>2. ASSUME NEW n \in Name, NEW i \in FreeIndex(kernel), kernel[n] = None,
               k = [kernel EXCEPT ![n] = NewlyCreated(i)], first = <<NewLink(i)>>
        PROVE  <1>7!1 /\ <1>7!2 /\ <1>7!3
    <3>1. DOMAIN first = {1} /\ first[1] = NewLink(i)
      BY <2>2
    <3>2. k[n] = NewlyCreated(i) /\ k[n] # None /\ k[n].id = i /\ i \notin FreeIndex(k)
      <4>1. k[n] = NewlyCreated(i)
        BY <2>2 DEF TypeOK
      <4>2. i \in Index
        BY DEF FreeIndex
      <4>3. NewlyCreated(i) \in Link /\ NewlyCreated(i).id = i
        BY <4>2 DEF NewlyCreated, Link
      <4>4. QED
        BY <4>1, <4>3, NoneIsNoRecord DEF FreeIndex, Present
    <3>3. kernel'[n] = k[n] /\ \A m \in Name : m # n => k[m] = kernel[m]
      BY <2>2, <3>2 DEF Creates, TypeOK
    <3>4. \A b \in DOMAIN all : all[b].kind \in News /\ all[b].index \in FreeIndex(kernel)
      BY <1>2, <1>4, <1>5, <2>2, <3>1
    <3>5. ASSUME NEW m \in Name, kernel'[m] # None, kernel[m] = None
          PROVE  /\ kernel'[m].id \in FreeIndex(kernel)
                 /\ m # n => kernel'[m].id \in FreeIndex(k)
                 /\ \E a \in DOMAIN all : all[a].index = kernel'[m].id /\ all[a].kind \in News
      <4>1. CASE m = n
        <5>1. kernel'[m].id = i
          BY <3>2, <3>3, <4>1
        <5>2. 1 \in DOMAIN all /\ all[1] = NewLink(i)
          BY <1>2, <3>1
        <5>3. QED
          BY <1>5, <4>1, <5>1, <5>2
      <4>2. CASE m # n
        <5>1. PICK a \in DOMAIN new : new[a] = NewLink(kernel'[m].id)
          BY <3>3, <3>5, <4>2 DEF Creates
        <5>2. kernel'[m].id \in FreeIndex(k)
          BY <3>3, <3>5, <4>2 DEF Creates
        <5>3. Len(first) + a \in DOMAIN all /\ all[Len(first) + a] = NewLink(kernel'[m].id)
          BY <1>2, <5>1
        <5>4. \E b \in DOMAIN all : all[b] = NewLink(kernel'[m].id)
          BY <5>3
        <5>5. \E b \in DOMAIN all : all[b].index = kernel'[m].id /\ all[b].kind \in News
          BY <1>5, <5>4
        <5>6. kernel'[m].id \in FreeIndex(kernel)
          BY <1>3, <5>2
        <5>7. QED
          BY <5>2, <5>5, <5>6
      <4>3. QED
        BY <4>1, <4>2
    <3>6. ASSUME NEW m \in Name, NEW p \in Name, kernel[m] = None, kernel[p] = None,
                 kernel'[m] # None, kernel'[p] # None, kernel'[m].id = kernel'[p].id
          PROVE  m = p
      BY <3>2, <3>3, <3>5, <3>6 DEF Creates
    <3>7. QED
      BY <3>4, <3>5, <3>6
  <2>3. QED
    BY <2>1, <2>2
<1>8. \A a \in DOMAIN all :
        \/ all[a].kind \in News /\ \E m \in Name : kernel'[m] # None /\ kernel'[m].id = all[a].index
        \/ /\ all[a].index \in FreeIndex(kernel)
           /\ \A m \in Name : kernel'[m] # None => kernel'[m].id # all[a].index
  BY <1>7
<1>9. QED
  BY <1>1, <1>6, <1>7, <1>8 DEF Evolves, all

-------------------------------------------------------------------------------
(***************************************************************************)
(* The kinds of steps.                                                     *)
(***************************************************************************)
\* The link at an index has it.
LEMMA LinkAtOwns ==
  ASSUME NEW i, LinkAt(i) # None
  PROVE  LinkAt(i) \in Name /\ Owns(i, LinkAt(i))
  BY DEF LinkAt, Present, Owns

\* A link's address changes that went through and were needed have changed it.
LEMMA ChangedAddresses ==
  ASSUME NEW i, NEW gone \in SUBSET Addr, NEW new \in SUBSET Addr, gone # new,
         NEW r \in AddressOutcomes(i, gone, new), r.ok
  PROVE  LinkAt(i) # None /\ kernel[LinkAt(i)].addrs # r.addrs
<1>1. CASE LinkAt(i) = None
  <2>1. r = Outcome({}, gone = {} /\ new = {})
    BY <1>1 DEF AddressOutcomes
  <2>2. r.ok = (gone = {} /\ new = {})
    BY <2>1 DEF Outcome
  <2>3. QED
    BY <2>2
<1>2. CASE LinkAt(i) # None
  <2> DEFINE have == kernel[LinkAt(i)].addrs
  <2>1. PICK q \in DeleteAll(have, gone) : r = IF q.ok THEN AddAll(q.addrs, new) ELSE q
    BY <1>2 DEF AddressOutcomes, Change
  <2> HIDE DEF have
  <2>2. q.ok
    BY <2>1
  <2>3. gone \subseteq have /\ q.addrs = have \ gone
    <3>1. CASE gone \subseteq have
      BY <2>1, <3>1 DEF DeleteAll, Outcome
    <3>2. CASE ~(gone \subseteq have)
      BY <2>1, <2>2, <3>2 DEF DeleteAll, Outcome
    <3>3. QED
      BY <3>1, <3>2
  <2>4. new \cap (have \ gone) = {} /\ r.addrs = (have \ gone) \cup new
    <3>1. r = AddAll(have \ gone, new)
      BY <2>1, <2>2, <2>3
    <3>2. CASE new \cap (have \ gone) = {}
      BY <3>1, <3>2 DEF AddAll, Outcome
    <3>3. CASE new \cap (have \ gone) # {}
      BY <3>1, <3>3 DEF AddAll, Outcome
    <3>4. QED
      BY <3>2, <3>3
  <2>5. r.addrs # have
    BY <2>3, <2>4
  <2>6. QED
    BY <1>2, <2>5 DEF have
<1>3. QED
  BY <1>1, <1>2

\* The fields of a link with other addresses.
LEMMA WithAddrsFields ==
  ASSUME TypeOK, NEW i, NEW addrs \in SUBSET Addr, NEW n \in Name
  PROVE  /\ WithAddrs(kernel, i, addrs)[n] # None <=> kernel[n] # None
         /\ kernel[n] # None => /\ WithAddrs(kernel, i, addrs)[n].id = kernel[n].id
                                /\ WithAddrs(kernel, i, addrs)[n] \in Link
         /\ WithAddrs(kernel, i, addrs)[n] # kernel[n] =>
              /\ n = LinkAt(i) /\ kernel[n] # None /\ kernel[n].id = i
              /\ kernel[n].addrs # addrs
<1> DEFINE link == [kernel[n] EXCEPT !.addrs = addrs]
<1>1. WithAddrs(kernel, i, addrs)[n] = IF n = LinkAt(i) THEN link ELSE kernel[n]
  BY DEF WithAddrs
<1>2. n = LinkAt(i) => kernel[n] # None /\ kernel[n].id = i
  BY LinkAtOwns, NoneAssumption DEF Owns
<1>3. kernel[n] # None => /\ kernel[n] \in Link /\ link \in Link /\ link.id = kernel[n].id
                          /\ (kernel[n].addrs = addrs => link = kernel[n])
  BY DEF TypeOK, Link
<1> HIDE DEF link
<1>4. QED
  BY <1>1, <1>2, <1>3, NoneIsNoRecord

\* The kernel evolves when an address changes.
LEMMA AddressesEvolve ==
  ASSUME TypeOK, NEW i \in Index, NEW addrs \in SUBSET Addr,
         kernel' = WithAddrs(kernel, i, addrs),
         netlink' = netlink \o AddressNotices(i, addrs)
  PROVE  Evolves(AddressNotices(i, addrs)) /\ AddressNotices(i, addrs) \in Seq(Notice)
<1> DEFINE new == AddressNotices(i, addrs)
<1>1. new \in Seq(Notice)
  BY NoticeType
<1>2. \A n \in Name : kernel'[n] # kernel[n] =>
        new = <<AddressNotice(i)>> /\ kernel[n] # None /\ kernel[n].id = i
  <2> SUFFICES ASSUME NEW n \in Name, kernel'[n] # kernel[n]
               PROVE  new = <<AddressNotice(i)>> /\ kernel[n] # None /\ kernel[n].id = i
    OBVIOUS
  <2>1. /\ n = LinkAt(i) /\ kernel[n] # None /\ kernel[n].id = i
        /\ kernel[n].addrs # addrs
    BY WithAddrsFields
  <2>2. LinkAt(i) # None /\ kernel[LinkAt(i)].addrs # addrs
    BY <2>1, NoneAssumption
  <2>3. QED
    BY <2>1, <2>2 DEF AddressNotices
<1>3. \A a \in DOMAIN new : new[a] = AddressNotice(i) /\ LinkAt(i) # None
  BY DEF AddressNotices
<1>4. AddressNotice(i).index = i /\ AddressNotice(i).kind \in News
  BY DEF AddressNotice, News
<1>5. \A n \in Name : (kernel'[n] # None <=> kernel[n] # None)
                      /\ (kernel[n] # None => kernel'[n].id = kernel[n].id)
  BY WithAddrsFields
<1>6. \A n \in Name : kernel'[n] # kernel[n] => \E a \in DOMAIN new : new[a].index = kernel'[n].id
  <2> SUFFICES ASSUME NEW n \in Name, kernel'[n] # kernel[n]
               PROVE  \E a \in DOMAIN new : new[a].index = kernel'[n].id
    OBVIOUS
  <2>1. new = <<AddressNotice(i)>> /\ kernel'[n].id = i
    BY <1>2, <1>5
  <2>2. 1 \in DOMAIN new /\ new[1] = AddressNotice(i)
    BY <2>1
  <2>3. QED
    BY <1>4, <2>1, <2>2
<1>7. \A a \in DOMAIN new : new[a].kind \in News
                            /\ \E n \in Name : kernel[n] # None /\ kernel[n].id = new[a].index
  BY <1>3, <1>4, LinkAtOwns DEF Owns
<1> HIDE DEF new
<1>8. Evolves(new)
  <2>1. netlink' = netlink \o new
    BY DEF new
  <2>2. QED
    BY <1>1, <1>5, <1>6, <1>7, <2>1, ChangeEvolves
<1>9. QED
  BY <1>1, <1>8 DEF new

\* Notices are queued one at a time or several at once.
LEMMA Queuing ==
  ASSUME TypeOK
  PROVE  /\ \A x \in Notice : <<x>> \in Seq(Notice) /\ Append(netlink, x) = netlink \o <<x>>
         /\ \A s, t \in Seq(Notice) : (netlink \o s) \o t = netlink \o (s \o t)
<1>1. netlink \in Seq(Notice)
  BY DEF TypeOK
<1>2. ASSUME NEW x \in Notice
      PROVE  <<x>> \in Seq(Notice) /\ Append(netlink, x) = netlink \o <<x>>
  BY <1>1
<1>3. ASSUME NEW s \in Seq(Notice), NEW t \in Seq(Notice)
      PROVE  (netlink \o s) \o t = netlink \o (s \o t)
  BY <1>1
<1>4. QED
  BY <1>2, <1>3

\* The kernel's own changes.
LEMMA KernelChangeShape ==
  ASSUME TypeOK, KernelChange
  PROVE  Environment
<1> SUFFICES \E new \in Seq(Notice) : Evolves(new)
  BY DEF KernelChange, LinkArrives, LinkDeparts, OperChanges, Environment, Touched
<1>1. ASSUME NEW n \in Name, NEW i \in Index, NEW oper \in {"Up", "NoCarrier", "Disabled"},
             LinkArrives(n, i, oper)
      PROVE  \E new \in Seq(Notice) : Evolves(new)
  <2> DEFINE link == [id |-> i, oper |-> oper, addrs |-> {}]
  <2>1. link \in Link /\ link.id = i
    BY DEF Link
  <2>2. <<NewLink(i)>> \in Seq(Notice) /\ netlink' = netlink \o <<NewLink(i)>>
    BY <1>1, NoticeType, Queuing DEF LinkArrives
  <2>3. kernel[n] = None /\ i \in FreeIndex(kernel) /\ kernel' = [kernel EXCEPT ![n] = link]
    BY <1>1 DEF LinkArrives
  <2> HIDE DEF link
  <2>4. Evolves(<<NewLink(i)>>)
    BY <2>1, <2>2, <2>3, ComeEvolves
  <2>5. QED
    BY <2>2, <2>4
<1>2. ASSUME NEW n \in Name, NEW warned \in BOOLEAN, LinkDeparts(n, warned)
      PROVE  \E new \in Seq(Notice) : Evolves(new)
  <2> DEFINE i   == kernel[n].id
             new == (IF warned THEN <<[kind |-> "DyingLink", index |-> i]>> ELSE <<>>) \o DelLinkOf(i)
  <2>1. i \in Index
    BY <1>2 DEF LinkDeparts, TypeOK, Link
  <2>2. new \in Seq(Notice) /\ new # <<>>
    BY <2>1, NoticeType DEF DelLinkOf
  <2>3. \A a \in DOMAIN new : new[a].index = i /\ new[a].kind \in Deaths
    BY DEF DelLinkOf, Deaths
  <2>4. netlink' = netlink \o new
    <3>1. (IF warned THEN <<[kind |-> "DyingLink", index |-> i]>> ELSE <<>>) \in Seq(Notice)
          /\ DelLinkOf(i) \in Seq(Notice)
      BY <2>1, NoticeType
    <3>2. QED
      BY <1>2, <3>1, Queuing DEF LinkDeparts
  <2> HIDE DEF new
  <2>5. Evolves(new)
    BY <1>2, <2>2, <2>3, <2>4, LeaveEvolves DEF LinkDeparts
  <2>6. QED
    BY <2>2, <2>5
<1>3. ASSUME NEW n \in Name, NEW oper \in {"Up", "NoCarrier", "Disabled"}, OperChanges(n, oper)
      PROVE  \E new \in Seq(Notice) : Evolves(new)
  <2> DEFINE i == kernel[n].id
             new == <<NewLink(i)>>
  <2>1. kernel[n] \in Link /\ i \in Index /\ kernel[n] # None
    BY <1>3 DEF OperChanges, TypeOK, Link
  <2>2. new \in Seq(Notice) /\ netlink' = netlink \o new
    BY <1>3, <2>1, NoticeType, Queuing DEF OperChanges
  <2>3. kernel' = [kernel EXCEPT ![n] = [kernel[n] EXCEPT !.oper = oper]]
    BY <1>3 DEF OperChanges
  <2>4. [kernel[n] EXCEPT !.oper = oper] \in Link /\ [kernel[n] EXCEPT !.oper = oper].id = i
    BY <2>1 DEF Link
  <2>5. \A m \in Name : (kernel'[m] # None <=> kernel[m] # None)
                        /\ (kernel[m] # None => kernel'[m].id = kernel[m].id)
                        /\ (kernel'[m] # kernel[m] => m = n /\ kernel'[m].id = i)
    BY <2>1, <2>3, <2>4, NoneIsNoRecord DEF TypeOK
  <2>6. DOMAIN new = {1} /\ new[1].index = i /\ new[1].kind \in News
    BY DEF NewLink, News
  <2> HIDE DEF new
  <2>7. Evolves(new)
    BY <2>1, <2>2, <2>5, <2>6, ChangeEvolves
  <2>8. QED
    BY <2>2, <2>7
<1>4. QED
  BY <1>1, <1>2, <1>3 DEF KernelChange

\* A refresh, from the kernel as it is or just after a link has come.
LEMMA RefreshShape ==
  ASSUME TypeOK, NEW creation \in SUBSET Name, pc = Idle, UNCHANGED <<table, announced>>,
         mailbox' = mailbox \/ (mailbox # <<>> /\ Head(mailbox).type = "ForceRefresh" /\ mailbox' = Tail(mailbox)),
         \/ BeginRefresh(kernel, netlink, creation)
         \/ \E n \in Name, i \in FreeIndex(kernel) :
              /\ kernel[n] = None
              /\ BeginRefresh([kernel EXCEPT ![n] = NewlyCreated(i)], Append(netlink, NewLink(i)), creation)
  PROVE  Environment
<1>1. CASE BeginRefresh(kernel, netlink, creation)
  <2>1. kernel \in [Name -> Link \cup {None}] /\ netlink \in Seq(Notice)
    BY DEF TypeOK
  <2>2. RefreshBegins
    BY <1>1, <2>1, RefreshCreates DEF RefreshBegins
  <2>3. PICK new \in Seq(Notice) : netlink' = netlink \o new /\ Creates(kernel, new)
    BY <1>1, <2>1, RefreshCreates
  <2>4. netlink \o <<>> = netlink /\ <<>> \in Seq(Notice)
    BY <2>1
  <2>5. netlink' = (netlink \o <<>>) \o new
    BY <2>3, <2>4
  <2>6. <<>> \o new \in Seq(Notice) /\ Evolves(<<>> \o new)
    BY <2>1, <2>3, <2>4, <2>5, RefreshEvolves
  <2>7. QED
    BY <2>2, <2>6 DEF Environment
<1>2. ASSUME NEW n \in Name, NEW i \in FreeIndex(kernel), kernel[n] = None,
             BeginRefresh([kernel EXCEPT ![n] = NewlyCreated(i)], Append(netlink, NewLink(i)), creation)
      PROVE  Environment
  <2> DEFINE k       == [kernel EXCEPT ![n] = NewlyCreated(i)]
             pending == Append(netlink, NewLink(i))
             first   == <<NewLink(i)>>
  <2>1. i \in Index
    BY DEF FreeIndex
  <2>2. NewlyCreated(i) \in Link
    BY <2>1 DEF NewlyCreated, Link
  <2>3. k \in [Name -> Link \cup {None}] /\ first \in Seq(Notice) /\ pending \in Seq(Notice)
        /\ pending = netlink \o first
    <3>1. k \in [Name -> Link \cup {None}]
      BY <2>2 DEF TypeOK
    <3>2. NewLink(i) \in Notice /\ netlink \in Seq(Notice)
      BY <2>1, NoticeType DEF TypeOK
    <3>3. QED
      BY <3>1, <3>2, Queuing
  <2>4. RefreshBegins
    BY <1>2, <2>3, RefreshCreates DEF RefreshBegins
  <2>5. PICK new \in Seq(Notice) : netlink' = pending \o new /\ Creates(k, new)
    BY <1>2, <2>3, RefreshCreates
  <2>6. netlink' = (netlink \o first) \o new
    BY <2>3, <2>5
  <2>7. \E m \in Name, j \in FreeIndex(kernel) :
          kernel[m] = None /\ k = [kernel EXCEPT ![m] = NewlyCreated(j)] /\ first = <<NewLink(j)>>
    BY <1>2
  <2> HIDE DEF k, first, pending
  <2>8. first \o new \in Seq(Notice) /\ Evolves(first \o new)
    BY <2>3, <2>5, <2>6, <2>7, RefreshEvolves
  <2>9. QED
    BY <2>4, <2>8 DEF Environment
<1>3. QED
  BY <1>1, <1>2

\* A client's requests for links.
LEMMA LinkRequestShape ==
  ASSUME TypeOK, NEW n \in Name,
         ForceRefresh \/ DelLink(n) \/ \E i \in Index : AddLink(n, i)
  PROVE  Environment
<1>1. config.creation \in SUBSET Name
  BY ManagerAssumption DEF TypeOK
<1>2. CASE ForceRefresh
  BY <1>1, <1>2, RefreshShape DEF ForceRefresh, Request
<1>3. CASE DelLink(n)
  <2> DEFINE i      == table.interfaces[n].id
             target == LinkAt(i)
             new    == DelLinkOf(i)
  <2>1. i \in Index
    BY <1>3, StoredType DEF DelLink, Info
  <2>2. target \in Logical /\ kernel' = [kernel EXCEPT ![target] = None] /\ netlink' = netlink \o new
    BY <1>3 DEF DelLink
  <2>3. target \in Name /\ kernel[target] # None /\ kernel[target].id = i
    BY <2>2, LinkAtOwns, ManagerAssumption, NoneAssumption DEF Owns
  <2>4. new \in Seq(Notice) /\ new # <<>>
    BY <2>1, NoticeType DEF DelLinkOf
  <2>5. \A a \in DOMAIN new : new[a].index = i /\ new[a].kind \in Deaths
    BY DEF DelLinkOf, Deaths
  <2> HIDE DEF new
  <2>6. Evolves(new)
    BY <2>2, <2>3, <2>4, <2>5, LeaveEvolves
  <2>7. Touched(new)
    BY <1>3 DEF DelLink, Touched
  <2>8. QED
    BY <2>4, <2>6, <2>7 DEF Environment
<1>4. ASSUME NEW i \in Index, AddLink(n, i)
      PROVE  Environment
  <2> DEFINE one == <<NewLink(i)>>
             two == <<NewLink(i)>> \o DelLinkOf(i)
  <2>1. kernel[n] = None /\ i \in FreeIndex(kernel) /\ pc = Idle /\ UNCHANGED <<mailbox, table, announced>>
    BY <1>4 DEF AddLink, Request
  <2>2. NewLink(i) \in Notice /\ one \in Seq(Notice) /\ DelLinkOf(i) \in Seq(Notice) /\ two \in Seq(Notice)
    <3>1. NewLink(i) \in Notice /\ DelLinkOf(i) \in Seq(Notice)
      BY NoticeType
    <3>2. QED
      BY <3>1, Queuing
  <2>3. CASE /\ config' = [config EXCEPT !.creation = @ \cup {n}]
             /\ BeginRefresh([kernel EXCEPT ![n] = NewlyCreated(i)],
                             Append(netlink, NewLink(i)), config'.creation)
    <3>1. config'.creation \in SUBSET Name
      BY <1>1, <2>3 DEF TypeOK
    <3>2. QED
      BY <2>1, <2>3, <3>1, RefreshShape
  <2>4. CASE /\ netlink' = Append(netlink, NewLink(i)) \o DelLinkOf(i)
             /\ UNCHANGED <<config, kernel, pc>>
    <3>1. netlink' = netlink \o two
      BY <2>2, <2>4, Queuing
    <3>2. Evolves(two)
      BY <2>1, <2>2, <2>4, <3>1, ComeEvolves
    <3>3. Touched(two)
      BY <2>1, <2>4 DEF Touched
    <3>4. QED
      BY <2>2, <3>2, <3>3 DEF Environment
  <2>5. CASE /\ kernel' = [kernel EXCEPT ![n] = NewlyCreated(i)]
             /\ netlink' = Append(netlink, NewLink(i))
             /\ UNCHANGED <<config, pc>>
    <3>1. netlink' = netlink \o one
      BY <2>2, <2>5, Queuing
    <3>2. NewlyCreated(i) \in Link /\ NewlyCreated(i).id = i
      BY DEF NewlyCreated, Link
    <3>3. Evolves(one)
      BY <2>1, <2>2, <2>5, <3>1, <3>2, ComeEvolves
    <3>4. Touched(one)
      BY <2>1, <2>5 DEF Touched
    <3>5. QED
      BY <2>2, <3>3, <3>4 DEF Environment
  <2>6. QED
    BY <1>4, <2>3, <2>4, <2>5 DEF AddLink
<1>5. QED
  BY <1>2, <1>3, <1>4

\* The links are what they were when one of them is switched.
LEMMA SwitchFields ==
  ASSUME NEW link \in Link, NEW oper \in {"Up", "Disabled"}
  PROVE  SwitchTo(link, oper) \in Link /\ SwitchTo(link, oper).id = link.id
<1>1. [link EXCEPT !.oper = oper] \in Link /\ [link EXCEPT !.oper = oper].id = link.id
  BY DEF Link
<1>2. QED
  BY <1>1 DEF SwitchTo

\* A client's change of a link.
LEMMA ModLinkShape ==
  ASSUME TypeOK, FiledInv, NEW n \in Name, NEW mod \in Modification,
         NEW oper \in {None, "Up", "Disabled"}, NEW slaac \in BOOLEAN,
         NEW dhcpv4 \in {None, TRUE, FALSE}, ModLink(n, mod, oper, slaac, dhcpv4)
  PROVE  Environment
<1> DEFINE info == table.interfaces[n]
<1>1. info # None /\ info \in Info /\ info.id \in Index /\ info.addrs \in SUBSET Addr
  BY StoredType DEF ModLink, Info
<1>2. PICK r \in AddressOutcomes(info.id, Deleted(mod, info.addrs), Added(mod)), flagged \in BOOLEAN :
        LET switch  == r.ok /\ oper # None /\ kernel[n] # None
            through == r.ok /\ (oper = None \/ kernel[n] # None)
            set     == through /\ (slaac => flagged) /\ dhcpv4 # None
            after   == IF set THEN [info EXCEPT !.dhcpv4 = dhcpv4] ELSE info
            addrs   == WithAddrs(kernel, info.id, r.addrs)
        IN /\ kernel' = IF switch THEN [addrs EXCEPT ![n] = SwitchTo(@, oper)] ELSE addrs
           /\ netlink' = netlink \o AddressNotices(info.id, r.addrs)
                           \o (IF switch THEN <<NewLink(kernel[n].id)>> ELSE <<>>)
           /\ table' = IF flagged \/ after # info THEN Insert(table, after) ELSE table
           /\ \/ after # info /\ Broadcast(after)
              \/ after = info /\ UNCHANGED announced
                   /\ untold' \in IF flagged THEN {untold \ {n}, untold \cup {n}} ELSE {untold}
           /\ \/ set /\ config' = [config EXCEPT !.dhcpv4[n] = dhcpv4]
              \/ UNCHANGED config
  BY DEF ModLink
<1> DEFINE switch == r.ok /\ oper # None /\ kernel[n] # None
           set    == (r.ok /\ (oper = None \/ kernel[n] # None)) /\ (slaac => flagged) /\ dhcpv4 # None
           after  == IF set THEN [info EXCEPT !.dhcpv4 = dhcpv4] ELSE info
           addrs  == WithAddrs(kernel, info.id, r.addrs)
           first  == AddressNotices(info.id, r.addrs)
           second == IF switch THEN <<NewLink(kernel[n].id)>> ELSE <<>>
           new    == first \o second
<1>3. r.addrs \in SUBSET Addr
  BY <1>1, ModificationType, AddressOutcomesType
<1>4. first \in Seq(Notice) /\ second \in Seq(Notice)
  <2>1. switch => kernel[n].id \in Index
    BY DEF TypeOK, Link
  <2>2. switch => NewLink(kernel[n].id) \in Notice
    BY <2>1, NoticeType
  <2>3. first \in Seq(Notice)
    BY <1>1, NoticeType
  <2>4. QED
    BY <2>2, <2>3
<1>5. new \in Seq(Notice) /\ netlink' = netlink \o new
  <2>1. netlink' = (netlink \o first) \o second
    BY <1>2
  <2> HIDE DEF first, second
  <2>2. QED
    BY <1>4, <2>1, Queuing
<1>6. \A m \in Name : /\ kernel'[m] # None <=> kernel[m] # None
                      /\ kernel[m] # None => kernel'[m].id = kernel[m].id
                      /\ kernel'[m] # kernel[m] =>
                           (switch /\ m = n) \/ (m = LinkAt(info.id) /\ kernel[m].addrs # r.addrs)
  <2> SUFFICES ASSUME NEW m \in Name
               PROVE  /\ kernel'[m] # None <=> kernel[m] # None
                      /\ kernel[m] # None => kernel'[m].id = kernel[m].id
                      /\ kernel'[m] # kernel[m] =>
                           (switch /\ m = n) \/ (m = LinkAt(info.id) /\ kernel[m].addrs # r.addrs)
    OBVIOUS
  <2>1. /\ addrs[m] # None <=> kernel[m] # None
        /\ kernel[m] # None => addrs[m].id = kernel[m].id /\ addrs[m] \in Link
        /\ addrs[m] # kernel[m] => m = LinkAt(info.id) /\ kernel[m].addrs # r.addrs
    BY <1>3, WithAddrsFields
  <2>2. DOMAIN addrs = Name
    BY DEF WithAddrs
  <2> HIDE DEF addrs
  <2>3. CASE switch /\ m = n
    <3>1. kernel'[m] = SwitchTo(addrs[m], oper)
      BY <1>2, <2>2, <2>3 DEF addrs
    <3>2. addrs[m] \in Link /\ oper \in {"Up", "Disabled"}
      BY <2>1, <2>3
    <3>3. SwitchTo(addrs[m], oper) \in Link /\ SwitchTo(addrs[m], oper).id = addrs[m].id
      BY <3>2, SwitchFields
    <3>4. QED
      BY <2>1, <2>3, <3>1, <3>3, NoneIsNoRecord
  <2>4. CASE ~(switch /\ m = n)
    <3>1. kernel'[m] = addrs[m]
      BY <1>2, <2>2, <2>4 DEF addrs
    <3>2. QED
      BY <2>1, <3>1
  <2>5. QED
    BY <2>3, <2>4
<1>7. /\ switch => \E a \in DOMAIN new : new[a] = NewLink(kernel[n].id)
      /\ LinkAt(info.id) # None /\ kernel[LinkAt(info.id)].addrs # r.addrs =>
           \E a \in DOMAIN new : new[a] = AddressNotice(info.id)
      /\ \A a \in DOMAIN new : \/ switch /\ new[a] = NewLink(kernel[n].id)
                               \/ LinkAt(info.id) # None /\ new[a] = AddressNotice(info.id)
  <2>1. /\ \A a \in DOMAIN first : a \in DOMAIN new /\ new[a] = first[a]
        /\ \A a \in DOMAIN second : Len(first) + a \in DOMAIN new /\ new[Len(first) + a] = second[a]
        /\ \A b \in DOMAIN new : \/ b \in DOMAIN first /\ new[b] = first[b]
                                 \/ b - Len(first) \in DOMAIN second /\ new[b] = second[b - Len(first)]
    <3> HIDE DEF first, second
    <3>1. QED
      BY <1>4
  <2>2. /\ switch => 1 \in DOMAIN second /\ second[1] = NewLink(kernel[n].id)
        /\ \A a \in DOMAIN second : switch /\ second[a] = NewLink(kernel[n].id)
    OBVIOUS
  <2>3. /\ LinkAt(info.id) # None /\ kernel[LinkAt(info.id)].addrs # r.addrs =>
             1 \in DOMAIN first /\ first[1] = AddressNotice(info.id)
        /\ \A a \in DOMAIN first : LinkAt(info.id) # None /\ first[a] = AddressNotice(info.id)
    BY DEF AddressNotices
  <2> HIDE DEF first, second, new
  <2>4. QED
    BY <2>1, <2>2, <2>3
<1>8. Evolves(new)
  <2>1. \A i : NewLink(i).index = i /\ NewLink(i).kind \in News
               /\ AddressNotice(i).index = i /\ AddressNotice(i).kind \in News
    BY DEF NewLink, AddressNotice, News
  <2>2. LinkAt(info.id) # None =>
          LinkAt(info.id) \in Name /\ kernel[LinkAt(info.id)] # None /\ kernel[LinkAt(info.id)].id = info.id
    BY LinkAtOwns DEF Owns
  <2> HIDE DEF new
  <2>3. \A m \in Name : kernel'[m] # kernel[m] => \E a \in DOMAIN new : new[a].index = kernel'[m].id
    <3> SUFFICES ASSUME NEW m \in Name, kernel'[m] # kernel[m]
                 PROVE  \E a \in DOMAIN new : new[a].index = kernel'[m].id
      OBVIOUS
    <3>1. CASE switch /\ m = n
      <4>1. kernel'[m].id = kernel[n].id
        BY <1>6, <3>1
      <4>2. QED
        BY <1>7, <2>1, <3>1, <4>1
    <3>2. CASE m = LinkAt(info.id) /\ kernel[m].addrs # r.addrs
      <4>1. LinkAt(info.id) # None /\ kernel[LinkAt(info.id)].addrs # r.addrs
        BY <3>2, NoneAssumption
      <4>2. kernel'[m].id = info.id
        BY <1>6, <2>2, <3>2, <4>1
      <4>3. QED
        BY <1>7, <2>1, <4>1, <4>2
    <3>3. QED
      BY <1>6, <3>1, <3>2
  <2>4. \A a \in DOMAIN new : new[a].kind \in News
                              /\ \E m \in Name : kernel[m] # None /\ kernel[m].id = new[a].index
    BY <1>7, <2>1, <2>2
  <2>5. QED
    BY <1>5, <1>6, <2>3, <2>4, ChangeEvolves
<1>9. Touched(new)
  <2>1. UNCHANGED <<mailbox, pc>>
    BY DEF ModLink
  <2>2. after \in Info /\ SameLink(after, n) /\ after.name = n
    BY <1>1 DEF Info, SameLink, FiledInv, Proper
  <2>3. \/ table' = Insert(table, after) /\ (announced' = [announced EXCEPT ![n] = after]
                                             \/ (UNCHANGED announced /\ after = info))
        \/ UNCHANGED <<table, announced>>
    BY <1>2, <2>2 DEF Broadcast
  <2> HIDE DEF after, new
  <2>4. QED
    BY <2>1, <2>2, <2>3 DEF Touched, Touches
<1>10. QED
  BY <1>5, <1>8, <1>9 DEF Environment

\* A lease changes, or a state is set.
LEMMA LeaseShape ==
  ASSUME TypeOK, FiledInv, NEW n \in Name, NEW old \in Lease \cup {None}, NEW new \in Lease \cup {None},
         DhcpV4Set(n, old, new)
  PROVE  Environment
<1> DEFINE info     == table.interfaces[n]
           rerouted == Router(old) # Router(new)
           after    == [info EXCEPT !.gateway = GatewayAfter(info, old, new)]
<1>1. UNCHANGED <<mailbox, pc>>
  BY DEF DhcpV4Set
<1>2. CASE info = None
  <2>1. UNCHANGED <<kernel, netlink, table, announced>>
    BY <1>2 DEF DhcpV4Set
  <2>2. QED
    BY <1>1, <2>1, StaysEvolves DEF Environment, Touched
<1>3. CASE info # None
  <2>1. info \in Info /\ info.id \in Index /\ info.gateway \in Gateway \cup {None}
    BY <1>3, StoredType DEF Info
  <2>2. after \in Info /\ SameLink(after, n) /\ after.name = n /\ after.id = info.id
    <3>1. GatewayAfter(info, old, new) \in Gateway \cup {None}
      BY <2>1, LeaseType DEF GatewayAfter
    <3>2. QED
      BY <1>3, <2>1, <3>1 DEF Info, SameLink, FiledInv, Proper
  <2>3. /\ table' = IF rerouted THEN Insert(table, after) ELSE table
        /\ IF Address(old) # Address(new)
           THEN /\ \E r \in AddressOutcomes(info.id, Address(old), Address(new)) :
                     /\ kernel' = WithAddrs(kernel, info.id, r.addrs)
                     /\ netlink' = netlink \o AddressNotices(info.id, r.addrs)
                     /\ alive' = r.ok
                /\ UNCHANGED announced
           ELSE /\ IF rerouted THEN Broadcast(after) ELSE UNCHANGED announced
                /\ UNCHANGED <<kernel, netlink, alive>>
    BY <1>3 DEF DhcpV4Set
  <2>4. Broadcast(after) => announced' = [announced EXCEPT ![n] = after]
    BY <2>2 DEF Broadcast
  <2> HIDE DEF after
  <2>5. CASE Address(old) = Address(new)
    <3>1. Touched(<<>>)
      BY <1>1, <2>2, <2>3, <2>4, <2>5 DEF Touched, Touches
    <3>2. QED
      BY <2>3, <2>5, <3>1, StaysEvolves DEF Environment
  <2>6. CASE Address(old) # Address(new)
    <3>1. PICK r \in AddressOutcomes(info.id, Address(old), Address(new)) :
            /\ kernel' = WithAddrs(kernel, info.id, r.addrs)
            /\ netlink' = netlink \o AddressNotices(info.id, r.addrs)
            /\ alive' = r.ok
      BY <2>3, <2>6
    <3> DEFINE queued == AddressNotices(info.id, r.addrs)
    <3>2. Address(old) \in SUBSET Addr /\ Address(new) \in SUBSET Addr
      BY LeaseType
    <3>3. r.addrs \in SUBSET Addr
      BY <3>2, AddressOutcomesType
    <3>4. Evolves(queued) /\ queued \in Seq(Notice)
      BY <2>1, <3>1, <3>3, AddressesEvolve
    <3>5. ASSUME alive'
          PROVE  /\ \E a \in DOMAIN queued : queued[a].index = info.id /\ queued[a].kind = "Address"
                 /\ \E m \in Name : kernel'[m] # None /\ kernel'[m].id = info.id
      <4>1. r.ok
        BY <3>1, <3>5
      <4>2. LinkAt(info.id) # None /\ kernel[LinkAt(info.id)].addrs # r.addrs
        BY <2>6, <3>2, <4>1, ChangedAddresses
      <4>3. queued = <<AddressNotice(info.id)>>
        BY <4>2 DEF AddressNotices
      <4>4. 1 \in DOMAIN queued /\ queued[1].index = info.id /\ queued[1].kind = "Address"
        BY <4>3 DEF AddressNotice
      <4>5. LinkAt(info.id) \in Name /\ kernel'[LinkAt(info.id)] # None /\ kernel'[LinkAt(info.id)].id = info.id
        BY <3>1, <3>3, <4>2, LinkAtOwns, WithAddrsFields DEF Owns
      <4>6. QED
        BY <4>4, <4>5
    <3> HIDE DEF queued
    <3>6. Touched(queued)
      <4>1. CASE rerouted
        <5>1. table' = Insert(table, after) /\ UNCHANGED announced
          BY <2>3, <2>6, <4>1
        <5>2. Touches(queued, after, n)
          BY <2>2, <3>5, <5>1 DEF Touches
        <5>3. QED
          BY <1>1, <2>2, <5>2 DEF Touched
      <4>2. CASE ~rerouted
        BY <1>1, <2>3, <2>6, <4>2 DEF Touched
      <4>3. QED
        BY <4>1, <4>2
    <3>7. QED
      BY <3>4, <3>6 DEF Environment
  <2>7. QED
    BY <2>5, <2>6
<1>4. QED
  BY <1>2, <1>3

\* A state that a client or the Wi-Fi service sets is told to the subscribers at once.
LEMMA StateShape ==
  ASSUME TypeOK, FiledInv, NEW n \in Name,
         \/ MarkAsUnManaged(n)
         \/ n \in Wlans /\ \E state \in ExternalState : UpdateExternalInterfaceState(n, state)
  PROVE  Environment
<1>1. UNCHANGED <<kernel, netlink, mailbox, pc>>
  BY DEF MarkAsUnManaged, UpdateExternalInterfaceState
<1>2. ASSUME NEW state \in State, table.interfaces[n] # None, SetState(n, state),
             state = "Unmanaged" \/ n \in Wlans
      PROVE  Touched(<<>>)
  <2> DEFINE info == [table.interfaces[n] EXCEPT !.state = state]
  <2>1. info \in Info /\ SameLink(info, n) /\ info.name = n
    BY <1>2, StoredType DEF Info, SameLink, FiledInv, Proper
  <2>2. table' = Update(table, info) /\ announced' = [announced EXCEPT ![n] = info]
    BY <1>2, <2>1 DEF SetState, Broadcast
  <2> HIDE DEF info
  <2>3. QED
    BY <1>1, <2>1, <2>2 DEF Touched, Touches
<1>3. "Unmanaged" \in State /\ ExternalState \subseteq State
  BY ManagerAssumption DEF ConnectionState, ExternalState
<1>4. Touched(<<>>)
  <2>1. CASE MarkAsUnManaged(n)
    BY <1>2, <1>3, <2>1 DEF MarkAsUnManaged
  <2>2. ASSUME n \in Wlans, NEW state \in ExternalState, UpdateExternalInterfaceState(n, state)
        PROVE  Touched(<<>>)
    <3>1. CASE table.interfaces[n] # None
      BY <1>2, <1>3, <2>2, <3>1 DEF UpdateExternalInterfaceState
    <3>2. CASE table.interfaces[n] = None
      BY <1>1, <2>2, <3>2 DEF UpdateExternalInterfaceState, Touched
    <3>3. QED
      BY <3>1, <3>2
  <2>3. QED
    BY <2>1, <2>2
<1>5. QED
  BY <1>1, <1>4, StaysEvolves DEF Environment

\* Every step is of one of six kinds.
LEMMA NextShapes ==
  ASSUME TypeOK, FiledInv, [Next]_vars
  PROVE  Environment \/ Forward \/ HandleNetlink \/ Tell \/ HandleUpdate \/ Install
<1>1. CASE KernelChange
  BY <1>1, KernelChangeShape
<1>2. CASE ClientRequest
  <2>1. CASE ForceRefresh
    <3>1. config.creation \in SUBSET Name
      BY ManagerAssumption DEF TypeOK
    <3>2. QED
      BY <2>1, <3>1, RefreshShape DEF ForceRefresh, Request
  <2>2. ASSUME NEW n \in Name, NEW i \in Index, AddLink(n, i)
        PROVE  Environment
    BY <2>2, LinkRequestShape
  <2>3. ASSUME NEW n \in Name, DelLink(n)
        PROVE  Environment
    BY <2>3, LinkRequestShape
  <2>4. ASSUME NEW n \in Name, NEW mod \in Modification, NEW oper \in {None, "Up", "Disabled"},
               NEW slaac \in BOOLEAN,
               NEW dhcpv4 \in {None, TRUE, FALSE}, ModLink(n, mod, oper, slaac, dhcpv4)
        PROVE  Environment
    BY <2>4, ModLinkShape
  <2>5. ASSUME NEW n \in Name, MarkAsUnManaged(n)
        PROVE  Environment
    BY <2>5, StateShape
  <2>6. QED
    BY <1>2, <2>1, <2>2, <2>3, <2>4, <2>5 DEF ClientRequest
<1>3. CASE ManagerRequest
  <2>1. Wlans \subseteq Name
    BY DEF Wlans
  <2>2. QED
    BY <1>3, <2>1, LeaseShape, StateShape DEF ManagerRequest
<1>4. CASE HandleForceRefresh
  <2>1. config.creation \in SUBSET Name
    BY ManagerAssumption DEF TypeOK
  <2>2. QED
    BY <1>4, <2>1, RefreshShape DEF HandleForceRefresh, Take
<1>5. CASE UNCHANGED vars
  BY <1>5, StaysEvolves DEF vars, Environment, Touched
<1>6. QED
  BY <1>1, <1>2, <1>3, <1>4, <1>5 DEF Next, Handle

-------------------------------------------------------------------------------
(***************************************************************************)
(* What each kind of step does to the queue.                               *)
(***************************************************************************)
\* What the queue holds at each place.
LEMMA QueueFields ==
  ASSUME TypeOK
  PROVE  /\ mailbox \in Seq(Message) /\ Len(mailbox) \in Nat /\ DOMAIN mailbox = 1..Len(mailbox)
         /\ netlink \in Seq(Notice) /\ Len(netlink) \in Nat /\ DOMAIN netlink = 1..Len(netlink)
         /\ DOMAIN Queue = 1..(Len(mailbox) + Len(netlink))
         /\ \A p \in DOMAIN Queue : Queue[p] = IF p <= Len(mailbox) THEN mailbox[p]
              ELSE [type |-> "Netlink", notice |-> netlink[p - Len(mailbox)]]
  BY DEF TypeOK, Queue

\* The kernel queues notices, and the actor may take a message at the same time.
LEMMA QueueGrows ==
  ASSUME TypeOK, TypeOK', NEW new \in Seq(Notice), netlink' = netlink \o new,
         NEW d \in {0, 1},
         \/ d = 0 /\ mailbox' = mailbox
         \/ d = 1 /\ mailbox # <<>> /\ mailbox' = Tail(mailbox)
  PROVE  /\ \A p \in DOMAIN Queue : p > d => p - d \in DOMAIN Queue' /\ Queue'[p - d] = Queue[p]
         /\ \A a \in DOMAIN new : LET p == Len(mailbox) + Len(netlink) - d + a
                                  IN p \in DOMAIN Queue' /\ Queue'[p] = [type |-> "Netlink", notice |-> new[a]]
         /\ \A p \in DOMAIN Queue' :
              \/ p + d \in DOMAIN Queue /\ Queue'[p] = Queue[p + d]
              \/ \E a \in DOMAIN new : /\ p = Len(mailbox) + Len(netlink) - d + a
                                       /\ Queue'[p] = [type |-> "Netlink", notice |-> new[a]]
<1> DEFINE M == Len(mailbox)
           L == Len(netlink)
           W == Len(new)
<1>1. /\ M \in Nat /\ L \in Nat /\ W \in Nat /\ DOMAIN new = 1..W
      /\ DOMAIN Queue = 1..(M + L)
      /\ \A p \in 1..(M + L) : Queue[p] = IF p <= M THEN mailbox[p]
           ELSE [type |-> "Netlink", notice |-> netlink[p - M]]
  BY QueueFields
<1>2. DOMAIN Queue' = 1..(Len(mailbox') + Len(netlink'))
  BY QueueFields, TypeOK' DEF Queue
<1>3. \A p \in DOMAIN Queue' : Queue'[p] = IF p <= Len(mailbox') THEN mailbox'[p]
           ELSE [type |-> "Netlink", notice |-> netlink'[p - Len(mailbox')]]
  BY DEF Queue
<1>4. /\ Len(netlink') = L + W
      /\ \A p \in 1..L : netlink'[p] = netlink[p]
      /\ \A a \in 1..W : netlink'[L + a] = new[a]
  BY QueueFields
<1>5. Len(mailbox') = M - d /\ M >= d /\ \A p \in 1..(M - d) : mailbox'[p] = mailbox[p + d]
  <2>1. CASE d = 0 /\ mailbox' = mailbox
    BY <2>1, QueueFields
  <2>2. CASE d = 1 /\ mailbox # <<>> /\ mailbox' = Tail(mailbox)
    <3>1. /\ Len(Tail(mailbox)) = Len(mailbox) - 1 /\ Len(mailbox) >= 1
          /\ \A p \in 1..(Len(mailbox) - 1) : Tail(mailbox)[p] = mailbox[p + 1]
      BY <2>2, QueueFields
    <3>2. QED
      BY <2>2, <3>1
  <2>3. QED
    BY <2>1, <2>2
<1> HIDE DEF M, L, W
<1>6. DOMAIN Queue' = 1..(M + L + W - d)
  BY <1>1, <1>2, <1>4, <1>5
<1>7. \A p \in DOMAIN Queue : p > d => p - d \in DOMAIN Queue' /\ Queue'[p - d] = Queue[p]
  <2> SUFFICES ASSUME NEW p \in DOMAIN Queue, p > d
               PROVE  p - d \in DOMAIN Queue' /\ Queue'[p - d] = Queue[p]
    OBVIOUS
  <2>1. p \in 1..(M + L) /\ p - d \in 1..(M + L + W - d)
    BY <1>1
  <2>2. p - d \in DOMAIN Queue'
    BY <2>1, <1>6
  <2>3. CASE p <= M
    <3>1. p - d \in 1..(M - d) /\ p - d <= M - d /\ (p - d) + d = p
      BY <1>1, <1>5, <2>1, <2>3
    <3>2. mailbox'[p - d] = mailbox[p]
      BY <1>5, <3>1
    <3>3. QED
      BY <1>1, <1>3, <1>5, <2>1, <2>2, <2>3, <3>1, <3>2
  <2>4. CASE p > M
    <3>1. p - M \in 1..L /\ ~(p - d <= M - d) /\ (p - d) - (M - d) = p - M
      <4>1. p \in Nat /\ M \in Nat /\ L \in Nat /\ d \in Nat /\ p <= M + L /\ p > M
        BY <1>1, <2>1, <2>4
      <4>2. QED
        BY ONLY <4>1
    <3>2. Queue'[p - d] = [type |-> "Netlink", notice |-> netlink'[p - M]]
      BY <1>3, <1>5, <2>2, <3>1
    <3>3. netlink'[p - M] = netlink[p - M]
      BY <1>4, <3>1
    <3>4. QED
      BY <1>1, <2>1, <2>2, <2>4, <3>2, <3>3
  <2>5. QED
    BY <2>1, <2>3, <2>4, <1>1
<1>8. \A a \in DOMAIN new : M + L - d + a \in DOMAIN Queue'
                            /\ Queue'[M + L - d + a] = [type |-> "Netlink", notice |-> new[a]]
  <2> SUFFICES ASSUME NEW a \in 1..W
               PROVE  M + L - d + a \in DOMAIN Queue'
                      /\ Queue'[M + L - d + a] = [type |-> "Netlink", notice |-> new[a]]
    BY <1>1
  <2>1. M + L - d + a \in 1..(M + L + W - d) /\ ~(M + L - d + a <= M - d)
        /\ (M + L - d + a) - (M - d) = L + a
    BY <1>1, <1>5
  <2>2. Queue'[M + L - d + a] = [type |-> "Netlink", notice |-> netlink'[L + a]]
    BY <1>3, <1>5, <1>6, <2>1
  <2>3. QED
    BY <1>4, <1>6, <2>1, <2>2
<1>9. ASSUME NEW p \in DOMAIN Queue'
      PROVE  \/ p + d \in DOMAIN Queue /\ Queue'[p] = Queue[p + d]
             \/ \E a \in DOMAIN new : /\ p = M + L - d + a
                                      /\ Queue'[p] = [type |-> "Netlink", notice |-> new[a]]
  <2>0. /\ M + L \in Int /\ p \in Int /\ p >= 1 /\ p <= M + L + W - d /\ W \in Nat
        /\ DOMAIN Queue = 1..(M + L)
    BY <1>1, <1>6
  <2>1. CASE p + d <= M + L
    <3>1. p + d \in 1..(M + L) /\ p + d > d /\ (p + d) - d = p
      BY <2>0, <2>1
    <3>2. p + d \in DOMAIN Queue
      BY <2>0, <3>1
    <3>3. QED
      BY <1>7, <3>1, <3>2
  <2>2. CASE p + d > M + L
    <3>1. p + d - (M + L) \in DOMAIN new /\ p = M + L - d + (p + d - (M + L))
      BY <1>1, <2>0, <2>2
    <3>2. QED
      BY <1>8, <3>1
  <2>3. QED
    BY <2>0, <2>1, <2>2, <1>1
<1>10. QED
  BY <1>7, <1>8, <1>9 DEF M, L

\* The stream task moves a notice within it.
LEMMA QueueForwarded ==
  ASSUME TypeOK, TypeOK', Forward
  PROVE  DOMAIN Queue' = DOMAIN Queue /\ \A p \in DOMAIN Queue : Queue'[p] = Queue[p]
<1> DEFINE M == Len(mailbox)
           L == Len(netlink)
<1>1. /\ M \in Nat /\ L \in Nat /\ L > 0
      /\ DOMAIN Queue = 1..(M + L)
      /\ \A p \in 1..(M + L) : Queue[p] = IF p <= M THEN mailbox[p]
           ELSE [type |-> "Netlink", notice |-> netlink[p - M]]
  BY QueueFields DEF Forward
<1>2. /\ DOMAIN Queue' = 1..(Len(mailbox') + Len(netlink'))
      /\ \A p \in DOMAIN Queue' : Queue'[p] = IF p <= Len(mailbox') THEN mailbox'[p]
           ELSE [type |-> "Netlink", notice |-> netlink'[p - Len(mailbox')]]
  BY DEF Queue
<1>3. /\ Len(mailbox') = M + 1 /\ \A p \in 1..M : mailbox'[p] = mailbox[p]
      /\ mailbox'[M + 1] = [type |-> "Netlink", notice |-> netlink[1]]
  BY QueueFields DEF Forward
<1>4. Len(netlink') = L - 1 /\ \A p \in 1..(L - 1) : netlink'[p] = netlink[p + 1]
  BY QueueFields DEF Forward
<1> HIDE DEF M, L
<1>5. DOMAIN Queue' = 1..(M + L)
  BY <1>1, <1>2, <1>3, <1>4
<1>6. ASSUME NEW p \in 1..(M + L)
      PROVE  Queue'[p] = Queue[p]
  <2>1. CASE p <= M
    BY <1>1, <1>2, <1>3, <1>5, <2>1
  <2>2. CASE p = M + 1
    <3>1. p - M = 1 /\ ~(p <= M)
      BY <1>1, <2>2
    <3>2. QED
      BY <1>1, <1>2, <1>3, <1>5, <2>2, <3>1
  <2>3. CASE p > M + 1
    <3>1. p - (M + 1) \in 1..(L - 1) /\ (p - (M + 1)) + 1 = p - M /\ ~(p <= M + 1) /\ ~(p <= M)
      BY <1>1, <2>3
    <3>2. Queue'[p] = [type |-> "Netlink", notice |-> netlink'[p - (M + 1)]]
      BY <1>2, <1>3, <1>5, <3>1
    <3>3. netlink'[p - (M + 1)] = netlink[p - M]
      BY <1>4, <3>1
    <3>4. QED
      BY <1>1, <3>1, <3>2, <3>3
  <2>4. QED
    BY <2>1, <2>2, <2>3, <1>1
<1>7. QED
  BY <1>1, <1>5, <1>6

\* The actor queues an update before what is in the socket.
LEMMA QueueTold ==
  ASSUME TypeOK, TypeOK', Tell
  PROVE  /\ \A p \in DOMAIN Queue : LET q == IF p <= Len(mailbox) THEN p ELSE p + 1
                                    IN q \in DOMAIN Queue' /\ Queue'[q] = Queue[p]
         /\ \A q \in DOMAIN Queue' :
              \/ Queue'[q].type = "Update"
              \/ \E p \in DOMAIN Queue : /\ q = IF p <= Len(mailbox) THEN p ELSE p + 1
                                         /\ Queue'[q] = Queue[p]
<1> DEFINE M == Len(mailbox)
           L == Len(netlink)
<1>1. /\ M \in Nat /\ L \in Nat
      /\ DOMAIN Queue = 1..(M + L)
      /\ \A p \in 1..(M + L) : Queue[p] = IF p <= M THEN mailbox[p]
           ELSE [type |-> "Netlink", notice |-> netlink[p - M]]
  BY QueueFields
<1>2. /\ DOMAIN Queue' = 1..(Len(mailbox') + Len(netlink'))
      /\ \A p \in DOMAIN Queue' : Queue'[p] = IF p <= Len(mailbox') THEN mailbox'[p]
           ELSE [type |-> "Netlink", notice |-> netlink'[p - Len(mailbox')]]
  BY DEF Queue
<1>3. /\ Len(mailbox') = M + 1 /\ \A p \in 1..M : mailbox'[p] = mailbox[p]
      /\ mailbox'[M + 1].type = "Update" /\ netlink' = netlink
  BY QueueFields DEF Tell
<1> HIDE DEF M, L
<1>4. DOMAIN Queue' = 1..(M + L + 1)
  BY <1>1, <1>2, <1>3 DEF L
<1>5. ASSUME NEW p \in 1..(M + L)
      PROVE  LET q == IF p <= M THEN p ELSE p + 1 IN q \in DOMAIN Queue' /\ Queue'[q] = Queue[p]
  <2>1. CASE p <= M
    BY <1>1, <1>2, <1>3, <1>4, <2>1
  <2>2. CASE p > M
    <3>1. ~(p <= M) /\ ~(p + 1 <= M + 1) /\ (p + 1) - (M + 1) = p - M /\ p + 1 \in 1..(M + L + 1)
      BY <1>1, <2>2
    <3>2. Queue'[p + 1] = [type |-> "Netlink", notice |-> netlink[p - M]]
      BY <1>2, <1>3, <1>4, <3>1
    <3>3. QED
      BY <1>1, <1>4, <3>1, <3>2
  <2>3. QED
    BY <2>1, <2>2, <1>1
<1>6. ASSUME NEW q \in DOMAIN Queue'
      PROVE  \/ Queue'[q].type = "Update"
             \/ \E p \in DOMAIN Queue : q = (IF p <= M THEN p ELSE p + 1) /\ Queue'[q] = Queue[p]
  <2>0. q \in 1..(M + L + 1)
    BY <1>4
  <2>1. CASE q <= M
    <3>1. q \in 1..(M + L)
      BY <1>1, <2>0, <2>1
    <3>2. QED
      BY <1>1, <1>5, <2>1, <3>1
  <2>2. CASE q = M + 1
    BY <1>1, <1>2, <1>3, <2>2
  <2>3. CASE q > M + 1
    <3>1. q - 1 \in 1..(M + L) /\ ~(q - 1 <= M) /\ (q - 1) + 1 = q
      BY <1>1, <2>0, <2>3
    <3>2. Queue'[q] = Queue[q - 1]
      BY <1>5, <3>1
    <3>3. QED
      BY <1>1, <3>1, <3>2
  <2>4. QED
    BY <2>0, <2>1, <2>2, <2>3, <1>1
<1>7. QED
  BY <1>1, <1>5, <1>6 DEF M

\* A handler takes the first message.
LEMMA QueueTaken ==
  ASSUME TypeOK, TypeOK', NEW type, Take(type), UNCHANGED netlink
  PROVE  /\ 1 \in DOMAIN Queue /\ Queue[1] = mailbox[1] /\ mailbox[1].type = type
         /\ mailbox[1] \in Message /\ Head(mailbox) = mailbox[1]
         /\ \A p \in DOMAIN Queue : p > 1 => p - 1 \in DOMAIN Queue' /\ Queue'[p - 1] = Queue[p]
         /\ \A p \in DOMAIN Queue' : p + 1 \in DOMAIN Queue /\ Queue'[p] = Queue[p + 1]
<1>1. mailbox # <<>> /\ mailbox' = Tail(mailbox) /\ Head(mailbox).type = type
  BY DEF Take
<1>2. 1 <= Len(mailbox) /\ Head(mailbox) = mailbox[1] /\ mailbox[1] \in Message
  BY <1>1, QueueFields
<1>3. 1 \in DOMAIN Queue /\ Queue[1] = mailbox[1]
  BY <1>2, QueueFields
<1>4. netlink' = netlink \o <<>> /\ <<>> \in Seq(Notice)
  BY QueueFields
<1>5. /\ \A p \in DOMAIN Queue : p > 1 => p - 1 \in DOMAIN Queue' /\ Queue'[p - 1] = Queue[p]
      /\ \A p \in DOMAIN Queue' :
              \/ p + 1 \in DOMAIN Queue /\ Queue'[p] = Queue[p + 1]
              \/ \E a \in DOMAIN (<<>>) : /\ p = Len(mailbox) + Len(netlink) - 1 + a
                                          /\ Queue'[p] = [type |-> "Netlink", notice |-> (<<>>)[a]]
  BY <1>1, <1>4, QueueGrows
<1>6. DOMAIN (<<>>) = {}
  OBVIOUS
<1>7. QED
  BY <1>1, <1>2, <1>3, <1>5, <1>6

-------------------------------------------------------------------------------
(***************************************************************************)
(* What waits after each kind of step.                                     *)
(***************************************************************************)
\* The mailbox, when the environment takes a step, loses a ForceRefresh at most.
LEMMA EnvironmentMailbox ==
  ASSUME TypeOK, NEW new \in Seq(Notice), Touched(new) \/ RefreshBegins
  PROVE  \E d \in {0, 1} :
           /\ \/ d = 0 /\ mailbox' = mailbox
              \/ d = 1 /\ mailbox # <<>> /\ mailbox' = Tail(mailbox) /\ mailbox[1].type = "ForceRefresh"
           /\ \A j \in 1..Len(mailbox') : j + d \in 1..Len(mailbox) /\ mailbox'[j] = mailbox[j + d]
           /\ \A j \in 1..Len(mailbox) : j > d => j - d \in 1..Len(mailbox') /\ mailbox'[j - d] = mailbox[j]
<1>1. CASE mailbox' = mailbox
  <2>1. /\ \A j \in 1..Len(mailbox') : j + 0 \in 1..Len(mailbox) /\ mailbox'[j] = mailbox[j + 0]
        /\ \A j \in 1..Len(mailbox) : j > 0 => j - 0 \in 1..Len(mailbox') /\ mailbox'[j - 0] = mailbox[j]
    BY <1>1, QueueFields
  <2>2. QED
    BY <1>1, <2>1
<1>2. CASE mailbox # <<>> /\ Head(mailbox).type = "ForceRefresh" /\ mailbox' = Tail(mailbox)
  <2>1. /\ \A j \in 1..Len(Tail(mailbox)) : j + 1 \in 1..Len(mailbox) /\ Tail(mailbox)[j] = mailbox[j + 1]
        /\ \A j \in 1..Len(mailbox) : j > 1 => /\ j - 1 \in 1..Len(Tail(mailbox))
                                               /\ Tail(mailbox)[j - 1] = mailbox[j]
        /\ Head(mailbox) = mailbox[1]
    BY <1>2, QueueFields
  <2>2. QED
    BY <1>2, <2>1
<1>3. QED
  BY <1>1, <1>2 DEF Touched, RefreshBegins

\* A step of the environment adds its notices to the queue.
LEMMA WaitingAfterEnvironment ==
  ASSUME TypeOK, TypeOK', NEW new \in Seq(Notice), Evolves(new), Touched(new) \/ RefreshBegins,
         NEW kinds, NEW i
  PROVE  /\ Waiting(kinds, i) => Waiting(kinds, i)'
         /\ (\E a \in DOMAIN new : new[a].kind \in kinds /\ new[a].index = i) => Waiting(kinds, i)'
         /\ Waiting(kinds, i)' => \/ Waiting(kinds, i)
                                  \/ \E a \in DOMAIN new : new[a].kind \in kinds /\ new[a].index = i
<1>1. PICK d \in {0, 1} :
           \/ d = 0 /\ mailbox' = mailbox
           \/ d = 1 /\ mailbox # <<>> /\ mailbox' = Tail(mailbox) /\ mailbox[1].type = "ForceRefresh"
  BY EnvironmentMailbox
<1>2. /\ \A p \in DOMAIN Queue : p > d => p - d \in DOMAIN Queue' /\ Queue'[p - d] = Queue[p]
      /\ \A a \in DOMAIN new : LET p == Len(mailbox) + Len(netlink) - d + a
                               IN p \in DOMAIN Queue' /\ Queue'[p] = [type |-> "Netlink", notice |-> new[a]]
      /\ \A p \in DOMAIN Queue' :
           \/ p + d \in DOMAIN Queue /\ Queue'[p] = Queue[p + d]
           \/ \E a \in DOMAIN new : /\ p = Len(mailbox) + Len(netlink) - d + a
                                    /\ Queue'[p] = [type |-> "Netlink", notice |-> new[a]]
  BY <1>1, QueueGrows DEF Evolves
<1>3. \A p \in DOMAIN Queue : Tells(Queue[p], kinds, i) => p > d
  <2> SUFFICES ASSUME NEW p \in DOMAIN Queue, Tells(Queue[p], kinds, i), ~(p > d) PROVE FALSE
    OBVIOUS
  <2>1. p \in Nat /\ p >= 1 /\ d = 1 /\ p = 1
    BY QueueFields
  <2>2. Queue[1] = mailbox[1]
    BY <1>1, <2>1, QueueFields
  <2>3. QED
    BY <1>1, <2>1, <2>2 DEF Tells
<1>4. Waiting(kinds, i) => Waiting(kinds, i)'
  <2> SUFFICES ASSUME NEW p \in DOMAIN Queue, Tells(Queue[p], kinds, i) PROVE Waiting(kinds, i)'
    BY DEF Waiting
  <2>1. p - d \in DOMAIN Queue' /\ Queue'[p - d] = Queue[p]
    BY <1>2, <1>3
  <2>2. QED
    BY <2>1 DEF Waiting, Tells
<1>5. (\E a \in DOMAIN new : new[a].kind \in kinds /\ new[a].index = i) => Waiting(kinds, i)'
  <2> SUFFICES ASSUME NEW a \in DOMAIN new, new[a].kind \in kinds, new[a].index = i
               PROVE  Waiting(kinds, i)'
    OBVIOUS
  <2> DEFINE p == Len(mailbox) + Len(netlink) - d + a
  <2>1. p \in DOMAIN Queue' /\ Queue'[p] = [type |-> "Netlink", notice |-> new[a]]
    BY <1>2
  <2> HIDE DEF p
  <2>2. QED
    BY <2>1 DEF Waiting, Tells
<1>6. Waiting(kinds, i)' => \/ Waiting(kinds, i)
                            \/ \E a \in DOMAIN new : new[a].kind \in kinds /\ new[a].index = i
  <2> SUFFICES ASSUME NEW p \in DOMAIN Queue', Tells(Queue'[p], kinds, i)
               PROVE  \/ Waiting(kinds, i)
                      \/ \E a \in DOMAIN new : new[a].kind \in kinds /\ new[a].index = i
    BY DEF Waiting, Tells
  <2>1. CASE p + d \in DOMAIN Queue /\ Queue'[p] = Queue[p + d]
    BY <2>1 DEF Waiting
  <2>2. CASE \E a \in DOMAIN new : Queue'[p] = [type |-> "Netlink", notice |-> new[a]]
    BY <2>2 DEF Tells
  <2>3. QED
    BY <1>2, <2>1, <2>2
<1>7. QED
  BY <1>4, <1>5, <1>6

\* Moving a message on does not change what waits, taking one takes that one.
LEMMA WaitingAfterMove ==
  ASSUME TypeOK, TypeOK', Forward \/ Tell, NEW kinds, NEW i
  PROVE  Waiting(kinds, i)' <=> Waiting(kinds, i)
<1>1. CASE Forward
  BY <1>1, QueueForwarded DEF Waiting, Tells
<1>2. CASE Tell
  <2>1. ASSUME Waiting(kinds, i) PROVE Waiting(kinds, i)'
    <3>1. PICK p \in DOMAIN Queue : Tells(Queue[p], kinds, i)
      BY <2>1 DEF Waiting
    <3>2. PICK q \in DOMAIN Queue' : Queue'[q] = Queue[p]
      BY <1>2, QueueTold
    <3>3. QED
      BY <3>1, <3>2 DEF Waiting, Tells
  <2>2. ASSUME Waiting(kinds, i)' PROVE Waiting(kinds, i)
    <3>1. PICK q \in DOMAIN Queue' : Tells(Queue'[q], kinds, i)
      BY <2>2 DEF Waiting, Tells
    <3>2. Queue'[q].type # "Update"
      BY <3>1 DEF Tells
    <3>3. QED
      BY <1>2, <3>1, <3>2, QueueTold DEF Waiting
  <2>3. QED
    BY <2>1, <2>2
<1>3. QED
  BY <1>1, <1>2

\* Only the notice that is handled waits no longer.
LEMMA WaitingAfterTake ==
  ASSUME TypeOK, TypeOK', HandleNetlink \/ HandleUpdate, NEW kinds, NEW i
  PROVE  /\ Waiting(kinds, i)' => Waiting(kinds, i)
         /\ Waiting(kinds, i) => Waiting(kinds, i)' \/ (HandleNetlink /\ Tells(mailbox[1], kinds, i))
<1>1. PICK type \in {"Netlink", "Update"} :
        Take(type) /\ UNCHANGED netlink /\ (type = "Netlink" => HandleNetlink)
  BY DEF HandleNetlink, HandleUpdate
<1>2. /\ 1 \in DOMAIN Queue /\ Queue[1] = mailbox[1] /\ mailbox[1].type = type
      /\ \A p \in DOMAIN Queue : p > 1 => p - 1 \in DOMAIN Queue' /\ Queue'[p - 1] = Queue[p]
      /\ \A p \in DOMAIN Queue' : p + 1 \in DOMAIN Queue /\ Queue'[p] = Queue[p + 1]
  BY <1>1, QueueTaken
<1>3. Waiting(kinds, i)' => Waiting(kinds, i)
  BY <1>2 DEF Waiting, Tells
<1>4. ASSUME Waiting(kinds, i)
      PROVE  Waiting(kinds, i)' \/ (HandleNetlink /\ Tells(mailbox[1], kinds, i))
  <2>1. PICK p \in DOMAIN Queue : Tells(Queue[p], kinds, i)
    BY <1>4 DEF Waiting
  <2>2. CASE p = 1
    BY <1>1, <1>2, <2>1, <2>2 DEF Tells
  <2>3. CASE p # 1
    <3>1. p > 1
      BY <2>3, QueueFields
    <3>2. p - 1 \in DOMAIN Queue' /\ Queue'[p - 1] = Queue[p]
      BY <1>2, <3>1
    <3>3. QED
      BY <2>1, <3>2 DEF Waiting, Tells
  <2>4. QED
    BY <2>2, <2>3
<1>5. QED
  BY <1>3, <1>4

\* A refresh that installs its dump takes no notice.
LEMMA WaitingAfterInstall ==
  ASSUME TypeOK, Install, NEW kinds, NEW i
  PROVE  Waiting(kinds, i)' <=> Waiting(kinds, i)
  BY DEF Install, Waiting, Tells, Queue

\* The kernel gives no index away that is still in use.
LEMMA FreshIndex ==
  ASSUME TypeOK, ~PromptReuse, NEW i \in FreeIndex(kernel)
  PROVE  /\ \A n \in Name : ~KnownAs(i, n) /\ ~Owns(i, n)
         /\ \A kinds : ~Waiting(kinds, i)
<1>1. i \notin Mentioned /\ i \notin {kernel[n].id : n \in Present(kernel)}
  BY DEF FreeIndex
<1>2. ASSUME NEW n \in Name
      PROVE  ~KnownAs(i, n) /\ ~Owns(i, n)
  <2>1. ~Owns(i, n)
    BY <1>1 DEF Owns, Present
  <2>2. ~Stored(i, n)
    BY <1>1 DEF Stored, Mentioned
  <2>3. ~Told(i, n)
    BY <1>1 DEF Told, Mentioned
  <2>4. ~Mailed(i, n)
    <3> SUFFICES ASSUME NEW j \in 1..Len(mailbox), mailbox[j].type = "Update", mailbox[j].event.info.id = i
                 PROVE  FALSE
      BY DEF Mailed
    <3>1. j \in {k \in DOMAIN mailbox : mailbox[k].type = "Update"}
      BY QueueFields
    <3>2. i \in {mailbox[k].event.info.id : k \in {m \in DOMAIN mailbox : mailbox[m].type = "Update"}}
      BY <3>1
    <3>3. QED
      BY <1>1, <3>2 DEF Mentioned
  <2>5. ~Dumped(i, n)
    BY <1>1 DEF Dumped, Mentioned
  <2>6. QED
    BY <2>1, <2>2, <2>3, <2>4, <2>5 DEF KnownAs
<1>3. ASSUME NEW kinds
      PROVE  ~Waiting(kinds, i)
  <2> SUFFICES ASSUME NEW p \in DOMAIN Queue, Tells(Queue[p], kinds, i) PROVE FALSE
    BY DEF Waiting
  <2>1. CASE p <= Len(mailbox)
    <3>1. p \in DOMAIN mailbox /\ mailbox[p].type = "Netlink" /\ mailbox[p].notice.index = i
      BY <2>1, QueueFields DEF Tells
    <3>2. i \in {mailbox[k].notice.index : k \in {m \in DOMAIN mailbox : mailbox[m].type = "Netlink"}}
      BY <3>1
    <3>3. QED
      BY <1>1, <3>2 DEF Mentioned
  <2>2. CASE ~(p <= Len(mailbox))
    <3>1. p - Len(mailbox) \in DOMAIN netlink /\ netlink[p - Len(mailbox)].index = i
      BY <2>2, QueueFields DEF Tells
    <3>2. i \in {netlink[k].index : k \in DOMAIN netlink}
      BY <3>1
    <3>3. QED
      BY <1>1, <3>2 DEF Mentioned
  <2>3. QED
    BY <2>1, <2>2
<1>4. QED
  BY <1>2, <1>3

\* What a notice makes the actor tell itself.
LEMMA ReactionTells ==
  ASSUME TypeOK, TableSound, FiledInv, NEW notice \in Notice
  PROVE  LET i    == notice.index
             n    == table.index_to_name[i]
             live == LinkAt(i)
         IN \/ /\ Reaction(notice) = Idle
               /\ n = None \/ (notice.kind = "Address" /\ live = None)
               /\ live = None \/ notice.kind \in Deaths
            \/ /\ n \in Name /\ Stored(i, n)
               /\ live = None \/ notice.kind \in Deaths
               /\ table.interfaces[n] \in Info /\ table.interfaces[n].name = n
               /\ Reaction(notice) = TellSelf("Removed", table.interfaces[n])
            \/ /\ live \in Name /\ Owns(i, live) /\ notice.kind \in News
               /\ InfoOf(live, kernel[live]) \in Info
               /\ \E kind \in {"Added", "Changed"} :
                    Reaction(notice) = TellSelf(kind, InfoOf(live, kernel[live]))
<1> DEFINE i      == notice.index
           n      == table.index_to_name[i]
           live   == LinkAt(i)
           cached == GetByIndex(table, i)
           now    == QueryLink(i)
           removed == IF cached # None THEN TellSelf("Removed", cached) ELSE Idle
<1>1. i \in Index /\ notice.kind \in {"NewLink", "DyingLink", "DelLink", "Address"}
  BY DEF Notice
<1>2. \/ n = None /\ cached = None
      \/ /\ n \in Name /\ Stored(i, n) /\ cached = table.interfaces[n]
         /\ cached \in Info /\ cached.name = n /\ cached # None
  <2>1. n \in Name \cup {None}
    BY <1>1 DEF TypeOK, Table
  <2>2. CASE n = None
    BY <2>2 DEF GetByIndex
  <2>3. CASE n # None
    <3>1. table.interfaces[n] # None /\ table.interfaces[n].id = i
      BY <1>1, <2>3 DEF TableSound, IndexSound
    <3>2. cached = table.interfaces[n]
      BY <2>3 DEF GetByIndex
    <3>3. QED
      BY <2>1, <2>3, <3>1, <3>2, StoredType DEF Stored, FiledInv, Proper
  <2>4. QED
    BY <2>2, <2>3
<1>3. \/ live = None /\ now = None
      \/ /\ live # None /\ live \in Name /\ Owns(i, live) /\ now = InfoOf(live, kernel[live])
         /\ now \in Info /\ now # None
  <2>1. CASE live = None
    BY <2>1 DEF QueryLink
  <2>2. CASE live # None
    <3>1. live \in Name /\ Owns(i, live) /\ now = InfoOf(live, kernel[live])
      BY <2>2, LinkAtOwns DEF QueryLink
    <3>2. kernel[live] \in Link
      BY <3>1 DEF TypeOK, Owns
    <3>3. now \in Info
      BY <3>1, <3>2, InfoOfType
    <3>4. QED
      BY <2>2, <3>1, <3>3, NoneIsNoRecord
  <2>3. QED
    BY <2>1, <2>2
<1>4. Reaction(notice) =
        IF notice.kind = "DelLink" THEN removed
        ELSE IF notice.kind = "Address" THEN IF now # None THEN TellSelf("Changed", now) ELSE Idle
        ELSE IF now = None \/ notice.kind = "DyingLink" THEN removed
        ELSE TellSelf(IF cached # None THEN "Changed" ELSE "Added", now)
  <2>1. CASE notice.kind = "DelLink"
    BY <2>1 DEF Reaction
  <2>2. CASE notice.kind = "Address"
    BY <2>2 DEF Reaction
  <2>3. CASE notice.kind \notin {"DelLink", "Address"}
    BY <2>3 DEF Reaction
  <2>4. QED
    BY <2>1, <2>2, <2>3
<1> HIDE DEF i, n, live, cached, now
<1>5. CASE notice.kind \in Deaths \/ (notice.kind = "NewLink" /\ now = None)
  <2>1. Reaction(notice) = removed
    BY <1>4, <1>5 DEF Deaths
  <2>2. live = None \/ notice.kind \in Deaths
    BY <1>3, <1>5
  <2>3. CASE n = None /\ cached = None
    BY <2>1, <2>2, <2>3 DEF i, n, live
  <2>4. CASE /\ n \in Name /\ Stored(i, n) /\ cached = table.interfaces[n]
             /\ cached \in Info /\ cached.name = n /\ cached # None
    BY <2>1, <2>2, <2>4 DEF i, n, live
  <2>5. QED
    BY <1>2, <2>3, <2>4
<1>6. CASE notice.kind \in News /\ now # None
  <2>1. \E kind \in {"Added", "Changed"} : Reaction(notice) = TellSelf(kind, now)
    BY <1>4, <1>6 DEF News
  <2>2. live \in Name /\ Owns(i, live) /\ now = InfoOf(live, kernel[live]) /\ now \in Info
    BY <1>3, <1>6
  <2>3. QED
    BY <1>6, <2>1, <2>2 DEF i, n, live
<1>7. CASE notice.kind = "Address" /\ now = None
  <2>1. Reaction(notice) = Idle
    BY <1>4, <1>7
  <2>2. live = None
    BY <1>3, <1>7
  <2>3. QED
    BY <1>7, <2>1, <2>2 DEF i, n, live
<1>8. QED
  BY <1>1, <1>5, <1>6, <1>7 DEF News, Deaths

-------------------------------------------------------------------------------
(***************************************************************************)
(* Each index leads to one name.                                           *)
(***************************************************************************)
\* Of all links of the kernel and all infos the daemon holds, no two with the same index
\* have different names, and the table finds what it has by its index.
UniqueInv ==
  \A i \in Index : \A n, m \in Name :
    (KnownAs(i, n) \/ Owns(i, n)) /\ (KnownAs(i, m) \/ Owns(i, m)) => n = m

MappedInv ==
  \A n \in Name : table.interfaces[n] # None => table.index_to_name[table.interfaces[n].id] = n

IndexInv == FiledInv /\ UniqueInv /\ MappedInv

\* What handling an update stores and announces.
Revised(info, told) ==
  /\ info.name = told.name /\ info.id = told.id /\ info.addrs = told.addrs
  /\ info.interface_type = told.interface_type
  /\ \/ info.state = told.state
     \/ LET cur == table.interfaces[told.name]
        IN cur # None /\ info.state = cur.state /\ (cur.state = "Unmanaged" \/ cur.interface_type = "Wlan")

LEMMA UpdateTaken ==
  ASSUME TypeOK, HandleUpdate
  PROVE  \A j \in 1..Len(mailbox') : j + 1 \in 1..Len(mailbox) /\ mailbox'[j] = mailbox[j + 1]
<1>1. mailbox # <<>> /\ mailbox' = Tail(mailbox) /\ mailbox \in Seq(Message)
  BY QueueFields DEF HandleUpdate, Take
<1>2. /\ Len(mailbox') = Len(mailbox) - 1 /\ Len(mailbox) \in Nat
      /\ \A j \in 1..(Len(mailbox) - 1) : mailbox'[j] = mailbox[j + 1]
  BY ONLY <1>1
<1>3. QED
  BY <1>2

\* What becomes of it.
LEMMA UpdateHandled ==
  ASSUME TypeOK, HandleUpdate
  PROVE  /\ mailbox # <<>> /\ mailbox' = Tail(mailbox) /\ mailbox[1] \in Message /\ pc = Idle /\ alive
         /\ mailbox[1].type = "Update" /\ mailbox[1].event \in Event
         /\ mailbox[1].event.info \in Info /\ mailbox[1].event.info.name \in Name
         /\ UNCHANGED <<kernel, netlink, pc, alive>>
         /\ LET told == mailbox[1].event.info
            IN \/ /\ mailbox[1].event.kind = "Removed"
                  /\ table' = Remove(table, told.name) /\ UNCHANGED announced
               \/ /\ mailbox[1].event.kind # "Removed"
                  /\ \E info \in Info :
                       /\ Revised(info, told)
                       /\ table' = Insert(table, info) \/ table' = Update(table, info)
                       /\ announced' = [announced EXCEPT ![told.name] = info]
<1>1. mailbox # <<>> /\ mailbox' = Tail(mailbox) /\ Head(mailbox).type = "Update" /\ pc = Idle /\ alive
  BY DEF HandleUpdate, Take
<1>2. Head(mailbox) = mailbox[1] /\ mailbox[1] \in Message
  BY <1>1, QueueFields
<1> DEFINE event == mailbox[1].event
           told  == event.info
           cur   == table.interfaces[told.name]
<1>3. event \in Event /\ told \in Info /\ told.name \in Name
  BY <1>1, <1>2, MessageType DEF Event, Info
<1>4. \/ event.kind = "Added"   /\ UpdateAdded(told)
      \/ event.kind = "Removed" /\ UpdateRemoved(told)
      \/ event.kind = "Changed" /\ UpdateChanged(told)
  BY <1>2 DEF HandleUpdate
<1>5. UNCHANGED <<kernel, netlink, pc, alive>>
  BY DEF HandleUpdate
<1> HIDE DEF event
<1>6. CASE event.kind = "Added" /\ UpdateAdded(told)
  <2>1. Revised(told, told)
    BY DEF Revised
  <2>2. QED
    BY <1>1, <1>2, <1>3, <1>5, <1>6, <2>1 DEF UpdateAdded, Broadcast, event
<1>7. CASE event.kind = "Removed" /\ UpdateRemoved(told)
  BY <1>1, <1>2, <1>3, <1>5, <1>7 DEF UpdateRemoved, event
<1>8. CASE event.kind = "Changed" /\ UpdateChanged(told)
  <2> DEFINE merged == Merge(cur, told)
  <2>1. merged \in Info
    BY <1>3, StoredType, MergeType
  <2>2. Revised(merged, told)
    <3>1. CASE cur = None
      BY <3>1 DEF Merge, Revised
    <3>2. CASE cur # None
      <4>1. merged = [told EXCEPT
                        !.state   = IF cur.state = "Unmanaged" \/ cur.interface_type = "Wlan"
                                    THEN cur.state ELSE told.state,
                        !.gateway = cur.gateway,
                        !.dhcpv4  = cur.dhcpv4]
        BY <3>2 DEF Merge
      <4> HIDE DEF merged
      <4>2. QED
        BY <1>3, <3>2, <4>1 DEF Info, Revised
    <3>3. QED
      BY <3>1, <3>2
  <2>3. table' = Update(table, merged) /\ Broadcast(merged)
    BY <1>8 DEF UpdateChanged
  <2>4. merged.name = told.name
    BY <2>2 DEF Revised
  <2>5. announced' = [announced EXCEPT ![told.name] = merged]
    BY <2>3, <2>4 DEF Broadcast
  <2> HIDE DEF merged
  <2>6. QED
    BY <1>1, <1>2, <1>3, <1>5, <1>8, <2>1, <2>2, <2>3, <2>5 DEF event
<1>9. QED
  BY <1>4, <1>6, <1>7, <1>8

\* What is stored, entry by entry.
LEMMA StoredAfter ==
  ASSUME TypeOK
  PROVE  /\ \A info \in Info : table' = Insert(table, info) \/ table' = Update(table, info) =>
              \A n \in Name : table'.interfaces[n] = IF n = info.name THEN info ELSE table.interfaces[n]
         /\ \A m \in Name : table' = Remove(table, m) =>
              \A n \in Name : table'.interfaces[n] = IF n = m THEN None ELSE table.interfaces[n]
         /\ \A links : table' = TableOf(links) => table'.interfaces = links
<1>1. table \in Table(Info) /\ table.interfaces \in [Name -> Info \cup {None}]
  BY DEF TypeOK, Table
<1>2. ASSUME NEW info \in Info, table' = Insert(table, info) \/ table' = Update(table, info), NEW n \in Name
      PROVE  table'.interfaces[n] = IF n = info.name THEN info ELSE table.interfaces[n]
  <2>1. table'.interfaces = [table.interfaces EXCEPT ![info.name] = info]
    BY <1>1, <1>2, InterfacesAfter
  <2>2. QED
    BY <1>1, <2>1
<1>3. ASSUME NEW m \in Name, table' = Remove(table, m), NEW n \in Name
      PROVE  table'.interfaces[n] = IF n = m THEN None ELSE table.interfaces[n]
  <2>1. table'.interfaces = [table.interfaces EXCEPT ![m] = None]
    <3>1. Remove(table, m).interfaces = [table.interfaces EXCEPT ![m] = None]
      <4>1. CASE table.interfaces[m] = None
        <5>1. [table.interfaces EXCEPT ![m] = None] = table.interfaces
          BY <1>1, <4>1
        <5>2. QED
          BY <4>1, <5>1 DEF Remove
      <4>2. CASE table.interfaces[m] # None
        BY <4>2 DEF Remove
      <4>3. QED
        BY <4>1, <4>2
    <3>2. QED
      BY <1>3, <3>1
  <2>2. QED
    BY <1>1, <2>1
<1>4. \A links : table' = TableOf(links) => table'.interfaces = links
  BY DEF TableOf
<1>5. QED
  BY <1>2, <1>3, <1>4

\* What a dump says of a link.
LEMMA DumpedLink ==
  ASSUME TypeOK, NEW k, NEW n \in Name, QueryLinks(k)[n] # None
  PROVE  /\ k[n] # None /\ Proper(QueryLinks(k)[n], n)
         /\ QueryLinks(k)[n].id = k[n].id /\ QueryLinks(k)[n].addrs = k[n].addrs
         /\ QueryLinks(k)[n].state = StateOf(n, k[n])
<1>1. k[n] # None /\ QueryLinks(k)[n] = [InfoOf(n, k[n]) EXCEPT !.dhcpv4 = config.dhcpv4[n]]
  BY DEF QueryLinks
<1>2. QED
  BY <1>1 DEF InfoOf, Proper

\* Infos stay filed.
LEMMA FiledStays ==
  ASSUME TypeOK, TypeOK', TableSound, FiledInv,
         Environment \/ Forward \/ HandleNetlink \/ Tell \/ HandleUpdate \/ Install
  PROVE  FiledInv'
<1>1. ASSUME NEW new \in Seq(Notice), Evolves(new), Touched(new) \/ RefreshBegins
      PROVE  FiledInv'
  <2>1. \A j \in 1..Len(mailbox') : mailbox'[j].type = "Update" =>
          Proper(mailbox'[j].event.info, mailbox'[j].event.info.name)
    <3>1. PICK d \in {0, 1} :
            \A j \in 1..Len(mailbox') : j + d \in 1..Len(mailbox) /\ mailbox'[j] = mailbox[j + d]
      BY <1>1, EnvironmentMailbox
    <3>2. QED
      BY <3>1 DEF FiledInv
  <2>2. \A n \in Name : table'.interfaces[n] # None => Proper(table'.interfaces[n], n)
    <3>1. CASE UNCHANGED table
      BY <3>1 DEF FiledInv
    <3>2. ASSUME NEW m \in Name, NEW info \in Info, Touches(new, info, m)
          PROVE  <2>2
      <4>1. Proper(info, m)
        BY <3>2 DEF Touches, SameLink, FiledInv, Proper
      <4>2. \A n \in Name : table'.interfaces[n] = IF n = info.name THEN info ELSE table.interfaces[n]
        BY <3>2, StoredAfter DEF Touches
      <4>3. QED
        BY <4>1, <4>2 DEF FiledInv, Proper
    <3>3. QED
      BY <1>1, <3>1, <3>2 DEF Touched, RefreshBegins
  <2>3. CASE UNCHANGED pc
    BY <2>1, <2>2, <2>3 DEF FiledInv, Proper
  <2>4. CASE RefreshBegins
    <3>1. pc'.at = "install" /\ pc'.links = QueryLinks(kernel')
      BY <2>4 DEF RefreshBegins
    <3>2. \A n \in Name : pc'.links[n] # None => Proper(pc'.links[n], n)
      BY <3>1, DumpedLink
    <3>3. QED
      BY <2>1, <2>2, <3>1, <3>2 DEF FiledInv, Proper
  <2>5. QED
    BY <1>1, <2>3, <2>4 DEF Touched
<1>2. CASE Forward
  <2>1. /\ Len(mailbox') = Len(mailbox) + 1 /\ \A j \in 1..Len(mailbox) : mailbox'[j] = mailbox[j]
        /\ mailbox'[Len(mailbox) + 1].type = "Netlink" /\ Len(mailbox) \in Nat
    BY <1>2, QueueFields DEF Forward
  <2>2. \A j \in 1..Len(mailbox') : mailbox'[j].type = "Update" =>
          j \in 1..Len(mailbox) /\ mailbox'[j] = mailbox[j]
    BY <2>1
  <2>3. UNCHANGED <<pc, table>>
    BY <1>2 DEF Forward
  <2>4. QED
    BY <2>2, <2>3 DEF FiledInv, Proper
<1>3. CASE HandleNetlink
  <2> DEFINE notice == mailbox[1].notice
  <2>1. /\ \A j \in 1..Len(mailbox') : j + 1 \in 1..Len(mailbox) /\ mailbox'[j] = mailbox[j + 1]
        /\ notice \in Notice /\ pc' = Reaction(notice) /\ UNCHANGED table
    <3>1. mailbox # <<>> /\ mailbox' = Tail(mailbox) /\ Head(mailbox) = mailbox[1]
      BY <1>3, QueueFields DEF HandleNetlink, Take
    <3>2. mailbox[1] \in Message /\ mailbox[1].type = "Netlink"
      BY <1>3, <3>1, TakeType DEF HandleNetlink
    <3>3. QED
      BY <1>3, <3>1, <3>2, QueueFields, MessageType DEF HandleNetlink
  <2>2. \A j \in 1..Len(mailbox') : mailbox'[j].type = "Update" =>
          Proper(mailbox'[j].event.info, mailbox'[j].event.info.name)
    BY <2>1 DEF FiledInv
  <2>3. \A n \in Name : table'.interfaces[n] # None => Proper(table'.interfaces[n], n)
    BY <2>1 DEF FiledInv
  <2> HIDE DEF notice
  <2>4. \/ pc' = Idle
        \/ pc'.at = "tell" /\ Proper(pc'.event.info, pc'.event.info.name)
    <3>1. CASE Reaction(notice) = Idle
      BY <2>1, <3>1
    <3>2. ASSUME NEW n \in Name, table.interfaces[n] # None,
                 Reaction(notice) = TellSelf("Removed", table.interfaces[n])
          PROVE  <2>4
      <4>1. Proper(table.interfaces[n], n)
        BY <3>2 DEF FiledInv
      <4>2. QED
        BY <2>1, <3>2, <4>1 DEF TellSelf, Proper
    <3>3. ASSUME NEW live \in Name, NEW kind, Reaction(notice) = TellSelf(kind, InfoOf(live, kernel[live]))
          PROVE  <2>4
      BY <2>1, <3>3 DEF TellSelf, Proper, InfoOf
    <3>4. QED
      BY <2>1, <3>1, <3>2, <3>3, ReactionTells DEF Stored
  <2>5. QED
    BY <2>2, <2>3, <2>4 DEF FiledInv, Proper, Idle
<1>4. CASE Tell
  <2>1. /\ Len(mailbox') = Len(mailbox) + 1 /\ \A j \in 1..Len(mailbox) : mailbox'[j] = mailbox[j]
        /\ mailbox'[Len(mailbox) + 1] = [type |-> "Update", event |-> pc.event] /\ Len(mailbox) \in Nat
    BY <1>4, QueueFields DEF Tell
  <2>2. \A j \in 1..Len(mailbox') : \/ j \in 1..Len(mailbox) /\ mailbox'[j] = mailbox[j]
                                    \/ mailbox'[j] = [type |-> "Update", event |-> pc.event]
    BY <2>1
  <2>3. pc' = Idle /\ UNCHANGED table /\ pc.at = "tell"
    BY <1>4 DEF Tell
  <2>4. QED
    BY <2>2, <2>3 DEF FiledInv, Proper, Idle
<1>5. CASE HandleUpdate
  <2>1. \A j \in 1..Len(mailbox') : j + 1 \in 1..Len(mailbox) /\ mailbox'[j] = mailbox[j + 1]
    BY <1>5, UpdateTaken
  <2>2. \A n \in Name : table'.interfaces[n] # None => Proper(table'.interfaces[n], n)
    <3>1. CASE mailbox[1].event.kind = "Removed"
      BY <1>5, <3>1, UpdateHandled, StoredAfter DEF FiledInv
    <3>2. CASE mailbox[1].event.kind # "Removed"
      <4>1. PICK info \in Info :
              /\ Revised(info, mailbox[1].event.info)
              /\ table' = Insert(table, info) \/ table' = Update(table, info)
        BY <1>5, <3>2, UpdateHandled
      <4>2. Proper(info, info.name)
        <5>1. 1 \in 1..Len(mailbox) /\ mailbox[1].type = "Update"
          BY <1>5, UpdateHandled, QueueFields
        <5>2. QED
          BY <4>1, <5>1 DEF FiledInv, Revised, Proper
      <4>3. \A n \in Name : table'.interfaces[n] = IF n = info.name THEN info ELSE table.interfaces[n]
        BY <4>1, StoredAfter
      <4>4. QED
        BY <4>2, <4>3 DEF FiledInv
    <3>3. QED
      BY <3>1, <3>2
  <2>3. pc' = Idle
    BY <1>5, UpdateHandled
  <2>4. QED
    BY <2>1, <2>2, <2>3 DEF FiledInv, Proper, Idle
<1>6. CASE Install
  <2>1. pc.at = "install" /\ table' = TableOf(pc.links) /\ pc' = Idle /\ UNCHANGED mailbox
    BY <1>6 DEF Install
  <2>2. table'.interfaces = pc.links
    BY <2>1, StoredAfter
  <2>3. QED
    BY <2>1, <2>2 DEF FiledInv, Proper, Idle
<1>7. QED
  BY <1>1, <1>2, <1>3, <1>4, <1>5, <1>6 DEF Environment

\* What the actor holds after a step it held before, or a refresh has just found it.
LEMMA KeysKept ==
  ASSUME TypeOK, TypeOK', TableSound, FiledInv, NEW i \in Index, NEW n \in Name,
         Environment \/ Forward \/ HandleNetlink \/ Tell \/ HandleUpdate \/ Install,
         KnownAs(i, n)'
  PROVE  \/ KnownAs(i, n)
         \/ Environment /\ kernel'[n] # None /\ kernel'[n].id = i
         \/ HandleNetlink /\ Owns(i, n) /\ UNCHANGED kernel
<1>1. ASSUME NEW new \in Seq(Notice), Evolves(new), Touched(new) \/ RefreshBegins
      PROVE  KnownAs(i, n) \/ (kernel'[n] # None /\ kernel'[n].id = i)
  <2>1. Mailed(i, n)' => Mailed(i, n)
    <3>1. PICK d \in {0, 1} :
            \A j \in 1..Len(mailbox') : j + d \in 1..Len(mailbox) /\ mailbox'[j] = mailbox[j + d]
      BY <1>1, EnvironmentMailbox
    <3>2. QED
      BY <3>1 DEF Mailed
  <2>2. Stored(i, n)' => Stored(i, n)
    <3>1. CASE UNCHANGED table
      BY <3>1 DEF Stored
    <3>2. ASSUME NEW m \in Name, NEW info \in Info, Touches(new, info, m)
          PROVE  Stored(i, n)' => Stored(i, n)
      <4>1. \A p \in Name : table'.interfaces[p] = IF p = info.name THEN info ELSE table.interfaces[p]
        BY <3>2, StoredAfter DEF Touches
      <4>2. QED
        BY <3>2, <4>1 DEF Touches, SameLink, Stored
    <3>3. QED
      BY <1>1, <3>1, <3>2 DEF Touched, RefreshBegins
  <2>3. CASE UNCHANGED pc
    BY <2>1, <2>2, <2>3 DEF KnownAs, Told, Dumped
  <2>4. CASE RefreshBegins
    <3>1. pc' = [at |-> "install", links |-> QueryLinks(kernel')]
      BY <2>4 DEF RefreshBegins
    <3>2. ~Told(i, n)'
      BY <3>1 DEF Told
    <3>3. Dumped(i, n)' => kernel'[n] # None /\ kernel'[n].id = i
      BY <3>1, DumpedLink DEF Dumped
    <3>4. QED
      BY <2>1, <2>2, <3>2, <3>3 DEF KnownAs
  <2>5. QED
    BY <1>1, <2>3, <2>4 DEF Touched
<1>2. CASE Forward
  <2>1. /\ Len(mailbox') = Len(mailbox) + 1 /\ \A j \in 1..Len(mailbox) : mailbox'[j] = mailbox[j]
        /\ mailbox'[Len(mailbox) + 1].type = "Netlink" /\ Len(mailbox) \in Nat
    BY <1>2, QueueFields DEF Forward
  <2>2. \A j \in 1..Len(mailbox') : mailbox'[j].type = "Update" =>
          j \in 1..Len(mailbox) /\ mailbox'[j] = mailbox[j]
    BY <2>1
  <2>3. UNCHANGED <<pc, table>>
    BY <1>2 DEF Forward
  <2>4. QED
    BY <2>2, <2>3 DEF KnownAs, Stored, Told, Mailed, Dumped
<1>3. CASE HandleNetlink
  <2>1. /\ mailbox' = Tail(mailbox) /\ mailbox # <<>> /\ mailbox[1] \in Message
        /\ mailbox[1].type = "Netlink" /\ mailbox[1].notice \in Notice
        /\ pc = Idle /\ pc' = Reaction(mailbox[1].notice) /\ UNCHANGED <<table, kernel>>
    <3>1. mailbox # <<>> /\ mailbox' = Tail(mailbox) /\ Head(mailbox) = mailbox[1]
      BY <1>3, QueueFields DEF HandleNetlink, Take
    <3>2. mailbox[1] \in Message /\ mailbox[1].type = "Netlink"
      BY <1>3, <3>1, TakeType DEF HandleNetlink
    <3>3. QED
      BY <1>3, <3>1, <3>2, MessageType DEF HandleNetlink, Take
  <2>2. \A j \in 1..Len(mailbox') : j + 1 \in 1..Len(mailbox) /\ mailbox'[j] = mailbox[j + 1]
    BY <2>1, QueueFields
  <2>3. Mailed(i, n)' => Mailed(i, n)
    BY <2>2 DEF Mailed
  <2>4. Stored(i, n)' => Stored(i, n)
    BY <2>1 DEF Stored
  <2> DEFINE notice == mailbox[1].notice
  <2> HIDE DEF notice
  <2>5. Told(i, n)' => Stored(i, n) \/ Owns(i, n)
    <3>1. CASE Reaction(notice) = Idle
      BY <2>1, <3>1 DEF Told, Idle, notice
    <3>2. ASSUME NEW m \in Name, Stored(notice.index, m), table.interfaces[m].name = m,
                 Reaction(notice) = TellSelf("Removed", table.interfaces[m])
          PROVE  Told(i, n)' => Stored(i, n)
      <4>1. pc'.event.info = table.interfaces[m]
        BY <2>1, <3>2 DEF TellSelf, notice
      <4>2. QED
        BY <3>2, <4>1 DEF Told, Stored
    <3>3. ASSUME NEW live \in Name, NEW kind, Owns(notice.index, live),
                 Reaction(notice) = TellSelf(kind, InfoOf(live, kernel[live]))
          PROVE  Told(i, n)' => Owns(i, n)
      <4>1. pc'.event.info.name = live /\ pc'.event.info.id = kernel[live].id
        BY <2>1, <3>3 DEF TellSelf, InfoOf, notice
      <4>2. QED
        BY <3>3, <4>1 DEF Told, Owns
    <3>4. QED
      BY <2>1, <3>1, <3>2, <3>3, ReactionTells DEF notice
  <2>6. ~Dumped(i, n)'
    <3>1. pc'.at # "install"
      <4>1. Reaction(notice) = Idle \/ \E kind, info : Reaction(notice) = TellSelf(kind, info)
        BY <2>1, ReactionTells DEF notice
      <4>2. Reaction(notice).at # "install"
        BY <4>1 DEF Idle, TellSelf
      <4>3. QED
        BY <2>1, <4>2 DEF notice
    <3>2. QED
      BY <3>1 DEF Dumped
  <2>7. QED
    BY <1>3, <2>1, <2>3, <2>4, <2>5, <2>6 DEF KnownAs
<1>4. CASE Tell
  <2>1. /\ Len(mailbox') = Len(mailbox) + 1 /\ \A j \in 1..Len(mailbox) : mailbox'[j] = mailbox[j]
        /\ mailbox'[Len(mailbox) + 1] = [type |-> "Update", event |-> pc.event] /\ Len(mailbox) \in Nat
    BY <1>4, QueueFields DEF Tell
  <2>2. \A j \in 1..Len(mailbox') : \/ j \in 1..Len(mailbox) /\ mailbox'[j] = mailbox[j]
                                    \/ mailbox'[j] = [type |-> "Update", event |-> pc.event]
    BY <2>1
  <2>3. pc' = Idle /\ UNCHANGED table /\ pc.at = "tell"
    BY <1>4 DEF Tell
  <2>4. Mailed(i, n)' => Mailed(i, n) \/ Told(i, n)
    BY <2>2, <2>3 DEF Mailed, Told
  <2>5. QED
    BY <2>3, <2>4 DEF KnownAs, Stored, Told, Dumped, Idle
<1>5. CASE HandleUpdate
  <2>1. \A j \in 1..Len(mailbox') : j + 1 \in 1..Len(mailbox) /\ mailbox'[j] = mailbox[j + 1]
    BY <1>5, UpdateTaken
  <2>2. Mailed(i, n)' => Mailed(i, n)
    BY <2>1 DEF Mailed
  <2>3. UNCHANGED pc
    BY <1>5, UpdateHandled
  <2>4. Stored(i, n)' => Stored(i, n) \/ Mailed(i, n)
    <3>1. CASE mailbox[1].event.kind = "Removed"
      BY <1>5, <3>1, UpdateHandled, StoredAfter DEF Stored
    <3>2. CASE mailbox[1].event.kind # "Removed"
      <4>1. PICK info \in Info :
              /\ Revised(info, mailbox[1].event.info)
              /\ table' = Insert(table, info) \/ table' = Update(table, info)
        BY <1>5, <3>2, UpdateHandled
      <4>2. \A m \in Name : table'.interfaces[m] = IF m = info.name THEN info ELSE table.interfaces[m]
        BY <4>1, StoredAfter
      <4>3. 1 \in 1..Len(mailbox) /\ mailbox[1].type = "Update"
        BY <1>5, UpdateHandled, QueueFields
      <4>4. QED
        BY <4>1, <4>2, <4>3 DEF Stored, Mailed, Revised
    <3>3. QED
      BY <3>1, <3>2
  <2>5. QED
    BY <2>2, <2>3, <2>4 DEF KnownAs, Told, Dumped
<1>6. CASE Install
  <2>1. pc.at = "install" /\ table' = TableOf(pc.links) /\ pc' = Idle /\ UNCHANGED mailbox
    BY <1>6 DEF Install
  <2>2. table'.interfaces = pc.links
    BY <2>1, StoredAfter
  <2>3. QED
    BY <2>1, <2>2 DEF KnownAs, Stored, Told, Mailed, Dumped, Idle
<1>7. QED
  BY <1>1, <1>2, <1>3, <1>4, <1>5, <1>6 DEF Environment

\* Each index goes on leading to one name.
LEMMA UniqueStays ==
  ASSUME TypeOK, TypeOK', TableSound, FiledInv, UniqueInv, ~PromptReuse,
         Environment \/ Forward \/ HandleNetlink \/ Tell \/ HandleUpdate \/ Install
  PROVE  UniqueInv'
<1> DEFINE Holds(i, n) == KnownAs(i, n) \/ Owns(i, n)
<1> SUFFICES ASSUME NEW i \in Index, NEW n \in Name, NEW m \in Name, Holds(i, n)', Holds(i, m)'
             PROVE  n = m
  BY DEF UniqueInv
<1>1. CASE Environment
  <2>1. PICK new \in Seq(Notice) : Evolves(new)
    BY <1>1 DEF Environment
  <2>2. ASSUME NEW p \in Name, Holds(i, p)'
        PROVE  \/ Holds(i, p)
               \/ kernel[p] = None /\ kernel'[p] # None /\ kernel'[p].id = i /\ i \in FreeIndex(kernel)
    <3>1. KnownAs(i, p) \/ (kernel'[p] # None /\ kernel'[p].id = i)
      <4>1. Owns(i, p)' => kernel'[p] # None /\ kernel'[p].id = i
        BY DEF Owns
      <4>2. QED
        BY <1>1, <2>2, <4>1, KeysKept DEF HandleNetlink, Owns
    <3>2. QED
      BY <2>1, <3>1 DEF Evolves, Owns
  <2>3. i \in FreeIndex(kernel) => \A p \in Name : ~Holds(i, p)
    BY FreshIndex
  <2>4. CASE Holds(i, n) /\ Holds(i, m)
    BY <2>4 DEF UniqueInv
  <2>5. CASE ~(Holds(i, n) /\ Holds(i, m))
    <3>1. i \in FreeIndex(kernel)
      BY <2>2, <2>5
    <3>2. /\ kernel[n] = None /\ kernel'[n] # None /\ kernel'[n].id = i
          /\ kernel[m] = None /\ kernel'[m] # None /\ kernel'[m].id = i
      BY <2>2, <2>3, <3>1
    <3>3. QED
      BY <2>1, <3>2 DEF Evolves
  <2>6. QED
    BY <2>4, <2>5
<1>2. CASE Forward \/ HandleNetlink \/ Tell \/ HandleUpdate \/ Install
  <2>1. UNCHANGED kernel
    BY <1>2 DEF Forward, HandleNetlink, Tell, HandleUpdate, Install
  <2>2. ASSUME NEW p \in Name, Holds(i, p)'
        PROVE  Holds(i, p)
    <3>1. Owns(i, p)' => Owns(i, p)
      BY <2>1 DEF Owns
    <3>2. KnownAs(i, p)' => Holds(i, p)
      BY <1>2, <2>1, KeysKept DEF Owns
    <3>3. QED
      BY <2>2, <3>1, <3>2
  <2>3. QED
    BY <2>2 DEF UniqueInv
<1>3. QED
  BY <1>1, <1>2

\* The operations of table.rs keep the way from an index to its name.
LEMMA MappedAfter ==
  ASSUME TypeOK, TypeOK', TableSound, FiledInv', UniqueInv, UniqueInv', MappedInv, TableOperation
  PROVE  MappedInv'
<1> DEFINE ids == table.index_to_name
<1>1. /\ table.interfaces \in [Name -> Info \cup {None}] /\ ids \in [Index -> Name \cup {None}]
      /\ table.name_to_index \in [Name -> Index \cup {None}]
  BY DEF TypeOK, Table
<1>2. \A x \in Info : x.id \in Index /\ x.name \in Name /\ x # None /\ x.id # None
  BY NoneIsNoRecord, NoneAssumption DEF Info
<1>3. \A n, m \in Name : table.interfaces[n] # None /\ table.interfaces[m] # None
                           /\ table.interfaces[n].id = table.interfaces[m].id => n = m
  BY <1>1, <1>2 DEF UniqueInv, KnownAs, Stored
<1>4. \A n, m \in Name : table'.interfaces[n] # None /\ table'.interfaces[m] # None
                           /\ table'.interfaces[n].id = table'.interfaces[m].id => n = m
  <2> SUFFICES ASSUME NEW n \in Name, NEW m \in Name, table'.interfaces[n] # None, table'.interfaces[m] # None,
                      table'.interfaces[n].id = table'.interfaces[m].id
               PROVE  n = m
    OBVIOUS
  <2>1. table'.interfaces[n] \in Info
    BY DEF TypeOK, Table
  <2>2. PICK i \in Index : i = table'.interfaces[n].id
    BY <1>2, <2>1
  <2>3. KnownAs(i, n)' /\ KnownAs(i, m)'
    BY <2>2 DEF KnownAs, Stored
  <2>4. QED
    BY <2>3 DEF UniqueInv
<1>5. ASSUME NEW n \in Name
      PROVE  /\ Remove(table, n) \in Table(Info) /\ IndexSound(Remove(table, n))
             /\ \A m \in Name \ {n} : table.interfaces[m] # None =>
                  Remove(table, n).index_to_name[table.interfaces[m].id] = m
  <2>1. Remove(table, n) \in Table(Info) /\ IndexSound(Remove(table, n))
    BY InfosWellFormed, RemoveType, RemoveIndexSound DEF TypeOK, TableSound
  <2>2. ASSUME NEW m \in Name \ {n}, table.interfaces[m] # None
        PROVE  Remove(table, n).index_to_name[table.interfaces[m].id] = m
    <3>1. ids[table.interfaces[m].id] = m
      BY <2>2 DEF MappedInv
    <3>2. CASE table.interfaces[n] = None
      BY <3>1, <3>2 DEF Remove
    <3>3. CASE table.interfaces[n] # None
      <4>1. Remove(table, n).index_to_name = [ids EXCEPT ![table.interfaces[n].id] = None]
        BY <3>3 DEF Remove
      <4>2. table.interfaces[m].id # table.interfaces[n].id
        BY <1>3, <2>2, <3>3
      <4>3. table.interfaces[m].id \in Index
        BY <1>1, <1>2, <2>2
      <4>4. QED
        BY <1>1, <3>1, <4>1, <4>2, <4>3
    <3>4. QED
      BY <3>2, <3>3
  <2>3. QED
    BY <2>1, <2>2
<1>6. ASSUME NEW t \in Table(Info), IndexSound(t), NEW info \in Info, table' = Insert(t, info),
             \A m \in Name : t.interfaces[m] # None => t.interfaces[m] = table.interfaces[m],
             \A m \in Name \ {info.name} : /\ t.interfaces[m] = table.interfaces[m]
                                           /\ t.interfaces[m] # None => t.index_to_name[t.interfaces[m].id] = m
      PROVE  MappedInv'
  <2> DEFINE n   == info.name
             old == t.name_to_index[n]
  <2>0. n \in Name
    BY <1>2
  <2>1. /\ \A m \in Name : table'.interfaces[m] = IF m = n THEN info ELSE t.interfaces[m]
        /\ \A j \in Index : table'.index_to_name[j] =
             IF j = info.id THEN n ELSE IF j = old THEN None ELSE t.index_to_name[j]
    <3>1. t.interfaces \in [Name -> Info \cup {None}]
      BY DEF Table
    <3>2. QED
      BY <1>6, <3>1 DEF Insert
  <2>2. ASSUME NEW m \in Name, table'.interfaces[m] # None
        PROVE  table'.index_to_name[table'.interfaces[m].id] = m
    <3>1. CASE m = n
      BY <1>2, <2>1, <3>1
    <3>2. CASE m # n
      <4>1. t.interfaces[m] # None /\ table'.interfaces[m] = t.interfaces[m] /\ t.interfaces[m] = table.interfaces[m]
        BY <1>6, <2>1, <2>2, <3>2
      <4>2. t.interfaces[m].id \in Index /\ t.interfaces[m].id # None
        BY <1>1, <1>2, <4>1
      <4>3. t.interfaces[m].id # info.id
        BY <1>2, <1>4, <2>1, <3>2, <4>1
      <4>4. t.interfaces[m].id # old
        <5>1. CASE old = None
          BY <4>2, <5>1
        <5>2. CASE old # None
          <6>1. t.interfaces[n] # None /\ t.interfaces[n].id = old
            <7>1. \A p \in Name : t.name_to_index[p] # None =>
                    t.interfaces[p] # None /\ t.interfaces[p].id = t.name_to_index[p]
              BY <1>6 DEF IndexSound
            <7>2. QED
              BY <2>0, <5>2, <7>1
          <6>2. t.interfaces[n] = table.interfaces[n]
            BY <1>6, <2>0, <6>1
          <6>3. QED
            BY <1>3, <2>0, <3>2, <4>1, <6>1, <6>2
        <5>3. QED
          BY <5>1, <5>2
      <4>5. QED
        BY <1>6, <2>1, <3>2, <4>1, <4>2, <4>3, <4>4
    <3>3. QED
      BY <3>1, <3>2
  <2>3. QED
    BY <2>2 DEF MappedInv
<1>7. CASE table' = table
  BY <1>7 DEF MappedInv
<1>8. ASSUME NEW info \in Info, table' = Insert(table, info)
      PROVE  MappedInv'
  <2>1. table \in Table(Info) /\ IndexSound(table)
    BY DEF TypeOK, TableSound
  <2>2. QED
    BY <1>6, <1>8, <2>1 DEF MappedInv
<1>9. ASSUME NEW info \in Info, table' = Update(table, info)
      PROVE  MappedInv'
  <2> DEFINE t == Remove(table, info.name)
  <2>1. info.name \in Name
    BY <1>2
  <2>2. t \in Table(Info) /\ IndexSound(t) /\ table' = Insert(t, info)
    BY <1>5, <1>9, <2>1 DEF Update
  <2>3. t.interfaces = [table.interfaces EXCEPT ![info.name] = None]
    BY <2>1, InterfacesAfter DEF TypeOK
  <2>4. \A m \in Name \ {info.name} : /\ t.interfaces[m] = table.interfaces[m]
                                      /\ t.interfaces[m] # None => t.index_to_name[t.interfaces[m].id] = m
    BY <1>1, <1>5, <2>1, <2>3
  <2>5. \A m \in Name : t.interfaces[m] # None => t.interfaces[m] = table.interfaces[m]
    BY <1>1, <2>1, <2>3
  <2> HIDE DEF t
  <2>6. QED
    BY <1>6, <2>2, <2>4, <2>5
<1>10. ASSUME NEW n \in Name, table' = Remove(table, n)
       PROVE  MappedInv'
  <2>1. \A m \in Name : table'.interfaces[m] = IF m = n THEN None ELSE table.interfaces[m]
    BY <1>10, StoredAfter
  <2>2. QED
    BY <1>5, <1>10, <2>1 DEF MappedInv
<1>11. ASSUME NEW links \in [Name -> Info \cup {None}], table' = TableOf(links)
       PROVE  MappedInv'
  <2> DEFINE present == {n \in Name : links[n] # None}
  <2>1. table'.interfaces = links
    BY <1>11, StoredAfter
  <2>2. \A i \in Index : table'.index_to_name[i] = IF \E n \in present : links[n].id = i
                                                   THEN CHOOSE n \in present : links[n].id = i
                                                   ELSE None
    BY <1>11 DEF TableOf
  <2>3. ASSUME NEW n \in Name, links[n] # None
        PROVE  table'.index_to_name[links[n].id] = n
    <3> DEFINE i == links[n].id
               m == CHOOSE p \in present : links[p].id = i
    <3>1. i \in Index
      BY <1>2, <2>3
    <3>2. m \in present /\ links[m].id = i
      BY <2>3
    <3>3. table'.index_to_name[i] = m
      BY <2>2, <2>3, <3>1
    <3> HIDE DEF m
    <3>4. m = n
      BY <1>4, <2>1, <2>3, <3>2
    <3>5. QED
      BY <3>3, <3>4
  <2>4. QED
    BY <2>1, <2>3 DEF MappedInv
<1>12. QED
  BY <1>7, <1>8, <1>9, <1>10, <1>11 DEF TableOperation

\* All of this stays.
LEMMA IndexStays ==
  ASSUME TypeOK, TableSound, IndexInv, ~PromptReuse, [Next]_vars
  PROVE  /\ TypeOK' /\ TableSound' /\ IndexInv'
         /\ Environment \/ Forward \/ HandleNetlink \/ Tell \/ HandleUpdate \/ Install
         /\ alive' => alive
<1>1. TypeOK' /\ TableOperation
  BY NextStep DEF StepOK
<1>2. TableSound'
  BY <1>1, TableOperationSound DEF TypeOK
<1>3. Environment \/ Forward \/ HandleNetlink \/ Tell \/ HandleUpdate \/ Install
  BY NextShapes DEF IndexInv
<1>4. FiledInv'
  BY <1>1, <1>3, FiledStays DEF IndexInv
<1>5. UniqueInv'
  BY <1>1, <1>3, UniqueStays DEF IndexInv
<1>6. MappedInv'
  BY <1>1, <1>4, <1>5, MappedAfter DEF IndexInv
<1>7. alive' => alive
  <2>1. CASE ClientRequest \/ ManagerRequest
    <3>1. Request => alive
      BY DEF Request, Stimulus
    <3>2. /\ ForceRefresh => Request
          /\ \A n, i : AddLink(n, i) => Request
          /\ \A n : (DelLink(n) => Request) /\ (MarkAsUnManaged(n) => Request)
      BY Zenon DEF ForceRefresh, AddLink, DelLink, MarkAsUnManaged
    <3>3. ASSUME NEW n, NEW mod, NEW oper, NEW slaac, NEW dhcpv4, ModLink(n, mod, oper, slaac, dhcpv4)
          PROVE  Request
      BY <3>3 DEF ModLink
    <3>4. /\ \A n, old, new : DhcpV4Set(n, old, new) => Request
          /\ \A n, state : UpdateExternalInterfaceState(n, state) => Request
      BY Zenon DEF DhcpV4Set, UpdateExternalInterfaceState
    <3>5. QED
      BY <2>1, <3>1, <3>2, <3>3, <3>4, Zenon DEF ClientRequest, ManagerRequest
  <2>2. CASE KernelChange \/ Forward \/ UNCHANGED vars
    BY <2>2 DEF KernelChange, LinkArrives, LinkDeparts, OperChanges, Stimulus, Forward, vars
  <2>3. CASE Handle
    BY <2>3 DEF Handle, HandleNetlink, HandleUpdate, HandleForceRefresh, Take, Tell, Install
  <2>4. QED
    BY <2>1, <2>2, <2>3 DEF Next
<1>8. QED
  BY <1>1, <1>2, <1>3, <1>4, <1>5, <1>6, <1>7 DEF IndexInv

\* At the start the daemon knows no index.
LEMMA InitIndex == Init => TypeOK /\ TableSound /\ IndexInv
<1> SUFFICES ASSUME Init PROVE TypeOK /\ TableSound /\ IndexInv
  OBVIOUS
<1>1. TypeOK /\ TableSound
  BY InitType
<1>2. \A n \in Name : table.interfaces[n] = None
  BY DEF Init, EmptyTable
<1>3. (\A j \in 1..Len(mailbox) : mailbox[j].type = "ForceRefresh") /\ pc = Idle
  BY DEF Init
<1>4. FiledInv /\ MappedInv
  BY <1>2, <1>3 DEF FiledInv, MappedInv, Idle
<1>5. \A i \in Index, n \in Name : ~KnownAs(i, n)
  BY <1>2, <1>3 DEF KnownAs, Stored, Told, Mailed, Dumped, Idle
<1>6. UniqueInv
  BY <1>5 DEF UniqueInv, Owns, Init
<1>7. QED
  BY <1>1, <1>4, <1>6 DEF IndexInv

-------------------------------------------------------------------------------
(***************************************************************************)
(* The subscribers.  While an interface of the table is not what they were *)
(* told last, an update of it is on its way, or a notice waits that will   *)
(* make one: a notice of any kind about its index, but one of an address   *)
(* only while the kernel has a link with the index.                        *)
(***************************************************************************)
About(j, n) == mailbox[j].type = "Update" /\ mailbox[j].event.info.name = n

Telling(n) == pc.at = "tell" /\ pc.event.info.name = n

Updated(n) == Telling(n) \/ \E j \in 1..Len(mailbox) : About(j, n)

Expected(n) ==
  LET i == table.interfaces[n].id
  IN \/ Updated(n)
     \/ Waiting({"NewLink", "DyingLink", "DelLink"}, i)
     \/ Waiting({"Address"}, i) /\ \E m \in Name : Owns(i, m)

Unheard(n) == table.interfaces[n] # None /\ announced[n] # table.interfaces[n]

HeardInv == alive => \A n \in Name : Unheard(n) => Expected(n)

\* The updates on their way after each kind of step.
LEMMA UpdatedKept ==
  ASSUME TypeOK, TypeOK', NEW n, Updated(n),
         Environment \/ Forward \/ HandleNetlink \/ Tell \/ Install
  PROVE  Updated(n)'
<1> DEFINE Queued(j) == j \in 1..Len(mailbox') /\ mailbox'[j].type = "Update" /\ mailbox'[j].event.info.name = n
<1>0. \A j : Queued(j) => Updated(n)'
  BY DEF Updated, About
<1> HIDE DEF Queued
<1>1. CASE Environment
  <2>1. PICK new \in Seq(Notice) : Touched(new) \/ RefreshBegins
    BY <1>1 DEF Environment
  <2>2. PICK d \in {0, 1} :
          /\ d = 0 \/ mailbox[1].type = "ForceRefresh"
          /\ \A j \in 1..Len(mailbox) : j > d => j - d \in 1..Len(mailbox') /\ mailbox'[j - d] = mailbox[j]
    BY <2>1, EnvironmentMailbox
  <2>3. ASSUME NEW j \in 1..Len(mailbox), About(j, n) PROVE Updated(n)'
    <3>1. j > d
      BY <2>2, <2>3 DEF About
    <3>2. j - d \in 1..Len(mailbox') /\ mailbox'[j - d] = mailbox[j]
      BY <2>2, <3>1
    <3>3. Queued(j - d)
      BY <2>3, <3>2 DEF About, Queued
    <3>4. QED
      BY <1>0, <3>3
  <2>4. Telling(n) => Telling(n)'
    BY <2>1 DEF Touched, RefreshBegins, Telling, Idle
  <2>5. QED
    BY <2>3, <2>4 DEF Updated
<1>2. CASE Forward
  <2>1. Len(mailbox') = Len(mailbox) + 1 /\ \A j \in 1..Len(mailbox) : mailbox'[j] = mailbox[j]
    BY <1>2, QueueFields DEF Forward
  <2>2. \A j \in 1..Len(mailbox) : j \in 1..Len(mailbox') /\ mailbox'[j] = mailbox[j]
    BY <2>1, QueueFields
  <2>3. UNCHANGED pc
    BY <1>2 DEF Forward
  <2>4. QED
    BY <2>2, <2>3 DEF Updated, About, Telling
<1>3. CASE HandleNetlink
  <2>1. mailbox # <<>> /\ mailbox' = Tail(mailbox) /\ mailbox[1].type = "Netlink" /\ pc = Idle
    BY <1>3, QueueFields DEF HandleNetlink, Take
  <2>2. \A j \in 1..Len(mailbox) : j > 1 => j - 1 \in 1..Len(mailbox') /\ mailbox'[j - 1] = mailbox[j]
    BY <2>1, QueueFields
  <2>3. PICK j \in 1..Len(mailbox) : About(j, n)
    BY <2>1 DEF Updated, Telling, Idle
  <2>4. j > 1
    BY <2>1, <2>3 DEF About
  <2>5. Queued(j - 1)
    BY <2>2, <2>3, <2>4 DEF About, Queued
  <2>6. QED
    BY <1>0, <2>5
<1>4. CASE Tell
  <2>1. /\ Len(mailbox') = Len(mailbox) + 1 /\ \A j \in 1..Len(mailbox) : mailbox'[j] = mailbox[j]
        /\ mailbox'[Len(mailbox) + 1] = [type |-> "Update", event |-> pc.event]
    BY <1>4, QueueFields DEF Tell
  <2>2. Len(mailbox) + 1 \in 1..Len(mailbox') /\ \A j \in 1..Len(mailbox) : j \in 1..Len(mailbox')
    BY <2>1, QueueFields
  <2>3. Telling(n) => Queued(Len(mailbox) + 1)
    BY <2>1, <2>2 DEF Telling, Queued
  <2>4. \A j \in 1..Len(mailbox) : About(j, n) => Queued(j)
    BY <2>1, <2>2 DEF About, Queued
  <2>5. QED
    BY <1>0, <2>3, <2>4 DEF Updated
<1>5. CASE Install
  BY <1>5 DEF Install, Updated, About, Telling
<1>6. QED
  BY <1>1, <1>2, <1>3, <1>4, <1>5

\* Handling an update of another name leaves the updates of a name.
LEMMA UpdatedTaken ==
  ASSUME TypeOK, TypeOK', NEW n, Updated(n), HandleUpdate, mailbox[1].event.info.name # n
  PROVE  Updated(n)'
<1>1. mailbox # <<>> /\ mailbox' = Tail(mailbox) /\ pc = Idle
  BY UpdateHandled
<1>2. \A j \in 1..Len(mailbox) : j > 1 => j - 1 \in 1..Len(mailbox') /\ mailbox'[j - 1] = mailbox[j]
  BY <1>1, QueueFields
<1>3. PICK j \in 1..Len(mailbox) : About(j, n)
  BY <1>1 DEF Updated, Telling, Idle
<1>4. j > 1
  BY <1>3 DEF About
<1>5. \E k \in 1..Len(mailbox') : mailbox'[k].type = "Update" /\ mailbox'[k].event.info.name = n
  BY <1>2, <1>3, <1>4 DEF About
<1>6. QED
  BY <1>5 DEF Updated, About

\* Changes of the kernel and of the table's own knowledge.
LEMMA HeardInEnvironment ==
  ASSUME TypeOK, TypeOK', IndexInv, IndexInv', ~PromptReuse, HeardInv, alive, alive',
         NEW new \in Seq(Notice), Evolves(new), Touched(new) \/ RefreshBegins,
         NEW n \in Name, Unheard(n)'
  PROVE  Expected(n)'
<1>1. PICK i \in Index : i = table'.interfaces[n].id
  BY DEF Unheard, TypeOK, Table, Info
<1>2. ASSUME \/ Updated(n)'
             \/ Waiting({"NewLink", "DyingLink", "DelLink"}, i)'
             \/ Waiting({"Address"}, i)' /\ \E m \in Name : kernel'[m] # None /\ kernel'[m].id = i
      PROVE  Expected(n)'
  BY <1>1, <1>2 DEF Expected, Waiting, Tells, Owns
<1>3. CASE \E a \in DOMAIN new : new[a].index = i /\ new[a].kind = "Address"
           /\ \E m \in Name : kernel'[m] # None /\ kernel'[m].id = i
  BY <1>2, <1>3, WaitingAfterEnvironment
<1>4. CASE ~ \E a \in DOMAIN new : new[a].index = i /\ new[a].kind = "Address"
             /\ \E m \in Name : kernel'[m] # None /\ kernel'[m].id = i
  <2>1. Unheard(n) /\ table.interfaces[n].id = i
    <3>1. CASE UNCHANGED <<table, announced>>
      BY <1>1, <3>1 DEF Unheard
    <3>2. ASSUME NEW m \in Name, NEW info \in Info, Touches(new, info, m)
          PROVE  Unheard(n) /\ table.interfaces[n].id = i
      <4>1. /\ \A p \in Name : table'.interfaces[p] = IF p = m THEN info ELSE table.interfaces[p]
            /\ table.interfaces[m] # None /\ info.id = table.interfaces[m].id
        BY <3>2, StoredAfter DEF Touches, SameLink
      <4>2. CASE announced' = [announced EXCEPT ![m] = info]
        <5>1. announced \in [Name -> Info \cup {None}]
          BY DEF TypeOK
        <5>2. \A p \in Name : announced'[p] = IF p = m THEN info ELSE announced[p]
          BY <4>2, <5>1
        <5>3. QED
          BY <1>1, <4>1, <5>2 DEF Unheard
      <4>3. CASE /\ UNCHANGED announced
                 /\ \E a \in DOMAIN new : new[a].index = info.id /\ new[a].kind = "Address"
                 /\ \E p \in Name : kernel'[p] # None /\ kernel'[p].id = info.id
        <5>1. n # m
          BY <1>1, <1>4, <4>1, <4>3
        <5>2. QED
          BY <1>1, <4>1, <4>3, <5>1 DEF Unheard
      <4>4. CASE UNCHANGED announced /\ info = table.interfaces[m]
        BY <1>1, <4>1, <4>4 DEF Unheard
      <4>5. QED
        BY <3>2, <4>2, <4>3, <4>4 DEF Touches
    <3>3. QED
      BY <3>1, <3>2 DEF Touched, RefreshBegins
  <2>2. Expected(n)
    BY <2>1 DEF HeardInv
  <2>3. CASE Updated(n)
    <3>1. Environment
      BY DEF Environment
    <3>2. QED
      BY <1>2, <2>3, <3>1, UpdatedKept
  <2>4. CASE Waiting({"NewLink", "DyingLink", "DelLink"}, i)
    BY <1>2, <2>4, WaitingAfterEnvironment
  <2>5. CASE Waiting({"Address"}, i) /\ \E m \in Name : Owns(i, m)
    <3>1. PICK m \in Name : kernel[m] # None /\ kernel[m].id = i
      BY <2>5 DEF Owns
    <3>2. CASE kernel'[m] # None
      <4>1. kernel'[m].id = i
        BY <3>1, <3>2 DEF Evolves
      <4>2. QED
        BY <1>2, <2>5, <3>2, <4>1, WaitingAfterEnvironment
    <3>3. CASE kernel'[m] = None
      <4>1. \E a \in DOMAIN new : new[a].index = i /\ new[a].kind \in Deaths
        BY <3>1, <3>3 DEF Evolves
      <4>2. \E a \in DOMAIN new : new[a].kind \in {"NewLink", "DyingLink", "DelLink"} /\ new[a].index = i
        BY <4>1 DEF Deaths
      <4>3. QED
        BY <1>2, <4>2, WaitingAfterEnvironment
    <3>4. QED
      BY <3>2, <3>3
  <2>6. QED
    BY <2>1, <2>2, <2>3, <2>4, <2>5 DEF Expected
<1>5. QED
  BY <1>3, <1>4

\* A notice is turned into an update.
LEMMA HeardFromNotice ==
  ASSUME TypeOK, TypeOK', TableSound, IndexInv, HeardInv, alive, HandleNetlink,
         NEW n \in Name, Unheard(n)'
  PROVE  Expected(n)'
<1>0. /\ UNCHANGED <<kernel, table, announced>> /\ pc' = Reaction(mailbox[1].notice)
      /\ mailbox[1].type = "Netlink" /\ mailbox[1].notice \in Notice
  <2>1. Take("Netlink") /\ UNCHANGED netlink
    BY DEF HandleNetlink
  <2>2. mailbox[1] \in Message /\ mailbox[1].type = "Netlink" /\ Head(mailbox) = mailbox[1]
    BY <2>1, QueueTaken
  <2>3. QED
    BY <2>2, MessageType DEF HandleNetlink
<1> DEFINE notice == mailbox[1].notice
<1>1. PICK i \in Index : i = table.interfaces[n].id /\ table'.interfaces[n].id = i
  BY <1>0 DEF Unheard, TypeOK, Table, Info
<1>2. ASSUME \/ Updated(n)'
             \/ Waiting({"NewLink", "DyingLink", "DelLink"}, i)'
             \/ Waiting({"Address"}, i)' /\ \E m \in Name : Owns(i, m)
      PROVE  Expected(n)'
  BY <1>0, <1>1, <1>2 DEF Expected, Waiting, Tells, Owns
<1>3. Unheard(n)
  BY <1>0 DEF Unheard
<1>4. Expected(n)
  BY <1>3 DEF HeardInv
<1> HIDE DEF notice
<1>5. ASSUME notice.index = i,
             notice.kind # "Address" \/ \E m \in Name : Owns(i, m)
      PROVE  Updated(n)'
  <2>1. table.index_to_name[i] = n /\ n # None
    BY <1>1, <1>3, NoneAssumption DEF IndexInv, MappedInv, Unheard
  <2>2. KnownAs(i, n)
    BY <1>1, <1>3 DEF KnownAs, Stored, Unheard
  <2>3. LinkAt(i) = None => ~ \E m \in Name : Owns(i, m)
    <3>1. \A m \in Name : Owns(i, m) => m \in Present(kernel) /\ kernel[m].id = i
      BY DEF Owns, Present
    <3>2. (\E m \in Name : Owns(i, m)) => LinkAt(i) \in Present(kernel)
      BY <3>1 DEF LinkAt
    <3>3. QED
      BY <3>2, NoneAssumption DEF Present
  <2>4. \E kind, info : Reaction(notice) = TellSelf(kind, info) /\ info.name = n
    <3>1. LET live == LinkAt(i)
          IN \/ /\ Reaction(notice) = Idle
                /\ n = None \/ (notice.kind = "Address" /\ live = None)
                /\ live = None \/ notice.kind \in Deaths
             \/ /\ table.interfaces[n].name = n
                /\ Reaction(notice) = TellSelf("Removed", table.interfaces[n])
             \/ /\ live \in Name /\ Owns(i, live)
                /\ \E kind \in {"Added", "Changed"} :
                     Reaction(notice) = TellSelf(kind, InfoOf(live, kernel[live]))
      <4>1. notice \in Notice
        BY <1>0 DEF notice
      <4>2. FiledInv
        BY DEF IndexInv
      <4>3. QED
        BY <1>5, <2>1, <4>1, <4>2, ReactionTells
    <3>2. CASE /\ table.interfaces[n].name = n
               /\ Reaction(notice) = TellSelf("Removed", table.interfaces[n])
      BY <3>2
    <3>3. ASSUME NEW live \in Name, Owns(i, live), NEW kind,
                 Reaction(notice) = TellSelf(kind, InfoOf(live, kernel[live]))
          PROVE  \E k, info : Reaction(notice) = TellSelf(k, info) /\ info.name = n
      <4>1. live = n
        BY <2>2, <3>3 DEF IndexInv, UniqueInv
      <4>2. InfoOf(live, kernel[live]).name = n
        BY <4>1 DEF InfoOf
      <4>3. QED
        BY <3>3, <4>2
    <3>4. ~ (n = None \/ (notice.kind = "Address" /\ LinkAt(i) = None))
      BY <1>5, <2>1, <2>3
    <3>5. QED
      BY <3>1, <3>2, <3>3, <3>4
  <2>5. QED
    BY <1>0, <2>4 DEF Updated, Telling, TellSelf, notice
<1>6. CASE Updated(n)
  BY <1>2, <1>6, UpdatedKept
<1>7. CASE Waiting({"NewLink", "DyingLink", "DelLink"}, i)
  <2>1. CASE Waiting({"NewLink", "DyingLink", "DelLink"}, i)'
    BY <1>2, <2>1
  <2>2. CASE Tells(mailbox[1], {"NewLink", "DyingLink", "DelLink"}, i)
    BY <1>2, <1>5, <2>2 DEF Tells, notice
  <2>3. QED
    BY <1>7, <2>1, <2>2, WaitingAfterTake
<1>8. CASE Waiting({"Address"}, i) /\ \E m \in Name : Owns(i, m)
  <2>1. CASE Waiting({"Address"}, i)'
    BY <1>2, <1>8, <2>1
  <2>2. CASE Tells(mailbox[1], {"Address"}, i)
    BY <1>2, <1>5, <1>8, <2>2 DEF Tells, notice
  <2>3. QED
    BY <1>8, <2>1, <2>2, WaitingAfterTake
<1>9. QED
  BY <1>1, <1>4, <1>6, <1>7, <1>8 DEF Expected

\* The other steps of the stream task and the actor.
LEMMA HeardFromMove ==
  ASSUME TypeOK, TypeOK', IndexInv, HeardInv, alive, Forward \/ Tell \/ HandleUpdate \/ Install,
         NEW n \in Name, Unheard(n)'
  PROVE  Expected(n)'
<1>1. UNCHANGED kernel
  BY DEF Forward, Tell, HandleUpdate, Install
<1>2. PICK i \in Index : i = table'.interfaces[n].id
  BY DEF Unheard, TypeOK, Table, Info
<1>3. ASSUME \/ Updated(n)'
             \/ Waiting({"NewLink", "DyingLink", "DelLink"}, i)'
             \/ Waiting({"Address"}, i)' /\ \E m \in Name : Owns(i, m)
      PROVE  Expected(n)'
  BY <1>1, <1>2, <1>3 DEF Expected, Waiting, Tells, Owns
<1>4. ASSUME HandleUpdate
      PROVE  /\ Unheard(n) /\ table.interfaces[n] = table'.interfaces[n]
             /\ mailbox[1].event.info.name # n
  <2> DEFINE m == mailbox[1].event.info.name
  <2>1. m \in Name
    BY <1>4, UpdateHandled
  <2>2. CASE mailbox[1].event.kind = "Removed"
    <3>1. table' = Remove(table, m) /\ UNCHANGED announced
      BY <1>4, <2>2, UpdateHandled
    <3> HIDE DEF m
    <3>2. \A p \in Name : table'.interfaces[p] = IF p = m THEN None ELSE table.interfaces[p]
      BY <2>1, <3>1, StoredAfter
    <3>3. QED
      BY <3>1, <3>2 DEF Unheard, m
  <2>3. CASE mailbox[1].event.kind # "Removed"
    <3>1. PICK info \in Info :
            /\ info.name = m
            /\ table' = Insert(table, info) \/ table' = Update(table, info)
            /\ announced' = [announced EXCEPT ![m] = info]
      BY <1>4, <2>3, UpdateHandled DEF Revised
    <3> HIDE DEF m
    <3>2. \A p \in Name : table'.interfaces[p] = IF p = m THEN info ELSE table.interfaces[p]
      BY <3>1, StoredAfter
    <3>3. \A p \in Name : announced'[p] = IF p = m THEN info ELSE announced[p]
      BY <2>1, <3>1 DEF TypeOK
    <3>4. QED
      BY <3>2, <3>3 DEF Unheard, m
  <2>4. QED
    BY <2>2, <2>3
<1>5. Unheard(n) /\ table.interfaces[n] = table'.interfaces[n]
  <2>1. CASE Forward \/ Tell
    <3>1. UNCHANGED <<table, announced>>
      BY <2>1 DEF Forward, Tell
    <3>2. QED
      BY <3>1 DEF Unheard
  <2>2. CASE Install
    <3>1. /\ table' = TableOf(pc.links)
          /\ \E S \in SUBSET {m \in Name : pc.links[m] = table.interfaces[m]} :
               announced' = [m \in Name |-> IF m \in S THEN announced[m] ELSE pc.links[m]]
      <4> DEFINE same == {m \in Name : pc.links[m] = table.interfaces[m]}
      <4>1. PICK flags : announced' = [m \in Name |-> IF m \in same \ flags THEN announced[m]
                                                       ELSE pc.links[m]]
        BY <2>2 DEF Install
      <4>2. same \ flags \in SUBSET same
        OBVIOUS
      <4>3. QED
        BY <2>2, <4>1, <4>2 DEF Install
    <3>2. table'.interfaces = pc.links
      BY <3>1, StoredAfter
    <3>3. QED
      BY <3>1, <3>2 DEF Unheard
  <2>3. QED
    BY <1>4, <2>1, <2>2
<1>6. Expected(n)
  BY <1>5 DEF HeardInv
<1>7. CASE Updated(n)
  BY <1>3, <1>4, <1>7, UpdatedKept, UpdatedTaken
<1>8. ASSUME NEW kinds, Waiting(kinds, i)
      PROVE  Waiting(kinds, i)'
  <2>1. CASE Forward \/ Tell
    BY <1>8, <2>1, WaitingAfterMove
  <2>2. CASE HandleUpdate
    <3>1. ~HandleNetlink
      BY <2>2 DEF HandleUpdate, HandleNetlink, Take
    <3>2. QED
      BY <1>8, <2>2, <3>1, WaitingAfterTake
  <2>3. CASE Install
    BY <1>8, <2>3, WaitingAfterInstall
  <2>4. QED
    BY <2>1, <2>2, <2>3
<1>9. QED
  BY <1>2, <1>3, <1>5, <1>6, <1>7, <1>8 DEF Expected

-------------------------------------------------------------------------------
\* Once every notice has been handled, the subscribers were told last of each interface of
\* the table what the table has in every field of Info, for any number of interfaces,
\* indices, changes and requests.  The SLAAC flag is not among them: ModLink sets it in the
\* table and tells nobody (FlagsTold does not hold).
THEOREM SubscribersAlwaysCurrent ==
  ASSUME ~PromptReuse
  PROVE  Spec => []SubscribersCurrent
<1> DEFINE Inv == TypeOK /\ TableSound /\ IndexInv /\ HeardInv
<1>1. Init => Inv
  <2> SUFFICES ASSUME Init PROVE Inv
    OBVIOUS
  <2>1. \A n \in Name : ~Unheard(n)
    BY DEF Init, EmptyTable, Unheard
  <2>2. QED
    BY <2>1, InitIndex DEF HeardInv
<1>2. Inv /\ [Next]_vars => Inv'
  <2> SUFFICES ASSUME Inv, [Next]_vars PROVE Inv'
    OBVIOUS
  <2>1. /\ TypeOK' /\ TableSound' /\ IndexInv'
        /\ Environment \/ Forward \/ HandleNetlink \/ Tell \/ HandleUpdate \/ Install
        /\ alive' => alive
    BY IndexStays
  <2>2. ASSUME alive', NEW n \in Name, Unheard(n)'
        PROVE  Expected(n)'
    BY <2>1, <2>2, HeardInEnvironment, HeardFromNotice, HeardFromMove DEF Environment
  <2>3. HeardInv'
    BY <2>2 DEF HeardInv
  <2>4. QED
    BY <2>1, <2>3
<1>3. Inv => SubscribersCurrent
  <2> SUFFICES ASSUME Inv, Quiet, NEW n \in Name, table.interfaces[n] # None
               PROVE  announced[n] = table.interfaces[n]
    BY DEF SubscribersCurrent
  <2>1. alive /\ DOMAIN Queue = {} /\ Len(mailbox) = 0 /\ pc = Idle
    BY QueueFields DEF Quiet
  <2>2. ~Expected(n)
    BY <2>1 DEF Expected, Updated, Telling, Waiting, Idle
  <2>3. QED
    BY <2>1, <2>2 DEF HeardInv, Unheard
<1>4. QED
  BY <1>1, <1>2, <1>3, PTL DEF Spec

-------------------------------------------------------------------------------
(***************************************************************************)
(* The links of the kernel.  While no news of a link waits, what the actor *)
(* does last about its name shows it: an event it is about to send to      *)
(* itself, the last one in its mailbox, a dump of the kernel that is not   *)
(* installed yet, or the table.  A removal never is the last, for its      *)
(* notice either names the index of a link that is gone for good, or is    *)
(* followed by news of the link that has the name now.                     *)
(***************************************************************************)
\* No removal waits of an index that a link has.
DeadInv == \A i \in Index, n \in Name : Owns(i, n) => ~Waiting(Deaths, i)

\* A notice of an index that the kernel's link no longer has is followed by news of the link.
StaleInv ==
  \A i \in Index, n \in Name :
    KnownAs(i, n) /\ kernel[n] # None /\ kernel[n].id # i =>
      \A p \in DOMAIN Queue : Queue[p].type = "Netlink" /\ Queue[p].notice.index = i =>
        \E q \in DOMAIN Queue : q > p /\ Tells(Queue[q], News, kernel[n].id)

Shows(info, n, link) ==
  /\ info # None /\ info.id = link.id /\ info.addrs = link.addrs
  /\ info.state \in {StateOf(n, link), "Unmanaged"} \/ n \in Wlans

LastAbout(j, n) == About(j, n) /\ \A k \in 1..Len(mailbox) : k > j => ~About(k, n)

ShownBy(event, n, link) == event.kind # "Removed" /\ Shows(event.info, n, link)

NoRefresh == \A j \in 1..Len(mailbox) : mailbox[j].type # "ForceRefresh"

Shown(n) ==
  /\ Telling(n) => ShownBy(pc.event, n, kernel[n])
  /\ ~Telling(n) => \A j \in 1..Len(mailbox) : LastAbout(j, n) => ShownBy(mailbox[j].event, n, kernel[n])
  /\ ~Updated(n) /\ NoRefresh =>
       Shows(IF pc.at = "install" THEN pc.links[n] ELSE table.interfaces[n], n, kernel[n])

ShownInv == \A n \in Name : kernel[n] # None /\ ~Waiting(News, kernel[n].id) => Shown(n)

LiveInv == DeadInv /\ StaleInv /\ ShownInv

\* A step of the kernel makes no notice of a removal that names a link it keeps.
LEMMA DeadInEnvironment ==
  ASSUME TypeOK, TypeOK', UniqueInv, DeadInv, ~PromptReuse, Environment
  PROVE  DeadInv'
<1> SUFFICES ASSUME NEW i \in Index, NEW n \in Name, Owns(i, n)', Waiting(Deaths, i)'
             PROVE  FALSE
  BY DEF DeadInv
<1>1. PICK new \in Seq(Notice) : Evolves(new) /\ (Touched(new) \/ RefreshBegins)
  BY DEF Environment
<1>2. kernel'[n] # None /\ kernel'[n].id = i
  BY DEF Owns
<1>3. ~Waiting(Deaths, i) /\ (Owns(i, n) \/ i \in FreeIndex(kernel))
  <2>1. CASE kernel[n] # None
    <3>1. Owns(i, n)
      BY <1>1, <1>2, <2>1 DEF Evolves, Owns
    <3>2. QED
      BY <3>1 DEF DeadInv
  <2>2. CASE kernel[n] = None
    <3>1. i \in FreeIndex(kernel)
      BY <1>1, <1>2, <2>2 DEF Evolves
    <3>2. QED
      BY <3>1, FreshIndex
  <2>3. QED
    BY <2>1, <2>2
<1>4. PICK a \in DOMAIN new : new[a].kind \in Deaths /\ new[a].index = i
  BY <1>1, <1>3, WaitingAfterEnvironment
<1>5. new[a].kind \notin News
  BY <1>4 DEF News, Deaths
<1>6. ASSUME NEW m \in Name, kernel[m] # None, kernel'[m] = None, kernel[m].id = i
      PROVE  FALSE
  <2>1. Owns(i, m) /\ m # n
    BY <1>2, <1>6 DEF Owns
  <2>2. i \notin FreeIndex(kernel)
    BY <2>1, FreshIndex
  <2>3. QED
    BY <1>3, <2>1, <2>2 DEF UniqueInv
<1>7. QED
  BY <1>1, <1>2, <1>4, <1>5, <1>6 DEF Evolves

\* The stream task and the actor add no notice.
LEMMA DeadInMove ==
  ASSUME TypeOK, TypeOK', DeadInv, Forward \/ HandleNetlink \/ Tell \/ HandleUpdate \/ Install
  PROVE  DeadInv'
<1>1. UNCHANGED kernel
  BY DEF Forward, HandleNetlink, Tell, HandleUpdate, Install
<1>2. \A i \in Index : Waiting(Deaths, i)' => Waiting(Deaths, i)
  BY WaitingAfterMove, WaitingAfterTake, WaitingAfterInstall
<1>3. QED
  BY <1>1, <1>2 DEF DeadInv, Owns

\* What follows a notice in the queue follows it after a step of the stream task or the actor.
LEMMA QueueOrder ==
  ASSUME TypeOK, TypeOK', Forward \/ HandleNetlink \/ Tell \/ HandleUpdate \/ Install,
         NEW r \in DOMAIN Queue', Queue'[r].type = "Netlink"
  PROVE  \E p \in DOMAIN Queue :
           /\ Queue[p] = Queue'[r]
           /\ \A q \in DOMAIN Queue : q > p => \E s \in DOMAIN Queue' : s > r /\ Queue'[s] = Queue[q]
<1>1. CASE Forward
  BY <1>1, QueueForwarded
<1>2. CASE Install
  BY <1>2 DEF Install, Queue
<1>3. CASE HandleNetlink \/ HandleUpdate
  <2>1. PICK type : Take(type) /\ UNCHANGED netlink
    BY <1>3 DEF HandleNetlink, HandleUpdate
  <2>2. r \in Nat /\ r + 1 \in DOMAIN Queue /\ Queue[r + 1] = Queue'[r]
    <3>1. r \in Nat
      BY DEF Queue
    <3>2. \A p \in DOMAIN Queue' : p + 1 \in DOMAIN Queue /\ Queue'[p] = Queue[p + 1]
      BY <2>1, QueueTaken
    <3>3. QED
      BY <3>1, <3>2
  <2>3. ASSUME NEW q \in DOMAIN Queue, q > r + 1
        PROVE  \E s \in DOMAIN Queue' : s > r /\ Queue'[s] = Queue[q]
    <3>1. q \in Nat /\ q > 1 /\ q - 1 > r
      BY <2>2, <2>3, QueueFields
    <3>2. QED
      BY <2>1, <3>1, QueueTaken
  <2>4. QED
    BY <2>2, <2>3
<1>4. CASE Tell
  <2> DEFINE place(p) == IF p <= Len(mailbox) THEN p ELSE p + 1
  <2>1. PICK p \in DOMAIN Queue : r = place(p) /\ Queue'[r] = Queue[p]
    BY <1>4, QueueTold
  <2>2. ASSUME NEW q \in DOMAIN Queue, q > p
        PROVE  \E s \in DOMAIN Queue' : s > r /\ Queue'[s] = Queue[q]
    <3>1. p \in Nat /\ q \in Nat /\ Len(mailbox) \in Nat
      BY QueueFields
    <3>2. place(q) > place(p)
      BY <2>2, <3>1
    <3>3. place(q) \in DOMAIN Queue' /\ Queue'[place(q)] = Queue[q]
      BY <1>4, QueueTold
    <3>4. QED
      BY <2>1, <3>2, <3>3
  <2>3. QED
    BY <2>1, <2>2
<1>5. QED
  BY <1>1, <1>2, <1>3, <1>4

\* News of a link that takes over a name comes after every notice of the index the name had.
LEMMA StaleStays ==
  ASSUME TypeOK, TypeOK', TableSound, FiledInv, UniqueInv, StaleInv, ~PromptReuse,
         Environment \/ Forward \/ HandleNetlink \/ Tell \/ HandleUpdate \/ Install
  PROVE  StaleInv'
<1> SUFFICES ASSUME NEW i \in Index, NEW n \in Name,
                    KnownAs(i, n)', kernel'[n] # None, kernel'[n].id # i,
                    NEW r \in DOMAIN Queue', Queue'[r].type = "Netlink", Queue'[r].notice.index = i
             PROVE  \E s \in DOMAIN Queue' : s > r /\ Tells(Queue'[s], News, kernel'[n].id)
  BY DEF StaleInv, Tells
<1>1. KnownAs(i, n)
  BY KeysKept DEF Owns
<1>2. \A m \in Name : ~Owns(i, m) \/ m = n
  BY <1>1 DEF UniqueInv
<1>3. CASE Environment
  <2>1. PICK new \in Seq(Notice) : Evolves(new) /\ (Touched(new) \/ RefreshBegins)
    BY <1>3 DEF Environment
  <2>2. PICK d \in {0, 1} : \/ d = 0 /\ mailbox' = mailbox
                            \/ d = 1 /\ mailbox # <<>> /\ mailbox' = Tail(mailbox)
    BY <2>1, EnvironmentMailbox
  <2> DEFINE end == Len(mailbox) + Len(netlink) - d
  <2>3. /\ \A p \in DOMAIN Queue : p > d => p - d \in DOMAIN Queue' /\ Queue'[p - d] = Queue[p]
        /\ \A a \in DOMAIN new : end + a \in DOMAIN Queue'
                                 /\ Queue'[end + a] = [type |-> "Netlink", notice |-> new[a]]
        /\ \/ r + d \in DOMAIN Queue /\ Queue'[r] = Queue[r + d]
           \/ \E a \in DOMAIN new : r = end + a /\ Queue'[r] = [type |-> "Netlink", notice |-> new[a]]
    <3>1. netlink' = netlink \o new
      BY <2>1 DEF Evolves
    <3>2. /\ \A p \in DOMAIN Queue : p > d => p - d \in DOMAIN Queue' /\ Queue'[p - d] = Queue[p]
          /\ \A a \in DOMAIN new :
               /\ Len(mailbox) + Len(netlink) - d + a \in DOMAIN Queue'
               /\ Queue'[Len(mailbox) + Len(netlink) - d + a] = [type |-> "Netlink", notice |-> new[a]]
          /\ \A p \in DOMAIN Queue' :
               \/ p + d \in DOMAIN Queue /\ Queue'[p] = Queue[p + d]
               \/ \E a \in DOMAIN new : /\ p = Len(mailbox) + Len(netlink) - d + a
                                        /\ Queue'[p] = [type |-> "Netlink", notice |-> new[a]]
      BY ONLY TypeOK, TypeOK', new \in Seq(Notice), d \in {0, 1}, <2>2, <3>1, QueueGrows
    <3>3. QED
      BY <3>2
  <2>4. Len(mailbox) \in Nat /\ Len(netlink) \in Nat /\ DOMAIN Queue = 1..(Len(mailbox) + Len(netlink))
    BY QueueFields
  <2>5. r \in Nat
    BY QueueFields DEF Queue
  <2>6. i \notin FreeIndex(kernel)
    BY <1>1, FreshIndex
  <2>7. \A a \in DOMAIN new : new[a].index # i
    <3>0. SUFFICES ASSUME NEW a \in DOMAIN new, new[a].index = i PROVE FALSE
      OBVIOUS
    <3>1. \/ \E m \in Name : kernel'[m] # None /\ kernel'[m].id = i
          \/ \E m \in Name : kernel[m] # None /\ kernel'[m] = None /\ kernel[m].id = i
      <4>1. \/ \E m \in Name : kernel'[m] # None /\ kernel'[m].id = new[a].index
            \/ \E m \in Name : kernel[m] # None /\ kernel'[m] = None /\ kernel[m].id = new[a].index
            \/ new[a].index \in FreeIndex(kernel)
        BY <2>1, Zenon DEF Evolves
      <4>2. QED
        BY <2>6, <3>0, <4>1
    <3>2. \A m \in Name : kernel'[m] # None /\ kernel'[m].id = i => Owns(i, m)
      BY <2>1, <2>6 DEF Evolves, Owns
    <3>3. \A m \in Name : kernel[m] # None /\ kernel[m].id = i => m = n
      BY <1>2 DEF Owns
    <3>4. QED
      BY <3>1, <3>2, <3>3 DEF Owns
  <2>8. r + d \in DOMAIN Queue /\ Queue'[r] = Queue[r + d]
    <3>1. ASSUME NEW a \in DOMAIN new, Queue'[r] = [type |-> "Netlink", notice |-> new[a]]
          PROVE  FALSE
      BY <2>7, <3>1
    <3>2. QED
      BY <2>3, <3>1
  <2> HIDE DEF end
  <2>9. CASE kernel[n] # None
    <3>1. kernel[n].id = kernel'[n].id
      BY <2>1, <2>9 DEF Evolves
    <3>2. PICK q \in DOMAIN Queue : q > r + d /\ Tells(Queue[q], News, kernel[n].id)
      BY <1>1, <2>8, <2>9, <3>1 DEF StaleInv
    <3>3. q \in Nat /\ q > d /\ q - d > r
      BY <2>4, <2>5, <3>2
    <3>4. QED
      BY <2>3, <3>1, <3>2, <3>3
  <2>10. CASE kernel[n] = None
    <3>1. PICK a \in DOMAIN new : new[a].index = kernel'[n].id /\ new[a].kind \in News
      BY <2>1, <2>10 DEF Evolves
    <3>2. end + a \in DOMAIN Queue' /\ Tells(Queue'[end + a], News, kernel'[n].id)
      <4>1. end + a \in DOMAIN Queue' /\ Queue'[end + a] = [type |-> "Netlink", notice |-> new[a]]
        BY <2>3
      <4>2. Tells([type |-> "Netlink", notice |-> new[a]], News, kernel'[n].id)
        BY <3>1 DEF Tells
      <4>3. QED
        BY <4>1, <4>2
    <3>3. a \in Nat /\ a > 0
      OBVIOUS
    <3>4. end + a > r
      BY <2>4, <2>5, <2>8, <3>3 DEF end
    <3>5. QED
      BY <3>2, <3>4
  <2>11. QED
    BY <2>9, <2>10
<1>4. CASE Forward \/ HandleNetlink \/ Tell \/ HandleUpdate \/ Install
  <2>1. UNCHANGED kernel
    BY <1>4 DEF Forward, HandleNetlink, Tell, HandleUpdate, Install
  <2>2. PICK p \in DOMAIN Queue :
          /\ Queue[p] = Queue'[r]
          /\ \A q \in DOMAIN Queue : q > p => \E s \in DOMAIN Queue' : s > r /\ Queue'[s] = Queue[q]
    BY <1>4, QueueOrder
  <2>3. PICK q \in DOMAIN Queue : q > p /\ Tells(Queue[q], News, kernel[n].id)
    BY <1>1, <2>1, <2>2 DEF StaleInv
  <2>4. QED
    BY <2>1, <2>2, <2>3
<1>5. QED
  BY <1>3, <1>4

\* When the mailbox moves on, what was last about a name still is.
LEMMA LastShifts ==
  ASSUME NEW n, Len(mailbox) \in Nat, Len(mailbox') \in Nat, NEW d \in {0, 1},
         \A j \in 1..Len(mailbox') : j + d \in 1..Len(mailbox) /\ mailbox'[j] = mailbox[j + d],
         \A j \in 1..Len(mailbox) : j > d => j - d \in 1..Len(mailbox') /\ mailbox'[j - d] = mailbox[j],
         NEW j \in 1..Len(mailbox'), LastAbout(j, n)'
  PROVE  j + d \in 1..Len(mailbox) /\ LastAbout(j + d, n) /\ mailbox'[j] = mailbox[j + d]
<1>1. j + d \in 1..Len(mailbox) /\ mailbox'[j] = mailbox[j + d]
  OBVIOUS
<1>2. About(j + d, n)
  BY <1>1 DEF LastAbout, About
<1>3. ASSUME NEW k \in 1..Len(mailbox), k > j + d, About(k, n)
      PROVE  FALSE
  <2>1. k > d /\ k - d > j
    BY <1>3
  <2>2. k - d \in 1..Len(mailbox') /\ mailbox'[k - d] = mailbox[k]
    BY <2>1
  <2>3. ~(mailbox'[k - d].type = "Update" /\ mailbox'[k - d].event.info.name = n)
    BY <2>1, <2>2 DEF LastAbout, About
  <2>4. QED
    BY <1>3, <2>2, <2>3 DEF About
<1>4. QED
  BY <1>1, <1>2, <1>3 DEF LastAbout

\* A link that has not changed stays shown while the kernel evolves.
LEMMA ShownInEnvironment ==
  ASSUME TypeOK, TypeOK', FiledInv, ShownInv, Environment,
         NEW n \in Name, kernel'[n] # None, ~Waiting(News, kernel[n].id)'
  PROVE  Shown(n)'
<1>1. PICK new \in Seq(Notice) : Evolves(new) /\ (Touched(new) \/ RefreshBegins)
  BY DEF Environment
<1>2. PICK i : i = kernel'[n].id
  OBVIOUS
<1>3. ~(\E a \in DOMAIN new : new[a].kind \in News /\ new[a].index = i) /\ ~Waiting(News, i)
  <2>1. ~Waiting(News, i)'
    BY <1>2 DEF Waiting, Tells
  <2>2. QED
    BY <1>1, <2>1, WaitingAfterEnvironment
<1>4. kernel'[n] = kernel[n]
  BY <1>1, <1>2, <1>3 DEF Evolves
<1>5. Shown(n)
  BY <1>2, <1>3, <1>4 DEF ShownInv
<1>6. PICK d \in {0, 1} :
        /\ d = 0 \/ mailbox[1].type = "ForceRefresh"
        /\ d = 0 => mailbox' = mailbox
        /\ \A j \in 1..Len(mailbox') : j + d \in 1..Len(mailbox) /\ mailbox'[j] = mailbox[j + d]
        /\ \A j \in 1..Len(mailbox) : j > d => j - d \in 1..Len(mailbox') /\ mailbox'[j - d] = mailbox[j]
  BY <1>1, EnvironmentMailbox
<1>7. Len(mailbox) \in Nat /\ Len(mailbox') \in Nat
  BY DEF TypeOK
<1>8. \A j \in 1..Len(mailbox') : LastAbout(j, n)' =>
        j + d \in 1..Len(mailbox) /\ LastAbout(j + d, n) /\ mailbox'[j] = mailbox[j + d]
  BY <1>6, <1>7, LastShifts
<1>9. Updated(n) => Updated(n)'
  BY UpdatedKept
<1>10. CASE RefreshBegins
  <2>1. pc = Idle /\ pc'.at = "install" /\ pc'.links = QueryLinks(kernel')
    BY <1>10 DEF RefreshBegins
  <2>2. ~Telling(n) /\ ~Telling(n)'
    BY <2>1 DEF Telling, Idle
  <2>3. \A j \in 1..Len(mailbox') : LastAbout(j, n)' => ShownBy(mailbox[j + d].event, n, kernel[n])
    BY <1>5, <1>8, <2>2 DEF Shown
  <2>4. \A j \in 1..Len(mailbox') : LastAbout(j, n)' => ShownBy(mailbox'[j].event, n, kernel'[n])
    BY <1>4, <1>8, <2>3
  <2>5. Shows(pc'.links[n], n, kernel'[n])
    <3>1. QueryLinks(kernel')[n] # None
      <4>1. kernel'[n] \in Link
        BY DEF TypeOK
      <4>2. [InfoOf(n, kernel'[n]) EXCEPT !.dhcpv4 = config.dhcpv4[n]] \in Info
        <5>1. InfoOf(n, kernel'[n]) \in Info /\ config.dhcpv4[n] \in BOOLEAN
          BY <4>1, InfoOfType DEF TypeOK
        <5>2. QED
          BY <5>1 DEF Info
      <4>3. QED
        BY <4>2, NoneIsNoRecord DEF QueryLinks
    <3>2. QED
      BY <2>1, <3>1, DumpedLink DEF Shows
  <2>6. QED
    BY <2>1, <2>2, <2>4, <2>5 DEF Shown
<1>11. CASE Touched(new)
  <2>1. UNCHANGED <<mailbox, pc>>
    BY <1>11 DEF Touched
  <2>2. Telling(n)' <=> Telling(n)
    BY <2>1 DEF Telling
  <2>3. Updated(n)' <=> Updated(n)
    BY <2>1 DEF Updated, Telling, About
  <2>4. NoRefresh' <=> NoRefresh
    BY <2>1 DEF NoRefresh
  <2>5. \A j \in 1..Len(mailbox') : LastAbout(j, n)' => LastAbout(j, n)
    BY <2>1 DEF LastAbout, About
  <2>6. Shows(table.interfaces[n], n, kernel[n]) => Shows(table'.interfaces[n], n, kernel[n])
    <3>1. CASE UNCHANGED <<table, announced>>
      BY <3>1
    <3>2. ASSUME NEW m \in Name, NEW info \in Info, Touches(new, info, m)
          PROVE  Shows(table.interfaces[n], n, kernel[n]) => Shows(table'.interfaces[n], n, kernel[n])
      <4>1. \A p \in Name : table'.interfaces[p] = IF p = m THEN info ELSE table.interfaces[p]
        BY <3>2, StoredAfter DEF Touches, SameLink
      <4>2. CASE n # m
        BY <4>1, <4>2
      <4>3. CASE n = m
        <5>1. info # None
          BY NoneIsNoRecord
        <5>2. table'.interfaces[n] = info
          BY <4>1, <4>3
        <5>3. QED
          BY <3>2, <4>3, <5>1, <5>2 DEF Touches, SameLink, Shows
      <4>4. QED
        BY <4>2, <4>3
    <3>3. QED
      BY <1>11, <3>1, <3>2 DEF Touched
  <2>7. QED
    BY <1>4, <1>5, <2>1, <2>2, <2>3, <2>4, <2>5, <2>6 DEF Shown, ShownBy
<1>12. QED
  BY <1>1, <1>10, <1>11

\* What the mailbox moves on to shows the link as the head did.
LEMMA ShownByUpdate ==
  ASSUME TypeOK, TypeOK', FiledInv, HandleUpdate, NEW n \in Name, kernel[n] # None, Shown(n)
  PROVE  Shown(n)'
<1> DEFINE told == mailbox[1].event.info
<1>1. /\ mailbox # <<>> /\ mailbox' = Tail(mailbox) /\ pc = Idle /\ UNCHANGED <<kernel, pc>>
      /\ mailbox[1].type = "Update" /\ told \in Info /\ told.name \in Name
      /\ \/ mailbox[1].event.kind = "Removed" /\ table' = Remove(table, told.name)
         \/ /\ mailbox[1].event.kind # "Removed"
            /\ \E info \in Info :
                 Revised(info, told) /\ (table' = Insert(table, info) \/ table' = Update(table, info))
  BY UpdateHandled
<1>2. /\ Len(mailbox) \in Nat /\ Len(mailbox') \in Nat
      /\ \A j \in 1..Len(mailbox') : j + 1 \in 1..Len(mailbox) /\ mailbox'[j] = mailbox[j + 1]
      /\ \A j \in 1..Len(mailbox) : j > 1 => j - 1 \in 1..Len(mailbox') /\ mailbox'[j - 1] = mailbox[j]
  BY <1>1 DEF TypeOK
<1>3. ~Telling(n) /\ ~Telling(n)' /\ pc'.at # "install" /\ pc.at # "install"
  BY <1>1 DEF Telling, Idle
<1>4. \A j \in 1..Len(mailbox') : LastAbout(j, n)' =>
        j + 1 \in 1..Len(mailbox) /\ LastAbout(j + 1, n) /\ mailbox'[j] = mailbox[j + 1]
  BY <1>2, LastShifts
<1>5. \A j \in 1..Len(mailbox') : LastAbout(j, n)' => ShownBy(mailbox'[j].event, n, kernel'[n])
  <2>1. \A j \in 1..Len(mailbox') : LastAbout(j, n)' => ShownBy(mailbox[j + 1].event, n, kernel[n])
    BY <1>3, <1>4 DEF Shown
  <2>2. QED
    BY <1>1, <1>4, <2>1
<1>6. ASSUME ~Updated(n)', NoRefresh'
      PROVE  Shows(table'.interfaces[n], n, kernel'[n])
  <2>1. NoRefresh
    <3>1. ASSUME NEW j \in 1..Len(mailbox), mailbox[j].type = "ForceRefresh"
          PROVE  FALSE
      <4>1. j > 1
        BY <1>1, <3>1
      <4>2. j - 1 \in 1..Len(mailbox') /\ mailbox'[j - 1] = mailbox[j]
        BY <1>2, <4>1
      <4>3. QED
        BY <1>6, <3>1, <4>2 DEF NoRefresh
    <3>2. QED
      BY <3>1 DEF NoRefresh
  <2>2. \A j \in 1..Len(mailbox) : j > 1 => ~About(j, n)
    <3> SUFFICES ASSUME NEW j \in 1..Len(mailbox), j > 1, About(j, n) PROVE FALSE
      OBVIOUS
    <3>1. j - 1 \in 1..Len(mailbox') /\ mailbox'[j - 1] = mailbox[j]
      BY <1>2
    <3>2. QED
      BY <1>6, <3>1 DEF Updated, About
  <2>3. CASE told.name # n
    <3>1. ~About(1, n)
      BY <2>3 DEF About
    <3>2. \A j \in 1..Len(mailbox) : ~About(j, n)
      BY <1>2, <2>2, <3>1
    <3>3. Shows(table.interfaces[n], n, kernel[n])
      BY <1>3, <2>1, <3>2 DEF Shown, Updated
    <3> HIDE DEF told
    <3>4. CASE table' = Remove(table, told.name)
      BY <1>1, <2>3, <3>3, <3>4, StoredAfter
    <3>5. CASE \E info \in Info :
                 Revised(info, told) /\ (table' = Insert(table, info) \/ table' = Update(table, info))
      <4>1. PICK info \in Info :
              Revised(info, told) /\ (table' = Insert(table, info) \/ table' = Update(table, info))
        BY <3>5
      <4>2. info.name # n
        BY <2>3, <4>1 DEF Revised
      <4>3. QED
        BY <1>1, <3>3, <4>1, <4>2, StoredAfter
    <3>6. QED
      BY <1>1, <3>4, <3>5
  <2>4. CASE told.name = n
    <3>1. 1 \in 1..Len(mailbox)
      BY <1>1, <1>2
    <3>2. About(1, n)
      BY <1>1, <2>4 DEF About
    <3>3. LastAbout(1, n)
      BY <2>2, <3>2 DEF LastAbout
    <3>4. ShownBy(mailbox[1].event, n, kernel[n])
      BY <1>3, <3>1, <3>3 DEF Shown
    <3>5. PICK info \in Info :
            Revised(info, told) /\ (table' = Insert(table, info) \/ table' = Update(table, info))
      BY <1>1, <3>4 DEF ShownBy
    <3>6. Shows(told, n, kernel[n])
      BY <3>4 DEF ShownBy
    <3> HIDE DEF told
    <3>7. table'.interfaces[n] = info
      BY <2>4, <3>5, StoredAfter DEF Revised
    <3>8. info # None
      BY NoneIsNoRecord
    <3>9. \/ info.state = told.state
          \/ info.state = "Unmanaged" \/ n \in Wlans
      <4>1. ASSUME table.interfaces[n] # None, table.interfaces[n].interface_type = "Wlan"
            PROVE  n \in Wlans
        BY <4>1 DEF FiledInv, Proper, Wlans
      <4>2. QED
        BY <2>4, <3>5, <4>1 DEF Revised
    <3>10. info.id = told.id /\ info.addrs = told.addrs
      BY <3>5 DEF Revised
    <3>11. QED
      BY <1>1, <3>6, <3>7, <3>8, <3>9, <3>10 DEF Shows
  <2>5. QED
    BY <2>3, <2>4
<1>7. QED
  BY <1>3, <1>5, <1>6 DEF Shown

\* A message joins the mailbox: the event that is last about a name is the one told, if any.
LEMMA ShownByMove ==
  ASSUME TypeOK, TypeOK', Forward \/ Tell \/ Install, NEW n \in Name, Shown(n)
  PROVE  Shown(n)'
<1>1. UNCHANGED kernel
  BY DEF Forward, Tell, Install
<1>2. CASE Install
  <2>1. /\ pc.at = "install" /\ table' = TableOf(pc.links) /\ pc' = Idle /\ UNCHANGED mailbox
    BY <1>2 DEF Install
  <2>2. table'.interfaces = pc.links
    BY <2>1, StoredAfter
  <2>3. ~Telling(n) /\ ~Telling(n)' /\ pc'.at # "install"
    BY <2>1 DEF Telling, Idle
  <2>4. /\ Updated(n)' <=> Updated(n)
        /\ NoRefresh' <=> NoRefresh
        /\ \A j \in 1..Len(mailbox') : LastAbout(j, n)' <=> LastAbout(j, n)
    BY <2>1, <2>3 DEF Updated, NoRefresh, LastAbout, About
  <2>5. QED
    BY <1>1, <2>1, <2>2, <2>3, <2>4 DEF Shown
<1>3. CASE Forward \/ Tell
  <2>1. PICK m : /\ mailbox' = Append(mailbox, m)
                 /\ m.type # "ForceRefresh"
                 /\ \/ m.type = "Netlink" /\ UNCHANGED pc
                    \/ pc.at = "tell" /\ pc' = Idle /\ m = [type |-> "Update", event |-> pc.event]
    BY <1>3 DEF Forward, Tell
  <2>2. UNCHANGED table
    BY <1>3 DEF Forward, Tell
  <2>3. /\ Len(mailbox) \in Nat /\ Len(mailbox') = Len(mailbox) + 1
        /\ mailbox'[Len(mailbox) + 1] = m
        /\ \A j \in 1..Len(mailbox) : mailbox'[j] = mailbox[j]
    BY <2>1 DEF TypeOK
  <2> DEFINE end == Len(mailbox) + 1
             isAbout(msg) == msg.type = "Update" /\ msg.event.info.name = n
  <2>4. /\ end \in 1..Len(mailbox')
        /\ \A j \in 1..Len(mailbox') : j \in 1..Len(mailbox) \/ j = end
        /\ \A j \in 1..Len(mailbox) : j \in 1..Len(mailbox') /\ end > j
    BY <2>3
  <2>5. mailbox'[end] = m
    BY <2>3
  <2> HIDE DEF end
  <2>6. NoRefresh' => NoRefresh
    BY <2>3, <2>4 DEF NoRefresh
  <2>7. CASE m.type = "Netlink" /\ UNCHANGED pc
    <3>1. ASSUME NEW j \in 1..Len(mailbox'), LastAbout(j, n)'
          PROVE  j \in 1..Len(mailbox) /\ LastAbout(j, n) /\ mailbox'[j] = mailbox[j]
      <4>1. j # end
        BY <2>5, <2>7, <3>1 DEF LastAbout, About
      <4>2. j \in 1..Len(mailbox) /\ mailbox'[j] = mailbox[j]
        BY <2>3, <2>4, <4>1
      <4>3. \A k \in 1..Len(mailbox) : k > j => ~About(k, n)
        BY <2>3, <2>4, <3>1 DEF LastAbout, About
      <4>4. QED
        BY <3>1, <4>2, <4>3 DEF LastAbout, About
    <3>2. Telling(n)' <=> Telling(n)
      BY <2>7 DEF Telling
    <3>3. Updated(n) => Updated(n)'
      BY <2>3, <2>4, <3>2 DEF Updated, About
    <3>4. QED
      BY <1>1, <2>2, <2>6, <2>7, <3>1, <3>2, <3>3 DEF Shown
  <2>8. CASE pc.at = "tell" /\ pc' = Idle /\ m = [type |-> "Update", event |-> pc.event]
    <3>1. ~Telling(n)' /\ pc'.at # "install"
      BY <2>8 DEF Telling, Idle
    <3>2. m.type = "Update" /\ m.event = pc.event
      BY <2>8
    <3>3. CASE Telling(n)
      <4>1. ShownBy(pc.event, n, kernel[n])
        BY <3>3 DEF Shown
      <4>2. mailbox'[end].type = "Update" /\ mailbox'[end].event.info.name = n
        BY <2>5, <3>2, <3>3 DEF Telling
      <4>3. ASSUME NEW j \in 1..Len(mailbox'), LastAbout(j, n)'
            PROVE  j = end
        BY <2>4, <3>3, <4>2, <4>3 DEF LastAbout, About
      <4>4. Updated(n)'
        BY <2>4, <4>2 DEF Updated, About
      <4>5. QED
        BY <1>1, <2>5, <3>1, <3>2, <4>1, <4>3, <4>4 DEF Shown
    <3>4. CASE ~Telling(n)
      <4>1. m.event.info.name # n
        BY <2>8, <3>2, <3>4 DEF Telling
      <4>2. ASSUME NEW j \in 1..Len(mailbox'), LastAbout(j, n)'
            PROVE  j \in 1..Len(mailbox) /\ LastAbout(j, n) /\ mailbox'[j] = mailbox[j]
        <5>1. j # end
          BY <2>5, <4>1, <4>2 DEF LastAbout, About
        <5>2. j \in 1..Len(mailbox) /\ mailbox'[j] = mailbox[j]
          BY <2>3, <2>4, <5>1
        <5>3. \A k \in 1..Len(mailbox) : k > j => ~About(k, n)
          BY <2>3, <2>4, <4>2 DEF LastAbout, About
        <5>4. QED
          BY <4>2, <5>2, <5>3 DEF LastAbout, About
      <4>3. Updated(n) => Updated(n)'
        BY <2>3, <2>4, <3>4 DEF Updated, About
      <4>4. QED
        BY <1>1, <2>2, <2>6, <2>8, <3>1, <3>4, <4>2, <4>3 DEF Shown
    <3>5. QED
      BY <3>3, <3>4
  <2>9. QED
    BY <2>1, <2>7, <2>8
<1>4. QED
  BY <1>2, <1>3

\* A notice makes an event that shows the link, or one about another name.
LEMMA ShownByNotice ==
  ASSUME TypeOK, TypeOK', TableSound, IndexInv, LiveInv, HandleNetlink,
         NEW n \in Name, kernel[n] # None, ~Waiting(News, kernel[n].id)'
  PROVE  Shown(n)'
<1> DEFINE notice == mailbox[1].notice
           j0     == notice.index
           live   == LinkAt(j0)
<1>1. /\ Take("Netlink") /\ UNCHANGED <<netlink, kernel, table>> /\ pc = Idle
      /\ mailbox # <<>> /\ mailbox' = Tail(mailbox)
  BY DEF HandleNetlink, Take
<1>2. mailbox[1] \in Message /\ mailbox[1].type = "Netlink" /\ Head(mailbox) = mailbox[1]
  BY <1>1, QueueTaken
<1>3. notice \in Notice /\ pc' = Reaction(notice)
  BY <1>2, MessageType DEF HandleNetlink
<1> HIDE DEF notice
<1>4. PICK k \in Index : k = kernel[n].id
  BY DEF TypeOK, Link
<1>5. ~Waiting(News, k)'
  BY <1>1, <1>4 DEF Waiting, Tells
<1>6. Owns(k, n) /\ \A m \in Name : Owns(k, m) => m = n
  BY <1>4 DEF Owns, IndexInv, UniqueInv
<1>7. /\ Len(mailbox) \in Nat /\ Len(mailbox') \in Nat
      /\ \A j \in 1..Len(mailbox') : j + 1 \in 1..Len(mailbox) /\ mailbox'[j] = mailbox[j + 1]
      /\ \A j \in 1..Len(mailbox) : j > 1 => j - 1 \in 1..Len(mailbox') /\ mailbox'[j - 1] = mailbox[j]
  BY <1>1 DEF TypeOK
<1>8. ASSUME ~(j0 = k /\ notice.kind \in News),
             pc'.at = "tell" => pc'.event.info.name # n, pc'.at # "install"
      PROVE  Shown(n)'
  <2>1. ~Tells(mailbox[1], News, k)
    BY <1>8 DEF Tells, notice
  <2>2. Shown(n)
    BY <1>4, <1>5, <2>1, WaitingAfterTake DEF LiveInv, ShownInv
  <2>3. ~Telling(n) /\ ~Telling(n)' /\ pc.at # "install"
    BY <1>1, <1>8 DEF Telling, Idle
  <2>4. \A j \in 1..Len(mailbox') : LastAbout(j, n)' =>
          j + 1 \in 1..Len(mailbox) /\ LastAbout(j + 1, n) /\ mailbox'[j] = mailbox[j + 1]
    BY <1>7, LastShifts
  <2>5. Updated(n) => Updated(n)'
    BY UpdatedKept
  <2>6. NoRefresh' => NoRefresh
    <3> SUFFICES ASSUME NoRefresh', NEW j \in 1..Len(mailbox), mailbox[j].type = "ForceRefresh"
                 PROVE  FALSE
      BY DEF NoRefresh
    <3>1. j > 1
      BY <1>2
    <3>2. j - 1 \in 1..Len(mailbox') /\ mailbox'[j - 1] = mailbox[j]
      BY <1>7, <3>1
    <3>3. QED
      BY <3>2 DEF NoRefresh
  <2>7. \A j \in 1..Len(mailbox') : LastAbout(j, n)' => ShownBy(mailbox'[j].event, n, kernel[n])
    BY <2>2, <2>3, <2>4 DEF Shown
  <2>8. QED
    BY <1>1, <1>8, <2>2, <2>3, <2>5, <2>6, <2>7 DEF Shown
<1> DEFINE m == table.index_to_name[j0]
<1>9. \/ /\ pc' = Idle
         /\ live = None \/ notice.kind \in Deaths
      \/ /\ m \in Name /\ Stored(j0, m)
         /\ live = None \/ notice.kind \in Deaths
         /\ table.interfaces[m].name = m
         /\ pc' = TellSelf("Removed", table.interfaces[m])
      \/ /\ live \in Name /\ Owns(j0, live) /\ notice.kind \in News
         /\ InfoOf(live, kernel[live]) \in Info
         /\ \E kind \in {"Added", "Changed"} : pc' = TellSelf(kind, InfoOf(live, kernel[live]))
  <2>1. FiledInv
    BY DEF IndexInv
  <2>2. QED
    BY <1>3, <2>1, ReactionTells
<1>10. j0 = k => live # None
  <2>1. n \in Present(kernel) /\ kernel[n].id = k
    BY <1>4, <1>6 DEF Present
  <2>2. j0 = k => live \in Present(kernel)
    BY <2>1 DEF LinkAt
  <2>3. QED
    BY <2>2, NoneAssumption DEF Present
<1>11. News \cap Deaths = {}
  BY DEF News, Deaths
<1> HIDE DEF j0, live, m
<1>12. CASE pc' = Idle /\ (live = None \/ notice.kind \in Deaths)
  <2>1. pc'.at = "idle"
    BY <1>12 DEF Idle
  <2>2. QED
    BY <1>8, <1>10, <1>11, <1>12, <2>1
<1>13. CASE /\ m \in Name /\ Stored(j0, m)
            /\ live = None \/ notice.kind \in Deaths
            /\ table.interfaces[m].name = m
            /\ pc' = TellSelf("Removed", table.interfaces[m])
  <2>1. pc'.at = "tell" /\ pc'.event.info.name = m
    BY <1>13 DEF TellSelf
  <2>2. CASE m # n
    BY <1>8, <1>10, <1>11, <1>13, <2>1, <2>2
  <2>3. CASE m = n
    <3>1. 1 \in DOMAIN Queue /\ Queue[1] = mailbox[1]
          /\ \A q \in DOMAIN Queue : q > 1 => q - 1 \in DOMAIN Queue' /\ Queue'[q - 1] = Queue[q]
      BY <1>1, QueueTaken
    <3>2. j0 # k
      <4>1. SUFFICES ASSUME j0 = k PROVE FALSE
        OBVIOUS
      <4>2. notice.kind \in Deaths
        BY <1>10, <1>13, <4>1
      <4>3. Tells(Queue[1], Deaths, k)
        BY <1>2, <3>1, <4>1, <4>2 DEF Tells, notice, j0
      <4>4. QED
        BY <1>6, <3>1, <4>3 DEF Waiting, LiveInv, DeadInv
    <3>3. KnownAs(j0, n) /\ j0 \in Index
      BY <1>3, <1>13, <2>3 DEF KnownAs, Notice, j0
    <3>4. Queue[1].type = "Netlink" /\ Queue[1].notice.index = j0
      BY <1>2, <3>1 DEF notice, j0
    <3>5. PICK q \in DOMAIN Queue : q > 1 /\ Tells(Queue[q], News, k)
      BY <1>4, <3>1, <3>2, <3>3, <3>4 DEF LiveInv, StaleInv
    <3>6. QED
      BY <1>5, <3>1, <3>5 DEF Waiting
  <2>4. QED
    BY <2>2, <2>3
<1>14. CASE /\ live \in Name /\ Owns(j0, live) /\ notice.kind \in News
            /\ InfoOf(live, kernel[live]) \in Info
            /\ \E kind \in {"Added", "Changed"} : pc' = TellSelf(kind, InfoOf(live, kernel[live]))
  <2>1. PICK kind \in {"Added", "Changed"} : pc' = TellSelf(kind, InfoOf(live, kernel[live]))
    BY <1>14
  <2>2. /\ pc'.at = "tell" /\ pc'.event.kind = kind
        /\ pc'.event.info = InfoOf(live, kernel[live]) /\ pc'.event.info.name = live
    BY <2>1 DEF TellSelf, InfoOf
  <2>3. CASE live # n
    <3>1. j0 # k
      BY <1>6, <1>14, <2>3
    <3>2. QED
      BY <1>8, <2>2, <2>3, <3>1
  <2>4. CASE live = n
    <3>1. Shows(InfoOf(n, kernel[n]), n, kernel[n])
      <4>1. InfoOf(n, kernel[n]) # None
        BY <1>14, <2>4, NoneIsNoRecord
      <4>2. QED
        BY <4>1 DEF Shows, InfoOf
    <3>2. ShownBy(pc'.event, n, kernel'[n])
      BY <1>1, <2>1, <2>2, <2>4, <3>1 DEF ShownBy
    <3>3. Telling(n)' /\ Updated(n)'
      BY <2>2, <2>4 DEF Telling, Updated
    <3>4. QED
      BY <3>2, <3>3 DEF Shown
  <2>5. QED
    BY <2>3, <2>4
<1>15. QED
  BY <1>9, <1>12, <1>13, <1>14

\* Every step keeps what is known of the kernel's links.
LEMMA LiveStays ==
  ASSUME TypeOK, TypeOK', TableSound, IndexInv, LiveInv, ~PromptReuse,
         Environment \/ Forward \/ HandleNetlink \/ Tell \/ HandleUpdate \/ Install
  PROVE  LiveInv'
<1>1. FiledInv /\ UniqueInv /\ DeadInv /\ StaleInv /\ ShownInv
  BY DEF IndexInv, LiveInv
<1>2. DeadInv' /\ StaleInv'
  BY <1>1, DeadInEnvironment, DeadInMove, StaleStays
<1>3. ASSUME NEW n \in Name, kernel'[n] # None, ~Waiting(News, kernel[n].id)'
      PROVE  Shown(n)'
  <2>1. CASE Environment
    BY <1>1, <1>3, <2>1, ShownInEnvironment
  <2>2. CASE HandleNetlink
    <3>1. kernel[n] # None
      BY <1>3, <2>2 DEF HandleNetlink
    <3>2. QED
      BY <1>3, <2>2, <3>1, ShownByNotice
  <2>3. CASE Forward \/ Tell \/ HandleUpdate \/ Install
    <3>1. UNCHANGED kernel
      BY <2>3 DEF Forward, Tell, HandleUpdate, Install
    <3>2. PICK k : k = kernel[n].id
      OBVIOUS
    <3>3. ~Waiting(News, k)'
      BY <1>3, <3>1, <3>2 DEF Waiting, Tells
    <3>4. ~Waiting(News, k)
      <4>1. CASE HandleUpdate
        <5>1. ~HandleNetlink
          BY <4>1 DEF HandleUpdate, HandleNetlink, Take
        <5>2. QED
          BY <3>3, <4>1, <5>1, WaitingAfterTake
      <4>2. CASE Forward \/ Tell \/ Install
        BY <3>3, <4>2, WaitingAfterMove, WaitingAfterInstall
      <4>3. QED
        BY <2>3, <4>1, <4>2
    <3>5. kernel[n] # None /\ Shown(n)
      BY <1>1, <1>3, <3>1, <3>2, <3>4 DEF ShownInv
    <3>6. QED
      BY <1>1, <2>3, <3>5, ShownByUpdate, ShownByMove
  <2>4. QED
    BY <2>1, <2>2, <2>3
<1>4. ShownInv'
  BY <1>3 DEF ShownInv
<1>5. QED
  BY <1>2, <1>4 DEF LiveInv

-------------------------------------------------------------------------------
\* Once every notice has been handled, the table has each link of the kernel with its index,
\* its addresses and its state, for any number of interfaces, indices, changes and requests:
\* no link is lost between notices, queries, refreshes and self-sent updates.
THEOREM LiveLinksAlwaysKnown ==
  ASSUME ~PromptReuse
  PROVE  Spec => []LiveLinksKnown
<1> DEFINE Inv == TypeOK /\ TableSound /\ IndexInv /\ LiveInv
<1>1. Init => Inv
  <2> SUFFICES ASSUME Init PROVE Inv
    OBVIOUS
  <2>1. TypeOK /\ TableSound /\ IndexInv
    BY InitIndex
  <2>2. /\ mailbox = <<[type |-> "ForceRefresh"]>> /\ netlink = <<>> /\ pc = Idle
    BY DEF Init
  <2>3. \A p \in DOMAIN Queue : Queue[p].type = "ForceRefresh"
    BY <2>1, <2>2, QueueFields
  <2>4. DeadInv /\ StaleInv
    BY <2>3 DEF DeadInv, StaleInv, Waiting, Tells
  <2>5. ~NoRefresh /\ \A n \in Name : ~Telling(n) /\ \A j \in 1..Len(mailbox) : ~LastAbout(j, n)
    BY <2>2 DEF NoRefresh, Telling, Idle, LastAbout, About
  <2>6. ShownInv
    BY <2>5 DEF ShownInv, Shown
  <2>7. QED
    BY <2>1, <2>4, <2>6 DEF LiveInv
<1>2. Inv /\ [Next]_vars => Inv'
  BY IndexStays, LiveStays
<1>3. Inv => LiveLinksKnown
  <2> SUFFICES ASSUME Inv, Quiet, NEW n \in Present(kernel)
               PROVE  Shows(table.interfaces[n], n, kernel[n])
    BY DEF LiveLinksKnown, Shows
  <2>1. n \in Name /\ kernel[n] # None
    BY DEF Present
  <2>2. DOMAIN Queue = {} /\ Len(mailbox) = 0 /\ pc = Idle
    BY QueueFields DEF Quiet
  <2>3. ~Waiting(News, kernel[n].id) /\ ~Updated(n) /\ NoRefresh /\ pc.at # "install"
    BY <2>2 DEF Waiting, Updated, Telling, NoRefresh, Idle
  <2>4. QED
    BY <2>1, <2>3 DEF LiveInv, ShownInv, Shown
<1>4. QED
  BY <1>1, <1>2, <1>3, PTL DEF Spec
===============================================================================
