---------------------------- MODULE InterfaceTable ----------------------------
(***************************************************************************)
(* The interface table of network-daemon (interface/table.rs): every       *)
(* interface the daemon knows, by name, with an index<->name mapping and   *)
(* one listing per type, parent device and state.                          *)
(*                                                                         *)
(* A table is a value, a record of functions; the operators below are the  *)
(* methods of InterfaceTable as functions from a table to a table.  A      *)
(* missing key of a HashMap is None, a missing bucket of a listing is the  *)
(* empty set, which is also what the queries make of it.                   *)
(***************************************************************************)
CONSTANTS
  Name,     \* interface names
  Index,    \* kernel interface indices
  Type,     \* interface types
  Device,   \* parent devices (a WLAN interface is a child of one)
  State,    \* connection states
  None      \* no value

ASSUME NoneAssumption == None \notin Name \cup Index \cup Device

(***************************************************************************)
(* Operations.  An info is a record with at least the fields name, id,     *)
(* interface_type, parent and state.                                       *)
(***************************************************************************)
EmptyTable ==
  [interfaces    |-> [n \in Name |-> None],
   index_to_name |-> [i \in Index |-> None],
   name_to_index |-> [n \in Name |-> None],
   by_type       |-> [k \in Type |-> {}],
   by_parent     |-> [d \in Device |-> {}],
   by_state      |-> [s \in State |-> {}]]

\* The listings gain the name under the new keys; an entry of an earlier info
\* of the same name under other keys is left where it is.
Insert(t, info) ==
  LET n         == info.name
      i         == info.id
      displaced == t.index_to_name[i]
      old_index == t.name_to_index[n]
  IN [interfaces    |-> [t.interfaces EXCEPT ![n] = info],
      index_to_name |-> [j \in Index |-> IF j = i THEN n
                                         ELSE IF j = old_index THEN None
                                         ELSE t.index_to_name[j]],
      name_to_index |-> [m \in Name |-> IF m = n THEN i
                                        ELSE IF m = displaced THEN None
                                        ELSE t.name_to_index[m]],
      by_type       |-> [t.by_type EXCEPT ![info.interface_type] = @ \cup {n}],
      by_parent     |-> [d \in Device |-> IF d = info.parent
                                          THEN t.by_parent[d] \cup {n}
                                          ELSE t.by_parent[d]],
      by_state      |-> [t.by_state EXCEPT ![info.state] = @ \cup {n}]]

\* Mutant of Remove: the index still leads to the name.
RemoveKeepingIndex(t, n) ==
  LET info == t.interfaces[n]
  IN IF info = None THEN t
     ELSE [t EXCEPT !.interfaces[n] = None, !.name_to_index[n] = None]

Remove(t, n) ==
  LET info == t.interfaces[n]
  IN IF info = None
     THEN t
     ELSE [interfaces    |-> [t.interfaces EXCEPT ![n] = None],
           index_to_name |-> [t.index_to_name EXCEPT ![info.id] = None],
           name_to_index |-> [t.name_to_index EXCEPT ![n] = None],
           by_type       |-> [t.by_type EXCEPT ![info.interface_type] = @ \ {n}],
           by_parent     |-> [d \in Device |-> IF d = info.parent
                                               THEN t.by_parent[d] \ {n}
                                               ELSE t.by_parent[d]],
           by_state      |-> [t.by_state EXCEPT ![info.state] = @ \ {n}]]

Update(t, info) == Insert(Remove(t, info.name), info)

\* What clear() followed by one insert() per interface of a kernel dump gives:
\* a dump has one interface per name and per index, so the order of the inserts
\* does not matter.  links is a function from Name to infos or None.
TableOf(links) ==
  LET present == {n \in Name : links[n] # None}
  IN [interfaces    |-> links,
      index_to_name |-> [i \in Index |->
                           IF \E n \in present : links[n].id = i
                           THEN CHOOSE n \in present : links[n].id = i
                           ELSE None],
      name_to_index |-> [n \in Name |-> IF n \in present THEN links[n].id ELSE None],
      by_type       |-> [k \in Type |-> {n \in present : links[n].interface_type = k}],
      by_parent     |-> [d \in Device |-> {n \in present : links[n].parent = d}],
      by_state      |-> [s \in State |-> {n \in present : links[n].state = s}]]

(***************************************************************************)
(* Queries.                                                                *)
(***************************************************************************)
GetByIndex(t, i) ==
  LET n == t.index_to_name[i] IN IF n = None THEN None ELSE t.interfaces[n]

Listed(t, bucket) == {t.interfaces[n] : n \in {m \in bucket : t.interfaces[m] # None}}

ListByType(t, k)   == Listed(t, t.by_type[k])
ListByParent(t, d) == Listed(t, t.by_parent[d])
ListByState(t, s)  == Listed(t, t.by_state[s])

\* The tables whose infos are of a set.
Table(Infos) ==
  [interfaces    : [Name -> Infos \cup {None}],
   index_to_name : [Index -> Name \cup {None}],
   name_to_index : [Name -> Index \cup {None}],
   by_type       : [Type -> SUBSET Name],
   by_parent     : [Device -> SUBSET Name],
   by_state      : [State -> SUBSET Name]]

(***************************************************************************)
(* What a table promises.                                                  *)
(***************************************************************************)

\* A lookup by index never answers with an interface of another index, and the
\* index recorded for a name is the index of the interface stored under it
\* (table.rs get_by_index and get_index, over every sequence of operations).
IndexSound(t) ==
  /\ \A i \in Index : t.index_to_name[i] # None =>
       LET n == t.index_to_name[i]
       IN t.interfaces[n] # None /\ t.interfaces[n].id = i /\ t.name_to_index[n] = i
  /\ \A n \in Name : t.name_to_index[n] # None =>
       t.interfaces[n] # None /\ t.interfaces[n].id = t.name_to_index[n]

\* Every stored interface is in the listings of its own type, parent and state
\* (table.rs list_by_type, list_by_parent, list_by_state miss nothing).
ListingsComplete(t) ==
  \A n \in Name : t.interfaces[n] # None =>
    /\ n \in t.by_type[t.interfaces[n].interface_type]
    /\ t.interfaces[n].parent # None => n \in t.by_parent[t.interfaces[n].parent]
    /\ n \in t.by_state[t.interfaces[n].state]
===============================================================================
