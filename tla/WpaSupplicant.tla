----------------------------- MODULE WpaSupplicant ----------------------------
(***************************************************************************)
(* The Wi-Fi backend of one interface (wifi/wpa_supplicant/mod.rs): the    *)
(* networks it knows, and what it tells its wpa_supplicant process about   *)
(* them.                                                                   *)
(*                                                                         *)
(* A network is known to the backend by its profile (SSID, authentication  *)
(* and perhaps BSSID); wpa_supplicant has it only after the first Connect, *)
(* under an id of its own choice.  A request that changes networks takes   *)
(* up to ten commands over the control socket, and any of them may fail;   *)
(* the id recorded with the profile must still be the profile's own, as    *)
(* wpa_supplicant gives the ids of removed networks to others.             *)
(*                                                                         *)
(* Handlers run one at a time and await each command, so a request is one  *)
(* step, and each command a set of outcomes within it.  The process, which *)
(* is external, is a value `wpa` that commands transform.  Signal strength *)
(* orders candidates in the code; here any saved one in range may be the   *)
(* strongest.                                                              *)
(***************************************************************************)
EXTENDS Naturals

CONSTANTS
  None,
  Profile,        \* the networks requests are about: records [ssid, security, bssid]
  Password,       \* passwords
  Short,          \* those that are no WPA passphrase
  Identity,       \* EAP identities
  NetId,          \* ids of wpa_supplicant (bound: networks it has at a time)
  MaxFaults,      \* bound: commands that fail
  Loads           \* what NetworkDaemon may have read from the store: sets of profiles

Ssid     == {k.ssid : k \in Profile}
Security == {k.security : k \in Profile}
Bssid    == {k.bssid : k \in Profile}

ASSUME WpaAssumption ==
  /\ \A k \in Profile : k = [ssid |-> k.ssid, security |-> k.security, bssid |-> k.bssid]
  /\ None \notin Profile /\ None \notin Security /\ None \notin Password \cup Identity \cup NetId
  /\ Short \subseteq Password
  /\ MaxFaults \in Nat
  /\ Loads \subseteq SUBSET Profile

VARIABLES
  keys,         \* known_networks: its keys, [ssid, security]
  known,        \* and its entries, by profile: the KnownNetwork or None
  scan_results, \* profiles seen in the last scan
  wpa,          \* the wpa_supplicant process
  faults,       \* commands that have failed
  loaded        \* NetworkDaemon has asked for LoadNetworks

vars == <<keys, known, scan_results, wpa, faults, loaded>>

-------------------------------------------------------------------------------
(***************************************************************************)
(* Data.                                                                   *)
(***************************************************************************)
Bucket(k) == [ssid |-> k.ssid, security |-> k.security]

KnownNetwork ==
  [id : NetId \cup {None}, state : {"Enabled", "Disabled", "Current"},
   password : Password \cup {None}, identity : Identity \cup {None}]

ASSUME NoneIsNoNetwork == None \notin KnownNetwork

\* What the profile store has for a profile that is not known.
NoRow == "absent"

ASSUME NoRowIsNoPassword == NoRow \notin Password \cup {None}

Process ==
  [nets : [NetId -> Profile \cup {None}], \* its networks, each with the profile it was added for
   selected : NetId \cup {None},          \* SELECT_NETWORK
   online : BOOLEAN]                      \* not DISCONNECTed

NewProcess == [nets |-> [i \in NetId |-> None], selected |-> None, online |-> TRUE]

\* add_and_configure_network returns before it configures what a profile lacks.
LacksSecret(k, n) ==
  \/ k.security = "Psk" /\ n.password = None
  \/ k.security = "Eap" /\ n.identity = None

\* What it, or wpa_supplicant, refuses to configure.
Unusable(k, n) ==
  \/ k.security = "Psk" /\ n.password \in Short
  \/ k.security = "Unknown"

-------------------------------------------------------------------------------
(***************************************************************************)
(* Commands.  An outcome of a command is its answer, the process after     *)
(* it, and the number of commands that failed for no reason.               *)
(***************************************************************************)
Outcome(answer, p, f) == [answer |-> answer, wpa |-> p, faults |-> f]

\* request_ok: OK after doing it, or FAIL, or an error of the socket.
Command(before, after, f) ==
  {Outcome("OK", after, f)}
    \cup {Outcome("FAIL", before, g) : g \in {f + 1} \cap 0..MaxFaults}

Without(p, id) ==
  [p EXCEPT !.nets[id] = None, !.selected = IF @ = id THEN None ELSE @]

RemoveNetwork(p, id, f) ==
  IF p.nets[id] = None THEN {Outcome("FAIL", p, f)} ELSE Command(p, Without(p, id), f)

SelectNetwork(p, id, f) ==
  Command(p, [p EXCEPT !.selected = id, !.online = TRUE], f)

\* Mutant of Unregister: the old network stays in the process.
UnregisterNot(p, n, f) == {Outcome("OK", p, f)}

\* unregister_wpa_network, whose caller only logs a failure.
Unregister(p, n, f) ==
  IF n = None \/ n.id = None THEN {Outcome("OK", p, f)} ELSE RemoveNetwork(p, n.id, f)

\* The network `id` that has just been added is configured and enabled.  When one of
\* the settings fails it is removed again, if that succeeds; it is not removed when
\* a secret is missing or when it cannot be enabled.
Configure(p, id, k, n, f) ==
  LET settings == IF Unusable(k, n) THEN {Outcome("FAIL", p, f)} ELSE Command(p, p, f)
      undone(o) == {Outcome("FAIL", c.wpa, c.faults) : c \in RemoveNetwork(p, id, o.faults)}
  IN  IF LacksSecret(k, n)
      THEN {Outcome("FAIL", p, f)} \cup UNION {undone(o) : o \in Command(p, p, f) \ {Outcome("OK", p, f)}}
      ELSE UNION {IF o.answer = "OK" THEN Command(p, p, o.faults) ELSE undone(o) : o \in settings}

-------------------------------------------------------------------------------
(***************************************************************************)
(* Requests that change the known networks.                                *)
(***************************************************************************)

\* Mutant of Registered: the id of the old network is kept.
RegisteredKeepingId(k, password, identity, autoconnect) ==
  [id |-> IF known[k] = None THEN None ELSE known[k].id,
   state |-> IF autoconnect THEN "Enabled" ELSE "Disabled", password |-> password, identity |-> identity]

\* Mutant of Registered: an omitted secret is taken for none.
RegisteredAnew(k, password, identity, autoconnect) ==
  [id |-> None, state |-> IF autoconnect THEN "Enabled" ELSE "Disabled",
   password |-> password, identity |-> identity]

\* Mutant of Registered: the entry gets a state of its own.
RegisteredIdle(k, password, identity, autoconnect) ==
  [id |-> None, state |-> IF autoconnect THEN "Enabled" ELSE "Idle",
   password |-> password, identity |-> identity]

\* register_known_network: a secret that is omitted is the one the profile has.
Registered(k, password, identity, autoconnect) ==
  [id       |-> None,
   state    |-> IF autoconnect THEN "Enabled" ELSE "Disabled",
   password |-> IF password = None /\ known[k] # None THEN known[k].password ELSE password,
   identity |-> IF identity = None /\ known[k] # None THEN known[k].identity ELSE identity]

AddNetwork(k, password, identity, autoconnect) ==
  LET n == Registered(k, password, identity, autoconnect)
  IN  /\ ~LacksSecret(k, n)
      /\ k.security = "Psk" => n.password \notin Short
      /\ keys' = keys \cup {Bucket(k)}
      /\ known' = [known EXCEPT ![k] = n]
      /\ \E o \in Unregister(wpa, known[k], faults) : wpa' = o.wpa /\ faults' = o.faults
      /\ UNCHANGED <<scan_results, loaded>>

\* remove_known_network.  Without a security any bucket of the SSID that holds the
\* profile is taken.  The entry is gone even when the command fails, but its bucket
\* is then left behind.
RemoveKnown(k) ==
  /\ known[k] # None
  /\ known' = [known EXCEPT ![k] = None]
  /\ \E o \in Unregister(wpa, known[k], faults) :
       /\ wpa' = o.wpa /\ faults' = o.faults
       /\ keys' = IF o.answer = "OK" /\ \A j \in Profile : Bucket(j) = Bucket(k) => known'[j] = None
                  THEN keys \ {Bucket(k)} ELSE keys
  /\ UNCHANGED <<scan_results, loaded>>

\* select_known_candidate: the profiles a Connect to `b` may use.  Asked for an access
\* point, its own profile or else the one for any; asked for none, the latter, or
\* else one whose access point is in range, or else any.
Candidates(b, bssid) ==
  LET saved   == {k \in Profile : Bucket(k) = b /\ known[k] # None}
      roaming == {k \in saved : k.bssid = None}
      own     == {k \in saved : k.bssid = bssid}
      seen    == saved \cap scan_results
  IN  CASE b \notin keys                 -> {}
        [] b \in keys /\ own # {}        -> own
        [] b \in keys /\ own = {} /\ (bssid # None \/ roaming # {}) -> roaming
        [] OTHER                         -> IF seen # {} THEN seen ELSE saved

\* connect_known: the network is removed from wpa_supplicant, added, configured and
\* selected; its id is recorded at the very end.
Connect(k) ==
  \E u \in Unregister(wpa, known[k], faults) :
    \/ \* ADD_NETWORK fails
       /\ u.faults < MaxFaults
       /\ wpa' = u.wpa /\ faults' = u.faults + 1
       /\ UNCHANGED <<keys, known, scan_results, loaded>>
    \/ \E id \in NetId :
         /\ u.wpa.nets[id] = None
         /\ \E c \in Configure([u.wpa EXCEPT !.nets[id] = k], id, k, known[k], u.faults) :
              \E s \in IF c.answer = "OK" THEN SelectNetwork(c.wpa, id, c.faults) ELSE {c} :
                /\ wpa' = s.wpa /\ faults' = s.faults
                /\ known' = IF s.answer = "OK" THEN [known EXCEPT ![k] = [@ EXCEPT !.id = id, !.state = "Current"]]
                                    ELSE known
         /\ UNCHANGED <<keys, scan_results, loaded>>

\* load_known_networks replaces everything, ids included.
LoadNetworks(networks, password, identity) ==
  /\ ~loaded /\ loaded' = TRUE
  /\ keys' = {Bucket(k) : k \in networks}
  /\ known' = [k \in Profile |->
                 IF k \notin networks THEN None
                 ELSE [id |-> None, state |-> "Enabled",
                       password |-> IF k.security = "Open" THEN None ELSE password,
                       identity |-> IF k.security = "Eap" THEN identity ELSE None]]
  /\ UNCHANGED <<scan_results, wpa, faults>>

-------------------------------------------------------------------------------
(***************************************************************************)
(* The other requests, and the process.                                    *)
(***************************************************************************)
Disconnect ==
  /\ \E o \in Command(wpa, [wpa EXCEPT !.online = FALSE], faults) : wpa' = o.wpa /\ faults' = o.faults
  /\ UNCHANGED <<keys, known, scan_results, loaded>>

Reconnect ==
  /\ \E o \in Command(wpa, [wpa EXCEPT !.online = TRUE], faults) : wpa' = o.wpa /\ faults' = o.faults
  /\ UNCHANGED <<keys, known, scan_results, loaded>>

\* WpaEvent::ScanResults: a failing SCAN_RESULTS leaves an empty list.
ScanResults ==
  /\ \/ scan_results' \in SUBSET {k \in Profile : k.bssid # None} /\ UNCHANGED faults
     \/ scan_results' = {} /\ faults < MaxFaults /\ faults' = faults + 1
  /\ UNCHANGED <<keys, known, wpa, loaded>>

\* The process exits, which kills the backend, and WifiManager starts both again.
BackendRestarts ==
  /\ keys' = {} /\ known' = [k \in Profile |-> None] /\ scan_results' = {}
  /\ wpa' = NewProcess
  /\ UNCHANGED <<faults, loaded>>

-------------------------------------------------------------------------------
Init ==
  /\ keys = {} /\ known = [k \in Profile |-> None] /\ scan_results = {}
  /\ wpa = NewProcess
  /\ faults = 0 /\ loaded = FALSE

Next ==
  \/ \E k \in Profile, p \in Password \cup {None}, i \in Identity \cup {None}, a \in BOOLEAN :
       AddNetwork(k, p, i, a)
  \/ \E k \in Profile : RemoveKnown(k)
  \/ \E b \in {Bucket(k) : k \in Profile}, bssid \in Bssid \cup {None} :
       \E k \in Candidates(b, bssid) : Connect(k)
  \/ \E networks \in Loads, p \in Password \cup {None}, i \in Identity \cup {None} :
       LoadNetworks(networks, p, i)
  \/ Disconnect \/ Reconnect \/ ScanResults \/ BackendRestarts

Spec == Init /\ [][Next]_vars

-------------------------------------------------------------------------------
(***************************************************************************)
(* Properties.                                                             *)
(***************************************************************************)
TypeOK ==
  /\ keys \subseteq {Bucket(k) : k \in Profile}
  /\ known \in [Profile -> KnownNetwork \cup {None}]
  /\ scan_results \subseteq Profile
  /\ wpa \in Process
  /\ faults \in 0..MaxFaults
  /\ loaded \in BOOLEAN

\* An id that is recorded with a profile is that of a network which was added for
\* this profile: no request about one profile touches the network of another, even
\* though ids of removed networks are used again.  A command that fails between the
\* removal of the old network and the recording of the new id is enough to break it.
IdsAreOwn ==
  faults = 0 =>
    \A k \in Profile : (known[k] # None /\ known[k].id # None) => wpa.nets[known[k].id] = k

\* No request but LoadNetworks makes the daemon lose track of the network that
\* wpa_supplicant is to use: as long as commands succeed, the selected network is one
\* whose id is recorded, so that the next request about its profile reaches it.
Recorded == wpa.selected # None => \E k \in Profile : known[k] # None /\ known[k].id = wpa.selected

SelectedStaysKnown == [][Recorded /\ loaded' = loaded /\ faults' = faults => Recorded']_vars

\* A stored secret is never lost by an edit, a connection or a failure: only with the
\* profile itself, or when the networks are loaded or the backend starts again.
SecretsSurvive ==
  [][\A k \in Profile :
       (known[k] # None /\ known'[k] # None /\ loaded' = loaded)
         => /\ known[k].password # None => known'[k].password # None
            /\ known[k].identity # None => known'[k].identity # None]_vars

\* What the profile store takes the backend to do with the profiles and passwords it is
\* given is what it does: up to ten commands of a request may fail, networks are
\* registered, selected and removed, and known_networks changes as KnownNetworks says.
Rows == [k \in Profile |-> IF known[k] = None THEN NoRow ELSE known[k].password]

Backend == INSTANCE KnownNetworks WITH known <- Rows, Secret <- Password, Refused <- Short

KeepsProfiles == Backend!Spec
===============================================================================
