------------------------------ MODULE ProfileStore ----------------------------
(***************************************************************************)
(* The saved access points of one WLAN interface: the credentials in       *)
(* SQLite (storage/mod.rs), their other settings in config.toml            *)
(* (config/mod.rs), and what the backend knows of them.                    *)
(*                                                                         *)
(* A client handler (daemon/client.rs) first changes the credentials, then *)
(* config.toml, and then forwards the request to the backend, which may    *)
(* refuse it.  The credentials belong to an actor and change one request   *)
(* at a time.  config.toml belongs to nobody: every handler and the        *)
(* interface manager read it, change what they read, and save it through   *)
(* one temporary file, each on a thread of its own.  At start, and when    *)
(* the interface is found again, NetworkDaemon reads both and hands the    *)
(* result to the backend (daemon/service.rs).  Nobody does when the        *)
(* supervisor starts a backend again (wifi/manager.rs).                    *)
(*                                                                         *)
(* Entries without a MAC are legacy entries of older versions.             *)
(***************************************************************************)
EXTENDS Naturals, FiniteSets

CONSTANTS
  None,
  Mac,          \* the MAC of the interface
  Profile,      \* saved access points: an SSID (with its BSSID) and a security
  Secret,
  Refused,      \* secrets that the backend refuses, too short
  Handler,      \* clients' handlers
  Interfaces,   \* the interface manager, which saves settings of interfaces
  MaxRequests,  \* bound: requests, and saves of the interface manager
  MaxFaults,    \* bound: failures
  MaxStarts     \* bound: starts of the daemon and of the backend

Scope  == {Mac, None}
Key    == Scope \X Profile
Writer == Handler \cup {Interfaces}

\* One file for each save under way, and those that two paths lead to.
Inode == 1..(Cardinality(Writer) + 2)

ASSUME StoreAssumption ==
  /\ Mac # None /\ None \notin Secret \cup Inode /\ Refused \subseteq Secret
  /\ Profile \subseteq [ssid : {p.ssid : p \in Profile}, security : {"Open", "Psk"}]
  /\ IsFiniteSet(Writer) /\ Interfaces \notin Handler
  /\ MaxRequests \in Nat /\ MaxFaults \in Nat /\ MaxStarts \in Nat

VARIABLES
  credentials,   \* the rows of SQLite: no row, or a secret or none
  content,       \* of every file: its entries, or that it is empty or garbled
  config, tmp,   \* the files config.toml and toml.tmp
  writer,        \* every handler, and the interface manager
  loader,        \* NetworkDaemon, loading
  known,         \* what the backend knows
  requests, faults, starts,
  raced,         \* a request or a load began while another was under way
  behind,        \* the backend refused a request that was saved, took it in part, or was
                 \* started again by its supervisor and has been given nothing since
  removed        \* profiles whose row was taken out, and not saved since

fileVars  == <<content, config, tmp>>
bounds    == <<requests, faults, starts>>
vars == <<credentials, fileVars, writer, loader, known, bounds, raced, behind, removed>>

-------------------------------------------------------------------------------
NoRow == "absent"
Row   == {NoRow, None} \cup Secret

\* A row without a secret is a row.
ASSUME NoRowIsNoSecret == NoRow \notin Secret \cup {None}

Stage == {"idle", "save", "erase", "legacy", "read", "open", "write", "rename", "forward"}

\* A request: what it does, to which profiles, with which secret, in which scope.
Request == [op : {"Add", "Remove", "Policy"}, profiles : SUBSET Profile, secret : Secret \cup {None}, scope : Scope]

NoRequest == [op |-> "Policy", profiles |-> {}, secret |-> None, scope |-> Mac]
Idle      == [at |-> "idle", request |-> NoRequest, networks |-> {}, file |-> None]

WriterState ==
  [at : Stage, request : Request, networks : SUBSET Key, file : Inode \cup {None}]

Fault == faults < MaxFaults /\ faults' = faults + 1

\* What a file holds.  An empty one parses; a garbled one does not.
Contents == [state : {"whole", "empty", "garbled"}, entries : SUBSET Key]

Whole(entries) == [state |-> "whole", entries |-> entries]
Empty   == [state |-> "empty", entries |-> {}]
Garbled == [state |-> "garbled", entries |-> {}]

\* How an operation of the system ends.
Succeeds == UNCHANGED faults
Fails    == Fault

Quiet == loader.at = "idle" /\ \A w \in Writer : writer[w].at = "idle"

Goes(w, stage) == writer' = [writer EXCEPT ![w].at = stage]

-------------------------------------------------------------------------------
(***************************************************************************)
(* The stores.                                                             *)
(***************************************************************************)
\* DaemonConfig::load.  What is missing or does not parse is replaced by nothing
\* (unwrap_or_default) by all but the interface manager.
Unparsable == config # None /\ content[config] = Garbled

Entries(file) == IF file = None THEN {} ELSE content[file].entries

\* Mutant of Saved: an omitted secret is taken for none.
SavedAnew(row, secret) == secret

\* CredentialStore::save: a secret that is omitted is the one the row has.
Saved(row, secret) == IF secret = None /\ row # NoRow THEN row ELSE secret

\* persisted_networks.  Legacy entries count in a store without entries of the interface.
InScope(s, entries) ==
  s = Mac \/ ~\E p \in Profile : <<Mac, p>> \in entries

Loaded(rows, entries) ==
  LET held == {k \in Key : rows[k] # NoRow}
      scope(p, keys) == {s \in Scope : <<s, p>> \in keys /\ InScope(s, keys)}
  IN  [p \in Profile |->
         IF scope(p, held) # {} THEN rows[<<CHOOSE s \in scope(p, held) : TRUE, p>>]
         ELSE IF scope(p, entries) # {} THEN None ELSE NoRow]

-------------------------------------------------------------------------------
(***************************************************************************)
(* Requests.                                                               *)
(***************************************************************************)
Begin(w, request, stage) ==
  /\ writer[w].at = "idle" /\ requests < MaxRequests /\ requests' = requests + 1
  /\ writer' = [writer EXCEPT ![w] = [Idle EXCEPT !.at = stage, !.request = request]]
  /\ raced' = (raced \/ ~Quiet)
  /\ UNCHANGED <<credentials, fileVars, loader, known, starts, behind, removed>>

\* interface_mac: none when the interface manager has no answer.
InterfaceMac(scope) ==
  \/ scope = Mac /\ Succeeds
  \/ scope = None /\ Fails

AddNetwork(h) ==
  \E p \in Profile, secret \in Secret \cup {None}, scope \in Scope :
    /\ p.security = "Open" => secret = None
    /\ InterfaceMac(scope)
    /\ Begin(h, [op |-> "Add", profiles |-> {p}, secret |-> secret, scope |-> scope], "save")

\* Without a security all profiles of the access point are meant.
RemoveNetwork(h) ==
  \E p \in Profile, all \in BOOLEAN, scope \in Scope :
    /\ InterfaceMac(scope)
    /\ Begin(h, [op |-> "Remove", secret |-> None, scope |-> scope,
                 profiles |-> IF all THEN {q \in Profile : q.ssid = p.ssid} ELSE {p}], "erase")

\* persist_creation, persist_policy: another part of config.toml.
SavePolicy == Begin(Interfaces, NoRequest, "read") /\ UNCHANGED faults

\* A failure of a store is logged and the handler goes on.
SaveCredential(h) ==
  /\ writer[h].at = "save"
  /\ LET r == writer[h].request
     IN  \/ /\ credentials' = [k \in Key |->
                 IF k \in {r.scope} \X r.profiles THEN Saved(credentials[k], r.secret) ELSE credentials[k]]
            /\ removed' = removed \ r.profiles /\ Succeeds
         \/ Fails /\ UNCHANGED <<credentials, removed>>
  /\ Goes(h, "read")
  /\ UNCHANGED <<fileVars, loader, known, requests, starts, raced, behind>>

Erase(scope, ps) == credentials' = [k \in Key |-> IF k \in {scope} \X ps THEN NoRow ELSE credentials[k]]

RemoveCredential(h) ==
  /\ writer[h].at = "erase"
  /\ LET r == writer[h].request
     IN  /\ \/ Erase(r.scope, r.profiles) /\ removed' = removed \cup r.profiles /\ Succeeds
            \/ Fails /\ UNCHANGED <<credentials, removed>>
         /\ Goes(h, IF r.scope = None THEN "read" ELSE "legacy")
  /\ UNCHANGED <<fileVars, loader, known, requests, starts, raced, behind>>

\* Mutant of RemoveLegacy: the legacy row stays.
RemoveLegacySkipped(h) ==
  /\ writer[h].at = "legacy"
  /\ Goes(h, "read")
  /\ UNCHANGED <<credentials, fileVars, loader, known, bounds, raced, behind, removed>>

\* A legacy entry must not return when the entry that hid it is gone.
RemoveLegacy(h) ==
  /\ writer[h].at = "legacy"
  /\ \/ Erase(None, writer[h].request.profiles) /\ Succeeds
     \/ Fails /\ UNCHANGED credentials
  /\ Goes(h, "read")
  /\ UNCHANGED <<fileVars, loader, known, requests, starts, raced, behind, removed>>

-------------------------------------------------------------------------------
(***************************************************************************)
(* config.toml.                                                            *)
(***************************************************************************)
UpsertNetwork(entries, r) == entries \cup ({r.scope} \X r.profiles)

\* remove_network, for the interface and for legacy entries.
RemoveEntries(entries, r) == entries \ ({r.scope, None} \X r.profiles)

Edited(entries, r) ==
  CASE r.op = "Add"    -> UpsertNetwork(entries, r)
    [] r.op = "Remove" -> RemoveEntries(entries, r)
    [] r.op = "Policy" -> entries

\* A file that cannot be read or parsed is taken for an empty one by the handlers;
\* the interface manager gives up.
ReadConfig(w) ==
  /\ writer[w].at = "read"
  /\ \/ /\ ~(w = Interfaces /\ Unparsable)
        /\ writer' = [writer EXCEPT ![w].at = "open",
                                    ![w].networks = Edited(Entries(config), writer[w].request)]
     \/ /\ w = Interfaces /\ Unparsable
        /\ writer' = [writer EXCEPT ![w] = Idle]
  /\ UNCHANGED <<credentials, fileVars, loader, known, bounds, raced, behind, removed>>

\* A failure to save is logged, too, and the handler forwards the request.
EndSave(w) ==
  writer' = [writer EXCEPT ![w] = IF w = Interfaces THEN Idle ELSE [@ EXCEPT !.at = "forward", !.networks = {}]]

\* std::fs::write opens and truncates toml.tmp, or makes it ...
OpenTemp(w) ==
  /\ writer[w].at = "open"
  /\ \/ /\ LET used  == {config, tmp} \cup {writer[v].file : v \in Writer}
               inode == IF tmp # None THEN tmp ELSE CHOOSE i \in Inode : i \notin used
           IN  /\ tmp' = inode
               /\ content' = [content EXCEPT ![inode] = Empty]
               /\ writer' = [writer EXCEPT ![w].at = "write", ![w].file = inode]
        /\ Succeeds
     \/ Fails /\ EndSave(w) /\ UNCHANGED <<content, tmp>>
  /\ UNCHANGED <<credentials, config, loader, known, requests, starts, raced, behind, removed>>

\* ... and writes it from the start; over what another has written meanwhile, the
\* rest of which stays if it was longer.
WriteTemp(w) ==
  /\ writer[w].at = "write"
  /\ LET inode == writer[w].file
     IN  \/ content' = [content EXCEPT ![inode] = Whole(writer[w].networks)]
         \/ content[inode] # Empty /\ content' = [content EXCEPT ![inode] = Garbled]
  /\ writer' = [writer EXCEPT ![w].at = "rename", ![w].file = None]
  /\ UNCHANGED <<credentials, config, tmp, loader, known, bounds, raced, behind, removed>>

\* Whatever toml.tmp is by now; it is an error if another has just renamed it.
RenameTemp(w) ==
  /\ writer[w].at = "rename"
  /\ IF tmp # None THEN config' = tmp /\ tmp' = None ELSE UNCHANGED <<config, tmp>>
  /\ EndSave(w)
  /\ UNCHANGED <<credentials, content, loader, known, bounds, raced, behind, removed>>

-------------------------------------------------------------------------------
(***************************************************************************)
(* The backend, and NetworkDaemon.                                         *)
(***************************************************************************)
Unusable(p, secret) == p.security = "Psk" /\ secret \in {None} \cup Refused

\* What a request makes of what the backend knows: it refuses unusable secrets, takes
\* out one profile only, and answers with an error if it does not know it.
ForwardAdd(r) ==
  \E p \in r.profiles :
    LET secret == IF r.secret = None /\ known[p] # NoRow THEN known[p] ELSE r.secret
    IN  IF Unusable(p, secret)
        THEN behind' = TRUE /\ UNCHANGED known
        ELSE known' = [known EXCEPT ![p] = secret] /\ UNCHANGED behind

ForwardRemove(r) ==
  LET held == {p \in r.profiles : known[p] # NoRow}
  IN  /\ \/ held = {} /\ UNCHANGED known
         \/ \E p \in held : known' = [known EXCEPT ![p] = NoRow]
      /\ behind' = (behind \/ Cardinality(held) > 1)

\* The answer goes to the client.
Forward(h) ==
  /\ writer[h].at = "forward"
  /\ \/ /\ \/ writer[h].request.op = "Add" /\ ForwardAdd(writer[h].request)
           \/ writer[h].request.op = "Remove" /\ ForwardRemove(writer[h].request)
        /\ Succeeds
     \/ Fails /\ UNCHANGED <<known, behind>>                \* there is no backend
  /\ writer' = [writer EXCEPT ![h] = Idle]
  /\ UNCHANGED <<credentials, fileVars, loader, requests, starts, raced, removed>>

\* InterfaceAdded: a new backend, and load_persisted_networks for it.
LoaderState ==
  [at : {"idle", "credentials", "config", "networks"}, rows : [Key -> Row], networks : [Profile -> Row]]

NotLoading == [at |-> "idle", rows |-> [k \in Key |-> NoRow], networks |-> [p \in Profile |-> NoRow]]

StartBackend ==
  /\ loader.at = "idle" /\ starts < MaxStarts /\ starts' = starts + 1
  /\ loader' = [NotLoading EXCEPT !.at = "credentials"]
  /\ known' = [p \in Profile |-> NoRow]
  /\ raced' = ~Quiet
  /\ UNCHANGED <<credentials, fileVars, writer, requests, faults, behind, removed>>

\* A row that cannot be decrypted costs all of them.
LoadCredentials ==
  /\ loader.at = "credentials"
  /\ \/ loader' = [loader EXCEPT !.at = "config", !.rows = credentials] /\ Succeeds
     \/ loader' = [loader EXCEPT !.at = "config"] /\ Fails
  /\ UNCHANGED <<credentials, fileVars, writer, known, requests, starts, raced, behind, removed>>

LoadConfig ==
  /\ loader.at = "config"
  /\ loader' = [loader EXCEPT !.at = "networks", !.networks = Loaded(loader.rows, Entries(config))]
  /\ UNCHANGED <<credentials, fileVars, writer, known, bounds, raced, behind, removed>>

\* LoadNetworks replaces what the backend knows, unusable profiles included.
LoadNetworks ==
  /\ loader.at = "networks"
  /\ loader' = NotLoading
  /\ \/ known' = loader.networks /\ behind' = FALSE /\ Succeeds
     \/ Fails /\ UNCHANGED known /\ behind' = TRUE          \* there is no backend, or it dies
  /\ UNCHANGED <<credentials, fileVars, writer, requests, starts, raced, removed>>

\* on_link_died: the backend dies with its process, and the supervisor starts another,
\* which knows nothing.
RestartBackend ==
  /\ starts < MaxStarts /\ starts' = starts + 1
  /\ known' = [p \in Profile |-> NoRow]
  /\ behind' = TRUE
  /\ UNCHANGED <<credentials, fileVars, writer, loader, requests, faults, raced, removed>>

\* The daemon is killed, at any point of its requests, and started again.
Crash ==
  /\ starts < MaxStarts /\ starts' = starts + 1
  /\ writer' = [w \in Writer |-> Idle]
  /\ loader' = [NotLoading EXCEPT !.at = "credentials"]
  /\ known' = [p \in Profile |-> NoRow]
  /\ raced' = FALSE
  /\ removed' = removed \ UNION {writer[w].request.profiles : w \in {v \in Writer : writer[v].at = "legacy"}}
  /\ UNCHANGED <<credentials, fileVars, requests, faults, behind>>

-------------------------------------------------------------------------------
\* The stores of an older version, or none.
Init ==
  /\ \E ps \in SUBSET Profile, secret \in Secret \ Refused :
       LET keys == {None} \X ps
           rowOf(k) == IF k \notin keys THEN NoRow ELSE IF k[2].security = "Psk" THEN secret ELSE None
           file == IF ps = {} THEN None ELSE 1
       IN  /\ credentials = [k \in Key |-> rowOf(k)]
           /\ config = file
           /\ content = [i \in Inode |-> IF i = file THEN Whole(keys) ELSE Empty]
           /\ known = [p \in Profile |-> rowOf(<<None, p>>)]
  /\ tmp = None
  /\ writer = [w \in Writer |-> Idle] /\ loader = NotLoading
  /\ requests = 0 /\ faults = 0 /\ starts = 0
  /\ raced = FALSE /\ behind = FALSE /\ removed = {}

HandlerStep(h) ==
  \/ AddNetwork(h) \/ RemoveNetwork(h)
  \/ SaveCredential(h) \/ RemoveCredential(h) \/ RemoveLegacy(h)
  \/ Forward(h)

SaveStep(w) == ReadConfig(w) \/ OpenTemp(w) \/ WriteTemp(w) \/ RenameTemp(w)

Load == StartBackend \/ LoadCredentials \/ LoadConfig \/ LoadNetworks \/ RestartBackend

Next ==
  \/ \E h \in Handler : HandlerStep(h)
  \/ \E w \in Writer : SaveStep(w)
  \/ SavePolicy \/ Load \/ Crash

Spec == Init /\ [][Next]_vars

-------------------------------------------------------------------------------
(***************************************************************************)
(* Properties.                                                             *)
(***************************************************************************)
TypeOK ==
  /\ credentials \in [Key -> Row]
  /\ content \in [Inode -> Contents]
  /\ config \in Inode \cup {None} /\ tmp \in Inode \cup {None}
  /\ writer \in [Writer -> WriterState]
  /\ writer[Interfaces].at \in {"idle", "read", "open", "write", "rename"}
  /\ loader \in LoaderState
  /\ known \in [Profile -> Row]
  /\ requests \in 0..MaxRequests /\ faults \in 0..MaxFaults /\ starts \in 0..MaxStarts
  /\ raced \in BOOLEAN /\ behind \in BOOLEAN /\ removed \subseteq Profile

\* A restart of the daemon changes nothing: what the backend knows after requests that
\* did not overlap, each interrupted by a crash or not, is what it would be given at the
\* next start, secrets included.  (Not while legacy entries are about, some of which the
\* next start will not take; not when the backend is behind, having refused a request
\* that was saved, or taken it in part, or been started again by its supervisor, after
\* which it knows less than the disk until the daemon or the interface starts anew.)
NoLegacy == \A p \in Profile : credentials[<<None, p>>] = NoRow /\ <<None, p>> \notin Entries(config)

MemoryMatchesDisk ==
  Quiet /\ ~raced /\ ~behind /\ faults = 0 /\ NoLegacy => known = Loaded(credentials, Entries(config))

\* A removal is complete, whatever runs beside it: no row of the profile is left in the
\* scope of the interface, nor, once its handler has gone on to config.toml, among the
\* legacy rows, for a later start to find.  (Where the credentials could be written; a
\* failure is logged only.)
RemovedIsGone ==
  faults = 0 =>
    \A p \in removed :
      /\ credentials[<<Mac, p>>] = NoRow
      /\ \/ credentials[<<None, p>>] = NoRow
         \/ \E h \in Handler : writer[h].at = "legacy" /\ p \in writer[h].request.profiles

\* The backend is taken to do what it promises, whatever is under way.
Backend == INSTANCE KnownNetworks WITH loaded <- (loader.at = "idle")

KeepsProfiles == Backend!Spec

\* "Atomically persist the configuration" (config/mod.rs): whoever reads config.toml,
\* at whatever moment, finds what somebody has saved.
ConfigIsWhole == config = None \/ content[config].state = "whole"
===============================================================================
