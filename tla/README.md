# Verification of network-daemon

network-daemon manages the network of a FreeBSD host: it mirrors the kernel's
interfaces, configures addresses from DHCP leases, keeps a default route, and
drives one wpa_supplicant per wireless interface, for clients of a Unix socket.
This directory holds TLA+ models of it, the configurations under which TLC checks
them, and theorems about them that TLAPS checks.

Paths below are relative to `src/network-daemon/src/` unless they start with
`src/`. `mod.rs` alone is `interface/mod.rs` or `route/mod.rs`, whichever the
section is about.

## The system

Every part is a kameo actor: one mailbox, one message at a time, `tell` to send
and `ask` to send and wait. A handler that awaits keeps its actor busy, but
everybody else goes on. A handler that answers a `tell` with an error stops its
actor (kameo's default `on_panic`), and actors linked to it.

| component | state | operations | talks to |
|---|---|---|---|
| interface table (`interface/table.rs`) | infos by name; index to name and back; names by type, parent, state | insert, remove, update, clear, queries | owned by the interface manager |
| interface manager (`interface/mod.rs`) | table, subscribers; `config.toml` on disk; the kernel's links and addresses | netlink notices, self-sent updates, refresh, AddLink, DelLink, ModLink, DhcpV4Set, external state, queries | kernel (netlink, ioctl); events to route manager and network daemon |
| netlink listener and queries (`netlink/`, `interface/query.rs`) | sockets | stream of notices; link and address dumps; requests | kernel |
| backup route table (`route/backup.rs`) | gateway of each interface, networks of each interface and back | insert, remove, queries | owned by the route manager |
| route table (`route/table.rs`) | routes by prefix, prefixes by interface | insert, remove, find | owned by the route manager |
| route manager (`route/mod.rs`) | the two tables | interface events, route messages, dead-route cleanup, default route | kernel (routing socket) |
| network daemon (`daemon/service.rs`) | Wi-Fi and DHCP supervisors per interface | interface events, Wi-Fi events, connections | all managers |
| DHCP manager, client, watchdog (`dhcp/`) | lease, transaction, timers | request, renew, rebind, release, expiry, restart after a crash | DHCP server; DhcpV4Set to the interface manager |
| Wi-Fi manager, wpa_supplicant (`wifi/`) | known networks, current attempt, retries | scan, connect, add and remove networks, restart of the backend | control socket; events to the network daemon |
| configuration and profile store (`config/`, `storage/`) | `config.toml`, SQLite | load, save, put, get, delete | written by interface manager and client handlers |
| client handlers (`daemon/client.rs`, `server.rs`, `subscriber.rs`) | connection, subscriptions | requests | all managers |
| terminal client (`src/network-manager-tui/src/`) | screen, popup, lists of interfaces and networks | keys, forms, polling | client handlers, over the socket |
| broadcast (`src/libnetwork-daemon/src/utils/broadcast.rs`) | queue of senders | subscribe, broadcast | |

Not part of the program's own logic: the schema generator, the vendored
route_manager library (but for the order of its `Route`, see below), the parsers and
types of libnetwork-daemon, raw sockets and bindings.

### What is hard about it

* **A notice is not an update.** The interface manager reacts to a netlink notice by
  querying the link and sending *itself* a message. Refreshes, requests and other
  notices run between the query and the update, and several updates may be queued.
* **Indices are names that are reused.** Notices carry an index, the table is keyed
  by name, and the cached name of an index may be outdated.
* **Mirrors lag.** The route manager decides from its mirror of the routing table,
  which its own requests reach only through the kernel's messages.
* **Not every change is announced by who makes it.** `DhcpV4Set` leaves the
  broadcast to the notice of the address change it causes; removals of routes leave
  the default route to the route messages they cause.
* **Partial failure.** A request touches the kernel, the table and `config.toml` in
  turn, and each step can fail.
* **Supervision.** A client that is restarted forgets its lease, a backend that is restarted its networks; a supervisor that is
  found in a map keeps a new one from being started; a manager that fails once more
  is not restarted; a process outlives the backend that started it, and its socket
  keeps the next one from starting.
* **Two stores and a copy.** A saved network is a row in SQLite, an entry in
  `config.toml` and an entry of the backend, changed one after the other by handlers
  that run side by side, and merged by three different rules.
* **Waits without an end.** A request to wpa_supplicant has no timeout, and an actor that awaits one hears
  nothing else; a wait that is timed does not look at the process it waits for.
* **Identifiers of others.** wpa_supplicant gives the ids of removed networks out
  again; a profile must not keep one that is no longer its own.
* **A view of what was.** The terminal client decides from lists it read earlier, and
  a reply that misses its timeout is taken for that of the next request.

`PROJECT.json` lists each hazard at its line, with the properties that cover it or
why none does.

### What makes each component correct

* Interface table: a lookup by index answers with an interface of that index; no
  listing misses an interface.
* Interface manager: once quiet it has every link of the kernel as the kernel has
  it; subscribers were told what it has (but for the SLAAC flag, see below); a gateway is that of the current lease; a
  link that stays becomes known.
* Route tables: the directions of every mapping agree; a route is found under its
  interface.
* Route manager: the mirror equals the kernel's table when no message waits; the
  gateways kept are those of connected interfaces; there is a default route when an
  interface could carry one, and not over a dead interface; it comes to rest.
* DHCP: an address is configured exactly while its lease runs; somebody watches it.
* Network daemon: an interface has the managers its settings ask for, one of each
  kind, and clients are served while they start and stop.
* Wi-Fi manager: a dead backend is replaced, by as many starts as it allows itself, and ends that
  are none of a start do not count;
  the interface's state is that of wpa_supplicant.
* wpa_supplicant backend: an id recorded with a profile is that of the profile's network;
  the selected network can be reached; secrets are kept by edits.
* Profile store: a start of the daemon brings back what was known, and not what was removed.
* Terminal client: what it shows as done is what the daemon has.

## The modules

### InterfaceTable, InterfaceManager

`InterfaceTable` has the table as a record of functions and each method as an
operator. `TableOf` is `clear` followed by one `insert` per interface of a dump,
which has one interface per name and index.

`InterfaceManager` has one action per handler:

| variable | code |
|---|---|
| `kernel` | the kernel's links: index, operational state, addresses |
| `netlink` | notices in the listener's socket |
| `mailbox` | the actor's mailbox: forwarded notices, the ForceRefresh of `on_start`, self-sent updates |
| `pc` | what the running handler does after its await: `tell` the update it decided on, or `install` the dump of a refresh |
| `table`, `config` | `InterfaceManager::table`, the `[interface]` part of `config.toml` |
| `announced` | what the events broadcast so far say of each interface (a subscriber's channel is unbounded and in order, so a subscriber that has caught up knows this) |
| `untold` | the interfaces whose SLAAC flag the table has and the events do not say |
| `lease` | the lease each DHCP manager reported last |
| `alive` | FALSE once an error answered a `tell` |

| action | code |
|---|---|
| `LinkArrives`, `LinkDeparts`, `OperChanges` | the kernel (external) |
| `Forward` | `NetlinkListener` as a stream attached to the actor |
| `HandleNetlink`, `Tell` | the stream handler, mod.rs:946-1099: reads the cache and the query's answer, then sends |
| `HandleUpdate` | `UpdateInterfaceInfo`, mod.rs:816-870 |
| `HandleForceRefresh`, `ForceRefresh`, `Install` | `refresh_interfaces`, mod.rs:66-131: before and after its awaits |
| `AddLink`, `DelLink`, `ModLink`, `DhcpV4Set`, `UpdateExternalInterfaceState`, `MarkAsUnManaged` | the requests of the same names |

`ModLink` sets the SLAAC flag after the state of the link: a failure there ends the handler, and
success puts the interface into the table again with the flag, of which no event tells and no
notice follows (mod.rs:723-730).

What is abstracted: an interface's addresses are a set; MAC addresses and IPv6 (the same
code with other fields) are left out, and of the SLAAC flag it is only followed whether the subscribers
know it, with either value: an event about the interface tells it, and a refresh announces an
interface of which nothing but the flag has changed. The name
that `create_auto_wlans` numbers is any interface of that device that does not
exist. The parent, type and name of an interface belong together (`TypeOf`,
`ParentOf`). A creation may fail, which also stands for failing to read the
configuration or to list the devices. A request has its whole effect when it is taken,
except for a refresh, whose query and whose change of the table are two steps. The
dump itself is one instant: a change during it is followed by a notice of its own,
as is every change. Requests that are refused and queries change nothing and are
left out; so are queries that fail with an I/O error, and a netlink socket that
overflows (the code has nothing for either but a log line).

The kernel is external. A departing link may be announced by a NewLink with the dying
flag (if_link) and a DelLink. `PromptReuse` says which indices a new link may take: any
free one (TRUE), or a free one that nothing the daemon has still to handle and
nothing in its table mentions (FALSE). FreeBSD takes the lowest free index, so TRUE is
what can happen and FALSE what does when links do not come back at once.

### RouteTables, RouteManager

`RouteTables` has `BackupRouteTable` and `RouteTable` as values. `RouteTable` files
its routes in a `BTreeSet<Route>` per prefix, and the order of `Route`
(`src/vendor/route_manager/src/common/mod.rs`, `impl Ord for Route`) compares the prefix
length alone on FreeBSD, so that the set never has a second route; `RouteInsert` does
the same: it keeps the route that is there and still indexes the new one.

`RouteManager` has the actor with `pc` for what the running handler still does: look at
the default route (`Restore`), delete the routes of an interface one by one
(`Cleanup`), add a network back by another interface (`AddBackTo`). Every request to
the kernel is a step, and everybody else moves between them.

| action | code |
|---|---|
| `Start` | `on_start`, mod.rs:167-206; the listener is opened before the list is read |
| `HandleIfEvent` with `InterfaceAdded`, `InterfaceRemoved`, `InterfaceChanged` | mod.rs:212-286 |
| `HandleRouteChange` | mod.rs:292-323 |
| `DeleteDead`, `AddBack`, `EndCleanup` | `dead_rt_cleanup`, mod.rs:83-161 |
| `AddDefaultIfNeeded` | `add_default_rt_if_needed`, mod.rs:42-81 |
| `Appears` ... `Refreshed` | the events of the interface manager (an interface whose gateway came from a lease loses it in a refresh, which announces it as removed and added) |
| `Vanishes` | a removal that netlink reports, of which there is no event (mod.rs:828-835 of interface); `untold` has the interfaces that went away so and of which no change was told since |
| `KernelWithdraws`, `KernelConnects`, `AdminRoute` | the kernel, and other programs (external) |

The kernel has one route per prefix (no multipath), refuses a route whose prefix is
taken, whose interface is gone, or whose gateway is on no network of the interface,
and deletes by prefix and, when one is given, gateway. One address family is
modelled; the other has a backup table of its own and goes through the same code.

### LeaseReports, DhcpLease

`LeaseReports` is what the interface manager relies on of the `DhcpV4Set` it is sent: each
report names as old the lease that was reported last, but for the first report of a client that was
started again (`forgotten`), which names none. `DhcpLease` has the three
actors that keep the lease of one interface, and is checked to implement it
(`ReportsChain`):

| variable | code |
|---|---|
| `client`, `events` | `DhcpClient`: the answer its handler awaits (`at`), whether that handler is `on_start`, its lease; its mailbox |
| `watchdog`, `alarms` | `LeaseWatchdog`: idle, awaiting the client (`asking`), or about to treat its answer; its mailbox |
| `timers` | the stream of `set_timers`: how many of its three deadlines have passed, and the one it sleeps for |
| `manager`, `inbox`, `stopping` | `DhcpManager`, its mailbox, and whether NetworkDaemon has stopped it |
| `xid`, `request`, `answers` | the current transaction, the packet under way, the client's socket |
| `binding` | the address the server has bound (external) |
| `told`, `report` | what the interface manager was sent last |
| `restarted` | the client was started again and has not been heard of |

| action | code |
|---|---|
| `TakeOffer`, `TakeAck`, `TakeNak`, `CrashOnAck`, `SkipAnswer`, `TimeOut` | `request`, `renew` and `rebind`, and the end of `on_start` or of the handler they run in, client.rs:171-595, 650-669, 690-773 |
| `HandleRenewal`, `HandleExpired` | the handler of `LeaseEvent`, client.rs:690-717, up to its first await |
| `HandleWatchdogDied`, `HandleManagerStopped` | the client's `on_link_died`, client.rs:671-684, with `release` |
| `TimerFires`, `Ask`, `SetTimers`, `WaitForNextTimeout`, `KillItself` | lease.rs: the stream, and the handler before and after its `ask` |
| `ForwardReport`, `HandleClientDied`, `RestartClient`, `HandleStop` | mod.rs (dhcp) |
| `ServerAnswers`, `BindingLapses`, `TimePasses`, `StopManager` | the server, time, the network daemon (external) |

What is abstracted. Times are an order: a deadline has passed or not. The three
transmissions of a packet are one `request` that the server answers never, once or twice;
a packet that cannot be written and an answer without an option the lease needs end
the transaction as if there were no answer. Two transaction ids are enough, since an
attempt only times out on an empty socket, so that no answer is older than the transaction
before the current one. A renewed lease keeps its address (`TakeAck`). An ACK may make the client
panic (it takes the first of its routers, client.rs, when the option lists none), and so does a NAK to
the request of a handler (`TakeNak`): `attempt` is given no timeout there, waits u64::MAX seconds and
doubles them (utils.rs:23 and 33), so that the three attempts of client.rs:709-724 are one. A NAK while the client
starts fails `on_start`, which ends the client as well. A restart may fail to open its socket.
The death of a linked actor is a message; `kill` ends the watchdog at once. The model
follows one manager from its start to its end, and the address that a stopped or crashed client
leaves configured is outside it.

### WpaSupplicant

The backend's known networks and the process it commands. A handler awaits every
command and handlers run one at a time, so a request is one step; a command is an
operator from a process to the set of its outcomes (OK after doing it, FAIL, or an
error of the socket, the last two bounded by `MaxFaults`), and a request composes them
in the order of the code, with its early returns and its cleanup.

| variable | code |
|---|---|
| `keys`, `known` | `known_networks`: its keys (SSID and security) and the entries of each profile with id, state and secrets; a key without an entry stays, as in the code |
| `scan_results` | the profiles of the last scan |
| `wpa` | the process (external): its networks by id, each with the profile it was added for; the selected one; whether it is online |
| `loaded` | a tag that marks LoadNetworks |

| action | code |
|---|---|
| `AddNetwork`, `Registered` | `register_known_network`, mod.rs:468-566; an omitted secret keeps the stored one |
| `Configure`, `Unregister` | `add_and_configure_network`, `unregister_wpa_network`, mod.rs:392-465 |
| `RemoveKnown` | `remove_known_network`, mod.rs:568-631 |
| `Candidates`, `Connect` | `select_known_candidate`, `connect_known`, mod.rs:633-784 |
| `LoadNetworks`, `Disconnect`, `Reconnect`, `ScanResults` | the handlers of the same names |
| `BackendRestarts` | a new backend with a new process, which is given no networks |

Signal strength orders candidates in the code; here any saved network in range may be the
strongest. EAP methods are one identity and one password.

### WifiManager

The supervisor (`at`, `retry_cnt`, `child`), its `backend` with the request it `awaits`, the processes
and their socket
(`proc`, `socket`, `wpa`, external), and the way of a state: `events` from the process,
`statuses` to the supervisor, `stream` to the network daemon, `external` as the interface
manager was told. `missed` marks a failure that swallowed a state, `asked` that the
network daemon has stopped the supervisor, and `cutShort` counts the processes that ended while the
supervisor waited for them since it last ran.

| action | code |
|---|---|
| `Launch`, `SocketFound`, `StartTimesOut` | `WpaSupplicantInstanceHandle::new`, handle.rs:17-65: a socket that exists makes the start fail, and so does one that has not appeared after five seconds, whatever has become of the process |
| `StartFails` | the count of `on_start` and `on_link_died`, manager.rs:84-100, 127-160 |
| `InitialStatus` | `WpaSupplicant::on_start`, mod.rs:1098-1139 |
| `HandleWpaEvent`, `Scan` | mod.rs:1011-1040: the event has no state, the backend asks for it; mod.rs:895-910: a scan every 15 seconds |
| `Request`, `Answered`, `Unanswered`, `RequestFails` | `WpaCtrl::request` and `request_ok`, control/mod.rs:60-112: it is sent, which fails when the process is gone, and its answer is awaited without a timeout |
| `ExitSeen`, `ListenerFails`, `BackendDies` | the ends of a backend: the exit of its process, which it sees once it awaits nothing, and the event connection; a request that fails may be one, too |
| `LinkDied`, `Broadcast`, `Stop` | manager.rs |
| `DaemonHandles` | daemon/service.rs:221-259 |
| `ProcessServes`, `ProcessEnds`, `ProcessHangs`, `StateChanges` | wpa_supplicant |

Nothing in the code ends a process: not the death of its backend, not a timeout of its
start. The model has that too, and processes that end by themselves leave no socket, those
that are killed leave it; one may be there from before the daemon's start, with its process or without.
A read that waits for a process that is gone may fail, and need not: `Unanswered` is no part of what
fairness asks for.

### ProfileStore

| variable | code |
|---|---|
| `credentials` | the rows of SQLite, by scope (the interface's MAC, or none for entries of older versions) and profile |
| `content`, `config`, `tmp` | files, and which of them `config.toml` and `toml.tmp` are |
| `writer` | the client handlers and the interface manager, each at a stage of its request, with what it has read and the file it has open |
| `loader` | `load_persisted_networks` of the network daemon |
| `known` | what the backend knows |
| `raced`, `behind`, `removed` | what a property needs to know of the past: requests overlapped; the backend took a request in part, or was started again and not given its networks; profiles that were removed |

A request goes through `AddNetwork` or `RemoveNetwork`, `SaveCredential` or `RemoveCredential` and
`RemoveLegacy`, `ReadConfig`, `OpenTemp`, `WriteTemp`, `RenameTemp` and `Forward`, each
a step, with every other writer, `StartBackend` and its loading, `RestartBackend` (the supervisor
replaces a backend that has died by one that knows nothing, manager.rs:127-160, and nobody loads it) and `Crash` in between.
SQLite belongs to an actor, so its operations are steps of their own. `std::fs::write` truncates
and then writes: `OpenTemp` finds the file another has open, and `WriteTemp` writes from the start,
over what is there (a longer rest makes the file garbled). An empty file parses as the
default configuration; one that does not parse is taken for an empty one by the handlers and
the loader.

### KnownNetworks

The contract between the last two: what `ForwardAdd`, `ForwardRemove` and the loads of ProfileStore take the
backend to do is what WpaSupplicant does, command by command, as far as profiles and
passwords are concerned. Both modules are shown to implement it (`KeepsProfiles` in each, by `INSTANCE ... WITH`): in
WpaSupplicant the row of a profile is the password of its entry (`Rows`), in ProfileStore
the networks are loaded when the loader is idle. What a load brings is left open, since the loader
decides it; EAP identities, a column of their own that the store and the backend merge
in the same way, are not part of it.

### NetworkDaemon

The composition seen from the network daemon: the interface manager is its `table` and the
`events` it broadcasts, a Wi-Fi manager is its start, run and end, a DHCP manager likewise.
`daemon` is the handler that awaits LoadNetworks; while it does, no event is handled and no
connection accepted (`Busy`). `registry` is where client handlers look Wi-Fi managers up, `socket` the
control sockets that processes have left. `LinkDisappears` sends no event, as
the handler of a removal that netlink reports; `Refresh` sends Removed and Added.

| action | code |
|---|---|
| `HandleAdded`, `NetworksLoaded` | service.rs:327-398, before and after the `ask` |
| `HandleRemoved`, `HandleChanged` | service.rs:399-488 |
| `WifiRegisters`, `WifiStarts`, `WifiStops`, `WifiFails`, `DhcpStops`, `DhcpFails` | the managers, as in WifiManager and DhcpLease |
| `WifiBlocks`, `BlockedStops` | a backend awaits an answer that does not come (control/mod.rs:60-90): whoever asks the manager then, the handler of InterfaceAdded included, may wait for ever, and it may or may not still stop |
| `Accept`, `Connect`, `Send`, `Lookup`, `Answered` | connections and client handlers |

Managers are numbered for TLC; one that has stopped and that nobody refers to may be used again.

### Terminal

The client's `App` (`screen`, `popup`, `interfaces`, `known`, `status`), the `task` of requests
that a key handler still has to make, the socket (`requests`, `replies`), and the daemon as the
terminal sees it: the interfaces as it lists them (`links`) and as they are (`kernel`), the Wi-Fi interface
with its networks and its manager (`profiles`, `assoc`, `manager`). A key handler runs until its last request is
answered (`Answered`), one fails, or a read times out (`TimedOut`: the reply is still
to come).

| action | code |
|---|---|
| the actions of `Key`, `PollConnecting` | `App::handle_key` and `tick`, app.rs |
| `Answered`, `TimedOut` | `DaemonClient::request`, client.rs:56-97, and what the handler does next |
| `Serve` with `Query`, `ChangeLink`, `ChangeWifi` | `ClientHandler::handle`, daemon/client.rs, and the managers it asks |
| `Refuse` with `Partly`, `ModLinkFails` | a request that fails, before or after some of its effects, in the order of the code (mod.rs:647-746 of interface; an interface that is made or destroyed and not recorded; a network that is forgotten or selected and not taken) |
| `Notice` | the interface manager handles a notice: only now is what the kernel has of an interface listed |
| `Reconfigure` | an address comes or goes: a lease is obtained or lost (`DhcpV4Set`), also one of a DHCP manager that is about to stop; another client or program; another client changes a flag |
| `Elsewhere` | the Wi-Fi requests of another client, whose handler runs beside this one's: add, remove, connect, disconnect |
| `BackendEnds` | the backend is replaced by one that knows no network, its manager gives up, or it is blocked |
| `Unplug`, `Associate` | the kernel; the access points |

Clearing deletes the addresses that the daemon lists, which lag behind the kernel (mod.rs:701-714), and
fails on one that is gone already. What is exempt from what a saved form promises is kept in
`exempt`; `taken` says that another client has had a network selected after this terminal's request.
The four states of `Status` are what the client tells apart of the eleven of wpa_supplicant: it closes the popup on
COMPLETED, DISCONNECTED and INTERFACE_DISABLED (the last two are one here), and polls on while wpa_supplicant tries
(SCANNING to GROUP_HANDSHAKE) or has nothing to try (INACTIVE and UNKNOWN are one). The latter is what
remains when the selected network is removed, or in a backend that was started again.

Left out: drawing, the focus (every control of a form is reachable, so its key is enabled),
and the parsing of what is typed. A form's lists of addresses are taken from `Lists4` and
`Lists6`; BSSID, identity and the hidden flag are part of a network; "Psk" stands for every security
with a secret. A notice brings what the kernel has when it is handled; how notices, updates and
refreshes overtake one another is InterfaceManager's.

## The runs

| run | configuration | shows |
|---|---|---|
| `interface_leases` | 2 interfaces, 2 indices, one wireless device, 1 address, 2 leases of it with different gateways, 2 stimuli, indices not reused promptly | TypeOK, TableSound, LiveLinksKnown, SubscribersCurrent, GatewayIsLeased |
| `interface_live` | 2 interfaces, 2 indices, no addresses, 2 stimuli, fairness | LinkBecomesKnown |
| `route_failover` | 2 interfaces, 2 networks, 1 gateway, 3 changes, 1 removal or refresh, fairness | TypeOK, BackupSound, RoutesFound, MirrorAgrees, BackupCurrent, DefaultRestored, Settles |
| `dhcp_lease` | 2 leases of interchangeable addresses, crashes | TypeOK, LeaseIsWatched, RenewalHasLease, ToldIsHeld, HeldIsBound, AnswersAreNew, ReportsChain |
| `dhcp_live` | 1 lease, 1 answer at a time, crashes, sockets that fail, fairness | ExpiryIsHandled, StoppedClientEnds, CrashedClientRestarts |
| `wpa_networks` | 3 profiles of 2 SSIDs (one bound to an access point), 2 interchangeable ids, 2 passwords, 1 failed command | TypeOK, IdsAreOwn, SelectedStaysKnown, SecretsSurvive |
| `wifi_manager` | 4 processes, 2 states, 1 failure, 2 reports at each stage, fairness | TypeOK, ExternalIsCurrent, GivesUpOnFailure, BackendReturns |
| `profiles` | 1 SSID open and with a secret, 2 handlers and the interface manager, 2 requests, 1 failure, 1 crash or start of the daemon or of the backend | MemoryMatchesDisk, RemovedIsGone |
| `network_daemon` | 1 wireless interface, 3 managers of each kind, 1 client, 3 changes, 1 failure, fairness | TypeOK, DhcpFollows, ClientsAreServed |
| `terminal` | a wired and a wireless interface, 2 networks, a link at the start, forms with up to 2 IPv4 and 1 IPv6 addresses, 3 commands, 1 trouble (a change by others, a failure or a late reply), fairness | TypeOK, ConnectingIsSelected, SavedAsShown, ConnectingEnds |
| `profiles_torn` | as `profiles` | ConfigIsWhole **violated** |
| `daemon_wifi` | as `network_daemon`, 2 changes | WifiReturns **violated** |

Eleven more configurations are for use by hand. `InterfaceLinks.cfg` has 3 interchangeable indices and
3 stimuli without addresses (TypeOK, TableSound, LiveLinksKnown hold), `RouteProgress.cfg` checks the action
property ActorProgresses, which is a theorem, at the bounds of `route_failover`, `WpaProfiles.cfg` and
`StoreProfiles.cfg` check KeepsProfiles, which are theorems, at the bounds of `wpa_networks` and `profiles`, and the seven violations of
InterfaceLostLink, InterfaceRemovals, InterfaceSlaac, RouteVanished, RouteDeadDefault, DhcpStaleExpiry and WifiUntimed are
described in the next section.

Bounds. `MaxStimuli` counts changes of the kernel and requests in a behaviour,
`MaxChanges` and `MaxRemovals` those of interfaces and of routes by others; what
the actors do about them is not bounded, and neither are the queues (they are
bounded by what the stimuli cause). Two stimuli are enough for a link to arrive
and depart before its notices are handled, or for a lease to be reported and overtaken
by a queued update; the third of `InterfaceLinks.cfg` lets another link take the index and the
first return. Three changes let an interface gain a gateway, lose its carrier between an addition
and its route message, and another one take over; what two gateways or more stimuli would add is
covered by the theorems, which have no bounds. Two interfaces are enough since the handlers relate at
most two: the one a message is about and the one that has its index, its network
or the default route. Symmetry is used where only equality is asked of a constant:
leased addresses, the ids of wpa_supplicant and client handlers (and indices in `InterfaceLinks.cfg`), and never
in a run with a liveness property. Runs do not check for deadlock: with the stimuli used up everything
may come to rest.

In `wpa_networks` two ids are enough for one to be given to another profile after its removal
(requests are not counted); three profiles are one that any access point serves, one bound to
an access point of the same SSID, which a request without a BSSID finds as well, and one that
needs an identity. In `wifi_manager` nothing is counted but failures and processes: four processes are three that
end while they are waited for, the limit, and one that served before. A process is only lost while
another can be started or the supervisor has no retry left for it (`MayLose`), so that no behaviour ends with
the bound. One failure is a socket that was there or that a killed process leaves, a process that
hangs or is slow, or a request or connection that fails. In `profiles` two requests are what a race needs, one of the two may be the interface
manager's, and both start from every set of legacy entries. In `network_daemon` three
changes bring an interface, take it away without an event and bring it back, or refresh it
while its manager starts. In `terminal` three commands open a form, save it and
leave it, or select a network, enter its secret and connect; the run starts with a link that has two addresses
(`LinksAtStart`), so that a form can take one away and add another. The one trouble is a lease, another client's
request, a lost backend, a failing request or a late reply at any moment of it; with two of them (`MaxTroubles = 2`)
TLC finds no violation either, in some minutes. What `SaveEditor` asks for is
up to seven requests, each with others' steps before its reply.

In the DHCP runs nothing is counted: renewals, expiries, crashes and restarts may go on for
ever. `MaxAnswers`, `MaxAlarms` and `MaxInbox` bound the queues: two answers are one and its
duplicate, or a late one and a new one; two alarms are a stale one and one of the
timers in force (TimerFires waits when the mailbox is full, as the stream does at a
bounded mailbox); two reports are a loss and a new lease.

Fairness. `FairSpec` of the interface and route managers is weakly fair to the stream
task (`Forward`) and to the actor (`Handle`, `ActorStep`): both are tasks of the tokio
runtime, which polls a task that is ready again and again, and each waits for nothing but its own messages and the
kernel's answers. Nothing is assumed of the kernel, of clients or of the other managers.
`FairSpec` of `DhcpLease` is weakly fair to the client, the watchdog, the timer stream and
the manager, each as a whole: the client's waits have timeouts (`TimeOut`), and the
manager's sleep of 15 seconds ends. Nothing is assumed of the server or of time.
`WifiManager` is weakly fair to the supervisor, the backend and the network daemon, and to a process that is about to
open its socket (the supervisor stops waiting after five seconds, `StartTimesOut`). A request that the process can
answer is answered; nothing ends one that it cannot (`Unanswered`), and nothing is assumed of the ends of
processes. `NetworkDaemon` is weakly fair to its handler, the start and stop of each
Wi-Fi manager, the stop of each DHCP manager, and the connections and requests of each client: all are
tasks of the runtime, and the waits of a start are timed. Requests to a Wi-Fi manager are not: one is answered, or the
manager ends, or it is blocked, and of a blocked manager nothing is assumed. `Terminal` is weakly
fair to the event loop's poll, to taking a reply and to the daemon's serving; not to keys, and not to
the association, which may take for ever, nor to what others do (ConnectingEnds excepts both). A blocked Wi-Fi manager
does not answer; the read timeout is then what ends the wait.

### What the violated properties say

* `profiles_torn`: every saver of `config.toml` writes `toml.tmp` and renames it
  (config/mod.rs:119: "Atomically persist the configuration to `path` (temp + rename)."), on
  a multi-threaded runtime and without a lock. One has written its copy and is about
  to rename it, another opens the same file and truncates it, and the rename makes the
  empty file `config.toml`. Whoever reads it then reads the default configuration; a
  handler that saves what it read has lost every other network, and a crash before
  the second rename loses everything.
* `daemon_wifi`: a refresh announces a wireless interface as removed and added. The old Wi-Fi
  manager is stopped, but its wpa_supplicant and its socket stay (handle.rs:17-26: "Socket
  already exists, assume wpa_supplicant is running"). The three starts of the new one fail, it stops, and
  nothing tells the network daemon. `src/README.md:14`: "Auto launch wpa_supplicant".

Seven more are shown by configurations that are run by hand:

* `InterfaceLostLink.cfg` (LiveLinksKnown): em0 leaves (its index 1 is announced as dying and as deleted),
  returns with index 2, and another link takes 1. The second notice for index 1 still finds
  em0 cached, and its removal by name is handled after the addition of em0. The daemon
  then does not know a live interface until a refresh. `src/README.md:21`: "Listen to
  Netlink `RTMGRP_LINK` group to monitor interface changes".
* `InterfaceRemovals.cfg` (RemovalsAnnounced): a removal that netlink reports is taken out of the table
  silently (mod.rs:828-835), though subscribers "Subscribe to interface events"
  (mod.rs:60). Its supervisors and its gateway stay, and no refresh makes up for it.
* `InterfaceSlaac.cfg` (FlagsTold): ModLink puts the interface with its new SLAAC flag into the table, "so
  status/TUI reflect the state" (mod.rs:721), and broadcasts nothing; since the kernel sends no
  notice of the flag either, the subscribers keep what they were told before until something else of the
  interface changes. SubscribersCurrent is therefore about every field but this one.
* `WifiUntimed.cfg` (RequestsEnd): wpa_supplicant hangs or ends while the backend awaits the answer to STATUS
  or SCAN. control/mod.rs:76 says "Receive response with timeout", but there is none (the constant at
  :20 is unused): the handler waits for ever, the exit of the process stays in its mailbox, and the supervisor does not
  learn of it. BackendReturns and ClientsAreServed except a backend in this state, and say that nothing else
  keeps them waiting.
* `RouteVanished.cfg` (GoneIsForgotten): the same silence leaves the gateway of an interface that is gone in the route
  manager's table. It may be offered for the default route until a change of the interface is told, and the kernel
  refuses it while there is no such interface; if the order of the map offers it first, the gateway of an interface
  that is there is not tried until the next event or route message. BackupCurrent therefore excepts such interfaces (`untold`).
* `RouteDeadDefault.cfg` (NoDeadDefault): the default route the daemon has just added is not in its mirror
  when the interface loses its carrier; the cleanup does not see it and it stays,
  although another interface could take it. `src/README.md:32`: "Auto remove dead route".
* `DhcpStaleExpiry.cfg` (ExpiryIsReal): while a late renewal is under way the last deadline passes, and its
  event waits in the watchdog's mailbox. The renewal succeeds, the watchdog sets
  new timers, which aborts the old stream but not what it has emitted, and then tells the
  client that the lease it has just renewed is over (lease.rs:125: "Lease Expired").
  The client starts over with a DISCOVER and, without another offer, gives the lease up.

Conditions in properties that stand for a deviation:

* DefaultRestored is claimed while no interface was removed: the handler of InterfaceRemoved relies on a
  route message for the default route (mod.rs:158-159 of route), and there is none if the interface
  had no route left.
* DhcpFollows is claimed where the last event of an interface was a change: InterfaceRemoved
  leaves the DHCP manager, and InterfaceAdded starts one for an interface that is up but not
  for one that is already connected (service.rs:372-374 against :416-465).
* MemoryMatchesDisk is claimed for requests that did not overlap and while the backend is not `behind`:
  the stores are changed before the backend may refuse the request; a removal without a security takes all
  profiles of the network from the stores but one from the backend; and a backend that its supervisor has started again
  knows nothing (mod.rs:98 of wpa_supplicant), since LoadNetworks is only sent when the interface is added (service.rs:354-364).
* ToldIsHeld is claimed while the client is alive and past its first transaction: a client that dies, as
  it does at the first NAK of a new request, does not report that its lease is gone, and the one started 15 seconds later
  begins with (None, new) or nothing. LeaseReports allows just this one report (`forgotten`).
* GivesUpOnFailure counts ends of processes during a start as a reason beside failures: handle.rs:41-51 does not look at the
  process, so three ends in a row are three timed-out starts.
* SavedAsShown and ConnectingIsSelected are claimed with no late reply: the client does not match replies to requests.
  SavedAsShown excepts, address by address, what others changed of the interface during the save and what
  the daemon did not list when it cleared it (`exempt`), ConnectingIsSelected that another client has had another network
  selected (`taken`): tick does not compare names (app.rs:4161-4188).
* ConnectingEnds is claimed unless, again and again, the association is undecided or there is no manager that answers: the popup
  stays while wpa_supplicant is INACTIVE, and while every poll is refused or unanswered.
* A refresh overwrites the state that a Wi-Fi manager has reported of a wireless interface (mod.rs:109-113), which
  netlink updates leave alone since it "is managed externally" (mod.rs:844-845); in WifiManager
  nothing but reports changes the external state.
* A DHCP manager that cannot open the socket of a new client stops for good, with nobody
  linked to it (mod.rs:79 of dhcp): CrashedClientRestarts excepts it.

## What is proved

Every safety invariant, every safety action property and the refinement that the passing runs check are theorems
of their specifications, for every value of the constants that satisfies the named assumptions
(`NoneAssumption`, `ManagerAssumption`, `NoneIsNoRecord`, `RouteAssumption`, `BoundAssumption`, `FiniteAssumption`, `LeaseAssumption`,
`WpaAssumption`, `NoneIsNoNetwork`, `NoRowIsNoPassword`, `StoreAssumption`, `NoRowIsNoSecret`, `DaemonAssumption`, `TerminalAssumption`, `LinksAssumption`):
finitely many names and networks, types and parents for each name, leases with an address, profiles as records, finitely many
writers, lists of addresses as sequences, and None and the other markers different from every value they stand beside.
The bounds on changes, failures and requests are arbitrary numbers, so the theorems say what any number
of them does. Three theorems have a hypothesis beside, named below: `GatewayAlwaysLeased`, and the two about quiet
states of the interface manager.

The properties of quiet states ("once every message has been handled ...") have one argument in common.
They are not inductive, because most states are not quiet: the inductive invariant says at every
moment what the messages on their way will still change, so that with none left the property remains.

* `InterfaceManager_proofs`
  * The table: each operation keeps the type, `IndexSound` and `ListingsComplete`; `ListingsMissNothing`
    says what the latter is for. `IndexSound` is inductive only together with both of its halves: removing a
    name needs that its index leads back to it, inserting one needs that the displaced name had that index.
  * `TypeCorrect` and `TableAlwaysSound`. Every step leaves the table alone, inserts, removes or updates one
    info, or replaces the table by that of a dump (`TableOperation`), and each keeps the table sound. Indices
    reused at once are included.
  * `GatewayAlwaysLeased`, under `RoutersNamed` (every lease names a router). The inductive invariant `LeaseInv`
    adds to the property that infos are filed under their names, and that what is queued (updates in the
    mailbox, the one about to be sent, the dump about to be installed) comes from a query of the kernel and so
    has no gateway: that is why an overtaken update cannot bring an old gateway back. The assumption is
    needed: a restarted client reports (None, new), and if new has no router the code sees no change of
    gateway and keeps the old one.
  * `SubscribersAlwaysCurrent` and `LiveLinksAlwaysKnown`, unless an index is reused at once (`~PromptReuse`, as in
    the runs of the interface manager; InterfaceLostLink.cfg shows how a link is lost otherwise).
    Both rest on `IndexInv`: whoever the table, the mailbox or the kernel knows an index of is one name
    (`UniqueInv`), and the index of the table leads to it (`MappedInv`). `HeardInv` says for each
    interface which notification or update makes up for a subscriber that has not heard of its info yet.
    `LiveInv` says of each link that no removal of its index is waiting (`DeadInv`), that after a notice of an
    index it had comes news of the one it has (`StaleInv`), and that without such news what
    will be in the table last of it, be it the table, a dump about to be installed, or the last update in
    the mailbox, shows it as it is (`ShownInv`). The SLAAC flag, which the subscribers are not told, is no part
    of either; the steps that change it are. The proofs go through the steps by what they do to the queue
    and the kernel (`NextShapes`).
* `RouteManager_proofs`
  * `TypeCorrect`, `BackupAlwaysSound` and `RoutesAlwaysFound`, from the invariant `TablesSound` that joins the three: a
    route is only removed under the interface it was inserted with.
  * `MirrorAlwaysAgrees`, from `Mirrored`: the last message about a prefix tells of its route, a route is added only
    after its predecessor was deleted (`NoticesInv`), and the mirror has the routes that no message is about
    (`MirrorInv`). An added route may be there already, for the first dump and the stream overlap.
  * `BackupAlwaysCurrent`, from `BackupKept`: what the first event of an interface in the queue presupposes is
    what the manager did last, and each event presupposes the one before (`EventsOk`). An interface announced anew
    without a gateway leaves its entry alone; that is right only if its removal was told before, so what is presupposed
    of an interface that vanished silently is nothing until a change of it is told (`HeardOf`, `Kept`).
  * `DefaultAlwaysRestored`, from `DefaultKept`, which adds to both that every handler ends with a look at the
    default route as long as no interface was removed (`RestoreInv`), so that a quiet state without one has no
    gateway either (`NothingMissing`). A request for it that the kernel refuses is refused for a reason
    whose event or message is still to come, so that such a state is not quiet.
  * `ActorAlwaysProgresses`: each step of the actor lowers `Work`, a number computed from its mailbox, the route messages, the
    default route that may be added and the routes that a cleanup has left. So between two changes made by
    others it takes at most that many steps, for any number of interfaces and routes: its own additions and
    deletions come back as messages, but never as a reason to do the same again. This is the part of Settles that
    the provers can reach; that the actor is not stuck before it is done (ENABLED) is the rest, which TLC checks.
    It needs that there are finitely many networks (`FiniteAssumption`).
* `DhcpLease_proofs`
  * `TypeCorrect`, `LeaseAlwaysWatched` and `RenewalAlwaysHasLease`. The inductive invariant
    `WatchInv` says what the three actors know of each other: the death of a client is reported once and
    before it is restarted (`DeathsInv`), in which state the watchdog is for each state of the client
    (`PartnersInv`), that it has at most one question in the client's mailbox, and only while the client is
    idle (`QuestionInv`), and that with a lease its expiry is still to come or on its way (`WatchedInv`). The
    question is why a stale alarm never reaches a client without a lease: a client that loses its lease is
    answering the question, and its answer ends the watchdog and its mailbox.
  * `ReportsAlwaysChain`: DhcpLease implements LeaseReports, the abstract specification of what the interface
    manager is told. Initial states map to initial states, and each step to a report or a stutter. The invariant
    `ReportsInv` adds to `WatchInv` that the reports in the mailbox lead from the lease that was told, or from none
    after a restart, to the one that a client which lives holds (`ChainInv` with `Links`), and that a client which
    has died says nothing more, and one that was started again and holds a lease has said so (`SaidInv`). With an
    empty mailbox this is `ToldAlwaysHeld`.
  * `HeldAlwaysBound` and `AnswersAlwaysNew`, from `NetInv`: the socket holds the answers of earlier transactions before
    those of this one (`SocketInv`), a request that is not answered finds no answer there (`AwaitInv`), and what the
    server has bound is what the client holds or is about to be told (`BindingInv`). Losses, doubled and
    late answers are included.
* `WpaSupplicant_proofs`: `TypeCorrect`, `IdsAlwaysOwn`, `SecretsAlwaysSurvive` and `SelectedAlwaysKnown`. `IdsInv` joins the
  types and, while no command has failed, `Owned` of every profile; each operator on outcomes
  (`Unregister`, `Configure`, `Registered`) has a lemma that says what every outcome keeps of the networks of other
  profiles, and a new id is one that no network has. For the last, `SelectedExists`: the selected network is
  one the process has.
  `ProfilesAlwaysKept`: WpaSupplicant implements KnownNetworks. AddNetwork, RemoveKnown, LoadNetworks and a restart map to
  the four actions of the same meaning, everything else to a stutter: a Connect changes ids and states
  only, whichever of its commands fail.
* `WifiManager_proofs`: `TypeCorrect` needs that a supervisor that runs has retries left (`RetryInv`).
  `GivesUpOnlyOnFailure` rests on `Calm`: without a failure there is at most one process that runs, the one the supervisor
  waits for or its backend lives on, and the socket is its. So a start never finds a socket, it fails only
  when its process has ended, and the retries are the processes cut short since the supervisor last ran (`Pending` is
  the one whose wait has not ended yet): ends at other times leave no trace in them. `ExternalAlwaysCurrent` rests on `WayInv`: a process that serves owns the socket (`ServingInv`), and the last
  state on its way to the interface manager is that of the process, unless the backend is asking for it (`Latest`, `CurrentInv`).
* `ProfileStore_proofs`: `TypeCorrect` and `RemovedAlwaysGone`. A free file for `OpenTemp` exists by counting: each writer
  has at most one open, and two paths lead to two more. `RemovedIsGone` is inductive with the types and with
  `ScopesKnown`: a request has no scope but that of the interface unless the interface manager failed to
  answer, so that additions only write the row of the scope they take out of `removed`.
  `MemoryAlwaysMatches` rests on `MemoryInv`: while nothing has failed and no requests overlapped, one writer or the
  loader is at work (`AloneInv`), with restarts of the backend at any moment; at each stage of its request the files and rows are what the request
  makes of them (`SavingOK`, `StoredOK`), and of a profile that it has not touched the backend knows what is
  on disk unless it is `behind` (`MatchInv`). Reads that a loader or a save makes early are still right when they are used (`LoadingInv`).
  `ProfilesAlwaysKept`: ProfileStore asks no more of the backend than KnownNetworks, which WpaSupplicant implements.
* `NetworkDaemon_proofs`: `TypeCorrect`, the map entry that LoadNetworks relies on included, and `DhcpAlwaysFollows`. By
  `SupervisedInv` a DHCP manager that was not told to stop is the one in the map; `EventsInv` says that the
  last event of an interface tells what the table has of it, and `FollowInv` that an interface which no event in
  the queue is about (`NoneAbout`), once its last event was a change and nothing failed, has a DHCP manager
  exactly if it wants one (`Followed`).
* `Terminal_proofs`: `TypeCorrect`, `ConnectingAlwaysSelected` and `SavedAlwaysShown`, from `Inv`. Without a late reply the
  request that is awaited is the first of the task, so the next reply answers it (`AwaitedInv`). A connection is shown
  when the request for it was granted, and while only polls follow it this client selects no other network, so
  that another one is `taken` by somebody else (`SelectedInv`). What is left of a save is the creation of the
  interface, the modifications after the k-th and
  queries, and the kernel and the daemon have what k modifications make of the interface, up to what is `exempt`
  (`SavingInv` with `Remaining`, `Saved4` and `Part`), although what others do and notices come in between
  (`KeptInv`);
  with k all of them that is the form. The lists may be of any length: the run has two of
  different lengths, and the theorem is why no other pair drops an address.

Only model-checked: the liveness properties (LinkBecomesKnown, Settles, ExpiryIsHandled, StoppedClientEnds,
CrashedClientRestarts, BackendReturns, ClientsAreServed, ConnectingEnds), since fairness and ENABLED are out of the
prover's reach. What the runs that expect a violation and the configurations run by hand refute is no theorem.

## Not modelled, and why

* The cipher and the key file of the profile store, the SQL, and the migration of old databases: data without control
  that other parts see. A row that does not decrypt is in ProfileStore as a failed load.
* Subscriptions of clients to events, and subscribing during a broadcast: the program's own
  subscribers are there before the first event, and an event reaches each in order.
* Start-up: the opening of the stores, the socket file with its group and the lock against a second
  instance. A daemon that fails there does not run.
* The text of the wpa_supplicant protocol, netlink and ioctl encodings, raw sockets, DHCP
  options: pure input and output. What they can do to the actors (a loss, a refusal, an error) is in
  the models.
* Parsers and formats of libnetwork-daemon, the schema generator and the vendored library:
  no state of their own. Their values are model values.
* Drawing and focus in the terminal client.
