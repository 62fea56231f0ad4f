------------------------------- MODULE DhcpLease ------------------------------
(***************************************************************************)
(* The three actors that keep the DHCPv4 lease of one interface (dhcp/):   *)
(* DhcpManager, which restarts its client and passes its reports on to the *)
(* interface manager; DhcpClient, which talks to the server; and the       *)
(* client's LeaseWatchdog, which runs the timers of the lease and asks the *)
(* client to renew, to rebind or to give up.                               *)
(*                                                                         *)
(* A handler of the client awaits the server while the timers run on, and  *)
(* the watchdog awaits the client (ask): what they emit meanwhile waits in *)
(* the watchdog's mailbox (alarms).                                        *)
(*                                                                         *)
(* The server, the network and the passing of time are external.  An       *)
(* answer may be lost, come late or twice (the client retransmits three    *)
(* times); it waits in the client's socket, which is not read between two  *)
(* transactions.  A transaction has a random xid.  Two xids are enough     *)
(* here: an attempt only times out on an empty socket, so no answer in it  *)
(* is older than the transaction before.                                   *)
(*                                                                         *)
(* Writing to the socket may fail and an answer may lack an option the     *)
(* lease needs: both end the transaction like an answer that never comes.  *)
(***************************************************************************)
EXTENDS Naturals, Sequences

CONSTANTS
  None,        \* no lease, no address
  Addr,        \* addresses
  Gateway,     \* routers
  Lease,       \* leases: records [ip, gateway]
  MaxAnswers,  \* bound: answers in the client's socket
  MaxAlarms,   \* bound: timer events in the watchdog's (bounded) mailbox
  MaxInbox     \* bound: reports in the manager's mailbox

ASSUME LeaseAssumption ==
  /\ Lease \subseteq [ip : Addr, gateway : Gateway \cup {None}]
  /\ None \notin Lease /\ None \notin Addr
  /\ {MaxAnswers, MaxAlarms, MaxInbox} \subseteq Nat \ {0}

VARIABLES
  manager,     \* the DhcpManager: running, sleeping before a restart, or stopped
  inbox,       \* its mailbox
  stopping,    \* NetworkDaemon has stopped it and dropped its reference
  client,      \* the DhcpClient: where it awaits, and its lease
  events,      \* its mailbox
  watchdog,    \* the LeaseWatchdog
  alarms,      \* its mailbox: indices of the deadlines that passed
  timers,      \* its stream: deadlines passed, and the next one to wait for
  xid,         \* the current transaction
  request,     \* the packet the client sent last, until the server has seen it
  answers,     \* the client's socket
  binding,     \* the address the server has bound to the interface
  told,        \* the lease the interface manager was told of last
  report,      \* the last DhcpV4Set
  restarted    \* history: the client was started again and has not been heard of

actorVars == <<manager, inbox, stopping, client, events, watchdog, alarms, timers>>
netVars   == <<xid, request, answers, binding>>
heardVars == <<told, report, restarted>>
vars      == <<actorVars, netVars, heardVars>>

-------------------------------------------------------------------------------
(***************************************************************************)
(* Data.                                                                   *)
(***************************************************************************)
Packet == [kind : {"Discover", "Select", "Renew"}, ip : Addr \cup {None}, xid : {0, 1}]
Answer == [kind : {"Offer", "Ack"}, lease : Lease, xid : {0, 1}]
            \cup [kind : {"Nak"}, lease : {None}, xid : {0, 1}]

Report(old, new) == [type |-> "Report", old |-> old, new |-> new]
Letter == [type : {"Report"}, old : Lease \cup {None}, new : Lease \cup {None}]
            \cup [type : {"ClientDied", "Stop"}]

LeaseEvent == {"Renewal", "Rebinding", "LeaseExpired"}
EventOf(stage) == <<"Renewal", "Rebinding", "LeaseExpired">>[stage + 1]

Client == [at : {"dead", "idle", "offer", "ack", "renew"}, starting : BOOLEAN,
           lease : Lease \cup {None}]

Dead      == [at |-> "dead", starting |-> FALSE, lease |-> None]
Starting  == [at |-> "offer", starting |-> TRUE, lease |-> None]
NewTimers == [passed |-> 0, next |-> 0]
NoTimers  == [passed |-> 0, next |-> 3]

\* The manager has been started and its client has sent its first DISCOVER.
Init ==
  /\ manager = "running" /\ inbox = <<>> /\ stopping = FALSE
  /\ client = Starting /\ events = <<>>
  /\ watchdog = "dead" /\ alarms = <<>> /\ timers = NoTimers
  /\ xid = 0 /\ request = [kind |-> "Discover", ip |-> None, xid |-> 0]
  /\ answers = <<>> /\ binding = None
  /\ told = None /\ report = None /\ restarted = FALSE

-------------------------------------------------------------------------------
(***************************************************************************)
(* The server, and time.                                                   *)
(***************************************************************************)

\* The server answers zero (lost), one or two times (the request was sent again).
Answers(kind, lease, copies) ==
  /\ Len(answers) + copies <= MaxAnswers
  /\ answers' = answers \o [j \in 1..copies |-> [kind |-> kind, lease |-> lease, xid |-> request.xid]]

Offer(lease, copies) ==
  /\ request.kind = "Discover"
  /\ Answers("Offer", lease, copies)
  /\ UNCHANGED binding

\* It binds an address that was selected, and extends a binding that was renewed.
Grant(lease, copies) ==
  /\ request.ip = lease.ip
  /\ request.kind = "Select" \/ (request.kind = "Renew" /\ binding \in {lease.ip, None})
  /\ Answers("Ack", lease, copies)
  /\ binding' = lease.ip

Refuse(copies) ==
  /\ request.kind \in {"Select", "Renew"} /\ request.ip # binding
  /\ Answers("Nak", None, copies)
  /\ UNCHANGED binding

ServerAnswers ==
  /\ request # None
  /\ \E copies \in 0..2 :
       Refuse(copies) \/ \E lease \in Lease : Offer(lease, copies) \/ Grant(lease, copies)
  /\ request' = None
  /\ UNCHANGED <<actorVars, xid, heardVars>>

\* The server's lease is over, or the server has forgotten it.
BindingLapses ==
  /\ binding # None
  /\ binding' = None
  /\ UNCHANGED <<actorVars, xid, request, answers, heardVars>>

\* One more deadline of the timers passes.
TimePasses ==
  /\ watchdog # "dead" /\ timers.passed < 3
  /\ timers' = [timers EXCEPT !.passed = @ + 1]
  /\ UNCHANGED <<manager, inbox, stopping, client, events, watchdog, alarms, netVars, heardVars>>

-------------------------------------------------------------------------------
(***************************************************************************)
(* Steps of the client's handlers.                                         *)
(***************************************************************************)

\* A report is lost once the manager has stopped.
Tell(old, new) ==
  IF manager = "stopped" THEN UNCHANGED inbox
  ELSE Len(inbox) < MaxInbox /\ inbox' = Append(inbox, Report(old, new))

Send(kind, ip) ==
  /\ xid' = 1 - xid
  /\ request' = [kind |-> kind, ip |-> ip, xid |-> xid']

\* request() begins.
Discover ==
  /\ client' = [client EXCEPT !.at = "offer"]
  /\ Send("Discover", None)

\* The watchdog survives a client that stops normally until its next ask fails.
Die(reason) ==
  LET orphan == reason = "Normal" /\ watchdog = "idle"
  IN /\ client' = Dead /\ events' = <<>> /\ answers' = <<>>
     /\ inbox' = IF manager = "stopped" THEN inbox
                 ELSE Append(inbox, [type |-> "ClientDied"])
     /\ watchdog' = IF orphan THEN watchdog ELSE "dead"
     /\ alarms' = IF orphan THEN alarms ELSE <<>>
     /\ timers' = IF orphan THEN timers ELSE NoTimers

\* Mutant of Obtain: the lease is replaced before it is reported.
ObtainForgetting(lease) ==
  /\ client' = [at |-> "idle", starting |-> FALSE, lease |-> lease]
  /\ Tell(None, lease)
  /\ IF client.starting
     THEN watchdog' = "idle" /\ timers' = NewTimers
     ELSE watchdog' = "renewed" /\ UNCHANGED timers
  /\ UNCHANGED <<events, alarms>>

\* The end of on_start or of a handler that has a lease.
Obtain(lease) ==
  /\ client' = [at |-> "idle", starting |-> FALSE, lease |-> lease]
  /\ Tell(client.lease, lease)
  /\ IF client.starting
     THEN watchdog' = "idle" /\ timers' = NewTimers
     ELSE watchdog' = "renewed" /\ UNCHANGED timers
  /\ UNCHANGED <<events, alarms>>

\* The end of a handler whose renewal failed: the lease stays.
KeepLease ==
  /\ client' = [client EXCEPT !.at = "idle"]
  /\ watchdog' = "failed"
  /\ UNCHANGED <<inbox, events, alarms, timers, answers>>

\* Mutants of LoseLease: the loss is not reported,
LoseLeaseSilently ==
  /\ client' = [client EXCEPT !.at = "idle", !.lease = None]
  /\ watchdog' = "rejected"
  /\ UNCHANGED <<inbox, events, alarms, timers, answers>>

\* the client keeps it,
LoseLeaseNot ==
  /\ client' = [client EXCEPT !.at = "idle"]
  /\ Tell(client.lease, None)
  /\ watchdog' = "rejected"
  /\ UNCHANGED <<events, alarms, timers, answers>>

\* the watchdog is answered that the transaction failed.
LoseLeaseAsFailure ==
  /\ client' = [client EXCEPT !.at = "idle", !.lease = None]
  /\ Tell(client.lease, None)
  /\ watchdog' = "failed"
  /\ UNCHANGED <<events, alarms, timers, answers>>

\* The end of a handler that could not get another lease.
LoseLease ==
  /\ client' = [client EXCEPT !.at = "idle", !.lease = None]
  /\ Tell(client.lease, None)
  /\ watchdog' = "rejected"
  /\ UNCHANGED <<events, alarms, timers, answers>>

\* request() failed.
RequestFails == IF client.starting THEN Die("Panicked") ELSE LoseLease

Awaited == CASE client.at = "offer" -> {"Offer"}
             [] client.at \in {"ack", "renew"} -> {"Ack", "Nak"}
             [] OTHER -> {}

\* Mutant of Accepts: any transaction will do.
AcceptsAnyXid(answer) == answer.kind \in Awaited

Accepts(answer) == answer.xid = xid /\ answer.kind \in Awaited

\* The client reads an answer that it awaits.
Read(kind) ==
  /\ client.at \in {"offer", "ack", "renew"}
  /\ answers # <<>> /\ Accepts(Head(answers)) /\ Head(answers).kind = kind

SkipAnswer ==
  /\ client.at \in {"offer", "ack", "renew"}
  /\ answers # <<>> /\ ~Accepts(Head(answers))
  /\ answers' = Tail(answers)
  /\ UNCHANGED <<actorVars, xid, request, binding, heardVars>>

\* The REQUEST for an offer belongs to the transaction of the DISCOVER.
TakeOffer ==
  /\ Read("Offer")
  /\ client' = [client EXCEPT !.at = "ack"]
  /\ request' = [kind |-> "Select", ip |-> Head(answers).lease.ip, xid |-> xid]
  /\ answers' = Tail(answers)
  /\ UNCHANGED <<manager, inbox, stopping, events, watchdog, alarms, timers, xid, binding,
                 heardVars>>

\* A renewed lease keeps its address and takes what options the ACK has.
AckedLease ==
  IF client.at = "renew"
  THEN {l \in {Head(answers).lease, client.lease} : l.ip = client.lease.ip}
  ELSE {Head(answers).lease}

TakeAck ==
  /\ Read("Ack")
  /\ \E lease \in AckedLease : Obtain(lease)
  /\ answers' = Tail(answers)
  /\ UNCHANGED <<manager, stopping, xid, request, binding, heardVars>>

\* The router option of the ACK names no router: router[0] panics.
CrashOnAck ==
  /\ Read("Ack")
  /\ Die("Panicked")
  /\ UNCHANGED <<manager, stopping, xid, request, binding, heardVars>>

\* A refused renewal is followed by request().  A refused request() is the end of
\* the client: on_start fails, and the handler's attempt has no timeout to double
\* (u64::MAX seconds), so that its multiplication panics (utils.rs:33).
TakeNak ==
  /\ Read("Nak")
  /\ \/ /\ client.at = "renew"
        /\ Discover
        /\ answers' = Tail(answers)
        /\ UNCHANGED <<inbox, events, watchdog, alarms, timers>>
     \/ /\ client.at = "ack"
        /\ Die("Panicked")
        /\ UNCHANGED <<xid, request>>
  /\ UNCHANGED <<manager, stopping, binding, heardVars>>

\* The last of the attempts has timed out.
TimeOut ==
  /\ client.at \in {"offer", "ack", "renew"} /\ answers = <<>>
  /\ IF client.at = "renew" THEN KeepLease ELSE RequestFails
  /\ UNCHANGED <<manager, stopping, xid, request, binding, heardVars>>

-------------------------------------------------------------------------------
(***************************************************************************)
(* The client's mailbox.                                                   *)
(***************************************************************************)
Receive(event) ==
  /\ client.at = "idle"
  /\ events # <<>> /\ Head(events) = event

\* renew() and rebind() differ in the address they send to.  They unwrap the
\* lease: see RenewalHasLease.
HandleRenewal ==
  /\ Receive("Renewal") \/ Receive("Rebinding")
  /\ client.lease # None
  /\ client' = [client EXCEPT !.at = "renew"]
  /\ Send("Renew", client.lease.ip)
  /\ events' = Tail(events)
  /\ UNCHANGED <<manager, inbox, stopping, watchdog, alarms, timers, answers, binding,
                 heardVars>>

HandleExpired ==
  /\ Receive("LeaseExpired")
  /\ Discover
  /\ events' = Tail(events)
  /\ UNCHANGED <<manager, inbox, stopping, watchdog, alarms, timers, answers, binding,
                 heardVars>>

HandleWatchdogDied ==
  /\ Receive("WatchdogDied")
  /\ Die("Killed")
  /\ UNCHANGED <<manager, stopping, xid, request, binding, heardVars>>

\* release(): the server forgets the lease, unless the packet is lost.
HandleManagerStopped ==
  /\ Receive("ManagerStopped")
  /\ Die("Normal")
  /\ binding' \in IF client.lease = None THEN {binding} ELSE {binding, None}
  /\ request' = None
  /\ UNCHANGED <<manager, stopping, xid, heardVars>>

-------------------------------------------------------------------------------
(***************************************************************************)
(* The watchdog.                                                           *)
(***************************************************************************)

\* Mutants of TimerFires: the stream emits the next stage,
TimerFiresEarly ==
  /\ watchdog # "dead" /\ timers.next < timers.passed
  /\ Len(alarms) < MaxAlarms
  /\ alarms' = Append(alarms, timers.passed)
  /\ timers' = [timers EXCEPT !.next = timers.passed]
  /\ UNCHANGED <<manager, inbox, stopping, client, events, watchdog, netVars, heardVars>>

\* or the stage it was waiting for although later ones have passed.
TimerFiresLate ==
  /\ watchdog # "dead" /\ timers.next < timers.passed
  /\ Len(alarms) < MaxAlarms
  /\ alarms' = Append(alarms, timers.next)
  /\ timers' = [timers EXCEPT !.next = timers.passed]
  /\ UNCHANGED <<manager, inbox, stopping, client, events, watchdog, netVars, heardVars>>

\* The stream skips the deadlines it overslept, and waits for the next one.
TimerFires ==
  /\ watchdog # "dead" /\ timers.next < timers.passed
  /\ Len(alarms) < MaxAlarms
  /\ alarms' = Append(alarms, timers.passed - 1)
  /\ timers' = [timers EXCEPT !.next = timers.passed]
  /\ UNCHANGED <<manager, inbox, stopping, client, events, watchdog, netVars, heardVars>>

\* Asking a client that is gone is an error the handler unwraps: it panics.
Ask ==
  /\ watchdog = "idle" /\ alarms # <<>>
  /\ IF client.at # "dead"
     THEN /\ events' = Append(events, EventOf(Head(alarms)))
          /\ watchdog' = "asking" /\ alarms' = Tail(alarms)
          /\ UNCHANGED timers
     ELSE /\ watchdog' = "dead" /\ alarms' = <<>> /\ timers' = NoTimers
          /\ UNCHANGED events
  /\ UNCHANGED <<manager, inbox, stopping, client, netVars, heardVars>>

\* Setting the timers again aborts the old stream, but not what it has emitted.
SetTimers ==
  /\ watchdog = "renewed"
  /\ timers' = NewTimers
  /\ watchdog' = "idle"
  /\ UNCHANGED <<events, alarms>>

WaitForNextTimeout ==
  /\ watchdog = "failed"
  /\ watchdog' = "idle"
  /\ UNCHANGED <<events, alarms, timers>>

\* Mutant of KillItself: the rejected watchdog goes on.
KillItselfNot ==
  /\ watchdog = "rejected"
  /\ watchdog' = "idle"
  /\ UNCHANGED <<events, alarms, timers>>

\* kill() ends the watchdog, and the client is linked to it.
KillItself ==
  /\ watchdog = "rejected"
  /\ watchdog' = "dead" /\ alarms' = <<>> /\ timers' = NoTimers
  /\ events' = Append(events, "WatchdogDied")

Resume ==
  /\ SetTimers \/ WaitForNextTimeout \/ KillItself
  /\ UNCHANGED <<manager, inbox, stopping, client, netVars, heardVars>>

-------------------------------------------------------------------------------
(***************************************************************************)
(* The manager.                                                            *)
(***************************************************************************)
ReceiveLetter(type) ==
  /\ manager = "running"
  /\ inbox # <<>> /\ Head(inbox).type = type
  /\ UNCHANGED <<stopping, watchdog, alarms, timers>>

ForwardReport ==
  /\ ReceiveLetter("Report")
  /\ inbox' = Tail(inbox)
  /\ told' = Head(inbox).new
  /\ report' = [old |-> Head(inbox).old, new |-> Head(inbox).new]
  /\ restarted' = FALSE
  /\ UNCHANGED <<manager, client, events, netVars>>

\* Mutant of HandleClientDied: the manager goes on without a client.
HandleClientDiedContinuing ==
  /\ ReceiveLetter("ClientDied")
  /\ manager' = IF stopping THEN "stopped" ELSE "running"
  /\ inbox' = IF stopping THEN <<>> ELSE Tail(inbox)
  /\ UNCHANGED <<client, events, netVars, heardVars>>

\* on_link_died finds no reference to itself once NetworkDaemon has dropped its own.
HandleClientDied ==
  /\ ReceiveLetter("ClientDied")
  /\ manager' = IF stopping THEN "stopped" ELSE "sleeping"
  /\ inbox' = IF stopping THEN <<>> ELSE Tail(inbox)
  /\ UNCHANGED <<client, events, netVars, heardVars>>

\* Mutant of HandleStop: the client is not linked to its manager.
HandleStopUnlinked ==
  /\ ReceiveLetter("Stop")
  /\ manager' = "stopped" /\ inbox' = <<>>
  /\ UNCHANGED <<client, events, netVars, heardVars>>

HandleStop ==
  /\ ReceiveLetter("Stop")
  /\ manager' = "stopped" /\ inbox' = <<>>
  /\ events' = IF client.at = "dead" THEN events ELSE Append(events, "ManagerStopped")
  /\ UNCHANGED <<client, netVars, heardVars>>

\* After 15 seconds; the socket of a new client may not open.
RestartClient ==
  /\ manager = "sleeping"
  /\ \/ /\ manager' = "running"
        /\ client' = Starting
        /\ Send("Discover", None)
        /\ restarted' = TRUE
        /\ UNCHANGED inbox
     \/ /\ manager' = "stopped" /\ inbox' = <<>>
        /\ UNCHANGED <<client, xid, request, restarted>>
  /\ UNCHANGED <<stopping, events, watchdog, alarms, timers, answers, binding, told, report>>

\* NetworkDaemon stops the manager: DHCP is off, or the interface lost its carrier.
StopManager ==
  /\ manager # "stopped" /\ ~stopping
  /\ stopping' = TRUE
  /\ inbox' = Append(inbox, [type |-> "Stop"])
  /\ UNCHANGED <<manager, client, events, watchdog, alarms, timers, netVars, heardVars>>

-------------------------------------------------------------------------------
(***************************************************************************)
(* Specification.                                                          *)
(***************************************************************************)
ClientStep ==
  \/ SkipAnswer \/ TakeOffer \/ TakeAck \/ CrashOnAck \/ TakeNak \/ TimeOut
  \/ HandleRenewal \/ HandleExpired \/ HandleWatchdogDied \/ HandleManagerStopped

WatchdogStep == Ask \/ Resume
ManagerStep  == ForwardReport \/ HandleClientDied \/ HandleStop \/ RestartClient
Environment  == ServerAnswers \/ BindingLapses \/ TimePasses \/ StopManager

Next == ClientStep \/ WatchdogStep \/ TimerFires \/ ManagerStep \/ Environment

Spec == Init /\ [][Next]_vars

\* The actors and the timer stream are tasks of the runtime; the client's
\* timeouts and the manager's sleep end.  Nothing is assumed of the server.
FairSpec ==
  /\ Spec
  /\ WF_vars(ClientStep) /\ WF_vars(WatchdogStep) /\ WF_vars(TimerFires) /\ WF_vars(ManagerStep)

-------------------------------------------------------------------------------
(***************************************************************************)
(* Properties.                                                             *)
(***************************************************************************)

\* Types of all variables.
TypeOK ==
  /\ manager \in {"running", "sleeping", "stopped"}
  /\ inbox \in Seq(Letter)
  /\ stopping \in BOOLEAN
  /\ client \in Client
  /\ events \in Seq(LeaseEvent \cup {"WatchdogDied", "ManagerStopped"})
  /\ watchdog \in {"dead", "idle", "asking", "renewed", "failed", "rejected"}
  /\ alarms \in Seq(0..2)
  /\ timers \in [passed : 0..3, next : 0..3]
  /\ xid \in {0, 1}
  /\ request \in Packet \cup {None}
  /\ answers \in Seq(Answer)
  /\ binding \in Addr \cup {None}
  /\ told \in Lease \cup {None}
  /\ report \in [old : Lease \cup {None}, new : Lease \cup {None}] \cup {None}
  /\ restarted \in BOOLEAN

\* The client never waits with a lease that nobody will end: a deadline of its
\* timers is still to come, or its expiry is on the way, whatever stages were
\* overslept or failed before (lease.rs, the timer stream and the handler).
LeaseIsWatched ==
  client.at = "idle" /\ client.lease # None =>
    /\ watchdog # "dead"
    /\ \/ timers.next < 3 \/ watchdog = "renewed"
       \/ \E j \in DOMAIN alarms : alarms[j] = 2
       \/ \E j \in DOMAIN events : events[j] = "LeaseExpired"

\* A renewal or rebinding is only asked of a client that has a lease, also when
\* timer events of a lease that was lost are still queued: renew and rebind
\* unwrap it (client.rs:361 and 481).
RenewalHasLease ==
  client.at = "idle" /\ events # <<>> /\ Head(events) \in {"Renewal", "Rebinding"}
    => client.lease # None

\* When its mailbox is empty, the manager has passed on what its client holds: no
\* lease is dropped or replaced without a report (client.rs, on_start and the
\* handler; mod.rs).  While there is no client, or one that has no lease yet, the
\* lease of a client that died is still told of: its loss is not reported.
ToldIsHeld ==
  manager # "stopped" /\ inbox = <<>> /\ client.at # "dead" /\ ~client.starting
    => told = client.lease

\* Between two transactions the client does not hold an address while the server
\* has bound another: no answer that was lost, late or doubled leaves them with
\* different addresses (client.rs, request and renew).
HeldIsBound ==
  client.at = "idle" /\ client.lease # None => binding \in {client.lease.ip, None}

\* The client never takes an answer for one to its request while that request
\* has no answer yet: doubled answers of an earlier transaction wait in the
\* socket and are skipped (client.rs:202, 270, 391 and 511, the xid).
AnswersAreNew == [][TakeOffer \/ TakeAck \/ TakeNak => request = None]_vars

\* What reaches the interface manager is a chain of reports, as it relies on when
\* it deletes the old address (interface/mod.rs, DhcpV4Set), but for the first
\* report of a client that was started again: whatever crashes, only that report
\* leaves out the lease told of before.
Reports == INSTANCE LeaseReports WITH lease <- told, forgotten <- restarted

ReportsChain == Reports!Spec

\* The client is only told that its lease has expired when the last deadline of
\* the timers in force has passed (lease.rs:125, "Lease Expired").
ExpiryIsReal == [][HandleExpired => timers.passed = 3]_vars

\* Timers that have run out lead to new timers or to the end of the watchdog,
\* however long a renewal takes and whatever the server does.
ExpiryIsHandled == timers.passed = 3 ~> timers.passed # 3

\* No client survives its manager: it releases its lease and stops
\* (client.rs, on_link_died).
StoppedClientEnds == manager = "stopped" ~> client.at = "dead"

\* A client that died is started again after the manager's sleep, unless the manager
\* is stopped or cannot open a socket (mod.rs:73, "Restart the DHCP client after 15
\* seconds if it crashes").
CrashedClientRestarts ==
  client.at = "dead" ~> client.at # "dead" \/ stopping \/ manager = "stopped"
===============================================================================
