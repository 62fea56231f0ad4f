------------------------------ MODULE WifiManager -----------------------------
(***************************************************************************)
(* The Wi-Fi supervisor of one interface (wifi/manager.rs), the life of    *)
(* its backend and of the wpa_supplicant process behind it                 *)
(* (wifi/wpa_supplicant/), and the way of a connection state from the      *)
(* process to the interface manager (daemon/service.rs).                   *)
(*                                                                         *)
(* The backend dies with its process, with its event listener, and when a  *)
(* command fails whose request nobody waits for (an error answering a tell *)
(* stops the actor).  The supervisor then starts a process and a backend   *)
(* again, at once and up to three times.  A process is recognised by its   *)
(* control socket: while one exists none is started, and nothing ever      *)
(* stops a process, neither the death of its backend nor a timeout.        *)
(*                                                                         *)
(* A request to the process has no timeout, and the handler that awaits    *)
(* its answer keeps the backend from its mailbox, the exit of the process  *)
(* included.  Requests of clients wait behind it in the same mailbox and   *)
(* are left out.                                                           *)
(*                                                                         *)
(* A report of the process is an event without a state; the backend asks   *)
(* for the state when it handles the event.  States travel to the          *)
(* supervisor, to the stream of NetworkDaemon and to the interface manager *)
(* in order.                                                               *)
(*                                                                         *)
(* The processes and their sockets are external.  The code that finds a    *)
(* socket and connects is one step, as are an answer and its arrival.      *)
(***************************************************************************)
EXTENDS Naturals, Sequences

CONSTANTS
  None,
  Pid,         \* processes that may be started (bound)
  WpaState,    \* states of wpa_supplicant
  MaxFaults,   \* bound: failures
  MaxEvents    \* bound: reports on their way at each stage

\* Retries, in on_start and in on_link_died.
MaxRetries == 3

ASSUME ManagerAssumption ==
  /\ Pid \subseteq Nat /\ None \notin Nat /\ None \notin WpaState /\ Pid # {}
  /\ WpaState \subseteq {"Completed", "Disconnected", "Scanning", "Associating", "Inactive",
                         "InterfaceDisabled", "Unknown"}
  /\ "Disconnected" \in WpaState
  /\ MaxFaults \in Nat \ {0} /\ MaxEvents \in Nat \ {0}

VARIABLES
  at,          \* the supervisor: in on_start, running, in on_link_died, or stopped
  retry_cnt,
  child,       \* the process it waits for, while it starts a backend
  backend,     \* the backend: its process, whether it is alive, what it awaits
  proc,        \* every process
  wpa,         \* the state of the process that serves
  socket,      \* the control socket: the process that made it, even if it is dead
  events,      \* reports from the process to the backend
  statuses,    \* StatusUpdated on its way to the supervisor
  stream,      \* and to NetworkDaemon
  external,    \* what the interface manager was told last
  faults,      \* failures so far
  cutShort,    \* history: processes that ended while the supervisor waited for them
  missed,      \* a failure that swallowed a state
  asked        \* NetworkDaemon has stopped the supervisor

superVars == <<at, retry_cnt, child>>
procVars  == <<proc, socket, wpa>>
pathVars  == <<events, statuses, stream, external>>
histVars  == <<faults, cutShort, missed, asked>>
vars == <<superVars, procVars, pathVars, backend, histVars>>

-------------------------------------------------------------------------------
Backend ==
  [status : {"none", "alive", "dead"},
   pid    : Pid \cup {None},  \* the process it has started, whose exit it watches
   conn   : Pid \cup {None},  \* the process it is connected to, which need not be the same
   status_init : BOOLEAN,
   awaits : {"nothing", "status", "event", "scan"}]  \* the request under way

NoBackend ==
  [status |-> "none", pid |-> None, conn |-> None, status_init |-> FALSE, awaits |-> "nothing"]

\* Connected to the process that has the socket.
NewBackend ==
  [status |-> "alive", pid |-> child, conn |-> socket, status_init |-> FALSE, awaits |-> "nothing"]

\* What NetworkDaemon makes of a state.
ConnectionState(s) ==
  CASE s = "InterfaceDisabled" -> "Disabled"
    [] s = "Unknown"           -> "NotApplicable"
    [] s = "Completed"         -> "Connected"
    [] s \in {"Disconnected", "Inactive", "Scanning"} -> "NoCarrier"
    [] OTHER                   -> "Up"

ConnectionStates == {ConnectionState(s) : s \in WpaState}

Fault == faults < MaxFaults /\ faults' = faults + 1

\* A process can be connected to, and the backend gets answers from its own.
Serves  == socket # None /\ proc[socket] \in {"serving", "hung"}
Answers == backend.status = "alive" /\ proc[backend.conn] = "serving"

\* Processes are numbered as they are started.
IsNext(p) == proc[p] = "unused" /\ \A q \in Pid : proc[q] = "unused" => p <= q

\* The bound on processes: one may be lost if the supervisor can start another, or has
\* no retry left for it.
MayLose(p) ==
  \/ p = child /\ retry_cnt + 1 = MaxRetries
  \/ \E q \in Pid : proc[q] = "unused"

-------------------------------------------------------------------------------
(***************************************************************************)
(* Starting a backend (start_backend, WpaSupplicant::new and on_start,     *)
(* WpaSupplicantInstanceHandle::new).                                      *)
(***************************************************************************)
Launching == at \in {"starting", "restarting"}

\* Mutant of StartFails: the retries have no limit.
StartFailsAgain ==
  /\ retry_cnt' = retry_cnt + 1
  /\ child' = None /\ UNCHANGED at

\* After the third failure the supervisor returns the error and stops.
StartFails ==
  /\ retry_cnt' = retry_cnt + 1
  /\ at' = IF retry_cnt + 1 >= MaxRetries THEN "stopped" ELSE at
  /\ child' = None

\* A socket that exists is taken for a process that runs.
Launch ==
  /\ Launching /\ child = None
  /\ \/ /\ socket # None
        /\ StartFails /\ UNCHANGED <<proc, faults>>
     \/ /\ socket = None /\ Fault                    \* spawn fails
        /\ StartFails /\ UNCHANGED proc
     \/ /\ socket = None
        /\ \E p \in Pid :
             /\ IsNext(p)
             /\ proc' = [proc EXCEPT ![p] = "starting"] /\ child' = p
        /\ UNCHANGED <<at, retry_cnt, faults>>
  /\ UNCHANGED <<backend, socket, wpa, pathVars, cutShort, missed, asked>>

\* The socket has appeared.  The backend connects to it and watches the process it has
\* started; what it sends the supervisor first is the state it finds (status_init).
SocketFound ==
  /\ Launching /\ child # None /\ socket # None
  /\ \/ /\ Serves
        /\ backend' = NewBackend
        /\ at' = "up" /\ retry_cnt' = 0 /\ child' = None /\ events' = <<>> /\ cutShort' = 0
        /\ UNCHANGED faults
     \/ /\ IF Serves THEN Fault ELSE UNCHANGED faults \* connecting fails
        /\ StartFails /\ UNCHANGED <<backend, events, cutShort>>
  /\ UNCHANGED <<procVars, statuses, stream, external, missed, asked>>

\* Five seconds have passed, whatever has become of the process.  One that is slow is
\* left to itself.
StartTimesOut ==
  /\ Launching /\ child # None /\ socket = None
  /\ IF proc[child] = "ended" THEN UNCHANGED faults ELSE Fault /\ MayLose(child)
  /\ StartFails
  /\ UNCHANGED <<backend, procVars, pathVars, cutShort, missed, asked>>

-------------------------------------------------------------------------------
(***************************************************************************)
(* The processes.                                                          *)
(***************************************************************************)
ProcessServes(p) ==
  /\ proc[p] = "starting"
  /\ IF socket = None
     THEN /\ proc' = [proc EXCEPT ![p] = "serving"] /\ socket' = p
          /\ wpa' = "Disconnected"
     ELSE /\ proc' = [proc EXCEPT ![p] = "ended"] /\ UNCHANGED <<socket, wpa>>
  /\ UNCHANGED <<superVars, pathVars, backend, histVars>>

\* It exits and takes its socket with it, or is killed and leaves it.
ProcessEnds(p) ==
  /\ proc[p] \in {"starting", "serving", "hung"} /\ MayLose(p)
  /\ proc' = [proc EXCEPT ![p] = "ended"]
  /\ \/ UNCHANGED <<socket, faults>> /\ socket # p
     \/ socket = p /\ socket' = None /\ UNCHANGED faults
     \/ socket = p /\ UNCHANGED socket /\ Fault
  /\ cutShort' = IF p = child THEN cutShort + 1 ELSE cutShort
  /\ UNCHANGED <<superVars, wpa, pathVars, backend, missed, asked>>

\* It runs on but answers nobody any more.
ProcessHangs(p) ==
  /\ proc[p] = "serving" /\ Fault
  /\ proc' = [proc EXCEPT ![p] = "hung"]
  /\ UNCHANGED <<superVars, socket, wpa, pathVars, backend, cutShort, missed, asked>>

\* Every change of state is reported, to a backend that has attached.
StateChanges(s) ==
  /\ Serves /\ proc[socket] = "serving" /\ s # wpa /\ wpa' = s
  /\ Len(events) < MaxEvents
  /\ events' = IF Answers THEN Append(events, "CTRL-EVENT") ELSE events
  /\ UNCHANGED <<superVars, proc, socket, statuses, stream, external, backend, histVars>>

-------------------------------------------------------------------------------
(***************************************************************************)
(* The backend.                                                            *)
(***************************************************************************)

\* It takes the next message from its mailbox.
Idle == backend.status = "alive" /\ backend.awaits = "nothing"

BackendDies == backend' = [backend EXCEPT !.status = "dead", !.awaits = "nothing"] /\ events' = <<>>

\* The exit of the process it has started kills it.
ExitSeen ==
  /\ Idle /\ proc[backend.pid] = "ended"
  /\ BackendDies
  /\ UNCHANGED <<superVars, procVars, statuses, stream, external, histVars>>

\* The event listener fails.
ListenerFails ==
  /\ Idle /\ Fault
  /\ BackendDies
  /\ UNCHANGED <<superVars, procVars, statuses, stream, external, cutShort, missed, asked>>

\* The end of a request without an answer, or with another one than OK.  The first request
\* for the state and a scan are tells, whose errors kill the backend.
RequestFails(request) ==
  IF request = "event"
  THEN /\ backend' = [backend EXCEPT !.awaits = "nothing"]
       /\ missed' = TRUE
  ELSE backend' = [backend EXCEPT !.status = "dead", !.awaits = "nothing"] /\ UNCHANGED missed

\* A request goes out at once, and fails at once when the process is gone.
Request(request) ==
  /\ Idle
  /\ IF proc[backend.conn] = "ended"
     THEN RequestFails(request)
     ELSE backend' = [backend EXCEPT !.awaits = request] /\ UNCHANGED missed
  /\ UNCHANGED <<superVars, procVars, statuses, stream, external, faults, cutShort, asked>>

\* The events of a backend that dies are gone with it.
InitialStatus ==
  /\ ~backend.status_init /\ Request("status")
  /\ events' = IF backend'.status = "dead" THEN <<>> ELSE events

HandleWpaEvent ==
  /\ backend.status_init /\ events # <<>> /\ Request("event")
  /\ events' = Tail(events)

\* Every 15 seconds.
Scan ==
  /\ backend.status_init /\ Request("scan")
  /\ events' = IF backend'.status = "dead" THEN <<>> ELSE events

\* Mutant of Answered: the first state is not reported.
AnsweredSilently ==
  /\ backend.awaits # "nothing" /\ Answers
  /\ backend' = [backend EXCEPT !.awaits = "nothing", !.status_init = TRUE]
  /\ IF backend.awaits # "event" THEN UNCHANGED statuses
     ELSE Len(statuses) < MaxEvents /\ statuses' = Append(statuses, wpa)
  /\ UNCHANGED <<superVars, procVars, events, stream, external, histVars>>

\* The process answers.  A state goes to the supervisor (StatusUpdated).
Answered ==
  /\ backend.awaits # "nothing" /\ Answers
  /\ backend' = [backend EXCEPT !.awaits = "nothing", !.status_init = TRUE]
  /\ IF backend.awaits = "scan" THEN UNCHANGED statuses
     ELSE Len(statuses) < MaxEvents /\ statuses' = Append(statuses, wpa)
  /\ UNCHANGED <<superVars, procVars, events, stream, external, histVars>>

\* The process refuses; or it is gone, and the read may fail, or last for ever.
Unanswered ==
  /\ backend.awaits # "nothing"
  /\ \/ Answers /\ Fault
     \/ proc[backend.conn] = "ended" /\ UNCHANGED faults
  /\ RequestFails(backend.awaits)
  /\ events' = IF backend'.status = "dead" THEN <<>> ELSE events
  /\ UNCHANGED <<superVars, procVars, statuses, stream, external, cutShort, asked>>

-------------------------------------------------------------------------------
(***************************************************************************)
(* The supervisor while it runs, and NetworkDaemon.                        *)
(***************************************************************************)

\* Mutant of LinkDied: the death of the backend is ignored.
LinkDiedUnhandled ==
  /\ at = "up" /\ backend.status = "dead" /\ statuses = <<>>
  /\ backend' = NoBackend
  /\ UNCHANGED <<superVars, procVars, pathVars, histVars>>

\* Mutant of LinkDied: the supervisor stops with its backend.
LinkDiedStopping ==
  /\ at = "up" /\ backend.status = "dead" /\ statuses = <<>>
  /\ at' = "stopped" /\ backend' = NoBackend
  /\ UNCHANGED <<retry_cnt, child, procVars, pathVars, histVars>>

\* on_link_died: the backend is forgotten and started again.  The signal comes after
\* what the backend has sent.
LinkDied ==
  /\ at = "up" /\ backend.status = "dead" /\ statuses = <<>>
  /\ at' = "restarting" /\ backend' = NoBackend
  /\ UNCHANGED <<retry_cnt, child, procVars, pathVars, histVars>>

\* Message<WiFiManagerEvent>: broadcast, to the stream of NetworkDaemon among others.
Broadcast ==
  /\ at = "up" /\ statuses # <<>> /\ Len(stream) < MaxEvents
  /\ statuses' = Tail(statuses) /\ stream' = Append(stream, Head(statuses))
  /\ UNCHANGED <<superVars, procVars, events, external, backend, histVars>>

\* UpdateExternalInterfaceState.
DaemonHandles ==
  /\ stream # <<>>
  /\ stream' = Tail(stream)
  /\ external' = ConnectionState(Head(stream))
  /\ UNCHANGED <<superVars, procVars, events, statuses, backend, histVars>>

\* NetworkDaemon stops the supervisor (InterfaceRemoved), which stops its backend.
Stop ==
  /\ at = "up" /\ at' = "stopped" /\ asked' = TRUE
  /\ backend' = NoBackend /\ events' = <<>> /\ statuses' = <<>>
  /\ UNCHANGED <<retry_cnt, child, procVars, stream, external, faults, cutShort, missed>>

-------------------------------------------------------------------------------
\* A socket may be there from before, of a process that runs or of one that was killed:
\* the first of the failures.
Init ==
  /\ at = "starting" /\ retry_cnt = 0 /\ child = None
  /\ backend = NoBackend
  /\ \/ proc = [p \in Pid |-> "unused"] /\ socket = None /\ faults = 0
     \/ /\ socket \in Pid /\ (\A p \in Pid : socket <= p) /\ faults = 1
        /\ \E status \in {"serving", "ended"} :
             proc = [p \in Pid |-> IF p = socket THEN status ELSE "unused"]
  /\ wpa = "Disconnected"
  /\ events = <<>> /\ statuses = <<>> /\ stream = <<>> /\ external = None
  /\ cutShort = 0 /\ missed = FALSE /\ asked = FALSE

SupervisorStep == Launch \/ SocketFound \/ StartTimesOut \/ LinkDied \/ Broadcast
BackendStep    == ExitSeen \/ InitialStatus \/ HandleWpaEvent \/ Scan \/ Answered

Next ==
  \/ SupervisorStep \/ BackendStep \/ DaemonHandles
  \/ Unanswered \/ ListenerFails \/ Stop
  \/ \E p \in Pid : ProcessServes(p) \/ ProcessEnds(p) \/ ProcessHangs(p)
  \/ \E s \in WpaState : StateChanges(s)

Spec == Init /\ [][Next]_vars

\* Actors are tasks of the runtime.  A process that serves answers; one that was started
\* opens its socket or ends, or the supervisor stops waiting for it.  Nothing ends a
\* request whose process does not answer (Unanswered).
FairSpec ==
  /\ Spec
  /\ WF_vars(SupervisorStep) /\ WF_vars(BackendStep) /\ WF_vars(DaemonHandles)
  /\ \A p \in Pid : WF_vars(ProcessServes(p))

-------------------------------------------------------------------------------
(***************************************************************************)
(* Properties.                                                             *)
(***************************************************************************)
TypeOK ==
  /\ at \in {"starting", "up", "restarting", "stopped"}
  /\ retry_cnt \in 0..MaxRetries
  /\ child \in Pid \cup {None}
  /\ backend \in Backend
  /\ proc \in [Pid -> {"unused", "starting", "serving", "hung", "ended"}]
  /\ socket \in Pid \cup {None} /\ wpa \in WpaState
  /\ events \in Seq({"CTRL-EVENT"}) /\ statuses \in Seq(WpaState) /\ stream \in Seq(WpaState)
  /\ external \in ConnectionStates \cup {None}
  /\ faults \in 0..MaxFaults /\ cutShort \in Nat /\ missed \in BOOLEAN /\ asked \in BOOLEAN

\* When all reports have been handled the interface has the state of wpa_supplicant,
\* after restarts and for changes during the start of a backend as well: events carry
\* no state, so the last one handled brings the last state.
ExternalIsCurrent ==
  (at = "up" /\ Answers /\ Idle /\ backend.status_init /\ ~missed
     /\ events = <<>> /\ statuses = <<>> /\ stream = <<>>)
    => external = ConnectionState(wpa)

\* A supervisor gives up only after a failure (a killed process or a socket left from
\* before, a slow start, a command or a connection that failed), or when three processes
\* in a row have ended while it waited for them: whatever else the exits of processes
\* interrupt, and however many there are, they do not add up to the limit of restarts
\* (manager.rs, retry_cnt).
GivesUpOnFailure == at = "stopped" /\ ~asked => faults > 0 \/ cutShort >= MaxRetries

\* The backend awaits an answer that nothing promises.
Blocked == backend.status = "alive" /\ backend.awaits # "nothing" /\ ~Answers

\* The death of a process or of a backend does not go unnoticed, not even that of a
\* process the backend did not start itself: both are replaced, or the supervisor ends.
\* It does if the process stops to answer in the middle of a request.
BackendReturns ==
  backend.status # "none" /\ ~Answers ~> Answers \/ at = "stopped" \/ Blocked

\* Every request ends (control/mod.rs:76, "Receive response with timeout").
RequestsEnd == backend.awaits # "nothing" ~> backend.awaits = "nothing"
===============================================================================
