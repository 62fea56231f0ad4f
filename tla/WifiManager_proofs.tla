--------------------------- MODULE WifiManager_proofs -------------------------
(***************************************************************************)
(* Proofs about WifiManager: its types, that a supervisor gives up only    *)
(* after a failure or three processes that ended while it waited for them, *)
(* and that the interface has the state of the process when every report   *)
(* has arrived.                                                            *)
(*                                                                         *)
(* As long as nothing has failed there is at most one process: the one the *)
(* supervisor waits for or the one its backend has started, and the socket *)
(* is there exactly while it serves. For the state of the interface WayInv *)
(* follows a change from the process to the interface manager.             *)
(***************************************************************************)
EXTENDS WifiManager, TLAPS

LEMMA AppendType == ASSUME NEW S, NEW s \in Seq(S), NEW e \in S PROVE Append(s, e) \in Seq(S)
  OBVIOUS

LEMMA TailType ==
  ASSUME NEW S, NEW s \in Seq(S), s # <<>>
  PROVE  Tail(s) \in Seq(S) /\ Head(s) \in S
  OBVIOUS

\* The supervisor counts a failed start at most three times.
RetryInv == at # "stopped" => retry_cnt < MaxRetries

AliveInv ==
  IF backend.status = "alive" THEN backend.pid # None /\ backend.conn # None
                              ELSE backend.awaits = "nothing"

TypeInv == TypeOK /\ RetryInv /\ AliveInv

LEMMA StartFailsType ==
  ASSUME TypeInv, Launching, StartFails
  PROVE  /\ at' \in {"starting", "restarting", "stopped"} /\ retry_cnt' \in 0..MaxRetries
         /\ retry_cnt' = retry_cnt + 1
         /\ (at' # "stopped" => retry_cnt' < MaxRetries)
         /\ child' = None
  BY DEF TypeInv, TypeOK, RetryInv, Launching, StartFails, MaxRetries

LEMMA FaultType ==
  ASSUME faults \in 0..MaxFaults, Fault
  PROVE  faults' \in 0..MaxFaults /\ faults' > 0
  BY ManagerAssumption DEF ManagerAssumption, Fault

LEMMA StateType == \A s \in WpaState : ConnectionState(s) \in ConnectionStates
  BY DEF ConnectionStates

LEMMA LaunchType == ASSUME TypeInv, Launch PROVE TypeInv'
<1>1. UNCHANGED <<backend, socket, wpa, pathVars, cutShort, missed, asked>> /\ Launching
  BY DEF Launch
<1>2. CASE StartFails /\ UNCHANGED proc /\ (UNCHANGED faults \/ Fault)
  BY <1>1, <1>2, StartFailsType, FaultType DEF TypeInv, TypeOK, RetryInv, AliveInv, pathVars
<1>3. ASSUME NEW p \in Pid, proc' = [proc EXCEPT ![p] = "starting"], child' = p, UNCHANGED <<at, retry_cnt, faults>>
      PROVE  TypeInv'
  BY <1>1, <1>3 DEF TypeInv, TypeOK, RetryInv, AliveInv, pathVars
<1> QED
  BY <1>2, <1>3 DEF Launch

LEMMA SocketFoundType == ASSUME TypeInv, SocketFound PROVE TypeInv'
<1>1. UNCHANGED <<procVars, statuses, stream, external, missed, asked>> /\ Launching /\ child \in Pid /\ socket \in Pid
  BY DEF SocketFound, TypeInv, TypeOK
<1>2. CASE /\ backend' = NewBackend
           /\ at' = "up" /\ retry_cnt' = 0 /\ child' = None /\ events' = <<>> /\ cutShort' = 0
           /\ UNCHANGED faults
  <2>1. backend' \in Backend /\ backend'.status = "alive" /\ backend'.pid = child /\ backend'.conn = socket
    BY <1>1, <1>2 DEF NewBackend, Backend
  <2>2. child # None /\ socket # None
    BY DEF SocketFound
  <2> QED
    BY <1>1, <1>2, <2>1, <2>2 DEF TypeInv, TypeOK, RetryInv, AliveInv, procVars, MaxRetries
<1>3. CASE StartFails /\ UNCHANGED <<backend, events, cutShort>> /\ (UNCHANGED faults \/ Fault)
  BY <1>1, <1>3, StartFailsType, FaultType DEF TypeInv, TypeOK, RetryInv, AliveInv, procVars
<1> QED
  BY <1>2, <1>3 DEF SocketFound

LEMMA StartTimesOutType == ASSUME TypeInv, StartTimesOut PROVE TypeInv'
<1>1. UNCHANGED <<backend, procVars, pathVars, cutShort, missed, asked>> /\ Launching /\ StartFails
      /\ (UNCHANGED faults \/ Fault)
  BY DEF StartTimesOut
<1> QED
  BY <1>1, StartFailsType, FaultType DEF TypeInv, TypeOK, RetryInv, AliveInv, procVars, pathVars

\* The processes.
ProcessStep(p) == ProcessServes(p) \/ ProcessEnds(p) \/ ProcessHangs(p)

LEMMA ProcessType ==
  ASSUME TypeInv, NEW p \in Pid, ProcessStep(p)
  PROVE  TypeInv'
<1>1. "Disconnected" \in WpaState
  BY ManagerAssumption DEF ManagerAssumption
<1>2. CASE ProcessServes(p)
  BY <1>1, <1>2 DEF ProcessServes, TypeInv, TypeOK, RetryInv, AliveInv, superVars, pathVars, histVars
<1>3. CASE ProcessEnds(p)
  <2>1. UNCHANGED <<superVars, wpa, pathVars, backend, missed, asked>> /\ proc' = [proc EXCEPT ![p] = "ended"]
        /\ (socket' = None \/ UNCHANGED socket) /\ (UNCHANGED faults \/ Fault)
        /\ cutShort' \in {cutShort, cutShort + 1}
    BY <1>3 DEF ProcessEnds
  <2> QED
    BY <2>1, FaultType DEF TypeInv, TypeOK, RetryInv, AliveInv, superVars, pathVars
<1>4. CASE ProcessHangs(p)
  BY <1>4, FaultType DEF ProcessHangs, TypeInv, TypeOK, RetryInv, AliveInv, superVars, pathVars
<1> QED
  BY <1>2, <1>3, <1>4 DEF ProcessStep

LEMMA StateChangesType ==
  ASSUME TypeInv, NEW s \in WpaState, StateChanges(s)
  PROVE  TypeInv'
<1>1. events' \in Seq({"CTRL-EVENT"})
  BY AppendType DEF StateChanges, TypeInv, TypeOK
<1> QED
  BY <1>1 DEF StateChanges, TypeInv, TypeOK, RetryInv, AliveInv, superVars, histVars

(***************************************************************************)
(* The backend: what a step of it does.  It lives on, or it dies of its    *)
(* process or of a failure.                                                *)
(***************************************************************************)
BackendMoves == BackendStep \/ Unanswered \/ ListenerFails

Lives == backend'.status = "alive" /\ backend'.pid = backend.pid /\ backend'.conn = backend.conn
Dies  == backend'.status = "dead" /\ backend'.awaits = "nothing"
           /\ (Fault \/ proc[backend.pid] = "ended" \/ proc[backend.conn] = "ended")

Effect ==
  /\ backend.status = "alive" /\ backend' \in Backend /\ (Lives \/ Dies)
  /\ events' \in Seq({"CTRL-EVENT"}) /\ statuses' \in Seq(WpaState) /\ missed' \in BOOLEAN
  /\ UNCHANGED <<superVars, procVars, stream, external, cutShort, asked>> /\ (UNCHANGED faults \/ Fault)

\* The end of a request kills the backend unless an event asked for the state.
LEMMA RequestFailsEffect ==
  ASSUME TypeInv, NEW request, RequestFails(request), backend.status = "alive"
  PROVE  /\ backend' \in Backend /\ missed' \in BOOLEAN /\ backend'.awaits = "nothing"
         /\ IF request = "event" THEN Lives /\ missed' /\ backend'.status_init = backend.status_init
            ELSE backend'.status = "dead" /\ UNCHANGED missed
<1>1. backend \in Backend /\ missed \in BOOLEAN
  BY DEF TypeInv, TypeOK
<1>2. CASE request = "event"
  <2>1. backend' = [backend EXCEPT !.awaits = "nothing"] /\ missed'
    BY <1>2, Zenon DEF RequestFails
  <2>2. backend' \in Backend /\ backend'.awaits = "nothing" /\ Lives /\ backend'.status_init = backend.status_init
    BY <1>1, <2>1 DEF Lives, Backend
  <2>3. missed' \in BOOLEAN
    BY <1>2, Zenon DEF RequestFails
  <2>4. QED
    BY <1>2, <2>1, <2>2, <2>3
<1>3. CASE request # "event"
  <2>1. backend' = [backend EXCEPT !.status = "dead", !.awaits = "nothing"] /\ UNCHANGED missed
    BY <1>3 DEF RequestFails
  <2>2. backend' \in Backend /\ backend'.awaits = "nothing" /\ backend'.status = "dead"
    BY <1>1, <2>1 DEF Backend
  <2>3. QED
    BY <1>1, <1>3, <2>1, <2>2
<1>4. QED
  BY <1>2, <1>3

LEMMA RequestEffect ==
  ASSUME TypeInv, NEW request \in {"status", "event", "scan"}, Request(request)
  PROVE  /\ backend.status = "alive" /\ backend' \in Backend /\ (Lives \/ Dies) /\ missed' \in BOOLEAN
         /\ UNCHANGED <<superVars, procVars, statuses, stream, external, faults, cutShort, asked>>
         /\ Lives => \/ backend'.awaits = request /\ backend'.status_init = backend.status_init /\ UNCHANGED missed
                     \/ request = "event" /\ missed'
                     \/ backend'.status = "dead"
<1>1. backend.status = "alive"
  BY DEF Request, Idle
<1>2. CASE proc[backend.conn] = "ended"
  <2>1. RequestFails(request)
    BY <1>2 DEF Request
  <2>2. QED
    BY <1>1, <1>2, <2>1, RequestFailsEffect DEF Request, Dies
<1>3. CASE proc[backend.conn] # "ended"
  <2>1. backend' = [backend EXCEPT !.awaits = request] /\ UNCHANGED missed
    BY <1>3 DEF Request
  <2>2. QED
    BY <1>1, <2>1 DEF Request, Lives, TypeInv, TypeOK, Backend
<1>4. QED
  BY <1>2, <1>3

LEMMA BackendEffect == ASSUME TypeInv, BackendMoves PROVE Effect
<1>1. events \in Seq({"CTRL-EVENT"}) /\ statuses \in Seq(WpaState) /\ <<>> \in Seq({"CTRL-EVENT"})
      /\ missed \in BOOLEAN /\ backend \in Backend /\ wpa \in WpaState
  BY DEF TypeInv, TypeOK
<1>2. CASE ExitSeen \/ ListenerFails
  <2>1. BackendDies /\ backend.status = "alive" /\ (Fault \/ proc[backend.pid] = "ended")
        /\ UNCHANGED <<superVars, procVars, statuses, stream, external, cutShort, missed, asked>>
        /\ (UNCHANGED faults \/ Fault)
    BY <1>2 DEF ExitSeen, ListenerFails, Idle, histVars
  <2>2. backend' \in Backend /\ Dies /\ events' = <<>>
    BY <1>1, <2>1 DEF BackendDies, Dies, Backend
  <2>3. QED
    BY <1>1, <2>1, <2>2 DEF Effect
<1>3. CASE InitialStatus \/ HandleWpaEvent \/ Scan
  <2>1. events' \in Seq({"CTRL-EVENT"})
    BY <1>1, <1>3, TailType DEF InitialStatus, HandleWpaEvent, Scan
  <2>2. PICK request \in {"status", "event", "scan"} : Request(request)
    BY <1>3 DEF InitialStatus, HandleWpaEvent, Scan
  <2>3. QED
    BY <1>1, <2>1, <2>2, RequestEffect DEF Effect
<1>4. CASE Answered
  <2>1. backend.status = "alive"
    BY <1>4 DEF Answered, Answers
  <2>2. backend' \in Backend /\ Lives
    BY <1>1, <1>4, <2>1 DEF Answered, Lives, Backend
  <2>3. statuses' \in Seq(WpaState)
    BY <1>1, <1>4, AppendType DEF Answered
  <2>4. QED
    BY <1>1, <1>4, <2>1, <2>2, <2>3 DEF Answered, Effect, histVars
<1>5. CASE Unanswered
  <2>1. backend.status = "alive" /\ RequestFails(backend.awaits)
    BY <1>5 DEF Unanswered, TypeInv, AliveInv
  <2>2. backend' \in Backend /\ missed' \in BOOLEAN /\ (Lives \/ Dies)
    BY <1>5, <2>1, RequestFailsEffect DEF Unanswered, Dies
  <2>3. events' \in Seq({"CTRL-EVENT"})
    BY <1>1, <1>5 DEF Unanswered
  <2>4. QED
    BY <1>1, <1>5, <2>1, <2>2, <2>3 DEF Unanswered, Effect
<1>6. QED
  BY <1>2, <1>3, <1>4, <1>5 DEF BackendMoves, BackendStep

LEMMA BackendType == ASSUME TypeInv, BackendMoves PROVE TypeInv'
<1>1. Effect
  BY BackendEffect
<1>2. faults' \in 0..MaxFaults
  BY <1>1, FaultType DEF Effect, TypeInv, TypeOK
<1>3. AliveInv'
  BY <1>1 DEF Effect, Lives, Dies, TypeInv, AliveInv
<1>4. QED
  BY <1>1, <1>2, <1>3 DEF Effect, TypeInv, TypeOK, RetryInv, superVars, procVars

LEMMA PathType ==
  ASSUME TypeInv, LinkDied \/ Broadcast \/ DaemonHandles \/ Stop
  PROVE  TypeInv'
<1>1. NoBackend \in Backend /\ NoBackend.status = "none" /\ NoBackend.awaits = "nothing"
  BY DEF NoBackend, Backend
<1>2. CASE LinkDied
  <2>1. retry_cnt' < MaxRetries
    BY <1>2 DEF LinkDied, TypeInv, RetryInv
  <2> QED
    BY <1>1, <1>2, <2>1 DEF LinkDied, TypeInv, TypeOK, RetryInv, AliveInv, histVars, procVars, pathVars
<1>3. CASE Broadcast
  <2>1. statuses' \in Seq(WpaState) /\ stream' \in Seq(WpaState)
    BY <1>3, TailType, AppendType DEF Broadcast, TypeInv, TypeOK
  <2> QED
    BY <1>3, <2>1 DEF Broadcast, TypeInv, TypeOK, RetryInv, AliveInv, histVars, superVars, procVars
<1>4. CASE DaemonHandles
  <2>1. stream' \in Seq(WpaState) /\ external' \in ConnectionStates
    BY <1>4, TailType, StateType DEF DaemonHandles, TypeInv, TypeOK
  <2> QED
    BY <1>4, <2>1 DEF DaemonHandles, TypeInv, TypeOK, RetryInv, AliveInv, histVars, superVars, procVars
<1>5. CASE Stop
  BY <1>1, <1>5 DEF Stop, TypeInv, TypeOK, RetryInv, AliveInv, histVars, procVars
<1> QED
  BY <1>2, <1>3, <1>4, <1>5

LEMMA InitType == ASSUME Init PROVE TypeInv
<1>1. backend \in Backend /\ backend.status = "none" /\ backend.awaits = "nothing"
  BY DEF Init, NoBackend, Backend
<1>2. "Disconnected" \in WpaState /\ faults \in 0..MaxFaults
  BY ManagerAssumption DEF ManagerAssumption, Init
<1>3. events \in Seq({"CTRL-EVENT"}) /\ statuses \in Seq(WpaState) /\ stream \in Seq(WpaState)
  BY DEF Init
<1>4. retry_cnt \in 0..MaxRetries /\ RetryInv
  BY DEF Init, MaxRetries, RetryInv
<1> QED
  BY <1>1, <1>2, <1>3, <1>4 DEF Init, TypeInv, TypeOK, AliveInv

LEMMA NextType == ASSUME TypeInv, [Next]_vars PROVE TypeInv'
<1>1. CASE UNCHANGED vars
  BY <1>1 DEF TypeInv, TypeOK, RetryInv, AliveInv, vars, superVars, procVars, pathVars, histVars
<1>2. CASE SupervisorStep
  BY <1>2, LaunchType, SocketFoundType, StartTimesOutType, PathType DEF SupervisorStep
<1>3. CASE BackendMoves
  BY <1>3, BackendType
<1>4. CASE DaemonHandles \/ Stop
  BY <1>4, PathType
<1>5. CASE \E p \in Pid : ProcessStep(p)
  BY <1>5, ProcessType
<1>6. CASE \E s \in WpaState : StateChanges(s)
  BY <1>6, StateChangesType
<1> QED
  BY <1>1, <1>2, <1>3, <1>4, <1>5, <1>6 DEF Next, BackendMoves, ProcessStep

LEMMA SpecType == Spec => []TypeInv
  BY InitType, NextType, PTL DEF Spec

\* The variables have their types, and the supervisor never counts more than three
\* failed starts (manager.rs, start_backend and its retries).
THEOREM TypeCorrect == Spec => []TypeOK
<1>1. TypeInv => TypeOK
  BY DEF TypeInv
<1> QED
  BY <1>1, SpecType, PTL

-------------------------------------------------------------------------------
(***************************************************************************)
(* Without failures.  The process the supervisor waits for, or else the    *)
(* one its backend lives on, is the only one; the socket is its.           *)
(***************************************************************************)
Current == IF Launching THEN child ELSE IF backend.status = "alive" THEN backend.pid ELSE None

OthersGone == \A p \in Pid : p # Current => proc[p] \in {"unused", "ended"}

SocketIsCurrent ==
  IF Current \in Pid /\ proc[Current] = "serving" THEN socket = Current ELSE socket = None

Connected == backend.status = "alive" => backend.conn = backend.pid /\ proc[backend.pid] \in {"serving", "ended"}

Phases ==
  /\ Launching => backend.status = "none" /\ (child # None => proc[child] \in {"starting", "serving", "ended"})
  /\ at = "up" => child = None

\* A process that has ended while the supervisor waits for it will cost a retry.
Pending == IF child # None /\ proc[child] = "ended" THEN 1 ELSE 0

Calm ==
  IF at = "stopped" THEN asked \/ cutShort >= MaxRetries
  ELSE cutShort = retry_cnt + Pending /\ Phases /\ OthersGone /\ SocketIsCurrent /\ Connected

CalmInv == faults = 0 => Calm

LEMMA NoneIsNoPid == None \notin Pid
  BY ManagerAssumption DEF ManagerAssumption

LEMMA FaultIsNotCalm == ASSUME TypeInv, Fault PROVE faults' # 0
  BY FaultType DEF TypeInv, TypeOK

LEMMA LaunchCalm == ASSUME TypeInv, CalmInv, Launch, faults' = 0 PROVE Calm'
<1>1. ~Fault
  BY FaultIsNotCalm
<1>2. faults = 0 /\ Calm /\ at # "stopped" /\ child = None /\ Current = None
  BY <1>1 DEF Launch, CalmInv, Calm, Launching, Current
<1>3. socket = None
  BY <1>2, NoneIsNoPid DEF Calm, SocketIsCurrent
<1>4. PICK p \in Pid : /\ proc[p] = "unused" /\ proc' = [proc EXCEPT ![p] = "starting"] /\ child' = p
                       /\ UNCHANGED <<at, retry_cnt, backend, socket, cutShort, asked>>
  BY <1>1, <1>3 DEF Launch, IsNext
<1>5. Launching' /\ Current' = p
  BY <1>4 DEF Launch, Launching, Current
<1>6. proc'[p] = "starting" /\ \A q \in Pid : q # p => proc'[q] \in {"unused", "ended"}
  BY <1>2, <1>4, NoneIsNoPid DEF TypeInv, TypeOK, Calm, OthersGone
<1>7. backend.status = "none"
  BY <1>2 DEF Launch, Calm, Phases
<1>8. Pending = 0 /\ Pending' = 0
  BY <1>2, <1>4, <1>6 DEF Pending
<1> QED
  BY <1>2, <1>3, <1>4, <1>5, <1>6, <1>7, <1>8
  DEF Calm, Phases, OthersGone, SocketIsCurrent, Connected, Launching

LEMMA SocketFoundCalm == ASSUME TypeInv, CalmInv, SocketFound, faults' = 0 PROVE Calm'
<1>1. ~Fault
  BY FaultIsNotCalm
<1>2. faults = 0 /\ Calm /\ at # "stopped" /\ child \in Pid /\ Current = child /\ socket # None
  BY <1>1 DEF SocketFound, CalmInv, Calm, Launching, Current, TypeInv, TypeOK
<1>3. socket = child /\ proc[child] = "serving"
  BY <1>2 DEF Calm, SocketIsCurrent
<1>4. Serves
  BY <1>2, <1>3 DEF Serves
<1>5. /\ backend' = NewBackend
      /\ at' = "up" /\ retry_cnt' = 0 /\ child' = None /\ cutShort' = 0 /\ UNCHANGED <<proc, socket>>
  BY <1>1, <1>4 DEF SocketFound, procVars
<1>6. backend'.status = "alive" /\ backend'.pid = child /\ backend'.conn = child
  BY <1>3, <1>5 DEF NewBackend
<1>7. ~Launching' /\ Current' = child /\ Pending' = 0
  BY <1>5, <1>6 DEF Launching, Current, Pending
<1> QED
  BY <1>2, <1>3, <1>5, <1>6, <1>7 DEF Calm, Phases, OthersGone, SocketIsCurrent, Connected, Launching

\* The process has ended, and was counted when it did.
LEMMA StartTimesOutCalm == ASSUME TypeInv, CalmInv, StartTimesOut, faults' = 0 PROVE Calm'
<1>1. ~Fault
  BY FaultIsNotCalm
<1>2. /\ Launching /\ child # None /\ socket = None /\ proc[child] = "ended" /\ StartFails
      /\ UNCHANGED <<backend, proc, socket, faults, cutShort, asked>>
  BY <1>1 DEF StartTimesOut, procVars
<1>3. faults = 0 /\ Calm /\ at # "stopped" /\ Current = child /\ child \in Pid
  BY <1>2 DEF CalmInv, Launching, Current, TypeInv, TypeOK
<1>4. cutShort = retry_cnt + 1 /\ retry_cnt \in Nat
  BY <1>2, <1>3 DEF Calm, Pending, TypeInv, TypeOK
<1>5. retry_cnt' = retry_cnt + 1 /\ child' = None /\ Pending' = 0
  BY <1>2, StartFailsType DEF Pending
<1>6. CASE at' = "stopped"
  <2>1. retry_cnt + 1 >= MaxRetries
    BY <1>2, <1>3, <1>6 DEF StartFails
  <2>2. QED
    BY <1>2, <1>4, <1>6, <2>1 DEF Calm
<1>7. CASE at' # "stopped"
  <2>1. at' = at
    BY <1>2, <1>7 DEF StartFails
  <2>2. Launching' /\ Current' = None
    BY <1>2, <1>5, <2>1 DEF Launching, Current
  <2>3. \A q \in Pid : proc'[q] \in {"unused", "ended"}
    BY <1>2, <1>3 DEF Calm, OthersGone
  <2>4. cutShort' = retry_cnt' + Pending'
    BY <1>2, <1>4, <1>5
  <2>5. QED
    BY <1>2, <1>3, <1>5, <1>7, <2>1, <2>2, <2>3, <2>4, NoneIsNoPid
    DEF Calm, Phases, OthersGone, SocketIsCurrent, Connected, Launching
<1>8. QED
  BY <1>6, <1>7

LEMMA ProcessCalm ==
  ASSUME TypeInv, CalmInv, NEW p \in Pid, ProcessStep(p), faults' = 0
  PROVE  Calm'
<1>1. ~Fault
  BY FaultIsNotCalm
<1>2. UNCHANGED <<at, retry_cnt, child, backend, asked, faults>> /\ (ProcessServes(p) \/ ProcessEnds(p))
  BY <1>1 DEF ProcessStep, ProcessServes, ProcessEnds, ProcessHangs, superVars, histVars
<1>3. faults = 0 /\ Calm
  BY <1>2 DEF CalmInv
<1>4. CASE at = "stopped"
  <2>1. cutShort' \in {cutShort, cutShort + 1} /\ cutShort \in Nat
    BY <1>2 DEF ProcessServes, ProcessEnds, histVars, TypeInv, TypeOK
  <2>2. QED
    BY <1>2, <1>3, <1>4, <2>1 DEF Calm, MaxRetries
<1>5. CASE at # "stopped"
  <2>1. p = Current
    BY <1>2, <1>3, <1>5 DEF ProcessServes, ProcessEnds, Calm, OthersGone
  <2>2. Current' = Current
    BY <1>2 DEF Current, Launching
  <2>3. CASE ProcessServes(p)
    <3>1. socket = None
      BY <1>3, <1>5, <2>1, <2>3 DEF ProcessServes, Calm, SocketIsCurrent
    <3>2. proc[p] = "starting" /\ proc' = [proc EXCEPT ![p] = "serving"] /\ socket' = p /\ UNCHANGED cutShort
      BY <2>3, <3>1 DEF ProcessServes, histVars
    <3>3. Pending' = Pending
      BY <1>2, <3>2 DEF Pending, TypeInv, TypeOK
    <3> QED
      BY <1>2, <1>3, <1>5, <2>1, <2>2, <3>2, <3>3
      DEF TypeInv, TypeOK, Calm, Phases, Launching, OthersGone, SocketIsCurrent, Connected
  <2>4. CASE ProcessEnds(p)
    <3>1. /\ proc[p] # "ended" /\ proc' = [proc EXCEPT ![p] = "ended"]
          /\ cutShort' = IF p = child THEN cutShort + 1 ELSE cutShort
      BY <2>4 DEF ProcessEnds
    <3>2. socket' = None
      BY <1>1, <1>3, <1>5, <2>1, <2>4 DEF ProcessEnds, Calm, SocketIsCurrent
    <3>3. cutShort' = retry_cnt' + Pending'
      <4>1. cutShort = retry_cnt + Pending /\ cutShort \in Nat /\ retry_cnt \in Nat
        BY <1>3, <1>5 DEF Calm, TypeInv, TypeOK
      <4>2. CASE p = child
        <5>1. Pending = 0 /\ Pending' = 1
          BY <1>2, <3>1, <4>2, NoneIsNoPid DEF Pending, TypeInv, TypeOK
        <5>2. QED
          BY <1>2, <3>1, <4>1, <4>2, <5>1
      <4>3. CASE p # child
        <5>1. Pending' = Pending
          BY <1>2, <3>1, <4>3 DEF Pending, TypeInv, TypeOK
        <5>2. QED
          BY <1>2, <3>1, <4>1, <4>3, <5>1
      <4>4. QED
        BY <4>2, <4>3
    <3>4. QED
      BY <1>2, <1>3, <1>5, <2>1, <2>2, <3>1, <3>2, <3>3
      DEF TypeInv, TypeOK, Calm, Phases, Launching, OthersGone, SocketIsCurrent, Connected
  <2> QED
    BY <1>2, <2>3, <2>4
<1> QED
  BY <1>4, <1>5

\* A backend that dies without a failure has lost its process, and with it the socket;
\* nothing else of the supervisor and the processes changes.
LEMMA BackendCalm ==
  ASSUME TypeInv, CalmInv, BackendMoves, faults' = 0
  PROVE  Calm'
<1>1. ~Fault
  BY FaultIsNotCalm
<1>2. Effect
  BY BackendEffect
<1>3. UNCHANGED <<superVars, proc, socket, cutShort, asked, faults>> /\ backend.status = "alive"
  BY <1>1, <1>2 DEF Effect, procVars
<1>4. faults = 0 /\ Calm /\ Pending' = Pending
  BY <1>3 DEF CalmInv, Pending, superVars
<1>5. CASE at = "stopped"
  BY <1>3, <1>4, <1>5 DEF Calm, superVars
<1>6. CASE at # "stopped" /\ Lives
  <2>1. Current' = Current
    BY <1>3, <1>6 DEF Current, Launching, superVars, Lives
  <2>2. QED
    BY <1>3, <1>4, <1>6, <2>1
    DEF superVars, Lives, Calm, Phases, Launching, OthersGone, SocketIsCurrent, Connected
<1>7. CASE at # "stopped" /\ Dies
  <2>1. at = "up" /\ child = None /\ backend.conn = backend.pid /\ backend.pid \in Pid
    BY <1>3, <1>4, <1>7 DEF Calm, Phases, Connected, Launching, TypeInv, TypeOK, AliveInv, Backend
  <2>2. proc[backend.pid] = "ended" /\ Current = backend.pid
    BY <1>1, <1>3, <1>7, <2>1 DEF Dies, Current, Launching
  <2>3. socket = None /\ \A q \in Pid : proc[q] \in {"unused", "ended"}
    BY <1>4, <1>7, <2>1, <2>2 DEF Calm, SocketIsCurrent, OthersGone
  <2>4. Current' = None /\ backend'.status = "dead"
    BY <1>3, <1>7, <2>1 DEF Dies, Current, Launching, superVars
  <2>5. QED
    BY <1>3, <1>4, <1>7, <2>1, <2>3, <2>4, NoneIsNoPid
    DEF superVars, Calm, Phases, Launching, OthersGone, SocketIsCurrent, Connected
<1>8. QED
  BY <1>2, <1>5, <1>6, <1>7 DEF Effect

\* What leaves the supervisor, the processes and the backend as they are.
LEMMA SameCalm ==
  ASSUME TypeInv, Calm, UNCHANGED <<superVars, proc, socket, backend, cutShort, asked>>
  PROVE  Calm'
<1>1. Current' = Current /\ Pending' = Pending
  BY DEF Current, Pending, Launching, superVars
<1> QED
  BY <1>1 DEF superVars, Calm, Phases, Launching, OthersGone, SocketIsCurrent, Connected

LEMMA PathCalm ==
  ASSUME TypeInv, CalmInv, LinkDied \/ Broadcast \/ DaemonHandles \/ Stop, faults' = 0
  PROVE  Calm'
<1>1. faults = 0 /\ Calm
  BY DEF LinkDied, Broadcast, DaemonHandles, Stop, CalmInv, histVars
<1>2. CASE LinkDied
  <2>1. Current = None /\ backend'.status = "none"
    BY <1>2 DEF LinkDied, Current, Launching, NoBackend
  <2>2. /\ child = None /\ socket = None /\ \A q \in Pid : proc[q] \in {"unused", "ended"}
        /\ cutShort = retry_cnt + Pending
    BY <1>1, <1>2, <2>1, NoneIsNoPid DEF LinkDied, Calm, Phases, OthersGone, SocketIsCurrent
  <2>3. Current' = None /\ Pending' = Pending
    BY <1>2, <2>2 DEF LinkDied, Current, Launching, Pending
  <2> QED
    BY <1>2, <2>1, <2>2, <2>3, NoneIsNoPid
    DEF LinkDied, procVars, histVars, Calm, Phases, Launching, OthersGone, SocketIsCurrent, Connected
<1>3. CASE Broadcast \/ DaemonHandles
  BY <1>1, <1>3, SameCalm DEF Broadcast, DaemonHandles, procVars, histVars
<1>4. CASE Stop
  BY <1>4 DEF Stop, Calm
<1> QED
  BY <1>2, <1>3, <1>4

LEMMA NextCalm == ASSUME TypeInv, CalmInv, [Next]_vars PROVE CalmInv'
<1> SUFFICES ASSUME faults' = 0 PROVE Calm'
  BY DEF CalmInv
<1>1. CASE UNCHANGED vars
  BY <1>1, SameCalm DEF vars, procVars, histVars, CalmInv
<1>2. CASE SupervisorStep
  BY <1>2, LaunchCalm, SocketFoundCalm, StartTimesOutCalm, PathCalm DEF SupervisorStep
<1>3. CASE BackendMoves
  BY <1>3, BackendCalm
<1>4. CASE DaemonHandles \/ Stop
  BY <1>4, PathCalm
<1>5. CASE \E p \in Pid : ProcessStep(p)
  BY <1>5, ProcessCalm
<1>6. CASE \E s \in WpaState : StateChanges(s)
  BY <1>6, SameCalm DEF StateChanges, histVars, CalmInv
<1> QED
  BY <1>1, <1>2, <1>3, <1>4, <1>5, <1>6 DEF Next, BackendMoves, ProcessStep

LEMMA InitCalm == ASSUME Init PROVE CalmInv
<1> SUFFICES ASSUME faults = 0 PROVE Calm
  BY DEF CalmInv
<1>1. Launching /\ Current = None /\ backend.status = "none" /\ Pending = 0
  BY DEF Init, Launching, Current, NoBackend, Pending
<1>2. proc = [p \in Pid |-> "unused"] /\ socket = None
  BY DEF Init
<1> QED
  BY <1>1, <1>2, NoneIsNoPid
  DEF Init, Calm, Phases, Launching, OthersGone, SocketIsCurrent, Connected

\* A supervisor that was not told to stop gives up only after a failure, or when three
\* processes in a row have ended while it waited for them: the exits of processes that a
\* backend watches, at whatever moment and however many, never cost an interface its
\* supervisor (manager.rs, on_link_died and start_backend).
THEOREM GivesUpOnlyOnFailure == Spec => []GivesUpOnFailure
<1>1. Spec => []CalmInv
  BY InitCalm, NextCalm, SpecType, PTL DEF Spec
<1>2. TypeInv /\ CalmInv => GivesUpOnFailure
  BY ManagerAssumption DEF ManagerAssumption, TypeInv, TypeOK, CalmInv, Calm, GivesUpOnFailure
<1> QED
  BY <1>1, <1>2, SpecType, PTL

-------------------------------------------------------------------------------
(***************************************************************************)
(* The way of a state.  A process that runs owns the socket, and a backend *)
(* is connected to one that runs or has ended, so no new process takes the *)
(* place of the one that answers; and the last of the states on their way  *)
(* is its state, unless a report of a change is still to come, the backend *)
(* is asking for it, or a failure has swallowed it.                        *)
(***************************************************************************)
ServingInv ==
  /\ \A p \in Pid : proc[p] \in {"serving", "hung"} => socket = p
  /\ backend.status = "alive" => proc[backend.conn] \in {"serving", "hung", "ended"}

\* The last element of a sequence.
LEMMA LastOfTail ==
  ASSUME NEW S, NEW s \in Seq(S), s # <<>>
  PROVE  s[Len(s)] = IF Tail(s) = <<>> THEN Head(s) ELSE Tail(s)[Len(Tail(s))]
<1> DEFINE t == Tail(s)
<1>1. Len(s) \in Nat \ {0} /\ Len(t) = Len(s) - 1 /\ Head(s) = s[1]
  OBVIOUS
<1>2. CASE Tail(s) # <<>>
  BY <1>2
<1> HIDE DEF t
<1>3. CASE t = <<>>
  <2>1. Len(<<>>) = 0
    OBVIOUS
  <2>2. Len(t) = 0
    BY <1>3, <2>1, Zenon
  <2>3. Len(s) = 1
    BY <1>1, <2>2
  <2>4. s[Len(s)] = Head(s)
    BY <1>1, <2>3, Zenon
  <2>5. QED
    BY <1>3, <2>4, Zenon DEF t
<1>4. QED
  BY <1>2, <1>3 DEF t

LEMMA LastOfAppend ==
  ASSUME NEW S, NEW s \in Seq(S), NEW e \in S
  PROVE  Append(s, e) # <<>> /\ Append(s, e)[Len(Append(s, e))] = e
  OBVIOUS

\* What the interface manager will be told last.
Latest(told, streamed, known) ==
  IF told # <<>> THEN ConnectionState(told[Len(told)])
  ELSE IF streamed # <<>> THEN ConnectionState(streamed[Len(streamed)])
  ELSE known

CurrentInv ==
  at = "up" /\ Answers /\ backend.status_init /\ backend.awaits \in {"nothing", "scan"} /\ ~missed /\ events = <<>>
    => Latest(statuses, stream, external) = ConnectionState(wpa)

\* Only the first request is one before the state is known.
AwaitInv == backend.status = "alive" /\ backend.awaits \in {"event", "scan"} => backend.status_init

\* A state that is told, passed on or handled.
LEMMA LatestTold ==
  ASSUME NEW told \in Seq(WpaState), NEW s \in WpaState, NEW streamed, NEW known
  PROVE  Latest(Append(told, s), streamed, known) = ConnectionState(s)
  BY LastOfAppend DEF Latest

LEMMA LatestPassedOn ==
  ASSUME NEW told \in Seq(WpaState), NEW streamed \in Seq(WpaState), NEW known, told # <<>>
  PROVE  Latest(Tail(told), Append(streamed, Head(told)), known) = Latest(told, streamed, known)
<1>1. Head(told) \in WpaState
  BY TailType
<1>2. QED
  BY <1>1, LastOfTail, LastOfAppend DEF Latest

LEMMA LatestHandled ==
  ASSUME NEW told, NEW streamed \in Seq(WpaState), NEW known, streamed # <<>>
  PROVE  Latest(told, Tail(streamed), ConnectionState(Head(streamed))) = Latest(told, streamed, known)
  BY LastOfTail DEF Latest

WayInv == ServingInv /\ CurrentInv /\ AwaitInv

\* A start that goes on or fails, or a backend that is new.
LEMMA StartWay ==
  ASSUME TypeInv, WayInv, Launch \/ SocketFound \/ StartTimesOut
  PROVE  WayInv'
<1>1. CASE Launch \/ StartTimesOut
  <2>1. at' # "up"
    BY <1>1 DEF Launch, StartTimesOut, StartFails, Launching
  <2>2. UNCHANGED <<backend, socket>>
    BY <1>1 DEF Launch, StartTimesOut, procVars
  <2>3. CASE UNCHANGED proc
    BY <2>1, <2>2, <2>3 DEF WayInv, ServingInv, CurrentInv, AwaitInv
  <2>4. ASSUME NEW p \in Pid, proc[p] = "unused", proc' = [proc EXCEPT ![p] = "starting"]
        PROVE  WayInv'
    BY <2>1, <2>2, <2>4 DEF WayInv, ServingInv, CurrentInv, AwaitInv, TypeInv, TypeOK, Backend
  <2>5. QED
    BY <1>1, <2>3, <2>4 DEF Launch, StartTimesOut, IsNext, procVars
<1>2. CASE SocketFound
  <2>1. UNCHANGED <<proc, socket>> /\ Launching
    BY <1>2 DEF SocketFound, procVars
  <2>2. CASE Serves /\ backend' = NewBackend
    <3>1. ~backend'.status_init /\ proc'[backend'.conn] \in {"serving", "hung"} /\ backend'.awaits = "nothing"
      BY <2>1, <2>2 DEF Serves, NewBackend
    <3>2. QED
      BY <2>1, <3>1 DEF WayInv, ServingInv, CurrentInv, AwaitInv
  <2>3. CASE StartFails /\ UNCHANGED backend
    <3>1. at' # "up"
      BY <2>1, <2>3 DEF StartFails, Launching
    <3>2. QED
      BY <2>1, <2>3, <3>1 DEF WayInv, ServingInv, CurrentInv, AwaitInv
  <2>4. QED
    BY <1>2, <2>2, <2>3 DEF SocketFound
<1>3. QED
  BY <1>1, <1>2

\* A process that begins to serve is not the one that answers, for that one has the socket.
LEMMA ProcessWay ==
  ASSUME TypeInv, WayInv, NEW p \in Pid, ProcessStep(p)
  PROVE  WayInv'
<1>1. UNCHANGED <<at, backend, missed, pathVars>>
  BY DEF ProcessStep, ProcessServes, ProcessEnds, ProcessHangs, superVars, histVars
<1>2. proc \in [Pid -> {"unused", "starting", "serving", "hung", "ended"}]
  BY DEF TypeInv, TypeOK
<1>3. backend.status = "alive" => backend.conn \in Pid
  BY DEF TypeInv, TypeOK, AliveInv, Backend
<1>4. AwaitInv'
  BY <1>1 DEF WayInv, AwaitInv
<1>5. CASE ProcessServes(p)
  <2>1. proc[p] = "starting"
    BY <1>5 DEF ProcessServes
  <2>2. CASE socket = None
    <3>1. proc' = [proc EXCEPT ![p] = "serving"] /\ socket' = p
      BY <1>5, <2>2 DEF ProcessServes
    <3>2. \A q \in Pid : proc[q] \notin {"serving", "hung"}
      BY <2>2, NoneIsNoPid DEF WayInv, ServingInv
    <3>3. ServingInv'
      BY <1>1, <1>2, <1>3, <2>1, <3>1, <3>2 DEF WayInv, ServingInv
    <3>4. ~Answers'
      BY <1>1, <1>2, <1>3, <2>1, <3>1, <3>2 DEF WayInv, ServingInv, Answers
    <3>5. QED
      BY <1>4, <3>3, <3>4 DEF WayInv, CurrentInv
  <2>3. CASE socket # None
    <3>1. proc' = [proc EXCEPT ![p] = "ended"] /\ UNCHANGED <<socket, wpa>>
      BY <1>5, <2>3 DEF ProcessServes
    <3>2. QED
      BY <1>1, <1>2, <1>3, <1>4, <3>1 DEF WayInv, ServingInv, CurrentInv, Answers, pathVars
  <2>4. QED
    BY <2>2, <2>3
<1>6. CASE ProcessEnds(p)
  <2>1. proc' = [proc EXCEPT ![p] = "ended"] /\ UNCHANGED wpa /\ (socket = p \/ UNCHANGED socket)
    BY <1>6 DEF ProcessEnds
  <2>2. ServingInv'
    BY <1>1, <1>2, <1>3, <2>1 DEF WayInv, ServingInv
  <2>3. Answers' => Answers
    BY <1>1, <1>2, <1>3, <2>1 DEF Answers
  <2>4. CurrentInv'
    BY <1>1, <2>1, <2>3 DEF WayInv, CurrentInv, pathVars
  <2>5. QED
    BY <1>4, <2>2, <2>4 DEF WayInv
<1>7. CASE ProcessHangs(p)
  <2>1. proc[p] = "serving" /\ proc' = [proc EXCEPT ![p] = "hung"] /\ UNCHANGED <<wpa, socket>>
    BY <1>7 DEF ProcessHangs
  <2>2. ServingInv'
    BY <1>1, <1>2, <1>3, <2>1 DEF WayInv, ServingInv
  <2>3. Answers' => Answers
    BY <1>1, <1>2, <1>3, <2>1 DEF Answers
  <2>4. QED
    BY <1>1, <1>4, <2>1, <2>2, <2>3 DEF WayInv, CurrentInv, pathVars
<1>8. QED
  BY <1>5, <1>6, <1>7 DEF ProcessStep

LEMMA StateChangesWay ==
  ASSUME TypeInv, WayInv, NEW s \in WpaState, StateChanges(s)
  PROVE  WayInv'
<1>1. UNCHANGED <<proc, socket, backend>>
  BY DEF StateChanges
<1>2. CASE Answers
  <2>1. events' = Append(events, "CTRL-EVENT") /\ events \in Seq({"CTRL-EVENT"})
    BY <1>2 DEF StateChanges, TypeInv, TypeOK
  <2>2. events' # <<>>
    BY <2>1
  <2>3. QED
    BY <1>1, <2>2 DEF WayInv, ServingInv, CurrentInv, AwaitInv
<1>3. CASE ~Answers
  BY <1>1, <1>3 DEF WayInv, ServingInv, CurrentInv, AwaitInv, Answers
<1>4. QED
  BY <1>2, <1>3

\* A backend that is dead gets no answers; one that has asked for the state tells the last.
LEMMA BackendWay == ASSUME TypeInv, WayInv, BackendMoves PROVE WayInv'
<1>1. Effect /\ UNCHANGED <<procVars, stream, external, at>>
  BY BackendEffect DEF Effect, superVars
<1>2. CASE Dies
  BY <1>1, <1>2 DEF Dies, WayInv, ServingInv, CurrentInv, AwaitInv, Answers, procVars
<1>3. CASE Lives
  <2>1. ServingInv' /\ (Answers' => Answers)
    BY <1>1, <1>3 DEF Effect, Lives, WayInv, ServingInv, Answers, procVars
  <2>2. CASE InitialStatus
    <3>1. ~backend.status_init /\ Request("status")
      BY <2>2 DEF InitialStatus
    <3>2. backend'.awaits = "status"
      BY <1>3, <3>1, RequestEffect DEF Lives
    <3>3. QED
      BY <2>1, <3>2 DEF WayInv, CurrentInv, AwaitInv
  <2>3. CASE HandleWpaEvent
    <3>1. backend.status_init /\ Request("event")
      BY <2>3 DEF HandleWpaEvent
    <3>2. CASE proc[backend.conn] = "ended"
      <4>1. RequestFails("event") /\ backend.status = "alive"
        BY <3>1, <3>2 DEF Request, Idle
      <4>2. missed' /\ backend'.awaits = "nothing"
        BY <4>1, RequestFailsEffect
      <4>3. QED
        BY <2>1, <4>2 DEF WayInv, CurrentInv, AwaitInv
    <3>3. CASE proc[backend.conn] # "ended"
      <4>1. backend' = [backend EXCEPT !.awaits = "event"]
        BY <3>1, <3>3 DEF Request
      <4>2. backend'.awaits = "event" /\ backend'.status_init
        BY <3>1, <4>1 DEF TypeInv, TypeOK, Backend
      <4>3. QED
        BY <2>1, <4>2 DEF WayInv, CurrentInv, AwaitInv
    <3>4. QED
      BY <3>2, <3>3
  <2>4. CASE Scan
    <3>1. backend.status_init /\ Request("scan") /\ Idle /\ backend'.status # "dead"
      BY <1>3, <2>4 DEF Scan, Request, Lives
    <3>2. backend'.awaits = "scan" /\ backend'.status_init /\ UNCHANGED <<events, statuses, missed>>
      BY <1>3, <2>4, <3>1, RequestEffect DEF Scan, Lives
    <3>3. QED
      BY <1>1, <2>1, <3>1, <3>2 DEF WayInv, CurrentInv, AwaitInv, Idle, procVars
  <2>5. CASE Answered
    <3>1. backend'.awaits = "nothing" /\ backend'.status_init /\ UNCHANGED <<events, missed>>
          /\ backend.awaits # "nothing" /\ Answers /\ backend \in Backend
      BY <2>5 DEF Answered, TypeInv, TypeOK, Backend, histVars
    <3>2. CASE backend.awaits = "scan"
      <4>1. UNCHANGED statuses /\ backend.status_init
        BY <2>5, <3>1, <3>2 DEF Answered, Answers, WayInv, AwaitInv
      <4>2. QED
        BY <1>1, <2>1, <3>1, <3>2, <4>1 DEF WayInv, CurrentInv, AwaitInv, procVars
    <3>3. CASE backend.awaits # "scan"
      <4>1. statuses' = Append(statuses, wpa) /\ statuses \in Seq(WpaState) /\ wpa \in WpaState
        BY <2>5, <3>3 DEF Answered, TypeInv, TypeOK
      <4>2. Latest(statuses', stream', external') = ConnectionState(wpa')
        BY <1>1, <4>1, LatestTold DEF procVars
      <4>3. QED
        BY <2>1, <3>1, <4>2 DEF WayInv, CurrentInv, AwaitInv
    <3>4. QED
      BY <3>2, <3>3
  <2>6. CASE Unanswered
    <3>1. RequestFails(backend.awaits) /\ backend.status = "alive"
      BY <1>1, <2>6 DEF Unanswered, Effect
    <3>2. missed' /\ backend'.awaits = "nothing"
      BY <1>3, <3>1, RequestFailsEffect DEF Lives
    <3>3. QED
      BY <2>1, <3>2 DEF WayInv, CurrentInv, AwaitInv
  <2>7. CASE ExitSeen \/ ListenerFails
    BY <1>3, <2>7 DEF ExitSeen, ListenerFails, BackendDies, Lives, TypeInv, TypeOK, Backend
  <2>8. QED
    BY <2>2, <2>3, <2>4, <2>5, <2>6, <2>7 DEF BackendMoves, BackendStep
<1>4. QED
  BY <1>1, <1>2, <1>3 DEF Effect

LEMMA PathWay ==
  ASSUME TypeInv, WayInv, LinkDied \/ Broadcast \/ DaemonHandles \/ Stop
  PROVE  WayInv'
<1>1. UNCHANGED procVars
  BY DEF LinkDied, Broadcast, DaemonHandles, Stop
<1>2. statuses \in Seq(WpaState) /\ stream \in Seq(WpaState)
  BY DEF TypeInv, TypeOK
<1>3. CASE LinkDied \/ Stop
  <2>1. backend'.status = "none"
    BY <1>3 DEF LinkDied, Stop, NoBackend
  <2>2. QED
    BY <1>1, <2>1 DEF WayInv, ServingInv, CurrentInv, AwaitInv, histVars, Answers, procVars
<1>4. ASSUME UNCHANGED <<at, backend, missed, events>>,
             Latest(statuses', stream', external') = Latest(statuses, stream, external)
      PROVE  WayInv'
  BY <1>1, <1>4 DEF WayInv, ServingInv, CurrentInv, AwaitInv, histVars, Answers, procVars
<1>5. CASE Broadcast
  <2>1. Latest(statuses', stream', external') = Latest(statuses, stream, external)
    BY <1>2, <1>5, LatestPassedOn DEF Broadcast
  <2>2. QED
    BY <1>4, <1>5, <2>1 DEF Broadcast, superVars, histVars
<1>6. CASE DaemonHandles
  <2>1. Latest(statuses', stream', external') = Latest(statuses, stream, external)
    BY <1>2, <1>6, LatestHandled DEF DaemonHandles
  <2>2. QED
    BY <1>4, <1>6, <2>1 DEF DaemonHandles, superVars, histVars
<1>7. QED
  BY <1>3, <1>5, <1>6

LEMMA InitWay == ASSUME Init PROVE WayInv
<1>1. ~Answers /\ backend.status = "none"
  BY DEF Init, Answers, NoBackend
<1>2. \A p \in Pid : proc[p] \in {"serving", "hung"} => socket = p
  BY DEF Init
<1>3. QED
  BY <1>1, <1>2 DEF WayInv, ServingInv, CurrentInv, AwaitInv

LEMMA NextWay == ASSUME TypeInv, WayInv, [Next]_vars PROVE WayInv'
<1>1. CASE UNCHANGED vars
  BY <1>1 DEF WayInv, ServingInv, CurrentInv, AwaitInv, histVars, Answers, vars, superVars, procVars, pathVars
<1>2. CASE SupervisorStep
  BY <1>2, StartWay, PathWay DEF SupervisorStep
<1>3. CASE BackendMoves
  BY <1>3, BackendWay
<1>4. CASE DaemonHandles \/ Stop
  BY <1>4, PathWay
<1>5. CASE \E p \in Pid : ProcessStep(p)
  BY <1>5, ProcessWay
<1>6. CASE \E s \in WpaState : StateChanges(s)
  BY <1>6, StateChangesWay
<1>7. QED
  BY <1>1, <1>2, <1>3, <1>4, <1>5, <1>6 DEF Next, BackendMoves, ProcessStep

\* Once every report has been handled the interface manager has the state of the process
\* that answers, however often process and backend were replaced and whatever changed
\* meanwhile (daemon/service.rs, UpdateExternalInterfaceState).
THEOREM ExternalAlwaysCurrent == Spec => []ExternalIsCurrent
<1>1. Spec => []WayInv
  BY InitWay, NextWay, SpecType, PTL DEF Spec
<1>2. WayInv => ExternalIsCurrent
  BY DEF WayInv, CurrentInv, Latest, ExternalIsCurrent, Idle
<1>3. QED
  BY <1>1, <1>2, PTL
===============================================================================
