--------------------------- MODULE DhcpLease_proofs ---------------------------
(***************************************************************************)
(* Proofs about DhcpLease for any addresses, leases and bounds: its types, *)
(* that a lease is watched and renewed only while there is one, that the   *)
(* reports of a manager form a chain (the refinement of LeaseReports), and *)
(* that what the manager has told, the client holds and the server has     *)
(* bound agree.                                                            *)
(***************************************************************************)
EXTENDS DhcpLease, TLAPS

Awaiting == {"offer", "ack", "renew"}

(***************************************************************************)
(* The inductive invariant behind LeaseIsWatched and RenewalHasLease.      *)
(***************************************************************************)

\* A client is only restarted when it is dead: its death is reported once.
DeathsInv ==
  /\ manager = "sleeping" => client.at = "dead"
  /\ \A j \in DOMAIN inbox : inbox[j].type = "ClientDied" =>
       client.at = "dead" /\ manager # "sleeping"
  /\ \A j, k \in DOMAIN inbox :
       inbox[j].type = "ClientDied" /\ inbox[k].type = "ClientDied" => j = k
  /\ client.at = "dead" /\ manager # "stopped" => watchdog = "dead"
  /\ \A j \in DOMAIN events : events[j] = "ManagerStopped" => manager = "stopped"

\* What the watchdog does while the client is in each of its states.
PartnersInv ==
  /\ client.at = "dead" => client = Dead /\ events = <<>> /\ watchdog \in {"dead", "idle"}
  /\ client.starting => client.at \in {"offer", "ack"} /\ client.lease = None /\ watchdog = "dead"
  /\ client.at \in Awaiting /\ ~client.starting => client.lease # None /\ watchdog = "asking"
  /\ client.at = "idle" =>
       IF client.lease = None
       THEN watchdog \in {"rejected", "dead"}
       ELSE watchdog \in {"idle", "asking", "renewed", "failed"}

\* The watchdog waits for the answer to the one event it has sent.
QuestionInv ==
  /\ \A j \in DOMAIN events : events[j] \in LeaseEvent =>
       watchdog = "asking" /\ client.at = "idle"
  /\ \A j, k \in DOMAIN events :
       events[j] \in LeaseEvent /\ events[k] \in LeaseEvent => j = k

\* The expiry of the lease is still to come or on its way.
ExpiryComes ==
  \/ timers.next < 3
  \/ \E j \in DOMAIN alarms : alarms[j] = 2
  \/ \E j \in DOMAIN events : events[j] = "LeaseExpired"

WatchedInv ==
  client.lease # None /\ client.at \in {"idle", "renew"} /\ watchdog # "renewed" => ExpiryComes

WatchInv == TypeOK /\ DeathsInv /\ PartnersInv /\ QuestionInv /\ WatchedInv

-------------------------------------------------------------------------------
(***************************************************************************)
(* Sequences, and types.                                                   *)
(***************************************************************************)

\* The elements of a sequence with one more at its end.
LEMMA AppendElements ==
  ASSUME NEW S, NEW s \in Seq(S), NEW e \in S
  PROVE  /\ Append(s, e) \in Seq(S)
         /\ DOMAIN s = 1..Len(s) /\ Len(s) \in Nat
         /\ DOMAIN Append(s, e) = 1..(Len(s) + 1)
         /\ \A j \in DOMAIN s : Append(s, e)[j] = s[j]
         /\ Append(s, e)[Len(s) + 1] = e
OBVIOUS

\* The elements of a sequence without its first.
LEMMA TailElements ==
  ASSUME NEW S, NEW s \in Seq(S), s # <<>>
  PROVE  /\ Head(s) \in S /\ Head(s) = s[1] /\ 1 \in DOMAIN s
         /\ Tail(s) \in Seq(S)
         /\ \A j \in DOMAIN Tail(s) : j + 1 \in DOMAIN s /\ Tail(s)[j] = s[j + 1]
         /\ \A j \in DOMAIN s : j # 1 => j - 1 \in DOMAIN Tail(s) /\ Tail(s)[j - 1] = s[j]
         /\ \A j \in DOMAIN s \cup DOMAIN Tail(s) : j \in Nat
OBVIOUS

\* A report is one of the manager's letters.
LEMMA LetterType ==
  /\ \A old, new \in Lease \cup {None} : Report(old, new) \in Letter
  /\ [type |-> "ClientDied"] \in Letter /\ [type |-> "Stop"] \in Letter
BY DEF Report, Letter

\* Steps of the client's handlers keep the types.
LEMMA TellType ==
  ASSUME TypeOK, NEW old \in Lease \cup {None}, NEW new \in Lease \cup {None}, Tell(old, new)
  PROVE  inbox' \in Seq(Letter)
<1>1. Report(old, new) \in Letter
  BY LetterType
<1>2. Append(inbox, Report(old, new)) \in Seq(Letter) /\ inbox \in Seq(Letter)
  BY <1>1 DEF TypeOK
<1>3. QED
  BY <1>2 DEF Tell

LEMMA DieType ==
  ASSUME TypeOK, NEW reason, Die(reason)
  PROVE  /\ client' = Dead /\ client' \in Client /\ events' = <<>> /\ answers' = <<>>
         /\ inbox' \in Seq(Letter)
         /\ watchdog' \in {"dead", "idle"}
         /\ alarms' \in Seq(0..2)
         /\ timers' \in [passed : 0..3, next : 0..3]
         /\ reason # "Normal" => watchdog' = "dead"
<1>1. inbox' \in Seq(Letter)
  BY LetterType DEF Die, TypeOK
<1>2. Dead \in Client /\ NoTimers \in [passed : 0..3, next : 0..3]
  BY DEF Dead, Client, NoTimers
<1>3. QED
  BY <1>1, <1>2 DEF Die, TypeOK

\* What Send puts on the network.
LEMMA SendType ==
  ASSUME TypeOK, NEW kind \in {"Discover", "Select", "Renew"}, NEW ip \in Addr \cup {None},
         Send(kind, ip)
  PROVE  xid' \in {0, 1} /\ request' \in Packet
BY DEF Send, TypeOK, Packet

\* An offer or an ACK carries a lease.
LEMMA ReadType ==
  ASSUME TypeOK, NEW kind, Read(kind)
  PROVE  /\ answers # <<>> /\ Head(answers) \in Answer /\ Tail(answers) \in Seq(Answer)
         /\ kind \in {"Offer", "Ack"} => Head(answers).lease \in Lease
BY DEF Read, TypeOK, Answer

\* Two sequences in a row.
LEMMA ConcatType ==
  ASSUME NEW S, NEW s \in Seq(S), NEW t \in Seq(S)
  PROVE  s \o t \in Seq(S)
OBVIOUS

\* An empty mailbox or socket.
LEMMA EmptyTypes ==
  /\ <<>> \in Seq(LeaseEvent \cup {"WatchdogDied", "ManagerStopped"})
  /\ <<>> \in Seq(Answer) /\ <<>> \in Seq(Letter) /\ <<>> \in Seq(0..2)
OBVIOUS

\* What a deadline asks for is an event of the lease.
LEMMA EventType ==
  ASSUME NEW stage \in 0..2
  PROVE  EventOf(stage) \in LeaseEvent /\ (EventOf(stage) = "LeaseExpired" <=> stage = 2)
BY DEF EventOf, LeaseEvent

\* A renewed lease is one of those the ACK and the client have.
LEMMA AckedLeaseType ==
  ASSUME TypeOK, Head(answers).lease \in Lease, NEW lease \in AckedLease
  PROVE  lease \in Lease \cup {None}
<1>1. CASE lease = Head(answers).lease
  BY <1>1
<1>2. CASE lease # Head(answers).lease
  <2>1. client.at = "renew" /\ lease = client.lease
    BY <1>2 DEF AckedLease
  <2>2. QED
    BY <2>1 DEF TypeOK, Client
<1>3. QED
  BY <1>1, <1>2

\* A client that starts over stays a client.
LEMMA DiscoverType ==
  ASSUME TypeOK, Discover
  PROVE  client' \in Client /\ xid' \in {0, 1} /\ request' \in Packet
<1>1. xid' \in {0, 1} /\ request' \in Packet
  BY SendType DEF Discover
<1>2. QED
  BY <1>1 DEF Discover, TypeOK, Client

\* A failed request keeps the types of what it changes.
LEMMA FailType ==
  ASSUME TypeOK, RequestFails
  PROVE  /\ client' \in Client
         /\ events' \in Seq(LeaseEvent \cup {"WatchdogDied", "ManagerStopped"})
         /\ answers' \in Seq(Answer) /\ inbox' \in Seq(Letter)
         /\ watchdog' \in {"dead", "idle", "asking", "renewed", "failed", "rejected"}
         /\ alarms' \in Seq(0..2) /\ timers' \in [passed : 0..3, next : 0..3]
<1>1. CASE Die("Panicked")
  BY <1>1, DieType, EmptyTypes
<1>2. CASE LoseLease
  <2>1. inbox' \in Seq(Letter)
    <3>1. Tell(client.lease, None) /\ client.lease \in Lease \cup {None}
      BY <1>2 DEF LoseLease, TypeOK, Client
    <3>2. QED
      BY <3>1, TellType
  <2>2. client' = [at |-> "idle", starting |-> client.starting, lease |-> None]
    BY <1>2 DEF LoseLease, TypeOK, Client
  <2>3. client' \in Client
    BY <2>2 DEF TypeOK, Client
  <2>4. QED
    BY <1>2, <2>1, <2>3 DEF LoseLease, TypeOK
<1>3. QED
  BY <1>1, <1>2 DEF RequestFails

\* Every step keeps the types.
LEMMA TypeStep ==
  ASSUME TypeOK, [Next]_vars
  PROVE  TypeOK'
<1> USE DEF actorVars, netVars, heardVars, vars
<1>none. None \notin Lease /\ None \notin Addr
  BY LeaseAssumption
<1>server. CASE ServerAnswers
  <2>0. request # None /\ request \in Packet
    BY <1>server DEF ServerAnswers, TypeOK
  <2>1. \A kind \in {"Offer", "Ack"}, lease \in Lease, copies \in 0..2 :
          Answers(kind, lease, copies) => answers' \in Seq(Answer)
    <3> SUFFICES ASSUME NEW kind \in {"Offer", "Ack"}, NEW lease \in Lease, NEW copies \in 0..2,
                        Answers(kind, lease, copies)
                 PROVE  answers' \in Seq(Answer)
      OBVIOUS
    <3>1. [kind |-> kind, lease |-> lease, xid |-> request.xid] \in Answer
      BY <2>0 DEF Answer, Packet
    <3>2. [j \in 1..copies |-> [kind |-> kind, lease |-> lease, xid |-> request.xid]] \in Seq(Answer)
      BY <3>1
    <3>3. QED
      BY <3>2, ConcatType DEF Answers, TypeOK
  <2>2. \A copies \in 0..2 : Answers("Nak", None, copies) => answers' \in Seq(Answer)
    <3> SUFFICES ASSUME NEW copies \in 0..2, Answers("Nak", None, copies)
                 PROVE  answers' \in Seq(Answer)
      OBVIOUS
    <3>1. [kind |-> "Nak", lease |-> None, xid |-> request.xid] \in Answer
      BY <2>0 DEF Answer, Packet
    <3>2. [j \in 1..copies |-> [kind |-> "Nak", lease |-> None, xid |-> request.xid]] \in Seq(Answer)
      BY <3>1
    <3>3. QED
      BY <3>2, ConcatType DEF Answers, TypeOK
  <2>3. answers' \in Seq(Answer) /\ binding' \in Addr \cup {None}
    BY <1>server, <2>1, <2>2, LeaseAssumption DEF ServerAnswers, Offer, Grant, Refuse, TypeOK
  <2>4. QED
    BY <1>server, <2>3 DEF ServerAnswers, TypeOK
<1>lapse. CASE BindingLapses
  BY <1>lapse DEF BindingLapses, TypeOK
<1>time. CASE TimePasses
  BY <1>time DEF TimePasses, TypeOK
<1>skip. CASE SkipAnswer
  BY <1>skip DEF SkipAnswer, TypeOK
<1>offer. CASE TakeOffer
  <2>1. Read("Offer")
    BY <1>offer DEF TakeOffer
  <2>2. /\ Head(answers).lease \in Lease /\ Tail(answers) \in Seq(Answer)
    BY <2>1, ReadType
  <2>3. client' \in Client
    BY <1>offer DEF TakeOffer, TypeOK, Client
  <2>4. request' \in Packet
    BY <1>offer, <2>2, LeaseAssumption DEF TakeOffer, TypeOK, Packet
  <2>5. QED
    BY <1>offer, <2>2, <2>3, <2>4 DEF TakeOffer, TypeOK
<1>ack. CASE TakeAck
  <2>1. Read("Ack")
    BY <1>ack DEF TakeAck
  <2>2. /\ Head(answers).lease \in Lease /\ Tail(answers) \in Seq(Answer)
    BY <2>1, ReadType
  <2>3. PICK lease \in AckedLease : Obtain(lease)
    BY <1>ack DEF TakeAck
  <2>4. lease \in Lease \cup {None}
    BY <2>2, <2>3, AckedLeaseType
  <2>5. inbox' \in Seq(Letter)
    <3>1. Tell(client.lease, lease) /\ client.lease \in Lease \cup {None}
      BY <2>3 DEF Obtain, TypeOK, Client
    <3>2. QED
      BY <3>1, <2>4, TellType
  <2>6. client' \in Client
    BY <2>3, <2>4 DEF Obtain, Client
  <2>7. timers' \in [passed : 0..3, next : 0..3] /\ watchdog' \in {"idle", "renewed"}
    BY <2>3 DEF Obtain, TypeOK, NewTimers
  <2>8. QED
    BY <1>ack, <2>2, <2>3, <2>5, <2>6, <2>7 DEF TakeAck, Obtain, TypeOK
<1>crash. CASE CrashOnAck
  <2>1. Die("Panicked")
    BY <1>crash DEF CrashOnAck
  <2>2. QED
    BY <1>crash, <2>1, DieType, EmptyTypes DEF CrashOnAck, TypeOK
<1>nak. CASE TakeNak
  <2>1. Read("Nak")
    BY <1>nak DEF TakeNak
  <2>2. Tail(answers) \in Seq(Answer)
    BY <2>1, ReadType
  <2>3. CASE Discover /\ answers' = Tail(answers) /\ UNCHANGED <<inbox, events, watchdog, alarms, timers>>
    BY <1>nak, <2>2, <2>3, DiscoverType DEF TakeNak, TypeOK
  <2>4. CASE Die("Panicked") /\ UNCHANGED <<xid, request>>
    BY <1>nak, <2>4, DieType, EmptyTypes DEF TakeNak, TypeOK
  <2>5. QED
    BY <1>nak, <2>3, <2>4 DEF TakeNak
<1>timeout. CASE TimeOut
  <2>1. CASE client.at = "renew"
    <3>1. KeepLease
      BY <1>timeout, <2>1 DEF TimeOut
    <3>2. client' \in Client
      BY <3>1 DEF KeepLease, TypeOK, Client
    <3>3. QED
      BY <1>timeout, <3>1, <3>2 DEF TimeOut, KeepLease, TypeOK
  <2>2. CASE client.at # "renew"
    <3>1. RequestFails
      BY <1>timeout, <2>2 DEF TimeOut
    <3>2. QED
      BY <1>timeout, <3>1, FailType DEF TimeOut, TypeOK
  <2>3. QED
    BY <2>1, <2>2
<1>renewal. CASE HandleRenewal
  <2>1. client.lease.ip \in Addr \cup {None}
    BY <1>renewal, LeaseAssumption DEF HandleRenewal, TypeOK, Client
  <2>2. xid' \in {0, 1} /\ request' \in Packet
    BY <1>renewal, <2>1, SendType DEF HandleRenewal
  <2>3. client' \in Client
    BY <1>renewal DEF HandleRenewal, TypeOK, Client
  <2>4. Tail(events) \in Seq(LeaseEvent \cup {"WatchdogDied", "ManagerStopped"})
    BY <1>renewal DEF HandleRenewal, Receive, TypeOK
  <2>5. QED
    BY <1>renewal, <2>2, <2>3, <2>4 DEF HandleRenewal, TypeOK
<1>expired. CASE HandleExpired
  <2>1. client' \in Client /\ xid' \in {0, 1} /\ request' \in Packet
    BY <1>expired, DiscoverType DEF HandleExpired
  <2>2. Tail(events) \in Seq(LeaseEvent \cup {"WatchdogDied", "ManagerStopped"})
    BY <1>expired DEF HandleExpired, Receive, TypeOK
  <2>3. QED
    BY <1>expired, <2>1, <2>2 DEF HandleExpired, TypeOK
<1>orphan. CASE HandleWatchdogDied
  <2>1. Die("Killed")
    BY <1>orphan DEF HandleWatchdogDied
  <2>2. QED
    BY <1>orphan, <2>1, DieType, EmptyTypes DEF HandleWatchdogDied, TypeOK
<1>release. CASE HandleManagerStopped
  <2>1. Die("Normal")
    BY <1>release DEF HandleManagerStopped
  <2>2. QED
    BY <1>release, <2>1, DieType, EmptyTypes DEF HandleManagerStopped, TypeOK
<1>ask. CASE Ask
  <2>0. alarms # <<>> /\ alarms \in Seq(0..2)
    BY <1>ask DEF Ask, TypeOK
  <2>1. Head(alarms) \in 0..2 /\ Tail(alarms) \in Seq(0..2)
    BY <2>0
  <2>2. EventOf(Head(alarms)) \in LeaseEvent
    BY <2>1, EventType
  <2>3. Append(events, EventOf(Head(alarms))) \in Seq(LeaseEvent \cup {"WatchdogDied", "ManagerStopped"})
    BY <2>2 DEF TypeOK
  <2>4. NoTimers \in [passed : 0..3, next : 0..3] /\ <<>> \in Seq(0..2)
    BY DEF NoTimers
  <2>5. QED
    BY <1>ask, <2>1, <2>3, <2>4 DEF Ask, TypeOK
<1>resume. CASE Resume
  <2>1. NoTimers \in [passed : 0..3, next : 0..3] /\ NewTimers \in [passed : 0..3, next : 0..3]
        /\ <<>> \in Seq(0..2)
    BY DEF NoTimers, NewTimers
  <2>2. Append(events, "WatchdogDied") \in Seq(LeaseEvent \cup {"WatchdogDied", "ManagerStopped"})
    BY DEF TypeOK
  <2>3. /\ UNCHANGED <<manager, inbox, stopping, client, xid, request, answers, binding, told, report, restarted>>
        /\ timers' \in {NoTimers, NewTimers} \/ UNCHANGED timers
        /\ alarms' = <<>> \/ UNCHANGED alarms
        /\ events' = Append(events, "WatchdogDied") \/ UNCHANGED events
        /\ watchdog' \in {"dead", "idle", "asking"}
    BY <1>resume DEF Resume, SetTimers, WaitForNextTimeout, KillItself
  <2>4. /\ timers' \in [passed : 0..3, next : 0..3] /\ alarms' \in Seq(0..2)
        /\ events' \in Seq(LeaseEvent \cup {"WatchdogDied", "ManagerStopped"})
    BY <2>1, <2>2, <2>3, Zenon DEF TypeOK
  <2>5. QED
    BY <2>3, <2>4, Zenon DEF TypeOK
<1>fires. CASE TimerFires
  <2>1. timers.passed - 1 \in 0..2
    BY <1>fires DEF TimerFires, TypeOK
  <2>2. Append(alarms, timers.passed - 1) \in Seq(0..2)
    BY <2>1 DEF TypeOK
  <2>3. QED
    BY <1>fires, <2>2 DEF TimerFires, TypeOK
<1>forward. CASE ForwardReport
  <2>1. Head(inbox) \in Letter /\ Tail(inbox) \in Seq(Letter) /\ Head(inbox).type = "Report"
    BY <1>forward DEF ForwardReport, ReceiveLetter, TypeOK
  <2>2. Head(inbox).old \in Lease \cup {None} /\ Head(inbox).new \in Lease \cup {None}
    BY <2>1 DEF Letter
  <2>3. QED
    BY <1>forward, <2>1, <2>2 DEF ForwardReport, ReceiveLetter, TypeOK
<1>died. CASE HandleClientDied
  <2>1. Tail(inbox) \in Seq(Letter) /\ <<>> \in Seq(Letter)
    BY <1>died DEF HandleClientDied, ReceiveLetter, TypeOK
  <2>2. QED
    BY <1>died, <2>1 DEF HandleClientDied, ReceiveLetter, TypeOK
<1>stop. CASE HandleStop
  <2>1. Append(events, "ManagerStopped") \in Seq(LeaseEvent \cup {"WatchdogDied", "ManagerStopped"})
        /\ <<>> \in Seq(Letter)
    BY DEF TypeOK
  <2>2. QED
    BY <1>stop, <2>1 DEF HandleStop, ReceiveLetter, TypeOK
<1>restart. CASE RestartClient
  <2>1. CASE Send("Discover", None) /\ client' = Starting /\ manager' = "running" /\ UNCHANGED inbox
    <3>1. xid' \in {0, 1} /\ request' \in Packet
      BY <2>1, SendType
    <3>2. Starting \in Client
      BY DEF Starting, Client
    <3>3. QED
      BY <1>restart, <2>1, <3>1, <3>2 DEF RestartClient, TypeOK
  <2>2. CASE manager' = "stopped" /\ inbox' = <<>> /\ UNCHANGED <<client, xid, request>>
    BY <1>restart, <2>2 DEF RestartClient, TypeOK
  <2>3. QED
    BY <1>restart, <2>1, <2>2 DEF RestartClient
<1>end. CASE StopManager
  <2>1. Append(inbox, [type |-> "Stop"]) \in Seq(Letter)
    BY LetterType DEF TypeOK
  <2>2. QED
    BY <1>end, <2>1 DEF StopManager, TypeOK
<1>same. CASE UNCHANGED vars
  BY <1>same DEF TypeOK
<1>qed. QED
  BY <1>server, <1>lapse, <1>time, <1>skip, <1>offer, <1>ack, <1>crash, <1>nak, <1>timeout,
     <1>renewal, <1>expired, <1>orphan, <1>release, <1>ask, <1>resume, <1>fires, <1>forward,
     <1>died, <1>stop, <1>restart, <1>end, <1>same
  DEF Next, ClientStep, WatchdogStep, ManagerStep, Environment

\* The initial state has the types.
LEMMA InitType == Init => TypeOK
<1>1. Starting \in Client /\ NoTimers \in [passed : 0..3, next : 0..3]
  BY DEF Starting, Client, NoTimers
<1>2. [kind |-> "Discover", ip |-> None, xid |-> 0] \in Packet
  BY DEF Packet
<1>3. QED
  BY <1>1, <1>2, EmptyTypes DEF Init, TypeOK

\* The types of the variables, for every value of the constants.
THEOREM TypeCorrect == Spec => []TypeOK
<1>1. TypeOK /\ [Next]_vars => TypeOK'
  BY TypeStep
<1>2. QED
  BY <1>1, InitType, PTL DEF Spec

-------------------------------------------------------------------------------
(***************************************************************************)
(* WatchInv is inductive.                                                  *)
(***************************************************************************)
Watching == DeathsInv /\ PartnersInv /\ QuestionInv /\ WatchedInv

NoDeath    == \A j \in DOMAIN inbox : inbox[j].type # "ClientDied"
NoQuestion == \A j \in DOMAIN events : events[j] \notin LeaseEvent

\* While the client lives nobody has reported its death, and while it awaits the
\* server the watchdog has asked it nothing more.
LEMMA Alive ==
  ASSUME WatchInv
  PROVE  /\ client.at # "dead" => NoDeath /\ manager # "sleeping"
         /\ client.at # "idle" => NoQuestion
         /\ watchdog # "asking" => NoQuestion
BY DEF WatchInv, DeathsInv, QuestionInv, NoDeath, NoQuestion

\* Where the watchdog is tells where the client is.
LEMMA Partners ==
  ASSUME WatchInv
  PROVE  /\ client.at = "dead" => client.lease = None
         /\ watchdog \in {"renewed", "failed", "rejected"} => client.at = "idle"
         /\ watchdog \in {"renewed", "failed"} => client.lease # None
         /\ watchdog = "rejected" => client.lease = None
         /\ watchdog = "idle" /\ client.at # "dead" => client.at = "idle" /\ client.lease # None
         /\ watchdog = "asking" /\ client.at = "idle" => client.lease # None
         /\ client.at = "idle" => ~client.starting
BY DEF WatchInv, TypeOK, Client, PartnersInv, Awaiting, Dead

\* A report tells nobody of a death.
LEMMA TellNoDeath ==
  ASSUME TypeOK, NoDeath, NEW old \in Lease \cup {None}, NEW new \in Lease \cup {None},
         Tell(old, new)
  PROVE  NoDeath'
<1>1. Report(old, new) \in Letter /\ Report(old, new).type = "Report"
  BY LetterType DEF Report
<1>2. CASE inbox' = inbox
  BY <1>2 DEF NoDeath
<1>3. CASE inbox' = Append(inbox, Report(old, new))
  BY <1>1, <1>3, AppendElements DEF NoDeath, TypeOK
<1>4. QED
  BY <1>2, <1>3 DEF Tell

\* The death of the client, and of a watchdog linked to it.
LEMMA DieWatching ==
  ASSUME WatchInv, NEW reason, Die(reason), client.at # "dead", UNCHANGED manager,
         reason = "Normal" => manager = "stopped"
  PROVE  Watching'
<1>1. TypeOK /\ NoDeath /\ manager # "sleeping"
  BY Alive DEF WatchInv
<1>2. /\ client' = Dead /\ events' = <<>> /\ watchdog' \in {"dead", "idle"}
      /\ manager # "stopped" => watchdog' = "dead"
  BY <1>1, DieType
<1>3. client'.at = "dead" /\ client'.starting = FALSE /\ client'.lease = None
  BY <1>2 DEF Dead
<1>4. \A j \in DOMAIN inbox' : inbox'[j].type = "ClientDied" => j = Len(inbox) + 1
  <2>1. CASE inbox' = inbox
    BY <1>1, <2>1 DEF NoDeath
  <2>2. CASE inbox' = Append(inbox, [type |-> "ClientDied"])
    BY <1>1, <2>2, LetterType, AppendElements DEF NoDeath, TypeOK
  <2>3. QED
    BY <2>1, <2>2 DEF Die
<1>5. DeathsInv'
  BY <1>1, <1>2, <1>3, <1>4 DEF DeathsInv
<1>6. PartnersInv'
  BY <1>2, <1>3 DEF PartnersInv, Dead, Awaiting
<1>7. QuestionInv' /\ WatchedInv'
  BY <1>2, <1>3 DEF QuestionInv, WatchedInv
<1>8. QED
  BY <1>5, <1>6, <1>7 DEF Watching

\* A lease is obtained: its timers start, or the watchdog is about to set them.
LEMMA ObtainWatching ==
  ASSUME WatchInv, client.at \in Awaiting, NEW lease \in Lease, Obtain(lease), UNCHANGED manager
  PROVE  Watching'
<1>1. TypeOK /\ NoDeath /\ NoQuestion /\ manager # "sleeping"
  BY Alive DEF WatchInv, Awaiting
<1>2. client'.at = "idle" /\ client'.starting = FALSE /\ client'.lease = lease /\ lease # None
  BY LeaseAssumption DEF Obtain
<1>3. NoDeath'
  <2>1. Tell(client.lease, lease) /\ client.lease \in Lease \cup {None}
    BY <1>1 DEF Obtain, TypeOK, Client
  <2>2. QED
    BY <1>1, <2>1, TellNoDeath
<1>4. NoQuestion' /\ events' = events
  BY <1>1 DEF Obtain, NoQuestion
<1>5. DeathsInv'
  BY <1>1, <1>2, <1>3, <1>4 DEF DeathsInv, NoDeath, WatchInv
<1>6. PartnersInv'
  BY <1>2 DEF PartnersInv, Obtain, Awaiting
<1>7. QuestionInv'
  BY <1>4 DEF QuestionInv, NoQuestion
<1>8. WatchedInv'
  <2>1. watchdog' = "renewed" \/ timers'.next = 0
    BY DEF Obtain, NewTimers
  <2>2. QED
    BY <2>1 DEF WatchedInv, ExpiryComes
<1>9. QED
  BY <1>5, <1>6, <1>7, <1>8 DEF Watching

\* No lease could be obtained.
LEMMA FailWatching ==
  ASSUME WatchInv, client.at \in {"offer", "ack"}, RequestFails, UNCHANGED manager
  PROVE  Watching'
<1>1. TypeOK /\ NoDeath /\ NoQuestion /\ manager # "sleeping"
  BY Alive DEF WatchInv
<1>2. CASE Die("Panicked")
  BY <1>2, DieWatching
<1>3. CASE ~client.starting /\ LoseLease
  <2>1. client'.at = "idle" /\ client'.starting = FALSE /\ client'.lease = None
    BY <1>1, <1>3 DEF LoseLease, TypeOK, Client
  <2>2. NoDeath'
    <3>1. Tell(client.lease, None) /\ client.lease \in Lease \cup {None}
      BY <1>1, <1>3 DEF LoseLease, TypeOK, Client
    <3>2. QED
      BY <1>1, <3>1, TellNoDeath
  <2>3. NoQuestion' /\ events' = events /\ watchdog' = "rejected"
    BY <1>1, <1>3 DEF LoseLease, NoQuestion
  <2>4. DeathsInv'
    BY <1>1, <2>1, <2>2, <2>3 DEF DeathsInv, NoDeath, WatchInv
  <2>5. PartnersInv' /\ QuestionInv' /\ WatchedInv'
    BY <2>1, <2>3 DEF PartnersInv, QuestionInv, WatchedInv, NoQuestion, Awaiting
  <2>6. QED
    BY <2>4, <2>5 DEF Watching
<1>4. QED
  BY <1>2, <1>3 DEF RequestFails

\* A client that awaits the server goes on to await another answer.
LEMMA AwaitWatching ==
  ASSUME WatchInv, client.at \in Awaiting, client'.at \in {"offer", "ack"},
         UNCHANGED <<manager, inbox, events, watchdog>>,
         client'.starting = client.starting, client'.lease = client.lease
  PROVE  Watching'
<1>1. TypeOK /\ NoDeath /\ NoQuestion /\ manager # "sleeping"
  BY Alive DEF WatchInv, Awaiting
<1>2. DeathsInv'
  BY <1>1 DEF DeathsInv, NoDeath, WatchInv
<1>3. PartnersInv'
  BY DEF PartnersInv, WatchInv, Awaiting
<1>4. QuestionInv' /\ WatchedInv'
  BY <1>1 DEF QuestionInv, WatchedInv, NoQuestion
<1>5. QED
  BY <1>2, <1>3, <1>4 DEF Watching

\* The client takes the one event of the lease from its mailbox.
LEMMA TakeEvent ==
  ASSUME WatchInv, NEW event \in LeaseEvent, Receive(event), events' = Tail(events)
  PROVE  /\ client.at = "idle" /\ ~client.starting /\ client.lease # None
         /\ watchdog = "asking" /\ NoQuestion'
         /\ \A j \in DOMAIN events : events[j] = "LeaseExpired" => event = "LeaseExpired"
         /\ \A j \in DOMAIN events' : events'[j] = "ManagerStopped" => manager = "stopped"
<1> USE DEF TypeOK, WatchInv
<1>1. client.at = "idle" /\ events # <<>> /\ Head(events) = event
  BY DEF Receive
<1>2. events[1] = event /\ 1 \in DOMAIN events
  BY <1>1, TailElements
<1>3. watchdog = "asking"
  BY <1>2 DEF QuestionInv
<1>4. \A j \in DOMAIN events : events[j] \in LeaseEvent => j = 1
  BY <1>2 DEF QuestionInv
<1>5. \A j \in DOMAIN events' : j \in Nat /\ j + 1 \in DOMAIN events /\ events'[j] = events[j + 1]
                               /\ j # 0
  BY <1>1, TailElements
<1>6. NoQuestion'
  <2>1. SUFFICES ASSUME NEW j \in DOMAIN events', events'[j] \in LeaseEvent
                 PROVE  FALSE
    BY DEF NoQuestion
  <2>2. j + 1 = 1
    BY <1>4, <1>5, <2>1
  <2>3. QED
    BY <1>5, <2>1, <2>2
<1>7. \A j \in DOMAIN events : events[j] = "LeaseExpired" => event = "LeaseExpired"
  BY <1>2, <1>4 DEF LeaseEvent
<1>8. \A j \in DOMAIN events' : events'[j] = "ManagerStopped" => manager = "stopped"
  BY <1>5 DEF DeathsInv
<1>9. QED
  BY <1>1, <1>3, <1>6, <1>7, <1>8, Partners
\* A step of the network or of NetworkDaemon that no invariant speaks of.
LEMMA SameWatching ==
  ASSUME WatchInv, UNCHANGED <<manager, client, events, watchdog, alarms, inbox>>,
         timers'.next = timers.next
  PROVE  Watching'
BY DEF Watching, WatchInv, DeathsInv, PartnersInv, QuestionInv, WatchedInv, ExpiryComes

\* A step of the client keeps the invariant.
LEMMA ClientWatching ==
  ASSUME WatchInv, ClientStep
  PROVE  Watching'
<1> USE DEF Awaiting
<1>type. TypeOK
  BY DEF WatchInv
<1>skip. CASE SkipAnswer
  BY <1>skip, SameWatching DEF SkipAnswer, actorVars
<1>offer. CASE TakeOffer
  <2>1. client.at \in Awaiting /\ client'.at = "ack"
        /\ client'.starting = client.starting /\ client'.lease = client.lease
    BY <1>offer, <1>type DEF TakeOffer, Read, TypeOK, Client
  <2>2. QED
    BY <1>offer, <2>1, AwaitWatching DEF TakeOffer
<1>ack. CASE TakeAck
  <2>1. PICK lease \in AckedLease : Obtain(lease)
    BY <1>ack DEF TakeAck
  <2>2. client.at \in Awaiting /\ Head(answers).lease \in Lease /\ UNCHANGED manager
    <3>1. Read("Ack")
      BY <1>ack DEF TakeAck
    <3>2. QED
      BY <1>ack, <1>type, <3>1, ReadType DEF TakeAck, Read
  <2>3. lease \in Lease
    <3>1. CASE client.at = "renew"
      <4>1. client.lease \in Lease
        BY <1>type, <3>1 DEF WatchInv, PartnersInv, TypeOK, Client
      <4>2. QED
        BY <2>2, <3>1, <4>1 DEF AckedLease
    <3>2. CASE client.at # "renew"
      BY <2>2, <3>2 DEF AckedLease
    <3>3. QED
      BY <3>1, <3>2
  <2>4. QED
    BY <2>1, <2>2, <2>3, ObtainWatching
<1>crash. CASE CrashOnAck
  BY <1>crash, DieWatching DEF CrashOnAck, Read
<1>nak. CASE TakeNak
  <2>1. client.at \in {"ack", "renew"} /\ UNCHANGED manager
    BY <1>nak DEF TakeNak, Read, Accepts, Awaited
  <2>2. CASE Discover /\ UNCHANGED <<inbox, events, watchdog, alarms, timers>>
    <3>1. client'.at = "offer" /\ client'.starting = client.starting
          /\ client'.lease = client.lease
      BY <1>type, <2>2 DEF Discover, TypeOK, Client
    <3>2. QED
      BY <2>1, <2>2, <3>1, AwaitWatching
  <2>3. CASE Die("Panicked")
    BY <2>1, <2>3, DieWatching
  <2>4. QED
    BY <1>nak, <2>2, <2>3 DEF TakeNak
<1>timeout. CASE TimeOut
  <2>1. CASE client.at = "renew" /\ KeepLease
    <3>1. client.lease # None /\ watchdog = "asking" /\ ~client.starting /\ NoDeath /\ NoQuestion
          /\ manager # "sleeping"
      BY <2>1, Alive DEF WatchInv, PartnersInv
    <3>2. client'.at = "idle" /\ client'.starting = client.starting /\ client'.lease = client.lease
          /\ watchdog' = "failed" /\ UNCHANGED <<manager, inbox, events, alarms, timers>>
      BY <1>timeout, <1>type, <2>1 DEF TimeOut, KeepLease, TypeOK, Client
    <3>3. DeathsInv'
      BY <3>1, <3>2 DEF DeathsInv, NoDeath, WatchInv
    <3>4. PartnersInv' /\ QuestionInv'
      BY <3>1, <3>2 DEF PartnersInv, QuestionInv, NoQuestion
    <3>5. WatchedInv'
      BY <2>1, <3>1, <3>2 DEF WatchInv, WatchedInv, ExpiryComes
    <3>6. QED
      BY <3>3, <3>4, <3>5 DEF Watching
  <2>2. CASE client.at \in {"offer", "ack"} /\ RequestFails
    BY <1>timeout, <2>2, FailWatching DEF TimeOut
  <2>3. QED
    BY <1>timeout, <2>1, <2>2 DEF TimeOut
<1>renewal. CASE HandleRenewal
  <2>1. PICK event \in {"Renewal", "Rebinding"} : Receive(event)
    BY <1>renewal DEF HandleRenewal
  <2>2. events' = Tail(events) /\ event \in LeaseEvent
    BY <1>renewal DEF HandleRenewal, LeaseEvent
  <2>3. /\ client.at = "idle" /\ ~client.starting /\ client.lease # None
        /\ watchdog = "asking" /\ NoQuestion'
        /\ \A j \in DOMAIN events : events[j] # "LeaseExpired"
        /\ \A j \in DOMAIN events' : events'[j] = "ManagerStopped" => manager = "stopped"
    BY <2>1, <2>2, TakeEvent
  <2>4. NoDeath /\ manager # "sleeping"
    BY <2>3, Alive
  <2>5. client'.at = "renew" /\ client'.starting = client.starting /\ client'.lease = client.lease
        /\ UNCHANGED <<manager, inbox, watchdog, alarms, timers>>
    BY <1>renewal, <1>type DEF HandleRenewal, TypeOK, Client
  <2>6. DeathsInv'
    BY <2>3, <2>4, <2>5 DEF DeathsInv, NoDeath
  <2>7. PartnersInv' /\ QuestionInv'
    BY <2>3, <2>5 DEF PartnersInv, QuestionInv, NoQuestion
  <2>8. WatchedInv'
    BY <2>3, <2>5 DEF WatchInv, WatchedInv, ExpiryComes
  <2>9. QED
    BY <2>6, <2>7, <2>8 DEF Watching
<1>expired. CASE HandleExpired
  <2>1. Receive("LeaseExpired") /\ events' = Tail(events) /\ "LeaseExpired" \in LeaseEvent
    BY <1>expired DEF HandleExpired, LeaseEvent
  <2>2. /\ client.at = "idle" /\ ~client.starting /\ client.lease # None
        /\ watchdog = "asking" /\ NoQuestion'
        /\ \A j \in DOMAIN events' : events'[j] = "ManagerStopped" => manager = "stopped"
    BY <2>1, TakeEvent
  <2>3. NoDeath /\ manager # "sleeping"
    BY <2>2, Alive
  <2>4. client'.at = "offer" /\ client'.starting = client.starting /\ client'.lease = client.lease
        /\ UNCHANGED <<manager, inbox, watchdog, alarms, timers>>
    BY <1>expired, <1>type DEF HandleExpired, Discover, TypeOK, Client
  <2>5. DeathsInv'
    BY <2>2, <2>3, <2>4 DEF DeathsInv, NoDeath
  <2>6. PartnersInv' /\ QuestionInv' /\ WatchedInv'
    BY <2>2, <2>4 DEF PartnersInv, QuestionInv, NoQuestion, WatchedInv
  <2>7. QED
    BY <2>5, <2>6 DEF Watching
<1>orphan. CASE HandleWatchdogDied
  BY <1>orphan, DieWatching DEF HandleWatchdogDied, Receive
<1>release. CASE HandleManagerStopped
  <2>1. events # <<>> /\ Head(events) = "ManagerStopped" /\ client.at = "idle"
    BY <1>release DEF HandleManagerStopped, Receive
  <2>2. manager = "stopped"
    BY <1>type, <2>1, TailElements DEF WatchInv, DeathsInv, TypeOK
  <2>3. QED
    BY <1>release, <2>1, <2>2, DieWatching DEF HandleManagerStopped
<1>qed. QED
  BY <1>skip, <1>offer, <1>ack, <1>crash, <1>nak, <1>timeout, <1>renewal, <1>expired, <1>orphan,
     <1>release DEF ClientStep

\* A step of the watchdog or of its timers keeps the invariant.
LEMMA WatchdogWatching ==
  ASSUME WatchInv, WatchdogStep \/ TimerFires
  PROVE  Watching'
<1>type. TypeOK
  BY DEF WatchInv
<1>ask. CASE Ask /\ client.at # "dead"
  <2> DEFINE event == EventOf(Head(alarms))
  <2>0. watchdog = "idle" /\ alarms # <<>> /\ alarms \in Seq(0..2)
    BY <1>ask, <1>type DEF Ask, TypeOK
  <2>1. client.at = "idle" /\ client.lease # None /\ ~client.starting /\ NoQuestion /\ NoDeath
        /\ manager # "sleeping"
    BY <1>ask, <2>0, Partners, Alive
  <2>2. event \in LeaseEvent /\ (Head(alarms) = 2 => event = "LeaseExpired")
    BY <2>0, EventType
  <2>3. /\ events' = Append(events, event) /\ alarms' = Tail(alarms) /\ watchdog' = "asking"
        /\ UNCHANGED <<manager, inbox, client, timers>>
    BY <1>ask DEF Ask
  <2>4. /\ DOMAIN events = 1..Len(events) /\ Len(events) \in Nat
        /\ DOMAIN events' = 1..(Len(events) + 1)
        /\ \A j \in DOMAIN events : events'[j] = events[j]
        /\ events'[Len(events) + 1] = event
    <3>1. events \in Seq(LeaseEvent \cup {"WatchdogDied", "ManagerStopped"})
      BY <1>type DEF TypeOK
    <3>2. event \in LeaseEvent \cup {"WatchdogDied", "ManagerStopped"}
      BY <2>2
    <3> HIDE DEF event
    <3>3. QED
      BY <2>3, <3>1, <3>2, AppendElements
  <2>5. \A j \in DOMAIN events' : events'[j] \in LeaseEvent => j = Len(events) + 1
    BY <2>1, <2>4 DEF NoQuestion
  <2>6. event # "ManagerStopped"
    BY <2>2 DEF LeaseEvent
  <2> HIDE DEF event
  <2>7. DeathsInv'
    BY <2>1, <2>3, <2>4, <2>6 DEF WatchInv, DeathsInv, NoDeath
  <2>8. PartnersInv' /\ QuestionInv'
    BY <2>1, <2>3, <2>5 DEF PartnersInv, QuestionInv, Awaiting
  <2>9. ExpiryComes'
    <3>1. ExpiryComes
      BY <2>0, <2>1 DEF WatchInv, WatchedInv
    <3>2. CASE timers.next < 3
      BY <2>3, <3>2 DEF ExpiryComes
    <3>3. ASSUME NEW j \in DOMAIN alarms, alarms[j] = 2
          PROVE  ExpiryComes'
      <4>1. CASE j = 1
        <5>1. event = "LeaseExpired"
          BY <2>0, <2>2, <3>3, <4>1, TailElements
        <5>2. QED
          BY <2>4, <5>1 DEF ExpiryComes
      <4>2. CASE j # 1
        <5>1. j - 1 \in DOMAIN alarms' /\ alarms'[j - 1] = 2
          BY <2>0, <2>3, <3>3, <4>2, TailElements
        <5>2. QED
          BY <5>1 DEF ExpiryComes
      <4>3. QED
        BY <4>1, <4>2
    <3>4. ASSUME NEW j \in DOMAIN events, events[j] = "LeaseExpired"
          PROVE  FALSE
      BY <2>1, <3>4 DEF NoQuestion, LeaseEvent
    <3>5. QED
      BY <3>1, <3>2, <3>3, <3>4 DEF ExpiryComes
  <2>10. QED
    BY <2>7, <2>8, <2>9 DEF Watching, WatchedInv
<1>panic. CASE Ask /\ client.at = "dead"
  <2>1. watchdog' = "dead" /\ UNCHANGED <<manager, inbox, client, events>>
    BY <1>panic DEF Ask
  <2>2. client.lease = None
    BY <1>panic, Partners
  <2>3. DeathsInv'
    BY <2>1 DEF WatchInv, DeathsInv
  <2>4. PartnersInv' /\ QuestionInv' /\ WatchedInv'
    BY <1>panic, <2>1, <2>2 DEF WatchInv, PartnersInv, QuestionInv, WatchedInv, Awaiting, Dead
  <2>5. QED
    BY <2>3, <2>4 DEF Watching
<1>resume. CASE Resume /\ ~KillItself
  <2>1. /\ watchdog \in {"renewed", "failed"} /\ watchdog' = "idle"
        /\ UNCHANGED <<manager, inbox, client, events, alarms>>
    BY <1>resume DEF Resume, SetTimers, WaitForNextTimeout
  <2>2. \/ watchdog = "renewed" /\ timers'.next = 0
        \/ watchdog = "failed" /\ timers' = timers
    BY <1>resume DEF Resume, SetTimers, WaitForNextTimeout, NewTimers
  <2>3. client.at = "idle" /\ client.lease # None /\ ~client.starting /\ NoQuestion
        /\ manager # "sleeping"
    BY <2>1, Partners, Alive
  <2>4. DeathsInv'
    BY <2>1, <2>3 DEF WatchInv, DeathsInv
  <2>5. PartnersInv' /\ QuestionInv'
    BY <2>1, <2>3 DEF PartnersInv, QuestionInv, NoQuestion, Awaiting
  <2>6. WatchedInv'
    BY <2>1, <2>2 DEF WatchInv, WatchedInv, ExpiryComes
  <2>7. QED
    BY <2>4, <2>5, <2>6 DEF Watching
<1>kill. CASE Resume /\ KillItself
  <2>1. /\ watchdog = "rejected" /\ watchdog' = "dead" /\ events' = Append(events, "WatchdogDied")
        /\ UNCHANGED <<manager, inbox, client>>
    BY <1>kill DEF Resume, KillItself
  <2>2. client.at = "idle" /\ client.lease = None /\ ~client.starting /\ NoQuestion /\ NoDeath
        /\ manager # "sleeping"
    BY <2>1, Partners, Alive
  <2>3. /\ DOMAIN events = 1..Len(events) /\ Len(events) \in Nat
        /\ DOMAIN events' = 1..(Len(events) + 1)
        /\ \A j \in DOMAIN events : events'[j] = events[j]
        /\ events'[Len(events) + 1] = "WatchdogDied"
    BY <1>type, <2>1, AppendElements DEF TypeOK
  <2>4. NoQuestion'
    BY <2>2, <2>3 DEF NoQuestion, LeaseEvent
  <2>5. DeathsInv'
    BY <2>1, <2>2, <2>3 DEF WatchInv, DeathsInv, NoDeath
  <2>6. PartnersInv' /\ QuestionInv' /\ WatchedInv'
    BY <2>1, <2>2, <2>4 DEF PartnersInv, QuestionInv, WatchedInv, NoQuestion, Awaiting
  <2>7. QED
    BY <2>5, <2>6 DEF Watching
<1>fires. CASE TimerFires
  <2>1. /\ alarms' = Append(alarms, timers.passed - 1) /\ timers'.next = timers.passed
        /\ timers.passed \in 0..3 /\ timers.passed - 1 \in 0..2
        /\ UNCHANGED <<manager, inbox, client, events, watchdog>>
    BY <1>fires, <1>type DEF TimerFires, TypeOK
  <2>2. /\ DOMAIN alarms' = 1..(Len(alarms) + 1) /\ Len(alarms) \in Nat
        /\ alarms'[Len(alarms) + 1] = timers.passed - 1
    BY <1>type, <2>1, AppendElements DEF TypeOK
  <2>3. ExpiryComes'
    BY <2>1, <2>2 DEF ExpiryComes
  <2>4. DeathsInv' /\ PartnersInv' /\ QuestionInv'
    BY <2>1 DEF WatchInv, DeathsInv, PartnersInv, QuestionInv
  <2>5. QED
    BY <2>3, <2>4 DEF Watching, WatchedInv
<1>qed. QED
  BY <1>ask, <1>panic, <1>resume, <1>kill, <1>fires DEF WatchdogStep, Ask

\* A step of the manager keeps the invariant.
LEMMA ManagerWatching ==
  ASSUME WatchInv, ManagerStep
  PROVE  Watching'
<1>type. TypeOK
  BY DEF WatchInv
<1>forward. CASE ForwardReport
  <2>1. /\ inbox # <<>> /\ inbox' = Tail(inbox) /\ manager = "running"
        /\ UNCHANGED <<manager, client, events, watchdog, alarms, timers>>
    BY <1>forward DEF ForwardReport, ReceiveLetter
  <2>2. \A j \in DOMAIN inbox' : j \in Nat /\ j + 1 \in DOMAIN inbox /\ inbox'[j] = inbox[j + 1]
    BY <1>type, <2>1, TailElements DEF TypeOK
  <2>3. \A j \in DOMAIN inbox' : inbox'[j].type = "ClientDied" => client.at = "dead"
    BY <2>2 DEF WatchInv, DeathsInv
  <2>4. \A j, k \in DOMAIN inbox' :
          inbox'[j].type = "ClientDied" /\ inbox'[k].type = "ClientDied" => j = k
    <3>1. SUFFICES ASSUME NEW j \in DOMAIN inbox', NEW k \in DOMAIN inbox',
                          inbox'[j].type = "ClientDied", inbox'[k].type = "ClientDied"
                   PROVE  j = k
      OBVIOUS
    <3>2. j + 1 = k + 1
      BY <2>2, <3>1 DEF WatchInv, DeathsInv
    <3>3. QED
      BY <2>2, <3>2
  <2>5. DeathsInv'
    BY <2>1, <2>3, <2>4 DEF WatchInv, DeathsInv
  <2>6. PartnersInv' /\ QuestionInv' /\ WatchedInv'
    BY <2>1 DEF WatchInv, PartnersInv, QuestionInv, WatchedInv, ExpiryComes
  <2>7. QED
    BY <2>5, <2>6 DEF Watching
<1>died. CASE HandleClientDied
  <2>1. /\ inbox # <<>> /\ Head(inbox).type = "ClientDied" /\ manager = "running"
        /\ \/ manager' = "stopped" /\ inbox' = <<>>
           \/ manager' = "sleeping" /\ inbox' = Tail(inbox)
        /\ UNCHANGED <<client, events, watchdog, alarms, timers>>
    BY <1>died DEF HandleClientDied, ReceiveLetter
  <2>2. client.at = "dead" /\ watchdog = "dead" /\ events = <<>>
        /\ \A j \in DOMAIN inbox : inbox[j].type = "ClientDied" => j = 1
    BY <1>type, <2>1, TailElements DEF TypeOK, WatchInv, DeathsInv, PartnersInv
  <2>3. \A j \in DOMAIN inbox' : inbox'[j].type # "ClientDied"
    <3>1. CASE inbox' = Tail(inbox)
      <4>1. \A j \in DOMAIN inbox' : j \in Nat /\ j + 1 \in DOMAIN inbox
                                     /\ inbox'[j] = inbox[j + 1] /\ j # 0
        BY <1>type, <2>1, <3>1, TailElements DEF TypeOK
      <4>2. SUFFICES ASSUME NEW j \in DOMAIN inbox', inbox'[j].type = "ClientDied"
                     PROVE  FALSE
        OBVIOUS
      <4>3. j + 1 = 1
        BY <2>2, <4>1, <4>2
      <4>4. QED
        BY <4>1, <4>2, <4>3
    <3>2. CASE inbox' = <<>>
      BY <3>2
    <3>3. QED
      BY <2>1, <3>1, <3>2
  <2>4. DeathsInv'
    BY <2>1, <2>2, <2>3 DEF DeathsInv
  <2>5. PartnersInv' /\ QuestionInv' /\ WatchedInv'
    BY <2>1 DEF WatchInv, PartnersInv, QuestionInv, WatchedInv, ExpiryComes
  <2>6. QED
    BY <2>4, <2>5 DEF Watching
<1>stop. CASE HandleStop
  <2>1. /\ manager' = "stopped" /\ inbox' = <<>>
        /\ UNCHANGED <<client, watchdog, alarms, timers>>
    BY <1>stop DEF HandleStop, ReceiveLetter
  <2>2. DeathsInv'
    BY <2>1 DEF DeathsInv
  <2>3. CASE events' = events
    BY <2>1, <2>2, <2>3 DEF Watching, WatchInv, PartnersInv, QuestionInv, WatchedInv, ExpiryComes
  <2>4. CASE client.at # "dead" /\ events' = Append(events, "ManagerStopped")
    <3>1. /\ DOMAIN events = 1..Len(events) /\ Len(events) \in Nat
          /\ DOMAIN events' = 1..(Len(events) + 1)
          /\ \A j \in DOMAIN events : events'[j] = events[j]
          /\ events'[Len(events) + 1] = "ManagerStopped"
      BY <1>type, <2>4, AppendElements DEF TypeOK
    <3>2. \A j \in DOMAIN events' :
            events'[j] \in LeaseEvent => j \in DOMAIN events /\ events'[j] = events[j]
      BY <3>1 DEF LeaseEvent
    <3>3. PartnersInv'
      BY <2>1, <2>4 DEF WatchInv, PartnersInv
    <3>4. QuestionInv'
      BY <2>1, <3>2 DEF WatchInv, QuestionInv
    <3>5. ExpiryComes => ExpiryComes'
      BY <2>1, <3>1 DEF ExpiryComes
    <3>6. QED
      BY <2>1, <2>2, <3>3, <3>4, <3>5 DEF Watching, WatchInv, WatchedInv
  <2>5. QED
    BY <1>stop, <2>3, <2>4 DEF HandleStop
<1>restart. CASE RestartClient
  <2>1. /\ manager = "sleeping" /\ client.at = "dead" /\ watchdog = "dead" /\ events = <<>>
        /\ NoDeath /\ client.lease = None
        /\ UNCHANGED <<events, watchdog, alarms, timers>>
    BY <1>restart, Partners DEF RestartClient, WatchInv, DeathsInv, PartnersInv, NoDeath
  <2>2. CASE manager' = "running" /\ client' = Starting /\ UNCHANGED inbox
    <3>1. DeathsInv'
      BY <2>1, <2>2 DEF DeathsInv, NoDeath, Starting
    <3>2. PartnersInv' /\ QuestionInv' /\ WatchedInv'
      BY <2>1, <2>2 DEF PartnersInv, QuestionInv, WatchedInv, Starting, Awaiting
    <3>3. QED
      BY <3>1, <3>2 DEF Watching
  <2>3. CASE manager' = "stopped" /\ inbox' = <<>> /\ UNCHANGED client
    BY <2>1, <2>3 DEF Watching, WatchInv, DeathsInv, PartnersInv, QuestionInv, WatchedInv
  <2>4. QED
    BY <1>restart, <2>2, <2>3 DEF RestartClient
<1>qed. QED
  BY <1>forward, <1>died, <1>stop, <1>restart DEF ManagerStep

\* NetworkDaemon, the network and time keep the invariant.
LEMMA EnvironmentWatching ==
  ASSUME WatchInv, Environment
  PROVE  Watching'
<1>type. TypeOK
  BY DEF WatchInv
<1>1. CASE ServerAnswers
  BY <1>1, SameWatching DEF ServerAnswers, actorVars
<1>2. CASE BindingLapses
  BY <1>2, SameWatching DEF BindingLapses, actorVars
<1>3. CASE TimePasses
  <2>1. timers'.next = timers.next
    BY <1>3, <1>type DEF TimePasses, TypeOK
  <2>2. QED
    BY <1>3, <2>1, SameWatching DEF TimePasses
<1>4. CASE StopManager
  <2>1. /\ inbox' = Append(inbox, [type |-> "Stop"])
        /\ UNCHANGED <<manager, client, events, watchdog, alarms, timers>>
    BY <1>4 DEF StopManager
  <2>2. \A j \in DOMAIN inbox' :
          inbox'[j].type = "ClientDied" => j \in DOMAIN inbox /\ inbox'[j] = inbox[j]
    BY <1>type, <2>1, LetterType, AppendElements DEF TypeOK
  <2>3. DeathsInv'
    BY <2>1, <2>2 DEF WatchInv, DeathsInv
  <2>4. PartnersInv' /\ QuestionInv' /\ WatchedInv'
    BY <2>1 DEF WatchInv, PartnersInv, QuestionInv, WatchedInv, ExpiryComes
  <2>5. QED
    BY <2>3, <2>4 DEF Watching
<1>5. QED
  BY <1>1, <1>2, <1>3, <1>4 DEF Environment

\* WatchInv holds in every state.
LEMMA AlwaysWatched == Spec => []WatchInv
<1>1. Init => WatchInv
  <2>1. Init => TypeOK
    BY InitType
  <2>2. Init => DeathsInv /\ PartnersInv /\ QuestionInv /\ WatchedInv
    BY DEF Init, DeathsInv, PartnersInv, QuestionInv, WatchedInv, Starting, Awaiting
  <2>3. QED
    BY <2>1, <2>2 DEF WatchInv
<1>2. WatchInv /\ [Next]_vars => WatchInv'
  <2> SUFFICES ASSUME WatchInv, [Next]_vars
               PROVE  WatchInv'
    OBVIOUS
  <2>1. TypeOK'
    BY TypeStep DEF WatchInv
  <2>2. Watching'
    <3>1. CASE UNCHANGED vars
      <4>1. UNCHANGED <<manager, client, events, watchdog, alarms, inbox>> /\ UNCHANGED timers
        BY <3>1 DEF vars, actorVars
      <4>2. QED
        BY <4>1, SameWatching
    <3>2. CASE ClientStep
      BY <3>2, ClientWatching
    <3>3. CASE WatchdogStep \/ TimerFires
      BY <3>3, WatchdogWatching
    <3>4. CASE ManagerStep
      BY <3>4, ManagerWatching
    <3>5. CASE Environment
      BY <3>5, EnvironmentWatching
    <3>6. QED
      BY <3>1, <3>2, <3>3, <3>4, <3>5 DEF Next
  <2>3. QED
    BY <2>1, <2>2 DEF Watching, WatchInv
<1>3. QED
  BY <1>1, <1>2, PTL DEF Spec

\* The client never waits with a lease that nobody will end (lease.rs, the timer
\* stream and the handler).
THEOREM LeaseAlwaysWatched == Spec => []LeaseIsWatched
<1>1. WatchInv => LeaseIsWatched
  BY DEF WatchInv, PartnersInv, WatchedInv, ExpiryComes, LeaseIsWatched
<1>2. QED
  BY <1>1, AlwaysWatched, PTL

\* renew and rebind never unwrap a lease that is gone (client.rs:361 and 481).
THEOREM RenewalAlwaysHasLease == Spec => []RenewalHasLease
<1>1. WatchInv => RenewalHasLease
  <2>1. SUFFICES ASSUME WatchInv, client.at = "idle", events # <<>>,
                        Head(events) \in {"Renewal", "Rebinding"}
                 PROVE  client.lease # None
    BY DEF RenewalHasLease
  <2>2. 1 \in DOMAIN events /\ events[1] \in LeaseEvent
    BY <2>1, TailElements DEF WatchInv, TypeOK, LeaseEvent
  <2>3. watchdog = "asking"
    BY <2>1, <2>2 DEF WatchInv, QuestionInv
  <2>4. QED
    BY <2>1, <2>3, Partners
<1>2. QED
  BY <1>1, AlwaysWatched, PTL

-------------------------------------------------------------------------------
(***************************************************************************)
(* The reports of the client form a chain.                                 *)
(***************************************************************************)

\* Where the reports in the mailbox lead: the lease the next report has to name as
\* old, the lease after each letter, and last the lease a client that lives holds.
Links(held) ==
  /\ held[0] = (IF restarted THEN None ELSE told)
  /\ client.at # "dead" => held[Len(inbox)] = client.lease
  /\ \A j \in 1..Len(inbox) :
       IF inbox[j].type = "Report"
       THEN /\ inbox[j].old = held[j - 1]
            /\ inbox[j].old # None \/ inbox[j].new # None
            /\ held[j] = inbox[j].new
       ELSE held[j] = held[j - 1]

ChainInv == manager # "stopped" => \E held \in [0..Len(inbox) -> Lease \cup {None}] : Links(held)

\* A client has said all it will ever say when its death is reported, and one that
\* was started again and holds a lease has said so.
SaidInv ==
  manager # "stopped" =>
    /\ \A j, k \in DOMAIN inbox :
         inbox[j].type = "ClientDied" /\ j < k => inbox[k].type # "Report"
    /\ manager = "sleeping" => \A j \in DOMAIN inbox : inbox[j].type # "Report"
    /\ restarted /\ client.at # "dead" /\ ~client.starting =>
         \E j \in DOMAIN inbox : inbox[j].type = "Report"

\* What the client does to its lease when it reports nothing.
KeepsQuiet ==
  \/ client'.at = "dead"
  \/ client.at # "dead" /\ client'.lease = client.lease /\ client'.starting = client.starting

\* Nothing is reported, and the client holds what it held.
LEMMA ChainSame ==
  ASSUME ChainInv, SaidInv, UNCHANGED <<inbox, told, restarted, manager>>, KeepsQuiet
  PROVE  ChainInv' /\ SaidInv'
BY DEF ChainInv, SaidInv, Links, KeepsQuiet

\* A letter is added: a report of what the client holds now, or another letter.
LEMMA ChainAppend ==
  ASSUME TypeOK, ChainInv, manager # "stopped", NEW letter \in Letter,
         inbox' = Append(inbox, letter), UNCHANGED <<told, restarted>>,
         client'.lease \in Lease \cup {None},
         IF letter.type = "Report"
         THEN /\ client.at # "dead"
              /\ letter.old = client.lease /\ letter.new = client'.lease
              /\ letter.old # None \/ letter.new # None
         ELSE KeepsQuiet
  PROVE  ChainInv'
<1> DEFINE n == Len(inbox)
           first == IF restarted THEN None ELSE told
<1>1. /\ n \in Nat /\ Len(inbox') = n + 1
      /\ \A j \in 1..n : inbox'[j] = inbox[j]
      /\ inbox'[n + 1] = letter
  BY AppendElements DEF TypeOK
<1>2. PICK held \in [0..n -> Lease \cup {None}] : Links(held)
  BY DEF ChainInv
<1> DEFINE last == IF letter.type = "Report" THEN letter.new ELSE held[n]
           more == [j \in 0..(n + 1) |-> IF j = n + 1 THEN last ELSE held[j]]
<1> HIDE DEF n
<1>3. last \in Lease \cup {None}
  BY <1>1, <1>2
<1>4. more \in [0..(n + 1) -> Lease \cup {None}]
  BY <1>1, <1>2, <1>3
<1>5. /\ more[0] = held[0] /\ more[n] = held[n] /\ more[n + 1] = last
      /\ \A j \in 1..n : more[j] = held[j] /\ more[j - 1] = held[j - 1]
  BY <1>1
<1>6. held[0] = first /\ (client.at # "dead" => held[n] = client.lease)
  BY <1>2 DEF Links, n
<1>7. \A j \in 1..n :
        IF inbox[j].type = "Report"
        THEN /\ inbox[j].old = held[j - 1]
             /\ inbox[j].old # None \/ inbox[j].new # None
             /\ held[j] = inbox[j].new
        ELSE held[j] = held[j - 1]
  BY <1>2 DEF Links, n
<1> HIDE DEF more, last
<1>8. client'.at # "dead" => last = client'.lease
  BY <1>6 DEF last, KeepsQuiet
<1>9. IF letter.type = "Report"
      THEN /\ letter.old = held[n]
           /\ letter.old # None \/ letter.new # None
           /\ last = letter.new
      ELSE last = held[n]
  BY <1>6 DEF last
<1>10. \A j \in 1..(n + 1) :
         IF inbox'[j].type = "Report"
         THEN /\ inbox'[j].old = more[j - 1]
              /\ inbox'[j].old # None \/ inbox'[j].new # None
              /\ more[j] = inbox'[j].new
         ELSE more[j] = more[j - 1]
  <2> SUFFICES ASSUME NEW j \in 1..(n + 1)
               PROVE  IF inbox'[j].type = "Report"
                      THEN /\ inbox'[j].old = more[j - 1]
                           /\ inbox'[j].old # None \/ inbox'[j].new # None
                           /\ more[j] = inbox'[j].new
                      ELSE more[j] = more[j - 1]
    OBVIOUS
  <2>1. CASE j = n + 1
    <3>1. j - 1 = n
      BY <1>1, <2>1
    <3>2. QED
      BY <1>1, <1>5, <1>9, <2>1, <3>1
  <2>2. CASE j # n + 1
    <3>1. j \in 1..n
      BY <1>1, <2>2
    <3>2. QED
      BY <1>1, <1>5, <1>7, <3>1
  <2>3. QED
    BY <2>1, <2>2
<1>11. PICK f \in [0..(n + 1) -> Lease \cup {None}] :
         /\ f[0] = first
         /\ client'.at # "dead" => f[n + 1] = client'.lease
         /\ \A j \in 1..(n + 1) :
              IF inbox'[j].type = "Report"
              THEN /\ inbox'[j].old = f[j - 1]
                   /\ inbox'[j].old # None \/ inbox'[j].new # None
                   /\ f[j] = inbox'[j].new
              ELSE f[j] = f[j - 1]
  BY <1>4, <1>5, <1>6, <1>8, <1>10
<1>12. Links(f)'
  BY <1>1, <1>11 DEF Links
<1>13. QED
  BY <1>1, <1>11, <1>12 DEF ChainInv

\* Only a client that lives reports, and its first report ends its restart.
LEMMA SaidAppend ==
  ASSUME WatchInv, SaidInv, manager # "stopped", NEW letter \in Letter,
         inbox' = Append(inbox, letter), UNCHANGED <<manager, restarted>>,
         IF letter.type = "Report" THEN client.at # "dead" ELSE KeepsQuiet
  PROVE  SaidInv'
<1>1. /\ Len(inbox) \in Nat /\ DOMAIN inbox = 1..Len(inbox)
      /\ DOMAIN inbox' = 1..(Len(inbox) + 1)
      /\ \A j \in DOMAIN inbox : inbox'[j] = inbox[j]
      /\ inbox'[Len(inbox) + 1] = letter
  BY AppendElements DEF WatchInv, TypeOK
<1>2. CASE letter.type = "Report"
  <2>1. NoDeath /\ manager # "sleeping"
    BY <1>2, Alive
  <2>2. \A j, k \in DOMAIN inbox' : inbox'[j].type = "ClientDied" /\ j < k => inbox'[k].type # "Report"
    BY <1>1, <1>2, <2>1 DEF NoDeath
  <2>3. \E j \in DOMAIN inbox' : inbox'[j].type = "Report"
    BY <1>1, <1>2
  <2>4. QED
    BY <2>1, <2>2, <2>3 DEF SaidInv
<1>3. CASE letter.type # "Report"
  <2>1. \A j \in DOMAIN inbox' : inbox'[j].type = "Report" => j \in DOMAIN inbox
    BY <1>1, <1>3
  <2>2. \A j, k \in DOMAIN inbox' : inbox'[j].type = "ClientDied" /\ j < k => inbox'[k].type # "Report"
    <3>1. SUFFICES ASSUME NEW j \in DOMAIN inbox', NEW k \in DOMAIN inbox, j < k,
                          inbox'[j].type = "ClientDied", inbox[k].type = "Report"
                   PROVE  FALSE
      BY <1>1, <2>1
    <3>2. j \in DOMAIN inbox
      BY <1>1, <3>1
    <3>3. QED
      BY <1>1, <3>1, <3>2 DEF SaidInv
  <2>3. manager' = "sleeping" => \A j \in DOMAIN inbox' : inbox'[j].type # "Report"
    BY <1>1, <2>1 DEF SaidInv
  <2>4. restarted' /\ client'.at # "dead" /\ ~client'.starting =>
          \E j \in DOMAIN inbox' : inbox'[j].type = "Report"
    BY <1>1, <1>3 DEF SaidInv, KeepsQuiet
  <2>5. QED
    BY <2>2, <2>3, <2>4 DEF SaidInv
<1>4. QED
  BY <1>2, <1>3

\* The manager takes a letter, and tells of the new lease if it is a report.
LEMMA ChainTail ==
  ASSUME TypeOK, ChainInv, manager # "stopped", inbox # <<>>, inbox' = Tail(inbox),
         IF Head(inbox).type = "Report"
         THEN told' = Head(inbox).new /\ restarted' = FALSE
         ELSE UNCHANGED <<told, restarted>>,
         client' = client
  PROVE  ChainInv'
<1> DEFINE n == Len(inbox)
           first == IF restarted THEN None ELSE told
<1>1. /\ n \in Nat \ {0} /\ Len(inbox') = n - 1
      /\ \A j \in 1..(n - 1) : inbox'[j] = inbox[j + 1]
      /\ Head(inbox) = inbox[1]
  BY DEF TypeOK
<1>2. PICK held \in [0..n -> Lease \cup {None}] : Links(held)
  BY DEF ChainInv
<1> DEFINE less == [j \in 0..(n - 1) |-> held[j + 1]]
<1> HIDE DEF n
<1>3. /\ held[0] = first
      /\ client.at # "dead" => held[n] = client.lease
      /\ \A j \in 1..n :
           IF inbox[j].type = "Report"
           THEN /\ inbox[j].old = held[j - 1]
                /\ inbox[j].old # None \/ inbox[j].new # None
                /\ held[j] = inbox[j].new
           ELSE held[j] = held[j - 1]
  BY <1>2 DEF Links, n
<1>4. /\ less \in [0..(n - 1) -> Lease \cup {None}]
      /\ less[0] = held[1] /\ less[n - 1] = held[n]
      /\ \A j \in 1..(n - 1) : less[j] = held[j + 1] /\ less[j - 1] = held[j]
  BY <1>1
<1> HIDE DEF less
<1>5. held[1] = (IF restarted' THEN None ELSE told')
  <2>1. 1 \in 1..n /\ 1 - 1 = 0
    BY <1>1
  <2>2. IF inbox[1].type = "Report" THEN held[1] = inbox[1].new ELSE held[1] = held[0]
    BY <1>3, <2>1
  <2> QED
    BY <1>1, <1>3, <2>2
<1>6. \A j \in 1..(n - 1) :
        IF inbox'[j].type = "Report"
        THEN /\ inbox'[j].old = less[j - 1]
             /\ inbox'[j].old # None \/ inbox'[j].new # None
             /\ less[j] = inbox'[j].new
        ELSE less[j] = less[j - 1]
  <2> SUFFICES ASSUME NEW j \in 1..(n - 1)
               PROVE  IF inbox'[j].type = "Report"
                      THEN /\ inbox'[j].old = less[j - 1]
                           /\ inbox'[j].old # None \/ inbox'[j].new # None
                           /\ less[j] = inbox'[j].new
                      ELSE less[j] = less[j - 1]
    OBVIOUS
  <2>1. j + 1 \in 1..n /\ (j + 1) - 1 = j
    BY <1>1
  <2>2. inbox'[j] = inbox[j + 1] /\ less[j] = held[j + 1] /\ less[j - 1] = held[j]
    BY <1>1, <1>4
  <2>3. IF inbox[j + 1].type = "Report"
        THEN /\ inbox[j + 1].old = held[j]
             /\ inbox[j + 1].old # None \/ inbox[j + 1].new # None
             /\ held[j + 1] = inbox[j + 1].new
        ELSE held[j + 1] = held[j]
    BY <1>3, <2>1
  <2>4. QED
    BY <2>2, <2>3
<1>7. PICK f \in [0..(n - 1) -> Lease \cup {None}] :
        /\ f[0] = (IF restarted' THEN None ELSE told')
        /\ client.at # "dead" => f[n - 1] = client.lease
        /\ \A j \in 1..(n - 1) :
             IF inbox'[j].type = "Report"
             THEN /\ inbox'[j].old = f[j - 1]
                  /\ inbox'[j].old # None \/ inbox'[j].new # None
                  /\ f[j] = inbox'[j].new
             ELSE f[j] = f[j - 1]
  BY <1>3, <1>4, <1>5, <1>6
<1>8. Links(f)'
  BY <1>1, <1>7 DEF Links
<1>9. QED
  BY <1>1, <1>7, <1>8 DEF ChainInv

\* The letter taken is a report, or the report of a death, after which none comes.
LEMMA SaidTail ==
  ASSUME TypeOK, SaidInv, manager = "running", inbox # <<>>, inbox' = Tail(inbox), client' = client,
         \/ Head(inbox).type = "Report" /\ restarted' = FALSE /\ manager' = manager
         \/ Head(inbox).type = "ClientDied" /\ UNCHANGED restarted /\ manager' = "sleeping"
  PROVE  SaidInv'
<1>1. /\ Head(inbox) = inbox[1] /\ 1 \in DOMAIN inbox
      /\ \A j \in DOMAIN inbox' : j \in Nat /\ j # 0 /\ j + 1 \in DOMAIN inbox /\ inbox'[j] = inbox[j + 1]
      /\ \A j \in DOMAIN inbox : j # 1 => j - 1 \in DOMAIN inbox' /\ inbox'[j - 1] = inbox[j]
  BY TailElements DEF TypeOK
<1>2. \A j, k \in DOMAIN inbox' : inbox'[j].type = "ClientDied" /\ j < k => inbox'[k].type # "Report"
  BY <1>1 DEF SaidInv
<1>3. manager' = "sleeping" => \A j \in DOMAIN inbox' : inbox'[j].type # "Report"
  <2>1. SUFFICES ASSUME manager' = "sleeping", NEW j \in DOMAIN inbox'
                 PROVE  inbox'[j].type # "Report"
    OBVIOUS
  <2>2. inbox[1].type = "ClientDied" /\ j + 1 \in DOMAIN inbox /\ 1 < j + 1
    BY <1>1, <2>1
  <2>3. inbox[j + 1].type # "Report"
    BY <1>1, <2>2 DEF SaidInv
  <2>4. QED
    BY <1>1, <2>1, <2>3
<1>4. restarted' /\ client'.at # "dead" /\ ~client'.starting =>
        \E j \in DOMAIN inbox' : inbox'[j].type = "Report"
  <2>1. SUFFICES ASSUME restarted, client.at # "dead", ~client.starting,
                        inbox[1].type = "ClientDied"
                 PROVE  \E j \in DOMAIN inbox' : inbox'[j].type = "Report"
    BY <1>1
  <2>2. PICK j \in DOMAIN inbox : inbox[j].type = "Report"
    BY <2>1 DEF SaidInv
  <2>3. j # 1
    BY <2>1, <2>2
  <2>4. QED
    BY <1>1, <2>2, <2>3
<1>5. QED
  BY <1>2, <1>3, <1>4 DEF SaidInv

\* The death of the client is reported, if its manager runs.
LEMMA ChainDie ==
  ASSUME WatchInv, ChainInv, SaidInv, NEW reason, Die(reason), UNCHANGED <<manager, told, restarted>>
  PROVE  ChainInv' /\ SaidInv'
<1>1. client'.lease = None /\ client'.at = "dead" /\ TypeOK
  BY DEF Die, Dead, WatchInv
<1>2. CASE manager = "stopped"
  BY <1>2 DEF ChainInv, SaidInv
<1>3. CASE manager # "stopped"
  <2>1. [type |-> "ClientDied"] \in Letter /\ inbox' = Append(inbox, [type |-> "ClientDied"])
    BY <1>3, LetterType DEF Die
  <2>2. QED
    BY <1>1, <1>3, <2>1, ChainAppend, SaidAppend DEF KeepsQuiet
<1>4. QED
  BY <1>2, <1>3

\* The client tells of the lease that it holds after the step.
LEMMA ChainTell ==
  ASSUME WatchInv, ChainInv, SaidInv, UNCHANGED <<manager, told, restarted>>, client.at # "dead",
         client'.lease \in Lease \cup {None},
         client.lease # None \/ client'.lease # None,
         Tell(client.lease, client'.lease)
  PROVE  ChainInv' /\ SaidInv'
<1>1. CASE manager = "stopped"
  BY <1>1 DEF ChainInv, SaidInv
<1>2. CASE manager # "stopped"
  <2> DEFINE letter == Report(client.lease, client'.lease)
  <2>1. letter \in Letter /\ inbox' = Append(inbox, letter) /\ TypeOK
    BY <1>2, LetterType DEF Tell, TypeOK, Client, WatchInv
  <2>2. letter.type = "Report" /\ letter.old = client.lease /\ letter.new = client'.lease
    BY DEF Report
  <2> HIDE DEF letter
  <2>3. QED
    BY <1>2, <2>1, <2>2, ChainAppend, SaidAppend
<1>3. QED
  BY <1>1, <1>2

\* A failed request ends the client that starts, or takes the lease of another.
LEMMA ChainFail ==
  ASSUME WatchInv, ChainInv, SaidInv, client.at \in {"offer", "ack"}, RequestFails,
         UNCHANGED <<manager, told, restarted>>
  PROVE  ChainInv' /\ SaidInv'
<1>type. TypeOK
  BY DEF WatchInv
<1>1. CASE client.starting
  BY <1>1, ChainDie DEF RequestFails
<1>2. CASE ~client.starting
  <2>1. LoseLease /\ client.lease # None
    BY <1>2 DEF RequestFails, WatchInv, PartnersInv, Awaiting
  <2>2. client'.lease = None /\ Tell(client.lease, client'.lease)
    BY <1>type, <2>1 DEF LoseLease, TypeOK, Client
  <2>3. QED
    BY <2>1, <2>2, ChainTell
<1>3. QED
  BY <1>1, <1>2

\* An ACK that is taken carries a lease, and the client then holds one.
LEMMA TakeAckLease ==
  ASSUME WatchInv, TakeAck
  PROVE  \E lease \in AckedLease : lease \in Lease /\ Obtain(lease)
<1>1. PICK lease \in AckedLease : Obtain(lease)
  BY DEF TakeAck
<1>2. TypeOK /\ Read("Ack")
  BY DEF TakeAck, WatchInv
<1>3. Head(answers).lease \in Lease
  BY <1>2, ReadType
<1>4. CASE client.at = "renew"
  <2>1. client.lease \in Lease
    BY <1>2, <1>4 DEF WatchInv, PartnersInv, TypeOK, Client, Awaiting
  <2>2. QED
    BY <1>1, <1>3, <1>4, <2>1 DEF AckedLease
<1>5. CASE client.at # "renew"
  BY <1>1, <1>3, <1>5 DEF AckedLease
<1>6. QED
  BY <1>4, <1>5

\* Every step keeps the chain.
LEMMA ChainStep ==
  ASSUME WatchInv, ChainInv, SaidInv, [Next]_vars
  PROVE  ChainInv' /\ SaidInv'
<1> USE DEF heardVars
<1>type. TypeOK
  BY DEF WatchInv
<1>1. CASE TakeAck
  <2>1. PICK lease \in AckedLease : lease \in Lease /\ Obtain(lease)
    BY <1>1, TakeAckLease
  <2>2. client'.lease = lease /\ lease # None /\ Tell(client.lease, client'.lease)
    BY <2>1, LeaseAssumption DEF Obtain
  <2>3. client.at # "dead"
    BY <1>1 DEF TakeAck, Read
  <2>4. QED
    BY <1>1, <2>1, <2>2, <2>3, ChainTell DEF TakeAck
<1>2. CASE CrashOnAck \/ HandleWatchdogDied \/ HandleManagerStopped
  BY <1>2, ChainDie DEF CrashOnAck, HandleWatchdogDied, HandleManagerStopped
<1>3. CASE TakeNak
  <2>1. CASE Discover /\ UNCHANGED <<inbox, events, watchdog, alarms, timers>>
    <3>1. client.at # "dead"
      BY <1>3 DEF TakeNak, Read
    <3>2. KeepsQuiet
      BY <1>type, <2>1, <3>1 DEF Discover, TypeOK, Client, KeepsQuiet
    <3>3. QED
      BY <1>3, <2>1, <3>2, ChainSame DEF TakeNak
  <2>2. CASE Die("Panicked")
    BY <1>3, <2>2, ChainDie DEF TakeNak
  <2>3. QED
    BY <1>3, <2>1, <2>2 DEF TakeNak
<1>4. CASE TimeOut
  <2>1. CASE KeepLease
    <3>1. client.at # "dead"
      BY <1>4 DEF TimeOut
    <3>2. KeepsQuiet
      BY <1>type, <2>1, <3>1 DEF KeepLease, TypeOK, Client, KeepsQuiet
    <3>3. QED
      BY <1>4, <2>1, <3>2, ChainSame DEF TimeOut, KeepLease
  <2>2. CASE client.at \in {"offer", "ack"} /\ RequestFails
    BY <1>4, <2>2, ChainFail DEF TimeOut
  <2>3. QED
    BY <1>4, <2>1, <2>2 DEF TimeOut
<1>7. CASE ForwardReport
  <2>1. ChainInv'
    BY <1>7, <1>type, ChainTail DEF ForwardReport, ReceiveLetter
  <2>2. SaidInv'
    BY <1>7, <1>type, SaidTail DEF ForwardReport, ReceiveLetter
  <2>3. QED
    BY <2>1, <2>2
<1>8. CASE HandleClientDied
  <2>1. CASE stopping
    BY <1>8, <2>1 DEF HandleClientDied, ChainInv, SaidInv
  <2>2. CASE ~stopping
    <3>1. ChainInv'
      BY <1>8, <1>type, <2>2, ChainTail DEF HandleClientDied, ReceiveLetter
    <3>2. SaidInv'
      BY <1>8, <1>type, <2>2, SaidTail DEF HandleClientDied, ReceiveLetter
    <3>3. QED
      BY <3>1, <3>2
  <2>3. QED
    BY <2>1, <2>2
<1>9. CASE HandleStop
  BY <1>9 DEF HandleStop, ChainInv, SaidInv
<1>10. CASE RestartClient
  <2>1. CASE manager' = "stopped"
    BY <2>1 DEF ChainInv, SaidInv
  <2>2. CASE client' = Starting /\ restarted' = TRUE /\ manager' = "running" /\ UNCHANGED inbox
    <3>1. manager = "sleeping" /\ \A j \in DOMAIN inbox : inbox[j].type # "Report"
      BY <1>10 DEF RestartClient, SaidInv
    <3>2. /\ DOMAIN inbox = 1..Len(inbox) /\ Len(inbox) \in Nat
          /\ client'.lease = None /\ client'.starting
      BY <1>type, <2>2 DEF Starting, TypeOK
    <3>3. SaidInv'
      BY <2>2, <3>1, <3>2 DEF SaidInv
    <3>4. [j \in 0..Len(inbox) |-> None] \in [0..Len(inbox) -> Lease \cup {None}]
      OBVIOUS
    <3>5. Links([j \in 0..Len(inbox) |-> None])'
      BY <2>2, <3>1, <3>2 DEF Links
    <3>6. ChainInv'
      BY <2>2, <3>4, <3>5 DEF ChainInv
    <3>7. QED
      BY <3>3, <3>6
  <2>3. QED
    BY <1>10, <2>1, <2>2 DEF RestartClient
<1>11. CASE StopManager
  <2>2. KeepsQuiet
    BY <1>11 DEF StopManager, KeepsQuiet
  <2>3. [type |-> "Stop"] \in Letter
    BY LetterType
  <2>4. ChainInv'
    BY <1>11, <1>type, <2>2, <2>3, ChainAppend DEF StopManager, TypeOK, Client
  <2>5. SaidInv'
    BY <1>11, <2>2, <2>3, SaidAppend DEF StopManager
  <2>6. QED
    BY <2>4, <2>5
<1>12. CASE TakeOffer \/ HandleRenewal \/ HandleExpired
  <2>1. KeepsQuiet
    BY <1>12, <1>type DEF TakeOffer, HandleRenewal, HandleExpired, Discover, TypeOK, Client,
       KeepsQuiet, Read, Receive
  <2>2. QED
    BY <1>12, <2>1, ChainSame DEF TakeOffer, HandleRenewal, HandleExpired
<1>13. CASE \/ SkipAnswer \/ Ask \/ Resume \/ TimerFires \/ ServerAnswers \/ BindingLapses
            \/ TimePasses \/ UNCHANGED vars
  <2>1. UNCHANGED <<inbox, told, restarted, client, manager>>
    BY <1>13 DEF SkipAnswer, Ask, Resume, TimerFires, ServerAnswers, BindingLapses, TimePasses,
       actorVars, vars
  <2>2. QED
    BY <2>1, ChainSame DEF KeepsQuiet
<1>14. QED
  BY <1>1, <1>2, <1>3, <1>4, <1>7, <1>8, <1>9, <1>10, <1>11, <1>12, <1>13
  DEF Next, ClientStep, WatchdogStep, ManagerStep, Environment

ReportsInv == WatchInv /\ ChainInv /\ SaidInv

\* The reports form a chain in every state.
LEMMA AlwaysChained == Spec => []ReportsInv
<1>1. Init => ChainInv /\ SaidInv
  <2>1. Init => SaidInv
    BY DEF Init, SaidInv
  <2>2. Init => ChainInv
    <3>1. SUFFICES ASSUME Init
                   PROVE  \E held \in [0..Len(inbox) -> Lease \cup {None}] : Links(held)
      BY DEF ChainInv
    <3>2. Len(inbox) = 0
      BY <3>1 DEF Init
    <3>3. [j \in 0..0 |-> None] \in [0..Len(inbox) -> Lease \cup {None}]
      BY <3>2
    <3>4. Links([j \in 0..0 |-> None])
      BY <3>1, <3>2 DEF Links, Init, Starting
    <3>5. QED
      BY <3>3, <3>4
  <2>3. QED
    BY <2>1, <2>2
<1>2. WatchInv /\ WatchInv' /\ ChainInv /\ SaidInv /\ [Next]_vars => ChainInv' /\ SaidInv'
  BY ChainStep
<1>3. QED
  BY <1>1, <1>2, AlwaysWatched, PTL DEF Spec, ReportsInv

\* When its mailbox is empty, the manager has passed on what its client holds, also
\* when it is not the manager's first client (client.rs, on_start and the handler;
\* mod.rs).
THEOREM ToldAlwaysHeld == Spec => []ToldIsHeld
<1>1. ReportsInv => ToldIsHeld
  <2>1. SUFFICES ASSUME ReportsInv, manager # "stopped", inbox = <<>>, client.at # "dead",
                        ~client.starting
                 PROVE  told = client.lease
    BY DEF ToldIsHeld
  <2>2. PICK held \in [0..Len(inbox) -> Lease \cup {None}] : Links(held)
    BY <2>1 DEF ReportsInv, ChainInv
  <2>3. Len(inbox) = 0 /\ DOMAIN inbox = {}
    BY <2>1
  <2>4. ~restarted
    BY <2>1, <2>3 DEF ReportsInv, SaidInv, WatchInv, TypeOK
  <2>5. QED
    BY <2>1, <2>2, <2>3, <2>4 DEF Links
<1>2. QED
  BY <1>1, AlwaysChained, PTL

\* Each report names as old what was reported last, but for the first one of a
\* client that was started again: the three actors implement the chain of reports
\* (interface/mod.rs, DhcpV4Set).
THEOREM ReportsAlwaysChain == Spec => ReportsChain
<1>1. Init => Reports!Init
  BY DEF Init, Reports!Init
<1>2. ReportsInv /\ [Next]_vars => [Reports!Next]_<<told, report, restarted>>
  <2> SUFFICES ASSUME ReportsInv, [Next]_vars
               PROVE  [Reports!Next]_<<told, report, restarted>>
    OBVIOUS
  <2>1. CASE ForwardReport
    <3> DEFINE letter == Head(inbox)
    <3>1. /\ manager # "stopped" /\ inbox # <<>> /\ letter.type = "Report"
          /\ told' = letter.new /\ report' = [old |-> letter.old, new |-> letter.new]
          /\ restarted' = FALSE
      BY <2>1 DEF ForwardReport, ReceiveLetter
    <3>2. letter \in Letter /\ letter = inbox[1] /\ 1 \in 1..Len(inbox)
      BY <3>1, TailElements DEF ReportsInv, WatchInv, TypeOK
    <3>3. letter.old \in Lease \cup {None} /\ letter.new \in Lease \cup {None}
      BY <3>1, <3>2 DEF Letter
    <3>4. PICK held \in [0..Len(inbox) -> Lease \cup {None}] : Links(held)
      BY <3>1 DEF ReportsInv, ChainInv
    <3>5. /\ letter.old = (IF restarted THEN None ELSE told)
          /\ letter.old # None \/ letter.new # None
      BY <3>1, <3>2, <3>4 DEF Links
    <3>6. Reports!Report(letter.old, letter.new)
      BY <3>1, <3>5 DEF Reports!Report
    <3>7. QED
      BY <3>3, <3>6 DEF Reports!Next
  <2>2. CASE RestartClient
    <3>1. Reports!Forget \/ UNCHANGED <<told, report, restarted>>
      BY <2>2 DEF RestartClient, Reports!Forget
    <3>2. QED
      BY <3>1 DEF Reports!Next
  <2>3. CASE ~ForwardReport /\ ~RestartClient
    <3>1. UNCHANGED <<told, report, restarted>>
      BY <2>3 DEF Next, ClientStep, WatchdogStep, ManagerStep, Environment, vars, heardVars,
         SkipAnswer, TakeOffer, TakeAck, CrashOnAck, TakeNak, TimeOut, HandleRenewal,
         HandleExpired, HandleWatchdogDied, HandleManagerStopped, Ask, Resume, TimerFires,
         HandleClientDied, HandleStop, ServerAnswers, BindingLapses, TimePasses,
         StopManager
    <3>2. QED
      BY <3>1
  <2>4. QED
    BY <2>1, <2>2, <2>3
<1>3. QED
  BY <1>1, <1>2, AlwaysChained, PTL DEF Spec, ReportsChain, Reports!Spec

-------------------------------------------------------------------------------
(***************************************************************************)
(* Transactions: whose answers the socket holds, and what is bound.        *)
(***************************************************************************)
Current(j) == answers[j].xid = xid

\* The socket holds the answers of an earlier transaction before those of this one,
\* and between two transactions only the latter.
SocketInv ==
  /\ request # None => request.xid = xid
  /\ \A j, k \in DOMAIN answers : j < k /\ Current(j) => Current(k)
  /\ client.at \in {"idle", "dead"} => \A j \in DOMAIN answers : Current(j)

\* A request that has no answer yet finds none in the socket.
AwaitInv ==
  /\ client.at = "offer" =>
       /\ request # None => request.kind = "Discover"
       /\ \A j \in DOMAIN answers : Current(j) => answers[j].kind = "Offer"
  /\ client.at = "ack" /\ request # None =>
       \A j \in DOMAIN answers : Current(j) => answers[j].kind = "Offer"
  /\ client.at \in {"offer", "renew"} /\ request # None => \A j \in DOMAIN answers : ~Current(j)

\* What is bound is what the client holds, or what it is about to be told.
BindingInv ==
  /\ client.at \in {"idle", "renew"} /\ client.lease # None =>
       /\ binding \in {client.lease.ip, None}
       /\ request # None => request.kind = "Renew" /\ request.ip = client.lease.ip
  /\ client.at = "ack" =>
       \A j \in DOMAIN answers :
         Current(j) /\ answers[j].kind = "Ack" => binding \in {answers[j].lease.ip, None}

NetInv == SocketInv /\ AwaitInv /\ BindingInv

\* The answer that is read is the first in the socket; it is of the transaction, and
\* so are all behind it.
LEMMA ReadCurrent ==
  ASSUME TypeOK, SocketInv, NEW kind, Read(kind)
  PROVE  /\ answers # <<>> /\ 1 \in DOMAIN answers /\ Head(answers) = answers[1]
         /\ answers[1].kind = kind /\ kind \in Awaited
         /\ \A j \in DOMAIN answers : Current(j)
<1>1. /\ answers # <<>> /\ 1 \in DOMAIN answers /\ Head(answers) = answers[1]
      /\ \A j \in DOMAIN answers : j \in Nat /\ j >= 1
  BY DEF Read, TypeOK
<1>2. answers[1].kind = kind /\ kind \in Awaited /\ Current(1)
  BY <1>1 DEF Read, Accepts, Current
<1>3. \A j \in DOMAIN answers : Current(j)
  BY <1>1, <1>2 DEF SocketInv
<1>4. QED
  BY <1>1, <1>2, <1>3

\* An answer that is taken has come after the request: the request is not on its way.
LEMMA TakenIsAnswer ==
  ASSUME TypeOK, NetInv, NEW kind, Read(kind)
  PROVE  request = None
<1>1. /\ 1 \in DOMAIN answers /\ answers[1].kind = kind /\ kind \in Awaited /\ Current(1)
  BY ReadCurrent DEF NetInv
<1>2. SUFFICES ASSUME request # None
               PROVE  FALSE
  OBVIOUS
<1>3. client.at \in {"offer", "renew"} \/ (client.at = "ack" /\ kind # "Offer")
  BY <1>1, <1>2 DEF Awaited
<1>4. QED
  BY <1>1, <1>2, <1>3 DEF NetInv, AwaitInv

\* A step that neither the network nor the client's transaction sees.
LEMMA NetSame ==
  ASSUME NetInv, UNCHANGED <<client, xid, request, answers>>, binding' \in {binding, None}
  PROVE  NetInv'
BY DEF NetInv, SocketInv, AwaitInv, BindingInv, Current

\* The first answer leaves the socket.
LEMMA TailCurrent ==
  ASSUME TypeOK, answers # <<>>, answers' = Tail(answers), xid' = xid
  PROVE  \A j \in DOMAIN answers' :
           /\ j \in Nat /\ j + 1 \in Nat /\ j + 1 \in DOMAIN answers
           /\ answers'[j] = answers[j + 1] /\ (Current(j)' <=> Current(j + 1))
<1>1. \A j \in DOMAIN answers' : j \in Nat /\ j + 1 \in DOMAIN answers /\ answers'[j] = answers[j + 1]
  BY TailElements DEF TypeOK
<1>2. QED
  BY <1>1 DEF Current

\* A new transaction begins when the socket holds only answers of the last.
LEMMA NextTransaction ==
  ASSUME TypeOK, NEW kind, NEW ip, Send(kind, ip),
         \A j \in DOMAIN answers' : answers'[j].xid = xid
  PROVE  /\ request' = [kind |-> kind, ip |-> ip, xid |-> xid'] /\ request' # None => request'.xid = xid'
         /\ \A j \in DOMAIN answers' : ~Current(j)'
<1>1. xid' # xid
  BY DEF Send, TypeOK
<1>2. QED
  BY <1>1 DEF Send, Current

\* A DISCOVER, whoever sends it.
LEMMA DiscoverNet ==
  ASSUME TypeOK, Send("Discover", None), client'.at = "offer",
         \A j \in DOMAIN answers' : answers'[j].xid = xid
  PROVE  NetInv'
<1>1. /\ request'.kind = "Discover" /\ request'.xid = xid'
      /\ \A j \in DOMAIN answers' : ~Current(j)'
  BY NextTransaction DEF Send
<1>2. QED
  BY <1>1 DEF NetInv, SocketInv, AwaitInv, BindingInv

\* The end of a client closes its socket.
LEMMA DieNet ==
  ASSUME NetInv, NEW reason, Die(reason), UNCHANGED xid, request' \in {request, None}
  PROVE  NetInv'
<1>1. client'.at = "dead" /\ answers' = <<>>
  BY DEF Die, Dead
<1>2. QED
  BY <1>1 DEF NetInv, SocketInv, AwaitInv, BindingInv

\* The client gives up: between two transactions, without a lease.
LEMMA FailNet ==
  ASSUME TypeOK, NetInv, RequestFails, UNCHANGED <<xid, request>>,
         \A j \in DOMAIN answers : Current(j)
  PROVE  NetInv'
<1>1. CASE Die("Panicked")
  BY <1>1, DieNet
<1>2. CASE LoseLease
  <2>1. client'.at = "idle" /\ client'.lease = None /\ answers' = answers
    BY <1>2 DEF LoseLease, TypeOK, Client
  <2>2. QED
    BY <2>1 DEF NetInv, SocketInv, AwaitInv, BindingInv, Current
<1>3. QED
  BY <1>1, <1>2 DEF RequestFails

\* What the server adds to the socket.
LEMMA AnswersAdded ==
  ASSUME TypeOK, NEW kind, NEW lease, NEW copies \in 0..2, Answers(kind, lease, copies),
         UNCHANGED xid, SocketInv, request # None
  PROVE  \A j \in DOMAIN answers' :
           /\ j \in Nat
           /\ j \in DOMAIN answers => answers'[j] = answers[j] /\ (Current(j)' <=> Current(j))
           /\ j \notin DOMAIN answers =>
                /\ j > Len(answers) /\ Current(j)'
                /\ answers'[j].kind = kind /\ answers'[j].lease = lease
<1> DEFINE answer == [kind |-> kind, lease |-> lease, xid |-> request.xid]
           added  == [j \in 1..copies |-> answer]
<1>1. answers' = answers \o added /\ request.xid = xid
  BY DEF Answers, SocketInv
<1>2. /\ answer.kind = kind /\ answer.lease = lease /\ answer.xid = xid
  BY <1>1
<1> HIDE DEF answer
<1>3. added \in Seq({answer}) /\ Len(added) = copies /\ \A j \in 1..copies : added[j] = answer
  OBVIOUS
<1> HIDE DEF added
<1>4. /\ DOMAIN answers = 1..Len(answers) /\ Len(answers) \in Nat
      /\ DOMAIN answers' = 1..(Len(answers) + copies)
      /\ \A j \in 1..Len(answers) : answers'[j] = answers[j]
      /\ \A j \in 1..(Len(answers) + copies) : j > Len(answers) => answers'[j] = added[j - Len(answers)]
  BY <1>1, <1>3 DEF TypeOK
<1>5. \A j \in DOMAIN answers' : j \notin DOMAIN answers => j > Len(answers) /\ answers'[j] = answer
  <2> SUFFICES ASSUME NEW j \in DOMAIN answers', j \notin DOMAIN answers
               PROVE  j > Len(answers) /\ answers'[j] = answer
    OBVIOUS
  <2>1. j > Len(answers) /\ j - Len(answers) \in 1..copies
    BY <1>4
  <2>2. QED
    BY <1>3, <1>4, <2>1
<1>6. QED
  BY <1>2, <1>4, <1>5 DEF Current

\* The server answers the request it has seen.
LEMMA ServerNet ==
  ASSUME TypeOK, NetInv, ServerAnswers
  PROVE  NetInv'
<1>0. /\ request # None /\ request' = None /\ UNCHANGED <<client, xid>> /\ SocketInv
  BY DEF ServerAnswers, actorVars, NetInv
<1>1. PICK kind, lease, copies :
        /\ copies \in 0..2
        /\ Answers(kind, lease, copies)
        /\ \/ kind = "Offer" /\ request.kind = "Discover" /\ UNCHANGED binding
           \/ /\ kind = "Ack" /\ request.kind \in {"Select", "Renew"} /\ request.ip = lease.ip
              /\ binding' = lease.ip
           \/ kind = "Nak" /\ request.kind \in {"Select", "Renew"} /\ UNCHANGED binding
  BY DEF ServerAnswers, Offer, Grant, Refuse
<1>2. \A j \in DOMAIN answers' :
        /\ j \in Nat
        /\ j \in DOMAIN answers => answers'[j] = answers[j] /\ (Current(j)' <=> Current(j))
        /\ j \notin DOMAIN answers =>
             /\ j > Len(answers) /\ Current(j)'
             /\ answers'[j].kind = kind /\ answers'[j].lease = lease
  BY <1>0, <1>1, AnswersAdded
<1>3. SocketInv'
  <2>1. ASSUME NEW j \in DOMAIN answers', NEW k \in DOMAIN answers', j < k, Current(j)'
        PROVE  Current(k)'
    <3>1. CASE k \notin DOMAIN answers
      BY <1>2, <3>1
    <3>2. CASE k \in DOMAIN answers
      <4>1. j \in DOMAIN answers
        BY <1>2, <2>1, <3>2 DEF TypeOK
      <4>2. QED
        BY <1>0, <1>2, <2>1, <3>2, <4>1 DEF SocketInv
    <3>3. QED
      BY <3>1, <3>2
  <2>2. client'.at \in {"idle", "dead"} => \A j \in DOMAIN answers' : Current(j)'
    BY <1>0, <1>2 DEF SocketInv
  <2>3. QED
    BY <1>0, <2>1, <2>2 DEF SocketInv
<1>4. AwaitInv'
  <2>1. SUFFICES ASSUME client.at = "offer", NEW j \in DOMAIN answers', Current(j)'
                 PROVE  answers'[j].kind = "Offer"
    BY <1>0 DEF AwaitInv
  <2>2. kind = "Offer"
    BY <1>0, <1>1, <2>1 DEF NetInv, AwaitInv
  <2>3. QED
    BY <1>2, <2>1, <2>2 DEF NetInv, AwaitInv
<1>5. BindingInv'
  <2>1. ASSUME client.at \in {"idle", "renew"}, client.lease # None
        PROVE  binding' \in {client.lease.ip, None}
    BY <1>0, <1>1, <2>1 DEF NetInv, BindingInv
  <2>2. ASSUME client.at = "ack", NEW j \in DOMAIN answers', Current(j)', answers'[j].kind = "Ack"
        PROVE  binding' \in {answers'[j].lease.ip, None}
    <3>1. j \notin DOMAIN answers
      BY <1>0, <1>2, <2>2 DEF NetInv, AwaitInv
    <3>2. QED
      BY <1>1, <1>2, <2>2, <3>1
  <2>3. QED
    BY <1>0, <2>1, <2>2 DEF BindingInv
<1>6. QED
  BY <1>3, <1>4, <1>5 DEF NetInv

\* The client reads its socket.
LEMMA ReadNet ==
  ASSUME WatchInv, NetInv, SkipAnswer \/ TakeOffer \/ TakeAck
  PROVE  NetInv'
<1>type. TypeOK /\ SocketInv
  BY DEF WatchInv, NetInv
<1>tail. answers # <<>> /\ answers' = Tail(answers) /\ UNCHANGED <<xid, binding>>
  BY DEF SkipAnswer, TakeOffer, TakeAck, Read
<1>1. \A j \in DOMAIN answers' :
        /\ j \in Nat /\ j + 1 \in Nat /\ j + 1 \in DOMAIN answers
        /\ answers'[j] = answers[j + 1] /\ (Current(j)' <=> Current(j + 1))
  BY <1>type, <1>tail, TailCurrent
<1>2. \A j, k \in DOMAIN answers' : j < k /\ Current(j)' => Current(k)'
  BY <1>1, <1>type DEF SocketInv
<1>skip. CASE SkipAnswer
  <2>1. UNCHANGED <<client, xid, request, binding>>
    BY <1>skip DEF SkipAnswer, actorVars
  <2>2. SocketInv'
    BY <1>1, <1>2, <1>type, <2>1 DEF SocketInv
  <2>3. AwaitInv'
    BY <1>1, <2>1 DEF NetInv, AwaitInv
  <2>4. BindingInv'
    BY <1>1, <2>1 DEF NetInv, BindingInv
  <2>5. QED
    BY <2>2, <2>3, <2>4 DEF NetInv
<1>offer. CASE TakeOffer
  <2>1. Read("Offer") /\ client.at = "offer"
    BY <1>offer DEF TakeOffer, Read, Accepts, Awaited
  <2>2. client'.at = "ack" /\ request'.kind = "Select" /\ request'.xid = xid'
    BY <1>offer, <1>type DEF TakeOffer, TypeOK, Client
  <2>3. \A j \in DOMAIN answers' : Current(j)' => answers'[j].kind = "Offer"
    BY <1>1, <2>1 DEF NetInv, AwaitInv
  <2>4. SocketInv'
    BY <1>2, <2>2 DEF SocketInv
  <2>5. AwaitInv'
    BY <2>2, <2>3 DEF AwaitInv
  <2>6. BindingInv'
    BY <2>2, <2>3 DEF BindingInv
  <2>7. QED
    BY <2>4, <2>5, <2>6 DEF NetInv
<1>ack. CASE TakeAck
  <2>1. PICK lease \in AckedLease : lease \in Lease /\ Obtain(lease)
    BY <1>ack, TakeAckLease
  <2>2. client'.at = "idle" /\ client'.lease = lease
    BY <2>1 DEF Obtain
  <2>3. Read("Ack") /\ client.at \in {"ack", "renew"} /\ UNCHANGED request
    BY <1>ack DEF TakeAck, Read, Accepts, Awaited
  <2>4. request = None
    BY <1>type, <2>3, TakenIsAnswer
  <2>5. /\ 1 \in DOMAIN answers /\ Head(answers) = answers[1] /\ answers[1].kind = "Ack"
        /\ \A j \in DOMAIN answers : Current(j)
    BY <1>type, <2>3, ReadCurrent
  <2>6. \A j \in DOMAIN answers' : Current(j)'
    BY <1>1, <2>5
  <2>7. binding \in {lease.ip, None}
    <3>1. CASE client.at = "ack"
      <4>1. lease = answers[1].lease
        BY <2>1, <2>5, <3>1 DEF AckedLease
      <4>2. QED
        BY <2>5, <3>1, <4>1 DEF NetInv, BindingInv
    <3>2. CASE client.at = "renew"
      <4>1. lease.ip = client.lease.ip
        BY <2>1, <3>2 DEF AckedLease
      <4>2. client.lease # None
        BY <3>2 DEF WatchInv, PartnersInv, Awaiting
      <4>3. QED
        BY <3>2, <4>1, <4>2 DEF NetInv, BindingInv
    <3>3. QED
      BY <2>3, <3>1, <3>2
  <2>8. SocketInv'
    BY <1>2, <2>3, <2>4, <2>6 DEF SocketInv
  <2>9. AwaitInv'
    BY <2>2 DEF AwaitInv
  <2>10. BindingInv'
    BY <1>tail, <2>2, <2>3, <2>4, <2>7 DEF BindingInv
  <2>11. QED
    BY <2>8, <2>9, <2>10 DEF NetInv
<1>qed. QED
  BY <1>skip, <1>offer, <1>ack

\* Every step keeps NetInv.
LEMMA NetStep ==
  ASSUME WatchInv, NetInv, [Next]_vars
  PROVE  NetInv'
<1>type. TypeOK /\ SocketInv
  BY DEF WatchInv, NetInv
<1>1. CASE SkipAnswer \/ TakeOffer \/ TakeAck
  BY <1>1, ReadNet
<1>2. CASE CrashOnAck \/ HandleWatchdogDied \/ HandleManagerStopped
  BY <1>2, DieNet DEF CrashOnAck, HandleWatchdogDied, HandleManagerStopped
<1>3. CASE TakeNak
  <2>1. /\ Read("Nak") /\ answers # <<>> /\ \A j \in DOMAIN answers : Current(j)
    BY <1>3, <1>type, ReadCurrent DEF TakeNak
  <2>2. CASE Discover /\ answers' = Tail(answers)
    <3>1. client'.at = "offer" /\ Send("Discover", None)
      BY <1>type, <2>2 DEF Discover, TypeOK, Client
    <3>2. \A j \in DOMAIN answers' : j + 1 \in DOMAIN answers /\ answers'[j] = answers[j + 1]
      BY <1>type, <2>1, <2>2, TailElements DEF TypeOK
    <3>3. \A j \in DOMAIN answers' : answers'[j].xid = xid
      BY <2>1, <3>2 DEF Current
    <3>4. QED
      BY <1>type, <3>1, <3>3, DiscoverNet
  <2>3. CASE Die("Panicked") /\ UNCHANGED <<xid, request>>
    BY <2>3, DieNet
  <2>4. QED
    BY <1>3, <2>2, <2>3 DEF TakeNak
<1>4. CASE TimeOut
  <2>1. CASE client.at = "renew" /\ KeepLease
    <3>1. client'.at = "idle" /\ client'.lease = client.lease /\ answers' = <<>>
          /\ UNCHANGED <<xid, request, binding>>
      BY <1>4, <1>type, <2>1 DEF TimeOut, KeepLease, TypeOK, Client
    <3>2. QED
      BY <2>1, <3>1 DEF NetInv, SocketInv, AwaitInv, BindingInv
  <2>2. CASE RequestFails
    <3>1. answers = <<>> /\ UNCHANGED <<xid, request>>
      BY <1>4 DEF TimeOut
    <3>2. QED
      BY <1>type, <2>2, <3>1, FailNet
  <2>3. QED
    BY <1>4, <2>1, <2>2 DEF TimeOut
<1>5. CASE HandleRenewal
  <2>1. /\ client.at = "idle" /\ client.lease # None /\ Send("Renew", client.lease.ip)
        /\ UNCHANGED <<answers, binding>>
    BY <1>5 DEF HandleRenewal, Receive
  <2>2. client'.at = "renew" /\ client'.lease = client.lease
    BY <1>5, <1>type DEF HandleRenewal, TypeOK, Client
  <2>3. \A j \in DOMAIN answers' : answers'[j].xid = xid
    BY <1>type, <2>1 DEF SocketInv, Current
  <2>4. /\ request'.kind = "Renew" /\ request'.ip = client.lease.ip /\ request'.xid = xid'
        /\ \A j \in DOMAIN answers' : ~Current(j)'
    BY <1>type, <2>1, <2>3, NextTransaction DEF Send
  <2>5. SocketInv'
    BY <2>2, <2>4 DEF SocketInv
  <2>6. AwaitInv'
    BY <2>2, <2>4 DEF AwaitInv
  <2>7. BindingInv'
    BY <2>1, <2>2, <2>4 DEF NetInv, BindingInv
  <2>8. QED
    BY <2>5, <2>6, <2>7 DEF NetInv
<1>6. CASE HandleExpired
  <2>1. client.at = "idle" /\ client'.at = "offer" /\ Send("Discover", None) /\ UNCHANGED answers
    BY <1>6, <1>type DEF HandleExpired, Discover, Receive, TypeOK, Client
  <2>2. \A j \in DOMAIN answers' : answers'[j].xid = xid
    BY <1>type, <2>1 DEF SocketInv, Current
  <2>3. QED
    BY <1>type, <2>1, <2>2, DiscoverNet
<1>7. CASE RestartClient
  <2>1. CASE client' = Starting /\ Send("Discover", None)
    <3>1. client.at = "dead" /\ UNCHANGED answers
      BY <1>7 DEF RestartClient, WatchInv, DeathsInv
    <3>2. \A j \in DOMAIN answers' : answers'[j].xid = xid
      BY <1>type, <3>1 DEF SocketInv, Current
    <3>3. QED
      BY <1>type, <2>1, <3>2, DiscoverNet DEF Starting
  <2>2. CASE UNCHANGED <<client, xid, request>>
    BY <1>7, <2>2, NetSame DEF RestartClient
  <2>3. QED
    BY <1>7, <2>1, <2>2 DEF RestartClient
<1>8. CASE ServerAnswers
  BY <1>8, <1>type, ServerNet
<1>9. CASE \/ WatchdogStep \/ TimerFires \/ ForwardReport \/ HandleClientDied \/ HandleStop
           \/ BindingLapses \/ TimePasses \/ StopManager \/ UNCHANGED vars
  <2>1. UNCHANGED <<client, xid, request, answers>> /\ binding' \in {binding, None}
    BY <1>9 DEF WatchdogStep, Ask, Resume, TimerFires, ForwardReport, HandleClientDied, HandleStop,
       BindingLapses, TimePasses, StopManager, netVars, actorVars, vars
  <2>2. QED
    BY <2>1, NetSame
<1>10. QED
  BY <1>1, <1>2, <1>3, <1>4, <1>5, <1>6, <1>7, <1>8, <1>9
  DEF Next, ClientStep, ManagerStep, Environment

\* NetInv holds in every state.
LEMMA AlwaysNet == Spec => [](WatchInv /\ NetInv)
<1>1. Init => NetInv
  BY DEF Init, NetInv, SocketInv, AwaitInv, BindingInv, Starting
<1>2. WatchInv /\ NetInv /\ [Next]_vars => NetInv'
  BY NetStep
<1>3. QED
  BY <1>1, <1>2, AlwaysWatched, PTL DEF Spec

\* Between two transactions no answer that was lost, late or doubled leaves the
\* client and the server with different addresses (client.rs, request and renew).
THEOREM HeldAlwaysBound == Spec => []HeldIsBound
<1>1. NetInv => HeldIsBound
  BY DEF NetInv, BindingInv, HeldIsBound
<1>2. QED
  BY <1>1, AlwaysNet, PTL

\* The client never takes an answer for one to its request while that request has no
\* answer yet (client.rs:202, 270, 391 and 511, the xid).
THEOREM AnswersAlwaysNew == Spec => AnswersAreNew
<1>1. WatchInv /\ NetInv => (TakeOffer \/ TakeAck \/ TakeNak => request = None)
  <2> SUFFICES ASSUME WatchInv, NetInv, TakeOffer \/ TakeAck \/ TakeNak
               PROVE  request = None
    OBVIOUS
  <2>1. PICK kind : Read(kind)
    BY DEF TakeOffer, TakeAck, TakeNak
  <2>2. QED
    BY <2>1, TakenIsAnswer DEF WatchInv
<1>2. QED
  BY <1>1, AlwaysNet, PTL DEF AnswersAreNew
===============================================================================
