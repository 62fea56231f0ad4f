-------------------------- MODULE WpaSupplicant_proofs ------------------------
(***************************************************************************)
(* Proofs about WpaSupplicant: its types, that recorded ids are own, that  *)
(* secrets survive, that the selected network stays known, and that it     *)
(* keeps what the profile store is promised (KnownNetworks). Outcomes of   *)
(* commands are described by lemmas, so that the proofs about requests     *)
(* need not look into the commands.                                        *)
(***************************************************************************)
EXTENDS WpaSupplicant, TLAPS

\* A command does what it is for or counts as failed.
LEMMA CommandOutcome ==
  ASSUME NEW b, NEW a, NEW f \in Nat, NEW o \in Command(b, a, f)
  PROVE  \/ o.answer = "OK" /\ o.wpa = a /\ o.faults = f
         \/ o.answer = "FAIL" /\ o.wpa = b /\ o.faults = f + 1 /\ f + 1 \in 0..MaxFaults
  BY DEF Command, Outcome

\* Taking a network out leaves the others alone.
LEMMA WithoutOutcome ==
  ASSUME NEW p \in Process, NEW id \in NetId
  PROVE  /\ Without(p, id) \in Process
         /\ Without(p, id).nets = [p.nets EXCEPT ![id] = None]
  BY DEF Without, Process

\* REMOVE_NETWORK removes the network or leaves everything.
LEMMA RemoveOutcome ==
  ASSUME NEW p \in Process, NEW id \in NetId, NEW f \in 0..MaxFaults, NEW o \in RemoveNetwork(p, id, f),
         MaxFaults \in Nat
  PROVE  /\ o.answer \in {"OK", "FAIL"} /\ o.wpa \in Process /\ o.faults \in 0..MaxFaults /\ o.faults >= f
         /\ \/ o.wpa = p /\ (p.nets[id] = None \/ o.faults = f + 1)
            \/ o.wpa = Without(p, id) /\ o.faults = f
<1>1. CASE p.nets[id] = None
  BY <1>1 DEF RemoveNetwork, Outcome
<1>2. CASE p.nets[id] # None
  <2>1. o \in Command(p, Without(p, id), f)
    BY <1>2 DEF RemoveNetwork
  <2>2. \/ o.answer = "OK" /\ o.wpa = Without(p, id) /\ o.faults = f
        \/ o.answer = "FAIL" /\ o.wpa = p /\ o.faults = f + 1 /\ f + 1 \in 0..MaxFaults
    BY <2>1, CommandOutcome
  <2>3. Without(p, id) \in Process
    BY WithoutOutcome
  <2> QED
    BY <2>2, <2>3
<1> QED
  BY <1>1, <1>2

\* What has become of the process when a known network was unregistered.
LEMMA UnregisterOutcome ==
  ASSUME NEW p \in Process, NEW n \in KnownNetwork \cup {None}, NEW f \in 0..MaxFaults,
         NEW o \in Unregister(p, n, f), MaxFaults \in Nat
  PROVE  /\ o.answer \in {"OK", "FAIL"} /\ o.wpa \in Process /\ o.faults \in 0..MaxFaults /\ o.faults >= f
         /\ (n = None \/ n.id = None) => o.wpa = p
         /\ o.wpa # p => n # None /\ n.id # None /\ o.wpa = Without(p, n.id)
         /\ (n # None /\ n.id # None /\ o.faults = f) => o.wpa.nets[n.id] = None
<1>1. CASE n = None \/ n.id = None
  BY <1>1 DEF Unregister, Outcome
<1>2. CASE n # None /\ n.id # None
  <2>1. n.id \in NetId /\ o \in RemoveNetwork(p, n.id, f)
    BY <1>2 DEF Unregister, KnownNetwork
  <2>2. p.nets \in [NetId -> Profile \cup {None}]
    BY DEF Process
  <2>3. \/ o.wpa = p /\ (p.nets[n.id] = None \/ o.faults = f + 1)
        \/ o.wpa = Without(p, n.id)
    BY <2>1, RemoveOutcome
  <2>4. Without(p, n.id).nets[n.id] = None
    BY <2>1, <2>2, WithoutOutcome
  <2>5. o.answer \in {"OK", "FAIL"} /\ o.wpa \in Process /\ o.faults \in 0..MaxFaults /\ o.faults >= f
    BY <2>1, RemoveOutcome
  <2> QED
    BY <1>2, <2>3, <2>4, <2>5
<1> QED
  BY <1>1, <1>2

\* A network that was just added is configured, or removed again, or left behind; it
\* is configured if its secrets are there and no command fails.
LEMMA ConfigureOutcome ==
  ASSUME NEW p \in Process, NEW id \in NetId, NEW k, NEW n, NEW f \in 0..MaxFaults,
         NEW c \in Configure(p, id, k, n, f), MaxFaults \in Nat
  PROVE  /\ c.answer \in {"OK", "FAIL"} /\ c.wpa \in {p, Without(p, id)} /\ c.faults \in 0..MaxFaults /\ c.faults >= f
         /\ c.answer = "OK" => c.wpa = p /\ ~LacksSecret(k, n) /\ ~Unusable(k, n)
         /\ (c.answer = "FAIL" /\ c.faults = f) => (LacksSecret(k, n) \/ Unusable(k, n))
<1> DEFINE settings == IF Unusable(k, n) THEN {Outcome("FAIL", p, f)} ELSE Command(p, p, f)
           undone(o) == {Outcome("FAIL", d.wpa, d.faults) : d \in RemoveNetwork(p, id, o.faults)}
<1>1. ASSUME NEW o, o.faults \in 0..MaxFaults, o.faults >= f, NEW d \in undone(o)
      PROVE  /\ d.answer = "FAIL" /\ d.wpa \in {p, Without(p, id)}
             /\ d.faults \in 0..MaxFaults /\ d.faults >= o.faults
  <2>1. PICK e \in RemoveNetwork(p, id, o.faults) : d = Outcome("FAIL", e.wpa, e.faults)
    BY <1>1
  <2> QED
    BY <1>1, <2>1, RemoveOutcome DEF Outcome
<1>2. CASE LacksSecret(k, n)
  <2>1. \/ c = Outcome("FAIL", p, f)
        \/ \E o \in Command(p, p, f) \ {Outcome("OK", p, f)} : c \in undone(o)
    BY <1>2 DEF Configure
  <2>2. CASE c = Outcome("FAIL", p, f)
    BY <1>2, <2>2 DEF Outcome
  <2>3. ASSUME NEW o \in Command(p, p, f) \ {Outcome("OK", p, f)}, c \in undone(o)
        PROVE  o.faults \in 0..MaxFaults /\ o.faults >= f
    BY <2>3, CommandOutcome
  <2> QED
    BY <1>1, <1>2, <2>1, <2>2, <2>3
<1>3. CASE ~LacksSecret(k, n)
  <2>1. PICK o \in settings : c \in IF o.answer = "OK" THEN Command(p, p, o.faults) ELSE undone(o)
    BY <1>3 DEF Configure
  <2>2. /\ o.faults \in 0..MaxFaults /\ o.faults >= f /\ o.answer \in {"OK", "FAIL"}
        /\ o.answer = "OK" => ~Unusable(k, n) /\ o.faults = f
        /\ o.answer = "FAIL" => Unusable(k, n) \/ o.faults = f + 1
    <3>1. CASE Unusable(k, n)
      BY <2>1, <3>1 DEF Outcome
    <3>2. CASE ~Unusable(k, n)
      BY <2>1, <3>2, CommandOutcome
    <3> QED
      BY <3>1, <3>2
  <2>3. CASE o.answer = "OK"
    BY <1>3, <2>1, <2>2, <2>3, CommandOutcome
  <2>4. CASE o.answer = "FAIL"
    <3>1. c \in undone(o)
      BY <2>1, <2>4
    <3> QED
      BY <1>1, <1>3, <2>2, <2>4, <3>1
  <2> QED
    BY <2>2, <2>3, <2>4
<1> QED
  BY <1>2, <1>3

-------------------------------------------------------------------------------
(***************************************************************************)
(* The invariant.  A recorded id is own as long as no command has failed,  *)
(* and only a profile that can be configured has one: connecting to it     *)
(* cannot fail half-way.                                                   *)
(***************************************************************************)
Owned(k) ==
  (known[k] # None /\ known[k].id # None) =>
    /\ wpa.nets[known[k].id] = k
    /\ ~LacksSecret(k, known[k]) /\ ~Unusable(k, known[k])

IdsInv == TypeOK /\ (faults = 0 => \A k \in Profile : Owned(k))

\* Every outcome of unregistering a known network leaves the other networks alone, and
\* takes its own away unless the command fails.
LEMMA UnregisteredOwned ==
  ASSUME TypeOK, MaxFaults \in Nat, NEW k \in Profile, NEW u \in Unregister(wpa, known[k], faults),
         \A j \in Profile : Owned(j), u.faults = faults,
         NEW j \in Profile, j # k, known[j] # None, known[j].id # None
  PROVE  u.wpa.nets[known[j].id] = j
<1>1. known[j].id \in NetId /\ wpa.nets[known[j].id] = j /\ known[k] \in KnownNetwork \cup {None}
      /\ wpa \in Process /\ faults \in 0..MaxFaults
  BY DEF TypeOK, KnownNetwork, Owned
<1>2. CASE u.wpa = wpa
  BY <1>1, <1>2
<1>3. CASE u.wpa # wpa
  <2>1. known[k] # None /\ known[k].id # None /\ u.wpa = Without(wpa, known[k].id)
    BY <1>1, <1>3, UnregisterOutcome
  <2>2. known[k].id \in NetId /\ wpa.nets[known[k].id] = k
    BY <1>1, <2>1 DEF KnownNetwork, Owned
  <2>3. u.wpa.nets = [wpa.nets EXCEPT ![known[k].id] = None]
    BY <1>1, <2>1, <2>2, WithoutOutcome
  <2>4. wpa.nets \in [NetId -> Profile \cup {None}]
    BY <1>1 DEF Process
  <2> QED
    BY <1>1, <2>2, <2>3, <2>4
<1> QED
  BY <1>2, <1>3

\* What a request to register a network stores is a known network.
LEMMA RegisteredType ==
  ASSUME TypeOK, NEW k \in Profile, NEW p \in Password \cup {None}, NEW i \in Identity \cup {None},
         NEW a \in BOOLEAN
  PROVE  Registered(k, p, i, a) \in KnownNetwork /\ Registered(k, p, i, a).id = None
  BY DEF TypeOK, Registered, KnownNetwork

LEMMA AddNetworkIds ==
  ASSUME IdsInv, NEW k \in Profile, NEW p \in Password \cup {None}, NEW i \in Identity \cup {None},
         NEW a \in BOOLEAN, AddNetwork(k, p, i, a)
  PROVE  IdsInv'
<1> DEFINE n == Registered(k, p, i, a)
<1>1. MaxFaults \in Nat
  BY WpaAssumption DEF WpaAssumption
<1>2. PICK u \in Unregister(wpa, known[k], faults) : wpa' = u.wpa /\ faults' = u.faults
  BY DEF AddNetwork
<1>3. /\ wpa \in Process /\ faults \in 0..MaxFaults /\ known[k] \in KnownNetwork \cup {None}
      /\ known \in [Profile -> KnownNetwork \cup {None}]
  BY DEF IdsInv, TypeOK
<1>4. wpa' \in Process /\ faults' \in 0..MaxFaults /\ faults' >= faults
  BY <1>1, <1>2, <1>3, UnregisterOutcome
<1>5. n \in KnownNetwork /\ n.id = None
  BY RegisteredType DEF IdsInv
<1>6. known' = [known EXCEPT ![k] = n] /\ keys' = keys \cup {Bucket(k)} /\ UNCHANGED <<scan_results, loaded>>
  BY DEF AddNetwork
<1>7. TypeOK'
  BY <1>3, <1>4, <1>5, <1>6 DEF IdsInv, TypeOK
<1>8. ASSUME faults' = 0, NEW j \in Profile PROVE Owned(j)'
  <2>1. CASE j = k
    BY <1>3, <1>5, <1>6, <2>1 DEF Owned
  <2>2. CASE j # k
    <3>1. known'[j] = known[j] /\ faults = 0 /\ u.faults = faults
      BY <1>2, <1>3, <1>4, <1>6, <1>8, <2>2
    <3>2. (known[j] # None /\ known[j].id # None) => wpa'.nets[known[j].id] = j
      BY <1>1, <1>2, <2>2, <3>1, UnregisteredOwned DEF IdsInv
    <3> QED
      BY <3>1, <3>2 DEF IdsInv, Owned, LacksSecret, Unusable
  <2> QED
    BY <2>1, <2>2
<1> QED
  BY <1>7, <1>8 DEF IdsInv

LEMMA RemoveKnownIds ==
  ASSUME IdsInv, NEW k \in Profile, RemoveKnown(k)
  PROVE  IdsInv'
<1>1. MaxFaults \in Nat
  BY WpaAssumption DEF WpaAssumption
<1>2. PICK u \in Unregister(wpa, known[k], faults) :
        wpa' = u.wpa /\ faults' = u.faults /\ keys' \in {keys, keys \ {Bucket(k)}}
  BY DEF RemoveKnown
<1>3. /\ wpa \in Process /\ faults \in 0..MaxFaults /\ known[k] \in KnownNetwork \cup {None}
      /\ known \in [Profile -> KnownNetwork \cup {None}]
  BY DEF IdsInv, TypeOK
<1>4. wpa' \in Process /\ faults' \in 0..MaxFaults /\ faults' >= faults
  BY <1>1, <1>2, <1>3, UnregisterOutcome
<1>5. known' = [known EXCEPT ![k] = None] /\ UNCHANGED <<scan_results, loaded>>
  BY DEF RemoveKnown
<1>6. TypeOK'
  BY <1>2, <1>3, <1>4, <1>5 DEF IdsInv, TypeOK
<1>7. ASSUME faults' = 0, NEW j \in Profile PROVE Owned(j)'
  <2>1. CASE j = k
    BY <1>3, <1>5, <2>1 DEF Owned
  <2>2. CASE j # k
    <3>1. known'[j] = known[j] /\ faults = 0 /\ u.faults = faults
      BY <1>2, <1>3, <1>4, <1>5, <1>7, <2>2
    <3>2. (known[j] # None /\ known[j].id # None) => wpa'.nets[known[j].id] = j
      BY <1>1, <1>2, <2>2, <3>1, UnregisteredOwned DEF IdsInv
    <3> QED
      BY <3>1, <3>2 DEF IdsInv, Owned, LacksSecret, Unusable
  <2> QED
    BY <2>1, <2>2
<1> QED
  BY <1>6, <1>7 DEF IdsInv

LEMMA ConnectIds ==
  ASSUME IdsInv, NEW k \in Profile, known[k] # None, Connect(k)
  PROVE  IdsInv'
<1>1. MaxFaults \in Nat /\ None \notin Profile /\ None \notin NetId
  BY WpaAssumption DEF WpaAssumption
<1>2. /\ wpa \in Process /\ faults \in 0..MaxFaults /\ known[k] \in KnownNetwork
      /\ known \in [Profile -> KnownNetwork \cup {None}]
  BY DEF IdsInv, TypeOK
<1>3. UNCHANGED <<keys, scan_results, loaded>>
  BY DEF Connect
<1>4. PICK u \in Unregister(wpa, known[k], faults) :
        \/ u.faults < MaxFaults /\ wpa' = u.wpa /\ faults' = u.faults + 1 /\ known' = known
        \/ \E id \in NetId :
             /\ u.wpa.nets[id] = None
             /\ \E c \in Configure([u.wpa EXCEPT !.nets[id] = k], id, k, known[k], u.faults) :
                  \E s \in IF c.answer = "OK" THEN SelectNetwork(c.wpa, id, c.faults) ELSE {c} :
                    /\ wpa' = s.wpa /\ faults' = s.faults
                    /\ known' = IF s.answer = "OK"
                                THEN [known EXCEPT ![k] = [@ EXCEPT !.id = id, !.state = "Current"]]
                                ELSE known
  BY DEF Connect
<1>5. u.wpa \in Process /\ u.faults \in 0..MaxFaults /\ u.faults >= faults
  BY <1>1, <1>2, UnregisterOutcome
<1>6. CASE u.faults < MaxFaults /\ wpa' = u.wpa /\ faults' = u.faults + 1 /\ known' = known
  BY <1>1, <1>2, <1>3, <1>5, <1>6 DEF IdsInv, TypeOK
<1>7. ASSUME NEW id \in NetId, u.wpa.nets[id] = None,
             NEW c \in Configure([u.wpa EXCEPT !.nets[id] = k], id, k, known[k], u.faults),
             NEW s \in IF c.answer = "OK" THEN SelectNetwork(c.wpa, id, c.faults) ELSE {c},
             wpa' = s.wpa, faults' = s.faults,
             known' = IF s.answer = "OK"
                      THEN [known EXCEPT ![k] = [@ EXCEPT !.id = id, !.state = "Current"]]
                      ELSE known
      PROVE  IdsInv'
  <2> DEFINE p == [u.wpa EXCEPT !.nets[id] = k]
             current == [known[k] EXCEPT !.id = id, !.state = "Current"]
  <2>1. p \in Process /\ p.nets = [u.wpa.nets EXCEPT ![id] = k] /\ u.wpa.nets \in [NetId -> Profile \cup {None}]
    BY <1>5, <1>7 DEF Process
  <2>2. Without(p, id) \in Process /\ Without(p, id).nets = [p.nets EXCEPT ![id] = None]
    BY <1>7, <2>1, WithoutOutcome
  <2> HIDE DEF p
  <2>3. /\ c.answer \in {"OK", "FAIL"} /\ c.wpa \in {p, Without(p, id)}
        /\ c.faults \in 0..MaxFaults /\ c.faults >= u.faults
        /\ c.answer = "OK" => c.wpa = p /\ ~LacksSecret(k, known[k]) /\ ~Unusable(k, known[k])
        /\ (c.answer = "FAIL" /\ c.faults = u.faults) => (LacksSecret(k, known[k]) \/ Unusable(k, known[k]))
    <3>1. c \in Configure(p, id, k, known[k], u.faults)
      BY <1>7 DEF p
    <3> QED
      BY <1>1, <1>5, <1>7, <2>1, <3>1, ConfigureOutcome
  <2>4. /\ s.wpa \in Process /\ s.wpa.nets = c.wpa.nets
        /\ s.faults \in 0..MaxFaults /\ s.faults >= c.faults
        /\ s.answer = "OK" => c.answer = "OK"
        /\ s.answer # "OK" => (c.answer = "FAIL" \/ s.faults > c.faults)
    <3>1. CASE c.answer = "OK"
      <4>1. c.wpa \in Process
        BY <2>1, <2>2, <2>3
      <4> DEFINE q == [c.wpa EXCEPT !.selected = id, !.online = TRUE]
      <4>2. q \in Process /\ q.nets = c.wpa.nets
        BY <4>1 DEF Process
      <4>3. s \in Command(c.wpa, q, c.faults)
        BY <1>7, <3>1 DEF SelectNetwork
      <4> HIDE DEF q
      <4>4. c.faults \in Nat /\ c.faults \in 0..MaxFaults
        BY <1>1, <2>3
      <4>5. \/ s.answer = "OK" /\ s.wpa = q /\ s.faults = c.faults
            \/ s.answer = "FAIL" /\ s.wpa = c.wpa /\ s.faults = c.faults + 1 /\ c.faults + 1 \in 0..MaxFaults
        BY <4>3, <4>4, CommandOutcome
      <4> QED
        BY <1>1, <3>1, <4>1, <4>2, <4>4, <4>5
    <3>2. CASE c.answer # "OK"
      BY <1>7, <2>1, <2>2, <2>3, <3>2
    <3> QED
      BY <3>1, <3>2
  <2>5. current \in KnownNetwork /\ current.id = id
        /\ current.password = known[k].password /\ current.identity = known[k].identity
    BY <1>2 DEF KnownNetwork
  <2>6. known' = IF s.answer = "OK" THEN [known EXCEPT ![k] = current] ELSE known
    BY <1>2, <1>7
  <2> HIDE DEF current
  <2>7. TypeOK'
    BY <1>2, <1>3, <1>7, <2>4, <2>5, <2>6 DEF IdsInv, TypeOK
  <2>8. ASSUME faults' = 0, NEW j \in Profile PROVE Owned(j)'
    <3>1. faults = 0 /\ u.faults = 0 /\ c.faults = 0 /\ s.faults = 0
      BY <1>2, <1>5, <1>7, <2>3, <2>4, <2>8
    <3>2. CASE j # k
      <4>1. known'[j] = known[j]
        BY <1>2, <2>6, <3>2
      <4>2. ASSUME known[j] # None, known[j].id # None PROVE wpa'.nets[known[j].id] = j
        <5>1. u.wpa.nets[known[j].id] = j /\ known[j].id \in NetId
          BY <1>1, <1>2, <3>1, <3>2, <4>2, UnregisteredOwned DEF IdsInv, KnownNetwork
        <5>2. known[j].id # id
          BY <1>1, <1>7, <5>1
        <5>3. p.nets[known[j].id] = j /\ Without(p, id).nets[known[j].id] = j
          BY <2>1, <2>2, <5>1, <5>2
        <5> QED
          BY <1>7, <2>3, <2>4, <5>3
      <4> QED
        BY <3>1, <4>1, <4>2 DEF IdsInv, Owned, LacksSecret, Unusable
    <3>3. CASE j = k /\ s.answer = "OK"
      <4>1. known'[k] = current
        BY <1>2, <2>6, <3>3
      <4>2. wpa'.nets[id] = k
        BY <1>7, <2>1, <2>3, <2>4, <3>3
      <4>3. ~LacksSecret(k, current) /\ ~Unusable(k, current)
        BY <2>3, <2>4, <2>5, <3>3 DEF LacksSecret, Unusable
      <4> QED
        BY <2>5, <3>3, <4>1, <4>2, <4>3 DEF Owned
    <3>4. CASE j = k /\ s.answer # "OK"
      <4>1. LacksSecret(k, known[k]) \/ Unusable(k, known[k])
        BY <2>3, <2>4, <3>1, <3>4
      <4>2. known[k].id = None
        BY <3>1, <4>1 DEF IdsInv, Owned
      <4> QED
        BY <2>6, <3>4, <4>2 DEF Owned
    <3> QED
      BY <3>2, <3>3, <3>4
  <2> QED
    BY <2>7, <2>8 DEF IdsInv
<1> QED
  BY <1>4, <1>6, <1>7

LEMMA LoadNetworksIds ==
  ASSUME IdsInv, NEW networks \in Loads, NEW p \in Password \cup {None}, NEW i \in Identity \cup {None},
         LoadNetworks(networks, p, i)
  PROVE  IdsInv'
<1>1. networks \subseteq Profile
  BY WpaAssumption DEF WpaAssumption
<1>2. UNCHANGED <<scan_results, wpa, faults>> /\ loaded' = TRUE /\ keys' = {Bucket(k) : k \in networks}
  BY DEF LoadNetworks
<1>3. \A k \in Profile : known'[k] = None \/ (known'[k] \in KnownNetwork /\ known'[k].id = None)
  BY DEF LoadNetworks, KnownNetwork
<1>4. known' \in [Profile -> KnownNetwork \cup {None}]
  BY <1>3 DEF LoadNetworks
<1>5. keys' \subseteq {Bucket(k) : k \in Profile}
  BY <1>1, <1>2
<1> QED
  BY <1>2, <1>3, <1>4, <1>5 DEF IdsInv, TypeOK, Owned

\* The requests that leave the known networks alone change the process at most in
\* whether it is to be connected.
LEMMA OtherIds ==
  ASSUME IdsInv, Disconnect \/ Reconnect \/ ScanResults
  PROVE  IdsInv'
<1>1. MaxFaults \in Nat /\ wpa \in Process /\ faults \in 0..MaxFaults
  BY WpaAssumption DEF WpaAssumption, IdsInv, TypeOK
<1>2. ASSUME NEW b \in BOOLEAN, NEW o \in Command(wpa, [wpa EXCEPT !.online = b], faults),
             wpa' = o.wpa, faults' = o.faults, UNCHANGED <<keys, known, scan_results, loaded>>
      PROVE  IdsInv'
  <2> DEFINE q == [wpa EXCEPT !.online = b]
  <2>1. q \in Process /\ q.nets = wpa.nets
    BY <1>1 DEF Process
  <2> HIDE DEF q
  <2>2. o \in Command(wpa, q, faults)
    BY <1>2 DEF q
  <2>3. o.wpa \in {wpa, q} /\ o.faults \in 0..MaxFaults /\ o.faults >= faults
    BY <1>1, <2>2, CommandOutcome
  <2>4. wpa' \in Process /\ wpa'.nets = wpa.nets /\ faults' \in 0..MaxFaults /\ (faults' = 0 => faults = 0)
    BY <1>1, <1>2, <2>1, <2>3
  <2> QED
    BY <1>2, <2>4 DEF IdsInv, TypeOK, Owned, LacksSecret, Unusable
<1>3. CASE Disconnect
  BY <1>2, <1>3 DEF Disconnect
<1>4. CASE Reconnect
  BY <1>2, <1>4 DEF Reconnect
<1>5. CASE ScanResults
  BY <1>1, <1>5 DEF ScanResults, IdsInv, TypeOK, Owned, LacksSecret, Unusable
<1> QED
  BY <1>3, <1>4, <1>5

LEMMA NewProcessType == NewProcess \in Process
  BY DEF NewProcess, Process

LEMMA InitIds == Init => IdsInv
<1> SUFFICES ASSUME Init PROVE IdsInv
  OBVIOUS
<1>1. keys = {} /\ scan_results = {} /\ wpa \in Process /\ faults = 0 /\ loaded = FALSE
  BY NewProcessType DEF Init
<1>2. known \in [Profile -> KnownNetwork \cup {None}] /\ \A k \in Profile : known[k] = None
  BY DEF Init
<1>3. 0 \in 0..MaxFaults
  BY WpaAssumption DEF WpaAssumption
<1> QED
  BY <1>1, <1>2, <1>3 DEF IdsInv, TypeOK, Owned

\* The profiles a Connect may use are known.
LEMMA CandidatesKnown ==
  ASSUME NEW b, NEW bssid, NEW k \in Candidates(b, bssid)
  PROVE  k \in Profile /\ known[k] # None
  BY DEF Candidates

LEMMA NextIds == IdsInv /\ [Next]_vars => IdsInv'
<1> SUFFICES ASSUME IdsInv, [Next]_vars PROVE IdsInv'
  OBVIOUS
<1>1. ASSUME NEW k \in Profile, NEW p \in Password \cup {None}, NEW i \in Identity \cup {None},
             NEW a \in BOOLEAN, AddNetwork(k, p, i, a)
      PROVE  IdsInv'
  BY <1>1, AddNetworkIds
<1>2. ASSUME NEW k \in Profile, RemoveKnown(k) PROVE IdsInv'
  BY <1>2, RemoveKnownIds
<1>3. ASSUME NEW b, NEW bssid, NEW k \in Candidates(b, bssid), Connect(k) PROVE IdsInv'
  BY <1>3, CandidatesKnown, ConnectIds
<1>4. ASSUME NEW networks \in Loads, NEW p \in Password \cup {None}, NEW i \in Identity \cup {None},
             LoadNetworks(networks, p, i)
      PROVE  IdsInv'
  BY <1>4, LoadNetworksIds
<1>5. CASE Disconnect \/ Reconnect \/ ScanResults
  BY <1>5, OtherIds
<1>6. CASE BackendRestarts
  BY <1>6, NewProcessType DEF BackendRestarts, IdsInv, TypeOK, Owned
<1>7. CASE UNCHANGED vars
  BY <1>7 DEF vars, IdsInv, TypeOK, Owned, LacksSecret, Unusable
<1> QED
  BY <1>1, <1>2, <1>3, <1>4, <1>5, <1>6, <1>7 DEF Next

-------------------------------------------------------------------------------
\* Every variable of the backend keeps its type.
THEOREM TypeCorrect == Spec => []TypeOK
<1>1. IdsInv => TypeOK
  BY DEF IdsInv
<1> QED
  BY <1>1, InitIds, NextIds, PTL DEF Spec

\* As long as commands succeed, a recorded id is that of the profile's own network
\* (mod.rs, connect_known), for any profiles and any choice of ids by wpa_supplicant.
THEOREM IdsAlwaysOwn == Spec => []IdsAreOwn
<1>1. IdsInv => IdsAreOwn
  BY DEF IdsInv, Owned, IdsAreOwn
<1> QED
  BY <1>1, InitIds, NextIds, PTL DEF Spec

\* No request but LoadNetworks loses a stored secret of a profile that stays
\* (register_known_network, "An omitted secret therefore means keep").
THEOREM SecretsAlwaysSurvive == Spec => SecretsSurvive
<1> DEFINE Kept(k) == (known[k] # None /\ known'[k] # None /\ loaded' = loaded)
                        => /\ known[k].password # None => known'[k].password # None
                           /\ known[k].identity # None => known'[k].identity # None
<1>1. ASSUME TypeOK, [Next]_vars, NEW k \in Profile PROVE Kept(k)
  <2> known \in [Profile -> KnownNetwork \cup {None}]
    BY <1>1 DEF TypeOK
  <2>1. ASSUME NEW j \in Profile, NEW p \in Password \cup {None}, NEW i \in Identity \cup {None},
               NEW a \in BOOLEAN, AddNetwork(j, p, i, a)
        PROVE  Kept(k)
    BY <2>1 DEF AddNetwork, Registered
  <2>2. ASSUME NEW j \in Profile, RemoveKnown(j) PROVE Kept(k)
    BY <2>2 DEF RemoveKnown
  <2>3. ASSUME NEW b, NEW bssid, NEW j \in Candidates(b, bssid), Connect(j) PROVE Kept(k)
    <3>1. j \in Profile /\ known[j] \in KnownNetwork
      BY <1>1, <2>3, CandidatesKnown DEF TypeOK
    <3>2. known' = known \/ \E id \in NetId :
             known' = [known EXCEPT ![j] = [@ EXCEPT !.id = id, !.state = "Current"]]
      BY <2>3 DEF Connect
    <3>3. CASE known' = known
      BY <3>3
    <3>4. ASSUME NEW id \in NetId, known' = [known EXCEPT ![j] = [@ EXCEPT !.id = id, !.state = "Current"]]
          PROVE  Kept(k)
      <4>1. CASE k = j
        <5>1. known'[j] = [known[j] EXCEPT !.id = id, !.state = "Current"]
          BY <3>1, <3>4
        <5>2. known'[j].password = known[j].password /\ known'[j].identity = known[j].identity
          BY <3>1, <5>1 DEF KnownNetwork
        <5> QED
          BY <4>1, <5>2
      <4>2. CASE k # j
        BY <3>4, <4>2
      <4> QED
        BY <4>1, <4>2
    <3> QED
      BY <3>2, <3>3, <3>4
  <2>4. ASSUME NEW networks \in Loads, NEW p \in Password \cup {None}, NEW i \in Identity \cup {None},
               LoadNetworks(networks, p, i)
        PROVE  Kept(k)
    BY <2>4 DEF LoadNetworks
  <2>5. CASE Disconnect \/ Reconnect \/ ScanResults
    BY <2>5 DEF Disconnect, Reconnect, ScanResults
  <2>6. CASE BackendRestarts
    BY <2>6 DEF BackendRestarts
  <2>7. CASE UNCHANGED vars
    BY <2>7 DEF vars
  <2> QED
    BY <1>1, <2>1, <2>2, <2>3, <2>4, <2>5, <2>6, <2>7 DEF Next
<1>2. TypeOK /\ [Next]_vars => [\A k \in Profile : Kept(k)]_vars
  BY <1>1
<1> QED
  BY <1>2, TypeCorrect, PTL DEF Spec, SecretsSurvive

-------------------------------------------------------------------------------
(***************************************************************************)
(* The selected network.  It is one that wpa_supplicant has, so that the   *)
(* request which unregisters its profile takes it away.                    *)
(***************************************************************************)
SelectedExists(p) == p.selected # None => p.nets[p.selected] # None

\* What a step does to the record of the selected network.
Tracks == Recorded /\ loaded' = loaded /\ faults' = faults => Recorded'

\* Taking a network out deselects it, and no other.
LEMMA WithoutSelected ==
  ASSUME NEW p \in Process, NEW id \in NetId, SelectedExists(p)
  PROVE  /\ SelectedExists(Without(p, id))
         /\ Without(p, id).selected = IF p.selected = id THEN None ELSE p.selected
  BY DEF Without, Process, SelectedExists

\* So does unregistering a known network, unless the command fails.
LEMMA UnregisterSelected ==
  ASSUME NEW p \in Process, NEW n \in KnownNetwork \cup {None}, NEW f \in 0..MaxFaults,
         NEW o \in Unregister(p, n, f), SelectedExists(p)
  PROVE  /\ o.wpa \in Process /\ SelectedExists(o.wpa) /\ o.faults \in 0..MaxFaults /\ o.faults >= f
         /\ o.wpa.selected \in {p.selected, None}
         /\ (n # None /\ n.id # None /\ n.id = p.selected /\ o.faults = f) => o.wpa.selected = None
<1>0. MaxFaults \in Nat
  BY WpaAssumption DEF WpaAssumption
<1>1. /\ o.wpa \in Process /\ o.faults \in 0..MaxFaults /\ o.faults >= f
      /\ o.wpa # p => n # None /\ n.id # None /\ o.wpa = Without(p, n.id)
      /\ (n # None /\ n.id # None /\ o.faults = f) => o.wpa.nets[n.id] = None
  BY <1>0, UnregisterOutcome
<1>2. n # None /\ n.id # None => n.id \in NetId
  BY DEF KnownNetwork
<1>3. CASE o.wpa = p
  BY <1>1, <1>3 DEF SelectedExists
<1>4. CASE o.wpa # p
  BY <1>1, <1>2, <1>4, WithoutSelected
<1> QED
  BY <1>1, <1>3, <1>4

\* The record of one profile is dropped with its network.
LEMMA DropTracks ==
  ASSUME TypeOK, SelectedExists(wpa), NEW k \in Profile, NEW n \in KnownNetwork \cup {None},
         known' = [known EXCEPT ![k] = n],
         \E o \in Unregister(wpa, known[k], faults) : wpa' = o.wpa /\ faults' = o.faults
  PROVE  SelectedExists(wpa)' /\ Tracks
<1>1. PICK o \in Unregister(wpa, known[k], faults) : wpa' = o.wpa /\ faults' = o.faults
  OBVIOUS
<1>2. wpa \in Process /\ known[k] \in KnownNetwork \cup {None} /\ faults \in 0..MaxFaults
      /\ known \in [Profile -> KnownNetwork \cup {None}]
  BY DEF TypeOK
<1>3. /\ SelectedExists(o.wpa) /\ o.wpa.selected \in {wpa.selected, None}
      /\ (known[k] # None /\ known[k].id # None /\ known[k].id = wpa.selected /\ o.faults = faults)
           => o.wpa.selected = None
  BY <1>1, <1>2, UnregisterSelected
<1>4. SelectedExists(wpa)'
  BY <1>1, <1>3 DEF SelectedExists
<1>5. ASSUME Recorded, faults' = faults, wpa'.selected # None
      PROVE  \E j \in Profile : known'[j] # None /\ known'[j].id = wpa'.selected
  <2>1. wpa.selected = wpa'.selected
    BY <1>1, <1>3, <1>5
  <2>2. PICK j \in Profile : known[j] # None /\ known[j].id = wpa.selected
    BY <1>5, <2>1 DEF Recorded
  <2>3. j # k
    BY <1>1, <1>3, <1>5, <2>1, <2>2
  <2> QED
    BY <1>2, <2>1, <2>2, <2>3
<1> QED
  BY <1>4, <1>5 DEF Tracks, Recorded

LEMMA ConnectTracks ==
  ASSUME TypeOK, SelectedExists(wpa), NEW k \in Profile, known[k] # None, Connect(k)
  PROVE  SelectedExists(wpa)' /\ Tracks
<1>1. MaxFaults \in Nat /\ None \notin Profile /\ None \notin NetId
  BY WpaAssumption DEF WpaAssumption
<1>2. /\ wpa \in Process /\ faults \in 0..MaxFaults /\ known[k] \in KnownNetwork
      /\ known \in [Profile -> KnownNetwork \cup {None}]
  BY DEF TypeOK
<1>3. PICK u \in Unregister(wpa, known[k], faults) :
        \/ u.faults < MaxFaults /\ wpa' = u.wpa /\ faults' = u.faults + 1 /\ known' = known
        \/ \E id \in NetId :
             /\ u.wpa.nets[id] = None
             /\ \E c \in Configure([u.wpa EXCEPT !.nets[id] = k], id, k, known[k], u.faults) :
                  \E s \in IF c.answer = "OK" THEN SelectNetwork(c.wpa, id, c.faults) ELSE {c} :
                    /\ wpa' = s.wpa /\ faults' = s.faults
                    /\ known' = IF s.answer = "OK"
                                THEN [known EXCEPT ![k] = [@ EXCEPT !.id = id, !.state = "Current"]]
                                ELSE known
  BY DEF Connect
<1>4. /\ u.wpa \in Process /\ SelectedExists(u.wpa) /\ u.faults \in 0..MaxFaults /\ u.faults >= faults
      /\ u.wpa.selected \in {wpa.selected, None}
      /\ (known[k].id # None /\ known[k].id = wpa.selected /\ u.faults = faults)
           => u.wpa.selected = None
  BY <1>1, <1>2, UnregisterSelected
<1>5. CASE u.faults < MaxFaults /\ wpa' = u.wpa /\ faults' = u.faults + 1 /\ known' = known
  <2>1. faults' # faults
    BY <1>2, <1>4, <1>5
  <2> QED
    BY <1>4, <1>5, <2>1 DEF Tracks, SelectedExists
<1>6. ASSUME NEW id \in NetId, u.wpa.nets[id] = None,
             NEW c \in Configure([u.wpa EXCEPT !.nets[id] = k], id, k, known[k], u.faults),
             NEW s \in IF c.answer = "OK" THEN SelectNetwork(c.wpa, id, c.faults) ELSE {c},
             wpa' = s.wpa, faults' = s.faults,
             known' = IF s.answer = "OK" THEN [known EXCEPT ![k] = [@ EXCEPT !.id = id, !.state = "Current"]]
                      ELSE known
      PROVE  SelectedExists(wpa)' /\ Tracks
  <2> DEFINE p == [u.wpa EXCEPT !.nets[id] = k]
  <2>1. /\ p \in Process /\ p.nets[id] = k /\ p.selected = u.wpa.selected /\ SelectedExists(p)
        /\ p.selected # id
    BY <1>1, <1>4, <1>6 DEF Process, SelectedExists
  <2>c. c \in Configure(p, id, k, known[k], u.faults)
    BY <1>6
  <2> HIDE DEF p
  <2>2. /\ c.answer \in {"OK", "FAIL"} /\ c.wpa \in {p, Without(p, id)}
        /\ c.faults \in 0..MaxFaults /\ c.faults >= u.faults
        /\ c.answer = "OK" => c.wpa = p
    BY <1>1, <1>4, <2>1, <2>c, ConfigureOutcome
  <2>3. c.wpa \in Process /\ SelectedExists(c.wpa) /\ c.wpa.selected = u.wpa.selected
    <3>1. CASE c.wpa = p
      BY <2>1, <3>1
    <3>2. CASE c.wpa = Without(p, id)
      <4>1. Without(p, id) \in Process /\ SelectedExists(Without(p, id))
            /\ Without(p, id).selected = p.selected
        BY <2>1, WithoutSelected, WithoutOutcome
      <4> QED
        BY <2>1, <3>2, <4>1
    <3> QED
      BY <2>2, <3>1, <3>2
  <2>4. CASE s = c /\ c.answer = "FAIL"
    <3>1. known' = known /\ wpa' = c.wpa /\ faults' = c.faults
      BY <1>6, <2>4
    <3>2. SelectedExists(wpa)'
      BY <2>3, <3>1 DEF SelectedExists
    <3>3. ASSUME Recorded, faults' = faults, wpa'.selected # None
          PROVE  \E j \in Profile : known'[j] # None /\ known'[j].id = wpa'.selected
      BY <1>4, <2>3, <3>1, <3>3 DEF Recorded
    <3> QED
      BY <3>2, <3>3 DEF Tracks, Recorded
  <2>5. CASE c.answer = "OK" /\ s \in SelectNetwork(p, id, c.faults)
    <3> DEFINE q == [p EXCEPT !.selected = id, !.online = TRUE]
    <3>1. /\ q.nets = p.nets /\ q.selected = id
      BY <2>1 DEF Process
    <3> HIDE DEF q
    <3>2. \/ s.answer = "OK" /\ s.wpa = q /\ s.faults = c.faults
          \/ s.answer = "FAIL" /\ s.wpa = p /\ s.faults = c.faults + 1
      BY <2>2, <2>5, CommandOutcome DEF SelectNetwork, q
    <3>3. CASE s.answer = "OK"
      <4>1. wpa'.selected = id /\ wpa'.nets[id] = k
        BY <1>6, <2>1, <3>1, <3>2, <3>3
      <4>2. known'[k] = [known[k] EXCEPT !.id = id, !.state = "Current"]
        BY <1>2, <1>6, <3>3
      <4>3. known'[k] \in KnownNetwork /\ known'[k].id = id
        BY <1>2, <1>6, <4>2 DEF KnownNetwork
      <4>4. known'[k] # None
        BY <4>3, NoneIsNoNetwork
      <4> QED
        BY <1>1, <4>1, <4>3, <4>4 DEF Tracks, Recorded, SelectedExists
    <3>4. CASE s.answer = "FAIL"
      <4>1. wpa' = p /\ faults' # faults
        BY <1>2, <1>4, <1>6, <2>2, <3>2, <3>4
      <4> QED
        BY <2>1, <4>1 DEF Tracks, SelectedExists
    <3> QED
      BY <3>2, <3>3, <3>4
  <2> QED
    BY <1>6, <2>2, <2>4, <2>5
<1> QED
  BY <1>3, <1>5, <1>6

\* Every step keeps the record of the selected network.
LEMMA StepTracks ==
  ASSUME TypeOK, SelectedExists(wpa), [Next]_vars
  PROVE  SelectedExists(wpa)' /\ Tracks
<1>0. wpa \in Process /\ known \in [Profile -> KnownNetwork \cup {None}]
  BY DEF TypeOK
<1>1. ASSUME NEW k \in Profile, NEW p \in Password \cup {None}, NEW i \in Identity \cup {None},
             NEW a \in BOOLEAN, AddNetwork(k, p, i, a)
      PROVE  SelectedExists(wpa)' /\ Tracks
  <2>1. Registered(k, p, i, a) \in KnownNetwork
    BY RegisteredType
  <2> QED
    BY <1>1, <2>1, DropTracks DEF AddNetwork
<1>2. ASSUME NEW k \in Profile, RemoveKnown(k)
      PROVE  SelectedExists(wpa)' /\ Tracks
  BY <1>2, DropTracks DEF RemoveKnown
<1>3. ASSUME NEW b, NEW bssid, NEW k \in Candidates(b, bssid), Connect(k)
      PROVE  SelectedExists(wpa)' /\ Tracks
  BY <1>3, CandidatesKnown, ConnectTracks
<1>4. ASSUME NEW networks, NEW p, NEW i, LoadNetworks(networks, p, i)
      PROVE  SelectedExists(wpa)' /\ Tracks
  BY <1>4 DEF LoadNetworks, Tracks, SelectedExists
<1>5. CASE Disconnect \/ Reconnect
  <2>1. PICK b \in BOOLEAN :
          \E o \in Command(wpa, [wpa EXCEPT !.online = b], faults) :
            wpa' = o.wpa /\ faults' = o.faults /\ known' = known
    BY <1>5 DEF Disconnect, Reconnect
  <2>2. wpa' \in {wpa, [wpa EXCEPT !.online = b]} /\ known' = known
    BY <2>1 DEF Command, Outcome
  <2>3. wpa'.selected = wpa.selected /\ wpa'.nets = wpa.nets
    BY <1>0, <2>2 DEF Process
  <2> QED
    BY <2>2, <2>3 DEF Tracks, Recorded, SelectedExists
<1>6. CASE ScanResults \/ UNCHANGED vars
  BY <1>6 DEF ScanResults, vars, Tracks, Recorded, SelectedExists
<1>7. CASE BackendRestarts
  BY <1>7 DEF BackendRestarts, NewProcess, Tracks, Recorded, SelectedExists
<1> QED
  BY <1>1, <1>2, <1>3, <1>4, <1>5, <1>6, <1>7 DEF Next

\* As long as its commands succeed, no request but LoadNetworks makes the daemon lose
\* track of the network that wpa_supplicant is to use (mod.rs, connect_known,
\* register_known_network and remove_known_network).
THEOREM SelectedAlwaysKnown == Spec => SelectedStaysKnown
<1>1. Init => SelectedExists(wpa)
  BY DEF Init, NewProcess, SelectedExists
<1>2. TypeOK /\ SelectedExists(wpa) /\ [Next]_vars => SelectedExists(wpa)'
  BY StepTracks
<1>3. TypeOK /\ SelectedExists(wpa) /\ [Next]_vars
        => [Recorded /\ loaded' = loaded /\ faults' = faults => Recorded']_vars
  BY StepTracks DEF Tracks
<1> QED
  BY <1>1, <1>2, <1>3, TypeCorrect, PTL DEF Spec, SelectedStaysKnown

-------------------------------------------------------------------------------
(***************************************************************************)
(* What the profile store is promised.                                     *)
(***************************************************************************)

\* A change of the entry of one profile changes its row.
LEMMA RowsUpdate ==
  ASSUME NEW k \in Profile, NEW n, known \in [Profile -> KnownNetwork \cup {None}],
         known' = [known EXCEPT ![k] = n]
  PROVE  Rows' = [Rows EXCEPT ![k] = IF n = None THEN NoRow ELSE n.password]
<1>1. \A j \in Profile : known'[j] = IF j = k THEN n ELSE known[j]
  OBVIOUS
<1> QED
  BY <1>1 DEF Rows

\* Nothing but the four kinds of change is ever seen of a profile and its password.
LEMMA StepKeeps ==
  ASSUME IdsInv, [Next]_vars
  PROVE  [Backend!Next]_(Backend!vars)
<1> USE DEF Backend!vars
<1>1. TypeOK /\ known \in [Profile -> KnownNetwork \cup {None}]
  BY DEF IdsInv, TypeOK
<1>2. \A k \in Profile : known[k] # None => known[k].password \in Password \cup {None}
  BY <1>1 DEF KnownNetwork
<1>3. \A k \in Profile : /\ known[k] = None => Rows[k] = NoRow
                         /\ known[k] # None => Rows[k] = known[k].password /\ Rows[k] # NoRow
  BY <1>2, NoRowIsNoPassword DEF Rows
<1>4. ASSUME NEW k \in Profile, NEW p \in Password \cup {None}, NEW i \in Identity \cup {None},
             NEW a \in BOOLEAN, AddNetwork(k, p, i, a)
      PROVE  Backend!Next
  <2> DEFINE n == Registered(k, p, i, a)
  <2>1. /\ ~LacksSecret(k, n) /\ (k.security = "Psk" => n.password \notin Short)
        /\ known' = [known EXCEPT ![k] = n] /\ loaded' = loaded
    BY <1>4 DEF AddNetwork
  <2>2. n \in KnownNetwork /\ n # None
    BY <1>1, RegisteredType, NoneIsNoNetwork
  <2>3. n.password = Backend!Merged(Rows[k], p)
    BY <1>3 DEF Registered, Backend!Merged
  <2>4. ~Backend!Unusable(k, n.password)
    BY <2>1 DEF LacksSecret, Backend!Unusable
  <2>5. Rows' = [Rows EXCEPT ![k] = n.password]
    BY <1>1, <2>1, <2>2, RowsUpdate
  <2>6. Backend!Add(k, p)
    BY <2>1, <2>3, <2>4, <2>5 DEF Backend!Add
  <2> QED
    BY <2>6 DEF Backend!Next
<1>5. ASSUME NEW k \in Profile, RemoveKnown(k) PROVE Backend!Next
  <2>1. known[k] # None /\ known' = [known EXCEPT ![k] = None] /\ loaded' = loaded
    BY <1>5 DEF RemoveKnown
  <2>2. Rows' = [Rows EXCEPT ![k] = NoRow]
    BY <1>1, <2>1, RowsUpdate
  <2>3. Backend!Remove(k)
    BY <1>3, <2>1, <2>2 DEF Backend!Remove
  <2> QED
    BY <2>3 DEF Backend!Next
<1>6. ASSUME NEW b, NEW bssid, NEW k \in Candidates(b, bssid), Connect(k) PROVE UNCHANGED <<Rows, loaded>>
  <2>1. k \in Profile /\ known[k] \in KnownNetwork
    BY <1>1, <1>6, CandidatesKnown
  <2>2. loaded' = loaded
    BY <1>6 DEF Connect
  <2>3. CASE known' = known
    BY <2>2, <2>3 DEF Rows
  <2>4. ASSUME NEW id \in NetId, known' = [known EXCEPT ![k] = [@ EXCEPT !.id = id, !.state = "Current"]]
        PROVE  UNCHANGED <<Rows, loaded>>
    <3> DEFINE n == [known[k] EXCEPT !.id = id, !.state = "Current"]
    <3>1. n \in KnownNetwork /\ n.password = known[k].password
      BY <2>1 DEF KnownNetwork
    <3>2. n # None
      BY <3>1, NoneIsNoNetwork
    <3>3. known' = [known EXCEPT ![k] = n]
      BY <2>4
    <3>4. Rows' = [Rows EXCEPT ![k] = n.password]
      BY <1>1, <2>1, <3>2, <3>3, RowsUpdate
    <3>5. Rows[k] = n.password
      BY <1>3, <2>1, <3>1, NoneIsNoNetwork
    <3>6. Rows' = Rows
      BY <3>4, <3>5 DEF Rows
    <3> QED
      BY <2>2, <3>6
  <2>5. known' = known \/ \E id \in NetId :
           known' = [known EXCEPT ![k] = [@ EXCEPT !.id = id, !.state = "Current"]]
    BY <1>6 DEF Connect
  <2> QED
    BY <2>3, <2>4, <2>5
<1>7. ASSUME NEW networks \in Loads, NEW p \in Password \cup {None}, NEW i \in Identity \cup {None},
             LoadNetworks(networks, p, i)
      PROVE  Backend!Next
  <2>1. IdsInv'
    BY <1>7, LoadNetworksIds
  <2>2. Rows' \in [Profile -> Backend!Row]
    BY <2>1 DEF IdsInv, TypeOK, KnownNetwork, Rows, Backend!Row
  <2>3. Backend!Load
    BY <1>7, <2>2 DEF LoadNetworks, Backend!Load
  <2> QED
    BY <2>3 DEF Backend!Next
<1>8. CASE Disconnect \/ Reconnect \/ ScanResults
  BY <1>8 DEF Disconnect, Reconnect, ScanResults, Rows
<1>9. CASE BackendRestarts
  <2>1. Backend!Start
    BY <1>9 DEF BackendRestarts, Rows, Backend!Start
  <2> QED
    BY <2>1 DEF Backend!Next
<1>10. CASE UNCHANGED vars
  BY <1>10 DEF vars, Rows
<1> QED
  BY <1>4, <1>5, <1>6, <1>7, <1>8, <1>9, <1>10 DEF Next

\* The backend keeps what the profile store takes it to promise about profiles and their
\* passwords (mod.rs, register_known_network, remove_known_network, load_known_networks),
\* whichever of its commands fail.
THEOREM ProfilesAlwaysKept == Spec => KeepsProfiles
<1>1. Init => Backend!Init
  BY DEF Init, Rows, Backend!Init, Backend!Row
<1> QED
  BY <1>1, StepKeeps, InitIds, NextIds, PTL DEF Spec, KeepsProfiles, Backend!Spec
===============================================================================
