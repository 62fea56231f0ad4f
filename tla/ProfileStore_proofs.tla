-------------------------- MODULE ProfileStore_proofs -------------------------
(***************************************************************************)
(* Proofs about ProfileStore: its types, that a removal is complete, and   *)
(* that what the backend knows is what the next start would load.          *)
(*                                                                         *)
(* The first two are proved together: where a removal stands is in the     *)
(* state of its handler.  The third needs what is between a request and    *)
(* its effects, at every stage of a handler: MemoryInv.                    *)
(***************************************************************************)
EXTENDS ProfileStore, FiniteSetTheorems, TLAPS

\* While nothing has failed every request is about the interface's own MAC.
ScopesKnown == faults = 0 => \A w \in Writer : writer[w].request.scope = Mac

Inv == TypeOK /\ ScopesKnown /\ RemovedIsGone

-------------------------------------------------------------------------------
(***************************************************************************)
(* Types of the values the actions compute.                                *)
(***************************************************************************)
LEMMA IdleType == Idle \in WriterState /\ Idle.at = "idle" /\ Idle.request.scope = Mac /\ NoRequest \in Request
<1>1. NoRequest \in Request
  BY DEF NoRequest, Request, Scope
<1> QED
  BY <1>1 DEF Idle, WriterState, Stage, NoRequest

LEMMA NotLoadingType == NotLoading \in LoaderState
  BY DEF NotLoading, LoaderState, Row

LEMMA SavedType ==
  ASSUME NEW row \in Row, NEW secret \in Secret \cup {None}
  PROVE  Saved(row, secret) \in Row
  BY DEF Saved, Row

LEMMA ContentsType ==
  /\ Empty \in Contents /\ Garbled \in Contents
  /\ \A entries \in SUBSET Key : Whole(entries) \in Contents
  BY DEF Empty, Garbled, Whole, Contents

LEMMA EntriesType == ASSUME TypeOK PROVE Entries(config) \in SUBSET Key
  BY DEF TypeOK, Entries, Contents

LEMMA EditedType ==
  ASSUME NEW entries \in SUBSET Key, NEW r \in Request
  PROVE  Edited(entries, r) \in SUBSET Key
<1>1. UpsertNetwork(entries, r) \in SUBSET Key /\ RemoveEntries(entries, r) \in SUBSET Key
  BY DEF UpsertNetwork, RemoveEntries, Request, Key
<1>2. r.op \in {"Add", "Remove", "Policy"}
  BY DEF Request
<1> QED
  BY <1>1, <1>2 DEF Edited

LEMMA LoadedType ==
  ASSUME NEW rows \in [Key -> Row], NEW entries \in SUBSET Key
  PROVE  Loaded(rows, entries) \in [Profile -> Row]
<1> DEFINE held == {k \in Key : rows[k] # NoRow}
           scope(p, keys) == {s \in Scope : <<s, p>> \in keys /\ InScope(s, keys)}
           of(p) == IF scope(p, held) # {} THEN rows[<<CHOOSE s \in scope(p, held) : TRUE, p>>]
                    ELSE IF scope(p, entries) # {} THEN None ELSE NoRow
<1>1. Loaded(rows, entries) = [p \in Profile |-> of(p)]
  BY DEF Loaded
<1>2. ASSUME NEW p \in Profile PROVE of(p) \in Row
  <2>1. CASE scope(p, held) # {}
    <3>1. PICK s : s \in scope(p, held) /\ s = CHOOSE t \in scope(p, held) : TRUE
      BY <2>1
    <3>2. <<s, p>> \in Key
      BY <3>1 DEF Key
    <3> QED
      BY <2>1, <3>1, <3>2
  <2>2. CASE scope(p, held) = {}
    BY <2>2 DEF Row
  <2> QED
    BY <2>1, <2>2
<1> QED
  BY <1>1, <1>2

\* A save finds a file of its own: there are more files than writers and paths.
LEMMA FreeInode ==
  ASSUME TypeOK, tmp = None
  PROVE  \E i \in Inode : i \notin {config, tmp} \cup {writer[v].file : v \in Writer}
<1> DEFINE others  == Inode \ {config}
           user(i) == CHOOSE v \in Writer : writer[v].file = i
           f       == [i \in others |-> user(i)]
<1>1. IsFiniteSet(Writer) /\ Cardinality(Writer) \in Nat
  BY StoreAssumption, FS_CardinalityType
<1>2. IsFiniteSet(Inode) /\ Cardinality(Inode) = Cardinality(Writer) + 2
  BY <1>1, FS_Interval DEF Inode
<1>3. IsFiniteSet(others) /\ Cardinality(Writer) < Cardinality(others)
  <2>1. IsFiniteSet(others) /\ Cardinality(others) = IF config \in Inode THEN Cardinality(Inode) - 1 ELSE Cardinality(Inode)
    BY <1>2, FS_RemoveElement, Zenon
  <2> QED
    BY <1>1, <1>2, <2>1
<1>4. None \notin Inode
  BY StoreAssumption
<1>5. SUFFICES ASSUME \A i \in others : \E v \in Writer : writer[v].file = i PROVE FALSE
  BY <1>4
<1>6. \A i \in others : f[i] \in Writer /\ writer[f[i]].file = i
  BY <1>5
<1>7. f \in [others -> Writer]
  BY <1>6
<1> HIDE DEF others, f
<1>8. PICK i, j \in others : i # j /\ f[i] = f[j]
  BY <1>1, <1>3, <1>7, FS_PigeonHole, Zenon
<1> QED
  BY <1>6, <1>8

-------------------------------------------------------------------------------
(***************************************************************************)
(* Every step keeps the invariant.                                         *)
(***************************************************************************)
LEMMA InitInv == Init => Inv
<1> SUFFICES ASSUME Init PROVE Inv
  OBVIOUS
<1>1. PICK ps \in SUBSET Profile, secret \in Secret \ Refused :
        LET keys == {None} \X ps
            rowOf(k) == IF k \notin keys THEN NoRow ELSE IF k[2].security = "Psk" THEN secret ELSE None
            file == IF ps = {} THEN None ELSE 1
        IN  /\ credentials = [k \in Key |-> rowOf(k)]
            /\ config = file
            /\ content = [i \in Inode |-> IF i = file THEN Whole(keys) ELSE Empty]
            /\ known = [p \in Profile |-> rowOf(<<None, p>>)]
  BY DEF Init
<1>2. credentials \in [Key -> Row] /\ known \in [Profile -> Row]
  BY <1>1 DEF Row
<1>3. 1 \in Inode
  <2>1. Cardinality(Writer) \in Nat
    BY StoreAssumption, FS_CardinalityType
  <2> QED
    BY <2>1 DEF Inode
<1>4. config \in Inode \cup {None}
  BY <1>1, <1>3
<1>5. {None} \X ps \in SUBSET Key
  BY DEF Key, Scope
<1>6. content \in [Inode -> Contents]
  BY <1>1, <1>5, ContentsType
<1>7. writer \in [Writer -> WriterState] /\ writer[Interfaces].at = "idle" /\ loader \in LoaderState
  BY IdleType, NotLoadingType DEF Init, Writer
<1>8. requests \in 0..MaxRequests /\ faults \in 0..MaxFaults /\ starts \in 0..MaxStarts
  BY StoreAssumption DEF Init
<1>9. tmp = None /\ raced \in BOOLEAN /\ behind \in BOOLEAN /\ removed \subseteq Profile
  BY DEF Init
<1>10. TypeOK
  BY <1>2, <1>4, <1>6, <1>7, <1>8, <1>9 DEF TypeOK
<1> QED
  BY <1>10, IdleType DEF Init, Inv, ScopesKnown, RemovedIsGone

\* The variables of the types that most steps leave alone.
LEMMA BeginInv ==
  ASSUME Inv, NEW w \in Writer, NEW r \in Request, NEW stage \in Stage, Begin(w, r, stage),
         w = Interfaces => stage = "read",
         faults' \in 0..MaxFaults, faults <= faults', faults' = 0 => r.scope = Mac
  PROVE  Inv'
<1>1. writer' = [writer EXCEPT ![w] = [Idle EXCEPT !.at = stage, !.request = r]]
  BY DEF Begin
<1>2. [Idle EXCEPT !.at = stage, !.request = r] \in WriterState
  BY IdleType DEF WriterState
<1>3. writer' \in [Writer -> WriterState]
  BY <1>1, <1>2 DEF Inv, TypeOK
<1>4. writer'[Interfaces].at \in {"idle", "read", "open", "write", "rename"}
  BY <1>1 DEF Inv, TypeOK, Idle
<1>5. raced' \in BOOLEAN
  BY DEF Begin, Inv, TypeOK, Quiet
<1>6. requests' \in 0..MaxRequests
  BY StoreAssumption DEF Begin, Inv, TypeOK
<1>7. TypeOK'
  BY <1>3, <1>4, <1>5, <1>6 DEF Begin, fileVars, Inv, TypeOK
<1>8. ScopesKnown'
  <2> SUFFICES ASSUME faults' = 0, NEW v \in Writer PROVE writer'[v].request.scope = Mac
    BY DEF ScopesKnown
  <2>1. faults = 0
    BY DEF Inv, TypeOK
  <2>2. [Idle EXCEPT !.at = stage, !.request = r].request = r
    BY DEF Idle
  <2> QED
    BY <1>1, <2>1, <2>2 DEF Inv, TypeOK, ScopesKnown
<1>9. RemovedIsGone'
  <2> SUFFICES ASSUME faults' = 0, NEW p \in removed
               PROVE  /\ credentials[<<Mac, p>>] = NoRow
                      /\ \/ credentials[<<None, p>>] = NoRow
                         \/ \E h \in Handler : writer'[h].at = "legacy" /\ p \in writer'[h].request.profiles
    BY DEF RemovedIsGone, Begin, fileVars
  <2>1. faults = 0
    BY DEF Inv, TypeOK
  <2>2. \A h \in Handler : writer[h].at = "legacy" => writer'[h] = writer[h]
    BY <1>1 DEF Begin, Inv, TypeOK, Writer
  <2> QED
    BY <2>1, <2>2 DEF Inv, RemovedIsGone
<1> QED
  BY <1>7, <1>8, <1>9 DEF Inv

\* A step of a writer other than those that write the credentials: where it leaves its
\* request or ends it, no removal is undone.
LEMMA OtherStep ==
  ASSUME Inv, NEW w \in Writer, NEW s \in WriterState,
         writer' = [writer EXCEPT ![w] = s], s.request \in {writer[w].request, NoRequest},
         writer[w].at # "legacy", w = Interfaces => s.at \in {"idle", "read", "open", "write", "rename"},
         credentials' = credentials, removed' = removed, faults' \in 0..MaxFaults, faults <= faults'
  PROVE  /\ writer' \in [Writer -> WriterState]
         /\ writer'[Interfaces].at \in {"idle", "read", "open", "write", "rename"}
         /\ ScopesKnown' /\ RemovedIsGone'
<1>1. writer' \in [Writer -> WriterState] /\ writer'[Interfaces].at \in {"idle", "read", "open", "write", "rename"}
  BY DEF Inv, TypeOK, Writer
<1>2. faults' = 0 => faults = 0
  <2>1. faults \in Nat /\ faults' \in Nat
    BY StoreAssumption DEF Inv, TypeOK
  <2> QED
    BY <2>1
<1>3. ScopesKnown'
  <2> SUFFICES ASSUME faults' = 0, NEW v \in Writer PROVE writer'[v].request.scope = Mac
    BY DEF ScopesKnown
  <2>1. writer[v].request.scope = Mac /\ writer[w].request.scope = Mac
    BY <1>2 DEF Inv, ScopesKnown
  <2>2. s.request.scope = Mac
    <3>1. NoRequest.scope = Mac
      BY DEF NoRequest
    <3> QED
      BY <2>1, <3>1
  <2> QED
    BY <2>1, <2>2 DEF Inv, TypeOK
<1>4. \A h \in Handler : writer[h].at = "legacy" => writer'[h] = writer[h]
  BY DEF Inv, TypeOK, Writer
<1>5. RemovedIsGone'
  BY <1>2, <1>4 DEF Inv, RemovedIsGone
<1> QED
  BY <1>1, <1>3, <1>5

\* A failure is counted; success changes nothing.
LEMMA FaultsType ==
  ASSUME TypeOK, Succeeds \/ Fails
  PROVE  faults' \in 0..MaxFaults /\ faults <= faults' /\ (faults' = 0 => faults = 0 /\ ~Fails)
  BY StoreAssumption DEF TypeOK, Succeeds, Fails, Fault

LEMMA SaveCredentialInv ==
  ASSUME Inv, NEW h \in Handler, SaveCredential(h)
  PROVE  Inv'
<1> DEFINE r == writer[h].request
<1>1. h \in Writer /\ h # Interfaces /\ writer[h] \in WriterState /\ r \in Request /\ writer[h].at = "save"
  BY StoreAssumption DEF SaveCredential, Inv, TypeOK, Writer, WriterState
<1>2. faults' \in 0..MaxFaults /\ faults <= faults' /\ (faults' = 0 => faults = 0 /\ ~Fails)
  BY FaultsType DEF SaveCredential, Inv
<1>3. writer' = [writer EXCEPT ![h].at = "read"]
  BY DEF SaveCredential, Goes
<1>4. writer' \in [Writer -> WriterState] /\ writer'[Interfaces] = writer[Interfaces]
  BY <1>1, <1>3 DEF Inv, TypeOK, WriterState, Stage, Writer
<1>5. credentials' \in [Key -> Row]
  <2>1. \A k \in Key : Saved(credentials[k], r.secret) \in Row
    BY <1>1, SavedType DEF Inv, TypeOK, Request
  <2> QED
    BY <2>1 DEF SaveCredential, Inv, TypeOK
<1>6. removed' \subseteq Profile /\ requests' = requests /\ starts' = starts /\ raced' = raced /\ behind' = behind
  BY DEF SaveCredential, Inv, TypeOK
<1>7. TypeOK'
  BY <1>2, <1>4, <1>5, <1>6 DEF SaveCredential, fileVars, Inv, TypeOK
<1>8. ScopesKnown'
  BY <1>1, <1>2, <1>3 DEF Inv, TypeOK, WriterState, ScopesKnown
<1>9. RemovedIsGone'
  <2> SUFFICES ASSUME faults' = 0 PROVE RemovedIsGone'
    BY DEF RemovedIsGone
  <2>1. faults = 0 /\ r.scope = Mac
    BY <1>1, <1>2 DEF Inv, ScopesKnown
  <2>2. /\ credentials' = [k \in Key |->
                 IF k \in {Mac} \X r.profiles THEN Saved(credentials[k], r.secret) ELSE credentials[k]]
        /\ removed' = removed \ r.profiles
    BY <2>1, <1>2 DEF SaveCredential
  <2>3. \A g \in Handler : writer[g].at = "legacy" => writer'[g] = writer[g]
    BY <1>1, <1>3 DEF Inv, TypeOK, Writer
  <2>4. \A p \in removed' : credentials'[<<Mac, p>>] = credentials[<<Mac, p>>] /\ credentials'[<<None, p>>] = credentials[<<None, p>>]
    BY <2>2, StoreAssumption DEF Inv, TypeOK, Key, Scope
  <2> QED
    BY <2>1, <2>2, <2>3, <2>4 DEF Inv, RemovedIsGone
<1> QED
  BY <1>7, <1>8, <1>9 DEF Inv

LEMMA RemoveCredentialInv ==
  ASSUME Inv, NEW h \in Handler, RemoveCredential(h)
  PROVE  Inv'
<1> DEFINE r == writer[h].request
           next == IF r.scope = None THEN "read" ELSE "legacy"
<1>1. h \in Writer /\ h # Interfaces /\ writer[h] \in WriterState /\ r \in Request /\ writer[h].at = "erase"
  BY StoreAssumption DEF RemoveCredential, Inv, TypeOK, Writer, WriterState
<1>2. faults' \in 0..MaxFaults /\ faults <= faults' /\ (faults' = 0 => faults = 0 /\ ~Fails)
  BY FaultsType DEF RemoveCredential, Inv
<1>3. writer' = [writer EXCEPT ![h].at = next]
  BY DEF RemoveCredential, Goes
<1>4. writer' \in [Writer -> WriterState] /\ writer'[Interfaces] = writer[Interfaces]
  BY <1>1, <1>3 DEF Inv, TypeOK, WriterState, Stage, Writer
<1>5. credentials' \in [Key -> Row] /\ removed' \subseteq Profile
  BY <1>1 DEF RemoveCredential, Erase, Inv, TypeOK, Row, Request
<1>6. requests' = requests /\ starts' = starts /\ raced' = raced /\ behind' = behind
  BY DEF RemoveCredential
<1>7. TypeOK'
  BY <1>2, <1>4, <1>5, <1>6 DEF RemoveCredential, fileVars, Inv, TypeOK
<1>8. ScopesKnown'
  BY <1>1, <1>2, <1>3 DEF Inv, TypeOK, WriterState, ScopesKnown
<1>9. RemovedIsGone'
  <2> SUFFICES ASSUME faults' = 0 PROVE RemovedIsGone'
    BY DEF RemovedIsGone
  <2>1. faults = 0 /\ r.scope = Mac
    BY <1>1, <1>2 DEF Inv, ScopesKnown
  <2>2. /\ credentials' = [k \in Key |-> IF k \in {Mac} \X r.profiles THEN NoRow ELSE credentials[k]]
        /\ removed' = removed \cup r.profiles
    BY <2>1, <1>2 DEF RemoveCredential, Erase
  <2>3. writer'[h].at = "legacy" /\ writer'[h].request = r
    BY <2>1, <1>1, <1>3, StoreAssumption DEF Inv, TypeOK, WriterState
  <2>4. \A g \in Handler : writer[g].at = "legacy" => writer'[g] = writer[g]
    BY <1>1, <1>3 DEF Inv, TypeOK, Writer
  <2>5. \A p \in r.profiles : credentials'[<<Mac, p>>] = NoRow
    BY <1>1, <2>2 DEF Key, Scope, Request
  <2>6. \A p \in removed \ r.profiles :
          credentials'[<<Mac, p>>] = credentials[<<Mac, p>>] /\ credentials'[<<None, p>>] = credentials[<<None, p>>]
    BY <2>2 DEF Inv, TypeOK, Key, Scope
  <2> QED
    BY <2>1, <2>2, <2>3, <2>4, <2>5, <2>6 DEF Inv, RemovedIsGone
<1> QED
  BY <1>7, <1>8, <1>9 DEF Inv

LEMMA RemoveLegacyInv ==
  ASSUME Inv, NEW h \in Handler, RemoveLegacy(h)
  PROVE  Inv'
<1> DEFINE r == writer[h].request
<1>1. h \in Writer /\ h # Interfaces /\ writer[h] \in WriterState /\ r \in Request
  BY StoreAssumption DEF RemoveLegacy, Inv, TypeOK, Writer, WriterState
<1>2. faults' \in 0..MaxFaults /\ faults <= faults' /\ (faults' = 0 => faults = 0 /\ ~Fails)
  BY FaultsType DEF RemoveLegacy, Inv
<1>3. writer' = [writer EXCEPT ![h].at = "read"]
  BY DEF RemoveLegacy, Goes
<1>4. writer' \in [Writer -> WriterState] /\ writer'[Interfaces] = writer[Interfaces]
  BY <1>1, <1>3 DEF Inv, TypeOK, WriterState, Stage, Writer
<1>5. credentials' \in [Key -> Row]
  BY DEF RemoveLegacy, Erase, Inv, TypeOK, Row
<1>6. removed' = removed /\ requests' = requests /\ starts' = starts /\ raced' = raced /\ behind' = behind
  BY DEF RemoveLegacy
<1>7. TypeOK'
  BY <1>2, <1>4, <1>5, <1>6 DEF RemoveLegacy, fileVars, Inv, TypeOK
<1>8. ScopesKnown'
  BY <1>1, <1>2, <1>3 DEF Inv, TypeOK, WriterState, ScopesKnown
<1>9. RemovedIsGone'
  <2> SUFFICES ASSUME faults' = 0, NEW p \in removed
               PROVE  /\ credentials'[<<Mac, p>>] = NoRow
                      /\ \/ credentials'[<<None, p>>] = NoRow
                         \/ \E g \in Handler : writer'[g].at = "legacy" /\ p \in writer'[g].request.profiles
    BY <1>6 DEF RemovedIsGone
  <2>1. faults = 0
    BY <1>2
  <2>2. credentials' = [k \in Key |-> IF k \in {None} \X r.profiles THEN NoRow ELSE credentials[k]]
    BY <2>1, <1>2 DEF RemoveLegacy, Erase
  <2>3. <<Mac, p>> \in Key /\ <<None, p>> \in Key
    BY DEF Inv, TypeOK, Key, Scope
  <2>4. credentials[<<Mac, p>>] = NoRow
    BY <2>1 DEF Inv, RemovedIsGone
  <2>5. credentials'[<<Mac, p>>] = NoRow
    BY <2>2, <2>3, <2>4
  <2>6. CASE p \in r.profiles
    BY <2>2, <2>3, <2>5, <2>6
  <2>7. CASE p \notin r.profiles
    <3>1. credentials'[<<None, p>>] = credentials[<<None, p>>]
      BY <2>2, <2>3, <2>7
    <3>2. \A g \in Handler : g # h => writer'[g] = writer[g]
      BY <1>3 DEF Inv, TypeOK, Writer
    <3> QED
      BY <2>1, <2>5, <2>7, <3>1, <3>2 DEF Inv, RemovedIsGone
  <2> QED
    BY <2>6, <2>7
<1> QED
  BY <1>7, <1>8, <1>9 DEF Inv

LEMMA ReadConfigInv ==
  ASSUME Inv, NEW w \in Writer, ReadConfig(w)
  PROVE  Inv'
<1> DEFINE edited == Edited(Entries(config), writer[w].request)
<1>1. writer[w] \in WriterState /\ writer[w].request \in Request
  BY DEF Inv, TypeOK, WriterState
<1>2. edited \in SUBSET Key
  BY <1>1, EntriesType, EditedType DEF Inv
<1>3. /\ UNCHANGED <<credentials, content, config, tmp, loader, known, requests, faults, starts, raced, behind, removed>>
      /\ writer[w].at = "read"
  BY DEF ReadConfig, fileVars, bounds
<1>4. PICK s \in WriterState :
        /\ writer' = [writer EXCEPT ![w] = s] /\ s.request \in {writer[w].request, NoRequest}
        /\ s.at \in {"idle", "read", "open", "write", "rename"}
  <2>1. CASE writer' = [writer EXCEPT ![w].at = "open", ![w].networks = edited]
    <3>1. [writer[w] EXCEPT !.at = "open", !.networks = edited] \in WriterState
      BY <1>1, <1>2 DEF WriterState, Stage
    <3>2. writer' = [writer EXCEPT ![w] = [writer[w] EXCEPT !.at = "open", !.networks = edited]]
      BY <2>1 DEF Inv, TypeOK
    <3> QED
      BY <1>1, <3>1, <3>2 DEF WriterState
  <2>2. CASE writer' = [writer EXCEPT ![w] = Idle]
    BY <2>2, IdleType DEF Idle
  <2> QED
    BY <2>1, <2>2 DEF ReadConfig
<1>5. faults' \in 0..MaxFaults /\ faults <= faults'
  BY <1>3, StoreAssumption DEF Inv, TypeOK
<1>6. /\ writer' \in [Writer -> WriterState]
      /\ writer'[Interfaces].at \in {"idle", "read", "open", "write", "rename"}
      /\ ScopesKnown' /\ RemovedIsGone'
  BY <1>3, <1>4, <1>5, OtherStep
<1> QED
  BY <1>3, <1>6 DEF Inv, TypeOK

\* The end of a save.
LEMMA EndSaveStep ==
  ASSUME Inv, NEW w \in Writer, EndSave(w)
  PROVE  \E s \in WriterState :
           /\ writer' = [writer EXCEPT ![w] = s] /\ s.request \in {writer[w].request, NoRequest}
           /\ w = Interfaces => s.at = "idle"
<1>1. writer[w] \in WriterState
  BY DEF Inv, TypeOK
<1>2. CASE w = Interfaces
  BY <1>2, IdleType DEF EndSave, Idle
<1>3. CASE w # Interfaces
  <2>1. [writer[w] EXCEPT !.at = "forward", !.networks = {}] \in WriterState
    BY <1>1 DEF WriterState, Stage
  <2>2. writer' = [writer EXCEPT ![w] = [writer[w] EXCEPT !.at = "forward", !.networks = {}]]
    BY <1>3 DEF EndSave, Inv, TypeOK
  <2> QED
    BY <1>1, <1>3, <2>1, <2>2 DEF WriterState
<1> QED
  BY <1>2, <1>3

LEMMA OpenTempInv ==
  ASSUME Inv, NEW w \in Writer, OpenTemp(w)
  PROVE  Inv'
<1> DEFINE used  == {config, tmp} \cup {writer[v].file : v \in Writer}
           inode == IF tmp # None THEN tmp ELSE CHOOSE i \in Inode : i \notin used
<1>1. writer[w] \in WriterState /\ writer[w].at = "open"
  BY DEF Inv, TypeOK, OpenTemp
<1>2. inode \in Inode
  <2>1. CASE tmp # None
    BY <2>1 DEF Inv, TypeOK
  <2>2. CASE tmp = None
    <3>1. \E i \in Inode : i \notin used
      BY <2>2, FreeInode DEF Inv
    <3> QED
      BY <2>2, <3>1
  <2> QED
    BY <2>1, <2>2
<1>3. UNCHANGED <<credentials, config, loader, known, requests, starts, raced, behind, removed>>
  BY DEF OpenTemp
<1>4. faults' \in 0..MaxFaults /\ faults <= faults'
  BY FaultsType DEF OpenTemp, Inv
<1>5. \/ /\ tmp' = inode /\ content' = [content EXCEPT ![inode] = Empty]
         /\ writer' = [writer EXCEPT ![w].at = "write", ![w].file = inode]
      \/ EndSave(w) /\ UNCHANGED <<content, tmp>>
  BY DEF OpenTemp
<1>6. content' \in [Inode -> Contents] /\ tmp' \in Inode \cup {None}
  BY <1>2, <1>5, ContentsType DEF Inv, TypeOK
<1>7. \E s \in WriterState :
        /\ writer' = [writer EXCEPT ![w] = s] /\ s.request \in {writer[w].request, NoRequest}
        /\ w = Interfaces => s.at \in {"idle", "read", "open", "write", "rename"}
  <2>1. CASE writer' = [writer EXCEPT ![w].at = "write", ![w].file = inode]
    <3> HIDE DEF inode
    <3>1. [writer[w] EXCEPT !.at = "write", !.file = inode] \in WriterState
      BY <1>1, <1>2 DEF WriterState, Stage
    <3>2. writer' = [writer EXCEPT ![w] = [writer[w] EXCEPT !.at = "write", !.file = inode]]
      BY <2>1 DEF Inv, TypeOK
    <3> QED
      BY <1>1, <3>1, <3>2 DEF WriterState
  <2>2. CASE EndSave(w)
    BY <2>2, EndSaveStep
  <2> QED
    BY <1>5, <2>1, <2>2
<1>8. /\ writer' \in [Writer -> WriterState]
      /\ writer'[Interfaces].at \in {"idle", "read", "open", "write", "rename"}
      /\ ScopesKnown' /\ RemovedIsGone'
  BY <1>1, <1>3, <1>4, <1>7, OtherStep
<1> QED
  BY <1>3, <1>4, <1>6, <1>8 DEF Inv, TypeOK

LEMMA WriteTempInv ==
  ASSUME Inv, NEW w \in Writer, WriteTemp(w)
  PROVE  Inv'
<1>1. writer[w] \in WriterState /\ writer[w].at = "write" /\ writer[w].networks \in SUBSET Key
  BY DEF Inv, TypeOK, WriteTemp, WriterState
<1>2. UNCHANGED <<credentials, config, tmp, loader, known, requests, faults, starts, raced, behind, removed>>
  BY DEF WriteTemp, bounds
<1>3. content' \in [Inode -> Contents]
  BY <1>1, ContentsType DEF WriteTemp, Inv, TypeOK
<1>4. PICK s \in WriterState :
        /\ writer' = [writer EXCEPT ![w] = s] /\ s.request \in {writer[w].request, NoRequest}
        /\ s.at \in {"idle", "read", "open", "write", "rename"}
  <2>1. [writer[w] EXCEPT !.at = "rename", !.file = None] \in WriterState
    BY <1>1 DEF WriterState, Stage
  <2>2. writer' = [writer EXCEPT ![w] = [writer[w] EXCEPT !.at = "rename", !.file = None]]
    BY DEF WriteTemp, Inv, TypeOK
  <2> QED
    BY <1>1, <2>1, <2>2 DEF WriterState
<1>5. faults' \in 0..MaxFaults /\ faults <= faults'
  BY <1>2, StoreAssumption DEF Inv, TypeOK
<1>6. /\ writer' \in [Writer -> WriterState]
      /\ writer'[Interfaces].at \in {"idle", "read", "open", "write", "rename"}
      /\ ScopesKnown' /\ RemovedIsGone'
  BY <1>1, <1>2, <1>4, <1>5, OtherStep
<1> QED
  BY <1>2, <1>3, <1>6 DEF Inv, TypeOK

LEMMA RenameTempInv ==
  ASSUME Inv, NEW w \in Writer, RenameTemp(w)
  PROVE  Inv'
<1>1. writer[w].at = "rename" /\ EndSave(w)
  BY DEF RenameTemp
<1>2. UNCHANGED <<credentials, content, loader, known, requests, faults, starts, raced, behind, removed>>
  BY DEF RenameTemp, bounds
<1>3. config' \in Inode \cup {None} /\ tmp' \in Inode \cup {None}
  BY DEF RenameTemp, Inv, TypeOK
<1>4. faults' \in 0..MaxFaults /\ faults <= faults'
  BY <1>2, StoreAssumption DEF Inv, TypeOK
<1>5. /\ writer' \in [Writer -> WriterState]
      /\ writer'[Interfaces].at \in {"idle", "read", "open", "write", "rename"}
      /\ ScopesKnown' /\ RemovedIsGone'
  BY <1>1, <1>2, <1>4, EndSaveStep, OtherStep
<1> QED
  BY <1>2, <1>3, <1>5 DEF Inv, TypeOK

\* Requests begin in the scope of the MAC, or a failure is counted.
LEMMA InterfaceMacOutcome ==
  ASSUME Inv, NEW scope \in Scope, InterfaceMac(scope)
  PROVE  faults' \in 0..MaxFaults /\ faults <= faults' /\ (faults' = 0 => scope = Mac)
<1>1. CASE Fails
  BY <1>1, FaultsType DEF Inv
<1>2. CASE scope = Mac /\ Succeeds
  BY <1>2, FaultsType DEF Inv
<1> QED
  BY <1>1, <1>2 DEF InterfaceMac

LEMMA AddNetworkInv ==
  ASSUME Inv, NEW h \in Handler, AddNetwork(h)
  PROVE  Inv'
<1>1. PICK p \in Profile, secret \in Secret \cup {None}, scope \in Scope :
        /\ InterfaceMac(scope)
        /\ Begin(h, [op |-> "Add", profiles |-> {p}, secret |-> secret, scope |-> scope], "save")
  BY DEF AddNetwork
<1> DEFINE r == [op |-> "Add", profiles |-> {p}, secret |-> secret, scope |-> scope]
<1>2. r \in Request /\ r.scope = scope /\ "save" \in Stage
  BY DEF Request, Stage
<1>3. h \in Writer /\ h # Interfaces
  BY StoreAssumption DEF Writer
<1> HIDE DEF r
<1> QED
  BY <1>1, <1>2, <1>3, InterfaceMacOutcome, BeginInv DEF r

LEMMA RemoveNetworkInv ==
  ASSUME Inv, NEW h \in Handler, RemoveNetwork(h)
  PROVE  Inv'
<1>1. PICK p \in Profile, all \in BOOLEAN, scope \in Scope :
        /\ InterfaceMac(scope)
        /\ Begin(h, [op |-> "Remove", secret |-> None, scope |-> scope,
                     profiles |-> IF all THEN {q \in Profile : q.ssid = p.ssid} ELSE {p}], "erase")
  BY DEF RemoveNetwork
<1> DEFINE ps == IF all THEN {q \in Profile : q.ssid = p.ssid} ELSE {p}
           r  == [op |-> "Remove", secret |-> None, scope |-> scope, profiles |-> ps]
<1>2. ps \subseteq Profile
  OBVIOUS
<1>3. r \in Request /\ r.scope = scope /\ "erase" \in Stage
  <2> HIDE DEF ps
  <2> QED
    BY <1>2 DEF Request, Stage
<1>4. h \in Writer /\ h # Interfaces
  BY StoreAssumption DEF Writer
<1>5. Begin(h, r, "erase")
  BY <1>1
<1> HIDE DEF r
<1> QED
  BY <1>1, <1>3, <1>4, <1>5, InterfaceMacOutcome, BeginInv

LEMMA SavePolicyInv == ASSUME Inv, SavePolicy PROVE Inv'
<1>1. Interfaces \in Writer /\ NoRequest \in Request /\ "read" \in Stage /\ NoRequest.scope = Mac
  BY IdleType DEF Writer, Stage, NoRequest
<1>2. faults' \in 0..MaxFaults /\ faults <= faults'
  BY StoreAssumption DEF SavePolicy, Inv, TypeOK
<1> QED
  BY <1>1, <1>2, BeginInv DEF SavePolicy

LEMMA ForwardInv ==
  ASSUME Inv, NEW h \in Handler, Forward(h)
  PROVE  Inv'
<1>1. h \in Writer /\ h # Interfaces /\ writer[h] \in WriterState /\ writer[h].request \in Request
  BY StoreAssumption DEF Inv, TypeOK, Writer, WriterState
<1>2. writer[h].at = "forward" /\ writer' = [writer EXCEPT ![h] = Idle]
  BY DEF Forward
<1>3. UNCHANGED <<credentials, content, config, tmp, loader, requests, starts, raced, removed>>
  BY DEF Forward, fileVars
<1>4. faults' \in 0..MaxFaults /\ faults <= faults'
  BY FaultsType DEF Forward, Inv
<1>5. known' \in [Profile -> Row] /\ behind' \in BOOLEAN
  <2>1. CASE ForwardAdd(writer[h].request)
    <3>1. PICK p \in writer[h].request.profiles, secret \in Row :
            \/ behind' = TRUE /\ known' = known
            \/ known' = [known EXCEPT ![p] = secret] /\ behind' = behind
      <4>1. PICK p \in writer[h].request.profiles :
              LET secret == IF writer[h].request.secret = None /\ known[p] # NoRow
                            THEN known[p] ELSE writer[h].request.secret
              IN  IF Unusable(p, secret)
                  THEN behind' = TRUE /\ known' = known
                  ELSE known' = [known EXCEPT ![p] = secret] /\ behind' = behind
        BY <2>1 DEF ForwardAdd
      <4>2. p \in Profile /\ writer[h].request.secret \in Row /\ known[p] \in Row
        BY <1>1 DEF Request, Row, Inv, TypeOK
      <4> QED
        BY <4>1, <4>2
    <3> QED
      BY <3>1 DEF Inv, TypeOK
  <2>2. CASE ForwardRemove(writer[h].request)
    <3>1. known' = known \/ \E p \in Profile : known' = [known EXCEPT ![p] = NoRow]
      BY <1>1, <2>2 DEF ForwardRemove, Request
    <3>2. behind' \in BOOLEAN
      BY <2>2 DEF ForwardRemove, Inv, TypeOK
    <3> QED
      BY <3>1, <3>2 DEF Inv, TypeOK, Row
  <2>3. CASE UNCHANGED <<known, behind>>
    BY <2>3 DEF Inv, TypeOK
  <2> QED
    BY <2>1, <2>2, <2>3 DEF Forward
<1>6. /\ writer' \in [Writer -> WriterState]
      /\ writer'[Interfaces].at \in {"idle", "read", "open", "write", "rename"}
      /\ ScopesKnown' /\ RemovedIsGone'
  <2>1. Idle \in WriterState /\ Idle.request \in {writer[h].request, NoRequest}
    BY IdleType DEF Idle
  <2> QED
    BY <1>1, <1>2, <1>3, <1>4, <2>1, OtherStep
<1> QED
  BY <1>3, <1>4, <1>5, <1>6 DEF Inv, TypeOK

\* The daemon, which reads the stores, takes no part in removals.
LEMMA LoadStep ==
  ASSUME Inv, UNCHANGED <<credentials, fileVars, writer, requests, removed>>,
         faults' \in 0..MaxFaults, faults <= faults', starts' \in 0..MaxStarts,
         loader' \in LoaderState, known' \in [Profile -> Row], raced' \in BOOLEAN, behind' \in BOOLEAN
  PROVE  Inv'
<1>1. TypeOK'
  BY DEF Inv, TypeOK, fileVars
<1>2. faults' = 0 => faults = 0
  <2>1. faults \in Nat /\ faults' \in Nat
    BY StoreAssumption DEF Inv, TypeOK
  <2> QED
    BY <2>1
<1>3. ScopesKnown' /\ RemovedIsGone'
  BY <1>2 DEF Inv, ScopesKnown, RemovedIsGone
<1> QED
  BY <1>1, <1>3 DEF Inv

LEMMA LoadInv == ASSUME Inv, Load PROVE Inv'
<1>1. \A p \in Profile : NoRow \in Row
  BY DEF Row
<1>2. starts \in 0..MaxStarts /\ faults \in 0..MaxFaults /\ MaxStarts \in Nat /\ MaxFaults \in Nat
  BY StoreAssumption DEF Inv, TypeOK
<1>3. CASE StartBackend
  <2>1. UNCHANGED <<credentials, fileVars, writer, requests, removed>> /\ faults' = faults /\ behind' \in BOOLEAN
    BY <1>3 DEF StartBackend, Inv, TypeOK
  <2>2. starts' \in 0..MaxStarts
    BY <1>2, <1>3 DEF StartBackend
  <2>3. loader' \in LoaderState /\ known' \in [Profile -> Row]
    BY <1>1, <1>3, NotLoadingType DEF StartBackend, LoaderState
  <2>4. raced' \in BOOLEAN
    BY <1>3 DEF StartBackend, Quiet
  <2> QED
    BY <1>2, <2>1, <2>2, <2>3, <2>4, LoadStep
<1>4. CASE LoadCredentials
  <2>1. /\ UNCHANGED <<credentials, fileVars, writer, requests, starts, removed>>
        /\ known' \in [Profile -> Row] /\ raced' \in BOOLEAN /\ behind' \in BOOLEAN
    BY <1>4 DEF LoadCredentials, Inv, TypeOK
  <2>2. faults' \in 0..MaxFaults /\ faults <= faults'
    BY <1>4, FaultsType DEF LoadCredentials, Inv
  <2>3. loader' \in LoaderState
    BY <1>4 DEF LoadCredentials, Inv, TypeOK, LoaderState
  <2> QED
    BY <1>2, <2>1, <2>2, <2>3, LoadStep
<1>5. CASE LoadConfig
  <2>1. /\ UNCHANGED <<credentials, fileVars, writer, requests, faults, starts, removed>>
        /\ known' \in [Profile -> Row] /\ raced' \in BOOLEAN /\ behind' \in BOOLEAN
    BY <1>5 DEF LoadConfig, bounds, Inv, TypeOK
  <2>2. Loaded(loader.rows, Entries(config)) \in [Profile -> Row]
    BY EntriesType, LoadedType DEF Inv, TypeOK, LoaderState
  <2>3. loader' \in LoaderState
    BY <1>5, <2>2 DEF LoadConfig, Inv, TypeOK, LoaderState
  <2> QED
    BY <1>2, <2>1, <2>3, LoadStep
<1>6. CASE LoadNetworks
  <2>1. UNCHANGED <<credentials, fileVars, writer, requests, starts, removed>> /\ raced' \in BOOLEAN
    BY <1>6 DEF LoadNetworks, Inv, TypeOK
  <2>2. known' \in [Profile -> Row] /\ loader' \in LoaderState /\ behind' \in BOOLEAN
    BY <1>6, NotLoadingType DEF LoadNetworks, Inv, TypeOK, LoaderState
  <2>3. faults' \in 0..MaxFaults /\ faults <= faults'
    BY <1>6, FaultsType DEF LoadNetworks, Inv
  <2> QED
    BY <1>2, <2>1, <2>2, <2>3, LoadStep
<1>7. CASE RestartBackend
  <2>1. UNCHANGED <<credentials, fileVars, writer, requests, faults, removed>> /\ raced' \in BOOLEAN /\ behind' \in BOOLEAN
    BY <1>7 DEF RestartBackend, Inv, TypeOK
  <2>2. starts' \in 0..MaxStarts
    BY <1>2, <1>7 DEF RestartBackend
  <2>3. loader' \in LoaderState /\ known' \in [Profile -> Row]
    BY <1>1, <1>7, NotLoadingType DEF RestartBackend, Inv, TypeOK
  <2> QED
    BY <1>2, <2>1, <2>2, <2>3, LoadStep
<1> QED
  BY <1>3, <1>4, <1>5, <1>6, <1>7 DEF Load

LEMMA CrashInv == ASSUME Inv, Crash PROVE Inv'
<1>1. UNCHANGED <<credentials, fileVars, requests, faults, behind>>
  BY DEF Crash
<1>2. writer' = [w \in Writer |-> Idle] /\ removed' \subseteq removed
  BY DEF Crash
<1>3. writer' \in [Writer -> WriterState] /\ writer'[Interfaces].at = "idle"
  BY <1>2, IdleType DEF Writer
<1>4. starts' \in 0..MaxStarts
  BY StoreAssumption DEF Crash, Inv, TypeOK
<1>5. loader' \in LoaderState /\ known' \in [Profile -> Row] /\ raced' \in BOOLEAN
  BY NotLoadingType DEF Crash, LoaderState, Row
<1>6. TypeOK'
  BY <1>1, <1>2, <1>3, <1>4, <1>5 DEF fileVars, Inv, TypeOK
<1>7. ScopesKnown'
  BY <1>2, IdleType DEF ScopesKnown
<1>8. RemovedIsGone'
  <2> SUFFICES ASSUME faults = 0, NEW p \in removed'
               PROVE  credentials[<<Mac, p>>] = NoRow /\ credentials[<<None, p>>] = NoRow
    BY <1>1 DEF RemovedIsGone
  <2>1. p \in removed /\ ~\E h \in Handler : writer[h].at = "legacy" /\ p \in writer[h].request.profiles
    BY DEF Crash, Writer
  <2> QED
    BY <2>1 DEF Inv, RemovedIsGone
<1> QED
  BY <1>6, <1>7, <1>8 DEF Inv

LEMMA NextInv == Inv /\ [Next]_vars => Inv'
<1> SUFFICES ASSUME Inv, [Next]_vars PROVE Inv'
  OBVIOUS
<1>1. CASE \E h \in Handler : HandlerStep(h)
  BY <1>1, AddNetworkInv, RemoveNetworkInv, SaveCredentialInv, RemoveCredentialInv, RemoveLegacyInv, ForwardInv
     DEF HandlerStep
<1>2. CASE \E w \in Writer : SaveStep(w)
  BY <1>2, ReadConfigInv, OpenTempInv, WriteTempInv, RenameTempInv DEF SaveStep
<1>3. CASE SavePolicy
  BY <1>3, SavePolicyInv
<1>4. CASE Load
  BY <1>4, LoadInv
<1>5. CASE Crash
  BY <1>5, CrashInv
<1>6. CASE UNCHANGED vars
  BY <1>6 DEF vars, fileVars, bounds, Inv, TypeOK, ScopesKnown, RemovedIsGone
<1> QED
  BY <1>1, <1>2, <1>3, <1>4, <1>5, <1>6 DEF Next

-------------------------------------------------------------------------------
\* The stores, the files, the handlers and the loading daemon keep their types; with it,
\* that a save under way always has a file of its own or shares toml.tmp.
THEOREM TypeCorrect == Spec => []TypeOK
<1>1. Inv => TypeOK
  BY DEF Inv
<1> QED
  BY <1>1, InitInv, NextInv, PTL DEF Spec

\* A removal is complete, whatever requests, saves, starts and crashes interleave with
\* it (client.rs, remove_persisted): no later start finds its credential again.
THEOREM RemovedAlwaysGone == Spec => []RemovedIsGone
<1>1. Inv => RemovedIsGone
  BY DEF Inv
<1> QED
  BY <1>1, InitInv, NextInv, PTL DEF Spec

-------------------------------------------------------------------------------
(***************************************************************************)
(* The backend and the stores, as long as nothing has failed and no two    *)
(* activities overlapped.  Then one writer at a time is at work, or the    *)
(* loader is, and what it will make of a profile can be told from where it *)
(* is: so the backend agrees with the stores about every other profile.    *)
(***************************************************************************)
Calm == faults = 0 /\ ~raced

Active(w) == writer[w].at # "idle"

AloneInv ==
  ~raced => /\ loader.at # "idle" => \A w \in Writer : ~Active(w)
            /\ \A v, w \in Writer : Active(v) /\ Active(w) => v = w

LoadingInv ==
  Calm => /\ loader.at = "config" => loader.rows = credentials
          /\ loader.at = "networks" => loader.networks = Loaded(credentials, Entries(config))

FilesInv == tmp # None => tmp # config

\* The requests of the writers, and in which stages they may be.
RequestOK(w) ==
  LET r  == writer[w].request
      at == writer[w].at
  IN  /\ IsFiniteSet(r.profiles)
      /\ at = "idle" => r = NoRequest
      /\ w = Interfaces => r.op = "Policy" /\ r.profiles = {}
      /\ w # Interfaces /\ at # "idle" => r.op \in {"Add", "Remove"}
      /\ at = "save" => r.op = "Add"
      /\ at \in {"erase", "legacy"} => r.op = "Remove"
      /\ r.op = "Add" => \E p \in Profile : r.profiles = {p}

\* What a save under way will make of config.toml.
SavingOK(w) ==
  LET s == writer[w]
  IN  /\ s.at \in {"open", "write", "rename"} => s.networks = Edited(Entries(config), s.request)
      /\ s.at = "write" => s.file = tmp /\ tmp # None /\ content[tmp] = Empty
      /\ s.at = "rename" => tmp # None /\ content[tmp] = Whole(s.networks)

\* p has no legacy entry.
Plain(p) == credentials[<<None, p>>] = NoRow /\ <<None, p>> \notin Entries(config)

\* What the next start makes of such a profile.
OnDisk(p) ==
  IF credentials[<<Mac, p>>] # NoRow THEN credentials[<<Mac, p>>]
  ELSE IF <<Mac, p>> \in Entries(config) THEN None ELSE NoRow

\* The secret that the backend will take for an addition.
Taken(r, p) == IF r.secret = None /\ known[p] # NoRow THEN known[p] ELSE r.secret

AfterSave == {"read", "open", "write", "rename", "forward"}

\* What a request has made of the stores.
StoredOK(w, p) ==
  LET r  == writer[w].request
      at == writer[w].at
  IN  /\ r.op = "Add" /\ at \in AfterSave =>
           /\ credentials[<<Mac, p>>] # NoRow
           /\ ~behind /\ Plain(p) => Taken(r, p) = credentials[<<Mac, p>>]
      /\ r.op = "Remove" /\ at \in AfterSave \cup {"legacy"} => credentials[<<Mac, p>>] = NoRow
      /\ r.op = "Remove" /\ at = "forward" => <<Mac, p>> \notin Entries(config)

WritersInv ==
  \A w \in Writer :
    /\ RequestOK(w)
    /\ Calm => SavingOK(w) /\ \A p \in writer[w].request.profiles : StoredOK(w, p)

\* w has not begun to change p.
Leaves(w, p) == p \in writer[w].request.profiles => writer[w].at \in {"idle", "save", "erase"}

MatchInv ==
  Calm /\ ~behind /\ loader.at = "idle" =>
    \A p \in Profile : Plain(p) /\ (\A w \in Writer : Leaves(w, p)) => known[p] = OnDisk(p)

MemoryInv == AloneInv /\ LoadingInv /\ FilesInv /\ WritersInv /\ MatchInv

\* Without legacy entries the next start reads the rows and entries of the interface.
LEMMA LoadedPlain ==
  ASSUME NEW rows, NEW entries, NEW p \in Profile,
         rows[<<None, p>>] = NoRow, <<None, p>> \notin entries
  PROVE  Loaded(rows, entries)[p] = IF rows[<<Mac, p>>] # NoRow THEN rows[<<Mac, p>>]
                                    ELSE IF <<Mac, p>> \in entries THEN None ELSE NoRow
<1> DEFINE held == {k \in Key : rows[k] # NoRow}
           scope(keys) == {s \in Scope : <<s, p>> \in keys /\ InScope(s, keys)}
<1>1. Loaded(rows, entries)[p] =
        IF scope(held) # {} THEN rows[<<CHOOSE s \in scope(held) : TRUE, p>>]
        ELSE IF scope(entries) # {} THEN None ELSE NoRow
  BY DEF Loaded
<1>2. <<Mac, p>> \in held <=> rows[<<Mac, p>>] # NoRow
  BY DEF Key, Scope
<1>3. <<None, p>> \notin held
  OBVIOUS
<1>4. \A keys : <<None, p>> \notin keys => scope(keys) = IF <<Mac, p>> \in keys THEN {Mac} ELSE {}
  <2> SUFFICES ASSUME NEW keys, <<None, p>> \notin keys
               PROVE  scope(keys) = IF <<Mac, p>> \in keys THEN {Mac} ELSE {}
    OBVIOUS
  <2>1. InScope(Mac, keys)
    BY DEF InScope
  <2> QED
    BY <2>1 DEF Scope
<1> HIDE DEF held, scope
<1>5. scope(held) = IF rows[<<Mac, p>>] # NoRow THEN {Mac} ELSE {}
  BY <1>2, <1>3, <1>4
<1>6. scope(entries) = IF <<Mac, p>> \in entries THEN {Mac} ELSE {}
  BY <1>4
<1>7. (CHOOSE s \in {Mac} : TRUE) = Mac
  OBVIOUS
<1> QED
  BY <1>1, <1>5, <1>6, <1>7

\* A step of the one writer at work.
LEMMA AloneStep ==
  ASSUME Inv, MemoryInv, NEW w \in Writer, Active(w),
         \A v \in Writer : v # w => writer'[v] = writer[v],
         raced' = raced, loader' = loader, faults' = 0 => faults = 0,
         FilesInv', RequestOK(w)',
         Calm' => SavingOK(w)' /\ \A p \in writer'[w].request.profiles : StoredOK(w, p)',
         Calm' /\ ~behind' => \A p \in Profile : Plain(p)' /\ Leaves(w, p)' => known'[p] = OnDisk(p)'
  PROVE  MemoryInv'
<1>1. AloneInv' /\ LoadingInv'
  BY DEF MemoryInv, AloneInv, LoadingInv, Active, Calm
<1>2. ASSUME NEW v \in Writer, v # w
      PROVE  /\ RequestOK(v)'
             /\ Calm' => SavingOK(v)' /\ \A p \in writer'[v].request.profiles : StoredOK(v, p)'
  <2>1. RequestOK(v)'
    BY <1>2 DEF MemoryInv, WritersInv, RequestOK
  <2>2. ASSUME Calm' PROVE writer'[v].at = "idle" /\ writer'[v].request.profiles = {}
    <3>1. writer[v].at = "idle"
      BY <1>2, <2>2 DEF MemoryInv, AloneInv, Active, Calm
    <3>2. writer[v].request = NoRequest
      BY <3>1 DEF MemoryInv, WritersInv, RequestOK
    <3> QED
      BY <1>2, <3>1, <3>2 DEF NoRequest
  <2>3. Calm' => SavingOK(v)'
    BY <2>2 DEF SavingOK
  <2> QED
    BY <2>1, <2>2, <2>3
<1>3. WritersInv'
  BY <1>2 DEF WritersInv
<1>4. MatchInv'
  BY DEF MatchInv
<1> QED
  BY <1>1, <1>3, <1>4 DEF MemoryInv

\* The one writer at work leaves it to others to be at work, so the backend agrees with the
\* stores about every profile it leaves alone.
LEMMA AloneKnows ==
  ASSUME MemoryInv, Calm, NEW w \in Writer, Active(w)
  PROVE  /\ loader.at = "idle"
         /\ ~behind => \A p \in Profile : Plain(p) /\ Leaves(w, p) => known[p] = OnDisk(p)
<1>1. loader.at = "idle" /\ \A v \in Writer : v # w => ~Active(v)
  BY DEF MemoryInv, AloneInv, Calm
<1>2. \A v \in Writer, p \in Profile : v # w => Leaves(v, p)
  BY <1>1 DEF Leaves, Active
<1> QED
  BY <1>1, <1>2 DEF MemoryInv, MatchInv
\* A request begins.
LEMMA BeginMemory ==
  ASSUME Inv, MemoryInv, NEW w \in Writer, NEW r \in Request, NEW stage \in {"save", "erase", "read"},
         Begin(w, r, stage), RequestOK(w)', stage = "read" => r.profiles = {}, faults' = 0 => faults = 0
  PROVE  MemoryInv'
<1>1. writer' = [writer EXCEPT ![w] = [Idle EXCEPT !.at = stage, !.request = r]]
  BY DEF Begin
<1>2. /\ UNCHANGED <<credentials, content, config, tmp, loader, known, behind>>
      /\ writer[w].at = "idle" /\ (~raced' => ~raced /\ Quiet)
  BY DEF Begin, fileVars
<1>3. /\ writer'[w].at = stage /\ writer'[w].request = r
      /\ \A v \in Writer : v # w => writer'[v] = writer[v]
  BY <1>1 DEF Inv, TypeOK, Idle
<1>4. ~raced' => loader.at = "idle" /\ \A v \in Writer : ~Active(v) /\ writer[v].request.profiles = {}
  BY <1>2 DEF Quiet, Active, MemoryInv, WritersInv, RequestOK, NoRequest
<1>5. AloneInv' /\ LoadingInv' /\ FilesInv'
  BY <1>2, <1>3, <1>4 DEF AloneInv, Active, LoadingInv, Calm, FilesInv, MemoryInv
<1>6. WritersInv'
  <2>1. RequestOK(w)' /\ (SavingOK(w) /\ \A p \in writer[w].request.profiles : StoredOK(w, p))'
    BY <1>3 DEF SavingOK, StoredOK, AfterSave
  <2>2. ASSUME NEW v \in Writer, v # w
        PROVE  /\ RequestOK(v)'
               /\ Calm' => SavingOK(v)' /\ \A p \in writer'[v].request.profiles : StoredOK(v, p)'
    <3>1. RequestOK(v)'
      BY <1>3, <2>2 DEF MemoryInv, WritersInv, RequestOK
    <3>2. Calm' => writer'[v].at = "idle" /\ writer'[v].request.profiles = {}
      BY <1>3, <1>4, <2>2 DEF Active, Calm
    <3>3. Calm' => SavingOK(v)'
      BY <3>2 DEF SavingOK
    <3> QED
      BY <3>1, <3>2, <3>3
  <2> QED
    BY <2>1, <2>2 DEF WritersInv
<1>7. MatchInv'
  <2> SUFFICES ASSUME Calm', ~behind', NEW p \in Profile, Plain(p)'
               PROVE  known'[p] = OnDisk(p)'
    BY DEF MatchInv
  <2>1. Calm /\ ~behind /\ loader.at = "idle" /\ Plain(p)
    BY <1>2, <1>4 DEF Calm, Plain, Entries
  <2>2. \A v \in Writer : Leaves(v, p)
    BY <1>4 DEF Leaves, Calm
  <2>3. known[p] = OnDisk(p)
    BY <2>1, <2>2 DEF MemoryInv, MatchInv
  <2> QED
    BY <1>2, <2>3 DEF OnDisk, Entries
<1> QED
  BY <1>5, <1>6, <1>7 DEF MemoryInv

LEMMA AddNetworkMemory ==
  ASSUME Inv, MemoryInv, NEW h \in Handler, AddNetwork(h)
  PROVE  MemoryInv'
<1>1. PICK p \in Profile, secret \in Secret \cup {None}, scope \in Scope :
        /\ InterfaceMac(scope)
        /\ Begin(h, [op |-> "Add", profiles |-> {p}, secret |-> secret, scope |-> scope], "save")
  BY DEF AddNetwork
<1> DEFINE r == [op |-> "Add", profiles |-> {p}, secret |-> secret, scope |-> scope]
<1>2. r \in Request /\ r.op = "Add" /\ r.profiles = {p}
  BY DEF Request
<1>3. h \in Writer /\ h # Interfaces
  BY StoreAssumption DEF Writer
<1> HIDE DEF r
<1>4. writer'[h].at = "save" /\ writer'[h].request = r
  BY <1>1, <1>3 DEF Begin, Inv, TypeOK, Idle, r
<1>5. IsFiniteSet({p})
  BY FS_Singleton
<1>6. RequestOK(h)'
  BY <1>2, <1>3, <1>4, <1>5 DEF RequestOK
<1>7. faults' = 0 => faults = 0
  BY <1>1, FaultsType DEF InterfaceMac, Inv
<1> QED
  BY <1>1, <1>2, <1>3, <1>6, <1>7, BeginMemory DEF r

\* An SSID has at most two profiles.
LEMMA FewProfiles ==
  ASSUME NEW p \in Profile, NEW ps, ps \subseteq {q \in Profile : q.ssid = p.ssid}
  PROVE  IsFiniteSet(ps)
<1>1. ps \subseteq {[ssid |-> p.ssid, security |-> "Open"]} \cup {[ssid |-> p.ssid, security |-> "Psk"]}
  BY StoreAssumption
<1>2. IsFiniteSet({[ssid |-> p.ssid, security |-> "Open"]} \cup {[ssid |-> p.ssid, security |-> "Psk"]})
  BY FS_Singleton, FS_Union
<1> QED
  BY <1>1, <1>2, FS_Subset

LEMMA RemoveNetworkMemory ==
  ASSUME Inv, MemoryInv, NEW h \in Handler, RemoveNetwork(h)
  PROVE  MemoryInv'
<1>1. PICK p \in Profile, all \in BOOLEAN, scope \in Scope :
        /\ InterfaceMac(scope)
        /\ Begin(h, [op |-> "Remove", secret |-> None, scope |-> scope,
                     profiles |-> IF all THEN {q \in Profile : q.ssid = p.ssid} ELSE {p}], "erase")
  BY DEF RemoveNetwork
<1> DEFINE ps == IF all THEN {q \in Profile : q.ssid = p.ssid} ELSE {p}
           r  == [op |-> "Remove", secret |-> None, scope |-> scope, profiles |-> ps]
<1>2. ps \subseteq Profile /\ IsFiniteSet(ps)
  <2>1. ps \subseteq {q \in Profile : q.ssid = p.ssid}
    OBVIOUS
  <2> HIDE DEF ps
  <2> QED
    BY <2>1, FewProfiles
<1>3. Begin(h, r, "erase")
  BY <1>1
<1> HIDE DEF ps
<1>4. r \in Request /\ r.op = "Remove" /\ r.profiles = ps
  BY <1>2 DEF Request
<1>5. h \in Writer /\ h # Interfaces
  BY StoreAssumption DEF Writer
<1> HIDE DEF r
<1>6. writer'[h].at = "erase" /\ writer'[h].request = r
  BY <1>3, <1>5 DEF Begin, Inv, TypeOK, Idle
<1>7. RequestOK(h)'
  BY <1>2, <1>4, <1>5, <1>6 DEF RequestOK
<1>8. faults' = 0 => faults = 0
  BY <1>1, FaultsType DEF InterfaceMac, Inv
<1> QED
  BY <1>3, <1>4, <1>5, <1>7, <1>8, BeginMemory

LEMMA SavePolicyMemory == ASSUME Inv, MemoryInv, SavePolicy PROVE MemoryInv'
<1>1. Interfaces \in Writer /\ NoRequest \in Request /\ Begin(Interfaces, NoRequest, "read") /\ faults' = faults
  BY IdleType DEF Writer, SavePolicy
<1>2. writer'[Interfaces].at = "read" /\ writer'[Interfaces].request = NoRequest
  BY <1>1 DEF Begin, Inv, TypeOK, Idle
<1>3. IsFiniteSet({})
  BY FS_EmptySet
<1>4. RequestOK(Interfaces)'
  BY <1>2, <1>3 DEF RequestOK, NoRequest
<1> QED
  BY <1>1, <1>4, BeginMemory DEF NoRequest
-------------------------------------------------------------------------------
\* A step of a writer changes its own state only.
LEMMA WriterFrame ==
  ASSUME Inv, NEW w \in Writer, NEW s, writer' = [writer EXCEPT ![w] = s]
  PROVE  writer'[w] = s /\ \A v \in Writer : v # w => writer'[v] = writer[v]
  BY DEF Inv, TypeOK

LEMMA SaveCredentialMemory ==
  ASSUME Inv, MemoryInv, NEW h \in Handler, SaveCredential(h)
  PROVE  MemoryInv'
<1> DEFINE r == writer[h].request
<1>1. /\ h \in Writer /\ writer[h].at = "save" /\ r \in Request /\ Active(h)
      /\ UNCHANGED <<content, config, tmp, loader, known, raced, behind>>
  BY DEF SaveCredential, fileVars, Inv, TypeOK, Writer, WriterState, Active
<1>2. writer' = [writer EXCEPT ![h] = [writer[h] EXCEPT !.at = "read"]]
  BY DEF SaveCredential, Goes, Inv, TypeOK
<1>3. /\ writer'[h].at = "read" /\ writer'[h].request = r
      /\ \A v \in Writer : v # h => writer'[v] = writer[v]
  <2>1. writer'[h] = [writer[h] EXCEPT !.at = "read"] /\ writer[h] \in WriterState
    BY <1>1, <1>2, WriterFrame DEF Inv, TypeOK
  <2> QED
    BY <1>1, <1>2, <2>1, WriterFrame DEF WriterState
<1>4. faults' = 0 => faults = 0 /\ ~Fails
  BY FaultsType DEF SaveCredential, Inv
<1>5. PICK p0 \in Profile : r.profiles = {p0} /\ r.op = "Add"
  BY <1>1 DEF MemoryInv, WritersInv, RequestOK
<1>6. RequestOK(h)'
  BY <1>1, <1>3, <1>5 DEF MemoryInv, WritersInv, RequestOK
<1>7. FilesInv'
  BY <1>1 DEF MemoryInv, FilesInv
<1>8. ASSUME Calm'
      PROVE  /\ Calm
             /\ credentials'[<<Mac, p0>>] = Saved(credentials[<<Mac, p0>>], r.secret)
             /\ \A p \in Profile : p # p0 => credentials'[<<Mac, p>>] = credentials[<<Mac, p>>]
             /\ \A p \in Profile : Plain(p)' => Plain(p)
  <2>1. Calm /\ r.scope = Mac
    BY <1>1, <1>4, <1>8 DEF Calm, Inv, ScopesKnown
  <2>2. credentials' = [k \in Key |-> IF k \in {Mac} \X {p0} THEN Saved(credentials[k], r.secret) ELSE credentials[k]]
    BY <1>4, <1>5, <1>8, <2>1 DEF SaveCredential, Calm
  <2>3. \A p \in Profile : credentials'[<<None, p>>] = credentials[<<None, p>>]
    BY <2>2, StoreAssumption DEF Key, Scope
  <2> QED
    BY <1>1, <2>1, <2>2, <2>3 DEF Key, Scope, Plain, Entries
<1>9. ASSUME Calm', ~behind'
      PROVE  \A p \in Profile : Plain(p)' => known[p] = OnDisk(p)
  <2>1. \A p \in Profile : Leaves(h, p)
    BY <1>1 DEF Leaves
  <2> QED
    BY <1>1, <1>8, <1>9, <2>1, AloneKnows
<1>10. ASSUME Calm' PROVE StoredOK(h, p0)'
  <2>1. r.secret \in Secret \cup {None} /\ credentials[<<Mac, p0>>] \in Row
    BY <1>1 DEF Request, Inv, TypeOK, Key, Scope
  <2>2. credentials'[<<Mac, p0>>] # NoRow
    BY <1>8, <1>10, <2>1, NoRowIsNoSecret DEF Saved
  <2>3. ASSUME ~behind', Plain(p0)' PROVE Taken(r, p0) = credentials'[<<Mac, p0>>]
    BY <1>8, <1>9, <1>10, <2>1, <2>3, NoRowIsNoSecret DEF Saved, Taken, OnDisk
  <2> QED
    BY <1>1, <1>3, <1>5, <2>2, <2>3 DEF StoredOK, Taken
<1>11. Calm' => SavingOK(h)' /\ \A p \in writer'[h].request.profiles : StoredOK(h, p)'
  BY <1>3, <1>5, <1>10 DEF SavingOK
<1>12. ASSUME Calm', ~behind', NEW p \in Profile, Plain(p)', Leaves(h, p)'
       PROVE  known'[p] = OnDisk(p)'
  <2>1. p # p0
    BY <1>3, <1>5, <1>12 DEF Leaves
  <2> QED
    BY <1>1, <1>8, <1>9, <1>12, <2>1 DEF OnDisk, Entries
<1> QED
  BY <1>1, <1>3, <1>4, <1>6, <1>7, <1>11, <1>12, AloneStep

LEMMA RemoveCredentialMemory ==
  ASSUME Inv, MemoryInv, NEW h \in Handler, RemoveCredential(h)
  PROVE  MemoryInv'
<1> DEFINE r    == writer[h].request
           next == IF r.scope = None THEN "read" ELSE "legacy"
<1>1. /\ h \in Writer /\ h # Interfaces /\ writer[h].at = "erase" /\ r \in Request /\ Active(h)
      /\ UNCHANGED <<content, config, tmp, loader, known, raced, behind>>
  BY StoreAssumption DEF RemoveCredential, fileVars, Inv, TypeOK, Writer, WriterState, Active
<1>2. writer' = [writer EXCEPT ![h] = [writer[h] EXCEPT !.at = next]]
  BY DEF RemoveCredential, Goes, Inv, TypeOK
<1>3. /\ writer'[h].at = next /\ writer'[h].request = r
      /\ \A v \in Writer : v # h => writer'[v] = writer[v]
  <2> HIDE DEF next
  <2>1. writer'[h] = [writer[h] EXCEPT !.at = next] /\ writer[h] \in WriterState
    BY <1>1, <1>2, WriterFrame DEF Inv, TypeOK
  <2> QED
    BY <1>1, <1>2, <2>1, WriterFrame DEF WriterState
<1>4. faults' = 0 => faults = 0 /\ ~Fails
  BY FaultsType DEF RemoveCredential, Inv
<1>5. r.op = "Remove" /\ r.profiles \subseteq Profile
  BY <1>1 DEF MemoryInv, WritersInv, RequestOK, Request
<1>6. RequestOK(h)'
  BY <1>1, <1>3, <1>5 DEF MemoryInv, WritersInv, RequestOK
<1>7. FilesInv'
  BY <1>1 DEF MemoryInv, FilesInv
<1>8. ASSUME Calm'
      PROVE  /\ Calm /\ writer'[h].at = "legacy"
             /\ \A p \in r.profiles : credentials'[<<Mac, p>>] = NoRow
             /\ \A p \in Profile \ r.profiles : credentials'[<<Mac, p>>] = credentials[<<Mac, p>>]
             /\ \A p \in Profile : Plain(p)' => Plain(p)
  <2>1. Calm /\ r.scope = Mac /\ writer'[h].at = "legacy"
    BY <1>1, <1>3, <1>4, <1>8, StoreAssumption DEF Calm, Inv, ScopesKnown
  <2>2. credentials' = [k \in Key |-> IF k \in {Mac} \X r.profiles THEN NoRow ELSE credentials[k]]
    BY <1>4, <1>8, <2>1 DEF RemoveCredential, Erase, Calm
  <2>3. \A p \in Profile : credentials'[<<None, p>>] = credentials[<<None, p>>]
    BY <2>2, StoreAssumption DEF Key, Scope
  <2> QED
    BY <1>1, <1>5, <2>1, <2>2, <2>3 DEF Key, Scope, Plain, Entries
<1>9. ASSUME Calm', ~behind'
      PROVE  \A p \in Profile : Plain(p)' => known[p] = OnDisk(p)
  <2>1. \A p \in Profile : Leaves(h, p)
    BY <1>1 DEF Leaves
  <2> QED
    BY <1>1, <1>8, <1>9, <2>1, AloneKnows
<1>10. Calm' => SavingOK(h)' /\ \A p \in writer'[h].request.profiles : StoredOK(h, p)'
  BY <1>3, <1>5, <1>8 DEF SavingOK, StoredOK, AfterSave
<1>11. ASSUME Calm', ~behind', NEW p \in Profile, Plain(p)', Leaves(h, p)'
       PROVE  known'[p] = OnDisk(p)'
  <2>1. p \notin r.profiles
    BY <1>3, <1>8, <1>11 DEF Leaves
  <2> QED
    BY <1>1, <1>8, <1>9, <1>11, <2>1 DEF OnDisk, Entries
<1> QED
  BY <1>1, <1>3, <1>4, <1>6, <1>7, <1>10, <1>11, AloneStep

LEMMA RemoveLegacyMemory ==
  ASSUME Inv, MemoryInv, NEW h \in Handler, RemoveLegacy(h)
  PROVE  MemoryInv'
<1> DEFINE r == writer[h].request
<1>1. /\ h \in Writer /\ h # Interfaces /\ writer[h].at = "legacy" /\ r \in Request /\ Active(h)
      /\ UNCHANGED <<content, config, tmp, loader, known, raced, behind>>
  BY StoreAssumption DEF RemoveLegacy, fileVars, Inv, TypeOK, Writer, WriterState, Active
<1>2. writer' = [writer EXCEPT ![h] = [writer[h] EXCEPT !.at = "read"]]
  BY DEF RemoveLegacy, Goes, Inv, TypeOK
<1>3. /\ writer'[h].at = "read" /\ writer'[h].request = r
      /\ \A v \in Writer : v # h => writer'[v] = writer[v]
  <2>1. writer'[h] = [writer[h] EXCEPT !.at = "read"] /\ writer[h] \in WriterState
    BY <1>1, <1>2, WriterFrame DEF Inv, TypeOK
  <2> QED
    BY <1>1, <1>2, <2>1, WriterFrame DEF WriterState
<1>4. faults' = 0 => faults = 0 /\ ~Fails
  BY FaultsType DEF RemoveLegacy, Inv
<1>5. r.op = "Remove" /\ r.profiles \subseteq Profile
  BY <1>1 DEF MemoryInv, WritersInv, RequestOK, Request
<1>6. RequestOK(h)'
  BY <1>1, <1>3, <1>5 DEF MemoryInv, WritersInv, RequestOK
<1>7. FilesInv'
  BY <1>1 DEF MemoryInv, FilesInv
<1>8. ASSUME Calm'
      PROVE  /\ Calm
             /\ \A p \in Profile : credentials'[<<Mac, p>>] = credentials[<<Mac, p>>]
             /\ \A p \in Profile \ r.profiles : Plain(p)' => Plain(p)
  <2>1. Calm
    BY <1>1, <1>4, <1>8 DEF Calm
  <2>2. credentials' = [k \in Key |-> IF k \in {None} \X r.profiles THEN NoRow ELSE credentials[k]]
    BY <1>4, <1>8 DEF RemoveLegacy, Erase, Calm
  <2>3. \A p \in Profile : credentials'[<<Mac, p>>] = credentials[<<Mac, p>>]
    BY <2>2, StoreAssumption DEF Key, Scope
  <2>4. \A p \in Profile \ r.profiles : credentials'[<<None, p>>] = credentials[<<None, p>>]
    BY <2>2 DEF Key, Scope
  <2> QED
    BY <1>1, <2>1, <2>3, <2>4 DEF Plain, Entries
<1>9. Calm' => \A p \in r.profiles : credentials[<<Mac, p>>] = NoRow
  BY <1>1, <1>5, <1>8 DEF MemoryInv, WritersInv, StoredOK
<1>10. Calm' => SavingOK(h)' /\ \A p \in writer'[h].request.profiles : StoredOK(h, p)'
  BY <1>3, <1>5, <1>8, <1>9 DEF SavingOK, StoredOK, AfterSave
<1>11. ASSUME Calm', ~behind', NEW p \in Profile, Plain(p)', Leaves(h, p)'
       PROVE  known'[p] = OnDisk(p)'
  <2>1. p \notin r.profiles
    BY <1>3, <1>11 DEF Leaves
  <2>2. Leaves(h, p) /\ Plain(p)
    BY <1>8, <1>11, <2>1 DEF Leaves
  <2>3. known[p] = OnDisk(p)
    BY <1>1, <1>8, <1>11, <2>2, AloneKnows
  <2> QED
    BY <1>1, <1>8, <1>11, <2>3 DEF OnDisk, Entries
<1> QED
  BY <1>1, <1>3, <1>4, <1>6, <1>7, <1>10, <1>11, AloneStep
-------------------------------------------------------------------------------
\* What a writer does before it renames the file: the stores stay as they are, and what the
\* backend knows as well.
LEMMA SavingMemory ==
  ASSUME Inv, MemoryInv, NEW w \in Writer, NEW s, writer' = [writer EXCEPT ![w] = s],
         writer[w].at \in {"read", "open", "write"}, s.at \in {"open", "write", "rename"},
         s.request = writer[w].request,
         UNCHANGED <<credentials, config, loader, known, raced, behind>>,
         faults' = 0 => faults = 0, FilesInv', Calm' => Entries(config)' = Entries(config) /\ SavingOK(w)'
  PROVE  MemoryInv'
<1>1. writer'[w] = s /\ \A v \in Writer : v # w => writer'[v] = writer[v]
  BY WriterFrame
<1>2. Active(w) /\ (Calm' => Calm /\ \A p \in Profile : Plain(p)' <=> Plain(p))
  BY DEF Active, Calm, Plain
<1>3. RequestOK(w)'
  BY <1>1 DEF MemoryInv, WritersInv, RequestOK
<1>4. Calm' => \A p \in writer'[w].request.profiles : StoredOK(w, p)'
  <2> SUFFICES ASSUME Calm', NEW p \in s.request.profiles PROVE StoredOK(w, p)'
    BY <1>1
  <2>1. StoredOK(w, p) /\ p \in Profile
    BY <1>2 DEF MemoryInv, WritersInv, Inv, TypeOK, WriterState, Request
  <2>2. writer[w].at \in AfterSave /\ writer'[w].at \in AfterSave /\ writer'[w].at # "forward"
    BY <1>1 DEF AfterSave
  <2>3. writer'[w].request = writer[w].request /\ (Plain(p)' <=> Plain(p))
    BY <1>1, <1>2, <2>1
  <2> QED
    BY <2>1, <2>2, <2>3 DEF StoredOK, Taken
<1>5. ASSUME Calm', ~behind', NEW p \in Profile, Plain(p)', Leaves(w, p)'
      PROVE  known'[p] = OnDisk(p)'
  <2>1. Leaves(w, p)
    BY <1>1, <1>5 DEF Leaves
  <2>2. known[p] = OnDisk(p)
    BY <1>2, <1>5, <2>1, AloneKnows
  <2> QED
    BY <1>5, <2>2 DEF OnDisk
<1> QED
  BY <1>1, <1>2, <1>3, <1>4, <1>5, AloneStep

\* The end of a save: the interface manager is done, a handler goes on.
LEMMA EndSaveMemory ==
  ASSUME Inv, MemoryInv, NEW w \in Writer, EndSave(w), writer[w].at # "idle"
  PROVE  /\ \A v \in Writer : v # w => writer'[v] = writer[v]
         /\ RequestOK(w)' /\ SavingOK(w)'
         /\ IF w = Interfaces THEN writer'[w] = Idle /\ writer[w].request.profiles = {} /\ writer'[w].request.profiles = {}
            ELSE writer'[w].at = "forward" /\ writer'[w].request = writer[w].request
<1>1. RequestOK(w)
  BY DEF MemoryInv, WritersInv
<1>2. CASE w = Interfaces
  <2>1. writer' = [writer EXCEPT ![w] = Idle]
    BY <1>2 DEF EndSave
  <2>2. writer'[w] = Idle /\ (\A v \in Writer : v # w => writer'[v] = writer[v]) /\ IsFiniteSet({})
    BY <2>1, WriterFrame, FS_EmptySet
  <2>3. Idle.at = "idle" /\ Idle.request = NoRequest /\ NoRequest.profiles = {} /\ NoRequest.op = "Policy"
    BY DEF Idle, NoRequest
  <2> QED
    BY <1>1, <1>2, <2>2, <2>3 DEF RequestOK, SavingOK
<1>3. CASE w # Interfaces
  <2>1. writer' = [writer EXCEPT ![w] = [writer[w] EXCEPT !.at = "forward", !.networks = {}]]
    BY <1>3 DEF EndSave, Inv, TypeOK
  <2>2. /\ writer'[w] = [writer[w] EXCEPT !.at = "forward", !.networks = {}]
        /\ \A v \in Writer : v # w => writer'[v] = writer[v]
    BY <2>1, WriterFrame
  <2>3. writer'[w].at = "forward" /\ writer'[w].request = writer[w].request
    BY <2>2 DEF Inv, TypeOK, WriterState
  <2> QED
    BY <1>1, <1>3, <2>2, <2>3 DEF RequestOK, SavingOK
<1> QED
  BY <1>2, <1>3

LEMMA ReadConfigMemory ==
  ASSUME Inv, MemoryInv, NEW w \in Writer, ReadConfig(w)
  PROVE  MemoryInv'
<1>1. /\ writer[w].at = "read" /\ writer[w] \in WriterState
      /\ UNCHANGED <<credentials, content, config, tmp, loader, known, raced, behind, faults>>
  BY DEF ReadConfig, fileVars, bounds, Inv, TypeOK
<1>2. FilesInv' /\ Entries(config)' = Entries(config)
  BY <1>1 DEF MemoryInv, FilesInv, Entries
<1>3. CASE writer' = [writer EXCEPT ![w].at = "open", ![w].networks = Edited(Entries(config), writer[w].request)]
  <2> DEFINE s == [writer[w] EXCEPT !.at = "open", !.networks = Edited(Entries(config), writer[w].request)]
  <2>1. writer' = [writer EXCEPT ![w] = s]
    BY <1>3 DEF Inv, TypeOK
  <2>2. s.at = "open" /\ s.request = writer[w].request /\ s.networks = Edited(Entries(config), writer[w].request)
    BY <1>1 DEF WriterState
  <2> HIDE DEF s
  <2>3. writer'[w] = s
    BY <2>1, WriterFrame
  <2>4. SavingOK(w)'
    BY <1>2, <2>2, <2>3 DEF SavingOK
  <2> QED
    BY <1>1, <1>2, <2>1, <2>2, <2>4, SavingMemory
<1>4. CASE w = Interfaces /\ writer' = [writer EXCEPT ![w] = Idle]
  <2>1. EndSave(w)
    BY <1>4 DEF EndSave
  <2>2. /\ \A v \in Writer : v # w => writer'[v] = writer[v]
        /\ RequestOK(w)' /\ SavingOK(w)'
        /\ writer[w].request.profiles = {} /\ writer'[w].request.profiles = {}
    BY <1>1, <1>4, <2>1, EndSaveMemory
  <2>3. ASSUME Calm', ~behind', NEW p \in Profile, Plain(p)'
        PROVE  known'[p] = OnDisk(p)'
    <3>1. Active(w) /\ Calm /\ Plain(p) /\ Leaves(w, p)
      BY <1>1, <1>2, <2>2, <2>3 DEF Active, Calm, Plain, Leaves
    <3>2. known[p] = OnDisk(p)
      BY <1>1, <2>3, <3>1, AloneKnows
    <3> QED
      BY <1>1, <1>2, <3>2 DEF OnDisk
  <2> QED
    BY <1>1, <1>2, <2>2, <2>3, AloneStep DEF Active
<1> QED
  BY <1>3, <1>4 DEF ReadConfig
LEMMA OpenTempMemory ==
  ASSUME Inv, MemoryInv, NEW w \in Writer, OpenTemp(w)
  PROVE  MemoryInv'
<1> DEFINE used  == {config, tmp} \cup {writer[v].file : v \in Writer}
           inode == IF tmp # None THEN tmp ELSE CHOOSE i \in Inode : i \notin used
<1>1. /\ writer[w].at = "open" /\ writer[w] \in WriterState /\ Active(w)
      /\ UNCHANGED <<credentials, config, loader, known, raced, behind>>
  BY DEF OpenTemp, Inv, TypeOK, Active
<1>2. faults' = 0 => faults = 0 /\ ~Fails
  BY FaultsType DEF OpenTemp, Inv
<1>3. inode \in Inode /\ inode # config /\ inode # None
  <2>1. CASE tmp # None
    BY <2>1 DEF Inv, TypeOK, MemoryInv, FilesInv
  <2>2. CASE tmp = None
    <3>1. \E i \in Inode : i \notin used
      BY <2>2, FreeInode DEF Inv
    <3> QED
      BY <2>2, <3>1, StoreAssumption
  <2> QED
    BY <2>1, <2>2
<1>4. CASE /\ tmp' = inode /\ content' = [content EXCEPT ![inode] = Empty]
           /\ writer' = [writer EXCEPT ![w].at = "write", ![w].file = inode]
  <2> DEFINE s == [writer[w] EXCEPT !.at = "write", !.file = inode]
  <2> HIDE DEF inode
  <2>1. writer' = [writer EXCEPT ![w] = s]
    BY <1>4 DEF Inv, TypeOK
  <2>2. s.at = "write" /\ s.request = writer[w].request /\ s.networks = writer[w].networks /\ s.file = inode
    BY <1>1 DEF WriterState
  <2>3. FilesInv' /\ Entries(config)' = Entries(config) /\ content'[tmp'] = Empty
    BY <1>1, <1>3, <1>4 DEF FilesInv, Entries, Inv, TypeOK
  <2> HIDE DEF s
  <2>4. writer'[w] = s
    BY <2>1, WriterFrame
  <2>5. ASSUME Calm' PROVE SavingOK(w)'
    <3>1. writer[w].networks = Edited(Entries(config), writer[w].request)
      BY <1>1, <1>2, <2>5 DEF MemoryInv, WritersInv, SavingOK, Calm
    <3> QED
      BY <1>3, <1>4, <2>2, <2>3, <2>4, <3>1 DEF SavingOK
  <2> QED
    BY <1>1, <1>2, <2>1, <2>2, <2>3, <2>5, SavingMemory
<1>5. CASE Fails /\ EndSave(w) /\ UNCHANGED <<content, tmp>>
  <2>1. \A v \in Writer : v # w => writer'[v] = writer[v]
    BY <1>1, <1>5, EndSaveMemory
  <2>2. RequestOK(w)'
    BY <1>1, <1>5, EndSaveMemory
  <2>3. ~Calm' /\ FilesInv'
    BY <1>1, <1>2, <1>5 DEF Calm, MemoryInv, FilesInv
  <2> QED
    BY <1>1, <1>2, <2>1, <2>2, <2>3, AloneStep
<1> QED
  BY <1>4, <1>5 DEF OpenTemp

LEMMA WriteTempMemory ==
  ASSUME Inv, MemoryInv, NEW w \in Writer, WriteTemp(w)
  PROVE  MemoryInv'
<1> DEFINE s == [writer[w] EXCEPT !.at = "rename", !.file = None]
<1>1. /\ writer[w].at = "write" /\ writer[w] \in WriterState
      /\ UNCHANGED <<credentials, config, tmp, loader, known, raced, behind, faults>>
  BY DEF WriteTemp, bounds, Inv, TypeOK
<1>2. writer' = [writer EXCEPT ![w] = s]
  BY DEF WriteTemp, Inv, TypeOK
<1>3. s.at = "rename" /\ s.request = writer[w].request /\ s.networks = writer[w].networks
  BY <1>1 DEF WriterState
<1> HIDE DEF s
<1>4. writer'[w] = s
  BY <1>2, WriterFrame
<1>5. FilesInv'
  BY <1>1 DEF MemoryInv, FilesInv
<1>6. ASSUME Calm' PROVE Entries(config)' = Entries(config) /\ SavingOK(w)'
  <2>1. SavingOK(w)
    BY <1>1, <1>6 DEF Calm, MemoryInv, WritersInv
  <2>2. /\ writer[w].file = tmp /\ tmp \in Inode /\ tmp # config /\ content[tmp] = Empty
        /\ writer[w].networks = Edited(Entries(config), writer[w].request)
    BY <1>1, <2>1 DEF SavingOK, Inv, TypeOK, MemoryInv, FilesInv
  <2>3. content' = [content EXCEPT ![tmp] = Whole(writer[w].networks)]
    BY <2>2 DEF WriteTemp
  <2>4. content'[tmp] = Whole(writer[w].networks) /\ Entries(config)' = Entries(config)
    BY <1>1, <2>2, <2>3 DEF Entries, Inv, TypeOK
  <2>5. tmp' # None /\ content'[tmp'] = Whole(writer'[w].networks)
    BY <1>1, <1>3, <1>4, <2>1, <2>4 DEF SavingOK
  <2> QED
    BY <1>3, <1>4, <2>2, <2>4, <2>5 DEF SavingOK
<1> QED
  BY <1>1, <1>2, <1>3, <1>5, <1>6, SavingMemory

\* What a finished save means for the entries of p.
LEMMA EditedEntries ==
  ASSUME NEW entries, NEW r \in Request, NEW p \in Profile
  PROVE  /\ p \notin r.profiles => \A s \in Scope : <<s, p>> \in Edited(entries, r) <=> <<s, p>> \in entries
         /\ r.op = "Add" => entries \subseteq Edited(entries, r)
         /\ r.op = "Remove" /\ r.scope = Mac /\ p \in r.profiles => <<Mac, p>> \notin Edited(entries, r)
<1>1. r.op \in {"Add", "Remove", "Policy"}
  BY DEF Request
<1>2. CASE r.op = "Add"
  BY <1>2 DEF Edited, UpsertNetwork
<1>3. CASE r.op = "Remove"
  BY <1>3 DEF Edited, RemoveEntries
<1>4. CASE r.op = "Policy"
  BY <1>4 DEF Edited
<1> QED
  BY <1>1, <1>2, <1>3, <1>4

LEMMA RenameTempMemory ==
  ASSUME Inv, MemoryInv, NEW w \in Writer, RenameTemp(w)
  PROVE  MemoryInv'
<1> PICK r : r = writer[w].request
  OBVIOUS
<1>1. /\ writer[w].at = "rename" /\ writer[w] \in WriterState /\ r \in Request /\ Active(w) /\ EndSave(w)
      /\ UNCHANGED <<credentials, content, loader, known, raced, behind, faults>>
  BY DEF RenameTemp, bounds, Inv, TypeOK, WriterState, Active
<1>2. /\ \A v \in Writer : v # w => writer'[v] = writer[v]
      /\ RequestOK(w)' /\ SavingOK(w)'
  BY <1>1, EndSaveMemory
<1>3. IF w = Interfaces THEN writer'[w] = Idle /\ r.profiles = {} /\ writer'[w].request.profiles = {}
      ELSE writer'[w].at = "forward" /\ writer'[w].request = r
  BY <1>1, EndSaveMemory
<1>4. FilesInv'
  BY DEF RenameTemp, MemoryInv, FilesInv
<1>5. ASSUME Calm' PROVE Calm /\ r.scope = Mac /\ Entries(config)' = Edited(Entries(config), r)
  <2>1. Calm /\ SavingOK(w) /\ r.scope = Mac
    BY <1>1, <1>5 DEF Calm, MemoryInv, WritersInv, Inv, ScopesKnown
  <2>2. tmp # None /\ content[tmp] = Whole(Edited(Entries(config), r)) /\ config' = tmp
    BY <1>1, <2>1 DEF SavingOK, RenameTemp
  <2> QED
    BY <1>1, <2>1, <2>2 DEF Entries, Whole
<1>6. ASSUME Calm', NEW p \in Profile, p \notin r.profiles
      PROVE  (Plain(p)' <=> Plain(p)) /\ OnDisk(p)' = OnDisk(p)
  <2>1. \A s \in Scope : <<s, p>> \in Edited(Entries(config), r) <=> <<s, p>> \in Entries(config)
    BY <1>1, <1>6, EditedEntries
  <2> QED
    BY <1>1, <1>5, <1>6, <2>1 DEF Plain, OnDisk, Scope
<1>7. ASSUME Calm', NEW p \in writer'[w].request.profiles PROVE StoredOK(w, p)'
  <2>1. w # Interfaces /\ writer'[w].at = "forward" /\ writer'[w].request = r /\ p \in r.profiles /\ p \in Profile
    BY <1>1, <1>3, <1>7 DEF Request
  <2>2. StoredOK(w, p)
    BY <1>5, <1>7, <2>1 DEF MemoryInv, WritersInv
  <2>3. r.op = "Add" /\ Plain(p)' => Plain(p)
    <3>1. r.op = "Add" => Entries(config) \subseteq Edited(Entries(config), r)
      BY <1>1, <2>1, EditedEntries
    <3> QED
      BY <1>1, <1>5, <1>7, <3>1 DEF Plain
  <2>4. r.op = "Remove" => <<Mac, p>> \notin Entries(config)'
    BY <1>1, <1>5, <1>7, <2>1, EditedEntries
  <2>5. Taken(r, p)' = Taken(r, p)
    BY <1>1 DEF Taken
  <2> QED
    BY <1>1, <2>1, <2>2, <2>3, <2>4 DEF StoredOK, AfterSave, Taken
<1>8. ASSUME Calm', ~behind', NEW p \in Profile, Plain(p)', Leaves(w, p)'
      PROVE  known'[p] = OnDisk(p)'
  <2>1. p \notin r.profiles
    BY <1>3, <1>8 DEF Leaves
  <2>2. Plain(p) /\ OnDisk(p)' = OnDisk(p)
    BY <1>6, <1>8, <2>1
  <2>3. known[p] = OnDisk(p)
    BY <1>1, <1>5, <1>8, <2>1, <2>2, AloneKnows DEF Leaves
  <2> QED
    BY <1>1, <2>2, <2>3
<1> QED
  BY <1>1, <1>2, <1>4, <1>7, <1>8, AloneStep
-------------------------------------------------------------------------------
\* An answer of the backend: what it took is what the stores have, and what it took out
\* they have not.
LEMMA ForwardMemory ==
  ASSUME Inv, MemoryInv, NEW h \in Handler, Forward(h)
  PROVE  MemoryInv'
<1> PICK r : r = writer[h].request
  OBVIOUS
<1>1. /\ h \in Writer /\ h # Interfaces /\ writer[h].at = "forward" /\ r \in Request /\ Active(h)
      /\ UNCHANGED <<credentials, content, config, tmp, loader, raced>>
  BY StoreAssumption DEF Forward, fileVars, Inv, TypeOK, Writer, WriterState, Active
<1>2. writer'[h] = Idle /\ \A v \in Writer : v # h => writer'[v] = writer[v]
  BY <1>1, WriterFrame DEF Forward
<1>3. faults' = 0 => faults = 0 /\ ~Fails
  BY FaultsType DEF Forward, Inv
<1>4. Idle.at = "idle" /\ Idle.request = NoRequest /\ NoRequest.profiles = {}
  BY DEF Idle, NoRequest
<1>5. RequestOK(h)' /\ SavingOK(h)' /\ FilesInv'
  <2>1. IsFiniteSet({})
    BY FS_EmptySet
  <2>2. writer'[h].at = "idle" /\ writer'[h].request = NoRequest /\ writer'[h].request.profiles = {}
    BY <1>2, <1>4
  <2>3. RequestOK(h)'
    BY <1>1, <1>4, <2>1, <2>2 DEF RequestOK, NoRequest
  <2>4. SavingOK(h)'
    BY <2>2 DEF SavingOK
  <2> QED
    BY <1>1, <2>3, <2>4 DEF MemoryInv, FilesInv
<1>6. Calm' => \A p \in writer'[h].request.profiles : StoredOK(h, p)'
  BY <1>2, <1>4
<1>7. ASSUME Calm', ~behind', NEW p \in Profile, Plain(p)'
      PROVE  known'[p] = OnDisk(p)'
  <2>1. Calm /\ Plain(p) /\ OnDisk(p)' = OnDisk(p)
    BY <1>1, <1>3, <1>7 DEF Calm, Plain, OnDisk, Entries
  <2>2. p \notin r.profiles /\ ~behind => known[p] = OnDisk(p)
    BY <1>1, <1>7, <2>1, AloneKnows DEF Leaves
  <2>3. RequestOK(h) /\ (p \in r.profiles => StoredOK(h, p)) /\ known \in [Profile -> Row]
    BY <1>1, <2>1 DEF MemoryInv, WritersInv, Inv, TypeOK
  <2>4. CASE r.op = "Add" /\ ForwardAdd(r)
    <3>1. PICK q \in Profile : r.profiles = {q}
      BY <1>1, <2>3, <2>4 DEF RequestOK
    <3>2. known' = [known EXCEPT ![q] = Taken(r, q)] /\ behind' = behind
      BY <1>7, <2>4, <3>1 DEF ForwardAdd, Taken
    <3>3. CASE p = q
      <4>1. Taken(r, p) = credentials[<<Mac, p>>] /\ credentials[<<Mac, p>>] # NoRow
        BY <1>1, <1>7, <2>1, <2>3, <2>4, <3>1, <3>2, <3>3 DEF StoredOK, AfterSave
      <4> QED
        BY <2>1, <2>3, <3>2, <3>3, <4>1 DEF OnDisk
    <3>4. CASE p # q
      BY <1>7, <2>1, <2>2, <2>3, <3>1, <3>2, <3>4
    <3> QED
      BY <3>3, <3>4
  <2>5. CASE r.op = "Remove" /\ ForwardRemove(r)
    <3> DEFINE held == {q \in r.profiles : known[q] # NoRow}
    <3>1. /\ ~behind /\ ~(Cardinality(held) > 1)
          /\ (held = {} /\ known' = known) \/ \E q \in held : known' = [known EXCEPT ![q] = NoRow]
      BY <1>7, <2>5 DEF ForwardRemove
    <3>2. held \subseteq Profile /\ IsFiniteSet(held)
      <4>1. IsFiniteSet(r.profiles) /\ held \subseteq r.profiles /\ r.profiles \subseteq Profile
        BY <1>1, <2>3 DEF RequestOK, Request
      <4> QED
        BY <4>1, FS_Subset
    <3>3. CASE p \in r.profiles
      <4>1. OnDisk(p) = NoRow
        BY <1>1, <2>3, <2>5, <3>3 DEF StoredOK, AfterSave, OnDisk
      <4>2. CASE held = {} /\ known' = known
        BY <2>1, <3>3, <4>1, <4>2
      <4>3. CASE \E q \in held : known' = [known EXCEPT ![q] = NoRow]
        <5>1. PICK q \in held : known' = [known EXCEPT ![q] = NoRow]
          BY <4>3
        <5>2. CASE p = q
          BY <2>1, <2>3, <4>1, <5>1, <5>2
        <5>3. CASE p # q
          <6>1. Cardinality({q}) = 1 /\ IsFiniteSet({q})
            BY FS_Singleton
          <6>2. Cardinality({q} \cup {p}) = 2
            <7>1. p \notin {q}
              BY <5>3
            <7>2. Cardinality({q} \cup {p}) = Cardinality({q}) + 1
              BY <6>1, <7>1, FS_AddElement, Zenon
            <7> QED
              BY <6>1, <7>2
          <6>3. p \notin held
            <7> SUFFICES ASSUME p \in held PROVE FALSE
              OBVIOUS
            <7>1. {q} \cup {p} \subseteq held
              BY <5>1
            <7> HIDE DEF held
            <7>2. Cardinality({q} \cup {p}) <= Cardinality(held) /\ Cardinality(held) \in Nat
              BY <3>2, <7>1, FS_Subset, FS_CardinalityType
            <7> QED
              BY <3>1, <6>2, <7>2
          <6> QED
            BY <2>1, <2>3, <3>3, <4>1, <5>1, <5>3, <6>3
        <5> QED
          BY <5>2, <5>3
      <4> QED
        BY <3>1, <4>2, <4>3
    <3>4. CASE p \notin r.profiles
      BY <2>1, <2>2, <2>3, <3>1, <3>4
    <3> QED
      BY <3>3, <3>4
  <2> QED
    BY <1>3, <1>7, <2>4, <2>5 DEF Forward, Calm
<1> QED
  BY <1>1, <1>2, <1>3, <1>5, <1>6, <1>7, AloneStep

-------------------------------------------------------------------------------
\* The daemon loads; no writer is at work, unless the load is marked as raced.
LEMMA LoadingMemory ==
  ASSUME Inv, MemoryInv, UNCHANGED <<credentials, content, config, tmp, writer>>,
         ~raced' => \A w \in Writer : ~Active(w),
         LoadingInv', MatchInv'
  PROVE  MemoryInv'
<1>1. AloneInv' /\ FilesInv'
  BY DEF MemoryInv, AloneInv, FilesInv, Active
<1>2. ASSUME NEW w \in Writer
      PROVE  /\ RequestOK(w)'
             /\ Calm' => SavingOK(w)' /\ \A p \in writer'[w].request.profiles : StoredOK(w, p)'
  <2>1. RequestOK(w)'
    BY DEF MemoryInv, WritersInv, RequestOK
  <2>2. Calm' => writer'[w].at = "idle" /\ writer'[w].request.profiles = {}
    BY DEF Calm, Active, MemoryInv, WritersInv, RequestOK, NoRequest
  <2>3. Calm' => SavingOK(w)'
    BY <2>2 DEF SavingOK
  <2> QED
    BY <2>1, <2>2, <2>3
<1> QED
  BY <1>1, <1>2 DEF MemoryInv, WritersInv

\* A backend that its supervisor starts again is behind, whoever is at work.
LEMMA RestartMemory == ASSUME Inv, MemoryInv, RestartBackend PROVE MemoryInv'
<1>1. UNCHANGED <<credentials, content, config, tmp, writer, loader, faults, raced>> /\ behind'
  <2>1. behind' = TRUE
    BY DEF RestartBackend
  <2> QED
    BY <2>1 DEF RestartBackend, fileVars
<1>2. AloneInv' /\ FilesInv'
  BY <1>1 DEF MemoryInv, AloneInv, FilesInv, Active
<1>3. Entries(config)' = Entries(config)
  BY <1>1 DEF Entries
<1>4. LoadingInv'
  BY <1>1, <1>3 DEF MemoryInv, LoadingInv, Calm, Loaded, InScope
<1>5. WritersInv'
  BY <1>1, <1>3 DEF MemoryInv, WritersInv, Calm, RequestOK, SavingOK, StoredOK
<1>6. MatchInv'
  BY <1>1 DEF MatchInv
<1> QED
  BY <1>2, <1>4, <1>5, <1>6 DEF MemoryInv

LEMMA LoadMemory == ASSUME Inv, MemoryInv, Load PROVE MemoryInv'
<1>1. CASE StartBackend
  <2>1. UNCHANGED <<credentials, content, config, tmp, writer>> /\ raced' = ~Quiet /\ loader' = [NotLoading EXCEPT !.at = "credentials"]
    BY <1>1 DEF StartBackend, fileVars
  <2>2. loader'.at = "credentials"
    BY <2>1 DEF NotLoading
  <2>3. LoadingInv' /\ MatchInv'
    BY <2>2 DEF LoadingInv, MatchInv
  <2> QED
    BY <2>1, <2>3, LoadingMemory DEF Quiet, Active
<1>2. CASE LoadCredentials
  <2>1. UNCHANGED <<credentials, content, config, tmp, writer, raced>> /\ loader.at # "idle"
    BY <1>2 DEF LoadCredentials, fileVars
  <2>2. ~raced' => \A w \in Writer : ~Active(w)
    BY <2>1 DEF MemoryInv, AloneInv
  <2>3. faults' = 0 => ~Fails
    BY <1>2, FaultsType DEF LoadCredentials, Inv
  <2>4. loader'.at = "config" /\ (Calm' => loader'.rows = credentials')
    <3>1. loader \in LoaderState
      BY DEF Inv, TypeOK
    <3> QED
      BY <1>2, <2>1, <2>3, <3>1 DEF LoadCredentials, Calm, LoaderState
  <2>5. LoadingInv' /\ MatchInv'
    BY <2>4 DEF LoadingInv, MatchInv
  <2> QED
    BY <2>1, <2>2, <2>5, LoadingMemory
<1>3. CASE LoadConfig
  <2>1. UNCHANGED <<credentials, content, config, tmp, writer, faults, raced>> /\ loader.at = "config"
    BY <1>3 DEF LoadConfig, fileVars, bounds
  <2>2. ~raced' => \A w \in Writer : ~Active(w)
    BY <2>1 DEF MemoryInv, AloneInv
  <2>3. Calm' => loader.rows = credentials
    BY <2>1 DEF Calm, MemoryInv, LoadingInv
  <2>4. loader'.at = "networks" /\ loader'.networks = Loaded(loader.rows, Entries(config))
    <3>1. loader \in LoaderState
      BY DEF Inv, TypeOK
    <3> QED
      BY <1>3, <3>1 DEF LoadConfig, LoaderState
  <2>5. Entries(config)' = Entries(config)
    BY <2>1 DEF Entries
  <2>6. Loaded(credentials, Entries(config))' = Loaded(credentials, Entries(config))
    BY <2>1, <2>5 DEF Loaded, InScope
  <2>7. LoadingInv' /\ MatchInv'
    BY <2>3, <2>4, <2>6 DEF LoadingInv, MatchInv
  <2> QED
    BY <2>1, <2>2, <2>7, LoadingMemory
<1>4. CASE LoadNetworks
  <2>1. /\ UNCHANGED <<credentials, content, config, tmp, writer, raced>>
        /\ loader.at = "networks" /\ loader' = NotLoading
    BY <1>4 DEF LoadNetworks, fileVars
  <2>2. ~raced' => \A w \in Writer : ~Active(w)
    BY <2>1 DEF MemoryInv, AloneInv
  <2>3. Calm' => Calm /\ known' = loader.networks
    BY <1>4, <2>1, FaultsType DEF LoadNetworks, Calm, Inv
  <2>4. Calm' => known' = Loaded(credentials, Entries(config))
    BY <2>1, <2>3 DEF MemoryInv, LoadingInv
  <2>5. LoadingInv'
    BY <2>1 DEF LoadingInv, NotLoading
  <2>6. MatchInv'
    <3> SUFFICES ASSUME Calm', NEW p \in Profile, Plain(p)' PROVE known'[p] = OnDisk(p)'
      BY DEF MatchInv
    <3>1. Plain(p) /\ OnDisk(p)' = OnDisk(p)
      BY <2>1 DEF Plain, OnDisk, Entries
    <3> QED
      BY <2>4, <3>1, LoadedPlain DEF Plain, OnDisk
  <2> QED
    BY <2>1, <2>2, <2>5, <2>6, LoadingMemory
<1> QED
  BY <1>1, <1>2, <1>3, <1>4, RestartMemory DEF Load

\* Writers that do nothing.
LEMMA IdleWriters ==
  (\A w \in Writer : writer[w] = Idle) => WritersInv /\ \A w \in Writer : ~Active(w)
<1> SUFFICES ASSUME \A w \in Writer : writer[w] = Idle
             PROVE  WritersInv /\ \A w \in Writer : ~Active(w)
  OBVIOUS
<1>1. Idle.at = "idle" /\ Idle.request = NoRequest /\ NoRequest.profiles = {} /\ NoRequest.op = "Policy"
  BY DEF Idle, NoRequest
<1>2. IsFiniteSet({})
  BY FS_EmptySet
<1>3. ASSUME NEW w \in Writer PROVE RequestOK(w) /\ SavingOK(w) /\ writer[w].request.profiles = {} /\ ~Active(w)
  BY <1>1, <1>2 DEF RequestOK, SavingOK, Active
<1> QED
  BY <1>3 DEF WritersInv

LEMMA CrashMemory == ASSUME Inv, MemoryInv, Crash PROVE MemoryInv'
<1>1. /\ UNCHANGED <<content, config, tmp>> /\ writer' = [w \in Writer |-> Idle]
      /\ loader' = [NotLoading EXCEPT !.at = "credentials"]
  BY DEF Crash, fileVars
<1>2. loader'.at = "credentials" /\ (\A w \in Writer : writer[w] = Idle)'
  BY <1>1 DEF NotLoading
<1>3. (WritersInv /\ \A w \in Writer : ~Active(w))'
  BY <1>2, IdleWriters, PTL
<1>4. AloneInv' /\ LoadingInv' /\ FilesInv' /\ MatchInv'
  BY <1>1, <1>2, <1>3 DEF AloneInv, LoadingInv, MatchInv, MemoryInv, FilesInv
<1> QED
  BY <1>3, <1>4 DEF MemoryInv

LEMMA InitMemory == Init => MemoryInv
<1> SUFFICES ASSUME Init PROVE MemoryInv
  OBVIOUS
<1>1. (\A w \in Writer : writer[w] = Idle) /\ loader.at = "idle" /\ tmp = None
  BY DEF Init, NotLoading
<1>2. WritersInv /\ \A w \in Writer : ~Active(w)
  BY <1>1, IdleWriters
<1>3. AloneInv /\ LoadingInv /\ FilesInv
  BY <1>1, <1>2 DEF AloneInv, LoadingInv, FilesInv
<1>4. MatchInv
  <2> SUFFICES ASSUME NEW p \in Profile, Plain(p) PROVE known[p] = OnDisk(p)
    BY DEF MatchInv
  <2>1. PICK ps \in SUBSET Profile, secret \in Secret \ Refused :
          LET keys == {None} \X ps
              rowOf(k) == IF k \notin keys THEN NoRow ELSE IF k[2].security = "Psk" THEN secret ELSE None
              file == IF ps = {} THEN None ELSE 1
          IN  /\ credentials = [k \in Key |-> rowOf(k)]
              /\ config = file
              /\ content = [i \in Inode |-> IF i = file THEN Whole(keys) ELSE Empty]
              /\ known = [q \in Profile |-> rowOf(<<None, q>>)]
    BY DEF Init
  <2>2. /\ credentials[<<None, p>>] = known[p]
        /\ credentials[<<Mac, p>>] = NoRow
    BY <2>1, StoreAssumption DEF Key, Scope
  <2>3. <<Mac, p>> \notin Entries(config)
    <3>1. CASE ps = {}
      BY <2>1, <3>1 DEF Entries
    <3>2. CASE ps # {}
      <4>1. 1 \in Inode
        <5>1. Cardinality(Writer) \in Nat
          BY StoreAssumption, FS_CardinalityType
        <5> QED
          BY <5>1 DEF Inode
      <4>2. config = 1 /\ content[1] = Whole({None} \X ps) /\ config # None
        BY <2>1, <3>2, <4>1, StoreAssumption
      <4> QED
        BY <4>2, StoreAssumption DEF Entries, Whole
    <3> QED
      BY <3>1, <3>2
  <2> QED
    BY <2>2, <2>3 DEF Plain, OnDisk
<1> QED
  BY <1>2, <1>3, <1>4 DEF MemoryInv

LEMMA NextMemory == Inv /\ MemoryInv /\ [Next]_vars => MemoryInv'
<1> SUFFICES ASSUME Inv, MemoryInv, [Next]_vars PROVE MemoryInv'
  OBVIOUS
<1>1. CASE \E h \in Handler : HandlerStep(h)
  BY <1>1, AddNetworkMemory, RemoveNetworkMemory, SaveCredentialMemory, RemoveCredentialMemory,
     RemoveLegacyMemory, ForwardMemory DEF HandlerStep
<1>2. CASE \E w \in Writer : SaveStep(w)
  BY <1>2, ReadConfigMemory, OpenTempMemory, WriteTempMemory, RenameTempMemory DEF SaveStep
<1>3. CASE SavePolicy
  BY <1>3, SavePolicyMemory
<1>4. CASE Load
  BY <1>4, LoadMemory
<1>5. CASE Crash
  BY <1>5, CrashMemory
<1>6. CASE UNCHANGED vars
  <2>1. UNCHANGED <<credentials, content, config, tmp, writer, loader, known, faults, raced, behind>>
    BY <1>6 DEF vars, fileVars, bounds
  <2>2. AloneInv' /\ FilesInv'
    BY <2>1 DEF MemoryInv, AloneInv, FilesInv, Active
  <2>3. Entries(config)' = Entries(config)
    BY <2>1 DEF Entries
  <2>4. LoadingInv'
    BY <2>1, <2>3 DEF MemoryInv, LoadingInv, Calm, Loaded, InScope
  <2>5. WritersInv'
    BY <2>1, <2>3 DEF MemoryInv, WritersInv, Calm, RequestOK, SavingOK, StoredOK, Taken, Plain
  <2>6. MatchInv'
    BY <2>1, <2>3 DEF MemoryInv, MatchInv, Calm, Leaves, Plain, OnDisk
  <2> QED
    BY <2>2, <2>4, <2>5, <2>6 DEF MemoryInv
<1> QED
  BY <1>1, <1>2, <1>3, <1>4, <1>5, <1>6 DEF Next

\* A backend that has served requests which did not overlap, crashes in between or not,
\* knows what the next start of the daemon would load for it (client.rs, service.rs), unless
\* it has refused one, taken one in part, or been started again without a load: in memory
\* nothing is saved that is not on disk, nor the reverse.
THEOREM MemoryAlwaysMatches == Spec => []MemoryMatchesDisk
<1>1. Inv /\ MemoryInv => MemoryMatchesDisk
  <2> SUFFICES ASSUME Inv, MemoryInv, Quiet, ~raced, ~behind, faults = 0, NoLegacy
               PROVE  known = Loaded(credentials, Entries(config))
    BY DEF MemoryMatchesDisk
  <2>1. \A p \in Profile : Plain(p) /\ \A w \in Writer : Leaves(w, p)
    BY DEF NoLegacy, Plain, Quiet, Leaves
  <2>2. \A p \in Profile : known[p] = OnDisk(p)
    BY <2>1 DEF MemoryInv, MatchInv, Calm, Quiet
  <2>3. ASSUME NEW p \in Profile PROVE Loaded(credentials, Entries(config))[p] = OnDisk(p)
    <3>1. credentials[<<None, p>>] = NoRow /\ <<None, p>> \notin Entries(config)
      BY DEF NoLegacy
    <3> QED
      BY <3>1, LoadedPlain DEF OnDisk
  <2>4. known \in [Profile -> Row] /\ Loaded(credentials, Entries(config)) \in [Profile -> Row]
    BY EntriesType, LoadedType DEF Inv, TypeOK
  <2> QED
    BY <2>2, <2>3, <2>4
<1>2. Init => Inv /\ MemoryInv
  BY InitInv, InitMemory
<1>3. Inv /\ MemoryInv /\ [Next]_vars => Inv' /\ MemoryInv'
  BY NextInv, NextMemory
<1> QED
  BY <1>1, <1>2, <1>3, PTL DEF Spec

-------------------------------------------------------------------------------
(***************************************************************************)
(* What is taken of the backend is what it promises.                       *)
(***************************************************************************)
LEMMA ForwardKeeps ==
  ASSUME Inv, NEW h \in Handler, Forward(h)
  PROVE  [Backend!Next]_(Backend!vars)
<1> DEFINE r == writer[h].request
<1>1. loader' = loader
  BY DEF Forward
<1>2. r \in Request
  BY DEF Writer, WriterState, Inv, TypeOK
<1>3. ForwardAdd(r) \/ ForwardRemove(r) \/ UNCHANGED known
  BY DEF Forward
<1>4. CASE ForwardAdd(r)
  <2>1. PICK p \in r.profiles :
          LET secret == IF r.secret = None /\ known[p] # NoRow THEN known[p] ELSE r.secret
          IN  IF Unusable(p, secret)
              THEN behind' = TRUE /\ UNCHANGED known
              ELSE known' = [known EXCEPT ![p] = secret] /\ UNCHANGED behind
    BY <1>4 DEF ForwardAdd
  <2>2. p \in Profile /\ r.secret \in Secret \cup {None}
    BY <1>2 DEF Request
  <2> DEFINE secret == Backend!Merged(known[p], r.secret)
  <2>3. \/ UNCHANGED known
        \/ ~Unusable(p, secret) /\ known' = [known EXCEPT ![p] = secret]
    BY <2>1 DEF Backend!Merged
  <2>4. CASE UNCHANGED known
    BY <1>1, <2>4 DEF Backend!vars
  <2>5. CASE ~Unusable(p, secret) /\ known' = [known EXCEPT ![p] = secret]
    <3>1. Backend!Add(p, r.secret)
      BY <1>1, <2>5 DEF Backend!Add, Backend!Unusable, Unusable
    <3> QED
      BY <2>2, <3>1 DEF Backend!Next
  <2> QED
    BY <2>3, <2>4, <2>5
<1>5. CASE ForwardRemove(r)
  <2>1. UNCHANGED known \/ \E p \in r.profiles : known[p] # NoRow /\ known' = [known EXCEPT ![p] = NoRow]
    BY <1>5 DEF ForwardRemove
  <2>2. CASE UNCHANGED known
    BY <1>1, <2>2 DEF Backend!vars
  <2>3. ASSUME NEW p \in r.profiles, known[p] # NoRow, known' = [known EXCEPT ![p] = NoRow]
        PROVE  Backend!Next
    <3>1. p \in Profile
      BY <1>2 DEF Request
    <3>2. Backend!Remove(p)
      BY <1>1, <2>3 DEF Backend!Remove
    <3> QED
      BY <3>1, <3>2 DEF Backend!Next
  <2> QED
    BY <2>1, <2>2, <2>3
<1>6. CASE UNCHANGED known
  BY <1>1, <1>6 DEF Backend!vars
<1> QED
  BY <1>3, <1>4, <1>5, <1>6

\* A start of the backend or of the daemon begins anew; the load that follows ends it.
LEMMA LoadKeeps ==
  ASSUME Inv, Load \/ Crash
  PROVE  [Backend!Next]_(Backend!vars)
<1>1. CASE StartBackend \/ Crash
  <2>1. known' = [p \in Profile |-> NoRow] /\ loader'.at = "credentials"
    BY <1>1 DEF StartBackend, Crash, NotLoading
  <2>2. Backend!Start
    BY <2>1 DEF Backend!Start
  <2> QED
    BY <2>2 DEF Backend!Next
<1>2. CASE LoadCredentials \/ LoadConfig
  <2>1. loader \in LoaderState
    BY DEF Inv, TypeOK
  <2>2. known' = known /\ loader.at # "idle" /\ loader'.at # "idle"
    BY <1>2, <2>1 DEF LoadCredentials, LoadConfig, LoaderState
  <2> QED
    BY <2>2 DEF Backend!vars
<1>3. CASE LoadNetworks
  <2>1. loader.at = "networks" /\ loader'.at = "idle" /\ known' \in {loader.networks, known}
    BY <1>3 DEF LoadNetworks, NotLoading
  <2>2. known' \in [Profile -> Backend!Row]
    BY <2>1 DEF Inv, TypeOK, LoaderState, Row, Backend!Row
  <2>3. Backend!Load
    BY <2>1, <2>2 DEF Backend!Load
  <2> QED
    BY <2>3 DEF Backend!Next
<1>4. CASE RestartBackend
  <2>1. known' = [p \in Profile |-> NoRow] /\ loader' = loader
    BY <1>4 DEF RestartBackend
  <2>2. Backend!Start
    BY <2>1 DEF Backend!Start
  <2> QED
    BY <2>2 DEF Backend!Next
<1> QED
  BY <1>1, <1>2, <1>3, <1>4 DEF Load

\* Every other step of a handler, and every step of a save, leaves the backend alone.
LEMMA StepKeeps ==
  ASSUME Inv, [Next]_vars
  PROVE  [Backend!Next]_(Backend!vars)
<1>1. ASSUME NEW h \in Handler, HandlerStep(h) PROVE [Backend!Next]_(Backend!vars)
  <2>1. CASE Forward(h)
    BY <2>1, ForwardKeeps
  <2>2. CASE ~Forward(h)
    <3>1. UNCHANGED <<known, loader>>
      <4>1. CASE AddNetwork(h)
        BY <4>1 DEF AddNetwork, Begin
      <4>2. CASE RemoveNetwork(h)
        BY <4>2 DEF RemoveNetwork, Begin
      <4>3. CASE SaveCredential(h) \/ RemoveCredential(h) \/ RemoveLegacy(h)
        BY <4>3 DEF SaveCredential, RemoveCredential, RemoveLegacy
      <4> QED
        BY <1>1, <2>2, <4>1, <4>2, <4>3 DEF HandlerStep
    <3> QED
      BY <3>1 DEF Backend!vars
  <2> QED
    BY <2>1, <2>2
<1>2. ASSUME NEW w \in Writer, SaveStep(w) PROVE [Backend!Next]_(Backend!vars)
  BY <1>2 DEF SaveStep, ReadConfig, OpenTemp, WriteTemp, RenameTemp, Backend!vars
<1>3. CASE SavePolicy
  BY <1>3 DEF SavePolicy, Begin, Backend!vars
<1>4. CASE Load \/ Crash
  BY <1>4, LoadKeeps
<1>5. CASE UNCHANGED vars
  BY <1>5 DEF vars, Backend!vars
<1> QED
  BY <1>1, <1>2, <1>3, <1>4, <1>5 DEF Next

\* What this module takes the backend to do is among what it promises (KnownNetworks),
\* however requests, loads and starts interleave: what is proved here of its memory does
\* not rest on more than WpaSupplicant's ProfilesAlwaysKept gives.
THEOREM ProfilesAlwaysKept == Spec => KeepsProfiles
<1>1. Init => Backend!Init
  <2> SUFFICES ASSUME Init PROVE Backend!Init
    OBVIOUS
  <2>1. known \in [Profile -> Row]
    BY InitInv DEF Inv, TypeOK
  <2> QED
    BY <2>1 DEF Backend!Init, Backend!Row, Row
<1> QED
  BY <1>1, StepKeeps, InitInv, NextInv, PTL DEF Spec, KeepsProfiles, Backend!Spec
===============================================================================
