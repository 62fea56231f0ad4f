----------------------------- MODULE KnownNetworks ----------------------------
(***************************************************************************)
(* What the Wi-Fi backend of one interface promises about the profiles it  *)
(* knows and their secrets, to those who save them (ProfileStore): they    *)
(* change with a request that is granted, one profile at a time, and are   *)
(* replaced once after a start.  No connection, no scan and no command     *)
(* that fails half way changes them.                                       *)
(***************************************************************************)
CONSTANTS
  None,      \* a profile without a secret
  NoRow,     \* a profile that is not known
  Profile,
  Secret,
  Refused    \* secrets that the backend refuses

VARIABLES
  known,     \* what the backend knows of every profile
  loaded     \* it has been given the saved networks since it was started

vars == <<known, loaded>>

Row == {NoRow, None} \cup Secret

Unusable(p, secret) == p.security = "Psk" /\ secret \in {None} \cup Refused

\* A secret that is omitted is the one the profile has.
Merged(row, secret) == IF secret = None /\ row # NoRow THEN row ELSE secret

Init == known \in [Profile -> Row] /\ loaded \in BOOLEAN

Add(p, secret) ==
  /\ ~Unusable(p, Merged(known[p], secret))
  /\ known' = [known EXCEPT ![p] = Merged(@, secret)]
  /\ UNCHANGED loaded

Remove(p) ==
  /\ known[p] # NoRow
  /\ known' = [known EXCEPT ![p] = NoRow]
  /\ UNCHANGED loaded

\* Unusable profiles included.
Load ==
  /\ ~loaded /\ loaded' = TRUE
  /\ known' \in [Profile -> Row]

\* A backend that is started again by its supervisor is not given the saved networks
\* once more; one that is started for an interface is.
Start ==
  /\ known' = [p \in Profile |-> NoRow]
  /\ loaded' \in {loaded, FALSE}

Next ==
  \/ \E p \in Profile, secret \in Secret \cup {None} : Add(p, secret)
  \/ \E p \in Profile : Remove(p)
  \/ Load \/ Start

Spec == Init /\ [][Next]_vars
===============================================================================
