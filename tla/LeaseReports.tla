----------------------------- MODULE LeaseReports -----------------------------
(***************************************************************************)
(* What the interface manager may rely on of the DHCP manager of one       *)
(* interface: the leases it is told of with DhcpV4Set (interface/mod.rs)   *)
(* form a chain.  Each report names as old the lease that was reported     *)
(* last, so that its address is deleted before the new one is added.  The  *)
(* exception is a client that was started anew and has forgotten its       *)
(* lease: its first report, and no other, names none.                      *)
(***************************************************************************)
CONSTANTS
  Lease,      \* DHCP leases
  None        \* no lease

VARIABLES
  lease,      \* the lease reported last, or None
  report,     \* the last report, or None
  forgotten   \* a client was started anew and has not reported yet

Init == lease = None /\ report = None /\ forgotten = FALSE

Report(old, new) ==
  /\ old = (IF forgotten THEN None ELSE lease)
  /\ old # None \/ new # None
  /\ lease' = new
  /\ report' = [old |-> old, new |-> new]
  /\ forgotten' = FALSE

Forget == forgotten' = TRUE /\ UNCHANGED <<lease, report>>

Next == Forget \/ \E old, new \in Lease \cup {None} : Report(old, new)

Spec == Init /\ [][Next]_<<lease, report, forgotten>>
===============================================================================
