----------------------------- MODULE DeviceLease -----------------------------
(***************************************************************************)
(* What `caravel-owrt connect` promises the router, without goroutines or  *)
(* state file: the device named awg0 is a lease on the routing table.      *)
(* Who holds it may change the table, who was not killed gives the table   *)
(* back before the lease, and who is told to stop does so.  Worker         *)
(* implements this.                                                        *)
(***************************************************************************)
CONSTANTS Process, Nobody

VARIABLES
    alive,      \* the processes there are
    told,       \* those told to stop
    holder,     \* the one that holds the device
    dirty       \* the processes some of whose routes are in the table

vars == <<alive, told, holder, dirty>>

Init == alive = {} /\ told = {} /\ holder = Nobody /\ dirty = {}

Start(p) ==
    /\ p \notin alive
    /\ alive' = alive \cup {p}
    /\ UNCHANGED <<told, holder, dirty>>

\* A signal comes at any time.
Tell(p) ==
    /\ p \in alive
    /\ told' = told \cup {p}
    /\ UNCHANGED <<alive, holder, dirty>>

Take(p) ==
    /\ p \in alive /\ holder = Nobody
    /\ holder' = p
    /\ UNCHANGED <<alive, told, dirty>>

Install(p) ==
    /\ p \in alive /\ holder = p
    /\ dirty' = dirty \cup {p}
    /\ UNCHANGED <<alive, told, holder>>

Clean(p) ==
    /\ p \in alive /\ holder = p
    /\ dirty' = dirty \ {p}
    /\ UNCHANGED <<alive, told, holder>>

\* The lease is given back with the table as it was.
Release(p) ==
    /\ p \in alive /\ holder = p /\ p \notin dirty
    /\ holder' = Nobody
    /\ UNCHANGED <<alive, told, dirty>>

\* The process ends without the device: it has released it or never had it.
End(p) ==
    /\ p \in alive /\ holder # p
    /\ alive' = alive \ {p} /\ told' = told \ {p}
    /\ UNCHANGED <<holder, dirty>>

\* The process is killed: the kernel takes the device back, not its routes.
Die(p) ==
    /\ p \in alive /\ holder = p
    /\ alive' = alive \ {p} /\ told' = told \ {p}
    /\ holder' = Nobody
    /\ UNCHANGED dirty

Next == \E p \in Process :
    \/ Start(p) \/ Tell(p) \/ Take(p) \/ Install(p)
    \/ Clean(p) \/ Release(p) \/ End(p) \/ Die(p)

Safe == Init /\ [][Next]_vars

\* A process told to stop is on its way out until it is gone.
Leave(p) == p \in told /\ (Clean(p) \/ Release(p) \/ End(p) \/ Die(p))

Spec == Safe /\ \A p \in Process : WF_vars(Leave(p))
=============================================================================
