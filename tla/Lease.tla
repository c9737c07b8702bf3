-------------------------------- MODULE Lease --------------------------------
(***************************************************************************)
(* What the lock of a scheduled job promises (redlock, as                  *)
(* src/infra/scheduler uses it): a client enters with a lease that nobody  *)
(* else has.  A lease may run out under its holder, who then is overdue    *)
(* and no longer alone, and it may outlast a holder that went away.        *)
(***************************************************************************)
CONSTANTS Clients, None

VARIABLES
    holder,     \* who has the lease, or None
    inside,     \* the clients that work
    overdue     \* those of them whose lease has run out

leaseVars == <<holder, inside, overdue>>

LeaseInit == holder = None /\ inside = {} /\ overdue = {}

Enter(c) ==
    /\ holder = None /\ c \notin inside
    /\ holder' = c
    /\ inside' = inside \cup {c}
    /\ UNCHANGED overdue

(* A client that leaves gives its own lease back, or fails to.             *)
Leave(c) ==
    /\ c \in inside
    /\ inside' = inside \ {c}
    /\ overdue' = overdue \ {c}
    /\ holder' = holder \/ (holder = c /\ holder' = None)

RunOut ==
    /\ holder # None
    /\ holder' = None
    /\ overdue' = overdue \cup (inside \cap {holder})
    /\ UNCHANGED inside

LeaseNext == RunOut \/ \E c \in Clients : Enter(c) \/ Leave(c)

LeaseSpec == LeaseInit /\ [][LeaseNext]_leaseVars
==============================================================================
