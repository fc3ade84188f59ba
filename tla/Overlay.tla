------------------------------ MODULE Overlay ------------------------------
(***************************************************************************)
(* What a tunnel client promises the routing table of its host, without    *)
(* commands or undo list: it lays its own routes over the host's, at       *)
(* prefixes the host has none for and never at the default, and no route   *)
(* of the host's is displaced or deleted by anyone but the host.  Only     *)
(* routes of the tunnel and of a server alone are laid; leaving removes    *)
(* the former with the device, and the latter unless they are given up.    *)
(***************************************************************************)
CONSTANTS
    Route,      \* what a table may hold: [dest, dev, via] records
    Default,    \* the default route's prefix
    Tun, Wan,   \* the tunnel's device and the uplink
    Server      \* the addresses a tunnel may be dialled to

VARIABLES
    host,       \* the routes of the host
    table,      \* the table: the host's and the client's
    open,       \* there is a tunnel device
    left        \* prefixes of routes given up: their client never removes them

vars == <<host, table, open, left>>

Laid == table \ host
Free(d) == d # Default /\ \A h \in host : h.dest # d

Without(R, d) == {r \in R : r.dest # d}
Off(R, dev) == {r \in R : r.dev # dev}

Init == table = host /\ open = FALSE /\ left = {}

Enter ==
    /\ ~open /\ open' = TRUE
    /\ UNCHANGED <<host, table, left>>

Lay(r) ==
    /\ open /\ Free(r.dest)
    /\ r.dev = Tun \/ \E a \in Server : r.dest = {a}
    /\ table' = Without(table, r.dest) \cup {r}
    /\ left' \in {left, left \ {r.dest}}
    /\ UNCHANGED <<host, open>>

Lift(d) ==
    /\ open /\ Free(d)
    /\ table' = Without(table, d) /\ left' = left \ {d}
    /\ UNCHANGED <<host, open>>

\* A deletion failed.
GiveUp(d) ==
    /\ open /\ Free(d)
    /\ left' = left \cup {d}
    /\ UNCHANGED <<host, table, open>>

\* The client closes its tunnel: what remains has been given up before.
Leave ==
    /\ open /\ open' = FALSE
    /\ table' = Off(table, Tun)
    /\ \A r \in Laid' : r.dest \in left
    /\ UNCHANGED <<host, left>>

\* The client is killed, and what remains is given up.
Die ==
    /\ open /\ open' = FALSE
    /\ table' = Off(table, Tun)
    /\ left' = left \cup {r.dest : r \in Laid'}
    /\ UNCHANGED host

\* The host's own changes: the uplink goes, and a default of it comes.
UplinkDown ==
    /\ host' = Off(host, Wan) /\ table' = Off(table, Wan)
    /\ UNCHANGED <<open, left>>

UplinkUp(r) ==
    /\ r.dest = Default /\ r.dev = Wan
    /\ host' = Without(host, Default) \cup {r}
    /\ table' = Without(table, Default) \cup {r}
    /\ UNCHANGED <<open, left>>

Next ==
    \/ Enter \/ Leave \/ Die \/ UplinkDown
    \/ \E r \in Route : Lay(r) \/ UplinkUp(r) \/ Lift(r.dest) \/ GiveUp(r.dest)

Spec == Init /\ [][Next]_vars
=============================================================================
