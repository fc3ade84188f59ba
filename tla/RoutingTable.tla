---------------------------- MODULE RoutingTable ----------------------------
(***************************************************************************)
(* The router's main IPv4 routing table as the client sees it through the  *)
(* `ip` command (connect.go runs it with sh and exec.Command).  The kernel *)
(* and iproute2 are external: these operators say what the commands the    *)
(* client issues do to the table.                                          *)
(*                                                                         *)
(* A prefix is the set of the addresses it covers, so "longest prefix"     *)
(* is the smallest set, the default route is Addr itself, and a /32 is a   *)
(* singleton.  All routes have the default metric, as the client's have:   *)
(* there is at most one route for a prefix.                                *)
(***************************************************************************)
EXTENDS FiniteSets

CONSTANTS
    Addr,       \* the IPv4 addresses told apart
    Prefix,     \* the CIDR blocks of them
    Dev,        \* the network devices
    Via         \* the gateways, and the value standing for "no gateway"

\* CIDR blocks nest or are disjoint; the default and every /32 are among them.
ASSUME PrefixAssumption ==
    /\ Prefix \subseteq SUBSET Addr /\ {} \notin Prefix
    /\ Addr \in Prefix /\ \A a \in Addr : {a} \in Prefix
    /\ \A p, q \in Prefix : p \subseteq q \/ q \subseteq p \/ p \cap q = {}

\* There are 2^32 addresses.
ASSUME AddrAssumption == IsFiniteSet(Addr)

Route == [dest : Prefix, dev : Dev, via : Via]

\* The routes of table R the kernel uses for address a: longest match.
Best(R, a) ==
    {r \in R : a \in r.dest /\ \A s \in R : a \in s.dest => r.dest \subseteq s.dest}

\* There is a route for exactly this prefix.
HasRoute(R, dest) == \E r \in R : r.dest = dest

\* ip route del DEST: an absent route leaves the table alone.
Del(R, dest) == {r \in R : r.dest # dest}

\* ip route replace: the route of the same prefix, if any, is displaced.
Replace(R, route) == Del(R, route.dest) \cup {route}

\* The kernel drops a device's routes when the device goes away.
Flush(R, dev) == {r \in R : r.dev # dev}

\* At most one route per prefix.
Functional(R) == \A r, s \in R : r.dest = s.dest => r = s
=============================================================================
