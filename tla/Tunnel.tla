------------------------------- MODULE Tunnel -------------------------------
(***************************************************************************)
(* What one `caravel-owrt connect` worker does to the router's routing     *)
(* table: connect, configureNetwork and Close of cmd/caravel-owrt/         *)
(* connect.go, against a host that changes its own routes meanwhile and a  *)
(* kill that no handler sees.  Workers run one after another, each with    *)
(* its own dial spec, on one table.  One action per `ip` command.          *)
(***************************************************************************)
EXTENDS RoutingTable, Naturals, SequencesExt

CONSTANTS
    LowHalf, HighHalf,  \* 0.0.0.0/1 and 128.0.0.0/1
    Tun, Wan,           \* the worker's device, and the host's uplink
    NoVia,              \* "directly connected": no gateway
    DialSpecs,          \* what the command line and profile may resolve to
    HostTables,         \* the routing tables the host may boot with
    Gateways,           \* the gateways the uplink may be given
    WanDowns,           \* whether the uplink may lose its routes
    WanRenews,          \* whether the uplink may be given a gateway
    DelFails            \* whether `ip route del` may fail on a present route

\* A CIDR of AllowedIPs: its family, and what it covers of its own family.
CIDR == [v6 : BOOLEAN, dest : Prefix]

DialSpec == [full : BOOLEAN, addressed : BOOLEAN, allowed : Seq(CIDR), addr : Addr]

ASSUME HalvesAssumption ==
    /\ LowHalf \in Prefix /\ HighHalf \in Prefix
    /\ LowHalf \cup HighHalf = Addr /\ LowHalf \cap HighHalf = {}
    /\ \A a \in Addr : {a} # LowHalf /\ {a} # HighHalf

ASSUME HostAssumption ==
    /\ Tun \in Dev /\ Wan \in Dev /\ Tun # Wan
    /\ NoVia \in Via /\ Gateways \subseteq Via
    /\ HostTables \subseteq SUBSET Route
    /\ \A H \in HostTables : Functional(H) /\ \A r \in H : r.dev # Tun

ASSUME ModelAssumption ==
    /\ DialSpecs \subseteq DialSpec
    /\ {WanDowns, WanRenews, DelFails} \subseteq BOOLEAN

VARIABLES
    pc,         \* where the worker is in connect / configureNetwork / Close
    spec,       \* its dial spec, with --full-tunnel
    i,          \* the index of the loop it is in
    capture,    \* captureDefault
    pin,        \* the route routeTo found for the endpoint
    undo,       \* t.undo
    sig,        \* SIGTERM or SIGINT has been delivered: ctx is done
    routes,     \* the routing table
    host,       \* observer: the routes the host itself wants in it
    leaked,     \* observer: prefixes of undo entries whose route outlived them
    steady      \* observer: since the worker's launch the uplink has kept its
                \* routes and every deletion has succeeded

vars == <<pc, spec, i, capture, pin, undo, sig, routes, host, leaked, steady>>
worker == <<pc, spec, i, capture, pin, undo, sig>>

NoRoute == [dest |-> {}, dev |-> Tun, via |-> NoVia]

\* From CreateTUN to the device's Close the device exists.
Open == {"vpup", "link", "subnets", "route", "pin", "halves", "up", "undo", "device"}

TypeOK ==
    /\ pc \in {"idle", "create"} \cup Open
    /\ spec \in DialSpec
    /\ i \in Nat \ {0}
    /\ capture \in BOOLEAN
    /\ pin \in Route \cup {NoRoute} /\ (pc = "pin" => pin \in Route)
    /\ undo \in Seq(Prefix)
    /\ sig \in BOOLEAN
    /\ routes \subseteq Route
    /\ host \subseteq Route
    /\ leaked \subseteq Prefix
    /\ steady \in BOOLEAN

Init ==
    /\ pc = "idle"
    /\ spec \in DialSpecs
    /\ i = 1
    /\ capture = FALSE
    /\ pin = NoRoute
    /\ undo = << >>
    /\ sig = FALSE
    /\ host \in HostTables
    /\ routes = host
    /\ leaked = {}
    /\ steady = TRUE

-----------------------------------------------------------------------------
(* connect: the device, the VP tunnel on it, and its address.              *)

\* A worker is launched and has resolved its dial spec.
Start ==
    /\ pc = "idle"
    /\ spec' \in DialSpecs
    /\ pc' = "create"
    /\ i' = 1 /\ capture' = spec'.full /\ pin' = NoRoute /\ undo' = << >>
    /\ sig' = FALSE /\ steady' = TRUE
    /\ UNCHANGED <<routes, host, leaked>>

\* tun.CreateTUN, then vp.Up (external): either may fail, and connect then
\* returns with the device closed.
CreateTun ==
    /\ pc = "create"
    /\ pc' \in {"vpup", "idle"}
    /\ UNCHANGED <<spec, i, capture, pin, undo, sig, routes, host, leaked, steady>>

VpUp ==
    /\ pc = "vpup"
    /\ pc' \in {"link", "idle"}
    /\ UNCHANGED <<spec, i, capture, pin, undo, sig, routes, host, leaked, steady>>

\* An error of configureNetwork: connect calls Close.
Fail == /\ pc' = "undo"
        /\ UNCHANGED <<spec, i, capture, pin, undo, sig, routes, host, leaked, steady>>

\* The tunnel address check, `ip addr add`, `ip link set`.
ConfigureLink ==
    /\ pc = "link"
    /\ \/ /\ spec.addressed
          /\ pc' = "subnets"
          /\ UNCHANGED <<spec, i, capture, pin, undo, sig, routes, host, leaked, steady>>
       \/ Fail

-----------------------------------------------------------------------------
(* configureNetwork: the routes.                                           *)

\* The string test for 0.0.0.0/0 and ::/0: all of a family is covered.
IsDefaultRoute(c) == c.dest = Addr

TunRoute(dest) == [dest |-> dest, dev |-> Tun, via |-> NoVia]

\* Mutant of CanAdd: `ip route replace` where the code says `add`.
CanReplace(R, dest) == TRUE
\* `ip route add` refuses a prefix that has a route.
CanAdd(R, dest) == ~HasRoute(R, dest)

\* Mutant of AddSubnet: the undo entry is made before the command that may fail.
AddSubnetUndoFirst ==
    /\ pc = "subnets" /\ ~spec.full /\ i <= Len(spec.allowed)
    /\ LET c == spec.allowed[i]
           ours == ~IsDefaultRoute(c) /\ ~c.v6
           added == ours => CanAdd(routes, c.dest) IN
       /\ capture' = (capture \/ IsDefaultRoute(c))
       /\ undo' = IF ours THEN Append(undo, c.dest) ELSE undo
       /\ routes' = IF ours /\ added THEN Replace(routes, TunRoute(c.dest)) ELSE routes
       /\ i' = IF added THEN i + 1 ELSE i
       /\ pc' = IF added THEN pc ELSE "undo"
    /\ UNCHANGED <<spec, pin, sig, host, leaked, steady>>

\* One iteration of the AllowedIPs loop, which a full tunnel skips.
AddSubnet ==
    /\ pc = "subnets" /\ ~spec.full /\ i <= Len(spec.allowed)
    /\ LET c == spec.allowed[i] IN
       \/ /\ IsDefaultRoute(c)
          /\ capture' = TRUE /\ i' = i + 1
          /\ UNCHANGED <<pc, spec, pin, undo, sig, routes, host, leaked, steady>>
       \/ /\ ~IsDefaultRoute(c) /\ c.v6
          /\ i' = i + 1
          /\ UNCHANGED <<pc, spec, capture, pin, undo, sig, routes, host, leaked, steady>>
       \/ /\ ~IsDefaultRoute(c) /\ ~c.v6 /\ CanAdd(routes, c.dest)
          /\ routes' = Replace(routes, TunRoute(c.dest))
          /\ undo' = Append(undo, c.dest)
          /\ i' = i + 1
          /\ UNCHANGED <<pc, spec, capture, pin, sig, host, leaked, steady>>
       \/ ~IsDefaultRoute(c) /\ ~c.v6 /\ Fail

\* The end of the loop, and the early return when no default is captured.
SubnetsDone ==
    /\ pc = "subnets" /\ (spec.full \/ i > Len(spec.allowed))
    /\ pc' = IF capture THEN "route" ELSE "up"
    /\ i' = 1
    /\ UNCHANGED <<spec, capture, pin, undo, sig, routes, host, leaked, steady>>

\* routeTo: the device and gateway `ip route get` answers with.
RouteTo(R, a) == Best(R, a)

\* Mutant of PinRoute: the address where its /32 is meant.
BarePin(a, r) == [dest |-> a, dev |-> r.dev, via |-> r.via]
PinRoute(a, r) == [dest |-> {a}, dev |-> r.dev, via |-> r.via]

\* The endpoint is resolved (which may fail) and routeTo read.
ReadRoute ==
    /\ pc = "route"
    /\ \/ /\ \E r \in RouteTo(routes, spec.addr) : pin' = PinRoute(spec.addr, r)
          /\ pc' = "pin"
          /\ UNCHANGED <<spec, i, capture, undo, sig, routes, host, leaked, steady>>
       \/ Fail

InstallPin ==
    /\ pc = "pin"
    /\ \/ /\ routes' = Replace(routes, pin)
          /\ undo' = Append(undo, pin.dest)
          /\ leaked' = leaked \ {pin.dest}
          /\ pc' = "halves"
          /\ UNCHANGED <<spec, i, capture, pin, sig, host, steady>>
       \/ Fail

\* Mutant of Halves: the host's default is replaced.
WholeDefault == <<Addr>>
\* Mutant of Halves: the second half is forgotten.
OneHalf == <<LowHalf>>
Halves == <<LowHalf, HighHalf>>

InstallHalf ==
    /\ pc = "halves"
    /\ \/ /\ i <= Len(Halves)
          /\ routes' = Replace(routes, TunRoute(Halves[i]))
          /\ undo' = Append(undo, Halves[i])
          /\ i' = i + 1
          /\ UNCHANGED <<pc, spec, capture, pin, sig, host, leaked, steady>>
       \/ i <= Len(Halves) /\ Fail
       \/ /\ i > Len(Halves)
          /\ pc' = "up"
          /\ UNCHANGED <<spec, i, capture, pin, undo, sig, routes, host, leaked, steady>>

-----------------------------------------------------------------------------
(* The wait for the signal, and Close.                                     *)

AwaitSignal == pc = "up" /\ sig /\ Fail

\* The undo entries d of u whose route outlives the device.
Outliving(u) == {d \in Range(u) : HasRoute(Flush(routes, Tun), d)}

\* Mutant of UndoRoute: the oldest route is deleted first.
UndoOldest ==
    /\ pc = "undo" /\ undo # << >>
    /\ undo' = Tail(undo)
    /\ routes' = Del(routes, Head(undo))
    /\ UNCHANGED <<pc, spec, i, capture, pin, sig, host, leaked, steady>>

\* Mutant of UndoRoute: a deletion that fails is tried again, until it succeeds.
UndoUntilError ==
    /\ pc = "undo" /\ undo # << >> /\ HasRoute(routes, Last(undo))
    /\ undo' = Front(undo)
    /\ routes' = Del(routes, Last(undo))
    /\ UNCHANGED <<pc, spec, i, capture, pin, sig, host, leaked, steady>>

\* One iteration of Close's loop: its errors are ignored.
UndoRoute ==
    /\ pc = "undo" /\ undo # << >>
    /\ undo' = Front(undo)
    /\ \/ /\ routes' = Del(routes, Last(undo))
          /\ leaked' = leaked \ {Last(undo)}
          /\ UNCHANGED steady
       \/ /\ DelFails
          /\ routes' = routes
          /\ leaked' = leaked \cup Outliving(<<Last(undo)>>)
          /\ steady' = FALSE
    /\ UNCHANGED <<pc, spec, i, capture, pin, sig, host>>

UndoDone ==
    /\ pc = "undo" /\ undo = << >>
    /\ pc' = "device"
    /\ UNCHANGED <<spec, i, capture, pin, undo, sig, routes, host, leaked, steady>>

\* vt.Close: the device goes, and its routes with it.  The worker exits.
CloseDevice ==
    /\ pc = "device"
    /\ pc' = "idle"
    /\ routes' = Flush(routes, Tun)
    /\ UNCHANGED <<spec, i, capture, pin, undo, sig, host, leaked, steady>>

-----------------------------------------------------------------------------
(* The environment.                                                        *)

\* NotifyContext latches the signal wherever the worker is.
Signal ==
    /\ pc # "idle" /\ ~sig
    /\ sig' = TRUE
    /\ UNCHANGED <<pc, spec, i, capture, pin, undo, routes, host, leaked, steady>>

\* SIGKILL, a panic or the OOM killer: no deferred call runs, the kernel
\* closes the device, and the undo list dies with the process.
Kill ==
    /\ pc # "idle"
    /\ pc' = "idle"
    /\ routes' = Flush(routes, Tun)
    /\ leaked' = leaked \cup Outliving(undo)
    /\ undo' = << >>
    /\ UNCHANGED <<spec, i, capture, pin, sig, host, steady>>

\* The uplink goes down: every route through it is flushed.
WanDown ==
    /\ WanDowns
    /\ routes' = Flush(routes, Wan)
    /\ host' = Flush(host, Wan)
    /\ steady' = FALSE
    /\ UNCHANGED <<worker, leaked>>

\* The uplink gets a gateway (a renewed lease, or coming back up): the host
\* replaces its own default route and no other.
WanRenew(g) ==
    /\ WanRenews
    /\ LET r == [dest |-> Addr, dev |-> Wan, via |-> g] IN
       /\ routes' = Replace(routes, r)
       /\ host' = Replace(host, r)
    /\ UNCHANGED <<worker, leaked, steady>>

-----------------------------------------------------------------------------
\* What the worker does by itself once it has been launched.
Work ==
    \/ CreateTun \/ VpUp \/ ConfigureLink
    \/ AddSubnet \/ SubnetsDone \/ ReadRoute \/ InstallPin \/ InstallHalf
    \/ AwaitSignal \/ UndoRoute \/ UndoDone \/ CloseDevice

Environment == Start \/ Signal \/ Kill \/ WanDown \/ \E g \in Gateways : WanRenew(g)

Next == Work \/ Environment

\* The worker is a running process: its next statement is executed.
Fairness == WF_vars(Work)

Spec == Init /\ [][Next]_vars /\ Fairness

-----------------------------------------------------------------------------
(* Properties.                                                             *)

DefaultsOf(R) == {r \in R : r.dest = Addr}

\* The host's default routes are at every moment the ones the host wants:
\* none is displaced, deleted or added by setup, failure, teardown or kill
\* (the comment on captureDefault in configureNetwork).
DefaultPreserved == DefaultsOf(routes) = DefaultsOf(host)

\* While no worker runs the table is the host's own: all its routes are there
\* again, and whatever else is there is the pin of a server, the undo entry of
\* which a kill or a failed deletion left behind (t.undo, "routes to undo on
\* close").
TeardownRestores ==
    pc = "idle" =>
        /\ host \subseteq routes
        /\ \A r \in routes \ host : r.dest \in leaked /\ \E d \in DialSpecs : r.dest = {d.addr}

\* What the worker is to the host's table.
Over == INSTANCE Overlay WITH
    Default <- Addr, Server <- {d.addr : d \in DialSpecs},
    table <- routes, open <- pc \in Open, left <- leaked

\* One command after another, failing and undone anywhere, the worker only ever
\* lays routes over the host's and lifts its own again: at no step, and not
\* for a moment, is a route of the host displaced or deleted by it, or one
\* deleted that it did not add ("so a collision with an existing route fails
\* loudly instead of silently displacing it"; "the host routes to undo on close").
OverlayKept == Over!Spec

\* The tunnel's own packets to the server do not enter the tunnel, whatever
\* happens to the uplink ("so reaching the endpoint is preserved while
\* everything else flows through the tunnel").
ServerOutside == pc \in Open => \A r \in Best(routes, spec.addr) : r.dev # Tun

\* They never do at any step of setup or teardown, whatever earlier workers
\* left in the table, as long as the uplink keeps its routes and deletions
\* succeed.
EndpointOutside == steady => ServerOutside

\* The prefixes the user asked to have in the tunnel.
Wanted == IF spec.full THEN {Addr}
          ELSE {spec.allowed[k].dest : k \in {n \in DOMAIN spec.allowed : ~spec.allowed[n].v6}}

\* While connected, and whatever the uplink does, an address other than the
\* server's enters the tunnel exactly when it is in a wanted prefix and the
\* host has no route of its own that is more specific ("1 = route all traffic
\* through the tunnel; 0 = only the profile's allowed_ips").
CarriesAsConfigured ==
    pc = "up" =>
        \A a \in Addr \ {spec.addr} :
            (\A d \in leaked : a \notin d) =>
                ((\E r \in Best(routes, a) : r.dev = Tun) <=>
                 (\E w \in Wanted : /\ a \in w
                                    /\ ~\E h \in host : a \in h.dest /\ h.dest \subseteq w /\ h.dest # w))

\* The pin repeats the route the host itself has for the endpoint when it is
\* read ("pins the server endpoint to its current real route").
PinIsRealRoute ==
    [][pc = "route" /\ pc' = "pin" =>
        \E r \in Best(host, spec.addr) : pin' = [r EXCEPT !.dest = {spec.addr}]]_vars

\* A worker told to stop, wherever it is in setup, ends (and so has been
\* through Close): the signal is latched and no error ends the teardown early.
StopCompletes == sig /\ pc # "idle" ~> pc = "idle"
=============================================================================
