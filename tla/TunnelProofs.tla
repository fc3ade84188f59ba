---------------------------- MODULE TunnelProofs ----------------------------
(***************************************************************************)
(* Proofs about Tunnel, for every value of its constants.                  *)
(***************************************************************************)
EXTENDS Tunnel, SequenceTheorems, FiniteSetTheorems, TLAPS

(***************************************************************************)
(* Facts about prefixes and about the undo list.                           *)
(***************************************************************************)

\* Neither a half of the address space nor a host route is the default route.
LEMMA NotDefault ==
    /\ LowHalf # Addr /\ HighHalf # Addr
    /\ \A a \in Addr : {a} # Addr
<1> USE HalvesAssumption, PrefixAssumption
<1>0. LowHalf # {} /\ HighHalf # {}
  OBVIOUS
<1>1. PICK x : x \in LowHalf
  BY <1>0
<1>2. PICK y : y \in HighHalf
  BY <1>0
<1>3. x \in Addr /\ y \in Addr /\ x \notin HighHalf /\ y \notin LowHalf
  BY <1>1, <1>2
<1> QED BY <1>1, <1>2, <1>3

\* Front drops the last entry of a non-empty list and keeps the others.
LEMMA FrontFacts ==
    ASSUME NEW S, NEW u \in Seq(S), u # << >>
    PROVE  /\ Len(u) \in Nat \ {0}
           /\ Last(u) = u[Len(u)] /\ Last(u) \in S
           /\ Front(u) \in Seq(S)
           /\ Len(Front(u)) = Len(u) - 1
           /\ \A n \in 1..Len(Front(u)) : Front(u)[n] = u[n]
<1>1. Len(u) \in Nat \ {0} /\ u \in [1..Len(u) -> S]
  OBVIOUS
<1>2. Front(u) = [n \in 1..Len(u) - 1 |-> u[n]]
  BY <1>1, SubSeqProperties DEF Front
<1>3. Front(u) \in Seq(S) /\ Len(Front(u)) = Len(u) - 1
  BY <1>1, SubSeqProperties DEF Front
<1> QED BY <1>1, <1>2, <1>3 DEF Last

\* Append adds one entry and keeps the others.
LEMMA AppendFacts ==
    ASSUME NEW S, NEW u \in Seq(S), NEW x \in S
    PROVE  /\ Append(u, x) \in Seq(S)
           /\ Len(Append(u, x)) = Len(u) + 1
           /\ Append(u, x)[Len(u) + 1] = x
           /\ \A n \in 1..Len(u) : Append(u, x)[n] = u[n]
OBVIOUS

(***************************************************************************)
(* Type correctness.                                                       *)
(***************************************************************************)

\* The initial states have the types of TypeOK.
LEMMA TypeInit == Init => TypeOK
<1> SUFFICES ASSUME Init PROVE TypeOK
  OBVIOUS
<1>1. spec \in DialSpec /\ host \in SUBSET Route /\ undo \in Seq(Prefix)
  BY HostAssumption, ModelAssumption DEF Init
<1>2. pin \in Route \cup {NoRoute} /\ i \in Nat \ {0}
  BY DEF Init
<1>3. routes \subseteq Route /\ leaked \subseteq Prefix
  BY <1>1 DEF Init
<1> QED BY <1>1, <1>2, <1>3 DEF Init, TypeOK

\* Every step keeps them.
LEMMA TypeStep == TypeOK /\ [Next]_vars => TypeOK'
<1> SUFFICES ASSUME TypeOK, [Next]_vars PROVE TypeOK'
  OBVIOUS
<1> USE DEF TypeOK, Open
<1>0. Fail => TypeOK'
  BY DEF Fail
<1>s. steady' \in BOOLEAN
  BY Zenon DEF Next, Work, Environment, Start, CreateTun, VpUp, ConfigureLink, AddSubnet,
     SubnetsDone, ReadRoute, InstallPin, InstallHalf, AwaitSignal, UndoRoute, UndoDone,
     CloseDevice, Signal, Kill, WanDown, WanRenew, Fail, vars
<1>1. CASE Start
  <2>1. spec' \in DialSpec /\ undo' \in Seq(Prefix)
    BY <1>1, ModelAssumption DEF Start
  <2>2. spec'.full \in BOOLEAN
    BY <2>1 DEF DialSpec
  <2>3. pin' \in Route \cup {NoRoute} /\ i' \in Nat \ {0}
    BY <1>1 DEF Start
  <2> QED BY <1>1, <2>1, <2>2, <2>3 DEF Start
<1>2. CASE CreateTun \/ VpUp \/ ConfigureLink
  BY <1>2, <1>0 DEF CreateTun, VpUp, ConfigureLink
<1>3. CASE AddSubnet
  <2>1. spec.allowed[i] \in CIDR
    BY <1>3 DEF AddSubnet, DialSpec
  <2>2. spec.allowed[i].dest \in Prefix /\ TunRoute(spec.allowed[i].dest) \in Route
    BY <2>1, HostAssumption DEF TunRoute, CIDR, Route
  <2>3. CASE Fail
    BY <2>3, <1>0
  <2>4. CASE ~Fail
    <3>1. /\ pc' = pc /\ i' = i + 1 /\ (capture' = TRUE \/ capture' = capture)
          /\ routes' = routes \/ routes' = Replace(routes, TunRoute(spec.allowed[i].dest))
          /\ undo' = undo \/ undo' = Append(undo, spec.allowed[i].dest)
          /\ UNCHANGED <<spec, pin, sig, host, leaked>>
      BY <1>3, <2>4 DEF AddSubnet
    <3>2. routes' \subseteq Route
      BY <3>1, <2>2 DEF Replace, Del
    <3>3. undo' \in Seq(Prefix)
      BY <3>1, <2>2
    <3>4. capture' \in BOOLEAN
      BY <3>1, Zenon
    <3>5. i' \in Nat \ {0}
      BY <3>1
    <3>6. pin' \in Route \cup {NoRoute} /\ pc' = "subnets"
      BY <1>3, <3>1 DEF AddSubnet
    <3>7. sig' \in BOOLEAN
      BY <3>1, Zenon
    <3>8. spec' \in DialSpec /\ host' \subseteq Route /\ leaked' \subseteq Prefix
      BY <3>1
    <3> QED BY <1>s, <3>2, <3>3, <3>4, <3>5, <3>6, <3>7, <3>8
  <2> QED BY <2>3, <2>4
<1>4. CASE SubnetsDone
  BY <1>4 DEF SubnetsDone
<1>5. CASE ReadRoute
  <2>1. ASSUME NEW r \in RouteTo(routes, spec.addr)
        PROVE  PinRoute(spec.addr, r) \in Route
    BY PrefixAssumption DEF RouteTo, Best, PinRoute, Route, DialSpec
  <2> QED BY <1>5, <1>0, <2>1 DEF ReadRoute
<1>6. CASE InstallPin
  <2>1. Replace(routes, pin) \subseteq Route /\ pin.dest \in Prefix
    BY <1>6 DEF InstallPin, Replace, Del, Route
  <2>2. Append(undo, pin.dest) \in Seq(Prefix)
    BY <2>1
  <2>3. CASE ~Fail
    <3>1. /\ pc' = "halves" /\ routes' = Replace(routes, pin) /\ undo' = Append(undo, pin.dest)
          /\ leaked' = leaked \ {pin.dest} /\ UNCHANGED <<spec, i, capture, pin, sig, host>>
      BY <1>6, <2>3 DEF InstallPin
    <3>2. /\ capture' \in BOOLEAN /\ sig' \in BOOLEAN
      BY <3>1, Zenon
    <3>3. /\ routes' \subseteq Route /\ undo' \in Seq(Prefix) /\ leaked' \subseteq Prefix
          /\ spec' \in DialSpec /\ i' \in Nat \ {0} /\ host' \subseteq Route
          /\ pin' \in Route \cup {NoRoute} /\ pc' = "halves"
      BY <2>1, <2>2, <3>1
    <3> QED BY <1>s, <3>2, <3>3
  <2> QED BY <1>0, <2>3
<1>7. CASE InstallHalf
  <2>1. ASSUME i <= Len(Halves)
        PROVE  /\ Append(undo, Halves[i]) \in Seq(Prefix)
               /\ Replace(routes, TunRoute(Halves[i])) \subseteq Route
    <3>1. Halves[i] \in Prefix
      BY <2>1, HalvesAssumption DEF Halves
    <3>2. TunRoute(Halves[i]) \in Route
      BY <3>1, HostAssumption DEF TunRoute, Route
    <3> QED BY <3>1, <3>2 DEF Replace, Del
  <2>2. CASE ~Fail
    <3>1. /\ UNCHANGED <<spec, capture, pin, sig, host, leaked>>
          /\ \/ /\ i <= Len(Halves) /\ pc' = "halves" /\ i' = i + 1
                /\ routes' = Replace(routes, TunRoute(Halves[i]))
                /\ undo' = Append(undo, Halves[i])
             \/ pc' = "up" /\ UNCHANGED <<routes, undo, i>>
      BY <1>7, <2>2 DEF InstallHalf
    <3>2. capture' \in BOOLEAN /\ sig' \in BOOLEAN
      BY <3>1, Zenon
    <3>3. routes' \subseteq Route /\ undo' \in Seq(Prefix)
      BY <2>1, <3>1
    <3>4. /\ spec' \in DialSpec /\ i' \in Nat \ {0} /\ host' \subseteq Route
          /\ pin' \in Route \cup {NoRoute} /\ pc' \in {"halves", "up"}
          /\ leaked' \subseteq Prefix
      BY <3>1
    <3> QED BY <1>s, <3>2, <3>3, <3>4
  <2> QED BY <1>0, <2>2
<1>8. CASE AwaitSignal \/ UndoDone \/ Signal
  BY <1>8, <1>0 DEF AwaitSignal, UndoDone, Signal
<1>9. CASE UndoRoute
  <2>1. /\ routes' \subseteq Route /\ undo' \in Seq(Prefix)
        /\ Last(undo) \in Prefix /\ Outliving(<<Last(undo)>>) \subseteq Prefix
    BY <1>9, FrontFacts DEF UndoRoute, Del, Outliving, Range
  <2>2. leaked' \subseteq Prefix /\ UNCHANGED <<pc, spec, i, capture, pin, sig, host>>
    BY <1>9, <2>1 DEF UndoRoute
  <2>3. /\ capture' \in BOOLEAN /\ sig' \in BOOLEAN
    BY <2>2, Zenon
  <2>4. /\ spec' \in DialSpec /\ i' \in Nat \ {0} /\ host' \subseteq Route
        /\ pin' \in Route \cup {NoRoute} /\ pc' = "undo"
    BY <1>9, <2>2 DEF UndoRoute
  <2> QED BY <1>s, <2>1, <2>2, <2>3, <2>4
<1>10. CASE CloseDevice
  BY <1>10 DEF CloseDevice, Flush
<1>11. CASE Kill
  <2>1. Outliving(undo) \subseteq Prefix
    BY DEF Outliving, Range
  <2>2. undo' \in Seq(Prefix)
    BY <1>11 DEF Kill
  <2> QED BY <1>11, <2>1, <2>2 DEF Kill, Flush
<1>12. CASE WanDown
  BY <1>12 DEF WanDown, worker, Flush
<1>13. ASSUME NEW g \in Gateways, WanRenew(g) PROVE TypeOK'
  <2>1. [dest |-> Addr, dev |-> Wan, via |-> g] \in Route
    BY PrefixAssumption, HostAssumption DEF Route
  <2> QED BY <1>13, <2>1 DEF WanRenew, worker, Replace, Del
<1>14. CASE UNCHANGED vars
  BY <1>14 DEF vars
<1> QED
  BY <1>1, <1>2, <1>3, <1>4, <1>5, <1>6, <1>7, <1>8, <1>9, <1>10, <1>11,
     <1>12, <1>13, <1>14 DEF Next, Work, Environment

\* The worker and the table keep their types through every step.
THEOREM TypeCorrect == Spec => []TypeOK
BY TypeInit, TypeStep, PTL DEF Spec

(***************************************************************************)
(* The host's default route.                                               *)
(***************************************************************************)

\* What DefaultPreserved needs to be inductive: the host never routes through
\* the tunnel device, nothing on the undo list is a default route, and the
\* pin is for the endpoint.
DefaultInv ==
    /\ TypeOK
    /\ DefaultPreserved
    /\ \A r \in host : r.dev # Tun
    /\ \A n \in 1..Len(undo) : undo[n] # Addr
    /\ pc = "pin" => pin.dest # Addr

\* Removing the route of another prefix leaves the default routes alone.
LEMMA DefaultsUntouched ==
    ASSUME NEW R, NEW d, d # Addr
    PROVE  DefaultsOf(Del(R, d)) = DefaultsOf(R)
BY DEF DefaultsOf, Del

\* So does installing the route of another prefix.
LEMMA DefaultsKept ==
    ASSUME NEW R, NEW r, r.dest # Addr
    PROVE  DefaultsOf(Replace(R, r)) = DefaultsOf(R)
BY DEF DefaultsOf, Del, Replace

\* It holds initially.
LEMMA DefaultInit == Init => DefaultInv
<1> SUFFICES ASSUME Init PROVE DefaultInv
  OBVIOUS
<1>1. TypeOK
  BY TypeInit
<1>2. \A r \in host : r.dev # Tun
  BY HostAssumption DEF Init
<1> QED BY <1>1, <1>2 DEF Init, DefaultInv, DefaultPreserved

\* Every step keeps it.
LEMMA DefaultStep == DefaultInv /\ [Next]_vars => DefaultInv'
<1> SUFFICES ASSUME DefaultInv, [Next]_vars PROVE DefaultInv'
  OBVIOUS
<1>0. TypeOK'
  BY TypeStep DEF DefaultInv
<1> USE DEF DefaultInv, DefaultPreserved
<1>1. CASE Start
  BY <1>0, <1>1 DEF Start
<1>2. CASE CreateTun \/ VpUp \/ ConfigureLink \/ SubnetsDone
  BY <1>0, <1>2 DEF CreateTun, VpUp, ConfigureLink, SubnetsDone, Fail
<1>3. CASE AddSubnet
  <2>1. CASE undo' = undo /\ routes' = routes
    BY <1>0, <1>3, <2>1 DEF AddSubnet, Fail
  <2>2. CASE ~(undo' = undo /\ routes' = routes)
    <3> DEFINE d == spec.allowed[i].dest
    <3>1. /\ d # Addr /\ undo' = Append(undo, d)
          /\ routes' = Replace(routes, TunRoute(d))
          /\ pc' = pc /\ pc = "subnets" /\ host' = host
      BY <1>3, <2>2 DEF AddSubnet, IsDefaultRoute, Fail
    <3>2. TunRoute(d).dest # Addr
      BY <3>1 DEF TunRoute
    <3>3. DefaultPreserved'
      BY <3>1, <3>2, DefaultsKept
    <3>4. \A n \in 1..Len(undo') : undo'[n] # Addr
      BY <3>1, <1>0, <1>3 DEF TypeOK
    <3> QED BY <1>0, <3>1, <3>3, <3>4
  <2> QED BY <2>1, <2>2
<1>5. CASE ReadRoute
  <2>1. ASSUME NEW r, pin' = PinRoute(spec.addr, r)
        PROVE  pin'.dest # Addr
    BY <2>1, NotDefault DEF PinRoute, TypeOK, DialSpec
  <2> QED BY <1>0, <1>5, <2>1 DEF ReadRoute, Fail
<1>6. CASE InstallPin
  <2>1. CASE Fail
    BY <1>0, <1>6, <2>1 DEF Fail, InstallPin
  <2>2. CASE ~Fail
    <3>1. /\ pin.dest # Addr /\ undo' = Append(undo, pin.dest) /\ pc' = "halves"
          /\ routes' = Replace(routes, pin) /\ host' = host
      BY <1>6, <2>2 DEF InstallPin
    <3>2. DefaultPreserved'
      BY <3>1, DefaultsKept
    <3>3. \A n \in 1..Len(undo') : undo'[n] # Addr
      BY <3>1 DEF TypeOK
    <3> QED BY <1>0, <3>1, <3>2, <3>3
  <2> QED BY <2>1, <2>2
<1>7. CASE InstallHalf
  <2>1. CASE undo' = undo /\ routes' = routes
    BY <1>0, <1>7, <2>1 DEF InstallHalf, Fail
  <2>2. CASE ~(undo' = undo /\ routes' = routes)
    <3>1. /\ i \in 1..Len(Halves) /\ undo' = Append(undo, Halves[i])
          /\ routes' = Replace(routes, TunRoute(Halves[i]))
          /\ pc' = "halves" /\ host' = host
      BY <1>7, <2>2 DEF InstallHalf, Fail, TypeOK
    <3>2. Halves[i] # Addr /\ TunRoute(Halves[i]).dest # Addr
      BY <3>1, NotDefault DEF Halves, TunRoute
    <3>3. DefaultPreserved'
      BY <3>1, <3>2, DefaultsKept
    <3>4. \A n \in 1..Len(undo') : undo'[n] # Addr
      BY <3>1, <3>2 DEF TypeOK
    <3> QED BY <1>0, <3>1, <3>3, <3>4
  <2> QED BY <2>1, <2>2
<1>8. CASE AwaitSignal \/ UndoDone \/ Signal
  BY <1>0, <1>8 DEF AwaitSignal, UndoDone, Signal, Fail
<1>9. CASE UndoRoute
  <2>1. Last(undo) # Addr /\ \A n \in 1..Len(undo') : undo'[n] # Addr
    BY <1>9, FrontFacts DEF UndoRoute, TypeOK
  <2>2. DefaultPreserved'
    BY <1>9, <2>1, DefaultsUntouched DEF UndoRoute
  <2> QED BY <1>0, <1>9, <2>1, <2>2 DEF UndoRoute
<1>10. CASE CloseDevice \/ Kill
  <2>1. DefaultsOf(Flush(routes, Tun)) = DefaultsOf(routes)
    BY DEF DefaultsOf, Flush
  <2>2. DefaultPreserved' /\ pc' = "idle" /\ host' = host
    BY <1>10, <2>1 DEF CloseDevice, Kill
  <2>3. \A n \in 1..Len(undo') : undo'[n] # Addr
    BY <1>10 DEF CloseDevice, Kill
  <2> QED BY <1>0, <2>2, <2>3
<1>12. CASE WanDown
  <2>1. DefaultPreserved'
    BY <1>12 DEF WanDown, Flush, DefaultsOf
  <2> QED BY <1>0, <1>12, <2>1 DEF WanDown, worker, Flush
<1>13. ASSUME NEW g \in Gateways, WanRenew(g) PROVE DefaultInv'
  <2>1. DefaultPreserved'
    <3> DEFINE d == [dest |-> Addr, dev |-> Wan, via |-> g]
    <3>1. ASSUME NEW R PROVE DefaultsOf(Replace(R, d)) = {d}
      BY DEF DefaultsOf, Replace, Del
    <3>2. routes' = Replace(routes, d) /\ host' = Replace(host, d)
      BY <1>13 DEF WanRenew
    <3> QED BY <3>1, <3>2
  <2>2. \A r \in host' : r.dev # Tun
    BY <1>13, HostAssumption DEF WanRenew, Replace, Del
  <2> QED BY <1>0, <1>13, <2>1, <2>2 DEF WanRenew, worker
<1>14. CASE UNCHANGED vars
  BY <1>0, <1>14 DEF vars
<1> QED
  BY <1>1, <1>2, <1>3, <1>5, <1>6, <1>7, <1>8, <1>9, <1>10,
     <1>12, <1>13, <1>14 DEF Next, Work, Environment

\* Nothing the worker does, nor its death at any step, changes the router's
\* default routes: for every dial spec, every host table and every failure.
THEOREM DefaultSafe == Spec => []DefaultPreserved
<1>1. DefaultInv => DefaultPreserved
  BY DEF DefaultInv
<1> QED BY <1>1, DefaultInit, DefaultStep, PTL DEF Spec

(***************************************************************************)
(* The route to the server.                                                *)
(***************************************************************************)

\* What the theorem assumes of the configuration: apart from the defaults, no
\* allowed subnet holds the server's own address.
NoCovering ==
    \A d \in DialSpecs : \A n \in 1..Len(d.allowed) :
        LET c == d.allowed[n] IN c.v6 \/ c.dest = Addr \/ d.addr \notin c.dest

\* The routes that would take the tunnel's own packets into the tunnel, were
\* there no pin.
Capturing == {r \in routes : r.dev = Tun /\ spec.addr \in r.dest}

\* No host route to the server is the tunnel's; while a tunnel route captures
\* the server there is a host route to it; and the capturing route is on the
\* undo list.
Guarded ==
    /\ \A r \in routes : r.dest = {spec.addr} => r.dev # Tun
    /\ Capturing # {} => HasRoute(routes, {spec.addr})
    /\ \A r \in Capturing : \E n \in 1..Len(undo) : undo[n] = r.dest

\* On the undo list nothing below the pin captures the server, so that the pin
\* is the last of them to be deleted.
PinFirst ==
    \A n \in 1..Len(undo) : undo[n] = {spec.addr} =>
        \A m \in 1..n - 1 : spec.addr \notin undo[m]

\* What holds at the steps before and around the installation of the pin.
BeforePin ==
    /\ pc \in {"idle", "create", "vpup", "link"} => \A r \in routes : r.dev # Tun
    /\ pc \in {"create", "vpup", "link", "subnets", "route", "pin"} =>
        \A n \in 1..Len(undo) : spec.addr \notin undo[n]
    /\ pc = "pin" => pin.dest = {spec.addr} /\ pin.dev # Tun
    /\ pc = "halves" => HasRoute(routes, {spec.addr})

SteadyInv == TypeOK /\ spec \in DialSpecs /\ Guarded /\ PinFirst /\ BeforePin

\* Before its routes, and after it, a worker leaves the tunnel out of the table.
Quiet == pc \in {"idle", "create", "vpup", "link"} => \A r \in routes : r.dev # Tun

\* A launch begins steady, whatever there was before.
PinInv == TypeOK /\ spec \in DialSpecs /\ Quiet /\ (steady = TRUE => SteadyInv)

\* The guard is what ServerOutside asks for: the host route is longer than
\* every other prefix that holds the server.
LEMMA GuardedIsOutside ==
    ASSUME Guarded
    PROVE  \A r \in Best(routes, spec.addr) : r.dev # Tun
<1> SUFFICES ASSUME NEW r \in Best(routes, spec.addr), r.dev = Tun PROVE FALSE
  OBVIOUS
<1>1. r \in Capturing
  BY DEF Best, Capturing
<1>2. PICK p \in routes : p.dest = {spec.addr}
  BY <1>1 DEF Guarded, HasRoute
<1>3. r.dest \subseteq {spec.addr} /\ spec.addr \in r.dest
  BY <1>2 DEF Best
<1>4. r.dest = {spec.addr}
  BY <1>3
<1> QED BY <1>1, <1>4 DEF Guarded, Capturing

\* A table without tunnel routes is guarded for every server.
LEMMA NoTunGuarded ==
    ASSUME \A r \in routes : r.dev # Tun
    PROVE  Guarded
BY DEF Guarded, Capturing

\* Steps that leave the worker's route, list and spec alone keep the guard.
LEMMA GuardFrame ==
    ASSUME Guarded, PinFirst, UNCHANGED <<routes, undo, spec>>
    PROVE  Guarded' /\ PinFirst'
BY DEF Guarded, PinFirst, Capturing, HasRoute

\* A new entry that is not a host route to the server keeps PinFirst.
LEMMA AppendPinFirst ==
    ASSUME undo \in Seq(Prefix), PinFirst, NEW d \in Prefix, spec' = spec,
           undo' = Append(undo, d),
           d = {spec.addr} => \A n \in 1..Len(undo) : spec.addr \notin undo[n]
    PROVE  PinFirst'
<1>1. /\ Len(undo') = Len(undo) + 1 /\ undo'[Len(undo) + 1] = d
      /\ \A n \in 1..Len(undo) : undo'[n] = undo[n]
      /\ Len(undo) \in Nat
  BY AppendFacts
<1> SUFFICES ASSUME NEW n \in 1..Len(undo'), undo'[n] = {spec.addr}, NEW m \in 1..n - 1
             PROVE  spec.addr \notin undo'[m]
  BY DEF PinFirst
<1>2. m \in 1..Len(undo) /\ undo'[m] = undo[m]
  BY <1>1
<1>3. CASE n = Len(undo) + 1
  BY <1>1, <1>2, <1>3
<1>4. CASE n # Len(undo) + 1
  <2>1. n \in 1..Len(undo) /\ undo[n] = {spec.addr}
    BY <1>1, <1>4
  <2> QED BY <1>2, <2>1 DEF PinFirst
<1> QED BY <1>3, <1>4

\* Installing a route of the tunnel, and putting it on the list, keeps the
\* guard if it does not capture the server, or a host route is there.
LEMMA InstallGuarded ==
    ASSUME TypeOK, Guarded, NEW d \in Prefix, d # {spec.addr}, spec' = spec,
           undo' = Append(undo, d), routes' = Replace(routes, TunRoute(d)),
           spec.addr \in d => HasRoute(routes, {spec.addr})
    PROVE  Guarded'
<1>1. /\ Len(undo') = Len(undo) + 1 /\ undo'[Len(undo) + 1] = d
      /\ \A n \in 1..Len(undo) : undo'[n] = undo[n]
      /\ Len(undo) \in Nat
  BY AppendFacts DEF TypeOK
<1>2. HasRoute(routes, {spec.addr}) => HasRoute(routes', {spec.addr})
  BY DEF HasRoute, Replace, Del
<1>3. \A r \in Capturing' : r \in Capturing \/ r = TunRoute(d)
  BY DEF Capturing, Replace, Del
<1>4. \A r \in routes' : r.dest = {spec.addr} => r.dev # Tun
  BY DEF Guarded, Replace, Del, TunRoute
<1>5. Capturing' # {} => HasRoute(routes', {spec.addr})
  BY <1>2, <1>3 DEF Guarded, Capturing, TunRoute
<1>6. \A r \in Capturing' : \E n \in 1..Len(undo') : undo'[n] = r.dest
  <2> SUFFICES ASSUME NEW r \in Capturing' PROVE \E n \in 1..Len(undo') : undo'[n] = r.dest
    OBVIOUS
  <2>1. CASE r \in Capturing
    <3>1. PICK n \in 1..Len(undo) : undo[n] = r.dest
      BY <2>1 DEF Guarded
    <3> QED BY <1>1, <3>1
  <2>2. CASE r = TunRoute(d)
    <3>1. Len(undo) + 1 \in 1..Len(undo') /\ r.dest = d
      BY <1>1, <2>2 DEF TunRoute
    <3> QED BY <1>1, <3>1
  <2> QED BY <1>3, <2>1, <2>2
<1> QED BY <1>4, <1>5, <1>6 DEF Guarded

\* Every step after which the uplink has kept its routes and the deletions have
\* succeeded keeps the invariant.
LEMMA SteadyStep ==
    ASSUME NoCovering, SteadyInv, [Next]_vars, steady' = TRUE
    PROVE  SteadyInv'
<1>0. TypeOK /\ TypeOK' /\ Guarded /\ PinFirst /\ BeforePin /\ spec \in DialSpecs
  BY TypeStep DEF SteadyInv
<1>a. spec.addr \in Addr /\ {spec.addr} \in Prefix /\ {spec.addr} # Addr
      /\ {spec.addr} # LowHalf /\ {spec.addr} # HighHalf
  BY <1>0, NotDefault, PrefixAssumption, HalvesAssumption DEF TypeOK, DialSpec
<1>b. Fail => SteadyInv'
  BY <1>0, GuardFrame DEF Fail, SteadyInv, BeforePin
<1>1. CASE Start
  <2>1. spec' \in DialSpecs /\ undo' = << >> /\ pc' = "create"
        /\ \A r \in routes' : r.dev # Tun
    BY <1>0, <1>1 DEF Start, BeforePin
  <2>2. Guarded'
    BY <2>1 DEF Guarded, Capturing
  <2>3. PinFirst' /\ BeforePin'
    BY <2>1 DEF PinFirst, BeforePin
  <2> QED BY <1>0, <2>1, <2>2, <2>3 DEF SteadyInv
<1>2. CASE CreateTun \/ VpUp \/ ConfigureLink \/ SubnetsDone
  <2>1. UNCHANGED <<routes, undo, spec>> /\ Guarded' /\ PinFirst'
    BY <1>0, <1>2, GuardFrame DEF CreateTun, VpUp, ConfigureLink, SubnetsDone, Fail
  <2>2. BeforePin'
    BY <1>0, <1>2 DEF CreateTun, VpUp, ConfigureLink, SubnetsDone, Fail, BeforePin
  <2> QED BY <1>0, <2>1, <2>2 DEF SteadyInv
<1>3. CASE AddSubnet
  <2>1. CASE Fail
    BY <1>b, <2>1
  <2>2. CASE UNCHANGED <<pc, spec, undo, routes>>
    <3>1. Guarded' /\ PinFirst'
      BY <1>0, <2>2, GuardFrame
    <3>2. BeforePin'
      BY <1>0, <1>3, <2>2 DEF BeforePin, AddSubnet
    <3> QED BY <1>0, <2>2, <3>1, <3>2 DEF SteadyInv
  <2>3. CASE ~Fail /\ ~UNCHANGED <<pc, spec, undo, routes>>
    <3> DEFINE c == spec.allowed[i]
               d == c.dest
    <3>a. /\ pc = "subnets" /\ pc' = pc /\ spec' = spec
          /\ ~c.v6 /\ d # Addr /\ i <= Len(spec.allowed)
          /\ routes' = Replace(routes, TunRoute(d)) /\ undo' = Append(undo, d)
      BY <1>3, <2>3, Zenon DEF AddSubnet, IsDefaultRoute
    <3>b. i \in 1..Len(spec.allowed)
      BY <1>0, <3>a DEF TypeOK, DialSpec
    <3>1. /\ pc = "subnets" /\ pc' = pc /\ spec' = spec
          /\ ~c.v6 /\ d # Addr /\ i \in 1..Len(spec.allowed)
          /\ routes' = Replace(routes, TunRoute(d)) /\ undo' = Append(undo, d)
      BY <3>a, <3>b
    <3>2. spec.addr \notin d
      BY <1>0, <3>1 DEF NoCovering
    <3>3. d \in Prefix
      BY <1>0, <3>1 DEF TypeOK, DialSpec, CIDR
    <3>4. d # {spec.addr}
      BY <3>2
    <3>5. Guarded'
      BY <1>0, <3>1, <3>2, <3>3, <3>4, InstallGuarded
    <3>6. PinFirst'
      BY <1>0, <3>1, <3>3, <3>4, AppendPinFirst DEF TypeOK
    <3>7. \A n \in 1..Len(undo') : spec.addr \notin undo'[n]
      BY <1>0, <3>1, <3>2, <3>3, AppendFacts DEF BeforePin, TypeOK
    <3>8. BeforePin'
      BY <3>1, <3>7 DEF BeforePin
    <3> QED BY <1>0, <3>1, <3>5, <3>6, <3>8 DEF SteadyInv
  <2> QED BY <2>1, <2>2, <2>3
<1>4. CASE ReadRoute
  <2>1. CASE Fail
    BY <1>b, <2>1
  <2>2. CASE ~Fail
    <3>1. PICK r \in RouteTo(routes, spec.addr) : pin' = PinRoute(spec.addr, r)
      BY <1>4, <2>2 DEF ReadRoute
    <3>2. r.dev # Tun
      BY <1>0, <3>1, GuardedIsOutside DEF RouteTo
    <3>3. pin'.dest = {spec.addr} /\ pin'.dev # Tun
      BY <3>1, <3>2 DEF PinRoute
    <3>4. pc = "route" /\ pc' = "pin" /\ UNCHANGED <<spec, undo, routes>>
      BY <1>4, <2>2 DEF ReadRoute
    <3>5. Guarded' /\ PinFirst'
      BY <1>0, <3>4, GuardFrame
    <3>6. BeforePin'
      BY <1>0, <3>3, <3>4 DEF BeforePin
    <3> QED BY <1>0, <3>4, <3>5, <3>6 DEF SteadyInv
  <2> QED BY <2>1, <2>2
<1>5. CASE InstallPin
  <2>1. CASE Fail
    BY <1>b, <2>1
  <2>2. CASE ~Fail
    <3>1. /\ pc = "pin" /\ pc' = "halves" /\ spec' = spec
          /\ routes' = Replace(routes, pin) /\ undo' = Append(undo, pin.dest)
          /\ pin.dest = {spec.addr} /\ pin.dev # Tun
          /\ \A n \in 1..Len(undo) : spec.addr \notin undo[n]
      BY <1>0, <1>5, <2>2 DEF InstallPin, BeforePin
    <3>2. Capturing = {}
      BY <1>0, <3>1 DEF Guarded, Capturing
    <3>3. Capturing' = {}
      BY <3>1, <3>2 DEF Capturing, Replace, Del
    <3>4. Guarded'
      BY <1>0, <3>1, <3>3 DEF Guarded, Replace, Del
    <3>5. PinFirst'
      BY <1>0, <1>a, <3>1, AppendPinFirst DEF TypeOK
    <3>6. BeforePin'
      BY <3>1 DEF BeforePin, HasRoute, Replace
    <3> QED BY <1>0, <3>1, <3>4, <3>5, <3>6 DEF SteadyInv
  <2> QED BY <2>1, <2>2
<1>6. CASE InstallHalf
  <2>1. CASE Fail
    BY <1>b, <2>1
  <2>2. CASE pc' = "up" /\ UNCHANGED <<spec, undo, routes>>
    BY <1>0, <2>2, GuardFrame DEF SteadyInv, BeforePin
  <2>3. CASE ~Fail /\ ~(pc' = "up" /\ UNCHANGED <<spec, undo, routes>>)
    <3>a. /\ pc = "halves" /\ pc' = pc /\ spec' = spec /\ i <= Len(Halves)
          /\ routes' = Replace(routes, TunRoute(Halves[i]))
          /\ undo' = Append(undo, Halves[i])
      BY <1>6, <2>3, Zenon DEF InstallHalf
    <3>b. i \in 1..Len(Halves)
      BY <1>0, <3>a DEF TypeOK, Halves
    <3>1. /\ pc = "halves" /\ pc' = pc /\ spec' = spec /\ i \in 1..Len(Halves)
          /\ routes' = Replace(routes, TunRoute(Halves[i]))
          /\ undo' = Append(undo, Halves[i])
      BY <3>a, <3>b
    <3>2. Halves[i] \in Prefix /\ Halves[i] # {spec.addr}
      BY <1>a, <3>1, HalvesAssumption DEF Halves
    <3>3. HasRoute(routes, {spec.addr})
      BY <1>0, <3>1 DEF BeforePin
    <3>4. Guarded'
      BY <1>0, <3>1, <3>2, <3>3, InstallGuarded
    <3>5. PinFirst'
      BY <1>0, <3>1, <3>2, AppendPinFirst DEF TypeOK
    <3>6. HasRoute(routes', {spec.addr})
      BY <3>1, <3>2, <3>3 DEF HasRoute, Replace, Del, TunRoute
    <3> QED BY <1>0, <3>1, <3>4, <3>5, <3>6 DEF SteadyInv, BeforePin
  <2> QED BY <2>1, <2>2, <2>3
<1>7. CASE AwaitSignal
  BY <1>b, <1>7 DEF AwaitSignal
<1>8. CASE UndoDone \/ Signal
  BY <1>0, <1>8, GuardFrame DEF UndoDone, Signal, SteadyInv, BeforePin
<1>9. CASE UndoRoute
  <2> DEFINE d == Last(undo)
             k == Len(undo)
  <2>1. /\ pc = "undo" /\ pc' = pc /\ spec' = spec /\ undo # << >>
        /\ undo' = Front(undo) /\ routes' = Del(routes, d)
    BY <1>9 DEF UndoRoute
  <2>2. /\ k \in Nat \ {0} /\ d = undo[k] /\ Len(undo') = k - 1
        /\ \A n \in 1..k - 1 : undo'[n] = undo[n]
    BY <1>0, <2>1, FrontFacts DEF TypeOK
  <2>3. Capturing' \subseteq Capturing /\ \A r \in routes' : r \in routes /\ r.dest # d
    BY <2>1 DEF Capturing, Del
  <2>4. \A r \in Capturing' : \E n \in 1..k - 1 : undo[n] = r.dest
    <3> SUFFICES ASSUME NEW r \in Capturing' PROVE \E n \in 1..k - 1 : undo[n] = r.dest
      OBVIOUS
    <3>1. PICK n \in 1..k : undo[n] = r.dest
      BY <1>0, <2>3 DEF Guarded
    <3>2. n # k
      BY <2>2, <2>3, <3>1 DEF Capturing
    <3> QED BY <2>2, <3>1, <3>2
  <2>5. Capturing' # {} => HasRoute(routes', {spec.addr})
    <3> SUFFICES ASSUME NEW r \in Capturing' PROVE HasRoute(routes', {spec.addr})
      OBVIOUS
    <3>1. PICK n \in 1..k - 1 : undo[n] = r.dest
      BY <2>4
    <3>2. spec.addr \in r.dest
      BY <2>1 DEF Capturing
    <3>3. d # {spec.addr}
      BY <1>0, <2>2, <3>1, <3>2 DEF PinFirst
    <3>4. HasRoute(routes, {spec.addr})
      BY <1>0, <2>3 DEF Guarded
    <3> QED BY <2>1, <3>3, <3>4 DEF HasRoute, Del
  <2>6. Guarded'
    <3>1. \A r \in Capturing' : \E n \in 1..Len(undo') : undo'[n] = r.dest
      BY <2>2, <2>4
    <3> QED BY <1>0, <2>1, <2>3, <2>5, <3>1 DEF Guarded
  <2>7. PinFirst'
    <3> SUFFICES ASSUME NEW n \in 1..k - 1, undo'[n] = {spec.addr}, NEW m \in 1..n - 1
                 PROVE  spec.addr \notin undo'[m]
      BY <2>1, <2>2 DEF PinFirst
    <3>1. m \in 1..k - 1 /\ n \in 1..k
      BY <2>2
    <3>2. undo'[n] = undo[n] /\ undo'[m] = undo[m]
      BY <2>2, <3>1
    <3>3. undo[n] = {spec.addr} => \A q \in 1..n - 1 : spec.addr \notin undo[q]
      BY <1>0, <2>2, <3>1 DEF PinFirst
    <3> QED BY <3>2, <3>3
  <2>8. BeforePin'
    BY <2>1 DEF BeforePin
  <2> QED BY <1>0, <2>1, <2>6, <2>7, <2>8 DEF SteadyInv
<1>10. CASE CloseDevice \/ Kill
  <2>1. /\ pc' = "idle" /\ spec' = spec /\ (undo' = undo \/ undo' = << >>)
        /\ \A r \in routes' : r.dev # Tun
    BY <1>10 DEF CloseDevice, Kill, Flush
  <2>2. Guarded'
    BY <2>1 DEF Guarded, Capturing
  <2>3. PinFirst'
    BY <1>0, <2>1 DEF PinFirst
  <2>4. BeforePin'
    BY <2>1 DEF BeforePin
  <2> QED BY <1>0, <2>1, <2>2, <2>3, <2>4 DEF SteadyInv
<1>11. CASE WanDown
  BY <1>11 DEF WanDown
<1>12. ASSUME NEW g \in Gateways, WanRenew(g) PROVE SteadyInv'
  <2>1. /\ UNCHANGED <<pc, spec, undo, pin>> /\ {spec.addr} # Addr
        /\ routes' = Replace(routes, [dest |-> Addr, dev |-> Wan, via |-> g])
    BY <1>a, <1>12 DEF WanRenew, worker
  <2>2. /\ Capturing' \subseteq Capturing
        /\ \A r \in routes' : r \in routes \/ (r.dest = Addr /\ r.dev # Tun)
        /\ HasRoute(routes, {spec.addr}) => HasRoute(routes', {spec.addr})
    BY <2>1, HostAssumption DEF Capturing, HasRoute, Replace, Del
  <2>3. Guarded' /\ PinFirst'
    BY <1>0, <2>1, <2>2 DEF Guarded, PinFirst
  <2>4. BeforePin'
    BY <1>0, <2>1, <2>2 DEF BeforePin
  <2> QED BY <1>0, <2>1, <2>3, <2>4 DEF SteadyInv
<1>13. CASE UNCHANGED vars
  BY <1>0, <1>13, GuardFrame DEF vars, SteadyInv, BeforePin
<1> QED
  BY <1>1, <1>2, <1>3, <1>4, <1>5, <1>6, <1>7, <1>8, <1>9, <1>10, <1>11,
     <1>12, <1>13 DEF Next, Work, Environment

\* Nothing but the launch of the next worker ends a state that is not steady.
LEMMA SteadyBack ==
    ASSUME [Next]_vars, ~Start, steady' = TRUE
    PROVE  steady = TRUE
BY DEF Next, Work, Environment, CreateTun, VpUp, ConfigureLink, AddSubnet, SubnetsDone,
       ReadRoute, InstallPin, InstallHalf, AwaitSignal, UndoRoute, UndoDone, CloseDevice,
       Signal, Kill, WanDown, WanRenew, Fail, vars

\* Every step keeps the table free of the tunnel before a worker's routes and
\* after it.
LEMMA QuietStep ==
    ASSUME TypeOK, Quiet, [Next]_vars
    PROVE  Quiet'
<1>1. CASE Start \/ CreateTun \/ VpUp
  BY <1>1 DEF Quiet, Start, CreateTun, VpUp
<1>2. CASE ConfigureLink \/ SubnetsDone \/ ReadRoute \/ InstallPin \/ InstallHalf
  BY <1>2 DEF Quiet, ConfigureLink, SubnetsDone, ReadRoute, InstallPin, InstallHalf, Fail
<1>3. CASE AddSubnet
  BY <1>3 DEF Quiet, AddSubnet, Fail
<1>4. CASE AwaitSignal \/ UndoRoute \/ UndoDone \/ Signal
  BY <1>4 DEF Quiet, AwaitSignal, UndoRoute, UndoDone, Signal, Fail, Del
<1>5. CASE CloseDevice \/ Kill \/ WanDown
  BY <1>5 DEF Quiet, CloseDevice, Kill, WanDown, Flush, worker
<1>6. ASSUME NEW g \in Gateways, WanRenew(g) PROVE Quiet'
  BY <1>6, HostAssumption DEF Quiet, WanRenew, Replace, Del, worker
<1>7. CASE UNCHANGED vars
  BY <1>7 DEF Quiet, vars
<1> QED BY <1>1, <1>2, <1>3, <1>4, <1>5, <1>6, <1>7 DEF Next, Work, Environment

\* Every step keeps the whole.
LEMMA PinStep ==
    ASSUME NoCovering
    PROVE  PinInv /\ [Next]_vars => PinInv'
<1> SUFFICES ASSUME PinInv, [Next]_vars PROVE PinInv'
  OBVIOUS
<1>1. TypeOK' /\ Quiet'
  BY TypeStep, QuietStep DEF PinInv
<1>2. CASE Start
  <2>1. spec' \in DialSpecs /\ undo' = << >> /\ pc' = "create"
        /\ \A r \in routes' : r.dev # Tun
    BY <1>2 DEF Start, PinInv, Quiet
  <2>2. Guarded'
    BY <2>1 DEF Guarded, Capturing
  <2>3. PinFirst' /\ BeforePin'
    BY <2>1 DEF PinFirst, BeforePin
  <2> QED BY <1>1, <2>1, <2>2, <2>3 DEF PinInv, SteadyInv
<1>3. CASE ~Start
  <2>1. spec' \in DialSpecs
    BY <1>3 DEF PinInv, Next, Work, Environment, CreateTun, VpUp, ConfigureLink, AddSubnet,
           SubnetsDone, ReadRoute, InstallPin, InstallHalf, AwaitSignal, UndoRoute, UndoDone,
           CloseDevice, Signal, Kill, WanDown, WanRenew, Fail, vars, worker
  <2>2. steady' = TRUE => SteadyInv'
    BY <1>3, SteadyBack, SteadyStep DEF PinInv
  <2> QED BY <1>1, <2>1, <2>2 DEF PinInv
<1> QED BY <1>2, <1>3

\* If no allowed subnet holds the server, the server is outside the tunnel at
\* every step of a worker's setup and teardown as long as the uplink keeps its
\* routes and deletions succeed, for every table, list of subnets and gateway,
\* and whatever outages, failures and kills earlier workers have seen.
THEOREM EndpointSafe ==
    ASSUME NoCovering
    PROVE  Spec => []EndpointOutside
<1>1. Init => PinInv
  <2> SUFFICES ASSUME Init PROVE PinInv
    OBVIOUS
  <2>1. \A r \in routes : r.dev # Tun
    BY HostAssumption DEF Init
  <2>2. Guarded
    BY <2>1, NoTunGuarded
  <2> QED BY <2>1, <2>2, TypeInit DEF Init, PinInv, SteadyInv, Quiet, PinFirst, BeforePin
<1>2. PinInv => EndpointOutside
  BY GuardedIsOutside DEF PinInv, SteadyInv, EndpointOutside, ServerOutside
<1> QED BY <1>1, <1>2, PinStep, PTL DEF Spec

(***************************************************************************)
(* What is left when no worker runs.                                       *)
(***************************************************************************)

\* The prefixes of the routes the worker installs with `ip route replace`.
Ours == {LowHalf, HighHalf} \cup {{d.addr} : d \in DialSpecs}

\* What the theorem assumes of the router: it has no route of its own for the
\* halves or for a server alone, which the worker would displace.
NoCollision == \A H \in HostTables : \A r \in H : r.dest \notin Ours

\* Routes that are neither the host's nor lost with the device are accounted
\* for by the undo list or by an earlier kill or failure.
Accounted ==
    \A r \in routes \ host :
        \/ r.dev = Tun
        \/ r.dest \in leaked
        \/ \E n \in 1..Len(undo) : undo[n] = r.dest

\* No undo entry is a prefix of the host's.
UndoNotHost == \A n \in 1..Len(undo) : \A r \in host : undo[n] # r.dest

RestoreInv ==
    /\ DefaultInv
    /\ spec \in DialSpecs
    /\ host \subseteq routes
    /\ \A r \in host : r.dest \notin Ours
    /\ Accounted /\ UndoNotHost
    /\ pc = "pin" => pin.dest = {spec.addr}
    /\ pc \in {"idle", "create", "vpup", "link"} => undo = << >> /\ \A r \in routes : r.dev # Tun
    /\ pc = "device" => undo = << >>

\* Installing a route for a prefix the host has none for, and putting it on
\* the list, keeps the host's routes and the account of the others.
LEMMA InstallAccounted ==
    ASSUME undo \in Seq(Prefix), NEW d \in Prefix, NEW r, r.dest = d,
           host \subseteq routes, Accounted, UndoNotHost, \A h \in host : h.dest # d,
           host' = host, undo' = Append(undo, d), routes' = Replace(routes, r),
           leaked' = leaked \/ leaked' = leaked \ {d}
    PROVE  host' \subseteq routes' /\ Accounted' /\ UndoNotHost'
<1>1. /\ Len(undo') = Len(undo) + 1 /\ undo'[Len(undo) + 1] = d
      /\ \A n \in 1..Len(undo) : undo'[n] = undo[n]
      /\ Len(undo) \in Nat
  BY AppendFacts
<1>2. host' \subseteq routes'
  BY DEF Replace, Del
<1>3. Accounted'
  <2> SUFFICES ASSUME NEW q \in routes' \ host'
               PROVE  q.dev = Tun \/ q.dest \in leaked' \/ \E n \in 1..Len(undo') : undo'[n] = q.dest
    BY DEF Accounted
  <2>1. CASE q = r
    <3>1. Len(undo) + 1 \in 1..Len(undo')
      BY <1>1
    <3> QED BY <1>1, <2>1, <3>1
  <2>2. CASE q # r
    <3>1. q \in routes \ host /\ q.dest # d
      BY <2>2 DEF Replace, Del
    <3>2. CASE \E n \in 1..Len(undo) : undo[n] = q.dest
      <4>1. PICK n \in 1..Len(undo) : undo[n] = q.dest
        BY <3>2
      <4>2. n \in 1..Len(undo') /\ undo'[n] = q.dest
        BY <1>1, <4>1
      <4> QED BY <4>2
    <3>3. CASE ~\E n \in 1..Len(undo) : undo[n] = q.dest
      BY <3>1, <3>3 DEF Accounted
    <3> QED BY <3>2, <3>3
  <2> QED BY <2>1, <2>2
<1>4. UndoNotHost'
  <2> SUFFICES ASSUME NEW n \in 1..Len(undo'), NEW h \in host' PROVE undo'[n] # h.dest
    BY DEF UndoNotHost
  <2>1. CASE n = Len(undo) + 1
    BY <1>1, <2>1
  <2>2. CASE n # Len(undo) + 1
    <3>1. n \in 1..Len(undo) /\ undo'[n] = undo[n]
      BY <1>1, <2>2
    <3> QED BY <3>1 DEF UndoNotHost
  <2> QED BY <2>1, <2>2
<1> QED BY <1>2, <1>3, <1>4

\* Steps that leave the table, the list and the observers alone keep it.
LEMMA RestoreFrame ==
    ASSUME RestoreInv, DefaultInv', UNCHANGED <<spec, undo, routes, host, leaked>>,
           pc' = "pin" => pin'.dest = {spec.addr},
           pc' \in {"idle", "create", "vpup", "link"} => pc \in {"idle", "create", "vpup", "link"},
           pc' = "device" => undo = << >>
    PROVE  RestoreInv'
BY DEF RestoreInv, Accounted, UndoNotHost

\* Every step keeps it, whatever fails.
LEMMA RestoreStep == RestoreInv /\ [Next]_vars => RestoreInv'
<1> SUFFICES ASSUME RestoreInv, [Next]_vars PROVE RestoreInv'
  OBVIOUS
<1>0. TypeOK /\ TypeOK' /\ DefaultInv /\ DefaultInv'
  BY DefaultStep, TypeStep DEF RestoreInv, DefaultInv
<1>a. undo \in Seq(Prefix) /\ host \subseteq routes /\ Accounted /\ UndoNotHost
      /\ (\A h \in host : h.dest \notin Ours /\ h.dev # Tun) /\ spec \in DialSpecs
  BY <1>0 DEF RestoreInv, TypeOK, DefaultInv
<1>b. Fail => RestoreInv'
  BY <1>0, RestoreFrame DEF Fail
<1>1. CASE Start
  BY <1>0, <1>1 DEF Start, RestoreInv, Accounted, UndoNotHost
<1>2. CASE CreateTun \/ VpUp \/ ConfigureLink \/ SubnetsDone \/ AwaitSignal \/ UndoDone \/ Signal
  <2>1. CASE CreateTun \/ VpUp
    BY <1>0, <2>1, RestoreFrame DEF CreateTun, VpUp
  <2>2. CASE ConfigureLink \/ SubnetsDone
    BY <1>0, <1>b, <2>2, RestoreFrame DEF ConfigureLink, SubnetsDone
  <2>3. CASE AwaitSignal
    BY <1>b, <2>3 DEF AwaitSignal
  <2>4. CASE UndoDone \/ Signal
    BY <1>0, <2>4, RestoreFrame DEF UndoDone, Signal, RestoreInv
  <2> QED BY <1>2, <2>1, <2>2, <2>3, <2>4
<1>3. CASE AddSubnet
  <2>1. CASE Fail
    BY <1>b, <2>1
  <2>2. CASE UNCHANGED <<pc, spec, undo, routes, host, leaked>>
    BY <1>0, <1>3, <2>2, RestoreFrame DEF AddSubnet
  <2>3. CASE ~Fail /\ ~UNCHANGED <<pc, spec, undo, routes, host, leaked>>
    <3> DEFINE d == spec.allowed[i].dest
    <3>1. /\ pc = "subnets" /\ pc' = pc /\ spec' = spec
          /\ i \in 1..Len(spec.allowed) /\ ~HasRoute(routes, d)
          /\ routes' = Replace(routes, TunRoute(d)) /\ undo' = Append(undo, d)
          /\ host' = host /\ leaked' = leaked
      BY <1>0, <1>3, <2>3 DEF AddSubnet, CanAdd, TypeOK
    <3>2. d \in Prefix
      <4>1. spec.allowed \in Seq(CIDR)
        BY <1>0 DEF TypeOK, DialSpec
      <4>2. spec.allowed[i] \in CIDR
        BY <3>1, <4>1
      <4> QED BY <4>2 DEF CIDR
    <3>3. (\A h \in host : h.dest # d) /\ TunRoute(d).dest = d
      BY <1>a, <3>1 DEF HasRoute, TunRoute
    <3>4. host' \subseteq routes' /\ Accounted' /\ UndoNotHost'
      BY <1>a, <3>1, <3>2, <3>3, InstallAccounted
    <3> QED BY <1>0, <1>a, <3>1, <3>4 DEF RestoreInv
  <2> QED BY <2>1, <2>2, <2>3
<1>4. CASE ReadRoute
  <2>1. CASE Fail
    BY <1>b, <2>1
  <2>2. CASE ~Fail
    <3>1. PICK r \in RouteTo(routes, spec.addr) : pin' = PinRoute(spec.addr, r)
      BY <1>4, <2>2 DEF ReadRoute
    <3>2. pc' = "pin" /\ UNCHANGED <<spec, undo, routes, host, leaked>>
      BY <1>4, <2>2 DEF ReadRoute
    <3>3. pin'.dest = {spec.addr}
      BY <3>1 DEF PinRoute
    <3> QED BY <1>0, <3>2, <3>3, RestoreFrame
  <2> QED BY <2>1, <2>2
<1>5. CASE InstallPin
  <2>1. CASE Fail
    BY <1>b, <2>1
  <2>2. CASE ~Fail
    <3>1. /\ pc = "pin" /\ pc' = "halves" /\ spec' = spec /\ host' = host
          /\ routes' = Replace(routes, pin) /\ undo' = Append(undo, pin.dest)
          /\ leaked' = leaked \ {pin.dest} /\ pin.dest = {spec.addr}
      BY <1>5, <2>2 DEF InstallPin, RestoreInv
    <3>2. pin.dest \in Prefix /\ \A h \in host : h.dest # pin.dest
      BY <1>0, <1>a, <3>1, PrefixAssumption DEF Ours, TypeOK, DialSpec
    <3>3. host' \subseteq routes' /\ Accounted' /\ UndoNotHost'
      BY <1>a, <3>1, <3>2, InstallAccounted
    <3> QED BY <1>0, <1>a, <3>1, <3>3 DEF RestoreInv
  <2> QED BY <2>1, <2>2
<1>6. CASE InstallHalf
  <2>1. CASE Fail
    BY <1>b, <2>1
  <2>2. CASE pc' = "up" /\ UNCHANGED <<spec, undo, routes, host, leaked>>
    BY <1>0, <2>2, RestoreFrame
  <2>3. CASE ~Fail /\ ~(pc' = "up" /\ UNCHANGED <<spec, undo, routes, host, leaked>>)
    <3>1. /\ pc = "halves" /\ pc' = pc /\ spec' = spec /\ i \in 1..Len(Halves)
          /\ routes' = Replace(routes, TunRoute(Halves[i]))
          /\ undo' = Append(undo, Halves[i]) /\ host' = host /\ leaked' = leaked
      BY <1>0, <1>6, <2>3 DEF InstallHalf, TypeOK
    <3>2. /\ Halves[i] \in Prefix /\ Halves[i] \in Ours
          /\ TunRoute(Halves[i]).dest = Halves[i]
      BY <3>1, HalvesAssumption DEF Halves, Ours, TunRoute
    <3>3. host' \subseteq routes' /\ Accounted' /\ UndoNotHost'
      BY <1>a, <3>1, <3>2, InstallAccounted
    <3> QED BY <1>0, <1>a, <3>1, <3>3 DEF RestoreInv
  <2> QED BY <2>1, <2>2, <2>3
<1>7. CASE UndoRoute
  <2> DEFINE d == Last(undo)
             k == Len(undo)
  <2>1. /\ pc = "undo" /\ pc' = pc /\ spec' = spec /\ host' = host /\ undo # << >>
        /\ undo' = Front(undo)
    BY <1>7 DEF UndoRoute
  <2>2. /\ k \in Nat \ {0} /\ d = undo[k] /\ Len(undo') = k - 1
        /\ \A n \in 1..k - 1 : undo'[n] = undo[n]
    BY <1>a, <2>1, FrontFacts
  <2>3. UndoNotHost' /\ \A h \in host : h.dest # d
    BY <1>a, <2>1, <2>2 DEF UndoNotHost
  <2>4. host' \subseteq routes'
    BY <1>7, <1>a, <2>1, <2>3 DEF UndoRoute, Del
  <2>5. Accounted'
    <3> SUFFICES ASSUME NEW q \in routes' \ host', q.dev # Tun
                 PROVE  q.dest \in leaked' \/ \E n \in 1..Len(undo') : undo'[n] = q.dest
      BY DEF Accounted
    <3>1. q \in routes \ host
      BY <1>7, <2>1 DEF UndoRoute, Del
    <3>2. CASE q.dest = d
      <4>1. leaked' = leaked \cup Outliving(<<d>>) /\ routes' = routes
        BY <1>7, <3>2 DEF UndoRoute, Del
      <4>2. HasRoute(Flush(routes, Tun), d)
        BY <3>1, <3>2 DEF HasRoute, Flush
      <4>3. d \in Range(<<d>>)
        BY DEF Range
      <4> QED BY <3>2, <4>1, <4>2, <4>3 DEF Outliving
    <3>3. CASE q.dest # d /\ q.dest \in leaked
      BY <1>7, <3>3 DEF UndoRoute
    <3>4. CASE q.dest # d /\ q.dest \notin leaked
      <4>1. PICK n \in 1..k : undo[n] = q.dest
        BY <1>a, <3>1, <3>4 DEF Accounted
      <4>2. n \in 1..Len(undo') /\ undo'[n] = q.dest
        BY <2>2, <3>4, <4>1
      <4> QED BY <4>2
    <3> QED BY <3>2, <3>3, <3>4
  <2> QED BY <1>0, <1>a, <2>1, <2>3, <2>4, <2>5 DEF RestoreInv
<1>8. CASE CloseDevice
  <2>1. /\ pc = "device" /\ pc' = "idle" /\ undo = << >> /\ routes' = Flush(routes, Tun)
        /\ UNCHANGED <<spec, undo, host, leaked>>
    BY <1>8 DEF CloseDevice, RestoreInv
  <2>2. host' \subseteq routes' /\ \A r \in routes' : r.dev # Tun
    BY <1>a, <2>1 DEF Flush
  <2>3. Accounted' /\ UndoNotHost'
    BY <1>a, <2>1 DEF Accounted, UndoNotHost, Flush
  <2> QED BY <1>0, <1>a, <2>1, <2>2, <2>3 DEF RestoreInv
<1>9. CASE Kill
  <2>1. /\ pc' = "idle" /\ undo' = << >> /\ routes' = Flush(routes, Tun)
        /\ leaked' = leaked \cup Outliving(undo) /\ UNCHANGED <<spec, host>>
    BY <1>9 DEF Kill
  <2>2. host' \subseteq routes' /\ \A r \in routes' : r.dev # Tun
    BY <1>a, <2>1 DEF Flush
  <2>3. Accounted'
    <3> SUFFICES ASSUME NEW q \in routes' \ host' PROVE q.dest \in leaked'
      BY DEF Accounted
    <3>1. q \in routes \ host /\ q.dev # Tun
      BY <2>1 DEF Flush
    <3>2. CASE \E n \in 1..Len(undo) : undo[n] = q.dest
      <4>1. q.dest \in Range(undo)
        BY <1>a, <3>2 DEF Range
      <4>2. HasRoute(Flush(routes, Tun), q.dest)
        BY <3>1 DEF HasRoute, Flush
      <4> QED BY <2>1, <4>1, <4>2 DEF Outliving
    <3>3. CASE ~\E n \in 1..Len(undo) : undo[n] = q.dest
      BY <1>a, <2>1, <3>1, <3>3 DEF Accounted
    <3> QED BY <3>2, <3>3
  <2>4. UndoNotHost'
    BY <2>1 DEF UndoNotHost
  <2> QED BY <1>0, <1>a, <2>1, <2>2, <2>3, <2>4 DEF RestoreInv
<1>10. CASE WanDown
  <2>1. /\ routes' = Flush(routes, Wan) /\ host' = Flush(host, Wan)
        /\ UNCHANGED <<pc, spec, pin, undo, leaked>>
    BY <1>10 DEF WanDown, worker
  <2>2. host' \subseteq routes' /\ Accounted' /\ UndoNotHost'
    BY <1>a, <2>1 DEF Flush, Accounted, UndoNotHost
  <2>3. \A r \in routes' : r \in routes
    BY <2>1 DEF Flush
  <2>4. \A h \in host' : h \in host
    BY <2>1 DEF Flush
  <2> QED BY <1>0, <1>a, <2>1, <2>2, <2>3, <2>4 DEF RestoreInv
<1>11. ASSUME NEW g \in Gateways, WanRenew(g) PROVE RestoreInv'
  <2> DEFINE w == [dest |-> Addr, dev |-> Wan, via |-> g]
  <2>1. /\ routes' = Replace(routes, w) /\ host' = Replace(host, w)
        /\ UNCHANGED <<pc, spec, pin, undo, leaked>>
    BY <1>11 DEF WanRenew, worker
  <2>2. w.dest = Addr /\ w.dev # Tun
    BY HostAssumption
  <2>3. Addr \notin Ours
    BY NotDefault, ModelAssumption DEF Ours, DialSpec
  <2>4. host' \subseteq routes' /\ Accounted'
    BY <1>a, <2>1 DEF Replace, Del, Accounted
  <2>5. \A n \in 1..Len(undo) : undo[n] # Addr
    BY <1>0 DEF DefaultInv
  <2>6. \A h \in host' : h.dest \notin Ours /\ (h \in host \/ h.dest = Addr)
    BY <1>a, <2>1, <2>2, <2>3 DEF Replace, Del
  <2>7. UndoNotHost'
    BY <1>a, <2>1, <2>5, <2>6 DEF UndoNotHost
  <2>8. (\A r \in routes : r.dev # Tun) => \A r \in routes' : r.dev # Tun
    BY <2>1, <2>2 DEF Replace, Del
  <2> QED BY <1>0, <1>a, <2>1, <2>4, <2>6, <2>7, <2>8 DEF RestoreInv
<1>12. CASE UNCHANGED vars
  BY <1>0, <1>12, RestoreFrame DEF vars, RestoreInv
<1> QED
  BY <1>1, <1>2, <1>3, <1>4, <1>5, <1>6, <1>7, <1>8, <1>9, <1>10, <1>11,
     <1>12 DEF Next, Work, Environment

\* It holds initially.
LEMMA RestoreInit ==
    ASSUME NoCollision
    PROVE  Init => RestoreInv
<1> SUFFICES ASSUME Init PROVE RestoreInv
  OBVIOUS
<1>1. DefaultInv /\ \A r \in host : r.dev # Tun
  BY DefaultInit DEF DefaultInv
<1>2. \A h \in host : h.dest \notin Ours
  BY DEF Init, NoCollision
<1> QED BY <1>1, <1>2 DEF Init, RestoreInv, Accounted, UndoNotHost

(***************************************************************************)
(* The worker lays its routes over the host's.                             *)
(***************************************************************************)

\* A step on neither table nor device is no step of the overlay.
LEMMA OverlayStutter ==
    ASSUME UNCHANGED <<routes, host, leaked>>, (pc \in Open)' <=> pc \in Open
    PROVE  UNCHANGED Over!vars
<1>1. (pc' \in Open) = (pc \in Open)
  BY DEF Open
<1> QED BY <1>1 DEF Over!vars, Open

\* A route for a prefix of the worker's own is laid.
LEMMA LaysRoute ==
    ASSUME pc \in Open, pc' \in Open, NEW r \in Route, r.dest # Addr,
           \A h \in host : h.dest # r.dest,
           r.dev = Tun \/ \E d \in DialSpecs : r.dest = {d.addr},
           routes' = Replace(routes, r), host' = host,
           leaked' = leaked \/ leaked' = leaked \ {r.dest}
    PROVE  Over!Next
<1>1. (pc' \in Open) = TRUE /\ (pc \in Open) = TRUE
  OBVIOUS
<1>2. r.dev = Tun \/ \E a \in {d.addr : d \in DialSpecs} : r.dest = {a}
  OBVIOUS
<1>3. Over!Lay(r)
  BY <1>1, <1>2 DEF Over!Lay, Over!Free, Over!Without, Replace, Del, Open
<1> QED BY <1>3 DEF Over!Next

\* Every step is a step of the overlay or leaves it alone.
LEMMA OverlayStep == RestoreInv /\ RestoreInv' /\ [Next]_vars => [Over!Next]_(Over!vars)
<1> SUFFICES ASSUME RestoreInv, RestoreInv', [Next]_vars PROVE Over!Next \/ UNCHANGED Over!vars
  OBVIOUS
<1>0. TypeOK /\ DefaultInv
  BY DEF RestoreInv, DefaultInv
<1>a. undo \in Seq(Prefix) /\ host \subseteq routes /\ Accounted /\ UndoNotHost
      /\ (\A h \in host : h.dest \notin Ours /\ h.dev # Tun) /\ spec \in DialSpecs
  BY <1>0 DEF RestoreInv, TypeOK, DefaultInv
<1>b. ASSUME Fail, pc \in Open PROVE UNCHANGED Over!vars
  <2>1. (pc \in Open)' /\ UNCHANGED <<routes, host, leaked>>
    BY <1>b DEF Fail, Open
  <2> QED BY <1>b, <2>1, OverlayStutter
<1>1. CASE Start \/ ConfigureLink \/ SubnetsDone \/ ReadRoute \/ AwaitSignal \/ UndoDone \/ Signal
  <2>1. UNCHANGED <<routes, host, leaked>> /\ ((pc \in Open)' <=> pc \in Open)
    BY <1>1 DEF Start, ConfigureLink, SubnetsDone, ReadRoute, AwaitSignal, UndoDone, Signal, Fail, Open
  <2> QED BY <2>1, OverlayStutter
<1>2. CASE CreateTun
  <2>1. CASE pc' = "idle"
    BY <1>2, <2>1, OverlayStutter DEF CreateTun, Open
  <2>2. CASE pc' = "vpup"
    <3>1. (pc' \in Open) = TRUE /\ ~(pc \in Open)
      BY <1>2, <2>2 DEF CreateTun, Open
    <3>2. Over!Enter
      BY <1>2, <3>1 DEF CreateTun, Over!Enter, Open
    <3> QED BY <3>2 DEF Over!Next
  <2> QED BY <1>2, <2>1, <2>2 DEF CreateTun
<1>3. ASSUME pc \in Open, pc' = "idle", undo = << >>, routes' = Flush(routes, Tun),
             host' = host, leaked' = leaked
      PROVE  Over!Next
  <2>1. (pc' \in Open) = FALSE
    BY <1>3 DEF Open
  <2>2. \A r \in routes' \ host' : r.dest \in leaked
    BY <1>3, <1>a DEF Accounted, Flush
  <2>3. Over!Leave
    BY <1>3, <2>1, <2>2 DEF Over!Leave, Over!Laid, Over!Off, Flush, Open
  <2> QED BY <2>3 DEF Over!Next
<1>4. CASE VpUp
  <2>1. CASE pc' = "link"
    BY <1>4, <2>1, OverlayStutter DEF VpUp, Open
  <2>2. CASE pc' = "idle"
    <3>1. pc \in Open /\ undo = << >> /\ routes' = Flush(routes, Tun)
      BY <1>4 DEF VpUp, Open, RestoreInv, Flush
    <3> QED BY <1>3, <1>4, <2>2, <3>1 DEF VpUp
  <2> QED BY <1>4, <2>1, <2>2 DEF VpUp
<1>5. CASE AddSubnet
  <2>0. pc \in Open
    BY <1>5 DEF AddSubnet, Open
  <2>1. CASE Fail
    BY <1>b, <2>0, <2>1
  <2>2. CASE UNCHANGED <<pc, routes, host, leaked>>
    BY <2>2, OverlayStutter
  <2>3. CASE ~Fail /\ ~UNCHANGED <<pc, routes, host, leaked>>
    <3> DEFINE d == spec.allowed[i].dest
    <3>1. /\ pc' = pc /\ i \in 1..Len(spec.allowed) /\ ~HasRoute(routes, d) /\ d # Addr
          /\ routes' = Replace(routes, TunRoute(d)) /\ host' = host /\ leaked' = leaked
      BY <1>0, <1>5, <2>3 DEF AddSubnet, CanAdd, IsDefaultRoute, TypeOK
    <3>2. d \in Prefix
      <4>1. spec.allowed \in Seq(CIDR)
        BY <1>0 DEF TypeOK, DialSpec
      <4>2. spec.allowed[i] \in CIDR
        BY <3>1, <4>1
      <4> QED BY <4>2 DEF CIDR
    <3>3. \A h \in host : h.dest # d
      BY <1>a, <3>1 DEF HasRoute
    <3>4. TunRoute(d) \in Route /\ TunRoute(d).dest = d /\ TunRoute(d).dev = Tun
      BY <3>2, HostAssumption DEF TunRoute, Route
    <3> QED BY <2>0, <3>1, <3>3, <3>4, LaysRoute
  <2> QED BY <2>1, <2>2, <2>3
<1>6. CASE InstallPin
  <2>0. pc \in Open
    BY <1>6 DEF InstallPin, Open
  <2>1. CASE Fail
    BY <1>b, <2>0, <2>1
  <2>2. CASE ~Fail
    <3>1. /\ pc' \in Open /\ host' = host /\ routes' = Replace(routes, pin)
          /\ leaked' = leaked \ {pin.dest} /\ pin.dest = {spec.addr} /\ pin \in Route
      BY <1>0, <1>6, <2>2 DEF InstallPin, RestoreInv, TypeOK, Open
    <3>2. spec.addr \in Addr
      BY <1>0 DEF TypeOK, DialSpec
    <3>3. pin.dest # Addr
      BY <3>1, <3>2, NotDefault
    <3>4. \A h \in host : h.dest # pin.dest
      BY <1>a, <3>1 DEF Ours
    <3> QED BY <1>a, <2>0, <3>1, <3>3, <3>4, LaysRoute
  <2> QED BY <2>1, <2>2
<1>7. CASE InstallHalf
  <2>0. pc \in Open
    BY <1>7 DEF InstallHalf, Open
  <2>1. CASE Fail
    BY <1>b, <2>0, <2>1
  <2>2. CASE pc' = "up" /\ UNCHANGED <<routes, host, leaked>>
    BY <2>0, <2>2, OverlayStutter DEF Open
  <2>3. CASE ~Fail /\ ~(pc' = "up" /\ UNCHANGED <<routes, host, leaked>>)
    <3>1. /\ pc' = pc /\ i \in 1..Len(Halves) /\ host' = host /\ leaked' = leaked
          /\ routes' = Replace(routes, TunRoute(Halves[i]))
      BY <1>0, <1>7, <2>3 DEF InstallHalf, TypeOK
    <3>2. Halves[i] \in Prefix /\ Halves[i] \in Ours /\ Halves[i] # Addr
      BY <3>1, HalvesAssumption, NotDefault DEF Halves, Ours
    <3>3. TunRoute(Halves[i]) \in Route /\ TunRoute(Halves[i]).dest = Halves[i]
          /\ TunRoute(Halves[i]).dev = Tun
      BY <3>2, HostAssumption DEF TunRoute, Route
    <3> QED BY <1>a, <2>0, <3>1, <3>2, <3>3, LaysRoute
  <2> QED BY <2>1, <2>2, <2>3
<1>8. CASE UndoRoute
  <2> DEFINE d == Last(undo)
  <2>1. pc \in Open /\ (pc' \in Open) = (pc \in Open) /\ host' = host /\ undo # << >>
    BY <1>8 DEF UndoRoute, Open
  <2>2. Len(undo) \in Nat \ {0} /\ d = undo[Len(undo)]
    BY <1>a, <2>1, FrontFacts
  <2>3. d \in Prefix /\ d # Addr /\ \A h \in host : h.dest # d
    BY <1>0, <1>a, <2>2 DEF DefaultInv, UndoNotHost
  <2>4. TunRoute(d) \in Route /\ TunRoute(d).dest = d
    BY <2>3, HostAssumption DEF TunRoute, Route
  <2>5. CASE routes' = Del(routes, d) /\ leaked' = leaked \ {d}
    <3>1. Over!Lift(d)
      BY <2>1, <2>3, <2>5 DEF Over!Lift, Over!Free, Over!Without, Del, Open
    <3> QED BY <2>4, <3>1 DEF Over!Next
  <2>6. CASE routes' = routes /\ leaked' = leaked \cup Outliving(<<d>>)
    <3>1. Range(<<d>>) = {d}
      BY DEF Range
    <3>2. leaked' = leaked \/ leaked' = leaked \cup {d}
      BY <2>6, <3>1 DEF Outliving
    <3>3. CASE leaked' = leaked
      BY <2>1, <2>6, <3>3, OverlayStutter DEF Open
    <3>4. CASE leaked' = leaked \cup {d}
      <4>1. Over!GiveUp(d)
        BY <2>1, <2>3, <2>6, <3>4 DEF Over!GiveUp, Over!Free, Open
      <4> QED BY <2>4, <4>1 DEF Over!Next
    <3> QED BY <3>2, <3>3, <3>4
  <2> QED BY <1>8, <2>5, <2>6 DEF UndoRoute
<1>9. CASE CloseDevice
  <2>1. /\ pc \in Open /\ pc' = "idle" /\ undo = << >> /\ routes' = Flush(routes, Tun)
        /\ host' = host /\ leaked' = leaked
    BY <1>9 DEF CloseDevice, RestoreInv, Open
  <2> QED BY <1>3, <2>1
<1>10. CASE Kill
  <2>1. /\ pc' = "idle" /\ routes' = Flush(routes, Tun) /\ host' = host
        /\ leaked' = leaked \cup Outliving(undo) /\ pc # "idle"
    BY <1>10 DEF Kill
  <2>2. CASE pc \notin Open
    <3>1. pc = "create"
      BY <1>0, <2>1, <2>2 DEF TypeOK
    <3>2. undo = << >> /\ \A r \in routes : r.dev # Tun
      BY <3>1 DEF RestoreInv
    <3>3. routes' = routes /\ leaked' = leaked
      BY <2>1, <3>2 DEF Flush, Outliving, Range
    <3>4. ~(pc' \in Open)
      BY <2>1 DEF Open
    <3> QED BY <2>1, <2>2, <3>3, <3>4, OverlayStutter DEF Open
  <2>3. CASE pc \in Open
    <3>1. \A r \in routes' \ host' : r.dest \in leaked \cup Outliving(undo)
      <4> SUFFICES ASSUME NEW r \in routes' \ host', r.dest \notin leaked
                   PROVE  r.dest \in Outliving(undo)
        OBVIOUS
      <4>1. r \in routes \ host /\ r.dev # Tun
        BY <2>1 DEF Flush
      <4>2. PICK n \in 1..Len(undo) : undo[n] = r.dest
        BY <1>a, <4>1 DEF Accounted
      <4>3. r.dest \in Range(undo)
        BY <1>a, <4>2 DEF Range
      <4>4. HasRoute(Flush(routes, Tun), r.dest)
        BY <4>1 DEF HasRoute, Flush
      <4> QED BY <4>3, <4>4 DEF Outliving
    <3>2. \A d \in Outliving(undo) : \E r \in routes' \ host' : r.dest = d
      <4> SUFFICES ASSUME NEW d \in Outliving(undo) PROVE \E r \in routes' \ host' : r.dest = d
        OBVIOUS
      <4>1. d \in Range(undo) /\ HasRoute(routes', d)
        BY <2>1 DEF Outliving
      <4>2. PICK n \in 1..Len(undo) : undo[n] = d
        BY <1>a, <4>1 DEF Range
      <4>3. PICK r \in routes' : r.dest = d
        BY <4>1 DEF HasRoute
      <4>4. r \notin host
        BY <1>a, <4>2, <4>3 DEF UndoNotHost
      <4> QED BY <2>1, <4>3, <4>4
    <3>3. leaked' = leaked \cup {r.dest : r \in routes' \ host'}
      BY <2>1, <3>1, <3>2
    <3>4. (pc' \in Open) = FALSE
      BY <2>1 DEF Open
    <3>5. Over!Die
      BY <2>1, <2>3, <3>3, <3>4 DEF Over!Die, Over!Laid, Over!Off, Flush, Open
    <3> QED BY <3>5 DEF Over!Next
  <2> QED BY <2>2, <2>3
<1>11. CASE WanDown
  <2>1. Over!UplinkDown
    BY <1>11 DEF WanDown, worker, Over!UplinkDown, Over!Off, Flush, Open
  <2> QED BY <2>1 DEF Over!Next
<1>12. ASSUME NEW g \in Gateways, WanRenew(g) PROVE Over!Next
  <2> DEFINE w == [dest |-> Addr, dev |-> Wan, via |-> g]
  <2>1. w \in Route /\ w.dest = Addr /\ w.dev = Wan
    BY HostAssumption, PrefixAssumption DEF Route
  <2>2. routes' = Replace(routes, w) /\ host' = Replace(host, w) /\ UNCHANGED <<pc, leaked>>
    BY <1>12 DEF WanRenew, worker
  <2>3. Over!UplinkUp(w)
    BY <2>1, <2>2 DEF Over!UplinkUp, Over!Without, Replace, Del, Open
  <2> QED BY <2>1, <2>3 DEF Over!Next
<1>13. CASE UNCHANGED vars
  BY <1>13, OverlayStutter DEF vars, Open
<1> QED
  BY <1>1, <1>2, <1>4, <1>5, <1>6, <1>7, <1>8, <1>9, <1>10, <1>11, <1>12, <1>13
  DEF Next, Work, Environment

\* What is laid is the tunnel's, or the pin of a server.
LaidInv == \A r \in routes \ host : r.dev = Tun \/ \E d \in DialSpecs : r.dest = {d.addr}

\* The overlay keeps it.
LEMMA LaidStep == LaidInv /\ [Over!Next]_(Over!vars) => LaidInv'
<1> SUFFICES ASSUME LaidInv, [Over!Next]_(Over!vars) PROVE LaidInv'
  OBVIOUS
<1>1. CASE routes' \ host' \subseteq routes \ host
  BY <1>1 DEF LaidInv
<1>2. CASE Over!Enter \/ Over!Leave \/ Over!Die \/ Over!UplinkDown \/ UNCHANGED Over!vars
  BY <1>1, <1>2 DEF Over!Enter, Over!Leave, Over!Die, Over!UplinkDown, Over!Off, Over!vars
<1>3. ASSUME NEW r \in Route, Over!Lay(r) PROVE LaidInv'
  BY <1>3 DEF Over!Lay, Over!Without, LaidInv
<1>4. ASSUME NEW r \in Route, Over!UplinkUp(r) \/ Over!Lift(r.dest) \/ Over!GiveUp(r.dest)
      PROVE  LaidInv'
  BY <1>1, <1>4 DEF Over!UplinkUp, Over!Lift, Over!GiveUp, Over!Without
<1> QED BY <1>2, <1>3, <1>4 DEF Over!Next

\* On a router with no route of its own for a half or for a server alone, the
\* worker lays its routes over the host's and touches none of the host's, one
\* command after another, whatever fails, is killed or changes in between.
THEOREM OverlaySafe ==
    ASSUME NoCollision
    PROVE  Spec => OverlayKept
<1>1. Init => RestoreInv
  BY RestoreInit
<1>2. Init => Over!Init
  <2>1. Init => ~(pc \in Open)
    BY DEF Init, Open
  <2> QED BY <2>1 DEF Init, Over!Init, Open
<1> QED BY <1>1, <1>2, RestoreStep, OverlayStep, PTL DEF Spec, OverlayKept, Over!Spec

\* On such a router all its routes are back when no worker runs, and what else
\* is there is the pin of a killed worker's server or of a failed deletion: for
\* every configuration, with the uplink coming and going and commands failing
\* at any step.
THEOREM RestoreSafe ==
    ASSUME NoCollision
    PROVE  Spec => []TeardownRestores
<1>1. Init => RestoreInv /\ LaidInv
  BY RestoreInit DEF Init, LaidInv
<1>2. RestoreInv /\ LaidInv => TeardownRestores
  <2> SUFFICES ASSUME RestoreInv, LaidInv, pc = "idle" PROVE TeardownRestores
    BY DEF TeardownRestores
  <2>1. host \subseteq routes /\ undo = << >> /\ Accounted /\ \A r \in routes : r.dev # Tun
    BY DEF RestoreInv
  <2> QED BY <2>1 DEF Accounted, LaidInv, TeardownRestores
<1> QED BY <1>1, <1>2, RestoreStep, OverlayStep, LaidStep, PTL DEF Spec

(***************************************************************************)
(* What enters the tunnel.                                                 *)
(***************************************************************************)

\* What the theorem assumes of the configuration: who lists ::/0 lists 0.0.0.0/0
\* as well (isDefaultRoute takes either for a default of IPv4).
DefaultsPaired ==
    \A d \in DialSpecs : ~d.full =>
        \A n \in 1..Len(d.allowed) : IsDefaultRoute(d.allowed[n]) =>
            \E m \in 1..Len(d.allowed) : IsDefaultRoute(d.allowed[m]) /\ ~d.allowed[m].v6

\* The steps from the first route to the last, and the tunnel in use.
Building == {"subnets", "route", "pin", "halves", "up"}

\* The entries of AllowedIPs the loop has been through.
Handled == {k \in 1..Len(spec.allowed) : ~spec.full /\ (pc = "subnets" => k < i)}

\* d is a subnet among them, or a half that has been installed.
SubnetPlaced(d) ==
    \E k \in Handled : /\ ~IsDefaultRoute(spec.allowed[k]) /\ ~spec.allowed[k].v6
                       /\ spec.allowed[k].dest = d
HalfPlaced(d) == pc # "subnets" /\ \E k \in 1..Len(Halves) : k < i /\ Halves[k] = d
Placed(d) == SubnetPlaced(d) \/ HalfPlaced(d)

\* captureDefault says whether a default has been met, and what it leads to.
CaptureInv ==
    /\ capture <=> spec.full \/ \E k \in Handled : IsDefaultRoute(spec.allowed[k])
    /\ pc \in {"route", "pin", "halves"} => capture
    /\ pc \in {"route", "pin"} => i = 1
    /\ pc = "up" => IF capture THEN i > Len(Halves) ELSE i = 1

\* The tunnel's routes are those of the placed prefixes, the server's own /32
\* apart; no other route is there but the host's, the pin and what is leaked.
TableInv ==
    /\ \A r \in routes : r.dev = Tun => Placed(r.dest) \/ r.dest = {spec.addr}
    /\ \A d \in Prefix : Placed(d) /\ d # {spec.addr} => TunRoute(d) \in routes
    /\ \A r \in routes \ host : r.dev = Tun \/ r.dest \in leaked \/ r.dest = {spec.addr}

CarryInv ==
    /\ RestoreInv
    /\ Functional(routes)
    /\ pc \in {"create", "vpup", "link"} => i = 1 /\ (capture <=> spec.full)
    /\ pc \in Building => CaptureInv /\ TableInv

\* A finite table has a longest prefix among those that hold an address, and
\* it is not shorter than any given one.
LEMMA BestExists ==
    ASSUME NEW R, R \subseteq Route, NEW a, NEW t \in R, a \in t.dest
    PROVE  \E b \in Best(R, a) : b.dest \subseteq t.dest
<1> DEFINE D == {r.dest : r \in {q \in R : a \in q.dest}}
<1>1. D \subseteq SUBSET Addr /\ D \subseteq Prefix /\ D # {}
  BY PrefixAssumption DEF Route
<1>2. IsWellFoundedOn(StrictSubsetOrdering(Addr), SUBSET Addr)
  BY AddrAssumption, FS_FiniteSubsetsOfFinite, FS_StrictSubsetOrderingWellFounded
<1>3. PICK m \in D : \A p \in D : <<p, m>> \notin StrictSubsetOrdering(Addr)
  <2> HIDE DEF D
  <2> QED BY <1>1, <1>2, WFMin, Zenon
<1>4. \A p \in D : p \subseteq m => p = m
  <2> SUFFICES ASSUME NEW p \in D, p \subseteq m, p # m PROVE FALSE
    OBVIOUS
  <2>1. p \in SUBSET Addr /\ m \in SUBSET Addr
    BY <1>1
  <2>2. <<p, m>> \in StrictSubsetOrdering(Addr)
    BY <2>1 DEF StrictSubsetOrdering
  <2> QED BY <1>3, <2>2
<1>5. \A p \in D : m \subseteq p
  <2> SUFFICES ASSUME NEW p \in D PROVE m \subseteq p
    OBVIOUS
  <2>1. m \subseteq p \/ p \subseteq m \/ m \cap p = {}
    BY <1>1, PrefixAssumption
  <2>2. a \in m /\ a \in p
    OBVIOUS
  <2> QED BY <1>4, <2>1, <2>2
<1>6. PICK b \in R : b.dest = m /\ a \in b.dest
  OBVIOUS
<1>7. \A s \in R : a \in s.dest => m \subseteq s.dest
  BY <1>5
<1>8. b \in Best(R, a)
  BY <1>6, <1>7 DEF Best
<1> QED BY <1>6, <1>7, <1>8

\* `ip route replace`, `ip route del` and the end of a device keep a table
\* with one route for a prefix at most such a table.
LEMMA FunctionalKept ==
    ASSUME NEW R, Functional(R)
    PROVE  /\ \A r : Functional(Replace(R, r))
           /\ \A d : Functional(Del(R, d))
           /\ \A d : Functional(Flush(R, d))
BY DEF Functional, Replace, Del, Flush

\* A prefix of the worker's is not the default.
LEMMA PlacedNotDefault == \A d : Placed(d) => d # Addr
BY NotDefault DEF Placed, SubnetPlaced, HalfPlaced, IsDefaultRoute, Halves

\* What holds of the table when the tunnel is up makes it carry what is wanted.
LEMMA CarryingTable ==
    ASSUME DefaultsPaired, CarryInv
    PROVE  CarriesAsConfigured
<1> SUFFICES ASSUME pc = "up", NEW a \in Addr \ {spec.addr}, \A d \in leaked : a \notin d
             PROVE  (\E r \in Best(routes, a) : r.dev = Tun) <=>
                    (\E w \in Wanted : a \in w /\ ~\E h \in host :
                         a \in h.dest /\ h.dest \subseteq w /\ h.dest # w)
  BY DEF CarriesAsConfigured
<1>1. /\ TypeOK /\ RestoreInv /\ Functional(routes) /\ CaptureInv /\ TableInv
      /\ host \subseteq routes /\ spec \in DialSpecs
  BY DEF CarryInv, Building, RestoreInv, DefaultInv
<1>2. /\ spec \in DialSpec /\ Len(spec.allowed) \in Nat
      /\ Handled = IF spec.full THEN {} ELSE 1..Len(spec.allowed)
      /\ \A n \in 1..Len(spec.allowed) : spec.allowed[n] \in CIDR
  BY <1>1 DEF TypeOK, DialSpec, Handled
<1>3. capture <=> Addr \in Wanted
  <2>1. CASE spec.full
    BY <1>1, <2>1 DEF CaptureInv, Wanted
  <2>2. CASE ~spec.full
    <3>1. capture <=> \E n \in 1..Len(spec.allowed) : IsDefaultRoute(spec.allowed[n])
      BY <1>1, <1>2, <2>2 DEF CaptureInv
    <3>2. @ <=> \E n \in 1..Len(spec.allowed) : IsDefaultRoute(spec.allowed[n]) /\ ~spec.allowed[n].v6
      BY <1>1, <2>2 DEF DefaultsPaired
    <3>3. @ <=> Addr \in Wanted
      <4>1. DOMAIN spec.allowed = 1..Len(spec.allowed)
        BY <1>1 DEF TypeOK, DialSpec
      <4>2. Wanted = {spec.allowed[k].dest : k \in {n \in 1..Len(spec.allowed) : ~spec.allowed[n].v6}}
        BY <2>2, <4>1 DEF Wanted
      <4> QED BY <4>2 DEF IsDefaultRoute
    <3> QED BY <3>1, <3>2, <3>3
  <2> QED BY <2>1, <2>2
<1>4. \A d : SubnetPlaced(d) <=> d \in Wanted /\ d # Addr
  BY <1>2 DEF SubnetPlaced, IsDefaultRoute, Wanted
<1>5. \A d : HalfPlaced(d) <=> capture /\ d \in {LowHalf, HighHalf}
  BY <1>1 DEF HalfPlaced, CaptureInv, Halves, TypeOK
<1>6. ASSUME NEW r \in Best(routes, a), r.dev = Tun
      PROVE  \E w \in Wanted : a \in w /\ ~\E h \in host :
                 a \in h.dest /\ h.dest \subseteq w /\ h.dest # w
  <2>1. r \in routes /\ a \in r.dest /\ \A s \in routes : a \in s.dest => r.dest \subseteq s.dest
    BY DEF Best
  <2>2. Placed(r.dest)
    BY <1>1, <1>6, <2>1 DEF TableInv
  <2>3. \A h \in host : a \in h.dest => r.dest \subseteq h.dest
    BY <1>1, <2>1
  <2>4. CASE SubnetPlaced(r.dest)
    <3>1. r.dest \in Wanted
      BY <1>4, <2>4
    <3> QED BY <2>1, <2>3, <3>1
  <2>5. CASE HalfPlaced(r.dest)
    <3>1. capture /\ r.dest \in {LowHalf, HighHalf}
      BY <1>5, <2>5
    <3>2. ASSUME NEW h \in host, a \in h.dest, h.dest # Addr PROVE FALSE
      <4>1. h.dest \in Prefix /\ h.dest \subseteq Addr /\ h.dest # LowHalf /\ h.dest # HighHalf
        BY <1>1, PrefixAssumption DEF RestoreInv, TypeOK, Route, Ours
      <4>2. r.dest \subseteq h.dest
        BY <2>3, <3>2
      <4>3. LowHalf \in Prefix /\ HighHalf \in Prefix
        BY HalvesAssumption
      <4>4. CASE r.dest = LowHalf
        <5>1. h.dest \subseteq HighHalf \/ HighHalf \subseteq h.dest \/ h.dest \cap HighHalf = {}
          BY <4>1, <4>3, PrefixAssumption
        <5> QED BY <2>1, <3>2, <4>1, <4>2, <4>4, <5>1, HalvesAssumption
      <4>5. CASE r.dest = HighHalf
        <5>1. h.dest \subseteq LowHalf \/ LowHalf \subseteq h.dest \/ h.dest \cap LowHalf = {}
          BY <4>1, <4>3, PrefixAssumption
        <5> QED BY <2>1, <3>2, <4>1, <4>2, <4>5, <5>1, HalvesAssumption
      <4> QED BY <3>1, <4>4, <4>5
    <3> QED BY <1>3, <3>1, <3>2
  <2> QED BY <2>2, <2>4, <2>5 DEF Placed
<1>7. ASSUME NEW w \in Wanted, a \in w,
             ~\E h \in host : a \in h.dest /\ h.dest \subseteq w /\ h.dest # w
      PROVE  \E r \in Best(routes, a) : r.dev = Tun
  <2>1. PICK d \in Prefix : Placed(d) /\ a \in d /\ d \subseteq w /\ (d = w \/ w = Addr)
    <3>1. CASE w = Addr
      <4>1. HalfPlaced(LowHalf) /\ HalfPlaced(HighHalf)
        BY <1>3, <1>5, <3>1
      <4> QED BY <3>1, <4>1, HalvesAssumption DEF Placed
    <3>2. CASE w # Addr
      <4>1. SubnetPlaced(w)
        BY <1>4, <3>2
      <4>2. w \in Prefix
        BY <1>2, <4>1 DEF SubnetPlaced, CIDR, Handled
      <4> QED BY <1>7, <4>1, <4>2 DEF Placed
    <3> QED BY <3>1, <3>2
  <2>2. TunRoute(d) \in routes
    BY <1>1, <2>1 DEF TableInv
  <2>3. TunRoute(d).dest = d /\ TunRoute(d).dev = Tun
    BY DEF TunRoute
  <2>4. PICK b \in Best(routes, a) : b.dest \subseteq d
    BY <1>1, <2>1, <2>2, <2>3, BestExists DEF TypeOK
  <2>5. b \in routes /\ a \in b.dest
    BY DEF Best
  <2>6. b.dev = Tun
    <3>1. CASE b \in host
      <4>1. b.dest = w
        BY <1>7, <2>1, <2>4, <2>5, <3>1
      <4>2. b.dest = d
        BY <2>1, <2>4, <4>1
      <4> QED BY <1>1, <2>2, <2>3, <2>5, <4>2 DEF Functional
    <3>2. CASE b \notin host
      BY <1>1, <2>5, <3>2 DEF TableInv
    <3> QED BY <3>1, <3>2
  <2> QED BY <2>6
<1> QED BY <1>6, <1>7

\* Where the worker stays at its place, what is placed stays so.
LEMMA PlacedFrame ==
    ASSUME UNCHANGED <<pc, spec, i>>
    PROVE  Handled' = Handled /\ \A d : (Placed(d)') <=> Placed(d)
BY DEF Handled, Placed, SubnetPlaced, HalfPlaced

\* Steps that leave the place, the table and the observers alone, or end the
\* building of the table, keep what holds of it.
LEMMA CarryFrame ==
    ASSUME CarryInv, RestoreInv', Functional(routes'),
           \/ pc' \in {"idle", "undo", "device"}
           \/ UNCHANGED <<pc, spec, i, capture, routes, host, leaked>>
    PROVE  CarryInv'
<1>1. CASE pc' \in {"idle", "undo", "device"}
  BY <1>1 DEF CarryInv, Building
<1>2. CASE UNCHANGED <<pc, spec, i, capture, routes, host, leaked>>
  <2>1. (CaptureInv' <=> CaptureInv) /\ (TableInv' <=> TableInv)
    BY <1>2, PlacedFrame DEF CaptureInv, TableInv
  <2> QED BY <1>2, <2>1 DEF CarryInv
<1> QED BY <1>1, <1>2

\* Installing the tunnel's route for one more placed prefix keeps the table.
LEMMA PlaceOne ==
    ASSUME TableInv, NEW e \in Prefix, UNCHANGED <<spec, host, leaked>>,
           routes' = Replace(routes, TunRoute(e)),
           \A d : (Placed(d)') <=> Placed(d) \/ d = e
    PROVE  TableInv'
<1>1. \A r \in routes' : r.dev = Tun => (Placed(r.dest)') \/ r.dest = {spec.addr}
  BY DEF TableInv, Replace, Del, TunRoute
<1>2. \A d \in Prefix : (Placed(d)') /\ d # {spec.addr} => TunRoute(d) \in routes'
  BY DEF TableInv, Replace, Del, TunRoute
<1>3. \A r \in routes' \ host : r.dev = Tun \/ r.dest \in leaked \/ r.dest = {spec.addr}
  BY DEF TableInv, Replace, Del, TunRoute
<1> QED BY <1>1, <1>2, <1>3 DEF TableInv

\* One iteration of the AllowedIPs loop handles one entry more.
LEMMA HandleOne ==
    ASSUME TypeOK, pc = "subnets", pc' = pc, spec' = spec, i' = i + 1,
           ~spec.full, i <= Len(spec.allowed)
    PROVE  i \in 1..Len(spec.allowed) /\ Handled' = Handled \cup {i}
BY DEF TypeOK, DialSpec, Handled

\* Every step keeps it, whatever fails and whatever the uplink does.
LEMMA CarryStep == CarryInv /\ [Next]_vars => CarryInv'
<1> SUFFICES ASSUME CarryInv, [Next]_vars PROVE CarryInv'
  OBVIOUS
<1>0. /\ RestoreInv /\ RestoreInv' /\ TypeOK /\ TypeOK' /\ Functional(routes)
      /\ DefaultInv /\ (pc \in Building => CaptureInv /\ TableInv)
  BY RestoreStep DEF CarryInv, RestoreInv, DefaultInv
<1>a. /\ spec \in DialSpec /\ Len(spec.allowed) \in Nat /\ i \in Nat \ {0}
      /\ spec.full \in BOOLEAN
  BY <1>0 DEF TypeOK, DialSpec
<1>b. Fail => CarryInv'
  BY <1>0, CarryFrame DEF Fail
<1>1. CASE Start
  BY <1>0, <1>1 DEF Start, CarryInv, Building
<1>2. CASE CreateTun \/ VpUp
  BY <1>0, <1>2 DEF CreateTun, VpUp, CarryInv, Building
<1>3. CASE AwaitSignal \/ UndoDone \/ Signal
  BY <1>0, <1>b, <1>3, CarryFrame DEF AwaitSignal, UndoDone, Signal
<1>4. CASE ConfigureLink
  <2>1. CASE Fail
    BY <1>b, <2>1
  <2>2. CASE ~Fail
    <3>1. /\ pc = "link" /\ pc' = "subnets"
          /\ UNCHANGED <<spec, i, capture, routes, host, leaked, undo>>
      BY <1>4, <2>2 DEF ConfigureLink
    <3>2. /\ undo = << >> /\ \A r \in routes : r.dev # Tun
          /\ i = 1 /\ (capture <=> spec.full)
      BY <1>0, <3>1 DEF RestoreInv, CarryInv
    <3>3. Handled' = {} /\ \A d : ~(Placed(d)')
      BY <3>1, <3>2, <1>a DEF Handled, Placed, SubnetPlaced, HalfPlaced
    <3>4. CaptureInv'
      BY <3>1, <3>2, <3>3 DEF CaptureInv
    <3>5. \A r \in routes \ host : r.dest \in leaked
      BY <1>0, <3>2 DEF RestoreInv, Accounted
    <3>6. TableInv'
      BY <3>1, <3>2, <3>3, <3>5 DEF TableInv
    <3> QED BY <1>0, <3>1, <3>4, <3>6 DEF CarryInv
  <2> QED BY <2>1, <2>2
<1>5. CASE AddSubnet
  <2> DEFINE c == spec.allowed[i]
  <2>1. CASE Fail
    BY <1>b, <2>1
  <2>2. CASE ~Fail
    <3>1. /\ pc = "subnets" /\ pc' = pc /\ i' = i + 1 /\ ~spec.full /\ i <= Len(spec.allowed)
          /\ UNCHANGED <<spec, host, leaked>>
          /\ \/ /\ IsDefaultRoute(c) /\ capture' = TRUE /\ routes' = routes
             \/ /\ ~IsDefaultRoute(c) /\ c.v6 /\ UNCHANGED <<capture, routes>>
             \/ /\ ~IsDefaultRoute(c) /\ ~c.v6 /\ capture' = capture
                /\ routes' = Replace(routes, TunRoute(c.dest))
      BY <1>5, <2>2 DEF AddSubnet
    <3>2. i \in 1..Len(spec.allowed) /\ Handled' = Handled \cup {i}
      BY <1>0, <3>1, HandleOne
    <3>3. CaptureInv /\ TableInv
      BY <1>0, <3>1 DEF Building
    <3>4. CaptureInv'
      BY <3>1, <3>2, <3>3 DEF CaptureInv
    <3>5. \A d : (Placed(d)') <=> Placed(d) \/ (~IsDefaultRoute(c) /\ ~c.v6 /\ c.dest = d)
      BY <3>1, <3>2 DEF Placed, SubnetPlaced, HalfPlaced
    <3>6. CASE routes' = routes /\ (IsDefaultRoute(c) \/ c.v6)
      <4>1. \A d : (Placed(d)') <=> Placed(d)
        BY <3>5, <3>6
      <4>2. TableInv'
        BY <3>1, <3>3, <3>6, <4>1 DEF TableInv
      <4> QED BY <1>0, <3>1, <3>4, <3>6, <4>2 DEF CarryInv
    <3>7. CASE /\ ~IsDefaultRoute(c) /\ ~c.v6
               /\ routes' = Replace(routes, TunRoute(c.dest))
      <4>1. c.dest \in Prefix
        <5>1. spec.allowed \in Seq(CIDR)
          BY <1>a DEF DialSpec
        <5>2. c \in CIDR
          BY <3>2, <5>1
        <5> QED BY <5>2 DEF CIDR
      <4>2. \A d : (Placed(d)') <=> Placed(d) \/ d = c.dest
        BY <3>5, <3>7
      <4>3. TableInv'
        BY <3>1, <3>3, <3>7, <4>1, <4>2, PlaceOne
      <4>4. Functional(routes')
        BY <1>0, <3>7, FunctionalKept
      <4> QED BY <1>0, <3>1, <3>4, <4>3, <4>4 DEF CarryInv
    <3> QED BY <3>1, <3>6, <3>7
  <2> QED BY <2>1, <2>2
<1>6. CASE SubnetsDone
  <2>1. /\ pc = "subnets" /\ (spec.full \/ i > Len(spec.allowed))
        /\ pc' = (IF capture THEN "route" ELSE "up") /\ i' = 1
        /\ UNCHANGED <<spec, capture, routes, host, leaked>>
    BY <1>6 DEF SubnetsDone
  <2>2. CaptureInv /\ TableInv
    BY <1>0, <2>1 DEF Building
  <2>3. Handled' = Handled
    BY <1>a, <2>1 DEF Handled
  <2>4. \A d : (Placed(d)') <=> Placed(d)
    BY <2>1, <2>3 DEF Placed, SubnetPlaced, HalfPlaced
  <2>5. CaptureInv'
    BY <2>1, <2>2, <2>3 DEF CaptureInv
  <2>6. TableInv'
    BY <2>1, <2>2, <2>4 DEF TableInv
  <2> QED BY <1>0, <2>1, <2>5, <2>6 DEF CarryInv
<1>7. CASE ReadRoute
  <2>1. CASE Fail
    BY <1>b, <2>1
  <2>2. CASE ~Fail
    <3>1. /\ pc = "route" /\ pc' = "pin" /\ UNCHANGED <<spec, i, capture, routes, host, leaked>>
      BY <1>7, <2>2 DEF ReadRoute
    <3>2. CaptureInv /\ TableInv
      BY <1>0, <3>1 DEF Building
    <3>3. Handled' = Handled /\ \A d : (Placed(d)') <=> Placed(d)
      BY <3>1 DEF Handled, Placed, SubnetPlaced, HalfPlaced
    <3>4. CaptureInv' /\ TableInv'
      BY <3>1, <3>2, <3>3 DEF CaptureInv, TableInv
    <3> QED BY <1>0, <3>1, <3>4 DEF CarryInv
  <2> QED BY <2>1, <2>2
<1>8. CASE InstallPin
  <2>1. CASE Fail
    BY <1>b, <2>1
  <2>2. CASE ~Fail
    <3>1. /\ pc = "pin" /\ pc' = "halves" /\ UNCHANGED <<spec, i, capture, host>>
          /\ routes' = Replace(routes, pin) /\ pin.dest = {spec.addr}
          /\ leaked' = leaked \ {pin.dest}
      BY <1>0, <1>8, <2>2 DEF InstallPin, RestoreInv
    <3>2. CaptureInv /\ TableInv
      BY <1>0, <3>1 DEF Building
    <3>3. Handled' = Handled /\ \A d : (Placed(d)') <=> Placed(d)
      BY <3>1 DEF Handled, Placed, SubnetPlaced, HalfPlaced
    <3>4. CaptureInv'
      BY <3>1, <3>2, <3>3 DEF CaptureInv
    <3>5. TableInv'
      BY <3>1, <3>2, <3>3 DEF TableInv, Replace, Del, TunRoute
    <3>6. Functional(routes')
      BY <1>0, <3>1, FunctionalKept
    <3> QED BY <1>0, <3>1, <3>4, <3>5, <3>6 DEF CarryInv
  <2> QED BY <2>1, <2>2
<1>9. CASE InstallHalf
  <2>1. CASE Fail
    BY <1>b, <2>1
  <2>2. CASE pc' = "up" /\ UNCHANGED routes /\ i > Len(Halves)
    <3>1. pc = "halves" /\ UNCHANGED <<spec, i, capture, host, leaked>>
      BY <1>9, <2>2 DEF InstallHalf, Fail
    <3>2. CaptureInv /\ TableInv
      BY <1>0, <3>1 DEF Building
    <3>3. Handled' = Handled /\ \A d : (Placed(d)') <=> Placed(d)
      BY <2>2, <3>1 DEF Handled, Placed, SubnetPlaced, HalfPlaced
    <3>4. CaptureInv' /\ TableInv'
      BY <2>2, <3>1, <3>2, <3>3 DEF CaptureInv, TableInv
    <3> QED BY <1>0, <2>2, <3>4 DEF CarryInv
  <2>3. CASE ~Fail /\ i <= Len(Halves)
    <3>1. /\ pc = "halves" /\ pc' = pc /\ i' = i + 1
          /\ UNCHANGED <<spec, capture, host, leaked>>
          /\ routes' = Replace(routes, TunRoute(Halves[i]))
      <4>1. ~(i > Len(Halves))
        BY <1>a, <2>3 DEF Halves
      <4> QED BY <1>9, <2>3, <4>1, Zenon DEF InstallHalf
    <3>2. CaptureInv /\ TableInv
      BY <1>0, <3>1 DEF Building
    <3>3. i \in 1..Len(Halves) /\ Halves[i] \in Prefix
      BY <1>a, <2>3, HalvesAssumption DEF Halves
    <3>4. Handled' = Handled
      BY <3>1 DEF Handled
    <3>5. \A d : (HalfPlaced(d)') <=> HalfPlaced(d) \/ d = Halves[i]
      BY <1>a, <3>1, <3>3 DEF HalfPlaced
    <3>6. \A d : (Placed(d)') <=> Placed(d) \/ d = Halves[i]
      BY <3>1, <3>4, <3>5 DEF Placed, SubnetPlaced
    <3>7. CaptureInv'
      BY <3>1, <3>2, <3>4 DEF CaptureInv
    <3>8. TableInv'
      BY <3>1, <3>2, <3>3, <3>6, PlaceOne
    <3>9. Functional(routes')
      BY <1>0, <3>1, FunctionalKept
    <3> QED BY <1>0, <3>1, <3>7, <3>8, <3>9 DEF CarryInv
  <2> QED BY <1>9, <2>1, <2>2, <2>3 DEF InstallHalf
<1>10. CASE UndoRoute \/ CloseDevice \/ Kill
  <2>1. pc' \in {"idle", "undo", "device"}
    BY <1>10 DEF UndoRoute, CloseDevice, Kill
  <2>2. Functional(routes')
    BY <1>0, <1>10, FunctionalKept DEF UndoRoute, CloseDevice, Kill
  <2> QED BY <1>0, <2>1, <2>2, CarryFrame
<1>11. CASE WanDown
  <2>1. /\ UNCHANGED <<pc, spec, i, capture, leaked>>
        /\ routes' = Flush(routes, Wan) /\ host' = Flush(host, Wan)
    BY <1>11 DEF WanDown, worker
  <2>2. (CaptureInv => CaptureInv') /\ \A d : (Placed(d)') <=> Placed(d)
    BY <2>1, PlacedFrame DEF CaptureInv
  <2>3. TableInv => TableInv'
    BY <2>1, <2>2, HostAssumption DEF TableInv, Flush, TunRoute
  <2>4. Functional(routes')
    BY <1>0, <2>1, FunctionalKept
  <2> QED BY <1>0, <2>1, <2>2, <2>3, <2>4 DEF CarryInv
<1>12. ASSUME NEW g \in Gateways, WanRenew(g) PROVE CarryInv'
  <2> DEFINE w == [dest |-> Addr, dev |-> Wan, via |-> g]
  <2>1. /\ UNCHANGED <<pc, spec, i, capture, leaked>>
        /\ routes' = Replace(routes, w) /\ host' = Replace(host, w)
    BY <1>12 DEF WanRenew, worker
  <2>2. (CaptureInv => CaptureInv') /\ \A d : (Placed(d)') <=> Placed(d)
    BY <2>1, PlacedFrame DEF CaptureInv
  <2>3. ASSUME TableInv PROVE TableInv'
    <3>1. \A r \in routes' : r.dev = Tun => (Placed(r.dest)') \/ r.dest = {spec.addr}
      BY <2>1, <2>2, <2>3, HostAssumption DEF TableInv, Replace, Del
    <3>2. \A d \in Prefix : (Placed(d)') /\ d # {spec.addr} => TunRoute(d) \in routes'
      BY <2>1, <2>2, <2>3, PlacedNotDefault DEF TableInv, Replace, Del, TunRoute
    <3>3. \A r \in routes' \ host' : r.dev = Tun \/ r.dest \in leaked \/ r.dest = {spec.addr}
      BY <2>1, <2>3 DEF TableInv, Replace, Del
    <3> QED BY <2>1, <3>1, <3>2, <3>3 DEF TableInv
  <2>4. Functional(routes')
    BY <1>0, <2>1, FunctionalKept
  <2> QED BY <1>0, <2>1, <2>2, <2>3, <2>4 DEF CarryInv
<1>13. CASE UNCHANGED vars
  BY <1>0, <1>13, CarryFrame DEF vars
<1> QED
  BY <1>1, <1>2, <1>3, <1>4, <1>5, <1>6, <1>7, <1>8, <1>9, <1>10, <1>11,
     <1>12, <1>13 DEF Next, Work, Environment

\* On a router with no route of its own for a half or for a server alone, and
\* with no ::/0 that stands without its IPv4 counterpart, what enters the tunnel
\* while it is up is what was asked to, less what the host routes more
\* specifically itself: for every list of subnets, table and gateway, through
\* outages of the uplink, and after any number of killed workers.
THEOREM CarriesSafe ==
    ASSUME NoCollision, DefaultsPaired
    PROVE  Spec => []CarriesAsConfigured
<1>1. Init => CarryInv
  <2> SUFFICES ASSUME Init PROVE CarryInv
    OBVIOUS
  <2>1. RestoreInv
    BY RestoreInit
  <2>2. Functional(routes) /\ pc = "idle"
    BY HostAssumption DEF Init
  <2> QED BY <2>1, <2>2 DEF CarryInv, Building
<1>2. CarryInv => CarriesAsConfigured
  BY CarryingTable
<1> QED BY <1>1, <1>2, CarryStep, PTL DEF Spec
=============================================================================
