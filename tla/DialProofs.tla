----------------------------- MODULE DialProofs -----------------------------
(***************************************************************************)
(* Proofs about Dial: what is known of the page alone holds of it with the *)
(* store and the workers, and the page's offers are what workers accept,   *)
(* for any profiles, bundles and runs by hand.                             *)
(***************************************************************************)
EXTENDS Dial, ConnectionViewProofs

\* A step of the composition is a step of the page and the store, or none.
LEMMA PageStep == [DialNext]_dialVars => [Next]_vars
BY DEF DialNext, dialVars, Next, Request, StoreCommand, Service, ByHand, Launch, Prompted, Leave

\* What is the matter with the page does not depend on what workers do.
THEOREM PageSafe == DialSpec => Spec
BY PageStep, PTL DEF DialSpec, DialInit, Spec

\* With a store that changes and workers that dial, the pickers still agree
\* with each other ...
THEOREM DialAgreeSafe == DialSpec => []PickersAgree
BY PageSafe, AgreeSafe, PTL

\* ... and settle on the chosen profile.
THEOREM DialSettleSafe == ASSUME Ordered PROVE DialSpec => []PickersSettle
BY PageSafe, SettleSafe, PTL

LEMMA FitSafe == DialSpec => []FitInv
BY PageSafe, FitInit, FitStep, PTL DEF Spec

(***************************************************************************)
(* Resolution.                                                             *)
(***************************************************************************)

\* What a worker dials is in its bundle, and what it was asked for.
Asked(b, s, t) ==
    /\ Has(b, t.connection, t.node)
    /\ s.connection \in {None, t.connection} /\ s.node \in {None, t.node}

\* A worker that is up dials what it was asked to; only one from a shell waits
\* at the prompt.
WorkerInv ==
    /\ DialTypeOK
    /\ at = "prompt" => by = "hand"
    /\ DialsAsked

\* A tunnel that is found is one that was asked for.
LEMMA FoundAsked ==
    ASSUME NEW b \in Bundle, NEW s \in Selection, NEW t \in Tunnels,
           t.connection \in Select(b, s.connection),
           t.node \in NodesFor(b, t.connection, s.node)
    PROVE  Asked(b, s, t)
<1>1. t.connection \in ToSet(Conns[b])
  <2>1. Conns[b] \in Seq(Connection)
    BY ConnsType
  <2>2. Conns[b] # << >> => 1 \in DOMAIN Conns[b] /\ Head(Conns[b]) = Conns[b][1]
    BY <2>1
  <2> QED BY <2>2 DEF Select, ToSet
<1>2. t.node \in Nodes[<<b, t.connection>>] /\ s.node \in {None, t.node}
  BY DEF NodesFor
<1>3. s.connection \in {None, t.connection}
  BY DEF Select
<1>4. t.connection # None
  BY ViewAssumption DEF Tunnels
<1> QED BY <1>1, <1>2, <1>3, <1>4 DEF Asked, Has

\* What the end of a worker, and its resolution, leave behind.
LEMMA OverInv ==
    ASSUME WorkerInv, NEW a \in {"none", "refused", "failed"}, NEW w \in {"service", "hand"},
           Over(a, w), TypeOK', offered' \in BOOLEAN
    PROVE  WorkerInv'
BY DEF Over, GoesOn, Nothing, WorkerInv, DialTypeOK, DialsAsked, Selection

LEMMA ResolveInv ==
    ASSUME WorkerInv, NEW w \in {"service", "hand"}, NEW b \in Bundle, NEW s \in Selection,
           b \in Locked => w = "hand", Resolve(w, b, s), TypeOK', offered' \in BOOLEAN
    PROVE  WorkerInv'
<1>1. CASE \E t \in Tunnels : Asked(b, s, t) /\ GoesOn("up", w, b, s, t)
  <2>1. PICK t \in Tunnels : Asked(b, s, t) /\ GoesOn("up", w, b, s, t)
    BY <1>1
  <2>2. t # None /\ b # None
    BY ViewAssumption, DialAssumption
  <2> QED BY <2>1, <2>2 DEF GoesOn, Asked, WorkerInv, DialTypeOK, DialsAsked
<1>2. CASE Over("failed", w) \/ Over("refused", w)
  BY <1>2, OverInv
<1> QED BY <1>1, <1>2, FoundAsked DEF Resolve

\* Reading a profile gives a bundle or none.
LEMMA LoadType ==
    ASSUME TypeOK, NEW w, NEW p \in Profile
    PROVE  Load(w, p) \in Bundle \cup {None}
BY DialAssumption DEF Load, TypeOK

LEMMA LaunchInv ==
    ASSUME WorkerInv, NEW w \in {"service", "hand"}, NEW s \in Selection, NEW pw \in Password,
           s.profile # None, pw = "none" \/ w = "hand", Launch(w, s, pw)
    PROVE  WorkerInv'
<1>1. TypeOK /\ TypeOK' /\ offered' \in BOOLEAN
  <2>1. TypeOK /\ UNCHANGED vars /\ offered' = offered /\ offered \in BOOLEAN
    BY DEF Launch, WorkerInv, DialTypeOK
  <2>2. offered' \in BOOLEAN
    BY <2>1, Zenon
  <2> QED BY <2>1, <2>2 DEF TypeOK, vars, page, pickers
<1> DEFINE b == Load(w, s.profile)
<1>2. b \in Bundle \cup {None} /\ s.profile \in Profile
  BY <1>1, LoadType DEF Selection
<1>3. CASE Readable(b, pw)
  <2>1. b \in Bundle /\ (b \in Locked => w = "hand")
    BY <1>2, <1>3 DEF Readable
  <2>2. Resolve(w, b, s)
    BY <1>3 DEF Launch, Parse
  <2> HIDE DEF b
  <2> QED BY <1>1, <2>1, <2>2, ResolveInv
<1>4. CASE ~Readable(b, pw) /\ b # None /\ w = "hand" /\ GoesOn("prompt", w, b, s, None)
  BY <1>1, <1>2, <1>4 DEF GoesOn, WorkerInv, DialTypeOK, DialsAsked
<1>5. CASE Over("failed", w)
  BY <1>1, <1>5, OverInv
<1> QED BY <1>3, <1>4, <1>5 DEF Launch, Parse

\* Every step keeps it.
LEMMA WorkerStep == FitInv /\ WorkerInv /\ [DialNext]_dialVars => WorkerInv'
<1> SUFFICES ASSUME FitInv, WorkerInv, [DialNext]_dialVars PROVE WorkerInv'
  OBVIOUS
<1>1. TypeOK'
  BY PageStep, FitStep DEF FitInv
<1>2. CASE UNCHANGED worker /\ offered' \in BOOLEAN
  BY <1>1, <1>2 DEF worker, WorkerInv, DialTypeOK, DialsAsked
<1>3. offered \in BOOLEAN /\ by \in {"service", "hand"} /\ sel \in Selection
  BY DEF WorkerInv, DialTypeOK, TypeOK
<1>4. offered' = offered => offered' \in BOOLEAN
  BY <1>3, Zenon
<1>5. CASE (Page /\ UNCHANGED <<worker, offered>>) \/ UNCHANGED dialVars
  BY <1>2, <1>4, <1>5 DEF dialVars
<1>6. CASE Request
  <2>1. offered' \in BOOLEAN
    BY <1>6, Zenon DEF Request
  <2> QED BY <1>1, <1>2, <1>3, <1>6, <2>1, OverInv DEF Request
<1>7. CASE StoreCommand
  <2>1. offered' \in BOOLEAN
    BY <1>7, Zenon DEF StoreCommand
  <2> QED BY <1>2, <1>7, <2>1 DEF StoreCommand
<1>8. CASE Service
  <2>1. "none" \in Password /\ "service" \in {"service", "hand"}
    BY DEF Password
  <2> QED BY <1>3, <1>8, <2>1, LaunchInv DEF Service
<1>9. CASE ByHand
  <2>1. PICK r \in HandRuns : Launch("hand", r.asked, r.password)
    BY <1>9 DEF ByHand
  <2>2. r.asked \in Selection /\ r.password \in Password /\ r.asked.profile # None
    BY DialAssumption
  <2> QED BY <2>1, <2>2, LaunchInv
<1>10. CASE Leave
  BY <1>1, <1>3, <1>4, <1>10, OverInv DEF Leave
<1>11. ASSUME NEW pw \in Password, Prompted(pw) PROVE WorkerInv'
  <2>1. data \in Bundle /\ by = "hand" /\ asked \in Selection /\ offered' = offered
    BY <1>11 DEF Prompted, WorkerInv, DialTypeOK
  <2> QED BY <1>1, <1>3, <1>4, <1>11, <2>1, OverInv, ResolveInv DEF Prompted
<1> QED
  BY <1>5, <1>6, <1>7, <1>8, <1>9, <1>10, <1>11 DEF DialNext

LEMMA WorkerInit == DialInit => WorkerInv
<1> SUFFICES ASSUME DialInit PROVE WorkerInv
  OBVIOUS
<1>1. TypeOK /\ offered \in BOOLEAN
  BY FitInit DEF DialInit, FitInv
<1>2. /\ at = "none" /\ by = "service" /\ data = None /\ dialled = None
      /\ asked = [profile |-> None, connection |-> None, node |-> None]
  BY DEF DialInit, Nothing
<1>3. asked \in Selection
  BY <1>2 DEF Selection
<1> QED BY <1>1, <1>2, <1>3 DEF WorkerInv, DialTypeOK, DialsAsked

\* The page, the store and the workers keep their types.
THEOREM DialTypeCorrect == DialSpec => []DialTypeOK
<1>1. WorkerInv => DialTypeOK
  BY DEF WorkerInv
<1> QED BY <1>1, WorkerInit, WorkerStep, FitSafe, PTL DEF DialSpec

\* A worker dials what it was asked to from the one bundle it has read,
\* whatever becomes of the store meanwhile.
THEOREM AskedSafe == DialSpec => []DialsAsked
<1>1. WorkerInv => DialsAsked
  BY DEF WorkerInv
<1> QED BY <1>1, WorkerInit, WorkerStep, FitSafe, PTL DEF DialSpec

(***************************************************************************)
(* Offers.                                                                 *)
(***************************************************************************)

\* The names of selection s are a connection and a node of bundle b.
Accepted(b, s) ==
    /\ b \in Bundle /\ s.connection # None /\ Has(b, s.connection, s.node)
    /\ Nodes[<<b, s.connection>>] # {}

LEMMA AcceptedFound ==
    ASSUME NEW b, NEW s \in Selection, Accepted(b, s)
    PROVE  \E t \in Tunnels : /\ t.connection \in Select(b, s.connection)
                              /\ t.node \in NodesFor(b, t.connection, s.node)
<1> DEFINE c == s.connection
<1>1. c \in Connection /\ c \in ToSet(Conns[b]) /\ Nodes[<<b, c>>] \in SUBSET Node
  BY ViewAssumption DEF Accepted, Has, Selection
<1>2. PICK n \in Node : n \in NodesFor(b, c, s.node)
  <2>1. CASE s.node = None
    BY <1>1, <2>1 DEF NodesFor, Accepted
  <2>2. CASE s.node # None
    BY <1>1, <2>2 DEF NodesFor, Accepted, Has
  <2> QED BY <2>1, <2>2
<1>3. [connection |-> c, node |-> n] \in Tunnels /\ c \in Select(b, c)
  BY <1>1 DEF Tunnels, Select, Accepted
<1> QED BY <1>2, <1>3

\* What has been offered is accepted as long as it stands, and is not refused.
OfferInv ==
    /\ FitInv /\ WorkerInv
    /\ offered => sel.profile \in Profile /\ Accepted(stored[sel.profile], sel)
    /\ OfferedDials

LEMMA OfferStep == OfferInv /\ [DialNext]_dialVars => OfferInv'
<1> SUFFICES ASSUME OfferInv, [DialNext]_dialVars PROVE OfferInv'
  OBVIOUS
<1>0. FitInv' /\ WorkerInv' /\ TypeOK
  BY PageStep, FitStep, WorkerStep DEF OfferInv, FitInv
<1>1. CASE UNCHANGED <<stored, sel, worker, offered>>
  BY <1>0, <1>1 DEF OfferInv, OfferedDials, worker, Accepted, Has
<1>2. CASE (Page /\ UNCHANGED <<worker, offered>>) \/ UNCHANGED dialVars
  BY <1>1, <1>2 DEF Page, Render, Answer, PickProfile, PickConnection, PickNode, TypePassword,
     dialVars, vars
<1>3. CASE Request
  <2>1. ASSUME offered' PROVE sel'.profile \in Profile /\ Accepted(stored'[sel'.profile], sel')
    <3> DEFINE b == stored[profSel]
    <3>1. /\ connSel # None /\ nodes # {} /\ stored' = stored
          /\ current.inspected = [profile |-> profSel, bundle |-> b]
          /\ sel' = [profile |-> profSel, connection |-> connSel, node |-> nodeSel]
      BY <1>3, <2>1 DEF Request, Connect
    <3>2. current.inspected # None /\ profSel \in Profile /\ b \in Bundle \cup {None}
      BY <1>0, <1>3, <3>1 DEF Request, Connect, TypeOK, OfferInv, FitInv, Fits
    <3>3. b \in Bundle
      <4>1. current.inspected \in Inspected
        BY <1>0, <3>2 DEF TypeOK
      <4> QED BY <3>1, <4>1 DEF Inspected
    <3>4. Has(b, connSel, nodeSel) /\ nodes \subseteq Nodes[<<b, connSel>>]
      BY <3>1, <3>2, AgreeFits DEF OfferInv, PickersAgree, FitInv, Fits
    <3> QED BY <3>1, <3>2, <3>3, <3>4 DEF Accepted
  <2>2. at' = "refused" => by' # "service"
    BY <1>3 DEF Request, Over, GoesOn, worker
  <2> QED BY <1>0, <2>1, <2>2 DEF OfferInv, OfferedDials
<1>4. CASE StoreCommand
  <2>1. sel' = sel /\ UNCHANGED worker
        /\ (offered' => offered /\ stored'[sel.profile] = stored[sel.profile])
    BY <1>4 DEF StoreCommand, Changes, Change
  <2> QED BY <1>0, <2>1 DEF OfferInv, OfferedDials, worker, Accepted, Has
<1>5. ASSUME UNCHANGED <<stored, sel, offered>>,
             at' = "refused" /\ by' = "service" => ~offered
      PROVE  OfferInv'
  BY <1>0, <1>5 DEF OfferInv, OfferedDials, Accepted, Has
<1>6. CASE Service
  <2>1. Launch("service", sel, "none") /\ UNCHANGED <<stored, sel, offered>>
    BY <1>6 DEF Service, Launch, vars
  <2>2. ASSUME offered PROVE at' # "refused"
    <3> DEFINE b == stored[sel.profile]
    <3>1. Accepted(b, sel) /\ sel \in Selection
      BY <1>0, <2>2 DEF OfferInv, TypeOK
    <3>2. Parse("service", b, sel, "none")
      BY <2>1 DEF Launch, Load
    <3>3. CASE Resolve("service", b, sel)
      BY <3>1, <3>3, AcceptedFound DEF Resolve, Over, GoesOn
    <3> QED BY <3>2, <3>3 DEF Parse, Over, GoesOn
  <2> QED BY <1>5, <2>1, <2>2
<1>7. CASE ByHand
  <2>1. UNCHANGED <<stored, sel, offered>> /\ by' = "hand"
    BY <1>7 DEF ByHand, Launch, vars, Parse, Resolve, Over, GoesOn
  <2> QED BY <1>5, <2>1
<1>8. CASE Leave
  <2>1. UNCHANGED <<stored, sel, offered>> /\ at' = "none"
    BY <1>8 DEF Leave, vars, Over, GoesOn
  <2> QED BY <1>5, <2>1
<1>9. ASSUME NEW pw \in Password, Prompted(pw) PROVE OfferInv'
  <2>1. by = "hand"
    BY <1>9 DEF Prompted, OfferInv, WorkerInv
  <2>2. UNCHANGED <<stored, sel, offered>> /\ by' = "hand"
    BY <1>9, <2>1 DEF Prompted, vars, Resolve, Over, GoesOn
  <2> QED BY <1>5, <2>2
<1> QED BY <1>2, <1>3, <1>4, <1>6, <1>7, <1>8, <1>9 DEF DialNext

\* What the page offers from a profile that has not changed since, no worker
\* of the service refuses.
THEOREM OfferSafe == DialSpec => []OfferedDials
<1>1. DialInit => OfferInv
  BY FitInit, WorkerInit DEF DialInit, OfferInv, OfferedDials
<1>2. OfferInv => OfferedDials
  BY DEF OfferInv
<1> QED BY <1>1, <1>2, OfferStep, PTL DEF DialSpec
=============================================================================
