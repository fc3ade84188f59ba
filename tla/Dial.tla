-------------------------------- MODULE Dial --------------------------------
(***************************************************************************)
(* From the Connection view's request to what a worker dials: the page     *)
(* (ConnectionView), the store it offers from, and `caravel-owrt connect`, *)
(* which resolves the committed names against whatever is stored by then   *)
(* (cmdConnect, specFromProfile, resolveProfileSpec).  The service runs    *)
(* it, again and again while it fails; a user at a shell may, too.         *)
(***************************************************************************)
EXTENDS ConnectionView

CONSTANTS
    HandRuns,       \* what a user runs by hand: a selection and a password
    Files           \* the bundles in files of the user's directory, by name

Nothing == [profile |-> None, connection |-> None, node |-> None]
Tunnels == [connection : Connection, node : Node]

ASSUME DialAssumption ==
    /\ None \notin Tunnels
    /\ HandRuns \subseteq [asked : Selection, password : Password]
    /\ \A r \in HandRuns : r.asked.profile # None
    /\ Files \in [Profile -> Bundle \cup {None}]

VARIABLES
    at,         \* what has become of the last worker
    by,         \* who has launched it
    asked,      \* the names it was given
    data,       \* the bundle it has read
    dialled,    \* the tunnel it has chosen
    offered     \* observer: the committed selection is a connection with nodes
                \* that the page offered from what is still stored

worker == <<at, by, asked, data, dialled>>
dialVars == <<vars, worker, offered>>

DialTypeOK ==
    /\ TypeOK
    /\ at \in {"none", "prompt", "up", "refused", "failed"}
    /\ by \in {"service", "hand"}
    /\ asked \in Selection
    /\ data \in Bundle \cup {None} /\ (at \in {"prompt", "up"} <=> data # None)
    /\ dialled \in Tunnels \cup {None} /\ (at = "up" <=> dialled # None)
    /\ offered \in BOOLEAN

DialInit ==
    /\ Init
    /\ at = "none" /\ by = "service" /\ asked = Nothing /\ data = None /\ dialled = None
    /\ offered = FALSE

-----------------------------------------------------------------------------
(* Resolution: what one worker does before it dials.                       *)

\* loadProfileBytes: a readable file of that name comes before the store.
Load(who, name) ==
    IF who = "hand" /\ Files[name] # None THEN Files[name] ELSE stored[name]

\* Mutant of Select: a name that is not there falls back to the first.
SelectAnyway(b, c) ==
    IF Conns[b] = << >> THEN {} ELSE IF c \in ToSet(Conns[b]) THEN {c} ELSE {Head(Conns[b])}
\* Mutant of Select: the bundle is taken for one of a single connection.
SelectFirst(b, c) ==
    IF Conns[b] # << >> /\ c \in {None, Head(Conns[b])} THEN {Head(Conns[b])} ELSE {}
\* p.Select (external): the named connection, or the first.
Select(b, c) ==
    IF c # None THEN {c} \cap ToSet(Conns[b])
    ELSE IF Conns[b] = << >> THEN {} ELSE {Head(Conns[b])}

\* cp.Node (external): the named node, or one it chooses.
NodesFor(b, c, n) == IF n # None THEN {n} \cap Nodes[<<b, c>>] ELSE Nodes[<<b, c>>]

\* The worker goes on with what it has read, or it is over.
GoesOn(a, who, b, s, t) == at' = a /\ by' = who /\ data' = b /\ asked' = s /\ dialled' = t
Over(a, who) == GoesOn(a, who, None, Nothing, None)

\* resolveProfileSpec of bundle b after decryption; node.Tunnel may fail.
Resolve(who, b, s) ==
    LET found == {t \in Tunnels : /\ t.connection \in Select(b, s.connection)
                                  /\ t.node \in NodesFor(b, t.connection, s.node)}
    IN \/ \E t \in found : GoesOn("up", who, b, s, t)
       \/ found # {} /\ Over("failed", who)
       \/ found = {} /\ Over("refused", who)

\* specFromProfile: the password, and the prompt if none was given; only a
\* shell has a terminal to ask on.
Parse(who, b, s, pw) ==
    IF Readable(b, pw) THEN Resolve(who, b, s)
    ELSE IF b # None /\ pw = "none" /\ who = "hand" THEN GoesOn("prompt", who, b, s, None)
    ELSE Over("failed", who)

\* A worker is launched; the profile is read, once, and resolved.
Launch(who, s, pw) ==
    /\ at \notin {"prompt", "up"}
    /\ Parse(who, Load(who, s.profile), s, pw)
    /\ UNCHANGED <<vars, offered>>

\* The password is typed at the prompt; the profile is not read again.
Prompted(pw) ==
    /\ at = "prompt"
    /\ IF Readable(data, pw) THEN Resolve(by, data, asked) ELSE Over("failed", by)
    /\ UNCHANGED <<vars, offered>>

\* The worker ends: disconnect, Ctrl-C or a crash.
Leave ==
    /\ at \in {"prompt", "up"}
    /\ Over("none", by)
    /\ UNCHANGED <<vars, offered>>

\* The service launches its worker, at first, at boot or once more.
Service == sel.profile # None /\ Launch("service", sel, "none")

ByHand == \E r \in HandRuns : Launch("hand", r.asked, r.password)

-----------------------------------------------------------------------------
(* The page and the store.                                                 *)

\* The request restarts the service: the worker it has is stopped.
Request ==
    /\ Connect
    /\ offered' = /\ connSel # None /\ nodes # {}
                  /\ current.inspected = [profile |-> profSel, bundle |-> stored[profSel]]
    /\ IF by = "service" THEN Over("none", by) ELSE UNCHANGED worker

StoreCommand ==
    /\ Changes
    /\ offered' = (offered /\ stored'[sel.profile] = stored[sel.profile])
    /\ UNCHANGED worker

DialNext ==
    \/ Page /\ UNCHANGED <<worker, offered>>
    \/ Request \/ StoreCommand
    \/ Service \/ ByHand \/ Leave
    \/ \E pw \in Password : Prompted(pw)

DialSpec == DialInit /\ [][DialNext]_dialVars

-----------------------------------------------------------------------------
(* Properties.                                                             *)

\* What the page offers, the worker accepts: as long as the profile is still
\* the one the page has shown, the service's worker never refuses the names it
\* was sent, whatever answers, choices and reloads came before ("the LuCI
\* Connection view can populate node/exit pickers without re-implementing the
\* crypto").
OfferedDials == at = "refused" /\ by = "service" => ~offered

\* A worker dials what it was asked to, or nothing: a name that a sync or an
\* import has removed is not replaced by another, the connection and the node
\* come from one bundle although the store may change during the prompt, and
\* a locked bundle is only dialled from a terminal or with its password
\* ("empty picks the first").
DialsAsked ==
    at = "up" =>
        /\ Has(data, dialled.connection, dialled.node)
        /\ asked.connection \in {None, dialled.connection}
        /\ asked.node \in {None, dialled.node}
        /\ data \in Locked => by = "hand"
=============================================================================
