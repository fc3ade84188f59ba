--------------------------- MODULE ConnectionView ---------------------------
(***************************************************************************)
(* The pickers of LuCI's Connection view (view/pharos/connection.js): a    *)
(* profile, one of its connections, one of that connection's nodes.  The   *)
(* last two are filled by the answers of `inspect` calls, which take as    *)
(* long as decryption takes on a router, while the user goes on.  Event    *)
(* handlers and answers run one at a time.                                 *)
(***************************************************************************)
EXTENDS Naturals, SequencesExt

CONSTANTS
    Profile,        \* names of profiles
    Bundle,         \* what a .pharos file may hold
    Contents,       \* the bundles that may be stored under each name
    Locked,         \* the bundles that need a password
    Connection,     \* names of connections
    Node,           \* identifiers of nodes
    Conns,          \* the connections of each bundle, in its order
    Nodes,          \* the nodes of each connection of each bundle
    Cascades,       \* the connections, by bundle, that have an egress path
    None,           \* the empty selection
    Typed,          \* what may be typed into the password field
    MaxCalls,       \* bound: inspect calls under way
    Ordered,        \* whether answers come in the order of the calls
    StoreChanges    \* whether import, sync and rm change the store

Password == {"none", "right", "wrong"}

ASSUME ViewAssumption ==
    /\ Contents \in [Profile -> SUBSET Bundle] /\ Locked \subseteq Bundle
    /\ None \notin Profile \cup Bundle \cup Connection \cup Node
    /\ \A p \in Profile, b \in Bundle : [profile |-> p, bundle |-> b] # None
    /\ Conns \in [Bundle -> Seq(Connection)]
    /\ Nodes \in [Bundle \X Connection -> SUBSET Node]
    /\ Cascades \subseteq Bundle \X Connection
    /\ Typed \subseteq Password /\ MaxCalls \in Nat \ {0}
    /\ Ordered \in BOOLEAN /\ StoreChanges \in BOOLEAN

VARIABLES
    stored,         \* the store: the bundle under each name
    sel,            \* the selection committed to uci
    options,        \* the options of the profile picker
    profSel,        \* its value
    connSel,        \* the value of the connection picker
    conns,          \* its options
    nodeSel,        \* the value of the node picker
    nodes,          \* its options, the automatic one apart
    path,           \* the connection whose egress path is displayed
    current,        \* this.current: the wanted connection and node, and the
                    \* bundle last answered with the name it was asked by
    password,       \* what is in the password field
    calls           \* the inspect calls under way

pickers == <<connSel, conns, nodeSel, nodes, path>>
page == <<options, profSel, pickers, current, password, calls>>
vars == <<stored, sel, page>>

Call == [profile : Profile \cup {None}, password : Password]
Selection == [profile : Profile \cup {None}, connection : Connection \cup {None},
              node : Node \cup {None}]
Inspected == [profile : Profile, bundle : Bundle]

TypeOK ==
    /\ stored \in [Profile -> Bundle \cup {None}]
    /\ sel \in Selection
    /\ options \subseteq Profile /\ profSel \in options \cup {None}
    /\ conns \subseteq Connection /\ connSel \in conns \cup {None}
    /\ nodes \subseteq Node /\ nodeSel \in nodes \cup {None}
    /\ path \in Cascades \cup {None}
    /\ current \in [connection : Connection \cup {None}, node : Node \cup {None},
                    inspected : Inspected \cup {None}]
    /\ password \in Password
    /\ calls \in Seq(Call)

\* A connection and a node that a bundle has, or the automatic choice.
Has(b, c, n) ==
    /\ c # None => c \in ToSet(Conns[b])
    /\ n # None => c # None /\ n \in Nodes[<<b, c>>]

\* A selection that its profile offers, if it is stored, or none.
Current(s) ==
    IF s.profile = None THEN s.connection = None /\ s.node = None
    ELSE stored[s.profile] # None => Has(stored[s.profile], s.connection, s.node)

Blank == connSel' = None /\ conns' = {} /\ nodeSel' = None /\ nodes' = {} /\ path' = None

\* No page is open.
Init ==
    /\ stored \in {f \in [Profile -> Bundle \cup {None}] :
                      \A p \in Profile : f[p] \in Contents[p] \cup {None}}
    /\ sel \in {s \in Selection : Current(s)}
    /\ options = {} /\ profSel = None
    /\ connSel = None /\ conns = {} /\ nodeSel = None /\ nodes = {} /\ path = None
    /\ current = [connection |-> None, node |-> None, inspected |-> None]
    /\ password = "none" /\ calls = << >>

-----------------------------------------------------------------------------
(* inspectAndFill and fillNodes.                                           *)

\* The first half of inspectAndFill: the call is made.
Inspect(p, pw) ==
    /\ Len(calls) < MaxCalls
    /\ calls' = Append(calls, [profile |-> p, password |-> pw])

\* cmdInspect: the connections of what is stored now, if the password, where
\* one is needed, is right; "needs_password" and errors answer none.
Readable(b, pw) == b # None /\ (b \in Locked => pw = "right")

Answers(call) ==
    {None} \cup {[profile |-> p, bundle |-> stored[p]] :
                 p \in {q \in {call.profile} \cap Profile : Readable(stored[q], call.password)}}

\* Mutant of Value: the wanted value, offered or not.
AnyValue(wanted, offers) == wanted
\* What a picker's value is when it is set: only an option can be selected.
Value(wanted, offers) == IF wanted \in offers THEN wanted ELSE None

\* fillNodes for connection c of the answer a in current.inspected.
FillNodes(a, c) ==
    IF a # None /\ c \in ToSet(Conns[a.bundle])
    THEN /\ nodes' = Nodes[<<a.bundle, c>>]
         /\ nodeSel' = Value(current.node, nodes')
         /\ path' = IF <<a.bundle, c>> \in Cascades THEN <<a.bundle, c>> ELSE None
    ELSE nodes' = {} /\ nodeSel' = None /\ path' = path

\* The second half of inspectAndFill: an answer a to a call.
Fill(a) ==
    /\ current' = [current EXCEPT !.inspected = a]
    /\ IF a = None \/ Conns[a.bundle] = << >>
       THEN /\ conns' = {} /\ connSel' = None /\ nodes' = {} /\ nodeSel' = None
            /\ path' = path
       ELSE /\ conns' = ToSet(Conns[a.bundle])
            /\ connSel' = Value(IF current.connection # None THEN current.connection
                                ELSE Head(Conns[a.bundle]), conns')
            /\ FillNodes(a, connSel')

Answer(k) ==
    /\ Ordered => k = 1
    /\ \E a \in Answers(calls[k]) : Fill(a)
    /\ calls' = RemoveAt(calls, k)
    /\ UNCHANGED <<stored, sel, options, profSel, password>>

-----------------------------------------------------------------------------
(* The user.                                                               *)

\* load and render: the page is opened on the committed selection, or on the
\* first profile, and makes its first call.
Render ==
    /\ options' = {p \in Profile : stored[p] # None}
    /\ \E p \in IF sel.profile # None THEN {sel.profile}
               ELSE IF options' = {} THEN {None} ELSE options' :
        /\ profSel' = Value(p, options')
        /\ calls' = <<[profile |-> p, password |-> "none"]>>
    /\ current' = [connection |-> sel.connection, node |-> sel.node, inspected |-> None]
    /\ Blank
    /\ password' = "none"
    /\ UNCHANGED <<stored, sel>>

\* Mutant of PickProfile: the profile shown before is inspected.
PickProfileLate(p) ==
    /\ p # profSel
    /\ profSel' = p
    /\ current' = [current EXCEPT !.connection = None, !.node = None]
    /\ Inspect(profSel, password)
    /\ UNCHANGED <<stored, sel, options, pickers, password>>

PickProfile(p) ==
    /\ p # profSel
    /\ profSel' = p
    /\ current' = [current EXCEPT !.connection = None, !.node = None]
    /\ Inspect(p, password)
    /\ UNCHANGED <<stored, sel, options, pickers, password>>

\* Mutant of PickConnection: the nodes are left as they are.
PickConnectionOnly(c) ==
    /\ c # connSel
    /\ connSel' = c
    /\ current' = [current EXCEPT !.connection = c]
    /\ UNCHANGED <<stored, sel, options, profSel, conns, nodes, nodeSel, path, password, calls>>

PickConnection(c) ==
    /\ c # connSel
    /\ connSel' = c
    /\ current' = [current EXCEPT !.connection = c]
    /\ FillNodes(current.inspected, c)
    /\ UNCHANGED <<stored, sel, options, profSel, conns, password, calls>>

PickNode(n) ==
    /\ nodeSel' = n
    /\ UNCHANGED <<stored, sel, options, profSel, connSel, conns, nodes, path, current, password,
                   calls>>

TypePassword(pw) ==
    /\ pw # password
    /\ password' = pw
    /\ Inspect(profSel, pw)
    /\ UNCHANGED <<stored, sel, options, profSel, pickers, current>>

\* The Connect button commits what the three pickers hold.
Connect ==
    /\ profSel # None
    /\ sel' = [profile |-> profSel, connection |-> connSel, node |-> nodeSel]
    /\ UNCHANGED <<stored, page>>

\* An import or a sync puts a bundle under a name, an rm (None) takes it away.
Change(p, b) ==
    /\ StoreChanges /\ b # stored[p]
    /\ stored' = [stored EXCEPT ![p] = b]
    /\ UNCHANGED <<sel, page>>

Changes == \E p \in Profile : \E b \in Contents[p] \cup {None} : Change(p, b)

Page ==
    \/ Render
    \/ \E k \in DOMAIN calls : Answer(k)
    \/ \E p \in options : PickProfile(p)
    \/ \E c \in conns : PickConnection(c)
    \/ \E n \in nodes \cup {None} : PickNode(n)
    \/ \E pw \in Typed : TypePassword(pw)

Next == Page \/ Connect \/ Changes

Spec == Init /\ [][Next]_vars

-----------------------------------------------------------------------------
(* Properties.                                                             *)

\* The pickers always hold a connection of one profile and a node of that
\* connection, whatever answers, choices and changes of the store are
\* interleaved (fillNodes "for the chosen connection").
PickersAgree ==
    IF current.inspected = None THEN connSel = None /\ nodeSel = None
    ELSE Has(current.inspected.bundle, connSel, nodeSel)

\* Once no call is under way they are the pickers of the chosen profile, if
\* answers come in order (inspectAndFill "loads a profile's connections/nodes
\* and rebuilds the connection + node dropdowns").
PickersSettle ==
    calls = << >> /\ profSel # None /\ current.inspected # None =>
        current.inspected.profile = profSel

\* A connect request names a connection within the profile it names, and a
\* node in that connection ("Named connection profile within the bundle",
\* "Which node/exit in the chosen connection to dial").
RequestCoherent == Current(sel)
=============================================================================
