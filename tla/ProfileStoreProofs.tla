------------------------- MODULE ProfileStoreProofs -------------------------
(***************************************************************************)
(* Proofs about ProfileStore, for any number of commands, names and        *)
(* revisions.                                                              *)
(***************************************************************************)
EXTENDS ProfileStore, TLAPS

\* What a command knows in state r of it, under history h: a sync that has
\* fetched knows a name and an issued revision, and one that writes sidecars
\* has it in the history.
Knows(r, h) ==
    /\ r \in Command
    /\ r.at \in {"fetched"} \cup Sidecar => r.name \in Name /\ r.rev \in Rev
    /\ r.at \in Sidecar => <<r.name, r.rev>> \in h
    /\ r.open => r.at \in Sidecar

SyncInv == TypeOK /\ \A c \in Client : Knows(cmd[c], history)

\* The record of a command, its fields changed.
LEMMA CommandFields ==
    ASSUME NEW r \in Command
    PROVE  /\ \A a \in {"synced", "pharosid"} :
                 LET q == [r EXCEPT !.at = a] IN
                 q \in Command /\ q.at = a /\ q.open = r.open /\ q.name = r.name /\ q.rev = r.rev
           /\ LET q == [r EXCEPT !.open = TRUE] IN
              q \in Command /\ q.at = r.at /\ q.open /\ q.name = r.name /\ q.rev = r.rev
           /\ LET q == [r EXCEPT !.at = "pharosid", !.open = FALSE] IN
              q \in Command /\ q.at = "pharosid" /\ ~q.open /\ q.name = r.name /\ q.rev = r.rev
BY DEF Command, Sidecar

\* A command that is idle, or has just listed, knows nothing of a sync.
LEMMA IdleKnows ==
    ASSUME NEW h
    PROVE  /\ Knows(Idle, h) /\ Idle.at = "idle"
           /\ \A e \in SUBSET Name : LET q == [Idle EXCEPT !.at = "listed", !.entries = e] IN
                  Knows(q, h) /\ q.at = "listed"
<1>1. Idle \in Command /\ Idle.at = "idle" /\ Idle.open = FALSE
  BY StoreAssumption DEF Idle, Command
<1> SUFFICES ASSUME NEW e \in SUBSET Name
             PROVE  LET q == [Idle EXCEPT !.at = "listed", !.entries = e] IN
                    Knows(q, h) /\ q.at = "listed"
  BY <1>1 DEF Knows, Sidecar
<1> DEFINE q == [Idle EXCEPT !.at = "listed", !.entries = e]
<1>2. q \in Command /\ q.at = "listed" /\ q.open = FALSE
  BY <1>1 DEF Command
<1> QED BY <1>2 DEF Knows, Sidecar

\* A step of one command to a state it may be in keeps what all know.
LEMMA CommandStep ==
    ASSUME SyncInv, NEW c \in Client, NEW r, cmd' = [cmd EXCEPT ![c] = r],
           history \subseteq history', Knows(r, history')
    PROVE  /\ cmd' \in [Client -> Command]
           /\ \A d \in Client : Knows(cmd'[d], history')
<1>1. cmd \in [Client -> Command] /\ r \in Command
  BY DEF SyncInv, TypeOK, Knows
<1>2. \A d \in Client : Knows(cmd[d], history')
  BY <1>1 DEF SyncInv, Knows
<1> QED BY <1>1, <1>2

\* A sync that is past a sidecar is at the next one, or done.
LEMMA PastStep ==
    ASSUME SyncInv, NEW c \in Client, cmd[c].at \in Sidecar, Past(c), UNCHANGED history
    PROVE  /\ cmd' \in [Client -> Command]
           /\ \A d \in Client : Knows(cmd'[d], history')
           /\ \A d \in Client \ {c} : cmd'[d] = cmd[d]
           /\ cmd[c].at = "synced" => /\ cmd'[c].at = "pharosid" /\ ~cmd'[c].open
                                      /\ cmd'[c].name = cmd[c].name /\ cmd'[c].rev = cmd[c].rev
           /\ cmd[c].at # "synced" => cmd'[c] = Idle
<1> DEFINE q == [cmd[c] EXCEPT !.at = "pharosid", !.open = FALSE]
           r == IF cmd[c].at = "synced" THEN q ELSE Idle
<1>1. Knows(cmd[c], history) /\ cmd[c] \in Command /\ cmd \in [Client -> Command]
  BY DEF SyncInv, TypeOK
<1>2. q \in Command /\ q.at = "pharosid" /\ ~q.open /\ q.name = cmd[c].name /\ q.rev = cmd[c].rev
  BY <1>1, CommandFields
<1>3. Knows(q, history)
  BY <1>1, <1>2 DEF Knows, Sidecar
<1>4. Knows(r, history') /\ cmd' = [cmd EXCEPT ![c] = r]
  BY <1>3, IdleKnows DEF Past
<1>5. cmd' \in [Client -> Command] /\ \A d \in Client : Knows(cmd'[d], history')
  BY <1>4, CommandStep
<1>6. cmd'[c] = r /\ \A d \in Client \ {c} : cmd'[d] = cmd[d]
  BY <1>1, <1>4
<1> HIDE DEF q
<1> QED BY <1>2, <1>5, <1>6

\* Storing keeps what the running syncs know; the one that stores has a marker
\* to write.
LEMMA StoredStep ==
    ASSUME SyncInv, NEW c \in Client, cmd[c].at = "fetched", Stored(c)
    PROVE  /\ cmd' \in [Client -> Command]
           /\ \A d \in Client : Knows(cmd'[d], history')
           /\ \A d \in Client \ {c} : cmd'[d] = cmd[d]
           /\ cmd'[c].at = "synced" /\ ~cmd'[c].open
           /\ cmd'[c].name = cmd[c].name /\ cmd'[c].rev = cmd[c].rev
<1> DEFINE r == [cmd[c] EXCEPT !.at = "synced"]
<1>1. /\ cmd[c].name \in Name /\ cmd[c].rev \in Rev /\ cmd[c] \in Command /\ ~cmd[c].open
      /\ cmd \in [Client -> Command]
  BY DEF SyncInv, TypeOK, Knows, Sidecar
<1>2. r \in Command /\ r.at = "synced" /\ ~r.open /\ r.name = cmd[c].name /\ r.rev = cmd[c].rev
  BY <1>1, CommandFields
<1>3. Knows(r, history') /\ history \subseteq history' /\ cmd' = [cmd EXCEPT ![c] = r]
  BY <1>1, <1>2 DEF Stored, Knows, Sidecar
<1>4. cmd' \in [Client -> Command] /\ \A d \in Client : Knows(cmd'[d], history')
  BY <1>3, CommandStep
<1>5. cmd'[c] = r /\ \A d \in Client \ {c} : cmd'[d] = cmd[d]
  BY <1>1, <1>3
<1> HIDE DEF r
<1> QED BY <1>2, <1>4, <1>5

\* Opening a sidecar keeps it too.
LEMMA OpenedStep ==
    ASSUME SyncInv, NEW c \in Client, cmd[c].at \in Sidecar,
           cmd' = [cmd EXCEPT ![c].open = TRUE], UNCHANGED history
    PROVE  /\ cmd' \in [Client -> Command]
           /\ \A d \in Client : Knows(cmd'[d], history')
           /\ \A d \in Client \ {c} : cmd'[d] = cmd[d]
           /\ cmd'[c].at = cmd[c].at /\ cmd'[c].open
           /\ cmd'[c].name = cmd[c].name /\ cmd'[c].rev = cmd[c].rev
<1> DEFINE r == [cmd[c] EXCEPT !.open = TRUE]
<1>1. Knows(cmd[c], history) /\ cmd[c] \in Command /\ cmd \in [Client -> Command]
  BY DEF SyncInv, TypeOK
<1>2. r \in Command /\ r.at = cmd[c].at /\ r.open /\ r.name = cmd[c].name /\ r.rev = cmd[c].rev
  BY <1>1, CommandFields
<1>3. Knows(r, history') /\ cmd' = [cmd EXCEPT ![c] = r]
  BY <1>1, <1>2 DEF Knows, Sidecar
<1>4. cmd' \in [Client -> Command] /\ \A d \in Client : Knows(cmd'[d], history')
  BY <1>3, CommandStep
<1>5. cmd'[c] = r /\ \A d \in Client \ {c} : cmd'[d] = cmd[d]
  BY <1>1, <1>3
<1> HIDE DEF r
<1> QED BY <1>2, <1>4, <1>5

\* What a write may leave of a sidecar.
LEMMA WrittenTypes ==
    ASSUME NEW old \in Rev \cup {None, Empty, Torn}, NEW r \in Rev, NEW t \in Written(old, r)
    PROVE  t \in Rev \cup {None, Empty, Torn} /\ t \in {old, r, Torn}
BY DEF Written

\* What a sync does to the sidecars: only the one it is at changes.
LEMMA SideStep ==
    ASSUME SyncInv, NEW c \in Client, SyncOpen(c) \/ SyncWrite(c)
    PROVE  LET j == cmd[c].at  m == cmd[c].name IN
           /\ side'[j][m] \in {side[j][m], cmd[c].rev, Empty, Torn}
           /\ \A k \in Sidecar, n \in Name : k # j \/ n # m => side'[k][n] = side[k][n]
<1> DEFINE j == cmd[c].at  m == cmd[c].name
<1>1. /\ j \in Sidecar /\ m \in Name /\ cmd[c].rev \in Rev
      /\ side \in [Sidecar -> [Name -> Rev \cup {None, Empty, Torn}]]
  BY DEF SyncInv, TypeOK, Knows, SyncOpen, SyncWrite
<1>2. ASSUME NEW t, t \in {side[j][m], cmd[c].rev, Empty, Torn},
             side' = [side EXCEPT ![j][m] = t]
      PROVE  /\ side'[j][m] \in {side[j][m], cmd[c].rev, Empty, Torn}
             /\ \A k \in Sidecar, n \in Name : k # j \/ n # m => side'[k][n] = side[k][n]
  BY <1>1, <1>2
<1>3. CASE SyncOpen(c)
  <2>1. side' = [side EXCEPT ![j][m] = Empty] \/ side' = side
    BY <1>3 DEF SyncOpen
  <2> QED BY <1>2, <2>1
<1>4. CASE SyncWrite(c)
  <2>1. PICK t \in Written(side[j][m], cmd[c].rev) : side' = [side EXCEPT ![j][m] = t]
    BY <1>4 DEF SyncWrite
  <2>2. side[j][m] \in Rev \cup {None, Empty, Torn} /\ cmd[c].rev \in Rev
    BY <1>1
  <2>3. t \in {side[j][m], cmd[c].rev, Torn}
    BY <2>1, <2>2, WrittenTypes
  <2> QED BY <1>2, <2>1, <2>3
<1> QED BY <1>3, <1>4

\* Every step keeps the types and what the running syncs know.
LEMMA SyncStep == SyncInv /\ [Next]_vars => SyncInv'
<1> SUFFICES ASSUME SyncInv, [Next]_vars PROVE SyncInv'
  OBVIOUS
<1>0. TypeOK /\ \A d \in Client : Knows(cmd[d], history)
  BY DEF SyncInv
<1>a. ASSUME TypeOK', \A d \in Client : Knows(cmd'[d], history') PROVE SyncInv'
  BY <1>a DEF SyncInv
<1>1. CASE UNCHANGED <<cmd, history>> /\ TypeOK'
  BY <1>0, <1>1, <1>a
<1>2. CASE Issue
  BY <1>1, <1>2, <1>0, StoreAssumption DEF Issue, TypeOK, Rev
<1>3. ASSUME NEW c \in Client, SyncImport(c) PROVE SyncInv'
  <2>1. CASE Stored(c)
    <3>1. cmd' \in [Client -> Command] /\ \A d \in Client : Knows(cmd'[d], history')
      BY <1>3, <2>1, StoredStep DEF SyncImport
    <3>2. cmd[c].name \in Name /\ cmd[c].rev \in Rev
      BY <1>0, <1>3 DEF SyncImport, Knows
    <3>3. TypeOK'
      BY <1>0, <1>3, <2>1, <3>1, <3>2 DEF SyncImport, Stored, TypeOK
    <3> QED BY <1>a, <3>1, <3>3
  <2>2. CASE cmd' = [cmd EXCEPT ![c] = Idle] /\ UNCHANGED <<store, history, disturbed>>
    <3>1. cmd' \in [Client -> Command] /\ \A d \in Client : Knows(cmd'[d], history')
      BY <2>2, IdleKnows, CommandStep
    <3>2. TypeOK'
      BY <1>0, <1>3, <2>2, <3>1 DEF SyncImport, TypeOK
    <3> QED BY <1>a, <3>1, <3>2
  <2> QED BY <1>3, <2>1, <2>2 DEF SyncImport
<1>4. ASSUME NEW c \in Client, SyncOpen(c) PROVE SyncInv'
  <2>1. cmd' \in [Client -> Command] /\ \A d \in Client : Knows(cmd'[d], history')
    BY <1>4, OpenedStep, PastStep DEF SyncOpen
  <2>2. cmd[c].name \in Name
    BY <1>0, <1>4 DEF SyncOpen, Knows
  <2>3. TypeOK'
    BY <1>0, <1>4, <2>1, <2>2 DEF SyncOpen, TypeOK
  <2> QED BY <1>a, <2>1, <2>3
<1>5. ASSUME NEW c \in Client, SyncWrite(c) PROVE SyncInv'
  <2>1. cmd' \in [Client -> Command] /\ \A d \in Client : Knows(cmd'[d], history')
    BY <1>5, PastStep DEF SyncWrite
  <2>2. cmd[c].name \in Name /\ cmd[c].rev \in Rev /\ cmd[c].at \in Sidecar
    BY <1>0, <1>5 DEF SyncWrite, Knows
  <2>3. PICK t \in Written(side[cmd[c].at][cmd[c].name], cmd[c].rev) :
           /\ side' = [side EXCEPT ![cmd[c].at][cmd[c].name] = t]
           /\ disturbed' = IF t = cmd[c].rev THEN disturbed ELSE disturbed \cup {cmd[c].name}
    BY <1>5 DEF SyncWrite
  <2>4. t \in Rev \cup {None, Empty, Torn}
    BY <1>0, <2>2, WrittenTypes DEF TypeOK
  <2>5. TypeOK'
    BY <1>0, <1>5, <2>1, <2>2, <2>3, <2>4 DEF SyncWrite, TypeOK
  <2> QED BY <1>a, <2>1, <2>5
<1>6. ASSUME NEW c \in Client, Stat(c) \/ Killed(c) PROVE SyncInv'
  <2>1. cmd' \in [Client -> Command] /\ \A d \in Client : Knows(cmd'[d], history')
    BY <1>6, IdleKnows, CommandStep DEF Stat, Killed
  <2>2. marked' \subseteq Name
    BY <1>0, <1>6 DEF Stat, Killed, Knows, TypeOK, Command
  <2>3. TypeOK'
    BY <1>0, <1>6, <2>1, <2>2 DEF Stat, Killed, TypeOK
  <2> QED BY <1>a, <2>1, <2>3
<1>7. ASSUME NEW c \in Client, List(c) PROVE SyncInv'
  <2>1. cmd' \in [Client -> Command] /\ \A d \in Client : Knows(cmd'[d], history')
    BY <1>7, IdleKnows, CommandStep DEF List
  <2>2. TypeOK'
    BY <1>0, <1>7, <2>1 DEF List, TypeOK
  <2> QED BY <1>a, <2>1, <2>2
<1>8. ASSUME NEW c \in Client, NEW n \in Name, Fetch(c, n) PROVE SyncInv'
  <2> DEFINE r == [Idle EXCEPT !.at = "fetched", !.name = n, !.rev = issued]
  <2>0. /\ Idle \in Command /\ Idle.open = FALSE /\ issued \in 0..MaxRev /\ issued \in Rev
        /\ history' = history
    BY <1>0, <1>8, StoreAssumption DEF Fetch, Idle, Command, TypeOK, Rev
  <2>a. r \in Command /\ r.at = "fetched" /\ r.name = n /\ r.rev = issued /\ ~r.open
    BY <2>0 DEF Command
  <2>1. Knows(r, history') /\ history' = history
    BY <2>0, <2>a DEF Knows, Sidecar
  <2>2. cmd' \in [Client -> Command] /\ \A d \in Client : Knows(cmd'[d], history')
    BY <1>8, <2>1, CommandStep DEF Fetch
  <2>3. TypeOK'
    BY <1>0, <1>8, <2>2 DEF Fetch, TypeOK
  <2> QED BY <1>a, <2>2, <2>3
<1>9. ASSUME NEW c \in Client, NEW n \in Name, Import(c, n) \/ Remove(c, n) PROVE SyncInv'
  BY <1>0, <1>1, <1>9 DEF Import, Remove, TypeOK
<1>10. CASE UNCHANGED vars
  BY <1>0, <1>1, <1>10 DEF vars, TypeOK
<1> QED BY <1>2, <1>3, <1>4, <1>5, <1>6, <1>7, <1>8, <1>9, <1>10 DEF Next

\* It holds initially.
LEMMA SyncInit == Init => SyncInv
BY StoreAssumption DEF Init, SyncInv, TypeOK, Knows, Idle, Command, Rev, Sidecar

\* The store, its sidecars and the commands keep their types.
THEOREM TypeCorrect == Spec => []TypeOK
<1>1. SyncInv => TypeOK
  BY DEF SyncInv
<1> QED BY <1>1, SyncInit, SyncStep, PTL DEF Spec

(***************************************************************************)
(* Sidecars are backed.                                                    *)
(***************************************************************************)

\* The state with the sidecars backed by the history.
MarkerInv == SyncInv /\ MarkerBacked

\* Wherever commands overlap, fail or die, a sidecar is there only for a name a
\* sync has stored, and a readable one is of a revision stored under it.
THEOREM MarkerSafe == Spec => []MarkerBacked
<1>1. Init => MarkerInv
  BY SyncInit DEF Init, MarkerInv, MarkerBacked
<1>2. MarkerInv /\ [Next]_vars => MarkerInv'
  <2> SUFFICES ASSUME MarkerInv, [Next]_vars PROVE MarkerBacked'
    BY SyncStep DEF MarkerInv
  <2>0. SyncInv /\ TypeOK /\ MarkerBacked
    BY DEF MarkerInv, SyncInv
  <2>1. CASE history \subseteq history' /\ UNCHANGED side
    BY <2>0, <2>1 DEF MarkerBacked
  <2>2. ASSUME NEW c \in Client, SyncOpen(c) \/ SyncWrite(c) PROVE MarkerBacked'
    <3> DEFINE m == cmd[c].name  j == cmd[c].at
    <3>1. /\ <<m, cmd[c].rev>> \in history /\ cmd[c].rev \in Rev
          /\ m \in Name /\ j \in Sidecar /\ UNCHANGED history
      BY <2>0, <2>2 DEF SyncInv, Knows, SyncOpen, SyncWrite
    <3>2. /\ side'[j][m] \in {side[j][m], cmd[c].rev, Empty, Torn}
          /\ \A k \in Sidecar, n \in Name : k # j \/ n # m => side'[k][n] = side[k][n]
      BY <2>0, <2>2, SideStep
    <3>3. SUFFICES ASSUME NEW k \in Sidecar, NEW n \in Name, side'[k][n] # None
                   PROVE  \E r \in Rev : <<n, r>> \in history /\ side'[k][n] \in {r, Empty, Torn}
      BY <3>1 DEF MarkerBacked
    <3>4. CASE k = j /\ n = m /\ side'[k][n] \in {cmd[c].rev, Empty, Torn}
      BY <3>1, <3>4
    <3>5. CASE side'[k][n] = side[k][n]
      BY <2>0, <3>3, <3>5 DEF MarkerBacked
    <3> QED BY <3>2, <3>4, <3>5
  <2>3. ASSUME NEW c \in Client, SyncImport(c) \/ List(c) \/ Stat(c) \/ Killed(c)
        PROVE  MarkerBacked'
    BY <2>1, <2>3 DEF SyncImport, Stored, List, Stat, Killed
  <2>4. ASSUME NEW c \in Client, NEW n \in Name, Import(c, n) \/ Fetch(c, n) \/ Remove(c, n)
        PROVE  MarkerBacked'
    BY <2>1, <2>4 DEF Import, Fetch, Remove
  <2>5. CASE Issue \/ UNCHANGED vars
    BY <2>1, <2>5 DEF Issue, vars
  <2> QED BY <2>2, <2>3, <2>4, <2>5 DEF Next
<1>3. MarkerInv => MarkerBacked
  BY DEF MarkerInv
<1> QED BY <1>1, <1>2, <1>3, PTL DEF Spec

(***************************************************************************)
(* A sync that was left alone.                                             *)
(***************************************************************************)

\* The three writes of name n, in the hands of one sync or of none: what it
\* has written so far is of the revision it has stored.
Agrees(n) ==
    /\ \A c, d \in Client : Writing(c, n) /\ Writing(d, n) => c = d
    /\ \A c \in Client : Writing(c, n) =>
        /\ store[n] = cmd[c].rev
        /\ cmd[c].at = "pharosid" => side["synced"][n] = cmd[c].rev
        /\ cmd[c].open => side[cmd[c].at][n] = Empty
    /\ (\A c \in Client : ~Writing(c, n)) => \A k \in Sidecar : side[k][n] = store[n]

AgreeInv == SyncInv /\ \A n \in Name \ disturbed : Agrees(n)

\* A step that touches neither the files of n nor the syncs of n.
LEMMA AgreeFrame ==
    ASSUME NEW n \in Name, Agrees(n),
           store'[n] = store[n], \A k \in Sidecar : side'[k][n] = side[k][n],
           \A d \in Client : Writing(d, n)' <=> Writing(d, n),
           \A d \in Client : Writing(d, n) => cmd'[d] = cmd[d]
    PROVE  Agrees(n)'
<1>1. \A d \in Client : Writing(d, n) => cmd'[d].at \in Sidecar
  BY DEF Writing
<1> QED BY <1>1 DEF Agrees, Sidecar

\* A step of a command that is not, and will not be, writing sidecars of n.
LEMMA OtherFrame ==
    ASSUME NEW n \in Name, Agrees(n), NEW c \in Client, ~Writing(c, n), ~Writing(c, n)',
           \A d \in Client \ {c} : cmd'[d] = cmd[d],
           store'[n] = store[n], \A k \in Sidecar : side'[k][n] = side[k][n]
    PROVE  Agrees(n)'
BY AgreeFrame DEF Writing

\* Wherever commands overlap, fail or die, a name whose last sync was left
\* alone has its profile, its marker and its bundle of one revision.
THEOREM AgreeSafe == Spec => []SidecarsAgree
<1>1. Init => AgreeInv
  BY SyncInit, IdleKnows DEF Init, AgreeInv, Agrees, Writing, Sidecar
<1>2. AgreeInv /\ [Next]_vars => AgreeInv'
  <2> SUFFICES ASSUME AgreeInv, [Next]_vars, NEW n \in Name, n \notin disturbed'
               PROVE  Agrees(n)'
    BY SyncStep DEF AgreeInv
  <2>0. SyncInv /\ TypeOK /\ (n \notin disturbed => Agrees(n))
    BY DEF AgreeInv, SyncInv
  <2>1. ASSUME NEW c \in Client, SyncImport(c) PROVE Agrees(n)'
    <3>1. ~Writing(c, n) /\ cmd[c].at = "fetched"
      BY <2>1 DEF SyncImport, Writing, Sidecar
    <3>2. cmd[c].name \in Name /\ cmd[c].rev \in Rev
      BY <2>0, <3>1 DEF SyncInv, Knows
    <3>3. CASE Stored(c) /\ cmd[c].name = n
      <4>1. \A d \in Client : ~Writing(d, n)
        BY <3>3 DEF Stored
      <4>2. /\ \A d \in Client \ {c} : cmd'[d] = cmd[d]
            /\ cmd'[c].at = "synced" /\ ~cmd'[c].open
            /\ cmd'[c].name = n /\ cmd'[c].rev = cmd[c].rev
        BY <2>0, <3>1, <3>3, StoredStep
      <4>3. Writing(c, n)' /\ \A d \in Client \ {c} : ~Writing(d, n)'
        BY <4>1, <4>2 DEF Writing, Sidecar
      <4>4. store'[n] = cmd'[c].rev
        BY <2>0, <3>3, <4>2 DEF Stored, TypeOK
      <4> QED BY <4>2, <4>3, <4>4 DEF Agrees
    <3>4. CASE Stored(c) /\ cmd[c].name # n
      <4>1. /\ \A d \in Client \ {c} : cmd'[d] = cmd[d]
            /\ cmd'[c].name = cmd[c].name
        BY <2>0, <3>1, <3>4, StoredStep
      <4>2. n \notin disturbed /\ store'[n] = store[n] /\ UNCHANGED side
        BY <2>0, <2>1, <3>2, <3>4 DEF SyncImport, Stored, TypeOK
      <4> QED BY <2>0, <3>1, <3>4, <4>1, <4>2, OtherFrame DEF Writing
    <3>5. CASE cmd' = [cmd EXCEPT ![c] = Idle] /\ UNCHANGED <<store, history, disturbed>>
      <4>1. ~Writing(c, n)' /\ \A d \in Client \ {c} : cmd'[d] = cmd[d]
        BY <2>0, <3>5, IdleKnows DEF TypeOK, Writing, Sidecar
      <4> QED BY <2>0, <2>1, <3>1, <3>5, <4>1, OtherFrame DEF SyncImport
    <3> QED BY <2>1, <3>3, <3>4, <3>5 DEF SyncImport
  <2>2. ASSUME NEW c \in Client, SyncOpen(c) \/ SyncWrite(c), cmd[c].name # n
        PROVE  Agrees(n)'
    <3>1. cmd[c].at \in Sidecar /\ cmd[c].name \in Name /\ UNCHANGED <<store, history>>
      BY <2>0, <2>2 DEF SyncOpen, SyncWrite, SyncInv, Knows
    <3>2. n \notin disturbed /\ \A k \in Sidecar : side'[k][n] = side[k][n]
      <4>1. \A k \in Sidecar : side'[k][n] = side[k][n]
        BY <2>0, <2>2, SideStep
      <4>2. disturbed \subseteq disturbed'
        BY <2>2 DEF SyncOpen, SyncWrite
      <4> QED BY <4>1, <4>2
    <3>3. /\ \A d \in Client \ {c} : cmd'[d] = cmd[d]
          /\ cmd'[c].name = cmd[c].name \/ cmd'[c] = Idle
      BY <2>0, <2>2, <3>1, OpenedStep, PastStep DEF SyncOpen, SyncWrite
    <3>4. ~Writing(c, n) /\ ~Writing(c, n)'
      BY <2>2, <3>3, IdleKnows DEF Writing, Sidecar
    <3> QED BY <2>0, <3>1, <3>2, <3>3, <3>4, OtherFrame
  <2>3. ASSUME NEW c \in Client, SyncOpen(c), cmd[c].name = n PROVE Agrees(n)'
    <3> DEFINE k == cmd[c].at
    <3>1. /\ k \in Sidecar /\ side' = [side EXCEPT ![k][n] = Empty]
          /\ cmd' = [cmd EXCEPT ![c].open = TRUE] /\ UNCHANGED <<store, history, disturbed>>
      BY <2>3 DEF SyncOpen
    <3>2. Writing(c, n) /\ Agrees(n)
      BY <2>0, <2>3, <3>1 DEF Writing
    <3>3. /\ \A d \in Client \ {c} : cmd'[d] = cmd[d]
          /\ cmd'[c].at = k /\ cmd'[c].name = n /\ cmd'[c].rev = cmd[c].rev
      BY <2>0, <2>3, <3>1, OpenedStep
    <3>4. Writing(c, n)' /\ \A d \in Client \ {c} : ~Writing(d, n)'
      BY <3>1, <3>2, <3>3 DEF Agrees, Writing
    <3>5. side'[k][n] = Empty /\ \A j \in Sidecar \ {k} : side'[j][n] = side[j][n]
      BY <2>0, <3>1 DEF TypeOK
    <3> QED BY <3>1, <3>2, <3>3, <3>4, <3>5 DEF Agrees, Sidecar
  <2>4. ASSUME NEW c \in Client, SyncWrite(c), cmd[c].name = n PROVE Agrees(n)'
    <3> DEFINE k == cmd[c].at
    <3>1. /\ k \in Sidecar /\ side' = [side EXCEPT ![k][n] = cmd[c].rev]
          /\ Past(c) /\ UNCHANGED <<store, history, disturbed>>
      BY <2>4 DEF SyncWrite
    <3>2. Writing(c, n) /\ Agrees(n)
      BY <2>0, <2>4, <3>1 DEF Writing
    <3>3. side'[k][n] = cmd[c].rev /\ \A j \in Sidecar \ {k} : side'[j][n] = side[j][n]
      BY <2>0, <3>1 DEF TypeOK
    <3>4. \A d \in Client \ {c} : cmd'[d] = cmd[d] /\ ~Writing(d, n)'
      BY <2>0, <3>1, <3>2, PastStep DEF Agrees, Writing
    <3>5. CASE k = "synced"
      <4>1. cmd'[c].at = "pharosid" /\ ~cmd'[c].open /\ cmd'[c].name = n /\ cmd'[c].rev = cmd[c].rev
        BY <2>0, <2>4, <3>1, <3>5, PastStep
      <4>2. Writing(c, n)'
        BY <4>1 DEF Writing, Sidecar
      <4> QED BY <3>1, <3>2, <3>3, <3>4, <3>5, <4>1, <4>2 DEF Agrees
    <3>6. CASE k = "pharosid"
      <4>1. cmd'[c] = Idle
        BY <2>0, <3>1, <3>6, PastStep
      <4>2. ~Writing(c, n)'
        BY <4>1, IdleKnows DEF Writing, Sidecar
      <4>3. \A j \in Sidecar : side'[j][n] = store'[n]
        BY <3>1, <3>2, <3>3, <3>6 DEF Agrees, Sidecar
      <4> QED BY <3>4, <4>2, <4>3 DEF Agrees
    <3> QED BY <3>1, <3>5, <3>6 DEF Sidecar
  <2>5. ASSUME NEW c \in Client, Stat(c) \/ Killed(c) PROVE Agrees(n)'
    <3>1. ~Writing(c, n) /\ n \notin disturbed /\ UNCHANGED <<store, side>>
      BY <2>5 DEF Stat, Killed, Writing, Sidecar
    <3>2. ~Writing(c, n)' /\ \A d \in Client \ {c} : cmd'[d] = cmd[d]
      BY <2>0, <2>5, IdleKnows DEF Stat, Killed, TypeOK, Writing, Sidecar
    <3> QED BY <2>0, <3>1, <3>2, OtherFrame
  <2>6. ASSUME NEW c \in Client, List(c) \/ \E m \in Name : Fetch(c, m) PROVE Agrees(n)'
    <3>1. ~Writing(c, n) /\ n \notin disturbed /\ UNCHANGED <<store, side>>
      BY <2>6, IdleKnows DEF List, Fetch, Writing, Sidecar
    <3>2. cmd'[c].at \in {"listed", "fetched"} /\ \A d \in Client \ {c} : cmd'[d] = cmd[d]
      BY <2>0, <2>6 DEF List, Fetch, TypeOK, Idle
    <3>3. ~Writing(c, n)'
      BY <3>2 DEF Writing, Sidecar
    <3> QED BY <2>0, <3>1, <3>2, <3>3, OtherFrame
  <2>7. ASSUME NEW c \in Client, NEW m \in Name, Import(c, m) \/ Remove(c, m) PROVE Agrees(n)'
    <3>1. n # m /\ n \notin disturbed /\ UNCHANGED <<cmd, side>>
      BY <2>7 DEF Import, Remove
    <3>2. store'[n] = store[n]
      BY <2>0, <2>7, <3>1 DEF Import, Remove, TypeOK
    <3> QED BY <2>0, <3>1, <3>2, AgreeFrame DEF Writing
  <2>8. CASE Issue \/ UNCHANGED vars
    <3>1. n \notin disturbed /\ UNCHANGED <<store, side, cmd>>
      BY <2>8 DEF Issue, vars
    <3> QED BY <2>0, <3>1, AgreeFrame DEF Writing
  <2> QED BY <2>1, <2>2, <2>3, <2>4, <2>5, <2>6, <2>7, <2>8 DEF Next
<1>3. AgreeInv => SidecarsAgree
  BY DEF AgreeInv, Agrees, SidecarsAgree
<1> QED BY <1>1, <1>2, <1>3, PTL DEF Spec
=============================================================================
