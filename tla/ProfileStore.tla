---------------------------- MODULE ProfileStore ----------------------------
(***************************************************************************)
(* The profile directory /etc/pharos/profiles and the `caravel-owrt`       *)
(* commands that write and list it: import, sync, rm and list of main.go,  *)
(* run by LuCI through rpcd and by users in a shell, without a lock.  The  *)
(* store itself is caravel's profile.Store (external): Import replaces a   *)
(* profile, Remove deletes it, List names what is there.  Next to a synced *)
(* profile, sync leaves <name>.synced and <name>.pharosid.                 *)
(***************************************************************************)
EXTENDS Naturals

CONSTANTS
    Client,     \* running commands
    Name,       \* profile names
    MaxRev,     \* bound: revisions the controller issues
    File,       \* the contents of an uploaded .pharos
    None,       \* no file
    Empty,      \* a sidecar truncated and not yet written
    Torn,       \* a sidecar written in part, or by two
    Failures    \* whether commands may be killed and sidecars fail to be written

ASSUME StoreAssumption ==
    /\ MaxRev \in Nat
    /\ {File, None, Empty, Torn} \cap Nat = {}
    /\ File # None /\ None # Empty /\ None # Torn /\ Empty # Torn
    /\ Failures \in BOOLEAN

Rev == 1..MaxRev

\* The files sync leaves next to a profile.
Sidecar == {"synced", "pharosid"}

VARIABLES
    issued,     \* the account's revision at the controller, 0 for none yet
    store,      \* the .pharos of each name: None, File or a synced revision
    side,       \* of each sidecar and name, the revision whose sync wrote it
    cmd,        \* each command: where it is, its --name, what it fetched or listed
    marked,     \* the names the last list showed as synced
    history,    \* observer: the <<name, revision>> pairs sync has stored
    disturbed   \* observer: the names whose last sync was not left alone

vars == <<issued, store, side, cmd, marked, history, disturbed>>

\* A sync that has stored its profile is at the sidecar it writes, open or not.
Command == [at : {"idle", "fetched", "listed"} \cup Sidecar, open : BOOLEAN,
            name : Name \cup {None}, rev : 0..MaxRev, entries : SUBSET Name]

Idle == [at |-> "idle", open |-> FALSE, name |-> None, rev |-> 0, entries |-> {}]

TypeOK ==
    /\ issued \in 0..MaxRev
    /\ store \in [Name -> Rev \cup {File, None}]
    /\ side \in [Sidecar -> [Name -> Rev \cup {None, Empty, Torn}]]
    /\ cmd \in [Client -> Command]
    /\ marked \subseteq Name
    /\ history \subseteq Name \X Rev
    /\ disturbed \subseteq Name

Init ==
    /\ issued = 0
    /\ store = [n \in Name |-> None]
    /\ side = [k \in Sidecar |-> [n \in Name |-> None]]
    /\ cmd = [c \in Client |-> Idle]
    /\ marked = {}
    /\ history = {}
    /\ disturbed = {}

\* c is a sync of n between its Import and its last write.
Writing(c, n) == cmd[c].at \in Sidecar /\ cmd[c].name = n

\* cmdImport: the store checks the header and replaces the profile.
Import(c, n) ==
    /\ cmd[c] = Idle
    /\ store' = [store EXCEPT ![n] = File]
    /\ disturbed' = disturbed \cup {n}
    /\ UNCHANGED <<issued, side, cmd, marked, history>>

\* Mutant of Fetch: "no profile issued yet" is not an error.
FetchAnything(c, n) ==
    /\ cmd[c] = Idle
    /\ cmd' = [cmd EXCEPT ![c] = [Idle EXCEPT !.at = "fetched", !.name = n, !.rev = issued]]
    /\ UNCHANGED <<issued, store, side, marked, history, disturbed>>

\* cmdSync up to csync.Fetch (external), which serves the current revision;
\* every error before the store is touched ends the command as it began.
Fetch(c, n) ==
    /\ cmd[c] = Idle /\ issued > 0
    /\ cmd' = [cmd EXCEPT ![c] = [Idle EXCEPT !.at = "fetched", !.name = n, !.rev = issued]]
    /\ UNCHANGED <<issued, store, side, marked, history, disturbed>>

\* st.Import of the fetched profile.
Stored(c) ==
    LET n == cmd[c].name  r == cmd[c].rev IN
    /\ store' = [store EXCEPT ![n] = r]
    /\ history' = history \cup {<<n, r>>}
    /\ cmd' = [cmd EXCEPT ![c].at = "synced"]
    /\ disturbed' = IF \E d \in Client : Writing(d, n) THEN disturbed \cup {n} ELSE disturbed \ {n}

\* Mutant of SyncImport: an error of st.Import does not end the command.
SyncImportGoOn(c) ==
    /\ cmd[c].at = "fetched"
    /\ \/ Stored(c)
       \/ cmd' = [cmd EXCEPT ![c].at = "synced"] /\ UNCHANGED <<store, history, disturbed>>
    /\ UNCHANGED <<issued, side, marked>>

SyncImport(c) ==
    /\ cmd[c].at = "fetched"
    /\ \/ Stored(c)
       \/ cmd' = [cmd EXCEPT ![c] = Idle] /\ UNCHANGED <<store, history, disturbed>>
    /\ UNCHANGED <<issued, side, marked>>

\* After the marker the bundle; an error of either is ignored.
Past(c) ==
    cmd' = [cmd EXCEPT ![c] = IF cmd[c].at = "synced"
                              THEN [cmd[c] EXCEPT !.at = "pharosid", !.open = FALSE]
                              ELSE Idle]

\* Mutant of SyncOpen: a sidecar that is there is left as it is.
SyncOpenOnce(c) ==
    LET k == cmd[c].at  n == cmd[c].name IN
    /\ k \in Sidecar /\ ~cmd[c].open
    /\ \/ /\ side[k][n] = None
          /\ side' = [side EXCEPT ![k][n] = Empty]
          /\ cmd' = [cmd EXCEPT ![c].open = TRUE]
       \/ /\ side[k][n] # None
          /\ Past(c) /\ UNCHANGED side
    /\ UNCHANGED <<issued, store, marked, history, disturbed>>

\* os.WriteFile of a sidecar: the open truncates, or is refused ...
SyncOpen(c) ==
    LET k == cmd[c].at  n == cmd[c].name IN
    /\ k \in Sidecar /\ ~cmd[c].open
    /\ \/ /\ side' = [side EXCEPT ![k][n] = Empty]
          /\ cmd' = [cmd EXCEPT ![c].open = TRUE]
          /\ UNCHANGED disturbed
       \/ /\ Failures /\ Past(c)
          /\ disturbed' = disturbed \cup {n}
          /\ UNCHANGED side
    /\ UNCHANGED <<issued, store, marked, history>>

\* What a write at the start leaves of a sidecar: over another writer's text,
\* both; when it fails, what was there or a part.
Written(old, r) ==
    {r} \cup (IF old \in {Empty, r} THEN {} ELSE {Torn}) \cup (IF Failures THEN {old, Torn} ELSE {})

\* ... and the write.
SyncWrite(c) ==
    LET k == cmd[c].at  n == cmd[c].name  r == cmd[c].rev IN
    /\ k \in Sidecar /\ cmd[c].open
    /\ \E t \in Written(side[k][n], r) :
        /\ side' = [side EXCEPT ![k][n] = t]
        /\ disturbed' = IF t = r THEN disturbed ELSE disturbed \cup {n}
    /\ Past(c)
    /\ UNCHANGED <<issued, store, marked, history>>

\* cmdRemove: the profile goes; the sidecars stay.
Remove(c, n) ==
    /\ cmd[c] = Idle /\ store[n] # None
    /\ store' = [store EXCEPT ![n] = None]
    /\ disturbed' = disturbed \cup {n}
    /\ UNCHANGED <<issued, side, cmd, marked, history>>

\* cmdList: the entries first, then a Stat of each one's marker.
List(c) ==
    /\ cmd[c] = Idle
    /\ cmd' = [cmd EXCEPT ![c] = [Idle EXCEPT !.at = "listed",
                                  !.entries = {n \in Name : store[n] # None}]]
    /\ UNCHANGED <<issued, store, side, marked, history, disturbed>>

\* A marker that is there, whatever is in it.
Stat(c) ==
    /\ cmd[c].at = "listed"
    /\ marked' = {n \in cmd[c].entries : side["synced"][n] # None}
    /\ cmd' = [cmd EXCEPT ![c] = Idle]
    /\ UNCHANGED <<issued, store, side, history, disturbed>>

\* The command is interrupted, or killed.
Killed(c) ==
    /\ Failures /\ cmd[c] # Idle
    /\ cmd' = [cmd EXCEPT ![c] = Idle]
    /\ disturbed' = disturbed \cup {n \in Name : Writing(c, n)}
    /\ UNCHANGED <<issued, store, side, marked, history>>

\* The controller issues the account a new revision.
Issue ==
    /\ issued < MaxRev
    /\ issued' = issued + 1
    /\ UNCHANGED <<store, side, cmd, marked, history, disturbed>>

Next ==
    \/ Issue
    \/ \E c \in Client :
        \/ SyncImport(c) \/ SyncOpen(c) \/ SyncWrite(c)
        \/ List(c) \/ Stat(c) \/ Killed(c)
        \/ \E n \in Name : Import(c, n) \/ Fetch(c, n) \/ Remove(c, n)

Spec == Init /\ [][Next]_vars

-----------------------------------------------------------------------------
(* Properties.                                                             *)

\* A sidecar, be it empty or torn, is there only for a name a sync has stored,
\* and a readable one never speaks of a revision that was not stored under it,
\* wherever commands overlap, fail or die: they are written after the profile,
\* and not at all when storing failed (cmdSync's order of Import and writes).
MarkerBacked ==
    \A k \in Sidecar, n \in Name :
        side[k][n] # None => \E r \in Rev : <<n, r>> \in history /\ side[k][n] \in {r, Empty, Torn}

\* The three writes of a sync that no other command and no failure got in the
\* way of leave the profile, its marker and its account bundle of one revision,
\* whatever stale, empty or torn sidecars earlier commands had left; so only a
\* disturbed sync leaves a marker of another revision than the stored one, and
\* the next undisturbed one mends it.
SidecarsAgree ==
    \A n \in Name \ disturbed :
        (\A c \in Client : ~Writing(c, n)) => \A k \in Sidecar : side[k][n] = store[n]

\* An uploaded profile is not listed as an account's ("A profile fetched by
\* `sync` leaves a <name>.synced marker so the UI can offer Sync now instead
\* of Upload for account-mode entries").
ListedAsStored == [][\A c \in Client : Stat(c) => \A n \in marked' : store[n] # File]_vars
=============================================================================
