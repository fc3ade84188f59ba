------------------------------- MODULE Status -------------------------------
(***************************************************************************)
(* `caravel-owrt status` (readState, processAlive and cmdStatus of         *)
(* state.go) run against the workers of Worker, whose state file it reads  *)
(* without a lock.  LuCI polls it every few seconds through rpcd.          *)
(***************************************************************************)
EXTENDS Worker

CONSTANTS Down, Asked     \* "disconnected"; no answer yet

VARIABLES
    record,     \* the worker named by the state the reader parsed, or Asked
    answer,     \* what the command printed: a worker, Down, or Asked
    alien,      \* PIDs of dead workers that are now other programs'
    reused      \* observer: PIDs given away while a record of the dead names them

reader == <<record, answer, alien>>
watched == <<vars, reader, reused>>

ASSUME StatusAssumption == Down \notin Worker /\ Asked \notin Worker /\ Down # Asked

StatusTypeOK ==
    /\ TypeOK
    /\ record \in Worker \cup {Asked}
    /\ answer \in Worker \cup {Down, Asked}
    /\ alien \subseteq {w \in Worker : main[w] = "none"}
    /\ reused \subseteq Worker

StatusInit == Init /\ record = Asked /\ answer = Asked /\ alien = {} /\ reused = {}

\* The phases of a worker whose network has been configured.
Configured == {"open", "write", "wait", "clear", "undo", "vtclose", "vtnil", "exit"}

\* Mutant of Alive: the probe is skipped.
AlwaysAlive(w) == TRUE
\* processAlive: signal 0 reaches whatever program has the PID now.
Alive(w) == main[w] # "none" \/ w \in alien

\* The PIDs that some process has.
InUse == {w \in Worker : main[w] # "none"} \cup alien

\* A PID that the file or the reader names goes to another process, a worker
\* or not.  It is forgotten with the record, or when that process is up itself.
Observe ==
    reused' = {w \in reused \cup (InUse' \ InUse) :
                 w \in {file', record'} /\ main'[w] \notin Configured}

Ask == /\ answer # Asked
       /\ answer' = Asked /\ record' = Asked
       /\ UNCHANGED <<vars, alien>> /\ Observe

\* Mutant of ReadState: whatever was read is taken for a record.
ReadStateRaw ==
    /\ answer = Asked /\ record = Asked
    /\ record' = file
    /\ UNCHANGED <<vars, answer, alien>> /\ Observe

\* ReadFile and Unmarshal: no file, an empty one and a torn one are all "not
\* connected".
ReadState ==
    /\ answer = Asked /\ record = Asked
    /\ \/ file \in Worker /\ record' = file /\ answer' = Asked
       \/ file \notin Worker /\ answer' = Down /\ record' = Asked
    /\ UNCHANGED <<vars, alien>> /\ Observe

Probe ==
    /\ answer = Asked /\ record # Asked
    /\ answer' = IF Alive(record) THEN record ELSE Down
    /\ record' = Asked
    /\ UNCHANGED <<vars, alien>> /\ Observe

\* Another program gets the PID of a dead worker, recorded or not, or ends.
Alien(w) ==
    /\ main[w] = "none"
    /\ alien' = IF w \in alien THEN alien \ {w} ELSE alien \cup {w}
    /\ UNCHANGED <<vars, record, answer>> /\ Observe

\* A step of the workers.  A PID another program has is not available.
WorkerStep ==
    /\ Next
    /\ \A w \in alien : main'[w] = "none"
    /\ UNCHANGED reader /\ Observe

StatusNext == WorkerStep \/ Ask \/ ReadState \/ Probe \/ \E w \in Worker : Alien(w)

\* The reader asks nothing of the scheduler; the workers' goroutines run.
StatusFairness ==
    \A w \in Worker : /\ WF_<<vars, reader>>(Main(w) /\ UNCHANGED reader)
                      /\ WF_<<vars, reader>>(Tick(w) /\ UNCHANGED reader)

StatusSpec == StatusInit /\ [][StatusNext]_watched /\ StatusFairness

-----------------------------------------------------------------------------
\* status says "up" only for a worker that is running and had its tunnel
\* configured, however stale or torn the record it read and whatever has ended
\* since; with the one exception a PID allows: the record is of a worker that
\* died without clearing it (or ended between reading the file and probing the
\* PID), and its PID has since been given to a process that is not up.
UpIsReal ==
    [][\A w \in Worker :
         answer # w /\ answer' = w => main[w] \in Configured \/ w \in reused]_watched

\* status says "down" of a record only when its worker is dead, and otherwise
\* only when no worker was up as it read the file ("(zero, false) if none is
\* recorded or the recorded worker is no longer alive").
DownIsReal ==
    [][ReadState /\ answer' = Down => \A w \in Worker : main[w] # "wait"]_watched
=============================================================================
