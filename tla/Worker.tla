------------------------------- MODULE Worker -------------------------------
(***************************************************************************)
(* The life of `caravel-owrt connect` processes: cmdConnect of connect.go  *)
(* with its two goroutines, and the state file they record themselves in   *)
(* (writeState and clearState of state.go).  Several workers may be        *)
(* launched: the service's, one it has restarted while the old one is      *)
(* still leaving, and one a user starts by hand.  What holds them apart is *)
(* the kernel, which gives the device named awg0 to one process at   *)
(* a time.  A worker is its PID.  What it does to the routing table is     *)
(* the subject of Tunnel; here it is one step to install and one to undo.  *)
(***************************************************************************)
EXTENDS Naturals

CONSTANTS
    Worker,         \* the process identifiers workers run under
    Absent,         \* no state file
    Empty,          \* a state file truncated and not yet written
    Torn,           \* a state file two writers left unparsable
    Free,           \* nobody holds the device
    WriteFails      \* whether the state file may be refused (its file system is full)

ASSUME WorkerAssumption ==
    /\ {Absent, Empty, Torn, Free} \cap Worker = {}
    /\ Absent # Empty /\ Absent # Torn /\ Empty # Torn
    /\ WriteFails \in BOOLEAN

VARIABLES
    main,       \* where each worker's main goroutine is
    tick,       \* where its refresh goroutine is
    vt,         \* its tunnel's vt field
    stop,       \* its ctx is done
    fd,         \* its open state file: none, the linked file, or an unlinked one
    tun,        \* the worker that holds awg0
    routed,     \* the workers some of whose routes are in the table
    file        \* /var/run/pharosvpn/state.json: the worker it names, or a special value

vars == <<main, tick, vt, stop, fd, tun, routed, file>>

Phase == {"none", "create", "setup", "open", "write", "wait",
          "clear", "undo", "vtclose", "vtnil", "exit"}

TypeOK ==
    /\ main \in [Worker -> Phase]
    /\ tick \in [Worker -> {"off", "select", "check", "use", "open", "write"}]
    /\ vt \in [Worker -> {"nil", "open", "closed"}]
    /\ stop \in [Worker -> BOOLEAN]
    /\ fd \in [Worker -> {"none", "linked", "orphan"}]
    /\ tun \in Worker \cup {Free}
    /\ routed \subseteq Worker
    /\ file \in Worker \cup {Absent, Empty, Torn}

Init ==
    /\ main = [w \in Worker |-> "none"]
    /\ tick = [w \in Worker |-> "off"]
    /\ vt = [w \in Worker |-> "nil"]
    /\ stop = [w \in Worker |-> FALSE]
    /\ fd = [w \in Worker |-> "none"]
    /\ tun = Free
    /\ routed = {}
    /\ file = Absent

Goto(w, phase) == main' = [main EXCEPT ![w] = phase]

-----------------------------------------------------------------------------
(* The device and the routes.                                              *)

\* A process is started and has installed its signal handler.  Its PID may be
\* one that the state file still names.
Launch(w) ==
    /\ main[w] = "none"
    /\ Goto(w, "create")
    /\ UNCHANGED <<tick, vt, stop, fd, tun, routed, file>>

\* Mutant of Create: a busy device is waited for.
CreateWait(w) ==
    /\ main[w] = "create"
    /\ tun = Free /\ tun' = w /\ vt' = [vt EXCEPT ![w] = "open"] /\ Goto(w, "setup")
    /\ UNCHANGED <<tick, stop, fd, routed, file>>

\* tun.CreateTUN and vp.Up: a busy device is an error.  An error exits.
Create(w) ==
    /\ main[w] = "create"
    /\ \/ /\ tun = Free
          /\ tun' = w
          /\ vt' = [vt EXCEPT ![w] = "open"]
          /\ Goto(w, "setup")
          /\ UNCHANGED <<tick, stop, fd, routed, file>>
       \/ /\ Goto(w, "exit")
          /\ UNCHANGED <<tick, vt, stop, fd, tun, routed, file>>

\* Mutant of Setup: after an error only the device is closed.
SetupForgets(w) ==
    /\ main[w] = "setup"
    /\ \E p \in {"open", "vtclose"} : Goto(w, p)
    /\ routed' = routed \cup {w}
    /\ UNCHANGED <<tick, vt, stop, fd, tun, file>>

\* configureNetwork: on an error some routes may be in and connect calls Close.
Setup(w) ==
    /\ main[w] = "setup"
    /\ \E p \in {"open", "undo"} : Goto(w, p)
    /\ routed' = routed \cup {w}
    /\ UNCHANGED <<tick, vt, stop, fd, tun, file>>

-----------------------------------------------------------------------------
(* writeState: os.WriteFile opens with O_TRUNC, then writes.               *)

\* The file is created, or the one another process may have open truncated.
Truncate(w) == /\ fd' = [fd EXCEPT ![w] = "linked"]
               /\ file' = Empty

\* The opening is refused, and the error ignored.
Refused == WriteFails /\ UNCHANGED <<fd, file>>

\* What the linked file holds when w has written at its start: over another
\* writer's longer text, both.
Written(w) == IF file \in {Empty, w} THEN {w} ELSE {w, Torn}

Fill(w) ==
    /\ fd' = [fd EXCEPT ![w] = "none"]
    /\ \/ fd[w] = "linked" /\ file' \in Written(w)
       \/ fd[w] # "linked" /\ file' = file

\* The first writeTunnelState, by the main goroutine, which then starts the
\* refresh goroutine.
MainOpen(w) ==
    /\ main[w] = "open"
    /\ Goto(w, "write")
    /\ Truncate(w) \/ Refused
    /\ UNCHANGED <<tick, vt, stop, tun, routed>>

MainWrite(w) ==
    /\ main[w] = "write"
    /\ Goto(w, "wait")
    /\ Fill(w)
    /\ tick' = [tick EXCEPT ![w] = "select"]
    /\ UNCHANGED <<vt, stop, tun, routed>>

-----------------------------------------------------------------------------
(* The refresh goroutine: select, stats, writeState.                       *)

TickGoto(w, p) == tick' = [tick EXCEPT ![w] = p]

\* A select with both channels ready takes either.
TickSelect(w) ==
    /\ tick[w] = "select"
    /\ \/ stop[w] /\ TickGoto(w, "off")
       \/ TickGoto(w, "check")
    /\ UNCHANGED <<main, vt, stop, fd, tun, routed, file>>

\* stats reads t.vt to compare it with nil ...
TickCheck(w) ==
    /\ tick[w] = "check"
    /\ TickGoto(w, IF vt[w] = "nil" THEN "open" ELSE "use")
    /\ UNCHANGED <<main, vt, stop, fd, tun, routed, file>>

\* The process dies: the kernel takes its device and its file descriptors.
Dies(w) ==
    /\ Goto(w, "none")
    /\ TickGoto(w, "off")
    /\ vt' = [vt EXCEPT ![w] = "nil"]
    /\ stop' = [stop EXCEPT ![w] = FALSE]
    /\ fd' = [fd EXCEPT ![w] = "none"]
    /\ tun' = IF tun = w THEN Free ELSE tun
    /\ UNCHANGED <<routed, file>>

\* ... and again, without synchronisation with Close, to call Stats: a nil
\* read now is a panic, unless the compiler kept the value compared.
TickUse(w) ==
    /\ tick[w] = "use"
    /\ \/ /\ TickGoto(w, "open")
          /\ UNCHANGED <<main, vt, stop, fd, tun, routed, file>>
       \/ vt[w] = "nil" /\ Dies(w)

TickOpen(w) ==
    /\ tick[w] = "open"
    /\ TickGoto(w, "write")
    /\ Truncate(w) \/ Refused
    /\ UNCHANGED <<main, vt, stop, tun, routed>>

\* Mutant of TickWrite: the state is refreshed once.
TickWriteOnce(w) ==
    /\ tick[w] = "write" /\ TickGoto(w, "off") /\ Fill(w)
    /\ UNCHANGED <<main, vt, stop, tun, routed>>

TickWrite(w) ==
    /\ tick[w] = "write"
    /\ TickGoto(w, "select")
    /\ Fill(w)
    /\ UNCHANGED <<main, vt, stop, tun, routed>>

-----------------------------------------------------------------------------
(* The end: clearState, then Close, as cmdConnect's defers are stacked.    *)

\* Mutant of After: the record is cleared last.
ClearLast == [wait |-> "undo", undo |-> "vtclose", vtclose |-> "vtnil", vtnil |-> "clear", clear |-> "exit"]
\* Mutant of After: the device is closed before the routes are deleted.
CloseFirst == [wait |-> "clear", clear |-> "vtclose", vtclose |-> "undo", undo |-> "vtnil", vtnil |-> "exit"]
\* Mutant of After: the field is reset before the routes are deleted.
NilFirst == [wait |-> "clear", clear |-> "vtnil", vtnil |-> "undo", undo |-> "vtclose", vtclose |-> "exit"]

After == [wait |-> "clear", clear |-> "undo", undo |-> "vtclose", vtclose |-> "vtnil", vtnil |-> "exit"]

AwaitStop(w) ==
    /\ main[w] = "wait" /\ stop[w]
    /\ Goto(w, After["wait"])
    /\ UNCHANGED <<tick, vt, stop, fd, tun, routed, file>>

\* The file is unlinked: a writer that has it open writes to nobody.
Clear(w) ==
    /\ main[w] = "clear"
    /\ Goto(w, After["clear"])
    /\ file' = Absent
    /\ fd' = [v \in Worker |-> IF fd[v] = "linked" THEN "orphan" ELSE fd[v]]
    /\ UNCHANGED <<tick, vt, stop, tun, routed>>

Undo(w) ==
    /\ main[w] = "undo"
    /\ Goto(w, After["undo"])
    /\ routed' = routed \ {w}
    /\ UNCHANGED <<tick, vt, stop, fd, tun, file>>

\* vt.Close closes the device; t.vt is still set.
CloseVt(w) ==
    /\ main[w] = "vtclose"
    /\ Goto(w, After["vtclose"])
    /\ vt' = [vt EXCEPT ![w] = IF @ = "open" THEN "closed" ELSE @]
    /\ tun' = IF tun = w THEN Free ELSE tun
    /\ UNCHANGED <<tick, stop, fd, routed, file>>

NilVt(w) ==
    /\ main[w] = "vtnil"
    /\ Goto(w, After["vtnil"])
    /\ vt' = [vt EXCEPT ![w] = "nil"]
    /\ UNCHANGED <<tick, stop, fd, tun, routed, file>>

\* main returns; a goroutine that is still running dies with the process.
Exit(w) == main[w] = "exit" /\ Dies(w)

-----------------------------------------------------------------------------
Signal(w) ==
    /\ main[w] # "none" /\ ~stop[w]
    /\ stop' = [stop EXCEPT ![w] = TRUE]
    /\ UNCHANGED <<main, tick, vt, fd, tun, routed, file>>

Kill(w) == main[w] # "none" /\ Dies(w)

Main(w) ==
    \/ Create(w) \/ Setup(w) \/ MainOpen(w) \/ MainWrite(w) \/ AwaitStop(w)
    \/ Clear(w) \/ Undo(w) \/ CloseVt(w) \/ NilVt(w) \/ Exit(w)

Tick(w) == TickSelect(w) \/ TickCheck(w) \/ TickUse(w) \/ TickOpen(w) \/ TickWrite(w)

Next == \E w \in Worker : Main(w) \/ Tick(w) \/ Launch(w) \/ Signal(w) \/ Kill(w)

\* Goroutines are scheduled and the ticker goes on ticking.
Fairness == \A w \in Worker : WF_vars(Main(w)) /\ WF_vars(Tick(w))

Spec == Init /\ [][Next]_vars /\ Fairness

-----------------------------------------------------------------------------
(* Properties.                                                             *)

\* What the device is to the workers.
Lease == INSTANCE DeviceLease WITH
    Process <- Worker, Nobody <- Free,
    alive <- {w \in Worker : main[w] # "none"}, told <- {w \in Worker : stop[w]},
    holder <- tun, dirty <- routed

\* The goroutines, the state file and their races implement a lease: only the
\* holder of awg0 changes the table, a worker that was not killed gives the
\* table back first and the device second (Close), and a signal gets it there.
LeaseKept == Lease!Spec

\* The phases in which a worker's routes are, or are being put, in the table.
Routing == {"setup", "open", "write", "wait", "clear", "undo"}

\* Two workers never have the routing table in their hands at once: one that
\* still deletes its routes keeps the device from the next (the device is
\* created before any route and closed after the last; Close).
OneRouter == \A v, w \in Worker : main[v] \in Routing /\ main[w] \in Routing => v = w

\* Nobody removes the state file while a worker is up: the one that leaves
\* clears its own record while it still holds the device (clearState before
\* Close).
RecordKept == [][\A w \in Worker : main[w] = "wait" /\ file # Absent => file' # Absent]_vars

\* The unsynchronised read of t.vt in stats can panic only once the routes are
\* deleted and the device closed, so that the crash leaves nothing behind.
PanicHarmless ==
    \A w \in Worker : tick[w] = "use" /\ vt[w] = "nil" => w \notin routed /\ tun # w

\* The state file is refused to w no more.
OpensAgain(w) == <>[][tick[w] = "open" /\ tick'[w] = "write" => fd'[w] = "linked"]_vars

\* A worker that stays up, and whose state file is not refused for ever, is
\* again and again the one recorded, whatever a late write of its predecessor
\* left ("Refresh RX/TX while connected").
RecordHeals ==
    \A w \in Worker : <>[](main[w] = "wait") /\ OpensAgain(w) => []<>(file = w)

\* A worker told to stop is eventually gone, whatever it was doing.
StopCompletes == \A w \in Worker : stop[w] ~> ~stop[w]
=============================================================================
