---------------------------- MODULE StatusProofs ----------------------------
(***************************************************************************)
(* Proofs about Status, for any number of workers.                         *)
(***************************************************************************)
EXTENDS Status, WorkerProofs

\* What the reader and the PIDs of other programs may be.
ReaderOK ==
    /\ record \in Worker \cup {Asked}
    /\ answer \in Worker \cup {Down, Asked}
    /\ alien \subseteq {w \in Worker : main[w] = "none"}
    /\ reused \subseteq Worker

\* The observer stays within the workers' PIDs.
LEMMA ObserveTypes ==
    ASSUME ReaderOK, Observe, alien' \subseteq Worker
    PROVE  reused' \subseteq Worker
BY DEF ReaderOK, Observe, InUse

\* The step of a worker leaves no PID to two programs.
LEMMA WorkerReader ==
    ASSUME ReaderOK, WorkerStep
    PROVE  ReaderOK'
<1>1. alien' \subseteq Worker
  BY DEF ReaderOK, WorkerStep, reader
<1>2. reused' \subseteq Worker
  BY <1>1, ObserveTypes DEF WorkerStep
<1> QED BY <1>2 DEF ReaderOK, WorkerStep, reader

\* The reader's own steps, and those of other programs.
LEMMA ReaderStep ==
    ASSUME TypeOK, ReaderOK,
           Ask \/ ReadState \/ Probe \/ \E w \in Worker : Alien(w)
    PROVE  ReaderOK' /\ UNCHANGED vars
<1>0. Observe /\ alien' \subseteq Worker
  BY DEF Ask, ReadState, Probe, Alien, ReaderOK
<1>a. reused' \subseteq Worker
  BY <1>0, ObserveTypes
<1>1. CASE Ask \/ ReadState
  BY <1>1, <1>a DEF Ask, ReadState, ReaderOK, vars
<1>2. CASE Probe
  BY <1>2, <1>a DEF Probe, ReaderOK, vars
<1>3. ASSUME NEW w \in Worker, Alien(w) PROVE ReaderOK' /\ UNCHANGED vars
  BY <1>3, <1>a DEF Alien, ReaderOK, vars
<1> QED BY <1>1, <1>2, <1>3

\* The types of the reader and the workers.
StatusInv == VtInv /\ ReaderOK

\* Every step keeps what is proved of the workers, and the reader's types.
LEMMA StatusStep == StatusInv /\ [StatusNext]_watched => StatusInv'
<1> SUFFICES ASSUME StatusInv, [StatusNext]_watched PROVE StatusInv'
  OBVIOUS
<1>0. VtInv /\ ReaderOK /\ TypeOK
  BY DEF StatusInv, VtInv, LockInv
<1>1. CASE WorkerStep
  BY <1>0, <1>1, WorkerReader, VtStep DEF WorkerStep, StatusInv
<1>2. CASE Ask \/ ReadState \/ Probe \/ \E w \in Worker : Alien(w)
  BY <1>0, <1>2, ReaderStep, VtStep DEF StatusInv
<1>3. CASE UNCHANGED watched
  <2>1. ReaderOK'
    BY <1>0, <1>3 DEF ReaderOK, watched, reader, vars
  <2> QED BY <1>0, <1>3, <2>1, VtStep DEF StatusInv, watched
<1> QED BY <1>1, <1>2, <1>3 DEF StatusNext

\* It holds initially.
LEMMA StatusInitially == StatusInit => StatusInv
<1> SUFFICES ASSUME StatusInit PROVE StatusInv
  OBVIOUS
<1>1. VtInv
  BY VtInit DEF StatusInit
<1>2. ReaderOK
  BY DEF StatusInit, ReaderOK
<1> QED BY <1>1, <1>2 DEF StatusInv

\* The workers, the reader and the other programs keep their types, and no PID
\* is a worker's and another program's at once.
THEOREM StatusTypeCorrect == StatusSpec => []StatusTypeOK
<1>1. StatusInv => StatusTypeOK
  BY DEF StatusInv, VtInv, LockInv, ReaderOK, StatusTypeOK
<1> QED BY <1>1, StatusInitially, StatusStep, PTL DEF StatusSpec

(***************************************************************************)
(* The workers, watched.                                                   *)
(***************************************************************************)

\* A step of the composition is a step of the workers, or leaves them alone.
LEMMA WatchedStep == StatusInv /\ [StatusNext]_watched => [Next]_vars
<1> SUFFICES ASSUME StatusInv, [StatusNext]_watched PROVE [Next]_vars
  OBVIOUS
<1>0. TypeOK /\ ReaderOK
  BY DEF StatusInv, VtInv, LockInv
<1>1. CASE WorkerStep
  BY <1>1 DEF WorkerStep
<1>2. CASE Ask \/ ReadState \/ Probe \/ \E w \in Worker : Alien(w)
  BY <1>0, <1>2, ReaderStep
<1> QED BY <1>1, <1>2 DEF StatusNext, watched

\* With readers that open the state file at any moment, and PIDs that go to
\* other programs, two workers never have the routing table in their hands at
\* once, and a panic on the nil t.vt leaves nothing behind.
THEOREM WatchedSafe == StatusSpec => []OneRouter /\ []PanicHarmless
<1>1. StatusInv => OneRouter /\ PanicHarmless
  BY LockExcludes, VtHarmless DEF StatusInv, VtInv
<1> QED BY <1>1, StatusInitially, StatusStep, PTL DEF StatusSpec

\* Nor does any step remove the state file of a worker that is up.
THEOREM WatchedRecord == StatusSpec => RecordKept
<1>1. StatusInv => LockInv
  BY DEF StatusInv, VtInv
<1>2. StatusSpec => [][Kept]_vars
  BY <1>1, StatusInitially, StatusStep, WatchedStep, RecordStep, PTL DEF StatusSpec
<1> QED BY <1>2 DEF RecordKept, Kept

\* And what the workers do to the device and the table is what the lease
\* allows.
THEOREM WatchedLease == StatusSpec => Lease!Safe
<1>1. StatusInit => LeaseInv /\ Lease!Init
  BY LeaseInit DEF StatusInit
<1> QED BY <1>1, StatusInitially, StatusStep, WatchedStep, LeaseStep, PTL DEF StatusSpec, Lease!Safe

(***************************************************************************)
(* What status says.                                                       *)
(***************************************************************************)

\* A worker that is named, by the file or by what the reader has read of it,
\* was configured and then perhaps died; if it died, its PID is nobody else's,
\* or is known to have been given away.
Named(w) == (main[w] \in Configured \cup {"none"} /\ w \notin alien) \/ w \in reused

NamedInv ==
    /\ StatusInv
    /\ file \in Worker => Named(file)
    /\ record \in Worker => Named(record)

\* A worker stays configured until it dies.
LEMMA ConfiguredStays ==
    ASSUME TypeOK, Next, NEW w \in Worker, main[w] \in Configured
    PROVE  main'[w] \in Configured \cup {"none"}
<1>1. PICK v \in Worker : Main(v) \/ Tick(v) \/ Launch(v) \/ Signal(v) \/ Kill(v)
  BY DEF Next
<1>2. CASE v # w
  BY <1>1, <1>2
     DEF Main, Tick, Launch, Signal, Kill, Create, Setup, MainOpen, MainWrite, AwaitStop,
         Clear, Undo, CloseVt, NilVt, Exit, TickSelect, TickCheck, TickUse, TickOpen,
         TickWrite, Dies, Goto, TypeOK, Configured
<1>3. CASE v = w
  BY <1>1, <1>3
     DEF Configured, Main, Tick, Launch, Signal, Kill, Create, Setup, MainOpen, MainWrite,
         AwaitStop, Clear, Undo, CloseVt, NilVt, Exit, TickSelect, TickCheck, TickUse,
         TickOpen, TickWrite, Dies, Goto, After, TypeOK
<1> QED BY <1>2, <1>3

\* A worker that is named, and still named after the step, is named rightly.
LEMMA NamedKept ==
    ASSUME StatusInv, StatusInv', Observe, NEW w \in Worker, Named(w),
           main[w] \in Configured => main'[w] \in Configured \cup {"none"},
           main[w] # "none" => w \notin alien',
           w \in {file', record'}
    PROVE  Named(w)'
<1>0. main'[w] \in Phase /\ (w \in alien' => main'[w] = "none")
  BY DEF StatusInv, VtInv, LockInv, TypeOK, ReaderOK
<1>1. CASE main'[w] \in Configured
  BY <1>0, <1>1 DEF Named, Configured
<1>2. CASE main'[w] \notin Configured /\ w \in reused
  BY <1>2 DEF Named, Observe
<1>3. CASE main'[w] \notin Configured /\ w \notin reused
  <2>1. main[w] \in Configured \cup {"none"} /\ w \notin alien
    BY <1>3 DEF Named
  <2>2. CASE main[w] \in Configured
    BY <1>3, <2>2 DEF Named, Configured
  <2>3. CASE main[w] = "none" /\ main'[w] = "none" /\ w \notin alien'
    BY <2>3 DEF Named
  <2>4. CASE main[w] = "none" /\ (main'[w] # "none" \/ w \in alien')
    <3>1. w \in InUse' \ InUse
      BY <2>1, <2>4 DEF InUse
    <3> QED BY <1>3, <3>1 DEF Named, Observe
  <2> QED BY <2>1, <2>2, <2>3, <2>4
<1> QED BY <1>1, <1>2, <1>3

\* A worker that has just written its record is configured.
LEMMA NamedNew ==
    ASSUME StatusInv, WorkerStep, NEW w \in Worker, file' = w, file # w
    PROVE  Named(w)'
<1>0. TypeOK /\ VtInv /\ ReaderOK /\ UNCHANGED <<record, answer, alien>>
  BY DEF StatusInv, VtInv, LockInv, WorkerStep, reader
<1>1. PICK v \in Worker : Main(v) \/ Tick(v) \/ Launch(v) \/ Signal(v) \/ Kill(v)
  BY DEF WorkerStep, Next
<1>2. ~Truncate(v)
  BY WorkerAssumption DEF Truncate
<1>3. ~Clear(v)
  BY WorkerAssumption DEF Clear
<1>4. Fill(v) /\ (MainWrite(v) \/ TickWrite(v))
  BY <1>1, <1>2, <1>3
     DEF Main, Tick, Launch, Signal, Kill, Create, Setup, MainOpen, MainWrite, AwaitStop,
         Undo, CloseVt, NilVt, Exit, TickSelect, TickCheck, TickUse, TickOpen,
         TickWrite, Dies, Refused
<1>5. w = v
  BY <1>4, WorkerAssumption DEF Fill, Written
<1>6. main[v] # "none" /\ main'[v] \in Configured
  BY <1>0, <1>4
     DEF MainWrite, TickWrite, VtInv, Refreshing, Configured, Goto, TypeOK
<1>7. v \notin alien'
  BY <1>0, <1>6 DEF ReaderOK
<1> QED BY <1>5, <1>6, <1>7 DEF Named

\* Every step keeps the named workers named rightly.
LEMMA NamedStep == NamedInv /\ [StatusNext]_watched => NamedInv'
<1> SUFFICES ASSUME NamedInv, [StatusNext]_watched PROVE NamedInv'
  OBVIOUS
<1>0. StatusInv /\ StatusInv' /\ TypeOK /\ ReaderOK
  BY StatusStep DEF NamedInv, StatusInv, VtInv, LockInv
<1>a. SUFFICES ASSUME StatusNext,
                      NEW w \in Worker, w \in {file', record'}
               PROVE  Named(w)'
  BY <1>0 DEF NamedInv, Named, watched, vars, reader
<1>1. Observe
  BY <1>a DEF StatusNext, WorkerStep, Ask, ReadState, Probe, Alien
<1>2. CASE WorkerStep /\ file' = w /\ file # w
  BY <1>0, <1>2, NamedNew
<1>3. CASE WorkerStep /\ ~(file' = w /\ file # w)
  <2>1. w = file \/ w = record
    BY <1>a, <1>3 DEF WorkerStep, reader
  <2>2. Named(w)
    BY <2>1 DEF NamedInv
  <2>3. main[w] \in Configured => main'[w] \in Configured \cup {"none"}
    BY <1>0, <1>3, ConfiguredStays DEF WorkerStep
  <2>4. main[w] # "none" => w \notin alien'
    BY <1>0, <1>3 DEF ReaderOK, WorkerStep, reader
  <2> QED BY <1>0, <1>1, <1>a, <2>2, <2>3, <2>4, NamedKept
<1>4. CASE Ask \/ ReadState \/ Probe \/ \E v \in Worker : Alien(v)
  <2>1. UNCHANGED <<main, file>>
    BY <1>4 DEF Ask, ReadState, Probe, Alien, vars
  <2>2. record' \in {record, file, Asked}
    BY <1>4 DEF Ask, ReadState, Probe, Alien
  <2>3. Named(w)
    BY <1>a, <2>1, <2>2, StatusAssumption DEF NamedInv
  <2>4. main[w] # "none" => w \notin alien'
    BY <1>0, <1>4 DEF ReaderOK, Ask, ReadState, Probe, Alien
  <2> QED BY <1>0, <1>1, <1>a, <2>1, <2>3, <2>4, NamedKept
<1> QED BY <1>a, <1>2, <1>3, <1>4 DEF StatusNext

\* However many workers write the file, wherever they die, whatever ends
\* between the read and the probe and whoever gets its PID: status says "up"
\* only for a running worker whose network was configured, or of a record whose
\* worker is dead and whose PID has been given to another process since.
THEOREM UpSafe == StatusSpec => UpIsReal
<1> DEFINE Real == \A w \in Worker :
               answer # w /\ answer' = w => main[w] \in Configured \/ w \in reused
<1>1. StatusInit => NamedInv
  BY StatusInitially, WorkerAssumption, StatusAssumption DEF StatusInit, Init, NamedInv
<1>2. NamedInv /\ [StatusNext]_watched => [Real]_watched
  <2> SUFFICES ASSUME NamedInv, StatusNext, NEW w \in Worker, answer # w, answer' = w
               PROVE  main[w] \in Configured \/ w \in reused
    OBVIOUS
  <2>1. Probe
    BY StatusAssumption DEF StatusNext, WorkerStep, reader, Ask, ReadState, Alien
  <2>2. record = w /\ Alive(w)
    BY <2>1, StatusAssumption DEF Probe
  <2> QED BY <2>2 DEF Alive, NamedInv, Named
<1>3. StatusSpec => [][Real]_watched
  BY <1>1, <1>2, NamedStep, PTL DEF StatusSpec
<1> QED BY <1>3 DEF UpIsReal
=============================================================================
