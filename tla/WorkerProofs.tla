---------------------------- MODULE WorkerProofs ----------------------------
(***************************************************************************)
(* Proofs about Worker, for any number of workers.                         *)
(***************************************************************************)
EXTENDS Worker, TLAPS

\* The phases in which a worker holds the device.
Holding == Routing \cup {"vtclose"}

\* A worker whose refresh goroutine runs has written its first record.
Refreshing == {"wait", "clear", "undo", "vtclose", "vtnil", "exit"}

(***************************************************************************)
(* Type correctness.                                                       *)
(***************************************************************************)

\* A process that dies leaves well-typed state.
LEMMA DiesType ==
    ASSUME TypeOK, NEW w \in Worker, Dies(w)
    PROVE  TypeOK'
BY DEF TypeOK, Dies, Goto, TickGoto, Phase

\* Opening the state file, or failing to, leaves well-typed state.
LEMMA OpenType ==
    ASSUME TypeOK, NEW w \in Worker, Truncate(w) \/ Refused
    PROVE  /\ fd' \in [Worker -> {"none", "linked", "orphan"}]
           /\ file' \in Worker \cup {Absent, Empty, Torn}
BY DEF TypeOK, Truncate, Refused

\* So does writing to it.
LEMMA FillType ==
    ASSUME TypeOK, NEW w \in Worker, Fill(w)
    PROVE  /\ fd' \in [Worker -> {"none", "linked", "orphan"}]
           /\ file' \in Worker \cup {Absent, Empty, Torn}
BY DEF TypeOK, Fill, Written

\* Every step keeps the types.
LEMMA TypeStep == TypeOK /\ [Next]_vars => TypeOK'
<1> SUFFICES ASSUME TypeOK, [Next]_vars PROVE TypeOK'
  OBVIOUS
<1>1. ASSUME NEW w \in Worker, Main(w) PROVE TypeOK'
  <2>1. CASE Create(w) \/ Setup(w)
    BY <2>1 DEF Create, Setup, Goto, TypeOK, Phase
  <2>2. CASE MainOpen(w)
    BY <2>2, OpenType DEF MainOpen, Goto, TypeOK, Phase
  <2>3. CASE MainWrite(w)
    BY <2>3, FillType DEF MainWrite, Goto, TypeOK, Phase
  <2>4. CASE AwaitStop(w) \/ Clear(w) \/ Undo(w)
    BY <2>4 DEF AwaitStop, Clear, Undo, Goto, After, TypeOK, Phase
  <2>5. CASE CloseVt(w) \/ NilVt(w)
    BY <2>5 DEF CloseVt, NilVt, Goto, After, TypeOK, Phase
  <2>6. CASE Exit(w)
    BY <2>6, DiesType DEF Exit
  <2> QED BY <1>1, <2>1, <2>2, <2>3, <2>4, <2>5, <2>6 DEF Main
<1>2. ASSUME NEW w \in Worker, Tick(w) PROVE TypeOK'
  <2>1. CASE TickSelect(w) \/ TickCheck(w)
    BY <2>1 DEF TickSelect, TickCheck, TickGoto, TypeOK
  <2>2. CASE TickUse(w)
    BY <2>2, DiesType DEF TickUse, TickGoto, TypeOK
  <2>3. CASE TickOpen(w)
    BY <2>3, OpenType DEF TickOpen, TickGoto, TypeOK
  <2>4. CASE TickWrite(w)
    BY <2>4, FillType DEF TickWrite, TickGoto, TypeOK
  <2> QED BY <1>2, <2>1, <2>2, <2>3, <2>4 DEF Tick
<1>3. ASSUME NEW w \in Worker, Launch(w) \/ Signal(w) PROVE TypeOK'
  BY <1>3 DEF Launch, Signal, Goto, TypeOK, Phase
<1>4. ASSUME NEW w \in Worker, Kill(w) PROVE TypeOK'
  BY <1>4, DiesType DEF Kill
<1>5. CASE UNCHANGED vars
  BY <1>5 DEF vars, TypeOK
<1> QED BY <1>1, <1>2, <1>3, <1>4, <1>5 DEF Next

\* The state of the processes, the device and the file keeps its types.
THEOREM TypeCorrect == Spec => []TypeOK
<1>1. Init => TypeOK
  BY DEF Init, TypeOK, Phase
<1> QED BY <1>1, TypeStep, PTL DEF Spec

(***************************************************************************)
(* The device as a lock.                                                   *)
(***************************************************************************)

\* From CreateTUN to the device's Close a worker holds the device.
LockInv ==
    /\ TypeOK
    /\ \A w \in Worker : main[w] \in Holding => tun = w

\* The death of a process keeps that: it frees no device but its own.
LEMMA DiesLock ==
    ASSUME LockInv, TypeOK', NEW w \in Worker, Dies(w)
    PROVE  LockInv'
BY DEF LockInv, Dies, Goto, Holding, Routing, TypeOK

\* Every step keeps it.
LEMMA LockStep == LockInv /\ [Next]_vars => LockInv'
<1> SUFFICES ASSUME LockInv, [Next]_vars PROVE LockInv'
  OBVIOUS
<1>0. TypeOK /\ TypeOK'
  BY TypeStep DEF LockInv
<1>1. ASSUME NEW w \in Worker, Main(w) PROVE LockInv'
  <2>1. CASE Create(w)
    BY <1>0, <2>1, WorkerAssumption DEF Create, Goto, LockInv, Holding, Routing, TypeOK
  <2>2. CASE Setup(w) \/ MainOpen(w) \/ MainWrite(w)
    BY <1>0, <2>2 DEF Setup, MainOpen, MainWrite, Goto, LockInv, Holding, Routing, TypeOK
  <2>3. CASE AwaitStop(w) \/ Clear(w) \/ Undo(w)
    BY <1>0, <2>3 DEF AwaitStop, Clear, Undo, Goto, After, LockInv, Holding, Routing, TypeOK
  <2>4. CASE CloseVt(w) \/ NilVt(w)
    BY <1>0, <2>4 DEF CloseVt, NilVt, Goto, After, LockInv, Holding, Routing, TypeOK
  <2>5. CASE Exit(w)
    BY <1>0, <2>5, DiesLock DEF Exit
  <2> QED BY <1>1, <2>1, <2>2, <2>3, <2>4, <2>5 DEF Main
<1>2. ASSUME NEW w \in Worker, Tick(w) PROVE LockInv'
  <2>1. CASE UNCHANGED <<main, tun>>
    BY <1>0, <2>1 DEF LockInv
  <2>2. CASE Dies(w)
    BY <1>0, <2>2, DiesLock
  <2> QED BY <1>2, <2>1, <2>2
        DEF Tick, TickSelect, TickCheck, TickUse, TickOpen, TickWrite
<1>3. ASSUME NEW w \in Worker, Launch(w) \/ Signal(w) PROVE LockInv'
  BY <1>0, <1>3 DEF Launch, Signal, Goto, LockInv, Holding, Routing, TypeOK
<1>4. ASSUME NEW w \in Worker, Kill(w) PROVE LockInv'
  BY <1>0, <1>4, DiesLock DEF Kill
<1>5. CASE UNCHANGED vars
  BY <1>0, <1>5 DEF vars, LockInv
<1> QED BY <1>1, <1>2, <1>3, <1>4, <1>5 DEF Next

\* It holds initially, and is what exclusion needs.
LEMMA LockInit == Init => LockInv
BY DEF Init, LockInv, TypeOK, Phase, Holding, Routing

LEMMA LockExcludes == LockInv => OneRouter
BY DEF LockInv, OneRouter, Holding

\* No two workers, however many are launched and whenever they are killed,
\* have the routing table in their hands at once.
THEOREM Exclusion == Spec => []OneRouter
BY LockInit, LockStep, LockExcludes, PTL DEF Spec

(***************************************************************************)
(* The record of the worker that is up.                                    *)
(***************************************************************************)

\* What RecordKept says of a step.
Kept == \A w \in Worker : main[w] = "wait" /\ file # Absent => file' # Absent

\* Only the holder of the device clears the file, and that is the worker up.
LEMMA RecordStep == LockInv /\ [Next]_vars => [Kept]_vars
<1> SUFFICES ASSUME LockInv, [Next]_vars, file # Absent, file' = Absent,
                    NEW w \in Worker, main[w] = "wait"
             PROVE  FALSE
  BY DEF Kept
<1>1. \A v \in Worker : ~Truncate(v)
  BY WorkerAssumption DEF Truncate
<1>2. \A v \in Worker : ~Fill(v)
  BY WorkerAssumption DEF Fill, Written
<1>3. PICK v \in Worker : Clear(v)
  BY <1>1, <1>2
     DEF Next, Main, Tick, Launch, Signal, Kill, Create, Setup, MainOpen, MainWrite,
         AwaitStop, Undo, CloseVt, NilVt, Exit, TickSelect, TickCheck, TickUse,
         TickOpen, TickWrite, Dies, Refused, vars
<1>4. main[v] = "clear" /\ tun = v
  BY <1>3 DEF Clear, LockInv, Holding, Routing
<1>5. tun = w
  BY DEF LockInv, Holding, Routing
<1> QED BY <1>4, <1>5

\* No step of any worker that starts, leaves or is killed removes the state
\* file of one that is up.
THEOREM RecordSafe == Spec => RecordKept
<1>1. Spec => [][Kept]_vars
  BY LockInit, LockStep, RecordStep, PTL DEF Spec
<1> QED BY <1>1 DEF RecordKept, Kept

(***************************************************************************)
(* The unsynchronised read of t.vt.                                        *)
(***************************************************************************)

\* What PanicHarmless needs to be inductive: where each goroutine can be when
\* t.vt is nil, and what the main goroutine has done by then.
VtInv ==
    /\ LockInv
    /\ \A w \in Worker :
        /\ tick[w] # "off" => main[w] \in Refreshing
        /\ main[w] \in Holding => vt[w] # "nil"
        /\ main[w] = "vtnil" => vt[w] # "nil"
        /\ tun = w => main[w] \in Holding
        /\ main[w] \in {"vtclose", "vtnil"} => w \notin routed
        /\ main[w] = "exit" /\ tick[w] # "off" => w \notin routed

\* The death of a process keeps it.
LEMMA DiesVt ==
    ASSUME VtInv, TypeOK', LockInv', NEW w \in Worker, Dies(w)
    PROVE  VtInv'
BY WorkerAssumption DEF VtInv, LockInv, Dies, Goto, TickGoto, Holding, Routing, Refreshing, TypeOK

\* Every step keeps it.
LEMMA VtStep == VtInv /\ [Next]_vars => VtInv'
<1> SUFFICES ASSUME VtInv, [Next]_vars PROVE VtInv'
  OBVIOUS
<1>0. LockInv /\ LockInv' /\ TypeOK /\ TypeOK'
  BY LockStep DEF VtInv, LockInv
<1>1. ASSUME NEW w \in Worker, Main(w) PROVE VtInv'
  <2>1. CASE Create(w)
    BY <1>0, <2>1, WorkerAssumption
       DEF Create, Goto, VtInv, Holding, Routing, Refreshing, TypeOK
  <2>2. CASE Setup(w)
    BY <1>0, <2>2 DEF Setup, Goto, VtInv, Holding, Routing, Refreshing, TypeOK
  <2>3. CASE MainOpen(w) \/ MainWrite(w)
    BY <1>0, <2>3 DEF MainOpen, MainWrite, Goto, VtInv, Holding, Routing, Refreshing, TypeOK
  <2>4. CASE AwaitStop(w) \/ Clear(w) \/ Undo(w)
    BY <1>0, <2>4
       DEF AwaitStop, Clear, Undo, Goto, After, VtInv, Holding, Routing, Refreshing, TypeOK
  <2>5. CASE CloseVt(w)
    BY <1>0, <2>5, WorkerAssumption
       DEF CloseVt, Goto, After, VtInv, LockInv, Holding, Routing, Refreshing, TypeOK
  <2>6. CASE NilVt(w)
    BY <1>0, <2>6 DEF NilVt, Goto, After, VtInv, Holding, Routing, Refreshing, TypeOK
  <2>7. CASE Exit(w)
    BY <1>0, <2>7, DiesVt DEF Exit
  <2> QED BY <1>1, <2>1, <2>2, <2>3, <2>4, <2>5, <2>6, <2>7 DEF Main
<1>2. ASSUME NEW w \in Worker, Tick(w) PROVE VtInv'
  <2>1. CASE Dies(w)
    BY <1>0, <2>1, DiesVt
  <2>2. CASE ~Dies(w)
    <3>1. /\ UNCHANGED <<main, vt, tun, routed>>
          /\ tick[w] # "off"
          /\ \A v \in Worker : tick'[v] # "off" => tick[v] # "off"
      BY <1>0, <1>2, <2>2
         DEF Tick, TickSelect, TickCheck, TickUse, TickOpen, TickWrite, TickGoto, TypeOK
    <3> QED BY <1>0, <3>1 DEF VtInv
  <2> QED BY <2>1, <2>2
<1>3. ASSUME NEW w \in Worker, Launch(w) \/ Signal(w) PROVE VtInv'
  BY <1>0, <1>3 DEF Launch, Signal, Goto, VtInv, Holding, Routing, Refreshing, TypeOK
<1>4. ASSUME NEW w \in Worker, Kill(w) PROVE VtInv'
  BY <1>0, <1>4, DiesVt DEF Kill
<1>5. CASE UNCHANGED vars
  BY <1>0, <1>5 DEF vars, VtInv
<1> QED BY <1>1, <1>2, <1>3, <1>4, <1>5 DEF Next

\* It holds initially, and is what makes the panic harmless.
LEMMA VtInit == Init => VtInv
BY LockInit, WorkerAssumption DEF Init, VtInv, LockInv, Holding, Refreshing

LEMMA VtHarmless == VtInv => PanicHarmless
BY DEF VtInv, PanicHarmless, Holding, Routing, Refreshing

\* When the refresh goroutine panics on the nil t.vt its process has deleted
\* its routes and given up the device, whatever other workers do.
THEOREM PanicSafe == Spec => []PanicHarmless
BY VtInit, VtStep, VtHarmless, PTL DEF Spec

(***************************************************************************)
(* The lease.                                                              *)
(***************************************************************************)

\* The processes there are, and those told to stop, as the lease has them.
Living == {w \in Worker : main[w] # "none"}
Ordered == {w \in Worker : stop[w]}

\* A process that is not there is told nothing, and one that ends on its own
\* does not hold the device.
LeaseInv ==
    /\ VtInv
    /\ \A w \in Worker : main[w] = "none" => ~stop[w] /\ tun # w /\ tick[w] = "off"

\* A step that leaves the processes, their orders, the device and the table
\* alone is none of the lease's.
LEMMA LeaseStutter ==
    ASSUME Living' = Living, Ordered' = Ordered, UNCHANGED <<tun, routed>>
    PROVE  UNCHANGED Lease!vars
BY DEF Lease!vars, Living, Ordered

\* The death of a process ends its lease, if it had one.
LEMMA DiesLease ==
    ASSUME LeaseInv, NEW w \in Worker, main[w] # "none", Dies(w)
    PROVE  LeaseInv' /\ Lease!Next
<1>0. TypeOK
  BY DEF LeaseInv, VtInv, LockInv
<1>1. Living' = Living \ {w} /\ Ordered' = Ordered \ {w} /\ w \in Living /\ routed' = routed
  BY <1>0 DEF Dies, Goto, Living, Ordered, TypeOK
<1>2. Lease!End(w) \/ Lease!Die(w)
  BY <1>0, <1>1, WorkerAssumption DEF Dies, Lease!End, Lease!Die, Living, Ordered
<1>3. Lease!Next
  BY <1>2 DEF Lease!Next
<1>4. TypeOK' /\ LockInv'
  BY <1>0, DiesType, DiesLock DEF LeaseInv, VtInv
<1>5. VtInv'
  BY <1>4, DiesVt DEF LeaseInv
<1>6. \A v \in Worker : main'[v] = "none" => ~stop'[v] /\ tun' # v /\ tick'[v] = "off"
  BY <1>0, WorkerAssumption DEF LeaseInv, Dies, Goto, TickGoto, TypeOK
<1> QED BY <1>3, <1>5, <1>6 DEF LeaseInv

\* Every step of the workers is a step of the lease or none.
LEMMA LeaseStep == LeaseInv /\ [Next]_vars => LeaseInv' /\ [Lease!Next]_(Lease!vars)
<1> SUFFICES ASSUME LeaseInv, [Next]_vars PROVE LeaseInv' /\ [Lease!Next]_(Lease!vars)
  OBVIOUS
<1>0. VtInv /\ VtInv' /\ LockInv /\ TypeOK /\ TypeOK'
  BY VtStep DEF LeaseInv, VtInv, LockInv
<1>1. ASSUME NEW w \in Worker, main[w] # "none", main'[w] # "none", \A v \in Worker \ {w} : main'[v] = main[v],
             UNCHANGED stop, \A v \in Worker : tun' = v => tun = v \/ v = w,
             \A v \in Worker : tick'[v] # "off" => tick[v] # "off" \/ v = w
      PROVE  LeaseInv' /\ Living' = Living /\ Ordered' = Ordered
  BY <1>0, <1>1 DEF LeaseInv, Living, Ordered
<1>2. ASSUME NEW w \in Worker, Main(w) PROVE LeaseInv' /\ [Lease!Next]_(Lease!vars)
  <2>1. CASE Create(w)
    <3>1. LeaseInv' /\ Living' = Living /\ Ordered' = Ordered /\ w \in Living
      BY <1>0, <1>1, <2>1, WorkerAssumption DEF Create, Goto, Living, TypeOK
    <3>2. CASE tun' = tun
      BY <2>1, <3>1, <3>2, LeaseStutter DEF Create
    <3>3. CASE tun' # tun
      <4>1. Lease!Take(w)
        BY <2>1, <3>1, <3>3 DEF Create, Lease!Take, Living, Ordered
      <4> QED BY <3>1, <4>1 DEF Lease!Next
    <3> QED BY <3>2, <3>3
  <2>2. CASE Setup(w)
    <3>1. LeaseInv' /\ Living' = Living /\ Ordered' = Ordered /\ w \in Living
      BY <1>0, <1>1, <2>2 DEF Setup, Goto, Living, TypeOK
    <3>2. Lease!Install(w)
      BY <2>2, <3>1, <1>0 DEF Setup, Lease!Install, LockInv, Holding, Routing, Living, Ordered
    <3> QED BY <3>1, <3>2 DEF Lease!Next
  <2>3. CASE MainOpen(w) \/ MainWrite(w) \/ AwaitStop(w) \/ Clear(w) \/ NilVt(w)
    <3>1. LeaseInv' /\ Living' = Living /\ Ordered' = Ordered
      BY <1>0, <1>1, <2>3
         DEF MainOpen, MainWrite, AwaitStop, Clear, NilVt, Goto, After, TypeOK
    <3> QED BY <2>3, <3>1, LeaseStutter DEF MainOpen, MainWrite, AwaitStop, Clear, NilVt
  <2>4. CASE Undo(w)
    <3>1. LeaseInv' /\ Living' = Living /\ Ordered' = Ordered /\ w \in Living
      BY <1>0, <1>1, <2>4 DEF Undo, Goto, After, Living, TypeOK
    <3>2. Lease!Clean(w)
      BY <2>4, <3>1, <1>0 DEF Undo, Lease!Clean, LockInv, Holding, Routing, Living, Ordered
    <3> QED BY <3>1, <3>2 DEF Lease!Next
  <2>5. CASE CloseVt(w)
    <3>1. LeaseInv' /\ Living' = Living /\ Ordered' = Ordered /\ w \in Living
      BY <1>0, <1>1, <2>5, WorkerAssumption DEF CloseVt, Goto, After, Living, TypeOK
    <3>2. tun = w /\ w \notin routed
      BY <1>0, <2>5 DEF CloseVt, VtInv, LockInv, Holding
    <3>3. Lease!Release(w)
      BY <2>5, <3>1, <3>2 DEF CloseVt, Lease!Release, Living, Ordered
    <3> QED BY <3>1, <3>3 DEF Lease!Next
  <2>6. CASE Exit(w)
    BY <2>6, DiesLease DEF Exit
  <2> QED BY <1>2, <2>1, <2>2, <2>3, <2>4, <2>5, <2>6 DEF Main
<1>3. ASSUME NEW w \in Worker, Tick(w) PROVE LeaseInv' /\ [Lease!Next]_(Lease!vars)
  <2>1. main[w] # "none"
    BY <1>0, <1>3 DEF LeaseInv, VtInv, Refreshing, Tick, TickSelect, TickCheck, TickUse, TickOpen, TickWrite
  <2>2. CASE Dies(w)
    BY <2>1, <2>2, DiesLease
  <2>3. CASE ~Dies(w)
    <3>1. UNCHANGED <<main, stop, tun, routed>> /\ \A v \in Worker \ {w} : tick'[v] = tick[v]
      BY <1>0, <1>3, <2>3
         DEF Tick, TickSelect, TickCheck, TickUse, TickOpen, TickWrite, TickGoto, TypeOK
    <3>2. LeaseInv' /\ Living' = Living /\ Ordered' = Ordered
      BY <1>0, <1>1, <2>1, <3>1
    <3> QED BY <3>1, <3>2, LeaseStutter
  <2> QED BY <2>2, <2>3
<1>4. ASSUME NEW w \in Worker, Launch(w) PROVE LeaseInv' /\ [Lease!Next]_(Lease!vars)
  <2>1. Living' = Living \cup {w} /\ w \notin Living /\ Ordered' = Ordered
    BY <1>0, <1>4 DEF Launch, Goto, Living, Ordered, TypeOK
  <2>2. LeaseInv'
    BY <1>0, <1>4 DEF Launch, Goto, LeaseInv, TypeOK
  <2>3. Lease!Start(w)
    BY <1>4, <2>1 DEF Launch, Lease!Start, Living, Ordered
  <2> QED BY <2>2, <2>3 DEF Lease!Next
<1>5. ASSUME NEW w \in Worker, Signal(w) PROVE LeaseInv' /\ [Lease!Next]_(Lease!vars)
  <2>1. Ordered' = Ordered \cup {w} /\ Living' = Living /\ w \in Living
    BY <1>0, <1>5 DEF Signal, Living, Ordered, TypeOK
  <2>2. LeaseInv'
    BY <1>0, <1>5 DEF Signal, LeaseInv, TypeOK
  <2>3. Lease!Tell(w)
    BY <1>5, <2>1 DEF Signal, Lease!Tell, Living, Ordered
  <2> QED BY <2>2, <2>3 DEF Lease!Next
<1>6. ASSUME NEW w \in Worker, Kill(w) PROVE LeaseInv' /\ [Lease!Next]_(Lease!vars)
  BY <1>6, DiesLease DEF Kill
<1>7. CASE UNCHANGED vars
  <2>1. LeaseInv'
    BY <1>0, <1>7 DEF vars, LeaseInv
  <2>2. UNCHANGED Lease!vars
    BY <1>7 DEF vars, Lease!vars
  <2> QED BY <2>1, <2>2
<1> QED BY <1>2, <1>3, <1>4, <1>5, <1>6, <1>7 DEF Next

\* It holds initially, and the lease is free.
LEMMA LeaseInit == Init => LeaseInv /\ Lease!Init
<1> SUFFICES ASSUME Init PROVE LeaseInv /\ Lease!Init
  OBVIOUS
<1>1. LeaseInv
  BY VtInit, WorkerAssumption DEF Init, LeaseInv
<1>2. Lease!Init
  BY DEF Init, Lease!Init
<1> QED BY <1>1, <1>2

\* However many workers there are, and however their goroutines race, what
\* they do to the device and the table is what the lease allows.
THEOREM LeaseSafe == Spec => Lease!Safe
BY LeaseInit, LeaseStep, PTL DEF Spec, Lease!Safe
=============================================================================
