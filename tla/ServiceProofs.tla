---------------------------- MODULE ServiceProofs ----------------------------
(***************************************************************************)
(* Proofs about Service, for any profiles and any number of events.        *)
(***************************************************************************)
EXTENDS Service, TLAPS

\* The smaller of two numbers, as procd's count uses it.
LEMMA MinOfTwo ==
    ASSUME NEW a \in Nat, NEW b \in Nat
    PROVE  Min({a, b}) \in {a, b} /\ Min({a, b}) <= a /\ Min({a, b}) <= b
<1>1. \E x \in {a, b} : \A y \in {a, b} : x <= y
  OBVIOUS
<1> QED BY <1>1 DEF Min

\* One more failure: counted, within the limit.
LEMMA MoreCount ==
    ASSUME NEW n \in 0..Retry + 1
    PROVE  More(n) = IF n <= Retry THEN n + 1 ELSE Retry + 1
<1>1. n \in Nat /\ Retry \in Nat /\ Retry = 5
  BY DEF Retry
<1>2. Min({n, Retry}) = IF n <= Retry THEN n ELSE Retry
  <2>1. Min({n, Retry}) \in {n, Retry} /\ Min({n, Retry}) <= n /\ Min({n, Retry}) <= Retry
    BY <1>1, MinOfTwo
  <2> QED BY <1>1, <2>1
<1> HIDE DEF Retry
<1> QED BY <1>1, <1>2 DEF More

\* What the end of a process does to the counts.
LEMMA ExitsCount ==
    ASSUME TypeOK, NEW fast \in BOOLEAN, Exits(fast)
    PROVE  /\ fails' \in 0..Retry + 1 /\ others' \in 0..Retry + 1
           /\ worker' \in {"exited", "abandoned"}
           /\ worker' = "abandoned" => fails' = Retry + 1
           /\ fails' <= fails + 1
           /\ ~leaving /\ fails <= others + 2 => fails' <= others' + 2
<1>1. fails \in 0..Retry + 1 /\ others \in 0..Retry + 1 /\ Retry = 5
  BY DEF TypeOK, Retry
<1>2. CASE fast
  <2>1. fails' = More(fails) /\ others' = IF leaving THEN others ELSE More(others)
    BY <1>2 DEF Exits
  <2>2. More(fails) = IF fails <= 5 THEN fails + 1 ELSE 6
    BY <1>1, MoreCount
  <2>3. More(others) = IF others <= 5 THEN others + 1 ELSE 6
    BY <1>1, MoreCount
  <2>4. fails' \in 0..Retry + 1 /\ others' \in 0..Retry + 1
    BY <1>1, <2>1, <2>2, <2>3
  <2>5. worker' \in {"exited", "abandoned"} /\ (worker' = "abandoned" => fails' = Retry + 1)
    BY <1>1, <2>4 DEF Exits
  <2> QED BY <1>1, <2>1, <2>2, <2>3, <2>4, <2>5
<1>3. CASE ~fast
  <2>1. fails' = 0 /\ others' = 0
    BY <1>3 DEF Exits
  <2>2. worker' = "exited"
    BY <1>1, <2>1 DEF Exits
  <2> QED BY <1>1, <2>1, <2>2
<1> QED BY <1>2, <1>3

\* What start_service makes of the selection.
LEMMA StartTypes ==
    ASSUME TypeOK, StartService
    PROVE  /\ inst' \in Profile \cup {None} /\ worker' \in {"none", "starting"}
           /\ inst' = None <=> worker' = "none"
           /\ fails' \in 0..Retry + 1 /\ others' \in 0..Retry + 1
           /\ inst' = IF enabled THEN profile ELSE None
BY DEF TypeOK, StartService, Fresh, Retry

\* A step that works or slips, as far as the observer and the bound go.
LEMMA CallTypes ==
    ASSUME TypeOK, Works \/ Slips
    PROVE  slipped' \in BOOLEAN /\ events' \in 0..Events
<1>1. slipped' \in BOOLEAN
  BY Zenon DEF TypeOK, Works, Slips
<1>2. events' \in 0..Events
  BY ServiceAssumption DEF TypeOK, Works, Slips, Event
<1> QED BY <1>1, <1>2

\* The steps of a call leave the observer and the bound in their types.
LEMMA RpcTypes ==
    ASSUME TypeOK,
           (\E p \in Profile : Connect(p)) \/ ConnectEnable \/ ConnectRestart
               \/ Disconnect \/ DisconnectStop \/ DisconnectDisable
    PROVE  /\ slipped' \in BOOLEAN /\ events' \in 0..Events
           /\ enabled' \in BOOLEAN /\ profile' \in Profile \cup {None}
           /\ rc' \in BOOLEAN /\ ready' \in BOOLEAN
           /\ asked' \in Profile \cup {None, Unknown}
<1>1. CASE \E p \in Profile : Connect(p)
  <2>1. PICK p \in Profile : Connect(p)
    BY <1>1
  <2>2. slipped' \in BOOLEAN /\ enabled' \in BOOLEAN
    BY Zenon, <2>1 DEF Connect, Slips, TypeOK, uci
  <2>3. events' \in 0..Events
    BY <2>1, ServiceAssumption DEF Connect, Slips, Event, TypeOK
  <2>4. /\ profile' \in Profile \cup {None} /\ rc' \in BOOLEAN /\ ready' \in BOOLEAN
        /\ asked' \in Profile \cup {None, Unknown}
    BY <2>1 DEF Connect, TypeOK, uci
  <2> QED BY <2>2, <2>3, <2>4
<1>2. CASE Disconnect
  <2>1. slipped' \in BOOLEAN /\ enabled' \in BOOLEAN
    BY Zenon, <1>2 DEF Disconnect, Slips, TypeOK
  <2>2. events' \in 0..Events
    BY <1>2, ServiceAssumption DEF Disconnect, Slips, Event, TypeOK
  <2>3. /\ profile' \in Profile \cup {None} /\ rc' \in BOOLEAN /\ ready' \in BOOLEAN
        /\ asked' \in Profile \cup {None, Unknown}
    BY <1>2 DEF Disconnect, TypeOK
  <2> QED BY <2>1, <2>2, <2>3
<1>3. CASE ConnectEnable \/ ConnectRestart \/ DisconnectStop \/ DisconnectDisable
  <2>1. Works \/ Slips
    BY <1>3 DEF ConnectEnable, ConnectRestart, DisconnectStop, DisconnectDisable
  <2>2. rc' \in BOOLEAN
    BY Zenon, <1>3 DEF ConnectEnable, ConnectRestart, DisconnectStop, DisconnectDisable, TypeOK
  <2>3. UNCHANGED <<enabled, profile, ready>>
    BY <1>3 DEF ConnectEnable, ConnectRestart, DisconnectStop, DisconnectDisable, uci
  <2>4. asked' \in {asked, None, Unknown, profile}
    BY <1>3 DEF ConnectEnable, ConnectRestart, DisconnectStop, DisconnectDisable, Answers
  <2> QED BY <2>1, <2>2, <2>3, <2>4, CallTypes DEF TypeOK
<1> QED BY <1>1, <1>2, <1>3

\* Every step keeps the types.
LEMMA TypeStep == TypeOK /\ [Next]_vars => TypeOK'
<1> SUFFICES ASSUME TypeOK, [Next]_vars PROVE TypeOK'
  OBVIOUS
<1> USE ServiceAssumption
<1>a. ASSUME UNCHANGED procd
      PROVE  /\ inst' \in Profile \cup {None} /\ worker' = worker
             /\ inst' = None <=> worker' = "none"
             /\ fails' \in 0..Retry + 1 /\ others' \in 0..Retry + 1 /\ leaving' \in BOOLEAN
             /\ worker' \in {"none", "starting", "up", "stalled", "exited", "abandoned"}
  BY <1>a DEF TypeOK, procd
<1>1. ASSUME NEW p \in Profile, Connect(p) PROVE TypeOK'
  <2>1. rpc' = "enable" /\ UNCHANGED procd
    BY <1>1 DEF Connect
  <2> QED BY <1>1, <1>a, <2>1, RpcTypes DEF TypeOK
<1>2. ASSUME NEW p \in Profile \cup {None}, NEW e \in BOOLEAN, SetConfig(p, e) PROVE TypeOK'
  BY <1>2 DEF TypeOK, SetConfig, Event, procd
<1>3. CASE ConnectEnable \/ DisconnectDisable \/ Disconnect
  <2>1. rpc' \in {"restart", "idle", "stop"} /\ UNCHANGED procd
    BY <1>3 DEF ConnectEnable, DisconnectDisable, Disconnect, Answers
  <2> QED BY <1>3, <1>a, <2>1, RpcTypes DEF TypeOK
<1>4. CASE ConnectRestart
  <2>1. rpc' = "idle" /\ (RestartService \/ UNCHANGED procd)
    BY <1>4 DEF ConnectRestart, Answers
  <2>2. CASE RestartService
    <3>1. leaving' \in BOOLEAN
      BY Zenon, <2>2 DEF RestartService, Leaving, TypeOK
    <3> QED BY <1>4, <2>1, <2>2, <3>1, StartTypes, RpcTypes DEF TypeOK, RestartService
  <2>3. CASE UNCHANGED procd
    BY <1>4, <1>a, <2>1, <2>3, RpcTypes DEF TypeOK
  <2> QED BY <2>1, <2>2, <2>3
<1>5. CASE DisconnectStop
  <2>1. rpc' = "disable" /\ (StopService \/ UNCHANGED procd)
    BY <1>5 DEF DisconnectStop
  <2>2. CASE StopService
    <3>1. leaving' \in BOOLEAN
      BY Zenon, <2>2 DEF StopService, Leaving, TypeOK
    <3>2. inst' = None /\ worker' = "none" /\ fails' \in 0..Retry + 1 /\ others' \in 0..Retry + 1
      BY <2>2 DEF StopService, Fresh, Retry
    <3> QED BY <1>5, <2>1, <3>1, <3>2, RpcTypes DEF TypeOK
  <2>3. CASE UNCHANGED procd
    BY <1>5, <1>a, <2>1, <2>3, RpcTypes DEF TypeOK
  <2> QED BY <2>1, <2>2, <2>3
<1>6. CASE WorkerUp \/ Respawn \/ Left \/ LinkReturns
  BY <1>6 DEF TypeOK, WorkerUp, Respawn, Left, LinkReturns, uci, watch
<1>7. CASE LinkDrops
  BY <1>7 DEF TypeOK, LinkDrops, Event, uci, watch
<1>8. CASE WorkerFails
  <2>1. PICK fast \in BOOLEAN : Exits(fast)
    BY <1>8 DEF WorkerFails
  <2>2. worker # "none"
    BY <1>8 DEF WorkerFails
  <2> QED BY <1>8, <2>1, <2>2, ExitsCount DEF TypeOK, WorkerFails, uci, watch
<1>9. CASE WorkerCrash
  <2>1. PICK fast \in BOOLEAN : Exits(fast)
    BY <1>9 DEF WorkerCrash
  <2>2. worker # "none"
    BY <1>9 DEF WorkerCrash
  <2> QED BY <1>9, <2>1, <2>2, ExitsCount DEF TypeOK, WorkerCrash, Event, uci, watch
<1>10. CASE Reload
  <2>1. leaving' \in BOOLEAN
    BY Zenon, <1>10 DEF Reload, RestartService, Leaving, TypeOK
  <2> QED BY <1>10, <2>1, StartTypes DEF TypeOK, Reload, RestartService, Event, uci, watch
<1>11. CASE Reboot
  <2>1. /\ inst' \in Profile \cup {None} /\ worker' \in {"none", "starting"}
        /\ inst' = None <=> worker' = "none"
        /\ fails' \in 0..Retry + 1 /\ others' \in 0..Retry + 1
    BY <1>11, StartTypes DEF Reboot, Fresh, Retry
  <2>2. leaving' \in BOOLEAN /\ ready' \in BOOLEAN
    BY Zenon, <1>11 DEF Reboot
  <2> QED BY <1>11, <2>1, <2>2 DEF TypeOK, Reboot, Event, uci, watch
<1>12. CASE RouterChanges
  <2>1. ready' \in BOOLEAN
    BY Zenon, <1>12 DEF RouterChanges, TypeOK
  <2> QED BY <1>12, <1>a, <2>1 DEF TypeOK, RouterChanges, uci, watch
<1>13. CASE UNCHANGED vars
  BY <1>13 DEF TypeOK, vars
<1> QED BY <1>1, <1>2, <1>3, <1>4, <1>5, <1>6, <1>7, <1>8, <1>9, <1>10, <1>11, <1>12, <1>13
        DEF Next, Rpcd, System

\* What a call under way has established, and what the last one left: unless a
\* step has slipped, the selection it asked for is committed, and the init
\* script enabled to match.
AskedInv ==
    /\ TypeOK
    /\ ~slipped =>
        /\ rpc \in {"enable", "restart"} => enabled /\ profile # None
        /\ rpc = "restart" => rc
        /\ rpc \in {"stop", "disable"} => ~enabled
        /\ rpc = "disable" => inst = None
    /\ rpc # "idle" => asked = Unknown
    /\ asked # Unknown => /\ inst = asked
                          /\ IF asked = None THEN ~enabled ELSE enabled /\ profile = asked /\ rc

\* Every step keeps it.
LEMMA AskedStep == AskedInv /\ [Next]_vars => AskedInv'
<1> SUFFICES ASSUME AskedInv, [Next]_vars PROVE AskedInv'
  OBVIOUS
<1>0. TypeOK /\ TypeOK'
  BY TypeStep DEF AskedInv
<1>1. ASSUME NEW p \in Profile, Connect(p) PROVE AskedInv'
  BY <1>0, <1>1, ServiceAssumption DEF AskedInv, Connect, Slips, procd, uci
<1>2. ASSUME NEW p \in Profile \cup {None}, NEW e \in BOOLEAN, SetConfig(p, e) PROVE AskedInv'
  <2>1. /\ asked' = Unknown /\ rpc = "idle" /\ rpc' = "idle"
    BY <1>2 DEF SetConfig
  <2> QED BY <1>0, <2>1 DEF AskedInv
<1>3. CASE Disconnect
  BY <1>0, <1>3 DEF AskedInv, Disconnect, Slips, procd
<1>4. CASE ConnectEnable
  BY <1>0, <1>4 DEF AskedInv, ConnectEnable, Works, Slips, procd, uci
<1>5. CASE DisconnectDisable
  BY <1>0, <1>5 DEF AskedInv, DisconnectDisable, Works, Slips, Answers, procd, uci
<1>6. CASE ConnectRestart
  <2>1. CASE slipped'
    BY <1>0, <1>6, <2>1 DEF AskedInv, ConnectRestart, Answers
  <2>2. CASE ~slipped'
    <3>1. StartService /\ ~slipped /\ UNCHANGED <<enabled, profile, rc>> /\ rpc' = "idle"
      BY <1>6, <2>2 DEF ConnectRestart, Works, Slips, RestartService, Answers, uci
    <3>2. asked' = profile /\ inst' = profile /\ enabled /\ profile # None /\ rc
      BY <1>0, <1>6, <2>2, <3>1, StartTypes DEF AskedInv, ConnectRestart, Answers
    <3> QED BY <1>0, <3>1, <3>2 DEF AskedInv
  <2> QED BY <2>1, <2>2
<1>7. CASE DisconnectStop
  BY <1>0, <1>7 DEF AskedInv, DisconnectStop, Works, Slips, StopService, uci, procd
<1>8. CASE UNCHANGED <<enabled, profile, rc, rpc, inst, asked, slipped>>
  BY <1>0, <1>8 DEF AskedInv
<1>9. CASE WorkerUp \/ WorkerFails \/ Respawn \/ Left \/ RouterChanges
  BY <1>8, <1>9 DEF WorkerUp, WorkerFails, Respawn, Left, RouterChanges, uci, watch, procd
<1>10. CASE WorkerCrash \/ LinkDrops \/ LinkReturns
  BY <1>8, <1>10 DEF WorkerCrash, LinkDrops, LinkReturns, uci, watch
<1>11. CASE Reload
  BY <1>0, <1>11, StartTypes DEF AskedInv, Reload, RestartService, uci, watch
<1>12. CASE Reboot
  BY <1>0, <1>12, StartTypes DEF AskedInv, Reboot, uci, watch
<1>13. CASE UNCHANGED vars
  BY <1>8, <1>13 DEF vars
<1> QED BY <1>1, <1>2, <1>3, <1>4, <1>5, <1>6, <1>7, <1>9, <1>10, <1>11, <1>12, <1>13
        DEF Next, Rpcd, System

\* It holds initially.
LEMMA AskedInit == Init => AskedInv
<1> SUFFICES ASSUME Init PROVE AskedInv
  OBVIOUS
<1>1. /\ enabled \in BOOLEAN /\ rc \in BOOLEAN /\ leaving \in BOOLEAN
      /\ ready \in BOOLEAN /\ slipped \in BOOLEAN
  BY Zenon DEF Init
<1>2. fails \in 0..Retry + 1 /\ others \in 0..Retry + 1 /\ events \in 0..Events
  BY ServiceAssumption DEF Init, Retry
<1> QED BY Zenon, <1>1, <1>2 DEF Init, AskedInv, TypeOK

\* The selection, procd's instance and the worker's process keep their types;
\* in particular there is a process exactly when there is an instance.
THEOREM TypeCorrect == Spec => []TypeOK
<1>1. AskedInv => TypeOK
  BY DEF AskedInv
<1> QED BY <1>1, AskedInit, AskedStep, PTL DEF Spec

\* Whatever reloads, crashes, settings changes and reboots come in between,
\* procd's instance is what the last completed call asked for, if none of its
\* steps failed.
THEOREM CallsHeeded == Spec => []AsAsked
<1>1. AskedInv => AsAsked
  BY DEF AskedInv, AsAsked
<1> QED BY <1>1, AskedInit, AskedStep, PTL DEF Spec

(***************************************************************************)
(* The retries.                                                            *)
(***************************************************************************)

\* What an old worker has taken of a good profile's retries: a worker that is up
\* has no predecessor any more, so only the first two attempts can meet one, and
\* every later failure has another cause.
BudgetInv ==
    /\ TypeOK
    /\ worker \in {"up", "stalled"} => ~leaving
    /\ inst \in Good =>
        /\ leaving => /\ worker = "starting" => fails <= 1
                      /\ worker = "exited" => fails <= 2
                      /\ worker # "abandoned"
        /\ fails <= others + 2
        /\ worker = "abandoned" => fails = Retry + 1

\* Every step keeps it.
LEMMA BudgetStep == BudgetInv /\ [Next]_vars => BudgetInv'
<1> SUFFICES ASSUME BudgetInv, [Next]_vars PROVE BudgetInv'
  OBVIOUS
<1>0. /\ TypeOK /\ TypeOK'
      /\ fails \in Nat /\ fails' \in Nat /\ others \in Nat /\ others' \in Nat
  BY TypeStep DEF BudgetInv, TypeOK
<1>1. CASE UNCHANGED procd
  BY <1>0, <1>1 DEF BudgetInv, procd
<1>2. ASSUME fails' = 0, others' = 0, worker' \in {"none", "starting"} PROVE BudgetInv'
  <2>1. 0 <= 1 /\ 0 <= 0 + 2
    OBVIOUS
  <2> QED BY Zenon, <1>0, <1>2, <2>1 DEF BudgetInv
<1>3. CASE ConnectEnable \/ DisconnectDisable \/ Disconnect \/ RouterChanges
  BY <1>1, <1>3 DEF ConnectEnable, DisconnectDisable, Disconnect, RouterChanges
<1>4. ASSUME NEW p \in Profile, Connect(p) PROVE BudgetInv'
  BY <1>1, <1>4 DEF Connect
<1>5. ASSUME NEW p \in Profile \cup {None}, NEW e \in BOOLEAN, SetConfig(p, e) PROVE BudgetInv'
  BY <1>1, <1>5 DEF SetConfig
<1>6. CASE ConnectRestart \/ Reload \/ DisconnectStop
  <2>1. UNCHANGED procd \/ (fails' = 0 /\ others' = 0 /\ worker' \in {"none", "starting"})
    BY <1>6 DEF ConnectRestart, Reload, DisconnectStop, RestartService, StartService,
                StopService, Fresh
  <2> QED BY <1>1, <1>2, <2>1
<1>7. CASE Reboot
  BY <1>2, <1>7 DEF Reboot, StartService, Fresh
<1>8. CASE WorkerUp
  BY <1>0, <1>8 DEF BudgetInv, WorkerUp
<1>9. CASE WorkerFails
  <2>1. PICK fast \in BOOLEAN : Exits(fast)
    BY <1>9 DEF WorkerFails
  <2>2. worker = "starting" /\ UNCHANGED <<inst, leaving>>
    BY <1>9 DEF WorkerFails
  <2>3. CASE leaving /\ inst \in Good
    <3>1. fails <= 1 /\ fails <= others + 2
      BY <2>2, <2>3 DEF BudgetInv
    <3>a. /\ fails' <= fails + 1 /\ worker' \in {"exited", "abandoned"}
          /\ worker' = "abandoned" => fails' = Retry + 1
      BY <1>0, <2>1, ExitsCount
    <3>2. fails' <= 2 /\ fails' <= others' + 2
      <4>1. \A f, g, o \in Nat : f <= 1 /\ g <= f + 1 => g <= 2 /\ g <= o + 2
        OBVIOUS
      <4> QED BY <1>0, <3>1, <3>a, <4>1
    <3>3. worker' = "exited"
      BY <3>2, <3>a DEF Retry
    <3> QED BY <1>0, <2>2, <2>3, <3>2, <3>3 DEF BudgetInv
  <2>4. CASE ~leaving /\ inst \in Good
    <3>1. fails <= others + 2
      BY <2>4 DEF BudgetInv
    <3>2. fails' <= others' + 2 /\ (worker' = "abandoned" => fails' = Retry + 1)
      BY <1>0, <2>1, <2>4, <3>1, ExitsCount
    <3>3. worker' \in {"exited", "abandoned"}
      BY <1>0, <2>1, ExitsCount
    <3> QED BY <1>0, <2>2, <2>4, <3>2, <3>3 DEF BudgetInv
  <2>5. CASE inst \notin Good
    BY <1>0, <2>1, <2>2, <2>5, ExitsCount DEF BudgetInv
  <2> QED BY <2>3, <2>4, <2>5
<1>10. CASE WorkerCrash
  <2>1. PICK fast \in BOOLEAN : Exits(fast)
    BY <1>10 DEF WorkerCrash
  <2>2. ~leaving /\ UNCHANGED <<inst, leaving>>
    BY <1>10 DEF WorkerCrash, BudgetInv
  <2>3. inst \in Good => fails' <= others' + 2
    BY <1>0, <2>1, <2>2, ExitsCount DEF BudgetInv
  <2>4. worker' \in {"exited", "abandoned"} /\ (worker' = "abandoned" => fails' = Retry + 1)
    BY <1>0, <2>1, ExitsCount
  <2> QED BY <1>0, <2>2, <2>3, <2>4 DEF BudgetInv
<1>11. CASE Respawn \/ Left \/ LinkReturns
  <2>1. CASE Respawn
    BY <1>0, <2>1 DEF BudgetInv, Respawn
  <2>2. CASE Left
    BY <1>0, <2>2 DEF BudgetInv, Left
  <2>3. CASE LinkReturns
    BY <1>0, <2>3 DEF BudgetInv, LinkReturns
  <2> QED BY <1>11, <2>1, <2>2, <2>3
<1>12. CASE LinkDrops
  BY <1>0, <1>12 DEF BudgetInv, LinkDrops
<1>13. CASE UNCHANGED vars
  BY <1>1, <1>13 DEF vars, procd
<1> QED BY <1>3, <1>4, <1>5, <1>6, <1>7, <1>8, <1>9, <1>10, <1>11, <1>12, <1>13
        DEF Next, Rpcd, System

\* However the restarts, reboots, crashes, settings changes and the router's
\* own ups and downs fall, the old worker alone never makes procd give up on a
\* good profile.
THEOREM RetriesSuffice == Spec => []GoodSurvives
<1>1. Init => BudgetInv
  <2> SUFFICES ASSUME Init PROVE BudgetInv
    OBVIOUS
  <2>1. TypeOK
    BY AskedInit DEF AskedInv
  <2> QED BY <2>1, ServiceAssumption DEF Init, BudgetInv
<1>2. BudgetInv => GoodSurvives
  BY DEF BudgetInv, GoodSurvives, TypeOK, Retry
<1> QED BY <1>1, <1>2, BudgetStep, PTL DEF Spec
=============================================================================
