------------------------------ MODULE Service ------------------------------
(***************************************************************************)
(* The client as a service: the uci selection and the LuCI backend's calls *)
(* that change it (setconfig, connect and disconnect of the rpcd object),  *)
(* the init script that turns it into a procd instance, procd's respawning *)
(* (external), and reboots.  rpcd runs one call at a time, each a series   *)
(* of steps; a reboot may fall between any two of them.  The worker is     *)
(* reduced to what the service sees of it: it comes up, or exits.          *)
(***************************************************************************)
EXTENDS Naturals, FiniteSetsExt

CONSTANTS
    Profile,    \* what may be selected
    Good,       \* the profiles a worker can come up with once the router is ready
    None,       \* no profile, or no instance
    Events      \* bound: reboots, reloads, crashes, settings changes, failing steps

ASSUME ServiceAssumption == Good \subseteq Profile /\ None \notin Profile /\ Events \in Nat

VARIABLES
    enabled, profile,   \* the committed uci options
    rc,                 \* the init script is enabled at boot
    rpc,                \* the next step of the rpcd call in progress
    inst,               \* the profile of procd's instance, or None
    worker,             \* the instance's process
    fails,              \* procd's count of fast failures in a row
    leaving,            \* a worker told to stop still holds the device
    ready,              \* the router can carry a tunnel: uplink, DNS, device, routes
    asked,              \* observer: what the last completed call asked for
    slipped,            \* observer: a step of the call in progress has failed
    others,             \* observer: the failures counted that no old worker caused
    events              \* of the bounded kinds, so far

vars == <<enabled, profile, rc, rpc, inst, worker, fails, leaving, ready, asked, slipped,
          others, events>>

\* Mutants of Retry: a single retry; retries without limit.
OneRetry == 1
NoLimit == 0
\* procd_set_param respawn 30 5 5: the failures in a row that are retried.
Retry == 5

\* What a call in progress or cut short, one with a failed step, and a settings
\* change leave undecided.
Unknown == "unknown"

TypeOK ==
    /\ enabled \in BOOLEAN /\ profile \in Profile \cup {None}
    /\ rc \in BOOLEAN
    /\ rpc \in {"idle", "enable", "restart", "stop", "disable"}
    /\ inst \in Profile \cup {None}
    /\ worker \in {"none", "starting", "up", "stalled", "exited", "abandoned"}
    /\ inst = None <=> worker = "none"
    /\ fails \in 0..Retry + 1
    /\ leaving \in BOOLEAN /\ ready \in BOOLEAN /\ slipped \in BOOLEAN
    /\ others \in 0..Retry + 1
    /\ asked \in Profile \cup {None, Unknown}
    /\ events \in 0..Events

Init ==
    /\ enabled = FALSE /\ profile = None /\ rc = FALSE
    /\ rpc = "idle"
    /\ inst = None /\ worker = "none" /\ fails = 0 /\ leaving = FALSE
    /\ ready \in BOOLEAN
    /\ asked = Unknown /\ slipped = FALSE /\ others = 0
    /\ events = 0

uci == <<enabled, profile>>
procd == <<inst, worker, fails, others, leaving>>
watch == <<asked, slipped>>

Event == events < Events /\ events' = events + 1

\* procd starts counting anew.
Fresh == fails' = 0 /\ others' = 0

-----------------------------------------------------------------------------
(* The init script.                                                        *)

\* Mutant of StartService: the check for a profile is dropped.
StartAnything ==
    /\ Fresh
    /\ IF enabled THEN inst' = profile /\ worker' = "starting"
                  ELSE inst' = None /\ worker' = "none"

\* start_service: nothing unless enabled and a profile is selected.
StartService ==
    /\ Fresh
    /\ IF enabled /\ profile # None THEN inst' = profile /\ worker' = "starting"
                                    ELSE inst' = None /\ worker' = "none"

\* procd's stop: the instance is deleted and its process sent SIGTERM.
Leaving == leaving' = (leaving \/ worker \in {"starting", "up", "stalled"})

StopService ==
    /\ inst' = None /\ worker' = "none" /\ Fresh
    /\ Leaving

\* restart and reload of rc.common: stop, then start, without waiting.
RestartService == StartService /\ Leaving

-----------------------------------------------------------------------------
(* The rpcd calls.  None looks at whether a commit or a command of the init *)
(* script has worked: a step that fails changes nothing, the next is taken,*)
(* and the answer is ok.                                                   *)

Works == UNCHANGED <<slipped, events>>
Slips == Event /\ slipped' = TRUE

\* A call is done.
Answers(p) == rpc' = "idle" /\ asked' = IF slipped' THEN Unknown ELSE p

\* connect: the selection is committed with enabled = 1 ...
Connect(p) ==
    /\ rpc = "idle"
    /\ \/ enabled' = TRUE /\ profile' = p /\ slipped' = FALSE /\ UNCHANGED events
       \/ Slips /\ UNCHANGED uci
    /\ rpc' = "enable" /\ asked' = Unknown
    /\ UNCHANGED <<rc, procd, ready>>

\* ... the script is enabled at boot ...
ConnectEnable ==
    /\ rpc = "enable"
    /\ (Works /\ rc' = TRUE) \/ (Slips /\ UNCHANGED rc)
    /\ rpc' = "restart"
    /\ UNCHANGED <<uci, procd, ready, asked>>

\* Mutant of ConnectRestart: the service is started, not restarted.
ConnectStart ==
    /\ rpc = "restart" /\ Works /\ Answers(profile)
    /\ IF inst = None THEN RestartService ELSE UNCHANGED procd
    /\ UNCHANGED <<uci, rc, ready>>

\* ... and restarted.
ConnectRestart ==
    /\ rpc = "restart"
    /\ (Works /\ RestartService) \/ (Slips /\ UNCHANGED procd)
    /\ Answers(profile)
    /\ UNCHANGED <<uci, rc, ready>>

\* disconnect: enabled = 0 is committed ...
Disconnect ==
    /\ rpc = "idle"
    /\ \/ enabled' = FALSE /\ slipped' = FALSE /\ UNCHANGED events
       \/ Slips /\ UNCHANGED enabled
    /\ rpc' = "stop" /\ asked' = Unknown
    /\ UNCHANGED <<profile, rc, procd, ready>>

\* ... the service stopped ...
DisconnectStop ==
    /\ rpc = "stop"
    /\ (Works /\ StopService) \/ (Slips /\ UNCHANGED procd)
    /\ rpc' = "disable"
    /\ UNCHANGED <<uci, rc, ready, asked>>

\* ... and no longer started at boot.
DisconnectDisable ==
    /\ rpc = "disable"
    /\ (Works /\ rc' = FALSE) \/ (Slips /\ UNCHANGED rc)
    /\ Answers(None)
    /\ UNCHANGED <<uci, procd, ready>>

\* setconfig: the selection is committed and nothing is started.
SetConfig(p, e) ==
    /\ rpc = "idle" /\ Event
    /\ profile' = p /\ enabled' = e
    /\ asked' = Unknown
    /\ UNCHANGED <<rc, rpc, procd, ready, slipped>>

-----------------------------------------------------------------------------
(* procd and the worker.                                                   *)

\* The uplink and its name server come and go, as do the routes and the runs
\* by hand that are in the worker's way.
RouterChanges ==
    /\ ready' = ~ready
    /\ UNCHANGED <<uci, rc, rpc, procd, watch, events>>

\* The worker has the device and the router, and its profile lets it connect.
WorkerUp ==
    /\ worker = "starting" /\ inst \in Good /\ ~leaving /\ ready
    /\ worker' = "up"
    /\ UNCHANGED <<uci, rc, rpc, inst, fails, others, leaving, ready, watch, events>>

\* One more failure, and the limit the count stops at: beyond it, it tells
\* nothing.
More(n) == Min({n, Retry}) + 1

\* The process ends; procd counts the failures within 30s of a start, and
\* gives up after the last retry.  A limit of 0 is none.
Exits(fast) ==
    /\ fails' = IF fast THEN More(fails) ELSE 0
    /\ others' = IF ~fast THEN 0 ELSE IF leaving THEN others ELSE More(others)
    /\ worker' = IF Retry > 0 /\ fails' > Retry THEN "abandoned" ELSE "exited"

\* At once, when the profile is no good or the old worker still has the device;
\* otherwise when the router is not ready, which a resolver may take its time
\* to find out.
WorkerFails ==
    /\ worker = "starting"
    /\ \/ (leaving \/ inst \notin Good) /\ Exits(TRUE)
       \/ ~leaving /\ inst \in Good /\ ~ready /\ \E fast \in BOOLEAN : Exits(fast)
    /\ UNCHANGED <<uci, rc, rpc, inst, leaving, ready, watch, events>>

\* A panic or a kill, within 30s of the start or later.
WorkerCrash ==
    /\ worker \in {"up", "stalled"} /\ Event
    /\ \E fast \in BOOLEAN : Exits(fast)
    /\ UNCHANGED <<uci, rc, rpc, inst, leaving, ready, watch>>

\* Mutant of Respawn: no delay, so the old worker may still be there each time.
RespawnAtOnce ==
    /\ worker = "exited" /\ worker' = "starting"
    /\ UNCHANGED <<uci, rc, rpc, inst, fails, others, leaving, ready, watch, events>>

\* procd starts the process again 5s later.  A stopped worker gets SIGKILL 5s
\* after SIGTERM, so it is gone when the second respawn is due.
Respawn ==
    /\ worker = "exited" /\ (leaving => fails <= 1)
    /\ worker' = "starting"
    /\ UNCHANGED <<uci, rc, rpc, inst, fails, others, leaving, ready, watch, events>>

\* A worker told to stop has closed its device.
Left ==
    /\ leaving /\ leaving' = FALSE
    /\ UNCHANGED <<uci, rc, rpc, inst, worker, fails, others, ready, watch, events>>

\* The server stops answering, or answers again.  The worker waits for a
\* signal in both cases.
LinkDrops ==
    /\ worker = "up" /\ Event
    /\ worker' = "stalled"
    /\ UNCHANGED <<uci, rc, rpc, inst, fails, others, leaving, ready, watch>>

LinkReturns ==
    /\ worker = "stalled"
    /\ worker' = "up"
    /\ UNCHANGED <<uci, rc, rpc, inst, fails, others, leaving, ready, watch, events>>

-----------------------------------------------------------------------------
\* procd's reload trigger fires after a change of the configuration.
Reload ==
    /\ Event
    /\ RestartService
    /\ UNCHANGED <<uci, rc, rpc, ready, watch>>

\* A reboot, or a power cut: uci and rc.d are on flash, the rest is gone.  A
\* call in progress never completes, and the uplink comes when it comes: the
\* script is one of the last to start (START=95), and waits for nothing.
Reboot ==
    /\ Event
    /\ leaving' = FALSE /\ ready' \in BOOLEAN
    /\ IF rc THEN StartService ELSE inst' = None /\ worker' = "none" /\ Fresh
    /\ rpc' = "idle"
    /\ UNCHANGED <<uci, rc, watch>>

Rpcd == ConnectEnable \/ ConnectRestart \/ DisconnectStop \/ DisconnectDisable

System == Left \/ WorkerUp \/ WorkerFails \/ Respawn

Next ==
    \/ Rpcd \/ System
    \/ \E p \in Profile : Connect(p)
    \/ \E p \in Profile \cup {None}, e \in BOOLEAN : SetConfig(p, e)
    \/ Disconnect \/ RouterChanges \/ WorkerCrash \/ LinkDrops \/ LinkReturns \/ Reload \/ Reboot

\* rpcd finishes its calls, processes end or come up, and procd's timer fires.
Fairness == WF_vars(Rpcd) /\ WF_vars(Left) /\ WF_vars(WorkerUp \/ WorkerFails) /\ WF_vars(Respawn)

Spec == Init /\ [][Next]_vars /\ Fairness

-----------------------------------------------------------------------------
(* Properties.                                                             *)

\* Whatever reboots, reloads and crashes follow it, a completed connect none of
\* whose steps failed has its profile as procd's instance, and such a
\* disconnect has none ("so the tunnel comes up and survives reboot", "so it
\* does not come back at boot").
AsAsked == asked # Unknown => inst = asked

\* The worker that a good profile's replaces, which the restart does not wait
\* for and whose device is in its way, never costs it the respawning: of the
\* failures procd has counted when it gives up, at least four have another
\* cause, a crash or a router that was not ready ("respawn 30 5 5").
GoodSurvives == inst \in Good /\ worker = "abandoned" => others >= Retry - 1

\* Unless procd has given up, a connected good profile comes up when the router
\* is ready for long enough, whatever the old worker's device and failures
\* before that have cost of its retries.
ConnectComesUp ==
    \A p \in Good :
        asked = p /\ worker # "abandoned" /\ ready
            ~> worker \in {"up", "stalled"} \/ asked # p \/ ~ready

\* A bad profile is given up on, ready or not ("so a bad/wrong-password profile
\* can't spin forever").
BadGivesUp ==
    \A p \in Profile \ Good : asked = p ~> worker = "abandoned" \/ asked # p
=============================================================================
