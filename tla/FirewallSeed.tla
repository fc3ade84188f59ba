---------------------------- MODULE FirewallSeed ----------------------------
(***************************************************************************)
(* The uci-defaults script 99-pharos-firewall, which adds the tunnel's     *)
(* interface, firewall zone and lan->pharos forwarding to the router's     *)
(* configuration.  uci keeps additions pending, in memory, until they are  *)
(* committed.  The script runs when the package is installed and, while it *)
(* is there, at boot; a command may fail and the power may go at any       *)
(* moment.                                                                 *)
(***************************************************************************)
EXTENDS Naturals, SequencesExt

CONSTANTS
    MaxTroubles     \* bound: failed commands and power cuts

ASSUME SeedAssumption == MaxTroubles \in Nat

VARIABLES
    script,     \* the file is in /etc/uci-defaults
    by,         \* who runs it: the package's postinst, or the boot
    pc, pkg, k, \* where it is: the package it is at, the setting it adds next
    seen,       \* what uci shows: the committed settings and the pending ones
    disk,       \* what is committed
    taken,      \* observer: what a failed run had left pending was taken up, by
                \* the boot's commit or by another run
    troubles

vars == <<script, by, pc, pkg, k, seen, disk, taken, troubles>>

Package == {"network", "firewall"}

\* What the script adds to each package, one uci command after the other.
Additions ==
    [network  |-> <<"interface", "proto", "device">>,
     firewall |-> <<"zone", "name", "network", "input", "output", "forward",
                    "masq", "mtu_fix", "forwarding", "src", "dest">>]

\* What tells it that a package has its part.
Marker == [network |-> "interface", firewall |-> "name"]

Setting == UNION {ToSet(Additions[p]) : p \in Package}
Config == [Package -> Seq(Setting)]

SeedTypeOK ==
    /\ script \in BOOLEAN
    /\ by \in {"install", "boot"}
    /\ pc \in {"off", "idle", "look", "set", "reload", "exit", "ran"}
    /\ pkg \in Package /\ k \in 1..(Len(Additions[pkg]) + 1)
    /\ seen \in Config /\ disk \in Config
    /\ taken \in BOOLEAN
    /\ troubles \in 0..MaxTroubles

Empty == [p \in Package |-> << >>]

\* A new image's first boot, or an installation on a running router, which may
\* have kept the configuration of an earlier one.
Init ==
    /\ script = TRUE
    /\ \/ pc = "off" /\ by = "boot"
       \/ pc = "look" /\ by = "install"
    /\ pkg = "network" /\ k = 1
    /\ disk \in {Empty, Additions, [Additions EXCEPT !["firewall"] = << >>]}
    /\ seen = disk
    /\ taken = FALSE
    /\ troubles = 0

-----------------------------------------------------------------------------
(* The script.                                                             *)

\* Past a package: the next one, or the reloads.
Onward == IF pkg = "network" THEN pkg' = "firewall" /\ pc' = "look"
                             ELSE pkg' = pkg /\ pc' = "reload"

\* The script ends: at boot, the rest of the boot follows.
Ended == pc' = IF by = "boot" THEN "ran" ELSE "idle"

Present(p) == Marker[p] \in ToSet(seen[p])

Look ==
    /\ pc = "look"
    /\ IF Present(pkg) THEN Onward ELSE pc' = "set" /\ pkg' = pkg
    /\ k' = 1
    /\ UNCHANGED <<script, by, seen, disk, taken, troubles>>

\* Mutant of Set: the section `uci add` has made is not the one that is set.
SetElsewhere ==
    /\ pc = "set" /\ k <= Len(Additions[pkg])
    /\ seen' = [seen EXCEPT ![pkg] = Append(@, "elsewhere")]
    /\ k' = k + 1
    /\ UNCHANGED <<script, by, pc, pkg, disk, taken, troubles>>

Set ==
    /\ pc = "set" /\ k <= Len(Additions[pkg])
    /\ seen' = [seen EXCEPT ![pkg] = Append(@, Additions[pkg][k])]
    /\ k' = k + 1
    /\ UNCHANGED <<script, by, pc, pkg, disk, taken, troubles>>

Commit ==
    /\ pc = "set" /\ k > Len(Additions[pkg])
    /\ disk' = [disk EXCEPT ![pkg] = seen[pkg]]
    /\ Onward /\ k' = 1
    /\ UNCHANGED <<script, by, seen, taken, troubles>>

\* Mutant of Fail: without `set -e` the script goes on.
FailGoesOn ==
    /\ pc = "set" /\ troubles < MaxTroubles
    /\ Onward /\ k' = 1
    /\ troubles' = troubles + 1
    /\ UNCHANGED <<script, by, seen, disk, taken>>

\* `set -e`: a failed command ends it, and what it added stays pending.
Fail ==
    /\ pc = "set" /\ troubles < MaxTroubles
    /\ Ended
    /\ troubles' = troubles + 1
    /\ UNCHANGED <<script, by, pkg, k, seen, disk, taken>>

\* Mutant of Reload: its failure is the script's.
ReloadStrict ==
    /\ pc = "reload"
    /\ pc' = "exit" \/ Ended
    /\ UNCHANGED <<script, by, pkg, k, seen, disk, taken, troubles>>

\* The reloads' failures are ignored.
Reload ==
    /\ pc = "reload"
    /\ pc' = "exit"
    /\ UNCHANGED <<script, by, pkg, k, seen, disk, taken, troubles>>

\* After a 0 exit whoever ran it removes it.
Exit ==
    /\ pc = "exit"
    /\ script' = FALSE
    /\ Ended
    /\ UNCHANGED <<by, pkg, k, seen, disk, taken, troubles>>

-----------------------------------------------------------------------------
(* The router.                                                             *)

Start == pc' = "look" /\ pkg' = "network" /\ k' = 1

TakesUp == taken' = (taken \/ seen # disk)

\* Power comes back: what was pending is gone.
Boot ==
    /\ pc = "off"
    /\ IF script THEN Start ELSE pc' = "idle" /\ UNCHANGED <<pkg, k>>
    /\ by' = "boot"
    /\ UNCHANGED <<script, seen, disk, taken, troubles>>

\* The boot commits whatever the defaults scripts have left pending.
BootCommit ==
    /\ pc = "ran"
    /\ disk' = seen
    /\ TakesUp
    /\ pc' = "idle"
    /\ UNCHANGED <<script, by, pkg, k, seen, troubles>>

\* The package is installed, or installed again.
Install ==
    /\ pc = "idle"
    /\ script' = TRUE /\ by' = "install"
    /\ Start /\ TakesUp
    /\ UNCHANGED <<seen, disk, troubles>>

Down == pc' = "off" /\ seen' = disk /\ UNCHANGED <<script, by, pkg, k, disk, taken>>

PowerCut == pc # "off" /\ troubles < MaxTroubles /\ Down /\ troubles' = troubles + 1

Reboot == pc = "idle" /\ Down /\ UNCHANGED troubles

Script == Look \/ Set \/ Commit \/ Fail \/ Reload \/ Exit

Next == Script \/ Boot \/ BootCommit \/ Install \/ PowerCut \/ Reboot

\* Started scripts run, boots get to their end, and a router is rebooted some
\* day: nothing else runs a failed script again.
Fairness == WF_vars(Look \/ Set \/ Commit \/ Reload \/ Exit) /\ WF_vars(Boot \/ BootCommit)
            /\ WF_vars(Reboot)

Spec == Init /\ [][Next]_vars /\ Fairness

-----------------------------------------------------------------------------
(* Properties.                                                             *)

\* Once the script is gone nothing is missing from the configuration on disk,
\* nor there twice ("Idempotent -- safe to re-run; only adds what's missing.
\* Removed by procd after a 0 exit").  The code does not keep this.
NothingMissing == ~script => disk = Additions

\* It can fail in one way only: what a failed run had left pending was committed
\* by the boot it failed in, or was there when the script was run again.  No
\* other failure and no power cut, wherever it falls, ends with the script
\* removed and a setting missing or there twice.
MissingOnlyIfTaken == ~script /\ ~taken => disk = Additions

\* How much of a package's part is on disk.
OnDisk(p) == IF disk[p] = << >> THEN "none"
             ELSE IF disk[p] = Additions[p] THEN "whole" ELSE "part"

S == INSTANCE Seeding WITH net <- OnDisk("network"), fw <- OnDisk("firewall"),
                           spoiled <- taken

\* And until that happens, at boot or at installation and whatever commands fail,
\* the script does what a one-shot seed promises: the disk never has half a zone,
\* the zone never comes before its network, and in the end all is there and the
\* script is not ("one-shot (uci-defaults) seed of the fw4 plumbing for client
\* mode").
SeedsOnce == S!Spec
=============================================================================
