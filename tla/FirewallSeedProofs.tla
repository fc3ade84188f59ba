------------------------- MODULE FirewallSeedProofs -------------------------
(***************************************************************************)
(* Proofs about FirewallSeed: until what a failed run left is taken up,    *)
(* the script does what Seeding promises, wherever commands fail and the   *)
(* power goes, and however often.                                          *)
(***************************************************************************)
EXTENDS FirewallSeed, SequenceTheorems, TLAPS

\* What the proofs use of Additions.
LEMMA AdditionsFacts ==
    /\ Additions \in Config
    /\ \A p \in Package : /\ Additions[p] # << >>
                          /\ Marker[p] \in ToSet(Additions[p])
<1>1. Additions["network"] \in Seq(ToSet(Additions["network"]))
  BY DEF Additions, ToSet
<1>2. Additions["firewall"] \in Seq(ToSet(Additions["firewall"]))
  BY DEF Additions, ToSet
<1>3. Additions \in [Package -> {Additions["network"], Additions["firewall"]}]
  BY DEF Additions, Package
<1>4. \A p \in Package : ToSet(Additions[p]) \subseteq Setting
  BY DEF Setting
<1>5. \A p \in Package : Additions[p] \in Seq(Setting)
  BY <1>1, <1>2, <1>4 DEF Package
<1>6. Additions["network"] # << >> /\ Additions["network"][1] = "interface"
      /\ 1 \in DOMAIN Additions["network"]
  BY DEF Additions
<1>7. Additions["firewall"] # << >> /\ Additions["firewall"][2] = "name"
      /\ 2 \in DOMAIN Additions["firewall"]
  BY DEF Additions
<1>8. Marker["network"] \in ToSet(Additions["network"])
  BY <1>6 DEF Marker, ToSet
<1>9. Marker["firewall"] \in ToSet(Additions["firewall"])
  BY <1>7 DEF Marker, ToSet
<1> QED BY <1>3, <1>5, <1>6, <1>7, <1>8, <1>9 DEF Config, Package

\* One more setting of a package.
LEMMA OneMore ==
    ASSUME NEW s \in Seq(Setting), NEW n \in 1..Len(s)
    PROVE  Append(SubSeq(s, 1, n - 1), s[n]) = SubSeq(s, 1, n)
<1> DEFINE a == Append(SubSeq(s, 1, n - 1), s[n])
           b == SubSeq(s, 1, n)
<1>1. a \in Seq(Setting) /\ b \in Seq(Setting) /\ Len(a) = n /\ Len(b) = n
  OBVIOUS
<1>2. \A j \in 1..n : a[j] = b[j]
  OBVIOUS
<1> QED BY <1>1, <1>2, SeqEqual

(***************************************************************************)
(* Types.                                                                  *)
(***************************************************************************)

\* Init and every step give the variables their types.
LEMMA TypeInit == Init => SeedTypeOK
<1> USE SeedAssumption, AdditionsFacts
<1> SUFFICES ASSUME Init PROVE SeedTypeOK
  OBVIOUS
<1>1. Empty \in Config /\ [Additions EXCEPT !["firewall"] = << >>] \in Config
  <2>1. << >> \in Seq(Setting)
    OBVIOUS
  <2> QED BY <2>1 DEF Empty, Config
<1>2. disk \in Config /\ seen \in Config
  BY <1>1 DEF Init
<1>3. pkg \in Package /\ k \in 1..(Len(Additions[pkg]) + 1)
  BY DEF Init, Package, Config
<1>4. troubles \in 0..MaxTroubles
  BY DEF Init
<1>5. script \in BOOLEAN /\ taken \in BOOLEAN /\ by \in {"install", "boot"}
      /\ pc \in {"off", "idle", "look", "set", "reload", "exit", "ran"}
  BY DEF Init
<1> QED BY <1>2, <1>3, <1>4, <1>5 DEF SeedTypeOK

LEMMA TypeStep == SeedTypeOK /\ [Next]_vars => SeedTypeOK'
<1> USE SeedAssumption, AdditionsFacts
<1> SUFFICES ASSUME SeedTypeOK, [Next]_vars PROVE SeedTypeOK'
  OBVIOUS
<1> USE DEF SeedTypeOK
<1>0. \A p \in Package : Len(Additions[p]) \in Nat
  BY DEF Config
<1>1. CASE Look
  BY <1>1, <1>0 DEF Look, Onward, Package
<1>2. CASE Set
  <2>1. Additions[pkg][k] \in Setting
    BY <1>2 DEF Set, Config
  <2>2. seen' \in Config
    BY <1>2, <2>1 DEF Set, Config
  <2> QED BY <1>2, <1>0, <2>2 DEF Set
<1>3. CASE Commit
  <2>1. disk' \in Config
    BY <1>3 DEF Commit, Config
  <2> QED BY <1>3, <1>0, <2>1 DEF Commit, Onward, Package
<1>4. CASE Fail
  BY <1>4 DEF Fail, Ended
<1>5. CASE Reload \/ Exit \/ BootCommit \/ Reboot
  BY <1>5 DEF Reload, Exit, Ended, BootCommit, TakesUp, Reboot, Down
<1>6. CASE Boot \/ Install
  <2>1. 1 \in 1..(Len(Additions["network"]) + 1)
    BY <1>0 DEF Package
  <2>2. CASE Boot /\ script
    BY <2>1, <2>2 DEF Boot, Start, Package
  <2>3. CASE Boot /\ ~script
    BY <2>3 DEF Boot
  <2>4. CASE Install
    BY <2>1, <2>4 DEF Install, TakesUp, Start, Package
  <2> QED BY <1>6, <2>2, <2>3, <2>4
<1>7. CASE PowerCut
  BY <1>7 DEF PowerCut, Down
<1>8. CASE UNCHANGED vars
  BY <1>8 DEF vars
<1> QED BY <1>1, <1>2, <1>3, <1>4, <1>5, <1>6, <1>7, <1>8 DEF Next, Script

\* The script, uci's two views and the bound keep their types.
THEOREM TypeCorrect == Spec => []SeedTypeOK
BY TypeInit, TypeStep, PTL DEF Spec

(***************************************************************************)
(* The invariant, while nothing left behind has been taken up.  In the     *)
(* middle of a package uci shows the settings so far, and the disk has     *)
(* none of them; elsewhere, but after a failed run, uci shows what is on   *)
(* disk.                                                                   *)
(***************************************************************************)

SoFar == [disk EXCEPT ![pkg] = SubSeq(Additions[pkg], 1, k - 1)]

Clean ==
    /\ \A p \in Package : disk[p] \in {<< >>, Additions[p]}
    /\ ~script => disk = Additions
    /\ pc \in {"look", "set", "reload", "exit"} => script = TRUE
    /\ pc \in {"look", "reload", "exit", "off"} => seen = disk
    /\ seen # disk => script = TRUE /\ disk # Additions
    /\ pc = "set" => disk[pkg] = << >> /\ seen = SoFar
    /\ pc \in {"look", "set"} /\ pkg = "firewall" => disk["network"] = Additions["network"]
    /\ pc \in {"reload", "exit"} => disk = Additions

SeedInv == SeedTypeOK /\ (~taken => Clean)

\* The marker tells a package that has its part from one that has nothing.
LEMMA Looked ==
    ASSUME NEW p \in Package
    PROVE  /\ seen[p] = << >> => ~Present(p)
           /\ seen[p] = Additions[p] => Present(p)
BY AdditionsFacts DEF Present, ToSet

LEMMA InvInit == Init => SeedInv
<1> SUFFICES ASSUME Init PROVE SeedInv
  OBVIOUS
<1>1. SeedTypeOK
  BY TypeInit
<1>2. \A p \in Package : disk[p] \in {<< >>, Additions[p]}
  BY AdditionsFacts DEF Init, Empty, Config
<1> QED BY <1>1, <1>2 DEF Init, SeedInv, Clean

LEMMA InvStep == SeedInv /\ [Next]_vars => SeedInv'
<1> SUFFICES ASSUME SeedInv, [Next]_vars PROVE SeedInv'
  OBVIOUS
<1>0. SeedTypeOK /\ SeedTypeOK'
  BY TypeStep DEF SeedInv
<1>b. ~taken' => ~taken
  BY <1>0 DEF Next, Script, vars, Look, Set, Commit, Fail, Reload, Exit, Boot, BootCommit,
              Install, TakesUp, PowerCut, Reboot, Down, SeedTypeOK
<1> SUFFICES ASSUME ~taken' PROVE Clean'
  BY <1>0 DEF SeedInv
<1>c. ~taken /\ Clean
  BY <1>b DEF SeedInv
<1> USE DEF Clean
<1>a. /\ pkg \in Package /\ disk \in Config /\ seen \in Config /\ Additions \in Config
      /\ k \in 1..(Len(Additions[pkg]) + 1)
  BY <1>0, AdditionsFacts DEF SeedTypeOK
<1>d. \A p \in Package : Additions[p] # << >>
  BY AdditionsFacts
<1> USE <1>c
<1>1. CASE Look
  <2>1. CASE Present(pkg)
    <3>1. disk[pkg] = Additions[pkg]
      BY <1>1, <2>1, <1>a, Looked DEF Look
    <3>2. pkg = "firewall" => disk = Additions
      BY <3>1, <1>1, <1>a DEF Look, Config, Package
    <3> QED BY <1>0, <1>1, <2>1, <3>1, <3>2, <1>a DEF Look, Onward, Package
  <2>2. CASE ~Present(pkg)
    <3>1. disk[pkg] = << >>
      BY <1>1, <2>2, <1>a, Looked DEF Look
    <3>2. SubSeq(Additions[pkg], 1, 0) = << >>
      BY <1>a DEF Config
    <3>3. SoFar' = disk
      BY <1>1, <2>2, <3>1, <3>2, <1>a DEF Look, SoFar, Config
    <3> QED BY <1>0, <1>1, <2>2, <3>1, <3>3 DEF Look
  <2> QED BY <2>1, <2>2
<1>2. CASE Set
  <2>1. seen' = [disk EXCEPT ![pkg] = Append(SubSeq(Additions[pkg], 1, k - 1), Additions[pkg][k])]
    BY <1>2, <1>a DEF Set, SoFar, Config
  <2>2. Append(SubSeq(Additions[pkg], 1, k - 1), Additions[pkg][k]) = SubSeq(Additions[pkg], 1, k)
    BY <1>2, <1>a, OneMore DEF Set, Config
  <2>3. seen' = SoFar'
    <3>1. k' - 1 = k /\ pkg' = pkg /\ disk' = disk
      BY <1>2, <1>a DEF Set
    <3> QED BY <2>1, <2>2, <3>1 DEF SoFar
  <2> QED BY <1>2, <2>3, <1>a, <1>d DEF Set
<1>3. CASE Commit
  <2>1. SubSeq(Additions[pkg], 1, k - 1) = Additions[pkg]
    BY <1>3, <1>a DEF Commit, Config
  <2>2. disk' = [disk EXCEPT ![pkg] = Additions[pkg]] /\ seen' = disk'
    BY <1>3, <2>1, <1>a DEF Commit, SoFar, Config
  <2>3. pkg = "firewall" => disk' = Additions
    BY <1>3, <2>2, <1>a DEF Commit, Config, Package
  <2>4. pkg = "network" => disk'["network"] = Additions["network"]
    BY <2>2, <1>a DEF Config, Package
  <2>5. \A p \in Package : disk'[p] \in {<< >>, Additions[p]}
    BY <2>2, <1>a DEF Config
  <2> QED BY <1>0, <1>3, <2>2, <2>3, <2>4, <2>5, <1>a DEF Commit, Onward, Package
<1>4. CASE Fail
  <2>1. disk # Additions
    BY <1>4, <1>a, <1>d DEF Fail
  <2> QED BY <1>4, <2>1 DEF Fail, Ended
<1>5. CASE Reload
  BY <1>0, <1>5 DEF Reload
<1>6. CASE Exit
  BY <1>0, <1>6 DEF Exit, Ended
<1>7. CASE Boot
  BY <1>0, <1>7 DEF Boot, Start
<1>8. CASE Install
  <2>1. seen = disk
    BY <1>8, <1>0 DEF Install, TakesUp, SeedTypeOK
  <2> QED BY <1>8, <2>1 DEF Install, Start
<1>9. CASE BootCommit
  <2>1. seen = disk
    BY <1>9, <1>0 DEF BootCommit, TakesUp, SeedTypeOK
  <2> QED BY <1>9, <2>1 DEF BootCommit
<1>10. CASE PowerCut \/ Reboot
  BY <1>0, <1>10 DEF PowerCut, Reboot, Down
<1>11. CASE UNCHANGED vars
  BY <1>0, <1>11 DEF vars, SoFar
<1> QED
  BY <1>1, <1>2, <1>3, <1>4, <1>5, <1>6, <1>7, <1>8, <1>9, <1>10, <1>11 DEF Next, Script

LEMMA InvCorrect == Spec => []SeedInv
BY InvInit, InvStep, PTL DEF Spec

\* Whatever commands fail, at boot or at installation, and however often the
\* script is run again: unless what a failed run left has been taken up, the
\* script is not removed with a part of its additions missing.
THEOREM SeedSafe == Spec => []MissingOnlyIfTaken
<1>1. SeedInv => MissingOnlyIfTaken
  BY DEF SeedInv, Clean, MissingOnlyIfTaken, SeedTypeOK
<1> QED BY <1>1, InvCorrect, PTL

(***************************************************************************)
(* Refinement.                                                             *)
(***************************************************************************)

\* What the abstract seed calls missing.
LEMMA NotAll ==
    ASSUME SeedTypeOK, Clean, disk # Additions
    PROVE  "none" \in {OnDisk("network"), OnDisk("firewall")}
<1>1. PICK p \in Package : disk[p] # Additions[p]
  BY AdditionsFacts DEF SeedTypeOK, Config
<1>2. OnDisk(p) = "none"
  BY <1>1 DEF Clean, OnDisk
<1> QED BY <1>2 DEF Package

LEMMA MapStep == SeedInv /\ SeedInv' /\ [Next]_vars => [S!Next]_S!seeding
<1> SUFFICES ASSUME SeedInv, SeedInv', [Next]_vars PROVE [S!Next]_S!seeding
  OBVIOUS
<1>a. SeedTypeOK /\ SeedTypeOK'
  BY DEF SeedInv
<1>b. taken \in BOOLEAN /\ taken' \in BOOLEAN /\ script' \in BOOLEAN
  BY <1>a DEF SeedTypeOK
<1>0. pkg \in Package /\ disk \in Config /\ seen \in Config /\ Additions \in Config
  BY <1>a, AdditionsFacts DEF SeedTypeOK
<1>c. {OnDisk("network")', OnDisk("firewall")'} \subseteq {"none", "part", "whole"}
  BY DEF OnDisk
<1>d. CASE taken
  <2>1. taken' = TRUE
    BY <1>b, <1>d DEF Next, Script, vars, Look, Set, Commit, Fail, Reload, Exit, Boot,
                BootCommit, Install, TakesUp, PowerCut, Reboot, Down
  <2>2. S!Spoil
    BY <1>b, <1>c, <1>d, <2>1 DEF S!Spoil
  <2> QED BY <2>2 DEF S!Next
<1>e. CASE ~taken /\ taken'
  <2>1. seen # disk
    BY <1>b, <1>e DEF Next, Script, vars, Look, Set, Commit, Fail, Reload, Exit, Boot,
                BootCommit, Install, TakesUp, PowerCut, Reboot, Down
  <2>2. script = TRUE /\ "none" \in {OnDisk("network"), OnDisk("firewall")}
    BY <1>a, <1>e, <2>1, NotAll DEF SeedInv, Clean
  <2>3. S!Spoil
    BY <1>b, <1>c, <1>e, <2>2 DEF S!Spoil
  <2> QED BY <2>3 DEF S!Next
<1> SUFFICES ASSUME ~taken, taken' = taken PROVE [S!Next]_S!seeding
  BY <1>b, <1>d, <1>e
<1>f. Clean
  BY DEF SeedInv
<1> USE <1>f DEF Clean
<1>1. ASSUME UNCHANGED <<script, disk>> PROVE UNCHANGED S!seeding
  BY <1>1 DEF S!seeding, OnDisk
<1>2. CASE Look \/ Set \/ Fail \/ Reload \/ Boot \/ PowerCut \/ Reboot \/ UNCHANGED vars
  BY <1>1, <1>2 DEF Look, Set, Fail, Reload, Boot, PowerCut, Reboot, Down, vars
<1>3. CASE Commit
  <2>1. SubSeq(Additions[pkg], 1, k - 1) = Additions[pkg]
    BY <1>3, <1>0, <1>a DEF Commit, Config, SeedTypeOK
  <2>2. disk' = [disk EXCEPT ![pkg] = Additions[pkg]] /\ script' = script
    BY <1>3, <2>1, <1>0 DEF Commit, SoFar, Config
  <2>3. /\ OnDisk(pkg) = "none"
        /\ \A p \in Package : Additions[p] # << >>
    BY <1>3, AdditionsFacts DEF Commit, OnDisk
  <2>4. CASE pkg = "network"
    <3>1. S!SeedNet
      BY <1>3, <2>2, <2>3, <2>4, <1>0 DEF Commit, S!SeedNet, OnDisk, Config, Package
    <3> QED BY <3>1 DEF S!Next
  <2>5. CASE pkg = "firewall"
    <3>1. S!SeedFw
      BY <1>3, <2>2, <2>3, <2>5, <1>0 DEF Commit, S!SeedFw, OnDisk, Config, Package
    <3> QED BY <3>1 DEF S!Next
  <2> QED BY <2>4, <2>5, <1>0 DEF Package
<1>4. CASE Exit
  <2>1. S!Forget
    BY <1>4, AdditionsFacts DEF Exit, S!Forget, OnDisk, Package
  <2> QED BY <2>1 DEF S!Next
<1>5. CASE Install
  BY <1>5 DEF Install, S!Next, S!Again, OnDisk
<1>6. CASE BootCommit
  <2>1. seen = disk
    BY <1>6, <1>b DEF BootCommit, TakesUp
  <2> QED BY <1>1, <1>6, <2>1 DEF BootCommit
<1> QED BY <1>2, <1>3, <1>4, <1>5, <1>6 DEF Next, Script

\* Every step of the script and the router is a step of Seeding or none: the
\* parts are put on disk whole, once and in order, until, with one of them still
\* missing, what a failed run left is taken up.
THEOREM SeedsSafely == Spec => S!Safe
<1>1. Init => S!Init
  BY AdditionsFacts DEF Init, S!Init, OnDisk, Empty, Package, Config
<1> QED BY <1>1, InvCorrect, MapStep, PTL DEF Spec, S!Safe
=============================================================================
