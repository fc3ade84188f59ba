------------------------------ MODULE Seeding ------------------------------
(***************************************************************************)
(* What a one-shot seed of two configuration packages promises: each is    *)
(* put on disk as a whole, the network before the firewall that names it,  *)
(* once, and the seed is forgotten only when both are there.  While one is *)
(* still missing the seed may be spoiled, by taking up what a failed       *)
(* attempt left; then nothing more is promised.                            *)
(***************************************************************************)

VARIABLES
    script,     \* the seed is still to be run
    net, fw,    \* how much of each package's part is on disk
    spoiled

seeding == <<script, net, fw, spoiled>>

Init == /\ script = TRUE /\ net \in {"none", "whole"} /\ fw \in {"none", "whole"}
        /\ spoiled = FALSE

SeedNet == /\ ~spoiled /\ script /\ net = "none"
           /\ net' = "whole" /\ UNCHANGED <<script, fw, spoiled>>

SeedFw == /\ ~spoiled /\ script /\ net = "whole" /\ fw = "none"
          /\ fw' = "whole" /\ UNCHANGED <<script, net, spoiled>>

Forget == /\ ~spoiled /\ script /\ net = "whole" /\ fw = "whole"
          /\ script' = FALSE /\ UNCHANGED <<net, fw, spoiled>>

\* The package is installed once more.
Again == ~spoiled /\ script' = TRUE /\ UNCHANGED <<net, fw, spoiled>>

\* Not once all is there: nothing is left to be taken up.
Spoil == /\ spoiled \/ (script /\ "none" \in {net, fw})
         /\ spoiled' = TRUE
         /\ script' \in BOOLEAN /\ {net', fw'} \subseteq {"none", "part", "whole"}

Next == SeedNet \/ SeedFw \/ Forget \/ Again \/ Spoil

\* What it may do, and what it must do in the end.
Safe == Init /\ [][Next]_seeding
Spec == Safe /\ WF_seeding(SeedNet) /\ WF_seeding(SeedFw) /\ WF_seeding(Forget)
=============================================================================
