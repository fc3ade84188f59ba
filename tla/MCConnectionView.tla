-------------------------- MODULE MCConnectionView --------------------------
(***************************************************************************)
(* ConnectionView with two profiles: home, stored in two revisions that    *)
(* differ in their connections and nodes, and work, once with a password   *)
(* and once without connections.                                           *)
(***************************************************************************)
EXTENDS ConnectionView

CONSTANTS home, work, home1, home2, locked, empty, main, alt, n1, n2

MCProfile == {home, work}
MCBundle == {home1, home2, locked, empty}
MCContents == [p \in MCProfile |-> IF p = home THEN {home1, home2} ELSE {locked, empty}]
MCLocked == {locked}
MCConnection == {main, alt}
MCNode == {n1, n2}
MCConns == [b \in MCBundle |-> CASE b = home1 -> <<main, alt>>
                                 [] b = empty -> << >>
                                 [] OTHER     -> <<main>>]
MCNodes == [bc \in MCBundle \X MCConnection |->
                CASE bc = <<home1, main>>  -> {n1, n2}
                  [] bc = <<home1, alt>>   -> {n2}
                  [] bc = <<home2, main>>  -> {n1}
                  [] bc = <<locked, main>> -> {n2}
                  [] OTHER -> {}]
MCCascades == {<<home1, alt>>}
=============================================================================
