------------------------------- MODULE MCDial -------------------------------
(***************************************************************************)
(* Dial with a user who runs connect on the locked profile, without and    *)
(* with its password, and on a file that has the name of a stored one.     *)
(***************************************************************************)
EXTENDS MCConnectionView, Dial

MCFiles == [p \in MCProfile |-> IF p = home THEN home2 ELSE None]
MCHandRuns ==
    {[asked |-> [profile |-> work, connection |-> None, node |-> None], password |-> "none"],
     [asked |-> [profile |-> work, connection |-> main, node |-> n2], password |-> "wrong"],
     [asked |-> [profile |-> home, connection |-> alt, node |-> None], password |-> "none"]}
=============================================================================
