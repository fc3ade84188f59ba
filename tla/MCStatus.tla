------------------------------ MODULE MCStatus ------------------------------
(***************************************************************************)
(* Status over the process identifiers the configuration gives.            *)
(***************************************************************************)
EXTENDS Status
=============================================================================
