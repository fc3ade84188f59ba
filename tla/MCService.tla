------------------------------ MODULE MCService ------------------------------
(***************************************************************************)
(* Service with a good profile, another good one, and a bad one.           *)
(***************************************************************************)
EXTENDS Service
=============================================================================
