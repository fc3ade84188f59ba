--------------------------- MODULE MCFirewallSeed ---------------------------
(* FirewallSeed for TLC: its constant is a plain value. *)
EXTENDS FirewallSeed
=============================================================================
