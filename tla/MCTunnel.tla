------------------------------ MODULE MCTunnel ------------------------------
(***************************************************************************)
(* Tunnel on five addresses.  e and f are server endpoints, s is in a      *)
(* subnet reached through the LAN, l is on the LAN; the low half holds e,  *)
(* s and l, the high half f and h.                                         *)
(***************************************************************************)
EXTENDS Tunnel

CONSTANTS e, f, s, l, h, tun, wan, lan, none, g1, g2

MCAddr == {e, f, s, l, h}
MCLow == {e, s, l}
MCHigh == {f, h}
MCPrefix == {MCAddr, MCLow, MCHigh, {e, s}} \cup {{a} : a \in MCAddr}
MCDev == {tun, wan, lan}
MCGateways == {g1, g2}
MCVia == {none, g1, g2}

LanRoute == [dest |-> {l}, dev |-> lan, via |-> none]
Default(g) == [dest |-> MCAddr, dev |-> wan, via |-> g]

\* A router with an uplink; one whose uplink is not up yet; one that reaches
\* the subnet of e and s by a static route (the test rig of the comments).
Plain == {LanRoute, Default(g1)}
NoUplink == {LanRoute}
Static == Plain \cup {[dest |-> {e, s}, dev |-> lan, via |-> g2]}

MCTables == {Plain, NoUplink, Static}
MCPlain == {Plain}

V4(d) == [v6 |-> FALSE, dest |-> d]
V6(d) == [v6 |-> TRUE, dest |-> d]
Dial(full, allowed, a) ==
    [full |-> full, addressed |-> TRUE, allowed |-> allowed, addr |-> a]

FullSpecs == {Dial(TRUE, << >>, e), Dial(TRUE, <<V4({h})>>, f)}

\* AllowedIPs that are subnets, one that collides with the LAN, IPv6 ones
\* (skipped), and a default of each family among them.
SplitSpecs == {
    Dial(FALSE, <<V4({s}), V6({h}), V4({h})>>, e),
    Dial(FALSE, <<V4({h}), V4({l})>>, f),
    Dial(FALSE, <<V4({h}), V4(MCAddr), V6(MCAddr), V4({s})>>, e) }

MCSpecs == FullSpecs \cup SplitSpecs
MCFull == {Dial(TRUE, << >>, e)}
=============================================================================
