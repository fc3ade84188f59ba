SPECIFICATION Spec
CONSTANTS
    e = e  f = f  s = s  l = l  h = h
    tun = tun  wan = wan  lan = lan
    none = none  g1 = g1  g2 = g2
    Addr <- MCAddr
    Prefix <- MCPrefix
    Dev <- MCDev
    Via <- MCVia
    LowHalf <- MCLow
    HighHalf <- MCHigh
    Tun = tun
    Wan = wan
    NoVia = none
    Gateways <- MCGateways
    HostTables <- MCPlain
    DialSpecs <- MCFull
    WanDowns = TRUE
    WanRenews = TRUE
    DelFails = FALSE
INVARIANT ServerOutside
