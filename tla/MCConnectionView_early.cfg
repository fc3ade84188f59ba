SPECIFICATION Spec
CONSTANTS
    home = home  work = work
    home1 = home1  home2 = home2  locked = locked  empty = empty
    main = main  alt = alt
    n1 = n1  n2 = n2
    Profile <- MCProfile
    Bundle <- MCBundle
    Contents <- MCContents
    Locked <- MCLocked
    Connection <- MCConnection
    Node <- MCNode
    Conns <- MCConns
    Nodes <- MCNodes
    Cascades <- MCCascades
    None = None
    Ordered = TRUE
    Typed = {"none", "right"}
    MaxCalls = 2
    StoreChanges = FALSE
INVARIANT RequestCoherent
