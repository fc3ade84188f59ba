SPECIFICATION Spec
CONSTANTS
    Client = {c1, c2, c3}
    Name = {n1}
    MaxRev = 2
    File = File
    None = None
    Empty = Empty
    Torn = Torn
    Failures = TRUE
SYMMETRY Symmetry
INVARIANTS
    TypeOK
    MarkerBacked
    SidecarsAgree
