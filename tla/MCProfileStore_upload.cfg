SPECIFICATION Spec
CONSTANTS
    Client = {c1}
    Name = {n1}
    MaxRev = 1
    File = File
    None = None
    Empty = Empty
    Torn = Torn
    Failures = FALSE
PROPERTY ListedAsStored
