SPECIFICATION StatusSpec
CONSTANTS
    Worker = {w1, w2}
    Absent = Absent
    Empty = Empty
    Torn = Torn
    Free = Free
    Down = Down
    Asked = Asked
    WriteFails = TRUE
INVARIANTS
    StatusTypeOK
    OneRouter
    PanicHarmless
PROPERTIES
    RecordKept
    RecordHeals
    StopCompletes
    LeaseKept
    UpIsReal
