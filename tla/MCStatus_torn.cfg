SPECIFICATION StatusSpec
CONSTANTS
    Worker = {w1, w2}
    Absent = Absent
    Empty = Empty
    Torn = Torn
    Free = Free
    Down = Down
    Asked = Asked
    WriteFails = FALSE
PROPERTY DownIsReal
