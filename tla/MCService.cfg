SPECIFICATION Spec
CONSTANTS
    Profile = {p1, p2, bad}
    Good = {p1, p2}
    None = None
    Events = 3
INVARIANTS
    TypeOK
    AsAsked
    GoodSurvives
PROPERTIES
    ConnectComesUp
    BadGivesUp
