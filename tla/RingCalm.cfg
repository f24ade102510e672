SPECIFICATION CalmSpec
CONSTANTS
    Node = {1, 2, 3}
    NoNode = 0
    CreateAt = {1}
    JoinAt = {2, 3}
    LeaveAt = {}
    RingstateAt = {1, 3}
    StopAt = {}
    AgainAt = {}
    Contacts = {1, 2}
    Lossy = FALSE
    MaxInFlight = 2
    Hash <- MCHash
    NameLen <- MCNameLen
    Limit <- MCLimit
    Contact <- MCContact
PROPERTY TwoCalmJoinsFormRing
PROPERTY RingstateEnds
CHECK_DEADLOCK FALSE
