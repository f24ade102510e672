SPECIFICATION CalmSpec
CONSTANTS
    Node = {1, 2, 3}
    NoNode = 0
    CreateAt = {2}
    JoinAt = {1}
    LeaveAt = {1}
    RingstateAt = {}
    StopAt = {}
    AgainAt = {}
    Contacts = {2}
    Lossy = FALSE
    MaxInFlight = 2
    Hash <- MCHash
    NameLen <- MCNameLen
    Limit <- MCLimit
    Contact <- MCContact
PROPERTY LeaversForgotten
CHECK_DEADLOCK FALSE
