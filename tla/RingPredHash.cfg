SPECIFICATION Spec
CONSTANTS
    Node = {1, 2, 3}
    NoNode = 0
    CreateAt = {1}
    JoinAt = {2, 3}
    LeaveAt = {}
    RingstateAt = {}
    StopAt = {}
    AgainAt = {}
    Contacts = {1}
    Lossy = FALSE
    MaxInFlight = 2
    Hash <- MCHash
    NameLen <- MCNameLen
    Limit <- MCLimit
    Contact <- MCContact
INVARIANT PredHashMatches
CHECK_DEADLOCK FALSE
