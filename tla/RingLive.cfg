SPECIFICATION FairSpec
CONSTANTS
    Node = {1, 2, 3, 4}
    NoNode = 0
    CreateAt = {2}
    JoinAt = {1, 3, 4}
    LeaveAt = {}
    RingstateAt = {3}
    StopAt = {}
    AgainAt = {}
    Contacts = {2}
    Lossy = FALSE
    MaxInFlight = 2
    Hash <- MCHash
    NameLen <- MCNameLen
    Limit <- MCLimit
    Contact <- MCContact
PROPERTY JoinAnswered
CHECK_DEADLOCK FALSE
INVARIANT OneWalkPerCommand
