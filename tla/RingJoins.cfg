SPECIFICATION Spec
CONSTANTS
    Node = {1, 2, 3}
    NoNode = 0
    CreateAt = {1, 2, 3}
    JoinAt = {1, 2, 3}
    LeaveAt = {}
    RingstateAt = {}
    StopAt = {}
    AgainAt = {}
    Contacts = {1, 2, 3}
    Lossy = TRUE
    MaxInFlight = 2
    Hash <- MCHash
    NameLen <- MCNameLen
    Limit <- MCLimit
    Contact <- MCContact
INVARIANT OnlyFounderAlone
INVARIANT TwoJoinsKeepRing
CHECK_DEADLOCK FALSE
