SPECIFICATION Spec
CONSTANTS
    Node = {1, 2, 3}
    NoNode = 0
    CreateAt = {1}
    JoinAt = {1, 2}
    LeaveAt = {1, 2}
    RingstateAt = {3}
    StopAt = {1}
    AgainAt = {1}
    Contacts = {0, 1, 3}
    Lossy = FALSE
    MaxInFlight = 2
    Hash <- MCHash
    NameLen <- MCNameLen
    Limit <- MCLimit
    Contact <- MCContact
INVARIANT TypeOK
INVARIANT BystandersStayOut
INVARIANT RingNeedsFounder
INVARIANT MyHashIsOwn
INVARIANT AbortHasCause
CHECK_DEADLOCK FALSE
