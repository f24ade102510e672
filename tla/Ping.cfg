SPECIFICATION FairSpec
CONSTANTS
    Peer = {1, 2}
    Text = {x}
    Timeout = 2
    IdMod = 3
    Nowhere = 0
    MaxElsewhere = 1
INVARIANT TypeOK
INVARIANT AgesBounded
INVARIANT OneVerdict
INVARIANT SearchAfterChord
PROPERTY VerdictComes
PROPERTY ServiceSpec
CHECK_DEADLOCK FALSE
