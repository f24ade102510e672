SPECIFICATION FairSpec
CONSTANTS
    Node = {1, 2, 3}
    Link = {1, 2}
    Network <- PingNetworks
    Ping <- Pings
    PingTimeout = 2
    SeqMod = 2
INVARIANT TypeOK
INVARIANT OneFate
INVARIANT AnswersMatch
INVARIANT EchoBounded
INVARIANT OnlyNeighboursAnswer
INVARIANT AgesBounded
PROPERTY TrafficEnds
PROPERTY ServiceSpec
CHECK_DEADLOCK FALSE
