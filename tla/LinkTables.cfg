SPECIFICATION FairSpec
CONSTANTS
    Node = {1, 2, 3}
    Link = {1, 2, 3}
    Network <- SmallNetworks
INVARIANT TypeOK
INVARIANT NeighboursCounted
INVARIANT LspsArePrefixes
INVARIANT RoutesWitnessed
INVARIANT QuietTablesComplete
PROPERTY DiscoveryEnds
CHECK_DEADLOCK FALSE
