SPECIFICATION Spec
CONSTANTS
    Node = {1, 2, 3, 4}
    Link = {1, 2, 3}
    Network <- FourInLine
INVARIANT AllNodesRouted
CHECK_DEADLOCK FALSE
