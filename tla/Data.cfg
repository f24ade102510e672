SPECIFICATION Spec
CONSTANTS
    Base = 17
    Overhead = 28
    Message <- Messages
    Term <- Words
    File <- Files
    MaxTables = 2
INVARIANT SizesAgree
INVARIANT ArrivesAsSent
INVARIANT ReadsWhatIsThere
INVARIANT IndexIsInverted
CHECK_DEADLOCK FALSE
