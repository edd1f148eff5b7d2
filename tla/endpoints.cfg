SPECIFICATION FairSpec
CONSTANTS
    Requests = {r1, r2, r3}
    Pages = {p1}
    Names = {office, long}
    TooLong = {long}
    None = None
    DbFaults = TRUE
    NetFaults = TRUE
INVARIANTS TypeOK ConfigsRegistered TotalRight
PROPERTIES ImplementsRegistry LoadingEnds
