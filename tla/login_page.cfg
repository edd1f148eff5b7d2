SPECIFICATION FairSpec
CONSTANTS
    Requests = {1, 2, 3}
    Pages = {p1}
    Admin = Admin
    admin = admin
    bob = bob
    pw = pw
    None = None
    Names = {Admin, admin, bob}
    Passwords = {Admin, pw}
    Collate <- AnyCase
    Inputs <- PageAndApi
    ApiInputs <- Api
    DbFaults = TRUE
    NetFaults = TRUE
INVARIANTS PageTypeOK LoginEarnedOrFailed AnswersTruthful
PROPERTIES ImplementsStore EveryRequestAnswered LoadingEnds
