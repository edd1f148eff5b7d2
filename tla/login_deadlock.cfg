SPECIFICATION Spec
CONSTANTS
    Requests = {1, 2, 3, 4}
    Pages = {p1, p2}
    Admin = Admin
    admin = admin
    bob = bob
    pw = pw
    None = None
    Names = {Admin, admin, bob}
    Passwords = {Admin, pw}
    Collate <- AnyCase
    Inputs <- PagesOnly
    ApiInputs = {}
    DbFaults = FALSE
    NetFaults = FALSE
SYMMETRY PageSymmetry
INVARIANTS DashboardEarned
