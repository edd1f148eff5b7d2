SPECIFICATION Spec
CONSTANTS
    url = url
    key = key
    office = office
    one = one
    Texts = {url, key, office, one}
    IntMax = 127
    Files <- SomeFiles
CHECK_DEADLOCK FALSE
INVARIANTS ConfigTypeOK AcceptedFits FollowsFile GeneratedWorks
