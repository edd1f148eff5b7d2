SPECIFICATION Spec
CONSTANTS
    Paths <- ThreePaths
    Categories = {"All", "Security"}
    Searches = {"", "text"}
    MaxPage = 2
    MaxFetches = 3
    MaxAlerts = 1
INVARIANTS DashTypeOK CopyWrongIffOdd LoadingFounded ShowsLastAnswer
PROPERTY LoadingEnds
