SPECIFICATION FairSpec
CONSTANTS
    Tasks = {t1, t2}
    Agent = agent
    RingSlots = 2
    MaxSyscalls = 3
    buffer_size = 6
    batch_size = 3
    Endless = {t1}
    SelfCalls <- OneRequest
    Faults = {"startup", "curl_init", "post", "interrupt", "crash"}
INVARIANTS TypeOK OneHolder Accounting InOrder NothingLeft
PROPERTIES ImplementsFeed StopsWhenQuiet
