SPECIFICATION FairSpec
CONSTANTS
    Tasks = {t1}
    Agent = agent
    RingSlots = 4
    MaxSyscalls = 2
    buffer_size = 32
    batch_size = 2
    Endless = {}
    SelfCalls <- OneRequest
    Faults = {}
PROPERTIES StopsOnSignal
