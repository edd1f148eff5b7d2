SPECIFICATION SystemSpec
CONSTANTS
    Tasks = {t1}
    Agent = agent
    RingSlots = 3
    MaxSyscalls = 4
    buffer_size = 6
    batch_size = 3
    Endless = {}
    SelfCalls <- OneRequest
    Faults = {"post", "startup", "crash"}
    MaxRequests = 2
    OtherRequests = {3}
    MaxConnections = 2
INVARIANTS ReceivedOnce OnlyGivenUpOvertaken PostedIsReceived IngressTypeOK NoConnectionLeft ExactBatch
PROPERTY RecordsConsumed
