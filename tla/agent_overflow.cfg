SPECIFICATION Spec
CONSTANTS
    Tasks = {t1}
    Agent = agent
    RingSlots = 1
    MaxSyscalls = 0
    buffer_size = 32
    batch_size = 16
    Endless = {t1}
    SelfCalls <- OneRequest
    Faults = {"curl_init"}
INVARIANT BufferInArray
