SPECIFICATION Spec
CONSTANTS
    t1 = t1
    t2 = t2
    Tasks = {t1, t2}
    Agent = agent
    RingSlots = 2
    MaxSyscalls = 4
    MAX_ARGS = 3
    RingWords = 26
    Texts <- Word100
    Programs <- OneProgram
    Pid <- Pids
    Boot = 10
    Second = 1
    MaxTime = 1
SYMMETRY Threads
INVARIANTS RecordTypeOK WordsOwned ArgcRight DisorderIsOverlap
