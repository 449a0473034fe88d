SPECIFICATION FairSpec
CONSTANTS
    r1 = r1
    r2 = r2
    r3 = r3
    Requests = {r1, r2, r3}
    Prompt <- ShortPrompts
    Hashes <- ShortHashes
    NoHash = NoHash
    SkipCache = {}
    SpecTokens <- NoSpec
    Priority <- SamePriority
    Policy = "FCFS"
    NumBlocks = 3
    BlockSize = 2
    EnablePrefixCaching = FALSE
    MaxNumSeqs = 2
    MaxBudget = 3
    MaxModelLen = 3
    PrefillCap = 9
PROPERTIES
    StepEnds
    EventuallyServed
