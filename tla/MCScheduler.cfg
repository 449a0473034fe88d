SPECIFICATION Spec
CONSTANTS
    r1 = r1
    r2 = r2
    r3 = r3
    Requests = {r1, r2, r3}
    Prompt <- ShortPrompts
    Hashes <- ShortHashes
    NoHash = NoHash
    SkipCache = {}
    SpecTokens <- NoSpec
    Priority <- SamePriority
    Policy = "FCFS"
    NumBlocks = 4
    BlockSize = 2
    EnablePrefixCaching = TRUE
    MaxNumSeqs = 2
    MaxBudget = 3
    MaxModelLen = 5
    PrefillCap = 9
INVARIANTS
    TypeOK
    NoRequestLost
    MemorySafe
    PrefixMatches
    OutputCurrent
    LimitsRespected
    WithinModelLen
