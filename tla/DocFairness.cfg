SPECIFICATION FairSpec
CONSTANTS
    r1 = r1
    r2 = r2
    r3 = r3
    Requests = {r1, r2}
    Prompt <- StarvedPrompts
    Hashes <- StarvedHashes
    NoHash = NoHash
    SkipCache = {}
    SpecTokens <- NoSpec
    Priority <- SamePriority
    Policy = "FCFS"
    NumBlocks = 3
    BlockSize = 1
    EnablePrefixCaching = TRUE
    MaxNumSeqs = 1
    MaxBudget = 3
    MaxModelLen = 2
    PrefillCap = 9
PROPERTY EventuallyServed
