SPECIFICATION Spec
CONSTANTS
    r1 = r1
    r2 = r2
    r3 = r3
    Requests = {r1, r2, r3}
    Prompt <- LongPrompts
    Hashes <- LongHashes
    NoHash = NoHash
    SkipCache = {}
    SpecTokens <- Drafts
    Priority <- HighPriority
    Policy = "Priority"
    NumBlocks = 4
    BlockSize = 3
    EnablePrefixCaching = TRUE
    MaxNumSeqs = 2
    MaxBudget = 3
    MaxModelLen = 3
    PrefillCap = 9
INVARIANTS
    MemorySafe
    BudgetOvershoot
    QueueOrdered
