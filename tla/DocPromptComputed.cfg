SPECIFICATION EngineSpec
CONSTANTS
    r1 = r1
    r2 = r2
    Requests = {r1, r2}
    Prompt <- Prompts
    Hashes <- PromptHashes
    NoHash = NoHash
    SkipCache = {}
    SpecTokens <- Speculation
    Priority <- Equal
    Policy = "FCFS"
    NumBlocks = 4
    BlockSize = 2
    EnablePrefixCaching = FALSE
    MaxNumSeqs = 2
    MaxBudget = 6
    MaxModelLen = 6
    PrefillCap = 2
    MaxTokens <- TokenLimits
    Executors = {"uniproc"}
INVARIANT
    PromptComputed
