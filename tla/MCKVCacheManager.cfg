SPECIFICATION Spec
CONSTANTS
    r1 = r1
    r2 = r2
    r3 = r3
    Requests = {r1, r2, r3}
    Prompt <- MCPrompt
    SkipCache = {}
    Hashes <- MCHashes
    NoHash = NoHash
    NumBlocks = 4
    BlockSize = 1
    EnablePrefixCaching = TRUE
    MaxTable = 2
    MaxEntries = 2
INVARIANTS
    TablesExact
    PrefixMatches
