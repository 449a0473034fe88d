SPECIFICATION Spec
CONSTANTS
    AttentionCases <- MCAttentionCases
    BlockCases <- MCBlockCases
    MaxContext = 4
    MaxChunk = 3
    RouteCases <- MCRouteCases
    QuantCases <- MCQuantCases
    ConfigCases <- MCConfigCases
    FetchCases <- MCFetchCases
    LoadCases <- MCLoadCases
    SampleCases <- MCSampleCases
    DraftCases <- MCDraftCases
    GrowCases <- MCGrowCases
    BeamCases <- MCBeamCases
    BeamLogits <- MCBeamLogits
    TextCases <- MCTextCases
    MaxTokens = 4
    CallCases <- MCCallCases
    VocabCases <- MCVocabCases
    QueueCases <- MCQueueCases
    MaxArrivals = 5
    OffloadKeys = {k1, k2, k3}
    OffloadBytes = {b1, b2}
    OffloadSlots = 2
    PoolSizes = {1, 2, 3}
    OverlapBatches <- MCOverlapBatches
    CacheLayers = 2
    GivenScales <- MCGivenScales
    StartupCases <- MCStartupCases
    SplitCases <- MCSplitCases
INVARIANTS
    AttendsOwnContext
    RoutedExactly
    CodesReadBack
    LoadedWhole
    SampledAllowed
    BeamWidthKept
    TextExact
    CallsAllOrNothing
    StoresExact
    CacheFits
CHECK_DEADLOCK FALSE
