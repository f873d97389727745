SPECIFICATION EngineSpec
CONSTANTS
    a1 = a1
    a2 = a2
    weather = weather
    news = news
    name = name
    Nobody = Nobody
    Askers <- TwoAskers
    Questions <- Everything
    TimeSensitive <- Live
    Personal <- Own
    Ttl = 1
    MaxEntries = 1
    MinInterval = 1
    OverallTimeout = 1
    HttpRetries = 1
    PerProvider = 1
    Models = 2
    GuardRetries = 1
    ProviderRetries = 1
PROPERTIES
    FetchesSpaced
    SalvageKept
    ApologyMeansExhausted
    AskerAnswered
