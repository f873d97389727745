SPECIFICATION StoresSpec
CONSTANTS
    Ids <- TwoIds
    Contents <- TwoContents
    Limit = 1
INVARIANTS
    AcknowledgedIsDurable
    SentWasDelivered
