SPECIFICATION FairSpec
CONSTANTS
    MaxSessions = 2
    ProviderSessions = {31, 32}
    Senders = {21}
    MaxWatches = 3
    MaxUses = 3
    MaxEvents = 6
INVARIANT RevokedWithTheAgreement
CHECK_DEADLOCK FALSE
