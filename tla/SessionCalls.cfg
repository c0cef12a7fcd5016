\* Two calls at once, three tokens.
SPECIFICATION FairSpec
CONSTANTS
    c1 = c1
    c2 = c2
    Calls = {c1, c2}
    None = None
    MaxSent = 3
    MaxTokens = 3
    MaxFaults = 1
INVARIANTS Inv LoginMeansOver CacheEndsWithTheSession
PROPERTIES RenewsTheExpired WaitersResume
CHECK_DEADLOCK FALSE
