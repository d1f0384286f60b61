SPECIFICATION FairSpec
CONSTANTS
    Stmts = {s1, s2}
    MaxAttempts = 3
    EarlyTokens = FALSE
    MaxConnects = 3
INVARIANTS StatementsUseThisClient OwnAuthorization SessionsFollowLogins InfoIsMissedForAReason
PROPERTY WaitEnds
