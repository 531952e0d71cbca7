CONSTANTS
    MaxJoins = 2
    Attempts = 1
    InitialReplays = {0, 1}
SPECIFICATION FairSpec
CHECK_DEADLOCK FALSE
INVARIANTS
    AuthorizedMeansInstalled
    InstallOnce
    KeysAgree
    RetryOwnsWindow
PROPERTY
    HandshakeSettles
