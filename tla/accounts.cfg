SPECIFICATION FairSpec
CONSTANTS
    Passwords = {p1, p2}
    NoPassword = NoPassword
    Nobody = Nobody
    Destroyed = Destroyed
    NoAccount = NoAccount
    NoJob = NoJob
    MaxAttempts = 1
    Room <- OneOfEach
    MaxChanges = 1
    MaxCrashes = 1
INVARIANT LinkedAccountExists
PROPERTIES StaleJobsKeepTheRow SignupSettles DeletionSettles TeamFollows
CHECK_DEADLOCK FALSE
