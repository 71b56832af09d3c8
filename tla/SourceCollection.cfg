SPECIFICATION FairSpec
CONSTANTS
    Attempts = {a1, a2}
    a1 = a1
    a2 = a2
    NoAttempt = NoAttempt
    LeaseTTL = 1
    Periods = {2}
    MaxTime = 2
    MayCrash = {a1, a2}
    MayInterrupt = {a1, a2}
INVARIANT TypeOK
INVARIANT SourceStatusMatchesRun
INVARIANT NextRunMatchesPolicy
INVARIANT NoLockCycle
PROPERTY LeaseTakenOnlyWhenExpired
PROPERTY ScheduledRunsStartWhenDue
PROPERTY LedgerSpec
PROPERTY AttemptsEnd
