CONSTANTS
    OrgCount = 4
    MaxAttempts = 2
    MaxCleanups = 2
    Docs = {d1, d2}
    LastPlan = 2
    Uploads = {u1, u2}
    Answers = {a1, a2}
    Callers = {c1, c2}
    Nobody = Nobody
    Size = 2
    Estimate = 2
    Actuals = {1, 3}
    TTL = 2
    MonthLength = 2
    MaxTime = 2
    Jobs = {j1}
    Watched = j1
    Relays = {r1, r2}
    Steps = 3
    Limit = 2
    Last = 2
SPECIFICATION MCSpec
INVARIANTS
    FairTurns
    CommittedMarkdownExists ChargedForWhatIsKept LeftoversAreRecorded
    IndexedIsVisible CompletionIsNoticed OnlyReplaysStrand
    NeverOverAdmitted EverythingIsCounted
    TailsMissNothing PublishedOnce
    SearchFollowsVersions
CHECK_DEADLOCK FALSE
