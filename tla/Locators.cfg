SPECIFICATION Spec
CONSTANTS
    r1 = r1  r2 = r2  r3 = r3
    k1 = k1  k2 = k2  k3 = k3
    p1 = p1  p2 = p2
    s1 = s1  s2 = s2  s3 = s3
    Rollouts = {r1, r2, r3}
    Own = {r1, r2}
    Here = {r2, r3}
    NoRollout = NoRollout
    MaxAttempts = 2
    MaxStamp = 3
    Titles = {"t1", "t2"}
    NoTitle = "none"
    MaxWrites = 4
    Sessions = {k1, k2, k3}
    Ours = {k1, k2}
    Depth <- MCDepth
    Bucket = {k2, k3}
    NoKimiSession = NoKimiSession
    KimiAttempts = 2
    NoOcSession = NoOcSession
    MaxTime = 5
    Slack = 1
    OwnWindow = 1
    Earlier <- MCEarlier
    MaxDepth = 2
    OcPanes = {p1, p2}
    OcSessions = {s1, s2, s3}
    OwnerOf <- MCOwnerOf
    DirOf <- MCDirOf
    MaxRows = 4
    Reports <- MCReports
    Logs <- MCLogs
    Catalogs <- MCCatalogs
    KimiSize = 200
    ScanRows = 2
    MaxReports = 3
    PluginSessions = {"s1", "../s"}
    SafeSessions = {"s1"}
    Messages = {"m1", "m2"}
    Role <- MCRole
    Texts = {"t1", "t2"}
    Directories = {"d1", "d2"}
    Arguments <- MCArguments
    MaxEvents = 4
    Commands <- MCCommands
    Packages <- MCPackages
    Assignments = {"CI=1"}
    Secrets = {"key"}
    TestSuites <- MCTestSuites
    Reachable = {"m"}
    MAX_ITERATIONS = 3
    MAX_RECURSION_DEPTH = 3
    MAX_GROUPS = 3
    MaxRounds = 7
    Statements <- MCStatements
    MaxStatements = 3
INVARIANTS OneSummary ReadAsWritten IndexIsCurrent
PROPERTIES OwnSession CatchesUp AnswersOnly
CHECK_DEADLOCK FALSE
