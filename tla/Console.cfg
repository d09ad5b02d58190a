CONSTANTS
    Browsers = {b1, b2}
    Passwords <- ThePasswords
    Default = "admin123"
    Bootstrap = "admin123"
    MaxFailures = 2
    MaxSessions = 1
    MaxAttempts = 1
    MaxLogins = 2
    PasswordSaveFails = TRUE
    Clerks = {c1, c2}
    MaxKeys = 2
    KeySaveFails = TRUE
    Editors = {e1, e2}
    p = p
    q = q
    Proxies = {p, q}
    Lists <- TheLists
    Others = {x, y}
    MaxListed = 1
    SettingsSaveFails = TRUE
    Size = 3
    Working <- TheWorking
    Requests = {r1}
    Dials = {d1, d2}
    MaxFails = 3
    Operators = {o1, o2}
    MaxDeployments = 2
    MaxAddress = 1
    DeploymentSaveFails = TRUE
    MaxRecords = 3
    MaxFile = 2
    LogMayFail = TRUE
    Category <- TheTasks
    Selections <- Both
    Score <- Grades
    Total = 3
    MaxSteps = 3
    MaxForced = 1
    MaxRuns = 2
    Sweeps = {1, 2}
    Count = 3
    Page = 3
    KeepN = 2
    Rounds = 2
SPECIFICATION MCSpec
INVARIANTS CleanMeansClean PasswordAgrees AcknowledgedKeys SettingsAgree WorkingProxyFound DeploymentsSaved CompleteRun WorkIsCredited LogIsWhole
PROPERTIES BenchEnds
CHECK_DEADLOCK FALSE
