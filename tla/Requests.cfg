SPECIFICATION RequestsSpec
CONSTANTS
    Subs = {"A", "B"}
    Conns = {"n1", "n2"}
    NoConn = "-"
    EnvOf <- MCEnvOf
    RankOf <- MCRankOf
    MaxRev = 2
    Concurrency = 1
    MaxUser = 2
    MaxChanges = 1
    OverlapCalls = FALSE
    NStorages = 2
    MaxProxies = 2
    ProbeLists <- MCProbeLists
    KMaxParallel = 2
    KWgMaxParallel = 1
    Latencies = {1, 2}
    MaxRuns = 2
    MaxEdits = 1
    Psks = {"p", "q"}
    Shapes = {"plain", "awg"}
    MaxNet = 3
    Responses <- MCResponses
    QrSeries <- MCQrSeries
    ImportOps = 2
    MaxDownloads = 2
INVARIANTS
    ListIsSound  RunIsReported ImportIsWhole
PROPERTIES
    RefreshLosesNothing FinalAnswerHonoured LatencyIsGenuine RequestsEnd
CHECK_DEADLOCK FALSE
