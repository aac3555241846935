SPECIFICATION RunSpec

CONSTANTS
    Focus = {"prefs", "lists", "stats", "ledger", "session", "loader", "clicks",
             "consent", "sites", "import"}
    AllBrowsers = TRUE
    NoFetch = NoFetch
    Parts = {sync, remote}
    Fetches = {f1, f2}
    Callers = {a, b}
    MaxWrites = 1
    MaxFailures = 1
    MaxForced = 1

\* the allowlist
CONSTANTS
    Entry = {"a", "b"}
    Users = {"page", "migration", "options", "popup"}
    ListsFaulty = {"read", "write"}
    ListsCap = 2
    MaxEdits = 3
    MaxListsFaults = 1

\* the counters
CONSTANTS
    StatsFaulty = {"read", "write", "remove"}
    CountMax = 2
    MaxStatsRestarts = 2
    MaxResets = 1
    MaxStatsFaults = 1

\* recent activity
CONSTANTS
    LedgerCap = 2
    MaxEvents = 4
    MaxLedgerRestarts = 2
    MaxClears = 1
    MaxLedgerFaults = 1

\* the session records
CONSTANTS
    HistoryMax = 2
    LogMax = 2
    MaxAppends = 3
    MaxLogs = 3
    MaxSessionRestarts = 1
    MaxSessionFaults = 1

\* the loaders
CONSTANTS
    Caller = {c1, c2, c3}
    MaxAttempts = 2
    MaxLoaderRestarts = 1

\* a clicked link
CONSTANTS
    RewriteMax = 1
    MaxClicks = 2

\* consent
CONSTANTS
    ConsentFaulty = {"read", "write", "remove"}
    PartialLegacy = FALSE
    MaxConsentRestarts = 2
    MaxSubmits = 1
    MaxConsentFaults = 2

\* counts per site
CONSTANTS
    Site = {"s1", "s2", "s3"}
    SitesCap = 2
    SitesFaulty = {"read", "write"}
    SiteCountMax = 3
    MaxSiteResets = 1
    MaxSitesRestarts = 1
    MaxSitesFaults = 1

\* the settings file
CONSTANTS
    ImportFaulty = {"sync"}
    ImportCap = 1
    MaxChanges = 1
    MaxImports = 1
    MaxImportFaults = 1

INVARIANT CacheFresh
INVARIANT AnswerNotStale
INVARIANT StateTyped
INVARIANT StatsKept
INVARIANT LedgerKept
INVARIANT RecordsExact
INVARIANT OneLoadAtATime
 
INVARIANT GateNeverCloses
INVARIANT OneOnboardingTab
INVARIANT SiteCountsConserved
INVARIANT ImportHonest
PROPERTY EditsAreAtomic
PROPERTY GrantsRespected

CHECK_DEADLOCK FALSE
