SPECIFICATION LiveSpec

CONSTANTS
    Focus = {"prefs", "lists", "stats", "ledger", "session", "loader", "clicks", "consent"}
    AllBrowsers = FALSE
    NoFetch = NoFetch
    Parts = {sync, remote}
    Fetches = {f1, f2}
    Callers = {a, b}
    MaxWrites = 1
    MaxFailures = 0
    MaxForced = 0

\* the allowlist
CONSTANTS
    Entry = {"a", "b"}
    Users = {"page", "migration", "options", "popup"}
    ListsFaulty = {"read", "write"}
    ListsCap = 2
    MaxEdits = 2
    MaxListsFaults = 1

\* the counters
CONSTANTS
    StatsFaulty = {"read", "write", "remove"}
    CountMax = 2
    MaxStatsRestarts = 1
    MaxResets = 0
    MaxStatsFaults = 1

\* recent activity
CONSTANTS
    LedgerCap = 2
    MaxEvents = 3
    MaxLedgerRestarts = 1
    MaxClears = 1
    MaxLedgerFaults = 1

\* the session records
CONSTANTS
    HistoryMax = 2
    LogMax = 2
    MaxAppends = 2
    MaxLogs = 1
    MaxSessionRestarts = 1
    MaxSessionFaults = 1

\* the loaders
CONSTANTS
    Caller = {c1, c2, c3}
    MaxAttempts = 2
    MaxLoaderRestarts = 1

\* a clicked link
CONSTANTS
    RewriteMax = 1
    MaxClicks = 2

\* consent
CONSTANTS
    ConsentFaulty = {"read", "write", "remove"}
    PartialLegacy = FALSE
    MaxConsentRestarts = 1
    MaxSubmits = 1
    MaxConsentFaults = 1

\* counts per site
CONSTANTS
    Site = {"s1", "s2", "s3"}
    SitesCap = 2
    SitesFaulty = {"read", "write"}
    SiteCountMax = 3
    MaxSiteResets = 1
    MaxSitesRestarts = 1
    MaxSitesFaults = 1

\* the settings file
CONSTANTS
    ImportFaulty = {"sync"}
    ImportCap = 1
    MaxChanges = 1
    MaxImports = 1
    MaxImportFaults = 1

PROPERTY WaitersServed
PROPERTY QueuesDrain
 
PROPERTY InstallShowsPage

CHECK_DEADLOCK FALSE
