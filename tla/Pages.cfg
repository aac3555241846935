SPECIFICATION RunSpec

CONSTANT Focus =
    {"badge", "nudge", "freq", "tab", "hover", "link", "dom"}

\* the links of a page
CONSTANTS
    MaxWrites = 1
    MaxGates = 3
    MaxTurns = 1

\* the badge
CONSTANTS
    MaxCleans = 2
    MaxBadgeNavigations = 2
    MaxBadgeChanges = 2
    MaxEvictions = 1

\* the rate nudge
CONSTANTS
    MinActiveDays = 1
    MinDaysSinceFirstUse = 1
    MaxShows = 2
    MinDaysBetween = 1
    MaxDay = 2
    MaxSessions = 2
    MaxNudgeFaults = 1

\* the frequency store
CONSTANTS
    Name = {"n1", "n2"}
    Domain = {"d1", "d2"}
    Value = {"v1", "v2", "v3"}
    ShortNames = {"n1"}
    RandomValues = {"v1", "v2"}
    DomainThreshold = 1
    ValueThreshold = 1
    CandidateDomainThreshold = 2
    CandidateValueThreshold = 2
    Buffer = 0
    MaxTracked = 1
    MaxBatches = 3
    MaxFreqFaults = 1

\* the scripts of a tab
CONSTANTS
    Route = {"r1"}
    LoopCap = 1
    MaxTabChanges = 2
    MaxTabNavigations = 2
    MaxTabFailures = 1

\* the hover preview
CONSTANTS
    Wrapped = {"w"}
    Shorteners = {"s"}
    MaxHovers = 4
    MaxHoverChanges = 1
    MaxHoverFailures = 1

\* the cleaning of a link
CONSTANTS
    MaxHops = 3
    Localized = FALSE
    MixedCase = FALSE
    MaxPasses = 2

INVARIANT StateTyped
INVARIANT BadgeSound
INVARIANT NudgeHonest
INVARIANT FrequencySound
INVARIANT GateConverges
 
INVARIANT PreviewHonest
 
 
PROPERTY AffiliatesAsAsked
PROPERTY ProtectedDestination
 
PROPERTY OpeningWipes

CHECK_DEADLOCK FALSE
