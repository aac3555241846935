SPECIFICATION Spec
CONSTANTS
    MaxVersion = 2
    EmptyVersions = {}
    Faulty = {}
    LeadCalls = 2
    MaxFaults = 0
    MaxToggles = 2
    MaxFetches = 1
    MaxRestarts = 0
INVARIANT DisabledHasNoRemoteRules
CHECK_DEADLOCK FALSE
