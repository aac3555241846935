SPECIFICATION FairSpec

CONSTANTS
    MaxVersion = 2
    EmptyVersions = {2}
    Faulty = {"globalRule", "scopedRules", "storage"}
    LeadCalls = 1
    MaxFaults = 1
    MaxToggles = 2
    MaxFetches = 2
    MaxRestarts = 1

 
 
PROPERTY NoRollback
PROPERTY FetchEnds

CHECK_DEADLOCK FALSE
