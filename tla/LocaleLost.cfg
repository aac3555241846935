SPECIFICATION Spec

CONSTANTS
    MaxHops = 3
    Localized = TRUE
    MixedCase = FALSE
    MaxPasses = 2

PROPERTY LocaleSurvives

CHECK_DEADLOCK FALSE
