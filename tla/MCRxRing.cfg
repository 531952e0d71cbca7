CONSTANTS
    COUNT = 4
    BUDGET_UNITS = 2
    Walkers = {"early", "late"}
    LinkFetched = TRUE
SPECIFICATION Spec
INVARIANTS NeverOverwrites NeverFails DrainedIsDrained
PROPERTIES SampledReleaseIsSafe TakenInOrder
