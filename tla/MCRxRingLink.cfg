CONSTANTS
    COUNT = 4
    BUDGET_UNITS = 2
    Walkers = {"late"}
    LinkFetched = FALSE
SPECIFICATION Spec
PROPERTY LinkIsLatched
