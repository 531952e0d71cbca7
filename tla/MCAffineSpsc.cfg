CONSTANTS
    DEPTH = 2
    Values = {v1, v2, v3}
    NoValue = NoValue
SPECIFICATION Spec
INVARIANTS NoDataRace Affine LenIsConservative
PROPERTIES ImplementsFifo
