SPECIFICATION FairSpec
INVARIANTS OneFate DetachIsSafe ResultIsTrue
PROPERTIES EndIsBounded
\* run_port's future is over once it returned or was dropped.
CHECK_DEADLOCK FALSE
