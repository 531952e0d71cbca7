CONSTANTS
    Permits = {p1, p2}
    Seats = {s1, s2, s3}
    TICKETS = 4
SPECIFICATION FairSpec
INVARIANTS LeaderIsOldest NoLostWake
PROPERTIES TakersAreServed
