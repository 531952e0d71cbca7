--------------------------- MODULE MCLeConnection ---------------------------
\* A counter of fourteen values wraps with the seven channels, so that every run
\* reaches it; Algorithm Two gets a permutation of the counter.
EXTENDS LeConnection, TLC

MCMaps == {0..6, {1, 3}}

MCPrn == [c \in 0..13 |-> (5 * c + 3) % 14]

\* No operator tells two timings apart.
TimingSymmetry == Permutations(Timings)
=============================================================================
