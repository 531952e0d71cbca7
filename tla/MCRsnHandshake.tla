-------------------------- MODULE MCRsnHandshake --------------------------
\* Two associations, whose replay counters may collide or not.
EXTENDS RsnHandshake
=============================================================================
