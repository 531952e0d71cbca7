---------------------------- MODULE MCRxReorder ----------------------------
\* Nine MPDUs from 13 in a space of sixteen: the numbers wrap, and a table
\* of three positions does not divide the space.
EXTENDS RxReorder, TLC

\* No operator tells two slots apart.
SlotSymmetry == Permutations(Slots)
=============================================================================
