------------------------------ MODULE MCRxRing -------------------------------
(* A ring of four descriptors under either walker.                          *)
EXTENDS RxRing

=============================================================================
