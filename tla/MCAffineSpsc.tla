---------------------------- MODULE MCAffineSpsc -----------------------------
EXTENDS AffineSpsc
=============================================================================
