--------------------------- MODULE MCOwnedEndpoint ---------------------------
EXTENDS OwnedEndpoint
=============================================================================
