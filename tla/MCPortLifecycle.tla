--------------------------- MODULE MCPortLifecycle ---------------------------
EXTENDS PortLifecycle
=============================================================================
