------------------------ MODULE MCLeAcknowledgement ------------------------
\* Two payloads per direction, a queue that holds both, room for one received
\* payload.
EXTENDS LeAcknowledgement
=============================================================================
