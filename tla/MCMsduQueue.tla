---------------------------- MODULE MCMsduQueue ------------------------------
EXTENDS MsduQueue
=============================================================================
