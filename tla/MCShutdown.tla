----------------------------- MODULE MCShutdown -----------------------------
EXTENDS Shutdown

=============================================================================
