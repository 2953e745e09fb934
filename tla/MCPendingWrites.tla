-------------------------- MODULE MCPendingWrites ---------------------------
EXTENDS PendingWrites

=============================================================================
