--------------------------- MODULE MCConnections ---------------------------
EXTENDS Connections
=============================================================================
