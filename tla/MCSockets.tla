----------------------------- MODULE MCSockets ------------------------------
EXTENDS Sockets
=============================================================================
