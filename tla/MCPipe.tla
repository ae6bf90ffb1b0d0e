------------------------------- MODULE MCPipe -------------------------------
EXTENDS Pipe
=============================================================================
