--------------------------- MODULE MCPulseRuntime ---------------------------
\* PulseRuntime for TLC: its constants are numbers and Booleans, given values
\* in the .cfg files.
EXTENDS PulseRuntime
=============================================================================
