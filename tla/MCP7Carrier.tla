---------------------------- MODULE MCP7Carrier ----------------------------
EXTENDS P7Carrier

CONSTANTS c1, c2, m1, m2

\* All messages are for the coroutine that the carrier starts with,
MCDstOne == [m \in Message |-> c1]

\* or for what is created.
MCDstNew == [m \in Message |-> c2]
=============================================================================
