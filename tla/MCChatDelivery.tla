--------------------------- MODULE MCChatDelivery ---------------------------
\* Personas of the chat example.
EXTENDS ChatDelivery

\* The first one writes to the second, who may answer, or to the group; and again.
MCPresses == {<<1, 1, 2>>, <<2, 2, 1>>, <<2, 1, Group>>, <<3, 1, 2>>}
=============================================================================
