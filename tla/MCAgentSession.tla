--------------------------- MODULE MCAgentSession ---------------------------
EXTENDS AgentSession
=============================================================================
