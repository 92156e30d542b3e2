----------------------------- MODULE MCAgentRuns -----------------------------
EXTENDS AgentRuns
AllMoves == {"pause", "stop", "shelve"}
Pauses == {"pause", "stop"}
Shelves == {"shelve"}
==============================================================================
