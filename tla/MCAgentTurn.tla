---------------------------- MODULE MCAgentTurn -----------------------------
\* Deployments for AgentTurn: sequential tools of every kind with toolsets
\* that fail; parallel plain and progress-streaming tools with both limits;
\* plain tools in sequence; parallel plain and long-running tools.
EXTENDS AgentTurn

MCConfigs ==
    {[tools |-> Tools, toolsetsFail |-> TRUE, parallel |-> FALSE,
      maxLlmCalls |-> 2, maxToolCalls |-> 0],
     [tools |-> {"plain", "progress"}, toolsetsFail |-> FALSE, parallel |-> TRUE,
      maxLlmCalls |-> 2, maxToolCalls |-> 2],
     [tools |-> {"plain"}, toolsetsFail |-> FALSE, parallel |-> FALSE,
      maxLlmCalls |-> 2, maxToolCalls |-> 2],
     [tools |-> {"plain", "long_running"}, toolsetsFail |-> FALSE, parallel |-> TRUE,
      maxLlmCalls |-> 2, maxToolCalls |-> 0]}

=============================================================================
