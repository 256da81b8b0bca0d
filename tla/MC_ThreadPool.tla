---------------------------- MODULE MC_ThreadPool ----------------------------
EXTENDS ThreadPool

CONSTANTS k1, k2, k3, k4

\* An event's task and replies, which are more urgent.
MCPriority == [k \in Task |-> IF k = k1 THEN 1 ELSE 0]

=============================================================================
