---- MODULE MCMcpService ----
EXTENDS McpService, TLC

Symmetry == Permutations(Requests)
====
