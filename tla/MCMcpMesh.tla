------------------------------ MODULE MCMcpMesh ------------------------------
EXTENDS McpMesh, TLC
Symmetry == Permutations(Server)
=============================================================================
