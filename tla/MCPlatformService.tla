------------------------- MODULE MCPlatformService -------------------------
EXTENDS PlatformService, TLC

Symmetric == Permutations(Handlers) \cup Permutations(UUIDs) \cup Permutations(Changes)
=============================================================================
