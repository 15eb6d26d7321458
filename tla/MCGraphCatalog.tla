--------------------------- MODULE MCGraphCatalog ---------------------------
EXTENDS GraphCatalog, TLC
Symmetric == Permutations(Server) \cup Permutations(Client) \cup Permutations(Version)
=============================================================================
