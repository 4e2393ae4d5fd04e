---------------------------- MODULE MCStaticIPs ----------------------------
EXTENDS StaticIPs, TLC
CONSTANTS s1, s2, n1, n2, h1, h2
Symmetric == Permutations(Services) \cup Permutations(Nodes) \cup Permutations(Handlers)
=============================================================================
