---------------------------- MODULE MCAddrCache ----------------------------
\* Instances of AddrCache for TLC.
EXTENDS AddrCache, TLC

CONSTANTS h1, h2, x1, x2, x3

\* Goroutines are interchangeable, hosts are not (Init picks one).
QuerySymmetry == Permutations(Queries)

============================================================================
