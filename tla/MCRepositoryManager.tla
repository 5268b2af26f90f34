------------------------ MODULE MCRepositoryManager ------------------------
EXTENDS RepositoryManager
CONSTANTS p, s, q1, q2
MCRoots == {p, s}
MCPrimary == {p}
MCMainOf == [r \in MCRoots |-> p]
MCAtFirst == {s}
MCCached == {s}
MCRequests == {q1, q2}
=============================================================================
