----------------------------- MODULE MCComments -----------------------------
EXTENDS Comments
CONSTANTS g, h, a, b, a1, a2, b1
MCProviders == {g, h}
MCRank == [p \in MCProviders |-> IF p = g THEN 0 ELSE 1]
MCRepos == {a, b}
MCChanges == {a1, a2, b1}
MCRepoOf == [c \in MCChanges |-> IF c = b1 THEN b ELSE a]
MCInfo == {a1, b1}
MCAnchor == [c \in MCChanges |-> IF c \in MCInfo THEN {c} ELSE {}]
=============================================================================
