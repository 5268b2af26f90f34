---------------------------- MODULE MCAsyncCache ----------------------------
(* Values for AsyncCache: two lookups and a set() of one key, a set() of     *)
(* another that takes its place, for every combination of the options.       *)
EXTENDS AsyncCache, TLC
CONSTANTS k1, k2, c1, c2, w1, w2

AllOnFirst == [c \in Callers |-> k1]
OneWritePerKey == [w \in Writes |-> IF w = w1 THEN k1 ELSE k2]
=============================================================================
