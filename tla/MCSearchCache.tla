--------------------------- MODULE MCSearchCache ---------------------------
(* TLC instances of SearchCache: up to two versions of resource r1 in scope  *)
(* a and a version of r2 in scope b.                                         *)
EXTENDS SearchCache, TLC

CONSTANTS r1, r2, v1, v2, v3, a, b

MCBaseOf == [v \in Versions |-> IF v = v3 THEN r2 ELSE r1]
MCScopeOf == [r \in Resources |-> IF r = r2 THEN b ELSE a]

\* Every mode in one scope, and one query of the other.
ScopedQueries == {<<"keyword", a>>, <<"semantic", a>>, <<"auto", a>>, <<"auto", b>>}
=============================================================================
