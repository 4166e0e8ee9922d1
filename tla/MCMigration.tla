---------------------------- MODULE MCMigration ----------------------------
(* TLC instance of Migration: k1 is a key of the catalogue, k2 one that      *)
(* another client overwrites.  a and b have the same size, c has another.   *)
EXTENDS Migration, TLC

CONSTANTS k1, k2, a, b, c

MCSize == [x \in Contents |-> IF x = c THEN 2 ELSE 1]
MCCanHold == [k \in Keys |-> IF k = k1 THEN {c} ELSE Contents]

\* a and b have the same size and the same keys, so they are interchangeable.
Symmetry == Permutations({a, b})
=============================================================================
