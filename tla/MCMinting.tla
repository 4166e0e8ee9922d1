----------------------------- MODULE MCMinting -----------------------------
(* TLC instance of Minting.  Ids and DOIs are only compared with each       *)
(* other, so the members of each set are interchangeable.                   *)
EXTENDS Minting, TLC

Symmetry ==
    Permutations(Versions) \union Permutations(Keys) \union Permutations(Users)
        \union Permutations(Resources) \union Permutations(Dois)
        \union Permutations(Mints)

\* Bounds: a version has one distribution at most, and a payload brings its
\* own DOI to one version at a time.
MCNext ==
    /\ MintNext
    /\ \A v \in Versions : Cardinality(ver'[v].dists) <= 1
    /\ Cardinality(claimed') <= 1

MCSpec == MintInit /\ [][MCNext]_mintVars
=============================================================================
