----------------------------- MODULE MCCatalog -----------------------------
(* TLC instance of Catalog.  Ids are only ever compared with each other, so *)
(* the members of each set are interchangeable.                             *)
EXTENDS Catalog, TLC

Symmetry ==
    Permutations(Versions) \union Permutations(Keys) \union Permutations(Sessions)
        \union Permutations(Resources) \union Permutations(Users)
=============================================================================
