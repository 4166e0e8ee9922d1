----------------------------- MODULE MCHarvest -----------------------------
(* TLC instance of Harvest; versions are only compared with each other.  To *)
(* keep it small, at most one patch or delete of a draft is in flight.      *)
EXTENDS Harvest, TLC

MCNext == Next /\ \A x, y \in loaded' : x[1] # "publish" /\ y[1] # "publish" => x = y

MCSpec == Init /\ [][MCNext]_vars

Symmetry == Permutations(Versions)
=============================================================================
