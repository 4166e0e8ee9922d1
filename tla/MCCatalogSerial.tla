-------------------------- MODULE MCCatalogSerial --------------------------
(* TLC instance of Catalog with one request at a time.  The history         *)
(* variable holds the objects that a delete request removed before it was   *)
(* rolled back.                                                             *)
EXTENDS MCCatalog

VARIABLE rolledBack

historyVars == <<vars, rolledBack>>

\* The objects a session has removed from the bucket, but not from the rows.
Removed(s) ==
    {k \in Keys : object[k] # "stored" /\ \E v \in sess[s].flushed : k \in ver[v].urls}

HistoryInit == Init /\ rolledBack = {}

HistoryNext ==
    \/ NextUndisturbed /\ UNCHANGED rolledBack
    \/ \E s \in Sessions : Abort(s) /\ rolledBack' = rolledBack \union Removed(s)

HistorySpec == HistoryInit /\ [][HistoryNext]_historyVars

Tombstoning(v) == \E s \in Sessions : At(s, "tombstone") /\ v \in sess[s].flushed

Offered(v) == Exists(ver[v]) /\ ~ver[v].deleted /\ ~Tombstoning(v)

(***************************************************************************)
(* With one request at a time, an object that a version offers for         *)
(* download is in the bucket, unless a delete request that had removed it  *)
(* was rolled back, or the same upload token was registered for another    *)
(* version that is being or was tombstoned.                                *)
(***************************************************************************)
OfferedObjectsStored ==
    \A v \in Versions : Offered(v) =>
        \A k \in ver[v].urls :
            \/ object[k] = "stored"
            \/ k \in rolledBack
            \/ \E w \in Versions \ {v} : k \in ver[w].dists /\ ~Offered(w)
=============================================================================
