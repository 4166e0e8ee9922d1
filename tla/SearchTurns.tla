---------------------------- MODULE SearchTurns ----------------------------
(***************************************************************************)
(* Two kinds of behaviours of SearchCache, told apart by a variable that   *)
(* never changes.  In turn: at most one request is in flight at any time   *)
(* and every one is answered.  Otherwise requests overlap and fail.        *)
(* Embeddings, deprecations and times to live come as they will in both.   *)
(***************************************************************************)
EXTENDS SearchCache

VARIABLE inTurn

turnsVars == <<vars, inTurn>>

Overlap == \E s, t \in Sessions : s # t /\ ~At(s, "idle") /\ ~At(t, "idle")

TurnsInit == Init /\ inTurn \in BOOLEAN

TurnsNext ==
    /\ UNCHANGED inTurn
    /\ IF inTurn THEN NextUndisturbed /\ ~Overlap' ELSE Next

TurnsSpec == TurnsInit /\ [][TurnsNext]_turnsVars

\* Once publish_resource has answered, a keyword or auto search of the scope
\* finds the version from the cache as well, if requests came in turn.
PublishedIsFoundInTurn == inTurn => PublishedIsFound

\* Once delete_resource has committed, no search of the scope finds a version
\* of the resource, if requests came in turn.
DeletedIsForgottenInTurn == inTurn => DeletedIsForgotten
=============================================================================
