--------------------------- MODULE MCSearchTurns ---------------------------
(* TLC instance of SearchTurns: in turn, one session takes all requests;     *)
(* requests that overlap publish one version of each resource.               *)
EXTENDS SearchTurns, MCSearchCache

\* Searches of every mode that share keys of a scope, and one of the other.
QueriesInTurn == {<<"semantic", a>>, <<"auto", a>>, <<"auto", b>>}

\* An auto search of a scope, and searches that nothing invalidates.
MixedQueries == {<<"auto", a>>, <<"semantic", NoScope>>}

AllQueries == QueriesInTurn \union MixedQueries

Asked(queries) == \A s \in Sessions : sess'[s].query \in queries \union {NoQuery}

Alone == CHOOSE s \in Sessions : TRUE

MCNext ==
    /\ TurnsNext
    /\ IF inTurn
       THEN Asked(QueriesInTurn) /\ \A s \in Sessions \ {Alone} : sess'[s] = Idle
       ELSE Asked(MixedQueries) /\ state'[v2] # "published"

MCSpec ==
    /\ TurnsInit /\ [][MCNext]_turnsVars
    /\ \A q \in Queries : WF_vars(Expire(q))
    /\ \A s \in Sessions : WF_vars(Proceed(s) \/ Fails(s))
=============================================================================
