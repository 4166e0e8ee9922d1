---------------------------- MODULE SearchCache ----------------------------
(***************************************************************************)
(* Search and its Redis cache (app/routers/search.py,                      *)
(* app/services/cache_service.py, search_service.py, embedding_service.py) *)
(* beside the handlers that change what a search finds (publish_resource,  *)
(* deprecate_resource, delete_version and delete_resource).                *)
(*                                                                         *)
(* A search asks for everything a mode finds in a scope: the query text,   *)
(* the filters and the page only make more keys of the same shape.  All    *)
(* versions are public; their metadata do not change after publication.    *)
(* The races between the handlers are in Catalog: here a version is        *)
(* published, deprecated or deleted in one step, its commit.               *)
(***************************************************************************)
CONSTANTS
    Resources, Versions,
    Scopes,          \* values of resource.scope
    BaseOf,          \* version -> base_resource_id
    ScopeOf,         \* resource -> scope
    Queries,         \* <<mode, scope>> pairs that clients search for
    Sessions,        \* requests in flight
    NoResource, NoVersion,
    NoScope,         \* no "scope" parameter: all scopes
    NoQuery,
    Miss             \* GET finds no value

Modes == {"keyword", "semantic", "auto"}

ASSUME QueriesAreQueries == Queries \subseteq Modes \X (Scopes \union {NoScope})
ASSUME VersionsHaveBases == BaseOf \in [Versions -> Resources]
ASSUME ResourcesHaveScopes == ScopeOf \in [Resources -> Scopes]
ASSUME NullsAreNoValues ==
    /\ NoResource \notin Resources /\ NoVersion \notin Versions
    /\ NoScope \notin Scopes /\ NoQuery \notin Queries
    /\ \A vs \in SUBSET Versions : Miss # vs

VARIABLES
    state,       \* version -> its state (a tombstone is "deprecated")
    current,     \* resource -> current_version_id
    embedded,    \* versions whose embedding is not NULL
    tasks,       \* update_embedding tasks that have not ended
    cache,       \* query -> the answer stored under its key, or Miss
    sess         \* session -> what the handler holds

rows == <<state, current>>
vars == <<state, current, embedded, tasks, cache, sess>>

-----------------------------------------------------------------------------
Prefixes == {"search:kw", "search:sem"}

Session ==
    [pc    : {"idle", "keyword", "semantic", "store",
              "committed", "invalidating"},
     query : Queries \union {NoQuery},
     found : SUBSET Versions,              \* the answer so far
     res   : Resources \union {NoResource},
     doing : {"search", "publish", "delete"},
     todo  : SUBSET Prefixes,              \* patterns still to invalidate
     seen  : SUBSET Versions]              \* versions that will be tombstoned

Idle == [pc |-> "idle", query |-> NoQuery, found |-> {}, res |-> NoResource,
         doing |-> "search", todo |-> {}, seen |-> {}]

At(s, point) == sess[s].pc = point
Continue(s, next) == sess' = [sess EXCEPT ![s] = next]

Init ==
    /\ state = [v \in Versions |-> "draft"]
    /\ current = [r \in Resources |-> NoVersion]
    /\ embedded = {}
    /\ tasks = {}
    /\ cache = [q \in Queries |-> Miss]
    /\ sess = [s \in Sessions |-> Idle]

-----------------------------------------------------------------------------
(* What a search finds in the database.                                    *)

InScope(v, scope) == scope = NoScope \/ ScopeOf[BaseOf[v]] = scope

IsCurrent(v) == current[BaseOf[v]] = v

\* keyword_search joins the resource on its current version.
KeywordHits(scope) ==
    {v \in Versions : state[v] = "published" /\ IsCurrent(v) /\ InScope(v, scope)}

\* Mutant: the scope is ignored.
SemanticHitsAnywhere(scope) == {v \in embedded : state[v] = "published"}

\* search_by_vector does so only when a scope is given.
SemanticHits(scope) ==
    {v \in embedded : /\ state[v] = "published"
                      /\ InScope(v, scope)
                      /\ scope # NoScope => IsCurrent(v)}

\* The answers to a search of the database as it is.  "auto" adds the
\* semantic hits unless there are three keyword hits, which the text of the
\* query may bring about; encoding the query may fail.
Answers(q) ==
    LET kw == KeywordHits(q[2])
        sem == SemanticHits(q[2])
    IN  CASE q[1] = "keyword" -> {kw}
          [] q[1] = "semantic" -> {sem, {}}
          [] q[1] = "auto" -> {kw, kw \union sem}

-----------------------------------------------------------------------------
(* GET /search.                                                            *)

\* get_json finds nothing, or Redis fails: the database is asked.  A hit is
\* returned as it is and changes nothing.
SearchMiss(s, q) ==
    /\ At(s, "idle")
    /\ Continue(s, [Idle EXCEPT !.query = q,
                                !.pc = IF q[1] = "semantic"
                                       THEN "semantic" ELSE "keyword"])
    /\ UNCHANGED <<rows, embedded, tasks, cache>>

\* keyword_search.
SearchKeyword(s) ==
    LET q == sess[s].query
    IN  /\ At(s, "keyword")
        /\ \E pc \in {"store"} \union IF q[1] = "auto" THEN {"semantic"} ELSE {} :
              Continue(s, [sess[s] EXCEPT !.pc = pc, !.found = KeywordHits(q[2])])
        /\ UNCHANGED <<rows, embedded, tasks, cache>>

\* semantic_search, after the model has encoded the query, or failed to.
SearchSemantic(s) ==
    /\ At(s, "semantic")
    /\ \E sem \in {SemanticHits(sess[s].query[2]), {}} :
          Continue(s, [sess[s] EXCEPT !.pc = "store", !.found = @ \union sem])
    /\ UNCHANGED <<rows, embedded, tasks, cache>>

\* set_json stores the answer, unless Redis fails.
SearchStore(s) ==
    /\ At(s, "store")
    /\ cache' = [cache EXCEPT ![sess[s].query] = sess[s].found]
    /\ Continue(s, Idle)
    /\ UNCHANGED <<rows, embedded, tasks>>

\* Mutant: semantic answers are stored without a time to live.
ExpireKeyword(q) ==
    /\ q[1] # "semantic"
    /\ cache[q] # Miss
    /\ cache' = [cache EXCEPT ![q] = Miss]
    /\ UNCHANGED <<rows, embedded, tasks, sess>>

\* Redis drops the value when its time to live, 120 or 300 s, is over.
Expire(q) ==
    /\ cache[q] # Miss
    /\ cache' = [cache EXCEPT ![q] = Miss]
    /\ UNCHANGED <<rows, embedded, tasks, sess>>

-----------------------------------------------------------------------------
(* invalidate_scope.                                                       *)

\* Mutant: each mode has a prefix of its own.
PrefixOfMode(q) ==
    CASE q[1] = "keyword" -> "search:kw"
      [] q[1] = "semantic" -> "search:sem"
      [] q[1] = "auto" -> "search:auto"

\* The key prefix of a query: "auto" shares that of "keyword".
Prefix(q) == IF q[1] = "semantic" THEN "search:sem" ELSE "search:kw"

\* One pattern of the scope: SCAN returns every key that is there all the
\* time, and they are deleted.  Keys of unscoped queries do not match.
Invalidate(s, prefix) ==
    LET scope == ScopeOf[sess[s].res]
    IN  /\ At(s, "invalidating")
        /\ prefix \in sess[s].todo
        /\ prefix = "search:sem" => "search:kw" \notin sess[s].todo
        /\ cache' = [q \in Queries |->
                        IF Prefix(q) = prefix /\ q[2] = scope
                        THEN Miss ELSE cache[q]]
        /\ Continue(s, [sess[s] EXCEPT !.todo = @ \ {prefix}])
        /\ UNCHANGED <<rows, embedded, tasks>>

\* Redis fails: the rest is skipped and the handler goes on.
InvalidateFails(s) ==
    /\ At(s, "invalidating")
    /\ sess[s].todo # {}
    /\ Continue(s, [sess[s] EXCEPT !.todo = {}])
    /\ UNCHANGED <<rows, embedded, tasks, cache>>

-----------------------------------------------------------------------------
(* Handlers that change what is found.                                     *)

\* delete_resource has updated the row and has not ended.
Locked(v) == \E s \in Sessions : sess[s].doing = "delete" /\ v \in sess[s].seen

\* The commit of publish_resource.
PublishCommit(s, v) ==
    /\ At(s, "idle")
    /\ state[v] = "draft" /\ ~Locked(v)
    /\ state' = [state EXCEPT ![v] = "published"]
    /\ current' = [current EXCEPT ![BaseOf[v]] = v]
    /\ Continue(s, [Idle EXCEPT !.pc = "committed", !.doing = "publish",
                                !.res = BaseOf[v], !.seen = {v}])
    /\ UNCHANGED <<embedded, tasks, cache>>

\* publish_resource goes on: schedule_embedding_update starts a task, then
\* invalidate_scope begins.
PublishSchedule(s) ==
    /\ At(s, "committed")
    /\ tasks' = tasks \union sess[s].seen
    /\ Continue(s, [sess[s] EXCEPT !.pc = "invalidating", !.todo = Prefixes])
    /\ UNCHANGED <<rows, embedded, cache>>

PublishAnswer(s) ==
    /\ At(s, "invalidating")
    /\ sess[s].doing = "publish"
    /\ sess[s].todo = {}
    /\ Continue(s, Idle)
    /\ UNCHANGED <<rows, embedded, tasks, cache>>

\* deprecate_resource, and delete_version of a version that is no draft:
\* neither touches the cache or current_version_id.
Retire(v) ==
    /\ state[v] = "published" /\ ~Locked(v)
    /\ state' = [state EXCEPT ![v] = "deprecated"]
    /\ UNCHANGED <<current, embedded, tasks, cache, sess>>

\* Mutant: the semantic answers are not invalidated.
DeleteResourceReadKeyword(s, r) ==
    /\ At(s, "idle")
    /\ \A v \in Versions : BaseOf[v] = r => ~Locked(v)
    /\ Continue(s, [Idle EXCEPT !.pc = "invalidating", !.doing = "delete",
                                !.res = r, !.todo = {"search:kw"},
                                !.seen = {v \in Versions : BaseOf[v] = r}])
    /\ UNCHANGED <<rows, embedded, tasks, cache>>

\* delete_resource has marked every version it found, has set the current
\* version to NULL and has not committed; it calls invalidate_scope first.
DeleteResourceRead(s, r) ==
    /\ At(s, "idle")
    /\ \A v \in Versions : BaseOf[v] = r => ~Locked(v)
    /\ Continue(s, [Idle EXCEPT !.pc = "invalidating", !.doing = "delete",
                                !.res = r, !.todo = Prefixes,
                                !.seen = {v \in Versions : BaseOf[v] = r}])
    /\ UNCHANGED <<rows, embedded, tasks, cache>>

DeleteResourceCommit(s) ==
    /\ At(s, "invalidating")
    /\ sess[s].doing = "delete"
    /\ sess[s].todo = {}
    /\ state' = [v \in Versions |->
                    IF v \in sess[s].seen THEN "deprecated" ELSE state[v]]
    /\ current' = [current EXCEPT ![sess[s].res] = NoVersion]
    /\ Continue(s, Idle)
    /\ UNCHANGED <<embedded, tasks, cache>>

\* update_embedding encodes the text and commits the vector ...
Embed(v) ==
    /\ v \in tasks
    /\ embedded' = embedded \union {v}
    /\ tasks' = tasks \ {v}
    /\ UNCHANGED <<rows, cache, sess>>

\* ... or fails, or dies with the process: nothing tries again.
EmbedFails(v) ==
    /\ v \in tasks
    /\ tasks' = tasks \ {v}
    /\ UNCHANGED <<rows, embedded, cache, sess>>

\* The request is cancelled, the process dies, the database or Redis fails.
Abort(s) ==
    /\ ~At(s, "idle")
    /\ Continue(s, Idle)
    /\ UNCHANGED <<rows, embedded, tasks, cache>>

-----------------------------------------------------------------------------
Begin(s) ==
    \/ \E q \in Queries : SearchMiss(s, q)
    \/ \E v \in Versions : PublishCommit(s, v)
    \/ \E r \in Resources : DeleteResourceRead(s, r)

Proceed(s) ==
    \/ SearchKeyword(s) \/ SearchSemantic(s) \/ SearchStore(s)
    \/ PublishSchedule(s) \/ PublishAnswer(s)
    \/ \E prefix \in Prefixes : Invalidate(s, prefix)
    \/ DeleteResourceCommit(s)

Elsewhere ==
    \/ \E v \in Versions : Retire(v) \/ Embed(v) \/ EmbedFails(v)
    \/ \E q \in Queries : Expire(q)

Fails(s) == InvalidateFails(s) \/ Abort(s)

NextUndisturbed == Elsewhere \/ \E s \in Sessions : Begin(s) \/ Proceed(s)

Next == NextUndisturbed \/ \E s \in Sessions : Fails(s)

\* Every key has a time to live, and a request ends, in an answer or in an
\* error.  Nothing is assumed of the embedding tasks.
Spec ==
    /\ Init /\ [][Next]_vars
    /\ \A q \in Queries : WF_vars(Expire(q))
    /\ \A s \in Sessions : WF_vars(Proceed(s) \/ Fails(s))

\* The same while requests complete and Redis is up.
SpecUndisturbed == Init /\ [][NextUndisturbed]_vars

-----------------------------------------------------------------------------
TypeOK ==
    /\ state \in [Versions -> {"draft", "published", "deprecated"}]
    /\ current \in [Resources -> Versions \union {NoVersion}]
    /\ embedded \subseteq Versions
    /\ tasks \subseteq Versions
    /\ cache \in [Queries -> {Miss} \union SUBSET Versions]
    /\ sess \in [Sessions -> Session]

(***************************************************************************)
(* However searches, publications, deletions and failures overlap, a       *)
(* cached answer shows no version that was still a draft or is of another  *)
(* scope than the query's, and a semantic one only versions with an        *)
(* embedding.                                                              *)
(***************************************************************************)
CachedWasFound ==
    \A q \in Queries : cache[q] # Miss =>
        \A v \in cache[q] :
            /\ state[v] # "draft"
            /\ InScope(v, q[2])
            /\ q[1] = "semantic" => v \in embedded

\* The time to live bounds every staleness: once the catalogue no longer
\* changes, what the cache holds is what the database would answer, for
\* unscoped queries, which nothing invalidates, and after any failure too.
EventuallyFresh ==
    \A q \in Queries : <>[](cache[q] # Miss => cache[q] \in Answers(q))

-----------------------------------------------------------------------------
(* One request at a time, undisturbed.                                     *)

ScopedTo(r) == {q \in Queries : q[2] = ScopeOf[r] /\ cache[q] # Miss}

\* Once publish_resource has answered, a keyword or auto search of the scope
\* finds the version, from the cache as well.
PublishedIsFound ==
    \A v \in Versions :
        /\ state[v] = "published" /\ IsCurrent(v)
        /\ \A s \in Sessions : v \in sess[s].seen => sess[s].doing # "publish"
        => \A q \in ScopedTo(BaseOf[v]) : q[1] # "semantic" => v \in cache[q]

Deleted(r) ==
    /\ current[r] = NoVersion
    /\ \A v \in Versions : BaseOf[v] = r => state[v] = "deprecated"

\* Once delete_resource has committed, no search of the scope finds a version
\* of the resource.
DeletedIsForgotten ==
    \A r \in Resources : Deleted(r) =>
        \A q \in ScopedTo(r) : \A v \in cache[q] : BaseOf[v] # r

-----------------------------------------------------------------------------
(* What the documentation says, and overlapping requests do not keep       *)
(* (docs/index.html).                                                      *)

\* "The cache is invalidated when a resource in the same scope is published
\* or deleted": when a delete commits and no search is under way, the scope's
\* cache does not hold the resource.
DeleteInvalidates ==
    [][\A r \in Resources :
          /\ ~Deleted(r) /\ Deleted(r)'
          /\ \A s \in Sessions : sess[s].doing = "search" => At(s, "idle")
          => \A q \in ScopedTo(r) : \A v \in cache[q] : BaseOf[v] # r]_vars
=============================================================================
