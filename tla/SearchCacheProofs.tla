------------------------- MODULE SearchCacheProofs -------------------------
(***************************************************************************)
(* Theorems about SearchCache, for any resources, versions, queries and    *)
(* requests in flight.                                                     *)
(***************************************************************************)
EXTENDS SearchTurns, TLAPS

USE QueriesAreQueries, VersionsHaveBases, ResourcesHaveScopes, NullsAreNoValues

-----------------------------------------------------------------------------
(* The inductive invariant: not only what the cache holds was found, but   *)
(* also what a search has found so far, which it will store later.         *)

Finds(q, v) ==
    /\ state[v] # "draft"
    /\ InScope(v, q[2])
    /\ q[1] = "semantic" => v \in embedded

FoundWasFound == \A s \in Sessions : \A v \in sess[s].found : Finds(sess[s].query, v)

\* A search has a query, and one by keywords is not of the semantic mode.
Searching(r) ==
    /\ r.pc \in {"keyword", "semantic", "store"} => r.query \in Queries
    /\ r.pc = "keyword" => r.query[1] # "semantic"

SearchesAreProper == \A s \in Sessions : Searching(sess[s])

SearchInv ==
    /\ TypeOK
    /\ SearchesAreProper
    /\ FoundWasFound
    /\ CachedWasFound

LEMMA InitSearch == Init => SearchInv
<1>. SUFFICES ASSUME Init
              PROVE  SearchInv
  OBVIOUS
<1>1. TypeOK
  BY DEF Init, TypeOK, Idle, Session
<1>2. SearchesAreProper /\ FoundWasFound
  BY DEF Init, SearchesAreProper, Searching, FoundWasFound, Idle
<1>3. CachedWasFound
  BY DEF Init, CachedWasFound
<1>4. QED
  BY <1>1, <1>2, <1>3 DEF SearchInv

-----------------------------------------------------------------------------
(* What groups of actions do.                                              *)

\* No version becomes a draft again, and no embedding is taken away.
Onward ==
    /\ \A v \in Versions : state[v] # "draft" => state'[v] # "draft"
    /\ embedded \subseteq embedded'

LEMMA FindsStays ==
    ASSUME Onward, NEW q, NEW v \in Versions, Finds(q, v)
    PROVE  Finds(q, v)'
BY DEF Onward, Finds, InScope

\* A step of one session that leaves the rows alone, or moves them onward.
LEMMA SessionStep ==
    ASSUME SearchInv, Onward, NEW s \in Sessions, NEW r \in Session, Continue(s, r),
           Searching(r),
           \A v \in r.found : Finds(r.query, v)
    PROVE  SearchesAreProper' /\ FoundWasFound' /\ sess' \in [Sessions -> Session]
<1>1. /\ sess' \in [Sessions -> Session]
      /\ \A t \in Sessions : sess'[t] = IF t = s THEN r ELSE sess[t]
  BY DEF SearchInv, TypeOK, Continue
<1>2. SearchesAreProper'
  BY <1>1 DEF SearchInv, SearchesAreProper
<1>3. ASSUME NEW t \in Sessions, NEW v \in sess'[t].found
      PROVE  Finds(sess[t].query, v)'
  <2>. DEFINE q == sess'[t].query
  <2>1. v \in Versions /\ Finds(q, v)
    <3>1. CASE t = s
      BY <1>1, <1>3, <3>1 DEF Session
    <3>2. CASE t # s
      BY <1>1, <1>3, <3>2 DEF SearchInv, TypeOK, Session, FoundWasFound
    <3>3. QED
      BY <3>1, <3>2
  <2>2. PICK p : p = q
    OBVIOUS
  <2>3. Finds(p, v)'
    BY <2>1, <2>2, FindsStays
  <2>4. QED
    BY <2>2, <2>3 DEF Finds
<1>4. QED
  BY <1>1, <1>2, <1>3 DEF FoundWasFound

\* Steps that store nothing, whatever they drop from the cache.
LEMMA CacheStays ==
    ASSUME SearchInv, Onward,
           cache' \in [Queries -> {Miss} \union SUBSET Versions],
           \A q \in Queries : cache'[q] \in {cache[q], Miss}
    PROVE  CachedWasFound'
<1>1. ASSUME NEW q \in Queries, cache'[q] # Miss, NEW v \in cache'[q]
      PROVE  Finds(q, v)'
  <2>1. cache[q] = cache'[q] /\ v \in Versions
    BY <1>1 DEF SearchInv, TypeOK
  <2>2. Finds(q, v)
    BY <1>1, <2>1 DEF SearchInv, CachedWasFound, Finds
  <2>3. QED
    BY <2>1, <2>2, FindsStays
<1>2. QED
  BY <1>1 DEF CachedWasFound, Finds

-----------------------------------------------------------------------------
(* Searches.                                                               *)

LEMMA IdleIsProper == Idle \in Session /\ Searching(Idle) /\ Idle.found = {}
BY DEF Idle, Session, Searching

LEMMA SameRows == SearchInv /\ UNCHANGED <<rows, embedded>> => Onward
BY DEF Onward, rows

LEMMA SearchMissKeeps ==
    ASSUME SearchInv, NEW s \in Sessions, NEW q \in Queries, SearchMiss(s, q)
    PROVE  SearchInv'
<1>. DEFINE r == [Idle EXCEPT !.query = q,
                              !.pc = IF q[1] = "semantic" THEN "semantic" ELSE "keyword"]
<1>1. r \in Session /\ Searching(r) /\ r.found = {}
  BY DEF Idle, Session, Searching
<1>2. Onward
  BY SameRows DEF SearchMiss
<1>3. Continue(s, r)
  BY DEF SearchMiss
<1>. HIDE DEF r
<1>4. SearchesAreProper' /\ FoundWasFound' /\ sess' \in [Sessions -> Session]
  BY <1>1, <1>2, <1>3, SessionStep
<1>5. CachedWasFound'
  BY <1>2, CacheStays DEF SearchMiss, SearchInv, TypeOK
<1>6. QED
  BY <1>4, <1>5 DEF SearchMiss, SearchInv, TypeOK, rows

LEMMA HitsAreFound ==
    ASSUME SearchInv, NEW q \in Queries
    PROVE  /\ KeywordHits(q[2]) \subseteq Versions
           /\ SemanticHits(q[2]) \subseteq Versions
           /\ q[1] # "semantic" => \A v \in KeywordHits(q[2]) : Finds(q, v)
           /\ \A v \in SemanticHits(q[2]) : Finds(q, v)
BY DEF SearchInv, TypeOK, KeywordHits, SemanticHits, Finds

LEMMA SearchKeywordKeeps ==
    ASSUME SearchInv, NEW s \in Sessions, SearchKeyword(s)
    PROVE  SearchInv'
<1>. DEFINE q == sess[s].query
<1>1. PICK pc \in {"store"} \union IF q[1] = "auto" THEN {"semantic"} ELSE {} :
          Continue(s, [sess[s] EXCEPT !.pc = pc, !.found = KeywordHits(q[2])])
  BY DEF SearchKeyword
<1>. DEFINE r == [sess[s] EXCEPT !.pc = pc, !.found = KeywordHits(q[2])]
<1>2. sess[s] \in Session /\ q \in Queries /\ q[1] # "semantic"
  BY DEF SearchInv, TypeOK, SearchesAreProper, Searching, SearchKeyword, At
<1>3. pc \in {"store", "semantic"}
  BY <1>1
<1>4. /\ KeywordHits(q[2]) \subseteq Versions
      /\ \A v \in KeywordHits(q[2]) : Finds(q, v)
  BY <1>2, HitsAreFound
<1>5. /\ r \in Session /\ r.query = q /\ r.found = KeywordHits(q[2]) /\ r.pc = pc
  BY <1>2, <1>3, <1>4 DEF Session
<1>6. Searching(r)
  BY <1>2, <1>3, <1>5 DEF Searching
<1>7. Onward
  BY SameRows DEF SearchKeyword
<1>8. Continue(s, r)
  BY <1>1
<1>. HIDE DEF r
<1>9. \A v \in r.found : Finds(r.query, v)
  BY <1>4, <1>5
<1>. HIDE DEF q
<1>10. SearchesAreProper' /\ FoundWasFound' /\ sess' \in [Sessions -> Session]
  BY <1>5, <1>6, <1>7, <1>8, <1>9, SessionStep
<1>11. CachedWasFound'
  BY <1>7, CacheStays DEF SearchKeyword, SearchInv, TypeOK
<1>12. QED
  BY <1>10, <1>11 DEF SearchKeyword, SearchInv, TypeOK, rows

LEMMA SearchSemanticKeeps ==
    ASSUME SearchInv, NEW s \in Sessions, SearchSemantic(s)
    PROVE  SearchInv'
<1>. DEFINE q == sess[s].query
<1>1. PICK sem \in {SemanticHits(q[2]), {}} :
          Continue(s, [sess[s] EXCEPT !.pc = "store", !.found = @ \union sem])
  BY DEF SearchSemantic
<1>. DEFINE r == [sess[s] EXCEPT !.pc = "store", !.found = @ \union sem]
<1>2. sess[s] \in Session /\ q \in Queries
  BY DEF SearchInv, TypeOK, SearchesAreProper, Searching, SearchSemantic, At
<1>3. sem \subseteq Versions /\ \A v \in sem : Finds(q, v)
  BY <1>1, <1>2, HitsAreFound
<1>4. /\ r \in Session /\ r.query = q /\ r.found = sess[s].found \union sem
      /\ r.pc = "store"
  BY <1>2, <1>3 DEF Session
<1>5. Searching(r)
  BY <1>2, <1>4 DEF Searching
<1>6. Onward
  BY SameRows DEF SearchSemantic
<1>7. Continue(s, r)
  BY <1>1
<1>. HIDE DEF r
<1>8. \A v \in r.found : Finds(r.query, v)
  BY <1>3, <1>4 DEF SearchInv, FoundWasFound
<1>. HIDE DEF q
<1>9. SearchesAreProper' /\ FoundWasFound' /\ sess' \in [Sessions -> Session]
  BY <1>4, <1>5, <1>6, <1>7, <1>8, SessionStep
<1>10. CachedWasFound'
  BY <1>6, CacheStays DEF SearchSemantic, SearchInv, TypeOK
<1>11. QED
  BY <1>9, <1>10 DEF SearchSemantic, SearchInv, TypeOK, rows

LEMMA SearchStoreKeeps ==
    ASSUME SearchInv, NEW s \in Sessions, SearchStore(s)
    PROVE  SearchInv'
<1>1. Onward
  BY SameRows DEF SearchStore
<1>2. SearchesAreProper' /\ FoundWasFound' /\ sess' \in [Sessions -> Session]
  BY <1>1, IdleIsProper, SessionStep DEF SearchStore
<1>3. sess[s].query \in Queries /\ sess[s].found \subseteq Versions
  BY DEF SearchInv, TypeOK, Session, SearchesAreProper, Searching, SearchStore, At
<1>4. /\ cache' \in [Queries -> {Miss} \union SUBSET Versions]
      /\ cache'[sess[s].query] = sess[s].found
      /\ \A q \in Queries : q # sess[s].query => cache'[q] = cache[q]
  BY <1>3 DEF SearchStore, SearchInv, TypeOK
<1>5. ASSUME NEW q \in Queries, cache'[q] # Miss, NEW v \in cache'[q]
      PROVE  Finds(q, v)
  <2>1. CASE q = sess[s].query
    BY <1>4, <1>5, <2>1 DEF SearchInv, FoundWasFound
  <2>2. CASE q # sess[s].query
    BY <1>4, <1>5, <2>2 DEF SearchInv, CachedWasFound, Finds
  <2>3. QED
    BY <2>1, <2>2
<1>6. CachedWasFound'
  <2>1. ASSUME NEW q \in Queries, cache'[q] # Miss, NEW v \in cache'[q]
        PROVE  Finds(q, v)'
    BY <1>1, <1>4, <1>5, <2>1, FindsStays
  <2>2. QED
    BY <2>1 DEF CachedWasFound, Finds
<1>7. QED
  BY <1>2, <1>4, <1>6 DEF SearchStore, SearchInv, TypeOK, rows

-----------------------------------------------------------------------------
(* Steps that store nothing.                                               *)

TypesStay ==
    /\ state' \in [Versions -> {"draft", "published", "deprecated"}]
    /\ current' \in [Resources -> Versions \union {NoVersion}]
    /\ embedded' \subseteq Versions
    /\ tasks' \subseteq Versions
    /\ cache' \in [Queries -> {Miss} \union SUBSET Versions]
    /\ \A q \in Queries : cache'[q] \in {cache[q], Miss}

\* A step of a handler, whose record holds no search, or of a search that ends.
LEMMA HandlerStep ==
    ASSUME SearchInv, Onward, TypesStay, NEW s \in Sessions, NEW r \in Session,
           Continue(s, r),
           r.pc \notin {"keyword", "semantic", "store"},
           r.found \subseteq sess[s].found,
           r.query = sess[s].query \/ r.found = {}
    PROVE  SearchInv'
<1>1. Searching(r)
  BY DEF Searching
<1>2. \A v \in r.found : Finds(r.query, v)
  BY DEF SearchInv, FoundWasFound
<1>3. SearchesAreProper' /\ FoundWasFound' /\ sess' \in [Sessions -> Session]
  BY <1>1, <1>2, SessionStep
<1>4. CachedWasFound'
  BY CacheStays DEF TypesStay
<1>5. QED
  BY <1>3, <1>4 DEF TypesStay, SearchInv, TypeOK

\* A step that no request takes.
LEMMA BackgroundStep ==
    ASSUME SearchInv, Onward, TypesStay, UNCHANGED sess
    PROVE  SearchInv'
<1>1. SearchesAreProper'
  BY DEF SearchInv, SearchesAreProper
<1>2. ASSUME NEW s \in Sessions, NEW v \in sess'[s].found
      PROVE  Finds(sess[s].query, v)'
  <2>1. v \in Versions /\ Finds(sess[s].query, v)
    BY <1>2 DEF SearchInv, TypeOK, Session, FoundWasFound
  <2>2. PICK p : p = sess[s].query
    OBVIOUS
  <2>3. Finds(p, v)'
    BY <2>1, <2>2, FindsStays
  <2>4. QED
    BY <2>2, <2>3 DEF Finds
<1>3. CachedWasFound'
  BY CacheStays DEF TypesStay
<1>4. QED
  BY <1>1, <1>2, <1>3 DEF TypesStay, SearchInv, TypeOK, FoundWasFound

LEMMA ExpireKeeps ==
    ASSUME SearchInv, NEW q \in Queries, Expire(q)
    PROVE  SearchInv'
<1>1. Onward
  BY SameRows DEF Expire
<1>2. TypesStay
  BY DEF Expire, TypesStay, SearchInv, TypeOK, rows
<1>3. QED
  BY <1>1, <1>2, BackgroundStep DEF Expire

LEMMA RetireKeeps ==
    ASSUME SearchInv, NEW v \in Versions, Retire(v)
    PROVE  SearchInv'
<1>1. Onward /\ TypesStay
  BY DEF Retire, Onward, TypesStay, SearchInv, TypeOK
<1>2. QED
  BY <1>1, BackgroundStep DEF Retire

LEMMA EmbedKeeps ==
    ASSUME SearchInv, NEW v \in Versions, Embed(v) \/ EmbedFails(v)
    PROVE  SearchInv'
<1>1. Onward /\ TypesStay /\ UNCHANGED sess
  BY DEF Embed, EmbedFails, Onward, TypesStay, SearchInv, TypeOK, rows
<1>2. QED
  BY <1>1, BackgroundStep

LEMMA InvalidateKeeps ==
    ASSUME SearchInv, NEW s \in Sessions,
           (\E prefix \in Prefixes : Invalidate(s, prefix)) \/ InvalidateFails(s)
    PROVE  SearchInv'
<1>1. PICK todo \in SUBSET Prefixes : Continue(s, [sess[s] EXCEPT !.todo = todo])
  <2>1. sess[s].todo \subseteq Prefixes
    BY DEF SearchInv, TypeOK, Session
  <2>2. QED
    BY <2>1 DEF Invalidate, InvalidateFails
<1>. DEFINE r == [sess[s] EXCEPT !.todo = todo]
<1>2. sess[s] \in Session /\ sess[s].pc = "invalidating"
  BY DEF SearchInv, TypeOK, Invalidate, InvalidateFails, At
<1>3. /\ r \in Session /\ r.pc = "invalidating" /\ r.found = sess[s].found
      /\ r.query = sess[s].query
  BY <1>2 DEF Session
<1>4. Onward
  BY SameRows DEF Invalidate, InvalidateFails
<1>5. TypesStay
  BY DEF Invalidate, InvalidateFails, TypesStay, SearchInv, TypeOK, rows
<1>. HIDE DEF r
<1>6. QED
  BY <1>1, <1>3, <1>4, <1>5, HandlerStep DEF r

LEMMA EndKeeps ==
    ASSUME SearchInv, NEW s \in Sessions, PublishAnswer(s) \/ Abort(s)
    PROVE  SearchInv'
<1>1. Onward
  BY SameRows DEF PublishAnswer, Abort
<1>2. TypesStay /\ Continue(s, Idle)
  BY DEF PublishAnswer, Abort, TypesStay, SearchInv, TypeOK, rows
<1>3. Idle.pc = "idle"
  BY DEF Idle
<1>4. QED
  BY <1>1, <1>2, <1>3, IdleIsProper, HandlerStep

LEMMA PublishCommitKeeps ==
    ASSUME SearchInv, NEW s \in Sessions, NEW v \in Versions, PublishCommit(s, v)
    PROVE  SearchInv'
<1>. DEFINE r == [Idle EXCEPT !.pc = "committed", !.doing = "publish",
                              !.res = BaseOf[v], !.seen = {v}]
<1>1. r \in Session /\ r.pc = "committed" /\ r.found = {}
  BY DEF Idle, Session
<1>2. Onward /\ TypesStay
  BY DEF PublishCommit, Onward, TypesStay, SearchInv, TypeOK
<1>3. Continue(s, r)
  BY DEF PublishCommit
<1>. HIDE DEF r
<1>4. QED
  BY <1>1, <1>2, <1>3, HandlerStep

LEMMA PublishScheduleKeeps ==
    ASSUME SearchInv, NEW s \in Sessions, PublishSchedule(s)
    PROVE  SearchInv'
<1>. DEFINE r == [sess[s] EXCEPT !.pc = "invalidating", !.todo = Prefixes]
<1>1. sess[s] \in Session
  BY DEF SearchInv, TypeOK
<1>2. /\ r \in Session /\ r.pc = "invalidating" /\ r.found = sess[s].found
      /\ r.query = sess[s].query
  BY <1>1 DEF Session
<1>3. Onward
  BY SameRows DEF PublishSchedule
<1>4. TypesStay
  BY <1>1 DEF PublishSchedule, TypesStay, SearchInv, TypeOK, rows, Session
<1>5. Continue(s, r)
  BY DEF PublishSchedule
<1>. HIDE DEF r
<1>6. QED
  BY <1>2, <1>3, <1>4, <1>5, HandlerStep

LEMMA DeleteReadKeeps ==
    ASSUME SearchInv, NEW s \in Sessions, NEW b \in Resources, DeleteResourceRead(s, b)
    PROVE  SearchInv'
<1>. DEFINE r == [Idle EXCEPT !.pc = "invalidating", !.doing = "delete", !.res = b,
                              !.todo = Prefixes,
                              !.seen = {v \in Versions : BaseOf[v] = b}]
<1>1. r \in Session /\ r.pc = "invalidating" /\ r.found = {}
  BY DEF Idle, Session
<1>2. Onward
  BY SameRows DEF DeleteResourceRead
<1>3. TypesStay
  BY DEF DeleteResourceRead, TypesStay, SearchInv, TypeOK, rows
<1>4. Continue(s, r)
  BY DEF DeleteResourceRead
<1>. HIDE DEF r
<1>5. QED
  BY <1>1, <1>2, <1>3, <1>4, HandlerStep

LEMMA DeleteCommitKeeps ==
    ASSUME SearchInv, NEW s \in Sessions, DeleteResourceCommit(s)
    PROVE  SearchInv'
<1>1. Onward /\ TypesStay
  BY DEF DeleteResourceCommit, Onward, TypesStay, SearchInv, TypeOK
<1>2. Idle.pc = "idle" /\ Continue(s, Idle)
  BY DEF Idle, DeleteResourceCommit
<1>3. QED
  BY <1>1, <1>2, IdleIsProper, HandlerStep

-----------------------------------------------------------------------------
LEMMA NextSearch == SearchInv /\ [Next]_vars => SearchInv'
<1>. SUFFICES ASSUME SearchInv, [Next]_vars
              PROVE  SearchInv'
  OBVIOUS
<1>1. CASE Elsewhere
  BY <1>1, ExpireKeeps, RetireKeeps, EmbedKeeps DEF Elsewhere
<1>2. ASSUME NEW s \in Sessions, Begin(s)
      PROVE  SearchInv'
  BY <1>2, SearchMissKeeps, PublishCommitKeeps, DeleteReadKeeps DEF Begin
<1>3. ASSUME NEW s \in Sessions, Proceed(s)
      PROVE  SearchInv'
  BY <1>3, SearchKeywordKeeps, SearchSemanticKeeps, SearchStoreKeeps, PublishScheduleKeeps,
     EndKeeps, InvalidateKeeps, DeleteCommitKeeps DEF Proceed
<1>4. ASSUME NEW s \in Sessions, Fails(s)
      PROVE  SearchInv'
  BY <1>4, InvalidateKeeps, EndKeeps DEF Fails
<1>5. CASE UNCHANGED vars
  BY <1>5 DEF vars, SearchInv, TypeOK, SearchesAreProper, Searching, FoundWasFound, Finds,
              CachedWasFound, InScope, rows
<1>6. QED
  BY <1>1, <1>2, <1>3, <1>4, <1>5 DEF Next, NextUndisturbed

\* However searches, publish_resource, delete_resource and failures overlap, no
\* cached answer shows a draft, a version of another scope or, from a semantic
\* search, one without an embedding.
THEOREM CacheShowsWhatWasFound == Spec => []CachedWasFound
<1>1. SearchInv => CachedWasFound
  BY DEF SearchInv
<1>2. QED
  BY <1>1, InitSearch, NextSearch, PTL DEF Spec

-----------------------------------------------------------------------------
(* What is stale comes from searches that read before the catalogue        *)
(* changed, and nothing that reads later adds to it.                       *)

IsFresh(q) == cache[q] # Miss => cache[q] \in Answers(q)

\* What a search has found so far is what it would find now.
UpToDate(r) ==
    /\ r.pc = "semantic" =>
          \/ r.query[1] = "auto" /\ r.found = KeywordHits(r.query[2])
          \/ r.query[1] = "semantic" /\ r.found = {}
    /\ r.pc = "store" => r.found \in Answers(r.query)

NoStaleSearch(q) == \A s \in Sessions : sess[s].query = q => UpToDate(sess[s])

\* While the rows and the embeddings do not change, an entry of the cache turns
\* stale only when a search of its query is under way that had read before.
OnlyStaleSearchesSpoil ==
    [][UNCHANGED <<rows, embedded>> =>
          \A q \in Queries : NoStaleSearch(q) =>
              NoStaleSearch(q)' /\ (IsFresh(q) => IsFresh(q)')]_vars

LEMMA SameAnswers ==
    ASSUME UNCHANGED <<rows, embedded>>, NEW q
    PROVE  /\ KeywordHits(q[2])' = KeywordHits(q[2])
           /\ Answers(q)' = Answers(q)
BY DEF Answers, KeywordHits, SemanticHits, IsCurrent, InScope, rows

LEMMA UpToDateStays ==
    ASSUME UNCHANGED <<rows, embedded>>, NEW r, UpToDate(r)
    PROVE  UpToDate(r)'
<1>1. PICK q : q = r.query
  OBVIOUS
<1>2. KeywordHits(q[2])' = KeywordHits(q[2]) /\ Answers(q)' = Answers(q)
  BY SameAnswers
<1>3. QED
  BY <1>1, <1>2 DEF UpToDate

LEMMA SessionStaysFresh ==
    ASSUME SearchInv, UNCHANGED <<rows, embedded>>, NEW s \in Sessions, NEW r,
           Continue(s, r), NEW q \in Queries, NoStaleSearch(q), r.query = q => UpToDate(r)
    PROVE  NoStaleSearch(q)'
<1>1. ASSUME NEW t \in Sessions, sess'[t].query = q
      PROVE  UpToDate(sess[t])'
  <2>1. PICK p : p = sess'[t]
    OBVIOUS
  <2>2. UpToDate(p)
    BY <1>1, <2>1 DEF SearchInv, TypeOK, Continue, NoStaleSearch
  <2>3. UpToDate(p)'
    BY <2>2, UpToDateStays
  <2>4. QED
    BY <2>1, <2>3 DEF UpToDate
<1>2. QED
  BY <1>1 DEF NoStaleSearch

\* Steps that store nothing.
LEMMA EntryStaysFresh ==
    ASSUME UNCHANGED <<rows, embedded>>, NEW q \in Queries, IsFresh(q),
           cache'[q] \in {cache[q], Miss}
    PROVE  IsFresh(q)'
BY SameAnswers DEF IsFresh

LEMMA FoundIsUpToDate ==
    ASSUME SearchInv, NEW s \in Sessions, NEW q \in Queries, NoStaleSearch(q),
           sess[s].query = q, SearchKeyword(s) \/ SearchSemantic(s)
    PROVE  \E r : Continue(s, r) /\ UpToDate(r)
<1>1. sess[s] \in Session /\ q[1] \in Modes
  BY DEF SearchInv, TypeOK
<1>2. CASE SearchKeyword(s)
  <2>1. PICK pc \in {"store"} \union IF q[1] = "auto" THEN {"semantic"} ELSE {} :
            Continue(s, [sess[s] EXCEPT !.pc = pc, !.found = KeywordHits(q[2])])
    BY <1>2 DEF SearchKeyword
  <2>. DEFINE r == [sess[s] EXCEPT !.pc = pc, !.found = KeywordHits(q[2])]
  <2>2. r.pc = pc /\ r.query = q /\ r.found = KeywordHits(q[2])
    BY <1>1 DEF Session
  <2>3. q[1] \in {"keyword", "auto"}
    BY <1>1, <1>2 DEF Modes, SearchInv, SearchesAreProper, Searching, SearchKeyword, At
  <2>4. pc \in {"store", "semantic"} /\ (pc = "semantic" => q[1] = "auto")
    BY <2>1
  <2>5. KeywordHits(q[2]) \in Answers(q)
    BY <2>3 DEF Answers
  <2>6. Continue(s, r)
    BY <2>1
  <2>. HIDE DEF r
  <2>7. UpToDate(r)
    BY <2>2, <2>4, <2>5 DEF UpToDate
  <2>8. QED
    BY <2>6, <2>7
<1>3. CASE SearchSemantic(s)
  <2>1. PICK sem \in {SemanticHits(q[2]), {}} :
            Continue(s, [sess[s] EXCEPT !.pc = "store", !.found = @ \union sem])
    BY <1>3 DEF SearchSemantic
  <2>. DEFINE r == [sess[s] EXCEPT !.pc = "store", !.found = @ \union sem]
  <2>2. r.pc = "store" /\ r.query = q /\ r.found = sess[s].found \union sem
    BY <1>1 DEF Session
  <2>3. \/ q[1] = "auto" /\ sess[s].found = KeywordHits(q[2])
        \/ q[1] = "semantic" /\ sess[s].found = {}
    BY <1>3 DEF NoStaleSearch, UpToDate, SearchSemantic, At
  <2>4. r.found \in Answers(q)
    BY <2>1, <2>2, <2>3 DEF Answers
  <2>5. Continue(s, r)
    BY <2>1
  <2>. HIDE DEF r
  <2>6. UpToDate(r)
    BY <2>2, <2>4 DEF UpToDate
  <2>7. QED
    BY <2>5, <2>6
<1>4. QED
  BY <1>2, <1>3

\* A search that begins has found nothing, and a handler is no search.
LEMMA OthersAreUpToDate ==
    ASSUME SearchInv, NEW s \in Sessions,
           \/ \E q \in Queries : SearchMiss(s, q)
           \/ \E v \in Versions : PublishCommit(s, v)
           \/ \E b \in Resources : DeleteResourceRead(s, b)
           \/ SearchStore(s) \/ PublishSchedule(s) \/ PublishAnswer(s)
           \/ \E prefix \in Prefixes : Invalidate(s, prefix)
           \/ DeleteResourceCommit(s) \/ InvalidateFails(s) \/ Abort(s)
    PROVE  \E r : Continue(s, r) /\ UpToDate(r)
<1>1. sess[s] \in Session
  BY DEF SearchInv, TypeOK
<1>2. ASSUME NEW q \in Queries, SearchMiss(s, q)
      PROVE  \E r : Continue(s, r) /\ UpToDate(r)
  <2>. DEFINE r == [Idle EXCEPT !.query = q,
                                !.pc = IF q[1] = "semantic"
                                       THEN "semantic" ELSE "keyword"]
  <2>1. /\ r.pc = IF q[1] = "semantic" THEN "semantic" ELSE "keyword"
        /\ r.query = q /\ r.found = {}
    BY DEF Idle
  <2>2. Continue(s, r)
    BY <1>2 DEF SearchMiss
  <2>. HIDE DEF r
  <2>3. UpToDate(r)
    BY <2>1 DEF UpToDate
  <2>4. QED
    BY <2>2, <2>3
<1>3. ASSUME NEW r, Continue(s, r), r.pc \notin {"semantic", "store"}
      PROVE  \E n : Continue(s, n) /\ UpToDate(n)
  BY <1>3 DEF UpToDate
<1>4. Idle.pc = "idle"
  BY DEF Idle
<1>5. CASE SearchStore(s) \/ PublishAnswer(s) \/ DeleteResourceCommit(s) \/ Abort(s)
  <2>1. Continue(s, Idle)
    BY <1>5 DEF SearchStore, PublishAnswer, DeleteResourceCommit, Abort
  <2>2. QED
    BY <1>3, <1>4, <2>1
<1>6. ASSUME NEW v \in Versions, PublishCommit(s, v)
      PROVE  \E r : Continue(s, r) /\ UpToDate(r)
  <2>. DEFINE r == [Idle EXCEPT !.pc = "committed", !.doing = "publish",
                                !.res = BaseOf[v], !.seen = {v}]
  <2>1. r.pc = "committed"
    BY DEF Idle
  <2>2. Continue(s, r)
    BY <1>6 DEF PublishCommit
  <2>. HIDE DEF r
  <2>3. QED
    BY <1>3, <2>1, <2>2
<1>7. ASSUME NEW b \in Resources, DeleteResourceRead(s, b)
      PROVE  \E r : Continue(s, r) /\ UpToDate(r)
  <2>. DEFINE r == [Idle EXCEPT !.pc = "invalidating", !.doing = "delete", !.res = b,
                                !.todo = Prefixes,
                                !.seen = {v \in Versions : BaseOf[v] = b}]
  <2>1. r.pc = "invalidating"
    BY DEF Idle
  <2>2. Continue(s, r)
    BY <1>7 DEF DeleteResourceRead
  <2>. HIDE DEF r
  <2>3. QED
    BY <1>3, <2>1, <2>2
<1>8. CASE PublishSchedule(s)
  <2>. DEFINE r == [sess[s] EXCEPT !.pc = "invalidating", !.todo = Prefixes]
  <2>1. r.pc = "invalidating"
    BY <1>1 DEF Session
  <2>2. Continue(s, r)
    BY <1>8 DEF PublishSchedule
  <2>. HIDE DEF r
  <2>3. QED
    BY <1>3, <2>1, <2>2
<1>9. CASE (\E prefix \in Prefixes : Invalidate(s, prefix)) \/ InvalidateFails(s)
  <2>1. PICK todo : Continue(s, [sess[s] EXCEPT !.todo = todo])
    BY <1>9 DEF Invalidate, InvalidateFails
  <2>. DEFINE r == [sess[s] EXCEPT !.todo = todo]
  <2>2. r.pc = "invalidating"
    BY <1>1, <1>9 DEF Session, Invalidate, InvalidateFails, At
  <2>3. Continue(s, r)
    BY <2>1
  <2>. HIDE DEF r
  <2>4. QED
    BY <1>3, <2>2, <2>3
<1>10. QED
  BY <1>2, <1>5, <1>6, <1>7, <1>8, <1>9

\* What a session holds after a step of its own, unless it was stale before.
LEMMA StepIsUpToDate ==
    ASSUME SearchInv, NEW s \in Sessions, Begin(s) \/ Proceed(s) \/ Fails(s),
           NEW q \in Queries, NoStaleSearch(q)
    PROVE  \E r : Continue(s, r) /\ (r.query = q => UpToDate(r))
<1>1. CASE SearchKeyword(s) \/ SearchSemantic(s)
  <2>1. CASE sess[s].query = q
    BY <1>1, <2>1, FoundIsUpToDate
  <2>2. CASE sess[s].query # q
    <3>1. PICK pc, found : Continue(s, [sess[s] EXCEPT !.pc = pc, !.found = found])
      BY <1>1 DEF SearchKeyword, SearchSemantic
    <3>2. [sess[s] EXCEPT !.pc = pc, !.found = found].query = sess[s].query
      BY DEF SearchInv, TypeOK, Session
    <3>3. QED
      BY <2>2, <3>1, <3>2
  <2>3. QED
    BY <2>1, <2>2
<1>2. CASE ~(SearchKeyword(s) \/ SearchSemantic(s))
  <2>1. \E r : Continue(s, r) /\ UpToDate(r)
    BY <1>2, OthersAreUpToDate DEF Begin, Proceed, Fails
  <2>2. QED
    BY <2>1
<1>3. QED
  BY <1>1, <1>2

LEMMA EntryStep ==
    ASSUME SearchInv, [Next]_vars, UNCHANGED <<rows, embedded>>, NEW q \in Queries,
           NoStaleSearch(q), IsFresh(q)
    PROVE  IsFresh(q)'
<1>1. CASE \E s \in Sessions : SearchStore(s)
  <2>1. PICK s \in Sessions : SearchStore(s)
    BY <1>1
  <2>2. cache' = [cache EXCEPT ![sess[s].query] = sess[s].found]
    BY <2>1 DEF SearchStore
  <2>3. CASE sess[s].query = q
    <3>1. cache'[q] = sess[s].found /\ sess[s].found \in Answers(q)
      BY <2>1, <2>2, <2>3 DEF SearchInv, TypeOK, NoStaleSearch, UpToDate, SearchStore, At
    <3>2. QED
      BY <3>1, SameAnswers DEF IsFresh
  <2>4. CASE sess[s].query # q
    <3>1. cache'[q] = cache[q]
      BY <2>2, <2>4 DEF SearchInv, TypeOK
    <3>2. QED
      BY <3>1, EntryStaysFresh
  <2>5. QED
    BY <2>3, <2>4
<1>2. CASE ~\E s \in Sessions : SearchStore(s)
  <2>1. cache'[q] \in {cache[q], Miss}
    BY <1>2 DEF SearchInv, TypeOK, Next, NextUndisturbed, Begin, Proceed, Elsewhere, Fails,
       SearchMiss, SearchKeyword, SearchSemantic, PublishSchedule, PublishAnswer,
       PublishCommit, DeleteResourceRead, DeleteResourceCommit, Invalidate,
       InvalidateFails, Abort, Retire, Embed, EmbedFails, Expire, vars
  <2>2. QED
    BY <2>1, EntryStaysFresh
<1>3. QED
  BY <1>1, <1>2

LEMMA SearchesStep ==
    ASSUME SearchInv, [Next]_vars, UNCHANGED <<rows, embedded>>, NEW q \in Queries,
           NoStaleSearch(q)
    PROVE  NoStaleSearch(q)'
<1>1. ASSUME NEW s \in Sessions, Begin(s) \/ Proceed(s) \/ Fails(s)
      PROVE  NoStaleSearch(q)'
  <2>1. PICK r : Continue(s, r) /\ (r.query = q => UpToDate(r))
    BY <1>1, StepIsUpToDate
  <2>2. QED
    BY <2>1, SessionStaysFresh
<1>2. ASSUME UNCHANGED sess
      PROVE  NoStaleSearch(q)'
  <2>1. ASSUME NEW t \in Sessions, sess'[t].query = q
        PROVE  UpToDate(sess[t])'
    <3>1. PICK p : p = sess[t]
      OBVIOUS
    <3>2. UpToDate(p)
      BY <1>2, <2>1, <3>1 DEF NoStaleSearch
    <3>3. UpToDate(p)'
      BY <3>2, UpToDateStays
    <3>4. QED
      BY <1>2, <3>1, <3>3 DEF UpToDate
  <2>2. QED
    BY <2>1 DEF NoStaleSearch
<1>3. CASE Elsewhere
  BY <1>2, <1>3 DEF Elsewhere, Retire, Embed, EmbedFails, Expire
<1>4. CASE UNCHANGED vars
  BY <1>2, <1>4 DEF vars
<1>5. QED
  BY <1>1, <1>3, <1>4 DEF Next, NextUndisturbed

(***************************************************************************)
(* Whatever overlaps, expires or fails: once the searches that read before *)
(* the last change of what is found have ended, no stale answer is stored  *)
(* any more and a fresh one stays fresh (search, set_json).  With the time *)
(* to live, which drops what was stale, this is why the cache gets fresh.  *)
(***************************************************************************)
THEOREM FreshStaysFresh == Spec => OnlyStaleSearchesSpoil
<1>1. SearchInv /\ [Next]_vars
        => [UNCHANGED <<rows, embedded>> =>
              \A q \in Queries : NoStaleSearch(q) =>
                  NoStaleSearch(q)' /\ (IsFresh(q) => IsFresh(q)')]_vars
  BY EntryStep, SearchesStep
<1>2. QED
  BY <1>1, InitSearch, NextSearch, PTL DEF Spec, OnlyStaleSearchesSpoil

-----------------------------------------------------------------------------
(* Requests that come one after another and are answered.                  *)

\* No key of a prefix in the scope of the resource has a value.
Forgotten(prefix, b) ==
    \A q \in Queries : Prefix(q) = prefix /\ q[2] = ScopeOf[b] => cache[q] = Miss

\* What a request holds.  A search: every keyword hit there is, and versions
\* of resources that are not deleted.  A publish or delete: its versions, and
\* no key of a prefix that it has invalidated.
StillSo(r) ==
    /\ r.pc = "idle" => r = Idle
    /\ r.pc \in {"keyword", "semantic", "store"} => r.doing = "search" /\ r.seen = {}
    /\ \A v \in r.found : current[BaseOf[v]] # NoVersion
    /\ r.pc \in {"semantic", "store"} /\ r.query[1] # "semantic" =>
          KeywordHits(r.query[2]) \subseteq r.found
    /\ r.pc \in {"committed", "invalidating"} =>
          /\ r.res \in Resources
          /\ \/ r.doing = "publish" /\ \A v \in r.seen : BaseOf[v] = r.res
             \/ r.doing = "delete" /\ r.seen = {v \in Versions : BaseOf[v] = r.res}
    /\ r.pc = "invalidating" => \A prefix \in Prefixes \ r.todo : Forgotten(prefix, r.res)

\* A resource whose current version is NULL has no published version.
PublishedHaveCurrent ==
    \A v \in Versions : state[v] = "published" => current[BaseOf[v]] # NoVersion

Answered == PublishedIsFound /\ DeletedIsForgotten /\ PublishedHaveCurrent

TurnsInv ==
    /\ ~Overlap
    /\ \A s \in Sessions : StillSo(sess[s])
    /\ Answered

LEMMA IdleIsStillSo ==
    /\ StillSo(Idle) /\ Idle \in Session
    /\ Idle.pc = "idle" /\ Idle.seen = {} /\ Idle.doing = "search"
BY DEF StillSo, Idle, Session

LEMMA InitTurns == Init => TurnsInv
<1>. SUFFICES ASSUME Init
              PROVE  TurnsInv
  OBVIOUS
<1>1. \A s \in Sessions : sess[s] = Idle
  BY DEF Init
<1>2. ~Overlap /\ \A s \in Sessions : StillSo(sess[s])
  BY <1>1, IdleIsStillSo DEF Overlap, At
<1>3. Answered
  BY DEF Init, Answered, PublishedIsFound, DeletedIsForgotten, PublishedHaveCurrent, ScopedTo
<1>4. QED
  BY <1>2, <1>3 DEF TurnsInv

\* The request of s is the only one, and goes on or ends.
LEMMA TurnOf ==
    ASSUME SearchInv, TurnsInv, NEW s \in Sessions, NEW r \in Session, Continue(s, r),
           ~Overlap', ~At(s, "idle") \/ r.pc # "idle",
           StillSo(r)', Answered'
    PROVE  TurnsInv'
<1>1. /\ sess' \in [Sessions -> Session] /\ sess'[s] = r
      /\ \A t \in Sessions \ {s} : sess'[t] = sess[t]
  BY DEF SearchInv, TypeOK, Continue
<1>2. \A t \in Sessions \ {s} : sess'[t].pc = "idle"
  BY <1>1 DEF TurnsInv, Overlap, At
<1>3. \A t \in Sessions \ {s} : sess'[t] = Idle
  BY <1>1, <1>2 DEF TurnsInv, StillSo
<1>4. StillSo(Idle)'
  BY DEF StillSo, Idle
<1>5. \A t \in Sessions : StillSo(sess[t])'
  BY <1>1, <1>3, <1>4 DEF StillSo
<1>6. QED
  BY <1>5 DEF TurnsInv

\* Dropping answers from the cache loses nothing, as long as a publish or
\* delete in flight stays in flight.
LEMMA AnsweredStays ==
    ASSUME SearchInv, TurnsInv, UNCHANGED rows,
           \A q \in Queries : cache'[q] \in {cache[q], Miss},
           \A s \in Sessions : sess[s].doing = "publish" =>
               sess'[s].doing = "publish" /\ sess'[s].seen = sess[s].seen
    PROVE  Answered'
<1>1. \A b \in Resources : ScopedTo(b)' \subseteq ScopedTo(b)
  BY DEF ScopedTo
<1>2. \A b \in Resources : \A q \in ScopedTo(b)' : cache'[q] = cache[q]
  BY DEF ScopedTo
<1>3. PublishedIsFound'
  <2>1. ASSUME NEW v \in Versions, state[v] = "published", IsCurrent(v),
               \A s \in Sessions : v \in sess'[s].seen => sess'[s].doing # "publish",
               NEW q \in ScopedTo(BaseOf[v])', q[1] # "semantic"
        PROVE  v \in cache'[q]
    <3>1. q \in ScopedTo(BaseOf[v]) /\ cache'[q] = cache[q]
      BY <1>1, <1>2
    <3>2. \A s \in Sessions : v \in sess[s].seen => sess[s].doing # "publish"
      BY <2>1
    <3>3. QED
      BY <2>1, <3>1, <3>2 DEF TurnsInv, Answered, PublishedIsFound
  <2>2. QED
    BY <2>1 DEF PublishedIsFound, IsCurrent, rows
<1>4. DeletedIsForgotten'
  <2>1. \A b \in Resources : Deleted(b)' <=> Deleted(b)
    BY DEF Deleted, rows
  <2>2. QED
    BY <1>1, <1>2, <2>1 DEF TurnsInv, Answered, DeletedIsForgotten
<1>5. PublishedHaveCurrent'
  BY DEF TurnsInv, Answered, PublishedHaveCurrent, rows
<1>6. QED
  BY <1>3, <1>4, <1>5 DEF Answered

\* A request that leaves rows and cache alone.
LEMMA ReadingInTurn ==
    ASSUME SearchInv, TurnsInv, NEW s \in Sessions, NEW r \in Session, Continue(s, r),
           ~Overlap', ~At(s, "idle") \/ r.pc # "idle",
           UNCHANGED <<rows, cache>>, StillSo(r),
           sess[s].doing = "publish" => r.doing = "publish" /\ r.seen = sess[s].seen
    PROVE  TurnsInv'
<1>1. StillSo(r)'
  BY DEF StillSo, KeywordHits, IsCurrent, Forgotten, rows
<1>2. /\ sess'[s] = r
      /\ \A t \in Sessions \ {s} : sess'[t] = sess[t]
  BY DEF SearchInv, TypeOK, Continue
<1>3. Answered'
  BY <1>2, AnsweredStays
<1>4. QED
  BY <1>1, <1>3, TurnOf

-----------------------------------------------------------------------------
(* The steps of a request in turn.                                         *)

LEMMA SearchReadsInTurn ==
    ASSUME SearchInv, TurnsInv, NEW s \in Sessions, ~Overlap',
           \/ \E q \in Queries : SearchMiss(s, q)
           \/ SearchKeyword(s) \/ SearchSemantic(s)
    PROVE  TurnsInv'
<1>. USE DEF At
<1>0. sess[s] \in Session /\ StillSo(sess[s]) /\ Searching(sess[s])
  BY DEF SearchInv, TypeOK, SearchesAreProper, TurnsInv
<1>. DEFINE Reads(r) == /\ r \in Session /\ StillSo(r)
                        /\ r.pc # "idle" /\ sess[s].doing # "publish"
                        /\ Continue(s, r) /\ UNCHANGED <<rows, cache>>
<1>1. ASSUME NEW r, Reads(r)
      PROVE  TurnsInv'
  BY <1>1, ReadingInTurn
<1>2. ASSUME NEW q \in Queries, SearchMiss(s, q)
      PROVE  TurnsInv'
  <2>1. sess[s].doing # "publish"
    BY <1>0, <1>2, IdleIsStillSo DEF SearchMiss, StillSo
  <2>2. Reads([Idle EXCEPT !.query = q,
                           !.pc = IF q[1] = "semantic" THEN "semantic" ELSE "keyword"])
    BY <1>2, <2>1 DEF SearchMiss, Idle, Session, StillSo
  <2>3. QED
    BY <2>2, <1>1
<1>3. CASE SearchKeyword(s)
  <2>. DEFINE q == sess[s].query
              r(pc) == [sess[s] EXCEPT !.pc = pc, !.found = KeywordHits(q[2])]
  <2>1. PICK pc \in {"store", "semantic"} : Continue(s, r(pc))
    BY <1>3 DEF SearchKeyword
  <2>2. /\ KeywordHits(q[2]) \subseteq Versions
        /\ \A v \in KeywordHits(q[2]) : current[BaseOf[v]] # NoVersion
    BY DEF KeywordHits, IsCurrent
  <2>3. /\ r(pc).pc = pc /\ r(pc).found = KeywordHits(q[2]) /\ r(pc).query = q
        /\ r(pc).doing = sess[s].doing /\ r(pc).seen = sess[s].seen
        /\ r(pc) \in Session
    BY <1>0, <2>1, <2>2 DEF Session
  <2>4. sess[s].pc = "keyword" /\ UNCHANGED <<rows, cache>>
    BY <1>3 DEF SearchKeyword
  <2>5. sess[s].doing = "search" /\ sess[s].seen = {}
    BY <1>0, <2>4 DEF StillSo
  <2>6. StillSo(r(pc))
    BY <2>1, <2>2, <2>3, <2>5 DEF StillSo
  <2>7. Reads(r(pc))
    BY <2>1, <2>3, <2>4, <2>5, <2>6
  <2>8. QED
    BY <2>7, <1>1
<1>4. CASE SearchSemantic(s)
  <2>. DEFINE q == sess[s].query
              r(sem) == [sess[s] EXCEPT !.pc = "store", !.found = @ \union sem]
  <2>1. PICK sem \in {SemanticHits(q[2]), {}} : Continue(s, r(sem))
    BY <1>4 DEF SearchSemantic
  <2>2. sem \subseteq Versions /\ \A v \in sem : current[BaseOf[v]] # NoVersion
    BY <2>1 DEF SemanticHits, SearchInv, TypeOK, TurnsInv, Answered, PublishedHaveCurrent
  <2>3. /\ r(sem).pc = "store" /\ r(sem).found = sess[s].found \union sem
        /\ r(sem).query = q
        /\ r(sem).doing = sess[s].doing /\ r(sem).seen = sess[s].seen
        /\ r(sem) \in Session
    BY <1>0, <2>2 DEF Session
  <2>4. sess[s].pc = "semantic" /\ UNCHANGED <<rows, cache>>
    BY <1>4 DEF SearchSemantic
  <2>5. sess[s].doing = "search" /\ sess[s].seen = {}
    BY <1>0, <2>4 DEF StillSo
  <2>6. StillSo(r(sem))
    BY <1>0, <2>2, <2>3, <2>4, <2>5 DEF StillSo
  <2>7. Reads(r(sem))
    BY <2>1, <2>3, <2>4, <2>5, <2>6
  <2>8. QED
    BY <2>7, <1>1
<1>5. QED
  BY <1>2, <1>3, <1>4

\* The answer that is stored has every keyword hit, and nothing deleted.
LEMMA SearchStoreInTurn ==
    ASSUME SearchInv, TurnsInv, NEW s \in Sessions, ~Overlap', SearchStore(s)
    PROVE  TurnsInv'
<1>. DEFINE stored == sess[s].query
<1>1. /\ sess[s].pc = "store" /\ Continue(s, Idle) /\ UNCHANGED rows
      /\ StillSo(sess[s])
  BY DEF SearchStore, At, TurnsInv
<1>2. stored \in Queries /\ sess[s].found \subseteq Versions
  BY <1>1 DEF SearchInv, TypeOK, Session, SearchesAreProper, Searching
<1>3. /\ cache'[stored] = sess[s].found
      /\ \A q \in Queries : q # stored => cache'[q] = cache[q]
  BY <1>2 DEF SearchStore, SearchInv, TypeOK
<1>4. \A t \in Sessions : sess[t].doing # "publish"
  BY <1>1, IdleIsStillSo DEF TurnsInv, Overlap, At, StillSo
<1>5. state' = state /\ current' = current
  BY <1>1 DEF rows
<1>6. PublishedIsFound'
  <2>1. ASSUME NEW v \in Versions, state[v] = "published", IsCurrent(v),
               NEW q \in Queries, q[2] = ScopeOf[BaseOf[v]], cache'[q] # Miss,
               q[1] # "semantic"
        PROVE  v \in cache'[q]
    <3>1. CASE q = stored
      <4>1. v \in KeywordHits(q[2])
        BY <2>1 DEF KeywordHits, InScope
      <4>2. QED
        BY <1>1, <1>3, <2>1, <3>1, <4>1 DEF StillSo
    <3>2. CASE q # stored
      BY <1>3, <1>4, <2>1, <3>2 DEF TurnsInv, Answered, PublishedIsFound, ScopedTo
    <3>3. QED
      BY <3>1, <3>2
  <2>2. QED
    BY <1>5, <2>1 DEF PublishedIsFound, IsCurrent, ScopedTo
<1>7. DeletedIsForgotten'
  <2>1. ASSUME NEW b \in Resources, Deleted(b),
               NEW q \in Queries, q[2] = ScopeOf[b], cache'[q] # Miss,
               NEW v \in cache'[q]
        PROVE  BaseOf[v] # b
    <3>1. CASE q = stored
      BY <1>1, <1>3, <2>1, <3>1 DEF StillSo, Deleted
    <3>2. CASE q # stored
      BY <1>3, <2>1, <3>2 DEF TurnsInv, Answered, DeletedIsForgotten, ScopedTo
    <3>3. QED
      BY <3>1, <3>2
  <2>2. QED
    BY <1>5, <2>1 DEF DeletedIsForgotten, Deleted, ScopedTo
<1>8. PublishedHaveCurrent'
  BY <1>5 DEF TurnsInv, Answered, PublishedHaveCurrent
<1>9. StillSo(Idle)'
  BY DEF StillSo, Idle
<1>10. QED
  BY <1>1, <1>6, <1>7, <1>8, <1>9, IdleIsStillSo, TurnOf DEF Answered, At

\* A version becomes the current one of its resource, and nothing else
\* changes; it has yet to be found.
LEMMA PublishCommitInTurn ==
    ASSUME SearchInv, TurnsInv, NEW s \in Sessions, ~Overlap',
           NEW v \in Versions, PublishCommit(s, v)
    PROVE  TurnsInv'
<1>. DEFINE r == [Idle EXCEPT !.pc = "committed", !.doing = "publish",
                              !.res = BaseOf[v], !.seen = {v}]
<1>1. /\ Continue(s, r) /\ sess[s].pc = "idle"
      /\ state[v] = "draft"
      /\ state' = [state EXCEPT ![v] = "published"]
      /\ current' = [current EXCEPT ![BaseOf[v]] = v]
      /\ cache' = cache
  BY DEF PublishCommit, At
<1>2. /\ r \in Session /\ r.pc = "committed" /\ r.seen = {v} /\ r.doing = "publish"
      /\ r.res = BaseOf[v] /\ r.found = {}
  BY DEF Idle, Session
<1>3. StillSo(r)'
  <2>1. r.pc = "committed" /\ r.found = {} /\ r.res \in Resources
    BY <1>2
  <2>2. QED
    BY <1>2, <2>1 DEF StillSo
<1>. HIDE DEF r
<1>4. /\ sess'[s] = r
      /\ \A t \in Sessions \ {s} : sess'[t] = sess[t]
  BY <1>1 DEF SearchInv, TypeOK, Continue
<1>5. \A t \in Sessions : sess[t].seen = {}
  <2>1. \A t \in Sessions \ {s} : sess[t].pc = "idle"
    BY <1>2, <1>4 DEF Overlap, At
  <2>2. QED
    BY <1>1, <2>1, IdleIsStillSo DEF TurnsInv, StillSo
<1>6. PublishedIsFound'
  <2>1. ASSUME NEW w \in Versions, w # v, state'[w] = "published",
               current'[BaseOf[w]] = w
        PROVE  state[w] = "published" /\ IsCurrent(w)
    BY <1>1, <2>1 DEF SearchInv, TypeOK, IsCurrent
  <2>2. ASSUME NEW w \in Versions, state'[w] = "published", current'[BaseOf[w]] = w,
               \A t \in Sessions : w \in sess'[t].seen => sess'[t].doing # "publish",
               NEW q \in Queries, q[2] = ScopeOf[BaseOf[w]], cache[q] # Miss,
               q[1] # "semantic"
        PROVE  w \in cache[q]
    <3>1. w # v
      BY <1>2, <1>4, <2>2
    <3>2. state[w] = "published" /\ IsCurrent(w)
      BY <2>1, <2>2, <3>1
    <3>3. QED
      BY <1>5, <2>2, <3>2 DEF TurnsInv, Answered, PublishedIsFound, ScopedTo
  <2>3. QED
    BY <1>1, <2>2 DEF PublishedIsFound, IsCurrent, ScopedTo
<1>7. \A b \in Resources : Deleted(b)' => Deleted(b)
  <2>1. ASSUME NEW b \in Resources, Deleted(b)'
        PROVE  Deleted(b)
    <3>1. BaseOf[v] # b
      BY <1>1, <2>1 DEF Deleted, SearchInv, TypeOK
    <3>2. QED
      BY <1>1, <2>1, <3>1 DEF Deleted, SearchInv, TypeOK
  <2>2. QED
    BY <2>1
<1>8. DeletedIsForgotten'
  BY <1>1, <1>7 DEF TurnsInv, Answered, DeletedIsForgotten, ScopedTo
<1>9. PublishedHaveCurrent'
  BY <1>1 DEF TurnsInv, Answered, PublishedHaveCurrent, SearchInv, TypeOK
<1>10. QED
  BY <1>1, <1>2, <1>3, <1>6, <1>8, <1>9, TurnOf DEF Answered

\* The rest of publish_resource and the start of delete_resource.
LEMMA HandlersReadInTurn ==
    ASSUME SearchInv, TurnsInv, NEW s \in Sessions, ~Overlap',
           PublishSchedule(s) \/ \E b \in Resources : DeleteResourceRead(s, b)
    PROVE  TurnsInv'
<1>. USE DEF At
<1>0. sess[s] \in Session /\ StillSo(sess[s])
  BY DEF SearchInv, TypeOK, TurnsInv
<1>1. CASE PublishSchedule(s)
  <2>. DEFINE r == [sess[s] EXCEPT !.pc = "invalidating", !.todo = Prefixes]
  <2>1. Continue(s, r) /\ sess[s].pc = "committed" /\ UNCHANGED <<rows, cache>>
    BY <1>1 DEF PublishSchedule
  <2>2. /\ r \in Session /\ r.pc = "invalidating" /\ r.todo = Prefixes
        /\ r.found = sess[s].found /\ r.doing = sess[s].doing
        /\ r.seen = sess[s].seen /\ r.res = sess[s].res
    BY <1>0 DEF Session
  <2>. HIDE DEF r
  <2>3. StillSo(r)
    BY <1>0, <2>1, <2>2 DEF StillSo
  <2>4. QED
    BY <2>1, <2>2, <2>3, ReadingInTurn
<1>2. ASSUME NEW b \in Resources, DeleteResourceRead(s, b)
      PROVE  TurnsInv'
  <2>. DEFINE r == [Idle EXCEPT !.pc = "invalidating", !.doing = "delete", !.res = b,
                                !.todo = Prefixes,
                                !.seen = {v \in Versions : BaseOf[v] = b}]
  <2>1. Continue(s, r) /\ sess[s].pc = "idle" /\ UNCHANGED <<rows, cache>>
    BY <1>2 DEF DeleteResourceRead
  <2>2. /\ r \in Session /\ r.pc = "invalidating" /\ r.todo = Prefixes
        /\ r.found = {} /\ r.doing = "delete" /\ r.res = b
        /\ r.seen = {v \in Versions : BaseOf[v] = b}
    BY DEF Idle, Session
  <2>. HIDE DEF r
  <2>3. StillSo(r)
    BY <2>2 DEF StillSo
  <2>4. sess[s].doing # "publish"
    BY <1>0, <2>1, IdleIsStillSo DEF StillSo
  <2>5. QED
    BY <2>1, <2>2, <2>3, <2>4, ReadingInTurn
<1>3. QED
  BY <1>1, <1>2

\* invalidate_scope forgets the keys of one prefix.
LEMMA InvalidateInTurn ==
    ASSUME SearchInv, TurnsInv, NEW s \in Sessions, ~Overlap',
           NEW prefix \in Prefixes, Invalidate(s, prefix)
    PROVE  TurnsInv'
<1>1. PICK b, r : b = sess[s].res /\ r = [sess[s] EXCEPT !.todo = @ \ {prefix}]
  OBVIOUS
<1>2. /\ Continue(s, r) /\ sess[s].pc = "invalidating" /\ UNCHANGED rows
      /\ cache' = [q \in Queries |->
                      IF Prefix(q) = prefix /\ q[2] = ScopeOf[b]
                      THEN Miss ELSE cache[q]]
  BY <1>1 DEF Invalidate, At
<1>3. sess[s] \in Session /\ StillSo(sess[s])
  BY DEF SearchInv, TypeOK, TurnsInv
<1>4. /\ r \in Session /\ r.pc = "invalidating" /\ r.todo = sess[s].todo \ {prefix}
      /\ r.found = sess[s].found /\ r.doing = sess[s].doing
      /\ r.seen = sess[s].seen /\ r.res = b
  BY <1>1, <1>2, <1>3 DEF Session
<1>5. \A p \in Prefixes \ r.todo : Forgotten(p, b)'
  <2>1. \A p \in Prefixes \ sess[s].todo : Forgotten(p, b)
    BY <1>1, <1>2, <1>3 DEF StillSo
  <2>2. Forgotten(prefix, b)'
    BY <1>2 DEF Forgotten
  <2>3. \A p \in Prefixes \ sess[s].todo : Forgotten(p, b)'
    BY <1>2, <2>1 DEF Forgotten
  <2>4. QED
    BY <1>4, <2>2, <2>3
<1>6. StillSo(r)'
  BY <1>1, <1>2, <1>3, <1>4, <1>5 DEF StillSo, rows
<1>7. /\ sess'[s] = r
      /\ \A t \in Sessions \ {s} : sess'[t] = sess[t]
  BY <1>2, <1>4 DEF SearchInv, TypeOK, Continue
<1>8. Answered'
  BY <1>2, <1>4, <1>7, AnsweredStays
<1>9. QED
  BY <1>2, <1>4, <1>6, <1>8, TurnOf DEF At

\* publish_resource answers: no keyword or auto search of the scope is
\* answered from the cache.
LEMMA PublishAnswerInTurn ==
    ASSUME SearchInv, TurnsInv, NEW s \in Sessions, ~Overlap', PublishAnswer(s)
    PROVE  TurnsInv'
<1>1. /\ Continue(s, Idle) /\ sess[s].pc = "invalidating"
      /\ sess[s].doing = "publish" /\ sess[s].todo = {}
      /\ UNCHANGED <<rows, cache>> /\ StillSo(sess[s])
  BY DEF PublishAnswer, At, TurnsInv
<1>2. Forgotten("search:kw", sess[s].res) /\ \A v \in sess[s].seen : BaseOf[v] = sess[s].res
  BY <1>1 DEF StillSo, Prefixes
<1>3. /\ sess'[s] = Idle
      /\ \A t \in Sessions \ {s} : sess'[t] = sess[t]
  BY <1>1 DEF SearchInv, TypeOK, Continue
<1>4. state' = state /\ current' = current /\ cache' = cache
  BY <1>1 DEF rows
<1>5. PublishedIsFound'
  <2>1. ASSUME NEW v \in Versions, state[v] = "published", IsCurrent(v),
               \A t \in Sessions : v \in sess'[t].seen => sess'[t].doing # "publish",
               NEW q \in ScopedTo(BaseOf[v]), q[1] # "semantic"
        PROVE  v \in cache[q]
    <3>1. v \notin sess[s].seen
      BY <1>2, <2>1 DEF ScopedTo, Forgotten, Prefix
    <3>2. \A t \in Sessions : v \in sess[t].seen => sess[t].doing # "publish"
      BY <1>3, <2>1, <3>1
    <3>3. QED
      BY <2>1, <3>2 DEF TurnsInv, Answered, PublishedIsFound
  <2>2. QED
    BY <1>4, <2>1 DEF PublishedIsFound, IsCurrent, ScopedTo
<1>6. DeletedIsForgotten' /\ PublishedHaveCurrent'
  BY <1>4 DEF TurnsInv, Answered, DeletedIsForgotten, Deleted, ScopedTo, PublishedHaveCurrent
<1>7. StillSo(Idle)'
  BY DEF StillSo, Idle
<1>8. QED
  BY <1>1, <1>5, <1>6, <1>7, IdleIsStillSo, TurnOf DEF Answered, At

\* delete_resource commits: both prefixes of the scope were forgotten, and
\* nobody has searched since.
LEMMA DeleteCommitInTurn ==
    ASSUME SearchInv, TurnsInv, NEW s \in Sessions, ~Overlap', DeleteResourceCommit(s)
    PROVE  TurnsInv'
<1>. DEFINE gone == sess[s].res
<1>1. /\ Continue(s, Idle) /\ sess[s].pc = "invalidating"
      /\ sess[s].doing = "delete" /\ sess[s].todo = {}
      /\ state' = [v \in Versions |-> IF v \in sess[s].seen THEN "deprecated" ELSE state[v]]
      /\ current' = [current EXCEPT ![gone] = NoVersion]
      /\ cache' = cache /\ StillSo(sess[s])
  BY DEF DeleteResourceCommit, At, TurnsInv
<1>2. /\ \A prefix \in Prefixes : Forgotten(prefix, gone)
      /\ gone \in Resources
      /\ sess[s].seen = {v \in Versions : BaseOf[v] = gone}
  BY <1>1 DEF StillSo
<1>3. \A q \in Queries : q[2] = ScopeOf[gone] => cache[q] = Miss
  BY <1>2 DEF Forgotten, Prefixes, Prefix
<1>4. \A b \in Resources \ {gone} : current'[b] = current[b]
  BY <1>1 DEF SearchInv, TypeOK
<1>5. \A v \in Versions : BaseOf[v] # gone => state'[v] = state[v]
  BY <1>1, <1>2
<1>6. \A v \in Versions : state'[v] = "published" => BaseOf[v] # gone
  BY <1>1, <1>2
<1>7. \A t \in Sessions : sess[t].doing # "publish"
  BY <1>1, IdleIsStillSo DEF TurnsInv, Overlap, At, StillSo
<1>8. PublishedIsFound'
  <2>1. ASSUME NEW v \in Versions, state'[v] = "published", current'[BaseOf[v]] = v,
               NEW q \in ScopedTo(BaseOf[v]), q[1] # "semantic"
        PROVE  v \in cache[q]
    <3>1. state[v] = "published" /\ IsCurrent(v)
      BY <1>4, <1>5, <1>6, <2>1 DEF IsCurrent
    <3>2. QED
      BY <1>7, <2>1, <3>1 DEF TurnsInv, Answered, PublishedIsFound
  <2>2. QED
    BY <1>1, <2>1 DEF PublishedIsFound, IsCurrent, ScopedTo
<1>9. DeletedIsForgotten'
  <2>1. ASSUME NEW b \in Resources \ {gone}, Deleted(b)'
        PROVE  Deleted(b)
    BY <1>4, <1>5, <2>1 DEF Deleted
  <2>2. ASSUME NEW b \in Resources, Deleted(b)', NEW q \in ScopedTo(b), NEW v \in cache[q]
        PROVE  BaseOf[v] # b
    <3>1. CASE b = gone
      BY <1>3, <2>2, <3>1 DEF ScopedTo
    <3>2. CASE b # gone
      BY <2>1, <2>2, <3>2 DEF TurnsInv, Answered, DeletedIsForgotten
    <3>3. QED
      BY <3>1, <3>2
  <2>3. QED
    BY <1>1, <2>2 DEF DeletedIsForgotten, ScopedTo
<1>10. PublishedHaveCurrent'
  BY <1>4, <1>5, <1>6 DEF TurnsInv, Answered, PublishedHaveCurrent
<1>11. StillSo(Idle)'
  BY DEF StillSo, Idle
<1>12. QED
  BY <1>1, <1>8, <1>9, <1>10, <1>11, IdleIsStillSo, TurnOf DEF Answered, At

\* What needs no request: deprecations, embeddings and times to live.
LEMMA ElsewhereInTurn ==
    ASSUME SearchInv, TurnsInv, Elsewhere \/ UNCHANGED vars
    PROVE  TurnsInv'
<1>1. /\ sess' = sess /\ current' = current
      /\ \A q \in Queries : cache'[q] \in {cache[q], Miss}
  BY DEF Elsewhere, Retire, Embed, EmbedFails, Expire, vars, rows, SearchInv, TypeOK
<1>2. \/ state' = state
      \/ \E v \in Versions : state[v] = "published"
                             /\ state' = [state EXCEPT ![v] = "deprecated"]
  BY DEF Elsewhere, Retire, Embed, EmbedFails, Expire, vars, rows
<1>3. \A v \in Versions :
          \/ state'[v] = state[v]
          \/ state[v] = "published" /\ state'[v] = "deprecated"
  BY <1>2 DEF SearchInv, TypeOK
<1>4. ASSUME NEW s \in Sessions
      PROVE  StillSo(sess[s])'
  <2>. DEFINE r == sess[s]
  <2>1. StillSo(r)
    BY DEF TurnsInv
  <2>2. \A scope : KeywordHits(scope)' \subseteq KeywordHits(scope)
    BY <1>1, <1>3 DEF KeywordHits, IsCurrent, InScope
  <2>3. \A prefix, b : Forgotten(prefix, b) => Forgotten(prefix, b)'
    BY <1>1 DEF Forgotten
  <2>4. QED
    BY <1>1, <2>1, <2>2, <2>3 DEF StillSo
<1>5. PublishedIsFound'
  <2>1. ASSUME NEW v \in Versions, state'[v] = "published", IsCurrent(v),
               \A s \in Sessions : v \in sess[s].seen => sess[s].doing # "publish",
               NEW q \in ScopedTo(BaseOf[v])', q[1] # "semantic"
        PROVE  v \in cache'[q]
    <3>1. state[v] = "published"
      BY <1>3, <2>1
    <3>2. q \in ScopedTo(BaseOf[v]) /\ cache'[q] = cache[q]
      BY <1>1, <2>1 DEF ScopedTo
    <3>3. QED
      BY <2>1, <3>1, <3>2 DEF TurnsInv, Answered, PublishedIsFound
  <2>2. QED
    BY <1>1, <2>1 DEF PublishedIsFound, IsCurrent
<1>6. DeletedIsForgotten'
  <2>1. ASSUME NEW b \in Resources, Deleted(b)'
        PROVE  Deleted(b)
    BY <1>1, <1>3, <2>1 DEF Deleted, TurnsInv, Answered, PublishedHaveCurrent
  <2>2. \A b \in Resources : \A q \in ScopedTo(b)' : q \in ScopedTo(b) /\ cache'[q] = cache[q]
    BY <1>1 DEF ScopedTo
  <2>3. QED
    BY <2>1, <2>2 DEF TurnsInv, Answered, DeletedIsForgotten
<1>7. PublishedHaveCurrent'
  BY <1>1, <1>3 DEF TurnsInv, Answered, PublishedHaveCurrent
<1>8. ~Overlap'
  BY <1>1 DEF TurnsInv, Overlap, At
<1>9. QED
  BY <1>4, <1>5, <1>6, <1>7, <1>8 DEF TurnsInv, Answered

-----------------------------------------------------------------------------
HistoryInv == SearchInv /\ (inTurn => TurnsInv)

LEMMA NextTurns == HistoryInv /\ [TurnsNext]_turnsVars => HistoryInv'
<1>. SUFFICES ASSUME HistoryInv, [TurnsNext]_turnsVars
              PROVE  HistoryInv'
  OBVIOUS
<1>1. [Next]_vars /\ inTurn' = inTurn
  BY DEF TurnsNext, Next, turnsVars
<1>2. SearchInv'
  BY <1>1, NextSearch DEF HistoryInv
<1>3. CASE ~inTurn
  BY <1>1, <1>2, <1>3 DEF HistoryInv
<1>4. CASE inTurn
  <2>1. CASE UNCHANGED vars
    BY <1>2, <1>4, <2>1, ElsewhereInTurn DEF HistoryInv
  <2>2. CASE NextUndisturbed /\ ~Overlap'
    <3>1. CASE Elsewhere
      BY <1>2, <1>4, <3>1, ElsewhereInTurn DEF HistoryInv
    <3>2. ASSUME NEW s \in Sessions, Begin(s)
          PROVE  TurnsInv'
      BY <1>4, <2>2, <3>2, SearchReadsInTurn, PublishCommitInTurn, HandlersReadInTurn
         DEF Begin, HistoryInv
    <3>3. ASSUME NEW s \in Sessions, Proceed(s)
          PROVE  TurnsInv'
      BY <1>4, <2>2, <3>3, SearchReadsInTurn, SearchStoreInTurn, HandlersReadInTurn,
         InvalidateInTurn, PublishAnswerInTurn, DeleteCommitInTurn DEF Proceed, HistoryInv
    <3>4. QED
      BY <1>2, <2>2, <3>1, <3>2, <3>3 DEF NextUndisturbed, HistoryInv
  <2>3. QED
    BY <1>4, <2>1, <2>2 DEF TurnsNext, turnsVars
<1>5. QED
  BY <1>3, <1>4

LEMMA InitHistory == TurnsInit => HistoryInv
BY InitSearch, InitTurns DEF TurnsInit, HistoryInv

\* publish_resource invalidates after its commit: with requests in turn, a
\* keyword or auto search of the scope finds what was published, from the cache
\* too, whatever expires, is embedded or is deprecated in between.
THEOREM PublishedAreFound == TurnsSpec => []PublishedIsFoundInTurn
<1>1. HistoryInv => PublishedIsFoundInTurn
  BY DEF HistoryInv, TurnsInv, Answered, PublishedIsFoundInTurn
<1>2. QED
  BY <1>1, InitHistory, NextTurns, PTL DEF TurnsSpec

\* delete_resource invalidates before its commit, which is enough with requests
\* in turn: no search of the scope finds a version of the resource afterwards.
THEOREM DeletedAreForgotten == TurnsSpec => []DeletedIsForgottenInTurn
<1>1. HistoryInv => DeletedIsForgottenInTurn
  BY DEF HistoryInv, TurnsInv, Answered, DeletedIsForgottenInTurn
<1>2. QED
  BY <1>1, InitHistory, NextTurns, PTL DEF TurnsSpec

\* "The cache is invalidated when a resource in the same scope is published or
\* deleted" (docs/index.html): with requests in turn a delete finds the cache
\* of the scope without the resource when it commits.
THEOREM DeletesInvalidate == inTurn /\ TurnsSpec => DeleteInvalidates
<1>. DEFINE Forgets(r) == \A q \in ScopedTo(r) : \A v \in cache[q] : BaseOf[v] # r
            InTurnInv == inTurn /\ HistoryInv
<1>1. inTurn /\ TurnsInit => InTurnInv
  BY InitHistory
<1>2. InTurnInv /\ [TurnsNext]_turnsVars => InTurnInv'
  BY NextTurns DEF TurnsNext, turnsVars
<1>3. InTurnInv /\ InTurnInv' /\ [TurnsNext]_turnsVars
         => [\A r \in Resources :
                /\ ~Deleted(r) /\ Deleted(r)'
                /\ \A s \in Sessions : sess[s].doing = "search" => At(s, "idle")
                => Forgets(r)]_vars
  <2>. SUFFICES ASSUME InTurnInv, InTurnInv', [TurnsNext]_turnsVars,
                       NEW r \in Resources, ~Deleted(r), Deleted(r)'
                PROVE  Forgets(r)
    OBVIOUS
  <2>1. [Next]_vars
    BY DEF TurnsNext, Next, turnsVars
  <2>2. UNCHANGED rows \/ cache' = cache
    BY <2>1 DEF Next, NextUndisturbed, Begin, Proceed, Elsewhere, Fails, SearchMiss,
       SearchKeyword, SearchSemantic, SearchStore, PublishSchedule, PublishAnswer,
       PublishCommit, DeleteResourceRead, DeleteResourceCommit, Invalidate,
       InvalidateFails, Abort, Retire, Embed, EmbedFails, Expire, vars
  <2>3. ~UNCHANGED rows
    BY DEF rows, Deleted
  <2>4. DeletedIsForgotten'
    BY DEF HistoryInv, TurnsInv, Answered
  <2>5. QED
    BY <2>2, <2>3, <2>4 DEF DeletedIsForgotten, ScopedTo
<1>4. QED
  BY <1>1, <1>2, <1>3, PTL DEF TurnsSpec, DeleteInvalidates
=============================================================================
