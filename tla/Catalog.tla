------------------------------ MODULE Catalog ------------------------------
(***************************************************************************)
(* The write handlers of app/services/resource_service.py as they run: one *)
(* session per request, its statements interleaved with those of other     *)
(* requests at every "await", under PostgreSQL's READ COMMITTED isolation. *)
(*                                                                         *)
(* A handler reads rows into its session, decides on what it read, and     *)
(* writes when the session flushes or commits.  SQLAlchemy writes only the *)
(* columns whose value differs from the value it loaded, and raises        *)
(* StaleDataError, which rolls the transaction back, when a row it updates *)
(* is gone.  A flush before the commit (autoflush, triggered by the next   *)
(* SELECT) locks the row until the transaction ends.  Objects of the       *)
(* bucket are deleted at once and stay deleted when the transaction rolls  *)
(* back.                                                                   *)
(***************************************************************************)
EXTENDS CatalogRows

CONSTANT Sessions    \* requests in flight

VARIABLES
    owner, current, ver,    \* the committed rows, as in Lifecycle
    object,                 \* key -> "none", "stored" or "deleted"
    sess                    \* session -> what the handler holds

rows == <<owner, current, ver>>
vars == <<owner, current, ver, object, sess>>

-----------------------------------------------------------------------------
(* Sessions.                                                               *)

Points ==
    {"idle", "patch", "guarded", "publish", "deprecate", "new_resource",
     "new_current", "delete_draft", "resolved", "delete_resource", "tombstone"}

Session ==
    [pc      : Points,                        \* the await the handler is at
     user    : Users \union {NoUser},
     ver     : Versions \union {NoVersion},   \* the version row in hand
     res     : Resources \union {NoResource}, \* the resource row in hand
     loaded  : Versions \union {NoVersion},   \* its current_version_id
     meta    : SUBSET Checks,                 \* metadata as loaded
     seen    : [Versions -> RowStates],       \* states of versions loaded
     flushed : SUBSET Versions,               \* rows updated, not committed
     todo    : SUBSET Keys,                   \* objects still to delete
     cleared : SUBSET (Versions \X Keys)]     \* download_urls set to NULL

Idle ==
    [pc |-> "idle", user |-> NoUser, ver |-> NoVersion, res |-> NoResource,
     loaded |-> NoVersion, meta |-> {},
     seen |-> [v \in Versions |-> "unused"],
     flushed |-> {}, todo |-> {}, cleared |-> {}]

At(s, point) == sess[s].pc = point

\* The handler goes on with the session record "next".
Continue(s, next) == sess' = [sess EXCEPT ![s] = next]

\* The transaction ended, committed or rolled back: its locks are free.
Finish(s) == Continue(s, Idle)

\* Another transaction has updated the row and has not ended yet.
Locked(s, v) == \E t \in Sessions \ {s} : v \in sess[t].flushed

OwnedBy(v, u) == Exists(ver[v]) /\ ver[v].publisher = u

-----------------------------------------------------------------------------
Init ==
    /\ owner = [r \in Resources |-> NoUser]
    /\ current = [r \in Resources |-> NoVersion]
    /\ ver = [v \in Versions |-> EmptyRow("unused")]
    /\ object = [k \in Keys |-> "none"]
    /\ sess = [s \in Sessions |-> Idle]

\* POST /files/upload puts an object under a fresh key (a UUID) and returns
\* the key as the upload token.
Upload(k) ==
    /\ object[k] = "none"
    /\ object' = [object EXCEPT ![k] = "stored"]
    /\ UNCHANGED <<rows, sess>>

\* Upload tokens that clients have been given; registering one does not
\* look whether its object is still there.
Tokens == {k \in Keys : object[k] # "none"}

-----------------------------------------------------------------------------
(* Creation and editing.                                                   *)

\* create_resource reads nothing and inserts everything in one transaction.
CreateResource(u, r, v, meta, dists) ==
    /\ owner[r] = NoUser
    /\ ver[v].state = "unused"
    /\ owner' = [owner EXCEPT ![r] = u]
    /\ ver' = [ver EXCEPT ![v] = DraftRow(r, u, NoVersion, meta, dists)]
    /\ UNCHANGED <<current, object, sess>>

\* patch_draft up to its commit: the row, its publisher and state.
PatchRead(s, u, v) ==
    /\ At(s, "idle")
    /\ OwnedBy(v, u)
    /\ ver[v].state = "draft"
    /\ Continue(s, [Idle EXCEPT !.pc = "patch", !.ver = v,
                                !.meta = ver[v].meta])
    /\ UNCHANGED <<rows, object>>

\* Mutant: the whole row is written back as it was loaded.
PatchCommitWholeRow(s, meta) ==
    LET v == sess[s].ver
    IN  /\ At(s, "patch")
        /\ Finish(s)
        /\ IF meta = sess[s].meta \/ ~Exists(ver[v])
           THEN UNCHANGED ver
           ELSE /\ ~Locked(s, v)
                /\ ver' = [ver EXCEPT ![v].meta = meta, ![v].state = "draft"]
        /\ UNCHANGED <<owner, current, object>>

\* The commit of patch_draft: the fields the payload changes, against the
\* values loaded.  Nothing is written when none differs; the state is not
\* looked at again.
PatchCommit(s, meta) ==
    LET v == sess[s].ver
        dropped == sess[s].meta \ meta
        added == meta \ sess[s].meta
    IN  /\ At(s, "patch")
        /\ Finish(s)
        /\ IF meta = sess[s].meta \/ ~Exists(ver[v])
           THEN UNCHANGED ver
           ELSE /\ ~Locked(s, v)
                /\ ver' = [ver EXCEPT ![v].meta = (@ \ dropped) \union added]
        /\ UNCHANGED <<owner, current, object>>

-----------------------------------------------------------------------------
(* publish_resource.                                                       *)

\* The version is loaded and passes evaluate_publish_guard.
PublishCheck(s, u, v) ==
    /\ At(s, "idle")
    /\ OwnedBy(v, u)
    /\ PublishGuard(ver[v])
    /\ Continue(s, [Idle EXCEPT !.pc = "guarded", !.ver = v])
    /\ UNCHANGED <<rows, object>>

\* get_resource: the SELECT flushes state = "published" first, which locks
\* the version, or finds the row gone.
PublishFlush(s) ==
    LET v == sess[s].ver
        r == ver[v].base
    IN  /\ At(s, "guarded")
        /\ IF Exists(ver[v])
           THEN /\ ~Locked(s, v)
                /\ Continue(s, [sess[s] EXCEPT !.pc = "publish", !.res = r,
                                               !.loaded = current[r],
                                               !.flushed = {v}])
           ELSE Finish(s)
        /\ UNCHANGED <<rows, object>>

\* The commit.  current_version_id is written unless it already was the
\* version when it was loaded.
PublishCommit(s) ==
    LET v == sess[s].ver
        r == sess[s].res
    IN  /\ At(s, "publish")
        /\ ver' = [ver EXCEPT ![v].state = "published"]
        /\ current' = IF sess[s].loaded = v THEN current
                                            ELSE [current EXCEPT ![r] = v]
        /\ Finish(s)
        /\ UNCHANGED <<owner, object>>

-----------------------------------------------------------------------------
(* deprecate_resource.                                                     *)

\* A deprecated version is returned as it is and a draft is refused.
DeprecateRead(s, u, v) ==
    /\ At(s, "idle")
    /\ OwnedBy(v, u)
    /\ ver[v].state = "published"
    /\ Continue(s, [Idle EXCEPT !.pc = "deprecate", !.ver = v])
    /\ UNCHANGED <<rows, object>>

DeprecateCommit(s) ==
    LET v == sess[s].ver
    IN  /\ At(s, "deprecate")
        /\ Finish(s)
        /\ IF Exists(ver[v])
           THEN /\ ~Locked(s, v)
                /\ ver' = [ver EXCEPT ![v].state = "deprecated"]
           ELSE UNCHANGED ver
        /\ UNCHANGED <<owner, current, object>>

-----------------------------------------------------------------------------
(* create_new_version.                                                     *)

\* Mutant: the owner of the resource is not checked.
NewVersionByAnyone(s, u, r) ==
    /\ At(s, "idle")
    /\ current[r] # NoVersion
    /\ Continue(s, [Idle EXCEPT !.pc = "new_resource", !.user = u, !.res = r,
                                !.loaded = current[r]])
    /\ UNCHANGED <<rows, object>>

\* get_resource, and the checks on the resource row.
NewVersionResource(s, u, r) ==
    /\ At(s, "idle")
    /\ owner[r] = u
    /\ current[r] # NoVersion
    /\ Continue(s, [Idle EXCEPT !.pc = "new_resource", !.user = u, !.res = r,
                                !.loaded = current[r]])
    /\ UNCHANGED <<rows, object>>

\* get_version of the current version: 404 when there is no such row.
NewVersionCurrent(s) ==
    /\ At(s, "new_resource")
    /\ IF Exists(ver[sess[s].loaded])
       THEN Continue(s, [sess[s] EXCEPT !.pc = "new_current"])
       ELSE Finish(s)
    /\ UNCHANGED <<rows, object>>

\* Mutant: the draft becomes the current version at once.
NewVersionMadeCurrent(s, v, meta, dists) ==
    /\ At(s, "new_current")
    /\ ver[v].state = "unused"
    /\ ver' = [ver EXCEPT ![v] = DraftRow(sess[s].res, sess[s].user,
                                          sess[s].loaded, meta, dists)]
    /\ current' = [current EXCEPT ![sess[s].res] = v]
    /\ Finish(s)
    /\ UNCHANGED <<owner, object>>

\* The draft is inserted and committed.  Its metadata are those of the
\* current version unless the payload overrides them, so any are possible.
NewVersionInsert(s, v, meta, dists) ==
    /\ At(s, "new_current")
    /\ ver[v].state = "unused"
    /\ ver' = [ver EXCEPT ![v] = DraftRow(sess[s].res, sess[s].user,
                                          sess[s].loaded, meta, dists)]
    /\ Finish(s)
    /\ UNCHANGED <<owner, current, object>>

-----------------------------------------------------------------------------
(* delete_version and delete_resource.                                     *)

\* delete_version loads the version and branches on its state.
DeleteVersionRead(s, u, v) ==
    /\ At(s, "idle")
    /\ OwnedBy(v, u)
    /\ IF ver[v].state = "draft"
       THEN Continue(s, [Idle EXCEPT !.pc = "delete_draft", !.ver = v])
       ELSE Continue(s, [Idle EXCEPT !.pc = "tombstone",
                                     !.seen[v] = ver[v].state])
    /\ UNCHANGED <<rows, object>>

\* The row loaded as a draft is deleted, with its datasets and
\* distributions, whatever its state is by now.  No object is deleted: its
\* uploads stay in the bucket, and no row names them any more.  A DELETE that
\* finds no row only logs a warning.
DeleteDraftCommit(s) ==
    LET v == sess[s].ver
    IN  /\ At(s, "delete_draft")
        /\ ~Locked(s, v)
        /\ ver' = [ver EXCEPT ![v] = EmptyRow("removed")]
        /\ Finish(s)
        /\ UNCHANGED <<owner, current, object>>

\* delete_resource is called with a resource id and loads the resource.
DeleteResourceRead(s, u, r) ==
    /\ At(s, "idle")
    /\ owner[r] = u
    /\ Continue(s, [Idle EXCEPT !.pc = "delete_resource", !.res = r,
                                !.loaded = current[r]])
    /\ UNCHANGED <<rows, object>>

\* Or with the id of a version, by anyone: resolve_base_resource_id loads the
\* version, which no later SELECT refreshes, ...
DeleteResourceResolve(s, u, v) ==
    /\ At(s, "idle")
    /\ Exists(ver[v])
    /\ Continue(s, [Idle EXCEPT !.pc = "resolved", !.user = u,
                                !.res = ver[v].base, !.seen[v] = ver[v].state])
    /\ UNCHANGED <<rows, object>>

\* ... and get_resource the resource, whose owner is checked.
DeleteResourceLoad(s) ==
    LET r == sess[s].res
    IN  /\ At(s, "resolved")
        /\ IF owner[r] = sess[s].user
           THEN Continue(s, [sess[s] EXCEPT !.pc = "delete_resource",
                                            !.user = NoUser, !.loaded = current[r]])
           ELSE Finish(s)
        /\ UNCHANGED <<rows, object>>

\* Mutant: drafts are not among the versions to delete.
DeleteResourceSelectIssued(s) ==
    LET listed == {v \in Versions :
                      /\ ver[v].state \in {"published", "deprecated"}
                      /\ ver[v].base = sess[s].res}
    IN  /\ At(s, "delete_resource")
        /\ Continue(s, [sess[s] EXCEPT
                          !.pc = "tombstone",
                          !.seen = [v \in Versions |->
                                      IF v \in listed THEN ver[v].state ELSE "unused"]])
        /\ UNCHANGED <<rows, object>>

\* SELECT the versions of the resource.
DeleteResourceSelect(s) ==
    LET listed == {v \in Versions :
                      Exists(ver[v]) /\ ver[v].base = sess[s].res}
        seen == sess[s].seen
    IN  /\ At(s, "delete_resource")
        /\ Continue(s, [sess[s] EXCEPT
                          !.pc = "tombstone",
                          !.seen = [v \in Versions |->
                                      IF v \in listed
                                      THEN IF seen[v] # "unused" THEN seen[v] ELSE ver[v].state
                                      ELSE "unused"]])
        /\ UNCHANGED <<rows, object>>

ToTombstone(s) == {v \in Versions : sess[s].seen[v] # "unused"}

\* _tombstone_versions takes up the next version: the SELECT of its
\* distributions flushes the UPDATE that marks the row deleted.
TombstoneFlush(s, v) ==
    /\ At(s, "tombstone")
    /\ sess[s].todo = {}
    /\ v \in ToTombstone(s) \ sess[s].flushed
    /\ IF Exists(ver[v])
       THEN /\ ~Locked(s, v)
            /\ Continue(s, [sess[s] EXCEPT !.ver = v, !.todo = ver[v].urls,
                                           !.flushed = @ \union {v}])
       ELSE Finish(s)
    /\ UNCHANGED <<rows, object>>

\* delete_object finds the object and deletes it, or finds none: the
\* download_url is set to NULL, to be written at the commit.
DeleteObject(s, k) ==
    /\ At(s, "tombstone")
    /\ k \in sess[s].todo
    /\ object' = [object EXCEPT ![k] = "deleted"]
    /\ Continue(s, [sess[s] EXCEPT
                      !.todo = @ \ {k},
                      !.cleared = @ \union {<<sess[s].ver, k>>}])
    /\ UNCHANGED rows

\* Mutant: the URL is cleared although the delete failed.
DeleteObjectFailsCleared(s, k) ==
    /\ At(s, "tombstone")
    /\ k \in sess[s].todo
    /\ object' \in {object, [object EXCEPT ![k] = "deleted"]}
    /\ Continue(s, [sess[s] EXCEPT
                      !.todo = @ \ {k},
                      !.cleared = @ \union {<<sess[s].ver, k>>}])
    /\ UNCHANGED rows

\* delete_object raises StorageError, before or after the object is gone:
\* the key stays on the distribution.
DeleteObjectFails(s, k) ==
    /\ At(s, "tombstone")
    /\ k \in sess[s].todo
    /\ object' \in {object, [object EXCEPT ![k] = "deleted"]}
    /\ Continue(s, [sess[s] EXCEPT !.todo = @ \ {k}])
    /\ UNCHANGED rows

\* Mutant: a version that was deprecated already is left as it is.
TombstoneCommitSkipping(s) ==
    LET ses == sess[s]
    IN  /\ At(s, "tombstone")
        /\ ses.todo = {}
        /\ ToTombstone(s) = ses.flushed
        /\ ver' = [v \in Versions |->
                     IF v \in ses.flushed /\ ses.seen[v] # "deprecated"
                     THEN [ver[v] EXCEPT
                             !.deleted = TRUE, !.state = "deprecated",
                             !.urls = {k \in @ : <<v, k>> \notin ses.cleared}]
                     ELSE ver[v]]
        /\ current' = IF ses.loaded = NoVersion
                      THEN current
                      ELSE [current EXCEPT ![ses.res] = NoVersion]
        /\ Finish(s)
        /\ UNCHANGED <<owner, object>>

\* The commit of delete_version or delete_resource.  The state of a version
\* loaded as "deprecated" is not written, nor is a current_version_id
\* loaded as NULL.
TombstoneCommit(s) ==
    LET ses == sess[s]
    IN  /\ At(s, "tombstone")
        /\ ses.todo = {}
        /\ ToTombstone(s) = ses.flushed
        /\ ver' = [v \in Versions |->
                     IF v \in ses.flushed
                     THEN [ver[v] EXCEPT
                             !.deleted = TRUE,
                             !.state = IF ses.seen[v] = "deprecated"
                                       THEN @ ELSE "deprecated",
                             !.urls = {k \in @ : <<v, k>> \notin ses.cleared}]
                     ELSE ver[v]]
        /\ current' = IF ses.loaded = NoVersion
                      THEN current
                      ELSE [current EXCEPT ![ses.res] = NoVersion]
        /\ Finish(s)
        /\ UNCHANGED <<owner, object>>

\* The process crashes, the connection is lost, the commit fails or the
\* database picks this transaction to break a deadlock: it rolls back.
Abort(s) ==
    /\ ~At(s, "idle")
    /\ Finish(s)
    /\ UNCHANGED <<rows, object>>

-----------------------------------------------------------------------------
Payloads == (SUBSET Checks) \X SUBSET (Tokens \union Links)

Begin(s, u) ==
    \/ \E v \in Versions :
          \/ PatchRead(s, u, v)
          \/ PublishCheck(s, u, v)
          \/ DeprecateRead(s, u, v)
          \/ DeleteVersionRead(s, u, v)
          \/ DeleteResourceResolve(s, u, v)
    \/ \E r \in Resources :
          \/ NewVersionResource(s, u, r)
          \/ DeleteResourceRead(s, u, r)

Proceed(s) ==
    \/ \E meta \in SUBSET Checks : PatchCommit(s, meta)
    \/ PublishFlush(s)
    \/ PublishCommit(s)
    \/ DeprecateCommit(s)
    \/ NewVersionCurrent(s)
    \/ \E v \in Versions, p \in Payloads : NewVersionInsert(s, v, p[1], p[2])
    \/ DeleteDraftCommit(s)
    \/ DeleteResourceLoad(s)
    \/ DeleteResourceSelect(s)
    \/ \E v \in Versions : TombstoneFlush(s, v)
    \/ \E k \in Keys : DeleteObject(s, k) \/ DeleteObjectFails(s, k)
    \/ TombstoneCommit(s)

\* Steps of requests that are answered.
NextUndisturbed ==
    \/ \E k \in Keys : Upload(k)
    \/ \E u \in Users, r \in Resources, v \in Versions, p \in Payloads :
          CreateResource(u, r, v, p[1], p[2])
    \/ \E s \in Sessions : (\E u \in Users : Begin(s, u)) \/ Proceed(s)

Next == NextUndisturbed \/ \E s \in Sessions : Abort(s)

Spec == Init /\ [][Next]_vars

-----------------------------------------------------------------------------
TypeOK ==
    /\ owner \in [Resources -> Users \union {NoUser}]
    /\ current \in [Resources -> Versions \union {NoVersion}]
    /\ ver \in [Versions -> VersionRow]
    /\ object \in [Keys -> {"none", "stored", "deleted"}]
    /\ sess \in [Sessions -> Session]

(***************************************************************************)
(* A version keeps track of its objects for as long as its row is there:   *)
(* every upload registered for it that is still in the bucket has its key  *)
(* in download_url, so that a failed delete can be retried or reconciled,  *)
(* as the docstring of _tombstone_versions asks, whatever requests         *)
(* overlap, fail on one object of several or are rolled back.  It says     *)
(* nothing of a row that delete_version has removed: it deletes no object, *)
(* and no other handler looks for those that are left.                     *)
(***************************************************************************)
ObjectsTracked ==
    \A v \in Versions : Exists(ver[v]) =>
        \A k \in ver[v].dists \intersect Keys :
            object[k] = "stored" => k \in ver[v].urls

(***************************************************************************)
(* Whatever the requests in flight, current_version_id names a version of  *)
(* the resource that was published at some time, or a row that a           *)
(* concurrent delete_version removed: never a draft, never a version of    *)
(* another resource.  Likewise previous_version_id.                        *)
(***************************************************************************)
IssuedOrRemoved(v, r) ==
    \/ ver[v].state = "removed"
    \/ ver[v].state \in {"published", "deprecated"} /\ ver[v].base = r

PointersIssuedOrRemoved ==
    /\ \A r \in Resources : current[r] # NoVersion => IssuedOrRemoved(current[r], r)
    /\ \A v \in Versions :
          ver[v].prev # NoVersion => IssuedOrRemoved(ver[v].prev, ver[v].base)

\* The publisher of a version, whom the version handlers authorise, is the
\* owner of its resource, whom the resource handlers authorise.
PublisherIsOwner ==
    \A v \in Versions :
        Exists(ver[v]) => ver[v].publisher = owner[ver[v].base]

\* No interleaving turns a version that left the state "draft" into a draft
\* again, or reuses the id of a removed one.
NeverDraftAgain ==
    [][\A v \in Versions :
          ver[v].state \in {"published", "deprecated", "removed"} =>
              ver'[v].state # "draft"]_vars

-----------------------------------------------------------------------------
(* Properties of requests that do not overlap.                             *)

Atomic == INSTANCE Lifecycle WITH owner <- owner, current <- current, ver <- ver

\* With one request at a time, every handler takes effect at one instant,
\* its commit, and a rolled back one has no effect on the rows.
ImplementsLifecycle == Atomic!Spec

-----------------------------------------------------------------------------
(* What the documentation says, and overlapping requests or the handlers   *)
(* themselves do not keep (docs/index.html).                               *)

\* "Tombstone a resource - metadata is retained."
TombstonesRemain == [][\A v \in Versions : ver[v].deleted => ver'[v].deleted]_vars
=============================================================================
