----------------------------- MODULE Lifecycle -----------------------------
(***************************************************************************)
(* What the catalogue promises: the life cycle of resources and their      *)
(* versions when every handler of app/services/resource_service.py takes   *)
(* effect at one instant, its checks and its writes together.  Catalog is  *)
(* the detailed model, where the handlers read, wait and commit.           *)
(***************************************************************************)
EXTENDS CatalogRows

VARIABLES
    owner,      \* resource -> owner_sub, NoUser while there is no row
    current,    \* resource -> current_version_id
    ver         \* version -> its row

vars == <<owner, current, ver>>

Init ==
    /\ owner = [r \in Resources |-> NoUser]
    /\ current = [r \in Resources |-> NoVersion]
    /\ ver = [v \in Versions |-> EmptyRow("unused")]

OwnedBy(v, u) == Exists(ver[v]) /\ ver[v].publisher = u

\* A new resource with its first draft.
CreateResource(u, r, v, meta, dists) ==
    /\ owner[r] = NoUser
    /\ ver[v].state = "unused"
    /\ owner' = [owner EXCEPT ![r] = u]
    /\ ver' = [ver EXCEPT ![v] = DraftRow(r, u, NoVersion, meta, dists)]
    /\ UNCHANGED current

\* The metadata of a draft is edited.
Patch(u, v, meta) ==
    /\ OwnedBy(v, u)
    /\ ver[v].state = "draft"
    /\ ver' = [ver EXCEPT ![v].meta = meta]
    /\ UNCHANGED <<owner, current>>

\* A draft that passes the guard becomes the current version.
Publish(u, v) ==
    /\ OwnedBy(v, u)
    /\ PublishGuard(ver[v])
    /\ ver' = [ver EXCEPT ![v].state = "published"]
    /\ current' = [current EXCEPT ![ver[v].base] = v]
    /\ UNCHANGED owner

Deprecate(u, v) ==
    /\ OwnedBy(v, u)
    /\ ver[v].state = "published"
    /\ ver' = [ver EXCEPT ![v].state = "deprecated"]
    /\ UNCHANGED <<owner, current>>

\* Mutant: the draft follows any version of the resource.
NewVersionOfAny(u, r, v, meta, dists) ==
    /\ owner[r] = u
    /\ current[r] # NoVersion
    /\ ver[v].state = "unused"
    /\ \E p \in Versions :
          /\ Exists(ver[p]) /\ ver[p].base = r
          /\ ver' = [ver EXCEPT ![v] = DraftRow(r, u, p, meta, dists)]
    /\ UNCHANGED <<owner, current>>

\* Mutant: a resource without a current version is not refused.
NewVersionWithoutCurrent(u, r, v, meta, dists) ==
    /\ owner[r] = u
    /\ ver[v].state = "unused"
    /\ ver' = [ver EXCEPT ![v] = DraftRow(r, u, current[r], meta, dists)]
    /\ UNCHANGED <<owner, current>>

\* A new draft after the current version.
NewVersion(u, r, v, meta, dists) ==
    /\ owner[r] = u
    /\ current[r] # NoVersion
    /\ Exists(ver[current[r]])
    /\ ver[v].state = "unused"
    /\ ver' = [ver EXCEPT ![v] = DraftRow(r, u, current[r], meta, dists)]
    /\ UNCHANGED <<owner, current>>

DeleteDraft(u, v) ==
    /\ OwnedBy(v, u)
    /\ ver[v].state = "draft"
    /\ ver' = [ver EXCEPT ![v] = EmptyRow("removed")]
    /\ UNCHANGED <<owner, current>>

\* Mutant: a tombstone keeps its state.
TombstonedInPlace(vs, kept) ==
    [v \in Versions |->
        IF v \in vs
        THEN [ver[v] EXCEPT !.deleted = TRUE, !.urls = @ \intersect kept[v]]
        ELSE ver[v]]

\* The rows after the versions of vs were tombstoned; kept[v] are the keys of
\* v whose object could not be deleted: they stay on their distributions.
Tombstoned(vs, kept) ==
    [v \in Versions |->
        IF v \in vs
        THEN [ver[v] EXCEPT !.state = "deprecated", !.deleted = TRUE,
                            !.urls = @ \intersect kept[v]]
        ELSE ver[v]]

DeleteVersion(u, v) ==
    /\ OwnedBy(v, u)
    /\ ver[v].state # "draft"
    /\ \E kept \in [{v} -> SUBSET Keys] : ver' = Tombstoned({v}, kept)
    /\ UNCHANGED <<owner, current>>

VersionsOf(r) == {v \in Versions : Exists(ver[v]) /\ ver[v].base = r}

\* All versions of a resource are tombstoned, drafts included, and the
\* resource has no current version any more.
DeleteResource(u, r) ==
    /\ owner[r] = u
    /\ \E kept \in [VersionsOf(r) -> SUBSET Keys] :
          ver' = Tombstoned(VersionsOf(r), kept)
    /\ current' = [current EXCEPT ![r] = NoVersion]
    /\ UNCHANGED owner

Next ==
    \E u \in Users :
        \/ \E r \in Resources :
              \/ \E v \in Versions, meta \in SUBSET Checks, dists \in SUBSET (Keys \union Links) :
                    \/ CreateResource(u, r, v, meta, dists)
                    \/ NewVersion(u, r, v, meta, dists)
              \/ DeleteResource(u, r)
        \/ \E v \in Versions :
              \/ \E meta \in SUBSET Checks : Patch(u, v, meta)
              \/ Publish(u, v)
              \/ Deprecate(u, v)
              \/ DeleteDraft(u, v)
              \/ DeleteVersion(u, v)

Spec == Init /\ [][Next]_vars

-----------------------------------------------------------------------------
TypeOK ==
    /\ owner \in [Resources -> Users \union {NoUser}]
    /\ current \in [Resources -> Versions \union {NoVersion}]
    /\ ver \in [Versions -> VersionRow]

(***************************************************************************)
(* What a reader of the catalogue gets to see as published passed the      *)
(* guard and still does: it has a licence and a distribution, its data was *)
(* not deleted, and the exact mean of its four FAIR shares is at least     *)
(* 0.4, rounded as they are in the code (publish_resource, patch_draft,    *)
(* _tombstone_versions and compute_fair_score together).                   *)
(***************************************************************************)
PublishedIsFair ==
    \A v \in Versions :
        ver[v].state = "published" =>
            /\ HasLicense(ver[v]) /\ HasDistribution(ver[v]) /\ ~ver[v].deleted
            /\ LET n(dimension) == Passed(FairChecksOf(ver[v]), dimension)
               IN  IsFair(n(Findable), n(Accessible), n(Interoperable), n(Reusable))

(***************************************************************************)
(* The two columns between rows that have no foreign key never dangle.     *)
(* current_version_id names an existing version of the same resource that  *)
(* was published at some time, so get_latest meets no missing row and no   *)
(* draft, and so does previous_version_id: what create_new_version read    *)
(* stays where it is.                                                      *)
(***************************************************************************)
Issued(v, r) == ver[v].state \in {"published", "deprecated"} /\ ver[v].base = r

PointersAreIssued ==
    /\ \A r \in Resources : current[r] # NoVersion => Issued(current[r], r)
    /\ \A v \in Versions :
          Exists(ver[v]) /\ ver[v].prev # NoVersion => Issued(ver[v].prev, ver[v].base)

\* "Metadata tombstones remain": the row of a deleted version stays, deleted,
\* and no handler gives it a URL again.
TombstonesRemain ==
    [][\A v \in Versions :
          ver[v].deleted =>
              ver'[v].deleted /\ ver'[v].urls \subseteq ver[v].urls]_vars

(***************************************************************************)
(* A deleted resource is closed: once delete_resource ran, no later call   *)
(* gives the resource a version that is not a tombstone, or a current      *)
(* version.                                                                *)
(***************************************************************************)
Closed(r) ==
    /\ owner[r] # NoUser
    /\ current[r] = NoVersion
    /\ \A v \in VersionsOf(r) : ver[v].deleted

ClosedStaysClosed == [][\A r \in Resources : Closed(r) => Closed(r)']_vars
=============================================================================
