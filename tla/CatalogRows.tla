---------------------------- MODULE CatalogRows ----------------------------
(***************************************************************************)
(* The rows of the catalogue database (app/models/resource.py and          *)
(* app/models/dataset.py), shared by the atomic specification Lifecycle    *)
(* and by Catalog, where the handlers run concurrently.                    *)
(*                                                                         *)
(* A resource row holds its owner and the id of its current version.  A    *)
(* version row holds the life-cycle state, the resource it belongs to and  *)
(* what the publish guard and the tombstone look at.  A                    *)
(* distribution is named by what it was registered with: the object key of *)
(* an upload, or an access URL.                                            *)
(***************************************************************************)
EXTENDS FairScore

CONSTANTS
    Resources,    \* resource ids that make_resource_id can return
    Versions,     \* version ids that make_version_id can return
    Users,        \* "sub" claims of authenticated users
    Keys,         \* object keys of the bucket, also called upload tokens
    Links,        \* access URLs of distributions that are no uploads
    Checks,       \* FAIR checks that the metadata in a payload meet or not
    Standing,     \* FAIR checks that the metadata of every version meet
    NoResource, NoVersion, NoUser    \* SQL NULL in the three id columns

ASSUME NullsAreNoIds ==
    /\ NoResource \notin Resources
    /\ NoVersion \notin Versions
    /\ NoUser \notin Users

ASSUME ChecksAreFairChecks == Checks \union Standing \subseteq FairChecks

ASSUME KeysAreNoLinks == Keys \intersect Links = {}

\* An id no row has used yet, one whose row was deleted, and the three
\* values of the column "state".
LiveStates == {"draft", "published", "deprecated"}
RowStates == {"unused", "removed"} \union LiveStates

VersionRow ==
    [state     : RowStates,
     base      : Resources \union {NoResource},
     publisher : Users \union {NoUser},
     prev      : Versions \union {NoVersion},
     meta      : SUBSET Checks,
     dists     : SUBSET (Keys \union Links),    \* distributions, as registered
     urls      : SUBSET Keys,      \* uploads that still have a download_url
     deleted   : BOOLEAN]          \* data_deleted

\* A version id that names no row.
EmptyRow(why) ==
    [state |-> why, base |-> NoResource, publisher |-> NoUser,
     prev |-> NoVersion, meta |-> {},
     dists |-> {}, urls |-> {}, deleted |-> FALSE]

\* Mutant: base_resource_id and previous_version_id change places.
DraftRowSwapped(r, u, p, meta, dists) ==
    [state |-> "draft", base |-> p, publisher |-> u, prev |-> r,
     meta |-> meta, dists |-> dists, urls |-> dists \intersect Keys,
     deleted |-> FALSE]

\* The draft that create_resource and create_new_version insert, with the
\* distributions _build_datasets_for_version makes from the payload.
DraftRow(r, u, p, meta, dists) ==
    [state |-> "draft", base |-> r, publisher |-> u, prev |-> p,
     meta |-> meta, dists |-> dists, urls |-> dists \intersect Keys,
     deleted |-> FALSE]

Exists(row) == row.state \in LiveStates

\* _count_distributions(version) > 0: a tombstone clears the URLs of a
\* distribution, never its row.
HasDistribution(row) == row.dists # {}

\* The checks of compute_fair_score that a version passes: those on its
\* distributions, and those on its metadata and its publisher's profile.
FairChecksOf(row) ==
    LET told == row.meta \union Standing
        uploads == row.dists \intersect Keys
    IN  {c \in FairChecks :
            CASE c = "has_distribution" -> HasDistribution(row)
              [] c = "access_url_present" -> HasDistribution(row) /\ uploads \subseteq row.urls
              [] c = "media_types_present" -> HasDistribution(row) /\ c \in told
              [] c = "checksum_on_uploads" -> uploads = {} \/ c \in told
              [] OTHER -> c \in told}

HasLicense(row) == "has_license" \in row.meta \union Standing

\* evaluate_publish_guard returns no failure.
PublishGuard(row) ==
    /\ row.state = "draft"
    /\ HasLicense(row)
    /\ HasDistribution(row)
    /\ FairEnough(FairChecksOf(row))
=============================================================================
