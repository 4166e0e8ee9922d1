------------------------------ MODULE Harvest ------------------------------
(***************************************************************************)
(* An external portal that harvests the catalogue over OAI-PMH             *)
(* (app/routers/oai.py, app/core/catalog_visibility.py) while versions are *)
(* edited, published and deleted.  It asks for what was issued since the   *)
(* responseDate of its last answer.  That date is taken when the answer is *)
(* complete, several awaits after the SELECT, and publish_resource stamps  *)
(* "issued" before it commits.  There is no resumption token.              *)
(*                                                                         *)
(* The clock counts seconds, the granularity of responseDate.  Sets and    *)
(* "until" are further filters of the same SELECT and left out, and so are *)
(* the two pointers between rows, which a harvest does not follow.         *)
(***************************************************************************)
EXTENDS Naturals, FiniteSets

CONSTANTS
    Versions,
    Limit,       \* records in an answer: 500
    MaxTime      \* bound of the clock

ASSUME LimitAssumption == Limit \in Nat \ {0}
ASSUME MaxTimeAssumption == MaxTime \in Nat \ {0}

VARIABLES
    now,         \* the clock, from 1 on
    row,         \* version -> its row
    loaded,      \* <<handler, version>>: has loaded the version as a draft
    stamp,       \* version -> "issued" in a publish that has flushed, or 0
    list,        \* the ListRecords request in flight
    records,     \* the portal: versions it shows
    since,       \* the portal: responseDate of its last answer, 0 before it
    crossed,     \* history: versions that another handler held as a draft
                 \* while a publish did
    passed,      \* history: versions published while a list was in flight
    beyond       \* history: versions that an answer had no room for

catalogue == <<row, loaded, stamp>>
portal == <<list, records, since>>
history == <<crossed, passed, beyond>>
vars == <<now, catalogue, portal, history>>

Instants == 0 .. MaxTime
Handlers == {"patch", "publish", "delete"}
Issued == {"published", "deprecated"}

Row ==
    [state   : {"unused", "draft", "removed"} \union Issued,
     private : BOOLEAN,
     deleted : BOOLEAN,     \* data_deleted
     issued  : Instants]

NoList == [open |-> FALSE, live |-> {}, deleted |-> {}]

Init ==
    /\ now = 1
    /\ row = [v \in Versions |-> [state |-> "unused", private |-> FALSE,
                                  deleted |-> FALSE, issued |-> 0]]
    /\ loaded = {}
    /\ stamp = [v \in Versions |-> 0]
    /\ list = NoList
    /\ records = {}
    /\ since = 0
    /\ crossed = {} /\ passed = {} /\ beyond = {}

Tick ==
    /\ now < MaxTime
    /\ now' = now + 1
    /\ UNCHANGED <<catalogue, portal, history>>

-----------------------------------------------------------------------------
(* The catalogue (app/services/resource_service.py).                       *)

Exists(v) == row[v].state \notin {"unused", "removed"}
Locked(v) == stamp[v] # 0

\* create_resource, create_new_version: "issued" is the time of creation.
Create(v, private) ==
    /\ row[v].state = "unused"
    /\ row' = [row EXCEPT ![v] = [state |-> "draft", private |-> private,
                                  deleted |-> FALSE, issued |-> now]]
    /\ UNCHANGED <<now, loaded, stamp, portal, history>>

HoldersOf(v) == {h \in Handlers : <<h, v>> \in loaded}

\* Mutant: the state of the version is not looked at.
LoadAny(h, v) ==
    /\ Exists(v)
    /\ <<h, v>> \notin loaded
    /\ loaded' = loaded \union {<<h, v>>}
    /\ crossed' = IF "publish" \in HoldersOf(v) \union {h} /\ HoldersOf(v) # {}
                  THEN crossed \union {v} ELSE crossed
    /\ UNCHANGED <<now, row, stamp, portal, passed, beyond>>

\* patch_draft, publish_resource or delete_version loads the row; each goes
\* on only with a draft.  Two handlers of the same kind do not hold a version
\* at a time here.
Load(h, v) ==
    /\ row[v].state = "draft"
    /\ <<h, v>> \notin loaded
    /\ loaded' = loaded \union {<<h, v>>}
    /\ crossed' = IF "publish" \in HoldersOf(v) \union {h} /\ HoldersOf(v) # {}
                  THEN crossed \union {v} ELSE crossed
    /\ UNCHANGED <<now, row, stamp, portal, passed, beyond>>

\* patch_draft commits is_private; an update of a row that is gone fails.
PatchCommit(v, private) ==
    /\ <<"patch", v>> \in loaded
    /\ ~Locked(v)
    /\ loaded' = loaded \ {<<"patch", v>>}
    /\ row' = IF Exists(v) THEN [row EXCEPT ![v].private = private] ELSE row
    /\ UNCHANGED <<now, stamp, portal, history>>

\* publish_resource takes the time, and the next SELECT flushes the row.
PublishStamp(v) ==
    /\ <<"publish", v>> \in loaded
    /\ ~Locked(v) /\ Exists(v)
    /\ stamp' = [stamp EXCEPT ![v] = now]
    /\ passed' = IF list.open THEN passed \union {v} ELSE passed
    /\ UNCHANGED <<now, row, loaded, portal, crossed, beyond>>

\* Mutant: "issued" stays the time of creation.
PublishCommitUndated(v) ==
    /\ Locked(v)
    /\ row' = [row EXCEPT ![v].state = "published"]
    /\ stamp' = [stamp EXCEPT ![v] = 0]
    /\ loaded' = loaded \ {<<"publish", v>>}
    /\ UNCHANGED <<now, portal, history>>

PublishCommit(v) ==
    /\ Locked(v)
    /\ row' = [row EXCEPT ![v].state = "published", ![v].issued = stamp[v]]
    /\ stamp' = [stamp EXCEPT ![v] = 0]
    /\ loaded' = loaded \ {<<"publish", v>>}
    /\ UNCHANGED <<now, portal, history>>

\* delete_version of what was a draft when it was loaded.
DeleteDraftCommit(v) ==
    /\ <<"delete", v>> \in loaded
    /\ ~Locked(v)
    /\ loaded' = loaded \ {<<"delete", v>>}
    /\ row' = [row EXCEPT ![v].state = "removed"]
    /\ UNCHANGED <<now, stamp, portal, history>>

\* The handler is refused, finds the row gone, is cancelled or crashes.
HandlerFails(h, v) ==
    /\ <<h, v>> \in loaded
    /\ loaded' = loaded \ {<<h, v>>}
    /\ stamp' = IF h = "publish" THEN [stamp EXCEPT ![v] = 0] ELSE stamp
    /\ UNCHANGED <<now, row, portal, history>>

Deprecate(v) ==
    /\ row[v].state = "published" /\ ~Locked(v)
    /\ row' = [row EXCEPT ![v].state = "deprecated"]
    /\ UNCHANGED <<now, loaded, stamp, portal, history>>

\* delete_version or delete_resource, which takes drafts along; "issued"
\* stays as it is.
Tombstone(v) ==
    /\ Exists(v) /\ ~Locked(v)
    /\ row' = [row EXCEPT ![v].state = "deprecated", ![v].deleted = TRUE]
    /\ UNCHANGED <<now, loaded, stamp, portal, history>>

-----------------------------------------------------------------------------
(* GET /oai?verb=ListRecords and the portal.                               *)

\* oai_harvest_version_filters.
Harvested(v) == row[v].state \in Issued /\ ~row[v].private

Matching(from) == {v \in Versions : Harvested(v) /\ row[v].issued >= from}

\* The first versions in the order of "issued", which is finer than seconds.
FirstOf(vs) ==
    {page \in SUBSET vs :
        /\ Cardinality(page) = IF Cardinality(vs) < Limit THEN Cardinality(vs) ELSE Limit
        /\ \A v \in page, w \in vs \ page : row[v].issued <= row[w].issued}

\* _all_published, for a harvest since the last answer or a new one.
ListSelect(from) ==
    /\ ~list.open
    /\ \E page \in FirstOf(Matching(from)) :
          /\ list' = [open |-> TRUE,
                      live |-> {v \in page : ~row[v].deleted},
                      deleted |-> {v \in page : row[v].deleted}]
          /\ beyond' = beyond \union (Matching(from) \ page)
    /\ passed' = passed \union {v \in Versions : Locked(v)}
    /\ UNCHANGED <<now, catalogue, records, since, crossed>>

\* _wrap_envelope puts the time into the answer, which arrives: the portal
\* keeps it for its next harvest.
ListAnswer ==
    /\ list.open
    /\ records' = (records \ list.deleted) \union list.live
    /\ since' = now
    /\ list' = NoList
    /\ UNCHANGED <<now, catalogue, history>>

\* An error, or the answer is lost.
ListFails ==
    /\ list.open
    /\ list' = NoList
    /\ UNCHANGED <<now, catalogue, records, since, history>>

-----------------------------------------------------------------------------
Next ==
    \/ Tick
    \/ \E v \in Versions :
          \/ \E private \in BOOLEAN : Create(v, private) \/ PatchCommit(v, private)
          \/ \E h \in Handlers : Load(h, v) \/ HandlerFails(h, v)
          \/ PublishStamp(v) \/ PublishCommit(v) \/ DeleteDraftCommit(v)
          \/ Deprecate(v) \/ Tombstone(v)
    \/ \E from \in {0, since} : ListSelect(from)
    \/ ListAnswer \/ ListFails

Spec == Init /\ [][Next]_vars

-----------------------------------------------------------------------------
TypeOK ==
    /\ now \in 1 .. MaxTime
    /\ row \in [Versions -> Row]
    /\ loaded \subseteq Handlers \X Versions
    /\ stamp \in [Versions -> Instants]
    /\ list \in [open : BOOLEAN, live : SUBSET Versions, deleted : SUBSET Versions]
    /\ records \subseteq Versions
    /\ since \in Instants
    /\ crossed \subseteq Versions /\ passed \subseteq Versions /\ beyond \subseteq Versions

\* user_can_view_version for a caller without a token
\* (app/core/resource_access.py); 404 when there is no row.
Viewable(v) == Exists(v) /\ row[v].state # "draft" /\ ~row[v].private

(***************************************************************************)
(* What a portal shows leads somewhere: the landing page of a version it   *)
(* has harvested can be seen without a token for good, also as a           *)
(* tombstone, unless a patch or delete of the draft overlapped with its    *)
(* publication.                                                            *)
(***************************************************************************)
HarvestedIsViewable == \A v \in records \union list.live : Viewable(v) \/ v \in crossed

(***************************************************************************)
(* A portal that asks for what is new since its last answer has missed     *)
(* only versions whose publication overlapped with a list, or that an      *)
(* answer had no room for: whatever else is public it shows, or will be    *)
(* told of by the next answer.                                             *)
(***************************************************************************)
NothingIsMissed ==
    \A v \in Versions :
        Harvested(v) /\ ~row[v].deleted =>
            \/ v \in records \union list.live
            \/ row[v].issued >= since
            \/ v \in crossed \union passed \union beyond
=============================================================================
