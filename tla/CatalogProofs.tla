--------------------------- MODULE CatalogProofs ---------------------------
(***************************************************************************)
(* Theorems about Catalog, for any number of resources, versions, users,   *)
(* keys and requests in flight.                                            *)
(***************************************************************************)
EXTENDS MCCatalogSerial, TLAPS

-----------------------------------------------------------------------------
(* Type correctness.  It takes more than TypeOK: a handler holds a row id  *)
(* where it uses one, and the rows it has locked are not removed.          *)

HoldsVersion == {"patch", "guarded", "publish", "deprecate", "delete_draft"}
HoldsResource ==
    {"publish", "new_resource", "new_current", "resolved", "delete_resource"}
Inserting == {"new_resource", "new_current"}

\* What a session record holds at each await.
RecordOK(ses) ==
    /\ ses \in Session
    /\ ses.pc \in HoldsVersion => ses.ver \in Versions
    /\ ses.pc \in HoldsResource => ses.res \in Resources
    /\ ses.pc \in Inserting => ses.user \in Users /\ ses.loaded \in Versions
    /\ ses.pc = "resolved" => ses.user \in Users
    /\ ses.todo # {} => ses.pc = "tombstone" /\ ses.ver \in Versions
    /\ ses.flushed # {} => ses.pc \in {"publish", "tombstone"}
    /\ ses.pc = "publish" => ses.ver \in ses.flushed

\* A row that exists belongs to a resource.
ProperRow == {row \in VersionRow : Exists(row) => row.base \in Resources}

LockedRowsExist ==
    \A s \in Sessions : \A v \in sess[s].flushed : Exists(ver[v])

WellTyped ==
    /\ owner \in [Resources -> Users \union {NoUser}]
    /\ current \in [Resources -> Versions \union {NoVersion}]
    /\ ver \in [Versions -> ProperRow]
    /\ object \in [Keys -> {"none", "stored", "deleted"}]
    /\ sess \in [Sessions -> Session]
    /\ \A s \in Sessions : RecordOK(sess[s])
    /\ LockedRowsExist

LEMMA WellTypedIsTypeOK == WellTyped => TypeOK
BY DEF WellTyped, TypeOK, ProperRow

LEMMA IdleOK == RecordOK(Idle) /\ Idle.flushed = {}
BY DEF Idle, RecordOK, Session, Points, RowStates, LiveStates,
       HoldsVersion, HoldsResource, Inserting

\* The rows that the handlers insert or leave behind.
LEMMA RowTypes ==
    /\ EmptyRow("unused") \in ProperRow
    /\ EmptyRow("removed") \in ProperRow
    /\ \A r \in Resources, u \in Users, p \in Versions \union {NoVersion},
          meta \in SUBSET Checks, dists \in SUBSET (Keys \union Links) :
          /\ DraftRow(r, u, p, meta, dists) \in ProperRow
          /\ Exists(DraftRow(r, u, p, meta, dists))
BY DEF ProperRow, Exists, VersionRow, EmptyRow, DraftRow, RowStates, LiveStates

LEMMA InitWellTyped == Init => WellTyped
BY IdleOK, RowTypes DEF Init, WellTyped, LockedRowsExist, RecordOK

\* A step of s that leaves proper rows, goes on with a proper record and
\* removes no row that another request has locked.
LEMMA ContinueWellTyped ==
    ASSUME WellTyped, NEW s \in Sessions, NEW next, RecordOK(next),
           Continue(s, next),
           owner' \in [Resources -> Users \union {NoUser}],
           current' \in [Resources -> Versions \union {NoVersion}],
           ver' \in [Versions -> ProperRow],
           object' \in [Keys -> {"none", "stored", "deleted"}],
           \A v \in next.flushed : Exists(ver'[v]),
           \A v \in Versions :
              Exists(ver[v]) /\ Locked(s, v) => Exists(ver'[v])
    PROVE  WellTyped'
<1>1. sess' \in [Sessions -> Session] /\ sess'[s] = next
  BY DEF WellTyped, RecordOK, Continue
<1>2. \A t \in Sessions \ {s} : sess'[t] = sess[t]
  BY DEF WellTyped, Continue
<1>3. \A t \in Sessions : RecordOK(sess'[t])
  BY <1>1, <1>2 DEF WellTyped
<1>4. ASSUME NEW t \in Sessions \ {s}, NEW v \in sess[t].flushed
      PROVE  Exists(ver'[v])
  <2>1. v \in Versions /\ Exists(ver[v])
    BY DEF WellTyped, LockedRowsExist, Session
  <2>. QED
    BY <2>1 DEF Locked
<1>5. LockedRowsExist'
  BY <1>1, <1>2, <1>4 DEF LockedRowsExist
<1>. QED
  BY <1>1, <1>3, <1>5 DEF WellTyped

\* A step of s that only reads.
LEMMA ReadWellTyped ==
    ASSUME WellTyped, NEW s \in Sessions, NEW next, RecordOK(next),
           Continue(s, next), UNCHANGED <<rows, object>>,
           \A v \in next.flushed : Exists(ver[v])
    PROVE  WellTyped'
BY ContinueWellTyped DEF rows, WellTyped

\* The end of a transaction that leaves proper rows.
LEMMA FinishWellTyped ==
    ASSUME WellTyped, NEW s \in Sessions, Finish(s),
           owner' \in [Resources -> Users \union {NoUser}],
           current' \in [Resources -> Versions \union {NoVersion}],
           ver' \in [Versions -> ProperRow],
           object' \in [Keys -> {"none", "stored", "deleted"}],
           \A v \in Versions :
              Exists(ver[v]) /\ Locked(s, v) => Exists(ver'[v])
    PROVE  WellTyped'
BY ContinueWellTyped, IdleOK DEF Finish

\* The first read of each handler.
LEMMA BeginWellTyped ==
    ASSUME WellTyped, NEW s \in Sessions, NEW u \in Users, Begin(s, u)
    PROVE  WellTyped'
<1>. USE DEF Session, Points, HoldsVersion, HoldsResource, Inserting
<1>t. ver \in [Versions -> VersionRow]
  BY DEF WellTyped, ProperRow
<1>1. ASSUME NEW v \in Versions, PatchRead(s, u, v) PROVE WellTyped'
  <2>. DEFINE next == [Idle EXCEPT !.pc = "patch", !.ver = v,
                                   !.meta = ver[v].meta]
  <2>1. RecordOK(next) /\ next.flushed = {}
    BY <1>t, IdleOK DEF RecordOK, Idle, VersionRow
  <2>2. Continue(s, next) /\ UNCHANGED <<rows, object>>
    BY <1>1 DEF PatchRead
  <2>. HIDE DEF next
  <2>. QED
    BY <2>1, <2>2, ReadWellTyped
<1>2. ASSUME NEW v \in Versions, PublishCheck(s, u, v) PROVE WellTyped'
  <2>. DEFINE next == [Idle EXCEPT !.pc = "guarded", !.ver = v]
  <2>1. RecordOK(next) /\ next.flushed = {}
    BY IdleOK DEF RecordOK, Idle
  <2>2. Continue(s, next) /\ UNCHANGED <<rows, object>>
    BY <1>2 DEF PublishCheck
  <2>. HIDE DEF next
  <2>. QED
    BY <2>1, <2>2, ReadWellTyped
<1>3. ASSUME NEW v \in Versions, DeprecateRead(s, u, v) PROVE WellTyped'
  <2>. DEFINE next == [Idle EXCEPT !.pc = "deprecate", !.ver = v]
  <2>1. RecordOK(next) /\ next.flushed = {}
    BY IdleOK DEF RecordOK, Idle
  <2>2. Continue(s, next) /\ UNCHANGED <<rows, object>>
    BY <1>3 DEF DeprecateRead
  <2>. HIDE DEF next
  <2>. QED
    BY <2>1, <2>2, ReadWellTyped
<1>4. ASSUME NEW v \in Versions, DeleteVersionRead(s, u, v) PROVE WellTyped'
  <2>. DEFINE draft == [Idle EXCEPT !.pc = "delete_draft", !.ver = v]
              other == [Idle EXCEPT !.pc = "tombstone", !.seen[v] = ver[v].state]
  <2>1. RecordOK(draft) /\ draft.flushed = {}
    BY IdleOK DEF RecordOK, Idle
  <2>2. RecordOK(other) /\ other.flushed = {}
    BY <1>t, IdleOK DEF RecordOK, Idle, VersionRow
  <2>3. Continue(s, draft) \/ Continue(s, other)
    BY <1>4 DEF DeleteVersionRead
  <2>4. UNCHANGED <<rows, object>>
    BY <1>4 DEF DeleteVersionRead
  <2>. HIDE DEF draft, other
  <2>. QED
    BY <2>1, <2>2, <2>3, <2>4, ReadWellTyped
<1>5. ASSUME NEW r \in Resources, NewVersionResource(s, u, r) PROVE WellTyped'
  <2>. DEFINE next == [Idle EXCEPT !.pc = "new_resource", !.user = u,
                                   !.res = r, !.loaded = current[r]]
  <2>0. current[r] \in Versions
    BY <1>5 DEF NewVersionResource, WellTyped
  <2>1. RecordOK(next) /\ next.flushed = {}
    BY <2>0, IdleOK DEF RecordOK, Idle
  <2>2. Continue(s, next) /\ UNCHANGED <<rows, object>>
    BY <1>5 DEF NewVersionResource
  <2>. HIDE DEF next
  <2>. QED
    BY <2>1, <2>2, ReadWellTyped
<1>6. ASSUME NEW r \in Resources, DeleteResourceRead(s, u, r) PROVE WellTyped'
  <2>. DEFINE next == [Idle EXCEPT !.pc = "delete_resource", !.res = r,
                                   !.loaded = current[r]]
  <2>0. current[r] \in Versions \union {NoVersion}
    BY DEF WellTyped
  <2>1. RecordOK(next) /\ next.flushed = {}
    BY <2>0, IdleOK DEF RecordOK, Idle
  <2>2. Continue(s, next) /\ UNCHANGED <<rows, object>>
    BY <1>6 DEF DeleteResourceRead
  <2>. HIDE DEF next
  <2>. QED
    BY <2>1, <2>2, ReadWellTyped
<1>7. ASSUME NEW v \in Versions, DeleteResourceResolve(s, u, v) PROVE WellTyped'
  <2>. DEFINE next == [Idle EXCEPT !.pc = "resolved", !.user = u,
                                   !.res = ver[v].base, !.seen[v] = ver[v].state]
  <2>0. ver[v].base \in Resources
    BY <1>7 DEF DeleteResourceResolve, WellTyped, ProperRow
  <2>1. RecordOK(next) /\ next.flushed = {}
    BY <1>t, <2>0, IdleOK DEF RecordOK, Idle, VersionRow
  <2>2. Continue(s, next) /\ UNCHANGED <<rows, object>>
    BY <1>7 DEF DeleteResourceResolve
  <2>. HIDE DEF next
  <2>. QED
    BY <2>1, <2>2, ReadWellTyped
<1>. QED
  BY <1>1, <1>2, <1>3, <1>4, <1>5, <1>6, <1>7 DEF Begin

\* The later steps of each handler.
LEMMA ProceedWellTyped ==
    ASSUME WellTyped, NEW s \in Sessions, Proceed(s)
    PROVE  WellTyped'
<1>. USE DEF HoldsVersion, HoldsResource, Inserting
<1>t. /\ ver \in [Versions -> VersionRow]
      /\ ver \in [Versions -> ProperRow]
      /\ current \in [Resources -> Versions \union {NoVersion}]
      /\ owner \in [Resources -> Users \union {NoUser}]
      /\ object \in [Keys -> {"none", "stored", "deleted"}]
      /\ RecordOK(sess[s])
      /\ sess[s] \in Session
  BY DEF WellTyped, ProperRow
<1>1. ASSUME NEW meta \in SUBSET Checks, PatchCommit(s, meta) PROVE WellTyped'
  <2>1. \/ UNCHANGED ver
        \/ ver' = [ver EXCEPT ![sess[s].ver].meta = (@ \ (sess[s].meta \ meta))
                                                  \union (meta \ sess[s].meta)]
    BY <1>1 DEF PatchCommit
  <2>2. ver' \in [Versions -> ProperRow]
    BY <1>t, <2>1 DEF ProperRow, VersionRow, Exists
  <2>3. \A v \in Versions : Exists(ver[v]) => Exists(ver'[v])
    BY <1>t, <2>1 DEF VersionRow, Exists
  <2>. QED
    BY <1>1, <1>t, <2>2, <2>3, FinishWellTyped DEF PatchCommit
<1>2. ASSUME PublishFlush(s) PROVE WellTyped'
  <2>. DEFINE v == sess[s].ver
              next == [sess[s] EXCEPT !.pc = "publish", !.res = ver[v].base,
                                      !.loaded = current[ver[v].base],
                                      !.flushed = {v}]
  <2>1. UNCHANGED <<rows, object>> /\ sess[s].pc = "guarded"
    BY <1>2 DEF PublishFlush, At
  <2>2. CASE Finish(s)
    BY <2>1, <2>2, <1>t, FinishWellTyped DEF rows
  <2>3. CASE Continue(s, next) /\ Exists(ver[v])
    <3>1. v \in Versions /\ ver[v].base \in Resources
      BY <1>t, <2>1, <2>3 DEF RecordOK, ProperRow
    <3>2. current[ver[v].base] \in Versions \union {NoVersion}
      BY <1>t, <3>1
    <3>3. RecordOK(next) /\ next.flushed = {v}
      BY <1>t, <2>1, <3>1, <3>2 DEF RecordOK, Session, Points
    <3>. HIDE DEF next
    <3>. QED
      BY <2>1, <2>3, <3>3, ReadWellTyped
  <2>. QED
    BY <1>2, <2>2, <2>3 DEF PublishFlush
<1>3. ASSUME PublishCommit(s) PROVE WellTyped'
  <2>. DEFINE v == sess[s].ver
  <2>1. v \in Versions /\ sess[s].res \in Resources /\ Exists(ver[v])
    BY <1>3, <1>t DEF PublishCommit, At, RecordOK, WellTyped, LockedRowsExist
  <2>2. ver' \in [Versions -> ProperRow]
    BY <1>3, <1>t, <2>1
       DEF PublishCommit, ProperRow, VersionRow, Exists, RowStates, LiveStates
  <2>3. current' \in [Resources -> Versions \union {NoVersion}]
    BY <1>3, <1>t, <2>1 DEF PublishCommit
  <2>4. \A w \in Versions : Exists(ver[w]) => Exists(ver'[w])
    BY <1>3, <1>t, <2>1 DEF PublishCommit, VersionRow, Exists, LiveStates
  <2>. QED
    BY <1>3, <1>t, <2>2, <2>3, <2>4, FinishWellTyped DEF PublishCommit
<1>4. ASSUME DeprecateCommit(s) PROVE WellTyped'
  <2>1. \/ UNCHANGED ver
        \/ /\ Exists(ver[sess[s].ver])
           /\ ver' = [ver EXCEPT ![sess[s].ver].state = "deprecated"]
    BY <1>4 DEF DeprecateCommit
  <2>2. ver' \in [Versions -> ProperRow]
    BY <1>t, <2>1 DEF ProperRow, VersionRow, Exists, RowStates, LiveStates
  <2>3. \A v \in Versions : Exists(ver[v]) => Exists(ver'[v])
    BY <1>t, <2>1 DEF VersionRow, Exists, LiveStates
  <2>. QED
    BY <1>4, <1>t, <2>2, <2>3, FinishWellTyped DEF DeprecateCommit
<1>5. ASSUME NewVersionCurrent(s) PROVE WellTyped'
  <2>. DEFINE next == [sess[s] EXCEPT !.pc = "new_current"]
  <2>1. UNCHANGED <<rows, object>> /\ sess[s].pc = "new_resource"
    BY <1>5 DEF NewVersionCurrent, At
  <2>2. CASE Finish(s)
    BY <2>1, <2>2, <1>t, FinishWellTyped DEF rows
  <2>3. CASE Continue(s, next)
    <3>1. RecordOK(next) /\ next.flushed = {}
      BY <1>t, <2>1 DEF RecordOK, Session, Points
    <3>. HIDE DEF next
    <3>. QED
      BY <2>1, <2>3, <3>1, ReadWellTyped
  <2>. QED
    BY <1>5, <2>2, <2>3 DEF NewVersionCurrent
<1>6. ASSUME NEW v \in Versions, NEW p \in Payloads,
             NewVersionInsert(s, v, p[1], p[2])
      PROVE  WellTyped'
  <2>. DEFINE row == DraftRow(sess[s].res, sess[s].user, sess[s].loaded, p[1], p[2])
  <2>1. p[1] \in SUBSET Checks /\ p[2] \in SUBSET (Keys \union Links)
    BY DEF Payloads, Tokens
  <2>2. row \in ProperRow /\ Exists(row)
    BY <1>6, <1>t, <2>1, RowTypes DEF NewVersionInsert, At, RecordOK
  <2>3. ver' = [ver EXCEPT ![v] = row]
    BY <1>6 DEF NewVersionInsert
  <2>. HIDE DEF row
  <2>4. ver' \in [Versions -> ProperRow]
    BY <1>t, <2>2, <2>3
  <2>5. \A w \in Versions : Exists(ver[w]) => Exists(ver'[w])
    BY <1>t, <2>2, <2>3
  <2>. QED
    BY <1>6, <1>t, <2>4, <2>5, FinishWellTyped DEF NewVersionInsert
<1>7. ASSUME DeleteDraftCommit(s) PROVE WellTyped'
  <2>. DEFINE v == sess[s].ver
  <2>1. ver' = [ver EXCEPT ![v] = EmptyRow("removed")] /\ ~Locked(s, v)
    BY <1>7 DEF DeleteDraftCommit
  <2>2. ver' \in [Versions -> ProperRow]
    BY <1>t, <2>1, RowTypes
  <2>3. \A w \in Versions : Exists(ver[w]) /\ Locked(s, w) => Exists(ver'[w])
    BY <1>t, <2>1
  <2>. QED
    BY <1>7, <1>t, <2>2, <2>3, FinishWellTyped DEF DeleteDraftCommit
<1>8. ASSUME DeleteResourceSelect(s) PROVE WellTyped'
  <2>. DEFINE listed == {v \in Versions :
                            Exists(ver[v]) /\ ver[v].base = sess[s].res}
              seen == [v \in Versions |->
                         IF v \in listed
                         THEN IF sess[s].seen[v] # "unused" THEN sess[s].seen[v]
                                                           ELSE ver[v].state
                         ELSE "unused"]
              next == [sess[s] EXCEPT !.pc = "tombstone", !.seen = seen]
  <2>1. Continue(s, next) /\ UNCHANGED <<rows, object>> /\ sess[s].pc = "delete_resource"
    BY <1>8 DEF DeleteResourceSelect, At
  <2>2. seen \in [Versions -> RowStates]
    BY <1>t DEF Session, VersionRow, RowStates
  <2>. HIDE DEF seen
  <2>3. RecordOK(next) /\ next.flushed = {}
    BY <1>t, <2>1, <2>2 DEF RecordOK, Session, Points
  <2>. HIDE DEF next
  <2>. QED
    BY <2>1, <2>3, ReadWellTyped
<1>9. ASSUME NEW v \in Versions, TombstoneFlush(s, v) PROVE WellTyped'
  <2>. DEFINE next == [sess[s] EXCEPT !.ver = v, !.todo = ver[v].urls,
                                      !.flushed = @ \union {v}]
  <2>1. UNCHANGED <<rows, object>> /\ sess[s].pc = "tombstone"
    BY <1>9 DEF TombstoneFlush, At
  <2>2. CASE Finish(s)
    BY <2>1, <2>2, <1>t, FinishWellTyped DEF rows
  <2>3. CASE Continue(s, next) /\ Exists(ver[v])
    <3>1. RecordOK(next) /\ next.flushed = sess[s].flushed \union {v}
      BY <1>t, <2>1 DEF RecordOK, Session, VersionRow
    <3>2. \A w \in next.flushed : Exists(ver[w])
      BY <3>1, <2>3 DEF WellTyped, LockedRowsExist
    <3>. HIDE DEF next
    <3>. QED
      BY <2>1, <2>3, <3>1, <3>2, ReadWellTyped
  <2>. QED
    BY <1>9, <2>2, <2>3 DEF TombstoneFlush
<1>10. ASSUME NEW k \in Keys, DeleteObject(s, k) \/ DeleteObjectFails(s, k)
       PROVE  WellTyped'
  <2>. DEFINE done == [sess[s] EXCEPT !.todo = @ \ {k},
                                      !.cleared = @ \union {<<sess[s].ver, k>>}]
              failed == [sess[s] EXCEPT !.todo = @ \ {k}]
  <2>1. /\ UNCHANGED rows /\ sess[s].pc = "tombstone" /\ sess[s].todo # {}
        /\ object' \in {object, [object EXCEPT ![k] = "deleted"]}
        /\ Continue(s, done) \/ Continue(s, failed)
    BY <1>10 DEF DeleteObject, DeleteObjectFails, At
  <2>2. RecordOK(done) /\ done.flushed = sess[s].flushed
    <3>. DEFINE cleared == sess[s].cleared \union {<<sess[s].ver, k>>}
    <3>1. cleared \in SUBSET (Versions \X Keys)
      BY <1>t, <2>1 DEF RecordOK, Session
    <3>. HIDE DEF cleared
    <3>2. done = [sess[s] EXCEPT !.todo = @ \ {k}, !.cleared = cleared]
      BY DEF cleared
    <3>. QED
      BY <1>t, <2>1, <3>1, <3>2 DEF RecordOK, Session
  <2>3. RecordOK(failed) /\ failed.flushed = sess[s].flushed
    BY <1>t, <2>1 DEF RecordOK, Session
  <2>4. object' \in [Keys -> {"none", "stored", "deleted"}]
    BY <1>t, <2>1
  <2>5. \A v \in sess[s].flushed : Exists(ver[v])
    BY DEF WellTyped, LockedRowsExist
  <2>. HIDE DEF done, failed
  <2>. QED
    BY <1>t, <2>1, <2>2, <2>3, <2>4, <2>5, ContinueWellTyped DEF rows
<1>11. ASSUME TombstoneCommit(s) PROVE WellTyped'
  <2>. DEFINE row(v) == [ver[v] EXCEPT
                           !.deleted = TRUE,
                           !.state = IF sess[s].seen[v] = "deprecated"
                                     THEN @ ELSE "deprecated",
                           !.urls = {k \in @ : <<v, k>> \notin sess[s].cleared}]
  <2>1. ver' = [v \in Versions |-> IF v \in sess[s].flushed THEN row(v) ELSE ver[v]]
    BY <1>11 DEF TombstoneCommit
  <2>2. ASSUME NEW v \in Versions, v \in sess[s].flushed
        PROVE  row(v) \in ProperRow /\ Exists(row(v))
    <3>1. ver[v] \in VersionRow /\ Exists(ver[v]) /\ ver[v] \in ProperRow
      BY <1>t, <2>2 DEF WellTyped, LockedRowsExist
    <3>. QED
      BY <3>1 DEF ProperRow, VersionRow, Exists, RowStates, LiveStates
  <2>. HIDE DEF row
  <2>3. ver' \in [Versions -> ProperRow]
    BY <1>t, <2>1, <2>2
  <2>4. \A v \in Versions : Exists(ver[v]) => Exists(ver'[v])
    BY <1>t, <2>1, <2>2
  <2>5. current' \in [Resources -> Versions \union {NoVersion}]
    BY <1>11, <1>t DEF TombstoneCommit
  <2>. QED
    BY <1>11, <1>t, <2>3, <2>4, <2>5, FinishWellTyped DEF TombstoneCommit
<1>12. ASSUME DeleteResourceLoad(s) PROVE WellTyped'
  <2>. DEFINE next == [sess[s] EXCEPT !.pc = "delete_resource", !.user = NoUser,
                                      !.loaded = current[sess[s].res]]
  <2>1. UNCHANGED <<rows, object>> /\ sess[s].pc = "resolved"
    BY <1>12 DEF DeleteResourceLoad, At
  <2>2. CASE Finish(s)
    BY <2>1, <2>2, <1>t, FinishWellTyped DEF rows
  <2>3. CASE Continue(s, next)
    <3>1. current[sess[s].res] \in Versions \union {NoVersion}
      BY <1>t, <2>1 DEF RecordOK
    <3>2. RecordOK(next) /\ next.flushed = {}
      BY <1>t, <2>1, <3>1 DEF RecordOK, Session, Points
    <3>. HIDE DEF next
    <3>. QED
      BY <2>1, <2>3, <3>2, ReadWellTyped
  <2>. QED
    BY <1>12, <2>2, <2>3 DEF DeleteResourceLoad
<1>. QED
  BY <1>1, <1>2, <1>3, <1>4, <1>5, <1>6, <1>7, <1>8, <1>9, <1>10, <1>11, <1>12
     DEF Proceed

LEMMA NextWellTyped == WellTyped /\ [Next]_vars => WellTyped'
<1>. SUFFICES ASSUME WellTyped, [Next]_vars PROVE WellTyped'
  OBVIOUS
<1>1. ASSUME NEW k \in Keys, Upload(k) PROVE WellTyped'
  BY <1>1 DEF Upload, rows, WellTyped, LockedRowsExist
<1>2. ASSUME NEW u \in Users, NEW r \in Resources, NEW v \in Versions,
             NEW p \in Payloads, CreateResource(u, r, v, p[1], p[2])
      PROVE  WellTyped'
  <2>. DEFINE row == DraftRow(r, u, NoVersion, p[1], p[2])
  <2>1. p[1] \in SUBSET Checks /\ p[2] \in SUBSET (Keys \union Links)
    BY DEF Payloads, Tokens
  <2>2. row \in ProperRow /\ Exists(row)
    BY <2>1, RowTypes
  <2>3. ver' = [ver EXCEPT ![v] = row] /\ UNCHANGED <<current, object, sess>>
        /\ owner' = [owner EXCEPT ![r] = u]
    BY <1>2 DEF CreateResource
  <2>. HIDE DEF row
  <2>4. \A w \in Versions : Exists(ver[w]) => Exists(ver'[w])
    BY <2>2, <2>3 DEF WellTyped
  <2>5. LockedRowsExist'
    BY <2>3, <2>4 DEF WellTyped, LockedRowsExist, Session
  <2>. QED
    BY <2>2, <2>3, <2>5 DEF WellTyped
<1>3. ASSUME NEW s \in Sessions, Abort(s) PROVE WellTyped'
  BY <1>3, FinishWellTyped DEF Abort, rows, WellTyped
<1>4. CASE UNCHANGED vars
  BY <1>4 DEF vars, WellTyped, LockedRowsExist
<1>. QED
  BY <1>1, <1>2, <1>3, <1>4, BeginWellTyped, ProceedWellTyped DEF Next, NextUndisturbed

\* Every reachable state is well typed, whatever the requests in flight.
THEOREM TypeCorrect == Spec => []TypeOK
<1>1. Spec => []WellTyped
  BY InitWellTyped, NextWellTyped, PTL DEF Spec
<1>. QED
  BY <1>1, WellTypedIsTypeOK, PTL

-----------------------------------------------------------------------------
(* Objects of the bucket.  ObjectsTracked is not inductive: the commit of a *)
(* tombstone forgets the keys it cleared, so these have to be gone, and a   *)
(* key that is registered before its object exists would be tracked by luck *)
(* only, so every registered key was uploaded.                              *)

ClearedIsGone ==
    \A s \in Sessions : \A v \in Versions : \A k \in Keys :
        <<v, k>> \in sess[s].cleared => object[k] = "deleted"

RegisteredIsUploaded ==
    \A v \in Versions : \A k \in ver[v].dists \intersect Keys : object[k] # "none"

ObjectsInv == ClearedIsGone /\ RegisteredIsUploaded /\ ObjectsTracked

LEMMA InitObjectsInv == Init => ObjectsInv
BY DEF Init, ObjectsInv, ClearedIsGone, RegisteredIsUploaded, ObjectsTracked,
       Idle, EmptyRow

\* A row may lose a URL only when its object is gone or the row is removed,
\* and may get a distribution only when its object was uploaded.
RowTracked(v) ==
    \A k \in ver'[v].dists \intersect Keys :
        /\ object[k] # "none"
        /\ Exists(ver'[v]) /\ object[k] = "stored" => k \in ver'[v].urls

\* A step that changes rows but no object.
LEMMA RowsStepObjects ==
    ASSUME WellTyped, ObjectsInv, UNCHANGED object,
           \A v \in Versions : RowTracked(v),
           \A s \in Sessions : sess'[s].cleared \subseteq sess[s].cleared
    PROVE  ObjectsInv'
BY DEF ObjectsInv, ClearedIsGone, RegisteredIsUploaded, ObjectsTracked, RowTracked

\* Rows that keep their distributions and URLs remain tracked.
LEMMA SameRowTracked ==
    ASSUME ObjectsInv, NEW v \in Versions, Exists(ver'[v]) => Exists(ver[v]),
           ver'[v].dists = ver[v].dists, ver'[v].urls = ver[v].urls
    PROVE  RowTracked(v)
BY DEF ObjectsInv, RegisteredIsUploaded, ObjectsTracked, RowTracked

LEMMA NewRowTracked ==
    ASSUME NEW v \in Versions, NEW p \in Payloads, NEW r, NEW u, NEW w, NEW meta,
           ver'[v] = DraftRow(r, u, w, meta, p[2])
    PROVE  RowTracked(v)
<1>1. p[2] \in SUBSET (Tokens \union Links)
  BY DEF Payloads
<1>. QED
  BY <1>1, KeysAreNoLinks DEF RowTracked, DraftRow, Tokens

LEMMA FinishCleared ==
    ASSUME WellTyped, NEW s \in Sessions, Finish(s)
    PROVE  \A t \in Sessions : sess'[t].cleared \subseteq sess[t].cleared
BY DEF WellTyped, Finish, Continue, Idle

LEMMA BeginObjects ==
    ASSUME WellTyped, ObjectsInv, NEW s \in Sessions, NEW u \in Users, Begin(s, u)
    PROVE  ObjectsInv'
<1>1. UNCHANGED <<rows, object>>
  BY DEF Begin, PatchRead, PublishCheck, DeprecateRead, DeleteVersionRead,
         NewVersionResource, DeleteResourceRead, DeleteResourceResolve
<1>. DEFINE Shrinks == \A t \in Sessions : sess'[t].cleared \subseteq sess[t].cleared
<1>t. sess \in [Sessions -> Session]
  BY DEF WellTyped
<1>2. ASSUME NEW v \in Versions, PatchRead(s, u, v) PROVE Shrinks
  BY <1>2, <1>t DEF PatchRead, Continue, Idle
<1>3. ASSUME NEW v \in Versions, PublishCheck(s, u, v) PROVE Shrinks
  BY <1>3, <1>t DEF PublishCheck, Continue, Idle
<1>4. ASSUME NEW v \in Versions, DeprecateRead(s, u, v) PROVE Shrinks
  BY <1>4, <1>t DEF DeprecateRead, Continue, Idle
<1>5. ASSUME NEW v \in Versions, DeleteVersionRead(s, u, v) PROVE Shrinks
  BY <1>5, <1>t DEF DeleteVersionRead, Continue, Idle
<1>6. ASSUME NEW r \in Resources, NewVersionResource(s, u, r) PROVE Shrinks
  BY <1>6, <1>t DEF NewVersionResource, Continue, Idle
<1>7. ASSUME NEW r \in Resources, DeleteResourceRead(s, u, r) PROVE Shrinks
  BY <1>7, <1>t DEF DeleteResourceRead, Continue, Idle
<1>8. ASSUME NEW v \in Versions, DeleteResourceResolve(s, u, v) PROVE Shrinks
  BY <1>8, <1>t DEF DeleteResourceResolve, Continue, Idle
<1>9. Shrinks
  BY <1>2, <1>3, <1>4, <1>5, <1>6, <1>7, <1>8 DEF Begin
<1>. QED
  BY <1>1, <1>9, SameRowTracked, RowsStepObjects DEF rows

LEMMA ProceedObjects ==
    ASSUME WellTyped, ObjectsInv, NEW s \in Sessions, Proceed(s)
    PROVE  ObjectsInv'
<1>t. /\ ver \in [Versions -> VersionRow]
      /\ sess \in [Sessions -> Session]
      /\ object \in [Keys -> {"none", "stored", "deleted"}]
      /\ RecordOK(sess[s])
  BY DEF WellTyped, ProperRow
<1>1. ASSUME NEW meta \in SUBSET Checks, PatchCommit(s, meta) PROVE ObjectsInv'
  <2>1. \A v \in Versions : RowTracked(v)
    BY <1>1, <1>t, SameRowTracked DEF PatchCommit, VersionRow, Exists
  <2>. QED
    BY <1>1, <2>1, FinishCleared, RowsStepObjects DEF PatchCommit
<1>2. ASSUME \/ PublishFlush(s) \/ NewVersionCurrent(s)
             \/ DeleteResourceLoad(s) \/ DeleteResourceSelect(s)
             \/ \E v \in Versions : TombstoneFlush(s, v)
      PROVE  ObjectsInv'
  <2>1. UNCHANGED <<rows, object>>
    BY <1>2 DEF PublishFlush, NewVersionCurrent, DeleteResourceLoad,
                DeleteResourceSelect, TombstoneFlush
  <2>. DEFINE Shrinks == \A t \in Sessions : sess'[t].cleared \subseteq sess[t].cleared
  <2>2. CASE Finish(s)
    BY <2>2, <2>1, FinishCleared, SameRowTracked, RowsStepObjects DEF rows
  <2>3. ASSUME PublishFlush(s), ~Finish(s) PROVE Shrinks
    <3>1. Continue(s, [sess[s] EXCEPT !.pc = "publish",
                                      !.res = ver[sess[s].ver].base,
                                      !.loaded = current[ver[sess[s].ver].base],
                                      !.flushed = {sess[s].ver}])
      BY <2>3 DEF PublishFlush
    <3>. QED
      BY <3>1, <1>t DEF Continue, Session
  <2>4. ASSUME NewVersionCurrent(s), ~Finish(s) PROVE Shrinks
    BY <2>4, <1>t DEF NewVersionCurrent, Continue, Session
  <2>5. ASSUME DeleteResourceSelect(s), ~Finish(s) PROVE Shrinks
    <3>. DEFINE listed == {v \in Versions :
                              Exists(ver[v]) /\ ver[v].base = sess[s].res}
                seen == [v \in Versions |->
                           IF v \in listed
                           THEN IF sess[s].seen[v] # "unused" THEN sess[s].seen[v]
                                                             ELSE ver[v].state
                           ELSE "unused"]
    <3>1. Continue(s, [sess[s] EXCEPT !.pc = "tombstone", !.seen = seen])
      BY <2>5 DEF DeleteResourceSelect
    <3>. HIDE DEF seen
    <3>. QED
      BY <3>1, <1>t DEF Continue, Session
  <2>6. ASSUME NEW v \in Versions, TombstoneFlush(s, v), ~Finish(s) PROVE Shrinks
    <3>1. Continue(s, [sess[s] EXCEPT !.ver = v, !.todo = ver[v].urls,
                                      !.flushed = @ \union {v}])
      BY <2>6 DEF TombstoneFlush
    <3>. QED
      BY <3>1, <1>t DEF Continue, Session
  <2>7. ASSUME DeleteResourceLoad(s), ~Finish(s) PROVE Shrinks
    <3>1. Continue(s, [sess[s] EXCEPT !.pc = "delete_resource", !.user = NoUser,
                                      !.loaded = current[sess[s].res]])
      BY <2>7 DEF DeleteResourceLoad
    <3>. QED
      BY <3>1, <1>t DEF Continue, Session
  <2>8. CASE Shrinks
    BY <2>8, <2>1, SameRowTracked, RowsStepObjects DEF rows
  <2>. QED
    BY <1>2, <2>2, <2>3, <2>4, <2>5, <2>6, <2>7, <2>8
<1>3. ASSUME PublishCommit(s) PROVE ObjectsInv'
  <2>0. Exists(ver[sess[s].ver])
    BY <1>3, <1>t DEF PublishCommit, At, RecordOK, WellTyped, LockedRowsExist
  <2>1. \A v \in Versions : RowTracked(v)
    BY <1>3, <1>t, <2>0, SameRowTracked DEF PublishCommit, VersionRow
  <2>. QED
    BY <1>3, <2>1, FinishCleared, RowsStepObjects DEF PublishCommit
<1>4. ASSUME DeprecateCommit(s) PROVE ObjectsInv'
  <2>1. \A v \in Versions : RowTracked(v)
    BY <1>4, <1>t, SameRowTracked DEF DeprecateCommit, VersionRow
  <2>. QED
    BY <1>4, <2>1, FinishCleared, RowsStepObjects DEF DeprecateCommit
<1>5. ASSUME NEW v \in Versions, NEW p \in Payloads,
             NewVersionInsert(s, v, p[1], p[2])
      PROVE  ObjectsInv'
  <2>1. ver' = [ver EXCEPT ![v] = DraftRow(sess[s].res, sess[s].user,
                                           sess[s].loaded, p[1], p[2])]
    BY <1>5 DEF NewVersionInsert
  <2>2. RowTracked(v)
    BY <1>t, <2>1, NewRowTracked
  <2>3. \A w \in Versions : RowTracked(w)
    BY <1>t, <2>1, <2>2, SameRowTracked
  <2>. QED
    BY <1>5, <2>3, FinishCleared, RowsStepObjects DEF NewVersionInsert
<1>6. ASSUME DeleteDraftCommit(s) PROVE ObjectsInv'
  <2>1. ver' = [ver EXCEPT ![sess[s].ver] = EmptyRow("removed")]
    BY <1>6 DEF DeleteDraftCommit
  <2>2. \A v \in Versions : RowTracked(v)
    <3>. TAKE v \in Versions
    <3>1. CASE v = sess[s].ver
      BY <1>t, <2>1, <3>1 DEF RowTracked, EmptyRow
    <3>2. CASE v # sess[s].ver
      BY <1>t, <2>1, <3>2, SameRowTracked
    <3>. QED
      BY <3>1, <3>2
  <2>. QED
    BY <1>6, <2>2, FinishCleared, RowsStepObjects DEF DeleteDraftCommit
<1>7. ASSUME NEW k \in Keys, DeleteObject(s, k) \/ DeleteObjectFails(s, k)
      PROVE  ObjectsInv'
  <2>. DEFINE gone == [object EXCEPT ![k] = "deleted"]
  <2>1. ver' = ver /\ object' \in {object, gone}
    BY <1>7 DEF DeleteObject, DeleteObjectFails, rows
  <2>2. ASSUME NEW t \in Sessions, NEW v \in Versions, NEW c \in Keys,
               <<v, c>> \in sess'[t].cleared
        PROVE  object'[c] = "deleted"
    <3>1. CASE <<v, c>> \in sess[t].cleared
      BY <1>t, <2>1, <3>1 DEF ObjectsInv, ClearedIsGone
    <3>2. CASE <<v, c>> \notin sess[t].cleared
      <4>1. DeleteObject(s, k)
        BY <1>7, <1>t, <2>2, <3>2 DEF DeleteObjectFails, Continue, Session
      <4>2. <<v, c>> = <<sess[s].ver, k>>
        BY <4>1, <1>t, <2>2, <3>2 DEF DeleteObject, Continue, Session
      <4>. QED
        BY <4>1, <4>2, <1>t DEF DeleteObject
    <3>. QED
      BY <3>1, <3>2
  <2>3. ClearedIsGone'
    BY <2>2 DEF ClearedIsGone
  <2>4. \A c \in Keys : /\ object[c] # "none" => object'[c] # "none"
                        /\ object'[c] = "stored" => object[c] = "stored"
    BY <1>t, <2>1
  <2>. QED
    BY <2>1, <2>3, <2>4 DEF ObjectsInv, RegisteredIsUploaded, ObjectsTracked
<1>8. ASSUME TombstoneCommit(s) PROVE ObjectsInv'
  <2>1. ASSUME NEW v \in Versions PROVE RowTracked(v)
    <3>1. CASE v \notin sess[s].flushed
      BY <1>8, <3>1, SameRowTracked DEF TombstoneCommit
    <3>2. CASE v \in sess[s].flushed
      <4>1. /\ ver'[v].dists = ver[v].dists
            /\ ver'[v].urls = {k \in ver[v].urls : <<v, k>> \notin sess[s].cleared}
        BY <1>8, <1>t, <3>2 DEF TombstoneCommit, VersionRow
      <4>2. Exists(ver[v])
        BY <3>2 DEF WellTyped, LockedRowsExist
      <4>. QED
        BY <4>1, <4>2 DEF RowTracked, ObjectsInv, ClearedIsGone,
                          RegisteredIsUploaded, ObjectsTracked
    <3>. QED
      BY <3>1, <3>2
  <2>. QED
    BY <1>8, <2>1, FinishCleared, RowsStepObjects DEF TombstoneCommit
<1>. QED
  BY <1>1, <1>2, <1>3, <1>4, <1>5, <1>6, <1>7, <1>8 DEF Proceed

LEMMA NextObjects == WellTyped /\ ObjectsInv /\ [Next]_vars => ObjectsInv'
<1>. SUFFICES ASSUME WellTyped, ObjectsInv, [Next]_vars PROVE ObjectsInv'
  OBVIOUS
<1>t. ver \in [Versions -> VersionRow] /\ sess \in [Sessions -> Session]
      /\ object \in [Keys -> {"none", "stored", "deleted"}]
  BY DEF WellTyped, ProperRow
<1>1. ASSUME NEW k \in Keys, Upload(k) PROVE ObjectsInv'
  BY <1>1, <1>t DEF Upload, rows, ObjectsInv, ClearedIsGone, RegisteredIsUploaded,
                    ObjectsTracked
<1>2. ASSUME NEW u \in Users, NEW r \in Resources, NEW v \in Versions,
             NEW p \in Payloads, CreateResource(u, r, v, p[1], p[2])
      PROVE  ObjectsInv'
  <2>1. ver' = [ver EXCEPT ![v] = DraftRow(r, u, NoVersion, p[1], p[2])]
        /\ UNCHANGED <<object, sess>>
    BY <1>2 DEF CreateResource
  <2>2. RowTracked(v)
    BY <1>t, <2>1, NewRowTracked
  <2>3. \A w \in Versions : RowTracked(w)
    BY <1>t, <2>1, <2>2, SameRowTracked
  <2>. QED
    BY <2>1, <2>3, RowsStepObjects
<1>3. ASSUME NEW s \in Sessions, Abort(s) PROVE ObjectsInv'
  BY <1>3, FinishCleared, SameRowTracked, RowsStepObjects DEF Abort, rows
<1>4. CASE UNCHANGED vars
  BY <1>4 DEF vars, ObjectsInv, ClearedIsGone, RegisteredIsUploaded, ObjectsTracked
<1>. QED
  BY <1>1, <1>2, <1>3, <1>4, BeginObjects, ProceedObjects DEF Next, NextUndisturbed

(***************************************************************************)
(* No interleaving of deletes, storage failures and rolled back            *)
(* transactions makes a version whose row is there lose the key of a       *)
(* registered object that is still in the bucket.  What becomes of the     *)
(* objects of a row that is removed is OnlyDraftDeletesOrphan.             *)
(***************************************************************************)
THEOREM ObjectsAreTracked == Spec => []ObjectsTracked
<1>1. Spec => []WellTyped
  BY InitWellTyped, NextWellTyped, PTL DEF Spec
<1>2. ObjectsInv => ObjectsTracked
  BY DEF ObjectsInv
<1>. QED
  BY <1>1, <1>2, InitObjectsInv, NextObjects, PTL DEF Spec

-----------------------------------------------------------------------------
(* Pointers and owners.  A handler decides on a resource or a version that *)
(* it read before: what it holds has to stay true until it commits.        *)

IssuedRow(row, r) ==
    \/ row.state = "removed"
    \/ row.state \in {"published", "deprecated"} /\ row.base = r

\* A publish holds the resource of its version, and a new version is made by
\* the owner after what was the current version when it was read.
Holds(ses, verNow, ownerNow) ==
    /\ ses.pc = "publish" => verNow[ses.ver].base = ses.res
    /\ ses.pc \in Inserting =>
          IssuedRow(verNow[ses.loaded], ses.res) /\ ownerNow[ses.res] = ses.user

PointersInv ==
    /\ PointersIssuedOrRemoved
    /\ PublisherIsOwner
    /\ \A v \in Versions : Exists(ver[v]) => ver[v].publisher \in Users
    /\ \A s \in Sessions : Holds(sess[s], ver, owner)

\* What a step may do with the row of v: keep what identifies it, without
\* making it a draft, remove it, or insert a draft.
RowMoves(v) ==
    \/ ver'[v] = ver[v]
    \/ /\ Exists(ver[v]) /\ Exists(ver'[v])
       /\ ver'[v].base = ver[v].base /\ ver'[v].prev = ver[v].prev
       /\ ver'[v].publisher = ver[v].publisher
       /\ ver'[v].state = ver[v].state \/ ver'[v].state # "draft"
    \/ ver'[v] = EmptyRow("removed")
    \/ /\ ver[v].state = "unused" /\ ver'[v].state = "draft"
       /\ ver'[v].publisher = owner'[ver'[v].base] /\ ver'[v].publisher \in Users
       /\ \/ ver'[v].prev = NoVersion
          \/ /\ ver'[v].prev \in Versions
             /\ IssuedRow(ver[ver'[v].prev], ver'[v].base)

Move ==
    /\ \A v \in Versions : RowMoves(v)
    /\ \A r \in Resources : owner[r] # NoUser => owner'[r] = owner[r]
    /\ \A r \in Resources :
          \/ current'[r] \in {current[r], NoVersion}
          \/ current'[r] \in Versions /\ IssuedRow(ver'[current'[r]], r)
    /\ \A s \in Sessions : sess'[s] = sess[s] \/ Holds(sess'[s], ver', owner')

LEMMA InitPointers == Init => PointersInv
BY DEF Init, PointersInv, PointersIssuedOrRemoved, PublisherIsOwner, Holds, Idle,
       EmptyRow, Exists, LiveStates, Inserting

\* An id that was issued or removed stays so.
LEMMA IssuedStays ==
    ASSUME Move, NEW v \in Versions, NEW r, IssuedRow(ver[v], r)
    PROVE  IssuedRow(ver'[v], r)
<1>1. RowMoves(v)
  BY DEF Move
<1>2. CASE ver'[v] = EmptyRow("removed")
  BY <1>2 DEF IssuedRow, EmptyRow
<1>3. CASE ver'[v] # EmptyRow("removed")
  BY <1>1, <1>3 DEF RowMoves, IssuedRow, Exists, LiveStates
<1>4. QED
  BY <1>2, <1>3

LEMMA MoveKeeps ==
    ASSUME WellTyped, WellTyped', PointersInv, Move
    PROVE  PointersInv'
<1>t. /\ \A r \in Resources : current[r] \in Versions \union {NoVersion}
      /\ \A v \in Versions : ver[v] \in VersionRow /\ ver'[v] \in VersionRow
      /\ \A v \in Versions : Exists(ver[v]) => ver[v].base \in Resources
      /\ \A v \in Versions : Exists(ver'[v]) => ver'[v].base \in Resources
      /\ NoUser \notin Users
  BY NullsAreNoIds DEF WellTyped, ProperRow
<1>1. ASSUME NEW r \in Resources, current'[r] # NoVersion
      PROVE  IssuedRow(ver'[current'[r]], r)
  <2>1. CASE current'[r] = current[r]
    <3>1. current[r] \in Versions /\ IssuedRow(ver[current[r]], r)
      BY <1>1, <1>t, <2>1
         DEF PointersInv, PointersIssuedOrRemoved, IssuedOrRemoved, IssuedRow
    <3>2. QED
      BY <2>1, <3>1, IssuedStays
  <2>2. QED
    BY <1>1, <2>1 DEF Move
<1>2. ASSUME NEW v \in Versions, ver'[v].prev # NoVersion
      PROVE  IssuedRow(ver'[ver'[v].prev], ver'[v].base)
  <2>1. ver'[v].prev \in Versions
    BY <1>2, <1>t DEF VersionRow
  <2>2. ver'[v].prev = ver[v].prev =>
            IssuedRow(ver[ver[v].prev], ver[v].base)
    BY <1>2 DEF PointersInv, PointersIssuedOrRemoved, IssuedOrRemoved, IssuedRow
  <2>3. EmptyRow("removed").prev = NoVersion
    BY DEF EmptyRow
  <2>4. IssuedRow(ver[ver'[v].prev], ver'[v].base)
    BY <1>2, <2>2, <2>3 DEF Move, RowMoves
  <2>5. QED
    BY <2>1, <2>4, IssuedStays
<1>3. ASSUME NEW v \in Versions, Exists(ver'[v])
      PROVE  ver'[v].publisher = owner'[ver'[v].base] /\ ver'[v].publisher \in Users
  <2>1. ~Exists(EmptyRow("removed"))
    BY DEF Exists, EmptyRow, LiveStates
  <2>2. CASE /\ Exists(ver[v]) /\ ver'[v].base = ver[v].base
             /\ ver'[v].publisher = ver[v].publisher
    <3>1. ver[v].publisher = owner[ver[v].base] /\ ver[v].publisher \in Users
      BY <2>2 DEF PointersInv, PublisherIsOwner
    <3>2. owner'[ver[v].base] = owner[ver[v].base]
      BY <2>2, <3>1, <1>t DEF Move
    <3>3. QED
      BY <2>2, <3>1, <3>2
  <2>3. QED
    BY <1>3, <2>1, <2>2 DEF Move, RowMoves
<1>4. ASSUME NEW s \in Sessions
      PROVE  Holds(sess'[s], ver', owner')
  <2>1. CASE sess'[s] = sess[s]
    <3>1. Holds(sess[s], ver, owner) /\ RecordOK(sess[s])
      BY DEF PointersInv, WellTyped
    <3>2. ASSUME sess[s].pc = "publish"
          PROVE  ver'[sess[s].ver].base = sess[s].res
      <4>1. /\ sess[s].ver \in Versions
            /\ Exists(ver[sess[s].ver]) /\ Exists(ver'[sess[s].ver])
        BY <2>1, <3>1, <3>2 DEF RecordOK, HoldsVersion, WellTyped, LockedRowsExist
      <4>2. ~Exists(EmptyRow("removed"))
        BY DEF Exists, EmptyRow, LiveStates
      <4>3. ver[sess[s].ver].state # "unused"
        BY <4>1 DEF Exists, LiveStates
      <4>4. ver'[sess[s].ver].base = ver[sess[s].ver].base
        BY <4>1, <4>2, <4>3 DEF Move, RowMoves
      <4>5. QED
        BY <3>1, <3>2, <4>4 DEF Holds
    <3>3. ASSUME sess[s].pc \in Inserting
          PROVE  /\ IssuedRow(ver'[sess[s].loaded], sess[s].res)
                 /\ owner'[sess[s].res] = sess[s].user
      <4>1. /\ sess[s].loaded \in Versions /\ sess[s].res \in Resources
            /\ sess[s].user \in Users
        BY <3>1, <3>3 DEF RecordOK, HoldsResource, Inserting
      <4>2. /\ IssuedRow(ver[sess[s].loaded], sess[s].res)
            /\ owner[sess[s].res] = sess[s].user
        BY <3>1, <3>3 DEF Holds
      <4>3. QED
        BY <4>1, <4>2, <1>t, IssuedStays DEF Move
    <3>4. QED
      BY <2>1, <3>2, <3>3 DEF Holds
  <2>2. QED
    BY <2>1 DEF Move
<1>5. QED
  BY <1>1, <1>2, <1>3, <1>4
     DEF PointersInv, PointersIssuedOrRemoved, IssuedOrRemoved, IssuedRow, PublisherIsOwner

\* The step of s goes on with "next".
LEMMA SessionMoves ==
    ASSUME WellTyped, NEW s \in Sessions, NEW next, Continue(s, next),
           \A v \in Versions : RowMoves(v), UNCHANGED owner,
           \A r \in Resources :
              \/ current'[r] \in {current[r], NoVersion}
              \/ current'[r] \in Versions /\ IssuedRow(ver'[current'[r]], r),
           Holds(next, ver', owner')
    PROVE  Move
<1>1. \A t \in Sessions \ {s} : sess'[t] = sess[t]
  BY DEF WellTyped, Continue
<1>2. sess'[s] = next
  BY DEF WellTyped, Continue
<1>3. QED
  BY <1>1, <1>2 DEF Move

\* A step of s that only reads, and holds nothing that has to stay true.
LEMMA ReadMoves ==
    ASSUME WellTyped, NEW s \in Sessions, NEW next, Continue(s, next), UNCHANGED rows,
           Holds(next, ver, owner)
    PROVE  Move
<1>1. \A v \in Versions : RowMoves(v)
  BY DEF rows, RowMoves
<1>2. ver' = ver /\ owner' = owner /\ current' = current
  BY DEF rows
<1>3. Holds(next, ver', owner')
  BY <1>2
<1>4. QED
  BY <1>1, <1>2, <1>3, SessionMoves

LEMMA HoldsNothing ==
    ASSUME NEW next, next.pc \notin {"publish", "new_resource", "new_current"},
           NEW verNow, NEW ownerNow
    PROVE  Holds(next, verNow, ownerNow)
BY DEF Holds, Inserting

LEMMA BeginMoves ==
    ASSUME WellTyped, PointersInv, NEW s \in Sessions, NEW u \in Users, Begin(s, u)
    PROVE  Move
<1>1. UNCHANGED rows
  BY DEF Begin, PatchRead, PublishCheck, DeprecateRead, DeleteVersionRead,
         NewVersionResource, DeleteResourceRead, DeleteResourceResolve
<1>2. ASSUME NEW v \in Versions,
             \/ PatchRead(s, u, v) \/ PublishCheck(s, u, v)
             \/ DeprecateRead(s, u, v) \/ DeleteVersionRead(s, u, v)
             \/ DeleteResourceResolve(s, u, v)
      PROVE  \E next : Continue(s, next) /\ Holds(next, ver, owner)
  <2>1. CASE PatchRead(s, u, v)
    BY <2>1, HoldsNothing DEF PatchRead, Idle
  <2>2. CASE PublishCheck(s, u, v)
    BY <2>2, HoldsNothing DEF PublishCheck, Idle
  <2>3. CASE DeprecateRead(s, u, v)
    BY <2>3, HoldsNothing DEF DeprecateRead, Idle
  <2>4. CASE DeleteVersionRead(s, u, v)
    BY <2>4, HoldsNothing DEF DeleteVersionRead, Idle
  <2>5. CASE DeleteResourceResolve(s, u, v)
    BY <2>5, HoldsNothing DEF DeleteResourceResolve, Idle
  <2>6. QED
    BY <1>2, <2>1, <2>2, <2>3, <2>4, <2>5
<1>3. ASSUME NEW r \in Resources, NewVersionResource(s, u, r)
      PROVE  \E next : Continue(s, next) /\ Holds(next, ver, owner)
  <2>. DEFINE next == [Idle EXCEPT !.pc = "new_resource", !.user = u, !.res = r,
                                   !.loaded = current[r]]
  <2>1. /\ next.pc = "new_resource" /\ next.user = u /\ next.res = r
        /\ next.loaded = current[r]
    BY DEF Idle
  <2>2. IssuedRow(ver[current[r]], r) /\ owner[r] = u /\ Continue(s, next)
    BY <1>3 DEF NewVersionResource, PointersInv, PointersIssuedOrRemoved,
                IssuedOrRemoved, IssuedRow
  <2>. HIDE DEF next
  <2>3. QED
    BY <2>1, <2>2 DEF Holds
<1>4. ASSUME NEW r \in Resources, DeleteResourceRead(s, u, r)
      PROVE  \E next : Continue(s, next) /\ Holds(next, ver, owner)
  BY <1>4, HoldsNothing DEF DeleteResourceRead, Idle
<1>5. PICK next : Continue(s, next) /\ Holds(next, ver, owner)
  BY <1>2, <1>3, <1>4 DEF Begin
<1>6. QED
  BY <1>1, <1>5, ReadMoves

\* The end of a transaction.
LEMMA FinishMoves ==
    ASSUME WellTyped, NEW s \in Sessions, Finish(s), UNCHANGED owner,
           \A v \in Versions : RowMoves(v),
           \A r \in Resources :
              \/ current'[r] \in {current[r], NoVersion}
              \/ current'[r] \in Versions /\ IssuedRow(ver'[current'[r]], r)
    PROVE  Move
<1>1. Holds(Idle, ver', owner')
  BY HoldsNothing DEF Idle
<1>2. QED
  BY <1>1, SessionMoves DEF Finish

LEMMA ProceedMoves ==
    ASSUME WellTyped, PointersInv, NEW s \in Sessions, Proceed(s)
    PROVE  Move
<1>t. /\ ver \in [Versions -> VersionRow]
      /\ current \in [Resources -> Versions \union {NoVersion}]
      /\ sess[s] \in Session /\ RecordOK(sess[s]) /\ Holds(sess[s], ver, owner)
  BY DEF WellTyped, ProperRow, PointersInv
<1>1. ASSUME NEW meta \in SUBSET Checks, PatchCommit(s, meta) PROVE Move
  <2>1. \A v \in Versions : RowMoves(v)
    BY <1>1, <1>t DEF PatchCommit, RowMoves, VersionRow, Exists
  <2>2. QED
    BY <1>1, <2>1, FinishMoves DEF PatchCommit
<1>2. ASSUME PublishFlush(s) PROVE Move
  <2>. DEFINE v == sess[s].ver
              next == [sess[s] EXCEPT !.pc = "publish", !.res = ver[v].base,
                                      !.loaded = current[ver[v].base],
                                      !.flushed = {v}]
  <2>1. UNCHANGED rows /\ (Finish(s) \/ Continue(s, next))
    BY <1>2 DEF PublishFlush, rows
  <2>2. Holds(Idle, ver, owner)
    BY HoldsNothing DEF Idle
  <2>3. Holds(next, ver, owner)
    BY <1>t DEF Holds, Session, Inserting
  <2>. HIDE DEF next
  <2>4. QED
    BY <2>1, <2>2, <2>3, ReadMoves DEF Finish
<1>3. ASSUME PublishCommit(s) PROVE Move
  <2>. DEFINE v == sess[s].ver
              r == sess[s].res
  <2>1. v \in Versions /\ r \in Resources /\ Exists(ver[v]) /\ ver[v].base = r
    BY <1>3, <1>t DEF PublishCommit, At, RecordOK, HoldsVersion, HoldsResource,
                      WellTyped, LockedRowsExist, Holds
  <2>2. ver' = [ver EXCEPT ![v].state = "published"]
    BY <1>3 DEF PublishCommit
  <2>3. \A w \in Versions : RowMoves(w)
    BY <1>t, <2>1, <2>2 DEF RowMoves, VersionRow, Exists, LiveStates
  <2>4. IssuedRow(ver'[v], r)
    BY <1>t, <2>1, <2>2 DEF IssuedRow, VersionRow
  <2>5. \A q \in Resources :
            \/ current'[q] = current[q]
            \/ current'[q] = v /\ q = r
    BY <1>3, <1>t, <2>1 DEF PublishCommit
  <2>6. QED
    BY <1>3, <2>1, <2>3, <2>4, <2>5, FinishMoves DEF PublishCommit
<1>4. ASSUME DeprecateCommit(s) PROVE Move
  <2>1. \A v \in Versions : RowMoves(v)
    BY <1>4, <1>t DEF DeprecateCommit, RowMoves, VersionRow, Exists, LiveStates
  <2>2. QED
    BY <1>4, <2>1, FinishMoves DEF DeprecateCommit
<1>5. ASSUME NewVersionCurrent(s) PROVE Move
  <2>. DEFINE next == [sess[s] EXCEPT !.pc = "new_current"]
  <2>1. UNCHANGED rows /\ sess[s].pc = "new_resource" /\ (Finish(s) \/ Continue(s, next))
    BY <1>5 DEF NewVersionCurrent, rows, At
  <2>2. Holds(Idle, ver, owner)
    BY HoldsNothing DEF Idle
  <2>3. Holds(next, ver, owner)
    BY <1>t, <2>1 DEF Holds, Session, Inserting
  <2>. HIDE DEF next
  <2>4. QED
    BY <2>1, <2>2, <2>3, ReadMoves DEF Finish
<1>6. ASSUME NEW v \in Versions, NEW p \in Payloads, NewVersionInsert(s, v, p[1], p[2])
      PROVE  Move
  <2>. DEFINE row == DraftRow(sess[s].res, sess[s].user, sess[s].loaded, p[1], p[2])
  <2>1. /\ sess[s].user \in Users /\ sess[s].loaded \in Versions
        /\ IssuedRow(ver[sess[s].loaded], sess[s].res)
        /\ owner[sess[s].res] = sess[s].user
    BY <1>6, <1>t DEF NewVersionInsert, At, RecordOK, Inserting, Holds
  <2>2. /\ row.state = "draft" /\ row.base = sess[s].res /\ row.publisher = sess[s].user
        /\ row.prev = sess[s].loaded
    BY DEF DraftRow
  <2>3. /\ ver[v].state = "unused" /\ ver' = [ver EXCEPT ![v] = row]
        /\ UNCHANGED <<owner, current>> /\ Finish(s)
    BY <1>6 DEF NewVersionInsert
  <2>. HIDE DEF row
  <2>4. \A w \in Versions : RowMoves(w)
    BY <1>t, <2>1, <2>2, <2>3 DEF RowMoves
  <2>5. QED
    BY <2>3, <2>4, FinishMoves
<1>7. ASSUME DeleteDraftCommit(s) PROVE Move
  <2>1. \A v \in Versions : RowMoves(v)
    BY <1>7, <1>t DEF DeleteDraftCommit, RowMoves
  <2>2. QED
    BY <1>7, <2>1, FinishMoves DEF DeleteDraftCommit
<1>8. ASSUME DeleteResourceSelect(s) PROVE Move
  <2>1. UNCHANGED rows
    BY <1>8 DEF DeleteResourceSelect
  <2>2. PICK seen : Continue(s, [sess[s] EXCEPT !.pc = "tombstone", !.seen = seen])
    BY <1>8 DEF DeleteResourceSelect
  <2>3. Holds([sess[s] EXCEPT !.pc = "tombstone", !.seen = seen], ver, owner)
    BY <1>t, HoldsNothing DEF Session
  <2>4. QED
    BY <2>1, <2>2, <2>3, ReadMoves
<1>9. ASSUME NEW v \in Versions, TombstoneFlush(s, v) PROVE Move
  <2>. DEFINE next == [sess[s] EXCEPT !.ver = v, !.todo = ver[v].urls,
                                      !.flushed = @ \union {v}]
  <2>1. UNCHANGED rows /\ sess[s].pc = "tombstone" /\ (Finish(s) \/ Continue(s, next))
    BY <1>9 DEF TombstoneFlush, rows, At
  <2>2. Holds(Idle, ver, owner)
    BY HoldsNothing DEF Idle
  <2>3. Holds(next, ver, owner)
    BY <1>t, <2>1, HoldsNothing DEF Session
  <2>. HIDE DEF next
  <2>4. QED
    BY <2>1, <2>2, <2>3, ReadMoves DEF Finish
<1>10. ASSUME NEW k \in Keys, DeleteObject(s, k) \/ DeleteObjectFails(s, k) PROVE Move
  <2>1. UNCHANGED rows /\ sess[s].pc = "tombstone"
    BY <1>10 DEF DeleteObject, DeleteObjectFails, At
  <2>2. PICK cleared : Continue(s, [sess[s] EXCEPT !.todo = @ \ {k}, !.cleared = cleared])
    <3>1. CASE DeleteObject(s, k)
      BY <3>1 DEF DeleteObject
    <3>2. CASE DeleteObjectFails(s, k)
      <4>1. [sess[s] EXCEPT !.todo = @ \ {k}] =
            [sess[s] EXCEPT !.todo = @ \ {k}, !.cleared = sess[s].cleared]
        BY <1>t DEF Session
      <4>2. QED
        BY <3>2, <4>1 DEF DeleteObjectFails
    <3>3. QED
      BY <1>10, <3>1, <3>2
  <2>3. Holds([sess[s] EXCEPT !.todo = @ \ {k}, !.cleared = cleared], ver, owner)
    BY <1>t, <2>1, HoldsNothing DEF Session
  <2>4. QED
    BY <2>1, <2>2, <2>3, ReadMoves
<1>11. ASSUME TombstoneCommit(s) PROVE Move
  <2>1. ASSUME NEW v \in Versions
        PROVE  RowMoves(v)
    <3>1. CASE v \notin sess[s].flushed
      BY <1>11, <3>1 DEF TombstoneCommit, RowMoves
    <3>2. CASE v \in sess[s].flushed
      <4>1. Exists(ver[v])
        BY <3>2 DEF WellTyped, LockedRowsExist
      <4>2. /\ ver'[v].base = ver[v].base /\ ver'[v].prev = ver[v].prev
            /\ ver'[v].publisher = ver[v].publisher
            /\ ver'[v].state \in {ver[v].state, "deprecated"}
        BY <1>11, <1>t, <3>2 DEF TombstoneCommit, VersionRow
      <4>3. QED
        BY <4>1, <4>2 DEF RowMoves, Exists, LiveStates
    <3>3. QED
      BY <3>1, <3>2
  <2>2. \A r \in Resources : current'[r] \in {current[r], NoVersion}
    BY <1>11, <1>t DEF TombstoneCommit
  <2>3. QED
    BY <1>11, <2>1, <2>2, FinishMoves DEF TombstoneCommit
<1>12. ASSUME DeleteResourceLoad(s) PROVE Move
  <2>. DEFINE next == [sess[s] EXCEPT !.pc = "delete_resource", !.user = NoUser,
                                      !.loaded = current[sess[s].res]]
  <2>1. UNCHANGED rows /\ (Finish(s) \/ Continue(s, next))
    BY <1>12 DEF DeleteResourceLoad, rows
  <2>2. Holds(Idle, ver, owner)
    BY HoldsNothing DEF Idle
  <2>3. Holds(next, ver, owner)
    BY <1>t, HoldsNothing DEF Session
  <2>. HIDE DEF next
  <2>4. QED
    BY <2>1, <2>2, <2>3, ReadMoves DEF Finish
<1>13. QED
  BY <1>1, <1>2, <1>3, <1>4, <1>5, <1>6, <1>7, <1>8, <1>9, <1>10, <1>11, <1>12
     DEF Proceed

LEMMA NextMoves ==
    ASSUME WellTyped, PointersInv, [Next]_vars
    PROVE  Move
<1>1. ASSUME UNCHANGED rows, UNCHANGED sess PROVE Move
  BY <1>1 DEF Move, rows, RowMoves
<1>2. ASSUME NEW u \in Users, NEW r \in Resources, NEW v \in Versions,
             NEW p \in Payloads, CreateResource(u, r, v, p[1], p[2])
      PROVE  Move
  <2>. DEFINE row == DraftRow(r, u, NoVersion, p[1], p[2])
  <2>1. /\ row.state = "draft" /\ row.base = r /\ row.publisher = u
        /\ row.prev = NoVersion
    BY DEF DraftRow
  <2>2. /\ owner[r] = NoUser /\ ver[v].state = "unused"
        /\ owner' = [owner EXCEPT ![r] = u] /\ ver' = [ver EXCEPT ![v] = row]
        /\ UNCHANGED <<current, sess>>
    BY <1>2 DEF CreateResource
  <2>. HIDE DEF row
  <2>3. \A w \in Versions : RowMoves(w)
    BY <2>1, <2>2 DEF RowMoves, WellTyped
  <2>4. \A q \in Resources : owner[q] # NoUser => owner'[q] = owner[q]
    BY <2>2 DEF WellTyped
  <2>5. QED
    BY <2>2, <2>3, <2>4 DEF Move
<1>3. ASSUME NEW s \in Sessions, Abort(s) PROVE Move
  <2>1. Holds(Idle, ver, owner)
    BY HoldsNothing DEF Idle
  <2>2. QED
    BY <1>3, <2>1, ReadMoves DEF Abort, Finish
<1>4. CASE UNCHANGED vars
  BY <1>1, <1>4 DEF vars, rows
<1>5. ASSUME NEW k \in Keys, Upload(k) PROVE Move
  BY <1>1, <1>5 DEF Upload
<1>6. QED
  BY <1>2, <1>3, <1>4, <1>5, BeginMoves, ProceedMoves DEF Next, NextUndisturbed

LEMMA NextPointers == WellTyped /\ PointersInv /\ [Next]_vars => WellTyped' /\ PointersInv'
BY NextWellTyped, NextMoves, MoveKeeps

\* Whatever the requests in flight, neither pointer column leads to a draft or
\* into another resource.
THEOREM PointersLeadToIssued == Spec => []PointersIssuedOrRemoved
<1>1. PointersInv => PointersIssuedOrRemoved
  BY DEF PointersInv
<1>2. QED
  BY <1>1, InitWellTyped, InitPointers, NextPointers, PTL DEF Spec

\* publisher_sub of a version and owner_sub of its resource are the same user,
\* although create_new_version copies what it read before its awaits.
THEOREM OwnersAgree == Spec => []PublisherIsOwner
<1>1. PointersInv => PublisherIsOwner
  BY DEF PointersInv
<1>2. QED
  BY <1>1, InitWellTyped, InitPointers, NextPointers, PTL DEF Spec

\* No handler that loaded a draft makes it one again after another handler
\* published, deprecated or removed it.
THEOREM DraftsAreLeftForGood == Spec => NeverDraftAgain
<1>1. WellTyped /\ PointersInv /\ [Next]_vars =>
          [\A v \in Versions :
              ver[v].state \in {"published", "deprecated", "removed"} =>
                  ver'[v].state # "draft"]_vars
  <2>. SUFFICES ASSUME WellTyped, PointersInv, [Next]_vars, NEW v \in Versions,
                       ver[v].state \in {"published", "deprecated", "removed"}
                PROVE  ver'[v].state # "draft"
    OBVIOUS
  <2>1. RowMoves(v) /\ EmptyRow("removed").state = "removed"
    BY NextMoves DEF Move, EmptyRow
  <2>2. QED
    BY <2>1 DEF RowMoves
<1>2. QED
  BY <1>1, InitWellTyped, InitPointers, NextPointers, PTL DEF Spec, NeverDraftAgain

-----------------------------------------------------------------------------
(* What can become of a tombstone, whichever requests overlap.             *)

\* The delete_version of session s, which loaded v as a draft, removes its row.
DraftDeleted(s, v) == At(s, "delete_draft") /\ sess[s].ver = v /\ sess'[s] = Idle

\* A tombstone stays one and gets no URL back, but for deletes of a draft that
\* it was when they read it.
OnlyStaleDeletesRemove ==
    [][\A v \in Versions : ver[v].deleted =>
          \/ ver'[v].deleted /\ ver'[v].urls \subseteq ver[v].urls
          \/ \E s \in Sessions : DraftDeleted(s, v)]_vars

DeletedExist == \A v \in Versions : ver[v].deleted => Exists(ver[v])

\* A row is left as it is, written to, inserted, or deleted as a draft.
RowFollows(v) ==
    \/ ver'[v] = ver[v]
    \/ /\ Exists(ver[v]) /\ Exists(ver'[v])
       /\ ver[v].deleted => ver'[v].deleted
       /\ ver'[v].urls \subseteq ver[v].urls /\ ver'[v].dists = ver[v].dists
    \/ /\ ver[v].state = "unused" /\ Exists(ver'[v])
       /\ ~ver'[v].deleted /\ ver'[v].urls \subseteq ver'[v].dists
    \/ ver'[v] = EmptyRow("removed") /\ \E s \in Sessions : DraftDeleted(s, v)

LEMMA CommitFollows ==
    ASSUME WellTyped, NEW s \in Sessions,
           \/ \E meta \in SUBSET Checks : PatchCommit(s, meta)
           \/ PublishCommit(s) \/ DeprecateCommit(s) \/ DeleteDraftCommit(s)
           \/ TombstoneCommit(s),
           NEW v \in Versions
    PROVE  RowFollows(v)
<1>t. ver \in [Versions -> VersionRow] /\ sess[s] \in Session /\ RecordOK(sess[s])
  BY DEF WellTyped, ProperRow
<1>1. ASSUME NEW meta \in SUBSET Checks, PatchCommit(s, meta)
      PROVE  RowFollows(v)
  BY <1>1, <1>t DEF PatchCommit, RowFollows, VersionRow, Exists
<1>2. CASE PublishCommit(s)
  <2>1. Exists(ver[sess[s].ver])
    BY <1>2, <1>t DEF PublishCommit, At, RecordOK, HoldsVersion, HoldsResource,
                      WellTyped, LockedRowsExist
  <2>2. ver' = [ver EXCEPT ![sess[s].ver].state = "published"]
    BY <1>2 DEF PublishCommit
  <2>3. QED
    BY <1>t, <2>1, <2>2 DEF RowFollows, VersionRow, Exists, LiveStates
<1>3. CASE DeprecateCommit(s)
  BY <1>3, <1>t DEF DeprecateCommit, RowFollows, VersionRow, Exists, LiveStates
<1>4. CASE DeleteDraftCommit(s)
  BY <1>4, <1>t DEF DeleteDraftCommit, Finish, Continue, DraftDeleted, RowFollows, WellTyped
<1>5. CASE TombstoneCommit(s)
  <2>1. CASE v \notin sess[s].flushed
    BY <1>5, <2>1 DEF TombstoneCommit, RowFollows
  <2>2. CASE v \in sess[s].flushed
    <3>1. Exists(ver[v])
      BY <2>2 DEF WellTyped, LockedRowsExist
    <3>2. /\ ver'[v].deleted /\ ver'[v].urls \subseteq ver[v].urls
          /\ ver'[v].dists = ver[v].dists
          /\ ver'[v].state \in {ver[v].state, "deprecated"}
      <4>1. ver'[v] = [ver[v] EXCEPT
                         !.deleted = TRUE,
                         !.state = IF sess[s].seen[v] = "deprecated"
                                   THEN @ ELSE "deprecated",
                         !.urls = {k \in @ : <<v, k>> \notin sess[s].cleared}]
        BY <1>5, <2>2 DEF TombstoneCommit
      <4>2. ver[v] \in VersionRow
        BY <1>t
      <4>3. QED
        BY <4>1, <4>2 DEF VersionRow
    <3>3. Exists(ver'[v])
      BY <3>1, <3>2 DEF Exists, LiveStates
    <3>4. /\ ver[v].deleted => ver'[v].deleted
          /\ ver'[v].urls \subseteq ver[v].urls /\ ver'[v].dists = ver[v].dists
      BY <3>2
    <3>5. QED
      BY <3>1, <3>3, <3>4, Zenon DEF RowFollows
  <2>3. QED
    BY <2>1, <2>2
<1>6. QED
  BY <1>1, <1>2, <1>3, <1>4, <1>5

LEMMA StepFollows ==
    ASSUME WellTyped, [Next]_vars, NEW v \in Versions
    PROVE  RowFollows(v)
<1>1. ASSUME UNCHANGED ver PROVE RowFollows(v)
  BY <1>1 DEF RowFollows
<1>2. ASSUME NEW w \in Versions, ver[w].state = "unused",
             NEW r, NEW u, NEW p, NEW meta, NEW dists,
             ver' = [ver EXCEPT ![w] = DraftRow(r, u, p, meta, dists)]
      PROVE  RowFollows(v)
  BY <1>2 DEF RowFollows, DraftRow, WellTyped, Exists, LiveStates
<1>3. ASSUME NEW u \in Users, NEW r \in Resources, NEW w \in Versions,
             NEW p \in Payloads, CreateResource(u, r, w, p[1], p[2])
      PROVE  RowFollows(v)
  BY <1>2, <1>3 DEF CreateResource
<1>4. ASSUME NEW s \in Sessions, NEW u \in Users, Begin(s, u)
      PROVE  RowFollows(v)
  BY <1>1, <1>4 DEF Begin, PatchRead, PublishCheck, DeprecateRead, DeleteVersionRead,
     NewVersionResource, DeleteResourceRead, DeleteResourceResolve, rows
<1>5. ASSUME NEW s \in Sessions, Proceed(s)
      PROVE  RowFollows(v)
  <2>1. ASSUME \/ PublishFlush(s) \/ NewVersionCurrent(s)
               \/ DeleteResourceLoad(s) \/ DeleteResourceSelect(s)
               \/ \E w \in Versions : TombstoneFlush(s, w)
               \/ \E k \in Keys : DeleteObject(s, k) \/ DeleteObjectFails(s, k)
        PROVE  RowFollows(v)
    BY <1>1, <2>1 DEF PublishFlush, NewVersionCurrent, DeleteResourceLoad,
       DeleteResourceSelect, TombstoneFlush, DeleteObject, DeleteObjectFails, rows
  <2>2. ASSUME NEW w \in Versions, NEW p \in Payloads, NewVersionInsert(s, w, p[1], p[2])
        PROVE  RowFollows(v)
    BY <1>2, <2>2 DEF NewVersionInsert
  <2>3. QED
    BY <1>5, <2>1, <2>2, CommitFollows DEF Proceed
<1>6. ASSUME NEW s \in Sessions, Abort(s) PROVE RowFollows(v)
  BY <1>1, <1>6 DEF Abort, rows
<1>7. ASSUME NEW k \in Keys, Upload(k) PROVE RowFollows(v)
  BY <1>1, <1>7 DEF Upload, rows
<1>8. CASE UNCHANGED vars
  BY <1>1, <1>8 DEF vars, rows
<1>9. QED
  BY <1>3, <1>4, <1>5, <1>6, <1>7, <1>8 DEF Next, NextUndisturbed

(***************************************************************************)
(* Of all the ways in which requests overlap, fail and are rolled back,    *)
(* one removes a tombstone: a delete_version that loaded the row while it  *)
(* was a draft.  No patch, publish or deprecation, however old the row it  *)
(* holds, clears data_deleted or gives the version a URL again.            *)
(***************************************************************************)
THEOREM TombstonesFallToStaleDeletes == Spec => OnlyStaleDeletesRemove
<1>1. Init => WellTyped /\ DeletedExist
  BY InitWellTyped DEF Init, DeletedExist, EmptyRow
<1>2. WellTyped /\ DeletedExist /\ [Next]_vars => WellTyped' /\ DeletedExist'
  <2>. SUFFICES ASSUME WellTyped, DeletedExist, [Next]_vars
                PROVE  WellTyped' /\ DeletedExist'
    OBVIOUS
  <2>1. ASSUME NEW v \in Versions, ver'[v].deleted
        PROVE  Exists(ver'[v])
    BY <2>1, StepFollows DEF RowFollows, DeletedExist, EmptyRow
  <2>2. QED
    BY <2>1, NextWellTyped DEF DeletedExist, Exists
<1>3. WellTyped /\ DeletedExist /\ [Next]_vars =>
         [\A v \in Versions : ver[v].deleted =>
             \/ ver'[v].deleted /\ ver'[v].urls \subseteq ver[v].urls
             \/ \E s \in Sessions : DraftDeleted(s, v)]_vars
  BY StepFollows DEF RowFollows, DeletedExist, Exists, LiveStates
<1>4. QED
  BY <1>1, <1>2, <1>3, PTL DEF Spec, OnlyStaleDeletesRemove

\* A version loses the key of an object that is in the bucket only with its
\* row, to a delete_version that loaded the row as a draft.
OnlyDraftDeletesOrphan ==
    [][\A v \in Versions : \A k \in ver[v].urls \intersect Keys :
          \/ object'[k] # "stored"
          \/ k \in ver'[v].urls
          \/ ver'[v] = EmptyRow("removed") /\ \E s \in Sessions : DraftDeleted(s, v)]_vars

\* A key in download_url is that of a distribution of the row.
UrlsAreRegistered ==
    \A v \in Versions :
        /\ ver[v].urls \subseteq ver[v].dists
        /\ ~Exists(ver[v]) => ver[v].urls = {}

(***************************************************************************)
(* The catalogue orphans an object of the bucket in one way: delete_version *)
(* removes the row of a draft, or of what was one when it loaded it, and   *)
(* deletes no object.  Tombstones, failed deletes and rollbacks orphan     *)
(* none, whatever requests overlap.                                        *)
(***************************************************************************)
THEOREM OnlyDraftsOrphan == Spec => OnlyDraftDeletesOrphan
<1>. DEFINE Inv == WellTyped /\ ObjectsInv /\ UrlsAreRegistered
<1>1. Init => Inv
  BY InitWellTyped, InitObjectsInv DEF Init, UrlsAreRegistered, EmptyRow
<1>2. Inv /\ [Next]_vars => Inv'
  <2>. SUFFICES ASSUME Inv, [Next]_vars
                PROVE  Inv'
    OBVIOUS
  <2>1. WellTyped' /\ ObjectsInv'
    BY NextWellTyped, NextObjects
  <2>2. ASSUME NEW v \in Versions
        PROVE  /\ ver'[v].urls \subseteq ver'[v].dists
               /\ ~Exists(ver'[v]) => ver'[v].urls = {}
    <3>1. RowFollows(v) /\ EmptyRow("removed").urls = {}
      BY StepFollows DEF EmptyRow
    <3>2. QED
      BY <3>1 DEF RowFollows, UrlsAreRegistered
  <2>3. QED
    BY <2>1, <2>2 DEF UrlsAreRegistered, Exists
<1>3. Inv /\ Inv' /\ [Next]_vars =>
         [\A v \in Versions : \A k \in ver[v].urls \intersect Keys :
             \/ object'[k] # "stored"
             \/ k \in ver'[v].urls
             \/ ver'[v] = EmptyRow("removed") /\ \E s \in Sessions : DraftDeleted(s, v)]_vars
  <2>. SUFFICES ASSUME Inv, Inv', [Next]_vars, NEW v \in Versions,
                       NEW k \in ver[v].urls \intersect Keys,
                       object'[k] = "stored", k \notin ver'[v].urls
                PROVE  /\ ver'[v] = EmptyRow("removed")
                       /\ \E s \in Sessions : DraftDeleted(s, v)
    OBVIOUS
  <2>1. RowFollows(v) /\ k \in ver[v].dists /\ Exists(ver[v])
    BY StepFollows DEF UrlsAreRegistered
  <2>2. ~(Exists(ver'[v]) /\ k \in ver'[v].dists)
    BY DEF ObjectsInv, ObjectsTracked, Exists
  <2>3. QED
    BY <2>1, <2>2 DEF RowFollows, Exists, LiveStates
<1>4. QED
  BY <1>1, <1>2, <1>3, PTL DEF Spec, OnlyDraftDeletesOrphan

-----------------------------------------------------------------------------
(* Requests that do not overlap implement Lifecycle.                       *)

OneAtATime == \A s, t \in Sessions : s = t

Belonging(verNow, r) == {v \in Versions : Exists(verNow[v]) /\ verNow[v].base = r}

\* The versions a delete takes up: those of a resource, or a single one that
\* is no draft.
Listed(ses, verNow, ownerNow, currentNow) ==
    LET vs == {v \in Versions : ses.seen[v] # "unused"}
    IN  /\ \A v \in vs : ses.seen[v] = verNow[v].state
        /\ \/ /\ ses.loaded = NoVersion
              /\ \E v \in Versions :
                    vs = {v} /\ Exists(verNow[v]) /\ verNow[v].state # "draft"
           \/ /\ ses.res \in Resources /\ ownerNow[ses.res] \in Users
              /\ ses.loaded = currentNow[ses.res]
              /\ vs = Belonging(verNow, ses.res)

\* What a handler has read is still so, which holds as long as no other
\* handler commits.
StillSo(ses, verNow, ownerNow, currentNow) ==
    LET row == verNow[ses.ver]
    IN  /\ ses.pc = "patch" => row.state = "draft" /\ ses.meta = row.meta
        /\ ses.pc \in {"guarded", "publish"} => PublishGuard(row)
        /\ ses.pc = "publish" => ses.res = row.base /\ ses.loaded = currentNow[ses.res]
        /\ ses.pc = "deprecate" => row.state = "published"
        /\ ses.pc = "delete_draft" => row.state = "draft"
        /\ ses.pc \in Inserting =>
              ownerNow[ses.res] = ses.user /\ currentNow[ses.res] = ses.loaded
        /\ ses.pc = "new_current" => Exists(verNow[ses.loaded])
        /\ ses.pc \in {"resolved", "delete_resource"} =>
              \A v \in Versions :
                 ses.seen[v] # "unused" =>
                     v \in Belonging(verNow, ses.res) /\ ses.seen[v] = verNow[v].state
        /\ ses.pc = "delete_resource" =>
              /\ ownerNow[ses.res] \in Users
              /\ ses.loaded = currentNow[ses.res]
        /\ ses.pc = "tombstone" => Listed(ses, verNow, ownerNow, currentNow)

AloneInv ==
    /\ OneAtATime
    /\ WellTyped /\ PointersInv
    /\ \A s \in Sessions : StillSo(sess[s], ver, owner, current)


LEMMA SameRows ==
    /\ \A row : Atomic!Exists(row) = Exists(row)
    /\ \A why : Atomic!EmptyRow(why) = EmptyRow(why)
    /\ \A r, u, p, meta, dists : Atomic!DraftRow(r, u, p, meta, dists) = DraftRow(r, u, p, meta, dists)
BY DEF Exists, LiveStates, EmptyRow, DraftRow, Atomic!Exists, Atomic!LiveStates,
       Atomic!EmptyRow, Atomic!DraftRow

LEMMA SameGuard == \A row : Atomic!PublishGuard(row) = PublishGuard(row)
<1>1. /\ Atomic!Findable = Findable /\ Atomic!Accessible = Accessible
      /\ Atomic!Interoperable = Interoperable /\ Atomic!Reusable = Reusable
  BY DEF Findable, Accessible, Interoperable, Reusable, Atomic!Findable,
         Atomic!Accessible, Atomic!Interoperable, Atomic!Reusable
<1>2. Atomic!FairChecks = FairChecks
  BY <1>1 DEF FairChecks, Atomic!FairChecks
<1>3. \A p, n : Atomic!Share(p, n) = Share(p, n)
  BY DEF Share, Unit, Atomic!Share, Atomic!Unit
<1>4. \A f, a, i, r : Atomic!Overalls(f, a, i, r) = Overalls(f, a, i, r)
  BY <1>3 DEF Overalls, Atomic!Overalls
<1>5. \A f, a, i, r : Atomic!MeetsThreshold(f, a, i, r) <=> MeetsThreshold(f, a, i, r)
  BY <1>4 DEF MeetsThreshold, Threshold, Atomic!MeetsThreshold, Atomic!Threshold
<1>6. \A c, d : Atomic!Passed(c, d) = Passed(c, d)
  BY DEF Passed, Atomic!Passed, Cardinality, Atomic!Cardinality
<1>7. \A c : Atomic!FairEnough(c) <=> FairEnough(c)
  BY <1>1, <1>5, <1>6 DEF FairEnough, Atomic!FairEnough
<1>8. \A row : Atomic!HasLicense(row) <=> HasLicense(row)
  BY DEF HasLicense, Atomic!HasLicense
<1>9. \A row : Atomic!HasDistribution(row) <=> HasDistribution(row)
  BY DEF HasDistribution, Atomic!HasDistribution
<1>10. \A row : Atomic!FairChecksOf(row) = FairChecksOf(row)
  BY <1>2, <1>9 DEF FairChecksOf, Atomic!FairChecksOf
<1>11. \A row : Atomic!PublishGuard(row) <=> PublishGuard(row)
  BY <1>7, <1>8, <1>9, <1>10 DEF PublishGuard, Atomic!PublishGuard
<1>12. QED
  BY <1>11 DEF PublishGuard, Atomic!PublishGuard

LEMMA IdleIsStillSo ==
    \A verNow, ownerNow, currentNow : StillSo(Idle, verNow, ownerNow, currentNow)
BY DEF StillSo, Idle, Inserting

LEMMA InitAlone == OneAtATime /\ Init => AloneInv
BY InitWellTyped, InitPointers, IdleIsStillSo DEF Init, AloneInv

\* An atomic step, or none.
Atomically == [Atomic!Next]_<<owner, current, ver>>

\* A step of the only session.
LEMMA OnlySession ==
    ASSUME AloneInv, NEW s \in Sessions, NEW next, Continue(s, next), [Next]_vars,
           StillSo(next, ver', owner', current')
    PROVE  AloneInv'
<1>1. \A t \in Sessions : t = s /\ sess'[t] = next
  BY DEF AloneInv, OneAtATime, WellTyped, Continue
<1>2. WellTyped' /\ PointersInv'
  BY NextPointers DEF AloneInv
<1>3. QED
  BY <1>1, <1>2 DEF AloneInv, OneAtATime

\* The handler reads, and holds what is so.
LEMMA ReadsAlone ==
    ASSUME AloneInv, NEW s \in Sessions, NEW next, Continue(s, next), [Next]_vars,
           UNCHANGED rows, StillSo(next, ver, owner, current)
    PROVE  AloneInv' /\ Atomically
<1>1. ver' = ver /\ owner' = owner /\ current' = current
  BY DEF rows
<1>2. StillSo(next, ver', owner', current')
  BY <1>1
<1>3. QED
  BY <1>1, <1>2, OnlySession DEF Atomically

\* The handler ends with a step that Lifecycle allows.
LEMMA EndsAlone ==
    ASSUME AloneInv, NEW s \in Sessions, Finish(s), [Next]_vars, Atomically
    PROVE  AloneInv' /\ Atomically
BY OnlySession, IdleIsStillSo DEF Finish

LEMMA BeginAlone ==
    ASSUME AloneInv, [Next]_vars, NEW s \in Sessions, NEW u \in Users, Begin(s, u)
    PROVE  AloneInv' /\ Atomically
<1>t. /\ ver \in [Versions -> VersionRow]
      /\ current \in [Resources -> Versions \union {NoVersion}]
  BY DEF AloneInv, WellTyped, ProperRow
<1>r. UNCHANGED rows
  BY DEF Begin, PatchRead, PublishCheck, DeprecateRead, DeleteVersionRead,
         NewVersionResource, DeleteResourceRead, DeleteResourceResolve
<1>1. ASSUME NEW v \in Versions, PatchRead(s, u, v)
      PROVE  \E next : Continue(s, next) /\ StillSo(next, ver, owner, current)
  <2>. DEFINE next == [Idle EXCEPT !.pc = "patch", !.ver = v, !.meta = ver[v].meta]
  <2>1. next.pc = "patch" /\ next.ver = v /\ next.meta = ver[v].meta
    BY DEF Idle
  <2>2. Continue(s, next) /\ ver[v].state = "draft"
    BY <1>1 DEF PatchRead
  <2>. HIDE DEF next
  <2>3. StillSo(next, ver, owner, current)
    BY <2>1, <2>2 DEF StillSo, Inserting
  <2>4. QED
    BY <2>2, <2>3
<1>2. ASSUME NEW v \in Versions, PublishCheck(s, u, v)
      PROVE  \E next : Continue(s, next) /\ StillSo(next, ver, owner, current)
  <2>. DEFINE next == [Idle EXCEPT !.pc = "guarded", !.ver = v]
  <2>1. next.pc = "guarded" /\ next.ver = v
    BY DEF Idle
  <2>2. Continue(s, next) /\ PublishGuard(ver[v])
    BY <1>2 DEF PublishCheck
  <2>. HIDE DEF next
  <2>3. StillSo(next, ver, owner, current)
    BY <2>1, <2>2 DEF StillSo, Inserting
  <2>4. QED
    BY <2>2, <2>3
<1>3. ASSUME NEW v \in Versions, DeprecateRead(s, u, v)
      PROVE  \E next : Continue(s, next) /\ StillSo(next, ver, owner, current)
  <2>. DEFINE next == [Idle EXCEPT !.pc = "deprecate", !.ver = v]
  <2>1. next.pc = "deprecate" /\ next.ver = v
    BY DEF Idle
  <2>2. Continue(s, next) /\ ver[v].state = "published"
    BY <1>3 DEF DeprecateRead
  <2>. HIDE DEF next
  <2>3. StillSo(next, ver, owner, current)
    BY <2>1, <2>2 DEF StillSo, Inserting
  <2>4. QED
    BY <2>2, <2>3
<1>4. ASSUME NEW v \in Versions, DeleteVersionRead(s, u, v)
      PROVE  \E next : Continue(s, next) /\ StillSo(next, ver, owner, current)
  <2>1. CASE ver[v].state = "draft"
    <3>. DEFINE next == [Idle EXCEPT !.pc = "delete_draft", !.ver = v]
    <3>1. next.pc = "delete_draft" /\ next.ver = v
      BY DEF Idle
    <3>2. Continue(s, next)
      BY <1>4, <2>1 DEF DeleteVersionRead
    <3>. HIDE DEF next
    <3>3. StillSo(next, ver, owner, current)
      BY <2>1, <3>1 DEF StillSo, Inserting
    <3>4. QED
      BY <3>2, <3>3
  <2>2. CASE ver[v].state # "draft"
    <3>. DEFINE next == [Idle EXCEPT !.pc = "tombstone", !.seen[v] = ver[v].state]
    <3>1. /\ next.pc = "tombstone" /\ next.loaded = NoVersion
          /\ next.seen = [w \in Versions |-> IF w = v THEN ver[v].state ELSE "unused"]
      BY DEF Idle
    <3>2. Continue(s, next) /\ Exists(ver[v])
      BY <1>4, <2>2 DEF DeleteVersionRead, OwnedBy
    <3>. HIDE DEF next
    <3>3. {w \in Versions : next.seen[w] # "unused"} = {v}
      BY <3>1, <3>2 DEF Exists, LiveStates
    <3>4. Listed(next, ver, owner, current)
      BY <2>2, <3>1, <3>2, <3>3 DEF Listed
    <3>5. StillSo(next, ver, owner, current)
      BY <3>1, <3>4 DEF StillSo, Inserting
    <3>6. QED
      BY <3>2, <3>5
  <2>3. QED
    BY <2>1, <2>2
<1>5. ASSUME NEW r \in Resources, NewVersionResource(s, u, r)
      PROVE  \E next : Continue(s, next) /\ StillSo(next, ver, owner, current)
  <2>. DEFINE next == [Idle EXCEPT !.pc = "new_resource", !.user = u, !.res = r,
                                   !.loaded = current[r]]
  <2>1. /\ next.pc = "new_resource" /\ next.user = u /\ next.res = r
        /\ next.loaded = current[r]
    BY DEF Idle
  <2>2. Continue(s, next) /\ owner[r] = u
    BY <1>5 DEF NewVersionResource
  <2>. HIDE DEF next
  <2>3. StillSo(next, ver, owner, current)
    BY <2>1, <2>2 DEF StillSo, Inserting
  <2>4. QED
    BY <2>2, <2>3
<1>6. ASSUME NEW r \in Resources, DeleteResourceRead(s, u, r)
      PROVE  \E next : Continue(s, next) /\ StillSo(next, ver, owner, current)
  <2>. DEFINE next == [Idle EXCEPT !.pc = "delete_resource", !.res = r,
                                   !.loaded = current[r]]
  <2>1. /\ next.pc = "delete_resource" /\ next.res = r
        /\ next.loaded = current[r] /\ \A w \in Versions : next.seen[w] = "unused"
    BY DEF Idle
  <2>2. Continue(s, next) /\ owner[r] = u
    BY <1>6 DEF DeleteResourceRead
  <2>. HIDE DEF next
  <2>3. StillSo(next, ver, owner, current)
    BY <2>1, <2>2 DEF StillSo, Inserting
  <2>4. QED
    BY <2>2, <2>3
<1>7. ASSUME NEW v \in Versions, DeleteResourceResolve(s, u, v)
      PROVE  \E next : Continue(s, next) /\ StillSo(next, ver, owner, current)
  <2>. DEFINE next == [Idle EXCEPT !.pc = "resolved", !.user = u,
                                   !.res = ver[v].base, !.seen[v] = ver[v].state]
  <2>1. /\ next.pc = "resolved" /\ next.res = ver[v].base
        /\ next.seen = [w \in Versions |-> IF w = v THEN ver[v].state ELSE "unused"]
    BY DEF Idle
  <2>2. Continue(s, next) /\ Exists(ver[v])
    BY <1>7 DEF DeleteResourceResolve
  <2>3. v \in Belonging(ver, next.res)
    BY <2>1, <2>2 DEF Belonging
  <2>. HIDE DEF next
  <2>4. StillSo(next, ver, owner, current)
    BY <2>1, <2>3 DEF StillSo, Inserting
  <2>5. QED
    BY <2>2, <2>4
<1>8. PICK next : Continue(s, next) /\ StillSo(next, ver, owner, current)
  BY <1>1, <1>2, <1>3, <1>4, <1>5, <1>6, <1>7 DEF Begin
<1>9. QED
  BY <1>r, <1>8, ReadsAlone

\* The row of a tombstoned version, however many of its URLs were cleared.
LEMMA TombstonesAlone ==
    ASSUME AloneInv, NEW s \in Sessions, TombstoneCommit(s)
    PROVE  \E kept \in [ToTombstone(s) -> SUBSET Keys] :
               ver' = Atomic!Tombstoned(ToTombstone(s), kept)
<1>. DEFINE ses == sess[s]
            vs == ToTombstone(s)
            kept == [v \in vs |-> {k \in Keys : <<v, k>> \notin ses.cleared}]
<1>1. kept \in [vs -> SUBSET Keys]
  OBVIOUS
<1>2. /\ ver \in [Versions -> VersionRow] /\ vs = ses.flushed /\ vs \subseteq Versions
      /\ \A v \in vs : ses.seen[v] = ver[v].state
  BY DEF AloneInv, WellTyped, ProperRow, TombstoneCommit, ToTombstone, StillSo, Listed, At
<1>3. ver' = [v \in Versions |->
                 IF v \in vs
                 THEN [ver[v] EXCEPT
                         !.deleted = TRUE,
                         !.state = IF ses.seen[v] = "deprecated" THEN @ ELSE "deprecated",
                         !.urls = {k \in @ : <<v, k>> \notin ses.cleared}]
                 ELSE ver[v]]
  BY <1>2 DEF TombstoneCommit
<1>4. ASSUME NEW v \in vs
      PROVE  [ver[v] EXCEPT
                 !.deleted = TRUE,
                 !.state = IF ses.seen[v] = "deprecated" THEN @ ELSE "deprecated",
                 !.urls = {k \in @ : <<v, k>> \notin ses.cleared}]
             = [ver[v] EXCEPT !.state = "deprecated", !.deleted = TRUE,
                              !.urls = @ \intersect kept[v]]
  <2>1. ver[v] \in VersionRow /\ ses.seen[v] = ver[v].state
    BY <1>2
  <2>2. {k \in ver[v].urls : <<v, k>> \notin ses.cleared} = ver[v].urls \intersect kept[v]
    BY <2>1 DEF VersionRow
  <2>. HIDE DEF kept
  <2>3. QED
    BY <2>1, <2>2 DEF VersionRow
<1>. HIDE DEF kept, vs
<1>5. ver' = Atomic!Tombstoned(vs, kept)
  BY <1>2, <1>3, <1>4 DEF Atomic!Tombstoned
<1>6. QED
  BY <1>1, <1>5 DEF vs

\* What ends with a commit.
LEMMA CommitAlone ==
    ASSUME AloneInv, [Next]_vars, NEW s \in Sessions,
           \/ \E meta \in SUBSET Checks : PatchCommit(s, meta)
           \/ PublishCommit(s) \/ DeprecateCommit(s) \/ DeleteDraftCommit(s)
           \/ TombstoneCommit(s)
           \/ \E v \in Versions, p \in Payloads : NewVersionInsert(s, v, p[1], p[2])
    PROVE  AloneInv' /\ Atomically
<1>. DEFINE ses == sess[s]
            x == sess[s].ver
<1>t. /\ ver \in [Versions -> VersionRow]
      /\ current \in [Resources -> Versions \union {NoVersion}]
      /\ ses \in Session /\ RecordOK(ses) /\ StillSo(ses, ver, owner, current)
      /\ \A v \in Versions : Exists(ver[v]) => ver[v].publisher \in Users
      /\ \A v \in Versions : Exists(ver[v]) => ver[v].base \in Resources
  BY DEF AloneInv, WellTyped, ProperRow, PointersInv
<1>i. \A v \in Versions : ver[v].state \in LiveStates =>
          \E u \in Users : Atomic!OwnedBy(v, u)
  BY <1>t, SameRows DEF Atomic!OwnedBy, Exists
<1>1. ASSUME NEW meta \in SUBSET Checks, PatchCommit(s, meta) PROVE Atomically
  <2>1. /\ x \in Versions /\ ver[x].state = "draft" /\ ses.meta = ver[x].meta
        /\ UNCHANGED <<owner, current>>
    BY <1>1, <1>t DEF PatchCommit, At, RecordOK, HoldsVersion, StillSo
  <2>2. CASE ver' = ver
    BY <2>1, <2>2 DEF Atomically
  <2>3. CASE ver' # ver
    <3>1. ver' = [ver EXCEPT ![x].meta = (@ \ (ses.meta \ meta)) \union (meta \ ses.meta)]
      BY <1>1, <2>3 DEF PatchCommit
    <3>2. (ver[x].meta \ (ses.meta \ meta)) \union (meta \ ses.meta) = meta
      BY <2>1
    <3>3. ver' = [ver EXCEPT ![x].meta = meta]
      BY <3>1, <3>2
    <3>4. PICK u \in Users : Atomic!OwnedBy(x, u)
      BY <1>i, <2>1 DEF LiveStates
    <3>5. Atomic!Patch(u, x, meta)
      BY <2>1, <3>3, <3>4 DEF Atomic!Patch
    <3>6. QED
      BY <2>1, <3>5 DEF Atomically, Atomic!Next
  <2>4. QED
    BY <2>2, <2>3
<1>2. ASSUME PublishCommit(s) PROVE Atomically
  <2>1. /\ x \in Versions /\ PublishGuard(ver[x]) /\ ver[x].base = ses.res
        /\ ses.loaded = current[ses.res] /\ ses.res \in Resources
    BY <1>2, <1>t DEF PublishCommit, At, RecordOK, HoldsVersion, HoldsResource, StillSo
  <2>2. /\ ver' = [ver EXCEPT ![x].state = "published"] /\ UNCHANGED owner
        /\ current' = [current EXCEPT ![ver[x].base] = x]
    BY <1>2, <1>t, <2>1 DEF PublishCommit
  <2>3. PICK u \in Users : Atomic!OwnedBy(x, u)
    BY <1>i, <2>1 DEF LiveStates, PublishGuard
  <2>4. Atomic!Publish(u, x)
    BY <2>1, <2>2, <2>3, SameGuard DEF Atomic!Publish
  <2>5. QED
    BY <2>1, <2>4 DEF Atomically, Atomic!Next
<1>3. ASSUME DeprecateCommit(s) PROVE Atomically
  <2>1. x \in Versions /\ ver[x].state = "published" /\ UNCHANGED <<owner, current>>
    BY <1>3, <1>t DEF DeprecateCommit, At, RecordOK, HoldsVersion, StillSo
  <2>2. ver' = [ver EXCEPT ![x].state = "deprecated"]
    BY <1>3, <2>1 DEF DeprecateCommit, Exists, LiveStates
  <2>3. PICK u \in Users : Atomic!OwnedBy(x, u)
    BY <1>i, <2>1 DEF LiveStates
  <2>4. Atomic!Deprecate(u, x)
    BY <2>1, <2>2, <2>3 DEF Atomic!Deprecate
  <2>5. QED
    BY <2>1, <2>4 DEF Atomically, Atomic!Next
<1>4. ASSUME DeleteDraftCommit(s) PROVE Atomically
  <2>1. x \in Versions /\ ver[x].state = "draft" /\ UNCHANGED <<owner, current>>
    BY <1>4, <1>t DEF DeleteDraftCommit, At, RecordOK, HoldsVersion, StillSo
  <2>2. ver' = [ver EXCEPT ![x] = Atomic!EmptyRow("removed")]
    BY <1>4, SameRows DEF DeleteDraftCommit
  <2>3. PICK u \in Users : Atomic!OwnedBy(x, u)
    BY <1>i, <2>1 DEF LiveStates
  <2>4. Atomic!DeleteDraft(u, x)
    BY <2>1, <2>2, <2>3 DEF Atomic!DeleteDraft
  <2>5. QED
    BY <2>1, <2>4 DEF Atomically, Atomic!Next
<1>5. ASSUME TombstoneCommit(s) PROVE Atomically
  <2>. DEFINE vs == ToTombstone(s)
  <2>1. /\ Listed(ses, ver, owner, current) /\ UNCHANGED owner
        /\ current' = IF ses.loaded = NoVersion
                      THEN current ELSE [current EXCEPT ![ses.res] = NoVersion]
    BY <1>5, <1>t DEF TombstoneCommit, At, StillSo
  <2>2. \E kept \in [vs -> SUBSET Keys] : ver' = Atomic!Tombstoned(vs, kept)
    BY <1>5, TombstonesAlone
  <2>3. CASE /\ ses.loaded = NoVersion
             /\ \E v \in Versions : vs = {v} /\ Exists(ver[v]) /\ ver[v].state # "draft"
    <3>1. PICK v \in Versions : vs = {v} /\ Exists(ver[v]) /\ ver[v].state # "draft"
      BY <2>3
    <3>2. PICK u \in Users : Atomic!OwnedBy(v, u)
      BY <1>i, <3>1 DEF Exists
    <3>3. Atomic!DeleteVersion(u, v)
      BY <2>1, <2>2, <2>3, <3>1, <3>2 DEF Atomic!DeleteVersion
    <3>4. QED
      BY <3>3 DEF Atomically, Atomic!Next
  <2>4. CASE /\ ses.res \in Resources /\ owner[ses.res] \in Users
             /\ ses.loaded = current[ses.res]
             /\ vs = Belonging(ver, ses.res)
    <3>1. vs = Atomic!VersionsOf(ses.res)
      BY <2>4, SameRows DEF Belonging, Atomic!VersionsOf
    <3>2. current' = [current EXCEPT ![ses.res] = NoVersion]
      BY <1>t, <2>1, <2>4
    <3>3. Atomic!DeleteResource(owner[ses.res], ses.res)
      BY <2>1, <2>2, <3>1, <3>2 DEF Atomic!DeleteResource
    <3>4. QED
      BY <2>4, <3>3 DEF Atomically, Atomic!Next
  <2>5. QED
    BY <2>1, <2>3, <2>4 DEF Listed, ToTombstone
<1>6. ASSUME NEW v \in Versions, NEW p \in Payloads, NewVersionInsert(s, v, p[1], p[2])
      PROVE  Atomically
  <2>1. /\ ses.res \in Resources /\ ses.user \in Users /\ ses.loaded \in Versions
        /\ owner[ses.res] = ses.user /\ current[ses.res] = ses.loaded
        /\ Exists(ver[ses.loaded])
    BY <1>6, <1>t DEF NewVersionInsert, At, RecordOK, HoldsResource, Inserting, StillSo
  <2>2. /\ ver[v].state = "unused" /\ UNCHANGED <<owner, current>>
        /\ ver' = [ver EXCEPT ![v] = Atomic!DraftRow(ses.res, ses.user, current[ses.res],
                                                      p[1], p[2])]
    BY <1>6, <2>1, SameRows DEF NewVersionInsert
  <2>3. Atomic!NewVersion(ses.user, ses.res, v, p[1], p[2])
    BY <2>1, <2>2, SameRows, NullsAreNoIds DEF Atomic!NewVersion
  <2>4. p[1] \in SUBSET Checks /\ p[2] \in SUBSET (Keys \union Links)
    BY DEF Payloads, Tokens
  <2>5. QED
    BY <2>1, <2>3, <2>4 DEF Atomically, Atomic!Next
<1>7. Finish(s)
  BY DEF PatchCommit, PublishCommit, DeprecateCommit, DeleteDraftCommit, TombstoneCommit,
         NewVersionInsert
<1>8. Atomically
  BY <1>1, <1>2, <1>3, <1>4, <1>5, <1>6
<1>9. QED
  BY <1>7, <1>8, EndsAlone

\* What goes on to the next await.
LEMMA AwaitAlone ==
    ASSUME AloneInv, [Next]_vars, NEW s \in Sessions,
           \/ PublishFlush(s) \/ NewVersionCurrent(s)
           \/ DeleteResourceLoad(s) \/ DeleteResourceSelect(s)
           \/ \E v \in Versions : TombstoneFlush(s, v)
           \/ \E k \in Keys : DeleteObject(s, k) \/ DeleteObjectFails(s, k)
           \/ Abort(s)
    PROVE  AloneInv' /\ Atomically
<1>. DEFINE ses == sess[s]
<1>t. /\ ver \in [Versions -> VersionRow]
      /\ ses \in Session /\ RecordOK(ses) /\ StillSo(ses, ver, owner, current)
  BY DEF AloneInv, WellTyped, ProperRow
<1>r. UNCHANGED rows
  BY DEF PublishFlush, NewVersionCurrent, DeleteResourceLoad, DeleteResourceSelect,
         TombstoneFlush, DeleteObject, DeleteObjectFails, Abort
<1>0. ASSUME Finish(s)
      PROVE  \E next : Continue(s, next) /\ StillSo(next, ver, owner, current)
  BY <1>0, IdleIsStillSo DEF Finish
<1>1. ASSUME PublishFlush(s)
      PROVE  \E next : Continue(s, next) /\ StillSo(next, ver, owner, current)
  <2>. DEFINE next == [ses EXCEPT !.pc = "publish", !.res = ver[ses.ver].base,
                                  !.loaded = current[ver[ses.ver].base],
                                  !.flushed = {ses.ver}]
  <2>1. /\ next.pc = "publish" /\ next.ver = ses.ver /\ next.res = ver[ses.ver].base
        /\ next.loaded = current[next.res]
    BY <1>t DEF Session
  <2>2. (Finish(s) \/ Continue(s, next)) /\ PublishGuard(ver[ses.ver])
    BY <1>1, <1>t DEF PublishFlush, At, StillSo
  <2>. HIDE DEF next
  <2>3. StillSo(next, ver, owner, current)
    BY <2>1, <2>2 DEF StillSo, Inserting
  <2>4. QED
    BY <1>0, <2>2, <2>3
<1>2. ASSUME NewVersionCurrent(s)
      PROVE  \E next : Continue(s, next) /\ StillSo(next, ver, owner, current)
  <2>. DEFINE next == [ses EXCEPT !.pc = "new_current"]
  <2>1. CASE Exists(ver[ses.loaded])
    <3>1. /\ next.pc = "new_current" /\ next.user = ses.user /\ next.res = ses.res
          /\ next.loaded = ses.loaded
      BY <1>t DEF Session
    <3>2. Continue(s, next) /\ owner[ses.res] = ses.user /\ current[ses.res] = ses.loaded
      BY <1>2, <1>t, <2>1 DEF NewVersionCurrent, At, StillSo, Inserting
    <3>. HIDE DEF next
    <3>3. StillSo(next, ver, owner, current)
      BY <2>1, <3>1, <3>2 DEF StillSo
    <3>4. QED
      BY <3>2, <3>3
  <2>2. CASE ~Exists(ver[ses.loaded])
    BY <1>0, <1>2, <2>2 DEF NewVersionCurrent
  <2>3. QED
    BY <2>1, <2>2
<1>3. ASSUME DeleteResourceSelect(s)
      PROVE  \E next : Continue(s, next) /\ StillSo(next, ver, owner, current)
  <2>. DEFINE vs == {v \in Versions : Exists(ver[v]) /\ ver[v].base = ses.res}
              seen == [v \in Versions |->
                          IF v \in vs
                          THEN IF ses.seen[v] # "unused" THEN ses.seen[v] ELSE ver[v].state
                          ELSE "unused"]
              next == [ses EXCEPT !.pc = "tombstone", !.seen = seen]
  <2>1. /\ next.pc = "tombstone" /\ next.res = ses.res /\ next.loaded = ses.loaded
        /\ next.seen = seen
    BY <1>t DEF Session
  <2>2. /\ Continue(s, next) /\ ses.res \in Resources
        /\ owner[ses.res] \in Users /\ ses.loaded = current[ses.res]
        /\ \A v \in Versions : ses.seen[v] # "unused" => ses.seen[v] = ver[v].state
    BY <1>3, <1>t DEF DeleteResourceSelect, At, RecordOK, HoldsResource, StillSo
  <2>3. \A v \in Versions : seen[v] = IF v \in vs THEN ver[v].state ELSE "unused"
    BY <2>2
  <2>4. \A v \in vs : ver[v].state # "unused"
    BY DEF Exists, LiveStates
  <2>5. vs = Belonging(ver, ses.res)
    BY DEF Belonging
  <2>. HIDE DEF next, seen, vs
  <2>6. {v \in Versions : seen[v] # "unused"} = vs
    BY <2>3, <2>4, <2>5 DEF Belonging
  <2>7. Listed(next, ver, owner, current)
    BY <2>1, <2>2, <2>3, <2>4, <2>5, <2>6 DEF Listed
  <2>8. StillSo(next, ver, owner, current)
    BY <2>1, <2>7 DEF StillSo, Inserting
  <2>9. QED
    BY <2>2, <2>8
<1>4. ASSUME NEW next, Continue(s, next), At(s, "tombstone"), next.pc = "tombstone",
             next.res = ses.res, next.loaded = ses.loaded, next.seen = ses.seen
      PROVE  StillSo(next, ver, owner, current)
  BY <1>4, <1>t DEF StillSo, Listed, At, Inserting
<1>5. ASSUME NEW v \in Versions, TombstoneFlush(s, v)
      PROVE  \E next : Continue(s, next) /\ StillSo(next, ver, owner, current)
  <2>. DEFINE next == [ses EXCEPT !.ver = v, !.todo = ver[v].urls,
                                  !.flushed = @ \union {v}]
  <2>1. At(s, "tombstone") /\ (Finish(s) \/ Continue(s, next))
    BY <1>5 DEF TombstoneFlush
  <2>2. /\ next.pc = "tombstone" /\ next.res = ses.res /\ next.loaded = ses.loaded
        /\ next.seen = ses.seen
    BY <1>t, <2>1 DEF Session, At
  <2>. HIDE DEF next
  <2>3. QED
    BY <1>0, <1>4, <2>1, <2>2
<1>6. ASSUME NEW k \in Keys, DeleteObject(s, k) \/ DeleteObjectFails(s, k)
      PROVE  \E next : Continue(s, next) /\ StillSo(next, ver, owner, current)
  <2>1. PICK next : /\ Continue(s, next) /\ At(s, "tombstone")
                    /\ \/ next = [ses EXCEPT !.todo = @ \ {k}]
                       \/ next = [ses EXCEPT !.todo = @ \ {k},
                                             !.cleared = @ \union {<<ses.ver, k>>}]
    BY <1>6 DEF DeleteObject, DeleteObjectFails
  <2>2. /\ next.pc = "tombstone" /\ next.res = ses.res /\ next.loaded = ses.loaded
        /\ next.seen = ses.seen
    BY <1>t, <2>1 DEF Session, At
  <2>3. QED
    BY <1>4, <2>1, <2>2
<1>7. ASSUME DeleteResourceLoad(s)
      PROVE  \E next : Continue(s, next) /\ StillSo(next, ver, owner, current)
  <2>. DEFINE r == ses.res
              next == [ses EXCEPT !.pc = "delete_resource", !.user = NoUser,
                                  !.loaded = current[r]]
  <2>1. CASE owner[r] = ses.user
    <3>1. /\ next.pc = "delete_resource" /\ next.res = r /\ next.loaded = current[r]
          /\ next.seen = ses.seen
      BY <1>t DEF Session
    <3>2. Continue(s, next) /\ owner[r] \in Users
      BY <1>7, <1>t, <2>1 DEF DeleteResourceLoad, At, RecordOK
    <3>3. \A v \in Versions :
             ses.seen[v] # "unused" => v \in Belonging(ver, r) /\ ses.seen[v] = ver[v].state
      BY <1>7, <1>t DEF DeleteResourceLoad, At, StillSo
    <3>. HIDE DEF next
    <3>4. StillSo(next, ver, owner, current)
      BY <3>1, <3>2, <3>3 DEF StillSo, Inserting
    <3>5. QED
      BY <3>2, <3>4
  <2>2. CASE owner[r] # ses.user
    BY <1>0, <1>7, <2>2 DEF DeleteResourceLoad
  <2>3. QED
    BY <2>1, <2>2
<1>8. PICK next : Continue(s, next) /\ StillSo(next, ver, owner, current)
  BY <1>0, <1>1, <1>2, <1>3, <1>5, <1>6, <1>7 DEF Abort
<1>9. QED
  BY <1>r, <1>8, ReadsAlone

\* A resource that is created beside the request does not touch what the
\* request holds.
LEMMA CreateAlone ==
    ASSUME AloneInv, [Next]_vars, NEW u \in Users, NEW r \in Resources, NEW v \in Versions,
           NEW p \in Payloads, CreateResource(u, r, v, p[1], p[2])
    PROVE  AloneInv' /\ Atomically
<1>. DEFINE row == DraftRow(r, u, NoVersion, p[1], p[2])
<1>1. /\ owner[r] = NoUser /\ ver[v].state = "unused"
      /\ owner' = [owner EXCEPT ![r] = u] /\ ver' = [ver EXCEPT ![v] = row]
      /\ UNCHANGED <<current, sess>> /\ row.base = r
  BY DEF CreateResource, DraftRow
<1>. HIDE DEF row
<1>t. /\ ver \in [Versions -> VersionRow] /\ owner \in [Resources -> Users \union {NoUser}]
      /\ \A w \in Versions : Exists(ver[w]) => owner[ver[w].base] \in Users
      /\ \A s \in Sessions : RecordOK(sess[s]) /\ StillSo(sess[s], ver, owner, current)
  BY DEF AloneInv, WellTyped, ProperRow, PointersInv, PublisherIsOwner
<1>2. /\ \A w \in Versions : Exists(ver[w]) => w # v /\ ver'[w] = ver[w]
      /\ \A q \in Resources : owner[q] \in Users => q # r /\ owner'[q] = owner[q]
      /\ ~Exists(ver[v])
  BY <1>1, <1>t, NullsAreNoIds DEF Exists, LiveStates
<1>3. \A q \in Resources : owner[q] \in Users => Belonging(ver', q) = Belonging(ver, q)
  BY <1>1, <1>2, <1>t DEF Belonging
<1>4. ASSUME NEW s \in Sessions
      PROVE  StillSo(sess[s], ver', owner', current)
  <2>. DEFINE ses == sess[s]
              x == sess[s].ver
  <2>1. RecordOK(ses) /\ StillSo(ses, ver, owner, current)
    BY <1>t
  <2>2. ASSUME ses.pc \in {"patch", "guarded", "publish", "deprecate", "delete_draft"}
        PROVE  ver'[x] = ver[x]
    BY <1>2, <2>1, <2>2 DEF RecordOK, HoldsVersion, StillSo, PublishGuard, Exists, LiveStates
  <2>3. ASSUME ses.pc \in Inserting
        PROVE  owner'[ses.res] = owner[ses.res]
    BY <1>2, <2>1, <2>3 DEF RecordOK, HoldsResource, Inserting, StillSo
  <2>4. ASSUME ses.pc = "new_current"
        PROVE  ver'[ses.loaded] = ver[ses.loaded]
    BY <1>2, <2>1, <2>4 DEF RecordOK, Inserting, StillSo
  <2>5. /\ ses.pc = "delete_resource" => owner'[ses.res] = owner[ses.res]
        /\ Belonging(ver, ses.res) \subseteq Belonging(ver', ses.res)
        /\ \A w \in Belonging(ver, ses.res) : ver'[w] = ver[w]
    BY <1>2, <2>1 DEF RecordOK, HoldsResource, StillSo, Belonging
  <2>6. ASSUME ses.pc = "tombstone"
        PROVE  Listed(ses, ver', owner', current)
    <3>. DEFINE vs == {w \in Versions : ses.seen[w] # "unused"}
    <3>1. Listed(ses, ver, owner, current)
      BY <2>1, <2>6 DEF StillSo
    <3>2. \A w \in vs : ver'[w] = ver[w]
      BY <1>2, <3>1 DEF Listed, Belonging
    <3>3. CASE ses.loaded = NoVersion /\ \E w \in Versions :
                   vs = {w} /\ Exists(ver[w]) /\ ver[w].state # "draft"
      BY <3>1, <3>2, <3>3 DEF Listed
    <3>4. CASE /\ ses.res \in Resources /\ owner[ses.res] \in Users
               /\ ses.loaded = current[ses.res] /\ vs = Belonging(ver, ses.res)
      BY <1>2, <1>3, <3>1, <3>2, <3>4 DEF Listed
    <3>5. QED
      BY <3>1, <3>3, <3>4 DEF Listed
  <2>7. QED
    BY <2>1, <2>2, <2>3, <2>4, <2>5, <2>6 DEF StillSo
<1>5. AloneInv'
  <2>1. WellTyped' /\ PointersInv'
    BY NextPointers DEF AloneInv
  <2>2. \A s \in Sessions : StillSo(sess'[s], ver', owner', current')
    BY <1>1, <1>4
  <2>3. QED
    BY <2>1, <2>2 DEF AloneInv, OneAtATime
<1>6. Atomically
  <2>1. p[1] \in SUBSET Checks /\ p[2] \in SUBSET (Keys \union Links)
    BY DEF Payloads, Tokens
  <2>2. Atomic!CreateResource(u, r, v, p[1], p[2])
    BY <1>1, SameRows DEF Atomic!CreateResource, row
  <2>3. QED
    BY <2>1, <2>2 DEF Atomically, Atomic!Next
<1>7. QED
  BY <1>5, <1>6

LEMMA NextAlone == AloneInv /\ [Next]_vars => AloneInv' /\ Atomically
<1>. SUFFICES ASSUME AloneInv, [Next]_vars PROVE AloneInv' /\ Atomically
  OBVIOUS
<1>1. ASSUME UNCHANGED rows, UNCHANGED sess PROVE AloneInv' /\ Atomically
  <2>1. WellTyped' /\ PointersInv'
    BY NextPointers DEF AloneInv
  <2>2. QED
    BY <1>1, <2>1 DEF AloneInv, OneAtATime, Atomically, rows
<1>2. CASE UNCHANGED vars
  BY <1>1, <1>2 DEF vars, rows
<1>3. ASSUME NEW k \in Keys, Upload(k) PROVE AloneInv' /\ Atomically
  BY <1>1, <1>3 DEF Upload
<1>4. ASSUME NEW s \in Sessions, Proceed(s) \/ Abort(s) PROVE AloneInv' /\ Atomically
  BY <1>4, CommitAlone, AwaitAlone DEF Proceed
<1>5. QED
  BY <1>2, <1>3, <1>4, BeginAlone, CreateAlone DEF Next, NextUndisturbed

\* With one request at a time the handlers, step by step and with rollbacks,
\* implement the atomic ones: each takes effect at its commit, on what it read.
THEOREM OneAtATimeIsAtomic == OneAtATime /\ Spec => ImplementsLifecycle
<1>1. OneAtATime /\ Init => AloneInv
  BY InitAlone
<1>2. Init => Atomic!Init
  BY SameRows DEF Init, Atomic!Init
<1>3. AloneInv /\ [Next]_vars => AloneInv' /\ [Atomic!Next]_(Atomic!vars)
  BY NextAlone DEF Atomically, Atomic!vars
<1>4. QED
  BY <1>1, <1>2, <1>3, PTL DEF Spec, ImplementsLifecycle, Atomic!Spec
-----------------------------------------------------------------------------
(* What requests that do not overlap leave in the bucket.  An object is     *)
(* gone for a reason: a version that has it is withheld, being tombstoned   *)
(* or having been, or a delete request that removed it was rolled back.     *)

Withheld(v) == Exists(ver[v]) /\ (ver[v].deleted \/ Tombstoning(v))

GoneForAReason ==
    \A k \in Keys : object[k] = "deleted" =>
        \/ k \in rolledBack
        \/ \E v \in Versions : k \in ver[v].dists /\ Withheld(v)

\* Only a tombstone clears download_urls, and it leaves no draft.
RowWhole(row) ==
    /\ row.urls \subseteq row.dists
    /\ ~row.deleted => row.dists \intersect Keys \subseteq row.urls
    /\ row.deleted => row.state \in {"published", "deprecated"}

RowsWhole == \A v \in Versions : RowWhole(ver[v])

\* The objects a session is about to delete are those of a version it flushed.
Removing(ses) ==
    ses.todo # {} => ses.ver \in ses.flushed /\ ses.todo \subseteq ver[ses.ver].urls

OffersInv == GoneForAReason /\ RowsWhole /\ \A s \in Sessions : Removing(sess[s])

SerialInv == AloneInv /\ ObjectsInv /\ OffersInv

LEMMA IdleRemovesNothing == Idle.todo = {} /\ Idle.flushed = {} /\ Idle.pc = "idle"
BY DEF Idle

LEMMA InitSerial == OneAtATime /\ HistoryInit => SerialInv
<1>. SUFFICES ASSUME OneAtATime, HistoryInit
              PROVE  SerialInv
  OBVIOUS
<1>1. Init /\ AloneInv /\ ObjectsInv
  BY InitAlone, InitObjectsInv DEF HistoryInit
<1>2. OffersInv
  BY <1>1, IdleRemovesNothing
     DEF Init, OffersInv, GoneForAReason, RowsWhole, RowWhole, Removing, EmptyRow
<1>3. QED
  BY <1>1, <1>2 DEF SerialInv

\* Reasons stand while what is withheld stays withheld.
LEMMA ReasonsStand ==
    ASSUME GoneForAReason, rolledBack \subseteq rolledBack',
           \A k \in Keys : object'[k] = "deleted" => object[k] = "deleted",
           \A v \in Versions :
               Withheld(v) => Withheld(v)' /\ ver[v].dists \subseteq ver'[v].dists
    PROVE  GoneForAReason'
BY DEF GoneForAReason

\* A step of the only session outside a tombstone.
LEMMA PlainStep ==
    ASSUME SerialInv, NEW s \in Sessions, ~At(s, "tombstone"), NEW next,
           Continue(s, next), next.todo = {},
           UNCHANGED <<object, rolledBack>>,
           \A v \in Versions : RowWhole(ver'[v]),
           \A v \in Versions : Exists(ver[v]) /\ ver[v].deleted =>
               Exists(ver'[v]) /\ ver'[v].deleted /\ ver[v].dists \subseteq ver'[v].dists
    PROVE  OffersInv'
<1>1. \A t \in Sessions : t = s /\ sess'[t] = next
  BY DEF SerialInv, AloneInv, OneAtATime, WellTyped, Continue
<1>2. \A v : ~Tombstoning(v)
  BY <1>1 DEF Tombstoning
<1>3. \A v \in Versions :
          Withheld(v) => Withheld(v)' /\ ver[v].dists \subseteq ver'[v].dists
  BY <1>2 DEF Withheld
<1>4. GoneForAReason'
  BY <1>3, ReasonsStand DEF SerialInv, OffersInv
<1>5. \A t \in Sessions : Removing(sess[t])'
  BY <1>1 DEF Removing
<1>6. QED
  BY <1>4, <1>5 DEF OffersInv, RowsWhole

\* The same, when the rows are left alone.
LEMMA PlainRead ==
    ASSUME SerialInv, NEW s \in Sessions, ~At(s, "tombstone"), NEW next,
           Continue(s, next), next.todo = {}, UNCHANGED <<rows, object, rolledBack>>
    PROVE  OffersInv'
BY PlainStep DEF SerialInv, OffersInv, RowsWhole, rows

LEMMA BeginOffers ==
    ASSUME SerialInv, NEW s \in Sessions, NEW u \in Users, Begin(s, u), UNCHANGED rolledBack
    PROVE  OffersInv'
<1>. DEFINE Reads(next) == /\ Continue(s, next) /\ next.todo = {}
                           /\ UNCHANGED <<rows, object>>
<1>1. ~At(s, "tombstone")
  BY DEF Begin, At, PatchRead, PublishCheck, DeprecateRead, DeleteVersionRead,
         NewVersionResource, DeleteResourceRead, DeleteResourceResolve
<1>2. \E next : Reads(next)
  <2>1. ASSUME NEW v \in Versions,
               \/ PatchRead(s, u, v) \/ PublishCheck(s, u, v)
               \/ DeprecateRead(s, u, v) \/ DeleteVersionRead(s, u, v)
               \/ DeleteResourceResolve(s, u, v)
        PROVE  \E next : Reads(next)
    <3>1. CASE PatchRead(s, u, v)
      <4>1. Reads([Idle EXCEPT !.pc = "patch", !.ver = v, !.meta = ver[v].meta])
        BY <3>1 DEF PatchRead, Idle
      <4>2. QED
        BY <4>1
    <3>2. CASE PublishCheck(s, u, v)
      <4>1. Reads([Idle EXCEPT !.pc = "guarded", !.ver = v])
        BY <3>2 DEF PublishCheck, Idle
      <4>2. QED
        BY <4>1
    <3>3. CASE DeprecateRead(s, u, v)
      <4>1. Reads([Idle EXCEPT !.pc = "deprecate", !.ver = v])
        BY <3>3 DEF DeprecateRead, Idle
      <4>2. QED
        BY <4>1
    <3>4. CASE DeleteVersionRead(s, u, v)
      <4>1. \/ Reads([Idle EXCEPT !.pc = "delete_draft", !.ver = v])
            \/ Reads([Idle EXCEPT !.pc = "tombstone", !.seen[v] = ver[v].state])
        BY <3>4 DEF DeleteVersionRead, Idle
      <4>2. QED
        BY <4>1
    <3>5. CASE DeleteResourceResolve(s, u, v)
      <4>1. Reads([Idle EXCEPT !.pc = "resolved", !.user = u,
                               !.res = ver[v].base, !.seen[v] = ver[v].state])
        BY <3>5 DEF DeleteResourceResolve, Idle
      <4>2. QED
        BY <4>1
    <3>6. QED
      BY <2>1, <3>1, <3>2, <3>3, <3>4, <3>5
  <2>2. ASSUME NEW r \in Resources, NewVersionResource(s, u, r)
        PROVE  \E next : Reads(next)
    <3>1. Reads([Idle EXCEPT !.pc = "new_resource", !.user = u, !.res = r,
                             !.loaded = current[r]])
      BY <2>2 DEF NewVersionResource, Idle
    <3>2. QED
      BY <3>1
  <2>3. ASSUME NEW r \in Resources, DeleteResourceRead(s, u, r)
        PROVE  \E next : Reads(next)
    <3>1. Reads([Idle EXCEPT !.pc = "delete_resource", !.res = r, !.loaded = current[r]])
      BY <2>3 DEF DeleteResourceRead, Idle
    <3>2. QED
      BY <3>1
  <2>4. QED
    BY <2>1, <2>2, <2>3 DEF Begin
<1>3. PICK next : Reads(next)
  BY <1>2
<1>4. QED
  BY <1>1, <1>3, PlainRead

\* A row that is inserted, or replaced outside a tombstone.
LEMMA NewRowsAreWhole ==
    /\ RowWhole(EmptyRow("removed"))
    /\ \A r, u, p, meta, dists : RowWhole(DraftRow(r, u, p, meta, dists))
BY DEF RowWhole, EmptyRow, DraftRow

\* The later steps of the handlers that are no deletes of objects.
LEMMA ProceedOffers ==
    ASSUME SerialInv, NEW s \in Sessions, UNCHANGED rolledBack,
           \/ \E meta \in SUBSET Checks : PatchCommit(s, meta)
           \/ PublishFlush(s) \/ PublishCommit(s) \/ DeprecateCommit(s)
           \/ NewVersionCurrent(s)
           \/ \E v \in Versions, p \in Payloads : NewVersionInsert(s, v, p[1], p[2])
           \/ DeleteDraftCommit(s) \/ DeleteResourceLoad(s) \/ DeleteResourceSelect(s)
    PROVE  OffersInv'
<1>. USE DEF At
<1>1. /\ RecordOK(sess[s]) /\ sess[s] \in Session
      /\ ver \in [Versions -> VersionRow]
      /\ StillSo(sess[s], ver, owner, current)
      /\ \A v \in sess[s].flushed : Exists(ver[v])
      /\ \A v \in Versions : RowWhole(ver[v])
  BY DEF SerialInv, AloneInv, WellTyped, LockedRowsExist, ProperRow, OffersInv, RowsWhole
<1>2. sess[s].pc # "tombstone" /\ sess[s].todo = {}
  <2>1. sess[s].pc # "tombstone"
    BY DEF PatchCommit, PublishFlush, PublishCommit, DeprecateCommit, NewVersionCurrent,
           NewVersionInsert, DeleteDraftCommit, DeleteResourceLoad, DeleteResourceSelect
  <2>2. QED
    BY <1>1, <2>1 DEF RecordOK
<1>. DEFINE Ends == /\ Finish(s) /\ UNCHANGED object
                    /\ \A v \in Versions : RowWhole(ver'[v])
                    /\ \A v \in Versions : Exists(ver[v]) /\ ver[v].deleted =>
                          /\ Exists(ver'[v]) /\ ver'[v].deleted
                          /\ ver[v].dists \subseteq ver'[v].dists
            Reads(next) == /\ Continue(s, next) /\ next.todo = {}
                           /\ UNCHANGED <<rows, object>>
<1>3. ASSUME Ends
      PROVE  OffersInv'
  BY <1>2, <1>3, IdleRemovesNothing, PlainStep DEF Finish
<1>4. ASSUME NEW next, Reads(next)
      PROVE  OffersInv'
  BY <1>2, <1>4, PlainRead
<1>. HIDE DEF Ends
<1>5. ASSUME Finish(s), UNCHANGED <<ver, object>>
      PROVE  OffersInv'
  BY <1>1, <1>3, <1>5 DEF Ends
<1>6. ASSUME NEW meta \in SUBSET Checks, PatchCommit(s, meta)
      PROVE  OffersInv'
  <2>1. CASE UNCHANGED ver
    BY <1>5, <1>6, <2>1 DEF PatchCommit
  <2>2. CASE \E new : ver' = [ver EXCEPT ![sess[s].ver].meta = new]
    <3>1. \A v \in Versions :
              /\ ver'[v].urls = ver[v].urls /\ ver'[v].dists = ver[v].dists
              /\ ver'[v].deleted = ver[v].deleted /\ ver'[v].state = ver[v].state
      BY <1>1, <2>2 DEF VersionRow
    <3>2. Ends
      BY <1>1, <1>6, <3>1 DEF Ends, PatchCommit, RowWhole, Exists
    <3>3. QED
      BY <1>3, <3>2
  <2>3. QED
    BY <1>6, <2>1, <2>2 DEF PatchCommit
<1>7. CASE PublishFlush(s)
  <2>. DEFINE r == ver[sess[s].ver].base
              next == [sess[s] EXCEPT !.pc = "publish", !.res = r, !.loaded = current[r],
                                      !.flushed = {sess[s].ver}]
  <2>1. next.todo = {}
    BY <1>1, <1>2 DEF Session
  <2>2. Reads(next) \/ (Finish(s) /\ UNCHANGED <<ver, object>>)
    BY <1>7, <2>1 DEF PublishFlush, rows
  <2>3. QED
    BY <1>4, <1>5, <2>2
<1>8. CASE PublishCommit(s) \/ DeprecateCommit(s)
  <2>1. CASE UNCHANGED ver
    BY <1>5, <1>8, <2>1 DEF PublishCommit, DeprecateCommit
  <2>2. CASE \E new \in {"published", "deprecated"} :
                ver' = [ver EXCEPT ![sess[s].ver].state = new]
    <3>1. \A v \in Versions :
              /\ ver'[v].urls = ver[v].urls /\ ver'[v].dists = ver[v].dists
              /\ ver'[v].deleted = ver[v].deleted
              /\ ver'[v].state \in {ver[v].state, "published", "deprecated"}
      BY <1>1, <2>2 DEF VersionRow
    <3>2. Ends
      BY <1>1, <1>8, <3>1 DEF Ends, PublishCommit, DeprecateCommit, RowWhole, Exists,
                              LiveStates
    <3>3. QED
      BY <1>3, <3>2
  <2>3. QED
    BY <1>8, <2>1, <2>2 DEF PublishCommit, DeprecateCommit
<1>9. CASE NewVersionCurrent(s)
  <2>. DEFINE next == [sess[s] EXCEPT !.pc = "new_current"]
  <2>1. next.todo = {}
    BY <1>1, <1>2 DEF Session
  <2>2. Reads(next) \/ (Finish(s) /\ UNCHANGED <<ver, object>>)
    BY <1>9, <2>1 DEF NewVersionCurrent, rows
  <2>3. QED
    BY <1>4, <1>5, <2>2
<1>10. ASSUME NEW v \in Versions, NEW p \in Payloads, NewVersionInsert(s, v, p[1], p[2])
       PROVE  OffersInv'
  <2>. DEFINE row == DraftRow(sess[s].res, sess[s].user, sess[s].loaded, p[1], p[2])
  <2>1. /\ ver' = [ver EXCEPT ![v] = row] /\ Finish(s) /\ UNCHANGED object
        /\ ver[v].state = "unused" /\ RowWhole(row)
    BY <1>10, NewRowsAreWhole DEF NewVersionInsert
  <2>. HIDE DEF row
  <2>2. Ends
    BY <1>1, <2>1 DEF Ends, Exists, LiveStates
  <2>3. QED
    BY <1>3, <2>2
<1>11. CASE DeleteDraftCommit(s)
  <2>. DEFINE v == sess[s].ver
  <2>1. /\ ver' = [ver EXCEPT ![v] = EmptyRow("removed")] /\ Finish(s) /\ UNCHANGED object
        /\ ver[v].state = "draft" /\ v \in Versions
    BY <1>1, <1>11 DEF DeleteDraftCommit, StillSo, RecordOK, HoldsVersion
  <2>2. ~ver[v].deleted
    BY <1>1, <2>1 DEF RowWhole
  <2>3. Ends
    BY <1>1, <2>1, <2>2, NewRowsAreWhole DEF Ends
  <2>4. QED
    BY <1>3, <2>3
<1>12. CASE DeleteResourceSelect(s)
  <2>1. PICK seen : /\ Continue(s, [sess[s] EXCEPT !.pc = "tombstone", !.seen = seen])
                    /\ UNCHANGED <<rows, object>>
    BY <1>12 DEF DeleteResourceSelect
  <2>2. [sess[s] EXCEPT !.pc = "tombstone", !.seen = seen].todo = {}
    BY <1>1, <1>2 DEF Session
  <2>3. Reads([sess[s] EXCEPT !.pc = "tombstone", !.seen = seen])
    BY <2>1, <2>2
  <2>4. QED
    BY <1>4, <2>3
<1>13. CASE DeleteResourceLoad(s)
  <2>. DEFINE next == [sess[s] EXCEPT !.pc = "delete_resource", !.user = NoUser,
                                      !.loaded = current[sess[s].res]]
  <2>1. next.todo = {}
    BY <1>1, <1>2 DEF Session
  <2>2. Reads(next) \/ (Finish(s) /\ UNCHANGED <<ver, object>>)
    BY <1>13, <2>1 DEF DeleteResourceLoad, rows
  <2>3. QED
    BY <1>4, <1>5, <2>2
<1>14. QED
  BY <1>6, <1>7, <1>8, <1>9, <1>10, <1>11, <1>12, <1>13

\* The next version of a delete is withheld from now on.
LEMMA TombstoneFlushOffers ==
    ASSUME SerialInv, NEW s \in Sessions, NEW v \in Versions, TombstoneFlush(s, v),
           UNCHANGED rolledBack
    PROVE  OffersInv'
<1>. DEFINE next == [sess[s] EXCEPT !.ver = v, !.todo = ver[v].urls,
                                    !.flushed = @ \union {v}]
<1>1. /\ sess[s] \in Session
      /\ Listed(sess[s], ver, owner, current)
      /\ At(s, "tombstone") /\ v \in ToTombstone(s)
      /\ UNCHANGED <<rows, object>>
  BY DEF SerialInv, AloneInv, WellTyped, StillSo, TombstoneFlush, At
<1>2. Exists(ver[v])
  BY <1>1 DEF Listed, ToTombstone, Belonging
<1>3. Continue(s, next)
  BY <1>2 DEF TombstoneFlush
<1>4. /\ next.pc = "tombstone" /\ next.ver = v /\ next.todo = ver[v].urls
      /\ next.flushed = sess[s].flushed \union {v}
  BY <1>1 DEF Session, At
<1>. HIDE DEF next
<1>5. \A t \in Sessions : t = s /\ sess'[t] = next
  BY <1>3 DEF SerialInv, AloneInv, OneAtATime, WellTyped, Continue
<1>6. \A w \in Versions : Withheld(w) => Withheld(w)'
  <2>1. \A w \in Versions : Tombstoning(w) => Tombstoning(w)'
    BY <1>4, <1>5 DEF Tombstoning, At
  <2>2. QED
    BY <1>1, <2>1 DEF Withheld, rows
<1>7. GoneForAReason'
  BY <1>1, <1>6, ReasonsStand DEF SerialInv, OffersInv, rows
<1>8. \A t \in Sessions : Removing(sess[t])'
  BY <1>1, <1>4, <1>5 DEF Removing, rows
<1>9. QED
  BY <1>1, <1>7, <1>8 DEF SerialInv, OffersInv, RowsWhole, rows

\* An object goes, or its delete fails: its version is withheld already.
LEMMA DeleteObjectOffers ==
    ASSUME SerialInv, NEW s \in Sessions, NEW k \in Keys,
           DeleteObject(s, k) \/ DeleteObjectFails(s, k), UNCHANGED rolledBack
    PROVE  OffersInv'
<1>1. PICK cleared : Continue(s, [sess[s] EXCEPT !.todo = @ \ {k}, !.cleared = cleared])
  <2>1. CASE DeleteObject(s, k)
    BY <2>1 DEF DeleteObject
  <2>2. CASE DeleteObjectFails(s, k)
    <3>1. [sess[s] EXCEPT !.todo = @ \ {k}]
              = [sess[s] EXCEPT !.todo = @ \ {k}, !.cleared = sess[s].cleared]
      BY DEF SerialInv, AloneInv, WellTyped, Session
    <3>2. QED
      BY <2>2, <3>1 DEF DeleteObjectFails
  <2>3. QED
    BY <2>1, <2>2
<1>. DEFINE next == [sess[s] EXCEPT !.todo = @ \ {k}, !.cleared = cleared]
<1>2. /\ sess[s] \in Session /\ Removing(sess[s])
      /\ At(s, "tombstone") /\ k \in sess[s].todo
      /\ UNCHANGED rows
      /\ object' \in {object, [object EXCEPT ![k] = "deleted"]}
      /\ object \in [Keys -> {"none", "stored", "deleted"}]
      /\ \A v \in Versions : RowWhole(ver[v])
      /\ \A v \in sess[s].flushed : Exists(ver[v])
  BY DEF DeleteObject, DeleteObjectFails, SerialInv, AloneInv, WellTyped, OffersInv,
         RowsWhole, LockedRowsExist
<1>3. /\ next.pc = "tombstone" /\ next.ver = sess[s].ver /\ next.flushed = sess[s].flushed
      /\ next.todo = sess[s].todo \ {k}
  BY <1>2 DEF Session, At
<1>. DEFINE w == sess[s].ver
<1>4. w \in Versions /\ w \in sess[s].flushed /\ k \in ver[w].dists /\ Exists(ver[w])
  BY <1>2 DEF Removing, Session, RowWhole
<1>. HIDE DEF next
<1>5. \A t \in Sessions : t = s /\ sess'[t] = next
  BY <1>1 DEF next, SerialInv, AloneInv, OneAtATime, WellTyped, Continue
<1>6. \A v \in Versions : Withheld(v) => Withheld(v)'
  <2>1. \A v \in Versions : Tombstoning(v) => Tombstoning(v)'
    BY <1>3, <1>5 DEF Tombstoning, At
  <2>2. QED
    BY <1>2, <2>1 DEF Withheld, rows
<1>7. Withheld(w)
  BY <1>2, <1>4 DEF Withheld, Tombstoning
<1>8. ASSUME NEW key \in Keys, object'[key] = "deleted"
      PROVE  \/ key \in rolledBack'
             \/ \E v \in Versions : key \in ver'[v].dists /\ Withheld(v)'
  <2>1. key = k \/ object[key] = "deleted"
    BY <1>2, <1>8
  <2>2. \/ key \in rolledBack
        \/ \E v \in Versions : key \in ver[v].dists /\ Withheld(v)
    BY <1>4, <1>7, <2>1 DEF SerialInv, OffersInv, GoneForAReason
  <2>3. QED
    BY <1>2, <1>6, <2>2 DEF rows
<1>9. \A t \in Sessions : Removing(sess[t])'
  BY <1>2, <1>3, <1>5 DEF Removing, rows
<1>10. QED
  BY <1>2, <1>8, <1>9 DEF OffersInv, GoneForAReason, RowsWhole, rows

\* The commit of a tombstone: what was being tombstoned is a tombstone.
LEMMA TombstoneCommitOffers ==
    ASSUME SerialInv, NEW s \in Sessions, TombstoneCommit(s), UNCHANGED rolledBack
    PROVE  OffersInv'
<1>. DEFINE row(v) == [ver[v] EXCEPT
                         !.deleted = TRUE,
                         !.state = IF sess[s].seen[v] = "deprecated" THEN @ ELSE "deprecated",
                         !.urls = {k \in @ : <<v, k>> \notin sess[s].cleared}]
<1>1. /\ Listed(sess[s], ver, owner, current)
      /\ At(s, "tombstone")
      /\ ToTombstone(s) = sess[s].flushed
      /\ ver' = [v \in Versions |-> IF v \in sess[s].flushed THEN row(v) ELSE ver[v]]
      /\ Finish(s) /\ UNCHANGED object
  BY DEF TombstoneCommit, SerialInv, AloneInv, StillSo, At
<1>2. /\ ver \in [Versions -> VersionRow]
      /\ \A v \in Versions : RowWhole(ver[v])
      /\ \A v \in sess[s].flushed : Exists(ver[v])
      /\ \A t \in Sessions : t = s /\ sess'[t] = Idle
  BY <1>1 DEF SerialInv, AloneInv, OneAtATime, WellTyped, ProperRow, OffersInv, RowsWhole,
              LockedRowsExist, Finish, Continue
<1>3. ASSUME NEW v \in sess[s].flushed
      PROVE  /\ v \in Versions
             /\ ver'[v].deleted /\ ver'[v].state = "deprecated"
             /\ ver'[v].dists = ver[v].dists /\ ver'[v].urls \subseteq ver[v].urls
  <2>1. v \in Versions /\ sess[s].seen[v] = ver[v].state
    BY <1>1, <1>3 DEF Listed, ToTombstone
  <2>2. row(v).state = "deprecated"
    BY <1>2, <2>1 DEF VersionRow
  <2>3. QED
    BY <1>1, <1>2, <2>1, <2>2 DEF VersionRow
<1>4. \A v \in Versions : v \notin sess[s].flushed => ver'[v] = ver[v]
  BY <1>1
<1>5. ASSUME NEW v \in Versions
      PROVE  /\ RowWhole(ver'[v])
             /\ Withheld(v) => Withheld(v)' /\ ver[v].dists \subseteq ver'[v].dists
  <2>1. CASE v \in sess[s].flushed
    <3>1. ver'[v].urls \subseteq ver'[v].dists
      BY <1>2, <1>3, <2>1 DEF RowWhole
    <3>2. QED
      BY <1>3, <2>1, <3>1 DEF RowWhole, Withheld, Exists, LiveStates
  <2>2. CASE v \notin sess[s].flushed
    <3>1. ~Tombstoning(v)
      BY <1>2, <2>2 DEF Tombstoning
    <3>2. QED
      BY <1>2, <1>4, <2>2, <3>1 DEF Withheld
  <2>3. QED
    BY <2>1, <2>2
<1>6. GoneForAReason'
  BY <1>1, <1>5, ReasonsStand DEF SerialInv, OffersInv
<1>7. \A t \in Sessions : Removing(sess[t])'
  BY <1>2, IdleRemovesNothing DEF Removing
<1>8. QED
  BY <1>5, <1>6, <1>7 DEF OffersInv, RowsWhole

\* A rollback: the objects that went are on record, since the rows of versions
\* that were no tombstones still name them.
LEMMA AbortOffers ==
    ASSUME SerialInv, NEW s \in Sessions, Abort(s),
           rolledBack' = rolledBack \union Removed(s)
    PROVE  OffersInv'
<1>1. Finish(s) /\ UNCHANGED <<rows, object>>
  BY DEF Abort
<1>2. /\ \A t \in Sessions : t = s /\ sess'[t] = Idle
      /\ \A v \in Versions : RowWhole(ver[v])
  BY <1>1 DEF SerialInv, AloneInv, OneAtATime, WellTyped, Finish, Continue, OffersInv,
              RowsWhole
<1>3. ASSUME NEW k \in Keys, object[k] = "deleted", k \notin rolledBack'
      PROVE  \E v \in Versions : k \in ver'[v].dists /\ Withheld(v)'
  <2>1. PICK v \in Versions : k \in ver[v].dists /\ Withheld(v)
    BY <1>3 DEF SerialInv, OffersInv, GoneForAReason
  <2>2. CASE ver[v].deleted
    BY <1>1, <2>1, <2>2 DEF Withheld, rows
  <2>3. CASE ~ver[v].deleted
    <3>1. v \in sess[s].flushed
      BY <1>2, <2>1, <2>3 DEF Withheld, Tombstoning
    <3>2. k \in ver[v].urls
      BY <1>2, <2>1, <2>3 DEF RowWhole
    <3>3. k \in Removed(s)
      BY <1>3, <3>1, <3>2 DEF Removed
    <3>4. QED
      BY <1>3, <3>3
  <2>4. QED
    BY <2>2, <2>3
<1>4. GoneForAReason'
  BY <1>1, <1>3 DEF GoneForAReason
<1>5. \A t \in Sessions : Removing(sess[t])'
  BY <1>2, IdleRemovesNothing DEF Removing
<1>6. QED
  BY <1>1, <1>2, <1>4, <1>5 DEF OffersInv, RowsWhole, rows

\* Uploads and new resources.
LEMMA ArrivalOffers ==
    ASSUME SerialInv, UNCHANGED <<sess, rolledBack>>,
           \/ \E k \in Keys : Upload(k)
           \/ \E u \in Users, r \in Resources, v \in Versions, p \in Payloads :
                 CreateResource(u, r, v, p[1], p[2])
    PROVE  OffersInv'
<1>1. \A v \in Versions : Tombstoning(v)' <=> Tombstoning(v)
  BY DEF Tombstoning, At
<1>2. /\ \A v \in Versions : RowWhole(ver[v])
      /\ ver \in [Versions -> ProperRow]
      /\ object \in [Keys -> {"none", "stored", "deleted"}]
      /\ \A s \in Sessions : Removing(sess[s])
      /\ \A s \in Sessions : \A v \in sess[s].flushed : Exists(ver[v])
  BY DEF SerialInv, AloneInv, WellTyped, LockedRowsExist, OffersInv, RowsWhole
<1>3. ASSUME NEW k \in Keys, Upload(k)
      PROVE  OffersInv'
  <2>1. UNCHANGED rows /\ \A key \in Keys : object'[key] = "deleted" => object[key] = "deleted"
    BY <1>2, <1>3 DEF Upload
  <2>2. \A v \in Versions : Withheld(v)' <=> Withheld(v)
    BY <1>1, <2>1 DEF Withheld, rows
  <2>3. GoneForAReason'
    BY <2>1, <2>2, ReasonsStand DEF SerialInv, OffersInv, rows
  <2>4. QED
    BY <1>2, <2>1, <2>3 DEF OffersInv, RowsWhole, Removing, rows
<1>4. ASSUME NEW u \in Users, NEW r \in Resources, NEW v \in Versions, NEW p \in Payloads,
             CreateResource(u, r, v, p[1], p[2])
      PROVE  OffersInv'
  <2>. DEFINE row == DraftRow(r, u, NoVersion, p[1], p[2])
  <2>1. /\ ver' = [ver EXCEPT ![v] = row] /\ UNCHANGED object
        /\ ver[v].state = "unused" /\ RowWhole(row)
    BY <1>4, NewRowsAreWhole DEF CreateResource
  <2>. HIDE DEF row
  <2>2. /\ \A w \in Versions : RowWhole(ver'[w])
        /\ \A w \in Versions : Exists(ver[w]) => ver'[w] = ver[w]
    BY <1>2, <2>1 DEF Exists, LiveStates
  <2>3. \A w \in Versions : Withheld(w) => Withheld(w)' /\ ver[w].dists \subseteq ver'[w].dists
    BY <1>1, <2>2 DEF Withheld
  <2>4. GoneForAReason'
    BY <2>1, <2>3, ReasonsStand DEF SerialInv, OffersInv
  <2>5. \A s \in Sessions : Removing(sess[s])'
    <3>1. ASSUME NEW s \in Sessions, sess[s].todo # {}
          PROVE  sess[s].ver \in sess[s].flushed /\ ver'[sess[s].ver] = ver[sess[s].ver]
      BY <1>2, <2>2, <3>1 DEF Removing, SerialInv, AloneInv, WellTyped, Session
    <3>2. QED
      BY <1>2, <3>1 DEF Removing
  <2>6. QED
    BY <2>2, <2>4, <2>5 DEF OffersInv, RowsWhole
<1>5. QED
  BY <1>3, <1>4

LEMMA NextSerial == SerialInv /\ [HistoryNext]_historyVars => SerialInv'
<1>. SUFFICES ASSUME SerialInv, [HistoryNext]_historyVars
              PROVE  SerialInv'
  OBVIOUS
<1>1. [Next]_vars
  BY DEF HistoryNext, Next, historyVars
<1>2. AloneInv' /\ ObjectsInv'
  BY <1>1, NextAlone, NextObjects DEF SerialInv, AloneInv
<1>3. ASSUME UNCHANGED historyVars
      PROVE  OffersInv'
  BY <1>3 DEF historyVars, vars, SerialInv, OffersInv, GoneForAReason, RowsWhole, Removing,
              Withheld, Tombstoning, At
<1>4. ASSUME NEW s \in Sessions, Abort(s), rolledBack' = rolledBack \union Removed(s)
      PROVE  OffersInv'
  BY <1>4, AbortOffers
<1>5. ASSUME NextUndisturbed, UNCHANGED rolledBack
      PROVE  OffersInv'
  <2>1. ASSUME NEW s \in Sessions, NEW u \in Users, Begin(s, u)
        PROVE  OffersInv'
    BY <1>5, <2>1, BeginOffers
  <2>2. ASSUME NEW s \in Sessions, Proceed(s)
        PROVE  OffersInv'
    BY <1>5, <2>2, ProceedOffers, TombstoneFlushOffers, DeleteObjectOffers,
       TombstoneCommitOffers DEF Proceed
  <2>3. ASSUME \/ \E k \in Keys : Upload(k)
               \/ \E u \in Users, r \in Resources, v \in Versions, p \in Payloads :
                     CreateResource(u, r, v, p[1], p[2])
        PROVE  OffersInv'
    BY <1>5, <2>3, ArrivalOffers DEF Upload, CreateResource
  <2>4. QED
    BY <1>5, <2>1, <2>2, <2>3 DEF NextUndisturbed
<1>6. QED
  BY <1>2, <1>3, <1>4, <1>5 DEF HistoryNext, SerialInv

\* With one request at a time, what a version offers for download is in the
\* bucket: an object goes only for a version that is being or was tombstoned,
\* whatever fails in _tombstone_versions, unless its transaction is rolled back.
THEOREM OfferedAreStored == OneAtATime /\ HistorySpec => []OfferedObjectsStored
<1>1. SerialInv => OfferedObjectsStored
  <2>1. ASSUME SerialInv, NEW v \in Versions, Offered(v), NEW k \in ver[v].urls,
               object[k] # "stored", k \notin rolledBack
        PROVE  \E w \in Versions \ {v} : k \in ver[w].dists /\ ~Offered(w)
    <3>1. k \in Keys /\ k \in ver[v].dists
      BY <2>1 DEF SerialInv, AloneInv, WellTyped, ProperRow, VersionRow, OffersInv,
                  RowsWhole, RowWhole
    <3>2. object[k] = "deleted"
      BY <2>1, <3>1 DEF SerialInv, ObjectsInv, RegisteredIsUploaded, AloneInv, WellTyped
    <3>3. PICK w \in Versions : k \in ver[w].dists /\ Withheld(w)
      BY <2>1, <3>1, <3>2 DEF SerialInv, OffersInv, GoneForAReason
    <3>4. ~Offered(w)
      BY <3>3 DEF Withheld, Offered
    <3>5. QED
      BY <2>1, <3>3, <3>4
  <2>2. QED
    BY <2>1 DEF OfferedObjectsStored
<1>2. QED
  BY <1>1, InitSerial, NextSerial, PTL DEF HistorySpec

\* A row that takes effect at one instant never loses its mark.
LEMMA AtomicStepKeepsTombstones ==
    ASSUME SerialInv, Atomically, NEW v \in Versions, ver[v].deleted
    PROVE  ver'[v].deleted
<1>1. /\ ver \in [Versions -> VersionRow]
      /\ ver[v].state \notin {"unused", "draft"}
  BY DEF SerialInv, AloneInv, WellTyped, ProperRow, OffersInv, RowsWhole, RowWhole
<1>2. ASSUME NEW u \in Users, NEW r \in Resources, NEW w \in Versions,
             NEW meta, NEW dists,
             \/ Atomic!CreateResource(u, r, w, meta, dists)
             \/ Atomic!NewVersion(u, r, w, meta, dists)
      PROVE  ver'[v].deleted
  BY <1>1, <1>2 DEF Atomic!CreateResource, Atomic!NewVersion, VersionRow
<1>3. ASSUME NEW u \in Users, NEW w \in Versions, NEW meta \in SUBSET Checks,
             \/ Atomic!Patch(u, w, meta) \/ Atomic!Publish(u, w) \/ Atomic!Deprecate(u, w)
      PROVE  ver'[v].deleted
  BY <1>1, <1>3 DEF Atomic!Patch, Atomic!Publish, Atomic!Deprecate, VersionRow
<1>4. ASSUME NEW u \in Users, NEW w \in Versions, Atomic!DeleteDraft(u, w)
      PROVE  ver'[v].deleted
  BY <1>1, <1>4 DEF Atomic!DeleteDraft
<1>5. ASSUME NEW vs, NEW kept, ver' = Atomic!Tombstoned(vs, kept)
      PROVE  ver'[v].deleted
  BY <1>1, <1>5 DEF Atomic!Tombstoned, VersionRow
<1>6. QED
  BY <1>2, <1>3, <1>4, <1>5 DEF Atomically, Atomic!Next, Atomic!DeleteVersion,
     Atomic!DeleteResource

\* "Metadata tombstones remain" (docs/index.html): with one request at a time
\* delete_version meets no row that was marked deleted since it was loaded.
THEOREM TombstonesStay == OneAtATime /\ HistorySpec => TombstonesRemain
<1>1. SerialInv /\ [HistoryNext]_historyVars =>
          [\A v \in Versions : ver[v].deleted => ver'[v].deleted]_vars
  <2>. SUFFICES ASSUME SerialInv, [HistoryNext]_historyVars,
                       NEW v \in Versions, ver[v].deleted
                PROVE  ver'[v].deleted
    OBVIOUS
  <2>1. [Next]_vars
    BY DEF HistoryNext, Next, historyVars
  <2>2. Atomically
    BY <2>1, NextAlone DEF SerialInv
  <2>3. QED
    BY <2>2, AtomicStepKeepsTombstones
<1>2. QED
  BY <1>1, InitSerial, NextSerial, PTL DEF HistorySpec, TombstonesRemain
=============================================================================
