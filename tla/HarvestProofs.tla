--------------------------- MODULE HarvestProofs ---------------------------
(***************************************************************************)
(* Theorems about Harvest, for any number of versions, any limit on the    *)
(* records of an answer and any bound of the clock.                        *)
(***************************************************************************)
EXTENDS Harvest, TLAPS

USE LimitAssumption, MaxTimeAssumption

-----------------------------------------------------------------------------
(* The inductive invariant, one part per hazard.                           *)

Loaded(h, v) == <<h, v>> \in loaded
Editing(v) == Loaded("patch", v) \/ Loaded("delete", v)
Marked(v) == v \in crossed \union passed \union beyond
Live(v) == Harvested(v) /\ ~row[v].deleted

\* A publish holds the row it has flushed.  It was stamped after the last
\* answer, or a list was in flight meanwhile.
StampOK(v) ==
    Locked(v) =>
        /\ Loaded("publish", v)
        /\ stamp[v] >= since \/ v \in passed
        /\ list.open => v \in passed

\* Nobody edits a version that was published, unless he loaded it before.
EditsOK(v) ==
    /\ Loaded("publish", v) /\ Editing(v) => v \in crossed
    /\ row[v].state \in Issued /\ ~row[v].deleted /\ Editing(v) => v \in crossed

\* What the portal shows or is about to show.
ShownOK(v) ==
    /\ v \in records \union list.live => v \in crossed \/ (Viewable(v) /\ ~Editing(v))
    /\ v \in list.deleted => row[v].deleted
    /\ row[v].state = "unused" => ~row[v].deleted /\ v \notin list.deleted

\* What the portal will be told: by the next answer, and by the one under way.
ToldOK(v) ==
    Live(v) =>
        /\ v \in records \/ row[v].issued >= since \/ Marked(v)
        /\ list.open => v \in records \union list.live \/ Marked(v)

VersionOK(v) == StampOK(v) /\ EditsOK(v) /\ ShownOK(v) /\ ToldOK(v)

HarvestInv ==
    /\ TypeOK
    /\ since <= now
    /\ list.open \/ list = NoList
    /\ \A v \in Versions : VersionOK(v)

LEMMA InvIsEnough == HarvestInv => HarvestedIsViewable /\ NothingIsMissed
BY DEF HarvestInv, TypeOK, VersionOK, ShownOK, ToldOK, Live, Marked,
       HarvestedIsViewable, NothingIsMissed

LEMMA InitHarvest == Init => HarvestInv
<1>. SUFFICES ASSUME Init
              PROVE  HarvestInv
  OBVIOUS
<1>1. TypeOK
  BY DEF Init, TypeOK, Row, Instants, Issued, NoList
<1>2. since <= now /\ list = NoList
  BY DEF Init
<1>3. ASSUME NEW v \in Versions
      PROVE  VersionOK(v)
  BY DEF Init, VersionOK, StampOK, EditsOK, ShownOK, ToldOK, Locked, Loaded, Editing,
         Live, Harvested, Issued, NoList
<1>4. QED
  BY <1>1, <1>2, <1>3 DEF HarvestInv

-----------------------------------------------------------------------------
(* The catalogue.                                                          *)

\* A step of the catalogue touches one version.
LEMMA OneVersion ==
    ASSUME HarvestInv, NEW v \in Versions, TypeOK',
           UNCHANGED <<now, list, records, since>>,
           \A w \in Versions \ {v} :
              /\ row'[w] = row[w] /\ stamp'[w] = stamp[w]
              /\ \A h \in Handlers : <<h, w>> \in loaded' <=> <<h, w>> \in loaded
              /\ w \in crossed => w \in crossed'
              /\ w \in passed => w \in passed'
              /\ w \in beyond => w \in beyond',
           VersionOK(v)'
    PROVE  HarvestInv'
<1>1. ASSUME NEW w \in Versions \ {v}
      PROVE  VersionOK(w)'
  <2>1. VersionOK(w)
    BY DEF HarvestInv
  <2>2. \A h \in Handlers : Loaded(h, w)' <=> Loaded(h, w)
    BY DEF Loaded
  <2>3. (Editing(w)' <=> Editing(w)) /\ (Loaded("publish", w)' <=> Loaded("publish", w))
    BY <2>2 DEF Editing, Handlers
  <2>4. /\ Locked(w)' <=> Locked(w)
        /\ Live(w)' <=> Live(w)
        /\ Viewable(w)' <=> Viewable(w)
        /\ Marked(w) => Marked(w)'
    BY DEF Locked, Live, Harvested, Viewable, Exists, Marked
  <2>5. StampOK(w)' /\ EditsOK(w)'
    BY <2>1, <2>3, <2>4 DEF VersionOK, StampOK, EditsOK
  <2>6. ShownOK(w)' /\ ToldOK(w)'
    BY <2>1, <2>3, <2>4 DEF VersionOK, ShownOK, ToldOK
  <2>7. QED
    BY <2>5, <2>6 DEF VersionOK
<1>2. QED
  BY <1>1 DEF HarvestInv

\* The types of what the steps use.
LEMMA Types ==
    ASSUME HarvestInv, NEW v \in Versions
    PROVE  /\ row \in [Versions -> Row] /\ row[v] \in Row
           /\ stamp \in [Versions -> Instants] /\ loaded \subseteq Handlers \X Versions
           /\ now \in 1 .. MaxTime /\ now \in Instants /\ since \in Instants
           /\ since <= now /\ VersionOK(v)
BY DEF HarvestInv, TypeOK, Instants

LEMMA CreateKeeps ==
    ASSUME HarvestInv, NEW v \in Versions, NEW private \in BOOLEAN, Create(v, private)
    PROVE  HarvestInv'
<1>1. /\ row' = [row EXCEPT ![v] = [state |-> "draft", private |-> private,
                                    deleted |-> FALSE, issued |-> now]]
      /\ row[v].state = "unused"
      /\ UNCHANGED <<now, loaded, stamp, portal, history>>
  BY DEF Create
<1>2. TypeOK'
  BY <1>1, Types DEF HarvestInv, TypeOK, Row, portal, history
<1>3. VersionOK(v)'
  BY <1>1, Types
     DEF VersionOK, StampOK, EditsOK, ShownOK, ToldOK, Locked, Loaded, Editing, Live,
         Harvested, Viewable, Exists, Issued, portal, history
<1>4. QED
  BY <1>1, <1>2, <1>3, Types, OneVersion DEF portal, history

LEMMA LoadKeeps ==
    ASSUME HarvestInv, NEW v \in Versions, NEW h \in Handlers, Load(h, v)
    PROVE  HarvestInv'
<1>1. /\ row[v].state = "draft"
      /\ loaded' = loaded \union {<<h, v>>}
      /\ crossed \subseteq crossed' /\ crossed' \subseteq crossed \union {v}
      /\ UNCHANGED <<now, row, stamp, portal, passed, beyond>>
  BY DEF Load
<1>2. TypeOK'
  BY <1>1, Types DEF HarvestInv, TypeOK, portal
<1>3. EditsOK(v)'
  <2>1. ASSUME <<"publish", v>> \in loaded',
               <<"patch", v>> \in loaded' \/ <<"delete", v>> \in loaded'
        PROVE  v \in crossed'
    <3>1. CASE <<"publish", v>> \in loaded /\ (<<"patch", v>> \in loaded \/ <<"delete", v>> \in loaded)
      BY <3>1, <1>1, Types DEF VersionOK, EditsOK, Loaded, Editing
    <3>2. CASE h = "publish" /\ (<<"patch", v>> \in loaded \/ <<"delete", v>> \in loaded)
      BY <3>2 DEF Load, HoldersOf, Handlers
    <3>3. CASE h # "publish" /\ <<"publish", v>> \in loaded
      BY <3>3 DEF Load, HoldersOf, Handlers
    <3>4. QED
      BY <2>1, <1>1, <3>1, <3>2, <3>3
  <2>2. QED
    BY <2>1, <1>1 DEF EditsOK, Loaded, Editing, Issued
<1>4. StampOK(v)' /\ ShownOK(v)' /\ ToldOK(v)'
  BY <1>1, Types
     DEF VersionOK, StampOK, ShownOK, ToldOK, Locked, Loaded, Editing, Live,
         Harvested, Viewable, Exists, Issued, portal
<1>5. QED
  BY <1>1, <1>2, <1>3, <1>4, OneVersion DEF VersionOK, portal

\* A handler lets go of the version, having written its row or not.
LEMMA EndKeeps ==
    ASSUME HarvestInv, NEW v \in Versions, NEW h \in Handlers, NEW next \in Row,
           <<h, v>> \in loaded, loaded' = loaded \ {<<h, v>>},
           row' = [row EXCEPT ![v] = next],
           stamp' \in [Versions -> Instants], \A w \in Versions \ {v} : stamp'[w] = stamp[w],
           UNCHANGED <<now, portal, history>>,
           VersionOK(v)'
    PROVE  HarvestInv'
<1>1. TypeOK'
  BY Types DEF HarvestInv, TypeOK, portal, history
<1>2. QED
  BY <1>1, Types, OneVersion DEF portal, history

LEMMA PatchCommitKeeps ==
    ASSUME HarvestInv, NEW v \in Versions, NEW private \in BOOLEAN, PatchCommit(v, private)
    PROVE  HarvestInv'
<1>. DEFINE next == IF Exists(v) THEN [row[v] EXCEPT !.private = private] ELSE row[v]
<1>1. /\ <<"patch", v>> \in loaded /\ ~Locked(v)
      /\ loaded' = loaded \ {<<"patch", v>>}
      /\ row' = [row EXCEPT ![v] = next]
      /\ UNCHANGED <<now, stamp, portal, history>>
  BY Types DEF PatchCommit
<1>2. /\ next \in Row /\ row'[v] = next
      /\ next.state = row[v].state /\ next.deleted = row[v].deleted
      /\ next.issued = row[v].issued
      /\ ~Exists(v) => next.private = row[v].private
  BY <1>1, Types DEF Row
<1>. HIDE DEF next
<1>3. row[v].state \in Issued /\ ~row[v].deleted => v \in crossed
  BY <1>1, Types DEF VersionOK, EditsOK, Loaded, Editing
<1>4. v \in records \union list.live => v \in crossed
  BY <1>1, Types DEF VersionOK, ShownOK, Loaded, Editing
<1>5. VersionOK(v)'
  <2>1. StampOK(v)' /\ EditsOK(v)'
    BY <1>1, <1>2, <1>3, Types
       DEF VersionOK, StampOK, EditsOK, Locked, Loaded, Editing, portal, history
  <2>2. ShownOK(v)' /\ ToldOK(v)'
    BY <1>1, <1>2, <1>3, <1>4, Types
       DEF VersionOK, ShownOK, ToldOK, Live, Harvested, Marked, portal, history
  <2>3. QED
    BY <2>1, <2>2 DEF VersionOK
<1>6. QED
  BY <1>1, <1>2, <1>5, Types, EndKeeps DEF Handlers

LEMMA PublishStampKeeps ==
    ASSUME HarvestInv, NEW v \in Versions, PublishStamp(v)
    PROVE  HarvestInv'
<1>1. /\ <<"publish", v>> \in loaded
      /\ stamp' = [stamp EXCEPT ![v] = now]
      /\ passed \subseteq passed' /\ passed' \subseteq passed \union {v}
      /\ list.open => v \in passed'
      /\ UNCHANGED <<now, row, loaded, portal, crossed, beyond>>
  BY DEF PublishStamp
<1>2. TypeOK'
  BY <1>1, Types DEF HarvestInv, TypeOK, portal
<1>3. StampOK(v)'
  BY <1>1, Types DEF StampOK, Locked, Loaded, portal
<1>4. EditsOK(v)' /\ ShownOK(v)' /\ ToldOK(v)'
  BY <1>1, Types
     DEF VersionOK, EditsOK, ShownOK, ToldOK, Loaded, Editing, Live, Harvested,
         Viewable, Exists, Marked, portal
<1>5. QED
  BY <1>1, <1>2, <1>3, <1>4, Types, OneVersion DEF VersionOK, portal

LEMMA PublishCommitKeeps ==
    ASSUME HarvestInv, NEW v \in Versions, PublishCommit(v)
    PROVE  HarvestInv'
<1>. DEFINE next == [row[v] EXCEPT !.state = "published", !.issued = stamp[v]]
<1>1. /\ Locked(v) /\ <<"publish", v>> \in loaded
      /\ stamp[v] >= since \/ v \in passed
      /\ list.open => v \in passed
      /\ loaded' = loaded \ {<<"publish", v>>}
      /\ row' = [row EXCEPT ![v] = next]
      /\ stamp' = [stamp EXCEPT ![v] = 0]
      /\ UNCHANGED <<now, portal, history>>
  BY Types DEF PublishCommit, VersionOK, StampOK, Loaded
<1>2. /\ next \in Row /\ row'[v] = next /\ next.state = "published"
      /\ next.issued = stamp[v] /\ next.private = row[v].private
      /\ next.deleted = row[v].deleted
      /\ stamp' \in [Versions -> Instants] /\ stamp'[v] = 0
      /\ \A w \in Versions \ {v} : stamp'[w] = stamp[w]
  <2>1. stamp[v] \in Instants /\ row[v] \in Row /\ 0 \in Instants
    BY Types DEF Instants
  <2>2. next \in Row
    BY <2>1 DEF Row, Issued
  <2>3. row'[v] = next
    BY <1>1, Types
  <2>4. next.deleted = row[v].deleted /\ next.private = row[v].private
    BY <2>1 DEF Row
  <2>5. /\ stamp' \in [Versions -> Instants] /\ stamp'[v] = 0
        /\ \A w \in Versions \ {v} : stamp'[w] = stamp[w]
    BY <1>1, <2>1, Types
  <2>6. next.state = "published" /\ next.issued = stamp[v]
    BY <2>1 DEF Row
  <2>7. QED
    BY <2>2, <2>3, <2>4, <2>5, <2>6
<1>. HIDE DEF next
<1>3. Editing(v) => v \in crossed
  BY <1>1, Types DEF VersionOK, EditsOK, Loaded
<1>4. Editing(v)' <=> Editing(v)
  BY <1>1 DEF Editing, Loaded
<1>5. VersionOK(v)'
  <2>1. StampOK(v)' /\ EditsOK(v)'
    BY <1>1, <1>2, <1>3, <1>4 DEF StampOK, EditsOK, Locked, history
  <2>2. ShownOK(v)'
    BY <1>1, <1>2, <1>3, <1>4, Types
       DEF VersionOK, ShownOK, Viewable, Exists, portal, history
  <2>3. ToldOK(v)'
    BY <1>1, <1>2 DEF ToldOK, Marked, portal, history
  <2>4. QED
    BY <2>1, <2>2, <2>3 DEF VersionOK
<1>6. QED
  BY <1>1, <1>2, <1>5, EndKeeps DEF Handlers

LEMMA DeleteDraftCommitKeeps ==
    ASSUME HarvestInv, NEW v \in Versions, DeleteDraftCommit(v)
    PROVE  HarvestInv'
<1>. DEFINE next == [row[v] EXCEPT !.state = "removed"]
<1>1. /\ <<"delete", v>> \in loaded /\ ~Locked(v)
      /\ loaded' = loaded \ {<<"delete", v>>}
      /\ row' = [row EXCEPT ![v] = next]
      /\ UNCHANGED <<now, stamp, portal, history>>
  BY DEF DeleteDraftCommit
<1>2. /\ next \in Row /\ row'[v] = next /\ next.state = "removed"
      /\ next.deleted = row[v].deleted
  BY <1>1, Types DEF Row
<1>. HIDE DEF next
<1>3. v \in records \union list.live => v \in crossed
  BY <1>1, Types DEF VersionOK, ShownOK, Loaded, Editing
<1>4. VersionOK(v)'
  BY <1>1, <1>2, <1>3, Types
     DEF VersionOK, StampOK, EditsOK, ShownOK, ToldOK, Locked, Loaded, Editing, Live,
         Harvested, Issued, portal, history
<1>5. QED
  BY <1>1, <1>2, <1>4, Types, EndKeeps DEF Handlers

LEMMA HandlerFailsKeeps ==
    ASSUME HarvestInv, NEW v \in Versions, NEW h \in Handlers, HandlerFails(h, v)
    PROVE  HarvestInv'
<1>1. /\ <<h, v>> \in loaded /\ loaded' = loaded \ {<<h, v>>}
      /\ stamp' = IF h = "publish" THEN [stamp EXCEPT ![v] = 0] ELSE stamp
      /\ row' = [row EXCEPT ![v] = row[v]]
      /\ UNCHANGED <<now, row, portal, history>>
  BY Types DEF HandlerFails
<1>2. /\ stamp' \in [Versions -> Instants]
      /\ \A w \in Versions \ {v} : stamp'[w] = stamp[w]
      /\ h = "publish" => stamp'[v] = 0
      /\ h # "publish" => stamp'[v] = stamp[v]
  BY <1>1, Types DEF Instants
<1>3. \A g \in Handlers : Loaded(g, v)' => Loaded(g, v)
  BY <1>1 DEF Loaded
<1>4. StampOK(v)'
  <2>1. h # "publish" => (Loaded("publish", v)' <=> Loaded("publish", v))
    BY <1>1 DEF Loaded
  <2>2. QED
    BY <1>1, <1>2, <2>1, Types DEF VersionOK, StampOK, Locked, portal, history
<1>5. EditsOK(v)' /\ ShownOK(v)' /\ ToldOK(v)'
  <2>1. Editing(v)' => Editing(v)
    BY <1>3 DEF Editing, Handlers
  <2>2. QED
    BY <1>1, <1>3, <2>1, Types
       DEF VersionOK, EditsOK, ShownOK, ToldOK, Live, Harvested, Viewable, Exists,
           Marked, Handlers, portal, history
<1>6. QED
  BY <1>1, <1>2, <1>4, <1>5, Types, EndKeeps DEF VersionOK

LEMMA DeprecateKeeps ==
    ASSUME HarvestInv, NEW v \in Versions, Deprecate(v) \/ Tombstone(v)
    PROVE  HarvestInv'
<1>1. PICK next \in Row :
          /\ row' = [row EXCEPT ![v] = next] /\ row'[v] = next
          /\ Exists(v) /\ next.state = "deprecated" /\ next.private = row[v].private
          /\ next.issued = row[v].issued
          /\ \/ next.deleted
             \/ next.deleted = row[v].deleted /\ row[v].state \in Issued
  <2>1. CASE Deprecate(v)
    <3>. DEFINE next == [row[v] EXCEPT !.state = "deprecated"]
    <3>1. next \in Row /\ row' = [row EXCEPT ![v] = next]
      BY <2>1, Types DEF Deprecate, Row, Issued
    <3>2. QED
      BY <2>1, <3>1, Types DEF Deprecate, Row, Issued, Exists
  <2>2. CASE Tombstone(v)
    <3>. DEFINE next == [row[v] EXCEPT !.state = "deprecated", !.deleted = TRUE]
    <3>1. next \in Row /\ row' = [row EXCEPT ![v] = next]
      BY <2>2, Types DEF Tombstone, Row, Issued
    <3>2. QED
      BY <2>2, <3>1, Types DEF Tombstone, Row
  <2>3. QED
    BY <2>1, <2>2
<1>2. UNCHANGED <<now, loaded, stamp, portal, history>> /\ ~Locked(v)
  BY DEF Deprecate, Tombstone
<1>3. TypeOK'
  BY <1>1, <1>2, Types DEF HarvestInv, TypeOK, portal, history
<1>4. (Editing(v)' <=> Editing(v)) /\ (Loaded("publish", v)' <=> Loaded("publish", v))
  BY <1>2 DEF Editing, Loaded
<1>5. VersionOK(v)'
  <2>1. StampOK(v)' /\ EditsOK(v)'
    BY <1>1, <1>2, <1>4, Types
       DEF VersionOK, StampOK, EditsOK, Locked, portal, history
  <2>2. ShownOK(v)'
    BY <1>1, <1>2, <1>4, Types
       DEF VersionOK, ShownOK, Viewable, Exists, portal, history
  <2>3. ToldOK(v)'
    BY <1>1, <1>2, Types
       DEF VersionOK, ToldOK, Live, Harvested, Marked, portal, history
  <2>4. QED
    BY <2>1, <2>2, <2>3 DEF VersionOK
<1>6. QED
  BY <1>1, <1>2, <1>3, <1>5, Types, OneVersion DEF portal, history

-----------------------------------------------------------------------------
(* The portal.                                                             *)

LEMMA ListSelectKeeps ==
    ASSUME HarvestInv, NEW from \in {0, since}, ListSelect(from)
    PROVE  HarvestInv'
<1>1. PICK page \in FirstOf(Matching(from)) :
          /\ list' = [open |-> TRUE,
                      live |-> {v \in page : ~row[v].deleted},
                      deleted |-> {v \in page : row[v].deleted}]
          /\ beyond' = beyond \union (Matching(from) \ page)
  BY DEF ListSelect
<1>2. /\ passed' = passed \union {v \in Versions : Locked(v)}
      /\ UNCHANGED <<now, catalogue, records, since, crossed>>
      /\ ~list.open /\ list.live = {} /\ list.deleted = {}
  BY DEF ListSelect, HarvestInv, NoList
<1>3. page \subseteq Matching(from) /\ Matching(from) \subseteq Versions
  BY DEF FirstOf, Matching
<1>4. TypeOK'
  BY <1>1, <1>2, <1>3 DEF HarvestInv, TypeOK, catalogue
<1>5. ASSUME NEW v \in Versions
      PROVE  VersionOK(v)'
  <2>1. /\ (Editing(v)' <=> Editing(v)) /\ (Loaded("publish", v)' <=> Loaded("publish", v))
        /\ (Live(v)' <=> Live(v)) /\ (Viewable(v)' <=> Viewable(v))
        /\ (Locked(v)' <=> Locked(v)) /\ (Marked(v) => Marked(v)')
    BY <1>1, <1>2
       DEF Editing, Loaded, Live, Harvested, Viewable, Exists, Locked, Marked, catalogue
  <2>2. StampOK(v)' /\ EditsOK(v)'
    BY <1>2, <2>1, Types DEF VersionOK, StampOK, EditsOK, catalogue
  <2>3. ShownOK(v)'
    <3>1. ASSUME v \in page
          PROVE  /\ row[v].state \in Issued /\ Viewable(v)
                 /\ row[v].state # "unused"
      BY <3>1, <1>3 DEF Matching, Harvested, Issued, Viewable, Exists
    <3>2. ASSUME v \in page, ~row[v].deleted
          PROVE  v \in crossed \/ (Viewable(v) /\ ~Editing(v))
      BY <3>1, <3>2, Types DEF VersionOK, EditsOK
    <3>3. QED
      BY <1>1, <1>2, <2>1, <3>1, <3>2, Types DEF VersionOK, ShownOK, catalogue
  <2>4. ToldOK(v)'
    <3>1. ASSUME Live(v)
          PROVE  v \in records \/ row[v].issued >= since \/ Marked(v)
      BY <3>1, Types DEF VersionOK, ToldOK
    <3>2. ASSUME Live(v), v \notin records, ~Marked(v)
          PROVE  v \in Matching(from)
      <4>1. row[v].issued >= since /\ row[v].issued >= 0
        BY <3>1, <3>2, Types DEF Row, Instants
      <4>2. QED
        BY <3>2, <4>1 DEF Matching, Live
    <3>3. ASSUME Live(v), v \notin records, ~Marked(v)
          PROVE  v \in list'.live \/ v \in beyond'
      BY <3>2, <3>3, <1>1 DEF Live
    <3>4. QED
      BY <1>1, <1>2, <2>1, <3>1, <3>3 DEF ToldOK, Marked, catalogue
  <2>5. QED
    BY <2>2, <2>3, <2>4 DEF VersionOK
<1>6. QED
  BY <1>1, <1>2, <1>4, <1>5 DEF HarvestInv

LEMMA ListEndKeeps ==
    ASSUME HarvestInv, ListAnswer \/ ListFails
    PROVE  HarvestInv'
<1>1. /\ list.open /\ list' = NoList
      /\ UNCHANGED <<now, catalogue, history>>
      /\ \/ records' = (records \ list.deleted) \union list.live /\ since' = now
         \/ UNCHANGED <<records, since>>
  BY DEF ListAnswer, ListFails
<1>2. TypeOK'
  BY <1>1 DEF HarvestInv, TypeOK, Instants, NoList, catalogue, history
<1>3. since' <= now'
  BY <1>1 DEF HarvestInv, TypeOK
<1>4. ASSUME NEW v \in Versions
      PROVE  VersionOK(v)'
  <2>1. /\ (Editing(v)' <=> Editing(v)) /\ (Loaded("publish", v)' <=> Loaded("publish", v))
        /\ (Live(v)' <=> Live(v)) /\ (Viewable(v)' <=> Viewable(v))
        /\ (Locked(v)' <=> Locked(v)) /\ (Marked(v)' <=> Marked(v))
    BY <1>1
       DEF Editing, Loaded, Live, Harvested, Viewable, Exists, Locked, Marked, catalogue,
           history
  <2>2. StampOK(v)' /\ EditsOK(v)'
    BY <1>1, <2>1, Types DEF VersionOK, StampOK, EditsOK, catalogue, history
  <2>3. ShownOK(v)'
    BY <1>1, <2>1, Types DEF VersionOK, ShownOK, NoList, catalogue, history
  <2>4. ToldOK(v)'
    BY <1>1, <2>1, Types DEF VersionOK, ToldOK, ShownOK, Live, NoList, catalogue, history
  <2>5. QED
    BY <2>2, <2>3, <2>4 DEF VersionOK
<1>5. QED
  BY <1>1, <1>2, <1>3, <1>4 DEF HarvestInv

-----------------------------------------------------------------------------
LEMMA NextHarvest == HarvestInv /\ [Next]_vars => HarvestInv'
<1>. SUFFICES ASSUME HarvestInv, [Next]_vars
              PROVE  HarvestInv'
  OBVIOUS
<1>1. CASE Tick \/ UNCHANGED vars
  <2>1. /\ UNCHANGED <<catalogue, portal, history>>
        /\ now' \in 1 .. MaxTime /\ now' >= now
    BY <1>1 DEF Tick, vars, HarvestInv, TypeOK
  <2>2. TypeOK' /\ since' <= now' /\ (list.open \/ list = NoList)'
    BY <2>1 DEF HarvestInv, TypeOK, Instants, catalogue, portal, history
  <2>3. ASSUME NEW v \in Versions
        PROVE  VersionOK(v)'
    BY <2>1, Types
       DEF VersionOK, StampOK, EditsOK, ShownOK, ToldOK, Locked, Loaded, Editing, Live,
           Harvested, Viewable, Exists, Marked, catalogue, portal, history
  <2>4. QED
    BY <2>2, <2>3 DEF HarvestInv
<1>2. QED
  BY <1>1, CreateKeeps, LoadKeeps, PatchCommitKeeps, PublishStampKeeps, PublishCommitKeeps,
     DeleteDraftCommitKeeps, HandlerFailsKeeps, DeprecateKeeps, ListSelectKeeps, ListEndKeeps
     DEF Next

(***************************************************************************)
(* The inductive invariant of harvests beside the life cycle of versions   *)
(* holds in every reachable state; the theorems after it are parts of it.  *)
(***************************************************************************)
THEOREM HarvestIsSafe == Spec => []HarvestInv
<1>1. QED
  BY InitHarvest, NextHarvest, PTL DEF Spec

\* The record a portal shows leads to a page it may see, whatever patch_draft,
\* publish_resource and the deletions do, unless they overlapped on the draft.
THEOREM HarvestedStaysViewable == Spec => []HarvestedIsViewable
<1>1. QED
  BY HarvestIsSafe, InvIsEnough, PTL

\* An incremental harvest from the last responseDate misses only versions
\* published during a list, or beyond the limit of an answer.
THEOREM HarvestMissesNothing == Spec => []NothingIsMissed
<1>1. QED
  BY HarvestIsSafe, InvIsEnough, PTL
=============================================================================
