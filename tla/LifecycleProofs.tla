-------------------------- MODULE LifecycleProofs --------------------------
(***************************************************************************)
(* Theorems about the life cycle of versions, for any resources, versions, *)
(* users, keys, payloads, DOIs and mints that overlap: the threshold of    *)
(* the FAIR score (FairScore), what the catalogue promises (Lifecycle),    *)
(* and that it holds with minting as well, where DOIs are neither replaced *)
(* nor left without a version (Minting).                                   *)
(***************************************************************************)
EXTENDS Minting, FiniteSetTheorems, TLAPS

-----------------------------------------------------------------------------
(* FairScore: the two roundings in the FAIR score do not move the          *)
(* threshold of the publish guard.                                         *)

\* Fifths and quarters are whole numbers of units.
LEMMA ExactShares ==
    /\ \A p \in 0 .. 5 : Share(p, 5) = 2000 * p
    /\ \A p \in 0 .. 4 : Share(p, 4) = 2500 * p
<1>1. ASSUME NEW p \in 0 .. 5
      PROVE  Share(p, 5) = 2000 * p
  <2>1. (20000 * p + 5) \div 10 = 2000 * p
    BY SMT
  <2>2. QED
    BY <2>1, SMT DEF Share, Unit
<1>2. ASSUME NEW p \in 0 .. 4
      PROVE  Share(p, 4) = 2500 * p
  <2>1. (20000 * p + 4) \div 8 = 2500 * p
    BY SMT
  <2>2. QED
    BY <2>1, SMT DEF Share, Unit
<1>3. QED
  BY <1>1, <1>2

\* A third is rounded, by a third of a unit at most.
LEMMA RoundedShares ==
    ASSUME NEW p \in 0 .. 3
    PROVE  /\ Share(p, 3) \in Nat
           /\ 3 * Share(p, 3) - Unit * p \in -1 .. 1
<1>1. CASE p = 0
  BY <1>1, SMT DEF Share, Unit
<1>2. CASE p = 1
  BY <1>2, SMT DEF Share, Unit
<1>3. CASE p = 2
  BY <1>3, SMT DEF Share, Unit
<1>4. CASE p = 3
  BY <1>4, SMT DEF Share, Unit
<1>5. QED
  BY <1>1, <1>2, <1>3, <1>4

\* What the mean of four scores may be rounded to reaches the threshold just
\* when their sum, less than one unit below included, is large enough.
LEMMA MeanReaches ==
    ASSUME NEW sum \in Nat
    PROVE  LET low == sum \div 4
           IN  (\E n \in {m \in {low, low + 1} : 4 * m - sum \in -2 .. 2} : n >= Threshold)
                   => sum >= 15998
<1>. DEFINE low == sum \div 4
<1>1. low \in Nat /\ 4 * low <= sum /\ sum <= 4 * low + 3
  BY SMT
<1>. HIDE DEF low
<1>2. ASSUME NEW n \in {low, low + 1}, 4 * n - sum \in -2 .. 2, n >= Threshold
      PROVE  sum >= 15998
  BY <1>1, <1>2, SMT DEF Threshold
<1>3. QED
  BY <1>2 DEF low

LEMMA MeanIsReached ==
    ASSUME NEW sum \in Nat, sum >= 16000
    PROVE  LET low == sum \div 4
           IN  \E n \in {m \in {low, low + 1} : 4 * m - sum \in -2 .. 2} : n >= Threshold
<1>. DEFINE low == sum \div 4
<1>1. low \in Nat /\ 4 * low <= sum /\ sum <= 4 * low + 3
  BY SMT
<1>. HIDE DEF low
<1>2. CASE sum <= 4 * low + 2
  <2>1. 4 * low - sum \in -2 .. 2 /\ low >= Threshold
    BY <1>1, <1>2, SMT DEF Threshold
  <2>2. QED
    BY <2>1 DEF low
<1>3. CASE sum = 4 * low + 3
  <2>1. 4 * (low + 1) - sum \in -2 .. 2 /\ low + 1 >= Threshold
    BY <1>1, <1>3, SMT DEF Threshold
  <2>2. QED
    BY <2>1 DEF low
<1>4. QED
  BY <1>1, <1>2, <1>3, SMT

(***************************************************************************)
(* The guard lets a version pass on its score just when the exact mean of  *)
(* its four shares is at least 0.4, for every count of passed checks       *)
(* (compute_fair_score and evaluate_publish_guard together): no version at *)
(* the boundary is let in or kept out by the roundings.                    *)
(***************************************************************************)
THEOREM ThresholdIsExact ==
    \A f \in 0 .. 5, a \in 0 .. 3, i \in 0 .. 4, r \in 0 .. 3 :
        MeetsThreshold(f, a, i, r) <=> IsFair(f, a, i, r)
<1>. SUFFICES ASSUME NEW f \in 0 .. 5, NEW a \in 0 .. 3, NEW i \in 0 .. 4, NEW r \in 0 .. 3
              PROVE  MeetsThreshold(f, a, i, r) <=> IsFair(f, a, i, r)
  OBVIOUS
<1>. DEFINE sum == Share(f, 5) + Share(a, 3) + Share(i, 4) + Share(r, 3)
<1>1. /\ sum \in Nat
      /\ 3 * sum - 500 * (12 * f + 20 * a + 15 * i + 20 * r) \in -2 .. 2
  BY ExactShares, RoundedShares, SMT DEF Unit
<1>. HIDE DEF sum
<1>2. ASSUME IsFair(f, a, i, r)
      PROVE  sum >= 16000
  BY <1>1, <1>2, SMT DEF IsFair
<1>3. ASSUME sum >= 15998
      PROVE  IsFair(f, a, i, r)
  BY <1>1, <1>3, SMT DEF IsFair
<1>4. MeetsThreshold(f, a, i, r) <=>
        LET low == sum \div 4
        IN  \E n \in {m \in {low, low + 1} : 4 * m - sum \in -2 .. 2} : n >= Threshold
  BY DEF MeetsThreshold, Overalls, sum
<1>5. QED
  BY <1>1, <1>2, <1>3, <1>4, MeanReaches, MeanIsReached

-----------------------------------------------------------------------------
(* Lifecycle.                                                              *)

USE NullsAreNoIds, ChecksAreFairChecks

-----------------------------------------------------------------------------
(* The publish guard lets fair versions pass.                              *)

LEMMA AtMostOneMore ==
    ASSUME NEW S, IsFiniteSet(S), NEW n \in Nat, Cardinality(S) <= n, NEW x
    PROVE  IsFiniteSet(S \union {x}) /\ Cardinality(S \union {x}) <= n + 1
<1>1. /\ IsFiniteSet(S \union {x})
      /\ \/ Cardinality(S \union {x}) = Cardinality(S)
         \/ Cardinality(S \union {x}) = Cardinality(S) + 1
  BY FS_AddElement
<1>2. Cardinality(S) \in Nat
  BY FS_CardinalityType
<1>3. QED
  BY <1>1, <1>2

LEMMA DimensionSizes ==
    /\ IsFiniteSet(Findable) /\ Cardinality(Findable) <= 5
    /\ IsFiniteSet(Accessible) /\ Cardinality(Accessible) <= 3
    /\ IsFiniteSet(Interoperable) /\ Cardinality(Interoperable) <= 4
    /\ IsFiniteSet(Reusable) /\ Cardinality(Reusable) <= 3
<1>. DEFINE Small(S, n) == IsFiniteSet(S) /\ Cardinality(S) <= n
<1>1. ASSUME NEW x
      PROVE  Small({x}, 1)
  <2>1. IsFiniteSet({x}) /\ Cardinality({x}) = 1
    BY FS_Singleton
  <2>2. QED
    BY <2>1
<1>2. ASSUME NEW S, NEW x
      PROVE  /\ Small(S, 1) => Small(S \union {x}, 2)
             /\ Small(S, 2) => Small(S \union {x}, 3)
             /\ Small(S, 3) => Small(S \union {x}, 4)
             /\ Small(S, 4) => Small(S \union {x}, 5)
  <2>1. ASSUME NEW n \in Nat, Small(S, n)
        PROVE  Small(S \union {x}, n + 1)
    BY <2>1, AtMostOneMore
  <2>2. QED
    BY <2>1
<1>. HIDE DEF Small
<1>3. \A x, y, z : Small(({x} \union {y}) \union {z}, 3)
  BY <1>1, <1>2
<1>4. \A x, y, z, w : Small((({x} \union {y}) \union {z}) \union {w}, 4)
  BY <1>2, <1>3
<1>5. \A x, y, z, w, t : Small(((({x} \union {y}) \union {z}) \union {w}) \union {t}, 5)
  BY <1>2, <1>4
<1>6. /\ Accessible = ({"has_distribution"} \union {"access_rights_defined"})
                          \union {"access_url_present"}
      /\ Reusable = ({"has_provenance"} \union {"has_rights_statement"})
                        \union {"checksum_on_uploads"}
      /\ Interoperable = (({"has_license"} \union {"has_language"})
                              \union {"media_types_present"})
                             \union {"publisher_resolvable"}
      /\ Findable = ((({"has_title"} \union {"description_adequate"})
                          \union {"has_keywords"}) \union {"has_theme"}) \union {"has_doi"}
  BY DEF Accessible, Reusable, Interoperable, Findable
<1>7. QED
  BY <1>3, <1>4, <1>5, <1>6 DEF Small

\* The counts of passed checks are what ThresholdIsExact is about.
LEMMA PassedCounts ==
    ASSUME NEW checks
    PROVE  /\ Passed(checks, Findable) \in 0 .. 5
           /\ Passed(checks, Accessible) \in 0 .. 3
           /\ Passed(checks, Interoperable) \in 0 .. 4
           /\ Passed(checks, Reusable) \in 0 .. 3
<1>1. ASSUME NEW S, IsFiniteSet(S), NEW n \in Nat, Cardinality(S) <= n
      PROVE  Passed(checks, S) \in 0 .. n
  <2>1. /\ IsFiniteSet(checks \intersect S)
        /\ Cardinality(checks \intersect S) <= Cardinality(S)
    BY <1>1, FS_Subset
  <2>2. Cardinality(checks \intersect S) \in Nat /\ Cardinality(S) \in Nat
    BY <1>1, <2>1, FS_CardinalityType
  <2>3. QED
    BY <1>1, <2>1, <2>2 DEF Passed
<1>2. QED
  BY <1>1, DimensionSizes

\* More passed checks count for more, in each dimension.
LEMMA MoreCounts ==
    ASSUME NEW fewer, NEW more, fewer \subseteq more
    PROVE  /\ Passed(fewer, Findable) <= Passed(more, Findable)
           /\ Passed(fewer, Accessible) <= Passed(more, Accessible)
           /\ Passed(fewer, Interoperable) <= Passed(more, Interoperable)
           /\ Passed(fewer, Reusable) <= Passed(more, Reusable)
<1>1. ASSUME NEW S, IsFiniteSet(S)
      PROVE  Passed(fewer, S) <= Passed(more, S)
  <2>1. IsFiniteSet(more \intersect S)
    BY <1>1, FS_Subset
  <2>2. fewer \intersect S \subseteq more \intersect S
    OBVIOUS
  <2>3. QED
    BY <2>1, <2>2, FS_Subset DEF Passed
<1>2. QED
  BY <1>1, DimensionSizes

\* A check that a version passes in addition never keeps it from being published,
\* whatever the rounding of shares and mean does (compute_fair_score).
THEOREM MoreChecksNeverHurt ==
    ASSUME NEW fewer, NEW more, fewer \subseteq more, FairEnough(fewer)
    PROVE  FairEnough(more)
<1>. DEFINE Fair(checks) ==
                IsFair(Passed(checks, Findable), Passed(checks, Accessible),
                       Passed(checks, Interoperable), Passed(checks, Reusable))
<1>1. FairEnough(fewer) <=> Fair(fewer)
  BY PassedCounts, ThresholdIsExact DEF FairEnough
<1>2. FairEnough(more) <=> Fair(more)
  BY PassedCounts, ThresholdIsExact DEF FairEnough
<1>3. Fair(fewer) => Fair(more)
  BY MoreCounts, PassedCounts DEF IsFair
<1>4. QED
  BY <1>1, <1>2, <1>3

FairRow(row) ==
    LET n(dimension) == Passed(FairChecksOf(row), dimension)
    IN  IsFair(n(Findable), n(Accessible), n(Interoperable), n(Reusable))

LEMMA FairEnoughIsFair ==
    ASSUME NEW row, FairEnough(FairChecksOf(row))
    PROVE  FairRow(row)
BY PassedCounts, ThresholdIsExact DEF FairEnough, FairRow

\* Fairness is about these columns only.
LEMMA SameFair ==
    ASSUME NEW row, NEW next,
           next.meta = row.meta, next.dists = row.dists, next.urls = row.urls
    PROVE  FairRow(next) <=> FairRow(row)
<1>1. FairChecksOf(next) = FairChecksOf(row)
  BY DEF FairChecksOf, HasDistribution
<1>2. QED
  BY <1>1 DEF FairRow

-----------------------------------------------------------------------------
(* The inductive invariant.                                                *)

GoodPublished(row) ==
    /\ HasLicense(row) /\ HasDistribution(row)
    /\ FairRow(row)

\* A row that exists is owned, one with deleted data is a tombstone, and a
\* published one is good.
ProperRow(row) ==
    /\ Exists(row) => row.base \in Resources
    /\ row.deleted => row.state = "deprecated"
    /\ row.state = "published" => GoodPublished(row)

RowsAreProper == \A v \in Versions : ProperRow(ver[v])

LifeInv ==
    /\ TypeOK
    /\ RowsAreProper
    /\ PointersAreIssued

LEMMA LifeIsFair == LifeInv => PublishedIsFair
BY DEF LifeInv, RowsAreProper, ProperRow, GoodPublished, FairRow, PublishedIsFair

LEMMA InitLife == Init => LifeInv
BY DEF Init, LifeInv, TypeOK, RowsAreProper, ProperRow, PointersAreIssued, EmptyRow,
       VersionRow, RowStates, LiveStates, Exists

IssuedRow(row, r) == row.state \in {"published", "deprecated"} /\ row.base = r

\* A step that changes the row of v keeps the pointers, when what was issued
\* stays so in its resource, and a new draft follows the current version.
LEMMA PointersStay ==
    ASSUME LifeInv, ver' \in [Versions -> VersionRow],
           \A v \in Versions, r \in Resources : IssuedRow(ver[v], r) => IssuedRow(ver'[v], r),
           \A r \in Resources :
              \/ current'[r] \in {current[r], NoVersion}
              \/ current'[r] \in Versions /\ IssuedRow(ver'[current'[r]], r),
           \A v \in Versions : Exists(ver'[v]) =>
              \/ /\ Exists(ver[v])
                 /\ ver'[v].base = ver[v].base /\ ver'[v].prev = ver[v].prev
              \/ ver'[v].prev = NoVersion
              \/ ver'[v].base \in Resources /\ current[ver'[v].base] = ver'[v].prev
    PROVE  PointersAreIssued'
<1>0. /\ \A r \in Resources : current[r] # NoVersion =>
            current[r] \in Versions /\ IssuedRow(ver[current[r]], r)
      /\ \A v \in Versions : Exists(ver[v]) /\ ver[v].prev # NoVersion =>
            /\ ver[v].prev \in Versions /\ ver[v].base \in Resources
            /\ IssuedRow(ver[ver[v].prev], ver[v].base)
  BY DEF LifeInv, TypeOK, VersionRow, RowsAreProper, ProperRow, PointersAreIssued,
         Issued, IssuedRow
<1>1. ASSUME NEW r \in Resources, current'[r] # NoVersion
      PROVE  IssuedRow(ver'[current'[r]], r)
  BY <1>0, <1>1
<1>2. ASSUME NEW v \in Versions, Exists(ver'[v]), ver'[v].prev # NoVersion
      PROVE  IssuedRow(ver'[ver'[v].prev], ver'[v].base)
  BY <1>0, <1>2
<1>3. QED
  BY <1>1, <1>2 DEF PointersAreIssued, Issued, IssuedRow

\* The step of one version: its row changes and stays proper, what was issued
\* stays so, and what is new follows the current version.
LEMMA RowStep ==
    ASSUME LifeInv, NEW v \in Versions, NEW row \in VersionRow,
           ver' = [ver EXCEPT ![v] = row],
           ProperRow(row),
           \A r \in Resources : IssuedRow(ver[v], r) => IssuedRow(row, r),
           Exists(row) =>
              \/ /\ Exists(ver[v])
                 /\ row.base = ver[v].base /\ row.prev = ver[v].prev
              \/ row.prev = NoVersion
              \/ row.base \in Resources /\ current[row.base] = row.prev,
           \A r \in Resources :
              \/ current'[r] \in {current[r], NoVersion}
              \/ current'[r] = v /\ IssuedRow(row, r)
    PROVE  /\ ver' \in [Versions -> VersionRow]
           /\ RowsAreProper' /\ PointersAreIssued'
<1>1. /\ ver' \in [Versions -> VersionRow] /\ ver'[v] = row
      /\ \A w \in Versions \ {v} : ver'[w] = ver[w]
  BY DEF LifeInv, TypeOK
<1>2. RowsAreProper'
  BY <1>1 DEF LifeInv, RowsAreProper
<1>3. \A w \in Versions, r \in Resources : IssuedRow(ver[w], r) => IssuedRow(ver'[w], r)
  BY <1>1
<1>4. \A w \in Versions : Exists(ver'[w]) =>
          \/ /\ Exists(ver[w])
             /\ ver'[w].base = ver[w].base /\ ver'[w].prev = ver[w].prev
          \/ ver'[w].prev = NoVersion
          \/ ver'[w].base \in Resources /\ current[ver'[w].base] = ver'[w].prev
  BY <1>1
<1>5. \A r \in Resources :
          \/ current'[r] \in {current[r], NoVersion}
          \/ current'[r] \in Versions /\ IssuedRow(ver'[current'[r]], r)
  BY <1>1
<1>6. PointersAreIssued'
  BY <1>1, <1>3, <1>4, <1>5, PointersStay
<1>7. QED
  BY <1>1, <1>2, <1>6

-----------------------------------------------------------------------------
(* The handlers.                                                           *)

LEMMA DraftKeeps ==
    ASSUME LifeInv, NEW u \in Users, NEW r \in Resources, NEW v \in Versions,
           NEW meta \in SUBSET Checks, NEW dists \in SUBSET (Keys \union Links),
           CreateResource(u, r, v, meta, dists) \/ NewVersion(u, r, v, meta, dists)
    PROVE  LifeInv'
<1>1. PICK p \in {NoVersion, current[r]} : ver' = [ver EXCEPT ![v] = DraftRow(r, u, p, meta, dists)]
  BY DEF CreateResource, NewVersion
<1>. DEFINE row == DraftRow(r, u, p, meta, dists)
<1>2. row \in VersionRow /\ ProperRow(row) /\ row.base = r /\ row.prev = p
  BY DEF LifeInv, TypeOK, DraftRow, VersionRow, RowStates, LiveStates, ProperRow
<1>3. ver[v].state = "unused" /\ UNCHANGED current /\ owner' \in [Resources -> Users \union {NoUser}]
  BY DEF CreateResource, NewVersion, LifeInv, TypeOK
<1>4. \A s \in Resources : IssuedRow(ver[v], s) => IssuedRow(row, s)
  BY <1>3 DEF IssuedRow
<1>5. ver' \in [Versions -> VersionRow] /\ RowsAreProper' /\ PointersAreIssued'
  <2>. HIDE DEF row
  <2>1. QED
    BY <1>1, <1>2, <1>3, <1>4, RowStep DEF row
<1>6. QED
  BY <1>3, <1>5 DEF LifeInv, TypeOK

\* Rows that exist, seen from one of them.
LEMMA ThisRow ==
    ASSUME LifeInv, NEW v \in Versions
    PROVE  /\ ver[v] \in VersionRow /\ ProperRow(ver[v])
           /\ Exists(ver[v]) => ver[v].base \in Resources
BY DEF LifeInv, TypeOK, RowsAreProper, ProperRow

LEMMA PatchKeepsLife ==
    ASSUME LifeInv, NEW u \in Users, NEW v \in Versions, NEW meta \in SUBSET Checks,
           Patch(u, v, meta)
    PROVE  LifeInv'
<1>. DEFINE row == [ver[v] EXCEPT !.meta = meta]
<1>1. row \in VersionRow /\ ProperRow(row)
  BY ThisRow DEF Patch, VersionRow, ProperRow, Exists
<1>2. /\ ver' = [ver EXCEPT ![v] = row] /\ UNCHANGED <<owner, current>>
      /\ row.state = ver[v].state /\ row.base = ver[v].base /\ row.prev = ver[v].prev
  BY ThisRow DEF Patch, VersionRow
<1>3. Exists(ver[v]) /\ \A s \in Resources : IssuedRow(ver[v], s) => IssuedRow(row, s)
  BY <1>2 DEF IssuedRow, Patch, OwnedBy
<1>4. ver' \in [Versions -> VersionRow] /\ RowsAreProper' /\ PointersAreIssued'
  <2>. HIDE DEF row
  <2>1. QED
    BY <1>1, <1>2, <1>3, RowStep
<1>5. QED
  BY <1>2, <1>4 DEF LifeInv, TypeOK

LEMMA PublishKeepsLife ==
    ASSUME LifeInv, NEW u \in Users, NEW v \in Versions, Publish(u, v)
    PROVE  LifeInv'
<1>. DEFINE row == [ver[v] EXCEPT !.state = "published"]
<1>1. /\ ver[v] \in VersionRow /\ ver[v].state = "draft" /\ ~ver[v].deleted
      /\ ver[v].base \in Resources /\ Exists(ver[v])
  BY ThisRow DEF Publish, OwnedBy, PublishGuard, ProperRow
<1>2. /\ row \in VersionRow /\ row.state = "published" /\ row.base = ver[v].base
      /\ row.prev = ver[v].prev /\ row.meta = ver[v].meta /\ row.dists = ver[v].dists
      /\ row.urls = ver[v].urls /\ row.deleted = ver[v].deleted
  BY <1>1 DEF VersionRow, RowStates, LiveStates
<1>3. FairRow(ver[v]) /\ HasLicense(ver[v]) /\ HasDistribution(ver[v])
  BY FairEnoughIsFair DEF Publish, PublishGuard
<1>4. ver' = [ver EXCEPT ![v] = row] /\ current' = [current EXCEPT ![row.base] = v]
      /\ UNCHANGED owner
  BY <1>2 DEF Publish
<1>. HIDE DEF row
<1>5. ProperRow(row)
  BY <1>1, <1>2, <1>3, SameFair DEF ProperRow, GoodPublished, HasLicense, HasDistribution
<1>6. /\ \A s \in Resources : IssuedRow(ver[v], s) => IssuedRow(row, s)
      /\ IssuedRow(row, row.base)
  BY <1>1, <1>2 DEF IssuedRow
<1>7. /\ current' \in [Resources -> Versions \union {NoVersion}]
      /\ \A s \in Resources :
            \/ current'[s] = current[s]
            \/ current'[s] = v /\ IssuedRow(row, s)
  BY <1>1, <1>2, <1>4, <1>6 DEF LifeInv, TypeOK
<1>8. ver' \in [Versions -> VersionRow] /\ RowsAreProper' /\ PointersAreIssued'
  BY <1>1, <1>2, <1>4, <1>5, <1>6, <1>7, RowStep
<1>9. QED
  BY <1>4, <1>7, <1>8 DEF LifeInv, TypeOK

LEMMA DeprecateKeepsLife ==
    ASSUME LifeInv, NEW u \in Users, NEW v \in Versions, Deprecate(u, v)
    PROVE  LifeInv'
<1>. DEFINE row == [ver[v] EXCEPT !.state = "deprecated"]
<1>1. /\ row \in VersionRow /\ ProperRow(row) /\ row.state = "deprecated"
      /\ row.base = ver[v].base /\ row.prev = ver[v].prev
  BY ThisRow DEF Deprecate, OwnedBy, VersionRow, ProperRow, RowStates, LiveStates
<1>2. ver' = [ver EXCEPT ![v] = row] /\ UNCHANGED <<owner, current>> /\ Exists(ver[v])
  BY DEF Deprecate, OwnedBy
<1>. HIDE DEF row
<1>3. \A s \in Resources : IssuedRow(ver[v], s) => IssuedRow(row, s)
  BY <1>1 DEF IssuedRow
<1>4. ver' \in [Versions -> VersionRow] /\ RowsAreProper' /\ PointersAreIssued'
  BY <1>1, <1>2, <1>3, RowStep
<1>5. QED
  BY <1>2, <1>4 DEF LifeInv, TypeOK

LEMMA DeleteDraftKeepsLife ==
    ASSUME LifeInv, NEW u \in Users, NEW v \in Versions, DeleteDraft(u, v)
    PROVE  LifeInv'
<1>. DEFINE row == EmptyRow("removed")
<1>1. row \in VersionRow /\ ProperRow(row) /\ ~Exists(row)
  BY DEF EmptyRow, VersionRow, ProperRow, Exists, RowStates, LiveStates
<1>2. ver' = [ver EXCEPT ![v] = row] /\ UNCHANGED <<owner, current>> /\ ver[v].state = "draft"
  BY DEF DeleteDraft
<1>. HIDE DEF row
<1>3. \A s \in Resources : IssuedRow(ver[v], s) => IssuedRow(row, s)
  BY <1>2 DEF IssuedRow
<1>4. ver' \in [Versions -> VersionRow] /\ RowsAreProper' /\ PointersAreIssued'
  BY <1>1, <1>2, <1>3, RowStep
<1>5. QED
  BY <1>2, <1>4 DEF LifeInv, TypeOK

\* The rows that a tombstone leaves.
LEMMA TombstonedRows ==
    ASSUME LifeInv, NEW vs \in SUBSET Versions, \A v \in vs : Exists(ver[v]),
           NEW kept, ver' = Tombstoned(vs, kept)
    PROVE  /\ ver' \in [Versions -> VersionRow]
           /\ \A v \in Versions \ vs : ver'[v] = ver[v]
           /\ \A v \in vs : /\ ver'[v].state = "deprecated" /\ ver'[v].deleted
                            /\ ver'[v].base = ver[v].base /\ ver'[v].prev = ver[v].prev
                            /\ ver'[v].urls \subseteq ver[v].urls
<1>. DEFINE Stone(v) == [ver[v] EXCEPT !.state = "deprecated", !.deleted = TRUE,
                                      !.urls = @ \intersect kept[v]]
<1>1. ASSUME NEW v \in vs
      PROVE  /\ Stone(v) \in VersionRow
             /\ Stone(v).state = "deprecated" /\ Stone(v).deleted
             /\ Stone(v).base = ver[v].base /\ Stone(v).prev = ver[v].prev
             /\ Stone(v).urls \subseteq ver[v].urls
  <2>1. ver[v] \in VersionRow
    BY ThisRow
  <2>2. ver[v].urls \intersect kept[v] \in SUBSET Keys
    BY <2>1 DEF VersionRow
  <2>3. QED
    BY <2>1, <2>2 DEF VersionRow, RowStates, LiveStates
<1>. HIDE DEF Stone
<1>2. ver' = [v \in Versions |-> IF v \in vs THEN Stone(v) ELSE ver[v]]
  BY DEF Tombstoned, Stone
<1>3. QED
  BY <1>1, <1>2, ThisRow

LEMMA TombstoneKeepsLife ==
    ASSUME LifeInv, NEW vs \in SUBSET Versions, \A v \in vs : Exists(ver[v]),
           NEW kept, ver' = Tombstoned(vs, kept), UNCHANGED owner,
           current' \in [Resources -> Versions \union {NoVersion}],
           \A r \in Resources : current'[r] \in {current[r], NoVersion}
    PROVE  LifeInv'
<1>1. /\ ver' \in [Versions -> VersionRow]
      /\ \A v \in Versions \ vs : ver'[v] = ver[v]
      /\ \A v \in vs : /\ ver'[v].state = "deprecated" /\ ver'[v].deleted
                       /\ ver'[v].base = ver[v].base /\ ver'[v].prev = ver[v].prev
  BY TombstonedRows
<1>2. ASSUME NEW v \in Versions
      PROVE  ProperRow(ver'[v])
  BY <1>1, ThisRow DEF ProperRow
<1>3. \A v \in Versions, r \in Resources : IssuedRow(ver[v], r) => IssuedRow(ver'[v], r)
  BY <1>1 DEF IssuedRow
<1>4. \A v \in Versions : Exists(ver'[v]) =>
          Exists(ver[v]) /\ ver'[v].base = ver[v].base /\ ver'[v].prev = ver[v].prev
  BY <1>1
<1>5. PointersAreIssued'
  BY <1>1, <1>3, <1>4, PointersStay
<1>6. QED
  BY <1>1, <1>2, <1>5 DEF LifeInv, TypeOK, RowsAreProper

LEMMA NextLife == LifeInv /\ [Next]_vars => LifeInv'
<1>. SUFFICES ASSUME LifeInv, [Next]_vars
              PROVE  LifeInv'
  OBVIOUS
<1>1. ASSUME NEW u \in Users, NEW v \in Versions, DeleteVersion(u, v)
      PROVE  LifeInv'
  <2>1. PICK kept : ver' = Tombstoned({v}, kept)
    BY <1>1 DEF DeleteVersion
  <2>2. Exists(ver[v]) /\ UNCHANGED <<owner, current>>
    BY <1>1 DEF DeleteVersion, OwnedBy
  <2>3. QED
    BY <2>1, <2>2, TombstoneKeepsLife DEF LifeInv, TypeOK
<1>2. ASSUME NEW u \in Users, NEW r \in Resources, DeleteResource(u, r)
      PROVE  LifeInv'
  <2>1. PICK kept : ver' = Tombstoned(VersionsOf(r), kept)
    BY <1>2 DEF DeleteResource
  <2>2. /\ UNCHANGED owner
        /\ current' \in [Resources -> Versions \union {NoVersion}]
        /\ \A s \in Resources : current'[s] \in {current[s], NoVersion}
    BY <1>2 DEF DeleteResource, LifeInv, TypeOK
  <2>3. QED
    BY <2>1, <2>2, TombstoneKeepsLife DEF VersionsOf
<1>3. CASE UNCHANGED vars
  BY <1>3 DEF vars, LifeInv, TypeOK, RowsAreProper, PointersAreIssued, Issued
<1>4. QED
  BY <1>1, <1>2, <1>3, DraftKeeps, PatchKeepsLife, PublishKeepsLife, DeprecateKeepsLife,
     DeleteDraftKeepsLife
     DEF Next

-----------------------------------------------------------------------------
(* What no step undoes.                                                    *)

\* The row of a tombstone is a deprecated version, which only a second
\* tombstone changes.
LEMMA StepKeepsTombstones ==
    ASSUME LifeInv, [Next]_vars, NEW v \in Versions, ver[v].deleted
    PROVE  ver'[v].deleted /\ ver'[v].urls \subseteq ver[v].urls
<1>1. /\ ver[v] \in VersionRow /\ ver[v].state = "deprecated" /\ Exists(ver[v])
      /\ ver \in [Versions -> VersionRow]
  BY ThisRow DEF ProperRow, Exists, LiveStates, LifeInv, TypeOK
<1>2. ASSUME NEW vs \in SUBSET Versions, \A w \in vs : Exists(ver[w]), NEW kept,
             ver' = Tombstoned(vs, kept)
      PROVE  ver'[v].deleted /\ ver'[v].urls \subseteq ver[v].urls
  BY <1>1, <1>2, TombstonedRows
<1>3. ASSUME NEW u \in Users, NEW w \in Versions, DeleteVersion(u, w)
      PROVE  ver'[v].deleted /\ ver'[v].urls \subseteq ver[v].urls
  BY <1>2, <1>3 DEF DeleteVersion, OwnedBy
<1>4. ASSUME NEW u \in Users, NEW r \in Resources, DeleteResource(u, r)
      PROVE  ver'[v].deleted /\ ver'[v].urls \subseteq ver[v].urls
  BY <1>2, <1>4 DEF DeleteResource, VersionsOf
<1>5. ASSUME NEW u \in Users, NEW w \in Versions,
             \/ Publish(u, w) \/ Deprecate(u, w) \/ DeleteDraft(u, w)
             \/ \E meta \in SUBSET Checks : Patch(u, w, meta)
      PROVE  ver'[v] = ver[v]
  BY <1>1, <1>5 DEF Publish, PublishGuard, Deprecate, DeleteDraft, Patch
<1>6. ASSUME NEW u \in Users, NEW r \in Resources, NEW w \in Versions,
             NEW meta \in SUBSET Checks, NEW dists \in SUBSET (Keys \union Links),
             CreateResource(u, r, w, meta, dists) \/ NewVersion(u, r, w, meta, dists)
      PROVE  ver'[v] = ver[v]
  BY <1>1, <1>6 DEF CreateResource, NewVersion
<1>7. CASE UNCHANGED vars
  BY <1>1, <1>7 DEF vars
<1>8. QED
  BY <1>1, <1>3, <1>4, <1>5, <1>6, <1>7 DEF Next

\* A version that was published stays published or deprecated.
LEMMA StepKeepsIssued ==
    ASSUME LifeInv, [Next]_vars, NEW v \in Versions,
           ver[v].state \in {"published", "deprecated"}
    PROVE  ver'[v].state \in {"published", "deprecated"}
<1>1. ver \in [Versions -> VersionRow]
  BY DEF LifeInv, TypeOK
<1>2. ASSUME NEW vs \in SUBSET Versions, \A w \in vs : Exists(ver[w]), NEW kept,
             ver' = Tombstoned(vs, kept)
      PROVE  ver'[v].state \in {"published", "deprecated"}
  BY <1>2, TombstonedRows
<1>3. ASSUME NEW u \in Users, NEW w \in Versions, DeleteVersion(u, w)
      PROVE  ver'[v].state \in {"published", "deprecated"}
  BY <1>2, <1>3 DEF DeleteVersion, OwnedBy
<1>4. ASSUME NEW u \in Users, NEW r \in Resources, DeleteResource(u, r)
      PROVE  ver'[v].state \in {"published", "deprecated"}
  BY <1>2, <1>4 DEF DeleteResource, VersionsOf
<1>5. ASSUME NEW u \in Users, NEW w \in Versions,
             \/ Publish(u, w) \/ Deprecate(u, w) \/ DeleteDraft(u, w)
             \/ \E meta \in SUBSET Checks : Patch(u, w, meta)
      PROVE  ver'[v].state \in {"published", "deprecated"}
  BY <1>1, <1>5 DEF Publish, PublishGuard, Deprecate, DeleteDraft, Patch, VersionRow
<1>6. ASSUME NEW u \in Users, NEW r \in Resources, NEW w \in Versions,
             NEW meta \in SUBSET Checks, NEW dists \in SUBSET (Keys \union Links),
             CreateResource(u, r, w, meta, dists) \/ NewVersion(u, r, w, meta, dists)
      PROVE  ver'[v] = ver[v]
  BY <1>1, <1>6 DEF CreateResource, NewVersion
<1>7. CASE UNCHANGED vars
  BY <1>7 DEF vars
<1>8. QED
  BY <1>3, <1>4, <1>5, <1>6, <1>7 DEF Next

\* A version of a closed resource is a tombstone: none of its handlers goes
\* on, and a new version needs a current one.
LEMMA StepKeepsClosed ==
    ASSUME LifeInv, [Next]_vars, NEW r \in Resources, Closed(r)
    PROVE  Closed(r)'
<1>1. /\ owner[r] # NoUser /\ current[r] = NoVersion
      /\ \A v \in Versions : Exists(ver[v]) /\ ver[v].base = r => ver[v].deleted
      /\ \A v \in Versions : ver[v] \in VersionRow /\ ProperRow(ver[v])
      /\ owner \in [Resources -> Users \union {NoUser}]
      /\ current \in [Resources -> Versions \union {NoVersion}]
      /\ ver \in [Versions -> VersionRow]
  BY ThisRow DEF Closed, VersionsOf, LifeInv, TypeOK
<1>. DEFINE Shut == /\ owner'[r] # NoUser /\ current'[r] = NoVersion
                    /\ \A v \in Versions :
                          Exists(ver'[v]) /\ ver'[v].base = r => ver'[v].deleted
<1>2. ASSUME NEW vs \in SUBSET Versions, \A w \in vs : Exists(ver[w]), NEW kept,
             ver' = Tombstoned(vs, kept), UNCHANGED owner, current'[r] = NoVersion
      PROVE  Shut
  <2>1. /\ \A v \in Versions \ vs : ver'[v] = ver[v]
        /\ \A v \in vs : ver'[v].deleted
    BY <1>2, TombstonedRows
  <2>2. QED
    BY <1>1, <1>2, <2>1
<1>3. ASSUME NEW u \in Users, NEW w \in Versions, DeleteVersion(u, w)
      PROVE  Shut
  BY <1>1, <1>2, <1>3 DEF DeleteVersion, OwnedBy
<1>4. ASSUME NEW u \in Users, NEW s \in Resources, DeleteResource(u, s)
      PROVE  Shut
  <2>1. current'[r] = NoVersion /\ UNCHANGED owner
    BY <1>1, <1>4 DEF DeleteResource
  <2>2. QED
    BY <2>1, <1>2, <1>4 DEF DeleteResource, VersionsOf
<1>5. ASSUME NEW u \in Users, NEW w \in Versions,
             \/ Publish(u, w) \/ Deprecate(u, w) \/ DeleteDraft(u, w)
             \/ \E meta \in SUBSET Checks : Patch(u, w, meta)
      PROVE  Shut
  <2>1. /\ UNCHANGED owner
        /\ \A v \in Versions \ {w} : ver'[v] = ver[v]
        /\ \/ ver'[w].base = ver[w].base /\ ver'[w].deleted = ver[w].deleted
           \/ ver'[w] = EmptyRow("removed")
    BY <1>1, <1>5 DEF Publish, Deprecate, DeleteDraft, Patch, VersionRow
  <2>2. ~Exists(EmptyRow("removed"))
    BY DEF Exists, EmptyRow, LiveStates
  <2>3. Exists(ver[w])
    BY <1>5 DEF Publish, Deprecate, DeleteDraft, Patch, OwnedBy
  <2>4. current'[r] = NoVersion
    <3>1. CASE Publish(u, w)
      <4>1. ~ver[w].deleted
        BY <3>1, <1>1 DEF Publish, PublishGuard, ProperRow
      <4>2. ver[w].base # r
        BY <4>1, <2>3, <1>1
      <4>3. QED
        BY <3>1, <4>2, <1>1 DEF Publish
    <3>2. QED
      BY <3>1, <1>1, <1>5 DEF Deprecate, DeleteDraft, Patch
  <2>5. QED
    BY <1>1, <2>1, <2>2, <2>3, <2>4
<1>6. ASSUME NEW u \in Users, NEW s \in Resources, NEW w \in Versions,
             NEW meta \in SUBSET Checks, NEW dists \in SUBSET (Keys \union Links),
             CreateResource(u, s, w, meta, dists) \/ NewVersion(u, s, w, meta, dists)
      PROVE  Shut
  <2>1. s # r
    BY <1>1, <1>6 DEF CreateResource, NewVersion
  <2>2. /\ ver'[w].base = s /\ UNCHANGED current /\ owner'[r] = owner[r]
        /\ \A v \in Versions \ {w} : ver'[v] = ver[v]
    BY <1>1, <1>6, <2>1 DEF CreateResource, NewVersion, DraftRow
  <2>3. QED
    BY <1>1, <2>1, <2>2
<1>7. ASSUME UNCHANGED vars
      PROVE  Shut
  BY <1>1, <1>7 DEF vars
<1>8. Shut
  BY <1>3, <1>4, <1>5, <1>6, <1>7 DEF Next
<1>9. QED
  BY <1>8 DEF Closed, VersionsOf

-----------------------------------------------------------------------------
(***************************************************************************)
(* The inductive invariant of the life cycle holds in every reachable      *)
(* state: rows are proper, what is published is fair, pointers are issued. *)
(***************************************************************************)
THEOREM LifecycleIsSafe == Spec => []LifeInv
<1>1. QED
  BY InitLife, NextLife, PTL DEF Spec

\* What a reader gets to see as published passed the guard with an exact mean
\* of at least 0.4, and neither patch_draft nor a deletion takes that back.
THEOREM PublishedStaysFair == Spec => []PublishedIsFair
<1>1. QED
  BY LifecycleIsSafe, LifeIsFair, PTL

\* current_version_id and previous_version_id, which have no foreign key,
\* always lead to a version of the resource that was published.
THEOREM PointersLeadToIssued == Spec => []PointersAreIssued
<1>1. LifeInv => PointersAreIssued
  BY DEF LifeInv
<1>2. QED
  BY <1>1, LifecycleIsSafe, PTL

\* The row of a deleted version stays, and no handler gives it a URL again.
THEOREM TombstonesAreForGood == Spec => TombstonesRemain
<1>1. LifeInv /\ [Next]_vars =>
          [\A v \in Versions :
              ver[v].deleted => ver'[v].deleted /\ ver'[v].urls \subseteq ver[v].urls]_vars
  BY StepKeepsTombstones
<1>2. QED
  BY <1>1, LifecycleIsSafe, PTL DEF Spec, TombstonesRemain

\* After delete_resource no call opens the resource again.
THEOREM ClosedIsForGood == Spec => ClosedStaysClosed
<1>1. LifeInv /\ [Next]_vars => [\A r \in Resources : Closed(r) => Closed(r)']_vars
  BY StepKeepsClosed
<1>2. QED
  BY <1>1, LifecycleIsSafe, PTL DEF Spec, ClosedStaysClosed

-----------------------------------------------------------------------------
(* Minting.                                                                *)

USE DoisAreDistinct, DoiIsChecked

-----------------------------------------------------------------------------
(* Recording a DOI changes the metadata of a version only.                 *)

\* More metadata make no version less fair.
LEMMA MoreIsFair ==
    ASSUME NEW row, NEW next, FairRow(row), row.meta \subseteq next.meta,
           next.dists = row.dists, next.urls = row.urls
    PROVE  FairRow(next)
<1>1. FairChecksOf(row) \subseteq FairChecksOf(next)
  BY DEF FairChecksOf, HasDistribution
<1>2. QED
  BY <1>1, MoreCounts, PassedCounts DEF FairRow, IsFair

\* The row of v gets one more check in its metadata.
Noted(v) == [ver[v] EXCEPT !.meta = @ \union {"has_doi"}]

LEMMA NotedRow ==
    ASSUME LifeInv, NEW v \in Versions
    PROVE  LET row == Noted(v)
           IN  /\ row \in VersionRow /\ ProperRow(row)
               /\ row.state = ver[v].state /\ row.base = ver[v].base
               /\ row.prev = ver[v].prev /\ row.deleted = ver[v].deleted
               /\ row.urls = ver[v].urls
<1>. DEFINE row == Noted(v)
<1>1. ver[v] \in VersionRow /\ ProperRow(ver[v])
  BY ThisRow
<1>2. /\ row \in VersionRow
      /\ row.state = ver[v].state /\ row.base = ver[v].base
      /\ row.prev = ver[v].prev /\ row.deleted = ver[v].deleted
      /\ row.urls = ver[v].urls /\ row.dists = ver[v].dists
      /\ row.meta = ver[v].meta \union {"has_doi"}
  BY <1>1 DEF Noted, VersionRow
<1>. HIDE DEF row
<1>3. ProperRow(row)
  BY <1>1, <1>2, MoreIsFair
     DEF ProperRow, GoodPublished, HasLicense, HasDistribution, Exists
<1>4. QED
  BY <1>2, <1>3 DEF row

LEMMA NotedKeepsLife ==
    ASSUME LifeInv, NEW v \in Versions, Exists(ver[v]),
           ver' = [ver EXCEPT ![v] = Noted(v)], UNCHANGED <<owner, current>>
    PROVE  LifeInv'
<1>. DEFINE row == Noted(v)
<1>1. /\ row \in VersionRow /\ ProperRow(row)
      /\ row.state = ver[v].state /\ row.base = ver[v].base /\ row.prev = ver[v].prev
  BY NotedRow
<1>2. ver' = [ver EXCEPT ![v] = row]
  OBVIOUS
<1>. HIDE DEF row
<1>3. \A r \in Resources : IssuedRow(ver[v], r) => IssuedRow(row, r)
  BY <1>1 DEF IssuedRow
<1>4. ver' \in [Versions -> VersionRow] /\ RowsAreProper' /\ PointersAreIssued'
  BY <1>1, <1>2, <1>3, RowStep
<1>5. QED
  BY <1>4 DEF LifeInv, TypeOK

-----------------------------------------------------------------------------
(* The inductive invariant.                                                *)

Published(v) == v \in Versions /\ ver[v].state \in {"published", "deprecated"}

\* A running mint holds a DOI of its own for a version that was published,
\* and the version has none yet unless another mint overlapped with it.
MintOK(m) ==
    LET v == mint[m].ver
        d == mint[m].doi
    IN  /\ d \in Dois
        /\ Published(v)
        /\ d \notin lost
        /\ landing[d] = (IF At(m, "posted") THEN v ELSE NoVersion)
        /\ doi[v] # NoDoi => v \in doubled

MintsAreOK ==
    \A m \in Mints :
        /\ At(m, "idle") => mint[m] = IdleMint
        /\ ~At(m, "idle") => MintOK(m)

MintsAreApart ==
    \A m, n \in Mints :
        m # n /\ ~At(m, "idle") /\ ~At(n, "idle") =>
            /\ mint[m].doi # mint[n].doi
            /\ mint[m].ver = mint[n].ver => mint[m].ver \in doubled

LandedIsPublished == \A d \in Dois : landing[d] # NoVersion => Published(landing[d])

MintInv ==
    /\ LifeInv
    /\ MintTypeOK
    /\ MintsAreOK
    /\ MintsAreApart
    /\ LandedIsPublished
    /\ NoStrayDois

LEMMA InitMinting == MintInit => MintInv
BY InitLife DEF MintInit, MintInv, LifeInv, MintTypeOK, MintsAreOK, MintsAreApart,
                LandedIsPublished, NoStrayDois, IdleMint, Mint, At

-----------------------------------------------------------------------------
(* The handlers of Lifecycle write the DOI of rows that were never         *)
(* published only.                                                         *)

LifeStep ==
    /\ [Next]_vars
    /\ UNCHANGED <<landing, mint, lost, doubled>>
    /\ doi' \in [Versions -> Dois \union {NoDoi, OwnDoi}]
    /\ claimed' \subseteq Versions
    /\ \A v \in Versions : Published(v) => doi'[v] = doi[v]

LEMMA LifeStepKeeps ==
    ASSUME MintInv, LifeStep
    PROVE  MintInv'
<1>1. LifeInv' /\ TypeOK'
  BY NextLife DEF MintInv, LifeStep, LifeInv
<1>2. \A v : Published(v) => Published(v)' /\ doi'[v] = doi[v]
  BY StepKeepsIssued DEF MintInv, LifeStep, Published
<1>3. UNCHANGED <<landing, mint, lost, doubled>>
  BY DEF LifeStep
<1>4. MintTypeOK'
  BY <1>1, <1>3 DEF LifeStep, MintInv, MintTypeOK
<1>5. MintsAreOK'
  BY <1>2, <1>3 DEF MintInv, MintsAreOK, MintOK, At
<1>6. MintsAreApart'
  BY <1>3 DEF MintInv, MintsAreApart, At
<1>7. LandedIsPublished' /\ NoStrayDois'
  BY <1>2, <1>3 DEF MintInv, LandedIsPublished, NoStrayDois
<1>8. QED
  BY <1>1, <1>4, <1>5, <1>6, <1>7 DEF MintInv

\* A handler that writes the column leaves the other rows alone; a row that
\* is not claimed then has no DOI, or one of an unclaimed row before it.
LEMMA ColumnWritten ==
    ASSUME MintInv, NEW v \in Versions, NEW from \in Versions \union {NoVersion},
           NEW meta, WithDoi(v, from, meta)
    PROVE  /\ UNCHANGED <<landing, mint, lost, doubled>>
           /\ doi' \in [Versions -> Dois \union {NoDoi, OwnDoi}]
           /\ claimed' \subseteq Versions
           /\ \A w \in Versions \ {v} :
                 doi'[w] = doi[w] /\ (w \in claimed <=> w \in claimed')
           /\ \/ v \in claimed' \/ doi'[v] = NoDoi
              \/ /\ from \in Versions \ claimed
                 /\ doi'[v] = doi[from]
<1>1. PICK d \in Dois \union {NoDoi, OwnDoi} :
          /\ doi' = [doi EXCEPT ![v] = d]
          /\ claimed' = IF d = NoDoi \/ (d = DoiOf(from) /\ from \notin claimed)
                        THEN claimed \ {v} ELSE claimed \union {v}
  BY DEF WithDoi, Column
<1>2. UNCHANGED <<landing, mint, lost, doubled>>
  BY DEF WithDoi
<1>3. /\ doi \in [Versions -> Dois \union {NoDoi, OwnDoi}]
      /\ claimed \subseteq Versions
  BY DEF MintInv, MintTypeOK
<1>4. QED
  BY <1>1, <1>2, <1>3 DEF DoiOf

\* Every handler of Lifecycle makes such a step.
LEMMA DraftIsLifeStep ==
    ASSUME MintInv, NEW u \in Users, NEW r \in Resources, NEW v \in Versions,
           NEW meta \in SUBSET Checks, NEW dists \in SUBSET (Keys \union Links),
           Draft(u, r, v, meta, dists)
    PROVE  LifeStep
<1>1. Next /\ ver[v].state = "unused"
  <2>1. CreateResource(u, r, v, meta, dists) \/ NewVersion(u, r, v, meta, dists)
    BY DEF Draft
  <2>2. QED
    BY <2>1 DEF CreateResource, NewVersion, Next
<1>2. current[r] \in Versions \union {NoVersion}
  BY DEF MintInv, MintTypeOK, TypeOK
<1>3. PICK from \in Versions \union {NoVersion} : WithDoi(v, from, meta)
  BY <1>2 DEF Draft
<1>4. QED
  BY <1>1, <1>3, ColumnWritten DEF LifeStep, Published

LEMMA EditIsLifeStep ==
    ASSUME MintInv, NEW u \in Users, NEW v \in Versions, NEW meta \in SUBSET Checks,
           Edit(u, v, meta)
    PROVE  LifeStep
<1>1. Next /\ ver[v].state = "draft"
  BY DEF Edit, Patch, Next
<1>2. QED
  BY <1>1, ColumnWritten DEF Edit, LifeStep, Published

LEMMA OtherIsLifeStep ==
    ASSUME MintInv, NEW u \in Users, Other(u)
    PROVE  LifeStep
<1>1. Next
  BY DEF Other, Next
<1>2. UNCHANGED <<landing, mint, lost, doubled>>
  BY DEF Other, dois
<1>3. CASE UNCHANGED <<doi, claimed>>
  BY <1>1, <1>2, <1>3 DEF LifeStep, MintInv, MintTypeOK
<1>4. ASSUME NEW v \in Versions, DeleteDraft(u, v), doi' = [doi EXCEPT ![v] = NoDoi],
             claimed' = claimed \ {v}
      PROVE  LifeStep
  BY <1>1, <1>2, <1>4 DEF LifeStep, DeleteDraft, Published, MintInv, MintTypeOK
<1>5. QED
  BY <1>3, <1>4 DEF Other, dois

-----------------------------------------------------------------------------
(* The steps of a mint.                                                    *)

LEMMA MintTypes ==
    ASSUME MintInv, NEW m \in Mints
    PROVE  /\ mint[m] \in Mint /\ mint \in [Mints -> Mint]
           /\ doi \in [Versions -> Dois \union {NoDoi, OwnDoi}]
           /\ landing \in [Dois -> Versions \union {NoVersion}]
           /\ lost \subseteq Dois /\ doubled \subseteq Versions /\ claimed \subseteq Versions
           /\ TypeOK
           /\ ~At(m, "idle") => MintOK(m)
BY DEF MintInv, MintTypeOK, MintsAreOK

LEMMA MintReadKeeps ==
    ASSUME MintInv, NEW m \in Mints, NEW u \in Users, NEW v \in Versions, NEW d \in Dois,
           MintRead(m, u, v, d)
    PROVE  MintInv'
<1>1. /\ UNCHANGED <<vars, doi, landing, lost, claimed>>
      /\ doi[v] = NoDoi /\ Published(v) /\ At(m, "idle")
      /\ landing[d] = NoVersion /\ d \notin lost /\ \A n \in Mints : mint[n].doi # d
      /\ doubled \subseteq doubled' /\ doubled' \subseteq doubled \union {v}
      /\ \A n \in Mints : ~At(n, "idle") /\ mint[n].ver = v => v \in doubled'
  BY DEF MintRead, Mintable, Published, Fresh, Working
<1>2. /\ mint' \in [Mints -> Mint]
      /\ mint'[m] = [pc |-> "posting", ver |-> v, doi |-> d]
      /\ \A n \in Mints \ {m} : mint'[n] = mint[n]
  BY MintTypes DEF MintRead, Mint
<1>3. LifeInv' /\ MintTypeOK' /\ \A w : Published(w)' <=> Published(w)
  BY <1>1, <1>2, NextLife DEF vars, MintInv, LifeInv, MintTypeOK, Published
<1>4. MintsAreOK'
  BY <1>1, <1>2, <1>3 DEF MintInv, MintsAreOK, MintOK, At
<1>5. MintsAreApart'
  BY <1>1, <1>2 DEF MintInv, MintsAreApart, At
<1>6. LandedIsPublished'
  BY <1>1, <1>3 DEF MintInv, LandedIsPublished
<1>7. NoStrayDois'
  <2>1. mint[m].doi = NoDoi
    BY <1>1 DEF MintInv, MintsAreOK, IdleMint
  <2>2. QED
    BY <1>1, <1>2, <2>1 DEF MintInv, NoStrayDois
<1>8. QED
  BY <1>3, <1>4, <1>5, <1>6, <1>7 DEF MintInv

LEMMA RegisterKeeps ==
    ASSUME MintInv, NEW m \in Mints, Register(m)
    PROVE  MintInv'
<1>1. /\ UNCHANGED <<vars, doi, lost, doubled, claimed>>
      /\ landing' = [landing EXCEPT ![mint[m].doi] = mint[m].ver]
      /\ MintOK(m) /\ ~At(m, "idle") /\ ~At(m, "posted")
  BY MintTypes DEF Register, At
<1>2. /\ mint' \in [Mints -> Mint]
      /\ mint'[m].pc = "posted" /\ mint'[m].ver = mint[m].ver /\ mint'[m].doi = mint[m].doi
      /\ \A n \in Mints \ {m} : mint'[n] = mint[n]
  BY MintTypes DEF Register, Mint
<1>3. /\ landing'[mint[m].doi] = mint[m].ver
      /\ \A d \in Dois \ {mint[m].doi} : landing'[d] = landing[d]
      /\ landing' \in [Dois -> Versions \union {NoVersion}]
  BY <1>1, MintTypes DEF MintOK, Published
<1>4. LifeInv' /\ MintTypeOK' /\ \A w : Published(w)' <=> Published(w)
  BY <1>1, <1>2, <1>3, NextLife DEF vars, MintInv, LifeInv, MintTypeOK, Published
<1>5. MintsAreOK'
  <2>1. ASSUME NEW n \in Mints \ {m}, ~At(n, "idle")
        PROVE  MintOK(n)'
    <3>1. mint[n].doi # mint[m].doi /\ MintOK(n)
      BY <1>1, <2>1 DEF MintInv, MintsAreApart, MintsAreOK
    <3>2. QED
      BY <1>1, <1>2, <1>3, <1>4, <3>1 DEF MintOK, At
  <2>2. MintOK(m)'
    BY <1>1, <1>2, <1>3, <1>4 DEF MintOK, At
  <2>3. QED
    BY <1>2, <2>1, <2>2 DEF MintInv, MintsAreOK, At
<1>6. MintsAreApart'
  BY <1>1, <1>2 DEF MintInv, MintsAreApart, At
<1>7. LandedIsPublished'
  BY <1>1, <1>3, <1>4 DEF MintInv, LandedIsPublished, MintOK
<1>8. NoStrayDois'
  BY <1>1, <1>2, <1>3 DEF MintInv, NoStrayDois
<1>9. QED
  BY <1>4, <1>5, <1>6, <1>7, <1>8 DEF MintInv

LEMMA MintFailsKeeps ==
    ASSUME MintInv, NEW m \in Mints, MintFails(m)
    PROVE  MintInv'
<1>1. /\ UNCHANGED <<vars, doi, landing, doubled, claimed>>
      /\ lost' = lost \union {mint[m].doi}
      /\ MintOK(m) /\ ~At(m, "idle")
  BY MintTypes DEF MintFails
<1>2. /\ mint' \in [Mints -> Mint]
      /\ mint'[m] = IdleMint
      /\ \A n \in Mints \ {m} : mint'[n] = mint[n]
  BY MintTypes DEF MintFails, Mint, IdleMint
<1>3. LifeInv' /\ MintTypeOK' /\ \A w : Published(w)' <=> Published(w)
  BY <1>1, <1>2, NextLife DEF vars, MintInv, LifeInv, MintTypeOK, Published, MintOK
<1>4. MintsAreOK'
  <2>1. ASSUME NEW n \in Mints \ {m}, ~At(n, "idle")
        PROVE  MintOK(n)'
    <3>1. mint[n].doi # mint[m].doi /\ MintOK(n)
      BY <1>1, <2>1 DEF MintInv, MintsAreApart, MintsAreOK
    <3>2. QED
      BY <1>1, <1>2, <1>3, <3>1 DEF MintOK, At
  <2>2. QED
    BY <1>2, <2>1 DEF MintInv, MintsAreOK, At, IdleMint
<1>5. MintsAreApart'
  BY <1>1, <1>2 DEF MintInv, MintsAreApart, At, IdleMint
<1>6. LandedIsPublished'
  BY <1>1, <1>3 DEF MintInv, LandedIsPublished
<1>7. NoStrayDois'
  BY <1>1, <1>2 DEF MintInv, NoStrayDois
<1>8. QED
  BY <1>3, <1>4, <1>5, <1>6, <1>7 DEF MintInv

LEMMA MintCommitKeeps ==
    ASSUME MintInv, NEW m \in Mints, MintCommit(m)
    PROVE  MintInv'
<1>. DEFINE v == mint[m].ver
            d == mint[m].doi
<1>1. /\ UNCHANGED <<owner, current, landing, lost, doubled>>
      /\ claimed' = claimed \ {v}
      /\ MintOK(m) /\ ~At(m, "idle") /\ At(m, "posted")
      /\ v \in Versions /\ Published(v) /\ Exists(ver[v]) /\ d \in Dois /\ landing[d] = v
  BY MintTypes DEF MintCommit, At, MintOK, Published, Exists, LiveStates
<1>2. /\ mint' \in [Mints -> Mint]
      /\ mint'[m] = IdleMint
      /\ \A n \in Mints \ {m} : mint'[n] = mint[n]
  BY MintTypes DEF MintCommit, Mint, IdleMint
<1>3. /\ doi' \in [Versions -> Dois \union {NoDoi, OwnDoi}]
      /\ doi'[v] = d /\ \A w \in Versions \ {v} : doi'[w] = doi[w]
  BY <1>1, MintTypes DEF MintCommit
<1>4. ver' = [ver EXCEPT ![v] = Noted(v)]
  BY DEF MintCommit, Noted
<1>5. LifeInv'
  BY <1>1, <1>4, NotedKeepsLife DEF MintInv
<1>6. \A w : Published(w)' <=> Published(w)
  BY <1>1, <1>4, NotedRow DEF Published, MintInv, LifeInv, TypeOK
<1>7. MintTypeOK'
  BY <1>1, <1>2, <1>3, <1>5 DEF MintInv, LifeInv, MintTypeOK
<1>8. MintsAreOK'
  <2>1. ASSUME NEW n \in Mints \ {m}, ~At(n, "idle")
        PROVE  MintOK(n)'
    <3>1. /\ MintOK(n)
          /\ mint[n].ver = v => v \in doubled
      BY <1>1, <2>1 DEF MintInv, MintsAreApart, MintsAreOK
    <3>2. QED
      BY <1>1, <1>2, <1>3, <1>6, <3>1 DEF MintOK, At, Published
  <2>2. QED
    BY <1>2, <2>1 DEF MintInv, MintsAreOK, At, IdleMint
<1>9. MintsAreApart'
  BY <1>1, <1>2 DEF MintInv, MintsAreApart, At, IdleMint
<1>10. LandedIsPublished'
  BY <1>1, <1>6 DEF MintInv, LandedIsPublished
<1>11. NoStrayDois'
  <2>1. ASSUME NEW e \in Dois, landing[e] # NoVersion, e # d
        PROVE  \/ doi'[landing[e]] = e
               \/ e \in lost \/ landing[e] \in doubled
               \/ \E n \in Mints : mint'[n].doi = e
    <3>1. CASE doi[landing[e]] = e
      <4>1. landing[e] \in Versions
        BY <2>1 DEF MintInv, LandedIsPublished, Published
      <4>2. landing[e] = v => v \in doubled
        BY <1>1, <3>1 DEF MintOK
      <4>3. QED
        BY <3>1, <4>1, <4>2, <1>3
    <3>2. QED
      BY <2>1, <3>1, <1>2 DEF MintInv, NoStrayDois
  <2>2. QED
    BY <2>1, <1>1, <1>3 DEF NoStrayDois
<1>12. QED
  BY <1>5, <1>7, <1>8, <1>9, <1>10, <1>11 DEF MintInv

LEMMA NextMinting == MintInv /\ [MintNext]_mintVars => MintInv'
<1>. SUFFICES ASSUME MintInv, [MintNext]_mintVars
              PROVE  MintInv'
  OBVIOUS
<1>1. CASE LifeStep
  BY <1>1, LifeStepKeeps
<1>2. CASE UNCHANGED mintVars
  BY <1>2, <1>1 DEF mintVars, dois, LifeStep, MintInv, MintTypeOK
<1>3. QED
  BY <1>1, <1>2, DraftIsLifeStep, EditIsLifeStep, OtherIsLifeStep, MintReadKeeps,
     RegisterKeeps, MintFailsKeeps, MintCommitKeeps
     DEF MintNext

-----------------------------------------------------------------------------
(* What a step never does.                                                 *)

\* A step is one of Lifecycle, leaves the rows alone, or records a DOI.
LEMMA StepKinds ==
    ASSUME MintInv, [MintNext]_mintVars
    PROVE  \/ LifeStep
           \/ UNCHANGED <<vars, doi>>
           \/ \E m \in Mints : MintCommit(m)
BY DraftIsLifeStep, EditIsLifeStep, OtherIsLifeStep
   DEF MintNext, mintVars, dois, MintRead, Register, MintFails

LEMMA StepKeepsShownDois ==
    ASSUME MintInv, [MintNext]_mintVars, NEW v \in Versions,
           ver[v].state \in {"published", "deprecated"}, doi[v] # NoDoi
    PROVE  doi'[v] = doi[v] \/ v \in doubled
<1>1. CASE LifeStep
  BY <1>1 DEF LifeStep, Published
<1>2. ASSUME NEW m \in Mints, MintCommit(m)
      PROVE  doi'[v] = doi[v] \/ v \in doubled
  <2>1. MintOK(m) /\ doi' = [doi EXCEPT ![mint[m].ver] = mint[m].doi]
    BY <1>2, MintTypes DEF MintCommit, At
  <2>2. mint[m].ver = v => v \in doubled
    BY <2>1 DEF MintOK
  <2>3. QED
    BY <2>1, <2>2, MintTypes
<1>3. QED
  BY <1>1, <1>2, StepKinds

\* Recording a DOI neither revives a tombstone nor opens a resource.
LEMMA CommitKeepsRows ==
    ASSUME MintInv, NEW m \in Mints, MintCommit(m)
    PROVE  /\ UNCHANGED <<owner, current>>
           /\ \A v \in Versions :
                 /\ ver'[v].deleted = ver[v].deleted /\ ver'[v].urls = ver[v].urls
                 /\ ver'[v].state = ver[v].state /\ ver'[v].base = ver[v].base
<1>1. /\ UNCHANGED <<owner, current>> /\ mint[m].ver \in Versions
      /\ ver' = [ver EXCEPT ![mint[m].ver] = Noted(mint[m].ver)]
  BY MintTypes DEF MintCommit, Noted, At, MintOK, Published
<1>2. QED
  BY <1>1, NotedRow DEF MintInv, LifeInv, TypeOK

LEMMA MintStepKeepsTombstones ==
    ASSUME MintInv, [MintNext]_mintVars, NEW v \in Versions, ver[v].deleted
    PROVE  ver'[v].deleted /\ ver'[v].urls \subseteq ver[v].urls
<1>1. CASE LifeStep \/ UNCHANGED vars
  BY <1>1, StepKeepsTombstones DEF LifeStep, MintInv
<1>2. ASSUME NEW m \in Mints, MintCommit(m)
      PROVE  ver'[v].deleted /\ ver'[v].urls \subseteq ver[v].urls
  BY <1>2, CommitKeepsRows
<1>3. QED
  BY <1>1, <1>2, StepKinds

LEMMA MintStepKeepsClosed ==
    ASSUME MintInv, [MintNext]_mintVars, NEW r \in Resources, Closed(r)
    PROVE  Closed(r)'
<1>1. CASE LifeStep \/ UNCHANGED vars
  BY <1>1, StepKeepsClosed DEF LifeStep, MintInv
<1>2. ASSUME NEW m \in Mints, MintCommit(m)
      PROVE  Closed(r)'
  BY <1>2, CommitKeepsRows DEF Closed, VersionsOf, Exists
<1>3. QED
  BY <1>1, <1>2, StepKinds

-----------------------------------------------------------------------------
(* A DOI leads to the version that shows it, or to one it follows.         *)

LinesAreKept ==
    /\ \A v \in Versions : ~Exists(ver[v]) => ver[v].prev = NoVersion
    /\ \A v \in Versions \ claimed : doi[v] \in Dois => landing[doi[v]] \in Line(v)

\* No version follows another one than before, and no DOI is shown by
\* another version, but for what payloads bring.
LEMMA SameLines ==
    ASSUME LinesAreKept, UNCHANGED landing,
           \A v \in Versions :
              /\ ver'[v].prev = ver[v].prev
              /\ Exists(ver[v]) => Exists(ver'[v])
              /\ \/ v \in claimed' \/ doi'[v] = NoDoi
                 \/ doi'[v] = doi[v] /\ v \notin claimed
    PROVE  LinesAreKept'
<1>1. \A vs \in SUBSET Versions : WithPrevious(vs)' <=> WithPrevious(vs)
  BY DEF WithPrevious
<1>2. \A v \in Versions : Line(v)' = Line(v)
  BY <1>1 DEF Line
<1>3. \A v \in Versions \ claimed' : doi'[v] \in Dois => landing'[doi'[v]] \in Line(v)'
  BY <1>2, DoisAreDistinct DEF LinesAreKept
<1>4. QED
  BY <1>3 DEF LinesAreKept

LEMMA NewVersionLines ==
    ASSUME MintInv, LinesAreKept, NEW u \in Users, NEW r \in Resources, NEW v \in Versions,
           NEW meta \in SUBSET Checks, NEW dists \in SUBSET (Keys \union Links),
           NewVersion(u, r, v, meta, dists), WithDoi(v, current[r], meta)
    PROVE  LinesAreKept'
<1>. DEFINE c == current[r]
<1>1. /\ c \in Versions /\ Exists(ver[c]) /\ ~Exists(ver[v]) /\ UNCHANGED landing
      /\ ver[v].prev = NoVersion
  BY DEF NewVersion, WithDoi, MintInv, MintTypeOK, TypeOK, Exists, LiveStates, LinesAreKept
<1>2. /\ ver'[v].prev = c /\ Exists(ver'[v])
      /\ \A w \in Versions \ {v} : ver'[w] = ver[w]
  BY <1>1 DEF NewVersion, DraftRow, MintInv, MintTypeOK, TypeOK, Exists, LiveStates
<1>3. /\ \/ v \in claimed' \/ doi'[v] = NoDoi
         \/ doi'[v] = doi[c] /\ c \notin claimed
      /\ \A w \in Versions \ {v} : doi'[w] = doi[w] /\ (w \in claimed <=> w \in claimed')
  BY <1>1, ColumnWritten
<1>4. ASSUME NEW vs \in SUBSET Versions, WithPrevious(vs)'
      PROVE  WithPrevious(vs) /\ (v \in vs => c \in vs)
  <2>1. \A w \in vs : ver'[w].prev \in vs \union {NoVersion}
    BY <1>4 DEF WithPrevious
  <2>2. c # NoVersion
    BY <1>1, NullsAreNoIds
  <2>. HIDE DEF c
  <2>3. QED
    BY <1>1, <1>2, <2>1, <2>2 DEF WithPrevious
<1>5. ASSUME NEW w \in Versions \ claimed', doi'[w] \in Dois
      PROVE  landing[doi'[w]] \in Line(w)'
  <2>1. /\ doi'[w] = doi[IF w = v THEN c ELSE w]
        /\ (IF w = v THEN c ELSE w) \notin claimed
    BY <1>3, <1>5, DoisAreDistinct
  <2>2. landing[doi'[w]] \in Line(IF w = v THEN c ELSE w)
    BY <1>1, <1>5, <2>1 DEF LinesAreKept
  <2>3. QED
    BY <1>4, <2>2 DEF Line
<1>6. QED
  BY <1>1, <1>2, <1>5 DEF LinesAreKept

LEMMA DeleteDraftLines ==
    ASSUME MintInv, LinesAreKept, NEW u \in Users, NEW v \in Versions,
           DeleteDraft(u, v), doi' = [doi EXCEPT ![v] = NoDoi],
           claimed' = claimed \ {v}, UNCHANGED landing
    PROVE  LinesAreKept'
<1>1. /\ ver'[v] = EmptyRow("removed") /\ doi'[v] = NoDoi
      /\ \A w \in Versions \ {v} : ver'[w] = ver[w] /\ doi'[w] = doi[w]
  BY DEF DeleteDraft, MintInv, MintTypeOK, TypeOK
<1>2. ver'[v].prev = NoVersion
  BY <1>1 DEF EmptyRow
<1>3. \A w \in Versions : ver[w].prev # v
  BY NullsAreNoIds DEF MintInv, LifeInv, PointersAreIssued, Issued, DeleteDraft, LinesAreKept
<1>4. ASSUME NEW vs \in SUBSET Versions, WithPrevious(vs)'
      PROVE  WithPrevious(vs \ {v})
  BY <1>1, <1>3, <1>4 DEF WithPrevious
<1>5. ASSUME NEW w \in Versions \ claimed', doi'[w] \in Dois
      PROVE  landing[doi'[w]] \in Line(w)'
  <2>1. w # v /\ doi'[w] = doi[w] /\ w \notin claimed
    BY <1>1, <1>5, DoisAreDistinct
  <2>2. landing[doi'[w]] \in Line(w)
    BY <1>5, <2>1 DEF LinesAreKept
  <2>3. ASSUME NEW vs \in SUBSET Versions, w \in vs, WithPrevious(vs)'
        PROVE  landing[doi'[w]] \in vs
    <3>1. vs \ {v} \in SUBSET Versions /\ w \in vs \ {v}
      BY <2>1, <2>3
    <3>2. QED
      BY <1>4, <2>2, <2>3, <3>1 DEF Line
  <2>4. QED
    BY <2>2, <2>3 DEF Line
<1>6. QED
  BY <1>1, <1>2, <1>5 DEF LinesAreKept

LEMMA DraftLines ==
    ASSUME MintInv, LinesAreKept, NEW u \in Users, NEW r \in Resources, NEW v \in Versions,
           NEW meta \in SUBSET Checks, NEW dists \in SUBSET (Keys \union Links),
           Draft(u, r, v, meta, dists)
    PROVE  LinesAreKept'
<1>1. ASSUME CreateResource(u, r, v, meta, dists), WithDoi(v, NoVersion, meta)
      PROVE  LinesAreKept'
  <2>1. /\ ver' = [ver EXCEPT ![v] = DraftRow(r, u, NoVersion, meta, dists)]
        /\ ver[v].prev = NoVersion
    BY <1>1 DEF CreateResource, LinesAreKept, Exists, LiveStates
  <2>2. \A w \in Versions : ver'[w].prev = ver[w].prev /\ (Exists(ver[w]) => Exists(ver'[w]))
    BY <2>1 DEF DraftRow, MintInv, MintTypeOK, TypeOK, Exists, LiveStates
  <2>3. /\ UNCHANGED landing
        /\ \A w \in Versions : \/ w \in claimed' \/ doi'[w] = NoDoi
                               \/ doi'[w] = doi[w] /\ w \notin claimed
    <3>1. /\ UNCHANGED <<landing, mint, lost, doubled>>
          /\ \A w \in Versions \ {v} :
                doi'[w] = doi[w] /\ (w \in claimed <=> w \in claimed')
          /\ \/ v \in claimed' \/ doi'[v] = NoDoi
             \/ NoVersion \in Versions
      BY <1>1, ColumnWritten
    <3>2. QED
      BY <3>1, NullsAreNoIds
  <2>4. QED
    BY <2>2, <2>3, SameLines
<1>2. QED
  BY <1>1, NewVersionLines DEF Draft

LEMMA EditLines ==
    ASSUME MintInv, LinesAreKept, NEW u \in Users, NEW v \in Versions,
           NEW meta \in SUBSET Checks, Edit(u, v, meta)
    PROVE  LinesAreKept'
<1>1. ver' = [ver EXCEPT ![v].meta = meta]
  BY DEF Edit, Patch
<1>2. \A w \in Versions : ver'[w].prev = ver[w].prev /\ (Exists(ver[w]) => Exists(ver'[w]))
  BY <1>1 DEF MintInv, MintTypeOK, TypeOK, Exists, VersionRow
<1>3. /\ UNCHANGED landing
      /\ \A w \in Versions : \/ w \in claimed' \/ doi'[w] = NoDoi
                             \/ doi'[w] = doi[w] /\ w \notin claimed
  <2>1. /\ UNCHANGED <<landing, mint, lost, doubled>>
        /\ \A w \in Versions \ {v} :
              doi'[w] = doi[w] /\ (w \in claimed <=> w \in claimed')
        /\ \/ v \in claimed' \/ doi'[v] = NoDoi
           \/ v \notin claimed /\ doi'[v] = doi[v]
    BY ColumnWritten DEF Edit
  <2>2. QED
    BY <2>1
<1>4. QED
  BY <1>2, <1>3, SameLines

LEMMA OtherLines ==
    ASSUME MintInv, LinesAreKept, NEW u \in Users, Other(u)
    PROVE  LinesAreKept'
<1>1. ver \in [Versions -> VersionRow]
  BY DEF MintInv, MintTypeOK, TypeOK
<1>2. ASSUME NEW vs \in SUBSET Versions, NEW kept, ver' = Tombstoned(vs, kept),
             UNCHANGED dois
      PROVE  LinesAreKept'
  <2>1. \A v \in Versions : ver'[v].prev = ver[v].prev /\ (Exists(ver[v]) => Exists(ver'[v]))
    BY <1>1, <1>2 DEF Tombstoned, VersionRow, Exists, LiveStates
  <2>2. QED
    BY <1>2, <2>1, SameLines DEF dois
<1>3. ASSUME NEW v \in Versions, Publish(u, v) \/ Deprecate(u, v), UNCHANGED dois
      PROVE  LinesAreKept'
  <2>1. \A w \in Versions : ver'[w].prev = ver[w].prev /\ (Exists(ver[w]) => Exists(ver'[w]))
    BY <1>1, <1>3 DEF Publish, Deprecate, VersionRow, Exists, LiveStates
  <2>2. QED
    BY <1>3, <2>1, SameLines DEF dois
<1>4. ASSUME NEW v \in Versions, DeleteVersion(u, v), UNCHANGED dois
      PROVE  LinesAreKept'
  BY <1>2, <1>4 DEF DeleteVersion
<1>5. ASSUME NEW r \in Resources, DeleteResource(u, r), UNCHANGED dois
      PROVE  LinesAreKept'
  BY <1>2, <1>5 DEF DeleteResource, VersionsOf
<1>6. QED
  BY <1>3, <1>4, <1>5, DeleteDraftLines DEF Other

LEMMA MintLines ==
    ASSUME MintInv, LinesAreKept, NEW m \in Mints,
           \/ \E u \in Users, v \in Versions, d \in Dois : MintRead(m, u, v, d)
           \/ Register(m) \/ MintFails(m) \/ MintCommit(m)
    PROVE  LinesAreKept'
<1>1. CASE UNCHANGED <<vars, doi, landing, claimed>>
  BY <1>1, SameLines DEF vars
<1>2. CASE Register(m)
  <2>1. /\ landing' = [landing EXCEPT ![mint[m].doi] = mint[m].ver]
        /\ landing[mint[m].doi] = NoVersion
    BY <1>2, MintTypes DEF Register, At, MintOK
  <2>2. \A v \in Versions : Line(v)' = Line(v)
    BY <1>2 DEF Register, vars, Line, WithPrevious
  <2>3. UNCHANGED <<vars, doi, claimed>>
    BY <1>2 DEF Register
  <2>4. ASSUME NEW v \in Versions \ claimed, doi[v] \in Dois
        PROVE  landing'[doi[v]] \in Line(v)
    <3>1. landing[doi[v]] \in Line(v) /\ landing[doi[v]] # NoVersion
      BY <2>4, NullsAreNoIds DEF LinesAreKept, Line
    <3>2. QED
      BY <2>1, <2>4, <3>1, MintTypes
  <2>5. QED
    BY <2>2, <2>3, <2>4 DEF LinesAreKept, vars
<1>3. CASE MintCommit(m)
  <2>. DEFINE w == mint[m].ver
  <2>1. /\ w \in Versions /\ landing[mint[m].doi] = w /\ UNCHANGED landing
        /\ doi' = [doi EXCEPT ![w] = mint[m].doi]
        /\ claimed' = claimed \ {w}
        /\ ver' = [ver EXCEPT ![w] = Noted(w)]
    BY <1>3, MintTypes DEF MintCommit, Noted, At, MintOK, Published
  <2>2. \A v \in Versions : ver'[v].prev = ver[v].prev /\ ver'[v].state = ver[v].state
    BY <2>1, NotedRow DEF MintInv, LifeInv, TypeOK
  <2>3. \A v \in Versions : Line(v)' = Line(v) /\ v \in Line(v)
    <3>1. \A vs \in SUBSET Versions : WithPrevious(vs)' <=> WithPrevious(vs)
      BY <2>2 DEF WithPrevious
    <3>2. QED
      BY <3>1 DEF Line
  <2>4. \A v \in Versions \ claimed' : doi'[v] \in Dois => landing[doi'[v]] \in Line(v)
    BY <2>1, <2>3, MintTypes DEF LinesAreKept
  <2>5. QED
    BY <2>1, <2>2, <2>3, <2>4 DEF LinesAreKept, Exists
<1>4. QED
  BY <1>1, <1>2, <1>3 DEF MintRead, MintFails

LEMMA NextLines == MintInv /\ LinesAreKept /\ [MintNext]_mintVars => LinesAreKept'
<1>. SUFFICES ASSUME MintInv, LinesAreKept, [MintNext]_mintVars
              PROVE  LinesAreKept'
  OBVIOUS
<1>1. CASE UNCHANGED mintVars
  BY <1>1, SameLines DEF mintVars, vars, dois
<1>2. QED
  BY <1>1, DraftLines, EditLines, OtherLines, MintLines DEF MintNext

LEMMA InitLines == MintInit => LinesAreKept
BY DoisAreDistinct DEF MintInit, Init, LinesAreKept, EmptyRow

LEMMA LinesLand == MintInv /\ LinesAreKept => ShownDoisLand
BY DEF MintInv, LinesAreKept, LandedIsPublished, Published, ShownDoisLand

-----------------------------------------------------------------------------
(***************************************************************************)
(* The inductive invariant holds in every reachable state, whatever mints  *)
(* of DOIs overlap with each other and with the handlers of Lifecycle.     *)
(***************************************************************************)
THEOREM MintingIsSafe == MintSpec => []MintInv
<1>1. QED
  BY InitMinting, NextMinting, PTL DEF MintSpec

\* mint_doi adds the check has_doi to a version whose state it does not look
\* at again: what is published stays fair all the same.
THEOREM MintedStaysFair == MintSpec => []PublishedIsFair
<1>1. MintInv => PublishedIsFair
  BY LifeIsFair DEF MintInv
<1>2. QED
  BY <1>1, MintingIsSafe, PTL

\* Minting keeps current_version_id and previous_version_id intact.
THEOREM MintedPointersAreIssued == MintSpec => []PointersAreIssued
<1>1. MintInv => PointersAreIssued
  BY DEF MintInv, LifeInv
<1>2. QED
  BY <1>1, MintingIsSafe, PTL

\* A DOI that DataCite registered is shown by its version, or its mint is
\* still running, failed, or overlapped with another one of the version.
THEOREM NoDoiIsStray == MintSpec => []NoStrayDois
<1>1. MintInv => NoStrayDois
  BY DEF MintInv
<1>2. QED
  BY <1>1, MintingIsSafe, PTL

\* A DOI that mint_doi registered leads to a version that was published; one that
\* it put on a version, and create_new_version copied to those that follow it,
\* leads to a version in their line. Payloads may name any DOI.
THEOREM DoisLand == MintSpec => []ShownDoisLand
<1>1. QED
  BY InitMinting, NextMinting, InitLines, NextLines, LinesLand, PTL DEF MintSpec

\* The DOI of a version that was published is replaced only when two of its
\* mints overlapped.
THEOREM DoisStand == MintSpec => ShownDoisStand
<1>1. MintInv /\ [MintNext]_mintVars =>
          [\A v \in Versions :
              ver[v].state \in {"published", "deprecated"} /\ doi[v] # NoDoi =>
                  doi'[v] = doi[v] \/ v \in doubled]_mintVars
  BY StepKeepsShownDois
<1>2. QED
  BY <1>1, MintingIsSafe, PTL DEF MintSpec, ShownDoisStand

\* mint_doi commits to a row that may have become a tombstone since it was
\* read, and leaves it one, without URLs.
THEOREM MintingKeepsTombstones == MintSpec => TombstonesRemain
<1>1. MintInv /\ [MintNext]_mintVars =>
          [\A v \in Versions :
              ver[v].deleted => ver'[v].deleted /\ ver'[v].urls \subseteq ver[v].urls]_vars
  BY MintStepKeepsTombstones
<1>2. QED
  BY <1>1, MintingIsSafe, PTL DEF MintSpec, TombstonesRemain

\* A deleted resource stays closed while mints of its versions go on.
THEOREM MintingKeepsClosed == MintSpec => ClosedStaysClosed
<1>1. MintInv /\ [MintNext]_mintVars => [\A r \in Resources : Closed(r) => Closed(r)']_vars
  BY MintStepKeepsClosed
<1>2. QED
  BY <1>1, MintingIsSafe, PTL DEF MintSpec, ClosedStaysClosed
=============================================================================
