------------------------------ MODULE Minting ------------------------------
(***************************************************************************)
(* DOIs of versions (POST /resources/{id}/mint-doi, app/routers/interop.py *)
(* and app/services/datacite_service.py) beside the life cycle of the      *)
(* versions (Lifecycle).  A mint reads the row, registers a fresh DOI at   *)
(* DataCite, which takes up to thirty seconds, and records it at the end:  *)
(* mints overlap with each other, with the other handlers, with lost       *)
(* answers and with crashes.                                               *)
(***************************************************************************)
EXTENDS Lifecycle

CONSTANTS
    Dois,      \* DOIs that _make_doi can return (UUIDs, none twice)
    Mints,     \* mint-doi requests in flight
    NoDoi,     \* SQL NULL
    OwnDoi     \* the DOIs of payloads that _make_doi never returns

ASSUME DoisAreDistinct == NoDoi \notin Dois \union {OwnDoi} /\ OwnDoi \notin Dois
ASSUME DoiIsChecked == "has_doi" \in Checks

VARIABLES
    doi,       \* version -> its column doi
    landing,   \* DataCite: DOI -> the version its URL leads to
    mint,      \* request -> what the handler holds
    lost,      \* history: DOIs whose mint failed after they were chosen
    doubled,   \* history: versions that two mints worked on at once
    claimed    \* history: versions whose DOI a payload brought, not a mint

dois == <<doi, landing, mint, lost, doubled, claimed>>
mintVars == <<vars, dois>>

Mint ==
    [pc  : {"idle", "posting", "posted"},
     ver : Versions \union {NoVersion},
     doi : Dois \union {NoDoi}]

IdleMint == [pc |-> "idle", ver |-> NoVersion, doi |-> NoDoi]

MintInit ==
    /\ Init
    /\ doi = [v \in Versions |-> NoDoi]
    /\ landing = [d \in Dois |-> NoVersion]
    /\ mint = [m \in Mints |-> IdleMint]
    /\ lost = {}
    /\ doubled = {}
    /\ claimed = {}

-----------------------------------------------------------------------------
(* The column doi in the other handlers; the check "has_doi" is about it.  *)

DoiOf(v) == IF v = NoVersion THEN NoDoi ELSE doi[v]

\* What a payload with these metadata can bring: any string, a DOI that was
\* minted for another version included.
Column(meta) == IF "has_doi" \in meta THEN Dois \union {OwnDoi} ELSE {NoDoi}

\* The row of v takes the DOI of the version "from" over, or another one that
\* the payload brings.
WithDoi(v, from, meta) ==
    /\ \E d \in Column(meta) :
          /\ doi' = [doi EXCEPT ![v] = d]
          /\ claimed' = IF d = NoDoi \/ (d = DoiOf(from) /\ from \notin claimed)
                        THEN claimed \ {v} ELSE claimed \union {v}
    /\ UNCHANGED <<landing, mint, lost, doubled>>

\* A new version takes the DOI of the current one over, unless its payload
\* has another one, or null.
Draft(u, r, v, meta, dists) ==
    \/ CreateResource(u, r, v, meta, dists) /\ WithDoi(v, NoVersion, meta)
    \/ NewVersion(u, r, v, meta, dists) /\ WithDoi(v, current[r], meta)

Edit(u, v, meta) == Patch(u, v, meta) /\ WithDoi(v, v, meta)

\* No other handler touches the column; a deleted row takes it along.
Other(u) ==
    \/ \E v \in Versions :
          \/ (Publish(u, v) \/ Deprecate(u, v) \/ DeleteVersion(u, v)) /\ UNCHANGED dois
          \/ /\ DeleteDraft(u, v)
             /\ doi' = [doi EXCEPT ![v] = NoDoi]
             /\ claimed' = claimed \ {v}
             /\ UNCHANGED <<landing, mint, lost, doubled>>
    \/ \E r \in Resources : DeleteResource(u, r) /\ UNCHANGED dois

-----------------------------------------------------------------------------
(* mint_doi.                                                               *)

At(m, point) == mint[m].pc = point
Working(v) == {m \in Mints : ~At(m, "idle") /\ mint[m].ver = v}

\* The DOIs that no request has chosen yet.
Fresh == {d \in Dois :
            /\ landing[d] = NoVersion /\ d \notin lost
            /\ \A m \in Mints : mint[m].doi # d}

Mintable(u, v) == OwnedBy(v, u) /\ ver[v].state = "published"

\* Mutant: the DOI of the row is not looked at.
MintReadAgain(m, u, v, d) ==
    /\ At(m, "idle")
    /\ Mintable(u, v)
    /\ d \in Fresh
    /\ mint' = [mint EXCEPT ![m] = [pc |-> "posting", ver |-> v, doi |-> d]]
    /\ doubled' = IF Working(v) = {} THEN doubled ELSE doubled \union {v}
    /\ UNCHANGED <<vars, doi, landing, lost, claimed>>

\* The row is read and has none: a fresh DOI is sent to DataCite.  The DOI
\* of a row that has one is the answer, and nothing is written.
MintRead(m, u, v, d) ==
    /\ At(m, "idle")
    /\ Mintable(u, v)
    /\ doi[v] = NoDoi
    /\ d \in Fresh
    /\ mint' = [mint EXCEPT ![m] = [pc |-> "posting", ver |-> v, doi |-> d]]
    /\ doubled' = IF Working(v) = {} THEN doubled ELSE doubled \union {v}
    /\ UNCHANGED <<vars, doi, landing, lost, claimed>>

\* DataCite registers the DOI with the landing page of the version.
Register(m) ==
    /\ At(m, "posting")
    /\ landing' = [landing EXCEPT ![mint[m].doi] = mint[m].ver]
    /\ mint' = [mint EXCEPT ![m].pc = "posted"]
    /\ UNCHANGED <<vars, doi, lost, doubled, claimed>>

\* DataCite refuses, its answer is lost or late, the process crashes or the
\* commit fails.  A DOI it has registered stays registered; what it registers
\* only after the request gave up is left out.
MintFails(m) ==
    /\ ~At(m, "idle")
    /\ mint' = [mint EXCEPT ![m] = IdleMint]
    /\ lost' = lost \union {mint[m].doi}
    /\ UNCHANGED <<vars, doi, landing, doubled, claimed>>

\* Mutant: the answer of DataCite is not waited for.
MintCommitEarly(m) ==
    /\ ~At(m, "idle")
    /\ doi' = [doi EXCEPT ![mint[m].ver] = mint[m].doi]
    /\ ver' = [ver EXCEPT ![mint[m].ver].meta = @ \union {"has_doi"}]
    /\ mint' = [mint EXCEPT ![m] = IdleMint]
    /\ claimed' = claimed \ {mint[m].ver}
    /\ UNCHANGED <<owner, current, landing, lost, doubled>>

\* Mutant: a DOI is not recorded when the version was deprecated meanwhile.
MintCommitPublished(m) ==
    /\ At(m, "posted")
    /\ mint' = [mint EXCEPT ![m] = IdleMint]
    /\ IF ver[mint[m].ver].state = "published"
       THEN /\ doi' = [doi EXCEPT ![mint[m].ver] = mint[m].doi]
            /\ ver' = [ver EXCEPT ![mint[m].ver].meta = @ \union {"has_doi"}]
            /\ claimed' = claimed \ {mint[m].ver}
       ELSE UNCHANGED <<doi, ver, claimed>>
    /\ UNCHANGED <<owner, current, landing, lost, doubled>>

\* The column was NULL when it was read, so it is written, whatever it is
\* now; the state is not looked at again.
MintCommit(m) ==
    /\ At(m, "posted")
    /\ doi' = [doi EXCEPT ![mint[m].ver] = mint[m].doi]
    /\ ver' = [ver EXCEPT ![mint[m].ver].meta = @ \union {"has_doi"}]
    /\ mint' = [mint EXCEPT ![m] = IdleMint]
    /\ claimed' = claimed \ {mint[m].ver}
    /\ UNCHANGED <<owner, current, landing, lost, doubled>>

-----------------------------------------------------------------------------
MintNext ==
    \/ \E u \in Users :
          \/ \E r \in Resources, v \in Versions, meta \in SUBSET Checks,
                dists \in SUBSET (Keys \union Links) : Draft(u, r, v, meta, dists)
          \/ \E v \in Versions, meta \in SUBSET Checks : Edit(u, v, meta)
          \/ Other(u)
          \/ \E v \in Versions, m \in Mints, d \in Dois : MintRead(m, u, v, d)
    \/ \E m \in Mints : Register(m) \/ MintFails(m) \/ MintCommit(m)

MintSpec == MintInit /\ [][MintNext]_mintVars

-----------------------------------------------------------------------------
MintTypeOK ==
    /\ TypeOK
    /\ doi \in [Versions -> Dois \union {NoDoi, OwnDoi}]
    /\ landing \in [Dois -> Versions \union {NoVersion}]
    /\ mint \in [Mints -> Mint]
    /\ lost \subseteq Dois
    /\ doubled \subseteq Versions
    /\ claimed \subseteq Versions

\* vs holds, with a version, the one it follows.
WithPrevious(vs) == \A v \in vs : ver[v].prev \in vs \union {NoVersion}

\* v, the version it follows, the one that follows, and so on.
Line(v) ==
    {w \in Versions : \A vs \in SUBSET Versions : v \in vs /\ WithPrevious(vs) => w \in vs}

(***************************************************************************)
(* A DOI that FairDataHive minted leads somewhere sensible: DataCite knows *)
(* the landing page of a version that was published, and a version that    *)
(* shows the DOI is that one or follows it (mint_doi, and                  *)
(* create_new_version, which copies the column).  Of a version whose DOI   *)
(* came with a payload the latter is not true: the schemas take any        *)
(* string, and nothing compares it with the DOIs of other resources.       *)
(***************************************************************************)
ShownDoisLand ==
    /\ \A d \in Dois :
          landing[d] # NoVersion =>
              ver[landing[d]].state \in {"published", "deprecated"}
    /\ \A v \in Versions \ claimed :
          doi[v] \in Dois => landing[doi[v]] \in Line(v)

(***************************************************************************)
(* What an owner was answered and a published version shows is its DOI for *)
(* good, as a tombstone too, unless two mints of the version overlapped    *)
(* and the later commit replaces the DOI of the other one.                 *)
(***************************************************************************)
ShownDoisStand ==
    [][\A v \in Versions :
          ver[v].state \in {"published", "deprecated"} /\ doi[v] # NoDoi =>
              doi'[v] = doi[v] \/ v \in doubled]_mintVars

(***************************************************************************)
(* Minting is idempotent but for failures and overlaps: a registered DOI   *)
(* that its version does not show belongs to a request that is still       *)
(* running or that failed, or to one of two that overlapped.               *)
(***************************************************************************)
NoStrayDois ==
    \A d \in Dois :
        landing[d] # NoVersion =>
            \/ doi[landing[d]] = d
            \/ d \in lost
            \/ landing[d] \in doubled
            \/ \E m \in Mints : mint[m].doi = d
=============================================================================
