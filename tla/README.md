# FAIRDataHive in TLA+

FAIRDataHive (`src/`) is a catalogue of research data: a FastAPI application that
keeps rows in PostgreSQL, files in an S3 bucket and search answers in Redis.
Every request runs in one `asyncio` task with a database session of its own, so
two requests interleave at every `await`. The handlers hold no lock across
awaits, no row has a version counter, and deletes in the bucket are not part of
any transaction. This directory models the parts of the program that change
shared state, checks them with TLC on small instances, and proves their
safety properties with TLAPS for every number of requests, versions and objects.

## Components

| Component | State | Operations | What makes it hard |
|---|---|---|---|
| Catalogue write path (`services/resource_service.py`) | `resource`, `resource_version`, `dataset`, `distribution` rows | create, patch, publish, deprecate, new version, delete version, delete resource | check and commit are in different steps; two pointer columns without foreign keys |
| Tombstones and objects (`_tombstone_versions`, `object_storage_service.delete_object`) | `data_deleted`, `download_url`, the bucket | delete every upload of a version, clear its URL | the bucket does not roll back; a delete can fail before or after the object is gone; an upload token can be registered twice |
| FAIR score (`services/fair_service.py`) | none | score of a version, publish guard | rounding at the threshold |
| DOI minting (`services/datacite_service.py`, `routers/interop.py`) | column `doi`, DataCite | mint | a call of up to 30 s between the read and the commit; a DOI cannot be taken back |
| Access requests (`services/access_service.py`) | `access_request`, `access_rights`, notifications | create, accept, reject, revoke, purge, edits of a private draft | read-modify-write of a list; duplicate check before insert; purge beside decisions |
| Downloads and audit (`routers/files.py`, `audit_service.py`) | `download_log`, `download_count` | presign, log | lost update of the counter, log in a background task |
| Search and cache (`routers/search.py`, `cache_service.py`, `search_service.py`, `embedding_service.py`) | Redis keys with a TTL, embeddings, background tasks | search, invalidate, embed | fills that race with invalidations, failures that are swallowed, tasks that are lost |
| Uploads (`routers/files.py`, `object_storage_service.py`) | bucket, unfinished multipart uploads | put, multipart, ZIP extraction | one step of several failing, an abort that fails, part sizes at their boundary |
| Provisioning (`tools/provision_storage.py`, `docker/entrypoint.sh`) | the bucket | check, create, wait | containers that start together, lost answers, a deadline |
| Object migration (`scripts/migrate_objects.py`) | two buckets, a manifest file | inventory, copy, verify, db-check | crash and resume, retries, a source that changes |
| Authentication (`core/auth.py`) | the cached signing keys of a process | fetch, decide a token | overlapping fetches stored in any order, a rotation in between |
| Visibility and harvesting (`core/catalog_visibility.py`, `core/resource_access.py`, `routers/oai.py`) | none; a portal keeps a date and records | list, incremental list | publications that commit during a list, a limit without a resumption token |
| Notifications (`services/notification_service.py`) | `notification` rows | created by access handlers, list, mark read | |
| User profiles, RDF and exports, configuration, database migrations, frontend, deployment | | | see "Not modelled" |

`PROJECT.json` lists every component with its status, and under `hazards` every
place found in the code that is hard to test, with the properties that watch it.

The components meet in the rows and in the bucket: the write handlers change what a search finds
and call `invalidate_scope` and `schedule_embedding_update`; a tombstone calls
`delete_object`; an upload token becomes the `download_url` of a distribution
when a client registers it; the publish guard asks for the FAIR score, one of
whose checks is the DOI that minting writes; access handlers write `access_rights` of a version, on which a download decides;
the migration copies the bucket and compares it with the `download_url` column.

## Modules

| Module | Models |
|---|---|
| `FairScore` | the score of a version as a function of the checks it passes |
| `CatalogRows` | the rows, the checks they meet, the publish guard, the draft that creation inserts |
| `Lifecycle` | abstract: each catalogue handler takes effect at one instant |
| `Minting` | extends `Lifecycle`: DOIs, DataCite, and mints that take several steps |
| `Catalog` | the handlers of `Lifecycle` as sequences of steps of concurrent sessions, with the bucket |
| `AccessPolicy` | abstract: each access handler takes effect at one instant |
| `AccessRequests` | the access handlers for one private version, from its draft on, expiry and purge |
| `Downloads` | extends `AccessRequests`: downloads of that version and their log |
| `SearchCache` | searches, the cache, invalidation, embedding tasks, and the handlers that change what is found |
| `SearchTurns` | `SearchCache` with requests in turn, or with requests that overlap and fail |
| `Provisioning` | the start of API containers up to the server |
| `Uploads` | extends `Provisioning` with the requests the servers take: uploads, archives, streams |
| `Migration` | the migration tool, both stores, and the catalogue as far as it touches the source |
| `SigningKeys` | the key cache of a server process, the identity provider, requests with tokens |
| `Harvest` | the life cycle as an anonymous reader sees it, OAI lists, and a portal |
| `CatalogProofs`, `LifecycleProofs` (for `FairScore`, `Lifecycle` and `Minting`), `DownloadsProofs` (with `AccessRequests`), `SearchCacheProofs`, `UploadsProofs` (with `Provisioning`), `MigrationProofs`, `SigningKeysProofs`, `HarvestProofs` | theorems and their proofs |
| `MCCatalog`, `MCSearchCache`, `MCUploads`, `MCMigration` | symmetry sets and constant functions of the TLC instances |
| `MCMinting` | the instance of `Minting`, with bounds on distributions and on DOIs of payloads |
| `MCCatalogSerial` | the instance of `Catalog` with one session, and a history variable for objects whose delete was rolled back |
| `MCDownloads` | `Downloads`, and a history variable for access handlers that overlapped |
| `MCSearchTurns` | the instance of `SearchTurns`, with queries of its own for each kind of behaviour |
| `MCHarvest` | `Harvest` with at most one edit or delete in flight |

A definition whose comment starts with "Mutant:" is a plausible bug in the
definition after it. No specification uses it; it takes the place of that
definition to see that a property notices.

### Catalog and the code

A session (`sess[s]`) stands for one request and its `AsyncSession`. Its `pc`
names the await the handler has reached; the other fields are the ORM objects it
holds. Each action is the code between two awaits that read or write shared
state:

* A *Read* action is the first `SELECT` with the checks that follow it. The
  values the handler goes on with are copied into the session.
* `delete_resource` takes a resource id (`DeleteResourceRead`) or the id of a
  version. That version is loaded first (`DeleteResourceResolve`) and, as the
  session has it, not refreshed later; the resource and its owner come with the
  next await (`DeleteResourceLoad`).
* SQLAlchemy writes at a flush. `publish_resource` sets `state` and then loads
  the resource, so autoflush sends the `UPDATE` before the `SELECT`
  (`PublishFlush`); the same happens for each version in `_tombstone_versions`
  (`TombstoneFlush`). From then on the row is locked for others (`Locked`), and
  the change is visible to them only after the commit.
* A *Commit* action writes only columns whose value differs from the value
  loaded, as the ORM does. An `UPDATE` of a row that is gone raises
  `StaleDataError`: the handler ends without an effect. A `DELETE` of such a row
  only logs a warning.
* `Abort` ends any request at any point with a rollback: a crash, a cancelled
  request, a failing commit, a victim of deadlock detection.
* `object[k]` is changed at once and never rolled back.

`FairScore` counts in units of 1/10000 because the code rounds to four digits.
The mean of four rounded shares is a binary fraction; `Overalls` holds every
score it may round to, so the guard is modelled for whichever the platform
returns. `FairChecksOf` derives the checks about distributions from the row; the
others are in a payload (`Checks`) or met by every version of an instance
(`Standing`).

Not in `Catalog`: texts, dates and vocabularies; `access_rights` (in
`AccessRequests`); the cache and embedding calls of publish and delete (in
`SearchCache`); the branch of `_tombstone_versions` without a storage service,
which the constructor never takes. An upload token is here the key of an object
that was uploaded (`Tokens`); the code takes any string, and one that names no
object offers nothing that could be lost. A row that `delete_version` removes
becomes `EmptyRow`, so that `ObjectsTracked` says nothing of the uploads it had:
they stay in the bucket, and `OnlyDraftsOrphan` (see "Proofs") is about them. `make_version_id` can return one id twice
within a microsecond: the insert then fails, which is an abort. Isolation is
PostgreSQL's READ COMMITTED, the default that `database.py` leaves in place.

### Minting and the code

`MintRead` is `mint_doi` up to the request to DataCite: ownership, the state, a
row without a DOI. The version's row is not looked at again, so a version may be
deprecated, become a tombstone or get another DOI while DataCite works;
`MintCommit` writes the column all the same. `MintFails` is every other end: a
refusal, a lost or late answer, a crash, a failing commit. A registration that
DataCite carries out only after the request gave up is left out. `Draft` and
`Edit` are the catalogue handlers with what they do to the column:
`create_new_version` copies it, and a payload may bring any string, as nothing
checks it: one that was minted for another version, of another resource even,
one that will be minted later, or one that `_make_doi` never returns (`OwnDoi`
stands for all of these). `lost`, `doubled` and `claimed` are history: the first two
are what the code knows to go wrong in `mint_doi` and does not repair, the last
is the versions whose DOI a payload brought.

### AccessRequests, Downloads and the code

`rights` is the column `access_rights` of one private version, `listed` whom the
owner has ever put on it, `status[q]` the row of a request, `notices` the
notifications. A draft can be asked for as well (`create_request` does not look
at the state), and `patch_draft` writes the list it loaded back with the
publisher added (`PatchCommit`), over whatever an accept wrote meanwhile. `Decide`
is the commit of accept, reject and revoke: the whole list is written back unless
it equals the loaded one, and nothing is written when the purge has removed the
request. `Purge` is the single `DELETE` of `purge_expired`.

`AccessPolicy` is the promise: requests, decisions, edits and purges at one
instant each, with no draft, no clock and no session. Its variables are those
of `AccessRequests` with the same names (`Policy`), and a handler takes its
effect at its commit. It is implemented until two handlers overlap.

`Download` is the endpoint up to its answer: everything it decides on comes from
one `SELECT`, and signing asks no store. `LogRead` and `LogCommit` are the two
awaits of `log_download`, which runs after the answer in a session of its own;
`LogFails` is its `except Exception`, or the end of the process. `Withdraw` is
the commit of a tombstone.

### SearchCache and the code

The cache maps a query, a mode and a scope, to the set of versions stored under
its key. A query has a text (a blank one is a keyword search in every mode) that
all versions match; ranking, paging and filters only select among them. The
prefix of a key depends on the mode as in `routers/search.py`, and
`invalidate_scope` works through its patterns one await at a time. Embedding
tasks end, fail or are lost with the process, and nothing restarts them. One
`SCAN` loop is one step: keys present all the time are returned, and any other
outcome is that of the step a little earlier or later.

### Provisioning, Uploads and the code

`boot[c]` says how far `entrypoint.sh` has got in a container. `check_bucket`
classifies what `head_bucket` answers; `_run` repeats only "unreachable", until a
deadline that is modelled by a number of rounds; `provision_bucket` creates a
missing bucket and checks again, also when another container was faster. A
container that serves takes one request at a time, enough because requests meet
only in the bucket and there under keys with a UUID of their own (8 hex digits;
that two of them are equal is not modelled).

A file is its size and, for an archive, its members. `UploadBegin` does
everything up to the first `put_object`: the size limit, `_extract_zip_sync`
with its four reasons to reject. `PutMember` and `PutFails` are `upload_bytes`
for the next body. `upload_stream` is modelled await by await: `StreamFill`
until the first part is full, then `StreamPut`, or `StreamCreate` and the loop of
`StreamRead`, `StreamPart` and `StreamComplete`; the `except BaseException` is
`StreamInterrupted` with `StreamAbort` or `StreamAbortFails`. No endpoint calls
`upload_stream` at present; its tests do. A store that had completed the upload when its
answer was lost keeps the object, whose key nobody is given. The sizes of chunk,
part and archive limits are constants. `sent` is the history of what a request read from its
client, against which an answer is compared.

### Migration and the code

`tool` is the running command with the rows it loaded; `End` is
`write_manifest`, which replaces the file as a whole, so `Crash` loses the rows
of the command and nothing else. `InventoryPage` takes sizes from a page of the
listing, `InventoryHead` takes the SHA-256 later. `CopyGet`, `CopyPut` and their
failures are the awaits of an attempt; `put_object` comes before the checks.
`VerifyRow` is one step: the destination does not change meanwhile. `passed`
holds the commands that exited 0 after the freeze and on this manifest, which is
what `docs/storage-migration.md` asks for before a cutover. `Register` takes any token, that
of an object that is not there included. A catalogue key holds
one content for ever (`upload_bytes` never overwrites); other clients of the
source may overwrite theirs (`CanHold`).

### SigningKeys and the code

Instants are kept as distances from now: `left` is what remains of
`expires_at`, `age` how long ago a request read the clock, `joined` and `gone` how long ago
a key joined or left the provider's document, counted as far as it matters. A cache hit has no await and is one step
(`Authenticate`); a miss reads the clock (`Ask`), waits for the provider
(`Serve`) and stores the answer over any other (`Receive`), with an end that
counts from its own clock reading. `_find_key` takes the first key for a token
without `kid`. The claims of a token (audience, expiry) are left to the library
that checks them. `Restart` empties the cache and ends every request.

### Harvest and the code

The clock counts seconds, the granularity of `responseDate`. `Load`,
`PatchCommit`, `PublishStamp`, `PublishCommit` and `DeleteDraftCommit` are the
handlers as far as visibility goes: the state, `is_private`, `issued`,
`data_deleted`. `publish_resource` takes the time before it commits, and
`_wrap_envelope` takes the date of the answer after the `SELECT`; both orders
matter for what an incremental portal misses. `FirstOf` is the order by `issued`
with the limit. Sets and `until` are further filters and left out; `GetRecord`,
`ListSets` and the other verbs are single reads. Three history variables name
the ways in which a harvest can go wrong: a publication beside another handler
that holds the draft (`crossed`; two handlers of the same kind never hold one
version here), a publication beside a list (`passed`), no room
in an answer (`beyond`).

## Runs

| Run | Instance | Shows |
|---|---|---|
| `minting` | 2 resources, 3 versions, 1 user, 1 key, 1 link, 2 mints, 2 DOIs; the DOI is the check that varies with the payload | with atomic handlers: what is published was and is FAIR enough, pointers name issued versions of the same resource, tombstones stay, a deleted resource stays closed. With mints of several steps beside them: a registered DOI leads to a version that was published and, unless a payload named it, is shown by that version or those that follow it; a shown DOI stays, and none is stray, unless a mint failed or two overlapped |
| `catalog` | 2 sessions, 2 versions, 2 users, 1 key | with any overlap, storage failure and rollback: no version loses track of a registered object as long as its row is there; `current_version_id` and `previous_version_id` never name a draft or a foreign version; both authorisation columns agree; no version becomes a draft again |
| `catalog_serial` | 1 session, 2 versions, 2 users, 2 keys, 1 link | the stepwise handlers implement `Lifecycle` when requests do not overlap, rollbacks included; what a version offers for download is in the bucket, unless a delete that was rolled back took it or its upload token was shared with a deleted version |
| `downloads` | 2 sessions, 1 user, 2 requests, 2 downloads, from the draft on | access handlers and edits of the draft that overlap: no access that the owner did not give; a decision and its notification are one. One access handler at a time: each is one step of `AccessPolicy` or none; one pending request per user; every access given can be revoked; downloads at any time, only by those who were given access; the counter within the log |
| `search` | 2 sessions, 3 versions of 2 resources in 2 scopes | the cache never shows a draft or another scope; after the catalogue stopped changing it becomes fresh, whatever failed; with one request at a time, publish and delete are visible to scoped searches at once |
| `migration` | 2 keys, 3 contents of 2 sizes, 2 attempts | after the freeze, `verify` and `db-check` with exit 0 mean that everything the database refers to is in the destination; the manifest never claims more than is there; every command ends |
| `uploads` | 2 containers, one of them check-only, 1 retry, 2 keys, bodies of 0 to 7 with parts of 3 and chunks of 2 | a server has a bucket; an upload that was answered is stored as a whole; parts are never empty and short only at the end; unfinished multipart uploads remain only after a crash or an unconfirmed abort; every start ends |
| `keys` | 2 keys, 2 requests, a time to live of 2, a timeout of 1 | a withdrawn key is refused to every request that begins a time to live after it went; a key is known to every request that begins a time to live after it was added, and in the end |
| `harvest` | 2 versions, answers of 1 record, 3 seconds | what a portal shows can be seen without a token, and a portal misses only what was published during a list or had no room in an answer |
| `tombstone_race` | 2 sessions | violated: a slow delete of a draft removes a tombstone |
| `access_lost_update` | 2 sessions | violated: two accepts, one of them without effect |
| `search_delete` | 2 sessions | violated: a search between the invalidation and the commit of a delete caches the resource again |

The bounds. Two sessions are enough for each pair of handlers to overlap at every
point. Two versions give a draft beside a published version and one link of
`previous_version_id`; three give a chain. Two keys let one delete of a version
succeed and another fail. Two mints of one version can overlap, and two DOIs let
each have one. In `minting`, a version has one distribution at most, one version at
a time shows a DOI that a payload brought, and the other resource is where that
DOI may have been minted. In `downloads`, `MCNext` lets handlers overlap only in behaviours
without a download and lets downloads begin only after the publication: a
download touches none of the columns the access handlers write. The two kinds of
behaviour of `search` (`inTurn`) use different queries: in turn, all three
versions and two modes of one scope; overlapping, one version of each resource is
published, beside deletes of both resources and an unscoped query that nothing
invalidates. In `migration`, one key
is the catalogue's and one another client's; of three contents two differ in
size and two do not. With parts of 3 and chunks of 2, bodies of 3 and 6 end at a
part, 4 and 7 one later, and reads cross the boundary. In `keys`, a fetch may
take half the time to live, so that an answer can be stored over a later one.
In `harvest`, two versions and one record per answer make an answer too small,
and three seconds separate a creation, a publication and a list.
Ids are only compared for equality, so the sets are symmetric, except where
liveness is checked.

Where every id is used up and every request answered the system stops, hence
`CHECK_DEADLOCK FALSE`; the runs of `search`, `migration`, `uploads` and `keys`
are checked for deadlocks.

Fairness. `Expire` of a cache key is weakly fair because
every `SET` has a TTL. The steps of a search or write request, with failure as
one of them, are weakly fair because a coroutine either continues or raises.
The steps of a container's start are weakly fair: every call has a time limit and
every round of `_run` comes nearer to its deadline. In `SigningKeys` time passes,
and a fetch ends because the HTTP client has a timeout. Its 10 s bound each wait
(connecting, sending, each read) and not their sum; `FetchTimeout` stands for the
longest fetch there is, and the theorems hold for any. Nothing is assumed of
embedding tasks, of new requests, of the identity provider or of Redis. `CommandsAdvance` needs no fairness:
it says that each step of a migration command uses up something.

### Where code and documentation part

The three violation runs are findings in `PROJECT.json`. Modelling showed more of
the same kind, left out of the runs:

* Publishing a new version leaves the previous one published
  (`resource_service.py:350`); `docs/index.html:2080` says it "transitions to
  deprecated".
* `docs/storage-migration.md` describes a delta as "`copy` again". `copy` works on
  the keys of the manifest, so uploads since the inventory need a new
  `inventory`; `db-check` blocks the cutover otherwise, which is why
  `CutoverIsComplete` holds. A row that failed `verify` stays `copied`, and the
  next `copy` skips it and exits 0 ("retries failed keys"): it takes `--force`.
* Downloads of a link distribution are answered 410 before the branch for links
  is reached, as `download_url` is NULL there (`files.py:124`).
* `download_count` can fall (`audit_service.py:40`).
* A payload may name a DOI that was minted for a version of another resource:
  the schemas take any string (`schemas/resource.py:24`) and nobody compares it
  with the minted ones (`resource_service.py:216`, `:263`, `:419`). The DOI of such
  a version leads to a landing page of the other resource.
* `delete_version` of a draft deletes no object (`resource_service.py:498`): its
  uploads stay in the bucket and no row names them. In the overlap of
  `tombstone_race` the same lines take a tombstone along with the key it retained
  after a failed delete, for which the docstring of `_tombstone_versions` (`:579`)
  promises that it "can be retried or reconciled".
* `oai.py:142` announces `<deletedRecord>persistent</deletedRecord>`, and
  `docs/index.html:2036` an "Incremental harvest from a date". A list filters on
  `issued`, which a tombstone does not move, so an incremental harvest is never
  told of a deletion. The answer's date is later than its `SELECT`, and a list
  ends after 500 records (`oai.py:105`) without a resumption token: both let a
  portal that continues from that date miss versions, which is what `passed` and
  `beyond` in `NothingIsMissed` stand for.
* The FAIR check on provenance asks for more than 20 characters
  (`fair_service.py:111`), `docs/index.html:2136` for "≥ 20 chars".

A patch that overlaps a publish can take
away what the guard asked for (`resource_service.py:250`); a slow publish can take a
deprecated version back to published (`:347`); two overlapping `create_request`
calls of one user both insert (`access_service.py:87`); `revoke` accepts a request
of any status (`:207`); two overlapping mints of a version register two DOIs, of
which one is shown (`datacite_service.py:64`). The properties of `Catalog`,
`AccessRequests` and `Minting` are what remains true beside these.

## Proofs

Every theorem below holds for all values of the constants that meet the named
assumptions of the modules: null values are no ids, keys are no links, sizes,
limits and times are numbers, the sets of downloads and of FAIR checks are what
they are called. Each invariant was checked with TLC before it was proved. Each
proof has a step for each action; steps that only move a session share a lemma,
and a lemma such as `CopyEffect` says what a group of actions does to the
variables an invariant speaks of.

Every invariant and every action property of a passing run has a theorem, and so
does every refinement. Where a run speaks of requests that do not overlap, the
module whose variable tells so (`MCDownloads`, `SearchTurns`, `MCCatalogSerial`)
is part of what is proved; the `MCSpec` that TLC checks only leaves behaviours of
it out.

`CatalogProofs`, for every number of sessions, versions, users and keys:

* `TypeCorrect`: `TypeOK` is not inductive, as the records that
  the handlers copy must come from existing rows. `WellTyped` adds that a row
  that exists has a resource and a publisher and that a locked row exists.
* `ObjectsAreTracked`, of versions whose row is there: the strengthening `ObjectsInv` says that an
  object whose URL a session is about to clear is gone (`ClearedIsGone`) and that
  a registered key was uploaded (`RegisteredIsUploaded`): a key a client could
  not know cannot be registered before its upload.
* `OnlyDraftsOrphan` says what becomes of the others: a version loses the key of
  an object in the bucket only with its row, to a `delete_version` that loaded the
  row as a draft. It follows from `ObjectsInv`, `RowFollows` (what any step may do
  to a row) and `UrlsAreRegistered`: a key in `download_url` is that of a
  distribution of the row.
* `PointersLeadToIssued`, `OwnersAgree`, `DraftsAreLeftForGood`: `PointersInv` adds
  what each session may rely on (`Holds`): the version it will point to was issued
  and stays so, and the owner it copied is the owner still, since nothing changes
  it. `Move` says what any step may do to a row, and the action property follows
  from it.
* `OneAtATimeIsAtomic`: with one session at most (`OneAtATime`) `Catalog`
  implements `Lifecycle`, rows mapped to themselves. `AloneInv` says that what the
  handler read is still so when it commits (`StillSo`), also when a resource is
  created meanwhile; a commit is then the atomic handler, every other step a
  stutter. The definitions that `Lifecycle` has in common with `Catalog` are shown
  equal first (`SameRows`, `SameGuard`). What is proved of `Lifecycle` below is
  so true of the handlers that run one at a time.
* `OfferedAreStored` and `TombstonesStay`, of one session at most, from
  `SerialInv`: a registered object that is gone was taken by a delete, whose
  version is withheld or which was rolled back (`GoneForAReason`), and the session
  deletes only objects of a version it has flushed (`Removing`). As every step is
  an atomic one or a stutter, none removes a tombstone, which is what
  `tombstone_race` shows of requests that overlap.
* `TombstonesFallToStaleDeletes`, for any overlap, from `RowFollows` as well: a
  tombstone is removed only by a `delete_version` that
  loaded the row while it was a draft, and it never gets a URL back. The
  finding has this one cause.

`LifecycleProofs`, about `FairScore`, `Lifecycle` and `Minting`:

* `ThresholdIsExact` about `FairScore`: both roundings together never move the
  threshold of 0.4; the guard passes just when the exact mean of the four shares
  reaches it.
* `MoreChecksNeverHurt`, which follows: a version that passes more checks is
  never kept out where one that passes fewer is let in.
* `PublishedStaysFair`, `PointersLeadToIssued`, `TombstonesAreForGood` and
  `ClosedIsForGood` about `Lifecycle`, from `LifeInv`.
* The same of `Minting`, whose steps are those of `Lifecycle` with the column or
  write `has_doi` to a row that was issued (`Noted`). `MintInv` adds that a mint
  holds an issued version and a DOI of its own (`MintOK`, `MintsAreApart`), from which
  `NoDoiIsStray`, `DoisLand` and `DoisStand` follow. Payloads may name any DOI in
  all of them; `DoisLand` says of a version whose DOI a payload brought (`claimed`)
  only that the landing page is that of a version that was published. `Line`, the chain of previous
  versions, is defined as a closure rather than by recursion; `LinesAreKept` says
  that a step only extends lines.

`DownloadsProofs`: `AccessInv` says that everyone on the list, and everyone on a
list that a handler loaded, was let in by the owner (`LoadedWereLetIn`): a lost
update can take access away, never invent it. `NobodyGetsAccessAlone`,
`DecidedIsAnnounced`, `EveryDownloadWasAllowed` follow. `CounterStaysWithinLog`
needs that each task read a count that the log had reached.

Until two access handlers overlap (`overlapped`), `TurnsInv` says more of the one
in flight: what it has read is so until it commits, but for a request that the
purge takes away meanwhile (`StillSo`). From it follow `SecondRequestsAreRefused`,
`AccessCanBeRevoked`, the refinement `HandlersFollowPolicy`, where a commit is the
handler of `AccessPolicy` and every other step a stutter, and, for a version whose
draft is no longer edited, `AcceptedKeepAccess`: what the documentation says of an
accepted request, and `access_lost_update` refutes for requests that overlap.

`SearchCacheProofs`: `CacheShowsWhatWasFound`, from `SearchInv`: what a session
found was found under the query it will store it for, and versions that were
issued never return to a draft. `FreshStaysFresh` is the part of `EventuallyFresh`
that is no liveness: while rows and embeddings stay, only a search that read
before they changed can make an entry stale, and no search becomes one of those.
`TurnsInv` is about requests in turn: the search in flight holds all it will be
asked for, and a handler has forgotten what it has invalidated (`StillSo`).
`PublishedAreFound` and `DeletedAreForgotten` follow, and `DeletesInvalidate`, the
sentence of the documentation that `search_delete` refutes for requests that overlap.

`UploadsProofs`: `BootInv` for the start (`ServersHaveABucket`) and `UploadInv` for
requests: `PutOK`, `StreamOK` and `PartsOK` describe the request in each phase by
what is stored so far, `KeysApart` and `DoneApart` say that no two requests work on
a key. `AnswersAreStored`, `PartsAreSound` and `NothingIsOrphaned` are its parts.
`StartsRunOut` is the part of `BootEnds` that is no liveness: each call of a start
lowers its `Rank`, and no other container raises it.

`MigrationProofs`, for any keys, contents and number of retries:

* `TypeCorrect`, with `WorkIsKnown`: what a command has still
  to do lies within the rows it loaded.
* `Recorded`: `StoredInv` extends `RecordedIsStored` to the
  rows in the memory of the running command, which are the next manifest. It adds
  that whatever is stored, read or recorded under a key is one of its contents
  (`Contained`), and that the rows of an `inventory`, which rewrites recorded
  SHA-256s, are unmarked.
* `Cutover`: `CutoverInv` says what the commands
  owe to each other: `copy` and `verify` keep the keys and the recorded SHA-256s
  of the manifest (`LoadedRows`), what a `verify` has done so far is in place
  (`Verifying`), and once it has passed, any `copy` that follows - with `--force`
  even - holds the bodies of a source that does not change any more (`Verified`).
  The freeze is what makes each of them inductive.
* `Advancing`: `Spec => CommandsAdvance`. That the order has no infinite descent
  needs finitely many keys and is not part of the theorem.

`SigningKeysProofs`: `WithdrawnAreRefused`, from `RecentInv`: a key that is cached,
or in an answer on its way, left the document no longer ago than the entry or the
request is old (`CacheIsRecent`, `AnswersAreRecent`); the timeout of the client
bounds the age of an answer. `AddedAreKnown`, from `CompleteInv`, is the other
direction: a served key that a cache or an answer lacks joined the document no
longer ago than these are old.

`HarvestProofs`: `HarvestedStaysViewable` and `HarvestMissesNothing`, from
`HarvestInv`, which speaks of each version apart (`VersionOK`): a publish that
has flushed holds an instant not later than now, a version that is shown and was
not crossed has no editor left, and one that is not shown was issued since the
last answer or is marked.

The type invariants of `Downloads` (`DownloadsTyped`) and `SigningKeys`
(`TypeCorrect`) are proved and in no run.

Only model-checked, as liveness is out of the prover's reach: `EventuallyFresh`,
`BootEnds` and `ServedIsKnown`; of each the safety half is a theorem
(`FreshStaysFresh`, `StartsRunOut`, `AddedAreKnown`). What data of unbounded
length add up to by induction is out of reach as well: that the order of
`Advancing` has no infinite descent, and what `Sum` computes.

## Not modelled

* User profiles (`routers/users.py`): one insert-or-update per login.
* RDF, JSON-LD, DCAT-AP and MARC exports, facets, statistics, suggestions, health:
  read-only views of single rows or queries.
* Configuration, schemas and start-up: no state; payloads are values the models
  enumerate.
* Database migrations: run once, in order, by Alembic.
* Frontend and deployment: clients and containers around the program.
* Ranking and tokens of the search: which of the found versions come first.
* Access to a draft for its owner, and listings of a signed-in user: read-only.

## Plan

1. Proofs: which overlapping handlers `AcceptedHasAccess` survives in
   `AccessRequests`, told apart as `TombstonesFallToStaleDeletes` does it for
   tombstones in `Catalog`.
2. Models: what a signed-in user may see (`user_can_view_version`) against what
   the SQL filters list; waiting for PostgreSQL in `Provisioning`; `mark_read` of
   notifications.
3. Composition: `Migration` over the uploads of `Uploads`.
