----------------------------- MODULE Migration -----------------------------
(***************************************************************************)
(* Copying the objects from one store to another                           *)
(* (scripts/migrate_objects.py) while the catalogue still writes to the    *)
(* source, until its operator freezes it (docs/storage-migration.md).      *)
(*                                                                         *)
(* One command of the tool runs at a time and works on the rows it loaded  *)
(* from the manifest; the file is replaced as a whole when the command     *)
(* ends, so that a crash keeps the previous one.  A SHA-256 is modelled by *)
(* the content it is taken of.  The semaphore of copy only delays steps,   *)
(* and copy creates a missing destination bucket before it starts.         *)
(***************************************************************************)
EXTENDS Naturals

CONSTANTS
    Keys,          \* object keys
    Contents,      \* what an object can hold
    Size,          \* content -> its size
    CanHold,       \* key -> contents its object can have: one for a key of
                   \* the catalogue, which is unique, more for a key that
                   \* another client of the source overwrites
    Attempts,      \* --retries + 1
    NoObject,      \* never stored; as a SHA-256: not computed
    Gone           \* deleted

ASSUME SizesAreNumbers == Size \in [Contents -> Nat]
ASSUME KeysHoldContents == CanHold \in [Keys -> SUBSET Contents]
ASSUME SomeAttempts == Attempts \in Nat \ {0}
ASSUME AbsentIsNoContent == NoObject \notin Contents /\ Gone \notin Contents

VARIABLES
    src,           \* source bucket
    dst,           \* destination bucket
    db,            \* download_url of the upload distributions
    frozen,        \* the operator has stopped the catalogue's writes
    manifest,      \* the manifest file: key -> row
    tool,          \* the running command
    passed         \* commands whose last run exited 0, was started after the
                   \* freeze and worked on the keys of this manifest

app == <<src, db, frozen>>
vars == <<src, dst, db, frozen, manifest, tool, passed>>

Row == [size     : {Size[c] : c \in Contents},
        sha      : Contents \union {NoObject},
        copied   : BOOLEAN,
        verified : BOOLEAN]

Manifests == UNION {[ks -> Row] : ks \in SUBSET Keys}

Tool ==
    [cmd    : {"none", "inventory", "copy", "verify"},
     flag   : BOOLEAN,                 \* inventory --hash, copy --force
     late   : BOOLEAN,                 \* started after the freeze
     failed : BOOLEAN,                 \* failures > 0
     rows   : Manifests,               \* the rows in memory
     todo   : SUBSET Keys,             \* not listed, copied or verified yet
     page   : SUBSET Keys,             \* inventory: listed, head outstanding
     body   : [Keys -> Contents \union {NoObject}],   \* copy: read, not put
     tries  : [Keys -> 0 .. Attempts]]                \* copy: failed attempts

NoRows == [k \in {} |-> {}]

NoTool ==
    [cmd |-> "none", flag |-> FALSE, late |-> FALSE, failed |-> FALSE,
     rows |-> NoRows, todo |-> {}, page |-> {},
     body |-> [k \in Keys |-> NoObject], tries |-> [k \in Keys |-> 0]]

Init ==
    /\ src = [k \in Keys |-> NoObject]
    /\ dst = [k \in Keys |-> NoObject]
    /\ db = {}
    /\ frozen = FALSE
    /\ manifest = NoRows
    /\ tool = NoTool
    /\ passed = {}

-----------------------------------------------------------------------------
(* The catalogue and other clients of the source, and the freeze.          *)

Write(k, c) ==
    /\ ~frozen
    /\ src[k] # Gone
    /\ c \in CanHold[k]
    /\ src' = [src EXCEPT ![k] = c]
    /\ UNCHANGED <<dst, db, frozen, manifest, tool, passed>>

\* A distribution is created with an upload token, which nobody checks: its
\* object may be gone, or never have been there.
Register(k) ==
    /\ ~frozen
    /\ db' = db \union {k}
    /\ UNCHANGED <<src, dst, frozen, manifest, tool, passed>>

\* _tombstone_versions deletes the object, ...
DeleteObject(k) ==
    /\ ~frozen
    /\ k \in db /\ src[k] \in Contents
    /\ src' = [src EXCEPT ![k] = Gone]
    /\ UNCHANGED <<dst, db, frozen, manifest, tool, passed>>

\* ... and its commit clears the URL; the delete of a draft only removes the row.
Unregister(k) ==
    /\ ~frozen
    /\ k \in db
    /\ db' = db \ {k}
    /\ UNCHANGED <<src, dst, frozen, manifest, tool, passed>>

Freeze ==
    /\ ~frozen
    /\ frozen' = TRUE
    /\ UNCHANGED <<src, dst, db, manifest, tool, passed>>

-----------------------------------------------------------------------------
Running(cmd) == tool.cmd = cmd

Begin(cmd, flag, rows, todo) ==
    /\ Running("none")
    /\ tool' = [NoTool EXCEPT !.cmd = cmd, !.flag = flag, !.late = frozen,
                              !.rows = rows, !.todo = todo]
    /\ passed' = passed \ {cmd}
    /\ UNCHANGED <<app, dst, manifest>>

\* write_manifest and the exit code of copy and verify.
End ==
    /\ tool.todo = {}
    /\ manifest' = tool.rows
    /\ passed' = IF tool.late /\ ~tool.failed
                 THEN passed \union {tool.cmd} ELSE passed
    /\ tool' = NoTool
    /\ UNCHANGED <<app, dst>>

\* The tool is killed, or an exception it does not catch ends it.
Crash ==
    /\ ~Running("none")
    /\ tool' = NoTool
    /\ UNCHANGED <<app, dst, manifest, passed>>

Working(newTool) ==
    /\ tool' = newTool
    /\ UNCHANGED <<app, manifest, passed>>

-----------------------------------------------------------------------------
(* inventory                                                               *)

InventoryBegin(hash) == Begin("inventory", hash, NoRows, Keys)

Listed(k) == [size |-> Size[src[k]], sha |-> NoObject,
              copied |-> FALSE, verified |-> FALSE]

\* The next page of the listing covers the keys ks: sizes are those of now.
InventoryPage(ks) ==
    /\ Running("inventory") /\ tool.page = {}
    /\ ks # {} /\ ks \subseteq tool.todo
    /\ LET found == {k \in ks : src[k] \in Contents} IN
       Working([tool EXCEPT
           !.todo = @ \ ks,
           !.page = found,
           !.rows = [k \in DOMAIN tool.rows \union found |->
                        IF k \in found THEN Listed(k) ELSE tool.rows[k]]])
    /\ UNCHANGED dst

\* head_object and, with --hash, the SHA-256.  An object that was deleted
\* since it was listed raises, which is Crash.
InventoryHead(k) ==
    /\ Running("inventory") /\ k \in tool.page
    /\ src[k] \in Contents
    /\ Working([tool EXCEPT
           !.page = @ \ {k},
           !.rows[k].sha = IF tool.flag THEN src[k] ELSE NoObject])
    /\ UNCHANGED dst

\* The manifest starts afresh: what copy and verify said is about old rows.
InventoryEnd ==
    /\ Running("inventory") /\ tool.page = {} /\ tool.todo = {}
    /\ manifest' = tool.rows
    /\ passed' = {}
    /\ tool' = NoTool
    /\ UNCHANGED <<app, dst>>

-----------------------------------------------------------------------------
(* copy                                                                    *)

CopyBegin(force) ==
    /\ DOMAIN manifest # {}
    /\ Begin("copy", force, manifest,
             {k \in DOMAIN manifest : force \/ ~manifest[k].copied})

CopyGet(k) ==
    /\ Running("copy") /\ k \in tool.todo /\ tool.body[k] = NoObject
    /\ src[k] \in Contents
    /\ Working([tool EXCEPT !.body[k] = src[k]])
    /\ UNCHANGED dst

\* Mutant: copied is set when the retries are used up as well.
FailedAttemptMarked(k) ==
    LET last == tool.tries[k] + 1 = Attempts IN
    Working([tool EXCEPT
        !.body[k] = NoObject,
        !.tries[k] = @ + 1,
        !.todo = IF last THEN @ \ {k} ELSE @,
        !.rows[k].copied = @ \/ last,
        !.failed = @ \/ last])

\* Mutant: attempts are not counted.
FailedAttemptForever(k) == Working([tool EXCEPT !.body[k] = NoObject])

\* Mutant: one attempt too many.
FailedAttemptOnceMore(k) ==
    LET last == tool.tries[k] = Attempts IN
    Working([tool EXCEPT
        !.body[k] = NoObject,
        !.tries[k] = @ + 1,
        !.todo = IF last THEN @ \ {k} ELSE @,
        !.failed = @ \/ last])

\* An attempt ends with an exception that copy catches; the last one leaves
\* row.copied as it was.
FailedAttempt(k) ==
    LET last == tool.tries[k] + 1 = Attempts IN
    Working([tool EXCEPT
        !.body[k] = NoObject,
        !.tries[k] = @ + 1,
        !.todo = IF last THEN @ \ {k} ELSE @,
        !.failed = @ \/ last])

\* The source answers with an error, as it does for a missing key.
CopyGetFails(k) ==
    /\ Running("copy") /\ k \in tool.todo /\ tool.body[k] = NoObject
    /\ FailedAttempt(k)
    /\ UNCHANGED dst

\* The body is what the manifest says.
Expected(k) ==
    LET row == tool.rows[k] IN
    Size[tool.body[k]] = row.size /\ row.sha \in {NoObject, tool.body[k]}

\* put_object, and only then the checks of size and SHA-256.
CopyPut(k) ==
    /\ Running("copy") /\ k \in tool.todo /\ tool.body[k] # NoObject
    /\ dst' = [dst EXCEPT ![k] = tool.body[k]]
    /\ IF Expected(k)
       THEN Working([tool EXCEPT
                !.todo = @ \ {k},
                !.body[k] = NoObject,
                !.rows[k] = [@ EXCEPT !.copied = TRUE, !.sha = tool.body[k]]])
       ELSE FailedAttempt(k)

\* put_object raises, before or after the store has the object.
CopyPutFails(k) ==
    /\ Running("copy") /\ k \in tool.todo /\ tool.body[k] # NoObject
    /\ dst' \in {dst, [dst EXCEPT ![k] = tool.body[k]]}
    /\ FailedAttempt(k)

CopyEnd == Running("copy") /\ End

-----------------------------------------------------------------------------
(* verify                                                                  *)

VerifyBegin ==
    /\ DOMAIN manifest # {}
    /\ Begin("verify", FALSE, manifest, DOMAIN manifest)

\* src_sha: what the manifest recorded, or the source now.
Reference(k) == IF tool.rows[k].sha = NoObject THEN src[k] ELSE tool.rows[k].sha

\* Mutant: only the sizes are compared.
SameOnBothSidesBySize(k) ==
    /\ src[k] \in Contents /\ dst[k] \in Contents
    /\ Size[src[k]] = Size[dst[k]]

\* Sizes on both sides, and the SHA-256 of the destination.
SameOnBothSides(k) ==
    /\ src[k] \in Contents /\ dst[k] \in Contents
    /\ Size[src[k]] = Size[dst[k]]
    /\ dst[k] = Reference(k)

\* The destination does not change meanwhile, so a success is that of one
\* instant.
VerifyRow(k) ==
    /\ Running("verify") /\ k \in tool.todo
    /\ SameOnBothSides(k)
    /\ Working([tool EXCEPT
           !.todo = @ \ {k},
           !.rows[k] = [@ EXCEPT !.sha = Reference(k), !.size = Size[src[k]],
                                 !.verified = TRUE]])
    /\ UNCHANGED dst

\* The two sides differ, an object is missing, or a store answers with an error.
VerifyRowFails(k) ==
    /\ Running("verify") /\ k \in tool.todo
    /\ Working([tool EXCEPT
           !.todo = @ \ {k},
           !.rows[k].verified = FALSE,
           !.failed = TRUE])
    /\ UNCHANGED dst

VerifyEnd == Running("verify") /\ End

\* db-check: no key of the database is missing from the manifest.
DbCheck ==
    /\ Running("none")
    /\ passed' = IF frozen /\ db \subseteq DOMAIN manifest
                 THEN passed \union {"db_check"} ELSE passed \ {"db_check"}
    /\ UNCHANGED <<app, dst, manifest, tool>>

-----------------------------------------------------------------------------
AppStep ==
    \/ \E k \in Keys : \/ \E c \in Contents : Write(k, c)
                       \/ Register(k) \/ DeleteObject(k) \/ Unregister(k)
    \/ Freeze

Command ==
    \/ \E f \in BOOLEAN : InventoryBegin(f) \/ CopyBegin(f)
    \/ VerifyBegin \/ DbCheck

ToolStep ==
    \/ \E ks \in SUBSET Keys : InventoryPage(ks)
    \/ \E k \in Keys :
          \/ InventoryHead(k)
          \/ CopyGet(k) \/ CopyGetFails(k) \/ CopyPut(k) \/ CopyPutFails(k)
          \/ VerifyRow(k) \/ VerifyRowFails(k)
    \/ InventoryEnd \/ CopyEnd \/ VerifyEnd
    \/ Crash

Next == AppStep \/ Command \/ ToolStep

Spec == Init /\ [][Next]_vars

-----------------------------------------------------------------------------
TypeOK ==
    /\ src \in [Keys -> Contents \union {NoObject, Gone}]
    /\ dst \in [Keys -> Contents \union {NoObject}]
    /\ db \subseteq Keys
    /\ frozen \in BOOLEAN
    /\ manifest \in Manifests
    /\ tool \in Tool
    /\ passed \subseteq {"copy", "verify", "db_check"}

(***************************************************************************)
(* The condition of the runbook for a cutover: after the freeze, verify    *)
(* and db-check exited 0 on this manifest.  Then every object the database *)
(* refers to is in the destination, with the size it has in the source,    *)
(* and with its content or, if another client overwrote it, the content    *)
(* the manifest recorded - whatever was written, deleted, copied and       *)
(* crashed before.                                                         *)
(***************************************************************************)
CutoverIsComplete ==
    {"verify", "db_check"} \subseteq passed =>
        \A k \in db :
            /\ src[k] \in Contents /\ dst[k] \in Contents
            /\ Size[dst[k]] = Size[src[k]]
            /\ dst[k] \in {src[k], manifest[k].sha}

Unique(k) == \A c, d \in CanHold[k] : c = d

\* What the manifest records survives crashes, retries and forced copies: a
\* row marked copied or verified has its object in the destination, with the
\* recorded SHA-256 unless another client overwrote the source.
RecordedIsStored ==
    \A k \in DOMAIN manifest :
        manifest[k].copied \/ manifest[k].verified =>
            /\ dst[k] \in Contents
            /\ Unique(k) => dst[k] = manifest[k].sha

\* A step of a running command finishes a key, or heads a listed object, or
\* uses up one of the Attempts of a key, or reads the body that the next
\* attempt on the key needs - in this order of weight.
Advances ==
    tool.cmd # "none" /\ tool'.cmd = tool.cmd =>
        /\ tool'.todo \subseteq tool.todo
        /\ tool'.todo = tool.todo =>
              \/ tool'.page \subseteq tool.page /\ tool'.page # tool.page
              \/ \E k \in tool.todo :
                    \/ tool'.tries[k] > tool.tries[k]
                    \/ /\ tool'.tries = tool.tries
                       /\ tool.body[k] = NoObject /\ tool'.body[k] # NoObject

\* Every command ends, whatever the stores answer and whatever is written
\* meanwhile.
CommandsAdvance == [][Advances]_tool
=============================================================================
