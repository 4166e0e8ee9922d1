------------------------------ MODULE Uploads ------------------------------
(***************************************************************************)
(* Storing uploaded files (app/routers/files.py and                        *)
(* app/services/object_storage_service.py): the upload endpoint, which     *)
(* unpacks ZIP archives, and upload_stream with its multipart upload.      *)
(*                                                                         *)
(* Each container works on one request at a time; requests meet only in    *)
(* the bucket, under keys that contain a UUID.  A body is its size, in     *)
(* units that are scaled down from MiB.                                    *)
(***************************************************************************)
EXTENDS Provisioning, SequencesExt

CONSTANTS
    Keys,          \* object keys (bound: requests end when all are used)
    Files,         \* what clients send to the endpoint
    Bodies,        \* sizes of streamed bodies
    ChunkSize, PartSize, MaxMembers, MaxBytes,
    Absent, NoKey

ASSUME SizesArePositive ==
    /\ ChunkSize \in Nat \ {0} /\ PartSize \in Nat \ {0}
    /\ MaxMembers \in Nat /\ MaxBytes \in Nat /\ Bodies \subseteq Nat
ASSUME NullsAreNothing == NoKey \notin Keys /\ Absent \notin Nat

VARIABLES
    object,        \* key -> size of the object stored under it
    open,          \* keys with an unfinished multipart upload
    lost,          \* keys of those whose request crashed, or did not get an
                   \* answer to its create or abort
    req,           \* container -> its request
    answered       \* uploads answered with success: the file and its tokens

uploads == <<object, open, lost, req, answered>>
vars == <<provisioning, uploads>>

Sum(sizes) == FoldLeft(+, 0, sizes)

\* A file that is not unpacked; a stream is answered like one.
Plain(size) == [zip |-> FALSE, size |-> size, readable |-> TRUE, members |-> <<>>]

Idle == [pc |-> "idle", file |-> Plain(0), left |-> <<>>, done |-> <<>>,
         key |-> NoKey, unread |-> 0, buf |-> 0, eof |-> FALSE,
         parts |-> <<>>, sent |-> 0]

Init ==
    /\ ProvisioningInit
    /\ object = [k \in Keys |-> Absent]
    /\ open = {}
    /\ lost = {}
    /\ req = [c \in Containers |-> Idle]
    /\ answered = {}

At(c, point) == boot[c] = "serving" /\ req[c].pc = point
Continue(c, r) == req' = [req EXCEPT ![c] = r] /\ UNCHANGED provisioning

Fresh(k) ==
    object[k] = Absent /\ k \notin open /\ \A c \in Containers : req[c].key # k

Answer(file, tokens) ==
    answered' = answered \union {[file |-> file, tokens |-> tokens]}

-----------------------------------------------------------------------------
(* POST /files/upload                                                      *)

\* The archive's members without its directories.
FilesIn(archive) == SelectSeq(archive.members, LAMBDA m : ~m.dir)

Sizes(members) == [i \in 1 .. Len(members) |-> members[i].size]

\* _extract_zip_sync returns the members, and there are some.
Extractable(archive) ==
    LET files == FilesIn(archive) IN
    /\ archive.readable
    /\ Len(files) \in 1 .. MaxMembers
    /\ \A i \in 1 .. Len(files) : files[i].safe
    /\ Sum(Sizes(files)) <= MaxBytes

\* The bodies that are stored, one after the other.
Payload(file) == IF file.zip THEN Sizes(FilesIn(file)) ELSE <<file.size>>

ASSUME FilesAreFiles ==
    \A f \in Files :
        f.size \in Nat /\ f.zip \in BOOLEAN /\ Payload(f) \in Seq(Nat)

Acceptable(file) == file.size <= MaxBytes /\ (file.zip => Extractable(file))

UploadBegin(c, file) ==
    /\ At(c, "idle")
    /\ Acceptable(file)
    /\ Continue(c, [Idle EXCEPT !.pc = "put", !.file = file, !.left = Payload(file)])
    /\ UNCHANGED <<object, open, lost, answered>>

\* Mutant: the response is built while members are still to be stored.
PutMemberAnswering(c, k) ==
    /\ At(c, "put") /\ Fresh(k)
    /\ object' = [object EXCEPT ![k] = Head(req[c].left)]
    /\ Answer(req[c].file, Append(req[c].done, k))
    /\ Continue(c, IF Len(req[c].left) > 1
                   THEN [req[c] EXCEPT !.left = Tail(@), !.done = Append(@, k)]
                   ELSE Idle)
    /\ UNCHANGED <<open, lost>>

\* upload_bytes of the next body under a key of its own; after the last one
\* the tokens of all are returned.
PutMember(c, k) ==
    /\ At(c, "put") /\ Fresh(k)
    /\ object' = [object EXCEPT ![k] = Head(req[c].left)]
    /\ IF Len(req[c].left) > 1
       THEN /\ Continue(c, [req[c] EXCEPT !.left = Tail(@), !.done = Append(@, k)])
            /\ UNCHANGED answered
       ELSE /\ Continue(c, Idle)
            /\ Answer(req[c].file, Append(req[c].done, k))
    /\ UNCHANGED <<open, lost>>

\* StorageError, before or after the object is stored: the request is answered
\* with an error, and what it stored so far stays.
PutFails(c, k) ==
    /\ At(c, "put") /\ Fresh(k)
    /\ object' \in {object, [object EXCEPT ![k] = Head(req[c].left)]}
    /\ Continue(c, Idle)
    /\ UNCHANGED <<open, lost, answered>>

-----------------------------------------------------------------------------
(* upload_stream                                                           *)

StreamBegin(c, k, size) ==
    /\ At(c, "idle") /\ Fresh(k)
    /\ Continue(c, [Idle EXCEPT !.pc = "fill", !.file = Plain(size),
                                !.key = k, !.unread = size])
    /\ UNCHANGED <<object, open, lost, answered>>

\* _read_chunk returns n units, at most a chunk.
Read(r, n) == [r EXCEPT !.unread = @ - n, !.buf = @ + n]

\* The buffer is filled until it holds a part or the body has ended.
StreamFill(c) ==
    /\ At(c, "fill")
    /\ LET r == req[c] IN
       IF r.unread = 0
       THEN Continue(c, [r EXCEPT !.eof = TRUE, !.pc = "single"])
       ELSE \E n \in 1 .. ChunkSize :
               /\ n <= r.unread
               /\ Continue(c, [Read(r, n) EXCEPT
                     !.pc = IF r.buf + n >= PartSize THEN "create" ELSE "fill"])
    /\ UNCHANGED <<object, open, lost, answered>>

Finish(c, size) ==
    /\ object' = [object EXCEPT ![req[c].key] = size]
    /\ Answer(req[c].file, <<req[c].key>>)
    /\ Continue(c, Idle)

StreamPut(c) ==
    /\ At(c, "single")
    /\ Finish(c, req[c].buf)
    /\ UNCHANGED <<open, lost>>

StreamCreate(c) ==
    /\ At(c, "create")
    /\ open' = open \union {req[c].key}
    /\ Continue(c, [req[c] EXCEPT !.pc = "parts"])
    /\ UNCHANGED <<object, lost, answered>>

\* Mutant: the rest is sent at the end even if there is none.
PartDueAtEnd(r) == r.buf >= PartSize \/ r.eof

\* The loop uploads the buffer when it holds a part, or the rest at the end.
PartDue(r) == r.buf >= PartSize \/ (r.eof /\ r.buf > 0)

StreamPart(c) ==
    /\ At(c, "parts") /\ PartDue(req[c])
    /\ LET r == req[c] IN
       Continue(c, [r EXCEPT !.parts = Append(@, r.buf), !.sent = @ + r.buf, !.buf = 0])
    /\ UNCHANGED <<object, open, lost, answered>>

StreamRead(c) ==
    /\ At(c, "parts") /\ ~PartDue(req[c]) /\ ~req[c].eof
    /\ LET r == req[c] IN
       IF r.unread = 0
       THEN Continue(c, [r EXCEPT !.eof = TRUE])
       ELSE \E n \in 1 .. ChunkSize : n <= r.unread /\ Continue(c, Read(r, n))
    /\ UNCHANGED <<object, open, lost, answered>>

StreamComplete(c) ==
    /\ At(c, "parts") /\ ~PartDue(req[c]) /\ req[c].eof
    /\ open' = open \ {req[c].key}
    /\ Finish(c, req[c].sent)
    /\ UNCHANGED lost

\* A read of the first part, put_object or create_multipart_upload raises, the
\* latter two before or after the store has done it; nothing is aborted, for
\* upload_id is not known.
StreamRefused(c) ==
    /\ At(c, "fill") \/ At(c, "single") \/ At(c, "create")
    /\ \/ UNCHANGED <<object, open, lost>>
       \/ /\ req[c].pc = "single"
          /\ object' = [object EXCEPT ![req[c].key] = req[c].buf]
          /\ UNCHANGED <<open, lost>>
       \/ /\ req[c].pc = "create"
          /\ open' = open \union {req[c].key}
          /\ lost' = lost \union {req[c].key}
          /\ UNCHANGED object
    /\ Continue(c, Idle)
    /\ UNCHANGED answered

\* Mutant: only errors of the store lead to an abort, not those of a read.
StreamInterruptedUnaborted(c) ==
    /\ At(c, "parts")
    /\ Continue(c, IF PartDue(req[c]) \/ req[c].eof
                   THEN [Idle EXCEPT !.pc = "abort", !.key = req[c].key] ELSE Idle)
    /\ UNCHANGED <<object, open, lost, answered>>

\* A read, upload_part or complete_multipart_upload raises, or the request is
\* cancelled: except BaseException.  The store may have completed the upload
\* all the same, which leaves the object under a key nobody is given.
StreamInterrupted(c) ==
    LET r == req[c] IN
    /\ At(c, "parts")
    /\ \/ UNCHANGED <<object, open>>
       \/ /\ ~PartDue(r) /\ r.eof
          /\ object' = [object EXCEPT ![r.key] = r.sent]
          /\ open' = open \ {r.key}
    /\ Continue(c, [Idle EXCEPT !.pc = "abort", !.key = r.key])
    /\ UNCHANGED <<lost, answered>>

StreamAbort(c) ==
    /\ At(c, "abort")
    /\ open' = open \ {req[c].key}
    /\ Continue(c, Idle)
    /\ UNCHANGED <<object, lost, answered>>

\* The failing abort is logged, and the first exception raised.
StreamAbortFails(c) ==
    /\ At(c, "abort")
    /\ lost' = lost \union {req[c].key}
    /\ Continue(c, Idle)
    /\ UNCHANGED <<object, open, answered>>

-----------------------------------------------------------------------------
\* The container stops, and its request with it.
Stop(c) ==
    /\ StopContainer(c)
    /\ lost' = lost \union (open \intersect {req[c].key})
    /\ req' = [req EXCEPT ![c] = Idle]
    /\ UNCHANGED <<object, open, answered>>

Request(c) ==
    \/ \E f \in Files : UploadBegin(c, f)
    \/ \E k \in Keys : PutMember(c, k) \/ PutFails(c, k)
    \/ \E k \in Keys, n \in Bodies : StreamBegin(c, k, n)
    \/ StreamFill(c) \/ StreamPut(c) \/ StreamCreate(c) \/ StreamRefused(c)
    \/ StreamPart(c) \/ StreamRead(c) \/ StreamComplete(c)
    \/ StreamInterrupted(c) \/ StreamAbort(c) \/ StreamAbortFails(c)

Next ==
    \E c \in Containers :
        \/ (StartContainer(c) \/ BootStep(c)) /\ UNCHANGED uploads
        \/ Request(c)
        \/ Stop(c)

Spec ==
    /\ Init /\ [][Next]_vars
    /\ \A c \in Containers : WF_vars(BootStep(c) /\ UNCHANGED uploads)

-----------------------------------------------------------------------------
TypeOK ==
    /\ ProvisioningTypeOK
    /\ object \in [Keys -> Nat \union {Absent}]
    /\ open \subseteq Keys /\ lost \subseteq Keys
    /\ \A c \in Containers :
          /\ req[c].pc \in {"idle", "put", "fill", "single", "create", "parts", "abort"}
          /\ req[c].key \in Keys \union {NoKey}
          /\ req[c].left \in Seq(Nat) /\ req[c].done \in Seq(Keys)
          /\ req[c].unread \in Nat /\ req[c].buf \in Nat /\ req[c].eof \in BOOLEAN
    /\ \A a \in answered : a.tokens \in Seq(Keys)

(***************************************************************************)
(* An upload that was answered with success is in the bucket: one token    *)
(* for each member of an archive, in its order, and under each the whole   *)
(* body - also when parts of other requests failed, and no token twice.    *)
(***************************************************************************)
AnsweredIsStored ==
    \A a \in answered :
        /\ Len(a.tokens) = Len(Payload(a.file))
        /\ \A i \in 1 .. Len(a.tokens) : object[a.tokens[i]] = Payload(a.file)[i]
        /\ \A i \in 1 .. Len(a.tokens), b \in answered :
              \A j \in 1 .. Len(b.tokens) :
                  a.tokens[i] = b.tokens[j] => a = b /\ i = j

\* A multipart upload is one the store accepts: no empty part, none but the
\* last below the least size, and with the buffer they make up what was read,
\* whatever sizes the reads return.
PartsAreAcceptable ==
    \A c \in Containers : At(c, "parts") =>
        LET r == req[c] IN
        /\ \A i \in 1 .. Len(r.parts) :
              r.parts[i] > 0 /\ (i < Len(r.parts) \/ ~r.eof => r.parts[i] >= PartSize)
        /\ r.sent + r.buf + r.unread = r.file.size
        /\ r.eof /\ ~PartDue(r) => r.parts # <<>>

\* The docstring of upload_stream: larger bodies "are aborted on failure so no
\* orphaned parts remain".  They remain only where the process died or the
\* store did not confirm the create or the abort.
PartsAreReclaimed ==
    \A k \in open : k \in lost \/ \E c \in Containers : req[c].key = k
=============================================================================
