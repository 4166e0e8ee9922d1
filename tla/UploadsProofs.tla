--------------------------- MODULE UploadsProofs ---------------------------
(***************************************************************************)
(* Theorems about Provisioning and Uploads, for any containers, keys,      *)
(* files, bodies and sizes of parts and chunks.                            *)
(***************************************************************************)
EXTENDS Uploads, TLAPS

USE TriesIsNumber, SizesArePositive, NullsAreNothing

-----------------------------------------------------------------------------
(* A server has a bucket.                                                  *)

BootInv == ProvisioningTypeOK /\ ServingHasBucket

LEMMA BootStarts == ProvisioningInit => BootInv
<1>. SUFFICES ASSUME ProvisioningInit
              PROVE  BootInv
  OBVIOUS
<1>1. ProvisioningTypeOK
  <2>1. 0 \in 0 .. Tries /\ "down" \in Points
    BY DEF Points
  <2>. QED
    BY <2>1 DEF ProvisioningInit, ProvisioningTypeOK
<1>2. ServingHasBucket
  BY DEF ProvisioningInit, ServingHasBucket
<1>3. QED
  BY <1>1, <1>2 DEF BootInv

\* Only the status "ok" leads to the server, and there is a bucket then.
LEMMA ReportKeeps ==
    ASSUME BootInv, NEW c \in Containers, NEW status, Report(c, status),
           bucket' \in BOOLEAN, bucket => bucket', status = "ok" => bucket
    PROVE  BootInv'
<1>1. PICK point \in {"serving", "check", "down"} :
          Go(c, point) /\ (point = "serving" => bucket)
  BY DEF Report
<1>2. boot' \in [Containers -> Points] /\ tries' \in [Containers -> 0 .. Tries]
  BY <1>1 DEF Report, Go, BootInv, ProvisioningTypeOK, Points
<1>3. ServingHasBucket'
  BY <1>1 DEF Go, BootInv, ProvisioningTypeOK, ServingHasBucket
<1>4. QED
  BY <1>2, <1>3 DEF BootInv, ProvisioningTypeOK

LEMMA GoKeeps ==
    ASSUME BootInv, NEW c \in Containers, NEW point \in Points \ {"serving"}, Go(c, point),
           tries' \in [Containers -> 0 .. Tries], bucket' \in BOOLEAN, bucket => bucket'
    PROVE  BootInv'
BY DEF Go, BootInv, ProvisioningTypeOK, ServingHasBucket

LEMMA BootKeeps ==
    ASSUME BootInv, NEW c \in Containers,
           StartContainer(c) \/ BootStep(c) \/ StopContainer(c)
    PROVE  BootInv'
<1>1. /\ bucket \in BOOLEAN /\ tries \in [Containers -> 0 .. Tries]
      /\ {"check", "create", "recheck", "down"} \subseteq Points \ {"serving"}
  BY DEF BootInv, ProvisioningTypeOK, Points
<1>2. CASE StartContainer(c)
  BY <1>1, <1>2, GoKeeps DEF StartContainer
<1>3. CASE StopContainer(c)
  BY <1>1, <1>3, GoKeeps DEF StopContainer
<1>4. \A status \in HeadBucket : status = "ok" => bucket
  BY DEF HeadBucket
<1>5. CASE CheckBucket(c)
  BY <1>1, <1>4, <1>5, GoKeeps, ReportKeeps DEF CheckBucket
<1>6. CASE CreateBucket(c)
  BY <1>1, <1>6, GoKeeps, ReportKeeps DEF CreateBucket
<1>7. CASE RecheckBucket(c)
  BY <1>1, <1>4, <1>7, ReportKeeps DEF RecheckBucket
<1>8. QED
  BY <1>2, <1>3, <1>5, <1>6, <1>7 DEF BootStep

-----------------------------------------------------------------------------
(* The types.  What a request works on is a file of a client or a stream.  *)

AllFiles == Files \union {Plain(n) : n \in Nat}

Handling ==
    [pc     : {"idle", "put", "fill", "single", "create", "parts", "abort"},
     file   : AllFiles,
     left   : Seq(Nat),
     done   : Seq(Keys),
     key    : Keys \union {NoKey},
     unread : Nat,
     buf    : Nat,
     eof    : BOOLEAN,
     parts  : Seq(Nat),
     sent   : Nat]

UploadTypes ==
    /\ object \in [Keys -> Nat \union {Absent}]
    /\ open \subseteq Keys /\ lost \subseteq Keys
    /\ req \in [Containers -> Handling]
    /\ answered \subseteq [file : AllFiles, tokens : Seq(Keys)]

LEMMA PlainFiles ==
    ASSUME NEW n \in Nat
    PROVE  /\ Plain(n) \in AllFiles
           /\ Plain(n).size = n /\ Plain(n).zip = FALSE
BY DEF AllFiles, Plain

LEMMA FileTypes ==
    ASSUME NEW f \in AllFiles
    PROVE  /\ f.size \in Nat /\ f.zip \in BOOLEAN /\ Payload(f) \in Seq(Nat)
           /\ ~f.zip => Payload(f) = <<f.size>>
<1>1. CASE f \in Files
  <2>1. f.size \in Nat /\ f.zip \in BOOLEAN /\ Payload(f) \in Seq(Nat)
    BY <1>1, FilesAreFiles
  <2>2. ~f.zip => Payload(f) = <<f.size>>
    BY <2>1 DEF Payload
  <2>. QED
    BY <2>1, <2>2
<1>2. ASSUME NEW n \in Nat, f = Plain(n)
      PROVE  f.size \in Nat /\ f.zip = FALSE
  BY <1>2, PlainFiles
<1>3. ASSUME NEW n \in Nat, f = Plain(n)
      PROVE  Payload(f) = <<f.size>> /\ <<f.size>> \in Seq(Nat)
  <2>1. f.size \in Nat /\ f.zip = FALSE
    BY <1>2, <1>3
  <2>2. Payload(f) = <<f.size>>
    BY <2>1, Zenon DEF Payload
  <2>. QED
    BY <2>1, <2>2
<1>4. QED
  BY <1>1, <1>2, <1>3 DEF AllFiles

LEMMA PayloadIsSome ==
    ASSUME NEW f \in Files, Acceptable(f)
    PROVE  Len(Payload(f)) >= 1
<1>1. CASE ~f.zip
  BY <1>1, FileTypes DEF Payload, AllFiles
<1>2. CASE f.zip
  <2>. DEFINE files == FilesIn(f)
  <2>1. Len(files) \in 1 .. MaxMembers
    BY <1>2 DEF Acceptable, Extractable
  <2>2. /\ Payload(f) = [i \in 1 .. Len(files) |-> files[i].size]
        /\ Payload(f) \in Seq(Nat)
    BY <1>2, FilesAreFiles DEF Payload, Sizes
  <2>. HIDE DEF files
  <2>3. DOMAIN Payload(f) = 1 .. Len(files)
    BY <2>2
  <2>4. DOMAIN Payload(f) = 1 .. Len(Payload(f)) /\ Len(Payload(f)) \in Nat
    BY <2>2
  <2>5. QED
    BY <2>1, <2>3, <2>4
<1>3. QED
  BY <1>1, <1>2

LEMMA IdleRequest ==
    /\ Idle \in Handling
    /\ Idle.pc = "idle" /\ Idle.done = <<>> /\ Idle.key = NoKey
<1>1. Plain(0) \in AllFiles
  BY PlainFiles
<1>2. <<>> \in Seq(Nat) /\ <<>> \in Seq(Keys)
  OBVIOUS
<1>3. QED
  BY <1>1, <1>2 DEF Idle, Handling

-----------------------------------------------------------------------------
(* What is true of a request that has got to r, when obj is in the bucket  *)
(* and the multipart uploads opn are unfinished.                           *)

PutOK(r, obj) ==
    /\ r.key = NoKey
    /\ Len(r.left) >= 1
    /\ Len(r.done) + Len(r.left) = Len(Payload(r.file))
    /\ \A i \in 1 .. Len(r.left) : r.left[i] = Payload(r.file)[Len(r.done) + i]
    /\ \A i \in 1 .. Len(r.done) : obj[r.done[i]] = Payload(r.file)[i]

\* While the body is read nothing is stored under its key, and no unit of it
\* gets lost.
StreamOK(r, obj, opn) ==
    /\ r.key \in Keys /\ obj[r.key] = Absent
    /\ r.done = <<>> /\ Payload(r.file) = <<r.file.size>>
    /\ r.sent + r.buf + r.unread = r.file.size
    /\ r.pc # "parts" => r.key \notin opn /\ r.parts = <<>> /\ r.sent = 0
    /\ r.pc \in {"fill", "create"} => ~r.eof
    /\ r.pc = "create" => r.buf >= PartSize
    /\ r.pc = "single" => r.unread = 0

\* A part that is too small was the last one, for nothing is left to send.
PartsOK(r) ==
    /\ r.eof => r.unread = 0
    /\ \A i \in 1 .. Len(r.parts) :
          /\ r.parts[i] > 0
          /\ i < Len(r.parts) \/ ~r.eof \/ r.buf > 0 => r.parts[i] >= PartSize
    /\ r.parts = <<>> => r.buf >= PartSize

RequestOK(r, obj, opn) ==
    /\ r.pc = "idle" => r.key = NoKey /\ r.done = <<>>
    /\ r.pc = "put" => PutOK(r, obj)
    /\ r.pc \in {"fill", "single", "create", "parts"} => StreamOK(r, obj, opn)
    /\ r.pc = "parts" => PartsOK(r)
    /\ r.pc = "abort" => r.key \in Keys /\ r.done = <<>>

RequestsOK == \A c \in Containers : RequestOK(req[c], object, open)

\* No key is used twice: not by two streams, not for two bodies that were
\* stored, and not for a body of an upload that was answered.
KeysApart ==
    \A c, d \in Containers : c # d => req[c].key # req[d].key \/ req[c].key = NoKey

DoneApart ==
    \A c, d \in Containers :
        \A i \in 1 .. Len(req[c].done), j \in 1 .. Len(req[d].done) :
            req[c].done[i] = req[d].done[j] => c = d /\ i = j

DoneUnanswered ==
    \A c \in Containers, a \in answered :
        \A i \in 1 .. Len(req[c].done), j \in 1 .. Len(a.tokens) :
            req[c].done[i] # a.tokens[j]

UploadInv ==
    /\ UploadTypes
    /\ RequestsOK
    /\ KeysApart
    /\ DoneApart
    /\ DoneUnanswered
    /\ AnsweredIsStored
    /\ PartsAreReclaimed

-----------------------------------------------------------------------------
(* What a step of one request does to the others.                          *)

LEMMA Elements ==
    ASSUME NEW S, NEW s \in Seq(S)
    PROVE  Len(s) \in Nat /\ \A i \in 1 .. Len(s) : s[i] \in S
OBVIOUS

LEMMA EmptySequence == Len(<<>>) = 0
OBVIOUS

LEMMA Bounded ==
    ASSUME NEW m \in Nat, NEW n \in Nat, NEW i \in 1 .. m
    PROVE  i \in 1 .. (m + n)
OBVIOUS

LEMMA RequestKept ==
    ASSUME NEW r \in Handling, NEW opn \in SUBSET Keys, NEW opn2 \in SUBSET Keys,
           NEW obj \in [Keys -> Nat \union {Absent}],
           NEW obj2 \in [Keys -> Nat \union {Absent}],
           RequestOK(r, obj, opn),
           \A k \in Keys : obj[k] # Absent => obj2[k] = obj[k],
           r.key \in Keys => obj2[r.key] = obj[r.key] /\ (r.key \in opn2 => r.key \in opn)
    PROVE  RequestOK(r, obj2, opn2)
<1>1. ASSUME r.pc = "put"  PROVE PutOK(r, obj2)
  <2>1. PutOK(r, obj)
    BY <1>1 DEF RequestOK
  <2>2. /\ r.left \in Seq(Nat) /\ r.done \in Seq(Keys) /\ r.file \in AllFiles
    BY DEF Handling
  <2>5. Payload(r.file) \in Seq(Nat)
    BY <2>2, FileTypes
  <2>3. ASSUME NEW i \in 1 .. Len(r.done)
        PROVE  obj2[r.done[i]] = Payload(r.file)[i]
    <3>1. r.done[i] \in Keys /\ i \in 1 .. Len(Payload(r.file))
      <4>1. /\ Len(r.done) \in Nat /\ Len(r.left) \in Nat
            /\ r.done[i] \in Keys
        BY <2>2, Elements
      <4>2. Len(r.done) + Len(r.left) = Len(Payload(r.file))
        BY <2>1 DEF PutOK
      <4>3. i \in 1 .. (Len(r.done) + Len(r.left))
        BY <4>1, Bounded
      <4>4. QED
        BY <4>1, <4>2, <4>3
    <3>2. obj[r.done[i]] = Payload(r.file)[i] /\ Payload(r.file)[i] \in Nat
      BY <2>1, <2>5, <3>1 DEF PutOK
    <3>. QED
      BY <3>1, <3>2
  <2>. QED
    BY <2>1, <2>3 DEF PutOK
<1>2. ASSUME r.pc \in {"fill", "single", "create", "parts"}  PROVE StreamOK(r, obj2, opn2)
  BY <1>2 DEF RequestOK, StreamOK
<1>3. QED
  BY <1>1, <1>2 DEF RequestOK

\* The bucket and the uploads the store knows, after a step of c: what is
\* stored stays, and nothing happens under the keys of others.
SharedKept(c) ==
    /\ object' \in [Keys -> Nat \union {Absent}] /\ open' \in SUBSET Keys
    /\ \A k \in Keys : object[k] # Absent => object'[k] = object[k]
    /\ \A d \in Containers \ {c} : req[d].key \in Keys =>
          /\ object'[req[d].key] = object[req[d].key]
          /\ req[d].key \in open' => req[d].key \in open

LEMMA OthersKept ==
    ASSUME UploadInv, NEW c \in Containers, NEW r \in Handling,
           req' = [req EXCEPT ![c] = r],
           SharedKept(c), RequestOK(r, object', open'),
           r.key = NoKey \/ r.key = req[c].key \/ \A d \in Containers : req[d].key # r.key
    PROVE  /\ RequestsOK' /\ KeysApart'
           /\ \A d \in Containers : req'[d] = IF d = c THEN r ELSE req[d]
           /\ req' \in [Containers -> Handling]
<1>1. req \in [Containers -> Handling]
  BY DEF UploadInv, UploadTypes
<1>2. \A d \in Containers : req'[d] = IF d = c THEN r ELSE req[d]
  BY <1>1
<1>3. req' \in [Containers -> Handling]
  BY <1>1
<1>4. ASSUME NEW d \in Containers  PROVE RequestOK(req[d], object, open)'
  <2>1. CASE d = c
    BY <1>2, <2>1
  <2>2. CASE d # c
    <3>1. RequestOK(req[d], object, open) /\ req[d] \in Handling
      BY <1>1 DEF UploadInv, RequestsOK
    <3>3. /\ object \in [Keys -> Nat \union {Absent}] /\ open \in SUBSET Keys
          /\ object' \in [Keys -> Nat \union {Absent}] /\ open' \in SUBSET Keys
      BY DEF UploadInv, UploadTypes, SharedKept
    <3>2. RequestOK(req[d], object', open')
      BY <3>1, <3>3, <2>2, RequestKept DEF SharedKept
    <3>. QED
      BY <3>2, <1>2, <2>2
  <2>. QED
    BY <2>1, <2>2
<1>5. KeysApart'
  <2>1. KeysApart
    BY DEF UploadInv
  <2>. QED
    BY <1>2, <2>1 DEF KeysApart
<1>6. QED
  BY <1>2, <1>3, <1>4, <1>5 DEF RequestsOK

\* The objects of an upload that was answered are there, so they stay.
LEMMA AnsweredKept ==
    ASSUME UploadInv, NEW c, SharedKept(c), NEW a \in answered
    PROVE  /\ a.tokens \in Seq(Keys)
           /\ Len(a.tokens) = Len(Payload(a.file))
           /\ \A i \in 1 .. Len(a.tokens) :
                 /\ a.tokens[i] \in Keys
                 /\ object[a.tokens[i]] # Absent
                 /\ object'[a.tokens[i]] = Payload(a.file)[i]
<1>1. a.file \in AllFiles /\ a.tokens \in Seq(Keys)
  BY DEF UploadInv, UploadTypes
<1>2. /\ Len(a.tokens) = Len(Payload(a.file))
      /\ \A i \in 1 .. Len(a.tokens) : object[a.tokens[i]] = Payload(a.file)[i]
  BY DEF UploadInv, AnsweredIsStored
<1>3. Payload(a.file) \in Seq(Nat)
  BY <1>1, FileTypes
<1>4. ASSUME NEW i \in 1 .. Len(a.tokens)
      PROVE  /\ a.tokens[i] \in Keys
             /\ object[a.tokens[i]] # Absent
             /\ object'[a.tokens[i]] = Payload(a.file)[i]
  <2>1. a.tokens[i] \in Keys /\ Payload(a.file)[i] \in Nat
    BY <1>1, <1>2, <1>3
  <2>2. object[a.tokens[i]] # Absent
    BY <2>1, <1>2
  <2>. QED
    BY <2>1, <2>2, <1>2 DEF SharedKept
<1>5. QED
  BY <1>1, <1>2, <1>4

\* Nothing is left behind by a step that takes c to r, unless it is lost.
NothingLeft(c, r) ==
    /\ lost' \in SUBSET Keys /\ lost \subseteq lost'
    /\ \A k \in open' : k \in open \/ k = r.key \/ k \in lost'
    /\ req[c].key \in open' => r.key = req[c].key \/ req[c].key \in lost'

LEMMA PartsReclaimed ==
    ASSUME UploadInv, NEW c \in Containers, NEW r \in Handling,
           req' = [req EXCEPT ![c] = r], NothingLeft(c, r)
    PROVE  PartsAreReclaimed'
<1>1. \A d \in Containers : req'[d] = IF d = c THEN r ELSE req[d]
  BY DEF UploadInv, UploadTypes
<1>2. ASSUME NEW k \in open'
      PROVE  k \in lost' \/ \E d \in Containers : req'[d].key = k
  <2>1. CASE k = r.key
    BY <1>1, <2>1
  <2>2. CASE k \in lost'
    BY <2>2
  <2>3. CASE k # r.key /\ k \notin lost' /\ k \in open
    <3>1. PICK d \in Containers : req[d].key = k
      BY <2>3 DEF UploadInv, PartsAreReclaimed, NothingLeft
    <3>2. d # c
      BY <3>1, <2>3, <1>2 DEF NothingLeft
    <3>. QED
      BY <3>1, <3>2, <1>1
  <2>. QED
    BY <1>2, <2>1, <2>2, <2>3 DEF NothingLeft
<1>3. QED
  BY <1>2 DEF PartsAreReclaimed

\* A step after which c has no stored bodies to answer with.
LEMMA QuietKeeps ==
    ASSUME UploadInv, NEW c \in Containers, NEW r \in Handling,
           req' = [req EXCEPT ![c] = r], r.done = <<>>,
           SharedKept(c), RequestOK(r, object', open'), NothingLeft(c, r),
           r.key = NoKey \/ r.key = req[c].key \/ \A d \in Containers : req[d].key # r.key,
           answered' = answered
    PROVE  UploadInv'
<1>1. /\ RequestsOK' /\ KeysApart'
      /\ \A d \in Containers : req'[d] = IF d = c THEN r ELSE req[d]
      /\ req' \in [Containers -> Handling]
  BY OthersKept
<1>2. UploadTypes'
  BY <1>1 DEF UploadInv, UploadTypes, SharedKept, NothingLeft
<1>3. PartsAreReclaimed'
  BY PartsReclaimed
<1>4. /\ \A d \in Containers : d = c => Len(req'[d].done) = 0
      /\ \A d \in Containers : d # c => req'[d] = req[d]
  <2>1. Len(r.done) = 0
    BY EmptySequence
  <2>2. ASSUME NEW d \in Containers, d = c  PROVE Len(req'[d].done) = 0
    <3>1. req'[d] = r
      BY <1>1, <2>2
    <3>. QED
      BY <2>1, <3>1, Zenon
  <2>3. ASSUME NEW d \in Containers, d # c  PROVE req'[d] = req[d]
    BY <1>1, <2>3
  <2>. QED
    BY <2>2, <2>3
<1>5. DoneApart'
  <2>1. DoneApart
    BY DEF UploadInv
  <2>2. ASSUME NEW d \in Containers, NEW e \in Containers,
               NEW i \in 1 .. Len(req'[d].done), NEW j \in 1 .. Len(req'[e].done),
               req'[d].done[i] = req'[e].done[j]
        PROVE  d = e /\ i = j
    <3>1. d # c /\ e # c
      BY <1>4
    <3>. QED
      BY <3>1, <2>1, <2>2, <1>4 DEF DoneApart
  <2>. QED
    BY <2>2 DEF DoneApart
<1>6. DoneUnanswered'
  <2>1. DoneUnanswered
    BY DEF UploadInv
  <2>2. ASSUME NEW d \in Containers, NEW a \in answered,
               NEW i \in 1 .. Len(req'[d].done), NEW j \in 1 .. Len(a.tokens)
        PROVE  req'[d].done[i] # a.tokens[j]
    <3>1. d # c
      BY <1>4
    <3>. QED
      BY <3>1, <2>1, <1>4 DEF DoneUnanswered
  <2>. QED
    BY <2>2 DEF DoneUnanswered
<1>7. AnsweredIsStored'
  <2>1. \A a \in answered :
           /\ Len(a.tokens) = Len(Payload(a.file))
           /\ \A i \in 1 .. Len(a.tokens) : object'[a.tokens[i]] = Payload(a.file)[i]
    BY AnsweredKept
  <2>. QED
    BY <2>1 DEF UploadInv, AnsweredIsStored
<1>8. QED
  BY <1>1, <1>2, <1>3, <1>5, <1>6, <1>7 DEF UploadInv

\* A step that answers c's upload of file with the tokens.
LEMMA AnswerKeeps ==
    ASSUME UploadInv, NEW c \in Containers,
           NEW file \in AllFiles, NEW tokens \in Seq(Keys),
           req' = [req EXCEPT ![c] = Idle], SharedKept(c), NothingLeft(c, Idle),
           answered' = answered \union {[file |-> file, tokens |-> tokens]},
           Len(tokens) = Len(Payload(file)),
           \A i \in 1 .. Len(tokens) : object'[tokens[i]] = Payload(file)[i],
           \A i, j \in 1 .. Len(tokens) : tokens[i] = tokens[j] => i = j,
           \A i \in 1 .. Len(tokens), a \in answered :
              \A j \in 1 .. Len(a.tokens) : tokens[i] # a.tokens[j],
           \A i \in 1 .. Len(tokens), d \in Containers \ {c} :
              \A j \in 1 .. Len(req[d].done) : tokens[i] # req[d].done[j]
    PROVE  UploadInv'
<1>0. RequestOK(Idle, object', open') /\ Idle \in Handling
  BY IdleRequest DEF RequestOK
<1>1. /\ RequestsOK' /\ KeysApart'
      /\ \A d \in Containers : req'[d] = IF d = c THEN Idle ELSE req[d]
      /\ req' \in [Containers -> Handling]
  <2>1. Idle.key = NoKey
    BY IdleRequest
  <2>. QED
    BY <1>0, <2>1, OthersKept
<1>. DEFINE new == [file |-> file, tokens |-> tokens]
<1>2. UploadTypes'
  BY <1>1 DEF UploadInv, UploadTypes, SharedKept, NothingLeft
<1>3. PartsAreReclaimed'
  BY <1>0, PartsReclaimed
<1>4. /\ \A d \in Containers : d = c => Len(req'[d].done) = 0
      /\ \A d \in Containers : d # c => req'[d] = req[d]
  <2>1. Len(Idle.done) = 0
    BY IdleRequest, EmptySequence
  <2>2. ASSUME NEW d \in Containers, d = c  PROVE Len(req'[d].done) = 0
    <3>1. req'[d] = Idle
      BY <1>1, <2>2
    <3>. QED
      BY <2>1, <3>1, Zenon
  <2>3. ASSUME NEW d \in Containers, d # c  PROVE req'[d] = req[d]
    BY <1>1, <2>3
  <2>. QED
    BY <2>2, <2>3
<1>5. DoneApart'
  <2>1. DoneApart
    BY DEF UploadInv
  <2>2. ASSUME NEW d \in Containers, NEW e \in Containers,
               NEW i \in 1 .. Len(req'[d].done), NEW j \in 1 .. Len(req'[e].done),
               req'[d].done[i] = req'[e].done[j]
        PROVE  d = e /\ i = j
    <3>1. d # c /\ e # c
      BY <1>4
    <3>. QED
      BY <3>1, <2>1, <2>2, <1>4 DEF DoneApart
  <2>. QED
    BY <2>2 DEF DoneApart
<1>6. DoneUnanswered'
  <2>1. DoneUnanswered
    BY DEF UploadInv
  <2>2. ASSUME NEW d \in Containers, NEW a \in answered',
               NEW i \in 1 .. Len(req'[d].done), NEW j \in 1 .. Len(a.tokens)
        PROVE  req'[d].done[i] # a.tokens[j]
    <3>1. d # c /\ req'[d] = req[d]
      BY <1>4
    <3>2. CASE a \in answered
      BY <3>1, <3>2, <2>1 DEF DoneUnanswered
    <3>3. CASE a = new
      BY <3>1, <3>3
    <3>. QED
      BY <3>2, <3>3
  <2>. QED
    BY <2>2 DEF DoneUnanswered
<1>7. AnsweredIsStored'
  <2>1. \A a \in answered :
           /\ Len(a.tokens) = Len(Payload(a.file))
           /\ \A i \in 1 .. Len(a.tokens) : object'[a.tokens[i]] = Payload(a.file)[i]
    BY AnsweredKept
  <2>2. ASSUME NEW a \in answered'
        PROVE  /\ Len(a.tokens) = Len(Payload(a.file))
               /\ \A i \in 1 .. Len(a.tokens) : object'[a.tokens[i]] = Payload(a.file)[i]
    BY <2>1
  <2>3. ASSUME NEW a \in answered', NEW b \in answered',
               NEW i \in 1 .. Len(a.tokens), NEW j \in 1 .. Len(b.tokens),
               a.tokens[i] = b.tokens[j]
        PROVE  a = b /\ i = j
    <3>1. CASE a \in answered /\ b \in answered
      BY <2>3, <3>1 DEF UploadInv, AnsweredIsStored
    <3>2. CASE a = new /\ b = new
      BY <2>3, <3>2
    <3>3. CASE a = new /\ b \in answered
      BY <2>3, <3>3
    <3>4. CASE a \in answered /\ b = new
      BY <2>3, <3>4
    <3>. QED
      BY <3>1, <3>2, <3>3, <3>4
  <2>. QED
    BY <2>2, <2>3 DEF AnsweredIsStored
<1>8. QED
  BY <1>1, <1>2, <1>3, <1>5, <1>6, <1>7 DEF UploadInv

\* What a request has stored is there.
LEMMA StoredIsPresent ==
    ASSUME UploadInv, NEW c \in Containers, NEW i \in 1 .. Len(req[c].done)
    PROVE  object[req[c].done[i]] # Absent
<1>1. PICK q \in Handling : q = req[c]
  BY DEF UploadInv, UploadTypes
<1>2. RequestOK(q, object, open) /\ i \in 1 .. Len(q.done)
  BY <1>1 DEF UploadInv, RequestsOK
<1>3. q.pc = "put"
  <2>1. q.done # <<>>
    BY <1>2, EmptySequence
  <2>. QED
    BY <1>2, <2>1 DEF RequestOK, StreamOK, Handling
<1>4. PutOK(q, object)
  BY <1>2, <1>3 DEF RequestOK
<1>5. Payload(q.file) \in Seq(Nat) /\ q.done \in Seq(Keys) /\ q.left \in Seq(Nat)
  BY FileTypes DEF Handling
<1>6. i \in 1 .. Len(Payload(q.file))
  <2>1. /\ Len(q.done) \in Nat /\ Len(q.left) \in Nat
    BY <1>5, Elements
  <2>2. i \in 1 .. (Len(q.done) + Len(q.left))
    BY <1>2, <2>1, Bounded
  <2>. QED
    BY <1>4, <2>2 DEF PutOK
<1>7. object[q.done[i]] = Payload(q.file)[i] /\ Payload(q.file)[i] \in Nat
  BY <1>2, <1>4, <1>5, <1>6, Elements DEF PutOK
<1>8. QED
  BY <1>1, <1>7, NullsAreNothing

LEMMA Handled ==
    ASSUME UploadInv, NEW c \in Containers
    PROVE  /\ req \in [Containers -> Handling]
           /\ req[c] \in Handling /\ RequestOK(req[c], object, open)
           /\ object \in [Keys -> Nat \union {Absent}]
           /\ open \in SUBSET Keys /\ lost \in SUBSET Keys
BY DEF UploadInv, UploadTypes, RequestsOK

\* A step on c's own variables.
LEMMA LocalKeeps ==
    ASSUME UploadInv, NEW c \in Containers, NEW r \in Handling,
           req' = [req EXCEPT ![c] = r], r.done = <<>>,
           UNCHANGED <<object, open, lost, answered>>,
           RequestOK(r, object, open),
           \/ r.key = req[c].key
           \/ req[c].key = NoKey /\ \A d \in Containers : req[d].key # r.key
    PROVE  UploadInv'
<1>1. SharedKept(c)
  BY Handled DEF SharedKept
<1>2. NothingLeft(c, r)
  BY Handled DEF NothingLeft
<1>3. RequestOK(r, object', open')
  OBVIOUS
<1>4. QED
  BY <1>1, <1>2, <1>3, QuietKeeps

\* A step that may store an object under a key of c's own.
LEMMA SharedUpdate ==
    ASSUME UploadInv, NEW c \in Containers, NEW k \in Keys, NEW n \in Nat,
           object[k] = Absent, \A d \in Containers \ {c} : req[d].key # k,
           object' \in {object, [object EXCEPT ![k] = n]},
           \A x \in open' : x \in open \/ x = req[c].key, req[c].key \in Keys \/ open' = open
    PROVE  SharedKept(c)
<1>1. object' \in [Keys -> Nat \union {Absent}] /\ open' \in SUBSET Keys
  BY Handled
<1>2. \A x \in Keys : object[x] # Absent => object'[x] = object[x]
  BY Handled
<1>3. ASSUME NEW d \in Containers \ {c}, req[d].key \in Keys
      PROVE  /\ object'[req[d].key] = object[req[d].key]
             /\ req[d].key \in open' => req[d].key \in open
  <2>1. req[d].key # req[c].key
    BY <1>3 DEF UploadInv, KeysApart
  <2>2. req[d].key # k
    OBVIOUS
  <2>. QED
    BY <1>3, <2>1, <2>2, Handled
<1>4. QED
  BY <1>1, <1>2, <1>3 DEF SharedKept

-----------------------------------------------------------------------------
(* The steps of a request.                                                 *)

LEMMA UploadBeginKeeps ==
    ASSUME UploadInv, NEW c \in Containers, NEW f \in Files, UploadBegin(c, f)
    PROVE  UploadInv'
<1>0. /\ f \in AllFiles /\ Payload(f) \in Seq(Nat) /\ Len(Payload(f)) >= 1
      /\ Idle \in Handling /\ Idle.key = NoKey /\ Idle.done = <<>>
  BY FileTypes, PayloadIsSome, IdleRequest DEF UploadBegin, AllFiles
<1>1. PICK r \in Handling : r = [Idle EXCEPT !.pc = "put", !.file = f, !.left = Payload(f)]
  BY <1>0 DEF Handling
<1>2. /\ r.pc = "put" /\ r.file = f /\ r.left = Payload(f)
      /\ r.key = NoKey /\ r.done = <<>>
  BY <1>0, <1>1 DEF Handling
<1>3. PutOK(r, object)
  BY <1>0, <1>2, EmptySequence DEF PutOK
<1>4. RequestOK(r, object, open)
  BY <1>2, <1>3 DEF RequestOK
<1>5. req[c].key = NoKey
  BY Handled DEF UploadBegin, At, RequestOK
<1>6. req' = [req EXCEPT ![c] = r] /\ UNCHANGED <<object, open, lost, answered>>
  BY <1>1 DEF UploadBegin, Continue
<1>7. QED
  BY <1>2, <1>4, <1>5, <1>6, LocalKeeps

LEMMA PutFailsKeeps ==
    ASSUME UploadInv, NEW c \in Containers, NEW k \in Keys, PutFails(c, k)
    PROVE  UploadInv'
<1>1. /\ req[c].pc = "put" /\ req[c].left \in Seq(Nat) /\ req[c].key = NoKey
      /\ Len(req[c].left) >= 1
  BY Handled DEF PutFails, At, RequestOK, PutOK, Handling
<1>2. PICK n \in Nat : n = Head(req[c].left)
  BY <1>1
<1>3. SharedKept(c)
  BY <1>1, <1>2, SharedUpdate DEF PutFails, Fresh
<1>4. NothingLeft(c, Idle)
  BY <1>1, Handled DEF PutFails, NothingLeft
<1>5. /\ Idle \in Handling /\ Idle.key = NoKey /\ Idle.done = <<>>
      /\ RequestOK(Idle, object', open')
  BY IdleRequest DEF RequestOK
<1>6. req' = [req EXCEPT ![c] = Idle] /\ answered' = answered
  BY DEF PutFails, Continue
<1>7. QED
  BY <1>3, <1>4, <1>5, <1>6, QuietKeeps

LEMMA StreamBeginKeeps ==
    ASSUME UploadInv, NEW c \in Containers, NEW k \in Keys, NEW n \in Bodies,
           StreamBegin(c, k, n)
    PROVE  UploadInv'
<1>0. /\ n \in Nat /\ Plain(n) \in AllFiles /\ Payload(Plain(n)) = <<Plain(n).size>>
      /\ Plain(n).size = n
  BY PlainFiles, FileTypes
<1>1. PICK r \in Handling :
         r = [Idle EXCEPT !.pc = "fill", !.file = Plain(n), !.key = k, !.unread = n]
  BY <1>0, IdleRequest DEF Handling
<1>2. /\ r.pc = "fill" /\ r.file = Plain(n) /\ r.key = k /\ r.unread = n
      /\ r.done = <<>> /\ r.buf = 0 /\ r.sent = 0 /\ r.parts = <<>> /\ r.eof = FALSE
  BY <1>1 DEF Idle
<1>3. object[k] = Absent /\ k \notin open /\ \A d \in Containers : req[d].key # k
  BY DEF StreamBegin, Fresh
<1>4. StreamOK(r, object, open)
  BY <1>0, <1>2, <1>3 DEF StreamOK
<1>5. RequestOK(r, object, open)
  BY <1>2, <1>4 DEF RequestOK
<1>6. req[c].key = NoKey
  BY Handled DEF StreamBegin, At, RequestOK
<1>7. req' = [req EXCEPT ![c] = r] /\ UNCHANGED <<object, open, lost, answered>>
  BY <1>1 DEF StreamBegin, Continue
<1>8. QED
  BY <1>2, <1>3, <1>5, <1>6, <1>7, LocalKeeps

LEMMA StreamFillKeeps ==
    ASSUME UploadInv, NEW c \in Containers, StreamFill(c)
    PROVE  UploadInv'
<1>1. PICK q \in Handling : q = req[c]
  BY Handled
<1>2. q.pc = "fill" /\ StreamOK(q, object, open)
  BY <1>1, Handled DEF StreamFill, At, RequestOK
<1>3. q.unread \in Nat /\ q.buf \in Nat /\ q.sent \in Nat
  BY DEF Handling
<1>4. UNCHANGED <<object, open, lost, answered>>
  BY DEF StreamFill
<1>5. CASE q.unread = 0
  <2>1. PICK r \in Handling : r = [q EXCEPT !.eof = TRUE, !.pc = "single"]
    BY DEF Handling
  <2>2. /\ r.pc = "single" /\ r.file = q.file /\ r.key = q.key /\ r.unread = q.unread
        /\ r.done = q.done /\ r.buf = q.buf /\ r.sent = q.sent /\ r.parts = q.parts
    BY <2>1 DEF Handling
  <2>3. StreamOK(r, object, open)
    BY <1>2, <1>3, <1>5, <2>2 DEF StreamOK
  <2>4. RequestOK(r, object, open) /\ r.done = <<>>
    BY <2>2, <2>3 DEF RequestOK, StreamOK
  <2>5. req' = [req EXCEPT ![c] = r]
    BY <1>1, <1>5, <2>1 DEF StreamFill, Continue
  <2>. QED
    BY <1>1, <1>4, <2>2, <2>4, <2>5, LocalKeeps
<1>6. CASE q.unread # 0
  <2>1. PICK n \in 1 .. ChunkSize :
           /\ n <= q.unread
           /\ Continue(c, [Read(q, n) EXCEPT
                  !.pc = IF q.buf + n >= PartSize THEN "create" ELSE "fill"])
    BY <1>1, <1>6 DEF StreamFill
  <2>2. n \in Nat /\ q.unread - n \in Nat /\ q.buf + n \in Nat
    BY <1>3, <2>1
  <2>3. PICK r : r = [Read(q, n) EXCEPT
                        !.pc = IF q.buf + n >= PartSize THEN "create" ELSE "fill"]
    OBVIOUS
  <2>4. r \in Handling
    BY <2>2, <2>3 DEF Handling, Read
  <2>5. /\ r.pc = (IF q.buf + n >= PartSize THEN "create" ELSE "fill")
        /\ r.unread = q.unread - n /\ r.buf = q.buf + n
        /\ r.file = q.file /\ r.key = q.key /\ r.eof = q.eof
        /\ r.done = q.done /\ r.sent = q.sent /\ r.parts = q.parts
    BY <2>3 DEF Handling, Read
  <2>6. StreamOK(r, object, open)
    BY <1>2, <1>3, <2>2, <2>5 DEF StreamOK
  <2>7. RequestOK(r, object, open) /\ r.done = <<>>
    BY <2>5, <2>6 DEF RequestOK, StreamOK
  <2>8. req' = [req EXCEPT ![c] = r]
    BY <2>1, <2>3 DEF Continue
  <2>. QED
    BY <1>1, <1>4, <2>4, <2>5, <2>7, <2>8, LocalKeeps
<1>7. QED
  BY <1>5, <1>6

LEMMA Moved ==
    ASSUME NEW a \in Nat, NEW b \in Nat, NEW u \in Nat, NEW n \in Nat
    PROVE  a + (b + n) + (u - n) = a + b + u
OBVIOUS

LEMMA StreamReadKeeps ==
    ASSUME UploadInv, NEW c \in Containers, StreamRead(c)
    PROVE  UploadInv'
<1>1. PICK q \in Handling : q = req[c]
  BY Handled
<1>2. /\ q.pc = "parts" /\ StreamOK(q, object, open) /\ PartsOK(q)
      /\ ~PartDue(q) /\ ~q.eof
  BY <1>1, Handled DEF StreamRead, At, RequestOK
<1>3. q.unread \in Nat /\ q.buf \in Nat /\ q.sent \in Nat /\ q.parts \in Seq(Nat)
  BY DEF Handling
<1>4. UNCHANGED <<object, open, lost, answered>>
  BY DEF StreamRead
<1>5. CASE q.unread = 0
  <2>1. PICK r \in Handling : r = [q EXCEPT !.eof = TRUE]
    BY DEF Handling
  <2>2. /\ r.pc = "parts" /\ r.file = q.file /\ r.key = q.key /\ r.unread = q.unread
        /\ r.done = q.done /\ r.buf = q.buf /\ r.sent = q.sent /\ r.parts = q.parts
        /\ r.eof = TRUE
    BY <1>2, <2>1 DEF Handling
  <2>3. StreamOK(r, object, open)
    BY <1>2, <1>3, <1>5, <2>2 DEF StreamOK
  <2>4. PartsOK(r)
    BY <1>2, <1>5, <2>2 DEF PartsOK
  <2>5. RequestOK(r, object, open) /\ r.done = <<>>
    BY <2>2, <2>3, <2>4 DEF RequestOK, StreamOK
  <2>6. req' = [req EXCEPT ![c] = r]
    BY <1>1, <1>5, <2>1 DEF StreamRead, Continue
  <2>. QED
    BY <1>1, <1>4, <2>2, <2>5, <2>6, LocalKeeps
<1>6. CASE q.unread # 0
  <2>1. PICK n \in 1 .. ChunkSize : n <= q.unread /\ Continue(c, Read(q, n))
    BY <1>1, <1>6 DEF StreamRead
  <2>2. n \in Nat /\ q.unread - n \in Nat /\ q.buf + n \in Nat
    BY <1>3, <2>1
  <2>3. PICK r : r = Read(q, n)
    OBVIOUS
  <2>4. r \in Handling
    BY <2>2, <2>3 DEF Handling, Read
  <2>5. /\ r.pc = "parts" /\ r.unread = q.unread - n /\ r.buf = q.buf + n
        /\ r.file = q.file /\ r.key = q.key /\ r.eof = q.eof
        /\ r.done = q.done /\ r.sent = q.sent /\ r.parts = q.parts
    BY <1>2, <2>3 DEF Handling, Read
  <2>6. StreamOK(r, object, open)
    <3>1. r.sent + r.buf + r.unread = q.sent + q.buf + q.unread
      <4>1. PICK a \in Nat, b \in Nat, u \in Nat :
               a = q.sent /\ b = q.buf /\ u = q.unread
        BY <1>3
      <4>2. n \in Nat /\ a + (b + n) + (u - n) = a + b + u
        BY <2>2, Moved
      <4>. QED
        BY <2>5, <4>1, <4>2, Zenon
    <3>. QED
      BY <1>2, <2>5, <3>1 DEF StreamOK
  <2>7. PartsOK(r)
    <3>1. q.buf < PartSize
      BY <1>2, <1>3 DEF PartDue
    <3>2. q.parts # <<>>
      BY <1>2, <1>3, <3>1 DEF PartsOK
    <3>. QED
      BY <1>2, <2>5, <3>2 DEF PartsOK
  <2>8. RequestOK(r, object, open) /\ r.done = <<>>
    BY <2>5, <2>6, <2>7 DEF RequestOK, StreamOK
  <2>9. req' = [req EXCEPT ![c] = r]
    BY <2>1, <2>3 DEF Continue
  <2>. QED
    BY <1>1, <1>4, <2>4, <2>5, <2>8, <2>9, LocalKeeps
<1>7. QED
  BY <1>5, <1>6

LEMMA StreamPartKeeps ==
    ASSUME UploadInv, NEW c \in Containers, StreamPart(c)
    PROVE  UploadInv'
<1>1. PICK q \in Handling : q = req[c]
  BY Handled
<1>2. /\ q.pc = "parts" /\ StreamOK(q, object, open) /\ PartsOK(q) /\ PartDue(q)
  BY <1>1, Handled DEF StreamPart, At, RequestOK
<1>3. /\ q.unread \in Nat /\ q.buf \in Nat /\ q.sent \in Nat /\ q.parts \in Seq(Nat)
      /\ q.eof \in BOOLEAN
  BY DEF Handling
<1>4. UNCHANGED <<object, open, lost, answered>>
  BY DEF StreamPart
<1>5. PICK r : r = [q EXCEPT !.parts = Append(@, q.buf), !.sent = @ + q.buf, !.buf = 0]
  OBVIOUS
<1>6. r \in Handling
  <2>1. Append(q.parts, q.buf) \in Seq(Nat) /\ q.sent + q.buf \in Nat
    BY <1>3
  <2>2. \A parts \in Seq(Nat), sent \in Nat :
           [q EXCEPT !.parts = parts, !.sent = sent, !.buf = 0] \in Handling
    BY DEF Handling
  <2>. QED
    BY <1>5, <2>1, <2>2
<1>7. /\ r.pc = "parts" /\ r.unread = q.unread /\ r.buf = 0
      /\ r.file = q.file /\ r.key = q.key /\ r.eof = q.eof
      /\ r.done = q.done /\ r.sent = q.sent + q.buf /\ r.parts = Append(q.parts, q.buf)
  BY <1>2, <1>5 DEF Handling
<1>8. StreamOK(r, object, open)
  BY <1>2, <1>3, <1>7 DEF StreamOK
<1>9. PartsOK(r)
  <2>1. q.buf > 0 /\ (~q.eof => q.buf >= PartSize)
    BY <1>2, <1>3 DEF PartDue
  <2>2. /\ Len(r.parts) = Len(q.parts) + 1 /\ Len(q.parts) \in Nat
        /\ r.parts[Len(q.parts) + 1] = q.buf
        /\ \A i \in 1 .. Len(q.parts) : r.parts[i] = q.parts[i]
    BY <1>3, <1>7
  <2>3. ASSUME NEW i \in 1 .. Len(r.parts)
        PROVE  /\ r.parts[i] > 0
               /\ i < Len(r.parts) \/ ~r.eof \/ r.buf > 0 => r.parts[i] >= PartSize
    <3>1. CASE i = Len(q.parts) + 1
      BY <1>7, <2>1, <2>2, <3>1
    <3>2. CASE i \in 1 .. Len(q.parts)
      <4>1. q.parts[i] > 0 /\ q.parts[i] >= PartSize
        BY <1>2, <2>1, <3>2 DEF PartsOK
      <4>. QED
        BY <2>2, <3>2, <4>1
    <3>. QED
      BY <2>2, <3>1, <3>2
  <2>4. r.parts # <<>>
    BY <2>2, EmptySequence
  <2>. QED
    BY <1>2, <1>7, <2>3, <2>4 DEF PartsOK
<1>10. RequestOK(r, object, open) /\ r.done = <<>>
  BY <1>7, <1>8, <1>9 DEF RequestOK, StreamOK
<1>11. req' = [req EXCEPT ![c] = r]
  BY <1>1, <1>5 DEF StreamPart, Continue
<1>12. QED
  BY <1>1, <1>4, <1>6, <1>7, <1>10, <1>11, LocalKeeps

LEMMA StreamCreateKeeps ==
    ASSUME UploadInv, NEW c \in Containers, StreamCreate(c)
    PROVE  UploadInv'
<1>1. PICK q \in Handling : q = req[c]
  BY Handled
<1>2. q.pc = "create" /\ StreamOK(q, object, open)
  BY <1>1, Handled DEF StreamCreate, At, RequestOK
<1>3. PICK r \in Handling : r = [q EXCEPT !.pc = "parts"]
  BY DEF Handling
<1>4. /\ r.pc = "parts" /\ r.file = q.file /\ r.key = q.key /\ r.unread = q.unread
      /\ r.done = q.done /\ r.buf = q.buf /\ r.sent = q.sent /\ r.parts = q.parts
      /\ r.eof = q.eof
  BY <1>3 DEF Handling
<1>5. /\ req' = [req EXCEPT ![c] = r] /\ open' = open \union {q.key}
      /\ UNCHANGED <<object, lost, answered>>
  BY <1>1, <1>3 DEF StreamCreate, Continue
<1>6. StreamOK(r, object', open')
  BY <1>2, <1>4, <1>5 DEF StreamOK
<1>7. PartsOK(r)
  BY <1>2, <1>4, EmptySequence DEF StreamOK, PartsOK
<1>8. RequestOK(r, object', open') /\ r.done = <<>> /\ q.key \in Keys
  BY <1>2, <1>4, <1>6, <1>7 DEF RequestOK, StreamOK
<1>9. SharedKept(c)
  <2>1. object[q.key] = Absent /\ \A d \in Containers \ {c} : req[d].key # q.key
    BY <1>1, <1>2, <1>8, NullsAreNothing DEF StreamOK, UploadInv, KeysApart
  <2>. QED
    BY <1>1, <1>5, <1>8, <2>1, SharedUpdate
<1>10. NothingLeft(c, r)
  BY <1>1, <1>4, <1>5, Handled DEF NothingLeft
<1>11. QED
  BY <1>1, <1>4, <1>5, <1>8, <1>9, <1>10, QuietKeeps

\* The body is stored as a whole, and the answer is its key.
LEMMA FinishKeeps ==
    ASSUME UploadInv, NEW c \in Containers, NEW q \in Handling, q = req[c],
           StreamOK(q, object, open), Finish(c, q.file.size),
           open' \in SUBSET open, q.key \notin open', lost' = lost
    PROVE  UploadInv'
<1>1. /\ q.key \in Keys /\ object[q.key] = Absent /\ q.file \in AllFiles
      /\ q.file.size \in Nat /\ Payload(q.file) = <<q.file.size>>
  BY FileTypes DEF StreamOK, Handling
<1>2. PICK tokens \in Seq(Keys) : tokens = <<q.key>>
  <2>1. PICK k \in Keys : k = q.key
    BY <1>1
  <2>2. <<k>> \in Seq(Keys)
    OBVIOUS
  <2>. QED
    BY <2>1, <2>2, Zenon
<1>3. /\ req' = [req EXCEPT ![c] = Idle]
      /\ object' = [object EXCEPT ![q.key] = q.file.size]
      /\ answered' = answered \union {[file |-> q.file, tokens |-> tokens]}
  BY <1>2 DEF Finish, Answer, Continue
<1>4. SharedKept(c)
  <2>1. \A d \in Containers \ {c} : req[d].key # q.key
    BY <1>1, NullsAreNothing DEF UploadInv, KeysApart
  <2>. QED
    BY <1>1, <1>3, <2>1, SharedUpdate
<1>5. NothingLeft(c, Idle)
  BY Handled DEF NothingLeft
<1>6. Len(tokens) = 1 /\ tokens[1] = q.key
  BY <1>2
<1>7. Len(Payload(q.file)) = 1 /\ Payload(q.file)[1] = q.file.size
  BY <1>1
<1>8. object'[q.key] = q.file.size
  BY <1>1, <1>3, Handled
<1>9. ASSUME NEW a \in answered, NEW j \in 1 .. Len(a.tokens)
      PROVE  q.key # a.tokens[j]
  BY <1>1, <1>4, AnsweredKept
<1>10. ASSUME NEW d \in Containers \ {c}, NEW j \in 1 .. Len(req[d].done)
       PROVE  q.key # req[d].done[j]
  BY <1>1, StoredIsPresent
<1>11. QED
  <2>1. \A i \in 1 .. Len(tokens) : i = 1
    BY <1>6
  <2>2. /\ \A i \in 1 .. Len(tokens) : object'[tokens[i]] = Payload(q.file)[i]
        /\ \A i, j \in 1 .. Len(tokens) : tokens[i] = tokens[j] => i = j
    BY <1>6, <1>7, <1>8, <2>1
  <2>3. \A i \in 1 .. Len(tokens), a \in answered :
           \A j \in 1 .. Len(a.tokens) : tokens[i] # a.tokens[j]
    BY <1>6, <1>9, <2>1
  <2>4. \A i \in 1 .. Len(tokens), d \in Containers \ {c} :
           \A j \in 1 .. Len(req[d].done) : tokens[i] # req[d].done[j]
    BY <1>6, <1>10, <2>1
  <2>5. Len(tokens) = Len(Payload(q.file))
    BY <1>6, <1>7
  <2>. QED
    BY <1>1, <1>3, <1>4, <1>5, <2>2, <2>3, <2>4, <2>5, AnswerKeeps

LEMMA StreamPutKeeps ==
    ASSUME UploadInv, NEW c \in Containers, StreamPut(c)
    PROVE  UploadInv'
<1>1. PICK q \in Handling : q = req[c]
  BY Handled
<1>2. q.pc = "single" /\ StreamOK(q, object, open)
  BY <1>1, Handled DEF StreamPut, At, RequestOK
<1>3. q.buf = q.file.size /\ q.key \notin open
  <2>1. q.buf \in Nat
    BY DEF Handling
  <2>. QED
    BY <1>2, <2>1 DEF StreamOK
<1>4. Finish(c, q.file.size) /\ UNCHANGED <<open, lost>>
  BY <1>1, <1>3 DEF StreamPut
<1>5. QED
  BY <1>1, <1>2, <1>3, <1>4, FinishKeeps

LEMMA StreamCompleteKeeps ==
    ASSUME UploadInv, NEW c \in Containers, StreamComplete(c)
    PROVE  UploadInv'
<1>1. PICK q \in Handling : q = req[c]
  BY Handled
<1>2. q.pc = "parts" /\ StreamOK(q, object, open) /\ PartsOK(q) /\ ~PartDue(q) /\ q.eof
  BY <1>1, Handled DEF StreamComplete, At, RequestOK
<1>3. q.sent = q.file.size
  <2>1. q.buf \in Nat /\ q.sent \in Nat
    BY DEF Handling
  <2>2. q.buf = 0 /\ q.unread = 0
    BY <1>2, <2>1 DEF PartsOK, PartDue
  <2>. QED
    BY <1>2, <2>1, <2>2 DEF StreamOK
<1>4. Finish(c, q.file.size) /\ open' = open \ {q.key} /\ lost' = lost
  BY <1>1, <1>3 DEF StreamComplete
<1>5. QED
  BY <1>1, <1>2, <1>4, FinishKeeps

\* A step that drops what c had in hand.
LEMMA DropKeeps ==
    ASSUME UploadInv, NEW c \in Containers,
           req' = [req EXCEPT ![c] = Idle], answered' = answered,
           SharedKept(c), NothingLeft(c, Idle)
    PROVE  UploadInv'
<1>1. /\ Idle \in Handling /\ Idle.key = NoKey /\ Idle.done = <<>>
      /\ RequestOK(Idle, object', open')
  BY IdleRequest DEF RequestOK
<1>2. QED
  BY <1>1, QuietKeeps

LEMMA StreamRefusedKeeps ==
    ASSUME UploadInv, NEW c \in Containers, StreamRefused(c)
    PROVE  UploadInv'
<1>1. PICK q \in Handling : q = req[c]
  BY Handled
<1>2. q.pc \in {"fill", "single", "create"} /\ StreamOK(q, object, open)
  BY <1>1, Handled DEF StreamRefused, At, RequestOK
<1>3. /\ q.key \in Keys /\ q.key \notin open /\ object[q.key] = Absent /\ q.buf \in Nat
      /\ \A d \in Containers \ {c} : req[d].key # q.key
  BY <1>1, <1>2, NullsAreNothing DEF StreamOK, Handling, UploadInv, KeysApart
<1>4. /\ object' \in {object, [object EXCEPT ![q.key] = q.buf]}
      /\ \/ open' = open /\ lost' = lost
         \/ open' = open \union {q.key} /\ lost' = lost \union {q.key}
  BY <1>1 DEF StreamRefused
<1>5. SharedKept(c)
  BY <1>1, <1>3, <1>4, SharedUpdate
<1>6. NothingLeft(c, Idle)
  BY <1>1, <1>3, <1>4, Handled DEF NothingLeft
<1>7. req' = [req EXCEPT ![c] = Idle] /\ answered' = answered
  BY DEF StreamRefused, Continue
<1>8. QED
  BY <1>5, <1>6, <1>7, DropKeeps

LEMMA StreamInterruptedKeeps ==
    ASSUME UploadInv, NEW c \in Containers, StreamInterrupted(c)
    PROVE  UploadInv'
<1>1. PICK q \in Handling : q = req[c]
  BY Handled
<1>2. /\ q.key \in Keys /\ object[q.key] = Absent /\ q.sent \in Nat
      /\ \A d \in Containers \ {c} : req[d].key # q.key
  BY <1>1, Handled, NullsAreNothing
     DEF StreamInterrupted, At, RequestOK, StreamOK, Handling, UploadInv, KeysApart
<1>3. PICK r \in Handling : r = [Idle EXCEPT !.pc = "abort", !.key = q.key]
  BY <1>2, IdleRequest DEF Handling
<1>4. r.pc = "abort" /\ r.key = q.key /\ r.done = <<>>
  BY <1>3 DEF Idle
<1>5. RequestOK(r, object', open')
  BY <1>2, <1>4 DEF RequestOK
<1>6. /\ req' = [req EXCEPT ![c] = r] /\ UNCHANGED <<lost, answered>>
      /\ object' \in {object, [object EXCEPT ![q.key] = q.sent]}
      /\ open' \in {open, open \ {q.key}}
  BY <1>1, <1>3 DEF StreamInterrupted, Continue
<1>7. SharedKept(c)
  BY <1>1, <1>2, <1>6, SharedUpdate
<1>8. NothingLeft(c, r)
  BY <1>1, <1>4, <1>6, Handled DEF NothingLeft
<1>9. QED
  BY <1>1, <1>4, <1>5, <1>6, <1>7, <1>8, QuietKeeps

LEMMA StreamAbortKeeps ==
    ASSUME UploadInv, NEW c \in Containers, StreamAbort(c) \/ StreamAbortFails(c)
    PROVE  UploadInv'
<1>1. req[c].key \in Keys
  BY Handled DEF StreamAbort, StreamAbortFails, At, RequestOK
<1>2. /\ req' = [req EXCEPT ![c] = Idle] /\ answered' = answered /\ object' = object
      /\ \/ open' = open \ {req[c].key} /\ lost' = lost
         \/ open' = open /\ lost' = lost \union {req[c].key}
  BY DEF StreamAbort, StreamAbortFails, Continue
<1>3. SharedKept(c)
  BY <1>2, Handled DEF SharedKept
<1>4. NothingLeft(c, Idle)
  BY <1>1, <1>2, Handled DEF NothingLeft
<1>5. QED
  BY <1>2, <1>3, <1>4, DropKeeps

LEMMA StopKeeps ==
    ASSUME UploadInv, NEW c \in Containers, Stop(c)
    PROVE  UploadInv'
<1>1. /\ req' = [req EXCEPT ![c] = Idle] /\ UNCHANGED <<object, open, answered>>
      /\ lost' = lost \union (open \intersect {req[c].key})
  BY DEF Stop
<1>2. SharedKept(c)
  BY <1>1, Handled DEF SharedKept
<1>3. NothingLeft(c, Idle)
  BY <1>1, Handled DEF NothingLeft
<1>4. QED
  BY <1>1, <1>2, <1>3, DropKeeps

\* What PutMember finds, and what it does to the bucket.
Putting(c, k, q, tokens) ==
    /\ q = req[c] /\ q.pc = "put" /\ PutOK(q, object)
    /\ tokens = Append(q.done, k)
    /\ object[k] = Absent /\ object' = [object EXCEPT ![k] = Head(q.left)]
    /\ UNCHANGED <<open, lost>>

Stores(k, q, tokens, obj) ==
    /\ q.file \in AllFiles /\ Payload(q.file) \in Seq(Nat)
    /\ q.left \in Seq(Nat) /\ q.done \in Seq(Keys)
    /\ Len(q.left) \in Nat /\ Len(q.left) >= 1
    /\ Len(q.done) \in Nat /\ Len(tokens) = Len(q.done) + 1
    /\ Len(Payload(q.file)) = Len(q.done) + Len(q.left)
    /\ \A i \in 1 .. Len(tokens) : obj[tokens[i]] = Payload(q.file)[i]
    /\ \A i \in 1 .. Len(tokens) :
          (i \in 1 .. Len(q.done) /\ tokens[i] = q.done[i]) \/ tokens[i] = k
    /\ \A i, j \in 1 .. Len(tokens) : tokens[i] = tokens[j] => i = j

LEMMA PuttingStores ==
    ASSUME UploadInv, NEW c \in Containers, NEW k \in Keys, NEW q \in Handling,
           NEW tokens \in Seq(Keys), Putting(c, k, q, tokens),
           \A d \in Containers : req[d].key # k
    PROVE  Stores(k, q, tokens, object') /\ SharedKept(c)
<1>1. /\ q.file \in AllFiles /\ Payload(q.file) \in Seq(Nat)
      /\ q.left \in Seq(Nat) /\ q.done \in Seq(Keys)
  BY FileTypes DEF Handling
<1>2. Len(q.left) \in Nat /\ Len(q.left) >= 1 /\ Len(Payload(q.file)) = Len(q.done) + Len(q.left)
  <2>1. Len(q.left) \in Nat
    BY <1>1, Elements
  <2>. QED
    BY <2>1 DEF Putting, PutOK
<1>3. /\ Len(q.done) \in Nat /\ Len(tokens) = Len(q.done) + 1
      /\ tokens[Len(q.done) + 1] = k
      /\ \A i \in 1 .. Len(q.done) : tokens[i] = q.done[i]
  BY <1>1 DEF Putting
<1>4. Head(q.left) = q.left[1] /\ q.left[1] \in Nat
  BY <1>1, <1>2
<1>5. q.left[1] = Payload(q.file)[Len(q.done) + 1]
  BY <1>2 DEF Putting, PutOK
<1>6. SharedKept(c)
  <2>1. PICK n \in Nat : n = Head(q.left)
    BY <1>4
  <2>. QED
    BY <2>1, SharedUpdate DEF Putting
<1>7. ASSUME NEW i \in 1 .. Len(q.done)
      PROVE  q.done[i] # k /\ object'[q.done[i]] = Payload(q.file)[i]
  <2>1. object[q.done[i]] # Absent /\ q.done[i] \in Keys
    BY <1>1, StoredIsPresent, Elements DEF Putting
  <2>2. object[q.done[i]] = Payload(q.file)[i]
    BY DEF Putting, PutOK
  <2>. QED
    BY <2>1, <2>2, <1>6 DEF Putting, SharedKept
<1>8. object'[k] = Payload(q.file)[Len(q.done) + 1]
  BY <1>4, <1>5, Handled DEF Putting
<1>9. \A i \in 1 .. Len(tokens) : i \in 1 .. Len(q.done) \/ i = Len(q.done) + 1
  BY <1>3
<1>10. \A i \in 1 .. Len(tokens) : object'[tokens[i]] = Payload(q.file)[i]
  BY <1>3, <1>7, <1>8, <1>9
<1>11. \A i \in 1 .. Len(tokens) :
          (i \in 1 .. Len(q.done) /\ tokens[i] = q.done[i]) \/ tokens[i] = k
  BY <1>3, <1>9
<1>12. ASSUME NEW i \in 1 .. Len(tokens), NEW j \in 1 .. Len(tokens), tokens[i] = tokens[j]
       PROVE  i = j
  <2>1. \A m, n \in 1 .. Len(q.done) : q.done[m] = q.done[n] => m = n
    BY DEF UploadInv, DoneApart, Putting
  <2>2. CASE i \in 1 .. Len(q.done) /\ j \in 1 .. Len(q.done)
    BY <1>3, <1>12, <2>1, <2>2
  <2>3. CASE i \in 1 .. Len(q.done) /\ j = Len(q.done) + 1
    BY <1>3, <1>7, <1>12, <2>3
  <2>4. CASE i = Len(q.done) + 1 /\ j \in 1 .. Len(q.done)
    BY <1>3, <1>7, <1>12, <2>4
  <2>. QED
    BY <1>9, <2>2, <2>3, <2>4
<1>13. QED
  BY <1>1, <1>2, <1>3, <1>6, <1>10, <1>11, <1>12 DEF Stores

\* The key of a body that is stored is one no answer and no request holds.
LEMMA KeyIsNew ==
    ASSUME UploadInv, NEW k \in Keys, object[k] = Absent
    PROVE  /\ \A d \in Containers : \A j \in 1 .. Len(req[d].done) : req[d].done[j] # k
           /\ \A a \in answered : \A j \in 1 .. Len(a.tokens) : a.tokens[j] # k
<1>1. ASSUME NEW a \in answered, NEW j \in 1 .. Len(a.tokens)
      PROVE  a.tokens[j] # k
  <2>1. a.file \in AllFiles /\ Payload(a.file) \in Seq(Nat)
    BY FileTypes DEF UploadInv, UploadTypes
  <2>2. object[a.tokens[j]] = Payload(a.file)[j] /\ j \in 1 .. Len(Payload(a.file))
    BY DEF UploadInv, AnsweredIsStored
  <2>3. object[a.tokens[j]] \in Nat
    BY <2>1, <2>2, Elements
  <2>. QED
    BY <2>3, NullsAreNothing
<1>2. QED
  BY <1>1, StoredIsPresent

LEMMA TokensAreNew ==
    ASSUME UploadInv, NEW c \in Containers, NEW k \in Keys, NEW q \in Handling,
           NEW tokens \in Seq(Keys), Putting(c, k, q, tokens),
           \A d \in Containers : req[d].key # k, NEW i \in 1 .. Len(tokens)
    PROVE  /\ \A a \in answered : \A j \in 1 .. Len(a.tokens) : tokens[i] # a.tokens[j]
           /\ \A d \in Containers \ {c} :
                 \A j \in 1 .. Len(req[d].done) : tokens[i] # req[d].done[j]
<1>0. q = req[c] /\ object[k] = Absent
  BY DEF Putting
<1>1. (i \in 1 .. Len(q.done) /\ tokens[i] = q.done[i]) \/ tokens[i] = k
  <2>1. Stores(k, q, tokens, object')
    BY PuttingStores
  <2>. QED
    BY <2>1 DEF Stores
<1>2. CASE tokens[i] = k
  <2>1. /\ \A d \in Containers : \A j \in 1 .. Len(req[d].done) : req[d].done[j] # k
        /\ \A a \in answered : \A j \in 1 .. Len(a.tokens) : a.tokens[j] # k
    BY <1>0, KeyIsNew
  <2>. QED
    BY <1>2, <2>1, Zenon
<1>3. CASE i \in 1 .. Len(q.done) /\ tokens[i] = q.done[i]
  <2>1. \A a \in answered : \A j \in 1 .. Len(a.tokens) : q.done[i] # a.tokens[j]
    BY <1>0, <1>3, Zenon DEF UploadInv, DoneUnanswered
  <2>2. ASSUME NEW d \in Containers \ {c}, NEW j \in 1 .. Len(req[d].done)
        PROVE  q.done[i] # req[d].done[j]
    <3>1. d \in Containers /\ c # d
      OBVIOUS
    <3>. QED
      BY <1>0, <1>3, <3>1, Zenon DEF UploadInv, DoneApart
  <2>. QED
    BY <1>3, <2>1, <2>2, Zenon
<1>4. QED
  BY <1>1, <1>2, <1>3

LEMMA PutLastKeeps ==
    ASSUME UploadInv, NEW c \in Containers, NEW k \in Keys, NEW q \in Handling,
           NEW tokens \in Seq(Keys), Putting(c, k, q, tokens),
           \A d \in Containers : req[d].key # k,
           ~(Len(q.left) > 1), req' = [req EXCEPT ![c] = Idle],
           Answer(q.file, tokens)
    PROVE  UploadInv'
<1>0. Stores(k, q, tokens, object') /\ SharedKept(c)
  BY PuttingStores
<1>1. /\ q.file \in AllFiles /\ SharedKept(c) /\ q.left \in Seq(Nat)
      /\ Len(tokens) = Len(q.done) + 1 /\ Len(q.done) \in Nat
      /\ Len(Payload(q.file)) = Len(q.done) + Len(q.left)
      /\ \A i \in 1 .. Len(tokens) : object'[tokens[i]] = Payload(q.file)[i]
      /\ \A i, j \in 1 .. Len(tokens) : tokens[i] = tokens[j] => i = j
  BY <1>0 DEF Stores
<1>2. \A i \in 1 .. Len(tokens) :
         (i \in 1 .. Len(q.done) /\ tokens[i] = q.done[i]) \/ tokens[i] = k
  BY <1>0 DEF Stores
<1>3. Len(tokens) = Len(Payload(q.file))
  <2>0. Len(q.left) \in Nat /\ Len(q.left) >= 1
    BY <1>0 DEF Stores
  <2>1. Len(q.left) = 1
    <3>1. PICK n \in Nat : n = Len(q.left)
      BY <2>0, Zenon
    <3>2. n >= 1 /\ ~(n > 1)
      BY <2>0, <3>1, Zenon
    <3>3. n = 1
      BY <3>2
    <3>. QED
      BY <3>1, <3>3, Zenon
  <2>2. PICK m \in Nat : m = Len(q.done)
    BY <1>1, Zenon
  <2>3. Len(tokens) = m + 1 /\ Len(Payload(q.file)) = m + 1
    BY <1>1, <2>1, <2>2, Zenon
  <2>. QED
    BY <2>3, Zenon
<1>4. ASSUME NEW i \in 1 .. Len(tokens), NEW a \in answered, NEW j \in 1 .. Len(a.tokens)
      PROVE  tokens[i] # a.tokens[j]
  BY TokensAreNew
<1>5. ASSUME NEW i \in 1 .. Len(tokens), NEW d \in Containers \ {c},
             NEW j \in 1 .. Len(req[d].done)
      PROVE  tokens[i] # req[d].done[j]
  BY TokensAreNew
<1>6. NothingLeft(c, Idle)
  BY Handled, NullsAreNothing DEF NothingLeft, Putting, PutOK
<1>7. answered' = answered \union {[file |-> q.file, tokens |-> tokens]}
  BY DEF Answer
<1>8. QED
  BY <1>1, <1>3, <1>4, <1>5, <1>6, <1>7, AnswerKeeps

PutOn(q, k) == [q EXCEPT !.left = Tail(@), !.done = Append(@, k)]

LEMMA PutOnKeeps ==
    ASSUME UploadInv, NEW c \in Containers, NEW k \in Keys, NEW q \in Handling,
           NEW tokens \in Seq(Keys), Putting(c, k, q, tokens),
           \A d \in Containers : req[d].key # k,
           Len(q.left) > 1, NEW r \in Handling,
           r = PutOn(q, k),
           req' = [req EXCEPT ![c] = r], answered' = answered
    PROVE  UploadInv'
<1>0. Stores(k, q, tokens, object') /\ SharedKept(c)
  BY PuttingStores
<1>1. /\ Payload(q.file) \in Seq(Nat) /\ SharedKept(c)
      /\ q.left \in Seq(Nat) /\ q.done \in Seq(Keys)
      /\ Len(tokens) = Len(q.done) + 1 /\ Len(q.done) \in Nat
      /\ Len(Payload(q.file)) = Len(q.done) + Len(q.left)
      /\ \A i \in 1 .. Len(tokens) : object'[tokens[i]] = Payload(q.file)[i]
      /\ \A i, j \in 1 .. Len(tokens) : tokens[i] = tokens[j] => i = j
  BY <1>0 DEF Stores
<1>2. \A i \in 1 .. Len(tokens) :
         (i \in 1 .. Len(q.done) /\ tokens[i] = q.done[i]) \/ tokens[i] = k
  BY <1>0 DEF Stores
<1>3. /\ r.pc = "put" /\ r.file = q.file /\ r.key = NoKey
      /\ r.left = Tail(q.left) /\ r.done = tokens
  BY DEF Handling, Putting, PutOK, PutOn
<1>4. PutOK(r, object')
  <2>1. /\ Len(r.left) = Len(q.left) - 1 /\ Len(q.left) \in Nat
        /\ \A i \in 1 .. Len(r.left) : r.left[i] = q.left[i + 1]
    <3>1. PICK left \in Seq(Nat) : left = q.left
      BY <1>1
    <3>2. r.left = Tail(left) /\ Len(left) > 1
      BY <1>3, <3>1
    <3>3. /\ Len(Tail(left)) = Len(left) - 1 /\ Len(left) \in Nat
          /\ \A i \in 1 .. Len(Tail(left)) : Tail(left)[i] = left[i + 1]
      BY <3>2
    <3>. QED
      BY <3>1, <3>2, <3>3, Zenon
  <2>2. \A i \in 1 .. Len(q.left) : q.left[i] = Payload(q.file)[Len(q.done) + i]
    BY DEF Putting, PutOK
  <2>3. ASSUME NEW i \in 1 .. Len(r.left)
        PROVE  r.left[i] = Payload(q.file)[Len(tokens) + i]
    <3>1. i + 1 \in 1 .. Len(q.left) /\ Len(tokens) + i = Len(q.done) + (i + 1)
      <4>1. PICK m \in Nat, n \in Nat : m = Len(q.done) /\ n = Len(q.left)
        BY <1>1, <2>1
      <4>2. i \in 1 .. (n - 1) /\ Len(tokens) = m + 1
        BY <1>1, <2>1, <4>1, Zenon
      <4>3. i + 1 \in 1 .. n /\ (m + 1) + i = m + (i + 1)
        BY <4>2
      <4>. QED
        BY <4>1, <4>2, <4>3, Zenon
    <3>. QED
      BY <2>1, <2>2, <3>1
  <2>4. Len(r.left) >= 1 /\ Len(tokens) + Len(r.left) = Len(Payload(q.file))
    <3>1. PICK m \in Nat, n \in Nat : m = Len(q.done) /\ n = Len(q.left)
      BY <1>1, <2>1
    <3>2. /\ Len(r.left) = n - 1 /\ n > 1 /\ Len(tokens) = m + 1
          /\ Len(Payload(q.file)) = m + n
      BY <1>1, <2>1, <3>1
    <3>. QED
      BY <3>2
  <2>5. \A i \in 1 .. Len(r.done) : object'[r.done[i]] = Payload(r.file)[i]
    BY <1>1, <1>3, Zenon
  <2>6. \A i \in 1 .. Len(r.left) : r.left[i] = Payload(r.file)[Len(r.done) + i]
    BY <1>3, <2>3, Zenon
  <2>7. Len(r.done) + Len(r.left) = Len(Payload(r.file))
    BY <1>3, <2>4, Zenon
  <2>. QED
    BY <1>3, <2>4, <2>5, <2>6, <2>7, Zenon DEF PutOK
<1>5. RequestOK(r, object', open')
  BY <1>3, <1>4 DEF RequestOK
<1>6. /\ RequestsOK' /\ KeysApart'
      /\ \A d \in Containers : req'[d] = IF d = c THEN r ELSE req[d]
      /\ req' \in [Containers -> Handling]
  BY <1>1, <1>3, <1>5, OthersKept
<1>7. NothingLeft(c, r)
  BY <1>3, Handled DEF NothingLeft, Putting, PutOK
<1>8. UploadTypes' /\ PartsAreReclaimed'
  BY <1>1, <1>6, <1>7, PartsReclaimed DEF UploadInv, UploadTypes, SharedKept, NothingLeft
<1>9. /\ req'[c].done = tokens
      /\ \A d \in Containers : d # c => req'[d] = req[d]
  BY <1>3, <1>6
<1>10. DoneApart'
  <2>1. ASSUME NEW i \in 1 .. Len(tokens), NEW d \in Containers \ {c},
               NEW j \in 1 .. Len(req[d].done)
        PROVE  tokens[i] # req[d].done[j]
    BY TokensAreNew
  <2>2. ASSUME NEW d \in Containers, NEW e \in Containers,
               NEW i \in 1 .. Len(req'[d].done), NEW j \in 1 .. Len(req'[e].done),
               req'[d].done[i] = req'[e].done[j]
        PROVE  d = e /\ i = j
    <3>1. CASE d = c /\ e = c
      BY <1>1, <1>9, <2>2, <3>1
    <3>2. CASE d = c /\ e # c
      BY <1>9, <2>1, <2>2, <3>2
    <3>3. CASE d # c /\ e = c
      BY <1>9, <2>1, <2>2, <3>3
    <3>4. CASE d # c /\ e # c
      BY <1>9, <2>2, <3>4 DEF UploadInv, DoneApart
    <3>. QED
      BY <3>1, <3>2, <3>3, <3>4
  <2>. QED
    BY <2>2 DEF DoneApart
<1>11. DoneUnanswered'
  <2>1. ASSUME NEW d \in Containers, NEW a \in answered,
               NEW i \in 1 .. Len(req'[d].done), NEW j \in 1 .. Len(a.tokens)
        PROVE  req'[d].done[i] # a.tokens[j]
    <3>1. CASE d = c
      <4>1. i \in 1 .. Len(tokens) /\ req'[d].done[i] = tokens[i]
        BY <1>9, <3>1
      <4>. QED
        BY <4>1, TokensAreNew
    <3>2. CASE d # c
      BY <1>9, <3>2 DEF UploadInv, DoneUnanswered
    <3>. QED
      BY <3>1, <3>2
  <2>. QED
    BY <2>1 DEF DoneUnanswered
<1>12. AnsweredIsStored'
  <2>1. \A a \in answered :
           /\ Len(a.tokens) = Len(Payload(a.file))
           /\ \A i \in 1 .. Len(a.tokens) : object'[a.tokens[i]] = Payload(a.file)[i]
    BY <1>1, AnsweredKept
  <2>. QED
    BY <2>1 DEF UploadInv, AnsweredIsStored
<1>13. QED
  BY <1>6, <1>8, <1>10, <1>11, <1>12 DEF UploadInv

LEMMA PutMemberKeeps ==
    ASSUME UploadInv, NEW c \in Containers, NEW k \in Keys, PutMember(c, k)
    PROVE  UploadInv'
<1>1. PICK q \in Handling : q = req[c]
  BY Handled
<1>2. /\ q.pc = "put" /\ PutOK(q, object)
      /\ q.left \in Seq(Nat) /\ q.done \in Seq(Keys)
  BY <1>1, Handled DEF PutMember, At, RequestOK, Handling
<1>3. PICK tokens \in Seq(Keys) : tokens = Append(q.done, k)
  <2>1. PICK done \in Seq(Keys) : done = q.done
    BY <1>2
  <2>2. Append(done, k) \in Seq(Keys)
    OBVIOUS
  <2>. QED
    BY <2>1, <2>2, Zenon
<1>4. object[k] = Absent /\ \A d \in Containers : req[d].key # k
  BY DEF PutMember, Fresh
<1>5. Putting(c, k, q, tokens)
  <2>1. object' = [object EXCEPT ![k] = Head(q.left)] /\ open' = open /\ lost' = lost
    BY <1>1, Zenon DEF PutMember
  <2>. QED
    BY <1>1, <1>2, <1>3, <1>4, <2>1, Zenon DEF Putting
<1>6. CASE Len(q.left) > 1
  <2>1. req' = [req EXCEPT ![c] = PutOn(q, k)] /\ answered' = answered
    BY <1>1, <1>6, Zenon DEF PutMember, Continue, PutOn
  <2>2. Tail(q.left) \in Seq(Nat)
    <3>1. PICK left \in Seq(Nat) : left = q.left
      BY <1>2
    <3>2. Tail(left) \in Seq(Nat)
      BY <1>6, <3>1
    <3>. QED
      BY <3>1, <3>2, Zenon
  <2>3. PICK r \in Handling : r = PutOn(q, k)
    <3>1. \A left \in Seq(Nat), done \in Seq(Keys) :
             [q EXCEPT !.left = left, !.done = done] \in Handling
      BY DEF Handling
    <3>2. PutOn(q, k) = [q EXCEPT !.left = Tail(q.left), !.done = tokens]
      BY <1>3 DEF PutOn
    <3>. QED
      BY <2>2, <3>1, <3>2
  <2>4. req' = [req EXCEPT ![c] = r]
    BY <2>1, <2>3, Zenon
  <2>. QED
    BY <1>4, <1>5, <1>6, <2>1, <2>3, <2>4, PutOnKeeps
<1>7. CASE ~(Len(q.left) > 1)
  <2>1. req' = [req EXCEPT ![c] = Idle]
    BY <1>1, <1>7, Zenon DEF PutMember, Continue
  <2>2. Answer(q.file, tokens)
    BY <1>1, <1>3, <1>7, Zenon DEF PutMember
  <2>. QED
    BY <1>4, <1>5, <1>7, <2>1, <2>2, PutLastKeeps
<1>8. QED
  BY <1>6, <1>7

-----------------------------------------------------------------------------
(* All steps together.                                                     *)

LEMMA UploadStarts == Init => BootInv /\ UploadInv
<1>. SUFFICES ASSUME Init
              PROVE  BootInv /\ UploadInv
  OBVIOUS
<1>1. BootInv
  BY BootStarts DEF Init
<1>2. UploadTypes
  BY IdleRequest DEF Init, UploadTypes
<1>3. /\ \A c \in Containers : req[c] = Idle
      /\ Idle.pc = "idle" /\ Idle.key = NoKey /\ Idle.done = <<>> /\ Len(Idle.done) = 0
      /\ open = {} /\ answered = {}
  BY IdleRequest, EmptySequence DEF Init
<1>4. RequestsOK
  BY <1>3 DEF RequestsOK, RequestOK
<1>5. KeysApart
  BY <1>3 DEF KeysApart
<1>6. DoneApart
  BY <1>3 DEF DoneApart
<1>7. DoneUnanswered /\ AnsweredIsStored /\ PartsAreReclaimed
  BY <1>3 DEF DoneUnanswered, AnsweredIsStored, PartsAreReclaimed
<1>8. QED
  BY <1>1, <1>2, <1>4, <1>5, <1>6, <1>7 DEF UploadInv

LEMMA RequestKeeps ==
    ASSUME UploadInv, NEW c \in Containers, Request(c)
    PROVE  UploadInv' /\ UNCHANGED provisioning
<1>1. CASE \E f \in Files : UploadBegin(c, f)
  BY <1>1, UploadBeginKeeps DEF UploadBegin, Continue
<1>2. CASE \E k \in Keys : PutMember(c, k) \/ PutFails(c, k)
  <2>1. PICK k \in Keys : PutMember(c, k) \/ PutFails(c, k)
    BY <1>2
  <2>2. CASE PutMember(c, k)
    <3>1. UNCHANGED provisioning
      BY <2>2, Zenon DEF PutMember, Continue
    <3>. QED
      BY <2>2, <3>1, PutMemberKeeps
  <2>3. CASE PutFails(c, k)
    BY <2>3, PutFailsKeeps DEF PutFails, Continue
  <2>. QED
    BY <2>1, <2>2, <2>3
<1>3. CASE \E k \in Keys, n \in Bodies : StreamBegin(c, k, n)
  BY <1>3, StreamBeginKeeps DEF StreamBegin, Continue
<1>4. CASE StreamFill(c)
  BY <1>4, StreamFillKeeps DEF StreamFill, Continue
<1>5. CASE StreamPut(c)
  BY <1>5, StreamPutKeeps DEF StreamPut, Finish, Continue
<1>6. CASE StreamCreate(c)
  BY <1>6, StreamCreateKeeps DEF StreamCreate, Continue
<1>7. CASE StreamRefused(c)
  BY <1>7, StreamRefusedKeeps DEF StreamRefused, Continue
<1>8. CASE StreamPart(c)
  BY <1>8, StreamPartKeeps DEF StreamPart, Continue
<1>9. CASE StreamRead(c)
  BY <1>9, StreamReadKeeps DEF StreamRead, Continue
<1>10. CASE StreamComplete(c)
  BY <1>10, StreamCompleteKeeps DEF StreamComplete, Finish, Continue
<1>11. CASE StreamInterrupted(c)
  BY <1>11, StreamInterruptedKeeps DEF StreamInterrupted, Continue
<1>12. CASE StreamAbort(c) \/ StreamAbortFails(c)
  BY <1>12, StreamAbortKeeps DEF StreamAbort, StreamAbortFails, Continue
<1>13. QED
  BY <1>1, <1>2, <1>3, <1>4, <1>5, <1>6, <1>7, <1>8, <1>9, <1>10, <1>11, <1>12
     DEF Request

LEMMA UploadStepKeeps ==
    ASSUME BootInv, UploadInv, [Next]_vars
    PROVE  BootInv' /\ UploadInv'
<1>1. CASE UNCHANGED vars
  <2>1. UNCHANGED provisioning /\ UNCHANGED uploads
    BY <1>1 DEF vars
  <2>2. UploadInv'
    BY <2>1 DEF uploads, UploadInv, UploadTypes, RequestsOK, KeysApart, DoneApart,
                DoneUnanswered, AnsweredIsStored, PartsAreReclaimed
  <2>3. BootInv'
    BY <2>1 DEF provisioning, BootInv, ProvisioningTypeOK, ServingHasBucket
  <2>. QED
    BY <2>2, <2>3
<1>2. CASE Next
  <2>1. PICK c \in Containers :
           \/ (StartContainer(c) \/ BootStep(c)) /\ UNCHANGED uploads
           \/ Request(c)
           \/ Stop(c)
    BY <1>2 DEF Next
  <2>2. CASE (StartContainer(c) \/ BootStep(c)) /\ UNCHANGED uploads
    <3>1. BootInv'
      BY <2>2, BootKeeps
    <3>2. UploadInv'
      BY <2>2 DEF uploads, UploadInv, UploadTypes, RequestsOK, KeysApart, DoneApart,
                  DoneUnanswered, AnsweredIsStored, PartsAreReclaimed
    <3>. QED
      BY <3>1, <3>2
  <2>3. CASE Request(c)
    <3>1. UploadInv' /\ UNCHANGED provisioning
      BY <2>3, RequestKeeps
    <3>2. BootInv'
      BY <3>1 DEF provisioning, BootInv, ProvisioningTypeOK, ServingHasBucket
    <3>. QED
      BY <3>1, <3>2
  <2>4. CASE Stop(c)
    BY <2>4, StopKeeps, BootKeeps DEF Stop
  <2>. QED
    BY <2>1, <2>2, <2>3, <2>4
<1>3. QED
  BY <1>1, <1>2

\* The parts of a stream that is still read are as the store wants them.
LEMMA PartsFollow == UploadInv => PartsAreAcceptable
<1>. SUFFICES ASSUME UploadInv, NEW c \in Containers, req[c].pc = "parts"
              PROVE  /\ \A i \in 1 .. Len(req[c].parts) :
                           /\ req[c].parts[i] > 0
                           /\ i < Len(req[c].parts) \/ ~req[c].eof
                                 => req[c].parts[i] >= PartSize
                     /\ req[c].sent + req[c].buf + req[c].unread = req[c].file.size
                     /\ req[c].eof /\ ~PartDue(req[c]) => req[c].parts # <<>>
  BY DEF PartsAreAcceptable, At
<1>1. PICK q \in Handling : q = req[c]
  BY Handled
<1>2. StreamOK(q, object, open) /\ PartsOK(q)
  BY <1>1, Handled DEF RequestOK
<1>3. \A i \in 1 .. Len(q.parts) :
         q.parts[i] > 0 /\ (i < Len(q.parts) \/ ~q.eof => q.parts[i] >= PartSize)
  BY <1>2, Zenon DEF PartsOK
<1>4. q.sent + q.buf + q.unread = q.file.size
  BY <1>2, Zenon DEF StreamOK
<1>5. ~PartDue(q) => q.parts # <<>>
  BY <1>2, Zenon DEF PartsOK, PartDue
<1>6. QED
  BY <1>1, <1>3, <1>4, <1>5, Zenon

LEMMA UploadTypesFollow == BootInv /\ UploadInv => TypeOK
BY DEF BootInv, UploadInv, UploadTypes, Handling, TypeOK

\* UploadInv is inductive: the properties of the bucket, of the answers and of
\* the parts need the others, which say how far each request has come.
THEOREM UploadsAreSafe == Spec => [](BootInv /\ UploadInv)
<1>1. Init => BootInv /\ UploadInv
  BY UploadStarts
<1>2. (BootInv /\ UploadInv) /\ [Next]_vars => (BootInv /\ UploadInv)'
  BY UploadStepKeeps
<1>3. QED
  BY <1>1, <1>2, PTL DEF Spec

\* The variables stay in their types.
THEOREM UploadsTypes == Spec => []TypeOK
BY UploadsAreSafe, UploadTypesFollow, PTL

\* No server of any number of containers that start, fail and restart together
\* runs without a bucket (provision_storage, entrypoint.sh).
THEOREM ServersHaveABucket == Spec => []ServingHasBucket
<1>1. BootInv => ServingHasBucket
  BY DEF BootInv
<1>2. QED
  BY <1>1, UploadsAreSafe, PTL

\* What an upload was answered with is in the bucket, whole and under keys of
\* its own, whatever else fails (upload_file, upload_stream).
THEOREM AnswersAreStored == Spec => []AnsweredIsStored
<1>1. UploadInv => AnsweredIsStored
  BY DEF UploadInv
<1>2. QED
  BY <1>1, UploadsAreSafe, PTL

\* Whatever the sizes of bodies, reads and parts: upload_stream sends parts
\* the store accepts, and loses nothing between them.
THEOREM PartsAreSound == Spec => []PartsAreAcceptable
BY PartsFollow, UploadsAreSafe, PTL

\* An unfinished multipart upload belongs to a request, or to one whose
\* process or whose call to the store was lost.
THEOREM NothingIsOrphaned == Spec => []PartsAreReclaimed
<1>1. UploadInv => PartsAreReclaimed
  BY DEF UploadInv
<1>2. QED
  BY <1>1, UploadsAreSafe, PTL

-----------------------------------------------------------------------------
(* Every step of a start uses something up.                                *)

Starting(c) == boot[c] \in {"check", "create", "recheck"}

\* What a start can still do: rounds before its deadline, of three calls each.
CallsLeft(point) ==
    IF point = "check" THEN 3
    ELSE IF point = "create" THEN 2 ELSE IF point = "recheck" THEN 1 ELSE 0

Rank(c) == 3 * (Tries - tries[c]) + CallsLeft(boot[c])

StartUsesUp(c) ==
    /\ Rank(c) \in Nat
    /\ BootStep(c) => Rank(c)' < Rank(c)
    /\ \/ boot'[c] = boot[c] /\ tries'[c] = tries[c]
       \/ Rank(c)' < Rank(c)

LEMMA RankType ==
    ASSUME BootInv, NEW c \in Containers
    PROVE  Rank(c) \in Nat /\ tries[c] \in 0 .. Tries
<1>1. tries[c] \in 0 .. Tries
  BY DEF BootInv, ProvisioningTypeOK
<1>2. QED
  BY <1>1 DEF Rank, CallsLeft

LEMMA ReportUsesUp ==
    ASSUME BootInv, NEW c \in Containers, Starting(c), NEW status, Report(c, status)
    PROVE  Rank(c)' < Rank(c)
<1>1. /\ boot \in [Containers -> Points] /\ tries \in [Containers -> 0 .. Tries]
  BY DEF BootInv, ProvisioningTypeOK
<1>2. PICK point \in {"serving", "check", "down"} :
         /\ boot'[c] = point
         /\ \/ point # "check" /\ tries'[c] = tries[c]
            \/ tries'[c] = tries[c] + 1
  BY <1>1 DEF Report, Go
<1>3. tries[c] \in 0 .. Tries
  BY <1>1
<1>4. QED
  BY <1>2, <1>3 DEF Rank, CallsLeft, Starting

LEMMA BootUsesUp ==
    ASSUME BootInv, NEW c \in Containers, BootStep(c)
    PROVE  Starting(c) /\ Rank(c)' < Rank(c)
<1>1. /\ boot \in [Containers -> Points] /\ tries[c] \in 0 .. Tries
  BY DEF BootInv, ProvisioningTypeOK
<1>2. Starting(c)
  BY DEF BootStep, CheckBucket, CreateBucket, RecheckBucket, Starting
<1>3. CASE CheckBucket(c)
  <2>1. \/ \E status : Report(c, status)
        \/ Go(c, "create") /\ tries' = tries
    BY <1>3, Zenon DEF CheckBucket
  <2>2. ASSUME NEW status, Report(c, status)
        PROVE  Rank(c)' < Rank(c)
    BY <1>2, <2>2, ReportUsesUp
  <2>3. ASSUME Go(c, "create"), tries' = tries
        PROVE  Rank(c)' < Rank(c)
    <3>1. boot[c] = "check" /\ boot'[c] = "create" /\ tries'[c] = tries[c]
      BY <1>1, <1>3, <2>3 DEF CheckBucket, Go
    <3>2. QED
      BY <1>1, <3>1 DEF Rank, CallsLeft
  <2>4. QED
    BY <1>2, <2>1, <2>2, <2>3
<1>4. CASE CreateBucket(c)
  <2>1. \/ \E status : Report(c, status)
        \/ Go(c, "recheck") /\ tries' = tries
    BY <1>4, Zenon DEF CreateBucket
  <2>2. ASSUME NEW status, Report(c, status)
        PROVE  Rank(c)' < Rank(c)
    BY <1>2, <2>2, ReportUsesUp
  <2>3. ASSUME Go(c, "recheck"), tries' = tries
        PROVE  Rank(c)' < Rank(c)
    <3>1. boot[c] = "create" /\ boot'[c] = "recheck" /\ tries'[c] = tries[c]
      BY <1>1, <1>4, <2>3 DEF CreateBucket, Go
    <3>2. QED
      BY <1>1, <3>1 DEF Rank, CallsLeft
  <2>4. QED
    BY <1>2, <2>1, <2>2, <2>3
<1>5. CASE RecheckBucket(c)
  BY <1>2, <1>5, ReportUsesUp DEF RecheckBucket
<1>6. QED
  BY <1>2, <1>3, <1>4, <1>5 DEF BootStep

\* A start leaves what the other containers have left to do alone.
LEMMA BootElsewhere ==
    ASSUME NEW c \in Containers, NEW d \in Containers, d # c,
           boot \in [Containers -> Points], tries \in [Containers -> 0 .. Tries],
           StartContainer(d) \/ BootStep(d) \/ StopContainer(d)
    PROVE  boot'[c] = boot[c] /\ tries'[c] = tries[c]
<1>1. ASSUME NEW point, Go(d, point)
      PROVE  boot'[c] = boot[c]
  BY <1>1 DEF Go
<1>2. ASSUME NEW status, Report(d, status)
      PROVE  boot'[c] = boot[c] /\ tries'[c] = tries[c]
  BY <1>2, <1>1 DEF Report
<1>3. CASE StartContainer(d)
  BY <1>1, <1>3 DEF StartContainer
<1>4. CASE StopContainer(d)
  BY <1>1, <1>4 DEF StopContainer
<1>5. CASE BootStep(d)
  BY <1>1, <1>2, <1>5 DEF BootStep, CheckBucket, CreateBucket, RecheckBucket
<1>6. QED
  BY <1>3, <1>4, <1>5

\* Who is not starting may begin to, which gives it its calls.
LEMMA StepUsesUp ==
    ASSUME BootInv, UploadInv, [Next]_vars, NEW c \in Containers, Starting(c)
    PROVE  StartUsesUp(c)
<1>1. /\ boot \in [Containers -> Points] /\ tries \in [Containers -> 0 .. Tries]
  BY DEF BootInv, ProvisioningTypeOK
<1>2. Rank(c) \in Nat
  BY RankType
<1>3. BootStep(c) => Rank(c)' < Rank(c)
  BY BootUsesUp
<1>4. (boot'[c] = boot[c] /\ tries'[c] = tries[c]) \/ Rank(c)' < Rank(c)
  <2>1. CASE UNCHANGED provisioning
    BY <2>1 DEF provisioning
  <2>2. ASSUME NEW d \in Containers, StartContainer(d) \/ BootStep(d) \/ StopContainer(d)
        PROVE  (boot'[c] = boot[c] /\ tries'[c] = tries[c]) \/ Rank(c)' < Rank(c)
    <3>1. CASE d # c
      BY <1>1, <2>2, <3>1, BootElsewhere
    <3>2. CASE StopContainer(c)
      <4>1. boot'[c] = "down" /\ tries'[c] = tries[c] /\ tries[c] \in 0 .. Tries
        BY <1>1, <3>2 DEF StopContainer, Go
      <4>2. QED
        BY <4>1 DEF Rank, CallsLeft, Starting
    <3>3. ~StartContainer(c)
      BY DEF StartContainer, Starting
    <3>4. QED
      BY <1>3, <2>2, <3>1, <3>2, <3>3
  <2>3. CASE Next
    <3>1. PICK d \in Containers :
             \/ (StartContainer(d) \/ BootStep(d)) /\ UNCHANGED uploads
             \/ Request(d)
             \/ Stop(d)
      BY <2>3 DEF Next
    <3>2. CASE Request(d)
      BY <2>1, <3>2, RequestKeeps
    <3>3. QED
      BY <2>2, <3>1, <3>2 DEF Stop
  <2>4. CASE UNCHANGED vars
    BY <2>1, <2>4 DEF vars
  <2>5. QED
    BY <2>3, <2>4
<1>5. QED
  BY <1>2, <1>3, <1>4 DEF StartUsesUp

(***************************************************************************)
(* Every call of a starting container, and everything else that moves it,  *)
(* takes it down in a well-founded order, whatever it is answered and the  *)
(* other containers do (_run, provision_bucket): as each call ends, so     *)
(* does the start.                                                         *)
(***************************************************************************)
THEOREM StartsRunOut ==
    Spec => [][\A c \in Containers : Starting(c) => StartUsesUp(c)]_vars
<1>1. (BootInv /\ UploadInv) /\ [Next]_vars
        => [\A c \in Containers : Starting(c) => StartUsesUp(c)]_vars
  BY StepUsesUp
<1>2. QED
  BY <1>1, UploadsAreSafe, PTL DEF Spec
=============================================================================
