----------------------------- MODULE Downloads -----------------------------
(***************************************************************************)
(* Downloads from one private version (app/routers/files.py) while access  *)
(* to it is given and revoked (AccessRequests), and their log              *)
(* (app/services/audit_service.py).                                        *)
(*                                                                         *)
(* A download decides on rows it loaded in one SELECT and signs a URL      *)
(* without asking the store; log_download runs after the answer, in a      *)
(* session of its own, and may fail or die with the process unnoticed.     *)
(***************************************************************************)
EXTENDS AccessRequests

CONSTANT
    Downloads      \* downloads that are answered (bound: each id is used once)

ASSUME DownloadsAreFinite == IsFiniteSet(Downloads)

VARIABLES
    offered,       \* neither data_deleted nor download_url = NULL
    count,         \* download_count of the version
    log,           \* rows of download_log
    task           \* download -> its log_download

downloads == <<offered, count, log, task>>
allVars == <<vars, downloads>>

Task ==
    [pc   : {"none", "queued", "read", "logged", "lost"},
     user : Users \union {Owner, NoUser},
     seen : 0 .. Cardinality(Downloads)]             \* download_count as loaded

DownloadsInit ==
    /\ Init
    /\ offered = TRUE
    /\ count = 0
    /\ log = {}
    /\ task = [d \in Downloads |-> [pc |-> "none", user |-> NoUser, seen |-> 0]]

\* Mutant: whoever has asked for access may download.
CanDownloadOnRequest(u) ==
    \/ u = Owner \/ u \in rights
    \/ \E q \in Requests : requester[q] = u /\ status[q] = "pending"

CanDownload(u) == u = Owner \/ u \in rights

\* The URL is signed and the task is queued for after the answer.
Download(d, u) ==
    /\ task[d].pc = "none"
    /\ offered
    /\ CanDownload(u)
    /\ task' = [task EXCEPT ![d].pc = "queued", ![d].user = u]
    /\ UNCHANGED <<vars, offered, count, log>>

LogRead(d) ==
    /\ task[d].pc = "queued"
    /\ task' = [task EXCEPT ![d].pc = "read", ![d].seen = count]
    /\ UNCHANGED <<vars, offered, count, log>>

\* Mutant: the counter is committed before the row of the log is inserted.
LogCommitApart(d) ==
    /\ task[d].pc = "read"
    /\ count' = task[d].seen + 1
    /\ \/ log' = log \union {d} /\ task' = [task EXCEPT ![d].pc = "logged"]
       \/ log' = log /\ task' = [task EXCEPT ![d].pc = "lost"]
    /\ UNCHANGED <<vars, offered>>

\* The row of the log and the counter, in one transaction.
LogCommit(d) ==
    /\ task[d].pc = "read"
    /\ count' = task[d].seen + 1
    /\ log' = log \union {d}
    /\ task' = [task EXCEPT ![d].pc = "logged"]
    /\ UNCHANGED <<vars, offered>>

\* log_download swallows every exception; a task does not survive its process.
LogFails(d) ==
    /\ task[d].pc \in {"queued", "read"}
    /\ task' = [task EXCEPT ![d].pc = "lost"]
    /\ UNCHANGED <<vars, offered, count, log>>

\* delete_version or delete_resource commits the tombstone of the version.
Withdraw ==
    /\ offered
    /\ offered' = FALSE
    /\ UNCHANGED <<vars, count, log, task>>

DownloadsNext ==
    \/ Next /\ UNCHANGED downloads
    \/ \E d \in Downloads :
          \/ \E u \in Users \union {Owner} : Download(d, u)
          \/ LogRead(d) \/ LogCommit(d) \/ LogFails(d)
    \/ Withdraw

DownloadsSpec == DownloadsInit /\ [][DownloadsNext]_allVars

-----------------------------------------------------------------------------
DownloadsTypeOK ==
    /\ TypeOK
    /\ offered \in BOOLEAN
    /\ count \in 0 .. Cardinality(Downloads)
    /\ log \subseteq Downloads
    /\ task \in [Downloads -> Task]

\* Whoever got a URL was the owner, or had been given access: by the
\* owner's list or an accepted request, whatever was revoked or written back since.
DownloadsWereAllowed ==
    \A d \in Downloads : task[d].pc # "none" =>
        \/ task[d].user \in listed \union {Owner}
        \/ \E q \in Requests :
              requester[q] = task[d].user /\ <<"accepted", q>> \in notices

\* Tasks that overlap lose counts, and a late one may even set the counter
\* back, but it never shows more than the log, and never none of it.
CountIsWithinLog ==
    /\ count <= Cardinality(log)
    /\ log # {} => count >= 1
=============================================================================
