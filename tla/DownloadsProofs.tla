-------------------------- MODULE DownloadsProofs --------------------------
(***************************************************************************)
(* Proofs about AccessRequests and Downloads, for any users, requests and  *)
(* downloads and any number of handlers that overlap.                      *)
(***************************************************************************)
EXTENDS MCDownloads, FiniteSetTheorems, TLAPS

(***************************************************************************)
(* What a handler holds: a caller who may ask, or a request that was made. *)
(***************************************************************************)
Deciding == {"accept", "accept_version", "reject", "revoke", "revoke_version"}

Proper(r) ==
    /\ r.pc \in {"create_version", "create_checked"} => r.user \in Users
    /\ r.pc \in Deciding => r.req \in Requests /\ status[r.req] # "none"

HandlersAreProper == \A s \in Sessions : Proper(sess[s])

RequestersAreUsers == \A q \in Requests : status[q] # "none" => requester[q] \in Users

\* The owner has let u in, by the list or by accepting a request.
LetIn(u) ==
    \/ u \in listed \union {Owner}
    \/ \E q \in Requests : requester[q] = u /\ <<"accepted", q>> \in notices

EveryoneWasLetIn == \A u \in rights : LetIn(u)

\* A list that a handler has loaded may be old, but is no less legitimate.
LoadedWereLetIn == \A s \in Sessions : \A u \in sess[s].seen : LetIn(u)

AccessInv ==
    /\ TypeOK
    /\ HandlersAreProper
    /\ RequestersAreUsers
    /\ DecisionsAnnounced
    /\ EveryoneWasLetIn
    /\ LoadedWereLetIn

USE GrantedAreUsers, DraftedIsBoolean, OwnerIsNoRequester, NullsAreNoIds

LEMMA InitAccess == Init => AccessInv
BY DEF Init, AccessInv, TypeOK, HandlersAreProper, Proper, Deciding, RequestersAreUsers,
       DecisionsAnnounced, EveryoneWasLetIn, LoadedWereLetIn, LetIn, Idle, Session,
       Statuses, Decisions

-----------------------------------------------------------------------------
(* What groups of actions do.                                              *)

\* The step of a handler sets its own record.
LEMMA SessionStep ==
    ASSUME AccessInv, NEW s \in Sessions, NEW r \in Session, Continue(s, r)
    PROVE  /\ sess' \in [Sessions -> Session]
           /\ sess'[s] = r
           /\ \A t \in Sessions \ {s} : sess'[t] = sess[t]
BY DEF AccessInv, TypeOK, Continue

\* A handler that only reads keeps the invariant when it reads well.
LEMMA ReadingKeeps ==
    ASSUME AccessInv, NEW s \in Sessions, NEW r \in Session, Continue(s, r),
           UNCHANGED table, Proper(r), r.seen \subseteq rights \union sess[s].seen
    PROVE  AccessInv'
<1>1. /\ sess' \in [Sessions -> Session] /\ sess'[s] = r
      /\ \A t \in Sessions \ {s} : sess'[t] = sess[t]
  BY SessionStep
<1>2. UNCHANGED <<draft, rights, listed, status, requester, expired, notices>>
  BY DEF table
<1>3. \A u : LetIn(u)' <=> LetIn(u)
  BY <1>2 DEF LetIn
<1>4. TypeOK' /\ RequestersAreUsers' /\ DecisionsAnnounced'
  BY <1>1, <1>2 DEF AccessInv, TypeOK, RequestersAreUsers, DecisionsAnnounced
<1>5. HandlersAreProper'
  BY <1>1, <1>2 DEF AccessInv, HandlersAreProper, Proper
<1>6. EveryoneWasLetIn' /\ LoadedWereLetIn'
  BY <1>1, <1>2, <1>3 DEF AccessInv, EveryoneWasLetIn, LoadedWereLetIn
<1>7. QED
  BY <1>4, <1>5, <1>6 DEF AccessInv

LEMMA IdleIsFine ==
    ASSUME NEW s \in Sessions
    PROVE  Idle \in Session /\ Proper(Idle) /\ Idle.seen = {}
BY DEF Idle, Session, Proper, Deciding

\* Who was let in stays so while lists and notifications grow and the
\* requester of a decided request stays the same.
LEMMA LetInForGood ==
    ASSUME AccessInv, listed \subseteq listed', notices \subseteq notices',
           \A q \in Requests : status[q] # "none" => requester'[q] = requester[q],
           NEW u, LetIn(u)
    PROVE  LetIn(u)'
<1>1. CASE u \in listed \union {Owner}
  BY <1>1 DEF LetIn
<1>2. ASSUME NEW q \in Requests, requester[q] = u, <<"accepted", q>> \in notices
      PROVE  LetIn(u)'
  <2>1. status[q] \in Decisions
    BY <1>2 DEF AccessInv, DecisionsAnnounced, Decisions
  <2>2. requester'[q] = u /\ <<"accepted", q>> \in notices'
    BY <1>2, <2>1 DEF Decisions
  <2>3. QED
    BY <2>2 DEF LetIn
<1>3. QED
  BY <1>1, <1>2 DEF LetIn

-----------------------------------------------------------------------------
(* The steps that change the table.                                        *)

LEMMA PatchKeeps ==
    ASSUME AccessInv, NEW s \in Sessions, NEW payload \in SUBSET Users,
           PatchCommit(s, payload)
    PROVE  AccessInv'
<1>. DEFINE seen == sess[s].seen
<1>0. /\ seen \subseteq Users \union {Owner}
      /\ rights \subseteq Users \union {Owner}
      /\ listed \subseteq Users
  BY DEF AccessInv, TypeOK, Session
<1>1. /\ sess' \in [Sessions -> Session] /\ sess'[s] = Idle
      /\ \A t \in Sessions \ {s} : sess'[t] = sess[t]
  BY SessionStep, IdleIsFine DEF PatchCommit
<1>2. UNCHANGED <<draft, status, requester, expired, notices>>
  BY DEF PatchCommit
<1>3. PICK list \in SUBSET (Users \union {Owner}) :
          /\ rights' \in Written(seen, list)
          /\ listed \subseteq listed' /\ listed' \subseteq Users
          /\ list \subseteq seen \union listed' \union {Owner}
  <2>1. CASE rights' \in Written(seen, seen \union {Owner}) /\ UNCHANGED listed
    BY <2>1, <1>0
  <2>2. CASE /\ rights' \in Written(seen, payload \union {Owner})
             /\ listed' = listed \union payload
    BY <2>2, <1>0
  <2>3. QED
    BY <2>1, <2>2 DEF PatchCommit
<1>4. rights' \subseteq rights \union list /\ rights' \subseteq Users \union {Owner}
  BY <1>0, <1>3 DEF Written
<1>5. \A u : LetIn(u) => LetIn(u)'
  BY <1>2, <1>3, LetInForGood
<1>6. EveryoneWasLetIn'
  <2>1. ASSUME NEW u \in rights'
        PROVE  LetIn(u)'
    <3>1. CASE u \in rights \union seen
      BY <3>1, <1>5 DEF AccessInv, EveryoneWasLetIn, LoadedWereLetIn
    <3>2. CASE u \in listed' \union {Owner}
      BY <3>2 DEF LetIn
    <3>3. QED
      BY <3>1, <3>2, <2>1, <1>3, <1>4
  <2>2. QED
    BY <2>1 DEF EveryoneWasLetIn
<1>7. LoadedWereLetIn'
  BY <1>1, <1>5, IdleIsFine DEF AccessInv, LoadedWereLetIn
<1>8. TypeOK' /\ RequestersAreUsers' /\ DecisionsAnnounced'
  BY <1>1, <1>2, <1>3, <1>4 DEF AccessInv, TypeOK, RequestersAreUsers, DecisionsAnnounced
<1>9. HandlersAreProper'
  BY <1>1, <1>2, IdleIsFine DEF AccessInv, HandlersAreProper, Proper, Deciding
<1>10. QED
  BY <1>6, <1>7, <1>8, <1>9 DEF AccessInv

LEMMA CreateKeeps ==
    ASSUME AccessInv, NEW s \in Sessions, NEW q \in Requests, CreateCommit(s, q)
    PROVE  AccessInv'
<1>1. /\ sess' \in [Sessions -> Session] /\ sess'[s] = Idle
      /\ \A t \in Sessions \ {s} : sess'[t] = sess[t]
  BY SessionStep, IdleIsFine DEF CreateCommit
<1>2. /\ UNCHANGED <<draft, rights, listed, expired>>
      /\ status[q] = "none"
      /\ status' = [status EXCEPT ![q] = "pending"]
      /\ requester' = [requester EXCEPT ![q] = sess[s].user]
      /\ notices' = notices \union {<<"access_requested", q>>}
  BY DEF CreateCommit
<1>3. sess[s].user \in Users
  BY DEF AccessInv, HandlersAreProper, Proper, CreateCommit, At
<1>4. \A u : LetIn(u) => LetIn(u)'
  <2>1. \A p \in Requests : status[p] # "none" => requester'[p] = requester[p]
    BY <1>2 DEF AccessInv, TypeOK
  <2>2. QED
    BY <1>2, <2>1, LetInForGood
<1>5. TypeOK'
  BY <1>1, <1>2, <1>3 DEF AccessInv, TypeOK, Statuses
<1>6. RequestersAreUsers'
  BY <1>2, <1>3 DEF AccessInv, TypeOK, RequestersAreUsers
<1>7. DecisionsAnnounced'
  BY <1>2 DEF AccessInv, TypeOK, DecisionsAnnounced, Decisions
<1>8. HandlersAreProper'
  BY <1>1, <1>2, IdleIsFine DEF AccessInv, TypeOK, HandlersAreProper, Proper, Deciding, Session
<1>9. EveryoneWasLetIn' /\ LoadedWereLetIn'
  BY <1>1, <1>2, <1>4, IdleIsFine DEF AccessInv, EveryoneWasLetIn, LoadedWereLetIn
<1>10. QED
  BY <1>5, <1>6, <1>7, <1>8, <1>9 DEF AccessInv

\* A decision: the list it writes differs from the loaded one by the
\* requester, who is let in by an accept.
LEMMA DecideKeeps ==
    ASSUME AccessInv, NEW s \in Sessions, NEW q \in Requests, status[q] # "none",
           NEW decision \in Decisions, NEW list, Decide(s, q, decision, list),
           list \subseteq sess[s].seen \union
               (IF decision = "accepted" THEN {requester[q]} ELSE {})
    PROVE  AccessInv'
<1>1. /\ sess' \in [Sessions -> Session] /\ sess'[s] = Idle
      /\ \A t \in Sessions \ {s} : sess'[t] = sess[t]
  BY SessionStep, IdleIsFine DEF Decide
<1>2. /\ UNCHANGED <<draft, listed, requester>>
      /\ expired' = expired \ {q}
  BY DEF Decide
<1>3. \/ UNCHANGED <<status, rights, notices>> /\ status[q] = "purged"
      \/ /\ status' = [status EXCEPT ![q] = decision]
         /\ rights' = rights \/ rights' = list
         /\ notices' = notices \union {<<decision, q>>}
  BY DEF Decide, Exists
<1>4. notices \subseteq notices'
  BY <1>3
<1>5. \A u : LetIn(u) => LetIn(u)'
  BY <1>2, <1>4, LetInForGood
<1>6. EveryoneWasLetIn'
  <2>1. ASSUME NEW u \in rights'
        PROVE  LetIn(u)'
    <3>1. CASE u \in rights \union sess[s].seen
      BY <3>1, <1>5 DEF AccessInv, EveryoneWasLetIn, LoadedWereLetIn
    <3>2. CASE /\ decision = "accepted" /\ u = requester[q]
               /\ notices' = notices \union {<<decision, q>>}
      BY <3>2, <1>2 DEF LetIn
    <3>3. QED
      BY <3>1, <3>2, <2>1, <1>3
  <2>2. QED
    BY <2>1 DEF EveryoneWasLetIn
<1>7. LoadedWereLetIn'
  BY <1>1, <1>5, IdleIsFine DEF AccessInv, LoadedWereLetIn
<1>8. TypeOK'
  <2>1. requester[q] \in Users /\ sess[s].seen \subseteq Users \union {Owner}
    BY DEF AccessInv, RequestersAreUsers, TypeOK, Session
  <2>2. rights' \subseteq Users \union {Owner}
    BY <1>3, <2>1 DEF AccessInv, TypeOK
  <2>3. /\ status' \in [Requests -> Statuses]
        /\ notices' \subseteq ({"access_requested"} \union Decisions) \X Requests
    BY <1>3 DEF AccessInv, TypeOK, Statuses
  <2>4. expired' \subseteq {p \in Requests : status'[p] = "pending"}
    BY <1>2, <1>3 DEF AccessInv, TypeOK
  <2>5. QED
    BY <1>1, <1>2, <2>2, <2>3, <2>4 DEF AccessInv, TypeOK
<1>9. RequestersAreUsers'
  BY <1>2, <1>3 DEF AccessInv, TypeOK, RequestersAreUsers
<1>10. DecisionsAnnounced'
  BY <1>3 DEF AccessInv, TypeOK, DecisionsAnnounced
<1>11. HandlersAreProper'
  <2>1. \A p \in Requests : status[p] # "none" => status'[p] # "none"
    BY <1>3 DEF AccessInv, TypeOK, Decisions
  <2>2. QED
    BY <1>1, <2>1, IdleIsFine DEF AccessInv, HandlersAreProper, Proper
<1>12. QED
  BY <1>6, <1>7, <1>8, <1>9, <1>10, <1>11 DEF AccessInv

\* The clock and the purge touch pending requests only.
LEMMA ExpiryKeeps ==
    ASSUME AccessInv, (\E q \in Requests : Expire(q)) \/ Purge
    PROVE  AccessInv'
<1>1. UNCHANGED <<draft, rights, listed, requester, notices, sess>>
  BY DEF Expire, Purge
<1>2. \A q \in Requests :
          \/ status'[q] = status[q]
          \/ status[q] = "pending" /\ status'[q] = "purged"
  BY DEF AccessInv, TypeOK, Expire, Purge
<1>3. TypeOK'
  BY <1>1 DEF AccessInv, TypeOK, Expire, Purge, Statuses
<1>4. \A u : LetIn(u)' <=> LetIn(u)
  BY <1>1 DEF LetIn
<1>5. EveryoneWasLetIn' /\ LoadedWereLetIn'
  BY <1>1, <1>4 DEF AccessInv, EveryoneWasLetIn, LoadedWereLetIn
<1>6. RequestersAreUsers' /\ DecisionsAnnounced'
  BY <1>1, <1>2 DEF AccessInv, RequestersAreUsers, DecisionsAnnounced, Decisions
<1>7. HandlersAreProper'
  BY <1>1, <1>2 DEF AccessInv, HandlersAreProper, Proper
<1>8. QED
  BY <1>3, <1>5, <1>6, <1>7 DEF AccessInv

-----------------------------------------------------------------------------
(* Every step of AccessRequests.                                           *)

LEMMA HandlerKeeps ==
    ASSUME AccessInv, NEW s \in Sessions, Handler(s)
    PROVE  AccessInv'
<1>. USE DEF At
<1>0. sess[s] \in Session /\ Proper(sess[s]) /\ rights \subseteq Users \union {Owner}
  BY DEF AccessInv, TypeOK, HandlersAreProper
<1>. DEFINE Reads(r) == /\ r \in Session /\ Proper(r)
                        /\ r.seen \subseteq rights \union sess[s].seen
                        /\ Continue(s, r) /\ UNCHANGED table
<1>1. ASSUME NEW r, Reads(r)
      PROVE  AccessInv'
  BY <1>1, ReadingKeeps
<1>2. ASSUME NEW u \in Users \union {Owner}, CreateReadVersion(s, u)
      PROVE  AccessInv'
  <2>1. Reads([Idle EXCEPT !.pc = "create_version", !.user = u])
    BY <1>2 DEF CreateReadVersion, Idle, Session, Proper, Deciding
  <2>2. QED
    BY <2>1, <1>1
<1>3. CASE CreateCheckDuplicate(s)
  <2>1. Reads(Idle) \/ Reads([sess[s] EXCEPT !.pc = "create_checked"])
    BY <1>3, <1>0, IdleIsFine DEF CreateCheckDuplicate, Session, Proper, Deciding
  <2>2. QED
    BY <2>1, <1>1
<1>4. ASSUME NEW q \in Requests, AcceptRead(s, q) \/ RejectRead(s, q) \/ RevokeRead(s, q)
      PROVE  AccessInv'
  <2>1. \E point \in {"accept", "reject", "revoke"} :
            Reads([Idle EXCEPT !.pc = point, !.req = q])
    BY <1>4 DEF AcceptRead, RejectRead, RevokeRead, Exists, Idle, Session, Proper, Deciding
  <2>2. QED
    BY <2>1, <1>1
<1>5. CASE PatchRead(s)
  <2>1. Reads([Idle EXCEPT !.pc = "patch", !.seen = rights])
    BY <1>5, <1>0 DEF PatchRead, Idle, Session, Proper, Deciding
  <2>2. QED
    BY <2>1, <1>1
<1>6. CASE AcceptReadVersion(s) \/ RevokeReadVersion(s)
  <2>1. \E point \in {"accept_version", "revoke_version"} :
            Reads([sess[s] EXCEPT !.pc = point, !.seen = rights])
    BY <1>6, <1>0 DEF AcceptReadVersion, RevokeReadVersion, Session, Proper, Deciding
  <2>2. QED
    BY <2>1, <1>1
<1>7. CASE Abort(s)
  <2>1. Reads(Idle)
    BY <1>7, IdleIsFine DEF Abort
  <2>2. QED
    BY <2>1, <1>1
<1>8. CASE AcceptCommit(s) \/ RejectCommit(s) \/ RevokeCommit(s)
  <2>1. sess[s].req \in Requests /\ status[sess[s].req] # "none"
    BY <1>8, <1>0 DEF AcceptCommit, RejectCommit, RevokeCommit, Proper, Deciding
  <2>2. QED
    BY <1>8, <2>1, DecideKeeps DEF AcceptCommit, RejectCommit, RevokeCommit, Decisions
<1>9. QED
  BY <1>2, <1>3, <1>4, <1>5, <1>6, <1>7, <1>8, PatchKeeps, CreateKeeps DEF Handler

LEMMA NextAccess == AccessInv /\ [Next]_vars => AccessInv'
<1>. SUFFICES ASSUME AccessInv, [Next]_vars
              PROVE  AccessInv'
  OBVIOUS
<1>1. CASE Publish \/ UNCHANGED vars
  <2>1. /\ UNCHANGED <<rights, listed, status, requester, expired, notices, sess>>
        /\ draft' \in BOOLEAN
    BY <1>1 DEF Publish, vars, table, AccessInv, TypeOK
  <2>2. \A u : LetIn(u)' <=> LetIn(u)
    BY <2>1 DEF LetIn
  <2>3. TypeOK' /\ HandlersAreProper' /\ RequestersAreUsers' /\ DecisionsAnnounced'
    BY <2>1 DEF AccessInv, TypeOK, HandlersAreProper, Proper, RequestersAreUsers,
                DecisionsAnnounced
  <2>4. EveryoneWasLetIn' /\ LoadedWereLetIn'
    BY <2>1, <2>2 DEF AccessInv, EveryoneWasLetIn, LoadedWereLetIn
  <2>5. QED
    BY <2>3, <2>4 DEF AccessInv
<1>2. QED
  BY <1>1, HandlerKeeps, ExpiryKeeps DEF Next

\* No step takes back what let somebody in.
LEMMA HistoryGrows ==
    ASSUME AccessInv, [Next]_vars
    PROVE  /\ listed \subseteq listed'
           /\ notices \subseteq notices'
           /\ \A q \in Requests : status[q] # "none" => requester'[q] = requester[q]
<1>1. ASSUME NEW s \in Sessions, Handler(s)
      PROVE  /\ listed \subseteq listed'
             /\ notices \subseteq notices'
             /\ \A q \in Requests : status[q] # "none" => requester'[q] = requester[q]
  <2>1. ASSUME NEW q \in Requests, CreateCommit(s, q)
        PROVE  \A p \in Requests : status[p] # "none" => requester'[p] = requester[p]
    BY <2>1 DEF CreateCommit, AccessInv, TypeOK
  <2>2. CASE \E q \in Requests : CreateCommit(s, q)
    BY <2>2, <2>1 DEF CreateCommit
  <2>3. CASE AcceptCommit(s) \/ RejectCommit(s) \/ RevokeCommit(s)
    BY <2>3 DEF AcceptCommit, RejectCommit, RevokeCommit, Decide
  <2>4. CASE \E payload \in SUBSET Users : PatchCommit(s, payload)
    BY <2>4 DEF PatchCommit
  <2>5. QED
    BY <1>1, <2>2, <2>3, <2>4
       DEF Handler, CreateReadVersion, CreateCheckDuplicate, AcceptRead, RejectRead,
           RevokeRead, PatchRead, AcceptReadVersion, RevokeReadVersion, Abort, table
<1>2. QED
  BY <1>1 DEF Next, Publish, Expire, Purge, vars, table

-----------------------------------------------------------------------------
(* Downloads and their log.                                                *)

DownloadersWereLetIn == \A d \in Downloads : task[d].pc # "none" => LetIn(task[d].user)

\* The rows of the log are the tasks that ended well, and no task has loaded a
\* counter above the log.
LogInv ==
    /\ \A d \in Downloads :
          /\ d \in log <=> task[d].pc = "logged"
          /\ task[d].pc = "read" => task[d].seen <= Cardinality(log)
    /\ CountIsWithinLog

DownloadsInv ==
    /\ AccessInv
    /\ DownloadsTypeOK
    /\ DownloadersWereLetIn
    /\ LogInv

USE DownloadsAreFinite

LEMMA InitDownloads == DownloadsInit => DownloadsInv
<1>. SUFFICES ASSUME DownloadsInit
              PROVE  DownloadsInv
  OBVIOUS
<1>1. Cardinality(Downloads) \in Nat /\ Cardinality({}) = 0
  BY FS_CardinalityType, FS_EmptySet
<1>2. AccessInv
  BY InitAccess DEF DownloadsInit
<1>3. DownloadsTypeOK
  BY <1>1, <1>2 DEF DownloadsInit, DownloadsTypeOK, AccessInv, Task
<1>4. DownloadersWereLetIn /\ LogInv
  BY <1>1 DEF DownloadsInit, DownloadersWereLetIn, LogInv, CountIsWithinLog
<1>5. QED
  BY <1>2, <1>3, <1>4 DEF DownloadsInv

\* The size of the log is a number, and a new row makes it one larger.
LEMMA LogSize ==
    ASSUME DownloadsInv
    PROVE  /\ Cardinality(log) \in Nat
           /\ Cardinality(Downloads) \in Nat
           /\ Cardinality(log) <= Cardinality(Downloads)
           /\ \A d \in Downloads \ log :
                 /\ Cardinality(log \union {d}) = Cardinality(log) + 1
                 /\ Cardinality(log) + 1 <= Cardinality(Downloads)
<1>1. log \subseteq Downloads
  BY DEF DownloadsInv, DownloadsTypeOK
<1>2. IsFiniteSet(log) /\ Cardinality(log) <= Cardinality(Downloads)
  BY <1>1, FS_Subset
<1>3. Cardinality(log) \in Nat /\ Cardinality(Downloads) \in Nat
  BY <1>2, FS_CardinalityType
<1>4. ASSUME NEW d \in Downloads \ log
      PROVE  /\ Cardinality(log \union {d}) = Cardinality(log) + 1
             /\ Cardinality(log) + 1 <= Cardinality(Downloads)
  <2>1. Cardinality(log \union {d}) = Cardinality(log) + 1
    BY <1>2, FS_AddElement
  <2>2. Cardinality(log \union {d}) <= Cardinality(Downloads)
    BY <1>1, FS_Subset
  <2>3. QED
    BY <2>1, <2>2
<1>5. QED
  BY <1>2, <1>3, <1>4

\* A step of a download leaves access to the version alone.
LEMMA DownloadStepKeepsAccess ==
    ASSUME AccessInv, UNCHANGED vars
    PROVE  /\ AccessInv' /\ TypeOK'
           /\ \A u : LetIn(u)' <=> LetIn(u)
<1>1. AccessInv'
  BY NextAccess
<1>2. QED
  BY <1>1 DEF LetIn, vars, table, AccessInv

LEMMA TaskKeeps ==
    ASSUME DownloadsInv, NEW d \in Downloads,
           \/ \E u \in Users \union {Owner} : Download(d, u)
           \/ LogRead(d) \/ LogFails(d)
    PROVE  DownloadsInv'
<1>1. UNCHANGED <<vars, offered, count, log>>
  BY DEF Download, LogRead, LogFails
<1>2. AccessInv' /\ TypeOK' /\ \A u : LetIn(u)' <=> LetIn(u)
  BY <1>1, DownloadStepKeepsAccess DEF DownloadsInv
<1>3. /\ count \in 0 .. Cardinality(Downloads) /\ task \in [Downloads -> Task]
      /\ count <= Cardinality(log)
  BY DEF DownloadsInv, DownloadsTypeOK, LogInv, CountIsWithinLog
<1>4. task' \in [Downloads -> Task]
  BY <1>3 DEF Download, LogRead, LogFails, Task
<1>5. DownloadsTypeOK'
  BY <1>1, <1>2, <1>4 DEF DownloadsInv, DownloadsTypeOK
<1>6. DownloadersWereLetIn'
  <2>1. ASSUME NEW u \in Users \union {Owner}, Download(d, u)
        PROVE  LetIn(u)
    BY <2>1 DEF Download, CanDownload, DownloadsInv, AccessInv, EveryoneWasLetIn, LetIn
  <2>2. \A e \in Downloads : task'[e].pc # "none" => LetIn(task'[e].user)
    BY <1>3, <2>1 DEF Download, LogRead, LogFails, Task, DownloadsInv, DownloadersWereLetIn
  <2>3. QED
    BY <2>2, <1>2 DEF DownloadersWereLetIn
<1>7. LogInv'
  BY <1>1, <1>3 DEF Download, LogRead, LogFails, Task, DownloadsInv, LogInv, CountIsWithinLog
<1>8. QED
  BY <1>2, <1>5, <1>6, <1>7 DEF DownloadsInv

LEMMA LogCommitKeeps ==
    ASSUME DownloadsInv, NEW d \in Downloads, LogCommit(d)
    PROVE  DownloadsInv'
<1>1. /\ UNCHANGED <<vars, offered>>
      /\ task[d].pc = "read"
      /\ count' = task[d].seen + 1
      /\ log' = log \union {d}
      /\ task' = [task EXCEPT ![d].pc = "logged"]
  BY DEF LogCommit
<1>2. AccessInv' /\ TypeOK' /\ \A u : LetIn(u)' <=> LetIn(u)
  BY <1>1, DownloadStepKeepsAccess DEF DownloadsInv
<1>3. task \in [Downloads -> Task] /\ log \subseteq Downloads /\ offered \in BOOLEAN
  BY DEF DownloadsInv, DownloadsTypeOK
<1>4. d \notin log /\ task[d].seen <= Cardinality(log) /\ task[d].seen \in Nat
  BY <1>1, <1>3, LogSize DEF DownloadsInv, LogInv, Task
<1>5. /\ Cardinality(log') = Cardinality(log) + 1
      /\ Cardinality(log') <= Cardinality(Downloads)
      /\ Cardinality(log) \in Nat /\ Cardinality(Downloads) \in Nat
  BY <1>1, <1>4, LogSize
<1>6. count' \in 0 .. Cardinality(Downloads) /\ count' <= Cardinality(log') /\ count' >= 1
  BY <1>1, <1>4, <1>5
<1>7. task' \in [Downloads -> Task]
  BY <1>1, <1>3 DEF Task
<1>8. DownloadsTypeOK'
  BY <1>1, <1>2, <1>3, <1>6, <1>7 DEF DownloadsTypeOK
<1>9. DownloadersWereLetIn'
  BY <1>1, <1>2, <1>3 DEF DownloadsInv, DownloadersWereLetIn, Task
<1>10. LogInv'
  <2>1. \A e \in Downloads : e \in log' <=> task'[e].pc = "logged"
    BY <1>1, <1>3 DEF DownloadsInv, LogInv, Task
  <2>2. \A e \in Downloads : task'[e].pc = "read" => task'[e].seen <= Cardinality(log')
    <3>1. ASSUME NEW e \in Downloads, task'[e].pc = "read"
          PROVE  task'[e].seen <= Cardinality(log) /\ task'[e].seen \in Nat
      BY <3>1, <1>1, <1>3, <1>5 DEF DownloadsInv, LogInv, Task
    <3>2. QED
      BY <3>1, <1>5
  <2>3. QED
    BY <2>1, <2>2, <1>6 DEF LogInv, CountIsWithinLog
<1>11. QED
  BY <1>2, <1>8, <1>9, <1>10 DEF DownloadsInv

LEMMA NextDownloads == DownloadsInv /\ [DownloadsNext]_allVars => DownloadsInv'
<1>. SUFFICES ASSUME DownloadsInv, [DownloadsNext]_allVars
              PROVE  DownloadsInv'
  OBVIOUS
<1>1. CASE (Next \/ UNCHANGED vars) /\ UNCHANGED <<count, log, task>> /\ offered' \in BOOLEAN
  <2>1. AccessInv' /\ TypeOK'
    BY <1>1, NextAccess DEF DownloadsInv, AccessInv
  <2>2. \A u : LetIn(u) => LetIn(u)'
    BY <1>1, HistoryGrows, LetInForGood DEF DownloadsInv
  <2>3. DownloadsTypeOK' /\ LogInv'
    BY <1>1, <2>1 DEF DownloadsInv, DownloadsTypeOK, LogInv, CountIsWithinLog
  <2>4. DownloadersWereLetIn'
    BY <1>1, <2>2 DEF DownloadsInv, DownloadersWereLetIn
  <2>5. QED
    BY <2>1, <2>3, <2>4 DEF DownloadsInv
<1>2. CASE Next /\ UNCHANGED downloads
  BY <1>2, <1>1 DEF downloads, DownloadsInv, DownloadsTypeOK
<1>3. CASE Withdraw \/ UNCHANGED allVars
  BY <1>3, <1>1 DEF Withdraw, allVars, downloads, DownloadsInv, DownloadsTypeOK
<1>4. QED
  BY <1>2, <1>3, TaskKeeps, LogCommitKeeps DEF DownloadsNext

-----------------------------------------------------------------------------
(* What holds of every run.                                                *)

(***************************************************************************)
(* The inductive invariant of access handlers and downloads together holds *)
(* in every reachable state; the theorems after it are parts of it.        *)
(***************************************************************************)
THEOREM DownloadsAreSafe == DownloadsSpec => []DownloadsInv
<1>1. QED
  BY InitDownloads, NextDownloads, PTL DEF DownloadsSpec

\* The handlers and the log keep their state well formed.
THEOREM DownloadsTyped == DownloadsSpec => []DownloadsTypeOK
<1>1. DownloadsInv => DownloadsTypeOK
  BY DEF DownloadsInv
<1>2. QED
  BY <1>1, DownloadsAreSafe, PTL

\* accept_request, revoke_request and patch_draft write back lists they loaded
\* before others changed them, and yet nobody gets on the list whom the owner
\* neither listed nor accepted.
THEOREM NobodyGetsAccessAlone == DownloadsSpec => []AccessWasGiven
<1>1. DownloadsInv => AccessWasGiven
  BY DEF DownloadsInv, AccessInv, EveryoneWasLetIn, LetIn, AccessWasGiven
<1>2. QED
  BY <1>1, DownloadsAreSafe, PTL

\* A request is decided exactly when its requester has been told, also when
\* purge_expired deletes requests while handlers hold them.
THEOREM DecidedIsAnnounced == DownloadsSpec => []DecisionsAnnounced
<1>1. DownloadsInv => DecisionsAnnounced
  BY DEF DownloadsInv, AccessInv
<1>2. QED
  BY <1>1, DownloadsAreSafe, PTL

\* download_version signs URLs only for those the owner let in.
THEOREM EveryDownloadWasAllowed == DownloadsSpec => []DownloadsWereAllowed
<1>1. DownloadsInv => DownloadsWereAllowed
  BY DEF DownloadsInv, DownloadersWereLetIn, LetIn, DownloadsWereAllowed
<1>2. QED
  BY <1>1, DownloadsAreSafe, PTL

\* download_count never runs ahead of download_log, and shows a download once
\* there has been one, however log_download tasks overlap or fail.
THEOREM CounterStaysWithinLog == DownloadsSpec => []CountIsWithinLog
<1>1. DownloadsInv => CountIsWithinLog
  BY DEF DownloadsInv, LogInv
<1>2. QED
  BY <1>1, DownloadsAreSafe, PTL

-----------------------------------------------------------------------------
(* Handlers that come one after another.  Each decides on what it has read, *)
(* which is still so when it commits: the purge takes pending requests away *)
(* meanwhile, and nothing else changes.                                     *)

StillSo(r) ==
    /\ r.pc \in {"create_version", "create_checked"} => r.user \in Users \ rights
    /\ r.pc = "create_checked" => PendingOf(r.user) = {}
    /\ r.pc \in {"accept", "accept_version", "reject"} =>
          status[r.req] \in {"pending", "purged"}
    /\ r.pc \in {"patch", "accept_version", "revoke_version"} => r.seen = rights

TurnsInv ==
    /\ ~Overlap
    /\ \A s \in Sessions : StillSo(sess[s])
    /\ OnePending
    /\ AccessIsRevocable

HistoryInv == AccessInv /\ (overlapped \/ TurnsInv)

LEMMA InitHistory == HistoryInit => HistoryInv
<1>. SUFFICES ASSUME HistoryInit
              PROVE  HistoryInv
  OBVIOUS
<1>1. Init /\ AccessInv
  BY InitAccess DEF HistoryInit, DownloadsInit
<1>2. \A s \in Sessions : sess[s].pc = "idle"
  BY <1>1 DEF Init, Idle
<1>3. ~Overlap /\ \A s \in Sessions : StillSo(sess[s])
  BY <1>2 DEF Overlap, At, StillSo
<1>4. OnePending /\ AccessIsRevocable
  BY <1>1 DEF Init, OnePending, AccessIsRevocable
<1>5. QED
  BY <1>1, <1>3, <1>4 DEF HistoryInv, TurnsInv

\* A step of s that ends its request, or after which it holds what is so.
LEMMA TurnOf ==
    ASSUME AccessInv, TurnsInv, NEW s \in Sessions, NEW r \in Session, Continue(s, r),
           ~Overlap', ~At(s, "idle") \/ r.pc # "idle",
           StillSo(r)', OnePending', AccessIsRevocable'
    PROVE  TurnsInv'
<1>1. /\ sess' \in [Sessions -> Session] /\ sess'[s] = r
      /\ \A t \in Sessions \ {s} : sess'[t] = sess[t]
  BY SessionStep
<1>2. \A t \in Sessions \ {s} : sess'[t].pc = "idle"
  BY <1>1 DEF TurnsInv, Overlap, At
<1>3. \A t \in Sessions : StillSo(sess[t])'
  BY <1>1, <1>2 DEF StillSo
<1>4. QED
  BY <1>3 DEF TurnsInv

\* A handler that only reads, and then holds what is so.
LEMMA ReadingInTurn ==
    ASSUME AccessInv, TurnsInv, NEW s \in Sessions, NEW r \in Session, Continue(s, r),
           ~Overlap', ~At(s, "idle") \/ r.pc # "idle", UNCHANGED table, StillSo(r)
    PROVE  TurnsInv'
<1>1. UNCHANGED <<status, requester, rights, listed>>
  BY DEF table
<1>2. StillSo(r)'
  BY <1>1 DEF StillSo, PendingOf
<1>3. OnePending' /\ AccessIsRevocable'
  BY <1>1 DEF TurnsInv, OnePending, AccessIsRevocable
<1>4. QED
  BY <1>2, <1>3, TurnOf

LEMMA IdleIsStillSo == Idle.pc = "idle" /\ StillSo(Idle) /\ Idle \in Session
BY DEF Idle, StillSo, Session

\* A patch adds whom the owner lists, and everybody else was on the list.
LEMMA PatchInTurn ==
    ASSUME AccessInv, TurnsInv, NEW s \in Sessions, NEW payload \in SUBSET Users,
           PatchCommit(s, payload), ~Overlap'
    PROVE  TurnsInv'
<1>. DEFINE seen == sess[s].seen
<1>1. /\ Continue(s, Idle) /\ ~At(s, "idle")
      /\ UNCHANGED <<status, requester>>
      /\ seen = rights
  BY DEF PatchCommit, TurnsInv, StillSo, At
<1>2. \/ rights' \in Written(seen, seen \union {Owner}) /\ listed' = listed
      \/ /\ rights' \in Written(seen, payload \union {Owner})
         /\ listed' = listed \union payload
  BY DEF PatchCommit
<1>3. \A list : \A new \in Written(seen, list) : new \subseteq rights \union list
  BY DEF Written
<1>4. /\ listed \subseteq listed'
      /\ rights' \subseteq rights \union listed' \union {Owner}
  BY <1>1, <1>2, <1>3
<1>5. AccessIsRevocable'
  BY <1>1, <1>4 DEF TurnsInv, AccessIsRevocable
<1>6. OnePending'
  BY <1>1 DEF TurnsInv, OnePending
<1>7. StillSo(Idle)'
  BY DEF Idle, StillSo
<1>8. QED
  BY <1>1, <1>5, <1>6, <1>7, IdleIsStillSo, TurnOf

\* The request that is made is the only pending one of its requester.
LEMMA CreateInTurn ==
    ASSUME AccessInv, TurnsInv, NEW s \in Sessions, NEW q \in Requests,
           CreateCommit(s, q), ~Overlap'
    PROVE  TurnsInv'
<1>1. /\ Continue(s, Idle) /\ ~At(s, "idle")
      /\ UNCHANGED <<rights, listed>>
      /\ status[q] = "none"
      /\ status' = [status EXCEPT ![q] = "pending"]
      /\ requester' = [requester EXCEPT ![q] = sess[s].user]
      /\ PendingOf(sess[s].user) = {}
  BY DEF CreateCommit, TurnsInv, StillSo, At
<1>2. /\ status \in [Requests -> Statuses]
      /\ requester \in [Requests -> Users \union {NoUser}]
  BY DEF AccessInv, TypeOK
<1>3. OnePending'
  BY <1>1, <1>2 DEF TurnsInv, OnePending, PendingOf
<1>4. AccessIsRevocable'
  BY <1>1, <1>2 DEF TurnsInv, AccessIsRevocable
<1>5. StillSo(Idle)'
  BY DEF Idle, StillSo
<1>6. QED
  BY <1>1, <1>3, <1>4, <1>5, IdleIsStillSo, TurnOf

\* A decision in turn: the list is read as it is, an accept and a reject meet
\* a pending request, and an accept or a revoke changes the list accordingly.
LEMMA DecideInTurn ==
    ASSUME AccessInv, TurnsInv, NEW s \in Sessions, ~Overlap',
           AcceptCommit(s) \/ RejectCommit(s) \/ RevokeCommit(s)
    PROVE  TurnsInv'
<1>. DEFINE q == sess[s].req
<1>1. /\ Continue(s, Idle) /\ ~At(s, "idle")
      /\ UNCHANGED <<listed, requester>>
  BY DEF AcceptCommit, RejectCommit, RevokeCommit, Decide, At
<1>2. /\ q \in Requests /\ status[q] # "none"
      /\ status \in [Requests -> Statuses]
      /\ requester \in [Requests -> Users \union {NoUser}]
  BY DEF AcceptCommit, RejectCommit, RevokeCommit, At, AccessInv, TypeOK,
         HandlersAreProper, Proper, Deciding
<1>3. StillSo(sess[s])
  BY DEF TurnsInv
<1>4. \/ UNCHANGED <<status, rights>>
      \/ /\ status' = [status EXCEPT ![q] = "accepted"]
         /\ rights' = rights \union {requester[q]}
      \/ /\ status[q] = "pending"
         /\ status' = [status EXCEPT ![q] = "rejected"]
         /\ rights' = rights
      \/ /\ status' = [status EXCEPT ![q] = "revoked"]
         /\ rights' = rights \ {requester[q]}
  <2>1. CASE AcceptCommit(s)
    BY <2>1, <1>3 DEF AcceptCommit, Decide, Exists, StillSo, At
  <2>2. CASE RejectCommit(s)
    BY <2>2, <1>3 DEF RejectCommit, Decide, Exists, StillSo, At
  <2>3. CASE RevokeCommit(s)
    BY <2>3, <1>3 DEF RevokeCommit, Decide, Exists, StillSo, At
  <2>4. QED
    BY <2>1, <2>2, <2>3
<1>5. OnePending'
  BY <1>1, <1>2, <1>4 DEF TurnsInv, OnePending
<1>6. AccessIsRevocable'
  BY <1>1, <1>2, <1>4 DEF TurnsInv, AccessIsRevocable
<1>7. StillSo(Idle)'
  BY DEF Idle, StillSo
<1>8. QED
  BY <1>1, <1>5, <1>6, <1>7, IdleIsStillSo, TurnOf

LEMMA HandlerInTurn ==
    ASSUME AccessInv, TurnsInv, NEW s \in Sessions, Handler(s), ~Overlap'
    PROVE  TurnsInv'
<1>. USE DEF At
<1>0. sess[s] \in Session /\ StillSo(sess[s]) /\ rights \subseteq Users \union {Owner}
  BY DEF AccessInv, TypeOK, TurnsInv
<1>. DEFINE Reads(r) == /\ r \in Session /\ StillSo(r)
                        /\ sess[s].pc # "idle" \/ r.pc # "idle"
                        /\ Continue(s, r) /\ UNCHANGED table
<1>1. ASSUME NEW r, Reads(r)
      PROVE  TurnsInv'
  BY <1>1, ReadingInTurn
<1>2. ASSUME NEW u \in Users \union {Owner}, CreateReadVersion(s, u)
      PROVE  TurnsInv'
  <2>1. Reads([Idle EXCEPT !.pc = "create_version", !.user = u])
    BY <1>2 DEF CreateReadVersion, Idle, Session, StillSo
  <2>2. QED
    BY <2>1, <1>1
<1>3. CASE CreateCheckDuplicate(s)
  <2>1. \/ Reads(Idle)
        \/ Reads([sess[s] EXCEPT !.pc = "create_checked"])
    BY <1>3, <1>0, IdleIsStillSo DEF CreateCheckDuplicate, Session, StillSo
  <2>2. QED
    BY <2>1, <1>1
<1>4. ASSUME NEW q \in Requests, AcceptRead(s, q) \/ RejectRead(s, q) \/ RevokeRead(s, q)
      PROVE  TurnsInv'
  <2>1. \E point \in {"accept", "reject", "revoke"} :
            Reads([Idle EXCEPT !.pc = point, !.req = q])
    BY <1>4 DEF AcceptRead, RejectRead, RevokeRead, Idle, Session, StillSo
  <2>2. QED
    BY <2>1, <1>1
<1>5. CASE PatchRead(s)
  <2>1. Reads([Idle EXCEPT !.pc = "patch", !.seen = rights])
    BY <1>5, <1>0 DEF PatchRead, Idle, Session, StillSo
  <2>2. QED
    BY <2>1, <1>1
<1>6. CASE AcceptReadVersion(s) \/ RevokeReadVersion(s)
  <2>1. \E point \in {"accept_version", "revoke_version"} :
            Reads([sess[s] EXCEPT !.pc = point, !.seen = rights])
    BY <1>6, <1>0 DEF AcceptReadVersion, RevokeReadVersion, Session, StillSo
  <2>2. QED
    BY <2>1, <1>1
<1>7. CASE Abort(s)
  <2>1. Reads(Idle)
    BY <1>7, IdleIsStillSo DEF Abort
  <2>2. QED
    BY <2>1, <1>1
<1>8. QED
  BY <1>2, <1>3, <1>4, <1>5, <1>6, <1>7, PatchInTurn, CreateInTurn, DecideInTurn DEF Handler

\* Neither the clock nor the purge nor the publication waits for its turn.
LEMMA OthersInTurn ==
    ASSUME AccessInv, TurnsInv,
           \/ Publish \/ Purge \/ UNCHANGED vars
           \/ \E q \in Requests : Expire(q)
    PROVE  TurnsInv'
<1>1. UNCHANGED <<rights, listed, requester, sess>>
  BY DEF Publish, Purge, Expire, vars, table
<1>2. \A q \in Requests :
          \/ status'[q] = status[q]
          \/ status[q] = "pending" /\ status'[q] = "purged"
  BY DEF AccessInv, TypeOK, Publish, Purge, Expire, vars, table
<1>3. ~Overlap'
  BY <1>1 DEF TurnsInv, Overlap, At
<1>4. OnePending' /\ AccessIsRevocable'
  BY <1>1, <1>2 DEF TurnsInv, OnePending, AccessIsRevocable
<1>5. ASSUME NEW s \in Sessions
      PROVE  StillSo(sess[s])'
  <2>1. StillSo(sess[s]) /\ Proper(sess[s])
    BY DEF TurnsInv, AccessInv, HandlersAreProper
  <2>2. QED
    BY <1>1, <1>2, <2>1 DEF StillSo, PendingOf, Proper, Deciding
<1>6. QED
  BY <1>3, <1>4, <1>5 DEF TurnsInv

LEMMA NextHistory == HistoryInv /\ [HistoryNext]_historyVars => HistoryInv'
<1>. SUFFICES ASSUME HistoryInv, [HistoryNext]_historyVars
              PROVE  HistoryInv'
  OBVIOUS
<1>1. [Next]_vars
  BY DEF HistoryNext, DownloadsNext, Download, LogRead, LogCommit, LogFails, Withdraw,
         historyVars, allVars
<1>2. AccessInv'
  BY <1>1, NextAccess DEF HistoryInv
<1>3. CASE overlapped'
  BY <1>2, <1>3 DEF HistoryInv
<1>4. CASE ~overlapped'
  <2>1. TurnsInv /\ (Overlap' => UNCHANGED vars)
    BY <1>4 DEF HistoryInv, HistoryNext, historyVars, allVars
  <2>2. CASE UNCHANGED vars
    BY <1>2, <2>1, <2>2, OthersInTurn DEF HistoryInv
  <2>3. CASE Next /\ ~Overlap'
    BY <1>2, <2>1, <2>3, HandlerInTurn, OthersInTurn DEF Next, HistoryInv
  <2>4. QED
    BY <1>1, <1>2, <2>1, <2>2, <2>3 DEF HistoryInv
<1>5. QED
  BY <1>2, <1>3, <1>4 DEF HistoryInv

\* create_request checks for a pending request in one statement and inserts in
\* another: with handlers in turn, the clock and the purge in between, no user
\* gets a second pending request.
THEOREM SecondRequestsAreRefused == HistorySpec => []OnePendingInTurn
<1>1. HistoryInv => OnePendingInTurn
  BY DEF HistoryInv, TurnsInv, OnePendingInTurn
<1>2. QED
  BY <1>1, InitHistory, NextHistory, PTL DEF HistorySpec

\* accept_request and revoke_request keep access_rights and the requests
\* together: with handlers in turn, nobody has access whom the owner has
\* neither listed nor a request to revoke for.
THEOREM AccessCanBeRevoked == HistorySpec => []AccessIsRevocableInTurn
<1>1. HistoryInv => AccessIsRevocableInTurn
  BY DEF HistoryInv, TurnsInv, AccessIsRevocableInTurn
<1>2. QED
  BY <1>1, InitHistory, NextHistory, PTL DEF HistorySpec

-----------------------------------------------------------------------------
(* Handlers in turn follow the policy: each takes effect at its commit.     *)

\* A handler that reads changes nothing the policy knows of.
LEMMA CommitsFollowPolicy ==
    ASSUME AccessInv, TurnsInv, NEW s \in Sessions, Handler(s)
    PROVE  [Policy!Next]_(Policy!vars)
<1>. DEFINE q == sess[s].req
<1>0. /\ rights \subseteq Users \union {Owner}
      /\ status \in [Requests -> Statuses] /\ StillSo(sess[s])
      /\ sess[s] \in Session
  BY DEF AccessInv, TypeOK, TurnsInv
<1>1. ASSUME UNCHANGED table
      PROVE  UNCHANGED Policy!vars
  BY <1>1 DEF table, Policy!vars
<1>2. ASSUME NEW payload \in SUBSET Users, PatchCommit(s, payload)
      PROVE  \E list \in SUBSET (Users \union {Owner}) : Policy!Edit(list)
  <2>1. sess[s].seen = rights /\ UNCHANGED <<status, requester, notices>>
    BY <1>0, <1>2 DEF PatchCommit, StillSo, At
  <2>2. \A list : \A new \in Written(rights, list) : new = list
    BY DEF Written
  <2>3. rights' \in {rights \union {Owner}, payload \union {Owner}}
    BY <1>2, <2>1, <2>2 DEF PatchCommit
  <2>4. Policy!Edit(rights) \/ Policy!Edit(payload)
    BY <2>1, <2>3 DEF Policy!Edit
  <2>5. QED
    BY <1>0, <2>4
<1>3. ASSUME NEW new \in Requests, CreateCommit(s, new)
      PROVE  \E u \in Users : Policy!Ask(u, new)
  BY <1>0, <1>3 DEF CreateCommit, StillSo, At, PendingOf, Policy!Ask, Policy!PendingOf
<1>4. ASSUME AcceptCommit(s) \/ RejectCommit(s) \/ RevokeCommit(s)
      PROVE  /\ q \in Requests
             /\ \/ Policy!Accept(q) \/ Policy!Reject(q) \/ Policy!Revoke(q)
                \/ UNCHANGED Policy!vars
  <2>1. q \in Requests
    BY <1>4 DEF AcceptCommit, RejectCommit, RevokeCommit, At, AccessInv,
       HandlersAreProper, Proper, Deciding
  <2>2. CASE ~Exists(q)
    BY <1>4, <2>1, <2>2 DEF AcceptCommit, RejectCommit, RevokeCommit, Decide, Policy!vars
  <2>3. CASE Exists(q) /\ AcceptCommit(s)
    BY <1>0, <2>1, <2>3 DEF AcceptCommit, Decide, Exists, StillSo, At, Policy!Accept,
       Policy!Decide
  <2>4. CASE Exists(q) /\ RejectCommit(s)
    BY <1>0, <2>1, <2>4 DEF RejectCommit, Decide, Exists, StillSo, At, Policy!Reject,
       Policy!Decide
  <2>5. CASE Exists(q) /\ RevokeCommit(s)
    BY <1>0, <2>1, <2>5 DEF RevokeCommit, Decide, Exists, StillSo, At, Policy!Revoke,
       Policy!Decide
  <2>6. QED
    BY <1>4, <2>1, <2>2, <2>3, <2>4, <2>5
<1>5. \/ UNCHANGED table
      \/ \E payload \in SUBSET Users : PatchCommit(s, payload)
      \/ \E new \in Requests : CreateCommit(s, new)
      \/ AcceptCommit(s) \/ RejectCommit(s) \/ RevokeCommit(s)
  BY DEF Handler, CreateReadVersion, CreateCheckDuplicate, AcceptRead, RejectRead,
     RevokeRead, PatchRead, AcceptReadVersion, RevokeReadVersion, Abort
<1>6. QED
  BY <1>1, <1>2, <1>3, <1>4, <1>5 DEF Policy!Next

\* The promise knows of no draft and no clock; a purge is one step of it.
LEMMA OthersFollowPolicy ==
    ASSUME AccessInv,
           \/ Publish \/ Purge \/ UNCHANGED vars
           \/ \E q \in Requests : Expire(q)
    PROVE  [Policy!Next]_(Policy!vars)
<1>1. CASE Purge
  <2>1. Policy!Purge(expired) /\ expired \in SUBSET Requests
    BY <1>1 DEF Purge, AccessInv, TypeOK, Policy!Purge
  <2>2. QED
    BY <2>1 DEF Policy!Next
<1>2. CASE Publish \/ UNCHANGED vars \/ \E q \in Requests : Expire(q)
  BY <1>2 DEF Publish, Expire, vars, table, Policy!vars
<1>3. QED
  BY <1>1, <1>2

\* create_request, accept_request, reject_request, revoke_request and the
\* owner's edits are atomic as long as no two of them overlap, although each
\* reads, waits and commits while requests expire and are purged.
THEOREM HandlersFollowPolicy == HistorySpec => ImplementsPolicyInTurn
<1>1. HistoryInit => Policy!Init
  BY DEF HistoryInit, DownloadsInit, Init, Policy!Init
<1>2. HistoryInv /\ [HistoryNext]_historyVars
         => [Policy!Next \/ overlapped']_(Policy!vars)
  <2>. SUFFICES ASSUME HistoryInv, [HistoryNext]_historyVars, ~overlapped'
                PROVE  [Policy!Next]_(Policy!vars)
    OBVIOUS
  <2>1. [Next]_vars
    BY DEF HistoryNext, DownloadsNext, Download, LogRead, LogCommit, LogFails, Withdraw,
           historyVars, allVars
  <2>2. ~overlapped
    BY Zenon DEF HistoryNext, historyVars
  <2>3. AccessInv /\ TurnsInv
    BY <2>2 DEF HistoryInv
  <2>4. QED
    BY <2>1, <2>3, CommitsFollowPolicy, OthersFollowPolicy DEF Next
<1>3. QED
  BY <1>1, <1>2, InitHistory, NextHistory, PTL DEF HistorySpec, ImplementsPolicyInTurn

-----------------------------------------------------------------------------
(* The promise of docs/index.html about an accepted request, for a version  *)
(* that is published already: its owner has no draft to edit, and handlers  *)
(* in turn keep it.                                                         *)

NoEdits == ~draft /\ \A s \in Sessions : ~At(s, "patch")

KeptInv == HistoryInv /\ NoEdits /\ (overlapped \/ AcceptedHasAccess)

LEMMA InitKept == ~Drafted /\ HistoryInit => KeptInv
<1>. SUFFICES ASSUME ~Drafted, HistoryInit
              PROVE  KeptInv
  OBVIOUS
<1>1. NoEdits /\ AcceptedHasAccess
  BY DEF HistoryInit, DownloadsInit, Init, Idle, NoEdits, At, AcceptedHasAccess
<1>2. QED
  BY <1>1, InitHistory DEF KeptInv

LEMMA HandlerEditsNothing ==
    ASSUME AccessInv, NoEdits, NEW s \in Sessions, Handler(s)
    PROVE  draft' = draft /\ \E r \in Session : Continue(s, r) /\ r.pc # "patch"
<1>. DEFINE Goes == \E r \in Session : Continue(s, r) /\ r.pc # "patch"
            held == sess[s]
<1>1. /\ held \in Session /\ held.pc # "patch" /\ ~draft
      /\ rights \subseteq Users \union {Owner}
  BY DEF AccessInv, TypeOK, NoEdits, At
<1>2. Continue(s, Idle) => Goes
  BY IdleIsStillSo
<1>3. ASSUME NEW u \in Users \union {Owner}, CreateReadVersion(s, u)
      PROVE  draft' = draft /\ Goes
  <2>1. [Idle EXCEPT !.pc = "create_version", !.user = u] \in Session
    BY <1>3 DEF CreateReadVersion, Idle, Session
  <2>2. [Idle EXCEPT !.pc = "create_version", !.user = u].pc # "patch"
    BY DEF Idle
  <2>3. /\ Continue(s, [Idle EXCEPT !.pc = "create_version", !.user = u])
        /\ draft' = draft
    BY <1>3 DEF CreateReadVersion, table
  <2>4. QED
    BY <2>1, <2>2, <2>3
<1>4. CASE CreateCheckDuplicate(s)
  <2>1. /\ [held EXCEPT !.pc = "create_checked"] \in Session
        /\ [held EXCEPT !.pc = "create_checked"].pc # "patch"
    BY <1>1 DEF Session
  <2>2. QED
    BY <1>2, <1>4, <2>1 DEF CreateCheckDuplicate, table
<1>5. ASSUME NEW q \in Requests, AcceptRead(s, q) \/ RejectRead(s, q) \/ RevokeRead(s, q)
      PROVE  draft' = draft /\ Goes
  <2>1. \A point \in {"accept", "reject", "revoke"} :
            /\ [Idle EXCEPT !.pc = point, !.req = q] \in Session
            /\ [Idle EXCEPT !.pc = point, !.req = q].pc # "patch"
    BY DEF Idle, Session
  <2>2. QED
    BY <1>5, <2>1 DEF AcceptRead, RejectRead, RevokeRead, table
<1>6. CASE AcceptReadVersion(s) \/ RevokeReadVersion(s)
  <2>1. \A point \in {"accept_version", "revoke_version"} :
            /\ [held EXCEPT !.pc = point, !.seen = rights] \in Session
            /\ [held EXCEPT !.pc = point, !.seen = rights].pc # "patch"
    BY <1>1 DEF Session
  <2>2. QED
    BY <1>6, <2>1 DEF AcceptReadVersion, RevokeReadVersion, table
<1>7. CASE Abort(s) \/ AcceptCommit(s) \/ RejectCommit(s) \/ RevokeCommit(s)
  BY <1>2, <1>7 DEF Abort, AcceptCommit, RejectCommit, RevokeCommit, Decide, table
<1>8. ASSUME NEW q \in Requests, CreateCommit(s, q)
      PROVE  draft' = draft /\ Goes
  BY <1>2, <1>8 DEF CreateCommit
<1>9. ~PatchRead(s) /\ \A payload \in SUBSET Users : ~PatchCommit(s, payload)
  BY <1>1 DEF PatchRead, PatchCommit, At
<1>10. QED
  BY <1>3, <1>4, <1>5, <1>6, <1>7, <1>8, <1>9 DEF Handler

LEMMA NoEditsBegin ==
    ASSUME AccessInv, NoEdits, [Next]_vars
    PROVE  NoEdits'
<1>1. ASSUME NEW s \in Sessions, Handler(s)
      PROVE  NoEdits'
  <2>1. draft' = draft /\ \E r \in Session : Continue(s, r) /\ r.pc # "patch"
    BY <1>1, HandlerEditsNothing
  <2>2. PICK r \in Session : Continue(s, r) /\ r.pc # "patch"
    BY <2>1
  <2>3. sess'[s].pc # "patch" /\ \A t \in Sessions \ {s} : sess'[t] = sess[t]
    BY <2>2, SessionStep
  <2>4. QED
    BY <2>1, <2>3 DEF NoEdits, At
<1>2. CASE ~\E s \in Sessions : Handler(s)
  BY <1>2 DEF NoEdits, At, Next, Publish, Purge, Expire, vars, table
<1>3. QED
  BY <1>1, <1>2

\* Only a revoke takes anybody off the list, and its requester is told.
LEMMA DecisionKeepsAccess ==
    ASSUME AccessInv, TurnsInv, AcceptedHasAccess, NEW s \in Sessions,
           AcceptCommit(s) \/ RejectCommit(s) \/ RevokeCommit(s)
    PROVE  AcceptedHasAccess'
<1>. DEFINE q == sess[s].req
<1>1. UNCHANGED requester /\ notices \subseteq notices'
  BY DEF AcceptCommit, RejectCommit, RevokeCommit, Decide
<1>2. q \in Requests /\ status \in [Requests -> Statuses] /\ StillSo(sess[s])
  BY DEF AcceptCommit, RejectCommit, RevokeCommit, At, AccessInv, TypeOK, TurnsInv,
         HandlersAreProper, Proper, Deciding
<1>3. \/ UNCHANGED <<status, rights>>
      \/ /\ status' = [status EXCEPT ![q] = "accepted"]
         /\ rights' = rights \union {requester[q]}
      \/ status' = [status EXCEPT ![q] = "rejected"] /\ rights' = rights
      \/ /\ status' = [status EXCEPT ![q] = "revoked"]
         /\ rights' = rights \ {requester[q]}
         /\ <<"revoked", q>> \in notices'
  <2>1. CASE AcceptCommit(s)
    BY <2>1, <1>2 DEF AcceptCommit, Decide, StillSo, At
  <2>2. CASE RejectCommit(s)
    BY <2>2, <1>2 DEF RejectCommit, Decide, StillSo, At
  <2>3. CASE RevokeCommit(s)
    BY <2>3, <1>2 DEF RevokeCommit, Decide, StillSo, At
  <2>4. QED
    BY <2>1, <2>2, <2>3
<1>4. ASSUME NEW p \in Requests, status'[p] = "accepted"
      PROVE  \/ requester'[p] \in rights'
             \/ \E o \in Requests :
                   requester'[o] = requester'[p] /\ <<"revoked", o>> \in notices'
  <2>1. CASE requester[p] \in rights'
    BY <2>1, <1>1
  <2>2. CASE requester[p] \notin rights'
    <3>1. \/ requester[p] \notin rights
          \/ requester[p] = requester[q] /\ <<"revoked", q>> \in notices'
      BY <1>3, <2>2
    <3>2. requester[p] \notin rights => status[p] = "accepted"
      BY <1>2, <1>3, <1>4, <2>2
    <3>3. QED
      BY <1>1, <1>2, <3>1, <3>2 DEF AcceptedHasAccess
  <2>3. QED
    BY <2>1, <2>2
<1>5. QED
  BY <1>4 DEF AcceptedHasAccess

LEMMA OthersKeepAccess ==
    ASSUME AccessInv, AcceptedHasAccess, NoEdits, [Next]_vars,
           \A s \in Sessions : ~(AcceptCommit(s) \/ RejectCommit(s) \/ RevokeCommit(s))
    PROVE  AcceptedHasAccess'
<1>1. CASE UNCHANGED <<rights, status, requester, notices>>
  BY <1>1 DEF AcceptedHasAccess
<1>2. ASSUME NEW s \in Sessions, NEW q \in Requests, CreateCommit(s, q)
      PROVE  AcceptedHasAccess'
  <2>1. /\ status \in [Requests -> Statuses]
        /\ requester \in [Requests -> Users \union {NoUser}]
        /\ DecisionsAnnounced
    BY DEF AccessInv, TypeOK
  <2>2. /\ UNCHANGED rights /\ notices \subseteq notices' /\ status[q] = "none"
        /\ status' = [status EXCEPT ![q] = "pending"]
        /\ \A p \in Requests \ {q} : requester'[p] = requester[p]
    BY <1>2, <2>1 DEF CreateCommit
  <2>3. <<"revoked", q>> \notin notices
    BY <2>1, <2>2 DEF DecisionsAnnounced, Decisions
  <2>4. QED
    BY <2>1, <2>2, <2>3 DEF AcceptedHasAccess
<1>3. CASE Purge
  <2>1. \A q \in Requests : status'[q] = "accepted" => status[q] = "accepted"
    BY <1>3 DEF Purge, AccessInv, TypeOK
  <2>2. QED
    BY <1>3, <2>1 DEF Purge, AcceptedHasAccess
<1>4. ASSUME NEW s \in Sessions, Handler(s)
      PROVE  AcceptedHasAccess'
  <2>1. \/ UNCHANGED <<rights, status, requester, notices>>
        \/ \E q \in Requests : CreateCommit(s, q)
    BY <1>4 DEF Handler, NoEdits, CreateReadVersion, CreateCheckDuplicate, AcceptRead,
       RejectRead, RevokeRead, PatchRead, PatchCommit, AcceptReadVersion,
       RevokeReadVersion, Abort, table
  <2>2. QED
    BY <1>1, <1>2, <1>4, <2>1
<1>5. CASE Publish \/ UNCHANGED vars \/ \E q \in Requests : Expire(q)
  BY <1>1, <1>5 DEF Publish, Expire, vars, table
<1>6. QED
  BY <1>3, <1>4, <1>5 DEF Next

LEMMA NextKept == KeptInv /\ [HistoryNext]_historyVars => KeptInv'
<1>. SUFFICES ASSUME KeptInv, [HistoryNext]_historyVars
              PROVE  KeptInv'
  OBVIOUS
<1>0. overlapped => overlapped'
  BY Zenon DEF HistoryNext, historyVars
<1>1. [Next]_vars
  BY DEF HistoryNext, DownloadsNext, Download, LogRead, LogCommit, LogFails, Withdraw,
         historyVars, allVars
<1>2. HistoryInv' /\ NoEdits'
  BY <1>1, NextHistory, NoEditsBegin DEF KeptInv, HistoryInv
<1>3. CASE ~overlapped'
  <2>1. AccessInv /\ TurnsInv /\ NoEdits /\ AcceptedHasAccess
    BY <1>0, <1>3 DEF KeptInv, HistoryInv
  <2>2. AcceptedHasAccess'
    BY <1>1, <2>1, DecisionKeepsAccess, OthersKeepAccess
  <2>3. QED
    BY <1>2, <2>2 DEF KeptInv
<1>4. QED
  BY <1>2, <1>3 DEF KeptInv

\* "Accept a request - adds requester's sub to access_rights" (docs/index.html)
\* is what accept_request does on a published version, and it lasts until a
\* revoke, as long as no two access handlers are in flight together.
THEOREM AcceptedKeepAccess ==
    ~Drafted /\ HistorySpec => [](overlapped \/ AcceptedHasAccess)
<1>1. KeptInv => overlapped \/ AcceptedHasAccess
  BY DEF KeptInv
<1>2. QED
  BY <1>1, InitKept, NextKept, PTL DEF HistorySpec
=============================================================================
