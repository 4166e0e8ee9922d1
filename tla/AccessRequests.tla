-------------------------- MODULE AccessRequests --------------------------
(***************************************************************************)
(* Access requests to one private version (app/services/access_service.py) *)
(* from its draft on: its column access_rights, which the owner edits      *)
(* until the version is published (patch_draft), the requests for it and   *)
(* the notifications about them.  Requests to different versions touch     *)
(* different rows.                                                         *)
(*                                                                         *)
(* Each handler reads in a session of its own and writes at its commit;    *)
(* create_notification flushes, but nothing happens between that flush and *)
(* the commit.  access_rights is read, changed in memory and written back  *)
(* as a whole, unless it is equal to what was loaded.                      *)
(***************************************************************************)
EXTENDS Naturals, FiniteSets

CONSTANTS
    Owner,         \* publisher_sub of the version
    Users,         \* other users
    Granted,       \* access_rights of the version when it was created; a
                   \* new version can be made with a list without its owner
    Drafted,       \* whether the version is a draft at first
    Requests,      \* ids of access requests (autoincrement, never reused)
    Sessions,      \* API requests in flight
    NoUser, NoRequest

ASSUME GrantedAreUsers == Granted \subseteq Users \union {Owner}
ASSUME DraftedIsBoolean == Drafted \in BOOLEAN
ASSUME OwnerIsNoRequester == Owner \notin Users
ASSUME NullsAreNoIds == NoUser \notin Users \union {Owner} /\ NoRequest \notin Requests

VARIABLES
    draft,         \* state = "draft"
    rights,        \* access_rights
    listed,        \* history: other users the owner has put on the list
    status,        \* request -> status column; "none" and "purged": no row
    requester,     \* request -> requester_sub
    expired,       \* pending requests whose expires_at has passed
    notices,       \* notifications sent, as <<type, request>>
    sess           \* session -> what the handler holds

table == <<draft, rights, listed, status, requester, expired, notices>>
vars == <<table, sess>>

Decisions == {"accepted", "rejected", "revoked"}
Statuses == {"none", "pending", "purged"} \union Decisions
Exists(q) == status[q] \notin {"none", "purged"}

Session ==
    [pc   : {"idle", "create_version", "create_checked", "accept", "accept_version",
             "reject", "revoke", "revoke_version", "patch"},
     user : Users \union {NoUser},
     req  : Requests \union {NoRequest},
     seen : SUBSET (Users \union {Owner})]       \* access_rights as loaded

Idle == [pc |-> "idle", user |-> NoUser, req |-> NoRequest, seen |-> {}]

At(s, point) == sess[s].pc = point
Continue(s, next) == sess' = [sess EXCEPT ![s] = next]

Init ==
    /\ draft = Drafted
    /\ rights = Granted
    /\ listed = Granted \ {Owner}
    /\ status = [q \in Requests |-> "none"]
    /\ requester = [q \in Requests |-> NoUser]
    /\ expired = {}
    /\ notices = {}
    /\ sess = [s \in Sessions |-> Idle]

-----------------------------------------------------------------------------
(* The owner edits and publishes the version.                              *)

\* patch_draft loads the draft, its list included.
PatchRead(s) ==
    /\ At(s, "idle")
    /\ draft
    /\ Continue(s, [Idle EXCEPT !.pc = "patch", !.seen = rights])
    /\ UNCHANGED table

\* A list is written unless it is equal to the one that was loaded; sorting
\* may change a list of two or more without changing who is on it.
Written(seen, list) ==
    CASE list # seen -> {list}
      [] list = seen /\ Cardinality(seen) >= 2 -> {rights, list}
      [] OTHER -> {rights}

\* The commit of patch_draft, on a version that stays private: the payload
\* has a new list or none, and the publisher joins it.  The state is not
\* looked at again.
PatchCommit(s, payload) ==
    LET seen == sess[s].seen
    IN  /\ At(s, "patch")
        /\ \/ /\ rights' \in Written(seen, seen \union {Owner})
              /\ UNCHANGED listed
           \/ /\ rights' \in Written(seen, payload \union {Owner})
              /\ listed' = listed \union payload
        /\ Continue(s, Idle)
        /\ UNCHANGED <<draft, status, requester, expired, notices>>

\* publish_resource leaves the list and the requests alone.
Publish ==
    /\ draft
    /\ draft' = FALSE
    /\ UNCHANGED <<rights, listed, status, requester, expired, notices, sess>>

-----------------------------------------------------------------------------
(* create_request.                                                         *)

\* Mutant: the owner may ask for access.
CreateReadVersionByAnyone(s, u) ==
    /\ At(s, "idle")
    /\ u \notin rights
    /\ Continue(s, [Idle EXCEPT !.pc = "create_version", !.user = u])
    /\ UNCHANGED table

\* The version is loaded, a draft too; the caller neither owns it nor has
\* access.
CreateReadVersion(s, u) ==
    /\ At(s, "idle")
    /\ u # Owner
    /\ u \notin rights
    /\ Continue(s, [Idle EXCEPT !.pc = "create_version", !.user = u])
    /\ UNCHANGED table

\* Mutant: a request whose time is over no longer counts.
PendingInTimeOf(u) ==
    {q \in Requests : status[q] = "pending" /\ requester[q] = u /\ q \notin expired}

PendingOf(u) == {q \in Requests : status[q] = "pending" /\ requester[q] = u}

\* One pending request of the caller is a conflict, and more than one makes
\* scalar_one_or_none raise: the handler goes on only when there is none.
CreateCheckDuplicate(s) ==
    /\ At(s, "create_version")
    /\ Continue(s, IF PendingOf(sess[s].user) = {}
                   THEN [sess[s] EXCEPT !.pc = "create_checked"]
                   ELSE Idle)
    /\ UNCHANGED table

CreateCommit(s, q) ==
    /\ At(s, "create_checked")
    /\ status[q] = "none"
    /\ status' = [status EXCEPT ![q] = "pending"]
    /\ requester' = [requester EXCEPT ![q] = sess[s].user]
    /\ notices' = notices \union {<<"access_requested", q>>}
    /\ Continue(s, Idle)
    /\ UNCHANGED <<draft, rights, listed, expired>>

-----------------------------------------------------------------------------
(* accept, reject, revoke, all called by the owner of the version.         *)

\* _get_request and the check of its status; expires_at is not looked at.
AcceptRead(s, q) ==
    /\ At(s, "idle")
    /\ status[q] = "pending"
    /\ Continue(s, [Idle EXCEPT !.pc = "accept", !.req = q])
    /\ UNCHANGED table

AcceptReadVersion(s) ==
    /\ At(s, "accept")
    /\ Continue(s, [sess[s] EXCEPT !.pc = "accept_version", !.seen = rights])
    /\ UNCHANGED table

\* Mutant: access_rights are committed before the request is updated.
DecideInTwoTransactions(s, q, decision, newRights) ==
    /\ Continue(s, Idle)
    /\ rights' = IF newRights = sess[s].seen THEN rights ELSE newRights
    /\ IF Exists(q)
       THEN /\ status' = [status EXCEPT ![q] = decision]
            /\ notices' = notices \union {<<decision, q>>}
       ELSE UNCHANGED <<status, notices>>
    /\ expired' = expired \ {q}
    /\ UNCHANGED <<draft, listed, requester>>

\* Mutant: the notification is committed on its own, before the request.
DecideAfterNotice(s, q, decision, newRights) ==
    /\ Continue(s, Idle)
    /\ notices' = notices \union {<<decision, q>>}
    /\ IF Exists(q)
       THEN /\ status' = [status EXCEPT ![q] = decision]
            /\ rights' = IF newRights = sess[s].seen THEN rights ELSE newRights
       ELSE UNCHANGED <<status, rights>>
    /\ expired' = expired \ {q}
    /\ UNCHANGED <<draft, listed, requester>>

\* The request takes a decision and its requester is told, in the
\* transaction of s; StaleDataError rolls it back when purge_expired has
\* deleted the row.
Decide(s, q, decision, newRights) ==
    /\ Continue(s, Idle)
    /\ IF Exists(q)
       THEN /\ status' = [status EXCEPT ![q] = decision]
            /\ rights' = IF newRights = sess[s].seen THEN rights ELSE newRights
            /\ notices' = notices \union {<<decision, q>>}
       ELSE UNCHANGED <<status, rights, notices>>
    /\ expired' = expired \ {q}
    /\ UNCHANGED <<draft, listed, requester>>

AcceptCommit(s) ==
    LET q == sess[s].req
    IN  /\ At(s, "accept_version")
        /\ Decide(s, q, "accepted", sess[s].seen \union {requester[q]})

\* Mutant: a request of any status can be rejected.
RejectReadAny(s, q) ==
    /\ At(s, "idle")
    /\ Exists(q)
    /\ Continue(s, [Idle EXCEPT !.pc = "reject", !.req = q])
    /\ UNCHANGED table

RejectRead(s, q) ==
    /\ At(s, "idle")
    /\ status[q] = "pending"
    /\ Continue(s, [Idle EXCEPT !.pc = "reject", !.req = q])
    /\ UNCHANGED table

RejectCommit(s) ==
    /\ At(s, "reject")
    /\ Decide(s, sess[s].req, "rejected", sess[s].seen)

\* revoke asks for no particular status.
RevokeRead(s, q) ==
    /\ At(s, "idle")
    /\ Exists(q)
    /\ Continue(s, [Idle EXCEPT !.pc = "revoke", !.req = q])
    /\ UNCHANGED table

RevokeReadVersion(s) ==
    /\ At(s, "revoke")
    /\ Continue(s, [sess[s] EXCEPT !.pc = "revoke_version", !.seen = rights])
    /\ UNCHANGED table

RevokeCommit(s) ==
    LET q == sess[s].req
    IN  /\ At(s, "revoke_version")
        /\ Decide(s, q, "revoked", sess[s].seen \ {requester[q]})

\* The request is cancelled, the process crashes or the commit fails.
Abort(s) ==
    /\ ~At(s, "idle")
    /\ Continue(s, Idle)
    /\ UNCHANGED table

-----------------------------------------------------------------------------
(* Expiry.                                                                 *)

\* expires_at passes; it matters to a pending request only, and to
\* purge_expired only.
Expire(q) ==
    /\ status[q] = "pending"
    /\ q \notin expired
    /\ expired' = expired \union {q}
    /\ UNCHANGED <<draft, rights, listed, status, requester, notices, sess>>

\* purge_expired, which _purge_loop calls every six hours: one DELETE.
Purge ==
    /\ expired # {}
    /\ status' = [q \in Requests |-> IF q \in expired THEN "purged" ELSE status[q]]
    /\ expired' = {}
    /\ UNCHANGED <<draft, rights, listed, requester, notices, sess>>

-----------------------------------------------------------------------------
Handler(s) ==
    \/ \E u \in Users \union {Owner} : CreateReadVersion(s, u)
    \/ CreateCheckDuplicate(s)
    \/ \E q \in Requests :
          CreateCommit(s, q) \/ AcceptRead(s, q) \/ RejectRead(s, q) \/ RevokeRead(s, q)
    \/ PatchRead(s)
    \/ \E payload \in SUBSET Users : PatchCommit(s, payload)
    \/ AcceptReadVersion(s) \/ AcceptCommit(s)
    \/ RejectCommit(s)
    \/ RevokeReadVersion(s) \/ RevokeCommit(s)
    \/ Abort(s)

Next ==
    \/ \E s \in Sessions : Handler(s)
    \/ Publish
    \/ \E q \in Requests : Expire(q)
    \/ Purge

Spec == Init /\ [][Next]_vars

-----------------------------------------------------------------------------
TypeOK ==
    /\ draft \in BOOLEAN
    /\ rights \subseteq Users \union {Owner}
    /\ listed \subseteq Users
    /\ status \in [Requests -> Statuses]
    /\ requester \in [Requests -> Users \union {NoUser}]
    /\ expired \subseteq {q \in Requests : status[q] = "pending"}
    /\ notices \subseteq ({"access_requested"} \union Decisions) \X Requests
    /\ sess \in [Sessions -> Session]

(***************************************************************************)
(* Nobody gets access that the owner did not give: whoever is in           *)
(* access_rights was put on the list by the owner or had a request         *)
(* accepted, even when handlers and patches of the draft write back lists  *)
(* they loaded before others changed them.                                 *)
(***************************************************************************)
AccessWasGiven ==
    \A u \in rights \ (listed \union {Owner}) :
        \E q \in Requests : requester[q] = u /\ <<"accepted", q>> \in notices

\* A decision and the notification about it are committed together, and a
\* purge does not delete a request that was decided meanwhile.
DecisionsAnnounced ==
    \A q \in Requests :
        status[q] \in Decisions <=> \E d \in Decisions : <<d, q>> \in notices

-----------------------------------------------------------------------------
(* With one handler at a time.                                             *)

\* A user has at most one pending request, which get_access_status and
\* create_request rely on when they call scalar_one_or_none.
OnePending ==
    \A p, q \in Requests :
        status[p] = "pending" /\ status[q] = "pending" /\ requester[p] = requester[q]
            => p = q

\* Whoever has access without having been listed by the owner has a request
\* that stands as accepted, so the owner can find it and revoke it.
AccessIsRevocable ==
    \A u \in rights \ (listed \union {Owner}) :
        \E q \in Requests : requester[q] = u /\ status[q] = "accepted"

\* What one handler at a time implements: each takes effect at its commit.
\* The promise knows of no draft, of no clock and of no history.
Policy == INSTANCE AccessPolicy

-----------------------------------------------------------------------------
(* What the documentation says, and the handlers do not keep               *)
(* (docs/index.html).                                                      *)

\* "Accept a request - adds requester's sub to access_rights", where it stays
\* unless a request of that user is revoked; of a version that is published.
AcceptedHasAccess ==
    \A q \in Requests :
        status[q] = "accepted" =>
            \/ requester[q] \in rights
            \/ \E p \in Requests :
                  requester[p] = requester[q] /\ <<"revoked", p>> \in notices
=============================================================================
