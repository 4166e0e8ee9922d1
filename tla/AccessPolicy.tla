---------------------------- MODULE AccessPolicy ----------------------------
(***************************************************************************)
(* What the access service promises (app/services/access_service.py): the  *)
(* owner of a private version edits the list of those who may download it, *)
(* and every access handler takes effect at one instant, its checks, its   *)
(* writes and its notification together.  AccessRequests is the detailed   *)
(* model, where the handlers read, wait and commit.                        *)
(***************************************************************************)
CONSTANTS
    Owner, Users, Granted, Requests, NoUser      \* as in AccessRequests

VARIABLES
    rights,        \* access_rights
    status,        \* request -> status column; "none" and "purged": no row
    requester,     \* request -> requester_sub
    notices        \* notifications sent, as <<type, request>>

vars == <<rights, status, requester, notices>>

Init ==
    /\ rights = Granted
    /\ status = [q \in Requests |-> "none"]
    /\ requester = [q \in Requests |-> NoUser]
    /\ notices = {}

PendingOf(u) == {q \in Requests : status[q] = "pending" /\ requester[q] = u}

\* Somebody without access, and without a request that waits, asks for it.
Ask(u, q) ==
    /\ u \notin rights
    /\ PendingOf(u) = {}
    /\ status[q] = "none"
    /\ status' = [status EXCEPT ![q] = "pending"]
    /\ requester' = [requester EXCEPT ![q] = u]
    /\ notices' = notices \union {<<"access_requested", q>>}
    /\ UNCHANGED rights

\* The owner decides on q, and its requester is told.
Decide(q, decision) ==
    /\ status' = [status EXCEPT ![q] = decision]
    /\ notices' = notices \union {<<decision, q>>}
    /\ UNCHANGED requester

Accept(q) ==
    /\ status[q] = "pending"
    /\ Decide(q, "accepted")
    /\ rights' = rights \union {requester[q]}

Reject(q) ==
    /\ status[q] = "pending"
    /\ Decide(q, "rejected")
    /\ UNCHANGED rights

Revoke(q) ==
    /\ status[q] \notin {"none", "purged"}
    /\ Decide(q, "revoked")
    /\ rights' = rights \ {requester[q]}

\* The owner edits the list of the draft, and is on it from then on.
Edit(list) ==
    /\ rights' = list \union {Owner}
    /\ UNCHANGED <<status, requester, notices>>

\* Requests that wait too long are deleted.
Purge(late) ==
    /\ late \subseteq {q \in Requests : status[q] = "pending"}
    /\ status' = [q \in Requests |-> IF q \in late THEN "purged" ELSE status[q]]
    /\ UNCHANGED <<rights, requester, notices>>

Next ==
    \/ \E q \in Requests :
          (\E u \in Users : Ask(u, q)) \/ Accept(q) \/ Reject(q) \/ Revoke(q)
    \/ \E list \in SUBSET (Users \union {Owner}) : Edit(list)
    \/ \E late \in SUBSET Requests : Purge(late)

Spec == Init /\ [][Next]_vars
=============================================================================
