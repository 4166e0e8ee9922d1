---------------------------- MODULE MCDownloads ----------------------------
(* Downloads with a history variable: whether two access handlers were in   *)
(* flight at the same time.  TLC's instance of it is kept small: handlers   *)
(* overlap in behaviours without a download only, and a download comes      *)
(* after the version was published.                                         *)
EXTENDS Downloads, TLC

VARIABLE overlapped

historyVars == <<allVars, overlapped>>

Overlap == \E s, t \in Sessions : s # t /\ ~At(s, "idle") /\ ~At(t, "idle")

HistoryInit == DownloadsInit /\ overlapped = FALSE

HistoryNext ==
    /\ DownloadsNext
    /\ overlapped' = (overlapped \/ Overlap')

HistorySpec == HistoryInit /\ [][HistoryNext]_historyVars

Begun == {d \in Downloads : task[d].pc # "none"}

MCNext ==
    /\ HistoryNext
    /\ Begun' # {} => ~overlapped' /\ ~draft'

MCSpec == HistoryInit /\ [][MCNext]_historyVars

Symmetry ==
    Permutations(Users \ Granted) \union Permutations(Requests)
        \union Permutations(Sessions) \union Permutations(Downloads)

\* Unless two access handlers overlapped, at most one request of a user is
\* pending, as the scalar_one_or_none of create_request and
\* get_access_status asks for.
OnePendingInTurn == overlapped \/ OnePending

\* Unless two access handlers overlapped, whoever has access was listed by
\* the owner or has a request that the owner can find and revoke.
AccessIsRevocableInTurn == overlapped \/ AccessIsRevocable

(***************************************************************************)
(* Unless two access handlers overlapped, what they do is what the access  *)
(* service promises: a handler, its reads, the clock and the purge in      *)
(* between, takes effect at one instant, or not at all.                    *)
(***************************************************************************)
ImplementsPolicyInTurn ==
    Policy!Init /\ [][Policy!Next \/ overlapped']_(Policy!vars)
=============================================================================
