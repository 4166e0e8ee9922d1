---------------------------- MODULE Provisioning ----------------------------
(***************************************************************************)
(* The start of an API container: docker/entrypoint.sh runs                *)
(* app.tools.provision_storage and starts the server only when it exits 0. *)
(* Several containers start at the same time; a container that is down is  *)
(* started again (restart: unless-stopped).  Nobody deletes the bucket.    *)
(***************************************************************************)
EXTENDS Naturals

CONSTANTS
    Containers,
    CheckOnly,     \* those with PROVISION_STORAGE=false
    Tries          \* how often a loop can sleep before its deadline

ASSUME CheckOnlyAreContainers == CheckOnly \subseteq Containers
ASSUME TriesIsNumber == Tries \in Nat

VARIABLES
    bucket,        \* the bucket exists
    boot,          \* container -> where entrypoint.sh has got to
    tries          \* container -> times slept in _run

provisioning == <<bucket, boot, tries>>

Points == {"down", "check", "create", "recheck", "serving"}

ProvisioningInit ==
    /\ bucket = FALSE
    /\ boot = [c \in Containers |-> "down"]
    /\ tries = [c \in Containers |-> 0]

Go(c, point) == boot' = [boot EXCEPT ![c] = point]

StartContainer(c) ==
    /\ boot[c] = "down"
    /\ Go(c, "check")
    /\ tries' = [tries EXCEPT ![c] = 0]
    /\ UNCHANGED bucket

\* The answers head_bucket can get, as check_bucket classifies them.
HeadBucket == {IF bucket THEN "ok" ELSE "missing", "denied", "unreachable"}

\* Mutant: the deadline is computed again in every round.
ReportForever(c, status) ==
    \/ /\ status = "ok"
       /\ Go(c, "serving")
       /\ UNCHANGED tries
    \/ /\ status = "unreachable"
       /\ Go(c, "check")
       /\ UNCHANGED tries
    \/ /\ status # "ok"
       /\ Go(c, "down")
       /\ UNCHANGED tries

\* Mutant: one round after the deadline.
ReportOnceMore(c, status) ==
    \/ /\ status = "ok"
       /\ Go(c, "serving")
       /\ UNCHANGED tries
    \/ /\ status = "unreachable" /\ tries[c] <= Tries
       /\ Go(c, "check")
       /\ tries' = [tries EXCEPT ![c] = @ + 1]
    \/ /\ status # "ok"
       /\ Go(c, "down")
       /\ UNCHANGED tries

\* Mutant: only a denied access stops the container.
ReportUnlessDenied(c, status) ==
    \/ /\ status # "denied"
       /\ Go(c, "serving")
       /\ UNCHANGED tries
    \/ /\ status = "denied"
       /\ Go(c, "down")
       /\ UNCHANGED tries

\* The status a round of _run ends with: only "unreachable" is worth another
\* round, until the deadline; only "ok" makes the exit code 0.
Report(c, status) ==
    \/ /\ status = "ok"
       /\ Go(c, "serving")
       /\ UNCHANGED tries
    \/ /\ status = "unreachable" /\ tries[c] < Tries
       /\ Go(c, "check")
       /\ tries' = [tries EXCEPT ![c] = @ + 1]
    \/ /\ status # "ok"
       /\ Go(c, "down")
       /\ UNCHANGED tries

\* check_bucket; provision_bucket goes on to create a missing bucket.
CheckBucket(c) ==
    /\ boot[c] = "check"
    /\ \E status \in HeadBucket :
          IF status = "missing" /\ c \notin CheckOnly
          THEN Go(c, "create") /\ UNCHANGED tries
          ELSE Report(c, status)
    /\ UNCHANGED bucket

\* create_bucket succeeds, or another container was faster and the bucket is
\* "already owned"; otherwise it is refused, or the answer is lost.
CreateBucket(c) ==
    /\ boot[c] = "create"
    /\ \/ /\ bucket' = TRUE
          /\ Go(c, "recheck") /\ UNCHANGED tries
       \/ /\ Report(c, "denied")
          /\ UNCHANGED bucket
       \/ /\ bucket' \in {bucket, TRUE}
          /\ Report(c, "unreachable")

RecheckBucket(c) ==
    /\ boot[c] = "recheck"
    /\ \E status \in HeadBucket : Report(c, status)
    /\ UNCHANGED bucket

BootStep(c) == CheckBucket(c) \/ CreateBucket(c) \/ RecheckBucket(c)

\* A crash or a new deployment, at any time.
StopContainer(c) ==
    /\ boot[c] # "down"
    /\ Go(c, "down")
    /\ UNCHANGED <<bucket, tries>>

-----------------------------------------------------------------------------
ProvisioningTypeOK ==
    /\ bucket \in BOOLEAN
    /\ boot \in [Containers -> Points]
    /\ tries \in [Containers -> 0 .. Tries]

\* Whatever the containers that start together overtake each other in, and
\* whichever answers are lost: no server runs without a bucket to write to.
ServingHasBucket == \A c \in Containers : boot[c] = "serving" => bucket

\* Every start ends: the container serves, or stops with an exit code.
BootEnds ==
    \A c \in Containers :
        boot[c] \in {"check", "create", "recheck"} ~> boot[c] \in {"serving", "down"}
=============================================================================
