---------------------------- MODULE SigningKeys ----------------------------
(***************************************************************************)
(* How a server process checks bearer tokens (app/core/auth.py): the keys  *)
(* of the identity provider are fetched when a request finds none in the   *)
(* module-level cache or finds them out of date, and are kept for an hour. *)
(* The provider adds keys to what it serves and takes keys away, and a     *)
(* fetch takes time, so requests overlap while they wait for an answer.    *)
(*                                                                         *)
(* Time passes in ticks.  Instants are kept as distances from now, so that *)
(* nothing grows without a bound: what is left of the cache's time to      *)
(* live, how long ago a request read the clock, how long ago a key came or *)
(* went.                                                                   *)
(***************************************************************************)
EXTENDS Integers

CONSTANTS
    Keys,          \* signing keys of the identity provider
    Requests,      \* requests with a bearer token, in flight or answered
    TTL,           \* _JWKS_TTL, in ticks
    FetchTimeout,  \* what the longest fetch takes, in ticks
    NoKey

ASSUME TTLAssumption == TTL \in Nat \ {0}
ASSUME TimeoutAssumption == FetchTimeout \in Nat
ASSUME NoKeyIsNoKey == NoKey \notin Keys

VARIABLES
    served,    \* the keys in the provider's JWKS document
    joined,    \* key -> ticks since it joined the document, at most TTL
    gone,      \* key -> ticks since it left the document, -1 before that
    cache,     \* _JWKS_CACHE["keys"]; nobody looks at it while it is None
    left,      \* ticks until _JWKS_CACHE["expires_at"], 0 when it has passed
    req        \* request -> what it holds

provider == <<served, joined, gone>>
vars == <<provider, cache, left, req>>

\* A request that was answered, and one that waits for the document.
Verdicts == {"accepted", "unknown_key", "bad_signature", "unavailable"}
Points == {"new", "asked", "answered"} \union Verdicts

Request ==
    [pc   : Points,
     kid  : Keys \union {NoKey},     \* "kid" of the token's header
     key  : Keys \union {NoKey},     \* the key the token is signed with
     age  : 0 .. FetchTimeout,       \* ticks since now = time.time()
     jwks : SUBSET Keys]             \* the document as it arrived

\* A request that comes to a point at the instant it begins.
Begun(point, kid, key) ==
    [pc |-> point, kid |-> kid, key |-> key, age |-> 0, jwks |-> {}]

New == Begun("new", NoKey, NoKey)

At(c, point) == req[c].pc = point
Waiting(c) == req[c].pc \in {"asked", "answered"}
Continue(c, next) == req' = [req EXCEPT ![c] = next]

\* After that long nothing depends any more on when a key went.
LongAgo == TTL + FetchTimeout

Init ==
    /\ served \in SUBSET Keys \ {{}}
    /\ joined = [k \in Keys |-> TTL]
    /\ gone = [k \in Keys |-> -1]
    /\ cache = {}
    /\ left = 0
    /\ req = [c \in Requests |-> New]

-----------------------------------------------------------------------------
(* The identity provider.                                                  *)

\* A key is added, for good or until it is withdrawn; none comes back.
AddKey(k) ==
    /\ k \notin served /\ gone[k] = -1
    /\ served' = served \union {k}
    /\ joined' = [joined EXCEPT ![k] = 0]
    /\ UNCHANGED <<gone, cache, left, req>>

WithdrawKey(k) ==
    /\ k \in served
    /\ served' = served \ {k}
    /\ gone' = [gone EXCEPT ![k] = 0]
    /\ joined' = [joined EXCEPT ![k] = TTL]
    /\ UNCHANGED <<cache, left, req>>

-----------------------------------------------------------------------------
(* _decode_token.                                                          *)

\* The key _find_key may return for a token: the one with its kid, or, when
\* it has none, the first of the document, whichever that is.
Found(kid, jwks) == IF kid = NoKey THEN jwks ELSE jwks \intersect {kid}

\* What becomes of a token once the keys are there.  A signature by another
\* key does not verify; audience and expiry of the token are left out.
Verdict(kid, key, jwks, verdict) ==
    \/ Found(kid, jwks) = {} /\ verdict = "unknown_key"
    \/ key \in Found(kid, jwks) /\ verdict = "accepted"
    \/ \E k \in Found(kid, jwks) \ {key} : verdict = "bad_signature"

\* Mutant: the end of the time to live is not looked at.
UpToDateOnceFilled == cache # {}

UpToDate == left > 0

\* Mutant: a hit puts the end of the cache's time to live off.
AuthenticateSliding(c, kid, key) ==
    /\ ~Waiting(c)
    /\ UpToDate
    /\ \E verdict \in Verdicts :
          /\ Verdict(kid, key, cache, verdict)
          /\ Continue(c, Begun(verdict, kid, key))
    /\ left' = TTL
    /\ UNCHANGED <<provider, cache>>

\* A request is decided on the cache: there is no await on this path.
Authenticate(c, kid, key) ==
    /\ ~Waiting(c)
    /\ UpToDate
    /\ \E verdict \in Verdicts :
          /\ Verdict(kid, key, cache, verdict)
          /\ Continue(c, Begun(verdict, kid, key))
    /\ UNCHANGED <<provider, cache, left>>

\* The clock is read, and the document is asked for.
Ask(c, kid, key) ==
    /\ ~Waiting(c)
    /\ ~UpToDate
    /\ Continue(c, Begun("asked", kid, key))
    /\ UNCHANGED <<provider, cache, left>>

\* The provider reads its keys; its answer is on the way.
Serve(c) ==
    /\ At(c, "asked")
    /\ Continue(c, [req[c] EXCEPT !.pc = "answered", !.jwks = served])
    /\ UNCHANGED <<provider, cache, left>>

\* Mutant: the time to live counts from when the answer arrived.
ReceiveNow(c) ==
    /\ At(c, "answered")
    /\ cache' = req[c].jwks
    /\ left' = TTL
    /\ \E verdict \in Verdicts :
          /\ Verdict(req[c].kid, req[c].key, req[c].jwks, verdict)
          /\ Continue(c, [req[c] EXCEPT !.pc = verdict, !.jwks = {}])
    /\ UNCHANGED provider

\* The answer is stored over whatever the cache holds by now, a later answer
\* included, with an end that counts from when this request read the clock.
Receive(c) ==
    /\ At(c, "answered")
    /\ cache' = req[c].jwks
    /\ left' = IF req[c].age < TTL THEN TTL - req[c].age ELSE 0
    /\ \E verdict \in Verdicts :
          /\ Verdict(req[c].kid, req[c].key, req[c].jwks, verdict)
          /\ Continue(c, [req[c] EXCEPT !.pc = verdict, !.jwks = {}])
    /\ UNCHANGED provider

\* An error of the connection or an error status, or the timeout: 401.  The
\* cache stays as it is.
FetchFails(c) ==
    /\ Waiting(c)
    /\ Continue(c, [req[c] EXCEPT !.pc = "unavailable", !.jwks = {}])
    /\ UNCHANGED <<provider, cache, left>>

-----------------------------------------------------------------------------
\* The process ends; another one starts with an empty cache.
Restart ==
    /\ cache' = {}
    /\ left' = 0
    /\ req' = [c \in Requests |-> New]
    /\ UNCHANGED provider

\* How the time since a key came or went grows.
Age ==
    /\ joined' = [k \in Keys |-> IF joined[k] < TTL THEN joined[k] + 1 ELSE TTL]
    /\ gone' = [k \in Keys |->
                  IF gone[k] = -1 \/ gone[k] = LongAgo THEN gone[k] ELSE gone[k] + 1]

\* A fetch takes no longer than FetchTimeout.  The client's 10 s bound each
\* wait of a fetch (connecting, sending, every read), not their sum, so
\* FetchTimeout stands for the longest fetch there is, whatever it is.
Tick ==
    /\ \A c \in Requests : Waiting(c) => req[c].age < FetchTimeout
    /\ left' = IF left > 0 THEN left - 1 ELSE 0
    /\ Age
    /\ req' = [c \in Requests |->
                 IF Waiting(c) THEN [req[c] EXCEPT !.age = @ + 1] ELSE req[c]]
    /\ UNCHANGED <<served, cache>>

\* The fetch of c comes to its end, one way or another.
Resolve(c) == Serve(c) \/ Receive(c) \/ FetchFails(c)

Next ==
    \/ \E k \in Keys : AddKey(k) \/ WithdrawKey(k)
    \/ \E c \in Requests :
          \/ \E key \in Keys : \E kid \in {key, NoKey} :
                Authenticate(c, kid, key) \/ Ask(c, kid, key)
          \/ Resolve(c)
    \/ Restart
    \/ Tick

\* Time passes, and a request that waits gets an answer or a timeout.
Spec ==
    /\ Init /\ [][Next]_vars
    /\ WF_vars(Tick)
    /\ \A c \in Requests : WF_vars(Resolve(c))

-----------------------------------------------------------------------------
TypeOK ==
    /\ served \subseteq Keys
    /\ joined \in [Keys -> 0 .. TTL]
    /\ gone \in [Keys -> -1 .. LongAgo]
    /\ cache \subseteq Keys
    /\ left \in 0 .. TTL
    /\ req \in [Requests -> Request]

(***************************************************************************)
(* A key that was withdrawn is refused to every request that begins TTL or *)
(* later after its withdrawal, however many fetches overlapped and however *)
(* late an answer was stored (_fetch_jwks reads the clock before it asks). *)
(***************************************************************************)
WithdrawnIsRefused ==
    [][\A c \in Requests :
          /\ req'[c].pc = "accepted" /\ req'[c] # req[c]
          /\ gone[req'[c].key] # -1
          => gone[req'[c].key] - req'[c].age < TTL]_vars

(***************************************************************************)
(* A key is known to every request that begins TTL or later after the      *)
(* provider added it: although an unknown key does not make the server     *)
(* fetch before the hour is over, no late answer makes it wait for longer. *)
(***************************************************************************)
AddedIsKnown ==
    [][\A c \in Requests :
          /\ req'[c].pc = "unknown_key" /\ req'[c] # req[c]
          /\ req'[c].kid \in served
          => joined[req'[c].kid] - req'[c].age < TTL]_vars

\* A key the provider goes on serving is known in the end: its tokens are no
\* longer refused for an unknown key, although an unknown key does not make
\* the server fetch before the hour is over.
ServedIsKnown ==
    \A k \in Keys :
        <>[](k \in served) =>
            <>[][\A c \in Requests :
                    req'[c] # req[c] /\ req'[c].kid = k => req'[c].pc # "unknown_key"]_vars
=============================================================================
