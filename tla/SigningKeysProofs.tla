------------------------- MODULE SigningKeysProofs -------------------------
(***************************************************************************)
(* Proofs about SigningKeys, for any keys, any number of requests, any     *)
(* time to live and any timeout.                                           *)
(***************************************************************************)
EXTENDS SigningKeys, TLAPS

(***************************************************************************)
(* What the cache holds was served when its time to live began, and what a *)
(* request holds was served after the request read the clock.  A key that  *)
(* left the document since then is not gone for longer.                    *)
(***************************************************************************)
CacheIsRecent ==
    left > 0 => \A k \in cache : gone[k] # -1 => gone[k] <= TTL - left

AnswersAreRecent ==
    \A c \in Requests : \A k \in req[c].jwks : gone[k] # -1 => gone[k] <= req[c].age

ServedIsNotGone == \A k \in served : gone[k] = -1

\* Only a request whose answer is on the way holds a document.
AnswersAreHeld == \A c \in Requests : req[c].pc # "answered" => req[c].jwks = {}

RecentInv ==
    TypeOK /\ ServedIsNotGone /\ CacheIsRecent /\ AnswersAreRecent /\ AnswersAreHeld

USE TTLAssumption, TimeoutAssumption, NoKeyIsNoKey

\* A step of one request writes its own record.
LEMMA RequestType ==
    ASSUME TypeOK, NEW c \in Requests, NEW r \in Request, Continue(c, r)
    PROVE  /\ req' \in [Requests -> Request]
           /\ req'[c] = r
           /\ \A d \in Requests \ {c} : req'[d] = req[d]
BY DEF TypeOK, Continue

LEMMA NewIsRequest ==
    ASSUME NEW pc \in Points, NEW kid \in Keys \union {NoKey}, NEW key \in Keys
    PROVE  Begun(pc, kid, key) \in Request
BY DEF Begun, Request

LEMMA InitRecent == Init => RecentInv
BY DEF Init, RecentInv, TypeOK, ServedIsNotGone, CacheIsRecent, AnswersAreRecent,
       AnswersAreHeld, New, Begun, Request, Points, LongAgo

LEMMA NextRecent == RecentInv /\ [Next]_vars => RecentInv'
<1> SUFFICES ASSUME RecentInv, [Next]_vars PROVE RecentInv'
  OBVIOUS
<1> USE DEF RecentInv
<1>1. ASSUME NEW k \in Keys, AddKey(k) PROVE RecentInv'
  BY <1>1 DEF AddKey, TypeOK, ServedIsNotGone, CacheIsRecent, AnswersAreRecent,
                  AnswersAreHeld, Request
<1>2. ASSUME NEW k \in Keys, WithdrawKey(k) PROVE RecentInv'
  <2>1. TypeOK'
    BY <1>2 DEF WithdrawKey, TypeOK, LongAgo
  <2>2. ServedIsNotGone' /\ CacheIsRecent'
    BY <1>2 DEF WithdrawKey, TypeOK, ServedIsNotGone, CacheIsRecent
  <2>3. AnswersAreRecent'
    BY <1>2 DEF WithdrawKey, TypeOK, AnswersAreRecent, Request
  <2>4. AnswersAreHeld'
    BY <1>2 DEF WithdrawKey, AnswersAreHeld
  <2> QED BY <2>1, <2>2, <2>3, <2>4
<1>3. ASSUME NEW c \in Requests, NEW key \in Keys, NEW kid \in {key, NoKey},
             Authenticate(c, kid, key)
      PROVE  RecentInv'
  <2> PICK verdict \in Verdicts :
          Continue(c, Begun(verdict, kid, key))
    BY <1>3 DEF Authenticate
  <2>0. verdict # "answered"
    BY DEF Verdicts
  <2> DEFINE r == Begun(verdict, kid, key)
  <2>1. r \in Request /\ r.jwks = {}
    BY NewIsRequest DEF Points, Begun
  <2> HIDE DEF r
  <2>2. /\ req' \in [Requests -> Request] /\ req'[c] = r
        /\ \A d \in Requests \ {c} : req'[d] = req[d]
    BY <2>1, RequestType DEF r
  <2>3. UNCHANGED <<served, joined, gone, cache, left>>
    BY <1>3 DEF Authenticate, provider
  <2>4. AnswersAreRecent' /\ AnswersAreHeld'
    BY <2>1, <2>2, <2>3 DEF AnswersAreRecent, AnswersAreHeld
  <2> QED BY <2>2, <2>3, <2>4 DEF TypeOK, ServedIsNotGone, CacheIsRecent
<1>4. ASSUME NEW c \in Requests, NEW key \in Keys, NEW kid \in {key, NoKey},
             Ask(c, kid, key)
      PROVE  RecentInv'
  <2> DEFINE r == Begun("asked", kid, key)
  <2>1. r \in Request /\ r.jwks = {}
    BY NewIsRequest DEF Points, Begun
  <2> HIDE DEF r
  <2>2. /\ req' \in [Requests -> Request] /\ req'[c] = r
        /\ \A d \in Requests \ {c} : req'[d] = req[d]
    BY <1>4, <2>1, RequestType DEF r, Ask
  <2>3. UNCHANGED <<served, joined, gone, cache, left>>
    BY <1>4 DEF Ask, provider
  <2>4. AnswersAreRecent' /\ AnswersAreHeld'
    BY <2>1, <2>2, <2>3 DEF AnswersAreRecent, AnswersAreHeld
  <2> QED BY <2>2, <2>3, <2>4 DEF TypeOK, ServedIsNotGone, CacheIsRecent
<1>5. ASSUME NEW c \in Requests, Serve(c) PROVE RecentInv'
  <2> DEFINE r == [req[c] EXCEPT !.pc = "answered", !.jwks = served]
  <2>1. r \in Request /\ r.jwks = served /\ r.pc = "answered"
    BY DEF TypeOK, Request, Points
  <2> HIDE DEF r
  <2>2. /\ req' \in [Requests -> Request] /\ req'[c] = r
        /\ \A d \in Requests \ {c} : req'[d] = req[d]
    BY <1>5, <2>1, RequestType DEF r, Serve
  <2>3. UNCHANGED <<served, joined, gone, cache, left>>
    BY <1>5 DEF Serve, provider
  <2>4. AnswersAreRecent' /\ AnswersAreHeld'
    BY <2>1, <2>2, <2>3 DEF AnswersAreRecent, AnswersAreHeld, ServedIsNotGone
  <2> QED BY <2>2, <2>3, <2>4 DEF TypeOK, ServedIsNotGone, CacheIsRecent
<1>6. ASSUME NEW c \in Requests, Receive(c) PROVE RecentInv'
  <2> PICK verdict \in Verdicts :
          Continue(c, [req[c] EXCEPT !.pc = verdict, !.jwks = {}])
    BY <1>6 DEF Receive
  <2> DEFINE r == [req[c] EXCEPT !.pc = verdict, !.jwks = {}]
  <2>1. r \in Request /\ r.jwks = {}
    BY DEF TypeOK, Request, Points
  <2> HIDE DEF r
  <2>2. /\ req' \in [Requests -> Request] /\ req'[c] = r
        /\ \A d \in Requests \ {c} : req'[d] = req[d]
    BY <2>1, RequestType DEF r
  <2>3. /\ UNCHANGED <<served, joined, gone>>
        /\ cache' = req[c].jwks
        /\ left' = IF req[c].age < TTL THEN TTL - req[c].age ELSE 0
    BY <1>6 DEF Receive, provider
  <2>4. req[c].age \in Nat /\ req[c].jwks \subseteq Keys
    BY DEF TypeOK, Request
  <2>5. TypeOK'
    BY <2>2, <2>3, <2>4 DEF TypeOK
  <2>6. CacheIsRecent'
    BY <2>3, <2>4 DEF CacheIsRecent, AnswersAreRecent, TypeOK
  <2>7. AnswersAreRecent' /\ AnswersAreHeld'
    BY <2>1, <2>2, <2>3 DEF AnswersAreRecent, AnswersAreHeld
  <2> QED BY <2>3, <2>5, <2>6, <2>7 DEF ServedIsNotGone
<1>7. ASSUME NEW c \in Requests, FetchFails(c) PROVE RecentInv'
  <2> DEFINE r == [req[c] EXCEPT !.pc = "unavailable", !.jwks = {}]
  <2>1. r \in Request /\ r.jwks = {}
    BY DEF TypeOK, Request, Points, Verdicts
  <2> HIDE DEF r
  <2>2. /\ req' \in [Requests -> Request] /\ req'[c] = r
        /\ \A d \in Requests \ {c} : req'[d] = req[d]
    BY <1>7, <2>1, RequestType DEF r, FetchFails
  <2>3. UNCHANGED <<served, joined, gone, cache, left>>
    BY <1>7 DEF FetchFails, provider
  <2>4. AnswersAreRecent' /\ AnswersAreHeld'
    BY <2>1, <2>2, <2>3 DEF AnswersAreRecent, AnswersAreHeld
  <2> QED BY <2>2, <2>3, <2>4 DEF TypeOK, ServedIsNotGone, CacheIsRecent
<1>8. CASE Restart
  BY <1>8 DEF Restart, provider, TypeOK, ServedIsNotGone, CacheIsRecent,
              AnswersAreRecent, AnswersAreHeld, New, Begun, Request, Points
<1>9. CASE Tick
  <2>1. /\ left' \in 0 .. TTL
        /\ left' > 0 => left' = left - 1
        /\ UNCHANGED <<served, cache>>
        /\ joined' \in [Keys -> 0 .. TTL]
    BY <1>9 DEF Tick, Age, TypeOK
  <2>2. /\ gone' \in [Keys -> -1 .. LongAgo]
        /\ \A k \in Keys : (gone'[k] = -1 <=> gone[k] = -1) /\ gone'[k] <= gone[k] + 1
    BY <1>9 DEF Tick, Age, TypeOK, LongAgo
  <2>3. ASSUME NEW c \in Requests
        PROVE  /\ req'[c] \in Request
               /\ req'[c].jwks = req[c].jwks
               /\ Waiting(c) => req'[c].age = req[c].age + 1
               /\ ~Waiting(c) => req'[c] = req[c]
    BY <1>9 DEF Tick, TypeOK, Request
  <2>4. req' \in [Requests -> Request]
    BY <1>9, <2>3 DEF Tick
  <2>5. TypeOK' /\ ServedIsNotGone'
    BY <2>1, <2>2, <2>4 DEF TypeOK, ServedIsNotGone
  <2>6. CacheIsRecent'
    BY <2>1, <2>2 DEF CacheIsRecent, TypeOK
  <2>7. AnswersAreRecent'
    <3> SUFFICES ASSUME NEW c \in Requests, NEW k \in req'[c].jwks, gone'[k] # -1
                 PROVE  gone'[k] <= req'[c].age
      BY DEF AnswersAreRecent
    <3>1. k \in req[c].jwks /\ k \in Keys
      BY <2>3 DEF TypeOK, Request
    <3>2. Waiting(c)
      BY <3>1 DEF AnswersAreHeld, Waiting
    <3>3. gone[k] <= req[c].age
      BY <3>1, <2>2 DEF AnswersAreRecent
    <3> QED BY <2>2, <2>3, <3>1, <3>2, <3>3 DEF TypeOK, Request
  <2>8. AnswersAreHeld'
    BY <2>3, <2>4, <1>9 DEF AnswersAreHeld, Tick, TypeOK, Request
  <2> QED BY <2>5, <2>6, <2>7, <2>8
<1>10. CASE UNCHANGED vars
  BY <1>10 DEF vars, provider, TypeOK, ServedIsNotGone, CacheIsRecent, AnswersAreRecent,
               AnswersAreHeld
<1> QED
  BY <1>1, <1>2, <1>3, <1>4, <1>5, <1>6, <1>7, <1>8, <1>9, <1>10 DEF Next, Resolve

(***************************************************************************)
(* Every variable keeps its type; above all no request waits for longer    *)
(* than the timeout of the HTTP client.                                    *)
(***************************************************************************)
THEOREM TypeCorrect == Spec => []TypeOK
<1>1. RecentInv => TypeOK
  BY DEF RecentInv
<1> QED BY InitRecent, NextRecent, <1>1, PTL DEF Spec

LEMMA Refused ==
    ASSUME RecentInv, Next, NEW c \in Requests,
           req'[c].pc = "accepted", req'[c] # req[c], gone[req'[c].key] # -1
    PROVE  gone[req'[c].key] - req'[c].age < TTL
<1> USE DEF RecentInv
<1>1. ASSUME NEW d \in Requests, NEW key \in Keys, NEW kid \in {key, NoKey},
             Authenticate(d, kid, key)
      PROVE  gone[req'[c].key] - req'[c].age < TTL
  <2> PICK verdict \in Verdicts :
          /\ Verdict(kid, key, cache, verdict)
          /\ Continue(d, Begun(verdict, kid, key))
    BY <1>1 DEF Authenticate
  <2> DEFINE r == Begun(verdict, kid, key)
  <2>1. r \in Request /\ r.pc = verdict /\ r.key = key /\ r.age = 0
    BY NewIsRequest DEF Points, Begun
  <2> HIDE DEF r
  <2>2. d = c /\ req'[c] = r
    BY <2>1, RequestType DEF r
  <2>3. key \in cache
    BY <2>1, <2>2 DEF Verdict, Found
  <2>4. left > 0 /\ left \in 0 .. TTL /\ gone[key] \in Int
    BY <1>1 DEF Authenticate, UpToDate, TypeOK
  <2> QED BY <2>1, <2>2, <2>3, <2>4 DEF CacheIsRecent
<1>2. ASSUME NEW d \in Requests, Receive(d)
      PROVE  gone[req'[c].key] - req'[c].age < TTL
  <2> PICK verdict \in Verdicts :
          /\ Verdict(req[d].kid, req[d].key, req[d].jwks, verdict)
          /\ Continue(d, [req[d] EXCEPT !.pc = verdict, !.jwks = {}])
    BY <1>2 DEF Receive
  <2> DEFINE r == [req[d] EXCEPT !.pc = verdict, !.jwks = {}]
  <2>1. r \in Request /\ r.pc = verdict /\ r.key = req[d].key /\ r.age = req[d].age
    BY DEF TypeOK, Request, Points
  <2> HIDE DEF r
  <2>2. d = c /\ req'[c] = r
    BY <2>1, RequestType DEF r
  <2>3. req[c].key \in req[c].jwks
    BY <2>1, <2>2 DEF Verdict, Found
  <2>4. req[c].age \in Nat /\ gone[req[c].key] \in Int
    BY <2>3 DEF TypeOK, Request
  <2> QED BY <2>1, <2>2, <2>3, <2>4 DEF AnswersAreRecent
<1>3. ASSUME NEW d \in Requests, NEW key \in Keys, NEW kid \in {key, NoKey},
             Ask(d, kid, key)
      PROVE  FALSE
  <2> DEFINE r == Begun("asked", kid, key)
  <2>1. r \in Request /\ r.pc = "asked"
    BY NewIsRequest DEF Points, Begun
  <2> HIDE DEF r
  <2> QED BY <1>3, <2>1, RequestType DEF r, Ask
<1>4. ASSUME NEW d \in Requests, Serve(d) \/ FetchFails(d) PROVE FALSE
  <2>1. PICK r \in Request : r.pc # "accepted" /\ Continue(d, r)
    BY <1>4 DEF Serve, FetchFails, TypeOK, Request, Points, Verdicts
  <2> QED BY <2>1, RequestType
<1>5. CASE Restart
  BY <1>5 DEF Restart, New, Begun
<1>6. CASE Tick
  BY <1>6 DEF Tick, TypeOK, Request, Waiting
<1>7. ASSUME NEW k \in Keys, AddKey(k) \/ WithdrawKey(k) PROVE FALSE
  BY <1>7 DEF AddKey, WithdrawKey
<1> QED BY <1>1, <1>2, <1>3, <1>4, <1>5, <1>6, <1>7 DEF Next, Resolve

(***************************************************************************)
(* No request that begins TTL or later after a key was withdrawn is        *)
(* accepted with a token of that key (_fetch_jwks): the document a request *)
(* waits for was served after it read the clock, and what the cache holds  *)
(* after the clock was read that its end counts from.                      *)
(***************************************************************************)
THEOREM WithdrawnAreRefused == Spec => WithdrawnIsRefused
<1> DEFINE Refusing ==
        \A c \in Requests :
          /\ req'[c].pc = "accepted" /\ req'[c] # req[c]
          /\ gone[req'[c].key] # -1
          => gone[req'[c].key] - req'[c].age < TTL
<1>1. RecentInv /\ [Next]_vars => [Refusing]_vars
  BY Refused
<1>2. Spec => []RecentInv
  BY InitRecent, NextRecent, PTL DEF Spec
<1>3. Spec => [][Next]_vars
  BY PTL DEF Spec
<1> HIDE DEF Refusing
<1>4. Spec => [][Refusing]_vars
  BY <1>1, <1>2, <1>3, PTL
<1> QED BY <1>4 DEF Refusing, WithdrawnIsRefused

-----------------------------------------------------------------------------
(***************************************************************************)
(* What the cache lacks joined the document after its time to live began,  *)
(* and what an answer lacks joined it after the request read the clock.    *)
(***************************************************************************)
CacheLacksNewOnly ==
    left > 0 => \A k \in served \ cache : joined[k] <= TTL - left

AnswersLackNewOnly ==
    \A c \in Requests : At(c, "answered") =>
        \A k \in served \ req[c].jwks : joined[k] <= req[c].age

CompleteInv == RecentInv /\ CacheLacksNewOnly /\ AnswersLackNewOnly

LEMMA InitComplete == Init => CompleteInv
BY InitRecent DEF Init, CompleteInv, CacheLacksNewOnly, AnswersLackNewOnly, At, New, Begun

\* A request that comes to a point where it holds no document.
LEMMA NoAnswerNeeded ==
    ASSUME CompleteInv, NEW c \in Requests, NEW r \in Request, Continue(c, r),
           r.pc # "answered", UNCHANGED <<served, joined>>
    PROVE  AnswersLackNewOnly'
BY RequestType DEF CompleteInv, RecentInv, AnswersLackNewOnly, At

LEMMA NextComplete == CompleteInv /\ [Next]_vars => CompleteInv'
<1> SUFFICES ASSUME CompleteInv, [Next]_vars
             PROVE  CacheLacksNewOnly' /\ AnswersLackNewOnly'
  BY NextRecent DEF CompleteInv
<1>0. TypeOK /\ CacheLacksNewOnly /\ AnswersLackNewOnly
  BY DEF CompleteInv, RecentInv
<1>1. ASSUME NEW k \in Keys, AddKey(k) \/ WithdrawKey(k)
      PROVE  CacheLacksNewOnly' /\ AnswersLackNewOnly'
  <2>1. /\ UNCHANGED <<cache, left, req>>
        /\ \A j \in served' : (j \in served /\ joined'[j] = joined[j]) \/ joined'[j] = 0
    BY <1>0, <1>1 DEF AddKey, WithdrawKey, TypeOK
  <2>2. left \in 0 .. TTL /\ \A c \in Requests : req[c].age \in Nat
    BY <1>0 DEF TypeOK, Request
  <2>3. CacheLacksNewOnly'
    BY <1>0, <2>1, <2>2 DEF CacheLacksNewOnly
  <2>4. AnswersLackNewOnly'
    BY <1>0, <2>1, <2>2 DEF AnswersLackNewOnly, At
  <2> QED BY <2>3, <2>4
<1>2. ASSUME NEW c \in Requests, NEW key \in Keys, NEW kid \in {key, NoKey},
             Authenticate(c, kid, key) \/ Ask(c, kid, key)
      PROVE  CacheLacksNewOnly' /\ AnswersLackNewOnly'
  <2> PICK point \in Verdicts \union {"asked"} : Continue(c, Begun(point, kid, key))
    BY <1>2 DEF Authenticate, Ask
  <2> DEFINE r == Begun(point, kid, key)
  <2>1. r \in Request /\ r.pc # "answered"
    BY NewIsRequest DEF Points, Verdicts, Begun
  <2> HIDE DEF r
  <2>2. UNCHANGED <<served, joined, cache, left>>
    BY <1>2 DEF Authenticate, Ask, provider
  <2>3. Continue(c, r)
    BY DEF r
  <2> QED BY <1>0, <2>1, <2>2, <2>3, NoAnswerNeeded DEF CacheLacksNewOnly
<1>3. ASSUME NEW c \in Requests, Serve(c)
      PROVE  CacheLacksNewOnly' /\ AnswersLackNewOnly'
  <2>1. /\ UNCHANGED <<served, joined, cache, left>>
        /\ req'[c].jwks = served
        /\ \A d \in Requests \ {c} : req'[d] = req[d]
    BY <1>0, <1>3 DEF Serve, Continue, TypeOK, Request, provider
  <2> QED BY <1>0, <2>1 DEF CacheLacksNewOnly, AnswersLackNewOnly, At
<1>4. ASSUME NEW c \in Requests, Receive(c)
      PROVE  CacheLacksNewOnly' /\ AnswersLackNewOnly'
  <2> PICK verdict \in Verdicts : Continue(c, [req[c] EXCEPT !.pc = verdict, !.jwks = {}])
    BY <1>4 DEF Receive
  <2> DEFINE r == [req[c] EXCEPT !.pc = verdict, !.jwks = {}]
  <2>1. r \in Request /\ r.pc # "answered"
    BY <1>0 DEF TypeOK, Request, Points, Verdicts
  <2> HIDE DEF r
  <2>2. /\ UNCHANGED <<served, joined>> /\ At(c, "answered")
        /\ cache' = req[c].jwks
        /\ left' = IF req[c].age < TTL THEN TTL - req[c].age ELSE 0
    BY <1>4 DEF Receive, provider
  <2>3. req[c].age \in Nat
    BY <1>0 DEF TypeOK, Request
  <2>4. CacheLacksNewOnly'
    BY <1>0, <2>2, <2>3 DEF CacheLacksNewOnly, AnswersLackNewOnly, TypeOK
  <2>5. Continue(c, r)
    BY DEF r
  <2> QED BY <2>1, <2>2, <2>4, <2>5, NoAnswerNeeded
<1>5. ASSUME NEW c \in Requests, FetchFails(c)
      PROVE  CacheLacksNewOnly' /\ AnswersLackNewOnly'
  <2> DEFINE r == [req[c] EXCEPT !.pc = "unavailable", !.jwks = {}]
  <2>1. r \in Request /\ r.pc # "answered"
    BY <1>0 DEF TypeOK, Request, Points, Verdicts
  <2> HIDE DEF r
  <2>2. Continue(c, r) /\ UNCHANGED <<served, joined, cache, left>>
    BY <1>5 DEF FetchFails, provider, r
  <2> QED BY <1>0, <2>1, <2>2, NoAnswerNeeded DEF CacheLacksNewOnly
<1>6. CASE Restart
  BY <1>6 DEF Restart, CacheLacksNewOnly, AnswersLackNewOnly, At, New, Begun
<1>7. CASE Tick
  <2>1. /\ left' \in 0 .. TTL
        /\ left' > 0 => left' = left - 1 /\ left > 0
        /\ UNCHANGED <<served, cache>>
        /\ \A k \in Keys : joined'[k] \in 0 .. TTL /\ joined'[k] <= joined[k] + 1
        /\ served \subseteq Keys /\ left \in 0 .. TTL
        /\ \A k \in Keys : joined[k] \in 0 .. TTL
    BY <1>0, <1>7 DEF Tick, Age, TypeOK
  <2>2. CacheLacksNewOnly'
    BY <1>0, <2>1 DEF CacheLacksNewOnly
  <2>3. ASSUME NEW c \in Requests, At(c, "answered")'
        PROVE  /\ At(c, "answered") /\ req'[c].jwks = req[c].jwks
               /\ req'[c].age = req[c].age + 1 /\ req[c].age \in Nat
    BY <1>0, <1>7, <2>3 DEF Tick, TypeOK, Request, At, Waiting
  <2>4. AnswersLackNewOnly'
    BY <1>0, <2>1, <2>3 DEF AnswersLackNewOnly
  <2> QED BY <2>2, <2>4
<1>8. CASE UNCHANGED vars
  BY <1>0, <1>8 DEF vars, provider, CacheLacksNewOnly, AnswersLackNewOnly, At
<1> QED
  BY <1>1, <1>2, <1>3, <1>4, <1>5, <1>6, <1>7, <1>8 DEF Next, Resolve

LEMMA Known ==
    ASSUME CompleteInv, Next, NEW c \in Requests,
           req'[c].pc = "unknown_key", req'[c] # req[c], req'[c].kid \in served
    PROVE  joined[req'[c].kid] - req'[c].age < TTL
<1>0. TypeOK /\ CacheLacksNewOnly /\ AnswersLackNewOnly /\ NoKey \notin served
  BY DEF CompleteInv, RecentInv, TypeOK
<1>1. ASSUME NEW d \in Requests, NEW key \in Keys, NEW kid \in {key, NoKey},
             Authenticate(d, kid, key)
      PROVE  joined[req'[c].kid] - req'[c].age < TTL
  <2> PICK verdict \in Verdicts :
          /\ Verdict(kid, key, cache, verdict)
          /\ Continue(d, Begun(verdict, kid, key))
    BY <1>1 DEF Authenticate
  <2> DEFINE r == Begun(verdict, kid, key)
  <2>1. r \in Request /\ r.pc = verdict /\ r.kid = kid /\ r.age = 0
    BY NewIsRequest DEF Points, Begun
  <2> HIDE DEF r
  <2>2. d = c /\ req'[c] = r
    BY <1>0, <2>1, RequestType DEF r
  <2>3. kid \in served \ cache
    BY <1>0, <2>1, <2>2 DEF Verdict, Found
  <2>4. left > 0 /\ left \in 0 .. TTL /\ joined[kid] \in Int
    BY <1>0, <1>1, <2>3 DEF Authenticate, UpToDate, TypeOK
  <2> QED BY <1>0, <2>1, <2>2, <2>3, <2>4 DEF CacheLacksNewOnly
<1>2. ASSUME NEW d \in Requests, Receive(d)
      PROVE  joined[req'[c].kid] - req'[c].age < TTL
  <2> PICK verdict \in Verdicts :
          /\ Verdict(req[d].kid, req[d].key, req[d].jwks, verdict)
          /\ Continue(d, [req[d] EXCEPT !.pc = verdict, !.jwks = {}])
    BY <1>2 DEF Receive
  <2> DEFINE r == [req[d] EXCEPT !.pc = verdict, !.jwks = {}]
  <2>1. r \in Request /\ r.pc = verdict /\ r.kid = req[d].kid /\ r.age = req[d].age
    BY <1>0 DEF TypeOK, Request, Points
  <2> HIDE DEF r
  <2>2. d = c /\ req'[c] = r
    BY <1>0, <2>1, RequestType DEF r
  <2>3. req[c].kid \in served \ req[c].jwks
    BY <1>0, <2>1, <2>2 DEF Verdict, Found
  <2>4. req[c].age \in Nat /\ joined[req[c].kid] \in Int
    BY <1>0, <2>3 DEF TypeOK, Request
  <2>5. joined[req[c].kid] <= req[c].age
    BY <1>0, <1>2, <2>2, <2>3 DEF AnswersLackNewOnly, Receive
  <2> QED BY <2>1, <2>2, <2>4, <2>5
<1>3. ASSUME NEW d \in Requests, NEW key \in Keys, NEW kid \in {key, NoKey},
             Ask(d, kid, key)
      PROVE  FALSE
  <2> DEFINE r == Begun("asked", kid, key)
  <2>1. r \in Request /\ r.pc = "asked"
    BY NewIsRequest DEF Points, Begun
  <2> HIDE DEF r
  <2> QED BY <1>0, <1>3, <2>1, RequestType DEF r, Ask
<1>4. ASSUME NEW d \in Requests, Serve(d) \/ FetchFails(d) PROVE FALSE
  <2>1. PICK r \in Request : r.pc # "unknown_key" /\ Continue(d, r)
    BY <1>0, <1>4 DEF Serve, FetchFails, TypeOK, Request, Points, Verdicts
  <2> QED BY <1>0, <2>1, RequestType
<1>5. CASE Restart
  BY <1>5 DEF Restart, New, Begun
<1>6. CASE Tick
  BY <1>0, <1>6 DEF Tick, TypeOK, Request, Waiting
<1>7. ASSUME NEW k \in Keys, AddKey(k) \/ WithdrawKey(k) PROVE FALSE
  BY <1>7 DEF AddKey, WithdrawKey
<1> QED BY <1>1, <1>2, <1>3, <1>4, <1>5, <1>6, <1>7 DEF Next, Resolve

(***************************************************************************)
(* No request that begins TTL or later after the provider added a key is   *)
(* refused because the key is unknown (_fetch_jwks): the bound to what     *)
(* ServedIsKnown says without one, however many fetches overlap and in     *)
(* whatever order their answers replace each other.                        *)
(***************************************************************************)
THEOREM AddedAreKnown == Spec => AddedIsKnown
<1> DEFINE Knowing ==
        \A c \in Requests :
          /\ req'[c].pc = "unknown_key" /\ req'[c] # req[c]
          /\ req'[c].kid \in served
          => joined[req'[c].kid] - req'[c].age < TTL
<1>1. CompleteInv /\ [Next]_vars => [Knowing]_vars
  BY Known
<1>2. Spec => []CompleteInv
  BY InitComplete, NextComplete, PTL DEF Spec
<1>3. Spec => [][Next]_vars
  BY PTL DEF Spec
<1> HIDE DEF Knowing
<1>4. Spec => [][Knowing]_vars
  BY <1>1, <1>2, <1>3, PTL
<1> QED BY <1>4 DEF Knowing, AddedIsKnown
=============================================================================
