------------------------ MODULE AuthenticationProofs ------------------------
(***************************************************************************)
(* Proofs about the key cache (module JwksCache) and about the             *)
(* authentication that every RPC begins with (module Authentication).      *)
(*                                                                         *)
(* Everything rests on one inductive invariant of the cache, CacheInv.     *)
(* FreshKey is not inductive: it speaks of the moment GetKey returns, and  *)
(* what makes it true there is what holds of the cache and of the fetch    *)
(* under way at every earlier moment.  The steps of Authentication are     *)
(* steps of the cache (AuthStep), so its theorems use the same invariant.  *)
(***************************************************************************)
EXTENDS Authentication, TLAPS

\* mu_ is held exactly during a fetch, by the thread that fetches.
MutexHeldInFetch == \A t \in Callers : Fetching(t) <=> mu = t

\* The clock and the histories: nothing was published in the future, the set
\* in the cache was written before it was processed, at most one fetch before.
ClockInv ==
    /\ \A k \in Kids : pubUntil[k] <= now
    /\ snapAt <= fetchedAt
    /\ fetchedAt <= now
    /\ fetchedAt <= snapAt + FetchTimeout

\* Every key in the cache was still published when its set was written.
CachedWerePublished == \A k \in keys : snapAt <= LastPublished(k)

\* The request under way was sent after the last refresh and at most one
\* timeout ago.
RequestInv ==
    \A t \in Callers : Fetching(t) =>
        /\ fetchedAt <= sentAt
        /\ sentAt <= now
        /\ now <= sentAt + FetchTimeout

\* The answer under way was written after its request was sent, and held what
\* was then published.
AnswerInv ==
    \A t \in Callers : pc[t] = "answer" =>
        /\ sentAt <= answerAt
        /\ answerAt <= now
        /\ \A k \in Kids : answer[k] = "rsa" => answerAt <= LastPublished(k)

CacheInv ==
    /\ TypeOK
    /\ MutexHeldInFetch
    /\ ClockInv
    /\ CachedWerePublished
    /\ RequestInv
    /\ AnswerInv
    /\ FreshKey

-----------------------------------------------------------------------------

\* The initial cache is well typed and satisfies the invariant.
LEMMA InitCacheInv == Init => CacheInv
<1> SUFFICES ASSUME Init PROVE CacheInv
  OBVIOUS
<1> USE CacheAssumption DEF Init, Never
<1>1. TypeOK
  BY DEF TypeOK, PCs, Forms
<1>2. MutexHeldInFetch
  BY DEF MutexHeldInFetch, Fetching
<1>3. ClockInv /\ CachedWerePublished
  BY DEF ClockInv, CachedWerePublished
<1>4. RequestInv /\ AnswerInv /\ FreshKey
  BY DEF RequestInv, AnswerInv, FreshKey, Fetching
<1> QED
  BY <1>1, <1>2, <1>3, <1>4 DEF CacheInv

\* Every step of the cache keeps the types.
LEMMA NextTypeOK == TypeOK /\ [Next]_cacheVars => TypeOK'
<1> SUFFICES ASSUME TypeOK, [Next]_cacheVars PROVE TypeOK'
  OBVIOUS
<1> USE CacheAssumption DEF TypeOK, PCs, Forms, Never
<1>1. ASSUME NEW t \in Callers, NEW k \in Kids \cup {NoKid}, CallGetKey(t, k)
      PROVE TypeOK'
  BY <1>1 DEF CallGetKey
<1>2. ASSUME NEW t \in Callers, Hit(t) PROVE TypeOK'
  BY <1>2 DEF Hit, Return
<1>3. ASSUME NEW t \in Callers, StartRefresh(t) PROVE TypeOK'
  BY <1>3 DEF StartRefresh
<1>4. ASSUME NEW t \in Callers, ProviderAnswers(t) PROVE TypeOK'
  BY <1>4 DEF ProviderAnswers
<1>5. ASSUME NEW t \in Callers, RefreshDone(t) PROVE TypeOK'
  BY <1>5 DEF RefreshDone, Return, ForgetFetch, Usable
<1>6. ASSUME NEW t \in Callers, RefreshThrows(t) PROVE TypeOK'
  BY <1>6 DEF RefreshThrows, Return, ForgetFetch
<1>7. ASSUME NEW t \in Callers, TakeKey(t) PROVE TypeOK'
  BY <1>7 DEF TakeKey
<1>8. ASSUME NEW k \in Kids, NEW form \in Forms, Rotate(k, form) PROVE TypeOK'
  BY <1>8 DEF Rotate
<1>9. CASE Tick
  BY <1>9 DEF Tick
<1>10. CASE UNCHANGED cacheVars
  BY <1>10 DEF cacheVars
<1> QED
  BY <1>1, <1>2, <1>3, <1>4, <1>5, <1>6, <1>7, <1>8, <1>9, <1>10
     DEF Next, Lookup, Environment

\* A kid's last publication never moves back, whatever the provider does.
LEMMA LastPublishedGrows ==
    TypeOK /\ ClockInv /\ [Next]_cacheVars =>
        /\ now <= now'
        /\ \A k \in Kids : LastPublished(k) <= LastPublished(k)'
<1> SUFFICES ASSUME TypeOK, ClockInv, [Next]_cacheVars
             PROVE  /\ now <= now'
                    /\ \A k \in Kids : LastPublished(k) <= LastPublished(k)'
  OBVIOUS
<1> USE DEF TypeOK, ClockInv, LastPublished
<1>1. CASE Tick
  BY <1>1 DEF Tick
<1>2. ASSUME NEW k \in Kids, NEW form \in Forms, Rotate(k, form)
      PROVE  /\ now <= now'
             /\ \A l \in Kids : LastPublished(l) <= LastPublished(l)'
  BY <1>2 DEF Rotate
<1>3. CASE UNCHANGED <<now, doc, pubUntil>>
  BY <1>3
<1>4. (\E t \in Callers : \/ \E k \in Kids \cup {NoKid} : CallGetKey(t, k)
                          \/ Lookup(t)
                          \/ TakeKey(t))
         => UNCHANGED <<now, doc, pubUntil>>
  BY DEF CallGetKey, Lookup, Hit, StartRefresh, ProviderAnswers, RefreshDone,
         RefreshThrows, TakeKey
<1> QED
  BY <1>1, <1>2, <1>3, <1>4 DEF Next, Environment, cacheVars

\* mu_ and the fetches: no step lets two threads fetch, or leaves mu_ locked.
LEMMA NextMutex ==
    TypeOK /\ MutexHeldInFetch /\ [Next]_cacheVars => MutexHeldInFetch'
<1> SUFFICES ASSUME TypeOK, MutexHeldInFetch, [Next]_cacheVars
             PROVE  MutexHeldInFetch'
  OBVIOUS
<1> USE CacheAssumption DEF TypeOK, MutexHeldInFetch, Fetching
<1>1. ASSUME NEW t \in Callers, NEW k \in Kids \cup {NoKid}, CallGetKey(t, k)
      PROVE  MutexHeldInFetch'
  BY <1>1 DEF CallGetKey
<1>2. ASSUME NEW t \in Callers, Lookup(t) PROVE MutexHeldInFetch'
  BY <1>2 DEF Lookup, Hit, StartRefresh, ProviderAnswers, RefreshDone,
              RefreshThrows, Return
<1>3. ASSUME NEW t \in Callers, TakeKey(t) PROVE MutexHeldInFetch'
  BY <1>3 DEF TakeKey
<1>4. CASE Environment \/ UNCHANGED cacheVars
  BY <1>4 DEF Environment, Tick, Rotate, cacheVars
<1> QED
  BY <1>1, <1>2, <1>3, <1>4 DEF Next

\* The clock, the cached set and the request under way keep their order in
\* time: only RefreshDone moves fetched_at_, to a moment after its answer.
LEMMA NextTimes ==
    CacheInv /\ [Next]_cacheVars => ClockInv' /\ RequestInv'
<1> SUFFICES ASSUME CacheInv, [Next]_cacheVars PROVE ClockInv' /\ RequestInv'
  OBVIOUS
<1> USE CacheAssumption
    DEF CacheInv, TypeOK, MutexHeldInFetch, Fetching, ClockInv, RequestInv,
        AnswerInv
<1>1. ASSUME NEW t \in Callers, NEW k \in Kids \cup {NoKid}, CallGetKey(t, k)
      PROVE  ClockInv' /\ RequestInv'
  BY <1>1 DEF CallGetKey
<1>2. ASSUME NEW t \in Callers, Hit(t) PROVE ClockInv' /\ RequestInv'
  BY <1>2 DEF Hit, Return
<1>3. ASSUME NEW t \in Callers, StartRefresh(t) PROVE ClockInv' /\ RequestInv'
  BY <1>3 DEF StartRefresh
<1>4. ASSUME NEW t \in Callers, ProviderAnswers(t)
      PROVE  ClockInv' /\ RequestInv'
  BY <1>4 DEF ProviderAnswers
<1>5. ASSUME NEW t \in Callers, RefreshDone(t) PROVE ClockInv' /\ RequestInv'
  <2>1. ClockInv'
    BY <1>5 DEF RefreshDone
  <2>2. \A u \in Callers : ~Fetching(u)'
    BY <1>5 DEF RefreshDone, Return
  <2> QED
    BY <2>1, <2>2
<1>6. ASSUME NEW t \in Callers, RefreshThrows(t)
      PROVE  ClockInv' /\ RequestInv'
  <2>1. ClockInv'
    BY <1>6 DEF RefreshThrows
  <2>2. \A u \in Callers : ~Fetching(u)'
    BY <1>6 DEF RefreshThrows, Return
  <2> QED
    BY <2>1, <2>2
<1>7. ASSUME NEW t \in Callers, TakeKey(t) PROVE ClockInv' /\ RequestInv'
  BY <1>7 DEF TakeKey
<1>8. ASSUME NEW k \in Kids, NEW form \in Forms, Rotate(k, form)
      PROVE  ClockInv' /\ RequestInv'
  BY <1>8 DEF Rotate
<1>9. CASE Tick
  BY <1>9 DEF Tick
<1>10. CASE UNCHANGED cacheVars
  BY <1>10 DEF cacheVars
<1> QED
  BY <1>1, <1>2, <1>3, <1>4, <1>5, <1>6, <1>7, <1>8, <1>9, <1>10
     DEF Next, Lookup, Environment

\* What the cache holds, and what an answer on its way to the cache holds,
\* was published when it was written.
LEMMA NextContents ==
    CacheInv /\ [Next]_cacheVars => CachedWerePublished' /\ AnswerInv'
<1> SUFFICES ASSUME CacheInv, [Next]_cacheVars
             PROVE  CachedWerePublished' /\ AnswerInv'
  OBVIOUS
<1>0. /\ TypeOK /\ TypeOK'
      /\ now <= now'
      /\ \A k \in Kids : /\ LastPublished(k) \in Nat /\ LastPublished(k)' \in Nat
                         /\ LastPublished(k) <= LastPublished(k)'
  BY NextTypeOK, LastPublishedGrows DEF CacheInv, TypeOK, LastPublished
<1>1. ASSUME UNCHANGED <<keys, snapAt>>
      PROVE  CachedWerePublished'
  BY <1>0, <1>1 DEF CacheInv, CachedWerePublished, TypeOK
<1>2. ASSUME UNCHANGED <<sentAt, answerAt, answer>>,
             \A t \in Callers : pc'[t] = "answer" => pc[t] = "answer"
      PROVE  AnswerInv'
  BY <1>0, <1>2 DEF CacheInv, AnswerInv, TypeOK
<1>3. ASSUME NEW t \in Callers, ProviderAnswers(t)
      PROVE  CachedWerePublished' /\ AnswerInv'
  <2>1. \A u \in Callers : pc'[u] = "answer" => u = t
    BY <1>3 DEF ProviderAnswers, CacheInv, TypeOK, MutexHeldInFetch, Fetching
  <2>2. sentAt' <= answerAt' /\ answerAt' <= now'
    BY <1>3 DEF ProviderAnswers, CacheInv, TypeOK, RequestInv, Fetching
  <2>3. \A k \in Kids : answer'[k] = "rsa" => answerAt' <= LastPublished(k)'
    BY <1>3 DEF ProviderAnswers, CacheInv, TypeOK, LastPublished
  <2> QED
    BY <1>1, <1>3, <2>1, <2>2, <2>3 DEF ProviderAnswers, AnswerInv
<1>4. ASSUME NEW t \in Callers, RefreshDone(t)
      PROVE  CachedWerePublished' /\ AnswerInv'
  <2>1. \A u \in Callers : pc'[u] # "answer"
    BY <1>4 DEF RefreshDone, Return, CacheInv, TypeOK, MutexHeldInFetch, Fetching
  <2>2. \A k \in keys' : k \in Kids /\ answer[k] = "rsa"
    BY <1>4 DEF RefreshDone, Usable
  <2>3. \A k \in keys' : snapAt' <= LastPublished(k)'
    BY <1>0, <1>4, <2>2 DEF RefreshDone, CacheInv, AnswerInv, TypeOK
  <2> QED
    BY <2>1, <2>3 DEF CachedWerePublished, AnswerInv
<1>5. ASSUME NEW t \in Callers, RefreshThrows(t)
      PROVE  CachedWerePublished' /\ AnswerInv'
  <2>1. \A u \in Callers : pc'[u] # "answer"
    BY <1>5 DEF RefreshThrows, Return, CacheInv, TypeOK, MutexHeldInFetch, Fetching
  <2> QED
    BY <1>1, <1>5, <2>1 DEF RefreshThrows, AnswerInv
<1>6. ASSUME NEW t \in Callers, NEW k \in Kids \cup {NoKid}, CallGetKey(t, k)
      PROVE  CachedWerePublished' /\ AnswerInv'
  BY <1>0, <1>1, <1>2, <1>6 DEF CallGetKey, TypeOK
<1>7. ASSUME NEW t \in Callers, Hit(t) \/ StartRefresh(t) \/ TakeKey(t)
      PROVE  CachedWerePublished' /\ AnswerInv'
  <2>1. CASE Hit(t)
    BY <1>0, <1>1, <1>2, <2>1 DEF Hit, Return, TypeOK
  <2>2. CASE StartRefresh(t)
    <3>1. \A u \in Callers : pc'[u] # "answer"
      BY <2>2, CacheAssumption
         DEF StartRefresh, CacheInv, TypeOK, MutexHeldInFetch, Fetching
    <3> QED
      BY <1>1, <2>2, <3>1 DEF StartRefresh, AnswerInv
  <2>3. CASE TakeKey(t)
    BY <1>0, <1>1, <1>2, <2>3 DEF TakeKey, TypeOK
  <2> QED
    BY <1>7, <2>1, <2>2, <2>3
<1>8. CASE Environment \/ UNCHANGED cacheVars
  BY <1>1, <1>2, <1>8 DEF Environment, Tick, Rotate, cacheVars
<1> QED
  BY <1>3, <1>4, <1>5, <1>6, <1>7, <1>8 DEF Next, Lookup

\* Whoever has been given a key keeps a fresh one: a key handed out was
\* published long enough, and a later rotation cannot undo that.
LEMMA NextFreshKey == CacheInv /\ [Next]_cacheVars => FreshKey'
<1> SUFFICES ASSUME CacheInv, [Next]_cacheVars,
                    NEW t \in Callers, pc'[t] = "found",
                    NEW k, found'[t] = k, k # NoKid
             PROVE  foundAt'[t] - LastPublished(k)' <= Ttl + FetchTimeout
  BY DEF FreshKey, LastPublished
<1>0. /\ TypeOK /\ TypeOK'
      /\ \A l \in Kids : /\ LastPublished(l) \in Nat /\ LastPublished(l)' \in Nat
                         /\ LastPublished(l) <= LastPublished(l)'
  BY NextTypeOK, LastPublishedGrows DEF CacheInv, TypeOK, LastPublished
<1>1. k \in Kids /\ foundAt'[t] \in Nat
  BY <1>0 DEF TypeOK
<1>2. CASE pc[t] = "found" /\ found'[t] = found[t] /\ foundAt'[t] = foundAt[t]
  <2>1. foundAt[t] - LastPublished(k) <= Ttl + FetchTimeout
    BY <1>2 DEF CacheInv, FreshKey
  <2> QED
    BY <1>0, <1>1, <1>2, <2>1, CacheAssumption
<1>3. CASE Hit(t)
  <2>1. /\ k = kid[t] /\ k \in keys
        /\ foundAt'[t] = now /\ now - fetchedAt <= Ttl
    BY <1>3, CacheAssumption DEF Hit, Return, Expired, CacheInv, TypeOK
  <2>2. snapAt <= LastPublished(k) /\ fetchedAt <= snapAt + FetchTimeout
    BY <2>1 DEF CacheInv, CachedWerePublished, ClockInv
  <2> QED
    BY <1>0, <1>1, <2>1, <2>2, CacheAssumption DEF TypeOK
<1>4. CASE RefreshDone(t)
  <2>1. /\ k = kid[t] /\ answer[k] = "rsa"
        /\ foundAt'[t] = now
    BY <1>1, <1>4 DEF RefreshDone, Return, Usable, CacheInv, TypeOK
  <2>2. answerAt <= LastPublished(k) /\ sentAt <= answerAt
    BY <1>1, <1>4, <2>1 DEF RefreshDone, CacheInv, AnswerInv
  <2>3. now <= sentAt + FetchTimeout
    BY <1>4 DEF RefreshDone, CacheInv, RequestInv, Fetching
  <2> QED
    BY <1>0, <1>1, <2>1, <2>2, <2>3, CacheAssumption DEF TypeOK
<1>5. CASE RefreshThrows(t)
  BY <1>5 DEF RefreshThrows, Return, CacheInv, TypeOK
<1>6. ASSUME NEW u \in Callers, u # t \/ ~(Hit(u) \/ RefreshDone(u) \/ RefreshThrows(u)),
             \/ \E l \in Kids \cup {NoKid} : CallGetKey(u, l)
             \/ Lookup(u)
             \/ TakeKey(u)
      PROVE  pc[t] = "found" /\ found'[t] = found[t] /\ foundAt'[t] = foundAt[t]
  BY <1>6 DEF CallGetKey, Lookup, Hit, StartRefresh, ProviderAnswers, RefreshDone,
              RefreshThrows, TakeKey, Return, CacheInv, TypeOK
<1>7. ASSUME Environment \/ UNCHANGED cacheVars
      PROVE  pc[t] = "found" /\ found'[t] = found[t] /\ foundAt'[t] = foundAt[t]
  BY <1>7 DEF Environment, Tick, Rotate, cacheVars
<1> QED
  BY <1>2, <1>3, <1>4, <1>5, <1>6, <1>7 DEF Next

\* CacheInv is inductive.
LEMMA NextCacheInv == CacheInv /\ [Next]_cacheVars => CacheInv'
  BY NextTypeOK, NextMutex, NextTimes, NextContents, NextFreshKey DEF CacheInv

\* A step of the cache never installs a key set that is older than the one it
\* replaces: the request was sent after the last refresh, and the answer was
\* written after the request.
LEMMA StepNoOlderKeySet == CacheInv /\ [Next]_cacheVars => snapAt' >= snapAt
<1> SUFFICES ASSUME CacheInv, [Next]_cacheVars PROVE snapAt' >= snapAt
  OBVIOUS
<1>1. ASSUME NEW t \in Callers, RefreshDone(t) PROVE snapAt' >= snapAt
  BY <1>1 DEF RefreshDone, CacheInv, TypeOK, ClockInv, RequestInv, AnswerInv, Fetching
<1>2. CASE UNCHANGED snapAt
  BY <1>2 DEF CacheInv, TypeOK
<1>3. (\E t \in Callers : RefreshDone(t)) \/ UNCHANGED snapAt
  BY DEF Next, Lookup, Environment, CallGetKey, Hit, StartRefresh, ProviderAnswers,
         RefreshThrows, TakeKey, Tick, Rotate, cacheVars
<1> QED
  BY <1>1, <1>2, <1>3

\* The invariant holds in every behaviour of the cache.
THEOREM CacheInvariant == Spec => []CacheInv
  BY InitCacheInv, NextCacheInv, PTL DEF Spec

\* jwks_cache.cc keeps its types: whatever the number of threads, the kids and
\* the length of the run.
THEOREM CacheTypeCorrect == Spec => []TypeOK
<1>1. CacheInv => TypeOK
  BY DEF CacheInv
<1> QED
  BY <1>1, CacheInvariant, PTL

\* GetKey never vouches for a key that the provider withdrew more than Ttl
\* plus one fetch before it returns it, for every number of threads and every
\* rotation of the key set.
THEOREM FreshKeyHolds == Spec => []FreshKey
<1>1. CacheInv => FreshKey
  BY DEF CacheInv
<1> QED
  BY <1>1, CacheInvariant, PTL

\* refresh() never replaces the cached key set by an older one, because mu_ is
\* held from the request to the replacement.
THEOREM NoOlderKeySetHolds == Spec => NoOlderKeySet
<1>1. CacheInv /\ [Next]_cacheVars => [snapAt' >= snapAt]_cacheVars
  BY StepNoOlderKeySet
<1> QED
  BY <1>1, CacheInvariant, PTL DEF Spec, NoOlderKeySet

-----------------------------------------------------------------------------

\* A thread inside GetKey looks up the kid of its own credential and has no
\* outcome yet; it is given that kid or nothing, and only by GetKey.
RequestsOwnKey ==
    \A t \in Callers :
        /\ pc[t] # "idle" => outcome[t] = "none" /\ cred[t].kid = kid[t]
        /\ found[t] \in {kid[t], NoKid}
        /\ pc[t] # "found" => found[t] = NoKid

AuthInv ==
    /\ AuthTypeOK
    /\ CacheInv
    /\ RequestsOwnKey

\* Every step of AuthenticateRpc is a step of the key cache, or leaves the
\* cache alone: the authentication adds nothing the cache's invariant would
\* have to know of.
LEMMA AuthStep == AuthTypeOK /\ [AuthNext]_authVars => [Next]_cacheVars
<1> SUFFICES ASSUME AuthTypeOK, [AuthNext]_authVars PROVE [Next]_cacheVars
  OBVIOUS
<1>1. ASSUME NEW t \in Callers, NEW c \in Credentials, ResolveKey(t, c)
      PROVE  Next
  <2>1. c.kid \in Kids \cup {NoKid}
    BY CredentialsAssumption
  <2> QED
    BY <1>1, <2>1 DEF ResolveKey, Next
<1>2. ASSUME NEW t \in Callers, Lookup(t) \/ Verify(t) PROVE Next
  BY <1>2 DEF Verify, Next
<1>3. CASE Environment
  BY <1>3 DEF Next
<1>4. ASSUME NEW t \in Callers, NEW c \in Credentials, RejectEarly(t, c)
      PROVE  UNCHANGED cacheVars
  BY <1>4 DEF RejectEarly
<1>5. ASSUME NEW t \in Callers, HandlerTakesOver(t) PROVE UNCHANGED cacheVars
  BY <1>5 DEF HandlerTakesOver, cacheVars
<1>6. CASE UNCHANGED authVars
  BY <1>6 DEF authVars
<1> QED
  BY <1>1, <1>2, <1>3, <1>4, <1>5, <1>6 DEF AuthNext

\* The reasons and credentials of the threads keep their types.
LEMMA AuthNextTypeOK == AuthTypeOK /\ [AuthNext]_authVars => AuthTypeOK'
<1> SUFFICES ASSUME AuthTypeOK, [AuthNext]_authVars PROVE AuthTypeOK'
  OBVIOUS
<1>1. TypeOK'
  BY AuthStep, NextTypeOK DEF AuthTypeOK
<1> USE DEF AuthTypeOK, Reasons
<1>2. ASSUME NEW t \in Callers, NEW c \in Credentials, RejectEarly(t, c)
      PROVE  AuthTypeOK'
  <2>1. c.header \in {"missing", "nonBearer", "malformed"}
    BY <1>2, CredentialsAssumption DEF RejectEarly, Headers
  <2>2. (CASE c.header = "missing"   -> "missing_header"
           [] c.header = "nonBearer" -> "non_bearer"
           [] c.header = "malformed" -> "bad_signature") \in Reasons
    BY <2>1
  <2> QED
    BY <1>1, <1>2, <2>2 DEF RejectEarly
<1>3. ASSUME NEW t \in Callers, NEW c \in Credentials, ResolveKey(t, c)
      PROVE  AuthTypeOK'
  BY <1>1, <1>3 DEF ResolveKey
<1>4. ASSUME NEW t \in Callers, Verify(t) PROVE AuthTypeOK'
  BY <1>1, <1>4 DEF Verify
<1>5. ASSUME NEW t \in Callers, HandlerTakesOver(t) PROVE AuthTypeOK'
  BY <1>1, <1>5 DEF HandlerTakesOver
<1>6. CASE UNCHANGED <<cred, outcome>>
  BY <1>1, <1>6
<1> QED
  BY <1>2, <1>3, <1>4, <1>5, <1>6 DEF AuthNext, authVars

\* GetKey answers about the kid it was asked for, until the caller takes the
\* answer.
LEMMA AuthNextRequests == AuthInv /\ [AuthNext]_authVars => RequestsOwnKey'
<1> SUFFICES ASSUME AuthInv, [AuthNext]_authVars PROVE RequestsOwnKey'
  OBVIOUS
<1> USE DEF AuthInv, AuthTypeOK, TypeOK, RequestsOwnKey
<1>1. ASSUME NEW t \in Callers, NEW c \in Credentials, RejectEarly(t, c)
      PROVE  RequestsOwnKey'
  BY <1>1 DEF RejectEarly, cacheVars
<1>2. ASSUME NEW t \in Callers, NEW c \in Credentials, ResolveKey(t, c)
      PROVE  RequestsOwnKey'
  BY <1>2 DEF ResolveKey, CallGetKey
<1>3. ASSUME NEW t \in Callers, Lookup(t), UNCHANGED <<cred, outcome>>
      PROVE  RequestsOwnKey'
  BY <1>3 DEF Lookup, Hit, StartRefresh, ProviderAnswers, RefreshDone,
              RefreshThrows, Return, Fetching
<1>4. ASSUME NEW t \in Callers, Verify(t) PROVE RequestsOwnKey'
  BY <1>4 DEF Verify, TakeKey
<1>5. ASSUME NEW t \in Callers, HandlerTakesOver(t) PROVE RequestsOwnKey'
  BY <1>5 DEF HandlerTakesOver, cacheVars
<1>6. CASE Environment /\ UNCHANGED <<cred, outcome>>
  BY <1>6 DEF Environment, Tick, Rotate
<1>7. CASE UNCHANGED authVars
  BY <1>7 DEF authVars, cacheVars
<1> QED
  BY <1>1, <1>2, <1>3, <1>4, <1>5, <1>6, <1>7 DEF AuthNext

\* AuthInv holds initially.
LEMMA InitAuthInv == AuthInit => AuthInv
<1> SUFFICES ASSUME AuthInit PROVE AuthInv
  OBVIOUS
<1>1. CacheInv
  BY InitCacheInv DEF AuthInit
<1>2. AuthTypeOK
  BY <1>1 DEF AuthInit, AuthTypeOK, CacheInv, Reasons
<1>3. RequestsOwnKey
  BY DEF AuthInit, Init, RequestsOwnKey
<1> QED
  BY <1>1, <1>2, <1>3 DEF AuthInv

\* AuthInv is inductive.
LEMMA NextAuthInv == AuthInv /\ [AuthNext]_authVars => AuthInv'
  BY AuthStep, AuthNextTypeOK, NextCacheInv, AuthNextRequests DEF AuthInv

\* A thread whose token is accepted has been given the key its token names,
\* and that key verified the token.
LEMMA AcceptedToken ==
    ASSUME AuthInv, [AuthNext]_authVars, NEW t \in Callers,
           outcome[t] = "none", outcome'[t] = "ok"
    PROVE  /\ pc[t] = "found" /\ found[t] # NoKid
           /\ Verifies(cred[t], found[t])
           /\ found[t] = cred[t].kid
<1> USE DEF AuthInv, AuthTypeOK
<1>1. ASSUME NEW u \in Callers, NEW c \in Credentials, RejectEarly(u, c)
      PROVE  FALSE
  <2>1. c.header \in {"missing", "nonBearer", "malformed"}
    BY <1>1, CredentialsAssumption DEF RejectEarly, Headers
  <2>2. (CASE c.header = "missing"   -> "missing_header"
           [] c.header = "nonBearer" -> "non_bearer"
           [] c.header = "malformed" -> "bad_signature") # "ok"
    BY <2>1
  <2> QED
    BY <1>1, <2>2 DEF RejectEarly
<1>2. ASSUME NEW u \in Callers, HandlerTakesOver(u) PROVE FALSE
  BY <1>2 DEF HandlerTakesOver
<1>3. CASE UNCHANGED outcome
  BY <1>3
<1>4. PICK u \in Callers : Verify(u)
  BY <1>1, <1>2, <1>3 DEF AuthNext, ResolveKey, authVars
<1>5. u = t
  BY <1>4 DEF Verify
<1>6. pc[t] = "found" /\ found[t] # NoKid /\ Verifies(cred[t], found[t])
  BY <1>4, <1>5 DEF Verify, TakeKey
<1>7. found[t] = cred[t].kid
  BY <1>6 DEF RequestsOwnKey
<1> QED
  BY <1>6, <1>7

\* The types of AuthenticateRpc's state, for every set of credentials.
THEOREM AuthTypeCorrect == AuthSpec => []AuthTypeOK
<1>1. AuthInv => AuthTypeOK
  BY DEF AuthInv
<1> QED
  BY <1>1, InitAuthInv, NextAuthInv, PTL DEF AuthSpec

\* Authenticate returns "ok" only for a token that is signed by the key its
\* header names, carries the expected claims, is valid at that moment, and
\* whose key the provider published at most Ttl plus one fetch before GetKey
\* returned it: whatever credentials the clients send, however the provider
\* rotates its keys and whichever fetches fail.
THEOREM SoundAuthenticationHolds == AuthSpec => SoundAuthentication
<1> DEFINE Sound ==
      \A t \in Callers :
         outcome[t] = "none" /\ outcome'[t] = "ok" =>
            /\ cred[t].signer = cred[t].kid
            /\ cred[t].claimsOk
            /\ cred[t].nbf <= now
            /\ cred[t].exp = NoExp \/ now <= cred[t].exp
            /\ foundAt[t] - LastPublished(cred[t].signer)
                  <= Ttl + FetchTimeout
<1>1. AuthInv /\ [AuthNext]_authVars => Sound
  <2> SUFFICES ASSUME AuthInv, [AuthNext]_authVars, NEW t \in Callers,
                      outcome[t] = "none", outcome'[t] = "ok"
               PROVE  /\ cred[t].signer = cred[t].kid
                      /\ cred[t].claimsOk
                      /\ cred[t].nbf <= now
                      /\ cred[t].exp = NoExp \/ now <= cred[t].exp
                      /\ foundAt[t] - LastPublished(cred[t].signer)
                            <= Ttl + FetchTimeout
    OBVIOUS
  <2>1. /\ pc[t] = "found" /\ found[t] # NoKid
        /\ Verifies(cred[t], found[t])
        /\ found[t] = cred[t].kid
    BY AcceptedToken
  <2>2. foundAt[t] - LastPublished(found[t]) <= Ttl + FetchTimeout
    BY <2>1 DEF AuthInv, CacheInv, FreshKey
  <2> QED
    BY <2>1, <2>2 DEF Verifies
<1>2. AuthInv /\ [AuthNext]_authVars => [Sound]_authVars
  BY <1>1
<1>3. SoundAuthentication <=> [][Sound]_authVars
  BY DEF SoundAuthentication
<1> HIDE DEF Sound
<1> QED
  BY <1>2, <1>3, InitAuthInv, NextAuthInv, PTL DEF AuthSpec

=============================================================================
