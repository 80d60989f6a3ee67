----------------------------- MODULE JwksCache ------------------------------
(***************************************************************************)
(* The cache of the identity provider's signing keys                       *)
(* (src/src/auth/jwks_cache.cc) and the RPC threads that look keys up in   *)
(* it.                                                                     *)
(*                                                                         *)
(* GetKey holds mu_ from its first line to its return, the HTTP fetch of   *)
(* the key set included.  Between the request and the answer the identity  *)
(* provider may rotate its keys and time passes, up to libcurl's timeout.  *)
(* fetched_at_ is the time the answer was processed, not the time the      *)
(* provider wrote it.                                                      *)
(*                                                                         *)
(* A key is named by its kid; the PEM text that JwkToPem produces is that  *)
(* name.  What matters of an entry of the key set is what refresh() does   *)
(* with it: an RSA key it can convert, an entry it skips (absent, another  *)
(* kty, no kid, no n or e), or one whose conversion throws.                *)
(***************************************************************************)
EXTENDS Integers, FiniteSets

CONSTANTS
    Callers,        \* threads that call GetKey
    NoCaller,       \* the owner of mu_ when it is unlocked
    Kids,           \* kids the identity provider may publish
    NoKid,          \* the empty kid of a token without one: never published
    Ttl,            \* ttl_, oauth.jwks_cache_ttl_seconds
    FetchTimeout,   \* CURLOPT_TIMEOUT
    MaxTime,        \* bound: the clock stops here
    MaxRotations    \* bound: changes of the published key set

ASSUME CacheAssumption ==
    /\ NoCaller \notin Callers
    /\ NoKid \notin Kids
    /\ Ttl \in Nat
    /\ FetchTimeout \in Nat
    /\ MaxTime \in Nat \ {0}
    /\ MaxRotations \in Nat

VARIABLES
    mu,         \* JwksCache::mu_
    keys,       \* JwksCache::keys_, the kids in the cache
    fetchedAt,  \* JwksCache::fetched_at_, Never until the first refresh
    pc,         \* where each caller is
    kid,        \* the kid each caller looks up
    found,      \* what GetKey returned: a kid, or NoKid for nullopt
    foundAt,    \* history: when it returned
    now,        \* steady_clock::now()
    doc,        \* the key set the provider publishes: the form of each kid
    answer,     \* the key set in the response under way
    sentAt,     \* when the request under way was sent
    rotations,  \* changes of doc so far
    pubUntil,   \* history: when each kid was last published as a usable key
    snapAt,     \* history: when the provider wrote the set that is in keys
    answerAt    \* history: when the provider wrote answer

cacheVars == <<mu, keys, fetchedAt, pc, kid, found, foundAt, now, doc, answer,
               sentAt, rotations, pubUntil, snapAt, answerAt>>

\* The value of a time_point nobody has set.
Never == 0

Forms == {"rsa", "skipped", "throws"}

PCs ==
    { "idle",       \* no lookup
      "lock",       \* GetKey: about to lock mu_
      "fetch",      \* FetchUrl: request sent, mu_ held
      "answer",     \* FetchUrl: the provider has written its answer, mu_ held
      "found" }     \* GetKey has returned

Fetching(t) == pc[t] \in {"fetch", "answer"}

TypeOK ==
    /\ mu \in Callers \cup {NoCaller}
    /\ keys \subseteq Kids
    /\ pc \in [Callers -> PCs]
    /\ kid \in [Callers -> Kids \cup {NoKid}]
    /\ found \in [Callers -> Kids \cup {NoKid}]
    /\ foundAt \in [Callers -> 0 .. MaxTime]
    /\ now \in 1 .. MaxTime
    /\ {fetchedAt, sentAt, snapAt, answerAt} \subseteq 0 .. MaxTime
    /\ doc \in [Kids -> Forms]
    /\ answer \in [Kids -> Forms]
    /\ rotations \in 0 .. MaxRotations
    /\ pubUntil \in [Kids -> 0 .. MaxTime]

Init ==
    /\ mu = NoCaller
    /\ keys = {}
    /\ fetchedAt = Never
    /\ pc = [t \in Callers |-> "idle"]
    /\ kid = [t \in Callers |-> NoKid]
    /\ found = [t \in Callers |-> NoKid]
    /\ foundAt = [t \in Callers |-> Never]
    /\ now = 1
    /\ doc \in [Kids -> {"rsa", "skipped"}]
    /\ answer = [k \in Kids |-> "skipped"]
    /\ sentAt = Never
    /\ rotations = 0
    /\ pubUntil = [k \in Kids |-> 0]
    /\ snapAt = Never
    /\ answerAt = Never

\* GetKey returns k (NoKid for nullopt) to t.
Return(t, k) ==
    /\ pc' = [pc EXCEPT ![t] = "found"]
    /\ found' = [found EXCEPT ![t] = k]
    /\ foundAt' = [foundAt EXCEPT ![t] = now]

\* Once a fetch is over nobody looks at it again.
ForgetFetch ==
    /\ answer' = [k \in Kids |-> "skipped"]
    /\ sentAt' = Never
    /\ answerAt' = Never

\* Mutant of Expired: the lifetime is not looked at.
ExpiredOnlyAtFirst == fetchedAt = Never

\* What GetKey computes before it looks the kid up.
Expired == fetchedAt = Never \/ now - fetchedAt > Ttl

-----------------------------------------------------------------------------

\* The validator calls GetKey(k).
CallGetKey(t, k) ==
    /\ pc[t] = "idle"
    /\ pc' = [pc EXCEPT ![t] = "lock"]
    /\ kid' = [kid EXCEPT ![t] = k]
    /\ UNCHANGED <<mu, keys, fetchedAt, found, foundAt, now, doc, answer, sentAt,
                   rotations, pubUntil, snapAt, answerAt>>

\* The kid is cached and the cache is fresh: return under the lock.
Hit(t) ==
    /\ pc[t] = "lock"
    /\ mu = NoCaller
    /\ kid[t] \in keys /\ ~Expired
    /\ Return(t, kid[t])
    /\ UNCHANGED <<mu, keys, fetchedAt, kid, now, doc, answer, sentAt,
                   rotations, pubUntil, snapAt, answerAt>>

\* Mutant of StartRefresh: mu_ is unlocked during the fetch.
StartRefreshUnlocked(t) ==
    /\ pc[t] = "lock"
    /\ mu = NoCaller
    /\ kid[t] \notin keys \/ Expired
    /\ sentAt' = now
    /\ pc' = [pc EXCEPT ![t] = "fetch"]
    /\ UNCHANGED <<mu, keys, fetchedAt, kid, found, foundAt, now, doc, answer,
                   rotations, pubUntil, snapAt, answerAt>>

\* An unknown kid or an expired cache: refresh() sends the request, and mu_
\* stays locked.
StartRefresh(t) ==
    /\ pc[t] = "lock"
    /\ mu = NoCaller
    /\ kid[t] \notin keys \/ Expired
    /\ mu' = t
    /\ sentAt' = now
    /\ pc' = [pc EXCEPT ![t] = "fetch"]
    /\ UNCHANGED <<keys, fetchedAt, kid, found, foundAt, now, doc, answer, rotations,
                   pubUntil, snapAt, answerAt>>

\* The provider answers with the set it publishes now, or something that is
\* JSON and no key set (refresh() reads it as an empty one).
ProviderAnswers(t) ==
    /\ pc[t] = "fetch"
    /\ answer' \in {doc, [k \in Kids |-> "skipped"]}
    /\ answerAt' = now
    /\ pc' = [pc EXCEPT ![t] = "answer"]
    /\ UNCHANGED <<mu, keys, fetchedAt, kid, found, foundAt, now, doc, sentAt,
                   rotations, pubUntil, snapAt>>

\* Mutant of Usable: an entry without a kid is not skipped.
UsableOrBlank(d) ==
    { k \in Kids : d[k] = "rsa" }
        \cup (IF \E k \in Kids : d[k] = "skipped" THEN {NoKid} ELSE {})

\* The entries refresh() puts into keys_.
Usable(d) == { k \in Kids : d[k] = "rsa" }

\* refresh() converts every entry, replaces keys_, stamps fetched_at_; GetKey
\* looks again and returns.
RefreshDone(t) ==
    /\ pc[t] = "answer"
    /\ \A k \in Kids : answer[k] # "throws"
    /\ keys' = Usable(answer)
    /\ fetchedAt' = now
    /\ snapAt' = answerAt
    /\ Return(t, IF kid[t] \in keys' THEN kid[t] ELSE NoKid)
    /\ mu' = NoCaller
    /\ ForgetFetch
    /\ UNCHANGED <<kid, now, doc, rotations, pubUntil>>

\* Mutant of RefreshThrows: mu_ stays locked.
RefreshThrowsLocked(t) ==
    /\ Fetching(t)
    /\ Return(t, NoKid)
    /\ ForgetFetch
    /\ UNCHANGED <<mu, keys, fetchedAt, kid, now, doc, rotations, pubUntil,
                   snapAt>>

\* refresh() throws: transport, timeout, HTTP status, JSON, or one entry that
\* JwkToPem cannot convert.  GetKey returns nullopt; the cache is untouched.
RefreshThrows(t) ==
    /\ Fetching(t)
    /\ Return(t, NoKid)
    /\ mu' = NoCaller
    /\ ForgetFetch
    /\ UNCHANGED <<keys, fetchedAt, kid, now, doc, rotations, pubUntil, snapAt>>

\* The caller takes GetKey's result and is done with it.
TakeKey(t) ==
    /\ pc[t] = "found"
    /\ pc' = [pc EXCEPT ![t] = "idle"]
    /\ kid' = [kid EXCEPT ![t] = NoKid]
    /\ found' = [found EXCEPT ![t] = NoKid]
    /\ foundAt' = [foundAt EXCEPT ![t] = Never]
    /\ UNCHANGED <<mu, keys, fetchedAt, now, doc, answer, sentAt,
                   rotations, pubUntil, snapAt, answerAt>>

\* The provider adds, withdraws or breaks an entry of its key set.
Rotate(k, form) ==
    /\ rotations < MaxRotations
    /\ doc[k] # form
    /\ doc' = [doc EXCEPT ![k] = form]
    /\ pubUntil' = [pubUntil EXCEPT ![k] = IF doc[k] = "rsa" THEN now ELSE @]
    /\ rotations' = rotations + 1
    /\ UNCHANGED <<mu, keys, fetchedAt, pc, kid, found, foundAt, now, answer, sentAt,
                   snapAt, answerAt>>

\* Time passes; libcurl gives up on a request after FetchTimeout.
Tick ==
    /\ now < MaxTime
    /\ \A t \in Callers : Fetching(t) => now < sentAt + FetchTimeout
    /\ now' = now + 1
    /\ UNCHANGED <<mu, keys, fetchedAt, pc, kid, found, foundAt, doc, answer, sentAt,
                   rotations, pubUntil, snapAt, answerAt>>

Lookup(t) ==
    \/ Hit(t)
    \/ StartRefresh(t)
    \/ ProviderAnswers(t)
    \/ RefreshDone(t)
    \/ RefreshThrows(t)

Environment ==
    \/ Tick
    \/ \E k \in Kids, form \in Forms : Rotate(k, form)

Next ==
    \/ \E t \in Callers :
         \/ \E k \in Kids \cup {NoKid} : CallGetKey(t, k)
         \/ Lookup(t)
         \/ TakeKey(t)
    \/ Environment

(***************************************************************************)
(* Fairness.  A thread that has mu_ goes on: a fetch ends, by an answer or *)
(* by libcurl's timeout (weak fairness).  mu_ is released and taken again  *)
(* by others, so a thread that wants it needs strong fairness.  No call,   *)
(* rotation or tick has to happen.                                         *)
(***************************************************************************)
LookupFairness ==
    \A t \in Callers :
        /\ WF_cacheVars(RefreshDone(t) \/ RefreshThrows(t))
        /\ SF_cacheVars(Hit(t) \/ StartRefresh(t))

Spec == Init /\ [][Next]_cacheVars /\ LookupFairness

-----------------------------------------------------------------------------

\* When kid k was last a usable key of the published set.
LastPublished(k) == IF doc[k] = "rsa" THEN now ELSE pubUntil[k]

\* The cache never vouches for a key that was withdrawn long ago: at the
\* moment GetKey returns a key, the provider published it at most Ttl plus
\* one fetch ago.  (Not Ttl: fetched_at_ is stamped after the fetch.)
FreshKey ==
    \A t \in Callers :
        pc[t] = "found" /\ found[t] # NoKid =>
            foundAt[t] - LastPublished(found[t]) <= Ttl + FetchTimeout

\* The cache never goes back in time: a key set never replaces one that the
\* provider wrote later, although answers take different times to arrive.
NoOlderKeySet == [][snapAt' >= snapAt]_cacheVars

\* Whatever the provider does, every GetKey returns: callers queue on mu_
\* behind fetches, but no fetch lasts and nobody is left in the queue.
EveryLookupEnds ==
    \A t \in Callers : pc[t] = "lock" ~> pc[t] = "found"

=============================================================================
