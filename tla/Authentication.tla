--------------------------- MODULE Authentication ---------------------------
(***************************************************************************)
(* What every RPC does first: AuthenticateRpc (authenticate_rpc.h), which  *)
(* calls Authenticate (authenticate.cc), which calls                       *)
(* JwtValidator::Validate (jwt_validator.cc), which looks the token's key  *)
(* up in the cache of module JwksCache.                                    *)
(*                                                                         *)
(* A credential is what the authorization header of a request carries.     *)
(* jwt-cpp is external: verify() accepts a token that is signed with RS256 *)
(* by the given key, carries the expected iss and aud, and whose exp and   *)
(* nbf, where present, admit the current time with no leeway.  The         *)
(* production configuration never sets bypass.                             *)
(***************************************************************************)
EXTENDS JwksCache

CONSTANT Credentials    \* the credentials clients send

\* The forms of an authorization header.
Headers == {"missing", "nonBearer", "malformed", "jwt"}

\* signer: the kid whose private key signed the token.  claimsOk: RS256, iss
\* and aud are the expected ones.  exp = NoExp: the token has no exp claim.
NoExp == -1

ASSUME CredentialsAssumption ==
    Credentials \subseteq
        [header : Headers, kid : Kids \cup {NoKid}, signer : Kids,
         claimsOk : BOOLEAN, nbf : Int, exp : Int]

VARIABLES
    cred,       \* the credential of each thread's request
    outcome     \* Authenticate's out_reason, "none" before it returns

authVars == <<cacheVars, cred, outcome>>

Reasons == {"none", "ok", "missing_header", "non_bearer", "bad_signature"}

AuthTypeOK ==
    /\ TypeOK
    /\ cred \in [Callers -> Credentials]
    /\ outcome \in [Callers -> Reasons]

AuthInit ==
    /\ Init
    /\ cred \in [Callers -> Credentials]
    /\ outcome = [t \in Callers |-> "none"]

\* Authenticate returns before the token is looked at: no header, no Bearer
\* prefix or an empty token, or a token jwt-cpp cannot decode.
RejectEarly(t, c) ==
    /\ pc[t] = "idle" /\ outcome[t] = "none"
    /\ c.header # "jwt"
    /\ cred' = [cred EXCEPT ![t] = c]
    /\ outcome' = [outcome EXCEPT ![t] =
         CASE c.header = "missing"   -> "missing_header"
           [] c.header = "nonBearer" -> "non_bearer"
           [] c.header = "malformed" -> "bad_signature"]
    /\ UNCHANGED cacheVars

\* Validate decodes the token and resolves its kid.
ResolveKey(t, c) ==
    /\ outcome[t] = "none"
    /\ c.header = "jwt"
    /\ CallGetKey(t, c.kid)
    /\ cred' = [cred EXCEPT ![t] = c]
    /\ UNCHANGED outcome

\* Mutant of Verifies: the signature is not checked.
VerifiesUnsigned(c, key) ==
    /\ c.claimsOk
    /\ c.exp # NoExp => now <= c.exp
    /\ c.nbf <= now

\* jwt::verify() with the key GetKey returned, at the current time.
Verifies(c, key) ==
    /\ c.signer = key
    /\ c.claimsOk
    /\ c.exp # NoExp => now <= c.exp
    /\ c.nbf <= now

\* Validate returns; Authenticate sets the reason and the status.
Verify(t) ==
    /\ outcome[t] = "none"
    /\ outcome' = [outcome EXCEPT ![t] =
         IF found[t] # NoKid /\ Verifies(cred[t], found[t])
         THEN "ok" ELSE "bad_signature"]
    /\ TakeKey(t)
    /\ UNCHANGED cred

\* The handler goes on, or returns UNAUTHENTICATED: the thread is free.
HandlerTakesOver(t) ==
    /\ pc[t] = "idle" /\ outcome[t] # "none"
    /\ outcome' = [outcome EXCEPT ![t] = "none"]
    /\ UNCHANGED <<cacheVars, cred>>

AuthNext ==
    \/ \E t \in Callers :
         \/ \E c \in Credentials : RejectEarly(t, c) \/ ResolveKey(t, c)
         \/ Lookup(t) /\ UNCHANGED <<cred, outcome>>
         \/ Verify(t)
         \/ HandlerTakesOver(t)
    \/ Environment /\ UNCHANGED <<cred, outcome>>

AuthSpec == AuthInit /\ [][AuthNext]_authVars

-----------------------------------------------------------------------------

\* A request passes only with a token that deserves it: signed by the key its
\* own header names, with the expected issuer and audience, within its
\* validity when it is verified, and the key one that the provider
\* published at most Ttl plus one fetch before GetKey returned it.  The
\* provider may withdraw keys, fetches may fail and time may pass between
\* any two steps of the thread.
SoundAuthentication ==
    [][\A t \in Callers :
         outcome[t] = "none" /\ outcome'[t] = "ok" =>
            /\ cred[t].signer = cred[t].kid
            /\ cred[t].claimsOk
            /\ cred[t].nbf <= now
            /\ cred[t].exp = NoExp \/ now <= cred[t].exp
            /\ foundAt[t] - LastPublished(cred[t].signer)
                  <= Ttl + FetchTimeout]_authVars

=============================================================================
