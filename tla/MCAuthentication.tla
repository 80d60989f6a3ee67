-------------------------- MODULE MCAuthentication --------------------------
(* Authentication for TLC: one credential of each kind. *)
EXTENDS Authentication

CONSTANTS k1, k2

Token(k, s, ok, e) ==
    [header |-> "jwt", kid |-> k, signer |-> s, claimsOk |-> ok,
     nbf |-> 0, exp |-> e]

MCCredentials ==
    { Token(k1, k1, TRUE, NoExp),       \* good, no exp claim
      Token(k1, k1, TRUE, 2),           \* good until time 2
      Token(k1, k2, TRUE, NoExp),       \* signed by another key
      Token(k2, k2, FALSE, NoExp),      \* wrong issuer or audience
      Token(NoKid, k1, TRUE, NoExp),    \* no kid in its header
      [Token(k1, k1, TRUE, 4) EXCEPT !.nbf = 3] }   \* good from 3 to 4
    \cup
    { [Token(k1, k1, TRUE, NoExp) EXCEPT !.header = h] :
        h \in {"missing", "nonBearer", "malformed"} }

=============================================================================
