----------------------------- MODULE MCMinting -----------------------------
(* Instances of Minting for TLC.                                           *)
EXTENDS Minting

CONSTANTS web, spa, alice, bob, k1, k2, issuer, openid, n1

\* The claims of a user or of a cookie, and no other.
Having(claims) == [c \in ClaimNames |-> IF c \in DOMAIN claims THEN claims[c] ELSE None]

\* One that no user has, one that names a user and is not valid before 6.
MCInjected == {Having([tid |-> Text]), Having([sub |-> Text, nonce |-> Text, nbf |-> 3])}

Base ==
  [name |-> "one", issuer |-> issuer, needs |-> None, clients |-> {web},
   users |-> {alice}, anyUser |-> FALSE, custom |-> Having(EmptyMap), acceptInjected |-> FALSE,
   key |-> None, tamper |-> {}, format |-> "jwt", idTTL |-> 4, accessTTL |-> 3,
   nbfSkew |-> 0]

\* Each value of tamper:, alone and all together, in both formats.
Tampering ==
  {<<[Base EXCEPT !.tamper = x, !.format = f,
                  !.custom = Having([sub |-> NotJSON, aud |-> Text])]>> :
     x \in {{y} : y \in Tamperable} \cup {{}, Tamperable}, f \in {"jwt", "opaque"}}

\* Claims of reserved names, with and without the reserved ones beside them, and
\* values that are numbers or have no JSON.
Clashing ==
  {<<[Base EXCEPT !.custom = c, !.nbfSkew = s, !.tamper = x]>> :
     c \in {Having([nonce |-> Text]), Having([nonce |-> NotJSON]), Having([nbf |-> Text]),
            Having([nbf |-> NotJSON]), Having([nonce |-> Text, nbf |-> 3, aud |-> Text]),
            Having([tid |-> NotJSON])},
     s \in {0, 3}, x \in {{}, {"nonce"}}}

\* Lifetimes that are negative, fractions of a second, and a skewed nbf.
Timing ==
  {<<[Base EXCEPT !.idTTL = i, !.accessTTL = 4 - i, !.nbfSkew = s]>> :
     i \in {-3, 0, 1}, s \in {-3, 0, 3}}

\* Two targets whose keys are generated, supplied, shared or unusable.
Keyed ==
  {<<[Base EXCEPT !.key = a, !.tamper = x],
     [Base EXCEPT !.name = "two", !.key = b, !.clients = {spa}]>> :
     a, b \in {None, k1, k2, BadKey}, x \in {{}, {"signature"}}}

\* An issuer that needs a claim, which a user nobody configured lacks, and which
\* an injected identity may bring.
Tenants ==
  {<<[Base EXCEPT !.needs = "tid", !.custom = Having([tid |-> Text]),
                  !.anyUser = y, !.acceptInjected = z]>> : y, z \in BOOLEAN}

\* Injected identities beside configured ones.
Injecting ==
  {<<[Base EXCEPT !.custom = Having([nbf |-> Text]), !.acceptInjected = TRUE,
                  !.nbfSkew = s, !.tamper = x]>> : s \in {0, 3}, x \in {{}, {"nonce"}}}

MCConfigs == Tampering \cup Clashing \cup Timing \cup Keyed \cup Tenants \cup Injecting
=============================================================================
