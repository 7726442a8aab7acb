------------------------------ MODULE MCTarget ------------------------------
(* Instances of Target for TLC.                                            *)
EXTENDS TargetContract, TLC

CONSTANTS
  NoTenant,  \* injected claims without the claim the issuer template names
  Issuer     \* the issuer every other login resolves to

MCRegistered == [c \in Clients |-> RedirectURIs]

\* An issuer template with one ${claims.x}.
MCResolveIssuer(subject, client, claims) ==
  IF claims \in {NoTenant, EmptyClaims} THEN NoIssuer ELSE Issuer

\* Every client registers every redirect URI.
Symmetry ==
  Permutations(Requests) \cup Permutations(Clients) \cup Permutations(Logins)
    \cup Permutations(RedirectURIs)
=============================================================================
