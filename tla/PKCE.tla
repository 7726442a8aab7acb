-------------------------------- MODULE PKCE --------------------------------
(***************************************************************************)
(* pkce.go: the check of a code_verifier presented at /token against the   *)
(* code_challenge and code_challenge_method recorded at /authorize.        *)
(* None stands for the empty string, which is how the code represents an   *)
(* absent parameter.                                                       *)
(***************************************************************************)
CONSTANTS
  None,       \* an absent parameter, Go's ""
  Verifiers,  \* the code_verifier values clients may present
  Methods     \* the code_challenge_method values clients may send

\* SHA-256 followed by base64url: no two verifiers share a challenge, and no
\* challenge is itself one of the verifiers.
S256(verifier) == [s256 |-> verifier]

\* A challenge is the hash of a verifier or, from a client that uses the
\* plain method, a verifier as it stands.
Challenges == {S256(v) : v \in Verifiers} \cup Verifiers

MaybeVerifier == Verifiers \cup {None}
MaybeChallenge == Challenges \cup {None}
MaybeMethod == Methods \cup {None}

\* checkPKCE returns nil: neither half was sent, or both were, the method is
\* S256 and the verifier hashes to the challenge.
CheckPKCE(challenge, method, verifier) ==
  \/ challenge = None /\ verifier = None
  \/ /\ challenge # None
     /\ verifier # None
     /\ method = "S256"
     /\ S256(verifier) = challenge
=============================================================================
