--------------------------- MODULE TargetContract ---------------------------
(* The target, with opaque access tokens, keeps the contract of each login. *)
EXTENDS TargetSafety

FamiliesOf(l) == {f \in DOMAIN families : req[f].token = l}

PhaseOf(l) ==
  IF l \notin DOMAIN codes THEN "new"
  ELSE IF ~codes[l].consumed THEN "offered"
  ELSE IF FamiliesOf(l) = {} THEN "spent"
  ELSE IF \E f \in FamiliesOf(l) : families[f].revoked THEN "ending"
  ELSE "active"

UsableOf(l) ==
  {r \in Requests : /\ Granted(r)
                    /\ FamilyOf(r) \in FamiliesOf(l)
                    /\ resp[r].at \in DOMAIN sessions}

Contract == INSTANCE LoginContract
              WITH Grants <- Requests,
                   phase <- [l \in Logins |-> PhaseOf(l)],
                   usable <- [l \in Logins |-> UsableOf(l)]

\* Every behaviour of the stores and handlers is one the contract allows.
KeepsContract == Contract!ContractSpec

\* The same with progress: the access tokens of an ended login all go.
KeepsFairContract == Contract!ContractFairSpec
=============================================================================
