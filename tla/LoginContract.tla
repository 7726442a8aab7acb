---------------------------- MODULE LoginContract ----------------------------
(***************************************************************************)
(* What one login promises to the application under test, with no stores,  *)
(* tokens or locks: its code is good for one exchange, every access token  *)
(* delivered along its chain works until it is withdrawn or the login      *)
(* ends, and a login that ends takes all of them with it, one after the    *)
(* other, and never delivers a working one again.                          *)
(***************************************************************************)
CONSTANTS
  Logins,   \* the logins
  Grants    \* the requests access tokens may be delivered to

VARIABLES
  phase,    \* where each login is
  usable    \* the grants of a login whose access token works

Phases == {"new", "offered", "spent", "active", "ending"}

contractVars == <<phase, usable>>

ContractTypeOK ==
  /\ phase \in [Logins -> Phases]
  /\ usable \in [Logins -> SUBSET Grants]

ContractInit ==
  /\ phase = [l \in Logins |-> "new"]
  /\ usable = [l \in Logins |-> {}]

Move(l, from, to) ==
  /\ phase[l] = from
  /\ phase' = [phase EXCEPT ![l] = to]
  /\ UNCHANGED usable

\* /authorize hands out the code; an exchange spends it, once; the chain of
\* tokens begins; reuse or revocation ends it.
Offer(l) == Move(l, "new", "offered")
Spend(l) == Move(l, "offered", "spent")
Begin(l) == Move(l, "spent", "active")
End(l) == Move(l, "active", "ending")

\* An access token that works reaches the client.
Deliver(l, g) ==
  /\ phase[l] = "active"
  /\ \A m \in Logins : g \notin usable[m]
  /\ usable' = [usable EXCEPT ![l] = @ \cup {g}]
  /\ UNCHANGED phase

\* An access token stops working, on its own or because the login is ending.
Withdraw(l, g) ==
  /\ g \in usable[l]
  /\ usable' = [usable EXCEPT ![l] = @ \ {g}]
  /\ UNCHANGED phase

ContractNext ==
  \E l \in Logins :
    \/ Offer(l) \/ Spend(l) \/ Begin(l) \/ End(l)
    \/ \E g \in Grants : Deliver(l, g) \/ Withdraw(l, g)

ContractSpec == ContractInit /\ [][ContractNext]_contractVars

\* A login that is ending loses every token it has left.
Expire(l) == phase[l] = "ending" /\ \E g \in Grants : Withdraw(l, g)
ContractFairSpec ==
  ContractSpec /\ \A l \in Logins : WF_contractVars(Expire(l))
==============================================================================
