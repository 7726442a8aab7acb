----------------------------- MODULE MCCommand -----------------------------
(* Instances of Command for TLC.                                           *)
EXTENDS Command

Plain ==
  [flaw |-> None, version |-> FALSE, listen |-> Unset, allowExternal |-> FALSE,
   probe |-> FALSE, targets |-> <<>>]

\* What is refused before anything is bound, and the one early success.
Refused ==
  {[Plain EXCEPT !.flaw = f, !.version = v] :
     f \in {"flags", "config", "handler"}, v \in BOOLEAN}
  \cup {[Plain EXCEPT !.listen = Malformed]}

\* Every host, with and without --allow-external.
Addressed ==
  {[Plain EXCEPT !.listen = a, !.allowExternal = e] :
     a \in [host : Hosts, port : Ports \ {DefaultPort}], e \in BOOLEAN}

\* A probe that meets every kind of target, itself among them.
Probing ==
  {[Plain EXCEPT !.probe = TRUE, !.targets = t] :
     t \in {<<"unset", "self">>, <<"self", "elsewhere", "unusable">>}}

MCInvocations == Refused \cup Addressed \cup Probing
=============================================================================
