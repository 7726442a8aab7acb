---------------------------- MODULE MCRequestLog ----------------------------
(* Instances of RequestLog for TLC.                                        *)
EXTENDS RequestLog, TLC

MCRetentions == {-1, 1, 2}

\* Bound: one request's handler sets an informational status, one attaches a
\* field and one reads the clock, the same or others.
OneOfEach ==
  \A q, r \in Requests : q # r =>
    /\ ~(Informational(status[q]) /\ Informational(status[r]))
    /\ minted[q] = None \/ minted[r] = None
    /\ \A f, g \in FieldNames : fields[q][f] = None \/ fields[r][g] = None

Symmetry == Permutations(Requests)
=============================================================================
