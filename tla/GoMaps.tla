------------------------------- MODULE GoMaps -------------------------------
(***************************************************************************)
(* Go's map[K]V, which every store of the target is built on, as a         *)
(* function whose domain is the set of keys present.  The comma-ok form    *)
(* `v, ok := m[k]` is k \in DOMAIN m followed by m[k].                      *)
(***************************************************************************)

EmptyMap == [k \in {} |-> k]

\* m[k] = v
MapPut(m, k, v) ==
  [x \in DOMAIN m \cup {k} |-> IF x = k THEN v ELSE m[x]]

\* delete(m, k): a no-op when k is absent.
MapDelete(m, k) == [x \in DOMAIN m \ {k} |-> m[x]]

\* for k, v := range n { m[k] = v }
MapCopy(m, n) ==
  [x \in DOMAIN m \cup DOMAIN n |-> IF x \in DOMAIN n THEN n[x] ELSE m[x]]

\* m is a map from some of the keys K to values in V.
IsMap(m, K, V) ==
  /\ m = [x \in DOMAIN m |-> m[x]]
  /\ DOMAIN m \subseteq K
  /\ \A x \in DOMAIN m : m[x] \in V
=============================================================================
