-------------------------- MODULE DiscoveryProofs --------------------------
(***************************************************************************)
(* Theorems about the routes and discovery documents of every              *)
(* configuration: any number of targets, any mounts and any issuers.       *)
(***************************************************************************)
EXTENDS Discovery, SequenceTheorems, FiniteSetTheorems, WellFoundedInduction, TLAPS

-----------------------------------------------------------------------------
(* Paths.                                                                  *)

\* A prefix, segment by segment.
LEMMA PrefixIs ==
  ASSUME NEW S, NEW s \in Seq(S), NEW t \in Seq(S)
  PROVE  IsPrefix(s, t) <=> Len(s) <= Len(t) /\ \A k \in 1 .. Len(s) : s[k] = t[k]
<1>1. CASE Len(s) <= Len(t)
  <2>1. SubSeq(s, 1, Len(s)) = s
    BY SubSeqFull
  <2>2. /\ SubSeq(t, 1, Len(s)) \in Seq(S) /\ Len(SubSeq(t, 1, Len(s))) = Len(s)
        /\ \A k \in 1 .. Len(s) : SubSeq(t, 1, Len(s))[k] = t[k]
    BY <1>1
  <2> QED
    BY <1>1, <2>1, <2>2, SeqEqual DEF IsPrefix
<1>2. CASE ~(Len(s) <= Len(t))
  BY <1>2 DEF IsPrefix
<1> QED
  BY <1>1, <1>2

\* Two prefixes of one sequence are prefixes of one another.
LEMMA PrefixesCompare ==
  ASSUME NEW S, NEW s \in Seq(S), NEW t \in Seq(S), NEW p \in Seq(S),
         IsPrefix(s, p), IsPrefix(t, p)
  PROVE  IsPrefix(s, t) \/ IsPrefix(t, s)
<1>1. /\ Len(s) \in Nat /\ Len(t) \in Nat
      /\ \A k \in 1 .. Len(s) : s[k] = p[k]
      /\ \A k \in 1 .. Len(t) : t[k] = p[k]
  BY PrefixIs
<1>2. CASE Len(s) <= Len(t)
  BY <1>1, <1>2, PrefixIs
<1>3. CASE Len(t) <= Len(s)
  BY <1>1, <1>3, PrefixIs
<1> QED
  BY <1>1, <1>2, <1>3

\* What is left of a sequence after a prefix of it.
LEMMA RestIs ==
  ASSUME NEW S, NEW s \in Seq(S), NEW t \in Seq(S), IsPrefix(s, t)
  PROVE  /\ SubSeq(t, Len(s) + 1, Len(t)) \in Seq(S)
         /\ Len(SubSeq(t, Len(s) + 1, Len(t))) = Len(t) - Len(s)
         /\ s \o SubSeq(t, Len(s) + 1, Len(t)) = t
<1>1. Len(s) \in Nat /\ Len(t) \in Nat /\ Len(s) <= Len(t) /\ \A k \in 1 .. Len(s) : s[k] = t[k]
  BY PrefixIs
<1>2. PICK r : r = SubSeq(t, Len(s) + 1, Len(t))
  OBVIOUS
<1>3. /\ r \in Seq(S) /\ Len(r) = Len(t) - Len(s)
      /\ \A k \in 1 .. Len(t) - Len(s) : r[k] = t[Len(s) + k]
  BY <1>1, <1>2
<1>4. s \o r \in Seq(S) /\ Len(s \o r) = Len(t)
  BY <1>1, <1>3
<1>5. \A k \in 1 .. Len(t) : (s \o r)[k] = t[k]
  <2> SUFFICES ASSUME NEW k \in 1 .. Len(t) PROVE (s \o r)[k] = t[k]
    OBVIOUS
  <2>0. /\ k <= Len(s) => (s \o r)[k] = s[k]
        /\ k > Len(s) => (s \o r)[k] = r[k - Len(s)]
    BY <1>1, <1>3, ConcatProperties
  <2>1. CASE k <= Len(s)
    <3>1. k \in 1 .. Len(s)
      BY <1>1, <2>1
    <3> QED
      BY <1>1, <2>0, <2>1, <3>1
  <2>2. CASE k > Len(s)
    <3>1. k - Len(s) \in 1 .. Len(t) - Len(s)
      BY <1>1, <2>2
    <3>2. r[k - Len(s)] = t[Len(s) + (k - Len(s))]
      BY <1>3, <3>1
    <3>3. (s \o r)[k] = r[k - Len(s)]
      BY <1>1, <2>0, <2>2
    <3> QED
      BY <1>1, <3>2, <3>3
  <2>3. k <= Len(s) \/ k > Len(s)
    BY <1>1
  <2> QED
    BY <2>1, <2>2, <2>3
<1>6. s \o r = t
  BY <1>4, <1>5, SeqEqual
<1> QED
  BY <1>2, <1>3, <1>6

\* A sequence is a prefix of what extends it, and the extension is the rest.
LEMMA ExtensionIs ==
  ASSUME NEW S, NEW s \in Seq(S), NEW r \in Seq(S)
  PROVE  /\ s \o r \in Seq(S) /\ Len(s \o r) = Len(s) + Len(r)
         /\ IsPrefix(s, s \o r)
         /\ SubSeq(s \o r, Len(s) + 1, Len(s \o r)) = r
<1>1. Len(s) \in Nat /\ Len(r) \in Nat
  OBVIOUS
<1>2. /\ s \o r \in Seq(S) /\ Len(s \o r) = Len(s) + Len(r)
      /\ \A k \in 1 .. Len(s) + Len(r) :
           (s \o r)[k] = IF k <= Len(s) THEN s[k] ELSE r[k - Len(s)]
  BY ConcatProperties
<1>3. IsPrefix(s, s \o r)
  <2>1. \A k \in 1 .. Len(s) : s[k] = (s \o r)[k]
    BY <1>1, <1>2
  <2>2. Len(s) <= Len(s \o r)
    BY <1>1, <1>2
  <2> QED
    BY <1>2, <2>1, <2>2, PrefixIs, Zenon
<1>4. s \o SubSeq(s \o r, Len(s) + 1, Len(s \o r)) = s \o r
      /\ SubSeq(s \o r, Len(s) + 1, Len(s \o r)) \in Seq(S)
  BY <1>2, <1>3, RestIs
<1>5. SubSeq(s \o r, Len(s) + 1, Len(s \o r)) = r
  BY <1>4, ConcatSimplifications
<1> QED
  BY <1>2, <1>3, <1>5

\* The segments of a prefix and of the rest are the sequence's.
LEMMA RestRange ==
  ASSUME NEW S, NEW s \in Seq(S), NEW t \in Seq(S), IsPrefix(s, t)
  PROVE  Range(SubSeq(t, Len(s) + 1, Len(t))) \subseteq Range(t) /\ Range(s) \subseteq Range(t)
<1>1. PICK r : r = SubSeq(t, Len(s) + 1, Len(t))
  OBVIOUS
<1>2. r \in Seq(S) /\ s \o r = t
  BY <1>1, RestIs
<1>3. Range(t) = Range(s) \cup Range(r)
  BY <1>2, RangeConcatenation
<1> QED
  BY <1>1, <1>3

\* strings.TrimSuffix(p, "/") is a prefix of p and lacks at most the last slash.
LEMMA TrimSlashIs ==
  ASSUME NEW p \in Path
  PROVE  /\ TrimSlash(p) \in Path /\ IsPrefix(TrimSlash(p), p)
         /\ TrimSlash(p) = p \/ Len(p) = Len(TrimSlash(p)) + 1
<1>1. CASE p # <<>> /\ Last(p) = ""
  <2>1. TrimSlash(p) = SubSeq(p, 1, Len(p) - 1)
    BY <1>1 DEF TrimSlash, Front
  <2>2. Len(p) \in Nat \ {0}
    BY <1>1, EmptySeq DEF Path
  <2>n. PICK n \in Nat : n = Len(p) - 1
    BY <2>2
  <2>3. PICK t : t = SubSeq(p, 1, n)
    OBVIOUS
  <2>4. /\ t \in Seq(Segments) /\ Len(t) = n
        /\ \A k \in 1 .. n : t[k] = p[k]
    <3>1. \A k \in 1 .. n : p[k] \in Segments
      BY <2>2, <2>n, ElementOfSeq DEF Path
    <3> QED
      BY <2>2, <2>3, <2>n, <3>1, SubSeqProperties
  <2>5. IsPrefix(t, p)
    BY <2>2, <2>n, <2>4, PrefixIs DEF Path
  <2> QED
    BY <2>1, <2>2, <2>n, <2>3, <2>4, <2>5 DEF Path
<1>2. CASE ~(p # <<>> /\ Last(p) = "")
  <2>1. TrimSlash(p) = p
    BY <1>2 DEF TrimSlash
  <2> QED
    BY <2>1, PrefixIs DEF Path
<1> QED
  BY <1>1, <1>2

\* strings.TrimRight(p, "/") is a prefix: of the segments that are kept there is
\* a last one.
LEMMA TrimSlashesType ==
  ASSUME NEW p \in Path
  PROVE  TrimSlashes(p) \in Path
<1>1. Len(p) \in Nat /\ DOMAIN p = 1 .. Len(p) /\ \A k \in 1 .. Len(p) : p[k] \in Segments
  BY ElementOfSeq DEF Path
<1> DEFINE Kept == {n \in DOMAIN p : p[n] # ""}
           Latest == IF Kept = {} THEN 0 ELSE CHOOSE n \in Kept : \A m \in Kept : m <= n
<1>2. PICK kept : kept = Kept
  OBVIOUS
<1>4. TrimSlashes(p) = SubSeq(p, 1, Latest)
  BY DEF TrimSlashes
<1>5. Latest \in 0 .. Len(p)
  <2>1. CASE kept = {}
    <3>1. Latest = 0
      BY <1>2, <2>1, Zenon
    <3> HIDE DEF Latest
    <3> QED
      BY <1>1, <3>1
  <2>2. CASE kept # {}
    <3>1. kept \subseteq 1 .. Len(p)
      BY <1>1, <1>2
    <3>2. PICK before : before = {k \in Nat : Len(p) - k \in kept}
      OBVIOUS
    <3>3. before \subseteq Nat /\ before # {}
      <4>1. PICK n \in kept : TRUE
        BY <2>2
      <4>2. Len(p) - n \in Nat /\ Len(p) - (Len(p) - n) = n
        BY <1>1, <3>1
      <4> QED
        BY <3>2, <4>1, <4>2
    <3>4. PICK b \in before : \A c \in before : ~(<<c, b>> \in OpToRel(<, Nat))
      BY <3>3, WFMin, NatLessThanWellFounded, Zenon
    <3>5. \A c \in before : ~(c < b)
      BY <3>3, <3>4, Zenon DEF OpToRel
    <3>6. PICK n \in kept : n = Len(p) - b
      BY <3>2, <3>4
    <3>7. ASSUME NEW m \in kept PROVE m <= n
      <4>1. Len(p) - m \in before
        <5>1. Len(p) - m \in Nat /\ Len(p) - (Len(p) - m) = m
          BY <1>1, <3>1
        <5> QED
          BY <3>2, <5>1
      <4> QED
        BY <1>1, <3>1, <3>3, <3>5, <3>6, <4>1
    <3>8. Latest \in kept
      <4>1. \E x \in Kept : \A m \in Kept : m <= x
        BY <1>2, <3>6, <3>7, Zenon
      <4>2. (CHOOSE x \in Kept : \A m \in Kept : m <= x) \in Kept
        BY <4>1, Zenon
      <4> QED
        BY <1>2, <2>2, <4>2, Zenon
    <3> HIDE DEF Latest
    <3> QED
      BY <1>1, <3>1, <3>8
  <2> QED
    BY <2>1, <2>2
<1> HIDE DEF Latest
<1>6. \A k \in 1 .. Latest : p[k] \in Segments
  BY <1>1, <1>5
<1>7. SubSeq(p, 1, Latest) \in Seq(Segments)
  BY <1>5, <1>6, SubSeqProperties
<1> QED
  BY <1>4, <1>7 DEF Path

\* A sequence of one element.
LEMMA SingletonIs ==
  ASSUME NEW S, NEW e \in S
  PROVE  <<e>> \in Seq(S) /\ Len(<<e>>) = 1 /\ <<e>>[1] = e /\ <<e>> # <<>>
<1>1. <<e>> \in Seq(S)
  OBVIOUS
<1>2. Len(<<e>>) = 1
  OBVIOUS
<1>3. <<e>>[1] = e
  OBVIOUS
<1>4. <<e>> # <<>>
  OBVIOUS
<1> QED
  BY <1>1, <1>2, <1>3, <1>4, Zenon

\* The path "/".
LEMMA RootIs ==
  /\ <<"">> \in Path /\ Len(<<"">>) = 1
  /\ TrimSlash(<<"">>) = <<>> /\ <<"">> # <<>>
<1>1. "" \in Segments
  BY DiscoveryAssumption
<1>2. PICK root : root = <<"">>
  OBVIOUS
<1>3. root \in Seq(Segments) /\ Len(root) = 1 /\ root[1] = "" /\ root # <<>>
  BY <1>1, <1>2, SingletonIs, Zenon
<1>4. Len(root) - 1 = 0
  <2>1. Len(root) = 1
    BY <1>3, Zenon
  <2> QED
    BY <2>1
<1>5. SubSeq(root, 1, 0) = <<>>
  BY SubSeqEmpty
<1>6. TrimSlash(root) = <<>>
  BY <1>3, <1>4, <1>5, Zenon DEF TrimSlash, Front, Last
<1> QED
  BY <1>2, <1>3, <1>6, Zenon DEF Path

\* pathBelowMount is what follows the mount in the issuer's path.
LEMMA BelowIs ==
  ASSUME NEW m \in Path, NEW p \in Path
  PROVE  /\ PathBelowMount(m, p) = None <=> ~IsPrefix(TrimSlash(m), TrimSlash(p))
         /\ PathBelowMount(m, p) # None =>
              /\ PathBelowMount(m, p) \in Path
              /\ TrimSlash(m) \o PathBelowMount(m, p) = TrimSlash(p)
              /\ Range(PathBelowMount(m, p)) \subseteq Range(p)
<1>1. /\ TrimSlash(m) \in Seq(Segments) /\ TrimSlash(p) \in Seq(Segments)
      /\ p \in Seq(Segments) /\ IsPrefix(TrimSlash(p), p)
  BY TrimSlashIs DEF Path
<1>2. CASE IsPrefix(TrimSlash(m), TrimSlash(p))
  <2>1. PathBelowMount(m, p) = SubSeq(TrimSlash(p), Len(TrimSlash(m)) + 1, Len(TrimSlash(p)))
    BY <1>2 DEF PathBelowMount
  <2>2. PathBelowMount(m, p) \in Seq(Segments) /\ TrimSlash(m) \o PathBelowMount(m, p) = TrimSlash(p)
    BY <1>1, <1>2, <2>1, RestIs, Zenon
  <2>3. Range(PathBelowMount(m, p)) \subseteq Range(TrimSlash(p))
    BY <1>1, <1>2, <2>1, RestRange, Zenon
  <2>4. Range(TrimSlash(p)) \subseteq Range(p)
    BY <1>1, RestRange, Zenon
  <2>5. None \notin Path
    BY DiscoveryAssumption
  <2> QED
    BY <1>2, <2>2, <2>3, <2>4, <2>5 DEF Path
<1>3. CASE ~IsPrefix(TrimSlash(m), TrimSlash(p))
  BY <1>3 DEF PathBelowMount
<1> QED
  BY <1>2, <1>3

\* chi's Mount and the router below it split a path in two.
LEMMA MountSplits ==
  ASSUME NEW m \in Path, NEW r \in Path, r # <<>>
  PROVE  UnderMount(m, TrimSlash(m) \o r) /\ RoutePath(m, TrimSlash(m) \o r) = r
<1>1. TrimSlash(m) \in Seq(Segments) /\ r \in Seq(Segments)
  BY TrimSlashIs DEF Path
<1>2. Len(r) \in Nat \ {0} /\ Len(TrimSlash(m)) \in Nat
  BY <1>1, EmptySeq
<1>3. /\ Len(TrimSlash(m) \o r) = Len(TrimSlash(m)) + Len(r)
      /\ IsPrefix(TrimSlash(m), TrimSlash(m) \o r)
      /\ SubSeq(TrimSlash(m) \o r, Len(TrimSlash(m)) + 1, Len(TrimSlash(m) \o r)) = r
  BY <1>1, ExtensionIs, Zenon
<1>4. Len(TrimSlash(m) \o r) > Len(TrimSlash(m))
  BY <1>2, <1>3
<1> QED
  BY <1>3, <1>4 DEF UnderMount, RoutePath

LEMMA MountJoins ==
  ASSUME NEW m \in Path, NEW p \in Path, UnderMount(m, p), RoutePath(m, p) # <<"">>
  PROVE  p = TrimSlash(m) \o RoutePath(m, p)
<1>1. TrimSlash(m) \in Seq(Segments) /\ p \in Seq(Segments) /\ IsPrefix(TrimSlash(m), p)
  BY TrimSlashIs DEF Path, UnderMount
<1>2. RoutePath(m, p) = SubSeq(p, Len(TrimSlash(m)) + 1, Len(p))
  BY DEF RoutePath
<1> QED
  BY <1>1, <1>2, RestIs, Zenon

\* Two mounts that have a path in common collide.
LEMMA SharedPathsCollide ==
  ASSUME NEW m \in Path, NEW n \in Path, NEW p \in Path, UnderMount(m, p), UnderMount(n, p)
  PROVE  MountsCollide(m, n)
<1>1. /\ TrimSlash(m) \in Seq(Segments) /\ TrimSlash(n) \in Seq(Segments)
      /\ p \in Seq(Segments)
  BY TrimSlashIs DEF Path
<1>2. IsPrefix(TrimSlash(m), p) /\ IsPrefix(TrimSlash(n), p)
  BY DEF UnderMount
<1>3. IsPrefix(TrimSlash(m), TrimSlash(n)) \/ IsPrefix(TrimSlash(n), TrimSlash(m))
  BY <1>1, <1>2, PrefixesCompare, Zenon
<1>4. CASE m = <<"">> \/ n = <<"">>
  BY <1>4 DEF MountsCollide, NormalizeMount
<1>5. CASE m # <<"">> /\ n # <<"">>
  BY <1>3, <1>5 DEF MountsCollide, NormalizeMount
<1> QED
  BY <1>4, <1>5

\* A path with at least one segment more than the mount.
StrictlyBelow(m, p) == IsPrefix(TrimSlash(m), p) /\ Len(p) > Len(TrimSlash(m))

\* And two that collide share what is below one of them, where no mount ends in
\* two slashes: "//" is taken for the root, and chi serves only what is below it.
LEMMA CollidingMountsShare ==
  ASSUME NEW m \in Path, NEW n \in Path, MountsCollide(m, n),
         TrimSlash(TrimSlash(m)) = TrimSlash(m), TrimSlash(TrimSlash(n)) = TrimSlash(n)
  PROVE  \/ \A p \in Path : StrictlyBelow(m, p) => UnderMount(m, p) /\ UnderMount(n, p)
         \/ \A p \in Path : StrictlyBelow(n, p) => UnderMount(m, p) /\ UnderMount(n, p)
<1>1. TrimSlash(m) \in Seq(Segments) /\ TrimSlash(n) \in Seq(Segments)
  BY TrimSlashIs DEF Path
<1>2. TrimSlash(<<"">>) = <<>>
  BY RootIs
<1>3. TrimSlash(m) # <<"">> /\ TrimSlash(n) # <<"">>
  BY <1>2, RootIs
<1>4. IsPrefix(TrimSlash(m), TrimSlash(n)) \/ IsPrefix(TrimSlash(n), TrimSlash(m))
  <2>1. \A t \in Seq(Segments) : IsPrefix(<<>>, t) /\ IsPrefix(t, t)
    <3>1. ASSUME NEW t \in Seq(Segments) PROVE IsPrefix(<<>>, t)
      <4>1. <<>> \in Seq(Segments) /\ Len(<<>>) = 0 /\ Len(t) \in Nat
        BY EmptySeq
      <4>2. Len(<<>>) <= Len(t)
        BY <4>1
      <4>3. \A k \in 1 .. Len(<<>>) : <<>>[k] = t[k]
        BY <4>1
      <4> QED
        BY <4>1, <4>2, <4>3, PrefixIs, Zenon
    <3>2. ASSUME NEW t \in Seq(Segments) PROVE IsPrefix(t, t)
      BY PrefixIs
    <3> QED
      BY <3>1, <3>2
  <2>2. CASE m = <<"">> \/ n = <<"">>
    BY <1>1, <1>2, <2>1, <2>2
  <2>3. CASE m # <<"">> /\ n # <<"">>
    BY <1>1, <1>3, <2>1, <2>3 DEF MountsCollide, NormalizeMount
  <2> QED
    BY <2>2, <2>3
<1>5. ASSUME NEW s \in Seq(Segments), NEW t \in Seq(Segments), IsPrefix(s, t),
             NEW p \in Seq(Segments), IsPrefix(t, p), Len(p) > Len(t)
      PROVE  IsPrefix(s, p) /\ Len(p) > Len(s)
  <2>1. Len(s) <= Len(t) /\ \A k \in 1 .. Len(s) : s[k] = t[k]
    BY <1>5, PrefixIs
  <2>2. \A k \in 1 .. Len(t) : t[k] = p[k]
    BY <1>5, PrefixIs
  <2>3. Len(s) \in Nat /\ Len(t) \in Nat /\ Len(p) \in Nat
    OBVIOUS
  <2> QED
    BY <1>5, <2>1, <2>2, <2>3, PrefixIs
<1>6. CASE IsPrefix(TrimSlash(m), TrimSlash(n))
  BY <1>1, <1>5, <1>6 DEF UnderMount, StrictlyBelow, Path
<1>7. CASE IsPrefix(TrimSlash(n), TrimSlash(m))
  BY <1>1, <1>5, <1>7 DEF UnderMount, StrictlyBelow, Path
<1> QED
  BY <1>4, <1>6, <1>7

-----------------------------------------------------------------------------
(* The inductive invariant.                                                *)

\* Where the requests for an issuer's document are routed, below the mount.
RouteOf(t, issuer) == PathBelowMount(t.mount, issuer.path) \o WellKnown

\* A route is the one of the issuer it serves, a login's.
RouteOK(t, r) ==
  /\ \E l \in Logins(t) : t.issuers[l] = r.issuer
  /\ PathBelowMount(t.mount, r.issuer.path) # None
  /\ r.route = RouteOf(t, r.issuer)
  /\ Pattern \notin Range(r.route)

RoutesOK ==
  \A n \in DOMAIN config :
    /\ \A k \in DOMAIN routes[n] : RouteOK(config[n], routes[n][k])
    /\ \A j, k \in DOMAIN routes[n] : routes[n][j].route = routes[n][k].route => j = k

Disjoint ==
  pc \in {"build", "enumerate", "serving"} =>
    \A m, n \in DOMAIN config : m # n => ~MountsCollide(config[m].mount, config[n].mount)

Routed(n, issuer) == \E k \in DOMAIN routes[n] : routes[n][k].issuer = issuer

\* The logins that enumeration comes to before the cursor.
Before(t, u, c, end) == (u - 1) * Len(t.clients) + (c - 1) < end

Covered(n, end) ==
  \A u \in DOMAIN config[n].users, c \in DOMAIN config[n].clients :
    Before(config[n], u, c, end) =>
      Routed(n, config[n].issuers[config[n].users[u], config[n].clients[c]])

Rendered(t) == \A l \in Logins(t) : t.issuers[l] # None

\* What holds of a target once it is built.
Built(n) ==
  /\ Rendered(config[n])
  /\ config[n].discovery = "per_issuer" =>
       \A l \in Logins(config[n]) : Routed(n, config[n].issuers[l])

Enumerating ==
  /\ building \in DOMAIN config /\ Rendered(Target)
  /\ Target.discovery = "per_issuer"
  /\ cursor <= Pairs /\ Covered(building, cursor)

\* Why authside.New returned an error, in the terms of the code.
Cause ==
  \/ /\ reason = "mounts"
     /\ \E m, n \in DOMAIN config : m # n /\ MountsCollide(config[m].mount, config[n].mount)
  \/ /\ building \in DOMAIN config
     /\ \/ reason \in {"syntax", "key"} /\ reason \in Target.broken
        \/ reason = "template" /\ \E l \in Logins(Target) : Target.issuers[l] = None
        \/ /\ reason = "url" /\ Target.discovery = "per_issuer"
           /\ \E l \in Logins(Target) : Target.issuers[l] = NotAURL
        \/ /\ reason = "outside" /\ Target.discovery = "per_issuer"
           /\ \E l \in Logins(Target) :
                /\ Target.issuers[l] \in URL
                /\ PathBelowMount(Target.mount, Target.issuers[l].path) = None
        \/ /\ reason = "pattern" /\ Target.discovery = "per_issuer"
           /\ \E l \in Logins(Target) :
                /\ Target.issuers[l] \in URL
                /\ PathBelowMount(Target.mount, Target.issuers[l].path) # None
                /\ Pattern \in Range(PathBelowMount(Target.mount, Target.issuers[l].path))
        \/ /\ reason = "collision" /\ Target.discovery = "per_issuer"
           /\ \E l \in Logins(Target) : \E k \in DOMAIN routes[building] :
                /\ Target.issuers[l] \in URL
                /\ PathBelowMount(Target.mount, Target.issuers[l].path) # None
                /\ routes[building][k].route = RouteOf(Target, Target.issuers[l])
                /\ routes[building][k].issuer # Target.issuers[l]
        \/ reason = "empty" /\ Target.discovery = "per_issuer" /\ Logins(Target) = {}

Answered ==
  answer # None =>
    /\ pc = "serving"
    /\ answer.doc # None => \E req \in Requests(answer.asked) : answer.doc \in Documents(req)

IInv ==
  /\ TypeOK
  /\ Disjoint
  /\ RoutesOK
  /\ pc \in {"build", "enumerate", "serving"} => \A n \in DOMAIN config : n < building => Built(n)
  /\ pc = "validate" => building = 1
  /\ pc = "enumerate" => Enumerating
  /\ pc = "serving" => building = Len(config) + 1
  /\ pc = "refused" => Cause
  /\ Answered

-----------------------------------------------------------------------------
(* Types.                                                                  *)

\* A target's configuration, field by field.
LEMMA TargetType ==
  ASSUME NEW c \in Configs, NEW n \in DOMAIN c
  PROVE  /\ Len(c) \in Nat /\ DOMAIN c = 1 .. Len(c) /\ n \in 1 .. Len(c)
         /\ c[n].mount \in Path /\ c[n].mount # <<>>
         /\ c[n].users \in Seq(Subjects) /\ c[n].clients \in Seq(Clients)
         /\ Len(c[n].clients) \in Nat \ {0} /\ Len(c[n].users) \in Nat
         /\ c[n].discovery \in {"shared", "per_issuer", "off"}
         /\ \A l \in Subjects \X Clients : c[n].issuers[l] \in URL \cup {None, NotAURL}
         /\ \A which \in {"browser", "internal"} : c[n].advertise[which] \in URL \cup {None}
<1>1. c \in Seq(TargetConfig) /\ c[n].mount # <<>> /\ c[n].clients # <<>>
  BY DiscoveryAssumption
<1>2. Len(c) \in Nat /\ DOMAIN c = 1 .. Len(c)
  BY <1>1, LenProperties
<1>3. PICK t \in TargetConfig : t = c[n]
  BY <1>1, <1>2, ElementOfSeq
<1>4. /\ t.mount \in Path
      /\ t.users \in Seq(Subjects) /\ t.clients \in Seq(Clients)
      /\ t.discovery \in {"shared", "per_issuer", "off"}
      /\ t.issuers \in [Subjects \X Clients -> URL \cup {None, NotAURL}]
      /\ t.advertise \in [{"browser", "internal"} -> URL \cup {None}]
  BY <1>3 DEF TargetConfig
<1>5. Len(t.clients) \in Nat \ {0} /\ Len(t.users) \in Nat
  BY <1>1, <1>3, <1>4, EmptySeq
<1> QED
  BY <1>1, <1>2, <1>3, <1>4, <1>5

\* A login is a listed user with a listed client.
LEMMA LoginsType ==
  ASSUME NEW c \in Configs, NEW n \in DOMAIN c
  PROVE  /\ \A l \in Logins(c[n]) :
              /\ l \in Subjects \X Clients
              /\ c[n].issuers[l] \in URL \cup {None, NotAURL}
         /\ \A u \in DOMAIN c[n].users, d \in DOMAIN c[n].clients :
              <<c[n].users[u], c[n].clients[d]>> \in Logins(c[n])
         /\ \A l \in Logins(c[n]) : \E u \in DOMAIN c[n].users, d \in DOMAIN c[n].clients :
              l = <<c[n].users[u], c[n].clients[d]>>
<1>1. c[n].users \in Seq(Subjects) /\ c[n].clients \in Seq(Clients)
  BY TargetType
<1>2. Range(c[n].users) \subseteq Subjects /\ Range(c[n].clients) \subseteq Clients
  BY <1>1, RangeOfSeq
<1>3. ASSUME NEW l \in Logins(c[n])
      PROVE  l \in Subjects \X Clients /\ c[n].issuers[l] \in URL \cup {None, NotAURL}
  <2>1. l \in Subjects \X Clients
    BY <1>2, <1>3 DEF Logins
  <2> QED
    BY <2>1, TargetType
<1>4. ASSUME NEW u \in DOMAIN c[n].users, NEW d \in DOMAIN c[n].clients
      PROVE  <<c[n].users[u], c[n].clients[d]>> \in Logins(c[n])
  BY <1>4 DEF Logins, Range
<1>5. ASSUME NEW l \in Logins(c[n])
      PROVE  \E u \in DOMAIN c[n].users, d \in DOMAIN c[n].clients :
               l = <<c[n].users[u], c[n].clients[d]>>
  BY <1>5 DEF Logins, Range
<1> QED
  BY <1>3, <1>4, <1>5

\* The path of a discovery document below its issuer.
LEMMA WellKnownIs == WellKnown \in Path /\ Len(WellKnown) = 2 /\ Pattern \notin Range(WellKnown)
<1>1. Range(WellKnown) \subseteq Segments /\ Pattern \notin Range(WellKnown)
  BY DiscoveryAssumption
<1>2. PICK S : S = {".well-known", "openid-configuration"}
  OBVIOUS
<1>3. WellKnown \in Seq(S) /\ Len(WellKnown) = 2
  BY <1>2 DEF WellKnown
<1>4. WellKnown \in Seq(Range(WellKnown))
  BY <1>3, SeqOfRange
<1>5. WellKnown \in Seq(Segments)
  BY <1>1, <1>4, SeqMonotonic
<1> QED
  BY <1>1, <1>3, <1>5 DEF Path

\* A URL, and the one its discovery document is fetched from.
LEMMA URLType ==
  ASSUME NEW u \in URL
  PROVE  /\ u.path \in Path /\ u.origin \in Origin
         /\ u.origin.scheme \in {"http", "https"} /\ u.origin.host \in Hosts
         /\ DiscoveryURL(u) \in URL /\ DiscoveryURL(u).origin = u.origin
         /\ DiscoveryURL(u).path = TrimSlash(u.path) \o WellKnown
<1>1. u.path \in Path /\ u.origin \in Origin /\ u = [origin |-> u.origin, path |-> u.path]
  BY DEF URL
<1>2. u.origin.scheme \in {"http", "https"} /\ u.origin.host \in Hosts
  BY <1>1 DEF Origin
<1>3. TrimSlash(u.path) \o WellKnown \in Path
  BY <1>1, TrimSlashIs, WellKnownIs, ExtensionIs DEF Path
<1>4. /\ DiscoveryURL(u).origin = u.origin
      /\ DiscoveryURL(u).path = TrimSlash(u.path) \o WellKnown
      /\ DiscoveryURL(u) = [origin |-> u.origin, path |-> TrimSlash(u.path) \o WellKnown]
  BY <1>1 DEF DiscoveryURL
<1> QED
  BY <1>1, <1>2, <1>3, <1>4 DEF URL

-----------------------------------------------------------------------------
(* Steps.                                                                  *)

LEMMA InitIInv == Init => IInv
<1> SUFFICES ASSUME Init PROVE IInv
  OBVIOUS
<1>1. config \in Configs /\ pc = "validate" /\ reason = None /\ building = 1 /\ cursor = 0
      /\ answer = None /\ routes = [n \in DOMAIN config |-> <<>>]
  BY DEF Init
<1>2. 1 \in 1 .. Len(config) + 1
  <2>1. config # <<>> /\ config \in Seq(TargetConfig)
    BY <1>1, DiscoveryAssumption
  <2>2. Len(config) \in Nat
    BY <2>1, LenProperties
  <2> QED
    BY <2>2
<1>3. routes \in [DOMAIN config -> Seq([issuer : URL, route : Path])]
  BY <1>1, EmptySeq
<1>4. TypeOK
  BY <1>1, <1>2, <1>3 DEF TypeOK
<1>5. RoutesOK
  <2>1. \A n \in DOMAIN config : routes[n] = <<>> /\ DOMAIN routes[n] = {}
    BY <1>1
  <2> QED
    BY <2>1, Zenon DEF RoutesOK
<1> QED
  BY <1>1, <1>4, <1>5 DEF IInv, Disjoint, Answered

LEMMA ValidateStep == IInv /\ Validate => IInv'
<1> SUFFICES ASSUME IInv, Validate PROVE IInv'
  OBVIOUS
<1>1. /\ pc = "validate" /\ config' = config /\ building' = building /\ cursor' = cursor
      /\ routes' = routes /\ answer' = answer /\ answer = None /\ building = 1
  BY DEF Validate, IInv, Answered
<1>2. RoutesOK' /\ (answer # None)' = FALSE
  BY <1>1 DEF IInv, RoutesOK
<1>3. CASE \E m, n \in DOMAIN config : m # n /\ MountsCollide(config[m].mount, config[n].mount)
  <2>1. pc' = "refused" /\ reason' = "mounts"
    BY <1>3 DEF Validate, Refuse
  <2>2. TypeOK'
    BY <1>1, <2>1 DEF IInv, TypeOK
  <2>3. Cause'
    BY <1>1, <1>3, <2>1 DEF Cause
  <2> QED
    BY <1>1, <1>2, <2>1, <2>2, <2>3 DEF IInv, Disjoint, Answered
<1>4. CASE ~\E m, n \in DOMAIN config : m # n /\ MountsCollide(config[m].mount, config[n].mount)
  <2>1. pc' = "build" /\ reason' = reason
    BY <1>4 DEF Validate
  <2>2. TypeOK'
    BY <1>1, <2>1 DEF IInv, TypeOK
  <2>3. Disjoint'
    BY <1>1, <1>4 DEF Disjoint
  <2>4. \A n \in DOMAIN config : ~(n < building)
    <3>1. DOMAIN config = 1 .. Len(config)
      BY DiscoveryAssumption, LenProperties DEF IInv, TypeOK
    <3> QED
      BY <1>1, <3>1
  <2> QED
    BY <1>1, <1>2, <2>1, <2>2, <2>3, <2>4 DEF IInv, Answered
<1> QED
  BY <1>3, <1>4

\* Steps that leave the configuration and the routes alone.
LEMMA Kept ==
  ASSUME config' = config, routes' = routes
  PROVE  /\ RoutesOK' <=> RoutesOK
         /\ \A n : Built(n)' <=> Built(n)
         /\ \A n, end : Covered(n, end)' <=> Covered(n, end)
BY DEF RoutesOK, Built, Routed, Covered

LEMMA PairsType ==
  ASSUME config \in Configs, building \in DOMAIN config
  PROVE  Pairs \in Nat /\ Len(Target.clients) \in Nat \ {0} /\ Len(Target.users) \in Nat
<1>1. Len(Target.clients) \in Nat \ {0} /\ Len(Target.users) \in Nat
  BY TargetType DEF Target
<1>2. \A x, y \in Nat : x * y \in Nat
  OBVIOUS
<1> QED
  BY <1>1, <1>2 DEF Pairs

LEMMA BuildStep == IInv /\ Build => IInv'
<1> SUFFICES ASSUME IInv, Build PROVE IInv'
  OBVIOUS
<1>1. /\ pc = "build" /\ building <= Len(config) /\ config' = config /\ cursor' = 0
      /\ routes' = routes /\ answer' = answer /\ answer = None
      /\ config \in Configs /\ building \in 1 .. Len(config) + 1
  BY DEF Build, IInv, Answered, TypeOK
<1>2. Len(config) \in Nat /\ DOMAIN config = 1 .. Len(config)
  BY <1>1, DiscoveryAssumption, LenProperties
<1>3. building \in DOMAIN config
  BY <1>1, <1>2
<1>b. PICK b \in DOMAIN config : b = building
  BY <1>3
<1>4. RoutesOK' /\ \A n \in DOMAIN config : n < building => Built(n)'
  BY <1>1, Kept DEF IInv
<1> DEFINE missing == \E u \in Range(Target.users), c \in Clients : Target.issuers[u, c] = None
<1>u. PICK why : why = Unbuildable(Target)
  OBVIOUS
<1>n. None \notin {"syntax", "template", "key"}
  BY DiscoveryAssumption
<1>w. /\ why \in {"syntax", "template", "key", None}
      /\ why \in {"syntax", "key"} => why \in Target.broken
      /\ why = "template" => missing
      /\ why = None => ~missing
  BY <1>u, <1>n DEF Unbuildable
<1>r. why # None => pc' = "refused" /\ reason' = why /\ building' = building
  BY <1>u DEF Build, Refuse
<1>7. CASE why \in {"syntax", "key"}
  <2>1. pc' = "refused" /\ reason' = why /\ building' = building
    BY <1>7, <1>n, <1>r
  <2>2. TypeOK'
    BY <1>1, <1>7, <2>1 DEF IInv, TypeOK
  <2>3. Cause'
    BY <1>1, <1>3, <1>7, <1>w, <2>1 DEF Cause, Target
  <2> QED
    BY <1>1, <1>4, <2>1, <2>2, <2>3 DEF IInv, Disjoint, Answered
<1>5. CASE why = "template"
  <2>1. pc' = "refused" /\ reason' = "template" /\ building' = building
    BY <1>5, <1>n, <1>r
  <2>2. TypeOK'
    BY <1>1, <2>1 DEF IInv, TypeOK
  <2>3. \E l \in Logins(Target) : Target.issuers[l] = None
    <3>1. PICK u \in Range(Target.users), c \in Clients : Target.issuers[u, c] = None
      BY <1>5, <1>w
    <3>2. Target.users \in Seq(Subjects) /\ Target.clients \in Seq(Clients)
          /\ Len(Target.clients) \in Nat \ {0}
      BY <1>1, <1>3, TargetType DEF Target
    <3>3. Target.clients[1] \in Range(Target.clients) /\ Target.clients[1] \in Clients
      BY <3>2 DEF Range
    <3>4. u \in Subjects
      BY <3>1, <3>2, RangeOfSeq
    <3>5. \A x \in Subjects, d, e \in Clients :
            Target.issuers[x, d] = None <=> Target.issuers[x, e] = None
      BY <1>1, <1>3, DiscoveryAssumption, Zenon DEF Target
    <3>6. Target.issuers[u, Target.clients[1]] = None
      BY <3>1, <3>3, <3>4, <3>5
    <3>7. <<u, Target.clients[1]>> \in Logins(Target)
      BY <3>1, <3>3 DEF Logins
    <3> QED
      BY <3>6, <3>7
  <2>4. Cause'
    BY <1>1, <1>3, <2>1, <2>3 DEF Cause, Target
  <2> QED
    BY <1>1, <1>4, <2>1, <2>2, <2>4 DEF IInv, Disjoint, Answered
<1>6. CASE why = None
  <2>0. ~missing /\ Unbuildable(Target) = None
    BY <1>6, <1>u, <1>w
  <2>1. Rendered(Target)
    <3> SUFFICES ASSUME NEW l \in Logins(Target) PROVE Target.issuers[l] # None
      BY DEF Rendered
    <3>1. PICK u \in Range(Target.users), c \in Range(Target.clients) : l = <<u, c>>
      BY DEF Logins
    <3>2. c \in Clients
      BY <1>1, <1>3, <3>1, TargetType, RangeOfSeq DEF Target
    <3> QED
      BY <2>0, <3>1, <3>2
  <2>2. CASE Target.discovery = "per_issuer"
    <3>1. pc' = "enumerate" /\ reason' = reason /\ building' = building
      BY <2>0, <2>2 DEF Build
    <3>2. TypeOK'
      BY <1>1, <3>1 DEF IInv, TypeOK
    <3>3. Enumerating'
      <4>1. Pairs \in Nat /\ Len(Target.clients) \in Nat \ {0}
        BY <1>1, <1>3, PairsType
      <4>2. Covered(b, 0)
        <5> SUFFICES ASSUME NEW u \in DOMAIN Target.users, NEW c \in DOMAIN Target.clients
                     PROVE  ~Before(Target, u, c, 0)
          BY <1>b DEF Covered, Target
        <5>1. u \in Nat \ {0} /\ c \in Nat \ {0}
          BY <1>1, <1>3, TargetType, LenProperties DEF Target
        <5>2. (u - 1) * Len(Target.clients) >= 0
          BY <4>1, <5>1
        <5> QED
          BY <4>1, <5>1, <5>2 DEF Before
      <4>3. Covered(b, 0)'
        BY <1>1, <4>2, Kept
      <4>4. Covered(building, cursor)'
        BY <1>1, <1>b, <3>1, <4>3
      <4>5. (cursor <= Pairs)'
        <5>1. Pairs' = Pairs
          BY <1>1, <3>1 DEF Pairs, Target
        <5> QED
          BY <1>1, <4>1, <5>1
      <4>6. Rendered(Target)' /\ (Target.discovery = "per_issuer")'
        BY <1>1, <2>1, <2>2, <3>1 DEF Target, Rendered, Logins
      <4> QED
        BY <1>1, <1>3, <3>1, <4>4, <4>5, <4>6 DEF Enumerating
    <3> QED
      BY <1>1, <1>4, <3>1, <3>2, <3>3 DEF IInv, Disjoint, Answered
  <2>3. CASE Target.discovery # "per_issuer"
    <3>1. pc' = pc /\ reason' = reason /\ building' = building + 1
      BY <2>0, <2>3 DEF Build
    <3>2. building' \in 1 .. Len(config) + 1
      BY <1>1, <1>2, <3>1
    <3>3. TypeOK'
      BY <1>1, <3>1, <3>2 DEF IInv, TypeOK
    <3>4. Built(b)
      BY <1>b, <2>1, <2>3 DEF Built, Target
    <3>5. Built(b)'
      BY <1>1, <3>4, Kept
    <3>6. ASSUME NEW n \in DOMAIN config, n < building' PROVE Built(n)'
      <4>1. n < building \/ n = b
        BY <1>1, <1>2, <1>b, <3>1, <3>6
      <4> QED
        BY <1>4, <3>5, <4>1
    <3> QED
      BY <1>1, <1>4, <3>1, <3>3, <3>6 DEF IInv, Disjoint, Answered
  <2> QED
    BY <2>2, <2>3
<1> QED
  BY <1>5, <1>6, <1>7, <1>w

\* Division finds the pair of an index, and the index of a pair is its own.
LEMMA DivUnique ==
  ASSUME NEW C \in Nat \ {0}, NEW i \in Nat, NEW q \in Nat, NEW r \in Nat,
         r < C, i = q * C + r
  PROVE  i \div C = q /\ i % C = r
OBVIOUS

LEMMA DivIs ==
  ASSUME NEW C \in Nat \ {0}, NEW i \in Nat
  PROVE  /\ i \div C \in Nat /\ i % C \in 0 .. C - 1
         /\ i = (i \div C) * C + (i % C)
OBVIOUS

LEMMA DivBounds ==
  ASSUME NEW C \in Nat \ {0}, NEW U \in Nat, NEW i \in Nat, i < U * C
  PROVE  (i \div C) + 1 \in 1 .. U /\ (i % C) + 1 \in 1 .. C
<1>1. PICK q \in Nat, r \in 0 .. C - 1 : q = i \div C /\ r = i % C /\ i = q * C + r
  BY DivIs
<1>2. q < U
  <2>1. CASE q >= U
    <3>1. q * C >= U * C
      BY <2>1
    <3> QED
      BY <3>1, <1>1
  <2> QED
    BY <2>1
<1> QED
  BY <1>1, <1>2

\* The cursor comes to one login after the other.
LEMMA NextIs ==
  ASSUME config \in Configs, building \in DOMAIN config, cursor \in Nat, cursor < Pairs
  PROVE  \E u \in DOMAIN Target.users, c \in DOMAIN Target.clients :
           /\ NextIssuer = Target.issuers[Target.users[u], Target.clients[c]]
           /\ \A v \in DOMAIN Target.users, d \in DOMAIN Target.clients :
                Before(Target, v, d, cursor + 1) =>
                  Before(Target, v, d, cursor) \/ (v = u /\ d = c)
<1>1. PICK C \in Nat \ {0}, U \in Nat : C = Len(Target.clients) /\ U = Len(Target.users)
  BY TargetType DEF Target
<1>2. DOMAIN Target.users = 1 .. U /\ DOMAIN Target.clients = 1 .. C
  BY <1>1, TargetType, LenProperties DEF Target
<1>3. PICK u \in 1 .. U, c \in 1 .. C : u = (cursor \div C) + 1 /\ c = (cursor % C) + 1
  <2>1. cursor < U * C
    BY <1>1 DEF Pairs
  <2> QED
    BY <2>1, DivBounds
<1>4. NextIssuer = Target.issuers[Target.users[u], Target.clients[c]]
  BY <1>1, <1>3, Zenon DEF NextIssuer
<1>5. ASSUME NEW v \in 1 .. U, NEW d \in 1 .. C, Before(Target, v, d, cursor + 1)
      PROVE  Before(Target, v, d, cursor) \/ (v = u /\ d = c)
  <2>1. PICK q \in Nat, r \in Nat : q = v - 1 /\ r = d - 1 /\ r < C
    BY <1>5
  <2>2. q * C \in Nat
    BY <2>1
  <2>3. q * C + r < cursor + 1
    BY <1>1, <1>5, <2>1, Zenon DEF Before
  <2>4. CASE q * C + r < cursor
    BY <1>1, <2>1, <2>4, Zenon DEF Before
  <2>5. CASE q * C + r = cursor
    <3>1. cursor \div C = q /\ cursor % C = r
      BY <2>1, <2>5, DivUnique
    <3> QED
      BY <1>3, <2>1, <3>1
  <2> QED
    BY <2>1, <2>2, <2>3, <2>4, <2>5
<1>6. u \in DOMAIN Target.users /\ c \in DOMAIN Target.clients
  BY <1>2, <1>3
<1>7. \A v \in DOMAIN Target.users, d \in DOMAIN Target.clients :
        Before(Target, v, d, cursor + 1) => Before(Target, v, d, cursor) \/ (v = u /\ d = c)
  BY <1>2, <1>5, Zenon
<1> QED
  BY <1>4, <1>6, <1>7, Zenon

LEMMA EnumerateStep == IInv /\ Enumerate => IInv'
<1> SUFFICES ASSUME IInv, Enumerate PROVE IInv'
  OBVIOUS
<1>1. /\ pc = "enumerate" /\ cursor < Pairs /\ config' = config /\ building' = building
      /\ cursor' = cursor + 1 /\ answer' = answer /\ answer = None
      /\ config \in Configs /\ building \in DOMAIN config /\ cursor \in Nat
      /\ building \in 1 .. Len(config) + 1
  BY DEF Enumerate, IInv, Answered, TypeOK, Enumerating
<1>b. PICK b \in DOMAIN config : b = building /\ config[b] = Target
  BY <1>1 DEF Target
<1>2. /\ routes \in [DOMAIN config -> Seq([issuer : URL, route : Path])]
      /\ RoutesOK /\ Rendered(Target) /\ Target.discovery = "per_issuer" /\ Covered(b, cursor)
      /\ \A n \in DOMAIN config : n < b => Built(n)
      /\ Disjoint
  BY <1>1, <1>b DEF IInv, TypeOK, Enumerating
<1>p. PICK u \in DOMAIN Target.users, c \in DOMAIN Target.clients :
        /\ NextIssuer = Target.issuers[Target.users[u], Target.clients[c]]
        /\ \A v \in DOMAIN Target.users, d \in DOMAIN Target.clients :
             Before(Target, v, d, cursor + 1) =>
               Before(Target, v, d, cursor) \/ (v = u /\ d = c)
  BY <1>1, NextIs
<1>l. PICK l \in Logins(Target) : l = <<Target.users[u], Target.clients[c]>>
  BY <1>1, <1>b, LoginsType
<1>x. NextIssuer = Target.issuers[l]
  BY <1>p, <1>l, Zenon
<1>4. ASSUME routes' = routes PROVE RoutesOK' /\ \A n \in DOMAIN config : n < b => Built(n)'
  BY <1>1, <1>2, <1>4, Kept
<1>n. None \notin {"url", "outside", "pattern"}
  BY DiscoveryAssumption
<1>9. TypeOK /\ cursor' \in Nat
  BY <1>1 DEF IInv
<1>u. CASE NextIssuer = NotAURL
  <2>1. Unusable(NextIssuer) = "url"
    BY <1>u DEF Unusable
  <2>2. pc' = "refused" /\ reason' = "url" /\ routes' = routes
    BY <1>n, <2>1 DEF Enumerate, Refuse
  <2>3. TypeOK'
    BY <1>1, <1>9, <2>2 DEF TypeOK
  <2>4. \E x \in Logins(Target) : Target.issuers[x] = NotAURL
    BY <1>u, <1>x
  <2>5. Cause'
    BY <1>1, <1>2, <2>2, <2>4 DEF Cause, Target
  <2> QED
    BY <1>1, <1>4, <2>2, <2>3, <2>5 DEF IInv, Disjoint, Answered
<1> SUFFICES ASSUME NextIssuer # NotAURL PROVE IInv'
  BY <1>u
<1>i. PICK i \in URL : i = NextIssuer /\ i = Target.issuers[l]
  <2>1. Target.issuers[l] \in URL
    BY <1>b, <1>1, <1>2, <1>x, LoginsType DEF Rendered
  <2> QED
    BY <1>x, <2>1
<1>m. Target.mount \in Path /\ i.path \in Path
  BY <1>b, <1>1, TargetType, URLType
<1> DEFINE suffix == PathBelowMount(Target.mount, i.path)
           route == suffix \o WellKnown
<1>3. /\ suffix = Suffix(NextIssuer)
      /\ Unusable(NextIssuer) = IF suffix = None THEN "outside"
                                ELSE IF Pattern \in Range(suffix) THEN "pattern" ELSE None
  BY <1>i DEF Suffix, Unusable
<1>5. CASE suffix = None
  <2>1. Unusable(NextIssuer) = "outside"
    BY <1>3, <1>5
  <2>2. pc' = "refused" /\ reason' = "outside" /\ routes' = routes
    BY <1>n, <1>i, <2>1 DEF Enumerate, Refuse
  <2>3. TypeOK'
    BY <1>1, <1>9, <2>2 DEF TypeOK
  <2>4. Cause'
    BY <1>1, <1>2, <1>i, <1>5, <2>2 DEF Cause, Target
  <2> QED
    BY <1>1, <1>4, <2>2, <2>3, <2>4 DEF IInv, Disjoint, Answered
<1>6. CASE suffix # None /\ Pattern \in Range(suffix)
  <2>1. Unusable(NextIssuer) = "pattern"
    BY <1>3, <1>6
  <2>2. pc' = "refused" /\ reason' = "pattern" /\ routes' = routes
    BY <1>n, <1>i, <2>1 DEF Enumerate, Refuse
  <2>3. TypeOK'
    BY <1>1, <1>9, <2>2 DEF TypeOK
  <2>4. Cause'
    BY <1>1, <1>2, <1>i, <1>6, <2>2 DEF Cause, Target
  <2> QED
    BY <1>1, <1>4, <2>2, <2>3, <2>4 DEF IInv, Disjoint, Answered
<1>7. CASE suffix # None /\ Pattern \notin Range(suffix) /\ Contested(i, route)
  <2>1. Unusable(NextIssuer) = None
    BY <1>3, <1>7
  <2>2. pc' = "refused" /\ reason' = "collision" /\ routes' = routes
    BY <1>i, <1>3, <1>7, <2>1 DEF Enumerate, Refuse
  <2>3. TypeOK'
    BY <1>1, <1>9, <2>2 DEF TypeOK
  <2>4. Cause'
    <3>1. PICK k \in DOMAIN routes[building] :
            routes[building][k].route = route /\ routes[building][k].issuer # i
      BY <1>7 DEF Contested
    <3>2. /\ Target.issuers[l] \in URL
          /\ PathBelowMount(Target.mount, Target.issuers[l].path) # None
          /\ routes[building][k].route = RouteOf(Target, Target.issuers[l])
          /\ routes[building][k].issuer # Target.issuers[l]
      BY <1>i, <1>7, <3>1 DEF RouteOf
    <3>3. Target' = Target /\ building' = building /\ routes' = routes /\ reason' = "collision"
      BY <1>1, <2>2 DEF Target
    <3>4. (\E x \in Logins(Target) : \E n \in DOMAIN routes[building] :
             /\ Target.issuers[x] \in URL
             /\ PathBelowMount(Target.mount, Target.issuers[x].path) # None
             /\ routes[building][n].route = RouteOf(Target, Target.issuers[x])
             /\ routes[building][n].issuer # Target.issuers[x])'
      BY <3>2, <3>3, Zenon
    <3> QED
      BY <1>1, <1>2, <3>3, <3>4 DEF Cause
  <2> QED
    BY <1>1, <1>4, <2>2, <2>3, <2>4 DEF IInv, Disjoint, Answered
<1>8. CASE suffix # None /\ Pattern \notin Range(suffix) /\ ~Contested(i, route)
  <2>1. Unusable(NextIssuer) = None
    BY <1>3, <1>8
  <2>2. /\ pc' = pc /\ reason' = reason
        /\ routes' = IF \E n \in DOMAIN routes[building] : routes[building][n].route = route
                       THEN routes
                       ELSE [routes EXCEPT ![building] = Append(@, [issuer |-> i, route |-> route])]
    BY <1>i, <1>3, <1>8, <2>1 DEF Enumerate
  <2>3. cursor' <= Pairs /\ cursor' \in Nat
    BY <1>1, PairsType
  <2>4. ASSUME Routed(b, i)', \A j \in URL : Routed(b, j) => Routed(b, j)'
        PROVE  Enumerating'
    <3>e. PICK end : end = cursor + 1
      OBVIOUS
    <3>0. ASSUME NEW v \in DOMAIN Target.users, NEW d \in DOMAIN Target.clients,
                 Before(Target, v, d, cursor + 1),
                 NEW y, y = Target.issuers[Target.users[v], Target.clients[d]]
          PROVE  Routed(b, y)'
      <4>1. CASE v = u /\ d = c
        <5>1. y = i
          BY <1>p, <1>i, <3>0, <4>1
        <5> QED
          BY <2>4, <5>1
      <4>2. CASE ~(v = u /\ d = c)
        <5>1. Routed(b, Target.issuers[Target.users[v], Target.clients[d]])
          BY <1>b, <1>p, <1>2, <3>0, <4>2 DEF Covered
        <5>2. PICK k \in DOMAIN routes[b] : routes[b][k].issuer = y
          BY <3>0, <5>1 DEF Routed
        <5>3. Routed(b, y) /\ y \in URL
          <6>1. routes[b][k] \in [issuer : URL, route : Path]
            BY <1>2, <5>2, ElementOfSeq, LenProperties
          <6> QED
            BY <5>2, <6>1 DEF Routed
        <5> QED
          BY <2>4, <5>3
      <4> QED
        BY <4>1, <4>2
    <3>1. Covered(b, end)'
      <4>1. ASSUME NEW v \in DOMAIN config[b].users, NEW d \in DOMAIN config[b].clients,
                   Before(config[b], v, d, end)
            PROVE  \E k \in DOMAIN routes'[b] :
                     routes'[b][k].issuer = config[b].issuers[config[b].users[v], config[b].clients[d]]
        <5>1. PICK y : y = Target.issuers[Target.users[v], Target.clients[d]]
          OBVIOUS
        <5>2. Routed(b, y)'
          BY <1>b, <3>e, <3>0, <4>1, <5>1
        <5> QED
          BY <1>b, <5>1, <5>2 DEF Routed
      <4> QED
        BY <1>1, <4>1, Zenon DEF Covered, Routed
    <3>2. Target' = Target /\ Pairs' = Pairs
      BY <1>1 DEF Target, Pairs
    <3>3. Covered(building, cursor)'
      BY <1>1, <1>b, <3>e, <3>1
    <3>4. Rendered(Target)' /\ (Target.discovery = "per_issuer")'
      BY <1>2, <3>2 DEF Rendered, Logins
    <3> QED
      BY <1>1, <2>3, <3>2, <3>3, <3>4 DEF Enumerating
  <2>5. CASE \E n \in DOMAIN routes[building] : routes[building][n].route = route
    <3>1. routes' = routes
      BY <2>2, <2>5
    <3>2. PICK n \in DOMAIN routes[b] : routes[b][n].route = route
      BY <1>b, <2>5
    <3>3. routes[b][n].issuer = i
      BY <1>b, <1>8, <3>2 DEF Contested
    <3>4. Enumerating'
      BY <2>4, <3>1, <3>3 DEF Routed
    <3>5. TypeOK'
      BY <1>1, <1>9, <2>2, <2>3, <3>1 DEF TypeOK
    <3> QED
      BY <1>1, <1>b, <1>4, <2>2, <3>1, <3>4, <3>5 DEF IInv, Disjoint, Answered
  <2>6. CASE ~\E n \in DOMAIN routes[building] : routes[building][n].route = route
    <3>1. PICK rs \in Seq([issuer : URL, route : Path]), new \in [issuer : URL, route : Path] :
            rs = routes[b] /\ new.issuer = i /\ new.route = route
              /\ routes' = [routes EXCEPT ![b] = Append(rs, new)]
      <4>1. suffix \in Path
        BY <1>8, <1>m, BelowIs
      <4>2. route \in Path
        BY <4>1, WellKnownIs, ExtensionIs DEF Path
      <4>3. routes' = [routes EXCEPT ![b] = Append(routes[b], [issuer |-> i, route |-> route])]
        BY <1>b, <2>2, <2>6
      <4>4. [issuer |-> i, route |-> route] \in [issuer : URL, route : Path]
        BY <4>2
      <4>5. routes[b] \in Seq([issuer : URL, route : Path])
        BY <1>2
      <4> QED
        BY <4>3, <4>4, <4>5
    <3>2. /\ Len(rs) \in Nat /\ DOMAIN rs = 1 .. Len(rs)
          /\ Append(rs, new) \in Seq([issuer : URL, route : Path])
          /\ DOMAIN Append(rs, new) = 1 .. Len(rs) + 1
          /\ \A k \in 1 .. Len(rs) : Append(rs, new)[k] = rs[k]
          /\ Append(rs, new)[Len(rs) + 1] = new
      BY LenProperties, AppendProperties
    <3>3. /\ routes' \in [DOMAIN config -> Seq([issuer : URL, route : Path])]
          /\ routes'[b] = Append(rs, new)
          /\ \A n \in DOMAIN config : n # b => routes'[n] = routes[n]
      BY <1>2, <3>1, <3>2
    <3>4. TypeOK'
      BY <1>1, <1>9, <2>2, <2>3, <3>3 DEF TypeOK
    <3>5. RouteOK(Target, new)
      <4>1. Range(route) = Range(suffix) \cup Range(WellKnown)
        BY <1>8, <1>m, BelowIs, WellKnownIs, RangeConcatenation DEF Path
      <4>2. Pattern \notin Range(route)
        BY <1>8, <4>1, WellKnownIs
      <4> QED
        BY <1>i, <1>8, <3>1, <4>2 DEF RouteOK, RouteOf
    <3>6. RoutesOK'
      <4> SUFFICES ASSUME NEW n \in DOMAIN config
                   PROVE  /\ \A k \in DOMAIN routes'[n] : RouteOK(config[n], routes'[n][k])
                          /\ \A j, k \in DOMAIN routes'[n] :
                               routes'[n][j].route = routes'[n][k].route => j = k
        BY <1>1 DEF RoutesOK
      <4>1. CASE n # b
        BY <1>2, <3>3, <4>1 DEF RoutesOK
      <4>2. CASE n = b
        <5>0. /\ \A k \in DOMAIN routes[b] : RouteOK(config[b], routes[b][k])
              /\ \A j, k \in DOMAIN routes[b] : routes[b][j].route = routes[b][k].route => j = k
          BY <1>2 DEF RoutesOK
        <5>1. \A k \in 1 .. Len(rs) : RouteOK(Target, rs[k]) /\ rs[k].route # new.route
          <6> SUFFICES ASSUME NEW k \in 1 .. Len(rs)
                       PROVE  RouteOK(Target, rs[k]) /\ rs[k].route # new.route
            OBVIOUS
          <6>1. k \in DOMAIN routes[b] /\ rs[k] = routes[b][k]
            BY <3>1, <3>2
          <6>2. RouteOK(Target, rs[k])
            BY <1>b, <5>0, <6>1
          <6>3. rs[k].route # route
            BY <1>b, <2>6, <6>1, Zenon
          <6> QED
            BY <3>1, <6>2, <6>3
        <5>2. \A j, k \in 1 .. Len(rs) : rs[j].route = rs[k].route => j = k
          BY <3>1, <3>2, <5>0, Zenon
        <5>5. PICK more : more = routes'[n] /\ more = Append(rs, new) /\ DOMAIN more = 1 .. Len(rs) + 1
          BY <3>2, <3>3, <4>2
        <5>3. ASSUME NEW k \in 1 .. Len(rs) + 1 PROVE RouteOK(Target, Append(rs, new)[k])
          BY <3>2, <3>5, <5>1
        <5>4. ASSUME NEW j \in 1 .. Len(rs) + 1, NEW k \in 1 .. Len(rs) + 1,
                     Append(rs, new)[j].route = Append(rs, new)[k].route
              PROVE  j = k
          BY <3>2, <5>1, <5>2, <5>4
        <5>6. \A k \in DOMAIN more : RouteOK(config[n], more[k])
          BY <1>b, <4>2, <5>3, <5>5
        <5>7. \A j, k \in DOMAIN more : more[j].route = more[k].route => j = k
          BY <5>4, <5>5
        <5> QED
          BY <5>5, <5>6, <5>7
      <4> QED
        BY <4>1, <4>2
    <3>7. \A n \in DOMAIN config : n < b => Built(n)'
      <4> SUFFICES ASSUME NEW n \in DOMAIN config, n < b PROVE Built(n)'
        OBVIOUS
      <4>1. n # b
        BY <1>1, <1>b
      <4>2. routes'[n] = routes[n]
        BY <3>3, <4>1
      <4> QED
        BY <1>1, <1>2, <4>2 DEF Built, Routed
    <3>8. Enumerating'
      <4>1. Len(rs) + 1 \in DOMAIN routes'[b] /\ routes'[b][Len(rs) + 1].issuer = i
        BY <3>1, <3>2, <3>3
      <4>2. ASSUME NEW k \in DOMAIN routes[b]
            PROVE  k \in DOMAIN routes'[b] /\ routes'[b][k] = routes[b][k]
        BY <3>1, <3>2, <3>3
      <4>3. Routed(b, i)'
        BY <4>1 DEF Routed
      <4>4. \A j \in URL : Routed(b, j) => Routed(b, j)'
        BY <4>2 DEF Routed
      <4> QED
        BY <2>4, <4>3, <4>4
    <3> QED
      BY <1>1, <1>b, <1>2, <2>2, <3>4, <3>6, <3>7, <3>8 DEF IInv, Disjoint, Answered
  <2> QED
    BY <2>5, <2>6
<1> QED
  BY <1>5, <1>6, <1>7, <1>8

\* When enumeration ends every login has its route.
LEMMA AllCovered ==
  ASSUME config \in Configs, building \in DOMAIN config, Covered(building, Pairs)
  PROVE  \A l \in Logins(Target) : Routed(building, Target.issuers[l])
<1>1. PICK C \in Nat \ {0}, U \in Nat : C = Len(Target.clients) /\ U = Len(Target.users)
  BY TargetType DEF Target
<1>2. DOMAIN Target.users = 1 .. U /\ DOMAIN Target.clients = 1 .. C
  BY <1>1, TargetType, LenProperties DEF Target
<1>3. ASSUME NEW u \in 1 .. U, NEW c \in 1 .. C PROVE Before(Target, u, c, Pairs)
  <2>1. PICK q \in Nat, r \in Nat : q = u - 1 /\ r = c - 1 /\ r < C
    OBVIOUS
  <2>2. (q + 1) * C <= U * C
    BY <2>1
  <2>3. (q + 1) * C = q * C + C
    OBVIOUS
  <2>4. q * C \in Nat /\ U * C \in Nat
    OBVIOUS
  <2>5. q * C + r < U * C
    BY <2>1, <2>2, <2>3, <2>4
  <2> QED
    BY <1>1, <2>1, <2>5, Zenon DEF Before, Pairs
<1> SUFFICES ASSUME NEW l \in Logins(Target) PROVE Routed(building, Target.issuers[l])
  OBVIOUS
<1>4. PICK u \in DOMAIN Target.users, c \in DOMAIN Target.clients :
        l = <<Target.users[u], Target.clients[c]>>
  BY LoginsType, Zenon DEF Target
<1>5. Before(Target, u, c, Pairs)
  BY <1>2, <1>3, <1>4
<1>6. Routed(building, Target.issuers[Target.users[u], Target.clients[c]])
  BY <1>4, <1>5, Zenon DEF Covered, Target
<1> QED
  BY <1>4, <1>6, Zenon

LEMMA EnumeratedStep == IInv /\ Enumerated => IInv'
<1> SUFFICES ASSUME IInv, Enumerated PROVE IInv'
  OBVIOUS
<1>1. /\ pc = "enumerate" /\ cursor = Pairs /\ config' = config /\ routes' = routes
      /\ cursor' = cursor /\ answer' = answer /\ answer = None
      /\ config \in Configs /\ building \in DOMAIN config /\ cursor \in Nat
  BY DEF Enumerated, IInv, Answered, TypeOK, Enumerating
<1>b. PICK b \in DOMAIN config : b = building /\ config[b] = Target
  BY <1>1 DEF Target
<1>2. Len(config) \in Nat /\ DOMAIN config = 1 .. Len(config)
  BY <1>1, TargetType
<1>3. /\ TypeOK /\ Covered(building, Pairs) /\ Rendered(Target)
      /\ Target.discovery = "per_issuer"
  BY <1>1 DEF IInv, Enumerating
<1>4. \A l \in Logins(Target) : Routed(building, Target.issuers[l])
  BY <1>1, <1>3, AllCovered
<1>5. RoutesOK' /\ \A n \in DOMAIN config : n < building => Built(n)'
  BY <1>1, Kept DEF IInv
<1>6. CASE routes[building] = <<>>
  <2>1. pc' = "refused" /\ reason' = "empty" /\ building' = building
    BY <1>6 DEF Enumerated, Refuse
  <2>2. TypeOK'
    BY <1>1, <1>3, <2>1 DEF TypeOK
  <2>3. Logins(Target) = {}
    <3>1. DOMAIN routes[building] = {}
      BY <1>6
    <3> QED
      BY <1>4, <3>1, Zenon DEF Routed
  <2>4. Cause'
    BY <1>1, <1>3, <2>1, <2>3 DEF Cause, Target
  <2> QED
    BY <1>1, <1>5, <2>1, <2>2, <2>4 DEF IInv, Disjoint, Answered
<1>7. CASE routes[building] # <<>>
  <2>1. pc' = "build" /\ reason' = reason /\ building' = building + 1
    BY <1>7 DEF Enumerated
  <2>2. building' \in 1 .. Len(config) + 1
    BY <1>1, <1>2, <2>1
  <2>3. TypeOK'
    BY <1>1, <1>3, <2>1, <2>2 DEF TypeOK
  <2>4. Built(b)'
    <3>1. Built(b)
      BY <1>b, <1>3, <1>4 DEF Built
    <3> QED
      BY <1>1, <3>1, Kept
  <2>5. ASSUME NEW n \in DOMAIN config, n < building' PROVE Built(n)'
    <3>1. n < building \/ n = b
      BY <1>1, <1>2, <1>b, <2>1, <2>5
    <3> QED
      BY <1>5, <2>4, <3>1
  <2> QED
    BY <1>1, <1>5, <2>1, <2>3, <2>5 DEF IInv, Disjoint, Answered
<1> QED
  BY <1>6, <1>7

LEMMA ServeStep == IInv /\ Serve => IInv'
<1> SUFFICES ASSUME IInv, Serve PROVE IInv'
  OBVIOUS
<1>1. /\ pc = "build" /\ building = Len(config) + 1 /\ pc' = "serving"
      /\ config' = config /\ reason' = reason /\ building' = building
      /\ cursor' = cursor /\ routes' = routes /\ answer' = answer /\ answer = None
  BY DEF Serve, IInv, Answered
<1>2. TypeOK'
  BY <1>1 DEF IInv, TypeOK
<1>3. RoutesOK' /\ \A n \in DOMAIN config : n < building => Built(n)'
  BY <1>1, Kept DEF IInv
<1> QED
  BY <1>1, <1>2, <1>3 DEF IInv, Disjoint, Answered

-----------------------------------------------------------------------------
(* Requests.                                                               *)

\* However a request comes in, its path and origin are the ones the client
\* asked for (baseURL).
LEMMA RequestIs ==
  ASSUME NEW url \in URL, NEW req \in Requests(url)
  PROVE  req.path = url.path /\ RequestBase(req) = url.origin
<1>1. /\ url.origin.scheme \in {"http", "https"} /\ url.origin.host \in Hosts
      /\ url.origin \in Origin
  BY URLType
<1>2. None \notin {"http", "https"} /\ None \notin Hosts
  BY DiscoveryAssumption
<1>3. RequestBase(req) =
        [scheme |-> IF req.forwardedProto # None THEN req.forwardedProto
                    ELSE IF req.tls THEN "https" ELSE "http",
         host |-> IF req.forwardedHost # None THEN req.forwardedHost ELSE req.host]
  BY DEF RequestBase
<1>4. /\ req.path = url.path
      /\ (IF req.forwardedProto # None THEN req.forwardedProto
          ELSE IF req.tls THEN "https" ELSE "http") = url.origin.scheme
      /\ (IF req.forwardedHost # None THEN req.forwardedHost ELSE req.host) = url.origin.host
  <2>1. CASE req = [tls |-> url.origin.scheme = "https", host |-> url.origin.host,
                    forwardedProto |-> None, forwardedHost |-> None, path |-> url.path]
    <3>1. /\ req.path = url.path /\ req.host = url.origin.host
          /\ req.forwardedProto = None /\ req.forwardedHost = None
      BY <2>1
    <3>2. req.tls <=> url.origin.scheme = "https"
      BY <2>1, Zenon
    <3> QED
      BY <1>1, <3>1, <3>2
  <2>2. CASE req = [tls |-> FALSE, host |-> url.origin.host,
                    forwardedProto |-> url.origin.scheme, forwardedHost |-> None,
                    path |-> url.path]
    BY <1>1, <1>2, <2>2
  <2>3. CASE req = [tls |-> FALSE, host |-> Internal, forwardedProto |-> url.origin.scheme,
                    forwardedHost |-> url.origin.host, path |-> url.path]
    BY <1>1, <1>2, <2>3
  <2> QED
    BY <2>1, <2>2, <2>3, Zenon DEF Requests
<1>5. url.origin = [scheme |-> url.origin.scheme, host |-> url.origin.host]
  BY <1>1 DEF Origin
<1> QED
  BY <1>3, <1>4, <1>5

\* The document a request may get, of the target whose mount its path is in.
LEMMA DocumentIs ==
  ASSUME NEW url \in URL, NEW req \in Requests(url), NEW doc \in Documents(req)
  PROVE  \E n \in DOMAIN config : \E issuer \in IssuersAt(n, RoutePath(config[n].mount, url.path)) :
           /\ doc = DiscoveryDocument(n, req, issuer)
           /\ UnderMount(config[n].mount, url.path) /\ ~config[n].fails
<1>1. req.path = url.path
  BY RequestIs
<1>2. PICK n \in DOMAIN config :
        /\ UnderMount(config[n].mount, req.path) /\ ~config[n].fails
        /\ doc \in {DiscoveryDocument(n, req, issuer) :
                      issuer \in IssuersAt(n, RoutePath(config[n].mount, req.path))}
  BY Zenon DEF Documents
<1>3. PICK issuer \in IssuersAt(n, RoutePath(config[n].mount, req.path)) :
        doc = DiscoveryDocument(n, req, issuer)
  BY <1>2
<1> QED
  BY <1>1, <1>2, <1>3, Zenon

\* The issuers at a path, by the kind of discovery.
LEMMA IssuersAtIs ==
  ASSUME NEW n \in DOMAIN config, NEW p
  PROVE  /\ config[n].discovery = "shared" =>
              IssuersAt(n, p) = IF p = WellKnown THEN {Template} ELSE {}
         /\ config[n].discovery = "off" => IssuersAt(n, p) = {}
         /\ config[n].discovery = "per_issuer" =>
              IssuersAt(n, p) = {routes[n][k].issuer :
                                   k \in {j \in DOMAIN routes[n] : Matches(routes[n][j].route, p)}}
<1>1. ASSUME config[n].discovery = "shared"
      PROVE  IssuersAt(n, p) = IF p = WellKnown THEN {Template} ELSE {}
  BY <1>1, Zenon DEF IssuersAt
<1>2. ASSUME config[n].discovery = "off" PROVE IssuersAt(n, p) = {}
  BY <1>2, Zenon DEF IssuersAt
<1>3. ASSUME config[n].discovery = "per_issuer"
      PROVE  IssuersAt(n, p) = {routes[n][k].issuer :
                                  k \in {j \in DOMAIN routes[n] : Matches(routes[n][j].route, p)}}
  BY <1>3, Zenon DEF IssuersAt
<1> QED
  BY <1>1, <1>2, <1>3

LEMMA IssuersType ==
  ASSUME TypeOK, NEW n \in DOMAIN config, NEW p, NEW issuer \in IssuersAt(n, p)
  PROVE  issuer \in URL \cup {Template}
<1>1. config[n].discovery \in {"shared", "per_issuer", "off"}
  BY TargetType DEF TypeOK
<1>2. CASE config[n].discovery = "per_issuer"
  <2>1. PICK k \in DOMAIN routes[n] : issuer = routes[n][k].issuer
    BY <1>2, IssuersAtIs
  <2>2. routes[n] \in Seq([issuer : URL, route : Path])
    BY DEF TypeOK
  <2>3. routes[n][k] \in [issuer : URL, route : Path]
    BY <2>1, <2>2, ElementOfSeq, LenProperties
  <2> QED
    BY <2>1, <2>3
<1>3. CASE config[n].discovery = "shared"
  BY <1>3, IssuersAtIs
<1>4. CASE config[n].discovery = "off"
  BY <1>4, IssuersAtIs
<1> QED
  BY <1>1, <1>2, <1>3, <1>4

LEMMA BaseType ==
  ASSUME config \in Configs, NEW n \in DOMAIN config, NEW url \in URL,
         NEW req \in Requests(url), NEW which \in {"browser", "internal"}
  PROVE  BaseURL(config[n], req, which) \in URL
<1>1. config[n].advertise[which] \in URL \cup {None} /\ config[n].mount \in Path
  BY TargetType
<1>2. RequestBase(req) \in Origin
  BY RequestIs, URLType
<1>3. CASE config[n].advertise[which] # None
  <2>1. PICK a \in URL : a = config[n].advertise[which]
    BY <1>1, <1>3
  <2>2. TrimSlashes(a.path) \in Path
    BY URLType, TrimSlashesType
  <2>3. BaseURL(config[n], req, which) = [a EXCEPT !.path = TrimSlashes(a.path)]
    BY <1>3, <2>1 DEF BaseURL
  <2>4. a = [origin |-> a.origin, path |-> a.path] /\ a.origin \in Origin
    BY DEF URL
  <2> QED
    BY <2>2, <2>3, <2>4 DEF URL
<1>4. CASE config[n].advertise[which] = None
  BY <1>1, <1>2, <1>4 DEF BaseURL, URL
<1> QED
  BY <1>3, <1>4

LEMMA DocumentsType ==
  ASSUME TypeOK, NEW url \in URL, NEW req \in Requests(url), NEW doc \in Documents(req)
  PROVE  doc \in Document
<1>1. PICK n \in DOMAIN config : \E issuer \in IssuersAt(n, RoutePath(config[n].mount, url.path)) :
        doc = DiscoveryDocument(n, req, issuer)
  BY DocumentIs
<1>2. PICK issuer \in IssuersAt(n, RoutePath(config[n].mount, url.path)) :
        doc = DiscoveryDocument(n, req, issuer)
  BY <1>1
<1>3. issuer \in URL \cup {Template} /\ n \in Nat
  <2>1. issuer \in URL \cup {Template}
    BY IssuersType, Zenon
  <2> QED
    BY <2>1, TargetType DEF TypeOK
<1>4. \A which \in {"browser", "internal"} : BaseURL(config[n], req, which) \in URL
  BY BaseType DEF TypeOK
<1>5. [which \in {"browser", "internal"} |-> BaseURL(config[n], req, which)]
        \in [{"browser", "internal"} -> URL]
  BY <1>4
<1> QED
  BY <1>2, <1>3, <1>5 DEF DiscoveryDocument, Document

LEMMA FetchStep == IInv /\ Fetch => IInv'
<1> SUFFICES ASSUME IInv, Fetch PROVE IInv'
  OBVIOUS
<1>1. /\ pc = "serving" /\ config' = config /\ pc' = pc /\ reason' = reason
      /\ building' = building /\ cursor' = cursor /\ routes' = routes
      /\ TypeOK /\ config \in Configs /\ building = Len(config) + 1
  BY DEF Fetch, IInv, TypeOK
<1>2. PICK url \in IssuerURLs \cup [origin : Origin, path : Paths] :
        \E req \in Requests(url) :
          \E doc \in Documents(req) \cup (IF Documents(req) = {} THEN {None} ELSE {}) :
            answer' = [asked |-> url, doc |-> doc]
  BY Zenon DEF Fetch
<1>3. PICK req \in Requests(url) :
        \E doc \in Documents(req) \cup (IF Documents(req) = {} THEN {None} ELSE {}) :
          answer' = [asked |-> url, doc |-> doc]
  BY <1>2
<1>4. PICK doc \in Documents(req) \cup {None} : answer' = [asked |-> url, doc |-> doc]
  BY <1>3
<1>5. url \in URL
  <2>1. ASSUME NEW n \in DOMAIN config, NEW l \in Logins(config[n]),
               config[n].issuers[l] # NotAURL
        PROVE  DiscoveryURL(config[n].issuers[l]) \in URL
    <3>1. n < building
      BY <1>1, TargetType
    <3>2. config[n].issuers[l] \in URL
      BY <1>1, <2>1, <3>1, LoginsType DEF IInv, Built, Rendered
    <3> QED
      BY <3>2, URLType
  <2>2. [origin : Origin, path : Paths] \subseteq URL
    BY DiscoveryAssumption DEF URL
  <2> QED
    BY <2>1, <2>2 DEF IssuerURLs
<1>6. doc \in Document \cup {None}
  BY <1>1, <1>5, DocumentsType
<1>7. answer'.asked = url /\ answer'.doc = doc
  BY <1>4
<1>8. TypeOK'
  BY <1>1, <1>5, <1>6, <1>7 DEF TypeOK
<1>9. RoutesOK' /\ \A n \in DOMAIN config : n < building => Built(n)'
  BY <1>1, Kept DEF IInv
<1>10. Answered'
  <2>1. doc # None => \E r \in Requests(url) : doc \in Documents(r)
    BY <1>4
  <2>2. \A r : Documents(r)' = Documents(r)
    <3>1. \A n, p : IssuersAt(n, p)' = IssuersAt(n, p)
      BY <1>1, Zenon DEF IssuersAt
    <3>2. \A n, r, i : DiscoveryDocument(n, r, i)' = DiscoveryDocument(n, r, i)
      BY <1>1 DEF DiscoveryDocument
    <3> QED
      BY <1>1, <3>1, <3>2 DEF Documents
  <2> QED
    BY <1>1, <1>7, <2>1, <2>2 DEF Answered
<1> QED
  BY <1>1, <1>8, <1>9, <1>10 DEF IInv, Disjoint

\* Every step keeps the invariant.
LEMMA NextIInv == IInv /\ [Next]_vars => IInv'
<1> SUFFICES ASSUME IInv, [Next]_vars PROVE IInv'
  OBVIOUS
<1>1. CASE Next
  BY <1>1, ValidateStep, BuildStep, EnumerateStep, EnumeratedStep, ServeStep, FetchStep DEF Next
<1>2. CASE UNCHANGED vars
  <2>1. /\ config' = config /\ pc' = pc /\ reason' = reason /\ building' = building
        /\ cursor' = cursor /\ routes' = routes /\ answer' = answer
    BY <1>2 DEF vars
  <2>2. TypeOK' /\ Disjoint'
    BY <2>1 DEF IInv, TypeOK, Disjoint
  <2>3. RoutesOK' /\ (\A n : Built(n)' <=> Built(n))
        /\ (\A n, end : Covered(n, end)' <=> Covered(n, end))
    BY <2>1, Kept DEF IInv
  <2>4. Target' = Target /\ Pairs' = Pairs
    BY <2>1 DEF Target, Pairs
  <2>5. (pc = "enumerate" => Enumerating)'
    BY <2>1, <2>3, <2>4 DEF IInv, Enumerating, Rendered, Logins
  <2>6. (pc = "refused" => Cause)'
    BY <2>1, <2>4 DEF IInv, Cause, RouteOf
  <2>7. Answered'
    <3>1. \A n, p : IssuersAt(n, p)' = IssuersAt(n, p)
      BY <2>1, Zenon DEF IssuersAt
    <3>2. \A n, r, i : DiscoveryDocument(n, r, i)' = DiscoveryDocument(n, r, i)
      BY <2>1 DEF DiscoveryDocument
    <3>3. \A r : Documents(r)' = Documents(r)
      BY <2>1, <3>1, <3>2 DEF Documents
    <3> QED
      BY <2>1, <3>3 DEF IInv, Answered
  <2> QED
    BY <2>1, <2>2, <2>3, <2>5, <2>6, <2>7 DEF IInv
<1> QED
  BY <1>1, <1>2

\* The inductive invariant of New's steps (Build, Enumerate) and of Fetch.
LEMMA AlwaysIInv == Spec => []IInv
<1>1. Init => IInv
  BY InitIInv
<1>2. IInv /\ [Next]_vars => IInv'
  BY NextIInv
<1> QED
  BY <1>1, <1>2, PTL DEF Spec

-----------------------------------------------------------------------------
(* Results.                                                                *)

\* Every state of authside.New and of a fetch is well formed: a document names a
\* target, an issuer and an address for each kind of endpoint, whatever
\* advertise, the mounts and the request's headers are.
THEOREM TypeCorrect == Spec => []TypeOK
<1>1. IInv => TypeOK
  BY DEF IInv
<1> QED
  BY <1>1, AlwaysIInv, PTL

\* No path is claimed by two targets that serve, whatever paths clients try, for
\* mounts without chi's pattern characters: DiscoveryAssumption excludes the
\* others, of which "/{x}" and "/oidc" do share paths (checkMountCollisions).
THEOREM NoPathHasTwoTargets == Spec => []MountsAreDisjoint
<1>1. IInv => MountsAreDisjoint
  <2> SUFFICES ASSUME IInv, pc = "serving", NEW m \in DOMAIN config, NEW n \in DOMAIN config,
                      m # n, NEW p \in Paths,
                      UnderMount(config[m].mount, p), UnderMount(config[n].mount, p)
               PROVE  FALSE
    BY DEF MountsAreDisjoint, Shared
  <2>1. p \in Path
    BY DiscoveryAssumption
  <2>2. config[m].mount \in Path /\ config[n].mount \in Path
    BY TargetType DEF IInv, TypeOK
  <2>3. MountsCollide(config[m].mount, config[n].mount)
    BY <2>1, <2>2, SharedPathsCollide
  <2> QED
    BY <2>3 DEF IInv, Disjoint
<1> QED
  BY <1>1, AlwaysIInv, PTL

\* The route of an issuer is its discovery URL below the mount.
LEMMA RouteOfIs ==
  ASSUME NEW m \in Path, NEW i \in URL, PathBelowMount(m, i.path) # None,
         NEW r, r = PathBelowMount(m, i.path) \o WellKnown
  PROVE  /\ r \in Path /\ r # <<>> /\ r # <<"">>
         /\ TrimSlash(m) \o r = DiscoveryURL(i).path
<1>0. i.path \in Path
  BY URLType
<1>s. PICK s \in Seq(Segments) : s = PathBelowMount(m, i.path)
  BY <1>0, BelowIs DEF Path
<1>t. PICK t \in Seq(Segments) : t = TrimSlash(m)
  BY TrimSlashIs DEF Path
<1>w. PICK w \in Seq(Segments) : w = WellKnown /\ Len(w) = 2
  BY WellKnownIs DEF Path
<1>1. t \o s = TrimSlash(i.path)
  BY <1>0, <1>s, <1>t, BelowIs
<1>2. r = s \o w /\ r \in Seq(Segments) /\ Len(r) = Len(s) + 2 /\ Len(s) \in Nat
  <2>1. r = s \o w
    BY <1>s, <1>w
  <2>2. s \o w \in Seq(Segments) /\ Len(s \o w) = Len(s) + Len(w)
    BY ExtensionIs, Zenon
  <2>3. Len(s) \in Nat
    OBVIOUS
  <2> QED
    BY <1>w, <2>1, <2>2, <2>3, Zenon
<1>3. r # <<>> /\ r # <<"">>
  <2>1. Len(r) # 0 /\ Len(r) # 1
    BY <1>2
  <2> QED
    BY <2>1, EmptySeq, RootIs
<1>4. t \o (s \o w) = (t \o s) \o w
  BY ConcatAssociative
<1>5. DiscoveryURL(i).path = TrimSlash(i.path) \o WellKnown
  BY URLType
<1> QED
  BY <1>t, <1>w, <1>1, <1>2, <1>3, <1>4, <1>5 DEF Path

\* A route without pattern characters matches its own path alone.
LEMMA MatchesIs ==
  ASSUME NEW r \in Path, NEW p \in Path, Pattern \notin Range(r)
  PROVE  Matches(r, p) <=> r = p
<1>1. /\ Len(r) \in Nat /\ Len(p) \in Nat
      /\ DOMAIN r = 1 .. Len(r) /\ DOMAIN p = 1 .. Len(p)
  BY LenProperties DEF Path
<1>2. \A k \in DOMAIN r : r[k] # Pattern
  BY DEF Range
<1>3. ASSUME Matches(r, p) PROVE r = p
  <2>1. Len(r) = Len(p) /\ \A k \in 1 .. Len(r) : r[k] = p[k]
    BY <1>1, <1>2, <1>3 DEF Matches
  <2> QED
    BY <2>1, SeqEqual DEF Path
<1>4. ASSUME r = p PROVE Matches(r, p)
  BY <1>4 DEF Matches
<1> QED
  BY <1>3, <1>4

\* What is known of a route once it is there.
LEMMA RouteIs ==
  ASSUME TypeOK, RoutesOK, NEW n \in DOMAIN config, NEW k \in DOMAIN routes[n]
  PROVE  /\ routes[n][k].issuer \in URL /\ routes[n][k].route \in Path
         /\ routes[n][k].route # <<>> /\ routes[n][k].route # <<"">>
         /\ Pattern \notin Range(routes[n][k].route)
         /\ routes[n][k].route = RouteOf(config[n], routes[n][k].issuer)
         /\ TrimSlash(config[n].mount) \o routes[n][k].route = DiscoveryURL(routes[n][k].issuer).path
         /\ \E l \in Logins(config[n]) : config[n].issuers[l] = routes[n][k].issuer
<1>1. routes[n] \in Seq([issuer : URL, route : Path])
  BY DEF TypeOK
<1>2. PICK r \in [issuer : URL, route : Path] : r = routes[n][k]
  BY <1>1, ElementOfSeq, LenProperties
<1>3. RouteOK(config[n], r)
  BY <1>2 DEF RoutesOK
<1>4. config[n].mount \in Path
  BY TargetType DEF TypeOK
<1>5. /\ r.issuer \in URL /\ PathBelowMount(config[n].mount, r.issuer.path) # None
      /\ r.route = PathBelowMount(config[n].mount, r.issuer.path) \o WellKnown
      /\ Pattern \notin Range(r.route)
      /\ \E l \in Logins(config[n]) : config[n].issuers[l] = r.issuer
  BY <1>3 DEF RouteOK, RouteOf
<1>6. /\ r.route \in Path /\ r.route # <<>> /\ r.route # <<"">>
      /\ TrimSlash(config[n].mount) \o r.route = DiscoveryURL(r.issuer).path
  BY <1>4, <1>5, RouteOfIs
<1> QED
  BY <1>2, <1>5, <1>6 DEF RouteOf

\* What the router below the mount sees of a path is a path.
LEMMA RoutePathType ==
  ASSUME NEW m \in Path, NEW p \in Path, UnderMount(m, p)
  PROVE  RoutePath(m, p) \in Path
<1>1. TrimSlash(m) \in Seq(Segments) /\ p \in Seq(Segments) /\ IsPrefix(TrimSlash(m), p)
  BY TrimSlashIs DEF Path, UnderMount
<1>2. SubSeq(p, Len(TrimSlash(m)) + 1, Len(p)) \in Path
  BY <1>1, RestIs, Zenon DEF Path
<1> QED
  BY <1>2, RootIs DEF RoutePath

\* A document that names an issuer is found at that issuer's discovery URL and
\* nowhere else, and the issuer is one of a login of the target that serves it:
\* no path of an unknown tenant has a document, whatever the client tries
\* (perIssuerRouteFor).
THEOREM OnlyKnownTenants == Spec => []NoDocumentElsewhere
<1>1. IInv => NoDocumentElsewhere
  <2> SUFFICES ASSUME IInv, answer # None, answer.doc # None, answer.doc.issuer # Template
               PROVE  /\ answer.asked.path = DiscoveryURL(answer.doc.issuer).path
                      /\ \E l \in Logins(config[answer.doc.target]) :
                           config[answer.doc.target].issuers[l] = answer.doc.issuer
    BY DEF NoDocumentElsewhere
  <2>1. TypeOK /\ RoutesOK
    BY DEF IInv
  <2>2. PICK url \in URL : url = answer.asked
    BY <2>1 DEF TypeOK
  <2>3. PICK req \in Requests(url) : answer.doc \in Documents(req)
    BY <2>2 DEF IInv, Answered
  <2>4. PICK n \in DOMAIN config :
          \E issuer \in IssuersAt(n, RoutePath(config[n].mount, url.path)) :
            /\ answer.doc = DiscoveryDocument(n, req, issuer)
            /\ UnderMount(config[n].mount, url.path)
    BY <2>3, DocumentIs
  <2>5. PICK issuer \in IssuersAt(n, RoutePath(config[n].mount, url.path)) :
          /\ answer.doc = DiscoveryDocument(n, req, issuer)
          /\ UnderMount(config[n].mount, url.path)
    BY <2>4
  <2>6. answer.doc.target = n /\ answer.doc.issuer = issuer
    BY <2>5 DEF DiscoveryDocument
  <2>7. config[n].discovery = "per_issuer"
    <3>1. config[n].discovery \in {"shared", "per_issuer", "off"}
      BY <2>1, TargetType DEF TypeOK
    <3>2. issuer # Template
      BY <2>6
    <3> QED
      BY <2>5, <3>1, <3>2, IssuersAtIs
  <2>8. PICK k \in DOMAIN routes[n] :
          /\ issuer = routes[n][k].issuer
          /\ Matches(routes[n][k].route, RoutePath(config[n].mount, url.path))
    BY <2>5, <2>7, IssuersAtIs
  <2>9. config[n].mount \in Path /\ url.path \in Path
    BY <2>1, TargetType, URLType DEF TypeOK
  <2>10. /\ routes[n][k].route \in Path /\ routes[n][k].route # <<"">>
         /\ Pattern \notin Range(routes[n][k].route)
         /\ TrimSlash(config[n].mount) \o routes[n][k].route = DiscoveryURL(routes[n][k].issuer).path
         /\ \E l \in Logins(config[n]) : config[n].issuers[l] = routes[n][k].issuer
    BY <2>1, RouteIs
  <2>11. RoutePath(config[n].mount, url.path) = routes[n][k].route
    <3>1. PICK p \in Path : p = RoutePath(config[n].mount, url.path)
      BY <2>5, <2>9, RoutePathType
    <3>2. PICK r \in Path : r = routes[n][k].route /\ Pattern \notin Range(r)
      BY <2>10
    <3>3. Matches(r, p)
      BY <2>8, <3>1, <3>2
    <3>4. r = p
      BY <3>2, <3>3, MatchesIs, Zenon
    <3> QED
      BY <3>1, <3>2, <3>4
  <2>12. url.path = TrimSlash(config[n].mount) \o routes[n][k].route
    BY <2>5, <2>9, <2>10, <2>11, MountJoins
  <2> QED
    BY <2>2, <2>6, <2>8, <2>10, <2>12
<1> QED
  BY <1>1, AlwaysIInv, PTL

\* Every login that is configured can discover its issuer: the document at the
\* issuer's URL is there, is the only one, is the login's target's and names the
\* issuer, through an ingress as well.  The issuers are those the model has: of
\* decoded segments, so none with an escaped slash, and without a query
\* (enumeratePerIssuerRoutes).
THEOREM VanillaDiscoveryWorks == Spec => []EveryIssuerHasItsDocument
<1>1. IInv => EveryIssuerHasItsDocument
  <2> SUFFICES ASSUME IInv, pc = "serving", NEW n \in DOMAIN config, NEW l \in Logins(config[n]),
                      config[n].discovery = "per_issuer", ~config[n].fails,
                      NEW req \in Requests(DiscoveryURL(config[n].issuers[l]))
               PROVE  /\ Cardinality(Documents(req)) = 1
                      /\ \A doc \in Documents(req) :
                           doc.target = n /\ doc.issuer = config[n].issuers[l]
    BY DEF EveryIssuerHasItsDocument
  <2>1. TypeOK /\ RoutesOK /\ config \in Configs
    BY DEF IInv, TypeOK
  <2>2. Built(n)
    <3>1. n < building
      BY <2>1, TargetType DEF IInv
    <3> QED
      BY <3>1 DEF IInv
  <2>3. PICK i \in URL : i = config[n].issuers[l]
    <3>1. PICK k \in DOMAIN routes[n] : routes[n][k].issuer = config[n].issuers[l]
      BY <2>2 DEF Built, Routed
    <3>2. routes[n][k] \in [issuer : URL, route : Path]
      BY <2>1, <3>1, ElementOfSeq, LenProperties DEF TypeOK
    <3> QED
      BY <3>1, <3>2
  <2>4. PICK k \in DOMAIN routes[n] : routes[n][k].issuer = i
    BY <2>2, <2>3 DEF Built, Routed
  <2>5. PICK r \in Path : r = routes[n][k].route
    BY <2>1, RouteIs
  <2>6. /\ r # <<>> /\ Pattern \notin Range(r)
        /\ TrimSlash(config[n].mount) \o r = DiscoveryURL(i).path
    BY <2>1, <2>4, <2>5, RouteIs
  <2>7. PICK url \in URL : url = DiscoveryURL(i)
    BY URLType
  <2>8. req \in Requests(url) /\ req.path = url.path /\ url.path \in Path
    BY <2>3, <2>7, RequestIs, URLType
  <2>9. config[n].mount \in Path /\ \A m \in DOMAIN config : config[m].mount \in Path
    BY <2>1, TargetType
  <2>10. UnderMount(config[n].mount, req.path) /\ RoutePath(config[n].mount, req.path) = r
    <3>1. PICK m \in Path : m = config[n].mount
      BY <2>9
    <3>2. UnderMount(m, TrimSlash(m) \o r) /\ RoutePath(m, TrimSlash(m) \o r) = r
      BY <2>6, MountSplits, Zenon
    <3>3. TrimSlash(m) \o r = req.path
      BY <2>6, <2>7, <2>8, <3>1
    <3> QED
      BY <3>1, <3>2, <3>3
  <2>11. \A m \in DOMAIN config : UnderMount(config[m].mount, req.path) => m = n
    <3> SUFFICES ASSUME NEW m \in DOMAIN config, UnderMount(config[m].mount, req.path), m # n
                 PROVE  FALSE
      OBVIOUS
    <3>1. MountsCollide(config[m].mount, config[n].mount)
      BY <2>8, <2>9, <2>10, SharedPathsCollide
    <3> QED
      BY <3>1 DEF IInv, Disjoint
  <2>12. IssuersAt(n, r) = {i}
    <3>1. IssuersAt(n, r) = {routes[n][j].issuer :
                               j \in {j \in DOMAIN routes[n] : Matches(routes[n][j].route, r)}}
      BY IssuersAtIs
    <3>2. ASSUME NEW j \in DOMAIN routes[n] PROVE Matches(routes[n][j].route, r) <=> j = k
      <4>1. routes[n][j].route \in Path /\ Pattern \notin Range(routes[n][j].route)
        BY <2>1, RouteIs
      <4>2. Matches(routes[n][j].route, r) <=> routes[n][j].route = r
        BY <4>1, MatchesIs
      <4>3. routes[n][j].route = routes[n][k].route => j = k
        BY <2>1 DEF RoutesOK
      <4> QED
        BY <2>5, <4>2, <4>3
    <3> QED
      BY <2>4, <3>1, <3>2
  <2>13. Documents(req) = {DiscoveryDocument(n, req, i)}
    <3>1. DiscoveryDocument(n, req, i) \in Documents(req)
      BY <2>10, <2>12 DEF Documents
    <3>2. ASSUME NEW doc \in Documents(req) PROVE doc = DiscoveryDocument(n, req, i)
      <4>1. PICK m \in DOMAIN config :
              \E issuer \in IssuersAt(m, RoutePath(config[m].mount, url.path)) :
                /\ doc = DiscoveryDocument(m, req, issuer)
                /\ UnderMount(config[m].mount, url.path)
        BY <2>8, DocumentIs
      <4>2. PICK issuer \in IssuersAt(m, RoutePath(config[m].mount, url.path)) :
              doc = DiscoveryDocument(m, req, issuer) /\ UnderMount(config[m].mount, url.path)
        BY <4>1
      <4>3. m = n
        BY <2>8, <2>11, <4>2
      <4>4. issuer = i
        BY <2>8, <2>10, <2>12, <4>2, <4>3
      <4> QED
        BY <4>2, <4>3, <4>4
    <3> QED
      BY <3>1, <3>2
  <2>14. Cardinality(Documents(req)) = 1
    BY <2>13, FS_Singleton, Zenon
  <2>15. \A doc \in Documents(req) : doc.target = n /\ doc.issuer = i
    BY <2>13 DEF DiscoveryDocument
  <2> QED
    BY <2>3, <2>14, <2>15
<1> QED
  BY <1>1, AlwaysIInv, PTL

\* What follows a mount that does not end in a slash comes back to it, and is what
\* the router below it sees.
LEMMA EndpointComesBack ==
  ASSUME NEW m \in Path, m # <<>>, Last(m) # "", NEW endpoint
  PROVE  /\ UnderMount(m, Append(m, endpoint))
         /\ RoutePath(m, Append(m, endpoint)) = <<endpoint>>
<1>1. TrimSlash(m) = m
  BY DEF TrimSlash
<1>2. PICK S : S = Segments \cup {endpoint}
  OBVIOUS
<1>3. m \in Seq(S) /\ endpoint \in S
  BY <1>2, SeqMonotonic DEF Path
<1>4. <<endpoint>> \in Seq(S) /\ <<endpoint>> # <<>>
  BY <1>3, SingletonIs, Zenon
<1>5. Append(m, endpoint) = m \o <<endpoint>>
  BY <1>3, AppendIsConcat, Zenon
<1>6. /\ IsPrefix(m, m \o <<endpoint>>)
      /\ SubSeq(m \o <<endpoint>>, Len(m) + 1, Len(m \o <<endpoint>>)) = <<endpoint>>
  BY <1>3, <1>4, ExtensionIs, Zenon
<1>7. UnderMount(m, m \o <<endpoint>>)
  BY <1>1, <1>6, Zenon DEF UnderMount
<1>8. RoutePath(m, m \o <<endpoint>>) = <<endpoint>>
  BY <1>1, <1>4, <1>6, Zenon DEF RoutePath
<1> QED
  BY <1>5, <1>7, <1>8, Zenon

LEMMA WithPath ==
  ASSUME NEW o, NEW p, NEW q, NEW url, url = [origin |-> o, path |-> p]
  PROVE  [url EXCEPT !.path = q] = [origin |-> o, path |-> q]
OBVIOUS

LEMMA DocumentFields ==
  ASSUME NEW n, NEW req, NEW issuer, NEW doc, doc = DiscoveryDocument(n, req, issuer)
  PROVE  /\ doc.target = n /\ doc.issuer = issuer
         /\ \A which \in {"browser", "internal"} : doc.base[which] = BaseURL(config[n], req, which)
<1>1. doc.target = n /\ doc.issuer = issuer
  BY DEF DiscoveryDocument
<1>2. doc.base = [which \in {"browser", "internal"} |-> BaseURL(config[n], req, which)]
  BY DEF DiscoveryDocument
<1>3. PICK base : base = doc.base
  OBVIOUS
<1>4. \A which \in {"browser", "internal"} : base[which] = BaseURL(config[n], req, which)
  BY <1>2, <1>3
<1> QED
  BY <1>1, <1>3, <1>4

\* The endpoints a document gives where advertise does not say otherwise are at
\* the origin the client asked, under the mount of the target that answered, for
\* every mount but one with a trailing slash (baseURL).
THEOREM EndpointsLeadBack == Spec => []EndpointsReachTarget
<1>1. IInv => EndpointsReachTarget
  <2> SUFFICES ASSUME IInv, answer # None, answer.doc # None
               PROVE  Last(config[answer.doc.target].mount) # "" =>
                        DocumentLeadsBack(answer.doc.target)
    BY DEF EndpointsReachTarget
  <2>1. TypeOK
    BY DEF IInv
  <2>2. PICK url \in URL : url = answer.asked
    BY <2>1 DEF TypeOK
  <2>3. PICK req \in Requests(url) : answer.doc \in Documents(req)
    BY <2>2 DEF IInv, Answered
  <2>4. PICK n \in DOMAIN config :
          \E issuer \in IssuersAt(n, RoutePath(config[n].mount, url.path)) :
            /\ answer.doc = DiscoveryDocument(n, req, issuer)
            /\ UnderMount(config[n].mount, url.path)
    BY <2>3, DocumentIs
  <2>5. PICK issuer : answer.doc = DiscoveryDocument(n, req, issuer)
    BY <2>4
  <2>6. /\ answer.doc.target = n
        /\ \A which \in {"browser", "internal"} :
             answer.doc.base[which] = BaseURL(config[n], req, which)
    BY <2>5, DocumentFields
  <2>7. PICK m \in Path : m = config[n].mount /\ m # <<>>
    BY <2>1, TargetType DEF TypeOK
  <2>8. SUFFICES ASSUME Last(m) # "" PROVE DocumentLeadsBack(n)
    BY <2>6, <2>7
  <2>9. ASSUME NEW which \in {"browser", "internal"}, NEW endpoint,
               config[n].advertise[which] = None,
               NEW base, base = answer.doc.base[which],
               NEW back, back = [base EXCEPT !.path = Append(@, endpoint)]
        PROVE  /\ back.origin = answer.asked.origin
               /\ UnderMount(m, back.path)
               /\ RoutePath(m, back.path) = <<endpoint>>
    <3>1. base = [origin |-> RequestBase(req), path |-> m]
      BY <2>6, <2>7, <2>9 DEF BaseURL
    <3>2. back.origin = RequestBase(req) /\ back.path = Append(m, endpoint)
      <4>1. PICK origin : origin = RequestBase(req)
        OBVIOUS
      <4>2. base = [origin |-> origin, path |-> m]
        BY <3>1, <4>1
      <4>3. base.path = m
        BY <4>2
      <4>4. back = [origin |-> origin, path |-> Append(m, endpoint)]
        <5>1. back = [base EXCEPT !.path = Append(m, endpoint)]
          BY <2>9, <4>3
        <5> QED
          BY <4>2, <5>1, WithPath, Zenon
      <4> QED
        BY <4>1, <4>4
    <3>3. RequestBase(req) = url.origin
      BY RequestIs
    <3> QED
      BY <2>2, <2>7, <2>8, <3>2, <3>3, EndpointComesBack
  <2> QED
    BY <2>7, <2>9 DEF DocumentLeadsBack
<1> QED
  BY <1>1, AlwaysIInv, PTL

\* As far as mounts, keys and issuers go, authside.New refuses a configuration only
\* for a path two targets would share, a template or a key that cannot be read, a
\* login without issuer or, where discovery is per issuer, an issuer that is no URL
\* or cannot have its document (Validate, buildTarget, perIssuerRouteFor), where no
\* mount ends in two slashes; that two mounts share a path is seen if clients try
\* one below each mount.
THEOREM NoRefusalWithoutCause ==
  ASSUME \A c \in Configs : \A n \in DOMAIN c :
           /\ TrimSlash(TrimSlash(c[n].mount)) = TrimSlash(c[n].mount)
           /\ \E p \in Paths : StrictlyBelow(c[n].mount, p)
  PROVE  Spec => []RefusedForCause
<1>1. IInv => RefusedForCause
  <2> SUFFICES ASSUME IInv, pc = "refused" PROVE RefusedForCause
    BY DEF RefusedForCause
  <2>1. TypeOK /\ Cause /\ config \in Configs
    BY DEF IInv, TypeOK
  <2>2. CASE /\ reason = "mounts"
             /\ \E m, n \in DOMAIN config : m # n /\ MountsCollide(config[m].mount, config[n].mount)
    <3>1. PICK m \in DOMAIN config, n \in DOMAIN config :
            m # n /\ MountsCollide(config[m].mount, config[n].mount)
      BY <2>2
    <3>2. config[m].mount \in Path /\ config[n].mount \in Path
      BY <2>1, TargetType
    <3>s. \A d \in DOMAIN config :
            /\ TrimSlash(TrimSlash(config[d].mount)) = TrimSlash(config[d].mount)
            /\ \E p \in Paths : p \in Path /\ StrictlyBelow(config[d].mount, p)
      BY <2>1, DiscoveryAssumption
    <3>3. PICK p \in Paths : UnderMount(config[m].mount, p) /\ UnderMount(config[n].mount, p)
      BY <3>1, <3>2, <3>s, CollidingMountsShare
    <3>4. Shared(m, n)
      BY <3>3 DEF Shared
    <3> QED
      BY <2>2, <3>1, <3>4 DEF RefusedForCause
  <2>3. CASE building \in DOMAIN config
    <3>1. PICK b \in DOMAIN config : b = building /\ config[b] = Target
      BY <2>3 DEF Target
    <3>m. Target.mount \in Path /\ TrimSlash(TrimSlash(Target.mount)) = TrimSlash(Target.mount)
      BY <2>1, <3>1, TargetType
    <3>2. CASE reason = "template" /\ \E l \in Logins(Target) : Target.issuers[l] = None
      BY <3>2 DEF RefusedForCause
    <3>7. CASE reason \in {"syntax", "key"} /\ reason \in Target.broken
      BY <3>7 DEF RefusedForCause
    <3>8. CASE /\ reason = "url" /\ Target.discovery = "per_issuer"
               /\ \E l \in Logins(Target) : Target.issuers[l] = NotAURL
      BY <3>8 DEF RefusedForCause
    <3>u. NotAURL \notin URL
      BY DiscoveryAssumption
    <3>3. ASSUME NEW l \in Logins(Target), reason = "outside",
                 Target.discovery = "per_issuer", Target.issuers[l] \in URL,
                 PathBelowMount(Target.mount, Target.issuers[l].path) = None
          PROVE  RefusedForCause
      <4>1. PICK i \in URL : i = Target.issuers[l]
        BY <3>3
      <4>2. ~IsPrefix(TrimSlash(Target.mount), TrimSlash(i.path))
        BY <3>m, <3>3, <4>1, URLType, BelowIs
      <4>3. ~UnderMount(TrimSlash(Target.mount), TrimSlash(i.path))
        BY <3>m, <4>2, Zenon DEF UnderMount
      <4> QED
        BY <3>3, <3>u, <4>1, <4>3 DEF RefusedForCause
    <3>4. ASSUME NEW l \in Logins(Target), reason = "pattern",
                 Target.discovery = "per_issuer", Target.issuers[l] \in URL,
                 PathBelowMount(Target.mount, Target.issuers[l].path) # None,
                 Pattern \in Range(PathBelowMount(Target.mount, Target.issuers[l].path))
          PROVE  RefusedForCause
      <4>1. PICK i \in URL : i = Target.issuers[l]
        BY <3>4
      <4>2. Pattern \in Range(i.path)
        BY <3>m, <3>4, <4>1, URLType, BelowIs
      <4> QED
        BY <3>4, <3>u, <4>1, <4>2 DEF RefusedForCause
    <3>5. ASSUME NEW l \in Logins(Target), NEW k \in DOMAIN routes[b],
                 reason = "collision", Target.discovery = "per_issuer",
                 Target.issuers[l] \in URL,
                 PathBelowMount(Target.mount, Target.issuers[l].path) # None,
                 routes[b][k].route = RouteOf(Target, Target.issuers[l]),
                 routes[b][k].issuer # Target.issuers[l]
          PROVE  RefusedForCause
      <4>1. PICK i \in URL : i = Target.issuers[l]
        BY <3>5
      <4>2. PICK j, r : j = routes[b][k].issuer /\ r = routes[b][k].route
        OBVIOUS
      <4>3. /\ \E x \in Logins(Target) : Target.issuers[x] = j
            /\ TrimSlash(Target.mount) \o r = DiscoveryURL(j).path
        BY <2>1, <3>1, <4>2, RouteIs DEF IInv
      <4>4. r = PathBelowMount(Target.mount, i.path) \o WellKnown
        BY <3>5, <4>1, <4>2 DEF RouteOf
      <4>5. TrimSlash(Target.mount) \o r = DiscoveryURL(i).path
        BY <3>m, <3>5, <4>1, <4>4, RouteOfIs
      <4>7. j \in URL
        <5>1. routes[b][k] \in [issuer : URL, route : Path]
          BY <2>1, <3>1, <3>5, ElementOfSeq, LenProperties DEF TypeOK
        <5> QED
          BY <4>2, <5>1
      <4>6. i # j /\ DiscoveryURL(i).path = DiscoveryURL(j).path
        BY <3>5, <4>1, <4>2, <4>3, <4>5
      <4> QED
        BY <3>5, <3>u, <4>1, <4>3, <4>6, <4>7 DEF RefusedForCause
    <3>6. CASE /\ reason = "empty" /\ Target.discovery = "per_issuer"
               /\ Logins(Target) = {}
      BY <3>6 DEF RefusedForCause
    <3> QED
      BY <2>1, <2>2, <3>1, <3>2, <3>3, <3>4, <3>5, <3>6, <3>7, <3>8, Zenon DEF Cause
  <2> QED
    BY <2>1, <2>2, <2>3, Zenon DEF Cause
<1> QED
  BY <1>1, AlwaysIInv, PTL
=============================================================================
