--------------------------- MODULE MintingProofs ---------------------------
(***************************************************************************)
(* Theorems about the tokens of any number of targets and processes, for   *)
(* every configuration, tampering, key and clock.                          *)
(***************************************************************************)
EXTENDS Minting, TLAPS

-----------------------------------------------------------------------------
(* The inductive invariant.                                                *)

\* What a pair of tokens was built from, found again from what was asked for.
KeysOf(p) == KeySet(config[p.target], p.target, p.process)
InputOf(p) ==
  Input(config[p.target], p.subject, p.injected, p.client, p.scope, p.sent, p.at)

PairOK(p) ==
  /\ p.target \in DOMAIN config /\ LoadRSAKeyOK(config[p.target])
  /\ p.process \in Nat /\ p.process <= processes
  /\ p.at \in Nat /\ p.at <= now
  /\ p.via = "mint" => p.sent = None /\ p.injected = None
  /\ p.jwks = JWKS(KeysOf(p))
  /\ p.idToken = BuildIDToken(KeysOf(p), InputOf(p), p.accessToken)
  /\ config[p.target].format = "jwt" =>
       p.accessToken = BuildAccessToken(KeysOf(p), InputOf(p))

\* A server runs only where every target's key is usable.
ServerOK ==
  server # None =>
    /\ \A n \in DOMAIN config : LoadRSAKeyOK(config[n])
    /\ server.process \in Nat /\ server.process <= processes
    /\ server.keys = [n \in DOMAIN config |-> KeySet(config[n], n, server.process)]

\* The pair a command has minted is the last one, of a process of its own.
MintedOK ==
  command # None /\ command.outcome = "minted" =>
    /\ issued # <<>>
    /\ LET p == issued[Len(issued)]
       IN /\ server # None => p.process # server.process
          /\ command.ephemeral <=> config[p.target].key = None

\* A running server would do as the command did.
AnswerOK ==
  command # None /\ command.outcome \notin {"usage", "target"} /\ server # None =>
    (command.outcome = "minted"
       <=> WouldLogIn(Picked(command.args), command.args.client, command.args.user))

IInv ==
  /\ config \in Configs /\ now \in Nat /\ processes \in Nat
  /\ issued \in Seq(Issued)
  /\ \A p \in Issued : PairOK(p)
  /\ ServerOK
  /\ MintedOK
  /\ AnswerOK

-----------------------------------------------------------------------------
(* Steps.                                                                  *)

\* A target's configuration, field by field.
LEMMA ConfigType ==
  ASSUME config \in Configs, NEW n \in DOMAIN config
  PROVE  /\ n \in Nat
         /\ config[n].key \in Keys \cup {BadKey, None}
         /\ config[n].tamper \subseteq Tamperable
         /\ config[n].custom \in Custom
         /\ config[n].format \in {"jwt", "opaque"}
         /\ config[n].idTTL \in Int /\ config[n].accessTTL \in Int
         /\ config[n].nbfSkew \in Int
<1>1. config \in Seq(TargetConfig)
  BY MintingAssumption
<1>2. n \in Nat /\ config[n] \in TargetConfig
  BY <1>1
<1> QED
  BY <1>2 DEF TargetConfig

LEMMA StartedIs ==
  ASSUME NEW p \in Nat, Started(p) # None
  PROVE  /\ \A n \in DOMAIN config : LoadRSAKeyOK(config[n])
         /\ Started(p).process = p
         /\ Started(p).keys = [n \in DOMAIN config |-> KeySet(config[n], n, p)]
BY DEF Started

LEMMA InitIInv == Init => IInv
<1> SUFFICES ASSUME Init PROVE IInv
  OBVIOUS
<1>1. Issued = {} /\ issued \in Seq(Issued)
  BY DEF Init, Issued
<1>2. ServerOK
  <2> SUFFICES ASSUME Started(1) # None PROVE ServerOK
    BY DEF Init, ServerOK
  <2>1. PICK s : s = Started(1)
    OBVIOUS
  <2>2. /\ \A n \in DOMAIN config : LoadRSAKeyOK(config[n])
        /\ s.process = 1
        /\ s.keys = [n \in DOMAIN config |-> KeySet(config[n], n, 1)]
    BY <2>1, StartedIs
  <2> QED
    BY <2>1, <2>2 DEF Init, ServerOK
<1>3. MintedOK /\ AnswerOK
  BY DEF Init, MintedOK, AnswerOK
<1> QED
  BY <1>1, <1>2, <1>3 DEF Init, IInv

\* Nothing a pair was built from changes later.
LEMMA PairStays ==
  ASSUME NEW p, PairOK(p), config' = config,
         now \in Nat, now' \in Nat, processes \in Nat, processes' \in Nat,
         now <= now', processes <= processes'
  PROVE  PairOK(p)'
BY DEF PairOK, KeysOf, InputOf

\* Nothing is issued.
LEMMA NothingIssued ==
  ASSUME IInv, UNCHANGED <<config, issued>>,
         now' \in Nat, processes' \in Nat, now <= now', processes <= processes',
         ServerOK', MintedOK', AnswerOK'
  PROVE  IInv'
<1>1. Issued' = Issued /\ issued' \in Seq(Issued')
  BY DEF IInv, Issued
<1>2. \A p \in Issued' : PairOK(p)'
  BY <1>1, PairStays DEF IInv
<1> QED
  BY <1>1, <1>2 DEF IInv

\* A pair of tokens is issued.
LEMMA OneIssued ==
  ASSUME IInv, UNCHANGED <<config, now>>,
         processes' \in Nat, processes <= processes',
         NEW p, issued' = Append(issued, p), PairOK(p)',
         ServerOK', MintedOK', AnswerOK'
  PROVE  IInv'
<1>1. PICK S : S = Issued
  OBVIOUS
<1>2. issued \in Seq(S) /\ S = {issued[k] : k \in DOMAIN issued}
  BY <1>1 DEF IInv, Issued
<1>3. issued' \in Seq(S \cup {p}) /\ Len(issued') = Len(issued) + 1
  BY <1>2
<1>4. \A k \in DOMAIN issued' : issued'[k] = IF k \in DOMAIN issued THEN issued[k] ELSE p
  BY <1>2, <1>3
<1>5. DOMAIN issued' = DOMAIN issued \cup {Len(issued) + 1} /\ Len(issued) + 1 \notin DOMAIN issued
  BY <1>2, <1>3
<1>6. Issued' = S \cup {p}
  BY <1>2, <1>4, <1>5 DEF Issued
<1>7. \A q \in Issued' : PairOK(q)'
  BY <1>1, <1>6, PairStays DEF IInv
<1> QED
  BY <1>3, <1>6, <1>7 DEF IInv

\* What Pair makes of its arguments.
LEMMA PairIs ==
  ASSUME now \in Nat, UNCHANGED <<config, now>>,
         NEW via, NEW q \in Nat, q <= processes',
         NEW n \in DOMAIN config, LoadRSAKeyOK(config[n]),
         NEW sub, NEW inj, NEW client, NEW scope, NEW nonce,
         via = "mint" => nonce = None /\ inj = None,
         NEW p, p = Pair(via, q, n, KeySet(config[n], n, q),
                         Input(config[n], sub, inj, client, scope, nonce, now))
  PROVE  PairOK(p)' /\ p.process = q /\ p.target = n
<1>1. PICK in : in = Input(config[n], sub, inj, client, scope, nonce, now)
  OBVIOUS
<1>2. /\ in.nonce = nonce /\ in.subject = sub /\ in.injected = inj
      /\ in.audience = client /\ in.scope = scope /\ in.at = now
  BY <1>1 DEF Input
<1>3. PICK keys : keys = KeySet(config[n], n, q)
  OBVIOUS
<1>4. PICK at : at = MintAccessToken(keys, in, config[n].format, Len(issued))
  OBVIOUS
<1>5. PICK id : id = BuildIDToken(keys, in, at)
  OBVIOUS
<1>6. p = [via |-> via, process |-> q, target |-> n, sent |-> nonce,
           subject |-> sub, injected |-> inj, client |-> client, scope |-> scope,
           at |-> now,
           accessToken |-> at, idToken |-> id, jwks |-> JWKS(keys)]
  BY <1>1, <1>2, <1>3, <1>4, <1>5 DEF Pair
<1>7. /\ p.via = via /\ p.process = q /\ p.target = n /\ p.sent = nonce
      /\ p.subject = sub /\ p.injected = inj /\ p.client = client /\ p.scope = scope
      /\ p.at = now
      /\ p.accessToken = at /\ p.idToken = id /\ p.jwks = JWKS(keys)
  BY <1>6
<1>8. KeysOf(p)' = keys /\ InputOf(p)' = in
  BY <1>1, <1>3, <1>7 DEF KeysOf, InputOf
<1>9. config[n].format = "jwt" => at = BuildAccessToken(keys, in)
  BY <1>4 DEF MintAccessToken
<1> QED
  BY <1>5, <1>7, <1>8, <1>9 DEF PairOK

LEMMA LoginKeeps ==
  ASSUME IInv, NEW n \in DOMAIN config, NEW client, NEW sub, NEW inj, NEW scope, NEW nonce,
         Login(n, client, sub, inj, scope, nonce)
  PROVE  IInv'
<1>1. /\ config \in Configs /\ now \in Nat /\ processes \in Nat
      /\ server # None /\ ServerOK /\ command' = None
      /\ UNCHANGED <<config, now, processes, server>>
  BY DEF IInv, Login, CanLogIn
<1>2. PICK p : p = Pair("login", server.process, n, server.keys[n],
                        Input(config[n], sub, inj, client, scope, nonce, now))
  OBVIOUS
<1>3. /\ server.process \in Nat /\ server.process <= processes
      /\ server.keys[n] = KeySet(config[n], n, server.process)
      /\ LoadRSAKeyOK(config[n])
  BY <1>1 DEF ServerOK
<1>4. PairOK(p)'
  BY <1>1, <1>2, <1>3, PairIs
<1>5. issued' = Append(issued, p)
  BY <1>2 DEF Login
<1>6. ServerOK' /\ MintedOK' /\ AnswerOK'
  BY <1>1 DEF ServerOK, MintedOK, AnswerOK
<1> QED
  BY <1>1, <1>4, <1>5, <1>6, OneIssued

LEMMA RefreshKeeps ==
  ASSUME IInv, NEW k \in DOMAIN issued, Refresh(k)
  PROVE  IInv'
<1>1. /\ config \in Configs /\ now \in Nat /\ processes \in Nat
      /\ server # None /\ ServerOK /\ command' = None
      /\ UNCHANGED <<config, now, processes, server>>
  BY DEF IInv, Refresh
<1>2. PICK old, n : old = issued[k] /\ n = old.target
  OBVIOUS
<1>3. n \in DOMAIN config
  BY <1>2 DEF IInv, Issued, PairOK
<1>4. PICK p : p = Pair("refresh", server.process, n, server.keys[n],
                        Input(config[n], old.subject, old.injected, old.client, old.scope,
                              None, now))
  OBVIOUS
<1>5. /\ server.process \in Nat /\ server.process <= processes
      /\ server.keys[n] = KeySet(config[n], n, server.process)
      /\ LoadRSAKeyOK(config[n])
  BY <1>1, <1>3 DEF ServerOK
<1>6. PairOK(p)'
  BY <1>1, <1>3, <1>4, <1>5, PairIs
<1>7. issued' = Append(issued, p)
  BY <1>2, <1>4 DEF Refresh
<1>8. ServerOK' /\ MintedOK' /\ AnswerOK'
  BY <1>1 DEF ServerOK, MintedOK, AnswerOK
<1> QED
  BY <1>1, <1>6, <1>7, <1>8, OneIssued

LEMMA RestartKeeps ==
  ASSUME IInv, Restart
  PROVE  IInv'
<1>1. /\ config \in Configs /\ now \in Nat /\ processes \in Nat
      /\ processes' = processes + 1 /\ server' = Started(processes + 1)
      /\ command' = None /\ UNCHANGED <<config, now, issued>>
  BY DEF IInv, Restart
<1>2. ServerOK'
  <2> SUFFICES ASSUME Started(processes + 1) # None PROVE ServerOK'
    BY <1>1 DEF ServerOK
  <2>1. PICK s, q : q = processes + 1 /\ s = Started(q)
    OBVIOUS
  <2>2. /\ \A n \in DOMAIN config : LoadRSAKeyOK(config[n])
        /\ s.process = q
        /\ s.keys = [n \in DOMAIN config |-> KeySet(config[n], n, q)]
    BY <1>1, <2>1, StartedIs
  <2> QED
    BY <1>1, <2>1, <2>2 DEF ServerOK
<1>3. MintedOK' /\ AnswerOK'
  BY <1>1 DEF MintedOK, AnswerOK
<1> QED
  BY <1>1, <1>2, <1>3, NothingIssued

LEMMA TickKeeps ==
  ASSUME IInv, Tick
  PROVE  IInv'
<1>1. /\ now \in Nat /\ processes \in Nat /\ now' = now + 1
      /\ command' = None /\ UNCHANGED <<config, processes, server, issued>>
  BY DEF IInv, Tick
<1>2. ServerOK' /\ MintedOK' /\ AnswerOK'
  BY <1>1 DEF IInv, ServerOK, MintedOK, AnswerOK
<1> QED
  BY <1>1, <1>2, NothingIssued

\* pickTarget means a target of the configuration.
LEMMA PickedType ==
  ASSUME config \in Configs, NEW args, PickTarget(args.target) # {}
  PROVE  Picked(args) \in DOMAIN config
<1>1. Picked(args) \in PickTarget(args.target)
  BY Zenon DEF Picked
<1>2. config \in Seq(TargetConfig)
  BY MintingAssumption
<1>3. PickTarget(args.target) \subseteq DOMAIN config
  BY <1>2 DEF PickTarget
<1> QED
  BY <1>1, <1>3

\* The names of the reserved claims a token has.
ReservedNames(in) ==
  {"iss", "sub", "aud", "iat", "exp", "at_hash"}
  \cup (IF in.nbf = None THEN {} ELSE {"nbf"})
  \cup (IF in.nonce = None THEN {} ELSE {"nonce"})

LEMMA ReservedIs ==
  ASSUME NEW in, NEW at
  PROVE  /\ DOMAIN Reserved(in, at) = ReservedNames(in)
         /\ Reserved(in, at)["iss"] = Good(in.issuer)
         /\ Reserved(in, at)["sub"] = Good(in.subject)
         /\ Reserved(in, at)["aud"] = Good(in.audience)
         /\ Reserved(in, at)["iat"] = Good(Unix(in.at))
         /\ Reserved(in, at)["exp"] = Good(Unix(in.idExpiry))
         /\ Reserved(in, at)["at_hash"] = Good(at)
         /\ in.nbf # None => Reserved(in, at)["nbf"] = Good(Unix(in.nbf))
         /\ in.nonce # None => Reserved(in, at)["nonce"] = Good(in.nonce)
<1>1. PICK always :
        always = [iss |-> Good(in.issuer), sub |-> Good(in.subject),
                  aud |-> Good(in.audience), iat |-> Good(Unix(in.at)),
                  exp |-> Good(Unix(in.idExpiry)), at_hash |-> Good(at)]
  OBVIOUS
<1>2. /\ DOMAIN always = {"iss", "sub", "aud", "iat", "exp", "at_hash"}
      /\ always["iss"] = Good(in.issuer) /\ always["sub"] = Good(in.subject)
      /\ always["aud"] = Good(in.audience) /\ always["iat"] = Good(Unix(in.at))
      /\ always["exp"] = Good(Unix(in.idExpiry)) /\ always["at_hash"] = Good(at)
  BY <1>1
<1>3. PICK withNbf :
        withNbf = IF in.nbf = None THEN always
                  ELSE MapPut(always, "nbf", Good(Unix(in.nbf)))
  OBVIOUS
<1>4. /\ DOMAIN withNbf = DOMAIN always \cup (IF in.nbf = None THEN {} ELSE {"nbf"})
      /\ \A c \in DOMAIN always : withNbf[c] = always[c]
      /\ in.nbf # None => withNbf["nbf"] = Good(Unix(in.nbf))
  BY <1>2, <1>3 DEF MapPut
<1>5. Reserved(in, at) = IF in.nonce = None THEN withNbf
                         ELSE MapPut(withNbf, "nonce", Good(in.nonce))
  BY <1>1, <1>3 DEF Reserved
<1>6. /\ DOMAIN Reserved(in, at) = DOMAIN withNbf \cup (IF in.nonce = None THEN {} ELSE {"nonce"})
      /\ \A c \in DOMAIN withNbf : c # "nonce" => Reserved(in, at)[c] = withNbf[c]
      /\ in.nonce # None => Reserved(in, at)["nonce"] = Good(in.nonce)
  BY <1>5 DEF MapPut
<1> QED
  BY <1>2, <1>4, <1>6 DEF ReservedNames

\* Whether a token can be encoded is a matter of its names and values.
LEMMA EncodableIs ==
  ASSUME NEW i, NEW j, i.custom = j.custom, i.nbf = j.nbf, i.nonce = j.nonce
  PROVE  Encodable(i) <=> Encodable(j)
<1>1. ReservedNames(i) = ReservedNames(j)
  BY DEF ReservedNames
<1>2. DOMAIN Reserved(i, None) = DOMAIN Reserved(j, None)
  BY <1>1, ReservedIs
<1> QED
  BY <1>2 DEF Encodable

\* What runToken reports, and what the server would do with the same login.
LEMMA OutcomeIs ==
  ASSUME config \in Configs, ServerOK, NEW args
  PROVE  /\ Outcome(args) = "minted" =>
              /\ Picked(args) \in DOMAIN config
              /\ LoadRSAKeyOK(config[Picked(args)])
         /\ Outcome(args) \notin {"usage", "target"} /\ server # None =>
              (Outcome(args) = "minted" <=> WouldLogIn(Picked(args), args.client, args.user))
<1>1. CASE args.client = None \/ args.user = None \/ PickTarget(args.target) = {}
  <2>1. Outcome(args) \in {"usage", "target"}
    BY <1>1 DEF Outcome
  <2> QED
    BY <2>1
<1>2. CASE ~(args.client = None \/ args.user = None) /\ PickTarget(args.target) # {}
  <2> DEFINE n == Picked(args)
             i == MintInput(config[n], args)
             j == Input(config[n], args.user, None, args.client, None, None, now)
  <2>1. n \in DOMAIN config
    BY <1>2, PickedType
  <2>2. Outcome(args) =
          IF ~LoadRSAKeyOK(config[n]) THEN "keys"
          ELSE IF args.client \notin config[n].clients THEN "client"
          ELSE IF ~LookupUserOK(config[n], args.user) THEN "user"
          ELSE IF ~IssuerOK(config[n], args.user, None) THEN "issuer"
          ELSE IF ~Encodable(i) THEN "encoding"
          ELSE "minted"
    BY <1>2 DEF Outcome
  <2>3. Encodable(i) <=> Encodable(j)
    <3>1. i.custom = j.custom /\ i.nbf = j.nbf /\ i.nonce = j.nonce
      BY DEF MintInput, Input
    <3> HIDE DEF i, j
    <3> QED
      BY <3>1, EncodableIs
  <2>4. WouldLogIn(n, args.client, args.user) <=>
          /\ server # None
          /\ args.client \in config[n].clients
          /\ LookupUserOK(config[n], args.user)
          /\ IssuerOK(config[n], args.user, None)
          /\ Encodable(j)
    BY DEF WouldLogIn, CanLogIn
  <2> HIDE DEF n, i, j
  <2>5. server # None => LoadRSAKeyOK(config[n])
    BY <2>1 DEF ServerOK
  <2>6. server # None =>
          (Outcome(args) = "minted" <=> WouldLogIn(n, args.client, args.user))
    BY <2>2, <2>3, <2>4, <2>5
  <2>7. Outcome(args) = "minted" => LoadRSAKeyOK(config[n])
    BY <2>2
  <2> QED
    BY <2>1, <2>6, <2>7 DEF n
<1> QED
  BY <1>1, <1>2

LEMMA MintKeeps ==
  ASSUME IInv, NEW args, Mint(args)
  PROVE  IInv'
<1>1. /\ config \in Configs /\ now \in Nat /\ processes \in Nat /\ ServerOK
      /\ UNCHANGED <<config, now, server>>
  BY DEF IInv, Mint
<1>2. CASE Outcome(args) = "minted"
  <2>1. PICK n, q : n = Picked(args) /\ q = processes + 1
    OBVIOUS
  <2>2. n \in DOMAIN config /\ LoadRSAKeyOK(config[n])
    BY <1>1, <1>2, <2>1, OutcomeIs
  <2>3. PICK p : p = Pair("mint", q, n, KeySet(config[n], n, q),
                          Input(config[n], args.user, None, args.client, args.scope,
                                None, now))
    OBVIOUS
  <2>4. PICK c : c = [args |-> args, outcome |-> "minted",
                      ephemeral |-> config[n].key = None]
    OBVIOUS
  <2>5. processes' = q /\ issued' = Append(issued, p) /\ command' = c
    BY <1>2, <2>1, <2>3, <2>4 DEF Mint, MintInput
  <2>6. PairOK(p)' /\ p.process = q /\ p.target = n
    BY <1>1, <2>1, <2>2, <2>3, <2>5, PairIs
  <2>7. ServerOK' /\ AnswerOK'
    <3>1. server # None => WouldLogIn(Picked(args), args.client, args.user)
      BY <1>1, <1>2, OutcomeIs
    <3>2. c.args = args /\ c.outcome = "minted"
      BY <2>4
    <3> QED
      BY <1>1, <2>1, <2>5, <3>1, <3>2
      DEF ServerOK, AnswerOK, WouldLogIn, CanLogIn, Picked, PickTarget
  <2>8. MintedOK'
    <3>1. issued' # <<>> /\ issued'[Len(issued')] = p
      BY <2>5 DEF IInv
    <3>2. server # None => q # server.process
      BY <1>1, <2>1 DEF ServerOK
    <3>3. c.ephemeral <=> config[n].key = None
      BY <2>4
    <3> QED
      BY <1>1, <2>5, <2>6, <3>1, <3>2, <3>3 DEF MintedOK
  <2>9. processes' \in Nat /\ processes <= processes'
    BY <1>1, <2>1, <2>5
  <2> QED
    BY <1>1, <2>5, <2>6, <2>7, <2>8, <2>9, OneIssued
<1>3. CASE Outcome(args) # "minted"
  <2>1. PICK c : c = [args |-> args, outcome |-> Outcome(args), ephemeral |-> FALSE]
    OBVIOUS
  <2>2. command' = c /\ UNCHANGED <<processes, issued>>
    BY <1>3, <2>1 DEF Mint
  <2>3. c.args = args /\ c.outcome = Outcome(args)
    BY <2>1
  <2>4. AnswerOK'
    BY <1>1, <2>2, <2>3, OutcomeIs DEF AnswerOK, WouldLogIn, CanLogIn, Picked, PickTarget
  <2>5. MintedOK' /\ ServerOK'
    BY <1>1, <1>3, <2>2, <2>3 DEF MintedOK, ServerOK
  <2> QED
    BY <1>1, <2>2, <2>4, <2>5, NothingIssued
<1> QED
  BY <1>2, <1>3

LEMMA NextIInv == IInv /\ [Next]_vars => IInv'
<1> SUFFICES ASSUME IInv, [Next]_vars PROVE IInv'
  OBVIOUS
<1>1. ASSUME NEW n \in DOMAIN config, NEW client, NEW sub, NEW inj, NEW scope, NEW nonce,
             Login(n, client, sub, inj, scope, nonce)
      PROVE  IInv'
  BY <1>1, LoginKeeps
<1>2. ASSUME NEW k \in DOMAIN issued, Refresh(k) PROVE IInv'
  BY <1>2, RefreshKeeps
<1>3. CASE Restart
  BY <1>3, RestartKeeps
<1>4. ASSUME NEW args, Mint(args) PROVE IInv'
  BY <1>4, MintKeeps
<1>5. CASE Tick
  BY <1>5, TickKeeps
<1>6. CASE UNCHANGED vars
  <2>1. /\ UNCHANGED <<config, issued>>
        /\ now' \in Nat /\ processes' \in Nat /\ now <= now' /\ processes <= processes'
    BY <1>6 DEF IInv, vars
  <2>2. ServerOK' /\ MintedOK' /\ AnswerOK'
    BY <1>6 DEF IInv, vars, ServerOK, MintedOK, AnswerOK, WouldLogIn, CanLogIn,
         Picked, PickTarget
  <2> QED
    BY <2>1, <2>2, NothingIssued
<1> QED
  BY <1>1, <1>2, <1>3, <1>4, <1>5, <1>6 DEF Next

\* The inductive invariant of the servers' and the command's steps.
LEMMA AlwaysIInv == Spec => []IInv
BY InitIInv, NextIInv, PTL DEF Spec

-----------------------------------------------------------------------------
(* Keys.                                                                   *)

\* Which key of which set is which.
LEMMA KeysDiffer ==
  ASSUME config \in Configs, NEW m \in DOMAIN config, NEW n \in DOMAIN config,
         NEW p \in Nat, NEW q \in Nat,
         LoadRSAKeyOK(config[m]), LoadRSAKeyOK(config[n])
  PROVE  /\ KeySet(config[n], n, q).unpublished # KeySet(config[m], m, p).published
         /\ KeySet(config[n], n, q).published = KeySet(config[m], m, p).published
              <=> \/ config[n].key # None /\ config[m].key = config[n].key
                  \/ config[n].key = None /\ config[m].key = None /\ q = p /\ n = m
<1>1. /\ n \in Nat /\ m \in Nat
      /\ config[n].key \in Keys \cup {None} /\ config[m].key \in Keys \cup {None}
  BY ConfigType DEF LoadRSAKeyOK
<1>2. \A i, j \in Nat : <<i, j, "published">> \notin Keys /\ <<i, j, "unpublished">> \notin Keys
  BY MintingAssumption DEF Generated
<1> QED
  BY <1>1, <1>2 DEF KeySet

\* What signs an ID token, and what it is published with.
LEMMA SigningKey ==
  ASSUME NEW p, PairOK(p)
  PROVE  /\ p.idToken.key = IF "signature" \in config[p.target].tamper
                              THEN KeysOf(p).unpublished ELSE KeysOf(p).published
         /\ p.jwks = {KeysOf(p).published}
<1>1. p.idToken.key = SignWith(KeysOf(p), InputOf(p).tamper)
  BY DEF PairOK, BuildIDToken
<1>2. InputOf(p).tamper = config[p.target].tamper
  BY DEF InputOf, Input
<1> QED
  BY <1>1, <1>2 DEF SignWith, PairOK, JWKS

\* Whose tokens verify where: the key of a running server's target.
LEMMA VerifiesAt ==
  ASSUME config \in Configs, ServerOK, server # None,
         NEW p, PairOK(p), NEW m \in DOMAIN config
  PROVE  p.idToken.key \in JWKS(server.keys[m]) <=>
           /\ "signature" \notin config[p.target].tamper
           /\ \/ config[p.target].key # None /\ config[m].key = config[p.target].key
              \/ /\ config[p.target].key = None
                 /\ p.process = server.process /\ p.target = m
<1>1. PICK n, q, s, key : /\ n = p.target /\ q = p.process /\ s = server.process
                          /\ key = p.idToken.key
  OBVIOUS
<1>2. /\ n \in DOMAIN config /\ LoadRSAKeyOK(config[n]) /\ q \in Nat
      /\ LoadRSAKeyOK(config[m]) /\ s \in Nat
      /\ server.keys[m] = KeySet(config[m], m, s)
  BY <1>1 DEF PairOK, ServerOK
<1>3. /\ KeySet(config[n], n, q).unpublished # KeySet(config[m], m, s).published
      /\ KeySet(config[n], n, q).published = KeySet(config[m], m, s).published
           <=> \/ config[n].key # None /\ config[m].key = config[n].key
               \/ config[n].key = None /\ config[m].key = None /\ q = s /\ n = m
  BY <1>2, KeysDiffer
<1>4. key = IF "signature" \in config[n].tamper
              THEN KeySet(config[n], n, q).unpublished ELSE KeySet(config[n], n, q).published
  BY <1>1, SigningKey DEF KeysOf
<1>5. key \in JWKS(server.keys[m]) <=> key = KeySet(config[m], m, s).published
  BY <1>2 DEF JWKS
<1> HIDE DEF KeySet
<1>6. key \in JWKS(server.keys[m]) <=>
        /\ "signature" \notin config[n].tamper
        /\ \/ config[n].key # None /\ config[m].key = config[n].key
           \/ config[n].key = None /\ q = s /\ n = m
  BY <1>3, <1>4, <1>5
<1> QED
  BY <1>1, <1>6

\* A generated key verifies only for its own target and process, a supplied one
\* wherever it was supplied, and the command's note says which it was.
THEOREM KeysVerifyWhereTheyShould == Spec => []VerifiesWhereItShould
<1>1. IInv => VerifiesWhereItShould
  <2> SUFFICES ASSUME IInv PROVE VerifiesWhereItShould
    OBVIOUS
  <2>1. ASSUME NEW p \in Issued
        PROVE  /\ p.idToken.key \in p.jwks <=> "signature" \notin config[p.target].tamper
               /\ server # None =>
                    \A m \in DOMAIN config :
                      p.idToken.key \in JWKS(server.keys[m]) <=>
                        /\ "signature" \notin config[p.target].tamper
                        /\ \/ /\ config[p.target].key # None
                              /\ config[m].key = config[p.target].key
                           \/ /\ config[p.target].key = None
                              /\ p.process = server.process /\ p.target = m
    <3>1. PairOK(p)
      BY DEF IInv
    <3>2. KeysOf(p).unpublished # KeysOf(p).published
      BY <3>1, KeysDiffer DEF IInv, PairOK, KeysOf
    <3>3. p.idToken.key \in p.jwks <=> "signature" \notin config[p.target].tamper
      BY <3>1, <3>2, SigningKey
    <3> QED
      BY <3>1, <3>3, VerifiesAt DEF IInv
  <2>2. ASSUME command # None, command.outcome = "minted", server # None,
               NEW p, p = issued[Len(issued)],
               "signature" \notin config[p.target].tamper
        PROVE  command.ephemeral <=> p.idToken.key \notin JWKS(server.keys[p.target])
    <3>1. /\ p.process # server.process
          /\ command.ephemeral <=> config[p.target].key = None
      BY <2>2 DEF IInv, MintedOK
    <3>2. p \in Issued
      BY <2>2 DEF IInv, MintedOK, Issued
    <3>3. PairOK(p) /\ p.target \in DOMAIN config
      BY <3>2 DEF IInv, PairOK
    <3>4. p.idToken.key \in JWKS(server.keys[p.target]) <=> config[p.target].key # None
      BY <2>1, <2>2, <3>1, <3>2, <3>3
    <3> QED
      BY <3>1, <3>4
  <2> QED
    BY <2>1, <2>2 DEF VerifiesWhereItShould
<1> QED
  BY <1>1, AlwaysIInv, PTL

-----------------------------------------------------------------------------
(* Claims.                                                                 *)

\* A claim as it should be, and what tamper: makes of it.
LEMMA GoodOrTampered ==
  ASSUME NEW v, NEW w
  PROVE  /\ ~Good(v).tampered /\ Good(v).value = v
         /\ Tampered(Good(v)).tampered /\ Tampered(Good(v)).value = v
         /\ Tampered(Good(v)) # Good(w)
BY DEF Good, Tampered

\* Corrupt keeps the names and touches only those it is told.
LEMMA CorruptIs ==
  ASSUME NEW claims, NEW names
  PROVE  /\ DOMAIN Corrupt(claims, names) = DOMAIN claims
         /\ \A c \in DOMAIN claims :
              Corrupt(claims, names)[c] =
                IF c \in names THEN Tampered(claims[c]) ELSE claims[c]
BY DEF Corrupt

\* Reserved claims win over custom ones, and nothing else is dropped or added.
LEMMA IDClaimsAre ==
  ASSUME NEW in, NEW at
  PROVE  /\ DOMAIN IDClaims(in, at) = DOMAIN in.custom \cup ReservedNames(in)
         /\ \A c \in ReservedNames(in) : IDClaims(in, at)[c] = Reserved(in, at)[c]
         /\ \A c \in DOMAIN in.custom \ ReservedNames(in) :
              IDClaims(in, at)[c] = in.custom[c]
<1>1. PICK r : r = Reserved(in, at)
  OBVIOUS
<1>2. DOMAIN r = ReservedNames(in)
  BY <1>1, ReservedIs
<1> QED
  BY <1>1, <1>2 DEF IDClaims, MapCopy

\* What a pair was built from, field by field.
LEMMA InputIs ==
  ASSUME config \in Configs, NEW p, PairOK(p), NEW t, t = config[p.target],
         NEW in, in = InputOf(p)
  PROVE  /\ in.issuer = t.issuer /\ in.subject = p.subject /\ in.audience = p.client
         /\ in.scope = p.scope /\ in.at = p.at /\ in.nonce = p.sent
         /\ in.idExpiry = p.at + t.idTTL /\ in.accessExpiry = p.at + t.accessTTL
         /\ in.custom = ClaimsFor(t, p.subject, p.injected) /\ in.tamper = t.tamper
         /\ in.nbf = None <=> t.nbfSkew = 0
         /\ in.nbf # None => in.nbf = p.at + t.nbfSkew
<1>1. /\ in.issuer = t.issuer /\ in.subject = p.subject /\ in.audience = p.client
      /\ in.scope = p.scope /\ in.at = p.at /\ in.nonce = p.sent
      /\ in.idExpiry = p.at + t.idTTL /\ in.accessExpiry = p.at + t.accessTTL
      /\ in.custom = ClaimsFor(t, p.subject, p.injected) /\ in.tamper = t.tamper
      /\ in.nbf = NbfFor(t, p.at)
  BY DEF InputOf, Input
<1>2. p.at + t.nbfSkew \in Int
  BY ConfigType DEF PairOK
<1>3. p.at + t.nbfSkew # None
  BY <1>2, MintingAssumption
<1> QED
  BY <1>1, <1>3 DEF NbfFor

\* The ID token of a pair, claim by claim.
LEMMA IDTokenIs ==
  ASSUME config \in Configs, NEW p, PairOK(p), NEW t, t = config[p.target],
         NEW custom, custom = ClaimsFor(t, p.subject, p.injected),
         NEW claims, claims = p.idToken.claims
  PROVE  /\ "nbf" \in DOMAIN claims <=> t.nbfSkew # 0 \/ "nbf" \in DOMAIN custom
         /\ "nonce" \in DOMAIN claims <=> p.sent # None \/ "nonce" \in DOMAIN custom
         /\ Carries(claims, "iss", t.issuer) <=> "iss" \notin t.tamper
         /\ Carries(claims, "sub", p.subject)
         /\ Carries(claims, "aud", p.client) <=> "aud" \notin t.tamper
         /\ Carries(claims, "at_hash", p.accessToken) <=> "at_hash" \notin t.tamper
         /\ p.sent # None => (Carries(claims, "nonce", p.sent) <=> "nonce" \notin t.tamper)
         /\ claims["exp"].tampered <=> "exp" \in t.tamper
         /\ claims["exp"].value = Unix(p.at + t.idTTL)
         /\ t.nbfSkew # 0 => claims["nbf"].value = Unix(p.at + t.nbfSkew)
         /\ \A c \in DOMAIN custom \ ProtocolClaims(p) :
              c \in DOMAIN claims /\ claims[c] = custom[c]
<1>1. PICK in, bare, at : /\ in = InputOf(p) /\ at = p.accessToken
                          /\ bare = IDClaims(in, at)
  OBVIOUS
<1>2. /\ in.issuer = t.issuer /\ in.subject = p.subject
      /\ in.audience = p.client /\ in.nonce = p.sent
      /\ in.idExpiry = p.at + t.idTTL /\ in.custom = custom /\ in.tamper = t.tamper
      /\ in.nbf = None <=> t.nbfSkew = 0
      /\ in.nbf # None => in.nbf = p.at + t.nbfSkew
  BY <1>1, InputIs
<1>3. claims = Corrupt(bare, Corrupted(in))
  BY <1>1 DEF PairOK, BuildIDToken
<1>4. /\ DOMAIN claims = DOMAIN bare
      /\ \A c \in DOMAIN bare :
           claims[c] = IF c \in Corrupted(in) THEN Tampered(bare[c]) ELSE bare[c]
  BY <1>3, CorruptIs
<1>5. /\ DOMAIN bare = DOMAIN custom \cup ReservedNames(in)
      /\ \A c \in ReservedNames(in) : bare[c] = Reserved(in, at)[c]
      /\ \A c \in DOMAIN custom \ ReservedNames(in) : bare[c] = custom[c]
  <2>1. /\ DOMAIN bare = DOMAIN in.custom \cup ReservedNames(in)
        /\ \A c \in ReservedNames(in) : bare[c] = Reserved(in, at)[c]
        /\ \A c \in DOMAIN in.custom \ ReservedNames(in) : bare[c] = in.custom[c]
    <3>1. bare = IDClaims(in, at)
      BY <1>1
    <3>2. /\ DOMAIN IDClaims(in, at) = DOMAIN in.custom \cup ReservedNames(in)
          /\ \A c \in ReservedNames(in) : IDClaims(in, at)[c] = Reserved(in, at)[c]
          /\ \A c \in DOMAIN in.custom \ ReservedNames(in) :
               IDClaims(in, at)[c] = in.custom[c]
      BY IDClaimsAre
    <3> QED
      BY <3>1, <3>2
  <2>2. in.custom = custom
    BY <1>2
  <2> QED
    BY <2>1, <2>2
<1>6. /\ {"iss", "sub", "aud", "iat", "exp", "at_hash"} \subseteq ReservedNames(in)
      /\ in.nbf # None <=> "nbf" \in ReservedNames(in)
      /\ in.nonce # None <=> "nonce" \in ReservedNames(in)
  BY DEF ReservedNames
<1>7. /\ bare["iss"] = Good(t.issuer) /\ bare["sub"] = Good(p.subject) /\ bare["aud"] = Good(p.client)
      /\ bare["exp"] = Good(Unix(p.at + t.idTTL)) /\ bare["at_hash"] = Good(p.accessToken)
      /\ t.nbfSkew # 0 => bare["nbf"] = Good(Unix(p.at + t.nbfSkew))
      /\ p.sent # None => bare["nonce"] = Good(p.sent)
  BY <1>1, <1>2, <1>5, <1>6, ReservedIs
<1>8. /\ "iss" \in Corrupted(in) <=> "iss" \in t.tamper
      /\ "aud" \in Corrupted(in) <=> "aud" \in t.tamper
      /\ "exp" \in Corrupted(in) <=> "exp" \in t.tamper
      /\ "at_hash" \in Corrupted(in) <=> "at_hash" \in t.tamper
      /\ "nonce" \in Corrupted(in) <=> "nonce" \in t.tamper /\ p.sent # None
      /\ "nbf" \notin Corrupted(in) /\ "sub" \notin Corrupted(in)
      /\ Corrupted(in) \subseteq ReservedNames(in)
  BY <1>2 DEF Corrupted, ReservedNames
<1>9. ASSUME NEW c \in DOMAIN bare, NEW v, bare[c] = Good(v)
      PROVE  /\ Carries(claims, c, v) <=> c \notin Corrupted(in)
             /\ claims[c].tampered <=> c \in Corrupted(in)
             /\ claims[c].value = v
  <2>1. CASE c \in Corrupted(in)
    <3>1. claims[c] = Tampered(Good(v))
      BY <1>4, <1>9, <2>1
    <3> QED
      BY <2>1, <3>1, GoodOrTampered DEF Carries
  <2>2. CASE c \notin Corrupted(in)
    <3>1. claims[c] = Good(v)
      BY <1>4, <1>9, <2>2
    <3> QED
      BY <1>4, <1>9, <2>2, <3>1, GoodOrTampered DEF Carries
  <2> QED
    BY <2>1, <2>2
<1>10. /\ "nbf" \in DOMAIN claims <=> t.nbfSkew # 0 \/ "nbf" \in DOMAIN custom
       /\ "nonce" \in DOMAIN claims <=> p.sent # None \/ "nonce" \in DOMAIN custom
  BY <1>2, <1>4, <1>5 DEF ReservedNames
<1>11. /\ Carries(claims, "iss", t.issuer) <=> "iss" \notin t.tamper
       /\ Carries(claims, "sub", p.subject)
       /\ Carries(claims, "aud", p.client) <=> "aud" \notin t.tamper
       /\ Carries(claims, "at_hash", p.accessToken) <=> "at_hash" \notin t.tamper
  BY <1>5, <1>6, <1>7, <1>8, <1>9
<1>12. p.sent # None => (Carries(claims, "nonce", p.sent) <=> "nonce" \notin t.tamper)
  BY <1>2, <1>5, <1>6, <1>7, <1>8, <1>9
<1>13. /\ claims["exp"].tampered <=> "exp" \in t.tamper
       /\ claims["exp"].value = Unix(p.at + t.idTTL)
  BY <1>5, <1>6, <1>7, <1>8, <1>9
<1>14. t.nbfSkew # 0 => claims["nbf"].value = Unix(p.at + t.nbfSkew)
  BY <1>2, <1>5, <1>6, <1>7, <1>9
<1>15. ASSUME NEW c \in DOMAIN custom \ ProtocolClaims(p)
       PROVE  c \in DOMAIN claims /\ claims[c] = custom[c]
  <2>1. c \notin ReservedNames(in)
    BY <1>2, <1>15 DEF ReservedNames, ProtocolClaims
  <2> QED
    BY <1>4, <1>5, <1>8, <1>15, <2>1
<1> QED
  BY <1>10, <1>11, <1>12, <1>13, <1>14, <1>15

\* A second is as fine as a claim gets.
LEMMA SecondsLost ==
  ASSUME NEW e \in Int
  PROVE  /\ Unix(e) * Second \in Int
         /\ Unix(e) * Second <= e /\ e < Unix(e) * Second + Second
BY MintingAssumption DEF Unix

\* The times of an ID token, to the second.
LEMMA TimesAreRight ==
  ASSUME IInv, NEW p, PairOK(p), NEW t, t = config[p.target],
         NEW custom, custom = ClaimsFor(t, p.subject, p.injected),
         NEW claims, claims = p.idToken.claims
  PROVE  /\ Expired(claims) => now + Second > p.at + t.idTTL
         /\ now > p.at + t.idTTL => Expired(claims)
         /\ "nbf" \notin DOMAIN custom \ ProtocolClaims(p) =>
              /\ TooEarly(claims) => now + Leeway < p.at + t.nbfSkew
              /\ now + Leeway + Second <= p.at + t.nbfSkew => TooEarly(claims)
<1>1. PICK e, b : e = p.at + t.idTTL /\ b = p.at + t.nbfSkew
  OBVIOUS
<1>2. /\ now \in Nat /\ p.at \in Nat /\ p.at <= now /\ e \in Int /\ b \in Int
      /\ t.nbfSkew \in Int /\ Second \in Nat \ {0} /\ Leeway \in Nat
  BY <1>1, ConfigType, MintingAssumption DEF IInv, PairOK
<1>3. /\ claims["exp"].value = Unix(e)
      /\ t.nbfSkew # 0 => claims["nbf"].value = Unix(b)
      /\ "nbf" \in DOMAIN claims <=> t.nbfSkew # 0 \/ "nbf" \in DOMAIN custom
  BY <1>1, IDTokenIs DEF IInv
<1>4. PICK x, y : x = Unix(e) * Second /\ y = Unix(b) * Second
  OBVIOUS
<1>5. /\ x \in Int /\ x <= e /\ e < x + Second
      /\ y \in Int /\ y <= b /\ b < y + Second
  BY <1>2, <1>4, SecondsLost
<1>6. Expired(claims) <=> x < now
  BY <1>3, <1>4 DEF Expired
<1>7. /\ Expired(claims) => now + Second > e
      /\ now > e => Expired(claims)
  BY <1>2, <1>5, <1>6
<1>8. ASSUME "nbf" \notin DOMAIN custom \ ProtocolClaims(p)
      PROVE  /\ TooEarly(claims) => now + Leeway < b
             /\ now + Leeway + Second <= b => TooEarly(claims)
  <2>1. "nbf" \in DOMAIN claims <=> t.nbfSkew # 0
    BY <1>3, <1>8 DEF ProtocolClaims
  <2>2. TooEarly(claims) <=> t.nbfSkew # 0 /\ y > now + Leeway
    BY <1>3, <1>4, <2>1 DEF TooEarly
  <2> QED
    BY <1>1, <1>2, <1>5, <2>2
<1> QED
  BY <1>1, <1>7, <1>8

\* What a client finds wrong with an ID token.
LEMMA IDDefectsAre ==
  ASSUME IInv, NEW p, PairOK(p), NEW t, t = config[p.target],
         NEW own, own = DOMAIN ClaimsFor(t, p.subject, p.injected) \ ProtocolClaims(p)
  PROVE  IDDefects(p) \ (own \cap {"nonce", "nbf"})
           = t.tamper \ (IF p.sent = None THEN {"nonce"} ELSE {})
<1>1. PICK claims, custom : /\ claims = p.idToken.claims
                            /\ custom = ClaimsFor(t, p.subject, p.injected)
  OBVIOUS
<1>2. /\ "nonce" \in DOMAIN claims <=> "nonce" \in DOMAIN custom \/ p.sent # None
      /\ "nbf" \in DOMAIN claims <=> "nbf" \in DOMAIN custom \/ t.nbfSkew # 0
      /\ Carries(claims, "iss", t.issuer) <=> "iss" \notin t.tamper
      /\ Carries(claims, "sub", p.subject)
      /\ Carries(claims, "aud", p.client) <=> "aud" \notin t.tamper
      /\ Carries(claims, "at_hash", p.accessToken) <=> "at_hash" \notin t.tamper
      /\ p.sent # None => (Carries(claims, "nonce", p.sent) <=> "nonce" \notin t.tamper)
      /\ claims["exp"].tampered <=> "exp" \in t.tamper
  BY <1>1, IDTokenIs DEF IInv
<1>3. t.nbfSkew # 0 => claims["nbf"].value \in Int
  <2>1. t.nbfSkew # 0 => claims["nbf"].value = Unix(p.at + t.nbfSkew)
    BY <1>1, IDTokenIs DEF IInv
  <2>2. Unix(p.at + t.nbfSkew) \in Int
    BY ConfigType, MintingAssumption DEF IInv, PairOK, Unix
  <2> QED
    BY <2>1, <2>2
<1>4. p.idToken.key \in p.jwks <=> "signature" \notin t.tamper
  <2>1. KeysOf(p).unpublished # KeysOf(p).published
    BY KeysDiffer DEF IInv, PairOK, KeysOf
  <2> QED
    BY <2>1, SigningKey
<1>5. t.tamper \subseteq Tamperable
  BY ConfigType DEF IInv, PairOK
<1>6. /\ "nonce" \in own <=> "nonce" \in DOMAIN custom /\ p.sent = None
      /\ "nbf" \in own <=> "nbf" \in DOMAIN custom /\ t.nbfSkew = 0
  BY <1>1 DEF ProtocolClaims
<1>7. /\ IDDefects(p) \subseteq Tamperable \cup {"sub", "nbf"}
      /\ "iss" \in IDDefects(p) <=> ~Carries(claims, "iss", t.issuer)
      /\ "sub" \in IDDefects(p) <=> ~Carries(claims, "sub", p.subject)
      /\ "aud" \in IDDefects(p) <=> ~Carries(claims, "aud", p.client)
      /\ "signature" \in IDDefects(p) <=> p.idToken.key \notin p.jwks
      /\ "exp" \in IDDefects(p) <=> claims["exp"].tampered
      /\ "nbf" \in IDDefects(p) <=> "nbf" \in DOMAIN claims /\ claims["nbf"].value \notin Int
      /\ "at_hash" \in IDDefects(p) <=> ~Carries(claims, "at_hash", p.accessToken)
      /\ "nonce" \in IDDefects(p) <=>
           IF p.sent = None THEN "nonce" \in DOMAIN claims
           ELSE ~Carries(claims, "nonce", p.sent)
  BY <1>1 DEF IDDefects, BearerDefects, Tamperable
<1> HIDE DEF IDDefects, Carries
<1>8. "nbf" \in IDDefects(p) => "nbf" \in own
  BY <1>2, <1>3, <1>6, <1>7
<1>9. "nonce" \in IDDefects(p) /\ "nonce" \notin own <=> p.sent # None /\ "nonce" \in t.tamper
  BY <1>2, <1>6, <1>7
<1> QED
  BY <1>2, <1>4, <1>5, <1>7, <1>8, <1>9 DEF Tamperable

\* The access token of a pair, when it is a JWT.
LEMMA AccessTokenIs ==
  ASSUME IInv, NEW p, PairOK(p), NEW t, t = config[p.target], t.format = "jwt"
  PROVE  BearerDefects(p.accessToken, p)
           = t.tamper \cap {"iss", "aud", "exp", "signature"}
<1>1. PICK in, bare, names :
        /\ in = InputOf(p) /\ bare = AccessClaims(in)
        /\ names = in.tamper \cap {"iss", "aud", "exp"}
  OBVIOUS
<1>2. /\ in.issuer = t.issuer /\ in.subject = p.subject /\ in.audience = p.client
      /\ in.tamper = t.tamper
  BY <1>1, InputIs DEF IInv
<1>3. p.accessToken = BuildAccessToken(KeysOf(p), in)
  BY <1>1 DEF PairOK
<1>4. PICK claims : claims = p.accessToken.claims
  OBVIOUS
<1>5. claims = Corrupt(bare, names) /\ p.accessToken.key = SignWith(KeysOf(p), in.tamper)
  BY <1>1, <1>3, <1>4 DEF BuildAccessToken
<1>6. /\ DOMAIN bare = {"iss", "sub", "aud", "client_id", "scope", "iat", "exp"}
      /\ bare["iss"] = Good(t.issuer) /\ bare["sub"] = Good(p.subject)
      /\ bare["aud"] = Good(p.client) /\ bare["exp"] = Good(Unix(in.accessExpiry))
  BY <1>1, <1>2 DEF AccessClaims
<1>7. /\ DOMAIN claims = DOMAIN bare
      /\ \A c \in DOMAIN bare :
           claims[c] = IF c \in names THEN Tampered(bare[c]) ELSE bare[c]
  BY <1>5, CorruptIs
<1>8. /\ Carries(claims, "iss", t.issuer) <=> "iss" \notin t.tamper
      /\ Carries(claims, "sub", p.subject)
      /\ Carries(claims, "aud", p.client) <=> "aud" \notin t.tamper
  BY <1>1, <1>2, <1>6, <1>7, GoodOrTampered DEF Carries
<1>9. /\ claims["exp"].tampered <=> "exp" \in t.tamper
      /\ "nbf" \notin DOMAIN claims
  BY <1>1, <1>2, <1>6, <1>7, GoodOrTampered
<1>10. p.accessToken.key \in p.jwks <=> "signature" \notin t.tamper
  <2>1. KeysOf(p).unpublished # KeysOf(p).published
    BY KeysDiffer DEF IInv, PairOK, KeysOf
  <2>2. p.jwks = {KeysOf(p).published}
    BY SigningKey
  <2> QED
    BY <1>2, <1>5, <2>1, <2>2 DEF SignWith
<1> HIDE DEF Carries
<1> QED
  BY <1>4, <1>8, <1>9, <1>10 DEF BearerDefects

\* Whatever claims users have or bring, none takes the place of a protocol claim,
\* and a client finds wrong what tamper: asks for and, but for a nonce or an nbf
\* that the user's own claims add, nothing else; a token is expired or early when
\* it should be, to the second.
THEOREM OnlyDefectsAskedFor == Spec => []DefectsAreAskedFor
<1>1. IInv => DefectsAreAskedFor
  <2> SUFFICES ASSUME IInv PROVE DefectsAreAskedFor
    OBVIOUS
  <2>1. ASSUME NEW p \in Issued, NEW t, t = config[p.target],
               NEW claims, claims = p.idToken.claims,
               NEW custom, custom = ClaimsFor(t, p.subject, p.injected),
               NEW own, own = DOMAIN custom \ ProtocolClaims(p)
        PROVE  /\ IDDefects(p) \ (own \cap {"nonce", "nbf"})
                    = t.tamper \ (IF p.sent = None THEN {"nonce"} ELSE {})
               /\ \A c \in own : c \in DOMAIN claims /\ claims[c] = custom[c]
               /\ "exp" \notin t.tamper =>
                    /\ Expired(claims) => now + Second > p.at + t.idTTL
                    /\ now > p.at + t.idTTL => Expired(claims)
               /\ "nbf" \notin own =>
                    /\ TooEarly(claims) => now + Leeway < p.at + t.nbfSkew
                    /\ now + Leeway + Second <= p.at + t.nbfSkew => TooEarly(claims)
               /\ t.format = "jwt" =>
                    BearerDefects(p.accessToken, p)
                      = t.tamper \cap {"iss", "aud", "exp", "signature"}
    <3>1. PairOK(p)
      BY DEF IInv
    <3>2. IDDefects(p) \ (own \cap {"nonce", "nbf"})
            = t.tamper \ (IF p.sent = None THEN {"nonce"} ELSE {})
      BY <2>1, <3>1, IDDefectsAre
    <3>3. \A c \in own : c \in DOMAIN claims /\ claims[c] = custom[c]
      BY <2>1, <3>1, IDTokenIs DEF IInv
    <3>4. /\ Expired(claims) => now + Second > p.at + t.idTTL
          /\ now > p.at + t.idTTL => Expired(claims)
          /\ "nbf" \notin own =>
               /\ TooEarly(claims) => now + Leeway < p.at + t.nbfSkew
               /\ now + Leeway + Second <= p.at + t.nbfSkew => TooEarly(claims)
      BY <2>1, <3>1, TimesAreRight
    <3>5. t.format = "jwt" =>
            BearerDefects(p.accessToken, p)
              = t.tamper \cap {"iss", "aud", "exp", "signature"}
      BY <2>1, <3>1, AccessTokenIs
    <3> QED
      BY <3>2, <3>3, <3>4, <3>5
  <2> QED
    BY <2>1 DEF DefectsAreAskedFor
<1> QED
  BY <1>1, AlwaysIInv, PTL

-----------------------------------------------------------------------------
(* authside token.                                                         *)

\* Two pairs asked for alike differ in nonce and at_hash alone.
LEMMA SameClaims ==
  ASSUME IInv, NEW p, PairOK(p), NEW q, PairOK(q),
         p.target = q.target, p.subject = q.subject, p.injected = q.injected,
         p.client = q.client, p.scope = q.scope, p.at = q.at
  PROVE  /\ \A c \in DOMAIN p.idToken.claims \ {"nonce", "at_hash"} :
              /\ c \in DOMAIN q.idToken.claims
              /\ p.idToken.claims[c] = q.idToken.claims[c]
         /\ p.sent = q.sent =>
              ("nonce" \in DOMAIN p.idToken.claims <=> "nonce" \in DOMAIN q.idToken.claims)
         /\ config[p.target].format = "jwt" => p.accessToken.claims = q.accessToken.claims
<1>1. PICK t, i, j : t = config[p.target] /\ i = InputOf(p) /\ j = InputOf(q)
  OBVIOUS
<1>2. /\ i.issuer = j.issuer /\ i.subject = j.subject /\ i.audience = j.audience
      /\ i.scope = j.scope /\ i.at = j.at /\ i.idExpiry = j.idExpiry
      /\ i.accessExpiry = j.accessExpiry /\ i.nbf = j.nbf
      /\ i.custom = j.custom /\ i.tamper = j.tamper
      /\ i.nonce = p.sent /\ j.nonce = q.sent
  BY <1>1 DEF InputOf, Input
<1>3. PICK x, y, a, b : /\ a = p.accessToken /\ x = IDClaims(i, a)
                        /\ b = q.accessToken /\ y = IDClaims(j, b)
  OBVIOUS
<1>4. /\ p.idToken.claims = Corrupt(x, Corrupted(i))
      /\ q.idToken.claims = Corrupt(y, Corrupted(j))
  BY <1>1, <1>3 DEF PairOK, BuildIDToken
<1>5. /\ DOMAIN x = DOMAIN i.custom \cup ReservedNames(i)
      /\ \A c \in ReservedNames(i) : x[c] = Reserved(i, a)[c]
      /\ \A c \in DOMAIN i.custom \ ReservedNames(i) : x[c] = i.custom[c]
  <2>1. DOMAIN IDClaims(i, a) = DOMAIN i.custom \cup ReservedNames(i)
    BY IDClaimsAre
  <2>2. \A c \in ReservedNames(i) : IDClaims(i, a)[c] = Reserved(i, a)[c]
    BY ReservedIs DEF IDClaims, MapCopy
  <2>3. \A c \in DOMAIN i.custom \ ReservedNames(i) :
          IDClaims(i, a)[c] = i.custom[c]
    BY IDClaimsAre
  <2> QED
    BY <1>3, <2>1, <2>2, <2>3
<1>6. /\ DOMAIN y = DOMAIN j.custom \cup ReservedNames(j)
      /\ \A c \in ReservedNames(j) : y[c] = Reserved(j, b)[c]
      /\ \A c \in DOMAIN j.custom \ ReservedNames(j) : y[c] = j.custom[c]
  <2>1. DOMAIN IDClaims(j, b) = DOMAIN j.custom \cup ReservedNames(j)
    BY IDClaimsAre
  <2>2. \A c \in ReservedNames(j) : IDClaims(j, b)[c] = Reserved(j, b)[c]
    BY ReservedIs DEF IDClaims, MapCopy
  <2>3. \A c \in DOMAIN j.custom \ ReservedNames(j) :
          IDClaims(j, b)[c] = j.custom[c]
    BY IDClaimsAre
  <2> QED
    BY <1>3, <2>1, <2>2, <2>3
<1>7. /\ \A c : c # "nonce" => (c \in ReservedNames(i) <=> c \in ReservedNames(j))
      /\ "nonce" \in ReservedNames(i) <=> p.sent # None
      /\ "nonce" \in ReservedNames(j) <=> q.sent # None
  BY <1>2 DEF ReservedNames
<1>8. ASSUME NEW c \in ReservedNames(i), c # "nonce", c # "at_hash"
      PROVE  Reserved(i, a)[c] = Reserved(j, b)[c]
  <2>1. /\ Reserved(i, a)["iss"] = Reserved(j, b)["iss"]
        /\ Reserved(i, a)["sub"] = Reserved(j, b)["sub"]
        /\ Reserved(i, a)["aud"] = Reserved(j, b)["aud"]
        /\ Reserved(i, a)["iat"] = Reserved(j, b)["iat"]
        /\ Reserved(i, a)["exp"] = Reserved(j, b)["exp"]
    BY <1>2, ReservedIs
  <2>2. i.nbf # None => Reserved(i, a)["nbf"] = Reserved(j, b)["nbf"]
    BY <1>2, ReservedIs
  <2> QED
    BY <1>8, <2>1, <2>2 DEF ReservedNames
<1>9. \A c : c # "nonce" => (c \in Corrupted(i) <=> c \in Corrupted(j))
  BY <1>2 DEF Corrupted
<1>10. ASSUME NEW c \in DOMAIN x, c # "nonce", c # "at_hash"
       PROVE  c \in DOMAIN y /\ x[c] = y[c]
  BY <1>2, <1>5, <1>6, <1>7, <1>8, <1>10
<1>11. ASSUME NEW c \in DOMAIN p.idToken.claims \ {"nonce", "at_hash"}
       PROVE  /\ c \in DOMAIN q.idToken.claims
              /\ p.idToken.claims[c] = q.idToken.claims[c]
  <2>1. c \in DOMAIN x /\ c \in DOMAIN y /\ x[c] = y[c]
    BY <1>4, <1>10, CorruptIs
  <2> QED
    BY <1>4, <1>9, <2>1, CorruptIs
<1>12. p.sent = q.sent =>
         ("nonce" \in DOMAIN p.idToken.claims <=> "nonce" \in DOMAIN q.idToken.claims)
  <2>1. /\ DOMAIN p.idToken.claims = DOMAIN x
        /\ DOMAIN q.idToken.claims = DOMAIN y
    BY <1>4, CorruptIs
  <2> QED
    BY <1>2, <1>5, <1>6, <1>7, <2>1
<1>13. config[p.target].format = "jwt" => p.accessToken.claims = q.accessToken.claims
  <2> SUFFICES ASSUME config[p.target].format = "jwt"
               PROVE  p.accessToken.claims = q.accessToken.claims
    OBVIOUS
  <2>1. /\ p.accessToken.claims = Corrupt(AccessClaims(i), i.tamper \cap {"iss", "aud", "exp"})
        /\ q.accessToken.claims = Corrupt(AccessClaims(j), j.tamper \cap {"iss", "aud", "exp"})
    BY <1>1 DEF PairOK, BuildAccessToken
  <2>2. AccessClaims(i) = AccessClaims(j)
    BY <1>2 DEF AccessClaims
  <2> QED
    BY <1>2, <2>1, <2>2
<1> QED
  BY <1>11, <1>12, <1>13

\* What the command mints is what a login of the same configured user gets at that
\* moment, and it refuses just those who could not have logged in.
THEOREM MintsAreLogins == Spec => []MintMatchesLogin
<1>1. IInv => MintMatchesLogin
  <2> SUFFICES ASSUME IInv PROVE MintMatchesLogin
    OBVIOUS
  <2>1. ASSUME NEW p \in Issued, NEW q \in Issued, p.via = "mint", q.injected = None,
               p.target = q.target, p.subject = q.subject, p.client = q.client,
               p.scope = q.scope, p.at = q.at
        PROVE  /\ \A c \in (DOMAIN p.idToken.claims \cup DOMAIN q.idToken.claims)
                           \ {"nonce", "at_hash"} :
                     /\ c \in DOMAIN p.idToken.claims \cap DOMAIN q.idToken.claims
                     /\ p.idToken.claims[c] = q.idToken.claims[c]
               /\ q.sent = None =>
                     ("nonce" \in DOMAIN p.idToken.claims
                        <=> "nonce" \in DOMAIN q.idToken.claims)
               /\ config[p.target].format = "jwt" =>
                     p.accessToken.claims = q.accessToken.claims
    <3>1. PairOK(p) /\ PairOK(q) /\ p.sent = None /\ p.injected = None
      BY <2>1 DEF IInv, PairOK
    <3>2. /\ \A c \in DOMAIN p.idToken.claims \ {"nonce", "at_hash"} :
               /\ c \in DOMAIN q.idToken.claims
               /\ p.idToken.claims[c] = q.idToken.claims[c]
          /\ p.sent = q.sent =>
               ("nonce" \in DOMAIN p.idToken.claims
                  <=> "nonce" \in DOMAIN q.idToken.claims)
          /\ config[p.target].format = "jwt" =>
               p.accessToken.claims = q.accessToken.claims
      BY <2>1, <3>1, SameClaims
    <3>3. \A c \in DOMAIN q.idToken.claims \ {"nonce", "at_hash"} :
            c \in DOMAIN p.idToken.claims
      BY <2>1, <3>1, SameClaims
    <3> QED
      BY <3>1, <3>2, <3>3
  <2>2. command # None /\ command.outcome \notin {"usage", "target"} /\ server # None =>
          (command.outcome = "minted"
             <=> WouldLogIn(Picked(command.args), command.args.client, command.args.user))
    BY DEF IInv, AnswerOK
  <2> QED
    BY <2>1, <2>2 DEF MintMatchesLogin
<1> QED
  BY <1>1, AlwaysIInv, PTL
=============================================================================
