------------------------------ MODULE Minting ------------------------------
(***************************************************************************)
(* The tokens themselves: where a target's signing keys come from, what    *)
(* buildIDToken and buildAccessToken put into a token, what tamper: does   *)
(* to it, and `authside token`, the process that mints without a server.   *)
(* Target decides who gets tokens and when; here a login is one step.      *)
(*                                                                         *)
(* A hash and a signature are what they were computed from: at_hash is the *)
(* access token, a kid is the key, and a JWT is its claims and its key.    *)
(***************************************************************************)
EXTENDS Integers, Sequences, GoMaps

CONSTANTS
  Configs,      \* the configurations of this instance, each a sequence of targets
  Names, Issuers, Clients, Subjects, Nonces,
  Scopes,
  Keys,         \* RSA keys that a configuration supplies
  BadKey,       \* key_pem or key_file without a usable RSA key
  ClaimNames,   \* the names configured and injected claims have
  Text,         \* a claim's value that is no number
  NotJSON,      \* one that JSON cannot express, such as .nan
  Injected,     \* what the authside_claims cookies of this instance carry
  Second,       \* in units of the clock
  Leeway,       \* by which go-oidc lets nbf be in the future
  MaxTime, MaxMints, MaxProcesses,   \* bounds
  None

Tamperable == {"at_hash", "iss", "aud", "nonce", "exp", "signature"}

\* The claims of a user: a number is a time for the one claim that is read as one.
Custom == [ClaimNames -> Int \cup {Text, NotJSON, None}]

TargetConfig ==
  [name : Names, issuer : Issuers,
   needs : ClaimNames \cup {None},   \* the ${claims.x} of the issuer template
   clients : SUBSET Clients, users : SUBSET Subjects, anyUser : BOOLEAN,
   custom : Custom,                  \* the claims of each configured user
   acceptInjected : BOOLEAN,
   key : Keys \cup {BadKey, None}, tamper : SUBSET Tamperable,
   format : {"jwt", "opaque"}, idTTL : Int, accessTTL : Int, nbfSkew : Int]

\* A generated key: the process, the target, and which of its two it is.
Generated == Nat \X Nat \X {"published", "unpublished"}

\* Names are unique (Validate), and the dry run of the issuer template has
\* succeeded for every configured user (buildTarget); a generated key is none
\* that was supplied; what a cookie carries was JSON.
ASSUME MintingAssumption ==
  /\ Second \in Nat \ {0} /\ Leeway \in Nat
  /\ {None, Text, NotJSON} \cap Int = {} /\ None # Text /\ NotJSON \notin {None, Text}
  /\ None \notin Nonces \cup ClaimNames /\ None \notin Injected
  /\ Injected \subseteq [ClaimNames -> Int \cup {Text, None}]
  /\ BadKey \notin Keys /\ None \notin Keys \cup {BadKey}
  /\ (Keys \cup {BadKey}) \cap Generated = {}
  /\ Configs \subseteq Seq(TargetConfig)
  /\ \A config \in Configs : \A n \in DOMAIN config :
       /\ \A m \in DOMAIN config : config[m].name = config[n].name => m = n
       /\ config[n].users # {} /\ config[n].needs # None =>
            config[n].custom[config[n].needs] # None

VARIABLES
  config,      \* cfg.Targets
  now,         \* the clock
  processes,   \* how many processes have built targets, the server's and the command's
  server,      \* the running server: its process and each target's key set
  issued,      \* the tokens handed out so far
  command      \* the `authside token` that just ended: arguments, outcome, note

vars == <<config, now, processes, server, issued, command>>

-----------------------------------------------------------------------------
(* internal/keys.                                                          *)

\* Mutant: a supplied key is not looked at.
KeySetGenerated(t, n, p) ==
  [published |-> <<p, n, "published">>, unpublished |-> <<p, n, "unpublished">>]

\* keys.New in process p for target n: a generated key is new, in every process.
KeySet(t, n, p) ==
  [published |-> IF t.key # None THEN t.key ELSE <<p, n, "published">>,
   unpublished |-> <<p, n, "unpublished">>]

\* loadRSAKey: not PEM, or not an RSA key, is an error of New's.
LoadRSAKeyOK(t) == t.key # BadKey

JWKS(keys) == {keys.published}

-----------------------------------------------------------------------------
(* Claims.                                                                 *)

Unix(t) == t \div Second

Good(v) == [value |-> v, tampered |-> FALSE]
Tampered(claim) == [claim EXCEPT !.tampered = TRUE]

LookupUserOK(t, sub) == sub \in t.users \/ t.anyUser

Literally(values, names) ==
  [c \in {d \in names : values[d] # None} |-> Good(values[c])]

\* claimsFor: an injected identity brings its claims, whoever is configured, but
\* sub is the subject; a user nobody configured has none.
ClaimsFor(t, sub, inj) ==
  IF inj # None THEN Literally(inj, ClaimNames \ {"sub"})
  ELSE IF sub \in t.users THEN Literally(t.custom, ClaimNames)
  ELSE EmptyMap

\* The issuer template, which may ask for a claim this login does not have.
IssuerOK(t, sub, inj) == t.needs \in DOMAIN ClaimsFor(t, sub, inj) \cup {None}

\* nbfFor
NbfFor(t, at) == IF t.nbfSkew = 0 THEN None ELSE at + t.nbfSkew

\* The claims of an access token, and which of them tamper corrupts.
AccessClaims(in) ==
  [iss |-> Good(in.issuer), sub |-> Good(in.subject), aud |-> Good(in.audience),
   client_id |-> Good(in.audience), scope |-> Good(in.scope),
   iat |-> Good(Unix(in.at)), exp |-> Good(Unix(in.accessExpiry))]

Corrupt(claims, names) ==
  [c \in DOMAIN claims |-> IF c \in names THEN Tampered(claims[c]) ELSE claims[c]]

\* Sign or SignUnpublished.
SignWith(keys, tamper) ==
  IF "signature" \in tamper THEN keys.unpublished ELSE keys.published

BuildAccessToken(keys, in) ==
  [claims |-> Corrupt(AccessClaims(in), in.tamper \cap {"iss", "aud", "exp"}),
   key |-> SignWith(keys, in.tamper)]

\* mintAccessToken; an opaque token is a random string.
MintAccessToken(keys, in, format, random) ==
  IF format = "opaque" THEN [random |-> random] ELSE BuildAccessToken(keys, in)

Reserved(in, at) ==
  LET always ==
        [iss |-> Good(in.issuer), sub |-> Good(in.subject), aud |-> Good(in.audience),
         iat |-> Good(Unix(in.at)), exp |-> Good(Unix(in.idExpiry)),
         at_hash |-> Good(at)]
      withNbf == IF in.nbf = None THEN always
                 ELSE MapPut(always, "nbf", Good(Unix(in.nbf)))
  IN IF in.nonce = None THEN withNbf ELSE MapPut(withNbf, "nonce", Good(in.nonce))

\* Mutant: the custom claims are set after the reserved ones.
IDClaimsCustomLast(in, at) == MapCopy(Reserved(in, at), in.custom)

\* Reserved claims, those this token has, are set after the custom ones.
IDClaims(in, at) == MapCopy(in.custom, Reserved(in, at))

\* json.Marshal: a value that a reserved claim replaces is not asked for.
Encodable(in) ==
  \A c \in DOMAIN in.custom \ DOMAIN Reserved(in, None) : in.custom[c] # Good(NotJSON)

\* A nonce is corrupted only where the login had one.
Corrupted(in) ==
  in.tamper \cap ({"iss", "aud", "at_hash", "exp"}
                  \cup (IF in.nonce # None THEN {"nonce"} ELSE {}))

BuildIDToken(keys, in, at) ==
  [claims |-> Corrupt(IDClaims(in, at), Corrupted(in)),
   key |-> SignWith(keys, in.tamper)]

\* A login, the arguments both builders get.
Input(t, sub, inj, client, scope, nonce, at) ==
  [issuer |-> t.issuer, subject |-> sub, audience |-> client, scope |-> scope,
   at |-> at, accessExpiry |-> at + t.accessTTL, idExpiry |-> at + t.idTTL,
   nbf |-> NbfFor(t, at), nonce |-> nonce, custom |-> ClaimsFor(t, sub, inj),
   injected |-> inj, tamper |-> t.tamper]

\* What a grant hands out, with what it was asked for.  sent is the nonce of the
\* request, the number of tokens before it stands for its random string.
Pair(via, process, n, keys, in) ==
  LET at == MintAccessToken(keys, in, config[n].format, Len(issued))
  IN [via |-> via, process |-> process, target |-> n, sent |-> in.nonce,
      subject |-> in.subject, injected |-> in.injected, client |-> in.audience,
      scope |-> in.scope, at |-> in.at,
      accessToken |-> at, idToken |-> BuildIDToken(keys, in, at), jwks |-> JWKS(keys)]

-----------------------------------------------------------------------------
(* The server.                                                             *)

\* authside.New: one target whose key is unusable, and nothing is served.
Started(p) ==
  IF \E n \in DOMAIN config : ~LoadRSAKeyOK(config[n]) THEN None
  ELSE [process |-> p, keys |-> [n \in DOMAIN config |-> KeySet(config[n], n, p)]]

\* Whoever brings an identity of his own need not be configured.
CanLogIn(n, client, sub, inj) ==
  /\ server # None
  /\ client \in config[n].clients
  /\ IF inj # None THEN config[n].acceptInjected ELSE LookupUserOK(config[n], sub)
  /\ IssuerOK(config[n], sub, inj)

\* /authorize and the exchange of its code, which fails where the ID token cannot
\* be encoded.
Login(n, client, sub, inj, scope, nonce) ==
  /\ CanLogIn(n, client, sub, inj) /\ Len(issued) < MaxMints
  /\ LET in == Input(config[n], sub, inj, client, scope, nonce, now)
     IN /\ Encodable(in)
        /\ issued' = Append(issued,
             Pair("login", server.process, n, server.keys[n], in))
  /\ command' = None
  /\ UNCHANGED <<config, now, processes, server>>

\* A refresh of a chain this process began: the same identity, but no nonce.
Refresh(k) ==
  /\ server # None /\ Len(issued) < MaxMints
  /\ issued[k].via # "mint" /\ issued[k].process = server.process
  /\ LET old == issued[k]
         in == Input(config[old.target], old.subject, old.injected, old.client,
                     old.scope, None, now)
     IN /\ Encodable(in)
        /\ issued' = Append(issued,
             Pair("refresh", server.process, old.target, server.keys[old.target], in))
  /\ command' = None
  /\ UNCHANGED <<config, now, processes, server>>

\* Codes, sessions and refresh tokens die with the process, generated keys too.
Restart ==
  /\ processes < MaxProcesses
  /\ processes' = processes + 1
  /\ server' = Started(processes + 1)
  /\ command' = None
  /\ UNCHANGED <<config, now, issued>>

-----------------------------------------------------------------------------
(* authside token.                                                         *)

Arguments ==
  [target : Names \cup {None}, client : Clients \cup {None},
   user : Subjects \cup {None}, scope : Scopes]

\* pickTarget: the targets it may mean, none when that is an error.
PickTarget(name) ==
  IF name = None THEN (IF Len(config) = 1 THEN {1} ELSE {})
  ELSE {n \in DOMAIN config : config[n].name = name}

Picked(args) == CHOOSE n \in PickTarget(args.target) : TRUE

\* Mutant: nbf is the grants' business.
MintInputWithoutNbf(t, args) ==
  [Input(t, args.user, None, args.client, args.scope, None, now) EXCEPT !.nbf = None]

\* There was no authentication request to take a nonce from.
MintInput(t, args) == Input(t, args.user, None, args.client, args.scope, None, now)

\* Why nothing is minted, in the order runToken and Mint look.
Outcome(args) ==
  IF args.client = None \/ args.user = None THEN "usage"
  ELSE IF PickTarget(args.target) = {} THEN "target"
  ELSE LET t == config[Picked(args)]
       IN IF ~LoadRSAKeyOK(t) THEN "keys"
          ELSE IF args.client \notin t.clients THEN "client"
          ELSE IF ~LookupUserOK(t, args.user) THEN "user"
          ELSE IF ~IssuerOK(t, args.user, None) THEN "issuer"
          ELSE IF ~Encodable(MintInput(t, args)) THEN "encoding"
          ELSE "minted"

\* A process of its own builds the target, mints, and registers nothing.
Mint(args) ==
  /\ processes < MaxProcesses /\ Len(issued) < MaxMints
  /\ LET n == Picked(args)
     IN IF Outcome(args) = "minted"
          THEN /\ processes' = processes + 1
               /\ issued' = Append(issued,
                    Pair("mint", processes + 1, n, KeySet(config[n], n, processes + 1),
                         MintInput(config[n], args)))
               /\ command' = [args |-> args, outcome |-> "minted",
                              ephemeral |-> config[n].key = None]
          ELSE /\ UNCHANGED <<processes, issued>>
               /\ command' = [args |-> args, outcome |-> Outcome(args), ephemeral |-> FALSE]
  /\ UNCHANGED <<config, now, server>>

Tick ==
  /\ now < MaxTime
  /\ now' = now + 1
  /\ command' = None
  /\ UNCHANGED <<config, processes, server, issued>>

Init ==
  /\ config \in Configs
  /\ now = 0
  /\ processes = 1
  /\ server = Started(1)
  /\ issued = <<>>
  /\ command = None

Next ==
  \/ \E n \in DOMAIN config, client \in Clients, sub \in Subjects,
        inj \in Injected \cup {None}, scope \in Scopes, nonce \in Nonces \cup {None} :
       Login(n, client, sub, inj, scope, nonce)
  \/ \E k \in DOMAIN issued : Refresh(k)
  \/ Restart
  \/ \E args \in Arguments : Mint(args)
  \/ Tick

Spec == Init /\ [][Next]_vars

-----------------------------------------------------------------------------
(* What a correct client, go-oidc's verifier with the checks it leaves to  *)
(* its caller, finds wrong with a token.                                   *)

Expired(claims) == claims.exp.value * Second < now
TooEarly(claims) ==
  "nbf" \in DOMAIN claims /\ claims.nbf.value * Second > now + Leeway

Carries(claims, name, value) ==
  name \in DOMAIN claims /\ claims[name] = Good(value)

\* exp must be a number, and nbf where there is one, or nothing can be read.
BearerDefects(token, p) ==
  LET claims == token.claims
  IN {d \in {"iss", "sub", "aud", "exp", "nbf", "signature"} :
        \/ d = "iss" /\ ~Carries(claims, "iss", config[p.target].issuer)
        \/ d = "sub" /\ ~Carries(claims, "sub", p.subject)
        \/ d = "aud" /\ ~Carries(claims, "aud", p.client)
        \/ d = "exp" /\ claims.exp.tampered
        \/ d = "nbf" /\ "nbf" \in DOMAIN claims /\ claims.nbf.value \notin Int
        \/ d = "signature" /\ token.key \notin p.jwks}

\* No nonce was sent: there must be none.
IDDefects(p) ==
  LET claims == p.idToken.claims
  IN BearerDefects(p.idToken, p)
     \cup {d \in {"at_hash", "nonce"} :
             \/ d = "at_hash" /\ ~Carries(claims, "at_hash", p.accessToken)
             \/ /\ d = "nonce"
                /\ IF p.sent = None THEN "nonce" \in DOMAIN claims
                   ELSE ~Carries(claims, "nonce", p.sent)}

-----------------------------------------------------------------------------
(* Properties.                                                             *)

Issued == {issued[k] : k \in DOMAIN issued}

\* The protocol's claims that a login calls for.
ProtocolClaims(p) ==
  {"iss", "sub", "aud", "iat", "exp", "at_hash"}
  \cup (IF config[p.target].nbfSkew = 0 THEN {} ELSE {"nbf"})
  \cup (IF p.sent = None THEN {} ELSE {"nonce"})

\* A client finds wrong with an ID token what tamper: names, and nothing else;
\* nonce only where the login had one (buildIDToken).  No claim of the user's own
\* takes the place of a protocol claim, and every other one arrives as it is: so
\* what the two checks find that such a claim alone causes, a nonce nobody sent
\* or an nbf where no skew is configured, is not the program's.  The times are
\* right to the second.
DefectsAreAskedFor ==
  \A p \in Issued :
    LET t == config[p.target]
        claims == p.idToken.claims
        custom == ClaimsFor(t, p.subject, p.injected)
        own == DOMAIN custom \ ProtocolClaims(p)
    IN /\ IDDefects(p) \ (own \cap {"nonce", "nbf"})
            = t.tamper \ (IF p.sent = None THEN {"nonce"} ELSE {})
       /\ \A c \in own : c \in DOMAIN claims /\ claims[c] = custom[c]
       /\ "exp" \notin t.tamper =>
            /\ Expired(claims) => now + Second > p.at + t.idTTL
            /\ now > p.at + t.idTTL => Expired(claims)
       /\ "nbf" \notin own =>
            /\ TooEarly(claims) => now + Leeway < p.at + t.nbfSkew
            /\ now + Leeway + Second <= p.at + t.nbfSkew => TooEarly(claims)
       /\ t.format = "jwt" =>
            BearerDefects(p.accessToken, p) = t.tamper \cap {"iss", "aud", "exp", "signature"}

\* Which processes and targets verify each other's tokens: with a supplied key
\* all that have it, with a generated one the target of the process that signed;
\* tamper: [signature] nobody.  So what `authside token` mints verifies at a
\* running server just when its note on stderr does not say otherwise
\* (keysAreEphemeralNote), and always against --jwks.
VerifiesWhereItShould ==
  /\ \A p \in Issued :
       LET key == config[p.target].key
           honest == "signature" \notin config[p.target].tamper
       IN /\ p.idToken.key \in p.jwks <=> honest
          /\ server # None =>
               \A m \in DOMAIN config :
                 p.idToken.key \in JWKS(server.keys[m]) <=>
                   /\ honest
                   /\ \/ key # None /\ config[m].key = key
                      \/ key = None /\ p.process = server.process /\ p.target = m
  /\ command # None /\ command.outcome = "minted" /\ server # None =>
       LET p == issued[Len(issued)]
       IN "signature" \notin config[p.target].tamper =>
            (command.ephemeral <=> p.idToken.key \notin JWKS(server.keys[p.target]))

\* The server would give tokens to this user, without an injected identity or a
\* nonce, neither of which `authside token` has.
WouldLogIn(n, client, sub) ==
  /\ CanLogIn(n, client, sub, None)
  /\ Encodable(Input(config[n], sub, None, client, None, None, now))

\* "A caller comparing the two is meant to find no difference": a minted pair is
\* what a login of the same configured user at the same moment gets, or its
\* refresh, but for the nonce, the random string and the key; who is refused a
\* mint could not have logged in, and who is not, could have, as long as a server
\* runs (Mint).  An injected identity the command has no argument for.
MintMatchesLogin ==
  /\ \A p, q \in Issued :
       /\ p.via = "mint" /\ q.via # "mint" /\ q.injected = None
       /\ <<p.target, p.subject, p.client, p.scope, p.at>>
            = <<q.target, q.subject, q.client, q.scope, q.at>>
       => /\ \A c \in (DOMAIN p.idToken.claims \cup DOMAIN q.idToken.claims)
                     \ {"nonce", "at_hash"} :
               /\ c \in DOMAIN p.idToken.claims \cap DOMAIN q.idToken.claims
               /\ p.idToken.claims[c] = q.idToken.claims[c]
          /\ q.sent = None =>
               ("nonce" \in DOMAIN p.idToken.claims
                  <=> "nonce" \in DOMAIN q.idToken.claims)
          /\ config[p.target].format = "jwt" =>
               p.accessToken.claims = q.accessToken.claims
  /\ command # None /\ command.outcome \notin {"usage", "target"} /\ server # None =>
       (command.outcome = "minted"
          <=> WouldLogIn(Picked(command.args), command.args.client, command.args.user))
=============================================================================
