------------------------ MODULE TargetContractProofs ------------------------
(***************************************************************************)
(* What the target's clients can rely on, for every value of the constants: *)
(* that a revoked token stays dead, what two refreshes with one token and  *)
(* /userinfo beside an ID token are told, and, with opaque access tokens,  *)
(* that every step of the stores and handlers is a step of LoginContract, of *)
(* one login, or changes nothing it can see.  An opaque token names the grant *)
(* that minted it, so it belongs to one family and, once deleted, is never *)
(* stored again.  (A JWT may be: see the run JWTRevocation.)               *)
(***************************************************************************)
EXTENDS TargetContract, TargetChainProofs

Opaque == AccessTokenFormat = "opaque"

\* Access token at was delivered, by the grant it names, to family f.
DeliveredIn(at, f) ==
  \E r \in Requests :
    /\ at = OpaqueToken(r)
    /\ pc[r] = "done" /\ resp[r].at = at
    /\ resp[r].rt \in DOMAIN tokens
    /\ tokens[resp[r].rt].family = f

DoomedOK(r) ==
  pc[r] = "sweep" =>
    /\ req[r].token \in DOMAIN tokens
    /\ \A at \in local[r].doomed : DeliveredIn(at, tokens[req[r].token].family)

ReplyOpaque(r) ==
  resp[r].at # None => pc[r] = "done" /\ resp[r].at = OpaqueToken(r)

Tracked ==
  /\ \A f \in DOMAIN families :
       \A at \in families[f].accessTokens : DeliveredIn(at, f)
  /\ \A r \in Requests : DoomedOK(r) /\ ReplyOpaque(r)

LEMMA OpaqueTokens ==
  ASSUME NEW r, NEW q, OpaqueToken(r) = OpaqueToken(q)
  PROVE  r = q
BY DEF OpaqueToken

\* The token a grant has minted is named after it.
LEMMA MintedOpaque ==
  ASSUME Opaque, Owned, NEW r \in Requests, pc[r] \in {"put", "issue", "track"}
  PROVE  local[r].at = OpaqueToken(r)
BY DEF Opaque, Owned, OwnerOK, MintAccessToken

LEMMA RepliesStay ==
  ASSUME Inv, [Next]_vars, NEW r \in Requests, pc[r] = "done"
  PROVE  pc'[r] = "done" /\ resp'[r] = resp[r] /\ req'[r] = req[r]
<1>1. CASE Elsewhere
  BY <1>1 DEF Elsewhere
<1>2. ASSUME NEW q \in Requests, Arrives(q) \/ Serve(q)
      PROVE  pc'[r] = "done" /\ resp'[r] = resp[r] /\ req'[r] = req[r]
  <2>1. q # r /\ OthersStay(q)
    BY <1>2, ArriveOthers, ServeOthers DEF Arrives
  <2> QED
    BY <2>1 DEF OthersStay
<1> QED
  BY <1>1, <1>2, NextCases

LEMMA DeliveredStays ==
  ASSUME Inv, FreshOK, [Next]_vars, NEW at, NEW f, DeliveredIn(at, f)
  PROVE  DeliveredIn(at, f)'
<1>1. PICK r \in Requests : /\ at = OpaqueToken(r)
                            /\ pc[r] = "done" /\ resp[r].at = at
                            /\ resp[r].rt \in DOMAIN tokens
                            /\ tokens[resp[r].rt].family = f
  BY DEF DeliveredIn
<1>2. pc'[r] = "done" /\ resp'[r] = resp[r]
  BY <1>1, RepliesStay
<1>3. resp[r].rt \in DOMAIN tokens' /\ tokens'[resp[r].rt].family = f
  BY <1>1, StepKeeps DEF TokensKeep
<1> QED
  BY <1>1, <1>2, <1>3 DEF DeliveredIn

LEMMA TrackDelivers ==
  ASSUME Opaque, Inv, Owned, Chained, NEW r \in Requests, Track(r),
         NEW at, at = local[r].at, NEW f, f = local[r].family
  PROVE  DeliveredIn(at, f)'
<1>1. pc[r] = "track" /\ pc'[r] = "done" /\ UNCHANGED tokens
  BY TrackEffect
<1>2. resp'[r].at = local[r].at
  BY TrackEffect
<1>3. resp'[r].rt = local[r].next
  BY TrackEffect
<1>4. local[r].next \in DOMAIN tokens /\ tokens[local[r].next].family = local[r].family
  BY <1>1 DEF Chained, GrantChain, InFamily
<1>5. local[r].at = OpaqueToken(r)
  BY <1>1, MintedOpaque
<1>6. /\ at = OpaqueToken(r)
      /\ pc'[r] = "done" /\ resp'[r].at = at
      /\ resp'[r].rt \in DOMAIN tokens'
      /\ tokens'[resp'[r].rt].family = f
  BY <1>1, <1>2, <1>3, <1>4, <1>5
<1> QED
  BY <1>6 DEF DeliveredIn

LEMMA FamiliesTrack ==
  ASSUME Opaque, Inv, FreshOK, Owned, Chained, Tracked, [Next]_vars,
         NEW f \in DOMAIN families', NEW at \in families'[f].accessTokens
  PROVE  DeliveredIn(at, f)'
<1>1. CASE f \in DOMAIN families /\ at \in families[f].accessTokens
  BY <1>1, DeliveredStays DEF Tracked
<1>2. ASSUME NEW r \in Requests, Issue(r)
      PROVE  f \in DOMAIN families /\ at \in families[f].accessTokens
  <2>1. DOMAIN families' = DOMAIN families \cup {r}
    BY <1>2, IssueEffect
  <2>2. families'[r].accessTokens = {}
    BY <1>2, IssueEffect
  <2>3. \A g \in DOMAIN families : families'[g] = families[g]
    BY <1>2, IssueEffect
  <2> QED
    BY <2>1, <2>2, <2>3
<1>3. ASSUME NEW r \in Requests, Track(r) PROVE DeliveredIn(at, f)'
  <2>1. DOMAIN families' = DOMAIN families
    BY <1>3, TrackEffect
  <2>2. \/ at \in families[f].accessTokens
        \/ f = local[r].family /\ at = local[r].at
    <3>1. CASE UNCHANGED families
      BY <3>1
    <3>2. CASE ~UNCHANGED families
      <4>1. /\ families'[local[r].family].accessTokens =
                 families[local[r].family].accessTokens \cup {local[r].at}
            /\ \A g \in DOMAIN families \ {local[r].family} : families'[g] = families[g]
        BY <1>3, <3>2, TrackEffect
      <4> QED
        BY <2>1, <4>1
    <3> QED
      BY <3>1, <3>2
  <2> QED
    BY <1>1, <1>3, <2>1, <2>2, TrackDelivers
<1>4. ASSUME NEW r \in Requests, RefreshDetectsReuse(r) \/ RevokeFamily(r)
      PROVE  f \in DOMAIN families /\ at \in families[f].accessTokens
  <2> DEFINE g == tokens[req[r].token].family
  <2>1. DOMAIN families' = DOMAIN families
    BY <1>4, RevokeEffect
  <2>2. families'[g].accessTokens = families[g].accessTokens
    BY <1>4, RevokeEffect
  <2>3. \A h \in DOMAIN families \ {g} : families'[h] = families[h]
    BY <1>4, RevokeEffect
  <2> QED
    BY <2>1, <2>2, <2>3
<1>5. CASE UNCHANGED families
  BY <1>1, <1>5
<1> QED
  BY <1>1, <1>2, <1>3, <1>4, <1>5, NextCases, Dispatch, ArriveEffect
     DEF Elsewhere, Arrives

LEMMA SweepTracks ==
  ASSUME Opaque, Inv, FreshOK, Owned, Chained, Tracked, [Next]_vars,
         NEW r \in Requests, Serve(r)
  PROVE  DoomedOK(r)'
<1> SUFFICES ASSUME pc'[r] = "sweep" PROVE DoomedOK(r)'
  BY DEF DoomedOK
<1> PICK t : t = req[r].token
  OBVIOUS
<1> PICK f : f = tokens[t].family
  OBVIOUS
<1>0. UNCHANGED req
  BY ServeOthers
<1>1. CASE RefreshDetectsReuse(r) \/ RevokeFamily(r)
  <2>1. t \in DOMAIN tokens /\ UNCHANGED tokens /\ f \in DOMAIN families
    BY <1>1, RevokeEffect
  <2>2. local'[r].doomed = families[f].accessTokens
    BY <1>1, RevokeEffect
  <2>3. \A at \in families[f].accessTokens : DeliveredIn(at, f)'
    BY <2>1, DeliveredStays DEF Tracked
  <2>4. \A at \in local'[r].doomed : DeliveredIn(at, f)'
    BY <2>2, <2>3
  <2> QED
    BY <1>0, <2>1, <2>4 DEF DoomedOK
<1>2. CASE Sweep(r)
  <2>1. pc[r] = "sweep" /\ UNCHANGED tokens /\ local'[r].doomed \subseteq local[r].doomed
    BY <1>2, SweepEffect
  <2>2. t \in DOMAIN tokens /\ \A at \in local[r].doomed : DeliveredIn(at, f)
    BY <2>1 DEF Tracked, DoomedOK
  <2>3. \A at \in local[r].doomed : DeliveredIn(at, f)'
    BY <2>2, DeliveredStays
  <2>4. \A at \in local'[r].doomed : DeliveredIn(at, f)'
    BY <2>1, <2>3
  <2> QED
    BY <1>0, <2>1, <2>2, <2>4 DEF DoomedOK
<1>3. /\ pc[r] \in {"refresh", "revokeFamily", "sweep"}
      /\ ~EndSweep(r) /\ ~RefreshRefuses(r) /\ ~UseRefresh(r) /\ ~RevokeFamilyRefuses(r)
  <2>1. pc[r] \in {"refresh", "revokeFamily", "sweep"}
    <3>1. pc[r] \in Labels \ {"idle", "done"}
      BY ServeOthers DEF Inv, TypeOK
    <3>2. pc[r] \notin {"consume", "put", "issue", "track", "mint"}
      BY ServeMoves
    <3>3. pc[r] \notin {"find", "delete", "lookup"}
      BY Dispatch, LookEffect, DeleteEffect, LookupEffect DEF Answered
    <3> QED
      BY <3>1, <3>2, <3>3 DEF Labels
  <2>2. ~EndSweep(r) /\ ~RefreshRefuses(r)
    BY EndSweepEffect, RefuseEffect DEF Answered
  <2>3. ~UseRefresh(r)
    BY UseRefreshEffect
  <2>4. ~RevokeFamilyRefuses(r)
    BY LookEffect DEF Answered
  <2> QED
    BY <2>1, <2>2, <2>3, <2>4
<1> QED
  BY <1>1, <1>2, <1>3, Dispatch

LEMMA ReplyTracks ==
  ASSUME Opaque, Inv, Owned, Tracked, [Next]_vars, NEW r \in Requests
  PROVE  ReplyOpaque(r)'
<1>0. ReplyOpaque(r)
  BY DEF Tracked
<1>1. CASE pc'[r] = pc[r] /\ resp'[r] = resp[r]
  BY <1>0, <1>1 DEF ReplyOpaque
<1>2. CASE Arrives(r)
  <2>1. pc[r] = "idle" /\ resp[r].at = None
    BY <1>0, <1>2, ArriveEffect DEF Arrives, ReplyOpaque
  <2>2. CASE resp'[r] = resp[r]
    BY <2>1, <2>2 DEF ReplyOpaque
  <2>3. CASE \E s : resp'[r] = Status(s)
    BY <2>3 DEF ReplyOpaque, Status, NoReply
  <2> QED
    BY <1>2, <2>2, <2>3, ArriveEffect DEF Arrives, Answered
<1>3. CASE Serve(r)
  <2>1. pc[r] # "done" /\ resp[r].at = None
    BY <1>0, <1>3, ServeOthers DEF ReplyOpaque
  <2>2. CASE Track(r)
    <3>1. pc[r] = "track" /\ pc'[r] = "done"
      BY <2>2, TrackEffect
    <3>2. resp'[r].at = local[r].at
      BY <2>2, TrackEffect
    <3> QED
      BY <3>1, <3>2, MintedOpaque DEF ReplyOpaque
  <2>3. CASE ~Track(r)
    BY <1>3, <2>1, <2>3, ServeReplies DEF ReplyOpaque
  <2> QED
    BY <2>2, <2>3
<1>4. ASSUME NEW q \in Requests, Arrives(q) \/ Serve(q), q # r
      PROVE  pc'[r] = pc[r] /\ resp'[r] = resp[r]
  BY <1>4, ArriveOthers, ServeOthers DEF Arrives, OthersStay
<1> QED
  BY <1>1, <1>2, <1>3, <1>4, NextCases DEF Elsewhere

LEMMA DoomedStays ==
  ASSUME Inv, FreshOK, [Next]_vars, NEW r \in Requests, DoomedOK(r),
         pc'[r] = pc[r], req'[r] = req[r], local'[r] = local[r]
  PROVE  DoomedOK(r)'
<1> SUFFICES ASSUME pc[r] = "sweep" PROVE DoomedOK(r)'
  BY DEF DoomedOK
<1>1. PICK t \in DOMAIN tokens : t = req[r].token
  BY DEF DoomedOK
<1>2. PICK f : f = tokens[t].family
  OBVIOUS
<1>3. t \in DOMAIN tokens' /\ tokens'[t].family = f
  BY <1>2, StepKeeps DEF TokensKeep
<1>4. \A at \in local[r].doomed : DeliveredIn(at, f)'
  BY <1>1, <1>2, DeliveredStays DEF DoomedOK
<1> QED
  BY <1>1, <1>3, <1>4 DEF DoomedOK

LEMMA TrackedStep ==
  ASSUME Opaque, Inv, FreshOK, Owned, Chained, Tracked, [Next]_vars
  PROVE  Tracked'
<1>1. \A f \in DOMAIN families' :
        \A at \in families'[f].accessTokens : DeliveredIn(at, f)'
  BY FamiliesTrack
<1>2. ASSUME NEW r \in Requests PROVE DoomedOK(r)'
  <2>1. CASE pc'[r] = pc[r] /\ req'[r] = req[r] /\ local'[r] = local[r]
    BY <2>1, DoomedStays DEF Tracked
  <2>2. CASE Arrives(r)
    BY <2>2, ArriveEffect DEF Arrives, Answered, DoomedOK
  <2>3. CASE Serve(r)
    BY <2>3, SweepTracks
  <2>4. ASSUME NEW q \in Requests, Arrives(q) \/ Serve(q), q # r
        PROVE  pc'[r] = pc[r] /\ req'[r] = req[r] /\ local'[r] = local[r]
    BY <2>4, ArriveOthers, ServeOthers DEF Arrives, OthersStay
  <2> QED
    BY <2>1, <2>2, <2>3, <2>4, NextCases DEF Elsewhere
<1> QED
  BY <1>1, <1>2, ReplyTracks DEF Tracked

LEMMA TrackedAlways == Opaque /\ Spec => [](Inv /\ FreshOK /\ Owned /\ Chained /\ Tracked)
<1> SUFFICES ASSUME Opaque
             PROVE  Spec => [](Inv /\ FreshOK /\ Owned /\ Chained /\ Tracked)
  OBVIOUS
<1>1. Init => Tracked
  BY DEF Init, RefreshInit, EmptyMap, Tracked, DoomedOK, ReplyOpaque, NoReply
<1>2. Inv /\ FreshOK /\ Owned /\ Chained /\ Tracked /\ [Next]_vars => Tracked'
  BY TrackedStep
<1> QED
  BY <1>1, <1>2, ChainedAlways, PTL DEF Spec

\* With opaque access tokens, once a revocation is over no access token of the
\* family works, those delivered during the revocation included
\* (revokeFamilyLocked, trackAccessToken).
THEOREM RevokedFamiliesAreDead == Opaque /\ Spec => []RevokedFamilyIsDead
<1> SUFFICES ASSUME Opaque PROVE Spec => []RevokedFamilyIsDead
  OBVIOUS
<1>1. ASSUME Inv, Owned, Tracked, NoOrphanAccessToken PROVE RevokedFamilyIsDead
  <2> SUFFICES ASSUME NEW r \in Requests, Granted(r),
                      families[FamilyOf(r)].revoked, ~Sweeping(FamilyOf(r)),
                      resp[r].at \in DOMAIN sessions
               PROVE  FALSE
    BY DEF RevokedFamilyIsDead
  <2>1. pc[r] = "done" /\ resp[r].at = OpaqueToken(r)
    BY <1>1 DEF Tracked, ReplyOpaque, Granted
  <2>2. ASSUME NEW f, DeliveredIn(resp[r].at, f) PROVE f = FamilyOf(r)
    BY <2>1, <2>2, OpaqueTokens DEF DeliveredIn, FamilyOf
  <2>3. ASSUME NEW q \in Requests, pc[q] \in {"issue", "track"}
        PROVE  local[q].at # resp[r].at
    BY <1>1, <2>1, <2>3, MintedOpaque, OpaqueTokens
  <2>4. ASSUME NEW f \in DOMAIN families, resp[r].at \in families[f].accessTokens
        PROVE  families[f].revoked
    BY <1>1, <2>2, <2>4 DEF Tracked
  <2>5. ASSUME NEW q \in Requests, pc[q] = "sweep", resp[r].at \in local[q].doomed
        PROVE  FALSE
    <3>1. /\ req[q].token \in DOMAIN tokens
          /\ DeliveredIn(resp[r].at, tokens[req[q].token].family)
      BY <1>1, <2>5 DEF Tracked, DoomedOK
    <3> QED
      BY <2>2, <2>5, <3>1 DEF Sweeping
  <2> QED
    BY <1>1, <2>3, <2>4, <2>5 DEF NoOrphanAccessToken, Kept
<1> QED
  BY <1>1, TrackedAlways, NoTokenIsOrphaned, PTL


-----------------------------------------------------------------------------
(* A revoked token stays revoked, whichever lookup came first.             *)

\* The target has issued t, if t is a token at all.
KnownToken(t) ==
  /\ t \in RefreshToken => t \in DOMAIN tokens
  /\ \A q \in Requests : t = OpaqueToken(q) => pc[q] = "done"

\* t is no access token of client c that works, or no refresh token of it
\* whose family lives.
AccessGone(t, c) ==
  \A q \in Requests : t = OpaqueToken(q) /\ req[q].client = c => t \notin DOMAIN sessions
FamilyGone(t, c) ==
  t \in DOMAIN tokens /\ tokens[t].client = c => families[tokens[t].family].revoked

Revoked(r) == pc[r] = "done" /\ req[r].op = "revoke" /\ resp[r].status = "ok"

\* What a revocation has made sure of, by where it is.
RevokeOK(r) ==
  /\ Revoked(r) \/ (pc[r] \in {"find", "revokeFamily", "delete", "sweep"}
                      /\ req[r].op = "revoke") =>
       KnownToken(req[r].token)
  /\ Revoked(r) \/ (pc[r] = "revokeFamily" /\ req[r].hint) =>
       AccessGone(req[r].token, req[r].client)
  /\ \/ Revoked(r)
     \/ pc[r] = "find" /\ ~req[r].hint
     \/ pc[r] = "sweep" /\ req[r].op = "revoke"
     => FamilyGone(req[r].token, req[r].client)

DeliveredRefresh(r) == resp[r].rt # None => resp[r].rt \in DOMAIN tokens

Sticks == \A r \in Requests : RevokeOK(r) /\ DeliveredRefresh(r)

LEMMA TokenKinds ==
  /\ \A q \in Requests : OpaqueToken(q) \in AccessToken
  /\ \A t \in RefreshToken : t \notin AccessToken
BY DEF OpaqueToken, AccessToken, RefreshToken

LEMMA RevocationArrives ==
  ASSUME Inv, Tracked, Sticks, NEW r \in Requests, Arrives(r),
         pc'[r] \in {"find", "revokeFamily"}
  PROVE  /\ KnownToken(req'[r].token)
         /\ pc'[r] = "find" <=> req'[r].hint
<1>1. Revocation(r)
  <2>1. ASSUME NEW q, NEW l,
               Arrive(r, q, "consume", l) \/ Arrive(r, q, "refresh", l)
                 \/ Arrive(r, q, "lookup", l)
        PROVE  pc'[r] \in {"consume", "refresh", "lookup", "done"}
    BY <2>1 DEF Arrive, Continue, Answer, Inv, TypeOK
  <2>2. Exchange(r) => \E q, l : Arrive(r, q, "consume", l)
    BY DEF Exchange
  <2>3. Refresh(r) => \E q, l : Arrive(r, q, "refresh", l)
    BY DEF Refresh
  <2>4. Userinfo(r) => \E q, l : Arrive(r, q, "lookup", l)
    BY DEF Userinfo
  <2> QED
    BY <2>1, <2>2, <2>3, <2>4 DEF Arrives
<1>2. PICK c \in Clients, auth \in Credentials, hint \in BOOLEAN,
           t \in Delivered("rt") \cup Delivered("at") \cup Guesses :
             Arrive(r, [Form("revoke", c, auth, t) EXCEPT !.hint = hint],
                    IF hint THEN "find" ELSE "revokeFamily", NoLocal)
  BY <1>1 DEF Revocation
<1> DEFINE q == [Form("revoke", c, auth, t) EXCEPT !.hint = hint]
<1>3. q.token = t /\ q.hint = hint /\ q.op = "revoke"
  BY DEF Form
<1>4. req'[r] = q /\ Refusal(q) = "none"
      /\ pc'[r] = IF hint THEN "find" ELSE "revokeFamily"
  BY <1>2 DEF Arrive, Continue, Answer, Inv, TypeOK
<1>5. t # Missing
  BY <1>3, <1>4 DEF Refusal
<1>6. ASSUME t \in Delivered("rt") PROVE KnownToken(t)
  <2>1. t \in DOMAIN tokens
    BY <1>6 DEF Delivered, Sticks, DeliveredRefresh
  <2>2. t \in RefreshToken
    BY <2>1, TypesOfMaps
  <2> QED
    BY <2>1, <2>2, TokenKinds DEF KnownToken
<1>7. ASSUME t \in Delivered("at") PROVE KnownToken(t)
  <2>1. PICK p \in Requests : t = resp[p].at /\ t # None
    BY <1>7 DEF Delivered
  <2>2. t = OpaqueToken(p) /\ pc[p] = "done"
    BY <2>1 DEF Tracked, ReplyOpaque
  <2>3. \A s \in Requests : t = OpaqueToken(s) => pc[s] = "done"
    BY <2>2, OpaqueTokens
  <2>4. t \notin RefreshToken
    BY <2>2, TokenKinds
  <2> QED
    BY <2>3, <2>4 DEF KnownToken
<1>8. ASSUME t \in Guesses PROVE KnownToken(t)
  <2>1. t = Unknown
    BY <1>5, <1>8, GuessesType
  <2> QED
    BY <2>1, TargetAssumption, TokenKinds DEF KnownToken
<1>9. KnownToken(t)
  BY <1>2, <1>6, <1>7, <1>8
<1> QED
  BY <1>3, <1>4, <1>9


LEMMA KnownStays ==
  ASSUME Inv, FreshOK, [Next]_vars, NEW t, KnownToken(t)
  PROVE  KnownToken(t)'
<1>1. \A q \in Requests : t = OpaqueToken(q) => pc'[q] = "done"
  BY RepliesStay DEF KnownToken
<1>2. t \in RefreshToken => t \in DOMAIN tokens'
  BY StepKeeps DEF TokensKeep, KnownToken
<1> QED
  BY <1>1, <1>2 DEF KnownToken

LEMMA AccessGoneStays ==
  ASSUME Opaque, Inv, FreshOK, Owned, [Next]_vars, NEW t, NEW c,
         KnownToken(t), AccessGone(t, c)
  PROVE  AccessGone(t, c)'
<1> SUFFICES ASSUME NEW q \in Requests, t = OpaqueToken(q), req'[q].client = c,
                    t \in DOMAIN sessions'
             PROVE  FALSE
  BY DEF AccessGone
<1>1. pc[q] = "done"
  BY DEF KnownToken
<1>2. req'[q] = req[q]
  BY <1>1, RepliesStay
<1>3. t \notin DOMAIN sessions
  BY <1>2 DEF AccessGone
<1>4. PICK r \in Requests : Put(r) /\ t = local[r].at
  BY <1>3, NextCases, OnlyPutStores, ArriveEffect DEF Elsewhere, Arrives
<1>5. pc[r] = "put"
  BY <1>4, PutEffect
<1>6. t = OpaqueToken(r)
  BY <1>4, <1>5, MintedOpaque
<1> QED
  BY <1>1, <1>5, <1>6, OpaqueTokens

LEMMA FamilyGoneStays ==
  ASSUME Inv, Inv', FreshOK, [Next]_vars, NEW t, NEW c,
         KnownToken(t), FamilyGone(t, c)
  PROVE  FamilyGone(t, c)'
<1> SUFFICES ASSUME t \in DOMAIN tokens', tokens'[t].client = c
             PROVE  families'[tokens'[t].family].revoked
  BY DEF FamilyGone
<1>1. t \in RefreshToken
  BY DEF Inv, TypeOK, RefreshTypeOK, IsMap
<1>2. t \in DOMAIN tokens
  BY <1>1 DEF KnownToken
<1>3. tokens'[t].client = tokens[t].client /\ tokens'[t].family = tokens[t].family
  BY <1>2, StepKeeps DEF TokensKeep
<1>4. families[tokens[t].family].revoked /\ tokens[t].family \in DOMAIN families
  BY <1>2, <1>3, TypesOfMaps DEF FamilyGone
<1> QED
  BY <1>3, <1>4, StepKeeps DEF FamiliesKeep

\* Looked up in vain, an access token of this client does not work.
LEMMA FindMisses ==
  ASSUME Owned, NEW t, NEW c, ~FindOK(t, c)
  PROVE  AccessGone(t, c)
<1> SUFFICES ASSUME NEW q \in Requests, t = OpaqueToken(q), req[q].client = c,
                    t \in DOMAIN sessions
             PROVE  FALSE
  BY DEF AccessGone
<1>1. Belongs(t, sessions[t].client)
  BY DEF Owned, StoresOwned
<1>2. sessions[t].client = c
  BY <1>1 DEF Belongs, OpaqueToken
<1> QED
  BY <1>2 DEF FindOK

\* What a lookup of a revocation finds out.
LEMMA RevokeOKLooks ==
  ASSUME Opaque, Inv, Inv', FreshOK, Owned, Sticks, [Next]_vars,
         NEW r \in Requests, Find(r) \/ RevokeFamilyRefuses(r),
         NEW t, t = req[r].token, NEW c, c = req[r].client
  PROVE  /\ pc'[r] = "revokeFamily" /\ req[r].hint => AccessGone(t, c)'
         /\ pc'[r] = "find" /\ ~req[r].hint => FamilyGone(t, c)'
         /\ pc'[r] = "done" => AccessGone(t, c)' /\ FamilyGone(t, c)'
<1>1. RevokeOK(r) /\ KnownToken(t)
  BY LookEffect DEF Sticks, RevokeOK, Inv, HandlerOK
<1>2. CASE Find(r)
  <2>1. /\ pc[r] = "find"
        /\ pc'[r] \in {"delete", "revokeFamily", "done"}
        /\ pc'[r] # "delete" => ~FindOK(t, c)
        /\ pc'[r] = "done" => ~req[r].hint
    BY <1>2 DEF Find, At, Answer, Continue, Inv, TypeOK
  <2>2. pc'[r] # "delete" => AccessGone(t, c)'
    BY <1>1, <2>1, FindMisses, AccessGoneStays
  <2>3. pc'[r] = "done" => FamilyGone(t, c)'
    BY <1>1, <2>1, FamilyGoneStays DEF RevokeOK
  <2> QED
    BY <2>1, <2>2, <2>3
<1>3. CASE RevokeFamilyRefuses(r)
  <2>1. /\ pc[r] = "revokeFamily" /\ ~Revocable(t, c)
        /\ pc'[r] = IF req[r].hint THEN "done" ELSE "find"
    BY <1>3 DEF RevokeFamilyRefuses, At, Answer, Continue, Inv, TypeOK
  <2>2. FamilyGone(t, c)'
    BY <1>1, <2>1, FamilyGoneStays DEF FamilyGone, Revocable
  <2>3. pc'[r] = "done" => AccessGone(t, c)'
    BY <1>1, <2>1, AccessGoneStays DEF RevokeOK
  <2> QED
    BY <2>1, <2>2, <2>3
<1> QED
  BY <1>2, <1>3

\* What the other steps of a revocation have done.
LEMMA RevokeOKEnds ==
  ASSUME Opaque, Inv, Inv', FreshOK, Owned, Tracked, Sticks, [Next]_vars,
         NEW r \in Requests, req[r].op = "revoke",
         Delete(r) \/ RevokeFamily(r) \/ Sweep(r) \/ EndSweep(r),
         NEW t, t = req[r].token, NEW c, c = req[r].client
  PROVE  /\ pc'[r] \in {"sweep", "done"}
         /\ FamilyGone(t, c)'
         /\ pc'[r] = "done" => AccessGone(t, c)'
<1>0. RevokeOK(r) /\ OwnerOK(r) /\ DoomedOK(r)
  BY DEF Sticks, Owned, Tracked
<1>1. CASE Delete(r)
  <2>1. pc[r] = "delete" /\ pc'[r] = "done" /\ t \notin DOMAIN sessions'
    BY <1>1, DeleteEffect DEF Answered
  <2>2. t \in AccessToken
    BY <1>0, <2>1 DEF OwnerOK
  <2>3. t \notin DOMAIN tokens'
    BY <2>2, TokenKinds DEF Inv, TypeOK, RefreshTypeOK, IsMap
  <2> QED
    BY <2>1, <2>3 DEF AccessGone, FamilyGone
<1>2. CASE RevokeFamily(r)
  <2>1. pc'[r] = "sweep" /\ UNCHANGED tokens
    BY <1>2, RevokeEffect
  <2>2. families'[tokens[t].family].revoked
    BY <1>2, RevokeEffect
  <2> QED
    BY <2>1, <2>2 DEF FamilyGone
<1>3. CASE Sweep(r) \/ EndSweep(r)
  <2>1. pc[r] = "sweep" /\ pc'[r] \in {"sweep", "done"}
    BY <1>3, SweepEffect, EndSweepEffect DEF Answered
  <2>2. KnownToken(t) /\ FamilyGone(t, c)
    BY <1>0, <2>1 DEF RevokeOK
  <2>3. t \in RefreshToken
    BY <1>0, <2>1, TypesOfMaps DEF DoomedOK
  <2>4. AccessGone(t, c)'
    BY <2>3, TokenKinds DEF AccessGone
  <2> QED
    BY <2>1, <2>2, <2>4, FamilyGoneStays
<1> QED
  BY <1>1, <1>2, <1>3

LEMMA ServeSticks ==
  ASSUME Opaque, Inv, Inv', FreshOK, Owned, Tracked, Sticks, [Next]_vars,
         NEW r \in Requests, Serve(r)
  PROVE  RevokeOK(r)'
<1> PICK t : t = req[r].token
  OBVIOUS
<1> PICK c : c = req[r].client
  OBVIOUS
<1>0. req'[r] = req[r] /\ HandlerOK(r) /\ HandlerOK(r)' /\ pc[r] \in Labels \ {"idle", "done"}
  BY ServeOthers DEF Inv, TypeOK
<1>1. CASE req[r].op # "revoke"
  BY <1>0, <1>1 DEF HandlerOK, RevokeOK, Revoked
<1>2. CASE req[r].op = "revoke"
  <2>1. pc[r] \in {"find", "revokeFamily", "delete", "sweep"}
    BY <1>0, <1>2 DEF HandlerOK, Labels
  <2>2. KnownToken(t)'
    <3>1. KnownToken(t)
      BY <1>2, <2>1 DEF Sticks, RevokeOK
    <3> QED
      BY <3>1, KnownStays
  <2>3. CASE Find(r) \/ RevokeFamilyRefuses(r)
    <3>1. /\ pc'[r] = "revokeFamily" /\ req[r].hint => AccessGone(t, c)'
          /\ pc'[r] = "find" /\ ~req[r].hint => FamilyGone(t, c)'
          /\ pc'[r] = "done" => AccessGone(t, c)' /\ FamilyGone(t, c)'
      BY <2>3, RevokeOKLooks
    <3>2. pc'[r] # "sweep"
      BY <2>3, LookEffect DEF Answered
    <3> QED
      BY <1>0, <2>2, <3>1, <3>2 DEF RevokeOK, Revoked
  <2>4. CASE Delete(r) \/ RevokeFamily(r) \/ Sweep(r) \/ EndSweep(r)
    <3>1. /\ pc'[r] \in {"sweep", "done"}
          /\ FamilyGone(t, c)'
          /\ pc'[r] = "done" => AccessGone(t, c)'
      BY <1>2, <2>4, RevokeOKEnds
    <3> QED
      BY <1>0, <2>2, <3>1 DEF RevokeOK, Revoked
  <2> QED
    BY <2>1, <2>3, <2>4, Dispatch
<1> QED
  BY <1>1, <1>2

LEMMA ArriveSticks ==
  ASSUME Inv, FreshOK, Tracked, Sticks, [Next]_vars, NEW r \in Requests, Arrives(r)
  PROVE  RevokeOK(r)'
<1>1. /\ pc'[r] # "sweep" /\ pc'[r] # "delete"
      /\ pc'[r] = "done" => resp'[r].status # "ok"
  <2>1. pc'[r] = "done" => resp'[r].status # "ok"
    BY ArriveOthers DEF Arrives
  <2>2. pc'[r] \in {"consume", "refresh", "find", "revokeFamily", "lookup", "done"}
    BY ArriveEffect DEF Arrives, Answered
  <2> QED
    BY <2>1, <2>2
<1>2. CASE pc'[r] \in {"find", "revokeFamily"}
  <2>1. PICK t : t = req'[r].token
    OBVIOUS
  <2>2. KnownToken(t) /\ (pc'[r] = "find" <=> req'[r].hint)
    BY <1>2, <2>1, RevocationArrives
  <2>3. KnownToken(t)'
    BY <2>2, KnownStays
  <2> QED
    BY <1>1, <1>2, <2>1, <2>2, <2>3 DEF RevokeOK, Revoked
<1>3. CASE pc'[r] \notin {"find", "revokeFamily"}
  BY <1>1, <1>3 DEF RevokeOK, Revoked
<1> QED
  BY <1>2, <1>3

LEMMA OthersStick ==
  ASSUME Opaque, Inv, Inv', FreshOK, Owned, Sticks, [Next]_vars, NEW r \in Requests,
         pc'[r] = pc[r], req'[r] = req[r], resp'[r] = resp[r]
  PROVE  RevokeOK(r)'
<1> PICK t : t = req[r].token
  OBVIOUS
<1> PICK c : c = req[r].client
  OBVIOUS
<1>1. RevokeOK(r)
  BY DEF Sticks
<1>2. KnownToken(t) => KnownToken(t)'
  BY KnownStays
<1>3. KnownToken(t) /\ AccessGone(t, c) => AccessGone(t, c)'
  BY AccessGoneStays
<1>4. KnownToken(t) /\ FamilyGone(t, c) => FamilyGone(t, c)'
  BY FamilyGoneStays
<1>5. pc[r] \in {"find", "revokeFamily"} => req[r].op = "revoke"
  BY DEF Inv, HandlerOK
<1> QED
  BY <1>1, <1>2, <1>3, <1>4, <1>5 DEF RevokeOK, Revoked

LEMMA DeliveredStep ==
  ASSUME Inv, FreshOK, Chained, [Next]_vars, NEW r \in Requests, DeliveredRefresh(r)
  PROVE  DeliveredRefresh(r)'
<1>0. \A t \in DOMAIN tokens : t \in DOMAIN tokens'
  BY StepKeeps DEF TokensKeep
<1>1. CASE resp'[r] = resp[r]
  BY <1>0, <1>1 DEF DeliveredRefresh
<1>2. CASE Arrives(r)
  <2>1. CASE \E s : resp'[r] = Status(s)
    BY <2>1 DEF DeliveredRefresh, Status, NoReply
  <2> QED
    BY <1>1, <1>2, <2>1, ArriveEffect DEF Arrives, Answered
<1>3. CASE Serve(r)
  <2>1. CASE Track(r)
    <3>1. pc[r] = "track" /\ resp'[r].rt = local[r].next
      BY <2>1, TrackEffect
    <3>2. local[r].next \in DOMAIN tokens
      BY <3>1 DEF Chained, GrantChain, InFamily
    <3> QED
      BY <1>0, <3>1, <3>2 DEF DeliveredRefresh
  <2>2. CASE ~Track(r)
    BY <1>1, <1>3, <2>2, ServeReplies DEF DeliveredRefresh
  <2> QED
    BY <2>1, <2>2
<1>4. ASSUME NEW q \in Requests, Arrives(q) \/ Serve(q), q # r
      PROVE  resp'[r] = resp[r]
  BY <1>4, ArriveOthers, ServeOthers DEF Arrives, OthersStay
<1> QED
  BY <1>1, <1>2, <1>3, <1>4, NextCases DEF Elsewhere

LEMMA SticksStep ==
  ASSUME Opaque, Inv, Inv', FreshOK, Owned, Chained, Tracked, Sticks, [Next]_vars
  PROVE  Sticks'
<1>1. ASSUME NEW r \in Requests PROVE RevokeOK(r)'
  <2>1. CASE Elsewhere
    BY <2>1, OthersStick DEF Elsewhere
  <2>2. ASSUME NEW q \in Requests, Arrives(q) \/ Serve(q), q # r PROVE RevokeOK(r)'
    <3>1. OthersStay(q)
      BY <2>2, ArriveOthers, ServeOthers DEF Arrives
    <3> QED
      BY <2>2, <3>1, OthersStick DEF OthersStay
  <2> QED
    BY <2>1, <2>2, ArriveSticks, ServeSticks, NextCases
<1> QED
  BY <1>1, DeliveredStep DEF Sticks

\* With opaque access tokens, what its own client has revoked stays revoked,
\* whichever lookup the token_type_hint put first (revocationHandler).
THEOREM RevocationsStick == Opaque /\ Spec => []RevocationSticks
<1> SUFFICES ASSUME Opaque PROVE Spec => []RevocationSticks
  OBVIOUS
<1>1. Init => Sticks
  BY DEF Init, Sticks, RevokeOK, Revoked, DeliveredRefresh, NoReply
<1>2. Inv /\ Inv' /\ FreshOK /\ Owned /\ Chained /\ Tracked /\ Sticks /\ [Next]_vars
        => Sticks'
  BY SticksStep
<1>3. Owned /\ Chained /\ Tracked /\ Sticks => RevocationSticks
  <2> SUFFICES ASSUME Owned, Chained, Tracked, Sticks,
                      NEW r \in Requests, NEW q \in Requests,
                      pc[r] = "done" /\ req[r].op = "revoke" /\ resp[r].status = "ok",
                      Granted(q), req[q].client = req[r].client
               PROVE  /\ req[r].token = resp[q].at => resp[q].at \notin DOMAIN sessions
                      /\ req[r].token = resp[q].rt => families[FamilyOf(q)].revoked
    BY DEF RevocationSticks
  <2>1. /\ AccessGone(req[r].token, req[r].client)
        /\ FamilyGone(req[r].token, req[r].client)
    BY DEF Sticks, RevokeOK, Revoked
  <2>2. resp[q].at = OpaqueToken(q)
    BY DEF Tracked, ReplyOpaque, Granted
  <2>3. /\ resp[q].rt \in DOMAIN tokens
        /\ req[q].client = families[tokens[resp[q].rt].family].client
    BY DEF Chained, ReplyChain, Granted
  <2>4. tokens[resp[q].rt].client = req[q].client
    BY <2>3 DEF Owned, StoresOwned
  <2> QED
    BY <2>1, <2>2, <2>3, <2>4 DEF AccessGone, FamilyGone, FamilyOf
<1> QED
  BY <1>1, <1>2, <1>3, TrackedAlways, PTL DEF Spec

-----------------------------------------------------------------------------
(* Two refreshes with one refresh token.                                   *)

KnownRefresh(t) == t \in RefreshToken => t \in DOMAIN tokens

\* Refresh r has got its successor token; refresh r has not, although its
\* client had proved who it was and /token knew its grant_type.
Using(r) ==
  /\ req[r].op = "refresh"
  /\ pc[r] \in {"mint", "put", "track"} \/ (pc[r] = "done" /\ resp[r].status = "ok")
Refused(r) ==
  /\ req[r].op = "refresh" /\ req[r].authentic /\ req[r].grant = "known"
  /\ pc[r] = "sweep" \/ (pc[r] = "done" /\ resp[r].status # "ok")

UsesOK(r) ==
  Using(r) =>
    /\ "token" \notin Errors
    /\ req[r].token \in DOMAIN tokens
    /\ tokens[req[r].token].retired
    /\ tokens[req[r].token].client = req[r].client
    /\ pc[r] # "done" => local[r].family = tokens[req[r].token].family
    /\ pc[r] = "done" => /\ resp[r].rt \in DOMAIN tokens
                         /\ FamilyOf(r) = tokens[req[r].token].family

RefusedOK(r) ==
  Refused(r) /\ "token" \notin Errors =>
    FamilyGone(req[r].token, req[r].client)

AskedOK(r) ==
  /\ DeliveredRefresh(r)
  /\ resp[r].at # None => resp[r].status = "ok"
  /\ pc[r] # "idle" /\ req[r].op = "refresh" => KnownRefresh(req[r].token)
  /\ pc[r] = "refresh" => "token" \notin Errors

UsedOnce ==
  \A r1, r2 \in Requests :
    r1 # r2 /\ Using(r1) /\ Using(r2) => req[r1].token # req[r2].token

Reused ==
  /\ \A r \in Requests : AskedOK(r) /\ UsesOK(r) /\ RefusedOK(r)
  /\ UsedOnce

ReuseFacts ==
  Inv /\ FreshOK /\ Owned /\ Chained /\ RefreshMode = "rotate" /\ Reused

LEMMA RefreshArrives ==
  ASSUME Inv, Reused, NEW r \in Requests, Arrives(r), req'[r].op = "refresh"
  PROVE  /\ KnownRefresh(req'[r].token)
         /\ pc'[r] \in {"refresh", "done"}
         /\ pc'[r] = "refresh" => "token" \notin Errors
         /\ pc'[r] = "done" =>
              /\ resp'[r].status # "ok"
              /\ \/ "token" \in Errors
                 \/ ~req'[r].authentic
                 \/ req'[r].grant # "known"
                 \/ req'[r].token = Missing
<1>1. Refresh(r)
  <2>1. \A q, label, l : Arrive(r, q, label, l) => req'[r] = q
    BY DEF Arrive, Inv, TypeOK
  <2>2. Exchange(r) => req'[r].op = "exchange"
    BY <2>1 DEF Exchange, Form
  <2>3. Revocation(r) => req'[r].op = "revoke"
    BY <2>1 DEF Revocation, Form
  <2>4. Userinfo(r) => req'[r].op = "userinfo"
    BY <2>1 DEF Userinfo, Form
  <2> QED
    BY <2>2, <2>3, <2>4 DEF Arrives
<1>2. PICK c \in Clients, auth \in Credentials, t \in Delivered("rt") \cup Guesses,
           grant \in GrantTypes :
        Arrive(r, [Form("refresh", c, auth, t) EXCEPT !.grant = grant],
               "refresh", NoLocal)
  BY <1>1 DEF Refresh
<1> DEFINE q == [Form("refresh", c, auth, t) EXCEPT !.grant = grant]
<1>3. /\ q.op = "refresh" /\ q.token = t /\ q.authentic = auth
      /\ q.grant = grant
  BY DEF Form
<1>4. req'[r] = q
  BY <1>2 DEF Arrive, Inv, TypeOK
<1>5. KnownRefresh(t)
  <2>1. ASSUME t \in Delivered("rt") PROVE t \in DOMAIN tokens
    BY <2>1 DEF Delivered, Reused, AskedOK, DeliveredRefresh
  <2>2. t \in Guesses => t \notin RefreshToken
    BY GuessesType, TargetAssumption
  <2> QED
    BY <1>2, <2>1, <2>2 DEF KnownRefresh
<1>6. Endpoint("refresh") = "token"
  BY DEF Endpoint
<1>7. Refusal(q) = "none" => "token" \notin Errors
  BY <1>3, <1>6 DEF Refusal
<1>8. Refusal(q) # "none" =>
        "token" \in Errors \/ ~auth \/ grant # "known" \/ t = Missing
  BY <1>3, <1>6 DEF Refusal
<1> HIDE DEF q
<1>9. IF Refusal(q) = "none" THEN pc'[r] = "refresh" ELSE pc'[r] = "done"
  BY <1>2 DEF Arrive, Continue, Answer, Inv, TypeOK, q
<1>10. pc'[r] = "done" => resp'[r].status # "ok"
  BY ArriveOthers DEF Arrives
<1> QED
  BY <1>3, <1>4, <1>5, <1>7, <1>8, <1>9, <1>10

LEMMA FamilyGoneForGood ==
  ASSUME Inv, Inv', FreshOK, [Next]_vars, NEW t, NEW c, KnownRefresh(t), FamilyGone(t, c)
  PROVE  FamilyGone(t, c)'
<1> SUFFICES ASSUME t \in DOMAIN tokens', tokens'[t].client = c
             PROVE  families'[tokens'[t].family].revoked
  BY DEF FamilyGone
<1>1. t \in DOMAIN tokens
  BY DEF Inv, TypeOK, RefreshTypeOK, IsMap, KnownRefresh
<1>2. tokens'[t].client = tokens[t].client /\ tokens'[t].family = tokens[t].family
  BY <1>1, StepKeeps DEF TokensKeep
<1>3. families[tokens[t].family].revoked /\ tokens[t].family \in DOMAIN families
  BY <1>1, <1>2, TypesOfMaps DEF FamilyGone
<1> QED
  BY <1>2, <1>3, StepKeeps DEF FamiliesKeep

LEMMA KnownRefreshStays ==
  ASSUME Inv, FreshOK, [Next]_vars, NEW t, KnownRefresh(t)
  PROVE  KnownRefresh(t)'
BY StepKeeps DEF TokensKeep, KnownRefresh

\* The steps of a refresh.
LEMMA RefreshServes ==
  ASSUME Inv, NEW r \in Requests, Serve(r), req[r].op = "refresh"
  PROVE  \/ RefreshRefuses(r) \/ RefreshDetectsReuse(r) \/ UseRefresh(r)
         \/ Mint(r) \/ Put(r) \/ Track(r) \/ Sweep(r) \/ EndSweep(r)
<1>1. pc[r] \in {"refresh", "mint", "put", "track", "sweep"}
  BY ServeOthers DEF Inv, TypeOK, HandlerOK, Labels
<1> QED
  BY <1>1, Dispatch

\* A request that does not move, or that moves for the first time.
LEMMA WhoMoves ==
  ASSUME Inv, [Next]_vars, NEW r \in Requests
  PROVE  \/ /\ pc'[r] = pc[r] /\ req'[r] = req[r]
            /\ local'[r] = local[r] /\ resp'[r] = resp[r]
         \/ Arrives(r) /\ pc[r] = "idle" /\ pc'[r] # "idle"
         \/ Serve(r) /\ pc[r] \notin {"idle", "done"} /\ req'[r] = req[r]
<1>1. CASE Elsewhere
  BY <1>1 DEF Elsewhere
<1>2. ASSUME NEW q \in Requests, Arrives(q) \/ Serve(q), q # r
      PROVE  /\ pc'[r] = pc[r] /\ req'[r] = req[r]
             /\ local'[r] = local[r] /\ resp'[r] = resp[r]
  <2>1. OthersStay(q)
    BY <1>2, ArriveOthers, ServeOthers DEF Arrives
  <2> QED
    BY <1>2, <2>1 DEF OthersStay
<1>3. CASE Arrives(r)
  BY <1>3, ArriveOthers DEF Arrives
<1>4. CASE Serve(r)
  BY <1>4, ServeOthers
<1> QED
  BY <1>1, <1>2, <1>3, <1>4, NextCases

LEMMA AskedStep ==
  ASSUME ReuseFacts, [Next]_vars, NEW r \in Requests
  PROVE  AskedOK(r)'
<1>0. AskedOK(r) /\ (pc[r] # "done" => resp[r].at = None)
  BY DEF ReuseFacts, Reused, Chained, ReplyChain
<1>1. DeliveredRefresh(r)'
  BY <1>0, DeliveredStep DEF AskedOK, ReuseFacts
<1>2. resp'[r].at # None => resp'[r].status = "ok"
  <2>1. CASE resp'[r] = resp[r]
    BY <1>0, <2>1 DEF AskedOK
  <2>2. CASE Arrives(r)
    <3>1. CASE \E s : resp'[r] = Status(s)
      BY <3>1 DEF Status, NoReply
    <3> QED
      BY <2>1, <2>2, <3>1, ArriveEffect DEF Arrives, Answered, ReuseFacts
  <2>3. CASE Serve(r)
    <3>1. CASE Track(r)
      BY <3>1, TrackEffect DEF ReuseFacts
    <3> QED
      BY <2>1, <2>3, <3>1, ServeReplies DEF ReuseFacts
  <2> QED
    BY <2>1, <2>2, <2>3, WhoMoves DEF ReuseFacts
<1>3. ASSUME pc'[r] # "idle", req'[r].op = "refresh"
      PROVE  KnownRefresh(req[r].token)'
  <2> PICK t : t = req'[r].token
    OBVIOUS
  <2>1. KnownRefresh(t)
    BY <1>0, <1>3, WhoMoves, RefreshArrives DEF AskedOK, ReuseFacts
  <2>2. KnownRefresh(t)'
    BY <2>1, KnownRefreshStays DEF ReuseFacts
  <2> QED
    BY <2>2 DEF KnownRefresh
<1>4. ASSUME pc'[r] = "refresh" PROVE "token" \notin Errors
  <2>1. CASE Arrives(r)
    <3>1. req'[r].op = "refresh"
      BY <1>4, NextInv DEF ReuseFacts, Inv, HandlerOK
    <3> QED
      BY <1>4, <2>1, <3>1, RefreshArrives DEF ReuseFacts
  <2>2. CASE Serve(r)
    <3>1. req'[r].op = "refresh" /\ req'[r] = req[r]
      BY <1>4, <2>2, NextInv, ServeOthers DEF ReuseFacts, Inv, HandlerOK
    <3>2. pc[r] \in {"refresh", "mint", "put", "track", "sweep"}
      BY <2>2, <3>1, ServeOthers DEF ReuseFacts, Inv, TypeOK, HandlerOK, Labels
    <3>3. pc[r] = "sweep" => pc'[r] # "refresh"
      BY <2>2, Dispatch, SweepEffect, EndSweepEffect DEF Answered, ReuseFacts
    <3> QED
      BY <1>4, <2>2, <3>1, <3>2, <3>3, ServeMoves DEF ReuseFacts
  <2> QED
    BY <1>0, <1>4, <2>1, <2>2, WhoMoves DEF AskedOK, ReuseFacts
<1> QED
  BY <1>1, <1>2, <1>3, <1>4 DEF AskedOK

\* UseRefresh retires the token it was presented, which nobody had used.
LEMMA UseRefreshUses ==
  ASSUME ReuseFacts, [Next]_vars, NEW r \in Requests, UseRefresh(r)
  PROVE  /\ UsesOK(r)'
         /\ \A q \in Requests : q # r /\ Using(q) => req[q].token # req[r].token
<1> PICK t : t = req[r].token
  OBVIOUS
<1>0. Serve(r) /\ pc[r] = "refresh" /\ pc'[r] = "mint"
  BY UseRefreshEffect DEF Serve, ReuseFacts
<1>1. Presentable(t, req[r].client) /\ ~tokens[t].retired
  BY UseRefreshEffect DEF ReuseFacts
<1>2. t \in DOMAIN tokens /\ tokens[t].client = req[r].client
  BY <1>1 DEF Presentable
<1>3. "token" \notin Errors
  BY <1>0 DEF ReuseFacts, Reused, AskedOK
<1>4. NewRefreshToken(r) \notin DOMAIN tokens
  BY <1>0 DEF ReuseFacts, FreshOK, NewRefreshToken
<1>5. tokens'[t].retired
  BY <1>2, <1>4, UseRefreshEffect DEF ReuseFacts
<1>6. /\ t \in DOMAIN tokens'
      /\ tokens'[t].client = tokens[t].client /\ tokens'[t].family = tokens[t].family
  BY <1>2, StepKeeps DEF ReuseFacts, TokensKeep
<1>7. local'[r].family = tokens[t].family
  BY UseRefreshEffect DEF ReuseFacts
<1>8. req'[r] = req[r]
  BY <1>0, ServeOthers DEF ReuseFacts
<1>9. UsesOK(r)'
  BY <1>0, <1>2, <1>3, <1>5, <1>6, <1>7, <1>8 DEF UsesOK
<1>10. \A q \in Requests : Using(q) => req[q].token # t
  BY <1>1 DEF ReuseFacts, Reused, UsesOK
<1> QED
  BY <1>9, <1>10

\* Its token is kept for it until the answer.
LEMMA UsesGoOn ==
  ASSUME ReuseFacts, [Next]_vars, NEW r \in Requests, Using(r), Mint(r) \/ Put(r) \/ Track(r)
  PROVE  UsesOK(r)'
<1> PICK t : t = req[r].token
  OBVIOUS
<1>0. Serve(r) /\ req'[r] = req[r] /\ pc[r] \in {"mint", "put", "track"}
  <2>1. Serve(r)
    BY DEF Serve
  <2>2. pc[r] \in {"mint", "put", "track"}
    BY MintEffect, PutEffect, TrackEffect DEF ReuseFacts
  <2> QED
    BY <2>1, <2>2, ServeOthers DEF ReuseFacts
<1>1. /\ "token" \notin Errors /\ t \in DOMAIN tokens /\ tokens[t].retired
      /\ tokens[t].client = req[r].client /\ local[r].family = tokens[t].family
  BY <1>0 DEF ReuseFacts, Reused, UsesOK
<1>2. /\ t \in DOMAIN tokens' /\ tokens'[t].retired
      /\ tokens'[t].client = tokens[t].client /\ tokens'[t].family = tokens[t].family
  BY <1>1, StepKeeps DEF ReuseFacts, TokensKeep
<1>3. CASE Mint(r) \/ Put(r)
  <2>1. CASE Mint(r)
    <3>1. pc'[r] = "put"
      BY <2>1, MintSucceeds DEF ReuseFacts
    <3>2. local'[r].family = local[r].family
      BY <2>1, <3>1, MintEffect DEF Answered, ReuseFacts
    <3> QED
      BY <1>0, <1>1, <1>2, <3>1, <3>2 DEF UsesOK
  <2>2. CASE Put(r)
    <3>1. pc'[r] # "done" /\ local'[r] = local[r]
      BY <2>2, PutEffect DEF ReuseFacts
    <3> QED
      BY <1>0, <1>1, <1>2, <3>1 DEF UsesOK
  <2> QED
    BY <1>3, <2>1, <2>2
<1>4. CASE Track(r)
  <2>1. pc[r] = "track" /\ pc'[r] = "done" /\ UNCHANGED tokens
    BY <1>4, TrackEffect DEF ReuseFacts
  <2>2. resp'[r].rt = local[r].next
    BY <1>4, TrackEffect DEF ReuseFacts
  <2>3. local[r].next \in DOMAIN tokens /\ tokens[local[r].next].family = local[r].family
    BY <2>1 DEF ReuseFacts, Chained, GrantChain, InFamily
  <2> QED
    BY <1>0, <1>1, <1>2, <2>1, <2>2, <2>3 DEF UsesOK, FamilyOf
<1> QED
  BY <1>3, <1>4

\* The other steps of a refresh end in a refusal.
LEMMA RefusesUse ==
  ASSUME ReuseFacts, NEW r \in Requests, req[r].op = "refresh",
         RefreshRefuses(r) \/ RefreshDetectsReuse(r) \/ Sweep(r) \/ EndSweep(r)
  PROVE  pc'[r] = "sweep" \/ (pc'[r] = "done" /\ resp'[r].status # "ok")
<1>1. Status("invalid_grant").status # "ok"
  BY DEF Status, NoReply
<1>2. CASE RefreshRefuses(r)
  BY <1>1, <1>2, RefuseEffect DEF Answered, ReuseFacts
<1>3. CASE RefreshDetectsReuse(r) \/ Sweep(r)
  BY <1>3, RevokeEffect, SweepEffect DEF ReuseFacts
<1>4. CASE EndSweep(r)
  <2>1. Answer(r, Status("invalid_grant"))
    BY <1>4 DEF EndSweep
  <2> QED
    BY <1>1, <2>1 DEF Answer, ReuseFacts, Inv, TypeOK
<1> QED
  BY <1>2, <1>3, <1>4

LEMMA UsesStep ==
  ASSUME ReuseFacts, [Next]_vars, NEW r \in Requests
  PROVE  /\ UsesOK(r)'
         /\ Using(r)' => Using(r) \/ UseRefresh(r)
<1> SUFFICES ASSUME Using(r)'
             PROVE  UsesOK(r)' /\ (Using(r) \/ UseRefresh(r))
  BY DEF UsesOK
<1>1. CASE pc'[r] = pc[r] /\ req'[r] = req[r] /\ local'[r] = local[r] /\ resp'[r] = resp[r]
  <2>1. Using(r)
    BY <1>1 DEF Using
  <2>2. PICK t \in DOMAIN tokens : t = req[r].token
    BY <2>1 DEF ReuseFacts, Reused, UsesOK
  <2>3. /\ "token" \notin Errors /\ tokens[t].retired /\ tokens[t].client = req[r].client
        /\ pc[r] # "done" => local[r].family = tokens[t].family
        /\ pc[r] = "done" => resp[r].rt \in DOMAIN tokens /\ FamilyOf(r) = tokens[t].family
    BY <2>1, <2>2 DEF ReuseFacts, Reused, UsesOK
  <2>4. \A u \in DOMAIN tokens :
          /\ u \in DOMAIN tokens'
          /\ tokens'[u].client = tokens[u].client /\ tokens'[u].family = tokens[u].family
          /\ tokens[u].retired => tokens'[u].retired
    BY StepKeeps DEF ReuseFacts, TokensKeep
  <2> QED
    BY <1>1, <2>1, <2>2, <2>3, <2>4 DEF UsesOK, FamilyOf
<1>2. ~Arrives(r)
  BY RefreshArrives DEF Using, ReuseFacts
<1>3. CASE Serve(r) /\ req'[r] = req[r]
  <2>1. req[r].op = "refresh"
    BY <1>3 DEF Using
  <2>2. ASSUME Mint(r) \/ Put(r) \/ Track(r) PROVE Using(r)
    BY <2>1, <2>2, MintEffect, PutEffect, TrackEffect DEF Using, ReuseFacts
  <2>3. ~(RefreshRefuses(r) \/ RefreshDetectsReuse(r) \/ Sweep(r) \/ EndSweep(r))
    BY <2>1, RefusesUse DEF Using
  <2> QED
    BY <1>3, <2>1, <2>2, <2>3, RefreshServes, UseRefreshUses, UsesGoOn DEF ReuseFacts
<1> QED
  BY <1>1, <1>2, <1>3, WhoMoves DEF ReuseFacts

\* A refusal has found the family revoked, or revokes it.
LEMMA RefusedStep ==
  ASSUME ReuseFacts, Inv', [Next]_vars, NEW r \in Requests
  PROVE  RefusedOK(r)'
<1> SUFFICES ASSUME Refused(r)', "token" \notin Errors PROVE RefusedOK(r)'
  BY DEF RefusedOK
<1> PICK t : t = req'[r].token
  OBVIOUS
<1> PICK c : c = req'[r].client
  OBVIOUS
<1> SUFFICES FamilyGone(t, c)'
  BY DEF RefusedOK
<1>0. AskedOK(r) /\ RefusedOK(r) /\ req'[r].op = "refresh" /\ req'[r].authentic
      /\ req'[r].grant = "known"
  BY DEF ReuseFacts, Reused, Refused
<1>1. ASSUME pc[r] # "idle", req'[r] = req[r], FamilyGone(t, c)
      PROVE  FamilyGone(t, c)'
  <2>1. KnownRefresh(t)
    BY <1>0, <1>1 DEF AskedOK
  <2> QED
    BY <1>1, <2>1, FamilyGoneForGood DEF ReuseFacts
<1>2. CASE pc'[r] = pc[r] /\ req'[r] = req[r] /\ resp'[r] = resp[r]
  BY <1>0, <1>1, <1>2 DEF Refused, RefusedOK
<1>3. CASE Arrives(r)
  <2>1. t = Missing
    BY <1>0, <1>3, RefreshArrives DEF Refused, ReuseFacts
  <2>2. t \notin DOMAIN tokens'
    BY <2>1, TargetAssumption DEF Inv, TypeOK, RefreshTypeOK, IsMap
  <2> QED
    BY <2>2 DEF FamilyGone
<1>4. CASE Serve(r) /\ pc[r] # "idle" /\ req'[r] = req[r]
  <2>1. CASE RefreshRefuses(r)
    <3>1. ~Presentable(t, c)
      BY <1>4, <2>1 DEF RefreshRefuses
    <3>2. FamilyGone(t, c)
      BY <3>1, TypesOfMaps DEF ReuseFacts, Presentable, FamilyGone
    <3> QED
      BY <1>1, <1>4, <3>2
  <2>2. CASE RefreshDetectsReuse(r)
    <3>1. UNCHANGED tokens
      BY <2>2, RevokeEffect DEF ReuseFacts
    <3>2. families'[tokens[t].family].revoked
      BY <1>4, <2>2, RevokeEffect DEF ReuseFacts
    <3> QED
      BY <3>1, <3>2 DEF FamilyGone
  <2>3. CASE Sweep(r) \/ EndSweep(r)
    <3>1. pc[r] = "sweep"
      BY <2>3, SweepEffect, EndSweepEffect DEF ReuseFacts
    <3> QED
      BY <1>0, <1>1, <1>4, <3>1 DEF Refused, RefusedOK
  <2>4. ~UseRefresh(r) /\ ~Put(r) /\ ~Track(r)
    <3>1. ~UseRefresh(r)
      BY UseRefreshEffect DEF Refused, ReuseFacts
    <3>2. ~Put(r)
      BY PutEffect DEF Refused, ReuseFacts
    <3>3. ~Track(r)
      BY TrackEffect DEF Refused, ReuseFacts
    <3> QED
      BY <3>1, <3>2, <3>3
  <2>5. ~Mint(r)
    BY MintSucceeds DEF Refused, ReuseFacts
  <2> QED
    BY <1>0, <1>4, <2>1, <2>2, <2>3, <2>4, <2>5, RefreshServes DEF ReuseFacts
<1> QED
  BY <1>2, <1>3, <1>4, WhoMoves DEF ReuseFacts

LEMMA UsedOnceStep ==
  ASSUME ReuseFacts, [Next]_vars
  PROVE  UsedOnce'
<1> SUFFICES ASSUME NEW r1 \in Requests, NEW r2 \in Requests, r1 # r2,
                    Using(r1)', Using(r2)', req'[r1].token = req'[r2].token
             PROVE  FALSE
  BY DEF UsedOnce
<1>1. ASSUME NEW q \in Requests, Using(q)'
      PROVE  (Using(q) \/ UseRefresh(q)) /\ req'[q] = req[q]
  <2>1. Using(q) \/ UseRefresh(q)
    BY <1>1, UsesStep
  <2>2. pc[q] # "idle"
    BY <2>1, UseRefreshEffect DEF Using, ReuseFacts
  <2> QED
    BY <2>1, <2>2, StepKeeps DEF ReuseFacts, RequestsKeep
<1>2. CASE UseRefresh(r1) /\ ~UseRefresh(r2)
  BY <1>1, <1>2, UseRefreshUses
<1>3. CASE UseRefresh(r2) /\ ~UseRefresh(r1)
  BY <1>1, <1>3, UseRefreshUses
<1>4. CASE UseRefresh(r1) /\ UseRefresh(r2)
  <2>1. pc[r1] = "refresh" /\ pc'[r1] = "mint" /\ Serve(r2)
    BY <1>4, UseRefreshEffect DEF Serve, ReuseFacts
  <2> QED
    BY <2>1, ServeOthers DEF OthersStay, ReuseFacts
<1>5. CASE ~UseRefresh(r1) /\ ~UseRefresh(r2)
  BY <1>1, <1>5 DEF ReuseFacts, Reused, UsedOnce
<1> QED
  BY <1>2, <1>3, <1>4, <1>5

\* Of two refreshes with one refresh token at most one is served, and if the
\* other is refused the family is revoked, the race of two first uses included
\* (refreshStore.refresh's reuse detection).
THEOREM ReuseEndsTheFamily == Spec => []ReuseRevokesFamily
<1>1. ASSUME RefreshMode = "rotate" PROVE Spec => []Reused
  <2>1. Init => Reused
    BY DEF Init, Reused, AskedOK, DeliveredRefresh, UsesOK, Using, RefusedOK, Refused,
           UsedOnce, NoReply
  <2>2. Inv /\ Inv' /\ FreshOK /\ Owned /\ Chained /\ Reused /\ [Next]_vars => Reused'
    BY <1>1, AskedStep, UsesStep, RefusedStep, UsedOnceStep DEF ReuseFacts, Reused
  <2> QED
    BY <2>1, <2>2, ChainedAlways, PTL DEF Spec
<1>2. ASSUME Reused, RefreshMode = "rotate" PROVE ReuseRevokesFamily
  <2> SUFFICES ASSUME NEW r1 \in Requests, NEW r2 \in Requests, r1 # r2,
                      Granted(r1), pc[r2] = "done",
                      req[r1].op = "refresh", req[r2].op = "refresh",
                      req[r1].token = req[r2].token,
                      req[r1].client = req[r2].client, req[r2].authentic,
                      req[r2].grant = "known"
               PROVE  ~Granted(r2) /\ families[FamilyOf(r1)].revoked
    BY DEF ReuseRevokesFamily
  <2>1. pc[r1] = "done" /\ Using(r1)
    BY <1>2 DEF Reused, AskedOK, Granted, Using
  <2>2. ~Using(r2)
    BY <1>2, <2>1 DEF Reused, UsedOnce
  <2>3. Refused(r2) /\ ~Granted(r2)
    BY <1>2, <2>2 DEF Reused, AskedOK, Granted, Using, Refused
  <2>4. /\ "token" \notin Errors /\ req[r1].token \in DOMAIN tokens
        /\ tokens[req[r1].token].client = req[r1].client
        /\ FamilyOf(r1) = tokens[req[r1].token].family
    BY <1>2, <2>1 DEF Reused, UsesOK
  <2>5. FamilyGone(req[r2].token, req[r2].client)
    BY <1>2, <2>3, <2>4 DEF Reused, RefusedOK
  <2> QED
    BY <2>3, <2>4, <2>5 DEF FamilyGone
<1>3. CASE RefreshMode = "rotate"
  <2>1. Reused => ReuseRevokesFamily
    BY <1>2, <1>3
  <2>2. Spec => []Reused
    BY <1>1, <1>3
  <2> QED
    BY <2>1, <2>2, PTL
<1>4. CASE RefreshMode # "rotate"
  <2>1. ReuseRevokesFamily
    BY <1>4 DEF ReuseRevokesFamily
  <2> QED
    BY <2>1, PTL
<1> QED
  BY <1>3, <1>4

-----------------------------------------------------------------------------
(* /userinfo and the ID token, with opaque access tokens.                  *)

\* What a session says is what the ID token says, or will.
Tells(q) ==
  /\ pc[q] \in {"issue", "track"} /\ OpaqueToken(q) \in DOMAIN sessions =>
       /\ sessions[OpaqueToken(q)].subject = local[q].identity.subject
       /\ sessions[OpaqueToken(q)].claims = ClaimsFor(local[q].identity, req[q].client)
  /\ Granted(q) /\ OpaqueToken(q) \in DOMAIN sessions =>
       /\ sessions[OpaqueToken(q)].subject = resp[q].subject
       /\ sessions[OpaqueToken(q)].claims = resp[q].claims

Told(r) ==
  /\ pc[r] # "idle" /\ req[r].op = "userinfo" => KnownToken(req[r].token)
  /\ pc[r] = "done" /\ req[r].op = "userinfo" /\ resp[r].status = "ok" =>
       \A q \in Requests :
         Granted(q) /\ req[r].token = OpaqueToken(q) =>
           resp[r].subject = resp[q].subject /\ resp[r].claims = resp[q].claims

TellFacts ==
  /\ Opaque /\ Inv /\ FreshOK /\ Owned /\ Chained /\ Tracked
  /\ \A r \in Requests : Tells(r) /\ Told(r)

LEMMA NewGrant ==
  ASSUME TellFacts, [Next]_vars, NEW q \in Requests, Granted(q)', ~Granted(q)
  PROVE  Track(q)
<1>0. pc[q] # "done" => resp[q].at = None
  BY DEF TellFacts, Chained, ReplyChain
<1>1. ~Arrives(q)
  <2> SUFFICES ASSUME Arrives(q) PROVE FALSE
    OBVIOUS
  <2>1. pc[q] = "idle" /\ (resp'[q] = resp[q] \/ \E s : resp'[q] = Status(s))
    BY ArriveEffect DEF Arrives, Answered, TellFacts
  <2> QED
    BY <1>0, <2>1 DEF Granted, Status, NoReply
<1>2. CASE Serve(q)
  BY <1>2, ServeReplies DEF Granted, TellFacts
<1> QED
  BY <1>1, <1>2, WhoMoves DEF Granted, TellFacts

\* The session of an opaque token changes only as its grant stores it.
LEMMA SessionStays ==
  ASSUME TellFacts, [Next]_vars, NEW q \in Requests, ~Put(q),
         OpaqueToken(q) \in DOMAIN sessions'
  PROVE  /\ OpaqueToken(q) \in DOMAIN sessions
         /\ sessions'[OpaqueToken(q)] = sessions[OpaqueToken(q)]
<1>1. ASSUME NEW r \in Requests, Put(r) PROVE local[r].at # OpaqueToken(q)
  <2>1. pc[r] = "put"
    BY <1>1, PutEffect DEF TellFacts
  <2>2. local[r].at = OpaqueToken(r)
    BY <2>1, MintedOpaque DEF TellFacts
  <2> QED
    BY <1>1, <2>2, OpaqueTokens
<1> QED
  BY <1>1, NextCases, OnlyPutStores, ArriveEffect DEF Elsewhere, Arrives, TellFacts

LEMMA TellsStep ==
  ASSUME TellFacts, [Next]_vars, NEW q \in Requests
  PROVE  Tells(q)'
<1> PICK at : at = OpaqueToken(q)
  OBVIOUS
<1> SUFFICES ASSUME at \in DOMAIN sessions'
             PROVE  /\ pc'[q] \in {"issue", "track"} =>
                         /\ sessions'[at].subject = local'[q].identity.subject
                         /\ sessions'[at].claims =
                              ClaimsFor(local'[q].identity, req'[q].client)
                    /\ Granted(q)' =>
                         /\ sessions'[at].subject = resp'[q].subject
                         /\ sessions'[at].claims = resp'[q].claims
  BY DEF Tells, OpaqueToken
<1>0. Tells(q)
  BY DEF TellFacts
<1>1. CASE Put(q)
  <2>1. pc[q] = "put" /\ local[q].at = at /\ Serve(q)
    BY <1>1, PutEffect, MintedOpaque DEF TellFacts, Serve
  <2>2. sessions' = MapPut(sessions, at, [subject |-> local[q].identity.subject,
                      claims |-> ClaimsFor(local[q].identity, req[q].client),
                      client |-> req[q].client,
                      expiresAt |-> local[q].readAt + AccessTokenTTL])
    BY <1>1, <2>1 DEF Put, PutSession
  <2>3. /\ sessions'[at].subject = local[q].identity.subject
        /\ sessions'[at].claims = ClaimsFor(local[q].identity, req[q].client)
    BY <2>2 DEF MapPut
  <2>4. local'[q] = local[q] /\ pc'[q] # "done" /\ req'[q] = req[q]
    BY <1>1, <2>1, PutEffect, ServeOthers DEF TellFacts
  <2> QED
    BY <2>3, <2>4 DEF Granted
<1>2. CASE ~Put(q)
  <2>1. at \in DOMAIN sessions /\ sessions'[at] = sessions[at]
    BY <1>2, SessionStays
  <2>2. ASSUME pc'[q] \in {"issue", "track"}
        PROVE  /\ pc[q] \in {"issue", "track"}
               /\ local'[q].identity = local[q].identity /\ req'[q] = req[q]
    <3>1. ~Arrives(q)
      BY <2>2, ArriveOthers, ArriveEffect DEF Arrives, Answered, TellFacts
    <3>2. CASE Serve(q)
      <4>1. pc[q] \in {"issue", "put", "track"}
        <5>1. pc[q] \in Labels \ {"idle", "done"}
          BY <3>2, ServeOthers DEF TellFacts, Inv, TypeOK
        <5>2. pc[q] \notin {"consume", "refresh", "mint"}
          BY <2>2, <3>2, ServeMoves DEF TellFacts
        <5>3. pc[q] \notin {"find", "delete", "revokeFamily", "sweep", "lookup"}
          BY <2>2, <3>2, Dispatch, LookEffect, DeleteEffect, RevokeEffect, SweepEffect,
             EndSweepEffect, LookupEffect DEF Answered, TellFacts
        <5> QED
          BY <5>1, <5>2, <5>3 DEF Labels
      <4>2. pc[q] = "issue"
        BY <1>2, <2>2, <3>2, <4>1, Dispatch, TrackEffect DEF TellFacts
      <4>3. Issue(q)
        BY <3>2, <4>2, Dispatch
      <4>4. local'[q].identity = local[q].identity
        BY <4>3, IssueEffect DEF TellFacts
      <4> QED
        BY <3>2, <4>2, <4>4, ServeOthers DEF TellFacts
    <3> QED
      BY <2>2, <3>1, <3>2, WhoMoves DEF TellFacts
  <2>3. ASSUME Granted(q)', Granted(q)
        PROVE  resp'[q] = resp[q]
    BY <2>3, RepliesStay DEF Granted, TellFacts
  <2>4. ASSUME Granted(q)', ~Granted(q)
        PROVE  /\ pc[q] = "track"
               /\ resp'[q].subject = local[q].identity.subject
               /\ resp'[q].claims = ClaimsFor(local[q].identity, req[q].client)
    <3>1. Track(q)
      BY <2>4, NewGrant
    <3>2. pc[q] = "track" /\ resp'[q].subject = local[q].identity.subject
      BY <3>1, TrackEffect DEF TellFacts
    <3>3. resp'[q].claims = ClaimsFor(local[q].identity, req[q].client)
      BY <3>1, TrackEffect DEF TellFacts
    <3> QED
      BY <3>2, <3>3
  <2> QED
    BY <1>0, <2>1, <2>2, <2>3, <2>4 DEF Tells
<1> QED
  BY <1>1, <1>2

LEMMA UserinfoArrives ==
  ASSUME TellFacts, NEW r \in Requests, Arrives(r), req'[r].op = "userinfo"
  PROVE  KnownToken(req'[r].token)
<1>1. \A q, label, l : Arrive(r, q, label, l) => req'[r] = q
  BY DEF Arrive, TellFacts, Inv, TypeOK
<1>2. Userinfo(r)
  <2>1. Exchange(r) => req'[r].op = "exchange"
    BY <1>1 DEF Exchange, Form
  <2>2. Revocation(r) => req'[r].op = "revoke"
    BY <1>1 DEF Revocation, Form
  <2>3. Refresh(r) => req'[r].op = "refresh"
    BY <1>1 DEF Refresh, Form
  <2> QED
    BY <2>1, <2>2, <2>3 DEF Arrives
<1>3. PICK t \in Delivered("at") \cup Guesses : req'[r].token = t
  BY <1>1, <1>2 DEF Userinfo, Form
<1>4. ASSUME t \in Delivered("at") PROVE KnownToken(t)
  <2>1. PICK p \in Requests : t = resp[p].at /\ t # None
    BY <1>4 DEF Delivered
  <2>2. t = OpaqueToken(p) /\ pc[p] = "done"
    BY <2>1 DEF TellFacts, Tracked, ReplyOpaque
  <2>3. \A s \in Requests : t = OpaqueToken(s) => pc[s] = "done"
    BY <2>2, OpaqueTokens
  <2>4. t \notin RefreshToken
    BY <2>2, TokenKinds
  <2> QED
    BY <2>3, <2>4 DEF KnownToken
<1>5. ASSUME t \in Guesses PROVE KnownToken(t)
  <2>1. t \in {Unknown, Missing}
    BY <1>5, GuessesType
  <2>2. t \notin RefreshToken /\ t \notin AccessToken
    BY <2>1, TargetAssumption
  <2> QED
    BY <2>2, TokenKinds DEF KnownToken
<1> QED
  BY <1>3, <1>4, <1>5

LEMMA ToldStep ==
  ASSUME TellFacts, [Next]_vars, NEW r \in Requests
  PROVE  Told(r)'
<1> PICK t : t = req'[r].token
  OBVIOUS
<1>0. Told(r)
  BY DEF TellFacts
<1>1. ASSUME pc'[r] # "idle", req'[r].op = "userinfo"
      PROVE  KnownToken(t) /\ KnownToken(t)'
  <2>1. KnownToken(t)
    BY <1>0, <1>1, WhoMoves, UserinfoArrives DEF Told, TellFacts
  <2> QED
    BY <2>1, KnownStays DEF TellFacts
<1>2. ASSUME pc'[r] = "done", req'[r].op = "userinfo", resp'[r].status = "ok",
             NEW q \in Requests, Granted(q)', t = OpaqueToken(q)
      PROVE  resp'[r].subject = resp'[q].subject /\ resp'[r].claims = resp'[q].claims
  <2>1. pc[q] = "done"
    BY <1>1, <1>2 DEF KnownToken
  <2>2. Granted(q) /\ resp'[q] = resp[q]
    <3>1. resp'[q] = resp[q]
      BY <2>1, RepliesStay DEF TellFacts
    <3> QED
      BY <1>2, <2>1, <3>1 DEF Granted
  <2>3. ~Arrives(r)
    BY <1>2, ArriveOthers DEF Arrives, TellFacts
  <2>4. CASE pc'[r] = pc[r] /\ req'[r] = req[r] /\ resp'[r] = resp[r]
    BY <1>0, <1>2, <2>2, <2>4 DEF Told
  <2>5. CASE Serve(r) /\ req'[r] = req[r]
    <3>1. Lookup(r)
      BY <1>2, <2>5, ServeOthers, Dispatch DEF TellFacts, Inv, TypeOK, HandlerOK, Labels
    <3>2. resp'[r] = IF LookupOK(local[r].readAt, t)
                       THEN [Status("ok") EXCEPT !.subject = sessions[t].subject,
                                                 !.claims = sessions[t].claims]
                       ELSE Status("invalid_token")
      BY <2>5, <3>1 DEF Lookup, Answer, TellFacts, Inv, TypeOK
    <3>3. LookupOK(local[r].readAt, t)
      BY <1>2, <3>2 DEF Status, NoReply
    <3>4. t \in DOMAIN sessions
      BY <3>3 DEF LookupOK
    <3>5. resp'[r].subject = sessions[t].subject /\ resp'[r].claims = sessions[t].claims
      BY <3>2, <3>3 DEF Status, NoReply
    <3>6. sessions[t].subject = resp[q].subject /\ sessions[t].claims = resp[q].claims
      BY <1>2, <2>2, <3>4 DEF TellFacts, Tells
    <3> QED
      BY <2>2, <3>5, <3>6
  <2> QED
    BY <2>3, <2>4, <2>5, WhoMoves DEF TellFacts
<1> QED
  BY <1>1, <1>2 DEF Told

\* With opaque access tokens /userinfo says of a token what the ID token that
\* came with it says (claimsFor, sessions.put).
THEOREM UserinfoMatchesIDToken == Opaque /\ Spec => []UserinfoEchoesIDToken
<1> SUFFICES ASSUME Opaque PROVE Spec => []UserinfoEchoesIDToken
  OBVIOUS
<1> DEFINE AllTold == \A r \in Requests : Tells(r) /\ Told(r)
<1>1. Init => AllTold
  BY DEF Init, Tells, Told, Granted
<1>2. Inv /\ FreshOK /\ Owned /\ Chained /\ Tracked /\ AllTold /\ [Next]_vars => AllTold'
  BY TellsStep, ToldStep DEF TellFacts
<1>3. Tracked /\ AllTold => UserinfoEchoesIDToken
  <2> SUFFICES ASSUME Tracked, AllTold, NEW r \in Requests, NEW q \in Requests,
                      Granted(q),
                      pc[r] = "done" /\ req[r].op = "userinfo" /\ resp[r].status = "ok",
                      req[r].token = resp[q].at
               PROVE  /\ resp[r].subject = resp[q].subject
                      /\ resp[r].claims = resp[q].claims
    BY DEF UserinfoEchoesIDToken, AnsweredFor
  <2>1. resp[q].at = OpaqueToken(q)
    BY DEF Tracked, ReplyOpaque, Granted
  <2> QED
    BY <2>1 DEF Told
<1> HIDE DEF AllTold
<1> QED
  BY <1>1, <1>2, <1>3, TrackedAlways, PTL DEF Spec

-----------------------------------------------------------------------------
(* /userinfo and the login, with either format.                            *)

\* Request p holds, or has delivered, access token `at` for a login with these
\* claims.
HoldsFor(p, at, claims) ==
  \/ /\ pc[p] \in {"put", "issue", "track"}
     /\ local[p].at = at /\ ClaimsFor(local[p].identity, req[p].client) = claims
  \/ pc[p] = "done" /\ resp[p].at = at /\ resp[p].claims = claims

StoredOK ==
  \A at \in DOMAIN sessions :
    /\ \E p \in Requests : HoldsFor(p, at, sessions[at].claims)
    /\ AccessTokenFormat = "jwt" => sessions[at].subject = at.sub

\* What a grant and a /userinfo have answered.
SaidOK(r) ==
  /\ Granted(r) /\ AccessTokenFormat = "jwt" => resp[r].subject = resp[r].at.sub
  /\ pc[r] = "done" /\ req[r].op = "userinfo" /\ resp[r].status = "ok" =>
       /\ \E p \in Requests : HoldsFor(p, req[r].token, resp[r].claims)
       /\ AccessTokenFormat = "jwt" => resp[r].subject = req[r].token.sub

SaidFacts ==
  Inv /\ FreshOK /\ Owned /\ Chained /\ StoredOK /\ \A r \in Requests : SaidOK(r)

LEMMA HoldsForStays ==
  ASSUME Inv, [Next]_vars, NEW p \in Requests, NEW at, NEW cl, HoldsFor(p, at, cl)
  PROVE  HoldsFor(p, at, cl)'
<1>1. CASE pc[p] = "done"
  <2>1. /\ pc'[p] = pc[p] /\ resp'[p] = resp[p]
    BY <1>1, WhoMoves, ArriveOthers DEF Arrives
  <2> QED
    BY <1>1, <2>1 DEF HoldsFor
<1>2. CASE pc[p] \in {"put", "issue", "track"}
  <2>1. local[p].at = at /\ ClaimsFor(local[p].identity, req[p].client) = cl
    BY <1>2 DEF HoldsFor
  <2>2. CASE /\ pc'[p] = pc[p] /\ req'[p] = req[p] /\ local'[p] = local[p]
    BY <1>2, <2>1, <2>2 DEF HoldsFor
  <2>3. CASE Serve(p) /\ req'[p] = req[p]
    <3>1. CASE Put(p)
      BY <2>1, <2>3, <3>1, PutEffect DEF HoldsFor
    <3>2. CASE Issue(p)
      <4>1. /\ pc'[p] = "track" /\ local'[p].at = local[p].at
            /\ local'[p].identity = local[p].identity
        BY <3>2, IssueEffect
      <4> QED
        BY <2>1, <2>3, <4>1 DEF HoldsFor
    <3>3. CASE Track(p)
      <4>1. /\ pc'[p] = "done" /\ resp'[p].at = local[p].at
        BY <3>3, TrackEffect
      <4>2. resp'[p].claims = ClaimsFor(local[p].identity, req[p].client)
        BY <3>3, TrackEffect
      <4> QED
        BY <2>1, <4>1, <4>2 DEF HoldsFor
    <3> QED
      BY <1>2, <2>3, <3>1, <3>2, <3>3, Dispatch
  <2> QED
    BY <1>2, <2>2, <2>3, WhoMoves
<1> QED
  BY <1>1, <1>2 DEF HoldsFor

\* What a grant mints names its login, if it is a JWT.
LEMMA MintedSubject ==
  ASSUME Inv, Owned, NEW r \in Requests, pc[r] \in {"put", "issue", "track"},
         AccessTokenFormat = "jwt"
  PROVE  local[r].at.sub = local[r].identity.subject
<1>1. local[r].at = JWTToken(IssuerFor(local[r].identity, req[r].client),
                             local[r].identity.subject, req[r].client,
                             local[r].readAt)
  BY DEF Owned, OwnerOK, MintAccessToken
<1>2. \A iss, sub, c, t : JWTToken(iss, sub, c, t).sub = sub
  BY DEF JWTToken
<1> QED
  BY <1>1, <1>2

LEMMA StoredStep ==
  ASSUME SaidFacts, [Next]_vars
  PROVE  StoredOK'
<1> SUFFICES ASSUME NEW at \in DOMAIN sessions'
             PROVE  /\ \E p \in Requests : HoldsFor(p, at, sessions[at].claims)'
                    /\ AccessTokenFormat = "jwt" => sessions'[at].subject = at.sub
  BY DEF StoredOK
<1>1. CASE at \in DOMAIN sessions /\ sessions'[at] = sessions[at]
  <2> PICK cl : cl = sessions[at].claims
    OBVIOUS
  <2>1. PICK p \in Requests : HoldsFor(p, at, cl)
    BY <1>1 DEF SaidFacts, StoredOK
  <2>2. HoldsFor(p, at, cl)'
    BY <2>1, HoldsForStays DEF SaidFacts
  <2> QED
    BY <1>1, <2>2 DEF HoldsFor, SaidFacts, StoredOK
<1>2. ASSUME NEW r \in Requests, Put(r), at = local[r].at
      PROVE  /\ \E p \in Requests : HoldsFor(p, at, sessions[at].claims)'
             /\ AccessTokenFormat = "jwt" => sessions'[at].subject = at.sub
  <2>1. sessions' = MapPut(sessions, at, [subject |-> local[r].identity.subject,
                      claims |-> ClaimsFor(local[r].identity, req[r].client),
                      client |-> req[r].client,
                      expiresAt |-> local[r].readAt + AccessTokenTTL])
    BY <1>2 DEF Put, PutSession
  <2>2. sessions'[at].claims = ClaimsFor(local[r].identity, req[r].client)
    BY <2>1 DEF MapPut
  <2>3. sessions'[at].subject = local[r].identity.subject
    BY <2>1 DEF MapPut
  <2>4. /\ pc[r] = "put" /\ pc'[r] \in {"issue", "track"}
        /\ local'[r] = local[r] /\ req'[r] = req[r]
    BY <1>2, PutEffect DEF SaidFacts, Put
  <2>5. HoldsFor(r, at, sessions[at].claims)'
    BY <1>2, <2>2, <2>4 DEF HoldsFor
  <2> QED
    BY <1>2, <2>3, <2>4, <2>5, MintedSubject DEF SaidFacts
<1>3. ASSUME NEW r \in Requests, Serve(r)
      PROVE  \/ at \in DOMAIN sessions /\ sessions'[at] = sessions[at]
             \/ Put(r) /\ at = local[r].at
  BY <1>3, OnlyPutStores DEF SaidFacts
<1> QED
  BY <1>1, <1>2, <1>3, NextCases, ArriveEffect DEF Elsewhere, Arrives, SaidFacts

LEMMA SaidStep ==
  ASSUME SaidFacts, [Next]_vars, NEW r \in Requests
  PROVE  SaidOK(r)'
<1>0. SaidOK(r) /\ (pc[r] # "done" => resp[r].at = None)
  BY DEF SaidFacts, Chained, ReplyChain
<1>1. CASE pc[r] = "done"
  <2>1. pc'[r] = pc[r] /\ req'[r] = req[r] /\ resp'[r] = resp[r]
    BY <1>1, WhoMoves, ArriveOthers DEF Arrives, SaidFacts
  <2> PICK t, cl : t = req[r].token /\ cl = resp[r].claims
    OBVIOUS
  <2>2. \A p \in Requests : HoldsFor(p, t, cl) => HoldsFor(p, t, cl)'
    BY HoldsForStays DEF SaidFacts
  <2> QED
    BY <1>0, <2>1, <2>2 DEF SaidOK, Granted, HoldsFor
<1>2. CASE pc[r] # "done" /\ pc'[r] = "done" /\ ~Serve(r)
  <2>1. Arrives(r)
    BY <1>2, WhoMoves DEF SaidFacts
  <2>2. resp'[r].status # "ok" /\ resp'[r].at = None
    <3>1. \A s : Status(s).at = None /\ Status(s).status = s
      BY DEF Status, NoReply
    <3> QED
      BY <1>2, <2>1, <3>1, ArriveEffect DEF Arrives, Answered, SaidFacts
  <2> QED
    BY <2>2 DEF SaidOK, Granted
<1>3. CASE Serve(r) /\ pc'[r] = "done"
  <2>1. req'[r] = req[r] /\ HandlerOK(r) /\ pc[r] \in Labels \ {"idle", "done"}
    BY <1>3, ServeOthers DEF SaidFacts, Inv, TypeOK
  <2>2. ASSUME resp'[r].at # None, AccessTokenFormat = "jwt"
        PROVE  resp'[r].subject = resp'[r].at.sub
    <3>1. Track(r)
      BY <1>3, <2>2, ServeReplies DEF SaidFacts
    <3>2. /\ pc[r] = "track" /\ resp'[r].subject = local[r].identity.subject
          /\ resp'[r].at = local[r].at
      BY <3>1, TrackEffect DEF SaidFacts
    <3> QED
      BY <2>2, <3>2, MintedSubject DEF SaidFacts
  <2>3. ASSUME req[r].op = "userinfo", resp'[r].status = "ok"
        PROVE  /\ \E p \in Requests : HoldsFor(p, req[r].token, resp[r].claims)'
               /\ AccessTokenFormat = "jwt" => resp'[r].subject = req[r].token.sub
    <3> PICK t : t = req[r].token
      OBVIOUS
    <3>1. Lookup(r)
      BY <1>3, <2>1, <2>3, Dispatch DEF HandlerOK, Labels
    <3>2. resp'[r] = IF LookupOK(local[r].readAt, t)
                       THEN [Status("ok") EXCEPT !.subject = sessions[t].subject,
                                                 !.claims = sessions[t].claims]
                       ELSE Status("invalid_token")
      BY <3>1 DEF Lookup, Answer, SaidFacts, Inv, TypeOK
    <3>3. LookupOK(local[r].readAt, t)
      BY <2>3, <3>2 DEF Status, NoReply
    <3>4. t \in DOMAIN sessions
      BY <3>3 DEF LookupOK
    <3>5. resp'[r].subject = sessions[t].subject /\ resp'[r].claims = sessions[t].claims
      BY <3>2, <3>3 DEF Status, NoReply
    <3> PICK cl : cl = sessions[t].claims
      OBVIOUS
    <3>6. PICK p \in Requests : HoldsFor(p, t, cl)
      BY <3>4 DEF SaidFacts, StoredOK
    <3>7. HoldsFor(p, t, cl)'
      BY <3>6, HoldsForStays DEF SaidFacts
    <3> QED
      BY <2>1, <3>4, <3>5, <3>7 DEF HoldsFor, SaidFacts, StoredOK
  <2> QED
    BY <2>1, <2>2, <2>3 DEF SaidOK, Granted
<1>4. CASE pc'[r] # "done"
  BY <1>4 DEF SaidOK, Granted
<1> QED
  BY <1>1, <1>2, <1>3, <1>4

\* Whatever string the access token is and whoever else has stored a session
\* under it, /userinfo answers it with the subject it was delivered for and with
\* the claims of a login that minted it (sessions.put, userinfoHandler).
THEOREM UserinfoTellsALogin == Spec => []UserinfoAnswersLogin
<1> DEFINE AllSaid == StoredOK /\ \A r \in Requests : SaidOK(r)
<1>1. Init => AllSaid
  BY DEF Init, SessionsInit, EmptyMap, StoredOK, SaidOK, Granted
<1>2. Inv /\ FreshOK /\ Owned /\ Chained /\ AllSaid /\ [Next]_vars => AllSaid'
  BY StoredStep, SaidStep DEF SaidFacts
<1>3. AllSaid /\ (Opaque => UserinfoEchoesIDToken) => UserinfoAnswersLogin
  <2> SUFFICES ASSUME AllSaid, Opaque => UserinfoEchoesIDToken,
                      NEW r \in Requests, NEW q \in Requests, AnsweredFor(r, q)
               PROVE  /\ resp[r].subject = resp[q].subject
                      /\ \E p \in Requests : MintedFor(p, resp[q].at, resp[r].claims)
    BY DEF UserinfoAnswersLogin
  <2>1. /\ Granted(q) /\ req[r].token = resp[q].at
        /\ pc[r] = "done" /\ req[r].op = "userinfo" /\ resp[r].status = "ok"
    BY DEF AnsweredFor
  <2>2. \E p \in Requests : MintedFor(p, resp[q].at, resp[r].claims)
    BY <2>1 DEF SaidOK, HoldsFor, MintedFor
  <2>3. CASE Opaque
    BY <2>2, <2>3 DEF UserinfoEchoesIDToken
  <2>4. CASE AccessTokenFormat = "jwt"
    BY <2>1, <2>2, <2>4 DEF SaidOK
  <2> QED
    BY <2>3, <2>4, SessionAssumption DEF Opaque
<1>4. CASE Opaque
  <2>1. Spec => []UserinfoEchoesIDToken
    BY <1>4, UserinfoMatchesIDToken
  <2> HIDE DEF AllSaid
  <2> QED
    BY <1>1, <1>2, <1>3, <2>1, ChainedAlways, PTL DEF Spec
<1>5. CASE ~Opaque
  <2>1. AllSaid => UserinfoAnswersLogin
    BY <1>3, <1>5
  <2> HIDE DEF AllSaid
  <2> QED
    BY <1>1, <1>2, <2>1, ChainedAlways, PTL DEF Spec
<1> QED
  BY <1>4, <1>5

-----------------------------------------------------------------------------
(* The contract.                                                           *)

\* A family is begun by an exchange that has redeemed its code.
BegunOK == \A f \in DOMAIN families : Redeeming(f)

Facts ==
  Opaque /\ Inv /\ FreshOK /\ Owned /\ Chained /\ Tracked /\ RedeemedOnce /\ BegunOK

LEMMA BegunStep ==
  ASSUME Inv, [Next]_vars, BegunOK
  PROVE  BegunOK'
<1> SUFFICES ASSUME NEW f \in DOMAIN families' PROVE Redeeming(f)'
  BY DEF BegunOK
<1>1. CASE f \in DOMAIN families
  <2>1. f \in Requests /\ Redeeming(f) /\ pc[f] \in {"track", "done"}
    BY <1>1, TypesOfMaps DEF BegunOK, Inv, FamiliesOK
  <2>2. CASE pc[f] = "done"
    BY <2>1, <2>2, RepliesStay DEF Redeeming
  <2>3. CASE pc[f] = "track"
    <3>1. CASE Elsewhere
      BY <2>1, <3>1 DEF Elsewhere, Redeeming
    <3>2. ASSUME NEW q \in Requests, Arrives(q) \/ Serve(q), q # f
          PROVE  Redeeming(f)'
      <4>1. OthersStay(q)
        BY <3>2, ArriveOthers, ServeOthers DEF Arrives
      <4> QED
        BY <2>1, <3>2, <4>1 DEF OthersStay, Redeeming
    <3>3. CASE Serve(f)
      <4>1. Track(f) /\ req'[f] = req[f]
        BY <2>1, <2>3, <3>3, Dispatch, ServeOthers
      <4>2. pc'[f] = "done" /\ resp'[f].status = "ok"
        BY <2>1, <4>1, TrackEffect
      <4> QED
        BY <2>1, <4>1, <4>2 DEF Redeeming
    <3>4. ~Arrives(f)
      BY <2>1, <2>3, ArriveOthers DEF Arrives
    <3> QED
      BY <3>1, <3>2, <3>3, <3>4, NextCases
  <2> QED
    BY <2>1, <2>2, <2>3
<1>2. CASE f \notin DOMAIN families
  <2>1. PICK r \in Requests : Issue(r)
    BY <1>2, NextCases, Dispatch, ArriveEffect, TrackEffect, RevokeEffect
       DEF Elsewhere, Arrives
  <2>2. f = r
    <3>1. DOMAIN families' = DOMAIN families \cup {r}
      BY <2>1, IssueEffect
    <3> QED
      BY <1>2, <3>1
  <2>3. pc[r] = "issue" /\ pc'[r] = "track"
    BY <2>1, IssueEffect
  <2>4. req'[r] = req[r]
    BY <2>1 DEF Issue
  <2> QED
    BY <2>2, <2>3, <2>4 DEF Redeeming, Inv, HandlerOK
<1> QED
  BY <1>1, <1>2

LEMMA FactsAlways == Opaque /\ Spec => []Facts
<1> SUFFICES ASSUME Opaque PROVE Spec => []Facts
  OBVIOUS
<1>1. Init => RedeemedOnce /\ BegunOK
  BY DEF Init, RefreshInit, EmptyMap, RedeemedOnce, Redeeming, BegunOK
<1>2. Inv /\ RedeemedOnce /\ BegunOK /\ [Next]_vars => RedeemedOnce' /\ BegunOK'
  BY RedeemedOnceStep, BegunStep
<1> QED
  BY <1>1, <1>2, TrackedAlways, PTL DEF Spec, Facts

-----------------------------------------------------------------------------
(* What the contract sees of a login.                                      *)

\* A granted request has delivered its tokens for good.
LEMMA GrantedStays ==
  ASSUME Facts, [Next]_vars, NEW q \in Requests, Granted(q)
  PROVE  /\ Granted(q)' /\ resp'[q] = resp[q]
         /\ resp[q].at = OpaqueToken(q)
         /\ resp[q].rt \in DOMAIN tokens /\ FamilyOf(q) \in DOMAIN families
         /\ FamilyOf(q)' = FamilyOf(q)
<1>1. pc[q] = "done" /\ resp[q].at # None
  BY DEF Granted
<1>2. pc'[q] = "done" /\ resp'[q] = resp[q]
  BY <1>1, RepliesStay DEF Facts
<1>3. resp[q].at = OpaqueToken(q)
  BY <1>1 DEF Facts, Tracked, ReplyOpaque
<1>4. PICK t \in DOMAIN tokens : t = resp[q].rt
  BY <1>1 DEF Facts, Chained, ReplyChain
<1>5. tokens[t].family \in DOMAIN families
  BY TypesOfMaps DEF Facts
<1>6. tokens'[t].family = tokens[t].family
  BY StepKeeps DEF Facts, TokensKeep
<1> QED
  BY <1>1, <1>2, <1>3, <1>4, <1>5, <1>6 DEF Granted, FamilyOf

\* Only Track delivers.
LEMMA OnlyTrackGrants ==
  ASSUME Facts, [Next]_vars, NEW q \in Requests, Granted(q)', ~Granted(q)
  PROVE  Track(q)
<1>1. pc'[q] = "done" /\ resp'[q].at # None /\ (pc[q] # "done" \/ resp[q].at = None)
  BY DEF Granted
<1>2. ~Elsewhere
  BY <1>1 DEF Elsewhere
<1>3. ASSUME Arrives(q) PROVE FALSE
  <2>1. resp[q].at = None
    BY <1>3, ArriveEffect DEF Arrives, Facts, Chained, ReplyChain
  <2>2. resp'[q] = resp[q] \/ \E s : resp'[q] = Status(s)
    BY <1>3, ArriveEffect DEF Arrives, Answered, Facts
  <2> QED
    BY <1>1, <2>1, <2>2 DEF Status, NoReply
<1>4. ASSUME NEW r \in Requests, r # q, Arrives(r) \/ Serve(r) PROVE FALSE
  <2>1. OthersStay(r)
    BY <1>4, ArriveOthers, ServeOthers DEF Arrives, Facts
  <2> QED
    BY <1>1, <1>4, <2>1 DEF OthersStay
<1>5. CASE Serve(q)
  BY <1>1, <1>5, ServeReplies DEF Facts
<1> QED
  BY <1>2, <1>3, <1>4, <1>5, NextCases

\* The login family f goes back to does not change.
LEMMA FamilyLogin ==
  ASSUME Facts, [Next]_vars, NEW f \in DOMAIN families
  PROVE  f \in DOMAIN families' /\ req'[f] = req[f]
<1>1. f \in Requests /\ pc[f] # "idle"
  BY TypesOfMaps DEF Facts, Inv, FamiliesOK
<1> QED
  BY <1>1, StepKeeps DEF Facts, FamiliesKeep, RequestsKeep

\* A login has at most one family, and its code is spent.
LEMMA OneFamily ==
  ASSUME Facts, NEW f \in DOMAIN families, NEW g \in DOMAIN families
  PROVE  /\ f \in Requests
         /\ req[f].token \in Logins
         /\ req[f].token \in DOMAIN codes /\ codes[req[f].token].consumed
         /\ req[f].token = req[g].token => f = g
<1>1. f \in Requests /\ g \in Requests /\ Redeeming(f) /\ Redeeming(g)
  BY TypesOfMaps DEF Facts, BegunOK
<1>2. req[f].token \in DOMAIN codes /\ codes[req[f].token].consumed
  BY <1>1 DEF Facts, Inv, RedeemedOK
<1>3. req[f].token \in Logins
  BY <1>2, TypesOfMaps DEF Facts
<1> QED
  BY <1>1, <1>2, <1>3 DEF Facts, RedeemedOnce

\* Where a login is, read off its code and its family.
LEMMA PhaseWithFamily ==
  ASSUME Facts, NEW f \in DOMAIN families, NEW l, l = req[f].token
  PROVE  PhaseOf(l) = IF families[f].revoked THEN "ending" ELSE "active"
<1>1. l \in DOMAIN codes /\ codes[l].consumed
  BY OneFamily
<1>2. FamiliesOf(l) = {f}
  BY OneFamily DEF FamiliesOf
<1> QED
  BY <1>1, <1>2 DEF PhaseOf

LEMMA PhaseWithoutFamily ==
  ASSUME NEW l, \A f \in DOMAIN families : req[f].token # l
  PROVE  PhaseOf(l) = IF l \notin DOMAIN codes THEN "new"
                      ELSE IF codes[l].consumed THEN "spent" ELSE "offered"
<1>1. FamiliesOf(l) = {}
  BY DEF FamiliesOf
<1> QED
  BY <1>1 DEF PhaseOf

LEMMA FamiliesOfStays ==
  ASSUME Facts, [Next]_vars, DOMAIN families' = DOMAIN families, NEW l
  PROVE  FamiliesOf(l)' = FamiliesOf(l)
BY FamilyLogin DEF FamiliesOf

LEMMA PhaseStays ==
  ASSUME Facts, [Next]_vars, DOMAIN families' = DOMAIN families, NEW l,
         l \in DOMAIN codes' <=> l \in DOMAIN codes,
         l \in DOMAIN codes => codes'[l].consumed = codes[l].consumed,
         \A f \in FamiliesOf(l) : families'[f].revoked = families[f].revoked
  PROVE  PhaseOf(l)' = PhaseOf(l)
<1>1. FamiliesOf(l)' = FamiliesOf(l)
  BY FamiliesOfStays
<1> QED
  BY <1>1 DEF PhaseOf

\* A step that leaves the codes and the families alone.
LEMMA PhasesStay ==
  ASSUME Facts, [Next]_vars, UNCHANGED families,
         \A l \in DOMAIN codes : l \in DOMAIN codes' /\ codes'[l] = codes[l],
         \A l \in DOMAIN codes' : l \in DOMAIN codes
  PROVE  \A l : PhaseOf(l)' = PhaseOf(l)
BY PhaseStays

\* What was delivered stays delivered, and no session comes back.
LEMMA UsableThen ==
  ASSUME Facts, [Next]_vars, NEW q \in Requests, Granted(q), NEW l
  PROVE  /\ q \in UsableOf(l)' <=>
              FamilyOf(q) \in FamiliesOf(l) /\ resp[q].at \in DOMAIN sessions'
         /\ q \in UsableOf(l)' => q \in UsableOf(l)
<1> PICK f : f = FamilyOf(q)
  OBVIOUS
<1>1. /\ Granted(q)' /\ resp'[q] = resp[q] /\ FamilyOf(q)' = f
      /\ resp[q].at = OpaqueToken(q) /\ f \in DOMAIN families
  BY GrantedStays
<1>2. f \in FamiliesOf(l)' <=> f \in FamiliesOf(l)
  BY <1>1, FamilyLogin DEF FamiliesOf
<1>3. q \in UsableOf(l)' <=> f \in FamiliesOf(l) /\ resp[q].at \in DOMAIN sessions'
  BY <1>1, <1>2 DEF UsableOf
<1>4. resp[q].at \in DOMAIN sessions' => resp[q].at \in DOMAIN sessions
  <2> SUFFICES ASSUME resp[q].at \in DOMAIN sessions', resp[q].at \notin DOMAIN sessions
               PROVE  FALSE
    OBVIOUS
  <2>1. PICK r \in Requests : Put(r) /\ resp[q].at = local[r].at
    BY NextCases, OnlyPutStores, ArriveEffect DEF Elsewhere, Arrives, Facts
  <2>2. pc[r] = "put"
    BY <2>1, PutEffect DEF Facts
  <2>3. local[r].at = OpaqueToken(r)
    BY <2>2, MintedOpaque DEF Facts
  <2> QED
    BY <1>1, <2>1, <2>2, <2>3, OpaqueTokens DEF Granted
<1> QED
  BY <1>3, <1>4 DEF UsableOf

\* A step that delivers nothing and ends nothing that was delivered.
LEMMA UsableStays ==
  ASSUME Facts, [Next]_vars, \A q \in Requests : ~Track(q),
         \A q \in Requests :
           Granted(q) /\ resp[q].at \in DOMAIN sessions => resp[q].at \in DOMAIN sessions'
  PROVE  \A l : UsableOf(l)' = UsableOf(l)
<1> SUFFICES ASSUME NEW l, NEW q \in Requests
             PROVE  q \in UsableOf(l)' <=> q \in UsableOf(l)
  BY DEF UsableOf
<1>1. CASE Granted(q)
  BY <1>1, UsableThen DEF UsableOf
<1>2. CASE ~Granted(q)
  BY <1>2, OnlyTrackGrants DEF UsableOf
<1> QED
  BY <1>1, <1>2

-----------------------------------------------------------------------------
(* Steps of the contract.                                                  *)

LEMMA ContractStutters ==
  ASSUME \A l : PhaseOf(l)' = PhaseOf(l), \A l : UsableOf(l)' = UsableOf(l)
  PROVE  UNCHANGED Contract!contractVars
BY DEF Contract!contractVars

LEMMA ContractMoves ==
  ASSUME NEW l \in Logins, NEW from, NEW to, PhaseOf(l) = from, PhaseOf(l)' = to,
         \A m \in Logins \ {l} : PhaseOf(m)' = PhaseOf(m),
         \A m : UsableOf(m)' = UsableOf(m)
  PROVE  Contract!Move(l, from, to)
BY DEF Contract!Move

LEMMA ContractDelivers ==
  ASSUME NEW l \in Logins, NEW g, PhaseOf(l) = "active",
         \A m \in Logins : g \notin UsableOf(m),
         \A m : PhaseOf(m)' = PhaseOf(m),
         UsableOf(l)' = UsableOf(l) \cup {g},
         \A m \in Logins \ {l} : UsableOf(m)' = UsableOf(m)
  PROVE  Contract!Deliver(l, g)
BY DEF Contract!Deliver

LEMMA ContractWithdraws ==
  ASSUME NEW l \in Logins, NEW g, g \in UsableOf(l),
         \A m : PhaseOf(m)' = PhaseOf(m),
         UsableOf(l)' = UsableOf(l) \ {g},
         \A m \in Logins \ {l} : UsableOf(m)' = UsableOf(m)
  PROVE  Contract!Withdraw(l, g)
BY DEF Contract!Withdraw

-----------------------------------------------------------------------------
(* What each step of the target is to the contract.                        *)

LEMMA LoginOffers ==
  ASSUME Facts, [Next]_vars, NEW l \in Logins, CompleteLogin(l)
  PROVE  Contract!Offer(l)
<1>1. /\ l \notin DOMAIN codes
      /\ DOMAIN codes' = DOMAIN codes \cup {l}
      /\ ~codes'[l].consumed
      /\ \A m \in DOMAIN codes : codes'[m] = codes[m]
      /\ UNCHANGED <<sessions, tokens, families, pc, req, local, resp>>
  BY DEF CompleteLogin, IssueCode, MapPut
<1>2. PhaseOf(l) = "new"
  BY <1>1 DEF PhaseOf
<1>3. PhaseOf(l)' = "offered"
  BY <1>1 DEF PhaseOf
<1>4. \A m \in Logins \ {l} : PhaseOf(m)' = PhaseOf(m)
  BY <1>1, PhaseStays
<1>5. \A m : UsableOf(m)' = UsableOf(m)
  BY <1>1 DEF UsableOf, Granted, FamiliesOf, FamilyOf
<1> QED
  BY <1>2, <1>3, <1>4, <1>5, ContractMoves DEF Contract!Offer

LEMMA OneServes ==
  ASSUME Facts, NEW r \in Requests, Serve(r), pc[r] # "track"
  PROVE  \A q \in Requests : ~Track(q)
<1> SUFFICES ASSUME NEW q \in Requests, Track(q) PROVE FALSE
  OBVIOUS
<1>1. pc[q] = "track" /\ pc'[q] = "done"
  BY TrackEffect DEF Facts
<1>2. OthersStay(r)
  BY ServeOthers DEF Facts
<1> QED
  BY <1>1, <1>2 DEF OthersStay

LEMMA ConsumeSpends ==
  ASSUME Facts, [Next]_vars, NEW r \in Requests, Consume(r)
  PROVE  req[r].token \in Logins /\ Contract!Spend(req[r].token)
<1> PICK l : l = req[r].token
  OBVIOUS
<1>0. Serve(r) /\ pc[r] = "consume"
  BY ConsumeEffect DEF Serve, Facts
<1>1. l \in DOMAIN codes /\ ~codes[l].consumed /\ codes[l] \in AuthCode
  BY ConsumeEffect DEF Facts
<1>2. codes' = [codes EXCEPT ![l] = [codes[l] EXCEPT !.consumed = TRUE]]
  BY ConsumeEffect DEF Facts
<1>3. /\ DOMAIN codes' = DOMAIN codes
      /\ codes'[l].consumed
      /\ \A m \in DOMAIN codes \ {l} : codes'[m] = codes[m]
  BY <1>1, <1>2 DEF AuthCode
<1>4. UNCHANGED <<sessions, tokens, families>>
  BY ConsumeEffect DEF Facts
<1>5. l \in Logins
  BY <1>1, TypesOfMaps DEF Facts
<1>6. FamiliesOf(l) = {}
  BY <1>1, OneFamily DEF FamiliesOf
<1>7. PhaseOf(l) = "offered"
  BY <1>1 DEF PhaseOf
<1>8. PhaseOf(l)' = "spent"
  <2>1. FamiliesOf(l)' = {}
    BY <1>4, <1>6, FamiliesOfStays
  <2> QED
    BY <1>1, <1>3, <2>1 DEF PhaseOf
<1>9. \A m \in Logins \ {l} : PhaseOf(m)' = PhaseOf(m)
  BY <1>3, <1>4, PhaseStays
<1>10. \A q \in Requests : ~Track(q)
  BY <1>0, OneServes DEF Facts
<1>11. \A m : UsableOf(m)' = UsableOf(m)
  BY <1>4, <1>10, UsableStays
<1> QED
  BY <1>5, <1>7, <1>8, <1>9, <1>11, ContractMoves DEF Contract!Spend

LEMMA IssueBegins ==
  ASSUME Facts, [Next]_vars, NEW r \in Requests, Issue(r)
  PROVE  req[r].token \in Logins /\ Contract!Begin(req[r].token)
<1> PICK l : l = req[r].token
  OBVIOUS
<1>0. Serve(r) /\ pc[r] = "issue"
  BY IssueEffect DEF Serve, Facts
<1>1. DOMAIN families' = DOMAIN families \cup {r}
  BY IssueEffect DEF Facts
<1>2. r \notin DOMAIN families
  BY IssueEffect DEF Facts
<1>3. \A f \in DOMAIN families : families'[f] = families[f]
  BY IssueEffect DEF Facts
<1>4. ~families'[r].revoked
  BY IssueEffect DEF Facts
<1>5. UNCHANGED <<codes, sessions>>
  BY IssueEffect DEF Facts
<1>6. UNCHANGED req
  BY <1>0, ServeOthers DEF Facts
<1>7. Redeeming(r) /\ l \in DOMAIN codes /\ codes[l].consumed
  BY <1>0 DEF Facts, Inv, HandlerOK, RedeemedOK, Redeeming
<1>8. l \in Logins
  BY <1>7, TypesOfMaps DEF Facts
<1>9. \A f \in DOMAIN families : f \in Requests /\ req[f].token # l
  <2> SUFFICES ASSUME NEW f \in DOMAIN families, req[f].token = l PROVE FALSE
    BY TypesOfMaps DEF Facts
  <2>1. f \in Requests /\ Redeeming(f) /\ f # r
    BY <1>2, TypesOfMaps DEF Facts, BegunOK
  <2> QED
    BY <1>7, <2>1 DEF Facts, RedeemedOnce
<1>10. PhaseOf(l) = "spent"
  BY <1>7, <1>9, PhaseWithoutFamily
<1>11. FamiliesOf(l)' = {r}
  BY <1>1, <1>6, <1>9 DEF FamiliesOf
<1>12. PhaseOf(l)' = "active"
  BY <1>4, <1>5, <1>7, <1>11 DEF PhaseOf
<1>13. \A m \in Logins \ {l} : FamiliesOf(m)' = FamiliesOf(m)
  BY <1>1, <1>6 DEF FamiliesOf
<1>14. \A m \in Logins \ {l} : PhaseOf(m)' = PhaseOf(m)
  <2> SUFFICES ASSUME NEW m \in Logins \ {l} PROVE PhaseOf(m)' = PhaseOf(m)
    OBVIOUS
  <2>1. \A f \in FamiliesOf(m) : families'[f] = families[f]
    BY <1>3 DEF FamiliesOf
  <2> QED
    BY <1>5, <1>13, <2>1 DEF PhaseOf
<1>15. \A m : UsableOf(m)' = UsableOf(m)
  BY <1>0, <1>5, OneServes, UsableStays
<1> QED
  BY <1>8, <1>10, <1>12, <1>14, <1>15, ContractMoves DEF Contract!Begin

LEMMA RevokeEnds ==
  ASSUME Facts, [Next]_vars, NEW r \in Requests, RefreshDetectsReuse(r) \/ RevokeFamily(r)
  PROVE  \/ \E l \in Logins : Contract!End(l)
         \/ UNCHANGED Contract!contractVars
<1> PICK f : f = tokens[req[r].token].family
  OBVIOUS
<1> PICK l : l = req[f].token
  OBVIOUS
<1>0. Serve(r) /\ pc[r] # "track"
  BY RevokeEffect DEF Serve, Facts
<1>1. f \in DOMAIN families /\ DOMAIN families' = DOMAIN families
  BY RevokeEffect DEF Facts
<1>2. families'[f].revoked
  BY RevokeEffect DEF Facts
<1>3. \A g \in DOMAIN families \ {f} : families'[g] = families[g]
  BY RevokeEffect DEF Facts
<1>4. UNCHANGED <<codes, sessions>>
  BY RevokeEffect DEF Facts
<1>5. l \in Logins /\ l \in DOMAIN codes /\ codes[l].consumed
  BY <1>1, OneFamily
<1>6. FamiliesOf(l) = {f}
  BY <1>1, OneFamily DEF FamiliesOf
<1>7. \A m : UsableOf(m)' = UsableOf(m)
  BY <1>0, <1>4, OneServes, UsableStays
<1>8. \A m : m # l => PhaseOf(m)' = PhaseOf(m)
  <2> SUFFICES ASSUME NEW m, m # l PROVE PhaseOf(m)' = PhaseOf(m)
    OBVIOUS
  <2>1. \A g \in FamiliesOf(m) : families'[g].revoked = families[g].revoked
    BY <1>3 DEF FamiliesOf
  <2> QED
    BY <1>1, <1>4, <2>1, PhaseStays
<1>9. PhaseOf(l)' = "ending"
  <2>1. FamiliesOf(l)' = {f}
    BY <1>1, <1>6, FamiliesOfStays
  <2> QED
    BY <1>2, <1>4, <1>5, <2>1 DEF PhaseOf
<1>10. PhaseOf(l) = IF families[f].revoked THEN "ending" ELSE "active"
  BY <1>1, PhaseWithFamily
<1>11. CASE families[f].revoked
  <2>1. \A m : PhaseOf(m)' = PhaseOf(m)
    BY <1>8, <1>9, <1>10, <1>11
  <2> QED
    BY <1>7, <2>1, ContractStutters
<1>12. CASE ~families[f].revoked
  <2>1. Contract!Move(l, "active", "ending")
    BY <1>5, <1>7, <1>8, <1>9, <1>10, <1>12, ContractMoves
  <2> QED
    BY <1>5, <2>1 DEF Contract!End
<1> QED
  BY <1>11, <1>12

LEMMA TrackPhases ==
  ASSUME Facts, [Next]_vars, NEW r \in Requests, Track(r)
  PROVE  \A l : PhaseOf(l)' = PhaseOf(l)
<1>1. DOMAIN families' = DOMAIN families /\ UNCHANGED codes
  BY TrackEffect DEF Facts
<1>2. \A f \in DOMAIN families : families'[f].revoked = families[f].revoked
  <2>1. CASE UNCHANGED families
    BY <2>1
  <2>2. CASE ~UNCHANGED families
    <3>1. /\ ~families[local[r].family].revoked
          /\ ~families'[local[r].family].revoked
          /\ \A f \in DOMAIN families \ {local[r].family} : families'[f] = families[f]
      BY <2>2, TrackEffect DEF Facts
    <3>2. \A f \in DOMAIN families : families[f].revoked \in BOOLEAN
      BY TypesOfMaps DEF Facts, Family
    <3>3. \A f \in DOMAIN families' : families'[f].revoked \in BOOLEAN
      BY NextInv DEF Facts, Inv, TypeOK, RefreshTypeOK, IsMap, Family
    <3> QED
      BY <1>1, <3>1, <3>2, <3>3
  <2> QED
    BY <2>1, <2>2
<1>3. \A l, f : f \in FamiliesOf(l) => f \in DOMAIN families
  BY DEF FamiliesOf
<1> QED
  BY <1>1, <1>2, <1>3, PhaseStays

\* The answer of a grant delivers its token to the login of its family, if the
\* family is still alive, and to no other.
LEMMA TrackReaches ==
  ASSUME Facts, [Next]_vars, NEW r \in Requests, Track(r),
         NEW f, f = local[r].family, NEW l, l = req[f].token
  PROVE  /\ f \in DOMAIN families
         /\ \A m : r \notin UsableOf(m)
         /\ \A m : r \in UsableOf(m)' => m = l /\ ~families[f].revoked
<1>1. pc[r] = "track"
  BY TrackEffect DEF Facts
<1>2. PICK t \in DOMAIN tokens : t = local[r].next
  BY <1>1 DEF Facts, Chained, GrantChain, InFamily
<1>3. tokens[t].family = f
  BY <1>1, <1>2 DEF Facts, Chained, GrantChain, InFamily
<1>4. f \in DOMAIN families
  BY <1>3, TypesOfMaps DEF Facts
<1>5. resp'[r].rt = t
  BY <1>2, TrackEffect DEF Facts
<1>6. FamilyOf(r)' = f
  BY <1>3, <1>5, StepKeeps DEF Facts, TokensKeep, FamilyOf
<1>7. \A m : f \in FamiliesOf(m)' => m = l
  BY <1>4, FamilyLogin DEF FamiliesOf
<1>8. families[f].revoked => resp'[r].at \notin DOMAIN sessions'
  <2>1. resp'[r].at = local[r].at
    BY TrackEffect DEF Facts
  <2>2. families[f].revoked => local[r].at \notin DOMAIN sessions'
    BY TrackEffect DEF Facts
  <2> QED
    BY <2>1, <2>2
<1> QED
  BY <1>1, <1>4, <1>6, <1>7, <1>8 DEF UsableOf, Granted

LEMMA TrackOthers ==
  ASSUME Facts, [Next]_vars, NEW r \in Requests, Track(r), NEW m, NEW q \in Requests, q # r
  PROVE  q \in UsableOf(m)' <=> q \in UsableOf(m)
<1>1. CASE Granted(q)
  <2>1. resp[q].at = OpaqueToken(q)
    BY <1>1, GrantedStays
  <2>2. local[r].at = OpaqueToken(r)
    BY MintedOpaque, TrackEffect DEF Facts
  <2>3. resp[q].at # local[r].at
    BY <2>1, <2>2, OpaqueTokens
  <2>4. resp[q].at \in DOMAIN sessions => resp[q].at \in DOMAIN sessions'
    BY <2>3, TrackEffect DEF Facts
  <2> QED
    BY <1>1, <2>4, UsableThen DEF UsableOf
<1>2. CASE ~Granted(q)
  <2>1. OthersStay(r)
    BY ServeOthers DEF Serve, Facts
  <2>2. ~Granted(q)'
    BY <1>2, <2>1 DEF OthersStay, Granted
  <2> QED
    BY <1>2, <2>2 DEF UsableOf
<1> QED
  BY <1>1, <1>2

LEMMA TrackDeliversOne ==
  ASSUME Facts, [Next]_vars, NEW r \in Requests, Track(r)
  PROVE  \/ \E l \in Logins : Contract!Deliver(l, r)
         \/ UNCHANGED Contract!contractVars
<1> PICK f : f = local[r].family
  OBVIOUS
<1> PICK l : l = req[f].token
  OBVIOUS
<1>1. /\ f \in DOMAIN families
      /\ \A m : r \notin UsableOf(m)
      /\ \A m : r \in UsableOf(m)' => m = l /\ ~families[f].revoked
  BY TrackReaches
<1>2. \A m : UsableOf(m) \subseteq Requests /\ UsableOf(m)' \subseteq Requests
  BY DEF UsableOf
<1>3. CASE r \in UsableOf(l)'
  <2>1. l \in Logins /\ PhaseOf(l) = "active"
    BY <1>1, <1>3, OneFamily, PhaseWithFamily
  <2>2. UsableOf(l)' = UsableOf(l) \cup {r}
    BY <1>2, <1>3, TrackOthers
  <2>3. \A m \in Logins \ {l} : UsableOf(m)' = UsableOf(m)
    BY <1>1, <1>2, TrackOthers
  <2> QED
    BY <1>1, <2>1, <2>2, <2>3, TrackPhases, ContractDelivers
<1>4. CASE r \notin UsableOf(l)'
  <2>1. \A m : UsableOf(m)' = UsableOf(m)
    BY <1>1, <1>2, <1>4, TrackOthers
  <2> QED
    BY <2>1, TrackPhases, ContractStutters
<1> QED
  BY <1>3, <1>4

LEMMA DeletionWithdraws ==
  ASSUME Facts, [Next]_vars, NEW r \in Requests, Delete(r) \/ Sweep(r)
  PROVE  \/ \E l \in Logins, g \in Requests : Contract!Withdraw(l, g)
         \/ UNCHANGED Contract!contractVars
<1>0. Serve(r) /\ pc[r] # "track" /\ UNCHANGED <<codes, families>>
  BY DeleteEffect, SweepEffect DEF Serve, Facts
<1>1. PICK at : DOMAIN sessions' = DOMAIN sessions \ {at}
  BY DeleteEffect, SweepEffect DEF Facts
<1>2. \A l : PhaseOf(l)' = PhaseOf(l)
  BY <1>0, PhasesStay
<1>3. ASSUME NEW l \in Logins, NEW g \in Requests, g \in UsableOf(l), resp[g].at = at
      PROVE  Contract!Withdraw(l, g)
  <2>1. Granted(g) /\ at = OpaqueToken(g)
    BY <1>3, GrantedStays DEF UsableOf
  <2>2. ASSUME NEW m, NEW q \in Requests
        PROVE  q \in UsableOf(m)' <=> q \in UsableOf(m) /\ q # g
    <3>1. CASE Granted(q)
      <4>1. resp[q].at = at <=> q = g
        BY <1>3, <2>1, <3>1, GrantedStays, OpaqueTokens
      <4> QED
        BY <1>1, <3>1, <4>1, UsableThen DEF UsableOf
    <3>2. CASE ~Granted(q)
      BY <1>0, <3>2, OneServes, OnlyTrackGrants DEF UsableOf
    <3> QED
      BY <3>1, <3>2
  <2>3. \A m : m # l => g \notin UsableOf(m)
    BY <1>3 DEF UsableOf, FamiliesOf
  <2>4. \A m : UsableOf(m) \subseteq Requests /\ UsableOf(m)' \subseteq Requests
    BY DEF UsableOf
  <2>5. UsableOf(l)' = UsableOf(l) \ {g}
    BY <2>2, <2>4
  <2>6. \A m \in Logins \ {l} : UsableOf(m)' = UsableOf(m)
    BY <2>2, <2>3, <2>4
  <2> QED
    BY <1>2, <1>3, <2>5, <2>6, ContractWithdraws
<1>4. CASE \A l \in Logins, g \in Requests : g \in UsableOf(l) => resp[g].at # at
  <2>1. ASSUME NEW q \in Requests, Granted(q), resp[q].at \in DOMAIN sessions
        PROVE  resp[q].at \in DOMAIN sessions'
    <3>1. PICK f \in DOMAIN families : f = FamilyOf(q)
      BY <2>1, GrantedStays
    <3>2. req[f].token \in Logins /\ f \in FamiliesOf(req[f].token)
      BY OneFamily DEF FamiliesOf
    <3>3. q \in UsableOf(req[f].token)
      BY <2>1, <3>1, <3>2 DEF UsableOf
    <3> QED
      BY <1>1, <1>4, <2>1, <3>2, <3>3
  <2>2. \A m : UsableOf(m)' = UsableOf(m)
    BY <1>0, <2>1, OneServes, UsableStays
  <2> QED
    BY <1>2, <2>2, ContractStutters
<1> QED
  BY <1>3, <1>4

\* The steps the contract does not see.
LEMMA OthersStutter ==
  ASSUME Facts, [Next]_vars,
         \/ UNCHANGED vars \/ MoveClock
         \/ \E r \in Requests : Arrives(r)
         \/ \E r \in Requests :
              /\ Serve(r)
              /\ ~Consume(r) /\ ~Issue(r) /\ ~Track(r) /\ ~RefreshDetectsReuse(r)
              /\ ~RevokeFamily(r) /\ ~Delete(r) /\ ~Sweep(r)
  PROVE  UNCHANGED Contract!contractVars
<1>1. /\ UNCHANGED <<codes, families>>
      /\ \A at \in DOMAIN sessions : at \in DOMAIN sessions'
      /\ \A q \in Requests : ~Track(q)
  <2>1. CASE UNCHANGED vars \/ MoveClock
    BY <2>1, TrackEffect DEF MoveClock, vars, stores, Facts
  <2>2. ASSUME NEW r \in Requests, Arrives(r)
        PROVE  /\ UNCHANGED <<codes, families, sessions>>
               /\ \A q \in Requests : ~Track(q)
    <3>1. UNCHANGED <<codes, families, sessions>> /\ OthersStay(r) /\ pc[r] = "idle"
      BY <2>2, ArriveEffect DEF Arrives, Facts
    <3> QED
      BY <3>1, TrackEffect DEF OthersStay, Facts
  <2>3. ASSUME NEW r \in Requests, Serve(r),
               ~Consume(r) /\ ~Issue(r) /\ ~Track(r) /\ ~RefreshDetectsReuse(r),
               ~RevokeFamily(r) /\ ~Delete(r) /\ ~Sweep(r)
        PROVE  /\ UNCHANGED <<codes, families>>
               /\ \A at \in DOMAIN sessions : at \in DOMAIN sessions'
               /\ \A q \in Requests : ~Track(q)
    <3>1. UNCHANGED <<codes, families>> /\ (UNCHANGED sessions \/ Put(r))
      BY <2>3, Dispatch
    <3>2. Put(r) => DOMAIN sessions' = DOMAIN sessions \cup {local[r].at}
      BY PutEffect DEF Facts
    <3>3. pc[r] # "track"
      BY <2>3, Dispatch
    <3> QED
      BY <2>3, <3>1, <3>2, <3>3, OneServes
  <2> QED
    BY <2>1, <2>2, <2>3
<1>2. \A l : PhaseOf(l)' = PhaseOf(l)
  BY <1>1, PhasesStay
<1>3. \A l : UsableOf(l)' = UsableOf(l)
  BY <1>1, UsableStays
<1> QED
  BY <1>2, <1>3, ContractStutters

\* With opaque access tokens the stores and handlers implement the contract of
\* every login: a code good for one exchange, tokens that work until they are
\* withdrawn, and no working token delivered once the login is ending
\* (codeStore.consume, trackAccessToken, revokeFamilyLocked).
THEOREM ImplementsContract == Opaque /\ Spec => KeepsContract
<1>1. Init => Contract!ContractInit
  BY DEF Init, CodesInit, RefreshInit, EmptyMap, Contract!ContractInit, PhaseOf,
         UsableOf, Granted
<1>2. Facts /\ [Next]_vars => [Contract!ContractNext]_(Contract!contractVars)
  <2> SUFFICES ASSUME Facts, [Next]_vars
               PROVE  Contract!ContractNext \/ UNCHANGED Contract!contractVars
    OBVIOUS
  <2>1. ASSUME NEW l \in Logins, CompleteLogin(l) PROVE Contract!ContractNext
    BY <2>1, LoginOffers DEF Contract!ContractNext
  <2>2. ASSUME NEW r \in Requests, Consume(r) PROVE Contract!ContractNext
    BY <2>2, ConsumeSpends DEF Contract!ContractNext
  <2>3. ASSUME NEW r \in Requests, Issue(r) PROVE Contract!ContractNext
    BY <2>3, IssueBegins DEF Contract!ContractNext
  <2>4. ASSUME NEW r \in Requests, Track(r)
        PROVE  Contract!ContractNext \/ UNCHANGED Contract!contractVars
    BY <2>4, TrackDeliversOne DEF Contract!ContractNext
  <2>5. ASSUME NEW r \in Requests, RefreshDetectsReuse(r) \/ RevokeFamily(r)
        PROVE  Contract!ContractNext \/ UNCHANGED Contract!contractVars
    BY <2>5, RevokeEnds DEF Contract!ContractNext
  <2>6. ASSUME NEW r \in Requests, Delete(r) \/ Sweep(r)
        PROVE  Contract!ContractNext \/ UNCHANGED Contract!contractVars
    BY <2>6, DeletionWithdraws DEF Contract!ContractNext
  <2> QED
    BY <2>1, <2>2, <2>3, <2>4, <2>5, <2>6, OthersStutter DEF Next, Arrives
<1> QED
  BY <1>1, <1>2, FactsAlways, PTL DEF Spec, KeepsContract, Contract!ContractSpec
=============================================================================
