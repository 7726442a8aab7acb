------------------------- MODULE TargetChainProofs --------------------------
(***************************************************************************)
(* What the target's grants and revocations do to tokens and families, for *)
(* every value of the constants: who may spend a code, end a session or a  *)
(* family; that a chain has one live refresh token that is not lost; and   *)
(* what the tokens of a chain say.  TargetProofs has the invariant Inv these *)
(* proofs stand on.                                                        *)
(***************************************************************************)
EXTENDS TargetProofs

-----------------------------------------------------------------------------
(* What each step does, in terms of the state after it.                    *)

\* Request r has been answered with a status and nothing else.
Answered(r, status) ==
  /\ pc'[r] = "done"
  /\ local'[r] = NoLocal
  /\ resp'[r] = Status(status)

LEMMA ArriveEffect ==
  ASSUME Inv, NEW r \in Requests,
         Exchange(r) \/ Refresh(r) \/ Revocation(r) \/ Userinfo(r)
  PROVE  /\ OthersStay(r)
         /\ pc[r] = "idle"
         /\ UNCHANGED <<codes, sessions, tokens, families, refreshMu, now>>
         /\ \/ /\ pc'[r] \in {"consume", "refresh", "find", "revokeFamily", "lookup"}
               /\ resp'[r] = resp[r]
               /\ req'[r].op # "userinfo" => req'[r].authentic
               /\ \E t \in Int : local'[r] = [NoLocal EXCEPT !.readAt = t]
            \/ \E s \in {"configured_error", "invalid_client", "invalid_request",
                         "unsupported_grant_type", "invalid_token"} : Answered(r, s)
<1>1. ASSUME NEW q, NEW t \in Int, NEW label \in Labels,
             Arrive(r, q, label, [NoLocal EXCEPT !.readAt = t])
      PROVE  /\ OthersStay(r)
             /\ pc[r] = "idle"
             /\ UNCHANGED <<codes, sessions, tokens, families, refreshMu, now>>
             /\ \/ /\ pc'[r] = label
                   /\ resp'[r] = resp[r]
                   /\ req'[r].op # "userinfo" => req'[r].authentic
                   /\ local'[r] = [NoLocal EXCEPT !.readAt = t]
                \/ \E s \in {"configured_error", "invalid_client", "invalid_request",
                             "unsupported_grant_type", "invalid_token"} :
                     Answered(r, s)
  <2>1. /\ pc[r] = "idle" /\ req'[r] = q
        /\ \A p \in Requests \ {r} : req'[p] = req[p]
        /\ UNCHANGED <<codes, sessions, tokens, families, refreshMu, now>>
    BY <1>1 DEF Arrive, At, stores, Inv, TypeOK
  <2>2. CASE Refusal(q) = "none"
    <3>1. Continue(r, label, [NoLocal EXCEPT !.readAt = t])
      BY <1>1, <2>2 DEF Arrive
    <3>2. q.op # "userinfo" => q.authentic
      BY <2>2 DEF Refusal
    <3> QED
      BY <2>1, <3>1, <3>2, ReadAtType, ContinueLemma DEF Inv, OthersStay
  <2>3. CASE Refusal(q) # "none"
    <3>1. Answer(r, Status(Refusal(q)))
      BY <1>1, <2>3 DEF Arrive
    <3>2. Refusal(q) \in {"configured_error", "invalid_client", "invalid_request",
                          "unsupported_grant_type", "invalid_token"}
      BY <2>3 DEF Refusal
    <3> QED
      BY <2>1, <3>1, <3>2, StatusType, AnswerLemma DEF Inv, OthersStay, Answered
  <2> QED
    BY <2>2, <2>3
<1>2. now \in Int /\ 0 \in Int /\ NoLocal = [NoLocal EXCEPT !.readAt = 0]
  <2>1. now \in Int /\ 0 \in Int
    BY TargetAssumption DEF Inv, TypeOK
  <2>2. NoLocal = [NoLocal EXCEPT !.readAt = 0]
    BY DEF NoLocal
  <2> QED
    BY <2>1, <2>2
<1>3. CASE Exchange(r)
  BY <1>1, <1>2, <1>3 DEF Exchange, Labels
<1>4. CASE Refresh(r)
  BY <1>1, <1>2, <1>4 DEF Refresh, Labels
<1>5. CASE Revocation(r)
  BY <1>1, <1>2, <1>5 DEF Revocation, Labels
<1>6. CASE Userinfo(r)
  BY <1>1, <1>2, <1>6 DEF Userinfo, Labels
<1> QED
  BY <1>3, <1>4, <1>5, <1>6

\* The steps that answer with an error and leave the stores alone.
LEMMA RefuseEffect ==
  ASSUME Inv, NEW r \in Requests, ConsumeRefuses(r) \/ RefreshRefuses(r)
  PROVE  /\ pc[r] \in {"consume", "refresh"}
         /\ Answered(r, "invalid_grant")
         /\ UNCHANGED <<codes, sessions, tokens, families>>
<1>1. /\ Answer(r, Status("invalid_grant"))
      /\ pc[r] \in {"consume", "refresh"}
      /\ UNCHANGED <<codes, sessions, tokens, families>>
  BY DEF ConsumeRefuses, RefreshRefuses, At, stores
<1> QED
  BY <1>1, StatusType, AnswerLemma DEF Inv, Answered

LEMMA ConsumeEffect ==
  ASSUME Inv, NEW r \in Requests, Consume(r)
  PROVE  LET q == req[r]
             ac == codes[q.token]
         IN /\ pc[r] = "consume"
            /\ q.token \in DOMAIN codes
            /\ ~ac.consumed /\ ac.client = q.client /\ ac.redirect = q.redirect
            /\ local[r].readAt <= ac.expiresAt
            /\ ac \in AuthCode
            /\ codes' = [codes EXCEPT ![q.token] = [ac EXCEPT !.consumed = TRUE]]
            /\ UNCHANGED <<sessions, tokens, families>>
            /\ \/ /\ CodeFailure(ac, q) # NoReply
                  /\ pc'[r] = "done" /\ local'[r] = NoLocal
                  /\ resp'[r] = CodeFailure(ac, q)
               \/ /\ CodeFailure(ac, q) = NoReply
                  /\ pc'[r] = "put" /\ resp'[r] = resp[r]
                  /\ local'[r].identity = ac.identity
                  /\ local'[r].at = MintAccessToken(r, ac.identity, q.client,
                                                    local[r].readAt)
                  /\ local'[r].readAt = local[r].readAt
                  /\ local'[r].next = local[r].next
<1> DEFINE q == req[r]
           ac == codes[q.token]
           l == [local[r] EXCEPT !.identity = ac.identity,
                                 !.at = MintAccessToken(r, ac.identity, q.client,
                                                        local[r].readAt)]
<1>1. /\ pc[r] = "consume"
      /\ q.token \in DOMAIN codes
      /\ ~ac.consumed /\ ac.client = q.client /\ ac.redirect = q.redirect
      /\ local[r].readAt <= ac.expiresAt
      /\ codes' = [codes EXCEPT ![q.token].consumed = TRUE]
      /\ UNCHANGED <<sessions, tokens, families>>
      /\ IF CodeFailure(ac, q) # NoReply
           THEN Answer(r, CodeFailure(ac, q)) ELSE Continue(r, "put", l)
  BY DEF Consume, At, Consumable, MarkConsumed
<1>2. ac \in AuthCode
  BY <1>1 DEF Inv, TypeOK, CodesTypeOK, IsMap
<1>3. codes' = [codes EXCEPT ![q.token] = [ac EXCEPT !.consumed = TRUE]]
  BY <1>1
<1>4. CASE CodeFailure(ac, q) # NoReply
  BY <1>1, <1>2, <1>3, <1>4 DEF Answer, Inv, TypeOK
<1>5. CASE CodeFailure(ac, q) = NoReply
  <2>1. Continue(r, "put", l)
    BY <1>1, <1>5
  <2>2. local[r] \in Local
    BY DEF Inv, TypeOK
  <2>3. /\ l.identity = ac.identity /\ l.readAt = local[r].readAt
        /\ l.at = MintAccessToken(r, ac.identity, q.client, local[r].readAt)
        /\ l.next = local[r].next
    BY <2>2 DEF Local
  <2>4. pc'[r] = "put" /\ resp'[r] = resp[r] /\ local'[r] = l
    BY <2>1 DEF Continue, Inv, TypeOK
  <2> HIDE DEF l
  <2> QED
    BY <1>1, <1>2, <1>3, <1>5, <2>3, <2>4
<1> QED
  BY <1>4, <1>5

LEMMA PutEffect ==
  ASSUME Inv, NEW r \in Requests, Put(r)
  PROVE  /\ pc[r] = "put"
         /\ pc'[r] = IF req[r].op = "exchange" THEN "issue" ELSE "track"
         /\ local'[r] = local[r] /\ resp'[r] = resp[r]
         /\ DOMAIN sessions' = DOMAIN sessions \cup {local[r].at}
         /\ sessions'[local[r].at].subject = local[r].identity.subject
         /\ sessions'[local[r].at].client = req[r].client
         /\ sessions'[local[r].at].expiresAt = local[r].readAt + AccessTokenTTL
         /\ \A at \in DOMAIN sessions \ {local[r].at} : sessions'[at] = sessions[at]
         /\ UNCHANGED <<codes, tokens, families>>
BY DEF Put, At, Continue, PutSession, MapPut, Inv, TypeOK

LEMMA IssueEffect ==
  ASSUME Inv, NEW r \in Requests, Issue(r)
  PROVE  /\ pc[r] = "issue" /\ pc'[r] = "track" /\ resp'[r] = resp[r]
         /\ local'[r].at = local[r].at /\ local'[r].identity = local[r].identity
         /\ local'[r].readAt = local[r].readAt
         /\ local'[r].family = r /\ local'[r].next = NewRefreshToken(r)
         /\ DOMAIN families' = DOMAIN families \cup {r}
         /\ families'[r].identity = local[r].identity
         /\ families'[r].client = req[r].client
         /\ ~families'[r].revoked /\ families'[r].accessTokens = {}
         /\ r \notin DOMAIN families
         /\ \A f \in DOMAIN families : families'[f] = families[f]
         /\ DOMAIN tokens' = DOMAIN tokens \cup {NewRefreshToken(r)}
         /\ tokens'[NewRefreshToken(r)].identity = local[r].identity
         /\ tokens'[NewRefreshToken(r)].client = req[r].client
         /\ tokens'[NewRefreshToken(r)].family = r
         /\ ~tokens'[NewRefreshToken(r)].retired
         /\ \A t \in DOMAIN tokens \ {NewRefreshToken(r)} : tokens'[t] = tokens[t]
         /\ UNCHANGED <<codes, sessions>>
<1>1. pc[r] = "issue" /\ r \notin DOMAIN families
  BY DEF Issue, At, Inv, FamiliesOK
<1>2. /\ pc'[r] = "track" /\ resp'[r] = resp[r]
      /\ local'[r].at = local[r].at /\ local'[r].identity = local[r].identity
      /\ local'[r].readAt = local[r].readAt
      /\ local'[r].family = r /\ local'[r].next = NewRefreshToken(r)
  BY DEF Issue, Continue, Inv, TypeOK, Local
<1>3. /\ DOMAIN families' = DOMAIN families \cup {r}
      /\ families'[r].identity = local[r].identity
      /\ families'[r].client = req[r].client
      /\ ~families'[r].revoked /\ families'[r].accessTokens = {}
      /\ \A f \in DOMAIN families : families'[f] = families[f]
  BY <1>1 DEF Issue, IssueFamily, MapPut
<1>4. /\ DOMAIN tokens' = DOMAIN tokens \cup {NewRefreshToken(r)}
      /\ tokens'[NewRefreshToken(r)].identity = local[r].identity
      /\ tokens'[NewRefreshToken(r)].client = req[r].client
      /\ tokens'[NewRefreshToken(r)].family = r
      /\ ~tokens'[NewRefreshToken(r)].retired
      /\ \A t \in DOMAIN tokens \ {NewRefreshToken(r)} : tokens'[t] = tokens[t]
  BY DEF Issue, IssueFamily, NewRecord, MapPut
<1> QED
  BY <1>1, <1>2, <1>3, <1>4 DEF Issue

\* Adopted by a live family, or deleted.
LEMMA TrackEffect ==
  ASSUME Inv, NEW r \in Requests, Track(r)
  PROVE  LET l == local[r]
         IN /\ pc[r] = "track" /\ pc'[r] = "done" /\ local'[r] = NoLocal
            /\ resp'[r].status = "ok" /\ resp'[r].subject = l.identity.subject
            /\ resp'[r].claims = ClaimsFor(l.identity, req[r].client)
            /\ resp'[r].at = l.at /\ resp'[r].rt = l.next
            /\ UNCHANGED <<codes, tokens>>
            /\ DOMAIN families' = DOMAIN families
            /\ \/ /\ l.family \in DOMAIN families => families[l.family].revoked
                  /\ UNCHANGED families
                  /\ DOMAIN sessions' = DOMAIN sessions \ {l.at}
                  /\ \A at \in DOMAIN sessions' : sessions'[at] = sessions[at]
               \/ /\ l.family \in DOMAIN families /\ ~families[l.family].revoked
                  /\ families'[l.family].accessTokens =
                       families[l.family].accessTokens \cup {l.at}
                  /\ ~families'[l.family].revoked
                  /\ families'[l.family].client = families[l.family].client
                  /\ families'[l.family].identity = families[l.family].identity
                  /\ \A f \in DOMAIN families \ {l.family} : families'[f] = families[f]
                  /\ UNCHANGED sessions
<1>1. /\ pc[r] = "track" /\ TrackAccessToken(local[r].family, local[r].at)
      /\ UNCHANGED <<codes, tokens>>
  BY DEF Track, At
<1>2. /\ pc'[r] = "done" /\ local'[r] = NoLocal
      /\ resp'[r].status = "ok" /\ resp'[r].subject = local[r].identity.subject
      /\ resp'[r].claims = ClaimsFor(local[r].identity, req[r].client)
      /\ resp'[r].at = local[r].at /\ resp'[r].rt = local[r].next
  BY DEF Track, Answer, Inv, TypeOK
<1>3. local[r].family \in DOMAIN families => families[local[r].family] \in Family
  BY DEF Inv, TypeOK, RefreshTypeOK, IsMap
<1>4. CASE local[r].family \notin DOMAIN families \/ families[local[r].family].revoked
  BY <1>1, <1>2, <1>4 DEF TrackAccessToken, RevokeSession, MapDelete
<1>5. CASE local[r].family \in DOMAIN families /\ ~families[local[r].family].revoked
  <2>1. /\ families' = [families EXCEPT ![local[r].family].accessTokens =
                                        @ \cup {local[r].at}]
        /\ UNCHANGED sessions
    BY <1>1, <1>5 DEF TrackAccessToken
  <2> QED
    BY <1>1, <1>2, <1>3, <1>5, <2>1 DEF Family
<1> QED
  BY <1>4, <1>5

LEMMA UseRefreshEffect ==
  ASSUME Inv, NEW r \in Requests, UseRefresh(r)
  PROVE  LET t == req[r].token
             new == NewRefreshToken(r)
         IN /\ pc[r] = "refresh" /\ pc'[r] = "mint" /\ resp'[r] = resp[r]
            /\ Presentable(t, req[r].client) /\ ~tokens[t].retired
            /\ local'[r].identity = tokens[t].identity
            /\ local'[r].family = tokens[t].family
            /\ local'[r].next = Successor(r, t)
            /\ UNCHANGED <<codes, sessions, families>>
            /\ IF RefreshMode = "static" THEN UNCHANGED tokens
               ELSE /\ DOMAIN tokens' = DOMAIN tokens \cup {new}
                    /\ tokens'[new].identity = tokens[t].identity
                    /\ tokens'[new].client = tokens[t].client
                    /\ tokens'[new].family = tokens[t].family
                    /\ ~tokens'[new].retired
                    /\ t # new =>
                         /\ tokens'[t].identity = tokens[t].identity
                         /\ tokens'[t].client = tokens[t].client
                         /\ tokens'[t].family = tokens[t].family
                         /\ tokens'[t].retired
                    /\ \A u \in DOMAIN tokens \ {t, new} : tokens'[u] = tokens[u]
<1>1. /\ pc[r] = "refresh" /\ Rotate(r, req[r].token)
      /\ Presentable(req[r].token, req[r].client)
      /\ ~tokens[req[r].token].retired
      /\ UNCHANGED <<codes, sessions, families>>
  BY DEF UseRefresh, At
<1>2. /\ pc'[r] = "mint" /\ resp'[r] = resp[r]
      /\ local'[r].identity = tokens[req[r].token].identity
      /\ local'[r].family = tokens[req[r].token].family
      /\ local'[r].next = Successor(r, req[r].token)
  BY DEF UseRefresh, Continue, Inv, TypeOK, Local
<1>3. req[r].token \in DOMAIN tokens /\ tokens[req[r].token] \in Record
  BY <1>1 DEF Presentable, Inv, TypeOK, RefreshTypeOK, IsMap
<1>4. CASE RefreshMode = "static"
  BY <1>1, <1>2, <1>4 DEF Rotate
<1>5. CASE RefreshMode # "static"
  <2> DEFINE t == req[r].token
             new == NewRefreshToken(r)
             rec == NewRecord(tokens[t].family, tokens[t].identity, tokens[t].client)
             old == [tokens EXCEPT ![t].retired = TRUE]
  <2>1. tokens' = MapPut(old, new, rec)
    BY <1>1, <1>5 DEF Rotate
  <2>2. /\ rec.identity = tokens[t].identity /\ rec.client = tokens[t].client
        /\ rec.family = tokens[t].family /\ ~rec.retired
    BY DEF NewRecord
  <2>3. /\ DOMAIN old = DOMAIN tokens
        /\ \A u \in DOMAIN tokens \ {t} : old[u] = tokens[u]
        /\ old[t].identity = tokens[t].identity /\ old[t].client = tokens[t].client
        /\ old[t].family = tokens[t].family /\ old[t].retired
    BY <1>3 DEF Record
  <2> HIDE DEF old, rec
  <2>4. /\ DOMAIN tokens' = DOMAIN tokens \cup {new}
        /\ tokens'[new] = rec
        /\ \A u \in DOMAIN tokens \ {new} : tokens'[u] = old[u]
    BY <2>1, <2>3 DEF MapPut
  <2> QED
    BY <1>1, <1>2, <1>3, <1>5, <2>2, <2>3, <2>4
<1> QED
  BY <1>4, <1>5

LEMMA MintEffect ==
  ASSUME Inv, NEW r \in Requests, Mint(r)
  PROVE  LET id == local[r].identity
         IN /\ pc[r] = "mint"
            /\ UNCHANGED <<codes, sessions, tokens, families>>
            /\ \/ /\ ~Mintable(id, req[r].client)
                  /\ Answered(r, "server_error")
               \/ /\ Mintable(id, req[r].client)
                  /\ pc'[r] = "put" /\ resp'[r] = resp[r]
                  /\ local'[r].readAt = now /\ local'[r].identity = id
                  /\ local'[r].at = MintAccessToken(r, id, req[r].client, now)
                  /\ local'[r].family = local[r].family
                  /\ local'[r].next = local[r].next
<1>1. pc[r] = "mint" /\ UNCHANGED <<codes, sessions, tokens, families>>
  BY DEF Mint, At, stores
<1>2. CASE ~Mintable(local[r].identity, req[r].client)
  BY <1>1, <1>2 DEF Mint, Answer, Answered, Inv, TypeOK
<1>3. CASE Mintable(local[r].identity, req[r].client)
  <2> DEFINE l == [local[r] EXCEPT
                     !.readAt = now,
                     !.at = MintAccessToken(r, local[r].identity, req[r].client, now)]
  <2>1. Continue(r, "put", l)
    BY <1>3 DEF Mint
  <2>2. local[r] \in Local
    BY DEF Inv, TypeOK
  <2>3. /\ l.readAt = now /\ l.identity = local[r].identity
        /\ l.at = MintAccessToken(r, local[r].identity, req[r].client, now)
        /\ l.family = local[r].family /\ l.next = local[r].next
    BY <2>2 DEF Local
  <2>4. pc'[r] = "put" /\ resp'[r] = resp[r] /\ local'[r] = l
    BY <2>1 DEF Continue, Inv, TypeOK
  <2> HIDE DEF l
  <2> QED
    BY <1>1, <1>3, <2>3, <2>4
<1> QED
  BY <1>2, <1>3

\* The steps of a revocation that only look.
LEMMA LookEffect ==
  ASSUME Inv, NEW r \in Requests, Find(r) \/ RevokeFamilyRefuses(r)
  PROVE  /\ pc[r] \in {"find", "revokeFamily"}
         /\ UNCHANGED <<codes, sessions, tokens, families>>
         /\ \/ Answered(r, "ok")
            \/ /\ pc'[r] \in {"find", "revokeFamily", "delete"}
               /\ local'[r] = local[r] /\ resp'[r] = resp[r]
               /\ pc'[r] = "delete" => FindOK(req[r].token, req[r].client)
BY DEF Find, RevokeFamilyRefuses, At, stores, Answer, Answered, Continue, Inv, TypeOK

LEMMA DeleteEffect ==
  ASSUME Inv, NEW r \in Requests, Delete(r)
  PROVE  /\ pc[r] = "delete" /\ Answered(r, "ok")
         /\ DOMAIN sessions' = DOMAIN sessions \ {req[r].token}
         /\ \A at \in DOMAIN sessions' : sessions'[at] = sessions[at]
         /\ UNCHANGED <<codes, tokens, families>>
BY DEF Delete, At, RevokeSession, MapDelete, Answer, Answered, Inv, TypeOK

LEMMA RevokeEffect ==
  ASSUME Inv, NEW r \in Requests, RefreshDetectsReuse(r) \/ RevokeFamily(r)
  PROVE  LET t == req[r].token
             f == tokens[t].family
         IN /\ t \in DOMAIN tokens /\ tokens[t].client = req[r].client
            /\ \/ pc[r] = "refresh" /\ tokens[t].retired
               \/ pc[r] = "revokeFamily"
            /\ pc'[r] = "sweep" /\ resp'[r] = resp[r]
            /\ local'[r].doomed = families[f].accessTokens
            /\ local'[r].next = local[r].next
            /\ DOMAIN families' = DOMAIN families /\ f \in DOMAIN families
            /\ families'[f].revoked
            /\ families'[f].client = families[f].client
            /\ families'[f].identity = families[f].identity
            /\ families'[f].accessTokens = families[f].accessTokens
            /\ \A g \in DOMAIN families \ {f} : families'[g] = families[g]
            /\ UNCHANGED <<codes, sessions, tokens>>
<1> DEFINE t == req[r].token
           f == tokens[t].family
<1>1. /\ t \in DOMAIN tokens /\ tokens[t].client = req[r].client
      /\ \/ pc[r] = "refresh" /\ tokens[t].retired
         \/ pc[r] = "revokeFamily"
      /\ families' = [families EXCEPT ![f].revoked = TRUE]
      /\ Continue(r, "sweep", [local[r] EXCEPT !.doomed = families[f].accessTokens])
      /\ UNCHANGED <<codes, sessions, tokens>>
  BY DEF RefreshDetectsReuse, RevokeFamily, At, Presentable, Revocable, MarkRevoked
<1>2. f \in DOMAIN families /\ families[f] \in Family
  BY <1>1 DEF Inv, TypeOK, FamiliesOK, RefreshTypeOK, IsMap
<1>3. /\ DOMAIN families' = DOMAIN families
      /\ families'[f].revoked
      /\ families'[f].client = families[f].client
      /\ families'[f].identity = families[f].identity
      /\ families'[f].accessTokens = families[f].accessTokens
      /\ \A g \in DOMAIN families \ {f} : families'[g] = families[g]
  BY <1>1, <1>2 DEF Family
<1>4. /\ pc'[r] = "sweep" /\ resp'[r] = resp[r]
      /\ local'[r].doomed = families[f].accessTokens
      /\ local'[r].next = local[r].next
  BY <1>1 DEF Continue, Inv, TypeOK, Local
<1> QED
  BY <1>1, <1>2, <1>3, <1>4

LEMMA SweepEffect ==
  ASSUME Inv, NEW r \in Requests, Sweep(r)
  PROVE  /\ pc[r] = "sweep" /\ pc'[r] = "sweep" /\ resp'[r] = resp[r]
         /\ \E at \in local[r].doomed :
              /\ DOMAIN sessions' = DOMAIN sessions \ {at}
              /\ local'[r].doomed = local[r].doomed \ {at}
              /\ local'[r].next = local[r].next
         /\ \A at \in DOMAIN sessions' : sessions'[at] = sessions[at]
         /\ UNCHANGED <<codes, tokens, families>>
BY DEF Sweep, At, RevokeSession, MapDelete, Continue, Inv, TypeOK, Local

LEMMA EndSweepEffect ==
  ASSUME Inv, NEW r \in Requests, EndSweep(r)
  PROVE  /\ pc[r] = "sweep"
         /\ \E s \in {"invalid_grant", "ok"} : Answered(r, s)
         /\ UNCHANGED <<codes, sessions, tokens, families>>
BY DEF EndSweep, At, Answer, Answered, Inv, TypeOK

LEMMA LookupEffect ==
  ASSUME Inv, NEW r \in Requests, Lookup(r)
  PROVE  /\ pc[r] = "lookup" /\ pc'[r] = "done" /\ local'[r] = NoLocal
         /\ resp'[r].at = None /\ resp'[r].rt = None
         /\ resp'[r].status \in {"ok", "invalid_token"}
         /\ UNCHANGED <<codes, sessions, tokens, families>>
BY DEF Lookup, At, stores, Answer, Status, NoReply, Inv, TypeOK

-----------------------------------------------------------------------------
(* What every step keeps.                                                  *)

\* The data of a code, a refresh token or a family never changes, and nothing
\* is ever removed from those maps.
CodesKeep ==
  \A l \in DOMAIN codes :
    /\ l \in DOMAIN codes'
    /\ codes'[l].identity = codes[l].identity
    /\ codes'[l].client = codes[l].client
    /\ codes'[l].redirect = codes[l].redirect
    /\ codes'[l].challenge = codes[l].challenge
    /\ codes'[l].method = codes[l].method
    /\ codes'[l].expiresAt = codes[l].expiresAt

FamiliesKeep ==
  \A f \in DOMAIN families :
    /\ f \in DOMAIN families'
    /\ families'[f].identity = families[f].identity
    /\ families'[f].client = families[f].client
    /\ families[f].revoked => families'[f].revoked

TokensKeep ==
  \A t \in DOMAIN tokens :
    /\ t \in DOMAIN tokens'
    /\ tokens'[t].identity = tokens[t].identity
    /\ tokens'[t].family = tokens[t].family
    /\ tokens'[t].client = tokens[t].client
    /\ tokens[t].retired => tokens'[t].retired

RequestsKeep ==
  \A r \in Requests :
    pc[r] # "idle" => pc'[r] # "idle" /\ req'[r] = req[r]

\* Steps of the browser and the clock, and stuttering.
Elsewhere ==
  /\ UNCHANGED <<sessions, tokens, families, pc, req, local, resp>>
  /\ \A l \in DOMAIN codes : l \in DOMAIN codes' /\ codes'[l] = codes[l]

Arrives(r) == Exchange(r) \/ Refresh(r) \/ Revocation(r) \/ Userinfo(r)

LEMMA NextCases ==
  ASSUME [Next]_vars
  PROVE  \/ Elsewhere
         \/ \E r \in Requests : Arrives(r)
         \/ \E r \in Requests : Serve(r)
<1>1. ASSUME NEW l \in Logins, CompleteLogin(l) PROVE Elsewhere
  BY <1>1 DEF CompleteLogin, IssueCode, MapPut, Elsewhere
<1>2. CASE MoveClock
  BY <1>2 DEF MoveClock, stores, Elsewhere
<1>3. CASE UNCHANGED vars
  BY <1>3 DEF vars, stores, Elsewhere
<1> QED
  BY <1>1, <1>2, <1>3 DEF Next, Arrives

LEMMA TypesOfMaps ==
  ASSUME Inv
  PROVE  /\ \A l \in DOMAIN codes : l \in Logins /\ codes[l] \in AuthCode
         /\ \A at \in DOMAIN sessions : at \in AccessToken /\ sessions[at] \in Session
         /\ \A t \in DOMAIN tokens : /\ t \in RefreshToken /\ tokens[t] \in Record
                                     /\ tokens[t].family \in DOMAIN families
         /\ \A f \in DOMAIN families : f \in Requests /\ families[f] \in Family
BY DEF Inv, TypeOK, FamiliesOK, CodesTypeOK, SessionsTypeOK, RefreshTypeOK, IsMap

\* A token is named after the request that minted it, which has passed the
\* step it mints in.
FreshOK ==
  \A t \in DOMAIN tokens :
    \/ pc[t.by] \in {"track", "done"}
    \/ pc[t.by] \in {"mint", "put"} /\ req[t.by].op = "refresh"

\* Where a handler is tells which steps it may take, and few steps touch a store.
LEMMA Dispatch ==
  ASSUME NEW r \in Requests, Serve(r)
  PROVE  /\ pc[r] = "consume" => ConsumeRefuses(r) \/ Consume(r)
         /\ pc[r] = "put" => Put(r)
         /\ pc[r] = "issue" => Issue(r)
         /\ pc[r] = "track" => Track(r)
         /\ pc[r] = "refresh" =>
              RefreshRefuses(r) \/ RefreshDetectsReuse(r) \/ UseRefresh(r)
         /\ pc[r] = "mint" => Mint(r)
         /\ pc[r] = "delete" => Delete(r)
         /\ pc[r] = "find" => Find(r)
         /\ pc[r] = "revokeFamily" => RevokeFamily(r) \/ RevokeFamilyRefuses(r)
         /\ pc[r] = "sweep" => Sweep(r) \/ EndSweep(r)
         /\ pc[r] = "lookup" => Lookup(r)
         /\ Consume(r) \/ UNCHANGED codes
         /\ Put(r) \/ Track(r) \/ Delete(r) \/ Sweep(r) \/ UNCHANGED sessions
         /\ Issue(r) \/ UseRefresh(r) \/ UNCHANGED tokens
         /\ Issue(r) \/ Track(r) \/ RefreshDetectsReuse(r) \/ RevokeFamily(r)
            \/ UNCHANGED families
<1> USE DEF At, stores
<1>1. CASE ConsumeRefuses(r) \/ Consume(r) \/ Put(r) \/ Issue(r) \/ Track(r)
  BY <1>1 DEF ConsumeRefuses, Consume, Put, Issue, Track
<1>2. CASE RefreshRefuses(r) \/ RefreshDetectsReuse(r) \/ UseRefresh(r) \/ Mint(r)
  BY <1>2 DEF RefreshRefuses, RefreshDetectsReuse, UseRefresh, Mint
<1>3. CASE Find(r) \/ Delete(r) \/ RevokeFamily(r) \/ RevokeFamilyRefuses(r)
  BY <1>3 DEF Find, Delete, RevokeFamily, RevokeFamilyRefuses
<1>4. CASE Sweep(r) \/ EndSweep(r) \/ Lookup(r)
  BY <1>4 DEF Sweep, EndSweep, Lookup
<1> QED
  BY <1>1, <1>2, <1>3, <1>4 DEF Serve

LEMMA ServeMoves ==
  ASSUME Inv, NEW r \in Requests, Serve(r)
  PROVE  /\ pc'[r] # "idle"
         /\ pc[r] = "consume" => pc'[r] \in {"put", "done"}
         /\ pc[r] = "refresh" => pc'[r] \in {"sweep", "mint", "done"}
         /\ pc[r] = "mint" => pc'[r] \in {"put", "done"}
         /\ pc[r] = "put" => pc'[r] = IF req[r].op = "exchange" THEN "issue" ELSE "track"
         /\ pc[r] = "issue" => pc'[r] = "track"
         /\ pc[r] = "track" => pc'[r] = "done"
<1> USE Dispatch DEF Answered
<1>1. pc[r] = "consume" => pc'[r] \in {"put", "done"}
  BY RefuseEffect, ConsumeEffect
<1>2. pc[r] = "refresh" => pc'[r] \in {"sweep", "mint", "done"}
  BY RefuseEffect, RevokeEffect, UseRefreshEffect
<1>3. pc[r] = "mint" => pc'[r] \in {"put", "done"}
  BY MintEffect
<1>4. pc[r] = "put" => pc'[r] = IF req[r].op = "exchange" THEN "issue" ELSE "track"
  BY PutEffect
<1>5. pc[r] = "issue" => pc'[r] = "track"
  BY IssueEffect
<1>6. pc[r] = "track" => pc'[r] = "done"
  BY TrackEffect
<1>7. pc[r] \in {"delete", "lookup"} => pc'[r] = "done"
  BY DeleteEffect, LookupEffect
<1>8. pc[r] \in {"find", "revokeFamily"} => pc'[r] # "idle"
  BY LookEffect, RevokeEffect
<1>9. pc[r] = "sweep" => pc'[r] # "idle"
  BY SweepEffect, EndSweepEffect
<1>10. pc[r] \in Labels \ {"idle", "done"}
  BY ServeOthers DEF Inv, TypeOK
<1> QED
  BY <1>1, <1>2, <1>3, <1>4, <1>5, <1>6, <1>7, <1>8, <1>9, <1>10 DEF Labels

LEMMA ServeKeepsCodes ==
  ASSUME Inv, NEW r \in Requests, Serve(r)
  PROVE  CodesKeep
<1>1. CASE UNCHANGED codes
  BY <1>1 DEF CodesKeep
<1>2. CASE Consume(r)
  <2> DEFINE l == req[r].token
  <2>1. /\ l \in DOMAIN codes
        /\ codes[l] \in AuthCode
        /\ codes' = [codes EXCEPT ![l] = [codes[l] EXCEPT !.consumed = TRUE]]
    BY <1>2, ConsumeEffect
  <2> QED
    BY <2>1 DEF CodesKeep, AuthCode
<1> QED
  BY <1>1, <1>2, Dispatch

LEMMA ServeKeepsFamilies ==
  ASSUME Inv, NEW r \in Requests, Serve(r)
  PROVE  FamiliesKeep
<1>1. CASE UNCHANGED families
  BY <1>1 DEF FamiliesKeep
<1>2. CASE Issue(r)
  BY <1>2, IssueEffect DEF FamiliesKeep
<1>3. CASE Track(r)
  BY <1>3, TrackEffect DEF FamiliesKeep
<1>4. CASE RefreshDetectsReuse(r) \/ RevokeFamily(r)
  BY <1>4, RevokeEffect DEF FamiliesKeep
<1> QED
  BY <1>1, <1>2, <1>3, <1>4, Dispatch

LEMMA ServeKeepsTokens ==
  ASSUME Inv, FreshOK, NEW r \in Requests, Serve(r)
  PROVE  /\ TokensKeep
         /\ \A t \in DOMAIN tokens' :
              \/ t \in DOMAIN tokens
              \/ /\ t = NewRefreshToken(r)
                 /\ \/ pc[r] = "issue"
                    \/ pc[r] = "refresh" /\ pc'[r] = "mint"
<1>0. pc[r] \in {"issue", "refresh"} => NewRefreshToken(r) \notin DOMAIN tokens
  BY DEF FreshOK, NewRefreshToken
<1>1. CASE UNCHANGED tokens
  BY <1>1 DEF TokensKeep
<1>2. CASE Issue(r)
  <2>1. /\ pc[r] = "issue"
        /\ DOMAIN tokens' = DOMAIN tokens \cup {NewRefreshToken(r)}
        /\ \A t \in DOMAIN tokens \ {NewRefreshToken(r)} : tokens'[t] = tokens[t]
    BY <1>2, IssueEffect
  <2> QED
    BY <1>0, <2>1 DEF TokensKeep
<1>3. CASE UseRefresh(r)
  <2> DEFINE t == req[r].token
             new == NewRefreshToken(r)
  <2>1. CASE RefreshMode = "static"
    BY <1>1, <1>3, <2>1, UseRefreshEffect
  <2>2. CASE RefreshMode # "static"
    <3>1. /\ DOMAIN tokens' = DOMAIN tokens \cup {new}
          /\ t \in DOMAIN tokens /\ t # new
          /\ tokens'[t].identity = tokens[t].identity
          /\ tokens'[t].family = tokens[t].family
          /\ tokens'[t].client = tokens[t].client
          /\ tokens'[t].retired
          /\ \A u \in DOMAIN tokens \ {t, new} : tokens'[u] = tokens[u]
          /\ pc[r] = "refresh" /\ pc'[r] = "mint"
      BY <1>0, <1>3, <2>2, UseRefreshEffect DEF Presentable
    <3> QED
      BY <1>0, <3>1 DEF TokensKeep
  <2> QED
    BY <2>1, <2>2
<1> QED
  BY <1>1, <1>2, <1>3, Dispatch

LEMMA FreshStep ==
  ASSUME Inv, FreshOK, [Next]_vars
  PROVE  FreshOK'
<1>0. \A t \in DOMAIN tokens : t.by \in Requests
  BY TypesOfMaps DEF RefreshToken
<1>1. CASE Elsewhere
  BY <1>1 DEF Elsewhere, FreshOK
<1>2. ASSUME NEW r \in Requests, Arrives(r) PROVE FreshOK'
  BY <1>0, <1>2, ArriveEffect DEF Arrives, OthersStay, FreshOK
<1>3. ASSUME NEW r \in Requests, Serve(r) PROVE FreshOK'
  <2>1. OthersStay(r) /\ req'[r] = req[r] /\ HandlerOK(r)
    BY <1>3, ServeOthers DEF Inv
  <2>2. ASSUME NEW t \in DOMAIN tokens'
        PROVE  \/ pc'[t.by] \in {"track", "done"}
               \/ pc'[t.by] \in {"mint", "put"} /\ req'[t.by].op = "refresh"
    <3>1. CASE t \in DOMAIN tokens /\ t.by = r
      BY <1>3, <2>1, <3>1, ServeMoves, ServeOthers DEF FreshOK
    <3>2. CASE t \in DOMAIN tokens /\ t.by # r
      BY <1>0, <2>1, <3>2 DEF FreshOK, OthersStay
    <3>3. CASE t \notin DOMAIN tokens
      BY <1>3, <2>1, <3>3, ServeKeepsTokens, ServeMoves
         DEF NewRefreshToken, HandlerOK
    <3> QED
      BY <3>1, <3>2, <3>3
  <2> QED
    BY <2>2 DEF FreshOK
<1> QED
  BY <1>1, <1>2, <1>3, NextCases

LEMMA StepKeeps ==
  ASSUME Inv, FreshOK, [Next]_vars
  PROVE  CodesKeep /\ FamiliesKeep /\ TokensKeep /\ RequestsKeep
<1>1. CASE Elsewhere
  BY <1>1 DEF Elsewhere, CodesKeep, FamiliesKeep, TokensKeep, RequestsKeep
<1>2. ASSUME NEW r \in Requests, Arrives(r)
      PROVE  CodesKeep /\ FamiliesKeep /\ TokensKeep /\ RequestsKeep
  BY <1>2, ArriveEffect
     DEF Arrives, OthersStay, CodesKeep, FamiliesKeep, TokensKeep, RequestsKeep
<1>3. ASSUME NEW r \in Requests, Serve(r)
      PROVE  CodesKeep /\ FamiliesKeep /\ TokensKeep /\ RequestsKeep
  <2>1. CodesKeep /\ FamiliesKeep /\ TokensKeep
    BY <1>3, ServeKeepsCodes, ServeKeepsFamilies, ServeKeepsTokens
  <2>2. RequestsKeep
    BY <1>3, ServeMoves, ServeOthers DEF OthersStay, RequestsKeep
  <2> QED
    BY <2>1, <2>2
<1> QED
  BY <1>1, <1>2, <1>3, NextCases

-----------------------------------------------------------------------------
(* Whose a token is.                                                       *)

\* Access token `at` was minted for client c.
Belongs(at, c) ==
  \/ at.kind = "jwt" /\ at.aud = c
  \/ at.kind = "opaque" /\ pc[at.by] # "idle" /\ req[at.by].client = c

\* What a handler relies on when it mints, tracks, deletes or sweeps.
OwnerOK(r) ==
  /\ pc[r] \notin {"idle", "done"} /\ req[r].op # "userinfo" => req[r].authentic
  /\ pc[r] \in {"put", "issue", "track"} =>
       local[r].at = MintAccessToken(r, local[r].identity, req[r].client,
                                     local[r].readAt)
  /\ \/ pc[r] = "track"
     \/ pc[r] \in {"mint", "put"} /\ req[r].op = "refresh"
     => /\ local[r].family \in DOMAIN families
        /\ families[local[r].family].client = req[r].client
  /\ pc[r] = "delete" =>
       req[r].token \in AccessToken /\ Belongs(req[r].token, req[r].client)
  /\ pc[r] = "sweep" => \A at \in local[r].doomed : Belongs(at, req[r].client)

StoresOwned ==
  /\ \A t \in DOMAIN tokens : families[tokens[t].family].client = tokens[t].client
  /\ \A at \in DOMAIN sessions : Belongs(at, sessions[at].client)
  /\ \A f \in DOMAIN families :
       \A at \in families[f].accessTokens : Belongs(at, families[f].client)

Owned == StoresOwned /\ \A r \in Requests : OwnerOK(r)

LEMMA BelongsStays ==
  ASSUME RequestsKeep, NEW at \in AccessToken, NEW c, Belongs(at, c)
  PROVE  Belongs(at, c)'
BY DEF Belongs, RequestsKeep, AccessToken

LEMMA BelongsToOne ==
  ASSUME NEW at, NEW c, NEW d, Belongs(at, c), Belongs(at, d)
  PROVE  c = d
BY DEF Belongs

LEMMA MintedBelongs ==
  ASSUME NEW r \in Requests, pc[r] # "idle", NEW id, NEW t
  PROVE  Belongs(MintAccessToken(r, id, req[r].client, t), req[r].client)
BY DEF Belongs, MintAccessToken, OpaqueToken, JWTToken

LEMMA DoomedType ==
  ASSUME Inv, NEW r \in Requests
  PROVE  local[r] \in Local /\ local[r].doomed \subseteq AccessToken
BY DEF Inv, TypeOK, Local

LEMMA OthersOwn ==
  ASSUME Inv, Owned, FamiliesKeep, RequestsKeep,
         NEW q \in Requests, pc'[q] = pc[q], req'[q] = req[q], local'[q] = local[q]
  PROVE  OwnerOK(q)'
<1>1. OwnerOK(q)
  BY DEF Owned
<1>2. pc[q] = "sweep" => \A at \in local[q].doomed : Belongs(at, req[q].client)'
  BY <1>1, DoomedType, BelongsStays DEF OwnerOK
<1>3. pc[q] = "delete" => Belongs(req[q].token, req[q].client)'
  BY <1>1, BelongsStays DEF OwnerOK
<1> QED
  BY <1>1, <1>2, <1>3 DEF OwnerOK, FamiliesKeep

LEMMA StoresOwnedFrame ==
  ASSUME Inv, Owned, RequestsKeep, UNCHANGED <<sessions, tokens, families>>
  PROVE  StoresOwned'
BY TypesOfMaps, BelongsStays DEF Owned, StoresOwned, Family

LEMMA ServeOwnsTokens ==
  ASSUME Inv, Owned, FreshOK, NEW r \in Requests, Serve(r)
  PROVE  \A t \in DOMAIN tokens' : families'[tokens'[t].family].client = tokens'[t].client
<1> SUFFICES ASSUME NEW t \in DOMAIN tokens'
             PROVE  families'[tokens'[t].family].client = tokens'[t].client
  OBVIOUS
<1>1. FamiliesKeep /\ TokensKeep
  BY ServeKeepsFamilies, ServeKeepsTokens
<1>2. CASE t \in DOMAIN tokens
  BY <1>1, <1>2, TypesOfMaps DEF Owned, StoresOwned, FamiliesKeep, TokensKeep
<1>3. CASE t \notin DOMAIN tokens /\ pc[r] = "issue"
  <2>1. Issue(r) /\ t = NewRefreshToken(r)
    BY <1>3, Dispatch, ServeKeepsTokens
  <2>2. /\ tokens'[t].family = r /\ tokens'[t].client = req[r].client
        /\ families'[r].client = req[r].client
    BY <2>1, IssueEffect
  <2> QED
    BY <2>2
<1>4. CASE t \notin DOMAIN tokens /\ pc[r] = "refresh"
  <2> DEFINE u == req[r].token
  <2>1. /\ UseRefresh(r) /\ t = NewRefreshToken(r)
    BY <1>4, Dispatch, ServeKeepsTokens DEF RefreshRefuses, RefreshDetectsReuse, stores
  <2>2. RefreshMode # "static"
    BY <1>4, <2>1, UseRefreshEffect
  <2>3. /\ u \in DOMAIN tokens
        /\ tokens'[t].client = tokens[u].client /\ tokens'[t].family = tokens[u].family
    BY <2>1, <2>2, UseRefreshEffect DEF Presentable
  <2> QED
    BY <1>1, <2>3, TypesOfMaps DEF Owned, StoresOwned, FamiliesKeep
<1> QED
  BY <1>2, <1>3, <1>4, ServeKeepsTokens

LEMMA ServeOwnsSessions ==
  ASSUME Inv, Owned, RequestsKeep, NEW r \in Requests, Serve(r)
  PROVE  \A at \in DOMAIN sessions' : Belongs(at, sessions[at].client)'
<1> SUFFICES ASSUME NEW at \in DOMAIN sessions'
             PROVE  Belongs(at, sessions[at].client)'
  OBVIOUS
<1>1. CASE at \in DOMAIN sessions /\ sessions'[at] = sessions[at]
  BY <1>1, TypesOfMaps, BelongsStays DEF Owned, StoresOwned
<1>2. CASE Put(r) /\ at = local[r].at
  <2>1. sessions'[at].client = req[r].client /\ pc[r] = "put"
    BY <1>2, PutEffect
  <2>2. at \in AccessToken /\ Belongs(at, req[r].client)
    BY <1>2, <2>1, MintedBelongs DEF Owned, OwnerOK, Inv, HandlerOK
  <2> QED
    BY <2>1, <2>2, BelongsStays
<1>3. \/ at \in DOMAIN sessions /\ sessions'[at] = sessions[at]
      \/ Put(r) /\ at = local[r].at
  <2>1. CASE Put(r)
    BY <2>1, PutEffect
  <2>2. CASE Track(r)
    BY <2>2, TrackEffect
  <2>3. CASE Delete(r)
    BY <2>3, DeleteEffect
  <2>4. CASE Sweep(r)
    BY <2>4, SweepEffect
  <2> QED
    BY <2>1, <2>2, <2>3, <2>4, Dispatch
<1> QED
  BY <1>1, <1>2, <1>3

LEMMA ServeOwnsFamilies ==
  ASSUME Inv, Owned, RequestsKeep, NEW r \in Requests, Serve(r)
  PROVE  \A f \in DOMAIN families' :
           \A at \in families'[f].accessTokens : Belongs(at, families[f].client)'
<1> SUFFICES ASSUME NEW f \in DOMAIN families', NEW at \in families'[f].accessTokens
             PROVE  Belongs(at, families[f].client)'
  OBVIOUS
<1>0. \A g \in DOMAIN families : families[g] \in Family
  BY TypesOfMaps
<1>1. CASE /\ f \in DOMAIN families /\ families'[f].client = families[f].client
           /\ at \in families[f].accessTokens
  BY <1>0, <1>1, BelongsStays DEF Owned, StoresOwned, Family
<1>2. CASE UNCHANGED families
  BY <1>1, <1>2
<1>3. CASE Issue(r)
  <2>1. /\ families'[r].accessTokens = {}
        /\ DOMAIN families' = DOMAIN families \cup {r}
        /\ \A g \in DOMAIN families : families'[g] = families[g]
    BY <1>3, IssueEffect
  <2>2. f \in DOMAIN families /\ families'[f] = families[f]
    BY <2>1
  <2> QED
    BY <1>1, <2>2
<1>4. CASE Track(r) /\ families' # families
  <2> DEFINE l == local[r]
  <2>1. /\ pc[r] = "track" /\ l.family \in DOMAIN families
        /\ families'[l.family].accessTokens = families[l.family].accessTokens \cup {l.at}
        /\ families'[l.family].client = families[l.family].client
        /\ DOMAIN families' = DOMAIN families
        /\ \A g \in DOMAIN families \ {l.family} : families'[g] = families[g]
    BY <1>4, TrackEffect
  <2>2. CASE f # l.family
    BY <1>1, <2>1, <2>2
  <2>3. CASE f = l.family /\ at # l.at
    BY <1>1, <2>1, <2>3
  <2>4. CASE f = l.family /\ at = l.at
    <3>1. families'[f].client = req[r].client
      BY <2>1, <2>4 DEF Owned, OwnerOK
    <3>2. at \in AccessToken /\ Belongs(at, req[r].client)
      BY <2>1, <2>4, MintedBelongs DEF Owned, OwnerOK, Inv, HandlerOK
    <3> QED
      BY <3>1, <3>2, BelongsStays
  <2> QED
    BY <2>2, <2>3, <2>4
<1>5. CASE RefreshDetectsReuse(r) \/ RevokeFamily(r)
  <2> DEFINE g == tokens[req[r].token].family
  <2>1. /\ DOMAIN families' = DOMAIN families
        /\ families'[g].client = families[g].client
        /\ families'[g].accessTokens = families[g].accessTokens
        /\ \A h \in DOMAIN families \ {g} : families'[h] = families[h]
    BY <1>5, RevokeEffect
  <2> HIDE DEF g
  <2>2. /\ f \in DOMAIN families /\ families'[f].client = families[f].client
        /\ families'[f].accessTokens = families[f].accessTokens
    BY <2>1
  <2> QED
    BY <1>1, <2>2
<1> QED
  BY <1>2, <1>3, <1>4, <1>5, Dispatch

\* One case per place a handler may be in.
LEMMA ServeOwns ==
  ASSUME Inv, Inv', Owned, RequestsKeep, NEW r \in Requests, Serve(r)
  PROVE  OwnerOK(r)'
<1> DEFINE l == local[r]
<1> PICK q : q = req[r]
  OBVIOUS
<1>0. /\ OwnerOK(r) /\ HandlerOK(r)
      /\ req[r] = q /\ req'[r] = q /\ pc[r] \notin {"idle", "done"}
      /\ l \in Local
      /\ FamiliesKeep
  BY ServeOthers, ServeKeepsFamilies DEF Owned, Inv, TypeOK
<1>1. CASE pc'[r] = "done"
  BY <1>0, <1>1 DEF OwnerOK
<1>2. CASE pc[r] = "consume" /\ pc'[r] # "done"
  <2>1. /\ pc'[r] = "put"
        /\ local'[r].at = MintAccessToken(r, local'[r].identity, q.client, local'[r].readAt)
    BY <1>2, Dispatch, RefuseEffect, ConsumeEffect DEF Answered
  <2> QED
    BY <1>0, <1>2, <2>1 DEF OwnerOK, HandlerOK
<1>3. CASE pc[r] = "put"
  BY <1>0, <1>3, Dispatch, PutEffect DEF OwnerOK, HandlerOK, FamiliesKeep
<1>4. CASE pc[r] = "issue"
  <2>1. Issue(r)
    BY <1>4, Dispatch
  <2>2. /\ pc'[r] = "track"
        /\ local'[r].at = l.at /\ local'[r].identity = l.identity
        /\ local'[r].readAt = l.readAt
    BY <2>1, IssueEffect
  <2>4. local'[r].family = r
    BY <2>1, IssueEffect
  <2>5. r \in DOMAIN families'
    BY <2>1, IssueEffect
  <2>6. families'[r].client = req[r].client
    BY <2>1, IssueEffect
  <2>3. local'[r].family = r /\ r \in DOMAIN families' /\ families'[r].client = q.client
    BY <1>0, <2>4, <2>5, <2>6
  <2> QED
    BY <1>0, <1>4, <2>2, <2>3 DEF OwnerOK
<1>5. CASE pc[r] = "mint" /\ pc'[r] # "done"
  <2>1. /\ pc'[r] = "put"
        /\ local'[r].at = MintAccessToken(r, local'[r].identity, q.client, local'[r].readAt)
        /\ local'[r].family = l.family
    BY <1>5, Dispatch, MintEffect DEF Answered
  <2> QED
    BY <1>0, <1>5, <2>1 DEF OwnerOK, HandlerOK, FamiliesKeep
<1>6. CASE pc[r] = "refresh" /\ UseRefresh(r)
  <2>1. /\ pc'[r] = "mint" /\ q.token \in DOMAIN tokens
        /\ tokens[q.token].client = q.client
        /\ local'[r].family = tokens[q.token].family
    <3>1. pc'[r] = "mint" /\ Presentable(req[r].token, req[r].client)
      BY <1>6, UseRefreshEffect
    <3>2. local'[r].family = tokens[req[r].token].family
      BY <1>6, UseRefreshEffect
    <3> QED
      BY <1>0, <3>1, <3>2 DEF Presentable
  <2>2. /\ tokens[q.token].family \in DOMAIN families
        /\ families[tokens[q.token].family].client = q.client
    BY <2>1, TypesOfMaps DEF Owned, StoresOwned
  <2> QED
    BY <1>0, <1>6, <2>1, <2>2 DEF OwnerOK, FamiliesKeep
<1>7. CASE RefreshDetectsReuse(r) \/ RevokeFamily(r)
  <2> DEFINE f == tokens[q.token].family
  <2>1. /\ pc'[r] = "sweep" /\ q.token \in DOMAIN tokens
        /\ tokens[q.token].client = q.client
        /\ local'[r].doomed = families[f].accessTokens
    BY <1>7, RevokeEffect
  <2>2. f \in DOMAIN families /\ families[f] \in Family /\ families[f].client = q.client
    BY <2>1, TypesOfMaps DEF Owned, StoresOwned
  <2>3. \A at \in local'[r].doomed : Belongs(at, q.client)'
    BY <2>1, <2>2, BelongsStays DEF Owned, StoresOwned, Family
  <2> QED
    BY <1>0, <2>1, <2>3 DEF OwnerOK
<1>8. CASE (Find(r) \/ RevokeFamilyRefuses(r)) /\ pc'[r] # "done"
  <2>1. CASE pc'[r] = "delete"
    <3>1. q.token \in DOMAIN sessions /\ sessions[q.token].client = q.client
      BY <1>8, <2>1, LookEffect DEF Answered, FindOK
    <3>2. q.token \in AccessToken /\ Belongs(q.token, q.client)'
      BY <3>1, TypesOfMaps, BelongsStays DEF Owned, StoresOwned
    <3> QED
      BY <1>0, <2>1, <3>2 DEF OwnerOK
  <2>2. CASE pc'[r] \in {"find", "revokeFamily"}
    BY <1>0, <2>2 DEF OwnerOK
  <2> QED
    BY <1>8, <2>1, <2>2, LookEffect DEF Answered
<1>9. CASE pc[r] = "sweep" /\ pc'[r] # "done"
  <2>1. pc'[r] = "sweep" /\ local'[r].doomed \subseteq l.doomed
    BY <1>9, Dispatch, SweepEffect, EndSweepEffect DEF Answered
  <2>2. \A at \in local'[r].doomed : Belongs(at, q.client)'
    BY <1>0, <1>9, <2>1, DoomedType, BelongsStays DEF OwnerOK
  <2> QED
    BY <1>0, <2>1, <2>2 DEF OwnerOK
<1>10. pc[r] \in {"track", "delete", "lookup"} \/ RefreshRefuses(r) => pc'[r] = "done"
  BY Dispatch, RefuseEffect, TrackEffect, DeleteEffect, LookupEffect DEF Answered
<1>11. pc[r] \in Labels
  BY DEF Inv, TypeOK
<1> QED
  BY <1>0, <1>1, <1>2, <1>3, <1>4, <1>5, <1>6, <1>7, <1>8, <1>9, <1>10, <1>11, Dispatch
     DEF Labels

LEMMA OwnedStep ==
  ASSUME Inv, Inv', FreshOK, Owned, [Next]_vars
  PROVE  Owned'
<1>0. CodesKeep /\ FamiliesKeep /\ TokensKeep /\ RequestsKeep
  BY StepKeeps
<1>1. CASE Elsewhere
  BY <1>0, <1>1, StoresOwnedFrame, OthersOwn DEF Elsewhere, Owned
<1>2. ASSUME NEW r \in Requests, Arrives(r) PROVE Owned'
  <2>1. StoresOwned'
    BY <1>0, <1>2, ArriveEffect, StoresOwnedFrame DEF Arrives
  <2>2. OwnerOK(r)'
    BY <1>2, ArriveEffect DEF Arrives, Answered, OwnerOK
  <2>3. \A q \in Requests \ {r} : OwnerOK(q)'
    BY <1>0, <1>2, ArriveEffect, OthersOwn DEF Arrives, OthersStay
  <2> QED
    BY <2>1, <2>2, <2>3 DEF Owned
<1>3. ASSUME NEW r \in Requests, Serve(r) PROVE Owned'
  <2>1. StoresOwned'
    BY <1>0, <1>3, ServeOwnsTokens, ServeOwnsSessions, ServeOwnsFamilies
       DEF StoresOwned
  <2>2. OwnerOK(r)'
    BY <1>0, <1>3, ServeOwns
  <2>3. \A q \in Requests \ {r} : OwnerOK(q)'
    BY <1>0, <1>3, ServeOthers, OthersOwn DEF OthersStay
  <2> QED
    BY <2>1, <2>2, <2>3 DEF Owned
<1> QED
  BY <1>1, <1>2, <1>3, NextCases

LEMMA OwnedAlways == Spec => [](Inv /\ FreshOK /\ Owned)
<1>1. Init => FreshOK /\ Owned
  BY DEF Init, CodesInit, SessionsInit, RefreshInit, EmptyMap, FreshOK, Owned,
         StoresOwned, OwnerOK
<1>2. Inv /\ FreshOK /\ Owned /\ [Next]_vars => (Inv /\ FreshOK /\ Owned)'
  BY NextInv, FreshStep, OwnedStep
<1> QED
  BY <1>1, <1>2, InitInv, PTL DEF Spec

-----------------------------------------------------------------------------
(* Who ends a session or a family.                                         *)

LEMMA FamilyEndedByOwner ==
  ASSUME Inv, Owned, [Next]_vars, NEW f \in DOMAIN families,
         families'[f].revoked, ~families[f].revoked
  PROVE  \E r \in Requests : /\ pc'[r] # pc[r]
                             /\ req[r].authentic
                             /\ req[r].client = families[f].client
<1>1. PICK r \in Requests : Serve(r)
  BY NextCases, ArriveEffect DEF Elsewhere, Arrives
<1>2. RefreshDetectsReuse(r) \/ RevokeFamily(r)
  <2>1. CASE Issue(r)
    BY <2>1, IssueEffect
  <2>2. CASE Track(r)
    BY <2>2, TrackEffect, TypesOfMaps DEF Family
  <2> QED
    BY <1>1, <2>1, <2>2, Dispatch
<1>3. LET t == req[r].token
      IN /\ pc[r] \in {"refresh", "revokeFamily"} /\ pc'[r] = "sweep"
         /\ t \in DOMAIN tokens /\ tokens[t].client = req[r].client
         /\ f = tokens[t].family
  BY <1>2, RevokeEffect
<1>4. families[f].client = req[r].client
  BY <1>3 DEF Owned, StoresOwned
<1>5. req[r].op # "userinfo"
  BY <1>3 DEF Inv, HandlerOK
<1> QED
  BY <1>3, <1>4, <1>5 DEF Owned, OwnerOK

LEMMA SessionEndedByOwner ==
  ASSUME Inv, Owned, [Next]_vars, NEW at \in DOMAIN sessions \ DOMAIN sessions'
  PROVE  \E r \in Requests : /\ local'[r] # local[r] \/ pc'[r] # pc[r]
                             /\ req[r].authentic
                             /\ req[r].client = sessions[at].client
<1>1. PICK r \in Requests : Serve(r)
  BY NextCases, ArriveEffect DEF Elsewhere, Arrives
<1>2. Belongs(at, sessions[at].client) /\ OwnerOK(r) /\ HandlerOK(r)
  BY DEF Owned, StoresOwned, Inv
<1>3. CASE Track(r)
  <2>1. pc[r] = "track" /\ pc'[r] = "done" /\ at = local[r].at
    BY <1>3, TrackEffect
  <2>2. Belongs(at, req[r].client) /\ req[r].op # "userinfo"
    BY <1>2, <2>1, MintedBelongs DEF OwnerOK, HandlerOK
  <2> QED
    BY <1>2, <2>1, <2>2, BelongsToOne DEF OwnerOK
<1>4. CASE Delete(r)
  <2>1. pc[r] = "delete" /\ pc'[r] = "done" /\ at = req[r].token
    BY <1>4, DeleteEffect DEF Answered
  <2> QED
    BY <1>2, <2>1, BelongsToOne DEF OwnerOK, HandlerOK
<1>5. CASE Sweep(r)
  <2>1. /\ pc[r] = "sweep" /\ at \in local[r].doomed
        /\ local'[r].doomed = local[r].doomed \ {at}
    BY <1>5, SweepEffect
  <2> QED
    BY <1>2, <2>1, BelongsToOne DEF OwnerOK, HandlerOK
<1>6. ~Put(r)
  BY PutEffect
<1> QED
  BY <1>1, <1>3, <1>4, <1>5, <1>6, Dispatch

\* Nobody ends another client's session or family, in any interleaving of
\* grants, refreshes and revocations (tryAccessToken's find and ownership
\* check, revokeByRefreshToken, refresh's reuse detection).
THEOREM NobodyElseEnds == Spec => EndedByOwner
<1>1. Inv /\ FreshOK /\ Owned /\ [Next]_vars =>
        [ /\ \A f \in DOMAIN families :
               families'[f].revoked /\ ~families[f].revoked =>
                 \E r \in Requests : /\ pc'[r] # pc[r]
                                     /\ req[r].authentic
                                     /\ req[r].client = families[f].client
          /\ \A at \in DOMAIN sessions \ DOMAIN sessions' :
               \E r \in Requests : /\ local'[r] # local[r] \/ pc'[r] # pc[r]
                                   /\ req[r].authentic
                                   /\ req[r].client = sessions[at].client
        ]_<<families, sessions>>
  BY FamilyEndedByOwner, SessionEndedByOwner
<1> QED
  BY <1>1, OwnedAlways, PTL DEF Spec, EndedByOwner

-----------------------------------------------------------------------------
(* A session says what its JWT says.                                       *)

\* Only put adds a session or changes one.
LEMMA OnlyPutStores ==
  ASSUME Inv, NEW r \in Requests, Serve(r), NEW at \in DOMAIN sessions'
  PROVE  \/ at \in DOMAIN sessions /\ sessions'[at] = sessions[at]
         \/ Put(r) /\ at = local[r].at
<1>1. CASE Put(r)
  <2>1. DOMAIN sessions' = DOMAIN sessions \cup {local[r].at}
    BY <1>1, PutEffect
  <2>2. at # local[r].at => at \in DOMAIN sessions
    BY <2>1
  <2>3. at \in DOMAIN sessions \ {local[r].at} => sessions'[at] = sessions[at]
    BY <1>1, PutEffect
  <2> QED
    BY <1>1, <2>2, <2>3
<1>2. CASE Track(r)
  BY <1>2, TrackEffect
<1>3. CASE Delete(r)
  BY <1>3, DeleteEffect
<1>4. CASE Sweep(r)
  BY <1>4, SweepEffect
<1>5. UNCHANGED sessions \/ Put(r) \/ Track(r) \/ Delete(r) \/ Sweep(r)
  BY Dispatch
<1> QED
  BY <1>1, <1>2, <1>3, <1>4, <1>5

LEMMA SessionMatchesStep ==
  ASSUME Inv, Owned, SessionMatchesToken, [Next]_vars
  PROVE  SessionMatchesToken'
<1> SUFFICES ASSUME NEW at \in DOMAIN sessions', at.kind = "jwt"
             PROVE  /\ sessions'[at].subject = at.sub
                    /\ sessions'[at].client = at.client_id
                    /\ Reads(at, "aud", sessions'[at].client) <=> "aud" \notin Tamper
                    /\ Reads(at, "exp", Unix(sessions'[at].expiresAt))
                         <=> "exp" \notin Tamper
  BY DEF SessionMatchesToken, Unix, Reads
<1>1. CASE at \in DOMAIN sessions /\ sessions'[at] = sessions[at]
  BY <1>1 DEF SessionMatchesToken
<1>2. ASSUME NEW r \in Requests, Put(r), at = local[r].at
      PROVE  /\ sessions'[at].subject = at.sub
             /\ sessions'[at].client = at.client_id
             /\ Reads(at, "aud", sessions'[at].client) <=> "aud" \notin Tamper
             /\ Reads(at, "exp", Unix(sessions'[at].expiresAt))
                  <=> "exp" \notin Tamper
  <2>1. /\ at = MintAccessToken(r, local[r].identity, req[r].client, local[r].readAt)
        /\ sessions'[at].subject = local[r].identity.subject
        /\ sessions'[at].client = req[r].client
        /\ sessions'[at].expiresAt = local[r].readAt + AccessTokenTTL
    BY <1>2, PutEffect DEF Owned, OwnerOK
  <2>2. at = JWTToken(IssuerFor(local[r].identity, req[r].client),
                      local[r].identity.subject, req[r].client, local[r].readAt)
    BY <2>1 DEF MintAccessToken, OpaqueToken
  <2> QED
    BY <2>1, <2>2 DEF JWTToken, Reads
<1>3. ASSUME NEW r \in Requests, Serve(r)
      PROVE  \/ at \in DOMAIN sessions /\ sessions'[at] = sessions[at]
             \/ Put(r) /\ at = local[r].at
  BY <1>3, OnlyPutStores
<1> QED
  BY <1>1, <1>2, <1>3, NextCases, ArriveEffect DEF Elsewhere, Arrives

\* Although two grants may mint and store one JWT, /userinfo goes by the
\* subject, the client and, to the second, the expiry the string carries, but
\* for an aud or exp the target tampers with (buildAccessToken, sessions.put).
THEOREM SessionsMatchTokens == Spec => []SessionMatchesToken
<1>1. Init => SessionMatchesToken
  BY DEF Init, SessionsInit, EmptyMap, SessionMatchesToken
<1>2. Inv /\ Owned /\ SessionMatchesToken /\ [Next]_vars => SessionMatchesToken'
  BY SessionMatchesStep
<1> QED
  BY <1>1, <1>2, OwnedAlways, PTL DEF Spec

-----------------------------------------------------------------------------
(* Who spends a code.                                                      *)

\* Exchange r, past its authentication, names code l and all that is bound to it.
Spends(r, l) ==
  /\ pc[r] # "idle"
  /\ req[r].op = "exchange"
  /\ req[r].token = l
  /\ req[r].authentic
  /\ req[r].client = codes[l].client
  /\ req[r].redirect = codes[l].redirect

PKCEOK(r) ==
  Redeeming(r) => CheckPKCE(codes[req[r].token].challenge,
                            codes[req[r].token].method, req[r].verifier)

\* Exchange r, with the clock reading it was consumed and minted at.
InTime(r) ==
  pc[r] \in {"put", "issue", "track"} /\ req[r].op = "exchange" =>
    local[r].readAt <= codes[req[r].token].expiresAt

SpentOK ==
  /\ \A l \in DOMAIN codes :
       codes[l].consumed => \E r \in Requests : Spends(r, l)
  /\ \A r \in Requests : PKCEOK(r) /\ InTime(r)

LEMMA SpendsStays ==
  ASSUME CodesKeep, RequestsKeep, NEW r \in Requests, NEW l \in DOMAIN codes, Spends(r, l)
  PROVE  Spends(r, l)'
BY DEF Spends, CodesKeep, RequestsKeep

LEMMA PKCEStays ==
  ASSUME Inv, CodesKeep, RequestsKeep, NEW r \in Requests, PKCEOK(r), Redeeming(r)
  PROVE  PKCEOK(r)'
<1>1. /\ pc[r] # "idle" /\ req[r].token \in DOMAIN codes
      /\ CheckPKCE(codes[req[r].token].challenge, codes[req[r].token].method,
                   req[r].verifier)
  BY DEF PKCEOK, Redeeming, Inv, RedeemedOK
<1>2. PICK l \in DOMAIN codes : l = req[r].token
  BY <1>1
<1>3. /\ req'[r] = req[r]
      /\ codes'[l].challenge = codes[l].challenge
      /\ codes'[l].method = codes[l].method
  BY <1>1 DEF RequestsKeep, CodesKeep
<1> QED
  BY <1>1, <1>2, <1>3 DEF PKCEOK

LEMMA CodeFailureStatus ==
  ASSUME NEW ac, NEW q, CodeFailure(ac, q) # NoReply
  PROVE  CodeFailure(ac, q).status \in {"invalid_grant", "server_error"}
BY DEF CodeFailure, Status, NoReply

\* A code is bought with its verifier, or not at all.
LEMMA ConsumeChecks ==
  ASSUME Inv, NEW r \in Requests, Consume(r), Redeeming(r)'
  PROVE  CheckPKCE(codes[req[r].token].challenge, codes[req[r].token].method,
                   req[r].verifier)
<1> DEFINE ac == codes[req[r].token]
<1>1. CodeFailure(ac, req[r]) = NoReply
  <2> SUFFICES ASSUME CodeFailure(ac, req[r]) # NoReply PROVE FALSE
    OBVIOUS
  <2>1. pc'[r] = "done" /\ resp'[r] = CodeFailure(ac, req[r])
    BY ConsumeEffect
  <2>2. resp'[r].status # "ok"
    BY <2>1, CodeFailureStatus
  <2> QED
    BY <2>1, <2>2 DEF Redeeming
<1>2. Status("invalid_grant") # NoReply
  BY DEF Status, NoReply
<1> QED
  BY <1>1, <1>2 DEF CodeFailure

\* What becomes of a code: nothing, it is new, or it is spent.
LEMMA CodesMove ==
  ASSUME Inv, [Next]_vars, NEW l \in DOMAIN codes'
  PROVE  \/ l \in DOMAIN codes /\ codes'[l] = codes[l]
         \/ /\ l \notin DOMAIN codes
            /\ ~codes'[l].consumed /\ MayLogIn(codes'[l].identity)
         \/ \E r \in Requests : Consume(r) /\ l = req[r].token
<1>1. ASSUME NEW k \in Logins, CompleteLogin(k)
      PROVE  \/ l \in DOMAIN codes /\ codes'[l] = codes[l]
             \/ /\ l \notin DOMAIN codes
                /\ ~codes'[l].consumed /\ MayLogIn(codes'[l].identity)
  BY <1>1 DEF CompleteLogin, IssueCode, MapPut
<1>2. ASSUME NEW r \in Requests, Arrives(r)
      PROVE  l \in DOMAIN codes /\ codes'[l] = codes[l]
  BY <1>2, ArriveEffect DEF Arrives
<1>3. ASSUME NEW r \in Requests, Consume(r), l # req[r].token
      PROVE  l \in DOMAIN codes /\ codes'[l] = codes[l]
  BY <1>3, ConsumeEffect
<1>4. ASSUME NEW r \in Requests, Serve(r)
      PROVE  Consume(r) \/ (l \in DOMAIN codes /\ codes'[l] = codes[l])
  BY <1>4, Dispatch
<1> QED
  BY <1>1, <1>2, <1>3, <1>4 DEF Next, Arrives, vars, stores, MoveClock

\* Only consume makes an exchange redeem a code.
LEMMA RedeemsByConsume ==
  ASSUME Inv, Inv', [Next]_vars, NEW r \in Requests, ~Redeeming(r), Redeeming(r)'
  PROVE  Consume(r)
<1>1. PICK q \in Requests : Serve(q)
  <2>1. ~Elsewhere
    BY DEF Elsewhere, Redeeming
  <2>2. \A q \in Requests : ~Arrives(q)
    BY ArriveOthers DEF Arrives, OthersStay, Redeeming
  <2> QED
    BY <2>1, <2>2, NextCases
<1>2. q = r
  BY <1>1, ServeOthers DEF OthersStay, Redeeming
<1>3. req[r].token \in DOMAIN codes /\ ~codes[req[r].token].consumed /\ UNCHANGED req
  BY <1>1, <1>2, RedeemStep, ServeOthers
<1>4. codes'[req'[r].token].consumed
  BY DEF Inv, RedeemedOK
<1>5. codes' # codes
  BY <1>3, <1>4
<1> QED
  BY <1>1, <1>2, <1>5, Dispatch

\* The reading of the clock an exchange starts with is the one it mints with.
LEMMA InTimeStep ==
  ASSUME Inv, Inv', CodesKeep, RequestsKeep, [Next]_vars,
         NEW r \in Requests, InTime(r),
         pc'[r] \in {"put", "issue", "track"}, req'[r].op = "exchange"
  PROVE  local'[r].readAt <= codes'[req'[r].token].expiresAt
<1>1. CASE pc'[r] = pc[r] /\ local'[r] = local[r] /\ req'[r] = req[r]
  <2>1. req[r].token \in DOMAIN codes
    BY <1>1 DEF Inv, RedeemedOK, Redeeming
  <2> QED
    BY <1>1, <2>1 DEF InTime, CodesKeep
<1>2. CASE Serve(r)
  <2>1. req'[r] = req[r] /\ pc[r] # "done" /\ HandlerOK(r)
    BY <1>2, ServeOthers DEF Inv
  <2>2. CASE Consume(r)
    <3>1. /\ req[r].token \in DOMAIN codes
          /\ local[r].readAt <= codes[req[r].token].expiresAt
      BY <2>2, ConsumeEffect
    <3>2. local'[r].readAt = local[r].readAt
      BY <2>2, ConsumeEffect
    <3> QED
      BY <2>1, <3>1, <3>2 DEF CodesKeep
  <2>3. CASE Put(r) \/ Issue(r)
    <3>1. pc[r] \in {"put", "issue"} /\ local'[r].readAt = local[r].readAt
      BY <2>3, PutEffect, IssueEffect
    <3>2. req[r].token \in DOMAIN codes
      BY <2>1, <3>1 DEF Inv, RedeemedOK, Redeeming
    <3> QED
      BY <2>1, <3>1, <3>2 DEF InTime, CodesKeep
  <2>4. pc[r] \in Labels \ {"idle", "done"}
    BY <1>2, ServeOthers DEF Inv, TypeOK
  <2>5. pc[r] \in {"consume", "put", "issue"}
    BY <1>2, <2>1, <2>4, ServeMoves DEF HandlerOK, Labels
  <2>6. ~ConsumeRefuses(r)
    BY RefuseEffect DEF Answered
  <2> QED
    BY <1>2, <2>2, <2>3, <2>5, <2>6, Dispatch
<1> QED
  BY <1>1, <1>2, NextCases, ArriveEffect, ArriveOthers, ServeOthers
     DEF Elsewhere, Arrives, OthersStay

LEMMA SpentStep ==
  ASSUME Inv, Inv', FreshOK, Owned, SpentOK, [Next]_vars
  PROVE  SpentOK'
<1>0. CodesKeep /\ RequestsKeep
  BY StepKeeps
<1>1. ASSUME NEW l \in DOMAIN codes', codes'[l].consumed
      PROVE  \E r \in Requests : Spends(r, l)'
  <2>1. CASE l \in DOMAIN codes /\ codes[l].consumed
    BY <1>0, <2>1, SpendsStays DEF SpentOK
  <2>2. ASSUME NEW r \in Requests, Consume(r), l = req[r].token
        PROVE  Spends(r, l)'
    <3>1. /\ pc[r] = "consume" /\ l \in DOMAIN codes
          /\ codes[l].client = req[r].client /\ codes[l].redirect = req[r].redirect
      BY <2>2, ConsumeEffect
    <3>2. req[r].op = "exchange" /\ req[r].authentic
      BY <3>1 DEF Inv, HandlerOK, Owned, OwnerOK
    <3>3. Spends(r, l)
      BY <2>2, <3>1, <3>2 DEF Spends
    <3> QED
      BY <1>0, <3>1, <3>3, SpendsStays
  <2> QED
    BY <1>1, <2>1, <2>2, CodesMove
<1>2. ASSUME NEW r \in Requests PROVE PKCEOK(r)'
  <2>1. CASE Redeeming(r)
    BY <1>0, <2>1, PKCEStays DEF SpentOK
  <2>2. CASE ~Redeeming(r) /\ Redeeming(r)'
    <3>1. Consume(r)
      BY <2>2, RedeemsByConsume
    <3>2. /\ pc[r] = "consume" /\ req[r].token \in DOMAIN codes
          /\ CheckPKCE(codes[req[r].token].challenge, codes[req[r].token].method,
                       req[r].verifier)
      BY <2>2, <3>1, ConsumeEffect, ConsumeChecks
    <3>3. PICK l \in DOMAIN codes : l = req[r].token
      BY <3>2
    <3>4. /\ req'[r] = req[r]
          /\ codes'[l].challenge = codes[l].challenge
          /\ codes'[l].method = codes[l].method
      BY <1>0, <3>2 DEF RequestsKeep, CodesKeep
    <3> QED
      BY <3>2, <3>3, <3>4 DEF PKCEOK
  <2> QED
    BY <2>1, <2>2 DEF PKCEOK
<1>3. ASSUME NEW r \in Requests PROVE InTime(r)'
  BY <1>0, InTimeStep DEF SpentOK, InTime
<1> QED
  BY <1>1, <1>2, <1>3 DEF SpentOK

\* A spent code was spent by its own client, authenticated, with its own
\* redirect_uri, and bought something only in time and with its verifier
\* (authenticateClient before consume, checkPKCE after it).
THEOREM CodesAreSpentByTheirOwner == Spec => []SpentByOwner
<1>1. Init => SpentOK
  BY DEF Init, CodesInit, EmptyMap, SpentOK, PKCEOK, InTime, Redeeming
<1>2. Inv /\ Inv' /\ FreshOK /\ Owned /\ SpentOK /\ [Next]_vars => SpentOK'
  BY SpentStep
<1>3. Inv /\ SpentOK => SpentByOwner
  <2> SUFFICES ASSUME Inv, SpentOK PROVE SpentByOwner
    OBVIOUS
  <2>1. \A r \in Requests : pc[r] # "idle" => req[r] # None
    BY NoneAssumption DEF Inv, HandlerOK
  <2>2. \A r \in Requests : Won(r) => Redeeming(r)
    BY DEF Won, Redeeming
  <2> QED
    BY <2>1, <2>2 DEF SpentOK, Spends, PKCEOK, InTime, Won, SpentByOwner
<1> QED
  BY <1>1, <1>2, <1>3, OwnedAlways, PTL DEF Spec

-----------------------------------------------------------------------------
(* Every token of a chain goes back to the identity of its login, and that *)
(* identity is one tokens can be minted for.                               *)

\* The login family f goes back to.
FamilyChain(f) ==
  /\ req[f].token \in DOMAIN codes
  /\ families[f].identity = codes[req[f].token].identity
  /\ families[f].client = codes[req[f].token].client
  /\ Mintable(families[f].identity, families[f].client)

ChainStores ==
  /\ \A l \in DOMAIN codes : ClaimsKnown(codes[l].identity)
  /\ \A f \in DOMAIN families : FamilyChain(f)
  /\ \A t \in DOMAIN tokens : tokens[t].identity = families[tokens[t].family].identity

\* Request r has the family its tokens will belong to.
InFamily(r) ==
  \/ pc[r] = "track"
  \/ pc[r] \in {"mint", "put"} /\ req[r].op = "refresh"

\* An exchange carries the identity of its code, every other grant that of its
\* family.
GrantChain(r) ==
  /\ pc[r] \in {"put", "issue"} /\ req[r].op = "exchange" =>
       /\ req[r].token \in DOMAIN codes
       /\ local[r].identity = codes[req[r].token].identity
       /\ req[r].client = codes[req[r].token].client
       /\ Mintable(local[r].identity, req[r].client)
  /\ InFamily(r) =>
       /\ local[r].next \in DOMAIN tokens
       /\ tokens[local[r].next].family = local[r].family
       /\ local[r].identity = families[local[r].family].identity

ReplyChain(r) ==
  /\ pc[r] # "done" => resp[r].at = None /\ resp[r].status # "server_error"
  /\ resp[r].at # None =>
       /\ resp[r].rt \in DOMAIN tokens
       /\ resp[r].subject = families[tokens[resp[r].rt].family].identity.subject
       /\ resp[r].claims = ClaimsFor(families[tokens[resp[r].rt].family].identity,
                                     req[r].client)
       /\ req[r].client = families[tokens[resp[r].rt].family].client
  /\ resp[r].status = "server_error" =>
       /\ req[r].op = "exchange"
       /\ req[r].token \in DOMAIN codes
       /\ req[r].client = codes[req[r].token].client
       /\ ~Mintable(codes[req[r].token].identity, req[r].client)

Chained == ChainStores /\ \A r \in Requests : GrantChain(r) /\ ReplyChain(r)

\* Which steps answer, and with what.
LEMMA ServeReplies ==
  ASSUME Inv, NEW r \in Requests, Serve(r)
  PROVE  /\ pc'[r] # "done" => resp'[r] = resp[r]
         /\ pc'[r] = "done" =>
              Track(r) \/ (resp'[r].at = None /\ resp'[r].rt = None)
         /\ pc'[r] = "done" /\ resp'[r].status = "server_error" =>
              Consume(r) \/ Mint(r)
<1>1. \A s : /\ Status(s).at = None /\ Status(s).rt = None
             /\ Status(s).status = s
  BY DEF Status, NoReply
<1>2. \A ac, q : CodeFailure(ac, q) # NoReply =>
        CodeFailure(ac, q).at = None /\ CodeFailure(ac, q).rt = None
  BY DEF CodeFailure, Status, NoReply
<1> USE <1>1 DEF Answered
<1>3. CASE ConsumeRefuses(r) \/ RefreshRefuses(r)
  BY <1>3, RefuseEffect
<1>4. CASE Consume(r)
  <2>1. CASE pc'[r] = "done"
    <3>1. /\ resp'[r] = CodeFailure(codes[req[r].token], req[r])
          /\ CodeFailure(codes[req[r].token], req[r]) # NoReply
      BY <1>4, <2>1, ConsumeEffect
    <3> QED
      BY <1>2, <1>4, <2>1, <3>1
  <2>2. CASE pc'[r] # "done"
    <3>1. resp'[r] = resp[r]
      BY <1>4, <2>2, ConsumeEffect
    <3> QED
      BY <2>2, <3>1
  <2> QED
    BY <2>1, <2>2
<1>5. CASE Put(r)
  BY <1>5, PutEffect
<1>6. CASE Issue(r)
  BY <1>6, IssueEffect
<1>7. CASE Track(r)
  <2>1. pc'[r] = "done" /\ resp'[r].status = "ok"
    BY <1>7, TrackEffect
  <2> QED
    BY <1>7, <2>1
<1>8. CASE RefreshDetectsReuse(r) \/ RevokeFamily(r)
  BY <1>8, RevokeEffect
<1>9. CASE UseRefresh(r)
  <2>1. pc'[r] = "mint" /\ resp'[r] = resp[r]
    BY <1>9, UseRefreshEffect
  <2> QED
    BY <2>1
<1>10. CASE Mint(r)
  <2>1. Answered(r, "server_error") \/ (pc'[r] = "put" /\ resp'[r] = resp[r])
    BY <1>10, MintEffect
  <2> QED
    BY <1>10, <2>1
<1>11. CASE Find(r) \/ RevokeFamilyRefuses(r)
  <2>1. Answered(r, "ok") \/ (pc'[r] # "done" /\ resp'[r] = resp[r])
    BY <1>11, LookEffect
  <2> QED
    BY <1>11, <2>1
<1>12. CASE Delete(r)
  <2>1. Answered(r, "ok")
    BY <1>12, DeleteEffect
  <2> QED
    BY <1>12, <2>1
<1>13. CASE Sweep(r)
  BY <1>13, SweepEffect
<1>14. CASE EndSweep(r)
  <2>1. PICK s \in {"invalid_grant", "ok"} : Answered(r, s)
    BY <1>14, EndSweepEffect
  <2> QED
    BY <1>14, <2>1
<1>15. CASE Lookup(r)
  BY <1>15, LookupEffect
<1> QED
  BY <1>3, <1>4, <1>5, <1>6, <1>7, <1>8, <1>9, <1>10, <1>11, <1>12, <1>13, <1>14,
     <1>15 DEF Serve


LEMMA FamilyChainStays ==
  ASSUME Inv, CodesKeep, FamiliesKeep, RequestsKeep,
         NEW f \in DOMAIN families, FamilyChain(f)
  PROVE  FamilyChain(f)'
<1>1. pc[f] # "idle" /\ f \in Requests
  BY TypesOfMaps DEF Inv, FamiliesOK
<1>2. req'[f] = req[f] /\ f \in DOMAIN families'
      /\ families'[f].identity = families[f].identity
      /\ families'[f].client = families[f].client
  BY <1>1 DEF RequestsKeep, FamiliesKeep
<1>3. PICK l \in DOMAIN codes : l = req[f].token
  BY DEF FamilyChain
<1>4. l \in DOMAIN codes' /\ codes'[l].identity = codes[l].identity
      /\ codes'[l].client = codes[l].client
  BY DEF CodesKeep
<1> QED
  BY <1>2, <1>3, <1>4 DEF FamilyChain

LEMMA TokenChainStays ==
  ASSUME Inv, FamiliesKeep, TokensKeep, NEW t \in DOMAIN tokens,
         tokens[t].identity = families[tokens[t].family].identity
  PROVE  tokens'[t].identity = families'[tokens'[t].family].identity
<1>1. PICK f \in DOMAIN families : f = tokens[t].family
  BY TypesOfMaps
<1>2. families'[f].identity = families[f].identity
  BY DEF FamiliesKeep
<1>3. tokens'[t].identity = tokens[t].identity /\ tokens'[t].family = tokens[t].family
  BY DEF TokensKeep
<1> QED
  BY <1>1, <1>2, <1>3

\* A request's handler does not notice the steps of others.
LEMMA GrantChainStays ==
  ASSUME Inv, CodesKeep, FamiliesKeep, TokensKeep, NEW q \in Requests,
         pc'[q] = pc[q], req'[q] = req[q], local'[q] = local[q],
         OwnerOK(q), GrantChain(q)
  PROVE  GrantChain(q)'
<1>1. ASSUME pc[q] \in {"put", "issue"}, req[q].op = "exchange"
      PROVE  /\ req[q].token \in DOMAIN codes'
             /\ local[q].identity = codes'[req[q].token].identity
             /\ req[q].client = codes'[req[q].token].client
             /\ Mintable(local[q].identity, req[q].client)
  BY <1>1 DEF GrantChain, CodesKeep
<1>2. ASSUME InFamily(q)
      PROVE  /\ local[q].next \in DOMAIN tokens'
             /\ tokens'[local[q].next].family = local[q].family
             /\ local[q].identity = families'[local[q].family].identity
  BY <1>2 DEF GrantChain, OwnerOK, InFamily, FamiliesKeep, TokensKeep
<1>3. InFamily(q)' = InFamily(q)
  BY DEF InFamily
<1> QED
  BY <1>1, <1>2, <1>3 DEF GrantChain

LEMMA ReplyChainStays ==
  ASSUME Inv, CodesKeep, FamiliesKeep, TokensKeep, NEW q \in Requests,
         pc'[q] = pc[q], req'[q] = req[q], resp'[q] = resp[q], ReplyChain(q)
  PROVE  ReplyChain(q)'
<1>1. ASSUME resp[q].at # None
      PROVE  /\ resp[q].rt \in DOMAIN tokens'
             /\ resp[q].subject = families'[tokens'[resp[q].rt].family].identity.subject
             /\ resp[q].claims = ClaimsFor(families'[tokens'[resp[q].rt].family].identity,
                                           req[q].client)
             /\ req[q].client = families'[tokens'[resp[q].rt].family].client
  <2>1. PICK t \in DOMAIN tokens : t = resp[q].rt
    BY <1>1 DEF ReplyChain
  <2>2. PICK f \in DOMAIN families : f = tokens[t].family
    BY TypesOfMaps
  <2>3. t \in DOMAIN tokens' /\ tokens'[t].family = f
    BY <2>2 DEF TokensKeep
  <2>4. families'[f].identity = families[f].identity
        /\ families'[f].client = families[f].client
    BY DEF FamiliesKeep
  <2> QED
    BY <1>1, <2>1, <2>2, <2>3, <2>4 DEF ReplyChain
<1>2. ASSUME resp[q].status = "server_error"
      PROVE  /\ req[q].op = "exchange"
             /\ req[q].token \in DOMAIN codes'
             /\ req[q].client = codes'[req[q].token].client
             /\ ~Mintable(codes'[req[q].token].identity, req[q].client)
  BY <1>2 DEF ReplyChain, CodesKeep
<1> QED
  BY <1>1, <1>2 DEF ReplyChain


LEMMA ServeChainsFamilies ==
  ASSUME Inv, FreshOK, Chained, [Next]_vars, NEW r \in Requests, Serve(r),
         NEW f \in DOMAIN families'
  PROVE  FamilyChain(f)'
<1>1. CodesKeep /\ FamiliesKeep /\ RequestsKeep
  BY StepKeeps
<1>2. CASE f \in DOMAIN families
  BY <1>1, <1>2, FamilyChainStays DEF Chained, ChainStores
<1>3. CASE f \notin DOMAIN families
  <2>1. Issue(r)
    <3>1. CASE Track(r)
      BY <1>3, <3>1, TrackEffect
    <3>2. CASE RefreshDetectsReuse(r) \/ RevokeFamily(r)
      BY <1>3, <3>2, RevokeEffect
    <3>3. CASE UNCHANGED families
      BY <1>3, <3>3
    <3> QED
      BY <3>1, <3>2, <3>3, Dispatch
  <2>2. /\ pc[r] = "issue" /\ UNCHANGED codes
        /\ f = r
    <3>1. pc[r] = "issue" /\ UNCHANGED codes
      BY <2>1, IssueEffect
    <3>2. DOMAIN families' = DOMAIN families \cup {r}
      BY <2>1, IssueEffect
    <3> QED
      BY <1>3, <3>1, <3>2
  <2>3. families'[r].identity = local[r].identity
    BY <2>1, IssueEffect
  <2>4. families'[r].client = req[r].client
    BY <2>1, IssueEffect
  <2>5. req[r].op = "exchange" /\ UNCHANGED req
    BY <2>2, ServeOthers DEF Inv, HandlerOK
  <2> QED
    BY <2>2, <2>3, <2>4, <2>5 DEF Chained, GrantChain, FamilyChain
<1> QED
  BY <1>2, <1>3

LEMMA ServeChainsTokens ==
  ASSUME Inv, FreshOK, Chained, [Next]_vars, NEW r \in Requests, Serve(r),
         NEW t \in DOMAIN tokens'
  PROVE  tokens'[t].identity = families'[tokens'[t].family].identity
<1>1. FamiliesKeep /\ TokensKeep
  BY StepKeeps
<1>2. CASE t \in DOMAIN tokens
  BY <1>1, <1>2, TokenChainStays DEF Chained, ChainStores
<1>3. CASE t \notin DOMAIN tokens /\ pc[r] = "issue"
  <2>1. Issue(r) /\ t = NewRefreshToken(r)
    BY <1>3, Dispatch, ServeKeepsTokens
  <2>2. tokens'[t].identity = local[r].identity
    BY <2>1, IssueEffect
  <2>3. tokens'[t].family = r
    BY <2>1, IssueEffect
  <2>4. families'[r].identity = local[r].identity
    BY <2>1, IssueEffect
  <2> QED
    BY <2>2, <2>3, <2>4
<1>4. CASE t \notin DOMAIN tokens /\ pc[r] = "refresh"
  <2> DEFINE old == req[r].token
  <2>1. UseRefresh(r) /\ t = NewRefreshToken(r)
    <3>1. t = NewRefreshToken(r) /\ pc'[r] = "mint"
      BY <1>4, ServeKeepsTokens
    <3>2. ~RefreshRefuses(r)
      BY <3>1, RefuseEffect DEF Answered
    <3>3. ~RefreshDetectsReuse(r)
      BY <3>1, RevokeEffect
    <3> QED
      BY <1>4, <3>1, <3>2, <3>3, Dispatch
  <2>2. UNCHANGED families /\ old \in DOMAIN tokens
    BY <2>1, UseRefreshEffect DEF Presentable
  <2>3. RefreshMode # "static"
    BY <1>4, <2>1, UseRefreshEffect
  <2>4. tokens'[t].identity = tokens[old].identity
    BY <2>1, <2>3, UseRefreshEffect
  <2>5. tokens'[t].family = tokens[old].family
    BY <2>1, <2>3, UseRefreshEffect
  <2>6. tokens[old].identity = families[tokens[old].family].identity
    BY <2>2 DEF Chained, ChainStores
  <2> QED
    BY <2>2, <2>4, <2>5, <2>6
<1> QED
  BY <1>2, <1>3, <1>4, ServeKeepsTokens

LEMMA ServeChainsExchange ==
  ASSUME Inv, Chained, NEW r \in Requests, Serve(r),
         pc'[r] \in {"put", "issue"}, req[r].op = "exchange"
  PROVE  /\ req[r].token \in DOMAIN codes'
         /\ local'[r].identity = codes'[req[r].token].identity
         /\ req[r].client = codes'[req[r].token].client
         /\ Mintable(local'[r].identity, req[r].client)
<1> DEFINE ac == codes[req[r].token]
<1>0. pc[r] \in {"consume", "put"}
  BY Dispatch, ServeOthers, IssueEffect, TrackEffect, LookEffect, DeleteEffect, SweepEffect,
     EndSweepEffect, LookupEffect DEF Inv, HandlerOK, Answered, Labels, TypeOK
<1>1. CASE pc[r] = "put"
  <2>1. UNCHANGED codes /\ local'[r] = local[r]
    BY <1>1, Dispatch, PutEffect
  <2> QED
    BY <1>1, <2>1 DEF Chained, GrantChain
<1>2. CASE pc[r] = "consume"
  <2>1. Consume(r)
    BY <1>2, Dispatch, RefuseEffect DEF Answered
  <2>2. /\ req[r].token \in DOMAIN codes /\ CodesKeep
        /\ ac.client = req[r].client
    BY <2>1, ConsumeEffect, ServeKeepsCodes
  <2>3. local'[r].identity = ac.identity
    BY <2>1, ConsumeEffect
  <2>4. CodeFailure(ac, req[r]) = NoReply
    BY <2>1, ConsumeEffect
  <2>5. Mintable(ac.identity, req[r].client)
    BY <2>4 DEF CodeFailure, Mintable, Status, NoReply
  <2> QED
    BY <2>2, <2>3, <2>5 DEF CodesKeep
<1> QED
  BY <1>0, <1>1, <1>2


LEMMA ServeChainsFamily ==
  ASSUME Inv, FreshOK, Owned, Chained, [Next]_vars, NEW r \in Requests, Serve(r), InFamily(r)'
  PROVE  /\ local'[r].next \in DOMAIN tokens'
         /\ tokens'[local'[r].next].family = local'[r].family
         /\ local'[r].identity = families'[local'[r].family].identity
<1>1. CASE Issue(r)
  <2> DEFINE new == NewRefreshToken(r)
  <2>1. local'[r].next = new /\ local'[r].family = r
    BY <1>1, IssueEffect
  <2>2. local'[r].identity = local[r].identity
    BY <1>1, IssueEffect
  <2>3. families'[r].identity = local[r].identity
    BY <1>1, IssueEffect
  <2>4. tokens'[new].family = r
    BY <1>1, IssueEffect
  <2>5. DOMAIN tokens' = DOMAIN tokens \cup {new}
    BY <1>1, IssueEffect
  <2> HIDE DEF new
  <2> QED
    BY <2>1, <2>2, <2>3, <2>4, <2>5
<1>2. CASE UseRefresh(r)
  <2> DEFINE t == req[r].token
             new == NewRefreshToken(r)
  <2>1. local'[r].next = Successor(r, t)
    BY <1>2, UseRefreshEffect
  <2>2. local'[r].family = tokens[t].family
    BY <1>2, UseRefreshEffect
  <2>3. local'[r].identity = tokens[t].identity
    BY <1>2, UseRefreshEffect
  <2>4. UNCHANGED families /\ t \in DOMAIN tokens
    BY <1>2, UseRefreshEffect DEF Presentable
  <2>5. tokens[t].identity = families[tokens[t].family].identity
    BY <2>4 DEF Chained, ChainStores
  <2>6. CASE RefreshMode = "static"
    <3>1. UNCHANGED tokens
      BY <1>2, <2>6, UseRefreshEffect
    <3> QED
      BY <2>1, <2>2, <2>3, <2>4, <2>5, <2>6, <3>1 DEF Successor
  <2>7. CASE RefreshMode # "static"
    <3>1. DOMAIN tokens' = DOMAIN tokens \cup {new}
      BY <1>2, <2>7, UseRefreshEffect
    <3>2. tokens'[new].family = tokens[t].family
      BY <1>2, <2>7, UseRefreshEffect
    <3>3. local'[r].next = new
      BY <2>1, <2>7 DEF Successor
    <3> HIDE DEF new
    <3> QED
      BY <2>2, <2>3, <2>4, <2>5, <3>1, <3>2, <3>3
  <2> QED
    BY <2>6, <2>7
<1>3. CASE InFamily(r) /\ (Mint(r) \/ Put(r))
  <2>1. /\ local'[r].next = local[r].next /\ local'[r].family = local[r].family
        /\ local'[r].identity = local[r].identity
        /\ UNCHANGED <<tokens, families>>
    <3>1. CASE Put(r)
      BY <3>1, PutEffect
    <3>2. CASE Mint(r)
      <4>1. pc'[r] # "done"
        BY DEF InFamily
      <4> QED
        BY <3>2, <4>1, MintEffect DEF Answered
    <3> QED
      BY <1>3, <3>1, <3>2
  <2> QED
    BY <1>3, <2>1 DEF Chained, GrantChain
<1>4. pc'[r] \in {"mint", "put", "track"} /\ UNCHANGED req /\ pc[r] \in Labels
      /\ HandlerOK(r) /\ pc[r] \notin {"idle", "done"}
      /\ (pc'[r] # "track" => req[r].op = "refresh")
  BY ServeOthers DEF InFamily, Inv, TypeOK
<1>5. CASE pc[r] \in {"issue", "mint", "put"}
  <2>1. pc[r] = "put" => InFamily(r)
    BY <1>4, <1>5, ServeMoves DEF InFamily, HandlerOK
  <2>2. pc[r] = "mint" => InFamily(r)
    BY <1>4 DEF InFamily, HandlerOK
  <2> QED
    BY <1>1, <1>3, <1>5, <2>1, <2>2, Dispatch
<1>6. CASE pc[r] = "refresh"
  <2>1. ~RefreshRefuses(r)
    BY <1>4, RefuseEffect DEF Answered
  <2>2. ~RefreshDetectsReuse(r)
    BY <1>4, RevokeEffect
  <2> QED
    BY <1>2, <1>6, <2>1, <2>2, Dispatch
<1>7. pc[r] # "consume"
  BY <1>4, ServeMoves DEF HandlerOK
<1>8. pc[r] \notin {"track", "find", "delete", "revokeFamily", "sweep", "lookup"}
  BY <1>4, Dispatch, TrackEffect, LookEffect, DeleteEffect, RevokeEffect, SweepEffect,
     EndSweepEffect, LookupEffect DEF Answered
<1> QED
  BY <1>4, <1>5, <1>6, <1>7, <1>8 DEF Labels

LEMMA ServeChainsGrant ==
  ASSUME Inv, FreshOK, Owned, Chained, [Next]_vars, NEW r \in Requests, Serve(r)
  PROVE  GrantChain(r)'
<1>1. UNCHANGED req
  BY ServeOthers
<1>2. pc'[r] \in {"put", "issue"} /\ req[r].op = "exchange" =>
        /\ req[r].token \in DOMAIN codes'
        /\ local'[r].identity = codes'[req[r].token].identity
        /\ req[r].client = codes'[req[r].token].client
        /\ Mintable(local'[r].identity, req[r].client)
  BY ServeChainsExchange
<1>3. InFamily(r)' =>
        /\ local'[r].next \in DOMAIN tokens'
        /\ tokens'[local'[r].next].family = local'[r].family
        /\ local'[r].identity = families'[local'[r].family].identity
  BY ServeChainsFamily
<1> QED
  BY <1>1, <1>2, <1>3 DEF GrantChain


\* A grant under way never fails for want of claims or an issuer.
LEMMA GrantMintable ==
  ASSUME Inv, Owned, Chained, NEW r \in Requests, InFamily(r)
  PROVE  Mintable(local[r].identity, req[r].client)
<1>1. /\ local[r].family \in DOMAIN families
      /\ families[local[r].family].client = req[r].client
  BY DEF Owned, OwnerOK, InFamily
<1>2. local[r].identity = families[local[r].family].identity
  BY DEF Chained, GrantChain
<1> QED
  BY <1>1, <1>2 DEF Chained, ChainStores, FamilyChain

LEMMA MintSucceeds ==
  ASSUME Inv, Owned, Chained, NEW r \in Requests, Mint(r)
  PROVE  pc'[r] = "put"
<1>1. pc[r] = "mint"
  BY MintEffect
<1>2. InFamily(r)
  BY <1>1 DEF Inv, HandlerOK, InFamily
<1>3. Mintable(local[r].identity, req[r].client)
  BY <1>2, GrantMintable
<1> QED
  BY <1>3, MintEffect

LEMMA ServeChainsReply ==
  ASSUME Inv, FreshOK, Owned, Chained, [Next]_vars, NEW r \in Requests, Serve(r)
  PROVE  ReplyChain(r)'
<1>0. /\ UNCHANGED req /\ pc[r] # "done"
      /\ resp[r].at = None /\ resp[r].status # "server_error"
      /\ CodesKeep
  BY ServeOthers, StepKeeps DEF Chained, ReplyChain
<1>1. CASE pc'[r] # "done"
  <2>1. resp'[r] = resp[r]
    BY <1>1, ServeReplies
  <2> QED
    BY <1>0, <1>1, <2>1 DEF ReplyChain
<1>2. ASSUME pc'[r] = "done", resp'[r].at # None
      PROVE  /\ resp'[r].rt \in DOMAIN tokens'
             /\ resp'[r].subject =
                  families'[tokens'[resp'[r].rt].family].identity.subject
             /\ resp'[r].claims =
                  ClaimsFor(families'[tokens'[resp'[r].rt].family].identity, req[r].client)
             /\ req[r].client = families'[tokens'[resp'[r].rt].family].client
  <2> DEFINE f == local[r].family
  <2>1. Track(r)
    BY <1>2, ServeReplies
  <2>2. pc[r] = "track" /\ UNCHANGED tokens
    BY <2>1, TrackEffect
  <2>3. resp'[r].subject = local[r].identity.subject
    BY <2>1, TrackEffect
  <2>4. resp'[r].claims = ClaimsFor(local[r].identity, req[r].client)
    BY <2>1, TrackEffect
  <2>5. resp'[r].rt = local[r].next
    BY <2>1, TrackEffect
  <2>6. /\ local[r].next \in DOMAIN tokens
        /\ tokens[local[r].next].family = f
        /\ local[r].identity = families[f].identity
    BY <2>2 DEF Chained, GrantChain, InFamily
  <2>7. f \in DOMAIN families /\ families[f].client = req[r].client
    BY <2>2 DEF Owned, OwnerOK
  <2>8. families'[f].identity = families[f].identity
        /\ families'[f].client = families[f].client
    BY <2>7, StepKeeps DEF FamiliesKeep
  <2> QED
    BY <2>2, <2>3, <2>4, <2>5, <2>6, <2>7, <2>8
<1>3. ASSUME pc'[r] = "done", resp'[r].status = "server_error"
      PROVE  /\ req[r].op = "exchange"
             /\ req[r].token \in DOMAIN codes'
             /\ req[r].client = codes'[req[r].token].client
             /\ ~Mintable(codes'[req[r].token].identity, req[r].client)
  <2> DEFINE ac == codes[req[r].token]
  <2>1. Consume(r)
    BY <1>3, ServeReplies, MintSucceeds
  <2>2. pc[r] = "consume" /\ req[r].token \in DOMAIN codes
    BY <2>1, ConsumeEffect
  <2>3. resp'[r] = CodeFailure(ac, req[r])
    BY <1>3, <2>1, ConsumeEffect
  <2>4. ~Mintable(ac.identity, req[r].client)
    BY <1>3, <2>3 DEF CodeFailure, Status, NoReply
  <2>5. ac.client = req[r].client
    BY <2>1, ConsumeEffect
  <2>6. req[r].op = "exchange"
    BY <2>2 DEF Inv, HandlerOK
  <2> QED
    BY <1>0, <2>2, <2>4, <2>5, <2>6 DEF CodesKeep
<1>4. CASE pc'[r] = "done"
  BY <1>0, <1>2, <1>3, <1>4 DEF ReplyChain
<1> QED
  BY <1>1, <1>4

LEMMA ArriveChains ==
  ASSUME Inv, NEW r \in Requests, Arrives(r), ReplyChain(r)
  PROVE  GrantChain(r)' /\ ReplyChain(r)'
<1>1. pc[r] = "idle" /\ resp[r].at = None /\ resp[r].status # "server_error"
  BY ArriveEffect DEF Arrives, ReplyChain
<1>2. CASE pc'[r] \in {"consume", "refresh", "find", "revokeFamily", "lookup"}
  <2>1. resp'[r] = resp[r]
    BY <1>2, ArriveEffect DEF Arrives, Answered
  <2> QED
    BY <1>1, <1>2, <2>1 DEF GrantChain, ReplyChain, InFamily
<1>3. CASE pc'[r] \notin {"consume", "refresh", "find", "revokeFamily", "lookup"}
  <2>1. PICK s \in {"configured_error", "invalid_client", "invalid_request",
                    "unsupported_grant_type", "invalid_token"} : Answered(r, s)
    BY <1>3, ArriveEffect DEF Arrives
  <2>2. Status(s).at = None /\ Status(s).status = s
    BY DEF Status, NoReply
  <2>3. pc'[r] = "done" /\ resp'[r].at = None /\ resp'[r].status = s
    BY <2>1, <2>2 DEF Answered
  <2> QED
    BY <2>3 DEF GrantChain, ReplyChain, InFamily
<1> QED
  BY <1>2, <1>3

LEMMA ChainedStep ==
  ASSUME Inv, FreshOK, Owned, Chained, [Next]_vars
  PROVE  Chained'
<1>0. CodesKeep /\ FamiliesKeep /\ TokensKeep /\ RequestsKeep
  BY StepKeeps
<1>1. \A l \in DOMAIN codes' : ClaimsKnown(codes'[l].identity)
  <2> SUFFICES ASSUME NEW l \in DOMAIN codes' PROVE ClaimsKnown(codes'[l].identity)
    OBVIOUS
  <2>1. CASE l \in DOMAIN codes
    BY <1>0, <2>1 DEF Chained, ChainStores, CodesKeep
  <2>2. CASE l \notin DOMAIN codes
    <3>1. MayLogIn(codes'[l].identity)
      BY <2>2, CodesMove, ConsumeEffect
    <3> QED
      BY <3>1 DEF MayLogIn, ClaimsKnown
  <2> QED
    BY <2>1, <2>2
<1>2. \A f \in DOMAIN families' : FamilyChain(f)'
  <2>1. CASE UNCHANGED families
    BY <1>0, <2>1, FamilyChainStays DEF Chained, ChainStores
  <2>2. CASE \E r \in Requests : Serve(r)
    BY <2>2, ServeChainsFamilies
  <2> QED
    BY <2>1, <2>2, NextCases, ArriveEffect DEF Elsewhere, Arrives
<1>3. \A t \in DOMAIN tokens' :
        tokens'[t].identity = families'[tokens'[t].family].identity
  <2>1. CASE UNCHANGED <<tokens, families>>
    BY <2>1 DEF Chained, ChainStores
  <2>2. CASE \E r \in Requests : Serve(r)
    BY <2>2, ServeChainsTokens
  <2> QED
    BY <2>1, <2>2, NextCases, ArriveEffect DEF Elsewhere, Arrives
<1>4. ASSUME NEW q \in Requests PROVE GrantChain(q)' /\ ReplyChain(q)'
  <2>1. CASE pc'[q] = pc[q] /\ req'[q] = req[q] /\ local'[q] = local[q] /\ resp'[q] = resp[q]
    BY <1>0, <2>1, GrantChainStays, ReplyChainStays DEF Chained, Owned
  <2>2. CASE Arrives(q)
    BY <2>2, ArriveChains DEF Chained
  <2>3. CASE Serve(q)
    BY <2>3, ServeChainsGrant, ServeChainsReply
  <2>4. ASSUME NEW r \in Requests, Arrives(r) \/ Serve(r), r # q
        PROVE  /\ pc'[q] = pc[q] /\ req'[q] = req[q] /\ local'[q] = local[q]
               /\ resp'[q] = resp[q]
    BY <2>4, ArriveOthers, ServeOthers DEF Arrives, OthersStay
  <2> QED
    BY <2>1, <2>2, <2>3, <2>4, NextCases DEF Elsewhere
<1> QED
  BY <1>1, <1>2, <1>3, <1>4 DEF Chained, ChainStores

LEMMA ChainedAlways == Spec => [](Inv /\ FreshOK /\ Owned /\ Chained)
<1>1. Init => Chained
  BY DEF Init, CodesInit, RefreshInit, EmptyMap, Chained, ChainStores, GrantChain,
         ReplyChain, InFamily, NoReply
<1>2. Inv /\ FreshOK /\ Owned /\ Chained /\ [Next]_vars => Chained'
  BY ChainedStep
<1> QED
  BY <1>1, <1>2, OwnedAlways, PTL DEF Spec

\* However often a chain is refreshed, its tokens are for the identity that
\* logged in, with the claims of that identity (loginIdentity, claimsFor).
THEOREM ChainsKeepTheirIdentity == Spec => []ChainKeepsIdentity
<1>1. Inv /\ Chained => ChainKeepsIdentity
  <2> SUFFICES ASSUME Inv, Chained, NEW r \in Requests, Granted(r)
               PROVE  /\ resp[r].subject = OriginOf(r).subject
                      /\ resp[r].claims = ClaimsFor(OriginOf(r), req[r].client)
                      /\ req[r].client = codes[req[FamilyOf(r)].token].client
    BY DEF ChainKeepsIdentity, ClaimsFor
  <2>1. /\ resp[r].rt \in DOMAIN tokens
        /\ resp[r].subject = families[FamilyOf(r)].identity.subject
        /\ resp[r].claims = ClaimsFor(families[FamilyOf(r)].identity, req[r].client)
        /\ req[r].client = families[FamilyOf(r)].client
    BY DEF Chained, ReplyChain, Granted, FamilyOf
  <2>2. FamilyOf(r) \in DOMAIN families
    BY <2>1, TypesOfMaps DEF FamilyOf
  <2>3. FamilyChain(FamilyOf(r))
    BY <2>2 DEF Chained, ChainStores
  <2> QED
    BY <2>1, <2>3 DEF FamilyChain, OriginOf
<1> QED
  BY <1>1, ChainedAlways, PTL

\* A 500 answers the exchange of a login no token can be minted for, and such a
\* login never gets any: a refresh does not fail once it has rotated
\* (issueFromCode, issueFromRefresh).
THEOREM RefreshesNeverFail == Spec => []FailsAtExchangeOrNever
<1>1. Chained => FailsAtExchangeOrNever
  <2> SUFFICES ASSUME Chained, NEW r \in Requests, resp[r].status = "server_error"
               PROVE  /\ req[r].op = "exchange"
                      /\ ~Mintable(codes[req[r].token].identity, req[r].client)
                      /\ \A f \in DOMAIN families : req[f].token # req[r].token
    BY DEF FailsAtExchangeOrNever
  <2>1. /\ req[r].op = "exchange"
        /\ req[r].client = codes[req[r].token].client
        /\ ~Mintable(codes[req[r].token].identity, req[r].client)
    BY DEF Chained, ReplyChain
  <2>2. ASSUME NEW f \in DOMAIN families, req[f].token = req[r].token PROVE FALSE
    BY <2>1, <2>2 DEF Chained, ChainStores, FamilyChain
  <2> QED
    BY <2>1, <2>2
<1> QED
  BY <1>1, ChainedAlways, PTL


-----------------------------------------------------------------------------
(* The live refresh token of a chain.                                      *)

\* Request r has delivered refresh token t, or will, whatever happens.
Holds(r, t) ==
  \/ pc[r] = "done" /\ resp[r].rt = t
  \/ InFamily(r) /\ local[r].next = t

LiveOK == \A t \in DOMAIN tokens : tokens[t].retired \/ \E r \in Requests : Holds(r, t)

LEMMA HoldsStays ==
  ASSUME Inv, Owned, Chained, [Next]_vars, NEW q \in Requests, NEW t, Holds(q, t)
  PROVE  Holds(q, t)'
<1>1. CASE pc'[q] = pc[q] /\ req'[q] = req[q] /\ local'[q] = local[q] /\ resp'[q] = resp[q]
  BY <1>1 DEF Holds, InFamily
<1>2. ~Arrives(q)
  BY ArriveEffect DEF Arrives, Holds, InFamily
<1>3. CASE Serve(q)
  <2>1. InFamily(q) /\ local[q].next = t /\ UNCHANGED req
    BY <1>3, ServeOthers DEF Holds
  <2>2. CASE Mint(q)
    <3>1. pc'[q] = "put" /\ pc[q] = "mint" /\ local'[q].next = local[q].next
      BY <2>2, MintSucceeds, MintEffect DEF Answered
    <3> QED
      BY <2>1, <3>1 DEF Holds, InFamily
  <2>3. CASE Put(q)
    <3>1. pc[q] = "put" /\ local'[q] = local[q]
          /\ pc'[q] = IF req[q].op = "exchange" THEN "issue" ELSE "track"
      BY <2>3, PutEffect
    <3> QED
      BY <2>1, <3>1 DEF Holds, InFamily
  <2>4. CASE Track(q)
    BY <2>1, <2>4, TrackEffect DEF Holds
  <2>5. Mint(q) \/ Put(q) \/ Track(q)
    BY <1>3, <2>1, Dispatch DEF InFamily
  <2> QED
    BY <2>2, <2>3, <2>4, <2>5
<1>4. ASSUME NEW r \in Requests, Arrives(r) \/ Serve(r), r # q
      PROVE  /\ pc'[q] = pc[q] /\ req'[q] = req[q] /\ local'[q] = local[q]
             /\ resp'[q] = resp[q]
  BY <1>4, ArriveOthers, ServeOthers DEF Arrives, OthersStay
<1> QED
  BY <1>1, <1>2, <1>3, <1>4, NextCases DEF Elsewhere

\* A step adds a refresh token only by handing it to its own request.
LEMMA NewTokenIsHeld ==
  ASSUME Inv, FreshOK, [Next]_vars, NEW t \in DOMAIN tokens', t \notin DOMAIN tokens
  PROVE  \E r \in Requests : Holds(r, t)'
<1>1. PICK r \in Requests : Serve(r)
  BY NextCases, ArriveEffect DEF Elsewhere, Arrives
<1>2. t = NewRefreshToken(r) /\ UNCHANGED req
  BY <1>1, ServeKeepsTokens, ServeOthers
<1>3. CASE Issue(r)
  <2>1. pc'[r] = "track" /\ local'[r].next = NewRefreshToken(r)
    BY <1>3, IssueEffect
  <2> QED
    BY <1>2, <2>1 DEF Holds, InFamily
<1>4. CASE UseRefresh(r)
  <2>1. pc'[r] = "mint" /\ pc[r] = "refresh"
    BY <1>4, UseRefreshEffect
  <2>2. local'[r].next = Successor(r, req[r].token)
    BY <1>4, UseRefreshEffect
  <2>3. RefreshMode # "static"
    BY <1>4, UseRefreshEffect
  <2>4. req'[r].op = "refresh"
    BY <1>2, <2>1 DEF Inv, HandlerOK
  <2> QED
    BY <1>2, <2>1, <2>2, <2>3, <2>4 DEF Holds, InFamily, Successor
<1> QED
  BY <1>1, <1>3, <1>4, Dispatch

\* The refresh token a chain is left with is on its way to the client, or has
\* reached it: no failure after the rotation swallows it (issueFromRefresh
\* mints after refreshStore.refresh has rotated).
THEOREM LiveTokensReachTheirClient == Spec => []LiveTokenReachesClient
<1>1. Init => LiveOK
  BY DEF Init, RefreshInit, EmptyMap, LiveOK
<1>2. Inv /\ FreshOK /\ Owned /\ Chained /\ LiveOK /\ [Next]_vars => LiveOK'
  <2> SUFFICES ASSUME Inv, FreshOK, Owned, Chained, LiveOK, [Next]_vars,
                      NEW t \in DOMAIN tokens', ~tokens'[t].retired
               PROVE  \E r \in Requests : Holds(r, t)'
    BY DEF LiveOK
  <2>1. CASE t \in DOMAIN tokens
    <3>1. ~tokens[t].retired
      BY <2>1, StepKeeps DEF TokensKeep
    <3> QED
      BY <2>1, <3>1, HoldsStays DEF LiveOK
  <2>2. CASE t \notin DOMAIN tokens
    BY <2>2, NewTokenIsHeld
  <2> QED
    BY <2>1, <2>2
<1>3. LiveOK => LiveTokenReachesClient
  BY DEF LiveOK, Holds, LiveTokenReachesClient
<1> QED
  BY <1>1, <1>2, <1>3, ChainedAlways, PTL DEF Spec


\* Family f is left with refresh token t and no other.
OnlyLive(f, t) ==
  \A u \in DOMAIN tokens : tokens[u].family = f /\ ~tokens[u].retired <=> u = t

LEMMA RotateKeepsOneLive ==
  ASSUME Inv, FreshOK, OneLiveRefreshToken, RefreshMode = "rotate",
         NEW r \in Requests, UseRefresh(r), NEW f \in DOMAIN families
  PROVE  \E t \in DOMAIN tokens' : OnlyLive(f, t)'
<1> DEFINE old == req[r].token
           new == NewRefreshToken(r)
<1>0. PICK t \in DOMAIN tokens : OnlyLive(f, t)
  BY DEF OneLiveRefreshToken, OnlyLive
<1>1. pc[r] = "refresh" /\ old \in DOMAIN tokens /\ ~tokens[old].retired
  BY UseRefreshEffect DEF Presentable
<1>2. new \notin DOMAIN tokens
  BY <1>1 DEF FreshOK, NewRefreshToken
<1>3. DOMAIN tokens' = DOMAIN tokens \cup {new}
  BY UseRefreshEffect
<1>4. tokens'[new].family = tokens[old].family /\ ~tokens'[new].retired
  BY UseRefreshEffect
<1>5. tokens'[old].retired /\ tokens'[old].family = tokens[old].family
  BY <1>1, <1>2, UseRefreshEffect
<1>6. \A u \in DOMAIN tokens \ {old, new} : tokens'[u] = tokens[u]
  BY UseRefreshEffect
<1> HIDE DEF old, new
<1>7. CASE f = tokens[old].family
  <2>1. t = old
    BY <1>0, <1>1, <1>7 DEF OnlyLive
  <2>2. ASSUME NEW u \in DOMAIN tokens'
        PROVE  tokens'[u].family = f /\ ~tokens'[u].retired <=> u = new
    BY <1>0, <1>1, <1>2, <1>3, <1>4, <1>5, <1>6, <1>7, <2>1 DEF OnlyLive
  <2> QED
    BY <1>3, <2>2 DEF OnlyLive
<1>8. CASE f # tokens[old].family
  <2>1. t # old
    BY <1>0, <1>1, <1>8 DEF OnlyLive
  <2>2. ASSUME NEW u \in DOMAIN tokens'
        PROVE  tokens'[u].family = f /\ ~tokens'[u].retired <=> u = t
    BY <1>0, <1>1, <1>2, <1>3, <1>4, <1>5, <1>6, <1>8, <2>1 DEF OnlyLive
  <2> QED
    BY <1>0, <1>3, <2>2 DEF OnlyLive
<1> QED
  BY <1>7, <1>8

LEMMA IssueKeepsOneLive ==
  ASSUME Inv, FreshOK, OneLiveRefreshToken, RefreshMode = "rotate",
         NEW r \in Requests, Issue(r), NEW f \in DOMAIN families'
  PROVE  \E t \in DOMAIN tokens' : OnlyLive(f, t)'
<1> DEFINE new == NewRefreshToken(r)
<1>1. pc[r] = "issue" /\ r \notin DOMAIN families
  BY IssueEffect
<1>2. new \notin DOMAIN tokens
  BY <1>1 DEF FreshOK, NewRefreshToken
<1>3. DOMAIN families' = DOMAIN families \cup {r}
  BY IssueEffect
<1>4. DOMAIN tokens' = DOMAIN tokens \cup {new}
  BY IssueEffect
<1>5. tokens'[new].family = r /\ ~tokens'[new].retired
  BY IssueEffect
<1>6. \A u \in DOMAIN tokens : tokens'[u] = tokens[u] /\ tokens[u].family # r
  <2>1. \A u \in DOMAIN tokens \ {new} : tokens'[u] = tokens[u]
    BY IssueEffect
  <2>2. \A u \in DOMAIN tokens : tokens[u].family \in DOMAIN families
    BY TypesOfMaps
  <2> QED
    BY <1>1, <1>2, <2>1, <2>2
<1> HIDE DEF new
<1>7. CASE f = r
  BY <1>2, <1>4, <1>5, <1>6, <1>7 DEF OnlyLive
<1>8. CASE f # r
  <2>1. PICK t \in DOMAIN tokens : OnlyLive(f, t)
    BY <1>3, <1>8 DEF OneLiveRefreshToken, OnlyLive
  <2> QED
    BY <1>2, <1>4, <1>5, <1>6, <1>8, <2>1 DEF OnlyLive
<1> QED
  BY <1>7, <1>8

\* Rotation neither forks a chain nor ends it, whatever refreshes race
\* (refreshStore.refresh, rotate).
THEOREM OneRefreshTokenLives == Spec => []OneLiveRefreshToken
<1>1. Init => OneLiveRefreshToken
  BY DEF Init, RefreshInit, EmptyMap, OneLiveRefreshToken
<1>2. Inv /\ FreshOK /\ OneLiveRefreshToken /\ [Next]_vars => OneLiveRefreshToken'
  <2> SUFFICES ASSUME Inv, FreshOK, OneLiveRefreshToken, [Next]_vars,
                      RefreshMode = "rotate", NEW f \in DOMAIN families'
               PROVE  \E t \in DOMAIN tokens' : OnlyLive(f, t)'
    BY DEF OneLiveRefreshToken, OnlyLive
  <2>1. CASE UNCHANGED tokens /\ f \in DOMAIN families
    BY <2>1 DEF OneLiveRefreshToken, OnlyLive
  <2>2. ASSUME NEW r \in Requests, Issue(r) PROVE \E t \in DOMAIN tokens' : OnlyLive(f, t)'
    BY <2>2, IssueKeepsOneLive
  <2>3. ASSUME NEW r \in Requests, UseRefresh(r)
        PROVE  \E t \in DOMAIN tokens' : OnlyLive(f, t)'
    <3>1. f \in DOMAIN families
      BY <2>3, UseRefreshEffect
    <3> QED
      BY <2>3, <3>1, RotateKeepsOneLive
  <2>4. ASSUME NEW r \in Requests, Serve(r), ~Issue(r) PROVE f \in DOMAIN families
    <3>1. CASE Track(r)
      BY <3>1, TrackEffect
    <3>2. CASE RefreshDetectsReuse(r) \/ RevokeFamily(r)
      BY <3>2, RevokeEffect
    <3> QED
      BY <2>4, <3>1, <3>2, Dispatch
  <2>5. CASE Elsewhere \/ \E r \in Requests : Arrives(r)
    BY <2>1, <2>5, ArriveEffect DEF Elsewhere, Arrives
  <2> QED
    BY <2>1, <2>2, <2>3, <2>4, <2>5, NextCases, Dispatch
<1> QED
  BY <1>1, <1>2, OwnedAlways, PTL DEF Spec


-----------------------------------------------------------------------------
(* Why a family is revoked.                                                *)

\* Refresh r has rotated refresh token t away.
Rotated(r, t) ==
  /\ pc[r] \in {"mint", "put", "track", "done"}
  /\ req[r].op = "refresh"
  /\ req[r].token = t

\* Request r is a reason to revoke family f.
Cause(r, f) ==
  /\ pc[r] # "idle"
  /\ req[r].token \in DOMAIN tokens
  /\ tokens[req[r].token].family = f
  /\ req[r].client = families[f].client
  /\ req[r].authentic
  /\ \/ req[r].op = "revoke"
     \/ /\ RefreshMode = "rotate"
        /\ req[r].op = "refresh"
        /\ \E q \in Requests : /\ q # r /\ pc[q] # "idle" /\ req[q].op = "refresh"
                               /\ req[q].token = req[r].token

CauseOK ==
  /\ \A t \in DOMAIN tokens :
       tokens[t].retired => RefreshMode = "rotate" /\ \E r \in Requests : Rotated(r, t)
  /\ \A f \in DOMAIN families :
       families[f].revoked => \E r \in Requests : Cause(r, f)

LEMMA RotatedStays ==
  ASSUME Inv, FreshOK, [Next]_vars, NEW q \in Requests, NEW t, Rotated(q, t)
  PROVE  Rotated(q, t)'
<1>1. req'[q] = req[q]
  BY StepKeeps DEF RequestsKeep, Rotated
<1>2. pc'[q] \in {"mint", "put", "track", "done"}
  <2>1. ASSUME NEW r \in Requests, Arrives(r)
        PROVE  pc'[q] = pc[q]
    BY <2>1, ArriveOthers DEF Arrives, OthersStay, Rotated
  <2>2. ASSUME NEW r \in Requests, Serve(r), r # q
        PROVE  pc'[q] = pc[q]
    BY <2>2, ServeOthers DEF OthersStay
  <2>3. CASE Serve(q)
    <3>1. pc[q] \in {"mint", "put", "track"} /\ req[q].op = "refresh"
      BY <2>3, ServeOthers DEF Rotated
    <3> QED
      BY <2>3, <3>1, ServeMoves
  <2> QED
    BY <2>1, <2>2, <2>3, NextCases DEF Elsewhere, Rotated
<1> QED
  BY <1>1, <1>2 DEF Rotated

LEMMA CauseStays ==
  ASSUME Inv, FamiliesKeep, TokensKeep, RequestsKeep,
         NEW r \in Requests, NEW f \in DOMAIN families, Cause(r, f)
  PROVE  Cause(r, f)'
<1>1. /\ pc'[r] # "idle" /\ req'[r] = req[r]
      /\ req[r].token \in DOMAIN tokens'
      /\ tokens'[req[r].token].family = f
      /\ families'[f].client = families[f].client
  BY DEF Cause, RequestsKeep, FamiliesKeep, TokensKeep
<1>2. \A q \in Requests : pc[q] # "idle" => pc'[q] # "idle" /\ req'[q] = req[q]
  BY DEF RequestsKeep
<1> QED
  BY <1>1, <1>2 DEF Cause

LEMMA RetiredForCause ==
  ASSUME Inv, FreshOK, [Next]_vars, NEW t \in DOMAIN tokens', tokens'[t].retired,
         t \in DOMAIN tokens => ~tokens[t].retired
  PROVE  RefreshMode = "rotate" /\ \E r \in Requests : Rotated(r, t)'
<1>1. PICK r \in Requests : Serve(r)
  <2>1. ~UNCHANGED tokens
    OBVIOUS
  <2> QED
    BY <2>1, NextCases, ArriveEffect DEF Elsewhere, Arrives
<1>2. ~Issue(r)
  <2> SUFFICES ASSUME Issue(r) PROVE FALSE
    OBVIOUS
  <2>1. DOMAIN tokens' = DOMAIN tokens \cup {NewRefreshToken(r)}
    BY IssueEffect
  <2>2. ~tokens'[NewRefreshToken(r)].retired
    BY IssueEffect
  <2>3. \A u \in DOMAIN tokens \ {NewRefreshToken(r)} : tokens'[u] = tokens[u]
    BY IssueEffect
  <2> QED
    BY <2>1, <2>2, <2>3
<1>3. UseRefresh(r)
  BY <1>1, <1>2, Dispatch
<1>4. RefreshMode # "static"
  BY <1>3, UseRefreshEffect
<1>5. t = req[r].token
  <2> DEFINE new == NewRefreshToken(r)
  <2>1. DOMAIN tokens' = DOMAIN tokens \cup {new}
    BY <1>3, <1>4, UseRefreshEffect
  <2>2. ~tokens'[new].retired
    BY <1>3, <1>4, UseRefreshEffect
  <2>3. \A u \in DOMAIN tokens \ {req[r].token, new} : tokens'[u] = tokens[u]
    BY <1>3, <1>4, UseRefreshEffect
  <2> QED
    BY <2>1, <2>2, <2>3
<1>6. pc'[r] = "mint" /\ pc[r] = "refresh"
  BY <1>3, UseRefreshEffect
<1>7. UNCHANGED req /\ req[r].op = "refresh"
  BY <1>1, <1>6, ServeOthers DEF Inv, HandlerOK
<1> QED
  BY <1>4, <1>5, <1>6, <1>7, RefreshAssumption DEF Rotated

LEMMA RevokedByCause ==
  ASSUME Inv, FreshOK, Owned, CauseOK, [Next]_vars, NEW f \in DOMAIN families',
         families'[f].revoked, f \in DOMAIN families => ~families[f].revoked
  PROVE  \E r \in Requests : Cause(r, f)'
<1>1. PICK r \in Requests : Serve(r)
  <2>1. ~UNCHANGED families
    OBVIOUS
  <2> QED
    BY <2>1, NextCases, ArriveEffect DEF Elsewhere, Arrives
<1>2. RefreshDetectsReuse(r) \/ RevokeFamily(r)
  <2>1. CASE Issue(r)
    <3>1. DOMAIN families' = DOMAIN families \cup {r}
      BY <2>1, IssueEffect
    <3>2. ~families'[r].revoked
      BY <2>1, IssueEffect
    <3>3. \A g \in DOMAIN families : families'[g] = families[g]
      BY <2>1, IssueEffect
    <3> QED
      BY <3>1, <3>2, <3>3
  <2>2. CASE Track(r)
    BY <2>2, TrackEffect, TypesOfMaps DEF Family
  <2> QED
    BY <1>1, <2>1, <2>2, Dispatch
<1>3. /\ req[r].token \in DOMAIN tokens /\ tokens[req[r].token].client = req[r].client
      /\ \/ pc[r] = "refresh" /\ tokens[req[r].token].retired
         \/ pc[r] = "revokeFamily"
  BY <1>2, RevokeEffect
<1>4. f = tokens[req[r].token].family /\ f \in DOMAIN families
  BY <1>2, RevokeEffect
<1>5. families[f].client = req[r].client
  BY <1>3, <1>4 DEF Owned, StoresOwned
<1>6. req[r].authentic
  BY <1>3 DEF Inv, HandlerOK, Owned, OwnerOK
<1>7. \/ req[r].op = "revoke"
      \/ /\ RefreshMode = "rotate" /\ req[r].op = "refresh"
         /\ \E q \in Requests : /\ q # r /\ pc[q] # "idle" /\ req[q].op = "refresh"
                                /\ req[q].token = req[r].token
  <2>1. CASE pc[r] = "revokeFamily"
    BY <2>1 DEF Inv, HandlerOK
  <2>2. CASE pc[r] = "refresh" /\ tokens[req[r].token].retired
    <3>1. PICK q \in Requests : Rotated(q, req[r].token)
      BY <1>3, <2>2 DEF CauseOK
    <3>2. RefreshMode = "rotate" /\ req[r].op = "refresh"
      BY <1>3, <2>2 DEF CauseOK, Inv, HandlerOK
    <3> QED
      BY <2>2, <3>1, <3>2 DEF Rotated
  <2> QED
    BY <1>3, <2>1, <2>2
<1>8. Cause(r, f)
  BY <1>3, <1>4, <1>5, <1>6, <1>7 DEF Cause
<1> QED
  BY <1>4, <1>8, CauseStays, StepKeeps

\* A family is revoked because its owner asked for it, or presented a retired
\* refresh token of it: no race of honest requests logs a user out
\* (revokeByRefreshToken, refresh's reuse detection).
THEOREM FamiliesAreRevokedForCause == Spec => []RevokedForCause
<1>1. Init => CauseOK
  BY DEF Init, RefreshInit, EmptyMap, CauseOK
<1>2. Inv /\ FreshOK /\ Owned /\ CauseOK /\ [Next]_vars => CauseOK'
  <2> SUFFICES ASSUME Inv, FreshOK, Owned, CauseOK, [Next]_vars PROVE CauseOK'
    OBVIOUS
  <2>1. ASSUME NEW t \in DOMAIN tokens', tokens'[t].retired
        PROVE  RefreshMode = "rotate" /\ \E r \in Requests : Rotated(r, t)'
    <3>1. CASE t \in DOMAIN tokens /\ tokens[t].retired
      BY <3>1, RotatedStays DEF CauseOK
    <3> QED
      BY <2>1, <3>1, RetiredForCause
  <2>2. ASSUME NEW f \in DOMAIN families', families'[f].revoked
        PROVE  \E r \in Requests : Cause(r, f)'
    <3>1. CASE f \in DOMAIN families /\ families[f].revoked
      BY <3>1, CauseStays, StepKeeps DEF CauseOK
    <3> QED
      BY <2>2, <3>1, RevokedByCause
  <2> QED
    BY <2>1, <2>2 DEF CauseOK
<1>3. Inv /\ CauseOK => RevokedForCause
  <2> SUFFICES ASSUME Inv, CauseOK, NEW f \in DOMAIN families, families[f].revoked
               PROVE  \E r1, r2 \in Requests :
                        /\ req[r1] # None /\ req[r2] # None
                        /\ req[r1].token = req[r2].token
                        /\ req[r1].token \in DOMAIN tokens
                        /\ tokens[req[r1].token].family = f
                        /\ req[r1].client = families[f].client
                        /\ req[r1].authentic
                        /\ \/ req[r1].op = "revoke"
                           \/ /\ RefreshMode = "rotate"
                              /\ r1 # r2
                              /\ req[r1].op = "refresh" /\ req[r2].op = "refresh"
    BY DEF RevokedForCause
  <2>1. PICK r \in Requests : Cause(r, f)
    BY DEF CauseOK
  <2>2. \A q \in Requests : pc[q] # "idle" => req[q] # None
    BY NoneAssumption DEF Inv, HandlerOK
  <2> QED
    BY <2>1, <2>2 DEF Cause
<1> QED
  BY <1>1, <1>2, <1>3, OwnedAlways, PTL DEF Spec
=============================================================================
