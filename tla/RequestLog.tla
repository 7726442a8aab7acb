----------------------------- MODULE RequestLog -----------------------------
(***************************************************************************)
(* internal/reqlog: the Middleware around every target's router, and the   *)
(* Recorder they all share.  A request is a goroutine: the handler attaches *)
(* fields and writes a response through statusWriter; when it returns, the *)
(* middleware reads the clock and hands one record to emit, whose mutex    *)
(* makes the write of the line and the update of the ring one step.        *)
(* Writes to the log's io.Writer are taken to succeed.                     *)
(***************************************************************************)
EXTENDS Integers, Sequences

CONSTANTS
  Requests,    \* the requests, each made at most once
  Targets,     \* the targets, each behind a Middleware of its own
  None,        \* Go's zero value of a record, a field or a target
  FieldNames,  \* client_id, grant_type, pkce, sub
  Values,      \* what handlers set them to
  Statuses,    \* the statuses handlers pass to WriteHeader
  Retentions,  \* the arguments of WithRetention
  Time         \* the readings of the clock

ASSUME LogAssumption ==
  /\ None \notin Targets \cup Values \cup Statuses \cup {200}
  /\ Statuses \subseteq Int
  /\ Retentions \subseteq Int
  /\ Time \subseteq Int

VARIABLES
  retain, ring, head, count,  \* Recorder's fields
  lines,     \* the records written to Recorder.w, one line each
  pc,        \* where each request is
  target,    \* the target it reached, None outside every mount
  fields,    \* its Fields
  status,    \* its statusWriter.status
  wrote,     \* its statusWriter.wrote
  sent,      \* the status net/http has committed for it, if any
  minted,    \* the last clock reading its handler has used, if any
  pending,   \* the record on its way to emit
  now        \* the clock the targets and the Recorder share

recorder == <<retain, ring, head, count>>
request == <<target, fields, status, wrote, sent, minted, pending>>
vars == <<recorder, lines, pc, request, now>>

Record ==
  [request : Requests, target : Targets, time : Time,
   status : Statuses \cup {200}, fields : [FieldNames -> Values \cup {None}]]

TypeOK ==
  /\ retain \in Nat
  /\ ring \in [0 .. retain - 1 -> Record \cup {None}]
  /\ head \in 0 .. retain
  /\ count \in 0 .. retain
  /\ lines \in Seq(Record)
  /\ pc \in [Requests -> {"idle", "handling", "emit", "finish", "answered"}]
  /\ target \in [Requests -> Targets \cup {None}]
  /\ fields \in [Requests -> [FieldNames -> Values \cup {None}]]
  /\ status \in [Requests -> Statuses \cup {200}]
  /\ wrote \in [Requests -> BOOLEAN]
  /\ sent \in [Requests -> Statuses \cup {200, None}]
  /\ minted \in [Requests -> Time \cup {None}]
  /\ pending \in [Requests -> Record \cup {None}]
  /\ now \in Time

\* New, WithRetention(n): a negative n is 0.
Init ==
  /\ \E n \in Retentions : retain = IF n < 0 THEN 0 ELSE n
  /\ ring = [i \in 0 .. retain - 1 |-> None]
  /\ head = 0 /\ count = 0
  /\ lines = << >>
  /\ pc = [r \in Requests |-> "idle"]
  /\ target = [r \in Requests |-> None]
  /\ fields = [r \in Requests |-> [f \in FieldNames |-> None]]
  /\ status = [r \in Requests |-> 200]
  /\ wrote = [r \in Requests |-> FALSE]
  /\ sent = [r \in Requests |-> None]
  /\ minted = [r \in Requests |-> None]
  /\ pending = [r \in Requests |-> None]
  /\ now \in Time

-----------------------------------------------------------------------------
(* The recorder.                                                           *)

\* Records: oldest first.
Records == [i \in 1 .. count |-> ring[(head + i - 1) % retain]]

\* Mutant: head stays where it is when the ring is full.
RetainWithoutMovingHead(rec) ==
  IF count < retain
    THEN /\ ring' = [ring EXCEPT ![(head + count) % retain] = rec]
         /\ count' = count + 1
         /\ UNCHANGED head
    ELSE /\ ring' = [ring EXCEPT ![head] = rec]
         /\ UNCHANGED <<head, count>>

\* retainLocked.
Retain(rec) ==
  IF retain = 0 THEN UNCHANGED <<ring, head, count>>
  ELSE IF count < retain
    THEN /\ ring' = [ring EXCEPT ![(head + count) % retain] = rec]
         /\ count' = count + 1
         /\ UNCHANGED head
    ELSE /\ ring' = [ring EXCEPT ![head] = rec]
         /\ head' = (head + 1) % retain
         /\ UNCHANGED count

-----------------------------------------------------------------------------
(* One request.                                                            *)

At(r, label) == pc[r] = label
Goto(r, label) == pc' = [pc EXCEPT ![r] = label]

\* The router hands the request to the target mounted at its path; a path
\* under no mount is a 404 that no Middleware sees.
Arrive(r) ==
  /\ At(r, "idle")
  /\ \E t \in Targets \cup {None} :
       /\ target' = [target EXCEPT ![r] = t]
       /\ Goto(r, IF t = None THEN "answered" ELSE "handling")
  /\ UNCHANGED <<recorder, lines, fields, status, wrote, sent, minted,
                 pending, now>>

\* One of the Fields setters.
SetField(r) ==
  /\ At(r, "handling")
  /\ \E f \in FieldNames, v \in Values : fields' = [fields EXCEPT ![r][f] = v]
  /\ UNCHANGED <<recorder, lines, pc, target, status, wrote, sent, minted,
                 pending, now>>

\* The handler reads the clock: the iat of a token, the expiry of a code.
ReadClock(r) ==
  /\ At(r, "handling")
  /\ minted' = [minted EXCEPT ![r] = now]
  /\ UNCHANGED <<recorder, lines, pc, target, fields, status, wrote, sent,
                 pending, now>>

\* net/http: 103 and the like only announce the status that is to come.
Informational(s) == s \in 100 .. 199 /\ s # 101

\* The first final status decides, later ones are superfluous.
Commit(r, s) ==
  sent' = [sent EXCEPT ![r] = IF @ = None /\ ~Informational(s) THEN s ELSE @]

\* Mutant: the last status is recorded.
WriteHeaderRecordsLast(r) ==
  /\ At(r, "handling")
  /\ \E s \in Statuses :
       /\ status' = [status EXCEPT ![r] = s]
       /\ wrote' = [wrote EXCEPT ![r] = TRUE]
       /\ Commit(r, s)
  /\ UNCHANGED <<recorder, lines, pc, target, fields, minted, pending, now>>

\* statusWriter.WriteHeader.
WriteHeader(r) ==
  /\ At(r, "handling")
  /\ \E s \in Statuses :
       /\ status' = [status EXCEPT ![r] = IF wrote[r] THEN @ ELSE s]
       /\ wrote' = [wrote EXCEPT ![r] = TRUE]
       /\ Commit(r, s)
  /\ UNCHANGED <<recorder, lines, pc, target, fields, minted, pending, now>>

\* statusWriter.Write: a body without a status is a 200.
Write(r) ==
  /\ At(r, "handling")
  /\ wrote' = [wrote EXCEPT ![r] = TRUE]
  /\ Commit(r, 200)
  /\ UNCHANGED <<recorder, lines, pc, target, fields, status, minted, pending,
                 now>>

\* Mutant: the record has the time of an earlier reading.
ReturnWithFirstReading(r) ==
  /\ At(r, "handling")
  /\ \E t \in Time :
       /\ t <= now
       /\ pending' = [pending EXCEPT ![r] =
                        [request |-> r, target |-> target[r], time |-> t,
                         status |-> status[r], fields |-> fields[r]]]
  /\ Goto(r, "emit")
  /\ UNCHANGED <<recorder, lines, target, fields, status, wrote, sent, minted,
                 now>>

\* The handler returns, and the middleware builds the record; the clock is
\* read before the recorder's mutex is taken.
Return(r) ==
  /\ At(r, "handling")
  /\ pending' = [pending EXCEPT ![r] =
                   [request |-> r, target |-> target[r], time |-> now,
                    status |-> status[r], fields |-> fields[r]]]
  /\ Goto(r, "emit")
  /\ UNCHANGED <<recorder, lines, target, fields, status, wrote, sent, minted,
                 now>>

\* Recorder.emit.
Emit(r) ==
  /\ At(r, "emit")
  /\ lines' = Append(lines, pending[r])
  /\ Retain(pending[r])
  /\ pending' = [pending EXCEPT ![r] = None]
  /\ Goto(r, "finish")
  /\ UNCHANGED <<retain, target, fields, status, wrote, sent, minted, now>>

\* net/http ends the response, with a 200 if nothing was written.
Finish(r) ==
  /\ At(r, "finish")
  /\ Commit(r, 200)
  /\ Goto(r, "answered")
  /\ UNCHANGED <<recorder, lines, target, fields, status, wrote, minted,
                 pending, now>>

Tick ==
  /\ \E t \in Time : t > now /\ now' = t
  /\ UNCHANGED <<recorder, lines, pc, request>>

Next ==
  \/ Tick
  \/ \E r \in Requests :
       \/ Arrive(r) \/ SetField(r) \/ ReadClock(r) \/ WriteHeader(r) \/ Write(r)
       \/ Return(r) \/ Emit(r) \/ Finish(r)

Spec == Init /\ [][Next]_vars

-----------------------------------------------------------------------------

Recent == INSTANCE RecentRecords WITH capacity <- retain, recent <- Records

\* Whatever the retention, and in whatever order requests end, Records is the
\* records of the last `retain` requests to reach emit (retainLocked's ring).
KeepsRecent == Recent!RecentSpec

\* Once a client has all of its response, the log has exactly one line for
\* the request, with its target, every field its handler set and the status
\* the client got; only where the line has an informational status, the first
\* a handler set, does it not say what came after (Middleware, statusWriter).
AnsweredIsLogged ==
  \A r \in Requests :
    At(r, "answered") /\ target[r] # None =>
      \E i \in DOMAIN lines :
        /\ \A j \in DOMAIN lines : lines[j].request = r <=> j = i
        /\ lines[i].target = target[r]
        /\ Informational(lines[i].status) \/ lines[i].status = sent[r]
        /\ lines[i].fields = fields[r]

\* While the clock does not go back, a request's line is never stamped
\* earlier than anything the request was answered with (New gives the
\* recorder the targets' clock so that the two can be compared).
StampedAfterMinting ==
  \A i \in DOMAIN lines :
    LET read == minted[lines[i].request]
    IN read # None => read <= lines[i].time
=============================================================================
