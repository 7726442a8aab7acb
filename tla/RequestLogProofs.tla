-------------------------- MODULE RequestLogProofs --------------------------
(***************************************************************************)
(* Theorems about the request log for every retention, any number of       *)
(* concurrent requests and targets, and every clock.                       *)
(***************************************************************************)
EXTENDS RequestLog, SequenceTheorems, TLAPS

-----------------------------------------------------------------------------
(* The inductive invariant.                                                *)

\* head moves only once the ring is full, and stays inside it.
RingOK ==
  /\ retain > 0 => head < retain
  /\ count < retain => head = 0

\* A request has a target from the moment a middleware handles it.
TargetOK(r) == pc[r] \in {"handling", "emit", "finish"} => target[r] \in Targets

Inv ==
  /\ TypeOK
  /\ RingOK
  /\ \A r \in Requests : TargetOK(r)
  /\ \A r \in Requests : pc[r] = "emit" => pending[r] \in Record

-----------------------------------------------------------------------------
(* Arithmetic.                                                             *)

\* A position that has run past the end of the ring at most once wraps to
\* the distance by which it has.
LEMMA Wrap ==
  ASSUME NEW n \in Nat, NEW k \in Nat, n > 0, k < 2 * n
  PROVE  k % n = IF k < n THEN k ELSE k - n
<1>1. CASE k < n
  BY <1>1
<1>2. CASE k >= n
  BY <1>2
<1> QED
  BY <1>1, <1>2

-----------------------------------------------------------------------------
(* The invariant holds.                                                    *)

LEMMA InvInit == Init => Inv
<1> SUFFICES ASSUME Init PROVE Inv
  OBVIOUS
<1>1. PICK n \in Retentions : retain = IF n < 0 THEN 0 ELSE n
  BY DEF Init
<1>2. retain \in Nat
  BY <1>1, LogAssumption
<1>3. lines \in Seq(Record)
  BY DEF Init
<1> QED
  BY <1>2, <1>3 DEF Init, Inv, TypeOK, RingOK, TargetOK

\* What the proofs below need to know of the recorder's fields.
LEMMA RecorderType ==
  ASSUME Inv
  PROVE  /\ retain \in Nat /\ head \in 0 .. retain /\ count \in 0 .. retain
         /\ ring \in [0 .. retain - 1 -> Record \cup {None}]
         /\ retain > 0 => head < retain
         /\ count < retain => head = 0
BY DEF Inv, TypeOK, RingOK

\* retainLocked, with its two indices worked out.
LEMMA RetainIs ==
  ASSUME Inv, NEW rec, Retain(rec)
  PROVE  /\ retain = 0 => UNCHANGED <<ring, head, count>>
         /\ retain > 0 /\ count < retain =>
              /\ ring' = [ring EXCEPT ![count] = rec]
              /\ head = 0 /\ head' = 0 /\ count' = count + 1
         /\ retain > 0 /\ ~(count < retain) =>
              /\ ring' = [ring EXCEPT ![head] = rec]
              /\ head' = IF head + 1 < retain THEN head + 1 ELSE 0
              /\ count' = count
<1>1. /\ retain \in Nat /\ head \in Nat /\ count \in Nat
      /\ retain > 0 => head < retain
      /\ count < retain => head = 0
  BY RecorderType
<1>2. ASSUME retain > 0, count < retain
      PROVE  head + count = count /\ count % retain = count
  BY <1>1, <1>2
<1>3. ASSUME retain > 0
      PROVE  (head + 1) % retain = IF head + 1 < retain THEN head + 1 ELSE 0
  <2>1. head + 1 \in Nat /\ head + 1 < 2 * retain
    BY <1>1, <1>3
  <2>2. (head + 1) % retain = IF head + 1 < retain THEN head + 1
                                                  ELSE head + 1 - retain
    BY <1>1, <1>3, <2>1, Wrap
  <2> QED
    BY <1>1, <1>3, <2>2
<1> QED
  BY <1>1, <1>2, <1>3 DEF Retain

\* retainLocked keeps the ring well formed.
LEMMA RetainOK ==
  ASSUME Inv, NEW rec \in Record, Retain(rec), UNCHANGED retain
  PROVE  /\ ring' \in [0 .. retain' - 1 -> Record \cup {None}]
         /\ head' \in 0 .. retain'
         /\ count' \in 0 .. retain'
         /\ RingOK'
<1>1. /\ retain \in Nat /\ head \in 0 .. retain /\ count \in 0 .. retain
      /\ ring \in [0 .. retain - 1 -> Record \cup {None}]
      /\ retain > 0 => head < retain
      /\ count < retain => head = 0
  BY RecorderType
<1>2. CASE retain = 0
  <2>1. UNCHANGED <<ring, head, count>>
    BY <1>2, RetainIs
  <2> QED
    BY <1>1, <1>2, <2>1 DEF RingOK
<1>3. CASE retain > 0 /\ count < retain
  <2>1. /\ ring' = [ring EXCEPT ![count] = rec]
        /\ head' = 0 /\ count' = count + 1
    BY <1>3, RetainIs
  <2>2. ring' \in [0 .. retain - 1 -> Record \cup {None}]
    BY <1>1, <1>3, <2>1
  <2> QED
    BY <1>1, <1>3, <2>1, <2>2 DEF RingOK
<1>4. CASE retain > 0 /\ ~(count < retain)
  <2>1. /\ ring' = [ring EXCEPT ![head] = rec]
        /\ head' = IF head + 1 < retain THEN head + 1 ELSE 0
        /\ count' = count
    BY <1>4, RetainIs
  <2>2. ring' \in [0 .. retain - 1 -> Record \cup {None}]
    BY <1>1, <1>4, <2>1
  <2>3. head' \in Nat /\ head' < retain
    BY <1>1, <1>4, <2>1
  <2> QED
    BY <1>1, <1>4, <2>1, <2>2, <2>3 DEF RingOK
<1> QED
  BY <1>1, <1>2, <1>3, <1>4

LEMMA InvStep == Inv /\ [Next]_vars => Inv'
<1> SUFFICES ASSUME Inv, [Next]_vars PROVE Inv'
  OBVIOUS
<1> USE DEF Inv, recorder, request, At, Goto
<1>1. CASE UNCHANGED vars
  BY <1>1 DEF vars, TypeOK, RingOK, TargetOK
<1>2. CASE Tick
  BY <1>2 DEF Tick, TypeOK, RingOK, TargetOK
<1>3. ASSUME NEW r \in Requests, Arrive(r) PROVE Inv'
  BY <1>3 DEF Arrive, TypeOK, RingOK, TargetOK
<1>4. ASSUME NEW r \in Requests, SetField(r) PROVE Inv'
  BY <1>4 DEF SetField, TypeOK, RingOK, TargetOK
<1>5. ASSUME NEW r \in Requests, ReadClock(r) PROVE Inv'
  BY <1>5 DEF ReadClock, TypeOK, RingOK, TargetOK
<1>6. ASSUME NEW r \in Requests, WriteHeader(r) PROVE Inv'
  BY <1>6 DEF WriteHeader, Commit, TypeOK, RingOK, TargetOK
<1>7. ASSUME NEW r \in Requests, Write(r) PROVE Inv'
  BY <1>7 DEF Write, Commit, TypeOK, RingOK, TargetOK
<1>8. ASSUME NEW r \in Requests, Return(r) PROVE Inv'
  <2>1. pending'[r] \in Record
    BY <1>8 DEF Return, TypeOK, TargetOK, Record
  <2> QED
    BY <1>8, <2>1 DEF Return, TypeOK, RingOK, TargetOK
<1>9. ASSUME NEW r \in Requests, Emit(r) PROVE Inv'
  <2>1. pending[r] \in Record
    BY <1>9 DEF Emit
  <2>2. lines' \in Seq(Record)
    BY <1>9, <2>1, AppendProperties DEF Emit, TypeOK
  <2>3. /\ ring' \in [0 .. retain' - 1 -> Record \cup {None}]
        /\ head' \in 0 .. retain'
        /\ count' \in 0 .. retain'
        /\ RingOK'
    BY <1>9, <2>1, RetainOK DEF Emit
  <2>4. \A q \in Requests : pc'[q] = "emit" => pending'[q] \in Record
    BY <1>9 DEF Emit, TypeOK
  <2> QED
    BY <1>9, <2>2, <2>3, <2>4 DEF Emit, TypeOK, TargetOK
<1>10. ASSUME NEW r \in Requests, Finish(r) PROVE Inv'
  BY <1>10 DEF Finish, Commit, TypeOK, RingOK, TargetOK
<1> QED
  BY <1>1, <1>2, <1>3, <1>4, <1>5, <1>6, <1>7, <1>8, <1>9, <1>10 DEF Next

LEMMA InvAlways == Spec => []Inv
  BY InvInit, InvStep, PTL DEF Spec

\* Every reachable state of the recorder and the requests is well typed.
THEOREM TypeCorrect == Spec => []TypeOK
<1>1. Inv => TypeOK
  BY DEF Inv
<1> QED
  BY <1>1, InvAlways, PTL

-----------------------------------------------------------------------------
(* The ring is the queue of the last records.                              *)

\* Position k of a ring of n entries, k having wrapped at most once.
Pos(n, k) == IF k < n THEN k ELSE k - n

\* What Records computes, as a function of the recorder's fields.
Window(rg, h, c, n) == [i \in 1 .. c |-> rg[(h + i - 1) % n]]

\* The arguments for which a window is a sequence.
IsRing(E, rg, h, c, n) ==
  /\ n \in Nat /\ rg \in [0 .. n - 1 -> E]
  /\ h \in Nat /\ c \in 0 .. n
  /\ n > 0 => h < n

\* w has c elements of E, read from rg by position.
Reads(E, w, rg, h, c, n) ==
  /\ w \in Seq(E)
  /\ Len(w) = c
  /\ \A i \in 1 .. c : w[i] = rg[Pos(n, h + i - 1)]

\* The window by position: nothing wraps while the ring is not full, and a
\* full ring is read from head to its end and then from its start.
LEMMA WindowAt ==
  ASSUME NEW E, NEW rg, NEW h, NEW c, NEW n, IsRing(E, rg, h, c, n)
  PROVE  Reads(E, Window(rg, h, c, n), rg, h, c, n)
<1> DEFINE W == Window(rg, h, c, n)
<1> USE DEF IsRing
<1>1. ASSUME NEW i \in 1 .. c
      PROVE  W[i] = rg[Pos(n, h + i - 1)]
  <2>1. n > 0 /\ h + i - 1 \in Nat /\ h + i - 1 < 2 * n
    OBVIOUS
  <2>2. (h + i - 1) % n = Pos(n, h + i - 1)
    BY <2>1, Wrap DEF Pos
  <2> QED
    BY <2>2 DEF Window
<1>2. ASSUME NEW i \in 1 .. c PROVE W[i] \in E
  <2>1. Pos(n, h + i - 1) \in 0 .. n - 1
    BY DEF Pos
  <2> QED
    BY <1>1, <2>1
<1>3. W \in [1 .. c -> E]
  BY <1>2 DEF Window
<1>4. c \in Nat
  OBVIOUS
<1>5. W \in Seq(E) /\ Len(W) = c
  BY <1>3, <1>4, IsASeq, LenProperties
<1> QED
  BY <1>1, <1>5 DEF Reads

\* What retainLocked does to a ring, and where head goes when it is full.
Store(rg, i, rec) == [rg EXCEPT ![i] = rec]
After(h, n) == IF h + 1 < n THEN h + 1 ELSE 0

\* Filling the entry after a window that starts at 0 appends to it.
LEMMA WindowGrows ==
  ASSUME NEW E, NEW rg, NEW h, NEW c, NEW n, IsRing(E, rg, h, c, n),
         c < n, h = 0, NEW rec \in E
  PROVE  Window(Store(rg, c, rec), h, c + 1, n) = Append(Window(rg, h, c, n), rec)
<1> SUFFICES ASSUME NEW rg2, rg2 = [rg EXCEPT ![c] = rec]
             PROVE  Window(rg2, h, c + 1, n) = Append(Window(rg, h, c, n), rec)
  BY DEF Store
<1> USE DEF IsRing
<1>1. IsRing(E, rg, h, c, n) /\ IsRing(E, rg2, h, c + 1, n)
  OBVIOUS
<1>2. Reads(E, Window(rg, h, c, n), rg, h, c, n)
  BY ONLY <1>1, WindowAt
<1>3. Reads(E, Window(rg2, h, c + 1, n), rg2, h, c + 1, n)
  BY ONLY <1>1, WindowAt
<1> DEFINE W == Window(rg, h, c, n)
           W2 == Window(rg2, h, c + 1, n)
           S == Append(W, rec)
<1> HIDE DEF W, W2
<1>4. /\ S \in Seq(E) /\ Len(S) = c + 1
      /\ \A i \in 1 .. c : S[i] = W[i]
      /\ S[c + 1] = rec
  BY <1>2, AppendProperties DEF W, Reads
<1> HIDE DEF S
<1>5. ASSUME NEW i \in 1 .. c + 1 PROVE W2[i] = S[i]
  <2>1. Pos(n, h + i - 1) = i - 1
    BY DEF Pos
  <2>2. W2[i] = rg2[i - 1]
    BY <1>3, <2>1 DEF W2, Reads
  <2>3. CASE i = c + 1
    BY <1>4, <2>2, <2>3
  <2>4. CASE i <= c
    <3>1. W[i] = rg[i - 1]
      BY <1>2, <2>1, <2>4 DEF W, Reads
    <3> QED
      BY <1>4, <2>2, <2>4, <3>1
  <2> QED
    BY <2>3, <2>4
<1>6. W2 = S
  BY <1>3, <1>4, <1>5, SeqEqual DEF W2, Reads
<1> QED
  BY <1>6 DEF W, W2, S

\* Overwriting the first entry of a full window, and starting after it, drops
\* the first and appends to the rest.
LEMMA WindowSlides ==
  ASSUME NEW E, NEW rg, NEW h, NEW n, IsRing(E, rg, h, n, n),
         h < n, NEW rec \in E
  PROVE  Window(Store(rg, h, rec), After(h, n), n, n)
           = Tail(Append(Window(rg, h, n, n), rec))
<1> SUFFICES ASSUME NEW rg2, rg2 = [rg EXCEPT ![h] = rec],
                    NEW h2, h2 = IF h + 1 < n THEN h + 1 ELSE 0
             PROVE  Window(rg2, h2, n, n) = Tail(Append(Window(rg, h, n, n), rec))
  BY DEF Store, After
<1> USE DEF IsRing
<1>1. IsRing(E, rg, h, n, n) /\ IsRing(E, rg2, h2, n, n)
  OBVIOUS
<1>2. Reads(E, Window(rg, h, n, n), rg, h, n, n)
  BY ONLY <1>1, WindowAt
<1>3. Reads(E, Window(rg2, h2, n, n), rg2, h2, n, n)
  BY ONLY <1>1, WindowAt
<1> DEFINE W == Window(rg, h, n, n)
           W2 == Window(rg2, h2, n, n)
           S == Append(W, rec)
<1> HIDE DEF W, W2
<1>4. /\ S \in Seq(E) /\ Len(S) = n + 1
      /\ \A i \in 1 .. n : S[i] = W[i]
      /\ S[n + 1] = rec
  <2>1. W \in Seq(E) /\ Len(W) = n
    BY <1>2 DEF W, Reads
  <2> QED
    BY <2>1, AppendProperties
<1> HIDE DEF S
<1>5. /\ Tail(S) \in Seq(E) /\ Len(Tail(S)) = n
      /\ \A i \in 1 .. n : Tail(S)[i] = S[i + 1]
  <2>1. S # << >>
    BY <1>4, EmptySeq
  <2>2. /\ Tail(S) \in Seq(E) /\ Len(Tail(S)) = Len(S) - 1
        /\ \A i \in 1 .. Len(Tail(S)) : Tail(S)[i] = S[i + 1]
    BY <1>4, <2>1, HeadTailProperties
  <2> QED
    BY <1>4, <2>2
<1>6. ASSUME NEW i \in 1 .. n PROVE W2[i] = S[i + 1]
  <2>1. W2[i] = rg2[Pos(n, h2 + i - 1)]
    BY <1>3 DEF W2, Reads
  <2>2. CASE i = n
    <3>1. Pos(n, h2 + i - 1) = h
      BY <2>2 DEF Pos
    <3> QED
      BY <1>4, <2>1, <2>2, <3>1
  <2>3. CASE i < n
    <3>1. S[i + 1] = W[i + 1]
      BY <1>4, <2>3
    <3>2. W[i + 1] = rg[Pos(n, h + (i + 1) - 1)]
      BY <1>2, <2>3 DEF W, Reads
    <3>3. /\ Pos(n, h2 + i - 1) = Pos(n, h + (i + 1) - 1)
          /\ Pos(n, h2 + i - 1) # h /\ Pos(n, h2 + i - 1) \in 0 .. n - 1
      BY <2>3 DEF Pos
    <3>4. rg2[Pos(n, h2 + i - 1)] = rg[Pos(n, h2 + i - 1)]
      BY <3>3
    <3> QED
      BY <2>1, <3>1, <3>2, <3>3, <3>4
  <2> QED
    BY <2>2, <2>3
<1>7. W2 = Tail(S)
  <2>1. \A i \in 1 .. n : W2[i] = Tail(S)[i]
    BY <1>5, <1>6
  <2>2. W2 \in Seq(E) /\ Len(W2) = n
    BY <1>3 DEF W2, Reads
  <2> QED
    BY <1>5, <2>1, <2>2, SeqEqual
<1> QED
  BY <1>7 DEF W, W2, S

\* retainLocked appends a record to what Records returns and, when the ring
\* is full, drops the oldest.
LEMMA RetainAdds ==
  ASSUME Inv, NEW rec \in Record, Retain(rec), UNCHANGED retain
  PROVE  Records' = Recent!Newest(Append(Records, rec))
<1> DEFINE E == Record \cup {None}
<1>1. /\ retain \in Nat /\ head \in Nat /\ count \in 0 .. retain
      /\ ring \in [0 .. retain - 1 -> E]
      /\ retain > 0 => head < retain
      /\ count < retain => head = 0
      /\ rec \in E
  BY RecorderType
<1>2. /\ Records = Window(ring, head, count, retain)
      /\ Records' = Window(ring', head', count', retain)
  BY DEF Records, Window
<1> HIDE DEF E
<1>3. IsRing(E, ring, head, count, retain)
  BY <1>1 DEF IsRing
<1>4. Records \in Seq(E) /\ Len(Records) = count
  BY <1>2, <1>3, WindowAt DEF Reads
<1>5. /\ Append(Records, rec) \in Seq(E)
      /\ Len(Append(Records, rec)) = count + 1
  BY <1>1, <1>4, AppendProperties
<1>6. CASE retain = 0
  <2>1. Records' = Records /\ count = 0
    BY <1>1, <1>2, <1>6, RetainIs
  <2>2. Records = << >>
    BY <1>4, <2>1, EmptySeq
  <2>3. Tail(<<rec>>) = << >> /\ Append(<< >>, rec) = <<rec>>
    OBVIOUS
  <2> QED
    BY <1>5, <1>6, <2>1, <2>2, <2>3 DEF Recent!Newest
<1>7. CASE retain > 0 /\ count < retain
  <2>1. /\ ring' = Store(ring, count, rec)
        /\ head = 0 /\ head' = head /\ count' = count + 1
    BY <1>1, <1>7, RetainIs DEF Store
  <2>2. Window(Store(ring, count, rec), head, count + 1, retain)
          = Append(Window(ring, head, count, retain), rec)
    BY ONLY <1>1, <1>3, <1>7, <2>1, WindowGrows
  <2>3. Records' = Append(Records, rec)
    BY <1>2, <2>1, <2>2
  <2> QED
    BY <1>1, <1>5, <1>7, <2>3 DEF Recent!Newest
<1>8. CASE retain > 0 /\ ~(count < retain)
  <2>1. count = retain /\ head < retain
    BY <1>1, <1>8
  <2>2. /\ ring' = Store(ring, head, rec)
        /\ head' = After(head, retain)
        /\ count' = count
    BY <1>1, <1>8, RetainIs DEF Store, After
  <2>3. IsRing(E, ring, head, retain, retain)
    BY <1>3, <2>1
  <2>4. Window(Store(ring, head, rec), After(head, retain), retain, retain)
          = Tail(Append(Window(ring, head, retain, retain), rec))
    BY ONLY <1>1, <2>1, <2>3, WindowSlides
  <2>5. Records' = Tail(Append(Records, rec))
    BY <1>2, <2>1, <2>2, <2>4
  <2> QED
    BY <1>1, <1>5, <2>1, <2>5 DEF Recent!Newest
<1> QED
  BY <1>1, <1>6, <1>7, <1>8

\* The recorder implements the bounded queue of the most recent records, for
\* every retention and every interleaving of the requests that emit to it.
THEOREM KeepsTheMostRecent == Spec => KeepsRecent
<1>1. Init => Recent!RecentInit
  <2> SUFFICES ASSUME Init PROVE Recent!RecentInit
    OBVIOUS
  <2>1. Inv
    BY InvInit
  <2>2. Records = [i \in 1 .. 0 |-> ring[(head + i - 1) % retain]]
    BY DEF Init, Records
  <2>3. Records = << >>
    BY <2>2
  <2> QED
    BY <2>1, <2>3 DEF Recent!RecentInit, Inv, TypeOK
<1>2. Inv /\ [Next]_vars => [Recent!RecentNext]_<<retain, Records>>
  <2> SUFFICES ASSUME Inv, [Next]_vars
               PROVE  [Recent!RecentNext]_<<retain, Records>>
    OBVIOUS
  <2>1. ASSUME NEW r \in Requests, Emit(r) PROVE Recent!RecentNext
    <3>1. pending[r] \in Record
      BY <2>1 DEF Emit, At, Inv
    <3>2. Recent!Add(pending[r])
      BY <2>1, <3>1, RetainAdds DEF Emit, Recent!Add
    <3> QED
      BY <3>1, <3>2 DEF Recent!RecentNext
  <2>2. CASE UNCHANGED recorder
    BY <2>2 DEF recorder, Records
  <2> QED
    BY <2>1, <2>2
       DEF Next, vars, Tick, Arrive, SetField, ReadClock, WriteHeader, Write,
           Return, Finish
<1> QED
  BY <1>1, <1>2, InvAlways, PTL DEF Spec, KeepsRecent, Recent!RecentSpec

-----------------------------------------------------------------------------
(* What a line says of its request.                                        *)

\* A request has no line before its record reaches emit, and never one if it
\* reached no target.
Unlogged(r) ==
  \/ pc[r] \in {"idle", "handling", "emit"}
  \/ pc[r] = "answered" /\ target[r] = None
  =>
    \A i \in DOMAIN lines : lines[i].request # r

\* A record is the one of its request's target, status and fields.
Describes(rec, r) ==
  /\ rec.request = r
  /\ rec.target = target[r]
  /\ rec.status = status[r]
  /\ rec.fields = fields[r]
  /\ minted[r] # None => minted[r] <= rec.time

\* From emit on there is one line, which nothing that is left to do changes.
Logged(r) ==
  pc[r] = "finish" \/ (pc[r] = "answered" /\ target[r] # None) =>
    \E i \in DOMAIN lines :
      /\ \A j \in DOMAIN lines : lines[j].request = r <=> j = i
      /\ Describes(lines[i], r)

\* statusWriter and net/http agree on the status as soon as there is one, unless
\* the first that was set was not final.
Agreed(r) ==
  /\ wrote[r] /\ ~Informational(status[r]) => sent[r] = status[r]
  /\ ~wrote[r] => status[r] = 200
  /\ ~wrote[r] /\ pc[r] # "answered" => sent[r] = None
  /\ pc[r] = "answered" /\ target[r] # None /\ ~Informational(status[r]) =>
       sent[r] = status[r]

\* A record waiting for emit already describes its request, whose handler
\* has read no later time than the clock shows.
Ready(r) ==
  /\ pc[r] = "emit" => Describes(pending[r], r)
  /\ minted[r] # None => minted[r] <= now

LogInv ==
  \A r \in Requests : Unlogged(r) /\ Logged(r) /\ Agreed(r) /\ Ready(r)

LEMMA LogInvInit == Init => LogInv
<1> SUFFICES ASSUME Init, NEW r \in Requests
             PROVE  Unlogged(r) /\ Logged(r) /\ Agreed(r) /\ Ready(r)
  BY DEF LogInv
<1>1. DOMAIN lines = {}
  BY DEF Init
<1> QED
  BY <1>1 DEF Init, Unlogged, Logged, Agreed, Ready

\* A request none of whose variables a step changes, and of which it adds no
\* line, is described as before.
LEMMA Bystander ==
  ASSUME Inv, LogInv, NEW q \in Requests, UNCHANGED lines,
         pc'[q] = pc[q], target'[q] = target[q], fields'[q] = fields[q],
         status'[q] = status[q], wrote'[q] = wrote[q], sent'[q] = sent[q],
         minted'[q] = minted[q], pending'[q] = pending[q], now <= now',
         now' \in Int
  PROVE  Unlogged(q)' /\ Logged(q)' /\ Agreed(q)' /\ Ready(q)'
<1>1. Unlogged(q) /\ Logged(q) /\ Agreed(q) /\ Ready(q)
  BY DEF LogInv
<1>2. Unlogged(q)' /\ Agreed(q)'
  BY <1>1 DEF Unlogged, Agreed
<1>3. Logged(q)'
  BY <1>1 DEF Logged, Describes
<1>4. Ready(q)'
  <2>1. now \in Int /\ (minted[q] \in Int \/ minted[q] = None)
    BY LogAssumption DEF Inv, TypeOK
  <2> QED
    BY <1>1, <2>1 DEF Ready, Describes
<1> QED
  BY <1>2, <1>3, <1>4

\* What a handler does, and the return into the middleware, concerns its own
\* request only.
LEMMA HandlerKeepsLog ==
  ASSUME Inv, LogInv, NEW r \in Requests,
         \/ Arrive(r) \/ SetField(r) \/ ReadClock(r) \/ WriteHeader(r)
         \/ Write(r) \/ Return(r) \/ Finish(r)
  PROVE  LogInv'
<1> USE DEF At, Goto
<1>1. /\ Unlogged(r) /\ Logged(r) /\ Agreed(r) /\ Ready(r)
      /\ TargetOK(r) /\ TypeOK
      /\ now \in Int /\ (minted[r] \in Int \/ minted[r] = None)
      /\ None \notin Statuses /\ None # 200 /\ None \notin Targets
  BY LogAssumption DEF LogInv, Inv, TypeOK
<1>2. UNCHANGED lines /\ UNCHANGED now
  BY DEF Arrive, SetField, ReadClock, WriteHeader, Write, Return, Finish
<1>3. ASSUME NEW q \in Requests, q # r
      PROVE  Unlogged(q)' /\ Logged(q)' /\ Agreed(q)' /\ Ready(q)'
  <2>1. /\ pc'[q] = pc[q] /\ target'[q] = target[q] /\ fields'[q] = fields[q]
        /\ status'[q] = status[q] /\ wrote'[q] = wrote[q]
        /\ sent'[q] = sent[q] /\ minted'[q] = minted[q]
        /\ pending'[q] = pending[q]
    BY <1>1, <1>3
       DEF Arrive, SetField, ReadClock, WriteHeader, Write, Return, Finish,
           Commit, TypeOK
  <2>2. now <= now' /\ now' \in Int
    BY <1>1, <1>2
  <2> QED
    BY <1>2, <2>1, <2>2, Bystander
<1>4. Unlogged(r)' /\ Logged(r)' /\ Agreed(r)' /\ Ready(r)'
  <2>1. CASE Arrive(r)
    BY <1>1, <2>1
       DEF Arrive, TypeOK, Unlogged, Logged, Agreed, Ready, Describes
  <2>2. CASE SetField(r)
    BY <1>1, <2>2
       DEF SetField, TypeOK, Unlogged, Logged, Agreed, Ready, Describes
  <2>3. CASE ReadClock(r)
    BY <1>1, <2>3
       DEF ReadClock, TypeOK, Unlogged, Logged, Agreed, Ready, Describes
  <2>4. CASE WriteHeader(r)
    BY <1>1, <2>4
       DEF WriteHeader, Commit, TypeOK, Unlogged, Logged, Agreed, Ready,
           Describes
  <2>5. CASE Write(r)
    BY <1>1, <2>5
       DEF Write, Commit, Informational, TypeOK, Unlogged, Logged, Agreed, Ready, Describes
  <2>6. CASE Return(r)
    BY <1>1, <2>6
       DEF Return, TypeOK, Unlogged, Logged, Agreed, Ready, Describes
  <2>7. CASE Finish(r)
    <3>1. /\ pc[r] = "finish" /\ pc'[r] = "answered" /\ target[r] # None
          /\ sent'[r] = IF sent[r] = None THEN 200 ELSE sent[r]
          /\ UNCHANGED <<target, fields, status, wrote, minted, now>>
      BY <1>1, <2>7 DEF Finish, Commit, Informational, TypeOK, TargetOK
    <3>2. status[r] # None /\ ~Informational(200)
      BY <1>1 DEF TypeOK, Informational
    <3>3. Unlogged(r)' /\ Agreed(r)' /\ Ready(r)'
      BY <1>1, <3>1, <3>2 DEF Unlogged, Agreed, Ready
    <3>4. Logged(r)'
      BY <1>1, <1>2, <3>1 DEF Logged, Describes
    <3> QED
      BY <3>3, <3>4
  <2> QED
    BY <2>1, <2>2, <2>3, <2>4, <2>5, <2>6, <2>7
<1> QED
  BY <1>3, <1>4 DEF LogInv

\* emit adds the one line of its request, and no other request's.
LEMMA EmitKeepsLog ==
  ASSUME Inv, LogInv, NEW r \in Requests, Emit(r)
  PROVE  LogInv'
<1> USE DEF At, Goto
<1>1. PICK n \in Nat : n = Len(lines)
  BY LenProperties DEF Inv, TypeOK
<1>2. /\ TypeOK /\ pc[r] = "emit" /\ pending[r] \in Record
      /\ now \in Int /\ (minted[r] \in Int \/ minted[r] = None)
      /\ Unlogged(r) /\ Agreed(r) /\ Ready(r)
  BY LogAssumption DEF Emit, Inv, LogInv, TypeOK
<1>3. /\ DOMAIN lines = 1 .. n /\ DOMAIN lines' = 1 .. n + 1
      /\ \A i \in 1 .. n : lines'[i] = lines[i]
      /\ lines'[n + 1] = pending[r]
  BY <1>1, <1>2, AppendProperties, LenProperties DEF Emit, TypeOK
<1>4. /\ \A q \in Requests : q # r => pc'[q] = pc[q] /\ pending'[q] = pending[q]
      /\ pc'[r] = "finish"
      /\ UNCHANGED <<target, fields, status, wrote, sent, minted, now>>
  BY <1>2 DEF Emit, TypeOK
<1>5. pending[r].request = r /\ Describes(pending[r], r)
  BY <1>2 DEF Ready, Describes
<1>6. ASSUME NEW q \in Requests, q # r
      PROVE  Unlogged(q)' /\ Logged(q)' /\ Agreed(q)' /\ Ready(q)'
  <2>1. Unlogged(q) /\ Logged(q) /\ Agreed(q) /\ Ready(q)
    BY DEF LogInv
  <2>2. Unlogged(q)' /\ Agreed(q)' /\ Ready(q)'
    BY <1>3, <1>4, <1>5, <1>6, <2>1
       DEF Unlogged, Agreed, Ready, Describes
  <2>3. Logged(q)'
    <3> SUFFICES ASSUME pc[q] = "finish" \/ (pc[q] = "answered" /\ target[q] # None)
                 PROVE  \E i \in DOMAIN lines' :
                          /\ \A j \in DOMAIN lines' : lines'[j].request = q <=> j = i
                          /\ Describes(lines[i], q)'
      BY <1>4, <1>6 DEF Logged
    <3>1. PICK i \in DOMAIN lines :
            /\ \A j \in DOMAIN lines : lines[j].request = q <=> j = i
            /\ Describes(lines[i], q)
      BY <2>1 DEF Logged
    <3>2. i \in 1 .. n /\ lines'[i] = lines[i]
      BY <1>3, <3>1
    <3>3. \A j \in DOMAIN lines' : lines'[j].request = q <=> j = i
      BY <1>3, <1>5, <1>6, <3>1, <3>2
    <3>4. Describes(lines[i], q)'
      BY <1>4, <3>1, <3>2 DEF Describes
    <3> QED
      BY <1>3, <3>2, <3>3, <3>4
  <2> QED
    BY <2>2, <2>3
<1>7. Unlogged(r)' /\ Agreed(r)' /\ Ready(r)'
  BY <1>2, <1>4 DEF Unlogged, Agreed, Ready
<1>8. Logged(r)'
  <2>1. n + 1 \in DOMAIN lines'
    BY <1>3
  <2>2. \A j \in DOMAIN lines' : lines'[j].request = r <=> j = n + 1
    BY <1>2, <1>3, <1>5 DEF Unlogged
  <2>3. Describes(lines[n + 1], r)'
    BY <1>3, <1>4, <1>5 DEF Describes
  <2> QED
    BY <2>1, <2>2, <2>3 DEF Logged
<1> QED
  BY <1>6, <1>7, <1>8 DEF LogInv

LEMMA LogInvStep == Inv /\ LogInv /\ [Next]_vars => LogInv'
<1> SUFFICES ASSUME Inv, LogInv, [Next]_vars PROVE LogInv'
  OBVIOUS
<1>1. CASE Tick \/ UNCHANGED vars
  <2>1. UNCHANGED <<lines, pc, target, fields, status, wrote, sent, minted,
                    pending>>
    BY <1>1 DEF Tick, vars, request
  <2>2. now <= now' /\ now' \in Int
    BY <1>1, LogAssumption DEF Tick, vars, Inv, TypeOK
  <2> QED
    BY <2>1, <2>2, Bystander DEF LogInv
<1>2. ASSUME NEW r \in Requests, Emit(r) PROVE LogInv'
  BY <1>2, EmitKeepsLog
<1> QED
  BY <1>1, <1>2, HandlerKeepsLog DEF Next

LEMMA LogInvAlways == Spec => [](Inv /\ LogInv)
  BY InvInit, InvStep, LogInvInit, LogInvStep, PTL DEF Spec

\* A client that has its response finds exactly one line of it in the log, with
\* the status it got unless the line has an informational one, however its
\* handler wrote the response and whatever the requests beside it did
\* (Middleware, statusWriter, emit).
THEOREM AnswersAreLogged == Spec => []AnsweredIsLogged
<1>1. LogInv => AnsweredIsLogged
  BY DEF LogInv, Logged, Agreed, Describes, AnsweredIsLogged, At
<1> QED
  BY <1>1, LogInvAlways, PTL

\* No line is stamped before what its request was answered with, for every
\* clock that does not go back (Middleware's reading of the clock).
THEOREM LinesFollowMinting == Spec => []StampedAfterMinting
<1>1. Inv /\ LogInv => StampedAfterMinting
  <2> SUFFICES ASSUME Inv, LogInv, NEW i \in DOMAIN lines,
                      minted[lines[i].request] # None
               PROVE  minted[lines[i].request] <= lines[i].time
    BY DEF StampedAfterMinting
  <2>1. lines[i] \in Record
    BY ElementOfSeq, LenProperties DEF Inv, TypeOK
  <2>2. PICK r \in Requests : r = lines[i].request
    BY <2>1 DEF Record
  <2>3. Unlogged(r) /\ Logged(r)
    BY DEF LogInv
  <2> QED
    BY <2>1, <2>2, <2>3 DEF Inv, TypeOK, Unlogged, Logged, Describes
<1> QED
  BY <1>1, LogInvAlways, PTL
=============================================================================
