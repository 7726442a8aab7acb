--------------------------- MODULE CommandProofs ---------------------------
(***************************************************************************)
(* What Command's runs show on one instance, for every set of invocations, *)
(* hosts and connections.  All of it follows from one inductive invariant, *)
(* IInv, whose parts say where the three goroutines can be together.       *)
(***************************************************************************)
EXTENDS Command, TLAPS

BeforeGo == {"run", "listen", "ready", "go"}
Draining == {"close", "wait", "poll", "tick", "receive"}

\* No connection is beyond the backlog, so no handler has anything to do.
Quiet == \A c \in AllConns : conn[c] \in {"none", "backlog", "closed"}

\* The socket, Serve's goroutine and the probe exist from their line of serve() on.
Phases ==
  /\ pc = "run" => addr = None
  /\ pc \in {"run", "listen"} => listener = "none"
  /\ pc \in {"ready", "go"} => listener = "open"
  /\ pc \in BeforeGo => serving = "none"
  /\ listener = "none" => serving = "none" /\ probe = "off" /\ probed = <<>> /\ Quiet
  /\ Returned <=> result # None

\* Only a signal leads into Shutdown.
Signalled ==
  /\ inShutdown \/ deadline \/ pc \in Draining \cup {"shutdown"} => signalled
  /\ pc \in BeforeGo \cup {"select", "shutdown"} => ~inShutdown
  /\ pc \in Draining => inShutdown

\* What Serve's goroutine holds and has said at each of its lines, and why the
\* socket is closed when it is.
Served ==
  /\ serving \in {"none", "track", "accept"} <=> serveErr = None
  /\ serveErr = "closed" => inShutdown
  /\ errCh # None => serving = "done" /\ errCh = SentError(serveErr)
  /\ tracked <=> serving \in {"accept", "untrack"}
  /\ serving \in {"send", "done"} => listener = "closed"
  /\ listener = "closed" => inShutdown \/ serveErr = "accept"

\* Once Shutdown has waited for the listeners nothing is accepted, and once it
\* has found nothing busy nothing becomes busy again.
Drained ==
  /\ pc \in {"poll", "tick", "receive"} => ~tracked
  /\ pc = "receive" => Quiet
  /\ Returned /\ result \in {"nil", "serve"} => serving \in {"none", "done"}
  /\ Returned /\ result = "nil" => Quiet
  /\ Returned /\ result \in Refusals => listener = "none"

IInv ==
  /\ TypeOK /\ Phases /\ Signalled /\ Served /\ Drained
  /\ ResultIsEarned /\ PortIsFreed /\ ExposedOnlyWhenAsked /\ ProbeFindsListener

-----------------------------------------------------------------------------
(* run() *)

LEMMA MaxRequestsIsNat == MaxRequests \in Nat
  BY CommandAssumption

LEMMA NoneIsNoString == None \notin Errors \cup {"nil", "closed", "accept"}
  BY CommandAssumption

\* The two halves of TypeOK.
Flags ==
  /\ signalled \in BOOLEAN /\ warned \in BOOLEAN /\ tracked \in BOOLEAN
  /\ inShutdown \in BOOLEAN /\ deadline \in BOOLEAN

Places ==
  /\ invocation \in Invocations
  /\ pc \in {"run", "listen", "ready", "go", "select", "shutdown", "close", "wait",
             "poll", "tick", "receive", "return", "exited"}
  /\ result \in Errors \cup {"nil", None}
  /\ addr \in Addr \cup {None}
  /\ listener \in {"none", "open", "closed"}
  /\ serving \in {"none", "track", "accept", "untrack", "close", "send", "done"}
  /\ serveErr \in {"closed", "accept", None}
  /\ errCh \in {"nil", "serve", None}
  /\ conn \in [AllConns -> {"none", "backlog", "new", "active", "idle", "closed"}]
  /\ requests \in [AllConns -> 0 .. MaxRequests]
  /\ probe \in {"off", "next", "dial", "asking", "elsewhere", "done"}
  /\ probed \in Seq({"skipped", "unusable", "answered", "refused", "failed"})

LEMMA TypeHalves == TypeOK <=> Flags /\ Places
  BY Zenon DEF TypeOK, Flags, Places

LEMMA InitIInv == Init => IInv
<1> SUFFICES ASSUME Init PROVE IInv
  OBVIOUS
<1>0. 0 \in 0 .. MaxRequests
  BY MaxRequestsIsNat
<1>1. TypeOK
  <2>1. Flags
    BY DEF Flags, Init
  <2>2. Places
    BY <1>0 DEF Places, Init
  <2> QED
    BY <2>1, <2>2, TypeHalves
<1>2. Phases
  BY DEF Init, Phases, Quiet, Returned, BeforeGo, AllConns
<1>3. Signalled
  BY DEF Init, Signalled, BeforeGo, Draining
<1>4. Served
  BY NoneIsNoString DEF Init, Served
<1>5. Drained
  BY DEF Init, Drained, Returned
<1>6. ResultIsEarned /\ PortIsFreed /\ ExposedOnlyWhenAsked /\ ProbeFindsListener
  BY DEF Init, ResultIsEarned, PortIsFreed, ExposedOnlyWhenAsked, ProbeFindsListener, Returned
<1> QED
  BY <1>1, <1>2, <1>3, <1>4, <1>5, <1>6 DEF IInv

-----------------------------------------------------------------------------
(* The steps, one part of the invariant at a time.                         *)

\* resolveListenAddr, for a listen address it does not refuse.
LEMMA Resolved ==
  ASSUME invocation \in Invocations, Refusal(invocation) = None
  PROVE  LET r == ResolveListenAddr(invocation.listen, invocation.allowExternal)
         IN /\ r.addr \in Addr /\ r.warn \in BOOLEAN
            /\ r.addr.host \notin LoopbackIPs \cup {"localhost"}
                 => invocation.allowExternal /\ r.addr = invocation.listen /\ r.warn
            /\ invocation.listen # Unset
                 => /\ r.addr.port = invocation.listen.port
                    /\ r.addr # invocation.listen => r.warn
<1>1. /\ invocation.listen \in Addr \cup {Unset}
      /\ invocation.allowExternal \in BOOLEAN
  <2>1. invocation \in Invocation
    BY CommandAssumption
  <2>2. invocation.listen # Malformed
    BY NoneIsNoString DEF Refusal, Errors
  <2> QED
    BY <2>1, <2>2 DEF Invocation
<1>2. /\ "127.0.0.1" \in LoopbackIPs \cap Hosts /\ DefaultPort \in Ports
      /\ Unset \notin Addr
  BY CommandAssumption
<1>3. CASE invocation.listen = Unset
  BY <1>2, <1>3 DEF ResolveListenAddr, Addr
<1>4. CASE invocation.listen \in Addr
  BY <1>1, <1>2, <1>4 DEF ResolveListenAddr, Addr, IsLoopbackHost
<1> QED
  BY <1>1, <1>3, <1>4

\* The two halves of the type invariant.
LEMMA FlagsStep ==
  ASSUME Flags, Places, [Next]_vars
  PROVE  Flags'
<1> USE DEF vars, input, shutdownVars, serveVars, connVars, probeVars, runVars, OnlyMain,
           Goto, Return, Returned,
           Flags
<1>1. CASE Signal \/ DeadlinePasses
  BY <1>1 DEF Signal, DeadlinePasses
<1>2. CASE Refuse \/ Listen \/ Ready \/ Go \/ SelectDone
  BY <1>2 DEF Refuse, Listen, Ready, Go, SelectDone
<1>3. CASE Start
  BY <1>3, Resolved DEF Start, Places
<1>4. CASE SelectErr \/ SetInShutdown \/ CloseListeners \/ WaitListeners \/ Poll \/ Tick \/
           ShutdownTimesOut \/ ReturnServeErr \/ Exit
  BY <1>4 DEF SelectErr, SetInShutdown, CloseListeners, CloseSocket, WaitListeners, Poll,
     Busy, Tick, ShutdownTimesOut, ReturnServeErr, Receive, Exit
<1>5. CASE Track \/ AcceptFails \/ Untrack \/ CloseOwn \/ Send
  BY <1>5 DEF Track, AcceptFails, Untrack, CloseOwn, CloseSocket, Send, SentError
<1>6. CASE \E c \in AllConns : Accept(c) \/ Connect(c) \/ ReadRequest(c) \/ Answer(c) \/ Drop(c)
  BY <1>6 DEF Accept, Connect, ReadRequest, Answer, Drop
<1>7. CASE ProbeNext \/ ProbeDial \/ ProbeAnswered \/ ProbeFails
  BY <1>7 DEF ProbeNext, Found, ProbeDial, ProbeAnswered, ProbeFails, ProbeGivesUp
<1>8. CASE UNCHANGED vars
  BY <1>8
<1> QED
  BY <1>1, <1>2, <1>3, <1>4, <1>5, <1>6, <1>7, <1>8 DEF Next, Main, Serve, Traffic,
     Probe, AcceptClosed

LEMMA PlacesStep ==
  ASSUME Places, [Next]_vars
  PROVE  Places'
<1> USE DEF vars, input, shutdownVars, serveVars, connVars, probeVars, runVars, OnlyMain,
           Goto, Return, Returned,
           Places
<1>1. CASE Signal \/ DeadlinePasses
  BY <1>1 DEF Signal, DeadlinePasses
<1>2. CASE Ready \/ Go \/ SelectDone
  BY <1>2 DEF Ready, Go, SelectDone
<1>3. CASE Refuse
  BY <1>3 DEF Refuse, Refusal, Errors
<1>4. CASE Start
  BY <1>4, Resolved DEF Start
<1>5. CASE Listen
  BY <1>5 DEF Listen, Errors
<1>6. CASE SetInShutdown \/ CloseListeners \/ WaitListeners \/ Poll \/ Tick \/ Exit
  BY <1>6 DEF SetInShutdown, CloseListeners, CloseSocket, WaitListeners, Poll, Busy, Tick,
     Exit
<1>7. CASE SelectErr
  BY <1>7 DEF SelectErr, Errors
<1>8. CASE ShutdownTimesOut
  BY <1>8 DEF ShutdownTimesOut, Errors
<1>9. CASE ReturnServeErr
  BY <1>9 DEF ReturnServeErr, Receive, Errors
<1>10. CASE Track \/ AcceptFails \/ Untrack \/ CloseOwn \/ Send
  BY <1>10 DEF Track, AcceptFails, Untrack, CloseOwn, CloseSocket, Send, SentError
<1>11. CASE \E c \in AllConns : Accept(c) \/ Connect(c) \/ Answer(c) \/ Drop(c)
  BY <1>11 DEF Accept, Connect, Answer, Drop
<1>12. CASE \E c \in AllConns : ReadRequest(c)
  BY <1>12, MaxRequestsIsNat DEF ReadRequest
<1>13. CASE ProbeAnswered
  BY <1>13 DEF ProbeAnswered, Found
<1>14. CASE ProbeNext
  <2>1. probed' \in Seq({"skipped", "unusable", "answered", "refused", "failed"})
    BY <1>14 DEF ProbeNext, Found
  <2>2. probe' \in {"off", "next", "dial", "asking", "elsewhere", "done"}
    BY <1>14 DEF ProbeNext, Found
  <2> QED
    BY <1>14, <2>1, <2>2 DEF ProbeNext
<1>15. CASE ProbeDial
  BY <1>15 DEF ProbeDial, Found, AllConns
<1>16. CASE ProbeFails
  BY <1>16 DEF ProbeFails, Found, ProbeGivesUp, AllConns
<1>17. CASE UNCHANGED vars
  BY <1>17
<1> QED
  BY <1>1, <1>2, <1>3, <1>4, <1>5, <1>6, <1>7, <1>8, <1>9, <1>10, <1>11, <1>12, <1>13,
     <1>14, <1>15, <1>16, <1>17 DEF Next, Main, Serve, Traffic, Probe, AcceptClosed

\* What the signal has to do with the server being shut down.
LEMMA SignalledStep ==
  ASSUME Signalled, [Next]_vars
  PROVE  Signalled'
<1> USE DEF vars, input, shutdownVars, serveVars, connVars, probeVars, runVars, OnlyMain,
           Goto, Return, Returned,
           Signalled, BeforeGo, Draining
<1>1. CASE Signal \/ DeadlinePasses
  BY <1>1 DEF Signal, DeadlinePasses
<1>2. CASE Listen \/ Ready \/ Go
  BY <1>2 DEF Listen, Ready, Go
<1>3. CASE Refuse
  BY <1>3 DEF Refuse
<1>4. CASE Start
  BY <1>4 DEF Start
<1>5. CASE SelectDone
  BY <1>5 DEF SelectDone
<1>6. CASE SelectErr \/ SetInShutdown \/ CloseListeners \/ WaitListeners \/ Poll \/ Tick \/
           ShutdownTimesOut \/ ReturnServeErr \/ Exit
  BY <1>6 DEF SelectErr, SetInShutdown, CloseListeners, CloseSocket, WaitListeners, Poll,
     Busy, Tick, ShutdownTimesOut, ReturnServeErr, Receive, Exit
<1>7. CASE Track \/ AcceptFails \/ Untrack \/ CloseOwn \/ Send
  BY <1>7 DEF Track, AcceptFails, Untrack, CloseOwn, CloseSocket, Send, SentError
<1>8. CASE \E c \in AllConns : Accept(c) \/ Connect(c) \/ ReadRequest(c) \/ Answer(c) \/ Drop(c)
  BY <1>8 DEF Accept, Connect, ReadRequest, Answer, Drop
<1>9. CASE ProbeNext \/ ProbeDial \/ ProbeAnswered \/ ProbeFails
  BY <1>9 DEF ProbeNext, Found, ProbeDial, ProbeAnswered, ProbeFails, ProbeGivesUp
<1>10. CASE UNCHANGED vars
  BY <1>10
<1> QED
  BY <1>1, <1>2, <1>3, <1>4, <1>5, <1>6, <1>7, <1>8, <1>9, <1>10 DEF Next, Main, Serve,
     Traffic, Probe, AcceptClosed

\* What exists before and after each line of run() and serve().
LEMMA PhasesStep ==
  ASSUME Places, Phases, [Next]_vars
  PROVE  Phases'
<1> USE DEF vars, input, shutdownVars, serveVars, connVars, probeVars, runVars, OnlyMain,
           Goto, Return, Returned,
           Phases, Quiet, BeforeGo, Places
<1>1. CASE Signal \/ DeadlinePasses
  BY <1>1 DEF Signal, DeadlinePasses
<1>2. CASE Refuse \/ Start \/ Ready \/ Go \/ SelectDone
  BY <1>2 DEF Refuse, Start, Ready, Go, SelectDone
<1>3. CASE Listen
  BY <1>3, NoneIsNoString DEF Listen, Errors
<1>4. CASE SelectErr \/ SetInShutdown \/ CloseListeners \/ WaitListeners \/ Poll \/ Tick \/
           ReturnServeErr \/ Exit
  BY <1>4 DEF SelectErr, SetInShutdown, CloseListeners, CloseSocket, WaitListeners, Poll,
     Busy, Tick, ReturnServeErr, Receive, Exit
<1>5. CASE ShutdownTimesOut
  BY <1>5, NoneIsNoString DEF ShutdownTimesOut, Errors
<1>6. CASE Track \/ AcceptFails \/ Untrack \/ CloseOwn \/ Send
  BY <1>6 DEF Track, AcceptFails, Untrack, CloseOwn, CloseSocket, Send, SentError
<1>7. CASE \E c \in AllConns : Accept(c) \/ Connect(c) \/ ReadRequest(c) \/ Answer(c) \/ Drop(c)
  BY <1>7 DEF Accept, Connect, ReadRequest, Answer, Drop
<1>8. CASE ProbeNext \/ ProbeDial \/ ProbeAnswered \/ ProbeFails
  BY <1>8 DEF ProbeNext, Found, ProbeDial, ProbeAnswered, ProbeFails, ProbeGivesUp
<1>9. CASE UNCHANGED vars
  BY <1>9
<1> QED
  BY <1>1, <1>2, <1>3, <1>4, <1>5, <1>6, <1>7, <1>8, <1>9 DEF Next, Main, Serve,
     Traffic, Probe, AcceptClosed

\* Serve's goroutine, from the lines of main it depends on.
LEMMA ServedStep ==
  ASSUME Places, Phases, Signalled, Served, [Next]_vars
  PROVE  Served'
<1> USE DEF vars, input, shutdownVars, serveVars, connVars, probeVars, runVars, OnlyMain,
           Goto, Return, Returned,
           Served, Phases, Signalled, BeforeGo, Draining
<1>1. CASE Signal \/ DeadlinePasses
  BY <1>1 DEF Signal, DeadlinePasses
<1>2. CASE Ready \/ Go \/ SelectDone
  BY <1>2 DEF Ready, Go, SelectDone
<1>3. CASE Refuse
  BY <1>3 DEF Refuse
<1>4. CASE Start
  BY <1>4 DEF Start
<1>5. CASE Listen
  BY <1>5 DEF Listen
<1>6. CASE SelectErr \/ SetInShutdown \/ CloseListeners \/ WaitListeners \/ Poll \/ Tick \/
           ShutdownTimesOut \/ ReturnServeErr \/ Exit
  BY <1>6 DEF SelectErr, SetInShutdown, CloseListeners, CloseSocket, WaitListeners, Poll,
     Busy, Tick, ShutdownTimesOut, ReturnServeErr, Receive, Exit
<1>7. CASE Untrack \/ Send
  BY <1>7 DEF Untrack, Send, SentError
<1>8. CASE Track
  BY <1>8, NoneIsNoString DEF Track
<1>9. CASE AcceptFails
  BY <1>9, NoneIsNoString DEF AcceptFails
<1>10. CASE CloseOwn
  BY <1>10, NoneIsNoString DEF CloseOwn, CloseSocket, Places
<1>11. CASE \E c \in AllConns : Accept(c) \/ Connect(c) \/ ReadRequest(c) \/ Answer(c) \/ Drop(c)
  BY <1>11 DEF Accept, Connect, ReadRequest, Answer, Drop
<1>12. CASE ProbeNext \/ ProbeDial \/ ProbeAnswered \/ ProbeFails
  BY <1>12 DEF ProbeNext, Found, ProbeDial, ProbeAnswered, ProbeFails, ProbeGivesUp
<1>13. CASE UNCHANGED vars
  BY <1>13
<1> QED
  BY <1>1, <1>2, <1>3, <1>4, <1>5, <1>6, <1>7, <1>8, <1>9, <1>10, <1>11, <1>12, <1>13
     DEF Next, Main, Serve, Traffic, Probe, AcceptClosed

\* Shutdown's two waits, for the listeners and for the connections.
LEMMA DrainedStep ==
  ASSUME Places, Phases, Signalled, Served, Drained, [Next]_vars
  PROVE  Drained'
<1> USE DEF vars, input, shutdownVars, serveVars, connVars, probeVars, runVars, OnlyMain,
           Goto, Return, Returned,
           Drained, Phases, Signalled, Served, Quiet, BeforeGo, Draining
<1>1. CASE Signal \/ DeadlinePasses
  BY <1>1 DEF Signal, DeadlinePasses
<1>2. CASE Refuse \/ Start \/ Listen \/ Ready \/ Go \/ SelectDone
  BY <1>2 DEF Refuse, Start, Listen, Ready, Go, SelectDone
<1>3. CASE SetInShutdown \/ CloseListeners \/ WaitListeners \/ Tick \/ Exit
  BY <1>3 DEF SetInShutdown, CloseListeners, CloseSocket, WaitListeners, Tick, Exit
<1>4. CASE SelectErr
  BY <1>4, NoneIsNoString DEF SelectErr, SentError, Refusals, Places
<1>5. CASE Poll
  BY <1>5 DEF Poll, Busy, Places
<1>6. CASE ShutdownTimesOut
  BY <1>6 DEF ShutdownTimesOut, Refusals
<1>7. CASE ReturnServeErr
  BY <1>7, NoneIsNoString DEF ReturnServeErr, Receive, Refusals, Places
<1>8. CASE Track \/ AcceptFails \/ Untrack \/ CloseOwn \/ Send
  BY <1>8 DEF Track, AcceptFails, Untrack, CloseOwn, CloseSocket, Send, SentError
<1>9. CASE \E c \in AllConns : Accept(c)
  BY <1>9 DEF Accept
<1>10. CASE \E c \in AllConns : Connect(c)
  BY <1>10 DEF Connect
<1>11. CASE \E c \in AllConns : ReadRequest(c)
  BY <1>11 DEF ReadRequest
<1>12. CASE \E c \in AllConns : Answer(c)
  BY <1>12 DEF Answer
<1>13. CASE \E c \in AllConns : Drop(c)
  BY <1>13 DEF Drop
<1>14. CASE ProbeNext \/ ProbeAnswered
  BY <1>14 DEF ProbeNext, Found, ProbeAnswered
<1>15. CASE ProbeDial
  BY <1>15 DEF ProbeDial, Found, Places, AllConns
<1>16. CASE ProbeFails
  BY <1>16 DEF ProbeFails, Found, ProbeGivesUp
<1>17. CASE UNCHANGED vars
  BY <1>17
<1> QED
  BY <1>1, <1>2, <1>3, <1>4, <1>5, <1>6, <1>7, <1>8, <1>9, <1>10, <1>11, <1>12, <1>13,
     <1>14, <1>15, <1>16, <1>17 DEF Next, Main, Serve, Traffic, Probe, AcceptClosed

\* What serve() may return, from what its goroutine has seen.
LEMMA EarnedStep ==
  ASSUME Places, Phases, Signalled, Served, ResultIsEarned, [Next]_vars
  PROVE  ResultIsEarned'
<1> USE DEF vars, input, shutdownVars, serveVars, connVars, probeVars, runVars, OnlyMain,
           Goto, Return, Returned,
           ResultIsEarned, Phases, Signalled, Served, BeforeGo, Draining, Refusals
<1>1. CASE Signal \/ DeadlinePasses
  BY <1>1 DEF Signal, DeadlinePasses
<1>2. CASE Start \/ Listen \/ Ready \/ Go \/ SelectDone
  BY <1>2 DEF Start, Listen, Ready, Go, SelectDone
<1>3. CASE Refuse
  BY <1>3, NoneIsNoString DEF Refuse, Refusal, Errors
<1>4. CASE SetInShutdown \/ CloseListeners \/ WaitListeners \/ Poll \/ Tick \/
           ShutdownTimesOut \/ Exit
  BY <1>4 DEF SetInShutdown, CloseListeners, CloseSocket, WaitListeners, Poll, Busy, Tick,
     ShutdownTimesOut, Exit
<1>5. CASE SelectErr
  BY <1>5, NoneIsNoString DEF SelectErr, SentError, Places
<1>6. CASE ReturnServeErr
  BY <1>6, NoneIsNoString DEF ReturnServeErr, Receive, SentError, Places
<1>7. CASE Untrack \/ CloseOwn \/ Send
  BY <1>7 DEF Untrack, CloseOwn, CloseSocket, Send, SentError
<1>8. CASE Track
  BY <1>8, NoneIsNoString DEF Track
<1>9. CASE AcceptFails
  BY <1>9, NoneIsNoString DEF AcceptFails
<1>10. CASE \E c \in AllConns : Accept(c) \/ Connect(c) \/ ReadRequest(c) \/ Answer(c) \/ Drop(c)
  BY <1>10 DEF Accept, Connect, ReadRequest, Answer, Drop
<1>11. CASE ProbeNext \/ ProbeDial \/ ProbeAnswered \/ ProbeFails
  BY <1>11 DEF ProbeNext, Found, ProbeDial, ProbeAnswered, ProbeFails, ProbeGivesUp
<1>12. CASE UNCHANGED vars
  BY <1>12
<1> QED
  BY <1>1, <1>2, <1>3, <1>4, <1>5, <1>6, <1>7, <1>8, <1>9, <1>10, <1>11, <1>12 DEF Next,
     Main, Serve, Traffic, Probe, AcceptClosed

\* The socket, when serve() returns what Serve's goroutine has sent.
LEMMA PortStep ==
  ASSUME Places, Phases, Signalled, Served, Drained, PortIsFreed, [Next]_vars
  PROVE  PortIsFreed'
<1> USE DEF vars, input, shutdownVars, serveVars, connVars, probeVars, runVars, OnlyMain,
           Goto, Return, Returned,
           PortIsFreed, Phases, Served, Drained, BeforeGo
<1>1. CASE Signal \/ DeadlinePasses
  BY <1>1 DEF Signal, DeadlinePasses
<1>2. CASE Refuse \/ Start \/ Listen \/ Ready \/ Go \/ SelectDone
  BY <1>2 DEF Refuse, Start, Listen, Ready, Go, SelectDone
<1>3. CASE SelectErr \/ SetInShutdown \/ CloseListeners \/ WaitListeners \/ Poll \/ Tick \/
           ShutdownTimesOut \/ ReturnServeErr \/ Exit
  BY <1>3 DEF SelectErr, SetInShutdown, CloseListeners, CloseSocket, WaitListeners, Poll,
     Busy, Tick, ShutdownTimesOut, ReturnServeErr, Receive, Exit
<1>4. CASE Track \/ AcceptFails \/ Untrack \/ CloseOwn \/ Send
  BY <1>4 DEF Track, AcceptFails, Untrack, CloseOwn, CloseSocket, Send, SentError
<1>5. CASE \E c \in AllConns : Accept(c) \/ Connect(c) \/ ReadRequest(c) \/ Answer(c) \/ Drop(c)
  BY <1>5 DEF Accept, Connect, ReadRequest, Answer, Drop
<1>6. CASE ProbeNext \/ ProbeDial \/ ProbeAnswered \/ ProbeFails
  BY <1>6 DEF ProbeNext, Found, ProbeDial, ProbeAnswered, ProbeFails, ProbeGivesUp
<1>7. CASE UNCHANGED vars
  BY <1>7
<1> QED
  BY <1>1, <1>2, <1>3, <1>4, <1>5, <1>6, <1>7 DEF Next, Main, Serve, Traffic, Probe,
     AcceptClosed

\* Only Start decides on an address.
LEMMA ExposedStep ==
  ASSUME Places, Phases, ExposedOnlyWhenAsked, [Next]_vars
  PROVE  ExposedOnlyWhenAsked'
<1> USE DEF vars, input, shutdownVars, serveVars, connVars, probeVars, runVars, OnlyMain,
           Goto, Return, Returned,
           ExposedOnlyWhenAsked, Places, Phases
<1>1. CASE Signal \/ DeadlinePasses
  BY <1>1 DEF Signal, DeadlinePasses
<1>2. CASE Refuse \/ Listen \/ Ready \/ Go \/ SelectDone
  BY <1>2 DEF Refuse, Listen, Ready, Go, SelectDone
<1>3. CASE Start
  BY <1>3, Resolved DEF Start
<1>4. CASE SelectErr \/ SetInShutdown \/ CloseListeners \/ WaitListeners \/ Poll \/ Tick \/
           ShutdownTimesOut \/ ReturnServeErr \/ Exit
  BY <1>4 DEF SelectErr, SetInShutdown, CloseListeners, CloseSocket, WaitListeners, Poll,
     Busy, Tick, ShutdownTimesOut, ReturnServeErr, Receive, Exit
<1>5. CASE Track \/ AcceptFails \/ Untrack \/ CloseOwn \/ Send
  BY <1>5 DEF Track, AcceptFails, Untrack, CloseOwn, CloseSocket, Send, SentError
<1>6. CASE \E c \in AllConns : Accept(c) \/ Connect(c) \/ ReadRequest(c) \/ Answer(c) \/ Drop(c)
  BY <1>6 DEF Accept, Connect, ReadRequest, Answer, Drop
<1>7. CASE ProbeNext \/ ProbeDial \/ ProbeAnswered \/ ProbeFails
  BY <1>7 DEF ProbeNext, Found, ProbeDial, ProbeAnswered, ProbeFails, ProbeGivesUp
<1>8. CASE UNCHANGED vars
  BY <1>8
<1> QED
  BY <1>1, <1>2, <1>3, <1>4, <1>5, <1>6, <1>7, <1>8 DEF Next, Main, Serve, Traffic,
     Probe, AcceptClosed

\* The probe dials only after Listen, and finds no socket only after it was closed.
LEMMA ProbeStep ==
  ASSUME Places, Phases, Signalled, Served, ProbeFindsListener, [Next]_vars
  PROVE  ProbeFindsListener'
<1> USE DEF vars, input, shutdownVars, serveVars, connVars, probeVars, runVars, OnlyMain,
           Goto, Return, Returned,
           ProbeFindsListener, Places, Phases, Signalled, Served, BeforeGo
<1>1. CASE Signal \/ DeadlinePasses
  BY <1>1 DEF Signal, DeadlinePasses
<1>2. CASE Refuse \/ Start \/ Listen \/ Ready \/ Go \/ SelectDone
  BY <1>2 DEF Refuse, Start, Listen, Ready, Go, SelectDone
<1>3. CASE SelectErr \/ SetInShutdown \/ CloseListeners \/ WaitListeners \/ Poll \/ Tick \/
           ShutdownTimesOut \/ ReturnServeErr \/ Exit
  BY <1>3 DEF SelectErr, SetInShutdown, CloseListeners, CloseSocket, WaitListeners, Poll,
     Busy, Tick, ShutdownTimesOut, ReturnServeErr, Receive, Exit
<1>4. CASE Track \/ AcceptFails \/ Untrack \/ CloseOwn \/ Send
  BY <1>4 DEF Track, AcceptFails, Untrack, CloseOwn, CloseSocket, Send, SentError
<1>5. CASE \E c \in AllConns : Accept(c) \/ Connect(c) \/ ReadRequest(c) \/ Answer(c) \/ Drop(c)
  BY <1>5 DEF Accept, Connect, ReadRequest, Answer, Drop
<1>6. CASE ProbeAnswered
  BY <1>6 DEF ProbeAnswered, Found
<1>7. CASE ProbeNext
  <2>1. \/ probed' = probed
        \/ \E w \in {"skipped", "unusable"} : probed' = Append(probed, w)
    BY <1>7 DEF ProbeNext, Found
  <2>2. CASE probed' = probed
    BY <1>7, <2>2 DEF ProbeNext
  <2>3. CASE \E w \in {"skipped", "unusable"} : probed' = Append(probed, w)
    BY <1>7, <2>3 DEF ProbeNext
  <2> QED
    BY <2>1, <2>2, <2>3
<1>8. CASE ProbeDial
  BY <1>8 DEF ProbeDial, Found
<1>9. CASE ProbeFails
  BY <1>9 DEF ProbeFails, Found, ProbeGivesUp
<1>10. CASE UNCHANGED vars
  BY <1>10
<1> QED
  BY <1>1, <1>2, <1>3, <1>4, <1>5, <1>6, <1>7, <1>8, <1>9, <1>10 DEF Next, Main, Serve,
     Traffic, Probe, AcceptClosed

-----------------------------------------------------------------------------
(* The theorems.                                                           *)

LEMMA NextIInv == IInv /\ [Next]_vars => IInv'
<1> SUFFICES ASSUME IInv, [Next]_vars PROVE IInv'
  OBVIOUS
<1>1. /\ TypeOK /\ Phases /\ Signalled /\ Served /\ Drained
      /\ ResultIsEarned /\ PortIsFreed /\ ExposedOnlyWhenAsked /\ ProbeFindsListener
  BY DEF IInv
<1>2. Flags /\ Places
  BY <1>1, TypeHalves
<1>3. Flags' /\ Places'
  BY <1>2, FlagsStep, PlacesStep
<1>4. TypeOK'
  BY <1>3, Zenon DEF TypeOK, Flags, Places
<1>5. Phases' /\ Signalled' /\ Served'
  BY <1>1, <1>2, PhasesStep, SignalledStep, ServedStep
<1>6. Drained' /\ ResultIsEarned' /\ PortIsFreed'
  BY <1>1, <1>2, DrainedStep, EarnedStep, PortStep
<1>7. ExposedOnlyWhenAsked' /\ ProbeFindsListener'
  BY <1>1, <1>2, ExposedStep, ProbeStep
<1> QED
  BY <1>4, <1>5, <1>6, <1>7 DEF IInv

LEMMA Invariant == Spec => []IInv
  BY InitIInv, NextIInv, PTL DEF Spec

\* The type invariant, for any invocations, hosts and connections.
THEOREM TypeCorrect == Spec => []TypeOK
<1>1. IInv => TypeOK
  BY DEF IInv
<1> QED
  BY <1>1, Invariant, PTL

\* The exit status is what happened: of the signal, Serve's goroutine and the
\* deadline, the one that decided.
THEOREM ResultsAreEarned == Spec => []ResultIsEarned
<1>1. IInv => ResultIsEarned
  BY DEF IInv
<1> QED
  BY <1>1, Invariant, PTL

\* serve() returns with its socket closed, however early the signal was.
THEOREM PortsAreFreed == Spec => []PortIsFreed
<1>1. IInv => PortIsFreed
  BY DEF IInv
<1> QED
  BY <1>1, Invariant, PTL

\* Nothing is bound beyond loopback that was not asked for and warned about.
THEOREM ExposureIsAskedFor == Spec => []ExposedOnlyWhenAsked
<1>1. IInv => ExposedOnlyWhenAsked
  BY DEF IInv
<1> QED
  BY <1>1, Invariant, PTL

\* The probe of authside itself meets a listener while the server comes up or runs.
THEOREM ProbesFindTheListener == Spec => []ProbeFindsListener
<1>1. IInv => ProbeFindsListener
  BY DEF IInv
<1> QED
  BY <1>1, Invariant, PTL

\* A handler at work when the process exits was given its five seconds, or the
\* listener had failed; any other result leaves no connection beyond the backlog.
THEOREM InFlightRequestsAreDrained == Spec => []InFlightIsDrained
<1>1. IInv => InFlightIsDrained
  <2> SUFFICES ASSUME IInv, pc = "exited",
                      NEW c \in AllConns, conn[c] = "active"
               PROVE  (result = "shutdown" /\ deadline) \/ result = "serve"
    BY DEF InFlightIsDrained
  <2>1. Phases /\ Drained /\ ResultIsEarned /\ Places
    BY TypeHalves DEF IInv
  <2>2. result # None /\ Returned /\ ~Quiet
    BY <2>1 DEF Phases, Returned, Quiet
  <2>3. result \in Refusals \cup {"nil", "serve", "shutdown"}
    BY <2>1, <2>2 DEF Places, Errors, Refusals
  <2> QED
    BY <2>1, <2>2, <2>3 DEF Phases, Drained, ResultIsEarned
<1> QED
  BY <1>1, Invariant, PTL

=============================================================================
