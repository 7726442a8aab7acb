------------------------------ MODULE Command ------------------------------
(***************************************************************************)
(* cmd/authside: the process, from its arguments to its exit status.       *)
(* run() decides what to bind and builds the handler; serve() listens,     *)
(* lets --probe start, runs http.Server.Serve in a goroutine and waits     *)
(* for a signal or for that goroutine.  net/http's part of it, what Serve  *)
(* and Shutdown do to the listener and to connections, is external: it is  *)
(* modelled as far as serve() relies on it.  A connection is one of a      *)
(* client's, or the one the probe opens to authside itself.                *)
(***************************************************************************)
EXTENDS Integers, Sequences

CONSTANTS
  Invocations,    \* the arguments and configurations of this instance
  Hosts,          \* what SplitHostPort may find before the port
  LoopbackIPs,    \* the IP literals among them that IsLoopback
  Ports, DefaultPort,
  Conns,          \* the connections clients open
  Self,           \* the probe's connection to authside itself
  MaxRequests,    \* bound: requests read from one connection
  Unset,          \* Go's "" for the listen address
  Malformed,      \* a listen address SplitHostPort refuses
  None

Errors == {"usage", "config", "address", "handler", "listen", "serve", "shutdown"}
Addr == [host : Hosts, port : Ports]

\* What run() finds: flaw is the first thing wrong with flags, configuration or
\* handler; targets are the advertise.internal bases the probe meets, in order.
Invocation ==
  [flaw : {"flags", "config", "handler", None}, version : BOOLEAN,
   listen : Addr \cup {Unset, Malformed}, allowExternal : BOOLEAN,
   probe : BOOLEAN, targets : Seq({"unset", "unusable", "self", "elsewhere"})]

ASSUME CommandAssumption ==
  /\ Invocations \subseteq Invocation
  /\ {"", "0.0.0.0", "::", "localhost", "127.0.0.1"} \subseteq Hosts
  /\ LoopbackIPs \subseteq Hosts
  /\ "127.0.0.1" \in LoopbackIPs
  /\ {"", "0.0.0.0", "::"} \cap LoopbackIPs = {}
  /\ DefaultPort \in Ports
  /\ Self \notin Conns
  /\ MaxRequests \in Nat
  /\ \A i \in Invocations :   \* bound: one connection for the probe
       \A m, n \in DOMAIN i.targets :
         i.targets[m] = "self" /\ i.targets[n] = "self" => m = n
  /\ None \notin Addr \cup {Unset, Malformed} \cup Errors \cup {"nil", "closed", "accept"}
  /\ Unset # Malformed /\ {Unset, Malformed} \cap Addr = {}

VARIABLES
  invocation,
  signalled,   \* the context of signal.NotifyContext is done
  pc,          \* where run() and serve() are
  result,      \* what they return: "nil" or the error's origin
  addr,        \* the address serve() is given
  warned,      \* resolveListenAddr's warning was logged
  listener,    \* the socket
  serving,     \* where the goroutine of server.Serve is
  serveErr,    \* what server.Serve returned
  errCh,       \* the channel of one error
  tracked,     \* the server's set of listeners has ours
  inShutdown,  \* Server.inShutdown
  deadline,    \* shutdownCtx is done
  conn,        \* the state of each connection
  requests,    \* how many requests were read from it
  probe,       \* where the probe goroutine is
  probed       \* its findings so far

vars == <<invocation, signalled, pc, result, addr, warned, listener, serving,
          serveErr, errCh, tracked, inShutdown, deadline, conn, requests, probe, probed>>
input == <<invocation, signalled>>
shutdownVars == <<inShutdown, deadline>>
serveVars == <<serving, serveErr, errCh, tracked>>
connVars == <<conn, requests>>
probeVars == <<probe, probed>>
runVars == <<pc, result, addr, warned>>

AllConns == Conns \cup {Self}
Refusals == {"usage", "config", "address", "handler", "listen"}

TypeOK ==
  /\ invocation \in Invocations
  /\ signalled \in BOOLEAN
  /\ pc \in {"run", "listen", "ready", "go", "select", "shutdown", "close", "wait",
             "poll", "tick", "receive", "return", "exited"}
  /\ result \in Errors \cup {"nil", None}
  /\ addr \in Addr \cup {None}
  /\ warned \in BOOLEAN
  /\ listener \in {"none", "open", "closed"}
  /\ serving \in {"none", "track", "accept", "untrack", "close", "send", "done"}
  /\ serveErr \in {"closed", "accept", None}
  /\ errCh \in {"nil", "serve", None}
  /\ tracked \in BOOLEAN
  /\ inShutdown \in BOOLEAN
  /\ deadline \in BOOLEAN
  /\ conn \in [AllConns -> {"none", "backlog", "new", "active", "idle", "closed"}]
  /\ requests \in [AllConns -> 0 .. MaxRequests]
  /\ probe \in {"off", "next", "dial", "asking", "elsewhere", "done"}
  /\ probed \in Seq({"skipped", "unusable", "answered", "refused", "failed"})

Init ==
  /\ invocation \in Invocations
  /\ signalled = FALSE
  /\ pc = "run" /\ result = None /\ addr = None /\ warned = FALSE
  /\ listener = "none"
  /\ serving = "none" /\ serveErr = None /\ errCh = None /\ tracked = FALSE
  /\ inShutdown = FALSE /\ deadline = FALSE
  /\ conn = [c \in AllConns |-> "none"]
  /\ requests = [c \in AllConns |-> 0]
  /\ probe = "off" /\ probed = <<>>

\* SIGINT or SIGTERM.  NotifyContext goes on absorbing them until main returns,
\* so a second signal changes nothing.
Signal ==
  /\ ~signalled
  /\ signalled' = TRUE
  /\ UNCHANGED <<invocation, runVars, listener, serveVars, shutdownVars, connVars,
                 probeVars>>

-----------------------------------------------------------------------------
(* run(), up to serve().                                                   *)

OnlyMain ==
  UNCHANGED <<input, listener, serveVars, shutdownVars, connVars, probeVars>>
Goto(l) == pc' = l /\ UNCHANGED <<result, addr, warned>>
Return(r) == pc' = "return" /\ result' = r /\ UNCHANGED <<addr, warned>>

\* Why run() never gets to serve(), in the order it looks.
Refusal(i) ==
  IF i.flaw = "flags" THEN "usage"
  ELSE IF i.version THEN "nil"
  ELSE IF i.flaw = "config" THEN "config"
  ELSE IF i.listen = Malformed THEN "address"
  ELSE IF i.flaw = "handler" THEN "handler"
  ELSE None

\* Mutant: the empty host, every interface, is taken for the local one.
IsLoopbackOrEmptyHost(host) ==
  \/ host \in {"", "localhost"}
  \/ (host \notin {"0.0.0.0", "::"} /\ host \in LoopbackIPs)

IsLoopbackHost(host) ==
  \/ host = "localhost"
  \/ (host \notin {"", "0.0.0.0", "::"} /\ host \in LoopbackIPs)

\* resolveListenAddr's address, and whether a warning goes with it.
ResolveListenAddr(listen, allowExternal) ==
  IF listen = Unset
    THEN [addr |-> [host |-> "127.0.0.1", port |-> DefaultPort], warn |-> FALSE]
  ELSE IF IsLoopbackHost(listen.host) THEN [addr |-> listen, warn |-> FALSE]
  ELSE IF allowExternal THEN [addr |-> listen, warn |-> TRUE]
  ELSE [addr |-> [listen EXCEPT !.host = "127.0.0.1"], warn |-> TRUE]

\* The handler is built after the address is resolved and warned about.
Refuse ==
  /\ pc = "run" /\ Refusal(invocation) # None
  /\ pc' = "return" /\ result' = Refusal(invocation)
  /\ warned' = (/\ Refusal(invocation) = "handler"
                /\ ResolveListenAddr(invocation.listen, invocation.allowExternal).warn)
  /\ UNCHANGED addr
  /\ OnlyMain

\* Mutant: ready() is called before net.Listen.
StartReady ==
  /\ pc = "run" /\ Refusal(invocation) = None
  /\ LET r == ResolveListenAddr(invocation.listen, invocation.allowExternal)
     IN addr' = r.addr /\ warned' = r.warn
  /\ pc' = "listen"
  /\ probe' = IF invocation.probe THEN "next" ELSE "off"
  /\ UNCHANGED <<input, result, listener, serveVars, shutdownVars, connVars, probed>>

Start ==
  /\ pc = "run" /\ Refusal(invocation) = None
  /\ LET r == ResolveListenAddr(invocation.listen, invocation.allowExternal)
     IN addr' = r.addr /\ warned' = r.warn
  /\ pc' = "listen"
  /\ UNCHANGED <<input, result, listener, serveVars, shutdownVars, connVars,
                 probeVars>>

-----------------------------------------------------------------------------
(* serve().                                                                *)

Listen ==
  /\ pc = "listen"
  /\ \/ (listener' = "open" /\ Goto("ready"))
     \/ (UNCHANGED listener /\ Return("listen"))
  /\ UNCHANGED <<input, serveVars, shutdownVars, connVars, probeVars>>

\* ready(): the probe, when asked for, starts beside the server.
Ready ==
  /\ pc = "ready"
  /\ Goto("go")
  /\ probe' = IF invocation.probe THEN "next" ELSE "off"
  /\ UNCHANGED <<input, listener, serveVars, shutdownVars, connVars, probed>>

Go ==
  /\ pc = "go"
  /\ Goto("select")
  /\ serving' = "track"
  /\ UNCHANGED <<input, listener, serveErr, errCh, tracked, shutdownVars,
                 connVars, probeVars>>

\* Mutant: Server.Close in Shutdown's place.
SelectDoneCloses ==
  /\ pc = "select" /\ signalled
  /\ Return("nil")
  /\ OnlyMain

\* Go picks either branch when both are ready.
SelectDone ==
  /\ pc = "select" /\ signalled
  /\ Goto("shutdown")
  /\ OnlyMain

SelectErr ==
  /\ pc = "select" /\ errCh # None
  /\ Return(errCh)
  /\ errCh' = None
  /\ UNCHANGED <<input, listener, serving, serveErr, tracked, shutdownVars,
                 connVars, probeVars>>

\* Mutant: a clean shutdown is a success, whatever Serve returned.
ReceiveNothing == pc = "receive" /\ Return("nil") /\ UNCHANGED errCh

Receive == pc = "receive" /\ errCh # None /\ Return(errCh) /\ errCh' = None

\* return <-errCh
ReturnServeErr ==
  /\ Receive
  /\ UNCHANGED <<input, listener, serving, serveErr, tracked, shutdownVars,
                 connVars, probeVars>>

\* main prints an error and exits with 1; the other goroutines go with it.
Exit ==
  /\ pc = "return"
  /\ Goto("exited")
  /\ OnlyMain

-----------------------------------------------------------------------------
(* net/http: Server.Shutdown, in serve()'s goroutine.                      *)

\* Closing the socket resets what waits in its backlog.
CloseSocket ==
  /\ listener' = "closed"
  /\ conn' = [c \in AllConns |-> IF conn[c] = "backlog" THEN "closed" ELSE conn[c]]

SetInShutdown ==
  /\ pc = "shutdown"
  /\ inShutdown' = TRUE
  /\ Goto("close")
  /\ UNCHANGED <<input, listener, serveVars, deadline, connVars, probeVars>>

CloseListeners ==
  /\ pc = "close"
  /\ IF tracked THEN CloseSocket ELSE UNCHANGED <<listener, conn>>
  /\ Goto("wait")
  /\ UNCHANGED <<input, serveVars, shutdownVars, requests, probeVars>>

\* listenerGroup.Wait
WaitListeners ==
  /\ pc = "wait" /\ ~tracked
  /\ Goto("poll")
  /\ OnlyMain

\* A connection closeIdleConns has to leave alone.
Busy(c) == conn[c] \in {"new", "active"}

Poll ==
  /\ pc = "poll"
  /\ conn' = [c \in AllConns |-> IF conn[c] = "idle" THEN "closed" ELSE conn[c]]
  /\ Goto(IF \E c \in AllConns : Busy(c) THEN "tick" ELSE "receive")
  /\ UNCHANGED <<input, listener, serveVars, shutdownVars, requests, probeVars>>

\* The poll timer, or the deadline: select takes either when both are ready.
Tick ==
  /\ pc = "tick"
  /\ Goto("poll")
  /\ OnlyMain

ShutdownTimesOut ==
  /\ pc = "tick" /\ deadline
  /\ Return("shutdown")
  /\ OnlyMain

\* Mutant: Shutdown is given the background context.
NoDeadline == deadline /\ UNCHANGED vars

\* Five seconds after serve() saw the signal.
DeadlinePasses ==
  /\ pc \in {"shutdown", "close", "wait", "poll", "tick"} /\ ~deadline
  /\ deadline' = TRUE
  /\ UNCHANGED <<input, runVars, listener, serveVars, inShutdown, connVars,
                 probeVars>>

-----------------------------------------------------------------------------
(* The goroutine of server.Serve.                                          *)

\* trackListener and Shutdown share the server's mutex.
Track ==
  /\ serving = "track"
  /\ \/ /\ inShutdown
        /\ serveErr' = "closed" /\ serving' = "close" /\ UNCHANGED tracked
     \/ /\ ~inShutdown
        /\ tracked' = TRUE /\ serving' = "accept" /\ UNCHANGED serveErr
  /\ UNCHANGED <<input, runVars, listener, errCh, shutdownVars, connVars,
                 probeVars>>

Accept(c) ==
  /\ serving = "accept" /\ conn[c] = "backlog"
  /\ conn' = [conn EXCEPT ![c] = "new"]
  /\ UNCHANGED <<input, runVars, listener, serveVars, shutdownVars, requests,
                 probeVars>>

\* Accept fails, because the socket is closed or for a reason of its own.
AcceptFails ==
  /\ serving = "accept"
  /\ serveErr' = IF inShutdown THEN "closed" ELSE "accept"
  /\ serving' = "untrack"
  /\ UNCHANGED <<input, runVars, listener, errCh, tracked, shutdownVars,
                 connVars, probeVars>>

AcceptClosed == listener = "closed" /\ AcceptFails

\* Serve's deferred calls.
Untrack ==
  /\ serving = "untrack"
  /\ tracked' = FALSE /\ serving' = "close"
  /\ UNCHANGED <<input, runVars, listener, serveErr, errCh, shutdownVars,
                 connVars, probeVars>>

CloseOwn ==
  /\ serving = "close"
  /\ CloseSocket /\ serving' = "send"
  /\ UNCHANGED <<input, runVars, serveErr, errCh, tracked, shutdownVars,
                 requests, probeVars>>

\* Mutant: ErrServerClosed is sent like any other error.
SentErrorAlways(err) == "serve"

\* ErrServerClosed is no error.
SentError(err) == IF err = "closed" THEN "nil" ELSE "serve"

Send ==
  /\ serving = "send"
  /\ errCh' = SentError(serveErr) /\ serving' = "done"
  /\ UNCHANGED <<input, runVars, listener, serveErr, tracked, shutdownVars,
                 connVars, probeVars>>

-----------------------------------------------------------------------------
(* Clients, and the server's goroutine per connection.                     *)

Connect(c) ==
  /\ c \in Conns /\ conn[c] = "none" /\ listener = "open"
  /\ conn' = [conn EXCEPT ![c] = "backlog"]
  /\ UNCHANGED <<input, runVars, listener, serveVars, shutdownVars, requests,
                 probeVars>>

\* The handler starts.
ReadRequest(c) ==
  /\ conn[c] \in {"new", "idle"} /\ requests[c] < MaxRequests
  /\ conn' = [conn EXCEPT ![c] = "active"]
  /\ requests' = [requests EXCEPT ![c] = @ + 1]
  /\ UNCHANGED <<input, runVars, listener, serveVars, shutdownVars, probeVars>>

\* A server that is shutting down keeps no connection alive.  Nothing makes a
\* handler finish: its client may never send the body it announced.
Answer(c) ==
  /\ conn[c] = "active"
  /\ conn' = [conn EXCEPT ![c] = IF inShutdown THEN "closed" ELSE "idle"]
  /\ UNCHANGED <<input, runVars, listener, serveVars, shutdownVars, requests,
                 probeVars>>

\* The client leaves, or ReadHeaderTimeout ends its silence.
Drop(c) ==
  /\ conn[c] = "new" \/ (c \in Conns /\ conn[c] \in {"backlog", "idle"})
  /\ conn' = [conn EXCEPT ![c] = "closed"]
  /\ UNCHANGED <<input, runVars, listener, serveVars, shutdownVars, requests,
                 probeVars>>

-----------------------------------------------------------------------------
(* probeTargets.                                                           *)

Found(what) == probe' = "next" /\ probed' = Append(probed, what)

ProbeNext ==
  /\ probe = "next"
  /\ \/ /\ Len(probed) = Len(invocation.targets)
        /\ probe' = "done" /\ UNCHANGED probed
     \/ /\ Len(probed) < Len(invocation.targets)
        /\ LET base == invocation.targets[Len(probed) + 1]
           IN \/ base = "unset" /\ Found("skipped")
              \/ base = "unusable" /\ Found("unusable")
              \/ base = "self" /\ probe' = "dial" /\ UNCHANGED probed
              \/ base = "elsewhere" /\ probe' = "elsewhere" /\ UNCHANGED probed
  /\ UNCHANGED <<input, runVars, listener, serveVars, shutdownVars, connVars>>

ProbeDial ==
  /\ probe = "dial" /\ ~signalled
  /\ \/ /\ listener = "open"
        /\ conn' = [conn EXCEPT ![Self] = "backlog"]
        /\ probe' = "asking" /\ UNCHANGED probed
     \/ /\ listener # "open"
        /\ Found("refused") /\ UNCHANGED conn
  /\ UNCHANGED <<input, runVars, listener, serveVars, shutdownVars, requests>>

\* Any status will do.
ProbeAnswered ==
  /\ \/ (probe = "asking" /\ requests[Self] > 0 /\ conn[Self] # "active")
     \/ probe = "elsewhere"
  /\ Found("answered")
  /\ UNCHANGED <<input, runVars, listener, serveVars, shutdownVars, connVars>>

\* Three seconds, the signal, or no such host end a GET.
ProbeGivesUp == probe \in {"asking", "elsewhere"} \/ (probe = "dial" /\ signalled)

\* The transport closes its connection; a handler at work does not notice.
ProbeFails ==
  /\ ProbeGivesUp
  /\ Found("failed")
  /\ conn' = [conn EXCEPT ![Self] =
                IF @ \in {"backlog", "new", "idle"} THEN "closed" ELSE @]
  /\ UNCHANGED <<input, runVars, listener, serveVars, shutdownVars, requests>>

-----------------------------------------------------------------------------
Main ==
  \/ Refuse \/ Start \/ Listen \/ Ready \/ Go \/ SelectDone \/ SelectErr
  \/ SetInShutdown \/ CloseListeners \/ WaitListeners \/ Poll \/ Tick \/ ShutdownTimesOut
  \/ ReturnServeErr \/ Exit
Serve ==
  \/ Track \/ AcceptClosed \/ Untrack \/ CloseOwn \/ Send
  \/ \E c \in AllConns : Accept(c)
Traffic ==
  \E c \in AllConns : Connect(c) \/ ReadRequest(c) \/ Answer(c) \/ Drop(c)
Probe == ProbeNext \/ ProbeDial \/ ProbeAnswered \/ ProbeFails

\* After the exit there is no process to take a step.
Next ==
  /\ pc # "exited"
  /\ Signal \/ DeadlinePasses \/ Main \/ Serve \/ AcceptFails \/ Traffic \/ Probe

Spec == Init /\ [][Next]_vars
\* The Go runtime schedules the goroutines of the process and its timers fire.
\* A select that finds the deadline passed again and again takes it some time.
\* Nothing is assumed of clients, of handlers or of the operator.
Running(A) == pc # "exited" /\ A
FairSpec ==
  /\ Spec
  /\ WF_vars(Running(Main)) /\ WF_vars(Running(Serve)) /\ WF_vars(Running(DeadlinePasses))
  /\ WF_vars(Running(Probe)) /\ SF_vars(Running(ShutdownTimesOut))

-----------------------------------------------------------------------------
(* Properties.                                                             *)

Returned == pc \in {"return", "exited"}

\* A request a handler has started on is cut off by the exit only when the five
\* seconds are over or the listener has failed, and the exit status says so
\* (serve: "drains connections with a bounded timeout").
InFlightIsDrained ==
  pc = "exited" /\ (\E c \in AllConns : conn[c] = "active")
    => \/ result = "shutdown" /\ deadline
       \/ result = "serve"

\* Whatever the signal, Serve's goroutine and the deadline raced for, the result
\* is what happened: nil after an orderly shutdown somebody asked for, Serve's
\* failure when there was one to report, a timeout when there was one.
ResultIsEarned ==
  Returned =>
    /\ result = "nil" => invocation.version \/ (signalled /\ serveErr = "closed")
    /\ result = "serve" => serveErr = "accept"
    /\ result = "shutdown" => signalled /\ deadline
    /\ result \in Refusals => listener = "none"

\* serve() does not return with its port taken, not even when the signal comes
\* before Serve has seen the listener (its caller may listen there again).  After
\* a timeout it may, for a Serve that failed and was not scheduled since.
PortIsFreed == Returned /\ result \in {"nil", "serve"} => listener # "open"

\* What is bound beyond the loopback interface was asked for with
\* --allow-external, is what the configuration says, and is warned about; what
\* is bound in its place keeps the port (resolveListenAddr).
ExposedOnlyWhenAsked ==
  addr # None =>
    /\ addr.host \notin LoopbackIPs \cup {"localhost"}
         => invocation.allowExternal /\ addr = invocation.listen /\ warned
    /\ invocation.listen # Unset =>
         addr.port = invocation.listen.port /\ (addr # invocation.listen => warned)

\* The probe of authside itself is not turned away by a server that is coming up
\* or running: "its connection waits in the accept backlog until Serve picks it
\* up" (serve).
ProbeFindsListener ==
  (\E n \in DOMAIN probed : probed[n] = "refused")
    => inShutdown \/ serveErr = "accept"

\* One signal ends the process, whatever it is doing, a client that never sends
\* its body and a probe in flight included.
SignalEndsProcess == signalled ~> pc = "exited"
=============================================================================
