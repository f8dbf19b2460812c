-------------------------------- MODULE Tunnel --------------------------------
(***************************************************************************)
(* The command line's tunnels (cmd/swsrs: tcp-listen, tcp-dial and raw):   *)
(* two processes, each between a local application (a TCP connection, or   *)
(* stdin and stdout) and the relay.  A process copies in both directions   *)
(* until one copy ends or a signal comes; then it closes its side of the   *)
(* relay, which closes the other.                                          *)
(*                                                                         *)
(* What an application says is a number of chunks, and a stream is how far *)
(* they have come.  A chunk that a copy has read and not yet written, or   *)
(* that finds its connection full, is still where it was.  The relay is    *)
(* the one of Relay, in short: what a handler does when its connection     *)
(* ends is one step here, a connection that breaks is noticed on both      *)
(* sides, and no session is ended from outside.                            *)
(***************************************************************************)
EXTENDS Naturals

CONSTANTS Pairings, \* the commands that meet: functions from Ends to Commands
          MaxSaid   \* bound: how many chunks the application of each end says

Ends == {1, 2}

Far(e) == 3 - e

Commands == {"tcp-listen", "tcp-dial", "raw"}

ASSUME TunnelAssumption ==
  /\ Pairings \subseteq [Ends -> Commands]
  /\ MaxSaid \in [Ends -> Nat]

VARIABLES dials,     \* the process dials its application after the relay
          app,       \* the local application's connection
          proc,      \* where the main goroutine is
          copies,    \* the copies of which main has still to hear that they ended
          signalled, \* ctx of signal.NotifyContext
          ws,        \* the process's WebSocket
          attached,  \* the relay's handler is between attach and detach
          armed,     \* the relay's peer-wait timer
          stream,    \* per end, how far what its application says has come
          cut        \* history: something other than the two ends cut in

processes == <<app, proc, copies, signalled>>
relay == <<attached, armed>>
vars == <<dials, processes, relay, ws, stream, cut>>

Apps == {"none", "open", "shut", "closed", "hungup"}
  \* shut: it has said all and still reads; closed: by it; hungup: by the process

Procs == {"accept", "connect", "dial", "pipe", "leave", "ended"}

Sockets == {"none", "open", "closing", "told", "gone"}
  \* closing: the process has sent a close frame; told: the relay has

Both == {"up", "down"}  \* from the application, and to it

Stages == {"said", "sent", "carried", "given"}

Starts(command) ==
  /\ dials = [e \in Ends |-> command[e] = "tcp-dial"]
  /\ app = [e \in Ends |-> IF command[e] = "raw" THEN "open" ELSE "none"]
  /\ proc = [e \in Ends |-> IF command[e] = "tcp-listen" THEN "accept" ELSE "connect"]

Init ==
  /\ \E command \in Pairings : Starts(command)
  /\ copies = [e \in Ends |-> {}]
  /\ signalled = [e \in Ends |-> FALSE]
  /\ ws = [e \in Ends |-> "none"]
  /\ attached = [e \in Ends |-> FALSE]
  /\ armed = [e \in Ends |-> FALSE]
  /\ stream = [e \in Ends |-> [stage \in Stages |-> 0]]
  /\ cut = FALSE

-------------------------------------------------------------------------------
(***************************************************************************)
(* The application and the user, until the process leaves.                 *)
(***************************************************************************)
Says(e) ==
  /\ app[e] = "open"
  /\ stream[e].said < MaxSaid[e]
  /\ proc[e] # "leave"
  /\ stream' = [stream EXCEPT ![e].said = @ + 1]
  /\ UNCHANGED <<dials, processes, relay, ws, cut>>

\* The end of its output, or the whole connection.
Finishes(e, how) ==
  /\ \/ app[e] = "open"
     \/ app[e] = "shut" /\ how = "closed"
  /\ proc[e] \notin {"leave", "ended"}
  /\ app' = [app EXCEPT ![e] = how]
  /\ UNCHANGED <<dials, proc, copies, signalled, relay, ws, stream, cut>>

Signal(e) ==
  /\ proc[e] \notin {"leave", "ended"} /\ ~signalled[e]
  /\ signalled' = [signalled EXCEPT ![e] = TRUE]
  /\ UNCHANGED <<dials, app, proc, copies, relay, ws, stream, cut>>

(***************************************************************************)
(* The main goroutine.                                                     *)
(***************************************************************************)
HungUp(e) == IF app[e] = "open" THEN "hungup" ELSE app[e]

Accept(e) ==
  /\ proc[e] = "accept"
  /\ app' = [app EXCEPT ![e] = "open"]
  /\ proc' = [proc EXCEPT ![e] = "connect"]
  /\ UNCHANGED <<dials, copies, signalled, relay, ws, stream, cut>>

\* The listener fails before anyone has come.
AcceptFails(e) ==
  /\ proc[e] = "accept"
  /\ proc' = [proc EXCEPT ![e] = "ended"]
  /\ UNCHANGED <<dials, app, copies, signalled, relay, ws, stream, cut>>

\* The signal interrupts an accept and a connect; a connect may be refused.
NeverConnects(e) ==
  /\ \/ proc[e] = "accept" /\ signalled[e]
     \/ proc[e] = "connect"
  /\ proc' = [proc EXCEPT ![e] = "ended"]
  /\ app' = [app EXCEPT ![e] = HungUp(e)]
  /\ UNCHANGED <<dials, copies, signalled, relay, ws, stream, cut>>

Connect(e) ==
  /\ proc[e] = "connect"
  /\ proc' = [proc EXCEPT ![e] = IF dials[e] THEN "dial" ELSE "pipe"]
  /\ ws' = [ws EXCEPT ![e] = "open"]
  /\ attached' = [attached EXCEPT ![e] = TRUE]
  /\ armed' = [x \in Ends |-> x = e /\ ~attached[Far(e)]]
  /\ copies' = IF dials[e] THEN copies ELSE [copies EXCEPT ![e] = Both]
  /\ UNCHANGED <<dials, app, signalled, stream, cut>>

\* net.Dial knows nothing of the signal.
DialTarget(e) ==
  /\ proc[e] = "dial"
  /\ \/ /\ proc' = [proc EXCEPT ![e] = "pipe"]
        /\ app' = [app EXCEPT ![e] = "open"]
        /\ copies' = [copies EXCEPT ![e] = Both]
     \/ /\ proc' = [proc EXCEPT ![e] = "leave"]
        /\ UNCHANGED <<app, copies>>
  /\ UNCHANGED <<dials, signalled, relay, ws, stream, cut>>

WaitsForBoth(e) ==                                                 \* mutant
  /\ proc[e] = "pipe"
  /\ signalled[e] \/ copies[e] = {}
  /\ proc' = [proc EXCEPT ![e] = "leave"]
  /\ app' = IF dials[e] THEN [app EXCEPT ![e] = HungUp(e)] ELSE app
  /\ copies' = [copies EXCEPT ![e] = {}]
  /\ UNCHANGED <<dials, signalled, relay, ws, stream, cut>>

IgnoresSignal(e) ==                                                \* mutant
  /\ proc[e] = "pipe"
  /\ copies[e] # Both
  /\ proc' = [proc EXCEPT ![e] = "leave"]
  /\ app' = IF dials[e] THEN [app EXCEPT ![e] = HungUp(e)] ELSE app
  /\ copies' = [copies EXCEPT ![e] = {}]
  /\ UNCHANGED <<dials, signalled, relay, ws, stream, cut>>

\* Deferred calls run last first: tcp-dial closes its target before the relay.
LeavePipe(e) ==
  /\ proc[e] = "pipe"
  /\ signalled[e] \/ copies[e] # Both
  /\ proc' = [proc EXCEPT ![e] = "leave"]
  /\ app' = IF dials[e] THEN [app EXCEPT ![e] = HungUp(e)] ELSE app
  /\ copies' = [copies EXCEPT ![e] = {}]
  /\ UNCHANGED <<dials, signalled, relay, ws, stream, cut>>

SendClose(e) ==
  /\ proc[e] = "leave"
  /\ ws[e] \in {"open", "told"}
  /\ ws' = [ws EXCEPT ![e] = IF @ = "open" THEN "closing" ELSE "gone"]
  /\ UNCHANGED <<dials, processes, relay, stream, cut>>

Exit(e) ==
  /\ proc[e] = "leave"
  /\ ws[e] = "gone"
  /\ proc' = [proc EXCEPT ![e] = "ended"]
  /\ app' = [app EXCEPT ![e] = HungUp(e)]
  /\ UNCHANGED <<dials, copies, signalled, relay, ws, stream, cut>>

(***************************************************************************)
(* The two copies.  They go on while the process leaves, for as long as    *)
(* they can.                                                               *)
(***************************************************************************)
Copying(e, which) == which \in copies[e] \/ proc[e] = "leave"

CopyEnds(e, which) == copies' = [copies EXCEPT ![e] = @ \ {which}]

\* What is written after the relay has closed goes nowhere.
UpCopies(e) ==
  /\ Copying(e, "up") /\ app[e] # "hungup"
  /\ stream[e].sent < stream[e].said
  /\ ws[e] \in {"open", "told"}
  /\ stream' = [stream EXCEPT ![e].sent = @ + 1]
  /\ UNCHANGED <<dials, processes, relay, ws, cut>>

EndsAtFin(e) ==                                                    \* mutant
  /\ "up" \in copies[e]
  /\ \/ app[e] = "shut"
     \/ app[e] \in {"closed", "hungup"}
     \/ stream[e].sent < stream[e].said /\ ws[e] = "gone"
  /\ CopyEnds(e, "up")
  /\ UNCHANGED <<dials, app, proc, signalled, relay, ws, stream, cut>>

\* The application's end of stream comes after all it said; a connection that
\* it closed may be reset.
UpEnds(e) ==
  /\ "up" \in copies[e]
  /\ \/ app[e] = "shut" /\ stream[e].sent = stream[e].said
     \/ app[e] \in {"closed", "hungup"}
     \/ stream[e].sent < stream[e].said /\ ws[e] = "gone"
  /\ CopyEnds(e, "up")
  /\ UNCHANGED <<dials, app, proc, signalled, relay, ws, stream, cut>>

ToGive(e) == stream[Far(e)].given < stream[Far(e)].carried

DownCopies(e) ==
  /\ Copying(e, "down")
  /\ app[e] \in {"open", "shut"}
  /\ ToGive(e)
  /\ ws[e] \in {"open", "told", "closing"}
  /\ stream' = [stream EXCEPT ![Far(e)].given = @ + 1]
  /\ UNCHANGED <<dials, processes, relay, ws, cut>>

\* The relay's close frame is read after all the relay had carried; it is
\* answered at once.
DownEnds(e) ==
  /\ "down" \in copies[e]
  /\ \/ ws[e] = "told" /\ ~ToGive(e)
     \/ ws[e] = "gone"
     \/ ToGive(e) /\ app[e] \in {"closed", "hungup"}
  /\ CopyEnds(e, "down")
  /\ ws' = [ws EXCEPT ![e] = IF @ = "told" /\ ~ToGive(e) THEN "gone" ELSE @]
  /\ UNCHANGED <<dials, app, proc, signalled, relay, stream, cut>>

(***************************************************************************)
(* The relay, with one handler for each connection.                        *)
(***************************************************************************)
\* A connection as the relay closes it: the end is told, unless it was closing.
ToldOff(e) == CASE ws[e] = "open" -> "told" [] ws[e] = "closing" -> "gone" [] OTHER -> ws[e]

CarriesAgain(e) ==                                                 \* mutant
  /\ attached[e] /\ attached[Far(e)]
  /\ stream[e].carried <= stream[e].sent /\ stream[e].sent > 0
  /\ ws[e] \in {"open", "closing", "gone"}
  /\ ws[Far(e)] \in {"open", "closing"}
  /\ stream' = [stream EXCEPT ![e].carried = @ + 1]
  /\ UNCHANGED <<dials, processes, relay, ws, cut>>

Carry(e) ==
  /\ attached[e] /\ attached[Far(e)]
  /\ stream[e].carried < stream[e].sent
  /\ ws[e] \in {"open", "closing", "gone"}
  /\ ws[Far(e)] \in {"open", "closing"}
  /\ stream' = [stream EXCEPT ![e].carried = @ + 1]
  /\ UNCHANGED <<dials, processes, relay, ws, cut>>

\* The handler has read a close frame, behind all that was sent, or found the
\* connection dead; with a message in hand and no counterpart it waits.
HandlerEnds(e) ==
  /\ attached[e]
  /\ \/ ws[e] = "closing" /\ stream[e].carried = stream[e].sent
     \/ ws[e] = "gone" /\ (attached[Far(e)] \/ stream[e].carried = stream[e].sent)
     \/ ws[e] = "told"
  /\ attached' = [attached EXCEPT ![e] = FALSE]
  /\ ws' = [ws EXCEPT ![e] = IF @ = "closing" THEN "gone" ELSE @,
                      ![Far(e)] = IF @ = "open" /\ attached[Far(e)] THEN "told" ELSE @]
  /\ armed' = [armed EXCEPT ![e] = FALSE]
  /\ UNCHANGED <<dials, processes, stream, cut>>

\* A message for a counterpart that is no longer there.
ForwardFails(e) ==
  /\ attached[e] /\ attached[Far(e)]
  /\ stream[e].carried < stream[e].sent
  /\ ws[Far(e)] \in {"told", "gone"}
  /\ attached' = [attached EXCEPT ![e] = FALSE]
  /\ ws' = [ws EXCEPT ![e] = ToldOff(e)]
  /\ armed' = [armed EXCEPT ![e] = FALSE]
  /\ UNCHANGED <<dials, processes, stream, cut>>

PeerWait(e) ==
  /\ attached[e] /\ armed[e]
  /\ attached' = [attached EXCEPT ![e] = FALSE]
  /\ armed' = [armed EXCEPT ![e] = FALSE]
  /\ ws' = [ws EXCEPT ![e] = ToldOff(e)]
  /\ cut' = TRUE
  /\ UNCHANGED <<dials, processes, stream>>

(***************************************************************************)
(* The WebSocket.                                                          *)
(***************************************************************************)
\* The closing handshake is given five seconds.
GiveUp(e) ==
  /\ ws[e] = "closing"
  /\ ws' = [ws EXCEPT ![e] = "gone"]
  /\ cut' = (cut \/ stream[e].carried < stream[e].sent)
  /\ UNCHANGED <<dials, processes, relay, stream>>

\* A pong is seen only by who reads, and nobody does during net.Dial or while
\* the application does not take what it is given.
KeepaliveCloses(e) ==
  /\ ws[e] \in {"open", "told"}
  /\ proc[e] = "dial" \/ ToGive(e)
  /\ ws' = [ws EXCEPT ![e] = IF @ = "open" THEN "closing" ELSE "gone"]
  /\ cut' = TRUE
  /\ UNCHANGED <<dials, processes, relay, stream>>

Breaks(e) ==
  /\ ws[e] \in {"open", "told", "closing"}
  /\ ws' = [ws EXCEPT ![e] = "gone"]
  /\ cut' = TRUE
  /\ UNCHANGED <<dials, processes, relay, stream>>

-------------------------------------------------------------------------------
Outside(e) == Says(e) \/ (\E how \in {"shut", "closed"} : Finishes(e, how)) \/ Signal(e)

Main(e) == NeverConnects(e) \/ Connect(e) \/ DialTarget(e) \/ LeavePipe(e) \/ SendClose(e) \/ Exit(e)

Up(e) == UpCopies(e) \/ UpEnds(e)

Down(e) == DownCopies(e) \/ DownEnds(e)

Pump(e) == Carry(e) \/ HandlerEnds(e) \/ ForwardFails(e)

TimesOut(e) == PeerWait(e) \/ GiveUp(e)

Next ==
  \E e \in Ends : \/ Outside(e) \/ Accept(e) \/ AcceptFails(e) \/ Main(e)
                  \/ Up(e) \/ Down(e) \/ Pump(e) \/ TimesOut(e) \/ KeepaliveCloses(e) \/ Breaks(e)

Spec == Init /\ [][Next]_vars

\* Goroutines run, timers fire, a dial and a handshake end, and an application
\* that is given something reads it.
Fairness ==
  \A e \in Ends :
    /\ WF_vars(Main(e)) /\ WF_vars(Up(e)) /\ WF_vars(Down(e))
    /\ WF_vars(Pump(e)) /\ WF_vars(TimesOut(e))

FairSpec == Spec /\ Fairness

-------------------------------------------------------------------------------
\* Every variable has its type, and no stream gets ahead of what feeds it (pipe,
\* tcp_listen.go:76-86).
TypeOK ==
  /\ dials \in [Ends -> BOOLEAN]
  /\ app \in [Ends -> Apps] /\ proc \in [Ends -> Procs]
  /\ copies \in [Ends -> SUBSET Both] /\ signalled \in [Ends -> BOOLEAN]
  /\ ws \in [Ends -> Sockets]
  /\ attached \in [Ends -> BOOLEAN] /\ armed \in [Ends -> BOOLEAN]
  /\ stream \in [Ends -> [Stages -> Nat]]
  /\ \A e \in Ends : LET s == stream[e]
                     IN  s.given <= s.carried /\ s.carried <= s.sent /\ s.sent <= s.said
                         /\ s.said <= MaxSaid[e]
  /\ cut \in BOOLEAN

\* An application that is hung up on after the tunnel was made, while it was still
\* open and nobody stopped its process, has been given all that the other end sent; and all that the
\* other application said, if that finished and its process was left to
\* (tcp_listen.go:76-86, relay.go:161-186).
EndDelivers ==
  \A e \in Ends :
    app[Far(e)] = "hungup" /\ ws[Far(e)] # "none" /\ ~cut /\ ~signalled[Far(e)] =>
      /\ stream[e].given = stream[e].sent
      /\ app[e] = "shut" /\ ~signalled[e] => stream[e].sent = stream[e].said

\* A process ends once the other has, if it has connected; after a signal,
\* wherever it is; and after its application has closed, if it has connected
\* (tcp_listen.go:44-50, 78-85, tcp_dial.go:33-48, relay.go:164-173).
TunnelEnds ==
  \A e \in Ends :
    (signalled[e] \/ (ws[e] # "none" /\ (proc[Far(e)] = "ended" \/ app[e] = "closed")))
      ~> (proc[e] = "ended")

===============================================================================
