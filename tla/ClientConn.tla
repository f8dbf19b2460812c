------------------------------- MODULE ClientConn ------------------------------
(***************************************************************************)
(* The Go SDK's end of a relayed connection (pkg/client/conn.go): a        *)
(* net.Conn over a WebSocket.  One goroutine reads and one writes; anyone  *)
(* sets deadlines and closes; timers and the keepalive run on their own.   *)
(* Each direction has a deadline under a mutex and one context for life.   *)
(*                                                                         *)
(* Data, and how a read walks through messages, are left out: an operation *)
(* succeeds or fails in one step of the websocket library.                 *)
(***************************************************************************)
EXTENDS Naturals

CONSTANTS MaxClock,  \* bound: the last instant
          MaxSets    \* bound: how often a direction's deadline is set

ASSUME ClientAssumption == MaxClock \in Nat \ {0} /\ MaxSets \in Nat

VARIABLES clock,
          dl,         \* per direction: its deadline
          cancelled,  \* per direction: its context
          op,         \* per direction: the Read or Write in flight, if any
          ws,         \* the WebSocket; lost: nothing arrives any more
          closing,    \* Close: not called, under way (closeOnce), returned
          ka          \* the keepalive goroutine

vars == <<clock, dl, cancelled, op, ws, closing, ka>>

Directions == {"read", "write"}

\* Go's zero time.
NoTime == 0

\* One instant that does not come stands for all later ones.
Times == 0..(MaxClock + 1)

Deadlines ==
  [gen     : 0..MaxSets,        \* how often it was set
   due     : Times,             \* what it was set to
   timer   : Times,             \* when its timer will go off
   fired   : SUBSET (1..MaxSets),  \* the timers, by gen, that went off and
                                \* have not had the mutex yet
   expired : BOOLEAN]

\* ok, timeout and error are an operation about to return.
Ops == {"idle", "running", "failed", "ok", "timeout", "error"}

Init ==
  /\ clock = NoTime + 1
  /\ dl = [d \in Directions |-> [gen |-> 0, due |-> NoTime, timer |-> NoTime,
                                 fired |-> {}, expired |-> FALSE]]
  /\ cancelled = [d \in Directions |-> FALSE]
  /\ op = [d \in Directions |-> "idle"]
  /\ ws = "open"
  /\ closing = "no"
  /\ ka \in {"idle", "off"}

-------------------------------------------------------------------------------
(***************************************************************************)
(* Deadlines.                                                              *)
(***************************************************************************)
Busy(d) == op[d] # "idle"

CutsIdle(d) == [cancelled EXCEPT ![d] = TRUE]                      \* mutant

\* expireLocked: interrupt the operation in flight.
Cut(d) == [cancelled EXCEPT ![d] = @ \/ Busy(d)]

SetSpares(d, t) ==                                                 \* mutant
  /\ dl[d].gen < MaxSets
  /\ LET past == t # NoTime /\ t <= clock
     IN  dl' = [dl EXCEPT ![d].gen     = @ + 1,
                          ![d].due     = t,
                          ![d].timer   = IF past THEN NoTime ELSE t,
                          ![d].expired = past]
  /\ UNCHANGED <<clock, cancelled, op, ws, closing, ka>>

SetLeavesTimer(d, t) ==                                            \* mutant
  /\ dl[d].gen < MaxSets
  /\ LET past == t # NoTime /\ t <= clock
     IN  /\ dl' = [dl EXCEPT ![d].gen     = @ + 1,
                             ![d].due     = t,
                             ![d].timer   = IF past \/ t = NoTime THEN @ ELSE t,
                             ![d].expired = past]
         /\ cancelled' = IF past THEN Cut(d) ELSE cancelled
  /\ UNCHANGED <<clock, op, ws, closing, ka>>

\* A timer that has gone off already cannot be stopped.
Set(d, t) ==
  /\ dl[d].gen < MaxSets
  /\ LET past == t # NoTime /\ t <= clock
     IN  /\ dl' = [dl EXCEPT ![d].gen     = @ + 1,
                             ![d].due     = t,
                             ![d].timer   = IF past THEN NoTime ELSE t,
                             ![d].expired = past]
         /\ cancelled' = IF past THEN Cut(d) ELSE cancelled
  /\ UNCHANGED <<clock, op, ws, closing, ka>>

TimerFires(d) ==
  /\ dl[d].timer \in 1..clock
  /\ dl' = [dl EXCEPT ![d].timer = NoTime, ![d].fired = @ \union {dl[d].gen}]
  /\ UNCHANGED <<clock, cancelled, op, ws, closing, ka>>

ExpiresAnyway(d, gen) ==                                           \* mutant
  /\ gen \in dl[d].fired
  /\ dl' = [dl EXCEPT ![d].fired = @ \ {gen}, ![d].expired = TRUE]
  /\ cancelled' = Cut(d)
  /\ UNCHANGED <<clock, op, ws, closing, ka>>

\* The timer's function; gen tells whether the deadline was moved meanwhile.
Expire(d, gen) ==
  /\ gen \in dl[d].fired
  /\ dl' = [dl EXCEPT ![d].fired = @ \ {gen}, ![d].expired = @ \/ gen = dl[d].gen]
  /\ cancelled' = IF gen = dl[d].gen THEN Cut(d) ELSE cancelled
  /\ UNCHANGED <<clock, op, ws, closing, ka>>

-------------------------------------------------------------------------------
(***************************************************************************)
(* Read and Write.                                                         *)
(***************************************************************************)
Goes(d, from, to) ==
  /\ op[d] = from
  /\ op' = [op EXCEPT ![d] = to]
  /\ UNCHANGED <<clock, dl, cancelled, closing, ka>>

BeginsLate(d) == Goes(d, "idle", "running") /\ UNCHANGED ws        \* mutant

\* With an expired deadline the call fails at once and touches nothing.
Begin(d) ==
  /\ ~dl[d].expired
  /\ Goes(d, "idle", "running")
  /\ UNCHANGED ws

\* A write may be buffered on a connection that is lost.
Succeeds(d) ==
  /\ ws = "open" \/ (d = "write" /\ ws = "lost")
  /\ ~cancelled[d]
  /\ Goes(d, "running", "ok")
  /\ UNCHANGED ws

\* The library closes a connection whose reader's or writer's context ends.
Fails(d) ==
  /\ ws = "closed" \/ cancelled[d]
  /\ Goes(d, "running", "failed")
  /\ ws' = "closed"

Wrap(d) ==
  /\ Goes(d, "failed", IF dl[d].expired THEN "timeout" ELSE "error")
  /\ UNCHANGED ws

End(d) ==
  /\ \E result \in {"ok", "timeout", "error"} : Goes(d, result, "idle")
  /\ UNCHANGED ws

-------------------------------------------------------------------------------
(***************************************************************************)
(* Close, once, by whoever comes first, and the keepalive.                 *)
(***************************************************************************)
Close ==
  /\ closing = "no"
  /\ closing' = "under way"
  /\ UNCHANGED <<clock, dl, cancelled, op, ws, ka>>

\* The closing handshake is answered or given up.
CloseReturns ==
  /\ closing = "under way"
  /\ ws' = "closed"
  /\ cancelled' = [d \in Directions |-> TRUE]
  /\ closing' = "returned"
  /\ UNCHANGED <<clock, dl, op, ka>>

KaGoes(from, to) ==
  /\ ka = from
  /\ ka' = to
  /\ UNCHANGED <<clock, dl, cancelled, op, ws>>

KaPings == KaGoes("idle", "pinging") /\ UNCHANGED closing

\* Only a reader receives the pong.
KaPong ==
  /\ ws = "open" /\ op["read"] = "running"
  /\ KaGoes("pinging", "idle")
  /\ UNCHANGED closing

KaFails == KaGoes("pinging", "failed") /\ UNCHANGED closing

KaGivesUp == KaGoes("failed", "off") /\ UNCHANGED closing          \* mutant

KaCloses ==
  \/ closing = "no" /\ KaGoes("failed", "failed") /\ closing' = "under way"
  \/ closing = "returned" /\ KaGoes("failed", "off") /\ UNCHANGED closing

KaStops == closing = "returned" /\ KaGoes("idle", "off") /\ UNCHANGED closing

-------------------------------------------------------------------------------
Network(to) ==
  /\ ws = "open"
  /\ ws' = to
  /\ UNCHANGED <<clock, dl, cancelled, op, closing, ka>>

\* The relay closes, or the context of a Send or Recv ends.
Broken == Network("closed")

Lost == Network("lost")

Tick ==
  /\ clock < MaxClock
  /\ clock' = clock + 1
  /\ UNCHANGED <<dl, cancelled, op, ws, closing, ka>>

Operate(d) == Begin(d) \/ Succeeds(d) \/ Fails(d) \/ Wrap(d) \/ End(d)

RunKeepalive == KaPings \/ KaPong \/ KaFails \/ KaCloses \/ KaStops

Next ==
  \/ \E d \in Directions, t \in Times : Set(d, t)
  \/ \E d \in Directions : TimerFires(d) \/ Operate(d)
  \/ \E d \in Directions, gen \in 1..MaxSets : Expire(d, gen)
  \/ Close \/ CloseReturns
  \/ RunKeepalive
  \/ Broken \/ Lost
  \/ Tick

Spec == Init /\ [][Next]_vars

\* Timers go off, goroutines that can go on do, a closing handshake ends, the
\* ticker of the keepalive comes round.  No data is obliged to arrive.
FairSpec ==
  /\ Spec
  /\ WF_vars(Tick)
  /\ WF_vars(CloseReturns)
  /\ WF_vars(KaPings \/ KaPong \/ KaFails) /\ WF_vars(KaCloses) /\ WF_vars(KaStops)
  /\ \A d \in Directions :
       /\ WF_vars(TimerFires(d))
       /\ WF_vars(Fails(d) \/ Wrap(d) \/ End(d))
       /\ \A gen \in 1..MaxSets : WF_vars(Expire(d, gen))

-------------------------------------------------------------------------------
\* Every variable has its type (Conn and deadline, conn.go:156-171, 252-259),
\* and an armed timer is that of the deadline in effect.
TypeOK ==
  /\ clock \in 1..MaxClock
  /\ dl \in [Directions -> Deadlines]
  /\ cancelled \in [Directions -> BOOLEAN]
  /\ op \in [Directions -> Ops]
  /\ ws \in {"open", "lost", "closed"}
  /\ closing \in {"no", "under way", "returned"}
  /\ ka \in {"idle", "pinging", "failed", "off"}
  /\ \A d \in Directions :
       dl[d].timer # NoTime => dl[d].timer = dl[d].due /\ ~dl[d].expired

\* A direction is expired only when the deadline in effect has passed: a timer of
\* an earlier deadline, already waiting for the mutex, does not cut short an
\* operation under a later one (conn.go:264-283).
ExpiredIsDue == \A d \in Directions : dl[d].expired => dl[d].due \in 1..clock

\* An operation that reports a timeout was in flight when its deadline passed,
\* and has closed the connection, however the deadline, the peer's close and
\* the moving of the deadline raced (conn.go:151-155, 286-318).
TimeoutCloses ==
  \A d \in Directions : op[d] = "timeout" => cancelled[d] /\ ws = "closed"

\* "A deadline that has already passed when an operation starts fails that
\* operation without affecting the connection" (conn.go:154-155).
IdleExpiryHarmless ==
  [][\A d \in Directions :
       op[d] = "idle" /\ closing' # "returned" => cancelled'[d] = cancelled[d]]_vars

\* A blocked operation gets out: by its deadline, also one set to the past while it is
\* blocked, and with a keepalive when nothing arrives any more (conn.go:29, 249-291,
\* 337-354).
BlockedGetsOut ==
  /\ \A d \in Directions :
       op[d] = "running" /\ dl[d].due \in 1..clock
         ~> op[d] # "running" \/ dl[d].due \notin 1..clock
  /\ ws = "lost" /\ ka # "off" /\ op["read"] = "running" ~> op["read"] # "running"

===============================================================================
