--------------------------------- MODULE Relay ---------------------------------
(***************************************************************************)
(* The data plane of one session (internal/relay/relay.go).  Each accepted *)
(* WebSocket has a handler: its own goroutine first attaches, then pumps   *)
(* messages to the counterpart (pump, awaitPeer, forward); a second one    *)
(* watches for the session's end and for the counterpart's absence         *)
(* (watch).  Handlers meet only in the session (SessionOps, under its      *)
(* mutex) and in each other's connections, which a handler may write to    *)
(* and close.                                                              *)
(*                                                                         *)
(* A message is a step, not a value.  Time passes only where a decision    *)
(* needs it: the clock may jump past the session's TTL, an armed timer may *)
(* fire at any moment, and a closing handshake ends when it ends.          *)
(***************************************************************************)
EXTENDS SessionOps

CONSTANTS RoleOf,    \* the role each connection's token authorises
          Endings,   \* how the session's owner may end it
          TTLs, MaxClock, MaxBytes   \* as in Session

ASSUME RoleOfAssumption == RoleOf \in [Conns -> Roles]

ASSUME BoundsAssumption ==
  /\ TTLs \subseteq Nat
  /\ MaxClock \in Nat
  /\ MaxBytes \in Nat

ASSUME EndingsAssumption == Endings \subseteq {"deleted", "expired", "shutdown"}

VARIABLES sess, clock,  \* as in Session
          pc,           \* per handler: where serve and pump are
          target,       \* per handler: the counterpart it last looked up
          watch,        \* per handler: where its watch goroutine is
          armed,        \* per handler: its peer-wait timer may still fire
          cancelled,    \* per handler: its context
          conn,         \* per connection: see Conditions
          code,         \* per connection, until its handler ends: the close
                        \* status it was sent
          partial       \* ... and that it was sent an unfinished message

handler == <<pc, target>>
watcher == <<watch, armed>>
network == <<conn, code, partial>>
vars == <<sess, clock, pc, target, watch, armed, cancelled, conn, code, partial>>

\* Between a successful Attach and the deferred Detach.
AttachedPcs == {"read", "await", "select", "woken", "send", "sending", "lost",
                "kick", "kicking", "abortPeer", "abortSelf", "leave"}
Pcs == {"request", "checked", "accepted", "refused", "end"} \union AttachedPcs

Watches == {"off", "look", "select", "woken", "closing"}

\* A client that has left may go unnoticed; a close of the relay's own takes a
\* handshake.
Conditions == {"none", "open", "left", "closing", "dead"}

Codes == {"none", "normal", "going_away", "policy", "internal"}

Init ==
  /\ clock = Never + 1
  /\ \E ttl \in TTLs, single \in BOOLEAN : sess = NewSession(clock, ttl, single)
  /\ pc        = [h \in Conns |-> "request"]
  /\ target    = [h \in Conns |-> NoConn]
  /\ watch     = [h \in Conns |-> "off"]
  /\ armed     = [h \in Conns |-> FALSE]
  /\ cancelled = [h \in Conns |-> FALSE]
  /\ conn      = [h \in Conns |-> "none"]
  /\ code      = [h \in Conns |-> "none"]
  /\ partial   = [h \in Conns |-> FALSE]

-------------------------------------------------------------------------------
Goto(h, label) == pc' = [pc EXCEPT ![h] = label]

\* websocket.Conn.Close: the first status is sent; the caller then waits until
\* the connection is no longer closing.
StartClose(c, status) ==
  /\ IF conn[c] \in {"open", "left"}
     THEN /\ conn' = [conn EXCEPT ![c] = "closing"]
          /\ code' = [code EXCEPT ![c] = status]
     ELSE UNCHANGED <<conn, code>>
  /\ UNCHANGED partial

CloseReturns(c) == conn[c] # "closing"

Forgotten(h) ==
  /\ code' = [code EXCEPT ![h] = "none"]
  /\ partial' = [partial EXCEPT ![h] = FALSE]
  /\ UNCHANGED conn

\* Attach and Detach close the channel that Peer handed out, which wakes every
\* goroutine that looked since the previous one.
Woken(where) == [h \in Conns |-> IF where[h] = "select" THEN "woken" ELSE where[h]]

-------------------------------------------------------------------------------
(***************************************************************************)
(* serve: refuse early, upgrade, attach.                                   *)
(***************************************************************************)
\* 404, 401 or 410; the session may close before the next look at it.
Request(h) ==
  /\ pc[h] = "request"
  /\ \/ sess.closedAt = Never /\ Goto(h, "checked")
     \/ Goto(h, "end")
  /\ UNCHANGED <<sess, clock, target, watcher, cancelled, network>>

\* 409, or the upgrade fails.
Upgrade(h) ==
  /\ pc[h] = "checked"
  /\ \/ /\ SlotFree(sess, RoleOf[h])
        /\ Goto(h, "accepted")
        /\ conn' = [conn EXCEPT ![h] = "open"]
     \/ Goto(h, "end") /\ UNCHANGED conn
  /\ UNCHANGED <<sess, clock, target, watcher, cancelled, code, partial>>

AttachSilently(h) ==                                               \* mutant
  /\ pc[h] = "accepted"
  /\ AttachOutcome(sess, RoleOf[h], clock) = "ok"
  /\ sess' = Attached(sess, RoleOf[h], h, clock)
  /\ Goto(h, "read")
  /\ watch' = [watch EXCEPT ![h] = "look"]
  /\ armed' = [armed EXCEPT ![h] = TRUE]
  /\ UNCHANGED <<clock, target, cancelled, network>>

Attach(h) ==
  /\ pc[h] = "accepted"
  /\ AttachOutcome(sess, RoleOf[h], clock) = "ok"
  /\ sess' = Attached(sess, RoleOf[h], h, clock)
  /\ pc' = [Woken(pc) EXCEPT ![h] = "read"]
  /\ watch' = [Woken(watch) EXCEPT ![h] = "look"]
  /\ armed' = [armed EXCEPT ![h] = TRUE]
  /\ UNCHANGED <<clock, target, cancelled, network>>

Refuse(h) ==
  /\ pc[h] = "accepted"
  /\ AttachOutcome(sess, RoleOf[h], clock) # "ok"
  /\ StartClose(h, "policy")
  /\ Goto(h, "refused")
  /\ UNCHANGED <<sess, clock, target, watcher, cancelled>>

RefusedDetaches(h) ==                                              \* mutant
  /\ pc[h] = "refused"
  /\ CloseReturns(h)
  /\ Goto(h, "end")
  /\ sess' = Detached(sess, RoleOf[h], clock)
  /\ Forgotten(h)
  /\ UNCHANGED <<clock, target, watcher, cancelled>>

Refused(h) ==
  /\ pc[h] = "refused"
  /\ CloseReturns(h)
  /\ Goto(h, "end")
  /\ Forgotten(h)
  /\ UNCHANGED <<sess, clock, target, watcher, cancelled>>

(***************************************************************************)
(* pump: read a message, find the counterpart, forward it.                 *)
(***************************************************************************)
ReadMessage(h) ==
  /\ pc[h] = "read"
  /\ conn[h] \in {"open", "closing"}
  /\ ~cancelled[h]
  /\ Goto(h, "await")
  /\ UNCHANGED <<sess, clock, target, watcher, cancelled, network>>

\* A failed read ends the connection (websocket.Conn.Reader).
ReadFails(h) ==
  /\ pc[h] = "read"
  /\ conn[h] \in {"left", "dead"} \/ cancelled[h]
  /\ conn' = [conn EXCEPT ![h] = "dead"]
  /\ target' = [target EXCEPT ![h] = Peer(sess, RoleOf[h])]
  /\ Goto(h, "lost")
  /\ UNCHANGED <<sess, clock, watcher, cancelled, code, partial>>

\* The counterpart of a session that ended is left to its own watch.
CheckEnded(h) ==
  /\ pc[h] = "lost"
  /\ Goto(h, IF sess.done \/ target[h] = NoConn THEN "leave" ELSE "kick")
  /\ UNCHANGED <<sess, clock, target, watcher, cancelled, network>>

Kick(h) ==
  /\ pc[h] = "kick"
  /\ StartClose(target[h], "normal")
  /\ Goto(h, "kicking")
  /\ UNCHANGED <<sess, clock, target, watcher, cancelled>>

Kicked(h) ==
  /\ pc[h] = "kicking"
  /\ CloseReturns(target[h])
  /\ Goto(h, "leave")
  /\ UNCHANGED <<sess, clock, target, watcher, cancelled, network>>

SkipsWait(h) ==                                                    \* mutant
  /\ pc[h] = "await"
  /\ Goto(h, "send")
  /\ target' = [target EXCEPT ![h] = Peer(sess, RoleOf[h])]
  /\ UNCHANGED <<sess, clock, watcher, cancelled, network>>

AwaitPeer(h) ==
  /\ pc[h] = "await"
  /\ IF Peer(sess, RoleOf[h]) = NoConn
     THEN Goto(h, "select") /\ UNCHANGED target
     ELSE /\ Goto(h, "send")
          /\ target' = [target EXCEPT ![h] = Peer(sess, RoleOf[h])]
  /\ UNCHANGED <<sess, clock, watcher, cancelled, network>>

AwaitWakes(h) ==
  /\ pc[h] = "woken"
  /\ Goto(h, "await")
  /\ UNCHANGED <<sess, clock, target, watcher, cancelled, network>>

AwaitCancelled(h) ==
  /\ pc[h] \in {"select", "woken"}
  /\ cancelled[h]
  /\ Goto(h, "leave")
  /\ UNCHANGED <<sess, clock, target, watcher, cancelled, network>>

\* Part of the message has reached the counterpart.
SendPart(h) ==
  /\ pc[h] = "send"
  /\ conn[target[h]] \in {"open", "left"}
  /\ Goto(h, "sending")
  /\ partial' = [partial EXCEPT ![target[h]] = TRUE]
  /\ UNCHANGED <<sess, clock, target, watcher, cancelled, conn, code>>

Counted(h) ==
  IF sess.bytes[RoleOf[h]] < MaxBytes THEN AddedBytes(sess, RoleOf[h], 1) ELSE sess

SendAll(h) ==
  /\ pc[h] \in {"send", "sending"}
  /\ conn[target[h]] \in {"open", "left"}
  /\ sess' = Counted(h)
  /\ partial' = [partial EXCEPT ![target[h]] = FALSE]
  /\ target' = [target EXCEPT ![h] = NoConn]
  /\ Goto(h, "read")
  /\ UNCHANGED <<clock, watcher, cancelled, conn, code>>

\* What makes forward fail: either end is lost, or the context is cancelled.
\* A write under a cancelled context may take the destination down unclosed.
SendBroken(h) ==
  \/ cancelled[h]
  \/ \E c \in {h, target[h]} : conn[c] \in {"left", "dead"}

SendFailsCleanly(h) ==                                             \* mutant
  /\ pc[h] \in {"send", "sending"}
  /\ SendBroken(h)
  /\ sess' \in {sess, Counted(h)}
  /\ \/ StartClose(target[h], "normal")
     \/ /\ cancelled[h]
        /\ conn' = [conn EXCEPT ![target[h]] = "dead"]
        /\ UNCHANGED <<code, partial>>
  /\ Goto(h, "abortPeer")
  /\ UNCHANGED <<clock, target, watcher, cancelled>>

SendFails(h) ==
  /\ pc[h] \in {"send", "sending"}
  /\ SendBroken(h)
  /\ sess' \in {sess, Counted(h)}
  /\ \/ StartClose(target[h], "internal")
     \/ /\ cancelled[h]
        /\ conn' = [conn EXCEPT ![target[h]] = "dead"]
        /\ UNCHANGED <<code, partial>>
  /\ Goto(h, "abortPeer")
  /\ UNCHANGED <<clock, target, watcher, cancelled>>

AbortSelf(h) ==
  /\ pc[h] = "abortPeer"
  /\ CloseReturns(target[h])
  /\ StartClose(h, "internal")
  /\ Goto(h, "abortSelf")
  /\ UNCHANGED <<sess, clock, target, watcher, cancelled>>

Aborted(h) ==
  /\ pc[h] = "abortSelf"
  /\ CloseReturns(h)
  /\ Goto(h, "leave")
  /\ UNCHANGED <<sess, clock, target, watcher, cancelled, network>>

\* The deferred calls of serve: cancel, then Detach.
Leave(h) ==
  /\ pc[h] = "leave"
  /\ cancelled' = [cancelled EXCEPT ![h] = TRUE]
  /\ sess' = Detached(sess, RoleOf[h], clock)
  /\ pc' = [Woken(pc) EXCEPT ![h] = "end"]
  /\ target' = [target EXCEPT ![h] = NoConn]
  /\ watch' = Woken(watch)
  /\ Forgotten(h)
  /\ UNCHANGED <<clock, armed>>

-------------------------------------------------------------------------------
(***************************************************************************)
(* watch: the select may take any branch that is ready.                    *)
(***************************************************************************)
StopsTimer(h) ==                                                   \* mutant
  /\ watch[h] = "look"
  /\ watch' = [watch EXCEPT ![h] = "select"]
  /\ armed' = [armed EXCEPT ![h] = FALSE]
  /\ UNCHANGED <<sess, clock, handler, cancelled, network>>

WatchLook(h) ==
  /\ watch[h] = "look"
  /\ watch' = [watch EXCEPT ![h] = "select"]
  /\ armed' = [armed EXCEPT ![h] = @ /\ Peer(sess, RoleOf[h]) = NoConn]
  /\ UNCHANGED <<sess, clock, handler, cancelled, network>>

WatchWakes(h) ==
  /\ watch[h] = "woken"
  /\ watch' = [watch EXCEPT ![h] = "look"]
  /\ UNCHANGED <<sess, clock, handler, armed, cancelled, network>>

WatchCancelled(h) ==
  /\ watch[h] \in {"select", "woken"}
  /\ cancelled[h]
  /\ watch' = [watch EXCEPT ![h] = "off"]
  /\ armed' = [armed EXCEPT ![h] = FALSE]
  /\ UNCHANGED <<sess, clock, handler, cancelled, network>>

\* Both the session's end and the timer close the connection the same way.
Disconnect(h) ==
  /\ watch[h] \in {"select", "woken"}
  /\ watch' = [watch EXCEPT ![h] = "closing"]
  /\ armed' = [armed EXCEPT ![h] = FALSE]
  /\ StartClose(h, "going_away")
  /\ UNCHANGED <<sess, clock, handler, cancelled>>

WatchClosed(h) == sess.done /\ Disconnect(h)

WatchTimeout(h) == armed[h] /\ Disconnect(h)

ForgetsCancel(h) ==                                                \* mutant
  /\ watch[h] = "closing"
  /\ CloseReturns(h)
  /\ watch' = [watch EXCEPT ![h] = "off"]
  /\ UNCHANGED <<sess, clock, handler, armed, cancelled, network>>

WatchReturns(h) ==
  /\ watch[h] = "closing"
  /\ CloseReturns(h)
  /\ watch' = [watch EXCEPT ![h] = "off"]
  /\ cancelled' = [cancelled EXCEPT ![h] = TRUE]
  /\ UNCHANGED <<sess, clock, handler, armed, network>>

-------------------------------------------------------------------------------
(***************************************************************************)
(* What the handlers do not decide.                                        *)
(***************************************************************************)
\* The closing handshake is answered, or given up after five seconds.
CloseEnds(c) ==
  /\ conn[c] = "closing"
  /\ conn' = [conn EXCEPT ![c] = "dead"]
  /\ UNCHANGED <<sess, clock, handler, watcher, cancelled, code, partial>>

\* The client closes, or its network does.
ClientLeaves(c) ==
  /\ conn[c] = "open"
  /\ conn' = [conn EXCEPT ![c] = "left"]
  /\ UNCHANGED <<sess, clock, handler, watcher, cancelled, code, partial>>

CloseWith(reason) ==
  /\ sess' = Closed(sess, reason, clock)
  /\ UNCHANGED <<clock, handler, watcher, cancelled, network>>

EndSession ==
  \E reason \in Endings :
    /\ reason = "expired" => clock > sess.expiresAt
    /\ CloseWith(reason)

Tick ==
  /\ clock < MaxClock
  /\ clock' = clock + 1
  /\ UNCHANGED <<sess, handler, watcher, cancelled, network>>

-------------------------------------------------------------------------------
Serve(h) ==
  \/ Request(h) \/ Upgrade(h) \/ Attach(h) \/ Refuse(h) \/ Refused(h)
  \/ ReadMessage(h) \/ ReadFails(h) \/ CheckEnded(h) \/ Kick(h) \/ Kicked(h)
  \/ AwaitPeer(h) \/ AwaitWakes(h) \/ AwaitCancelled(h)
  \/ SendPart(h) \/ SendAll(h) \/ SendFails(h) \/ AbortSelf(h) \/ Aborted(h)
  \/ Leave(h)

Watch(h) ==
  \/ WatchLook(h) \/ WatchWakes(h) \/ WatchCancelled(h)
  \/ WatchClosed(h) \/ WatchReturns(h)

Next ==
  \/ \E h \in Conns : Serve(h) \/ Watch(h) \/ WatchTimeout(h) \/ CloseEnds(h) \/ ClientLeaves(h)
  \/ EndSession
  \/ Tick

Spec == Init /\ [][Next]_vars

\* A blocked write does not notice that its own client is gone.
SendCannotGoOn(h) ==
  /\ pc[h] \in {"send", "sending"}
  /\ cancelled[h] \/ conn[target[h]] = "dead"

\* The scheduler runs every goroutine that can go on, a closing handshake ends,
\* and a read or write that cannot succeed fails.  No client is obliged to dial,
\* send, or leave, and nothing makes a write to a slow counterpart complete.
Fairness ==
  \A h \in Conns :
    /\ WF_vars(Attach(h) \/ Refuse(h) \/ Refused(h))
    /\ WF_vars(ReadFails(h) \/ CheckEnded(h) \/ Kick(h) \/ Kicked(h) \/ Leave(h))
    /\ WF_vars(AwaitPeer(h) \/ AwaitWakes(h) \/ AwaitCancelled(h))
    /\ WF_vars(SendCannotGoOn(h) /\ SendFails(h))
    /\ WF_vars(AbortSelf(h) \/ Aborted(h))
    /\ WF_vars(Watch(h))
    /\ WF_vars(CloseEnds(h))

\* Peer-wait timers fire in the end, unless they are stopped.
TimersFire == \A h \in Conns : WF_vars(WatchTimeout(h))

FairSpec == Spec /\ Fairness /\ TimersFire

-------------------------------------------------------------------------------
IsAttached(h) == pc[h] \in AttachedPcs

Alone(h) == Peer(sess, RoleOf[h]) = NoConn

\* Every variable has its type, and a handler writes to or closes a counterpart
\* only when it has one (Handler.serve and what it calls, relay.go:56-216).
TypeOK ==
  /\ sess \in Sessions
  /\ clock \in Nat \ {Never}
  /\ pc \in [Conns -> Pcs]
  /\ target \in [Conns -> Conns \union {NoConn}]
  /\ watch \in [Conns -> Watches]
  /\ armed \in [Conns -> BOOLEAN]
  /\ cancelled \in [Conns -> BOOLEAN]
  /\ conn \in [Conns -> Conditions]
  /\ code \in [Conns -> Codes]
  /\ partial \in [Conns -> BOOLEAN]
  /\ \A h \in Conns :
       pc[h] \in {"send", "sending", "kick", "kicking", "abortPeer"}
       => target[h] \in Conns

\* No attach or detach is missed between looking and waiting: a handler that
\* sleeps on an early message is alone, and a watch that sleeps beside a
\* counterpart has stopped its timer (relay.go:135-148, 194-202 with
\* session.go:256-277).
NoLostWakeup ==
  \A h \in Conns :
    /\ pc[h] = "select" => Alone(h)
    /\ watch[h] = "select" /\ ~Alone(h) => ~armed[h]

\* Two handlers never write to the same client, so messages from a connection
\* and from its successor in the slot cannot interleave (relay.go:108,
\* 180, 206-216; session.go:191-214).
SoleWriter ==
  \A g, h \in Conns :
    /\ {pc[g], pc[h]} \subseteq {"send", "sending"}
    /\ target[g] = target[h]
    => g = h

\* A client that was sent the beginning of a message is never told that its
\* peer disconnected normally (relay.go:170, 182-186).
PrefixNotClean == \A c \in Conns : partial[c] => code[c] # "normal"

Holds == [h \in Conns |-> IF IsAttached(h) THEN RoleOf[h] ELSE "none"]

Slots == INSTANCE Session WITH holds <- Holds

\* Whatever the handlers and their watches do, the session is used as Session
\* says: attached once, counted while attached, detached by its own handler
\* (relay.go:104-120).
UsesSession == Slots!Spec

\* Once a session has ended, every handler still attached gets out, wherever it
\* is blocked (relay.go:113-118, 142-144, 199-200).
EndDrains == sess.done ~> \A h \in Conns : ~IsAttached(h)

\* The first peer does not wait for its counterpart for ever
\* (relay.go:25-27, 145-147).
FirstWaitBounded ==
  \A h \in Conns : armed[h] /\ Alone(h) ~> ~Alone(h) \/ ~IsAttached(h)

\* Early data is not stuck: a handler that holds a message while its
\* counterpart is there forwards it or finds out that it cannot
\* (relay.go:156-158, 176, 192-204).
HeldMessageMoves ==
  \A h \in Conns :
    pc[h] \in {"await", "select", "woken"} /\ ~Alone(h)
      ~> pc[h] \notin {"await", "select", "woken"} \/ Alone(h)

-------------------------------------------------------------------------------
\* "a peer disconnects (relay closes the other)" and "bounds how long the
\* first-arriving peer waits for its counterpart"
\* (docs/guide/architecture.md:35, 46): a peer whose counterpart is not there
\* meets one, or is disconnected.
AloneNotForever ==
  \A h \in Conns :
    IsAttached(h) /\ conn[h] = "open" /\ Alone(h) ~> ~Alone(h) \/ conn[h] # "open"

\* A dead connection gives its slot back, or "an immediate redial" fails
\* (CHANGELOG.md:45-47).
DeadSlotFreed ==
  \A h \in Conns : IsAttached(h) /\ conn[h] = "dead" ~> ~IsAttached(h)

===============================================================================
