-------------------------------- MODULE Session --------------------------------
(***************************************************************************)
(* One relay session and everyone who calls it: the handlers of the peer   *)
(* connections (internal/relay attaches, counts and detaches) and the ways *)
(* a session is closed (internal/session/store.go: Delete, Reap and        *)
(* CloseAll).  Handlers are many, the slots are two, and any of the        *)
(* callers may take the session's mutex next.                              *)
(***************************************************************************)
EXTENDS SessionOps

CONSTANTS TTLs,      \* the lifetimes a session is created with
          MaxClock,  \* bound: the last instant of a behaviour
          MaxBytes   \* bound: the bytes a direction counts

ASSUME BoundsAssumption ==
  /\ TTLs \subseteq Nat
  /\ MaxClock \in Nat
  /\ MaxBytes \in Nat

VARIABLES sess,   \* the session
          clock,  \* time.Now
          holds   \* per connection: the slot its handler attached it to

vars == <<sess, clock, holds>>

NoRole == "none"

Init ==
  /\ clock = Never + 1
  /\ \E ttl \in TTLs, single \in BOOLEAN : sess = NewSession(clock, ttl, single)
  /\ holds = [c \in Conns |-> NoRole]

-------------------------------------------------------------------------------
\* A refused Attach changes nothing: its handler closes the connection.
Attach(c, role) ==
  /\ holds[c] = NoRole
  /\ AttachOutcome(sess, role, clock) = "ok"
  /\ sess' = Attached(sess, role, c, clock)
  /\ holds' = [holds EXCEPT ![c] = role]
  /\ UNCHANGED clock

Detach(c) ==
  /\ holds[c] # NoRole
  /\ sess' = Detached(sess, holds[c], clock)
  /\ holds' = [holds EXCEPT ![c] = NoRole]
  /\ UNCHANGED clock

AddBytes(c) ==
  /\ holds[c] # NoRole
  /\ sess.bytes[holds[c]] < MaxBytes
  /\ sess' = AddedBytes(sess, holds[c], 1)
  /\ UNCHANGED <<clock, holds>>

CloseWith(reason) ==
  /\ sess' = Closed(sess, reason, clock)
  /\ UNCHANGED <<clock, holds>>

Delete == CloseWith("deleted")

Reap ==
  /\ clock > sess.expiresAt
  /\ CloseWith("expired")

CloseAll == CloseWith("shutdown")

Tick ==
  /\ clock < MaxClock
  /\ clock' = clock + 1
  /\ UNCHANGED <<sess, holds>>

Next ==
  \/ \E c \in Conns, role \in Roles : Attach(c, role)
  \/ \E c \in Conns : Detach(c) \/ AddBytes(c)
  \/ Delete
  \/ Reap
  \/ CloseAll
  \/ Tick

Spec == Init /\ [][Next]_vars

-------------------------------------------------------------------------------
\* Every variable has its type (the fields of Session, session.go:74-98).
TypeOK ==
  /\ sess \in Sessions
  /\ clock \in Nat \ {Never}
  /\ holds \in [Conns -> Roles \union {NoRole}]

\* A slot holds exactly the connection whose handler attached there.  Detach
\* (session.go:236-241) empties the slot without asking who is in it, so this
\* is what makes it safe: a handler never empties a slot it lost to another.
SlotOwner == \A c \in Conns, r \in Roles : sess.slot[r] = c <=> holds[c] = r

\* The phase status reports is the one the slots show, and a session is closed
\* exactly when the channel its handlers watch is (session.go:216-223, 242-248,
\* 302-309): no interleaving leaves a closed session whose peers never hear it,
\* or reopens one.
PhaseMatchesSlots ==
  /\ sess.state = "closed" <=> sess.done
  /\ sess.done <=> sess.closeReason # NoReason
  /\ sess.done <=> sess.closedAt # Never
  /\ ~sess.done =>
       /\ sess.state = "pending"   <=> \A r \in Roles : sess.slot[r] = NoConn
       /\ sess.state = "open"      <=> \A r \in Roles : sess.slot[r] # NoConn

\* A single-attach slot that was used and is empty again belongs to a closed
\* session: the leave and the close are one critical section
\* (session.go:232-254), so no second peer ever meets ErrSlotUsed.
SingleLeaveEnds ==
  \A r \in Roles : Used(sess, r) /\ sess.slot[r] = NoConn => sess.done

\* The lifecycle times a control plane polls are in order, and present when
\* the event they tell of has happened (session.go:200-223, 302-309, 335-341).
Timeline ==
  /\ \A r \in Roles : sess.slot[r] # NoConn => sess.firstAt[r] # Never
  /\ \A r \in Roles : sess.firstAt[r] <= clock
  /\ sess.openedAt # Never =>
       \A r \in Roles : sess.firstAt[r] \in 1..sess.openedAt
  /\ sess.openedAt <= clock
  /\ sess.done => /\ sess.closedAt \in 1..clock
                  /\ sess.openedAt <= sess.closedAt
                  /\ \A r \in Roles : sess.firstAt[r] <= sess.closedAt
  /\ sess.state = "open" => sess.openedAt # Never

\* The first close decides: reason and time stay whatever closes come after,
\* and peers only leave (session.go:182-184, 295-309).
EndIsFinal ==
  [][sess.done =>
       /\ sess'.done
       /\ sess'.closeReason = sess.closeReason
       /\ sess'.closedAt = sess.closedAt
       /\ \A r \in Roles : sess'.slot[r] \in {sess.slot[r], NoConn}]_vars

-------------------------------------------------------------------------------
Present ==
  IF \A r \in Roles : sess.slot[r] = NoConn THEN 0
  ELSE IF \A r \in Roles : sess.slot[r] # NoConn THEN 2
  ELSE 1

Promise == INSTANCE Lifecycle WITH
  Endings  <- {"deleted", "expired", "shutdown"},
  PeerLeft <- "peer_left",
  Running  <- NoReason,
  single   <- sess.single,
  present  <- Present,
  reason   <- sess.closeReason,
  opened   <- sess.openedAt # Never

\* What status shows of a session (session.go:351-373) follows the lifecycle
\* promised to a control plane: peers come and go until one final reason, and a
\* single-attach session ends with its first leave.
KeepsPromise == Promise!Spec

===============================================================================
