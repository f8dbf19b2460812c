------------------------------ MODULE SessionOps ------------------------------
(***************************************************************************)
(* The operations of one relay session (internal/session/session.go) as    *)
(* operators on the session's value.  Every operation of the code runs     *)
(* under the session's mutex, so each is one atomic function of the value; *)
(* the modules that extend this one say who calls them, and in what order. *)
(*                                                                         *)
(* A time is a natural number and Never is Go's zero time.  What no        *)
(* decision of the code reads (id, label, lastActivity, the conn's attach  *)
(* time) is left out.  The broadcast channel `changed` belongs to its      *)
(* waiters and is modelled with them, in Relay.                            *)
(***************************************************************************)
EXTENDS Naturals

CONSTANTS Conns,   \* the relay's ends of WebSocket connections
          NoConn   \* the nil connection of an empty slot

ASSUME NoConnAssumption == NoConn \notin Conns

Never == 0

Roles == {"initiator", "responder"}

Other(role) == IF role = "initiator" THEN "responder" ELSE "initiator"

Phases == {"pending", "half_open", "open", "closed"}

Reasons == {"deleted", "expired", "peer_left", "shutdown"}

NoReason == "none"

Sessions ==
  [state       : Phases,
   single      : BOOLEAN,                          \* SingleAttach
   expiresAt   : Nat,
   slot        : [Roles -> Conns \union {NoConn}], \* initiator, responder
   firstAt     : [Roles -> Nat],                   \* initiatorAt, responderAt
   openedAt    : Nat,
   closedAt    : Nat,
   closeReason : Reasons \union {NoReason},
   done        : BOOLEAN,                          \* closeOnce, channel closed
   bytes       : [Roles -> Nat]]                   \* bytesIn, bytesOut

NewSession(now, ttl, single) ==
  [state       |-> "pending",
   single      |-> single,
   expiresAt   |-> now + ttl,
   slot        |-> [r \in Roles |-> NoConn],
   firstAt     |-> [r \in Roles |-> Never],
   openedAt    |-> Never,
   closedAt    |-> Never,
   closeReason |-> NoReason,
   done        |-> FALSE,
   bytes       |-> [r \in Roles |-> 0]]

Used(s, role) == s.single /\ s.firstAt[role] # Never

SlotFree(s, role) == s.slot[role] = NoConn /\ ~Used(s, role)

\* The connection in the other slot, as the handler of slot `role` sees it.
Peer(s, role) == s.slot[Other(role)]

(***************************************************************************)
(* Closing: only the first close counts, whatever the reason.              *)
(***************************************************************************)
LastReasonWins(s, reason, now) ==                                  \* mutant
  [s EXCEPT !.state = "closed", !.closedAt = now,
            !.closeReason = reason, !.done = TRUE]

Closed(s, reason, now) ==
  IF s.done
  THEN s
  ELSE [s EXCEPT !.state = "closed", !.closedAt = now,
                 !.closeReason = reason, !.done = TRUE]

(***************************************************************************)
(* Attaching: the checks in the order the code makes them.                 *)
(***************************************************************************)
IgnoresOccupant(s, role, now) ==                                   \* mutant
  IF s.state = "closed" THEN "ErrClosed"
  ELSE IF now > s.expiresAt THEN "ErrExpired"
  ELSE IF Used(s, role) THEN "ErrSlotUsed"
  ELSE "ok"

AttachOutcome(s, role, now) ==
  IF s.state = "closed" THEN "ErrClosed"
  ELSE IF now > s.expiresAt THEN "ErrExpired"
  ELSE IF s.slot[role] # NoConn THEN "ErrSlotTaken"
  ELSE IF Used(s, role) THEN "ErrSlotUsed"
  ELSE "ok"

RestampsAttach(s, role, conn, now) ==                              \* mutant
  LET paired == s.slot[Other(role)] # NoConn
  IN  [s EXCEPT !.slot[role]    = conn,
                !.firstAt[role] = now,
                !.state         = IF paired THEN "open" ELSE "half_open",
                !.openedAt      = IF paired /\ @ = Never THEN now ELSE @]

Attached(s, role, conn, now) ==
  LET paired == s.slot[Other(role)] # NoConn
  IN  [s EXCEPT !.slot[role]    = conn,
                !.firstAt[role] = IF @ = Never THEN now ELSE @,
                !.state         = IF paired THEN "open" ELSE "half_open",
                !.openedAt      = IF paired /\ @ = Never THEN now ELSE @]

(***************************************************************************)
(* Detaching empties the slot whoever is in it; a single-attach session    *)
(* ends with the first peer that leaves.                                   *)
(***************************************************************************)
Emptied(s, role) ==
  [s EXCEPT !.slot[role] = NoConn,
            !.state      = IF @ = "closed" THEN "closed"
                           ELSE IF s.slot[Other(role)] = NoConn THEN "pending"
                           ELSE "half_open"]

DetachReopens(s, role, now) ==                                     \* mutant
  [s EXCEPT !.slot[role] = NoConn,
            !.state      = IF s.slot[Other(role)] = NoConn THEN "pending"
                           ELSE "half_open"]

DetachAlwaysPending(s, role, now) ==                               \* mutant
  [s EXCEPT !.slot[role] = NoConn,
            !.state      = IF @ = "closed" THEN "closed" ELSE "pending"]

DetachLeavesSingleOpen(s, role, now) == Emptied(s, role)           \* mutant

Detached(s, role, now) ==
  LET t == Emptied(s, role)
  IN  IF t.single /\ t.state # "closed"
      THEN Closed(t, "peer_left", now)
      ELSE t

SubtractsBytes(s, from, n) == [s EXCEPT !.bytes[from] = @ - n]     \* mutant

AddedBytes(s, from, n) == [s EXCEPT !.bytes[from] = @ + n]

===============================================================================
