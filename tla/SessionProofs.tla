----------------------------- MODULE SessionProofs -----------------------------
(***************************************************************************)
(* The invariants of Session, proved for any set of connections, any       *)
(* lifetimes and any bounds.  Each operation of SessionOps is first told   *)
(* field by field; the inductive step then reasons about fields only.      *)
(***************************************************************************)
EXTENDS Session, TLAPS

\* The roles are two, each the other's other; no role and no reason are none.
LEMMA RoleFacts ==
  /\ \A r \in Roles : Other(r) \in Roles /\ Other(r) # r
  /\ \A r, q \in Roles : q = r \/ q = Other(r)
  /\ NoRole \notin Roles
  /\ NoReason \notin Reasons
BY DEF Roles, Other, NoRole, NoReason, Reasons

\* A new session, field by field.
LEMMA NewSessionFields ==
  ASSUME NEW now \in Nat, NEW ttl \in Nat, NEW single \in BOOLEAN
  PROVE  LET s == NewSession(now, ttl, single) IN
         /\ s \in Sessions
         /\ s.state = "pending" /\ ~s.done
         /\ s.closeReason = NoReason /\ s.closedAt = Never /\ s.openedAt = Never
         /\ \A r \in Roles : s.slot[r] = NoConn /\ s.firstAt[r] = Never
BY DEF NewSession, Sessions, Phases, Never

\* Attach, field by field.
LEMMA AttachedFields ==
  ASSUME NEW s \in Sessions, NEW role \in Roles, NEW c \in Conns,
         NEW now \in Nat
  PROVE  LET t == Attached(s, role, c, now) IN
         /\ t \in Sessions
         /\ t.single = s.single /\ t.done = s.done
         /\ t.closedAt = s.closedAt /\ t.closeReason = s.closeReason
         /\ t.slot = [s.slot EXCEPT ![role] = c]
         /\ t.firstAt = [s.firstAt EXCEPT ![role] = IF @ = Never THEN now ELSE @]
         /\ t.state = IF s.slot[Other(role)] # NoConn THEN "open" ELSE "half_open"
         /\ t.openedAt = IF s.slot[Other(role)] # NoConn /\ s.openedAt = Never
                         THEN now ELSE s.openedAt
BY RoleFacts DEF Attached, Sessions, Phases

\* Detach before it closes, field by field.
LEMMA EmptiedFields ==
  ASSUME NEW s \in Sessions, NEW role \in Roles
  PROVE  LET t == Emptied(s, role) IN
         /\ t \in Sessions
         /\ t.single = s.single /\ t.done = s.done
         /\ t.closedAt = s.closedAt /\ t.closeReason = s.closeReason
         /\ t.slot = [s.slot EXCEPT ![role] = NoConn]
         /\ t.firstAt = s.firstAt
         /\ t.state = IF s.state = "closed" THEN "closed"
                      ELSE IF s.slot[Other(role)] = NoConn THEN "pending"
                      ELSE "half_open"
         /\ t.openedAt = s.openedAt
BY DEF Emptied, Sessions, Phases

\* closeOnce, field by field: the first decides.
LEMMA ClosedFields ==
  ASSUME NEW s \in Sessions, NEW reason \in Reasons, NEW now \in Nat
  PROVE  LET t == Closed(s, reason, now) IN
         /\ t \in Sessions
         /\ t.single = s.single /\ t.slot = s.slot
         /\ t.firstAt = s.firstAt /\ t.openedAt = s.openedAt
         /\ t.done
         /\ s.done => t = s
         /\ ~s.done => /\ t.state = "closed"
                       /\ t.closedAt = now /\ t.closeReason = reason
BY DEF Closed, Sessions, Phases

\* AddBytes changes nothing that a decision reads.
LEMMA AddedBytesFields ==
  ASSUME NEW s \in Sessions, NEW from \in Roles, NEW n \in Nat
  PROVE  LET t == AddedBytes(s, from, n) IN
         /\ t \in Sessions
         /\ t.single = s.single /\ t.slot = s.slot
         /\ t.firstAt = s.firstAt /\ t.openedAt = s.openedAt
         /\ t.done = s.done /\ t.state = s.state
         /\ t.closedAt = s.closedAt /\ t.closeReason = s.closeReason
BY DEF AddedBytes, Sessions

-------------------------------------------------------------------------------
\* The run checks this conjunction too; each part leans on the others: a taken
\* slot is a held one, so a leave empties only its own, and only an emptied
\* used slot can close a single-attach session.
IInv ==
  /\ TypeOK
  /\ SlotOwner
  /\ PhaseMatchesSlots
  /\ SingleLeaveEnds
  /\ Timeline

LEMMA InitIInv == Init => IInv
<1> SUFFICES ASSUME Init PROVE IInv
  OBVIOUS
<1> USE RoleFacts, NoConnAssumption, BoundsAssumption
<1>1. clock = 1 /\ clock \in Nat \ {Never}
  BY DEF Init, Never
<1>2. PICK ttl \in TTLs, single \in BOOLEAN : sess = NewSession(clock, ttl, single)
  BY DEF Init
<1>3. /\ sess \in Sessions
      /\ sess.state = "pending" /\ ~sess.done
      /\ sess.closeReason = NoReason /\ sess.closedAt = Never /\ sess.openedAt = Never
      /\ \A r \in Roles : sess.slot[r] = NoConn /\ sess.firstAt[r] = Never
  BY <1>1, <1>2, NewSessionFields
<1>4. holds = [c \in Conns |-> NoRole]
  BY DEF Init
<1>5. TypeOK
  BY <1>1, <1>3, <1>4 DEF TypeOK
<1>6. SlotOwner
  BY <1>3, <1>4 DEF SlotOwner
<1>7. PhaseMatchesSlots
  BY <1>3 DEF PhaseMatchesSlots, Roles
<1>8. SingleLeaveEnds
  BY <1>3 DEF SingleLeaveEnds, Used
<1>9. Timeline
  BY <1>1, <1>3 DEF Timeline, Never
<1> QED
  BY <1>5, <1>6, <1>7, <1>8, <1>9 DEF IInv

LEMMA AttachIInv ==
  ASSUME IInv, NEW c \in Conns, NEW role \in Roles, Attach(c, role)
  PROVE  IInv'
<1> USE RoleFacts, NoConnAssumption
<1>1. /\ sess \in Sessions
      /\ clock \in Nat /\ clock # Never /\ clock' = clock
      /\ holds \in [Conns -> Roles \union {NoRole}]
  BY DEF IInv, TypeOK, Attach
<1>2. /\ holds[c] = NoRole
      /\ holds' = [holds EXCEPT ![c] = role]
      /\ sess.state # "closed"
      /\ sess.slot[role] = NoConn
      /\ ~Used(sess, role)
  BY DEF Attach, AttachOutcome
<1>3. /\ sess' \in Sessions
      /\ sess'.single = sess.single /\ sess'.done = sess.done
      /\ sess'.closedAt = sess.closedAt /\ sess'.closeReason = sess.closeReason
      /\ sess'.slot = [sess.slot EXCEPT ![role] = c]
      /\ sess'.firstAt =
           [sess.firstAt EXCEPT ![role] = IF @ = Never THEN clock ELSE @]
      /\ sess'.state =
           IF sess.slot[Other(role)] # NoConn THEN "open" ELSE "half_open"
      /\ sess'.openedAt =
           IF sess.slot[Other(role)] # NoConn /\ sess.openedAt = Never
           THEN clock ELSE sess.openedAt
  BY <1>1, AttachedFields DEF Attach
<1>4. /\ sess.slot \in [Roles -> Conns \union {NoConn}]
      /\ sess.firstAt \in [Roles -> Nat]
      /\ sess.openedAt \in Nat /\ sess.closedAt \in Nat
      /\ sess.done \in BOOLEAN
  BY <1>1 DEF Sessions
<1>5. ~sess.done
  BY <1>2 DEF IInv, PhaseMatchesSlots
<1>6. /\ sess'.slot[role] = c
      /\ sess'.slot[Other(role)] = sess.slot[Other(role)]
      /\ sess'.firstAt[role] =
           IF sess.firstAt[role] = Never THEN clock ELSE sess.firstAt[role]
      /\ sess'.firstAt[Other(role)] = sess.firstAt[Other(role)]
  BY <1>3, <1>4
<1>7. TypeOK'
  BY <1>1, <1>2, <1>3 DEF TypeOK
<1>8. SlotOwner'
  <2> SUFFICES ASSUME NEW d \in Conns, NEW r \in Roles
               PROVE  sess'.slot[r] = d <=> holds'[d] = r
    BY DEF SlotOwner
  <2>1. sess.slot[r] = d <=> holds[d] = r
    BY DEF IInv, SlotOwner
  <2>2. CASE d = c
    <3>1. holds'[d] = role /\ sess.slot[r] # c
      BY <1>1, <1>2, <2>1, <2>2
    <3> QED
      BY <1>6, <2>2, <3>1
  <2>3. CASE d # c
    <3>1. holds'[d] = holds[d] /\ sess.slot[role] # d
      BY <1>1, <1>2, <2>3
    <3> QED
      BY <1>6, <2>1, <2>3, <3>1
  <2> QED
    BY <2>2, <2>3
<1>9. PhaseMatchesSlots'
  BY <1>2, <1>3, <1>4, <1>5, <1>6 DEF IInv, PhaseMatchesSlots
<1>10. SingleLeaveEnds'
  BY <1>3, <1>5, <1>6 DEF IInv, SingleLeaveEnds, Used
<1>11. Timeline'
  <2>1. \A r \in Roles : sess'.slot[r] # NoConn => sess'.firstAt[r] # Never
    BY <1>1, <1>6 DEF IInv, Timeline
  <2>2. \A r \in Roles : sess'.firstAt[r] <= clock'
    BY <1>1, <1>4, <1>6 DEF IInv, Timeline
  <2>3. sess'.openedAt # Never =>
          \A r \in Roles : sess'.firstAt[r] \in 1..sess'.openedAt
    BY <1>1, <1>3, <1>4, <1>6 DEF IInv, Timeline, Never
  <2>4. sess'.openedAt <= clock'
    BY <1>1, <1>3, <1>4 DEF IInv, Timeline
  <2>5. sess'.state = "open" => sess'.openedAt # Never
    BY <1>1, <1>3 DEF IInv, Timeline
  <2> QED
    BY <1>3, <1>5, <2>1, <2>2, <2>3, <2>4, <2>5 DEF Timeline
<1> QED
  BY <1>7, <1>8, <1>9, <1>10, <1>11 DEF IInv

LEMMA CloseIInv ==
  ASSUME IInv, NEW reason \in Reasons, CloseWith(reason)
  PROVE  IInv'
<1> USE RoleFacts
<1>1. /\ sess \in Sessions
      /\ clock \in Nat /\ clock # Never /\ clock' = clock
      /\ holds' = holds
  BY DEF IInv, TypeOK, CloseWith
<1>2. /\ sess' \in Sessions
      /\ sess'.single = sess.single /\ sess'.slot = sess.slot
      /\ sess'.firstAt = sess.firstAt /\ sess'.openedAt = sess.openedAt
      /\ sess'.done
      /\ sess.done => sess' = sess
      /\ ~sess.done => /\ sess'.state = "closed"
                       /\ sess'.closedAt = clock /\ sess'.closeReason = reason
  BY <1>1, ClosedFields DEF CloseWith
<1>3. TypeOK' /\ SlotOwner' /\ SingleLeaveEnds'
  BY <1>1, <1>2 DEF IInv, TypeOK, SlotOwner, SingleLeaveEnds, Used
<1>4. CASE sess.done
  BY <1>1, <1>2, <1>3, <1>4 DEF IInv, PhaseMatchesSlots, Timeline
<1>5. CASE ~sess.done
  <2>1. PhaseMatchesSlots'
    BY <1>1, <1>2, <1>5 DEF PhaseMatchesSlots
  <2>2. Timeline'
    BY <1>1, <1>2, <1>5 DEF IInv, Timeline, Never
  <2> QED
    BY <1>3, <2>1, <2>2 DEF IInv
<1> QED
  BY <1>4, <1>5

LEMMA DetachIInv ==
  ASSUME IInv, NEW c \in Conns, Detach(c)
  PROVE  IInv'
<1> USE RoleFacts, NoConnAssumption
<1> DEFINE role == holds[c]
           t    == Emptied(sess, role)
<1>1. /\ sess \in Sessions
      /\ clock \in Nat /\ clock # Never /\ clock' = clock
      /\ holds \in [Conns -> Roles \union {NoRole}]
  BY DEF IInv, TypeOK, Detach
<1>2. /\ role \in Roles
      /\ holds' = [holds EXCEPT ![c] = NoRole]
      /\ sess' = Detached(sess, role, clock)
  BY <1>1 DEF Detach
<1>3. /\ t \in Sessions
      /\ t.single = sess.single /\ t.done = sess.done
      /\ t.closedAt = sess.closedAt /\ t.closeReason = sess.closeReason
      /\ t.slot = [sess.slot EXCEPT ![role] = NoConn]
      /\ t.firstAt = sess.firstAt
      /\ t.state = IF sess.state = "closed" THEN "closed"
                   ELSE IF sess.slot[Other(role)] = NoConn THEN "pending"
                   ELSE "half_open"
      /\ t.openedAt = sess.openedAt
  BY <1>1, <1>2, EmptiedFields
<1> HIDE DEF role, t
<1>4. /\ sess.slot \in [Roles -> Conns \union {NoConn}]
      /\ sess.firstAt \in [Roles -> Nat]
      /\ sess.openedAt \in Nat /\ sess.closedAt \in Nat
      /\ sess.done \in BOOLEAN /\ sess.single \in BOOLEAN
  BY <1>1 DEF Sessions
<1>5. /\ t.slot[role] = NoConn
      /\ t.slot[Other(role)] = sess.slot[Other(role)]
  BY <1>2, <1>3, <1>4
<1>6. \A d \in Conns, r \in Roles : t.slot[r] = d <=> holds'[d] = r
  <2> SUFFICES ASSUME NEW d \in Conns, NEW r \in Roles
               PROVE  t.slot[r] = d <=> holds'[d] = r
    OBVIOUS
  <2>1. \A q \in Roles : sess.slot[q] = d <=> holds[d] = q
    BY DEF IInv, SlotOwner
  <2>2. CASE d = c
    <3>1. holds'[d] = NoRole /\ sess.slot[role] = c
      BY <1>1, <1>2, <2>1, <2>2 DEF role
    <3>2. sess.slot[Other(role)] # c
      BY <1>2, <2>1, <2>2 DEF role
    <3> QED
      BY <1>2, <1>5, <2>2, <3>1, <3>2
  <2>3. CASE d # c
    <3>1. holds'[d] = holds[d]
      BY <1>1, <1>2, <2>3
    <3>2. holds[c] = role /\ sess.slot[role] = c
      BY <1>2 DEF role, IInv, SlotOwner
    <3>3. holds[d] # role
      BY <1>2, <2>1, <2>3, <3>2
    <3> QED
      BY <1>2, <1>5, <2>1, <3>1, <3>3
  <2> QED
    BY <2>2, <2>3
<1>7. /\ t.state = "closed" <=> t.done
      /\ t.done <=> t.closeReason # NoReason
      /\ t.done <=> t.closedAt # Never
      /\ ~t.done =>
           /\ t.state = "pending" <=> \A r \in Roles : t.slot[r] = NoConn
           /\ t.state = "open"    <=> \A r \in Roles : t.slot[r] # NoConn
  BY <1>2, <1>3, <1>4, <1>5 DEF IInv, PhaseMatchesSlots
<1>8. /\ \A r \in Roles : t.slot[r] # NoConn => t.firstAt[r] # Never
      /\ t.state # "open"
  <2>1. t.state # "open"
    BY <1>3
  <2> QED
    BY <1>2, <1>3, <1>5, <2>1 DEF IInv, Timeline
<1>9. CASE t.single /\ t.state # "closed"
  <2>1. sess' = Closed(t, "peer_left", clock)
    BY <1>2, <1>9 DEF Detached, t
  <2>2. ~t.done
    BY <1>7, <1>9
  <2>3. /\ sess' \in Sessions
        /\ sess'.single = t.single /\ sess'.slot = t.slot
        /\ sess'.firstAt = t.firstAt /\ sess'.openedAt = t.openedAt
        /\ sess'.done /\ sess'.state = "closed"
        /\ sess'.closedAt = clock /\ sess'.closeReason = "peer_left"
    BY <1>1, <1>3, <2>1, <2>2, ClosedFields DEF Reasons
  <2>4. TypeOK'
    BY <1>1, <1>2, <2>3 DEF TypeOK
  <2>5. SlotOwner'
    BY <1>6, <2>3 DEF SlotOwner
  <2>6. PhaseMatchesSlots' /\ SingleLeaveEnds'
    BY <1>1, <2>3 DEF PhaseMatchesSlots, SingleLeaveEnds, Reasons
  <2>7. Timeline'
    BY <1>1, <1>3, <1>4, <1>8, <2>3 DEF IInv, Timeline, Never
  <2> QED
    BY <2>4, <2>5, <2>6, <2>7 DEF IInv
<1>10. CASE ~(t.single /\ t.state # "closed")
  <2>1. sess' = t
    BY <1>2, <1>10 DEF Detached, t
  <2>2. TypeOK'
    BY <1>1, <1>2, <1>3, <2>1 DEF TypeOK
  <2>3. SlotOwner'
    BY <1>6, <2>1 DEF SlotOwner
  <2>4. PhaseMatchesSlots'
    BY <1>7, <2>1 DEF PhaseMatchesSlots
  <2>5. SingleLeaveEnds'
    BY <1>7, <1>10, <2>1 DEF SingleLeaveEnds, Used
  <2>6. Timeline'
    BY <1>1, <1>3, <1>8, <2>1 DEF IInv, Timeline
  <2> QED
    BY <2>2, <2>3, <2>4, <2>5, <2>6 DEF IInv
<1> QED
  BY <1>9, <1>10

\* A step that counts bytes changes nothing else.
LEMMA AddBytesStep ==
  ASSUME TypeOK, NEW c \in Conns, AddBytes(c)
  PROVE  /\ sess' \in Sessions
         /\ sess'.single = sess.single /\ sess'.slot = sess.slot
         /\ sess'.firstAt = sess.firstAt /\ sess'.openedAt = sess.openedAt
         /\ sess'.done = sess.done /\ sess'.state = sess.state
         /\ sess'.closedAt = sess.closedAt /\ sess'.closeReason = sess.closeReason
<1>1. sess \in Sessions /\ holds[c] \in Roles
  BY DEF TypeOK, AddBytes
<1> QED
  BY <1>1, AddedBytesFields DEF AddBytes

LEMMA AddBytesIInv ==
  ASSUME IInv, NEW c \in Conns, AddBytes(c)
  PROVE  IInv'
<1>1. clock' = clock /\ holds' = holds /\ TypeOK
  BY DEF IInv, AddBytes
<1>2. /\ sess' \in Sessions
      /\ sess'.single = sess.single /\ sess'.slot = sess.slot
      /\ sess'.firstAt = sess.firstAt /\ sess'.openedAt = sess.openedAt
      /\ sess'.done = sess.done /\ sess'.state = sess.state
      /\ sess'.closedAt = sess.closedAt /\ sess'.closeReason = sess.closeReason
  BY <1>1, AddBytesStep
<1> QED
  BY <1>1, <1>2
  DEF IInv, TypeOK, SlotOwner, PhaseMatchesSlots, SingleLeaveEnds, Timeline, Used

LEMMA TickIInv == IInv /\ Tick => IInv'
<1> SUFFICES ASSUME IInv, Tick PROVE IInv'
  OBVIOUS
<1>1. /\ clock \in Nat /\ clock' = clock + 1
      /\ sess' = sess /\ holds' = holds
  BY DEF IInv, TypeOK, Tick
<1>2. /\ sess.firstAt \in [Roles -> Nat]
      /\ sess.openedAt \in Nat /\ sess.closedAt \in Nat
  BY DEF IInv, TypeOK, Sessions
<1>3. TypeOK' /\ SlotOwner' /\ PhaseMatchesSlots' /\ SingleLeaveEnds'
  BY <1>1
  DEF IInv, TypeOK, SlotOwner, PhaseMatchesSlots, SingleLeaveEnds, Used, Never
<1>4. Timeline'
  BY <1>1, <1>2 DEF IInv, Timeline, Never
<1> QED
  BY <1>3, <1>4 DEF IInv

LEMMA NextIInv == IInv /\ [Next]_vars => IInv'
<1> SUFFICES ASSUME IInv, [Next]_vars PROVE IInv'
  OBVIOUS
<1>1. ASSUME NEW c \in Conns, NEW role \in Roles, Attach(c, role) PROVE IInv'
  BY <1>1, AttachIInv
<1>2. ASSUME NEW c \in Conns, Detach(c) PROVE IInv'
  BY <1>2, DetachIInv
<1>3. ASSUME NEW c \in Conns, AddBytes(c) PROVE IInv'
  BY <1>3, AddBytesIInv
<1>4. CASE Delete \/ Reap \/ CloseAll
  BY <1>4, CloseIInv DEF Delete, Reap, CloseAll, Reasons
<1>5. CASE Tick
  BY <1>5, TickIInv
<1>6. CASE UNCHANGED vars
  BY <1>6 DEF vars, IInv, TypeOK, SlotOwner, PhaseMatchesSlots,
              SingleLeaveEnds, Timeline, Used
<1> QED
  BY <1>1, <1>2, <1>3, <1>4, <1>5, <1>6 DEF Next

\* The conjunction of the invariants holds of every session in every reachable
\* state: the base of what follows (session.go:102-373).
THEOREM Invariance == Spec => []IInv
<1>1. Init => IInv
  BY InitIInv
<1>2. IInv /\ [Next]_vars => IInv'
  BY NextIInv
<1> QED
  BY <1>1, <1>2, PTL DEF Spec

\* Every field of a session and the clock have their types (TypeOK).
THEOREM TypeCorrect == Spec => []TypeOK
<1>1. IInv => TypeOK
  BY DEF IInv
<1> QED
  BY <1>1, Invariance, PTL

\* A slot is emptied only by the handler that filled it, however many handlers
\* race for it (SlotOwner, session.go:232-241).
THEOREM SlotOwnership == Spec => []SlotOwner
<1>1. IInv => SlotOwner
  BY DEF IInv
<1> QED
  BY <1>1, Invariance, PTL

\* Phase, slots and the close signal agree in every state (PhaseMatchesSlots).
THEOREM PhaseAgreement == Spec => []PhaseMatchesSlots
<1>1. IInv => PhaseMatchesSlots
  BY DEF IInv
<1> QED
  BY <1>1, Invariance, PTL

\* A single-attach session is over once one of its peers has left
\* (SingleLeaveEnds).
THEOREM SingleAttachEnds == Spec => []SingleLeaveEnds
<1>1. IInv => SingleLeaveEnds
  BY DEF IInv
<1> QED
  BY <1>1, Invariance, PTL

\* The lifecycle times of a session are in order (Timeline).
THEOREM TimelineInOrder == Spec => []Timeline
<1>1. IInv => Timeline
  BY DEF IInv
<1> QED
  BY <1>1, Invariance, PTL

-------------------------------------------------------------------------------
\* Emptying a slot touches nothing that the end has set.
LEMMA EmptiedSame ==
  ASSUME sess \in Sessions, NEW role \in Roles, sess' = Emptied(sess, role)
  PROVE  /\ sess'.done = sess.done /\ sess'.single = sess.single
         /\ sess'.openedAt = sess.openedAt /\ sess'.closedAt = sess.closedAt
         /\ sess'.closeReason = sess.closeReason
         /\ sess'.slot = [sess.slot EXCEPT ![role] = NoConn]
BY EmptiedFields

\* After the end a step changes nothing but an emptied slot.
LEMMA EndStep ==
  ASSUME IInv, [Next]_vars, sess.done
  PROVE  /\ sess'.done
         /\ sess'.closeReason = sess.closeReason
         /\ sess'.closedAt = sess.closedAt
         /\ sess'.single = sess.single
         /\ sess'.openedAt = sess.openedAt
         /\ \/ sess'.slot = sess.slot
            \/ \E r \in Roles : /\ sess.slot[r] # NoConn
                                /\ sess'.slot = [sess.slot EXCEPT ![r] = NoConn]
<1> USE NoConnAssumption
<1>1. sess \in Sessions /\ sess.state = "closed" /\ clock \in Nat
  BY DEF IInv, TypeOK, PhaseMatchesSlots
<1>2. ASSUME NEW c \in Conns, NEW role \in Roles, Attach(c, role) PROVE FALSE
  BY <1>1, <1>2 DEF Attach, AttachOutcome
<1>3. ASSUME NEW c \in Conns, Detach(c)
      PROVE  /\ sess' = Emptied(sess, holds[c])
             /\ holds[c] \in Roles
             /\ sess.slot[holds[c]] = c
  <2>1. holds[c] \in Roles
    BY <1>3 DEF Detach, IInv, TypeOK
  <2>2. Emptied(sess, holds[c]).state = "closed"
    BY <1>1, <2>1, EmptiedFields
  <2>3. sess' = Emptied(sess, holds[c])
    BY <1>3, <2>2 DEF Detach, Detached
  <2> QED
    BY <2>1, <2>3 DEF IInv, SlotOwner
<1>4. ASSUME NEW c \in Conns, AddBytes(c)
      PROVE  /\ sess'.done = sess.done
             /\ sess'.single = sess.single /\ sess'.slot = sess.slot
             /\ sess'.openedAt = sess.openedAt
             /\ sess'.closedAt = sess.closedAt
             /\ sess'.closeReason = sess.closeReason
  BY <1>4, AddBytesStep DEF IInv
<1>5. ASSUME NEW reason \in Reasons, CloseWith(reason) PROVE sess' = sess
  BY <1>1, <1>5, ClosedFields DEF CloseWith
<1>6. CASE \E c \in Conns : Detach(c)
  <2>1. PICK c \in Conns : Detach(c)
    BY <1>6
  <2>2. /\ sess' = Emptied(sess, holds[c])
        /\ holds[c] \in Roles
        /\ sess.slot[holds[c]] = c
    BY <1>3, <2>1
  <2>3. /\ sess'.done = sess.done /\ sess'.single = sess.single
        /\ sess'.openedAt = sess.openedAt /\ sess'.closedAt = sess.closedAt
        /\ sess'.closeReason = sess.closeReason
        /\ sess'.slot = [sess.slot EXCEPT ![holds[c]] = NoConn]
    BY <1>1, <2>2, EmptiedSame
  <2>4. sess.slot[holds[c]] # NoConn
    BY <2>2
  <2> QED
    BY <2>2, <2>3, <2>4
<1>7. CASE Delete \/ Reap \/ CloseAll
  BY <1>5, <1>7 DEF Delete, Reap, CloseAll, Reasons
<1>8. CASE Tick \/ UNCHANGED vars
  BY <1>8 DEF Tick, vars
<1> QED
  BY <1>2, <1>4, <1>6, <1>7, <1>8 DEF Next

\* Nothing a caller does after the first close changes the recorded ending or
\* fills a slot (EndIsFinal, session.go:182-184, 295-309).
THEOREM Finality == Spec => EndIsFinal
<1> DEFINE Final == sess.done =>
       /\ sess'.done
       /\ sess'.closeReason = sess.closeReason
       /\ sess'.closedAt = sess.closedAt
       /\ \A r \in Roles : sess'.slot[r] \in {sess.slot[r], NoConn}
<1>1. ASSUME IInv, [Next]_vars, sess.done PROVE Final
  <2>1. sess.slot \in [Roles -> Conns \union {NoConn}]
    BY <1>1 DEF IInv, TypeOK, Sessions
  <2> QED
    BY <1>1, <2>1, EndStep
<1>2. IInv /\ [Next]_vars => [Final]_vars
  BY <1>1
<1> HIDE DEF Final
<1>3. Spec => [][Final]_vars
  BY <1>2, Invariance, PTL DEF Spec
<1> QED
  BY <1>3 DEF EndIsFinal, Final

-------------------------------------------------------------------------------
\* The mapped state, named for the steps below.
PromiseState == <<sess.single, Present, sess.closeReason, sess.openedAt # Never>>

\* How many peers are present tells which slots are filled.
LEMMA PresentFacts ==
  ASSUME NEW r \in Roles
  PROVE  /\ Present = 0 <=> sess.slot[r] = NoConn /\ sess.slot[Other(r)] = NoConn
         /\ Present = 2 <=> sess.slot[r] # NoConn /\ sess.slot[Other(r)] # NoConn
         /\ Present \in {0, 1, 2}
BY RoleFacts DEF Present

\* The same after the step.
LEMMA PresentFactsNext ==
  ASSUME NEW r \in Roles
  PROVE  /\ Present' = 0 <=> sess'.slot[r] = NoConn /\ sess'.slot[Other(r)] = NoConn
         /\ Present' = 2 <=> sess'.slot[r] # NoConn /\ sess'.slot[Other(r)] # NoConn
         /\ Present' \in {0, 1, 2}
BY RoleFacts DEF Present

\* Emptying a filled slot makes one peer fewer present.
LEMMA EmptiedSlotPresent ==
  ASSUME NEW r \in Roles, sess.slot \in [Roles -> Conns \union {NoConn}],
         sess.slot[r] # NoConn, sess'.slot = [sess.slot EXCEPT ![r] = NoConn]
  PROVE  Present > 0 /\ Present' = Present - 1
<1>1. /\ sess'.slot[r] = NoConn
      /\ sess'.slot[Other(r)] = sess.slot[Other(r)]
  BY RoleFacts
<1> QED
  BY <1>1, PresentFacts, PresentFactsNext

\* Every step of a session is one of the promised lifecycle, or a stutter.
LEMMA StepKeepsPromise ==
  ASSUME IInv, [Next]_vars
  PROVE  [Promise!Next]_PromiseState
<1> USE RoleFacts, NoConnAssumption
<1>1. /\ sess \in Sessions /\ clock \in Nat /\ clock # Never
      /\ sess.slot \in [Roles -> Conns \union {NoConn}]
      /\ sess.done \in BOOLEAN /\ sess.single \in BOOLEAN
      /\ sess.done <=> sess.closeReason # NoReason
  BY DEF IInv, TypeOK, Sessions, PhaseMatchesSlots
<1>2. CASE sess.done
  <2>1. /\ sess'.closeReason = sess.closeReason
        /\ sess'.single = sess.single /\ sess'.openedAt = sess.openedAt
        /\ \/ sess'.slot = sess.slot
           \/ \E r \in Roles : /\ sess.slot[r] # NoConn
                               /\ sess'.slot = [sess.slot EXCEPT ![r] = NoConn]
    BY <1>2, EndStep
  <2>2. CASE sess'.slot = sess.slot
    <3>1. Present' = Present
      BY <2>2 DEF Present
    <3> QED
      BY <2>1, <3>1 DEF PromiseState
  <2>3. CASE \E r \in Roles : /\ sess.slot[r] # NoConn
                              /\ sess'.slot = [sess.slot EXCEPT ![r] = NoConn]
    <3>1. Present > 0 /\ Present' = Present - 1
      BY <1>1, <2>3, EmptiedSlotPresent
    <3>2. Promise!Drain
      BY <1>1, <1>2, <2>1, <3>1 DEF Promise!Drain
    <3> QED
      BY <3>2 DEF Promise!Next
  <2> QED
    BY <2>1, <2>2, <2>3
<1>3. CASE ~sess.done
  <2>1. sess.closeReason = NoReason
    BY <1>1, <1>3
  <2>2. ASSUME NEW c \in Conns, NEW role \in Roles, Attach(c, role)
        PROVE  Promise!Arrive
    <3>1. sess.slot[role] = NoConn
      BY <2>2 DEF Attach, AttachOutcome
    <3>2. /\ sess' \in Sessions
          /\ sess'.single = sess.single /\ sess'.done = sess.done
          /\ sess'.closedAt = sess.closedAt /\ sess'.closeReason = sess.closeReason
          /\ sess'.slot = [sess.slot EXCEPT ![role] = c]
          /\ sess'.firstAt =
               [sess.firstAt EXCEPT ![role] = IF @ = Never THEN clock ELSE @]
          /\ sess'.state =
               IF sess.slot[Other(role)] # NoConn THEN "open" ELSE "half_open"
          /\ sess'.openedAt =
               IF sess.slot[Other(role)] # NoConn /\ sess.openedAt = Never
               THEN clock ELSE sess.openedAt
    BY <1>1, <2>2, AttachedFields DEF Attach
    <3>3. /\ sess'.slot[role] = c
          /\ sess'.slot[Other(role)] = sess.slot[Other(role)]
      BY <1>1, <3>2
    <3>4. Present < 2 /\ Present' = Present + 1
      BY <3>1, <3>3, PresentFacts, PresentFactsNext
    <3>5. sess'.openedAt # Never <=> (sess.openedAt # Never \/ Present' = 2)
      BY <1>1, <3>2, <3>3, PresentFactsNext
    <3> QED
      BY <2>1, <3>2, <3>4, <3>5 DEF Promise!Arrive
  <2>3. ASSUME NEW c \in Conns, Detach(c) PROVE Promise!Leave
    <3>1. /\ holds[c] \in Roles /\ sess.slot[holds[c]] = c
      BY <2>3 DEF Detach, IInv, TypeOK, SlotOwner
    <3> DEFINE t == Emptied(sess, holds[c])
    <3>2. /\ t \in Sessions
          /\ t.single = sess.single /\ t.closeReason = sess.closeReason
          /\ t.slot = [sess.slot EXCEPT ![holds[c]] = NoConn]
          /\ t.openedAt = sess.openedAt /\ t.done = sess.done
          /\ t.state # "closed"
      <4>1. sess.state # "closed"
        BY <1>3 DEF IInv, PhaseMatchesSlots
      <4> QED
        BY <1>1, <3>1, <4>1, EmptiedFields
    <3> HIDE DEF t
    <3>3. sess' = IF t.single THEN Closed(t, "peer_left", clock) ELSE t
      BY <2>3, <3>2 DEF Detach, Detached, t
    <3>4. /\ sess'.single = sess.single
          /\ sess'.closeReason = IF sess.single THEN "peer_left" ELSE NoReason
          /\ sess'.slot = [sess.slot EXCEPT ![holds[c]] = NoConn]
          /\ sess'.openedAt = sess.openedAt
      <4>1. CASE sess.single
        <5>1. sess' = Closed(t, "peer_left", clock)
          BY <3>2, <3>3, <4>1
        <5>2. /\ sess'.single = t.single /\ sess'.slot = t.slot
              /\ sess'.openedAt = t.openedAt /\ sess'.closeReason = "peer_left"
          BY <1>1, <1>3, <3>2, <5>1, ClosedFields DEF Reasons
        <5> QED
          BY <3>2, <4>1, <5>2
      <4>2. CASE ~sess.single
        BY <2>1, <3>2, <3>3, <4>2
      <4> QED
        BY <4>1, <4>2
    <3>5. sess.slot[holds[c]] # NoConn
      BY <3>1
    <3>6. Present > 0 /\ Present' = Present - 1
      BY <1>1, <3>1, <3>4, <3>5, EmptiedSlotPresent
    <3> QED
      BY <2>1, <3>4, <3>6 DEF Promise!Leave
  <2>4. ASSUME NEW c \in Conns, AddBytes(c) PROVE PromiseState' = PromiseState
    BY <2>4, AddBytesStep DEF IInv, PromiseState, Present
  <2>5. ASSUME NEW reason \in {"deleted", "expired", "shutdown"}, CloseWith(reason)
        PROVE  Promise!End
    <3>1. /\ sess'.single = sess.single /\ sess'.slot = sess.slot
          /\ sess'.openedAt = sess.openedAt /\ sess'.closeReason = reason
      BY <1>1, <1>3, <2>5, ClosedFields DEF CloseWith, Reasons
    <3>2. Present' = Present
      BY <3>1 DEF Present
    <3> QED
      BY <2>1, <3>1, <3>2 DEF Promise!End
  <2>6. CASE Delete \/ Reap \/ CloseAll
    <3>1. Promise!End
      BY <2>5, <2>6 DEF Delete, Reap, CloseAll
    <3> QED
      BY <3>1 DEF Promise!Next
  <2>7. CASE Tick \/ UNCHANGED vars
    BY <2>7 DEF Tick, vars, PromiseState, Present
  <2> QED
    BY <2>2, <2>3, <2>4, <2>6, <2>7 DEF Next, Promise!Next
<1> QED
  BY <1>1, <1>2, <1>3

\* What status shows of a session is a behaviour of Lifecycle (KeepsPromise):
\* every step of every caller is one of its steps, or shows nothing.
THEOREM Refinement == Spec => KeepsPromise
<1>1. Init => Promise!Init
  <2> SUFFICES ASSUME Init PROVE Promise!Init
    OBVIOUS
  <2>1. IInv
    BY InitIInv
  <2>2. PICK ttl \in TTLs, single \in BOOLEAN : sess = NewSession(clock, ttl, single)
    BY DEF Init
  <2>3. /\ \A r \in Roles : sess.slot[r] = NoConn
        /\ sess.closeReason = NoReason /\ sess.openedAt = Never
        /\ sess.single \in BOOLEAN
    BY <2>1, <2>2, BoundsAssumption, NewSessionFields
    DEF IInv, TypeOK, Sessions
  <2> QED
    BY <2>3 DEF Promise!Init, Present
<1>2. IInv /\ [Next]_vars => [Promise!Next]_(Promise!vars)
  BY StepKeepsPromise DEF PromiseState, Promise!vars
<1> QED
  BY <1>1, <1>2, Invariance, PTL DEF Spec, KeepsPromise, Promise!Spec

===============================================================================
