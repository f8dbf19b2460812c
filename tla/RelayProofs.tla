------------------------------ MODULE RelayProofs ------------------------------
(***************************************************************************)
(* The relay's handlers, proved for any dials.  First, that they use the   *)
(* session as Session says: whatever SessionProofs proves then holds of    *)
(* the relay's session too, so that the rest can lean on who owns a slot.  *)
(* Then the relay's own invariants, for which each step is told by what it *)
(* does to one handler and to one connection.                              *)
(***************************************************************************)
EXTENDS Relay, TLAPS

\* The theorems of Session, about the relay's session.
S == INSTANCE SessionProofs WITH holds <- Holds

\* The copies of an operator that an instance brings are the operator.
LEMMA SameOperators ==
  /\ S!Roles = Roles /\ Slots!Roles = Roles
  /\ S!Sessions = Sessions
BY DEF S!Roles, Slots!Roles, Roles, S!Sessions, Sessions, S!Phases, Phases,
       S!Reasons, Reasons, S!NoReason, NoReason

\* The counterpart a handler looked up has the other role, and had attached.
Counterpart ==
  \A h \in Conns :
    target[h] # NoConn =>
      /\ RoleOf[target[h]] = Other(RoleOf[h])
      /\ pc[target[h]] \in AttachedPcs \union {"end"}

\* A close status was sent only to a connection that was open and is not now.
Untold ==
  \A c \in Conns :
    /\ pc[c] \in {"request", "checked"} => conn[c] = "none" /\ ~partial[c]
    /\ conn[c] \in {"none", "open", "left"} => code[c] = "none"

\* The writer of an unfinished message is still at it, unless the connection is lost.
InFlight ==
  \A c \in Conns :
    partial[c] /\ conn[c] \in {"open", "left"} =>
      \E g \in Conns : pc[g] = "sending" /\ target[g] = c

IInv ==
  /\ TypeOK
  /\ Counterpart
  /\ NoLostWakeup
  /\ Untold
  /\ InFlight
  /\ PrefixNotClean

-------------------------------------------------------------------------------
\* The roles are two, each the other's other.
LEMMA RoleFacts ==
  /\ \A r \in Roles : Other(r) \in Roles /\ Other(r) # r /\ Other(Other(r)) = r
  /\ "none" \notin Roles
BY DEF Roles, Other

PcOK == pc \in [Conns -> Pcs]

\* A handler is somewhere in serve or pump. This much of the types needs nothing else.
LEMMA PcType == Spec => []PcOK
<1>1. Init => PcOK
  BY DEF Init, Pcs, PcOK
<1>2. PcOK /\ [Next]_vars => PcOK'
  <2> SUFFICES ASSUME pc \in [Conns -> Pcs], [Next]_vars PROVE pc' \in [Conns -> Pcs]
    BY DEF PcOK
  <2> USE DEF Pcs, AttachedPcs, Goto
  <2>1. ASSUME NEW h \in Conns, Attach(h) \/ Leave(h) PROVE pc' \in [Conns -> Pcs]
    BY <2>1 DEF Attach, Leave, Woken
  <2>2. ASSUME NEW h \in Conns, Serve(h), ~(Attach(h) \/ Leave(h))
        PROVE  pc' \in [Conns -> Pcs]
    BY <2>2 DEF Serve, Request, Upgrade, Refuse, Refused, ReadMessage, ReadFails,
       CheckEnded, Kick, Kicked, AwaitPeer, AwaitWakes, AwaitCancelled, SendPart,
       SendAll, SendFails, AbortSelf, Aborted
  <2>3. ASSUME NEW h \in Conns, Watch(h) \/ WatchTimeout(h) \/ CloseEnds(h) \/ ClientLeaves(h)
        PROVE  pc' = pc
    BY <2>3 DEF Watch, WatchLook, WatchWakes, WatchCancelled, WatchClosed, WatchReturns,
       WatchTimeout, Disconnect, CloseEnds, ClientLeaves, handler
  <2>4. CASE EndSession \/ Tick \/ UNCHANGED vars
    BY <2>4 DEF EndSession, CloseWith, Tick, vars, handler
  <2> QED
    BY <2>1, <2>2, <2>3, <2>4 DEF Next
<1> QED
  BY <1>1, <1>2, PTL DEF Spec

\* A handler that moves on without attaching or leaving keeps its slot.
LEMMA HoldsKept ==
  ASSUME pc \in [Conns -> Pcs], NEW h \in Conns, NEW label,
         pc[h] \in AttachedPcs <=> label \in AttachedPcs,
         Goto(h, label)
  PROVE  Holds' = Holds
BY DEF Holds, IsAttached, Goto

\* The role a handler holds after it has moved to another place.
LEMMA HoldsTaken ==
  ASSUME pc \in [Conns -> Pcs], NEW h \in Conns, NEW label, 
         pc' = [Woken(pc) EXCEPT ![h] = label]
  PROVE  Holds' = [Holds EXCEPT ![h] = IF label \in AttachedPcs THEN RoleOf[h] ELSE "none"]
BY DEF Holds, IsAttached, Woken, AttachedPcs

\* The relay's attach is the session's.
LEMMA AttachUses ==
  ASSUME pc \in [Conns -> Pcs], NEW h \in Conns, Attach(h)
  PROVE  Slots!Attach(h, RoleOf[h])
<1>1. Holds[h] = "none"
  BY DEF Attach, Holds, IsAttached, AttachedPcs
<1>2. Holds' = [Holds EXCEPT ![h] = RoleOf[h]]
  BY HoldsTaken DEF Attach, AttachedPcs
<1>3. Slots!AttachOutcome(sess, RoleOf[h], clock) = "ok"
  BY DEF Attach, AttachOutcome, Slots!AttachOutcome, Used, Slots!Used, Never, Slots!Never
<1>4. sess' = Slots!Attached(sess, RoleOf[h], h, clock) /\ clock' = clock
  BY DEF Attach, Attached, Slots!Attached, Other, Slots!Other, Never, Slots!Never
<1> QED
  BY <1>1, <1>2, <1>3, <1>4 DEF Slots!Attach, Slots!NoRole

\* The relay's leave is the session's detach.
LEMMA LeaveUses ==
  ASSUME pc \in [Conns -> Pcs], NEW h \in Conns, Leave(h)
  PROVE  Slots!Detach(h)
<1>1. Holds[h] = RoleOf[h] /\ RoleOf[h] # "none"
  BY RoleOfAssumption, RoleFacts DEF Leave, Holds, IsAttached, AttachedPcs
<1>2. Holds' = [Holds EXCEPT ![h] = "none"]
  <2>1. pc' = [Woken(pc) EXCEPT ![h] = "end"] /\ "end" \notin AttachedPcs
    BY DEF Leave, AttachedPcs
  <2> QED
    BY <2>1, HoldsTaken
<1>3. sess' = Slots!Detached(sess, RoleOf[h], clock) /\ clock' = clock
  BY DEF Leave, Detached, Slots!Detached, Emptied, Slots!Emptied, Closed, Slots!Closed,
     Other, Slots!Other
<1> QED
  BY <1>1, <1>2, <1>3 DEF Slots!Detach, Slots!NoRole

\* What is counted is counted for the handler's own slot.
LEMMA CountUses ==
  ASSUME NEW h \in Conns, pc[h] \in {"send", "sending"}, Holds' = Holds, clock' = clock,
         sess' \in {sess, Counted(h)}
  PROVE  Slots!AddBytes(h) \/ UNCHANGED Slots!vars
<1>1. Holds[h] = RoleOf[h] /\ RoleOf[h] # "none"
  BY RoleOfAssumption, RoleFacts DEF Holds, IsAttached, AttachedPcs
<1>2. CASE sess' = sess
  BY <1>2 DEF Slots!vars
<1>3. CASE sess.bytes[RoleOf[h]] < MaxBytes /\ sess' = AddedBytes(sess, RoleOf[h], 1)
  BY <1>1, <1>3 DEF Slots!AddBytes, Slots!AddedBytes, AddedBytes, Slots!NoRole
<1> QED
  BY <1>2, <1>3 DEF Counted

\* A step of a handler is one of the session, or leaves it alone.
LEMMA ServeUses ==
  ASSUME pc \in [Conns -> Pcs], NEW h \in Conns, Serve(h)
  PROVE  [Slots!Next]_(Slots!vars)
<1> USE DEF AttachedPcs
<1>1. CASE Attach(h)
  BY <1>1, AttachUses, RoleOfAssumption, SameOperators DEF Slots!Next
<1>2. CASE Leave(h)
  BY <1>2, LeaveUses DEF Slots!Next
<1>3. CASE SendAll(h) \/ SendFails(h)
  <2>1. /\ pc[h] \in {"send", "sending"} /\ clock' = clock
        /\ sess' \in {sess, Counted(h)}
    BY <1>3 DEF SendAll, SendFails
  <2>2. Holds' = Holds
    BY <1>3, HoldsKept DEF SendAll, SendFails
  <2> QED
    BY <2>1, <2>2, CountUses DEF Slots!Next
<1>4. CASE Request(h) \/ Upgrade(h) \/ Refuse(h) \/ Refused(h)
  <2>1. sess' = sess /\ clock' = clock
    BY <1>4 DEF Request, Upgrade, Refuse, Refused
  <2>2. Holds' = Holds
    BY <1>4, HoldsKept DEF Request, Upgrade, Refuse, Refused
  <2> QED
    BY <2>1, <2>2 DEF Slots!vars
<1>5. CASE \/ ReadMessage(h) \/ ReadFails(h) \/ CheckEnded(h) \/ Kick(h) \/ Kicked(h)
           \/ AwaitPeer(h) \/ AwaitWakes(h) \/ AwaitCancelled(h)
           \/ SendPart(h) \/ AbortSelf(h) \/ Aborted(h)
  <2> USE <1>5 DEF ReadMessage, ReadFails, CheckEnded, Kick, Kicked, AwaitPeer,
          AwaitWakes, AwaitCancelled, SendPart, AbortSelf, Aborted
  <2>1. sess' = sess /\ clock' = clock
    OBVIOUS
  <2>2. pc[h] \in AttachedPcs /\ \E label \in AttachedPcs : Goto(h, label)
    OBVIOUS
  <2>3. Holds' = Holds
    BY <2>2, HoldsKept
  <2> QED
    BY <2>1, <2>3 DEF Slots!vars
<1> QED
  BY <1>1, <1>2, <1>3, <1>4, <1>5 DEF Serve

\* So is every step of the relay.
LEMMA StepUses ==
  ASSUME PcOK, [Next]_vars
  PROVE  [Slots!Next]_(Slots!vars)
<1>1. ASSUME NEW h \in Conns, Serve(h) PROVE [Slots!Next]_(Slots!vars)
  BY <1>1, ServeUses DEF PcOK
<1>2. ASSUME NEW h \in Conns, Watch(h) \/ WatchTimeout(h) \/ CloseEnds(h) \/ ClientLeaves(h)
      PROVE  UNCHANGED Slots!vars
  BY <1>2 DEF Watch, WatchLook, WatchWakes, WatchCancelled, WatchClosed, WatchReturns,
     WatchTimeout, Disconnect, CloseEnds, ClientLeaves, handler, Slots!vars, Holds, IsAttached
<1>3. CASE EndSession
  <2>1. PICK reason \in Endings : /\ reason = "expired" => clock > sess.expiresAt
                                  /\ CloseWith(reason)
    BY <1>3 DEF EndSession
  <2>2. Slots!CloseWith(reason)
    BY <2>1 DEF CloseWith, Slots!CloseWith, Closed, Slots!Closed, handler, Holds, IsAttached
  <2> QED
    BY <2>1, <2>2, EndingsAssumption
    DEF Slots!Next, Slots!Delete, Slots!Reap, Slots!CloseAll
<1>4. CASE Tick
  BY <1>4 DEF Tick, handler, Holds, IsAttached, Slots!Tick, Slots!Next
<1>5. CASE UNCHANGED vars
  BY <1>5 DEF vars, Slots!vars, Holds, IsAttached
<1> QED
  BY <1>1, <1>2, <1>3, <1>4, <1>5 DEF Next

\* Whatever the handlers and their watches do, the session is used as Session says.
THEOREM SessionUse == Spec => UsesSession
<1>1. Init => Slots!Init
  BY SameOperators DEF Init, Slots!Init, NewSession, Slots!NewSession, Never,
     Slots!Never, NoReason, Slots!NoReason, Holds, IsAttached, AttachedPcs, Slots!NoRole
<1> QED
  BY <1>1, StepUses, PcType, PTL DEF Spec, UsesSession, Slots!Spec

-------------------------------------------------------------------------------
\* Session's invariants hold of Relay, whose slots are used as Session says.
Owned == S!TypeOK /\ S!SlotOwner

\* The two instances of Session have the same initial states,
LEMMA SameInit == S!Init <=> Slots!Init
BY SameOperators DEF S!Init, Slots!Init, S!NewSession, Slots!NewSession, S!Never,
   Slots!Never, S!NoReason, Slots!NoReason, S!NoRole, Slots!NoRole

\* and the same steps.
LEMMA SameNext == [S!Next]_(S!vars) <=> [Slots!Next]_(Slots!vars)
<1>1. ASSUME NEW c, NEW r PROVE S!Attach(c, r) <=> Slots!Attach(c, r)
  BY DEF S!Attach, Slots!Attach, S!NoRole, Slots!NoRole, S!AttachOutcome,
     Slots!AttachOutcome, S!Attached, Slots!Attached, S!Used, Slots!Used,
     S!Never, Slots!Never, S!Other, Slots!Other
<1>2. ASSUME NEW c PROVE S!Detach(c) <=> Slots!Detach(c)
  BY DEF S!Detach, Slots!Detach, S!NoRole, Slots!NoRole, S!Detached, Slots!Detached,
     S!Emptied, Slots!Emptied, S!Closed, Slots!Closed, S!Other, Slots!Other
<1>3. ASSUME NEW c PROVE S!AddBytes(c) <=> Slots!AddBytes(c)
  BY DEF S!AddBytes, Slots!AddBytes, S!NoRole, Slots!NoRole, S!AddedBytes, Slots!AddedBytes
<1>4. ASSUME NEW r PROVE S!CloseWith(r) <=> Slots!CloseWith(r)
  BY DEF S!CloseWith, Slots!CloseWith, S!Closed, Slots!Closed
<1>5. S!Tick <=> Slots!Tick
  BY DEF S!Tick, Slots!Tick
<1>6. S!Next <=> Slots!Next
  BY SameOperators, <1>1, <1>2, <1>3, <1>4, <1>5
  DEF S!Next, Slots!Next, S!Delete, Slots!Delete, S!Reap, Slots!Reap, S!CloseAll,
      Slots!CloseAll
<1> QED
  BY <1>6 DEF S!vars, Slots!vars

LEMMA SameAssumptions == S!BoundsAssumption /\ S!NoConnAssumption
BY BoundsAssumption, NoConnAssumption DEF S!BoundsAssumption, S!NoConnAssumption

\* so the relay is a session of SessionProofs.
LEMMA RunsSession == Spec => S!Spec
<1>1. Slots!Spec => S!Spec
  BY SameInit, SameNext, PTL DEF Slots!Spec, S!Spec
<1> QED
  BY <1>1, SessionUse, PTL DEF UsesSession

\* Who sits in a slot has attached there, whatever the relay does.
LEMMA OwnedAlways == Spec => []Owned
<1>1. S!IInv => Owned
  BY DEF S!IInv, Owned
<1>2. S!Spec => []S!IInv
  BY SameAssumptions, S!Invariance
<1> QED
  BY <1>1, <1>2, RunsSession, PTL

\* What is proved of a session alone holds of the session that the handlers of a
\* relay share: its fields agree, a used single-attach slot ends it, its times are
\* in order, and its end is final.
THEOREM SessionGuarantees ==
  Spec => [](S!PhaseMatchesSlots /\ S!SingleLeaveEnds /\ S!Timeline) /\ S!EndIsFinal
<1>1. S!Spec => []S!PhaseMatchesSlots
  BY SameAssumptions, S!PhaseAgreement
<1>2. S!Spec => []S!SingleLeaveEnds
  BY SameAssumptions, S!SingleAttachEnds
<1>3. S!Spec => []S!Timeline
  BY SameAssumptions, S!TimelineInOrder
<1>4. S!Spec => S!EndIsFinal
  BY SameAssumptions, S!Finality
<1> QED
  BY <1>1, <1>2, <1>3, <1>4, RunsSession, PTL

\* And a control plane that polls its status sees the promised lifecycle.
THEOREM RelayKeepsPromise == Spec => S!KeepsPromise
<1>1. S!Spec => S!KeepsPromise
  BY SameAssumptions, S!Refinement
<1> QED
  BY <1>1, RunsSession, PTL

\* A counterpart looked up has the other role and has attached.
LEMMA PeerFacts ==
  ASSUME Owned, NEW h \in Conns
  PROVE  LET p == Peer(sess, RoleOf[h]) IN
         /\ p \in Conns \union {NoConn}
         /\ p # NoConn => /\ RoleOf[p] = Other(RoleOf[h])
                           /\ pc[p] \in AttachedPcs
<1> DEFINE p == Peer(sess, RoleOf[h])
           r == Other(RoleOf[h])
<1>1. r \in S!Roles /\ r # "none" 
  BY RoleOfAssumption, RoleFacts, SameOperators
<1>2. p \in Conns \union {NoConn}
  BY <1>1 DEF Owned, S!TypeOK, S!Sessions, Peer
<1>3. ASSUME p \in Conns PROVE Holds[p] = r
  BY <1>1, <1>3 DEF Owned, S!SlotOwner, Peer
<1> QED
  BY <1>1, <1>2, <1>3 DEF Holds, IsAttached

\* No two attached handlers have the same role.
LEMMA AttachedApart ==
  ASSUME Owned, NEW g \in Conns, NEW h \in Conns,
         pc[g] \in AttachedPcs, pc[h] \in AttachedPcs, RoleOf[g] = RoleOf[h]
  PROVE  g = h
<1>1. RoleOf[g] \in S!Roles
  BY RoleOfAssumption, SameOperators
<1>2. Holds[g] = RoleOf[g] /\ Holds[h] = RoleOf[g]
  BY DEF Holds, IsAttached
<1> QED
  BY <1>1, <1>2 DEF Owned, S!SlotOwner

LEMMA InitIInv == Init /\ Owned => IInv
<1> SUFFICES ASSUME Init, Owned PROVE IInv
  OBVIOUS
<1>1. sess \in Sessions /\ clock \in Nat \ {Never}
  BY SameOperators DEF Owned, S!TypeOK, S!Never, Never
<1>2. TypeOK
  BY <1>1 DEF Init, TypeOK, Pcs, AttachedPcs, Watches, Conditions, Codes
<1> QED
  BY <1>2 DEF Init, IInv, Counterpart, NoLostWakeup, Untold, InFlight, PrefixNotClean

-------------------------------------------------------------------------------
(***************************************************************************)
(* Types.                                                                  *)
(***************************************************************************)
LEMMA StartCloseType ==
  ASSUME TypeOK, NEW c \in Conns, NEW status \in Codes, StartClose(c, status)
  PROVE  /\ conn' \in [Conns -> Conditions]
         /\ code' \in [Conns -> Codes]
         /\ partial' = partial
BY DEF TypeOK, StartClose, Conditions

\* Waking those who wait keeps the types.
LEMMA WokenType ==
  ASSUME TypeOK
  PROVE  Woken(pc) \in [Conns -> Pcs] /\ Woken(watch) \in [Conns -> Watches]
BY DEF TypeOK, Woken, Pcs, AttachedPcs, Watches

\* The parts of TypeOK that are not about the session.
Typed == 
  /\ pc \in [Conns -> Pcs]
  /\ target \in [Conns -> Conns \union {NoConn}]
  /\ watch \in [Conns -> Watches]
  /\ armed \in [Conns -> BOOLEAN]
  /\ cancelled \in [Conns -> BOOLEAN]
  /\ conn \in [Conns -> Conditions]
  /\ code \in [Conns -> Codes]
  /\ partial \in [Conns -> BOOLEAN]
  /\ \A h \in Conns :
       pc[h] \in {"send", "sending", "kick", "kicking", "abortPeer"}
       => target[h] \in Conns

\* A handler's step keeps the types of its own variables.
LEMMA ServeTyped ==
  ASSUME TypeOK, Owned, NEW h \in Conns, Serve(h)
  PROVE  Typed'
<1> USE DEF TypeOK, Typed, Goto, handler, watcher, network
<1>1. CASE Request(h)
  BY <1>1 DEF Request, Pcs
<1>2. CASE Upgrade(h)
  BY <1>2 DEF Upgrade, Pcs, Conditions
<1>3. CASE Attach(h)
  BY <1>3, WokenType DEF Attach, Pcs, AttachedPcs, Watches, Woken
<1>4. CASE Refuse(h)
  BY <1>4, StartCloseType DEF Refuse, Pcs, Codes
<1>5. CASE Refused(h)
  BY <1>5 DEF Refused, Pcs, Codes, Forgotten
<1>6. CASE ReadMessage(h)
  BY <1>6 DEF ReadMessage, Pcs, AttachedPcs
<1>7. CASE ReadFails(h)
  BY <1>7, PeerFacts DEF ReadFails, Pcs, AttachedPcs, Conditions
<1>8. CASE CheckEnded(h)
  BY <1>8 DEF CheckEnded, Pcs, AttachedPcs
<1>9. CASE Kick(h)
  BY <1>9, StartCloseType DEF Kick, Pcs, AttachedPcs, Codes
<1>10. CASE Kicked(h)
  BY <1>10 DEF Kicked, Pcs, AttachedPcs
<1>11. CASE AwaitPeer(h)
  BY <1>11, PeerFacts DEF AwaitPeer, Pcs, AttachedPcs
<1>12. CASE AwaitWakes(h)
  BY <1>12 DEF AwaitWakes, Pcs, AttachedPcs
<1>13. CASE AwaitCancelled(h)
  BY <1>13 DEF AwaitCancelled, Pcs, AttachedPcs
<1>14. CASE SendPart(h)
  BY <1>14 DEF SendPart, Pcs, AttachedPcs
<1>15. CASE SendAll(h)
  BY <1>15 DEF SendAll, Pcs, AttachedPcs
<1>16. CASE SendFails(h)
  BY <1>16, StartCloseType DEF SendFails, Pcs, AttachedPcs, Codes, Conditions
<1>17. CASE AbortSelf(h)
  BY <1>17, StartCloseType DEF AbortSelf, Pcs, AttachedPcs, Codes
<1>18. CASE Aborted(h)
  BY <1>18 DEF Aborted, Pcs, AttachedPcs
<1>19. CASE Leave(h)
  BY <1>19, WokenType DEF Leave, Pcs, Codes, Forgotten, Woken
<1> QED
  BY <1>1, <1>2, <1>3, <1>4, <1>5, <1>6, <1>7, <1>8, <1>9, <1>10, <1>11, <1>12, <1>13,
     <1>14, <1>15, <1>16, <1>17, <1>18, <1>19 DEF Serve

\* Every step keeps the types.
LEMMA TypeStep ==
  ASSUME TypeOK, Owned, Owned', [Next]_vars
  PROVE  TypeOK'
<1>1. sess' \in Sessions /\ clock' \in Nat \ {Never}
  BY SameOperators DEF Owned, S!TypeOK, S!Never, Never
<1> SUFFICES Typed'
  BY <1>1 DEF TypeOK, Typed
<1>2. ASSUME NEW h \in Conns, Serve(h) PROVE Typed'
  BY <1>2, ServeTyped
<1>3. ASSUME NEW h \in Conns, Watch(h) \/ WatchTimeout(h) PROVE Typed'
  <2>1. CASE Disconnect(h)
    BY <2>1, StartCloseType DEF Disconnect, Watches, Codes, TypeOK, Typed, handler
  <2>2. CASE WatchLook(h) \/ WatchWakes(h) \/ WatchCancelled(h) \/ WatchReturns(h)
    BY <2>2 DEF WatchLook, WatchWakes, WatchCancelled, WatchReturns, Watches,
       TypeOK, Typed, handler, network
  <2> QED
    BY <1>3, <2>1, <2>2 DEF Watch, WatchClosed, WatchTimeout
<1>4. ASSUME NEW c \in Conns, CloseEnds(c) \/ ClientLeaves(c) PROVE Typed'
  BY <1>4 DEF CloseEnds, ClientLeaves, Conditions, TypeOK, Typed, handler, watcher
<1>5. CASE EndSession \/ Tick \/ UNCHANGED vars
  BY <1>5 DEF EndSession, CloseWith, Tick, vars, TypeOK, Typed, handler, watcher, network
<1> QED
  BY <1>2, <1>3, <1>4, <1>5 DEF Next

-------------------------------------------------------------------------------
(***************************************************************************)
(* What a step does to one variable.                                       *)
(***************************************************************************)
Late == AttachedPcs \union {"end"}

Early == {"request", "checked"}

\* No handler goes back to before its connection.
LEMMA PcStep ==
  ASSUME TypeOK, [Next]_vars, NEW c \in Conns
  PROVE  /\ pc[c] \in Late => pc'[c] \in Late
         /\ pc'[c] \in Early => pc[c] \in Early
<1> USE DEF Late, Early, AttachedPcs, Goto, TypeOK
<1>1. ASSUME NEW h \in Conns, Attach(h) \/ Leave(h)
      PROVE  /\ pc[c] \in Late => pc'[c] \in Late
             /\ pc'[c] \in Early => pc[c] \in Early
  BY <1>1 DEF Attach, Leave, Woken
<1>2. ASSUME NEW h \in Conns, Serve(h), ~(Attach(h) \/ Leave(h))
      PROVE  /\ pc[c] \in Late => pc'[c] \in Late
             /\ pc'[c] \in Early => pc[c] \in Early
  BY <1>2 DEF Serve, Request, Upgrade, Refuse, Refused, ReadMessage, ReadFails,
     CheckEnded, Kick, Kicked, AwaitPeer, AwaitWakes, AwaitCancelled, SendPart,
     SendAll, SendFails, AbortSelf, Aborted
<1>3. ASSUME NEW h \in Conns, Watch(h) \/ WatchTimeout(h) \/ CloseEnds(h) \/ ClientLeaves(h)
      PROVE  pc' = pc
  BY <1>3 DEF Watch, WatchLook, WatchWakes, WatchCancelled, WatchClosed, WatchReturns,
     WatchTimeout, Disconnect, CloseEnds, ClientLeaves, handler
<1>4. CASE EndSession \/ Tick \/ UNCHANGED vars
  BY <1>4 DEF EndSession, CloseWith, Tick, vars, handler
<1> QED
  BY <1>1, <1>2, <1>3, <1>4 DEF Next

\* A step keeps a handler's counterpart, looks it up, or drops it.
LEMMA TargetStep ==
  ASSUME TypeOK, [Next]_vars, NEW c \in Conns
  PROVE  target'[c] \in {target[c], NoConn, Peer(sess, RoleOf[c])}
<1> USE DEF TypeOK
<1>1. ASSUME NEW h \in Conns, Serve(h)
      PROVE  target'[c] \in {target[c], NoConn, Peer(sess, RoleOf[c])}
  BY <1>1 DEF Attach, Leave, Serve, Request, Upgrade, Refuse, Refused, ReadMessage, ReadFails,
     CheckEnded, Kick, Kicked, AwaitPeer, AwaitWakes, AwaitCancelled, SendPart,
     SendAll, SendFails, AbortSelf, Aborted
<1>2. ASSUME NEW h \in Conns, Watch(h) \/ WatchTimeout(h) \/ CloseEnds(h) \/ ClientLeaves(h)
      PROVE  target' = target
  BY <1>2 DEF Watch, WatchLook, WatchWakes, WatchCancelled, WatchClosed, WatchReturns,
     WatchTimeout, Disconnect, CloseEnds, ClientLeaves, handler
<1>3. CASE EndSession \/ Tick \/ UNCHANGED vars
  BY <1>3 DEF EndSession, CloseWith, Tick, vars, handler
<1> QED
  BY <1>1, <1>2, <1>3 DEF Next

\* Only a connection that comes or goes changes a slot.
LEMMA SlotStep ==
  ASSUME TypeOK, [Next]_vars, \A h \in Conns : ~Attach(h) /\ ~Leave(h)
  PROVE  sess'.slot = sess.slot
<1> USE DEF TypeOK
<1>1. ASSUME NEW h \in Conns PROVE Counted(h).slot = sess.slot
  BY DEF Counted, AddedBytes, Sessions
<1>2. ASSUME NEW h \in Conns, Serve(h) PROVE sess'.slot = sess.slot
  BY <1>1, <1>2 DEF Serve, Request, Upgrade, Refuse, Refused, ReadMessage, ReadFails,
     CheckEnded, Kick, Kicked, AwaitPeer, AwaitWakes, AwaitCancelled, SendPart,
     SendAll, SendFails, AbortSelf, Aborted
<1>3. ASSUME NEW h \in Conns, Watch(h) \/ WatchTimeout(h) \/ CloseEnds(h) \/ ClientLeaves(h)
      PROVE  sess' = sess
  BY <1>3 DEF Watch, WatchLook, WatchWakes, WatchCancelled, WatchClosed, WatchReturns,
     WatchTimeout, Disconnect, CloseEnds, ClientLeaves
<1>4. CASE EndSession
  BY <1>4 DEF EndSession, CloseWith, Closed, Sessions
<1>5. CASE Tick \/ UNCHANGED vars
  BY <1>5 DEF Tick, vars
<1> QED
  BY <1>2, <1>3, <1>4, <1>5 DEF Next

-------------------------------------------------------------------------------
\* Counterpart is kept: a lookup finds an attached handler of the other role.
LEMMA CounterpartStep ==
  ASSUME TypeOK, Owned, Counterpart, [Next]_vars
  PROVE  Counterpart'
<1> SUFFICES ASSUME NEW h \in Conns, target'[h] # NoConn
             PROVE  /\ RoleOf[target'[h]] = Other(RoleOf[h])
                    /\ pc'[target'[h]] \in AttachedPcs \union {"end"}
  BY DEF Counterpart
<1>1. /\ target'[h] \in Conns
      /\ RoleOf[target'[h]] = Other(RoleOf[h])
      /\ pc[target'[h]] \in Late
  BY TargetStep, PeerFacts DEF Counterpart, TypeOK, Late
<1> QED
  BY <1>1, PcStep DEF Late

\* NoLostWakeup is kept: an attach or detach moves all who wait.
LEMMA WakeupStep ==
  ASSUME TypeOK, Owned, NoLostWakeup, [Next]_vars
  PROVE  NoLostWakeup'
<1> USE DEF TypeOK, NoLostWakeup
<1>1. ASSUME NEW h \in Conns, Attach(h) \/ Leave(h)
      PROVE  \A c \in Conns : pc'[c] # "select" /\ watch'[c] # "select"
  <2>1. ASSUME NEW c \in Conns PROVE Woken(pc)[c] # "select" /\ Woken(watch)[c] # "select"
    BY DEF Woken
  <2>2. CASE Attach(h)
    BY <2>1, <2>2, WokenType DEF Attach
  <2>3. CASE Leave(h)
    BY <2>1, <2>3, WokenType DEF Leave
  <2> QED
    BY <1>1, <2>2, <2>3
<1>2. CASE \A h \in Conns : ~Attach(h) /\ ~Leave(h)
  <2>1. \A h \in Conns : Alone(h)' = Alone(h)
    BY <1>2, SlotStep DEF Alone, Peer
  <2>2. ASSUME NEW h \in Conns, NEW c \in Conns, Serve(h), pc'[c] = "select"
        PROVE  Alone(c)
    BY <1>2, <2>2 DEF Goto, Alone, Serve, Request, Upgrade, Refuse, Refused, ReadMessage, ReadFails,
     CheckEnded, Kick, Kicked, AwaitPeer, AwaitWakes, AwaitCancelled, SendPart,
     SendAll, SendFails, AbortSelf, Aborted
  <2>3. ASSUME NEW h \in Conns, Serve(h) PROVE UNCHANGED watcher
    BY <1>2, <2>3 DEF Serve, Request, Upgrade, Refuse, Refused, ReadMessage, ReadFails,
     CheckEnded, Kick, Kicked, AwaitPeer, AwaitWakes, AwaitCancelled, SendPart,
     SendAll, SendFails, AbortSelf, Aborted
  <2>4. ASSUME NEW h \in Conns, Watch(h) \/ WatchTimeout(h)
        PROVE  /\ pc' = pc
               /\ \A c \in Conns : watch'[c] = "select" /\ ~Alone(c) => ~armed'[c]
    BY <2>4 DEF Watch, WatchLook, WatchWakes, WatchCancelled, WatchClosed, WatchReturns,
       WatchTimeout, Disconnect, handler, Alone
  <2>5. ASSUME \/ \E h \in Conns : CloseEnds(h) \/ ClientLeaves(h)
               \/ EndSession \/ Tick \/ UNCHANGED vars
        PROVE  pc' = pc /\ UNCHANGED watcher
    BY <2>5 DEF CloseEnds, ClientLeaves, EndSession, CloseWith, Tick, vars, handler, watcher
  <2> QED
    BY <2>1, <2>2, <2>3, <2>4, <2>5 DEF Next, watcher
<1> QED
  BY <1>1, <1>2

-------------------------------------------------------------------------------
(***************************************************************************)
(* Closing frames and unfinished messages.                                 *)
(***************************************************************************)
\* Two handlers that have the same counterpart are one.
LEMMA OneWriter ==
  ASSUME TypeOK, Owned, Counterpart, NEW g \in Conns, NEW h \in Conns,
         pc[g] \in AttachedPcs, pc[h] \in AttachedPcs,
         target[g] \in Conns, target[h] = target[g]
  PROVE  g = h
<1>1. RoleOf[g] = RoleOf[h]
  <2>1. target[g] # NoConn
    BY NoConnAssumption
  <2>2. Other(RoleOf[g]) = Other(RoleOf[h])
    BY <2>1 DEF Counterpart
  <2> QED
    BY <2>2, RoleFacts, RoleOfAssumption
<1> QED
  BY <1>1, AttachedApart

\* What a step may do to a connection and to what was sent on it.
Same(c) == conn'[c] = conn[c] /\ code'[c] = code[c] /\ partial'[c] = partial[c]

Opened(c) == /\ pc[c] = "checked" /\ pc'[c] = "accepted"
             /\ code'[c] = code[c] /\ partial'[c] = partial[c]

ToldEnd(c) == /\ conn[c] \in {"open", "left"} /\ conn'[c] = "closing"
              /\ partial'[c] = partial[c]
              /\ code'[c] = "normal" => \E h \in Conns : pc[h] = "kick" /\ target[h] = c

Forgot(c) == /\ conn'[c] = conn[c] /\ code'[c] = "none" /\ ~partial'[c]
             /\ pc[c] \notin Early

Died(c) == /\ conn'[c] = "dead" /\ code'[c] = code[c] /\ partial'[c] = partial[c]
           /\ conn[c] = "closing" \/ pc[c] = "read" \/ \E h \in Conns : target[h] = c

Left(c) == /\ conn[c] = "open" /\ conn'[c] = "left"
           /\ code'[c] = code[c] /\ partial'[c] = partial[c]

Wrote(c) == /\ conn'[c] = conn[c] /\ code'[c] = code[c]
            /\ conn[c] \in {"open", "left"}
            /\ \E h \in Conns : /\ pc[h] \in {"send", "sending"} /\ target[h] = c
                                /\ partial'[c] => pc'[h] = "sending" /\ target'[h] = c

ConnStep(c) ==
  Same(c) \/ Opened(c) \/ ToldEnd(c) \/ Forgot(c) \/ Died(c) \/ Left(c) \/ Wrote(c)

\* A close leaves a connection alone or tells it its end.
LEMMA StartCloseStep ==
  ASSUME TypeOK, NEW c \in Conns, NEW d \in Conns, NEW status,
         status = "normal" => \E h \in Conns : pc[h] = "kick" /\ target[h] = d,
         StartClose(d, status)
  PROVE  Same(c) \/ ToldEnd(c)
BY DEF TypeOK, StartClose, Same, ToldEnd

\* What a handler's step does to any connection is one of a few things,
LEMMA ServeConnStep ==
  ASSUME TypeOK, NEW c \in Conns, NEW h \in Conns, Serve(h)
  PROVE  ConnStep(c)
<1> USE DEF TypeOK, Goto, network, ConnStep
<1>1. CASE \/ Request(h) \/ Attach(h) \/ ReadMessage(h) \/ CheckEnded(h) \/ Kicked(h)
           \/ AwaitPeer(h) \/ AwaitWakes(h) \/ AwaitCancelled(h) \/ Aborted(h)
  BY <1>1 DEF Request, Attach, ReadMessage, CheckEnded, Kicked, AwaitPeer, AwaitWakes,
     AwaitCancelled, Aborted, Same
<1>2. CASE Upgrade(h)
  BY <1>2 DEF Upgrade, Same, Opened
<1>3. CASE Refuse(h) \/ Kick(h) \/ AbortSelf(h)
  BY <1>3, StartCloseStep DEF Refuse, Kick, AbortSelf
<1>4. CASE Refused(h) \/ Leave(h)
  BY <1>4 DEF Refused, Leave, Forgotten, Same, Forgot, Early
<1>5. CASE ReadFails(h)
  BY <1>5 DEF ReadFails, Same, Died
<1>6. CASE SendPart(h)
  BY <1>6 DEF SendPart, Same, Wrote
<1>7. CASE SendAll(h)
  BY <1>7 DEF SendAll, Same, Wrote
<1>8. CASE SendFails(h)
  BY <1>8, StartCloseStep DEF SendFails, Same, Died
<1> QED
  BY <1>1, <1>2, <1>3, <1>4, <1>5, <1>6, <1>7, <1>8 DEF Serve

\* and so is what any step does.
LEMMA NextConnStep ==
  ASSUME TypeOK, NEW c \in Conns, [Next]_vars
  PROVE  ConnStep(c)
<1>1. ASSUME NEW h \in Conns, Serve(h) PROVE ConnStep(c)
  BY <1>1, ServeConnStep
<1> USE DEF TypeOK, network, ConnStep
<1>2. ASSUME NEW h \in Conns, Watch(h) \/ WatchTimeout(h) PROVE ConnStep(c)
  <2>1. CASE Disconnect(h)
    BY <2>1, StartCloseStep DEF Disconnect
  <2>2. CASE WatchLook(h) \/ WatchWakes(h) \/ WatchCancelled(h) \/ WatchReturns(h)
    BY <2>2 DEF WatchLook, WatchWakes, WatchCancelled, WatchReturns, Same
  <2> QED
    BY <1>2, <2>1, <2>2 DEF Watch, WatchClosed, WatchTimeout
<1>3. ASSUME NEW h \in Conns, CloseEnds(h) \/ ClientLeaves(h) PROVE ConnStep(c)
  BY <1>3 DEF CloseEnds, ClientLeaves, Same, Died, Left
<1>4. CASE EndSession \/ Tick \/ UNCHANGED vars
  BY <1>4 DEF EndSession, CloseWith, Tick, vars, Same
<1> QED
  BY <1>1, <1>2, <1>3, <1>4 DEF Next

\* Untold is kept.
LEMMA UntoldStep ==
  ASSUME TypeOK, Counterpart, Untold, [Next]_vars
  PROVE  Untold'
<1> SUFFICES ASSUME NEW c \in Conns
             PROVE  /\ pc'[c] \in Early => conn'[c] = "none" /\ ~partial'[c]
                    /\ conn'[c] \in {"none", "open", "left"} => code'[c] = "none"
  BY DEF Untold, Early
<1>1. pc'[c] \in Early => pc[c] \in Early /\ conn[c] = "none" /\ ~partial[c]
  BY PcStep DEF Untold, Early
<1>2. /\ conn[c] \in {"none", "open", "left"} => code[c] = "none"
      /\ pc[c] \in Early => conn[c] = "none"
  BY DEF Untold, Early
<1>3. pc[c] \in Early => \A h \in Conns : target[h] # c
  BY NoConnAssumption DEF Counterpart, Early, AttachedPcs
<1>4. ConnStep(c)
  BY NextConnStep
<1> QED
  BY <1>1, <1>2, <1>3, <1>4
  DEF ConnStep, Same, Opened, ToldEnd, Forgot, Died, Left, Wrote, Early

\* A handler in the middle of a message goes on, finishes it or loses the
\* connection it writes to.
LEMMA SendingStep ==
  ASSUME TypeOK, [Next]_vars, NEW g \in Conns, pc[g] = "sending"
  PROVE  \/ pc'[g] = "sending" /\ target'[g] = target[g]
         \/ ~partial'[target[g]]
         \/ conn'[target[g]] \notin {"open", "left"}
<1> USE DEF TypeOK, Goto
<1>1. CASE SendAll(g)
  BY <1>1 DEF SendAll
<1>2. CASE SendFails(g)
  BY <1>2 DEF SendFails, StartClose
<1>3. ASSUME NEW h \in Conns, Serve(h), ~SendAll(g), ~SendFails(g)
      PROVE  pc'[g] = "sending" /\ target'[g] = target[g]
  BY <1>3 DEF Attach, Leave, Woken, Serve, Request, Upgrade, Refuse, Refused, ReadMessage,
     ReadFails, CheckEnded, Kick, Kicked, AwaitPeer, AwaitWakes, AwaitCancelled,
     SendPart, SendAll, SendFails, AbortSelf, Aborted
<1>4. ASSUME NEW h \in Conns, Watch(h) \/ WatchTimeout(h) \/ CloseEnds(h) \/ ClientLeaves(h)
      PROVE  UNCHANGED handler
  BY <1>4 DEF Watch, WatchLook, WatchWakes, WatchCancelled, WatchClosed, WatchReturns,
     WatchTimeout, Disconnect, CloseEnds, ClientLeaves
<1>5. ASSUME EndSession \/ Tick \/ UNCHANGED vars PROVE UNCHANGED handler
  BY <1>5 DEF EndSession, CloseWith, Tick, vars, handler
<1> QED
  BY <1>1, <1>2, <1>3, <1>4, <1>5 DEF Next, handler

\* InFlight is kept: the writer stops only when done, or when the connection is lost.
LEMMA InFlightStep ==
  ASSUME TypeOK, Untold, InFlight, [Next]_vars
  PROVE  InFlight'
<1> SUFFICES ASSUME NEW c \in Conns, partial'[c], conn'[c] \in {"open", "left"}
             PROVE  \E g \in Conns : pc'[g] = "sending" /\ target'[g] = c
  BY DEF InFlight
<1>1. ConnStep(c)
  BY NextConnStep
<1>2. CASE Wrote(c)
  BY <1>2 DEF Wrote
<1>3. CASE ~Wrote(c)
  <2>1. partial[c] /\ conn[c] \in {"open", "left"}
    BY <1>1, <1>3 DEF ConnStep, Same, Opened, ToldEnd, Forgot, Died, Left, Untold
  <2>2. PICK g \in Conns : pc[g] = "sending" /\ target[g] = c
    BY <2>1 DEF InFlight
  <2> QED
    BY <2>2, SendingStep
<1> QED
  BY <1>2, <1>3

\* PrefixNotClean is kept: to say normal, a handler would have to be the writer.
LEMMA PrefixStep ==
  ASSUME TypeOK, Owned, Counterpart, Untold, InFlight, PrefixNotClean, [Next]_vars
  PROVE  PrefixNotClean'
<1> SUFFICES ASSUME NEW c \in Conns, partial'[c], code'[c] = "normal" PROVE FALSE
  BY DEF PrefixNotClean
<1>1. ConnStep(c)
  BY NextConnStep
<1>2. partial[c] => code[c] # "normal"
  BY DEF PrefixNotClean
<1>3. conn[c] \in {"open", "left"} => code[c] = "none"
  BY DEF Untold
<1>4. ToldEnd(c)
  BY <1>1, <1>2, <1>3 DEF ConnStep, Same, Opened, Forgot, Died, Left, Wrote
<1>5. PICK h \in Conns : pc[h] = "kick" /\ target[h] = c
  BY <1>4 DEF ToldEnd
<1>6. PICK g \in Conns : pc[g] = "sending" /\ target[g] = c
  BY <1>4 DEF ToldEnd, InFlight
<1>7. g = h
  BY <1>5, <1>6, OneWriter DEF AttachedPcs
<1> QED
  BY <1>5, <1>6, <1>7

-------------------------------------------------------------------------------
\* The whole invariant is kept where Session's holds before and after.
LEMMA NextIInv ==
  ASSUME IInv, Owned, Owned', [Next]_vars
  PROVE  IInv'
BY TypeStep, CounterpartStep, WakeupStep, UntoldStep, InFlightStep, PrefixStep DEF IInv

\* The relay's inductive invariant: every reachable state is typed, and the
\* properties below hold with what they need (relay.go:103-216).
THEOREM Invariance == Spec => []IInv
<1>1. IInv /\ Owned /\ Owned' /\ [Next]_vars => IInv'
  BY NextIInv
<1> QED
  BY <1>1, InitIInv, OwnedAlways, PTL DEF Spec

\* Every variable has its type, and who writes to or closes a counterpart has one
\* (TypeOK, relay.go:56-216).
THEOREM TypeCorrect == Spec => []TypeOK
<1>1. IInv => TypeOK
  BY DEF IInv
<1> QED
  BY <1>1, Invariance, PTL

\* No attach or detach is missed between looking and waiting, however many dials
\* there are (NoLostWakeup).
THEOREM NoWakeupIsLost == Spec => []NoLostWakeup
<1>1. IInv => NoLostWakeup
  BY DEF IInv
<1> QED
  BY <1>1, Invariance, PTL

\* Two handlers never write to the same client (SoleWriter).
THEOREM WritersApart == Spec => []SoleWriter
<1>1. IInv /\ Owned => SoleWriter
  <2> SUFFICES ASSUME IInv, Owned, NEW g \in Conns, NEW h \in Conns,
                      {pc[g], pc[h]} \subseteq {"send", "sending"}, target[g] = target[h]
               PROVE  g = h
    BY DEF SoleWriter
  <2>1. target[g] \in Conns /\ pc[g] \in AttachedPcs /\ pc[h] \in AttachedPcs
    BY DEF IInv, TypeOK, AttachedPcs
  <2> QED
    BY <2>1, OneWriter DEF IInv
<1> QED
  BY <1>1, Invariance, OwnedAlways, PTL

\* A client that was sent the beginning of a message is never told that its peer
\* disconnected normally (PrefixNotClean).
THEOREM PrefixIsNoCleanEnd == Spec => []PrefixNotClean
<1>1. IInv => PrefixNotClean
  BY DEF IInv
<1> QED
  BY <1>1, Invariance, PTL

===============================================================================
