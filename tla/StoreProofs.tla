------------------------------ MODULE StoreProofs ------------------------------
(***************************************************************************)
(* The store's invariants, proved for any number of sessions, lifetimes    *)
(* and requests.  What the reaper decided is still true when it acts: no   *)
(* lock but the store's is held over the sweep, and closing a session      *)
(* takes another, so this has to be said of the sweep's own state.         *)
(***************************************************************************)
EXTENDS Store, TLAPS

\* What the reaper has found stays expired, and it looks at a session once.
SweepOK ==
  /\ Unlocked => reap = Resting
  /\ reap.found \notin reap.todo
  /\ reap.found # NoId => reap.now > sess[reap.found].expiresAt

\* A closed session has the time it was closed at.
ClosedHasTime == \A id \in Made : sess[id].done <=> sess[id].closedAt # Never

IInv ==
  /\ TypeOK
  /\ SweepOK
  /\ ClosedHasTime
  /\ LiveIsReachable
  /\ ExpiredIsLate

-------------------------------------------------------------------------------
\* A new session, field by field.
LEMMA NewSessionFields ==
  ASSUME NEW now \in Nat, NEW ttl \in Nat, NEW single \in BOOLEAN
  PROVE  LET s == NewSession(now, ttl, single) IN
         /\ s \in Sessions
         /\ ~s.done /\ s.closeReason = NoReason /\ s.closedAt = Never
BY DEF NewSession, Sessions, Phases, Never

\* closeOnce, field by field: the first decides.
LEMMA ClosedFields ==
  ASSUME NEW s \in Sessions, NEW reason \in Reasons, NEW now \in Nat
  PROVE  LET t == Closed(s, reason, now) IN
         /\ t \in Sessions
         /\ t.expiresAt = s.expiresAt
         /\ t.done
         /\ s.done => t = s
         /\ ~s.done => t.closedAt = now /\ t.closeReason = reason
BY DEF Closed, Sessions, Phases

\* No session has the number that says none was found, and at rest none is.
LEMMA NoIdFacts == NoId \notin Ids /\ Resting.found = NoId /\ Resting.todo = {}
                   /\ Resting.now = Never
BY DEF NoId, Ids, Resting

LEMMA InitIInv == Init => IInv
<1> SUFFICES ASSUME Init PROVE IInv
  OBVIOUS
<1>1. Made = {} /\ sess \in Seq(Sessions)
  BY DEF Init, Made
<1>2. reap \in [now : 0..clock, todo : SUBSET listed, found : listed \union {NoId}]
  BY DEF Init, Resting, Never
<1>3. TypeOK
  BY <1>1, <1>2, StoreAssumption DEF Init, TypeOK, Never
<1> QED
  BY <1>1, <1>3 DEF Init, IInv, SweepOK, ClosedHasTime, LiveIsReachable, ExpiredIsLate,
     Resting

-------------------------------------------------------------------------------
(***************************************************************************)
(* What a step does to the sessions that were made.                        *)
(***************************************************************************)
CloseStep(id) ==
  \E reason \in Reasons :
    /\ sess'[id] = Closed(sess[id], reason, clock)
    /\ reason = "expired" => id = reap.found

SessionsKept ==
  /\ sess' \in Seq(Sessions)
  /\ Made' = Made
  /\ \A id \in Made : sess'[id] = sess[id] \/ CloseStep(id)

\* Closing one session keeps the others.
LEMMA CloseOne ==
  ASSUME TypeOK, NEW id \in Made, NEW reason \in Reasons,
         reason = "expired" => id = reap.found,
         sess' = [sess EXCEPT ![id] = Closed(@, reason, clock)]
  PROVE  SessionsKept /\ sess'[id] = Closed(sess[id], reason, clock)
         /\ \A i \in Made \ {id} : sess'[i] = sess[i]
<1>1. sess \in Seq(Sessions) /\ clock \in Nat /\ id \in 1..Len(sess)
  BY DEF TypeOK, Made
<1>2. Closed(sess[id], reason, clock) \in Sessions
  BY <1>1, ClosedFields
<1>3. sess' \in Seq(Sessions) /\ Made' = Made
  BY <1>1, <1>2 DEF Made
<1>4. sess'[id] = Closed(sess[id], reason, clock) /\ \A i \in Made \ {id} : sess'[i] = sess[i]
  BY <1>1 DEF Made
<1> QED
  BY <1>3, <1>4 DEF SessionsKept, CloseStep

\* The shutdown closes what is listed and keeps the rest.
LEMMA CloseListed ==
  ASSUME TypeOK, CloseAll
  PROVE  SessionsKept
<1>1. sess \in Seq(Sessions) /\ clock \in Nat /\ Made = 1..Len(sess)
  BY DEF TypeOK, Made
<1>2. \A id \in Made : sess[id] \in Sessions /\ Closed(sess[id], "shutdown", clock) \in Sessions
  BY <1>1, ClosedFields DEF Reasons
<1>3. sess' \in [1..Len(sess) -> Sessions] /\ Len(sess) \in Nat
  BY <1>1, <1>2 DEF CloseAll
<1>4. sess' \in Seq(Sessions) /\ Made' = Made
  BY <1>1, <1>3 DEF Made
<1>5. ASSUME NEW id \in Made PROVE sess'[id] = sess[id] \/ CloseStep(id)
  BY <1>5 DEF CloseAll, CloseStep, Reasons
<1> QED
  BY <1>4, <1>5 DEF SessionsKept

-------------------------------------------------------------------------------
\* A step that changes no session but by closing it keeps all that is said of
\* closed ones; what follows is about the map, the requests and the sweep.
LEMMA KeptIsFine ==
  ASSUME IInv, SessionsKept
  PROVE  /\ ClosedHasTime' /\ ExpiredIsLate'
         /\ \A id \in Made : sess[id].done => sess'[id] = sess[id]
         /\ \A id \in Made : sess'[id].expiresAt = sess[id].expiresAt
<1>1. /\ \A id \in Made : sess[id] \in Sessions
      /\ clock \in Nat /\ clock # Never
  BY DEF IInv, TypeOK, Made
<1>2. ASSUME NEW id \in Made
      PROVE  /\ sess'[id].done <=> sess'[id].closedAt # Never
             /\ sess'[id].closeReason = "expired" => sess'[id].closedAt > sess'[id].expiresAt
             /\ sess[id].done => sess'[id] = sess[id]
             /\ sess'[id].expiresAt = sess[id].expiresAt
  <2>1. CASE sess'[id] = sess[id]
    BY <2>1 DEF IInv, ClosedHasTime, ExpiredIsLate
  <2>2. CASE CloseStep(id)
    <3>1. PICK reason \in Reasons : /\ sess'[id] = Closed(sess[id], reason, clock)
                                    /\ reason = "expired" => id = reap.found
      BY <2>2 DEF CloseStep
    <3>2. CASE sess[id].done
      BY <1>1, <3>1, <3>2, ClosedFields DEF IInv, ClosedHasTime, ExpiredIsLate
    <3>3. CASE ~sess[id].done
      <4>1. /\ sess'[id].done /\ sess'[id].expiresAt = sess[id].expiresAt
            /\ sess'[id].closedAt = clock /\ sess'[id].closeReason = reason
        BY <1>1, <3>1, <3>3, ClosedFields
      <4>2. ASSUME reason = "expired" PROVE clock > sess[id].expiresAt
        <5>1. id = reap.found /\ id # NoId
          BY <3>1, <4>2, NoIdFacts DEF IInv, TypeOK
        <5>2. reap.now > sess[id].expiresAt /\ reap.now \in 0..clock
          BY <5>1 DEF IInv, TypeOK, SweepOK
        <5> QED
          BY <1>1, <5>2 DEF Sessions
      <4> QED
        BY <1>1, <3>3, <4>1, <4>2
    <3> QED
      BY <3>2, <3>3
  <2> QED
    BY <2>1, <2>2 DEF SessionsKept
<1>3. Made' = Made
  BY DEF SessionsKept
<1> QED
  BY <1>2, <1>3 DEF ClosedHasTime, ExpiredIsLate

LEMMA CreateIInv ==
  ASSUME IInv, NEW asked \in Asks, NEW single \in Singles, Create(asked, single)
  PROVE  IInv'
<1> DEFINE s == NewSession(clock, Lifetime(asked), single)
           n == Len(sess) + 1
<1>1. /\ sess \in Seq(Sessions) /\ clock \in Nat /\ Made = 1..Len(sess) /\ Len(sess) \in Nat
      /\ Lifetime(asked) \in Nat /\ single \in BOOLEAN
  BY StoreAssumption DEF IInv, TypeOK, Made, Lifetime
<1>2. s \in Sessions /\ ~s.done /\ s.closeReason = NoReason /\ s.closedAt = Never
  BY <1>1, NewSessionFields
<1> HIDE DEF s
<1>3. /\ sess' = Append(sess, s) /\ listed' = listed \union {Len(sess')}
      /\ UNCHANGED <<retention, clock, deleting, reap, phase>>
      /\ Len(sess) < MaxSessions /\ Unlocked
  BY DEF Create, s
<1>4. /\ sess' \in Seq(Sessions) /\ Len(sess') = n /\ Made' = Made \union {n}
      /\ n \notin Made /\ n \in Ids
      /\ sess'[n] = s /\ \A id \in Made : sess'[id] = sess[id]
  BY <1>1, <1>2, <1>3, StoreAssumption DEF Made, Ids
<1> HIDE DEF n
<1>5. reap = Resting /\ listed' = listed \union {n}
  BY <1>3, <1>4 DEF IInv, SweepOK
<1>6. TypeOK'
  BY <1>1, <1>3, <1>4, <1>5 DEF IInv, TypeOK
<1>7. SweepOK'
  BY <1>3, <1>5, NoIdFacts DEF SweepOK, Unlocked
<1>8. ClosedHasTime' /\ ExpiredIsLate'
  BY <1>2, <1>4 DEF IInv, ClosedHasTime, ExpiredIsLate, NoReason
<1>9. LiveIsReachable'
  BY <1>3, <1>4, <1>5 DEF IInv, LiveIsReachable
<1> QED
  BY <1>6, <1>7, <1>8, <1>9 DEF IInv

LEMMA DeleteIInv ==
  ASSUME IInv, NEW id \in Ids, Delete(id)
  PROVE  IInv'
<1>1. /\ deleting[id] < MaxDeletes /\ id \in listed
      /\ listed' \in {listed, listed \ {id}}
      /\ deleting' = [deleting EXCEPT ![id] = @ + 1]
      /\ UNCHANGED <<retention, sess, clock, reap, phase>>
      /\ reap = Resting
  BY DEF Delete, IInv, SweepOK
<1>2. Made' = Made
  BY <1>1 DEF Made
<1>3. deleting' \in [Ids -> 0..MaxDeletes] /\ \A i \in Ids \ Made : deleting'[i] = 0
  BY <1>1, StoreAssumption DEF IInv, TypeOK
<1>4. reap' \in [now : 0..clock, todo : SUBSET listed', found : listed' \union {NoId}]
  BY <1>1 DEF IInv, TypeOK, Resting
<1>5. TypeOK'
  BY <1>1, <1>2, <1>3, <1>4 DEF IInv, TypeOK
<1>6. SweepOK' /\ ClosedHasTime' /\ ExpiredIsLate'
  BY <1>1, <1>2 DEF IInv, SweepOK, Unlocked, ClosedHasTime, ExpiredIsLate
<1>7. LiveIsReachable'
  <2> SUFFICES ASSUME NEW i \in Made, ~sess[i].done, i \notin listed' PROVE deleting'[i] > 0
    BY <1>1, <1>2 DEF LiveIsReachable
  <2>1. deleting \in [Ids -> 0..MaxDeletes] /\ i \in Ids
    BY DEF IInv, TypeOK
  <2>2. CASE i = id
    BY <1>1, <2>1, <2>2, StoreAssumption
  <2>3. CASE i # id
    BY <1>1, <2>1, <2>3 DEF IInv, LiveIsReachable
  <2> QED
    BY <2>2, <2>3
<1> QED
  BY <1>5, <1>6, <1>7 DEF IInv

LEMMA DeleteClosesIInv ==
  ASSUME IInv, NEW id \in Ids, DeleteCloses(id)
  PROVE  IInv'
<1>1. /\ deleting[id] > 0
      /\ sess' = [sess EXCEPT ![id] = Closed(@, "deleted", clock)]
      /\ deleting' = [deleting EXCEPT ![id] = @ - 1]
      /\ UNCHANGED <<retention, listed, clock, reap, phase>>
  BY DEF DeleteCloses
<1>2. id \in Made /\ sess[id] \in Sessions /\ clock \in Nat
  BY <1>1 DEF IInv, TypeOK, Made
<1>3. /\ SessionsKept /\ sess'[id] = Closed(sess[id], "deleted", clock)
      /\ \A i \in Made \ {id} : sess'[i] = sess[i]
  BY <1>1, <1>2, CloseOne DEF IInv, Reasons
<1>4. /\ ClosedHasTime' /\ ExpiredIsLate'
      /\ \A i \in Made : sess'[i].expiresAt = sess[i].expiresAt
  BY <1>3, KeptIsFine
<1>5. deleting' \in [Ids -> 0..MaxDeletes] /\ \A i \in Ids \ Made : deleting'[i] = 0
  BY <1>1, <1>2, StoreAssumption DEF IInv, TypeOK
<1>6. TypeOK'
  BY <1>1, <1>3, <1>5 DEF IInv, TypeOK, SessionsKept
<1>7. SweepOK'
  BY <1>1, <1>4, NoIdFacts DEF IInv, TypeOK, SweepOK, Unlocked
<1>8. sess'[id].done
  BY <1>2, <1>3, ClosedFields DEF Reasons
<1>9. LiveIsReachable'
  BY <1>1, <1>3, <1>8 DEF IInv, TypeOK, LiveIsReachable, SessionsKept
<1> QED
  BY <1>4, <1>6, <1>7, <1>9 DEF IInv

LEMMA PeerLeavesIInv ==
  ASSUME IInv, NEW id \in Ids, PeerLeaves(id)
  PROVE  IInv'
<1>1. /\ id \in Made
      /\ sess' = [sess EXCEPT ![id] = Closed(@, "peer_left", clock)]
      /\ UNCHANGED <<retention, listed, clock, deleting, reap, phase>>
  BY DEF PeerLeaves
<1>2. SessionsKept /\ \A i \in Made \ {id} : sess'[i] = sess[i]
  BY <1>1, CloseOne DEF IInv, Reasons
<1>3. /\ ClosedHasTime' /\ ExpiredIsLate'
      /\ \A i \in Made : sess'[i].expiresAt = sess[i].expiresAt
  BY <1>2, KeptIsFine
<1>4. TypeOK'
  BY <1>1, <1>2 DEF IInv, TypeOK, SessionsKept
<1>5. SweepOK'
  BY <1>1, <1>3, NoIdFacts DEF IInv, TypeOK, SweepOK, Unlocked
<1>6. sess[id] \in Sessions /\ clock \in Nat /\ "peer_left" \in Reasons
      /\ sess'[id] = Closed(sess[id], "peer_left", clock)
  BY <1>1, CloseOne DEF IInv, TypeOK, Made, Reasons
<1>7. sess'[id].done
  BY <1>6, ClosedFields
<1>8. LiveIsReachable'
  BY <1>1, <1>2, <1>7 DEF IInv, LiveIsReachable, SessionsKept
<1> QED
  BY <1>3, <1>4, <1>5, <1>8 DEF IInv

LEMMA ReapStartIInv ==
  ASSUME IInv, ReapStart
  PROVE  IInv'
<1>1. /\ reap' = [now |-> clock, todo |-> listed, found |-> NoId]
      /\ UNCHANGED <<retention, sess, listed, clock, deleting, phase>>
      /\ clock \in Nat /\ clock # Never
  BY DEF ReapStart, IInv, TypeOK
<1>2. Made' = Made /\ ~Unlocked'
  BY <1>1 DEF Made, Unlocked
<1>3. reap' \in [now : 0..clock', todo : SUBSET listed', found : listed' \union {NoId}]
  BY <1>1
<1>4. TypeOK'
  BY <1>1, <1>2, <1>3 DEF IInv, TypeOK
<1>5. SweepOK'
  BY <1>1, <1>2, NoIdFacts DEF IInv, TypeOK, SweepOK
<1> QED
  BY <1>1, <1>2, <1>4, <1>5 DEF IInv, ClosedHasTime, LiveIsReachable, ExpiredIsLate

LEMMA ReapLookIInv ==
  ASSUME IInv, NEW id \in Ids, ReapLook(id)
  PROVE  IInv'
<1> DEFINE closed == sess[id].closedAt # Never
<1>1. /\ id \in reap.todo /\ reap.found = NoId
      /\ reap' = [reap EXCEPT !.todo = @ \ {id},
                              !.found = IF ~closed /\ Expired(id) THEN id ELSE NoId]
      /\ listed' = IF closed /\ Outlived(id) THEN listed \ {id} ELSE listed
      /\ UNCHANGED <<retention, sess, clock, deleting, phase>>
  BY DEF ReapLook
<1>2. Made' = Made /\ id \in listed /\ id \in Made /\ ~Unlocked
      /\ reap \in [now : 0..clock, todo : SUBSET listed, found : listed \union {NoId}]
  BY <1>1, NoIdFacts DEF Made, IInv, TypeOK, SweepOK
<1>3. /\ reap'.now = reap.now /\ reap'.todo = reap.todo \ {id}
      /\ reap'.found = IF ~closed /\ Expired(id) THEN id ELSE NoId
      /\ reap' \in [now : 0..clock, todo : SUBSET listed', found : listed' \union {NoId}]
  BY <1>1, <1>2
<1>4. TypeOK'
  BY <1>1, <1>2, <1>3 DEF IInv, TypeOK
<1>5. SweepOK'
  BY <1>1, <1>2, <1>3, NoIdFacts DEF IInv, TypeOK, SweepOK, Unlocked, Expired
<1>6. LiveIsReachable'
  BY <1>1, <1>2 DEF IInv, ClosedHasTime, LiveIsReachable
<1>7. ClosedHasTime' /\ ExpiredIsLate'
  BY <1>1, <1>2 DEF IInv, ClosedHasTime, ExpiredIsLate
<1> QED
  BY <1>4, <1>5, <1>6, <1>7 DEF IInv

LEMMA ReapCloseIInv ==
  ASSUME IInv, ReapClose
  PROVE  IInv'
<1> DEFINE id == reap.found
<1>1. /\ id # NoId
      /\ sess' = [sess EXCEPT ![id] = Closed(@, "expired", clock)]
      /\ listed' \in {listed, listed \ {id}}
      /\ reap' = [reap EXCEPT !.found = NoId]
      /\ UNCHANGED <<retention, clock, deleting, phase>>
  BY DEF ReapClose
<1>2. /\ id \in listed /\ id \in Made /\ id \notin reap.todo /\ ~Unlocked
      /\ reap \in [now : 0..clock, todo : SUBSET listed, found : listed \union {NoId}]
      /\ sess[id] \in Sessions /\ clock \in Nat
  BY <1>1, NoIdFacts DEF IInv, TypeOK, SweepOK, Made
<1>3. /\ SessionsKept /\ sess'[id] = Closed(sess[id], "expired", clock)
      /\ \A i \in Made \ {id} : sess'[i] = sess[i]
  BY <1>1, <1>2, CloseOne DEF IInv, Reasons
<1>4. ClosedHasTime' /\ ExpiredIsLate'
  BY <1>3, KeptIsFine
<1>5. /\ reap'.now = reap.now /\ reap'.todo = reap.todo /\ reap'.found = NoId
      /\ reap' \in [now : 0..clock, todo : SUBSET listed', found : listed' \union {NoId}]
  BY <1>1, <1>2
<1>6. TypeOK'
  BY <1>1, <1>3, <1>5 DEF IInv, TypeOK, SessionsKept
<1>7. SweepOK'
  BY <1>2, <1>5, NoIdFacts DEF IInv, TypeOK, SweepOK, Unlocked
<1>8. sess'[id].done
  BY <1>2, <1>3, ClosedFields DEF Reasons
<1>9. LiveIsReachable'
  BY <1>1, <1>3, <1>8 DEF IInv, LiveIsReachable, SessionsKept
<1> QED
  BY <1>4, <1>6, <1>7, <1>9 DEF IInv

LEMMA CloseAllIInv ==
  ASSUME IInv, CloseAll
  PROVE  IInv'
<1>1. /\ sess' = [i \in Made |->
                    IF i \in listed THEN Closed(sess[i], "shutdown", clock) ELSE sess[i]]
      /\ listed' = {} /\ phase' = "swept" /\ reap = Resting
      /\ UNCHANGED <<retention, clock, deleting, reap>>
  BY DEF CloseAll, IInv, SweepOK
<1>2. SessionsKept
  BY CloseListed DEF IInv
<1>3. ClosedHasTime' /\ ExpiredIsLate'
  BY <1>2, KeptIsFine
<1>4. reap' \in [now : 0..clock', todo : SUBSET listed', found : listed' \union {NoId}]
  BY <1>1 DEF IInv, TypeOK, Resting
<1>5. TypeOK'
  BY <1>1, <1>2, <1>4 DEF IInv, TypeOK, SessionsKept
<1>6. SweepOK'
  BY <1>1, NoIdFacts DEF SweepOK
<1>7. ASSUME NEW id \in Made, ~sess'[id].done PROVE deleting[id] > 0
  <2>1. /\ sess[id] \in Sessions /\ clock \in Nat /\ "shutdown" \in Reasons
    BY DEF IInv, TypeOK, Made, Reasons
  <2>2. id \notin listed
    BY <1>1, <1>7, <2>1, ClosedFields
  <2> QED
    BY <1>1, <1>7, <2>2 DEF IInv, LiveIsReachable
<1>8. LiveIsReachable'
  BY <1>1, <1>2, <1>7 DEF LiveIsReachable, SessionsKept
<1> QED
  BY <1>3, <1>5, <1>6, <1>8 DEF IInv

LEMMA QuietIInv ==
  ASSUME IInv, ReapEnd \/ Signal \/ Tick \/ UNCHANGED vars
  PROVE  IInv'
<1>1. /\ UNCHANGED <<retention, sess, listed, deleting>>
      /\ clock' \in Nat \ {Never} /\ clock <= clock'
      /\ reap' \in {reap, Resting}
      /\ phase' \in {"running", "stopping", "swept"}
  BY DEF ReapEnd, Signal, Tick, vars, IInv, TypeOK, Never
<1>2. Made' = Made
  BY <1>1 DEF Made
<1>3. reap' \in [now : 0..clock', todo : SUBSET listed', found : listed' \union {NoId}]
  BY <1>1 DEF IInv, TypeOK, Resting, Never
<1>4. TypeOK'
  BY <1>1, <1>2, <1>3 DEF IInv, TypeOK
<1>5. SweepOK'
  BY <1>1, NoIdFacts DEF IInv, SweepOK, Unlocked
<1> QED
  BY <1>1, <1>2, <1>4, <1>5 DEF IInv, ClosedHasTime, LiveIsReachable, ExpiredIsLate

LEMMA NextIInv == IInv /\ [Next]_vars => IInv'
<1> SUFFICES ASSUME IInv, [Next]_vars PROVE IInv'
  OBVIOUS
<1>1. ASSUME NEW asked \in Asks, NEW single \in Singles, Create(asked, single) PROVE IInv'
  BY <1>1, CreateIInv
<1>2. ASSUME NEW id \in Ids, Delete(id) PROVE IInv'
  BY <1>2, DeleteIInv
<1>3. ASSUME NEW id \in Ids, DeleteCloses(id) PROVE IInv'
  BY <1>3, DeleteClosesIInv
<1>4. ASSUME NEW id \in Ids, PeerLeaves(id) PROVE IInv'
  BY <1>4, PeerLeavesIInv
<1>5. CASE ReapStart
  BY <1>5, ReapStartIInv
<1>6. ASSUME NEW id \in Ids, ReapLook(id) PROVE IInv'
  BY <1>6, ReapLookIInv
<1>7. CASE ReapClose
  BY <1>7, ReapCloseIInv
<1>8. CASE CloseAll
  BY <1>8, CloseAllIInv
<1>9. CASE ReapEnd \/ Signal \/ Tick \/ UNCHANGED vars
  BY <1>9, QuietIInv
<1> QED
  BY <1>1, <1>2, <1>3, <1>4, <1>5, <1>6, <1>7, <1>8, <1>9 DEF Next, Sweep

\* The sweep's state, the sessions and the map agree in every state.
THEOREM Invariance == Spec => []IInv
BY InitIInv, NextIInv, PTL DEF Spec

\* Every variable has its type, and the sweep works on listed sessions (TypeOK).
THEOREM TypeCorrect == Spec => []TypeOK
<1>1. IInv => TypeOK
  BY DEF IInv
<1> QED
  BY <1>1, Invariance, PTL

\* A session that is live and not listed is about to be closed by the request that
\* removed it, so nothing is leaked (LiveIsReachable, store.go:68-79, 87-103).
THEOREM NothingLeaks == Spec => []LiveIsReachable
<1>1. IInv => LiveIsReachable
  BY DEF IInv
<1> QED
  BY <1>1, Invariance, PTL

\* "expired" is said only of a session whose lifetime had passed (ExpiredIsLate,
\* store.go:89-94).
THEOREM ExpiryIsTrue == Spec => []ExpiredIsLate
<1>1. IInv => ExpiredIsLate
  BY DEF IInv
<1> QED
  BY <1>1, Invariance, PTL

\* What leaves the map before its retention is over leaves because the server
\* stops, or because nothing is retained.
LEMMA UnlistStep ==
  ASSUME IInv, [Next]_vars, NEW id \in listed \ listed', retention > 0, phase' # "swept"
  PROVE  sess[id].done /\ clock >= sess[id].closedAt + retention
<1>1. ASSUME NEW i \in Ids, ReapLook(i)
      PROVE  sess[id].done /\ clock >= sess[id].closedAt + retention
  <2>1. id = i /\ sess[id].closedAt # Never /\ Outlived(id)
    BY <1>1 DEF ReapLook
  <2>2. /\ id \in Made /\ sess[id] \in Sessions /\ reap.now \in 0..clock
        /\ clock \in Nat /\ retention \in Nat
    BY StoreAssumption DEF IInv, TypeOK, Made
  <2> QED
    BY <2>1, <2>2 DEF IInv, ClosedHasTime, Outlived, Sessions
<1>2. ASSUME ~\E i \in Ids : ReapLook(i) PROVE FALSE
  BY <1>2, StoreAssumption DEF Next, Create, Delete, DeleteCloses, PeerLeaves, Sweep,
     ReapStart, ReapClose, ReapEnd, Signal, CloseAll, Tick, vars
<1> QED
  BY <1>1, <1>2

\* A closed session's status stays readable for its retention (StaysReadable,
\* store.go:16-19, 66-67, 81-83).
THEOREM StatusIsRetained == Spec => StaysReadable
<1> DEFINE Kept == \A id \in listed \ listed' :
                     retention > 0 /\ phase' # "swept" =>
                       sess[id].done /\ clock >= sess[id].closedAt + retention
<1>1. IInv /\ [Next]_vars => [Kept]_vars
  BY UnlistStep
<1> HIDE DEF Kept
<1>2. Spec => [][Kept]_vars
  BY <1>1, Invariance, PTL DEF Spec
<1> QED
  BY <1>2 DEF StaysReadable, Kept

===============================================================================
