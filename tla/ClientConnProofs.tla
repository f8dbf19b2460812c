--------------------------- MODULE ClientConnProofs ---------------------------
(***************************************************************************)
(* The deadlines of the SDK's connection, proved for any number of         *)
(* instants and of moved deadlines.  What makes them right is which timers *)
(* may still be on their way to the mutex, and that an operation never     *)
(* runs under a deadline that has expired with its context intact.         *)
(***************************************************************************)
EXTENDS ClientConn, TLAPS

\* A timer that went off and waits for the mutex is of an earlier deadline, which
\* was moved meanwhile, or of the one in effect, which has passed.
TimersInFlight ==
  \A d \in Directions : \A gen \in dl[d].fired :
    /\ gen <= dl[d].gen
    /\ gen = dl[d].gen => dl[d].timer = NoTime /\ dl[d].due \in 1..clock

\* A timer belongs to a deadline that was set.
TimerIsSet == \A d \in Directions : dl[d].timer # NoTime => dl[d].gen \in 1..MaxSets

\* Whatever is in flight when its deadline expires is interrupted.
ExpiryInterrupts == \A d \in Directions : dl[d].expired /\ Busy(d) => cancelled[d]

\* An operation that failed has closed the connection, or found it closed.
FailureIsFinal == \A d \in Directions : op[d] \in {"failed", "timeout", "error"} => ws = "closed"

IInv ==
  /\ TypeOK
  /\ ExpiredIsDue
  /\ TimersInFlight
  /\ TimerIsSet
  /\ ExpiryInterrupts
  /\ FailureIsFinal
  /\ TimeoutCloses

-------------------------------------------------------------------------------
(***************************************************************************)
(* One direction's deadline, by itself.                                    *)
(***************************************************************************)
\* What the invariant says of a deadline at an instant.
Sound(q, now) ==
  /\ q.timer # NoTime => q.timer = q.due /\ ~q.expired
  /\ q.expired => q.due \in 1..now
  /\ \A gen \in q.fired :
       gen <= q.gen /\ (gen = q.gen => q.timer = NoTime /\ q.due \in 1..now)
  /\ q.timer # NoTime => q.gen \in 1..MaxSets

\* The invariant says of each deadline that it is sound.
LEMMA DeadlinesSound ==
  ASSUME IInv, NEW d \in Directions
  PROVE  dl[d] \in Deadlines /\ Sound(dl[d], clock)
BY DEF IInv, TypeOK, ExpiredIsDue, TimersInFlight, TimerIsSet, Sound

\* The types, one by one.
LEMMA TypeFacts ==
  IInv => /\ clock \in 1..MaxClock /\ clock \in Nat /\ MaxClock \in Nat /\ MaxSets \in Nat
          /\ dl \in [Directions -> Deadlines] /\ cancelled \in [Directions -> BOOLEAN]
          /\ op \in [Directions -> Ops] /\ ws \in {"open", "lost", "closed"}
          /\ closing \in {"no", "under way", "returned"}
          /\ ka \in {"idle", "pinging", "failed", "off"}
<1>1. IInv => /\ clock \in 1..MaxClock
              /\ dl \in [Directions -> Deadlines] /\ cancelled \in [Directions -> BOOLEAN]
              /\ op \in [Directions -> Ops] /\ ws \in {"open", "lost", "closed"}
              /\ closing \in {"no", "under way", "returned"}
              /\ ka \in {"idle", "pinging", "failed", "off"}
  BY DEF IInv, TypeOK
<1>2. MaxClock \in Nat /\ MaxSets \in Nat
  BY ClientAssumption
<1>3. \A n \in 1..MaxClock : n \in Nat
  BY <1>2
<1> QED
  BY <1>1, <1>2, <1>3

\* What is sound stays so when time passes.
LEMMA LaterSound ==
  ASSUME NEW q \in Deadlines, NEW now \in Nat, Sound(q, now)
  PROVE  Sound(q, now + 1)
BY DEF Sound

\* The parts of the invariant that speak of deadlines and the clock only.
DeadlinesRight ==
  /\ clock \in 1..MaxClock
  /\ dl \in [Directions -> Deadlines]
  /\ \A d \in Directions : Sound(dl[d], clock)

\* A sound change of one direction's deadline leaves the other's.
LEMMA OneDeadlineMoves ==
  ASSUME IInv, clock' = clock, NEW d \in Directions, NEW q \in Deadlines, Sound(q, clock),
         dl' = [dl EXCEPT ![d] = q]
  PROVE  DeadlinesRight'
<1>1. dl' \in [Directions -> Deadlines] /\ clock' \in 1..MaxClock
  BY TypeFacts
<1>2. \A e \in Directions : Sound(dl'[e], clock)
  BY TypeFacts, DeadlinesSound
<1> QED
  BY <1>1, <1>2 DEF DeadlinesRight, Sound

\* The parts of the invariant make it.
LEMMA Together ==
  ASSUME DeadlinesRight', ExpiryInterrupts', FailureIsFinal', TimeoutCloses',
         cancelled' \in [Directions -> BOOLEAN], op' \in [Directions -> Ops],
         ws' \in {"open", "lost", "closed"}, closing' \in {"no", "under way", "returned"},
         ka' \in {"idle", "pinging", "failed", "off"}
  PROVE  IInv'
BY DEF DeadlinesRight, Sound, IInv, TypeOK, ExpiredIsDue, TimersInFlight, TimerIsSet

\* Deadlines that nobody touches stay sound.
LEMMA SameDeadlines == IInv /\ UNCHANGED <<clock, dl>> => DeadlinesRight'
<1> SUFFICES ASSUME IInv, UNCHANGED <<clock, dl>> PROVE DeadlinesRight'
  OBVIOUS
<1>1. \A d \in Directions : Sound(dl[d], clock)
  BY DeadlinesSound
<1> QED
  BY <1>1, TypeFacts DEF DeadlinesRight, Sound

\* Cutting a direction off reaches the operation in flight and nobody else.
LEMMA CutFacts ==
  ASSUME IInv, NEW d \in Directions, cancelled' = Cut(d)
  PROVE  /\ cancelled' \in [Directions -> BOOLEAN]
         /\ \A e \in Directions : cancelled[e] => cancelled'[e]
         /\ Busy(d) => cancelled'[d]
         /\ \A e \in Directions : op[e] = "idle" => cancelled'[e] = cancelled[e]
BY TypeFacts DEF Cut, Busy

-------------------------------------------------------------------------------
LEMMA InitIInv == Init => IInv
<1> SUFFICES ASSUME Init PROVE IInv
  OBVIOUS
<1>1. TypeOK
  BY ClientAssumption DEF Init, TypeOK, Deadlines, Times, Ops, NoTime
<1> QED
  BY <1>1 DEF Init, IInv, ExpiredIsDue, TimersInFlight, TimerIsSet, ExpiryInterrupts,
     FailureIsFinal, TimeoutCloses, NoTime, Busy

LEMMA SetIInv ==
  ASSUME IInv, NEW d \in Directions, NEW t \in Times, Set(d, t)
  PROVE  IInv'
<1> DEFINE past == t # NoTime /\ t <= clock
           q == [gen |-> dl[d].gen + 1, due |-> t, timer |-> IF past THEN NoTime ELSE t,
                 fired |-> dl[d].fired, expired |-> past]
<1>1. /\ UNCHANGED <<clock, op, ws, closing, ka>> /\ dl[d].gen < MaxSets
      /\ dl' = [dl EXCEPT ![d].gen = @ + 1, ![d].due = t,
                          ![d].timer = IF past THEN NoTime ELSE t, ![d].expired = past]
      /\ cancelled' = IF past THEN Cut(d) ELSE cancelled
  BY DEF Set
<1>2. dl[d] \in Deadlines /\ Sound(dl[d], clock) /\ clock \in Nat /\ MaxSets \in Nat
  BY DeadlinesSound, TypeFacts
<1>3. past \in BOOLEAN
  OBVIOUS
<1>4. q \in Deadlines
  BY <1>1, <1>2, ClientAssumption DEF Deadlines, Times, NoTime
<1>5. Sound(q, clock)
  <2>1. t \in Nat /\ dl[d].gen \in Nat /\ (past => t \in 1..clock) /\ NoTime = 0
    BY <1>2, ClientAssumption DEF Times, NoTime, Deadlines
  <2>2. \A gen \in dl[d].fired : gen \in Nat /\ gen <= dl[d].gen
    BY <1>2 DEF Sound, Deadlines
  <2>3. q.timer # NoTime => q.timer = q.due /\ ~q.expired
    OBVIOUS
  <2>4. q.expired => q.due \in 1..clock
    BY <2>1
  <2>5. \A gen \in q.fired : gen <= q.gen /\ gen # q.gen
    BY <2>1, <2>2
  <2>6. q.gen \in 1..MaxSets
    BY <1>1, <1>2, <2>1
  <2> QED
    BY <2>3, <2>4, <2>5, <2>6 DEF Sound
<1>6. dl' = [dl EXCEPT ![d] = q]
  <2> DEFINE t_ == IF past THEN NoTime ELSE t
  <2>1. dl' = [dl EXCEPT ![d].gen = dl[d].gen + 1, ![d].due = t, ![d].timer = t_, ![d].expired = past]
    BY <1>1
  <2> DEFINE g_ == dl[d].gen + 1
  <2> DEFINE o == dl[d]
             q1 == [gen |-> g_, due |-> o.due, timer |-> o.timer, fired |-> o.fired, expired |-> o.expired]
             q2 == [gen |-> g_, due |-> t, timer |-> o.timer, fired |-> o.fired, expired |-> o.expired]
             q3 == [gen |-> g_, due |-> t, timer |-> t_, fired |-> o.fired, expired |-> o.expired]
             f1 == [dl EXCEPT ![d].gen = g_]
             f2 == [f1 EXCEPT ![d].due = t]
             f3 == [f2 EXCEPT ![d].timer = t_]
  <2>2. dl \in [Directions -> Deadlines] /\ o \in Deadlines
    BY TypeFacts
  <2> HIDE DEF g_, t_, past
  <2>3. q1 = [o EXCEPT !.gen = g_]
    BY <2>2 DEF Deadlines
  <2>4. q2 = [q1 EXCEPT !.due = t] /\ q3 = [q2 EXCEPT !.timer = t_]
    OBVIOUS
  <2>5. q = [q3 EXCEPT !.expired = past]
    BY DEF t_, g_
  <2>6. dl' = [f3 EXCEPT ![d].expired = past]
    BY <2>1, Zenon DEF g_
  <2> HIDE DEF q1, q2, q3, q
  <2>7. f1 = [dl EXCEPT ![d] = q1] /\ f1[d] = q1 /\ DOMAIN f1 = Directions
    BY <2>2, <2>3
  <2> HIDE DEF f1
  <2>8. f2 = [dl EXCEPT ![d] = q2] /\ f2[d] = q2 /\ DOMAIN f2 = Directions
    BY <2>2, <2>4, <2>7
  <2> HIDE DEF f2
  <2>9. f3 = [dl EXCEPT ![d] = q3] /\ f3[d] = q3 /\ DOMAIN f3 = Directions
    BY <2>2, <2>4, <2>8
  <2> HIDE DEF f3
  <2> QED
    BY <2>2, <2>5, <2>6, <2>9
<1>7. DeadlinesRight'
  BY <1>1, <1>4, <1>5, <1>6, OneDeadlineMoves
<1>8. /\ cancelled' \in [Directions -> BOOLEAN]
      /\ \A e \in Directions : cancelled[e] => cancelled'[e]
      /\ past /\ Busy(d) => cancelled'[d]
  BY <1>1, CutFacts, TypeFacts
<1>9. ExpiryInterrupts'
  <2>1. dl'[d].expired = past /\ \A e \in Directions \ {d} : dl'[e] = dl[e]
    BY <1>6, TypeFacts
  <2> QED
    BY <1>1, <1>8, <2>1 DEF IInv, ExpiryInterrupts, Busy
<1>10. FailureIsFinal' /\ TimeoutCloses'
  BY <1>1, <1>8 DEF IInv, FailureIsFinal, TimeoutCloses
<1> QED
  BY <1>1, <1>7, <1>8, <1>9, <1>10, TypeFacts, Together

LEMMA TimerFiresIInv ==
  ASSUME IInv, NEW d \in Directions, TimerFires(d)
  PROVE  IInv'
<1> DEFINE q == [gen |-> dl[d].gen, due |-> dl[d].due, timer |-> NoTime,
                 fired |-> dl[d].fired \union {dl[d].gen}, expired |-> dl[d].expired]
<1>1. /\ UNCHANGED <<clock, cancelled, op, ws, closing, ka>> /\ dl[d].timer \in 1..clock
      /\ dl' = [dl EXCEPT ![d].timer = NoTime, ![d].fired = @ \union {dl[d].gen}]
  BY DEF TimerFires
<1>2. dl[d] \in Deadlines /\ Sound(dl[d], clock) /\ clock \in Nat /\ MaxSets \in Nat
  BY DeadlinesSound, TypeFacts
<1>3. dl[d].gen \in 1..MaxSets /\ dl[d].due \in 1..clock
  BY <1>1, <1>2 DEF Sound, NoTime
<1>4. q \in Deadlines /\ Sound(q, clock)
  BY <1>2, <1>3, ClientAssumption DEF Deadlines, Times, NoTime, Sound
<1>5. dl' = [dl EXCEPT ![d] = q]
  <2> DEFINE x == [dl[d] EXCEPT !.timer = NoTime]
             f == [dl EXCEPT ![d].timer = NoTime]
  <2>1. q = [x EXCEPT !.fired = @ \union {dl[d].gen}]
    <3>1. x = [gen |-> dl[d].gen, due |-> dl[d].due, timer |-> NoTime,
               fired |-> dl[d].fired, expired |-> dl[d].expired]
      BY <1>2 DEF Deadlines
    <3> HIDE DEF x
    <3> QED
      BY <3>1
  <2> HIDE DEF q, x
  <2>2. f = [dl EXCEPT ![d] = x] /\ f[d] = x /\ DOMAIN f = Directions
    BY TypeFacts DEF x
  <2>3. dl' = [f EXCEPT ![d].fired = @ \union {dl[d].gen}]
    BY <1>1
  <2> HIDE DEF f
  <2> QED
    BY <2>1, <2>2, <2>3, TypeFacts
<1>6. DeadlinesRight'
  BY <1>1, <1>4, <1>5, OneDeadlineMoves
<1>7. \A e \in Directions : dl'[e].expired = dl[e].expired
  BY <1>5, TypeFacts
<1>8. ExpiryInterrupts' /\ FailureIsFinal' /\ TimeoutCloses'
  BY <1>1, <1>7 DEF IInv, ExpiryInterrupts, FailureIsFinal, TimeoutCloses, Busy
<1> QED
  BY <1>1, <1>6, <1>8, TypeFacts, Together

LEMMA ExpireIInv ==
  ASSUME IInv, NEW d \in Directions, NEW gen \in 1..MaxSets, Expire(d, gen)
  PROVE  IInv'
<1> DEFINE x == dl[d].expired \/ gen = dl[d].gen
           q == [gen |-> dl[d].gen, due |-> dl[d].due, timer |-> dl[d].timer,
                 fired |-> dl[d].fired \ {gen}, expired |-> x]
<1>1. /\ UNCHANGED <<clock, op, ws, closing, ka>> /\ gen \in dl[d].fired
      /\ dl' = [dl EXCEPT ![d].fired = @ \ {gen}, ![d].expired = x]
      /\ cancelled' = IF gen = dl[d].gen THEN Cut(d) ELSE cancelled
  BY DEF Expire
<1>2. dl[d] \in Deadlines /\ Sound(dl[d], clock) /\ clock \in Nat /\ MaxSets \in Nat
  BY DeadlinesSound, TypeFacts
<1>3. x \in BOOLEAN
  BY <1>2 DEF Deadlines
<1>4. q \in Deadlines
  BY <1>2 DEF Deadlines
<1>5. Sound(q, clock)
  BY <1>1, <1>2 DEF Sound, Deadlines
<1>6. dl' = [dl EXCEPT ![d] = q]
  <2> DEFINE y == [dl[d] EXCEPT !.fired = dl[d].fired \ {gen}]
             f == [dl EXCEPT ![d].fired = dl[d].fired \ {gen}]
  <2>1. q = [y EXCEPT !.expired = x]
    <3>0. dl[d] = [gen |-> dl[d].gen, due |-> dl[d].due, timer |-> dl[d].timer,
                   fired |-> dl[d].fired, expired |-> dl[d].expired]
      BY <1>2 DEF Deadlines
    <3>1. y = [gen |-> dl[d].gen, due |-> dl[d].due, timer |-> dl[d].timer,
               fired |-> dl[d].fired \ {gen}, expired |-> dl[d].expired]
      BY <3>0
    <3> HIDE DEF x, y
    <3> QED
      BY <3>1
  <2> HIDE DEF q, x, y
  <2>2. f = [dl EXCEPT ![d] = y] /\ f[d] = y /\ DOMAIN f = Directions
    BY TypeFacts DEF y
  <2>3. dl' = [f EXCEPT ![d].expired = x]
    BY <1>1
  <2> HIDE DEF f
  <2> QED
    BY <2>1, <2>2, <2>3, TypeFacts
<1>7. DeadlinesRight'
  BY <1>1, <1>4, <1>5, <1>6, OneDeadlineMoves
<1>8. /\ cancelled' \in [Directions -> BOOLEAN]
      /\ \A e \in Directions : cancelled[e] => cancelled'[e]
      /\ gen = dl[d].gen /\ Busy(d) => cancelled'[d]
  BY <1>1, CutFacts, TypeFacts
<1>9. ExpiryInterrupts'
  <2>1. dl'[d].expired = x /\ \A e \in Directions \ {d} : dl'[e] = dl[e]
    BY <1>6, TypeFacts
  <2> QED
    BY <1>1, <1>8, <2>1 DEF IInv, ExpiryInterrupts, Busy
<1>10. FailureIsFinal' /\ TimeoutCloses'
  BY <1>1, <1>8 DEF IInv, FailureIsFinal, TimeoutCloses
<1> QED
  BY <1>1, <1>7, <1>8, <1>9, <1>10, TypeFacts, Together

LEMMA OperateIInv ==
  ASSUME IInv, NEW d \in Directions, Operate(d)
  PROVE  IInv'
<1>1. UNCHANGED <<clock, dl, cancelled, closing, ka>>
  BY DEF Operate, Begin, Succeeds, Fails, Wrap, End, Goes
<1>2. /\ op' \in [Directions -> Ops] /\ ws' \in {"open", "lost", "closed"}
      /\ \A e \in Directions \ {d} : op'[e] = op[e]
      /\ ws = "closed" => ws' = "closed"
  BY TypeFacts DEF Operate, Begin, Succeeds, Fails, Wrap, End, Goes, Ops
<1>3. ExpiryInterrupts'
  BY <1>1, <1>2 DEF IInv, ExpiryInterrupts, Busy, Operate, Begin, Succeeds, Fails, Wrap, End, Goes
<1>4. FailureIsFinal'
  BY <1>2, TypeFacts DEF IInv, FailureIsFinal, Operate, Begin, Succeeds, Fails, Wrap, End, Goes
<1>5. TimeoutCloses'
  BY <1>1, <1>2, TypeFacts DEF IInv, ExpiryInterrupts, FailureIsFinal, TimeoutCloses, Busy,
     Operate, Begin, Succeeds, Fails, Wrap, End, Goes
<1> QED
  BY <1>1, <1>2, <1>3, <1>4, <1>5, SameDeadlines, TypeFacts, Together

LEMMA CloseReturnsIInv == IInv /\ CloseReturns => IInv'
<1> SUFFICES ASSUME IInv, CloseReturns PROVE IInv'
  OBVIOUS
<1>1. /\ UNCHANGED <<clock, dl, op, ka>> /\ ws' = "closed" /\ closing' = "returned"
      /\ cancelled' = [d \in Directions |-> TRUE]
  BY DEF CloseReturns
<1>2. ExpiryInterrupts' /\ FailureIsFinal' /\ TimeoutCloses'
  BY <1>1 DEF ExpiryInterrupts, FailureIsFinal, TimeoutCloses
<1> QED
  BY <1>1, <1>2, SameDeadlines, TypeFacts, Together

\* Close is called, the keepalive moves, or the network does.
LEMMA OutsideIInv ==
  ASSUME IInv, Close \/ RunKeepalive \/ Broken \/ Lost
  PROVE  IInv'
<1>1. UNCHANGED <<clock, dl, cancelled, op>>
  BY DEF Close, RunKeepalive, KaPings, KaPong, KaFails, KaCloses, KaStops, KaGoes, Broken,
     Lost, Network
<1>2. /\ ws' \in {"open", "lost", "closed"} /\ (ws = "closed" => ws' = "closed")
      /\ closing' \in {"no", "under way", "returned"}
      /\ ka' \in {"idle", "pinging", "failed", "off"}
  BY TypeFacts DEF Close, RunKeepalive, KaPings, KaPong, KaFails, KaCloses, KaStops, KaGoes,
     Broken, Lost, Network
<1>3. ExpiryInterrupts' /\ FailureIsFinal' /\ TimeoutCloses'
  BY <1>1, <1>2 DEF IInv, ExpiryInterrupts, FailureIsFinal, TimeoutCloses, Busy
<1> QED
  BY <1>1, <1>2, <1>3, SameDeadlines, TypeFacts, Together

LEMMA TickIInv == IInv /\ Tick => IInv'
<1> SUFFICES ASSUME IInv, Tick PROVE IInv'
  OBVIOUS
<1>1. UNCHANGED <<dl, cancelled, op, ws, closing, ka>> /\ clock' = clock + 1 /\ clock < MaxClock
  BY DEF Tick
<1>2. DeadlinesRight'
  <2>1. clock \in Nat /\ clock + 1 \in 1..MaxClock
    <3>1. clock \in Nat /\ MaxClock \in Nat
      BY TypeFacts
    <3> QED
      BY <1>1, <3>1
  <2>2. \A d \in Directions : Sound(dl[d], clock + 1)
    BY <2>1, DeadlinesSound, LaterSound
  <2> QED
    BY <1>1, <2>1, <2>2, TypeFacts DEF DeadlinesRight, Sound
<1>3. ExpiryInterrupts' /\ FailureIsFinal' /\ TimeoutCloses'
  BY <1>1 DEF IInv, ExpiryInterrupts, FailureIsFinal, TimeoutCloses, Busy
<1> QED
  BY <1>1, <1>2, <1>3, TypeFacts, Together

LEMMA NextIInv == IInv /\ [Next]_vars => IInv'
<1> SUFFICES ASSUME IInv, [Next]_vars PROVE IInv'
  OBVIOUS
<1>1. ASSUME NEW d \in Directions, NEW t \in Times, Set(d, t) PROVE IInv'
  BY <1>1, SetIInv
<1>2. ASSUME NEW d \in Directions, TimerFires(d) \/ Operate(d) PROVE IInv'
  BY <1>2, TimerFiresIInv, OperateIInv
<1>3. ASSUME NEW d \in Directions, NEW gen \in 1..MaxSets, Expire(d, gen) PROVE IInv'
  BY <1>3, ExpireIInv
<1>4. CASE Close \/ CloseReturns \/ RunKeepalive \/ Broken \/ Lost \/ Tick
  BY <1>4, CloseReturnsIInv, OutsideIInv, TickIInv
<1>5. CASE UNCHANGED vars
  BY <1>5 DEF vars, IInv, TypeOK, ExpiredIsDue, TimersInFlight, TimerIsSet, ExpiryInterrupts,
     FailureIsFinal, TimeoutCloses, Busy
<1> QED
  BY <1>1, <1>2, <1>3, <1>4, <1>5 DEF Next

-------------------------------------------------------------------------------
\* The inductive invariant holds however deadlines are set, timers go off, and reads,
\* writes and closes interleave (pkg/client/conn.go:249-354).
THEOREM Invariance == Spec => []IInv
<1> QED
  BY InitIInv, NextIInv, PTL DEF Spec

\* Every variable has its type, and an armed timer is that of the deadline in effect
\* (conn.go:252-283).
THEOREM TypeCorrect == Spec => []TypeOK
<1>1. IInv => TypeOK
  BY DEF IInv
<1> QED
  BY <1>1, Invariance, PTL

\* A timer of a deadline that was moved never expires the one in effect
\* (conn.go:264-283).
THEOREM NoEarlyExpiry == Spec => []ExpiredIsDue
<1>1. IInv => ExpiredIsDue
  BY DEF IInv
<1> QED
  BY <1>1, Invariance, PTL

\* An operation that reports a timeout was interrupted, and the connection is closed
\* (conn.go:151-155, 286-318).
THEOREM TimeoutIsFinal == Spec => []TimeoutCloses
<1>1. IInv => TimeoutCloses
  BY DEF IInv
<1> QED
  BY <1>1, Invariance, PTL

\* A step cuts no idle direction off unless the connection has been closed.
LEMMA IdleSpared ==
  ASSUME IInv, [Next]_vars, NEW d \in Directions, op[d] = "idle", closing' # "returned"
  PROVE  cancelled'[d] = cancelled[d]
<1>1. ASSUME NEW e \in Directions, NEW t \in Times, Set(e, t) PROVE cancelled'[d] = cancelled[d]
  BY <1>1, CutFacts DEF Set
<1>2. ASSUME NEW e \in Directions, NEW gen \in 1..MaxSets, Expire(e, gen)
      PROVE  cancelled'[d] = cancelled[d]
  BY <1>2, CutFacts DEF Expire
<1>3. ASSUME NEW e \in Directions, TimerFires(e) \/ Operate(e) PROVE cancelled'[d] = cancelled[d]
  BY <1>3 DEF TimerFires, Operate, Begin, Succeeds, Fails, Wrap, End, Goes
<1>4. CASE Close \/ RunKeepalive \/ Broken \/ Lost \/ Tick \/ UNCHANGED vars
  BY <1>4 DEF Close, RunKeepalive, KaPings, KaPong, KaFails, KaCloses, KaStops, KaGoes,
     Broken, Lost, Network, Tick, vars
<1>5. CASE CloseReturns
  BY <1>5 DEF CloseReturns
<1> QED
  BY <1>1, <1>2, <1>3, <1>4, <1>5 DEF Next

\* A deadline that passes while no operation is in flight does not touch the
\* connection (conn.go:154-155).
THEOREM IdleIsSpared == Spec => IdleExpiryHarmless
<1>1. IInv /\ [Next]_vars =>
        [\A d \in Directions :
           op[d] = "idle" /\ closing' # "returned" => cancelled'[d] = cancelled[d]]_vars
  BY IdleSpared
<1> QED
  BY <1>1, Invariance, PTL DEF Spec, IdleExpiryHarmless
===============================================================================
