------------------------------ MODULE AdminProofs ------------------------------
(***************************************************************************)
(* What the admin API promises, proved for any callers, tokens, origins,   *)
(* requests and limits, and for any width of a duration.  First arithmetic:*)
(* what becomes of a lifetime on its way from the SDK's caller through     *)
(* whole seconds into a session; then the handlers.                        *)
(***************************************************************************)
EXTENDS Admin, TLAPS

Settings == [ttl : Durations, wait : Durations, closed : BOOLEAN]

\* A request as it arrives, also one that the SDK makes.  How many seconds it names
\* is of no consequence.
AnyBody == [ttl : Int, wait : Int, malformed : BOOLEAN, long : BOOLEAN]

Arriving == [op : Ops, bearer : Bearers, host : Hosts \union {NoHost}, body : AnyBody]

\* Only a page of an allowed origin has had a preflight answered.
ClearedOnly == cleared \subseteq Allowed

\* What a caller was told has ended is closed or can no longer be found; what it
\* is reading and had been told of is closed; and what it has read so far is in
\* one of two heaps, of which the ended one is of closed sessions.
Reading ==
  \A c \in Callers :
    /\ \A id \in told[c] : sess[id].closed \/ id \notin listed
    /\ \A id \in doing[c].todo : id \in told[c] => sess[id].closed
    /\ \A id \in doing[c].ended : sess[id].closed
    /\ doing[c].open \intersect told[c] = {}
    /\ doing[c].open \intersect doing[c].ended = {}
    /\ doing[c].todo \intersect (doing[c].open \union doing[c].ended) = {}

CreatedIsMade == answer.status = 201 => answer.id \in Made

IInv ==
  /\ TypeOK
  /\ ClearedOnly
  /\ Reading
  /\ WithinLimits
  /\ CreatedIsMade
  /\ AsAsked
  /\ OnlyEntitled
  /\ EndedStaysEnded

-------------------------------------------------------------------------------
(***************************************************************************)
(* Durations.                                                              *)
(***************************************************************************)
LEMMA Division ==
  ASSUME NEW s \in Nat \ {0}, NEW d \in Nat
  PROVE  /\ d \div s \in Nat /\ (d \div s) * s <= d /\ d < (d \div s) * s + s
         /\ (d \div s) * s = d - (d % s)
BY Z3

\* The remainder of a division by s is below s, and a number below s is its own.
LEMMA Remainder ==
  ASSUME NEW s \in Nat \ {0}, NEW d \in Int
  PROVE  /\ d % s \in 0..(s - 1)
         /\ d \in 0..(s - 1) => d % s = d
BY Z3

\* A second and the limits are durations that do not wrap.
LEMMA SecondFacts == Half \in Nat /\ Second \in Nat \ {0} /\ Second < Half
                     /\ 2 * Half \in Nat \ {0} /\ TTL \in 1..(Half - 1) /\ PeerWait \in 1..(Half - 1)
BY AdminAssumption

\* Wrapping gives a duration, and leaves a duration as it is.
LEMMA WrapFacts ==
  ASSUME NEW x \in Int
  PROVE  Wrap(x) \in Durations /\ (x \in Durations => Wrap(x) = x)
<1>1. x + Half \in Int /\ 2 * Half \in Nat \ {0} /\ Half \in Nat
  BY SecondFacts
<1>2. /\ (x + Half) % (2 * Half) \in 0..(2 * Half - 1)
      /\ x + Half \in 0..(2 * Half - 1) => (x + Half) % (2 * Half) = x + Half
  BY <1>1, Remainder
<1> QED
  BY <1>1, <1>2 DEF Wrap, Durations

\* Any number of seconds becomes a duration, perhaps another than was meant.
LEMMA FromSecondsType == \A n \in Int : FromSeconds(n) \in Durations
<1> TAKE n \in Int
<1>1. n * Second \in Int
  BY SecondFacts
<1> QED
  BY <1>1, WrapFacts DEF FromSeconds

\* Whole seconds of a duration are given back as that duration, less what is
\* left of a second, and do not wrap around.
LEMMA SecondsBack ==
  ASSUME NEW d \in Durations
  PROVE  LET n == WholeSeconds(d) IN
         /\ n \in Int
         /\ n < 0 <=> d <= -Second
         /\ n > 0 <=> d >= Second
         /\ n >= 0 => FromSeconds(n) = n * Second
         /\ n > 0 => FromSeconds(n) \in 1..d /\ FromSeconds(n) = d - (d % Second)
<1> DEFINE n == WholeSeconds(d)
<1>1. d \in Int /\ d < Half /\ Second \in Nat \ {0} /\ Half \in Nat
  BY SecondFacts DEF Durations
<1>2. CASE d >= 0
  <2> DEFINE m == d \div Second
  <2>1. n = m /\ d \in Nat
    BY <1>1, <1>2 DEF WholeSeconds
  <2>2. m \in Nat /\ m * Second <= d /\ d < m * Second + Second /\ m * Second = d - (d % Second)
    BY <1>1, <2>1, Division
  <2> HIDE DEF m
  <2>3. m * Second \in Nat /\ (m = 0 => m * Second = 0) /\ (m > 0 => m * Second >= Second)
    BY <1>1, <2>2, Z3
  <2>4. m * Second \in Durations
    BY <1>1, <2>2, <2>3 DEF Durations
  <2>5. FromSeconds(m) = m * Second
    BY <2>3, <2>4, WrapFacts DEF FromSeconds
  <2> HIDE DEF n
  <2>6. m > 0 <=> d >= Second
    BY <1>1, <2>2, <2>3
  <2>7. m > 0 => FromSeconds(m) \in 1..d /\ FromSeconds(m) = d - (d % Second)
    BY <1>1, <2>2, <2>3, <2>5
  <2> QED
    BY <1>1, <1>2, <2>1, <2>2, <2>5, <2>6, <2>7 DEF n
<1>3. CASE d < 0
  <2> DEFINE m == (-d) \div Second
  <2>1. n = -m /\ -d \in Nat
    BY <1>1, <1>3 DEF WholeSeconds
  <2>2. m \in Nat /\ m * Second <= -d /\ -d < m * Second + Second
    BY <1>1, <2>1, Division
  <2> HIDE DEF m
  <2>3. (m = 0 => m * Second = 0) /\ (m > 0 => m * Second >= Second) /\ m * Second \in Nat
    BY <1>1, <2>2, Z3
  <2>4. m > 0 <=> d <= -Second
    BY <1>1, <2>2, <2>3
  <2>5. m = 0 => FromSeconds(-m) = (-m) * Second
    <3> SUFFICES ASSUME m = 0 PROVE FromSeconds(0) = 0 * Second
      OBVIOUS
    <3>1. 0 * Second = 0 /\ 0 \in Durations
      BY <1>1 DEF Durations
    <3> QED
      BY <3>1, WrapFacts DEF FromSeconds
  <2> HIDE DEF n
  <2> QED
    BY <1>1, <1>3, <2>1, <2>2, <2>4, <2>5 DEF n
<1> QED
  BY <1>1, <1>2, <1>3

-------------------------------------------------------------------------------
(***************************************************************************)
(* What a session becomes.                                                 *)
(***************************************************************************)
Limited(s) == s.ttl \in 1..TTL /\ EffectiveWait(s) \in 1..PeerWait

\* What the handler does not refuse becomes a session within the limits.
LEMMA NewSessionLimited ==
  ASSUME NEW body \in AnyBody, ~Refuses(body)
  PROVE  NewSession(body) \in Settings /\ Limited(NewSession(body))
<1>1. FromSeconds(body.ttl) \in Durations /\ FromSeconds(body.wait) \in Durations
  BY FromSecondsType DEF AnyBody
<1>2. FromSeconds(body.ttl) <= TTL /\ FromSeconds(body.wait) <= PeerWait
  BY <1>1, SecondFacts DEF Refuses, Durations
<1> QED
  BY <1>1, <1>2, SecondFacts DEF NewSession, Settings, Limited, EffectiveWait, Durations

\* The SDK sends whole numbers.
LEMMA OnTheWireType ==
  ASSUME NEW ask \in Asks
  PROVE  OnTheWire(ask) \in AnyBody
<1>1. ask.ttl \in Durations /\ ask.wait \in Durations /\ ask.long \in BOOLEAN
  BY InputsAssumption
<1>2. WholeSeconds(ask.ttl) \in Int /\ WholeSeconds(ask.wait) \in Int
  BY <1>1, SecondsBack
<1> QED
  BY <1>1, <1>2 DEF OnTheWire, AnyBody

\* The handler's check of what the SDK sends, with its overflow, is the comparison
\* of what was asked for with the limit.
LEMMA SettingChecked ==
  ASSUME NEW d \in Durations, NEW limit \in 1..(Half - 1)
  PROVE  LET n == WholeSeconds(d) IN (n < 0 \/ FromSeconds(n) > limit) <=> Exceeds(d, limit)
<1> DEFINE n == WholeSeconds(d)
           x == FromSeconds(n)
           left == d % Second
<1>1. d \in Int /\ Second \in Nat \ {0} /\ limit \in Nat
  BY SecondFacts DEF Durations
<1>2. /\ n \in Int /\ (n < 0 <=> d <= -Second) /\ (n > 0 <=> d >= Second)
      /\ n >= 0 => x = n * Second
      /\ n > 0 => x = d - left
  BY SecondsBack
<1>3. /\ left \in 0..(Second - 1)
      /\ d \in 0..(Second - 1) => left = d
  BY <1>1, Remainder
<1>4. n = 0 => x = 0
  BY <1>1, <1>2
<1>5. x \in Int
  BY <1>2, FromSecondsType, SecondFacts DEF Durations
<1>6. Exceeds(d, limit) <=> d <= -Second \/ d - left > limit
  BY DEF Exceeds
<1> HIDE DEF n, x, left
<1>7. CASE n < 0
  BY <1>2, <1>6, <1>7 DEF n
<1>8. CASE n = 0
  <2>1. d - left <= 0 /\ d > -Second
    BY <1>1, <1>2, <1>3, <1>8
  <2>2. ~(n < 0 \/ x > limit) /\ ~(d <= -Second \/ d - left > limit)
    BY <1>1, <1>3, <1>4, <1>8, <2>1
  <2> QED
    BY <1>6, <2>2 DEF n, x
<1>9. CASE n > 0
  <2>1. x = d - left /\ d > -Second /\ ~(n < 0)
    BY <1>1, <1>2, <1>9
  <2>2. (n < 0 \/ x > limit) <=> (d <= -Second \/ d - left > limit)
    BY <1>1, <1>3, <2>1
  <2> QED
    BY <1>6, <2>2 DEF n, x
<1> QED
  BY <1>2, <1>7, <1>8, <1>9

\* What is sent for d and not refused is d to the second, or nothing, for which the
\* store and the relay both take the server's setting.
LEMMA SettingGranted ==
  ASSUME NEW d \in Durations, NEW limit \in 1..(Half - 1), ~Exceeds(d, limit)
  PROVE  LET x == FromSeconds(WholeSeconds(d)) IN
         /\ Grants(IF x <= 0 \/ x > limit THEN limit ELSE x, d, limit)
         /\ Grants(IF x > 0 THEN x ELSE limit, d, limit)
<1> DEFINE n == WholeSeconds(d)
           x == FromSeconds(n)
           left == d % Second
<1>1. d \in Int /\ Second \in Nat \ {0} /\ limit \in Nat /\ limit > 0
  BY SecondFacts DEF Durations
<1>2. /\ n \in Int /\ (n < 0 <=> d <= -Second) /\ (n > 0 <=> d >= Second)
      /\ n >= 0 => x = n * Second
      /\ n > 0 => x \in 1..d /\ x = d - left
  BY SecondsBack
<1>3. left \in 0..(Second - 1)
  BY <1>1, Remainder
<1>4. n >= 0 /\ x <= limit
  <2>1. ~(n < 0 \/ x > limit)
    BY SettingChecked
  <2>2. x \in Int
    BY <1>2, FromSecondsType, SecondFacts DEF Durations
  <2> QED
    BY <1>1, <1>2, <2>1, <2>2
<1>5. n = 0 => x = 0
  BY <1>1, <1>2
<1> HIDE DEF n, x, left
<1>6. CASE n = 0
  BY <1>1, <1>2, <1>5, <1>6 DEF Grants, n, x
<1>7. CASE n > 0
  <2>1. x > 0 /\ ~(x <= 0) /\ ~(x > limit) /\ d >= Second /\ x <= d /\ x > d - Second
    BY <1>1, <1>2, <1>3, <1>4, <1>7
  <2> QED
    BY <2>1 DEF Grants, n, x
<1> QED
  BY <1>2, <1>4, <1>6, <1>7

\* The SDK's request is refused if it asked for too much, less than nothing, or with
\* too long a label, and for no other reason.
LEMMA AskRefused ==
  ASSUME NEW ask \in Asks
  PROVE  Refuses(OnTheWire(ask)) <=>
           Exceeds(ask.ttl, TTL) \/ Exceeds(ask.wait, PeerWait) \/ ask.long
<1>1. ask.ttl \in Durations /\ ask.wait \in Durations
  BY InputsAssumption
<1>2. Refuses(OnTheWire(ask)) <=>
        \/ WholeSeconds(ask.ttl) < 0 \/ FromSeconds(WholeSeconds(ask.ttl)) > TTL
        \/ WholeSeconds(ask.wait) < 0 \/ FromSeconds(WholeSeconds(ask.wait)) > PeerWait
        \/ ask.long
  BY DEF Refuses, OnTheWire
<1>3. /\ (WholeSeconds(ask.ttl) < 0 \/ FromSeconds(WholeSeconds(ask.ttl)) > TTL)
           <=> Exceeds(ask.ttl, TTL)
      /\ (WholeSeconds(ask.wait) < 0 \/ FromSeconds(WholeSeconds(ask.wait)) > PeerWait)
           <=> Exceeds(ask.wait, PeerWait)
  BY <1>1, SecondFacts, SettingChecked
<1> QED
  BY <1>2, <1>3, Zenon

\* Otherwise the session has what the SDK's caller asked for.
LEMMA AskGranted ==
  ASSUME NEW ask \in Asks, ~Refuses(OnTheWire(ask))
  PROVE  LET s == NewSession(OnTheWire(ask)) IN
         Grants(s.ttl, ask.ttl, TTL) /\ Grants(EffectiveWait(s), ask.wait, PeerWait)
<1> DEFINE x == FromSeconds(WholeSeconds(ask.ttl))
           y == FromSeconds(WholeSeconds(ask.wait))
           s == NewSession(OnTheWire(ask))
<1>1. ask.ttl \in Durations /\ ask.wait \in Durations
  BY InputsAssumption
<1>2. ~Exceeds(ask.ttl, TTL) /\ ~Exceeds(ask.wait, PeerWait)
  BY AskRefused
<1>3. /\ s.ttl = IF x <= 0 \/ x > TTL THEN TTL ELSE x
      /\ EffectiveWait(s) = IF y > 0 THEN y ELSE PeerWait
  BY DEF NewSession, OnTheWire, EffectiveWait
<1>4. /\ Grants(IF x <= 0 \/ x > TTL THEN TTL ELSE x, ask.ttl, TTL)
      /\ Grants(IF y > 0 THEN y ELSE PeerWait, ask.wait, PeerWait)
  BY <1>1, <1>2, SecondFacts, SettingGranted
<1> HIDE DEF x, y, s
<1> QED
  BY <1>3, <1>4 DEF s

-------------------------------------------------------------------------------
(***************************************************************************)
(* What a step does to the sessions.                                       *)
(***************************************************************************)
SessionsKept ==
  /\ sess' \in Seq(Settings)
  /\ Made \subseteq Made'
  /\ \A id \in Made : /\ sess'[id].ttl = sess[id].ttl /\ sess'[id].wait = sess[id].wait
                      /\ sess[id].closed => sess'[id].closed
  /\ \A id \in Made' \ Made : Limited(sess'[id])

\* The sessions made are numbered from 1 without a gap.
LEMMA SessType == TypeOK => sess \in Seq(Settings) /\ Made = 1..Len(sess) /\ Len(sess) \in Nat
BY DEF TypeOK, Settings, Made

\* No change of the sessions keeps them.
LEMMA SameKept == TypeOK /\ sess' = sess => SessionsKept /\ Made' = Made
BY SessType DEF SessionsKept, Made

\* Replacing one element of a sequence leaves the others and its length.
LEMMA OneReplaced ==
  ASSUME NEW S, NEW q \in Seq(S), NEW i \in 1..Len(q), NEW e \in S
  PROVE  LET p == [q EXCEPT ![i] = e] IN
         p \in Seq(S) /\ Len(p) = Len(q) /\ p[i] = e /\ \A j \in 1..Len(q) : j # i => p[j] = q[j]
OBVIOUS

\* Closing a session keeps everyone's settings.
LEMMA ClosedKept ==
  ASSUME TypeOK, NEW id \in Made, sess' = [sess EXCEPT ![id].closed = TRUE]
  PROVE  SessionsKept /\ Made' = Made /\ sess'[id].closed
<1>1. sess \in Seq(Settings) /\ id \in 1..Len(sess) /\ Made = 1..Len(sess)
  BY SessType
<1>2. sess[id] \in Settings
  BY <1>1
<1> DEFINE t == [sess[id] EXCEPT !.closed = TRUE]
<1>3. t \in Settings /\ t.ttl = sess[id].ttl /\ t.wait = sess[id].wait /\ t.closed
  BY <1>2 DEF Settings
<1>4. sess' = [sess EXCEPT ![id] = t]
  OBVIOUS
<1> HIDE DEF t
<1>5. /\ sess' \in Seq(Settings) /\ Len(sess') = Len(sess)
      /\ sess'[id] = t /\ \A i \in Made : i # id => sess'[i] = sess[i]
  <2> DEFINE p == [sess EXCEPT ![id] = t]
  <2>1. /\ p \in Seq(Settings) /\ Len(p) = Len(sess) /\ p[id] = t
        /\ \A i \in 1..Len(sess) : i # id => p[i] = sess[i]
    BY <1>1, <1>3, OneReplaced
  <2> QED
    BY <1>1, <1>4, <2>1
<1>6. Made' = Made
  BY <1>1, <1>5 DEF Made
<1> QED
  BY <1>3, <1>5, <1>6 DEF SessionsKept

\* A new session leaves the older ones as they are.
LEMMA AddedKept ==
  ASSUME TypeOK, NEW s \in Settings, Limited(s), sess' = Append(sess, s)
  PROVE  /\ SessionsKept /\ Len(sess') \notin Made
         /\ Made' = Made \union {Len(sess')} /\ sess'[Len(sess')] = s
<1>1. sess \in Seq(Settings) /\ Made = 1..Len(sess) /\ Len(sess) \in Nat
  BY SessType
<1>2. sess' \in Seq(Settings) /\ Len(sess') = Len(sess) + 1 /\ sess'[Len(sess')] = s
      /\ \A id \in Made : sess'[id] = sess[id]
  BY <1>1
<1>3. Made' = Made \union {Len(sess')} /\ Len(sess') \notin Made
  BY <1>1, <1>2 DEF Made
<1> QED
  BY <1>2, <1>3 DEF SessionsKept

\* Sessions whose settings stay are as limited as before.
LEMMA KeptLimited == WithinLimits /\ SessionsKept => WithinLimits'
<1> SUFFICES ASSUME WithinLimits, SessionsKept, NEW id \in Made'
             PROVE  sess'[id].ttl \in 1..TTL /\ EffectiveWait(sess'[id]) \in 1..PeerWait
  BY DEF WithinLimits
<1>1. CASE id \in Made
  <2>1. sess'[id].ttl = sess[id].ttl /\ sess'[id].wait = sess[id].wait
    BY <1>1 DEF SessionsKept
  <2> QED
    BY <1>1, <2>1 DEF WithinLimits, EffectiveWait
<1>2. CASE id \notin Made
  BY <1>2 DEF SessionsKept, Limited
<1> QED
  BY <1>1, <1>2

-------------------------------------------------------------------------------
(***************************************************************************)
(* The handlers.                                                           *)
(***************************************************************************)
LEMMA InitIInv == Init => IInv
<1> SUFFICES ASSUME Init PROVE IInv
  OBVIOUS
<1>1. Made = {} /\ sess \in Seq([ttl : Durations, wait : Durations, closed : BOOLEAN])
  BY DEF Init, Made
<1>2. TypeOK
  BY <1>1 DEF Init, TypeOK, Idle, NoAnswer, Bearers
<1> QED
  BY <1>1, <1>2 DEF Init, IInv, ClearedOnly, Reading, WithinLimits, CreatedIsMade, AsAsked,
     OnlyEntitled, EndedStaysEnded, NoAnswer, Idle

LEMMA PreflightIInv ==
  ASSUME IInv, NEW host \in Hosts, Preflight(host)
  PROVE  IInv'
<1>1. /\ cleared' \subseteq Allowed /\ cleared' \subseteq Hosts
      /\ UNCHANGED <<settings, sess, listed, doing, told, answer>>
  BY AdminAssumption DEF IInv, ClearedOnly, Preflight
<1>2. Made' = Made
  BY <1>1 DEF Made
<1>3. TypeOK'
  BY <1>1, <1>2 DEF IInv, TypeOK, settings
<1> QED
  BY <1>1, <1>2, <1>3 DEF IInv, ClearedOnly, Reading, WithinLimits, CreatedIsMade, AsAsked,
     OnlyEntitled, EndedStaysEnded, settings

\* The handler is reached by who may.
LEMMA ReachedEntitled ==
  ASSUME ClearedOnly, NEW c \in Callers, NEW q \in Arriving, Reached(c, q),
         noAuth' = noAuth,
         answer'.op = q.op, answer'.bearer = q.bearer, answer'.host = q.host
  PROVE  OnlyEntitled'
<1>1. q.host \notin Allowed \union {NoHost} => q.bearer = NoToken /\ q.op # "delete"
  BY DEF Reached, Calls, ClearedOnly
<1>2. \/ noAuth
      \/ /\ q.bearer \in Tokens
         /\ q.bearer.valid
         /\ Scope[q.op] \in ExtractScopes(q.bearer)
  BY DEF Reached, Guard
<1> QED
  BY <1>1, <1>2 DEF OnlyEntitled, ExtractScopes

LEMMA TurnAwayIInv ==
  ASSUME IInv, NEW c \in Callers, NEW q \in Arriving, TurnAway(c, q)
  PROVE  IInv'
<1> DEFINE st == Guard(q.op, q.bearer)
<1>1. /\ UNCHANGED <<noAuth, retained, sess, listed, doing, cleared, told>>
      /\ answer' = [NoAnswer EXCEPT !.op = q.op, !.status = st]
      /\ st \in {401, 403}
  BY DEF TurnAway, settings, Guard
<1>2. Made' = Made
  BY <1>1 DEF Made
<1>3. /\ answer'.status \in {401, 403} /\ answer'.ask = NoAsk /\ q.op \in Ops
      /\ answer' = [op |-> q.op, status |-> st, bearer |-> NoToken,
                    host |-> NoHost, ask |-> NoAsk, id |-> 0, to |-> "nobody", open |-> {}]
  BY <1>1 DEF NoAnswer, Arriving
<1> HIDE DEF st
<1>4. answer'.bearer \in Bearers /\ TypeOK
  BY <1>3 DEF IInv, Bearers
<1>5. TypeOK'
  <2>1. NoToken \in Bearers /\ q.op \in Ops \union {"none"}
        /\ st \in {0, 200, 201, 204, 400, 401, 403, 404}
    BY <1>1, <1>3 DEF Bearers
  <2>2. answer' \in [op : Ops \union {"none"},
                    status : {0, 200, 201, 204, 400, 401, 403, 404},
                    bearer : Bearers, host : Hosts \union {NoHost},
                    ask : Asks \union {NoAsk}, id : Made \union {0},
                    to : Callers \union {"nobody"}, open : SUBSET Made]
    BY <1>3, <2>1
  <2> QED
    BY <1>1, <1>2, <1>4, <2>2 DEF TypeOK
<1> QED
  BY <1>1, <1>2, <1>3, <1>5 DEF IInv, ClearedOnly, Reading, WithinLimits, CreatedIsMade,
     AsAsked, OnlyEntitled, EndedStaysEnded

\* An answer says who asked for what, and begins with nothing read.
LEMMA AnswerFields ==
  ASSUME NEW q \in Arriving, NEW status
  PROVE  Answer(q, status) =
           [op |-> q.op, status |-> status, bearer |-> q.bearer, host |-> q.host,
            ask |-> NoAsk, id |-> 0, to |-> "nobody", open |-> {}]
<1> DEFINE a == [op |-> q.op, status |-> 0, bearer |-> NoToken, host |-> NoHost,
                 ask |-> NoAsk, id |-> 0, to |-> "nobody", open |-> {}]
           b == [op |-> q.op, status |-> status, bearer |-> NoToken, host |-> NoHost,
                 ask |-> NoAsk, id |-> 0, to |-> "nobody", open |-> {}]
           d == [op |-> q.op, status |-> status, bearer |-> q.bearer, host |-> NoHost,
                 ask |-> NoAsk, id |-> 0, to |-> "nobody", open |-> {}]
<1>1. [NoAnswer EXCEPT !.op = q.op] = a
  BY DEF NoAnswer
<1>2. [a EXCEPT !.status = status] = b
  OBVIOUS
<1>3. [b EXCEPT !.bearer = q.bearer] = d
  OBVIOUS
<1>4. [d EXCEPT !.host = q.host] =
           [op |-> q.op, status |-> status, bearer |-> q.bearer, host |-> q.host,
            ask |-> NoAsk, id |-> 0, to |-> "nobody", open |-> {}]
  OBVIOUS
<1>5. Answer(q, status) = [[[[NoAnswer EXCEPT !.op = q.op] EXCEPT !.status = status]
                             EXCEPT !.bearer = q.bearer] EXCEPT !.host = q.host]
  BY DEF Answer
<1> HIDE DEF a, b, d
<1> QED
  BY <1>1, <1>2, <1>3, <1>4, <1>5

LEMMA CreateIInv ==
  ASSUME IInv, NEW c \in Callers, NEW q \in Arriving, NEW ask \in Asks \union {NoAsk},
         ask # NoAsk => q.body = OnTheWire(ask),
         Create(c, q, ask)
  PROVE  IInv'
<1>1. /\ Reached(c, q) /\ UNCHANGED <<noAuth, retained, doing, cleared, told>>
      /\ q.body \in AnyBody /\ q.op \in Ops /\ q.bearer \in Bearers
      /\ q.host \in Hosts \union {NoHost}
  BY DEF Create, settings, Arriving
<1>2. CASE Refuses(q.body)
  <2>1. /\ UNCHANGED <<sess, listed>>
        /\ answer' = [op |-> q.op, status |-> 400, bearer |-> q.bearer, host |-> q.host,
                      ask |-> ask, id |-> 0, to |-> "nobody", open |-> {}]
    BY <1>2, AnswerFields DEF Create
  <2>2. Made' = Made
    BY <2>1 DEF Made
  <2>3. TypeOK'
    BY <1>1, <2>1, <2>2 DEF IInv, TypeOK
  <2>4. OnlyEntitled'
    BY <1>1, <2>1, ReachedEntitled DEF IInv
  <2>5. AsAsked'
    BY <1>2, <2>1, AskRefused DEF AsAsked
  <2> QED
    BY <1>1, <2>1, <2>2, <2>3, <2>4, <2>5 DEF IInv, ClearedOnly, Reading, WithinLimits,
       CreatedIsMade, EndedStaysEnded
<1>3. CASE ~Refuses(q.body)
  <2> DEFINE s == NewSession(q.body)
             n == Len(sess')
  <2> DEFINE a == [op |-> q.op, status |-> 201, bearer |-> q.bearer, host |-> q.host,
                   ask |-> NoAsk, id |-> 0, to |-> "nobody", open |-> {}]
  <2>0. /\ sess' = Append(sess, s) /\ listed' = listed \union {n}
        /\ answer' = [[a EXCEPT !.ask = ask] EXCEPT !.id = n]
    BY <1>3, AnswerFields DEF Create
  <2>1. /\ sess' = Append(sess, s) /\ listed' = listed \union {n}
        /\ answer' = [op |-> q.op, status |-> 201, bearer |-> q.bearer, host |-> q.host,
                      ask |-> ask, id |-> n, to |-> "nobody", open |-> {}]
    <3> HIDE DEF n, s
    <3>1. [a EXCEPT !.ask = ask] =
             [op |-> q.op, status |-> 201, bearer |-> q.bearer, host |-> q.host,
              ask |-> ask, id |-> 0, to |-> "nobody", open |-> {}]
      OBVIOUS
    <3> QED
      BY <2>0, <3>1
  <2>2. s \in Settings /\ Limited(s)
    BY <1>1, <1>3, NewSessionLimited
  <2>3. SessionsKept /\ n \notin Made /\ Made' = Made \union {n} /\ sess'[n] = s
    BY <2>1, <2>2, AddedKept DEF IInv
  <2>4. ask # NoAsk => /\ Grants(s.ttl, ask.ttl, TTL)
                       /\ Grants(EffectiveWait(s), ask.wait, PeerWait)
                       /\ ~(Exceeds(ask.ttl, TTL) \/ Exceeds(ask.wait, PeerWait) \/ ask.long)
    BY <1>3, AskGranted, AskRefused
  <2> HIDE DEF n, s
  <2>5. TypeOK'
    <3>1. sess' \in Seq([ttl : Durations, wait : Durations, closed : BOOLEAN])
      BY <2>3 DEF SessionsKept, Settings
    <3> QED
      BY <1>1, <2>1, <2>3, <3>1 DEF IInv, TypeOK
  <2>6. OnlyEntitled'
    BY <1>1, <2>1, ReachedEntitled DEF IInv
  <2>7. AsAsked' /\ CreatedIsMade'
    <3>1. answer'.status = 201 /\ answer'.ask = ask /\ answer'.id = n
      BY <2>1
    <3>2. CreatedIsMade'
      BY <2>3, <3>1 DEF CreatedIsMade
    <3>3. ask # NoAsk => AsAsked'
      BY <2>3, <2>4, <3>1 DEF AsAsked
    <3>4. ask = NoAsk => AsAsked'
      BY <3>1 DEF AsAsked
    <3> QED
      BY <3>2, <3>3, <3>4
  <2>8. WithinLimits'
    BY <2>3, KeptLimited DEF IInv
  <2>9. Reading'
    <3> SUFFICES ASSUME NEW d \in Callers
                 PROVE  /\ \A id \in told[d] : sess'[id].closed \/ id \notin listed'
                        /\ \A id \in doing[d].todo : id \in told[d] => sess'[id].closed
                        /\ \A id \in doing[d].ended : sess'[id].closed
                        /\ doing[d].open \intersect told[d] = {}
                        /\ doing[d].open \intersect doing[d].ended = {}
                        /\ doing[d].todo \intersect (doing[d].open \union doing[d].ended) = {}
      BY <1>1 DEF Reading
    <3>1. told[d] \subseteq Made /\ doing[d].todo \subseteq Made /\ doing[d].ended \subseteq Made
      BY DEF IInv, TypeOK
    <3>2. \A id \in Made : (sess[id].closed => sess'[id].closed) /\ id # n
      BY <2>3 DEF SessionsKept
    <3> QED
      BY <2>1, <3>1, <3>2 DEF IInv, Reading
  <2> QED
    BY <1>1, <2>1, <2>5, <2>6, <2>7, <2>8, <2>9 DEF IInv, ClearedOnly, EndedStaysEnded
<1> QED
  BY <1>2, <1>3

\* One caller is about something else; the others go on.
Turns(c, r) ==
  /\ doing' \in [Callers -> [op : Ops \union {"none"},
                            todo : SUBSET Made, open : SUBSET Made, ended : SUBSET Made]]
  /\ doing'[c] = r
  /\ \A d \in Callers \ {c} : doing'[d] = doing[d]

\* A caller turns to what it does next, and the others go on.
LEMMA Turned ==
  ASSUME TypeOK, NEW c \in Callers, NEW r, doing' = [doing EXCEPT ![c] = r],
         r \in [op : Ops \union {"none"},
                todo : SUBSET Made, open : SUBSET Made, ended : SUBSET Made]
  PROVE  Turns(c, r)
<1>1. doing \in [Callers -> [op : Ops \union {"none"},
                            todo : SUBSET Made, open : SUBSET Made, ended : SUBSET Made]]
  BY DEF TypeOK
<1> QED
  BY <1>1 DEF Turns

\* Nothing under way is something that can be under way.
LEMMA IdleType ==
  Idle \in [op : Ops \union {"none"}, todo : SUBSET Made, open : SUBSET Made, ended : SUBSET Made]
BY DEF Idle

\* The fields of what a caller has under way.
LEMMA DoingType ==
  ASSUME TypeOK, NEW c \in Callers
  PROVE  /\ doing[c].op \in Ops \union {"none"}
         /\ doing[c].todo \subseteq Made /\ doing[c].open \subseteq Made
         /\ doing[c].ended \subseteq Made /\ told[c] \subseteq Made
         /\ doing[c] = [op |-> doing[c].op, todo |-> doing[c].todo,
                        open |-> doing[c].open, ended |-> doing[c].ended]
<1>1. doing[c] \in [op : Ops \union {"none"},
                   todo : SUBSET Made, open : SUBSET Made, ended : SUBSET Made]
  BY DEF TypeOK
<1>2. told[c] \subseteq Made
  BY DEF TypeOK
<1> QED
  BY <1>1, <1>2

\* A caller with nothing to read turns to sessions that are in the store.
LEMMA Begun ==
  ASSUME TypeOK, NEW c \in Callers, doing[c] = Idle, NEW op \in Ops, NEW ids \in SUBSET Made,
         doing' = [doing EXCEPT ![c].op = op, ![c].todo = ids]
  PROVE  Turns(c, [op |-> op, todo |-> ids, open |-> {}, ended |-> {}])
<1> DEFINE x == [op |-> op, todo |-> {}, open |-> {}, ended |-> {}]
           r == [op |-> op, todo |-> ids, open |-> {}, ended |-> {}]
           f == [doing EXCEPT ![c].op = op]
           g == [f EXCEPT ![c].todo = ids]
<1>1. x = [Idle EXCEPT !.op = op] /\ r = [x EXCEPT !.todo = ids]
  BY DEF Idle
<1>2. r \in [op : Ops \union {"none"}, todo : SUBSET Made, open : SUBSET Made, ended : SUBSET Made]
  OBVIOUS
<1>3. doing' = g
  BY Zenon
<1>4. doing \in [Callers -> [op : Ops \union {"none"},
                            todo : SUBSET Made, open : SUBSET Made, ended : SUBSET Made]]
  BY DEF TypeOK
<1> HIDE DEF x, r
<1>5. f = [doing EXCEPT ![c] = x]
  BY <1>1
<1> HIDE DEF f
<1>6. f[c] = x /\ DOMAIN f = Callers /\ \A d \in Callers \ {c} : f[d] = doing[d]
  BY <1>4, <1>5
<1>7. g = [f EXCEPT ![c] = r]
  BY <1>1, <1>6
<1> HIDE DEF g
<1>8. g = [doing EXCEPT ![c] = r]
  BY <1>4, <1>5, <1>7
<1> QED
  BY <1>2, <1>3, <1>8, Turned DEF r

\* The answer of a handler that was reached.
LEMMA AnsweredType ==
  ASSUME TypeOK, Made' = Made, NEW q \in Arriving, NEW status \in {0, 200, 404},
         answer' = Answer(q, status)
  PROVE  /\ answer' \in [op : Ops \union {"none"},
                         status : {0, 200, 201, 204, 400, 401, 403, 404},
                         bearer : Bearers, host : Hosts \union {NoHost},
                         ask : Asks \union {NoAsk}, id : Made' \union {0},
                         to : Callers \union {"nobody"}, open : SUBSET Made']
         /\ answer'.op = q.op /\ answer'.bearer = q.bearer /\ answer'.host = q.host
         /\ answer'.status = status /\ answer'.ask = NoAsk
<1>1. answer' = [op |-> q.op, status |-> status, bearer |-> q.bearer, host |-> q.host,
                 ask |-> NoAsk, id |-> 0, to |-> "nobody", open |-> {}]
  BY AnswerFields
<1>2. q.op \in Ops /\ q.bearer \in Bearers /\ q.host \in Hosts \union {NoHost}
  BY DEF Arriving
<1> QED
  BY <1>1, <1>2

\* What one caller knows and does, against what the sessions have become.
ReadsFrom(told_, doing_) ==
  /\ \A id \in told_ : sess'[id].closed \/ id \notin listed'
  /\ \A id \in doing_.todo : id \in told_ => sess'[id].closed
  /\ \A id \in doing_.ended : sess'[id].closed
  /\ doing_.open \intersect told_ = {}
  /\ doing_.open \intersect doing_.ended = {}
  /\ doing_.todo \intersect (doing_.open \union doing_.ended) = {}

\* Keeping the sessions and finding no new ones keeps what any caller read true.
LEMMA OthersRead ==
  ASSUME IInv, NEW d \in Callers, SessionsKept, listed' \intersect Made \subseteq listed
  PROVE  ReadsFrom(told[d], doing[d])
<1>1. told[d] \subseteq Made /\ doing[d].todo \subseteq Made /\ doing[d].ended \subseteq Made
  BY DoingType DEF IInv
<1>2. \A id \in Made : (sess[id].closed => sess'[id].closed) /\ (id \in listed' => id \in listed)
  BY DEF SessionsKept
<1> QED
  BY <1>1, <1>2 DEF IInv, Reading, ReadsFrom

LEMMA FindsIInv ==
  ASSUME IInv, NEW c \in Callers, NEW q \in Arriving, NEW id \in Made, Finds(c, q, id),
         UNCHANGED <<noAuth, retained, sess, cleared>>, listed' \in {listed, listed \ {id}}
  PROVE  IInv'
<1>1. /\ TypeOK /\ Made' = Made /\ SessionsKept /\ listed' \subseteq listed /\ listed \subseteq Made
      /\ listed' \intersect Made \subseteq listed
  BY SameKept DEF IInv, TypeOK
<1>2. /\ Reached(c, q) /\ doing[c] = Idle /\ q.op \in Ops
      /\ answer' = Answer(q, IF id \in listed THEN 0 ELSE 404)
  BY DEF Finds, Reached, Calls, Arriving
<1>3. /\ answer' \in [op : Ops \union {"none"},
                      status : {0, 200, 201, 204, 400, 401, 403, 404},
                      bearer : Bearers, host : Hosts \union {NoHost},
                      ask : Asks \union {NoAsk}, id : Made' \union {0},
                      to : Callers \union {"nobody"}, open : SUBSET Made']
      /\ answer'.op = q.op /\ answer'.bearer = q.bearer /\ answer'.host = q.host
      /\ answer'.status \in {0, 404} /\ answer'.ask = NoAsk
  BY <1>1, <1>2, AnsweredType
<1>4. OnlyEntitled'
  BY <1>2, <1>3, ReachedEntitled DEF IInv
<1>5. told' \in [Callers -> SUBSET Made] /\ doing' \in [Callers -> [op : Ops \union {"none"},
                      todo : SUBSET Made, open : SUBSET Made, ended : SUBSET Made]]
      /\ \A d \in Callers : ReadsFrom(told'[d], doing'[d])
  <2>1. CASE id \in listed
    <3> DEFINE r == [op |-> q.op, todo |-> {id}, open |-> {}, ended |-> {}]
    <3>1. told' = told /\ doing' = [doing EXCEPT ![c].op = q.op, ![c].todo = {id}]
      BY <2>1 DEF Finds
    <3>2. Turns(c, r)
      BY <1>1, <1>2, <3>1, Begun
    <3>3. ReadsFrom(told[c], r)
      <4>1. \A i \in told[c] : sess'[i].closed \/ i \notin listed'
        BY <1>1, OthersRead DEF ReadsFrom
      <4>2. id \in told[c] => sess[id].closed
        BY <2>1 DEF IInv, Reading
      <4> QED
        BY <4>1, <4>2 DEF ReadsFrom
    <3> HIDE DEF r
    <3>4. \A d \in Callers : ReadsFrom(told[d], doing'[d])
      <4>1. \A d \in Callers \ {c} : ReadsFrom(told[d], doing[d]) /\ doing'[d] = doing[d]
        BY <1>1, <3>2, OthersRead DEF Turns
      <4>2. doing'[c] = r
        BY <3>2 DEF Turns
      <4> QED
        BY <3>3, <4>1, <4>2
    <3> QED
      BY <1>1, <3>1, <3>2, <3>4 DEF TypeOK, Turns
  <2>2. CASE id \notin listed
    <3>1. doing' = doing /\ told' = [told EXCEPT ![c] = told[c] \union {id}]
      BY <2>2 DEF Finds
    <3>2. /\ told' \in [Callers -> SUBSET Made] /\ told'[c] = told[c] \union {id}
          /\ \A d \in Callers \ {c} : told'[d] = told[d]
      BY <1>1, <3>1 DEF TypeOK
    <3>3. ReadsFrom(told'[c], doing[c])
      <4>1. \A i \in told[c] : sess'[i].closed \/ i \notin listed'
        BY <1>1, OthersRead DEF ReadsFrom
      <4> QED
        BY <1>1, <1>2, <2>2, <3>2, <4>1 DEF ReadsFrom, Idle
    <3>4. \A d \in Callers : ReadsFrom(told'[d], doing[d])
      <4>1. \A d \in Callers \ {c} : ReadsFrom(told[d], doing[d]) /\ told'[d] = told[d]
        BY <1>1, <3>2, OthersRead
      <4> QED
        BY <3>3, <4>1
    <3> QED
      BY <1>1, <3>1, <3>2, <3>4 DEF TypeOK
  <2> QED
    BY <2>1, <2>2
<1>6. TypeOK'
  BY <1>1, <1>3, <1>5 DEF TypeOK
<1>7. Reading'
  BY <1>5 DEF Reading, ReadsFrom
<1>8. WithinLimits'
  BY <1>1, KeptLimited DEF IInv
<1>9. AsAsked' /\ CreatedIsMade' /\ EndedStaysEnded' /\ ClearedOnly'
  BY <1>3 DEF IInv, AsAsked, CreatedIsMade, EndedStaysEnded, ClearedOnly
<1> QED
  BY <1>4, <1>6, <1>7, <1>8, <1>9 DEF IInv

LEMMA ListIInv ==
  ASSUME IInv, NEW c \in Callers, NEW q \in Arriving, List(c, q)
  PROVE  IInv'
<1> DEFINE r == [op |-> "list", todo |-> listed, open |-> {}, ended |-> {}]
<1>1. /\ TypeOK /\ UNCHANGED <<noAuth, retained, sess, listed, cleared, told>>
      /\ Reached(c, q) /\ doing[c] = Idle /\ answer' = Answer(q, 0)
      /\ doing' = [doing EXCEPT ![c].op = "list", ![c].todo = listed]
  BY DEF IInv, List, Reached, Calls, settings
<1>2. Made' = Made /\ SessionsKept /\ listed \subseteq Made /\ "list" \in Ops
  BY <1>1, SameKept DEF TypeOK, Ops
<1>3. /\ answer' \in [op : Ops \union {"none"},
                      status : {0, 200, 201, 204, 400, 401, 403, 404},
                      bearer : Bearers, host : Hosts \union {NoHost},
                      ask : Asks \union {NoAsk}, id : Made' \union {0},
                      to : Callers \union {"nobody"}, open : SUBSET Made']
      /\ answer'.op = q.op /\ answer'.bearer = q.bearer /\ answer'.host = q.host
      /\ answer'.status = 0 /\ answer'.ask = NoAsk
  BY <1>1, <1>2, AnsweredType
<1>4. OnlyEntitled'
  BY <1>1, <1>3, ReachedEntitled DEF IInv
<1>5. Turns(c, r)
  BY <1>1, <1>2, Begun
<1>6. ReadsFrom(told[c], r)
  <2>1. \A i \in told[c] : sess'[i].closed \/ i \notin listed'
    BY <1>1, <1>2, OthersRead DEF ReadsFrom
  <2> QED
    BY <1>1, <2>1 DEF ReadsFrom
<1> HIDE DEF r
<1>7. Reading'
  <2>1. \A d \in Callers \ {c} : ReadsFrom(told'[d], doing'[d])
    BY <1>1, <1>2, <1>5, OthersRead DEF Turns
  <2>2. ReadsFrom(told'[c], doing'[c])
    BY <1>1, <1>5, <1>6 DEF Turns
  <2> QED
    BY <2>1, <2>2 DEF Reading, ReadsFrom
<1>8. TypeOK'
  BY <1>1, <1>2, <1>3, <1>5 DEF TypeOK, Turns
<1>9. WithinLimits'
  BY <1>2, KeptLimited DEF IInv
<1>10. AsAsked' /\ CreatedIsMade' /\ EndedStaysEnded' /\ ClearedOnly'
  BY <1>1, <1>3 DEF IInv, AsAsked, CreatedIsMade, EndedStaysEnded, ClearedOnly
<1> QED
  BY <1>4, <1>7, <1>8, <1>9, <1>10 DEF IInv

\* A step that leaves the answer as it is.
LEMMA SameAnswer ==
  ASSUME IInv, SessionsKept, Made' = Made,
         UNCHANGED <<noAuth, retained, cleared, told, answer>>
  PROVE  AsAsked' /\ CreatedIsMade' /\ EndedStaysEnded' /\ ClearedOnly' /\ OnlyEntitled'
<1>1. ClearedOnly' /\ OnlyEntitled' /\ CreatedIsMade' /\ EndedStaysEnded'
  BY DEF IInv, ClearedOnly, OnlyEntitled, CreatedIsMade, EndedStaysEnded
<1>2. AsAsked'
  <2>1. answer.status = 201 => /\ sess'[answer.id].ttl = sess[answer.id].ttl
                               /\ sess'[answer.id].wait = sess[answer.id].wait
    BY DEF IInv, CreatedIsMade, SessionsKept
  <2> QED
    BY <2>1 DEF IInv, AsAsked, EffectiveWait
<1> QED
  BY <1>1, <1>2

\* What a status adds to what was read.
LEMMA ReadStatusIInv ==
  ASSUME IInv, NEW c \in Callers, NEW id \in Made, ReadStatus(c, id)
  PROVE  IInv'
<1> DEFINE b == doing[c]
           o == IF sess[id].closed THEN b.open ELSE b.open \union {id}
           e == IF sess[id].closed THEN b.ended \union {id} ELSE b.ended
           r == [op |-> b.op, todo |-> b.todo \ {id}, open |-> o, ended |-> e]
<1>1. /\ TypeOK /\ UNCHANGED <<noAuth, retained, sess, listed, cleared, told, answer>>
      /\ id \in b.todo
      /\ doing' = [doing EXCEPT ![c].todo = b.todo \ {id}, ![c].open = o, ![c].ended = e]
  BY DEF IInv, ReadStatus, settings
<1>2. Made' = Made /\ SessionsKept
  BY <1>1, SameKept
<1>3. /\ b.op \in Ops \union {"none"} /\ b.todo \subseteq Made /\ b.open \subseteq Made
      /\ b.ended \subseteq Made /\ told[c] \subseteq Made
      /\ b = [op |-> b.op, todo |-> b.todo, open |-> b.open, ended |-> b.ended]
  BY <1>1, DoingType
<1>4. Turns(c, r)
  <2>1. r \in [op : Ops \union {"none"}, todo : SUBSET Made, open : SUBSET Made, ended : SUBSET Made]
    BY <1>3
  <2>2. doing' = [doing EXCEPT ![c] = r]
    <3> DEFINE x == [op |-> b.op, todo |-> b.todo \ {id}, open |-> b.open, ended |-> b.ended]
               y == [op |-> b.op, todo |-> b.todo \ {id}, open |-> o, ended |-> b.ended]
               f == [doing EXCEPT ![c].todo = b.todo \ {id}]
               g == [f EXCEPT ![c].open = o]
               h == [g EXCEPT ![c].ended = e]
    <3>1. x = [b EXCEPT !.todo = b.todo \ {id}]
      BY <1>3
    <3>2. y = [x EXCEPT !.open = o] /\ r = [y EXCEPT !.ended = e]
      OBVIOUS
    <3>3. doing' = h
      BY <1>1, Zenon
    <3>4. DOMAIN doing = Callers
      BY <1>1 DEF TypeOK
    <3> HIDE DEF x, y, r
    <3>5. f = [doing EXCEPT ![c] = x]
      BY <3>1
    <3> HIDE DEF o, e, f
    <3>6. f[c] = x /\ DOMAIN f = Callers
      BY <3>4, <3>5
    <3>7. g = [f EXCEPT ![c] = y]
      BY <3>2, <3>6
    <3> HIDE DEF g
    <3>8. g = [doing EXCEPT ![c] = y] /\ g[c] = y
      BY <3>4, <3>5, <3>6, <3>7
    <3>9. h = [g EXCEPT ![c] = r]
      BY <3>2, <3>8
    <3> QED
      BY <3>3, <3>4, <3>8, <3>9
  <2> QED
    BY <1>1, <2>1, <2>2, Turned
<1>5. ReadsFrom(told[c], r)
  <2>1. ReadsFrom(told[c], b)
    BY <1>1, <1>2, OthersRead
  <2>2. id \in told[c] => sess[id].closed
    BY <1>1 DEF IInv, Reading
  <2> QED
    BY <1>1, <2>1, <2>2 DEF ReadsFrom
<1> HIDE DEF r
<1>6. Reading'
  <2>1. \A d \in Callers \ {c} : ReadsFrom(told'[d], doing'[d])
    BY <1>1, <1>2, <1>4, OthersRead DEF Turns
  <2>2. ReadsFrom(told'[c], doing'[c])
    BY <1>1, <1>4, <1>5 DEF Turns
  <2> QED
    BY <2>1, <2>2 DEF Reading, ReadsFrom
<1>7. TypeOK'
  BY <1>1, <1>2, <1>4 DEF TypeOK, Turns
<1>8. WithinLimits'
  BY <1>2, KeptLimited DEF IInv
<1> QED
  BY <1>1, <1>2, <1>6, <1>7, <1>8, SameAnswer DEF IInv

LEMMA AnswerStatusIInv ==
  ASSUME IInv, NEW c \in Callers, AnswerStatus(c)
  PROVE  IInv'
<1> DEFINE b == doing[c]
<1>1. /\ TypeOK /\ UNCHANGED <<noAuth, retained, sess, listed, cleared>>
      /\ b.op \in {"get", "list"}
      /\ answer' = [NoAnswer EXCEPT !.op = b.op, !.status = 200, !.to = c, !.open = b.open]
      /\ told' = [told EXCEPT ![c] = told[c] \union b.ended]
      /\ doing' = [doing EXCEPT ![c] = Idle]
  BY DEF IInv, AnswerStatus, settings
<1>2. Made' = Made /\ SessionsKept
  BY <1>1, SameKept
<1>3. b.op \in Ops /\ b.open \subseteq Made /\ b.ended \subseteq Made /\ told[c] \subseteq Made
  BY <1>1, DoingType DEF Ops
<1>4. answer' = [op |-> b.op, status |-> 200, bearer |-> NoToken, host |-> NoHost,
                 ask |-> NoAsk, id |-> 0, to |-> c, open |-> b.open]
  <2> DEFINE u == [op |-> b.op, status |-> 0, bearer |-> NoToken, host |-> NoHost,
                   ask |-> NoAsk, id |-> 0, to |-> "nobody", open |-> {}]
             v == [op |-> b.op, status |-> 200, bearer |-> NoToken, host |-> NoHost,
                   ask |-> NoAsk, id |-> 0, to |-> "nobody", open |-> {}]
             w == [op |-> b.op, status |-> 200, bearer |-> NoToken, host |-> NoHost,
                   ask |-> NoAsk, id |-> 0, to |-> c, open |-> {}]
  <2>1. u = [NoAnswer EXCEPT !.op = b.op]
    BY DEF NoAnswer
  <2>2. v = [u EXCEPT !.status = 200]
    OBVIOUS
  <2>3. w = [v EXCEPT !.to = c]
    OBVIOUS
  <2>4. answer' = [[[[NoAnswer EXCEPT !.op = b.op] EXCEPT !.status = 200] EXCEPT !.to = c]
                     EXCEPT !.open = b.open]
    BY <1>1
  <2> HIDE DEF u, v
  <2>5. answer' = [w EXCEPT !.open = b.open]
    BY <2>1, <2>2, <2>3, <2>4
  <2> QED
    BY <2>5
<1>5. answer' \in [op : Ops \union {"none"},
                   status : {0, 200, 201, 204, 400, 401, 403, 404},
                   bearer : Bearers, host : Hosts \union {NoHost},
                   ask : Asks \union {NoAsk}, id : Made' \union {0},
                   to : Callers \union {"nobody"}, open : SUBSET Made']
  <2>1. NoToken \in Bearers
    BY DEF Bearers
  <2> QED
    BY <1>2, <1>3, <1>4, <2>1
<1>6. Turns(c, Idle)
  BY <1>1, IdleType, Turned
<1>7. /\ told' \in [Callers -> SUBSET Made] /\ told'[c] = told[c] \union b.ended
      /\ \A d \in Callers \ {c} : told'[d] = told[d]
  BY <1>1, <1>3 DEF TypeOK
<1>8. Reading'
  <2>1. \A d \in Callers \ {c} : ReadsFrom(told'[d], doing'[d])
    BY <1>1, <1>2, <1>6, <1>7, OthersRead DEF Turns
  <2>2. ReadsFrom(told'[c], doing'[c])
    <3>1. \A i \in told[c] \union b.ended : sess'[i].closed \/ i \notin listed'
      BY <1>1, <1>2, OthersRead DEF ReadsFrom
    <3> QED
      BY <1>6, <1>7, <3>1 DEF ReadsFrom, Turns, Idle
  <2> QED
    BY <2>1, <2>2 DEF Reading, ReadsFrom
<1>9. EndedStaysEnded'
  BY <1>4, <1>7 DEF IInv, Reading, EndedStaysEnded
<1>10. TypeOK'
  BY <1>1, <1>2, <1>5, <1>6, <1>7 DEF TypeOK, Turns
<1>11. WithinLimits'
  BY <1>2, KeptLimited DEF IInv
<1>12. AsAsked' /\ CreatedIsMade' /\ ClearedOnly' /\ OnlyEntitled'
  <2>1. answer'.ask = NoAsk /\ answer'.status = 200
    BY <1>4
  <2>2. cleared' = cleared
    BY <1>1
  <2> QED
    BY <2>1, <2>2 DEF IInv, AsAsked, CreatedIsMade, ClearedOnly, OnlyEntitled
<1> QED
  BY <1>8, <1>9, <1>10, <1>11, <1>12 DEF IInv

LEMMA DeleteClosesIInv ==
  ASSUME IInv, NEW c \in Callers, NEW id \in Made, DeleteCloses(c, id)
  PROVE  IInv'
<1>1. /\ TypeOK /\ UNCHANGED <<noAuth, retained, listed, cleared>>
      /\ sess' = [sess EXCEPT ![id].closed = TRUE]
      /\ answer' = [NoAnswer EXCEPT !.op = "delete", !.status = 204]
      /\ told' = [told EXCEPT ![c] = told[c] \union {id}]
      /\ doing' = [doing EXCEPT ![c] = Idle]
  BY DEF IInv, DeleteCloses, settings
<1>2. Made' = Made /\ SessionsKept /\ sess'[id].closed
  BY <1>1, ClosedKept
<1>3. answer' = [op |-> "delete", status |-> 204, bearer |-> NoToken, host |-> NoHost,
                 ask |-> NoAsk, id |-> 0, to |-> "nobody", open |-> {}]
  BY <1>1 DEF NoAnswer
<1>4. answer' \in [op : Ops \union {"none"},
                   status : {0, 200, 201, 204, 400, 401, 403, 404},
                   bearer : Bearers, host : Hosts \union {NoHost},
                   ask : Asks \union {NoAsk}, id : Made' \union {0},
                   to : Callers \union {"nobody"}, open : SUBSET Made']
  BY <1>3 DEF Bearers, Ops
<1>5. Turns(c, Idle)
  BY <1>1, IdleType, Turned
<1>6. /\ told' \in [Callers -> SUBSET Made] /\ told'[c] = told[c] \union {id}
      /\ \A d \in Callers \ {c} : told'[d] = told[d]
  BY <1>1 DEF TypeOK
<1>7. Reading'
  <2>1. \A d \in Callers \ {c} : ReadsFrom(told'[d], doing'[d])
    BY <1>1, <1>2, <1>5, <1>6, OthersRead DEF Turns
  <2>2. ReadsFrom(told'[c], doing'[c])
    <3>1. \A i \in told[c] : sess'[i].closed \/ i \notin listed'
      BY <1>1, <1>2, OthersRead DEF ReadsFrom
    <3> QED
      BY <1>2, <1>5, <1>6, <3>1 DEF ReadsFrom, Turns, Idle
  <2> QED
    BY <2>1, <2>2 DEF Reading, ReadsFrom
<1>8. TypeOK'
  <2>1. sess' \in Seq([ttl : Durations, wait : Durations, closed : BOOLEAN])
    BY <1>2 DEF SessionsKept, Settings
  <2> QED
    BY <1>1, <1>2, <1>4, <1>5, <1>6, <2>1 DEF TypeOK, Turns
<1>9. WithinLimits'
  BY <1>2, KeptLimited DEF IInv
<1>10. AsAsked' /\ CreatedIsMade' /\ ClearedOnly' /\ OnlyEntitled' /\ EndedStaysEnded'
  <2>1. answer'.ask = NoAsk /\ answer'.status = 204
    BY <1>3
  <2>2. cleared' = cleared
    BY <1>1
  <2> QED
    BY <2>1, <2>2 DEF IInv, AsAsked, CreatedIsMade, ClearedOnly, OnlyEntitled, EndedStaysEnded
<1> QED
  BY <1>7, <1>8, <1>9, <1>10 DEF IInv

LEMMA EndsOtherwiseIInv ==
  ASSUME IInv, NEW id \in Made, EndsOtherwise(id)
  PROVE  IInv'
<1>1. /\ TypeOK /\ UNCHANGED <<noAuth, retained, doing, cleared, told, answer>>
      /\ listed' \subseteq listed
  BY DEF IInv, EndsOtherwise, settings
<1>2. Made' = Made /\ SessionsKept
  <2>1. CASE sess' = sess
    BY <1>1, <2>1, SameKept
  <2>2. CASE sess' = [sess EXCEPT ![id].closed = TRUE]
    BY <1>1, <2>2, ClosedKept
  <2> QED
    BY <2>1, <2>2 DEF EndsOtherwise
<1>3. Reading'
  BY <1>1, <1>2, OthersRead DEF Reading, ReadsFrom
<1>4. TypeOK'
  <2>1. sess' \in Seq([ttl : Durations, wait : Durations, closed : BOOLEAN])
    BY <1>2 DEF SessionsKept, Settings
  <2> QED
    BY <1>1, <1>2, <2>1 DEF TypeOK
<1>5. WithinLimits'
  BY <1>2, KeptLimited DEF IInv
<1> QED
  BY <1>1, <1>2, <1>3, <1>4, <1>5, SameAnswer DEF IInv

LEMMA HandleIInv ==
  ASSUME IInv, NEW c \in Callers, NEW q \in Requests, Handle(c, q)
  PROVE  IInv'
<1>1. q \in Arriving
  <2>1. Bodies \subseteq AnyBody
    BY SecondFacts DEF Bodies, AnyBody, Durations
  <2> QED
    BY <2>1, InputsAssumption DEF Arriving
<1>2. CASE TurnAway(c, q)
  BY <1>1, <1>2, TurnAwayIInv
<1>3. CASE Create(c, q, NoAsk)
  BY <1>1, <1>3, CreateIInv
<1>4. CASE List(c, q)
  BY <1>1, <1>4, ListIInv
<1>5. ASSUME NEW id \in Made, Get(c, q, id) PROVE IInv'
  BY <1>1, <1>5, FindsIInv DEF Get, settings
<1>6. ASSUME NEW id \in Made, Delete(c, q, id) PROVE IInv'
  BY <1>1, <1>6, FindsIInv DEF Delete, settings
<1> QED
  BY <1>2, <1>3, <1>4, <1>5, <1>6 DEF Handle

LEMMA CreateSessionWithIInv ==
  ASSUME IInv, NEW c \in Callers, NEW ask \in Asks, CreateSessionWith(c, ask)
  PROVE  IInv'
<1> DEFINE bearer == ResolveTokenSource(ask.explicit, ask.cached)
           q == [op |-> "create", bearer |-> bearer, host |-> NoHost, body |-> OnTheWire(ask)]
<1>1. bearer \in Bearers
  BY InputsAssumption DEF ResolveTokenSource, Bearers
<1>2. q \in Arriving /\ q.body = OnTheWire(ask)
  BY <1>1, OnTheWireType DEF Arriving, Ops
<1>3. TurnAway(c, q) \/ Create(c, q, ask)
  BY DEF CreateSessionWith
<1> HIDE DEF q
<1> QED
  BY <1>2, <1>3, TurnAwayIInv, CreateIInv

LEMMA NextIInv == IInv /\ [Next]_vars => IInv'
<1> SUFFICES ASSUME IInv, [Next]_vars PROVE IInv'
  OBVIOUS
<1>1. ASSUME NEW host \in Hosts, Preflight(host) PROVE IInv'
  BY <1>1, PreflightIInv
<1>2. ASSUME NEW c \in Callers, NEW q \in Requests, Handle(c, q) PROVE IInv'
  BY <1>2, HandleIInv
<1>3. ASSUME NEW c \in Callers, NEW ask \in Asks, CreateSessionWith(c, ask) PROVE IInv'
  BY <1>3, CreateSessionWithIInv
<1>4. ASSUME NEW c \in Callers, NEW id \in Made, ReadStatus(c, id) PROVE IInv'
  BY <1>4, ReadStatusIInv
<1>5. ASSUME NEW c \in Callers, NEW id \in Made, DeleteCloses(c, id) PROVE IInv'
  BY <1>5, DeleteClosesIInv
<1>6. ASSUME NEW c \in Callers, AnswerStatus(c) PROVE IInv'
  BY <1>6, AnswerStatusIInv
<1>7. ASSUME NEW id \in Made, EndsOtherwise(id) PROVE IInv'
  BY <1>7, EndsOtherwiseIInv
<1>8. CASE UNCHANGED vars
  BY <1>8 DEF vars, settings, IInv, TypeOK, Made, ClearedOnly, Reading, WithinLimits,
     CreatedIsMade, AsAsked, OnlyEntitled, EndedStaysEnded
<1> QED
  BY <1>1, <1>2, <1>3, <1>4, <1>5, <1>6, <1>7, <1>8 DEF Next

-------------------------------------------------------------------------------
\* The inductive invariant holds whoever calls the admin API and however their
\* handlers interleave (internal/admin/admin.go).
THEOREM Invariance == Spec => []IInv
<1> QED
  BY InitIInv, NextIInv, PTL DEF Spec

\* Every variable has its type, and a handler works on sessions that were made
\* (internal/admin/admin.go).
THEOREM TypeCorrect == Spec => []TypeOK
<1>1. IInv => TypeOK
  BY DEF IInv
<1> QED
  BY <1>1, Invariance, PTL

\* No session lives longer than the server allows or is born expired, and no peer
\* waits longer than the server allows, whatever the request asks for and however
\* its seconds overflow a time.Duration of any width (admin.go:83-96).
THEOREM LimitsHold == Spec => []WithinLimits
<1>1. IInv => WithinLimits
  BY DEF IInv
<1> QED
  BY <1>1, Invariance, PTL

\* What the SDK's caller asked for is what the session has, to the second, unless that
\* is, in whole seconds, negative or over a limit, or the label is too long; then, and
\* only then, it is refused (pkg/client/admin.go:102-113, internal/admin/admin.go:75-96).
THEOREM GrantedAsAsked == Spec => []AsAsked
<1>1. IInv => AsAsked
  BY DEF IInv
<1> QED
  BY <1>1, Invariance, PTL

\* Only a valid token with the route's scope reaches a handler, and no page of an
\* origin that is not allowed does with a token (oidc.go:86-154, cors.go:36-83).
THEOREM EntitledOnly == Spec => []OnlyEntitled
<1>1. IInv => OnlyEntitled
  BY DEF IInv
<1> QED
  BY <1>1, Invariance, PTL

\* Who was told that a session has ended is never shown it live again
\* (admin.go:113-138, store.go:49-79).
THEOREM NeverLiveAgain == Spec => []EndedStaysEnded
<1>1. IInv => EndedStaysEnded
  BY DEF IInv
<1> QED
  BY <1>1, Invariance, PTL
================================================================================
