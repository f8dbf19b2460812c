--------------------------------- MODULE Admin ---------------------------------
(***************************************************************************)
(* A request of the admin API from its caller to its effect: the Go SDK    *)
(* and `swsrs create` that make it (pkg/client/admin.go, create.go), the   *)
(* server's CORS and authorisation (internal/cors, internal/auth), the     *)
(* handlers (internal/admin), and what a session's settings become.        *)
(*                                                                         *)
(* A duration is a time.Duration, an integer of 2 * Half values that wraps *)
(* around, and Second is time.Second.  Everything before a handler first   *)
(* takes the store's lock reads only the request and is one step with it;  *)
(* deleting and reading go on after the lock is released, while others     *)
(* come and go.                                                            *)
(***************************************************************************)
EXTENDS Integers, Sequences

CONSTANTS Callers,
          Tokens,      \* bearer tokens: what the verifier finds in them
          Empty,       \* the empty token
          NoToken,     \* no Authorization header, or nothing to put in it
          Absent,      \* a claim that a token does not have
          Hosts,       \* hosts of the pages that call the API
          Allowed,     \* those that the allowed origin patterns match
          NoHost,      \* the caller is not a page
          Half,        \* half the number of time.Duration's values
          Second,
          TTL,         \* --session-ttl
          PeerWait,    \* --peer-wait
          NoAsk,       \* not an SDK caller
          Asks,        \* calls of the SDK: an explicit token, the cached one, settings
          Requests,    \* calls otherwise made: op, bearer, host, body
          MaxSessions  \* bound

ASSUME AdminAssumption ==
  /\ Half \in Nat /\ Second \in 1..(Half - 1)
  /\ TTL \in 1..(Half - 1) /\ PeerWait \in 1..(Half - 1)
  /\ MaxSessions \in Nat /\ Allowed \subseteq Hosts
  /\ {Empty, NoToken} \intersect Tokens = {} /\ NoHost \notin Hosts

Bearers == Tokens \union {Empty, NoToken}

Durations == -Half..(Half - 1)

Ops == {"create", "get", "list", "delete"}

\* Settings in seconds, an int64 as a duration is.  malformed: no JSON, an unknown
\* field, or more than the handler reads; long: a label of more than 256 bytes.
Bodies == [ttl : Durations, wait : Durations, malformed : BOOLEAN, long : BOOLEAN]

ASSUME InputsAssumption ==
  /\ Requests \subseteq [op : Ops, bearer : Bearers, host : Hosts \union {NoHost}, body : Bodies]
  /\ Asks \subseteq [explicit : Bearers, cached : Bearers,
                    ttl : Durations, wait : Durations, long : BOOLEAN]

VARIABLES noAuth,   \* the API has no verifier
          retained, \* closed sessions stay in the store for a while
          sess,     \* the sessions made
          listed,   \* those in the store
          doing,    \* per caller: the handler that has released the store's lock
          cleared,  \* the hosts whose pages have had a preflight answered
          told,     \* history, per caller: the sessions it was told have ended
          answer    \* the last answer

settings == <<noAuth, retained>>
vars == <<settings, sess, listed, doing, cleared, told, answer>>

\* The scope each route asks for.
Scope == [create |-> "create", get |-> "read", list |-> "read", delete |-> "delete"]

Idle == [op |-> "none", todo |-> {}, open |-> {}, ended |-> {}]

\* status 0: the handler was reached, and its answer follows.  ask: what an SDK
\* caller asked for; id: the session made; to: whom sessions are shown; open: the
\* live ones.
NoAnswer == [op |-> "none", status |-> 0, bearer |-> NoToken, host |-> NoHost,
             ask |-> NoAsk, id |-> 0, to |-> "nobody", open |-> {}]

Made == DOMAIN sess

Init ==
  /\ noAuth \in BOOLEAN
  /\ retained \in BOOLEAN
  /\ sess = <<>>
  /\ listed = {}
  /\ doing = [c \in Callers |-> Idle]
  /\ cleared = {}
  /\ told = [c \in Callers |-> {}]
  /\ answer = NoAnswer

-------------------------------------------------------------------------------
(***************************************************************************)
(* Durations.                                                              *)
(***************************************************************************)
Wrap(x) == ((x + Half) % (2 * Half)) - Half

\* Go's division truncates towards zero.
WholeSeconds(d) == IF d >= 0 THEN d \div Second ELSE -((-d) \div Second)

RoundsUp(ask) ==                                                   \* mutant
  [ttl |-> WholeSeconds(ask.ttl) + 1, wait |-> WholeSeconds(ask.wait),
   malformed |-> FALSE, long |-> ask.long]

OnTheWire(ask) ==
  [ttl |-> WholeSeconds(ask.ttl), wait |-> WholeSeconds(ask.wait),
   malformed |-> FALSE, long |-> ask.long]

FromSeconds(n) == Wrap(n * Second)

ChecksTtlOnly(body) ==                                             \* mutant
  \/ body.malformed
  \/ body.ttl < 0 \/ FromSeconds(body.ttl) > TTL
  \/ body.wait < 0
  \/ body.long

\* The handler's checks.
Refuses(body) ==
  \/ body.malformed
  \/ body.ttl < 0 \/ FromSeconds(body.ttl) > TTL
  \/ body.wait < 0 \/ FromSeconds(body.wait) > PeerWait
  \/ body.long

TrustsCaller(body) == [ttl |-> IF body.ttl = 0 THEN TTL ELSE FromSeconds(body.ttl), \* mutant
                       wait |-> FromSeconds(body.wait), closed |-> FALSE]

\* The store caps a lifetime; a peer wait is kept as it comes.
NewSession(body) ==
  LET ttl == FromSeconds(body.ttl)
  IN  [ttl    |-> IF ttl <= 0 \/ ttl > TTL THEN TTL ELSE ttl,
       wait   |-> FromSeconds(body.wait),
       closed |-> FALSE]

\* What the relay makes of it when a peer attaches.
EffectiveWait(s) == IF s.wait > 0 THEN s.wait ELSE PeerWait

(***************************************************************************)
(* Authorisation and CORS.                                                 *)
(***************************************************************************)
MergesClaims(token) ==                                             \* mutant
  UNION ({token.scope, token.scp} \ {Absent})

\* The scope claim decides, even an empty one.
ExtractScopes(token) ==
  IF token.scope # Absent THEN token.scope
  ELSE IF token.scp # Absent THEN token.scp ELSE {}

\* 0 when the handler is reached.
Guard(op, bearer) ==
  IF noAuth THEN 0
  ELSE IF bearer \notin Tokens \/ ~bearer.valid THEN 401
  ELSE IF Scope[op] \notin ExtractScopes(bearer) THEN 403
  ELSE 0

AnswersAnyOrigin(host) ==                                          \* mutant
  /\ cleared' = cleared \union {host}
  /\ UNCHANGED <<settings, sess, listed, doing, told, answer>>

\* A browser asks before it makes a page's call.  The middleware answers for the
\* hosts that its patterns match, before any handler; for others the router
\* refuses the method.
Preflight(host) ==
  /\ cleared' = IF host \in Allowed THEN cleared \union {host} ELSE cleared
  /\ UNCHANGED <<settings, sess, listed, doing, told, answer>>

\* The discovery document is there when the server has a verifier to tell of; a
\* client takes the answer that it is not for a server that wants no token.
Discoverable == ~noAuth

AuthDisabled == ~Discoverable

\* What `swsrs create` uses, and the SDK sends.
ResolveTokenSource(explicit, cached) ==
  IF explicit # NoToken THEN explicit ELSE IF AuthDisabled THEN Empty ELSE cached

-------------------------------------------------------------------------------
(***************************************************************************)
(* The handlers.                                                           *)
(***************************************************************************)
\* A caller makes one call at a time.  A browser asks first for a page that sends
\* an Authorization header or deletes.
Calls(c, q) ==
  /\ doing[c] = Idle
  /\ \/ q.host \in cleared \union {NoHost}
     \/ q.bearer = NoToken /\ q.op # "delete"

Reached(c, q) == Calls(c, q) /\ Guard(q.op, q.bearer) = 0

Answer(q, status) ==
  [NoAnswer EXCEPT !.op = q.op, !.status = status, !.bearer = q.bearer, !.host = q.host]

TurnAway(c, q) ==
  /\ Calls(c, q)
  /\ Guard(q.op, q.bearer) # 0
  /\ answer' = [NoAnswer EXCEPT !.op = q.op, !.status = Guard(q.op, q.bearer)]
  /\ UNCHANGED <<settings, sess, listed, doing, cleared, told>>

ListsFirst(c, q, ask) ==                                           \* mutant
  /\ Reached(c, q)
  /\ Len(sess) < MaxSessions
  /\ listed' = listed \union {Len(sess) + 1}
  /\ sess' = IF Refuses(q.body) THEN sess ELSE Append(sess, NewSession(q.body))
  /\ answer' = [Answer(q, IF Refuses(q.body) THEN 400 ELSE 201)
                   EXCEPT !.ask = ask, !.id = Len(sess')]
  /\ UNCHANGED <<settings, doing, cleared, told>>

Create(c, q, ask) ==
  /\ Reached(c, q)
  /\ IF Refuses(q.body)
     THEN /\ answer' = [Answer(q, 400) EXCEPT !.ask = ask]
          /\ UNCHANGED <<sess, listed>>
     ELSE /\ Len(sess) < MaxSessions
          /\ sess' = Append(sess, NewSession(q.body))
          /\ listed' = listed \union {Len(sess')}
          /\ answer' = [Answer(q, 201) EXCEPT !.ask = ask, !.id = Len(sess')]
  /\ UNCHANGED <<settings, doing, cleared, told>>

CreateSessionWith(c, ask) ==
  LET bearer == ResolveTokenSource(ask.explicit, ask.cached)
      q == [op |-> "create", bearer |-> bearer, host |-> NoHost, body |-> OnTheWire(ask)]
  IN  bearer # NoToken /\ (TurnAway(c, q) \/ Create(c, q, ask))

\* A session of that id is in the store, or the answer is 404.
Finds(c, q, id) ==
  /\ Reached(c, q)
  /\ answer' = Answer(q, IF id \in listed THEN 0 ELSE 404)
  /\ doing' = IF id \in listed THEN [doing EXCEPT ![c].op = q.op, ![c].todo = {id}] ELSE doing
  /\ told' = IF id \in listed THEN told ELSE [told EXCEPT ![c] = @ \union {id}]

Get(c, q, id) ==
  /\ q.op = "get"
  /\ Finds(c, q, id)
  /\ UNCHANGED <<settings, sess, listed, cleared>>

List(c, q) ==
  /\ q.op = "list"
  /\ Reached(c, q)
  /\ answer' = Answer(q, 0)
  /\ doing' = [doing EXCEPT ![c].op = "list", ![c].todo = listed]
  /\ UNCHANGED <<settings, sess, listed, cleared, told>>

\* The sessions were found under the store's lock; each one's status is read
\* under its own, one after the other.
ReadStatus(c, id) ==
  /\ doing[c].op \in {"get", "list"}
  /\ id \in doing[c].todo
  /\ doing' = [doing EXCEPT ![c].todo = @ \ {id},
                             ![c].open = IF sess[id].closed THEN @ ELSE @ \union {id},
                             ![c].ended = IF sess[id].closed THEN @ \union {id} ELSE @]
  /\ UNCHANGED <<settings, sess, listed, cleared, told, answer>>

AnswerStatus(c) ==
  /\ doing[c].op \in {"get", "list"} /\ doing[c].todo = {}
  /\ answer' = [NoAnswer EXCEPT !.op = doing[c].op, !.status = 200, !.to = c, !.open = doing[c].open]
  /\ told' = [told EXCEPT ![c] = @ \union doing[c].ended]
  /\ doing' = [doing EXCEPT ![c] = Idle]
  /\ UNCHANGED <<settings, sess, listed, cleared>>

Delete(c, q, id) ==
  /\ q.op = "delete"
  /\ Finds(c, q, id)
  /\ listed' = IF retained THEN listed ELSE listed \ {id}
  /\ UNCHANGED <<settings, sess, cleared>>

DeleteOnlyHides(c, id) ==                                          \* mutant
  /\ doing[c].op = "delete" /\ id \in doing[c].todo
  /\ sess' = IF retained THEN sess ELSE [sess EXCEPT ![id].closed = TRUE]
  /\ answer' = [NoAnswer EXCEPT !.op = "delete", !.status = 204]
  /\ told' = [told EXCEPT ![c] = @ \union {id}]
  /\ doing' = [doing EXCEPT ![c] = Idle]
  /\ UNCHANGED <<settings, listed, cleared>>

DeleteCloses(c, id) ==
  /\ doing[c].op = "delete" /\ id \in doing[c].todo
  /\ sess' = [sess EXCEPT ![id].closed = TRUE]
  /\ answer' = [NoAnswer EXCEPT !.op = "delete", !.status = 204]
  /\ told' = [told EXCEPT ![c] = @ \union {id}]
  /\ doing' = [doing EXCEPT ![c] = Idle]
  /\ UNCHANGED <<settings, listed, cleared>>

\* A leave, the reaper or a shutdown closes a session; the store forgets it
\* with that or later.
EndsOtherwise(id) ==
  /\ id \in listed
  /\ \/ ~sess[id].closed /\ sess' = [sess EXCEPT ![id].closed = TRUE] /\ UNCHANGED listed
     \/ sess[id].closed /\ listed' = listed \ {id} /\ UNCHANGED sess
  /\ UNCHANGED <<settings, doing, cleared, told, answer>>

Handle(c, q) ==
  \/ TurnAway(c, q)
  \/ q.op = "create" /\ Create(c, q, NoAsk)
  \/ \E id \in Made : Get(c, q, id) \/ Delete(c, q, id)
  \/ List(c, q)

Next ==
  \/ \E host \in Hosts : Preflight(host)
  \/ \E c \in Callers :
       \/ \E q \in Requests : Handle(c, q)
       \/ \E ask \in Asks : CreateSessionWith(c, ask)
       \/ \E id \in Made : ReadStatus(c, id) \/ DeleteCloses(c, id)
       \/ AnswerStatus(c)
  \/ \E id \in Made : EndsOtherwise(id)

Spec == Init /\ [][Next]_vars

-------------------------------------------------------------------------------
\* Every variable has its type, and a handler works on sessions that were made
\* (internal/admin/admin.go).
TypeOK ==
  /\ noAuth \in BOOLEAN /\ retained \in BOOLEAN
  /\ sess \in Seq([ttl : Durations, wait : Durations, closed : BOOLEAN])
  /\ listed \subseteq Made /\ cleared \subseteq Hosts
  /\ doing \in [Callers -> [op : Ops \union {"none"},
                           todo : SUBSET Made, open : SUBSET Made, ended : SUBSET Made]]
  /\ told \in [Callers -> SUBSET Made]
  /\ answer \in [op : Ops \union {"none"},
                 status : {0, 200, 201, 204, 400, 401, 403, 404},
                 bearer : Bearers, host : Hosts \union {NoHost},
                 ask : Asks \union {NoAsk}, id : Made \union {0},
                 to : Callers \union {"nobody"}, open : SUBSET Made]

\* Whatever number of seconds a request asks for, however far it overflows a
\* time.Duration, no session lives longer than the server allows, none is born
\* expired, and a peer waits for as long as the server allows at most
\* (admin.go:83-89, store.go:38-40, relay.go:128-131).
WithinLimits ==
  \A id \in Made : sess[id].ttl \in 1..TTL /\ EffectiveWait(sess[id]) \in 1..PeerWait

\* Without the fraction of a second that the SDK's division drops, d is negative or
\* over the server's limit.
Exceeds(d, limit) == d <= -Second \/ d - (d % Second) > limit

\* What is granted for d is d to the second, and never more; less than a second
\* is the server's setting.
Grants(granted, d, server) ==
  IF d >= Second THEN granted <= d /\ granted > d - Second ELSE granted = server

\* A session is refused to the SDK's caller exactly when the lifetime or the peer wait it
\* asks for is negative or over the server's, counted in whole seconds, or its label
\* is too long; otherwise it has what was asked for.  For settings of whole seconds
\* that is what the SDK promises; where there is a fraction of a second over the
\* limit, the SDK promises a refusal and the fraction is cut off instead
\* (pkg/client/admin.go:29-30, 102-113; internal/admin/admin.go:75-96).
AsAsked ==
  answer.ask # NoAsk =>
    LET ask == answer.ask
    IN  /\ answer.status \in {201, 400}
        /\ answer.status = 400 <=> Exceeds(ask.ttl, TTL) \/ Exceeds(ask.wait, PeerWait) \/ ask.long
        /\ answer.status = 201 => /\ Grants(sess[answer.id].ttl, ask.ttl, TTL)
                                  /\ Grants(EffectiveWait(sess[answer.id]), ask.wait, PeerWait)

\* Only a caller whose token is valid and carries the operation's scope reaches a
\* handler, unless the server has no verifier; no page of another origin does with
\* a token, or deletes (oidc.go:86-154, cors.go:36-83).
OnlyEntitled ==
  answer.status \in {0, 201, 400, 404} /\ answer.op # "none" =>
    /\ answer.host \notin Allowed \union {NoHost} => answer.bearer = NoToken /\ answer.op # "delete"
    /\ \/ noAuth
       \/ /\ answer.bearer \in Tokens
          /\ answer.bearer.valid
          /\ \/ answer.bearer.scope # Absent /\ Scope[answer.op] \in answer.bearer.scope
             \/ answer.bearer.scope = Absent /\ answer.bearer.scp # Absent
                                            /\ Scope[answer.op] \in answer.bearer.scp

\* A caller that was told that a session has ended, by the answer to a DELETE, by
\* its status or by a 404, is never shown it live again, whatever the others do
\* meanwhile (admin.go:113-138, store.go:49-79).
EndedStaysEnded ==
  answer.status = 200 => answer.open \intersect told[answer.to] = {}

===============================================================================
