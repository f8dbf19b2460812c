# Specifications of swsrs

swsrs relays opaque WebSocket messages between two peers that meet in a
*session*. A control plane creates the session over an HTTP admin API and hands
each peer a token; each token opens one of the session's two slots; the relay
copies messages from each slot's connection to the other's until a peer leaves
or the session ends.

These modules model the relay server's own logic (the session, the store of
sessions, the connection handlers, the shutdown and the admin API with what guards it),
the Go SDK (its connection, its login, its admin client) and the command line's tunnels.
TLC checks them on small instances. TLAPS proves every invariant, every action property
and both refinements for every instance; what is left to TLC alone is liveness.
`PROJECT.json` lists the runs, the theorems, what each definition translates
(`map`), the hazards, the findings, and for every property a plausible bug that
breaks it (`mutants`; the operators marked `\* mutant` in the modules, which
no specification uses).

    tlc -workers 2 -config Relay.cfg MCRelay.tla
    tlapm RelayProofs.tla

## The system

| Part | Source | State it keeps | Operations | Met with |
|---|---|---|---|---|
| Session | `internal/session/session.go` | phase, two slots, lifecycle times, close reason, byte counts, the channels `changed` and `closed`, all under one mutex | Attach, Detach, Peer, SlotFree, AddBytes, CloseWith, Status | handlers, store |
| Store | `internal/session/store.go` | map of sessions under a lock, lifetime, retention | CreateWith, Get, List, Delete, Reap, CloseAll | admin API, reaper goroutine, shutdown |
| Relay | `internal/relay/relay.go` | per connection: the handler's goroutine, its `watch` goroutine, a context, a timer; a WaitGroup of all handlers | serve, pump, awaitPeer, forward, watch, Wait | session, the counterpart's connection |
| Server | `cmd/swsrs/serve.go` | configuration, the signal's context, the shutdown's budget | start, signal, Shutdown, CloseAll, Wait | http.Server, store, relay |
| Admin API | `internal/admin/admin.go` | none | create, list, get, del | store |
| Authorisation, CORS, discovery | `internal/auth`, `internal/cors`, `internal/discovery` | none of their own | one check or document per request | admin API |
| Go SDK | `pkg/client`, `pkg/client/auth` | a connection's deadlines, keepalive, close; a token, its file | Read, Write, Close, Set*Deadline, Send, Recv; Token, DeviceLogin | relay, issuer |
| Command line | `cmd/swsrs` | per tunnel two copying goroutines, the signal's context, the application's connection | tcp-listen, tcp-dial, raw, create, auth | Go SDK |
| TypeScript SDK | `clients/typescript/src` | as the Go SDK, without deadlines | connect, device login, token file | relay, issuer |

How they meet. A dial runs in its own handler. It asks the store for the session
and the session for the slot, upgrades, and attaches. From then on two goroutines
serve the connection: `pump` reads it, waits for a counterpart and writes to the
*counterpart's* connection; `watch` looks for the counterpart, holds the peer-wait
timer, and waits for the session's end. Handlers of one session never talk to each
other: they meet in the session (looks, and the channel closed at every attach
and detach) and in the connections, which a handler may write to and close although
another handler reads them. Whoever ends the session (a DELETE, the reaper, the
shutdown, a single-attach peer's leave) only closes a channel; each handler's own
watch then disconnects its own peer.

What is hard, and what makes each part correct:

- *Session*: any handler or closer may take the mutex next. `Detach` does not say
  whose connection leaves; single attach must be used up and closed in one step;
  four closers race. Correct when each slot belongs to one handler, phase and slots
  agree, the end is final, the times are in order.
- *Relay*: a look and the wait that follows it are two steps; a lookup may be stale
  when the connection it found is closed; a handler can be blocked in a read, a wait,
  a write and a closing handshake while the session ends or its own connection dies.
  Correct when no wakeup is lost, a client has one writer, a cut message is not
  passed off as whole, everyone gets out, nobody waits for ever.
- *Store*: a deletion removes and closes in two steps, under different locks; the
  sweep decides and acts in two steps while others close the same session. Correct
  when no live session is out of reach, closed ones stay as long as promised and no
  longer, everything ends.
- *Server*: the upgraded connections are not http.Server's any more, requests go on
  while it stops, and all waits share five seconds. Correct when a shutdown in
  time leaves nobody behind, and when it exits in any case.
- *SDK connection*: a deadline is a timer that may have gone off and be waiting for the
  mutex when the deadline is moved; it interrupts an operation by cancelling a context
  that is never renewed. Correct when only the deadline in effect expires a direction,
  a timeout means a closed connection, an idle expiry means nothing, and a blocked
  operation gets out.
- *SDK login*: several processes refresh through one file, with an issuer that accepts
  each refresh token once. Correct when a process reuses no token and the file keeps up
  with the issuer whatever crashes, and when a new login helps.
- *Tunnels*: two copies run against each other in each of two processes, and the first
  to end takes the other with it; deferred closes run while the other copy still does;
  nobody reads the relay while a target is dialled. Correct when what was sent before an
  orderly end arrives, and when the end of one process ends the other.
- *Admin API*: seconds become nanoseconds in 64 bits, and zero means the server's
  setting, so a number is converted three times; a status is read after the store's lock
  is released, a deletion closes after it. Correct when no number gets past the limits,
  when only those with the scope reach a handler, and when what a caller was told has
  ended stays so.

## Modules

| Module | Models | Lines of argument |
|---|---|---|
| `SessionOps` | the operations of a session as operators on its value | shared by `Session`, `Relay` and `Store` |
| `Session` | one session under all its callers | invariants, refinement of `Lifecycle` |
| `Lifecycle` | abstract: what a control plane that polls a session's status may see | |
| `Relay` | the handlers and watches of one session's connections | invariants, liveness, refinement of `Session` |
| `Store` | the registry, its deletions, the reaper, shutdown | invariants, action property, liveness |
| `Admin` | a call of the admin API from its caller to its effect: conversion, CORS, token, scope, handler | invariants |
| `Tunnel` | `tcp-listen`, `tcp-dial` and `raw` at both ends of a session | invariants, liveness |
| `Server` | signal, Shutdown, CloseAll, Wait, over the stages of the connections | invariants, action property, liveness |
| `ClientConn` | the Go SDK's connection: deadlines, operations, close, keepalive | invariants, action property, liveness |
| `Credentials` | the Go SDK's token source, the credentials file, login and logout | invariants |
| `MCSession`, `MCRelay`, `MCServer`, `MCCredentials`, `MCAdmin`, `MCTunnel` | the instances (`ClientConn` and `Store` have only numbers) | |
| `SessionProofs`, `RelayProofs`, `StoreProofs`, `ServerProofs`, `AdminProofs`, `ClientConnProofs`, `CredentialsProofs`, `TunnelProofs` | the theorems about the module each is named after | TLAPS |

**SessionOps.** A session is a record. Its fields are those of the Go struct that
some decision reads or status shows. `slot`, `firstAt` and `bytes` are functions of
the role, where the code has a field for each. Every method holds the mutex from its
first line to its last, so each is one operator: `AttachOutcome` (the checks, in
their order) and `Attached`, `Detached`, `Closed` (`closeOnce`), `AddedBytes`,
`SlotFree`, `Peer`. Two reads of the clock in one method are one here.

**Session.** `holds` records which slot each handler attached to; the code keeps it
in the handler's local `role`. The actions are the methods; a refused attach changes
nothing. `Delete`, `Reap` and `CloseAll` are the store's closes as the session sees
them. `Present`, with the reason and `openedAt`, maps a session to `Lifecycle`, which
knows only how many peers are present and why the session ended.

**Relay.** `pc` is where `serve` and `pump` are and `watch` is where the watch
goroutine is; one action is what happens between two points where another goroutine
can interfere: a mutexed call, a channel operation, a connection's call. A look at
the session and the wait on the channel that came with it are two steps (`AwaitPeer`
then `select`; `WatchLook` then `select`), and an attach or detach moves everyone who
waits to `woken` (`Woken`). A woken select whose context or timer is ready as well
may take any of them, as Go's does. `conn` is the connection as the websocket library
shows it: the first `Close` sends its status and waits for the handshake (`closing`),
which ends when answered or after five seconds (`CloseEnds`); a client that has left
goes unnoticed until something reads or writes. The library and the client are
external and modelled from how `relay.go` uses them. `code` and `partial` remember
what a client was sent and are dropped when its handler ends. `Holds` maps the relay
to `Session`: a handler holds its role's slot between its attach and its detach.

**Store.** Sessions are numbered as they are made, `sess` is the sequence of them, and of
deletions only how many are about to close a session is kept. Actions that take the store's lock need `Unlocked`. The reaper's sweep
holds it throughout, and its steps (`ReapLook`, `ReapClose`) interleave with what does
not need it: a peer's leave, and the close at the end of a `DELETE`. Sessions are
looked at in any order, as in a Go map.

**Admin.** A duration is an integer of `2 * Half` values that wraps around (`Wrap`), and
`Second` is `time.Second`; nothing else depends on the width. `OnTheWire` is the SDK's
division, `Refuses` the handler's checks (of the body, of the products, of the label's
length), `NewSession` the store's cap, `EffectiveWait` what the relay makes of a peer wait.
A request meets CORS (`Preflight`,
which a browser sends before a call of a page with a token, or a DELETE), then `Guard`
(`Verifier.Middleware`), then its handler. All of that and the handler's visit to the
store is one step, since it reads nothing shared before; `ReadStatus`, `AnswerStatus` and
`DeleteCloses` come after the store's lock and interleave with the other caller and with
`EndsOtherwise` (a leave, the reaper, a shutdown; in detail they are `Store`'s). `answer`
is the last answer, and `told` the sessions each caller was told have ended.

**Tunnel.** Each end is a process between its application and its WebSocket. What an
application says is counted in chunks, and `stream` says how many of them were said,
sent, carried by the relay and given to the other application. `copies` are the ends of
copies that `pipe`'s select has still to see; the copies themselves go on in `leave`,
while the deferred closes wait for the relay's handshake. The relay is `Relay` in short:
`HandlerEnds` looks up, closes and detaches in one step (the gap between them is
`relay_alone`'s), and a broken connection is noticed at both sides. `raw` and
`tcp-listen` differ in who opens the application; a listener pair is a raw pair after its
accepts. Until anyone has come the listener may fail, and ends its process (`AcceptFails`; nothing
obliges it to). `cut` remembers that something other than the two ends came between: peer-wait,
a keepalive, a handshake given up, a broken connection.

**Server.** `stage` follows a connection through what matters to the shutdown: a
request that http.Server waits for, counted by the WaitGroup, upgraded, attached.
`budget` is the shared context. All connections are of one session that stays listed
and open until `CloseAll`.

**ClientConn.** Each direction has its deadline (`dl`), its context (`cancelled`) and the
operation in flight (`op`). A call is `Begin`, the library's outcome, `Wrap` and `End`,
each a mutexed step that timers and `Set` can come between. A timer that has gone off
(`fired`) cannot be stopped; its function takes the mutex later (`Expire`) and compares
generations. `busy` in the code is `op # "idle"` here. The WebSocket is open, closed, or
lost (open, but nothing arrives): it is the library's, and modelled from its use. `Send`
and `Recv` take no part in the deadlines; what they can do to the connection is `Broken`.

**Credentials.** A call of `adminSource.token` takes the source's mutex, loads the file
if it has not yet (which may fail whether or not there is one), asks the issuer when the
access token has run out, and saves what it gets: a temporary file, then a rename
(`WriteTemp`, `Rename`). Its process may end between any two of these (`Crash`). The issuer rotates: `latest` is the one refresh
token of a grant that works. `Login` and `Logout` are `swsrs auth`, in a process of its
own. `spent`, `lost` and `failed` are history that the properties need.

## Runs

| Run | What it shows |
|---|---|
| `session` | three connections, all closers: see the properties below |
| `relay` | three dials, one slot contested and redialled: `NoLostWakeup`, `SoleWriter`, `PrefixNotClean`, and that the relay implements `Session` (`UsesSession`) |
| `relay_live` | one dial for each slot, sessions that expire: `EndDrains`, `FirstWaitBounded`, `HeldMessageMoves` |
| `store` | two sessions, two deletions at a time, retention 0 and 1: `LiveIsReachable`, `ExpiredIsLate`, `StaysReadable`, `EndsAndLeaves` |
| `server` | three connections and another request: `ExitCoversAll`, `AddsBeforeWait`, `ExitFollows` |
| `client` | one reader, one writer, two moves of each deadline: `ExpiredIsDue`, `TimeoutCloses`, `IdleExpiryHarmless`, `BlockedGetsOut` |
| `credentials` | two processes, one with two calls: `SpendsOnce`, `FileKeepsUp` |
| `tunnel` | a dialler with a listener and with `raw`: `EndDelivers`, `TunnelEnds`, and in `TypeOK` that no stream gets ahead of what feeds it |
| `admin` | two callers, seven kinds of bearer, two origins: `WithinLimits`, `AsAsked`, `OnlyEntitled`, `EndedStaysEnded` |
| `relay_alone`, `relay_dead_slot`, `credentials_retry` | each finds a behaviour that contradicts a sentence of the documentation or a comment; see Findings |

The session's properties: `SlotOwner` (a slot holds exactly the connection of the
handler that attached there, which is what makes `Detach` safe), `PhaseMatchesSlots`,
`SingleLeaveEnds` (no live session has a used-up slot), `Timeline`, `EndIsFinal` (an
action property), `KeepsPromise` (the refinement of `Lifecycle`).

Bounds, and why they are enough:

- Three connections: two slots, and a third to meet a taken slot or to follow one that
  left. A fourth would only contest a slot again.
- Clocks of four or five instants and lifetimes of one and two: an attach, a leave, a
  close and a sweep can each be before, at and after the expiry. In `store` two sessions are
  enough for a sweep to be between them; they are single-attach (`Singles`), because one
  whose peer leaves and that does not close is as if none had left. `MaxClock` 4 leaves
  room for the latest expiry, a later close, and the retention after it.
- `relay` has `MaxClock` 1, the first instant: no decision there depends on the time
  except the expiry, which `relay_live` has. It has no ending from outside
  (`Endings = {}`), so that three dials stay within minutes: once a session has ended,
  a third dial is refused, and two dials are `relay_live`. Single-attach sessions do
  end in `relay`.
- `MaxBytes` 1 in `session` counts a byte in each direction; `relay` counts none,
  since no decision reads the counts.
- `client`: a deadline set twice is one that is moved; with two instants it can be set
  ahead, and pass before and after the move.
- `credentials`: two grants and three refresh tokens of each: a token can be two refreshes
  behind, and a second login can race the saves of the first. `credentials_retry` has one
  process with one call, so that nothing but its own memory is in its way.
- `admin`: six bits of a duration with a second of twelve, so that, as with 64 bits and
  10^9, some numbers of seconds wrap to nothing, some to less than a second and some to a
  negative number; each setting takes values at its limits, a fraction of a second over
  them, and values that wrap. A number of seconds has six bits too, as it has 64 there. One
  session, since no property relates two.
- `tunnel`: one chunk each way, which can be at any stage when anything ends.
- Deadlock is checked in `session`, `relay_live` and `credentials`. In the others the system does
  stop: all dials over, all ids used after the shutdown, the process gone, the
  connection closed and its deadlines spent.

Symmetry is used only in runs without liveness properties: all connections
are alike in `session`, the two dials for one slot in `relay`, the two calls of one
process in `credentials`, the two callers in `admin`.

Fairness. `Relay!Fairness` is weak fairness of each goroutine's steps: the Go
scheduler runs what can run, the five-second limit ends every closing handshake,
a read of a dead connection or under a cancelled context fails. Nothing is assumed of
clients (to dial, send, leave, or read: `SendAll` has no fairness, so a write to a
slow client may block for ever) nor of anyone who ends sessions. `TimersFire` adds that
an armed timer fires. In `Store` the clock goes on, the reaper's ticker comes round
while the server runs, and a sweep, an accepted `DELETE` and a shutdown finish; nobody
has to delete or to stop the server. In `Server` the main goroutine goes on once
signalled and five seconds pass; requests and connections may hang. In `ClientConn`
time passes, timers go off, the keepalive's ticker comes round and its ping ends, and a
handshake ends; no data is obliged to arrive. In `Tunnel` the goroutines and the relay go
on, timers fire, a dial ends, and an application reads what it is given; nobody has to
say, finish, signal, connect to the listener, or break a connection, and the keepalive
need not help. `Admin` has no fairness. `Credentials` has no fairness: a refresh
may hang, and so may everyone behind it.

## Proofs

Each `XProofs` module proves an inductive invariant `IInv` of `X` (the theorem
`Invariance`), and from it what the runs check, for every value of the constants:

| Module | Theorem | States |
|---|---|---|
| `SessionProofs` | `TypeCorrect` | `Spec => []TypeOK` |
| | `SlotOwnership` | `Spec => []SlotOwner` |
| | `PhaseAgreement` | `Spec => []PhaseMatchesSlots` |
| | `SingleAttachEnds` | `Spec => []SingleLeaveEnds` |
| | `TimelineInOrder` | `Spec => []Timeline` |
| | `Finality` | `Spec => EndIsFinal` |
| | `Refinement` | `Spec => KeepsPromise`: a session implements `Lifecycle` |
| `RelayProofs` | `SessionUse` | `Spec => UsesSession`: the relay implements `Session` |
| | `SessionGuarantees` | `Session`'s invariants and `EndIsFinal`, of the relay's session |
| | `RelayKeepsPromise` | so the relay implements `Lifecycle` |
| | `TypeCorrect` | `Spec => []TypeOK` |
| | `NoWakeupIsLost` | `Spec => []NoLostWakeup` |
| | `WritersApart` | `Spec => []SoleWriter` |
| | `PrefixIsNoCleanEnd` | `Spec => []PrefixNotClean` |
| `StoreProofs` | `TypeCorrect` | `Spec => []TypeOK` |
| | `NothingLeaks` | `Spec => []LiveIsReachable` |
| | `ExpiryIsTrue` | `Spec => []ExpiredIsLate` |
| | `StatusIsRetained` | `Spec => StaysReadable` |
| `ServerProofs` | `TypeCorrect` | `Spec => []TypeOK` |
| | `NothingCutOff` | `Spec => []ExitCoversAll` |
| | `AddComesFirst` | `Spec => AddsBeforeWait` |
| `AdminProofs` | `TypeCorrect` | `Spec => []TypeOK` |
| | `LimitsHold` | `Spec => []WithinLimits` |
| | `GrantedAsAsked` | `Spec => []AsAsked` |
| | `EntitledOnly` | `Spec => []OnlyEntitled` |
| | `NeverLiveAgain` | `Spec => []EndedStaysEnded` |
| `ClientConnProofs` | `TypeCorrect` | `Spec => []TypeOK` |
| | `NoEarlyExpiry` | `Spec => []ExpiredIsDue` |
| | `TimeoutIsFinal` | `Spec => []TimeoutCloses` |
| | `IdleIsSpared` | `Spec => IdleExpiryHarmless` |
| `CredentialsProofs` | `TypeCorrect` | `Spec => []TypeOK` |
| | `NeverSpentTwice` | `Spec => []SpendsOnce` |
| | `FileIsCurrent` | `Spec => []FileKeepsUp` |
| `TunnelProofs` | `TypeCorrect` | `Spec => []TypeOK` |
| | `NothingIsCutOff` | `Spec => []EndDelivers` |

None of the properties is inductive alone. What each `IInv` adds, and why:

- *Session.* `SlotOwner` needs the types; `PhaseMatchesSlots` needs that an emptied slot
  was its handler's; `SingleLeaveEnds` needs that a filled slot has its first time (in
  `Timeline`), and `Timeline` needs that an open session's slots are both filled (in
  `PhaseMatchesSlots`). `IInv` is their conjunction with `TypeOK`. Each operator of
  `SessionOps` has a lemma of what it does field by field. The refinement maps attach to
  `Arrive`, detach to `Leave` or, after the end, `Drain`, every first close to `End`, and
  everything else to a stutter.
- *Relay.* `SessionUse` comes first and needs no more than that a handler is somewhere in
  `serve` or `pump`: attach is `Session`'s attach, leave its detach, the rest leaves the
  session alone. `RelayProofs` then takes `SessionProofs` as an instance with
  `holds <- Holds`, and `SlotOwner` with `TypeOK` (`Owned`) become facts about the relay at
  no further cost. `SoleWriter` is one of their consequences: two writers of one client
  would have the same role and both be attached. `PrefixNotClean` is the deep one. A normal
  status is sent to a counterpart only by a handler in `kick`; an unfinished message on a
  connection that is still open has its writer at it (`InFlight`); both are attached with the
  role opposite to the client's (`Counterpart`), so they are one handler, in two places at
  once. `Untold` says that a connection still open has been sent no status, so the one it
  is sent is the first. Each step is told by what it does to one connection (`ConnStep`).
- *Store.* What the reaper found must still be true when it acts (`SweepOK`: what it found
  stays expired, and it will not meet the same session again), and a closed session must
  have the time it closed at (`ClosedHasTime`), from which its retention is counted.
- *Server.* Once `Shutdown` has returned within the budget no request is under way, nor will
  be (`NoneUnderWay`); so nothing is counted from then on, and what `Wait` sees is all there is.
- *Admin.* `SecondsBack`, `SettingChecked` and `SettingGranted` are the arithmetic: a setting
  that becomes whole seconds and is multiplied back does not wrap; the handler's check of the
  product is the comparison of the setting, less its fraction of a second, with the limit; and
  what passes and is capped is what was asked for down to the second, for any width (`Half`),
  any `Second` and any limits. `AsAsked` follows (`AskRefused`, `AskGranted`), with the label. That a preflight was
  answered means an allowed origin (`ClearedOnly`). For `EndedStaysEnded` the invariant speaks
  of answers in the making (`Reading`): what a caller has read as live it had not been told of,
  and what it was told of is closed or out of reach.
- *ClientConn.* A timer that has gone off and waits for the mutex is of an older generation, or
  of the deadline in effect, which has passed (`TimersInFlight`); an expired direction has its
  operation interrupted (`ExpiryInterrupts`); an operation that failed left the connection
  closed (`FailureIsFinal`).
- *Credentials.* Between the answer of a refresh and the rename, the process that asked is the
  only one that knows the token the issuer accepts (`OnlyTheSaver`). So no one else can refresh
  meanwhile, the save sets nothing back, and the file is behind only while a save is to come.
  What a source has used comes before what it has, in the same grant (`SpentBefore`), which
  gives `SpendsOnce`. The proof showed that `FileKeepsUp` had said less than it meant: the call
  that is about to save has the token of the file's own grant, and the property says so now.
- *Tunnel.* Who left first. A process leaves of its own accord, for a signal or its
  application's end, or because it was told (`LeftItself`, `WasTold`). Unless something cut in,
  a process that was told has a counterpart that had left of its own accord, with all it had
  sent carried (`ToldIsLast`, `HandlerOfGone`), and given (`ToldHasAll`); and only a process that
  was told hangs up on an open application. `SentAll` adds that an application that finished
  had all it said sent, unless the far end left first. The invariant is stated end by end
  (`At`), so that an action at one end is checked against two ends only.

The constants' assumptions are named in the module that declares them and TLC evaluates them.
They are what the code's configuration guarantees (`StoreAssumption`: a positive lifetime;
`AdminAssumption`: a second and the server's limits are durations, and the allowed origins
origins; `RoleOfAssumption`: a token opens one slot), the shape of what the runs enumerate
(`InputsAssumption`, `EndingsAssumption`, `TunnelAssumption`) and that bounds are numbers, with
at least one instant and one token of a grant. `Conns`, `Sources`, `Calls`, `Tokens`, `Callers`,
`Hosts` and `Dials` are any sets, finite or not.

Only model-checked:

- Liveness: `EndDrains`, `FirstWaitBounded`, `HeldMessageMoves`, `EndsAndLeaves`, `ExitFollows`,
  `BlockedGetsOut`, `TunnelEnds`. They rest on fairness, thus on ENABLED, for which the prover
  has no rule here.
- The three violations (`AloneNotForever`, `DeadSlotFreed`, `RetryAfterLogin`), which are
  counterexamples, not theorems.

## Findings

1. `relay_alone`. `docs/guide/architecture.md:46` says peer-wait bounds how long the
   first peer waits, and `:35` that when a peer disconnects the relay closes the
   other. A handler whose read failed looks its counterpart up (`relay.go:165`), finds
   none, and detaches a little later. A peer that attaches in between is not closed; its
   watch sees the leaving peer, stops the timer, and never arms it again. It then waits
   until the session's TTL.
2. `relay_dead_slot`. `CHANGELOG.md:45-47` says a disconnected peer no longer holds its
   slot while waiting. `awaitPeer` (`relay.go:192-204`) selects on the context and on
   attach or detach only. When the counterpart's handler closes this connection and
   leaves, a handler that already holds a message waits with its timer stopped, on a dead
   connection, until the TTL.
3. `credentials_retry`. `pkg/client/auth/source.go:21-23` says that after a failed refresh
   the caller invokes `swsrs auth` and retries. The source reads the file only once; the
   retry sends the old refresh token, and fails until the process makes a new source.

Others were met on the way and have no run of their own.

- `pkg/client/conn.go:152-154` says that a deadline that passes while a Read or Write is in
  flight makes it return a timeout and closes the connection. A call is busy until `end`,
  after the library has succeeded. A deadline that passes in between cancels the
  direction's context (`conn.go:288-289`), which lasts as long as the connection, while the
  call reports success and the connection stays open; later calls in that direction fail,
  with no timeout, even under a new deadline. In `ClientConn` it is `Succeeds`, `Expire`,
  `End`.
- `docs/reference/admin-api.md` refuses a lifetime or a peer wait over the server's with 400.
  A number of seconds that overflows to a duration within the limits is accepted; no limit
  is passed (`WithinLimits`), but the session may last less than a second, and its status may
  show a negative peer wait.
- `pkg/client/admin.go:29-30` says that a lifetime or a peer wait over the server's is
  refused. The SDK first cuts it to whole seconds (`:105-106`): 30.5 s asked of a server whose
  limit is 30 s is granted as 30 s, and less than a second becomes the server's default.
  `AsAsked` says what holds: refusals are exact in whole seconds.
- `swsrs create` with an unknown `--output` says so after it has made the session, whose
  tokens are then lost (`create.go:59-61`).
- Without retention a second DELETE of a session answers 404 while the first has not closed
  it yet (`store.go:72-77`).
- The first direction of a tunnel to end takes the other with it: with
  `raw <input.bin >output.bin` (`docs/guide/cli.md:86`) the end of the input cuts the output
  off. `pipe`'s comment says "until either side errors" (`tcp_listen.go:75`); an end of
  stream is none. A tunnel cut off ends with exit code 0, as a complete one.
- A tunnel whose application does not read what it is given, or whose target is still being
  dialled, does not read pongs: the keepalive closes it.

- `docs/guide/architecture.md:49-50` promises status 1001 to connected peers when a session
  closes. A pump cancelled in the middle of a message closes the other peer with 1011
  first (`relay.go:185`).
- `serve.go:177-178` says sessions are closed so that peers get a close frame. `Shutdown`
  and `Wait` share five seconds: when a slow request uses them, the process may end before
  a frame is sent.
- After `Shutdown` has given up, `Add` may run while `Wait` waits (`relay.go:86-89` says it
  cannot; `AddsBeforeWait` holds as long as the budget does).
- A waiting peer that sent early data and leaves is not noticed before peer-wait
  (`relay.go:176`, where `:156-157` says close frames are answered while waiting).
- Without retention a session that closed by a leave stays listed until the next sweep
  (`session.go:251`; `store.go:18` says it is removed as it closes).
- A refresh under way when `swsrs auth --logout` removes the credentials
  (`docs/guide/cli.md:41`) saves them again.

## Not modelled

- Contents and sizes of messages, the read limit, and the byte arithmetic beyond
  counting: the relay forwards what it reads.
- Tokens and ids: 128 random bits compared in constant time; a token is its role.
- Configuration, logging, TLS, JSON, the discovery document's fields, how an origin pattern
  matches a host, HTTP status codes where no decision reads them.
- In the SDK: the dial, the walk of a Read through messages, access tokens (whether one is
  still valid is an open choice), issuers that do not rotate (a refresh then changes
  nothing that the properties speak of).
- In the tunnels: a connection that vanishes in silence (the relay has no keepalive and
  holds the slot until the TTL), and sessions ended from outside, which is one more way to
  be told off.
- That a call of the token source returns: it holds a mutex while the issuer answers, and
  nothing bounds that (`source.go:69`).
- The TypeScript SDK: planned, below.

## Plan

1. `DeviceLogin`: the TypeScript polling loop with `slow_down`, expiry and abort; its file
   store, which writes in its own way, joins `Credentials`.
2. Proofs: the safety half of the liveness properties, which needs no fairness: that a
   handler whose session has ended is on its way out or has its context cancelled soon
   (`EndDrains`), that the first peer's timer stays armed while it waits alone
   (`FirstWaitBounded`), that a direction whose deadline has passed has a timer armed or on its
   way (`BlockedGetsOut`); and that the handlers of `Relay` go through `Server`'s stages, so that
   the shutdown's guarantees are about them.

No module that is proved about uses a RECURSIVE operator.
