--------------------------------- MODULE Store ---------------------------------
(***************************************************************************)
(* The registry of sessions (internal/session/store.go) with its callers:  *)
(* the admin API creates and deletes (internal/admin/admin.go), the reaper *)
(* sweeps, and the server closes everything as it shuts down.  The map is  *)
(* under the store's lock; each session has its own mutex, so a session    *)
(* may be closed by one caller while another, under the store's lock, is   *)
(* between reading it and acting on what it read.                          *)
(*                                                                         *)
(* Of a session only its lifetime and its ending matter here; peers come   *)
(* and go in Session and Relay, and appear as PeerLeaves.                  *)
(***************************************************************************)
EXTENDS SessionOps, Sequences

CONSTANTS MaxSessions, \* bound: sessions made in a behaviour
          MaxDeletes, \* bound: DELETE requests of one session at a time
          TTL,        \* the server's session lifetime
          Asks,       \* the lifetimes requests ask for (0: the server's)
          Singles,    \* the kinds of sessions requests ask for (SingleAttach)
          Retentions, \* the values of Store.Retention
          MaxClock    \* bound: the last instant of a behaviour

ASSUME StoreAssumption ==
  /\ MaxSessions \in Nat /\ MaxDeletes \in Nat
  /\ TTL \in Nat \ {0} /\ Asks \subseteq Nat /\ Singles \subseteq BOOLEAN
  /\ Retentions \subseteq Nat /\ MaxClock \in Nat

VARIABLES sess,      \* the sessions made so far; an id is a session's place
          listed,    \* Store.sessions: the ids in the map
          retention, \* Store.Retention: how long a closed session stays readable
          clock,
          deleting,  \* per session: the DELETE requests about to close it
          reap,      \* the reaper: when its sweep began, what is left of it, and
                     \* the session it found expired and is about to close
          phase      \* running, stopping (after the signal), swept (by CloseAll)

vars == <<sess, listed, retention, clock, deleting, reap, phase>>

Ids == 1..MaxSessions

NoId == 0

Resting == [now |-> Never, todo |-> {}, found |-> NoId]

Made == DOMAIN sess

\* The sweep holds the store's lock from its first session to its last.
Unlocked == reap.now = Never

Init ==
  /\ sess = <<>>
  /\ listed = {}
  /\ retention \in Retentions
  /\ clock = Never + 1
  /\ deleting = [id \in Ids |-> 0]
  /\ reap = Resting
  /\ phase = "running"

-------------------------------------------------------------------------------
Lifetime(asked) == IF asked = 0 \/ asked > TTL THEN TTL ELSE asked

\* POST /admin/sessions; the API refuses what is over the server's lifetime.
Create(asked, single) ==
  /\ Len(sess) < MaxSessions
  /\ asked <= TTL
  /\ Unlocked
  /\ sess' = Append(sess, NewSession(clock, Lifetime(asked), single))
  /\ listed' = listed \union {Len(sess')}
  /\ UNCHANGED <<retention, clock, deleting, reap, phase>>

DeletesUnlocked(id) ==                                             \* mutant
  /\ deleting[id] < MaxDeletes
  /\ id \in listed
  /\ listed' = IF retention = 0 THEN listed \ {id} ELSE listed
  /\ deleting' = [deleting EXCEPT ![id] = @ + 1]
  /\ UNCHANGED <<retention, sess, clock, reap, phase>>

\* DELETE: look up, and remove unless the status is to be retained ...
Delete(id) ==
  /\ deleting[id] < MaxDeletes
  /\ id \in listed
  /\ Unlocked
  /\ listed' = IF retention = 0 THEN listed \ {id} ELSE listed
  /\ deleting' = [deleting EXCEPT ![id] = @ + 1]
  /\ UNCHANGED <<retention, sess, clock, reap, phase>>

ForgetsClose(id) ==                                                \* mutant
  /\ deleting[id] > 0
  /\ deleting' = [deleting EXCEPT ![id] = @ - 1]
  /\ UNCHANGED <<retention, sess, listed, clock, reap, phase>>

\* ... then close, after the store's lock is released.
DeleteCloses(id) ==
  /\ deleting[id] > 0
  /\ sess' = [sess EXCEPT ![id] = Closed(@, "deleted", clock)]
  /\ deleting' = [deleting EXCEPT ![id] = @ - 1]
  /\ UNCHANGED <<retention, listed, clock, reap, phase>>

\* A peer of a single-attach session leaves (Session.Detach).
PeerLeaves(id) ==
  /\ id \in Made
  /\ sess[id].single /\ ~sess[id].done
  /\ sess' = [sess EXCEPT ![id] = Closed(@, "peer_left", clock)]
  /\ UNCHANGED <<retention, listed, clock, deleting, reap, phase>>

-------------------------------------------------------------------------------
\* A tick and the signal may both be ready: the loop takes either.
ReapStart ==
  /\ Unlocked
  /\ reap' = [now |-> clock, todo |-> listed, found |-> NoId]
  /\ UNCHANGED <<retention, sess, listed, clock, deleting, phase>>

CountsFromExpiry(id) == reap.now >= sess[id].expiresAt + retention   \* mutant

KeepsClosed(id) == FALSE                                           \* mutant

ExpiresEarly(id) == reap.now >= sess[id].expiresAt                 \* mutant

ExpiresLate(id) == reap.now > sess[id].expiresAt + retention         \* mutant

Expired(id) == reap.now > sess[id].expiresAt

\* Closed for at least retention when the sweep began.
Outlived(id) == reap.now >= sess[id].closedAt + retention

ReapLook(id) ==
  /\ reap.found = NoId
  /\ id \in reap.todo
  /\ LET closed == sess[id].closedAt # Never
     IN  /\ reap' = [reap EXCEPT !.todo = @ \ {id},
                                 !.found = IF ~closed /\ Expired(id) THEN id ELSE NoId]
         /\ listed' = IF closed /\ Outlived(id) THEN listed \ {id} ELSE listed
  /\ UNCHANGED <<retention, sess, clock, deleting, phase>>

ReapClose ==
  /\ reap.found # NoId
  /\ sess' = [sess EXCEPT ![reap.found] = Closed(@, "expired", clock)]
  /\ listed' = IF retention > 0 THEN listed ELSE listed \ {reap.found}
  /\ reap' = [reap EXCEPT !.found = NoId]
  /\ UNCHANGED <<retention, clock, deleting, phase>>

ReapEnd ==
  /\ ~Unlocked
  /\ reap.todo = {} /\ reap.found = NoId
  /\ reap' = Resting
  /\ UNCHANGED <<retention, sess, listed, clock, deleting, phase>>

\* Requests may outlive the server's five seconds of grace.
Signal ==
  /\ phase = "running"
  /\ phase' = "stopping"
  /\ UNCHANGED <<retention, sess, listed, clock, deleting, reap>>

\* Each session is closed as it is removed.
CloseAll ==
  /\ phase = "stopping"
  /\ Unlocked
  /\ sess' = [i \in Made |->
                IF i \in listed THEN Closed(sess[i], "shutdown", clock) ELSE sess[i]]
  /\ listed' = {}
  /\ phase' = "swept"
  /\ UNCHANGED <<retention, clock, deleting, reap>>

Tick ==
  /\ clock < MaxClock
  /\ clock' = clock + 1
  /\ UNCHANGED <<retention, sess, listed, deleting, reap, phase>>

Sweep == ReapStart \/ (\E id \in Ids : ReapLook(id)) \/ ReapClose \/ ReapEnd

Next ==
  \/ \E asked \in Asks, single \in Singles : Create(asked, single)
  \/ \E id \in Ids : Delete(id)
  \/ \E id \in Ids : DeleteCloses(id)
  \/ \E id \in Ids : PeerLeaves(id)
  \/ Sweep
  \/ Signal
  \/ CloseAll
  \/ Tick

Spec == Init /\ [][Next]_vars

\* The ticker goes on, a sweep, an accepted DELETE and a shutdown run to their
\* end, and the server may run for ever.
Fairness ==
  /\ WF_vars(Tick)
  /\ WF_vars(CloseAll)
  /\ WF_vars(phase = "running" /\ ReapStart) /\ WF_vars(ReapEnd) /\ WF_vars(ReapClose)
  /\ \A id \in Ids : WF_vars(ReapLook(id)) /\ WF_vars(DeleteCloses(id))

FairSpec == Spec /\ Fairness

-------------------------------------------------------------------------------
\* Every variable has its type (Store, store.go:12-20), and the sweep works on
\* sessions that exist.
TypeOK ==
  /\ sess \in Seq(Sessions) /\ Made \subseteq Ids
  /\ listed \subseteq Made
  /\ retention \in Retentions
  /\ clock \in Nat \ {Never}
  /\ deleting \in [Ids -> 0..MaxDeletes] /\ \A id \in Ids \ Made : deleting[id] = 0
  /\ reap \in [now : 0..clock, todo : SUBSET listed, found : listed \union {NoId}]
  /\ phase \in {"running", "stopping", "swept"}

\* No session outlives its place in the map: one that is live and not listed,
\* which neither the reaper nor CloseAll will find, is about to be closed by the
\* request that removed it (store.go:68-79, 87-103).
LiveIsReachable ==
  \A id \in Made :
    ~sess[id].done /\ id \notin listed => deleting[id] > 0

\* A closed session's status stays readable for its retention, whichever way it
\* closed, unless the server stops (store.go:16-19, 66-67, 81-83).
StaysReadable ==
  [][\A id \in listed \ listed' :
       retention > 0 /\ phase' # "swept" =>
         sess[id].done /\ clock >= sess[id].closedAt + retention]_vars

\* "expired" is said only of a session whose lifetime had passed, although the
\* reaper decides before it closes and others may close in between
\* (store.go:89-94, session.go:302-309).
ExpiredIsLate ==
  \A id \in Made :
    sess[id].closeReason = "expired" => sess[id].closedAt > sess[id].expiresAt

\* While the server runs, every session ends once its lifetime has passed, attached
\* peers or not, and every session that ended leaves the map once its retention has,
\* so the map does not grow for ever (store.go:84-105).
EndsAndLeaves ==
  \A id \in Ids :
    /\ id \in Made /\ (id \in Made => sess[id].expiresAt < MaxClock)
         ~> (id \in Made /\ sess[id].done) \/ phase = "swept"
    /\ id \in Made /\ (id \in Made => sess[id].done
                                     /\ sess[id].closedAt + retention <= MaxClock)
         ~> id \notin listed \/ phase = "swept"

===============================================================================
