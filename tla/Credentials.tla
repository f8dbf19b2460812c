------------------------------ MODULE Credentials -----------------------------
(***************************************************************************)
(* The Go SDK's login (pkg/client/auth): processes that each have one      *)
(* AdminTokenSource and share one credentials file, which `swsrs auth`     *)
(* writes and `swsrs auth --logout` removes.                               *)
(*                                                                         *)
(* The issuer is external.  It rotates refresh tokens: each works once,    *)
(* and is answered with the next of its grant.  Access tokens are left     *)
(* out; whether the one at hand is still valid is an open choice.          *)
(***************************************************************************)
EXTENDS Naturals

CONSTANTS Sources,    \* an adminSource, one for each process
          Calls,      \* of a source's token
          SourceOf,   \* [Calls -> Sources]
          NoToken, NoCall,
          MaxGrants,  \* bound: how many logins
          MaxUses     \* bound: how many refresh tokens a grant has

ASSUME CredentialsAssumption ==
  /\ SourceOf \in [Calls -> Sources]
  /\ NoCall \notin Calls
  /\ MaxGrants \in Nat /\ MaxUses \in Nat \ {0}

Grants == 1..MaxGrants
Tokens == [grant : Grants, n : 1..MaxUses]

ASSUME NoTokenAssumption == NoToken \notin Tokens

VARIABLES file,    \* the credentials file, NoToken when there is none
          memory,  \* per source: the token in src, NoToken when src is nil
          mu,      \* per source: the call that holds the mutex
          pc,      \* per call
          sent,    \* per call: the refresh token it has sent, while it lasts
          latest,  \* issuer, per grant: the token that works; 0: revoked or none
          made,    \* issuer: how many grants there have been
          spent,   \* history, per source: the tokens it used and had answered
          lost,    \* history: the grants of which a token was lost
          failed   \* history: the sources whose last call failed

vars == <<file, memory, mu, pc, sent, latest, made, spent, lost, failed>>

issuer == <<latest, made>>
history == <<spent, lost, failed>>

\* asking: the token endpoint has the request; save, rename: in Save.
Pcs == {"idle", "waiting", "load", "token", "asking", "save", "rename"}

\* The issuer would answer a refresh with this token.
Accepts(t) == t # NoToken /\ latest[t.grant] = t.n

Init ==
  /\ file = NoToken
  /\ memory = [s \in Sources |-> NoToken]
  /\ mu = [s \in Sources |-> NoCall]
  /\ pc = [c \in Calls |-> "idle"]
  /\ sent = [c \in Calls |-> NoToken]
  /\ latest = [g \in Grants |-> 0]
  /\ made = 0
  /\ spent = [s \in Sources |-> {}]
  /\ lost = {}
  /\ failed = {}

-------------------------------------------------------------------------------
(***************************************************************************)
(* A call of adminSource.token.                                            *)
(***************************************************************************)
To(c, next) == pc' = [pc EXCEPT ![c] = next]

Begin(c) ==
  /\ pc[c] = "idle"
  /\ To(c, "waiting")
  /\ UNCHANGED <<file, memory, mu, sent, issuer, history>>

\* mutant: the source has no mutex
LockFree(c) ==
  LET s == SourceOf[c] IN
  /\ pc[c] = "waiting"
  /\ mu' = [mu EXCEPT ![s] = c]
  /\ To(c, IF memory[s] = NoToken THEN "load" ELSE "token")
  /\ UNCHANGED <<file, memory, sent, issuer, history>>

Lock(c) ==
  LET s == SourceOf[c] IN
  /\ pc[c] = "waiting" /\ mu[s] = NoCall
  /\ mu' = [mu EXCEPT ![s] = c]
  /\ To(c, IF memory[s] = NoToken THEN "load" ELSE "token")
  /\ UNCHANGED <<file, memory, sent, issuer, history>>

\* The deferred unlock.
Return(c) ==
  /\ To(c, "idle")
  /\ mu' = [mu EXCEPT ![SourceOf[c]] = NoCall]
  /\ sent' = [sent EXCEPT ![c] = NoToken]

Succeed(c) ==
  /\ Return(c)
  /\ failed' = failed \ {SourceOf[c]}
  /\ UNCHANGED spent

Fail(c) ==
  /\ Return(c)
  /\ failed' = failed \cup {SourceOf[c]}
  /\ UNCHANGED spent

\* Once src is there, nobody looks at the file again.
Load(c) ==
  /\ pc[c] = "load" /\ file # NoToken
  /\ memory' = [memory EXCEPT ![SourceOf[c]] = file]
  /\ To(c, "token")
  /\ UNCHANGED <<file, mu, sent, issuer, history>>

\* There is no file, or it cannot be read or decoded.
LoadFails(c) ==
  /\ pc[c] = "load"
  /\ Fail(c)
  /\ UNCHANGED <<file, memory, issuer, lost>>

\* The access token is still valid.
UseCached(c) ==
  /\ pc[c] = "token"
  /\ Succeed(c)
  /\ UNCHANGED <<file, memory, issuer, lost>>

\* It is not, and the oauth2 library sends the refresh token.
Ask(c) ==
  /\ pc[c] = "token"
  /\ sent' = [sent EXCEPT ![c] = memory[SourceOf[c]]]
  /\ To(c, "asking")
  /\ UNCHANGED <<file, memory, mu, issuer, history>>

\* What the issuer does with a token that works.
Rotate(t) == latest' = [latest EXCEPT ![t.grant] = @ + 1] /\ UNCHANGED made

CanRotate(t) == Accepts(t) /\ t.n < MaxUses

Refreshed(c) ==
  LET s == SourceOf[c]
      t == sent[c]
  IN
  /\ pc[c] = "asking" /\ CanRotate(t)
  /\ Rotate(t)
  /\ memory' = [memory EXCEPT ![s] = [t EXCEPT !.n = @ + 1]]
  /\ spent' = [spent EXCEPT ![s] = @ \cup {t}]
  /\ To(c, "save")
  /\ UNCHANGED <<file, mu, sent, lost, failed>>

\* The issuer says no, or cannot be reached.
Refused(c) ==
  /\ pc[c] = "asking"
  /\ Fail(c)
  /\ UNCHANGED <<file, memory, issuer, lost>>

\* The issuer has rotated the token, and its answer does not arrive.
AnswerLost(c) ==
  /\ pc[c] = "asking" /\ CanRotate(sent[c])
  /\ Rotate(sent[c])
  /\ Fail(c)
  /\ lost' = lost \cup {sent[c].grant}
  /\ UNCHANGED <<file, memory>>

\* mutant: written in place, where another process reads a part of it
WriteInPlace(c) ==
  /\ pc[c] = "save"
  /\ To(c, "rename")
  /\ file' = [grant |-> 0, n |-> 0]
  /\ UNCHANGED <<memory, mu, sent, issuer, history>>

\* The new token is complete in a temporary file.
WriteTemp(c) ==
  /\ pc[c] = "save"
  /\ To(c, "rename")
  /\ UNCHANGED <<file, memory, mu, sent, issuer, history>>

\* mutant: saves the token the source was made with
SaveLoaded(c) ==
  /\ pc[c] = "rename"
  /\ file' = sent[c]
  /\ Succeed(c)
  /\ UNCHANGED <<memory, issuer, lost>>

Rename(c) ==
  /\ pc[c] = "rename"
  /\ file' = memory[SourceOf[c]]
  /\ Succeed(c)
  /\ UNCHANGED <<memory, issuer, lost>>

\* Nobody hears of it, and the same token is not saved again.
SaveFails(c) ==
  /\ pc[c] \in {"save", "rename"}
  /\ Succeed(c)
  /\ lost' = lost \cup {memory[SourceOf[c]].grant}
  /\ UNCHANGED <<file, memory, issuer>>

-------------------------------------------------------------------------------
(***************************************************************************)
(* Other processes, and the end of this one.                               *)
(***************************************************************************)
\* The process ends, anywhere, and another takes its place.
Crash(s) ==
  LET mine == {c \in Calls : SourceOf[c] = s}
      cut  == {c \in mine : pc[c] \in {"asking", "save", "rename"}}
  IN
  /\ memory[s] # NoToken \/ mu[s] # NoCall
  /\ pc' = [c \in Calls |-> IF c \in mine THEN "idle" ELSE pc[c]]
  /\ sent' = [c \in Calls |-> IF c \in mine THEN NoToken ELSE sent[c]]
  /\ mu' = [mu EXCEPT ![s] = NoCall]
  /\ memory' = [memory EXCEPT ![s] = NoToken]
  /\ spent' = [spent EXCEPT ![s] = {}]
  /\ lost' = lost \cup {memory[s].grant : c \in cut}
  /\ failed' = failed \ {s}
  /\ UNCHANGED <<file, issuer>>

\* The device flow: the user approves, and the issuer makes a grant.
DeviceLogin ==
  /\ made < MaxGrants
  /\ made' = made + 1
  /\ latest' = [latest EXCEPT ![made + 1] = 1]

\* `swsrs auth`.  Until the grant is saved nobody else knows it, and a login or a
\* save that fails leaves all as it was.
Login ==
  /\ DeviceLogin
  /\ file' = [grant |-> made', n |-> 1]
  /\ UNCHANGED <<memory, mu, pc, sent, history>>

Logout ==
  /\ file # NoToken
  /\ file' = NoToken
  /\ UNCHANGED <<memory, mu, pc, sent, issuer, history>>

\* A grant lapses, or is withdrawn at the issuer.
Revoke(g) ==
  /\ latest[g] # 0
  /\ latest' = [latest EXCEPT ![g] = 0]
  /\ UNCHANGED <<file, memory, mu, pc, sent, made, history>>

-------------------------------------------------------------------------------
Answered(c) == Refreshed(c) \/ Refused(c) \/ AnswerLost(c)

Save(c) == WriteTemp(c) \/ Rename(c) \/ SaveFails(c)

Token(c) ==
  \/ Load(c) \/ LoadFails(c) \/ UseCached(c) \/ Ask(c) \/ Answered(c) \/ Save(c)

Next ==
  \/ \E c \in Calls : Begin(c) \/ Lock(c) \/ Token(c)
  \/ \E s \in Sources : Crash(s)
  \/ \E g \in Grants : Revoke(g)
  \/ Login \/ Logout

Spec == Init /\ [][Next]_vars

-------------------------------------------------------------------------------
\* Types; among them that the credentials file is never half written (store.go:111-112
\* says so), and that the mutex is held exactly by the call that is past it.
TypeOK ==
  /\ file \in Tokens \cup {NoToken}
  /\ memory \in [Sources -> Tokens \cup {NoToken}]
  /\ sent \in [Calls -> Tokens \cup {NoToken}]
  /\ pc \in [Calls -> Pcs]
  /\ latest \in [Grants -> 0..MaxUses] /\ made \in 0..MaxGrants
  /\ spent \in [Sources -> SUBSET Tokens] /\ lost \subseteq Grants
  /\ failed \subseteq Sources
  /\ mu \in [Sources -> Calls \cup {NoCall}]
  /\ \A c \in Calls : (mu[SourceOf[c]] = c) <=> (pc[c] \notin {"idle", "waiting"})

\* A process never presents a refresh token whose answer it has had, however its
\* calls overlap: an issuer that rotates tokens may take that for theft.
SpendsOnce ==
  \A c \in Calls : pc[c] = "asking" => sent[c] \notin spent[SourceOf[c]]

\* The file keeps up with the issuer: unless an answer, a save or a process was lost,
\* the token in it is the one that works, or a call is about to put that one there.
\* Two processes that refresh the same grant do not set it back.
FileKeepsUp ==
  file # NoToken /\ latest[file.grant] # 0 /\ file.grant \notin lost =>
    \/ Accepts(file)
    \/ \E c \in Calls : /\ pc[c] \in {"save", "rename"}
                        /\ Accepts(memory[SourceOf[c]])
                        /\ memory[SourceOf[c]].grant = file.grant

\* source.go:21-23: when the refresh fails, invoke `swsrs auth` and retry.  A retry that
\* begins with a token in the file that the issuer accepts uses one that it accepts.
\* (Violated: the source keeps the token it loaded first.)
RetryAfterLogin ==
  [][\A c \in Calls :
       LET s == SourceOf[c] IN
       Lock(c) /\ s \in failed /\ Accepts(file) /\ memory[s] # NoToken
         => Accepts(memory[s])]_vars

===============================================================================
