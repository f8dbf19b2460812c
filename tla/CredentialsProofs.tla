--------------------------- MODULE CredentialsProofs --------------------------
(***************************************************************************)
(* The login of the SDK, proved for any processes, calls, logins and       *)
(* lengths of a grant.  The heart of it is who may know the token that the *)
(* issuer accepts: until a refreshed token has reached the file, the       *)
(* process that refreshed it is the only one that does.                    *)
(***************************************************************************)
EXTENDS Credentials, TLAPS

Known == {file} \union {memory[s] : s \in Sources}

\* Tokens are of grants that were made, and none is ahead of the issuer.
NoneAhead ==
  \A t \in Known \ {NoToken} :
    t.grant <= made /\ (latest[t.grant] # 0 => t.n <= latest[t.grant])

\* A call works with the token in its source's memory, if there is one.
AtWork ==
  \A c \in Calls :
    LET t == memory[SourceOf[c]] IN
    /\ pc[c] = "load" => t = NoToken
    /\ pc[c] \in {"token", "asking", "save", "rename"} => t # NoToken
    /\ pc[c] = "asking" => sent[c] = t

\* What a source has used comes before what it has.
SpentBefore ==
  \A s \in Sources : \A t \in spent[s] :
    memory[s] # NoToken /\ t.grant = memory[s].grant /\ t.n < memory[s].n

\* Nobody else knows the token that works before it is saved.
OnlyTheSaver ==
  \A c \in Calls :
    LET s == SourceOf[c]
        g == memory[s].grant
    IN  pc[c] \in {"save", "rename"} /\ latest[g] # 0 /\ g \notin lost =>
          /\ Accepts(memory[s])
          /\ ~Accepts(file) \/ file.grant # g
          /\ \A x \in Sources \ {s} : ~Accepts(memory[x]) \/ memory[x].grant # g

IInv ==
  /\ TypeOK
  /\ NoneAhead
  /\ AtWork
  /\ SpentBefore
  /\ OnlyTheSaver
  /\ SpendsOnce
  /\ FileKeepsUp

-------------------------------------------------------------------------------
Mutex == \A c \in Calls : (mu[SourceOf[c]] = c) <=> (pc[c] \notin {"idle", "waiting"})

\* The types, one by one, with what they say of the mutex.
LEMMA TypeFacts ==
  ASSUME TypeOK
  PROVE  /\ file \in Tokens \union {NoToken} /\ memory \in [Sources -> Tokens \union {NoToken}]
         /\ sent \in [Calls -> Tokens \union {NoToken}] /\ pc \in [Calls -> Pcs]
         /\ latest \in [Grants -> 0..MaxUses] /\ made \in 0..MaxGrants
         /\ spent \in [Sources -> SUBSET Tokens] /\ lost \subseteq Grants /\ failed \subseteq Sources
         /\ mu \in [Sources -> Calls \union {NoCall}]
         /\ Mutex
BY DEF TypeOK, Mutex

\* What the assumptions say of the constants.
LEMMA Constants ==
  /\ SourceOf \in [Calls -> Sources] /\ NoCall \notin Calls
  /\ MaxGrants \in Nat /\ MaxUses \in Nat /\ 1 \in 1..MaxUses
  /\ \A t \in Tokens : /\ t # NoToken /\ t.grant \in Grants /\ t.grant \in Nat
                       /\ t.n \in 1..MaxUses /\ t.n \in Nat /\ t.n # 0
<1>1. \A t \in Tokens : t.grant \in Grants /\ t.n \in 1..MaxUses
  BY DEF Tokens
<1>2. \A t \in Tokens : t # NoToken
  BY NoTokenAssumption
<1> QED
  BY <1>1, <1>2, CredentialsAssumption DEF Grants

\* Two calls of one source that hold its mutex are one.
LEMMA OneAtWork ==
  ASSUME Mutex, NEW c \in Calls, NEW d \in Calls, SourceOf[c] = SourceOf[d],
         pc[c] \notin {"idle", "waiting"}, pc[d] \notin {"idle", "waiting"}
  PROVE  c = d
BY DEF Mutex

\* A call goes on, or returns.
LEMMA GoesOn ==
  ASSUME TypeOK, NEW c \in Calls, NEW next \in Pcs \ {"idle", "waiting"}, To(c, next),
         pc[c] \notin {"idle", "waiting"}, mu' = mu
  PROVE  /\ pc' \in [Calls -> Pcs] /\ mu' \in [Sources -> Calls \union {NoCall}] /\ Mutex'
         /\ pc'[c] = next /\ \A d \in Calls \ {c} : pc'[d] = pc[d]
<1>1. pc' \in [Calls -> Pcs] /\ pc'[c] = next /\ \A d \in Calls \ {c} : pc'[d] = pc[d]
  BY TypeFacts DEF To
<1>2. Mutex'
  BY <1>1, TypeFacts DEF Mutex
<1> QED
  BY <1>1, <1>2, TypeFacts

\* A call that returns lets go of the mutex, and the others go on.
LEMMA Returns ==
  ASSUME TypeOK, NEW c \in Calls, Return(c), pc[c] \notin {"idle", "waiting"}
  PROVE  /\ pc' \in [Calls -> Pcs] /\ mu' \in [Sources -> Calls \union {NoCall}]
         /\ sent' \in [Calls -> Tokens \union {NoToken}] /\ Mutex'
         /\ pc'[c] = "idle" /\ \A d \in Calls \ {c} : pc'[d] = pc[d] /\ sent'[d] = sent[d]
<1>1. /\ pc' \in [Calls -> Pcs] /\ mu' \in [Sources -> Calls \union {NoCall}]
      /\ sent' \in [Calls -> Tokens \union {NoToken}]
      /\ pc'[c] = "idle" /\ \A d \in Calls \ {c} : pc'[d] = pc[d] /\ sent'[d] = sent[d]
      /\ mu'[SourceOf[c]] = NoCall
      /\ \A s \in Sources \ {SourceOf[c]} : mu'[s] = mu[s]
  BY TypeFacts, Constants DEF Return, To, Pcs
<1>2. Mutex'
  <2> SUFFICES ASSUME NEW d \in Calls
               PROVE  (mu'[SourceOf[d]] = d) <=> (pc'[d] \notin {"idle", "waiting"})
    BY DEF Mutex
  <2>1. CASE SourceOf[d] # SourceOf[c]
    BY <1>1, <2>1, TypeFacts, Constants DEF Mutex
  <2>2. CASE SourceOf[d] = SourceOf[c]
    BY <1>1, <2>2, TypeFacts, Constants, OneAtWork
  <2> QED
    BY <2>1, <2>2
<1> QED
  BY <1>1, <1>2

LEMMA InitIInv == Init => IInv
<1> SUFFICES ASSUME Init PROVE IInv
  OBVIOUS
<1>1. TypeOK
  BY Constants DEF Init, TypeOK, Pcs
<1> QED
  BY <1>1 DEF Init, IInv, NoneAhead, Known, AtWork, SpentBefore, OnlyTheSaver, SpendsOnce, FileKeepsUp

\* Everything but the calls stays, and none begins to save; what is no longer being
\* saved is lost.
LEMMA OnlyCallsMove ==
  ASSUME IInv, TypeOK', AtWork', UNCHANGED <<file, memory, latest, made, spent>>,
         lost \subseteq lost',
         \A c \in Calls : /\ pc'[c] \in {"save", "rename"} => pc[c] \in {"save", "rename"}
                          /\ pc[c] \in {"save", "rename"} =>
                               pc'[c] \in {"save", "rename"} \/ memory[SourceOf[c]].grant \in lost'
  PROVE  IInv'
<1>1. NoneAhead' /\ SpentBefore'
  BY DEF IInv, NoneAhead, Known, SpentBefore
<1>2. OnlyTheSaver'
  BY DEF IInv, OnlyTheSaver, Accepts
<1>3. SpendsOnce'
  <2> SUFFICES ASSUME NEW c \in Calls, pc'[c] = "asking" PROVE sent'[c] \notin spent'[SourceOf[c]]
    BY DEF SpendsOnce
  <2>1. sent'[c] = memory[SourceOf[c]] /\ SourceOf[c] \in Sources
    BY Constants DEF AtWork
  <2>2. \A t \in spent[SourceOf[c]] : t.n < memory[SourceOf[c]].n /\ t.n \in Nat
    BY <2>1, TypeFacts, Constants DEF IInv, SpentBefore
  <2> QED
    BY <2>1, <2>2
<1>4. FileKeepsUp'
  BY DEF IInv, FileKeepsUp, Accepts
<1> QED
  BY <1>1, <1>2, <1>3, <1>4 DEF IInv

LEMMA BeginIInv ==
  ASSUME IInv, NEW c \in Calls, Begin(c)
  PROVE  IInv'
<1>1. /\ TypeOK /\ UNCHANGED <<file, memory, mu, sent, latest, made, spent, lost, failed>>
      /\ pc[c] = "idle" /\ pc' = [pc EXCEPT ![c] = "waiting"]
  BY DEF IInv, Begin, To, issuer, history
<1>2. pc' \in [Calls -> Pcs] /\ pc'[c] = "waiting" /\ \A d \in Calls \ {c} : pc'[d] = pc[d]
  BY <1>1, TypeFacts DEF Pcs
<1>3. Mutex'
  BY <1>1, <1>2, TypeFacts DEF Mutex
<1>4. TypeOK'
  BY <1>1, <1>2, <1>3, TypeFacts DEF TypeOK, Mutex
<1>5. AtWork'
  BY <1>1, <1>2 DEF IInv, AtWork
<1> QED
  BY <1>1, <1>2, <1>4, <1>5, OnlyCallsMove

LEMMA LockIInv ==
  ASSUME IInv, NEW c \in Calls, Lock(c)
  PROVE  IInv'
<1> DEFINE next == IF memory[SourceOf[c]] = NoToken THEN "load" ELSE "token"
<1>1. /\ TypeOK /\ UNCHANGED <<file, memory, sent, latest, made, spent, lost, failed>>
      /\ pc[c] = "waiting" /\ mu[SourceOf[c]] = NoCall
      /\ pc' = [pc EXCEPT ![c] = next] /\ mu' = [mu EXCEPT ![SourceOf[c]] = c]
  BY DEF IInv, Lock, To, issuer, history
<1>2. pc' \in [Calls -> Pcs] /\ pc'[c] = next /\ \A d \in Calls \ {c} : pc'[d] = pc[d]
  BY <1>1, TypeFacts DEF Pcs
<1>3. /\ mu' \in [Sources -> Calls \union {NoCall}] /\ mu'[SourceOf[c]] = c
      /\ \A s \in Sources \ {SourceOf[c]} : mu'[s] = mu[s]
  BY <1>1, TypeFacts, Constants
<1>4. Mutex'
  <2> SUFFICES ASSUME NEW d \in Calls
               PROVE  (mu'[SourceOf[d]] = d) <=> (pc'[d] \notin {"idle", "waiting"})
    BY DEF Mutex
  <2>1. (mu[SourceOf[d]] = d) <=> (pc[d] \notin {"idle", "waiting"})
    BY <1>1, TypeFacts DEF Mutex
  <2> QED
    BY <1>1, <1>2, <1>3, <2>1, Constants
<1>5. TypeOK'
  BY <1>1, <1>2, <1>3, <1>4, TypeFacts DEF TypeOK, Mutex
<1>6. AtWork'
  BY <1>1, <1>2 DEF IInv, AtWork
<1> QED
  BY <1>1, <1>2, <1>5, <1>6, OnlyCallsMove

LEMMA AskIInv ==
  ASSUME IInv, NEW c \in Calls, Ask(c)
  PROVE  IInv'
<1>1. /\ TypeOK /\ UNCHANGED <<file, memory, mu, latest, made, spent, lost, failed>>
      /\ pc[c] = "token" /\ To(c, "asking") /\ sent' = [sent EXCEPT ![c] = memory[SourceOf[c]]]
  BY DEF IInv, Ask, issuer, history
<1>2. /\ pc' \in [Calls -> Pcs] /\ Mutex'
      /\ pc'[c] = "asking" /\ \A d \in Calls \ {c} : pc'[d] = pc[d]
  BY <1>1, GoesOn DEF Pcs
<1>3. /\ sent' \in [Calls -> Tokens \union {NoToken}] /\ sent'[c] = memory[SourceOf[c]]
      /\ \A d \in Calls \ {c} : sent'[d] = sent[d]
  BY <1>1, TypeFacts, Constants
<1>4. TypeOK'
  BY <1>1, <1>2, <1>3, TypeFacts DEF TypeOK, Mutex
<1>5. AtWork'
  BY <1>1, <1>2, <1>3 DEF IInv, AtWork
<1> QED
  BY <1>1, <1>2, <1>4, <1>5, OnlyCallsMove

LEMMA WriteTempIInv ==
  ASSUME IInv, NEW c \in Calls, WriteTemp(c)
  PROVE  IInv'
<1>1. /\ TypeOK /\ UNCHANGED <<file, memory, mu, sent, latest, made, spent, lost, failed>>
      /\ pc[c] = "save" /\ To(c, "rename")
  BY DEF IInv, WriteTemp, issuer, history
<1>2. /\ pc' \in [Calls -> Pcs] /\ Mutex'
      /\ pc'[c] = "rename" /\ \A d \in Calls \ {c} : pc'[d] = pc[d]
  BY <1>1, GoesOn DEF Pcs
<1>3. TypeOK'
  BY <1>1, <1>2, TypeFacts DEF TypeOK, Mutex
<1>4. AtWork'
  BY <1>1, <1>2 DEF IInv, AtWork
<1> QED
  BY <1>1, <1>2, <1>3, <1>4, OnlyCallsMove

\* A call returns, and leaves the file, the memory and the issuer as they are.
LEMMA ReturnIInv ==
  ASSUME IInv, NEW c \in Calls, LoadFails(c) \/ UseCached(c) \/ Refused(c) \/ SaveFails(c)
  PROVE  IInv'
<1>1. /\ TypeOK /\ UNCHANGED <<file, memory, latest, made, spent>> /\ Return(c)
      /\ pc[c] \in Pcs \ {"idle", "waiting"} /\ failed' \subseteq failed \union {SourceOf[c]}
  BY DEF IInv, LoadFails, UseCached, Refused, SaveFails, Fail, Succeed, issuer, Pcs
<1>2. /\ lost \subseteq lost' /\ lost' \subseteq Grants
      /\ pc[c] \in {"save", "rename"} => memory[SourceOf[c]].grant \in lost'
  <2>1. pc[c] \in {"save", "rename"} => memory[SourceOf[c]].grant \in Grants
    BY <1>1, TypeFacts, Constants DEF IInv, AtWork
  <2> QED
    BY <1>1, <2>1, TypeFacts DEF LoadFails, UseCached, Refused, SaveFails
<1>3. /\ pc' \in [Calls -> Pcs] /\ mu' \in [Sources -> Calls \union {NoCall}]
      /\ sent' \in [Calls -> Tokens \union {NoToken}] /\ Mutex'
      /\ pc'[c] = "idle" /\ \A d \in Calls \ {c} : pc'[d] = pc[d] /\ sent'[d] = sent[d]
  BY <1>1, Returns
<1>4. TypeOK'
  BY <1>1, <1>2, <1>3, TypeFacts, Constants DEF TypeOK, Mutex
<1>5. AtWork'
  BY <1>1, <1>3 DEF IInv, AtWork
<1> QED
  BY <1>1, <1>2, <1>3, <1>4, <1>5, OnlyCallsMove

\* The type and the work of the calls follow; the rest of a step is shown by its lemma.
LEMMA SpendsOnceFollows == TypeOK /\ AtWork /\ SpentBefore => SpendsOnce
<1> SUFFICES ASSUME TypeOK, AtWork, SpentBefore, NEW c \in Calls, pc[c] = "asking"
             PROVE  sent[c] \notin spent[SourceOf[c]]
  BY DEF SpendsOnce
<1>1. sent[c] = memory[SourceOf[c]] /\ SourceOf[c] \in Sources
  BY Constants DEF AtWork
<1>2. \A t \in spent[SourceOf[c]] : t.n < memory[SourceOf[c]].n /\ t.n \in Nat
  BY <1>1, TypeFacts, Constants DEF SpentBefore
<1> QED
  BY <1>1, <1>2

LEMMA LoadIInv ==
  ASSUME IInv, NEW c \in Calls, Load(c)
  PROVE  IInv'
<1> DEFINE s == SourceOf[c]
<1>1. /\ TypeOK /\ UNCHANGED <<file, mu, sent, latest, made, spent, lost, failed>>
      /\ pc[c] = "load" /\ To(c, "token") /\ file # NoToken
      /\ memory' = [memory EXCEPT ![s] = file]
  BY DEF IInv, Load, issuer, history
<1>2. /\ pc' \in [Calls -> Pcs] /\ Mutex'
      /\ pc'[c] = "token" /\ \A d \in Calls \ {c} : pc'[d] = pc[d]
  BY <1>1, GoesOn DEF Pcs
<1>3. /\ s \in Sources /\ memory' \in [Sources -> Tokens \union {NoToken}] /\ memory'[s] = file
      /\ \A x \in Sources \ {s} : memory'[x] = memory[x]
  BY <1>1, TypeFacts, Constants
<1>4. memory[s] = NoToken
  BY <1>1 DEF IInv, AtWork
<1>5. \A d \in Calls \ {c} : SourceOf[d] = s => pc[d] \in {"idle", "waiting"}
  BY <1>1, OneAtWork, TypeFacts
<1>6. TypeOK'
  BY <1>1, <1>2, <1>3, TypeFacts DEF TypeOK, Mutex
<1>7. NoneAhead'
  BY <1>1, <1>3 DEF IInv, NoneAhead, Known
<1>8. AtWork'
  BY <1>1, <1>2, <1>3, <1>5, Constants DEF IInv, AtWork
<1>9. SpentBefore'
  BY <1>1, <1>3, <1>4 DEF IInv, SpentBefore
<1>10. \A d \in Calls : pc'[d] \in {"save", "rename"} =>
          SourceOf[d] # s /\ SourceOf[d] \in Sources /\ pc[d] \in {"save", "rename"}
  BY <1>2, <1>5, Constants
<1>11. OnlyTheSaver'
  BY <1>1, <1>3, <1>10 DEF IInv, OnlyTheSaver, Accepts
<1>12. FileKeepsUp'
  <2>1. \A d \in Calls : pc[d] \in {"save", "rename"} =>
          SourceOf[d] # s /\ SourceOf[d] \in Sources /\ pc'[d] \in {"save", "rename"}
    BY <1>1, <1>2, <1>5, Constants
  <2> QED
    BY <1>1, <1>3, <2>1 DEF IInv, FileKeepsUp, Accepts
<1> QED
  BY <1>6, <1>7, <1>8, <1>9, <1>11, <1>12, SpendsOnceFollows, PTL DEF IInv

\* The issuer has rotated a token: its next is the one that works.
LEMMA Rotated ==
  ASSUME TypeOK, NEW t \in Tokens, Rotate(t), CanRotate(t)
  PROVE  /\ latest[t.grant] = t.n /\ latest'[t.grant] = t.n + 1 /\ t.n + 1 \in 1..MaxUses
         /\ latest' \in [Grants -> 0..MaxUses] /\ made' = made
         /\ \A g \in Grants \ {t.grant} : latest'[g] = latest[g]
<1>1. latest[t.grant] = t.n /\ t.n < MaxUses /\ latest' = [latest EXCEPT ![t.grant] = latest[t.grant] + 1]
  BY DEF Rotate, CanRotate, Accepts
<1>2. t.grant \in Grants /\ t.n \in 1..MaxUses /\ MaxUses \in Nat
  BY Constants
<1>3. t.n + 1 \in 1..MaxUses /\ t.n + 1 \in 0..MaxUses
  BY <1>1, <1>2
<1> QED
  BY <1>1, <1>2, <1>3, TypeFacts DEF Rotate

\* What the issuer knows of the tokens in the file and in memory.
LEMMA KnownFacts ==
  ASSUME TypeOK, NoneAhead
  PROVE  /\ file # NoToken => file \in Tokens /\ file.grant <= made /\
                               (latest[file.grant] # 0 => file.n <= latest[file.grant])
         /\ \A x \in Sources : memory[x] # NoToken =>
              memory[x] \in Tokens /\ memory[x].grant <= made /\
              (latest[memory[x].grant] # 0 => memory[x].n <= latest[memory[x].grant])
<1>1. file \in Known /\ \A x \in Sources : memory[x] \in Known
  BY DEF Known
<1> QED
  BY <1>1, TypeFacts DEF NoneAhead

LEMMA RefreshedIInv ==
  ASSUME IInv, NEW c \in Calls, Refreshed(c)
  PROVE  IInv'
<1> DEFINE s == SourceOf[c]
           t == memory[s]
           u == [t EXCEPT !.n = t.n + 1]
<1>1. /\ TypeOK /\ UNCHANGED <<file, mu, sent, lost, failed>> /\ pc[c] = "asking"
      /\ sent[c] = t /\ t # NoToken /\ s \in Sources /\ t \in Tokens
  BY TypeFacts, Constants DEF IInv, AtWork, Refreshed
<1>2. /\ CanRotate(t) /\ Rotate(t) /\ To(c, "save")
      /\ memory' = [memory EXCEPT ![s] = u]
      /\ spent' = [spent EXCEPT ![s] = spent[s] \union {t}]
  BY <1>1 DEF Refreshed
<1>3. /\ latest[t.grant] = t.n /\ latest'[t.grant] = t.n + 1 /\ t.n + 1 \in 1..MaxUses
      /\ latest' \in [Grants -> 0..MaxUses] /\ made' = made
      /\ \A g \in Grants \ {t.grant} : latest'[g] = latest[g]
  BY <1>1, <1>2, Rotated
<1>4. u \in Tokens /\ u # NoToken /\ u.grant = t.grant /\ u.n = t.n + 1 /\ t.n \in Nat /\ t.n # 0
      /\ t.grant \in Grants /\ t.grant \in Nat
  <2>1. u \in Tokens /\ u.grant = t.grant /\ u.n = t.n + 1
    BY <1>1, <1>3 DEF Tokens
  <2> QED
    BY <1>1, <2>1, Constants
<1> HIDE DEF u
<1>5. /\ pc' \in [Calls -> Pcs] /\ Mutex'
      /\ pc'[c] = "save" /\ \A d \in Calls \ {c} : pc'[d] = pc[d]
  BY <1>1, <1>2, GoesOn DEF Pcs
<1>6. /\ memory' \in [Sources -> Tokens \union {NoToken}] /\ memory'[s] = u
      /\ \A x \in Sources \ {s} : memory'[x] = memory[x]
  BY <1>1, <1>2, <1>4, TypeFacts
<1>7. /\ spent' \in [Sources -> SUBSET Tokens] /\ spent'[s] = spent[s] \union {t}
      /\ \A x \in Sources \ {s} : spent'[x] = spent[x]
  BY <1>1, <1>2, TypeFacts
<1>8. \A d \in Calls \ {c} : SourceOf[d] = s => pc[d] \in {"idle", "waiting"}
  BY <1>1, OneAtWork, TypeFacts
<1>9. TypeOK'
  BY <1>1, <1>3, <1>5, <1>6, <1>7, TypeFacts DEF TypeOK, Mutex
<1>10. NoneAhead'
  <2> SUFFICES ASSUME NEW k \in Known', k # NoToken
               PROVE  k.grant <= made' /\ (latest'[k.grant] # 0 => k.n <= latest'[k.grant])
    BY DEF NoneAhead
  <2>1. t.grant <= made
    BY <1>1, KnownFacts DEF IInv
  <2>2. CASE k = u
    BY <1>3, <1>4, <2>1, <2>2
  <2>3. CASE k # u
    <3>1. k \in Known /\ k \in Tokens
      BY <1>1, <1>6, <2>3, TypeFacts DEF Known
    <3>2. k.grant <= made /\ (latest[k.grant] # 0 => k.n <= latest[k.grant])
      BY <3>1 DEF IInv, NoneAhead
    <3>3. k.grant \in Grants /\ k.n \in Nat
      BY <3>1, Constants
    <3> QED
      BY <1>3, <1>4, <3>2, <3>3
  <2> QED
    BY <2>2, <2>3
<1>11. AtWork'
  BY <1>1, <1>4, <1>5, <1>6, <1>8, Constants DEF IInv, AtWork
<1>12. SpentBefore'
  <2> SUFFICES ASSUME NEW x \in Sources, NEW k \in spent'[x]
               PROVE  memory'[x] # NoToken /\ k.grant = memory'[x].grant /\ k.n < memory'[x].n
    BY DEF SpentBefore
  <2>1. CASE x # s
    BY <1>6, <1>7, <2>1 DEF IInv, SpentBefore
  <2>2. CASE x = s /\ k = t
    BY <1>4, <1>6, <2>2
  <2>3. CASE x = s /\ k # t
    <3>1. k \in spent[s] /\ k \in Tokens
      BY <1>1, <1>7, <2>3, TypeFacts
    <3>2. k.grant = t.grant /\ k.n < t.n /\ k.n \in Nat
      BY <1>1, <3>1, Constants DEF IInv, SpentBefore
    <3> QED
      BY <1>4, <1>6, <2>3, <3>2
  <2> QED
    BY <2>1, <2>2, <2>3
<1>13. \A x \in Sources : memory[x] # NoToken /\ memory[x].grant = t.grant => memory[x].n # t.n + 1
  <2>1. \A x \in Sources : memory[x] # NoToken /\ memory[x].grant = t.grant =>
           memory[x].n \in Nat /\ memory[x].n <= t.n
    BY <1>1, <1>3, <1>4, KnownFacts, Constants DEF IInv
  <2> QED
    BY <1>4, <2>1
<1>14. file # NoToken /\ file.grant = t.grant => file.n # t.n + 1
  <2>1. file # NoToken /\ file.grant = t.grant => file.n \in Nat /\ file.n <= t.n
    BY <1>1, <1>3, <1>4, KnownFacts, Constants DEF IInv
  <2> QED
    BY <1>4, <2>1
<1>15. OnlyTheSaver'
  <2> SUFFICES ASSUME NEW d \in Calls, pc'[d] \in {"save", "rename"},
                      latest'[memory'[SourceOf[d]].grant] # 0,
                      memory'[SourceOf[d]].grant \notin lost'
               PROVE  /\ Accepts(memory[SourceOf[d]])'
                      /\ ~Accepts(file)' \/ file'.grant # memory'[SourceOf[d]].grant
                      /\ \A x \in Sources \ {SourceOf[d]} :
                           ~Accepts(memory[x])' \/ memory'[x].grant # memory'[SourceOf[d]].grant
    BY DEF OnlyTheSaver
  <2>1. CASE d = c
    BY <1>1, <1>3, <1>4, <1>6, <1>13, <1>14, <2>1 DEF Accepts
  <2>2. CASE d # c
    <3> DEFINE y == SourceOf[d]
    <3>1. y # s /\ y \in Sources /\ pc[d] \in {"save", "rename"} /\ memory'[y] = memory[y]
      BY <1>5, <1>6, <1>8, <2>2, Constants
    <3>2. memory[y] \in Tokens
      BY <1>1, <3>1, TypeFacts DEF IInv, AtWork
    <3>3. memory[y].grant # t.grant
      BY <1>1, <1>2, <1>3, <1>4, <3>1 DEF IInv, OnlyTheSaver, Accepts
    <3>4. latest'[memory[y].grant] = latest[memory[y].grant]
      BY <1>3, <3>2, <3>3, Constants
    <3>5. /\ Accepts(memory[y])
          /\ ~Accepts(file) \/ file.grant # memory[y].grant
          /\ \A x \in Sources \ {y} : ~Accepts(memory[x]) \/ memory[x].grant # memory[y].grant
      BY <1>1, <3>1, <3>4 DEF IInv, OnlyTheSaver
    <3> QED
      BY <1>1, <1>4, <1>6, <3>1, <3>3, <3>4, <3>5 DEF Accepts
  <2> QED
    BY <2>1, <2>2
<1>16. FileKeepsUp'
  <2> SUFFICES ASSUME file # NoToken, latest'[file.grant] # 0, file.grant \notin lost
               PROVE  \/ Accepts(file)'
                      \/ \E d \in Calls : /\ pc'[d] \in {"save", "rename"}
                                          /\ Accepts(memory[SourceOf[d]])'
                                          /\ memory'[SourceOf[d]].grant = file.grant
    BY <1>1 DEF FileKeepsUp
  <2>1. CASE file.grant = t.grant
    BY <1>3, <1>4, <1>5, <1>6, <2>1 DEF Accepts
  <2>2. CASE file.grant # t.grant
    <3>1. latest'[file.grant] = latest[file.grant]
      BY <1>1, <1>3, <2>2, TypeFacts, Constants
    <3>2. CASE Accepts(file)
      BY <1>1, <3>1, <3>2 DEF Accepts
    <3>3. ASSUME NEW d \in Calls, pc[d] \in {"save", "rename"}, Accepts(memory[SourceOf[d]]),
                 memory[SourceOf[d]].grant = file.grant
          PROVE  /\ pc'[d] \in {"save", "rename"} /\ Accepts(memory[SourceOf[d]])'
                 /\ memory'[SourceOf[d]].grant = file.grant
      <4>1. d # c /\ SourceOf[d] # s /\ SourceOf[d] \in Sources
        BY <1>1, <1>8, <3>3, Constants
      <4> QED
        BY <1>5, <1>6, <3>1, <3>3, <4>1 DEF Accepts
    <3> QED
      BY <3>1, <3>2, <3>3 DEF IInv, FileKeepsUp
  <2> QED
    BY <2>1, <2>2
<1> QED
  BY <1>9, <1>10, <1>11, <1>12, <1>15, <1>16, SpendsOnceFollows, PTL DEF IInv

LEMMA AnswerLostIInv ==
  ASSUME IInv, NEW c \in Calls, AnswerLost(c)
  PROVE  IInv'
<1> DEFINE s == SourceOf[c]
           t == memory[s]
<1>1. /\ TypeOK /\ UNCHANGED <<file, memory, spent>> /\ pc[c] = "asking" /\ Return(c)
      /\ failed' = failed \union {s}
      /\ sent[c] = t /\ t # NoToken /\ s \in Sources /\ t \in Tokens
  BY TypeFacts, Constants DEF IInv, AtWork, AnswerLost, Fail
<1>2. CanRotate(t) /\ Rotate(t) /\ lost' = lost \union {t.grant} /\ t.grant \in Grants
  BY <1>1, Constants DEF AnswerLost
<1>3. /\ latest[t.grant] = t.n /\ latest'[t.grant] = t.n + 1
      /\ latest' \in [Grants -> 0..MaxUses] /\ made' = made
      /\ \A g \in Grants \ {t.grant} : latest'[g] = latest[g]
  BY <1>1, <1>2, Rotated
<1>4. /\ pc' \in [Calls -> Pcs] /\ mu' \in [Sources -> Calls \union {NoCall}]
      /\ sent' \in [Calls -> Tokens \union {NoToken}] /\ Mutex'
      /\ pc'[c] = "idle" /\ \A d \in Calls \ {c} : pc'[d] = pc[d] /\ sent'[d] = sent[d]
  BY <1>1, Returns
<1>5. TypeOK'
  BY <1>1, <1>2, <1>3, <1>4, TypeFacts DEF TypeOK, Mutex
<1>6. NoneAhead'
  <2> SUFFICES ASSUME NEW k \in Known', k # NoToken
               PROVE  k.grant <= made' /\ (latest'[k.grant] # 0 => k.n <= latest'[k.grant])
    BY DEF NoneAhead
  <2>1. k \in Known /\ k \in Tokens
    BY <1>1, TypeFacts DEF Known
  <2>2. k.grant <= made /\ (latest[k.grant] # 0 => k.n <= latest[k.grant])
    BY <2>1 DEF IInv, NoneAhead
  <2>3. k.grant \in Grants /\ k.n \in Nat /\ t.n \in Nat /\ t.n # 0
    BY <1>1, <2>1, Constants
  <2> QED
    BY <1>3, <2>2, <2>3
<1>7. AtWork' /\ SpentBefore'
  BY <1>1, <1>4 DEF IInv, AtWork, SpentBefore
<1>8. \A g \in Grants \ lost' : latest'[g] = latest[g] /\ g \notin lost
  BY <1>2, <1>3
<1>9. OnlyTheSaver'
  <2> SUFFICES ASSUME NEW d \in Calls, pc'[d] \in {"save", "rename"},
                      latest'[memory[SourceOf[d]].grant] # 0,
                      memory[SourceOf[d]].grant \notin lost'
               PROVE  /\ Accepts(memory[SourceOf[d]])'
                      /\ ~Accepts(file)' \/ file.grant # memory[SourceOf[d]].grant
                      /\ \A x \in Sources \ {SourceOf[d]} :
                           ~Accepts(memory[x])' \/ memory[x].grant # memory[SourceOf[d]].grant
    BY <1>1 DEF OnlyTheSaver
  <2>1. pc[d] \in {"save", "rename"} /\ SourceOf[d] \in Sources
    BY <1>4, Constants
  <2>2. memory[SourceOf[d]].grant \in Grants
    BY <1>1, <2>1, TypeFacts, Constants DEF IInv, AtWork
  <2> QED
    BY <1>1, <1>8, <2>1, <2>2 DEF IInv, OnlyTheSaver, Accepts
<1>10. FileKeepsUp'
  <2>1. file # NoToken => file.grant \in Grants
    BY <1>1, TypeFacts, Constants
  <2>2. \A d \in Calls : pc[d] \in {"save", "rename"} => pc'[d] \in {"save", "rename"}
    BY <1>1, <1>4
  <2> QED
    BY <1>1, <1>8, <2>1, <2>2 DEF IInv, FileKeepsUp, Accepts
<1> QED
  BY <1>5, <1>6, <1>7, <1>9, <1>10, SpendsOnceFollows, PTL DEF IInv

LEMMA RenameIInv ==
  ASSUME IInv, NEW c \in Calls, Rename(c)
  PROVE  IInv'
<1> DEFINE s == SourceOf[c]
           t == memory[s]
<1>1. /\ TypeOK /\ UNCHANGED <<memory, latest, made, spent, lost>> /\ pc[c] = "rename" /\ Return(c)
      /\ failed' \subseteq failed /\ file' = t /\ t # NoToken /\ s \in Sources /\ t \in Tokens
  BY TypeFacts, Constants DEF IInv, AtWork, Rename, Succeed, issuer
<1>2. /\ pc' \in [Calls -> Pcs] /\ mu' \in [Sources -> Calls \union {NoCall}]
      /\ sent' \in [Calls -> Tokens \union {NoToken}] /\ Mutex'
      /\ pc'[c] = "idle" /\ \A d \in Calls \ {c} : pc'[d] = pc[d] /\ sent'[d] = sent[d]
  BY <1>1, Returns
<1>3. \A d \in Calls \ {c} : SourceOf[d] = s => pc[d] \in {"idle", "waiting"}
  BY <1>1, OneAtWork, TypeFacts
<1>4. TypeOK'
  BY <1>1, <1>2, TypeFacts DEF TypeOK, Mutex
<1>5. NoneAhead'
  BY <1>1 DEF IInv, NoneAhead, Known
<1>6. AtWork' /\ SpentBefore'
  BY <1>1, <1>2 DEF IInv, AtWork, SpentBefore
<1>7. OnlyTheSaver'
  BY <1>1, <1>2, <1>3, Constants DEF IInv, OnlyTheSaver, Accepts
<1>8. FileKeepsUp'
  BY <1>1 DEF IInv, OnlyTheSaver, FileKeepsUp, Accepts
<1> QED
  BY <1>4, <1>5, <1>6, <1>7, <1>8, SpendsOnceFollows, PTL DEF IInv

LEMMA CrashIInv ==
  ASSUME IInv, NEW s \in Sources, Crash(s)
  PROVE  IInv'
<1> DEFINE mine == {c \in Calls : SourceOf[c] = s}
           cut == {c \in mine : pc[c] \in {"asking", "save", "rename"}}
<1>1. /\ TypeOK /\ UNCHANGED <<file, latest, made>> /\ failed' = failed \ {s}
      /\ pc' = [c \in Calls |-> IF c \in mine THEN "idle" ELSE pc[c]]
      /\ sent' = [c \in Calls |-> IF c \in mine THEN NoToken ELSE sent[c]]
      /\ mu' = [mu EXCEPT ![s] = NoCall] /\ memory' = [memory EXCEPT ![s] = NoToken]
      /\ spent' = [spent EXCEPT ![s] = {}]
      /\ lost' = lost \union {memory[s].grant : c \in cut}
  BY DEF IInv, Crash, issuer
<1>2. /\ pc' \in [Calls -> Pcs] /\ sent' \in [Calls -> Tokens \union {NoToken}]
      /\ \A c \in Calls : SourceOf[c] = s => pc'[c] = "idle"
      /\ \A c \in Calls : SourceOf[c] # s => pc'[c] = pc[c] /\ sent'[c] = sent[c]
  BY <1>1, TypeFacts DEF Pcs
<1>3. /\ mu' \in [Sources -> Calls \union {NoCall}] /\ mu'[s] = NoCall
      /\ memory' \in [Sources -> Tokens \union {NoToken}] /\ memory'[s] = NoToken
      /\ spent' \in [Sources -> SUBSET Tokens] /\ spent'[s] = {}
      /\ \A x \in Sources \ {s} : mu'[x] = mu[x] /\ memory'[x] = memory[x] /\ spent'[x] = spent[x]
  BY <1>1, TypeFacts
<1>4. /\ lost \subseteq lost' /\ lost' \subseteq Grants
      /\ \A c \in Calls : SourceOf[c] = s /\ pc[c] \in {"save", "rename"} => memory[s].grant \in lost'
  <2>1. \A c \in cut : memory[s].grant \in Grants
    <3> SUFFICES ASSUME NEW c \in cut PROVE memory[s].grant \in Grants
      OBVIOUS
    <3>1. memory[s] # NoToken
      BY DEF IInv, AtWork
    <3> QED
      BY <1>1, <3>1, TypeFacts, Constants
  <2> QED
    BY <1>1, <2>1, TypeFacts
<1>5. Mutex'
  BY <1>1, <1>2, <1>3, TypeFacts, Constants DEF Mutex
<1>6. TypeOK'
  BY <1>1, <1>2, <1>3, <1>4, <1>5, TypeFacts DEF TypeOK, Mutex
<1>7. NoneAhead'
  BY <1>1, <1>3 DEF IInv, NoneAhead, Known
<1>8. AtWork'
  BY <1>2, <1>3, Constants DEF IInv, AtWork
<1>9. SpentBefore'
  BY <1>3 DEF IInv, SpentBefore
<1>10. OnlyTheSaver'
  BY <1>1, <1>2, <1>3, <1>4, Constants DEF IInv, OnlyTheSaver, Accepts
<1>11. FileKeepsUp'
  BY <1>1, <1>2, <1>3, <1>4, Constants DEF IInv, FileKeepsUp, Accepts
<1> QED
  BY <1>6, <1>7, <1>8, <1>9, <1>10, <1>11, SpendsOnceFollows, PTL DEF IInv

\* The token of a new grant is in the file, and no other token is of that grant.
LEMMA LoginIInv ==
  ASSUME IInv, Login
  PROVE  IInv'
<1> DEFINE t == [grant |-> made + 1, n |-> 1]
<1>1. /\ TypeOK /\ UNCHANGED <<memory, mu, pc, sent, spent, lost, failed>>
      /\ made < MaxGrants /\ made' = made + 1 /\ latest' = [latest EXCEPT ![made + 1] = 1]
      /\ file' = t
  BY DEF IInv, Login, DeviceLogin, history
<1>2. made \in Nat /\ made + 1 \in Grants /\ made + 1 \in 0..MaxGrants /\ t \in Tokens /\ t # NoToken
  <2>1. made \in Nat /\ MaxGrants \in Nat
    BY <1>1, TypeFacts, Constants
  <2>2. made + 1 \in Grants /\ made + 1 \in 0..MaxGrants
    BY <1>1, <2>1 DEF Grants
  <2>3. t \in Tokens
    BY <2>2, Constants DEF Tokens
  <2> QED
    BY <2>1, <2>2, <2>3, Constants
<1>3. /\ latest' \in [Grants -> 0..MaxUses] /\ latest'[made + 1] = 1
      /\ \A g \in Grants \ {made + 1} : latest'[g] = latest[g]
  <2>1. 1 \in 0..MaxUses
    BY Constants
  <2> QED
    BY <1>1, <1>2, <2>1, TypeFacts
<1>4. TypeOK'
  BY <1>1, <1>2, <1>3, TypeFacts DEF TypeOK, Mutex
<1>5. \A x \in Sources : memory[x] # NoToken =>
         /\ memory[x].grant <= made /\ memory[x].grant # made + 1
         /\ latest'[memory[x].grant] = latest[memory[x].grant]
         /\ latest[memory[x].grant] # 0 => memory[x].n <= latest[memory[x].grant]
  <2> SUFFICES ASSUME NEW x \in Sources, memory[x] # NoToken
               PROVE  /\ memory[x].grant <= made /\ memory[x].grant # made + 1
                      /\ latest'[memory[x].grant] = latest[memory[x].grant]
                      /\ latest[memory[x].grant] # 0 => memory[x].n <= latest[memory[x].grant]
    OBVIOUS
  <2>1. /\ memory[x] \in Tokens /\ memory[x].grant <= made
        /\ latest[memory[x].grant] # 0 => memory[x].n <= latest[memory[x].grant]
    BY <1>1, KnownFacts DEF IInv
  <2>2. memory[x].grant \in Grants /\ memory[x].grant \in Nat
    BY <2>1, Constants
  <2> QED
    BY <1>2, <1>3, <2>1, <2>2
<1>6. NoneAhead'
  <2> SUFFICES ASSUME NEW k \in Known', k # NoToken
               PROVE  k.grant <= made + 1 /\ (latest'[k.grant] # 0 => k.n <= latest'[k.grant])
    BY <1>1 DEF NoneAhead
  <2>1. CASE k = t
    BY <1>2, <1>3, <2>1
  <2>2. ASSUME NEW x \in Sources, k = memory[x]
        PROVE  k.grant <= made + 1 /\ (latest'[k.grant] # 0 => k.n <= latest'[k.grant])
    <3>1. memory[x].grant \in Nat
      BY <1>1, <2>2, TypeFacts, Constants
    <3> QED
      BY <1>2, <1>5, <2>2, <3>1
  <2> QED
    BY <1>1, <2>1, <2>2 DEF Known
<1>7. AtWork' /\ SpentBefore'
  BY <1>1 DEF IInv, AtWork, SpentBefore
<1>8. OnlyTheSaver'
  <2> SUFFICES ASSUME NEW d \in Calls, pc[d] \in {"save", "rename"},
                      latest'[memory[SourceOf[d]].grant] # 0, memory[SourceOf[d]].grant \notin lost
               PROVE  /\ Accepts(memory[SourceOf[d]])'
                      /\ file'.grant # memory[SourceOf[d]].grant
                      /\ \A x \in Sources \ {SourceOf[d]} :
                           ~Accepts(memory[x])' \/ memory[x].grant # memory[SourceOf[d]].grant
    BY <1>1 DEF OnlyTheSaver
  <2>1. SourceOf[d] \in Sources /\ memory[SourceOf[d]] # NoToken
    BY Constants DEF IInv, AtWork
  <2>2. /\ Accepts(memory[SourceOf[d]])
        /\ \A x \in Sources \ {SourceOf[d]} :
             ~Accepts(memory[x]) \/ memory[x].grant # memory[SourceOf[d]].grant
    BY <1>5, <2>1 DEF IInv, OnlyTheSaver
  <2> QED
    BY <1>1, <1>5, <2>1, <2>2 DEF Accepts
<1>9. FileKeepsUp'
  BY <1>1, <1>2, <1>3 DEF FileKeepsUp, Accepts
<1> QED
  BY <1>4, <1>6, <1>7, <1>8, <1>9, SpendsOnceFollows, PTL DEF IInv

LEMMA LogoutIInv ==
  ASSUME IInv, Logout
  PROVE  IInv'
<1>1. TypeOK /\ file' = NoToken /\ UNCHANGED <<memory, mu, pc, sent, latest, made, spent, lost, failed>>
  BY DEF IInv, Logout, issuer, history
<1>2. TypeOK'
  BY <1>1, TypeFacts DEF TypeOK, Mutex
<1>3. NoneAhead' /\ AtWork' /\ SpentBefore'
  BY <1>1 DEF IInv, NoneAhead, Known, AtWork, SpentBefore
<1>4. OnlyTheSaver' /\ FileKeepsUp'
  BY <1>1 DEF IInv, OnlyTheSaver, FileKeepsUp, Accepts
<1> QED
  BY <1>2, <1>3, <1>4, SpendsOnceFollows, PTL DEF IInv

LEMMA RevokeIInv ==
  ASSUME IInv, NEW g \in Grants, Revoke(g)
  PROVE  IInv'
<1>1. /\ TypeOK /\ UNCHANGED <<file, memory, mu, pc, sent, made, spent, lost, failed>>
      /\ latest' = [latest EXCEPT ![g] = 0]
  BY DEF IInv, Revoke, history
<1>2. /\ latest' \in [Grants -> 0..MaxUses] /\ latest'[g] = 0
      /\ \A x \in Grants \ {g} : latest'[x] = latest[x]
  <2>1. 0 \in 0..MaxUses
    BY Constants
  <2> QED
    BY <1>1, <2>1, TypeFacts
<1>3. TypeOK'
  BY <1>1, <1>2, TypeFacts DEF TypeOK, Mutex
<1>4. \A t \in Tokens : latest'[t.grant] # 0 => latest'[t.grant] = latest[t.grant]
  BY <1>2, Constants
<1>5. \A t \in Tokens : latest'[t.grant] = t.n => latest[t.grant] = t.n
  BY <1>2, Constants
<1>6. \A k \in Known \ {NoToken} : k \in Tokens
  BY <1>1, TypeFacts DEF Known
<1>7. \A x \in Sources : memory[x] # NoToken => memory[x] \in Tokens
  BY <1>1, TypeFacts
<1>8. NoneAhead'
  BY <1>1, <1>4, <1>6 DEF IInv, NoneAhead, Known
<1>9. AtWork' /\ SpentBefore'
  BY <1>1 DEF IInv, AtWork, SpentBefore
<1>10. OnlyTheSaver'
  <2> SUFFICES ASSUME NEW d \in Calls, pc[d] \in {"save", "rename"},
                      latest'[memory[SourceOf[d]].grant] # 0, memory[SourceOf[d]].grant \notin lost
               PROVE  /\ Accepts(memory[SourceOf[d]])'
                      /\ ~Accepts(file)' \/ file.grant # memory[SourceOf[d]].grant
                      /\ \A x \in Sources \ {SourceOf[d]} :
                           ~Accepts(memory[x])' \/ memory[x].grant # memory[SourceOf[d]].grant
    BY <1>1 DEF OnlyTheSaver
  <2>1. memory[SourceOf[d]] \in Tokens
    BY <1>7, Constants DEF IInv, AtWork
  <2>2. latest'[memory[SourceOf[d]].grant] = latest[memory[SourceOf[d]].grant]
    BY <1>4, <2>1
  <2>3. \A x \in Sources : Accepts(memory[x])' => Accepts(memory[x])
    BY <1>1, <1>5, <1>7 DEF Accepts
  <2>4. Accepts(file)' => Accepts(file)
    BY <1>1, <1>5, TypeFacts DEF Accepts
  <2> QED
    BY <1>1, <2>1, <2>2, <2>3, <2>4 DEF IInv, OnlyTheSaver, Accepts
<1>11. FileKeepsUp'
  BY <1>1, <1>4, <1>6, TypeFacts DEF IInv, FileKeepsUp, Accepts
<1> QED
  BY <1>3, <1>8, <1>9, <1>10, <1>11, SpendsOnceFollows, PTL DEF IInv

LEMMA NextIInv == IInv /\ [Next]_vars => IInv'
<1> SUFFICES ASSUME IInv, [Next]_vars PROVE IInv'
  OBVIOUS
<1>1. ASSUME NEW c \in Calls, Begin(c) \/ Lock(c) PROVE IInv'
  BY <1>1, BeginIInv, LockIInv
<1>2. ASSUME NEW c \in Calls, Token(c) PROVE IInv'
  BY <1>2, LoadIInv, AskIInv, ReturnIInv, RefreshedIInv, AnswerLostIInv, WriteTempIInv,
     RenameIInv DEF Token, Answered, Save
<1>3. ASSUME NEW s \in Sources, Crash(s) PROVE IInv'
  BY <1>3, CrashIInv
<1>4. ASSUME NEW g \in Grants, Revoke(g) PROVE IInv'
  BY <1>4, RevokeIInv
<1>5. CASE Login \/ Logout
  BY <1>5, LoginIInv, LogoutIInv
<1>6. CASE UNCHANGED vars
  BY <1>6 DEF vars, issuer, history, IInv, TypeOK, NoneAhead, Known, AtWork, SpentBefore,
     OnlyTheSaver, SpendsOnce, FileKeepsUp, Accepts
<1> QED
  BY <1>1, <1>2, <1>3, <1>4, <1>5, <1>6 DEF Next

-------------------------------------------------------------------------------
\* The inductive invariant holds however calls, crashes, logins and the issuer's
\* answers interleave (pkg/client/auth/source.go, store.go).
THEOREM Invariance == Spec => []IInv
<1> QED
  BY InitIInv, NextIInv, PTL DEF Spec

\* Every variable has its type; the credentials file is never half written, and the
\* mutex is held by the call that is past it (store.go:111-112, source.go:46-48).
THEOREM TypeCorrect == Spec => []TypeOK
<1>1. IInv => TypeOK
  BY DEF IInv
<1> QED
  BY <1>1, Invariance, PTL

\* No process presents a refresh token twice once it was answered
\* (source.go:46-101).
THEOREM NeverSpentTwice == Spec => []SpendsOnce
<1>1. IInv => SpendsOnce
  BY DEF IInv
<1> QED
  BY <1>1, Invariance, PTL

\* The file's token is the one the issuer accepts, or that one is about to replace it,
\* unless something was lost, whatever other processes save (source.go:91-101,
\* store.go:93-130).
THEOREM FileIsCurrent == Spec => []FileKeepsUp
<1>1. IInv => FileKeepsUp
  BY DEF IInv
<1> QED
  BY <1>1, Invariance, PTL
===============================================================================
