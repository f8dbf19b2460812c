----------------------------- MODULE TunnelProofs -----------------------------
(***************************************************************************)
(* What a tunnel delivers, proved for any pairing of the commands and for  *)
(* anything the applications say.  The argument is about who left first: a *)
(* process whose connection the relay closed, and nothing else, has a      *)
(* counterpart that left of its own accord, with all that it had to send   *)
(* behind it; and only such a process hangs up on an open application.     *)
(***************************************************************************)
EXTENDS Tunnel, TLAPS

\* The application's connection fits the way its process has come.
AppFits ==
  \A e \in Ends :
    /\ proc[e] = "accept" => app[e] = "none" /\ ~dials[e]
    /\ proc[e] = "connect" => IF dials[e] THEN app[e] = "none" ELSE app[e] \in {"open", "shut", "closed"}
    /\ proc[e] = "dial" => app[e] = "none"
    /\ proc[e] = "pipe" => app[e] \in {"open", "shut", "closed"}

SocketFits ==
  \A e \in Ends :
    /\ proc[e] \in {"accept", "connect"} => ws[e] = "none" /\ ~attached[e]
    /\ proc[e] # "pipe" => copies[e] = {}

\* Why a copy has ended.
CopyEndedWhy ==
  \A e \in Ends :
    proc[e] = "pipe" /\ copies[e] # Both =>
      \/ ws[e] = "gone"
      \/ app[e] = "closed"
      \/ app[e] = "shut" /\ stream[e].sent = stream[e].said

\* The process has left on its own account: by a signal, or because its application
\* had ended or could not be reached.
LeftItself(e) ==
  /\ proc[e] \in {"leave", "ended"}
  /\ signalled[e] \/ app[e] \in {"none", "shut", "closed"}

\* While nothing cuts in, a process that begins to close has left on its own account,
\* and one that is dialling has its connection.
ClosesItself ==
  \A e \in Ends :
    ~cut =>
      /\ ws[e] = "closing" => LeftItself(e)
      /\ proc[e] = "leave" /\ ws[e] = "open" => LeftItself(e)
      /\ proc[e] = "dial" => ws[e] \in {"open", "told"}

\* The end has gone of its own accord, and the relay has carried all it sent.
AllCarried(e) == ws[e] = "gone" /\ stream[e].carried = stream[e].sent /\ LeftItself(e)

\* A handler whose connection is over has carried everything, or has nobody left
\* to carry it to.
HandlerOfGone ==
  \A e \in Ends :
    ~cut /\ attached[e] /\ ws[e] \in {"told", "gone"} =>
      AllCarried(e) \/ (~attached[Far(e)] /\ ws[Far(e)] = "gone")

ToldIsLast == \A e \in Ends : ~cut /\ ws[e] = "told" => AllCarried(Far(e))

\* The process was told, or is about to hang up on an open application, or has.
WasTold(e) ==
  \/ proc[e] = "pipe" /\ ws[e] = "gone"
  \/ proc[e] = "leave" /\ app[e] = "open" /\ ~signalled[e]
  \/ app[e] = "hungup" /\ ws[e] # "none" /\ ~signalled[e]

ToldHasAll ==
  \A e \in Ends :
    ~cut /\ WasTold(e) =>
      ws[e] = "gone" /\ AllCarried(Far(e)) /\ stream[Far(e)].given = stream[Far(e)].sent

\* A process that was not told, and whose application has said all, has sent all.
SentAll ==
  \A e \in Ends :
    /\ ~cut /\ ~signalled[e] /\ ws[e] # "none"
    /\ proc[e] \in {"leave", "ended"} /\ app[e] = "shut"
    => stream[e].sent = stream[e].said \/ LeftItself(Far(e))

IInv ==
  /\ TypeOK
  /\ AppFits
  /\ SocketFits
  /\ CopyEndedWhy
  /\ ClosesItself
  /\ HandlerOfGone
  /\ ToldIsLast
  /\ ToldHasAll
  /\ SentAll

-------------------------------------------------------------------------------
\* The invariant of one end e, whose far end is f.
At(e, f) ==
  /\ /\ proc[e] = "accept" => app[e] = "none" /\ ~dials[e]
     /\ proc[e] = "connect" => IF dials[e] THEN app[e] = "none" ELSE app[e] \in {"open", "shut", "closed"}
     /\ proc[e] = "dial" => app[e] = "none"
     /\ proc[e] = "pipe" => app[e] \in {"open", "shut", "closed"}
  /\ /\ proc[e] \in {"accept", "connect"} => ws[e] = "none" /\ ~attached[e]
     /\ proc[e] # "pipe" => copies[e] = {}
  /\ proc[e] = "pipe" /\ copies[e] # Both =>
       \/ ws[e] = "gone"
       \/ app[e] = "closed"
       \/ app[e] = "shut" /\ stream[e].sent = stream[e].said
  /\ ~cut => /\ ws[e] = "closing" => LeftItself(e)
             /\ proc[e] = "leave" /\ ws[e] = "open" => LeftItself(e)
             /\ proc[e] = "dial" => ws[e] \in {"open", "told"}
  /\ ~cut /\ attached[e] /\ ws[e] \in {"told", "gone"} =>
       AllCarried(e) \/ (~attached[f] /\ ws[f] = "gone")
  /\ ~cut /\ ws[e] = "told" => AllCarried(f)
  /\ ~cut /\ WasTold(e) =>
       ws[e] = "gone" /\ AllCarried(f) /\ stream[f].given = stream[f].sent
  /\ ~cut /\ ~signalled[e] /\ ws[e] # "none" /\ proc[e] \in {"leave", "ended"} /\ app[e] = "shut"
       => stream[e].sent = stream[e].said \/ LeftItself(f)

\* The ends are two, each the other's far end.
LEMMA FarFacts ==
  ASSUME NEW e \in Ends
  PROVE  /\ Far(e) \in Ends /\ Far(e) # e /\ Far(Far(e)) = e
         /\ \A x \in Ends : x = e \/ x = Far(e)
BY DEF Ends, Far

\* The invariant can be told end by end.
LEMMA AtEachEnd == IInv <=> TypeOK /\ \A e \in Ends : At(e, Far(e))
<1>1. IInv => \A e \in Ends : At(e, Far(e))
  BY Zenon DEF IInv, AppFits, SocketFits, CopyEndedWhy, ClosesItself, HandlerOfGone, ToldIsLast,
     ToldHasAll, SentAll, At
<1>2. (\A e \in Ends : At(e, Far(e))) =>
        /\ AppFits /\ SocketFits /\ CopyEndedWhy /\ ClosesItself /\ HandlerOfGone
        /\ ToldIsLast /\ ToldHasAll /\ SentAll
  BY Zenon DEF AppFits, SocketFits, CopyEndedWhy, ClosesItself, HandlerOfGone, ToldIsLast,
     ToldHasAll, SentAll, At
<1> QED
  BY <1>1, <1>2 DEF IInv

\* It holds at an end and at its far end,
LEMMA BothEnds ==
  ASSUME IInv, NEW e \in Ends
  PROVE  TypeOK /\ At(e, Far(e)) /\ At(Far(e), e)
BY AtEachEnd, FarFacts

\* and if it does at both, it holds.
LEMMA Rebuild ==
  ASSUME TypeOK', NEW e \in Ends, At(e, Far(e))', At(Far(e), e)'
  PROVE  IInv'
<1>1. \A x \in Ends : x = e \/ x = Far(e)
  BY FarFacts
<1>2. Far(Far(e)) = e
  BY FarFacts
<1>3. \A x \in Ends : At(x, Far(x))'
  BY <1>1, <1>2
<1> QED
  BY <1>3, Zenon DEF IInv, AppFits, SocketFits, CopyEndedWhy, ClosesItself, HandlerOfGone,
     ToldIsLast, ToldHasAll, SentAll, At

\* The counts of a stream, in their order.
LEMMA StreamFacts ==
  ASSUME TypeOK, NEW e \in Ends
  PROVE  /\ stream[e].said \in Nat /\ stream[e].sent \in Nat
         /\ stream[e].carried \in Nat /\ stream[e].given \in Nat
         /\ stream[e].given <= stream[e].carried /\ stream[e].carried <= stream[e].sent
         /\ stream[e].sent <= stream[e].said /\ stream[e].said <= MaxSaid[e] /\ MaxSaid[e] \in Nat
BY TunnelAssumption DEF TypeOK, Stages

LEMMA SaysIInv ==
  ASSUME IInv, NEW e \in Ends, Says(e)
  PROVE  IInv'
<1> DEFINE f == Far(e)
<1>1. f \in Ends /\ f # e /\ TypeOK /\ At(e, f) /\ At(f, e) /\ \A x \in Ends : x = e \/ x = f
  BY FarFacts, BothEnds
<1> HIDE DEF f
<1>2. /\ UNCHANGED <<dials, app, proc, copies, signalled, attached, armed, ws, cut>>
      /\ app[e] = "open" /\ stream[e].said < MaxSaid[e] /\ proc[e] # "leave"
  BY DEF Says, processes, relay
<1>3. /\ stream' \in [Ends -> [Stages -> Nat]]
      /\ stream'[e].said = stream[e].said + 1 /\ stream'[e].sent = stream[e].sent
      /\ stream'[e].carried = stream[e].carried /\ stream'[e].given = stream[e].given
      /\ stream'[f] = stream[f]
  BY <1>1, StreamFacts DEF Says, TypeOK, Stages
<1>4. TypeOK'
  BY <1>1, <1>2, <1>3, StreamFacts DEF TypeOK
<1>5. At(e, f)' /\ At(f, e)'
  BY <1>1, <1>2, <1>3 DEF At, LeftItself, AllCarried, WasTold
<1> QED
  BY <1>4, <1>5, Rebuild DEF f

LEMMA FinishesIInv ==
  ASSUME IInv, NEW e \in Ends, NEW how \in {"shut", "closed"}, Finishes(e, how)
  PROVE  IInv'
<1> DEFINE f == Far(e)
<1>1. f \in Ends /\ f # e /\ TypeOK /\ At(e, f) /\ At(f, e) /\ \A x \in Ends : x = e \/ x = f
  BY FarFacts, BothEnds
<1> HIDE DEF f
<1>2. /\ UNCHANGED <<dials, proc, copies, signalled, attached, armed, ws, stream, cut>>
      /\ app[e] = "open" \/ (app[e] = "shut" /\ how = "closed")
      /\ proc[e] \notin {"leave", "ended"}
  BY <1>1 DEF Finishes, processes, relay, f
<1>3. /\ app' \in [Ends -> Apps] /\ app'[e] = how /\ app'[f] = app[f]
  BY <1>1, StreamFacts DEF Finishes, TypeOK, f, Apps
<1>4. TypeOK'
  BY <1>1, <1>2, <1>3, StreamFacts DEF TypeOK
<1>5. At(e, f)' /\ At(f, e)'
  BY <1>1, <1>2, <1>3, StreamFacts DEF At, LeftItself, AllCarried, WasTold
<1> QED
  BY <1>4, <1>5, Rebuild DEF f

LEMMA SignalIInv ==
  ASSUME IInv, NEW e \in Ends, Signal(e)
  PROVE  IInv'
<1> DEFINE f == Far(e)
<1>1. f \in Ends /\ f # e /\ TypeOK /\ At(e, f) /\ At(f, e) /\ \A x \in Ends : x = e \/ x = f
  BY FarFacts, BothEnds
<1> HIDE DEF f
<1>2. /\ UNCHANGED <<dials, app, proc, copies, attached, armed, ws, stream, cut>>
      /\ proc[e] \notin {"leave", "ended"}
  BY <1>1 DEF Signal, processes, relay, f
<1>3. /\ signalled' \in [Ends -> BOOLEAN] /\ signalled'[e] = TRUE /\ signalled'[f] = signalled[f]
  BY <1>1, StreamFacts DEF Signal, TypeOK, f
<1>4. TypeOK'
  BY <1>1, <1>2, <1>3, StreamFacts DEF TypeOK
<1>5. At(e, f)' /\ At(f, e)'
  BY <1>1, <1>2, <1>3, StreamFacts DEF At, LeftItself, AllCarried, WasTold
<1> QED
  BY <1>4, <1>5, Rebuild DEF f

LEMMA AcceptIInv ==
  ASSUME IInv, NEW e \in Ends, Accept(e)
  PROVE  IInv'
<1> DEFINE f == Far(e)
<1>1. f \in Ends /\ f # e /\ TypeOK /\ At(e, f) /\ At(f, e) /\ \A x \in Ends : x = e \/ x = f
  BY FarFacts, BothEnds
<1> HIDE DEF f
<1>2. /\ UNCHANGED <<dials, copies, signalled, attached, armed, ws, stream, cut>>
      /\ proc[e] = "accept"
  BY <1>1 DEF Accept, processes, relay, f
<1>3. /\ app' \in [Ends -> Apps] /\ app'[e] = "open" /\ app'[f] = app[f]
      /\ proc' \in [Ends -> Procs] /\ proc'[e] = "connect" /\ proc'[f] = proc[f]
  BY <1>1, StreamFacts DEF Accept, TypeOK, f, Apps, Procs
<1>4. TypeOK'
  BY <1>1, <1>2, <1>3, StreamFacts DEF TypeOK
<1>5. At(e, f)' /\ At(f, e)'
  BY <1>1, <1>2, <1>3, StreamFacts DEF At, LeftItself, AllCarried, WasTold
<1> QED
  BY <1>4, <1>5, Rebuild DEF f

LEMMA AcceptFailsIInv ==
  ASSUME IInv, NEW e \in Ends, AcceptFails(e)
  PROVE  IInv'
<1> DEFINE f == Far(e)
<1>1. f \in Ends /\ f # e /\ TypeOK /\ At(e, f) /\ At(f, e) /\ \A x \in Ends : x = e \/ x = f
  BY FarFacts, BothEnds
<1> HIDE DEF f
<1>2. /\ UNCHANGED <<dials, app, copies, signalled, attached, armed, ws, stream, cut>>
      /\ proc[e] = "accept"
  BY <1>1 DEF AcceptFails, relay, f
<1>3. proc' \in [Ends -> Procs] /\ proc'[e] = "ended" /\ proc'[f] = proc[f]
  BY <1>1 DEF AcceptFails, TypeOK, f, Procs
<1>4. TypeOK'
  BY <1>1, <1>2, <1>3, StreamFacts DEF TypeOK
<1>5. At(e, f)' /\ At(f, e)'
  BY <1>1, <1>2, <1>3, StreamFacts DEF At, LeftItself, AllCarried, WasTold
<1> QED
  BY <1>4, <1>5, Rebuild DEF f

LEMMA NeverConnectsIInv ==
  ASSUME IInv, NEW e \in Ends, NeverConnects(e)
  PROVE  IInv'
<1> DEFINE f == Far(e)
<1>1. f \in Ends /\ f # e /\ TypeOK /\ At(e, f) /\ At(f, e) /\ \A x \in Ends : x = e \/ x = f
  BY FarFacts, BothEnds
<1> HIDE DEF f
<1>2. /\ UNCHANGED <<dials, copies, signalled, attached, armed, ws, stream, cut>>
      /\ proc[e] \in {"accept", "connect"}
  BY <1>1 DEF NeverConnects, processes, relay, f
<1>3. /\ app' \in [Ends -> Apps] /\ app'[f] = app[f]
      /\ app'[e] = IF app[e] = "open" THEN "hungup" ELSE app[e]
      /\ proc' \in [Ends -> Procs] /\ proc'[e] = "ended" /\ proc'[f] = proc[f]
  BY <1>1, StreamFacts DEF NeverConnects, TypeOK, f, Apps, Procs, HungUp
<1>4. TypeOK'
  BY <1>1, <1>2, <1>3, StreamFacts DEF TypeOK
<1>5. At(e, f)' /\ At(f, e)'
  BY <1>1, <1>2, <1>3, StreamFacts DEF At, LeftItself, AllCarried, WasTold
<1> QED
  BY <1>4, <1>5, Rebuild DEF f

LEMMA LeavePipeIInv ==
  ASSUME IInv, NEW e \in Ends, LeavePipe(e)
  PROVE  IInv'
<1> DEFINE f == Far(e)
<1>1. f \in Ends /\ f # e /\ TypeOK /\ At(e, f) /\ At(f, e) /\ \A x \in Ends : x = e \/ x = f
  BY FarFacts, BothEnds
<1> HIDE DEF f
<1>2. /\ UNCHANGED <<dials, signalled, attached, armed, ws, stream, cut>>
      /\ proc[e] = "pipe"
      /\ signalled[e] \/ copies[e] # Both
  BY <1>1 DEF LeavePipe, processes, relay, f
<1>3. /\ app' \in [Ends -> Apps] /\ app'[f] = app[f]
      /\ app'[e] = IF dials[e] /\ app[e] = "open" THEN "hungup" ELSE app[e]
      /\ proc' \in [Ends -> Procs] /\ proc'[e] = "leave" /\ proc'[f] = proc[f]
      /\ copies' \in [Ends -> SUBSET Both] /\ copies'[e] = {} /\ copies'[f] = copies[f]
  BY <1>1, StreamFacts DEF LeavePipe, TypeOK, f, Apps, Both, Procs, HungUp
<1>4. TypeOK'
  BY <1>1, <1>2, <1>3, StreamFacts DEF TypeOK
<1>5. At(e, f)' /\ At(f, e)'
  BY <1>1, <1>2, <1>3, StreamFacts DEF At, LeftItself, AllCarried, WasTold
<1> QED
  BY <1>4, <1>5, Rebuild DEF f

LEMMA SendCloseIInv ==
  ASSUME IInv, NEW e \in Ends, SendClose(e)
  PROVE  IInv'
<1> DEFINE f == Far(e)
<1>1. f \in Ends /\ f # e /\ TypeOK /\ At(e, f) /\ At(f, e) /\ \A x \in Ends : x = e \/ x = f
  BY FarFacts, BothEnds
<1> HIDE DEF f
<1>2. /\ UNCHANGED <<dials, app, proc, copies, signalled, attached, armed, stream, cut>>
      /\ proc[e] = "leave"
      /\ ws[e] \in {"open", "told"}
  BY <1>1 DEF SendClose, processes, relay, f
<1>3. /\ ws' \in [Ends -> Sockets] /\ ws'[e] = (IF ws[e] = "open" THEN "closing" ELSE "gone") /\ ws'[f] = ws[f]
  BY <1>1, StreamFacts DEF SendClose, TypeOK, f, Sockets
<1>4. TypeOK'
  BY <1>1, <1>2, <1>3, StreamFacts DEF TypeOK
<1>5. At(e, f)' /\ At(f, e)'
  BY <1>1, <1>2, <1>3, StreamFacts DEF At, LeftItself, AllCarried, WasTold
<1> QED
  BY <1>4, <1>5, Rebuild DEF f

LEMMA ExitIInv ==
  ASSUME IInv, NEW e \in Ends, Exit(e)
  PROVE  IInv'
<1> DEFINE f == Far(e)
<1>1. f \in Ends /\ f # e /\ TypeOK /\ At(e, f) /\ At(f, e) /\ \A x \in Ends : x = e \/ x = f
  BY FarFacts, BothEnds
<1> HIDE DEF f
<1>2. /\ UNCHANGED <<dials, copies, signalled, attached, armed, ws, stream, cut>>
      /\ proc[e] = "leave"
      /\ ws[e] = "gone"
  BY <1>1 DEF Exit, processes, relay, f
<1>3. /\ app' \in [Ends -> Apps] /\ app'[f] = app[f]
      /\ app'[e] = IF app[e] = "open" THEN "hungup" ELSE app[e]
      /\ proc' \in [Ends -> Procs] /\ proc'[e] = "ended" /\ proc'[f] = proc[f]
  BY <1>1, StreamFacts DEF Exit, TypeOK, f, Apps, Procs, HungUp
<1>4. TypeOK'
  BY <1>1, <1>2, <1>3, StreamFacts DEF TypeOK
<1>5. At(e, f)' /\ At(f, e)'
  BY <1>1, <1>2, <1>3, StreamFacts DEF At, LeftItself, AllCarried, WasTold
<1> QED
  BY <1>4, <1>5, Rebuild DEF f

LEMMA UpCopiesIInv ==
  ASSUME IInv, NEW e \in Ends, UpCopies(e)
  PROVE  IInv'
<1> DEFINE f == Far(e)
<1>1. f \in Ends /\ f # e /\ TypeOK /\ At(e, f) /\ At(f, e) /\ \A x \in Ends : x = e \/ x = f
  BY FarFacts, BothEnds
<1> HIDE DEF f
<1>2. /\ UNCHANGED <<dials, app, proc, copies, signalled, attached, armed, ws, cut>>
      /\ stream[e].sent < stream[e].said
      /\ ws[e] \in {"open", "told"}
  BY <1>1 DEF UpCopies, processes, relay, f
<1>3. /\ stream' \in [Ends -> [Stages -> Nat]]
      /\ stream'[e].said = stream[e].said
      /\ stream'[e].sent = stream[e].sent + 1
      /\ stream'[e].carried = stream[e].carried
      /\ stream'[e].given = stream[e].given
      /\ stream'[f] = stream[f]
  BY <1>1, StreamFacts DEF UpCopies, TypeOK, f, Stages
<1>4. TypeOK'
  <2>1. \A x \in {e, f} : /\ stream'[x].given <= stream'[x].carried
                          /\ stream'[x].carried <= stream'[x].sent
                          /\ stream'[x].sent <= stream'[x].said
                          /\ stream'[x].said <= MaxSaid[x]
    BY <1>1, <1>2, <1>3, StreamFacts
  <2> QED
    BY <1>1, <1>2, <1>3, <2>1 DEF TypeOK
<1>5. At(e, f)' /\ At(f, e)'
  BY <1>1, <1>2, <1>3, StreamFacts DEF At, LeftItself, AllCarried, WasTold
<1> QED
  BY <1>4, <1>5, Rebuild DEF f

LEMMA UpEndsIInv ==
  ASSUME IInv, NEW e \in Ends, UpEnds(e)
  PROVE  IInv'
<1> DEFINE f == Far(e)
<1>1. f \in Ends /\ f # e /\ TypeOK /\ At(e, f) /\ At(f, e) /\ \A x \in Ends : x = e \/ x = f
  BY FarFacts, BothEnds
<1> HIDE DEF f
<1>2. /\ UNCHANGED <<dials, app, proc, signalled, attached, armed, ws, stream, cut>>
      /\ "up" \in copies[e]
      /\ \/ app[e] = "shut" /\ stream[e].sent = stream[e].said
         \/ app[e] \in {"closed", "hungup"}
         \/ ws[e] = "gone"
  BY <1>1 DEF UpEnds, CopyEnds, processes, relay, f
<1>3. /\ copies' \in [Ends -> SUBSET Both] /\ copies'[e] = copies[e] \ {"up"} /\ copies'[f] = copies[f]
  BY <1>1, StreamFacts DEF UpEnds, CopyEnds, TypeOK, f, Both
<1>4. TypeOK'
  BY <1>1, <1>2, <1>3, StreamFacts DEF TypeOK
<1>5. At(e, f)' /\ At(f, e)'
  BY <1>1, <1>2, <1>3, StreamFacts DEF At, LeftItself, AllCarried, WasTold
<1> QED
  BY <1>4, <1>5, Rebuild DEF f

LEMMA DownCopiesIInv ==
  ASSUME IInv, NEW e \in Ends, DownCopies(e)
  PROVE  IInv'
<1> DEFINE f == Far(e)
<1>1. f \in Ends /\ f # e /\ TypeOK /\ At(e, f) /\ At(f, e) /\ \A x \in Ends : x = e \/ x = f
  BY FarFacts, BothEnds
<1> HIDE DEF f
<1>2. /\ UNCHANGED <<dials, app, proc, copies, signalled, attached, armed, ws, cut>>
      /\ stream[f].given < stream[f].carried
  BY <1>1 DEF DownCopies, ToGive, processes, relay, f
<1>3. /\ stream' \in [Ends -> [Stages -> Nat]]
      /\ stream'[f].said = stream[f].said
      /\ stream'[f].sent = stream[f].sent
      /\ stream'[f].carried = stream[f].carried
      /\ stream'[f].given = stream[f].given + 1
      /\ stream'[e] = stream[e]
  BY <1>1, StreamFacts DEF DownCopies, ToGive, TypeOK, f, Stages
<1>4. TypeOK'
  <2>1. \A x \in {e, f} : /\ stream'[x].given <= stream'[x].carried
                          /\ stream'[x].carried <= stream'[x].sent
                          /\ stream'[x].sent <= stream'[x].said
                          /\ stream'[x].said <= MaxSaid[x]
    BY <1>1, <1>2, <1>3, StreamFacts
  <2> QED
    BY <1>1, <1>2, <1>3, <2>1 DEF TypeOK
<1>5. At(e, f)' /\ At(f, e)'
  BY <1>1, <1>2, <1>3, StreamFacts DEF At, LeftItself, AllCarried, WasTold
<1> QED
  BY <1>4, <1>5, Rebuild DEF f

LEMMA DownEndsIInv ==
  ASSUME IInv, NEW e \in Ends, DownEnds(e)
  PROVE  IInv'
<1> DEFINE f == Far(e)
<1>1. f \in Ends /\ f # e /\ TypeOK /\ At(e, f) /\ At(f, e) /\ \A x \in Ends : x = e \/ x = f
  BY FarFacts, BothEnds
<1> HIDE DEF f
<1>2. /\ UNCHANGED <<dials, app, proc, signalled, attached, armed, stream, cut>>
      /\ "down" \in copies[e]
      /\ \/ ws[e] = "told" /\ ~(stream[f].given < stream[f].carried)
         \/ ws[e] = "gone"
         \/ stream[f].given < stream[f].carried /\ app[e] \in {"closed", "hungup"}
  BY <1>1 DEF DownEnds, CopyEnds, ToGive, processes, relay, f
<1>3. /\ copies' \in [Ends -> SUBSET Both] /\ copies'[e] = copies[e] \ {"down"} /\ copies'[f] = copies[f]
      /\ ws' \in [Ends -> Sockets] /\ ws'[e] = (IF ws[e] = "told" /\ ~(stream[f].given < stream[f].carried) THEN "gone" ELSE ws[e]) /\ ws'[f] = ws[f]
  BY <1>1, StreamFacts DEF DownEnds, CopyEnds, ToGive, TypeOK, f, Both, Sockets
<1>4. TypeOK'
  BY <1>1, <1>2, <1>3, StreamFacts DEF TypeOK
<1>5. At(e, f)' /\ At(f, e)'
  BY <1>1, <1>2, <1>3, StreamFacts DEF At, LeftItself, AllCarried, WasTold
<1> QED
  BY <1>4, <1>5, Rebuild DEF f

LEMMA CarryIInv ==
  ASSUME IInv, NEW e \in Ends, Carry(e)
  PROVE  IInv'
<1> DEFINE f == Far(e)
<1>1. f \in Ends /\ f # e /\ TypeOK /\ At(e, f) /\ At(f, e) /\ \A x \in Ends : x = e \/ x = f
  BY FarFacts, BothEnds
<1> HIDE DEF f
<1>2. /\ UNCHANGED <<dials, app, proc, copies, signalled, attached, armed, ws, cut>>
      /\ attached[e] /\ attached[f] /\ stream[e].carried < stream[e].sent
      /\ ws[e] \in {"open", "closing", "gone"}
      /\ ws[f] \in {"open", "closing"}
  BY <1>1 DEF Carry, processes, relay, f
<1>3. /\ stream' \in [Ends -> [Stages -> Nat]]
      /\ stream'[e].said = stream[e].said
      /\ stream'[e].sent = stream[e].sent
      /\ stream'[e].carried = stream[e].carried + 1
      /\ stream'[e].given = stream[e].given
      /\ stream'[f] = stream[f]
  BY <1>1, StreamFacts DEF Carry, TypeOK, f, Stages
<1>4. TypeOK'
  <2>1. \A x \in {e, f} : /\ stream'[x].given <= stream'[x].carried
                          /\ stream'[x].carried <= stream'[x].sent
                          /\ stream'[x].sent <= stream'[x].said
                          /\ stream'[x].said <= MaxSaid[x]
    BY <1>1, <1>2, <1>3, StreamFacts
  <2> QED
    BY <1>1, <1>2, <1>3, <2>1 DEF TypeOK
<1>5. At(e, f)' /\ At(f, e)'
  BY <1>1, <1>2, <1>3, StreamFacts DEF At, LeftItself, AllCarried, WasTold
<1> QED
  BY <1>4, <1>5, Rebuild DEF f

LEMMA HandlerEndsIInv ==
  ASSUME IInv, NEW e \in Ends, HandlerEnds(e)
  PROVE  IInv'
<1> DEFINE f == Far(e)
<1>1. f \in Ends /\ f # e /\ TypeOK /\ At(e, f) /\ At(f, e) /\ \A x \in Ends : x = e \/ x = f
  BY FarFacts, BothEnds
<1> HIDE DEF f
<1>2. /\ UNCHANGED <<dials, app, proc, copies, signalled, stream, cut>>
      /\ attached[e]
      /\ \/ ws[e] = "closing" /\ stream[e].carried = stream[e].sent
         \/ ws[e] = "gone" /\ (attached[f] \/ stream[e].carried = stream[e].sent)
         \/ ws[e] = "told"
  BY <1>1 DEF HandlerEnds, processes, relay, f
<1>3. /\ attached' \in [Ends -> BOOLEAN] /\ attached'[e] = FALSE /\ attached'[f] = attached[f]
      /\ ws' \in [Ends -> Sockets] /\ ws'[e] = (IF ws[e] = "closing" THEN "gone" ELSE ws[e]) /\ ws'[f] = (IF ws[f] = "open" /\ attached[f] THEN "told" ELSE ws[f])
      /\ armed' \in [Ends -> BOOLEAN] /\ armed'[e] = FALSE /\ armed'[f] = armed[f]
  BY <1>1, StreamFacts DEF HandlerEnds, TypeOK, f, Sockets
<1>4. TypeOK'
  BY <1>1, <1>2, <1>3, StreamFacts DEF TypeOK
<1>5. At(e, f)' /\ At(f, e)'
  BY <1>1, <1>2, <1>3, StreamFacts DEF At, LeftItself, AllCarried, WasTold
<1> QED
  BY <1>4, <1>5, Rebuild DEF f

LEMMA ForwardFailsIInv ==
  ASSUME IInv, NEW e \in Ends, ForwardFails(e)
  PROVE  IInv'
<1> DEFINE f == Far(e)
<1>1. f \in Ends /\ f # e /\ TypeOK /\ At(e, f) /\ At(f, e) /\ \A x \in Ends : x = e \/ x = f
  BY FarFacts, BothEnds
<1> HIDE DEF f
<1>2. /\ UNCHANGED <<dials, app, proc, copies, signalled, stream, cut>>
      /\ attached[e] /\ attached[f] /\ stream[e].carried < stream[e].sent
      /\ ws[f] \in {"told", "gone"}
  BY <1>1 DEF ForwardFails, processes, relay, f
<1>3. /\ attached' \in [Ends -> BOOLEAN] /\ attached'[e] = FALSE /\ attached'[f] = attached[f]
      /\ ws' \in [Ends -> Sockets] /\ ws'[e] = (IF ws[e] = "open" THEN "told" ELSE IF ws[e] = "closing" THEN "gone" ELSE ws[e]) /\ ws'[f] = ws[f]
      /\ armed' \in [Ends -> BOOLEAN] /\ armed'[e] = FALSE /\ armed'[f] = armed[f]
  BY <1>1, StreamFacts DEF ForwardFails, TypeOK, f, Sockets, ToldOff
<1>4. TypeOK'
  BY <1>1, <1>2, <1>3, StreamFacts DEF TypeOK
<1>5. At(e, f)' /\ At(f, e)'
  BY <1>1, <1>2, <1>3, StreamFacts DEF At, LeftItself, AllCarried, WasTold
<1> QED
  BY <1>4, <1>5, Rebuild DEF f

LEMMA PeerWaitIInv ==
  ASSUME IInv, NEW e \in Ends, PeerWait(e)
  PROVE  IInv'
<1> DEFINE f == Far(e)
<1>1. f \in Ends /\ f # e /\ TypeOK /\ At(e, f) /\ At(f, e) /\ \A x \in Ends : x = e \/ x = f
  BY FarFacts, BothEnds
<1> HIDE DEF f
<1>2. /\ UNCHANGED <<dials, app, proc, copies, signalled, stream>>
  BY <1>1 DEF PeerWait, processes, relay, f
<1>3. /\ attached' \in [Ends -> BOOLEAN] /\ attached'[e] = FALSE /\ attached'[f] = attached[f]
      /\ ws' \in [Ends -> Sockets] /\ ws'[f] = ws[f]
      /\ ws'[e] = IF ws[e] = "open" THEN "told" ELSE IF ws[e] = "closing" THEN "gone" ELSE ws[e]
      /\ armed' \in [Ends -> BOOLEAN] /\ armed'[e] = FALSE /\ armed'[f] = armed[f]
      /\ cut' \in BOOLEAN /\ cut'
  BY <1>1, StreamFacts DEF PeerWait, TypeOK, f, Sockets, ToldOff
<1>4. TypeOK'
  BY <1>1, <1>2, <1>3, StreamFacts DEF TypeOK
<1>5. At(e, f)' /\ At(f, e)'
  BY <1>1, <1>2, <1>3, StreamFacts DEF At, LeftItself, AllCarried, WasTold
<1> QED
  BY <1>4, <1>5, Rebuild DEF f

LEMMA GiveUpIInv ==
  ASSUME IInv, NEW e \in Ends, GiveUp(e)
  PROVE  IInv'
<1> DEFINE f == Far(e)
<1>1. f \in Ends /\ f # e /\ TypeOK /\ At(e, f) /\ At(f, e) /\ \A x \in Ends : x = e \/ x = f
  BY FarFacts, BothEnds
<1> HIDE DEF f
<1>2. /\ UNCHANGED <<dials, app, proc, copies, signalled, attached, armed, stream>>
      /\ ws[e] = "closing"
  BY <1>1 DEF GiveUp, processes, relay, f
<1>3. /\ ws' \in [Ends -> Sockets] /\ ws'[e] = "gone" /\ ws'[f] = ws[f]
      /\ cut' \in BOOLEAN /\ (~cut' => ~cut /\ ~(stream[e].carried < stream[e].sent))
  <2>1. ws' \in [Ends -> Sockets] /\ ws'[e] = "gone" /\ ws'[f] = ws[f]
    BY <1>1 DEF GiveUp, TypeOK, Sockets
  <2>2. cut' = (cut \/ stream[e].carried < stream[e].sent)
    BY DEF GiveUp
  <2> QED
    BY <2>1, <2>2
<1>4. TypeOK'
  BY <1>1, <1>2, <1>3, StreamFacts DEF TypeOK
<1>5. At(e, f)' /\ At(f, e)'
  BY <1>1, <1>2, <1>3, StreamFacts DEF At, LeftItself, AllCarried, WasTold
<1> QED
  BY <1>4, <1>5, Rebuild DEF f

LEMMA KeepaliveClosesIInv ==
  ASSUME IInv, NEW e \in Ends, KeepaliveCloses(e)
  PROVE  IInv'
<1> DEFINE f == Far(e)
<1>1. f \in Ends /\ f # e /\ TypeOK /\ At(e, f) /\ At(f, e) /\ \A x \in Ends : x = e \/ x = f
  BY FarFacts, BothEnds
<1> HIDE DEF f
<1>2. /\ UNCHANGED <<dials, app, proc, copies, signalled, attached, armed, stream>>
      /\ ws[e] \in {"open", "told"}
  BY <1>1 DEF KeepaliveCloses, processes, relay, f
<1>3. /\ ws' \in [Ends -> Sockets] /\ ws'[e] = (IF ws[e] = "open" THEN "closing" ELSE "gone") /\ ws'[f] = ws[f]
      /\ cut' \in BOOLEAN /\ cut'
  BY <1>1, StreamFacts DEF KeepaliveCloses, TypeOK, f, Sockets
<1>4. TypeOK'
  BY <1>1, <1>2, <1>3, StreamFacts DEF TypeOK
<1>5. At(e, f)' /\ At(f, e)'
  BY <1>1, <1>2, <1>3, StreamFacts DEF At, LeftItself, AllCarried, WasTold
<1> QED
  BY <1>4, <1>5, Rebuild DEF f

LEMMA BreaksIInv ==
  ASSUME IInv, NEW e \in Ends, Breaks(e)
  PROVE  IInv'
<1> DEFINE f == Far(e)
<1>1. f \in Ends /\ f # e /\ TypeOK /\ At(e, f) /\ At(f, e) /\ \A x \in Ends : x = e \/ x = f
  BY FarFacts, BothEnds
<1> HIDE DEF f
<1>2. /\ UNCHANGED <<dials, app, proc, copies, signalled, attached, armed, stream>>
      /\ ws[e] \in {"open", "told", "closing"}
  BY <1>1 DEF Breaks, processes, relay, f
<1>3. /\ ws' \in [Ends -> Sockets] /\ ws'[e] = "gone" /\ ws'[f] = ws[f]
      /\ cut' \in BOOLEAN /\ cut'
  BY <1>1, StreamFacts DEF Breaks, TypeOK, f, Sockets
<1>4. TypeOK'
  BY <1>1, <1>2, <1>3, StreamFacts DEF TypeOK
<1>5. At(e, f)' /\ At(f, e)'
  BY <1>1, <1>2, <1>3, StreamFacts DEF At, LeftItself, AllCarried, WasTold
<1> QED
  BY <1>4, <1>5, Rebuild DEF f

LEMMA ConnectIInv ==
  ASSUME IInv, NEW e \in Ends, Connect(e)
  PROVE  IInv'
<1> DEFINE f == Far(e)
<1>1. f \in Ends /\ f # e /\ TypeOK /\ At(e, f) /\ At(f, e) /\ \A x \in Ends : x = e \/ x = f
  BY FarFacts, BothEnds
<1> HIDE DEF f
<1>2. /\ UNCHANGED <<dials, app, signalled, stream, cut>>
      /\ proc[e] = "connect"
  BY <1>1 DEF Connect
<1>3. /\ proc' \in [Ends -> Procs] /\ proc'[f] = proc[f]
      /\ proc'[e] = IF dials[e] THEN "dial" ELSE "pipe"
      /\ ws' \in [Ends -> Sockets] /\ ws'[e] = "open" /\ ws'[f] = ws[f]
      /\ attached' \in [Ends -> BOOLEAN] /\ attached'[e] = TRUE /\ attached'[f] = attached[f]
      /\ copies' \in [Ends -> SUBSET Both] /\ copies'[f] = copies[f]
      /\ copies'[e] = IF dials[e] THEN copies[e] ELSE Both
      /\ armed' \in [Ends -> BOOLEAN]
  BY <1>1 DEF Connect, TypeOK, Procs, Sockets
<1>4. TypeOK'
  BY <1>1, <1>2, <1>3, StreamFacts DEF TypeOK
<1>5. At(e, f)' /\ At(f, e)'
  BY <1>1, <1>2, <1>3, StreamFacts DEF At, LeftItself, AllCarried, WasTold
<1> QED
  BY <1>4, <1>5, Rebuild DEF f

LEMMA DialTargetIInv ==
  ASSUME IInv, NEW e \in Ends, DialTarget(e)
  PROVE  IInv'
<1> DEFINE f == Far(e)
<1>1. f \in Ends /\ f # e /\ TypeOK /\ At(e, f) /\ At(f, e) /\ \A x \in Ends : x = e \/ x = f
  BY FarFacts, BothEnds
<1> HIDE DEF f
<1>2. /\ UNCHANGED <<dials, signalled, attached, armed, ws, stream, cut>>
      /\ proc[e] = "dial"
  BY <1>1 DEF DialTarget, relay
<1>3. CASE proc' = [proc EXCEPT ![e] = "leave"] /\ UNCHANGED <<app, copies>>
  <2>1. proc' \in [Ends -> Procs] /\ proc'[e] = "leave" /\ proc'[f] = proc[f]
    BY <1>1, <1>3 DEF TypeOK, Procs
  <2>2. TypeOK'
    BY <1>1, <1>2, <1>3, <2>1, StreamFacts DEF TypeOK
  <2>3. At(e, f)' /\ At(f, e)'
    BY <1>1, <1>2, <1>3, <2>1, StreamFacts DEF At, LeftItself, AllCarried, WasTold
  <2> QED
    BY <2>2, <2>3, Rebuild DEF f
<1>4. CASE /\ proc' = [proc EXCEPT ![e] = "pipe"] /\ app' = [app EXCEPT ![e] = "open"]
           /\ copies' = [copies EXCEPT ![e] = Both]
  <2>1. /\ proc' \in [Ends -> Procs] /\ proc'[e] = "pipe" /\ proc'[f] = proc[f]
        /\ app' \in [Ends -> Apps] /\ app'[e] = "open" /\ app'[f] = app[f]
        /\ copies' \in [Ends -> SUBSET Both] /\ copies'[e] = Both /\ copies'[f] = copies[f]
    BY <1>1, <1>4 DEF TypeOK, Procs, Apps
  <2>2. TypeOK'
    BY <1>1, <1>2, <2>1, StreamFacts DEF TypeOK
  <2>3. At(e, f)' /\ At(f, e)'
    BY <1>1, <1>2, <2>1, StreamFacts DEF At, LeftItself, AllCarried, WasTold
  <2> QED
    BY <2>2, <2>3, Rebuild DEF f
<1> QED
  BY <1>3, <1>4 DEF DialTarget

LEMMA InitIInv == Init => IInv
<1> SUFFICES ASSUME Init PROVE IInv
  OBVIOUS
<1>1. PICK command \in Pairings : Starts(command)
  BY DEF Init
<1>2. command \in [Ends -> Commands]
  BY TunnelAssumption
<1>3. /\ dials \in [Ends -> BOOLEAN] /\ app \in [Ends -> Apps] /\ proc \in [Ends -> Procs]
      /\ \A e \in Ends : /\ proc[e] = "accept" => app[e] = "none" /\ ~dials[e]
                         /\ proc[e] \in {"accept", "connect"}
                         /\ proc[e] = "connect" =>
                              IF dials[e] THEN app[e] = "none" ELSE app[e] = "open"
  BY <1>1, <1>2 DEF Starts, Apps, Procs, Commands
<1>4. TypeOK
  <2>1. /\ copies \in [Ends -> SUBSET Both] /\ signalled \in [Ends -> BOOLEAN]
        /\ ws \in [Ends -> Sockets] /\ cut \in BOOLEAN
        /\ attached \in [Ends -> BOOLEAN] /\ armed \in [Ends -> BOOLEAN]
    BY DEF Init, Sockets
  <2>2. stream \in [Ends -> [Stages -> Nat]]
    BY DEF Init
  <2>3. \A e \in Ends : /\ stream[e].given = 0 /\ stream[e].carried = 0
                        /\ stream[e].sent = 0 /\ stream[e].said = 0 /\ 0 <= MaxSaid[e]
    BY TunnelAssumption DEF Init, Stages
  <2> QED
    BY <1>3, <2>1, <2>2, <2>3 DEF TypeOK
<1>5. \A e \in Ends : At(e, Far(e))
  BY <1>3, FarFacts DEF Init, At, LeftItself, AllCarried, WasTold
<1> QED
  BY <1>4, <1>5, AtEachEnd

LEMMA NextIInv == IInv /\ [Next]_vars => IInv'
<1> SUFFICES ASSUME IInv, [Next]_vars PROVE IInv'
  OBVIOUS
<1>1. ASSUME NEW e \in Ends, Outside(e) PROVE IInv'
  BY <1>1, SaysIInv, FinishesIInv, SignalIInv DEF Outside
<1>2. ASSUME NEW e \in Ends, Accept(e) \/ AcceptFails(e) \/ Main(e) PROVE IInv'
  BY <1>2, AcceptIInv, AcceptFailsIInv, NeverConnectsIInv, ConnectIInv, DialTargetIInv, LeavePipeIInv,
     SendCloseIInv, ExitIInv DEF Main
<1>3. ASSUME NEW e \in Ends, Up(e) \/ Down(e) PROVE IInv'
  BY <1>3, UpCopiesIInv, UpEndsIInv, DownCopiesIInv, DownEndsIInv DEF Up, Down
<1>4. ASSUME NEW e \in Ends, Pump(e) \/ TimesOut(e) PROVE IInv'
  BY <1>4, CarryIInv, HandlerEndsIInv, ForwardFailsIInv, PeerWaitIInv, GiveUpIInv DEF Pump, TimesOut
<1>5. ASSUME NEW e \in Ends, KeepaliveCloses(e) \/ Breaks(e) PROVE IInv'
  BY <1>5, KeepaliveClosesIInv, BreaksIInv
<1>6. CASE UNCHANGED vars
  <2>1. UNCHANGED <<dials, app, proc, copies, signalled, attached, armed, ws, stream, cut>>
    BY <1>6 DEF vars, processes, relay
  <2>2. TypeOK /\ \A e \in Ends : At(e, Far(e))
    BY AtEachEnd
  <2>3. TypeOK'
    BY <2>1, <2>2 DEF TypeOK
  <2>4. PICK e \in Ends : TRUE
    BY DEF Ends
  <2>5. At(e, Far(e))' /\ At(Far(e), e)'
    BY <2>1, <2>2, FarFacts DEF At, LeftItself, AllCarried, WasTold
  <2> QED
    BY <2>3, <2>5, Rebuild
<1> QED
  BY <1>1, <1>2, <1>3, <1>4, <1>5, <1>6 DEF Next

\* Who hung up on an open application was told, so the far end had left on its own
\* account and had sent all; it was not told itself.
LEMMA IInvDelivers == IInv => EndDelivers
<1> SUFFICES ASSUME IInv, NEW e \in Ends,
                    app[Far(e)] = "hungup", ws[Far(e)] # "none", ~cut, ~signalled[Far(e)]
             PROVE  /\ stream[e].given = stream[e].sent
                    /\ app[e] = "shut" /\ ~signalled[e] => stream[e].sent = stream[e].said
  BY DEF EndDelivers
<1>1. At(e, Far(e)) /\ At(Far(e), e)
  BY BothEnds
<1>2. WasTold(Far(e))
  BY DEF WasTold
<1>3. AllCarried(e) /\ stream[e].given = stream[e].sent
  BY <1>1, <1>2 DEF At
<1>4. ~LeftItself(Far(e))
  BY DEF LeftItself
<1>5. app[e] = "shut" /\ ~signalled[e] => stream[e].sent = stream[e].said
  BY <1>1, <1>3, <1>4 DEF At, AllCarried, LeftItself
<1> QED
  BY <1>3, <1>5

-------------------------------------------------------------------------------
\* The inductive invariant holds for every pairing of commands, whatever their
\* applications say and whoever leaves first (cmd/swsrs/tcp_listen.go, tcp_dial.go).
THEOREM Invariance == Spec => []IInv
<1> QED
  BY InitIInv, NextIInv, PTL DEF Spec

\* Every variable has its type, and no stream is ahead of what feeds it: nothing is
\* delivered twice or made up (tcp_listen.go:77-86).
THEOREM TypeCorrect == Spec => []TypeOK
<1>1. IInv => TypeOK
  BY DEF IInv
<1> QED
  BY <1>1, Invariance, PTL

\* An application is not hung up on while something that was sent to it is still under
\* way, unless a signal, a timeout or a broken connection cut in (tcp_listen.go:77-86,
\* relay.go:161-186).
THEOREM NothingIsCutOff == Spec => []EndDelivers
<1> QED
  BY IInvDelivers, Invariance, PTL
===============================================================================
