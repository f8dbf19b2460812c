------------------------------ MODULE ServerProofs -----------------------------
(***************************************************************************)
(* That the two waits of a shutdown leave no gap, proved for any number of *)
(* connections.  All of it rests on what is true once Shutdown has         *)
(* returned without giving up: nothing is accepted any more, so no request *)
(* is ever under way again.                                                *)
(***************************************************************************)
EXTENDS Server, TLAPS

NoneUnderWay ==
  main \in {"closeAll", "wait", "exited"} /\ ~budget =>
    \A h \in Dials : stage[h] \notin Requests

NoneLeft == main = "exited" /\ ~budget => Active = {}

IInv == TypeOK /\ NoneUnderWay /\ NoneLeft

LEMMA InitIInv == Init => IInv
BY DEF Init, IInv, TypeOK, NoneUnderWay, NoneLeft, Mains, Stages, Requests

\* A connection only moves while the process runs, and a request begins only
\* while the server serves.
LEMMA HandleStep ==
  ASSUME IInv, NEW h \in Dials, Handle(h)
  PROVE  \E from, to \in Stages :
           /\ Advance(h, from, to)
           /\ to \in Requests => from \in Requests \/ main = "serving"
<1> USE DEF Stages, Requests, Hijacked
<1>1. CASE Accept(h)
  BY <1>1 DEF Accept
<1>2. CASE Find(h)
  BY <1>2 DEF Find
<1>3. CASE Check(h)
  BY <1>3 DEF Check
<1>4. CASE Count(h)
  BY <1>4 DEF Count
<1>5. CASE Upgrade(h)
  BY <1>5 DEF Upgrade
<1>6. CASE Attach(h) \/ Tell(h) \/ Finish(h)
  BY <1>6 DEF Attach, Tell, Finish
<1> QED
  BY <1>1, <1>2, <1>3, <1>4, <1>5, <1>6 DEF Handle

LEMMA HandleIInv ==
  ASSUME IInv, NEW h \in Dials, Handle(h)
  PROVE  IInv'
<1>1. PICK from, to \in Stages : /\ Advance(h, from, to)
                                 /\ to \in Requests => from \in Requests \/ main = "serving"
  BY HandleStep
<1>2. TypeOK'
  BY <1>1 DEF IInv, TypeOK, Advance
<1>3. NoneUnderWay'
  BY <1>1 DEF IInv, TypeOK, NoneUnderWay, Advance
<1>4. NoneLeft'
  BY <1>1 DEF NoneLeft, Advance, Running
<1> QED
  BY <1>2, <1>3, <1>4 DEF IInv

LEMMA MainIInv == IInv /\ Main => IInv'
<1> SUFFICES ASSUME IInv, Main PROVE IInv'
  OBVIOUS
<1>1. TypeOK'
  BY DEF IInv, TypeOK, Main, MainTo, Signal, ShutdownReturns, CloseAll, WaitReturns, Mains
<1>2. NoneUnderWay'
  BY DEF IInv, NoneUnderWay, Main, MainTo, Signal, ShutdownReturns, CloseAll, WaitReturns
<1>3. NoneLeft'
  BY DEF IInv, NoneLeft, Active, Main, MainTo, Signal, ShutdownReturns, CloseAll, WaitReturns
<1> QED
  BY <1>1, <1>2, <1>3 DEF IInv

LEMMA NextIInv == IInv /\ [Next]_vars => IInv'
<1> SUFFICES ASSUME IInv, [Next]_vars PROVE IInv'
  OBVIOUS
<1>1. CASE Main
  BY <1>1, MainIInv
<1>2. CASE BudgetEnds
  BY <1>2 DEF BudgetEnds, IInv, TypeOK, NoneUnderWay, NoneLeft, Mains
<1>3. CASE OtherEnds \/ UNCHANGED vars
  <2>1. UNCHANGED <<main, budget, stage>> /\ otherBusy' \in BOOLEAN
    BY <1>3 DEF OtherEnds, vars, IInv, TypeOK
  <2> QED
    BY <2>1 DEF IInv, TypeOK, NoneUnderWay, NoneLeft, Active
<1>4. ASSUME NEW h \in Dials, Handle(h) PROVE IInv'
  BY <1>4, HandleIInv
<1> QED
  BY <1>1, <1>2, <1>3, <1>4 DEF Next

\* Every variable has its type, nothing is under way after an unhurried
\* Shutdown, and nothing is left after an unhurried wait (serve.go:172-181).
THEOREM Invariance == Spec => []IInv
BY InitIInv, NextIInv, PTL DEF Spec

\* Every variable has its type, and the budget starts with the signal (TypeOK).
THEOREM TypeCorrect == Spec => []TypeOK
<1>1. IInv => TypeOK
  BY DEF IInv
<1> QED
  BY <1>1, Invariance, PTL

\* A process that ends within its budget leaves no connection behind, whether it
\* was upgraded, about to be, or still a request (ExitCoversAll).
THEOREM NothingCutOff == Spec => []ExitCoversAll
<1>1. IInv => ExitCoversAll
  BY DEF IInv, TypeOK, NoneUnderWay, NoneLeft, ExitCoversAll, Active, Stages, Requests
<1> QED
  BY <1>1, Invariance, PTL

\* active.Add does not come after Wait was called, unless the budget was over
\* (AddsBeforeWait, relay.go:86-88).
THEOREM AddComesFirst == Spec => AddsBeforeWait
<1>1. IInv => \A h \in Dials : Count(h) => budget \/ main \notin {"wait", "exited"}
  BY DEF IInv, NoneUnderWay, Count, Advance, Requests
<1> QED
  BY <1>1, Invariance, PTL DEF AddsBeforeWait

===============================================================================
