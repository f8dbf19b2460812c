--------------------------------- MODULE Server --------------------------------
(***************************************************************************)
(* The end of the server's life (cmd/swsrs/serve.go) as the relay's        *)
(* connections see it (internal/relay/relay.go).  The main goroutine lets  *)
(* http.Server.Shutdown wait for the requests, closes every session, and   *)
(* waits for the upgraded connections, all on one budget of five seconds.  *)
(* Shutdown does not know of a connection once it is upgraded; the relay's *)
(* WaitGroup knows of it from before.                                      *)
(*                                                                         *)
(* Sessions are one here: every connection's session is listed and open    *)
(* until CloseAll.  What happens while a connection is attached is Relay.  *)
(***************************************************************************)
EXTENDS Naturals

CONSTANTS Dials   \* the connections dialled to the relay

VARIABLES main,      \* where the main goroutine is
          budget,    \* the five seconds are over
          stage,     \* per connection: how far its handler is
          otherBusy  \* some other request is still being served

vars == <<main, budget, stage, otherBusy>>

Mains == {"serving", "shutdown", "closeAll", "wait", "exited"}

\* http.Server.Shutdown waits for these ...
Requests == {"accepted", "found", "checked", "counted"}
\* ... and not for these.
Hijacked == {"upgraded", "refused", "attached", "told"}

Stages == {"idle", "done"} \union Requests \union Hijacked

Init ==
  /\ main = "serving"
  /\ budget = FALSE
  /\ stage = [h \in Dials |-> "idle"]
  /\ otherBusy \in BOOLEAN

-------------------------------------------------------------------------------
Running == main # "exited"

AllClosed == main \in {"wait", "exited"}

Advance(h, from, to) ==
  /\ Running
  /\ stage[h] = from
  /\ stage' = [stage EXCEPT ![h] = to]
  /\ UNCHANGED <<main, budget, otherBusy>>

\* The listener is open until Shutdown closes it.
Accept(h) == main = "serving" /\ Advance(h, "idle", "accepted")

\* Store.Get and the token: 404 once CloseAll has emptied the map.
Find(h) == Advance(h, "accepted", IF AllClosed THEN "done" ELSE "found")

\* ClosedAt and SlotFree: 410 or 409.
Check(h) ==
  \/ ~AllClosed /\ Advance(h, "found", "checked")
  \/ Advance(h, "found", "done")

\* active.Add, then the upgrade, which may fail.
Count(h) == Advance(h, "checked", "counted")

Upgrade(h) == \E to \in {"upgraded", "done"} : Advance(h, "counted", to)

\* Session.Attach has the last word: refused, it closes the connection itself.
Attach(h) ==
  \/ ~AllClosed /\ Advance(h, "upgraded", "attached")
  \/ Advance(h, "upgraded", "refused")

\* The session's end reaches the connection's watch, which sends the frame.
Tell(h) == AllClosed /\ Advance(h, "attached", "told")

\* The connection is over, for whatever reason, and so is its handler.
Finish(h) == \E from \in {"refused", "attached", "told"} : Advance(h, from, "done")

OtherEnds ==
  /\ Running
  /\ otherBusy
  /\ otherBusy' = FALSE
  /\ UNCHANGED <<main, budget, stage>>

-------------------------------------------------------------------------------
CountsAttached == {h \in Dials : stage[h] \in {"attached", "told"}}    \* mutant

\* The handlers between active.Add and active.Done.
Active == {h \in Dials : stage[h] \in {"counted"} \union Hijacked}

MainTo(from, to) ==
  /\ main = from
  /\ main' = to
  /\ UNCHANGED <<budget, stage, otherBusy>>

Signal == MainTo("serving", "shutdown")

CountedTooLate ==                                                      \* mutant
  /\ budget \/ (~otherBusy /\ \A h \in Dials : stage[h] \notin Requests \ {"checked"})
  /\ MainTo("shutdown", "closeAll")

ShutdownReturns ==
  /\ budget \/ (~otherBusy /\ \A h \in Dials : stage[h] \notin Requests)
  /\ MainTo("shutdown", "closeAll")

CloseAll == MainTo("closeAll", "wait")

WaitsForAll == Active = {} /\ MainTo("wait", "exited")                 \* mutant

WaitReturns == (budget \/ Active = {}) /\ MainTo("wait", "exited")

TimerFromStart ==                                                      \* mutant
  /\ Running
  /\ budget' = TRUE
  /\ UNCHANGED <<main, stage, otherBusy>>

\* context.WithTimeout is made when the signal has come.
BudgetEnds ==
  /\ main \in {"shutdown", "closeAll", "wait"}
  /\ budget' = TRUE
  /\ UNCHANGED <<main, stage, otherBusy>>

Main == Signal \/ ShutdownReturns \/ CloseAll \/ WaitReturns

Handle(h) ==
  \/ Accept(h) \/ Find(h) \/ Check(h) \/ Count(h) \/ Upgrade(h)
  \/ Attach(h) \/ Tell(h) \/ Finish(h)

Next ==
  \/ Main
  \/ BudgetEnds
  \/ OtherEnds
  \/ \E h \in Dials : Handle(h)

Spec == Init /\ [][Next]_vars

\* Once signalled the main goroutine goes on when it can, and five seconds pass.
\* Nothing is assumed of requests and connections.
FairSpec ==
  /\ Spec
  /\ WF_vars(ShutdownReturns) /\ WF_vars(CloseAll) /\ WF_vars(WaitReturns)
  /\ WF_vars(BudgetEnds)

-------------------------------------------------------------------------------
\* Every variable has its type, and the budget is not spent while the server
\* serves (serve.go:172-181).
TypeOK ==
  /\ main \in Mains
  /\ budget \in BOOLEAN
  /\ stage \in [Dials -> Stages]
  /\ otherBusy \in BOOLEAN
  /\ budget => main # "serving"

\* A process that ends within its budget ends after every connection it had
\* upgraded, and with no request in between: the two waits leave no gap
\* (serve.go:176-180, relay.go:44-54, 86-90).
ExitCoversAll ==
  main = "exited" /\ ~budget => \A h \in Dials : stage[h] \in {"idle", "done"}

\* relay.go:86-88: active.Add always happens before Wait is called.  It does as long
\* as Shutdown has not given up on a request when the budget was over.
AddsBeforeWait ==
  [][\A h \in Dials : Count(h) => budget \/ main \notin {"wait", "exited"}]_vars

\* Whatever clients do, a signalled server exits (serve.go:172-181).
ExitFollows == main = "shutdown" ~> main = "exited"

===============================================================================
