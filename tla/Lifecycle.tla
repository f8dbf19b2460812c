------------------------------- MODULE Lifecycle -------------------------------
(***************************************************************************)
(* What a session promises a control plane that polls its status: the      *)
(* phases it may see and their order, told by the number of peers present  *)
(* and nothing else.  A session counts up to two peers and back until it   *)
(* ends, once, for one reason; a single-attach session only counts up, and *)
(* ends with the first peer that leaves.                                   *)
(***************************************************************************)
EXTENDS Naturals

CONSTANTS Endings,   \* the reasons a session may end for, other than a leave
          PeerLeft,  \* the reason of a single-attach session's leave
          Running    \* the reason shown while it has not ended

VARIABLES single,    \* fixed at creation
          present,   \* how many peers are attached, while it runs
          reason,    \* Running, or why it ended
          opened     \* whether both peers were ever attached together

vars == <<single, present, reason, opened>>

Init ==
  /\ single \in BOOLEAN
  /\ present = 0
  /\ reason = Running
  /\ opened = FALSE

Arrive ==
  /\ reason = Running
  /\ present < 2
  /\ present' = present + 1
  /\ opened' = (opened \/ present' = 2)
  /\ UNCHANGED <<single, reason>>

Leave ==
  /\ reason = Running
  /\ present > 0
  /\ present' = present - 1
  /\ reason' = IF single THEN PeerLeft ELSE Running
  /\ UNCHANGED <<single, opened>>

End ==
  /\ reason = Running
  /\ reason' \in Endings
  /\ UNCHANGED <<single, present, opened>>

\* After the end the peers still attached are disconnected one by one.
Drain ==
  /\ reason # Running
  /\ present > 0
  /\ present' = present - 1
  /\ UNCHANGED <<single, reason, opened>>

Next == Arrive \/ Leave \/ End \/ Drain

Spec == Init /\ [][Next]_vars

===============================================================================
