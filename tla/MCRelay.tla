-------------------------------- MODULE MCRelay --------------------------------
(***************************************************************************)
(* Three dials: one for the first slot and two for the second, so that a   *)
(* dial meets a taken slot, or follows the connection that had it.  The    *)
(* smaller instances have one dial for each slot.                          *)
(***************************************************************************)
EXTENDS Relay, TLC

CONSTANTS h1, h2, h3

ThreeDials == {h1, h2, h3}
TwoDials == {h1, h2}

MCRoleOf == [h \in Conns |-> IF h = h1 THEN "initiator" ELSE "responder"]

\* Zero: over at the next instant.
MCTTLs == {0}

DeletedOnly == {"deleted"}
ExpiredOnly == {"expired"}

\* The two dials for the same slot are interchangeable.
Redials == Permutations({h2, h3})

===============================================================================
