----------------------------- MODULE MCCredentials ----------------------------
(***************************************************************************)
(* Two processes: one whose two calls meet at its mutex, and one that      *)
(* meets the first in the file and at the issuer.                          *)
(***************************************************************************)
EXTENDS Credentials, TLC

CONSTANTS s1, s2, c1, c2, c3

TwoSources == {s1, s2}
ThreeCalls == {c1, c2, c3}
MCSourceOf == [c \in Calls |-> IF c = c3 THEN s2 ELSE s1]

\* The two calls of one process are interchangeable.
SameProcess == Permutations({c1, c2})

OneSource == {s1}
OneCall == {c1}

===============================================================================
