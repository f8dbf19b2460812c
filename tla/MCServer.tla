------------------------------- MODULE MCServer --------------------------------
(***************************************************************************)
(* Three connections are at most one in each of three different stages.    *)
(***************************************************************************)
EXTENDS Server, TLC

CONSTANTS a, b, c

MCDials == {a, b, c}

Interchangeable == Permutations(MCDials)

===============================================================================
