------------------------------- MODULE MCSession -------------------------------
(***************************************************************************)
(* Three connections for two slots, so that a late one meets a taken slot  *)
(* and may follow one that left; lifetimes that end before and after the   *)
(* last instant.                                                           *)
(***************************************************************************)
EXTENDS Session, TLC

CONSTANTS c1, c2, c3

MCConns == {c1, c2, c3}
MCTTLs == {1, 9}

Interchangeable == Permutations(MCConns)

===============================================================================
