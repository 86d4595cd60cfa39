------------------------------ MODULE MCHiring ------------------------------
(***************************************************************************)
(* One candidate, who may be hired directly or come from abroad; requests  *)
(* and employee ids are alike.                                             *)
(***************************************************************************)
EXTENDS Hiring, TLC

CONSTANTS c1, e1, e2, r1, r2

Alike == Permutations({r1, r2}) \cup Permutations({e1, e2})
=============================================================================
