------------------------------ MODULE MCLeave ------------------------------
(***************************************************************************)
(* Two people of two companies.  One was hired on 12 October 2025 and asks *)
(* for annual leave across 31 December, which twice over is more than      *)
(* there is, and for Hajj.  The other completes five years on 29 December  *)
(* 2026 and has only balances to carry.  One of the inputs is over a cap.  *)
(***************************************************************************)
EXTENDS Leave, TLC

CONSTANTS p1, p2, l1, l2, r1, r2

MCHired == (p1 :> YearStart(2025) + 284) @@ (p2 :> YearStart(2021) + 362)
MCLists == {<<p1, p2>>, <<p1>>}

MCInputs == {
  [emp |-> p1, type |-> "annual", start |-> YearEnd(2025) - 1, days |-> 16],
  [emp |-> p1, type |-> "hajj", start |-> YearStart(2026) + 150, days |-> 15],
  [emp |-> p1, type |-> "hajj", start |-> YearStart(2026) + 150, days |-> 16]}

Alike == Permutations({r1, r2}) \cup Permutations({l1, l2})
=============================================================================
