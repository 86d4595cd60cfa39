----------------------------- MODULE MCBilling -----------------------------
(***************************************************************************)
(* Two clients.  Of the first: two fees that may be recorded for the one   *)
(* step (so that a voided fee can be recorded again), a manual fee and two *)
(* invoices; of the second, a fee that is no business of theirs.           *)
(***************************************************************************)
EXTENDS Billing, TLC

CONSTANTS c1, c2, s1, f1, f2, f3, f4, i1, i2, r1, r2

MCSourceOf == (f1 :> s1) @@ (f2 :> s1) @@ (f3 :> Manual) @@ (f4 :> Manual)
MCFeeClient == (f1 :> c1) @@ (f2 :> c1) @@ (f3 :> c1) @@ (f4 :> c2)
MCInvoiceClient == (i1 :> c1) @@ (i2 :> c1)

\* Requests are alike, and so are the two invoices and the fees of the step.
Alike == Permutations({r1, r2}) \cup Permutations({i1, i2}) \cup Permutations({f1, f2})
=============================================================================
