----------------------------- MODULE FeeLedger -----------------------------
(***************************************************************************)
(* What Billing promises of its ledger of government fees and its invoice  *)
(* records (the comments at the head of fees.service.ts and                *)
(* invoices.service.ts), as if every operation were one indivisible step.  *)
(* Billing describes the transactions that implement it.                   *)
(***************************************************************************)
CONSTANTS
  Fees,        \* ids of fees
  Invoices,    \* ids of invoice records
  SourceOf,    \* what a fee pays for: a step, a procedure, or Manual
  Manual,
  FeeClient,   \* the client a fee is charged to
  InvoiceClient

LedgerAssumption ==
  /\ Invoices \cap {"none", "recorded", "void"} = {}
  /\ DOMAIN SourceOf = Fees /\ DOMAIN FeeClient = Fees
  /\ DOMAIN InvoiceClient = Invoices

VARIABLES
  fee,      \* fee[f]: "none", "recorded", "void", or the invoice it is on
  invoice   \* invoice[i]: "none", "sent", "paid", "removed"

vars == <<fee, invoice>>

Live(f) == fee[f] \notin {"none", "void"}
On(i) == {f \in Fees : fee[f] = i}
\* The fees of F may go on invoice i: this client's, and still recorded.
Billable(i, F) == \A f \in F : fee[f] = "recorded" /\ FeeClient[f] = InvoiceClient[i]
SameSource(f) == {g \in Fees : SourceOf[g] = SourceOf[f] /\ SourceOf[f] # Manual}

Init == fee = [f \in Fees |-> "none"] /\ invoice = [i \in Invoices |-> "none"]

\* One live fee per step or procedure.
Record(f) ==
  /\ fee[f] = "none" /\ \A g \in SameSource(f) : ~Live(g)
  /\ fee' = [fee EXCEPT ![f] = "recorded"]
  /\ UNCHANGED invoice

\* An invoiced fee is never voided, and no fee is deleted.
Void(f) ==
  /\ fee[f] = "recorded"
  /\ fee' = [fee EXCEPT ![f] = "void"]
  /\ UNCHANGED invoice

\* All or nothing: the record is entered with every fee it recovers.
Enter(i, F) ==
  /\ invoice[i] = "none" /\ Billable(i, F)
  /\ invoice' = [invoice EXCEPT ![i] = "sent"]
  /\ fee' = [f \in Fees |-> IF f \in F THEN i ELSE fee[f]]

\* The set is replaced: a fee left out goes back to waiting.
Replace(i, F) ==
  /\ invoice[i] = "sent" /\ Billable(i, F \ On(i))
  /\ fee' = [f \in Fees |-> IF f \in F THEN i
                            ELSE IF f \in On(i) THEN "recorded" ELSE fee[f]]
  /\ UNCHANGED invoice

MarkPaid(i) ==
  /\ invoice[i] = "sent"
  /\ invoice' = [invoice EXCEPT ![i] = "paid"]
  /\ UNCHANGED fee

MarkUnpaid(i) ==
  /\ invoice[i] = "paid"
  /\ invoice' = [invoice EXCEPT ![i] = "sent"]
  /\ UNCHANGED fee

\* Only a record that is unpaid and recovers no fee.
Remove(i) ==
  /\ invoice[i] = "sent" /\ On(i) = {}
  /\ invoice' = [invoice EXCEPT ![i] = "removed"]
  /\ UNCHANGED fee

Next ==
  \/ \E f \in Fees : Record(f) \/ Void(f)
  \/ \E i \in Invoices : MarkPaid(i) \/ MarkUnpaid(i) \/ Remove(i)
  \/ \E i \in Invoices, F \in SUBSET Fees : Enter(i, F) \/ Replace(i, F)

Spec == Init /\ [][Next]_vars
=============================================================================
