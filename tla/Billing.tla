------------------------------ MODULE Billing ------------------------------
(***************************************************************************)
(* Fees and invoice records as the transactions of fees.service.ts and     *)
(* invoices.service.ts execute them at READ COMMITTED.  A request first    *)
(* reads (an invoice under FOR UPDATE, a fee without a lock), then writes  *)
(* and commits; whatever other requests commit in between, it writes on    *)
(* what it read, or on a condition in the UPDATE itself, which PostgreSQL  *)
(* evaluates on the committed row once it has the row's lock.  From a      *)
(* transaction's first conditional write to its commit its rows are locked *)
(* and its writes unseen, so that stretch is one step here.                *)
(*                                                                         *)
(* By bil_fees_invoice_chk a fee is `invoiced` exactly while it points at  *)
(* an invoice: fee[f] is that invoice.  Left out: days, labels, numbers    *)
(* and invoice amounts (each refused by its own CHECK or index and read by *)
(* no rule here), receipts, the audit entries.                             *)
(***************************************************************************)
EXTENDS FiniteSets

CONSTANTS
  Fees, Invoices, SourceOf, Manual, FeeClient, InvoiceClient,
  Steps,      \* the sequence steps among the sources
  Amounts,
  Requests,
  NoFee, NoInvoice, NoStep

VARIABLES
  fee, invoice,   \* the committed rows, as in FeeLedger
  amount,         \* amount[f]: what was paid, as recorded
  filed,          \* filed[s]: step s is filed (GRO's rows)
  req             \* req[t]: where request t is, and what it has read

\* The ledger's variables are the committed rows; amounts, steps and what requests
\* have read are hidden.
Ledger == INSTANCE FeeLedger WITH fee <- fee, invoice <- invoice

ASSUME BillingAssumption ==
  /\ Ledger!LedgerAssumption
  /\ NoFee \notin Fees /\ NoInvoice \notin Invoices /\ NoStep \notin Steps
  /\ Amounts # {}

vars == <<fee, invoice, amount, filed, req>>

Live(f) == Ledger!Live(f)
On(i) == Ledger!On(i)
Billable(i, F) == Ledger!Billable(i, F)

At(pc, f, i, s, want, held) ==
  [pc |-> pc, fee |-> f, inv |-> i, step |-> s, want |-> want, held |-> held]
Idle == At("idle", NoFee, NoInvoice, NoStep, {}, {})
FeePcs == {"record", "correct", "void"}
InvoicePcs == {"replace", "pay", "unpay", "remove"}

Init ==
  /\ Ledger!Init
  /\ amount \in [Fees -> Amounts]
  /\ filed = [s \in Steps |-> FALSE]
  /\ req = [t \in Requests |-> Idle]

Finish(t) == req' = [req EXCEPT ![t] = Idle]
OnFee(t, pc, f) == req' = [req EXCEPT ![t] = At(pc, f, NoInvoice, NoStep, {}, {})]

-----------------------------------------------------------------------------
(* Fees                                                                    *)

\* create / resolve: the step is read filed before the transaction begins.
RecordResolve(t, f) ==
  /\ req[t] = Idle
  /\ fee[f] = "none" /\ \A u \in Requests : req[u].fee # f
  /\ SourceOf[f] \in Steps => filed[SourceOf[f]]
  /\ OnFee(t, "record", f)
  /\ UNCHANGED <<fee, invoice, amount, filed>>

\* Mutant: without the indexes, what `resolve` read is all there is.
RecordInsert_NoIndex(t) ==
  /\ req[t].pc = "record"
  /\ fee' = [fee EXCEPT ![req[t].fee] = "recorded"]
  /\ Finish(t)
  /\ UNCHANGED <<invoice, amount, filed>>

\* The partial unique indexes are the guard.
RecordInsert(t) ==
  LET f == req[t].fee IN
  /\ req[t].pc = "record"
  /\ fee' = IF \E g \in Ledger!SameSource(f) : Live(g) THEN fee
            ELSE [fee EXCEPT ![f] = "recorded"]
  /\ Finish(t)
  /\ UNCHANGED <<invoice, amount, filed>>

\* update: the status is read, and the row then written by id alone.
CorrectRead(t, f) ==
  /\ req[t] = Idle /\ fee[f] = "recorded"
  /\ OnFee(t, "correct", f)
  /\ UNCHANGED <<fee, invoice, amount, filed>>

CorrectWrite(t) ==
  /\ req[t].pc = "correct"
  /\ \E a \in Amounts : amount' = [amount EXCEPT ![req[t].fee] = a]
  /\ Finish(t)
  /\ UNCHANGED <<fee, invoice, filed>>

\* void: the status is read, and is a condition of the write as well.
VoidRead(t, f) ==
  /\ req[t] = Idle /\ fee[f] = "recorded"
  /\ OnFee(t, "void", f)
  /\ UNCHANGED <<fee, invoice, amount, filed>>

\* Mutant: the write is by id alone, as `update` does it.
VoidWrite_ById(t) ==
  /\ req[t].pc = "void"
  /\ fee' = [fee EXCEPT ![req[t].fee] = "void"]
  /\ Finish(t)
  /\ UNCHANGED <<invoice, amount, filed>>

VoidWrite(t) ==
  LET f == req[t].fee IN
  /\ req[t].pc = "void"
  /\ fee' = IF fee[f] = "recorded" THEN [fee EXCEPT ![f] = "void"] ELSE fee
  /\ Finish(t)
  /\ UNCHANGED <<invoice, amount, filed>>

-----------------------------------------------------------------------------
(* Steps of GRO's runs                                                     *)

FileStep(s) ==
  /\ ~filed[s]
  /\ filed' = [filed EXCEPT ![s] = TRUE]
  /\ UNCHANGED <<fee, invoice, amount, req>>

\* The reopening commits; its event is handled next, inside the same request.
ReopenStep(t, s) ==
  /\ req[t] = Idle /\ filed[s]
  /\ filed' = [filed EXCEPT ![s] = FALSE]
  /\ req' = [req EXCEPT ![t] = At("reopened", NoFee, NoInvoice, s, {}, {})]
  /\ UNCHANGED <<fee, invoice, amount>>

\* voidForReopenedStep: the step's live fee, if it is still recorded, is voided
\* as `void` voids it (whose own read refuses nothing its write does not).
StepReopened(t) ==
  LET live == {f \in Fees : SourceOf[f] = req[t].step /\ Live(f)} IN
  /\ req[t].pc = "reopened"
  /\ IF \E f \in live : fee[f] = "recorded"
       THEN \E f \in live : OnFee(t, "void", f)
       ELSE Finish(t)
  /\ UNCHANGED <<fee, invoice, amount, filed>>

-----------------------------------------------------------------------------
(* Invoice records                                                         *)

\* create: the record is inserted and `link` takes its fees, or the whole rolls
\* back.
CreateInvoice(i, F) ==
  /\ invoice[i] = "none" /\ Billable(i, F)
  /\ invoice' = [invoice EXCEPT ![i] = "sent"]
  /\ fee' = [f \in Fees |-> IF f \in F THEN i ELSE fee[f]]
  /\ UNCHANGED <<amount, filed, req>>

\* lock: SELECT ... FOR UPDATE waits for whoever holds the row, then reads the
\* record and the fees it recovers.
\* Mutant: the record is read without FOR UPDATE.
Unlocked_Always(i) == i \in Invoices
Unlocked(i) == \A u \in Requests : req[u].inv # i

Lock(t, i, pc, F) ==
  /\ req[t] = Idle /\ Unlocked(i)
  /\ req' = [req EXCEPT ![t] = At(pc, NoFee, i, NoStep, F, On(i))]
  /\ UNCHANGED <<fee, invoice, amount, filed>>

\* Mutant: a paid record may be corrected too.
UpdateLock_PaidToo(t, i, F) == invoice[i] \in {"sent", "paid"} /\ Lock(t, i, "replace", F)

UpdateLock(t, i, F) == invoice[i] = "sent" /\ Lock(t, i, "replace", F)
PaidLock(t, i)      == invoice[i] = "sent" /\ Lock(t, i, "pay", {})
UnpaidLock(t, i)    == invoice[i] = "paid" /\ Lock(t, i, "unpay", {})
RemoveLock(t, i)    == invoice[i] = "sent" /\ On(i) = {} /\ Lock(t, i, "remove", {})

\* update: drop what is left out, then link what is added, or roll back.
UpdateWrite(t) ==
  LET i == req[t].inv
      drop == {f \in req[t].held \ req[t].want : fee[f] = i}
      add == req[t].want \ req[t].held
  IN
  /\ req[t].pc = "replace"
  /\ fee' = IF Billable(i, add)
              THEN [f \in Fees |-> IF f \in add THEN i
                                   ELSE IF f \in drop THEN "recorded" ELSE fee[f]]
              ELSE fee
  /\ Finish(t)
  /\ UNCHANGED <<invoice, amount, filed>>

SetInvoice(t, pc, s) ==
  /\ req[t].pc = pc
  /\ invoice' = [invoice EXCEPT ![req[t].inv] = s]
  /\ Finish(t)
  /\ UNCHANGED <<fee, amount, filed>>

\* Mutant: the record takes the fee's standing.
PaidWrite_Invoiced(t) == SetInvoice(t, "pay", "invoiced")

PaidWrite(t)   == SetInvoice(t, "pay", "paid")
UnpaidWrite(t) == SetInvoice(t, "unpay", "sent")
RemoveWrite(t) == SetInvoice(t, "remove", "removed")

\* A statement fails or the process stops: nothing of the transaction is kept,
\* and a reopening's event is lost.
Fail(t) == req[t] # Idle /\ Finish(t) /\ UNCHANGED <<fee, invoice, amount, filed>>

-----------------------------------------------------------------------------
FeeStep(t) ==
  \/ \E f \in Fees : RecordResolve(t, f) \/ CorrectRead(t, f) \/ VoidRead(t, f)
  \/ RecordInsert(t) \/ CorrectWrite(t) \/ VoidWrite(t)
  \/ \E s \in Steps : ReopenStep(t, s)
  \/ StepReopened(t)

InvoiceStep(t) ==
  \/ \E i \in Invoices, F \in SUBSET Fees : UpdateLock(t, i, F)
  \/ \E i \in Invoices : PaidLock(t, i) \/ UnpaidLock(t, i) \/ RemoveLock(t, i)
  \/ UpdateWrite(t) \/ PaidWrite(t) \/ UnpaidWrite(t) \/ RemoveWrite(t)

Next ==
  \/ \E t \in Requests : FeeStep(t) \/ InvoiceStep(t) \/ Fail(t)
  \/ \E s \in Steps : FileStep(s)
  \/ \E i \in Invoices, F \in SUBSET Fees : CreateInvoice(i, F)

Spec == Init /\ [][Next]_vars
-----------------------------------------------------------------------------
TypeOK ==
  /\ fee \in [Fees -> {"none", "recorded", "void"} \cup Invoices]
  /\ invoice \in [Invoices -> {"none", "sent", "paid", "removed"}]
  /\ amount \in [Fees -> Amounts]
  /\ filed \in [Steps -> BOOLEAN]
  /\ req \in [Requests -> [pc : {"idle", "reopened"} \cup FeePcs \cup InvoicePcs,
                           fee : Fees \cup {NoFee}, inv : Invoices \cup {NoInvoice},
                           step : Steps \cup {NoStep},
                           want : SUBSET Fees, held : SUBSET Fees]]

\* A fee is recovered by a record that stands, of its own client: no record is
\* removed under a fee that is being put on it.
Recovery ==
  \A f \in Fees : fee[f] \in Invoices =>
    invoice[fee[f]] \in {"sent", "paid"} /\ FeeClient[f] = InvoiceClient[fee[f]]

\* "One live fee per step or procedure (a check-then-write would race)."
OneLiveFeePerSource ==
  \A f, g \in Fees :
    Live(f) /\ Live(g) /\ SourceOf[f] = SourceOf[g] /\ SourceOf[f] # Manual => f = g

\* "A paid record is settled": from the moment it is paid until it is marked
\* unpaid, it recovers the same fees.
PaidIsSettled ==
  [][\A i \in Invoices :
       invoice[i] = "paid" /\ invoice'[i] = "paid" => On(i)' = On(i)]_vars

\* The transactions implement the ledger, whatever interleaves and whatever fails.
ImplementsLedger == Ledger!Spec

\* What fees.service.ts says of `update`: "corrections only while recorded".
CorrectedOnlyWhileRecorded ==
  [][\A f \in Fees : amount'[f] # amount[f] => fee[f] = "recorded"]_vars
=============================================================================
