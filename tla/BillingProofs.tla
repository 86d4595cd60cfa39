--------------------------- MODULE BillingProofs ---------------------------
(***************************************************************************)
(* The transactions of Billing implement the ledger of FeeLedger, for any  *)
(* fees, invoices, sources and requests, and what follows from it.         *)
(***************************************************************************)
EXTENDS Billing, TLAPS

Pcs == {"idle", "reopened"} \cup FeePcs \cup InvoicePcs
RequestType == [pc : Pcs, fee : Fees \cup {NoFee}, inv : Invoices \cup {NoInvoice},
                step : Steps \cup {NoStep}, want : SUBSET Fees, held : SUBSET Fees]

\* A request under way knows its fee, or its invoice.
WellFormed ==
  \A t \in Requests :
    /\ req[t].pc \in FeePcs => req[t].fee \in Fees
    /\ req[t].pc \in InvoicePcs <=> req[t].inv \in Invoices

Typed == TypeOK /\ WellFormed

-----------------------------------------------------------------------------
(* Typing                                                                  *)

LEMMA TypedInit == Init => Typed
BY BillingAssumption
   DEF Init, Ledger!Init, Typed, TypeOK, WellFormed, Idle, At, FeePcs, InvoicePcs

\* Placing a request anywhere it may be keeps requests typed and well formed.
LEMMA Placing ==
  ASSUME Typed, NEW t \in Requests, NEW pc \in Pcs, NEW f \in Fees \cup {NoFee},
         NEW i \in Invoices \cup {NoInvoice}, NEW s \in Steps \cup {NoStep},
         NEW W \in SUBSET Fees, NEW H \in SUBSET Fees,
         pc \in FeePcs => f \in Fees, pc \in InvoicePcs <=> i \in Invoices,
         req' = [req EXCEPT ![t] = At(pc, f, i, s, W, H)]
  PROVE  /\ req' \in [Requests -> RequestType] /\ WellFormed'
         /\ req'[t] = At(pc, f, i, s, W, H)
         /\ \A u \in Requests \ {t} : req'[u] = req[u]
BY DEF Typed, TypeOK, WellFormed, RequestType, Pcs, At

LEMMA Finishing ==
  ASSUME Typed, NEW t \in Requests, Finish(t)
  PROVE  /\ req' \in [Requests -> RequestType] /\ WellFormed' /\ req'[t] = Idle
         /\ \A u \in Requests \ {t} : req'[u] = req[u]
<1>1. /\ "idle" \in Pcs /\ {} \in SUBSET Fees
      /\ "idle" \in FeePcs => NoFee \in Fees
      /\ "idle" \in InvoicePcs <=> NoInvoice \in Invoices
  BY BillingAssumption DEF Pcs, FeePcs, InvoicePcs
<1>2. req' = [req EXCEPT ![t] = At("idle", NoFee, NoInvoice, NoStep, {}, {})]
  BY DEF Finish, Idle
<1>3. QED BY <1>1, <1>2, Placing DEF Idle

LEMMA OnFeePlaces ==
  ASSUME Typed, NEW t \in Requests, NEW f \in Fees, NEW pc \in FeePcs, OnFee(t, pc, f)
  PROVE  /\ req' \in [Requests -> RequestType] /\ WellFormed'
         /\ req'[t] = At(pc, f, NoInvoice, NoStep, {}, {})
         /\ \A u \in Requests \ {t} : req'[u] = req[u]
<1>1. /\ pc \in Pcs /\ {} \in SUBSET Fees
      /\ pc \in InvoicePcs <=> NoInvoice \in Invoices
  BY BillingAssumption DEF Pcs, FeePcs, InvoicePcs
<1>2. QED BY <1>1, Placing DEF OnFee

LEMMA LockPlaces ==
  ASSUME Typed, NEW t \in Requests, NEW i \in Invoices, NEW pc \in InvoicePcs,
         NEW F \in SUBSET Fees, Lock(t, i, pc, F)
  PROVE  /\ req' \in [Requests -> RequestType] /\ WellFormed'
         /\ req'[t] = At(pc, NoFee, i, NoStep, F, On(i))
         /\ \A u \in Requests \ {t} : req'[u] = req[u]
<1>1. On(i) \in SUBSET Fees
  BY DEF On, Ledger!On
<1>2. QED
  BY <1>1, Placing, BillingAssumption DEF Lock, Pcs, FeePcs, InvoicePcs

LEMMA TypedNext == Typed /\ [Next]_vars => Typed'
<1> SUFFICES ASSUME Typed, [Next]_vars PROVE Typed'
  OBVIOUS
<1> DEFINE Rows == /\ fee' \in [Fees -> {"none", "recorded", "void"} \cup Invoices]
                   /\ invoice' \in [Invoices -> {"none", "sent", "paid", "removed"}]
                   /\ amount' \in [Fees -> Amounts]
                   /\ filed' \in [Steps -> BOOLEAN]
           Reqs == req' \in [Requests -> RequestType] /\ WellFormed'
<1> SUFFICES Rows /\ Reqs
  BY DEF Typed, TypeOK, RequestType, Pcs
<1> HIDE DEF Reqs
<1>t. /\ fee \in [Fees -> {"none", "recorded", "void"} \cup Invoices]
      /\ invoice \in [Invoices -> {"none", "sent", "paid", "removed"}]
      /\ amount \in [Fees -> Amounts] /\ filed \in [Steps -> BOOLEAN]
      /\ \A t \in Requests : req[t].pc \in FeePcs => req[t].fee \in Fees
      /\ \A t \in Requests : req[t].pc \in InvoicePcs => req[t].inv \in Invoices
  BY DEF Typed, TypeOK, WellFormed
<1>f. ASSUME NEW t \in Requests, Finish(t) PROVE Reqs
  BY <1>f, Finishing DEF Reqs
<1>o. ASSUME NEW t \in Requests, NEW f \in Fees, NEW pc \in FeePcs, OnFee(t, pc, f) PROVE Reqs
  BY <1>o, OnFeePlaces DEF Reqs
<1>1. ASSUME NEW t \in Requests, FeeStep(t) PROVE Rows /\ Reqs
  <2>1. ASSUME NEW f \in Fees, RecordResolve(t, f) \/ CorrectRead(t, f) \/ VoidRead(t, f)
        PROVE  Rows /\ Reqs
    BY <2>1, <1>t, <1>o DEF RecordResolve, CorrectRead, VoidRead, FeePcs
  <2>2. CASE RecordInsert(t) BY <2>2, <1>t, <1>f DEF RecordInsert, FeePcs
  <2>3. CASE CorrectWrite(t) BY <2>3, <1>t, <1>f DEF CorrectWrite, FeePcs
  <2>4. CASE VoidWrite(t) BY <2>4, <1>t, <1>f DEF VoidWrite, FeePcs
  <2>5. ASSUME NEW s \in Steps, ReopenStep(t, s) PROVE Rows /\ Reqs
    <3>1. /\ "reopened" \in Pcs /\ {} \in SUBSET Fees
          /\ "reopened" \in FeePcs => NoFee \in Fees
          /\ "reopened" \in InvoicePcs <=> NoInvoice \in Invoices
      BY BillingAssumption DEF Pcs, FeePcs, InvoicePcs
    <3>2. Reqs
      BY <2>5, <3>1, Placing DEF ReopenStep, Reqs
    <3>3. QED BY <2>5, <3>2, <1>t DEF ReopenStep
  <2>6. CASE StepReopened(t) BY <2>6, <1>t, <1>f, <1>o DEF StepReopened, FeePcs
  <2>7. QED BY <1>1, <2>1, <2>2, <2>3, <2>4, <2>5, <2>6 DEF FeeStep
<1>2. ASSUME NEW t \in Requests, InvoiceStep(t) PROVE Rows /\ Reqs
  <2>1. ASSUME NEW i \in Invoices, NEW F \in SUBSET Fees, NEW pc \in InvoicePcs, Lock(t, i, pc, F)
        PROVE  Rows /\ Reqs
    BY <2>1, <1>t, LockPlaces DEF Lock, Reqs
  <2>2. CASE UpdateWrite(t)
    BY <2>2, <1>t, <1>f DEF UpdateWrite, InvoicePcs
  <2>3. CASE PaidWrite(t) \/ UnpaidWrite(t) \/ RemoveWrite(t)
    BY <2>3, <1>t, <1>f DEF PaidWrite, UnpaidWrite, RemoveWrite, SetInvoice, InvoicePcs
  <2>4. QED
    BY <1>2, <2>1, <2>2, <2>3
       DEF InvoiceStep, UpdateLock, PaidLock, UnpaidLock, RemoveLock, InvoicePcs
<1>3. ASSUME NEW t \in Requests, Fail(t) PROVE Rows /\ Reqs
  BY <1>3, <1>t, <1>f DEF Fail
<1>4. ASSUME NEW s \in Steps, FileStep(s) PROVE Rows /\ Reqs
  BY <1>4, <1>t DEF FileStep, Reqs, Typed, TypeOK, WellFormed, RequestType, Pcs
<1>5. ASSUME NEW i \in Invoices, NEW F \in SUBSET Fees, CreateInvoice(i, F) PROVE Rows /\ Reqs
  BY <1>5, <1>t DEF CreateInvoice, Reqs, Typed, TypeOK, WellFormed, RequestType, Pcs
<1>6. CASE UNCHANGED vars
  BY <1>6, <1>t DEF vars, Reqs, Typed, TypeOK, WellFormed, RequestType, Pcs
<1>7. QED BY <1>1, <1>2, <1>3, <1>4, <1>5, <1>6 DEF Next

\* TypeOK, whatever the requests do.
THEOREM Typing == Spec => []TypeOK
<1>1. Spec => []Typed
  BY TypedInit, TypedNext, PTL DEF Spec
<1>2. QED BY <1>1, PTL DEF Typed

-----------------------------------------------------------------------------
(* What a request has read and may still rely on when it writes.  Of an    *)
(* invoice it holds: its status and the fees on it, since whoever changes  *)
(* either holds the invoice, or adds fees to one nobody can see yet.  Of a *)
(* fee it is about to record: that no other request knows its id.          *)

StillSo(pc, f, i, held) ==
  /\ pc \in {"replace", "pay", "remove"} => invoice[i] = "sent"
  /\ pc = "unpay" => invoice[i] = "paid"
  /\ pc \in InvoicePcs => \A g \in Fees : g \in held <=> fee[g] = i
  /\ pc = "remove" => \A g \in Fees : fee[g] # i
  /\ pc = "record" => fee[f] = "none"

Apart ==
  \A t, u \in Requests : t # u =>
    /\ req[t].inv \in Invoices => req[u].inv # req[t].inv
    /\ req[t].pc = "record" => req[u].fee # req[t].fee

Reads ==
  /\ Apart
  /\ \A t \in Requests : StillSo(req[t].pc, req[t].fee, req[t].inv, req[t].held)

LEMMA ReadsInit == Init => Reads
BY BillingAssumption DEF Init, Reads, Apart, StillSo, Idle, At, InvoicePcs

\* A request that has just been placed, or is done, while no row changes.
LEMMA QuietReads ==
  ASSUME Typed, Reads, NEW t \in Requests, UNCHANGED <<fee, invoice>>,
         \A u \in Requests \ {t} : req'[u] = req[u],
         StillSo(req'[t].pc, req'[t].fee, req'[t].inv, req'[t].held),
         \A u \in Requests \ {t} :
           /\ req'[t].inv \in Invoices => req[u].inv # req'[t].inv
           /\ req'[t].pc = "record" => req[u].fee # req'[t].fee
           /\ req[u].pc = "record" => req'[t].fee # req[u].fee
  PROVE  Reads'
<1>1. Apart'
  BY DEF Reads, Apart
<1>2. ASSUME NEW u \in Requests
      PROVE  StillSo(req[u].pc, req[u].fee, req[u].inv, req[u].held)'
  <2>1. StillSo(req'[u].pc, req'[u].fee, req'[u].inv, req'[u].held)
    BY DEF Reads
  <2>2. QED BY <2>1 DEF StillSo
<1>3. QED BY <1>1, <1>2 DEF Reads

\* What another request relies on is left alone by the step.
Untouched(u) ==
  /\ req[u].pc \in InvoicePcs =>
       /\ invoice'[req[u].inv] = invoice[req[u].inv]
       /\ \A g \in Fees : fee'[g] = req[u].inv <=> fee[g] = req[u].inv
  /\ req[u].pc = "record" => fee'[req[u].fee] = "none"

LEMMA UntouchedRelies ==
  ASSUME NEW u \in Requests, Untouched(u), req'[u] = req[u],
         StillSo(req[u].pc, req[u].fee, req[u].inv, req[u].held)
  PROVE  StillSo(req[u].pc, req[u].fee, req[u].inv, req[u].held)'
BY DEF StillSo, InvoicePcs, Untouched

\* A commit by a request that is then done.
LEMMA OwnCommit ==
  ASSUME Typed, Reads, NEW t \in Requests, Finish(t),
         \A u \in Requests \ {t} : Untouched(u)
  PROVE  Reads'
<1>1. req'[t] = Idle /\ \A u \in Requests \ {t} : req'[u] = req[u]
  BY Finishing
<1>2. Apart'
  BY <1>1, BillingAssumption DEF Reads, Apart, Idle, At, Typed, WellFormed, FeePcs
<1>3. ASSUME NEW u \in Requests
      PROVE  StillSo(req[u].pc, req[u].fee, req[u].inv, req[u].held)'
  <2>1. CASE u = t
    BY <2>1, <1>1 DEF StillSo, Idle, At, InvoicePcs
  <2>2. CASE u # t
    BY <2>2, <1>1, UntouchedRelies DEF Reads
  <2>3. QED BY <2>1, <2>2
<1>4. QED BY <1>2, <1>3 DEF Reads

\* A step by no request under way.
LEMMA OthersStep ==
  ASSUME Typed, Reads, req' = req, \A u \in Requests : Untouched(u)
  PROVE  Reads'
<1>1. Apart'
  BY DEF Reads, Apart
<1>2. ASSUME NEW u \in Requests
      PROVE  StillSo(req[u].pc, req[u].fee, req[u].inv, req[u].held)'
  BY UntouchedRelies DEF Reads
<1>3. QED BY <1>1, <1>2 DEF Reads

LEMMA ReadsNext == Typed /\ Reads /\ [Next]_vars => Reads'
<1> SUFFICES ASSUME Typed, Reads, [Next]_vars PROVE Reads'
  OBVIOUS
<1>t. /\ fee \in [Fees -> {"none", "recorded", "void"} \cup Invoices]
      /\ invoice \in [Invoices -> {"none", "sent", "paid", "removed"}]
      /\ \A t \in Requests : req[t].pc \in FeePcs => req[t].fee \in Fees
      /\ \A t \in Requests : req[t].pc \in InvoicePcs <=> req[t].inv \in Invoices
  BY DEF Typed, TypeOK, WellFormed
<1>r. /\ Apart
      /\ \A t \in Requests : StillSo(req[t].pc, req[t].fee, req[t].inv, req[t].held)
  BY DEF Reads
<1>a. Invoices \cap {"none", "recorded", "void"} = {} /\ NoFee \notin Fees /\ NoInvoice \notin Invoices
  BY BillingAssumption DEF Ledger!LedgerAssumption
<1>s. \A u \in Requests : req[u].pc = "record" =>
        req[u].fee \in Fees /\ fee[req[u].fee] = "none" /\ req[u].fee # NoFee
  BY <1>t, <1>r, <1>a DEF FeePcs, StillSo
\* Requests that place themselves on a fee, on an invoice, or finish quietly.
<1>o. ASSUME NEW t \in Requests, NEW f \in Fees, NEW pc \in FeePcs, OnFee(t, pc, f),
             UNCHANGED <<fee, invoice>>, fee[f] # "none" \/ (\A u \in Requests : req[u].fee # f),
             pc = "record" => fee[f] = "none"
      PROVE  Reads'
  <2>1. req'[t] = At(pc, f, NoInvoice, NoStep, {}, {}) /\ \A u \in Requests \ {t} : req'[u] = req[u]
    BY <1>o, OnFeePlaces
  <2>2. req'[t].pc = pc /\ req'[t].fee = f /\ req'[t].inv = NoInvoice /\ req'[t].held = {}
    BY <2>1 DEF At
  <2>3. StillSo(pc, f, NoInvoice, {})
    BY <1>o DEF StillSo, FeePcs, InvoicePcs
  <2>4. \A u \in Requests \ {t} :
           /\ req'[t].inv \in Invoices => req[u].inv # req'[t].inv
           /\ req'[t].pc = "record" => req[u].fee # req'[t].fee
           /\ req[u].pc = "record" => req'[t].fee # req[u].fee
    BY <2>2, <1>o, <1>a, <1>s
  <2>5. QED
    BY <1>o, <2>1, <2>2, <2>3, <2>4, QuietReads
<1>l. ASSUME NEW t \in Requests, NEW i \in Invoices, NEW pc \in InvoicePcs, NEW F \in SUBSET Fees,
             Lock(t, i, pc, F), pc \in {"replace", "pay", "remove"} => invoice[i] = "sent",
             pc = "unpay" => invoice[i] = "paid", pc = "remove" => On(i) = {}
      PROVE  Reads'
  <2>1. req'[t] = At(pc, NoFee, i, NoStep, F, On(i)) /\ \A u \in Requests \ {t} : req'[u] = req[u]
    BY <1>l, LockPlaces
  <2>2. req'[t].pc = pc /\ req'[t].fee = NoFee /\ req'[t].inv = i /\ req'[t].held = On(i)
    BY <2>1 DEF At
  <2>3. StillSo(pc, NoFee, i, On(i))
    BY <1>l DEF StillSo, On, Ledger!On, InvoicePcs
  <2>4. \A u \in Requests \ {t} :
           /\ req'[t].inv \in Invoices => req[u].inv # req'[t].inv
           /\ req'[t].pc = "record" => req[u].fee # req'[t].fee
           /\ req[u].pc = "record" => req'[t].fee # req[u].fee
    BY <2>2, <1>l, <1>s DEF Lock, Unlocked, InvoicePcs
  <2>5. UNCHANGED <<fee, invoice>>
    BY <1>l DEF Lock
  <2>6. QED
    BY <2>1, <2>2, <2>3, <2>4, <2>5, QuietReads
<1>f. ASSUME NEW t \in Requests, Finish(t), UNCHANGED <<fee, invoice>> PROVE Reads'
  <2>1. \A u \in Requests \ {t} : Untouched(u)
    BY <1>f, <1>s DEF Untouched
  <2>2. QED BY <1>f, <2>1, OwnCommit
<1>1. ASSUME NEW t \in Requests, FeeStep(t) PROVE Reads'
  <2>1. ASSUME NEW f \in Fees, RecordResolve(t, f) \/ CorrectRead(t, f) \/ VoidRead(t, f)
        PROVE  Reads'
    BY <2>1, <1>o DEF RecordResolve, CorrectRead, VoidRead, FeePcs
  <2>2. CASE RecordInsert(t)
    <3>1. /\ req[t].pc = "record" /\ req[t].fee \in Fees /\ Finish(t) /\ invoice' = invoice
          /\ \A g \in Fees \ {req[t].fee} : fee'[g] = fee[g]
          /\ fee[req[t].fee] = "none" /\ fee'[req[t].fee] \in {"none", "recorded"}
      BY <2>2, <1>t, <1>s DEF RecordInsert
    <3>2. \A u \in Requests \ {t} : req[u].fee # req[t].fee
      BY <3>1, <1>r DEF Apart
    <3>3. \A u \in Requests \ {t} : Untouched(u)
      BY <3>1, <3>2, <1>t, <1>a, <1>s DEF Untouched
    <3>4. QED BY <3>1, <3>3, OwnCommit
  <2>3. CASE CorrectWrite(t) BY <2>3, <1>f DEF CorrectWrite
  <2>4. CASE VoidWrite(t)
    <3>0. req[t].pc = "void" /\ req[t].fee \in Fees
      BY <2>4, <1>t DEF VoidWrite, FeePcs
    <3>1. /\ Finish(t) /\ invoice' = invoice
          /\ \A g \in Fees : fee'[g] = fee[g] \/ (fee[g] = "recorded" /\ fee'[g] = "void")
      BY <2>4, <3>0, <1>t DEF VoidWrite
    <3>2. \A u \in Requests \ {t} : Untouched(u)
      BY <3>1, <1>t, <1>a, <1>s DEF Untouched
    <3>3. QED BY <3>1, <3>2, OwnCommit
  <2>5. ASSUME NEW s \in Steps, ReopenStep(t, s) PROVE Reads'
    <3>1. req'[t] = At("reopened", NoFee, NoInvoice, s, {}, {})
          /\ \A u \in Requests \ {t} : req'[u] = req[u]
      BY <2>5 DEF ReopenStep, Typed, TypeOK
    <3>2. QED
      BY <2>5, <3>1, <1>s, <1>a, QuietReads DEF ReopenStep, At, StillSo, InvoicePcs
  <2>6. CASE StepReopened(t)
    BY <2>6, <1>f, <1>o DEF StepReopened, FeePcs, Live, Ledger!Live
  <2>7. QED BY <1>1, <2>1, <2>2, <2>3, <2>4, <2>5, <2>6 DEF FeeStep
<1>2. ASSUME NEW t \in Requests, InvoiceStep(t) PROVE Reads'
  <2> DEFINE i == req[t].inv
  <2>0. ASSUME i \in Invoices
        PROVE  \A u \in Requests \ {t} : req[u].pc \in InvoicePcs => req[u].inv \in Invoices \ {i}
    BY <2>0, <1>t, <1>r DEF Apart
  <2>1. ASSUME NEW j \in Invoices, NEW F \in SUBSET Fees, UpdateLock(t, j, F) PROVE Reads'
    BY <2>1, <1>l DEF UpdateLock, InvoicePcs
  <2>2. ASSUME NEW j \in Invoices, PaidLock(t, j) \/ UnpaidLock(t, j) \/ RemoveLock(t, j)
        PROVE  Reads'
    BY <2>2, <1>l DEF PaidLock, UnpaidLock, RemoveLock, InvoicePcs
  <2>3. CASE UpdateWrite(t)
    <3>1. i \in Invoices /\ Finish(t) /\ invoice' = invoice
      BY <2>3, <1>t DEF UpdateWrite, InvoicePcs
    <3>2. \A g \in Fees : \/ fee'[g] = fee[g]
                          \/ fee[g] = "recorded" /\ fee'[g] = i
                          \/ fee[g] = i /\ fee'[g] = "recorded"
      BY <2>3, <1>t DEF UpdateWrite, Billable, Ledger!Billable
    <3>3. \A u \in Requests \ {t} : Untouched(u)
      BY <3>1, <3>2, <2>0, <1>s, <1>t, <1>a DEF Untouched
    <3>4. QED BY <3>1, <3>3, OwnCommit
  <2>4. CASE PaidWrite(t) \/ UnpaidWrite(t) \/ RemoveWrite(t)
    <3>1. /\ i \in Invoices /\ fee' = fee /\ Finish(t)
          /\ \A j \in Invoices \ {i} : invoice'[j] = invoice[j]
      BY <2>4, <1>t DEF PaidWrite, UnpaidWrite, RemoveWrite, SetInvoice, InvoicePcs
    <3>2. \A u \in Requests \ {t} : Untouched(u)
      BY <3>1, <2>0, <1>s DEF Untouched
    <3>3. QED BY <3>1, <3>2, OwnCommit
  <2>5. QED BY <1>2, <2>1, <2>2, <2>3, <2>4 DEF InvoiceStep
<1>3. ASSUME NEW t \in Requests, Fail(t) PROVE Reads'
  BY <1>3, <1>f DEF Fail
<1>4. ASSUME NEW s \in Steps, FileStep(s) PROVE Reads'
  BY <1>4, <1>r DEF FileStep, Reads, Apart, StillSo
<1>5. ASSUME NEW i \in Invoices, NEW F \in SUBSET Fees, CreateInvoice(i, F) PROVE Reads'
  <2>0. invoice[i] = "none" /\ req' = req /\ \A j \in Invoices \ {i} : invoice'[j] = invoice[j]
    BY <1>5, <1>t DEF CreateInvoice
  <2>1. \A g \in Fees : fee'[g] = fee[g] \/ (fee[g] = "recorded" /\ fee'[g] = i)
    BY <1>5 DEF CreateInvoice, Billable, Ledger!Billable
  <2>2. \A u \in Requests : req[u].pc \in InvoicePcs => req[u].inv \in Invoices \ {i}
    BY <2>0, <1>t, <1>r DEF StillSo, InvoicePcs
  <2>3. \A u \in Requests : Untouched(u)
    BY <2>0, <2>1, <2>2, <1>s, <1>t, <1>a DEF Untouched
  <2>4. QED BY <2>0, <2>3, OthersStep
<1>6. CASE UNCHANGED vars
  BY <1>6, <1>r DEF vars, Reads, Apart, StillSo
<1>7. QED BY <1>1, <1>2, <1>3, <1>4, <1>5, <1>6 DEF Next

IInv == Typed /\ Reads

LEMMA Inductive == Spec => []IInv
<1>1. Init => IInv
  BY TypedInit, ReadsInit DEF IInv
<1>2. IInv /\ [Next]_vars => IInv'
  BY TypedNext, ReadsNext DEF IInv
<1>3. QED BY <1>1, <1>2, PTL DEF Spec

-----------------------------------------------------------------------------
(* The transactions implement the ledger: a read, a lock, a failure and a  *)
(* step of a run change nothing of it; every commit is a step of it or,    *)
(* when an index or a condition refuses the write, nothing.                *)

LEMMA StepImplements == IInv /\ [Next]_vars => [Ledger!Next]_(Ledger!vars)
<1> SUFFICES ASSUME IInv, [Next]_vars PROVE Ledger!Next \/ UNCHANGED <<fee, invoice>>
  BY DEF Ledger!vars
<1>t. /\ fee \in [Fees -> {"none", "recorded", "void"} \cup Invoices]
      /\ \A t \in Requests : req[t].pc \in FeePcs => req[t].fee \in Fees
      /\ \A t \in Requests : req[t].pc \in InvoicePcs => req[t].inv \in Invoices
      /\ \A t \in Requests : req[t].want \in SUBSET Fees /\ req[t].held \in SUBSET Fees
  BY DEF IInv, Typed, TypeOK, WellFormed
<1>r. \A t \in Requests : StillSo(req[t].pc, req[t].fee, req[t].inv, req[t].held)
  BY DEF IInv, Reads
<1>1. ASSUME NEW t \in Requests, FeeStep(t) PROVE Ledger!Next \/ UNCHANGED <<fee, invoice>>
  <2> DEFINE f == req[t].fee
  <2>1. CASE RecordInsert(t)
    <3>1. f \in Fees /\ fee[f] = "none"
      BY <2>1, <1>t, <1>r DEF RecordInsert, FeePcs, StillSo
    <3>2. Ledger!Record(f) \/ UNCHANGED <<fee, invoice>>
      BY <2>1, <3>1 DEF RecordInsert, Ledger!Record, Live
    <3>3. QED BY <3>1, <3>2 DEF Ledger!Next
  <2>2. CASE VoidWrite(t)
    <3>1. f \in Fees
      BY <2>2, <1>t DEF VoidWrite, FeePcs
    <3>2. Ledger!Void(f) \/ UNCHANGED <<fee, invoice>>
      BY <2>2 DEF VoidWrite, Ledger!Void
    <3>3. QED BY <3>1, <3>2 DEF Ledger!Next
  <2>3. ASSUME ~RecordInsert(t), ~VoidWrite(t) PROVE UNCHANGED <<fee, invoice>>
    BY <1>1, <2>3 DEF FeeStep, RecordResolve, CorrectRead, VoidRead, CorrectWrite, ReopenStep, StepReopened
  <2>4. QED BY <2>1, <2>2, <2>3
<1>2. ASSUME NEW t \in Requests, InvoiceStep(t) PROVE Ledger!Next \/ UNCHANGED <<fee, invoice>>
  <2> DEFINE i == req[t].inv
             F == req[t].want
  <2>1. CASE UpdateWrite(t)
    <3>1. i \in Invoices /\ F \in SUBSET Fees /\ invoice[i] = "sent" /\ invoice' = invoice
      BY <2>1, <1>t, <1>r DEF UpdateWrite, InvoicePcs, StillSo
    <3>2. req[t].held = Ledger!On(i)
      BY <2>1, <1>t, <1>r DEF UpdateWrite, InvoicePcs, StillSo, Ledger!On
    <3>3. CASE Billable(i, F \ Ledger!On(i))
      <4>1. fee' = [f \in Fees |-> IF f \in F \ Ledger!On(i) THEN i
                                   ELSE IF f \in {g \in Ledger!On(i) \ F : fee[g] = i} THEN "recorded"
                                   ELSE fee[f]]
        BY <2>1, <3>2, <3>3 DEF UpdateWrite
      <4>2. fee' = [f \in Fees |-> IF f \in F THEN i
                                   ELSE IF f \in Ledger!On(i) THEN "recorded" ELSE fee[f]]
        BY <4>1 DEF Ledger!On
      <4>3. Ledger!Replace(i, F)
        BY <3>1, <3>3, <4>2 DEF Ledger!Replace, Billable
      <4>4. QED BY <3>1, <4>3 DEF Ledger!Next
    <3>4. CASE ~Billable(i, F \ Ledger!On(i))
      BY <2>1, <3>1, <3>2, <3>4 DEF UpdateWrite
    <3>5. QED BY <3>3, <3>4
  <2>2. CASE PaidWrite(t)
    <3>1. i \in Invoices /\ Ledger!MarkPaid(i)
      BY <2>2, <1>t, <1>r DEF PaidWrite, SetInvoice, InvoicePcs, StillSo, Ledger!MarkPaid
    <3>2. QED BY <3>1 DEF Ledger!Next
  <2>3. CASE UnpaidWrite(t)
    <3>1. i \in Invoices /\ Ledger!MarkUnpaid(i)
      BY <2>3, <1>t, <1>r DEF UnpaidWrite, SetInvoice, InvoicePcs, StillSo, Ledger!MarkUnpaid
    <3>2. QED BY <3>1 DEF Ledger!Next
  <2>4. CASE RemoveWrite(t)
    <3>1. i \in Invoices /\ Ledger!Remove(i)
      BY <2>4, <1>t, <1>r
         DEF RemoveWrite, SetInvoice, InvoicePcs, StillSo, Ledger!Remove, Ledger!On
    <3>2. QED BY <3>1 DEF Ledger!Next
  <2>5. ASSUME ~UpdateWrite(t), ~PaidWrite(t), ~UnpaidWrite(t), ~RemoveWrite(t)
        PROVE  UNCHANGED <<fee, invoice>>
    BY <1>2, <2>5 DEF InvoiceStep, UpdateLock, PaidLock, UnpaidLock, RemoveLock, Lock
  <2>6. QED BY <2>1, <2>2, <2>3, <2>4, <2>5
<1>3. ASSUME NEW i \in Invoices, NEW F \in SUBSET Fees, CreateInvoice(i, F) PROVE Ledger!Next
  <2>1. Ledger!Enter(i, F)
    BY <1>3 DEF CreateInvoice, Ledger!Enter, Billable
  <2>2. QED BY <2>1 DEF Ledger!Next
<1>4. QED BY <1>1, <1>2, <1>3 DEF Next, Fail, FileStep, vars

\* Billing keeps its ledger as FeeLedger says, for any requests at once.
THEOREM Implements == Spec => ImplementsLedger
<1>1. Init => Ledger!Init
  BY DEF Init
<1>2. QED
  BY <1>1, Inductive, StepImplements, PTL DEF Spec, ImplementsLedger, Ledger!Spec

-----------------------------------------------------------------------------
(* What follows from the ledger's own steps.                               *)

LedgerTyped ==
  /\ fee \in [Fees -> {"none", "recorded", "void"} \cup Invoices]
  /\ invoice \in [Invoices -> {"none", "sent", "paid", "removed"}]

LEMMA TypedLedger == IInv => LedgerTyped
BY DEF IInv, Typed, TypeOK, LedgerTyped

LEMMA RecoveryStep == LedgerTyped /\ Recovery /\ [Ledger!Next]_(Ledger!vars) => Recovery'
<1> SUFFICES ASSUME LedgerTyped, Recovery, Ledger!Next \/ UNCHANGED <<fee, invoice>> PROVE Recovery'
  BY DEF Ledger!vars
<1>a. Invoices \cap {"none", "recorded", "void"} = {}
  BY BillingAssumption DEF Ledger!LedgerAssumption
<1> USE DEF LedgerTyped, Recovery
<1>1. ASSUME NEW f \in Fees, Ledger!Record(f) \/ Ledger!Void(f) PROVE Recovery'
  BY <1>1, <1>a DEF Ledger!Record, Ledger!Void
<1>2. ASSUME NEW i \in Invoices, Ledger!MarkPaid(i) \/ Ledger!MarkUnpaid(i) \/ Ledger!Remove(i)
      PROVE  Recovery'
  BY <1>2 DEF Ledger!MarkPaid, Ledger!MarkUnpaid, Ledger!Remove, Ledger!On
<1>3. ASSUME NEW i \in Invoices, NEW F \in SUBSET Fees, Ledger!Enter(i, F) PROVE Recovery'
  BY <1>3 DEF Ledger!Enter, Ledger!Billable
<1>4. ASSUME NEW i \in Invoices, NEW F \in SUBSET Fees, Ledger!Replace(i, F) PROVE Recovery'
  BY <1>4, <1>a DEF Ledger!Replace, Ledger!Billable, Ledger!On
<1>5. CASE UNCHANGED <<fee, invoice>>
  BY <1>5
<1>6. QED BY <1>1, <1>2, <1>3, <1>4, <1>5 DEF Ledger!Next

\* Recovery, for any requests at once.
THEOREM Recovered == Spec => []Recovery
<1>1. Init => Recovery
  BY BillingAssumption DEF Init, Ledger!Init, Recovery, Ledger!LedgerAssumption
<1>2. IInv /\ Recovery /\ [Next]_vars => Recovery'
  BY TypedLedger, StepImplements, RecoveryStep
<1>3. QED BY <1>1, <1>2, Inductive, PTL DEF Spec

LEMMA OneLiveStep ==
  LedgerTyped /\ OneLiveFeePerSource /\ [Ledger!Next]_(Ledger!vars) => OneLiveFeePerSource'
<1> SUFFICES ASSUME LedgerTyped, OneLiveFeePerSource, Ledger!Next \/ UNCHANGED <<fee, invoice>>
             PROVE  OneLiveFeePerSource'
  BY DEF Ledger!vars
<1>a. Invoices \cap {"none", "recorded", "void"} = {}
  BY BillingAssumption DEF Ledger!LedgerAssumption
<1>1. ASSUME NEW f \in Fees, Ledger!Record(f) PROVE OneLiveFeePerSource'
  <2>1. \A g \in Fees \ {f} : fee'[g] = fee[g]
    BY <1>1 DEF Ledger!Record, LedgerTyped
  <2>2. \A g \in Fees : SourceOf[g] = SourceOf[f] /\ SourceOf[f] # Manual => ~Live(g)
    BY <1>1 DEF Ledger!Record, Ledger!SameSource, Live
  <2>3. QED BY <2>1, <2>2 DEF OneLiveFeePerSource, Live, Ledger!Live
<1>2. ASSUME \A g \in Fees : Live(g)' => Live(g) PROVE OneLiveFeePerSource'
  BY <1>2 DEF OneLiveFeePerSource
<1>3. ASSUME NEW f \in Fees, Ledger!Void(f) PROVE \A g \in Fees : Live(g)' => Live(g)
  BY <1>3 DEF Ledger!Void, Live, Ledger!Live, LedgerTyped
<1>4. ASSUME NEW i \in Invoices, Ledger!MarkPaid(i) \/ Ledger!MarkUnpaid(i) \/ Ledger!Remove(i)
      PROVE  \A g \in Fees : Live(g)' => Live(g)
  BY <1>4 DEF Ledger!MarkPaid, Ledger!MarkUnpaid, Ledger!Remove, Live, Ledger!Live
<1>5. ASSUME NEW i \in Invoices, NEW F \in SUBSET Fees, Ledger!Enter(i, F)
      PROVE  \A g \in Fees : Live(g)' => Live(g)
  BY <1>5 DEF Ledger!Enter, Ledger!Billable, Live, Ledger!Live
<1>6. ASSUME NEW i \in Invoices, NEW F \in SUBSET Fees, Ledger!Replace(i, F)
      PROVE  \A g \in Fees : Live(g)' => Live(g)
  BY <1>6, <1>a DEF Ledger!Replace, Ledger!Billable, Ledger!On, Live, Ledger!Live
<1>7. CASE UNCHANGED <<fee, invoice>>
  BY <1>7 DEF OneLiveFeePerSource, Live, Ledger!Live
<1>8. QED BY <1>1, <1>2, <1>3, <1>4, <1>5, <1>6, <1>7 DEF Ledger!Next

\* OneLiveFeePerSource, for any requests at once.
THEOREM OneLive == Spec => []OneLiveFeePerSource
<1>1. Init => OneLiveFeePerSource
  BY DEF Init, Ledger!Init, OneLiveFeePerSource, Live, Ledger!Live
<1>2. IInv /\ OneLiveFeePerSource /\ [Next]_vars => OneLiveFeePerSource'
  BY TypedLedger, StepImplements, OneLiveStep
<1>3. QED BY <1>1, <1>2, Inductive, PTL DEF Spec

Settled == \A i \in Invoices : invoice[i] = "paid" /\ invoice'[i] = "paid" => On(i)' = On(i)

LEMMA SettledStep == LedgerTyped /\ Recovery /\ [Ledger!Next]_(Ledger!vars) => Settled
<1> SUFFICES ASSUME LedgerTyped, Recovery, Ledger!Next \/ UNCHANGED <<fee, invoice>> PROVE Settled
  BY DEF Ledger!vars
<1>a. Invoices \cap {"none", "recorded", "void"} = {}
  BY BillingAssumption DEF Ledger!LedgerAssumption
<1>b. ASSUME \A i \in Invoices : invoice[i] = "paid" => \A g \in Fees : fee'[g] = i <=> fee[g] = i
      PROVE  Settled
  BY <1>b DEF Settled, On, Ledger!On
<1>1. ASSUME NEW f \in Fees, Ledger!Record(f) \/ Ledger!Void(f) PROVE Settled
  BY <1>1, <1>a, <1>b DEF Ledger!Record, Ledger!Void, LedgerTyped
<1>2. ASSUME NEW i \in Invoices, Ledger!MarkPaid(i) \/ Ledger!MarkUnpaid(i) \/ Ledger!Remove(i)
      PROVE  Settled
  BY <1>2, <1>b DEF Ledger!MarkPaid, Ledger!MarkUnpaid, Ledger!Remove
<1>3. ASSUME NEW i \in Invoices, NEW F \in SUBSET Fees, Ledger!Enter(i, F) PROVE Settled
  BY <1>3, <1>a, <1>b DEF Ledger!Enter, Ledger!Billable
<1>4. ASSUME NEW i \in Invoices, NEW F \in SUBSET Fees, Ledger!Replace(i, F) PROVE Settled
  BY <1>4, <1>a, <1>b DEF Ledger!Replace, Ledger!Billable, Ledger!On
<1>5. CASE UNCHANGED <<fee, invoice>>
  BY <1>5, <1>b
<1>6. QED BY <1>1, <1>2, <1>3, <1>4, <1>5 DEF Ledger!Next

\* PaidIsSettled, for any requests at once.
THEOREM PaidSettled == Spec => PaidIsSettled
<1>1. IInv /\ Recovery /\ [Next]_vars => [Settled]_vars
  BY TypedLedger, StepImplements, SettledStep
<1>2. QED BY <1>1, Inductive, Recovered, PTL DEF Spec, PaidIsSettled, Settled
=============================================================================
