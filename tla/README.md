# HR operations platform: specifications and proofs

TLA+ models of the core of this repository (`src/apps/api`), the TLC configurations that
check them, and TLAPS proofs about them. Paths below are relative to `src/apps/api/src/modules/`
unless they begin with `src/`.

## The system

A modular monolith (NestJS, Prisma, PostgreSQL, Redis, an object store) run by HR and
government-relations (GRO) staff for client companies. One process answers HTTP requests; every
operation is a request handler that opens one interactive transaction at PostgreSQL's default
READ COMMITTED (no isolation level is set anywhere), reads, checks, writes, audits and commits.
Modules talk in two ways: a direct call through another module's `public-api`, and an in-process
event published **after** the commit, awaited, whose handlers run one after the other and whose
exceptions are swallowed (`events/application/event-bus.ts`). There is no outbox and no retry.

So the hard behaviours are the same everywhere, and they are what the models are about:

- **interleaving**: between the read and the write of one request, others commit. What protects a
  row is a `SELECT ... FOR UPDATE`, a condition in the `UPDATE` itself, a CHECK, a unique index, or
  nothing;
- **chains of events**: one request's commit is followed by other modules' transactions, each of
  which interleaves too;
- **crash and failure**: a transaction rolls back whole, but what should follow a commit can be lost;
- **order**: effects that follow a commit can overtake each other.

### Inventory

| component | state | operations | what makes it correct |
|---|---|---|---|
| GRO runs (`gro/application/sequences.service.ts`, `gro/domain/sequence-*.ts`) | a run per employee and kind, a row per step | start, file, reopen, cancel, assign; on completion the employee becomes active or is terminated; a termination cancels a running onboarding | one running run per kind; steps filed in the order of the list; completed exactly when every step is filed; a finished run is final; no deadlock of row locks |
| GRO procedures (`gro/application/gro-processes.service.ts`) | a procedure per renewal or task, its status, its resulting expiry | create by hand or for an expiring document, change status, complete (then write the new expiry, in another transaction), cancel with a dependant | one procedure per document, one open renewal per dependant; what a completion writes on the record is its own result |
| Billing (`billing/application/*`) | fees, invoice records, receipts, terms | record, correct, void, void after a reopening; enter, change, pay, unpay, remove a record; receipts | a fee is recovered once, by a record of its own client that stands; one live fee per step; paid is settled |
| Recruitment (`recruitment/application/*`) | candidates' stages, vacancies | create, move, remove; the system's move to `hired` | hired means one employee, and mobilisation points at a record being onboarded |
| Employees (`employees/application/*`) | the record, its employment status; dependants | create on an event, edit, terminate, reinstate; take a dependant off file | its status follows the hire and the run; nobody off file has a renewal open |
| Leave (`leave/application/*`) | requests, a ledger, carried balances | raise, decide, withdraw, file, carry over | the ledger matches the filed requests; no balance spent or credited twice |
| Requests and tasks (`requests/application/*`, `tasks/application/*`) | a request, its status, where a reply returns it, since when it waits, its due date; its task | raise on three paths, process, reply, edit the date, pause; follow | a wait moves the date once, by all its days; a reply returns a request where it was asked; the open task has the request's date |
| Accounts (`auth/application/*`, `self-service/application/*`, `clients/application/client-users.service.ts`) | users, one-use tokens, sessions in Redis | invite, set or reset a password, sign in, disable, close on termination | a link works once; nobody who has left has a session |
| Documents, receipts, attachments (`documents`, `billing`, `requests`) | a row and a blob; a legal hold | issue a link, confirm what arrived, remove, hold | a row is available by a check of its own upload and has its blob; nothing refused stays stored, nothing confirmed is stored without a row; a held document is not deleted; attachment slots |
| Document expiry (`document-expiry/application/*`) | claimed (document, tier) slots | daily scan | at most one alert per slot |
| Escalations, Notifications, Calendar, Configuration, Clients, Portal, Reporting, Search, Audit, Integrations, Queue | rows read or appended | | see `PROJECT.json`, `components`: why each is left out |

`PROJECT.json` lists every component with its status, and under `hazards` each place where this
code is hard to test, with the property that covers it.

## Modules

| module | models | |
|---|---|---|
| `SequenceEngine` | `gro/domain/sequence-engine.ts` | pure operators: a step's state, filed dependents, completion |
| `SequenceDefinitions` | `gro/domain/sequence-definitions.ts` | the two step lists, as in the code |
| `GroSequences` | `gro/application/sequences.service.ts` | every statement of a transaction that another can come between |
| `FeeLedger` | the promises at the head of `fees.service.ts` and `invoices.service.ts` | the abstract specification: each operation one step |
| `Billing` | `fees.service.ts`, `invoices.service.ts`, `step-reopened.handler.ts` | the transactions, shown to implement `FeeLedger` |
| `Hiring` | `candidates.service.ts`, the employees' handlers and `employees.service.ts`, the onboarding of `sequences.service.ts` | the chain of events across three modules |
| `LeaveRules`, `LeaveBalance` | `leave/domain/leave-rules.ts`, `leave-balance.ts` | pure operators: what may be raised, the calendar, accrual, the split of a spell by year |
| `LeaveRegister` | the promises at the head of `leave.service.ts` and `leave-carry-over.service.ts` | the abstract specification |
| `Leave` | `leave.service.ts`, `leave-carry-over.service.ts` | the transactions, shown to implement `LeaveRegister` |
| `RequestDesk` | `requests.service.ts`, `service-level.service.ts`, `requester-reply.ts`, `tasks.service.ts` and its two handlers, the trigger and CHECKs of the migrations | a request, the wait on its requester, its due date and the task that follows it |
| `Renewals` | `expiry-scan.service.ts`, `thresholds.ts`, `gro-processes.service.ts` and its two handlers, `dependants.service.ts` | alerts, the procedures they open, the expiry a completion writes back |
| `Uploads` | `documents.service.ts` and its controller, `fee-receipts.service.ts`, `request-attachments.service.ts` | row against blob, in three orders and under three kinds of protection |
| `MC...` | | the instances TLC checks |
| `LeaveArithmetic` | `leave-balance.ts` | lemmas on finite sums, and theorems about the operators of `LeaveBalance` |
| `GroSequencesProofs`, `BillingProofs`, `HiringProofs`, `LeaveProofs`, `RequestDeskProofs`, `RenewalsProofs`, `UploadsProofs` | | the theorems about the specifications |

The two refinements are explicit: `Ledger` in `Billing` and `Register` in `Leave` instantiate the
abstract module `WITH` its variables as expressions over the transactions' rows.

### How state and actions correspond

Every model has a variable for each column its rules read, holding the **committed** row, and a
function `req` from request to record: where the request is (`pc`, "the request has done this much
and does that next") and what it has read. A request slot may be used again; two slots stand for any
two handlers running at once. One action is one stretch of a handler that nothing can come between:
in `GroSequences` a statement (uncommitted rows are locked and unseen, commits are separate), in the
others a read or a write-and-commit, since there a transaction's locks and writes begin with its last
statement or the row is locked from the start (`Lock`, the advisory lock of `CountFiles`).

- **`GroSequences`.** `StartRead`/`StartCheck`/`StartInsert`/`StartCommit` are `start`; `File*` are
  `file`, with `FileReload` the second `load` after the update and `FileComplete` the update of the
  run if that load shows every step filed; `Reopen*`, `Cancel*`; `Effect*` is `afterCompletion`;
  `Terminate`, `TerminateFind` and the `Cancel*` that follow are a termination and its handler. The
  partial unique index is `Twins`; the CHECKs on `completed_at`, `cancelled_at` are the refusals in
  `CancelWrite` and `FileComplete`. `Reinstate` is the one hand edit of an employment status that
  matters. `Fail` rolls a request back at any point.
- **`Billing`.** `fee[f]` folds `status` and `invoice_id` into one value, which
  `bil_fees_invoice_chk` allows: `invoiced` exactly while it points at a record. `*Read` and
  `*Lock` are the reads, with the checks on them; `*Write` commits, with the conditions the
  `UPDATE` has in the code. `CreateInvoice` is one step: its only writes are conditional and all
  or nothing, and nothing can reach the record before it commits. `Lock` is `SELECT ... FOR UPDATE`;
  `RecordInsert` is refused by `bil_fees_one_per_step_idx` and its twin for procedures, never by
  what `resolve` read.
- **`Hiring`.** `StageRead` is the read and every check of `changeStage`; `StageMobilise` and
  `StageMove` the write by id and the choice of what to publish, after which the same request is
  the handler: `HireCreate`, `MobiliseCreate` then `StartRead`/`StartInsert`, `EndedRead` then
  `UpdateRead`/`UpdateWrite` then `Left`. A completion by hand (`Complete`) leads through
  `EffectRead`, `UpdateRead`, `UpdateWrite` to `JoinedRead`, `JoinedWrite`. The run itself is
  reduced to its status, as `GroSequences` describes it.

- **`Leave`.** `RaiseRead`/`RaiseCheck`/`RaiseInsert` are `raise` (the employee is read before the
  transaction; the Hajj on record are counted in it). `MoveRead`/`MoveWrite` are `move`, which
  `decide`, `withdraw` and `file` all call: the status read is a condition of the `UPDATE`, and a
  filing's ledger entries are in the same transaction. `CarryStart`, then `CarryRead`/`CarryWrite`
  for each person found, then `CarryDone` are `run` of the carry-over, whether the worker's or by
  hand; the partial unique index on a year's credit is the condition of `CarryWrite`, and the
  exception ends the run. Dates are day numbers of the real Gregorian calendar (the code's are UTC
  midnights), so that leap years and 31 December are what they are. They begin with 1 January of the
  year 1 and every year is itself, where `Date.UTC` reads the years 0 to 99 as 1900 to 1999: no date
  of this system is one of those. In the refinement the four row
  variables are `LeaveRegister`'s own. `LeaveRegister` states a year's share of a spell as an
  intersection of two intervals; `Leave` computes it as the code does, walking from year to year.

- **`RequestDesk`.** `Create` and `CreateForEmployee` are the raise, by staff or a client and by the
  employee (`SetInitialDue` is the service level's second transaction); `Spawn` is
  `RequestCreatedHandler`. `ProcessRead`/`Process` are `process`, whose row (`Processed`) is written
  by id; `ReplyRead`/`ReturnIfWaiting` are `returnIfWaiting`, conditional on the wait, and
  `ExtendAfterReturn` the pause it applies in a third transaction. `UpdateRead`/`Update` edit the date.
  `InfoGuard` is the trigger `req_requests_info_guard`. What is published after the commit
  (`Announce`) goes on in the same handler: `FollowRead`/`Follow` are `followRequestDueDate`.
- **`Renewals`.** `Scan`, then `Claim` and `Publish` for each document listed, then `ScanDone` are
  `scan`: the claim of a (document, tier) is a transaction of its own, its unique index the condition
  of `Claim`. `Publish` includes the read of `DocumentExpiringHandler`, `OpenForDocument` its insert.
  `CreateRead`/`CreateInsert` open a procedure by hand, refused by the partial unique index
  (`IndexAllows`). `ChangeStatusRead`/`ChangeStatus` are `changeStatus`, by id; `EffectRead`/`EffectWrite`
  the expiry it writes after its commit, `EffectRead` for a dependant only: the completion's handler and
  then `DependantsService.update` each look whether they are still on file. `RemoveRead`/`Remove` take a dependant off file, then
  `CancelList`/`CancelRead`/`ChangeStatus` are the handler of that event.
- **`Uploads`.** `row` and `blob` are PostgreSQL's side and the object store's. `IssueDocument`,
  `CountFiles`/`InsertFile` (under the advisory lock) and `IssueRead`/`IssueWrite` are the three
  first steps. `Arrive` is the uploader's browser. The link is a presigned plain PUT
  (`storage.service.ts`, `presignUpload`): while it lives, bytes may arrive under its key any number of
  times, over others, between two steps of a check, after it, and after a deletion (`Deleted`).
  `ConfirmRead`, `Stat` (the size), `Scan` (the bytes, fetched again), `Purge`, `Settle` are the
  confirmation, whose last update has the condition `Settles`: none for a document, the status for a
  file, the status and the key for a receipt. A document's removal deletes the blob first
  (`RemoveDocBlob`, `RemoveDocRow`), the other two the row first (`RemoveFile` or `ClearReceipt`, then
  `Drop`). `Age` is the quarter of an hour after which a pending file no longer takes a slot.

### History variables

Six of the models carry variables the code does not have, so that a property can say of which
behaviours the code keeps a promise. `contested` (`GroSequences`) collects the runs on which two
step requests were ever open at once; `disturbed` (`Hiring`) the candidates whose stage two requests
were to change at once, or on whom such a request failed; in `Leave`, `crossed` the people for whom two requests were being
raised at once, and `late` the credits computed before annual leave, or another credit, of the
year they carry from was committed. In `RequestDesk`, `owed` is the date a request should have, moved by each
wait that ends by the days in `waited`; `crossed` collects the requests whose date was edited while
another handler was at work on them, or whose pause was lost, and `loose` those whose task was moved by
hand or whose news was lost. In `Renewals`, `alerts` counts, `renewed` is the date last entered, `disturbed` the documents and people two handlers were at work on at once, or whose handler stopped
after a commit, and `overtaken` the people for whom a date was entered between a completion's commit and
its write, or whose write was lost. In `Uploads`, `confirmed` is what was ever found good and made
available; `read` the keys a check has found bytes under and `replaced` those under which bytes were put
after that; `crossed`, `late` and `stray` are the documents and fees on which a removal or an issue met another handler, the
files confirmed after their link ran out, and the blobs whose deletion failed. Nothing reads them but properties. The code does not protect these: the
runs marked *violation* below show what then happens in `GroSequences` and `Hiring`. A crash between a
commit and what should follow it is lost for good everywhere (there is no outbox): a reply's pause, a
task's new date, an alert, an onboarding. The models have the crash (`Fail`) and the properties say
what is left to expect: everything else.

## Runs

| run | shows |
|---|---|
| `gro_sequences` | types; at most one running run per employee and kind; filed steps in order and completion exactly at the last step, where step requests did not overlap; a finished run stays as it is, whatever overlaps |
| `gro_sequences_live` | every request ends: no two wait for each other's row locks |
| `gro_step_order_race` (violation) | a filing and a reopening of its prerequisite, overlapping, leave the steps out of order, against `gro/domain/sequence-engine.ts` |
| `gro_stuck_completion` (violation) | the last two filings, overlapping, leave every step filed and the run running for ever, against ADR-018 |
| `billing` | types; a fee is recovered by a standing record of its own client; one live fee per step or procedure; a paid record keeps its fees; the transactions implement `FeeLedger` |
| `billing_corrected` (violation) | a correction writes a fee that has been invoiced or voided since it was read, against `fees.service.ts` |
| `hiring` | types; of an undisturbed candidate: `hired` means one employee record, past onboarding; in mobilisation they point at the one record made for them, being onboarded; rejected or withdrawn, nobody is left onboarding |
| `hiring_twice` (violation) | two overlapping hires make two employees of one candidate, against `candidate-hired.handler.ts` |
| `request_desk` | types; one wait moves the due date once, by all its days, whoever ends it; a reply returns a request only where it was asked from and never moves its date itself; the open task has its request's date |
| `renewals` | types; a tier of a document is announced once; an announced document gets exactly one procedure; one open renewal per dependant, none once they are off file where no other handler met the removal; the record shows the expiry last entered once every completion's write is done, whatever else runs meanwhile, except for whom a date was entered before the last was written (nothing prevents that) or a write was lost |
| `uploads` | types; what is available was found good under its own key, however uploads are issued, replaced and confirmed; where no bytes were put under the key after a check had found some (nothing prevents that), what is available is in the store, what was refused is not, and what was confirmed is on its row or on its way out; slots are kept; what is held is not deleted |
| `leave` | types; what the ledger holds of a request adds up to its days once it is filed, to nothing before; Hajj once, for whoever never had two requests being raised at once; a credit is what the year before left unused, counted over the filed leave itself; the transactions implement `LeaveRegister` |

### Bounds, and why they are enough

- Two requests at once in every model but `Uploads`: each race the code has is between one request's check and
  another's commit, and each request ends by leaving committed rows any later request starts from.
  The proofs hold for any number.
- `GroSequences`: one employee; an onboarding of three steps (`iqama`, `gosi` that waits on it,
  `contract` that waits on it too) and two final exits of one step, so that a run can be started
  again. The step lists are cut from the code's by `NeedsOf`. Two requests are about two steps at most:
  the same, one that waits on the other, or two that do not; the three steps have all of these, and a
  step left over.
- `Billing`: two fees for one step (so that a void one can be recorded again), a manual fee, a fee of
  another client, two records. One amount in `billing`; two in `billing_corrected`, where it
  matters.
- `Hiring`: one candidate (no rule relates two) and two employee ids, which is enough for a second
  record; `Employees` bounds the records ever made. `CHECK_DEADLOCK FALSE`: a removed candidate
  and no employee leave nothing more to do.
- `Leave`: two people, one hired in October 2025, who may take annual leave across 31 December or
  Hajj, and one completing five years on 29 December 2026, which raises the entitlement within the
  year; two requests for leave, two handlers; carry-overs into 2026 and 2027, so that the second
  carries what the first did; one input is over its type's cap.
- `RequestDesk`: one request (no rule relates two) over three working days, so one wait of up to
  two days, or two waits; a service level of two days and one other date. `Tick` happens only while no
  handler runs: the code's `now` is read once per handler and days are counted, so a midnight within a
  handler counts as before or after it.
- `Renewals`: one employee with a permit whose expiry is reached in two tiers, a document of nobody, a
  dependant; two days that are looked at, beginning with either; two procedures, so that a second can be refused. `Apart`
  explores the employee and the dependant one at a time: they share nothing but procedure ids.
  `FewDisturbances` leaves out that two documents or people are disturbed or overtaken in one behaviour,
  since each property is about one of them. 3.9 million states.
- `Uploads`: one document, one fee with keys for two receipts, two files of a request that may carry
  one; three handlers, since a receipt can be removed, issued and confirmed at once. `OneKind` explores
  the three kinds one at a time: they share no row and no key. `Bounded` also leaves out that checked
  bytes are replaced under two keys, since each property is about one, and has two handlers at most for
  files, whose races are between a confirmation and a removal or another confirmation. 2.2 million
  states.
  `CHECK_DEADLOCK FALSE`: with every file removed and every key used, nothing is left to do.
- Symmetry is declared on handlers, invoices, employee ids, leave ids, the fees of one step, procedures,
  files and receipt keys where the specifications never tell them apart, and not in the run that checks liveness.

### Fairness

Only `gro_sequences_live` assumes any: strong fairness of `Proceed(t)`, that a request which can go
on again and again does. Node runs every continuation, and PostgreSQL hands a freed row lock to its
waiters in their order, so a request cannot be passed over for ever by others taking the lock first.
Weak fairness would not say that. No request is assumed to begin, and none to fail.

## Proofs

TLAPS proves, for every value of the constants that meets the named assumptions
(`EngineAssumption`, `RunsAssumption`, `BillingAssumption`, `HiringAssumption`, `LeaveAssumption`,
`DeskAssumption`, `RenewalsAssumption`, `UploadsAssumption`):

- `GroSequencesProofs`
  - `Typing`. The invariant is `TypeOK` with `WellFormed`: a request at a step's `pc` names a step of
    its run's list.
  - `FinishedIsFinal`. `RunRows` says what a request may rely on between two statements: one that has
    updated a run's row holds its lock, and the row is still `running`.
  - `OneRunning`. `OneIInv` adds `Exclusive`: while one insert of a kind is uncommitted no other is,
    and no committed run of the kind is running.
  - `StepsInOrder`, `Completes`. `OrderIInv`: on an uncontested run at most one step request is open
    (`Alone`), so what it has read of the steps is still so (`StillAllSo`), so a filing finds
    its prerequisites filed. That a running run always has a step to file uses the engine's
    assumption that waits never run in a circle (`EngineAssumption`).
  - `SoundListsMeetEngine` justifies that assumption: every list `integrityProblems` finds nothing wrong
    with meets it, since of any steps the first in the list waits on none of the others. The API's
    end-to-end tests run that check on the two lists, and so does TLC (`ListsAreSound`).
- `BillingProofs`
  - `Typing`; `Implements`, the refinement: `IInv` is `TypeOK` and `Reads`, "what a request has read
    of a locked invoice, and of a fee id not yet used, is still so", with which each write is a
    step of `FeeLedger` or a stutter; `Recovered`, `OneLive` and `PaidSettled` follow, the first two
    from the ledger's own invariants.

- `HiringProofs`
  - `Typing`. `Base` is the types, what each request carries by where it is, and that no two carry the
    same unused employee id (`OwnIds`).
  - `HiredOnce`, `MobilisingOnboards`, `EndedLeavesNobody`. `Story(c)` holds of each undisturbed
    candidate: at most one request is about them (`Alone`); by stage they have no record yet, the one being
    onboarded, the one past it, or none left onboarding (`BeforeOffer`, `Mobilising`, `Hired`, `Over`);
    and a request in the middle of the chain of events finds what the step before it left (`Follows`).
- `LeaveProofs`
  - `HajjOnceProved`. Between its count and its insert a raise relies on two facts: that whoever has
    two raises open has crossed (`Alone`), and that what it found no Hajj for is still without one
    (`Cleared`). With `One`, that the live Hajj leaves of anyone uncrossed are the same one, they are
    inductive: only an insert makes leave live, and moves and carry-overs are `Quiet`.
  - `LeaveTyping`, `LedgerAddsUpProved`, `CarriedIsUnusedProved`, `RegisterImplemented`, all from
    `RegisterInv`. Of the rows: the ledger of filed leave is the parts of its spell, and empty otherwise
    (`Recorded`). Of the handlers: the id a raise will insert is still free and nobody else's
    (`Reserved`), a handler carries what its next statement uses (`Remembered`), and a credit computed but not written yet is still what the year
    leaves, or will be marked `late` (`Timely`). With these each write is a step of `LeaveRegister`.
- `LeaveArithmetic`, on which those rest
  - `SplitIsParts`, `SplitTotal`: the walk of `splitByYear` from year to year, over any number of them,
    gives each year its intersection with the spell, and the parts add up to the spell. The provers
    cannot use the library's induction theorems, which take an operator, so each induction is done by
    hand: of the spells (or sets) of which the claim fails there is a shortest (`LeastNatural`,
    `LeastSubset`, both from the library's well-foundedness of strict inclusion), and the one
    a step shorter contradicts it.
  - `FullYearAccrues`, `AccruesMonotone`, `CarryOverCapped`: months of 30.44 days come to 12 at the end
    of every year, leap or not; a balance never falls within a year; a carry-over is the unused days
    between nothing and the cap. They rest on the calendar (`YearOfIs`, `YearOfOnly`: each day lies in
    exactly one year, the one `YearOf` finds among its few candidates).
- `RequestDeskProofs`
  - `Typing`; `RepliesReturn`, from what a reply has read and the trigger.
  - `PausedOnce`. `Fine(i)` of a request no edit crossed: since no day ends under a handler, a wait of a
    day or more was begun before any handler now at work, so that all who read it read the same
    (`Fresh`), and would write the same date or none (`Owing`); the date is the one owed, or a reply's
    pause is about to make it so (`Settled`).
  - `Following`. `Heard(i)`: the open task has the request's date or a handler is about to pass one on,
    and whatever is about to be passed on is the date the row has by now, since the date does not move
    again while it is on its way (`Told`).
- `RenewalsProofs`
  - `Typing` (`Base`); `TierAnnouncedOnce`, from `Claims`: an alert of a tier was claimed, and one
    handler holds the claim until it has published; `OneInFlight` and `RemovalCloses`, from `InFlight`,
    which the unique index keeps, and, of an undisturbed person, `Closing`: what is open for someone off
    file is about to be cancelled.
  - `OneProcedurePerDocument`, from `Tracked(d)` of an undisturbed document: one procedure once its
    event is handled, none before it.
  - `RecordFollows`, from `Dated(x)` of a person on file not overtaken: the date last entered shows,
    or exactly one handler has yet to write there, and carries that date. It holds whatever other
    handlers are at work on the person.
- `UploadsProofs`
  - `Typing`; `RefusedGone`. `fate` tells what has come of the bytes under a key: what was put there,
    that they are gone, or, once others were put there after a check had found some, only that they
    were replaced, of which nothing more is claimed. `Agree` is what rows, fates and handlers have in
    common: what each handler has read and what has come of the bytes since (`Working`), that each row
    names a key of its own whose bytes are as its status says (`Recorded`), and that one holds the
    advisory lock (`OneSlot`).
  - `HeldStays`, from `HoldsSeen`: no handler removes what is on hold, unless the hold crossed it.
  - `SlotsStayKept`, from `Slots`: whoever holds the lock still sees a free slot.
  - `AvailableStored`, `AvailableChecked`, `ConfirmedOnRow`. `Stored`: what is available, or about to
    be, has its bytes, and they are those checked unless replaced since (`Good`, `DocGood`); an item on which a removal or an issue met nobody has it alone (`Solo`), and its receipt
    is as that one read it (`FeeSeen`); and a confirmed blob is on its row or in the hands of the handler
    that deletes it (`OnRow`).

Each proof module has one lemma per group of actions and one theorem per property, and every
strengthening was first checked by TLC as an invariant.

Every safety property and both refinements that the passing runs check are proved. What is only
model-checked is liveness, `RequestsFinish`, since the provers do not reason about fairness and
`ENABLED`. The violations are TLC's counterexamples.

## Not modelled

Dates, amounts, names and texts beyond what a rule reads; the audit entry, which each transaction
writes with its change; row-level security, which the database enforces; the web interface. Within
the modelled services: `assign` and assignees (one field nothing else reads), the expiry an iqama filing
records, invoice terms (one row an administrator writes); for leave, who may decide or withdraw, edits
of a hire date, and who is in post, which `Hiring` decides (here anyone may be when a request reads it);
for requests, the text of comments and who sees what; for uploads, the bytes, which are good or not.

Nothing recovers what a stopped process should have done after a commit: there is no outbox and no
sweep, so no property promises it, and the hazards of that kind in `PROJECT.json` have a note instead.

Not modelled at all, with the reason in `PROJECT.json`: accounts, tokens and sessions, self-service
accounts, escalations, notifications, the calendar and its synchronisation, configuration, clients,
the portal's and reporting's views, the queue. Most are reads, or appends that nothing else depends on.

## Plan

What would come next: `Accounts`, with one-use tokens, the sessions Redis keeps and an invitation
against the termination of the same employee.
