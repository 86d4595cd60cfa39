------------------------------ MODULE Uploads ------------------------------
(***************************************************************************)
(* Uploads: documents, the receipt of a fee and the files of a request.    *)
(* Each is a row and a blob: a pending row and a link are issued, the      *)
(* bytes arrive in the store without the server, a confirmation checks     *)
(* what arrived and settles the row, a removal takes both away.  The three *)
(* services do it in three orders and under three kinds of protection.     *)
(*                                                                         *)
(* Documents and files have the key their row was created with; a receipt  *)
(* gets a fresh one each time.  Until a link runs out, bytes may be put    *)
(* under its key any number of times: over others, while they are checked, *)
(* or after they were deleted.  Left out: who may do what, names,          *)
(* downloads, whether the fee is void.                                     *)
(***************************************************************************)
EXTENDS Integers, FiniteSets

CONSTANTS
  Docs, Fees,
  Files,      \* attachments of one request
  Keys,       \* bound: storage keys of receipts
  MaxFiles,   \* REQUEST_ATTACHMENT_MAX_FILES
  Handlers,
  NoItem, NoKey

Items == Docs \cup Fees \cup Files
Blobs == Docs \cup Files \cup Keys

ASSUME UploadsAssumption ==
  /\ MaxFiles \in Nat \ {0}
  /\ Docs \cap Fees = {} /\ Docs \cap Files = {} /\ Fees \cap Files = {}
  /\ IsFiniteSet(Files) /\ Keys \cap (Docs \cup Files) = {}
  /\ NoItem \notin Items /\ NoKey \notin Blobs

VARIABLES
  row,        \* row[x]: the status of item x and the key its row points at
  held,       \* the documents under legal hold
  link,       \* link[k]: the upload link of key k
  blob,       \* blob[k]: what the store has under key k
  aged,       \* the files whose row is older than their link was to last
  req,        \* req[t]: where handler t is, and what it has read
  confirmed,  \* history: <<x, k>> where k was found good and x made available
  crossed,    \* history: documents at work on during a removal or put on hold in one,
              \* fees during an issue; a document whose removal stopped halfway
  late,       \* history: files confirmed after they were aged
  stray,      \* history: the blobs whose deletion failed
  read,       \* history: the keys a check has found bytes under
  replaced    \* history: the keys under which bytes were put after that

hist == <<confirmed, crossed, late, stray, read, replaced>>
vars == <<row, held, link, blob, aged, req, hist>>

\* A handler, the item it works on, the key it has read and the verdict of its check.
At(pc, x, k, verdict) == [pc |-> pc, item |-> x, key |-> k, verdict |-> verdict]
Idle == At("idle", NoItem, NoKey, "none")

Init ==
  /\ row = [x \in Items |-> [status |-> "none", key |-> NoKey]]
  /\ held = {} /\ aged = {}
  /\ link = [k \in Blobs |-> "none"] /\ blob = [k \in Blobs |-> "none"]
  /\ req = [t \in Handlers |-> Idle]
  /\ confirmed = {} /\ crossed = {} /\ late = {} /\ stray = {}
  /\ read = {} /\ replaced = {}

Finish(t) == req' = [req EXCEPT ![t] = Idle]
Go(t, pc) == req' = [req EXCEPT ![t].pc = pc]

\* Handlers that remove a document, or issue a receipt, are not to meet another.
Alone == {"blob", "row", "issue"}
Begin(t, r) ==
  /\ req[t] = Idle
  /\ req' = [req EXCEPT ![t] = r]
  /\ crossed' =
       IF \E u \in Handlers : req[u].item = r.item /\ Alone \cap {r.pc, req[u].pc} # {}
         THEN crossed \cup {r.item} ELSE crossed
  /\ UNCHANGED <<confirmed, late, stray, read, replaced>>

\* deleteObject: what is not there is no error.
Deleted(k) == [blob EXCEPT ![k] = "none"]

-----------------------------------------------------------------------------
(* The store, and the uploader's browser                                   *)

\* Good, too large (which only a document may be), or not what may be stored.
Contents == {"good", "large", "bad"}
Fit(x) == IF x \in Docs THEN {"good", "large"} ELSE {"good"}

\* A plain PUT: whatever is there is replaced.
Arrive(k, content) ==
  /\ link[k] = "live"
  /\ blob' = [blob EXCEPT ![k] = content]
  /\ replaced' = IF k \in read THEN replaced \cup {k} ELSE replaced
  /\ UNCHANGED <<row, held, link, aged, req, confirmed, crossed, late, stray, read>>

\* Fifteen minutes after it was signed.
LinkEnds(k) ==
  /\ link[k] = "live"
  /\ link' = [link EXCEPT ![k] = "over"]
  /\ UNCHANGED <<row, held, blob, aged, req, hist>>

\* Fifteen minutes after a file's row was created: its slot is free.
Age(a) ==
  /\ row[a].status = "pending" /\ a \notin aged
  /\ aged' = aged \cup {a}
  /\ UNCHANGED <<row, held, link, blob, req, hist>>

-----------------------------------------------------------------------------
(* Step 1: a pending row and its link                                      *)

IssueDocument(d) ==
  /\ row[d].status = "none"
  /\ row' = [row EXCEPT ![d] = [status |-> "pending", key |-> d]]
  /\ link' = [link EXCEPT ![d] = "live"]
  /\ UNCHANGED <<held, blob, aged, req, hist>>

\* Files that take a slot: available, or pending and not yet given up.
Taken == {a \in Files : row[a].status = "available" \/ (row[a].status = "pending" /\ a \notin aged)}

\* Mutant: the slots are counted without the advisory lock.
CountFiles_NoLock(t, a) ==
  /\ row[a].status = "none" /\ \A u \in Handlers : req[u].item # a
  /\ Cardinality(Taken) < MaxFiles
  /\ Begin(t, At("slot", a, NoKey, "none"))
  /\ UNCHANGED <<row, held, link, blob, aged>>

\* The advisory lock is held from here to the commit.
CountFiles(t, a) ==
  /\ row[a].status = "none" /\ \A u \in Handlers : req[u].pc # "slot"
  /\ Cardinality(Taken) < MaxFiles
  /\ Begin(t, At("slot", a, NoKey, "none"))
  /\ UNCHANGED <<row, held, link, blob, aged>>

InsertFile(t) ==
  LET a == req[t].item IN
  /\ req[t].pc = "slot"
  /\ row' = [row EXCEPT ![a] = [status |-> "pending", key |-> a]]
  /\ link' = [link EXCEPT ![a] = "live"]
  /\ Finish(t)
  /\ UNCHANGED <<held, blob, aged, hist>>

\* Mutant: a fee with a confirmed receipt takes another.
IssueRead_Any(t, f) ==
  /\ Begin(t, At("issue", f, NoKey, "none"))
  /\ UNCHANGED <<row, held, link, blob, aged>>

IssueRead(t, f) ==
  /\ row[f].status # "available"
  /\ Begin(t, At("issue", f, NoKey, "none"))
  /\ UNCHANGED <<row, held, link, blob, aged>>

\* By id: over whatever receipt the fee has by now.
IssueWrite(t, k) ==
  /\ req[t].pc = "issue" /\ link[k] = "none"
  /\ row' = [row EXCEPT ![req[t].item] = [status |-> "pending", key |-> k]]
  /\ link' = [link EXCEPT ![k] = "live"]
  /\ Finish(t)
  /\ UNCHANGED <<held, blob, aged, hist>>

-----------------------------------------------------------------------------
(* Step 2: what arrived is checked                                         *)

\* A document of any status; a file or a receipt that is pending.
ConfirmRead(t, x) ==
  /\ row[x].status \in IF x \in Docs THEN {"pending", "available", "quarantined", "deleted"}
                       ELSE {"pending"}
  /\ Begin(t, At("stat", x, row[x].key, "none"))
  /\ UNCHANGED <<row, held, link, blob, aged>>

\* Refused: the blob is deleted before the row says so.
Refuse(t, verdict) == req' = [req EXCEPT ![t] = At("purge", @.item, @.key, verdict)]

\* Nothing there is an error; a file or a receipt is not to be too large.
Stat(t) ==
  LET r == req[t] IN
  /\ r.pc = "stat"
  /\ CASE blob[r.key] = "none" -> Finish(t)
       [] blob[r.key] = "large" /\ r.item \notin Docs -> Refuse(t, "rejected")
       [] OTHER -> Go(t, "scan")
  /\ read' = IF blob[r.key] = "none" THEN read ELSE read \cup {r.key}
  /\ UNCHANGED <<row, held, link, blob, aged, confirmed, crossed, late, stray, replaced>>

\* The bytes are fetched: they may be others by now, or gone, which is an error.  Their
\* size is not looked at again.
Scan(t, verdict) ==
  LET r == req[t] IN
  /\ r.pc = "scan"
  /\ CASE blob[r.key] = "none" -> verdict = "none" /\ Finish(t)
       [] blob[r.key] = "bad" ->
            /\ verdict \in IF r.item \in Docs THEN {"quarantined"} ELSE {"quarantined", "rejected"}
            /\ Refuse(t, verdict)
       [] OTHER -> /\ verdict = "available"
                   /\ req' = [req EXCEPT ![t] = At("settle", @.item, @.key, verdict)]
  /\ UNCHANGED <<row, held, link, blob, aged, hist>>

\* Mutant: a refused blob is left in the store.
Purge_Keep(t) ==
  /\ req[t].pc = "purge"
  /\ Go(t, "settle")
  /\ UNCHANGED <<row, held, link, blob, aged, hist>>

Purge(t) ==
  /\ req[t].pc = "purge"
  /\ blob' = Deleted(req[t].key)
  /\ Go(t, "settle")
  /\ UNCHANGED <<row, held, link, aged, hist>>

\* Mutant: the status is no condition of a file's update.
Settles_ById(t) ==
  LET r == req[t] IN
  r.item \in Fees => row[r.item].status = "pending" /\ row[r.item].key = r.key

\* Mutant: the key is no condition of a receipt's update.
Settles_NoKey(t) ==
  LET r == req[t] IN r.item \in Docs \/ row[r.item].status = "pending"

\* The condition of the update: none for a document, the status for a file, the
\* status and the key for a receipt.
Settles(t) ==
  LET r == req[t] IN
  \/ r.item \in Docs
  \/ row[r.item].status = "pending" /\ (r.item \in Fees => row[r.item].key = r.key)

Settle(t) ==
  LET r == req[t] IN
  /\ r.pc = "settle"
  /\ IF Settles(t)
       THEN /\ row' = [row EXCEPT ![r.item].status = r.verdict]
            /\ confirmed' = IF r.verdict = "available" THEN confirmed \cup {<<r.item, r.key>>}
                            ELSE confirmed
            /\ late' = IF r.item \in aged /\ r.verdict = "available"
                         THEN late \cup {r.item} ELSE late
       ELSE UNCHANGED <<row, confirmed, late>>
  /\ Finish(t)
  /\ UNCHANGED <<held, link, blob, aged, crossed, stray, read, replaced>>

-----------------------------------------------------------------------------
(* Removal                                                                 *)

\* Mutant: a document on hold can be deleted.
RemoveDocRead_Held(t, d) ==
  /\ row[d].status # "none"
  /\ Begin(t, At("blob", d, d, "none"))
  /\ UNCHANGED <<row, held, link, blob, aged>>

\* Of any status, unless on hold: the blob first, then the row, by id.
RemoveDocRead(t, d) ==
  /\ row[d].status # "none" /\ d \notin held
  /\ Begin(t, At("blob", d, d, "none"))
  /\ UNCHANGED <<row, held, link, blob, aged>>

RemoveDocBlob(t) ==
  /\ req[t].pc = "blob"
  /\ blob' = Deleted(req[t].key)
  /\ Go(t, "row")
  /\ UNCHANGED <<row, held, link, aged, hist>>

RemoveDocRow(t) ==
  /\ req[t].pc = "row"
  /\ row' = [row EXCEPT ![req[t].item].status = "deleted"]
  /\ Finish(t)
  /\ UNCHANGED <<held, link, blob, aged, hist>>

\* The status is a condition of a file's update; then the blob goes.
RemoveFile(t, a) ==
  /\ row[a].status = "available"
  /\ row' = [row EXCEPT ![a].status = "removed"]
  /\ Begin(t, At("drop", a, a, "none"))
  /\ UNCHANGED <<held, link, blob, aged>>

RemoveReceiptRead(t, f) ==
  /\ row[f].status # "none"
  /\ Begin(t, At("clear", f, row[f].key, "none"))
  /\ UNCHANGED <<row, held, link, blob, aged>>

\* Mutant: the key stays on the row.
ClearReceipt_KeepKey(t) ==
  /\ req[t].pc = "clear"
  /\ row' = [row EXCEPT ![req[t].item].status = "none"]
  /\ Go(t, "drop")
  /\ UNCHANGED <<held, link, blob, aged, hist>>

\* By id: whatever receipt the fee has by now; then the blob of the one read goes.
ClearReceipt(t) ==
  /\ req[t].pc = "clear"
  /\ row' = [row EXCEPT ![req[t].item] = [status |-> "none", key |-> NoKey]]
  /\ Go(t, "drop")
  /\ UNCHANGED <<held, link, blob, aged, hist>>

Drop(t) ==
  /\ req[t].pc = "drop"
  /\ blob' = Deleted(req[t].key)
  /\ Finish(t)
  /\ UNCHANGED <<row, held, link, aged, hist>>

\* Set or released at any time, on a deleted document too.
SetLegalHold(d) ==
  /\ row[d].status # "none"
  /\ held' = IF d \in held THEN held \ {d} ELSE held \cup {d}
  /\ crossed' = IF \E u \in Handlers : req[u].item = d /\ req[u].pc \in Alone
                  THEN crossed \cup {d} ELSE crossed
  /\ UNCHANGED <<row, link, blob, aged, req, confirmed, late, stray, read, replaced>>

-----------------------------------------------------------------------------
\* The process stops, the store or the database fails.
Fail(t) ==
  LET r == req[t] IN
  /\ r # Idle
  /\ crossed' = IF r.pc = "row" THEN crossed \cup {r.item} ELSE crossed
  /\ stray' = IF r.pc = "drop" THEN stray \cup {r.key} ELSE stray
  /\ Finish(t)
  /\ UNCHANGED <<row, held, link, blob, aged, confirmed, late, read, replaced>>

Next ==
  \/ \E k \in Blobs : LinkEnds(k) \/ \E content \in Contents : Arrive(k, content)
  \/ \E a \in Files : Age(a)
  \/ \E d \in Docs : IssueDocument(d) \/ SetLegalHold(d)
  \/ \E t \in Handlers :
       \/ \E a \in Files : CountFiles(t, a) \/ RemoveFile(t, a)
       \/ \E f \in Fees : IssueRead(t, f) \/ RemoveReceiptRead(t, f)
       \/ \E d \in Docs : RemoveDocRead(t, d)
       \/ \E x \in Items : ConfirmRead(t, x)
       \/ \E k \in Keys : IssueWrite(t, k)
       \/ \E v \in {"none", "available", "quarantined", "rejected"} : Scan(t, v)
       \/ InsertFile(t) \/ Stat(t) \/ Purge(t) \/ Settle(t) \/ RemoveDocBlob(t) \/ RemoveDocRow(t)
       \/ ClearReceipt(t) \/ Drop(t) \/ Fail(t)

Spec == Init /\ [][Next]_vars
-----------------------------------------------------------------------------
Statuses == {"none", "pending", "available", "quarantined", "rejected", "removed", "deleted"}

\* With bil_fees_receipt_chk: a receipt is all there or not there at all.
TypeOK ==
  /\ row \in [Items -> [status : Statuses, key : Blobs \cup {NoKey}]]
  /\ \A x \in Items : row[x].status = "none" <=> row[x].key = NoKey
  /\ held \subseteq Docs /\ aged \subseteq Files
  /\ link \in [Blobs -> {"none", "live", "over"}] /\ blob \in [Blobs -> Contents \cup {"none"}]
  /\ req \in [Handlers -> [pc : {"idle", "slot", "issue", "stat", "scan", "purge", "settle", "blob",
                                 "row", "clear", "drop"},
                           item : Items \cup {NoItem}, key : Blobs \cup {NoKey},
                           verdict : {"none", "available", "quarantined", "rejected"}]]
  /\ confirmed \subseteq Items \X Blobs /\ crossed \subseteq Items
  /\ late \subseteq Files /\ stray \subseteq Blobs
  /\ replaced \subseteq read /\ read \subseteq Blobs

\* What is available was found good under the key that is on the row: no verdict is
\* passed on to another upload, however confirmations and new issues overlap.
AvailableWasChecked ==
  \A x \in Items : row[x].status = "available" => <<x, row[x].key>> \in confirmed

\* What is available is in the store as it was found good, unless bytes were put under
\* its key again after a check had found some: a file or a receipt, and a document
\* while nobody removes it and no removal met another handler.
AvailableHasBlob ==
  \A x \in Items :
    /\ row[x].status = "available" /\ row[x].key \notin replaced
    /\ x \in Docs => x \notin crossed /\ \A t \in Handlers : req[t].item = x => req[t].pc # "row"
    => blob[row[x].key] \in Fit(x)

\* What was refused is in the store no more, "an infected blob is removed" like one
\* that is too large or not what it claims to be, unless bytes were put there again.
RefusedIsGone ==
  \A x \in Items :
    row[x].status \in {"quarantined", "rejected"} /\ row[x].key \notin replaced =>
      blob[row[x].key] = "none"

\* "At most 20 per request": files that take a slot, leaving aside those confirmed
\* after their link ran out, whose slot had been given away.
SlotsKept == Cardinality(Taken \ late) <= MaxFiles

\* The bytes of an upload that was available are on their row, or on their way out
\* of the store: except where their deletion failed, bytes were put there again after
\* a check had found some, or a receipt was issued over them while another handler was at
\* work on the fee.
NoOrphan ==
  \A c \in confirmed :
    blob[c[2]] # "none" /\ c[2] \notin stray \cup replaced /\ c[1] \notin crossed =>
      \/ row[c[1]] = [status |-> "available", key |-> c[2]]
      \/ \E t \in Handlers : req[t].pc \in {"drop", "clear"} /\ req[t].key = c[2]

\* "A document under legal hold cannot be deleted", unless it was put on hold while
\* it was being.
HeldIsKept ==
  [][\A d \in held \cap held' : row[d].status # "deleted" /\ row'[d].status = "deleted" =>
       d \in crossed]_vars
=============================================================================
