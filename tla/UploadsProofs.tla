---------------------------- MODULE UploadsProofs ----------------------------
(***************************************************************************)
(* Rows and blobs agree, slots are kept, nothing confirmed is orphaned and *)
(* what is held is kept, for any documents, fees, files and handlers.      *)
(***************************************************************************)
EXTENDS Uploads, FiniteSetTheorems, TLAPS

Pcs == {"idle", "slot", "issue", "stat", "scan", "purge", "settle", "blob", "row", "clear", "drop"}
Verdicts == {"none", "available", "quarantined", "rejected"}
Handler == [pc : Pcs, item : Items \cup {NoItem}, key : Blobs \cup {NoKey}, verdict : Verdicts]
Row == [status : Statuses, key : Blobs \cup {NoKey}]

Base ==
  /\ row \in [Items -> Row]
  /\ held \subseteq Docs /\ aged \subseteq Files
  /\ link \in [Blobs -> {"none", "live", "over"}] /\ blob \in [Blobs -> Contents \cup {"none"}]
  /\ req \in [Handlers -> Handler]
  /\ confirmed \subseteq Items \X Blobs /\ crossed \subseteq Items
  /\ late \subseteq Files /\ stray \subseteq Blobs
  /\ read \subseteq {k \in Blobs : link[k] # "none"} /\ replaced \subseteq read

\* What has come of the bytes under a key: awaited, until a check finds some; then what
\* they are, or that they are gone; or others were put there, and nothing is known.
Fates == {"none", "awaited", "good", "large", "bad", "gone", "replaced"}
fate == [k \in Blobs |->
  IF link[k] = "none" THEN "none"
  ELSE IF k \notin read THEN "awaited"
  ELSE IF k \in replaced THEN "replaced"
  ELSE IF blob[k] = "none" THEN "gone"
  ELSE IF blob[k] \in Fit(k) THEN "good" ELSE blob[k]]

\* The key an item's bytes are under.
Own(x, k) == IF x \in Fees THEN k \in Keys ELSE k = x

\* A handler at work: what it has read, and what has come of the blob since.
Working(t) ==
  LET r == req[t]
      x == r.item
      k == r.key
  IN
  /\ r.pc = "idle" <=> x = NoItem
  /\ r.pc \in {"idle", "slot", "issue"} => k = NoKey
  /\ r.pc \notin {"idle", "slot", "issue"} =>
       /\ Own(x, k) /\ fate[k] # "none"
       /\ x \notin Fees => row[x].status # "none"
       /\ \A f \in Fees \ {x} : row[f].key # k
  /\ r.pc = "slot" => x \in Files /\ row[x].status = "none" /\ fate[x] = "none"
  /\ r.pc = "issue" => x \in Fees
  /\ r.pc = "scan" => fate[k] \in {"good", "bad", "gone", "replaced"}
  /\ r.pc = "purge" => /\ r.verdict \in {"quarantined", "rejected"}
                       /\ fate[k] \in {"large", "bad", "gone", "replaced"}
  /\ r.pc = "settle" =>
       \/ r.verdict = "available" /\ fate[k] \in {"good", "gone", "replaced"}
       \/ r.verdict \in {"quarantined", "rejected"} /\ fate[k] \in {"gone", "replaced"}
  /\ r.pc \in {"blob", "row"} => x \in Docs
  /\ r.pc = "clear" => x \in Fees
  /\ r.pc = "drop" => /\ x \notin Docs
                      /\ x \in Files => row[x].status = "removed"
                      /\ x \in Fees => row[x].key # k

Recorded(x) ==
  LET k == row[x].key IN
  /\ row[x].status = "none" <=> k = NoKey
  /\ row[x].status # "none" => Own(x, k) /\ fate[k] # "none"
  /\ x \notin Fees /\ row[x].status = "none" => fate[x] = "none"
  /\ row[x].status \in {"quarantined", "rejected"} => fate[k] \in {"gone", "replaced"}
  /\ \A f \in Fees \ {x} : row[f].key = k => k = NoKey
  /\ row[x].status = "available" => fate[k] \in {"good", "gone", "replaced"}

OneSlot == \A t, u \in Handlers : req[t].pc = "slot" /\ req[u].pc = "slot" => t = u

Agree == /\ Base /\ OneSlot
         /\ \A t \in Handlers : Working(t)
         /\ \A x \in Items : Recorded(x)

LEMMA Kinds ==
  /\ \A x \in Docs \cup Files : x \in Items /\ x \in Blobs /\ x \notin Fees /\ x \notin Keys
  /\ \A x \in Fees : x \in Items /\ x \notin Docs /\ x \notin Files
  /\ \A x \in Items : x # NoItem
  /\ \A k \in Blobs : k # NoKey
  /\ Keys \subseteq Blobs /\ NoKey \notin Keys
  /\ Docs \cap Files = {}
BY UploadsAssumption DEF Items, Blobs

LEMMA IdleTyped == Idle \in Handler /\ Idle.pc = "idle" /\ Idle.item = NoItem /\ Idle.key = NoKey
BY DEF Idle, At, Handler, Pcs, Verdicts

LEMMA AtTyped ==
  ASSUME NEW pc \in Pcs, NEW x \in Items, NEW k \in Blobs \cup {NoKey}, NEW v \in Verdicts
  PROVE  /\ At(pc, x, k, v) \in Handler
         /\ At(pc, x, k, v).pc = pc /\ At(pc, x, k, v).item = x /\ At(pc, x, k, v).key = k
         /\ At(pc, x, k, v).verdict = v
BY DEF At, Handler

LEMMA BaseInit == Init => Base
BY IdleTyped DEF Init, Base, Row, Statuses

LEMMA BaseBegin ==
  ASSUME Base, NEW t \in Handlers, NEW r \in Handler, r.item \in Items, Begin(t, r)
  PROVE  req' \in [Handlers -> Handler] /\ crossed' \subseteq Items /\ UNCHANGED <<confirmed, late, stray, read, replaced>>
BY DEF Base, Begin

LEMMA ItemTyped ==
  ASSUME Agree, NEW t \in Handlers
  PROVE  /\ req[t] \in Handler /\ Working(t)
         /\ req[t].pc # "idle" => req[t].item \in Items /\ req[t].item # NoItem
         /\ req[t].pc \notin {"idle", "slot", "issue"} => req[t].key \in Blobs
<1>1. req[t] \in Handler /\ Working(t)
  BY DEF Agree, Base
<1>2. req[t].pc # "idle" => req[t].item \in Items /\ req[t].item # NoItem
  BY <1>1 DEF Handler, Working
<1>3. req[t].pc \notin {"idle", "slot", "issue"} => req[t].key \in Blobs
  BY <1>1, <1>2, Kinds DEF Working, Own, Items, Blobs
<1> QED BY <1>1, <1>2, <1>3

LEMMA BaseNext ==
  ASSUME Agree, Next
  PROVE  Base'
<1>0. Base
  BY DEF Agree
<1>1. ASSUME NEW k \in Blobs, NEW c \in Contents, Arrive(k, c) PROVE Base'
  BY <1>0, <1>1 DEF Base, Arrive, hist
<1>20. ASSUME NEW k \in Blobs, LinkEnds(k) PROVE Base'
  BY <1>0, <1>20 DEF Base, LinkEnds, hist
<1>2. ASSUME NEW a \in Files, Age(a) PROVE Base'
  BY <1>0, <1>2 DEF Base, Age, hist
<1>3. ASSUME NEW d \in Docs, IssueDocument(d) PROVE Base'
  BY <1>0, <1>3, Kinds DEF Base, IssueDocument, hist, Row, Statuses
<1>4. ASSUME NEW d \in Docs, SetLegalHold(d) PROVE Base'
  BY <1>0, <1>4, Kinds DEF Base, SetLegalHold
<1>5. ASSUME NEW t \in Handlers, NEW a \in Files, CountFiles(t, a) PROVE Base'
  <2>1. At("slot", a, NoKey, "none") \in Handler /\ At("slot", a, NoKey, "none").item = a
    BY Kinds, AtTyped DEF Pcs, Verdicts
  <2> QED BY <1>0, <1>5, <2>1, BaseBegin, Kinds DEF CountFiles, Base
<1>6. ASSUME NEW t \in Handlers, InsertFile(t) PROVE Base'
  <2>1. req[t].item \in Files
    BY <1>6, ItemTyped DEF InsertFile, Working
  <2> QED BY <1>0, <1>6, <2>1, IdleTyped, Kinds DEF Base, InsertFile, Finish, hist, Row, Statuses
<1>7. ASSUME NEW t \in Handlers, NEW f \in Fees, IssueRead(t, f) PROVE Base'
  <2>1. At("issue", f, NoKey, "none") \in Handler /\ At("issue", f, NoKey, "none").item = f
    BY Kinds, AtTyped DEF Pcs, Verdicts
  <2> QED BY <1>0, <1>7, <2>1, BaseBegin, Kinds DEF IssueRead, Base
<1>8. ASSUME NEW t \in Handlers, NEW k \in Keys, IssueWrite(t, k) PROVE Base'
  BY <1>0, <1>8, IdleTyped, ItemTyped, Kinds DEF Base, IssueWrite, Finish, hist, Row, Statuses
<1>9. ASSUME NEW t \in Handlers, NEW x \in Items, ConfirmRead(t, x) PROVE Base'
  <2>1. row[x].key \in Blobs \cup {NoKey}
    BY <1>0 DEF Base, Row
  <2>2. At("stat", x, row[x].key, "none") \in Handler /\ At("stat", x, row[x].key, "none").item = x
    BY <2>1, AtTyped DEF Pcs, Verdicts
  <2> QED BY <1>0, <1>9, <2>2, BaseBegin DEF ConfirmRead, Base
<1>10. ASSUME NEW t \in Handlers, NEW v \in Verdicts, Scan(t, v) PROVE Base'
  <2>1. req[t].item \in Items /\ req[t].key \in Blobs
    BY <1>10, ItemTyped DEF Scan
  <2>2. At("settle", req[t].item, req[t].key, v) \in Handler
        /\ At("purge", req[t].item, req[t].key, v) \in Handler
    BY <2>1, AtTyped DEF Pcs
  <2> QED BY <1>0, <1>10, <2>2, IdleTyped DEF Base, Scan, Refuse, Finish, hist
<1>21. ASSUME NEW t \in Handlers, Stat(t) PROVE Base'
  <2>1. req[t] \in Handler /\ req[t].item \in Items /\ req[t].key \in Blobs /\ link[req[t].key] # "none"
    BY <1>21, ItemTyped DEF Stat, Working, fate
  <2>2. At("purge", req[t].item, req[t].key, "rejected") \in Handler
    BY <2>1, AtTyped DEF Pcs, Verdicts
  <2>3. [req[t] EXCEPT !.pc = "scan"] \in Handler
    BY <2>1 DEF Handler, Pcs
  <2>4. req' \in [Handlers -> Handler]
    BY <1>0, <1>21, <2>2, <2>3, IdleTyped DEF Base, Stat, Refuse, Go, Finish
  <2>5. read' \subseteq {k \in Blobs : link[k] # "none"} /\ replaced \subseteq read'
    BY <1>0, <1>21, <2>1 DEF Base, Stat
  <2> QED BY <1>0, <1>21, <2>4, <2>5 DEF Base, Stat
<1>11. ASSUME NEW t \in Handlers, Purge(t) \/ RemoveDocBlob(t) PROVE Base'
  BY <1>0, <1>11 DEF Base, Purge, RemoveDocBlob, Go, Deleted, hist, Handler, Pcs
<1>12. ASSUME NEW t \in Handlers, Settle(t) PROVE Base'
  <2>1. req[t].item \in Items /\ req[t].key \in Blobs /\ req[t].verdict \in Statuses
    BY <1>12, ItemTyped DEF Settle, Handler, Verdicts, Statuses
  <2> QED BY <1>0, <1>12, <2>1, IdleTyped DEF Base, Settle, Finish, Row
<1>13. ASSUME NEW t \in Handlers, NEW d \in Docs, RemoveDocRead(t, d) PROVE Base'
  <2>1. At("blob", d, d, "none") \in Handler /\ At("blob", d, d, "none").item = d
    BY Kinds, AtTyped DEF Pcs, Verdicts
  <2> QED BY <1>0, <1>13, <2>1, BaseBegin, Kinds DEF RemoveDocRead, Base
<1>14. ASSUME NEW t \in Handlers, RemoveDocRow(t) PROVE Base'
  BY <1>0, <1>14, IdleTyped DEF Base, RemoveDocRow, Finish, hist, Row, Statuses
<1>15. ASSUME NEW t \in Handlers, NEW a \in Files, RemoveFile(t, a) PROVE Base'
  <2>1. At("drop", a, a, "none") \in Handler /\ At("drop", a, a, "none").item = a
    BY Kinds, AtTyped DEF Pcs, Verdicts
  <2>2. row' \in [Items -> Row]
    BY <1>0, <1>15 DEF RemoveFile, Base, Row, Statuses
  <2> QED BY <1>0, <1>15, <2>1, <2>2, BaseBegin, Kinds DEF RemoveFile, Base
<1>16. ASSUME NEW t \in Handlers, NEW f \in Fees, RemoveReceiptRead(t, f) PROVE Base'
  <2>1. row[f].key \in Blobs \cup {NoKey}
    BY <1>0, Kinds DEF Base, Row
  <2>2. At("clear", f, row[f].key, "none") \in Handler /\ At("clear", f, row[f].key, "none").item = f
    BY <2>1, Kinds, AtTyped DEF Pcs, Verdicts
  <2> QED BY <1>0, <1>16, <2>2, BaseBegin, Kinds DEF RemoveReceiptRead, Base
<1>17. ASSUME NEW t \in Handlers, ClearReceipt(t) PROVE Base'
  BY <1>0, <1>17 DEF Base, ClearReceipt, Go, hist, Row, Statuses, Handler, Pcs
<1>18. ASSUME NEW t \in Handlers, Drop(t) PROVE Base'
  BY <1>0, <1>18, IdleTyped DEF Base, Drop, Finish, Deleted, hist
<1>19. ASSUME NEW t \in Handlers, Fail(t) PROVE Base'
  <2>1. /\ req[t].pc = "row" => req[t].item \in Items
        /\ req[t].pc = "drop" => req[t].key \in Blobs
    BY ItemTyped
  <2> QED BY <1>0, <1>19, <2>1, IdleTyped DEF Base, Fail, Finish
<1> QED
  BY <1>1, <1>2, <1>3, <1>4, <1>5, <1>6, <1>7, <1>8, <1>9, <1>10, <1>11, <1>12, <1>13, <1>14,
     <1>15, <1>16, <1>17, <1>18, <1>19, <1>20, <1>21 DEF Next, Verdicts

-----------------------------------------------------------------------------
(* What each step makes of the bytes                                       *)

LEMMA FateTyped ==
  ASSUME Base
  PROVE  fate \in [Blobs -> Fates] /\ \A k \in Blobs : fate[k] = "none" <=> link[k] = "none"
BY DEF Base, fate, Fates, Contents

LEMMA SameFate == UNCHANGED <<link, blob, read, replaced>> => UNCHANGED fate
BY DEF fate

LEMMA SameFateBegun ==
  ASSUME NEW t \in Handlers, NEW r, Begin(t, r), UNCHANGED <<link, blob>>
  PROVE  UNCHANGED fate
BY SameFate DEF Begin

LEMMA FateOpened ==
  ASSUME Base, NEW k \in Blobs, fate[k] = "none", link' = [link EXCEPT ![k] = "live"],
         UNCHANGED <<blob, read, replaced>>
  PROVE  fate' = [fate EXCEPT ![k] = "awaited"]
<1>1. link[k] = "none" /\ k \notin read /\ link'[k] = "live" /\ \A j \in Blobs : j # k => link'[j] = link[j]
  BY FateTyped DEF Base
<1>2. fate'[k] = "awaited" /\ \A j \in Blobs : j # k => fate'[j] = fate[j]
  BY <1>1 DEF fate
<1>3. fate' = [j \in Blobs |-> fate'[j]] /\ fate = [j \in Blobs |-> fate[j]]
  BY DEF fate
<1> QED BY <1>2, <1>3

Lost(k) == [fate EXCEPT ![k] = IF @ \in {"good", "large", "bad"} THEN "gone" ELSE @]

LEMMA FateDeleted ==
  ASSUME Base, NEW k \in Blobs, blob' = Deleted(k), UNCHANGED <<link, read, replaced>>
  PROVE  fate' = Lost(k)
<1>1. blob'[k] = "none" /\ \A j \in Blobs : j # k => blob'[j] = blob[j]
  BY DEF Base, Deleted
<1>2. /\ fate'[k] = IF fate[k] \in {"good", "large", "bad"} THEN "gone" ELSE fate[k]
      /\ \A j \in Blobs : j # k => fate'[j] = fate[j]
  BY <1>1 DEF fate, Base, Contents
<1>3. fate' = [j \in Blobs |-> fate'[j]] /\ fate = [j \in Blobs |-> fate[j]]
  BY DEF fate
<1> QED BY <1>2, <1>3 DEF Lost

LEMMA FateArrives ==
  ASSUME Base, NEW k \in Blobs, NEW c \in Contents, Arrive(k, c)
  PROVE  \A j \in Blobs : fate'[j] = fate[j] \/ (fate[j] \notin {"none", "awaited"} /\ fate'[j] = "replaced")
<1>1. /\ UNCHANGED <<link, read>> /\ (k \notin read => UNCHANGED replaced)
      /\ \A j \in Blobs : j # k => blob'[j] = blob[j] /\ (j \in replaced' <=> j \in replaced)
      /\ k \in read => k \in replaced'
  BY DEF Arrive, Base
<1>2. \A j \in Blobs : j # k => fate'[j] = fate[j]
  BY <1>1 DEF fate
<1>3. k \in read => fate[k] \notin {"none", "awaited"} /\ fate'[k] = "replaced"
  BY <1>1 DEF fate, Base, Contents
<1>4. k \notin read => fate'[k] = fate[k]
  BY <1>1 DEF fate
<1> QED BY <1>2, <1>3, <1>4

LEMMA FateLinkEnds ==
  ASSUME Base, NEW k \in Blobs, LinkEnds(k)
  PROVE  UNCHANGED fate
<1>1. UNCHANGED <<blob, read, replaced>> /\ \A j \in Blobs : link'[j] = "none" <=> link[j] = "none"
  BY DEF LinkEnds, hist, Base
<1> QED BY <1>1 DEF fate

LEMMA FitKey ==
  ASSUME NEW x \in Items, NEW k, Own(x, k)
  PROVE  Fit(k) = Fit(x)
BY Kinds DEF Own, Fit, Items

\* What a check finds: nothing, too much, or something to look into.
LEMMA FateStat ==
  ASSUME Agree, NEW t \in Handlers, Stat(t)
  PROVE  LET k == req[t].key IN
         /\ \A j \in Blobs : fate'[j] = fate[j] \/ (j = k /\ fate[j] = "awaited" /\ fate'[j] # "none")
         /\ \/ req'[t] = Idle
            \/ req'[t] = At("purge", req[t].item, k, "rejected") /\ fate'[k] \in {"large", "replaced"}
            \/ req'[t] = [req[t] EXCEPT !.pc = "scan"] /\ fate'[k] \in {"good", "bad", "replaced"}
<1> DEFINE r == req[t]
           k == req[t].key
<1>1. /\ r \in Handler /\ r.item \in Items /\ k \in Blobs /\ Own(r.item, k) /\ fate[k] # "none" /\ Base
      /\ req \in [Handlers -> Handler]
  BY ItemTyped DEF Stat, Working, Agree, Base
<1>2. link[k] # "none" /\ UNCHANGED <<link, blob, replaced>>
  BY <1>1, FateTyped DEF Stat
<1>3. CASE blob[k] = "none"
  <2>1. read' = read /\ req'[t] = Idle
    BY <1>1, <1>3 DEF Stat, Finish
  <2> QED BY <1>2, <2>1, SameFate
<1>4. CASE blob[k] # "none"
  <2>1. read' = read \cup {k}
    BY <1>4 DEF Stat
  <2>2. \A j \in Blobs : j # k => fate'[j] = fate[j]
    BY <1>2, <2>1 DEF fate
  <2>3. fate'[k] = IF k \in replaced THEN "replaced" ELSE IF blob[k] \in Fit(k) THEN "good" ELSE blob[k]
    BY <1>1, <1>2, <1>4, <2>1 DEF fate
  <2>4. fate[k] = "awaited" \/ fate'[k] = fate[k]
    BY <1>1, <1>2, <1>4, <2>1 DEF fate
  <2>5. blob[k] \in Contents /\ Fit(k) = Fit(r.item)
    BY <1>1, <1>4, FitKey DEF Base
  <2>6. CASE blob[k] = "large" /\ r.item \notin Docs
    <3>1. req'[t] = At("purge", r.item, k, "rejected")
      BY <1>1, <2>6 DEF Stat, Refuse
    <3>2. fate'[k] \in {"large", "replaced"}
      BY <2>3, <2>5, <2>6 DEF Fit
    <3> QED BY <2>2, <2>4, <3>1, <3>2
  <2>7. CASE ~(blob[k] = "large" /\ r.item \notin Docs)
    <3>1. req'[t] = [r EXCEPT !.pc = "scan"]
      BY <1>1, <1>4, <2>7 DEF Stat, Go
    <3>2. fate'[k] \in {"good", "bad", "replaced"}
      BY <2>3, <2>5, <2>7 DEF Fit, Contents
    <3> QED BY <2>2, <2>4, <3>1, <3>2
  <2> QED BY <2>6, <2>7
<1> QED BY <1>3, <1>4

LEMMA FateScan ==
  ASSUME Agree, NEW t \in Handlers, NEW v \in Verdicts, Scan(t, v)
  PROVE  LET k == req[t].key IN
         /\ UNCHANGED fate
         /\ \/ req'[t] = Idle
            \/ req'[t] = At("settle", req[t].item, k, v) /\ v = "available" /\ fate[k] \in {"good", "replaced"}
            \/ /\ req'[t] = At("purge", req[t].item, k, v) /\ v \in {"quarantined", "rejected"}
               /\ fate[k] \in {"bad", "replaced"}
<1> DEFINE r == req[t]
           k == req[t].key
<1>1. /\ r.item \in Items /\ k \in Blobs /\ Own(r.item, k) /\ fate[k] \in {"good", "bad", "gone", "replaced"}
      /\ Base /\ req \in [Handlers -> Handler]
  BY ItemTyped DEF Scan, Working, Agree, Base
<1>2. UNCHANGED fate
  BY SameFate DEF Scan, hist
<1>3. blob[k] \in Contents \cup {"none"} /\ Fit(k) = Fit(r.item)
  BY <1>1, FitKey DEF Base
<1>4. CASE blob[k] = "none"
  BY <1>1, <1>2, <1>4 DEF Scan, Finish
<1>5. CASE blob[k] = "bad"
  <2>1. fate[k] \in {"bad", "replaced"}
    BY <1>1, <1>5 DEF fate, Fit
  <2>2. req'[t] = At("purge", r.item, k, v) /\ v \in {"quarantined", "rejected"}
    BY <1>1, <1>5 DEF Scan, Refuse
  <2> QED BY <1>2, <2>1, <2>2
<1>6. CASE blob[k] \in {"good", "large"}
  <2>1. fate[k] \in {"good", "replaced"}
    BY <1>1, <1>6 DEF fate
  <2>2. req'[t] = At("settle", r.item, k, v) /\ v = "available"
    BY <1>1, <1>6 DEF Scan
  <2> QED BY <1>2, <2>1, <2>2
<1> QED BY <1>3, <1>4, <1>5, <1>6 DEF Contents

-----------------------------------------------------------------------------
(* Rows and handlers agree with the store                                  *)

\* What every step keeps: a row once there, a blob's fate, a file's removal; and
\* a receipt's key is a fresh one.
Grows ==
  /\ \A x \in Docs \cup Files : row[x].status # "none" => row'[x].status # "none"
  /\ \A a \in Files : row[a].status = "removed" => row'[a].status = "removed"
  /\ \A k \in Blobs : /\ fate[k] # "none" => fate'[k] # "none"
                      /\ fate[k] = "replaced" => fate'[k] = "replaced"
                      /\ fate[k] = "gone" => fate'[k] \in {"gone", "replaced"}
                      /\ fate[k] = "bad" => fate'[k] \in {"bad", "gone", "replaced"}
                      /\ fate[k] = "large" => fate'[k] \in {"large", "gone", "replaced"}
                      /\ fate[k] = "good" => fate'[k] \in {"good", "gone", "replaced"}
  /\ \A f \in Fees : row'[f].key \in {row[f].key, NoKey} \/ fate[row'[f].key] = "none"

LEMMA WorkingStays ==
  ASSUME Agree, Grows, NEW t \in Handlers, req'[t] = req[t],
         req[t].pc = "slot" => row'[req[t].item].status = "none" /\ fate'[req[t].item] = "none"
  PROVE  Working(t)'
<1>1. /\ req[t] \in Handler /\ Working(t)
      /\ req[t].pc # "idle" => req[t].item \in Items
      /\ req[t].pc \notin {"idle", "slot", "issue"} => req[t].key \in Blobs
  BY ItemTyped
<1>2. req[t].item \in Items /\ req[t].item \notin Fees => req[t].item \in Docs \cup Files
  BY DEF Items
<1>3. req[t].pc = "drop" /\ req[t].item \in Fees => row'[req[t].item].key # req[t].key
  BY <1>1, Kinds DEF Working, Grows
<1>4. req[t].pc \notin {"idle", "slot", "issue"} =>
        \A f \in Fees \ {req[t].item} : row'[f].key # req[t].key
  BY <1>1, Kinds DEF Working, Grows
<1> QED BY <1>1, <1>2, <1>3, <1>4 DEF Working, Grows, Own

LEMMA RecordedStays ==
  ASSUME Agree, Grows, NEW x \in Items, row'[x] = row[x],
         x \notin Fees /\ row[x].status = "none" => fate'[x] = "none"
  PROVE  Recorded(x)'
<1>1. Recorded(x) /\ row[x].key \in Blobs \cup {NoKey}
  BY DEF Agree, Base, Row
<1>2. \A f \in Fees \ {x} : row'[f].key = row[x].key => row[x].key = NoKey
  BY <1>1 DEF Recorded, Grows
<1> QED BY <1>1, <1>2 DEF Recorded, Grows, Own

\* A handler that reads touches no blob; one that counts finds nobody counting.
LEMMA AgreeBegins ==
  ASSUME Agree, Base', NEW t \in Handlers, NEW r \in Handler, Begin(t, r), UNCHANGED <<row, fate>>,
         r.pc = "slot" => \A u \in Handlers : req[u].pc # "slot",
         r.item \in Items,
         \/ r.pc = "slot" /\ r.key = NoKey /\ r.item \in Files /\ row[r.item].status = "none"
         \/ r.pc = "issue" /\ r.key = NoKey /\ r.item \in Fees
         \/ /\ row[r.item].status # "none" /\ r.key = row[r.item].key
            /\ \/ r.pc = "stat"
               \/ r.pc = "blob" /\ r.item \in Docs
               \/ r.pc = "clear" /\ r.item \in Fees
  PROVE  Agree'
<1>1. req' = [req EXCEPT ![t] = r] /\ req'[t] = r /\ \A u \in Handlers : u # t => req'[u] = req[u]
  BY DEF Begin, Agree, Base
<1>2. Grows
  BY DEF Grows
<1>3. ASSUME NEW u \in Handlers, u # t PROVE Working(u)'
  <2>1. req[u].pc = "slot" => row'[req[u].item].status = "none" /\ fate'[req[u].item] = "none"
    BY ItemTyped DEF Working
  <2> QED BY <1>1, <1>2, <1>3, <2>1, WorkingStays
<1>4. Working(t)'
  <2>1. Recorded(r.item) /\ r.item # NoItem
    BY Kinds DEF Agree
  <2> QED BY <1>1, <2>1, Kinds DEF Working, Recorded
<1>5. \A x \in Items : Recorded(x)'
  <2>1. \A x \in Items : x \notin Fees /\ row[x].status = "none" => fate'[x] = "none"
    BY DEF Agree, Recorded
  <2> QED BY <1>2, <2>1, RecordedStays
<1>6. OneSlot'
  BY <1>1 DEF Agree, OneSlot
<1> QED BY <1>3, <1>4, <1>5, <1>6 DEF Agree

\* A handler goes on, is done, or none is at work.
LEMMA AgreeGoes ==
  ASSUME Agree, Base', Grows, NEW t \in Handlers, \A u \in Handlers : u # t => req'[u] = req[u],
         req'[t].pc # "slot", Working(t)', \A x \in Items : Recorded(x)',
         \A a \in Files : row[a].status = "none" /\ fate[a] = "none" =>
           req[t].pc = "slot" \/ (row'[a].status = "none" /\ fate'[a] = "none")
  PROVE  Agree'
<1>1. ASSUME NEW u \in Handlers, u # t PROVE Working(u)'
  <2>1. req[u].pc = "slot" => row'[req[u].item].status = "none" /\ fate'[req[u].item] = "none"
    BY <1>1, ItemTyped DEF Working, Agree, OneSlot
  <2> QED BY <1>1, <2>1, WorkingStays
<1>2. OneSlot'
  BY DEF Agree, OneSlot
<1> QED BY <1>1, <1>2 DEF Agree

LEMMA AgreeRests ==
  ASSUME Agree, Base', Grows, UNCHANGED req, \A x \in Items : Recorded(x)',
         \A a \in Files : row[a].status = "none" /\ fate[a] = "none" =>
           row'[a].status = "none" /\ fate'[a] = "none"
  PROVE  Agree'
<1>1. ASSUME NEW u \in Handlers PROVE Working(u)'
  <2>1. req[u].pc = "slot" => row'[req[u].item].status = "none" /\ fate'[req[u].item] = "none"
    BY ItemTyped DEF Working
  <2> QED BY <2>1, WorkingStays
<1> QED BY <1>1 DEF Agree, OneSlot

LEMMA IdleWorks == ASSUME NEW t \in Handlers, req'[t] = Idle PROVE Working(t)'
BY IdleTyped DEF Working

\* A row is in the table before its blob is in the store.
LEMMA BlobRecorded ==
  ASSUME Agree, NEW x \in Items
  PROVE  /\ Recorded(x) /\ row[x] \in Row
         /\ row[x].status # "none" => row[x].key \in Blobs
         /\ x \notin Fees => x \in Docs \cup Files /\ x \in Blobs
BY Kinds DEF Agree, Base, Recorded, Own, Items, Row

LEMMA AgreeInit == Init => Agree
<1> SUFFICES ASSUME Init PROVE Agree
  OBVIOUS
<1>1. \A t \in Handlers : Working(t) /\ req[t].pc = "idle"
  BY IdleTyped DEF Init, Working
<1>2. \A x \in Items : Recorded(x)
  <2>1. \A k \in Blobs : fate[k] = "none"
    BY DEF Init, fate
  <2> QED BY <2>1, Kinds DEF Init, Recorded, Items, Blobs
<1> QED BY <1>1, <1>2, BaseInit DEF Agree, OneSlot

LEMMA ArriveAgree ==
  ASSUME Agree, Base', NEW k \in Blobs, NEW c \in Contents, Arrive(k, c)
  PROVE  Agree'
<1>1. /\ UNCHANGED <<row, req>>
      /\ \A j \in Blobs : fate'[j] = fate[j] \/ (fate[j] \notin {"none", "awaited"} /\ fate'[j] = "replaced")
  BY FateArrives DEF Arrive, Agree
<1>2. Grows
  BY <1>1 DEF Grows
<1>3. \A x \in Docs \cup Files : fate[x] = "none" => fate'[x] = "none"
  BY <1>1, Kinds
<1>4. \A x \in Items : Recorded(x)'
  BY <1>1, <1>2, <1>3, BlobRecorded, RecordedStays DEF Recorded
<1> QED BY <1>1, <1>2, <1>3, <1>4, AgreeRests

LEMMA LinkEndsAgree ==
  ASSUME Agree, Base', NEW k \in Blobs, LinkEnds(k)
  PROVE  Agree'
<1>1. UNCHANGED <<row, fate, req>>
  BY FateLinkEnds DEF LinkEnds, hist, Agree
<1>2. Grows
  BY <1>1 DEF Grows
<1>3. \A x \in Items : Recorded(x)'
  BY <1>1, <1>2, RecordedStays, BlobRecorded DEF Recorded
<1> QED BY <1>1, <1>2, <1>3, AgreeRests

LEMMA AgeAgree ==
  ASSUME Agree, Base', NEW a \in Files, Age(a)
  PROVE  Agree'
<1>1. UNCHANGED <<row, fate, req>>
  BY SameFate DEF Age, hist
<1>2. Grows
  BY <1>1 DEF Grows
<1>3. \A x \in Items : Recorded(x)'
  BY <1>1, <1>2, RecordedStays, BlobRecorded DEF Recorded
<1> QED BY <1>1, <1>2, <1>3, AgreeRests

LEMMA HoldAgree ==
  ASSUME Agree, Base', NEW d \in Docs, SetLegalHold(d)
  PROVE  Agree'
<1>1. UNCHANGED <<row, fate, req>>
  BY SameFate DEF SetLegalHold
<1>2. Grows
  BY <1>1 DEF Grows
<1>3. \A x \in Items : Recorded(x)'
  BY <1>1, <1>2, RecordedStays, BlobRecorded DEF Recorded
<1> QED BY <1>1, <1>2, <1>3, AgreeRests

\* A new row of a document or a file, with its own key.
LEMMA NewRow ==
  ASSUME Agree, Base', NEW x \in Docs \cup Files, row[x].status = "none",
         row' = [row EXCEPT ![x] = [status |-> "pending", key |-> x]],
         fate' = [fate EXCEPT ![x] = "awaited"]
  PROVE  Grows /\ \A y \in Items : Recorded(y)'
<1>1. x \in Items /\ x \in Blobs /\ x \notin Fees /\ x \notin Keys /\ fate[x] = "none" /\ x # NoKey
  BY Kinds, BlobRecorded DEF Recorded
<1>2. /\ row'[x] = [status |-> "pending", key |-> x] /\ \A y \in Items : y # x => row'[y] = row[y]
      /\ fate'[x] = "awaited" /\ \A k \in Blobs : k # x => fate'[k] = fate[k]
  BY <1>1, FateTyped DEF Agree, Base
<1>3. Grows
  BY <1>1, <1>2, Kinds DEF Grows
<1>4. ASSUME NEW y \in Items, y # x PROVE Recorded(y)'
  BY <1>2, <1>3, <1>4, BlobRecorded, RecordedStays DEF Recorded
<1>5. Recorded(x)'
  <2>1. \A f \in Fees : row[f].key \notin Docs \cup Files
    BY Kinds, BlobRecorded DEF Recorded, Own
  <2> QED BY <1>1, <1>2, <2>1, Kinds DEF Recorded, Own
<1> QED BY <1>3, <1>4, <1>5

LEMMA IssueDocumentAgree ==
  ASSUME Agree, Base', NEW d \in Docs, IssueDocument(d)
  PROVE  Agree'
<1>1. d \in Blobs /\ d \in Items /\ d \notin Fees /\ fate[d] = "none"
  BY Kinds, BlobRecorded DEF IssueDocument, Recorded
<1>2. fate' = [fate EXCEPT ![d] = "awaited"]
  BY <1>1, FateOpened DEF IssueDocument, hist, Agree
<1>3. Grows /\ \A y \in Items : Recorded(y)'
  BY <1>2, NewRow DEF IssueDocument
<1>4. UNCHANGED req /\ \A a \in Files : row'[a] = row[a] /\ fate'[a] = fate[a]
  BY <1>2, Kinds, FateTyped DEF IssueDocument, hist, Agree, Base
<1> QED BY <1>3, <1>4, AgreeRests

LEMMA InsertFileAgree ==
  ASSUME Agree, Base', NEW t \in Handlers, InsertFile(t)
  PROVE  Agree'
<1>1. req[t].pc = "slot" /\ req[t].item \in Files /\ row[req[t].item].status = "none"
  BY ItemTyped DEF InsertFile, Working
<1>5. fate' = [fate EXCEPT ![req[t].item] = "awaited"]
  <2>1. req[t].item \in Blobs /\ fate[req[t].item] = "none"
    BY <1>1, Kinds, BlobRecorded DEF Recorded
  <2> QED BY <2>1, FateOpened DEF InsertFile, hist, Agree
<1>2. Grows /\ \A y \in Items : Recorded(y)'
  BY <1>1, <1>5, NewRow DEF InsertFile
<1>3. req'[t] = Idle /\ \A u \in Handlers : u # t => req'[u] = req[u]
  BY DEF InsertFile, Finish, Agree, Base
<1>4. Working(t)' /\ req'[t].pc # "slot"
  BY <1>3, IdleWorks, IdleTyped
<1> QED BY <1>1, <1>2, <1>3, <1>4, AgreeGoes

LEMMA IssueWriteAgree ==
  ASSUME Agree, Base', NEW t \in Handlers, NEW k \in Keys, IssueWrite(t, k)
  PROVE  Agree'
<1>0. PICK f \in Fees : f = req[t].item
  BY ItemTyped DEF IssueWrite, Working
<1>1. f \in Fees /\ f \in Items /\ k \in Blobs /\ k # NoKey /\ fate[k] = "none" /\ k \notin Docs \cup Files
  BY Kinds, FateTyped DEF IssueWrite, Agree
<1>8. fate' = [fate EXCEPT ![k] = "awaited"]
  BY <1>1, FateOpened DEF IssueWrite, hist, Agree
<1>2. /\ row'[f] = [status |-> "pending", key |-> k] /\ \A y \in Items : y # f => row'[y] = row[y]
      /\ fate'[k] = "awaited" /\ \A j \in Blobs : j # k => fate'[j] = fate[j]
      /\ req'[t] = Idle /\ \A u \in Handlers : u # t => req'[u] = req[u]
  BY <1>0, <1>1, <1>8, FateTyped DEF IssueWrite, Finish, Agree, Base
<1>3. Grows
  BY <1>1, <1>2, Kinds DEF Grows, Items
<1>4. ASSUME NEW y \in Items, y # f PROVE Recorded(y)'
  BY <1>1, <1>2, <1>3, <1>4, BlobRecorded, RecordedStays DEF Recorded
<1>5. Recorded(f)'
  <2>1. \A g \in Fees : row[g].key # k
    BY <1>1, Kinds, BlobRecorded DEF Recorded
  <2>2. \A g \in Fees \ {f} : row'[g].key # k
    BY <1>2, <2>1, Kinds
  <2> QED BY <1>1, <1>2, <2>2 DEF Recorded, Own
<1>6. \A a \in Files : row'[a] = row[a] /\ fate'[a] = fate[a]
  BY <1>1, <1>2, Kinds
<1>7. Working(t)' /\ req'[t].pc # "slot" /\ \A y \in Items : Recorded(y)'
  BY <1>2, <1>4, <1>5, IdleWorks, IdleTyped
<1> QED BY <1>2, <1>3, <1>6, <1>7, AgreeGoes

LEMMA StatAgree ==
  ASSUME Agree, Base', NEW t \in Handlers, Stat(t)
  PROVE  Agree'
<1> DEFINE k == req[t].key
<1>1. /\ req[t].pc = "stat" /\ Working(t) /\ req[t].item # NoItem /\ UNCHANGED row /\ req[t] \in Handler
      /\ req[t].item \in Items /\ k \in Blobs /\ \A u \in Handlers : u # t => req'[u] = req[u]
  BY ItemTyped DEF Stat, Refuse, Go, Finish, Agree, Base
<1>2. /\ \A j \in Blobs : fate'[j] = fate[j] \/ (j = k /\ fate[j] = "awaited" /\ fate'[j] # "none")
      /\ \/ req'[t] = Idle
         \/ req'[t] = At("purge", req[t].item, k, "rejected") /\ fate'[k] \in {"large", "replaced"}
         \/ req'[t] = [req[t] EXCEPT !.pc = "scan"] /\ fate'[k] \in {"good", "bad", "replaced"}
  BY FateStat
<1>3. Working(t)' /\ req'[t].pc # "slot"
  <2>1. CASE req'[t] = Idle
    BY <2>1, IdleWorks, IdleTyped
  <2>2. CASE req'[t] = At("purge", req[t].item, k, "rejected") /\ fate'[k] \in {"large", "replaced"}
    BY <1>1, <2>2 DEF Working, At, Own
  <2>3. CASE req'[t] = [req[t] EXCEPT !.pc = "scan"] /\ fate'[k] \in {"good", "bad", "replaced"}
    <3>1. req'[t].pc = "scan" /\ req'[t].item = req[t].item /\ req'[t].key = k
      BY <1>1, <2>3 DEF Handler
    <3> QED BY <1>1, <2>3, <3>1 DEF Working, Own
  <2> QED BY <1>2, <2>1, <2>2, <2>3
<1>4. Grows
  BY <1>1, <1>2 DEF Grows
<1>5. \A x \in Docs \cup Files : fate[x] = "none" => fate'[x] = "none"
  BY <1>2, Kinds
<1>6. \A x \in Items : Recorded(x)'
  BY <1>1, <1>4, <1>5, RecordedStays, BlobRecorded DEF Recorded
<1> QED BY <1>1, <1>3, <1>4, <1>5, <1>6, AgreeGoes

LEMMA ScanAgree ==
  ASSUME Agree, Base', NEW t \in Handlers, NEW v \in Verdicts, Scan(t, v)
  PROVE  Agree'
<1> DEFINE k == req[t].key
<1>1. /\ req[t].pc = "scan" /\ Working(t) /\ req[t].item # NoItem /\ UNCHANGED row
      /\ req[t].item \in Items /\ k \in Blobs /\ \A u \in Handlers : u # t => req'[u] = req[u]
  BY ItemTyped DEF Scan, Refuse, Finish, Agree, Base
<1>2. /\ UNCHANGED fate
      /\ \/ req'[t] = Idle
         \/ req'[t] = At("settle", req[t].item, k, v) /\ v = "available" /\ fate[k] \in {"good", "replaced"}
         \/ /\ req'[t] = At("purge", req[t].item, k, v) /\ v \in {"quarantined", "rejected"}
            /\ fate[k] \in {"bad", "replaced"}
  BY FateScan
<1>3. Working(t)' /\ req'[t].pc # "slot"
  <2>1. CASE req'[t] = Idle
    BY <2>1, IdleWorks, IdleTyped
  <2>2. CASE req'[t] = At("settle", req[t].item, k, v) /\ v = "available" /\ fate[k] \in {"good", "replaced"}
    BY <1>1, <1>2, <2>2 DEF Working, At, Own
  <2>3. CASE /\ req'[t] = At("purge", req[t].item, k, v) /\ v \in {"quarantined", "rejected"}
             /\ fate[k] \in {"bad", "replaced"}
    BY <1>1, <1>2, <2>3 DEF Working, At, Own
  <2> QED BY <1>2, <2>1, <2>2, <2>3
<1>4. Grows
  BY <1>1, <1>2 DEF Grows
<1>5. \A x \in Items : Recorded(x)'
  BY <1>1, <1>2, <1>4, RecordedStays, BlobRecorded DEF Recorded
<1> QED BY <1>1, <1>2, <1>3, <1>4, <1>5, AgreeGoes

\* A blob is deleted that no row relies on.
LEMMA DeletedAgree ==
  ASSUME Agree, NEW k \in Blobs, fate' = Lost(k), UNCHANGED row
  PROVE  /\ Grows /\ \A x \in Items : Recorded(x)'
         /\ \A j \in Blobs : fate[j] = "none" => fate'[j] = "none"
         /\ fate[k] \in {"good", "large", "bad"} => fate'[k] = "gone"
         /\ \A j \in Blobs : j # k => fate'[j] = fate[j]
<1>1. /\ \A j \in Blobs : j # k => fate'[j] = fate[j]
      /\ fate'[k] = IF fate[k] \in {"good", "large", "bad"} THEN "gone" ELSE fate[k]
  BY FateTyped DEF Lost, Agree
<1>2. Grows
  BY <1>1 DEF Grows
<1>3. \A x \in Items : Recorded(x)'
  BY <1>1, <1>2, RecordedStays, BlobRecorded DEF Recorded
<1> QED BY <1>1, <1>2, <1>3

LEMMA PurgeAgree ==
  ASSUME Agree, Base', NEW t \in Handlers, Purge(t)
  PROVE  Agree'
<1>1. /\ req[t].pc = "purge" /\ Working(t) /\ req[t].item \in Items /\ req[t].key \in Blobs
      /\ req[t].item # NoItem /\ req[t] \in Handler
  BY ItemTyped DEF Purge
<1>2. /\ req'[t] = [req[t] EXCEPT !.pc = "settle"] /\ \A u \in Handlers : u # t => req'[u] = req[u]
      /\ fate' = Lost(req[t].key) /\ UNCHANGED row
  BY <1>1, FateDeleted DEF Purge, Go, hist, Agree, Base
<1>3. /\ Grows /\ \A x \in Items : Recorded(x)'
      /\ \A j \in Blobs : fate[j] = "none" => fate'[j] = "none"
      /\ fate[req[t].key] \in {"large", "bad"} => fate'[req[t].key] = "gone"
  BY <1>1, <1>2, DeletedAgree
<1>4. /\ req'[t].pc = "settle" /\ req'[t].item = req[t].item /\ req'[t].key = req[t].key
      /\ req'[t].verdict = req[t].verdict
  BY <1>1, <1>2 DEF Handler
<1>5. fate'[req[t].key] \in {"gone", "replaced"}
  BY <1>1, <1>3 DEF Working, Grows
<1>6. Working(t)'
  BY <1>1, <1>2, <1>4, <1>5 DEF Working, Own
<1>7. \A a \in Files : row'[a] = row[a] /\ (fate[a] = "none" => fate'[a] = "none")
  BY <1>2, <1>3, Kinds
<1> QED BY <1>2, <1>3, <1>4, <1>6, <1>7, AgreeGoes

LEMMA RemoveDocBlobAgree ==
  ASSUME Agree, Base', NEW t \in Handlers, RemoveDocBlob(t)
  PROVE  Agree'
<1>1. /\ req[t].pc = "blob" /\ Working(t) /\ req[t].item \in Items /\ req[t].key \in Blobs
      /\ req[t].item # NoItem /\ req[t] \in Handler
  BY ItemTyped DEF RemoveDocBlob
<1>2. /\ req'[t] = [req[t] EXCEPT !.pc = "row"] /\ \A u \in Handlers : u # t => req'[u] = req[u]
      /\ fate' = Lost(req[t].key) /\ UNCHANGED row
  BY <1>1, FateDeleted DEF RemoveDocBlob, Go, hist, Agree, Base
<1>3. /\ Grows /\ \A x \in Items : Recorded(x)'
      /\ \A j \in Blobs : fate[j] = "none" => fate'[j] = "none"
  BY <1>1, <1>2, DeletedAgree
<1>4. /\ req'[t].pc = "row" /\ req'[t].item = req[t].item /\ req'[t].key = req[t].key
  BY <1>1, <1>2 DEF Handler
<1>5. Working(t)'
  BY <1>1, <1>2, <1>3, <1>4 DEF Working, Own, Grows
<1>6. \A a \in Files : row'[a] = row[a] /\ (fate[a] = "none" => fate'[a] = "none")
  BY <1>2, <1>3, Kinds
<1> QED BY <1>2, <1>3, <1>4, <1>5, <1>6, AgreeGoes

LEMMA DropAgree ==
  ASSUME Agree, Base', NEW t \in Handlers, Drop(t)
  PROVE  Agree'
<1>1. req[t].key \in Blobs
  BY ItemTyped DEF Drop
<1>2. /\ req'[t] = Idle /\ \A u \in Handlers : u # t => req'[u] = req[u]
      /\ fate' = Lost(req[t].key) /\ UNCHANGED row
  BY <1>1, FateDeleted DEF Drop, Finish, hist, Agree, Base
<1>3. /\ Grows /\ \A x \in Items : Recorded(x)'
      /\ \A j \in Blobs : fate[j] = "none" => fate'[j] = "none"
  BY <1>1, <1>2, DeletedAgree
<1>4. \A a \in Files : row'[a] = row[a] /\ (fate[a] = "none" => fate'[a] = "none")
  BY <1>2, <1>3, Kinds
<1> QED BY <1>2, <1>3, <1>4, IdleWorks, IdleTyped, AgreeGoes

LEMMA FailAgree ==
  ASSUME Agree, Base', NEW t \in Handlers, Fail(t)
  PROVE  Agree'
<1>1. req'[t] = Idle /\ (\A u \in Handlers : u # t => req'[u] = req[u]) /\ UNCHANGED <<row, fate>>
  BY SameFate DEF Fail, Finish, Agree, Base
<1>2. Grows
  BY <1>1 DEF Grows
<1>3. \A x \in Items : Recorded(x)'
  BY <1>1, <1>2, RecordedStays, BlobRecorded DEF Recorded
<1> QED BY <1>1, <1>2, <1>3, IdleWorks, IdleTyped, AgreeGoes

\* A status is written that the row's blob bears out.
LEMMA StatusWritten ==
  ASSUME Agree, NEW x \in Items, NEW s \in Statuses \ {"none"}, row' = [row EXCEPT ![x].status = s],
         UNCHANGED fate, row[x].status # "none",
         x \in Files => row[x].status # "removed",
         s = "available" => fate[row[x].key] \in {"good", "gone", "replaced"},
         s \in {"quarantined", "rejected"} => fate[row[x].key] \in {"gone", "replaced"}
  PROVE  /\ Grows /\ \A y \in Items : Recorded(y)'
         /\ \A a \in Files : row[a].status = "none" => row'[a].status = "none"
<1>1. /\ row'[x].status = s /\ row'[x].key = row[x].key /\ \A y \in Items : y # x => row'[y] = row[y]
  BY DEF Agree, Base, Row
<1>2. Grows
  BY <1>1 DEF Grows, Items
<1>3. ASSUME NEW y \in Items, y # x PROVE Recorded(y)'
  BY <1>1, <1>2, <1>3, BlobRecorded, RecordedStays DEF Recorded
<1>4. Recorded(x)'
  <2>1. Recorded(x) /\ \A f \in Fees : f \in Items
    BY Kinds, BlobRecorded
  <2> QED BY <1>1, <2>1 DEF Recorded, Own
<1> QED BY <1>1, <1>2, <1>3, <1>4, Kinds

LEMMA SettleAgree ==
  ASSUME Agree, Base', NEW t \in Handlers, Settle(t)
  PROVE  Agree'
<1> DEFINE r == req[t]
<1>1. /\ r.pc = "settle" /\ Working(t) /\ r.item \in Items /\ r.key \in Blobs
      /\ r.verdict \in {"available", "quarantined", "rejected"} /\ UNCHANGED fate
  BY ItemTyped, SameFate DEF Settle, Working
<1>2. /\ req'[t] = Idle /\ \A u \in Handlers : u # t => req'[u] = req[u]
  BY DEF Settle, Finish, Agree, Base
<1>3. CASE Settles(t)
  <2>1. row' = [row EXCEPT ![r.item].status = r.verdict]
    BY <1>3 DEF Settle
  <2>2. row[r.item].status # "none" /\ r.verdict \in Statuses \ {"none"}
    <3>1. r.item \in Docs => r.item \notin Fees
      BY Kinds
    <3> QED BY <1>1, <1>3, <3>1 DEF Settles, Working, Statuses
  <2>3. row[r.item].key = r.key
    <3>1. Recorded(r.item) /\ (r.item \in Docs => r.item \notin Fees)
      BY <1>1, BlobRecorded, Kinds
    <3> QED BY <1>1, <1>3, <2>2, <3>1 DEF Settles, Working, Recorded, Own
  <2>4. r.item \in Files => row[r.item].status # "removed"
    BY <1>3, Kinds DEF Settles
  <2>5. /\ Grows /\ \A y \in Items : Recorded(y)'
        /\ \A a \in Files : row[a].status = "none" => row'[a].status = "none"
    BY <1>1, <2>1, <2>2, <2>3, <2>4, StatusWritten DEF Working
  <2> QED BY <1>1, <1>2, <2>5, IdleWorks, IdleTyped, AgreeGoes
<1>4. CASE ~Settles(t)
  <2>1. UNCHANGED row
    BY <1>4 DEF Settle
  <2>2. Grows
    BY <1>1, <2>1 DEF Grows
  <2>3. \A x \in Items : Recorded(x)'
    BY <1>1, <2>1, <2>2, RecordedStays, BlobRecorded DEF Recorded
  <2> QED BY <1>1, <1>2, <2>1, <2>2, <2>3, IdleWorks, IdleTyped, AgreeGoes
<1> QED BY <1>3, <1>4

LEMMA RemoveDocRowAgree ==
  ASSUME Agree, Base', NEW t \in Handlers, RemoveDocRow(t)
  PROVE  Agree'
<1> DEFINE d == req[t].item
<1>1. /\ d \in Docs /\ d \in Items /\ d \notin Fees /\ d \notin Files /\ row[d].status # "none"
  BY ItemTyped, Kinds DEF RemoveDocRow, Working
<1>2. /\ req'[t] = Idle /\ \A u \in Handlers : u # t => req'[u] = req[u]
      /\ row' = [row EXCEPT ![d].status = "deleted"] /\ UNCHANGED fate
  BY SameFate DEF RemoveDocRow, Finish, hist, Agree, Base
<1>3. /\ Grows /\ \A y \in Items : Recorded(y)'
      /\ \A a \in Files : row[a].status = "none" => row'[a].status = "none"
  <2>1. "deleted" \in Statuses \ {"none"}
    BY DEF Statuses
  <2> QED BY <1>1, <1>2, <2>1, StatusWritten
<1>4. Working(t)' /\ req'[t].pc # "slot"
  BY <1>2, IdleWorks, IdleTyped
<1> QED BY <1>2, <1>3, <1>4, AgreeGoes

LEMMA RemoveFileAgree ==
  ASSUME Agree, Base', NEW t \in Handlers, NEW a \in Files, RemoveFile(t, a)
  PROVE  Agree'
<1>1. /\ a \in Items /\ a \in Blobs /\ a \notin Fees /\ a \notin Docs /\ a # NoItem
      /\ row[a].status = "available" /\ UNCHANGED fate /\ row' = [row EXCEPT ![a].status = "removed"]
  BY Kinds, SameFateBegun DEF RemoveFile
<1>2. /\ Grows /\ \A y \in Items : Recorded(y)'
      /\ \A b \in Files : row[b].status = "none" => row'[b].status = "none"
  BY <1>1, StatusWritten DEF Statuses
<1>3. /\ req'[t] = At("drop", a, a, "none") /\ \A u \in Handlers : u # t => req'[u] = req[u]
  BY DEF RemoveFile, Begin, Agree, Base
<1>4. Working(t)'
  <2>1. row'[a].status = "removed" /\ fate[a] # "none"
    BY <1>1, BlobRecorded DEF Agree, Base, Recorded, Own, Row
  <2>2. \A f \in Fees : row'[f].key # a
    BY <1>1, Kinds, BlobRecorded DEF Agree, Base, Recorded, Own
  <2> QED BY <1>1, <1>3, <2>1, <2>2 DEF Working, At, Own
<1>5. req'[t].pc # "slot"
  BY <1>3 DEF At
<1> QED BY <1>1, <1>2, <1>3, <1>4, <1>5, AgreeGoes

LEMMA ClearReceiptAgree ==
  ASSUME Agree, Base', NEW t \in Handlers, ClearReceipt(t)
  PROVE  Agree'
<1> DEFINE f == req[t].item
           k == req[t].key
<1>1. /\ req[t].pc = "clear" /\ Working(t) /\ f \in Fees /\ f \in Items /\ f # NoItem /\ k \in Blobs
      /\ k # NoKey /\ f \notin Docs /\ f \notin Files /\ req[t] \in Handler
  BY ItemTyped, Kinds DEF ClearReceipt, Working
<1>2. /\ row'[f] = [status |-> "none", key |-> NoKey] /\ \A y \in Items : y # f => row'[y] = row[y]
      /\ UNCHANGED fate
      /\ req'[t] = [req[t] EXCEPT !.pc = "drop"] /\ \A u \in Handlers : u # t => req'[u] = req[u]
  BY <1>1, SameFate DEF ClearReceipt, Go, hist, Agree, Base
<1>3. Grows
  BY <1>1, <1>2, Kinds DEF Grows, Items
<1>4. ASSUME NEW y \in Items, y # f PROVE Recorded(y)'
  BY <1>1, <1>2, <1>3, <1>4, BlobRecorded, RecordedStays DEF Recorded
<1>5. Recorded(f)'
  BY <1>1, <1>2, Kinds DEF Recorded
<1>6. req'[t].pc = "drop" /\ req'[t].item = f /\ req'[t].key = k
  BY <1>1, <1>2 DEF Handler
<1>7. Working(t)'
  BY <1>1, <1>2, <1>3, <1>6, Kinds DEF Working, Own, Grows
<1> QED BY <1>1, <1>2, <1>3, <1>4, <1>5, <1>6, <1>7, Kinds, AgreeGoes

LEMMA BeginsAgree ==
  ASSUME Agree, Base', NEW t \in Handlers,
         \/ \E a \in Files : CountFiles(t, a)
         \/ \E f \in Fees : IssueRead(t, f) \/ RemoveReceiptRead(t, f)
         \/ \E d \in Docs : RemoveDocRead(t, d)
         \/ \E x \in Items : ConfirmRead(t, x)
  PROVE  Agree'
<1>0. NoKey \in Blobs \cup {NoKey} /\ "none" \in Verdicts /\ Pcs = Pcs
  BY DEF Verdicts
<1>1. ASSUME NEW a \in Files, CountFiles(t, a) PROVE Agree'
  <2> DEFINE r == At("slot", a, NoKey, "none")
  <2>1. r \in Handler /\ r.pc = "slot" /\ r.item = a /\ r.key = NoKey /\ a \in Items
    BY Kinds, AtTyped DEF Pcs, Verdicts
  <2>2. /\ Begin(t, r) /\ UNCHANGED <<row, fate>> /\ row[a].status = "none"
        /\ \A u \in Handlers : req[u].pc # "slot"
    BY <1>1, SameFateBegun DEF CountFiles
  <2> HIDE DEF r
  <2> QED BY <2>1, <2>2, AgreeBegins
<1>2. ASSUME NEW f \in Fees, IssueRead(t, f) PROVE Agree'
  <2> DEFINE r == At("issue", f, NoKey, "none")
  <2>1. r \in Handler /\ r.pc = "issue" /\ r.item = f /\ r.key = NoKey /\ f \in Items
    BY Kinds, AtTyped DEF Pcs, Verdicts
  <2>2. /\ Begin(t, r) /\ UNCHANGED <<row, fate>>
    BY <1>2, SameFateBegun DEF IssueRead
  <2> HIDE DEF r
  <2> QED BY <2>1, <2>2, AgreeBegins
<1>3. ASSUME NEW f \in Fees, RemoveReceiptRead(t, f) PROVE Agree'
  <2> DEFINE r == At("clear", f, row[f].key, "none")
  <2>0. f \in Items /\ row[f].key \in Blobs \cup {NoKey}
    BY Kinds DEF Agree, Base, Row
  <2>1. r \in Handler /\ r.pc = "clear" /\ r.item = f /\ r.key = row[f].key
    BY <2>0, AtTyped DEF Pcs, Verdicts
  <2>2. /\ Begin(t, r) /\ UNCHANGED <<row, fate>> /\ row[f].status # "none"
    BY <1>3, SameFateBegun DEF RemoveReceiptRead
  <2> HIDE DEF r
  <2> QED BY <2>0, <2>1, <2>2, AgreeBegins
<1>4. ASSUME NEW d \in Docs, RemoveDocRead(t, d) PROVE Agree'
  <2> DEFINE r == At("blob", d, d, "none")
  <2>0. d \in Items /\ d \in Blobs
    BY Kinds
  <2>1. r \in Handler /\ r.pc = "blob" /\ r.item = d /\ r.key = d
    BY <2>0, AtTyped DEF Pcs, Verdicts
  <2>2. /\ Begin(t, r) /\ UNCHANGED <<row, fate>> /\ row[d].status # "none"
    BY <1>4, SameFateBegun DEF RemoveDocRead
  <2>3. row[d].key = d
    BY <2>2, Kinds, BlobRecorded DEF Recorded, Own
  <2> HIDE DEF r
  <2> QED BY <2>0, <2>1, <2>2, <2>3, AgreeBegins
<1>5. ASSUME NEW x \in Items, ConfirmRead(t, x) PROVE Agree'
  <2> DEFINE r == At("stat", x, row[x].key, "none")
  <2>0. row[x].key \in Blobs \cup {NoKey}
    BY DEF Agree, Base, Row
  <2>1. r \in Handler /\ r.pc = "stat" /\ r.item = x /\ r.key = row[x].key
    BY <2>0, AtTyped DEF Pcs, Verdicts
  <2>2. /\ Begin(t, r) /\ UNCHANGED <<row, fate>> /\ row[x].status # "none"
    BY <1>5, SameFateBegun DEF ConfirmRead
  <2> HIDE DEF r
  <2> QED BY <2>1, <2>2, AgreeBegins
<1> QED BY <1>1, <1>2, <1>3, <1>4, <1>5

LEMMA AgreeNext == Agree /\ [Next]_vars => Agree'
<1> SUFFICES ASSUME Agree, [Next]_vars PROVE Agree'
  OBVIOUS
<1>1. ASSUME UNCHANGED vars PROVE Agree'
  BY <1>1, SameFate DEF vars, hist, Agree, Base, OneSlot, Working, Recorded, Own
<1>2. ASSUME Next PROVE Agree'
  <2>1. Base'
    BY <1>2, BaseNext
  <2>2. ASSUME NEW k \in Blobs, NEW c \in Contents, Arrive(k, c) PROVE Agree'
    BY <2>1, <2>2, ArriveAgree
  <2>11. ASSUME NEW k \in Blobs, LinkEnds(k) PROVE Agree'
    BY <2>1, <2>11, LinkEndsAgree
  <2>3. ASSUME NEW a \in Files, Age(a) PROVE Agree'
    BY <2>1, <2>3, AgeAgree
  <2>4. ASSUME NEW d \in Docs, IssueDocument(d) \/ SetLegalHold(d) PROVE Agree'
    BY <2>1, <2>4, IssueDocumentAgree, HoldAgree
  <2>5. ASSUME NEW t \in Handlers,
               \/ \E a \in Files : CountFiles(t, a)
               \/ \E f \in Fees : IssueRead(t, f) \/ RemoveReceiptRead(t, f)
               \/ \E d \in Docs : RemoveDocRead(t, d)
               \/ \E x \in Items : ConfirmRead(t, x)
        PROVE  Agree'
    BY <2>1, <2>5, BeginsAgree
  <2>6. ASSUME NEW t \in Handlers, NEW a \in Files, RemoveFile(t, a) PROVE Agree'
    BY <2>1, <2>6, RemoveFileAgree
  <2>7. ASSUME NEW t \in Handlers, NEW k \in Keys, IssueWrite(t, k) PROVE Agree'
    BY <2>1, <2>7, IssueWriteAgree
  <2>8. ASSUME NEW t \in Handlers, NEW v \in Verdicts, Scan(t, v) PROVE Agree'
    BY <2>1, <2>8, ScanAgree
  <2>9. ASSUME NEW t \in Handlers, InsertFile(t) \/ Stat(t) \/ Purge(t) \/ Settle(t) \/ RemoveDocBlob(t)
        PROVE  Agree'
    BY <2>1, <2>9, InsertFileAgree, StatAgree, PurgeAgree, SettleAgree, RemoveDocBlobAgree
  <2>10. ASSUME NEW t \in Handlers, RemoveDocRow(t) \/ ClearReceipt(t) \/ Drop(t) \/ Fail(t)
         PROVE  Agree'
    BY <2>1, <2>10, RemoveDocRowAgree, ClearReceiptAgree, DropAgree, FailAgree
  <2> QED
    BY <1>2, <2>2, <2>3, <2>4, <2>5, <2>6, <2>7, <2>8, <2>9, <2>10, <2>11 DEF Next, Verdicts
<1> QED BY <1>1, <1>2

LEMMA AlwaysAgree == Spec => []Agree
BY AgreeInit, AgreeNext, PTL DEF Spec

\* Types; and a fee's receipt is all there or not there at all.
THEOREM Typing == Spec => []TypeOK
<1>1. Agree => TypeOK
  BY DEF Agree, Base, Recorded, TypeOK, Row, Handler, Pcs, Verdicts
<1> QED BY <1>1, AlwaysAgree, PTL

\* What was refused is in the store no more, whoever else was at work on the row.
THEOREM RefusedGone == Spec => []RefusedIsGone
<1>1. ASSUME Agree, NEW x \in Items, row[x].status \in {"quarantined", "rejected"}, row[x].key \notin replaced
      PROVE  blob[row[x].key] = "none"
  <2>1. row[x].key \in Blobs /\ fate[row[x].key] \in {"gone", "replaced"}
    BY <1>1, BlobRecorded DEF Recorded
  <2> QED BY <1>1, <2>1 DEF fate, Agree, Base, Contents
<1>2. Agree => RefusedIsGone
  BY <1>1 DEF RefusedIsGone
<1> QED BY <1>2, AlwaysAgree, PTL

-----------------------------------------------------------------------------
(* Who can have changed a row, a blob or a handler                         *)

Begins(t) ==
  \/ \E a \in Files : CountFiles(t, a) \/ RemoveFile(t, a)
  \/ \E f \in Fees : IssueRead(t, f) \/ RemoveReceiptRead(t, f)
  \/ \E d \in Docs : RemoveDocRead(t, d)
  \/ \E x \in Items : ConfirmRead(t, x)

BegunWith(t, r) ==
  /\ Begin(t, r) /\ r.item \in Items /\ UNCHANGED <<held, fate>>
  /\ r.pc \in {"slot", "issue", "stat", "blob", "clear", "drop"}
  /\ r.pc = "issue" => r.item \in Fees /\ row[r.item].status # "available"
  /\ r.pc = "blob" => r.item \in Docs /\ r.item \notin held
  /\ r.pc = "clear" => r.item \in Fees /\ r.key = row[r.item].key
  /\ r.pc = "slot" => Cardinality(Taken) < MaxFiles
  /\ r.pc = "drop" => r.item \in Files

LEMMA BeginsWith ==
  ASSUME Agree, NEW t \in Handlers, Begins(t)
  PROVE  \E r \in Handler : BegunWith(t, r)
<1>1. ASSUME NEW a \in Files, CountFiles(t, a) PROVE \E r \in Handler : BegunWith(t, r)
  <2> DEFINE r == At("slot", a, NoKey, "none")
  <2>1. a \in Items /\ NoKey \in Blobs \cup {NoKey}
    BY Kinds
  <2>2. r \in Handler /\ r.pc = "slot" /\ r.item = a /\ r.key = NoKey
    BY <2>1, AtTyped DEF Pcs, Verdicts
  <2>3. Begin(t, r) /\ UNCHANGED <<held, fate>> /\ Cardinality(Taken) < MaxFiles
    BY <1>1, SameFateBegun DEF CountFiles
  <2> HIDE DEF r
  <2> QED BY <2>1, <2>2, <2>3 DEF BegunWith
<1>2. ASSUME NEW a \in Files, RemoveFile(t, a) PROVE \E r \in Handler : BegunWith(t, r)
  <2> DEFINE r == At("drop", a, a, "none")
  <2>1. a \in Items /\ a \in Blobs \cup {NoKey}
    BY Kinds
  <2>2. r \in Handler /\ r.pc = "drop" /\ r.item = a /\ r.key = a
    BY <2>1, AtTyped DEF Pcs, Verdicts
  <2>3. Begin(t, r) /\ UNCHANGED <<held, fate>>
    BY <1>2, SameFateBegun DEF RemoveFile
  <2> HIDE DEF r
  <2> QED BY <2>1, <2>2, <2>3 DEF BegunWith
<1>3. ASSUME NEW f \in Fees, IssueRead(t, f) PROVE \E r \in Handler : BegunWith(t, r)
  <2> DEFINE r == At("issue", f, NoKey, "none")
  <2>1. f \in Items /\ NoKey \in Blobs \cup {NoKey}
    BY Kinds
  <2>2. r \in Handler /\ r.pc = "issue" /\ r.item = f /\ r.key = NoKey
    BY <2>1, AtTyped DEF Pcs, Verdicts
  <2>3. Begin(t, r) /\ UNCHANGED <<held, fate>> /\ row[f].status # "available"
    BY <1>3, SameFateBegun DEF IssueRead
  <2> HIDE DEF r
  <2> QED BY <2>1, <2>2, <2>3 DEF BegunWith
<1>4. ASSUME NEW f \in Fees, RemoveReceiptRead(t, f) PROVE \E r \in Handler : BegunWith(t, r)
  <2> DEFINE r == At("clear", f, row[f].key, "none")
  <2>1. f \in Items /\ row[f].key \in Blobs \cup {NoKey}
    BY Kinds DEF Agree, Base, Row
  <2>2. r \in Handler /\ r.pc = "clear" /\ r.item = f /\ r.key = row[f].key
    BY <2>1, AtTyped DEF Pcs, Verdicts
  <2>3. Begin(t, r) /\ UNCHANGED <<held, fate>>
    BY <1>4, SameFateBegun DEF RemoveReceiptRead
  <2> HIDE DEF r
  <2> QED BY <2>1, <2>2, <2>3 DEF BegunWith
<1>5. ASSUME NEW d \in Docs, RemoveDocRead(t, d) PROVE \E r \in Handler : BegunWith(t, r)
  <2> DEFINE r == At("blob", d, d, "none")
  <2>1. d \in Items /\ d \in Blobs \cup {NoKey}
    BY Kinds
  <2>2. r \in Handler /\ r.pc = "blob" /\ r.item = d /\ r.key = d
    BY <2>1, AtTyped DEF Pcs, Verdicts
  <2>3. Begin(t, r) /\ UNCHANGED <<held, fate>> /\ d \notin held
    BY <1>5, SameFateBegun DEF RemoveDocRead
  <2> HIDE DEF r
  <2> QED BY <2>1, <2>2, <2>3 DEF BegunWith
<1>6. ASSUME NEW x \in Items, ConfirmRead(t, x) PROVE \E r \in Handler : BegunWith(t, r)
  <2> DEFINE r == At("stat", x, row[x].key, "none")
  <2>1. x \in Items /\ row[x].key \in Blobs \cup {NoKey}
    BY Kinds DEF Agree, Base, Row
  <2>2. r \in Handler /\ r.pc = "stat" /\ r.item = x /\ r.key = row[x].key
    BY <2>1, AtTyped DEF Pcs, Verdicts
  <2>3. Begin(t, r) /\ UNCHANGED <<held, fate>>
    BY <1>6, SameFateBegun DEF ConfirmRead
  <2> HIDE DEF r
  <2> QED BY <2>1, <2>2, <2>3 DEF BegunWith
<1> QED BY <1>1, <1>2, <1>3, <1>4, <1>5, <1>6 DEF Begins

LEMMA OtherHandlers ==
  ASSUME Agree, NEW t \in Handlers, Begins(t)
  PROVE  \A u \in Handlers : u # t => req'[u] = req[u]
BY BeginsWith DEF BegunWith, Begin, Agree, Base

\* How a handler can have moved.
Moves(t) ==
  \/ Stat(t) \/ \E v \in Verdicts : Scan(t, v)
  \/ Purge(t) \/ RemoveDocBlob(t) \/ ClearReceipt(t)

LEMMA WhoMoved ==
  ASSUME Agree, Next, NEW t \in Handlers
  PROVE  req'[t] = req[t] \/ req'[t] = Idle \/ Begins(t) \/ Moves(t)
<1>1. req \in [Handlers -> Handler]
  BY DEF Agree, Base
<1>2. ASSUME NEW u \in Handlers, Finish(u) PROVE req'[t] \in {req[t], Idle}
  BY <1>1, <1>2 DEF Finish
<1>3. ASSUME NEW u \in Handlers, Begins(u) PROVE req'[t] = req[t] \/ Begins(t)
  BY <1>3, OtherHandlers
<1>4. ASSUME NEW u \in Handlers, Moves(u)
      PROVE  req'[t] = req[t] \/ req'[t] = Idle \/ Moves(t)
  <2>1. u # t => req'[t] = req[t] \/ req'[t] = Idle
    BY <1>1, <1>4 DEF Moves, Stat, Scan, Refuse, Purge, RemoveDocBlob, ClearReceipt, Finish, Go
  <2> QED BY <1>4, <2>1
<1>5. ASSUME UNCHANGED req PROVE req'[t] = req[t]
  BY <1>5
<1> QED
  BY <1>2, <1>3, <1>4, <1>5 DEF Next, Begins, Moves, Verdicts, Arrive, LinkEnds, Age, IssueDocument,
     SetLegalHold, IssueWrite, InsertFile, Settle, RemoveDocRow, Drop, Fail, hist

\* How a row can have changed.
Writes(x) ==
  \/ x \in Docs /\ IssueDocument(x)
  \/ \E t \in Handlers : req[t].item = x /\ InsertFile(t)
  \/ \E t \in Handlers, k \in Keys : req[t].item = x /\ IssueWrite(t, k)
  \/ \E t \in Handlers : req[t].item = x /\ Settle(t) /\ Settles(t)
  \/ \E t \in Handlers : req[t].item = x /\ RemoveDocRow(t)
  \/ \E t \in Handlers : req[t].item = x /\ ClearReceipt(t)
  \/ x \in Files /\ \E t \in Handlers : RemoveFile(t, x)

LEMMA WhoWrote ==
  ASSUME Agree, Next, NEW x \in Items
  PROVE  row'[x] = row[x] \/ Writes(x)
<1>1. row \in [Items -> Row]
  BY DEF Agree, Base
<1>2. ASSUME NEW d \in Docs, IssueDocument(d) PROVE row'[x] = row[x] \/ Writes(x)
  BY <1>1, <1>2 DEF IssueDocument, Writes
<1>3. ASSUME NEW t \in Handlers, NEW k \in Keys, IssueWrite(t, k) PROVE row'[x] = row[x] \/ Writes(x)
  <2>1. req[t].item # x => row'[x] = row[x]
    BY <1>1, <1>3 DEF IssueWrite
  <2> QED BY <1>3, <2>1 DEF Writes
<1>4. ASSUME NEW t \in Handlers, InsertFile(t) \/ Settle(t) \/ RemoveDocRow(t) \/ ClearReceipt(t)
      PROVE  row'[x] = row[x] \/ Writes(x)
  <2>1. req[t].item # x \/ (Settle(t) /\ ~Settles(t)) => row'[x] = row[x]
    BY <1>1, <1>4 DEF InsertFile, Settle, RemoveDocRow, ClearReceipt
  <2> QED BY <1>4, <2>1 DEF Writes
<1>5. ASSUME NEW t \in Handlers, NEW a \in Files, RemoveFile(t, a) PROVE row'[x] = row[x] \/ Writes(x)
  BY <1>1, <1>5 DEF RemoveFile, Writes
<1>6. ASSUME UNCHANGED row PROVE row'[x] = row[x]
  BY <1>6
<1> QED
  BY <1>2, <1>3, <1>4, <1>5, <1>6 DEF Next, Arrive, LinkEnds, Age, SetLegalHold, CountFiles, IssueRead,
     RemoveReceiptRead, RemoveDocRead, ConfirmRead, Stat, Scan, Purge, RemoveDocBlob, Drop, Fail, hist

\* What a check has found stays, or is replaced, or a handler deletes it.
LEMMA FateNext ==
  ASSUME Agree, Next, NEW k \in Blobs, fate[k] \notin {"none", "awaited"}
  PROVE  \/ fate'[k] \in {fate[k], "replaced"}
         \/ /\ fate[k] \in {"good", "large", "bad"} /\ fate'[k] = "gone"
            /\ \E t \in Handlers : req[t].key = k /\ (Purge(t) \/ RemoveDocBlob(t) \/ Drop(t))
<1>0. Base /\ fate \in [Blobs -> Fates]
  BY FateTyped DEF Agree
<1>1. ASSUME NEW j \in Blobs, NEW c \in Contents, Arrive(j, c) PROVE fate'[k] \in {fate[k], "replaced"}
  BY <1>0, <1>1, FateArrives
<1>2. ASSUME NEW j \in Blobs, LinkEnds(j) PROVE UNCHANGED fate
  BY <1>0, <1>2, FateLinkEnds
<1>3. ASSUME NEW j \in Blobs, fate' = [fate EXCEPT ![j] = "awaited"], fate[j] = "none" PROVE fate'[k] = fate[k]
  BY <1>0, <1>3
<1>4. ASSUME NEW d \in Docs, IssueDocument(d) PROVE fate'[k] = fate[k]
  <2>1. d \in Blobs /\ d \in Items /\ d \notin Fees /\ fate[d] = "none"
    BY <1>4, Kinds, BlobRecorded DEF IssueDocument, Recorded
  <2>2. fate' = [fate EXCEPT ![d] = "awaited"]
    BY <1>0, <1>4, <2>1, FateOpened DEF IssueDocument, hist
  <2> QED BY <1>3, <2>1, <2>2
<1>5. ASSUME NEW t \in Handlers, InsertFile(t) PROVE fate'[k] = fate[k]
  <2>1. req[t].item \in Blobs /\ fate[req[t].item] = "none"
    BY <1>5, ItemTyped, Kinds DEF InsertFile, Working
  <2>2. fate' = [fate EXCEPT ![req[t].item] = "awaited"]
    BY <1>0, <1>5, <2>1, FateOpened DEF InsertFile, hist
  <2> QED BY <1>3, <2>1, <2>2
<1>6. ASSUME NEW t \in Handlers, NEW j \in Keys, IssueWrite(t, j) PROVE fate'[k] = fate[k]
  <2>1. j \in Blobs /\ fate[j] = "none"
    BY <1>0, <1>6, Kinds, FateTyped DEF IssueWrite
  <2>2. fate' = [fate EXCEPT ![j] = "awaited"]
    BY <1>0, <1>6, <2>1, FateOpened DEF IssueWrite, hist
  <2> QED BY <1>3, <2>1, <2>2
<1>7. ASSUME NEW t \in Handlers, Stat(t) PROVE fate'[k] = fate[k]
  BY <1>7, FateStat
<1>8. ASSUME NEW t \in Handlers, NEW v \in Verdicts, Scan(t, v) PROVE UNCHANGED fate
  BY <1>8, FateScan
<1>9. ASSUME NEW t \in Handlers, Purge(t) \/ RemoveDocBlob(t) \/ Drop(t)
      PROVE  \/ fate'[k] = fate[k]
             \/ fate[k] \in {"good", "large", "bad"} /\ fate'[k] = "gone" /\ req[t].key = k
  <2>1. req[t].key \in Blobs
    BY <1>9, ItemTyped DEF Purge, RemoveDocBlob, Drop
  <2>2. fate' = Lost(req[t].key)
    BY <1>0, <1>9, <2>1, FateDeleted DEF Purge, RemoveDocBlob, Drop, hist
  <2> QED BY <1>0, <2>1, <2>2 DEF Lost
<1>10. ASSUME NEW a \in Files, Age(a) PROVE UNCHANGED fate
  BY <1>10, SameFate DEF Age, hist
<1>11. ASSUME NEW d \in Docs, SetLegalHold(d) PROVE UNCHANGED fate
  BY <1>11, SameFate DEF SetLegalHold
<1>12. ASSUME NEW t \in Handlers, Begins(t) PROVE UNCHANGED fate
  BY <1>12, BeginsWith DEF BegunWith
<1>13. ASSUME NEW t \in Handlers, Settle(t) \/ RemoveDocRow(t) \/ ClearReceipt(t) \/ Fail(t) PROVE UNCHANGED fate
  BY <1>13, SameFate DEF Settle, RemoveDocRow, ClearReceipt, Fail, hist
<1> QED
  BY <1>1, <1>2, <1>4, <1>5, <1>6, <1>7, <1>8, <1>9, <1>10, <1>11, <1>12, <1>13 DEF Next, Begins, Verdicts

\* How good bytes can have gone.
LEMMA WhoDeleted ==
  ASSUME Agree, Next, NEW k \in Blobs, fate[k] \in {"good", "replaced"}
  PROVE  \/ fate'[k] \in {"good", "replaced"}
         \/ fate'[k] = "gone" /\ \E t \in Handlers : req[t].key = k /\ (RemoveDocBlob(t) \/ Drop(t))
<1>1. ASSUME NEW t \in Handlers, req[t].key = k, Purge(t), fate[k] = "good" PROVE FALSE
  BY <1>1, ItemTyped DEF Purge, Working
<1> QED BY <1>1, FateNext

\* What is remembered is not forgotten.
LEMMA Remembered ==
  ASSUME Next
  PROVE  crossed \subseteq crossed' /\ confirmed \subseteq confirmed' /\ late \subseteq late' /\ stray \subseteq stray'
BY DEF Next, Arrive, LinkEnds, Age, IssueDocument, SetLegalHold, CountFiles, RemoveFile, IssueRead, RemoveReceiptRead,
   RemoveDocRead, ConfirmRead, IssueWrite, Stat, Scan, InsertFile, Purge, Settle, RemoveDocBlob, RemoveDocRow,
   ClearReceipt, Drop, Fail, Begin, hist

-----------------------------------------------------------------------------
(* A removal of a document, or an issue of a receipt, that met nobody.     *)

Solo == \A x \in Items \ crossed : \A t, u \in Handlers :
          t # u /\ req[t].item = x /\ req[u].item = x => req[t].pc \notin Alone

\* No handler removes what is on hold.
HoldsSeen == \A t \in Handlers :
               req[t].pc \in {"blob", "row"} /\ req[t].item \in held => req[t].item \in crossed

\* A handler that moves stays with its item and its key.
LEMMA MovesStay ==
  ASSUME Agree, NEW t \in Handlers, Moves(t)
  PROVE  /\ req[t].pc \notin {"idle", "slot", "issue", "settle", "drop"}
         /\ \/ req'[t] = Idle
            \/ /\ req'[t].item = req[t].item /\ req'[t].key = req[t].key
               /\ req'[t].pc \in {"scan", "settle", "purge", "row", "drop"}
               /\ req'[t].pc = "row" => req[t].pc = "blob"
               /\ req'[t].pc = "drop" => req[t].pc = "clear"
               /\ req'[t].pc = "settle" =>
                    \/ /\ req[t].pc = "scan" /\ req'[t].verdict = "available"
                       /\ fate[req[t].key] \in {"good", "replaced"} /\ UNCHANGED <<row, fate>>
                    \/ req[t].pc = "purge" /\ req'[t].verdict = req[t].verdict
<1>1. req \in [Handlers -> Handler] /\ req[t] \in Handler
  BY DEF Agree, Base
<1>2. ASSUME NEW v \in Verdicts, Scan(t, v)
      PROVE  /\ req[t].pc = "scan"
             /\ \/ req'[t] = Idle
                \/ /\ req'[t] = At("settle", req[t].item, req[t].key, "available")
                   /\ fate[req[t].key] \in {"good", "replaced"} /\ UNCHANGED <<row, fate>>
                \/ req'[t] = At("purge", req[t].item, req[t].key, v)
  BY <1>2, FateScan DEF Scan
<1>3. CASE Stat(t)
  <2>1. req[t].pc = "stat"
    BY <1>3 DEF Stat
  <2>2. \/ req'[t] = Idle
        \/ req'[t] = At("purge", req[t].item, req[t].key, "rejected")
        \/ req'[t] = [req[t] EXCEPT !.pc = "scan"]
    BY <1>3, FateStat
  <2> QED BY <1>1, <2>1, <2>2 DEF At, Handler
<1>4. ASSUME NEW pc \in {"settle", "row", "drop"}, Go(t, pc)
      PROVE  /\ req'[t].pc = pc /\ req'[t].item = req[t].item /\ req'[t].key = req[t].key
             /\ req'[t].verdict = req[t].verdict
  BY <1>1, <1>4 DEF Go, Handler
<1>5. CASE \E v \in Verdicts : Scan(t, v)
  <2>1. PICK v \in Verdicts : Scan(t, v)
    BY <1>5
  <2>2. CASE /\ req'[t] = At("settle", req[t].item, req[t].key, "available")
             /\ fate[req[t].key] \in {"good", "replaced"} /\ UNCHANGED <<row, fate>>
    <3>1. /\ req'[t].pc = "settle" /\ req'[t].item = req[t].item /\ req'[t].key = req[t].key
          /\ req'[t].verdict = "available"
      BY <2>2 DEF At
    <3>2. req[t].pc = "scan"
      BY <1>2, <2>1
    <3> QED BY <2>2, <3>1, <3>2
  <2>3. CASE req'[t] = At("purge", req[t].item, req[t].key, v)
    BY <1>2, <2>1, <2>3 DEF At
  <2> QED BY <1>2, <2>1, <2>2, <2>3
<1>6. CASE Purge(t)
  BY <1>4, <1>6 DEF Purge
<1>7. CASE RemoveDocBlob(t)
  BY <1>4, <1>7 DEF RemoveDocBlob
<1>8. CASE ClearReceipt(t)
  BY <1>4, <1>8 DEF ClearReceipt
<1> QED BY <1>3, <1>5, <1>6, <1>7, <1>8 DEF Moves

\* A handler is at work on an item it was at work on, or it has just begun.
LEMMA WhereFrom ==
  ASSUME Agree, Next, NEW t \in Handlers, req'[t].item \in Items, ~Begins(t)
  PROVE  /\ req[t].item = req'[t].item
         /\ req'[t].pc \in Alone => req[t].pc \in Alone
         /\ req'[t].pc \in {"blob", "row"} => req[t].pc \in {"blob", "row"}
<1>1. req'[t] # Idle
  BY IdleTyped, Kinds
<1> QED BY <1>1, WhoMoved, MovesStay DEF Alone

LEMMA SoloNext ==
  ASSUME Agree, Next, Solo
  PROVE  Solo'
<1> SUFFICES ASSUME NEW x \in Items \ crossed', NEW t \in Handlers, NEW u \in Handlers, t # u,
                    req'[t].item = x, req'[u].item = x, req'[t].pc \in Alone
             PROVE  FALSE
  BY DEF Solo
<1>1. x \notin crossed
  BY Remembered
<1>2. ASSUME NEW v \in Handlers, NEW w \in Handlers, v # w, Begins(v), req'[v].item = x, req'[w].item = x
      PROVE  Alone \cap {req'[v].pc, req'[w].pc} = {}
  <2>1. PICK r \in Handler : BegunWith(v, r)
    BY <1>2, BeginsWith
  <2>2. /\ req'[v] = r /\ req'[w] = req[w]
        /\ ~\E z \in Handlers : req[z].item = r.item /\ Alone \cap {r.pc, req[z].pc} # {}
    BY <1>2, <2>1 DEF BegunWith, Begin, Agree, Base
  <2> QED BY <1>2, <2>2
<1>3. ~Begins(t) /\ ~Begins(u)
  BY <1>2
<1> QED BY <1>1, <1>3, WhereFrom DEF Solo

LEMMA WhoHeld ==
  ASSUME Next
  PROVE  held' = held \/ \E d \in Docs : SetLegalHold(d)
<1>1. ASSUME NEW t \in Handlers,
             \/ \E a \in Files : CountFiles(t, a) \/ RemoveFile(t, a)
             \/ \E f \in Fees : IssueRead(t, f) \/ RemoveReceiptRead(t, f)
             \/ \E d \in Docs : RemoveDocRead(t, d)
             \/ \E x \in Items : ConfirmRead(t, x)
             \/ \E k \in Keys : IssueWrite(t, k)
      PROVE  held' = held
  BY <1>1 DEF CountFiles, RemoveFile, IssueRead, RemoveReceiptRead, RemoveDocRead, ConfirmRead, IssueWrite
<1>2. ASSUME NEW t \in Handlers, NEW v \in Verdicts,
             Stat(t) \/ Scan(t, v) \/ InsertFile(t) \/ Purge(t) \/ Settle(t) \/ RemoveDocBlob(t)
      PROVE  held' = held
  BY <1>2 DEF Stat, Scan, InsertFile, Purge, Settle, RemoveDocBlob, hist
<1>3. ASSUME NEW t \in Handlers, RemoveDocRow(t) \/ ClearReceipt(t) \/ Drop(t) \/ Fail(t)
      PROVE  held' = held
  BY <1>3 DEF RemoveDocRow, ClearReceipt, Drop, Fail
<1>4. ASSUME NEW k \in Blobs, LinkEnds(k) \/ \E c \in Contents : Arrive(k, c) PROVE held' = held
  BY <1>4 DEF Arrive, LinkEnds
<1>5. ASSUME NEW a \in Files, Age(a) PROVE held' = held
  BY <1>5 DEF Age
<1>6. ASSUME NEW d \in Docs, IssueDocument(d) PROVE held' = held
  BY <1>6 DEF IssueDocument
<1>7. "none" \in Verdicts
  BY DEF Verdicts
<1> QED BY <1>1, <1>2, <1>3, <1>4, <1>5, <1>6, <1>7 DEF Next, Verdicts

LEMMA HoldsSeenNext ==
  ASSUME Agree, Next, HoldsSeen
  PROVE  HoldsSeen'
<1> SUFFICES ASSUME NEW t \in Handlers, req'[t].pc \in {"blob", "row"}, req'[t].item \in held',
                    req'[t].item \notin crossed'
             PROVE  FALSE
  BY DEF HoldsSeen
<1>1. CASE Begins(t)
  <2>1. PICK r \in Handler : BegunWith(t, r)
    BY <1>1, BeginsWith
  <2>2. req'[t] = r /\ held' = held
    BY <2>1 DEF BegunWith, Begin, Agree, Base
  <2> QED BY <2>1, <2>2 DEF BegunWith
<1>2. CASE ~Begins(t)
  <2>1. req'[t].item \in Items
    BY ItemTyped, AgreeNext DEF Agree, Working, Base, Items
  <2>2. req[t].item = req'[t].item /\ req[t].pc \in {"blob", "row"}
    BY <1>2, <2>1, WhereFrom
  <2>3. req[t].item \notin held
    BY <2>2, Remembered DEF HoldsSeen
  <2>4. PICK d \in Docs : SetLegalHold(d)
    BY <2>2, <2>3, WhoHeld
  <2> QED BY <2>2, <2>3, <2>4 DEF SetLegalHold, Alone
<1> QED BY <1>1, <1>2

\* A document on hold is not deleted, unless the hold came during its removal.
THEOREM HeldStays == Spec => HeldIsKept
<1>1. Init => HoldsSeen
  BY IdleTyped DEF Init, HoldsSeen
<1>2. Agree /\ HoldsSeen /\ [Next]_vars => HoldsSeen'
  BY HoldsSeenNext DEF vars, hist, HoldsSeen
<1>3. ASSUME Agree, HoldsSeen, Next, NEW d \in held \cap held', row[d].status # "deleted",
             row'[d].status = "deleted"
      PROVE  d \in crossed
  <2>1. /\ d \in Docs /\ d \in Items /\ d \notin Files /\ d \notin Fees
        /\ row[d] \in Row /\ row \in [Items -> Row]
    BY <1>3, Kinds DEF Agree, Base
  <2>2. Writes(d)
    BY <1>3, <2>1, WhoWrote
  <2>3. ASSUME NEW t \in Handlers, req[t].item = d, Settle(t), Settles(t) PROVE FALSE
    <3>1. req[t].verdict # "deleted"
      BY <1>3, <2>3, ItemTyped DEF Settle, Handler, Verdicts
    <3>2. row' = [row EXCEPT ![d].status = req[t].verdict]
      BY <2>3 DEF Settle
    <3> QED BY <1>3, <2>1, <3>1, <3>2
  <2>4. ASSUME NEW t \in Handlers, req[t].item = d, RemoveDocRow(t) PROVE d \in crossed
    BY <1>3, <2>4 DEF RemoveDocRow, HoldsSeen
  <2>5. ~IssueDocument(d)
    BY <1>3, <2>1 DEF IssueDocument
  <2>6. ASSUME NEW t \in Handlers, req[t].item = d,
               InsertFile(t) \/ ClearReceipt(t) \/ \E k \in Keys : IssueWrite(t, k)
        PROVE  FALSE
    <3>1. Working(t) /\ req[t].pc \in {"slot", "clear", "issue"}
      BY <1>3, <2>6, ItemTyped DEF InsertFile, ClearReceipt, IssueWrite
    <3> QED BY <2>1, <2>6, <3>1 DEF Working
  <2> QED BY <2>1, <2>2, <2>3, <2>4, <2>5, <2>6 DEF Writes
<1>4. Agree /\ HoldsSeen /\ [Next]_vars =>
        [\A d \in held \cap held' : row[d].status # "deleted" /\ row'[d].status = "deleted" =>
           d \in crossed]_vars
  BY <1>3
<1> QED BY <1>1, <1>2, <1>4, AlwaysAgree, PTL DEF Spec, HeldIsKept

-----------------------------------------------------------------------------
(* The slots of a request's files                                          *)

Slots ==
  /\ Cardinality(Taken \ late) <= MaxFiles
  /\ (\E t \in Handlers : req[t].pc = "slot") => Cardinality(Taken \ late) < MaxFiles

LEMMA Counts ==
  ASSUME NEW S, S \subseteq Files
  PROVE  IsFiniteSet(S) /\ Cardinality(S) \in Nat
<1>1. IsFiniteSet(S)
  BY UploadsAssumption, FS_Subset
<1> QED BY <1>1, FS_CardinalityType

\* Only an insertion takes a slot that counts.
LEMMA TakenGrows ==
  ASSUME Agree, Next
  PROVE  \/ Taken' \ late' \subseteq Taken \ late
         \/ \E t \in Handlers : InsertFile(t) /\ Taken' \ late' \subseteq (Taken \ late) \cup {req[t].item}
<1> DEFINE Takes(t) == InsertFile(t)
<1>1. late \subseteq late' /\ aged \subseteq aged'
  <2>1. aged \subseteq aged'
    BY DEF Next, Arrive, LinkEnds, Age, IssueDocument, SetLegalHold, CountFiles, RemoveFile, IssueRead,
       RemoveReceiptRead, RemoveDocRead, ConfirmRead, IssueWrite, Stat, Scan, InsertFile, Purge, Settle,
       RemoveDocBlob, RemoveDocRow, ClearReceipt, Drop, Fail
  <2> QED BY <2>1, Remembered
<1>2. ASSUME NEW a \in Taken' \ late'
      PROVE  a \in Taken \ late \/ \E t \in Handlers : InsertFile(t) /\ req[t].item = a
  <2>1. /\ a \in Files /\ a \in Items /\ a \notin Docs /\ a \notin Fees /\ a \notin late /\ a \notin late'
        /\ row'[a].status = "available" \/ (row'[a].status = "pending" /\ a \notin aged)
        /\ row \in [Items -> Row]
    BY <1>1, <1>2, Kinds DEF Taken, Agree, Base
  <2>2. CASE row'[a] = row[a]
    BY <2>1, <2>2 DEF Taken
  <2>3. CASE Writes(a)
    <3>1. ASSUME NEW t \in Handlers, req[t].item = a, Settle(t), Settles(t) PROVE a \in Taken \ late
      <4>1. row[a].status = "pending" /\ row' = [row EXCEPT ![a].status = req[t].verdict]
            /\ late' = IF a \in aged /\ req[t].verdict = "available" THEN late \cup {a} ELSE late
        BY <2>1, <3>1 DEF Settle, Settles
      <4>2. row'[a].status = req[t].verdict
        BY <2>1, <4>1
      <4>3. req[t].verdict # "pending"
        BY <3>1, ItemTyped DEF Handler, Verdicts
      <4> QED BY <2>1, <4>1, <4>2, <4>3 DEF Taken
    <3>2. ASSUME NEW t \in Handlers, req[t].item = a,
                 RemoveDocRow(t) \/ ClearReceipt(t) \/ \E k \in Keys : IssueWrite(t, k)
          PROVE  FALSE
      <4>1. Working(t) /\ req[t].pc \in {"row", "clear", "issue"}
        BY <3>2, ItemTyped DEF RemoveDocRow, ClearReceipt, IssueWrite
      <4> QED BY <2>1, <3>2, <4>1 DEF Working
    <3>3. ASSUME NEW t \in Handlers, RemoveFile(t, a) PROVE FALSE
      <4>1. row'[a].status = "removed"
        BY <2>1, <3>3 DEF RemoveFile, Row
      <4> QED BY <2>1, <4>1
    <3> QED BY <2>1, <2>3, <3>1, <3>2, <3>3 DEF Writes
  <2> QED BY <2>1, <2>2, <2>3, WhoWrote
<1>3. CASE \E t \in Handlers : InsertFile(t)
  <2>1. PICK t \in Handlers : InsertFile(t)
    BY <1>3
  <2>2. \A u \in Handlers : InsertFile(u) => u = t
    BY <2>1 DEF InsertFile, Agree, OneSlot
  <2> QED BY <1>2, <2>1, <2>2
<1> QED BY <1>2, <1>3

LEMMA SlotsNext ==
  ASSUME Agree, Next, Slots
  PROVE  Slots'
<1>1. /\ Cardinality(Taken \ late) \in Nat /\ IsFiniteSet(Taken \ late)
      /\ Cardinality(Taken' \ late') \in Nat /\ IsFiniteSet(Taken' \ late') /\ MaxFiles \in Nat
      /\ Cardinality(Taken \ late) <= Cardinality(Taken) /\ Cardinality(Taken) \in Nat
  <2>1. Taken \subseteq Files /\ Taken \ late \subseteq Files /\ Taken' \ late' \subseteq Files
    BY DEF Taken
  <2>2. IsFiniteSet(Taken) /\ Cardinality(Taken) \in Nat
    BY <2>1, Counts
  <2>3. IsFiniteSet(Taken \ late) /\ Cardinality(Taken \ late) \in Nat
    BY <2>1, Counts
  <2>4. IsFiniteSet(Taken' \ late') /\ Cardinality(Taken' \ late') \in Nat
    BY <2>1, Counts
  <2>5. Taken \ late \subseteq Taken
    OBVIOUS
  <2>6. Cardinality(Taken \ late) <= Cardinality(Taken)
    BY <2>2, <2>5, FS_Subset
  <2> QED BY <2>2, <2>3, <2>4, <2>6, UploadsAssumption
<1>2. CASE Taken' \ late' \subseteq Taken \ late
  <2>1. Cardinality(Taken' \ late') <= Cardinality(Taken \ late)
    BY <1>1, <1>2, FS_Subset
  <2>2. ASSUME NEW t \in Handlers, req'[t].pc = "slot" PROVE Cardinality(Taken \ late) < MaxFiles
    <3>1. CASE Begins(t)
      <4>1. PICK r \in Handler : BegunWith(t, r)
        BY <3>1, BeginsWith
      <4>2. req'[t] = r
        BY <4>1 DEF BegunWith, Begin, Agree, Base
      <4> QED BY <1>1, <2>2, <4>1, <4>2 DEF BegunWith
    <3>2. CASE ~Begins(t)
      <4>1. req'[t] = req[t]
        BY <2>2, <3>2, WhoMoved, MovesStay, IdleTyped
      <4> QED BY <2>2, <4>1 DEF Slots
    <3> QED BY <3>1, <3>2
  <2> QED BY <1>1, <2>1, <2>2 DEF Slots
<1>3. CASE \E t \in Handlers : InsertFile(t) /\ Taken' \ late' \subseteq (Taken \ late) \cup {req[t].item}
  <2>1. PICK t \in Handlers : InsertFile(t) /\ Taken' \ late' \subseteq (Taken \ late) \cup {req[t].item}
    BY <1>3
  <2>2. Cardinality(Taken \ late) < MaxFiles
    BY <2>1 DEF InsertFile, Slots
  <2>3. /\ IsFiniteSet((Taken \ late) \cup {req[t].item})
        /\ Cardinality((Taken \ late) \cup {req[t].item}) <= Cardinality(Taken \ late) + 1
    <3> DEFINE S == Taken \ late
               a == req[t].item
    <3>1. IsFiniteSet(S) /\ Cardinality(S) \in Nat
      BY <1>1
    <3> HIDE DEF S, a
    <3>2. /\ IsFiniteSet(S \cup {a})
          /\ Cardinality(S \cup {a}) = IF a \in S THEN Cardinality(S) ELSE Cardinality(S) + 1
      BY <3>1, FS_AddElement
    <3>3. IsFiniteSet(S \cup {a}) /\ Cardinality(S \cup {a}) <= Cardinality(S) + 1
      BY <3>1, <3>2
    <3> QED BY <3>3 DEF S, a
  <2>4. Cardinality(Taken' \ late') <= Cardinality((Taken \ late) \cup {req[t].item})
    BY <2>1, <2>3, FS_Subset
  <2>5. Cardinality((Taken \ late) \cup {req[t].item}) \in Nat
    BY <2>3, FS_CardinalityType
  <2>6. \A u \in Handlers : req'[u].pc # "slot"
    BY <2>1, IdleTyped DEF InsertFile, Finish, Agree, Base, OneSlot
  <2> QED BY <1>1, <2>2, <2>3, <2>4, <2>5, <2>6 DEF Slots
<1> QED BY <1>2, <1>3, TakenGrows

\* However many uploads count at once, and whatever pauses between the count and the
\* row, the files that take a slot are never too many.
THEOREM SlotsStayKept == Spec => []SlotsKept
<1>1. Init => Slots
  <2> SUFFICES ASSUME Init PROVE Slots
    OBVIOUS
  <2>1. Taken \ late = {}
    BY Kinds DEF Init, Taken
  <2>2. Cardinality(Taken \ late) = 0
    BY <2>1, FS_EmptySet
  <2> QED BY <2>2, UploadsAssumption DEF Slots
<1>2. Agree /\ Slots /\ [Next]_vars => Slots'
  <2>1. Slots /\ UNCHANGED vars => Slots'
    BY DEF vars, hist, Slots, Taken
  <2> QED BY <2>1, SlotsNext
<1>3. Slots => SlotsKept
  BY DEF Slots, SlotsKept
<1> QED BY <1>1, <1>2, <1>3, AlwaysAgree, PTL DEF Spec

-----------------------------------------------------------------------------
(* What is available, and what was confirmed                               *)

\* A file or a receipt that is available, or about to be, has its bytes.
Good(x) ==
  /\ row[x].status = "available" => fate[row[x].key] \in {"good", "replaced"}
  /\ \A t \in Handlers :
       /\ req[t].item = x /\ req[t].pc = "settle" /\ req[t].verdict = "available"
       /\ row[x].status = "pending" /\ row[x].key = req[t].key
       => fate[req[t].key] \in {"good", "replaced"}

\* So has a document that no removal met another handler on.
DocGood(d) ==
  /\ row[d].status = "available" /\ (\A t \in Handlers : req[t].item = d => req[t].pc # "row")
     => fate[d] \in {"good", "replaced"}
  /\ \A t \in Handlers :
       req[t].item = d /\ req[t].pc = "settle" /\ req[t].verdict = "available" =>
         fate[d] \in {"good", "replaced"}
  /\ \A t \in Handlers :
       req[t].item = d /\ req[t].pc = "row" /\ <<d, d>> \in confirmed => fate[d] # "good"

\* A fee's receipt is still the one a removal has read, and still not one that is
\* available where an issue has found none.
FeeSeen(f) ==
  \A t \in Handlers : req[t].item = f =>
    /\ req[t].pc = "clear" => row[f].key \in {req[t].key, NoKey}
    /\ req[t].pc = "issue" => row[f].status # "available"

OnRow(c) ==
  /\ Own(c[1], c[2]) /\ fate[c[2]] \in {"good", "gone", "replaced"}
  /\ fate[c[2]] = "good" /\ c[2] \notin stray /\ c[1] \notin crossed =>
       \/ row[c[1]].status = "available" /\ row[c[1]].key = c[2]
       \/ \E t \in Handlers : req[t].pc = "drop" /\ req[t].key = c[2]

Stored ==
  /\ Agree /\ Solo
  /\ \A x \in Items \ Docs : Good(x)
  /\ \A d \in Docs \ crossed : DocGood(d)
  /\ \A f \in Fees \ crossed : FeeSeen(f)
  /\ \A c \in confirmed : OnRow(c)

LEMMA GrowsNext ==
  ASSUME Agree, Next, NEW k \in Blobs
  PROVE  /\ fate[k] = "gone" => fate'[k] \in {"gone", "replaced"}
         /\ fate[k] = "replaced" => fate'[k] = "replaced"
BY FateNext

\* How a handler about to finish a removal can have ended.
LEMMA WhoEnded ==
  ASSUME Agree, Next, NEW t \in Handlers, req[t].pc \in {"row", "drop"}
  PROVE  req'[t] = req[t] \/ RemoveDocRow(t) \/ Drop(t) \/ Fail(t)
<1>1. req \in [Handlers -> Handler] /\ req[t] # Idle
  BY IdleTyped DEF Agree, Base
<1>2. ASSUME NEW u \in Handlers, Begins(u) PROVE req'[t] = req[t]
  <2>1. u # t
    <3>1. req[u] = Idle
      BY <1>2 DEF Begins, CountFiles, RemoveFile, IssueRead, RemoveReceiptRead, RemoveDocRead, ConfirmRead, Begin
    <3> QED BY <1>1, <3>1
  <2> QED BY <1>2, <2>1, OtherHandlers
<1>3. ASSUME NEW u \in Handlers, Moves(u) PROVE req'[t] = req[t]
  <2>1. u # t
    BY <1>3 DEF Moves, Stat, Scan, Purge, RemoveDocBlob, ClearReceipt
  <2> QED BY <1>1, <1>3, <2>1 DEF Moves, Stat, Scan, Refuse, Purge, RemoveDocBlob, ClearReceipt, Finish, Go
<1>4. ASSUME NEW u \in Handlers, InsertFile(u) \/ Settle(u) \/ \E k \in Keys : IssueWrite(u, k)
      PROVE  req'[t] = req[t]
  <2>1. u # t
    BY <1>4 DEF InsertFile, Settle, IssueWrite
  <2> QED BY <1>1, <1>4, <2>1 DEF InsertFile, Settle, IssueWrite, Finish
<1>5. ASSUME NEW u \in Handlers, RemoveDocRow(u) \/ Drop(u) \/ Fail(u), u # t PROVE req'[t] = req[t]
  BY <1>1, <1>5 DEF RemoveDocRow, Drop, Fail, Finish
<1>6. ASSUME UNCHANGED req PROVE req'[t] = req[t]
  BY <1>6
<1> QED
  BY <1>2, <1>3, <1>4, <1>5, <1>6 DEF Next, Begins, Moves, Verdicts, Arrive, LinkEnds, Age,
     IssueDocument, SetLegalHold, hist

\* A handler about to make an item available found it good, or was there before.
LEMMA WhoSettles ==
  ASSUME Agree, Next, NEW t \in Handlers, req'[t].pc = "settle", req'[t].verdict = "available"
  PROVE  req'[t] = req[t] \/ (fate[req'[t].key] \in {"good", "replaced"} /\ UNCHANGED fate)
<1>1. CASE req'[t] = Idle
  BY <1>1, IdleTyped
<1>2. CASE Begins(t)
  <2>1. PICK r \in Handler : BegunWith(t, r)
    BY <1>2, BeginsWith
  <2>2. req'[t] = r
    BY <2>1 DEF BegunWith, Begin, Agree, Base
  <2> QED BY <2>1, <2>2 DEF BegunWith
<1>3. CASE Moves(t)
  <2>1. req[t].pc # "purge" \/ req[t].verdict # "available"
    BY ItemTyped DEF Working
  <2> QED BY <1>3, <2>1, MovesStay, IdleTyped
<1> QED BY <1>1, <1>2, <1>3, WhoMoved

\* What a row's status can have become, and its key.
LEMMA WhatWritten ==
  ASSUME Agree, Next, NEW x \in Items, row'[x] # row[x]
  PROVE  \/ \E t \in Handlers :
              /\ req[t].item = x /\ Settle(t) /\ Settles(t)
              /\ row'[x].status = req[t].verdict /\ row'[x].key = row[x].key
              /\ row[x].key = req[t].key
         \/ /\ row'[x].status = "pending"
            /\ \/ row[x].status = "none" /\ x \notin Fees
               \/ \E t \in Handlers, k \in Keys : req[t].item = x /\ IssueWrite(t, k) /\ row'[x].key = k
         \/ \E t \in Handlers : /\ req[t].item = x /\ RemoveDocRow(t) /\ x \in Docs
                                /\ row'[x].status = "deleted" /\ row'[x].key = row[x].key
         \/ \E t \in Handlers : /\ req[t].item = x /\ ClearReceipt(t) /\ x \in Fees
                                /\ row'[x].status = "none" /\ row'[x].key = NoKey
         \/ x \in Files /\ row'[x].status = "removed" /\ \E t \in Handlers : RemoveFile(t, x)
<1>1. row \in [Items -> Row] /\ row[x] \in Row /\ Writes(x)
  BY WhoWrote DEF Agree, Base
<1>2. CASE x \in Docs /\ IssueDocument(x)
  BY <1>1, <1>2, Kinds DEF IssueDocument
<1>3. ASSUME NEW t \in Handlers, req[t].item = x, InsertFile(t)
      PROVE  row'[x].status = "pending" /\ row[x].status = "none" /\ x \notin Fees
  <2>1. x \in Files /\ row[x].status = "none"
    BY <1>3, ItemTyped DEF InsertFile, Working
  <2> QED BY <1>1, <1>3, <2>1, Kinds DEF InsertFile
<1>4. ASSUME NEW t \in Handlers, NEW k \in Keys, req[t].item = x, IssueWrite(t, k)
      PROVE  row'[x].status = "pending" /\ row'[x].key = k
  BY <1>1, <1>4 DEF IssueWrite
<1>5. ASSUME NEW t \in Handlers, req[t].item = x, Settle(t), Settles(t)
      PROVE  /\ row'[x].status = req[t].verdict /\ row'[x].key = row[x].key
             /\ row[x].key = req[t].key
  <2>1. row' = [row EXCEPT ![x].status = req[t].verdict]
    BY <1>5 DEF Settle
  <2>2. Working(t) /\ Recorded(x)
    BY ItemTyped, BlobRecorded
  <2>3. row[x].key = req[t].key
    BY <1>5, <2>2, Kinds DEF Settle, Settles, Working, Recorded, Own, Items
  <2> QED BY <1>1, <2>1, <2>3 DEF Row
<1>6. ASSUME NEW t \in Handlers, req[t].item = x, RemoveDocRow(t)
      PROVE  x \in Docs /\ row'[x].status = "deleted" /\ row'[x].key = row[x].key
  <2>1. x \in Docs
    BY <1>6, ItemTyped DEF RemoveDocRow, Working
  <2> QED BY <1>1, <1>6, <2>1 DEF RemoveDocRow, Row
<1>7. ASSUME NEW t \in Handlers, req[t].item = x, ClearReceipt(t)
      PROVE  x \in Fees /\ row'[x].status = "none" /\ row'[x].key = NoKey
  <2>1. x \in Fees
    BY <1>7, ItemTyped DEF ClearReceipt, Working
  <2> QED BY <1>1, <1>7, <2>1 DEF ClearReceipt
<1>8. ASSUME NEW t \in Handlers, x \in Files, RemoveFile(t, x) PROVE row'[x].status = "removed"
  BY <1>1, <1>8 DEF RemoveFile, Row
<1> QED BY <1>1, <1>2, <1>3, <1>4, <1>5, <1>6, <1>7, <1>8 DEF Writes

\* The bytes a file's or a receipt's row points at are not deleted.
LEMMA Undeleted ==
  ASSUME Agree, Next, NEW x \in Items \ Docs, row[x].status \in {"pending", "available"},
         fate[row[x].key] \in {"good", "replaced"}
  PROVE  fate'[row[x].key] \in {"good", "replaced"}
<1> DEFINE k == row[x].key
<1>1. Recorded(x) /\ k \in Blobs /\ Own(x, k) /\ (x \in Files \/ x \in Fees)
  BY BlobRecorded DEF Recorded, Items
<1>2. ASSUME NEW t \in Handlers, req[t].key = k, RemoveDocBlob(t) \/ Drop(t) PROVE FALSE
  <2>1. /\ Working(t) /\ req[t].item \in Items /\ Own(req[t].item, k)
        /\ \A f \in Fees \ {req[t].item} : row[f].key # k
        /\ req[t].pc = "blob" => req[t].item \in Docs
        /\ req[t].pc = "drop" => /\ req[t].item \notin Docs
                                 /\ req[t].item \in Files => row[req[t].item].status = "removed"
                                 /\ req[t].item \in Fees => row[req[t].item].key # k
        /\ req[t].pc \in {"blob", "drop"}
    BY <1>2, ItemTyped DEF RemoveDocBlob, Drop, Working
  <2>2. CASE x \in Fees
    BY <1>1, <2>1, <2>2
  <2>3. CASE x \in Files
    BY <1>1, <2>1, <2>3, Kinds DEF Own
  <2> QED BY <1>1, <2>2, <2>3
<1> QED BY <1>1, <1>2, WhoDeleted

LEMMA WhoConfirmed ==
  ASSUME Next, NEW c \in confirmed', c \notin confirmed
  PROVE  \E t \in Handlers : /\ Settle(t) /\ Settles(t)
                             /\ c = <<req[t].item, req[t].key>> /\ req[t].verdict = "available"
<1>1. ASSUME NEW t \in Handlers, Settle(t)
      PROVE  Settles(t) /\ c = <<req[t].item, req[t].key>> /\ req[t].verdict = "available"
  BY <1>1 DEF Settle
<1>2. ASSUME UNCHANGED confirmed PROVE FALSE
  BY <1>2
<1> QED
  BY <1>1, <1>2 DEF Next, Arrive, LinkEnds, Age, IssueDocument, SetLegalHold, CountFiles, RemoveFile, IssueRead,
     RemoveReceiptRead, RemoveDocRead, ConfirmRead, IssueWrite, Stat, Scan, InsertFile, Purge, RemoveDocBlob,
     RemoveDocRow, ClearReceipt, Drop, Fail, Begin, hist

LEMMA GoodNext ==
  ASSUME Agree, Next, NEW x \in Items \ Docs, Good(x)
  PROVE  Good(x)'
<1>1. ASSUME row'[x].status = "available" PROVE fate'[row'[x].key] \in {"good", "replaced"}
  <2>1. CASE row'[x] = row[x]
    BY <1>1, <2>1, Undeleted DEF Good
  <2>2. CASE row'[x] # row[x]
    <3>1. PICK t \in Handlers : /\ req[t].item = x /\ Settle(t) /\ Settles(t)
                                /\ row'[x].status = req[t].verdict /\ row'[x].key = row[x].key
                                /\ row[x].key = req[t].key
      BY <1>1, <2>2, WhatWritten
    <3>2. row[x].status = "pending" /\ fate' = fate /\ req[t].pc = "settle"
      BY <3>1, SameFate DEF Settle, Settles
    <3> QED BY <1>1, <3>1, <3>2 DEF Good
  <2> QED BY <2>1, <2>2
<1>2. ASSUME NEW t \in Handlers, req'[t].item = x, req'[t].pc = "settle", req'[t].verdict = "available",
             row'[x].status = "pending", row'[x].key = req'[t].key
      PROVE  fate'[req'[t].key] \in {"good", "replaced"}
  <2>1. CASE req'[t] # req[t]
    BY <1>2, <2>1, WhoSettles
  <2>2. CASE req'[t] = req[t] /\ row'[x] = row[x]
    BY <1>2, <2>2, Undeleted DEF Good
  <2>3. CASE req'[t] = req[t] /\ row'[x] # row[x]
    <3>1. /\ Working(t) /\ (x \notin Fees => row[x].status # "none") /\ fate[req[t].key] # "none"
          /\ \A u \in Handlers : req[u].verdict # "pending"
      BY <1>2, <2>3, ItemTyped DEF Working, Handler, Verdicts
    <3>2. PICK u \in Handlers, k \in Keys : req[u].item = x /\ IssueWrite(u, k) /\ row'[x].key = k
      BY <1>2, <2>3, <3>1, WhatWritten
    <3>3. fate[k] = "none"
      BY <3>2, Kinds, FateTyped DEF IssueWrite, Agree
    <3> QED BY <1>2, <2>3, <3>1, <3>2, <3>3
  <2> QED BY <2>1, <2>2, <2>3
<1> QED BY <1>1, <1>2 DEF Good

\* Good bytes of a document go only with the handler that removes it.
LEMMA DocDeleted ==
  ASSUME Agree, Next, NEW d \in Docs, fate[d] \in {"good", "replaced"}, fate'[d] \notin {"good", "replaced"}
  PROVE  \E t \in Handlers : req[t].item = d /\ RemoveDocBlob(t) /\ req'[t].item = d /\ req'[t].pc = "row"
<1>1. d \in Blobs /\ d \in Items /\ d \notin Keys /\ d \notin Files /\ d \notin Fees
  BY Kinds
<1>2. PICK t \in Handlers : req[t].key = d /\ (RemoveDocBlob(t) \/ Drop(t))
  BY <1>1, WhoDeleted
<1>3. /\ req[t].item \in Items /\ Own(req[t].item, d) /\ req[t].pc \in {"blob", "drop"}
      /\ req[t].pc = "drop" => req[t].item \notin Docs
  BY <1>2, ItemTyped DEF RemoveDocBlob, Drop, Working
<1>4. req[t].item = d
  BY <1>1, <1>3 DEF Own
<1>5. RemoveDocBlob(t)
  BY <1>2, <1>3, <1>4 DEF Drop
<1>6. req'[t].item = d /\ req'[t].pc = "row"
  BY <1>4, <1>5, ItemTyped DEF RemoveDocBlob, Go, Agree, Base, Handler
<1> QED BY <1>4, <1>5, <1>6

LEMMA DocGoodNext ==
  ASSUME Stored, Next, NEW d \in Docs \ crossed'
  PROVE  DocGood(d)'
<1>1. /\ d \in Items /\ d \in Blobs /\ d \notin Fees /\ d \notin crossed /\ DocGood(d) /\ Agree
  BY Kinds, Remembered DEF Stored
<1>2. \A t, u \in Handlers : t # u /\ req[t].item = d /\ req[u].item = d => req[t].pc \notin Alone
  BY <1>1 DEF Stored, Solo
<1>3. ASSUME row'[d].status = "available", \A t \in Handlers : req'[t].item = d => req'[t].pc # "row"
      PROVE  fate'[d] \in {"good", "replaced"}
  <2>1. CASE row'[d] = row[d]
    <3>1. ASSUME NEW t \in Handlers, req[t].item = d, req[t].pc = "row" PROVE FALSE
      <4>1. req'[t] # req[t]
        BY <1>3, <3>1
      <4>2. ~Drop(t) /\ ~Fail(t)
        BY <3>1 DEF Drop, Fail
      <4>3. RemoveDocRow(t)
        BY <1>1, <3>1, <4>1, <4>2, WhoEnded
      <4>4. row'[d].status = "deleted"
        BY <1>1, <3>1, <4>3 DEF RemoveDocRow, Agree, Base, Row
      <4> QED BY <1>3, <4>4
    <3>2. fate[d] \in {"good", "replaced"}
      BY <1>1, <1>3, <2>1, <3>1 DEF DocGood
    <3> QED BY <1>1, <1>3, <3>2, DocDeleted
  <2>2. CASE row'[d] # row[d]
    <3>1. PICK t \in Handlers : req[t].item = d /\ Settle(t) /\ row'[d].status = req[t].verdict
      BY <1>1, <1>3, <2>2, WhatWritten
    <3>2. req[t].pc = "settle" /\ fate' = fate
      BY <3>1, SameFate DEF Settle
    <3> QED BY <1>1, <1>3, <3>1, <3>2 DEF DocGood
  <2> QED BY <2>1, <2>2
<1>4. ASSUME NEW t \in Handlers, req'[t].item = d, req'[t].pc = "settle", req'[t].verdict = "available"
      PROVE  fate'[d] \in {"good", "replaced"}
  <2>1. CASE req'[t] # req[t]
    <3>1. fate'[req'[t].key] \in {"good", "replaced"}
      BY <1>1, <1>4, <2>1, WhoSettles
    <3>2. Working(t)'
      BY <1>1, AgreeNext DEF Agree
    <3>3. req'[t].key = d
      BY <1>1, <1>4, <3>2 DEF Working, Own
    <3> QED BY <3>1, <3>3
  <2>2. CASE req'[t] = req[t]
    <3>1. fate[d] \in {"good", "replaced"}
      BY <1>1, <1>4, <2>2 DEF DocGood
    <3>2. ASSUME fate'[d] \notin {"good", "replaced"} PROVE FALSE
      <4>1. PICK u \in Handlers : req[u].item = d /\ RemoveDocBlob(u) /\ req'[u].pc = "row"
        BY <1>1, <3>1, <3>2, DocDeleted
      <4>2. u # t /\ req[u].pc \in Alone
        BY <1>4, <4>1 DEF RemoveDocBlob, Alone
      <4> QED BY <1>2, <1>4, <2>2, <4>1, <4>2
    <3> QED BY <3>2
  <2> QED BY <2>1, <2>2
<1>5. ASSUME NEW t \in Handlers, req'[t].item = d, req'[t].pc = "row", <<d, d>> \in confirmed'
      PROVE  fate'[d] # "good"
  <2>1. CASE req'[t] = req[t] /\ <<d, d>> \in confirmed
    <3>1. fate[d] # "good" /\ fate[d] \in {"good", "gone", "replaced"}
      BY <1>1, <1>5, <2>1 DEF DocGood, Stored, OnRow
    <3> QED BY <1>1, <3>1, GrowsNext
  <2>2. CASE req'[t] = req[t] /\ <<d, d>> \notin confirmed
    <3>1. PICK u \in Handlers : Settle(u) /\ req[u].item = d
      BY <1>5, <2>2, WhoConfirmed
    <3>2. u # t /\ req[t].pc \in Alone
      BY <1>5, <2>2, <3>1 DEF Settle, Alone
    <3> QED BY <1>2, <1>5, <2>2, <3>1, <3>2
  <2>3. CASE req'[t] # req[t]
    <3>1. Moves(t)
      <4>1. ~Begins(t)
        <5>1. ASSUME Begins(t) PROVE FALSE
          <6>1. PICK r \in Handler : BegunWith(t, r)
            BY <1>1, <5>1, BeginsWith
          <6>2. req'[t] = r
            BY <1>1, <6>1 DEF BegunWith, Begin, Agree, Base
          <6> QED BY <1>5, <6>1, <6>2 DEF BegunWith
        <5> QED BY <5>1
      <4>2. req'[t] # Idle
        BY <1>5, IdleTyped
      <4> QED BY <1>1, <2>3, <4>1, <4>2, WhoMoved
    <3>2. req[t].pc = "blob" /\ req[t].item = d /\ req[t].key = req'[t].key
      BY <1>1, <1>5, <3>1, MovesStay, IdleTyped
    <3>3. RemoveDocBlob(t)
      BY <3>1, <3>2 DEF Moves, Stat, Scan, Purge, ClearReceipt
    <3>4. req[t].key = d
      BY <1>1, <3>2, ItemTyped DEF Working, Own
    <3>5. fate' = Lost(d)
      BY <1>1, <3>3, <3>4, FateDeleted DEF RemoveDocBlob, hist, Agree
    <3> QED BY <1>1, <3>5, FateTyped DEF Lost, Agree
  <2> QED BY <2>1, <2>2, <2>3
<1> QED BY <1>3, <1>4, <1>5 DEF DocGood

LEMMA FeeSeenNext ==
  ASSUME Stored, Next, NEW f \in Fees \ crossed'
  PROVE  FeeSeen(f)'
<1>1. /\ f \in Items /\ f \notin Docs /\ f \notin Files /\ f \notin crossed /\ FeeSeen(f) /\ Agree
  BY Kinds, Remembered DEF Stored
<1>2. \A t, u \in Handlers : t # u /\ req[t].item = f /\ req[u].item = f => req[t].pc \notin Alone
  BY <1>1 DEF Stored, Solo
<1>3. ASSUME NEW t \in Handlers, req'[t].item = f, req'[t].pc \in {"clear", "issue"}
      PROVE  /\ req'[t].pc = "clear" => row'[f].key \in {req'[t].key, NoKey}
             /\ req'[t].pc = "issue" => row'[f].status # "available"
  <2>1. CASE Begins(t)
    <3>1. PICK r \in Handler : BegunWith(t, r)
      BY <1>1, <2>1, BeginsWith
    <3>2. req'[t] = r
      BY <1>1, <3>1 DEF BegunWith, Begin, Agree, Base
    <3>3. row'[f] = row[f]
      <4>1. \A a \in Files : ~RemoveFile(t, a) \/ row'[f] = row[f]
        BY <1>1 DEF RemoveFile, Agree, Base
      <4> QED BY <2>1, <4>1 DEF Begins, CountFiles, IssueRead, RemoveReceiptRead, RemoveDocRead, ConfirmRead
    <3> QED BY <1>3, <3>1, <3>2, <3>3 DEF BegunWith
  <2>2. CASE ~Begins(t)
    <3>1. req'[t] = req[t]
      <4>1. req'[t] # Idle
        BY <1>3, IdleTyped
      <4>2. ~Moves(t)
        BY <1>1, <1>3, <4>1, MovesStay
      <4> QED BY <1>1, <2>2, <4>1, <4>2, WhoMoved
    <3>2. CASE row'[f] = row[f]
      BY <1>1, <1>3, <3>1, <3>2 DEF FeeSeen
    <3>3. CASE row'[f] # row[f]
      <4>1. ASSUME NEW u \in Handlers, NEW k \in Keys, req[u].item = f, IssueWrite(u, k), row'[f].key = k,
                   row'[f].status = "pending", req[t].pc = "clear"
            PROVE  FALSE
        <5>1. u # t /\ req[u].pc \in Alone
          BY <4>1 DEF IssueWrite, Alone
        <5> QED BY <1>2, <1>3, <3>1, <4>1, <5>1
      <4>2. ASSUME NEW u \in Handlers, req[u].item = f, Settle(u), req[t].pc = "issue" PROVE FALSE
        <5>1. u # t /\ req[t].pc \in Alone
          BY <4>2 DEF Settle, Alone
        <5> QED BY <1>2, <1>3, <3>1, <4>2, <5>1
      <4>3. req[t].pc = "clear" => row[f].key \in {req[t].key, NoKey}
        BY <1>1, <1>3, <3>1 DEF FeeSeen
      <4> QED BY <1>1, <1>3, <3>1, <3>3, <4>1, <4>2, <4>3, WhatWritten
    <3> QED BY <3>2, <3>3
  <2> QED BY <2>1, <2>2
<1> QED BY <1>3 DEF FeeSeen

LEMMA OnRowNext ==
  ASSUME Stored, Next, NEW c \in confirmed'
  PROVE  OnRow(c)'
<1>1. Agree /\ row \in [Items -> Row]
  BY DEF Stored, Agree, Base
<1>2. CASE c \notin confirmed
  <2>1. PICK t \in Handlers : Settle(t) /\ Settles(t) /\ c = <<req[t].item, req[t].key>> /\ req[t].verdict = "available"
    BY <1>2, WhoConfirmed
  <2>2. /\ req[t].pc = "settle" /\ fate' = fate /\ req[t].item \in Items
        /\ Own(c[1], c[2]) /\ fate[c[2]] \in {"good", "gone", "replaced"} /\ c[1] = req[t].item /\ c[2] = req[t].key
    BY <1>1, <2>1, ItemTyped, SameFate DEF Settle, Working
  <2>3. row'[c[1]].status = "available" /\ row'[c[1]].key = c[2]
    <3>1. row' = [row EXCEPT ![c[1]].status = "available"]
      BY <2>1, <2>2 DEF Settle
    <3>2. Working(t) /\ Recorded(c[1])
      BY <1>1, <2>2, ItemTyped, BlobRecorded
    <3>3. row[c[1]].key = c[2]
      BY <2>1, <2>2, <3>2, Kinds DEF Settles, Working, Recorded, Own, Items
    <3> QED BY <1>1, <2>2, <3>1, <3>3 DEF Row
  <2> QED BY <2>2, <2>3 DEF OnRow, Own
<1>3. CASE c \in confirmed
  <2> DEFINE x == c[1]
             k == c[2]
  <2>1. /\ OnRow(c) /\ x \in Items /\ k \in Blobs /\ Own(x, k) /\ fate[k] \in {"good", "gone", "replaced"}
    BY <1>1, <1>3 DEF Stored, OnRow, Agree, Base
  <2>2. fate'[k] \in {"good", "gone", "replaced"}
    BY <1>1, <2>1, GrowsNext, WhoDeleted
  <2>3. ASSUME fate'[k] = "good", k \notin stray', x \notin crossed'
        PROVE  \/ row'[x].status = "available" /\ row'[x].key = k
               \/ \E t \in Handlers : req'[t].pc = "drop" /\ req'[t].key = k
    <3>1. fate[k] = "good" /\ k \notin stray /\ x \notin crossed
      BY <1>1, <2>1, <2>3, GrowsNext, Remembered
    <3>2. ASSUME NEW t \in Handlers, req[t].pc = "drop", req[t].key = k
          PROVE  req'[t].pc = "drop" /\ req'[t].key = k
      <4>1. ~Drop(t)
        <5>1. ASSUME Drop(t) PROVE fate' = Lost(k)
          BY <1>1, <2>1, <3>2, <5>1, FateDeleted DEF Drop, hist, Agree
        <5> QED BY <1>1, <2>1, <2>3, <3>1, <5>1, FateTyped DEF Lost, Agree
      <4>2. ~Fail(t)
        BY <2>3, <3>2 DEF Fail
      <4>3. ~RemoveDocRow(t)
        BY <3>2 DEF RemoveDocRow
      <4> QED BY <1>1, <3>2, <4>1, <4>2, <4>3, WhoEnded
    <3>3. ASSUME row[x].status = "available", row[x].key = k, row'[x] # row[x]
          PROVE  \/ row'[x].status = "available" /\ row'[x].key = k
                 \/ \E t \in Handlers : req'[t].pc = "drop" /\ req'[t].key = k
      <4>1. ASSUME NEW t \in Handlers, req[t].item = x, Settle(t), row[x].key = req[t].key
            PROVE  req[t].verdict = "available"
        BY <1>1, <3>1, <3>3, <4>1, ItemTyped DEF Settle, Working
      <4>2. ASSUME NEW t \in Handlers, NEW j \in Keys, req[t].item = x, IssueWrite(t, j) PROVE FALSE
        <5>1. req[t].pc = "issue" /\ x \in Fees
          BY <1>1, <4>2, ItemTyped DEF IssueWrite, Working
        <5> QED BY <3>1, <3>3, <4>2, <5>1 DEF Stored, FeeSeen
      <4>3. ASSUME NEW t \in Handlers, req[t].item = x, RemoveDocRow(t), x \in Docs PROVE FALSE
        <5>1. req[t].pc = "row" /\ k = x /\ c = <<x, x>>
          BY <1>1, <1>3, <2>1, <4>3, Kinds DEF RemoveDocRow, Own, Agree, Base
        <5> QED BY <1>3, <3>1, <4>3, <5>1 DEF Stored, DocGood
      <4>4. ASSUME NEW t \in Handlers, req[t].item = x, ClearReceipt(t), x \in Fees
            PROVE  req'[t].pc = "drop" /\ req'[t].key = k
        <5>1. req[t].pc = "clear" /\ k # NoKey
          BY <2>1, <4>4, Kinds DEF ClearReceipt
        <5>2. req[t].key = k
          BY <3>1, <3>3, <4>4, <5>1 DEF Stored, FeeSeen
        <5> QED BY <1>1, <4>4, <5>2 DEF ClearReceipt, Go, Agree, Base, Handler
      <4>5. ASSUME NEW t \in Handlers, x \in Files, RemoveFile(t, x)
            PROVE  req'[t].pc = "drop" /\ req'[t].key = k
        <5>1. k = x
          BY <2>1, <4>5, Kinds DEF Own
        <5> QED BY <1>1, <4>5, <5>1 DEF RemoveFile, Begin, At, Agree, Base
      <4> QED BY <1>1, <2>1, <3>3, <4>1, <4>2, <4>3, <4>4, <4>5, WhatWritten
    <3> QED BY <2>1, <3>1, <3>2, <3>3 DEF OnRow
  <2> QED BY <2>1, <2>2, <2>3 DEF OnRow, Own
<1> QED BY <1>2, <1>3

LEMMA StoredInit == Init => Stored
<1> SUFFICES ASSUME Init PROVE Stored
  OBVIOUS
<1>1. Agree /\ \A t \in Handlers : req[t].pc = "idle" /\ req[t].item = NoItem
  BY AgreeInit, IdleTyped DEF Init
<1>2. \A x \in Items : row[x].status = "none" /\ x # NoItem
  BY Kinds DEF Init
<1>3. Solo
  BY <1>1, <1>2 DEF Solo
<1>4. \A x \in Items \ Docs : Good(x)
  BY <1>1, <1>2 DEF Good
<1>5. \A d \in Docs : d \in Items /\ DocGood(d)
  BY <1>1, <1>2, Kinds DEF DocGood
<1>6. \A f \in Fees : FeeSeen(f)
  BY <1>1, Kinds DEF FeeSeen
<1> QED BY <1>1, <1>3, <1>4, <1>5, <1>6 DEF Stored, Init

LEMMA StoredNext == Stored /\ [Next]_vars => Stored'
<1> SUFFICES ASSUME Stored, [Next]_vars PROVE Stored'
  OBVIOUS
<1>1. Agree'
  BY AgreeNext DEF Stored
<1>2. CASE Next
  <2>1. Solo'
    BY <1>2, SoloNext DEF Stored
  <2>2. \A x \in Items \ Docs : Good(x)'
    BY <1>2, GoodNext DEF Stored
  <2>3. \A d \in Docs \ crossed' : DocGood(d)'
    BY <1>2, DocGoodNext
  <2>4. \A f \in Fees \ crossed' : FeeSeen(f)'
    BY <1>2, FeeSeenNext
  <2>5. \A c \in confirmed' : OnRow(c)'
    BY <1>2, OnRowNext
  <2> QED BY <1>1, <2>1, <2>2, <2>3, <2>4, <2>5 DEF Stored
<1>3. CASE UNCHANGED vars
  BY <1>1, <1>3, SameFate DEF Stored, vars, hist, Solo, Good, DocGood, FeeSeen, OnRow, Own
<1> QED BY <1>2, <1>3

LEMMA AlwaysStored == Spec => []Stored
BY StoredInit, StoredNext, PTL DEF Spec

\* What is available is in the store as it was found good, through every overlap of
\* checks, removals and issues, unless bytes were put there again: of a document, where
\* no removal met another handler.
THEOREM AvailableStored == Spec => []AvailableHasBlob
<1>1. ASSUME Stored, NEW x \in Items, row[x].status = "available", row[x].key \notin replaced,
             x \in Docs => x \notin crossed /\ \A t \in Handlers : req[t].item = x => req[t].pc # "row"
      PROVE  blob[row[x].key] \in Fit(x)
  <2>1. row[x].key \in Blobs /\ Own(x, row[x].key) /\ Base
    BY <1>1, BlobRecorded DEF Stored, Recorded, Agree
  <2>2. fate[row[x].key] \in {"good", "replaced"}
    <3>1. CASE x \in Docs
      <4>1. row[x].key = x
        BY <3>1, <2>1, Kinds DEF Own
      <4> QED BY <1>1, <3>1, <4>1 DEF Stored, DocGood
    <3>2. CASE x \notin Docs
      BY <1>1, <3>2 DEF Stored, Good
    <3> QED BY <3>1, <3>2
  <2>3. Fit(row[x].key) = Fit(x)
    BY <2>1, FitKey
  <2>4. blob[row[x].key] \in Fit(row[x].key)
    BY <1>1, <2>1, <2>2 DEF fate, Base, Contents, Fit
  <2> QED BY <2>3, <2>4
<1>2. Stored => AvailableHasBlob
  BY <1>1 DEF AvailableHasBlob
<1> QED BY <1>2, AlwaysStored, PTL

\* What was once confirmed and is still stored is on its row, or a handler is about
\* to delete it, unless bytes were put there again: no removal and no confirmation
\* leaves bytes behind.
THEOREM ConfirmedOnRow == Spec => []NoOrphan
<1>1. ASSUME Stored, NEW c \in confirmed, blob[c[2]] # "none", c[2] \notin stray \cup replaced,
             c[1] \notin crossed
      PROVE  \/ row[c[1]] = [status |-> "available", key |-> c[2]]
             \/ \E t \in Handlers : req[t].pc \in {"drop", "clear"} /\ req[t].key = c[2]
  <2>1. row[c[1]] \in Row /\ c[2] \in Blobs /\ blob[c[2]] \in Contents
    BY <1>1 DEF Stored, Agree, Base
  <2>2. fate[c[2]] = "good"
    <3>1. fate[c[2]] \in {"good", "gone", "replaced"}
      BY <1>1 DEF Stored, OnRow
    <3> QED BY <1>1, <2>1, <3>1 DEF fate, Contents
  <2> QED BY <1>1, <2>1, <2>2 DEF Stored, OnRow, Row
<1>2. Stored => NoOrphan
  BY <1>1 DEF NoOrphan
<1> QED BY <1>2, AlwaysStored, PTL

\* What is available was found good under the very key that is on its row, though its
\* status is written steps after the check, and the row may have got another key since.
THEOREM AvailableChecked == Spec => []AvailableWasChecked
<1>1. Init => AvailableWasChecked
  BY DEF Init, AvailableWasChecked
<1>2. ASSUME Agree, Next, AvailableWasChecked, NEW x \in Items, row'[x].status = "available"
      PROVE  <<x, row'[x].key>> \in confirmed'
  <2>1. CASE row'[x] = row[x]
    BY <1>2, <2>1, Remembered DEF AvailableWasChecked
  <2>2. CASE row'[x] # row[x]
    <3>1. PICK t \in Handlers : /\ req[t].item = x /\ Settle(t) /\ Settles(t)
                                /\ row'[x].status = req[t].verdict /\ row'[x].key = row[x].key
                                /\ row[x].key = req[t].key
      BY <1>2, <2>2, WhatWritten
    <3> QED BY <1>2, <3>1 DEF Settle
  <2> QED BY <2>1, <2>2
<1>3. Agree /\ AvailableWasChecked /\ [Next]_vars => AvailableWasChecked'
  BY <1>2 DEF AvailableWasChecked, vars, hist
<1> QED BY <1>1, <1>3, AlwaysAgree, PTL DEF Spec
=============================================================================
