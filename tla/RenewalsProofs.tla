--------------------------- MODULE RenewalsProofs ---------------------------
(***************************************************************************)
(* What Renewals promises of any documents, people, procedures and number  *)
(* of handlers: types, one alert per tier, one procedure per document, one *)
(* open renewal per dependant and none once they are off file, and the     *)
(* expiry last entered on the record.                                      *)
(*                                                                         *)
(* Base says what a handler may rely on between two of its steps.  Claims, *)
(* InFlight, Tracked, Kept and Dated are each inductive given Base: of     *)
(* tiers, of dependants, of a document and of a person who are not         *)
(* disturbed, and of a person on file who was not overtaken.               *)
(***************************************************************************)
EXTENDS Renewals, FiniteSetTheorems, TLAPS

-----------------------------------------------------------------------------
(* The inductive invariant                                                 *)

Carries(t) ==
  LET r == req[t] IN
  /\ r.pc \in {"scan", "publish", "open"} =>
       r.asOf \in Days /\ r.next \in 1..Len(Documents) + 1 /\ r.for = NoOne
  /\ r.pc \in {"publish", "open"} => Listed(t) /\ r.tier \in claimed[Doc(t)]
  /\ r.pc = "open" => EmployeeOf[Doc(t)] # NoOne
  /\ r.pc \in {"create", "move", "effect", "write", "remove", "removed", "cancel"} => r.for \in People
  /\ r.pc \in {"move", "cancel"} => r.proc \in Procedures /\ proc[r.proc].for = r.for
  /\ r.pc = "move" => r.to \in Statuses
  /\ r.pc \in {"effect", "write"} => r.date \in Dates
  /\ r.pc \in {"effect", "remove", "removed", "cancel"} => r.for \in Dependants
  /\ r.pc = "idle" => r = Idle

Unopened == \A p \in Procedures : proc[p].status = "none" => proc[p].source = NoDocument

Pcs == {"idle", "scan", "publish", "open", "create", "move", "effect", "write", "remove",
        "removed", "cancel"}
Handler == [pc : Pcs, asOf : Days \cup {0}, next : 0..Len(Documents) + 1,
            tier : EXPIRY_THRESHOLDS, for : People \cup {NoOne},
            proc : Procedures \cup {NoProcedure},
            to : Statuses \cup {"none"}, date : Dates \cup {NoDate}]
Procedure == [status : Statuses \cup {"none"}, for : People \cup {NoOne},
              source : Papers \cup {NoDocument}, result : Dates \cup {NoDate}]

Rows ==
  /\ claimed \in [Papers -> SUBSET EXPIRY_THRESHOLDS]
  /\ proc \in [Procedures -> Procedure]
  /\ \A p \in Procedures : proc[p].status = "none" <=> proc[p].for = NoOne
  /\ expiry \in [People -> Dates] /\ removed \subseteq Dependants /\ day \in Days
  /\ alerts \in [Papers -> [EXPIRY_THRESHOLDS -> Nat]]
  /\ renewed \in [People -> Dates] /\ disturbed \subseteq Papers \cup People
  /\ overtaken \subseteq People

Typed == Rows /\ req \in [Handlers -> Handler]

Base == Typed /\ Unopened /\ \A t \in Handlers : Carries(t)

\* At most one handler is about to publish a tier, and has not yet.
Publishing(d, n) == {t \in Handlers : req[t].pc = "publish" /\ Doc(t) = d /\ req[t].tier = n}
Claims ==
  \A d \in Papers, n \in EXPIRY_THRESHOLDS :
    /\ n \notin claimed[d] \/ Publishing(d, n) # {} => alerts[d][n] = 0
    /\ alerts[d][n] <= 1
    /\ \A t, u \in Publishing(d, n) : t = u

InFlight == \A x \in Dependants : \A p, q \in OpenFor(x) : p = q

\* Of a document whose alerts did not meet: one handler of them, one procedure.
Sourced(d) == {p \in Procedures : proc[p].source = d}
Tracked(d) ==
  /\ \A t, u \in Alerting(d) : t = u
  /\ \A p, q \in Sourced(d) : p = q
  /\ (\E t \in Alerting(d) : req[t].pc = "open") => Sourced(d) = {}
  /\ /\ d \in Renewable /\ EmployeeOf[d] # NoOne
     /\ \E n \in EXPIRY_THRESHOLDS : alerts[d][n] > 0
     /\ \A t \in Alerting(d) : req[t].pc # "open"
     => Sourced(d) # {}

\* Of a person on whom two handlers did not meet: what the one at work relies on.
Alone(x) == \A t, u \in Handlers : AtWorkOn(t, x) /\ AtWorkOn(u, x) => t = u
Follows(x, t) ==
  LET r == req[t] IN
  /\ r.pc \in {"create", "remove"} => x \notin removed
  /\ r.pc = "move" /\ x \in removed => r.to = "cancelled"
\* What is open for someone off file is about to be cancelled.
Closing(x) ==
  x \in removed /\ OpenFor(x) # {} =>
    \E t \in Handlers :
      /\ AtWorkOn(t, x)
      /\ \/ req[t].pc = "removed"
         \/ req[t].pc \in {"cancel", "move"} /\ req[t].proc \in OpenFor(x)
Kept(x) ==
  /\ Alone(x) /\ Closing(x)
  /\ \A t \in Handlers : AtWorkOn(t, x) => Follows(x, t)

\* The date last entered shows, or the one handler that has a date to write has that.
Dated(x) ==
  \/ Writing(x) = {} /\ expiry[x] = renewed[x]
  \/ \E t \in Writing(x) : Writing(x) = {t} /\ req[t].date = renewed[x]

IInv ==
  /\ Base /\ Claims /\ InFlight
  /\ \A d \in Papers \ disturbed : Tracked(d)
  /\ \A x \in People \ disturbed : Kept(x)
  /\ \A x \in People \ (removed \cup overtaken) : Dated(x)

LEMMA StatusFacts ==
  /\ Statuses = {"not_started", "in_progress", "submitted", "approved", "rejected", "completed", "cancelled"}
  /\ \A s \in Statuses \cup {"none"} : TRANSITIONS[s] \subseteq Statuses \ {"not_started"}
  /\ TRANSITIONS["none"] = {}
  /\ \A s \in Finished : TRANSITIONS[s] = {}
  /\ \A s \in Statuses \ Finished : "cancelled" \in TRANSITIONS[s]
BY DEF Statuses, TRANSITIONS, Finished

LEMMA TierIsOne ==
  ASSUME NEW days \in Int, days <= MAX_THRESHOLD
  PROVE  TierFor(days) \in EXPIRY_THRESHOLDS
<1>1. \E n \in EXPIRY_THRESHOLDS :
        days <= n /\ \A m \in EXPIRY_THRESHOLDS : days <= m => n <= m
  <2>1. CASE days <= 0
    BY <2>1 DEF EXPIRY_THRESHOLDS
  <2>2. CASE days > 0 /\ days <= 1
    BY <2>2 DEF EXPIRY_THRESHOLDS
  <2>3. CASE days > 1 /\ days <= 7
    BY <2>3 DEF EXPIRY_THRESHOLDS
  <2>4. CASE days > 7 /\ days <= 14
    BY <2>4 DEF EXPIRY_THRESHOLDS
  <2>5. CASE days > 14 /\ days <= 30
    BY <2>5 DEF EXPIRY_THRESHOLDS
  <2>6. CASE days > 30
    BY <2>6 DEF EXPIRY_THRESHOLDS, MAX_THRESHOLD
  <2> QED BY <2>1, <2>2, <2>3, <2>4, <2>5, <2>6
<1> QED BY <1>1 DEF TierFor

\* A document that is listed is one, and reaches a tier.
LEMMA ListedTier ==
  ASSUME Typed, NEW t \in Handlers, req[t].asOf \in Days, Listed(t)
  PROVE  /\ Doc(t) \in Papers /\ Tier(t) \in EXPIRY_THRESHOLDS
         /\ req[t].next \in 1..Len(Documents) + 1 /\ req[t].next + 1 \in 1..Len(Documents) + 1
<1>1. Len(Documents) \in Nat /\ req[t].next \in 1..Len(Documents)
  BY RenewalsAssumption DEF Listed
<1>2. Doc(t) \in Papers
  BY <1>1 DEF Doc, Papers
<1>3. Expiry[Doc(t)] - req[t].asOf \in Int /\ Expiry[Doc(t)] - req[t].asOf <= MAX_THRESHOLD
  <2>1. Expiry[Doc(t)] \in Int /\ req[t].asOf \in Int
    BY <1>2, RenewalsAssumption
  <2>2. Expiry[Doc(t)] <= req[t].asOf + MAX_THRESHOLD
    BY DEF Listed, Doc
  <2> QED BY <2>1, <2>2 DEF MAX_THRESHOLD
<1> QED BY <1>1, <1>2, <1>3, TierIsOne DEF Tier

LEMMA Bounds == 0 \in EXPIRY_THRESHOLDS /\ Len(Documents) \in Nat /\ 1 \in 1..Len(Documents) + 1
<1>1. Len(Documents) \in Nat
  BY RenewalsAssumption
<1> QED BY <1>1 DEF EXPIRY_THRESHOLDS

LEMMA ActingTyped ==
  ASSUME NEW pc \in Pcs, NEW x \in People \cup {NoOne}, NEW p \in Procedures \cup {NoProcedure},
         NEW to \in Statuses \cup {"none"}, NEW date \in Dates \cup {NoDate}
  PROVE  Acting(pc, x, p, to, date) \in Handler
<1>1. Len(Documents) \in Nat /\ 0 \in EXPIRY_THRESHOLDS
  BY RenewalsAssumption DEF EXPIRY_THRESHOLDS
<1> QED BY <1>1 DEF Acting, Handler

LEMMA IdleTyped == Idle \in Handler
BY ActingTyped DEF Idle, Pcs

LEMMA ScanningTyped ==
  ASSUME NEW pc \in Pcs, NEW asOf \in Days, NEW next \in 1..Len(Documents) + 1,
         NEW tier \in EXPIRY_THRESHOLDS
  PROVE  Scanning(pc, asOf, next, tier) \in Handler
<1>1. Len(Documents) \in Nat
  BY RenewalsAssumption
<1> QED BY <1>1 DEF Scanning, Handler

LEMMA OpenedTyped ==
  ASSUME NEW s \in Statuses \cup {"none"}, NEW x \in People \cup {NoOne},
         NEW d \in Papers \cup {NoDocument}
  PROVE  Opened(s, x, d) \in Procedure
BY DEF Opened, Procedure

LEMMA BaseInit == Init => Base
<1> SUFFICES ASSUME Init PROVE Base
  OBVIOUS
<1>1. req \in [Handlers -> Handler]
  BY IdleTyped DEF Init
<1>2. NotOpened \in Procedure /\ NotOpened.status = "none" /\ NotOpened.for = NoOne
      /\ NotOpened.source = NoDocument
  BY OpenedTyped DEF NotOpened, Opened, Procedure
<1>3. Rows /\ Unopened
  BY <1>2 DEF Init, Rows, Unopened
<1>4. \A t \in Handlers : Carries(t)
  BY DEF Init, Carries, Idle, Acting
<1> QED BY <1>1, <1>3, <1>4 DEF Base, Typed

\* What a handler relies on, when another makes a step.
LEMMA Stays ==
  ASSUME Base, NEW u \in Handlers, req'[u] = req[u],
         \A d \in Papers : claimed[d] \subseteq claimed'[d],
         \A p \in Procedures : proc[p].status # "none" => proc'[p].for = proc[p].for
  PROVE  Carries(u)'
<1>1. Carries(u) /\ Doc(u)' = Doc(u) /\ (Listed(u)' <=> Listed(u))
  BY DEF Base, Doc, Listed
<1>2. req[u].pc \in {"publish", "open"} => Doc(u) \in Papers
  BY <1>1, ListedTier DEF Base, Carries
<1>3. req[u].pc \in {"move", "cancel"} => proc[req[u].proc].status # "none"
  BY <1>1, RenewalsAssumption DEF Base, Typed, Rows, Carries, People
<1> QED BY <1>1, <1>2, <1>3 DEF Carries

LEMMA BaseScan ==
  ASSUME Base, NEW t \in Handlers, Scan(t)
  PROVE  Base'
<1> USE RenewalsAssumption DEF Scan
<1>1. /\ req[t] \in Handler /\ Carries(t)
      /\ req[t].for \in People \cup {NoOne} /\ req[t].proc \in Procedures \cup {NoProcedure}
      /\ req[t].date \in Dates \cup {NoDate} /\ req[t].to \in Statuses \cup {"none"}
      /\ req[t].tier \in EXPIRY_THRESHOLDS
  BY DEF Base, Typed, Handler
<1>3. req' \in [Handlers -> Handler]
  BY <1>1, ActingTyped, ScanningTyped, IdleTyped, Bounds DEF Base, Typed, Rows, Procedure, Carries, Pcs, hist
<1>4. Rows'
  BY <1>1, StatusFacts, OpenedTyped DEF Base, Typed, Rows, Procedure, Carries, hist, Opened, People
<1>5. Unopened'
  BY <1>1, StatusFacts DEF Base, Typed, Rows, Procedure, Unopened, Carries, hist, Opened
<1>6. \A u \in Handlers : Carries(u)'
  BY <1>1, StatusFacts DEF Base, Typed, Rows, Procedure, Carries, hist, Listed, Doc, Acting, Scanning, Opened, Idle, Finished
<1> QED BY <1>3, <1>4, <1>5, <1>6 DEF Base, Typed

LEMMA BaseClaim ==
  ASSUME Base, NEW t \in Handlers, Claim(t)
  PROVE  Base'
<1> USE RenewalsAssumption DEF Claim, TakeTier, Skip
<1>1. /\ req[t] \in Handler /\ Carries(t)
      /\ req[t].for \in People \cup {NoOne} /\ req[t].proc \in Procedures \cup {NoProcedure}
      /\ req[t].date \in Dates \cup {NoDate} /\ req[t].to \in Statuses \cup {"none"}
      /\ req[t].tier \in EXPIRY_THRESHOLDS
  BY DEF Base, Typed, Handler
<1>2. /\ req[t].asOf \in Days /\ Listed(t) /\ Doc(t) \in Papers /\ Tier(t) \in EXPIRY_THRESHOLDS
      /\ req[t].next \in 1..Len(Documents) + 1 /\ req[t].next + 1 \in 1..Len(Documents) + 1
  BY <1>1, ListedTier DEF Base, Carries
<1>3. req' \in [Handlers -> Handler]
  <2>1. CASE Tier(t) \in claimed[Doc(t)]
    <3>1. Scanning("scan", req[t].asOf, req[t].next + 1, 0) \in Handler
      BY <1>2, ScanningTyped, Bounds DEF Pcs
    <3> QED BY <2>1, <3>1 DEF Base, Typed
  <2>2. CASE Tier(t) \notin claimed[Doc(t)]
    <3>1. Scanning("publish", req[t].asOf, req[t].next, Tier(t)) \in Handler
      BY <1>2, ScanningTyped DEF Pcs
    <3> QED BY <2>2, <3>1 DEF Base, Typed
  <2> QED BY <2>1, <2>2
<1>4. Rows'
  <2>1. claimed' \in [Papers -> SUBSET EXPIRY_THRESHOLDS]
    <3>1. claimed[Doc(t)] \cup {Tier(t)} \in SUBSET EXPIRY_THRESHOLDS
      BY <1>2 DEF Base, Typed, Rows
    <3>2. claimed' = claimed \/ claimed' = [claimed EXCEPT ![Doc(t)] = claimed[Doc(t)] \cup {Tier(t)}]
      OBVIOUS
    <3> QED BY <3>1, <3>2 DEF Base, Typed, Rows
  <2>2. disturbed' \subseteq Papers \cup People
    BY <1>2 DEF Base, Typed, Rows
  <2> QED BY <2>1, <2>2 DEF Base, Typed, Rows, hist
<1>5. Unopened'
  BY <1>1, <1>2, StatusFacts DEF Base, Typed, Rows, Procedure, Unopened, Carries, hist, Opened
<1>6. \A u \in Handlers : Carries(u)'
  <2>1. CASE Tier(t) \in claimed[Doc(t)]
    <3>1. Carries(t)'
      BY <1>1, <1>2, <2>1 DEF Base, Typed, Carries, Scanning
    <3>2. ASSUME NEW u \in Handlers \ {t} PROVE Carries(u)'
      BY <2>1, Stays DEF Base, Typed
    <3> QED BY <3>1, <3>2
  <2>2. CASE Tier(t) \notin claimed[Doc(t)]
    <3>1. /\ req' = [req EXCEPT ![t] = Scanning("publish", req[t].asOf, req[t].next, Tier(t))]
          /\ claimed' = [claimed EXCEPT ![Doc(t)] = claimed[Doc(t)] \cup {Tier(t)}]
      BY <2>2 DEF Base, Typed
    <3>2. Tier(t) \in claimed'[Doc(t)] /\ \A d \in Papers : claimed[d] \subseteq claimed'[d]
      BY <1>2, <3>1 DEF Base, Typed, Rows
    <3>3. req'[t] = Scanning("publish", req[t].asOf, req[t].next, Tier(t))
      BY <3>1 DEF Base, Typed
    <3>4. Doc(t)' = Doc(t) /\ Listed(t)'
      BY <1>2, <3>3 DEF Doc, Listed, Scanning
    <3>5. Carries(t)'
      BY <1>1, <1>2, <3>2, <3>3, <3>4 DEF Carries, Scanning
    <3>6. ASSUME NEW u \in Handlers \ {t} PROVE Carries(u)'
      BY <3>1, <3>2, Stays DEF Base, Typed
    <3> QED BY <3>5, <3>6
  <2> QED BY <2>1, <2>2
<1> QED BY <1>3, <1>4, <1>5, <1>6 DEF Base, Typed

LEMMA BasePublish ==
  ASSUME Base, NEW t \in Handlers, Publish(t)
  PROVE  Base'
<1> USE RenewalsAssumption DEF Publish, Skip
<1>1. /\ req[t] \in Handler /\ Carries(t)
      /\ req[t].for \in People \cup {NoOne} /\ req[t].proc \in Procedures \cup {NoProcedure}
      /\ req[t].date \in Dates \cup {NoDate} /\ req[t].to \in Statuses \cup {"none"}
      /\ req[t].tier \in EXPIRY_THRESHOLDS
  BY DEF Base, Typed, Handler
<1>2. /\ req[t].asOf \in Days /\ Listed(t) /\ Doc(t) \in Papers /\ Tier(t) \in EXPIRY_THRESHOLDS
      /\ req[t].next \in 1..Len(Documents) + 1 /\ req[t].next + 1 \in 1..Len(Documents) + 1
  BY <1>1, ListedTier DEF Base, Carries
<1>3. req' \in [Handlers -> Handler]
  <2>1. Scanning("scan", req[t].asOf, req[t].next + 1, 0) \in Handler
    BY <1>2, ScanningTyped, Bounds DEF Pcs
  <2>2. Scanning("open", req[t].asOf, req[t].next, req[t].tier) \in Handler
    BY <1>1, <1>2, ScanningTyped DEF Pcs
  <2> QED BY <2>1, <2>2 DEF Base, Typed
<1>4. Rows'
  <2>1. alerts[Doc(t)] \in [EXPIRY_THRESHOLDS -> Nat]
    BY <1>2 DEF Base, Typed, Rows
  <2>2. [alerts[Doc(t)] EXCEPT ![req[t].tier] = @ + 1] \in [EXPIRY_THRESHOLDS -> Nat]
    BY <1>1, <2>1
  <2>3. alerts' = [alerts EXCEPT ![Doc(t)] = [alerts[Doc(t)] EXCEPT ![req[t].tier] = @ + 1]]
    OBVIOUS
  <2>4. alerts' \in [Papers -> [EXPIRY_THRESHOLDS -> Nat]]
    BY <1>2, <2>2, <2>3 DEF Base, Typed, Rows
  <2> QED BY <2>4 DEF Base, Typed, Rows
<1>5. Unopened'
  BY <1>1, <1>2, StatusFacts DEF Base, Typed, Rows, Procedure, Unopened, Carries, hist, Opened
<1>6. \A u \in Handlers : Carries(u)'
  <2>1. Carries(t)'
    <3>1. CASE Opens(Doc(t))
      <4>1. req'[t] = Scanning("open", req[t].asOf, req[t].next, req[t].tier)
        BY <3>1 DEF Base, Typed
      <4>2. Doc(t)' = Doc(t) /\ Listed(t)'
        BY <1>2, <4>1 DEF Doc, Listed, Scanning
      <4> QED BY <1>1, <1>2, <3>1, <4>1, <4>2 DEF Carries, Scanning, Opens
    <3>2. CASE ~Opens(Doc(t))
      BY <1>1, <1>2, <3>2 DEF Base, Typed, Carries, Scanning
    <3> QED BY <3>1, <3>2
  <2>2. ASSUME NEW u \in Handlers \ {t} PROVE Carries(u)'
    BY Stays DEF Base, Typed
  <2> QED BY <2>1, <2>2
<1> QED BY <1>3, <1>4, <1>5, <1>6 DEF Base, Typed

LEMMA BaseScanDone ==
  ASSUME Base, NEW t \in Handlers, ScanDone(t)
  PROVE  Base'
<1> USE RenewalsAssumption DEF ScanDone, Finish
<1>1. /\ req[t] \in Handler /\ Carries(t)
      /\ req[t].for \in People \cup {NoOne} /\ req[t].proc \in Procedures \cup {NoProcedure}
      /\ req[t].date \in Dates \cup {NoDate} /\ req[t].to \in Statuses \cup {"none"}
      /\ req[t].tier \in EXPIRY_THRESHOLDS
  BY DEF Base, Typed, Handler
<1>3. req' \in [Handlers -> Handler]
  BY <1>1, ActingTyped, ScanningTyped, IdleTyped, Bounds DEF Base, Typed, Rows, Procedure, Carries, Pcs, hist
<1>4. Rows'
  BY <1>1, StatusFacts, OpenedTyped DEF Base, Typed, Rows, Procedure, Carries, hist, Opened, People
<1>5. Unopened'
  BY <1>1, StatusFacts DEF Base, Typed, Rows, Procedure, Unopened, Carries, hist, Opened
<1>6. \A u \in Handlers : Carries(u)'
  BY <1>1, StatusFacts DEF Base, Typed, Rows, Procedure, Carries, hist, Listed, Doc, Acting, Scanning, Opened, Idle, Finished
<1> QED BY <1>3, <1>4, <1>5, <1>6 DEF Base, Typed

LEMMA BaseOpenForDocument ==
  ASSUME Base, NEW t \in Handlers, NEW p \in Procedures, OpenForDocument(t, p)
  PROVE  Base'
<1> USE RenewalsAssumption DEF OpenForDocument, Insert, Skip
<1>1. /\ req[t] \in Handler /\ Carries(t)
      /\ req[t].for \in People \cup {NoOne} /\ req[t].proc \in Procedures \cup {NoProcedure}
      /\ req[t].date \in Dates \cup {NoDate} /\ req[t].to \in Statuses \cup {"none"}
      /\ req[t].tier \in EXPIRY_THRESHOLDS
  BY DEF Base, Typed, Handler
<1>2. /\ req[t].asOf \in Days /\ Listed(t) /\ Doc(t) \in Papers /\ Tier(t) \in EXPIRY_THRESHOLDS
      /\ req[t].next \in 1..Len(Documents) + 1 /\ req[t].next + 1 \in 1..Len(Documents) + 1
  BY <1>1, ListedTier DEF Base, Carries
<1>3. req' \in [Handlers -> Handler]
  BY <1>1, <1>2, ActingTyped, ScanningTyped, IdleTyped, Bounds DEF Base, Typed, Rows, Procedure, Carries, Pcs, hist
<1>4. Rows'
  BY <1>1, <1>2, StatusFacts, OpenedTyped DEF Base, Typed, Rows, Procedure, Carries, hist, Opened, People
<1>5. Unopened'
  BY <1>1, <1>2, StatusFacts DEF Base, Typed, Rows, Procedure, Unopened, Carries, hist, Opened
<1>6. \A u \in Handlers : Carries(u)'
  BY <1>1, <1>2, StatusFacts DEF Base, Typed, Rows, Procedure, Carries, hist, Listed, Doc, Acting, Scanning, Opened, Idle, Finished
<1> QED BY <1>3, <1>4, <1>5, <1>6 DEF Base, Typed

LEMMA BaseCreateRead ==
  ASSUME Base, NEW t \in Handlers, NEW x \in People, CreateRead(t, x)
  PROVE  Base'
<1> USE RenewalsAssumption DEF CreateRead, Begin
<1>1. /\ req[t] \in Handler /\ Carries(t)
      /\ req[t].for \in People \cup {NoOne} /\ req[t].proc \in Procedures \cup {NoProcedure}
      /\ req[t].date \in Dates \cup {NoDate} /\ req[t].to \in Statuses \cup {"none"}
      /\ req[t].tier \in EXPIRY_THRESHOLDS
  BY DEF Base, Typed, Handler
<1>3. req' \in [Handlers -> Handler]
  BY <1>1, ActingTyped, ScanningTyped, IdleTyped, Bounds DEF Base, Typed, Rows, Procedure, Carries, Pcs, hist
<1>4. Rows'
  BY <1>1, StatusFacts, OpenedTyped DEF Base, Typed, Rows, Procedure, Carries, hist, Opened, People, Acting
<1>5. Unopened'
  BY <1>1, StatusFacts DEF Base, Typed, Rows, Procedure, Unopened, Carries, hist, Opened
<1>6. \A u \in Handlers : Carries(u)'
  BY <1>1, StatusFacts DEF Base, Typed, Rows, Procedure, Carries, hist, Listed, Doc, Acting, Scanning, Opened, Idle, Finished
<1> QED BY <1>3, <1>4, <1>5, <1>6 DEF Base, Typed

LEMMA BaseCreateInsert ==
  ASSUME Base, NEW t \in Handlers, NEW p \in Procedures, CreateInsert(t, p)
  PROVE  Base'
<1> USE RenewalsAssumption DEF CreateInsert, Insert, Finish
<1>1. /\ req[t] \in Handler /\ Carries(t)
      /\ req[t].for \in People \cup {NoOne} /\ req[t].proc \in Procedures \cup {NoProcedure}
      /\ req[t].date \in Dates \cup {NoDate} /\ req[t].to \in Statuses \cup {"none"}
      /\ req[t].tier \in EXPIRY_THRESHOLDS
  BY DEF Base, Typed, Handler
<1>3. req' \in [Handlers -> Handler]
  BY <1>1, ActingTyped, ScanningTyped, IdleTyped, Bounds DEF Base, Typed, Rows, Procedure, Carries, Pcs, hist
<1>4. Rows'
  <2>1. CASE IndexAllows(p, req[t].for)
    <3>1. Opened("not_started", req[t].for, NoDocument) \in Procedure /\ req[t].for # NoOne
      BY <1>1, StatusFacts, OpenedTyped DEF Carries, People
    <3>2. proc' = [proc EXCEPT ![p] = Opened("not_started", req[t].for, NoDocument)]
      BY <2>1
    <3>3. /\ proc' \in [Procedures -> Procedure]
          /\ \A q \in Procedures : proc'[q].status = "none" <=> proc'[q].for = NoOne
      BY <3>1, <3>2 DEF Base, Typed, Rows, Opened
    <3> QED BY <3>3 DEF Base, Typed, Rows, hist
  <2>2. CASE ~IndexAllows(p, req[t].for)
    BY <2>2 DEF Base, Typed, Rows, hist
  <2> QED BY <2>1, <2>2
<1>5. Unopened'
  <2>1. CASE IndexAllows(p, req[t].for)
    <3>1. proc' = [proc EXCEPT ![p] = Opened("not_started", req[t].for, NoDocument)]
      BY <2>1
    <3> QED BY <3>1 DEF Base, Typed, Rows, Unopened, Opened
  <2>2. CASE ~IndexAllows(p, req[t].for)
    BY <2>2 DEF Base, Unopened
  <2> QED BY <2>1, <2>2
<1>6. \A u \in Handlers : Carries(u)'
  <2>1. \A q \in Procedures : proc[q].status # "none" => proc'[q] = proc[q]
    BY DEF Base, Typed, Rows
  <2>2. ASSUME NEW u \in Handlers \ {t} PROVE Carries(u)'
    BY <2>1, Stays DEF Base, Typed
  <2>3. Carries(t)'
    BY DEF Base, Typed, Carries, Idle, Acting
  <2> QED BY <2>2, <2>3
<1> QED BY <1>3, <1>4, <1>5, <1>6 DEF Base, Typed

LEMMA BaseSetResult ==
  ASSUME Base, NEW p \in Procedures, NEW v \in Dates \cup {NoDate}, SetResult(p, v)
  PROVE  Base'
<1> USE RenewalsAssumption DEF SetResult
<1>3. req' \in [Handlers -> Handler]
  BY ActingTyped, ScanningTyped, IdleTyped, Bounds DEF Base, Typed, Rows, Procedure, Carries, Pcs, hist
<1>4. Rows'
  <2>1. [proc[p] EXCEPT !.result = v] \in Procedure
    <3>1. proc[p] \in Procedure
      BY DEF Base, Typed, Rows
    <3> QED BY <3>1 DEF Procedure
  <2> QED BY <2>1 DEF Base, Typed, Rows, hist, Procedure
<1>5. Unopened'
  BY StatusFacts DEF Base, Typed, Rows, Procedure, Unopened, Carries, hist, Opened
<1>6. \A u \in Handlers : Carries(u)'
  BY StatusFacts DEF Base, Typed, Rows, Procedure, Carries, hist, Listed, Doc, Acting, Scanning, Opened, Idle, Finished
<1> QED BY <1>3, <1>4, <1>5, <1>6 DEF Base, Typed

LEMMA BaseChangeStatusRead ==
  ASSUME Base, NEW t \in Handlers, NEW p \in Procedures, NEW to \in Statuses, ChangeStatusRead(t, p, to)
  PROVE  Base'
<1> USE RenewalsAssumption DEF ChangeStatusRead, Begin
<1>1. /\ req[t] \in Handler /\ Carries(t)
      /\ req[t].for \in People \cup {NoOne} /\ req[t].proc \in Procedures \cup {NoProcedure}
      /\ req[t].date \in Dates \cup {NoDate} /\ req[t].to \in Statuses \cup {"none"}
      /\ req[t].tier \in EXPIRY_THRESHOLDS
  BY DEF Base, Typed, Handler
<1>3. req' \in [Handlers -> Handler]
  BY <1>1, ActingTyped, ScanningTyped, IdleTyped, Bounds DEF Base, Typed, Rows, Procedure, Carries, Pcs, hist
<1>4. Rows'
  BY <1>1, StatusFacts, OpenedTyped DEF Base, Typed, Rows, Procedure, Carries, hist, Opened, People, Acting
<1>5. Unopened'
  BY <1>1, StatusFacts DEF Base, Typed, Rows, Procedure, Unopened, Carries, hist, Opened
<1>6. \A u \in Handlers : Carries(u)'
  BY <1>1, StatusFacts DEF Base, Typed, Rows, Procedure, Carries, hist, Listed, Doc, Acting, Scanning, Opened, Idle, Finished
<1> QED BY <1>3, <1>4, <1>5, <1>6 DEF Base, Typed

LEMMA BaseChangeStatus ==
  ASSUME Base, NEW t \in Handlers, ChangeStatus(t)
  PROVE  Base'
<1> USE RenewalsAssumption DEF ChangeStatus, Writes
<1>1. /\ req[t] \in Handler /\ Carries(t)
      /\ req[t].for \in People \cup {NoOne} /\ req[t].proc \in Procedures \cup {NoProcedure}
      /\ req[t].date \in Dates \cup {NoDate} /\ req[t].to \in Statuses \cup {"none"}
      /\ req[t].tier \in EXPIRY_THRESHOLDS
  BY DEF Base, Typed, Handler
<1>3. req' \in [Handlers -> Handler]
  BY <1>1, ActingTyped, ScanningTyped, IdleTyped, Bounds DEF Base, Typed, Rows, Procedure, Carries, Pcs, hist
<1>4. Rows'
  <2>1. /\ req[t].proc \in Procedures /\ req[t].to \in Statuses /\ req[t].for \in People
        /\ proc[req[t].proc] \in Procedure
    BY <1>1 DEF Base, Typed, Rows, Carries
  <2>2. [proc[req[t].proc] EXCEPT !.status = req[t].to] \in Procedure
    BY <2>1 DEF Procedure
  <2>3. /\ proc' \in [Procedures -> Procedure]
        /\ \A q \in Procedures : proc'[q].status = "none" <=> proc'[q].for = NoOne
    <3>1. proc' = proc \/ proc' = [proc EXCEPT ![req[t].proc] = [proc[req[t].proc] EXCEPT !.status = req[t].to]]
      OBVIOUS
    <3>2. proc[req[t].proc].for # NoOne /\ req[t].to # "none"
      BY <1>1, <2>1, StatusFacts DEF Carries, People
    <3> QED BY <2>1, <2>2, <3>1, <3>2 DEF Base, Typed, Rows, Procedure
  <2>4. renewed' \in [People -> Dates]
    <3>1. proc[req[t].proc].result \in Dates \cup {NoDate}
      BY <2>1 DEF Procedure
    <3> QED BY <2>1, <3>1 DEF Base, Typed, Rows
  <2>5. overtaken' \subseteq People
    BY <2>1 DEF Overtakes, Base, Typed, Rows
  <2> QED BY <2>3, <2>4, <2>5 DEF Base, Typed, Rows
<1>5. Unopened'
  BY <1>1, StatusFacts DEF Base, Typed, Rows, Procedure, Unopened, Carries, hist, Opened
<1>6. \A u \in Handlers : Carries(u)'
  BY <1>1, StatusFacts DEF Base, Typed, Rows, Procedure, Carries, hist, Listed, Doc, Acting, Scanning, Opened, Idle, Finished
<1> QED BY <1>3, <1>4, <1>5, <1>6 DEF Base, Typed

LEMMA BaseEffectRead ==
  ASSUME Base, NEW t \in Handlers, EffectRead(t)
  PROVE  Base'
<1> USE RenewalsAssumption DEF EffectRead
<1>1. /\ req[t] \in Handler /\ Carries(t)
      /\ req[t].for \in People \cup {NoOne} /\ req[t].proc \in Procedures \cup {NoProcedure}
      /\ req[t].date \in Dates \cup {NoDate} /\ req[t].to \in Statuses \cup {"none"}
      /\ req[t].tier \in EXPIRY_THRESHOLDS
  BY DEF Base, Typed, Handler
<1>3. req' \in [Handlers -> Handler]
  BY <1>1, ActingTyped, ScanningTyped, IdleTyped, Bounds DEF Base, Typed, Rows, Procedure, Carries, Pcs, hist
<1>4. Rows'
  BY <1>1, StatusFacts, OpenedTyped DEF Base, Typed, Rows, Procedure, Carries, hist, Opened, People
<1>5. Unopened'
  BY <1>1, StatusFacts DEF Base, Typed, Rows, Procedure, Unopened, Carries, hist, Opened
<1>6. \A u \in Handlers : Carries(u)'
  BY <1>1, StatusFacts DEF Base, Typed, Rows, Procedure, Carries, hist, Listed, Doc, Acting, Scanning, Opened, Idle, Finished
<1> QED BY <1>3, <1>4, <1>5, <1>6 DEF Base, Typed

LEMMA BaseEffectWrite ==
  ASSUME Base, NEW t \in Handlers, EffectWrite(t)
  PROVE  Base'
<1> USE RenewalsAssumption DEF EffectWrite, Finish
<1>1. /\ req[t] \in Handler /\ Carries(t)
      /\ req[t].for \in People \cup {NoOne} /\ req[t].proc \in Procedures \cup {NoProcedure}
      /\ req[t].date \in Dates \cup {NoDate} /\ req[t].to \in Statuses \cup {"none"}
      /\ req[t].tier \in EXPIRY_THRESHOLDS
  BY DEF Base, Typed, Handler
<1>3. req' \in [Handlers -> Handler]
  BY <1>1, ActingTyped, ScanningTyped, IdleTyped, Bounds DEF Base, Typed, Rows, Procedure, Carries, Pcs, hist
<1>4. Rows'
  BY <1>1, StatusFacts, OpenedTyped DEF Base, Typed, Rows, Procedure, Carries, hist, Opened, People
<1>5. Unopened'
  BY <1>1, StatusFacts DEF Base, Typed, Rows, Procedure, Unopened, Carries, hist, Opened
<1>6. \A u \in Handlers : Carries(u)'
  BY <1>1, StatusFacts DEF Base, Typed, Rows, Procedure, Carries, hist, Listed, Doc, Acting, Scanning, Opened, Idle, Finished
<1> QED BY <1>3, <1>4, <1>5, <1>6 DEF Base, Typed

LEMMA BaseRemoveRead ==
  ASSUME Base, NEW t \in Handlers, NEW x \in People, RemoveRead(t, x)
  PROVE  Base'
<1> USE RenewalsAssumption DEF RemoveRead, Begin
<1>1. /\ req[t] \in Handler /\ Carries(t)
      /\ req[t].for \in People \cup {NoOne} /\ req[t].proc \in Procedures \cup {NoProcedure}
      /\ req[t].date \in Dates \cup {NoDate} /\ req[t].to \in Statuses \cup {"none"}
      /\ req[t].tier \in EXPIRY_THRESHOLDS
  BY DEF Base, Typed, Handler
<1>3. req' \in [Handlers -> Handler]
  BY <1>1, ActingTyped, ScanningTyped, IdleTyped, Bounds DEF Base, Typed, Rows, Procedure, Carries, Pcs, hist
<1>4. Rows'
  BY <1>1, StatusFacts, OpenedTyped DEF Base, Typed, Rows, Procedure, Carries, hist, Opened, People, Acting
<1>5. Unopened'
  BY <1>1, StatusFacts DEF Base, Typed, Rows, Procedure, Unopened, Carries, hist, Opened
<1>6. \A u \in Handlers : Carries(u)'
  BY <1>1, StatusFacts DEF Base, Typed, Rows, Procedure, Carries, hist, Listed, Doc, Acting, Scanning, Opened, Idle, Finished
<1> QED BY <1>3, <1>4, <1>5, <1>6 DEF Base, Typed

LEMMA BaseRemove ==
  ASSUME Base, NEW t \in Handlers, Remove(t)
  PROVE  Base'
<1> USE RenewalsAssumption DEF Remove
<1>1. /\ req[t] \in Handler /\ Carries(t)
      /\ req[t].for \in People \cup {NoOne} /\ req[t].proc \in Procedures \cup {NoProcedure}
      /\ req[t].date \in Dates \cup {NoDate} /\ req[t].to \in Statuses \cup {"none"}
      /\ req[t].tier \in EXPIRY_THRESHOLDS
  BY DEF Base, Typed, Handler
<1>3. req' \in [Handlers -> Handler]
  BY <1>1, ActingTyped, ScanningTyped, IdleTyped, Bounds DEF Base, Typed, Rows, Procedure, Carries, Pcs, hist
<1>4. Rows'
  BY <1>1, StatusFacts, OpenedTyped DEF Base, Typed, Rows, Procedure, Carries, hist, Opened, People
<1>5. Unopened'
  BY <1>1, StatusFacts DEF Base, Typed, Rows, Procedure, Unopened, Carries, hist, Opened
<1>6. \A u \in Handlers : Carries(u)'
  BY <1>1, StatusFacts DEF Base, Typed, Rows, Procedure, Carries, hist, Listed, Doc, Acting, Scanning, Opened, Idle, Finished
<1> QED BY <1>3, <1>4, <1>5, <1>6 DEF Base, Typed

LEMMA BaseCancelList ==
  ASSUME Base, NEW t \in Handlers, CancelList(t)
  PROVE  Base'
<1> USE RenewalsAssumption DEF CancelList, Finish
<1>1. /\ req[t] \in Handler /\ Carries(t)
      /\ req[t].for \in People \cup {NoOne} /\ req[t].proc \in Procedures \cup {NoProcedure}
      /\ req[t].date \in Dates \cup {NoDate} /\ req[t].to \in Statuses \cup {"none"}
      /\ req[t].tier \in EXPIRY_THRESHOLDS
  BY DEF Base, Typed, Handler
<1>3. req' \in [Handlers -> Handler]
  <2>1. CASE OpenFor(req[t].for) = {}
    BY <2>1, IdleTyped DEF Base, Typed
  <2>2. CASE OpenFor(req[t].for) # {}
    <3>1. PICK p \in OpenFor(req[t].for) : req' = [req EXCEPT ![t] = Acting("cancel", req[t].for, p, "none", NoDate)]
      BY <2>2
    <3>2. Acting("cancel", req[t].for, p, "none", NoDate) \in Handler
      BY <1>1, ActingTyped DEF OpenFor, Pcs
    <3> QED BY <3>1, <3>2 DEF Base, Typed
  <2> QED BY <2>1, <2>2
<1>4. Rows'
  BY <1>1, StatusFacts, OpenedTyped DEF Base, Typed, Rows, Procedure, Carries, hist, Opened, People
<1>5. Unopened'
  BY <1>1, StatusFacts DEF Base, Typed, Rows, Procedure, Unopened, Carries, hist, Opened
<1>6. \A u \in Handlers : Carries(u)'
  <2>1. Carries(t)'
    <3>1. CASE OpenFor(req[t].for) = {}
      BY <3>1 DEF Base, Typed, Carries, Idle, Acting
    <3>2. CASE OpenFor(req[t].for) # {}
      <4>1. PICK p \in OpenFor(req[t].for) : req' = [req EXCEPT ![t] = Acting("cancel", req[t].for, p, "none", NoDate)]
        BY <3>2
      <4>2. req'[t] = Acting("cancel", req[t].for, p, "none", NoDate)
        BY <4>1 DEF Base, Typed
      <4> QED BY <1>1, <4>1, <4>2 DEF Carries, Acting, OpenFor, Idle
    <3> QED BY <3>1, <3>2
  <2>2. ASSUME NEW u \in Handlers \ {t} PROVE Carries(u)'
    BY Stays DEF Base, Typed
  <2> QED BY <2>1, <2>2
<1> QED BY <1>3, <1>4, <1>5, <1>6 DEF Base, Typed

LEMMA BaseCancelRead ==
  ASSUME Base, NEW t \in Handlers, CancelRead(t)
  PROVE  Base'
<1> USE RenewalsAssumption DEF CancelRead
<1>1. /\ req[t] \in Handler /\ Carries(t)
      /\ req[t].for \in People \cup {NoOne} /\ req[t].proc \in Procedures \cup {NoProcedure}
      /\ req[t].date \in Dates \cup {NoDate} /\ req[t].to \in Statuses \cup {"none"}
      /\ req[t].tier \in EXPIRY_THRESHOLDS
  BY DEF Base, Typed, Handler
<1>3. req' \in [Handlers -> Handler]
  <2>1. Acting("move", req[t].for, req[t].proc, "cancelled", NoDate) \in Handler
    BY <1>1, ActingTyped, StatusFacts DEF Pcs
  <2> QED BY <2>1, IdleTyped DEF Base, Typed
<1>4. Rows'
  BY <1>1, StatusFacts, OpenedTyped DEF Base, Typed, Rows, Procedure, Carries, hist, Opened, People
<1>5. Unopened'
  BY <1>1, StatusFacts DEF Base, Typed, Rows, Procedure, Unopened, Carries, hist, Opened
<1>6. \A u \in Handlers : Carries(u)'
  BY <1>1, StatusFacts DEF Base, Typed, Rows, Procedure, Carries, hist, Listed, Doc, Acting, Scanning, Opened, Idle, Finished
<1> QED BY <1>3, <1>4, <1>5, <1>6 DEF Base, Typed

LEMMA BaseEditExpiry ==
  ASSUME Base, NEW x \in People, NEW v \in Dates, EditExpiry(x, v)
  PROVE  Base'
<1> USE RenewalsAssumption DEF EditExpiry
<1>3. req' \in [Handlers -> Handler]
  BY ActingTyped, ScanningTyped, IdleTyped, Bounds DEF Base, Typed, Rows, Procedure, Carries, Pcs, hist
<1>4. Rows'
  <2>1. overtaken' \subseteq People
    BY DEF Overtakes, Base, Typed, Rows
  <2>2. expiry' \in [People -> Dates] /\ renewed' \in [People -> Dates]
    BY DEF Base, Typed, Rows
  <2> QED BY <2>1, <2>2 DEF Base, Typed, Rows
<1>5. Unopened'
  BY StatusFacts DEF Base, Typed, Rows, Procedure, Unopened, Carries, hist, Opened
<1>6. \A u \in Handlers : Carries(u)'
  BY StatusFacts DEF Base, Typed, Rows, Procedure, Carries, hist, Listed, Doc, Acting, Scanning, Opened, Idle, Finished
<1> QED BY <1>3, <1>4, <1>5, <1>6 DEF Base, Typed

LEMMA BaseTick ==
  ASSUME Base, NEW n \in Days, Tick(n)
  PROVE  Base'
<1> USE RenewalsAssumption DEF Tick
<1>3. req' \in [Handlers -> Handler]
  BY ActingTyped, ScanningTyped, IdleTyped, Bounds DEF Base, Typed, Rows, Procedure, Carries, Pcs, hist
<1>4. Rows'
  BY StatusFacts, OpenedTyped DEF Base, Typed, Rows, Procedure, Carries, hist, Opened, People
<1>5. Unopened'
  BY StatusFacts DEF Base, Typed, Rows, Procedure, Unopened, Carries, hist, Opened
<1>6. \A u \in Handlers : Carries(u)'
  BY StatusFacts DEF Base, Typed, Rows, Procedure, Carries, hist, Listed, Doc, Acting, Scanning, Opened, Idle, Finished
<1> QED BY <1>3, <1>4, <1>5, <1>6 DEF Base, Typed

LEMMA BaseFail ==
  ASSUME Base, NEW t \in Handlers, Fail(t)
  PROVE  Base'
<1> USE RenewalsAssumption DEF Fail, Finish
<1>1. /\ req[t] \in Handler /\ Carries(t)
      /\ req[t].for \in People \cup {NoOne} /\ req[t].proc \in Procedures \cup {NoProcedure}
      /\ req[t].date \in Dates \cup {NoDate} /\ req[t].to \in Statuses \cup {"none"}
      /\ req[t].tier \in EXPIRY_THRESHOLDS
  BY DEF Base, Typed, Handler
<1>3. req' \in [Handlers -> Handler]
  BY <1>1, ActingTyped, ScanningTyped, IdleTyped, Bounds DEF Base, Typed, Rows, Procedure, Carries, Pcs, hist
<1>4. Rows'
  <2>1. req[t].pc \in {"publish", "open"} => Doc(t) \in Papers
    BY <1>1, ListedTier DEF Base, Carries
  <2>2. disturbed' \subseteq Papers \cup People
    BY <1>1, <2>1 DEF Base, Typed, Rows
  <2>3. overtaken' \subseteq People
    BY <1>1 DEF Base, Typed, Rows, Carries
  <2> QED BY <2>2, <2>3 DEF Base, Typed, Rows
<1>5. Unopened'
  BY <1>1, StatusFacts DEF Base, Typed, Rows, Procedure, Unopened, Carries, hist, Opened
<1>6. \A u \in Handlers : Carries(u)'
  BY <1>1, StatusFacts DEF Base, Typed, Rows, Procedure, Carries, hist, Listed, Doc, Acting, Scanning, Opened, Idle, Finished
<1> QED BY <1>3, <1>4, <1>5, <1>6 DEF Base, Typed

-----------------------------------------------------------------------------
(* Tiers                                                                   *)

LEMMA ClaimsNext ==
  ASSUME Base, Next, Claims
  PROVE  Claims'
<1>1. ASSUME NEW t \in Handlers, Claim(t) PROVE Claims'
  <2>1. /\ req[t].asOf \in Days /\ Listed(t) /\ Doc(t) \in Papers /\ Tier(t) \in EXPIRY_THRESHOLDS
    BY <1>1, ListedTier DEF Base, Carries, Claim
  <2>2. alerts' = alerts /\ \A u \in Handlers \ {t} : req'[u] = req[u] /\ Doc(u)' = Doc(u)
    BY <1>1 DEF Claim, TakeTier, Skip, Base, Typed, Doc
  <2>3. CASE Tier(t) \in claimed[Doc(t)]
    <3>1. claimed' = claimed /\ req'[t].pc = "scan"
      BY <1>1, <2>3 DEF Claim, Skip, Scanning, Base, Typed
    <3>2. \A d, n : Publishing(d, n)' \subseteq Publishing(d, n)
      BY <2>2, <3>1 DEF Publishing
    <3> QED BY <2>2, <3>1, <3>2 DEF Claims
  <2>4. CASE Tier(t) \notin claimed[Doc(t)]
    <3>1. /\ claimed' = [claimed EXCEPT ![Doc(t)] = claimed[Doc(t)] \cup {Tier(t)}]
          /\ req'[t] = Scanning("publish", req[t].asOf, req[t].next, Tier(t))
      BY <1>1, <2>4 DEF Claim, TakeTier, Base, Typed
    <3>2. req'[t].pc = "publish" /\ Doc(t)' = Doc(t) /\ req'[t].tier = Tier(t)
      BY <3>1 DEF Scanning, Doc
    <3>3. ASSUME NEW d \in Papers, NEW n \in EXPIRY_THRESHOLDS
          PROVE  /\ n \notin claimed'[d] \/ Publishing(d, n)' # {} => alerts'[d][n] = 0
                 /\ alerts'[d][n] <= 1
                 /\ \A u, v \in Publishing(d, n)' : u = v
      <4>1. CASE d = Doc(t) /\ n = Tier(t)
        <5>1. alerts[d][n] = 0 /\ alerts'[d][n] = 0
          BY <2>2, <2>4, <4>1, <3>3 DEF Claims
        <5>2. Publishing(d, n) = {}
          BY <4>1, <2>4 DEF Base, Carries, Publishing
        <5>3. Publishing(d, n)' \subseteq {t}
          BY <2>2, <5>2 DEF Publishing
        <5> QED BY <5>1, <5>3
      <4>2. CASE ~(d = Doc(t) /\ n = Tier(t))
        <5>1. Publishing(d, n)' \subseteq Publishing(d, n)
          BY <2>2, <3>2, <4>2 DEF Publishing
        <5>2. n \notin claimed'[d] => n \notin claimed[d]
          BY <3>1, <2>1 DEF Base, Typed, Rows
        <5> QED BY <2>2, <3>3, <5>1, <5>2 DEF Claims
      <4> QED BY <4>1, <4>2
    <3> QED BY <3>3 DEF Claims
  <2> QED BY <2>3, <2>4
<1>2. ASSUME NEW t \in Handlers, Publish(t) PROVE Claims'
  <2>1. Doc(t) \in Papers /\ req[t].tier \in EXPIRY_THRESHOLDS /\ t \in Publishing(Doc(t), req[t].tier)
    BY <1>2, ListedTier DEF Base, Carries, Publish, Publishing, Typed, Handler
  <2>2. /\ claimed' = claimed /\ \A u \in Handlers \ {t} : req'[u] = req[u] /\ Doc(u)' = Doc(u)
        /\ alerts' = [alerts EXCEPT ![Doc(t)][req[t].tier] = @ + 1]
        /\ req'[t].pc # "publish"
    BY <1>2 DEF Publish, Skip, Scanning, Base, Typed, Doc
  <2>3. ASSUME NEW d \in Papers, NEW n \in EXPIRY_THRESHOLDS
        PROVE  /\ n \notin claimed'[d] \/ Publishing(d, n)' # {} => alerts'[d][n] = 0
               /\ alerts'[d][n] <= 1
               /\ \A u, v \in Publishing(d, n)' : u = v
    <3>1. Publishing(d, n)' \subseteq Publishing(d, n) \ {t}
      BY <2>2 DEF Publishing
    <3>2. CASE d = Doc(t) /\ n = req[t].tier
      <4>1. alerts[d][n] = 0 /\ alerts'[d][n] = 1
        BY <2>1, <2>2, <2>3, <3>2 DEF Claims, Base, Typed, Rows
      <4>2. n \in claimed'[d]
        BY <1>2, <2>2, <3>2 DEF Base, Carries, Publish
      <4>3. Publishing(d, n)' = {}
        BY <2>1, <3>1, <3>2, <2>3 DEF Claims
      <4> QED BY <4>1, <4>2, <4>3
    <3>3. CASE ~(d = Doc(t) /\ n = req[t].tier)
      <4>1. alerts'[d][n] = alerts[d][n]
        BY <2>2, <3>3 DEF Base, Typed, Rows
      <4> QED BY <2>2, <2>3, <3>1, <4>1 DEF Claims
    <3> QED BY <3>2, <3>3
  <2> QED BY <2>3 DEF Claims
<1>3. CASE \A t \in Handlers : ~Claim(t) /\ ~Publish(t)
  <2>1. claimed' = claimed /\ alerts' = alerts
    BY <1>3 DEF Next, Scan, ScanDone, OpenForDocument, CreateRead, CreateInsert, RemoveRead,
       ChangeStatusRead, ChangeStatus, EffectRead, EffectWrite, Remove, CancelList, CancelRead, Fail,
       SetResult, EditExpiry, Tick, hist
  <2>2. ASSUME NEW u \in Handlers, req'[u].pc = "publish" PROVE req'[u] = req[u]
    <3> USE <2>2 DEF Base, Typed, Begin, Finish, Skip, hist, Acting, Scanning, Idle
    <3>1. ASSUME NEW t \in Handlers,
                 Scan(t) \/ ScanDone(t) \/ EffectRead(t) \/ EffectWrite(t) \/ Remove(t)
                   \/ CancelList(t) \/ CancelRead(t) \/ Fail(t) \/ ChangeStatus(t)
          PROVE  req'[u] = req[u]
      BY <3>1 DEF Scan, ScanDone, EffectRead, EffectWrite, Remove, CancelList, CancelRead, Fail, ChangeStatus
    <3>2. ASSUME NEW t \in Handlers, NEW p \in Procedures, OpenForDocument(t, p) \/ CreateInsert(t, p)
          PROVE  req'[u] = req[u]
      BY <3>2 DEF OpenForDocument, CreateInsert
    <3>3. ASSUME NEW t \in Handlers, NEW x \in People, CreateRead(t, x) \/ RemoveRead(t, x)
          PROVE  req'[u] = req[u]
      BY <3>3 DEF CreateRead, RemoveRead
    <3>4. ASSUME NEW t \in Handlers, NEW p \in Procedures, NEW to \in Statuses, ChangeStatusRead(t, p, to)
          PROVE  req'[u] = req[u]
      BY <3>4 DEF ChangeStatusRead
    <3>5. ASSUME NEW p \in Procedures, NEW v \in Dates \cup {NoDate}, SetResult(p, v) PROVE req'[u] = req[u]
      BY <3>5 DEF SetResult
    <3>6. ASSUME NEW x \in People, NEW v \in Dates, EditExpiry(x, v) PROVE req'[u] = req[u]
      BY <3>6 DEF EditExpiry
    <3>7. ASSUME NEW n \in Days, Tick(n) PROVE req'[u] = req[u]
      BY <3>7 DEF Tick
    <3> HIDE <2>2 DEF Base, Typed, Begin, Finish, Skip, hist, Acting, Scanning, Idle
    <3> QED BY <1>3, <3>1, <3>2, <3>3, <3>4, <3>5, <3>6, <3>7 DEF Next
  <2>3. \A d, n : Publishing(d, n)' \subseteq Publishing(d, n)
    BY <2>2 DEF Publishing, Doc
  <2> QED BY <2>1, <2>3 DEF Claims
<1> QED BY <1>1, <1>2, <1>3

-----------------------------------------------------------------------------
(* Renewals in flight                                                      *)

LEMMA InFlightNext ==
  ASSUME Base, Next, InFlight
  PROVE  InFlight'
<1>1. ASSUME NEW t \in Handlers, NEW p \in Procedures, OpenForDocument(t, p) PROVE InFlight'
  <2>1. Doc(t) \in Papers /\ EmployeeOf[Doc(t)] \in Employees
    BY <1>1, ListedTier, RenewalsAssumption DEF Base, Carries, OpenForDocument
  <2>2. proc' = [proc EXCEPT ![p] = Opened("not_started", EmployeeOf[Doc(t)], Doc(t))]
    BY <1>1 DEF OpenForDocument, Insert
  <2>3. \A x \in Dependants : OpenFor(x)' \subseteq OpenFor(x)
    BY <2>1, <2>2, RenewalsAssumption DEF OpenFor, IsOpen, Opened, Base, Typed, Rows
  <2> QED BY <2>3 DEF InFlight
<1>2. ASSUME NEW t \in Handlers, NEW p \in Procedures, CreateInsert(t, p) PROVE InFlight'
  <2>1. CASE IndexAllows(p, req[t].for)
    <3>1. proc' = [proc EXCEPT ![p] = Opened("not_started", req[t].for, NoDocument)]
      BY <1>2, <2>1 DEF CreateInsert, Insert
    <3>2. ASSUME NEW x \in Dependants PROVE \A q, r \in OpenFor(x)' : q = r
      <4>1. x = req[t].for => OpenFor(x) \subseteq {p}
        BY <2>1 DEF IndexAllows
      <4>2. OpenFor(x)' \subseteq OpenFor(x) \cup (IF x = req[t].for THEN {p} ELSE {})
        BY <3>1 DEF OpenFor, IsOpen, Opened, Base, Typed, Rows
      <4> QED BY <4>1, <4>2 DEF InFlight
    <3> QED BY <3>2 DEF InFlight
  <2>2. CASE ~IndexAllows(p, req[t].for)
    BY <1>2, <2>2 DEF CreateInsert, InFlight, OpenFor, IsOpen
  <2> QED BY <2>1, <2>2
<1>3. ASSUME NEW t \in Handlers, ChangeStatus(t) PROVE InFlight'
  <2> DEFINE p == req[t].proc
  <2>1. p \in Procedures /\ proc[p].for = req[t].for
    BY <1>3 DEF Base, Carries, ChangeStatus
  <2>2. CASE proc' = proc
    BY <2>2 DEF InFlight, OpenFor, IsOpen
  <2>3. CASE proc' # proc
    <3>1. /\ proc' = [proc EXCEPT ![p].status = req[t].to]
          /\ req[t].to \in Finished \/ IndexAllows(p, req[t].for)
      BY <1>3, <2>3 DEF ChangeStatus
    <3>2. ASSUME NEW x \in Dependants PROVE \A q, r \in OpenFor(x)' : q = r
      <4>1. OpenFor(x)' \subseteq OpenFor(x) \cup (IF x = req[t].for THEN {p} ELSE {})
        BY <2>1, <3>1 DEF OpenFor, IsOpen, Base, Typed, Rows, Procedure
      <4>2. CASE req[t].to \in Finished
        <5>1. p \notin OpenFor(x)'
          BY <2>1, <3>1, <4>2 DEF OpenFor, IsOpen, Base, Typed, Rows, Procedure
        <5> QED BY <4>1, <5>1 DEF InFlight
      <4>3. CASE IndexAllows(p, req[t].for)
        <5>1. x = req[t].for => OpenFor(x) \subseteq {p}
          BY <4>3 DEF IndexAllows
        <5> QED BY <4>1, <5>1 DEF InFlight
      <4> QED BY <3>1, <4>2, <4>3
    <3> QED BY <3>2 DEF InFlight
  <2> QED BY <2>2, <2>3
<1>4. CASE \A t \in Handlers : /\ \A p \in Procedures : ~OpenForDocument(t, p) /\ ~CreateInsert(t, p)
                             /\ ~ChangeStatus(t)
  <2>1. \A p \in Procedures : proc'[p].status = proc[p].status /\ proc'[p].for = proc[p].for
    BY <1>4 DEF Base, Typed, Rows, Procedure, Next, Scan, Claim, Publish, ScanDone, CreateRead, RemoveRead,
       ChangeStatusRead, EffectRead, EffectWrite, Remove, CancelList, CancelRead, Fail,
       SetResult, EditExpiry, Tick
  <2> QED BY <2>1 DEF InFlight, OpenFor, IsOpen
<1> QED BY <1>1, <1>2, <1>3, <1>4

-----------------------------------------------------------------------------
(* Documents                                                               *)

\* A step that handles no alert, and opens nothing for d.
LEMMA OtherDocuments ==
  ASSUME NEW d \in Papers, Tracked(d), alerts' = alerts, Sourced(d)' = Sourced(d),
         \A u \in Handlers :
           \/ req'[u] = req[u]
           \/ u \notin Alerting(d) /\ u \notin Alerting(d)'
  PROVE  Tracked(d)'
<1>1. Alerting(d)' = Alerting(d) /\ \A u \in Alerting(d) : req'[u] = req[u]
  BY DEF Alerting, Doc
<1> QED BY <1>1 DEF Tracked

LEMMA TrackedClaim ==
  ASSUME Base, NEW t \in Handlers, Claim(t), NEW d \in Papers \ disturbed', Tracked(d)
  PROVE  Tracked(d)'
<1>1. /\ alerts' = alerts /\ proc' = proc /\ t \notin Alerting(d)
      /\ \A u \in Handlers \ {t} : req'[u] = req[u]
  BY DEF Claim, TakeTier, Skip, Alerting, Base, Typed
<1>2. Sourced(d)' = Sourced(d)
  BY <1>1 DEF Sourced
<1>3. CASE t \notin Alerting(d)'
  BY <1>1, <1>2, <1>3, OtherDocuments
<1>4. CASE t \in Alerting(d)'
  <2>1. req'[t] = Scanning("publish", req[t].asOf, req[t].next, Tier(t)) /\ (Alerting(Doc(t)) # {} => Doc(t) \in disturbed')
    BY <1>4 DEF Claim, TakeTier, Skip, Scanning, Alerting, Base, Typed
  <2>2. Doc(t) = d /\ Alerting(d) = {}
    BY <1>4, <2>1 DEF Alerting, Doc, Scanning
  <2>3. Alerting(d)' = {t} /\ req'[t].pc = "publish"
    BY <1>1, <1>4, <2>1, <2>2 DEF Alerting, Doc, Scanning
  <2> QED BY <1>1, <1>2, <2>2, <2>3 DEF Tracked
<1> QED BY <1>3, <1>4

LEMMA TrackedPublish ==
  ASSUME Base, NEW t \in Handlers, Publish(t), NEW d \in Papers \ disturbed', Tracked(d)
  PROVE  Tracked(d)'
<1>1. /\ proc' = proc /\ \A u \in Handlers \ {t} : req'[u] = req[u]
      /\ Doc(t) \in Papers /\ req[t].tier \in EXPIRY_THRESHOLDS
  BY ListedTier DEF Publish, Skip, Base, Typed, Carries, Handler
<1>2. Sourced(d)' = Sourced(d) /\ (ExistsForDocument(d) <=> Sourced(d) # {})
  BY <1>1 DEF Sourced, ExistsForDocument
<1>3. CASE Doc(t) # d
  <2>1. alerts'[d] = alerts[d] /\ t \notin Alerting(d)
    BY <1>1, <1>3 DEF Publish, Alerting, Base, Typed, Rows
  <2>2. t \notin Alerting(d)'
    BY <1>1, <1>3 DEF Publish, Skip, Scanning, Alerting, Base, Typed, Doc
  <2>3. Alerting(d)' = Alerting(d) /\ \A u \in Alerting(d) : req'[u] = req[u]
    BY <1>1, <2>1, <2>2 DEF Alerting, Doc
  <2> QED BY <1>2, <2>1, <2>3 DEF Tracked
<1>4. CASE Doc(t) = d
  <2>1. Alerting(d) = {t}
    BY <1>4 DEF Tracked, Alerting, Publish
  <2>2. CASE Opens(d)
    <3>1. req'[t] = Scanning("open", req[t].asOf, req[t].next, req[t].tier)
      BY <1>4, <2>2 DEF Publish, Base, Typed
    <3>2. Alerting(d)' = {t} /\ req'[t].pc = "open"
      BY <1>1, <1>4, <2>1, <3>1 DEF Alerting, Doc, Scanning
    <3> QED BY <1>2, <2>2, <3>2 DEF Tracked, Opens
  <2>3. CASE ~Opens(d)
    <3>1. req'[t].pc = "scan"
      BY <1>4, <2>3 DEF Publish, Skip, Scanning, Base, Typed
    <3>2. Alerting(d)' = {}
      BY <1>1, <2>1, <3>1 DEF Alerting, Doc
    <3> QED BY <1>2, <2>3, <3>2 DEF Tracked, Opens
  <2> QED BY <2>2, <2>3
<1> QED BY <1>3, <1>4

LEMMA TrackedOpen ==
  ASSUME Base, NEW t \in Handlers, NEW p \in Procedures, OpenForDocument(t, p),
         NEW d \in Papers \ disturbed', Tracked(d)
  PROVE  Tracked(d)'
<1>1. /\ alerts' = alerts /\ req'[t].pc = "scan" /\ \A u \in Handlers \ {t} : req'[u] = req[u]
      /\ proc' = [proc EXCEPT ![p] = Opened("not_started", EmployeeOf[Doc(t)], Doc(t))]
      /\ proc[p].source = NoDocument
  BY DEF OpenForDocument, Insert, Skip, Scanning, hist, Base, Typed, Unopened
<1>2. Alerting(d)' = Alerting(d) \ {t} /\ \A u \in Alerting(d) \ {t} : req'[u] = req[u]
  BY <1>1 DEF Alerting, Doc
<1>3. CASE Doc(t) # d
  <2>1. Sourced(d)' = Sourced(d) /\ t \notin Alerting(d) /\ t \notin Alerting(d)'
    BY <1>1, <1>2, <1>3, RenewalsAssumption DEF Sourced, Opened, Alerting, Base, Typed, Rows
  <2> QED BY <1>1, <2>1, OtherDocuments
<1>4. CASE Doc(t) = d
  <2>1. Alerting(d) = {t} /\ Sourced(d) = {}
    BY <1>4 DEF OpenForDocument, Tracked, Alerting
  <2>2. Sourced(d)' = {p}
    BY <1>1, <1>4, <2>1 DEF Sourced, Opened, Base, Typed, Rows
  <2> QED BY <1>1, <1>2, <2>1, <2>2 DEF Tracked
<1> QED BY <1>3, <1>4

LEMMA TrackedNext ==
  ASSUME Base, Next, NEW d \in Papers \ disturbed', Tracked(d)
  PROVE  Tracked(d)'
<1>1. ASSUME NEW t \in Handlers, NEW p \in Procedures, CreateInsert(t, p) PROVE Tracked(d)'
  <2>1. Sourced(d)' = Sourced(d)
    <3>1. CASE IndexAllows(p, req[t].for)
      <4>1. proc' = [proc EXCEPT ![p] = Opened("not_started", req[t].for, NoDocument)] /\ proc[p].source = NoDocument
        BY <1>1, <3>1 DEF CreateInsert, Insert, Base, Unopened
      <4>2. d # NoDocument
        BY RenewalsAssumption
      <4> QED BY <4>1, <4>2 DEF Opened, Sourced, Base, Typed, Rows
    <3>2. CASE ~IndexAllows(p, req[t].for)
      BY <1>1, <3>2 DEF CreateInsert, Sourced
    <3> QED BY <3>1, <3>2
  <2>2. alerts' = alerts /\ \A u \in Handlers \ {t} : req'[u] = req[u]
    BY <1>1 DEF CreateInsert, Finish, hist, Base, Typed
  <2>3. t \notin Alerting(d) /\ t \notin Alerting(d)'
    BY <1>1 DEF CreateInsert, Finish, Idle, Acting, Alerting, Base, Typed
  <2> QED BY <2>1, <2>2, <2>3, OtherDocuments
<1>2. ASSUME NEW t \in Handlers, ChangeStatus(t) PROVE Tracked(d)'
  <2>1. Sourced(d)' = Sourced(d)
    BY <1>2 DEF ChangeStatus, Sourced, Base, Typed, Rows, Procedure
  <2>2. alerts' = alerts /\ \A u \in Handlers \ {t} : req'[u] = req[u]
    BY <1>2 DEF ChangeStatus, Base, Typed
  <2>3. t \notin Alerting(d) /\ t \notin Alerting(d)'
    BY <1>2 DEF ChangeStatus, Idle, Acting, Alerting, Base, Typed
  <2> QED BY <2>1, <2>2, <2>3, OtherDocuments
<1>3. ASSUME NEW p \in Procedures, NEW v \in Dates \cup {NoDate}, SetResult(p, v) PROVE Tracked(d)'
  <2>1. Sourced(d)' = Sourced(d)
    BY <1>3 DEF SetResult, Sourced, Base, Typed, Rows, Procedure
  <2> QED BY <1>3, <2>1, OtherDocuments DEF SetResult, hist
<1>4. ASSUME NEW t \in Handlers, Fail(t) PROVE Tracked(d)'
  <2>1. proc' = proc /\ alerts' = alerts /\ \A u \in Handlers \ {t} : req'[u] = req[u]
    BY <1>4 DEF Fail, Finish, Base, Typed
  <2>2. t \notin Alerting(d) /\ t \notin Alerting(d)'
    BY <1>4 DEF Fail, Finish, Idle, Acting, Alerting, Base, Typed
  <2> QED BY <2>1, <2>2, OtherDocuments DEF Sourced
<1>5. ASSUME NEW t \in Handlers,
             Scan(t) \/ ScanDone(t) \/ EffectRead(t) \/ EffectWrite(t) \/ Remove(t) \/ CancelList(t) \/ CancelRead(t)
      PROVE  Tracked(d)'
  <2>1. proc' = proc /\ alerts' = alerts /\ \A u \in Handlers \ {t} : req'[u] = req[u]
    BY <1>5 DEF Scan, ScanDone, EffectRead, EffectWrite, Remove, CancelList, CancelRead, Finish, hist, Base, Typed
  <2>2. t \notin Alerting(d) /\ t \notin Alerting(d)'
    BY <1>5 DEF Scan, ScanDone, EffectRead, EffectWrite, Remove, CancelList, CancelRead, Finish, Idle, Acting,
       Scanning, Alerting, Base, Typed
  <2> QED BY <2>1, <2>2, OtherDocuments DEF Sourced
<1>6. ASSUME NEW t \in Handlers, NEW x \in People, CreateRead(t, x) \/ RemoveRead(t, x) PROVE Tracked(d)'
  <2>1. proc' = proc /\ alerts' = alerts /\ \A u \in Handlers \ {t} : req'[u] = req[u]
    BY <1>6 DEF CreateRead, RemoveRead, Begin, Base, Typed
  <2>2. t \notin Alerting(d) /\ t \notin Alerting(d)'
    BY <1>6 DEF CreateRead, RemoveRead, Begin, Idle, Acting, Alerting, Base, Typed
  <2> QED BY <2>1, <2>2, OtherDocuments DEF Sourced
<1>7. ASSUME NEW t \in Handlers, NEW p \in Procedures, NEW to \in Statuses, ChangeStatusRead(t, p, to)
      PROVE  Tracked(d)'
  <2>1. proc' = proc /\ alerts' = alerts /\ \A u \in Handlers \ {t} : req'[u] = req[u]
    BY <1>7 DEF ChangeStatusRead, Begin, Base, Typed
  <2>2. t \notin Alerting(d) /\ t \notin Alerting(d)'
    BY <1>7 DEF ChangeStatusRead, Begin, Idle, Acting, Alerting, Base, Typed
  <2> QED BY <2>1, <2>2, OtherDocuments DEF Sourced
<1>8. ASSUME NEW x \in People, NEW v \in Dates, EditExpiry(x, v) PROVE Tracked(d)'
  BY <1>8, OtherDocuments DEF EditExpiry, Sourced
<1>9. ASSUME NEW n \in Days, Tick(n) PROVE Tracked(d)'
  BY <1>9, OtherDocuments DEF Tick, hist, Sourced
<1> QED BY <1>1, <1>2, <1>3, <1>4, <1>5, <1>6, <1>7, <1>8, <1>9, TrackedClaim, TrackedPublish, TrackedOpen
        DEF Next

-----------------------------------------------------------------------------
(* People                                                                  *)

\* A step that is not about person x.
LEMMA Elsewhere ==
  ASSUME NEW x \in People, Kept(x),
         x \in removed' <=> x \in removed,
         x \in removed => OpenFor(x)' = OpenFor(x),
         \A u \in Handlers : AtWorkOn(u, x) \/ AtWorkOn(u, x)' => req'[u] = req[u]
  PROVE  Kept(x)'
<1>1. \A u \in Handlers : (AtWorkOn(u, x)' <=> AtWorkOn(u, x)) /\ (AtWorkOn(u, x) => req'[u] = req[u])
  BY DEF AtWorkOn
<1>3. Alone(x)'
  BY <1>1 DEF Kept, Alone
<1>4. Closing(x)'
  BY <1>1 DEF Kept, Closing
<1>5. \A u \in Handlers : AtWorkOn(u, x)' => Follows(x, u)'
  BY <1>1 DEF Kept, Follows
<1> QED BY <1>3, <1>4, <1>5 DEF Kept

LEMMA KeptCreateRead ==
  ASSUME Base, NEW t \in Handlers, NEW y \in People, CreateRead(t, y),
         NEW x \in People \ disturbed', Kept(x)
  PROVE  Kept(x)'
<1> USE RenewalsAssumption DEF CreateRead, Begin, hist, AtWorkOn, Acting, Idle
<1>0. Carries(t) /\ \A u \in Handlers \ {t} : req'[u] = req[u]
  BY DEF Base, Typed
<1>1. CASE req[t].for # x /\ req'[t].for # x
  <2>1. x \in removed' <=> x \in removed
    BY <1>0, <1>1 DEF Base, Typed, Rows, Carries
  <2>2. OpenFor(x)' = OpenFor(x)
    BY <1>0, <1>1 DEF OpenFor, IsOpen, Base, Typed, Rows, Procedure, Carries
  <2> QED BY <1>0, <1>1, <2>1, <2>2, Elsewhere
<1>2. CASE req[t].for = x \/ req'[t].for = x
  <2>1. \A u \in Handlers \ {t} : ~AtWorkOn(u, x) /\ req'[u] = req[u]
    BY <1>0, <1>2 DEF Base, Typed, Kept, Alone
  <2>2. Alone(x)'
    BY <2>1 DEF Alone
  <2>3. /\ req[t].for = x => Follows(x, t)
        /\ req[t].for # x => req[t] = Idle /\ (x \in removed => OpenFor(x) = {})
    BY <1>0, <1>2, <2>1 DEF Kept, Closing
  <2>4. req'[t].for = x => Follows(x, t)'
    BY <1>0, <1>2, <2>2, <2>3 DEF Base, Typed, Rows, Carries, Follows, OpenFor, IsOpen
  <2>5. Closing(x)'
    BY <1>0, <1>2, <2>1, <2>3 DEF Base, Typed, Rows, Procedure, Carries, Follows, Kept, Closing, OpenFor, IsOpen
  <2> QED BY <2>1, <2>2, <2>4, <2>5 DEF Kept
<1> QED BY <1>1, <1>2

LEMMA KeptRemoveRead ==
  ASSUME Base, NEW t \in Handlers, NEW y \in People, RemoveRead(t, y),
         NEW x \in People \ disturbed', Kept(x)
  PROVE  Kept(x)'
<1> USE RenewalsAssumption DEF RemoveRead, Begin, hist, AtWorkOn, Acting, Idle
<1>0. Carries(t) /\ \A u \in Handlers \ {t} : req'[u] = req[u]
  BY DEF Base, Typed
<1>1. CASE req[t].for # x /\ req'[t].for # x
  <2>1. x \in removed' <=> x \in removed
    BY <1>0, <1>1 DEF Base, Typed, Rows, Carries
  <2>2. OpenFor(x)' = OpenFor(x)
    BY <1>0, <1>1 DEF OpenFor, IsOpen, Base, Typed, Rows, Procedure, Carries
  <2> QED BY <1>0, <1>1, <2>1, <2>2, Elsewhere
<1>2. CASE req[t].for = x \/ req'[t].for = x
  <2>1. \A u \in Handlers \ {t} : ~AtWorkOn(u, x) /\ req'[u] = req[u]
    BY <1>0, <1>2 DEF Base, Typed, Kept, Alone
  <2>2. Alone(x)'
    BY <2>1 DEF Alone
  <2>3. /\ req[t].for = x => Follows(x, t)
        /\ req[t].for # x => req[t] = Idle /\ (x \in removed => OpenFor(x) = {})
    BY <1>0, <1>2, <2>1 DEF Kept, Closing
  <2>4. req'[t].for = x => Follows(x, t)'
    BY <1>0, <1>2, <2>2, <2>3 DEF Base, Typed, Rows, Carries, Follows, OpenFor, IsOpen
  <2>5. Closing(x)'
    BY <1>0, <1>2, <2>1, <2>3 DEF Base, Typed, Rows, Procedure, Carries, Follows, Kept, Closing, OpenFor, IsOpen
  <2> QED BY <2>1, <2>2, <2>4, <2>5 DEF Kept
<1> QED BY <1>1, <1>2

LEMMA KeptChangeStatusRead ==
  ASSUME Base, NEW t \in Handlers, NEW p \in Procedures, NEW to \in Statuses, ChangeStatusRead(t, p, to),
         NEW x \in People \ disturbed', Kept(x)
  PROVE  Kept(x)'
<1> USE RenewalsAssumption DEF ChangeStatusRead, Begin, hist, AtWorkOn, Acting, Idle
<1>0. Carries(t) /\ \A u \in Handlers \ {t} : req'[u] = req[u]
  BY DEF Base, Typed
<1>1. CASE req[t].for # x /\ req'[t].for # x
  <2>1. x \in removed' <=> x \in removed
    BY <1>0, <1>1 DEF Base, Typed, Rows, Carries
  <2>2. OpenFor(x)' = OpenFor(x)
    BY <1>0, <1>1 DEF OpenFor, IsOpen, Base, Typed, Rows, Procedure, Carries
  <2> QED BY <1>0, <1>1, <2>1, <2>2, Elsewhere
<1>2. CASE req[t].for = x \/ req'[t].for = x
  <2>1. \A u \in Handlers \ {t} : ~AtWorkOn(u, x) /\ req'[u] = req[u]
    BY <1>0, <1>2 DEF Base, Typed, Kept, Alone
  <2>2. Alone(x)'
    BY <2>1 DEF Alone
  <2>3. /\ req[t].for = x => Follows(x, t)
        /\ req[t].for # x => req[t] = Idle /\ (x \in removed => OpenFor(x) = {})
    BY <1>0, <1>2, <2>1 DEF Kept, Closing
  <2>4. req'[t].for = x => Follows(x, t)'
    <3>1. proc[p].status \in Statuses \ Finished
      BY StatusFacts DEF Base, Typed, Rows, Procedure
    <3>2. req'[t].for = x => x \notin removed
      BY <1>0, <1>2, <2>3, <3>1 DEF Base, Typed, OpenFor, IsOpen
    <3> QED BY <1>0, <1>2, <2>3, <3>2 DEF Base, Typed, Follows
  <2>5. Closing(x)'
    BY <1>0, <1>2, <2>1, <2>3 DEF Base, Typed, Rows, Procedure, Carries, Follows, Kept, Closing, OpenFor, IsOpen
  <2> QED BY <2>1, <2>2, <2>4, <2>5 DEF Kept
<1> QED BY <1>1, <1>2

LEMMA KeptCreateInsert ==
  ASSUME Base, NEW t \in Handlers, NEW p \in Procedures, CreateInsert(t, p),
         NEW x \in People \ disturbed', Kept(x)
  PROVE  Kept(x)'
<1> USE RenewalsAssumption DEF CreateInsert, Insert, Opened, Finish, hist, AtWorkOn, Acting, Idle
<1>0. Carries(t) /\ \A u \in Handlers \ {t} : req'[u] = req[u]
  BY DEF Base, Typed
<1>1. CASE req[t].for # x /\ req'[t].for # x
  <2>1. x \in removed' <=> x \in removed
    BY <1>0, <1>1 DEF Base, Typed, Rows, Carries
  <2>2. OpenFor(x)' = OpenFor(x)
    <3>1. CASE IndexAllows(p, req[t].for)
      <4>1. proc' = [proc EXCEPT ![p] = Opened("not_started", req[t].for, NoDocument)] /\ proc[p].status = "none"
        BY <3>1
      <4>2. \A q \in Procedures : IsOpen(q)' /\ proc'[q].for = x <=> IsOpen(q) /\ proc[q].for = x
        BY <1>1, <4>1 DEF IsOpen, Statuses, Base, Typed, Rows
      <4> QED BY <4>2 DEF OpenFor
    <3>2. CASE ~IndexAllows(p, req[t].for)
      BY <3>2 DEF OpenFor, IsOpen
    <3> QED BY <3>1, <3>2
  <2> QED BY <1>0, <1>1, <2>1, <2>2, Elsewhere
<1>2. CASE req[t].for = x \/ req'[t].for = x
  <2>1. \A u \in Handlers \ {t} : ~AtWorkOn(u, x) /\ req'[u] = req[u]
    BY <1>0, <1>2 DEF Base, Typed, Kept, Alone
  <2>2. Alone(x)'
    BY <2>1 DEF Alone
  <2>3. /\ req[t].for = x => Follows(x, t)
        /\ req[t].for # x => req[t] = Idle /\ (x \in removed => OpenFor(x) = {})
    BY <1>0, <1>2, <2>1 DEF Kept, Closing
  <2>4. req'[t].for = x => Follows(x, t)'
    BY <1>0, <1>2, <2>2, <2>3 DEF Base, Typed, Rows, Carries, Follows, OpenFor, IsOpen
  <2>5. Closing(x)'
    BY <1>0, <1>2, <2>1, <2>3 DEF Base, Typed, Rows, Procedure, Carries, Follows, Kept, Closing, OpenFor, IsOpen
  <2> QED BY <2>1, <2>2, <2>4, <2>5 DEF Kept
<1> QED BY <1>1, <1>2

LEMMA KeptChangeStatus ==
  ASSUME Base, InFlight, NEW t \in Handlers, ChangeStatus(t),
         NEW x \in People \ disturbed', Kept(x)
  PROVE  Kept(x)'
<1> USE RenewalsAssumption DEF ChangeStatus, hist, AtWorkOn, Acting, Idle
<1>0. Carries(t) /\ \A u \in Handlers \ {t} : req'[u] = req[u]
  BY DEF Base, Typed
<1>1. CASE req[t].for # x /\ req'[t].for # x
  <2>1. x \in removed' <=> x \in removed
    BY <1>0, <1>1 DEF Base, Typed, Rows, Carries
  <2>2. OpenFor(x)' = OpenFor(x)
    BY <1>0, <1>1 DEF OpenFor, IsOpen, Base, Typed, Rows, Procedure, Carries
  <2> QED BY <1>0, <1>1, <2>1, <2>2, Elsewhere
<1>2. CASE req[t].for = x \/ req'[t].for = x
  <2>1. \A u \in Handlers \ {t} : ~AtWorkOn(u, x) /\ req'[u] = req[u]
    BY <1>0, <1>2 DEF Base, Typed, Kept, Alone
  <2>2. Alone(x)'
    BY <2>1 DEF Alone
  <2>3. /\ req[t].for = x => Follows(x, t)
        /\ req[t].for # x => req[t] = Idle /\ (x \in removed => OpenFor(x) = {})
    BY <1>0, <1>2, <2>1 DEF Kept, Closing
  <2>for. req[t].for = x /\ req[t].pc = "move"
    BY <1>0, <1>2, RenewalsAssumption DEF Base, Typed
  <2>4. req'[t].for = x => Follows(x, t)'
    <3>1. CASE req'[t] = Idle
      BY <3>1
    <3>2. CASE req'[t] # Idle
      <4>1. req'[t].pc \in {"effect", "write"}
        BY <2>3, <3>2, <2>for DEF Base, Typed
      <4> QED BY <4>1 DEF Follows
    <3> QED BY <3>1, <3>2
  <2>5. Closing(x)'
    <3>1. CASE x \notin removed
      BY <3>1 DEF Closing
    <3>2. CASE x \in removed
      <4>1. req[t].to = "cancelled" /\ x \in Dependants
        BY <2>3, <2>for, <3>2 DEF Follows, Base, Typed, Rows
      <4>2. proc' = [proc EXCEPT ![req[t].proc].status = "cancelled"]
        BY <4>1 DEF Finished
      <4>3. OpenFor(x) \subseteq {req[t].proc}
        BY <2>1, <2>for, <3>2, <4>1 DEF Kept, Closing, InFlight
      <4>4. OpenFor(x)' = {}
        BY <1>0, <2>for, <4>2, <4>3 DEF OpenFor, IsOpen, Finished, Base, Typed, Rows, Procedure, Carries
      <4> QED BY <4>4 DEF Closing
    <3> QED BY <3>1, <3>2
  <2> QED BY <2>1, <2>2, <2>4, <2>5 DEF Kept
<1> QED BY <1>1, <1>2

LEMMA KeptEffectRead ==
  ASSUME Base, NEW t \in Handlers, EffectRead(t),
         NEW x \in People \ disturbed', Kept(x)
  PROVE  Kept(x)'
<1> USE RenewalsAssumption DEF EffectRead, hist, AtWorkOn, Acting, Idle
<1>0. Carries(t) /\ \A u \in Handlers \ {t} : req'[u] = req[u]
  BY DEF Base, Typed
<1>1. CASE req[t].for # x /\ req'[t].for # x
  <2>1. x \in removed' <=> x \in removed
    BY <1>0, <1>1 DEF Base, Typed, Rows, Carries
  <2>2. OpenFor(x)' = OpenFor(x)
    BY <1>0, <1>1 DEF OpenFor, IsOpen, Base, Typed, Rows, Procedure, Carries
  <2> QED BY <1>0, <1>1, <2>1, <2>2, Elsewhere
<1>2. CASE req[t].for = x \/ req'[t].for = x
  <2>1. \A u \in Handlers \ {t} : ~AtWorkOn(u, x) /\ req'[u] = req[u]
    BY <1>0, <1>2 DEF Base, Typed, Kept, Alone
  <2>2. Alone(x)'
    BY <2>1 DEF Alone
  <2>3. /\ req[t].for = x => Follows(x, t)
        /\ req[t].for # x => req[t] = Idle /\ (x \in removed => OpenFor(x) = {})
    BY <1>0, <1>2, <2>1 DEF Kept, Closing
  <2>4. req'[t].for = x => Follows(x, t)'
    BY <1>0, <1>2, <2>2, <2>3 DEF Base, Typed, Rows, Carries, Follows, OpenFor, IsOpen
  <2>5. Closing(x)'
    BY <1>0, <1>2, <2>1, <2>3 DEF Base, Typed, Rows, Procedure, Carries, Follows, Kept, Closing, OpenFor, IsOpen
  <2> QED BY <2>1, <2>2, <2>4, <2>5 DEF Kept
<1> QED BY <1>1, <1>2

LEMMA KeptEffectWrite ==
  ASSUME Base, NEW t \in Handlers, EffectWrite(t),
         NEW x \in People \ disturbed', Kept(x)
  PROVE  Kept(x)'
<1> USE RenewalsAssumption DEF EffectWrite, Finish, hist, AtWorkOn, Acting, Idle
<1>0. Carries(t) /\ \A u \in Handlers \ {t} : req'[u] = req[u]
  BY DEF Base, Typed
<1>1. CASE req[t].for # x /\ req'[t].for # x
  <2>1. x \in removed' <=> x \in removed
    BY <1>0, <1>1 DEF Base, Typed, Rows, Carries
  <2>2. OpenFor(x)' = OpenFor(x)
    BY <1>0, <1>1 DEF OpenFor, IsOpen, Base, Typed, Rows, Procedure, Carries
  <2> QED BY <1>0, <1>1, <2>1, <2>2, Elsewhere
<1>2. CASE req[t].for = x \/ req'[t].for = x
  <2>1. \A u \in Handlers \ {t} : ~AtWorkOn(u, x) /\ req'[u] = req[u]
    BY <1>0, <1>2 DEF Base, Typed, Kept, Alone
  <2>2. Alone(x)'
    BY <2>1 DEF Alone
  <2>3. /\ req[t].for = x => Follows(x, t)
        /\ req[t].for # x => req[t] = Idle /\ (x \in removed => OpenFor(x) = {})
    BY <1>0, <1>2, <2>1 DEF Kept, Closing
  <2>4. req'[t].for = x => Follows(x, t)'
    BY <1>0, <1>2, <2>2, <2>3 DEF Base, Typed, Rows, Carries, Follows, OpenFor, IsOpen
  <2>5. Closing(x)'
    BY <1>0, <1>2, <2>1, <2>3 DEF Base, Typed, Rows, Procedure, Carries, Follows, Kept, Closing, OpenFor, IsOpen
  <2> QED BY <2>1, <2>2, <2>4, <2>5 DEF Kept
<1> QED BY <1>1, <1>2

LEMMA KeptRemove ==
  ASSUME Base, NEW t \in Handlers, Remove(t),
         NEW x \in People \ disturbed', Kept(x)
  PROVE  Kept(x)'
<1> USE RenewalsAssumption DEF Remove, hist, AtWorkOn, Acting, Idle
<1>0. Carries(t) /\ \A u \in Handlers \ {t} : req'[u] = req[u]
  BY DEF Base, Typed
<1>1. CASE req[t].for # x /\ req'[t].for # x
  <2>1. x \in removed' <=> x \in removed
    BY <1>0, <1>1 DEF Base, Typed, Rows, Carries
  <2>2. OpenFor(x)' = OpenFor(x)
    BY <1>0, <1>1 DEF OpenFor, IsOpen, Base, Typed, Rows, Procedure, Carries
  <2> QED BY <1>0, <1>1, <2>1, <2>2, Elsewhere
<1>2. CASE req[t].for = x \/ req'[t].for = x
  <2>1. \A u \in Handlers \ {t} : ~AtWorkOn(u, x) /\ req'[u] = req[u]
    BY <1>0, <1>2 DEF Base, Typed, Kept, Alone
  <2>2. Alone(x)'
    BY <2>1 DEF Alone
  <2>3. /\ req[t].for = x => Follows(x, t)
        /\ req[t].for # x => req[t] = Idle /\ (x \in removed => OpenFor(x) = {})
    BY <1>0, <1>2, <2>1 DEF Kept, Closing
  <2>4. req'[t].for = x => Follows(x, t)'
    BY <1>0, <1>2, <2>2, <2>3 DEF Base, Typed, Rows, Carries, Follows, OpenFor, IsOpen
  <2>5. Closing(x)'
    BY <1>0, <1>2, <2>1, <2>3 DEF Base, Typed, Rows, Procedure, Carries, Follows, Kept, Closing, OpenFor, IsOpen
  <2> QED BY <2>1, <2>2, <2>4, <2>5 DEF Kept
<1> QED BY <1>1, <1>2

LEMMA KeptCancelList ==
  ASSUME Base, NEW t \in Handlers, CancelList(t),
         NEW x \in People \ disturbed', Kept(x)
  PROVE  Kept(x)'
<1> USE RenewalsAssumption DEF CancelList, Finish, hist, AtWorkOn, Acting, Idle
<1>0. Carries(t) /\ \A u \in Handlers \ {t} : req'[u] = req[u]
  BY DEF Base, Typed
<1>1. CASE req[t].for # x /\ req'[t].for # x
  <2>1. x \in removed' <=> x \in removed
    BY <1>0, <1>1 DEF Base, Typed, Rows, Carries
  <2>2. OpenFor(x)' = OpenFor(x)
    BY <1>0, <1>1 DEF OpenFor, IsOpen, Base, Typed, Rows, Procedure, Carries
  <2> QED BY <1>0, <1>1, <2>1, <2>2, Elsewhere
<1>2. CASE req[t].for = x \/ req'[t].for = x
  <2>1. \A u \in Handlers \ {t} : ~AtWorkOn(u, x) /\ req'[u] = req[u]
    BY <1>0, <1>2 DEF Base, Typed, Kept, Alone
  <2>2. Alone(x)'
    BY <2>1 DEF Alone
  <2>3. /\ req[t].for = x => Follows(x, t)
        /\ req[t].for # x => req[t] = Idle /\ (x \in removed => OpenFor(x) = {})
    <3>1. req[t].for = x
      BY <1>0, <1>2 DEF Base, Typed
    <3> QED BY <1>0, <1>2, <2>1, <3>1 DEF Kept
  <2>4. req'[t].for = x => Follows(x, t)'
    BY <1>0, <1>2, <2>2, <2>3 DEF Base, Typed, Rows, Carries, Follows, OpenFor, IsOpen
  <2>5. Closing(x)'
    BY <1>0, <1>2, <2>1, <2>3 DEF Base, Typed, Rows, Procedure, Carries, Follows, Kept, Closing, OpenFor, IsOpen
  <2> QED BY <2>1, <2>2, <2>4, <2>5 DEF Kept
<1> QED BY <1>1, <1>2

LEMMA KeptCancelRead ==
  ASSUME Base, NEW t \in Handlers, CancelRead(t),
         NEW x \in People \ disturbed', Kept(x)
  PROVE  Kept(x)'
<1> USE RenewalsAssumption DEF CancelRead, hist, AtWorkOn, Acting, Idle
<1>0. Carries(t) /\ \A u \in Handlers \ {t} : req'[u] = req[u]
  BY DEF Base, Typed
<1>1. CASE req[t].for # x /\ req'[t].for # x
  <2>1. x \in removed' <=> x \in removed
    BY <1>0, <1>1 DEF Base, Typed, Rows, Carries
  <2>2. OpenFor(x)' = OpenFor(x)
    BY <1>0, <1>1 DEF OpenFor, IsOpen, Base, Typed, Rows, Procedure, Carries
  <2> QED BY <1>0, <1>1, <2>1, <2>2, Elsewhere
<1>2. CASE req[t].for = x \/ req'[t].for = x
  <2>1. \A u \in Handlers \ {t} : ~AtWorkOn(u, x) /\ req'[u] = req[u]
    BY <1>0, <1>2 DEF Base, Typed, Kept, Alone
  <2>2. Alone(x)'
    BY <2>1 DEF Alone
  <2>3. /\ req[t].for = x => Follows(x, t)
        /\ req[t].for # x => req[t] = Idle /\ (x \in removed => OpenFor(x) = {})
    BY <1>0, <1>2, <2>1 DEF Kept, Closing
  <2>4. req'[t].for = x => Follows(x, t)'
    BY <1>0, <1>2, <2>2, <2>3 DEF Base, Typed, Rows, Carries, Follows, OpenFor, IsOpen
  <2>5. Closing(x)'
    <3>1. CASE OpenFor(x) = {} \/ x \notin removed
      BY <3>1 DEF Closing, OpenFor, IsOpen
    <3>2. CASE OpenFor(x) # {} /\ x \in removed
      <4>1. req[t].for = x /\ req[t].proc \in OpenFor(x)
        BY <1>2, <2>1, <3>2 DEF Kept, Closing
      <4>2. "cancelled" \in TRANSITIONS[proc[req[t].proc].status]
        BY <4>1, StatusFacts DEF OpenFor, IsOpen
      <4>3. req'[t] = Acting("move", x, req[t].proc, "cancelled", NoDate)
        BY <4>1, <4>2 DEF Base, Typed
      <4>4. OpenFor(x)' = OpenFor(x)
        BY DEF OpenFor, IsOpen
      <4> QED BY <4>1, <4>3, <4>4 DEF Closing
    <3> QED BY <3>1, <3>2
  <2> QED BY <2>1, <2>2, <2>4, <2>5 DEF Kept
<1> QED BY <1>1, <1>2

LEMMA KeptFail ==
  ASSUME Base, NEW t \in Handlers, Fail(t), NEW x \in People \ disturbed', Kept(x)
  PROVE  Kept(x)'
<1>1. req[t].for # x
  <2>1. req[t].pc \in {"publish", "open"} => req[t].for = NoOne
    BY DEF Base, Carries
  <2> QED BY <2>1, RenewalsAssumption DEF Fail
<1>2. ~AtWorkOn(t, x) /\ req'[t] = Idle
  BY <1>1, RenewalsAssumption DEF AtWorkOn, Fail, Finish, Base, Typed
<1>3. \A u \in Handlers : AtWorkOn(u, x) \/ AtWorkOn(u, x)' => req'[u] = req[u]
  BY <1>2, RenewalsAssumption DEF AtWorkOn, Fail, Finish, Idle, Acting, Base, Typed
<1> QED BY <1>3, Elsewhere DEF Fail, OpenFor, IsOpen

LEMMA KeptEditExpiry ==
  ASSUME Base, NEW y \in People, NEW v \in Dates, EditExpiry(y, v),
         NEW x \in People \ disturbed', Kept(x)
  PROVE  Kept(x)'
BY Elsewhere DEF EditExpiry, OpenFor, IsOpen

LEMMA KeptSetResult ==
  ASSUME Base, NEW p \in Procedures, NEW v \in Dates \cup {NoDate}, SetResult(p, v), NEW x \in People, Kept(x)
  PROVE  Kept(x)'
<1>1. OpenFor(x)' = OpenFor(x)
  BY DEF SetResult, OpenFor, IsOpen, Base, Typed, Rows, Procedure
<1> QED BY <1>1, Elsewhere DEF SetResult, hist

\* The steps of a scan are not at work on a person.
LEMMA KeptScan ==
  ASSUME Base, NEW t \in Handlers, Scan(t) \/ Claim(t) \/ Publish(t) \/ ScanDone(t),
         NEW x \in People, Kept(x)
  PROVE  Kept(x)'
<1>1. /\ removed' = removed /\ proc' = proc
      /\ \A u \in Handlers \ {t} : req'[u] = req[u]
  BY DEF Scan, Claim, Publish, ScanDone, TakeTier, Skip, Finish, hist, Base, Typed
<1>2. req[t].for = NoOne
  BY DEF Scan, Claim, Publish, ScanDone, Idle, Acting, Base, Carries
<1>3. req'[t].for = NoOne
  BY DEF Scan, Claim, Publish, ScanDone, TakeTier, Skip, Finish, Scanning, Idle, Acting, Base, Typed
<1> QED BY <1>1, <1>2, <1>3, Elsewhere, RenewalsAssumption DEF AtWorkOn, OpenFor, IsOpen

LEMMA KeptOpenForDocument ==
  ASSUME Base, NEW t \in Handlers, NEW p \in Procedures, OpenForDocument(t, p), NEW x \in People, Kept(x)
  PROVE  Kept(x)'
<1>1. /\ removed' = removed
      /\ \A u \in Handlers \ {t} : req'[u] = req[u]
      /\ req[t].for = NoOne /\ req'[t].for = NoOne
  BY DEF OpenForDocument, Skip, Scanning, hist, Base, Typed, Carries
<1>2. Doc(t) \in Papers /\ EmployeeOf[Doc(t)] \in Employees
  BY ListedTier, RenewalsAssumption DEF Base, Carries, OpenForDocument
<1>3. proc' = [proc EXCEPT ![p] = Opened("not_started", EmployeeOf[Doc(t)], Doc(t))] /\ proc[p].status = "none"
  BY DEF OpenForDocument, Insert
<1>4. ASSUME x \in removed PROVE OpenFor(x)' = OpenFor(x)
  <2>1. EmployeeOf[Doc(t)] # x
    BY <1>2, <1>4, RenewalsAssumption DEF Base, Typed, Rows
  <2>2. \A q \in Procedures : IsOpen(q)' /\ proc'[q].for = x <=> IsOpen(q) /\ proc[q].for = x
    BY <1>3, <2>1 DEF Opened, IsOpen, Statuses, Base, Typed, Rows
  <2> QED BY <2>2 DEF OpenFor
<1> QED BY <1>1, <1>4, Elsewhere, RenewalsAssumption DEF AtWorkOn

LEMMA KeptNext ==
  ASSUME Base, InFlight, Next, NEW x \in People \ disturbed', Kept(x)
  PROVE  Kept(x)'
<1>1. ASSUME NEW n \in Days, Tick(n) PROVE Kept(x)'
  BY <1>1, Elsewhere DEF Tick, hist, OpenFor, IsOpen
<1> QED BY <1>1, KeptScan, KeptOpenForDocument, KeptCreateRead, KeptRemoveRead, KeptChangeStatusRead,
        KeptCreateInsert, KeptChangeStatus, KeptEffectRead, KeptEffectWrite, KeptRemove, KeptCancelList,
        KeptCancelRead, KeptFail, KeptSetResult, KeptEditExpiry DEF Next

-----------------------------------------------------------------------------
(* Dates                                                                   *)

\* A step that neither enters nor writes a date of x.
LEMMA NoDateOf ==
  ASSUME NEW x \in People, Dated(x), expiry'[x] = expiry[x], renewed'[x] = renewed[x],
         Writing(x)' = Writing(x), \A u \in Writing(x) : req'[u].date = req[u].date
  PROVE  Dated(x)'
BY DEF Dated

\* The step of a handler that had no date to write, and has none.
LEMMA NothingToWrite ==
  ASSUME NEW x \in People, Dated(x), expiry'[x] = expiry[x], renewed'[x] = renewed[x],
         NEW t \in Handlers, \A u \in Handlers \ {t} : req'[u] = req[u],
         ~(req[t].for = x /\ req[t].pc \in {"effect", "write"}),
         ~(req'[t].for = x /\ req'[t].pc \in {"effect", "write"})
  PROVE  Dated(x)'
<1>1. Writing(x)' = Writing(x) /\ t \notin Writing(x)
  BY DEF Writing, AtWorkOn
<1>2. \A u \in Writing(x) : req'[u] = req[u]
  BY <1>1 DEF Writing
<1> QED BY <1>1, <1>2, NoDateOf

LEMMA DatedChangeStatus ==
  ASSUME Base, NEW t \in Handlers, ChangeStatus(t),
         NEW x \in People \ (removed \cup overtaken'), Dated(x)
  PROVE  Dated(x)'
<1>1. /\ Carries(t) /\ req[t].pc = "move" /\ expiry' = expiry
      /\ \A u \in Handlers \ {t} : req'[u] = req[u]
  BY DEF ChangeStatus, Base, Typed
<1>2. CASE req[t].for # x
  <2>1. renewed'[x] = renewed[x] /\ req'[t].for # x
    BY <1>1, <1>2, RenewalsAssumption DEF ChangeStatus, Acting, Idle, Base, Typed, Rows
  <2> QED BY <1>1, <1>2, <2>1, NothingToWrite
<1>3. CASE req[t].for = x /\ ~Writes(t)
  <2>1. renewed' = renewed /\ req'[t] = Idle
    BY <1>3 DEF ChangeStatus, Writes, Base, Typed
  <2>2. req'[t].pc = "idle"
    BY <2>1 DEF Idle, Acting
  <2> QED BY <1>1, <2>1, <2>2, NothingToWrite
<1>4. CASE req[t].for = x /\ Writes(t)
  <2>1. req[t].to = "completed" /\ proc[req[t].proc].result # NoDate
    BY <1>4 DEF Writes
  <2>2. /\ renewed' = [renewed EXCEPT ![x] = proc[req[t].proc].result]
        /\ overtaken' = IF Writing(x) # {} THEN overtaken \cup {x} ELSE overtaken
        /\ req'[t] = Acting(IF x \in Dependants THEN "effect" ELSE "write", x, NoProcedure, "none",
                           proc[req[t].proc].result)
    BY <1>4, <2>1 DEF ChangeStatus, Overtakes, Finished, Base, Typed
  <2>3. Writing(x) = {} /\ renewed'[x] = proc[req[t].proc].result
    BY <2>2 DEF Base, Typed, Rows
  <2>4. req'[t].for = x /\ req'[t].pc \in {"effect", "write"} /\ req'[t].date = proc[req[t].proc].result
    BY <2>2 DEF Acting
  <2>5. Writing(x)' = {t}
    BY <1>1, <2>3, <2>4 DEF Writing, AtWorkOn
  <2> QED BY <2>3, <2>4, <2>5 DEF Dated
<1> QED BY <1>2, <1>3, <1>4

LEMMA DatedEffectRead ==
  ASSUME Base, NEW t \in Handlers, EffectRead(t), NEW x \in People \ removed, Dated(x)
  PROVE  Dated(x)'
<1>1. /\ req[t].pc = "effect" /\ expiry' = expiry /\ renewed' = renewed
      /\ \A u \in Handlers \ {t} : req'[u] = req[u]
  BY DEF EffectRead, hist, Base, Typed
<1>2. CASE req[t].for # x
  <2>1. req'[t].for # x
    BY <1>2, RenewalsAssumption DEF EffectRead, Acting, Idle, Base, Typed
  <2> QED BY <1>1, <1>2, <2>1, NothingToWrite
<1>3. CASE req[t].for = x
  <2>1. req'[t] = Acting("write", x, NoProcedure, "none", req[t].date)
    BY <1>3 DEF EffectRead, Base, Typed
  <2>2. req'[t].for = x /\ req'[t].pc = "write" /\ req'[t].date = req[t].date
    BY <2>1 DEF Acting
  <2>3. Writing(x)' = Writing(x)
    BY <1>1, <1>3, <2>2 DEF Writing, AtWorkOn
  <2>4. \A u \in Writing(x) : req'[u].date = req[u].date
    BY <1>1, <2>2 DEF Writing
  <2> QED BY <1>1, <2>3, <2>4, NoDateOf
<1> QED BY <1>2, <1>3

LEMMA DatedEffectWrite ==
  ASSUME Base, NEW t \in Handlers, EffectWrite(t), NEW x \in People \ removed, Dated(x)
  PROVE  Dated(x)'
<1>1. /\ req[t].pc = "write" /\ renewed' = renewed
      /\ \A u \in Handlers \ {t} : req'[u] = req[u]
  BY DEF EffectWrite, Finish, hist, Base, Typed
<1>2. req'[t].for # x
  BY RenewalsAssumption DEF EffectWrite, Finish, Acting, Idle, Base, Typed
<1>3. CASE req[t].for # x
  <2>1. expiry'[x] = expiry[x]
    BY <1>3 DEF EffectWrite, Base, Typed, Rows
  <2> QED BY <1>1, <1>2, <1>3, <2>1, NothingToWrite
<1>4. CASE req[t].for = x
  <2>1. t \in Writing(x)
    BY <1>1, <1>4 DEF Writing, AtWorkOn
  <2>2. Writing(x) = {t} /\ req[t].date = renewed[x]
    BY <2>1 DEF Dated
  <2>3. Writing(x)' = {}
    BY <1>1, <1>2, <2>2 DEF Writing, AtWorkOn
  <2>4. expiry'[x] = renewed[x]
    BY <1>4, <2>2 DEF EffectWrite, Base, Typed, Rows
  <2> QED BY <1>1, <2>3, <2>4 DEF Dated
<1> QED BY <1>3, <1>4

LEMMA DatedFail ==
  ASSUME Base, NEW t \in Handlers, Fail(t), NEW x \in People \ overtaken', Dated(x)
  PROVE  Dated(x)'
<1>1. /\ expiry' = expiry /\ renewed' = renewed /\ req'[t].pc = "idle"
      /\ \A u \in Handlers \ {t} : req'[u] = req[u]
  BY DEF Fail, Finish, Idle, Acting, Base, Typed
<1>2. ~(req[t].for = x /\ req[t].pc \in {"effect", "write"})
  BY DEF Fail
<1> QED BY <1>1, <1>2, NothingToWrite

LEMMA DatedEditExpiry ==
  ASSUME Base, NEW y \in People, NEW v \in Dates, EditExpiry(y, v),
         NEW x \in People \ overtaken', Dated(x)
  PROVE  Dated(x)'
<1>1. Writing(x)' = Writing(x) /\ req' = req
  BY DEF EditExpiry, Writing, AtWorkOn
<1>2. CASE y # x
  <2>1. expiry'[x] = expiry[x] /\ renewed'[x] = renewed[x]
    BY <1>2 DEF EditExpiry, Base, Typed, Rows
  <2> QED BY <1>1, <2>1, NoDateOf
<1>3. CASE y = x
  <2>1. Writing(x) = {} /\ expiry'[x] = renewed'[x]
    BY <1>3 DEF EditExpiry, Overtakes, Base, Typed, Rows
  <2> QED BY <1>1, <2>1 DEF Dated
<1> QED BY <1>2, <1>3

LEMMA DatedNext ==
  ASSUME Base, Next, NEW x \in People \ (removed \cup overtaken'), Dated(x)
  PROVE  Dated(x)'
<1>1. ASSUME NEW t \in Handlers,
             \/ Scan(t) \/ Claim(t) \/ Publish(t) \/ ScanDone(t)
             \/ Remove(t) \/ CancelList(t) \/ CancelRead(t)
      PROVE  Dated(x)'
  <2>1. expiry' = expiry /\ renewed' = renewed /\ \A u \in Handlers \ {t} : req'[u] = req[u]
    BY <1>1 DEF Scan, Claim, Publish, ScanDone, Remove, CancelList, CancelRead, TakeTier, Skip, Finish, hist, Base, Typed
  <2>2. req[t].pc \notin {"effect", "write"}
    BY <1>1 DEF Scan, Claim, Publish, ScanDone, Remove, CancelList, CancelRead, Idle, Acting
  <2>3. req'[t].pc \notin {"effect", "write"}
    BY <1>1 DEF Scan, Claim, Publish, ScanDone, Remove, CancelList, CancelRead, TakeTier, Skip, Finish, Idle, Acting, Scanning, Base, Typed
  <2> QED BY <2>1, <2>2, <2>3, NothingToWrite
<1>2. ASSUME NEW t \in Handlers, NEW p \in Procedures, OpenForDocument(t, p) \/ CreateInsert(t, p)
      PROVE  Dated(x)'
  <2>1. expiry' = expiry /\ renewed' = renewed /\ \A u \in Handlers \ {t} : req'[u] = req[u]
    BY <1>2 DEF OpenForDocument, CreateInsert, Skip, Finish, hist, Base, Typed
  <2>2. req[t].pc \notin {"effect", "write"}
    BY <1>2 DEF OpenForDocument, CreateInsert
  <2>3. req'[t].pc \notin {"effect", "write"}
    BY <1>2 DEF OpenForDocument, CreateInsert, Skip, Finish, Idle, Acting, Scanning, Base, Typed
  <2> QED BY <2>1, <2>2, <2>3, NothingToWrite
<1>3. ASSUME NEW t \in Handlers, NEW y \in People, CreateRead(t, y) \/ RemoveRead(t, y)
      PROVE  Dated(x)'
  <2>1. /\ expiry' = expiry /\ renewed' = renewed /\ \A u \in Handlers \ {t} : req'[u] = req[u]
        /\ req[t].pc = "idle" /\ req'[t].pc \in {"create", "remove"}
    BY <1>3 DEF CreateRead, RemoveRead, Begin, Idle, Acting, Base, Typed
  <2> QED BY <2>1, NothingToWrite
<1>4. ASSUME NEW t \in Handlers, NEW p \in Procedures, NEW to \in Statuses, ChangeStatusRead(t, p, to)
      PROVE  Dated(x)'
  <2>1. /\ expiry' = expiry /\ renewed' = renewed /\ \A u \in Handlers \ {t} : req'[u] = req[u]
        /\ req[t].pc = "idle" /\ req'[t].pc = "move"
    BY <1>4 DEF ChangeStatusRead, Begin, Idle, Acting, Base, Typed
  <2> QED BY <2>1, NothingToWrite
<1>5. ASSUME req' = req, expiry' = expiry, renewed' = renewed PROVE Dated(x)'
  <2>1. Writing(x)' = Writing(x)
    BY <1>5 DEF Writing, AtWorkOn
  <2> QED BY <1>5, <2>1, NoDateOf
<1>6. ASSUME NEW p \in Procedures, NEW v \in Dates \cup {NoDate}, SetResult(p, v) PROVE Dated(x)'
  BY <1>5, <1>6 DEF SetResult, hist
<1>7. ASSUME NEW n \in Days, Tick(n) PROVE Dated(x)'
  BY <1>5, <1>7 DEF Tick, hist
<1> QED BY <1>1, <1>2, <1>3, <1>4, <1>6, <1>7, DatedChangeStatus, DatedEffectRead, DatedEffectWrite,
        DatedFail, DatedEditExpiry DEF Next

-----------------------------------------------------------------------------
(* Together                                                                *)

LEMMA BaseNext ==
  ASSUME Base, Next
  PROVE  Base'
BY BaseScan, BaseClaim, BasePublish, BaseScanDone, BaseOpenForDocument, BaseCreateRead,
   BaseCreateInsert, BaseSetResult, BaseChangeStatusRead, BaseChangeStatus, BaseEffectRead, BaseEffectWrite,
   BaseRemoveRead, BaseRemove, BaseCancelList, BaseCancelRead, BaseEditExpiry, BaseTick,
   BaseFail DEF Next

\* Who is off file, disturbed or overtaken stays it.
OnlyMore == disturbed \subseteq disturbed' /\ overtaken \subseteq overtaken' /\ removed \subseteq removed'

LEMMA OnlyGrow ==
  ASSUME Next
  PROVE  OnlyMore
<1> USE DEF OnlyMore, hist, Begin, TakeTier, Overtakes
<1>1. ASSUME NEW t \in Handlers,
             \/ Scan(t) \/ Claim(t) \/ Publish(t) \/ ScanDone(t) \/ ChangeStatus(t) \/ EffectRead(t)
             \/ EffectWrite(t) \/ Remove(t) \/ CancelList(t) \/ CancelRead(t)
      PROVE  OnlyMore
  BY <1>1 DEF Scan, Claim, Publish, ScanDone, ChangeStatus, EffectRead, EffectWrite, Remove, CancelList, CancelRead
<1>2. ASSUME NEW t \in Handlers, Fail(t) PROVE OnlyMore
  BY <1>2 DEF Fail
<1>3. ASSUME NEW t \in Handlers, NEW p \in Procedures, OpenForDocument(t, p) \/ CreateInsert(t, p)
      PROVE  OnlyMore
  BY <1>3 DEF OpenForDocument, CreateInsert
<1>4. ASSUME NEW t \in Handlers, NEW x \in People, CreateRead(t, x) \/ RemoveRead(t, x)
      PROVE  OnlyMore
  BY <1>4 DEF CreateRead, RemoveRead
<1>5. ASSUME NEW t \in Handlers, NEW p \in Procedures, NEW to \in Statuses, ChangeStatusRead(t, p, to)
      PROVE  OnlyMore
  BY <1>5 DEF ChangeStatusRead
<1>6. ASSUME NEW p \in Procedures, NEW v \in Dates \cup {NoDate}, SetResult(p, v) PROVE OnlyMore
  BY <1>6 DEF SetResult
<1>7. ASSUME NEW x \in People, NEW v \in Dates, EditExpiry(x, v) PROVE OnlyMore
  BY <1>7 DEF EditExpiry
<1>8. ASSUME NEW n \in Days, Tick(n) PROVE OnlyMore
  BY <1>8 DEF Tick
<1> QED BY <1>1, <1>2, <1>3, <1>4, <1>5, <1>6, <1>7, <1>8 DEF Next

LEMMA Inductive == IInv /\ [Next]_vars => IInv'
<1> SUFFICES ASSUME IInv, [Next]_vars PROVE IInv'
  OBVIOUS
<1>1. CASE Next
  <2>1. Base' /\ Claims' /\ InFlight' /\ OnlyMore
    BY <1>1, BaseNext, ClaimsNext, InFlightNext, OnlyGrow DEF IInv
  <2>2. \A d \in Papers \ disturbed' : Tracked(d)'
    BY <1>1, <2>1, TrackedNext DEF IInv, OnlyMore
  <2>3. \A x \in People \ disturbed' : Kept(x)'
    BY <1>1, <2>1, KeptNext DEF IInv, OnlyMore
  <2>4. \A x \in People \ (removed' \cup overtaken') : Dated(x)'
    BY <1>1, <2>1, DatedNext DEF IInv, OnlyMore
  <2> QED BY <2>1, <2>2, <2>3, <2>4 DEF IInv
<1>2. CASE UNCHANGED vars
  <2> USE <1>2 DEF vars, hist
  <2>1. Base'
    BY DEF IInv, Base, Typed, Rows, Unopened, Carries, Listed, Doc
  <2>2. Claims' /\ InFlight'
    BY DEF IInv, Claims, Publishing, Doc, InFlight, OpenFor, IsOpen
  <2>3. ASSUME NEW d \in Papers \ disturbed' PROVE Tracked(d)'
    <3>1. Tracked(d)
      BY <2>3 DEF IInv
    <3> QED BY <3>1, OtherDocuments DEF Sourced
  <2>4. ASSUME NEW x \in People \ disturbed' PROVE Kept(x)'
    <3>1. Kept(x)
      BY <2>4 DEF IInv
    <3> QED BY <3>1, Elsewhere DEF OpenFor, IsOpen
  <2>5. ASSUME NEW x \in People \ (removed' \cup overtaken') PROVE Dated(x)'
    BY <2>5 DEF IInv, Dated, Writing, AtWorkOn
  <2> QED BY <2>1, <2>2, <2>3, <2>4, <2>5 DEF IInv
<1> QED BY <1>1, <1>2

LEMMA Initially == Init => IInv
<1> SUFFICES ASSUME Init PROVE IInv
  OBVIOUS
<1>1. Base /\ \A t \in Handlers : req[t].pc = "idle" /\ req[t].for = NoOne
  BY BaseInit DEF Init, Idle, Acting
<1>2. \A p \in Procedures : proc[p].status = "none" /\ proc[p].source = NoDocument
  BY DEF Init, NotOpened, Opened
<1>3. \A d, n : Publishing(d, n) = {} /\ Alerting(d) = {}
  BY <1>1 DEF Publishing, Alerting
<1>4. Claims
  BY <1>3 DEF Init, Claims
<1>5. \A x : OpenFor(x) = {}
  BY <1>2 DEF OpenFor, IsOpen, Statuses
<1>6. InFlight
  BY <1>5 DEF InFlight
<1>7. ASSUME NEW d \in Papers PROVE Tracked(d)
  <2>1. Sourced(d) = {} /\ \A n \in EXPIRY_THRESHOLDS : alerts[d][n] = 0
    BY <1>2, RenewalsAssumption DEF Sourced, Init
  <2> QED BY <1>3, <2>1 DEF Tracked
<1>8. ASSUME NEW x \in People PROVE Kept(x)
  <2>1. \A t \in Handlers : ~AtWorkOn(t, x)
    BY <1>1, RenewalsAssumption DEF AtWorkOn
  <2> QED BY <1>5, <2>1 DEF Kept, Alone, Closing
<1>9. ASSUME NEW x \in People PROVE Dated(x)
  BY <1>1 DEF Dated, Writing, Init
<1> QED BY <1>1, <1>4, <1>6, <1>7, <1>8, <1>9 DEF IInv

LEMMA Always == Spec => []IInv
BY Initially, Inductive, PTL DEF Spec

\* Every variable holds a value of its type, and a handler at work carries what its
\* next statement uses.
THEOREM Typing == Spec => []TypeOK
<1>1. IInv => TypeOK
  BY DEF IInv, Base, Typed, Rows, TypeOK, Procedure, Handler, Pcs
<1> QED BY <1>1, Always, PTL

\* No tier of a document is announced twice, whatever scans overlap or stop: the
\* index on exp_alerts lets one handler through, and what it claimed stays claimed.
THEOREM TierAnnouncedOnce == Spec => []AlertOnce
<1>1. IInv => AlertOnce
  BY DEF IInv, Claims, AlertOnce
<1> QED BY <1>1, Always, PTL

\* A document that was announced has its one procedure, though its event comes
\* once per tier and the handler looks first and inserts after.
THEOREM OneProcedurePerDocument == Spec => []TrackedOnce
<1>1. ASSUME IInv, NEW d \in Renewable \ disturbed, EmployeeOf[d] # NoOne, Alerting(d) = {},
             \E n \in EXPIRY_THRESHOLDS : alerts[d][n] > 0
      PROVE  Cardinality({p \in Procedures : proc[p].source = d}) = 1
  <2>1. d \in Papers /\ Tracked(d)
    BY <1>1, RenewalsAssumption DEF IInv
  <2>2. PICK p \in Procedures : Sourced(d) = {p}
    BY <1>1, <2>1 DEF Tracked, Sourced
  <2> QED BY <2>2, FS_Singleton DEF Sourced
<1>2. IInv => TrackedOnce
  BY <1>1 DEF TrackedOnce
<1> QED BY <1>2, Always, PTL

\* However procedures are created, moved by id and cancelled, the partial index
\* leaves a dependant one open renewal.
THEOREM OneInFlight == Spec => []OneOpenRenewal
<1>1. ASSUME IInv, NEW x \in Dependants PROVE Cardinality(OpenFor(x)) <= 1
  <2>1. \A p, q \in OpenFor(x) : p = q
    BY <1>1 DEF IInv, InFlight
  <2>2. CASE OpenFor(x) = {}
    BY <2>2, FS_EmptySet
  <2>3. CASE OpenFor(x) # {}
    <3>1. PICK p : OpenFor(x) = {p}
      BY <2>1, <2>3
    <3>2. Cardinality(OpenFor(x)) = 1
      BY <3>1, FS_Singleton
    <3> QED BY <3>2
  <2> QED BY <2>2, <2>3
<1>2. IInv => OneOpenRenewal
  BY <1>1 DEF OneOpenRenewal
<1> QED BY <1>2, Always, PTL

\* Once a dependant is off file and nobody is at work on them, nothing is open for
\* them, wherever the cancellation found the procedure.
THEOREM RemovalCloses == Spec => []RemovedClosed
<1>1. ASSUME IInv, NEW x \in removed \ disturbed, \A t \in Handlers : ~AtWorkOn(t, x)
      PROVE  OpenFor(x) = {}
  <2>1. x \in People /\ Kept(x)
    BY <1>1 DEF IInv, Base, Typed, Rows, People
  <2> QED BY <1>1, <2>1 DEF Kept, Closing
<1>2. IInv => RemovedClosed
  BY <1>1 DEF RemovedClosed
<1> QED BY <1>2, Always, PTL

\* The record of a person on file shows the expiry last entered once every effect
\* that follows a completion's commit has run, whatever else is done for the person
\* or to the procedure meanwhile, unless a date was entered between a commit and its
\* effect or an effect was lost.
THEOREM RecordFollows == Spec => []ExpiryFollows
<1>1. IInv => ExpiryFollows
  BY DEF IInv, ExpiryFollows, Dated
<1> QED BY <1>1, Always, PTL
=============================================================================
