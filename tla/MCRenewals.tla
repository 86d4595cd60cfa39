----------------------------- MODULE MCRenewals -----------------------------
(***************************************************************************)
(* An employee with a residence permit that expires on day 60, in two of   *)
(* its tiers on the days that are looked at, and a visa filed under the    *)
(* company, of no employee, out of the window at first; a dependant; two   *)
(* procedures and two handlers.                                            *)
(***************************************************************************)
EXTENDS Renewals, TLC

CONSTANTS e1, c1, iqama, visa, p1, p2, h1, h2, y1, y2

MCDocuments == <<iqama, visa>>
MCExpiry == (iqama :> 60) @@ (visa :> 100)
MCEmployeeOf == (iqama :> e1) @@ (visa :> NoOne)

Alike == Permutations({p1, p2}) \cup Permutations({h1, h2})
           \cup Permutations({y1, y2})

Untouched(people) ==
  /\ \A x \in people : renewed[x] = expiry[x] /\ x \notin removed \cup disturbed \cup overtaken
  /\ \A t \in Handlers : req[t].for \notin people
  /\ \A p \in Procedures : proc[p].for \notin people

\* Bound: the employee, with the scan, and the dependant, who meet only in the ids
\* of procedures, are explored one at a time.
Apart ==
  \/ Untouched(Employees) /\ day = 1 /\ \A d \in Papers : claimed[d] = {}
  \/ Untouched(Dependants)

\* Bound: of one document or person two handlers get in each other's way, or one
\* stops halfway.
FewDisturbances == Cardinality(disturbed \cup overtaken) <= 1
=============================================================================
