----------------------------- MODULE MCUploads -----------------------------
(***************************************************************************)
(* A document, a fee with keys for two receipts, two files of a request    *)
(* that may carry one; three handlers.                                     *)
(***************************************************************************)
EXTENDS Uploads, TLC

CONSTANTS d1, f1, a1, a2, k1, k2, h1, h2, h3

Alike == Permutations({a1, a2}) \cup Permutations({k1, k2}) \cup Permutations({h1, h2, h3})

Untouched(items) == /\ \A x \in items : row[x].status = "none"
                    /\ \A x \in items \cap Fees, k \in Keys : link[k] = "none"
                    /\ \A t \in Handlers : req[t].item \notin items

\* Bound: the three kinds of item, which share no row and no key, are explored one
\* at a time.
OneKind ==
  \/ Untouched(Docs) /\ Untouched(Fees)
  \/ Untouched(Docs) /\ Untouched(Files)
  \/ Untouched(Fees) /\ Untouched(Files)

Busy == {t \in Handlers : req[t] # Idle}

\* Bound: checked bytes are replaced under one key at most, and two handlers at most
\* are at work on files.
Bounded ==
  /\ OneKind
  /\ Cardinality(replaced) <= 1
  /\ ~Untouched(Files) => Cardinality(Busy) <= 2
=============================================================================
