--------------------------- MODULE MCRequestDesk ---------------------------
(***************************************************************************)
(* One request, since no rule relates two, over three working days: a wait *)
(* of up to two days, or two waits.  Two handlers at once, staff's or the  *)
(* requester's.  A service level of two days and one date by hand.         *)
(***************************************************************************)
EXTENDS RequestDesk, TLC

CONSTANTS i1, h1, h2

Alike == Permutations({h1, h2})
=============================================================================
