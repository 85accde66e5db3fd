-------------------------- MODULE RevisionCounter --------------------------
(***************************************************************************)
(* What the revision store of a device promises to the presence monitor: a *)
(* revision it hands out is above every one it ever handed out, whichever  *)
(* process asks and whatever crashed in between.  Numbers may be skipped.  *)
(***************************************************************************)
EXTENDS Integers

CONSTANT MaxValue

VARIABLE issued   \* the revisions handed out so far

Init == issued = {}

Issue(r) ==
  /\ \A i \in issued : i < r
  /\ issued' = issued \cup {r}

Next == \E r \in 1..MaxValue : Issue(r)

Spec == Init /\ [][Next]_issued
=============================================================================
