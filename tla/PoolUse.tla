------------------------------- MODULE PoolUse -------------------------------
(***************************************************************************)
(* The handlers of src/server.js share a pool of connections (max: 10, no  *)
(* timeout).  Some send one statement; some hold a connection for a        *)
(* transaction that locks a row; and two of these, the presence PUT that   *)
(* finds its device closed and the task PATCH with an assignee, ask the    *)
(* pool for a second connection while they hold the first.                 *)
(***************************************************************************)
EXTENDS Integers, Sequences, FiniteSetsExt

CONSTANTS Handlers, Nesting,  \* Nesting: the handlers that ask twice
          Rows, PoolMax, None

PoolUseAssumption ==
  /\ IsFiniteSet(Handlers) /\ Nesting \subseteq Handlers /\ None \notin Rows \cup Handlers
  /\ PoolMax \in Nat \ {0}

VARIABLES pc,      \* handler -> what it is doing
          held,    \* handler -> connections it holds
          waiting, \* handlers the pool has not answered yet, in their order
          owner,   \* row -> the transaction that locked it
          row      \* handler -> the row its transaction locks

vars == <<pc, held, waiting, owner, row>>

Steps == {"idle", "connecting", "statement", "begun", "locked", "asking", "second", "over"}

TypeOK ==
  /\ pc \in [Handlers -> Steps] /\ held \in [Handlers -> 0..2]
  /\ waiting \in Seq(Handlers) /\ Len(waiting) <= Cardinality(Handlers)
  /\ owner \in [Rows -> Handlers \cup {None}] /\ row \in [Handlers -> Rows \cup {None}]
  /\ MapThenSumSet(LAMBDA h : held[h], Handlers) <= PoolMax

Init ==
  /\ pc = [h \in Handlers |-> "idle"] /\ held = [h \in Handlers |-> 0]
  /\ waiting = <<>>
  /\ owner = [r \in Rows |-> None] /\ row = [h \in Handlers |-> None]
-----------------------------------------------------------------------------
InUse == MapThenSumSet(LAMBDA h : held[h], Handlers)

Goto(h, step) == pc' = [pc EXCEPT ![h] = step]

\* pool.connect and pool.query: a connection at once, or a place in the queue.
Ask(h, queued, next) ==
  \/ /\ InUse < PoolMax
     /\ held' = [held EXCEPT ![h] = @ + 1] /\ Goto(h, next) /\ UNCHANGED waiting
  \/ /\ InUse = PoolMax
     /\ waiting' = Append(waiting, h) /\ Goto(h, queued) /\ UNCHANGED held

\* What a handler does with the connection it waited for.
After(h) == IF pc[h] = "asking" THEN "second" ELSE IF row[h] = None THEN "statement" ELSE "begun"

\* Mutant: nobody who waits is told that a connection came back.
ReleaseOnly(h, n, step) ==
  /\ held' = [held EXCEPT ![h] = @ - n] /\ pc' = [pc EXCEPT ![h] = step] /\ UNCHANGED waiting

\* release: the connections go to the first who wait.
Release(h, n, step) ==
  LET k      == Min({n, Len(waiting)})
      served == {waiting[i] : i \in 1..k} IN
  /\ waiting' = SubSeq(waiting, k + 1, Len(waiting))
  /\ held' = [g \in Handlers |-> held[g] + (IF g \in served THEN 1 ELSE 0) - (IF g = h THEN n ELSE 0)]
  /\ pc' = [g \in Handlers |-> IF g = h THEN step ELSE IF g \in served THEN After(g) ELSE pc[g]]

\* A request arrives, for one statement or for a transaction on a row.
Arrive(h) ==
  /\ pc[h] = "idle"
  /\ \E r \in Rows \cup {None} :
       /\ r = None => h \notin Nesting
       /\ row' = [row EXCEPT ![h] = r]
       /\ Ask(h, "connecting", IF r = None THEN "statement" ELSE "begun")
  /\ UNCHANGED owner

\* The one statement is done, or has failed.
Finish(h) ==
  /\ pc[h] = "statement" /\ Release(h, 1, "idle") /\ UNCHANGED <<owner, row>>

\* SELECT ... FOR UPDATE waits in the database until the row is free.
LockRow(h) ==
  /\ pc[h] = "begun" /\ owner[row[h]] = None
  /\ owner' = [owner EXCEPT ![row[h]] = h] /\ Goto(h, "locked")
  /\ UNCHANGED <<held, waiting, row>>

\* authenticate after ROLLBACK, or validateAssignee with the task locked.
AskAgain(h) ==
  /\ pc[h] = "locked" /\ h \in Nesting
  /\ Ask(h, "asking", "second")
  /\ \/ UNCHANGED owner
     \/ owner' = [owner EXCEPT ![row[h]] = None]
  /\ UNCHANGED row

\* The second connection goes back; then COMMIT or ROLLBACK, and the first one.
SecondDone(h) ==
  /\ pc[h] = "second" /\ Release(h, 1, "over") /\ UNCHANGED <<owner, row>>

End(h) ==
  /\ pc[h] \in {"locked", "over"} \/ (pc[h] = "begun" /\ owner[row[h]] = None)
  /\ Release(h, 1, "idle")
  /\ owner' = [r \in Rows |-> IF owner[r] = h THEN None ELSE owner[r]]
  /\ UNCHANGED row

Next == \E h \in Handlers :
  Arrive(h) \/ Finish(h) \/ LockRow(h) \/ AskAgain(h) \/ SecondDone(h) \/ End(h)

Spec == Init /\ [][Next]_vars
-----------------------------------------------------------------------------
\* A holder that waits: for a connection, or for a row somebody else has locked.
Blocked(h) ==
  \/ pc[h] = "asking"
  \/ pc[h] = "begun" /\ owner[row[h]] # None

Stuck == waiting # <<>> /\ \A h \in Handlers : held[h] > 0 => Blocked(h)

\* The pool stops for one reason only: every connection is held, and one of the
\* holders asked for a second.  No connection is lost on the way there.
StuckOnlyByNesting ==
  Stuck => InUse = PoolMax /\ \E h \in Nesting : held[h] = 1 /\ pc[h] = "asking"
=============================================================================
