----------------------------- MODULE Materials ------------------------------
(***************************************************************************)
(* The material inventory of one member in one group (src/server.js): what *)
(* is stored at each place is what was contributed less what was withdrawn.*)
(* Withdrawals and moves are transactions under an advisory lock; clearing *)
(* the inventory sends BEGIN, two DELETEs and COMMIT through the pool, each*)
(* on whatever connection is free.                                         *)
(***************************************************************************)
EXTENDS Integers, FiniteSets, Functions

CONSTANTS Withdrawals, Clears,  \* requests
          Connections, Places, MaxStock, None

MaterialsAssumption ==
  /\ MaxStock \in Nat \ {0} /\ Withdrawals \cap Clears = {}
  /\ None \notin Connections \cup Places /\ IsFiniteSet(Places)

VARIABLES added, taken,        \* place -> committed contributions and withdrawals
          open,                \* connections inside a transaction
          newAdded, newTaken,  \* connection -> place -> what its transaction changes
          lock,                \* connection whose transaction has the advisory lock, or None
          pc, line,            \* request -> where it is, the connection it holds or began on
          leaked,              \* history: connections still in a transaction a clear began
          torn                 \* history: see StockIsCovered

tables == <<added, taken>>
work   == <<newAdded, newTaken>>
requests == <<pc, line>>
vars == <<tables, open, work, lock, requests, leaked, torn>>

Requests == Withdrawals \cup Clears
Zero == [p \in Places |-> 0]
Plus(f, g) == [p \in Places |-> f[p] + g[p]]

TypeOK ==
  /\ added \in [Places -> Nat] /\ taken \in [Places -> Nat]
  /\ open \subseteq Connections /\ lock \in Connections \cup {None}
  /\ newAdded \in [Connections -> [Places -> Int]] /\ newTaken \in [Connections -> [Places -> Int]]
  /\ pc \in [Requests -> {"new", "began", "decided", "withdrawals", "contributions", "done"}]
  /\ line \in [Requests -> Connections \cup {None}]
  /\ leaked \subseteq open /\ torn \in BOOLEAN

Init ==
  /\ added = Zero /\ taken = Zero /\ open = {} /\ lock = None
  /\ newAdded = [c \in Connections |-> Zero] /\ newTaken = [c \in Connections |-> Zero]
  /\ pc = [h \in Requests |-> "new"] /\ line = [h \in Requests |-> None]
  /\ leaked = {} /\ torn = FALSE
-----------------------------------------------------------------------------
Idle == {c \in Connections : \A h \in Withdrawals : line[h] # c}

\* What a statement on c sees.
Added(c) == Plus(added, newAdded[c])
Taken(c) == Plus(taken, newTaken[c])
Available(c, p) == IF Added(c)[p] > Taken(c)[p] THEN Added(c)[p] - Taken(c)[p] ELSE 0

\* A statement on c: part of its transaction, or committed at once.
Write(c, a, t) ==
  IF c \in open
  THEN /\ newAdded' = [newAdded EXCEPT ![c] = Plus(@, a)]
       /\ newTaken' = [newTaken EXCEPT ![c] = Plus(@, t)] /\ UNCHANGED tables
  ELSE added' = Plus(added, a) /\ taken' = Plus(taken, t) /\ UNCHANGED work

\* COMMIT and ROLLBACK on c end the transaction c is in, if it is in one.
Close(c) ==
  /\ open' = open \ {c} /\ leaked' = leaked \ {c}
  /\ newAdded' = [newAdded EXCEPT ![c] = Zero] /\ newTaken' = [newTaken EXCEPT ![c] = Zero]
  /\ lock' = IF lock = c THEN None ELSE lock

Commit(c) == Close(c) /\ added' = Added(c) /\ taken' = Taken(c)

Goto(h, step) == pc' = [pc EXCEPT ![h] = step]
Done(h) == Goto(h, "done") /\ line' = [line EXCEPT ![h] = None]

Clearing == {h \in Clears : pc[h] \in {"began", "withdrawals", "contributions"}}
Withdrawing == \E h \in Withdrawals : pc[h] \in {"began", "decided"}
-----------------------------------------------------------------------------
\* POST /contributions: one INSERT through the pool.
Contribute(c, p) ==
  /\ c \in Idle /\ added[p] + newAdded[c][p] < MaxStock
  /\ Write(c, [Zero EXCEPT ![p] = 1], Zero)
  /\ UNCHANGED <<open, lock, requests, leaked, torn>>

\* pool.connect() and BEGIN, which only warns inside a transaction.
Begin(h, c) ==
  /\ pc[h] = "new" /\ c \in Idle
  /\ line' = [line EXCEPT ![h] = c] /\ open' = open \cup {c}
  /\ torn' = (torn \/ Clearing # {} \/ leaked # {})
  /\ Goto(h, "began") /\ UNCHANGED <<tables, work, lock, leaked>>

\* Mutant: withdrawals do not queue.
Unqueued(c) == TRUE

Queued(c) == lock \in {None, c}

\* The stock is read under the lock; a and t are what is added and taken.
Move(h, a, t) ==
  /\ lock' = line[h] /\ Write(line[h], a, t)
  /\ Goto(h, "decided") /\ UNCHANGED <<open, line, leaked, torn>>

\* Mutant: a refusal does not roll back.
Forget(c) == UNCHANGED <<tables, open, work, lock, leaked>>

Rollback(c) == Close(c) /\ UNCHANGED tables

\* A withdrawal (to = None) or a move; more than there is is refused.
Withdraw(h, from, to, qty) ==
  LET c == line[h] IN
  /\ pc[h] = "began" /\ Queued(c) /\ from # to
  /\ \/ qty <= Available(c, from)
        /\ Move(h, [p \in Places |-> IF p = to THEN qty ELSE 0], [Zero EXCEPT ![from] = qty])
     \/ qty > Available(c, from) /\ Rollback(c) /\ Done(h) /\ UNCHANGED torn

\* Everything there is, also what is at the destination, goes there.
MoveAll(h, to) ==
  LET moved == [p \in Places |-> Available(line[h], p)] IN
  /\ pc[h] = "began" /\ Queued(line[h])
  /\ Move(h, [Zero EXCEPT ![to] = FoldFunction(LAMBDA x, y : x + y, 0, moved)], moved)

End(h) ==
  /\ pc[h] = "decided"
  /\ Commit(line[h]) /\ Done(h) /\ UNCHANGED torn
-----------------------------------------------------------------------------
\* POST /clear-material-inventory, each statement on any free connection.
ClearBegin(h, c) ==
  /\ pc[h] = "new" /\ c \in Idle
  /\ line' = [line EXCEPT ![h] = c]
  /\ open' = open \cup {c} /\ leaked' = leaked \cup {c}
  /\ torn' = (torn \/ Withdrawing \/ Clearing # {} \/ leaked # {})
  /\ Goto(h, "began") /\ UNCHANGED <<tables, work, lock>>

Elsewhere(h, c) == torn \/ c # line[h]

\* A DELETE waits for another transaction that has deleted the same rows.
ClearWithdrawals(h, c) ==
  /\ pc[h] = "began" /\ c \in Idle
  /\ \A d \in Connections \ {c}, p \in Places : newTaken[d][p] >= 0
  /\ Write(c, Zero, [p \in Places |-> -Taken(c)[p]])
  /\ torn' = Elsewhere(h, c)
  /\ Goto(h, "withdrawals") /\ UNCHANGED <<open, line, lock, leaked>>

ClearContributions(h, c) ==
  /\ pc[h] = "withdrawals" /\ c \in Idle
  /\ \A d \in Connections \ {c}, p \in Places : newAdded[d][p] >= 0
  /\ Write(c, [p \in Places |-> -Added(c)[p]], Zero)
  /\ torn' = Elsewhere(h, c)
  /\ Goto(h, "contributions") /\ UNCHANGED <<open, line, lock, leaked>>

ClearCommit(h, c) ==
  /\ pc[h] = "contributions" /\ c \in Idle
  /\ Commit(c) /\ torn' = Elsewhere(h, c)
  /\ Done(h)

Next ==
  \/ \E c \in Connections, p \in Places : Contribute(c, p)
  \/ \E h \in Withdrawals : End(h) \/ (\E c \in Connections : Begin(h, c))
       \/ \E p \in Places : MoveAll(h, p)
                            \/ \E to \in Places \cup {None}, q \in 1..MaxStock : Withdraw(h, p, to, q)
  \/ \E h \in Clears, c \in Connections :
       ClearBegin(h, c) \/ ClearWithdrawals(h, c) \/ ClearContributions(h, c) \/ ClearCommit(h, c)

Spec == Init /\ [][Next]_vars
-----------------------------------------------------------------------------
\* At no place is more withdrawn than was contributed, whatever withdraws and moves at
\* the same time, unless a clear has overlapped a withdrawal (it does not take the
\* advisory lock) or was spread over several connections.
StockIsCovered == torn \/ \A p \in Places : taken[p] <= added[p]

\* A connection back in the pool is in no transaction, in which the writes of others
\* would wait or be lost, unless a clear at work began one there, or left it when its
\* statements were spread or overlapped.
IdleIsClean == \A c \in Idle \cap open :
  c \in leaked /\ (torn \/ \E h \in Clearing : line[h] = c)
=============================================================================
