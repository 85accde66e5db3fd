------------------------------- MODULE Orders -------------------------------
(***************************************************************************)
(* One material order of a group (src/server.js).  A request reads the     *)
(* order and decides; what it then writes does not look again.  Only a     *)
(* report is a transaction: its delivery, the sum of all deliveries, the   *)
(* order.  Its UPDATE is followed by COMMIT, so the two are one step.      *)
(* With an account go the deliveries it reported, not what was summed up.  *)
(***************************************************************************)
EXTENDS Integers, FiniteSets, Functions

CONSTANTS Requests, Members, Required, None

OrdersAssumption ==
  Required \in Nat \ {0} /\ IsFiniteSet(Members) /\ None \notin Members

VARIABLES status, delivered, assignee,  \* the order's row
          reported,              \* member -> committed material_order_deliveries, added up
          closed,                \* members whose account is deleted
          pc, by,                \* request -> where it is, the member of a claim or report
          quantity, total,       \* request -> what it reports, SUM() as it saw it
          overlapped, contested, \* history: a report (a claim) has read the order while another ran
          winners,               \* history: members whose claim was written
          erased, seen, basis    \* history: deliveries gone with accounts; before the last SUM;
                                 \* before the SUM that delivered has

row == <<status, delivered, assignee, reported>>
requests == <<pc, by, quantity, total>>
history == <<overlapped, contested, winners, erased, seen, basis>>
vars == <<row, closed, requests, history>>

Exists == status # "gone"
Blind == {"claimed", "completed", "cancelled"}     \* written by one UPDATE

TypeOK ==
  /\ status \in {"open", "reported", "gone"} \cup Blind
  /\ delivered \in Nat /\ assignee \in Members \cup {None}
  /\ reported \in [Members -> Nat] /\ closed \subseteq Members
  /\ pc \in [Requests -> {"new", "report", "inserted", "summed", "done"} \cup Blind]
  /\ by \in [Requests -> Members \cup {None}]
  /\ quantity \in [Requests -> 0..Required] /\ total \in [Requests -> Nat]
  /\ overlapped \in BOOLEAN /\ contested \in BOOLEAN /\ winners \subseteq Members
  /\ erased \in Nat /\ seen \in Nat /\ basis \in Nat

\* POST /api/orders.
Init ==
  /\ status = "open" /\ delivered = 0 /\ assignee = None
  /\ reported = [m \in Members |-> 0] /\ closed = {}
  /\ pc = [r \in Requests |-> "new"] /\ by = [r \in Requests |-> None]
  /\ quantity = [r \in Requests |-> 0] /\ total = [r \in Requests |-> 0]
  /\ overlapped = FALSE /\ contested = FALSE /\ winners = {}
  /\ erased = 0 /\ seen = 0 /\ basis = 0
-----------------------------------------------------------------------------
Goto(r, step) == pc' = [pc EXCEPT ![r] = step]
Finish(r) ==
  /\ Goto(r, "done") /\ by' = [by EXCEPT ![r] = None]
  /\ quantity' = [quantity EXCEPT ![r] = 0] /\ total' = [total EXCEPT ![r] = 0]

\* SELECT SUM(delivered_quantity) over what is committed.
Deliveries == FoldFunctionOnSet(LAMBDA x, y : x + y, 0, reported, Members)

Claiming == {r \in Requests : pc[r] = "claimed"}
Reporting == {r \in Requests : pc[r] \in {"report", "inserted", "summed"}}
InTransaction(r) == pc[r] \in {"inserted", "summed"}

\* Mutant: an order can be completed whatever was delivered.
AnyTime(next) == next = "claimed" => status = "open"

\* The order as read lets the action go on.
Permitted(next) ==
  /\ next = "claimed" => status = "open"
  /\ next = "completed" => delivered >= Required

\* complete and cancel: the creator or an administrator.
Decide(r, next) ==
  /\ pc[r] = "new" /\ Exists /\ next # "claimed" /\ Permitted(next)
  /\ Goto(r, next) /\ UNCHANGED <<row, closed, by, quantity, total, history>>

DecideClaim(r, m) ==
  /\ pc[r] = "new" /\ Exists /\ m \notin closed /\ Permitted("claimed")
  /\ Goto(r, "claimed") /\ by' = [by EXCEPT ![r] = m]
  /\ contested' = (contested \/ Claiming # {})
  /\ UNCHANGED <<row, closed, quantity, total, overlapped, winners, erased, seen, basis>>

DecideReport(r, m, q) ==
  /\ pc[r] = "new" /\ Exists /\ m \notin closed /\ status \notin {"completed", "cancelled"}
  /\ q <= Required - delivered
  /\ Goto(r, "report") /\ by' = [by EXCEPT ![r] = m] /\ quantity' = [quantity EXCEPT ![r] = q]
  /\ overlapped' = (overlapped \/ Reporting # {})
  /\ UNCHANGED <<row, closed, total, contested, winners, erased, seen, basis>>

\* One UPDATE by id.
SetStatus(r) ==
  /\ pc[r] \in Blind \ {"claimed"} /\ Exists /\ status' = pc[r] /\ Finish(r)
  /\ UNCHANGED <<delivered, assignee, reported, closed, history>>

\* As above; assigned_to must be an account.
Claim(r) ==
  /\ pc[r] = "claimed" /\ Exists /\ by[r] \notin closed
  /\ status' = "claimed" /\ assignee' = by[r] /\ winners' = winners \cup {by[r]}
  /\ Finish(r)
  /\ UNCHANGED <<delivered, reported, closed, overlapped, contested, erased, seen, basis>>
-----------------------------------------------------------------------------
\* BEGIN, INSERT; the order and the account must be there.
Insert(r) ==
  /\ pc[r] = "report" /\ Exists /\ by[r] \notin closed /\ Goto(r, "inserted")
  /\ UNCHANGED <<row, closed, by, quantity, total, history>>

\* SUM sees what is committed and its own delivery.
Sum(r) ==
  /\ pc[r] = "inserted" /\ Goto(r, "summed")
  /\ total' = [total EXCEPT ![r] = Deliveries + quantity[r]] /\ seen' = erased
  /\ UNCHANGED <<row, closed, by, quantity, overlapped, contested, winners, erased, basis>>

Update(r) ==
  /\ pc[r] = "summed"
  /\ status' = IF total[r] >= Required THEN "completed" ELSE "reported"
  /\ delivered' = total[r] /\ reported' = [reported EXCEPT ![by[r]] = @ + quantity[r]]
  /\ basis' = seen /\ Finish(r)
  /\ UNCHANGED <<assignee, closed, overlapped, contested, winners, erased, seen>>

\* A statement fails (a deadlock, the connection, a foreign key) or finds no order:
\* nothing of what the request wrote stays.
Abort(r) ==
  /\ pc[r] \notin {"new", "done"} /\ Finish(r) /\ UNCHANGED <<row, closed, history>>
-----------------------------------------------------------------------------
\* A reporter's or claimer's account is deleted, once its reports that have inserted
\* are through: its deliveries go (CASCADE), assigned_to is SET NULL.
CloseAccount(m) ==
  /\ m \notin closed /\ Exists
  /\ \A r \in Requests : InTransaction(r) => by[r] # m
  /\ closed' = closed \cup {m}
  /\ reported' = [reported EXCEPT ![m] = 0] /\ erased' = erased + reported[m]
  /\ assignee' = IF assignee = m THEN None ELSE assignee
  /\ UNCHANGED <<status, delivered, requests, overlapped, contested, winners, seen, basis>>

\* All orders are cleared, or the group or the creator's account is deleted: the DELETE
\* waits for the transactions whose deliveries refer to the row, and takes all others.
Clear ==
  /\ Exists /\ \A r \in Requests : ~InTransaction(r)
  /\ status' = "gone" /\ delivered' = 0 /\ assignee' = None
  /\ reported' = [m \in Members |-> 0]
  /\ UNCHANGED <<closed, requests, history>>

Next ==
  \/ \E r \in Requests :
       \/ \E next \in Blind : Decide(r, next)
       \/ \E m \in Members : DecideClaim(r, m) \/ \E q \in 1..Required : DecideReport(r, m, q)
       \/ SetStatus(r) \/ Claim(r) \/ Insert(r) \/ Sum(r) \/ Update(r) \/ Abort(r)
  \/ (\E m \in Members : CloseAccount(m)) \/ Clear

Spec == Init /\ [][Next]_vars
-----------------------------------------------------------------------------
\* An order said to be completed was delivered in full, whichever stale actions raced.
CompletedIsEarned == status = "completed" => Deliveries + erased >= Required

\* delivered_quantity never promises more than was reported.  If no two reports
\* overlapped, it is what its SUM has counted: the deliveries there are, and those that
\* went with an account since; and it is not more than what was asked for.
DeliveredIsExact ==
  /\ delivered <= Deliveries + erased
  /\ overlapped \/ (delivered = Deliveries + (erased - basis) /\ delivered <= Required)

\* If no two claims raced, one member at most was told the order is his, and it stays
\* his, whatever else is done to the order, until with his account it is nobody's.
ClaimIsKept ==
  contested \/ \A m \in winners :
    winners = {m} /\ assignee = IF m \in closed THEN None ELSE m

\* The order as its members see it, until it is gone: stale claims, reports,
\* completions and account deletions may race.
OrderIsConsistent == Exists => CompletedIsEarned /\ DeliveredIsExact /\ ClaimIsKept
=============================================================================
