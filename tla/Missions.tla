------------------------------ MODULE Missions ------------------------------
(***************************************************************************)
(* One mission of a group (src/server.js): its tasks, what was contributed *)
(* to them, and the status derived from both, under concurrent requests of *)
(* members and under members leaving.  Requests are PostgreSQL             *)
(* transactions: a task, and then the mission, is locked FOR UPDATE; a row *)
(* that refers to the mission shares its lock until the commit.            *)
(***************************************************************************)
EXTENDS Integers, FiniteSets

CONSTANTS Requests, Users, Manager,  \* Manager: creator of the mission, owner of the group
          Tasks, MaxTarget, MaxRequests, None

MissionsAssumption ==
  /\ Manager \in Users /\ None \notin Users \cup Requests \cup Tasks
  /\ MaxTarget \in Nat \ {0} /\ MaxRequests \in Nat

VARIABLES members,              \* active accounts in the group
          tasks,                \* task -> its committed row, or NoTask
          mission,              \* committed missions.status
          pc, job, draft,       \* request -> where it is, what it asks, the row it will commit
          begun,                \* requests so far, up to MaxRequests
          fresh,                \* request -> the mission status it will commit
          taskLock, missionLock, shared,  \* rows FOR UPDATE, requests sharing the mission
          unassigning,          \* leaving user -> tasks his UPDATE matched, or None
          excused               \* history: tasks a leaving user could keep, see StrayAssignments

tables == <<members, tasks, mission>>
locks  == <<taskLock, missionLock, shared>>
leave  == <<unassigning, excused>>
vars == <<tables, pc, job, begun, draft, fresh, locks, leave>>

Statuses == {"open", "in_progress", "completed"}
Owners == Users \cup {None}
NoTask == [type |-> "none", target |-> 0, total |-> 0, status |-> "open", assignee |-> None]

Row == [type : {"none", "checklist", "item"}, target : 0..MaxTarget, total : 0..MaxTarget,
        status : Statuses, assignee : Owners]

Asked(kinds, users, types, assignees, numbers) ==
  [kind : kinds, user : users, task : Tasks, type : types, assignee : assignees, number : numbers]

Job == Asked({"create"}, {Manager}, {"checklist", "item"}, Owners, {1})
  \cup Asked({"assign"}, {Manager}, {"item"}, Owners, {1})
  \cup Asked({"target"}, {Manager}, {"item"}, {None}, 1..MaxTarget)
  \cup Asked({"toggle"}, Users, {"checklist"}, {None}, {1})
  \cup Asked({"give"}, Users, {"item"}, {None}, 1..MaxTarget)

TypeOK ==
  /\ members \subseteq Users
  /\ tasks \in [Tasks -> Row] /\ mission \in Statuses
  /\ pc \in [Requests -> {"new", "insert", "lock", "note", "recalc", "commit"}]
  /\ begun \in 0..MaxRequests
  /\ job \in [Requests -> Job \cup {None}] /\ draft \in [Requests -> Row]
  /\ fresh \in [Requests -> Statuses]
  /\ taskLock \in [Tasks -> Requests \cup {None}] /\ missionLock \in Requests \cup {None}
  /\ shared \subseteq Requests
  /\ unassigning \in [Users -> (SUBSET Tasks) \cup {None}] /\ excused \subseteq Tasks
-----------------------------------------------------------------------------
\* The status of an item after a contribution or an edit of its target.
ItemStatus(total, target) ==
  IF total = 0 THEN "open" ELSE IF total >= target THEN "completed" ELSE "in_progress"

Exist(ts) == {t \in Tasks : ts[t].type # "none"}

\* recalculateMissionStatus
Recalculated(ts) ==
  LET active == Exist(ts)
      full == {t \in active : ts[t].status = "completed"}
      progressed == {t \in active : ts[t].status # "open"}
  IN IF active = {} THEN "open" ELSE IF full = active THEN "completed"
     ELSE IF progressed # {} THEN "in_progress" ELSE "open"

\* POST /api/missions: a mission without tasks.
Init ==
  /\ members = Users /\ tasks = [t \in Tasks |-> NoTask] /\ mission = "open"
  /\ pc = [h \in Requests |-> "new"] /\ job = [h \in Requests |-> None] /\ begun = 0
  /\ draft = [h \in Requests |-> NoTask] /\ fresh = [h \in Requests |-> "open"]
  /\ taskLock = [t \in Tasks |-> None] /\ missionLock = None /\ shared = {}
  /\ unassigning = [u \in Users |-> None] /\ excused = {}
-----------------------------------------------------------------------------
Goto(h, step) == pc' = [pc EXCEPT ![h] = step]

\* The end of a transaction; nothing of the request is needed any more.
End(h) ==
  /\ UNCHANGED begun
  /\ Goto(h, "new")
  /\ job' = [job EXCEPT ![h] = None] /\ draft' = [draft EXCEPT ![h] = NoTask]
  /\ fresh' = [fresh EXCEPT ![h] = "open"]
  /\ taskLock' = [t \in Tasks |-> IF taskLock[t] = h THEN None ELSE taskLock[t]]
  /\ missionLock' = IF missionLock = h THEN None ELSE missionLock
  /\ shared' = shared \ {h}

\* validateAssignee
Assignable(a) == a \in members \cup {None}

\* Access is checked, and for a new task its assignee, before the transaction.
Begin(h, j) ==
  /\ pc[h] = "new" /\ begun < MaxRequests /\ begun' = begun + 1
  /\ j.user \in members
  /\ IF j.kind = "create" THEN Assignable(j.assignee) ELSE tasks[j.task] # NoTask
  /\ job' = [job EXCEPT ![h] = j]
  /\ Goto(h, IF j.kind = "create" THEN "insert" ELSE "lock")
  /\ UNCHANGED <<tables, draft, fresh, locks, leave>>

\* A new row, which refers to the mission, as do the notifications of it.
Insert(h) ==
  LET j == job[h] IN
  /\ pc[h] = "insert" /\ missionLock = None
  /\ tasks[j.task] = NoTask
  /\ \A g \in Requests : ~(draft[g] # NoTask /\ job[g].task = j.task)
  /\ draft' = [draft EXCEPT ![h] =
       [type |-> j.type, target |-> IF j.type = "item" THEN j.number ELSE 0, total |-> 0,
        status |-> "open", assignee |-> j.assignee]]
  /\ shared' = shared \cup {h}
  /\ Goto(h, "recalc") /\ UNCHANGED <<tables, job, begun, fresh, taskLock, missionLock, leave>>

\* What a request makes of a task it has locked; none of these if it is refused.
Edited(j, row) ==
  CASE j.kind = "assign" /\ Assignable(j.assignee) -> {[row EXCEPT !.assignee = j.assignee]}
    [] j.kind = "target" /\ row.type = "item" /\ row.total <= j.number ->
         {[row EXCEPT !.target = j.number, !.status = ItemStatus(row.total, j.number)]}
    [] j.kind = "toggle" /\ row.type = "checklist" /\ j.user \in {Manager, row.assignee} ->
         {[row EXCEPT !.status = s] : s \in {"open", "completed"}}
    [] j.kind = "give" /\ row.type = "item" /\ j.user \in {Manager, row.assignee}
         /\ row.total + j.number <= row.target ->
         {[row EXCEPT !.total = @ + j.number, !.status = ItemStatus(row.total + j.number, row.target)]}
    [] OTHER -> {}

\* SELECT ... FOR UPDATE of the task, the checks, the validation of an assignee
\* (on another connection) and the change.
Lock(h) ==
  LET t == job[h].task IN
  /\ pc[h] = "lock" /\ taskLock[t] = None
  /\ \/ \E row \in Edited(job[h], tasks[t]) :
          /\ draft' = [draft EXCEPT ![h] = row]
          /\ taskLock' = [taskLock EXCEPT ![t] = h]
          /\ Goto(h, "note") /\ UNCHANGED <<job, begun, fresh, missionLock, shared>>
     \/ Edited(job[h], tasks[t]) = {} /\ End(h)
  /\ UNCHANGED <<tables, leave>>

\* Who is told: the old and the new assignee, members other than the actor.
Told(h) ==
  LET old == tasks[job[h].task]
      touched == IF job[h].kind = "assign" /\ old.assignee # draft[h].assignee
                 THEN {old.assignee, draft[h].assignee}
                 ELSE IF job[h].kind = "give" \/ (job[h].kind = "toggle" /\ old.status # draft[h].status)
                      THEN {old.assignee} ELSE {}
  IN (touched \cap members) \ {job[h].user}

\* insertMissionNotification: the rows refer to the mission.
Note(h) ==
  /\ pc[h] = "note"
  /\ \/ Told(h) # {} /\ missionLock = None /\ shared' = shared \cup {h}
     \/ Told(h) = {} /\ UNCHANGED shared
  /\ Goto(h, "recalc") /\ UNCHANGED <<tables, job, begun, draft, fresh, taskLock, missionLock, leave>>

\* Mutant: the mission is not locked before its status is computed.
Unlocked(h) == TRUE

MissionFree(h) == missionLock = None /\ shared \subseteq {h}

Recalc(h) ==
  /\ pc[h] = "recalc" /\ MissionFree(h)
  /\ missionLock' = h
  /\ fresh' = [fresh EXCEPT ![h] = Recalculated([tasks EXCEPT ![job[h].task] = draft[h]])]
  /\ Goto(h, "commit") /\ UNCHANGED <<tables, job, begun, draft, taskLock, shared, leave>>

Commit(h) ==
  /\ pc[h] = "commit"
  /\ tasks' = [tasks EXCEPT ![job[h].task] = draft[h]]
  /\ mission' = fresh[h]
  /\ excused' = excused \cup {job[h].task : u \in {x \in Users :
       draft[h].assignee = x /\ unassigning[x] # None /\ job[h].task \notin unassigning[x]}}
  /\ End(h) /\ UNCHANGED <<members, unassigning>>

\* Two requests that share the mission and both want it for themselves.
Deadlock(g, h) == g # h /\ {g, h} \subseteq shared /\ pc[g] = "recalc" /\ pc[h] = "recalc"

Abort(g, h) == Deadlock(g, h) /\ End(h) /\ UNCHANGED <<tables, leave>>
-----------------------------------------------------------------------------
Active(row) == row.type # "none" /\ row.status \in {"open", "in_progress"}

\* Mutant: only tasks without progress are taken from a leaving member.
OnlyOpen(u) == {t \in Tasks : tasks[t].type # "none" /\ tasks[t].status = "open" /\ tasks[t].assignee = u}

Unassigned(u) == {t \in Tasks : Active(tasks[t]) /\ tasks[t].assignee = u}

\* A member leaves, is removed or blocked: the UPDATE matches his open tasks...
Leave(u) ==
  /\ u \in members \ {Manager} /\ unassigning[u] = None
  /\ unassigning' = [unassigning EXCEPT ![u] = Unassigned(u)]
  /\ UNCHANGED <<tables, pc, job, begun, draft, fresh, locks, excused>>

\* ... waits for those that are locked, looks at them again and commits.
Left(u) ==
  LET mine == {t \in Tasks : tasks[t].assignee = u}
      freed == {t \in unassigning[u] \cap mine : Active(tasks[t])} IN
  /\ unassigning[u] # None
  /\ \A t \in unassigning[u] : taskLock[t] = None
  /\ members' = members \ {u}
  /\ tasks' = [t \in Tasks |-> IF t \in freed THEN [tasks[t] EXCEPT !.assignee = None] ELSE tasks[t]]
  /\ unassigning' = [unassigning EXCEPT ![u] = None]
  /\ excused' = excused \cup {t \in mine : tasks[t].status = "completed"}
       \cup {job[h].task : h \in {g \in Requests : draft[g] # NoTask /\ draft[g].assignee = u}}
       \cup {job[h].task : h \in {g \in Requests : pc[g] = "insert" /\ job[g].assignee = u}}
  /\ UNCHANGED <<mission, pc, job, begun, draft, fresh, locks>>

\* An invite, or an administrator, brings him back.
Join(u) ==
  /\ u \notin members
  /\ members' = members \cup {u}
  /\ UNCHANGED <<tasks, mission, pc, job, begun, draft, fresh, locks, leave>>

Next ==
  \/ \E h \in Requests, j \in Job : Begin(h, j)
  \/ \E h \in Requests : Insert(h) \/ Lock(h) \/ Note(h) \/ Recalc(h) \/ Commit(h)
  \/ \E g, h \in Requests : Abort(g, h)
  \/ \E u \in Users : Leave(u) \/ Left(u) \/ Join(u)

Spec == Init /\ [][Next]_vars
-----------------------------------------------------------------------------
\* Whatever requests run and are aborted, what is committed is consistent: no item
\* has more than its target, its status follows from its contributions, and the
\* mission's from its tasks.
ProgressIsExact ==
  /\ \A t \in Exist(tasks) : tasks[t].type = "item" =>
       tasks[t].total <= tasks[t].target /\ tasks[t].status = ItemStatus(tasks[t].total, tasks[t].target)
  /\ mission = Recalculated(tasks)

\* An active task is assigned to somebody who has left only if it was completed when
\* he left and opened again since, or if an assignment to him was under way.
StrayAssignments ==
  \A t \in Tasks : Active(tasks[t]) /\ tasks[t].assignee \notin members \cup {None} => t \in excused

\* "Active assignments remain consistent when group membership changes": an
\* active task is assigned to an active member of the group or to nobody.
ActiveAssigneesAreMembers ==
  \A t \in Tasks : Active(tasks[t]) => tasks[t].assignee \in members \cup {None}
=============================================================================
