------------------------------- MODULE Groups -------------------------------
(***************************************************************************)
(* One group (src/server.js): its members and their roles, its invites,    *)
(* and the requests that join, leave, hand over and delete it.  A request  *)
(* reads and writes in several statements; what it has locked others wait  *)
(* for.                                                                    *)
(***************************************************************************)
EXTENDS Integers, FiniteSets

CONSTANTS People, Invites, Joins, Transfers, Founder, None

GroupsAssumption == Founder \in People /\ None \notin People \cup Invites \cup Joins

VARIABLES exists, role,            \* the group; person -> "owner", "member" or "none"
          invite,                  \* invite -> its state
          inviteLock,              \* invite -> the join that has it FOR UPDATE, or None
          joinPc, joiner, found,   \* join -> where it is, who joins, by which invite
          transferPc, taker,       \* transfer -> where it is, the new owner
          deleting,                \* a group deletion waits for the invites' rows
          closing, closed,         \* account whose deletion runs, deleted accounts
          uses,                    \* history: <<join, invite>> answered 200
          lost, excused            \* history: see OneOwner

joinVars == <<joinPc, joiner, found>>
transferVars == <<transferPc, taker>>
history == <<uses, lost, excused>>
vars == <<exists, role, invite, inviteLock, joinVars, transferVars, deleting, closing, closed, history>>

TypeOK ==
  /\ exists \in BOOLEAN /\ role \in [People -> {"owner", "member", "none"}]
  /\ invite \in [Invites -> {"none", "single", "reusable", "used", "expired", "gone"}]
  /\ inviteLock \in [Invites -> Joins \cup {None}]
  /\ joinPc \in [Joins -> {"new", "found", "inserted", "done"}]
  /\ joiner \in [Joins -> People \cup {None}] /\ found \in [Joins -> Invites \cup {None}]
  /\ transferPc \in [Transfers -> {"new", "owner", "update", "done"}]
  /\ taker \in [Transfers -> People \cup {None}]
  /\ deleting \in BOOLEAN /\ closing \in People \cup {None} /\ closed \subseteq People
  /\ uses \subseteq Joins \X Invites /\ lost \subseteq Transfers /\ excused \in BOOLEAN

\* POST /api/groups: the group and its owner in one transaction.
Init ==
  /\ exists = TRUE /\ role = [p \in People |-> IF p = Founder THEN "owner" ELSE "none"]
  /\ invite = [i \in Invites |-> "none"] /\ inviteLock = [i \in Invites |-> None]
  /\ joinPc = [h \in Joins |-> "new"] /\ joiner = [h \in Joins |-> None]
  /\ found = [h \in Joins |-> None]
  /\ transferPc = [h \in Transfers |-> "new"]
  /\ taker = [h \in Transfers |-> None]
  /\ deleting = FALSE /\ closing = None /\ closed = {}
  /\ uses = {} /\ lost = {} /\ excused = FALSE
-----------------------------------------------------------------------------
\* An owner or an administrator makes an invite.
CreateInvite(i, kind) ==
  /\ exists /\ ~deleting /\ invite[i] = "none"
  /\ invite' = [invite EXCEPT ![i] = kind]
  /\ UNCHANGED <<exists, role, inviteLock, joinVars, transferVars, deleting, closing, closed, history>>

Live(i) == invite[i] \in {"single", "reusable"}

\* Time passes; cleanupExpiredInvites; /api/invites/revoke.  A DELETE waits for a join.
Expire(i) ==
  /\ Live(i) /\ inviteLock[i] = None
  /\ invite' = [invite EXCEPT ![i] = "expired"]
  /\ UNCHANGED <<exists, role, inviteLock, joinVars, transferVars, deleting, closing, closed, history>>

RemoveInvite(i) ==
  /\ invite[i] \in {"single", "reusable", "used", "expired"} /\ inviteLock[i] = None
  /\ invite' = [invite EXCEPT ![i] = "gone"]
  /\ UNCHANGED <<exists, role, inviteLock, joinVars, transferVars, deleting, closing, closed, history>>

\* Mutant: the invite is read without FOR UPDATE.
Unguarded(i) == TRUE

Available(i) == inviteLock[i] = None

EndJoin(h) ==
  /\ joinPc' = [joinPc EXCEPT ![h] = "done"]
  /\ inviteLock' = [i \in Invites |-> IF inviteLock[i] = h THEN None ELSE inviteLock[i]]
  /\ UNCHANGED <<joiner, found>>

\* SELECT ... FOR UPDATE: waits for another join and looks at the row again.
Find(h, p, i) ==
  /\ joinPc[h] = "new" /\ p \notin closed /\ invite[i] # "none" /\ Available(i)
  /\ joiner' = [joiner EXCEPT ![h] = p] /\ found' = [found EXCEPT ![h] = i]
  /\ IF Live(i)
     THEN joinPc' = [joinPc EXCEPT ![h] = "found"] /\ inviteLock' = [inviteLock EXCEPT ![i] = h]
     ELSE joinPc' = [joinPc EXCEPT ![h] = "done"] /\ UNCHANGED inviteLock
  /\ UNCHANGED <<exists, role, invite, transferVars, deleting, closing, closed, history>>

\* INSERT ... ON CONFLICT DO NOTHING, which needs the group's row.
InsertMember(h) ==
  /\ joinPc[h] = "found" /\ ~deleting
  /\ IF joiner[h] \in closed THEN EndJoin(h)
     ELSE joinPc' = [joinPc EXCEPT ![h] = "inserted"] /\ UNCHANGED <<joiner, found, inviteLock>>
  /\ UNCHANGED <<exists, role, invite, transferVars, deleting, closing, closed, history>>

\* The use is counted, also that of somebody who is a member already.
UseInvite(h) ==
  LET i == found[h] p == joiner[h] IN
  /\ joinPc[h] = "inserted"
  /\ invite' = [invite EXCEPT ![i] = IF @ = "single" THEN "used" ELSE @]
  /\ role' = [role EXCEPT ![p] = IF @ = "none" THEN "member" ELSE @]
  /\ uses' = uses \cup {<<h, i>>}
  /\ EndJoin(h)
  /\ UNCHANGED <<exists, transferVars, deleting, closing, closed, lost, excused>>
-----------------------------------------------------------------------------
\* /api/groups/transfer-owner: an owner asks, or (None) an administrator.
CheckOwner(h, g, p) ==
  /\ transferPc[h] = "new" /\ g \in {None} \cup {q \in People : role[q] = "owner"}
  /\ transferPc' = [transferPc EXCEPT ![h] = "owner"]
  /\ taker' = [taker EXCEPT ![h] = p]
  /\ UNCHANGED <<exists, role, invite, inviteLock, joinVars, deleting, closing, closed, history>>

CheckMember(h) ==
  /\ transferPc[h] = "owner"
  /\ transferPc' = [transferPc EXCEPT ![h] = IF role[taker[h]] = "none" THEN "done" ELSE "update"]
  /\ UNCHANGED <<exists, role, invite, inviteLock, joinVars, taker, deleting, closing, closed, history>>

\* UPDATE group_members SET role = CASE ...: all rows there are, in one statement.
HandOver(h) ==
  LET after == [p \in People |-> IF role[p] = "none" THEN "none"
                                 ELSE IF p = taker[h] THEN "owner" ELSE "member"] IN
  /\ transferPc[h] = "update"
  /\ transferPc' = [transferPc EXCEPT ![h] = "done"]
  /\ role' = after
  /\ excused' = (h \in lost /\ \A p \in People : after[p] # "owner")
  /\ UNCHANGED <<exists, invite, inviteLock, joinVars, taker, deleting, closing, closed, uses, lost>>

\* The transfers that have found p a member.
Counting(p) == {h \in Transfers : transferPc[h] = "update" /\ taker[h] = p}

\* Mutant: an owner may leave.
AnyMember(p) == role[p] # "none"

MayLeave(p) == role[p] = "member"

\* /api/groups/leave and /remove-member.
LeaveGroup(p) ==
  /\ MayLeave(p)
  /\ role' = [role EXCEPT ![p] = "none"]
  /\ lost' = lost \cup Counting(p)
  /\ UNCHANGED <<exists, invite, inviteLock, joinVars, transferVars, deleting, closing, closed, uses, excused>>
-----------------------------------------------------------------------------
\* DELETE FROM blueprint_groups: it has the group's row once no join has inserted...
DeleteGroup(p) ==
  /\ exists /\ ~deleting /\ role[p] = "owner"
  /\ \A h \in Joins : joinPc[h] # "inserted"
  /\ deleting' = TRUE
  /\ UNCHANGED <<exists, role, invite, inviteLock, joinVars, transferVars, closing, closed, history>>

\* ... and cascades to members and invites once no join has an invite.  The owner
\* whose account is being deleted goes with it.
Cascade ==
  /\ deleting /\ \A i \in Invites : inviteLock[i] = None
  /\ deleting' = FALSE /\ exists' = FALSE
  /\ role' = [p \in People |-> "none"]
  /\ invite' = [i \in Invites |-> IF invite[i] = "none" THEN "none" ELSE "gone"]
  /\ closing' = None /\ closed' = IF closing = None THEN closed ELSE closed \cup {closing}
  /\ UNCHANGED <<inviteLock, joinVars, transferVars, history>>

\* A join that has an invite waits for the group, and the deletion for the invite.
AbortJoin(h) ==
  /\ deleting /\ joinPc[h] = "found" /\ EndJoin(h)
  /\ UNCHANGED <<exists, role, invite, transferVars, deleting, closing, closed, history>>

AbortDelete ==
  /\ deleting /\ \E h \in Joins : joinPc[h] = "found"
  /\ deleting' = FALSE /\ closing' = None
  /\ UNCHANGED <<exists, role, invite, inviteLock, joinVars, transferVars, closed, history>>

\* /api/admin/users/delete: the groups he owns, by the same DELETE...
CloseAccount(p) ==
  /\ closing = None /\ p \notin closed /\ ~deleting
  /\ closing' = p
  /\ IF exists /\ role[p] = "owner"
     THEN deleting' = TRUE /\ \A h \in Joins : joinPc[h] # "inserted"
     ELSE UNCHANGED deleting
  /\ UNCHANGED <<exists, role, invite, inviteLock, joinVars, transferVars, closed, history>>

\* ... then the memberships he has by now, and the account, whose row a join shares.
RemoveAccount ==
  /\ closing # None /\ ~deleting
  /\ \A h \in Joins : ~(joinPc[h] = "inserted" /\ joiner[h] = closing)
  /\ role' = [role EXCEPT ![closing] = "none"]
  /\ closed' = closed \cup {closing} /\ closing' = None
  /\ lost' = lost \cup Counting(closing)
  /\ excused' = (excused \/ role[closing] = "owner")
  /\ UNCHANGED <<exists, invite, inviteLock, joinVars, transferVars, deleting, uses>>

Next ==
  \/ \E i \in Invites : Expire(i) \/ RemoveInvite(i) \/ \E k \in {"single", "reusable"} : CreateInvite(i, k)
  \/ \E h \in Joins : InsertMember(h) \/ UseInvite(h) \/ AbortJoin(h)
                      \/ \E p \in People, i \in Invites : Find(h, p, i)
  \/ \E h \in Transfers : CheckMember(h) \/ HandOver(h)
                          \/ \E g \in People \cup {None}, p \in People : CheckOwner(h, g, p)
  \/ \E p \in People : LeaveGroup(p) \/ DeleteGroup(p) \/ CloseAccount(p)
  \/ Cascade \/ AbortDelete \/ RemoveAccount

Spec == Init /\ [][Next]_vars
-----------------------------------------------------------------------------
\* A group has one owner, whoever hands it over at the same time.  It has none only if
\* the member chosen by a transfer was gone when the transfer wrote the roles, or if an
\* account was deleted that had become the owner during its deletion.
OneOwner ==
  LET owners == {p \in People : role[p] = "owner"} IN
  /\ Cardinality(owners) <= 1
  /\ exists /\ owners = {} => excused

\* A one-time invite lets one request join, however many present it at once.
InviteOnce ==
  \A u, v \in uses : u[2] = v[2] /\ invite[u[2]] \in {"single", "used"} => u = v

Door == INSTANCE Membership WITH members <- {p \in People : role[p] # "none"}

\* However a join's statements interleave with other joins, revocations, removals and
\* deletions, it takes effect at one moment, with a live invite of a group that exists
\* (/api/invites/join).
JoinsAreAtomic == Door!Spec
=============================================================================
