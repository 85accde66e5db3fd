-------------------------- MODULE CommunityProofs ---------------------------
(***************************************************************************)
(* Accounts, groups and missions, for any number of people and requests: a *)
(* behaviour of the community is one of each component, and an inductive   *)
(* invariant of each component gives what the run Community checks.        *)
(***************************************************************************)
EXTENDS MCCommunity, Sums

\* A behaviour of the parts is, for each of them, a behaviour of that component: the
\* others only let it stutter.
THEOREM CommunityFollows ==
  PartsSpec => Account!Spec /\ Spec /\ Mission!Spec /\ Material!Spec /\ Order!Spec /\ Inventory!Spec
<1>1. PartsInit => Account!Init /\ Init /\ Mission!Init /\ Material!Init /\ Order!Init /\ Inventory!Init
  BY DEF PartsInit
<1>2. [PartsNext]_allVars => [Account!Next]_(Account!vars)
  BY DEF PartsNext, allVars, accountVars, Account!vars, Account!tables, Account!locks, Account!local
<1>3. [PartsNext]_allVars => [Next]_vars
  BY DEF PartsNext, allVars
<1>4. [PartsNext]_allVars => [Mission!Next]_(Mission!vars)
  BY DEF PartsNext, allVars, missionVars, Mission!vars, Mission!tables, Mission!locks, Mission!leave
<1>5. [PartsNext]_allVars => [Material!Next]_(Material!vars)
  BY DEF PartsNext, allVars, materialVars, Material!vars, Material!tables, Material!work,
     Material!requests
<1>6. [PartsNext]_allVars => [Order!Next]_(Order!vars)
  BY DEF PartsNext, allVars, orderVars, Order!vars, Order!row, Order!requests,
     Order!history
<1>7. [PartsNext]_allVars => [Inventory!Next]_(Inventory!vars)
  BY DEF PartsNext, allVars, inventoryVars, Inventory!vars, Inventory!rows, Inventory!requests,
     Inventory!history
<1>. QED  BY <1>1, <1>2, <1>3, <1>4, <1>5, <1>6, <1>7, PTL
     DEF PartsSpec, Account!Spec, Spec, Mission!Spec, Material!Spec, Order!Spec, Inventory!Spec
-----------------------------------------------------------------------------
(* Accounts. *)

\* Before the account is there nobody has looked anything up; after it no session is left.
OnlyWhileThere ==
  /\ acStatus = "none" => nextToken = 1 /\ nextKey = 1 /\ \A h \in Account!Handlers : acPc[h] = "new"
  /\ acStatus \in {"none", "deleted"} => sessions = {}

\* An account has the credentials that were handed out last, and there is room for more.
Newest ==
  /\ Account!Exists => token = nextToken - 1 /\ key = nextKey - 1 /\ 1 < nextToken /\ 1 < nextKey
  /\ \A u \in used : u[2] < nextKey - 1
  /\ \A u, v \in used : u[2] = v[2] => u = v

\* Whoever has locked the account is the only one, and what it saw is still so.
LockedAccount(h) ==
  acPc[h] = "user" =>
    /\ userLock = h /\ acStatus = "active" /\ nextKey <= MaxSecrets
    /\ h \in Asks => secret[h] = key /\ nextToken <= MaxSecrets
    /\ h \in Asks \cup Single

\* A recovery that waits for the account had the newest key, or is too late for good.
WaitsWithKey(h) ==
  acPc[h] = "key" =>
    /\ h \in Asks /\ secret[h] \in Account!Secrets /\ secret[h] < nextKey
    /\ secret[h] = nextKey - 1 => nextKey <= MaxSecrets /\ nextToken <= MaxSecrets

\* A login that has found its token still has it, or a recovery overtook it.
FoundToken(h) ==
  acPc[h] \in {"found", "token"} =>
    /\ h \in Things /\ secret[h] \in Account!Secrets
    /\ Account!Exists => secret[h] = token \/ h \in overtaken

\* A session of an earlier VerseLink ID is that of a login a recovery overtook.
OldOnesOvertaken == \A s \in sessions : s.token # token => s.login \in overtaken

\* The invariant of an account.
AccInv ==
  /\ Account!TypeOK /\ OnlyWhileThere /\ Newest /\ OldOnesOvertaken
  /\ \A h \in Account!Handlers : LockedAccount(h) /\ WaitsWithKey(h) /\ FoundToken(h)

\* Before the account is registered there is nothing that could be wrong.
LEMMA AccInit == ASSUME Account!AccountsAssumption PROVE Account!Init => AccInv
  BY DEF Account!AccountsAssumption, Account!Init, AccInv, Account!TypeOK, OnlyWhileThere, Newest,
     OldOnesOvertaken, LockedAccount,
     WaitsWithKey, FoundToken, Account!Handlers, Account!Secrets, Account!Exists, Account!Session

\* A transaction that ends without a change gives its rows back.
LEMMA AccRefuse ==
  ASSUME Account!AccountsAssumption, AccInv, NEW h \in Account!Handlers, NEW a \in {401, 403, 500}, Account!Refuse(h, a),
         acStatus # "none"
  PROVE  AccInv'
<1>. USE DEF AccInv, Account!TypeOK, Account!Refuse, Account!End, Account!Unlock, Account!tables
<1>1. Account!TypeOK'  OBVIOUS
<1>2. OnlyWhileThere' /\ Newest' /\ OldOnesOvertaken'
  BY DEF OnlyWhileThere, Newest, Account!Exists, OldOnesOvertaken
<1>3. ASSUME NEW x \in Account!Handlers PROVE (LockedAccount(x) /\ WaitsWithKey(x) /\ FoundToken(x))'
  BY DEF LockedAccount, WaitsWithKey, FoundToken, Account!Exists, Account!AccountsAssumption
<1>. QED  BY <1>1, <1>2, <1>3

\* Every statement of a login, a recovery, a rotation or the administration keeps it.
LEMMA AccStep == ASSUME Account!AccountsAssumption, AccInv, [Account!Next]_(Account!vars) PROVE AccInv'
<1>. USE DEF AccInv, Account!TypeOK
<1>0. acStatus \in {"none", "deleted"} <=> ~Account!Exists  BY DEF Account!Exists
<1>1. CASE Account!Register
  <2>. USE <1>1 DEF Account!Register, Account!locks, Account!local
  <2>1. Account!TypeOK'  BY DEF Account!AccountsAssumption, Account!Secrets, Account!Session
  <2>2. OnlyWhileThere' /\ OldOnesOvertaken'
    BY DEF OnlyWhileThere, OldOnesOvertaken
  <2>3. used = {}
    <3>1. ASSUME NEW u \in used PROVE FALSE
      <4>1. u[2] \in Account!Secrets /\ u[2] < 0  BY <3>1 DEF OnlyWhileThere, Newest
      <4>. QED  BY <4>1 DEF Account!Secrets
    <3>. QED  BY <3>1
  <2>4. Newest'  BY <2>3 DEF Newest, Account!Exists
  <2>5. ASSUME NEW x \in Account!Handlers PROVE (LockedAccount(x) /\ WaitsWithKey(x) /\ FoundToken(x))'
    BY DEF LockedAccount, WaitsWithKey, FoundToken, OnlyWhileThere
  <2>. QED  BY <2>1, <2>2, <2>4, <2>5
<1>2. ASSUME NEW h \in Things, NEW t \in Account!Secrets, Account!LoginLookup(h, t) PROVE AccInv'
  <2>. USE <1>2 DEF Account!LoginLookup, Account!Goto, Account!tables, Account!locks
  <2>. h \in Account!Handlers  BY DEF Account!Handlers
  <2>1. Account!TypeOK'  OBVIOUS
  <2>2. OnlyWhileThere' /\ Newest' /\ OldOnesOvertaken'
    BY DEF OnlyWhileThere, Newest, Account!Exists, OldOnesOvertaken, Account!Secrets
  <2>3. ASSUME NEW x \in Account!Handlers PROVE (LockedAccount(x) /\ WaitsWithKey(x) /\ FoundToken(x))'
    BY DEF LockedAccount, WaitsWithKey, FoundToken, OnlyWhileThere, Account!Exists
  <2>. QED  BY <2>1, <2>2, <2>3
<1>3. ASSUME NEW h \in Things, Account!LoginToken(h) PROVE AccInv'
  <2>. USE <1>3 DEF Account!LoginToken, Account!Goto, Account!tables
  <2>. h \in Account!Handlers  BY DEF Account!Handlers
  <2>1. Account!TypeOK'  OBVIOUS
  <2>2. OnlyWhileThere' /\ Newest' /\ OldOnesOvertaken'
    BY DEF OnlyWhileThere, Newest, Account!Exists, OldOnesOvertaken, Account!Secrets
  <2>3. ASSUME NEW x \in Account!Handlers PROVE (LockedAccount(x) /\ WaitsWithKey(x) /\ FoundToken(x))'
    BY DEF LockedAccount, WaitsWithKey, FoundToken, Account!Exists
  <2>. QED  BY <2>1, <2>2, <2>3
<1>4. ASSUME NEW h \in Things, Account!LoginSession(h) PROVE AccInv'
  <2>. h \in Account!Handlers  BY DEF Account!Handlers
  <2>0. acStatus # "none"  BY <1>4 DEF Account!LoginSession, OnlyWhileThere
  <2>1. CASE Account!Exists
    <3>. USE <1>4, <2>1 DEF Account!LoginSession, Account!End, Account!Unlock
    <3>0. secret[h] \in Account!Secrets /\ (secret[h] = token \/ h \in overtaken)  BY DEF FoundToken
    <3>1. Account!TypeOK'  BY <3>0 DEF Account!Session
    <3>2. OnlyWhileThere' /\ Newest'
      BY DEF OnlyWhileThere, Newest, Account!Exists, Account!Secrets
    <3>3. OldOnesOvertaken'  BY <3>0 DEF OldOnesOvertaken
    <3>4. ASSUME NEW x \in Account!Handlers PROVE (LockedAccount(x) /\ WaitsWithKey(x) /\ FoundToken(x))'
      BY DEF LockedAccount, WaitsWithKey, FoundToken, Account!Exists
    <3>. QED  BY <3>1, <3>2, <3>3, <3>4
  <2>2. CASE ~Account!Exists  BY <1>4, <2>0, <2>2, AccRefuse DEF Account!LoginSession
  <2>. QED  BY <2>1, <2>2
<1>5. ASSUME NEW s \in sessions, Account!Logout(s) PROVE AccInv'
  BY <1>5
     DEF Account!Logout, Account!locks, Account!local, OnlyWhileThere, Newest, Account!Exists,
        OldOnesOvertaken, LockedAccount, WaitsWithKey, FoundToken
<1>6. ASSUME NEW h \in Asks, NEW k \in Account!Secrets, Account!RecoverKey(h, k) PROVE AccInv'
  <2>. USE <1>6 DEF Account!RecoverKey, Account!Goto, Account!tables
  <2>. h \in Account!Handlers  BY DEF Account!Handlers
  <2>1. Account!TypeOK'  OBVIOUS
  <2>2. OnlyWhileThere' /\ Newest' /\ OldOnesOvertaken'
    BY DEF OnlyWhileThere, Newest, Account!Exists, OldOnesOvertaken, Account!Secrets
  <2>3. ASSUME NEW x \in Account!Handlers PROVE (LockedAccount(x) /\ WaitsWithKey(x) /\ FoundToken(x))'
    BY DEF LockedAccount, WaitsWithKey, FoundToken, Account!Exists
  <2>. QED  BY <2>1, <2>2, <2>3
<1>7. ASSUME NEW h \in Asks, Account!RecoverUser(h) PROVE AccInv'
  <2>. h \in Account!Handlers  BY DEF Account!Handlers
  <2>1. CASE Account!KeyIsGood(h)
    <3>. USE <1>7, <2>1 DEF Account!RecoverUser, Account!Goto, Account!tables, Account!KeyIsGood
    <3>1. Account!TypeOK'  OBVIOUS
    <3>2. OnlyWhileThere' /\ Newest' /\ OldOnesOvertaken'
      BY DEF OnlyWhileThere, Newest, Account!Exists, OldOnesOvertaken, Account!Secrets
    <3>3. ASSUME NEW x \in Account!Handlers PROVE (LockedAccount(x) /\ WaitsWithKey(x) /\ FoundToken(x))'
      BY DEF LockedAccount, WaitsWithKey, FoundToken, Account!Exists, Account!AccountsAssumption, Newest
    <3>. QED  BY <3>1, <3>2, <3>3
  <2>2. CASE ~Account!KeyIsGood(h)
    BY <1>7, <2>2, AccRefuse DEF Account!RecoverUser, OnlyWhileThere
  <2>. QED  BY <2>1, <2>2
<1>8. ASSUME NEW h \in Asks, Account!Recover(h) PROVE AccInv'
  <2>. USE <1>8 DEF Account!Recover, Account!End, Account!Unlock
  <2>. h \in Account!Handlers  BY DEF Account!Handlers
  <2>0. /\ userLock = h /\ acStatus = "active" /\ Account!Exists /\ secret[h] = key
        /\ nextKey <= MaxSecrets /\ nextToken <= MaxSecrets /\ secret[h] \in Account!Secrets
    <3>1. userLock = h /\ acStatus = "active" /\ Account!Exists /\ secret[h] = key /\ nextKey <= MaxSecrets /\ nextToken <= MaxSecrets
      BY DEF LockedAccount, Account!Exists
    <3>2. key = nextKey - 1 /\ 1 < nextKey  BY <3>1 DEF Newest
    <3>. QED  BY <3>1, <3>2 DEF Account!Secrets, Account!AccountsAssumption
  <2>1. Account!TypeOK'
    BY <2>0 DEF Account!SessionsAfterRecovery, Account!Secrets, Account!AccountsAssumption
  <2>2. OnlyWhileThere' /\ OldOnesOvertaken'
    BY <2>0 DEF OnlyWhileThere, OldOnesOvertaken, Account!SessionsAfterRecovery
  <2>3. Newest'  BY <2>0 DEF Newest, Account!Exists, Account!Secrets
  <2>4. ASSUME NEW x \in Account!Handlers PROVE (LockedAccount(x) /\ WaitsWithKey(x) /\ FoundToken(x))'
    BY <2>0
       DEF LockedAccount, WaitsWithKey, FoundToken, Account!Exists, Account!AccountsAssumption,
          Account!Secrets
  <2>. QED  BY <2>1, <2>2, <2>3, <2>4
<1>9. ASSUME NEW h \in Single, Account!RotateUser(h) PROVE AccInv'
  <2>. h \in Account!Handlers  BY DEF Account!Handlers
  <2>1. CASE acStatus = "active"
    <3>. USE <1>9, <2>1 DEF Account!RotateUser, Account!Goto, Account!tables
    <3>1. Account!TypeOK'  OBVIOUS
    <3>2. OnlyWhileThere' /\ Newest' /\ OldOnesOvertaken'
      BY DEF OnlyWhileThere, Newest, Account!Exists, OldOnesOvertaken, Account!Secrets
    <3>3. ASSUME NEW x \in Account!Handlers PROVE (LockedAccount(x) /\ WaitsWithKey(x) /\ FoundToken(x))'
      BY DEF LockedAccount, WaitsWithKey, FoundToken, Account!Exists, Account!AccountsAssumption, Newest
    <3>. QED  BY <3>1, <3>2, <3>3
  <2>2. CASE acStatus # "active"
    BY <1>9, <2>2, AccRefuse DEF Account!RotateUser
  <2>. QED  BY <2>1, <2>2
<1>10. ASSUME NEW h \in Single, Account!Rotate(h) PROVE AccInv'
  <2>. USE <1>10 DEF Account!Rotate, Account!End, Account!Unlock
  <2>. h \in Account!Handlers  BY DEF Account!Handlers
  <2>0. userLock = h /\ acStatus = "active" /\ Account!Exists /\ nextKey <= MaxSecrets
    BY DEF LockedAccount, Account!Exists
  <2>1. Account!TypeOK'  BY <2>0 DEF Account!Secrets, Account!AccountsAssumption
  <2>2. OnlyWhileThere' /\ OldOnesOvertaken'
    BY <2>0 DEF OnlyWhileThere, OldOnesOvertaken
  <2>3. Newest'  BY <2>0 DEF Newest, Account!Exists, Account!Secrets
  <2>4. ASSUME NEW x \in Account!Handlers PROVE (LockedAccount(x) /\ WaitsWithKey(x) /\ FoundToken(x))'
    BY <2>0
       DEF LockedAccount, WaitsWithKey, FoundToken, Account!Exists, Account!AccountsAssumption,
          Account!Secrets
  <2>. QED  BY <2>1, <2>2, <2>3, <2>4
<1>11. ASSUME NEW g \in Account!Handlers, NEW h \in Account!Handlers, Account!Abort(g, h) PROVE AccInv'
  BY <1>11, AccRefuse DEF Account!Abort, Account!Deadlock, OnlyWhileThere
<1>12. ASSUME NEW s \in {"active", "blocked"}, Account!SetStatus(s) PROVE AccInv'
  <2>. USE <1>12 DEF Account!SetStatus, Account!locks, Account!local
  <2>1. Account!TypeOK'  OBVIOUS
  <2>2. OnlyWhileThere' /\ Newest' /\ OldOnesOvertaken'
    BY DEF OnlyWhileThere, Newest, Account!Exists, OldOnesOvertaken
  <2>3. ASSUME NEW x \in Account!Handlers PROVE (LockedAccount(x) /\ WaitsWithKey(x) /\ FoundToken(x))'
    BY DEF LockedAccount, WaitsWithKey, FoundToken, Account!Exists, Account!AccountsAssumption
  <2>. QED  BY <2>1, <2>2, <2>3
<1>13. CASE Account!DeleteSessions
  BY <1>13
     DEF Account!DeleteSessions, Account!tables, Account!locks, Account!local, OnlyWhileThere, Newest,
        Account!Exists, OldOnesOvertaken, LockedAccount, WaitsWithKey, FoundToken
<1>14. CASE Account!DeleteUser
  <2>. USE <1>14 DEF Account!DeleteUser, Account!tables, Account!locks, Account!local
  <2>1. Account!TypeOK'  OBVIOUS
  <2>2. OnlyWhileThere' /\ Newest' /\ OldOnesOvertaken'
    BY DEF OnlyWhileThere, Newest, Account!Exists, OldOnesOvertaken
  <2>3. ASSUME NEW x \in Account!Handlers PROVE (LockedAccount(x) /\ WaitsWithKey(x) /\ FoundToken(x))'
    BY DEF LockedAccount, WaitsWithKey, FoundToken, Account!Exists, Account!AccountsAssumption
  <2>. QED  BY <2>1, <2>2, <2>3
<1>15. CASE UNCHANGED Account!vars
  BY <1>15
     DEF Account!vars, Account!tables, Account!locks, Account!local, OnlyWhileThere, Newest,
        Account!Exists, OldOnesOvertaken, LockedAccount, WaitsWithKey, FoundToken
<1>. QED
  BY <1>1, <1>2, <1>3, <1>4, <1>5, <1>6, <1>7, <1>8, <1>9, <1>10, <1>11, <1>12, <1>13, <1>14, <1>15
     DEF Account!Next

\* Whatever the other parts do, an account keeps its invariant.
LEMMA AccInvariance == PartsSpec => []AccInv
<1>1. Account!AccountsAssumption  BY PartsAssumption
<1>. QED  BY <1>1, AccInit, AccStep, CommunityFollows, PTL DEF Account!Spec

\* However logins, recoveries, rotations and the administration interleave and are
\* aborted, a recovery key is accepted once, and the credentials of an account that
\* exists are the ones that were handed out last.
THEOREM RecoveryOnce == PartsSpec => []KeyWorksOnce
<1>1. ASSUME AccInv PROVE KeyWorksOnce
  BY <1>1 DEF AccInv, Newest, KeyWorksOnce, Account!KeyWorksOnce
<1>. QED  BY <1>1, AccInvariance, PTL

\* After a recovery there is no session of the lost VerseLink ID but that of a login
\* that had found the ID before the recovery committed.
THEOREM SessionsEnd == PartsSpec => []OldSessionsEnd
<1>1. ASSUME AccInv PROVE OldSessionsEnd
  BY <1>1 DEF AccInv, OldOnesOvertaken, OldSessionsEnd, Account!OldSessionsEnd
<1>. QED  BY <1>1, AccInvariance, PTL
-----------------------------------------------------------------------------
(* Groups. *)

\* A join past its lookup has its invite's row, and that is what keeps the invite live.
JoinHolds ==
  \A h \in Joins : joinPc[h] \in {"found", "inserted"} =>
    joiner[h] \in People /\ found[h] \in Invites /\ inviteLock[found[h]] = h

\* An invite whose row a join has is one that can be used.
LockedIsLive == \A i \in Invites : inviteLock[i] # None => Live(i)

\* Nobody has used an invite that can still be used once.
UnusedIsFresh ==
  /\ uses \subseteq Joins \X Invites
  /\ \A u \in uses : invite[u[2]] \notin {"none", "single"}
  /\ \A u, v \in uses : u[2] = v[2] /\ invite[u[2]] = "used" => u = v

\* No two people own the group.
OneOwnerAtMost == \A p, q \in People : role[p] = "owner" /\ role[q] = "owner" => p = q

\* A group without an owner has come to that by one of two races.
OwnerlessIsExcused == exists /\ (\A p \in People : role[p] # "owner") => excused

\* Who is about to become the owner is a member, unless somebody has seen him off since.
TakerIsMember ==
  \A h \in Transfers : transferPc[h] \in {"owner", "update"} =>
    /\ taker[h] \in People
    /\ transferPc[h] = "update" /\ exists /\ h \notin lost => role[taker[h]] # "none"

\* What joins rely on, and what ownership rests on.
Joining == JoinHolds /\ LockedIsLive /\ UnusedIsFresh
Owning  == OneOwnerAtMost /\ OwnerlessIsExcused /\ TakerIsMember

\* The invariant of a group.
GroupInv == TypeOK /\ Joining /\ Owning

\* A new group has its founder for an owner, and no invite.
LEMMA GroupInit == ASSUME GroupsAssumption, Init PROVE GroupInv
<1>1. TypeOK
  BY DEF Init, TypeOK, GroupsAssumption
<1>2. Joining
  BY DEF Init, Joining, JoinHolds, LockedIsLive, UnusedIsFresh
<1>3. Owning
  BY DEF Init, Owning, OneOwnerAtMost, OwnerlessIsExcused, TakerIsMember, GroupsAssumption
<1> QED
  BY <1>1, <1>2, <1>3 DEF GroupInv

\* What no join and no invite is touched by, and what no role is.
LEMMA JoiningStays ==
  ASSUME Joining, UNCHANGED <<invite, inviteLock, joinVars, uses>> PROVE Joining'
  BY DEF Joining, JoinHolds, LockedIsLive, UnusedIsFresh, Live, joinVars

\* Ownership does not depend on joins and invites.
LEMMA OwningStays ==
  ASSUME Owning, UNCHANGED <<exists, role, transferVars, lost, excused>> PROVE Owning'
  BY DEF Owning, OneOwnerAtMost, OwnerlessIsExcused, TakerIsMember, transferVars

\* An invite no join has may lose its use, or be made when there was none.
LEMMA InviteChanges ==
  ASSUME TypeOK, Joining, NEW i \in Invites, NEW k \in {"single", "reusable", "expired", "gone"},
         inviteLock[i] = None, k \in {"single", "reusable"} => invite[i] = "none",
         invite' = [invite EXCEPT ![i] = k], UNCHANGED <<inviteLock, joinVars, uses>>
  PROVE  Joining'
  BY DEF TypeOK, Joining, JoinHolds, LockedIsLive, UnusedIsFresh, Live, joinVars

\* A join that ends gives its invite's row back, and disturbs no other.
LEMMA JoinEnds ==
  ASSUME TypeOK, GroupsAssumption, Joining, NEW h \in Joins, EndJoin(h), UNCHANGED <<invite, uses>>
  PROVE  Joining'
  BY DEF TypeOK, GroupsAssumption, EndJoin, Joining, JoinHolds, LockedIsLive, UnusedIsFresh, Live

\* The end of a join changes no types.
LEMMA EndIsTyped ==
  ASSUME TypeOK, NEW h \in Joins, EndJoin(h)
  PROVE  /\ joinPc' \in [Joins -> {"new", "found", "inserted", "done"}]
         /\ inviteLock' \in [Invites -> Joins \cup {None}] /\ UNCHANGED <<joiner, found>>
  BY DEF TypeOK, EndJoin

\* An invite is made, expires or is revoked while no join has it.
LEMMA InviteStep ==
  ASSUME GroupInv, NEW i \in Invites,
         Expire(i) \/ RemoveInvite(i) \/ (\E k \in {"single", "reusable"} : CreateInvite(i, k))
  PROVE  GroupInv'
<1>1. PICK k \in {"single", "reusable", "expired", "gone"} :
        /\ invite' = [invite EXCEPT ![i] = k]
        /\ k \in {"single", "reusable"} => invite[i] = "none"
        /\ inviteLock[i] = None
        /\ UNCHANGED <<exists, role, inviteLock, joinVars, transferVars, deleting, closing, closed, history>>
  <2>1. CASE Expire(i)
    BY <2>1 DEF Expire
  <2>2. CASE RemoveInvite(i)
    BY <2>2 DEF RemoveInvite
  <2>3. CASE \E k \in {"single", "reusable"} : CreateInvite(i, k)
    BY <2>3 DEF CreateInvite, GroupInv, Joining, LockedIsLive, Live
  <2> QED
    BY <2>1, <2>2, <2>3
<1>2. TypeOK'
  BY <1>1 DEF GroupInv, TypeOK, joinVars, transferVars, history
<1>3. Joining'
  BY <1>1, InviteChanges DEF GroupInv, history
<1>4. Owning'
  BY <1>1, OwningStays DEF GroupInv, history
<1> QED
  BY <1>2, <1>3, <1>4 DEF GroupInv

\* A join finds an invite that is available and locks its row.
LEMMA FindStep ==
  ASSUME GroupInv, GroupsAssumption, NEW h \in Joins, NEW p \in People, NEW i \in Invites, Find(h, p, i)
  PROVE  GroupInv'
<1> USE DEF Find
<1>1. TypeOK'
  BY DEF GroupInv, TypeOK, transferVars, history
<1>2. Joining'
  <2>1. JoinHolds'
    BY DEF GroupInv, TypeOK, Joining, JoinHolds, Available, GroupsAssumption
  <2>2. LockedIsLive' /\ UnusedIsFresh'
    BY DEF GroupInv, TypeOK, Joining, LockedIsLive, UnusedIsFresh, Live, history
  <2> QED
    BY <2>1, <2>2 DEF Joining
<1>3. Owning'
  BY OwningStays DEF GroupInv, history
<1> QED
  BY <1>1, <1>2, <1>3 DEF GroupInv

\* A membership is inserted, or refused because the account is being closed.
LEMMA InsertStep ==
  ASSUME GroupInv, GroupsAssumption, NEW h \in Joins, InsertMember(h)
  PROVE  GroupInv'
<1> USE DEF InsertMember
<1>1. TypeOK'
  BY EndIsTyped DEF GroupInv, TypeOK, transferVars, history
<1>2. Joining'
  <2>1. CASE joiner[h] \in closed
    BY <2>1, JoinEnds DEF GroupInv, history
  <2>2. CASE joiner[h] \notin closed
    BY <2>2 DEF GroupInv, TypeOK, Joining, JoinHolds, LockedIsLive, UnusedIsFresh, Live, history
  <2> QED
    BY <2>1, <2>2
<1>3. Owning'
  BY OwningStays DEF GroupInv, history
<1> QED
  BY <1>1, <1>2, <1>3 DEF GroupInv

\* A join that is aborted gives its row back.
LEMMA AbortStep ==
  ASSUME GroupInv, GroupsAssumption, NEW h \in Joins, AbortJoin(h)
  PROVE  GroupInv'
<1> USE DEF AbortJoin
<1>1. TypeOK'
  BY EndIsTyped DEF GroupInv, TypeOK, transferVars, history
<1>2. Joining'
  BY JoinEnds DEF GroupInv, history
<1>3. Owning'
  BY OwningStays DEF GroupInv, history
<1> QED
  BY <1>1, <1>2, <1>3 DEF GroupInv

\* The use of the invite: the join still has its row, so it is still live.
LEMMA UseStep ==
  ASSUME GroupInv, GroupsAssumption, NEW h \in Joins, UseInvite(h)
  PROVE  GroupInv'
<1>1. PICK i \in Invites, p \in People :
        i = found[h] /\ p = joiner[h] /\ inviteLock[i] = h /\ Live(i)
  BY DEF UseInvite, GroupInv, Joining, JoinHolds, LockedIsLive, GroupsAssumption
<1>2. /\ invite' = [invite EXCEPT ![i] = IF invite[i] = "single" THEN "used" ELSE invite[i]]
      /\ role' = [role EXCEPT ![p] = IF role[p] = "none" THEN "member" ELSE role[p]]
      /\ uses' = uses \cup {<<h, i>>}
  BY <1>1 DEF UseInvite
<1>3. EndJoin(h) /\ UNCHANGED <<exists, transferVars, deleting, closing, closed, lost, excused>>
  BY DEF UseInvite
<1>4. TypeOK'
  <2>1. invite' \in [Invites -> {"none", "single", "reusable", "used", "expired", "gone"}]
    BY <1>1, <1>2 DEF GroupInv, TypeOK, Live
  <2>2. role' \in [People -> {"owner", "member", "none"}] /\ uses' \subseteq Joins \X Invites
    BY <1>1, <1>2 DEF GroupInv, TypeOK
  <2> QED
    BY <1>3, <2>1, <2>2, EndIsTyped DEF GroupInv, TypeOK, transferVars
<1>5. JoinHolds'
  BY <1>3 DEF EndJoin, GroupInv, TypeOK, Joining, JoinHolds, GroupsAssumption
<1>6. LockedIsLive'
  <2>1. \A j \in Invites : inviteLock'[j] # None => j # i /\ inviteLock[j] # None
    BY <1>1, <1>3 DEF EndJoin, GroupInv, TypeOK
  <2> QED
    BY <1>2, <2>1 DEF GroupInv, TypeOK, Joining, LockedIsLive, Live
<1>7. UnusedIsFresh'
  <2>1. \A j \in Invites \ {i} : invite'[j] = invite[j]
    BY <1>2 DEF GroupInv, TypeOK
  <2>2. invite[i] \in {"single", "reusable"}
    BY <1>1 DEF Live
  <2>3. invite'[i] \in {"used", "reusable"} /\ (invite'[i] = "used" => invite[i] = "single")
    BY <1>2, <2>2 DEF GroupInv, TypeOK
  <2>4. uses' \subseteq Joins \X Invites
    BY <1>4 DEF TypeOK
  <2>5. \A u \in uses' : invite'[u[2]] \notin {"none", "single"}
    BY <1>2, <2>1, <2>3 DEF GroupInv, Joining, UnusedIsFresh
  <2>6. ASSUME NEW u \in uses', NEW v \in uses', u[2] = v[2], invite'[u[2]] = "used" PROVE u = v
    <3>1. CASE u[2] = i
      <4>1. \A w \in uses : w[2] # i
        BY <2>3, <2>6, <3>1 DEF GroupInv, Joining, UnusedIsFresh
      <4> QED
        BY <1>2, <2>6, <3>1, <4>1
    <3>2. CASE u[2] # i
      <4>1. u \in uses /\ v \in uses
        BY <1>2, <2>6, <3>2
      <4> QED
        BY <2>1, <2>6, <3>2, <4>1 DEF GroupInv, Joining, UnusedIsFresh
    <3> QED
      BY <3>1, <3>2
  <2> QED
    BY <2>4, <2>5, <2>6 DEF UnusedIsFresh
<1>8. Owning'
  <2>1. \A q \in People : role'[q] = "owner" <=> role[q] = "owner"
    BY <1>2 DEF GroupInv, TypeOK
  <2>2. \A q \in People : role[q] # "none" => role'[q] # "none"
    BY <1>2 DEF GroupInv, TypeOK
  <2> QED
    BY <1>3, <2>1, <2>2
       DEF GroupInv, Owning, OneOwnerAtMost, OwnerlessIsExcused, TakerIsMember, transferVars
<1> QED
  BY <1>4, <1>5, <1>6, <1>7, <1>8 DEF GroupInv, Joining

\* A transfer of ownership only reads.
LEMMA CheckStep ==
  ASSUME GroupInv, NEW h \in Transfers,
         CheckMember(h) \/ (\E g \in People \cup {None}, p \in People : CheckOwner(h, g, p))
  PROVE  GroupInv'
<1>1. CASE CheckMember(h)
  <2> USE <1>1 DEF CheckMember
  <2>1. TypeOK'
    BY DEF GroupInv, TypeOK, joinVars, history
  <2>2. Joining'
    BY JoiningStays DEF GroupInv, history
  <2>3. Owning'
    BY DEF GroupInv, TypeOK, Owning, OneOwnerAtMost, OwnerlessIsExcused, TakerIsMember, history
  <2> QED
    BY <2>1, <2>2, <2>3 DEF GroupInv
<1>2. CASE \E g \in People \cup {None}, p \in People : CheckOwner(h, g, p)
  <2>1. PICK g \in People \cup {None}, p \in People : CheckOwner(h, g, p)
    BY <1>2
  <2> USE <2>1 DEF CheckOwner
  <2>2. TypeOK'
    BY DEF GroupInv, TypeOK, joinVars, history
  <2>3. Joining'
    BY JoiningStays DEF GroupInv, history
  <2>4. Owning'
    BY DEF GroupInv, TypeOK, Owning, OneOwnerAtMost, OwnerlessIsExcused, TakerIsMember, history
  <2> QED
    BY <2>2, <2>3, <2>4 DEF GroupInv
<1> QED
  BY <1>1, <1>2

\* The one UPDATE that hands the group over leaves one owner at most.
LEMMA HandOverStep ==
  ASSUME GroupInv, NEW h \in Transfers, HandOver(h)
  PROVE  GroupInv'
<1> DEFINE after == [p \in People |-> IF role[p] = "none" THEN "none"
                                      ELSE IF p = taker[h] THEN "owner" ELSE "member"]
<1>1. /\ transferPc[h] = "update" /\ transferPc' = [transferPc EXCEPT ![h] = "done"]
      /\ role' = after
      /\ excused' = (h \in lost /\ \A p \in People : after[p] # "owner")
      /\ UNCHANGED <<exists, invite, inviteLock, joinVars, taker, deleting, closing, closed, uses, lost>>
  BY DEF HandOver
<1>2. TypeOK'
  BY <1>1 DEF GroupInv, TypeOK, joinVars
<1>3. Joining'
  BY <1>1, JoiningStays DEF GroupInv
<1>4. OneOwnerAtMost'
  BY <1>1 DEF OneOwnerAtMost
<1>5. OwnerlessIsExcused'
  BY <1>1 DEF GroupInv, Owning, TakerIsMember, OwnerlessIsExcused
<1>6. TakerIsMember'
  BY <1>1 DEF GroupInv, TypeOK, Owning, TakerIsMember
<1> QED
  BY <1>2, <1>3, <1>4, <1>5, <1>6 DEF GroupInv, Owning

\* An owner cannot leave, so nobody who leaves takes the ownership away.
LEMMA LeaveStep ==
  ASSUME GroupInv, NEW p \in People, LeaveGroup(p)
  PROVE  GroupInv'
<1> USE DEF LeaveGroup
<1>1. TypeOK'
  BY DEF GroupInv, TypeOK, joinVars, transferVars, Counting
<1>2. Joining'
  BY JoiningStays DEF GroupInv
<1>3. OneOwnerAtMost' /\ OwnerlessIsExcused'
  BY DEF GroupInv, TypeOK, Owning, OneOwnerAtMost, OwnerlessIsExcused, MayLeave
<1>4. TakerIsMember'
  BY DEF GroupInv, TypeOK, Owning, TakerIsMember, Counting, transferVars
<1> QED
  BY <1>1, <1>2, <1>3, <1>4 DEF GroupInv, Owning

\* A deletion that only waits, or gives up.
LEMMA WaitingStep ==
  ASSUME GroupInv, (\E p \in People : DeleteGroup(p) \/ CloseAccount(p)) \/ AbortDelete
  PROVE  GroupInv'
<1>1. /\ deleting' \in BOOLEAN /\ closing' \in People \cup {None}
      /\ UNCHANGED <<exists, role, invite, inviteLock, joinVars, transferVars, closed, history>>
  <2>1. CASE \E p \in People : DeleteGroup(p)
    BY <2>1 DEF DeleteGroup, GroupInv, TypeOK
  <2>2. CASE \E p \in People : CloseAccount(p)
    BY <2>2 DEF CloseAccount, GroupInv, TypeOK
  <2>3. CASE AbortDelete
    BY <2>3 DEF AbortDelete, GroupInv, TypeOK
  <2> QED
    BY <2>1, <2>2, <2>3
<1>2. TypeOK'
  BY <1>1 DEF GroupInv, TypeOK, joinVars, transferVars, history
<1>3. Joining' /\ Owning'
  BY <1>1, JoiningStays, OwningStays DEF GroupInv, history
<1> QED
  BY <1>2, <1>3 DEF GroupInv

\* Deleting the group removes every role and every invite.
LEMMA CascadeStep ==
  ASSUME GroupInv, GroupsAssumption, Cascade
  PROVE  GroupInv'
<1> USE DEF Cascade
<1>1. TypeOK'
  BY DEF GroupInv, TypeOK, joinVars, transferVars, history
<1>2. Joining'
  BY DEF GroupInv, TypeOK, Joining, JoinHolds, LockedIsLive, UnusedIsFresh, Live, joinVars, history,
     GroupsAssumption
<1>3. Owning'
  BY DEF GroupInv, Owning, OneOwnerAtMost, OwnerlessIsExcused, TakerIsMember, transferVars, history
<1> QED
  BY <1>1, <1>2, <1>3 DEF GroupInv

\* A deleted account leaves the group without an owner only if it was the owner.
LEMMA RemoveStep ==
  ASSUME GroupInv, GroupsAssumption, RemoveAccount
  PROVE  GroupInv'
<1> USE DEF RemoveAccount
<1>1. closing \in People
  BY DEF GroupInv, TypeOK
<1>2. TypeOK'
  BY <1>1 DEF GroupInv, TypeOK, joinVars, transferVars, Counting
<1>3. Joining'
  BY JoiningStays DEF GroupInv
<1>4. OneOwnerAtMost' /\ OwnerlessIsExcused'
  BY <1>1 DEF GroupInv, TypeOK, Owning, OneOwnerAtMost, OwnerlessIsExcused
<1>5. TakerIsMember'
  BY <1>1 DEF GroupInv, TypeOK, Owning, TakerIsMember, Counting, transferVars
<1> QED
  BY <1>2, <1>3, <1>4, <1>5 DEF GroupInv, Owning

\* Every step of joins, transfers, members and deletions keeps the invariant.
LEMMA GroupStep == ASSUME GroupsAssumption, GroupInv, [Next]_vars PROVE GroupInv'
<1>1. CASE Next
  BY <1>1, InviteStep, FindStep, InsertStep, UseStep, AbortStep, CheckStep, HandOverStep, LeaveStep,
     WaitingStep, CascadeStep, RemoveStep DEF Next
<1>2. CASE UNCHANGED vars
  BY <1>2 DEF vars, joinVars, transferVars, history, GroupInv, TypeOK, Joining, JoinHolds, LockedIsLive,
     UnusedIsFresh, Live, Owning, OneOwnerAtMost, OwnerlessIsExcused, TakerIsMember
<1> QED
  BY <1>1, <1>2

\* The parts of the invariant hold of every behaviour of the group part.
LEMMA GroupInvariance == PartsSpec => []GroupInv
<1>1. GroupsAssumption  BY PartsAssumption
<1>. QED  BY <1>1, GroupInit, GroupStep, CommunityFollows, PTL DEF Spec

\* At most one element of the owners is at most one owner.
LEMMA OwnerFollows == ASSUME GroupInv PROVE OneOwner
<1> DEFINE owners == {p \in People : role[p] = "owner"}
<1>1. Cardinality(owners) <= 1
  <2>1. CASE owners = {}
    BY <2>1, FS_EmptySet
  <2>2. CASE owners # {}
    <3>1. PICK p \in owners : TRUE
      BY <2>2
    <3>2. owners = {p}
      BY <3>1 DEF GroupInv, Owning, OneOwnerAtMost
    <3> QED
      BY <3>2, FS_Singleton
  <2> QED
    BY <2>1, <2>2
<1>2. exists /\ owners = {} => excused
  BY DEF GroupInv, Owning, OwnerlessIsExcused
<1> QED
  BY <1>1, <1>2 DEF OneOwner

\* However many people hand the group over, leave it, join it or delete their accounts
\* at once, it has at most one owner, and is left without one only by the races that
\* OneOwner names.
THEOREM Ownership == PartsSpec => []OneOwner
  BY GroupInvariance, OwnerFollows, PTL

\* A one-time invite is used by one request, whatever else joins, expires, revokes or
\* deletes at the same time.
THEOREM SingleUse == PartsSpec => []InviteOnce
<1>1. ASSUME GroupInv PROVE InviteOnce
  BY <1>1 DEF GroupInv, Joining, UnusedIsFresh, InviteOnce
<1>. QED  BY <1>1, GroupInvariance, PTL

\* Invites live as long as their group; a join that has inserted is of an account that
\* exists; a join whose use counts is over.
DoorInv ==
  /\ deleting => exists
  /\ \A i \in Invites : Live(i) => exists
  /\ \A h \in Joins : joinPc[h] = "inserted" => joiner[h] \notin closed
  /\ \A u \in uses : joinPc[u[1]] = "done"

\* Who is in the group, whatever the role.
Members == {p \in People : role[p] # "none"}

\* What the promise lets happen, one step at a time.
LEMMA DoorOpens ==
  /\ \A i \in Invites : Door!Expire(i) \/ Door!Remove(i) => Door!Next
  /\ \A i \in Invites, k \in {"single", "reusable"} : Door!Create(i, k) => Door!Next
  /\ \A p \in People : Door!Leave(p) \/ Door!Close(p) \/ Door!Delete({p}) => Door!Next
  /\ \A h \in Joins, p \in People, i \in Invites : Door!Join(h, p, i) => Door!Next
  /\ Door!Delete({}) => Door!Next
  BY DEF Door!Next

\* A new group has no invites and no joins.
LEMMA DoorStart == ASSUME Init PROVE DoorInv
  BY DEF Init, DoorInv, Live

\* One join goes on, and invites and uses stay.
LEMMA JoinMoves ==
  ASSUME GroupInv, DoorInv, NEW h \in Joins, joinPc[h] # "done",
         \A g \in Joins \ {h} : joinPc'[g] = joinPc[g] /\ joiner'[g] = joiner[g],
         joinPc'[h] = "inserted" => joiner'[h] \notin closed,
         UNCHANGED <<exists, invite, deleting, closed, uses>>
  PROVE  DoorInv'
<1>1. \A u \in uses : u[1] \in Joins /\ u[1] # h
  BY DEF GroupInv, TypeOK, DoorInv
<1> QED
  BY <1>1 DEF DoorInv, Live

\* An invite is made, expires or is revoked.
LEMMA InviteDoor ==
  ASSUME GroupInv, DoorInv, NEW i \in Invites,
         Expire(i) \/ RemoveInvite(i) \/ (\E k \in {"single", "reusable"} : CreateInvite(i, k))
  PROVE  DoorInv' /\ Door!Next
<1>1. UNCHANGED <<exists, role, deleting, closed, uses, joinVars>>
  BY DEF Expire, RemoveInvite, CreateInvite, history
<1>2. \A j \in Invites : Live(j)' => Live(j) \/ exists
  BY DEF GroupInv, TypeOK, Expire, RemoveInvite, CreateInvite, Live
<1>3. DoorInv'
  BY <1>1, <1>2 DEF DoorInv, joinVars
<1>4. Expire(i) => Door!Expire(i)
  BY <1>1 DEF Expire, Live, Door!Expire, Door!Live
<1>5. RemoveInvite(i) => Door!Remove(i)
  <2>1. RemoveInvite(i) => invite[i] # "none" /\ invite' = [invite EXCEPT ![i] = "gone"]
    BY DEF RemoveInvite
  <2> QED
    BY <1>1, <2>1 DEF Door!Remove
<1>6. \A k \in {"single", "reusable"} : CreateInvite(i, k) => Door!Create(i, k)
  BY <1>1 DEF CreateInvite, Door!Create
<1> QED
  BY <1>3, <1>4, <1>5, <1>6, DoorOpens

\* A join that begins, inserts or is aborted has let nobody in.
LEMMA BeforeUse ==
  ASSUME GroupInv, DoorInv, NEW h \in Joins,
         (\E p \in People, i \in Invites : Find(h, p, i)) \/ InsertMember(h) \/ AbortJoin(h)
  PROVE  DoorInv' /\ UNCHANGED Door!vars
<1>1. /\ UNCHANGED <<exists, role, invite, deleting, closed, uses>> /\ joinPc[h] # "done"
      /\ \A g \in Joins \ {h} : joinPc'[g] = joinPc[g] /\ joiner'[g] = joiner[g]
      /\ joinPc'[h] = "inserted" => joiner'[h] \notin closed
  <2> USE DEF GroupInv, TypeOK, history
  <2>1. CASE \E p \in People, i \in Invites : Find(h, p, i)
    BY <2>1 DEF Find
  <2>2. CASE InsertMember(h)
    BY <2>2 DEF InsertMember, EndJoin
  <2>3. CASE AbortJoin(h)
    BY <2>3 DEF AbortJoin, EndJoin
  <2> QED
    BY <2>1, <2>2, <2>3
<1> QED
  BY <1>1, JoinMoves DEF Door!vars

\* The use of the invite lets its account in, at that moment.
LEMMA UseIsJoin ==
  ASSUME GroupInv, DoorInv, NEW h \in Joins, UseInvite(h)
  PROVE  DoorInv' /\ Door!Next
<1>1. PICK i \in Invites, p \in People : i = found[h] /\ p = joiner[h] /\ inviteLock[i] = h
  BY DEF UseInvite, GroupInv, Joining, JoinHolds
<1>2. /\ joinPc[h] = "inserted"
      /\ invite' = [invite EXCEPT ![i] = IF invite[i] = "single" THEN "used" ELSE invite[i]]
      /\ role' = [role EXCEPT ![p] = IF role[p] = "none" THEN "member" ELSE role[p]]
      /\ uses' = uses \cup {<<h, i>>} /\ joinPc' = [joinPc EXCEPT ![h] = "done"]
      /\ UNCHANGED <<exists, deleting, closed, joiner>>
  BY <1>1 DEF UseInvite, EndJoin
<1>3. inviteLock[i] # None
  BY <1>1, PartsAssumption DEF GroupsAssumption
<1>4. Live(i) /\ exists /\ p \notin closed
  BY <1>1, <1>2, <1>3 DEF GroupInv, Joining, LockedIsLive, DoorInv
<1>5. \A u \in uses : u[1] \in Joins /\ u[1] # h
  BY <1>2 DEF GroupInv, TypeOK, DoorInv
<1>6. DoorInv'
  <2>1. joinPc'[h] = "done" /\ \A g \in Joins \ {h} : joinPc'[g] = joinPc[g]
    BY <1>2 DEF GroupInv, TypeOK
  <2>2. \A u \in uses' : joinPc'[u[1]] = "done"
    BY <1>2, <1>5, <2>1 DEF DoorInv
  <2> QED
    BY <1>2, <1>4, <2>1, <2>2 DEF DoorInv
<1>7. Members' = Members \cup {p}
  BY <1>2 DEF GroupInv, TypeOK, Members
<1>8. Door!Join(h, p, i)
  BY <1>2, <1>4, <1>5, <1>7 DEF Door!Join, Door!Live, Live, Members
<1> QED
  BY <1>6, <1>8, DoorOpens

\* Handing over changes who owns the group, not who is in it.
LEMMA TransferStutters ==
  ASSUME GroupInv, DoorInv, NEW h \in Transfers,
         \/ CheckMember(h) \/ HandOver(h)
         \/ \E g \in People \cup {None}, p \in People : CheckOwner(h, g, p)
  PROVE  DoorInv' /\ UNCHANGED Door!vars
<1>1. UNCHANGED <<exists, invite, deleting, closed, uses, joinVars>>
  BY DEF CheckMember, HandOver, CheckOwner, history
<1>2. Members' = Members
  BY DEF CheckMember, HandOver, CheckOwner, GroupInv, TypeOK, Members
<1> QED
  BY <1>1, <1>2 DEF DoorInv, Live, joinVars, Door!vars, Members

\* Who leaves, or whose account is deleted, is out.
LEMMA LeavingIsOut ==
  ASSUME GroupInv, DoorInv, (\E p \in People : LeaveGroup(p)) \/ RemoveAccount
  PROVE  DoorInv' /\ Door!Next
<1>1. ASSUME NEW p \in People, LeaveGroup(p) PROVE DoorInv' /\ Door!Next
  <2>1. UNCHANGED <<exists, invite, deleting, closed, uses, joinVars>>
    BY <1>1 DEF LeaveGroup
  <2>2. Members' = Members \ {p}
    BY <1>1 DEF LeaveGroup, GroupInv, TypeOK, Members
  <2>3. Door!Leave(p)
    BY <2>1, <2>2 DEF Door!Leave, Members
  <2> QED
    BY <2>1, <2>3, DoorOpens DEF DoorInv, Live, joinVars
<1>2. CASE RemoveAccount
  <2>1. PICK p \in People : p = closing
    BY <1>2 DEF RemoveAccount, GroupInv, TypeOK
  <2>2. /\ role' = [role EXCEPT ![p] = "none"] /\ closed' = closed \cup {p}
        /\ \A h \in Joins : ~(joinPc[h] = "inserted" /\ joiner[h] = p)
        /\ UNCHANGED <<exists, invite, deleting, uses, joinVars>>
    BY <1>2, <2>1 DEF RemoveAccount
  <2>3. Members' = Members \ {p}
    BY <2>2 DEF GroupInv, TypeOK, Members
  <2>4. Door!Close(p)
    BY <2>2, <2>3 DEF Door!Close, Members
  <2>5. DoorInv'
    BY <2>2 DEF DoorInv, Live, joinVars
  <2> QED
    BY <2>4, <2>5, DoorOpens
<1> QED
  BY <1>1, <1>2

\* A deletion that waits, or gives up, has deleted nothing.
LEMMA WaitingStutters ==
  ASSUME GroupInv, DoorInv, (\E p \in People : DeleteGroup(p) \/ CloseAccount(p)) \/ AbortDelete
  PROVE  DoorInv' /\ UNCHANGED Door!vars
<1>1. /\ UNCHANGED <<exists, role, invite, closed, uses, joinVars>>
      /\ deleting' => deleting \/ exists
  BY DEF DeleteGroup, CloseAccount, AbortDelete, history
<1> QED
  BY <1>1 DEF DoorInv, Live, joinVars, Door!vars

\* The deletion takes the members and the invites at once; no join is between its two
\* statements then, because such a join has an invite's row.
LEMMA CascadeIsDelete ==
  ASSUME GroupInv, DoorInv, Cascade
  PROVE  DoorInv' /\ Door!Next
<1>1. /\ exists /\ exists' = FALSE /\ deleting' = FALSE
      /\ role' = [p \in People |-> "none"]
      /\ invite' = [i \in Invites |-> IF invite[i] = "none" THEN "none" ELSE "gone"]
      /\ closed' = IF closing = None THEN closed ELSE closed \cup {closing}
      /\ UNCHANGED <<uses, joinVars>>
  BY DEF Cascade, DoorInv, history
<1>2. \A h \in Joins : joinPc[h] # "inserted"
  <2>1. \A i \in Invites : inviteLock[i] = None
    BY DEF Cascade
  <2>2. None \notin Joins
    BY PartsAssumption DEF GroupsAssumption
  <2> QED
    BY <2>1, <2>2 DEF GroupInv, Joining, JoinHolds
<1>3. DoorInv'
  BY <1>1, <1>2 DEF DoorInv, Live, joinVars
<1>4. Members' = {}
  BY <1>1 DEF Members
<1>5. CASE closing = None
  <2>1. closed' = closed \cup {}
    BY <1>1, <1>5
  <2>2. Door!Delete({})
    BY <1>1, <1>4, <2>1 DEF Door!Delete, Members
  <2> QED
    BY <1>3, <2>2, DoorOpens
<1>6. CASE closing # None
  <2>1. PICK p \in People : closed' = closed \cup {p}
    BY <1>1, <1>6 DEF GroupInv, TypeOK
  <2>2. Door!Delete({p})
    BY <1>1, <1>4, <2>1 DEF Door!Delete, Members
  <2> QED
    BY <1>3, <2>2, DoorOpens
<1> QED
  BY <1>5, <1>6

\* Every step of the group is one step of the promise, or none.
LEMMA DoorStep ==
  ASSUME GroupInv, DoorInv, [Next]_vars
  PROVE  DoorInv' /\ [Door!Next]_(Door!vars)
<1>1. CASE UNCHANGED vars
  BY <1>1 DEF vars, joinVars, history, DoorInv, Live, Door!vars
<1>2. CASE Next
  <2>1. CASE \E i \in Invites : Expire(i) \/ RemoveInvite(i) \/ \E k \in {"single", "reusable"} : CreateInvite(i, k)
    BY <2>1, InviteDoor
  <2>2. CASE \E h \in Joins : InsertMember(h) \/ UseInvite(h) \/ AbortJoin(h)
                              \/ \E p \in People, i \in Invites : Find(h, p, i)
    BY <2>2, BeforeUse, UseIsJoin
  <2>3. CASE \E h \in Transfers : CheckMember(h) \/ HandOver(h)
                                  \/ \E g \in People \cup {None}, p \in People : CheckOwner(h, g, p)
    BY <2>3, TransferStutters
  <2>4. CASE (\E p \in People : LeaveGroup(p) \/ DeleteGroup(p) \/ CloseAccount(p))
             \/ Cascade \/ AbortDelete \/ RemoveAccount
    BY <2>4, LeavingIsOut, WaitingStutters, CascadeIsDelete
  <2> QED
    BY <1>2, <2>1, <2>2, <2>3, <2>4 DEF Next
<1> QED
  BY <1>1, <1>2

\* However joins, revocations, transfers, departures and deletions interleave, the group
\* is one that people join at one moment each, with a live invite.
THEOREM JoinRefinement == PartsSpec => JoinsAreAtomic
<1>1. Init => DoorInv /\ Door!Init
  <2>1. Init => Members = {Founder}
    BY PartsAssumption DEF Init, Members, GroupsAssumption
  <2> QED
    BY <2>1, DoorStart DEF Init, Door!Init, Members
<1>2. GroupInv /\ DoorInv /\ [Next]_vars => DoorInv' /\ [Door!Next]_(Door!vars)
  BY DoorStep
<1> QED
  BY <1>1, <1>2, CommunityFollows, GroupInvariance, PTL DEF Spec, Door!Spec, JoinsAreAtomic
-----------------------------------------------------------------------------
(* Missions. *)

\* An item has no more than its target, and the status that follows.
ExactTask(row) == row.type = "item" => row.total <= row.target /\ row.status = Mission!ItemStatus(row.total, row.target)

\* A request in a transaction: what it holds, and what it will commit.
Carries(h) ==
  /\ miPc[h] # "new" => job[h] \in Mission!Job
  /\ miPc[h] \in {"new", "insert", "lock"} => draft[h] = Mission!NoTask
  /\ miPc[h] = "insert" => job[h].kind = "create"
  /\ miPc[h] \in {"lock", "note"} => job[h].kind # "create" /\ tasks[job[h].task] # Mission!NoTask
  /\ miPc[h] \in {"note", "recalc", "commit"} =>
       /\ ExactTask(draft[h]) /\ draft[h].type # "none"
       /\ \/ job[h].kind = "create" /\ tasks[job[h].task] = Mission!NoTask
          \/ taskLock[job[h].task] = h /\ tasks[job[h].task] # Mission!NoTask
  /\ miPc[h] = "commit" => missionLock = h /\ fresh[h] = Mission!Recalculated([tasks EXCEPT ![job[h].task] = draft[h]])

\* Two requests never have rows for the same task.
Apart == \A g, h \in Asks :
  draft[g] # Mission!NoTask /\ draft[h] # Mission!NoTask /\ job[g].task = job[h].task => g = h

\* What is committed is consistent.
Committed ==
  /\ \A t \in Things : ExactTask(tasks[t]) /\ (tasks[t].type = "none" => tasks[t] = Mission!NoTask)
  /\ mission = Mission!Recalculated(tasks)

\* Whoever is assigned without being a member, or assigned while leaving, is excused.
Excused ==
  /\ \A t \in Things : tasks[t].assignee \in members \cup {None} \/ t \in miExcused
  /\ \A h \in Asks :
       /\ miPc[h] \in {"note", "recalc", "commit"} => draft[h].assignee \in members \cup {None} \/ job[h].task \in miExcused
       /\ miPc[h] = "insert" => job[h].assignee \in members \cup {None} \/ job[h].task \in miExcused
  /\ \A u \in Couple, t \in Things :
       unassigning[u] # None /\ tasks[t].assignee = u /\ Mission!Active(tasks[t]) => t \in unassigning[u] \cup miExcused

\* The invariant of a mission.
MissionInv == Mission!TypeOK /\ Committed /\ Apart /\ Excused /\ \A h \in Asks : Carries(h)

\* What a request asks for, whatever kind it is.
LEMMA JobIs ==
  ASSUME Mission!MissionsAssumption, NEW j \in Mission!Job
  PROVE  /\ j.task \in Things /\ j.user \in Couple /\ j.number \in 1..MaxTarget /\ j.assignee \in Mission!Owners
         /\ j.kind = "create" => j.type \in {"checklist", "item"}
         /\ j.kind \in {"create", "assign", "target", "toggle", "give"}
<1>. USE DEF Mission!MissionsAssumption, Mission!Asked, Mission!Owners
<1>1. CASE j \in Mission!Asked({"create"}, {Founder}, {"checklist", "item"}, Mission!Owners, {1})
  BY <1>1
<1>2. CASE j \in Mission!Asked({"assign"}, {Founder}, {"item"}, Mission!Owners, {1})  BY <1>2
<1>3. CASE j \in Mission!Asked({"target"}, {Founder}, {"item"}, {None}, 1..MaxTarget)  BY <1>3
<1>4. CASE j \in Mission!Asked({"toggle"}, Couple, {"checklist"}, {None}, {1})  BY <1>4
<1>5. CASE j \in Mission!Asked({"give"}, Couple, {"item"}, {None}, 1..MaxTarget)  BY <1>5
<1>. QED  BY <1>1, <1>2, <1>3, <1>4, <1>5 DEF Mission!Job

\* A mission's status depends on the kinds and the statuses of its tasks only.
LEMMA RecalculatedSame ==
  ASSUME NEW ts, NEW us, \A t \in Things : ts[t].type = us[t].type /\ ts[t].status = us[t].status
  PROVE  Mission!Recalculated(ts) = Mission!Recalculated(us)
<1>1. Mission!Exist(ts) = Mission!Exist(us)  BY DEF Mission!Exist
<1>2. {t \in Mission!Exist(ts) : ts[t].status = "completed"} = {t \in Mission!Exist(us) : us[t].status = "completed"}
  BY <1>1 DEF Mission!Exist
<1>3. {t \in Mission!Exist(ts) : ts[t].status # "open"} = {t \in Mission!Exist(us) : us[t].status # "open"}
  BY <1>1 DEF Mission!Exist
<1>. QED  BY <1>1, <1>2, <1>3 DEF Mission!Recalculated

\* A mission has one of the three statuses.
LEMMA RecalculatedIn == ASSUME NEW ts PROVE Mission!Recalculated(ts) \in Mission!Statuses
  BY DEF Mission!Recalculated, Mission!Statuses

\* So has an item.
LEMMA ItemStatusIn ==
  ASSUME NEW n \in Nat, NEW target \in Nat
  PROVE  Mission!ItemStatus(n, target) \in Mission!Statuses
  BY DEF Mission!ItemStatus, Mission!Statuses

\* Every change of a locked task leaves its kind alone, and what it holds exact.
LEMMA EditedIs ==
  ASSUME Mission!MissionsAssumption, NEW j \in Mission!Job, NEW old \in Mission!Row, ExactTask(old), NEW row \in Mission!Edited(j, old)
  PROVE  /\ row \in Mission!Row /\ ExactTask(row) /\ row.type = old.type
         /\ row.assignee = old.assignee \/ Mission!Assignable(row.assignee)
<1>. /\ j.number \in 1..MaxTarget /\ j.assignee \in Mission!Owners /\ MaxTarget \in Nat
     /\ j.kind \in {"create", "assign", "target", "toggle", "give"}
  BY JobIs DEF Mission!MissionsAssumption
<1>1. CASE j.kind = "assign"
  <2>1. Mission!Assignable(j.assignee) /\ row = [old EXCEPT !.assignee = j.assignee]
    BY <1>1 DEF Mission!Edited
  <2>. QED  BY <2>1 DEF Mission!Row, ExactTask
<1>2. CASE j.kind = "target"
  <2>1. old.total <= j.number /\ row = [old EXCEPT !.target = j.number, !.status = Mission!ItemStatus(old.total, j.number)]
    BY <1>2 DEF Mission!Edited
  <2>2. Mission!ItemStatus(old.total, j.number) \in Mission!Statuses  BY ItemStatusIn DEF Mission!Row
  <2>3. /\ row.type = old.type /\ row.target = j.number /\ row.total = old.total
        /\ row.status = Mission!ItemStatus(old.total, j.number) /\ row.assignee = old.assignee
    BY <2>1 DEF Mission!Row
  <2>4. row \in Mission!Row
    <3>1. ASSUME NEW n \in 0..MaxTarget, NEW s \in Mission!Statuses PROVE [old EXCEPT !.target = n, !.status = s] \in Mission!Row
      BY DEF Mission!Row
    <3>2. j.number \in 0..MaxTarget  OBVIOUS
    <3>. QED  BY <2>1, <2>2, <3>1, <3>2
  <2>. QED  BY <2>1, <2>3, <2>4 DEF ExactTask
<1>3. CASE j.kind = "toggle"
  <2>1. PICK s \in {"open", "completed"} : old.type = "checklist" /\ row = [old EXCEPT !.status = s]
    BY <1>3 DEF Mission!Edited
  <2>. QED  BY <2>1 DEF Mission!Row, ExactTask, Mission!Statuses
<1>4. CASE j.kind = "give"
  <2>1. /\ old.type = "item" /\ old.total + j.number <= old.target
        /\ row = [old EXCEPT !.total = @ + j.number, !.status = Mission!ItemStatus(old.total + j.number, old.target)]
    BY <1>4 DEF Mission!Edited
  <2>2. Mission!ItemStatus(old.total + j.number, old.target) \in Mission!Statuses
    BY ItemStatusIn DEF Mission!Row
  <2>3. /\ row.type = old.type /\ row.target = old.target /\ row.total = old.total + j.number
        /\ row.status = Mission!ItemStatus(old.total + j.number, old.target) /\ row.assignee = old.assignee
    BY <2>1 DEF Mission!Row
  <2>4. row \in Mission!Row
    <3>1. ASSUME NEW n \in 0..MaxTarget, NEW s \in Mission!Statuses PROVE [old EXCEPT !.total = n, !.status = s] \in Mission!Row
      BY DEF Mission!Row
    <3>2. old.total + j.number \in 0..MaxTarget  BY <2>1 DEF Mission!Row
    <3>. QED  BY <2>1, <2>2, <3>1, <3>2
  <2>. QED  BY <2>1, <2>3, <2>4 DEF ExactTask
<1>5. CASE j.kind = "create"  BY <1>5 DEF Mission!Edited
<1>. QED  BY <1>1, <1>2, <1>3, <1>4, <1>5

\* What there is of a task that is not there.
LEMMA NoTaskIs == Mission!NoTask.type = "none" /\ Mission!NoTask.assignee = None /\ Mission!NoTask.status = "open"
  BY DEF Mission!NoTask

\* A new mission has no tasks, so it is open.
LEMMA MiInit == ASSUME Mission!MissionsAssumption PROVE Mission!Init => MissionInv
<1>. SUFFICES ASSUME Mission!Init PROVE MissionInv
  OBVIOUS
<1>. USE DEF Mission!Init, Mission!MissionsAssumption
<1>1. Mission!TypeOK
  BY DEF Mission!TypeOK, Mission!Row, Mission!NoTask, Mission!Statuses, Mission!Owners
<1>2. Mission!Exist(tasks) = {}  BY DEF Mission!Exist, Mission!NoTask
<1>3. Committed  BY <1>2 DEF Committed, ExactTask, Mission!NoTask, Mission!Recalculated
<1>4. Apart /\ Excused /\ \A h \in Asks : Carries(h)
  BY DEF Apart, Excused, Carries, Mission!NoTask
<1>. QED  BY <1>1, <1>3, <1>4 DEF MissionInv

\* A transaction ends without a change: its rows are released, the rest is as it was.
LEMMA MissionEnd ==
  ASSUME Mission!MissionsAssumption, MissionInv, NEW h \in Asks, Mission!End(h), UNCHANGED <<Mission!tables, Mission!leave>>
  PROVE  MissionInv'
<1>. USE DEF MissionInv, Mission!End, Mission!Goto, Mission!tables, Mission!leave
<1>1. Mission!TypeOK'
  BY DEF Mission!TypeOK, Mission!Row, Mission!NoTask, Mission!Statuses, Mission!Owners,
     Mission!MissionsAssumption
<1>2. Committed'  BY DEF Committed, ExactTask
<1>3. Apart' /\ Excused'  BY DEF Apart, Excused, Mission!Active, Mission!TypeOK
<1>4. ASSUME NEW g \in Asks PROVE Carries(g)'
  <2>1. CASE g = h  BY <2>1 DEF Carries, Mission!TypeOK
  <2>2. CASE g # h
    <3>. /\ miPc'[g] = miPc[g] /\ job'[g] = job[g] /\ draft'[g] = draft[g] /\ fresh'[g] = fresh[g]
         /\ \A t \in Things : taskLock[t] = g => taskLock'[t] = g
         /\ missionLock = g => missionLock' = g
      BY <2>2 DEF Mission!TypeOK
    <3>. miPc[g] # "new" => job[g].task \in Things  BY JobIs DEF Carries
    <3>. QED  BY DEF Carries, ExactTask
  <2>. QED  BY <2>1, <2>2
<1>. QED  BY <1>1, <1>2, <1>3, <1>4

\* What Carries says of a request that a step leaves alone.
LEMMA KeptCarries ==
  ASSUME Mission!MissionsAssumption, MissionInv, NEW g \in Asks,
         miPc'[g] = miPc[g], job'[g] = job[g], draft'[g] = draft[g], fresh'[g] = fresh[g], tasks' = tasks,
         \A t \in Things : taskLock[t] = g => taskLock'[t] = g,
         missionLock = g => missionLock' = g
  PROVE  Carries(g)'
<1>1. Carries(g)  BY DEF MissionInv
<1>2. miPc[g] # "new" => job[g].task \in Things  BY <1>1, JobIs DEF Carries
<1>. QED  BY <1>1, <1>2 DEF Carries, ExactTask

\* What a request asks for is checked before its transaction begins.
LEMMA MissionBegin ==
  ASSUME Mission!MissionsAssumption, MissionInv, NEW h \in Asks, NEW j \in Mission!Job, Mission!Begin(h, j)
  PROVE  MissionInv'
<1>. USE DEF MissionInv, Mission!Begin, Mission!Goto, Mission!tables, Mission!locks, Mission!leave
<1>1. Mission!TypeOK'  BY DEF Mission!TypeOK, Mission!MissionsAssumption
<1>2. Committed'  BY DEF Committed, ExactTask
<1>3. draft[h] = Mission!NoTask  BY DEF Carries
<1>4. Apart'  BY <1>3 DEF Apart, Mission!TypeOK
<1>5. Excused'  BY DEF Excused, Mission!TypeOK, Mission!Assignable, Mission!Active
<1>6. ASSUME NEW g \in Asks PROVE Carries(g)'
  <2>1. CASE g = h  BY <2>1 DEF Carries, Mission!TypeOK
  <2>2. CASE g # h  BY <2>2, KeptCarries DEF Mission!TypeOK
  <2>. QED  BY <2>1, <2>2
<1>. QED  BY <1>1, <1>2, <1>4, <1>5, <1>6

\* A new task has nothing contributed to it.
LEMMA MissionInsert ==
  ASSUME Mission!MissionsAssumption, MissionInv, NEW h \in Asks, Mission!Insert(h)
  PROVE  MissionInv'
<1>. DEFINE j == job[h]
            row == [type |-> j.type, target |-> IF j.type = "item" THEN j.number ELSE 0, total |-> 0,
                    status |-> "open", assignee |-> j.assignee]
<1>1. /\ miPc[h] = "insert" /\ j \in Mission!Job /\ j.kind = "create" /\ j.task \in Things /\ tasks[j.task] = Mission!NoTask
      /\ draft' = [draft EXCEPT ![h] = row] /\ miPc' = [miPc EXCEPT ![h] = "recalc"] /\ shared' = shared \cup {h}
      /\ \A g \in Asks : ~(draft[g] # Mission!NoTask /\ job[g].task = j.task)
      /\ UNCHANGED <<Mission!tables, job, begun, fresh, taskLock, missionLock, Mission!leave>>
  BY JobIs DEF Mission!Insert, Mission!Goto, MissionInv, Carries
<1>2. row \in Mission!Row /\ ExactTask(row) /\ row.type # "none"
  BY <1>1, JobIs
     DEF Mission!Row, ExactTask, Mission!ItemStatus, Mission!Statuses, Mission!MissionsAssumption
<1>. HIDE DEF row
<1>. USE DEF MissionInv, Mission!tables, Mission!leave
<1>3. Mission!TypeOK'  BY <1>1, <1>2 DEF Mission!TypeOK
<1>4. Committed'  BY <1>1 DEF Committed, ExactTask
<1>5. Apart'
  BY <1>1 DEF Apart, Mission!TypeOK
<1>6. Excused'
  <2>1. row.assignee = j.assignee  BY DEF row
  <2>. QED  BY <1>1, <2>1 DEF Excused, Mission!TypeOK, Mission!Active
<1>7. ASSUME NEW g \in Asks PROVE Carries(g)'
  <2>1. CASE g = h
    BY <1>1, <1>2, <2>1 DEF Carries, Mission!TypeOK, ExactTask
  <2>2. CASE g # h  BY <1>1, <2>2, KeptCarries DEF Mission!TypeOK
  <2>. QED  BY <2>1, <2>2
<1>. QED  BY <1>3, <1>4, <1>5, <1>6, <1>7

\* A task is edited under its lock, so nobody else is going to write it.
LEMMA MissionLock ==
  ASSUME Mission!MissionsAssumption, MissionInv, NEW h \in Asks, Mission!Lock(h)
  PROVE  MissionInv'
<1>. DEFINE t == job[h].task
<1>. USE DEF MissionInv, Mission!Goto, Mission!tables, Mission!leave
<1>1. CASE Mission!End(h)  BY <1>1, MissionEnd DEF Mission!Lock
<1>2. ASSUME NEW row \in Mission!Edited(job[h], tasks[t]),
             draft' = [draft EXCEPT ![h] = row], taskLock' = [taskLock EXCEPT ![t] = h],
             Mission!Goto(h, "note"), UNCHANGED <<job, begun, fresh, missionLock, shared>>
      PROVE  MissionInv'
  <2>1. /\ miPc[h] = "lock" /\ job[h] \in Mission!Job /\ t \in Things /\ tasks[t] # Mission!NoTask /\ taskLock[t] = None
        /\ UNCHANGED <<Mission!tables, Mission!leave>> /\ job[h].kind # "create"
    BY JobIs DEF Mission!Lock, Carries
  <2>2. ExactTask(tasks[t]) /\ tasks[t] \in Mission!Row /\ tasks[t].type # "none"
    BY <2>1 DEF Committed, Mission!TypeOK
  <2>3. /\ row \in Mission!Row /\ ExactTask(row) /\ row.type = tasks[t].type
        /\ row.assignee = tasks[t].assignee \/ Mission!Assignable(row.assignee)
    BY <2>1, <2>2, EditedIs
  <2>4. Mission!TypeOK'  BY <1>2, <2>1, <2>3 DEF Mission!TypeOK
  <2>5. Committed'  BY <2>1 DEF Committed, ExactTask
  <2>6. Apart'
    <3>1. ASSUME NEW g \in Asks, g # h, draft[g] # Mission!NoTask, job[g].task = t PROVE FALSE
      <4>0. miPc[g] \in {"new", "insert", "lock", "note", "recalc", "commit"}  BY DEF Mission!TypeOK
      <4>1. miPc[g] \in {"note", "recalc", "commit"}  BY <3>1, <4>0 DEF Carries
      <4>2. taskLock[t] = g  BY <2>1, <3>1, <4>1 DEF Carries
      <4>. QED  BY <2>1, <4>2 DEF Mission!MissionsAssumption
    <3>. QED  BY <1>2, <3>1 DEF Apart, Mission!TypeOK
  <2>7. Excused'  BY <1>2, <2>1, <2>3 DEF Excused, Mission!TypeOK, Mission!Active, Mission!Assignable
  <2>8. ASSUME NEW g \in Asks PROVE Carries(g)'
    <3>1. CASE g = h
      BY <1>2, <2>1, <2>2, <2>3, <3>1 DEF Carries, Mission!TypeOK, ExactTask
    <3>2. CASE g # h  BY <1>2, <2>1, <3>2, KeptCarries DEF Mission!TypeOK, Mission!MissionsAssumption
    <3>. QED  BY <3>1, <3>2
  <2>. QED  BY <2>4, <2>5, <2>6, <2>7, <2>8
<1>. QED  BY <1>1, <1>2 DEF Mission!Lock

\* A notification changes nothing but the share of the mission.
LEMMA MissionNote ==
  ASSUME Mission!MissionsAssumption, MissionInv, NEW h \in Asks, Mission!Note(h)
  PROVE  MissionInv'
<1>. USE DEF MissionInv, Mission!Note, Mission!Goto, Mission!tables, Mission!leave
<1>1. Mission!TypeOK'  BY DEF Mission!TypeOK
<1>2. Committed' /\ Apart' /\ Excused'
  BY DEF Committed, ExactTask, Apart, Excused, Mission!TypeOK, Mission!Active
<1>3. ASSUME NEW g \in Asks PROVE Carries(g)'
  <2>1. CASE g = h  BY <2>1 DEF Carries, Mission!TypeOK, ExactTask
  <2>2. CASE g # h  BY <2>2, KeptCarries DEF Mission!TypeOK
  <2>. QED  BY <2>1, <2>2
<1>. QED  BY <1>1, <1>2, <1>3

\* The status is computed under the lock of the mission.
LEMMA MissionRecalc ==
  ASSUME Mission!MissionsAssumption, MissionInv, NEW h \in Asks, Mission!Recalc(h)
  PROVE  MissionInv'
<1>. USE DEF MissionInv, Mission!Recalc, Mission!Goto, Mission!tables, Mission!leave
<1>0. missionLock = None  BY DEF Mission!MissionFree
<1>1. Mission!TypeOK'  BY RecalculatedIn DEF Mission!TypeOK
<1>2. Committed' /\ Apart' /\ Excused'
  BY DEF Committed, ExactTask, Apart, Excused, Mission!TypeOK, Mission!Active
<1>3. ASSUME NEW g \in Asks PROVE Carries(g)'
  <2>1. CASE g = h  BY <2>1 DEF Carries, Mission!TypeOK, ExactTask
  <2>2. CASE g # h  BY <1>0, <2>2, KeptCarries DEF Mission!TypeOK, Mission!MissionsAssumption
  <2>. QED  BY <2>1, <2>2
<1>. QED  BY <1>1, <1>2, <1>3

\* What is committed is what the status was computed from.
LEMMA MissionCommit ==
  ASSUME Mission!MissionsAssumption, MissionInv, NEW h \in Asks, Mission!Commit(h)
  PROVE  MissionInv'
<1>. DEFINE t == job[h].task
<1>. USE DEF MissionInv
<1>1. /\ miPc[h] = "commit" /\ job[h] \in Mission!Job /\ t \in Things /\ missionLock = h /\ ExactTask(draft[h])
      /\ draft[h].type # "none" /\ draft[h] # Mission!NoTask /\ draft[h] \in Mission!Row
      /\ fresh[h] = Mission!Recalculated([tasks EXCEPT ![t] = draft[h]])
      /\ tasks' = [tasks EXCEPT ![t] = draft[h]] /\ mission' = fresh[h]
      /\ UNCHANGED <<members, unassigning>> /\ miExcused \subseteq miExcused'
  <2>1. miPc[h] = "commit" /\ Carries(h)  BY DEF Mission!Commit
  <2>2. job[h] \in Mission!Job /\ t \in Things /\ missionLock = h /\ ExactTask(draft[h]) /\ draft[h].type # "none"
    BY <2>1, JobIs DEF Carries
  <2>3. fresh[h] = Mission!Recalculated([tasks EXCEPT ![t] = draft[h]])  BY <2>1 DEF Carries
  <2>4. draft[h] # Mission!NoTask /\ draft[h] \in Mission!Row  BY <2>2, NoTaskIs DEF Mission!TypeOK
  <2>. QED  BY <2>1, <2>2, <2>3, <2>4 DEF Mission!Commit
<1>2. /\ job' = [job EXCEPT ![h] = None] /\ draft' = [draft EXCEPT ![h] = Mission!NoTask] /\ begun' = begun
      /\ miPc' = [miPc EXCEPT ![h] = "new"] /\ fresh' = [fresh EXCEPT ![h] = "open"]
      /\ taskLock' = [x \in Things |-> IF taskLock[x] = h THEN None ELSE taskLock[x]]
      /\ missionLock' = None /\ shared' = shared \ {h}
  BY <1>1 DEF Mission!Commit, Mission!End, Mission!Goto
<1>3. miExcused' = miExcused \cup {t : u \in {x \in Couple :
        draft[h].assignee = x /\ unassigning[x] # None /\ t \notin unassigning[x]}}
  BY DEF Mission!Commit
<1>4. Mission!TypeOK'
  BY <1>1, <1>2, <1>3
     DEF Mission!TypeOK, Mission!Row, Mission!NoTask, Mission!Statuses, Mission!Owners,
        Mission!MissionsAssumption
<1>5. Committed'
  BY <1>1 DEF Committed, Mission!TypeOK, ExactTask
<1>6. Apart'  BY <1>2 DEF Apart, Mission!TypeOK
<1>7. Excused'
  <2>1. draft[h].assignee \in members \cup {None} \/ t \in miExcused  BY <1>1 DEF Excused
  <2>2. \A x \in Things : tasks'[x].assignee \in members' \cup {None} \/ x \in miExcused'
    BY <1>1, <2>1 DEF Excused, Mission!TypeOK
  <2>3. \A g \in Asks :
          /\ miPc'[g] \in {"note", "recalc", "commit"} => draft'[g].assignee \in members' \cup {None} \/ job'[g].task \in miExcused'
          /\ miPc'[g] = "insert" => job'[g].assignee \in members' \cup {None} \/ job'[g].task \in miExcused'
    BY <1>1, <1>2 DEF Excused, Mission!TypeOK
  <2>4. ASSUME NEW u \in Couple, NEW x \in Things, unassigning[u] # None, tasks'[x].assignee = u, Mission!Active(tasks'[x])
        PROVE  x \in unassigning[u] \cup miExcused'
    <3>1. CASE x = t
      BY <1>1, <1>3, <2>4, <3>1 DEF Mission!TypeOK
    <3>2. CASE x # t
      BY <1>1, <2>4, <3>2 DEF Excused, Mission!TypeOK
    <3>. QED  BY <3>1, <3>2
  <2>5. \A x \in Things : Mission!Active(tasks[x])' <=> Mission!Active(tasks'[x])  BY DEF Mission!Active
  <2>. QED  BY <1>1, <2>2, <2>3, <2>4, <2>5 DEF Excused
<1>8. ASSUME NEW g \in Asks PROVE Carries(g)'
  <2>1. CASE g = h  BY <1>2, <2>1 DEF Carries, Mission!TypeOK
  <2>2. CASE g # h
    <3>1. miPc'[g] = miPc[g] /\ job'[g] = job[g] /\ draft'[g] = draft[g] /\ fresh'[g] = fresh[g]
          /\ miPc[g] # "commit"
      <4>1. miPc'[g] = miPc[g] /\ job'[g] = job[g] /\ draft'[g] = draft[g] /\ fresh'[g] = fresh[g]
        BY <1>2, <2>2 DEF Mission!TypeOK
      <4>2. miPc[g] # "commit"  BY <1>1, <2>2 DEF Carries
      <4>. QED  BY <4>1, <4>2
    <3>2. miPc[g] # "new" => job[g].task \in Things  BY JobIs DEF Carries
    <3>3. CASE miPc[g] = "note" \/ miPc[g] = "recalc"
      <4>0. draft[g] # Mission!NoTask  BY <3>3, NoTaskIs DEF Carries
      <4>1. job[g].task # t  BY <1>1, <2>2, <4>0 DEF Apart
      <4>. QED  BY <1>1, <1>2, <2>2, <3>1, <3>2, <3>3, <4>1 DEF Carries, Mission!TypeOK, ExactTask
    <3>4. CASE miPc[g] \in {"new", "insert", "lock"}
      BY <1>1, <1>2, <2>2, <3>1, <3>2, <3>4 DEF Carries, Mission!TypeOK
    <3>. QED  BY <3>1, <3>3, <3>4 DEF Mission!TypeOK
  <2>. QED  BY <2>1, <2>2
<1>. QED  BY <1>4, <1>5, <1>6, <1>7, <1>8

\* A leaving member remembers what his UPDATE matched.
LEMMA MissionLeave ==
  ASSUME Mission!MissionsAssumption, MissionInv, NEW u \in Couple, Mission!Leave(u)
  PROVE  MissionInv'
<1>. USE DEF MissionInv, Mission!Leave, Mission!tables, Mission!locks
<1>1. Mission!TypeOK'  BY DEF Mission!TypeOK, Mission!Unassigned
<1>2. Committed' /\ Apart'  BY DEF Committed, ExactTask, Apart
<1>3. Excused'  BY DEF Excused, Mission!TypeOK, Mission!Unassigned, Mission!Active
<1>4. ASSUME NEW g \in Asks PROVE Carries(g)'  BY KeptCarries
<1>. QED  BY <1>1, <1>2, <1>3, <1>4

\* Somebody who comes back disturbs nothing.
LEMMA MissionJoin ==
  ASSUME Mission!MissionsAssumption, MissionInv, NEW u \in Couple, Mission!Join(u)
  PROVE  MissionInv'
<1>. USE DEF MissionInv, Mission!Join, Mission!locks, Mission!leave
<1>1. Mission!TypeOK'  BY DEF Mission!TypeOK
<1>2. Committed' /\ Apart'  BY DEF Committed, ExactTask, Apart
<1>3. Excused'  BY DEF Excused, Mission!TypeOK, Mission!Active
<1>4. ASSUME NEW g \in Asks PROVE Carries(g)'  BY KeptCarries
<1>. QED  BY <1>1, <1>2, <1>3, <1>4

\* Who has left keeps only tasks that are excused, and statuses do not depend on him.
LEMMA MissionLeft ==
  ASSUME Mission!MissionsAssumption, MissionInv, NEW u \in Couple, Mission!Left(u)
  PROVE  MissionInv'
<1>. DEFINE mine == {t \in Things : tasks[t].assignee = u}
            freed == {t \in unassigning[u] \cap mine : Mission!Active(tasks[t])}
<1>. USE DEF MissionInv
<1>1. /\ unassigning[u] # None /\ unassigning[u] \subseteq Things
      /\ \A t \in unassigning[u] : taskLock[t] = None
      /\ members' = members \ {u}
      /\ tasks' = [t \in Things |-> IF t \in freed THEN [tasks[t] EXCEPT !.assignee = None] ELSE tasks[t]]
      /\ unassigning' = [unassigning EXCEPT ![u] = None]
      /\ miExcused' = miExcused \cup {t \in mine : tasks[t].status = "completed"}
           \cup {job[h].task : h \in {g \in Asks : draft[g] # Mission!NoTask /\ draft[g].assignee = u}}
           \cup {job[h].task : h \in {g \in Asks : miPc[g] = "insert" /\ job[g].assignee = u}}
      /\ UNCHANGED <<mission, miPc, job, begun, draft, fresh, taskLock, missionLock, shared>>
  BY DEF Mission!Left, Mission!locks, Mission!TypeOK
<1>2. \A t \in Things : /\ tasks'[t] \in Mission!Row /\ tasks'[t].type = tasks[t].type /\ tasks'[t].status = tasks[t].status
                        /\ tasks'[t].total = tasks[t].total /\ tasks'[t].target = tasks[t].target
  <2>. SUFFICES ASSUME NEW t \in Things
                PROVE  /\ tasks'[t] \in Mission!Row /\ tasks'[t].type = tasks[t].type /\ tasks'[t].status = tasks[t].status
                       /\ tasks'[t].total = tasks[t].total /\ tasks'[t].target = tasks[t].target
    OBVIOUS
  <2>1. tasks[t] \in Mission!Row  BY DEF Mission!TypeOK
  <2>2. CASE t \in freed
    <3>1. tasks'[t] = [tasks[t] EXCEPT !.assignee = None]  BY <1>1, <2>2
    <3>. QED  BY <2>1, <3>1 DEF Mission!Row, Mission!Owners
  <2>3. CASE t \notin freed
    <3>1. tasks'[t] = tasks[t]  BY <1>1, <2>3
    <3>. QED  BY <2>1, <3>1
  <2>. QED  BY <2>2, <2>3
<1>3. \A g \in Asks : miPc[g] # "new" => job[g].task \in Things  BY JobIs DEF Carries
<1>4. Mission!TypeOK'
  <2>1. \A g \in Asks : draft[g] # Mission!NoTask \/ miPc[g] = "insert" => miPc[g] # "new"
    BY DEF Carries
  <2>2. miExcused' \subseteq Things  BY <1>1, <1>3, <2>1 DEF Mission!TypeOK
  <2>3. tasks' \in [Things -> Mission!Row]  BY <1>1, <1>2
  <2>. QED  BY <1>1, <2>2, <2>3 DEF Mission!TypeOK
<1>5. Committed'
  <2>1. mission' = Mission!Recalculated(tasks')
    BY <1>1, <1>2, RecalculatedSame DEF Committed
  <2>2. \A t \in Things : tasks'[t].type = "none" => tasks'[t] = Mission!NoTask
    BY <1>1, <1>2 DEF Committed, Mission!Active
  <2>3. \A t \in Things : ExactTask(tasks[t])'
    BY <1>2 DEF Committed, ExactTask
  <2>. QED  BY <2>1, <2>2, <2>3 DEF Committed
<1>6. Apart'  BY <1>1 DEF Apart
<1>7. Excused'
  <2>1. \A t \in Things : tasks'[t].assignee \in members' \cup {None} \/ t \in miExcused'
    <3>. SUFFICES ASSUME NEW t \in Things PROVE tasks'[t].assignee \in members' \cup {None} \/ t \in miExcused'
      OBVIOUS
    <3>1. CASE t \in freed  BY <1>1, <3>1 DEF Mission!TypeOK, Mission!Row
    <3>2. CASE t \notin freed /\ t \in mine
      <4>1. CASE Mission!Active(tasks[t])  BY <1>1, <3>2, <4>1 DEF Excused
      <4>2. CASE ~Mission!Active(tasks[t])
        <5>1. tasks[t].type # "none"
          BY <3>2 DEF Committed, Mission!NoTask, Mission!MissionsAssumption
        <5>2. tasks[t].status = "completed"
          BY <4>2, <5>1 DEF Mission!Active, Mission!TypeOK, Mission!Row, Mission!Statuses
        <5>. QED  BY <1>1, <3>2, <5>2
      <4>. QED  BY <4>1, <4>2
    <3>3. CASE t \notin freed /\ t \notin mine  BY <1>1, <3>3 DEF Excused
    <3>. QED  BY <3>1, <3>2, <3>3
  <2>2. ASSUME NEW g \in Asks
        PROVE  /\ miPc'[g] \in {"note", "recalc", "commit"} => draft'[g].assignee \in members' \cup {None} \/ job'[g].task \in miExcused'
               /\ miPc'[g] = "insert" => job'[g].assignee \in members' \cup {None} \/ job'[g].task \in miExcused'
    <3>1. miPc[g] \in {"note", "recalc", "commit"} => draft[g] # Mission!NoTask  BY NoTaskIs DEF Carries
    <3>2. miPc[g] \in {"note", "recalc", "commit"} /\ draft[g].assignee = u => job[g].task \in miExcused'
      BY <1>1, <3>1
    <3>3. miPc[g] = "insert" /\ job[g].assignee = u => job[g].task \in miExcused'
      BY <1>1
    <3>4. miExcused \subseteq miExcused'  BY <1>1
    <3>. QED  BY <1>1, <3>2, <3>3, <3>4 DEF Excused
  <2>3. ASSUME NEW v \in Couple, NEW t \in Things, unassigning'[v] # None, tasks'[t].assignee = v, Mission!Active(tasks'[t])
        PROVE  t \in unassigning'[v] \cup miExcused'
    <3>1. v # u /\ unassigning'[v] = unassigning[v]  BY <1>1, <2>3 DEF Mission!TypeOK
    <3>2. t \notin freed
      BY <1>1, <2>3 DEF Mission!TypeOK, Mission!Row, Mission!MissionsAssumption
    <3>3. Mission!Active(tasks[t]) /\ tasks[t].assignee = v  BY <1>1, <2>3, <3>2
    <3>. QED  BY <1>1, <2>3, <3>1, <3>3 DEF Excused
  <2>4. \A x \in Things : Mission!Active(tasks[x])' <=> Mission!Active(tasks'[x])  BY DEF Mission!Active
  <2>. QED  BY <2>1, <2>2, <2>3, <2>4 DEF Excused
<1>8. ASSUME NEW g \in Asks PROVE Carries(g)'
  <2>1. CASE miPc[g] = "new"  BY <1>1, <2>1 DEF Carries
  <2>2. CASE miPc[g] # "new"
    <3>. DEFINE t == job[g].task
    <3>1. t \in Things  BY <1>3, <2>2
    <3>2. tasks[t] # Mission!NoTask <=> tasks'[t] # Mission!NoTask
      BY <1>1, <1>2, <3>1 DEF Committed, Mission!NoTask, Mission!Active
    <3>3. miPc[g] = "commit" => Mission!Recalculated([tasks EXCEPT ![t] = draft[g]]) = Mission!Recalculated([tasks' EXCEPT ![t] = draft[g]])
      <4>1. \A x \in Things : /\ [tasks EXCEPT ![t] = draft[g]][x].type = [tasks' EXCEPT ![t] = draft[g]][x].type
                              /\ [tasks EXCEPT ![t] = draft[g]][x].status = [tasks' EXCEPT ![t] = draft[g]][x].status
        BY <1>1, <1>2, <3>1 DEF Mission!TypeOK
      <4>. QED  BY <4>1, RecalculatedSame
    <3>. QED  BY <1>1, <2>2, <3>1, <3>2, <3>3 DEF Carries, ExactTask
  <2>. QED  BY <2>1, <2>2
<1>. QED  BY <1>4, <1>5, <1>6, <1>7, <1>8

\* Every step of requests and members keeps the invariant.
LEMMA MiStep ==
  ASSUME Mission!MissionsAssumption, MissionInv, [Mission!Next]_(Mission!vars)
  PROVE  MissionInv'
<1>1. ASSUME NEW g \in Asks, NEW h \in Asks, Mission!Abort(g, h) PROVE MissionInv'
  BY <1>1, MissionEnd DEF Mission!Abort
<1>2. CASE UNCHANGED Mission!vars
  BY <1>2, KeptCarries
     DEF Mission!vars, Mission!tables, Mission!locks, Mission!leave, MissionInv, Mission!TypeOK,
        Committed, ExactTask, Apart, Excused, Mission!Active
<1>. QED
  BY <1>1, <1>2, MissionBegin, MissionInsert, MissionLock, MissionNote, MissionRecalc, MissionCommit, MissionLeave, MissionLeft, MissionJoin
     DEF Mission!Next

\* Whatever the other parts do, a mission keeps its invariant.
LEMMA MissionInvariance == PartsSpec => []MissionInv
<1>1. Mission!MissionsAssumption  BY PartsAssumption
<1>. QED  BY <1>1, MiInit, MiStep, CommunityFollows, PTL DEF Mission!Spec

\* Whatever requests run, are refused or are aborted in a deadlock, every committed item
\* holds at most its target and has the status that follows, and so has the mission.
THEOREM Progress == PartsSpec => []ProgressIsExact
<1>1. ASSUME MissionInv PROVE ProgressIsExact
  BY <1>1 DEF MissionInv, Committed, ExactTask, Mission!Exist, ProgressIsExact, Mission!ProgressIsExact
<1>. QED  BY <1>1, MissionInvariance, PTL

\* Only a task that was completed or being assigned when somebody left is his afterwards.
THEOREM Strays == PartsSpec => []StrayAssignments
<1>1. ASSUME MissionInv PROVE StrayAssignments
  BY <1>1 DEF MissionInv, Excused, StrayAssignments, Mission!StrayAssignments
<1>. QED  BY <1>1, MissionInvariance, PTL
=============================================================================
