----------------------- MODULE TelemetryPresenceProofs -----------------------
(***************************************************************************)
(* Proofs about TelemetryPresence, for any number of devices, accounts and *)
(* concurrent requests.                                                    *)
(*                                                                         *)
(* The safety argument in one line: a request that decides holds the row   *)
(* locks under which its device was seen paired and its account active, so *)
(* whatever takes the device out of service waits for it, and the snapshot *)
(* it writes is gone once the device is.                                   *)
(***************************************************************************)
EXTENDS TelemetryPresence, TLAPS

USE PresenceAssumption DEF PresenceAssumption, tables, management, handlerVars

\* A request past the first lookup carries a revision that can be stored.
PayloadsAreValid ==
  \A h \in Handlers :
    pc[h] \in {"lockDevice", "lockAccount", "decide"} => ValidPayload(req[h])

IInv ==
  /\ TypeOK
  /\ PayloadsAreValid
  /\ OneDeciderPerRow
  /\ PresenceIsCurrent
  /\ VerdictNamesTheMark
-----------------------------------------------------------------------------
\* What a reply and a move of a handler do to the handlers' own variables.
LEMMA ReplyTypes ==
  ASSUME TypeOK, NEW h \in Handlers, NEW code \in Codes, NEW r \in 0..MaxRevision,
         pc[h] # "idle", Reply(h, code, r)
  PROVE  /\ pc' \in [Handlers -> {"idle", "received", "lockDevice", "lockAccount",
                                  "decide", "reauth", "answered"}]
         /\ req' = req
         /\ ans' \in [Handlers -> Answer \cup {None}]
         /\ pc'[h] = "answered" /\ ans'[h] = [code |-> code, rev |-> r]
         /\ \A g \in Handlers \ {h} : pc'[g] = pc[g] /\ ans'[g] = ans[g]
         /\ \A g \in Handlers : pc'[g] # "idle" => req'[g] \in Request
         /\ \A g \in Handlers : pc'[g] = "answered" => ans'[g] \in Answer
  BY DEF TypeOK, Reply, Answer

LEMMA GotoTypes ==
  ASSUME TypeOK, NEW h \in Handlers,
         NEW label \in {"lockDevice", "lockAccount", "decide", "reauth"},
         pc[h] # "idle", Goto(h, label)
  PROVE  /\ pc' \in [Handlers -> {"idle", "received", "lockDevice", "lockAccount",
                                  "decide", "reauth", "answered"}]
         /\ req' = req /\ ans' = ans
         /\ pc'[h] = label
         /\ \A g \in Handlers \ {h} : pc'[g] = pc[g]
         /\ \A g \in Handlers : pc'[g] # "idle" => req'[g] \in Request
         /\ \A g \in Handlers : pc'[g] = "answered" => ans'[g] \in Answer
  BY DEF TypeOK, Goto

\* A lookup of a credential answers with a code.
LEMMA AuthenticationCodes ==
  ASSUME TypeOK, PresenceAssumption, NEW d \in Devices
  PROVE  /\ Authentication(d) # "authenticated" => Authentication(d) \in Codes
         /\ Authentication(d) = "authenticated" <=> Admissible(d)
  BY DEF TypeOK, Authentication, Admissible, Codes

-----------------------------------------------------------------------------
LEMMA InitIInv == Init => IInv
  BY DEF Init, IInv, TypeOK, PayloadsAreValid, OneDeciderPerRow, PresenceIsCurrent,
         VerdictNamesTheMark, HoldsDevice, HoldsAccount

LEMMA TypeStep ==
  ASSUME TypeOK, PayloadsAreValid, [Next]_vars
  PROVE  TypeOK' /\ PayloadsAreValid'
<1>1. ASSUME NEW h \in Handlers, NEW r \in Request, Receive(h, r)
      PROVE  TypeOK' /\ PayloadsAreValid'
  BY <1>1 DEF Receive, TypeOK, PayloadsAreValid
<1>2. ASSUME NEW h \in Handlers, NEW code \in Codes, NEW r \in 0..MaxRevision,
             pc[h] # "idle", Reply(h, code, r), UNCHANGED <<tables, management>>
      PROVE  TypeOK' /\ PayloadsAreValid'
  BY <1>2, ReplyTypes DEF TypeOK, PayloadsAreValid
<1>3. ASSUME NEW h \in Handlers, pc[h] # "idle",
             NEW label \in {"lockDevice", "lockAccount", "decide", "reauth"},
             label \in {"lockDevice", "lockAccount", "decide"} => ValidPayload(req[h]),
             Goto(h, label), UNCHANGED <<tables, management>>
      PROVE  TypeOK' /\ PayloadsAreValid'
  BY <1>3, GotoTypes DEF TypeOK, PayloadsAreValid
<1>4. ASSUME NEW h \in Handlers, RateLimited(h) \/ Fail(h)
      PROVE  TypeOK' /\ PayloadsAreValid'
  BY <1>4, <1>2 DEF RateLimited, Fail, Codes
<1>5. ASSUME NEW h \in Handlers, Authenticate(h)
      PROVE  TypeOK' /\ PayloadsAreValid'
  BY <1>5, <1>2, <1>3, AuthenticationCodes DEF Authenticate, Codes, TypeOK, Request
<1>6. ASSUME NEW h \in Handlers, Await(h)
      PROVE  TypeOK' /\ PayloadsAreValid'
  BY <1>6, <1>3 DEF Await, LockDevice, LockAccount, NoOwner, PayloadsAreValid
<1>7. ASSUME NEW h \in Handlers, Reauthenticate(h)
      PROVE  TypeOK' /\ PayloadsAreValid'
  <2>1. pc[h] = "reauth" /\ UNCHANGED <<tables, management>>  BY <1>7 DEF Reauthenticate
  <2>2. PICK code \in Codes : Reply(h, code, 0)
    BY <1>7, AuthenticationCodes DEF Reauthenticate, Codes, TypeOK, Request
  <2>. QED  BY <1>2, <2>1, <2>2, PresenceAssumption DEF PresenceAssumption
<1>8. ASSUME NEW h \in Handlers, StaleRevision(h) \/ Duplicate(h) \/ RevisionConflict(h)
      PROVE  TypeOK' /\ PayloadsAreValid'
  BY <1>8, <1>2 DEF StaleRevision, Duplicate, RevisionConflict, Codes, TypeOK, Request
<1>9. ASSUME NEW h \in Handlers, Accept(h)
      PROVE  TypeOK' /\ PayloadsAreValid'
  <2> DEFINE d == req[h].dev  r == req[h].rev  s == req[h].snap
  <2>1. /\ d \in Devices /\ r \in 1..MaxRevision /\ s \in Snapshots
        /\ pc[h] = "decide"
    BY <1>9 DEF Accept, TypeOK, Request, PayloadsAreValid, ValidPayload
  <2>2. PICK code \in Codes, told \in 0..MaxRevision : Reply(h, code, told)
    BY <1>9, <2>1 DEF Accept, Codes
  <2>3. /\ mark' = [mark EXCEPT ![d] = r]
        /\ presence' = (presence \ RowsOf({d}))
                          \cup {[dev |-> d, rev |-> r, snap |-> Project(s)]}
        /\ history' = HistoryAfter(d, r, s.place)
        /\ UNCHANGED <<device, account, management>>
    BY <1>9 DEF Accept, Upsert
  <2>4. mark' \in [Devices -> 0..MaxRevision]
    BY <2>1, <2>3 DEF TypeOK
  <2>5. presence' \subseteq PresenceRow
    BY <2>1, <2>3 DEF TypeOK, PresenceRow, RowsOf, Project, Snapshots, Projections
  <2>6. history' \subseteq HistoryRow
    BY <2>1, <2>3 DEF TypeOK, HistoryRow, HistoryAfter, Snapshots
  <2> QED
    BY <2>1, <2>2, <2>3, <2>4, <2>5, <2>6, ReplyTypes DEF TypeOK, PayloadsAreValid
<1>10. ASSUME NEW h \in Handlers, Respond(h)
       PROVE  TypeOK' /\ PayloadsAreValid'
  BY <1>10 DEF Respond, TypeOK, PayloadsAreValid
<1>11. ASSUME NEW d \in Devices, RequestRevoke(d) \/ RevokeDevice(d) \/ ExpireHistory(d)
       PROVE  TypeOK' /\ PayloadsAreValid'
  BY <1>11 DEF RequestRevoke, RevokeDevice, ExpireHistory, RowsOf, HistoryOf,
               TypeOK, PayloadsAreValid
<1>12. ASSUME NEW a \in Accounts,
              \/ RequestClear(a) \/ DeleteHistory(a) \/ Deactivate(a)
              \/ Reactivate(a) \/ BeginPurge(a) \/ FinishPurge(a) \/ AbortPurge(a)
       PROVE  TypeOK' /\ PayloadsAreValid'
  BY <1>12 DEF RequestClear, DeleteHistory, Deactivate, Reactivate, BeginPurge,
               FinishPurge, AbortPurge, RowsOf, HistoryOf, DevicesOf,
               TypeOK, PayloadsAreValid
<1>13. CASE Restart
  BY <1>13 DEF Restart, TypeOK, PayloadsAreValid
<1>14. CASE UNCHANGED vars
  BY <1>14 DEF vars, TypeOK, PayloadsAreValid
<1> QED
  BY <1>1, <1>4, <1>5, <1>6, <1>7, <1>8, <1>9, <1>10, <1>11, <1>12, <1>13, <1>14
     DEF Next, Handle, Work, Manage, ResolveDeadlock
-----------------------------------------------------------------------------
\* Rows are locked by one handler at a time, and what a decider has read under
\* its locks stays so.
LEMMA LocksStep ==
  ASSUME TypeOK, TypeOK', OneDeciderPerRow, [Next]_vars
  PROVE  OneDeciderPerRow'
<1>1. ASSUME NEW h \in Handlers,
             UNCHANGED <<device, account>>, req' = req,
             pc'[h] \notin {"lockAccount", "decide"},
             \A g \in Handlers \ {h} : pc'[g] = pc[g]
      PROVE  OneDeciderPerRow'
  BY <1>1 DEF OneDeciderPerRow, HoldsDevice, HoldsAccount, Admissible
<1>2. ASSUME NEW h \in Handlers, NEW code \in Codes, NEW r \in 0..MaxRevision,
             pc[h] # "idle", Reply(h, code, r), UNCHANGED <<device, account>>
      PROVE  OneDeciderPerRow'
  BY <1>1, <1>2, ReplyTypes
<1>3. ASSUME NEW h \in Handlers, pc[h] # "idle", NEW label \in {"lockDevice", "reauth"},
             Goto(h, label), UNCHANGED <<device, account>>
      PROVE  OneDeciderPerRow'
  BY <1>1, <1>3, GotoTypes
<1>4. ASSUME NEW h \in Handlers, NEW r \in Request, Receive(h, r)
      PROVE  OneDeciderPerRow'
  BY <1>4 DEF Receive, OneDeciderPerRow, HoldsDevice, HoldsAccount, Admissible, TypeOK
<1>5. ASSUME NEW h \in Handlers, RateLimited(h) \/ Fail(h)
      PROVE  OneDeciderPerRow'
  BY <1>5, <1>2 DEF RateLimited, Fail, Codes
<1>6. ASSUME NEW h \in Handlers, Authenticate(h)
      PROVE  OneDeciderPerRow'
  BY <1>6, <1>2, <1>3, AuthenticationCodes DEF Authenticate, Codes, TypeOK, Request
<1>7. ASSUME NEW h \in Handlers, LockDevice(h)
      PROVE  OneDeciderPerRow'
  <2>1. /\ req' = req /\ pc'[h] = "lockAccount" /\ UNCHANGED <<device, account>>
        /\ \A g \in Handlers \ {h} : pc'[g] = pc[g]
    BY <1>7 DEF LockDevice, TypeOK, Goto
  <2>2. \A g \in Handlers : ~HoldsDevice(g, req[h].dev)
    BY <1>7 DEF LockDevice, DeviceRowFree
  <2> QED
    BY <2>1, <2>2 DEF OneDeciderPerRow, HoldsDevice, HoldsAccount, Admissible
<1>8. ASSUME NEW h \in Handlers, LockAccount(h)
      PROVE  OneDeciderPerRow'
  <2>1. /\ req' = req /\ pc[h] = "lockAccount" /\ pc'[h] = "decide"
        /\ UNCHANGED <<device, account>>
        /\ \A g \in Handlers \ {h} : pc'[g] = pc[g]
    BY <1>8 DEF LockAccount, TypeOK, Goto
  <2>2. /\ Admissible(req[h].dev)
        /\ \A g \in Handlers : ~HoldsAccount(g, Owner[req[h].dev])
    BY <1>8 DEF LockAccount, AccountRowFree
  <2> QED
    BY <2>1, <2>2 DEF OneDeciderPerRow, HoldsDevice, HoldsAccount, Admissible
<1>9. ASSUME NEW h \in Handlers, NoOwner(h)
      PROVE  OneDeciderPerRow'
  BY <1>9, <1>3 DEF NoOwner
<1>10. ASSUME NEW h \in Handlers, Reauthenticate(h)
       PROVE  OneDeciderPerRow'
  BY <1>10, <1>2, AuthenticationCodes DEF Reauthenticate, Codes, TypeOK, Request
<1>11. ASSUME NEW h \in Handlers,
              StaleRevision(h) \/ Duplicate(h) \/ RevisionConflict(h)
       PROVE  OneDeciderPerRow'
  BY <1>11, <1>2 DEF StaleRevision, Duplicate, RevisionConflict, Codes, TypeOK, Request
<1>12. ASSUME NEW h \in Handlers, Accept(h)
       PROVE  OneDeciderPerRow'
  <2>1. /\ req' = req /\ pc'[h] = "answered" /\ UNCHANGED <<device, account>>
        /\ \A g \in Handlers \ {h} : pc'[g] = pc[g]
    BY <1>12 DEF Accept, Reply, TypeOK
  <2> QED
    BY <2>1, <1>1
<1>13. ASSUME NEW h \in Handlers, Respond(h)
       PROVE  OneDeciderPerRow'
  BY <1>13 DEF Respond, OneDeciderPerRow, HoldsDevice, HoldsAccount, Admissible, TypeOK
<1>14. ASSUME NEW d \in Devices, RequestRevoke(d) \/ ExpireHistory(d)
       PROVE  OneDeciderPerRow'
  BY <1>14 DEF RequestRevoke, ExpireHistory, OneDeciderPerRow, HoldsDevice, HoldsAccount,
               Admissible
<1>15. ASSUME NEW d \in Devices, RevokeDevice(d)
       PROVE  OneDeciderPerRow'
  BY <1>15 DEF RevokeDevice, OneDeciderPerRow, HoldsDevice, HoldsAccount, Admissible,
               DeviceRowFree, TypeOK, Request
<1>16. ASSUME NEW a \in Accounts,
              RequestClear(a) \/ DeleteHistory(a) \/ BeginPurge(a) \/ AbortPurge(a)
       PROVE  OneDeciderPerRow'
  BY <1>16 DEF RequestClear, DeleteHistory, BeginPurge, AbortPurge,
               OneDeciderPerRow, HoldsDevice, HoldsAccount, Admissible
<1>17. ASSUME NEW a \in Accounts, Deactivate(a) \/ Reactivate(a)
       PROVE  OneDeciderPerRow'
  BY <1>17 DEF Deactivate, Reactivate, OneDeciderPerRow, HoldsDevice, HoldsAccount,
               Admissible, AccountRowFree, TypeOK, Request
<1>18. ASSUME NEW a \in Accounts, FinishPurge(a)
       PROVE  OneDeciderPerRow'
  BY <1>18 DEF FinishPurge, OneDeciderPerRow, HoldsDevice, HoldsAccount, Admissible,
               DeviceRowFree, DevicesOf, TypeOK, Request
<1>19. CASE Restart
  BY <1>19 DEF Restart, OneDeciderPerRow, HoldsDevice, HoldsAccount, TypeOK
<1>20. CASE UNCHANGED vars
  BY <1>20 DEF vars, OneDeciderPerRow, HoldsDevice, HoldsAccount, Admissible
<1> QED
  BY <1>4, <1>5, <1>6, <1>7, <1>8, <1>9, <1>10, <1>11, <1>12, <1>13, <1>14, <1>15,
     <1>16, <1>17, <1>18, <1>19, <1>20
     DEF Next, Handle, Work, Await, Manage, ResolveDeadlock

\* Every step either is an Accept or leaves the marks and adds no snapshot; a
\* step that takes a device out of service removes its snapshot.
LEMMA PresenceEffect ==
  ASSUME TypeOK, [Next]_vars
  PROVE  \/ \E h \in Handlers : Accept(h)
         \/ /\ mark' = mark
            /\ presence' \subseteq presence
            /\ history' \subseteq history
            /\ \A row \in presence' : Admissible(row.dev) => Admissible(row.dev)'
<1>1. ASSUME NEW h \in Handlers, Work(h)
      PROVE  Accept(h) \/ UNCHANGED tables
  BY <1>1 DEF Work, Authenticate, Reauthenticate, StaleRevision, Duplicate, RevisionConflict
<1>2. ASSUME NEW h \in Handlers,
             \/ Await(h) \/ RateLimited(h) \/ Fail(h) \/ Respond(h)
             \/ \E r \in Request : Receive(h, r)
      PROVE  UNCHANGED tables
  BY <1>2 DEF Await, LockDevice, LockAccount, NoOwner, RateLimited, Fail, Respond, Receive
<1>3. ASSUME NEW d \in Devices, RequestRevoke(d) \/ ExpireHistory(d)
      PROVE  UNCHANGED <<device, account, mark, presence>> /\ history' \subseteq history
  BY <1>3 DEF RequestRevoke, ExpireHistory
<1>4. ASSUME NEW d \in Devices, RevokeDevice(d)
      PROVE  /\ mark' = mark /\ history' = history
             /\ presence' \subseteq presence
             /\ \A row \in presence' : Admissible(row.dev) => Admissible(row.dev)'
  <2>1. CASE UNCHANGED <<device, presence>>
    BY <1>4, <2>1 DEF RevokeDevice, Admissible
  <2>2. CASE /\ device' = [device EXCEPT ![d] = "revoked"]
             /\ presence' = presence \ RowsOf({d})
    <3>1. \A row \in presence' : row.dev # d /\ row \in presence
      BY <2>2 DEF RowsOf
    <3>2. \A row \in presence' : device'[row.dev] = device[row.dev]
      BY <2>2, <3>1 DEF TypeOK, PresenceRow
    <3> QED
      BY <1>4, <2>2, <3>1, <3>2 DEF RevokeDevice, Admissible
  <2> QED
    BY <1>4, <2>1, <2>2 DEF RevokeDevice
<1>5. ASSUME NEW a \in Accounts,
             RequestClear(a) \/ DeleteHistory(a) \/ BeginPurge(a) \/ AbortPurge(a)
      PROVE  UNCHANGED <<device, account, mark, presence>> /\ history' \subseteq history
  BY <1>5 DEF RequestClear, DeleteHistory, BeginPurge, AbortPurge
<1>6. ASSUME NEW a \in Accounts, Deactivate(a) \/ FinishPurge(a)
      PROVE  /\ mark' = mark /\ history' \subseteq history
             /\ presence' \subseteq presence
             /\ \A row \in presence' : Admissible(row.dev) => Admissible(row.dev)'
  <2>1. \A row \in presence' : row \in presence /\ row.dev \in Devices /\ Owner[row.dev] # a
    BY <1>6 DEF Deactivate, FinishPurge, RowsOf, DevicesOf, TypeOK, PresenceRow
  <2>2. \A row \in presence' : /\ device'[row.dev] = device[row.dev]
                              /\ account'[Owner[row.dev]] = account[Owner[row.dev]]
    BY <1>6, <2>1 DEF Deactivate, FinishPurge, TypeOK
  <2> QED
    BY <1>6, <2>1, <2>2 DEF Deactivate, FinishPurge, Admissible
<1>7. ASSUME NEW a \in Accounts, Reactivate(a)
      PROVE  /\ UNCHANGED <<mark, history, presence>>
             /\ \A row \in presence' : Admissible(row.dev) => Admissible(row.dev)'
  BY <1>7 DEF Reactivate, Admissible, TypeOK
<1>8. ASSUME Restart \/ UNCHANGED vars
      PROVE  UNCHANGED tables
  BY <1>8 DEF Restart, vars
<1>9. ASSUME UNCHANGED <<device, account>>, NEW d
      PROVE  Admissible(d) <=> Admissible(d)'
  BY <1>9 DEF Admissible
<1> QED
  BY <1>1, <1>2, <1>3, <1>4, <1>5, <1>6, <1>7, <1>8, <1>9
     DEF Next, Handle, Manage, ResolveDeadlock

\* What an Accept does, with the types of what it does it to.
AcceptEffect(h) ==
  LET d == req[h].dev  r == req[h].rev  s == req[h].snap IN
  /\ pc[h] = "decide" /\ pc'[h] = "answered"
  /\ d \in Devices /\ r \in 1..MaxRevision /\ s \in Snapshots
  /\ mark[d] < r /\ mark'[d] = r
  /\ \A e \in Devices \ {d} : mark'[e] = mark[e]
  /\ \A row : row \in presence' <=>
       \/ row = [dev |-> d, rev |-> r, snap |-> Project(s)]
       \/ row \in presence /\ row.dev # d
  /\ history' = HistoryAfter(d, r, s.place)
  /\ UNCHANGED <<device, account, req>>
  /\ \/ ans'[h] = [code |-> "accepted", rev |-> r]
     \/ ans'[h] = [code |-> "server_unavailable", rev |-> 0]
  /\ \A g \in Handlers \ {h} : pc'[g] = pc[g] /\ ans'[g] = ans[g]

LEMMA AcceptHasEffect ==
  ASSUME TypeOK, PayloadsAreValid, NEW h \in Handlers, Accept(h)
  PROVE  AcceptEffect(h)
  BY DEF AcceptEffect, Accept, Upsert, Reply, TypeOK, Request, PayloadsAreValid,
         ValidPayload, RowsOf

LEMMA PresenceStep ==
  ASSUME TypeOK, PayloadsAreValid, OneDeciderPerRow,
         PresenceIsCurrent, [Next]_vars
  PROVE  PresenceIsCurrent'
<1>1. ASSUME NEW h \in Handlers, Accept(h)
      PROVE  PresenceIsCurrent'
  <2> DEFINE d == req[h].dev
             new == [dev |-> d, rev |-> req[h].rev, snap |-> Project(req[h].snap)]
  <2>1. AcceptEffect(h)
    BY <1>1, AcceptHasEffect
  <2>2. Admissible(d)
    BY <2>1 DEF AcceptEffect, OneDeciderPerRow
  <2>3. ASSUME NEW row \in presence'
        PROVE  Admissible(row.dev)' /\ row.rev = mark'[row.dev] /\ RowsOf({row.dev})' = {row}
    <3>1. CASE row = new
      BY <2>1, <2>2, <3>1 DEF AcceptEffect, RowsOf, Admissible
    <3>2. CASE row \in presence /\ row.dev # d
      <4>1. RowsOf({row.dev})' = RowsOf({row.dev})
        BY <2>1, <3>2 DEF AcceptEffect, RowsOf
      <4> QED
        BY <2>1, <3>2, <4>1
           DEF AcceptEffect, TypeOK, PresenceRow, Admissible, PresenceIsCurrent
    <3> QED
      BY <2>1, <2>3, <3>1, <3>2 DEF AcceptEffect
  <2> QED
    BY <2>3 DEF PresenceIsCurrent
<1>2. ASSUME mark' = mark, presence' \subseteq presence,
             \A row \in presence' : Admissible(row.dev) => Admissible(row.dev)'
      PROVE  PresenceIsCurrent'
  BY <1>2 DEF PresenceIsCurrent, RowsOf
<1> QED
  BY <1>1, <1>2, PresenceEffect

\* Marks never go back.
LEMMA MarkStep ==
  ASSUME TypeOK, PayloadsAreValid, [Next]_vars, NEW d \in Devices
  PROVE  mark[d] <= mark'[d]
<1>1. ASSUME NEW h \in Handlers, Accept(h)
      PROVE  mark[d] <= mark'[d]
  <2>1. AcceptEffect(h)
    BY <1>1, AcceptHasEffect
  <2> QED
    BY <2>1 DEF AcceptEffect, TypeOK
<1> QED
  BY <1>1, PresenceEffect DEF TypeOK

\* A handler comes to an answer by an action of its own, and an answer stands
\* until its handler has sent it.
LEMMA OnlyItself ==
  ASSUME TypeOK, [Next]_vars, NEW h \in Handlers, pc'[h] = "answered"
  PROVE  \/ pc[h] = "answered" /\ req'[h] = req[h] /\ ans'[h] = ans[h]
         \/ pc[h] = "received" /\ (RateLimited(h) \/ Authenticate(h))
         \/ pc[h] = "reauth" /\ Reauthenticate(h)
         \/ pc[h] = "decide" /\ (\/ StaleRevision(h) \/ Duplicate(h)
                                \/ RevisionConflict(h) \/ Accept(h))
         \/ pc[h] \notin {"idle", "answered"} /\ Fail(h)
<1>1. ASSUME NEW g \in Handlers, Handle(g) \/ \E r \in Request : Receive(g, r), g # h
      PROVE  pc'[h] = pc[h] /\ req'[h] = req[h] /\ ans'[h] = ans[h]
  BY <1>1 DEF Handle, Work, Await, RateLimited, Authenticate, Reauthenticate,
              StaleRevision, Duplicate, RevisionConflict, Accept, LockDevice,
              LockAccount, NoOwner, Fail, Respond, Receive, Goto, Reply, TypeOK
<1>2. ASSUME NEW g \in Handlers, Fail(g), g # h
      PROVE  pc'[h] = pc[h] /\ req'[h] = req[h] /\ ans'[h] = ans[h]
  BY <1>2 DEF Fail, Reply, TypeOK
<1>3. ASSUME Handle(h) \/ \E r \in Request : Receive(h, r)
      PROVE  \/ RateLimited(h) \/ Authenticate(h) \/ Reauthenticate(h)
             \/ StaleRevision(h) \/ Duplicate(h) \/ RevisionConflict(h) \/ Accept(h)
             \/ Fail(h)
  BY <1>3 DEF Handle, Work, Await, LockDevice, LockAccount, NoOwner, Respond, Receive,
              Goto, TypeOK
<1>4. ASSUME NEW d \in Devices, RequestRevoke(d) \/ RevokeDevice(d) \/ ExpireHistory(d)
      PROVE  UNCHANGED <<pc, req, ans>>
  BY <1>4 DEF RequestRevoke, RevokeDevice, ExpireHistory
<1>5. ASSUME NEW a \in Accounts,
             \/ RequestClear(a) \/ DeleteHistory(a) \/ Deactivate(a)
             \/ Reactivate(a) \/ BeginPurge(a) \/ FinishPurge(a) \/ AbortPurge(a)
      PROVE  UNCHANGED <<pc, req, ans>>
  BY <1>5 DEF RequestClear, DeleteHistory, Deactivate, Reactivate, BeginPurge,
              FinishPurge, AbortPurge
<1>6. ASSUME Restart PROVE pc'[h] = "idle"
  BY <1>6 DEF Restart
<1>7. ASSUME UNCHANGED vars PROVE UNCHANGED <<pc, req, ans>>
  BY <1>7 DEF vars
<1>8. \/ \E g \in Handlers : g # h /\ (Handle(g) \/ \E r \in Request : Receive(g, r))
      \/ Handle(h) \/ \E r \in Request : Receive(h, r)
      \/ \E g \in Handlers : g # h /\ Fail(g)
      \/ UNCHANGED <<pc, req, ans>>
      \/ Fail(h)
  BY <1>4, <1>5, <1>6, <1>7 DEF Next, Manage, ResolveDeadlock
<1>9. /\ Fail(h) => pc[h] \notin {"idle", "answered"}
      /\ RateLimited(h) \/ Authenticate(h) => pc[h] = "received"
      /\ Reauthenticate(h) => pc[h] = "reauth"
      /\ StaleRevision(h) \/ Duplicate(h) \/ RevisionConflict(h) \/ Accept(h)
         => pc[h] = "decide"
  BY DEF Fail, RateLimited, Authenticate, Reauthenticate, StaleRevision, Duplicate,
         RevisionConflict, Accept
<1> QED
  BY <1>1, <1>2, <1>3, <1>8, <1>9

\* What an answer of h says of its request.
VerdictOf(h) ==
  LET sent == req[h].rev  told == ans[h].rev  d == req[h].dev IN
  CASE ans[h].code \in {"accepted", "duplicate", "revision_conflict"} ->
         sent = told /\ told <= mark[d]
    [] ans[h].code = "stale_revision" -> sent < told /\ told <= mark[d]
    [] OTHER -> told = 0

LEMMA VerdictKept ==
  ASSUME TypeOK, PayloadsAreValid, [Next]_vars, NEW h \in Handlers,
         pc[h] = "answered", VerdictOf(h), req'[h] = req[h], ans'[h] = ans[h]
  PROVE  VerdictOf(h)'
<1>1. /\ req[h] \in Request /\ ans[h] \in Answer
  BY DEF TypeOK
<1>2. mark[req[h].dev] <= mark'[req[h].dev]
  BY <1>1, MarkStep DEF Request
<1>3. /\ mark[req[h].dev] \in Int /\ ans[h].rev \in Int /\ req[h].rev \in Int
  BY <1>1 DEF TypeOK, Request, Answer
<1>4. mark'[req[h].dev] \in Int
  BY <1>1, TypeStep DEF TypeOK, Request
<1> QED
  BY <1>2, <1>3, <1>4 DEF VerdictOf

LEMMA VerdictStep ==
  ASSUME TypeOK, PayloadsAreValid, VerdictNamesTheMark, [Next]_vars
  PROVE  VerdictNamesTheMark'
<1> SUFFICES ASSUME NEW h \in Handlers, pc'[h] = "answered"
             PROVE  VerdictOf(h)'
  BY DEF VerdictNamesTheMark, VerdictOf
<1>1. ASSUME pc[h] = "answered", req'[h] = req[h], ans'[h] = ans[h]
      PROVE  VerdictOf(h)'
  BY <1>1, VerdictKept DEF VerdictNamesTheMark, VerdictOf
<1>2. ASSUME NEW code \in Codes \ {"accepted", "duplicate", "revision_conflict", "stale_revision"},
             pc[h] # "idle", Reply(h, code, 0)
      PROVE  VerdictOf(h)'
  BY <1>2 DEF Reply, VerdictOf, TypeOK
<1>3. CASE pc[h] = "decide"
  <2>1. CASE StaleRevision(h)
    BY <2>1 DEF StaleRevision, Reply, VerdictOf, TypeOK, Request
  <2>2. CASE Duplicate(h)
    BY <2>2 DEF Duplicate, Reply, VerdictOf, TypeOK, Request
  <2>3. CASE RevisionConflict(h)
    BY <2>3 DEF RevisionConflict, Reply, VerdictOf, TypeOK, Request
  <2>4. CASE Accept(h)
    <3>1. AcceptEffect(h)
      BY <2>4, AcceptHasEffect
    <3>2. CASE ans'[h] = [code |-> "accepted", rev |-> req[h].rev]
      BY <3>1, <3>2 DEF AcceptEffect, VerdictOf
    <3>3. CASE ans'[h] = [code |-> "server_unavailable", rev |-> 0]
      BY <3>1, <3>3 DEF AcceptEffect, VerdictOf
    <3> QED
      BY <3>1, <3>2, <3>3 DEF AcceptEffect
  <2>5. CASE Fail(h)
    BY <2>5, <1>2 DEF Fail, Codes
  <2> QED
    BY <1>3, <2>1, <2>2, <2>3, <2>4, <2>5, OnlyItself
<1>4. CASE pc[h] \notin {"decide", "answered"}
  <2>1. /\ pc[h] \in {"received", "reauth"} \/ Fail(h)
        /\ pc[h] # "idle"
        /\ pc[h] = "received" => RateLimited(h) \/ Authenticate(h) \/ Fail(h)
        /\ pc[h] = "reauth" => Reauthenticate(h) \/ Fail(h)
    BY <1>4, OnlyItself
  <2>2. req[h].dev \in Devices
    BY <2>1 DEF TypeOK, Request
  <2>3. CASE RateLimited(h) \/ Fail(h)
    BY <2>1, <2>3, <1>2 DEF RateLimited, Fail, Codes
  <2>4. CASE Authenticate(h)
    <3>1. CASE Reply(h, Authentication(req[h].dev), 0)
               /\ Authentication(req[h].dev) # "authenticated"
      BY <2>1, <2>2, <3>1, <1>2 DEF Authentication, Codes, TypeOK
    <3>2. CASE Reply(h, "invalid_payload", 0)
      BY <2>1, <3>2, <1>2 DEF Codes
    <3>3. ~ Goto(h, "lockDevice")
      BY DEF Goto, TypeOK
    <3> QED
      BY <2>4, <3>1, <3>2, <3>3 DEF Authenticate
  <2>5. CASE Reauthenticate(h)
    <3>1. CASE Reply(h, Authentication(req[h].dev), 0)
               /\ Authentication(req[h].dev) # "authenticated"
      BY <2>1, <2>2, <3>1, <1>2 DEF Authentication, Codes, TypeOK
    <3>2. CASE Reply(h, "invalid_device_credential", 0)
      BY <2>1, <3>2, <1>2 DEF Codes
    <3> QED
      BY <2>5, <3>1, <3>2 DEF Reauthenticate
  <2> QED
    BY <1>4, <2>1, <2>3, <2>4, <2>5
<1>5. CASE pc[h] = "answered"
  BY <1>5, <1>1, OnlyItself
<1> QED
  BY <1>3, <1>4, <1>5
-----------------------------------------------------------------------------
LEMMA IInvStep ==
  ASSUME IInv, [Next]_vars
  PROVE  IInv'
<1>1. TypeOK' /\ PayloadsAreValid'
  BY TypeStep DEF IInv
<1>2. OneDeciderPerRow'
  BY <1>1, LocksStep DEF IInv
<1>3. PresenceIsCurrent'
  BY PresenceStep DEF IInv
<1>4. VerdictNamesTheMark'
  BY VerdictStep DEF IInv
<1> QED
  BY <1>1, <1>2, <1>3, <1>4 DEF IInv

\* The inductive invariant holds in every reachable state: a current snapshot
\* belongs to a device that is served and carries its mark
\* (PresenceIsCurrent), a decider holds the rows it decides about
\* (OneDeciderPerRow), and an answer with a revision stays true until it is
\* sent (VerdictNamesTheMark).
THEOREM Invariance == Spec => []IInv
<1>1. Init => IInv
  BY InitIInv
<1>2. IInv /\ [Next]_vars => IInv'
  BY IInvStep
<1> QED
  BY <1>1, <1>2, PTL DEF Spec

\* Type correctness of the presence service.
THEOREM TypeCorrect == Spec => []TypeOK
<1>1. IInv => TypeOK
  BY DEF IInv
<1> QED
  BY <1>1, Invariance, PTL

\* No snapshot outlives the revocation of its device or the deactivation of its
\* account, and each carries the high-water revision.
THEOREM Currency == Spec => []PresenceIsCurrent
<1>1. IInv => PresenceIsCurrent
  BY DEF IInv
<1> QED
  BY <1>1, Invariance, PTL

\* The row locks exclude, and a decision is made on a device that is served.
THEOREM Exclusion == Spec => []OneDeciderPerRow
<1>1. IInv => OneDeciderPerRow
  BY DEF IInv
<1> QED
  BY <1>1, Invariance, PTL

\* The revision in an answer is true when the answer is given and remains so.
THEOREM Verdicts == Spec => []VerdictNamesTheMark
<1>1. IInv => VerdictNamesTheMark
  BY DEF IInv
<1> QED
  BY <1>1, Invariance, PTL

\* The mark of a device never goes back, and only a strictly newer revision
\* brings a snapshot.
THEOREM Monotonicity == Spec => MarkAdvances
<1>1. ASSUME IInv, [Next]_vars
      PROVE  [\A d \in Devices :
                /\ mark[d] <= mark'[d]
                /\ \A row \in presence' \ presence :
                     row.dev = d => mark[d] < row.rev]_vars
  <2>1. ASSUME NEW d \in Devices
        PROVE  mark[d] <= mark'[d]
    BY <1>1, <2>1, MarkStep DEF IInv
  <2>2. ASSUME NEW row \in presence', row \notin presence
        PROVE  mark[row.dev] < row.rev
    <3>1. PICK h \in Handlers : Accept(h)
      BY <1>1, <2>2, PresenceEffect DEF IInv
    <3>2. AcceptEffect(h)
      BY <1>1, <3>1, AcceptHasEffect DEF IInv
    <3> QED
      BY <2>2, <3>2 DEF AcceptEffect
  <2> QED
    BY <2>1, <2>2
<1> QED
  BY <1>1, Invariance, PTL DEF Spec, MarkAdvances

\* Only an accepted snapshot enters the history, and only its own place.
THEOREM Recording == Spec => HistoryOnlyFromAccepted
<1>1. ASSUME IInv, [Next]_vars
      PROVE  [\A row \in history' \ history :
                /\ Admissible(row.dev)
                /\ mark[row.dev] < row.rev
                /\ \E cur \in presence' : cur.dev = row.dev /\ cur.rev = row.rev
                                         /\ cur.snap.place = row.place]_vars
  <2> SUFFICES ASSUME NEW row \in history', row \notin history
               PROVE  /\ Admissible(row.dev)
                      /\ mark[row.dev] < row.rev
                      /\ \E cur \in presence' : cur.dev = row.dev /\ cur.rev = row.rev
                                               /\ cur.snap.place = row.place
    OBVIOUS
  <2>1. PICK h \in Handlers : Accept(h)
    BY <1>1, PresenceEffect DEF IInv
  <2>2. AcceptEffect(h)
    BY <1>1, <2>1, AcceptHasEffect DEF IInv
  <2>3. row = [dev |-> req[h].dev, rev |-> req[h].rev, place |-> req[h].snap.place]
    BY <2>2 DEF AcceptEffect, HistoryAfter
  <2>4. Admissible(req[h].dev)
    BY <1>1, <2>2 DEF IInv, OneDeciderPerRow, AcceptEffect
  <2>5. [dev |-> req[h].dev, rev |-> req[h].rev, snap |-> Project(req[h].snap)] \in presence'
    BY <2>2 DEF AcceptEffect
  <2> QED
    BY <2>2, <2>3, <2>4, <2>5 DEF AcceptEffect, Project
<1> QED
  BY <1>1, Invariance, PTL DEF Spec, HistoryOnlyFromAccepted
-----------------------------------------------------------------------------
\* A device's history has one row per revision (the UNIQUE constraint).
OneRowPerRevision ==
  \A x, y \in history : x.dev = y.dev /\ x.rev = y.rev => x = y

\* A step that is no Accept removes, of each device, its oldest rows if any.
NewestKept ==
  \A x \in history', y \in history : y.dev = x.dev /\ x.rev <= y.rev => y \in history'

LEMMA HistoryEffect ==
  ASSUME TypeOK, [Next]_vars
  PROVE  (\E h \in Handlers : Accept(h)) \/ NewestKept
<1>1. ASSUME NEW h \in Handlers, Handle(h) \/ \E r \in Request : Receive(h, r)
      PROVE  Accept(h) \/ history' = history
  BY <1>1 DEF Handle, Work, Await, RateLimited, Authenticate, Reauthenticate,
              StaleRevision, Duplicate, RevisionConflict, LockDevice, LockAccount,
              NoOwner, Fail, Respond, Receive
<1>2. ASSUME NEW d \in Devices, RequestRevoke(d) \/ RevokeDevice(d)
      PROVE  history' = history
  BY <1>2 DEF RequestRevoke, RevokeDevice
<1>3. ASSUME NEW d \in Devices, ExpireHistory(d)
      PROVE  NewestKept
  <2>1. PICK last \in HistoryOf({d}) :
          history' = history \ {r \in HistoryOf({d}) : r.rev <= last.rev}
    BY <1>3 DEF ExpireHistory
  <2>2. last.rev \in Int /\ \A r \in history : r.rev \in Int
    BY <2>1 DEF HistoryOf, TypeOK, HistoryRow
  <2> QED
    BY <2>1, <2>2 DEF NewestKept, HistoryOf
<1>4. ASSUME NEW a \in Accounts, DeleteHistory(a) \/ FinishPurge(a)
      PROVE  NewestKept
  BY <1>4 DEF DeleteHistory, FinishPurge, NewestKept, HistoryOf
<1>5. ASSUME NEW a \in Accounts,
             \/ RequestClear(a) \/ Deactivate(a) \/ Reactivate(a)
             \/ BeginPurge(a) \/ AbortPurge(a)
      PROVE  history' = history
  BY <1>5 DEF RequestClear, Deactivate, Reactivate, BeginPurge, AbortPurge
<1>6. ASSUME Restart \/ UNCHANGED vars \/ \E h \in Handlers : Fail(h)
      PROVE  history' = history
  BY <1>6 DEF Restart, vars, Fail
<1>7. history' = history => NewestKept
  BY DEF NewestKept
<1> QED
  BY <1>1, <1>2, <1>3, <1>4, <1>5, <1>6, <1>7 DEF Next, Manage, ResolveDeadlock

HistoryInv == HistoryFollowsPresence /\ OneRowPerRevision

LEMMA HistoryStep ==
  ASSUME IInv, IInv', HistoryInv, [Next]_vars
  PROVE  HistoryInv'
<1>0. /\ \A row \in history : row.dev \in Devices /\ row.rev \in Int
      /\ \A row \in history' : row.dev \in Devices /\ row.rev \in Int
      /\ \A d \in Devices : mark[d] \in Int
  BY DEF IInv, TypeOK, HistoryRow
<1>1. ASSUME NEW h \in Handlers, Accept(h)
      PROVE  HistoryInv'
  <2> DEFINE d == req[h].dev
             new == [dev |-> d, rev |-> req[h].rev, place |-> req[h].snap.place]
  <2>1. AcceptEffect(h)
    BY <1>1, AcceptHasEffect DEF IInv
  <2>2. /\ d \in Devices /\ req[h].rev \in Int /\ mark[d] < req[h].rev
        /\ mark'[d] = req[h].rev
        /\ \A e \in Devices \ {d} : mark'[e] = mark[e]
    BY <2>1 DEF AcceptEffect
  <2>3. \A row \in HistoryOf({d}) : row.rev <= mark[d] /\ row.rev < req[h].rev
    BY <2>2, <1>0 DEF HistoryInv, HistoryFollowsPresence, HistoryOf
  <2>4. \A row \in presence' :
          \/ row.dev = d /\ row.snap.place = req[h].snap.place
          \/ row.dev # d /\ row \in presence
    BY <2>1 DEF AcceptEffect, Project
  <2>5. CASE \E latest \in LatestHistory(d) : latest.place = req[h].snap.place
    <3>1. history' = history
      BY <2>1, <2>5 DEF AcceptEffect, HistoryAfter
    <3>2. \A x \in LatestHistory(d) : x.place = req[h].snap.place
      BY <2>5, <1>0 DEF LatestHistory, HistoryInv, OneRowPerRevision, HistoryOf
    <3>3. \A row \in history' : row.rev <= mark'[row.dev]
      BY <3>1, <2>2, <1>0 DEF HistoryInv, HistoryFollowsPresence
    <3>4. \A e : LatestHistory(e)' = LatestHistory(e) /\ HistoryOf({e})' = HistoryOf({e})
      BY <3>1 DEF LatestHistory, HistoryOf
    <3>5. \A row \in presence', latest \in history' :
            latest \in LatestHistory(row.dev)' => latest.place = row.snap.place
      BY <3>1, <3>2, <3>4, <2>4 DEF HistoryInv, HistoryFollowsPresence
    <3>6. OneRowPerRevision'
      BY <3>1 DEF HistoryInv, OneRowPerRevision
    <3>7. ASSUME NEW x \in history', NEW y \in history', x.dev = y.dev, x.rev < y.rev,
                 \A z \in HistoryOf({x.dev})' : z.rev <= x.rev \/ y.rev <= z.rev
          PROVE  x.place # y.place
      BY <3>1, <3>4, <3>7 DEF HistoryInv, HistoryFollowsPresence
    <3> QED
      BY <3>3, <3>5, <3>6, <3>7 DEF HistoryInv, HistoryFollowsPresence
  <2>6. CASE ~ \E latest \in LatestHistory(d) : latest.place = req[h].snap.place
    <3>1. history' = history \cup {new}
      <4>1. \A row \in HistoryOf({d}) : row.rev # req[h].rev
        BY <2>2, <2>3, <1>0 DEF HistoryOf
      <4> QED
        BY <2>1, <2>6, <4>1 DEF AcceptEffect, HistoryAfter
    <3>2. OneRowPerRevision'
      BY <3>1, <2>3, <1>0 DEF HistoryInv, OneRowPerRevision, HistoryOf
    <3>3. \A row \in history' : row.rev <= mark'[row.dev]
      BY <3>1, <2>2, <1>0 DEF HistoryInv, HistoryFollowsPresence
    <3>4. \A row \in presence', latest \in history' :
            latest \in LatestHistory(row.dev)' => latest.place = row.snap.place
      <4> SUFFICES ASSUME NEW row \in presence', NEW latest \in history',
                          latest \in LatestHistory(row.dev)'
                   PROVE  latest.place = row.snap.place
        OBVIOUS
      <4>1. latest.dev = row.dev
        BY DEF LatestHistory, HistoryOf
      <4>2. CASE row.dev = d
        <5>1. new \in HistoryOf({row.dev})'
          BY <3>1, <4>2 DEF HistoryOf
        <5>2. req[h].rev <= latest.rev
          BY <4>2, <5>1 DEF LatestHistory
        <5>3. latest = new
          <6>1. CASE latest \in HistoryOf({d})
            <7>1. latest.rev \in Int /\ latest.rev < req[h].rev
              BY <6>1, <2>3, <1>0
            <7> QED
              BY <7>1, <5>2, <2>2
          <6>2. CASE latest \notin HistoryOf({d})
            BY <6>2, <3>1, <4>1, <4>2 DEF HistoryOf
          <6> QED
            BY <6>1, <6>2
        <5> QED
          BY <2>4, <4>2, <5>3
      <4>3. CASE row.dev # d
        <5>1. HistoryOf({row.dev})' = HistoryOf({row.dev}) /\ latest \in history
          BY <3>1, <4>1, <4>3 DEF HistoryOf
        <5> QED
          BY <2>4, <4>3, <5>1 DEF LatestHistory, HistoryInv, HistoryFollowsPresence
      <4> QED
        BY <4>2, <4>3
    <3>5. ASSUME NEW x \in history', NEW y \in history', x.dev = y.dev, x.rev < y.rev,
                 \A z \in HistoryOf({x.dev})' : z.rev <= x.rev \/ y.rev <= z.rev
          PROVE  x.place # y.place
      <4>1. CASE y = new
        <5>1. x \in HistoryOf({d})
          BY <3>1, <3>5, <4>1, <2>2, <1>0 DEF HistoryOf
        <5>2. \A z \in HistoryOf({d}) : z.rev <= x.rev
          BY <3>1, <3>5, <4>1, <5>1, <2>3, <2>2, <1>0 DEF HistoryOf
        <5> QED
          BY <2>6, <4>1, <5>1, <5>2 DEF LatestHistory
      <4>2. CASE y \in history
        <5>1. x \in history
          BY <3>1, <3>5, <4>2, <2>2, <2>3, <1>0 DEF HistoryOf
        <5>2. \A z \in HistoryOf({x.dev}) : z.rev <= x.rev \/ y.rev <= z.rev
          BY <3>1, <3>5 DEF HistoryOf
        <5> QED
          BY <3>5, <4>2, <5>1, <5>2 DEF HistoryInv, HistoryFollowsPresence
      <4> QED
        BY <3>1, <4>1, <4>2
    <3> QED
      BY <3>2, <3>3, <3>4, <3>5 DEF HistoryInv, HistoryFollowsPresence
  <2> QED
    BY <2>5, <2>6
<1>2. ASSUME mark' = mark, presence' \subseteq presence, history' \subseteq history, NewestKept
      PROVE  HistoryInv'
  <2>1. OneRowPerRevision' /\ \A row \in history' : row.rev <= mark'[row.dev]
    BY <1>2 DEF HistoryInv, HistoryFollowsPresence, OneRowPerRevision
  <2>2. ASSUME NEW d, NEW latest \in LatestHistory(d)'
        PROVE  latest \in LatestHistory(d)
    BY <1>2, <2>2, <1>0 DEF LatestHistory, HistoryOf, NewestKept
  <2>3. ASSUME NEW x \in history', NEW y \in history', x.dev = y.dev, x.rev < y.rev,
               \A z \in HistoryOf({x.dev})' : z.rev <= x.rev \/ y.rev <= z.rev
        PROVE  x.place # y.place
    <3>1. \A z \in HistoryOf({x.dev}) : z.rev <= x.rev \/ y.rev <= z.rev
      BY <1>2, <2>3, <1>0 DEF HistoryOf, NewestKept
    <3> QED
      BY <1>2, <2>3, <3>1 DEF HistoryInv, HistoryFollowsPresence
  <2> QED
    BY <1>2, <2>1, <2>2, <2>3 DEF HistoryInv, HistoryFollowsPresence
<1> QED
  BY <1>1, <1>2, PresenceEffect, HistoryEffect DEF IInv

\* The newest history row always tells where the current snapshot is, and the
\* history never says the same thing twice in a row.
THEOREM History == Spec => []HistoryFollowsPresence
<1>1. Init => HistoryInv
  BY DEF Init, HistoryInv, HistoryFollowsPresence, OneRowPerRevision
<1>2. IInv /\ IInv' /\ HistoryInv /\ [Next]_vars => HistoryInv'
  BY HistoryStep
<1>3. HistoryInv => HistoryFollowsPresence
  BY DEF HistoryInv
<1> QED
  BY <1>1, <1>2, <1>3, Invariance, PTL DEF Spec
-----------------------------------------------------------------------------
(* The handler, its lookups, locks and transaction implement the register. *)

phase == [h \in Handlers |-> CASE pc[h] = "idle"     -> "idle"
                              [] pc[h] = "answered" -> "done"
                              [] pc[h] = "reauth"   -> "turned"
                              [] OTHER              -> "open"]
open  == {d \in Devices : Admissible(d)}

LEMMA InitRefines == Init => Register!Init
  BY DEF Init, Register!Init, Admissible

\* A refusal given by the handler is an answer of the register.
LEMMA ReplyRefines ==
  ASSUME TypeOK, NEW h \in Handlers, NEW code \in Codes,
         pc[h] \notin {"idle", "answered"}, Reply(h, code, 0), UNCHANGED <<device, account>>
  PROVE  Register!Reply(h, code, 0)
<1>1. /\ pc' = [pc EXCEPT ![h] = "answered"]
      /\ ans' = [ans EXCEPT ![h] = [code |-> code, rev |-> 0]] /\ req' = req
  BY DEF Reply
<1>2. phase[h] \in {"open", "turned"} /\ phase' = [phase EXCEPT ![h] = "done"]
  BY <1>1 DEF phase, TypeOK
<1>3. open' = open
  BY DEF open, Admissible
<1> QED
  BY <1>1, <1>2, <1>3 DEF Register!Reply, phase, open

\* The same for a verdict, whose revision is read from the tables.
Decided(h) ==
  /\ phase[h] = "open" /\ phase' = [phase EXCEPT ![h] = "done"] /\ open' = open
  /\ req[h].dev \in open /\ req[h].rev \in 1..MaxRevision
  /\ req' = req

LEMMA VerdictRefines ==
  ASSUME IInv, NEW h \in Handlers,
         StaleRevision(h) \/ Duplicate(h) \/ RevisionConflict(h) \/ Accept(h)
  PROVE  Decided(h)
<1>1. /\ pc[h] = "decide" /\ pc' = [pc EXCEPT ![h] = "answered"]
      /\ UNCHANGED <<device, account, req>>
  BY DEF StaleRevision, Duplicate, RevisionConflict, Accept, Reply
<1>2. phase[h] = "open" /\ phase' = [phase EXCEPT ![h] = "done"]
  BY <1>1 DEF phase, IInv, TypeOK
<1>3. open' = open
  BY <1>1 DEF open, Admissible
<1>4. req[h].dev \in open /\ req[h].rev \in 1..MaxRevision
  BY <1>1 DEF IInv, TypeOK, OneDeciderPerRow, PayloadsAreValid, ValidPayload, open, Request
<1> QED
  BY <1>1, <1>2, <1>3, <1>4 DEF Decided

LEMMA DelayRefines ==
  ASSUME TypeOK, NEW h \in Handlers, NEW code \in Register!Delays,
         pc[h] \notin {"idle", "answered"}, Reply(h, code, 0), UNCHANGED tables
  PROVE  Register!Next
<1>1. Register!Reply(h, code, 0)
  BY ReplyRefines DEF Codes, Register!Delays
<1> QED
  BY <1>1 DEF Register!Delay, Register!Next

\* A device is denied if it is closed now, or was when its row was looked for.
LEMMA DenyRefines ==
  ASSUME TypeOK, NEW h \in Handlers, NEW code \in Register!Denials,
         pc[h] \notin {"idle", "answered"},
         pc[h] = "reauth" \/ ~Admissible(req[h].dev),
         Reply(h, code, 0), UNCHANGED tables
  PROVE  Register!Next
<1>1. Register!Reply(h, code, 0)
  BY ReplyRefines DEF Codes, Register!Denials
<1>2. phase[h] = "turned" \/ (phase[h] = "open" /\ req[h].dev \notin open)
  BY DEF phase, open, TypeOK
<1> QED
  BY <1>1, <1>2 DEF Register!Deny, Register!Next, phase, open

LEMMA MoveRefines ==
  ASSUME TypeOK, NEW h \in Handlers, pc[h] \notin {"idle", "answered"},
         pc[h] # "reauth", NEW label \in {"lockDevice", "lockAccount", "decide"},
         Goto(h, label), UNCHANGED tables
  PROVE  UNCHANGED Register!vars
<1>1. phase' = phase
  BY DEF phase, Goto, TypeOK
<1>2. open' = open
  BY DEF open, Admissible
<1> QED
  BY <1>1, <1>2 DEF Register!vars, Goto, phase, open

LEMMA StepRefines ==
  ASSUME IInv, [Next]_vars
  PROVE  [Register!Next]_(Register!vars)
<1> USE DEF IInv
<1>1. ASSUME NEW h \in Handlers, NEW r \in Request, Receive(h, r)
      PROVE  Register!Next
  <2>1. phase[h] = "idle" /\ phase' = [phase EXCEPT ![h] = "open"]
    BY <1>1 DEF phase, Receive, TypeOK
  <2>2. open' = open
    BY <1>1 DEF open, Admissible, Receive
  <2>3. Register!Invoke(h, r)
    BY <1>1, <2>1, <2>2 DEF Register!Invoke, Receive, phase, open
  <2>4. r \in Register!Request
    BY DEF Request, Register!Request, Snapshots, Register!Snapshots
  <2> QED
    BY <2>3, <2>4 DEF Register!Next
<1>2. ASSUME NEW h \in Handlers, RateLimited(h) \/ Fail(h)
      PROVE  Register!Next
  BY <1>2, DelayRefines DEF RateLimited, Fail, Register!Delays
<1>3. ASSUME NEW h \in Handlers, Authenticate(h)
      PROVE  [Register!Next]_(Register!vars)
  <2>1. pc[h] = "received" /\ req[h].dev \in Devices /\ UNCHANGED tables
    BY <1>3 DEF Authenticate, TypeOK, Request
  <2>2. CASE Authentication(req[h].dev) # "authenticated"
             /\ Reply(h, Authentication(req[h].dev), 0)
    <3>1. Authentication(req[h].dev) \in Register!Denials /\ ~Admissible(req[h].dev)
      BY <2>1, <2>2 DEF Authentication, Register!Denials, TypeOK, Admissible
    <3> QED
      BY <2>1, <2>2, <3>1, DenyRefines
  <2>3. CASE Reply(h, "invalid_payload", 0) /\ ~ValidPayload(req[h])
    <3>1. Register!Reply(h, "invalid_payload", 0)
      BY <2>1, <2>3, ReplyRefines DEF Codes
    <3>2. phase[h] = "open" /\ req[h].rev \notin 1..MaxRevision
      BY <2>1, <2>3 DEF phase, ValidPayload
    <3>3. Register!RejectPayload(h)
      BY <2>1, <3>1, <3>2 DEF Register!RejectPayload, phase, open
    <3> QED
      BY <3>3 DEF Register!Next
  <2>4. CASE Goto(h, "lockDevice")
    BY <2>1, <2>4, MoveRefines
  <2> QED
    BY <1>3, <2>2, <2>3, <2>4 DEF Authenticate
<1>4. ASSUME NEW h \in Handlers, Await(h)
      PROVE  [Register!Next]_(Register!vars)
  <2>1. CASE LockDevice(h) \/ LockAccount(h)
    BY <2>1, MoveRefines DEF LockDevice, LockAccount
  <2>2. CASE NoOwner(h)
    <3>1. phase[h] = "open" /\ phase' = [phase EXCEPT ![h] = "turned"]
      BY <2>2 DEF NoOwner, Goto, phase, TypeOK
    <3>2. req[h].dev \notin open /\ open' = open
      BY <2>2 DEF NoOwner, open, Admissible
    <3>3. Register!TurnAway(h)
      BY <2>2, <3>1, <3>2 DEF Register!TurnAway, NoOwner, Goto, phase, open
    <3> QED
      BY <3>3 DEF Register!Next
  <2> QED
    BY <1>4, <2>1, <2>2 DEF Await
<1>5. ASSUME NEW h \in Handlers, Reauthenticate(h)
      PROVE  Register!Next
  <2>1. pc[h] = "reauth" /\ req[h].dev \in Devices /\ UNCHANGED tables
    BY <1>5 DEF Reauthenticate, TypeOK, Request
  <2>2. CASE Authentication(req[h].dev) # "authenticated"
             /\ Reply(h, Authentication(req[h].dev), 0)
    <3>1. Authentication(req[h].dev) \in Register!Denials /\ ~Admissible(req[h].dev)
      BY <2>1, <2>2 DEF Authentication, Register!Denials, TypeOK, Admissible
    <3> QED
      BY <2>1, <2>2, <3>1, DenyRefines
  <2>3. CASE Reply(h, "invalid_device_credential", 0)
    BY <2>1, <2>3, DenyRefines DEF Register!Denials
  <2> QED
    BY <1>5, <2>2, <2>3 DEF Reauthenticate
<1>6. ASSUME NEW h \in Handlers, pc[h] = "decide"
      PROVE  (\E row \in RowsOf({req[h].dev}) : row.snap = Project(req[h].snap))
             <=> Register!Row(req[h].dev, mark[req[h].dev], req[h].snap) \in presence
  BY DEF RowsOf, Register!Row, Project, Register!Project, PresenceIsCurrent, TypeOK,
         PresenceRow
<1>7. ASSUME NEW h \in Handlers, StaleRevision(h)
      PROVE  Register!Next
  <2>1. Decided(h)
    BY <1>7, VerdictRefines
  <2>2. Register!Stale(h)
    BY <1>7, <2>1 DEF StaleRevision, Reply, Decided, Register!Stale, Register!Reply, open, phase
  <2> QED
    BY <2>2 DEF Register!Next
<1>9. ASSUME NEW h \in Handlers, Duplicate(h)
      PROVE  Register!Next
  <2>1. Decided(h) /\ pc[h] = "decide"
    BY <1>9, VerdictRefines DEF Duplicate
  <2>2. Register!Row(req[h].dev, mark[req[h].dev], req[h].snap) \in presence
    BY <1>6, <1>9, <2>1 DEF Duplicate
  <2>3. Register!Repeat(h)
    BY <1>9, <2>1, <2>2
       DEF Duplicate, Reply, Decided, Register!Repeat, Register!Reply, open, phase
  <2> QED
    BY <2>3 DEF Register!Next
<1>10. ASSUME NEW h \in Handlers, RevisionConflict(h)
       PROVE  Register!Next
  <2>1. Decided(h) /\ pc[h] = "decide"
    BY <1>10, VerdictRefines DEF RevisionConflict
  <2>2. Register!Row(req[h].dev, mark[req[h].dev], req[h].snap) \notin presence
    BY <1>6, <1>10, <2>1 DEF RevisionConflict
  <2>3. Register!Conflict(h)
    BY <1>10, <2>1, <2>2
       DEF RevisionConflict, Reply, Decided, Register!Conflict, Register!Reply, open, phase
  <2> QED
    BY <2>3 DEF Register!Next
<1>11. ASSUME NEW h \in Handlers, Accept(h)
       PROVE  Register!Next
  <2>1. Decided(h)
    BY <1>11, VerdictRefines
  <2>2. Register!Accept(h)
    BY <1>11, <2>1
       DEF Accept, Upsert, Reply, Decided, Register!Accept, Register!Reply, Register!RowsOf,
           Register!Row, RowsOf, Project, Register!Project, open, phase
  <2> QED
    BY <2>2 DEF Register!Next
<1>12. ASSUME NEW h \in Handlers, Respond(h)
       PROVE  Register!Next
  <2>1. phase[h] = "done" /\ phase' = [phase EXCEPT ![h] = "idle"]
    BY <1>12 DEF phase, Respond, TypeOK
  <2>2. open' = open
    BY <1>12 DEF open, Admissible, Respond
  <2>3. Register!Return(h)
    BY <1>12, <2>1, <2>2 DEF Register!Return, Respond, phase, open
  <2> QED
    BY <2>3 DEF Register!Next
<1>13. ASSUME UNCHANGED <<device, account, mark, presence, pc, req, ans>>
       PROVE  UNCHANGED Register!vars
  <2>1. open' = open /\ phase' = phase
    BY <1>13 DEF open, phase, Admissible
  <2> QED
    BY <1>13, <2>1 DEF Register!vars, open, phase
<1>14. ASSUME NEW d \in Devices, RequestRevoke(d) \/ ExpireHistory(d)
       PROVE  UNCHANGED Register!vars
  BY <1>14, <1>13 DEF RequestRevoke, ExpireHistory
<1>15. ASSUME NEW a \in Accounts,
              RequestClear(a) \/ DeleteHistory(a) \/ BeginPurge(a) \/ AbortPurge(a)
       PROVE  UNCHANGED Register!vars
  BY <1>15, <1>13 DEF RequestClear, DeleteHistory, BeginPurge, AbortPurge
<1>16. ASSUME UNCHANGED vars
       PROVE  UNCHANGED Register!vars
  BY <1>16, <1>13 DEF vars
<1>17. ASSUME NEW D \in SUBSET Devices, open' = open \ D, presence' = presence \ RowsOf(D),
              UNCHANGED <<mark, pc, req, ans>>
       PROVE  Register!Next
  <2>1. phase' = phase
    BY <1>17 DEF phase
  <2>2. Register!Close(D)
    BY <1>17, <2>1 DEF Register!Close, Register!RowsOf, RowsOf, phase, open
  <2> QED
    BY <2>2 DEF Register!Next
<1>18. ASSUME NEW D \in SUBSET Devices, open' = open \cup D,
              UNCHANGED <<mark, presence, pc, req, ans>>
       PROVE  Register!Next
  <2>1. phase' = phase
    BY <1>18 DEF phase
  <2>2. Register!Reopen(D)
    BY <1>18, <2>1 DEF Register!Reopen, phase, open
  <2> QED
    BY <2>2 DEF Register!Next
<1>19. ASSUME NEW d \in Devices, RevokeDevice(d)
       PROVE  [Register!Next]_(Register!vars)
  <2>1. CASE UNCHANGED <<device, presence>>
    BY <1>19, <2>1, <1>13 DEF RevokeDevice
  <2>2. CASE /\ device' = [device EXCEPT ![d] = "revoked"]
             /\ presence' = presence \ RowsOf({d})
    <3>1. open' = open \ {d}
      BY <1>19, <2>2 DEF RevokeDevice, open, Admissible, TypeOK
    <3> QED
      BY <1>19, <2>2, <3>1, <1>17 DEF RevokeDevice
  <2> QED
    BY <1>19, <2>1, <2>2 DEF RevokeDevice
<1>20. ASSUME NEW a \in Accounts, Deactivate(a)
       PROVE  Register!Next
  <2>1. open' = open \ DevicesOf(a)
    BY <1>20 DEF Deactivate, open, Admissible, DevicesOf, TypeOK
  <2>2. DevicesOf(a) \in SUBSET Devices
    BY DEF DevicesOf
  <2> QED
    BY <1>20, <2>1, <2>2, <1>17 DEF Deactivate
<1>21. ASSUME NEW a \in Accounts, FinishPurge(a)
       PROVE  Register!Next
  <2>1. open' = open \ DevicesOf(a)
    BY <1>21 DEF FinishPurge, open, Admissible, DevicesOf, TypeOK
  <2>2. DevicesOf(a) \in SUBSET Devices
    BY DEF DevicesOf
  <2> QED
    BY <1>21, <2>1, <2>2, <1>17 DEF FinishPurge
<1>22. ASSUME NEW a \in Accounts, Reactivate(a)
       PROVE  Register!Next
  <2> DEFINE D == {d \in DevicesOf(a) : device[d] = "paired"}
  <2>1. open' = open \cup D
    BY <1>22 DEF Reactivate, open, Admissible, DevicesOf, TypeOK
  <2>2. D \in SUBSET Devices
    BY DEF DevicesOf
  <2> HIDE DEF D
  <2> QED
    BY <1>22, <2>1, <2>2, <1>18 DEF Reactivate
<1>23. CASE Restart
  <2>1. phase' = [h \in Handlers |-> "idle"] /\ open' = open
    BY <1>23 DEF Restart, phase, open, Admissible
  <2>2. Register!Restart
    BY <1>23, <2>1 DEF Restart, Register!Restart, phase, open
  <2> QED
    BY <2>2 DEF Register!Next
<1>24. ASSUME NEW h \in Handlers, Handle(h)
       PROVE  [Register!Next]_(Register!vars)
  BY <1>24, <1>2, <1>3, <1>4, <1>5, <1>7, <1>9, <1>10, <1>11, <1>12 DEF Handle, Work
<1>25. CASE Manage
  BY <1>25, <1>2, <1>14, <1>15, <1>19, <1>20, <1>21, <1>22, <1>23
     DEF Manage, ResolveDeadlock
<1> QED
  BY <1>1, <1>16, <1>24, <1>25 DEF Next

\* The presence service implements the register that decides every request in
\* one instant: the answers are those of some order of the requests, and a
\* request decided after a device was closed is not accepted.
THEOREM Implementation == Spec => ImplementsRegister
<1>1. Init => Register!Init
  BY InitRefines
<1>2. IInv /\ [Next]_vars => [Register!Next]_(Register!vars)
  BY StepRefines
<1> QED
  BY <1>1, <1>2, Invariance, PTL DEF Spec, ImplementsRegister, Register!Spec
=============================================================================
