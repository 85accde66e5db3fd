-------------------------- MODULE TelemetryPresence --------------------------
(***************************************************************************)
(* The server side of current presence: the PUT handler with its two       *)
(* authentication reads, its transaction and its two row locks             *)
(* (src/src/telemetry-presence.js), the history projection and the         *)
(* owner's management of it (src/src/telemetry-management.js), and the     *)
(* administrator's account changes (src/src/server.js), interleaved.       *)
(*                                                                         *)
(* Tables are sets of rows.  PostgreSQL runs the transactions READ         *)
(* COMMITTED: a transaction's writes appear at its COMMIT, a locked row is *)
(* read again once the lock is held.  A row lock is not a variable: who    *)
(* holds one follows from where every handler is (DeviceRowFree,           *)
(* AccountRowFree).                                                        *)
(***************************************************************************)
EXTENDS Integers

CONSTANTS Devices, Accounts,
          Owner,        \* Owner[d]: the account device d was paired by
          Handlers, Places, Rests, Noises, MaxRevision, None

ASSUME PresenceAssumption ==
  /\ Owner \in [Devices -> Accounts]
  /\ MaxRevision \in Nat \ {0}

VARIABLES device,         \* device[d]: "paired", "revoked" or "deleted"
          account,        \* account[a]: "active", "blocked" or "removed"
          mark,           \* telemetry_devices.last_presence_revision
          presence,       \* telemetry_presence
          history,        \* telemetry_presence_history
          pc, req, ans,   \* per handler: where it is, its request, its answer
          revoking,       \* devices whose owner's DELETE was let in
          clearing,       \* accounts whose history DELETE was let in
          purging         \* accounts whose hard deletion holds the user row

handlerVars == <<pc, req, ans>>
vars == <<device, account, mark, presence, history, pc, req, ans,
          revoking, clearing, purging>>

Snapshots   == [place: Places, rest: Rests, noise: Noises]
Projections == [place: Places, rest: Rests]
Request     == [dev: Devices, rev: 0..(MaxRevision + 1), snap: Snapshots]
Codes == {"accepted", "duplicate", "stale_revision", "revision_conflict",
          "invalid_device_credential", "device_revoked", "account_inactive",
          "invalid_payload", "rate_limited", "server_unavailable"}
Answer      == [code: Codes, rev: 0..MaxRevision]
PresenceRow == [dev: Devices, rev: 1..MaxRevision, snap: Projections]
HistoryRow  == [dev: Devices, rev: 1..MaxRevision, place: Places]

TypeOK ==
  /\ device \in [Devices -> {"paired", "revoked", "deleted"}]
  /\ account \in [Accounts -> {"active", "blocked", "removed"}]
  /\ mark \in [Devices -> 0..MaxRevision]
  /\ presence \subseteq PresenceRow
  /\ history \subseteq HistoryRow
  /\ pc \in [Handlers -> {"idle", "received", "lockDevice", "lockAccount",
                          "decide", "reauth", "answered"}]
  /\ req \in [Handlers -> Request \cup {None}]
  /\ \A h \in Handlers : pc[h] # "idle" => req[h] \in Request
  /\ ans \in [Handlers -> Answer \cup {None}]
  /\ \A h \in Handlers : pc[h] = "answered" => ans[h] \in Answer
  /\ revoking \subseteq Devices
  /\ clearing \subseteq Accounts
  /\ purging \subseteq Accounts
-----------------------------------------------------------------------------
\* Only this projection is stored and compared.
Project(s) == [place |-> s.place, rest |-> s.rest]

\* Mutant: any positive number is taken for a revision.
AnyPositiveRevision(r) == r.rev >= 1

\* The payload checks come down to a revision JavaScript can hold exactly.
ValidPayload(r) == r.rev \in 1..MaxRevision

DevicesOf(a) == {d \in Devices : Owner[d] = a}
RowsOf(D)    == {r \in presence : r.dev \in D}
HistoryOf(D) == {r \in history : r.dev \in D}

\* The condition of the locking SELECT.
Admissible(d) == device[d] = "paired" /\ account[Owner[d]] = "active"

\* authenticateTelemetryDevice: what one lookup of the credential says.
Authentication(d) ==
  CASE device[d] = "deleted"          -> "invalid_device_credential"
    [] device[d] = "revoked"          -> "device_revoked"
    [] device[d] = "paired" /\ account[Owner[d]] # "active"
                                      -> "account_inactive"
    [] OTHER                          -> "authenticated"

\* Row locks: a handler takes its device's row, then the account's.
HoldsDevice(h, d)  == pc[h] \in {"lockAccount", "decide"} /\ req[h].dev = d
HoldsAccount(h, a) == pc[h] = "decide" /\ Owner[req[h].dev] = a
DeviceRowFree(d)   == ~ \E h \in Handlers : HoldsDevice(h, d)
AccountRowFree(a)  == a \notin purging /\ ~ \E h \in Handlers : HoldsAccount(h, a)

\* The history row with the highest revision of a device, as a set.
LatestHistory(d) ==
  {r \in HistoryOf({d}) : \A o \in HistoryOf({d}) : o.rev <= r.rev}
-----------------------------------------------------------------------------
Init ==
  /\ device = [d \in Devices |-> "paired"]
  /\ account = [a \in Accounts |-> "active"]
  /\ mark = [d \in Devices |-> 0]
  /\ presence = {}
  /\ history = {}
  /\ pc = [h \in Handlers |-> "idle"]
  /\ req = [h \in Handlers |-> None]
  /\ ans = [h \in Handlers |-> None]
  /\ revoking = {} /\ clearing = {} /\ purging = {}

tables == <<device, account, mark, presence, history>>
management == <<revoking, clearing, purging>>

Goto(h, label) ==
  /\ pc' = [pc EXCEPT ![h] = label]
  /\ UNCHANGED <<req, ans>>

Reply(h, code, r) ==
  /\ pc' = [pc EXCEPT ![h] = "answered"]
  /\ ans' = [ans EXCEPT ![h] = [code |-> code, rev |-> r]]
  /\ UNCHANGED req
-----------------------------------------------------------------------------
(* PUT /api/telemetry/presence                                             *)

Receive(h, r) ==
  /\ pc[h] = "idle"
  /\ pc' = [pc EXCEPT ![h] = "received"]
  /\ req' = [req EXCEPT ![h] = r]
  /\ UNCHANGED ans
  /\ UNCHANGED <<tables, management>>

\* The request limiter, or no in-flight slot for the lookup.
RateLimited(h) ==
  /\ pc[h] = "received"
  /\ Reply(h, "rate_limited", 0)
  /\ UNCHANGED <<tables, management>>

\* The first lookup, outside any transaction; a bad payload is reported only
\* to a device that authenticates.
Authenticate(h) ==
  /\ pc[h] = "received"
  /\ LET auth == Authentication(req[h].dev) IN
       \/ /\ auth # "authenticated"
          /\ Reply(h, auth, 0)
       \/ /\ auth = "authenticated"
          /\ ~ValidPayload(req[h])
          /\ Reply(h, "invalid_payload", 0)
       \/ /\ auth = "authenticated"
          /\ ValidPayload(req[h])
          /\ Goto(h, "lockDevice")
  /\ UNCHANGED <<tables, management>>

\* Mutant: a plain SELECT, which waits for nobody.
LockDeviceUnlocked(h) ==
  /\ pc[h] = "lockDevice"
  /\ Admissible(req[h].dev)
  /\ Goto(h, "lockAccount")
  /\ UNCHANGED <<tables, management>>

\* SELECT ... FOR UPDATE OF d,u locks the device row first.
LockDevice(h) ==
  /\ pc[h] = "lockDevice"
  /\ Admissible(req[h].dev)
  /\ DeviceRowFree(req[h].dev)
  /\ Goto(h, "lockAccount")
  /\ UNCHANGED <<tables, management>>

\* Mutant: the user row is locked without looking at its status again.
LockAccountUnchecked(h) ==
  /\ pc[h] = "lockAccount"
  /\ device[req[h].dev] = "paired"
  /\ AccountRowFree(Owner[req[h].dev])
  /\ Goto(h, "decide")
  /\ UNCHANGED <<tables, management>>

\* Then the user row; with both locks the condition is evaluated again.
LockAccount(h) ==
  /\ pc[h] = "lockAccount"
  /\ Admissible(req[h].dev)
  /\ AccountRowFree(Owner[req[h].dev])
  /\ Goto(h, "decide")
  /\ UNCHANGED <<tables, management>>

\* Mutant: an empty result is noticed only after waiting for a row.
NoOwnerAfterWait(h) ==
  /\ pc[h] = "lockAccount"
  /\ AccountRowFree(Owner[req[h].dev])
  /\ ~Admissible(req[h].dev)
  /\ Goto(h, "reauth")
  /\ UNCHANGED <<tables, management>>

\* The SELECT finds nothing to lock: ROLLBACK, then look the credential up
\* once more to name the reason.  A row that is locked is waited for first.
NoOwner(h) ==
  /\ \/ pc[h] = "lockDevice"
     \/ pc[h] = "lockAccount" /\ AccountRowFree(Owner[req[h].dev])
  /\ ~Admissible(req[h].dev)
  /\ Goto(h, "reauth")
  /\ UNCHANGED <<tables, management>>

\* A credential that is good again by now is still answered 401.
Reauthenticate(h) ==
  /\ pc[h] = "reauth"
  /\ LET auth == Authentication(req[h].dev) IN
       \/ /\ auth # "authenticated"
          /\ Reply(h, auth, 0)
       \/ /\ auth = "authenticated"
          /\ Reply(h, "invalid_device_credential", 0)
  /\ UNCHANGED <<tables, management>>

\* Mutant: the revision of the mark counts as stale.
StaleOrEqualRevision(h) ==
  LET d == req[h].dev IN
  /\ pc[h] = "decide"
  /\ req[h].rev <= mark[d]
  /\ Reply(h, "stale_revision", mark[d])
  /\ UNCHANGED <<tables, management>>

\* Mutant: the answer repeats the client's revision.
StaleEchoed(h) ==
  LET d == req[h].dev IN
  /\ pc[h] = "decide"
  /\ req[h].rev < mark[d]
  /\ Reply(h, "stale_revision", req[h].rev)
  /\ UNCHANGED <<tables, management>>

StaleRevision(h) ==
  LET d == req[h].dev IN
  /\ pc[h] = "decide"
  /\ req[h].rev < mark[d]
  /\ Reply(h, "stale_revision", mark[d])
  /\ UNCHANGED <<tables, management>>

\* Mutant: a place is recorded once, not every time it changes.
HistoryOfDistinctPlaces(d, r, place) ==
  IF \E row \in HistoryOf({d}) : row.place = place \/ row.rev = r
  THEN history
  ELSE history \cup {[dev |-> d, rev |-> r, place |-> place]}

\* insertAcceptedPresenceHistory: nothing if the newest row says the same, nor
\* if the revision is already there.
HistoryAfter(d, r, place) ==
  IF \/ \E latest \in LatestHistory(d) : latest.place = place
     \/ \E row \in HistoryOf({d}) : row.rev = r
  THEN history
  ELSE history \cup {[dev |-> d, rev |-> r, place |-> place]}

\* Mutant: the history is written before the revisions are compared.
DuplicateRecorded(h) ==
  LET d == req[h].dev IN
  /\ pc[h] = "decide"
  /\ req[h].rev = mark[d]
  /\ \E row \in RowsOf({d}) : row.snap = Project(req[h].snap)
  /\ Reply(h, "duplicate", mark[d])
  /\ history' = HistoryAfter(d, req[h].rev, req[h].snap.place)
  /\ UNCHANGED <<device, account, mark, presence, management>>

Duplicate(h) ==
  LET d == req[h].dev IN
  /\ pc[h] = "decide"
  /\ req[h].rev = mark[d]
  /\ \E row \in RowsOf({d}) : row.snap = Project(req[h].snap)
  /\ Reply(h, "duplicate", mark[d])
  /\ UNCHANGED <<tables, management>>

RevisionConflict(h) ==
  LET d == req[h].dev IN
  /\ pc[h] = "decide"
  /\ req[h].rev = mark[d]
  /\ ~ \E row \in RowsOf({d}) : row.snap = Project(req[h].snap)
  /\ Reply(h, "revision_conflict", mark[d])
  /\ UNCHANGED <<tables, management>>

\* The mark, the snapshot and the history row, committed together.
Upsert(d, r, s) ==
  /\ mark' = [mark EXCEPT ![d] = r]
  /\ presence' = (presence \ RowsOf({d}))
                   \cup {[dev |-> d, rev |-> r, snap |-> Project(s)]}
  /\ history' = HistoryAfter(d, r, s.place)

\* Mutant: the conditional UPDATE of the mark loses its condition.
AcceptUnordered(h) ==
  LET d == req[h].dev IN
  /\ pc[h] = "decide"
  /\ req[h].rev # mark[d]
  /\ Upsert(d, req[h].rev, req[h].snap)
  /\ Reply(h, "accepted", req[h].rev)
  /\ UNCHANGED <<device, account, management>>

\* The answer of a COMMIT that was made can still be lost on its way to the
\* handler, which then reports 503.
Accept(h) ==
  LET d == req[h].dev IN
  /\ pc[h] = "decide"
  /\ req[h].rev > mark[d]
  /\ Upsert(d, req[h].rev, req[h].snap)
  /\ \/ Reply(h, "accepted", req[h].rev)
     \/ Reply(h, "server_unavailable", 0)
  /\ UNCHANGED <<device, account, management>>

\* The database fails under a lookup or a statement: ROLLBACK and 503.
Fail(h) ==
  /\ pc[h] \notin {"idle", "answered"}
  /\ Reply(h, "server_unavailable", 0)
  /\ UNCHANGED <<tables, management>>

\* The response has left; the handler is free for the next request.
Respond(h) ==
  /\ pc[h] = "answered"
  /\ pc' = [pc EXCEPT ![h] = "idle"]
  /\ req' = [req EXCEPT ![h] = None]
  /\ ans' = [ans EXCEPT ![h] = None]
  /\ UNCHANGED <<tables, management>>
-----------------------------------------------------------------------------
(* The owner's browser: revoke a device, delete the history.               *)

\* accountFor, before the transaction.
RequestRevoke(d) ==
  /\ account[Owner[d]] = "active"
  /\ revoking' = revoking \cup {d}
  /\ UNCHANGED <<tables, handlerVars, clearing, purging>>

RevokeDevice(d) ==
  /\ d \in revoking
  /\ revoking' = revoking \ {d}
  /\ \/ /\ device[d] # "deleted"
        /\ DeviceRowFree(d)
        /\ device' = [device EXCEPT ![d] = "revoked"]
        /\ presence' = presence \ RowsOf({d})
     \/ /\ device[d] = "deleted"      \* 404
        /\ UNCHANGED <<device, presence>>
  /\ UNCHANGED <<account, mark, history, handlerVars, clearing, purging>>

RequestClear(a) ==
  /\ account[a] = "active"
  /\ clearing' = clearing \cup {a}
  /\ UNCHANGED <<tables, handlerVars, revoking, purging>>

DeleteHistory(a) ==
  /\ a \in clearing
  /\ \A d \in DevicesOf(a) : DeviceRowFree(d)
  /\ clearing' = clearing \ {a}
  /\ history' = history \ HistoryOf(DevicesOf(a))
  /\ UNCHANGED <<device, account, mark, presence, handlerVars, revoking, purging>>

\* The retention batch removes the oldest rows of a device, which are those
\* of its lowest revisions: received_at is taken under the device's lock.
ExpireHistory(d) ==
  \E last \in HistoryOf({d}) :
    /\ history' = history \ {r \in HistoryOf({d}) : r.rev <= last.rev}
    /\ UNCHANGED <<device, account, mark, presence, handlerVars, management>>
-----------------------------------------------------------------------------
(* The administrator: block, reactivate or hard-delete an account.         *)

Deactivate(a) ==
  /\ account[a] # "removed"
  /\ AccountRowFree(a)
  /\ account' = [account EXCEPT ![a] = "blocked"]
  /\ presence' = presence \ RowsOf(DevicesOf(a))
  /\ UNCHANGED <<device, mark, history, handlerVars, management>>

Reactivate(a) ==
  /\ account[a] = "blocked"
  /\ AccountRowFree(a)
  /\ account' = [account EXCEPT ![a] = "active"]
  /\ UNCHANGED <<device, mark, presence, history, handlerVars, management>>

\* DELETE FROM app_users locks the user row first; the cascade then needs the
\* rows of its devices, the opposite order of the PUT handler.
BeginPurge(a) ==
  /\ account[a] # "removed"
  /\ AccountRowFree(a)
  /\ purging' = purging \cup {a}
  /\ UNCHANGED <<tables, handlerVars, revoking, clearing>>

FinishPurge(a) ==
  /\ a \in purging
  /\ \A d \in DevicesOf(a) : DeviceRowFree(d)
  /\ purging' = purging \ {a}
  /\ account' = [account EXCEPT ![a] = "removed"]
  /\ device' = [d \in Devices |-> IF Owner[d] = a THEN "deleted" ELSE device[d]]
  /\ presence' = presence \ RowsOf(DevicesOf(a))
  /\ history' = history \ HistoryOf(DevicesOf(a))
  /\ UNCHANGED <<mark, handlerVars, revoking, clearing>>

AbortPurge(a) ==
  /\ a \in purging
  /\ purging' = purging \ {a}
  /\ UNCHANGED <<tables, handlerVars, revoking, clearing>>

\* Each waits for the other's row.  PostgreSQL aborts one of the two.
Deadlocked(h, a) ==
  pc[h] = "lockAccount" /\ a \in purging /\ Owner[req[h].dev] = a

ResolveDeadlock(h, a) ==
  /\ Deadlocked(h, a)
  /\ Fail(h) \/ AbortPurge(a)

\* Process restart: open transactions roll back, nobody is answered.
Restart ==
  /\ pc' = [h \in Handlers |-> "idle"]
  /\ req' = [h \in Handlers |-> None]
  /\ ans' = [h \in Handlers |-> None]
  /\ revoking' = {} /\ clearing' = {} /\ purging' = {}
  /\ UNCHANGED tables
-----------------------------------------------------------------------------
\* The steps of a handler that wait for nobody, and those that wait for a row.
Work(h) == \/ Authenticate(h) \/ Reauthenticate(h)
           \/ StaleRevision(h) \/ Duplicate(h) \/ RevisionConflict(h) \/ Accept(h)
Await(h) == LockDevice(h) \/ LockAccount(h) \/ NoOwner(h)

Handle(h) == Work(h) \/ Await(h) \/ RateLimited(h) \/ Fail(h) \/ Respond(h)

Manage ==
  \/ \E d \in Devices : RequestRevoke(d) \/ RevokeDevice(d) \/ ExpireHistory(d)
  \/ \E a \in Accounts :
       \/ RequestClear(a) \/ DeleteHistory(a)
       \/ Deactivate(a) \/ Reactivate(a)
       \/ BeginPurge(a) \/ FinishPurge(a) \/ AbortPurge(a)
       \/ \E h \in Handlers : ResolveDeadlock(h, a)
  \/ Restart

Next ==
  \/ \E h \in Handlers : Handle(h) \/ \E r \in Request : Receive(h, r)
  \/ Manage

Spec == Init /\ [][Next]_vars

\* A handler's code runs on; PostgreSQL queues the waiters of a row, and ends
\* a deadlock.  No client, owner, administrator or fault is obliged to act.
Fairness ==
  /\ \A h \in Handlers : WF_vars(Work(h)) /\ SF_vars(Await(h))
  /\ \A a \in Accounts : SF_vars(FinishPurge(a))
  /\ \A h \in Handlers, a \in Accounts : WF_vars(ResolveDeadlock(h, a))

FairSpec == Spec /\ Fairness
-----------------------------------------------------------------------------
(* Properties                                                              *)

\* A device has at most one current snapshot, it carries the revision of the
\* device's mark, and only a device that is paired, of an active account, has
\* one: no PUT that raced a revocation or a deactivation leaves a snapshot
\* behind (the locking SELECT of telemetry-presence.js).
PresenceIsCurrent ==
  \A row \in presence :
    /\ Admissible(row.dev)
    /\ row.rev = mark[row.dev]
    /\ RowsOf({row.dev}) = {row}

\* The newest history row of a device says where its current snapshot is,
\* whatever was expired or deleted meanwhile, and no two rows that follow each
\* other say the same (insertAcceptedPresenceHistory).
HistoryFollowsPresence ==
  /\ \A row \in presence, latest \in history :
       latest \in LatestHistory(row.dev) => latest.place = row.snap.place
  /\ \A x, y \in history :
       /\ x.dev = y.dev /\ x.rev < y.rev
       /\ \A z \in HistoryOf({x.dev}) : z.rev <= x.rev \/ y.rev <= z.rev
       => x.place # y.place
  /\ \A row \in history : row.rev <= mark[row.dev]

\* An answer with a revision in it stays true until it is delivered, however
\* many other requests commit first: what was accepted or repeated is at most
\* the mark, and a client told "stale" can always go past the revision it is
\* told (the 409 bodies of telemetry-presence.js).
VerdictNamesTheMark ==
  \A h \in Handlers : pc[h] = "answered" =>
    LET sent == req[h].rev  told == ans[h].rev  d == req[h].dev IN
    CASE ans[h].code \in {"accepted", "duplicate", "revision_conflict"} ->
           sent = told /\ told <= mark[d]
      [] ans[h].code = "stale_revision" -> sent < told /\ told <= mark[d]
      [] OTHER -> told = 0

\* The row locks of one device, and of one account, are held by one handler,
\* and the one that decides still has its device paired and its account
\* active: "presence revision changed while locked" is never thrown.
OneDeciderPerRow ==
  /\ \A g, h \in Handlers, d \in Devices :
       HoldsDevice(g, d) /\ HoldsDevice(h, d) => g = h
  /\ \A g, h \in Handlers, a \in Accounts :
       HoldsAccount(g, a) /\ HoldsAccount(h, a) => g = h
  /\ \A h \in Handlers : pc[h] = "decide" => Admissible(req[h].dev)

\* The mark of a device never goes back, and a snapshot appears only with a
\* revision above every one accepted before, revoked and deleted rows included.
MarkAdvances ==
  [][\A d \in Devices :
       /\ mark[d] <= mark'[d]
       /\ \A row \in presence' \ presence :
            row.dev = d => mark[d] < row.rev]_vars

\* History grows only by the snapshot a step accepts: a duplicate, a conflict
\* or a request of a device that is not served writes none, also after the
\* owner has deleted the history.
HistoryOnlyFromAccepted ==
  [][\A row \in history' \ history :
       /\ Admissible(row.dev)
       /\ mark[row.dev] < row.rev
       /\ \E cur \in presence' : cur.dev = row.dev /\ cur.rev = row.rev
                                /\ cur.snap.place = row.place]_vars

\* Every request that is let in is answered, whatever the owner and the
\* administrator lock meanwhile, the deletion that locks in the opposite order
\* included; only a restart drops it.
RequestIsAnswered ==
  \A h \in Handlers :
    pc[h] = "received" ~> pc[h] \in {"answered", "idle"}

\* CONNECTION_CONTRACT.md 3.2 gives invalid_device_credential to a missing,
\* malformed or unknown credential: a known device is never told so.
UnknownMeansUnknown ==
  [][\A h \in Handlers :
       pc'[h] = "answered" /\ pc[h] # "answered"
         /\ ans'[h].code = "invalid_device_credential"
       => device[req[h].dev] = "deleted"]_vars

Register == INSTANCE PresenceRegister WITH
  open  <- {d \in Devices : Admissible(d)},
  phase <- [h \in Handlers |-> CASE pc[h] = "idle"     -> "idle"
                                 [] pc[h] = "answered" -> "done"
                                 [] pc[h] = "reauth"   -> "turned"
                                 [] OTHER              -> "open"]

\* The handler with its lookups, locks and transaction behaves as the register
\* that decides every request in one instant.
ImplementsRegister == Register!Spec
=============================================================================
