---------------------------- MODULE PresenceSync ----------------------------
(***************************************************************************)
(* The presence monitor of a tray client                                   *)
(* (src/telemetry/internal/connection/presence_monitor.go) against the     *)
(* server, for one paired device.  The server is the PresenceRegister that *)
(* TelemetryPresence implements; its handlers also stand for requests that *)
(* are still on the network, so a request of a client that gave up, or was *)
(* restarted, may take effect at any later time.  The revision store is    *)
(* the counter that RevisionStore implements.                              *)
(***************************************************************************)
EXTENDS Integers

CONSTANTS Device,       \* the paired device
          Handlers,     \* requests on the network or in the server
          Places, Rests, Noises,
          MaxRevision,
          None,
          Faults        \* what may go wrong in this instance (the bound of a run)

ASSUME SyncAssumption ==
  /\ MaxRevision \in Nat
  /\ None \notin Handlers

VARIABLES open, mark, presence, phase, req, ans,   \* the server
          counter,   \* the durable revision
          box,       \* the channel of snapshots, which keeps the newest one
          latest,    \* the newest snapshot the monitor took from it
          sent,      \* what the server acknowledged last, as it is compared
          pending,   \* the revision and the snapshot being delivered
          mon,       \* where the monitor is
          conn,      \* the request it waits for
          link       \* how much of the pairing is left on this machine

server == <<open, mark, presence, phase, req, ans>>
client == <<counter, box, latest, sent, pending, mon, conn, link>>
vars   == <<server, client>>

Server == INSTANCE PresenceRegister WITH Devices <- {Device}

Snapshots == Server!Snapshots
Project(s) == Server!Project(s)
Pending == [rev: 1..MaxRevision, snap: Snapshots]

Calling == {"call", "called"}
Active  == {"run", "wait"} \cup Calling
Blocked == {"denied", "exhausted", "diskFailed", "noCredential", "lockReleased"}

TypeOK ==
  /\ open \subseteq {Device}
  /\ mark \in [{Device} -> 0..MaxRevision]
  /\ presence \subseteq [dev: {Device}, rev: 1..MaxRevision, snap: Server!Projections]
  /\ phase \in [Handlers -> {"idle", "open", "turned", "done"}]
  /\ req \in [Handlers -> Server!Request \cup {None}]
  /\ ans \in [Handlers -> Server!Answer \cup {None}]
  /\ \A h \in Handlers : phase[h] # "idle" => req[h] \in Server!Request
  /\ \A h \in Handlers : phase[h] = "done" => ans[h] \in Server!Answer
  /\ counter \in 0..MaxRevision
  /\ box \in Snapshots \cup {None}
  /\ latest \in Snapshots \cup {None}
  /\ sent \in Server!Projections \cup {None}
  /\ pending \in Pending \cup {None}
  /\ mon \in {"down", "off"} \cup Active \cup Blocked
  /\ conn \in Handlers \cup {None}
  /\ conn # None <=> mon \in Calling
  /\ mon \in Calling \cup {"wait"} => pending # None
  /\ link \in {"paired", "deleted", "released", "left"}

Init ==
  /\ Server!Init
  /\ counter = 0
  /\ box = None /\ latest = None /\ sent = None /\ pending = None
  /\ mon = "down"
  /\ conn = None
  /\ link = "paired"

Larger(a, b) == IF a < b THEN b ELSE a

\* samePresence: shard and party_count do not count.
MustSend == latest # None /\ sent # Project(latest)
-----------------------------------------------------------------------------
(* The process around the monitor                                          *)

\* configureConnection: with a credential and the lock the monitor starts with
\* the device, otherwise it waits for one.
Launch ==
  /\ mon = "down"
  /\ mon' = IF link = "paired" THEN "run" ELSE "off"
  /\ UNCHANGED <<server, counter, box, latest, sent, pending, conn, link>>

\* OnLiveSnapshot: a snapshot that was not taken yet is thrown away.
Observe(s) ==
  /\ mon # "down"
  /\ box' = s
  /\ UNCHANGED <<server, counter, latest, sent, pending, mon, conn, link>>

\* disconnectLocally: the credential goes first, then the lock, and only then
\* is the monitor told.
Disconnect ==
  /\ "leave" \in Faults /\ mon # "down"
  /\ \/ link = "paired"   /\ link' = "deleted"
     \/ link = "deleted"  /\ link' = "released"
     \/ link = "released" /\ link' = "left"
  /\ UNCHANGED <<server, counter, box, latest, sent, pending, mon, conn>>

\* The update arrives wherever the monitor waits; a call is given up.
Reconfigure ==
  /\ link = "left"
  /\ mon \in Calling \cup {"wait"} \cup Blocked \/ (mon = "run" /\ pending = None /\ ~MustSend)
  /\ mon' = "off"
  /\ sent' = None /\ pending' = None /\ conn' = None
  /\ UNCHANGED <<server, counter, box, latest, link>>

\* What is on the way stays on the way.
Crash ==
  /\ "crash" \in Faults /\ mon # "down"
  /\ mon' = "down"
  /\ box' = None /\ latest' = None /\ sent' = None /\ pending' = None
  /\ conn' = None
  /\ UNCHANGED <<server, counter, link>>

\* The state file is replaced by an older copy while the client is not running.
Restore ==
  /\ "restore" \in Faults /\ mon = "down"
  /\ \E r \in 0..counter : counter' = r
  /\ UNCHANGED <<server, box, latest, sent, pending, mon, conn, link>>
-----------------------------------------------------------------------------
(* The monitor                                                             *)

\* Mutant: it also takes a snapshot into the body that is being retried.
TakeIntoPending ==
  /\ box # None
  /\ mon \in {"off", "call", "wait"} \cup Blocked \/ (mon = "run" /\ pending = None /\ ~MustSend)
  /\ latest' = box /\ box' = None
  /\ mon' = IF mon = "call" THEN "called" ELSE mon
  /\ pending' = IF mon = "wait" THEN [pending EXCEPT !.snap = box] ELSE pending
  /\ UNCHANGED <<server, counter, sent, conn, link>>

\* A snapshot is taken when there is nothing to send, once during a call, and
\* any time between two attempts.
TakeSnapshot ==
  /\ box # None
  /\ mon \in {"off", "call", "wait"} \cup Blocked \/ (mon = "run" /\ pending = None /\ ~MustSend)
  /\ latest' = box /\ box' = None
  /\ mon' = IF mon = "call" THEN "called" ELSE mon
  /\ UNCHANGED <<server, counter, sent, pending, conn, link>>

\* Advance and AdvanceAtLeast.  Without a revision the monitor stops sending.
Stop(reason) == mon' = reason /\ pending' = None

\* Mutant: the revision is used although it could not be saved.
ObtainUnsaved(minimum) ==
  LET floor == Larger(counter, minimum) IN
  /\ floor < MaxRevision
  /\ counter' \in {counter, floor + 1}
  /\ pending' = [rev |-> floor + 1, snap |-> latest]
  /\ mon' = "run"

ObtainRevision(minimum) ==
  LET floor == Larger(counter, minimum) IN
  \/ /\ link \in {"paired", "deleted"} /\ floor < MaxRevision
     /\ counter' = floor + 1
     /\ pending' = [rev |-> floor + 1, snap |-> latest]
     /\ mon' = "run"
  \/ /\ link \in {"paired", "deleted"} /\ floor >= MaxRevision
     /\ Stop("exhausted")
     /\ UNCHANGED counter
  \/ /\ link \in {"paired", "deleted"} /\ floor < MaxRevision /\ "disk" \in Faults
     /\ counter' \in {counter, floor + 1}
     /\ Stop("diskFailed")
  \/ /\ link \in {"released", "left"}
     /\ Stop("lockReleased")
     /\ UNCHANGED counter

Allocate ==
  /\ mon = "run" /\ pending = None /\ MustSend
  /\ ObtainRevision(0)
  /\ UNCHANGED <<server, box, latest, sent, conn, link>>

Send(h) ==
  /\ mon = "run" /\ pending # None /\ link = "paired"
  /\ Server!Invoke(h, [dev |-> Device, rev |-> pending.rev, snap |-> pending.snap])
  /\ conn' = h
  /\ mon' = "call"
  /\ UNCHANGED <<counter, box, latest, sent, pending, link>>

\* The request does not leave the machine.
Unreachable ==
  /\ "lose" \in Faults
  /\ mon = "run" /\ pending # None
  /\ mon' = "wait"
  /\ UNCHANGED <<server, counter, box, latest, sent, pending, conn, link>>

NoCredential ==
  /\ mon = "run" /\ pending # None /\ link # "paired"
  /\ Stop("noCredential")
  /\ UNCHANGED <<server, counter, box, latest, sent, conn, link>>

Timer ==
  /\ mon = "wait"
  /\ mon' = "run"
  /\ UNCHANGED <<server, counter, box, latest, sent, pending, conn, link>>
-----------------------------------------------------------------------------
(* Answers.  The request that was sent is still the pending one.           *)

Answered(codes) ==
  /\ conn # None /\ phase[conn] = "done"
  /\ ans[conn].code \in codes
  /\ Server!Return(conn)
  /\ conn' = None

\* Mutant: what counts as acknowledged is the newest snapshot.
AcknowledgeLatest ==
  /\ Answered({"accepted", "duplicate"})
  /\ sent' = Project(latest)
  /\ pending' = None
  /\ mon' = "run"
  /\ UNCHANGED <<counter, box, latest, link>>

Acknowledge ==
  /\ Answered({"accepted", "duplicate"})
  /\ sent' = Project(pending.snap)
  /\ pending' = None
  /\ mon' = "run"
  /\ UNCHANGED <<counter, box, latest, link>>

\* Mutant: the body that was refused is sent again.
RetryRefused ==
  /\ Answered({"stale_revision", "revision_conflict"})
  /\ mon' = "run"
  /\ UNCHANGED <<counter, box, latest, sent, pending, link>>

\* The newest snapshot goes out above the server's revision.
Reconcile ==
  /\ Answered({"stale_revision", "revision_conflict"})
  /\ ObtainRevision(ans[conn].rev)
  /\ UNCHANGED <<box, latest, sent, link>>

Refused ==
  /\ Answered(Server!Denials \cup {"invalid_payload"})
  /\ Stop("denied")
  /\ UNCHANGED <<counter, box, latest, sent, link>>

Postpone ==
  /\ Answered(Server!Delays)
  /\ mon' = "wait"
  /\ UNCHANGED <<counter, box, latest, sent, pending, link>>

\* Mutant: a call without an answer counts as made.
HangUpAsSent ==
  /\ conn # None
  /\ conn' = None
  /\ sent' = Project(pending.snap) /\ pending' = None
  /\ mon' = "run"
  /\ UNCHANGED <<server, counter, box, latest, link>>

\* Mutant: the body is dropped while the timer runs.
HangUpDropped ==
  /\ conn # None
  /\ conn' = None
  /\ pending' = None
  /\ mon' = "wait"
  /\ UNCHANGED <<server, counter, box, latest, sent, link>>

\* No answer in time, a broken connection or an unreadable answer: the same
\* body is sent again later.
HangUp ==
  /\ conn # None
  /\ "lose" \in Faults \/ phase[conn] = "idle"
  /\ conn' = None
  /\ mon' = "wait"
  /\ UNCHANGED <<server, counter, box, latest, sent, pending, link>>
-----------------------------------------------------------------------------
(* The server, and requests whose answer nobody waits for                  *)

Serve(h) ==
  /\ \/ Server!Accept(h) \/ Server!Repeat(h) \/ Server!Stale(h) \/ Server!Conflict(h)
     \/ Server!TurnAway(h) \/ Server!Deny(h)
  /\ UNCHANGED client

Overload(h) ==
  /\ "lose" \in Faults
  /\ Server!Delay(h)
  /\ UNCHANGED client

Discard(h) ==
  /\ h # conn
  /\ Server!Return(h)
  /\ UNCHANGED client

RestartServer ==
  /\ "restart" \in Faults
  /\ Server!Restart
  /\ UNCHANGED client

\* Revocation or a blocked account, and an unblocked one.
CloseDevice ==
  /\ "close" \in Faults /\ Device \in open
  /\ Server!Close({Device})
  /\ UNCHANGED client

ReopenDevice ==
  /\ "close" \in Faults /\ Device \notin open
  /\ Server!Reopen({Device})
  /\ UNCHANGED client
-----------------------------------------------------------------------------
Monitor ==
  \/ TakeSnapshot \/ Allocate \/ (\E h \in Handlers : Send(h)) \/ NoCredential \/ Timer
  \/ Acknowledge \/ Reconcile \/ Refused \/ Postpone
  \/ Reconfigure

Next ==
  \/ Launch \/ Disconnect \/ Crash \/ Restore
  \/ \E s \in Snapshots : Observe(s)
  \/ Monitor \/ Unreachable \/ HangUp
  \/ \E h \in Handlers : Serve(h) \/ Overload(h) \/ Discard(h)
  \/ RestartServer \/ CloseDevice \/ ReopenDevice

Spec == Init /\ [][Next]_vars

\* The monitor's goroutine runs, its timers fire, a connection that is broken
\* is noticed, and every request is answered (RequestIsAnswered of
\* TelemetryPresence).
Fairness ==
  /\ WF_vars(Monitor)
  /\ WF_vars(HangUp /\ phase[conn] = "idle")
  /\ \A h \in Handlers : WF_vars(Serve(h)) /\ WF_vars(Discard(h))

FairSpec == Spec /\ Fairness
-----------------------------------------------------------------------------
(* Properties                                                              *)

OnTheWay == {req[h] : h \in {k \in Handlers : phase[k] \in {"open", "turned"}}}

\* A revision stands for one snapshot: retries, delayed requests of earlier
\* runs and the row on the server never disagree about it, so the server can
\* tell a repeated request from a new one by its revision alone.
OneBodyPerRevision ==
  /\ \A a, b \in OnTheWay : a.rev = b.rev => a.snap = b.snap
  /\ pending # None => \A a \in OnTheWay : a.rev = pending.rev => a.snap = pending.snap
  /\ \A row \in presence :
       /\ \A a \in OnTheWay : a.rev = row.rev => Project(a.snap) = row.snap
       /\ pending # None /\ pending.rev = row.rev => Project(pending.snap) = row.snap

\* The durable revision is above everything that was ever sent: a run that
\* starts from it cannot be overtaken by a request of an earlier run.
CounterIsAhead ==
  /\ mark[Device] <= counter
  /\ \A a \in OnTheWay : a.rev <= counter

\* What the monitor takes for acknowledged is what the server shows, unless it
\* shows the snapshot being delivered, or none at all (a closed device).
AcknowledgedIsShown ==
  mon \in Active /\ sent # None =>
    \A row \in presence :
      row.snap = sent \/ (pending # None /\ row.rev = pending.rev)

\* Once nothing more is observed and nothing more goes wrong, the server shows
\* the last snapshot that was observed, unless the revisions ran out.
Disturb ==
  \/ Launch \/ Disconnect \/ Crash \/ Restore
  \/ \E s \in Snapshots : Observe(s)
  \/ Unreachable \/ (HangUp /\ phase[conn] # "idle")
  \/ \E h \in Handlers : Overload(h)
  \/ RestartServer \/ CloseDevice \/ ReopenDevice

Shown ==
  /\ box = None
  /\ latest # None => \E row \in presence : row.snap = Project(latest)

Delivery ==
  \/ []<><<Disturb>>_vars
  \/ <>[](mon \in {"down", "off", "exhausted"} \/ Shown)

\* Reconciling with the server comes to an end, also from an older counter and
\* after the device was closed: the last snapshot observed is acknowledged, or
\* the monitor has stopped for a reason that repeating would not cure.
Reconciliation ==
  \/ []<><<Disturb>>_vars
  \/ <>[](mon \in {"down", "off"} \cup Blocked \/ (box = None /\ ~MustSend))
=============================================================================
