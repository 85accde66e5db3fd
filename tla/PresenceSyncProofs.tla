------------------------- MODULE PresenceSyncProofs -------------------------
(***************************************************************************)
(* Safety of the presence monitor together with the server, for any number *)
(* of requests on the way and any largest revision, as long as the         *)
(* revision file is not replaced by an older one; types, and the interface *)
(* to the server, with such a file too.                                    *)
(***************************************************************************)
EXTENDS PresenceSync, TLAPS

Waiting(h) == phase[h] \in {"open", "turned"}

\* The revision being delivered is the durable one, and the largest in use.
CounterIsLargest ==
  /\ mark[Device] <= counter
  /\ \A h \in Handlers : Waiting(h) => req[h].rev <= counter
  /\ pending # None => pending.rev = counter /\ latest # None

OneBody ==
  /\ \A g, h \in Handlers :
       Waiting(g) /\ Waiting(h) /\ req[g].rev = req[h].rev => req[g].snap = req[h].snap
  /\ \A h \in Handlers :
       pending # None /\ Waiting(h) /\ req[h].rev = pending.rev => req[h].snap = pending.snap
  /\ \A row \in presence :
       /\ row.rev = mark[Device]
       /\ \A h \in Handlers :
            Waiting(h) /\ req[h].rev = row.rev => Project(req[h].snap) = row.snap
       /\ pending # None /\ pending.rev = row.rev => Project(pending.snap) = row.snap

\* The request that is waited for carries the pending body, and a verdict on it
\* says that the mark has reached it.  It is refused only if the server shows
\* nothing, because the device was closed.
CallIsPending ==
  conn # None /\ phase[conn] # "idle" =>
    /\ req[conn].rev = pending.rev /\ req[conn].snap = pending.snap
    /\ phase[conn] = "done" /\ ans[conn].code \in Server!Verdicts =>
         mark[Device] >= pending.rev
    /\ phase[conn] = "done" /\ ans[conn].code \in {"stale_revision", "revision_conflict"} =>
         presence = {}

\* Only the pending body can still replace what was acknowledged.
NothingElseToCome ==
  /\ mon = "down" => sent = None
  /\ mon \in Active /\ sent # None =>
       \A h \in Handlers :
         Waiting(h) =>
           req[h].rev <= mark[Device] \/ (pending # None /\ req[h].rev = pending.rev)

IInv ==
  /\ TypeOK
  /\ CounterIsLargest
  /\ OneBody
  /\ CallIsPending
  /\ NothingElseToCome
  /\ AcknowledgedIsShown

USE SyncAssumption DEF TypeOK, Snapshots, Pending, Calling, Active, Blocked,
    Server!Snapshots, Server!Projections, Server!Request, Server!Answer,
    Server!Verdicts, Server!Denials, Server!Delays

LEMMA InitIInv == Init => IInv
  BY DEF Init, Server!Init, IInv, CounterIsLargest, OneBody, CallIsPending, NothingElseToCome,
     AcknowledgedIsShown, Waiting
-----------------------------------------------------------------------------
(* The monitor's own steps                                                 *)

LEMMA LaunchIInv ==
  ASSUME IInv, Launch
  PROVE  IInv'
<1> USE DEF IInv, Launch, server
<1>1. TypeOK'
  OBVIOUS
<1>2. CounterIsLargest' /\ OneBody' /\ CallIsPending'
  BY DEF CounterIsLargest, OneBody, CallIsPending, Waiting
<1>3. NothingElseToCome' /\ AcknowledgedIsShown'
  BY DEF NothingElseToCome, AcknowledgedIsShown, Waiting
<1> QED
  BY <1>1, <1>2, <1>3

LEMMA ClientIInv ==
  ASSUME IInv,
         \/ \E s \in Snapshots : Observe(s)
         \/ Disconnect \/ Reconfigure \/ Crash \/ TakeSnapshot
         \/ Unreachable \/ NoCredential \/ Timer \/ HangUp
  PROVE  IInv'
<1> USE DEF IInv, server, Observe, Disconnect, Reconfigure, Crash, TakeSnapshot,
    Unreachable, NoCredential, Timer, HangUp, Stop
<1>1. TypeOK'
  OBVIOUS
<1>2. CounterIsLargest'
  BY DEF CounterIsLargest, Waiting
<1>3. OneBody'
  BY DEF OneBody, Waiting
<1>4. CallIsPending'
  BY DEF CallIsPending
<1>5. NothingElseToCome'
  BY DEF NothingElseToCome, Waiting
<1>6. AcknowledgedIsShown'
  BY DEF AcknowledgedIsShown
<1> QED
  BY <1>1, <1>2, <1>3, <1>4, <1>5, <1>6

\* A revision that is used is above the durable one and above the minimum, and
\* is the durable one from then on.
Fresh(minimum) ==
  /\ counter' \in (counter + 1)..MaxRevision /\ counter' > minimum
  /\ pending' = [rev |-> counter', snap |-> latest]
  /\ mon' = "run"

Stopped ==
  /\ counter' \in counter..MaxRevision
  /\ pending' = None
  /\ mon' \in Blocked

LEMMA ObtainResult ==
  ASSUME TypeOK, NEW minimum \in 0..MaxRevision, ObtainRevision(minimum)
  PROVE  Fresh(minimum) \/ Stopped
  BY DEF ObtainRevision, Fresh, Stopped, Stop, Larger

LEMMA AllocateIInv ==
  ASSUME IInv, Allocate
  PROVE  IInv'
<1> USE DEF IInv, server
<1>1. Fresh(0) \/ Stopped
  BY ObtainResult DEF Allocate
<1>2. latest # None /\ conn = None /\ mon = "run" /\ pending = None
  BY DEF Allocate, MustSend
<1>3. UNCHANGED <<server, box, latest, sent, conn, link>>
  BY DEF Allocate
<1>4. CASE Fresh(0)
  <2> USE <1>2, <1>3, <1>4 DEF Fresh
  <2>1. TypeOK'
    OBVIOUS
  <2>2. CounterIsLargest'
    BY DEF CounterIsLargest, Waiting
  <2>3. OneBody'
    BY DEF OneBody, CounterIsLargest, Waiting
  <2>4. CallIsPending' /\ NothingElseToCome' /\ AcknowledgedIsShown'
    BY DEF CallIsPending, NothingElseToCome, AcknowledgedIsShown, Waiting
  <2> QED
    BY <2>1, <2>2, <2>3, <2>4
<1>5. CASE Stopped
  <2> USE <1>2, <1>3, <1>5 DEF Stopped
  <2>1. TypeOK'
    OBVIOUS
  <2>2. CounterIsLargest'
    BY DEF CounterIsLargest, Waiting
  <2>3. OneBody'
    BY DEF OneBody, Waiting
  <2>4. CallIsPending' /\ NothingElseToCome' /\ AcknowledgedIsShown'
    BY DEF CallIsPending, NothingElseToCome, AcknowledgedIsShown
  <2> QED
    BY <2>1, <2>2, <2>3, <2>4
<1> QED
  BY <1>1, <1>4, <1>5

LEMMA SendIInv ==
  ASSUME IInv, NEW h \in Handlers, Send(h)
  PROVE  IInv'
<1> USE DEF IInv, Send, Server!Invoke
<1>1. TypeOK'
  <2>1. [dev |-> Device, rev |-> pending.rev, snap |-> pending.snap] \in Server!Request
    OBVIOUS
  <2> QED
    BY <2>1
<1>2. CounterIsLargest'
  BY DEF CounterIsLargest, Waiting
<1>3. OneBody'
  BY DEF OneBody, Waiting
<1>4. CallIsPending'
  BY DEF CallIsPending
<1>5. NothingElseToCome'
  BY DEF NothingElseToCome, Waiting
<1>6. AcknowledgedIsShown'
  BY DEF AcknowledgedIsShown
<1> QED
  BY <1>1, <1>2, <1>3, <1>4, <1>5, <1>6

\* Taking an answer frees the request and leaves the rest of the server alone.
Taken(codes) ==
  /\ conn \in Handlers /\ mon \in Calling /\ pending \in Pending
  /\ phase[conn] = "done" /\ ans[conn] \in Server!Answer /\ ans[conn].code \in codes
  /\ phase' = [phase EXCEPT ![conn] = "idle"]
  /\ req' = [req EXCEPT ![conn] = None]
  /\ ans' = [ans EXCEPT ![conn] = None]
  /\ conn' = None
  /\ UNCHANGED <<open, mark, presence>>

LEMMA AnsweredResult ==
  ASSUME TypeOK, NEW codes, Answered(codes)
  PROVE  Taken(codes)
  BY DEF Answered, Taken, Server!Return

\* An answer that leads to no new revision brings no new body.
LEMMA TakenBodies ==
  ASSUME IInv, NEW codes, Taken(codes), UNCHANGED <<counter, latest>>, pending' \in {pending, None}
  PROVE  CounterIsLargest' /\ OneBody'
<1>1. \A h \in Handlers : Waiting(h)' => Waiting(h) /\ req'[h] = req[h]
  BY DEF IInv, Taken, Waiting
<1>2. UNCHANGED <<mark, presence>>
  BY DEF Taken
<1>3. CounterIsLargest'
  BY <1>1, <1>2 DEF IInv, CounterIsLargest
<1>4. OneBody'
  BY <1>1, <1>2 DEF IInv, OneBody, Project, Server!Project
<1> QED
  BY <1>3, <1>4

LEMMA AnswerIInv ==
  ASSUME IInv, Acknowledge \/ Refused \/ Postpone
  PROVE  IInv'
<1> USE DEF IInv
<1>1. CASE Acknowledge
  <2>1. /\ Taken({"accepted", "duplicate"})
        /\ sent' = Project(pending.snap) /\ pending' = None /\ mon' = "run"
        /\ UNCHANGED <<counter, box, latest, link>>
    BY <1>1, AnsweredResult DEF Acknowledge
  <2>2. mark[Device] = pending.rev
    BY <2>1 DEF Taken, CallIsPending, CounterIsLargest
  <2>3. TypeOK'
    BY <2>1 DEF Taken, Project, Server!Project
  <2>4. CounterIsLargest' /\ OneBody'
    BY <2>1, TakenBodies
  <2>5. CallIsPending'
    BY <2>1 DEF Taken, CallIsPending
  <2>6. NothingElseToCome'
    BY <2>1, <2>2 DEF Taken, NothingElseToCome, CounterIsLargest, Waiting
  <2>7. AcknowledgedIsShown'
    BY <2>1, <2>2 DEF Taken, AcknowledgedIsShown, OneBody
  <2> QED
    BY <2>3, <2>4, <2>5, <2>6, <2>7
<1>2. CASE Refused
  <2>1. /\ Taken(Server!Denials \cup {"invalid_payload"})
        /\ mon' = "denied" /\ pending' = None
        /\ UNCHANGED <<counter, box, latest, sent, link>>
    BY <1>2, AnsweredResult DEF Refused, Stop
  <2>2. TypeOK'
    BY <2>1 DEF Taken
  <2>3. CounterIsLargest' /\ OneBody'
    BY <2>1, TakenBodies
  <2>4. CallIsPending' /\ NothingElseToCome' /\ AcknowledgedIsShown'
    BY <2>1 DEF Taken, CallIsPending, NothingElseToCome, AcknowledgedIsShown
  <2> QED
    BY <2>2, <2>3, <2>4
<1>3. CASE Postpone
  <2>1. /\ Taken(Server!Delays)
        /\ mon' = "wait"
        /\ UNCHANGED <<counter, box, latest, sent, pending, link>>
    BY <1>3, AnsweredResult DEF Postpone
  <2>2. TypeOK'
    BY <2>1 DEF Taken
  <2>3. CounterIsLargest' /\ OneBody'
    BY <2>1, TakenBodies
  <2>4. CallIsPending' /\ AcknowledgedIsShown'
    BY <2>1 DEF Taken, CallIsPending, AcknowledgedIsShown
  <2>5. NothingElseToCome'
    BY <2>1 DEF Taken, NothingElseToCome, Waiting
  <2> QED
    BY <2>2, <2>3, <2>4, <2>5
<1> QED
  BY <1>1, <1>2, <1>3

LEMMA ReconcileIInv ==
  ASSUME IInv, Reconcile
  PROVE  IInv'
<1> USE DEF IInv
<1>1. /\ Taken({"stale_revision", "revision_conflict"})
      /\ ObtainRevision(ans[conn].rev) /\ UNCHANGED <<box, latest, sent, link>>
  BY AnsweredResult DEF Reconcile
<1>2. ans[conn].rev \in 0..MaxRevision
  BY <1>1 DEF Taken
<1>3. Fresh(ans[conn].rev) \/ Stopped
  BY <1>1, <1>2, ObtainResult
<1>4. presence = {} /\ mark[Device] = counter /\ latest # None
  BY <1>1 DEF Taken, CallIsPending, CounterIsLargest
<1>5. presence' = {} /\ mark' = mark /\ conn' = None
  BY <1>1, <1>4 DEF Taken
<1>6. \A h \in Handlers :
        Waiting(h)' => Waiting(h) /\ req'[h] = req[h] /\ req[h].rev <= counter
  BY <1>1 DEF Taken, Waiting, CounterIsLargest
<1>7. CASE Fresh(ans[conn].rev)
  <2>1. TypeOK'
    BY <1>1, <1>4, <1>7 DEF Fresh, Taken
  <2>2. CounterIsLargest'
    <3>1. counter \in Int /\ counter' \in Int /\ counter' > counter /\ mark'[Device] = counter
      BY <1>4, <1>5, <1>7 DEF Fresh
    <3>2. \A h \in Handlers : Waiting(h) => req[h].rev \in Int
      BY DEF Waiting
    <3>3. pending' # None => pending'.rev = counter' /\ latest' # None
      BY <1>1, <1>4, <1>7 DEF Fresh
    <3> QED
      BY <1>6, <3>1, <3>2, <3>3 DEF CounterIsLargest
  <2>3. OneBody'
    <3>1. \A h \in Handlers : Waiting(h)' =>
            Waiting(h) /\ req'[h] = req[h] /\ req[h].rev # counter'
      BY <1>6, <1>7 DEF Fresh, Waiting
    <3>2. pending' # None => pending'.rev = counter'
      BY <1>7 DEF Fresh
    <3> QED
      BY ONLY <1>5, <3>1, <3>2, OneBody DEF OneBody
  <2>4. CallIsPending' /\ AcknowledgedIsShown'
    BY <1>5 DEF CallIsPending, AcknowledgedIsShown
  <2>5. NothingElseToCome'
    BY <1>4, <1>5, <1>6, <1>7 DEF Fresh, NothingElseToCome
  <2> QED
    BY <2>1, <2>2, <2>3, <2>4, <2>5
<1>8. CASE Stopped
  <2>1. TypeOK'
    BY <1>1, <1>8 DEF Stopped, Taken
  <2>2. CounterIsLargest'
    <3>1. counter \in Int /\ counter' \in Int /\ counter' >= counter /\ mark'[Device] = counter
      BY <1>4, <1>5, <1>8 DEF Stopped
    <3>2. \A h \in Handlers : Waiting(h) => req[h].rev \in Int
      BY DEF Waiting
    <3> QED
      BY <1>6, <1>8, <3>1, <3>2 DEF Stopped, CounterIsLargest
  <2>3. OneBody'
    BY ONLY <1>5, <1>6, <1>8, OneBody DEF Stopped, OneBody
  <2>4. CallIsPending' /\ NothingElseToCome' /\ AcknowledgedIsShown'
    BY <1>5, <1>8 DEF Stopped, CallIsPending, NothingElseToCome, AcknowledgedIsShown
  <2> QED
    BY <2>1, <2>2, <2>3, <2>4
<1> QED
  BY <1>3, <1>7, <1>8
-----------------------------------------------------------------------------
(* Steps of the server, at which the monitor stands still                  *)

LEMMA AcceptIInv ==
  ASSUME IInv, NEW h \in Handlers, Server!Accept(h), UNCHANGED client
  PROVE  IInv'
<1> DEFINE r == req[h].rev
<1>1. /\ phase[h] = "open" /\ req[h] \in Server!Request /\ req[h].dev = Device
      /\ r \in 1..MaxRevision /\ r > mark[Device]
      /\ mark' = [mark EXCEPT ![Device] = r]
      /\ UNCHANGED <<open, req>>
      /\ phase' = [phase EXCEPT ![h] = "done"]
  BY DEF IInv, Server!Accept, Server!Reply
<1>2. \E code \in {"accepted", "server_unavailable"}, v \in 0..MaxRevision :
        ans' = [ans EXCEPT ![h] = [code |-> code, rev |-> v]]
  BY SyncAssumption DEF IInv, Server!Accept, Server!Reply
<1>3. presence' = {[dev |-> Device, rev |-> r, snap |-> Project(req[h].snap)]}
  <2>1. Server!RowsOf({Device}) = presence
    BY DEF IInv, Server!RowsOf
  <2> QED
    BY <1>1, <2>1 DEF Server!Accept, Server!Row, Project, Server!Project
<1>4. UNCHANGED <<counter, box, latest, sent, pending, mon, conn, link>>
  BY DEF client
<1> HIDE DEF r
<1>5. Waiting(h) /\ \A g \in Handlers :
        /\ req'[g] = req[g]
        /\ Waiting(g)' => Waiting(g)
        /\ g # h => phase'[g] = phase[g] /\ ans'[g] = ans[g]
  BY <1>1, <1>2 DEF IInv, Waiting
<1>6. mark'[Device] = r /\ r <= counter
  BY <1>1, <1>5 DEF r, IInv, CounterIsLargest
<1>7. TypeOK'
  <2>1. presence' \subseteq [dev: {Device}, rev: 1..MaxRevision, snap: Server!Projections]
    BY <1>1, <1>3 DEF Project, Server!Project
  <2>2. phase' \in [Handlers -> {"idle", "open", "turned", "done"}] /\ mark' \in [{Device} -> 0..MaxRevision]
    BY <1>1 DEF IInv
  <2>3. ans' \in [Handlers -> Server!Answer \cup {None}] /\ ans'[h] \in Server!Answer
    BY <1>2 DEF IInv
  <2> QED
    BY <1>1, <1>4, <1>5, <2>1, <2>2, <2>3 DEF IInv
<1>8. CounterIsLargest'
  BY <1>4, <1>5, <1>6 DEF IInv, CounterIsLargest
<1>9. OneBody'
  <2>1. ASSUME NEW row \in presence'
        PROVE  row.rev = r /\ row.snap = Project(req[h].snap)
    BY <1>3
  <2>2. \A g \in Handlers : Waiting(g)' /\ req[g].rev = r => req[g].snap = req[h].snap
    BY <1>5 DEF r, IInv, OneBody
  <2>3. pending # None /\ pending.rev = r => pending.snap = req[h].snap
    BY <1>5 DEF r, IInv, OneBody
  <2>4. \A row \in presence' :
          /\ row.rev = mark'[Device]
          /\ \A g \in Handlers : Waiting(g)' /\ req'[g].rev = row.rev => Project(req'[g].snap) = row.snap
          /\ pending' # None /\ pending'.rev = row.rev => Project(pending'.snap) = row.snap
    BY <1>4, <1>5, <1>6, <2>1, <2>2, <2>3
  <2> QED
    BY <1>4, <1>5, <2>4 DEF IInv, OneBody, Project, Server!Project
<1>10. CallIsPending'
  <2>1. CASE conn = h
    <3>1. req[h].rev = pending.rev /\ req[h].snap = pending.snap
      BY <1>1, <2>1 DEF IInv, CallIsPending
    <3>2. ans'[h].code \notin {"stale_revision", "revision_conflict"}
      BY <1>2 DEF IInv
    <3> QED
      BY <1>4, <1>5, <1>6, <1>1, <2>1, <3>1, <3>2 DEF IInv, CallIsPending, r
  <2>2. CASE conn # h /\ conn # None
    <3>1. conn \in Handlers /\ pending # None
      BY <2>2 DEF IInv
    <3>2. pending.rev = counter
      BY <3>1 DEF IInv, CounterIsLargest
    <3>3. ~(phase[conn] = "done" /\ ans[conn].code \in Server!Verdicts)
      BY <1>1, <1>6, <2>2, <3>2, <3>1 DEF IInv, CallIsPending
    <3> QED
      BY <1>4, <1>5, <2>2, <3>1, <3>3 DEF IInv, CallIsPending
  <2> QED
    BY <1>4, <2>1, <2>2 DEF CallIsPending
<1>11. NothingElseToCome'
  <2>1. mark[Device] \in Int /\ r \in Int /\ mark[Device] < mark'[Device]
    BY <1>1, <1>6 DEF IInv
  <2>2. \A g \in Handlers : Waiting(g) => req[g].rev \in Int
    BY DEF IInv, Waiting
  <2>3. \A g \in Handlers :
          Waiting(g)' /\ req[g].rev <= mark[Device] => req'[g].rev <= mark'[Device]
    BY <1>5, <1>6, <2>1, <2>2
  <2> QED
    BY <1>4, <1>5, <2>3 DEF IInv, NothingElseToCome
<1>12. AcknowledgedIsShown'
  <2>1. ASSUME mon \in Active, sent # None
        PROVE  pending # None /\ r = pending.rev
    BY <1>1, <1>5, <2>1 DEF IInv, NothingElseToCome, r
  <2> QED
    BY <1>3, <1>4, <2>1 DEF AcknowledgedIsShown
<1> QED
  BY <1>7, <1>8, <1>9, <1>10, <1>11, <1>12 DEF IInv

\* Every other answer leaves the register alone.
LEMMA ReplyIInv ==
  ASSUME IInv, NEW h \in Handlers, NEW code, NEW v \in 0..MaxRevision,
         code \in Server!Verdicts \cup Server!Denials \cup Server!Delays,
         Server!Reply(h, code, v), UNCHANGED <<mark, presence>>, UNCHANGED client,
         code \in Server!Verdicts => req[h].rev <= mark[Device],
         code \in {"stale_revision", "revision_conflict"} /\ conn = h
           /\ req[h].rev >= mark[Device] => presence = {},
         code = "stale_revision" => req[h].rev < mark[Device]
  PROVE  IInv'
<1> USE DEF IInv, Server!Reply, client
<1>1. phase[h] \in {"open", "turned"} /\ [code |-> code, rev |-> v] \in Server!Answer
  OBVIOUS
<1>2. TypeOK'
  <2>1. phase' \in [Handlers -> {"idle", "open", "turned", "done"}]
    OBVIOUS
  <2>2. ans' \in [Handlers -> Server!Answer \cup {None}]
    BY <1>1
  <2>3. \A g \in Handlers : phase'[g] = "done" => ans'[g] \in Server!Answer
    BY <1>1
  <2> QED
    BY <2>1, <2>2, <2>3
<1>3. CounterIsLargest'
  BY DEF CounterIsLargest, Waiting
<1>4. OneBody'
  BY DEF OneBody, Waiting
<1>5. CallIsPending'
  <2>1. CASE conn = h
    BY <2>1 DEF CallIsPending, CounterIsLargest
  <2>2. CASE conn # h
    BY <2>2 DEF CallIsPending
  <2> QED
    BY <2>1, <2>2
<1>6. NothingElseToCome'
  BY DEF NothingElseToCome, Waiting
<1>7. AcknowledgedIsShown'
  BY DEF AcknowledgedIsShown
<1> QED
  BY <1>2, <1>3, <1>4, <1>5, <1>6, <1>7

LEMMA ServeIInv ==
  ASSUME IInv, NEW h \in Handlers, Serve(h) \/ Overload(h)
  PROVE  IInv'
<1> USE DEF IInv
<1>1. UNCHANGED client
  BY DEF Serve, Overload
<1>2. CASE Server!Accept(h)
  BY <1>1, <1>2, AcceptIInv
<1>3. CASE Server!Repeat(h)
  BY <1>1, <1>3, ReplyIInv DEF Server!Repeat
<1>4. CASE Server!Stale(h)
  <2>1. conn = h => req[h].rev >= mark[Device]
    BY <1>4 DEF Server!Stale, CallIsPending, CounterIsLargest
  <2> QED
    BY <1>1, <1>4, <2>1, ReplyIInv DEF Server!Stale
<1>5. CASE Server!Conflict(h)
  <2>1. conn = h => presence = {}
    <3>1. SUFFICES ASSUME conn = h, NEW row \in presence
                   PROVE  FALSE
      OBVIOUS
    <3>2. row.rev = mark[Device] /\ row.dev = Device /\ req[h].dev = Device
      BY <1>5, <3>1 DEF Server!Conflict, OneBody
    <3>3. row.snap = Project(req[h].snap)
      BY <1>5, <3>1, <3>2 DEF Server!Conflict, OneBody, Waiting
    <3>4. row = [dev |-> row.dev, rev |-> row.rev, snap |-> row.snap]
      BY <3>1
    <3> QED
      BY <1>5, <3>1, <3>2, <3>3, <3>4 DEF Server!Conflict, Server!Row, Project
  <2> QED
    BY <1>1, <1>5, <2>1, ReplyIInv DEF Server!Conflict
<1>6. CASE Server!TurnAway(h)
  <2> USE <1>1, <1>6 DEF Server!TurnAway, client
  <2>1. TypeOK'
    OBVIOUS
  <2>2. CounterIsLargest'
    BY DEF CounterIsLargest, Waiting
  <2>3. OneBody'
    BY DEF OneBody, Waiting
  <2>4. CallIsPending'
    BY DEF CallIsPending
  <2>5. NothingElseToCome'
    BY DEF NothingElseToCome, Waiting
  <2>6. AcknowledgedIsShown'
    BY DEF AcknowledgedIsShown
  <2> QED
    BY <2>1, <2>2, <2>3, <2>4, <2>5, <2>6
<1>7. CASE Server!Deny(h)
  BY <1>1, <1>7, ReplyIInv DEF Server!Deny
<1>8. CASE Server!Delay(h)
  BY <1>1, <1>8, ReplyIInv DEF Server!Delay
<1> QED
  BY <1>2, <1>3, <1>4, <1>5, <1>6, <1>7, <1>8 DEF Serve, Overload

LEMMA DiscardIInv ==
  ASSUME IInv, NEW h \in Handlers, Discard(h)
  PROVE  IInv'
<1> USE DEF IInv, Discard, Server!Return, client
<1>1. TypeOK'
  OBVIOUS
<1>2. CounterIsLargest'
  BY DEF CounterIsLargest, Waiting
<1>3. OneBody'
  BY DEF OneBody, Waiting
<1>4. CallIsPending'
  BY DEF CallIsPending
<1>5. NothingElseToCome'
  BY DEF NothingElseToCome, Waiting
<1>6. AcknowledgedIsShown'
  BY DEF AcknowledgedIsShown
<1> QED
  BY <1>1, <1>2, <1>3, <1>4, <1>5, <1>6

LEMMA ServerFaultIInv ==
  ASSUME IInv, RestartServer \/ CloseDevice \/ ReopenDevice
  PROVE  IInv'
<1> USE DEF IInv, RestartServer, CloseDevice, ReopenDevice, Server!Restart, Server!Close,
    Server!Reopen, Server!RowsOf, client
<1>1. TypeOK'
  OBVIOUS
<1>2. CounterIsLargest'
  BY DEF CounterIsLargest, Waiting
<1>3. OneBody'
  BY DEF OneBody, Waiting
<1>4. CallIsPending'
  BY DEF CallIsPending
<1>5. NothingElseToCome'
  BY DEF NothingElseToCome, Waiting
<1>6. AcknowledgedIsShown'
  BY DEF AcknowledgedIsShown
<1> QED
  BY <1>1, <1>2, <1>3, <1>4, <1>5, <1>6

LEMMA StepIInv ==
  ASSUME IInv, [Next]_vars, "restore" \notin Faults
  PROVE  IInv'
<1>1. CASE UNCHANGED vars
  <2> USE <1>1 DEF IInv, vars, server, client
  <2>1. TypeOK'
    OBVIOUS
  <2>2. CounterIsLargest' /\ OneBody'
    BY DEF CounterIsLargest, OneBody, Waiting
  <2>3. CallIsPending' /\ NothingElseToCome' /\ AcknowledgedIsShown'
    BY DEF CallIsPending, NothingElseToCome, AcknowledgedIsShown, Waiting
  <2> QED
    BY <2>1, <2>2, <2>3
<1>2. ~Restore
  BY DEF Restore
<1>3. CASE Next
  BY <1>2, <1>3, LaunchIInv, ClientIInv, AllocateIInv, SendIInv, AnswerIInv, ReconcileIInv,
     ServeIInv, DiscardIInv, ServerFaultIInv DEF Next, Monitor
<1> QED
  BY <1>1, <1>3

\* As long as the revision file is not replaced by an older copy, the pending
\* body has the largest revision in use.
THEOREM SyncInvariance ==
  ASSUME "restore" \notin Faults
  PROVE  Spec => []IInv
<1>1. IInv /\ [Next]_vars => IInv'
  BY StepIInv
<1> QED
  BY <1>1, InitIInv, PTL DEF Spec

\* The durable revision is above everything that was ever sent (Advance before
\* send, AdvanceAtLeast when it is refused).
THEOREM Ahead ==
  ASSUME "restore" \notin Faults
  PROVE  Spec => []CounterIsAhead
<1>1. IInv => CounterIsAhead
  BY DEF IInv, CounterIsLargest, CounterIsAhead, OnTheWay, Waiting
<1> QED
  BY <1>1, SyncInvariance, PTL

\* A revision never stands for two snapshots, in retries, in requests of earlier
\* runs that are still on the way, or on the server.
THEOREM Bodies ==
  ASSUME "restore" \notin Faults
  PROVE  Spec => []OneBodyPerRevision
<1>1. IInv => OneBodyPerRevision
  BY DEF IInv, OneBody, OneBodyPerRevision, OnTheWay, Waiting
<1> QED
  BY <1>1, SyncInvariance, PTL

\* What the monitor compares a snapshot with (sent, samePresence) is what the
\* server shows, if it shows any and not the pending one already.
THEOREM Acknowledged ==
  ASSUME "restore" \notin Faults
  PROVE  Spec => []AcknowledgedIsShown
<1>1. IInv => AcknowledgedIsShown
  BY DEF IInv
<1> QED
  BY <1>1, SyncInvariance, PTL
-----------------------------------------------------------------------------
(* Whatever fails, also with a revision file that was replaced             *)

\* A revision is obtained only for a snapshot that was taken.
TypeInv ==
  /\ TypeOK
  /\ pending # None => latest # None

LEMMA MonitorTypes ==
  ASSUME TypeInv,
         \/ Launch \/ Disconnect \/ Crash \/ Restore \/ Unreachable \/ HangUp
         \/ \E s \in Snapshots : Observe(s)
         \/ TakeSnapshot \/ NoCredential \/ Timer \/ Reconfigure
  PROVE  TypeInv' /\ UNCHANGED server
<1> USE DEF TypeInv, server
<1>1. CASE Launch \/ Disconnect \/ Crash \/ Restore
  BY <1>1 DEF Launch, Disconnect, Crash, Restore
<1>2. CASE Unreachable \/ HangUp \/ NoCredential \/ Timer \/ Reconfigure
  BY <1>2 DEF Unreachable, HangUp, NoCredential, Timer, Reconfigure, Stop
<1>3. CASE TakeSnapshot \/ \E s \in Snapshots : Observe(s)
  BY <1>3 DEF TakeSnapshot, Observe
<1> QED
  BY <1>1, <1>2, <1>3

LEMMA ObtainTypes ==
  ASSUME TypeInv, latest # None, NEW minimum \in 0..MaxRevision, ObtainRevision(minimum),
         conn' = None, UNCHANGED <<box, latest, sent, link>>
  PROVE  /\ counter' \in 0..MaxRevision /\ pending' \in Pending \cup {None}
         /\ mon' \in {"run"} \cup Blocked
<1>1. latest \in Snapshots
  BY DEF TypeInv
<1>2. CASE Fresh(minimum)
  <2>1. counter' \in 1..MaxRevision
    BY <1>2 DEF Fresh, TypeInv
  <2>2. pending' \in Pending
    BY <1>1, <1>2, <2>1 DEF Fresh
  <2> QED
    BY <1>2, <2>1, <2>2 DEF Fresh
<1>3. CASE Stopped
  BY <1>3 DEF Stopped, TypeInv
<1> QED
  BY <1>2, <1>3, ObtainResult DEF TypeInv

LEMMA AllocateTypes ==
  ASSUME TypeInv, Allocate
  PROVE  TypeInv' /\ UNCHANGED server
<1>1. /\ latest # None /\ conn = None
      /\ ObtainRevision(0) /\ UNCHANGED <<server, box, latest, sent, conn, link>>
  BY DEF Allocate, MustSend, TypeInv
<1>2. /\ counter' \in 0..MaxRevision /\ pending' \in Pending \cup {None}
      /\ mon' \in {"run"} \cup Blocked
  BY <1>1, ObtainTypes
<1> QED
  BY <1>1, <1>2 DEF TypeInv, server

\* What the monitor sends is a request of the register, and an answer that it takes is
\* returned to it.
LEMMA CallTypes ==
  ASSUME TypeInv, NEW h \in Handlers, Send(h)
  PROVE  TypeInv' /\ Server!Next
<1>1. [dev |-> Device, rev |-> pending.rev, snap |-> pending.snap] \in Server!Request
  BY DEF TypeInv, Send
<1>2. TypeInv'
  BY <1>1 DEF TypeInv, Send, Server!Invoke
<1>3. Server!Next
  BY <1>1 DEF Send, Server!Next
<1> QED
  BY <1>2, <1>3

LEMMA AnswerTypes ==
  ASSUME TypeInv, Acknowledge \/ Refused \/ Postpone \/ Reconcile
  PROVE  TypeInv' /\ Server!Next
<1>1. ASSUME NEW codes, Answered(codes) PROVE Taken(codes) /\ Server!Next
  <2>1. conn \in Handlers /\ Server!Return(conn)
    BY <1>1 DEF Answered, TypeInv
  <2> QED
    BY <1>1, <2>1, AnsweredResult DEF Server!Next, TypeInv
<1>2. CASE Acknowledge
  <2>1. /\ Taken({"accepted", "duplicate"})
        /\ sent' = Project(pending.snap) /\ pending' = None /\ mon' = "run"
        /\ UNCHANGED <<counter, box, latest, link>>
    BY <1>1, <1>2 DEF Acknowledge
  <2>2. TypeInv'
    BY <2>1 DEF TypeInv, Taken, Project, Server!Project
  <2> QED
    BY <1>1, <1>2, <2>2 DEF Acknowledge
<1>3. CASE Refused
  <2>1. /\ Taken(Server!Denials \cup {"invalid_payload"}) /\ Server!Next
        /\ mon' = "denied" /\ pending' = None /\ UNCHANGED <<counter, box, latest, sent, link>>
    BY <1>1, <1>3 DEF Refused, Stop
  <2>2. TypeInv'
    BY <2>1 DEF TypeInv, Taken
  <2> QED
    BY <2>1, <2>2
<1>4. CASE Postpone
  <2>1. /\ Taken(Server!Delays) /\ Server!Next
        /\ mon' = "wait" /\ UNCHANGED <<counter, box, latest, sent, pending, link>>
    BY <1>1, <1>4 DEF Postpone
  <2>2. TypeInv'
    BY <2>1 DEF TypeInv, Taken
  <2> QED
    BY <2>1, <2>2
<1>5. CASE Reconcile
  <2>1. /\ Taken({"stale_revision", "revision_conflict"}) /\ Server!Next
        /\ ObtainRevision(ans[conn].rev) /\ UNCHANGED <<box, latest, sent, link>>
    BY <1>1, <1>5 DEF Reconcile
  <2>2. ans[conn].rev \in 0..MaxRevision /\ latest # None /\ conn' = None
    BY <2>1 DEF Taken, TypeInv
  <2>3. /\ counter' \in 0..MaxRevision /\ pending' \in Pending \cup {None}
        /\ mon' \in {"run"} \cup Blocked
    BY <2>1, <2>2, ObtainTypes
  <2>4. TypeInv'
    BY <2>1, <2>2, <2>3 DEF TypeInv, Taken
  <2> QED
    BY <2>1, <2>4
<1> QED
  BY <1>2, <1>3, <1>4, <1>5

\* An answer of the server is a step of the register.
LEMMA ServeTypes ==
  ASSUME TypeInv, NEW h \in Handlers, Serve(h) \/ Overload(h) \/ Discard(h)
  PROVE  TypeInv' /\ Server!Next
<1>1. Server!Next
  BY DEF Serve, Overload, Discard, Server!Next
<1>2. UNCHANGED client
  BY DEF Serve, Overload, Discard
<1>3. ASSUME NEW code, NEW v \in 0..MaxRevision, Server!Reply(h, code, v),
             code \in Server!Verdicts \cup Server!Denials \cup Server!Delays
      PROVE  /\ phase' \in [Handlers -> {"idle", "open", "turned", "done"}]
             /\ ans' \in [Handlers -> Server!Answer \cup {None}]
             /\ \A g \in Handlers : phase'[g] # "idle" => req'[g] \in Server!Request
             /\ \A g \in Handlers : phase'[g] = "done" => ans'[g] \in Server!Answer
             /\ UNCHANGED <<open, req>>
  <2>1. [code |-> code, rev |-> v] \in Server!Answer
    BY <1>3
  <2> QED
    BY <1>3, <2>1 DEF TypeInv, Server!Reply
<1>4. CASE Server!Accept(h)
  <2> DEFINE r == req[h].rev
  <2>1. phase[h] = "open" /\ req[h] \in Server!Request /\ req[h].dev = Device
    BY <1>4 DEF TypeInv, Server!Accept
  <2>2. r \in 1..MaxRevision /\ mark' = [mark EXCEPT ![Device] = r]
    BY <1>4, <2>1 DEF Server!Accept
  <2>3. \E code \in {"accepted", "server_unavailable"}, v \in 0..MaxRevision : Server!Reply(h, code, v)
    <3>1. 0 \in 0..MaxRevision /\ r \in 0..MaxRevision
      BY <2>2
    <3>2. Server!Reply(h, "accepted", r) \/ Server!Reply(h, "server_unavailable", 0)
      BY <1>4 DEF Server!Accept
    <3> QED
      BY <3>1, <3>2
  <2>4. Server!Row(Device, r, req[h].snap) \in [dev: {Device}, rev: 1..MaxRevision, snap: Server!Projections]
    BY <2>1, <2>2 DEF Server!Row, Server!Project
  <2>5. presence' \subseteq [dev: {Device}, rev: 1..MaxRevision, snap: Server!Projections]
    BY <1>4, <2>1, <2>4 DEF TypeInv, Server!Accept
  <2>6. mark' \in [{Device} -> 0..MaxRevision]
    BY <2>2 DEF TypeInv
  <2> QED
    BY <1>1, <1>2, <1>3, <2>3, <2>5, <2>6 DEF TypeInv, client
<1>5. CASE Server!Repeat(h) \/ Server!Stale(h) \/ Server!Conflict(h) \/ Server!Deny(h) \/ Server!Delay(h)
  <2>1. UNCHANGED <<mark, presence>>
    BY <1>5 DEF Server!Repeat, Server!Stale, Server!Conflict, Server!Deny, Server!Delay
  <2>2. mark[Device] \in 0..MaxRevision
    BY DEF TypeInv
  <2>3. \E code \in Server!Verdicts \cup Server!Denials \cup Server!Delays, v \in 0..MaxRevision :
          Server!Reply(h, code, v)
    <3>1. CASE Server!Repeat(h) \/ Server!Stale(h) \/ Server!Conflict(h)
      <4>1. phase[h] = "open" /\ req[h].dev = Device
        BY <3>1 DEF TypeInv, Server!Repeat, Server!Stale, Server!Conflict
      <4> QED
        BY <2>2, <3>1, <4>1 DEF Server!Repeat, Server!Stale, Server!Conflict
    <3>2. CASE Server!Deny(h) \/ Server!Delay(h)
      BY <3>2 DEF Server!Deny, Server!Delay
    <3> QED
      BY <1>5, <3>1, <3>2
  <2> QED
    BY <1>1, <1>2, <1>3, <2>1, <2>3 DEF TypeInv, client
<1>6. CASE Server!TurnAway(h)
  BY <1>1, <1>2, <1>6 DEF TypeInv, client, Server!TurnAway
<1>7. CASE Server!Return(h)
  BY <1>1, <1>2, <1>7 DEF TypeInv, client, Server!Return
<1> QED
  BY <1>4, <1>5, <1>6, <1>7 DEF Serve, Overload, Discard

LEMMA ServerFaultTypes ==
  ASSUME TypeInv, RestartServer \/ CloseDevice \/ ReopenDevice
  PROVE  TypeInv' /\ Server!Next
<1>1. TypeInv'
  BY DEF TypeInv, RestartServer, CloseDevice, ReopenDevice, Server!Restart, Server!Close,
     Server!Reopen, Server!RowsOf, client
<1>2. Server!Next
  BY DEF RestartServer, CloseDevice, ReopenDevice, Server!Next
<1> QED
  BY <1>1, <1>2

LEMMA TypeStep ==
  ASSUME TypeInv, [Next]_vars
  PROVE  TypeInv' /\ [Server!Next]_(Server!vars)
<1>1. CASE UNCHANGED vars
  BY <1>1 DEF TypeInv, vars, server, client, Server!vars
<1>2. UNCHANGED server => UNCHANGED Server!vars
  BY DEF server, Server!vars
<1>3. CASE Next
  BY <1>2, <1>3, MonitorTypes, AllocateTypes, CallTypes, AnswerTypes, ServeTypes, ServerFaultTypes
     DEF Next, Monitor
<1> QED
  BY <1>1, <1>3

LEMMA TypeStart == ASSUME Init PROVE TypeInv
  BY DEF Init, Server!Init, TypeInv

\* The monitor's fields, the durable revision and the server's rows keep their types,
\* whatever fails; no revision passes the largest one (AdvanceAtLeast stops there).
THEOREM TypeCorrect == Spec => []TypeOK
<1>1. TypeInv /\ [Next]_vars => TypeInv'
  BY TypeStep
<1>2. TypeInv => TypeOK
  BY DEF TypeInv
<1> QED
  BY <1>1, <1>2, TypeStart, PTL DEF Spec

\* Whatever the client does and whatever fails around it, also with a revision file that
\* was replaced, the server sees a behaviour of the register: the monitor reaches it only
\* through PUT presence, with requests that the endpoint accepts for parsing.
THEOREM UsesRegister == Spec => Server!Spec
<1>1. Init => Server!Init
  BY DEF Init
<1>2. TypeInv /\ [Next]_vars => TypeInv' /\ [Server!Next]_(Server!vars)
  BY TypeStep
<1> QED
  BY <1>1, <1>2, TypeStart, PTL DEF Spec, Server!Spec
=============================================================================
