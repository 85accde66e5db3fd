-------------------------- MODULE PresenceRegister --------------------------
(***************************************************************************)
(* What PUT /api/telemetry/presence promises, with no handler, lock or     *)
(* transaction in it: every device has a register holding at most one      *)
(* snapshot and a high-water revision, and every request that is answered  *)
(* with a verdict took effect in one instant between its arrival and its   *)
(* answer.  A refusal leaves the register alone; a device is denied only   *)
(* if it was closed at some instant of the request.  "server_unavailable"  *)
(* may also hide a write that was made, which is why the client repeats    *)
(* the same revision.                                                      *)
(*                                                                         *)
(* TelemetryPresence implements this specification.                        *)
(***************************************************************************)
EXTENDS Integers

CONSTANTS Devices,      \* paired devices
          Handlers,     \* requests the server can be working on at once
          Places,       \* the four fields of a snapshot the history keeps
          Rests,        \* the other persisted fields of a snapshot
          Noises,       \* shard and party_count: on the wire, never persisted
          MaxRevision,  \* Number.MAX_SAFE_INTEGER, the last usable revision
          None          \* no request, no answer

VARIABLES open,      \* the devices whose snapshots are being taken
          mark,      \* mark[d]: the highest revision ever accepted
          presence,  \* the current snapshots, a set of rows
          phase,     \* phase[h]: "idle", "open", "turned" (away) or "done"
          req,       \* req[h]: the request h is working on
          ans        \* ans[h]: its answer

vars == <<open, mark, presence, phase, req, ans>>

Snapshots   == [place: Places, rest: Rests, noise: Noises]
Projections == [place: Places, rest: Rests]
Project(s)  == [place |-> s.place, rest |-> s.rest]
Request     == [dev: Devices, rev: 0..(MaxRevision + 1), snap: Snapshots]

Verdicts == {"accepted", "duplicate", "stale_revision", "revision_conflict"}
Denials  == {"invalid_device_credential", "device_revoked", "account_inactive"}
Delays   == {"rate_limited", "server_unavailable"}
Answer   == [code: Verdicts \cup Denials \cup Delays \cup {"invalid_payload"},
             rev: 0..MaxRevision]

Row(d, r, s) == [dev |-> d, rev |-> r, snap |-> Project(s)]
RowsOf(D)    == {r \in presence : r.dev \in D}
-----------------------------------------------------------------------------
Init ==
  /\ open = Devices
  /\ mark = [d \in Devices |-> 0]
  /\ presence = {}
  /\ phase = [h \in Handlers |-> "idle"]
  /\ req = [h \in Handlers |-> None]
  /\ ans = [h \in Handlers |-> None]

Invoke(h, r) ==
  /\ phase[h] = "idle"
  /\ phase' = [phase EXCEPT ![h] = "open"]
  /\ req' = [req EXCEPT ![h] = r]
  /\ UNCHANGED <<open, mark, presence, ans>>

Reply(h, code, r) ==
  /\ phase[h] \in {"open", "turned"}
  /\ phase' = [phase EXCEPT ![h] = "done"]
  /\ ans' = [ans EXCEPT ![h] = [code |-> code, rev |-> r]]
  /\ UNCHANGED <<open, req>>

\* A strictly newer revision replaces the snapshot and raises the mark.
Accept(h) ==
  LET d == req[h].dev  r == req[h].rev IN
  /\ phase[h] = "open" /\ d \in open
  /\ r \in 1..MaxRevision /\ r > mark[d]
  /\ mark' = [mark EXCEPT ![d] = r]
  /\ presence' = (presence \ RowsOf({d})) \cup {Row(d, r, req[h].snap)}
  /\ \/ Reply(h, "accepted", r)
     \/ Reply(h, "server_unavailable", 0)

\* The revision of the mark, with the snapshot that is there.
Repeat(h) ==
  LET d == req[h].dev IN
  /\ phase[h] = "open" /\ d \in open
  /\ Row(d, mark[d], req[h].snap) \in presence
  /\ req[h].rev = mark[d]
  /\ Reply(h, "duplicate", mark[d])
  /\ UNCHANGED <<mark, presence>>

Stale(h) ==
  LET d == req[h].dev IN
  /\ phase[h] = "open" /\ d \in open
  /\ req[h].rev < mark[d]
  /\ Reply(h, "stale_revision", mark[d])
  /\ UNCHANGED <<mark, presence>>

\* The revision of the mark, used for anything else.
Conflict(h) ==
  LET d == req[h].dev IN
  /\ phase[h] = "open" /\ d \in open
  /\ req[h].rev = mark[d]
  /\ Row(d, mark[d], req[h].snap) \notin presence
  /\ Reply(h, "revision_conflict", mark[d])
  /\ UNCHANGED <<mark, presence>>

\* The device was found closed; it may be open again when that is answered.
TurnAway(h) ==
  /\ phase[h] = "open" /\ req[h].dev \notin open
  /\ phase' = [phase EXCEPT ![h] = "turned"]
  /\ UNCHANGED <<open, mark, presence, req, ans>>

Deny(h) ==
  /\ phase[h] = "turned" \/ (phase[h] = "open" /\ req[h].dev \notin open)
  /\ \E code \in Denials : Reply(h, code, 0)
  /\ UNCHANGED <<mark, presence>>

RejectPayload(h) ==
  /\ phase[h] = "open" /\ req[h].rev \notin 1..MaxRevision
  /\ Reply(h, "invalid_payload", 0)
  /\ UNCHANGED <<mark, presence>>

Delay(h) ==
  /\ \E code \in Delays : Reply(h, code, 0)
  /\ UNCHANGED <<mark, presence>>

Return(h) ==
  /\ phase[h] = "done"
  /\ phase' = [phase EXCEPT ![h] = "idle"]
  /\ req' = [req EXCEPT ![h] = None]
  /\ ans' = [ans EXCEPT ![h] = None]
  /\ UNCHANGED <<open, mark, presence>>

\* The process is restarted: nobody is answered.
Restart ==
  /\ phase' = [h \in Handlers |-> "idle"]
  /\ req' = [h \in Handlers |-> None]
  /\ ans' = [h \in Handlers |-> None]
  /\ UNCHANGED <<open, mark, presence>>

\* A device that stops being served loses its snapshot and keeps its mark.
Close(D) ==
  /\ open' = open \ D
  /\ presence' = presence \ RowsOf(D)
  /\ UNCHANGED <<mark, phase, req, ans>>

Reopen(D) ==
  /\ open' = open \cup D
  /\ UNCHANGED <<mark, presence, phase, req, ans>>

Next ==
  \/ \E h \in Handlers :
       \/ \E r \in Request : Invoke(h, r)
       \/ Accept(h) \/ Repeat(h) \/ Stale(h) \/ Conflict(h)
       \/ TurnAway(h) \/ Deny(h) \/ RejectPayload(h) \/ Delay(h) \/ Return(h)
  \/ Restart
  \/ \E D \in SUBSET Devices : Close(D) \/ Reopen(D)

Spec == Init /\ [][Next]_vars
=============================================================================
