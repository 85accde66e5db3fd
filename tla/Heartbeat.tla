------------------------------ MODULE Heartbeat ------------------------------
(***************************************************************************)
(* POST /api/telemetry/heartbeat once the request limiter has let it in    *)
(* (src/telemetry-heartbeat-handler.js): a lookup that holds one of the    *)
(* slots of src/telemetry-auth-inflight.js, a conditional UPDATE, and a    *)
(* second lookup when the UPDATE found nothing.  A statement is two        *)
(* actions: PostgreSQL evaluates it, later the handler gets the result.    *)
(***************************************************************************)
EXTENDS Integers, FiniteSets, Functions

CONSTANTS Requests, Peers, Devices,   \* every device of an account of its own
          PerPeerLimit, GlobalLimit, MaxPeers,
          None

VARIABLES pc, peer, device,  \* the handler of each request
          result,            \* what its last statement returned
          answer,            \* its HTTP answer
          activeByPeer,      \* peers with a running lookup -> how many
          activeTotal,
          revoked, blocked,  \* devices; accounts, named by their device
          deleted,           \* accounts
          was                \* history: the true verdicts since a request started

requestVars == <<pc, peer, device, result, answer>>
slotVars    == <<activeByPeer, activeTotal>>
tableVars   == <<revoked, blocked, deleted>>
vars == <<requestVars, slotVars, tableVars, was>>

Verdicts == {"authenticated", "invalid_device_credential", "device_revoked", "account_inactive"}
Answers  == (Verdicts \ {"authenticated"}) \cup {"ok", "invalid_payload", "saturated", "unavailable"}
Steps    == {"new", "lookup", "found", "update", "updated", "recheck", "rechecked", "done"}
Holding  == {"lookup", "found", "recheck", "rechecked"}

HeartbeatAssumption ==
  /\ IsFiniteSet(Requests) /\ None \notin Answers
  /\ PerPeerLimit \in Nat \ {0} /\ GlobalLimit \in Nat \ {0} /\ MaxPeers \in Nat \ {0}

TypeOK ==
  /\ pc \in [Requests -> Steps]
  /\ peer \in [Requests -> Peers \cup {None}] /\ device \in [Requests -> Devices \cup {None}]
  /\ result \in [Requests -> Verdicts \cup {"one", "none", "error", None}]
  /\ answer \in [Requests -> Answers \cup {None}]
  /\ activeTotal \in Nat /\ DOMAIN activeByPeer \subseteq Peers
  /\ \A p \in DOMAIN activeByPeer : activeByPeer[p] \in Nat
  /\ revoked \subseteq Devices /\ blocked \subseteq Devices /\ deleted \subseteq Devices
  /\ was \in [Requests -> SUBSET Verdicts]

Init ==
  /\ pc = [r \in Requests |-> "new"]
  /\ peer = [r \in Requests |-> None] /\ device = [r \in Requests |-> None]
  /\ result = [r \in Requests |-> None] /\ answer = [r \in Requests |-> None]
  /\ activeByPeer = [p \in {} |-> 0] /\ activeTotal = 0
  /\ revoked = {} /\ blocked = {} /\ deleted = {}
  /\ was = [r \in Requests |-> {}]
-----------------------------------------------------------------------------
\* What is true of a device, for the history variable.
Truth(d) ==
  CASE d \in deleted -> "invalid_device_credential"
    [] d \in revoked \ deleted -> "device_revoked"
    [] d \in blocked \ (revoked \cup deleted) -> "account_inactive"
    [] OTHER -> "authenticated"

\* Mutant: the account is looked at before the revocation.
StatusFirst(d) ==
  IF d \in deleted THEN "invalid_device_credential"
  ELSE IF d \in blocked THEN "account_inactive"
  ELSE IF d \in revoked THEN "device_revoked" ELSE "authenticated"

\* authenticateTelemetryDevice: the row, then revoked_at, then the account.
Authenticated(d) ==
  IF d \in deleted THEN "invalid_device_credential"
  ELSE IF d \in revoked THEN "device_revoked"
  ELSE IF d \in blocked THEN "account_inactive" ELSE "authenticated"

CountOf(p) == IF p \in DOMAIN activeByPeer THEN activeByPeer[p] ELSE 0

HasSlot(p) ==
  /\ activeTotal < GlobalLimit /\ CountOf(p) < PerPeerLimit
  /\ CountOf(p) = 0 => Cardinality(DOMAIN activeByPeer) < MaxPeers

\* tryAcquire
Acquire(p) ==
  /\ HasSlot(p)
  /\ activeByPeer' = [q \in DOMAIN activeByPeer \cup {p} |-> CountOf(q) + IF q = p THEN 1 ELSE 0]
  /\ activeTotal' = activeTotal + 1

\* Mutant: a lookup that fails keeps its slot.
ReleaseOnSuccess(r) ==
  IF result[r] = "error" THEN UNCHANGED slotVars
  ELSE LET left == CountOf(peer[r]) - 1 IN
       /\ activeByPeer' = [q \in DOMAIN activeByPeer \ {p \in {peer[r]} : left = 0} |->
                             IF q = peer[r] THEN left ELSE activeByPeer[q]]
       /\ activeTotal' = activeTotal - 1

\* The finally of run: whatever the lookup returned.
Release(r) ==
  LET left == CountOf(peer[r]) - 1 IN
  /\ activeByPeer' = [q \in DOMAIN activeByPeer \ {p \in {peer[r]} : left = 0} |->
                        IF q = peer[r] THEN left ELSE activeByPeer[q]]
  /\ activeTotal' = activeTotal - 1

Goto(r, step) == pc' = [pc EXCEPT ![r] = step]
Reply(r, a)   ==
  /\ Goto(r, "done") /\ answer' = [answer EXCEPT ![r] = a]
  /\ result' = [result EXCEPT ![r] = None] /\ peer' = [peer EXCEPT ![r] = None]
  /\ UNCHANGED device
Continue(r, step, value) ==
  Goto(r, step) /\ result' = [result EXCEPT ![r] = value] /\ UNCHANGED <<peer, device, answer>>

\* The body has been read; the first lookup starts if there is a slot.
Start(r, p, d) ==
  /\ pc[r] = "new"
  /\ device' = [device EXCEPT ![r] = d]
  /\ was' = [was EXCEPT ![r] = {Truth(d)}]
  /\ \/ /\ Acquire(p)
        /\ Goto(r, "lookup") /\ peer' = [peer EXCEPT ![r] = p] /\ UNCHANGED answer
     \/ /\ ~HasSlot(p)
        /\ Goto(r, "done") /\ answer' = [answer EXCEPT ![r] = "saturated"] /\ UNCHANGED <<peer, slotVars>>
  /\ UNCHANGED <<result, tableVars>>

Lookup(r, from, to) ==
  /\ pc[r] = from
  /\ \E value \in {Authenticated(device[r]), "error"} : Continue(r, to, value)
  /\ UNCHANGED <<slotVars, tableVars, was>>

\* The first lookup is back: refuse, find the body wrong, or go on.
AfterLookup(r) ==
  /\ pc[r] = "found"
  /\ Release(r)
  /\ \/ result[r] = "error" /\ Reply(r, "unavailable")
     \/ result[r] \in Verdicts \ {"authenticated"} /\ Reply(r, result[r])
     \/ result[r] = "authenticated" /\ Reply(r, "invalid_payload")
     \/ result[r] = "authenticated" /\ Continue(r, "update", None)
  /\ UNCHANGED <<tableVars, was>>

\* UPDATE ... last_seen_at where the device is not revoked and its account active.
Update(r) ==
  /\ pc[r] = "update"
  /\ \E value \in {IF Authenticated(device[r]) = "authenticated" THEN "one" ELSE "none", "error"} :
       Continue(r, "updated", value)
  /\ UNCHANGED <<slotVars, tableVars, was>>

AfterUpdate(r) ==
  /\ pc[r] = "updated"
  /\ \/ result[r] = "one" /\ Reply(r, "ok") /\ UNCHANGED slotVars
     \/ result[r] = "error" /\ Reply(r, "unavailable") /\ UNCHANGED slotVars
     \/ result[r] = "none" /\ Acquire(peer[r]) /\ Continue(r, "recheck", None)
     \/ result[r] = "none" /\ ~HasSlot(peer[r]) /\ Reply(r, "saturated") /\ UNCHANGED slotVars
  /\ UNCHANGED <<tableVars, was>>

\* The second lookup is back; a device that is open again is called unknown.
AfterRecheck(r) ==
  /\ pc[r] = "rechecked"
  /\ Release(r)
  /\ \/ result[r] = "error" /\ Reply(r, "unavailable")
     \/ result[r] \in Verdicts \ {"authenticated"} /\ Reply(r, result[r])
     \/ result[r] = "authenticated" /\ Reply(r, "invalid_device_credential")
  /\ UNCHANGED <<tableVars, was>>

\* What others commit; every running request lives through it.
Admin ==
  /\ \E d \in Devices \ deleted :
       \/ d \notin revoked /\ revoked' = revoked \cup {d} /\ UNCHANGED <<blocked, deleted>>
       \/ d \notin blocked /\ blocked' = blocked \cup {d} /\ UNCHANGED <<revoked, deleted>>
       \/ d \in blocked /\ blocked' = blocked \ {d} /\ UNCHANGED <<revoked, deleted>>
       \/ deleted' = deleted \cup {d} /\ UNCHANGED <<revoked, blocked>>
  /\ UNCHANGED <<requestVars, slotVars>>
  /\ was' = [r \in Requests |-> IF pc[r] \in {"new", "done"} THEN was[r]
                                ELSE was[r] \cup {Truth(device[r])'}]

Next ==
  \/ \E r \in Requests :
       \/ \E p \in Peers, d \in Devices : Start(r, p, d)
       \/ Lookup(r, "lookup", "found") \/ Lookup(r, "recheck", "rechecked")
       \/ AfterLookup(r) \/ Update(r) \/ AfterUpdate(r) \/ AfterRecheck(r)
  \/ Admin

Spec == Init /\ [][Next]_vars
-----------------------------------------------------------------------------
\* The counters are the lookups that are running, of every peer and in all, and
\* a peer without one is forgotten: no error path loses or returns a slot twice.
SlotsAreExact ==
  LET holders(p) == {r \in Requests : pc[r] \in Holding /\ peer[r] = p} IN
  /\ activeTotal = Cardinality({r \in Requests : pc[r] \in Holding})
  /\ \A p \in Peers : CountOf(p) = Cardinality(holders(p))
  /\ \A p \in DOMAIN activeByPeer : activeByPeer[p] > 0

\* A device is told what was true of it at some moment of its request, with a
\* revocation named before anything else; "unknown" also when it was both open
\* and not while the handler looked.
AnswersAreTimely ==
  \A r \in Requests :
    /\ answer[r] = "ok" => "authenticated" \in was[r]
    /\ answer[r] \in {"device_revoked", "account_inactive"} => answer[r] \in was[r]
    /\ answer[r] = "invalid_device_credential" => answer[r] \in was[r] \/ Cardinality(was[r]) > 1
=============================================================================
