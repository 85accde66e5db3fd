------------------------------- MODULE Pairing -------------------------------
(***************************************************************************)
(* Pairing codes (src/server.js, table telemetry_pairing_codes): a browser *)
(* creates a code, a tray client claims it.  Both transactions lock the    *)
(* account's row first, so the rows of its codes need no lock of their own *)
(* here; both read something before they hold that lock.                   *)
(***************************************************************************)
EXTENDS Integers, FiniteSets

CONSTANTS Accounts, Codes, Creates, Claims,  \* the handlers of each kind
          None

PairingAssumption ==
  None \notin Accounts \cup Codes \cup Creates \cup Claims /\ Creates \cap Claims = {}

VARIABLES status,      \* account -> "active", "blocked" or "deleted" (no row)
          code,        \* code -> its row: owner, state, and expires_at <= now()
          lock,        \* account -> the handler whose transaction holds its row
          pc, subject, \* handler -> where it is, and its account or code
          verdict,     \* handler -> what it decided under the lock
          answer,      \* handler -> HTTP status
          issued, redeemed  \* history: codes inserted, <<claim, code>> that made a device

rows     == <<status, code, issued, redeemed>>
handlers == <<lock, pc, subject, verdict, answer>>
vars == <<rows, handlers>>

Handlers == Creates \cup Claims
States   == {"absent", "active", "consumed", "invalidated"}

TypeOK ==
  /\ status \in [Accounts -> {"active", "blocked", "deleted"}]
  /\ code \in [Codes -> [owner : Accounts \cup {None}, state : States, expired : BOOLEAN]]
  /\ lock \in [Accounts -> Handlers \cup {None}]
  /\ pc \in [Handlers -> {"new", "admitted", "decided", "done"}]
  /\ subject \in [Handlers -> Accounts \cup Codes \cup {None}]
  /\ verdict \in [Handlers -> {201, 403, 409, 410, None}]
  /\ answer \in [Handlers -> {201, 400, 403, 409, 410, 503, None}]
  /\ issued \subseteq Codes /\ redeemed \subseteq Claims \X Codes

NoRow == [owner |-> None, state |-> "absent", expired |-> FALSE]

Init ==
  /\ status = [a \in Accounts |-> "active"]
  /\ code = [c \in Codes |-> NoRow] /\ issued = {} /\ redeemed = {}
  /\ lock = [a \in Accounts |-> None]
  /\ pc = [h \in Handlers |-> "new"] /\ subject = [h \in Handlers |-> None]
  /\ verdict = [h \in Handlers |-> None] /\ answer = [h \in Handlers |-> None]
-----------------------------------------------------------------------------
Live(a) == {c \in Codes : code[c].owner = a /\ code[c].state = "active"}
Open(a) == status[a] = "active"

Reply(h, s) == pc' = [pc EXCEPT ![h] = "done"] /\ answer' = [answer EXCEPT ![h] = s]

\* A SELECT ... FOR UPDATE of the account's row, and what is decided under it.
LockAndDecide(h, a, v) ==
  /\ lock[a] = None
  /\ lock' = [lock EXCEPT ![a] = h]
  /\ verdict' = [verdict EXCEPT ![h] = v] /\ pc' = [pc EXCEPT ![h] = "decided"]
  /\ UNCHANGED <<rows, subject, answer>>

\* The transaction ends, and with it the lock.
End(h, s) ==
  /\ Reply(h, s)
  /\ lock' = [a \in Accounts |-> IF lock[a] = h THEN None ELSE lock[a]]
  /\ UNCHANGED <<subject, verdict>>

\* COMMIT took effect, and its answer arrives (s) or is lost.
Commit(h, s, change) == change /\ (End(h, s) \/ End(h, 503))

Rollback(h, s) == UNCHANGED rows /\ End(h, s)
-----------------------------------------------------------------------------
\* handleTelemetryPairingCreate: the session's account is active, then locked.
AdmitCreate(h, a) ==
  /\ pc[h] = "new" /\ Open(a)
  /\ pc' = [pc EXCEPT ![h] = "admitted"] /\ subject' = [subject EXCEPT ![h] = a]
  /\ UNCHANGED <<rows, lock, verdict, answer>>

\* Mutant: the account of the session was active, so it is.
TrustSession(a) == 201

CreateVerdict(a) == IF Open(a) THEN 201 ELSE 403

LockCreate(h) ==
  /\ pc[h] = "admitted" /\ LockAndDecide(h, subject[h], CreateVerdict(subject[h]))

\* The account's live code becomes invalid and a new one is inserted; a
\* generated code that has a row is not it, and after five tries none is.
Invalidated(a) == [c \in Codes |-> IF c \in Live(a) THEN [code[c] EXCEPT !.state = "invalidated"] ELSE code[c]]

FinishCreate(h) ==
  LET a == subject[h] IN
  /\ pc[h] = "decided"
  /\ \/ verdict[h] = 403 /\ Rollback(h, 403)
     \/ verdict[h] = 201 /\ Rollback(h, 503)
     \/ \E c \in Codes \ issued :
          /\ verdict[h] = 201
          /\ Commit(h, 201,
               /\ code' = [Invalidated(a) EXCEPT ![c] = [owner |-> a, state |-> "active", expired |-> FALSE]]
               /\ issued' = issued \cup {c} /\ UNCHANGED <<status, redeemed>>)
-----------------------------------------------------------------------------
\* handleTelemetryPairClaim: the owner of the code is looked up without a lock.
LookupOwner(h, c) ==
  /\ pc[h] = "new"
  /\ subject' = [subject EXCEPT ![h] = c]
  /\ \/ code[c].state = "absent" /\ Reply(h, 400)
     \/ code[c].state # "absent" /\ pc' = [pc EXCEPT ![h] = "admitted"] /\ UNCHANGED answer
  /\ UNCHANGED <<rows, lock, verdict>>

\* expired compares with now(), the time of BEGIN: before the lock was awaited.
ClaimVerdicts(c) ==
  IF code[c].state # "active" THEN {409}
  ELSE (IF Open(code[c].owner) THEN {201} ELSE {409}) \cup (IF code[c].expired THEN {410} ELSE {})

BeginClaim(h) ==
  LET c == subject[h] IN
  /\ pc[h] = "admitted"
  /\ \/ code[c].state = "absent" /\ Reply(h, 400) /\ UNCHANGED <<rows, lock, subject, verdict>>
     \/ code[c].state # "absent" /\ \E v \in ClaimVerdicts(c) : LockAndDecide(h, code[c].owner, v)

\* Mutant: the device is inserted and the code forgotten to be consumed.
NotConsumed(h, c) ==
  /\ redeemed' = redeemed \cup {<<h, c>>} /\ UNCHANGED <<code, status, issued>>

\* The device is inserted, and the code consumed if that still applies.
MakeDevice(h, c) ==
  /\ code[c].state = "active"
  /\ redeemed' = redeemed \cup {<<h, c>>} /\ code' = [code EXCEPT ![c].state = "consumed"]
  /\ UNCHANGED <<status, issued>>

\* A code found live in a closed account is invalidated for good.
Refuse(c) ==
  /\ code' = IF code[c].state = "active" /\ ~Open(code[c].owner)
             THEN [code EXCEPT ![c].state = "invalidated"] ELSE code
  /\ UNCHANGED <<status, issued, redeemed>>

FinishClaim(h) ==
  LET c == subject[h] IN
  /\ pc[h] = "decided"
  /\ \/ verdict[h] = 201 /\ Commit(h, 201, MakeDevice(h, c))
     \/ verdict[h] = 201 /\ Rollback(h, 503)
     \/ verdict[h] = 409 /\ Commit(h, 409, Refuse(c))
     \/ verdict[h] = 410 /\ Rollback(h, 410)
-----------------------------------------------------------------------------
Expire(c) ==
  /\ code[c].state = "active" /\ ~code[c].expired
  /\ code' = [code EXCEPT ![c].expired = TRUE]
  /\ UNCHANGED <<status, issued, redeemed, handlers>>

\* cleanupTelemetryPairingCodes, thirty days later: a row a claim works on waits.
Cleanup(c) ==
  /\ code[c].state # "absent" /\ (code[c].state = "active" => code[c].expired)
  /\ lock[code[c].owner] = None
  /\ code' = [code EXCEPT ![c] = NoRow]
  /\ UNCHANGED <<status, issued, redeemed, handlers>>

\* /api/admin/users/status: waits for the account's row; closing it ends its code.
SetStatus(a) ==
  /\ status[a] # "deleted" /\ lock[a] = None
  /\ \/ ~Open(a) /\ status' = [status EXCEPT ![a] = "active"] /\ UNCHANGED code
     \/ Open(a) /\ status' = [status EXCEPT ![a] = "blocked"] /\ code' = Invalidated(a)
  /\ UNCHANGED <<issued, redeemed, handlers>>

\* /api/admin/users/delete: the codes and devices go with the account.
Delete(a) ==
  /\ status[a] # "deleted" /\ lock[a] = None
  /\ status' = [status EXCEPT ![a] = "deleted"]
  /\ code' = [c \in Codes |-> IF code[c].owner = a THEN NoRow ELSE code[c]]
  /\ UNCHANGED <<issued, redeemed, handlers>>

Next ==
  \/ \E h \in Creates : (\E a \in Accounts : AdmitCreate(h, a)) \/ LockCreate(h) \/ FinishCreate(h)
  \/ \E h \in Claims : (\E c \in Codes : LookupOwner(h, c)) \/ BeginClaim(h) \/ FinishClaim(h)
  \/ \E c \in Codes : Expire(c) \/ Cleanup(c)
  \/ \E a \in Accounts : SetStatus(a) \/ Delete(a)

Spec == Init /\ [][Next]_vars
-----------------------------------------------------------------------------
OneOf(codes) == IF codes = {} THEN None ELSE CHOOSE c \in codes : TRUE

\* The two transactions, interleaved with each other, with blocking and with
\* deletion, give codes that are redeemed at most once, and only as the newest
\* code of an account that is open at that moment.
Promise == INSTANCE OneTimeCode WITH
  open <- {a \in Accounts : Open(a)},
  current <- [a \in Accounts |-> OneOf(Live(a))],
  redeemed <- redeemed

ImplementsOneTimeCode == Promise!Spec

\* telemetry_pairing_codes_active_account_idx: the order of the statements never
\* runs into the unique index, so no create fails because of another one; and no
\* code outlives the closing of its account, whatever was in progress then.
OneLiveCode ==
  \A a \in Accounts : Cardinality(Live(a)) <= 1 /\ (Live(a) # {} => Open(a))
=============================================================================
