---------------------------- MODULE PairingProofs ----------------------------
(***************************************************************************)
(* The two pairing transactions keep one live code per account and redeem  *)
(* a code once, for any number of accounts, codes and requests.            *)
(***************************************************************************)
EXTENDS Pairing, FiniteSetTheorems, TLAPS

\* The account a handler has locked once it has decided.
Locked(h) == IF h \in Creates THEN subject[h] ELSE code[subject[h]].owner

\* A handler past its first lookup has an account, or a code, of its own.
SubjectIsKnown ==
  /\ \A h \in Creates : pc[h] \in {"admitted", "decided"} => subject[h] \in Accounts
  /\ \A h \in Claims : pc[h] \in {"admitted", "decided"} => subject[h] \in Codes

\* Between its decision and its end a handler holds the row of its account ...
DeciderHolds == \A h \in Handlers : pc[h] = "decided" => Locked(h) \in Accounts /\ lock[Locked(h)] = h

\* ... so what it decided is still so.
VerdictStands ==
  /\ \A h \in Creates : pc[h] = "decided" =>
       verdict[h] \in {201, 403} /\ (verdict[h] = 201 => Open(subject[h]))
  /\ \A h \in Claims : pc[h] = "decided" =>
       /\ verdict[h] \in {201, 409, 410} /\ code[subject[h]].state # "absent"
       /\ verdict[h] = 201 => code[subject[h]].state = "active" /\ Open(code[subject[h]].owner)

\* A row has an owner, and its code has been given out.
RowsAreIssued == \A c \in Codes : code[c].state # "absent" => code[c].owner \in Accounts /\ c \in issued

LiveIsOne ==
  \A c \in Codes : code[c].state = "active" =>
    /\ Open(code[c].owner)
    /\ \A d \in Codes : code[d].state = "active" /\ code[d].owner = code[c].owner => d = c

IInv ==
  TypeOK /\ SubjectIsKnown /\ DeciderHolds /\ VerdictStands /\ RowsAreIssued /\ LiveIsOne

LEMMA InitIInv == ASSUME Init PROVE IInv
  BY DEF Init, IInv, TypeOK, SubjectIsKnown, DeciderHolds, VerdictStands, RowsAreIssued, LiveIsOne,
     Handlers, NoRow, States

\* What a transaction may do to the rows while it holds the lock of account a: nobody
\* else has decided anything about a, and the rows of other accounts stay as they are.
LEMMA LockedChange ==
  ASSUME IInv, PairingAssumption, NEW h \in Handlers, pc[h] = "decided", NEW s \in {201, 403, 409, 410, 503},
         End(h, s), TypeOK', UNCHANGED status, RowsAreIssued', LiveIsOne',
         \A c \in Codes : code[c].state # "absent" /\ code[c].owner # Locked(h) => code'[c] = code[c]
  PROVE  IInv'
<1> USE DEF End, Reply
<1>1. \A g \in Handlers \ {h} : pc[g] = "decided" => Locked(g) # Locked(h)
  BY DEF IInv, DeciderHolds, Handlers
<1>2. \A g \in Handlers \ {h} : pc'[g] = pc[g] /\ verdict'[g] = verdict[g] /\ subject'[g] = subject[g]
  BY DEF IInv, TypeOK
<1>3. pc'[h] = "done"
  BY DEF IInv, TypeOK
<1>4. \A g \in Claims \ {h} : pc[g] = "decided" => code'[subject[g]] = code[subject[g]]
  BY <1>1, PairingAssumption DEF IInv, TypeOK, DeciderHolds, VerdictStands, SubjectIsKnown, Handlers, Locked, PairingAssumption
<1>5. SubjectIsKnown'
  BY <1>2, <1>3 DEF IInv, SubjectIsKnown, Handlers
<1>6. DeciderHolds'
  <2>1. ASSUME NEW g \in Handlers, pc'[g] = "decided" PROVE Locked(g)' \in Accounts /\ lock'[Locked(g)'] = g
    <3>1. g # h /\ pc[g] = "decided"
      BY <1>2, <1>3, <2>1
    <3>2. Locked(g)' = Locked(g)
      BY <1>2, <1>4, <3>1 DEF Locked, Handlers
    <3>3. Locked(g) \in Accounts /\ lock[Locked(g)] = g
      BY <3>1 DEF IInv, DeciderHolds
    <3> QED
      BY <3>1, <3>2, <3>3
  <2> QED
    BY <2>1 DEF DeciderHolds
<1>7. VerdictStands'
  BY <1>2, <1>3, <1>4 DEF IInv, VerdictStands, Handlers, Open
<1> QED
  BY <1>5, <1>6, <1>7 DEF IInv

\* A handler that is admitted locks its account and decides, and nothing else changes.
LEMMA Deciding ==
  ASSUME IInv, PairingAssumption, NEW h \in Handlers, NEW a \in Accounts, NEW v \in {201, 403, 409, 410},
         pc[h] = "admitted", LockAndDecide(h, a, v), Locked(h) = a,
         h \in Creates => v \in {201, 403} /\ (v = 201 => Open(subject[h])),
         h \in Claims => /\ v \in {201, 409, 410} /\ code[subject[h]].state # "absent"
                         /\ v = 201 => code[subject[h]].state = "active" /\ Open(code[subject[h]].owner)
  PROVE  IInv'
<1> USE DEF LockAndDecide, rows
<1>1. TypeOK'
  BY DEF IInv, TypeOK
<1>2. SubjectIsKnown'
  BY DEF IInv, TypeOK, SubjectIsKnown, Handlers
<1>3. DeciderHolds'
  <2>1. ASSUME NEW g \in Handlers, pc'[g] = "decided" PROVE Locked(g)' \in Accounts /\ lock'[Locked(g)'] = g
    <3>1. Locked(g)' = Locked(g)
      BY DEF Locked
    <3>2. CASE g = h
      BY <3>1, <3>2 DEF IInv, TypeOK
    <3>3. CASE g # h
      <4>1. pc[g] = "decided" /\ Locked(g) \in Accounts /\ lock[Locked(g)] = g
        BY <2>1, <3>3 DEF IInv, TypeOK, DeciderHolds
      <4>2. Locked(g) # a
        BY <4>1, PairingAssumption DEF PairingAssumption, Handlers
      <4> QED
        BY <3>1, <4>1, <4>2 DEF IInv, TypeOK
    <3> QED
      BY <3>2, <3>3
  <2> QED
    BY <2>1 DEF DeciderHolds
<1>4. VerdictStands'
  BY PairingAssumption DEF IInv, TypeOK, VerdictStands, Handlers, Open, PairingAssumption
<1>5. RowsAreIssued' /\ LiveIsOne'
  BY DEF IInv, RowsAreIssued, LiveIsOne, Open
<1> QED
  BY <1>1, <1>2, <1>3, <1>4, <1>5 DEF IInv

\* Steps of a handler that holds no lock, and changes no row.
LEMMA Unlocked ==
  ASSUME IInv, PairingAssumption, UNCHANGED <<rows, lock, verdict>>, NEW h \in Handlers, TypeOK',
         SubjectIsKnown', \A g \in Handlers \ {h} : pc'[g] = pc[g] /\ subject'[g] = subject[g],
         pc[h] # "decided", pc'[h] # "decided"
  PROVE  IInv'
<1> USE DEF rows, Open
<1>1. DeciderHolds'
  BY DEF IInv, DeciderHolds, Locked, Handlers
<1>2. VerdictStands'
  BY DEF IInv, VerdictStands, Handlers
<1>3. RowsAreIssued' /\ LiveIsOne'
  BY DEF IInv, RowsAreIssued, LiveIsOne
<1> QED
  BY <1>1, <1>2, <1>3 DEF IInv

\* A statement of its own may end or remove the codes of accounts nobody has decided about,
\* and close those without a live code.
LEMMA Administration ==
  ASSUME IInv, PairingAssumption, UNCHANGED <<handlers, issued, redeemed>>, TypeOK', LiveIsOne',
         \A c \in Codes : code[c].state # "absent" /\ code'[c] # code[c] =>
            code[c].owner \notin Accounts \/ lock[code[c].owner] = None
              \/ (code'[c].state = code[c].state /\ code'[c].owner = code[c].owner),
         \A c \in Codes : code'[c].state # "absent" =>
            code[c].state # "absent" /\ code'[c].owner = code[c].owner,
         \A a \in Accounts : lock[a] # None /\ Open(a) => Open(a)'
  PROVE  IInv'
<1> USE DEF handlers
<1>1. \A g \in Handlers : pc[g] = "decided" => lock[Locked(g)] # None /\ Locked(g) \in Accounts
  BY PairingAssumption DEF IInv, DeciderHolds, Handlers, PairingAssumption
<1>2. \A g \in Claims : pc[g] = "decided" =>
        code'[subject[g]].state = code[subject[g]].state /\ code'[subject[g]].owner = code[subject[g]].owner
  BY <1>1, PairingAssumption DEF IInv, SubjectIsKnown, VerdictStands, Locked, Handlers, PairingAssumption
<1>3. SubjectIsKnown'
  BY DEF IInv, SubjectIsKnown
<1>4. DeciderHolds'
  BY <1>2 DEF IInv, DeciderHolds, Locked, Handlers
<1>5. VerdictStands'
  BY <1>1, <1>2, PairingAssumption DEF IInv, VerdictStands, Locked, Handlers, PairingAssumption
<1>6. RowsAreIssued'
  BY DEF IInv, RowsAreIssued
<1> QED
  BY <1>3, <1>4, <1>5, <1>6 DEF IInv

\* The types of what the end of a transaction writes.
LEMMA EndTypes ==
  ASSUME TypeOK, NEW h \in Handlers, NEW s \in {201, 403, 409, 410, 503}, End(h, s), UNCHANGED status,
         code' \in [Codes -> [owner : Accounts \cup {None}, state : States, expired : BOOLEAN]],
         issued' \subseteq Codes, redeemed' \subseteq Claims \X Codes
  PROVE  TypeOK'
<1> USE DEF End, Reply
<1>1. lock' \in [Accounts -> Handlers \cup {None}]
  BY DEF TypeOK
<1>2. pc' \in [Handlers -> {"new", "admitted", "decided", "done"}]
  BY DEF TypeOK
<1>3. answer' \in [Handlers -> {201, 400, 403, 409, 410, 503, None}]
  BY DEF TypeOK
<1> QED
  BY <1>1, <1>2, <1>3 DEF TypeOK

LEMMA CreateIInv ==
  ASSUME IInv, PairingAssumption, NEW h \in Creates,
         (\E a \in Accounts : AdmitCreate(h, a)) \/ LockCreate(h) \/ FinishCreate(h)
  PROVE  IInv'
<1> USE PairingAssumption DEF PairingAssumption
<1>0. h \in Handlers /\ h \notin Claims
  BY DEF Handlers
<1>1. ASSUME NEW a \in Accounts, AdmitCreate(h, a) PROVE IInv'
  <2>1. TypeOK' /\ SubjectIsKnown'
    BY <1>0, <1>1 DEF AdmitCreate, rows, IInv, TypeOK, SubjectIsKnown, Handlers
  <2> QED
    BY <1>0, <1>1, <2>1, Unlocked DEF AdmitCreate, IInv, TypeOK, Handlers
<1>2. CASE LockCreate(h)
  <2>1. pc[h] = "admitted" /\ subject[h] \in Accounts /\ Locked(h) = subject[h]
    BY <1>2 DEF LockCreate, IInv, SubjectIsKnown, Locked
  <2>2. CreateVerdict(subject[h]) \in {201, 403} /\ (CreateVerdict(subject[h]) = 201 => Open(subject[h]))
    BY DEF CreateVerdict
  <2> QED
    BY <1>0, <1>2, <2>1, <2>2, Deciding DEF LockCreate
<1>3. CASE FinishCreate(h)
  <2> DEFINE a == subject[h]
  <2>0. pc[h] = "decided" /\ a \in Accounts /\ Locked(h) = a
    BY <1>3 DEF FinishCreate, IInv, SubjectIsKnown, Locked
  <2>1. ASSUME NEW s \in {403, 503}, Rollback(h, s) PROVE IInv'
    <3>1. TypeOK'
      BY <1>0, <2>1, EndTypes DEF Rollback, rows, IInv, TypeOK
    <3>2. RowsAreIssued' /\ LiveIsOne'
      BY <2>1 DEF Rollback, rows, IInv, RowsAreIssued, LiveIsOne, Open
    <3> QED
      BY <1>0, <2>0, <2>1, <3>1, <3>2, LockedChange DEF Rollback, rows
  <2>2. ASSUME NEW c \in Codes \ issued, NEW s \in {201, 503}, verdict[h] = 201, End(h, s),
               code' = [Invalidated(a) EXCEPT ![c] = [owner |-> a, state |-> "active", expired |-> FALSE]],
               issued' = issued \cup {c}, UNCHANGED <<status, redeemed>>
        PROVE  IInv'
    <3> USE DEF Invalidated, Live
    <3>1. \A d \in Codes \ {c} : code'[d] = IF code[d].owner = a /\ code[d].state = "active"
                                             THEN [code[d] EXCEPT !.state = "invalidated"] ELSE code[d]
      BY <2>2
    <3>2. code'[c] = [owner |-> a, state |-> "active", expired |-> FALSE]
      BY <2>2
    <3>3. TypeOK'
      <4>1. code' \in [Codes -> [owner : Accounts \cup {None}, state : States, expired : BOOLEAN]]
        <5> DEFINE Rec == [owner : Accounts \cup {None}, state : States, expired : BOOLEAN]
        <5>1. code \in [Codes -> Rec]
          BY DEF IInv, TypeOK
        <5>2. Invalidated(a) \in [Codes -> Rec]
          BY <5>1 DEF States
        <5>3. [owner |-> a, state |-> "active", expired |-> FALSE] \in Rec
          BY <2>0 DEF States
        <5> QED
          BY <2>2, <5>2, <5>3
      <4>2. issued' \subseteq Codes /\ redeemed' \subseteq Claims \X Codes
        BY <2>2 DEF IInv, TypeOK
      <4> QED
        BY <1>0, <2>2, <4>1, <4>2, EndTypes DEF IInv
    <3>4. Open(a)
      BY <1>0, <2>0, <2>2 DEF IInv, VerdictStands
    <3>5. code[c].state = "absent"
      BY <2>2 DEF IInv, RowsAreIssued
    <3>6. \A d \in Codes \ {c} : code'[d].owner = code[d].owner
             /\ (code'[d].state = "active" => code[d].state = "active" /\ code[d].owner # a)
             /\ (code'[d].state # "absent" => code[d].state # "absent")
      <4>1. \A d \in Codes : code[d] \in [owner : Accounts \cup {None}, state : States, expired : BOOLEAN]
        BY DEF IInv, TypeOK
      <4>2. ASSUME NEW d \in Codes \ {c}, code[d].owner = a, code[d].state = "active"
            PROVE  code'[d].owner = a /\ code'[d].state = "invalidated"
        <5>1. code'[d] = [code[d] EXCEPT !.state = "invalidated"]
          BY <3>1, <4>2
        <5> QED
          BY <4>1, <4>2, <5>1
      <4>3. ASSUME NEW d \in Codes \ {c}, ~(code[d].owner = a /\ code[d].state = "active")
            PROVE  code'[d] = code[d]
        BY <3>1, <4>3
      <4> QED
        BY <4>2, <4>3
    <3>7. RowsAreIssued'
      BY <2>0, <2>2, <3>2, <3>6 DEF IInv, RowsAreIssued
    <3>8. LiveIsOne'
      BY <2>2, <3>2, <3>4, <3>6 DEF IInv, LiveIsOne, Open
    <3>9. \A d \in Codes : code[d].state # "absent" /\ code[d].owner # Locked(h) => code'[d] = code[d]
      <4> SUFFICES ASSUME NEW d \in Codes, code[d].state # "absent", code[d].owner # Locked(h)
                   PROVE  code'[d] = code[d]
        OBVIOUS
      <4>1. d \in Codes \ {c}
        BY <3>5
      <4>2. code[d].owner # a
        BY <2>0
      <4>3. code'[d] = IF code[d].owner = a /\ code[d].state = "active"
                         THEN [code[d] EXCEPT !.state = "invalidated"] ELSE code[d]
        BY ONLY <3>1, <4>1
      <4> QED
        BY ONLY <4>2, <4>3
    <3> QED
      BY <1>0, <2>0, <2>2, <3>3, <3>7, <3>8, <3>9, LockedChange
  <2> QED
    BY <1>3, <2>1, <2>2 DEF FinishCreate, Commit
<1> QED
  BY <1>1, <1>2, <1>3

LEMMA ClaimIInv ==
  ASSUME IInv, PairingAssumption, NEW h \in Claims,
         (\E c \in Codes : LookupOwner(h, c)) \/ BeginClaim(h) \/ FinishClaim(h)
  PROVE  IInv'
<1> USE PairingAssumption DEF PairingAssumption
<1>0. h \in Handlers /\ h \notin Creates
  BY DEF Handlers
<1>1. ASSUME NEW c \in Codes, LookupOwner(h, c) PROVE IInv'
  <2>1. TypeOK' /\ SubjectIsKnown'
    BY <1>0, <1>1 DEF LookupOwner, Reply, rows, IInv, TypeOK, SubjectIsKnown, Handlers
  <2> QED
    BY <1>0, <1>1, <2>1, Unlocked DEF LookupOwner, Reply, IInv, TypeOK, Handlers
<1>2. CASE BeginClaim(h)
  <2> DEFINE c == subject[h]
  <2>0. pc[h] = "admitted" /\ c \in Codes /\ Locked(h) = code[c].owner
    BY <1>0, <1>2 DEF BeginClaim, IInv, SubjectIsKnown, Locked
  <2>1. CASE Reply(h, 400) /\ UNCHANGED <<rows, lock, subject, verdict>>
    <3>1. TypeOK' /\ SubjectIsKnown'
      BY <1>0, <2>1 DEF Reply, rows, IInv, TypeOK, SubjectIsKnown, Handlers
    <3> QED
      BY <1>0, <2>0, <2>1, <3>1, Unlocked DEF Reply, IInv, TypeOK, Handlers
  <2>2. ASSUME code[c].state # "absent", NEW v \in ClaimVerdicts(c), LockAndDecide(h, code[c].owner, v)
        PROVE  IInv'
    <3>1. v \in {201, 409, 410} /\ (v = 201 => code[c].state = "active" /\ Open(code[c].owner))
      BY DEF ClaimVerdicts
    <3>2. code[c].owner \in Accounts
      BY <2>0, <2>2 DEF IInv, RowsAreIssued
    <3> QED
      BY <1>0, <2>0, <2>2, <3>1, <3>2, Deciding
  <2> QED
    BY <1>2, <2>1, <2>2 DEF BeginClaim
<1>3. CASE FinishClaim(h)
  <2> DEFINE c == subject[h]
  <2>0. pc[h] = "decided" /\ c \in Codes /\ Locked(h) = code[c].owner /\ code[c].state # "absent"
    BY <1>0, <1>3 DEF FinishClaim, IInv, SubjectIsKnown, VerdictStands, Locked
  <2>1. ASSUME NEW s \in {410, 503}, Rollback(h, s) PROVE IInv'
    <3>1. TypeOK'
      BY <1>0, <2>1, EndTypes DEF Rollback, rows, IInv, TypeOK
    <3>2. RowsAreIssued' /\ LiveIsOne'
      BY <2>1 DEF Rollback, rows, IInv, RowsAreIssued, LiveIsOne, Open
    <3> QED
      BY <1>0, <2>0, <2>1, <3>1, <3>2, LockedChange DEF Rollback, rows
  <2>2. ASSUME NEW s \in {201, 409, 503}, NEW t \in {"consumed", "invalidated"}, End(h, s),
               code' = code \/ code' = [code EXCEPT ![c].state = t],
               redeemed' = redeemed \/ redeemed' = redeemed \cup {<<h, c>>},
               UNCHANGED <<status, issued>>
        PROVE  IInv'
    <3>1. TypeOK'
      <4>1. code' \in [Codes -> [owner : Accounts \cup {None}, state : States, expired : BOOLEAN]]
        BY <2>2, <2>0 DEF IInv, TypeOK, States
      <4>2. redeemed' \subseteq Claims \X Codes
        BY <2>2, <2>0 DEF IInv, TypeOK
      <4> QED
        BY <1>0, <2>2, <4>1, <4>2, EndTypes DEF IInv, TypeOK
    <3>2. \A d \in Codes : code'[d].owner = code[d].owner
             /\ (code'[d].state = "active" => code[d].state = "active")
             /\ (code'[d].state # "absent" => code[d].state # "absent")
             /\ (code[d].owner # code[c].owner => code'[d] = code[d])
      BY <2>2, <2>0 DEF IInv, TypeOK
    <3>3. RowsAreIssued' /\ LiveIsOne'
      BY <2>2, <3>2 DEF IInv, RowsAreIssued, LiveIsOne, Open
    <3> QED
      BY <1>0, <2>0, <2>2, <3>1, <3>2, <3>3, LockedChange
  <2>3. ASSUME NEW s \in {201, 503}, MakeDevice(h, c), End(h, s) PROVE IInv'
    BY <2>2, <2>3 DEF MakeDevice
  <2>4. ASSUME NEW s \in {409, 503}, Refuse(c), End(h, s) PROVE IInv'
    BY <2>2, <2>4 DEF Refuse
  <2> QED
    BY <1>3, <2>1, <2>3, <2>4 DEF FinishClaim, Commit
<1> QED
  BY <1>1, <1>2, <1>3

LEMMA OthersIInv ==
  ASSUME IInv, PairingAssumption,
         (\E c \in Codes : Expire(c) \/ Cleanup(c)) \/ (\E a \in Accounts : SetStatus(a) \/ Delete(a))
  PROVE  IInv'
<1>0. \A c \in Codes : code[c] \in [owner : Accounts \cup {None}, state : States, expired : BOOLEAN]
  BY DEF IInv, TypeOK
<1>1. ASSUME NEW c \in Codes, Expire(c) PROVE IInv'
  <2>1. \A d \in Codes : code'[d].owner = code[d].owner /\ code'[d].state = code[d].state
    BY <1>0, <1>1 DEF Expire, IInv, TypeOK
  <2>2. code' \in [Codes -> [owner : Accounts \cup {None}, state : States, expired : BOOLEAN]]
    <3>1. [code[c] EXCEPT !.expired = TRUE] \in [owner : Accounts \cup {None}, state : States, expired : BOOLEAN]
      BY <1>0
    <3> QED
      BY <1>1, <3>1 DEF Expire, IInv, TypeOK
  <2>3. TypeOK'
    BY <1>1, <2>2 DEF Expire, handlers, IInv, TypeOK
  <2>4. LiveIsOne' /\ (\A a \in Accounts : Open(a)' = Open(a))
    BY <1>1, <2>1 DEF Expire, IInv, LiveIsOne, Open
  <2> QED
    BY <1>1, <2>1, <2>3, <2>4, Administration DEF Expire
<1>2. ASSUME NEW c \in Codes, Cleanup(c) PROVE IInv'
  <2>1. \A d \in Codes : d # c => code'[d] = code[d]
    BY <1>2 DEF Cleanup, IInv, TypeOK
  <2>2. code'[c] = NoRow
    BY <1>2 DEF Cleanup, IInv, TypeOK
  <2>3. TypeOK'
    BY <1>2 DEF Cleanup, NoRow, handlers, IInv, TypeOK, States
  <2>4. LiveIsOne' /\ (\A a \in Accounts : Open(a)' = Open(a))
    BY <1>2, <2>1, <2>2 DEF Cleanup, NoRow, IInv, LiveIsOne, Open
  <2> QED
    BY <1>2, <2>1, <2>2, <2>3, <2>4, Administration DEF Cleanup, NoRow
<1>3. ASSUME NEW a \in Accounts, SetStatus(a) PROVE IInv'
  <2>1. CASE code' = code
    <3>1. status' = [status EXCEPT ![a] = "active"] \/ Live(a) = {}
      BY <1>3, <2>1, <1>0 DEF SetStatus, Invalidated, Live
    <3>2. TypeOK'
      BY <1>3, <2>1 DEF SetStatus, handlers, IInv, TypeOK
    <3>3. LiveIsOne'
      <4>1. ASSUME NEW c \in Codes, code[c].state = "active" PROVE status'[code[c].owner] = "active"
        <5>1. code[c].owner \in Accounts /\ status[code[c].owner] = "active"
          BY <4>1 DEF IInv, RowsAreIssued, LiveIsOne, Open
        <5>2. CASE code[c].owner = a
          BY <3>1, <4>1, <5>2 DEF Live, IInv, TypeOK
        <5>3. CASE code[c].owner # a
          BY <1>3, <5>1, <5>3 DEF SetStatus, IInv, TypeOK
        <5> QED
          BY <5>2, <5>3
      <4> QED
        BY <2>1, <4>1 DEF IInv, LiveIsOne, Open
    <3>4. \A b \in Accounts : lock[b] # None => status'[b] = status[b]
      BY <1>3 DEF SetStatus, IInv, TypeOK
    <3> QED
      BY <1>3, <2>1, <3>2, <3>3, <3>4, Administration DEF SetStatus, Open
  <2>2. CASE status' = [status EXCEPT ![a] = "blocked"] /\ code' = Invalidated(a)
    <3>1. \A d \in Codes : code[d].owner = a /\ code[d].state = "active" =>
            code'[d].owner = a /\ code'[d].state = "invalidated"
      <4>1. ASSUME NEW d \in Codes, code[d].owner = a, code[d].state = "active"
            PROVE  code'[d] = [code[d] EXCEPT !.state = "invalidated"]
        BY <2>2, <4>1 DEF Invalidated, Live
      <4> QED
        BY <1>0, <4>1
    <3>2. \A d \in Codes : ~(code[d].owner = a /\ code[d].state = "active") => code'[d] = code[d]
      BY <2>2 DEF Invalidated, Live
    <3>3. TypeOK'
      <4>1. \A d \in Codes : [code[d] EXCEPT !.state = "invalidated"]
                              \in [owner : Accounts \cup {None}, state : States, expired : BOOLEAN]
        BY <1>0 DEF States
      <4>2. code' \in [Codes -> [owner : Accounts \cup {None}, state : States, expired : BOOLEAN]]
        BY <1>0, <2>2, <4>1 DEF Invalidated
      <4> QED
        BY <1>3, <2>2, <4>2 DEF SetStatus, handlers, IInv, TypeOK
    <3>4. LiveIsOne'
      BY <1>3, <2>2, <3>1, <3>2 DEF SetStatus, IInv, TypeOK, LiveIsOne, Open
    <3>5. \A b \in Accounts : lock[b] # None => status'[b] = status[b]
      BY <1>3, <2>2 DEF SetStatus, IInv, TypeOK
    <3> QED
      BY <1>3, <2>2, <3>1, <3>2, <3>3, <3>4, <3>5, Administration DEF SetStatus, Open
  <2> QED
    BY <1>3, <2>1, <2>2 DEF SetStatus
<1>4. ASSUME NEW a \in Accounts, Delete(a) PROVE IInv'
  <2>1. \A d \in Codes : code'[d] = IF code[d].owner = a THEN NoRow ELSE code[d]
    BY <1>4 DEF Delete
  <2>2. TypeOK'
    BY <1>4, <1>0 DEF Delete, NoRow, handlers, IInv, TypeOK, States
  <2>3. LiveIsOne'
    BY <1>4, <2>1 DEF Delete, NoRow, IInv, TypeOK, LiveIsOne, Open
  <2>4. \A b \in Accounts : lock[b] # None => status'[b] = status[b]
    BY <1>4 DEF Delete, IInv, TypeOK
  <2> QED
    BY <1>4, <2>1, <2>2, <2>3, <2>4, Administration DEF Delete, NoRow, Open
<1> QED
  BY <1>1, <1>2, <1>3, <1>4

LEMMA StepIInv ==
  ASSUME IInv, PairingAssumption, [Next]_vars
  PROVE  IInv'
<1>1. CASE UNCHANGED vars
  <2> USE <1>1 DEF vars, rows, handlers, IInv
  <2>1. TypeOK' /\ SubjectIsKnown'
    BY DEF TypeOK, SubjectIsKnown
  <2>2. DeciderHolds' /\ VerdictStands'
    BY DEF DeciderHolds, VerdictStands, Locked, Open
  <2>3. RowsAreIssued' /\ LiveIsOne'
    BY DEF RowsAreIssued, LiveIsOne, Open
  <2> QED
    BY <2>1, <2>2, <2>3
<1>2. CASE Next
  BY <1>2, CreateIInv, ClaimIInv, OthersIInv DEF Next
<1> QED
  BY <1>1, <1>2

LEMMA Invariance ==
  ASSUME PairingAssumption
  PROVE  Spec => []IInv
<1>1. Init => IInv
  BY InitIInv
<1>2. IInv /\ [Next]_vars => IInv'
  BY StepIInv
<1> QED
  BY <1>1, <1>2, PTL DEF Spec

\* However creates, claims, expiry, cleanup, blocking and deletion interleave, an account
\* has at most one live code (the unique index telemetry_pairing_codes_active_account_idx
\* is never violated), and none when it is closed.
THEOREM LiveCodes ==
  ASSUME PairingAssumption
  PROVE  Spec => []OneLiveCode
<1>1. ASSUME IInv PROVE OneLiveCode
  <2>1. ASSUME NEW a \in Accounts PROVE Cardinality(Live(a)) <= 1 /\ (Live(a) # {} => Open(a))
    <3>1. CASE Live(a) = {}
      BY <3>1, FS_EmptySet
    <3>2. ASSUME NEW c \in Live(a) PROVE Cardinality(Live(a)) <= 1 /\ Open(a)
      <4>1. Live(a) = {c} /\ Open(a)
        BY <1>1, <3>2 DEF IInv, LiveIsOne, Live
      <4>2. Cardinality({c}) = 1
        BY FS_Singleton
      <4> QED
        BY <4>1, <4>2
    <3> QED
      BY <3>1, <3>2
  <2> QED
    BY <2>1 DEF OneLiveCode
<1> QED
  BY <1>1, Invariance, PTL
-----------------------------------------------------------------------------
\* The code of an account that can be redeemed, as OneTimeCode has it.
Current == [a \in Accounts |-> OneOf(Live(a))]
OpenAccounts == {a \in Accounts : Open(a)}

\* Nothing the promise speaks of changes.
LEMMA Stutter ==
  ASSUME UNCHANGED <<status, redeemed, issued>>,
         \A a \in Accounts : Live(a)' = Live(a)
  PROVE  UNCHANGED Promise!vars
<1>1. Current' = Current
  <2>1. Current' = [b \in Accounts |-> OneOf(Live(b)')]
    BY DEF Current, Live
  <2> QED
    BY <2>1 DEF Current
<1>2. OpenAccounts' = OpenAccounts
  BY DEF OpenAccounts, Open
<1> QED
  BY <1>1, <1>2 DEF Promise!vars, Current, OpenAccounts

\* One account loses its live code, and the others keep theirs.
LEMMA OneEnds ==
  ASSUME NEW a \in Accounts, Live(a)' = {}, \A b \in Accounts \ {a} : Live(b)' = Live(b)
  PROVE  Current' = [Current EXCEPT ![a] = None]
<1>1. OneOf({}) = None
  BY DEF OneOf
<1>2. Current' = [b \in Accounts |-> OneOf(Live(b)')]
  BY DEF Current, Live
<1> QED
  BY <1>1, <1>2 DEF Current

\* Each step of the transactions is a step of the promise, or changes nothing it speaks of.
LEMMA StepPromise ==
  ASSUME IInv, PairingAssumption, [Next]_vars
  PROVE  [Promise!Next]_(Promise!vars)
<1> USE DEF rows, handlers
<1>0. \A c \in Codes : code[c] \in [owner : Accounts \cup {None}, state : States, expired : BOOLEAN]
  BY DEF IInv, TypeOK
<1>1. CASE UNCHANGED rows
  <2>1. \A a \in Accounts : Live(a)' = Live(a)
    BY <1>1 DEF Live
  <2> QED
    BY <1>1, <2>1, Stutter
<1>2. ASSUME NEW h \in Creates, NEW c \in Codes \ issued, pc[h] = "decided", verdict[h] = 201,
             code' = [Invalidated(subject[h]) EXCEPT ![c] = [owner |-> subject[h], state |-> "active", expired |-> FALSE]],
             issued' = issued \cup {c}, UNCHANGED <<status, redeemed>>
      PROVE  Promise!Next
  <2>0. PICK a \in Accounts : a = subject[h]
    BY <1>2 DEF IInv, SubjectIsKnown
  <2>1. Open(a) /\ code[c].state = "absent"
    BY <1>2, <2>0 DEF IInv, VerdictStands, RowsAreIssued
  <2>2. \A d \in Codes \ {c} : code'[d] = IF code[d].owner = a /\ code[d].state = "active"
                                           THEN [code[d] EXCEPT !.state = "invalidated"] ELSE code[d]
    BY <1>2, <2>0 DEF Invalidated, Live
  <2>3. code'[c] = [owner |-> a, state |-> "active", expired |-> FALSE]
    BY <1>2, <2>0 DEF Invalidated
  <2>4. \A d \in Codes \ {c} : code'[d].state = "active" <=> code[d].state = "active" /\ code[d].owner # a
    <3>1. ASSUME NEW d \in Codes \ {c}, code[d].owner = a, code[d].state = "active"
          PROVE  code'[d].state = "invalidated"
      <4>1. code'[d] = [code[d] EXCEPT !.state = "invalidated"]
        BY <2>2, <3>1
      <4> QED
        BY <1>0, <4>1
    <3> QED
      BY <2>2, <3>1
  <2>5. \A d \in Codes \ {c} : code'[d].state = "active" => code'[d].owner = code[d].owner
    BY <2>2, <2>4
  <2>6. Live(a)' = {c}
    BY <2>3, <2>4, <2>5 DEF Live
  <2>7. \A b \in Accounts \ {a} : Live(b)' = Live(b)
    BY <2>1, <2>2, <2>3, <2>4, <2>5 DEF Live
  <2>8. Current' = [Current EXCEPT ![a] = c]
    <3>1. OneOf({c}) = c
      BY DEF OneOf
    <3>2. Current' = [b \in Accounts |-> OneOf(Live(b)')]
      BY DEF Current, Live
    <3> QED
      BY <2>6, <2>7, <3>1, <3>2 DEF Current
  <2>9. OpenAccounts' = OpenAccounts /\ a \in OpenAccounts
    BY <1>2, <2>1 DEF OpenAccounts, Open
  <2>10. Promise!Issue(a, c)
    BY <1>2, <2>8, <2>9 DEF Promise!Issue, Current, OpenAccounts
  <2> QED
    BY <2>1, <2>10 DEF Promise!Next
<1>3. ASSUME NEW h \in Claims, pc[h] = "decided", verdict[h] = 201, MakeDevice(h, subject[h])
      PROVE  Promise!Next
  <2>a. PICK c \in Codes : c = subject[h]
    BY <1>3 DEF IInv, SubjectIsKnown
  <2>b. PICK a \in Accounts : a = code[c].owner
    BY <1>3, <2>a DEF IInv, VerdictStands, RowsAreIssued
  <2>1. Open(a) /\ code[c].state = "active" /\ MakeDevice(h, c)
    BY <1>3, <2>a, <2>b DEF IInv, VerdictStands
  <2>2. Live(a) = {c}
    BY <2>b, <2>1 DEF IInv, LiveIsOne, Live
  <2>3. \A d \in Codes : code'[d].owner = code[d].owner /\ (d # c => code'[d].state = code[d].state)
    BY <2>1 DEF MakeDevice, IInv, TypeOK
  <2>4. code'[c].state = "consumed"
    BY <2>1 DEF MakeDevice, IInv, TypeOK
  <2>5. Live(a)' = {} /\ \A b \in Accounts \ {a} : Live(b)' = Live(b)
    BY <2>2, <2>3, <2>4 DEF Live
  <2>6. Current' = [Current EXCEPT ![a] = None]
    BY <2>1, <2>5, OneEnds
  <2>7. Current[a] = c
    <3>1. OneOf({c}) = c
      BY DEF OneOf
    <3> QED
      BY <2>2, <3>1 DEF Current
  <2>8. OpenAccounts' = OpenAccounts /\ a \in OpenAccounts
    BY <2>1 DEF MakeDevice, OpenAccounts, Open
  <2>9. c # None
    BY <2>1, PairingAssumption DEF PairingAssumption
  <2>10. Promise!Redeem(a, h)
    BY <2>1, <2>6, <2>7, <2>8, <2>9 DEF MakeDevice, Promise!Redeem, Current, OpenAccounts
  <2> QED
    BY <2>1, <2>10 DEF Promise!Next
<1>4. ASSUME NEW h \in Claims, pc[h] = "decided", Refuse(subject[h])
      PROVE  UNCHANGED Promise!vars
  <2>1. subject[h] \in Codes /\ code' = code
    BY <1>4 DEF Refuse, IInv, SubjectIsKnown, LiveIsOne
  <2>2. \A a \in Accounts : Live(a)' = Live(a)
    BY <2>1 DEF Live
  <2> QED
    BY <1>4, <2>2, Stutter DEF Refuse
<1>5. ASSUME NEW c \in Codes, Expire(c) PROVE UNCHANGED Promise!vars
  <2>1. \A d \in Codes : code'[d].owner = code[d].owner /\ code'[d].state = code[d].state
    BY <1>0, <1>5 DEF Expire, IInv, TypeOK
  <2>2. \A a \in Accounts : Live(a)' = Live(a)
    BY <2>1 DEF Live
  <2> QED
    BY <1>5, <2>2, Stutter DEF Expire
<1>6. ASSUME NEW c \in Codes, Cleanup(c) PROVE [Promise!Next]_(Promise!vars)
  <2>1. \A d \in Codes : code'[d] = IF d = c THEN NoRow ELSE code[d]
    BY <1>6 DEF Cleanup, IInv, TypeOK
  <2>2. PICK a \in Accounts : a = code[c].owner
    BY <1>6 DEF Cleanup, IInv, RowsAreIssued
  <2>3. CASE code[c].state = "active"
    <3>1. Live(a) = {c}
      BY <2>2, <2>3 DEF IInv, LiveIsOne, Live
    <3>2. Live(a)' = {} /\ \A b \in Accounts \ {a} : Live(b)' = Live(b)
      BY <2>1, <3>1 DEF Live, NoRow
    <3>3. Current' = [Current EXCEPT ![a] = None]
      BY <2>2, <3>2, OneEnds
    <3>4. OpenAccounts' = OpenAccounts
      BY <1>6 DEF Cleanup, OpenAccounts, Open
    <3>5. Promise!Lapse(a)
      BY <1>6, <3>3, <3>4 DEF Cleanup, Promise!Lapse, Current, OpenAccounts
    <3> QED
      BY <2>2, <3>5 DEF Promise!Next
  <2>4. CASE code[c].state # "active"
    <3>1. \A b \in Accounts : Live(b)' = Live(b)
      BY <2>1, <2>4 DEF Live, NoRow
    <3> QED
      BY <1>6, <3>1, Stutter DEF Cleanup
  <2> QED
    BY <2>3, <2>4
<1>7. ASSUME NEW a \in Accounts, SetStatus(a) \/ Delete(a) PROVE Promise!Next
  <2>1. CASE status' = [status EXCEPT ![a] = "active"] /\ code' = code
    <3>1. Current' = Current
      BY <2>1 DEF Current, Live
    <3>2. OpenAccounts' = OpenAccounts \cup {a}
      BY <2>1 DEF OpenAccounts, Open, IInv, TypeOK
    <3>3. Promise!Reopen(a)
      BY <1>7, <3>1, <3>2 DEF SetStatus, Delete, Promise!Reopen, Current, OpenAccounts
    <3> QED
      BY <3>3 DEF Promise!Next
  <2>2. ASSUME NEW s \in {"blocked", "deleted"}, status' = [status EXCEPT ![a] = s],
               \A d \in Codes : code[d].owner # a => code'[d] = code[d],
               \A d \in Codes : code[d].owner = a => code'[d].state # "active"
        PROVE  Promise!Next
    <3>1. Live(a)' = {} /\ \A b \in Accounts \ {a} : Live(b)' = Live(b)
      BY <2>2 DEF Live
    <3>2. Current' = [Current EXCEPT ![a] = None]
      BY <3>1, OneEnds
    <3>3. OpenAccounts' = OpenAccounts \ {a}
      BY <2>2 DEF OpenAccounts, Open, IInv, TypeOK
    <3>4. Promise!Close(a)
      BY <1>7, <3>2, <3>3 DEF SetStatus, Delete, Promise!Close, Current, OpenAccounts
    <3> QED
      BY <3>4 DEF Promise!Next
  <2>3. CASE status' = [status EXCEPT ![a] = "blocked"] /\ code' = Invalidated(a)
    <3>1. \A d \in Codes : code[d].owner # a => code'[d] = code[d]
      BY <2>3 DEF Invalidated, Live
    <3>2. ASSUME NEW d \in Codes, code[d].owner = a PROVE code'[d].state # "active"
      <4>1. code'[d] = IF code[d].state = "active" THEN [code[d] EXCEPT !.state = "invalidated"] ELSE code[d]
        BY <2>3, <3>2 DEF Invalidated, Live
      <4> QED
        BY <1>0, <4>1
    <3> QED
      BY <2>2, <2>3, <3>1, <3>2
  <2>4. CASE Delete(a)
    BY <2>2, <2>4 DEF Delete, NoRow
  <2> QED
    BY <1>7, <2>1, <2>3, <2>4 DEF SetStatus
<1>8. ASSUME NEW h \in Creates, (\E a \in Accounts : AdmitCreate(h, a)) \/ LockCreate(h) \/ FinishCreate(h)
      PROVE  [Promise!Next]_(Promise!vars)
  BY <1>1, <1>2, <1>8 DEF AdmitCreate, LockCreate, LockAndDecide, FinishCreate, Rollback, Commit
<1>9. ASSUME NEW h \in Claims, (\E c \in Codes : LookupOwner(h, c)) \/ BeginClaim(h) \/ FinishClaim(h)
      PROVE  [Promise!Next]_(Promise!vars)
  BY <1>1, <1>3, <1>4, <1>9 DEF LookupOwner, BeginClaim, LockAndDecide, FinishClaim, Rollback, Commit
<1> QED
  BY <1>1, <1>5, <1>6, <1>7, <1>8, <1>9 DEF Next, vars

\* The two pairing transactions implement the promise: a code is redeemed at most once,
\* while it is the newest code of an account that is open.
THEOREM Implementation ==
  ASSUME PairingAssumption
  PROVE  Spec => ImplementsOneTimeCode
<1>1. ASSUME Init PROVE Promise!Init
  <2>1. \A a \in Accounts : Live(a) = {}
    BY <1>1 DEF Init, Live, NoRow
  <2>2. OneOf({}) = None
    BY DEF OneOf
  <2>3. [a \in Accounts |-> OneOf(Live(a))] = [a \in Accounts |-> None]
    BY <2>1, <2>2
  <2> QED
    BY <1>1, <2>3 DEF Init, Promise!Init, Open
<1>2. IInv /\ [Next]_vars => [Promise!Next]_(Promise!vars)
  BY StepPromise
<1> QED
  BY <1>1, <1>2, Invariance, PTL DEF Spec, ImplementsOneTimeCode, Promise!Spec
=============================================================================
