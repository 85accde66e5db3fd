------------------------------ MODULE Accounts ------------------------------
(***************************************************************************)
(* One VerseLink account (src/server.js): its VerseLink ID (auth_tokens),  *)
(* recovery key (auth_recovery_tokens), browser sessions and status, under *)
(* logins, recoveries, key rotations and administration.  PostgreSQL locks *)
(* rows as the statements run; a cycle of waiting transactions is broken   *)
(* by aborting one of them.                                                *)
(***************************************************************************)
EXTENDS Integers, FiniteSets

CONSTANTS Logins, Recoveries, Rotations,  \* handlers
          MaxSecrets,                     \* tokens and keys are numbered
          None

Handlers == Logins \cup Recoveries \cup Rotations

AccountsAssumption ==
  /\ MaxSecrets \in Nat \ {0} /\ None \notin Nat \cup Handlers
  /\ Recoveries \cap Rotations = {}

Secrets  == 1..MaxSecrets

VARIABLES status,          \* "none", "active", "blocked" or "deleted"
          token, key,      \* the valid VerseLink ID and recovery key, or None
          nextToken, nextKey,
          sessions,        \* committed sessions: a login, or "register", and its token
          pc, secret,      \* handler -> where it is, the token or key it presented
          userLock, keyLock, tokenLock,  \* who has the rows FOR UPDATE
          doomed,          \* sessions the running account deletion has removed, or None
          answer,          \* handler -> HTTP status
          overtaken,       \* history: logins that were running when a recovery committed
          used             \* history: <<recovery, key>> that succeeded

tables == <<status, token, key, nextToken, nextKey, sessions>>
locks  == <<userLock, keyLock, tokenLock>>
local  == <<pc, secret, answer>>
vars == <<tables, locks, local, doomed, overtaken, used>>

Session == [login : Logins \cup {"register"}, token : Secrets]

TypeOK ==
  /\ status \in {"none", "active", "blocked", "deleted"}
  /\ token \in Secrets \cup {None} /\ key \in Secrets \cup {None}
  /\ nextToken \in 1..(MaxSecrets + 1) /\ nextKey \in 1..(MaxSecrets + 1)
  /\ sessions \subseteq Session
  /\ pc \in [Handlers -> {"new", "found", "token", "key", "user", "done"}]
  /\ secret \in [Handlers -> Secrets \cup {None}]
  /\ \A l \in {userLock, keyLock, tokenLock} : l \in Handlers \cup {None}
  /\ doomed = None \/ doomed \subseteq Session
  /\ answer \in [Handlers -> {200, 401, 403, 500, None}]
  /\ overtaken \subseteq Logins /\ used \subseteq Recoveries \X Secrets

Init ==
  /\ status = "none" /\ token = None /\ key = None /\ nextToken = 1 /\ nextKey = 1
  /\ sessions = {}
  /\ pc = [h \in Handlers |-> "new"] /\ secret = [h \in Handlers |-> None]
  /\ userLock = None /\ keyLock = None /\ tokenLock = None
  /\ doomed = None
  /\ answer = [h \in Handlers |-> None] /\ overtaken = {} /\ used = {}
-----------------------------------------------------------------------------
Exists == status \in {"active", "blocked"}

Goto(h, step) == pc' = [pc EXCEPT ![h] = step] /\ UNCHANGED answer

\* Whatever a handler holds is released when its transaction ends.
Unlock(h, lock) == IF lock = h THEN None ELSE lock

End(h, a) ==
  /\ pc' = [pc EXCEPT ![h] = "done"] /\ answer' = [answer EXCEPT ![h] = a]
  /\ userLock' = Unlock(h, userLock) /\ keyLock' = Unlock(h, keyLock)
  /\ tokenLock' = Unlock(h, tokenLock)
  /\ UNCHANGED secret

Refuse(h, a) == End(h, a) /\ UNCHANGED <<tables, doomed, overtaken, used>>

\* /auth/register: everything of an account in one transaction nobody can see.
Register ==
  /\ status = "none"
  /\ status' = "active" /\ token' = 1 /\ key' = 1 /\ nextToken' = 2 /\ nextKey' = 2
  /\ sessions' = {[login |-> "register", token |-> 1]}
  /\ UNCHANGED <<locks, local, doomed, overtaken, used>>
-----------------------------------------------------------------------------
\* /auth/login: a lookup outside any transaction...
LoginLookup(h, t) ==
  /\ pc[h] = "new" /\ t < nextToken
  /\ secret' = [secret EXCEPT ![h] = t]
  /\ IF t = token /\ status = "active" THEN Goto(h, "found")
     ELSE pc' = [pc EXCEPT ![h] = "done"] /\ answer' = [answer EXCEPT ![h] = 401]
  /\ UNCHANGED <<tables, locks, doomed, overtaken, used>>

\* ... then last_used_at is set, which locks the token's row; nobody else locks
\* the row of a revoked one.
LoginToken(h) ==
  /\ pc[h] = "found"
  /\ \/ secret[h] = token /\ tokenLock = None /\ tokenLock' = h
     \/ secret[h] # token /\ UNCHANGED tokenLock
  /\ Goto(h, "token") /\ UNCHANGED <<tables, secret, userLock, keyLock, doomed, overtaken, used>>

\* The session refers to the account, whose row must be there and not locked.
LoginSession(h) ==
  /\ pc[h] = "token" /\ userLock = None
  /\ IF Exists
     THEN /\ sessions' = sessions \cup {[login |-> h, token |-> secret[h]]}
          /\ End(h, 200) /\ UNCHANGED <<status, token, key, nextToken, nextKey, doomed, overtaken, used>>
     ELSE Refuse(h, 500)

\* /logout
Logout(s) ==
  /\ s \in sessions
  /\ sessions' = sessions \ {s}
  /\ UNCHANGED <<status, token, key, nextToken, nextKey, locks, local, doomed, overtaken, used>>
-----------------------------------------------------------------------------
\* /auth/recover: SELECT ... FOR UPDATE locks the key, then the account, and
\* returns both as they are once it has them.
RecoverKey(h, k) ==
  /\ pc[h] = "new" /\ k < nextKey /\ nextToken <= MaxSecrets /\ nextKey <= MaxSecrets
  /\ secret' = [secret EXCEPT ![h] = k]
  /\ \/ /\ Exists /\ k = key /\ keyLock = None
        /\ keyLock' = h /\ Goto(h, "key")
     \/ /\ Exists /\ k # key /\ Goto(h, "key") /\ UNCHANGED keyLock
     \/ /\ ~Exists /\ UNCHANGED keyLock
        /\ pc' = [pc EXCEPT ![h] = "done"] /\ answer' = [answer EXCEPT ![h] = 401]
  /\ UNCHANGED <<tables, userLock, tokenLock, doomed, overtaken, used>>

\* Mutant: the key is not looked at again after waiting for its row.
AnyKey(h) == status = "active"

KeyIsGood(h) == status = "active" /\ secret[h] = key

RecoverUser(h) ==
  /\ pc[h] = "key" /\ userLock = None
  /\ \/ KeyIsGood(h) /\ userLock' = h /\ Goto(h, "user")
        /\ UNCHANGED <<tables, secret, keyLock, tokenLock, doomed, overtaken, used>>
     \/ ~KeyIsGood(h) /\ Refuse(h, 401)

\* Mutant: recovery leaves the browser sessions alone.
KeepSessions == sessions

SessionsAfterRecovery == {}

\* The tokens are revoked, which waits for a login that has the row.
Recover(h) ==
  /\ pc[h] = "user" /\ h \in Recoveries /\ tokenLock = None
  /\ token' = nextToken /\ nextToken' = nextToken + 1
  /\ key' = nextKey /\ nextKey' = nextKey + 1
  /\ sessions' = SessionsAfterRecovery
  /\ End(h, 200)
  /\ overtaken' = overtaken \cup {l \in Logins : pc[l] \in {"found", "token"}}
  /\ used' = used \cup {<<h, secret[h]>>}
  /\ UNCHANGED <<status, doomed>>

\* /api/me/recovery-key: rotations queue on an advisory lock, then the account.
RotateUser(h) ==
  /\ pc[h] = "new" /\ status # "none" /\ nextToken <= MaxSecrets /\ nextKey <= MaxSecrets
  /\ userLock = None
  /\ \/ status = "active" /\ userLock' = h /\ Goto(h, "user")
        /\ UNCHANGED <<tables, secret, keyLock, tokenLock, doomed, overtaken, used>>
     \/ status # "active" /\ Refuse(h, 403)

Rotate(h) ==
  /\ pc[h] = "user" /\ h \in Rotations /\ keyLock = None
  /\ key' = nextKey /\ nextKey' = nextKey + 1
  /\ End(h, 200)
  /\ UNCHANGED <<status, token, nextToken, sessions, doomed, overtaken, used>>

\* g has the account and waits for a row of h, which waits for the account:
\* one of the two is aborted and answers 500.
Deadlock(g, h) ==
  /\ userLock = g /\ pc[g] = "user" /\ pc[h] \in {"token", "key"}
  /\ h = IF g \in Recoveries THEN tokenLock ELSE keyLock

Abort(g, h) == Deadlock(g, h) /\ \E x \in {g, h} : Refuse(x, 500)
-----------------------------------------------------------------------------
\* /api/admin/users/status: closing an account deletes its sessions.
SetStatus(s) ==
  /\ Exists /\ status # s /\ userLock = None
  /\ status' = s
  /\ sessions' = IF s = "blocked" THEN {} ELSE sessions
  /\ UNCHANGED <<token, key, nextToken, nextKey, locks, local, doomed, overtaken, used>>

\* /api/admin/users/delete: first the sessions, last the account.  That fails, and
\* with it everything, if a login has committed another session in between, or
\* as the victim of a deadlock.
DeleteSessions ==
  /\ Exists /\ doomed = None
  /\ doomed' = sessions
  /\ UNCHANGED <<tables, locks, local, overtaken, used>>

DeleteUser ==
  /\ doomed # None /\ userLock = None
  /\ doomed' = None
  /\ \/ sessions \subseteq doomed /\ keyLock = None /\ tokenLock = None
        /\ status' = "deleted" /\ token' = None /\ key' = None /\ sessions' = {}
        /\ UNCHANGED <<nextToken, nextKey>>
     \/ (~(sessions \subseteq doomed) \/ keyLock # None \/ tokenLock # None) /\ UNCHANGED tables
  /\ UNCHANGED <<locks, local, overtaken, used>>

Next ==
  \/ Register
  \/ \E h \in Logins : (\E t \in Secrets : LoginLookup(h, t)) \/ LoginToken(h) \/ LoginSession(h)
  \/ \E s \in sessions : Logout(s)
  \/ \E h \in Recoveries : (\E k \in Secrets : RecoverKey(h, k)) \/ RecoverUser(h) \/ Recover(h)
  \/ \E h \in Rotations : RotateUser(h) \/ Rotate(h)
  \/ \E g, h \in Handlers : Abort(g, h)
  \/ \E s \in {"active", "blocked"} : SetStatus(s)
  \/ DeleteSessions \/ DeleteUser

Spec == Init /\ [][Next]_vars
-----------------------------------------------------------------------------
\* A recovery key works once, whoever presents it at the same time or rotates it;
\* an account always has exactly the credentials that were handed out last.
KeyWorksOnce ==
  /\ \A u, v \in used : u[2] = v[2] => u = v
  /\ Exists => token = nextToken - 1 /\ key = nextKey - 1

\* After a recovery no session of the lost VerseLink ID is left, but for a login
\* that had already found the ID when the recovery committed.
OldSessionsEnd ==
  \A s \in sessions : s.token # token => s.login \in overtaken
=============================================================================
