----------------------------- MODULE ScmdbSink ------------------------------
(***************************************************************************)
(* The SCMDB sink of one account (src/server.js): events arrive under a    *)
(* token, are applied once and only while the connection lives; the browser*)
(* connects (a new token) and disconnects.  All are transactions.  Rows    *)
(* that wait for each other are a deadlock, which PostgreSQL ends by       *)
(* failing one of the two.                                                 *)
(***************************************************************************)
EXTENDS Integers, FiniteSets

CONSTANTS Posts, Connects,     \* requests
          Tokens, Events, Senders, None

ScmdbSinkAssumption ==
  /\ Posts \cap Connects = {}
  /\ None \notin Posts \cup Connects \cup Tokens \cup Events \cup Senders

VARIABLES connection, identity,       \* token -> connection_status, scmdb_user_id
          events,                     \* committed scmdb_events
          rowLock, accountLock,       \* who has the connection's row, the account's row
          pc,                         \* request -> where it is
          token, event, sender, kind, \* post -> what it carries
          binds,                      \* posts that saw no identity and set theirs
          counted, senders,           \* history: event -> times applied; token -> for whom
          accepted                    \* history: events answered 202

tables == <<connection, identity, events>>
locks  == <<rowLock, accountLock>>
carried == <<token, event, sender, kind>>
history == <<counted, senders, accepted>>
vars == <<tables, locks, pc, carried, binds, history>>

Kinds == {"profile", "inventory", "blueprint"}
Alive == {"pending", "connected"}

TypeOK ==
  /\ connection \in [Tokens -> {"none", "revoked"} \cup Alive]
  /\ identity \in [Tokens -> Senders \cup {None}] /\ events \subseteq Events
  /\ rowLock \in [Tokens -> Posts \cup {None}]
  /\ accountLock \in Posts \cup Connects \cup {None}
  /\ pc \in [Posts \cup Connects -> {"new", "checked", "bound", "applying", "recording", "recorded", "locked", "done"}]
  /\ token \in [Posts -> Tokens \cup {None}] /\ event \in [Posts -> Events \cup {None}]
  /\ sender \in [Posts -> Senders \cup {None}] /\ kind \in [Posts -> Kinds \cup {"none"}]
  /\ binds \subseteq Posts /\ counted \in [Events -> Nat]
  /\ senders \in [Tokens -> SUBSET Senders] /\ accepted \subseteq Events

Init ==
  /\ connection = [t \in Tokens |-> "none"] /\ identity = [t \in Tokens |-> None]
  /\ events = {}
  /\ rowLock = [t \in Tokens |-> None] /\ accountLock = None
  /\ pc = [r \in Posts \cup Connects |-> "new"]
  /\ token = [s \in Posts |-> None] /\ event = [s \in Posts |-> None]
  /\ sender = [s \in Posts |-> None] /\ kind = [s \in Posts |-> "none"]
  /\ binds = {}
  /\ counted = [e \in Events |-> 0] /\ senders = [t \in Tokens |-> {}] /\ accepted = {}
-----------------------------------------------------------------------------
Goto(r, step) == pc' = [pc EXCEPT ![r] = step]

\* The transaction of s ends: its locks are free.
Unlock(s) ==
  /\ rowLock' = [t \in Tokens |-> IF rowLock[t] = s THEN None ELSE rowLock[t]]
  /\ accountLock' = IF accountLock = s THEN None ELSE accountLock

Rollback(s) ==
  /\ Unlock(s) /\ Goto(s, "done") /\ binds' = binds \ {s}
  /\ UNCHANGED <<tables, carried, history>>

\* POST /v1/scmdb/<token>: BEGIN, and the revoked tokens.
Receive(s, t, e, u, k) ==
  /\ pc[s] = "new" /\ connection[t] # "none"
  /\ Goto(s, IF connection[t] = "revoked" THEN "done" ELSE "checked")
  /\ token' = [token EXCEPT ![s] = t] /\ event' = [event EXCEPT ![s] = e]
  /\ sender' = [sender EXCEPT ![s] = u] /\ kind' = [kind EXCEPT ![s] = k]
  /\ UNCHANGED <<tables, locks, binds, history>>

\* Mutant: the connection is read without FOR UPDATE.
Unlocked(s) == TRUE

RowIsFree(s) == rowLock[token[s]] = None

First(s) == identity[token[s]] = None /\ kind[s] = "profile"
Matches(s) == First(s) \/ kind[s] = "inventory" \/ identity[token[s]] = sender[s]

\* SELECT ... FOR UPDATE sees the row as the transaction it waited for left it; the
\* identity is set by the first profile and compared after that.
Bind(s) ==
  /\ pc[s] = "checked" /\ RowIsFree(s)
  /\ IF connection[token[s]] \in Alive /\ Matches(s)
     THEN /\ rowLock' = [rowLock EXCEPT ![token[s]] = s]
          /\ binds' = IF First(s) THEN binds \cup {s} ELSE binds
          /\ Goto(s, "bound") /\ UNCHANGED <<tables, accountLock, carried, history>>
     ELSE Rollback(s)

\* COMMIT, with the identity and the status the post has set.
Commit(s) ==
  LET t == token[s] IN
  /\ identity' = IF s \in binds THEN [identity EXCEPT ![t] = sender[s]] ELSE identity
  /\ connection' = IF connection[t] = "pending" THEN [connection EXCEPT ![t] = "connected"]
                   ELSE connection
  /\ accepted' = accepted \cup {event[s]} /\ binds' = binds \ {s}
  /\ Unlock(s) /\ Goto(s, "done") /\ UNCHANGED carried

Duplicate(s) == event[s] \in events

Ignore(s) ==
  /\ pc[s] = "bound" /\ Duplicate(s)
  /\ Commit(s) /\ UNCHANGED <<events, counted, senders>>

Proceed(s) ==
  /\ pc[s] = "bound" /\ ~Duplicate(s) /\ Goto(s, "applying")
  /\ UNCHANGED <<tables, locks, carried, binds, history>>

\* applyBlueprintEvent writes the event's rows; all but blueprints also the account's.
\* An event it does not accept is rolled back.
Apply(s) ==
  /\ pc[s] = "applying"
  /\ \/ /\ kind[s] # "blueprint" => accountLock = None
        /\ accountLock' = IF kind[s] = "blueprint" THEN accountLock ELSE s
        /\ Goto(s, "recording") /\ UNCHANGED <<tables, rowLock, carried, binds, history>>
     \/ Rollback(s)

\* Mutant: event_id is no key.
Keyless(s) == FALSE

Recorded(s) == event[s] \in events

\* INSERT waits for a transaction that has inserted the same id, and fails if it commits.
Record(s) ==
  /\ pc[s] = "recording"
  /\ \A o \in Posts : pc[o] = "recorded" => event[o] # event[s]
  /\ IF Recorded(s) THEN Rollback(s)
     ELSE Goto(s, "recorded") /\ UNCHANGED <<tables, locks, carried, binds, history>>

Finish(s) ==
  /\ pc[s] = "recorded" /\ Commit(s) /\ events' = events \cup {event[s]}
  /\ counted' = [counted EXCEPT ![event[s]] = @ + 1]
  /\ senders' = [senders EXCEPT ![token[s]] =
                   IF kind[s] = "inventory" THEN @ ELSE @ \cup {sender[s]}]
-----------------------------------------------------------------------------
\* The connection requests of one account queue at an advisory lock, which their last
\* step has got and given back; a connect has the account's row before that.
ConnectBegin(c) ==
  /\ pc[c] = "new" /\ accountLock = None
  /\ accountLock' = c /\ Goto(c, "locked")
  /\ UNCHANGED <<tables, rowLock, carried, binds, history>>

Revoked(states) == [t \in Tokens |-> IF connection[t] \in states THEN "revoked" ELSE connection[t]]
Free(states) == \A t \in Tokens : connection[t] \in states => rowLock[t] = None

\* A pending connection is replaced, a connected one stays.
Connect(c, t) ==
  /\ pc[c] = "locked" /\ Free({"pending"}) /\ connection[t] = "none"
  /\ connection' = [Revoked({"pending"}) EXCEPT ![t] = "pending"]
  /\ Unlock(c) /\ Goto(c, "done")
  /\ UNCHANGED <<identity, events, carried, binds, history>>

Disconnect(c) ==
  /\ pc[c] = "new" /\ Free(Alive)
  /\ connection' = Revoked(Alive) /\ Goto(c, "done")
  /\ UNCHANGED <<identity, events, locks, carried, binds, history>>

\* A post has the pending row and wants the account's; a connect the other way round.
Deadlocked(s, c) ==
  /\ pc[s] = "applying" /\ kind[s] # "blueprint" /\ accountLock = c
  /\ pc[c] = "locked" /\ connection[token[s]] = "pending" /\ rowLock[token[s]] = s

Abort(s, c) == Deadlocked(s, c) /\ (Rollback(s) \/ Rollback(c))

Next ==
  \/ \E s \in Posts :
       \/ \E t \in Tokens, e \in Events, u \in Senders, k \in Kinds : Receive(s, t, e, u, k)
       \/ Bind(s) \/ Ignore(s) \/ Proceed(s) \/ Apply(s) \/ Record(s) \/ Finish(s)
  \/ \E c \in Connects : ConnectBegin(c) \/ Disconnect(c)
       \/ (\E t \in Tokens : Connect(c, t)) \/ (\E s \in Posts : Abort(s, c))

Spec == Init /\ [][Next]_vars
-----------------------------------------------------------------------------
\* An event delivered again, also at the same time or under another token, is applied
\* once; what is answered 202 has been applied.
EventsCountOnce ==
  /\ \A e \in Events : counted[e] <= 1
  /\ \A e \in accepted : counted[e] = 1

\* All blueprints and profiles that came under a token are of the sender it is bound to;
\* no connection is revoked while an event is applied under it; at most one is pending.
SinkIsOwned ==
  /\ \A t \in Tokens : senders[t] \subseteq {identity[t]}
  /\ \A s \in Posts : pc[s] \in {"bound", "applying", "recording", "recorded"}
                        => connection[token[s]] \in Alive
  /\ Cardinality({t \in Tokens : connection[t] = "pending"}) <= 1
=============================================================================
