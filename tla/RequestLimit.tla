---------------------------- MODULE RequestLimit ----------------------------
(***************************************************************************)
(* createRequestRateLimiter (src/rate-limit.js): a budget of requests per  *)
(* key and fixed window, for a bounded number of keys.  Unlike a cache it  *)
(* never evicts: at capacity a new key is refused until the first window   *)
(* ends.  Every call runs to its end, so a call is one action.             *)
(***************************************************************************)
EXTENDS Integers, FiniteSetsExt, Functions

CONSTANTS Keys,        \* credentials, accounts or peers
          Limit,       \* requests per window
          Window,      \* windowMs
          MaxEntries,  \* keys that are counted at once
          MaxTime,     \* bound of the clock
          MaxCount,    \* Number.MAX_SAFE_INTEGER, where overflow stops counting
          None         \* no bucket, no answer yet

RequestLimitAssumption ==
  /\ Limit \in Nat \ {0} /\ Window \in Nat \ {0} /\ MaxEntries \in Nat \ {0}
  /\ MaxTime \in Nat /\ MaxCount \in Nat \ {0}

VARIABLES now,
          entries,   \* key -> count and end of its window
          overflow,  \* requests refused because the map was full
          answer,    \* the answer to the last request
          admitted,  \* history: admitted[k][t], requests of k admitted at t
          told       \* history: when a refused k was told to come back, or 0

vars == <<now, entries, overflow, answer, admitted, told>>

Times  == 0..MaxTime
Resets == 1..(MaxTime + Window)
Entry  == [count: 0..Limit, resetAt: Resets]

TypeOK ==
  /\ now \in Times
  /\ DOMAIN entries \subseteq Keys
  /\ \A k \in DOMAIN entries : entries[k] \in Entry
  /\ Cardinality(DOMAIN entries) <= MaxEntries
  /\ overflow = None \/ (overflow.count \in 1..MaxCount /\ overflow.resetAt \in Resets)
  /\ answer = None \/ (answer.key \in Keys /\ answer.resetAt \in Resets)
  /\ told \in [Keys -> Resets \cup {0}]

Init ==
  /\ now = 0
  /\ entries = [k \in {} |-> None]
  /\ overflow = None
  /\ answer = None
  /\ admitted = [k \in Keys |-> [t \in Times |-> 0]]
  /\ told = [k \in Keys |-> 0]

Tick ==
  /\ now < MaxTime
  /\ now' = now + 1
  /\ UNCHANGED <<entries, overflow, answer, admitted, told>>

\* Mutant: a window ends only after its last instant.
LateCleaned == Restrict(entries, {k \in DOMAIN entries : entries[k].resetAt >= now})

\* cleanup: ended windows are dropped, and nothing else is.
Cleaned == Restrict(entries, {k \in DOMAIN entries : entries[k].resetAt > now})

CleanedOverflow == IF overflow # None /\ overflow.resetAt <= now THEN None ELSE overflow

\* Mutant: a full map makes room by forgetting somebody.
ForgetfulFull(k) == FALSE

Full(k) == k \notin DOMAIN Cleaned /\ Cardinality(DOMAIN Cleaned) >= MaxEntries

EarliestEnd == Min({Cleaned[k].resetAt : k \in DOMAIN Cleaned})

RefuseFull(k) ==
  LET bucket == CleanedOverflow
      known  == bucket # None /\ bucket.resetAt = EarliestEnd
  IN
  /\ Full(k)
  /\ entries' = Cleaned
  /\ overflow' = [count |-> IF known THEN Min({MaxCount, bucket.count + 1}) ELSE 1, resetAt |-> EarliestEnd]
  /\ answer' = [key |-> k, allowed |-> FALSE, resetAt |-> EarliestEnd, full |-> TRUE]
  /\ told' = [told EXCEPT ![k] = EarliestEnd]
  /\ UNCHANGED <<now, admitted>>

\* Mutant: the window is extended by every request.
SlidingEntry(k) == [count |-> IF k \in DOMAIN Cleaned THEN Cleaned[k].count ELSE 0,
                    resetAt |-> now + Window]

EntryOf(k) == IF k \in DOMAIN Cleaned THEN Cleaned[k] ELSE [count |-> 0, resetAt |-> now + Window]

Allowed(k) == EntryOf(k).count < Limit

Count(k) ==
  LET spent == EntryOf(k).count + IF Allowed(k) THEN 1 ELSE 0
      entry == [EntryOf(k) EXCEPT !.count = spent]
  IN
  /\ ~Full(k)
  /\ entries' = [j \in DOMAIN Cleaned \cup {k} |-> IF j = k THEN entry ELSE Cleaned[j]]
  /\ overflow' = CleanedOverflow
  /\ answer' = [key |-> k, allowed |-> Allowed(k), resetAt |-> entry.resetAt, full |-> FALSE]
  /\ IF Allowed(k)
     THEN admitted' = [admitted EXCEPT ![k][now] = @ + 1] /\ told' = [told EXCEPT ![k] = 0]
     ELSE told' = [told EXCEPT ![k] = entry.resetAt] /\ UNCHANGED admitted
  /\ UNCHANGED now

Consume(k) == RefuseFull(k) \/ Count(k)

\* allow: asks without consuming; only ended windows disappear.
Preflight ==
  /\ entries' = Cleaned /\ overflow' = CleanedOverflow
  /\ UNCHANGED <<now, answer, admitted, told>>

Next == Tick \/ Preflight \/ \E k \in Keys : Consume(k)

Spec == Init /\ [][Next]_vars
-----------------------------------------------------------------------------
Admissions(k, span) == MapThenSumSet(LAMBDA t : admitted[k][t], span \cap Times)

\* No interval as long as the window, wherever it starts and whatever the other
\* keys do to the map, sees more than two budgets of one key; and a key that is
\* refused for its own budget has really had it since its window started.
BudgetIsExact ==
  /\ \A k \in Keys, t \in Times : Admissions(k, t..(t + Window - 1)) <= 2 * Limit
  /\ answer # None /\ ~answer.allowed /\ ~answer.full /\ answer.resetAt > now =>
       Admissions(answer.key, (answer.resetAt - Window)..now) = Limit

\* Coming back when one was told to is not in vain: a request is refused again
\* only if the map is full and somebody entered it at or after that time.
RetryIsUseful ==
  [][ \A k \in Keys :
        answer' # answer /\ answer'.key = k /\ ~answer'.allowed /\ told[k] # 0 /\ now >= told[k]
        => /\ answer'.full
           /\ \E j \in DOMAIN entries' : entries'[j].resetAt - Window >= told[k] ]_vars
=============================================================================
