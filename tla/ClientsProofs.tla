--------------------------- MODULE ClientsProofs ----------------------------
(***************************************************************************)
(* The limiter, the heartbeat, the pool, the SCMDB sink and the history a  *)
(* device's owner reads, for any number of keys, requests, peers,          *)
(* handlers, events and rows: a behaviour of the clients is one of each    *)
(* component, and an inductive invariant of each gives what the run        *)
(* Clients checks of it.                                                   *)
(***************************************************************************)
EXTENDS MCClients, PairingProofs, SequenceTheorems, Sums

\* A behaviour of the parts is, for each of them, a behaviour of that component: the
\* others only let it stutter.
THEOREM PartsFollow ==
  PartsSpec => Limiter!Spec /\ Beat!Spec /\ Spec /\ Pool!Spec /\ Sink!Spec /\ View!Spec
<1>1. PartsInit => Limiter!Init /\ Beat!Init /\ Init /\ Pool!Init /\ Sink!Init /\ View!Init
  BY DEF PartsInit
<1>2. [PartsNext]_allVars => [Limiter!Next]_(Limiter!vars)
  BY DEF PartsNext, allVars, Limiter!vars, limiterVars
<1>3. [PartsNext]_allVars => [Beat!Next]_(Beat!vars)
  BY DEF PartsNext, allVars, beatVars, Beat!vars, Beat!requestVars, Beat!slotVars, Beat!tableVars
<1>4. [PartsNext]_allVars => [Next]_vars
  BY DEF PartsNext, allVars
<1>5. [PartsNext]_allVars => [Pool!Next]_(Pool!vars)
  BY DEF PartsNext, allVars, Pool!vars, poolVars
<1>6. [PartsNext]_allVars => [Sink!Next]_(Sink!vars)
  BY DEF PartsNext, allVars, sinkVars, Sink!vars, Sink!tables, Sink!locks, Sink!carried, Sink!history
<1>7. [PartsNext]_allVars => [View!Next]_(View!vars)
  BY DEF PartsNext, allVars, viewVars, View!vars, View!server
<1>. QED  BY <1>1, <1>2, <1>3, <1>4, <1>5, <1>6, <1>7, PTL
     DEF PartsSpec, Limiter!Spec, Beat!Spec, Spec, Pool!Spec, Sink!Spec, View!Spec
-----------------------------------------------------------------------------
(* The request limiter. *)

\* The component's own copies of these operators of FiniteSets are those of FiniteSets.
LEMMA LimiterSets == \A S : Limiter!Cardinality(S) = Cardinality(S) /\ (Limiter!IsFiniteSet(S) <=> IsFiniteSet(S))
  BY DEF Limiter!Cardinality, Cardinality, Limiter!IsFiniteSet, IsFiniteSet

\* Admissions at the times from a to b.
InWindow(f, a, b) == SumOf(f, (a..b) \cap Limiter!Times)

\* What was admitted of a key whose last window began at s, as of n: within a budget then,
\* nothing later, and within a budget in what a window can reach back before it.
Spent(f, s, n) ==
  /\ s <= n /\ InWindow(f, s, n) <= Limit
  /\ \A t \in Limiter!Times : t >= s + Window \/ t > n => f[t] = 0
  /\ \A t \in Int : t > s - Window => InWindow(f, t, s - 1) <= Limit

\* No interval of a window's length has more than two budgets.
TwoBudgets(f) == \A t \in Limiter!Times : InWindow(f, t, t + Window - 1) <= 2 * Limit

\* The last window of a key is the one that is counted, or it is over.
LastWindow(k, s) ==
  /\ Spent(admitted[k], s, now)
  /\ IF k \in DOMAIN entries
     THEN s = entries[k].resetAt - Window /\ InWindow(admitted[k], s, now) = entries[k].count
     ELSE s + Window <= now

\* A key that was refused for its budget is counted until its window ends.
RefusedIsCounted ==
  liAnswer # None /\ ~liAnswer.allowed /\ ~liAnswer.full /\ liAnswer.resetAt > now =>
    /\ liAnswer.key \in DOMAIN entries /\ entries[liAnswer.key].resetAt = liAnswer.resetAt
    /\ entries[liAnswer.key].count = Limit

\* Entries that began before w and end after it.
Across(w) == {j \in DOMAIN entries : entries[j].resetAt > w /\ entries[j].resetAt - Window < w}

\* Whoever was told to come back is not counted then, and an entry ends at that time, so
\* that by itself the map cannot be full.
ToldRight(k) ==
  told[k] # 0 =>
    /\ k \in DOMAIN entries => entries[k].resetAt = told[k]
    /\ now < told[k] => \E j \in DOMAIN entries : entries[j].resetAt = told[k]
    /\ Cardinality(Across(told[k])) < MaxEntries

\* TypeOK, and what it does not say of the map and of the admissions.
LimiterTyped ==
  /\ Limiter!TypeOK /\ IsFiniteSet(DOMAIN entries) /\ Cardinality(DOMAIN entries) <= MaxEntries
  /\ entries = [k \in DOMAIN entries |-> entries[k]]
  /\ \A k \in DOMAIN entries : entries[k].resetAt <= now + Window
  /\ admitted \in [Keys -> [Limiter!Times -> Nat]]

\* The invariant of the limiter.
LimiterInv ==
  /\ LimiterTyped /\ RefusedIsCounted
  /\ \A k \in Keys : TwoBudgets(admitted[k]) /\ ToldRight(k) /\ \E s \in Int : LastWindow(k, s)

\* An interval that is cut in two, one that is inside of another, one in which nothing
\* was admitted, and one in which one more was.
LEMMA WindowNat ==
  ASSUME Limiter!RequestLimitAssumption, NEW f \in [Limiter!Times -> Nat], NEW a \in Int, NEW b \in Int
  PROVE  InWindow(f, a, b) \in Nat /\ IsFiniteSet((a..b) \cap Limiter!Times)
<1>1. IsFiniteSet(Limiter!Times)  BY FS_Interval DEF Limiter!Times, Limiter!RequestLimitAssumption
<1>2. IsFiniteSet((a..b) \cap Limiter!Times)  BY <1>1, FS_Subset
<1>3. \A x \in (a..b) \cap Limiter!Times : f[x] \in Nat  OBVIOUS
<1>. QED  BY <1>2, <1>3, SumNat DEF InWindow

\* An interval is cut in two.
LEMMA WindowCut ==
  ASSUME Limiter!RequestLimitAssumption, NEW f \in [Limiter!Times -> Nat], NEW a \in Int, NEW b \in Int, NEW c \in Int,
         a <= b + 1, b <= c
  PROVE  InWindow(f, a, c) = InWindow(f, a, b) + InWindow(f, b + 1, c)
<1>. DEFINE S == (a..b) \cap Limiter!Times
            T == ((b + 1)..c) \cap Limiter!Times
<1>1. S \cap T = {} /\ S \cup T = (a..c) \cap Limiter!Times
  BY DEF Limiter!Times, Limiter!RequestLimitAssumption
<1>2. IsFiniteSet(S) /\ IsFiniteSet(T)
  <2>1. b + 1 \in Int  OBVIOUS
  <2>. QED  BY <2>1, WindowNat
<1>3. \A x \in S \cup T : f[x] \in Int  OBVIOUS
<1>. HIDE DEF S, T
<1>4. SumOf(f, S \cup T) = SumOf(f, S) + SumOf(f, T)  BY <1>1, <1>2, <1>3, SumUnion
<1>. QED  BY <1>1, <1>4 DEF InWindow, S, T

\* In a part of an interval there were no more admissions than in it.
LEMMA WindowWithin ==
  ASSUME Limiter!RequestLimitAssumption, NEW f \in [Limiter!Times -> Nat], NEW a \in Int, NEW b \in Int, NEW c \in Int, NEW d \in Int,
         a <= c, d <= b
  PROVE  InWindow(f, c, d) <= InWindow(f, a, b)
<1>1. (c..d) \cap Limiter!Times \in SUBSET ((a..b) \cap Limiter!Times)  OBVIOUS
<1>2. IsFiniteSet((a..b) \cap Limiter!Times)  BY WindowNat
<1>3. \A x \in (a..b) \cap Limiter!Times : f[x] \in Nat  OBVIOUS
<1>. QED  BY <1>1, <1>2, <1>3, SumWithin DEF InWindow

\* An interval without admissions.
LEMMA WindowZero ==
  ASSUME Limiter!RequestLimitAssumption, NEW f \in [Limiter!Times -> Nat], NEW a \in Int, NEW b \in Int,
         \A t \in Limiter!Times : a <= t /\ t <= b => f[t] = 0
  PROVE  InWindow(f, a, b) = 0
<1>1. IsFiniteSet((a..b) \cap Limiter!Times)  BY WindowNat
<1>2. \A x \in (a..b) \cap Limiter!Times : f[x] = 0  OBVIOUS
<1>. QED  BY <1>1, <1>2, SumZero DEF InWindow

\* One request more is admitted at the time n.
OneAdmitted(f, n) == [f EXCEPT ![n] = @ + 1]

\* It counts in the intervals that n is in.
LEMMA WindowMore ==
  ASSUME Limiter!RequestLimitAssumption, NEW f \in [Limiter!Times -> Nat], NEW a \in Int, NEW b \in Int, NEW n \in Limiter!Times
  PROVE  /\ OneAdmitted(f, n) \in [Limiter!Times -> Nat]
         /\ InWindow(OneAdmitted(f, n), a, b) = InWindow(f, a, b) + (IF a <= n /\ n <= b THEN 1 ELSE 0)
<1>. DEFINE S == (a..b) \cap Limiter!Times
            g == OneAdmitted(f, n)
<1>0. IsFiniteSet(S) /\ InWindow(f, a, b) \in Nat  BY WindowNat
<1>1. /\ g \in [Limiter!Times -> Nat] /\ g[n] = f[n] + 1 /\ \A t \in Limiter!Times : t # n => g[t] = f[t]
      /\ \A t \in Limiter!Times : f[t] \in Int /\ g[t] \in Int
  BY DEF OneAdmitted
<1>. HIDE DEF g
<1>2. CASE n \in S
  <2>1. \A y \in S : f[y] \in Int  BY <1>1
  <2>2. g[n] \in Int /\ \A y \in S \ {n} : g[y] = f[y]  BY <1>1
  <2>3. SumOf(g, S) = SumOf(f, S) - f[n] + g[n]
    <3>. HIDE DEF S
    <3>. QED  BY <1>0, <1>2, <2>1, <2>2, SumUpdate
  <2>4. InWindow(g, a, b) = InWindow(f, a, b) - f[n] + g[n]  BY <2>3 DEF InWindow
  <2>5. a <= n /\ n <= b  BY <1>2 DEF Limiter!Times, Limiter!RequestLimitAssumption
  <2>6. f[n] \in Int  BY <1>1
  <2>7. InWindow(g, a, b) = InWindow(f, a, b) + 1  BY <1>0, <1>1, <2>4, <2>6
  <2>. QED  BY <1>1, <2>5, <2>7 DEF g
<1>3. CASE n \notin S
  <2>1. \A y \in S : g[y] = f[y]  BY <1>1, <1>3
  <2>2. SumOf(g, S) = SumOf(f, S)  BY <1>0, <2>1, SumSame
  <2>3. ~(a <= n /\ n <= b)  BY <1>3 DEF Limiter!Times, Limiter!RequestLimitAssumption
  <2>4. InWindow(g, a, b) = InWindow(f, a, b)  BY <2>2 DEF InWindow
  <2>. QED  BY <1>0, <1>1, <2>3, <2>4 DEF g
<1>. QED  BY <1>2, <1>3

\* Time passes, and nothing is admitted at the new time yet.
LEMMA SpentTick ==
  ASSUME Limiter!RequestLimitAssumption, NEW f \in [Limiter!Times -> Nat], NEW s \in Int, NEW n \in Limiter!Times, Spent(f, s, n)
  PROVE  Spent(f, s, n + 1) /\ InWindow(f, s, n + 1) = InWindow(f, s, n)
<1>. USE DEF Spent
<1>1. n \in Int /\ n + 1 \in Int  BY DEF Limiter!Times, Limiter!RequestLimitAssumption
<1>2. InWindow(f, s, n + 1) = InWindow(f, s, n) + InWindow(f, n + 1, n + 1)
  BY <1>1, WindowCut
<1>3. InWindow(f, n + 1, n + 1) = 0
  <2>1. \A t \in Limiter!Times : n + 1 <= t /\ t <= n + 1 => f[t] = 0
    BY <1>1 DEF Limiter!Times, Limiter!RequestLimitAssumption
  <2>. QED  BY <1>1, <2>1, WindowZero
<1>4. InWindow(f, s, n + 1) = InWindow(f, s, n)
  <2>1. InWindow(f, s, n) \in Nat  BY <1>1, WindowNat
  <2>. QED  BY <1>2, <1>3, <2>1
<1>. QED  BY <1>1, <1>4 DEF Limiter!Times, Limiter!RequestLimitAssumption

\* One more in the current window, which had room.
LEMMA SpentMore ==
  ASSUME Limiter!RequestLimitAssumption, NEW f \in [Limiter!Times -> Nat], NEW s \in Int, NEW n \in Limiter!Times, Spent(f, s, n),
         n < s + Window, InWindow(f, s, n) < Limit
  PROVE  Spent(OneAdmitted(f, n), s, n) /\ InWindow(OneAdmitted(f, n), s, n) = InWindow(f, s, n) + 1
<1>. DEFINE g == OneAdmitted(f, n)
<1>1. n \in Int /\ s - 1 \in Int /\ s <= n  BY DEF Spent, Limiter!Times, Limiter!RequestLimitAssumption
<1>2. g \in [Limiter!Times -> Nat] /\ InWindow(g, s, n) = InWindow(f, s, n) + 1
  BY <1>1, WindowMore
<1>3. \A t \in Limiter!Times : t >= s + Window \/ t > n => g[t] = 0
  BY <1>1 DEF OneAdmitted, Spent, Limiter!Times, Limiter!RequestLimitAssumption
<1>4. ASSUME NEW t \in Int, t > s - Window PROVE InWindow(g, t, s - 1) <= Limit
  <2>1. InWindow(g, t, s - 1) = InWindow(f, t, s - 1) + 0  BY <1>1, WindowMore
  <2>2. InWindow(f, t, s - 1) \in Nat /\ InWindow(f, t, s - 1) <= Limit
    BY <1>1, <1>4, WindowNat DEF Spent
  <2>. QED  BY <2>1, <2>2
<1>5. InWindow(f, s, n) \in Nat  BY <1>1, WindowNat
<1>6. InWindow(g, s, n) <= Limit  BY <1>2, <1>5 DEF Limiter!RequestLimitAssumption
<1>. HIDE DEF g
<1>7. Spent(g, s, n)  BY <1>1, <1>3, <1>4, <1>6 DEF Spent
<1>. QED  BY <1>2, <1>7 DEF g

\* The first of a new window.
LEMMA SpentAnew ==
  ASSUME Limiter!RequestLimitAssumption, NEW f \in [Limiter!Times -> Nat], NEW s \in Int, NEW n \in Limiter!Times, Spent(f, s, n),
         s + Window <= n
  PROVE  Spent(OneAdmitted(f, n), n, n) /\ InWindow(OneAdmitted(f, n), n, n) = 1
<1>. DEFINE g == OneAdmitted(f, n)
<1>1. n \in Int /\ n - 1 \in Int /\ s <= n /\ Window \in Nat \ {0} /\ Limit \in Nat \ {0}
  BY DEF Spent, Limiter!Times, Limiter!RequestLimitAssumption
<1>2. InWindow(f, n, n) = 0
  <2>1. \A t \in Limiter!Times : n <= t /\ t <= n => f[t] = 0
    BY <1>1 DEF Spent, Limiter!Times, Limiter!RequestLimitAssumption
  <2>. QED  BY <1>1, <2>1, WindowZero
<1>3. g \in [Limiter!Times -> Nat] /\ InWindow(g, n, n) = 1
  BY <1>1, <1>2, WindowMore
<1>4. \A t \in Limiter!Times : t >= n + Window \/ t > n => g[t] = 0
  BY <1>1 DEF OneAdmitted, Spent, Limiter!Times, Limiter!RequestLimitAssumption
<1>5. ASSUME NEW t \in Int, t > n - Window PROVE InWindow(g, t, n - 1) <= Limit
  <2>1. InWindow(g, t, n - 1) = InWindow(f, t, n - 1) + 0  BY <1>1, WindowMore
  <2>2. InWindow(f, t, n - 1) <= InWindow(f, s, n)
    <3>1. s <= t /\ n - 1 <= n  BY <1>1, <1>5
    <3>. QED  BY <1>1, <3>1, WindowWithin
  <2>3. InWindow(f, t, n - 1) \in Nat /\ InWindow(f, s, n) \in Nat /\ InWindow(f, s, n) <= Limit
    BY <1>1, WindowNat DEF Spent
  <2>. QED  BY <1>1, <2>1, <2>2, <2>3
<1>. HIDE DEF g
<1>6. Spent(g, n, n)  BY <1>1, <1>3, <1>4, <1>5 DEF Spent
<1>. QED  BY <1>3, <1>6 DEF g

\* An interval that the new admission is in ends in the window it was admitted in, or
\* begins less than a window before it.
LEMMA TwoAtMost ==
  ASSUME Limiter!RequestLimitAssumption, NEW f \in [Limiter!Times -> Nat], NEW s \in Int, NEW n \in Limiter!Times,
         TwoBudgets(f), Spent(OneAdmitted(f, n), s, n)
  PROVE  TwoBudgets(OneAdmitted(f, n))
<1>. DEFINE g == OneAdmitted(f, n)
<1>0. g \in [Limiter!Times -> Nat]  BY DEF OneAdmitted
<1>1. /\ n \in Int /\ s - 1 \in Int /\ s <= n /\ Window \in Nat \ {0} /\ Limit \in Nat \ {0} /\ n + 1 \in Int
      /\ \A t \in Limiter!Times : t \in Int /\ t + Window - 1 \in Int
  BY DEF Spent, Limiter!Times, Limiter!RequestLimitAssumption
<1>2. InWindow(g, s, n) <= Limit /\ InWindow(g, s, n) \in Nat  BY <1>0, <1>1, WindowNat DEF Spent
<1>3. ASSUME NEW t \in Limiter!Times, ~(t <= n /\ n <= t + Window - 1)
      PROVE  InWindow(g, t, t + Window - 1) <= 2 * Limit
  <2>1. InWindow(g, t, t + Window - 1) = InWindow(f, t, t + Window - 1) + 0  BY <1>1, <1>3, WindowMore
  <2>2. InWindow(f, t, t + Window - 1) \in Nat  BY <1>1, WindowNat
  <2>. QED  BY <2>1, <2>2 DEF TwoBudgets
<1>4. ASSUME NEW t \in Limiter!Times, t <= n, n <= t + Window - 1
      PROVE  InWindow(g, t, t + Window - 1) <= 2 * Limit
  <2>1. InWindow(g, t, t + Window - 1) = InWindow(g, t, n) + InWindow(g, n + 1, t + Window - 1)
    <3>1. t <= n + 1  BY <1>1, <1>4
    <3>. QED  BY <1>0, <1>1, <1>4, <3>1, WindowCut
  <2>2. InWindow(g, n + 1, t + Window - 1) = 0
    <3>1. \A x \in Limiter!Times : n + 1 <= x /\ x <= t + Window - 1 => g[x] = 0  BY <1>1 DEF Spent
    <3>. HIDE DEF g
    <3>. QED  BY <1>0, <1>1, <3>1, WindowZero
  <2>3. InWindow(g, t, n) <= 2 * Limit /\ InWindow(g, t, n) \in Nat
    <3>0. InWindow(g, t, n) \in Nat  BY <1>0, <1>1, WindowNat
    <3>1. CASE s <= t
      <4>1. InWindow(g, t, n) <= InWindow(g, s, n)  BY <1>0, <1>1, <3>1, WindowWithin
      <4>. QED  BY <1>1, <1>2, <3>0, <4>1
    <3>2. CASE t < s
      <4>1. InWindow(g, t, n) = InWindow(g, t, s - 1) + InWindow(g, s, n)
        <5>1. t <= (s - 1) + 1 /\ s - 1 <= n /\ (s - 1) + 1 = s  BY <1>1, <3>2
        <5>2. InWindow(g, t, n) = InWindow(g, t, s - 1) + InWindow(g, (s - 1) + 1, n)
          BY <1>0, <1>1, <5>1, WindowCut
        <5>. QED  BY <5>1, <5>2
      <4>2. InWindow(g, t, s - 1) <= Limit /\ InWindow(g, t, s - 1) \in Nat
        <5>1. t > s - Window  BY <1>1, <1>4
        <5>. QED  BY <1>0, <1>1, <5>1, WindowNat DEF Spent
      <4>. QED  BY <1>1, <1>2, <3>0, <4>1, <4>2
    <3>. QED  BY <1>1, <3>1, <3>2
  <2>. QED  BY <2>1, <2>2, <2>3
<1>. QED  BY <1>3, <1>4 DEF TwoBudgets

\* What cleanup leaves.
LiveKeys == {k \in DOMAIN entries : entries[k].resetAt > now}

\* Cleanup leaves the live keys, as they were.
LEMMA CleanedIs ==
  /\ DOMAIN Limiter!Cleaned = LiveKeys /\ LiveKeys \subseteq DOMAIN entries /\ Limiter!Cleaned = [k \in LiveKeys |-> entries[k]]
  /\ \A k \in LiveKeys : Limiter!Cleaned[k] = entries[k]
  BY DEF Limiter!Cleaned, Limiter!Restrict, LiveKeys

\* There are no more of them than the map has room for.
LEMMA LiveIsFinite ==
  ASSUME Limiter!RequestLimitAssumption, LimiterTyped
  PROVE  /\ IsFiniteSet(LiveKeys) /\ Cardinality(LiveKeys) \in Nat /\ Cardinality(LiveKeys) <= MaxEntries
         /\ Cardinality(DOMAIN entries) \in Nat
<1>1. LiveKeys \in SUBSET (DOMAIN entries)  BY DEF LiveKeys
<1>2. IsFiniteSet(LiveKeys) /\ Cardinality(LiveKeys) <= Cardinality(DOMAIN entries)
  BY <1>1, FS_Subset DEF LimiterTyped
<1>3. Cardinality(LiveKeys) \in Nat /\ Cardinality(DOMAIN entries) \in Nat
  BY <1>2, FS_CardinalityType DEF LimiterTyped
<1>. QED  BY <1>2, <1>3 DEF LimiterTyped, Limiter!RequestLimitAssumption

\* The entries, typed.
LEMMA EntryIs ==
  ASSUME Limiter!RequestLimitAssumption, LimiterTyped, NEW k \in DOMAIN entries
  PROVE  /\ k \in Keys /\ entries[k] \in Limiter!Entry /\ entries[k].count \in 0..Limit
         /\ entries[k].resetAt \in Limiter!Resets /\ entries[k].resetAt \in Nat /\ entries[k].resetAt <= now + Window
  BY DEF LimiterTyped, Limiter!TypeOK, Limiter!Entry, Limiter!Resets, Limiter!RequestLimitAssumption

\* The earliest end is that of an entry.
LEMMA EarliestIs ==
  ASSUME Limiter!RequestLimitAssumption, LimiterTyped, LiveKeys # {}
  PROVE  /\ \E k \in LiveKeys : Limiter!EarliestEnd = entries[k].resetAt
         /\ Limiter!EarliestEnd \in Limiter!Resets /\ Limiter!EarliestEnd > now
<1>. DEFINE f == [k \in LiveKeys |-> entries[k].resetAt]
            S == {Limiter!Cleaned[k].resetAt : k \in DOMAIN Limiter!Cleaned}
<1>1. \A k \in LiveKeys : f[k] \in Nat  BY EntryIs, CleanedIs
<1>2. S = {f[k] : k \in LiveKeys}  BY CleanedIs
<1>. HIDE DEF f
<1>3. PICK k \in LiveKeys : \A j \in LiveKeys : f[k] <= f[j]  BY <1>1, LiveIsFinite, LeastExists
<1>4. \E x \in S : \A y \in S : x <= y
  BY <1>2, <1>3
<1>. HIDE DEF S
<1>5. Limiter!Min(S) \in S  BY <1>4 DEF Limiter!Min
<1>6. Limiter!EarliestEnd \in {f[x] : x \in LiveKeys}  BY <1>2, <1>5 DEF Limiter!EarliestEnd, S
<1>. QED  BY <1>6, EntryIs, CleanedIs DEF f, LiveKeys

\* How far the overflow is counted.
LEMMA CountIs ==
  ASSUME Limiter!RequestLimitAssumption, NEW n \in Nat
  PROVE  Limiter!Min({MaxCount, n + 1}) \in 1..MaxCount
<1>1. \E x \in {MaxCount, n + 1} : \A y \in {MaxCount, n + 1} : x <= y
  BY DEF Limiter!RequestLimitAssumption
<1>2. LET m == Limiter!Min({MaxCount, n + 1}) IN m \in {MaxCount, n + 1} /\ \A y \in {MaxCount, n + 1} : m <= y
  BY <1>1 DEF Limiter!Min
<1>. QED  BY <1>2 DEF Limiter!RequestLimitAssumption

\* Cleanup of the counter of refusals.
LEMMA OverflowIs ==
  ASSUME LimiterTyped
  PROVE  Limiter!CleanedOverflow = None \/ (Limiter!CleanedOverflow.count \in 1..MaxCount /\ Limiter!CleanedOverflow.resetAt \in Limiter!Resets)
  BY DEF Limiter!CleanedOverflow, LimiterTyped, Limiter!TypeOK

\* At first nobody is counted, and the last windows have been over for long.
LEMMA LimiterInit == ASSUME Limiter!RequestLimitAssumption, Limiter!Init PROVE LimiterInv
<1>. DEFINE none == [t \in Limiter!Times |-> 0]
<1>1. /\ now = 0 /\ DOMAIN entries = {} /\ overflow = None /\ liAnswer = None
      /\ admitted = [k \in Keys |-> none] /\ told = [k \in Keys |-> 0]
      /\ entries = [k \in DOMAIN entries |-> entries[k]]
  BY DEF Limiter!Init
<1>2. 0 \in Limiter!Times /\ none \in [Limiter!Times -> Nat]
  BY DEF Limiter!Times, Limiter!RequestLimitAssumption
<1>3. LimiterTyped
  BY <1>1, <1>2, FS_EmptySet, LimiterSets
     DEF LimiterTyped, Limiter!TypeOK, Limiter!RequestLimitAssumption
<1>4. \A a, b \in Int : InWindow(none, a, b) = 0
  BY <1>2, WindowZero
<1>. HIDE DEF none
<1>5. TwoBudgets(none)
  BY <1>4 DEF TwoBudgets, Limiter!Times, Limiter!RequestLimitAssumption
<1>6. Spent(none, -Window, 0)
  BY <1>4 DEF Spent, Limiter!RequestLimitAssumption, none, Limiter!Times
<1>7. \A k \in Keys : LastWindow(k, -Window)
  BY <1>1, <1>6 DEF LastWindow, Limiter!RequestLimitAssumption
<1>8. -Window \in Int  BY DEF Limiter!RequestLimitAssumption
<1>9. RefusedIsCounted /\ \A k \in Keys : ToldRight(k)
  BY <1>1 DEF RefusedIsCounted, ToldRight
<1>. QED  BY <1>1, <1>3, <1>5, <1>7, <1>8, <1>9 DEF LimiterInv

\* Time passes, and windows end by themselves.
LEMMA LimiterTick == ASSUME Limiter!RequestLimitAssumption, LimiterInv, Limiter!Tick PROVE LimiterInv'
<1>1. now \in Limiter!Times /\ now + 1 \in Limiter!Times /\ now' = now + 1 /\ now \in Int
      /\ UNCHANGED <<entries, overflow, liAnswer, admitted, told>>
  BY DEF Limiter!Tick, LimiterInv, LimiterTyped, Limiter!TypeOK, Limiter!Times,
     Limiter!RequestLimitAssumption
<1>2. LimiterTyped'
  <2>1. \A k \in DOMAIN entries : entries[k].resetAt <= now + 1 + Window
    BY <1>1, EntryIs DEF LimiterInv, Limiter!RequestLimitAssumption
  <2>. QED  BY <1>1, <2>1 DEF LimiterInv, LimiterTyped, Limiter!TypeOK
<1>3. RefusedIsCounted'
  BY <1>1
     DEF LimiterInv, RefusedIsCounted, LimiterTyped, Limiter!TypeOK, Limiter!Resets,
        Limiter!RequestLimitAssumption
<1>4. ASSUME NEW k \in Keys PROVE (TwoBudgets(admitted[k]) /\ ToldRight(k) /\ \E s \in Int : LastWindow(k, s))'
  <2>0. admitted[k] \in [Limiter!Times -> Nat]  BY DEF LimiterInv, LimiterTyped
  <2>1. TwoBudgets(admitted'[k])  BY <1>1 DEF LimiterInv
  <2>2. ToldRight(k)'
    <3>1. told[k] \in Int
      BY DEF LimiterInv, LimiterTyped, Limiter!TypeOK, Limiter!Resets, Limiter!RequestLimitAssumption
    <3>. QED  BY <1>1, <3>1 DEF LimiterInv, ToldRight, Across
  <2>3. PICK s \in Int : LastWindow(k, s)  BY DEF LimiterInv
  <2>4. Spent(admitted[k], s, now + 1) /\ InWindow(admitted[k], s, now + 1) = InWindow(admitted[k], s, now)
    BY <1>1, <2>0, <2>3, SpentTick DEF LastWindow
  <2>5. LastWindow(k, s)'
    BY <1>1, <2>3, <2>4 DEF LastWindow, Limiter!RequestLimitAssumption
  <2>. QED  BY <2>1, <2>2, <2>5
<1>. QED  BY <1>2, <1>3, <1>4 DEF LimiterInv

\* A key that a call is not about: it loses its entry when that has ended, and is told
\* nothing; of the others one at most is new.
LEMMA OtherKeysStay ==
  ASSUME Limiter!RequestLimitAssumption, LimiterInv, NEW x \in Keys, NEW k \in Keys, NEW New \in SUBSET {k}, k # x \/ New = {},
         now' = now, admitted'[x] = admitted[x], told'[x] = told[x], DOMAIN entries' = LiveKeys \cup New,
         \A j \in LiveKeys : entries'[j].resetAt = entries[j].resetAt, x \in LiveKeys => entries'[x] = entries[x],
         New # {} => k \notin LiveKeys /\ entries'[k].resetAt = now + Window /\ Cardinality(LiveKeys) < MaxEntries
  PROVE  (TwoBudgets(admitted[x]) /\ ToldRight(x) /\ \E s \in Int : LastWindow(x, s))'
<1>0. /\ now \in Int /\ LimiterTyped /\ told[x] \in Nat /\ Window \in Nat /\ MaxEntries \in Nat
      /\ \A j \in DOMAIN entries : entries[j].resetAt \in Nat
  <2>0. LimiterTyped  BY DEF LimiterInv
  <2>1. \A j \in DOMAIN entries : entries[j].resetAt \in Nat  BY <2>0, EntryIs
  <2>2. now \in Int /\ LimiterTyped
    BY DEF LimiterInv, LimiterTyped, Limiter!TypeOK, Limiter!Times, Limiter!RequestLimitAssumption
  <2>3. told \in [Keys -> Limiter!Resets \cup {0}]  BY DEF LimiterInv, LimiterTyped, Limiter!TypeOK
  <2>4. told[x] \in Nat  BY <2>3 DEF Limiter!Resets, Limiter!RequestLimitAssumption
  <2>. QED  BY <2>1, <2>2, <2>4 DEF Limiter!RequestLimitAssumption
<1>1. TwoBudgets(admitted'[x])  BY DEF LimiterInv
<1>2. PICK s \in Int : LastWindow(x, s)  BY DEF LimiterInv
<1>3. LastWindow(x, s)'
  <2>1. CASE x \in LiveKeys
    BY <1>2, <2>1 DEF LastWindow, LiveKeys
  <2>2. CASE x \notin LiveKeys
    BY <1>0, <1>2, <2>2 DEF LastWindow, LiveKeys
  <2>. QED  BY <2>1, <2>2
<1>4. ASSUME told[x] # 0 PROVE ToldRight(x)'
  <2>w. PICK w \in Nat : w = told[x]  BY <1>0
  <2>0. /\ x \in DOMAIN entries => entries[x].resetAt = w
        /\ now < w => \E j \in DOMAIN entries : entries[j].resetAt = w
        /\ Cardinality(Across(w)) < MaxEntries /\ Across(w) \in SUBSET (DOMAIN entries)
    BY <1>4, <2>w DEF LimiterInv, ToldRight, Across
  <2>1. x \in DOMAIN entries' => entries'[x].resetAt = w
    BY <2>0 DEF LiveKeys
  <2>2. now < w => \E j \in LiveKeys : entries[j].resetAt = w
    BY <2>0 DEF LiveKeys
  <2>3. IsFiniteSet(Across(w)) /\ Cardinality(Across(w)) \in Nat
    BY <1>0, <2>0, FS_Subset, FS_CardinalityType DEF LimiterTyped
  <2>4. Cardinality(Across(w)') < MaxEntries
    <3>1. CASE New = {} \/ w <= now
      <4>1. Across(w)' \in SUBSET Across(w)
        BY <1>0, <3>1 DEF Across, LiveKeys
      <4>2. Cardinality(Across(w)') <= Cardinality(Across(w)) /\ IsFiniteSet(Across(w)')
        BY <2>3, <4>1, FS_Subset
      <4>3. Cardinality(Across(w)') \in Nat  BY <4>2, FS_CardinalityType
      <4>. QED  BY <1>0, <2>0, <2>3, <4>2, <4>3
    <3>2. CASE New # {} /\ now < w
      <4>1. PICK j \in LiveKeys : entries[j].resetAt = w  BY <2>2, <3>2
      <4>. DEFINE L == LiveKeys \cup {k}
                  S == L \ {j}
      <4>2. IsFiniteSet(LiveKeys) /\ Cardinality(LiveKeys) \in Nat  BY <1>0, LiveIsFinite
      <4>3. IsFiniteSet(L) /\ Cardinality(L) = Cardinality(LiveKeys) + 1
        BY <3>2, <4>2, FS_AddElement
      <4>4. IsFiniteSet(S) /\ Cardinality(S) = Cardinality(LiveKeys)
        <5>1. j \in L  BY <4>1
        <5>. HIDE DEF L
        <5>2. IsFiniteSet(S) /\ Cardinality(S) = Cardinality(L) - 1  BY <4>3, <5>1, FS_RemoveElement
        <5>. HIDE DEF S
        <5>. QED  BY <4>2, <4>3, <5>2
      <4>5. Across(w)' \in SUBSET S
        BY <1>0, <3>2, <4>1 DEF Across
      <4>6. Cardinality(Across(w)') <= Cardinality(S) /\ IsFiniteSet(Across(w)')
        BY <4>4, <4>5, FS_Subset
      <4>7. Cardinality(Across(w)') \in Nat  BY <4>6, FS_CardinalityType
      <4>. QED  BY <1>0, <3>2, <4>2, <4>4, <4>6, <4>7
    <3>. QED  BY <1>0, <3>1, <3>2
  <2>5. told'[x] = w /\ now' = now  BY <2>w
  <2>6. now' < w => \E j \in DOMAIN entries' : entries'[j].resetAt = w  BY <2>2, <2>5
  <2>. QED  BY <2>1, <2>4, <2>5, <2>6 DEF ToldRight
<1>5. ASSUME told[x] = 0 PROVE ToldRight(x)'  BY <1>5 DEF ToldRight
<1>. QED  BY <1>1, <1>3, <1>4, <1>5

\* The types after a call, from what it did to the variables.
LEMMA TypesStay ==
  ASSUME Limiter!RequestLimitAssumption, LimiterTyped, NEW New \in SUBSET Keys, now' = now, DOMAIN entries' = LiveKeys \cup New,
         entries' = [j \in DOMAIN entries' |-> entries'[j]],
         \A j \in LiveKeys : entries'[j] = entries[j] \/ j \in New,
         \A j \in New : entries'[j] \in Limiter!Entry /\ entries'[j].resetAt <= now + Window,
         IsFiniteSet(LiveKeys \cup New) /\ Cardinality(LiveKeys \cup New) <= MaxEntries,
         overflow' = None \/ (overflow'.count \in 1..MaxCount /\ overflow'.resetAt \in Limiter!Resets),
         liAnswer' = None \/ (liAnswer'.key \in Keys /\ liAnswer'.resetAt \in Limiter!Resets),
         told' \in [Keys -> Limiter!Resets \cup {0}], admitted' \in [Keys -> [Limiter!Times -> Nat]]
  PROVE  LimiterTyped'
<1>1. \A j \in DOMAIN entries' : j \in Keys /\ entries'[j] \in Limiter!Entry /\ entries'[j].resetAt <= now + Window
  BY EntryIs DEF LiveKeys
<1>. QED  BY <1>1, LimiterSets DEF LimiterTyped, Limiter!TypeOK

\* A preflight only removes what has ended.
LEMMA LimiterPreflight ==
  ASSUME Limiter!RequestLimitAssumption, LimiterInv, Limiter!Preflight
  PROVE  LimiterInv'
<1>1. /\ now' = now /\ DOMAIN entries' = LiveKeys /\ entries' = [j \in LiveKeys |-> entries[j]]
      /\ \A j \in LiveKeys : entries'[j] = entries[j]
      /\ overflow' = Limiter!CleanedOverflow /\ liAnswer' = liAnswer /\ admitted' = admitted /\ told' = told
  BY CleanedIs DEF Limiter!Preflight
<1>2. LimiterTyped /\ RefusedIsCounted  BY DEF LimiterInv
<1>3. IsFiniteSet(LiveKeys) /\ Cardinality(LiveKeys) <= MaxEntries  BY <1>2, LiveIsFinite
<1>4. LimiterTyped'
  <2>1. {} \in SUBSET Keys /\ LiveKeys \cup {} = LiveKeys  OBVIOUS
  <2>. DEFINE New == {}
  <2>2. /\ New \in SUBSET Keys /\ DOMAIN entries' = LiveKeys \cup New /\ \A j \in New : FALSE
        /\ IsFiniteSet(LiveKeys \cup New) /\ Cardinality(LiveKeys \cup New) <= MaxEntries
    BY <1>1, <1>3, <2>1
  <2>3. entries' = [j \in DOMAIN entries' |-> entries'[j]]  BY <1>1
  <2>4. /\ liAnswer' = None \/ (liAnswer'.key \in Keys /\ liAnswer'.resetAt \in Limiter!Resets)
        /\ told' \in [Keys -> Limiter!Resets \cup {0}] /\ admitted' \in [Keys -> [Limiter!Times -> Nat]]
    BY <1>1, <1>2 DEF LimiterTyped, Limiter!TypeOK
  <2>. HIDE DEF New
  <2>. QED  BY <1>1, <1>2, <2>2, <2>3, <2>4, OverflowIs, TypesStay
<1>5. RefusedIsCounted'  BY <1>1, <1>2 DEF RefusedIsCounted, LiveKeys
<1>6. ASSUME NEW x \in Keys PROVE (TwoBudgets(admitted[x]) /\ ToldRight(x) /\ \E s \in Int : LastWindow(x, s))'
  <2>. DEFINE New == {}
  <2>1. New \in SUBSET {x} /\ New = {} /\ DOMAIN entries' = LiveKeys \cup New  BY <1>1
  <2>. HIDE DEF New
  <2>. QED  BY <1>1, <2>1, OtherKeysStay
<1>. QED  BY <1>4, <1>5, <1>6 DEF LimiterInv

\* A refusal because the map is full: the earliest end is that of an entry, which is not
\* across it.
LEMMA LimiterRefuse ==
  ASSUME Limiter!RequestLimitAssumption, LimiterInv, NEW k \in Keys, Limiter!RefuseFull(k)
  PROVE  LimiterInv'
<1>0. LimiterTyped /\ RefusedIsCounted /\ Limiter!Full(k)  BY DEF LimiterInv, Limiter!RefuseFull
<1>1. /\ now' = now /\ DOMAIN entries' = LiveKeys /\ entries' = [j \in LiveKeys |-> entries[j]]
      /\ \A j \in LiveKeys : entries'[j] = entries[j]
      /\ admitted' = admitted /\ told' = [told EXCEPT ![k] = Limiter!EarliestEnd]
      /\ liAnswer' = [key |-> k, allowed |-> FALSE, resetAt |-> Limiter!EarliestEnd, full |-> TRUE]
      /\ k \notin LiveKeys /\ Cardinality(LiveKeys) >= MaxEntries
  BY CleanedIs, LimiterSets DEF Limiter!RefuseFull, Limiter!Full
<1>2. IsFiniteSet(LiveKeys) /\ Cardinality(LiveKeys) \in Nat /\ Cardinality(LiveKeys) <= MaxEntries
  BY <1>0, LiveIsFinite
<1>3. LiveKeys # {}  BY <1>1, <1>2, FS_EmptySet DEF Limiter!RequestLimitAssumption
<1>4. Limiter!EarliestEnd \in Limiter!Resets /\ Limiter!EarliestEnd > now /\ \E j \in LiveKeys : Limiter!EarliestEnd = entries[j].resetAt
  BY <1>0, <1>3, EarliestIs
<1>5. LimiterTyped'
  <2>. DEFINE New == {}
  <2>2. /\ New \in SUBSET Keys /\ DOMAIN entries' = LiveKeys \cup New /\ \A j \in New : FALSE
        /\ IsFiniteSet(LiveKeys \cup New) /\ Cardinality(LiveKeys \cup New) <= MaxEntries
    <3>1. LiveKeys \cup {} = LiveKeys  OBVIOUS
    <3>. QED  BY <1>1, <1>2, <3>1
  <2>3. entries' = [j \in DOMAIN entries' |-> entries'[j]]  BY <1>1
  <2>4. /\ liAnswer' = None \/ (liAnswer'.key \in Keys /\ liAnswer'.resetAt \in Limiter!Resets)
        /\ told' \in [Keys -> Limiter!Resets \cup {0}] /\ admitted' \in [Keys -> [Limiter!Times -> Nat]]
    BY <1>0, <1>1, <1>4 DEF LimiterTyped, Limiter!TypeOK
  <2>5. overflow' = None \/ (overflow'.count \in 1..MaxCount /\ overflow'.resetAt \in Limiter!Resets)
    <3>1. CASE Limiter!CleanedOverflow # None /\ Limiter!CleanedOverflow.resetAt = Limiter!EarliestEnd
      <4>1. overflow' = [count |-> Limiter!Min({MaxCount, Limiter!CleanedOverflow.count + 1}), resetAt |-> Limiter!EarliestEnd]
        BY <3>1 DEF Limiter!RefuseFull
      <4>2. Limiter!CleanedOverflow.count \in Nat
        BY <1>0, <3>1, OverflowIs DEF Limiter!RequestLimitAssumption
      <4>. QED  BY <1>4, <4>1, <4>2, CountIs
    <3>2. CASE ~(Limiter!CleanedOverflow # None /\ Limiter!CleanedOverflow.resetAt = Limiter!EarliestEnd)
      <4>1. overflow' = [count |-> 1, resetAt |-> Limiter!EarliestEnd]  BY <3>2 DEF Limiter!RefuseFull
      <4>. QED  BY <1>4, <4>1 DEF Limiter!RequestLimitAssumption
    <3>. QED  BY <3>1, <3>2
  <2>. HIDE DEF New
  <2>. QED  BY <1>0, <1>1, <2>2, <2>3, <2>4, <2>5, TypesStay
<1>6. RefusedIsCounted'  BY <1>1 DEF RefusedIsCounted
<1>7. ASSUME NEW x \in Keys, x # k
      PROVE  (TwoBudgets(admitted[x]) /\ ToldRight(x) /\ \E s \in Int : LastWindow(x, s))'
  <2>. DEFINE New == {}
  <2>1. New \in SUBSET {k} /\ New = {} /\ DOMAIN entries' = LiveKeys \cup New  BY <1>1
  <2>2. told'[x] = told[x]  BY <1>0, <1>1, <1>7 DEF LimiterTyped, Limiter!TypeOK
  <2>. HIDE DEF New
  <2>. QED  BY <1>1, <2>1, <2>2, OtherKeysStay
<1>8. TwoBudgets(admitted'[k])  BY <1>1 DEF LimiterInv
<1>9. \E s \in Int : LastWindow(k, s)'
  <2>1. PICK s \in Int : LastWindow(k, s)  BY DEF LimiterInv
  <2>2. now \in Int /\ Window \in Int /\ \A j \in DOMAIN entries : entries[j].resetAt \in Int
    BY <1>0, EntryIs DEF LimiterTyped, Limiter!TypeOK, Limiter!Times, Limiter!RequestLimitAssumption
  <2>3. LastWindow(k, s)'  BY <1>1, <2>1, <2>2 DEF LastWindow, LiveKeys
  <2>. QED  BY <2>3
<1>10. ToldRight(k)'
  <2>1. PICK w \in Nat : w = Limiter!EarliestEnd
    BY <1>4 DEF Limiter!Resets, Limiter!RequestLimitAssumption
  <2>2. told'[k] = w  BY <1>0, <1>1, <2>1 DEF LimiterTyped, Limiter!TypeOK
  <2>3. PICK j \in LiveKeys : entries[j].resetAt = w  BY <1>4, <2>1
  <2>4. Across(w)' \in SUBSET (LiveKeys \ {j})
    <3>1. entries'[j].resetAt = w  BY <1>1, <2>3
    <3>2. j \notin Across(w)'  BY <2>1, <3>1 DEF Across
    <3>. QED  BY <1>1, <3>2 DEF Across
  <2>5. Cardinality(Across(w)') < MaxEntries
    <3>1. IsFiniteSet(LiveKeys \ {j}) /\ Cardinality(LiveKeys \ {j}) = Cardinality(LiveKeys) - 1
      BY <1>2, <2>3, FS_RemoveElement
    <3>2. Cardinality(Across(w)') <= Cardinality(LiveKeys \ {j}) /\ IsFiniteSet(Across(w)')
      BY <2>4, <3>1, FS_Subset
    <3>3. Cardinality(Across(w)') \in Nat  BY <3>2, FS_CardinalityType
    <3>. QED  BY <1>2, <3>1, <3>2, <3>3 DEF Limiter!RequestLimitAssumption
  <2>6. \E i \in DOMAIN entries' : entries'[i].resetAt = w  BY <1>1, <2>3
  <2>. QED  BY <1>1, <2>2, <2>5, <2>6 DEF ToldRight
<1>. QED  BY <1>5, <1>6, <1>7, <1>8, <1>9, <1>10 DEF LimiterInv

\* A request that is counted: of the entries the map keeps only that of k changes.
LEMMA CountIsKept ==
  ASSUME Limiter!RequestLimitAssumption, LimiterInv, NEW k \in Keys, Limiter!Count(k)
  PROVE  /\ now' = now /\ DOMAIN entries' = LiveKeys \cup {k} /\ entries' = [j \in DOMAIN entries' |-> entries'[j]]
         /\ \A j \in LiveKeys \ {k} : entries'[j] = entries[j]
         /\ entries'[k] = [Limiter!EntryOf(k) EXCEPT !.count = @ + IF Limiter!Allowed(k) THEN 1 ELSE 0]
         /\ Limiter!EntryOf(k) = IF k \in LiveKeys THEN entries[k] ELSE [count |-> 0, resetAt |-> now + Window]
         /\ Limiter!EntryOf(k) \in Limiter!Entry /\ Limiter!EntryOf(k).resetAt > now /\ Limiter!EntryOf(k).resetAt <= now + Window
         /\ entries'[k] \in Limiter!Entry /\ entries'[k].resetAt = Limiter!EntryOf(k).resetAt
         /\ entries'[k].count = Limiter!EntryOf(k).count + IF Limiter!Allowed(k) THEN 1 ELSE 0
         /\ k \notin LiveKeys => Cardinality(LiveKeys) < MaxEntries
         /\ IsFiniteSet(LiveKeys \cup {k}) /\ Cardinality(LiveKeys \cup {k}) <= MaxEntries
         /\ liAnswer' = [key |-> k, allowed |-> Limiter!Allowed(k), resetAt |-> Limiter!EntryOf(k).resetAt, full |-> FALSE]
         /\ told' = [told EXCEPT ![k] = IF Limiter!Allowed(k) THEN 0 ELSE Limiter!EntryOf(k).resetAt]
         /\ admitted' = IF Limiter!Allowed(k) THEN [admitted EXCEPT ![k][now] = @ + 1] ELSE admitted
<1>0. LimiterTyped /\ ~Limiter!Full(k) /\ now \in Int /\ now \in Limiter!Times /\ Window \in Nat \ {0} /\ Limit \in Nat \ {0}
  BY DEF LimiterInv, Limiter!Count, LimiterTyped, Limiter!TypeOK, Limiter!Times,
     Limiter!RequestLimitAssumption
<1>1. Limiter!EntryOf(k) = IF k \in LiveKeys THEN entries[k] ELSE [count |-> 0, resetAt |-> now + Window]
  BY CleanedIs DEF Limiter!EntryOf
<1>2. Limiter!EntryOf(k) \in Limiter!Entry /\ Limiter!EntryOf(k).resetAt > now /\ Limiter!EntryOf(k).resetAt <= now + Window
  <2>1. CASE k \in LiveKeys  BY <1>0, <1>1, <2>1, EntryIs DEF LiveKeys
  <2>2. CASE k \notin LiveKeys
    <3>1. now + Window \in Limiter!Resets /\ 0 \in 0..Limit
      BY <1>0 DEF Limiter!Resets, Limiter!Times, Limiter!RequestLimitAssumption
    <3>. QED  BY <1>0, <1>1, <2>2, <3>1 DEF Limiter!Entry
  <2>. QED  BY <2>1, <2>2
<1>. DEFINE entry == [Limiter!EntryOf(k) EXCEPT !.count = Limiter!EntryOf(k).count + IF Limiter!Allowed(k) THEN 1 ELSE 0]
<1>3. entry \in Limiter!Entry /\ entry.resetAt = Limiter!EntryOf(k).resetAt
      /\ entry.count = Limiter!EntryOf(k).count + IF Limiter!Allowed(k) THEN 1 ELSE 0
  BY <1>0, <1>2 DEF Limiter!Entry, Limiter!Allowed
<1>4. /\ entries' = [j \in DOMAIN Limiter!Cleaned \cup {k} |-> IF j = k THEN entry ELSE Limiter!Cleaned[j]] /\ now' = now
      /\ liAnswer' = [key |-> k, allowed |-> Limiter!Allowed(k), resetAt |-> entry.resetAt, full |-> FALSE]
      /\ told' = [told EXCEPT ![k] = IF Limiter!Allowed(k) THEN 0 ELSE entry.resetAt]
      /\ admitted' = IF Limiter!Allowed(k) THEN [admitted EXCEPT ![k][now] = @ + 1] ELSE admitted
  BY DEF Limiter!Count
<1>. HIDE DEF entry
<1>5. /\ DOMAIN entries' = LiveKeys \cup {k} /\ entries' = [j \in DOMAIN entries' |-> entries'[j]]
      /\ \A j \in LiveKeys \ {k} : entries'[j] = entries[j]
      /\ entries'[k] = entry
  BY <1>4, CleanedIs
<1>6. IsFiniteSet(LiveKeys) /\ Cardinality(LiveKeys) \in Nat /\ Cardinality(LiveKeys) <= MaxEntries
  BY <1>0, LiveIsFinite
<1>7. k \notin LiveKeys => Cardinality(LiveKeys) < MaxEntries
  BY <1>0, <1>6, CleanedIs, LimiterSets DEF Limiter!Full, Limiter!RequestLimitAssumption
<1>8. IsFiniteSet(LiveKeys \cup {k}) /\ Cardinality(LiveKeys \cup {k}) <= MaxEntries
  <2>1. CASE k \in LiveKeys
    <3>1. LiveKeys \cup {k} = LiveKeys  BY <2>1
    <3>. QED  BY <1>6, <3>1
  <2>2. CASE k \notin LiveKeys
    <3>1. IsFiniteSet(LiveKeys \cup {k}) /\ Cardinality(LiveKeys \cup {k}) = Cardinality(LiveKeys) + 1
      BY <1>6, <2>2, FS_AddElement
    <3>. QED  BY <1>6, <1>7, <2>2, <3>1 DEF Limiter!RequestLimitAssumption
  <2>. QED  BY <2>1, <2>2
<1>9. entry = [Limiter!EntryOf(k) EXCEPT !.count = @ + IF Limiter!Allowed(k) THEN 1 ELSE 0]
  BY DEF entry
<1>. QED  BY <1>1, <1>2, <1>3, <1>4, <1>5, <1>7, <1>8, <1>9

\* What was admitted of k, in the window that is counted after the call.
LEMMA CountIsSpent ==
  ASSUME Limiter!RequestLimitAssumption, LimiterInv, NEW k \in Keys, Limiter!Count(k)
  PROVE  /\ TwoBudgets(admitted'[k]) /\ admitted'[k] \in [Limiter!Times -> Nat]
         /\ \E s \in Int : LastWindow(k, s)'
<1>0. /\ LimiterTyped /\ now \in Int /\ now \in Limiter!Times /\ Window \in Nat \ {0} /\ Limit \in Nat \ {0}
      /\ admitted \in [Keys -> [Limiter!Times -> Nat]] /\ admitted[k] \in [Limiter!Times -> Nat]
      /\ TwoBudgets(admitted[k])
  BY DEF LimiterInv, LimiterTyped, Limiter!TypeOK, Limiter!Times, Limiter!RequestLimitAssumption
<1>. DEFINE f == admitted[k]
            e == Limiter!EntryOf(k)
            b == e.resetAt - Window
<1>1. /\ now' = now /\ k \in DOMAIN entries' /\ entries'[k].resetAt = e.resetAt
      /\ e = IF k \in LiveKeys THEN entries[k] ELSE [count |-> 0, resetAt |-> now + Window]
      /\ e.resetAt \in Nat /\ e.count \in Nat /\ e.count <= Limit /\ e.resetAt > now
      /\ entries'[k].count = e.count + IF Limiter!Allowed(k) THEN 1 ELSE 0
      /\ admitted' = IF Limiter!Allowed(k) THEN [admitted EXCEPT ![k][now] = @ + 1] ELSE admitted
  <2>1. /\ now' = now /\ DOMAIN entries' = LiveKeys \cup {k} /\ entries'[k].resetAt = e.resetAt
        /\ e = IF k \in LiveKeys THEN entries[k] ELSE [count |-> 0, resetAt |-> now + Window]
        /\ e \in Limiter!Entry /\ e.resetAt > now
        /\ entries'[k].count = e.count + IF Limiter!Allowed(k) THEN 1 ELSE 0
        /\ admitted' = IF Limiter!Allowed(k) THEN [admitted EXCEPT ![k][now] = @ + 1] ELSE admitted
    BY CountIsKept
  <2>. HIDE DEF e
  <2>2. e.resetAt \in Nat /\ e.count \in Nat /\ e.count <= Limit
    BY <1>0, <2>1 DEF Limiter!Entry, Limiter!Resets, Limiter!RequestLimitAssumption
  <2>. QED  BY <2>1, <2>2
<1>2. admitted'[k] = IF Limiter!Allowed(k) THEN OneAdmitted(f, now) ELSE f
  BY <1>0, <1>1 DEF OneAdmitted
<1>3. b \in Int  BY <1>0, <1>1
<1>4. PICK s \in Int : LastWindow(k, s)  BY DEF LimiterInv
<1>5. Spent(f, s, now) /\ InWindow(f, s, now) \in Nat  BY <1>0, <1>4, WindowNat DEF LastWindow
<1>6. Limiter!Allowed(k) <=> e.count < Limit  BY DEF Limiter!Allowed
<1>7. Spent(admitted'[k], b, now) /\ InWindow(admitted'[k], b, now) = entries'[k].count
  <2>1. CASE k \in LiveKeys /\ Limiter!Allowed(k)
    <3>1. s = b /\ InWindow(f, s, now) = e.count  BY <1>1, <1>4, <2>1 DEF LastWindow, LiveKeys
    <3>2. now < s + Window /\ InWindow(f, s, now) < Limit  BY <1>0, <1>1, <1>6, <2>1, <3>1
    <3>3. Spent(OneAdmitted(f, now), s, now) /\ InWindow(OneAdmitted(f, now), s, now) = InWindow(f, s, now) + 1
      BY <1>0, <1>5, <3>2, SpentMore
    <3>. QED  BY <1>1, <1>2, <2>1, <3>1, <3>3
  <2>2. CASE k \in LiveKeys /\ ~Limiter!Allowed(k)
    <3>1. s = b /\ InWindow(f, s, now) = e.count  BY <1>1, <1>4, <2>2 DEF LastWindow, LiveKeys
    <3>. QED  BY <1>1, <1>2, <1>5, <2>2, <3>1
  <2>3. CASE k \notin LiveKeys
    <3>1. s + Window <= now
      BY <1>0, <1>4, <2>3, EntryIs DEF LastWindow, LiveKeys
    <3>2. Spent(OneAdmitted(f, now), now, now) /\ InWindow(OneAdmitted(f, now), now, now) = 1
      BY <1>0, <1>5, <3>1, SpentAnew
    <3>3. b = now /\ Limiter!Allowed(k) /\ e.count = 0  BY <1>0, <1>1, <1>6, <2>3
    <3>. QED  BY <1>1, <1>2, <3>2, <3>3
  <2>. QED  BY <2>1, <2>2, <2>3
<1>8. admitted'[k] \in [Limiter!Times -> Nat]  BY <1>0, <1>2 DEF OneAdmitted
<1>9. TwoBudgets(admitted'[k])
  <2>1. CASE Limiter!Allowed(k)
    <3>1. Spent(OneAdmitted(f, now), b, now)  BY <1>2, <1>7, <2>1
    <3>. HIDE DEF b
    <3>2. TwoBudgets(OneAdmitted(f, now))  BY <1>0, <1>3, <3>1, TwoAtMost
    <3>. QED  BY <1>2, <2>1, <3>2
  <2>2. CASE ~Limiter!Allowed(k)  BY <1>0, <1>2, <2>2
  <2>. QED  BY <2>1, <2>2
<1>10. PICK c \in Int : c = b  BY <1>3
<1>11. /\ Spent(admitted'[k], c, now') /\ c = entries'[k].resetAt - Window
       /\ InWindow(admitted'[k], c, now') = entries'[k].count
  BY <1>1, <1>7, <1>10
<1>12. LastWindow(k, c)'  BY <1>1, <1>11 DEF LastWindow
<1>. QED  BY <1>8, <1>9, <1>10, <1>12

\* A request of a key with an entry, or with room for one, is admitted or refused.
LEMMA LimiterCount ==
  ASSUME Limiter!RequestLimitAssumption, LimiterInv, NEW k \in Keys, Limiter!Count(k)
  PROVE  LimiterInv'
<1>0. /\ LimiterTyped /\ now \in Int /\ now \in Limiter!Times /\ Window \in Nat \ {0} /\ Limit \in Nat \ {0}
      /\ told \in [Keys -> Limiter!Resets \cup {0}] /\ admitted \in [Keys -> [Limiter!Times -> Nat]] /\ DOMAIN entries \subseteq Keys
  BY DEF LimiterInv, LimiterTyped, Limiter!TypeOK, Limiter!Times, Limiter!RequestLimitAssumption
<1>. DEFINE e == Limiter!EntryOf(k)
<1>1. /\ now' = now /\ DOMAIN entries' = LiveKeys \cup {k} /\ entries' = [j \in DOMAIN entries' |-> entries'[j]]
      /\ \A j \in LiveKeys \ {k} : entries'[j] = entries[j]
      /\ e = IF k \in LiveKeys THEN entries[k] ELSE [count |-> 0, resetAt |-> now + Window]
      /\ e \in Limiter!Entry /\ e.resetAt > now /\ e.resetAt <= now + Window
      /\ entries'[k] \in Limiter!Entry /\ entries'[k].resetAt = e.resetAt
      /\ entries'[k].count = e.count + IF Limiter!Allowed(k) THEN 1 ELSE 0
      /\ k \notin LiveKeys => Cardinality(LiveKeys) < MaxEntries
      /\ IsFiniteSet(LiveKeys \cup {k}) /\ Cardinality(LiveKeys \cup {k}) <= MaxEntries
      /\ liAnswer' = [key |-> k, allowed |-> Limiter!Allowed(k), resetAt |-> e.resetAt, full |-> FALSE]
      /\ told' = [told EXCEPT ![k] = IF Limiter!Allowed(k) THEN 0 ELSE e.resetAt]
      /\ admitted' = IF Limiter!Allowed(k) THEN [admitted EXCEPT ![k][now] = @ + 1] ELSE admitted
  BY CountIsKept
<1>2. /\ e.resetAt \in Limiter!Resets /\ e.resetAt \in Nat /\ e.count \in Nat /\ e.count <= Limit
      /\ Limiter!Allowed(k) <=> e.count < Limit
  <2>1. Limiter!Allowed(k) <=> e.count < Limit  BY DEF Limiter!Allowed
  <2>. HIDE DEF e
  <2>. QED  BY <1>0, <1>1, <2>1 DEF Limiter!Entry, Limiter!Resets, Limiter!RequestLimitAssumption
<1>. HIDE DEF e
<1>3. \A j \in LiveKeys : entries'[j].resetAt = entries[j].resetAt /\ (j # k => entries'[j] = entries[j])
  BY <1>1
<1>4. LimiterTyped'
  <2>. DEFINE New == {k}
  <2>1. /\ New \in SUBSET Keys /\ DOMAIN entries' = LiveKeys \cup New
        /\ \A j \in LiveKeys : entries'[j] = entries[j] \/ j \in New
        /\ \A j \in New : entries'[j] \in Limiter!Entry /\ entries'[j].resetAt <= now + Window
        /\ IsFiniteSet(LiveKeys \cup New) /\ Cardinality(LiveKeys \cup New) <= MaxEntries
    BY <1>1
  <2>2. overflow' = None \/ (overflow'.count \in 1..MaxCount /\ overflow'.resetAt \in Limiter!Resets)
    <3>1. overflow' = Limiter!CleanedOverflow  BY DEF Limiter!Count
    <3>. QED  BY <1>0, <3>1, OverflowIs
  <2>3. liAnswer'.key \in Keys /\ liAnswer'.resetAt \in Limiter!Resets  BY <1>1, <1>2
  <2>4. told' \in [Keys -> Limiter!Resets \cup {0}]  BY <1>0, <1>1, <1>2
  <2>5. admitted' \in [Keys -> [Limiter!Times -> Nat]]
    <3>1. [admitted[k] EXCEPT ![now] = @ + 1] \in [Limiter!Times -> Nat]  BY <1>0
    <3>. QED  BY <1>0, <1>1, <3>1
  <2>. HIDE DEF New
  <2>. QED  BY <1>0, <1>1, <2>1, <2>2, <2>3, <2>4, <2>5, TypesStay
<1>5. RefusedIsCounted'
  <2>1. CASE Limiter!Allowed(k)  BY <1>1, <2>1 DEF RefusedIsCounted
  <2>2. CASE ~Limiter!Allowed(k)
    <3>1. e.count = Limit  BY <1>0, <1>2, <2>2
    <3>2. entries'[k].count = e.count + 0 /\ k \in DOMAIN entries'  BY <1>1, <2>2
    <3>3. entries'[k].count = Limit  BY <1>0, <3>1, <3>2
    <3>. QED  BY <1>1, <3>2, <3>3 DEF RefusedIsCounted
  <2>. QED  BY <2>1, <2>2
<1>6. ASSUME NEW x \in Keys, x # k
      PROVE  (TwoBudgets(admitted[x]) /\ ToldRight(x) /\ \E s \in Int : LastWindow(x, s))'
  <2>. DEFINE New == {k} \ LiveKeys
  <2>1. /\ New \in SUBSET {k} /\ DOMAIN entries' = LiveKeys \cup New
        /\ New # {} => k \notin LiveKeys /\ entries'[k].resetAt = now + Window /\ Cardinality(LiveKeys) < MaxEntries
    BY <1>1
  <2>2. told'[x] = told[x] /\ admitted'[x] = admitted[x] /\ (x \in LiveKeys => entries'[x] = entries[x])
    BY <1>0, <1>1, <1>6
  <2>. HIDE DEF New
  <2>. QED  BY <1>1, <1>3, <1>6, <2>1, <2>2, OtherKeysStay
<1>7. TwoBudgets(admitted'[k]) /\ \E s \in Int : LastWindow(k, s)'  BY CountIsSpent
<1>8. ToldRight(k)'
  <2>1. CASE Limiter!Allowed(k)
    <3>1. told'[k] = 0  BY <1>0, <1>1, <2>1
    <3>. QED  BY <3>1 DEF ToldRight
  <2>2. CASE ~Limiter!Allowed(k)
    <3>1. PICK w \in Nat : w = e.resetAt  BY <1>2
    <3>2. told'[k] = w  BY <1>0, <1>1, <2>2, <3>1
    <3>3. k \in LiveKeys /\ entries'[k].resetAt = w  BY <1>0, <1>1, <1>2, <2>2, <3>1
    <3>4. Across(w)' \in SUBSET (LiveKeys \ {k})  BY <1>1, <3>1, <3>3 DEF Across
    <3>5. IsFiniteSet(LiveKeys) /\ Cardinality(LiveKeys) \in Nat /\ Cardinality(LiveKeys) <= MaxEntries
      BY <1>0, LiveIsFinite
    <3>6. Cardinality(Across(w)') < MaxEntries
      <4>1. IsFiniteSet(LiveKeys \ {k}) /\ Cardinality(LiveKeys \ {k}) = Cardinality(LiveKeys) - 1
        BY <3>3, <3>5, FS_RemoveElement
      <4>2. Cardinality(Across(w)') <= Cardinality(LiveKeys \ {k}) /\ IsFiniteSet(Across(w)')
        BY <3>4, <4>1, FS_Subset
      <4>3. Cardinality(Across(w)') \in Nat  BY <4>2, FS_CardinalityType
      <4>. QED  BY <3>5, <4>1, <4>2, <4>3 DEF Limiter!RequestLimitAssumption
    <3>. QED  BY <1>1, <3>2, <3>3, <3>6 DEF ToldRight
  <2>. QED  BY <2>1, <2>2
<1>. QED  BY <1>4, <1>5, <1>6, <1>7, <1>8 DEF LimiterInv

\* Every step of the limiter keeps the invariant.
LEMMA LimiterStep ==
  ASSUME Limiter!RequestLimitAssumption, LimiterInv, [Limiter!Next]_(Limiter!vars)
  PROVE  LimiterInv'
<1>1. CASE Limiter!Tick  BY <1>1, LimiterTick
<1>2. CASE Limiter!Preflight  BY <1>2, LimiterPreflight
<1>3. ASSUME NEW k \in Keys, Limiter!RefuseFull(k) PROVE LimiterInv'  BY <1>3, LimiterRefuse
<1>4. ASSUME NEW k \in Keys, Limiter!Count(k) PROVE LimiterInv'  BY <1>4, LimiterCount
<1>5. CASE UNCHANGED Limiter!vars
  <2>. USE <1>5 DEF Limiter!vars
  <2>1. LimiterTyped'  BY DEF LimiterInv, LimiterTyped, Limiter!TypeOK
  <2>2. RefusedIsCounted'  BY DEF LimiterInv, RefusedIsCounted
  <2>3. ASSUME NEW k \in Keys PROVE (TwoBudgets(admitted[k]) /\ ToldRight(k) /\ \E s \in Int : LastWindow(k, s))'
    <3>1. PICK s \in Int : LastWindow(k, s)  BY DEF LimiterInv
    <3>2. LastWindow(k, s)'  BY <3>1 DEF LastWindow
    <3>. QED  BY <3>2 DEF LimiterInv, TwoBudgets, ToldRight, Across
  <2>. QED  BY <2>1, <2>2, <2>3 DEF LimiterInv
<1>. QED  BY <1>1, <1>2, <1>3, <1>4, <1>5 DEF Limiter!Next, Limiter!Consume

\* The sum the property takes is the one of the invariant.
LEMMA AdmissionsAre ==
  ASSUME NEW k, NEW a, NEW b
  PROVE  Limiter!Admissions(k, a..b) = InWindow(admitted[k], a, b)
  BY DEF Limiter!Admissions, Limiter!MapThenSumSet, Limiter!MapThenFoldSet, MapThenSumSet,
     MapThenFoldSet, InWindow, SumOf

\* The invariant bounds every interval, and keeps the window of who was refused.
LEMMA BudgetFollows == ASSUME Limiter!RequestLimitAssumption, LimiterInv PROVE Limiter!BudgetIsExact
<1>0. now \in Limiter!Times /\ Window \in Nat \ {0} /\ now \in Int /\ LimiterTyped
  BY DEF LimiterInv, LimiterTyped, Limiter!TypeOK, Limiter!Times, Limiter!RequestLimitAssumption
<1>1. \A k \in Keys, t \in Limiter!Times : Limiter!Admissions(k, t..(t + Window - 1)) <= 2 * Limit
  BY AdmissionsAre DEF LimiterInv, TwoBudgets
<1>2. ASSUME liAnswer # None, ~liAnswer.allowed, ~liAnswer.full, liAnswer.resetAt > now
      PROVE  Limiter!Admissions(liAnswer.key, (liAnswer.resetAt - Window)..now) = Limit
  <2>. DEFINE k == liAnswer.key
  <2>1. k \in DOMAIN entries /\ entries[k].resetAt = liAnswer.resetAt /\ entries[k].count = Limit
    BY <1>2 DEF LimiterInv, RefusedIsCounted
  <2>. HIDE DEF k
  <2>2. k \in Keys  BY <1>0, <2>1, EntryIs
  <2>3. PICK s \in Int : LastWindow(k, s)  BY <2>2 DEF LimiterInv
  <2>4. s = liAnswer.resetAt - Window /\ InWindow(admitted[k], s, now) = Limit
    BY <2>1, <2>3 DEF LastWindow
  <2>5. Limiter!Admissions(k, s..now) = Limit  BY <2>4, AdmissionsAre
  <2>. QED  BY <2>4, <2>5 DEF k
<1>. QED  BY <1>1, <1>2 DEF Limiter!BudgetIsExact

\* Who is refused, and came when it was told to: not for its budget, since what was
\* counted of it has ended, and not by those only who were in the map before then.
LEMMA RetryFollows ==
  ASSUME Limiter!RequestLimitAssumption, LimiterInv, Limiter!Next, NEW k \in Keys,
         liAnswer' # liAnswer, liAnswer'.key = k, ~liAnswer'.allowed, told[k] # 0, now >= told[k]
  PROVE  liAnswer'.full /\ \E j \in DOMAIN entries' : entries'[j].resetAt - Window >= told[k]
<1>0. /\ LimiterTyped /\ now \in Int /\ now \in Limiter!Times /\ Window \in Nat \ {0} /\ told[k] \in Nat /\ MaxEntries \in Nat
      /\ Limit \in Nat \ {0}
  BY DEF LimiterInv, LimiterTyped, Limiter!TypeOK, Limiter!Times, Limiter!Resets,
     Limiter!RequestLimitAssumption
<1>1. k \in DOMAIN entries => entries[k].resetAt = told[k]  BY DEF LimiterInv, ToldRight
<1>2. k \notin LiveKeys  BY <1>0, <1>1, EntryIs DEF LiveKeys
<1>3. ~Limiter!Count(k)
  <2>1. SUFFICES ASSUME Limiter!Count(k) PROVE FALSE  OBVIOUS
  <2>2. /\ Limiter!EntryOf(k) = IF k \in LiveKeys THEN entries[k] ELSE [count |-> 0, resetAt |-> now + Window]
        /\ liAnswer' = [key |-> k, allowed |-> Limiter!Allowed(k), resetAt |-> Limiter!EntryOf(k).resetAt, full |-> FALSE]
    BY <2>1, CountIsKept
  <2>3. Limiter!EntryOf(k) = [count |-> 0, resetAt |-> now + Window]  BY <1>2, <2>2
  <2>4. Limiter!EntryOf(k).count = 0  BY <2>3
  <2>5. Limiter!Allowed(k)  BY <1>0, <2>4 DEF Limiter!Allowed
  <2>6. liAnswer'.allowed = Limiter!Allowed(k)  BY <2>2
  <2>. QED  BY <2>5, <2>6
<1>4. Limiter!RefuseFull(k)
  <2>1. ~Limiter!Tick /\ ~Limiter!Preflight  BY DEF Limiter!Tick, Limiter!Preflight
  <2>2. PICK j \in Keys : Limiter!RefuseFull(j) \/ Limiter!Count(j)
    BY <2>1 DEF Limiter!Next, Limiter!Consume
  <2>3. liAnswer'.key = j  BY <2>2 DEF Limiter!RefuseFull, Limiter!Count
  <2>. QED  BY <1>3, <2>2, <2>3
<1>5. /\ liAnswer'.full /\ DOMAIN entries' = LiveKeys /\ \A j \in LiveKeys : entries'[j] = entries[j]
      /\ Cardinality(LiveKeys) >= MaxEntries
  BY <1>4, CleanedIs, LimiterSets DEF Limiter!RefuseFull, Limiter!Full
<1>6. SUFFICES ASSUME \A j \in LiveKeys : entries[j].resetAt - Window < told[k] PROVE FALSE
  <2>1. \A j \in LiveKeys : entries[j].resetAt \in Nat  BY <1>0, EntryIs DEF LiveKeys
  <2>. QED  BY <1>0, <1>5, <2>1
<1>7. PICK w \in Nat : w = told[k]  BY <1>0
<1>8. LiveKeys \in SUBSET Across(w)
  <2>1. \A j \in LiveKeys : entries[j].resetAt \in Nat  BY <1>0, EntryIs DEF LiveKeys
  <2>. QED  BY <1>0, <1>6, <1>7, <2>1 DEF Across, LiveKeys
<1>9. Cardinality(Across(w)) < MaxEntries /\ Across(w) \in SUBSET (DOMAIN entries)
  BY <1>7 DEF LimiterInv, ToldRight, Across
<1>10. IsFiniteSet(Across(w)) /\ Cardinality(Across(w)) \in Nat
  BY <1>0, <1>9, FS_Subset, FS_CardinalityType DEF LimiterTyped
<1>11. Cardinality(LiveKeys) <= Cardinality(Across(w)) /\ Cardinality(LiveKeys) \in Nat
  BY <1>0, <1>8, <1>10, FS_Subset, LiveIsFinite
<1>. QED  BY <1>0, <1>5, <1>9, <1>10, <1>11
\* Whatever the other parts do, the limiter keeps its invariant.
LEMMA LimiterInvariance == ASSUME Limiter!RequestLimitAssumption PROVE Limiter!Spec => []LimiterInv
<1>1. Limiter!Init => LimiterInv  BY LimiterInit
<1>2. LimiterInv /\ [Limiter!Next]_(Limiter!vars) => LimiterInv'  BY LimiterStep
<1>. QED  BY <1>1, <1>2, PTL DEF Limiter!Spec

\* For any number of keys, of budgets and of entries: no interval of a window's length
\* has more than two budgets of a key, and a key refused for its budget has had it.
THEOREM BudgetHolds == PartsSpec => []BudgetIsExact
<1>1. LimiterInv => BudgetIsExact
  BY PartsAssumption, BudgetFollows DEF BudgetIsExact
<1>. QED  BY <1>1, PartsAssumption, PartsFollow, LimiterInvariance, PTL

\* Who comes back when told to is refused only by a map that somebody entered since.
THEOREM RetryHolds == PartsSpec => RetryIsUseful
<1>. DEFINE Useful ==
  \A k \in Keys :
    liAnswer' # liAnswer /\ liAnswer'.key = k /\ ~liAnswer'.allowed /\ told[k] # 0 /\ now >= told[k]
    => /\ liAnswer'.full
       /\ \E j \in DOMAIN entries' : entries'[j].resetAt - Window >= told[k]
<1>1. LimiterInv /\ [Limiter!Next]_(Limiter!vars) => [Useful]_(Limiter!vars)
  BY PartsAssumption, RetryFollows
<1>2. [][Useful]_(Limiter!vars) => RetryIsUseful
  BY DEF RetryIsUseful, Limiter!RetryIsUseful
<1>. HIDE DEF Useful
<1>. QED  BY <1>1, <1>2, PartsAssumption, PartsFollow, LimiterInvariance, PTL DEF Limiter!Spec
-----------------------------------------------------------------------------
(* The connection pool. *)

-----------------------------------------------------------------------------
(* The pool: handlers, the connections they hold and the queue. *)

\* Where a handler has a connection, and where its transaction has a row.
Connected == {"begun", "locked", "asking", "second", "over"}
Owning    == {"locked", "asking", "second", "over"}

\* What a handler holds follows from where it is.
HoldsItsOwn(h) ==
  /\ held[h] = IF poPc[h] \in {"idle", "connecting"} THEN 0 ELSE IF poPc[h] = "second" THEN 2 ELSE 1
  /\ poPc[h] \in Connected => poRow[h] \in Rows
  /\ poPc[h] \in {"asking", "second", "over"} => h \in Nesting

\* A locked row belongs to a transaction that is running.
OwnersRun == \A r \in Rows : owner[r] # None => poPc[owner[r]] \in Owning

\* Who waits is in the queue, once.
QueueIsExact ==
  /\ \A i, j \in 1..Len(waiting) : waiting[i] = waiting[j] => i = j
  /\ \A h \in Workers : poPc[h] \in {"connecting", "asking"} <=> \E i \in 1..Len(waiting) : waiting[i] = h

\* Nobody waits while a connection is free, and there are no more than PoolMax.
PoolIsUsed ==
  /\ SumOf(held, Workers) <= PoolMax
  /\ waiting # <<>> => SumOf(held, Workers) = PoolMax

\* The types of the pool.
PoolTyped ==
  /\ poPc \in [Workers -> Pool!Steps] /\ held \in [Workers -> 0..2] /\ waiting \in Seq(Workers)
  /\ owner \in [Rows -> Workers \cup {None}] /\ poRow \in [Workers -> Rows \cup {None}]

\* The invariant of the pool.
PoolInv ==
  /\ PoolTyped /\ OwnersRun /\ QueueIsExact /\ PoolIsUsed
  /\ \A h \in Workers : HoldsItsOwn(h)

\* The component's names of the library's operators.
LEMMA InUseIsSum == Pool!InUse = SumOf(held, Workers)
  BY DEF Pool!InUse, Pool!MapThenSumSet, Pool!MapThenFoldSet, SumOf, MapThenSumSet, MapThenFoldSet

\* The component's own copies of these operators of FiniteSets are those of FiniteSets.
LEMMA PoolSets == \A S : (Pool!IsFiniteSet(S) <=> IsFiniteSet(S)) /\ Pool!Cardinality(S) = Cardinality(S)
  BY DEF Pool!IsFiniteSet, IsFiniteSet, Pool!Cardinality, Cardinality

\* At first nobody has a connection and nobody waits.
LEMMA PoolInit == ASSUME Pool!PoolUseAssumption, Pool!Init PROVE PoolInv
<1>1. SumOf(held, Workers) = 0
  BY SumZero, PoolSets DEF Pool!PoolUseAssumption, Pool!Init
<1>. QED
  BY <1>1
     DEF Pool!PoolUseAssumption, Pool!Init, PoolInv, PoolTyped, OwnersRun, QueueIsExact, PoolIsUsed,
     HoldsItsOwn, Connected, Pool!Steps

\* A connection comes back: it is free, or the first who waits has it.
GivenBack(h, step) ==
  /\ waiting = <<>> /\ waiting' = <<>>
  /\ held' = [x \in Workers |-> IF x = h THEN held[x] - 1 ELSE held[x]]
  /\ poPc' = [x \in Workers |-> IF x = h THEN step ELSE poPc[x]]

\* Or the first in the queue, g, has it at once.
Served(h, step, g) ==
  /\ waiting # <<>> /\ g = waiting[1] /\ g # h /\ waiting' = Tail(waiting)
  /\ held' = [x \in Workers |-> IF x = h THEN held[x] - 1 ELSE IF x = g THEN held[x] + 1 ELSE held[x]]
  /\ poPc' = [x \in Workers |-> IF x = h THEN step ELSE IF x = g THEN Pool!After(g) ELSE poPc[x]]

\* A release is one of the two.
LEMMA ReleaseIs ==
  ASSUME PoolInv, NEW h \in Workers, poPc[h] \notin {"idle", "connecting", "asking"}, NEW step,
         Pool!Release(h, 1, step)
  PROVE  GivenBack(h, step) \/ \E g \in Workers : Served(h, step, g)
<1>. DEFINE k == Pool!Min({1, Len(waiting)})
            served == {waiting[i] : i \in 1..k}
<1>. USE DEF PoolInv, PoolTyped
<1>1. /\ waiting' = SubSeq(waiting, k + 1, Len(waiting))
      /\ held' = [g \in Workers |-> held[g] + (IF g \in served THEN 1 ELSE 0) - (IF g = h THEN 1 ELSE 0)]
      /\ poPc' = [g \in Workers |-> IF g = h THEN step ELSE IF g \in served THEN Pool!After(g) ELSE poPc[g]]
  BY DEF Pool!Release
<1>2. Len(waiting) \in Nat  OBVIOUS
<1>3. k = IF Len(waiting) = 0 THEN 0 ELSE 1
  <2>. DEFINE S == {1, Len(waiting)}
  <2>1. \E x \in S : \A y \in S : x <= y  BY <1>2
  <2>2. k \in S /\ \A y \in S : k <= y
    <3>. HIDE DEF S
    <3>. QED  BY <2>1 DEF Pool!Min, S
  <2>. QED  BY <1>2, <2>2
<1>4. CASE waiting = <<>>
  <2>1. k = 0 /\ served = {}  BY <1>3, <1>4
  <2>. HIDE DEF k, served
  <2>2. waiting' = <<>>  BY <1>1, <1>4, <2>1
  <2>3. held' = [x \in Workers |-> IF x = h THEN held[x] - 1 ELSE held[x]]  BY <1>1, <2>1
  <2>4. poPc' = [x \in Workers |-> IF x = h THEN step ELSE poPc[x]]  BY <1>1, <2>1
  <2>. QED  BY <1>4, <2>2, <2>3, <2>4 DEF GivenBack
<1>5. CASE waiting # <<>>
  <2>0. Len(waiting) # 0  BY <1>5
  <2>1. k = 1 /\ served = {waiting[1]}
    <3>1. k = 1  BY <1>3, <2>0
    <3>. HIDE DEF k
    <3>. QED  BY <3>1
  <2>. DEFINE g == waiting[1]
  <2>2. g \in Workers /\ g # h
    BY <1>5 DEF QueueIsExact
  <2>. HIDE DEF k, served
  <2>3. waiting' = Tail(waiting)
    BY <1>1, <1>5, <2>1
  <2>. HIDE DEF g
  <2>4. held' = [x \in Workers |-> IF x = h THEN held[x] - 1 ELSE IF x = g THEN held[x] + 1 ELSE held[x]]
    <3>1. ASSUME NEW x \in Workers
          PROVE  held[x] + (IF x \in served THEN 1 ELSE 0) - (IF x = h THEN 1 ELSE 0)
                   = IF x = h THEN held[x] - 1 ELSE IF x = g THEN held[x] + 1 ELSE held[x]
      <4>1. held[x] \in 0..2 /\ (x \in served <=> x = g)  BY <2>1 DEF g
      <4>. QED  BY <2>2, <4>1
    <3>. QED  BY <1>1, <3>1
  <2>5. poPc' = [x \in Workers |-> IF x = h THEN step ELSE IF x = g THEN Pool!After(g) ELSE poPc[x]]
    BY <1>1, <2>1, <2>2 DEF g
  <2>. QED  BY <1>5, <2>2, <2>3, <2>4, <2>5 DEF Served, g
<1>. QED  BY <1>4, <1>5

\* The invariant after a release: the one who gave back is where he went, with the
\* rest of what he held, and rows are as they were or his are free.
LEMMA PoolReleaseStep ==
  ASSUME Pool!PoolUseAssumption, PoolInv, NEW h \in Workers, NEW step,
         \/ poPc[h] \in {"statement", "begun", "locked", "over"} /\ step = "idle"
         \/ poPc[h] = "second" /\ step = "over",
         Pool!Release(h, 1, step), poRow' = poRow,
         step = "over" => owner' = owner,
         step = "idle" => \/ poPc[h] = "statement" /\ owner' = owner
                          \/ owner' = [r \in Rows |-> IF owner[r] = h THEN None ELSE owner[r]]
  PROVE  PoolInv'
<1>. USE DEF PoolInv, PoolTyped
<1>. IsFiniteSet(Workers) /\ Nesting \subseteq Workers /\ None \notin Rows /\ None \notin Workers
  BY PoolSets DEF Pool!PoolUseAssumption
<1>0. GivenBack(h, step) \/ \E g \in Workers : Served(h, step, g)
  BY ReleaseIs
<1>1. CASE GivenBack(h, step)
  <2>1. PoolTyped'
    BY <1>1 DEF GivenBack, Pool!Steps, HoldsItsOwn
  <2>2. OwnersRun'
    BY <1>1 DEF GivenBack, OwnersRun, Owning
  <2>3. QueueIsExact'
    BY <1>1 DEF GivenBack, QueueIsExact
  <2>4. PoolIsUsed'
    <3>1. SumOf(held', Workers) = SumOf(held, Workers) - held[h] + held'[h]
      BY <1>1, SumUpdate DEF GivenBack
    <3>2. held'[h] = held[h] - 1 /\ SumOf(held, Workers) \in Int  BY <1>1, SumInt DEF GivenBack
    <3>3. SumOf(held', Workers) = SumOf(held, Workers) - 1  BY <3>1, <3>2
    <3>4. waiting' = <<>>  BY <1>1 DEF GivenBack
    <3>. QED  BY <3>2, <3>3, <3>4 DEF PoolIsUsed, Pool!PoolUseAssumption
  <2>5. ASSUME NEW x \in Workers PROVE HoldsItsOwn(x)'
    BY <1>1 DEF GivenBack, HoldsItsOwn, Connected
  <2>. QED  BY <2>1, <2>2, <2>3, <2>4, <2>5
<1>2. ASSUME NEW g \in Workers, Served(h, step, g) PROVE PoolInv'
  <2>0. poPc[g] \in {"connecting", "asking"} /\ g # h
    BY <1>2 DEF Served, QueueIsExact
  <2>1. PoolTyped'
    BY <1>2, <2>0 DEF Served, Pool!Steps, HoldsItsOwn, Pool!After
  <2>2. OwnersRun'
    BY <1>2, <2>0 DEF Served, OwnersRun, Owning, Pool!After
  <2>3. QueueIsExact'
    <3>1. /\ Len(waiting) \in Nat \ {0} /\ Len(waiting') = Len(waiting) - 1 /\ waiting[1] = g
          /\ \A i \in 1..Len(waiting') : waiting'[i] = waiting[i + 1]
      BY <1>2 DEF Served
    <3>2. \A i, j \in 1..Len(waiting') : waiting'[i] = waiting'[j] => i = j
      <4>1. ASSUME NEW i \in 1..Len(waiting'), NEW j \in 1..Len(waiting'), waiting'[i] = waiting'[j]
            PROVE  i = j
        <5>1. i + 1 \in 1..Len(waiting) /\ j + 1 \in 1..Len(waiting)  BY <3>1
        <5>2. waiting[i + 1] = waiting[j + 1]  BY <3>1, <4>1
        <5>3. i + 1 = j + 1  BY <5>1, <5>2 DEF QueueIsExact
        <5>. QED  BY <5>3
      <4>. QED  BY <4>1
    <3>3. ASSUME NEW x \in Workers
          PROVE  poPc'[x] \in {"connecting", "asking"} <=> \E i \in 1..Len(waiting') : waiting'[i] = x
      <4>1. (\E i \in 1..Len(waiting') : waiting'[i] = x) <=> \E i \in 2..Len(waiting) : waiting[i] = x
        <5>1. \A i \in 2..Len(waiting) : i - 1 \in 1..Len(waiting') /\ waiting'[i - 1] = waiting[i]
          BY <3>1
        <5>2. \A i \in 1..Len(waiting') : i + 1 \in 2..Len(waiting)
          BY <3>1
        <5>. QED  BY <3>1, <5>1, <5>2
      <4>2. (\E i \in 2..Len(waiting) : waiting[i] = x) <=> x # g /\ \E i \in 1..Len(waiting) : waiting[i] = x
        BY <3>1 DEF QueueIsExact
      <4>3. poPc'[x] \in {"connecting", "asking"} <=> x # g /\ poPc[x] \in {"connecting", "asking"}
        BY <1>2, <2>0 DEF Served, Pool!After
      <4>. QED  BY <4>1, <4>2, <4>3 DEF QueueIsExact
    <3>. QED  BY <3>2, <3>3 DEF QueueIsExact
  <2>4. PoolIsUsed'
    <3>. DEFINE mid == [held EXCEPT ![h] = @ - 1]
    <3>1. SumOf(mid, Workers) = SumOf(held, Workers) - held[h] + mid[h]
      <4>1. \A x \in Workers : held[x] \in Int  OBVIOUS
      <4>2. mid[h] \in Int /\ \A y \in Workers \ {h} : mid[y] = held[y]  OBVIOUS
      <4>. HIDE DEF mid
      <4>. QED  BY <4>1, <4>2, SumUpdate
    <3>2. SumOf(held', Workers) = SumOf(mid, Workers) - mid[g] + held'[g]
      <4>1. \A x \in Workers : mid[x] \in Int  OBVIOUS
      <4>2. held'[g] \in Int /\ \A y \in Workers \ {g} : held'[y] = mid[y]
        BY <1>2 DEF Served
      <4>. HIDE DEF mid
      <4>. QED  BY <4>1, <4>2, SumUpdate
    <3>3. SumOf(held', Workers) = SumOf(held, Workers)
      <4>1. SumOf(held, Workers) \in Int  BY SumInt
      <4>2. mid[h] = held[h] - 1 /\ mid[g] = held[g] /\ held'[g] = held[g] + 1
        BY <1>2, <2>0 DEF Served
      <4>. HIDE DEF mid
      <4>. QED  BY <3>1, <3>2, <4>1, <4>2
    <3>. QED  BY <1>2, <3>3 DEF Served, PoolIsUsed
  <2>5. ASSUME NEW x \in Workers PROVE HoldsItsOwn(x)'
    BY <1>2, <2>0 DEF Served, HoldsItsOwn, Connected, Pool!After
  <2>. QED  BY <2>1, <2>2, <2>3, <2>4, <2>5
<1>. QED  BY <1>0, <1>1, <1>2

\* A connection at once, or a place at the end of the queue.
LEMMA PoolAskStep ==
  ASSUME Pool!PoolUseAssumption, PoolInv, NEW h \in Workers, NEW next, NEW queued,
         Pool!Ask(h, queued, next),
         \/ poPc[h] = "idle" /\ queued = "connecting"
            /\ \/ next = "statement"
               \/ next = "begun" /\ poRow'[h] \in Rows
         \/ poPc[h] = "locked" /\ queued = "asking" /\ next = "second" /\ h \in Nesting /\ poRow' = poRow,
         poRow' \in [Workers -> Rows \cup {None}], \A x \in Workers \ {h} : poRow'[x] = poRow[x],
         \/ owner' = owner
         \/ owner' = [owner EXCEPT ![poRow[h]] = None]
  PROVE  PoolInv'
<1>. USE DEF PoolInv, PoolTyped
<1>. IsFiniteSet(Workers) /\ Nesting \subseteq Workers /\ None \notin Rows /\ None \notin Workers
     /\ PoolMax \in Nat
  BY PoolSets DEF Pool!PoolUseAssumption
<1>. \A x \in Workers : held[x] \in Int
  OBVIOUS
<1>0. SumOf(held, Workers) \in Int
  BY SumInt
<1>1. CASE SumOf(held, Workers) < PoolMax /\ held' = [held EXCEPT ![h] = @ + 1]
           /\ poPc' = [poPc EXCEPT ![h] = next] /\ waiting' = waiting
  <2>0. waiting = <<>>  BY <1>0, <1>1 DEF PoolIsUsed
  <2>1. PoolTyped'
    BY <1>1 DEF Pool!Steps, HoldsItsOwn
  <2>2. OwnersRun'
    BY <1>1 DEF OwnersRun, Owning
  <2>3. QueueIsExact'
    BY <1>1, <2>0 DEF QueueIsExact
  <2>4. PoolIsUsed'
    <3>1. held'[h] = held[h] + 1 /\ held'[h] \in Int /\ \A y \in Workers \ {h} : held'[y] = held[y]
      BY <1>1
    <3>2. SumOf(held', Workers) = SumOf(held, Workers) - held[h] + held'[h]
      BY <3>1, SumUpdate
    <3>3. SumOf(held', Workers) = SumOf(held, Workers) + 1  BY <1>0, <3>1, <3>2
    <3>. QED  BY <1>0, <1>1, <2>0, <3>3 DEF PoolIsUsed
  <2>5. ASSUME NEW x \in Workers PROVE HoldsItsOwn(x)'
    BY <1>1 DEF HoldsItsOwn, Connected
  <2>. QED  BY <2>1, <2>2, <2>3, <2>4, <2>5
<1>2. CASE SumOf(held, Workers) = PoolMax /\ waiting' = Append(waiting, h)
           /\ poPc' = [poPc EXCEPT ![h] = queued] /\ held' = held
  <2>1. PoolTyped'
    <3>1. waiting' \in Seq(Workers)  BY <1>2
    <3>2. poPc' \in [Workers -> Pool!Steps]  BY <1>2 DEF Pool!Steps
    <3>3. owner' \in [Rows -> Workers \cup {None}]  OBVIOUS
    <3>. QED  BY <1>2, <3>1, <3>2, <3>3
  <2>2. OwnersRun'
    BY <1>2 DEF OwnersRun, Owning
  <2>3. QueueIsExact'
    <3>1. /\ Len(waiting) \in Nat /\ Len(waiting') = Len(waiting) + 1
          /\ waiting'[Len(waiting) + 1] = h
          /\ \A i \in 1..Len(waiting) : waiting'[i] = waiting[i]
      BY <1>2
    <3>0. 1..Len(waiting') = (1..Len(waiting)) \cup {Len(waiting) + 1}
      BY <3>1
    <3>2. \A i \in 1..Len(waiting) : waiting[i] # h
      BY DEF QueueIsExact
    <3>3. ASSUME NEW i \in 1..Len(waiting'), NEW j \in 1..Len(waiting'), waiting'[i] = waiting'[j]
          PROVE  i = j
      <4>1. CASE i \in 1..Len(waiting) /\ j \in 1..Len(waiting)
        <5>1. waiting[i] = waiting[j]  BY <3>1, <3>3, <4>1
        <5>. QED  BY <4>1, <5>1 DEF QueueIsExact
      <4>2. CASE i = Len(waiting) + 1 /\ j \in 1..Len(waiting)  BY <3>1, <3>2, <3>3, <4>2
      <4>3. CASE i \in 1..Len(waiting) /\ j = Len(waiting) + 1  BY <3>1, <3>2, <3>3, <4>3
      <4>4. CASE i = Len(waiting) + 1 /\ j = Len(waiting) + 1  BY <4>4
      <4>. QED  BY <3>0, <4>1, <4>2, <4>3, <4>4
    <3>4. ASSUME NEW x \in Workers
          PROVE  poPc'[x] \in {"connecting", "asking"} <=> \E i \in 1..Len(waiting') : waiting'[i] = x
      <4>1. (\E i \in 1..Len(waiting') : waiting'[i] = x) <=> x = h \/ \E i \in 1..Len(waiting) : waiting[i] = x
        BY <3>0, <3>1
      <4>. QED  BY <1>2, <4>1 DEF QueueIsExact
    <3>. QED  BY <3>3, <3>4 DEF QueueIsExact
  <2>4. PoolIsUsed'
    BY <1>0, <1>2 DEF PoolIsUsed
  <2>5. ASSUME NEW x \in Workers PROVE HoldsItsOwn(x)'
    BY <1>2 DEF HoldsItsOwn, Connected
  <2>. QED  BY <2>1, <2>2, <2>3, <2>4, <2>5
<1>. QED  BY <1>1, <1>2, InUseIsSum DEF Pool!Ask, Pool!Goto

\* Every step of the handlers keeps the invariant.
LEMMA PoolStep == ASSUME Pool!PoolUseAssumption, PoolInv, [Pool!Next]_(Pool!vars) PROVE PoolInv'
<1>. USE DEF PoolInv, PoolTyped
<1>1. ASSUME NEW h \in Workers, Pool!Arrive(h) PROVE PoolInv'
  <2>1. PICK r \in Rows \cup {None} :
          /\ r = None => h \notin Nesting
          /\ poRow' = [poRow EXCEPT ![h] = r]
          /\ Pool!Ask(h, "connecting", IF r = None THEN "statement" ELSE "begun")
    BY <1>1 DEF Pool!Arrive
  <2>2. poPc[h] = "idle" /\ owner' = owner
    BY <1>1 DEF Pool!Arrive
  <2>3. r # None => poRow'[h] \in Rows  BY <2>1
  <2>4. CASE r = None  BY <2>1, <2>2, <2>4, PoolAskStep
  <2>5. CASE r # None  BY <2>1, <2>2, <2>3, <2>5, PoolAskStep
  <2>. QED  BY <2>4, <2>5
<1>2. ASSUME NEW h \in Workers, Pool!Finish(h) PROVE PoolInv'
  BY <1>2, PoolReleaseStep DEF Pool!Finish
<1>3. ASSUME NEW h \in Workers, Pool!LockRow(h) PROVE PoolInv'
  BY <1>3
     DEF Pool!LockRow, Pool!Goto, OwnersRun, QueueIsExact, PoolIsUsed, HoldsItsOwn, Connected, Owning,
     Pool!Steps, Pool!PoolUseAssumption
<1>4. ASSUME NEW h \in Workers, Pool!AskAgain(h) PROVE PoolInv'
  BY <1>4, PoolAskStep DEF Pool!AskAgain
<1>5. ASSUME NEW h \in Workers, Pool!SecondDone(h) PROVE PoolInv'
  BY <1>5, PoolReleaseStep DEF Pool!SecondDone
<1>6. ASSUME NEW h \in Workers, Pool!End(h) PROVE PoolInv'
  BY <1>6, PoolReleaseStep DEF Pool!End
<1>7. CASE UNCHANGED Pool!vars
  BY <1>7 DEF Pool!vars, OwnersRun, QueueIsExact, PoolIsUsed, HoldsItsOwn
<1>. QED  BY <1>1, <1>2, <1>3, <1>4, <1>5, <1>6, <1>7 DEF Pool!Next

\* Whatever the other parts do, the pool keeps its invariant.
LEMMA PoolInvariance == ASSUME Pool!PoolUseAssumption PROVE Pool!Spec => []PoolInv
  BY PoolInit, PoolStep, PTL DEF Pool!Spec

\* For any number of handlers, rows and connections: the pool stops only when a handler
\* that holds a connection waits for a second one.
LEMMA OnlyNestingStops == ASSUME Pool!PoolUseAssumption, PoolInv PROVE Pool!StuckOnlyByNesting
<1>. USE DEF PoolInv, PoolTyped
<1>. IsFiniteSet(Workers) /\ PoolMax \in Nat \ {0} /\ None \notin Workers
  BY PoolSets DEF Pool!PoolUseAssumption
<1>. SUFFICES ASSUME Pool!Stuck
              PROVE  Pool!InUse = PoolMax /\ \E h \in Nesting : held[h] = 1 /\ poPc[h] = "asking"
  BY DEF Pool!StuckOnlyByNesting
<1>1. SumOf(held, Workers) = PoolMax  BY DEF Pool!Stuck, PoolIsUsed
<1>2. PICK h \in Workers : held[h] # 0  BY <1>1, SumZero
<1>3. held[h] > 0  BY <1>2
<1>4. Pool!Blocked(h)  BY <1>3 DEF Pool!Stuck
<1>5. PICK g \in Workers : poPc[g] = "asking"
  <2>1. CASE poPc[h] = "asking"  BY <2>1
  <2>2. CASE poPc[h] = "begun" /\ owner[poRow[h]] # None
    <3>. DEFINE o == owner[poRow[h]]
    <3>1. o \in Workers /\ poPc[o] \in Owning  BY <2>2 DEF HoldsItsOwn, Connected, OwnersRun
    <3>2. held[o] > 0  BY <3>1 DEF HoldsItsOwn, Owning
    <3>3. Pool!Blocked(o)  BY <3>1, <3>2 DEF Pool!Stuck
    <3>. QED  BY <3>1, <3>3 DEF Pool!Blocked, Owning
  <2>. QED  BY <1>4, <2>1, <2>2 DEF Pool!Blocked
<1>6. g \in Nesting /\ held[g] = 1  BY <1>5 DEF HoldsItsOwn
<1>. QED  BY <1>1, <1>5, <1>6, InUseIsSum

\* For any number of handlers, rows and connections: the pool stops only when a handler
\* that holds a connection waits for a second one.
THEOREM PoolStops == PartsSpec => []StuckOnlyByNesting
<1>1. PoolInv => StuckOnlyByNesting
  BY PartsAssumption, OnlyNestingStops DEF StuckOnlyByNesting
<1>. QED  BY <1>1, PartsAssumption, PartsFollow, PoolInvariance, PTL
-----------------------------------------------------------------------------
(* The heartbeat. *)

\* The requests that hold a slot of a peer, and all that hold one.
Holders(p) == {r \in Keys : hbPc[r] \in Beat!Holding /\ peer[r] = p}
AllHolders == {r \in Keys : hbPc[r] \in Beat!Holding}

\* Where a request has begun and not answered.
BeatRunning == Beat!Steps \ {"new", "done"}

\* A running request has a peer and a device.
IsKnown(r) == hbPc[r] \in BeatRunning => peer[r] \in Peers /\ device[r] \in Devices

\* What its statements returned was true when they were evaluated.
ResultWasTrue(r) ==
  /\ hbPc[r] \in BeatRunning => Beat!Authenticated(device[r]) \in was[r]
  /\ hbPc[r] \in {"found", "rechecked"} =>
       result[r] \in Beat!Verdicts \cup {"error"} /\ (result[r] \in Beat!Verdicts => result[r] \in was[r])
  /\ hbPc[r] = "updated" => /\ result[r] \in {"one", "none", "error"}
                            /\ result[r] = "one" => "authenticated" \in was[r]
  /\ hbPc[r] \in {"recheck", "rechecked"} \/ (hbPc[r] = "updated" /\ result[r] = "none") =>
       \E v \in was[r] : v # "authenticated"

\* What it answers was true while it ran.
AnswerIsTimely(r) ==
  /\ hbPc[r] # "done" => hbAnswer[r] = None
  /\ hbAnswer[r] = "ok" => "authenticated" \in was[r]
  /\ hbAnswer[r] \in {"device_revoked", "account_inactive"} => hbAnswer[r] \in was[r]
  /\ hbAnswer[r] = "invalid_device_credential" =>
       hbAnswer[r] \in was[r] \/ \E u, v \in was[r] : u # v

\* What is true of every request.
Sound(r) == IsKnown(r) /\ ResultWasTrue(r) /\ AnswerIsTimely(r)

\* SlotsAreExact, in the terms of the proof.
SlotsExact ==
  /\ activeTotal = Cardinality(AllHolders)
  /\ \A p \in Peers : Beat!CountOf(p) = Cardinality(Holders(p))
  /\ \A p \in DOMAIN activeByPeer : activeByPeer[p] > 0

\* The invariant of the heartbeat.
BeatInv == Beat!TypeOK /\ SlotsExact /\ \A r \in Keys : Sound(r)

\* The component's own copies of these operators of FiniteSets are those of FiniteSets.
LEMMA BeatSets == \A S : Beat!Cardinality(S) = Cardinality(S) /\ (Beat!IsFiniteSet(S) <=> IsFiniteSet(S))
  BY DEF Beat!Cardinality, Cardinality, Beat!IsFiniteSet, IsFiniteSet

\* Both say the same.
LEMMA SameSlots == Beat!SlotsAreExact <=> SlotsExact
  BY BeatSets DEF Beat!SlotsAreExact, SlotsExact, Holders, AllHolders

\* What a device is told is what a lookup would find.
LEMMA TruthIsAuthenticated == \A d \in Devices : Beat!Truth(d) = Beat!Authenticated(d) /\ Beat!Authenticated(d) \in Beat!Verdicts
  BY DEF Beat!Truth, Beat!Authenticated, Beat!Verdicts

\* Counting: one request more, or one less, in a set of requests.
LEMMA OneMore ==
  ASSUME Beat!HeartbeatAssumption, NEW S \in SUBSET Keys, NEW r \in Keys \ S
  PROVE  Cardinality(S \cup {r}) = Cardinality(S) + 1 /\ Cardinality(S) \in Nat
<1>1. IsFiniteSet(S)
  BY BeatSets, FS_Subset DEF Beat!HeartbeatAssumption
<1> QED
  BY <1>1, FS_AddElement, FS_CardinalityType

\* One request less.
LEMMA OneLess ==
  ASSUME Beat!HeartbeatAssumption, NEW S \in SUBSET Keys, NEW r \in S
  PROVE  Cardinality(S \ {r}) = Cardinality(S) - 1 /\ Cardinality(S) \in Nat \ {0}
<1> DEFINE rest == S \ {r}
<1>1. rest \in SUBSET Keys /\ r \in Keys \ rest /\ rest \cup {r} = S
  OBVIOUS
<1>2. Cardinality(rest \cup {r}) = Cardinality(rest) + 1 /\ Cardinality(rest) \in Nat
  BY <1>1, OneMore
<1>3. Cardinality(S) = Cardinality(rest) + 1
  BY <1>1, <1>2
<1> HIDE DEF rest
<1>4. Cardinality(rest) = Cardinality(S) - 1 /\ Cardinality(S) \in Nat \ {0}
  BY <1>2, <1>3
<1> QED
  BY <1>4 DEF rest

\* tryAcquire, with the lookup it lets start.
LEMMA Taken ==
  ASSUME Beat!HeartbeatAssumption, SlotsExact, Beat!TypeOK, NEW r \in Keys, NEW p \in Peers, Beat!Acquire(p),
         hbPc[r] \notin Beat!Holding, hbPc'[r] \in Beat!Holding, peer'[r] = p,
         \A q \in Keys \ {r} : hbPc'[q] = hbPc[q] /\ peer'[q] = peer[q]
  PROVE  SlotsExact'
<1>1. AllHolders' = AllHolders \cup {r} /\ r \notin AllHolders
  BY DEF AllHolders
<1>2. Holders(p)' = Holders(p) \cup {r} /\ r \notin Holders(p)
  BY DEF Holders
<1>3. \A q \in Peers \ {p} : Holders(q)' = Holders(q)
  BY DEF Holders
<1>4. activeTotal' = Cardinality(AllHolders')
  BY <1>1, OneMore DEF SlotsExact, Beat!Acquire, AllHolders
<1>5. \A q \in Peers : Beat!CountOf(q)' = Beat!CountOf(q) + IF q = p THEN 1 ELSE 0
  BY DEF Beat!Acquire, Beat!CountOf, Beat!TypeOK
<1>6. ASSUME NEW q \in Peers PROVE Beat!CountOf(q)' = Cardinality(Holders(q))'
  <2>1. Beat!CountOf(q) = Cardinality(Holders(q)) /\ Cardinality(Holders(p)) \in Nat
    BY <1>2, OneMore DEF SlotsExact, Holders
  <2>2. CASE q = p
    BY <1>2, <1>5, <2>1, <2>2, OneMore DEF Holders
  <2>3. CASE q # p
    <3>1. Beat!CountOf(q)' = Beat!CountOf(q)
      BY <1>5, <2>3 DEF Beat!CountOf, Beat!TypeOK
    <3> QED
      BY <1>3, <2>1, <2>3, <3>1
  <2> QED
    BY <2>2, <2>3
<1>7. \A q \in DOMAIN activeByPeer' : activeByPeer'[q] > 0
  BY DEF Beat!Acquire, Beat!CountOf, Beat!TypeOK, SlotsExact
<1> QED
  BY <1>4, <1>6, <1>7 DEF SlotsExact

\* The release when a lookup is back, whatever it returned.
LEMMA Freed ==
  ASSUME Beat!HeartbeatAssumption, SlotsExact, Beat!TypeOK, NEW r \in Keys, peer[r] \in Peers, Beat!Release(r),
         hbPc[r] \in Beat!Holding, hbPc'[r] \notin Beat!Holding,
         \A q \in Keys \ {r} : hbPc'[q] = hbPc[q] /\ peer'[q] = peer[q]
  PROVE  SlotsExact' /\ activeTotal' \in Nat /\ DOMAIN activeByPeer' \subseteq Peers
         /\ \A q \in DOMAIN activeByPeer' : activeByPeer'[q] \in Nat
<1>1. PICK p \in Peers : p = peer[r]
  OBVIOUS
<1>2. AllHolders' = AllHolders \ {r} /\ r \in AllHolders
  BY DEF AllHolders
<1>3. Holders(p)' = Holders(p) \ {r} /\ r \in Holders(p)
  BY <1>1 DEF Holders
<1>4. \A q \in Peers \ {p} : Holders(q)' = Holders(q)
  BY <1>1 DEF Holders
<1>5. /\ activeByPeer' = [q \in DOMAIN activeByPeer \ {o \in {p} : Beat!CountOf(p) - 1 = 0} |->
                            IF q = p THEN Beat!CountOf(p) - 1 ELSE activeByPeer[q]]
      /\ activeTotal' = activeTotal - 1
  BY <1>1 DEF Beat!Release
<1>6. activeTotal' = Cardinality(AllHolders') /\ activeTotal' \in Nat
  <2>1. Cardinality(AllHolders \ {r}) = Cardinality(AllHolders) - 1 /\ Cardinality(AllHolders) \in Nat \ {0}
    BY <1>2, OneLess DEF AllHolders
  <2>2. activeTotal = Cardinality(AllHolders)
    BY DEF SlotsExact
  <2> QED
    BY <1>2, <1>5, <2>1, <2>2
<1>7. /\ Beat!CountOf(p) = Cardinality(Holders(p)) /\ Beat!CountOf(p) \in Nat \ {0}
      /\ Cardinality(Holders(p) \ {r}) = Beat!CountOf(p) - 1
  <2>1. Cardinality(Holders(p) \ {r}) = Cardinality(Holders(p)) - 1 /\ Cardinality(Holders(p)) \in Nat \ {0}
    BY <1>3, OneLess DEF Holders
  <2>2. Beat!CountOf(p) = Cardinality(Holders(p))
    BY DEF SlotsExact
  <2> QED
    BY <2>1, <2>2
<1>8. p \in DOMAIN activeByPeer
  BY <1>7 DEF Beat!CountOf
<1>9. Beat!CountOf(p)' = Beat!CountOf(p) - 1 /\ \A q \in Peers \ {p} : Beat!CountOf(q)' = Beat!CountOf(q)
  BY <1>5, <1>7, <1>8 DEF Beat!CountOf
<1>10. \A q \in Peers : Beat!CountOf(q)' = Cardinality(Holders(q))'
  <2>1. Beat!CountOf(p)' = Cardinality(Holders(p))'
    BY <1>3, <1>7, <1>9
  <2>2. ASSUME NEW q \in Peers \ {p} PROVE Beat!CountOf(q)' = Cardinality(Holders(q))'
    <3>1. Beat!CountOf(q) = Cardinality(Holders(q)) /\ Holders(q)' = Holders(q) /\ Beat!CountOf(q)' = Beat!CountOf(q)
      BY <1>4, <1>9 DEF SlotsExact
    <3> QED
      BY <3>1
  <2> QED
    BY <2>1, <2>2
<1>11. \A q \in DOMAIN activeByPeer' : q \in Peers /\ activeByPeer'[q] \in Nat /\ activeByPeer'[q] > 0
  BY <1>5, <1>7 DEF SlotsExact, Beat!TypeOK
<1> QED
  BY <1>6, <1>10, <1>11 DEF SlotsExact

\* Nobody starts or ends a lookup.
LEMMA Kept ==
  ASSUME SlotsExact, UNCHANGED Beat!slotVars,
         \A q \in Keys : (hbPc'[q] \in Beat!Holding <=> hbPc[q] \in Beat!Holding)
                             /\ (hbPc[q] \in Beat!Holding => peer'[q] = peer[q])
  PROVE  SlotsExact'
<1>1. AllHolders' = AllHolders /\ \A p \in Peers : Holders(p)' = Holders(p)
  BY DEF AllHolders, Holders
<1>2. \A p \in Peers : Beat!CountOf(p)' = Beat!CountOf(p)
  BY DEF Beat!slotVars, Beat!CountOf
<1> QED
  BY <1>1, <1>2 DEF SlotsExact, Beat!slotVars

-----------------------------------------------------------------------------
\* A request goes on, or answers; the others are where they were.
LEMMA ContinueIs ==
  ASSUME Beat!TypeOK, NEW r \in Keys, NEW step \in Beat!Steps,
         NEW value \in Beat!Verdicts \cup {"one", "none", "error", None}, Beat!Continue(r, step, value)
  PROVE  /\ hbPc' \in [Keys -> Beat!Steps] /\ hbPc'[r] = step
         /\ result' \in [Keys -> Beat!Verdicts \cup {"one", "none", "error", None}] /\ result'[r] = value
         /\ \A q \in Keys \ {r} : hbPc'[q] = hbPc[q] /\ result'[q] = result[q]
         /\ UNCHANGED <<peer, device, hbAnswer>>
  BY DEF Beat!TypeOK, Beat!Continue, Beat!Goto

\* A reply is the answer, and the request is done.
LEMMA ReplyIs ==
  ASSUME Beat!TypeOK, NEW r \in Keys, NEW a \in Beat!Answers, Beat!Reply(r, a)
  PROVE  /\ hbPc' \in [Keys -> Beat!Steps] /\ hbPc'[r] = "done"
         /\ result' \in [Keys -> Beat!Verdicts \cup {"one", "none", "error", None}]
         /\ hbAnswer' \in [Keys -> Beat!Answers \cup {None}] /\ hbAnswer'[r] = a
         /\ peer' \in [Keys -> Peers \cup {None}]
         /\ \A q \in Keys \ {r} :
              hbPc'[q] = hbPc[q] /\ result'[q] = result[q] /\ hbAnswer'[q] = hbAnswer[q] /\ peer'[q] = peer[q]
         /\ UNCHANGED device
<1>1. hbPc' \in [Keys -> Beat!Steps] /\ hbPc'[r] = "done" /\ \A q \in Keys \ {r} : hbPc'[q] = hbPc[q]
  BY DEF Beat!TypeOK, Beat!Reply, Beat!Goto, Beat!Steps
<1>2. result' \in [Keys -> Beat!Verdicts \cup {"one", "none", "error", None}]
      /\ \A q \in Keys \ {r} : result'[q] = result[q]
  BY DEF Beat!TypeOK, Beat!Reply
<1>3. hbAnswer' \in [Keys -> Beat!Answers \cup {None}] /\ hbAnswer'[r] = a /\ \A q \in Keys \ {r} : hbAnswer'[q] = hbAnswer[q]
  BY DEF Beat!TypeOK, Beat!Reply
<1>4. peer' \in [Keys -> Peers \cup {None}] /\ (\A q \in Keys \ {r} : peer'[q] = peer[q]) /\ UNCHANGED device
  BY DEF Beat!TypeOK, Beat!Reply
<1> QED
  BY <1>1, <1>2, <1>3, <1>4

\* What a step of one request leaves true of the others.
LEMMA OthersStay ==
  ASSUME BeatInv, NEW r \in Keys, UNCHANGED Beat!tableVars,
         \A q \in Keys \ {r} : /\ hbPc'[q] = hbPc[q] /\ peer'[q] = peer[q] /\ device'[q] = device[q]
                                   /\ result'[q] = result[q] /\ hbAnswer'[q] = hbAnswer[q] /\ was'[q] = was[q],
         Beat!TypeOK', SlotsExact', Sound(r)'
  PROVE  BeatInv'
<1>1. ASSUME NEW q \in Keys \ {r} PROVE Sound(q)'
  <2>1. Beat!Authenticated(device[q])' = Beat!Authenticated(device[q])
    BY DEF Beat!Authenticated, Beat!tableVars
  <2> QED
    BY <2>1 DEF BeatInv, Sound, IsKnown, ResultWasTrue, AnswerIsTimely
<1> QED
  BY <1>1 DEF BeatInv

\* A request gets a slot and starts its lookup, or is refused.
LEMMA StartStep ==
  ASSUME Beat!HeartbeatAssumption, BeatInv, NEW r \in Keys, NEW p \in Peers, NEW d \in Devices, Beat!Start(r, p, d)
  PROVE  BeatInv'
<1>1. /\ hbPc[r] = "new" /\ device' = [device EXCEPT ![r] = d] /\ was' = [was EXCEPT ![r] = {Beat!Truth(d)}]
      /\ UNCHANGED <<result, Beat!tableVars>>
  BY DEF Beat!Start
<1>2. Beat!Truth(d) = Beat!Authenticated(d) /\ Beat!Authenticated(d) \in Beat!Verdicts
  BY TruthIsAuthenticated
<1>3. Beat!Authenticated(d)' = Beat!Authenticated(d)
  BY <1>1 DEF Beat!Authenticated, Beat!tableVars
<1>4. /\ device' \in [Keys -> Devices \cup {None}] /\ device'[r] = d
      /\ was' \in [Keys -> SUBSET Beat!Verdicts] /\ was'[r] = {Beat!Authenticated(d)}
      /\ \A q \in Keys \ {r} : device'[q] = device[q] /\ was'[q] = was[q]
  BY <1>1, <1>2 DEF BeatInv, Beat!TypeOK
<1>5. CASE Beat!Acquire(p) /\ Beat!Goto(r, "lookup") /\ peer' = [peer EXCEPT ![r] = p] /\ UNCHANGED hbAnswer
  <2>1. /\ hbPc' \in [Keys -> Beat!Steps] /\ hbPc'[r] = "lookup" /\ peer' \in [Keys -> Peers \cup {None}] /\ peer'[r] = p
        /\ \A q \in Keys \ {r} : hbPc'[q] = hbPc[q] /\ peer'[q] = peer[q]
    BY <1>5 DEF BeatInv, Beat!TypeOK, Beat!Goto, Beat!Steps
  <2>2. SlotsExact'
    BY <1>1, <1>5, <2>1, Taken DEF BeatInv, Beat!Holding
  <2>3. activeTotal' \in Nat /\ DOMAIN activeByPeer' \subseteq Peers /\ \A q \in DOMAIN activeByPeer' : activeByPeer'[q] \in Nat
    BY <1>5 DEF Beat!Acquire, Beat!CountOf, BeatInv, Beat!TypeOK
  <2>4. Beat!TypeOK'
    BY <1>1, <1>4, <1>5, <2>1, <2>3 DEF BeatInv, Beat!TypeOK, Beat!tableVars
  <2>5. Beat!Authenticated(device[r])' \in was'[r]
    BY <1>3, <1>4
  <2>6. hbAnswer'[r] = None
    BY <1>1, <1>5 DEF BeatInv, Sound, AnswerIsTimely
  <2>7. Sound(r)'
    BY <1>4, <2>1, <2>5, <2>6
       DEF Beat!HeartbeatAssumption, Beat!Answers, Beat!Verdicts, Sound, IsKnown, ResultWasTrue,
          AnswerIsTimely
  <2> QED
    BY <1>1, <1>4, <1>5, <2>1, <2>2, <2>4, <2>7, OthersStay
<1>6. CASE Beat!Goto(r, "done") /\ hbAnswer' = [hbAnswer EXCEPT ![r] = "saturated"] /\ UNCHANGED <<peer, Beat!slotVars>>
  <2>1. /\ hbPc' \in [Keys -> Beat!Steps] /\ hbPc'[r] = "done" /\ hbAnswer' \in [Keys -> Beat!Answers \cup {None}]
        /\ hbAnswer'[r] = "saturated" /\ \A q \in Keys \ {r} : hbPc'[q] = hbPc[q] /\ hbAnswer'[q] = hbAnswer[q]
    BY <1>6 DEF BeatInv, Beat!TypeOK, Beat!Goto, Beat!Steps, Beat!Answers
  <2>2. SlotsExact'
    BY <1>1, <1>6, <2>1, Kept DEF BeatInv, Beat!Holding
  <2>3. Beat!TypeOK'
    BY <1>1, <1>4, <1>6, <2>1 DEF BeatInv, Beat!TypeOK, Beat!tableVars, Beat!slotVars
  <2>4. Sound(r)'
    BY <2>1 DEF Sound, IsKnown, ResultWasTrue, AnswerIsTimely, BeatRunning
  <2> QED
    BY <1>1, <1>4, <1>6, <2>1, <2>2, <2>3, <2>4, OthersStay
<1> QED
  BY <1>5, <1>6 DEF Beat!Start

\* PostgreSQL evaluates a statement: its result is true at this moment.
LEMMA StatementStep ==
  ASSUME Beat!HeartbeatAssumption, BeatInv, NEW r \in Keys,
         Beat!Lookup(r, "lookup", "found") \/ Beat!Lookup(r, "recheck", "rechecked") \/ Beat!Update(r)
  PROVE  BeatInv'
<1>1. PICK step \in {"found", "rechecked", "updated"}, value \in Beat!Verdicts \cup {"one", "none", "error", None} :
        /\ Beat!Continue(r, step, value) /\ UNCHANGED <<Beat!slotVars, Beat!tableVars, was>>
        /\ step = "found" => hbPc[r] = "lookup"
        /\ step = "rechecked" => hbPc[r] = "recheck"
        /\ step = "updated" => hbPc[r] = "update"
        /\ step \in {"found", "rechecked"} => value \in {Beat!Authenticated(device[r]), "error"}
        /\ step = "updated" =>
             value \in {IF Beat!Authenticated(device[r]) = "authenticated" THEN "one" ELSE "none", "error"}
  <2>1. hbPc[r] \in BeatRunning => Beat!Authenticated(device[r]) \in Beat!Verdicts
    BY TruthIsAuthenticated DEF BeatInv, Sound, IsKnown
  <2>2. CASE Beat!Lookup(r, "lookup", "found")
    <3>1. PICK value \in {Beat!Authenticated(device[r]), "error"} : Beat!Continue(r, "found", value)
      BY <2>2 DEF Beat!Lookup
    <3> QED
      BY <2>1, <2>2, <3>1 DEF Beat!Lookup, BeatRunning, Beat!Steps
  <2>3. CASE Beat!Lookup(r, "recheck", "rechecked")
    <3>1. PICK value \in {Beat!Authenticated(device[r]), "error"} : Beat!Continue(r, "rechecked", value)
      BY <2>3 DEF Beat!Lookup
    <3> QED
      BY <2>1, <2>3, <3>1 DEF Beat!Lookup, BeatRunning, Beat!Steps
  <2>4. CASE Beat!Update(r)
    <3>1. PICK value \in {IF Beat!Authenticated(device[r]) = "authenticated" THEN "one" ELSE "none", "error"} :
            Beat!Continue(r, "updated", value)
      BY <2>4 DEF Beat!Update
    <3> QED
      BY <2>4, <3>1 DEF Beat!Update
  <2> QED
    BY <2>2, <2>3, <2>4
<1>2. /\ hbPc' \in [Keys -> Beat!Steps] /\ hbPc'[r] = step
      /\ result' \in [Keys -> Beat!Verdicts \cup {"one", "none", "error", None}] /\ result'[r] = value
      /\ \A q \in Keys \ {r} : hbPc'[q] = hbPc[q] /\ result'[q] = result[q]
      /\ UNCHANGED <<peer, device, hbAnswer>>
  BY <1>1, ContinueIs DEF BeatInv, Beat!Steps
<1>3. SlotsExact'
  BY <1>1, <1>2, Kept DEF BeatInv, Beat!Holding
<1>4. Beat!TypeOK'
  BY <1>1, <1>2 DEF BeatInv, Beat!TypeOK, Beat!tableVars, Beat!slotVars
<1>5. Sound(r)'
  <2>1. hbPc[r] \in BeatRunning /\ hbPc[r] # "done"
    BY <1>1 DEF BeatRunning, Beat!Steps
  <2>2. Beat!Authenticated(device[r])' = Beat!Authenticated(device[r]) /\ Beat!Authenticated(device[r]) \in was[r]
    BY <1>1, <1>2, <2>1 DEF Beat!Authenticated, Beat!tableVars, BeatInv, Sound, ResultWasTrue
  <2>3. IsKnown(r)' /\ AnswerIsTimely(r)'
    BY <1>1, <1>2, <2>1 DEF BeatInv, Sound, IsKnown, AnswerIsTimely
  <2>4. Beat!Authenticated(device[r]) \in Beat!Verdicts
    BY <2>1, TruthIsAuthenticated DEF BeatInv, Sound, IsKnown
  <2>5. ResultWasTrue(r)'
    <3>1. CASE step = "found"
      BY <1>1, <1>2, <2>2, <2>4, <3>1 DEF ResultWasTrue, Beat!Verdicts
    <3>2. CASE step = "rechecked"
      BY <1>1, <1>2, <2>2, <2>4, <3>2 DEF BeatInv, Sound, ResultWasTrue, Beat!Verdicts
    <3>3. CASE step = "updated"
      BY <1>1, <1>2, <2>2, <3>3 DEF ResultWasTrue
    <3> QED
      BY <3>1, <3>2, <3>3
  <2> QED
    BY <2>3, <2>5 DEF Sound
<1> QED
  BY <1>1, <1>2, <1>3, <1>4, <1>5, OthersStay

\* A request answers: it keeps or gives up its slot as told.
LEMMA Answering ==
  ASSUME Beat!HeartbeatAssumption, BeatInv, NEW r \in Keys, NEW a \in Beat!Answers, Beat!Reply(r, a),
         UNCHANGED <<Beat!tableVars, was>>, hbPc[r] \in BeatRunning,
         \/ Beat!Release(r) /\ hbPc[r] \in Beat!Holding
         \/ UNCHANGED Beat!slotVars /\ hbPc[r] \notin Beat!Holding,
         a = "ok" => "authenticated" \in was[r],
         a \in {"device_revoked", "account_inactive"} => a \in was[r],
         a = "invalid_device_credential" => a \in was[r] \/ \E u, v \in was[r] : u # v
  PROVE  BeatInv'
<1>1. /\ hbPc' \in [Keys -> Beat!Steps] /\ hbPc'[r] = "done"
      /\ result' \in [Keys -> Beat!Verdicts \cup {"one", "none", "error", None}]
      /\ hbAnswer' \in [Keys -> Beat!Answers \cup {None}] /\ hbAnswer'[r] = a
      /\ peer' \in [Keys -> Peers \cup {None}]
      /\ \A q \in Keys \ {r} :
           hbPc'[q] = hbPc[q] /\ result'[q] = result[q] /\ hbAnswer'[q] = hbAnswer[q] /\ peer'[q] = peer[q]
      /\ UNCHANGED device
  BY ReplyIs DEF BeatInv
<1>2. SlotsExact' /\ activeTotal' \in Nat /\ DOMAIN activeByPeer' \subseteq Peers
      /\ \A p \in DOMAIN activeByPeer' : activeByPeer'[p] \in Nat
  <2>1. CASE Beat!Release(r) /\ hbPc[r] \in Beat!Holding
    <3>1. peer[r] \in Peers
      BY DEF BeatInv, Sound, IsKnown
    <3> QED
      BY <1>1, <2>1, <3>1, Freed DEF BeatInv, Beat!Holding
  <2>2. CASE UNCHANGED Beat!slotVars /\ hbPc[r] \notin Beat!Holding
    BY <1>1, <2>2, Kept DEF BeatInv, Beat!Holding, Beat!slotVars, Beat!TypeOK
  <2> QED
    BY <2>1, <2>2
<1>3. Beat!TypeOK'
  BY <1>1, <1>2 DEF BeatInv, Beat!TypeOK, Beat!tableVars
<1>4. Sound(r)'
  BY <1>1 DEF Sound, IsKnown, ResultWasTrue, AnswerIsTimely, BeatRunning
<1> QED
  BY <1>1, <1>2, <1>3, <1>4, OthersStay

\* The lookup gives its slot back; what it found is the answer, or the UPDATE follows.
LEMMA AfterLookupStep ==
  ASSUME Beat!HeartbeatAssumption, BeatInv, NEW r \in Keys, Beat!AfterLookup(r)
  PROVE  BeatInv'
<1>1. /\ hbPc[r] = "found" /\ Beat!Release(r) /\ UNCHANGED <<Beat!tableVars, was>>
      /\ hbPc[r] \in BeatRunning /\ hbPc[r] \in Beat!Holding
      /\ result[r] \in Beat!Verdicts => result[r] \in was[r]
  BY DEF Beat!AfterLookup, BeatRunning, Beat!Steps, Beat!Holding, BeatInv, Sound, ResultWasTrue
<1>2. CASE result[r] = "error" /\ Beat!Reply(r, "unavailable")
  BY <1>1, <1>2, Answering DEF Beat!Answers
<1>3. CASE result[r] \in Beat!Verdicts \ {"authenticated"} /\ Beat!Reply(r, result[r])
  <2>1. result[r] \in Beat!Answers /\ result[r] # "ok"
    BY <1>3 DEF Beat!Answers, Beat!Verdicts
  <2> QED
    BY <1>1, <1>3, <2>1, Answering
<1>4. CASE result[r] = "authenticated" /\ Beat!Reply(r, "invalid_payload")
  BY <1>1, <1>4, Answering DEF Beat!Answers
<1>5. CASE result[r] = "authenticated" /\ Beat!Continue(r, "update", None)
  <2>1. /\ hbPc' \in [Keys -> Beat!Steps] /\ hbPc'[r] = "update"
        /\ result' \in [Keys -> Beat!Verdicts \cup {"one", "none", "error", None}]
        /\ \A q \in Keys \ {r} : hbPc'[q] = hbPc[q] /\ result'[q] = result[q]
        /\ UNCHANGED <<peer, device, hbAnswer>>
    BY <1>5, ContinueIs DEF BeatInv, Beat!Steps
  <2>2. peer[r] \in Peers
    BY <1>1 DEF BeatInv, Sound, IsKnown
  <2>3. SlotsExact' /\ activeTotal' \in Nat /\ DOMAIN activeByPeer' \subseteq Peers
        /\ \A p \in DOMAIN activeByPeer' : activeByPeer'[p] \in Nat
    BY <1>1, <2>1, <2>2, Freed DEF BeatInv, Beat!Holding
  <2>4. Beat!TypeOK'
    BY <1>1, <2>1, <2>3 DEF BeatInv, Beat!TypeOK, Beat!tableVars
  <2>5. Beat!Authenticated(device[r])' = Beat!Authenticated(device[r])
    BY <1>1, <2>1 DEF Beat!Authenticated, Beat!tableVars
  <2>6. Sound(r)'
    BY <1>1, <2>1, <2>5 DEF BeatInv, Sound, IsKnown, ResultWasTrue, AnswerIsTimely
  <2> QED
    BY <1>1, <2>1, <2>3, <2>4, <2>6, OthersStay
<1> QED
  BY <1>2, <1>3, <1>4, <1>5 DEF Beat!AfterLookup

\* After the UPDATE: one row is the answer; none asks for another slot.
LEMMA AfterUpdateStep ==
  ASSUME Beat!HeartbeatAssumption, BeatInv, NEW r \in Keys, Beat!AfterUpdate(r)
  PROVE  BeatInv'
<1>1. /\ hbPc[r] = "updated" /\ UNCHANGED <<Beat!tableVars, was>>
      /\ hbPc[r] \in BeatRunning /\ hbPc[r] \notin Beat!Holding
      /\ result[r] = "one" => "authenticated" \in was[r]
  BY DEF Beat!AfterUpdate, BeatRunning, Beat!Steps, Beat!Holding, BeatInv, Sound, ResultWasTrue
<1>2. CASE result[r] = "one" /\ Beat!Reply(r, "ok") /\ UNCHANGED Beat!slotVars
  BY <1>1, <1>2, Answering DEF Beat!Answers
<1>3. CASE result[r] = "error" /\ Beat!Reply(r, "unavailable") /\ UNCHANGED Beat!slotVars
  BY <1>1, <1>3, Answering DEF Beat!Answers
<1>4. CASE Beat!Reply(r, "saturated") /\ UNCHANGED Beat!slotVars
  BY <1>1, <1>4, Answering DEF Beat!Answers
<1>5. CASE result[r] = "none" /\ Beat!Acquire(peer[r]) /\ Beat!Continue(r, "recheck", None)
  <2>1. /\ hbPc' \in [Keys -> Beat!Steps] /\ hbPc'[r] = "recheck"
        /\ result' \in [Keys -> Beat!Verdicts \cup {"one", "none", "error", None}]
        /\ \A q \in Keys \ {r} : hbPc'[q] = hbPc[q] /\ result'[q] = result[q]
        /\ UNCHANGED <<peer, device, hbAnswer>>
    BY <1>5, ContinueIs DEF BeatInv, Beat!Steps
  <2>2. PICK p \in Peers : p = peer[r]
    BY <1>1 DEF BeatInv, Sound, IsKnown
  <2>3. SlotsExact'
    BY <1>1, <1>5, <2>1, <2>2, Taken DEF BeatInv, Beat!Holding
  <2>4. activeTotal' \in Nat /\ DOMAIN activeByPeer' \subseteq Peers /\ \A q \in DOMAIN activeByPeer' : activeByPeer'[q] \in Nat
    BY <1>5, <2>2 DEF Beat!Acquire, Beat!CountOf, BeatInv, Beat!TypeOK
  <2>5. Beat!TypeOK'
    BY <1>1, <2>1, <2>4 DEF BeatInv, Beat!TypeOK, Beat!tableVars
  <2>6. Beat!Authenticated(device[r])' = Beat!Authenticated(device[r])
    BY <1>1, <2>1 DEF Beat!Authenticated, Beat!tableVars
  <2>7. Sound(r)'
    BY <1>1, <1>5, <2>1, <2>6 DEF BeatInv, Sound, IsKnown, ResultWasTrue, AnswerIsTimely
  <2> QED
    BY <1>1, <2>1, <2>3, <2>5, <2>7, OthersStay
<1> QED
  BY <1>2, <1>3, <1>4, <1>5 DEF Beat!AfterUpdate

\* A device that the second lookup finds open was not open before.
LEMMA AfterRecheckStep ==
  ASSUME Beat!HeartbeatAssumption, BeatInv, NEW r \in Keys, Beat!AfterRecheck(r)
  PROVE  BeatInv'
<1>1. /\ hbPc[r] = "rechecked" /\ Beat!Release(r) /\ UNCHANGED <<Beat!tableVars, was>>
      /\ hbPc[r] \in BeatRunning /\ hbPc[r] \in Beat!Holding
      /\ result[r] \in Beat!Verdicts => result[r] \in was[r]
      /\ \E v \in was[r] : v # "authenticated"
  BY DEF Beat!AfterRecheck, BeatRunning, Beat!Steps, Beat!Holding, BeatInv, Sound, ResultWasTrue
<1>2. CASE result[r] = "error" /\ Beat!Reply(r, "unavailable")
  BY <1>1, <1>2, Answering DEF Beat!Answers
<1>3. CASE result[r] \in Beat!Verdicts \ {"authenticated"} /\ Beat!Reply(r, result[r])
  <2>1. result[r] \in Beat!Answers /\ result[r] # "ok"
    BY <1>3 DEF Beat!Answers, Beat!Verdicts
  <2> QED
    BY <1>1, <1>3, <2>1, Answering
<1>4. CASE result[r] = "authenticated" /\ Beat!Reply(r, "invalid_device_credential")
  <2>1. "invalid_device_credential" \in Beat!Answers /\ \E u, v \in was[r] : u # v
    BY <1>1, <1>4 DEF Beat!Answers, Beat!Verdicts
  <2> QED
    BY <1>1, <1>4, <2>1, Answering
<1> QED
  BY <1>2, <1>3, <1>4 DEF Beat!AfterRecheck

\* The administration changes what is true, which every running request notes.
LEMMA AdminStep ==
  ASSUME BeatInv, Beat!Admin
  PROVE  BeatInv'
<1>1. revoked' \subseteq Devices /\ blocked' \subseteq Devices /\ deleted' \subseteq Devices
  BY DEF Beat!Admin, BeatInv, Beat!TypeOK
<1>2. UNCHANGED <<Beat!requestVars, Beat!slotVars>>
      /\ was' = [r \in Keys |-> IF hbPc[r] \in {"new", "done"} THEN was[r] ELSE was[r] \cup {Beat!Truth(device[r])'}]
  BY DEF Beat!Admin
<1>3. ASSUME NEW r \in Keys, hbPc[r] \in BeatRunning
      PROVE  Beat!Truth(device[r])' = Beat!Authenticated(device[r])' /\ Beat!Truth(device[r])' \in Beat!Verdicts
  BY DEF Beat!Truth, Beat!Authenticated, Beat!Verdicts
<1>4. ASSUME NEW r \in Keys
      PROVE  was'[r] \subseteq Beat!Verdicts /\ was[r] \subseteq was'[r]
             /\ (hbPc[r] \in BeatRunning => Beat!Authenticated(device[r])' \in was'[r])
  BY <1>2, <1>3 DEF BeatInv, Beat!TypeOK, BeatRunning
<1>5. Beat!TypeOK'
  <2>1. was' \in [Keys -> SUBSET Beat!Verdicts]
    BY <1>2, <1>4
  <2> QED
    BY <1>1, <1>2, <2>1 DEF BeatInv, Beat!TypeOK, Beat!requestVars, Beat!slotVars
<1>6. SlotsExact'
  BY <1>2, Kept DEF BeatInv, Beat!requestVars
<1>7. ASSUME NEW r \in Keys PROVE Sound(r)'
  <2>1. IsKnown(r)'
    BY <1>2 DEF BeatInv, Sound, IsKnown, Beat!requestVars
  <2>2. ResultWasTrue(r)'
    BY <1>2, <1>4 DEF BeatInv, Sound, ResultWasTrue, Beat!requestVars
  <2>3. AnswerIsTimely(r)'
    BY <1>2, <1>4 DEF BeatInv, Sound, AnswerIsTimely, Beat!requestVars
  <2> QED
    BY <2>1, <2>2, <2>3 DEF Sound
<1> QED
  BY <1>5, <1>6, <1>7 DEF BeatInv

\* At first no request has begun, and all slots are free.
LEMMA BeatInit == ASSUME Beat!HeartbeatAssumption, Beat!Init PROVE BeatInv
<1>1. Beat!TypeOK
  BY DEF Beat!Init, Beat!TypeOK, Beat!Steps
<1>2. AllHolders = {} /\ \A p \in Peers : Holders(p) = {}
  BY DEF Beat!Init, AllHolders, Holders, Beat!Holding
<1>3. SlotsExact
  BY <1>2, FS_EmptySet DEF Beat!Init, SlotsExact, Beat!CountOf
<1>4. \A r \in Keys : Sound(r)
  BY DEF Beat!Init, Beat!HeartbeatAssumption, Beat!Answers, Beat!Verdicts, Sound, IsKnown,
     ResultWasTrue, AnswerIsTimely, BeatRunning
<1> QED
  BY <1>1, <1>3, <1>4 DEF BeatInv

\* Every step of requests and of the administration keeps the invariant.
LEMMA BeatStep == ASSUME Beat!HeartbeatAssumption, BeatInv, [Beat!Next]_(Beat!vars) PROVE BeatInv'
<1>1. CASE Beat!Next
  BY <1>1, StartStep, StatementStep, AfterLookupStep, AfterUpdateStep, AfterRecheckStep, AdminStep
     DEF Beat!Next
<1>2. CASE UNCHANGED Beat!vars
  <2>1. Beat!TypeOK' /\ SlotsExact'
    BY <1>2, Kept DEF Beat!vars, Beat!requestVars, Beat!slotVars, Beat!tableVars, BeatInv, Beat!TypeOK
  <2>2. ASSUME NEW r \in Keys PROVE Sound(r)'
    <3>1. Beat!Authenticated(device[r])' = Beat!Authenticated(device[r])
      BY <1>2 DEF Beat!vars, Beat!requestVars, Beat!tableVars, Beat!Authenticated
    <3> QED
      BY <1>2, <3>1
         DEF Beat!vars, Beat!requestVars, BeatInv, Sound, IsKnown, ResultWasTrue, AnswerIsTimely
  <2> QED
    BY <2>1, <2>2 DEF BeatInv
<1> QED
  BY <1>1, <1>2

\* Whatever the other parts do, the heartbeat keeps its invariant.
LEMMA BeatInvariance == ASSUME Beat!HeartbeatAssumption PROVE Beat!Spec => []BeatInv
  BY BeatInit, BeatStep, PTL DEF Beat!Spec

\* The counters of the limiter are the lookups that run, for any limits and any number
\* of peers: no error path of the handler loses a slot or gives one back twice.
THEOREM SlotCounts == PartsSpec => []SlotsAreExact
<1>1. ASSUME BeatInv PROVE SlotsAreExact
  BY <1>1, SameSlots DEF BeatInv, SlotsAreExact
<1> QED
  BY <1>1, PartsAssumption, PartsFollow, BeatInvariance, PTL

\* Two different elements of a set of verdicts make it larger than one.
LEMMA TwoVerdicts ==
  ASSUME NEW S \in SUBSET Beat!Verdicts, NEW u \in S, NEW v \in S, u # v
  PROVE  Cardinality(S) > 1
<1>1. IsFiniteSet(Beat!Verdicts)
  <2>1. Beat!Verdicts = {"authenticated"} \cup {"invalid_device_credential"} \cup {"device_revoked"} \cup {"account_inactive"}
    BY DEF Beat!Verdicts
  <2> QED
    BY <2>1, FS_Singleton, FS_Union
<1>2. IsFiniteSet(S) /\ IsFiniteSet({u}) /\ Cardinality({u}) = 1
  BY <1>1, FS_Subset, FS_Singleton
<1>3. IsFiniteSet({u} \cup {v}) /\ Cardinality({u} \cup {v}) = 2
  <2>1. v \notin {u} /\ IsFiniteSet({u} \cup {v})
    BY <1>2, FS_AddElement
  <2>2. Cardinality({u} \cup {v}) = Cardinality({u}) + 1
    BY <1>2, <2>1, FS_AddElement
  <2> QED
    BY <1>2, <2>1, <2>2
<1>4. Cardinality({u} \cup {v}) <= Cardinality(S) /\ Cardinality(S) \in Nat
  BY <1>2, FS_Subset, FS_CardinalityType
<1> QED
  BY <1>3, <1>4

\* Whatever is revoked, blocked, reactivated or deleted while a heartbeat is handled, the
\* device is told something that was true of it during the request.
THEOREM TimelyAnswers == PartsSpec => []AnswersAreTimely
<1>1. ASSUME BeatInv, NEW r \in Keys
      PROVE  hbAnswer[r] = "invalid_device_credential" => (hbAnswer[r] \in was[r] \/ Cardinality(was[r]) > 1)
  <2>1. was[r] \in SUBSET Beat!Verdicts
    BY <1>1 DEF BeatInv, Beat!TypeOK
  <2> QED
    BY <1>1, <2>1, TwoVerdicts DEF BeatInv, Sound, AnswerIsTimely
<1>2. ASSUME BeatInv PROVE AnswersAreTimely
  BY <1>1, <1>2, BeatSets DEF BeatInv, Sound, AnswerIsTimely, Beat!AnswersAreTimely, AnswersAreTimely
<1> QED
  BY <1>2, PartsAssumption, PartsFollow, BeatInvariance, PTL
-----------------------------------------------------------------------------
(* The SCMDB sink. *)

\* Where a post has the row of its connection.
Posting == {"bound", "applying", "recording", "recorded"}

\* The types that the other invariants rely on.
Typed ==
  /\ connection \in [Creates -> {"none", "revoked"} \cup Sink!Alive]
  /\ identity \in [Creates -> Nesting \cup {None}]
  /\ rowLock \in [Creates -> Keys \cup {None}]
  /\ siPc \in [Keys \cup Peers ->
               {"new", "checked", "bound", "applying", "recording", "recorded", "locked", "done"}]
  /\ token \in [Keys -> Creates \cup {None}] /\ event \in [Keys -> Nesting \cup {None}]
  /\ sender \in [Keys -> Nesting \cup {None}] /\ kind \in [Keys -> Sink!Kinds \cup {"none"}]
  /\ counted \in [Nesting -> Nat] /\ senders \in [Creates -> SUBSET Nesting]

\* A post that was accepted for work has a token, an event and a sender.
Carries(s) ==
  siPc[s] \in Posting \cup {"checked"} =>
    /\ token[s] \in Creates /\ event[s] \in Nesting
    /\ sender[s] \in Nesting /\ kind[s] \in Sink!Kinds

\* Between its lookup and its end a post has the connection's row, which stays as it found it.
Holds(s) ==
  /\ siPc[s] \in Posting =>
       /\ rowLock[token[s]] = s /\ connection[token[s]] \in Sink!Alive
       /\ s \in binds => identity[token[s]] = None /\ kind[s] = "profile"
       /\ s \notin binds => kind[s] = "inventory" \/ identity[token[s]] = sender[s]
  /\ s \in binds => siPc[s] \in Posting

\* Who has inserted an event's id is alone with it, and the first.
RecordsFirst(s) ==
  siPc[s] = "recorded" =>
    event[s] \notin events /\ \A o \in Keys : siPc[o] = "recorded" /\ event[o] = event[s] => o = s

\* Every event in the table is counted once, and only such were answered 202.
Once == /\ \A e \in Nesting : counted[e] = IF e \in events THEN 1 ELSE 0
        /\ accepted \subseteq events /\ events \subseteq Nesting

\* Who sent with a token is its identity, and one token at most is pending.
Owned == /\ \A t \in Creates : senders[t] \subseteq {identity[t]}
         /\ \A t, u \in Creates : connection[t] = "pending" /\ connection[u] = "pending" => t = u

\* The invariant of the sink.
SinkInv == /\ Typed /\ Once /\ Owned
        /\ \A s \in Keys : Carries(s) /\ Holds(s) /\ RecordsFirst(s)

\* The component's own copies of these operators of FiniteSets are those of FiniteSets.
LEMMA SinkSets == \A S : Sink!Cardinality(S) = Cardinality(S) /\ (Sink!IsFiniteSet(S) <=> IsFiniteSet(S))
  BY DEF Sink!Cardinality, Cardinality, Sink!IsFiniteSet, IsFiniteSet

\* At first there is no connection, and nothing was posted.
LEMMA SinkInit == ASSUME Sink!Init PROVE SinkInv
<1>1. Typed
  BY DEF Sink!Init, Typed
<1>2. Once /\ Owned
  BY DEF Sink!Init, Once, Owned
<1>3. \A s \in Keys : Carries(s) /\ Holds(s) /\ RecordsFirst(s)
  BY DEF Sink!Init, Carries, Holds, RecordsFirst, Posting
<1> QED
  BY <1>1, <1>2, <1>3 DEF SinkInv

\* Two posts at work have different connections.
LEMMA Apart ==
  ASSUME SinkInv, NEW s \in Keys, NEW o \in Keys, siPc[s] \in Posting, siPc[o] \in Posting, token[s] = token[o]
  PROVE  s = o
  BY DEF SinkInv, Holds

\* A request of whatever kind gives its locks back and is done, with no row changed.
LEMMA RollbackStep ==
  ASSUME Sink!ScmdbSinkAssumption, SinkInv, NEW r \in Keys \cup Peers, Sink!Rollback(r)
  PROVE  SinkInv'
<1> USE DEF Sink!Rollback, Sink!tables, Sink!carried, Sink!history
<1>1. siPc' = [siPc EXCEPT ![r] = "done"] /\ binds' = binds \ {r}
      /\ rowLock' = [t \in Creates |-> IF rowLock[t] = r THEN None ELSE rowLock[t]]
  BY DEF Sink!Goto, Sink!Unlock
<1>2. Typed'
  BY <1>1 DEF SinkInv, Typed
<1>3. Once' /\ Owned'
  BY DEF SinkInv, Once, Owned
<1>4. ASSUME NEW s \in Keys PROVE Carries(s)' /\ Holds(s)' /\ RecordsFirst(s)'
  <2>1. siPc'[r] = "done" /\ \A o \in Keys \ {r} : siPc'[o] = siPc[o]
    BY <1>1 DEF SinkInv, Typed
  <2>2. CASE s = r
    BY <1>1, <2>1, <2>2 DEF Carries, Holds, RecordsFirst, Posting
  <2>3. CASE s # r
    <3>1. siPc[s] \in Posting => rowLock'[token[s]] = rowLock[token[s]]
      BY <1>1, <2>3 DEF SinkInv, Carries, Holds
    <3>2. Carries(s)' /\ Holds(s)'
      BY <1>1, <2>1, <2>3, <3>1 DEF SinkInv, Carries, Holds
    <3>3. RecordsFirst(s)'
      BY <2>1, <2>3 DEF SinkInv, RecordsFirst
    <3> QED
      BY <3>2, <3>3
  <2> QED
    BY <2>2, <2>3
<1> QED
  BY <1>2, <1>3, <1>4 DEF SinkInv

\* A post arrives; it has checked nothing yet.
LEMMA ReceiveStep ==
  ASSUME SinkInv, NEW s \in Keys, NEW t \in Creates, NEW e \in Nesting, NEW u \in Nesting, NEW k \in Sink!Kinds,
         Sink!Receive(s, t, e, u, k)
  PROVE  SinkInv'
<1> USE DEF Sink!Receive, Sink!tables, Sink!locks, Sink!history
<1>1. /\ siPc[s] = "new" /\ siPc'[s] \in {"checked", "done"}
      /\ token'[s] = t /\ event'[s] = e /\ sender'[s] = u /\ kind'[s] = k
      /\ \A o \in Keys \ {s} : /\ siPc'[o] = siPc[o] /\ token'[o] = token[o] /\ event'[o] = event[o]
                                /\ sender'[o] = sender[o] /\ kind'[o] = kind[o]
  BY DEF Sink!Goto, SinkInv, Typed
<1>2. Typed'
  BY DEF Sink!Goto, SinkInv, Typed
<1>3. Once' /\ Owned'
  BY DEF SinkInv, Once, Owned
<1>4. ASSUME NEW o \in Keys PROVE Carries(o)' /\ Holds(o)' /\ RecordsFirst(o)'
  BY <1>1 DEF SinkInv, Carries, Holds, RecordsFirst, Posting
<1> QED
  BY <1>2, <1>3, <1>4 DEF SinkInv

\* Its lookup locks the row of the connection, which it may be the first to use.
LEMMA BindStep ==
  ASSUME Sink!ScmdbSinkAssumption, SinkInv, NEW s \in Keys, Sink!Bind(s)
  PROVE  SinkInv'
<1>1. CASE Sink!Rollback(s)
  BY <1>1, RollbackStep
<1>2. CASE ~Sink!Rollback(s)
  <2>1. /\ siPc[s] = "checked" /\ rowLock[token[s]] = None
        /\ connection[token[s]] \in Sink!Alive /\ Sink!Matches(s)
        /\ rowLock' = [rowLock EXCEPT ![token[s]] = s]
        /\ binds' = IF Sink!First(s) THEN binds \cup {s} ELSE binds
        /\ siPc' = [siPc EXCEPT ![s] = "bound"] /\ UNCHANGED <<Sink!tables, accountLock, Sink!carried, Sink!history>>
    BY <1>2 DEF Sink!Bind, Sink!RowIsFree, Sink!Goto
  <2>2. token[s] \in Creates
    BY <2>1 DEF SinkInv, Carries
  <2>3. Typed'
    BY <2>1, <2>2 DEF SinkInv, Typed, Sink!tables, Sink!carried, Sink!history
  <2>4. Once' /\ Owned'
    BY <2>1 DEF SinkInv, Once, Owned, Sink!tables, Sink!history
  <2>5. siPc'[s] = "bound" /\ rowLock'[token[s]] = s
        /\ \A o \in Keys \ {s} : siPc'[o] = siPc[o] /\ (o \in binds' <=> o \in binds)
    BY <2>1, <2>2 DEF SinkInv, Typed
  <2>6. s \notin binds
    BY <2>1 DEF SinkInv, Holds, Posting
  <2>7. Carries(s)' /\ Holds(s)' /\ RecordsFirst(s)'
    BY <2>1, <2>2, <2>5, <2>6
       DEF SinkInv, Carries, Holds, RecordsFirst, Posting, Sink!First, Sink!Matches, Sink!tables,
          Sink!carried
  <2>8. ASSUME NEW o \in Keys \ {s} PROVE Carries(o)' /\ Holds(o)' /\ RecordsFirst(o)'
    <3>1. siPc[o] \in Posting => token[o] \in Creates /\ token[o] # token[s] /\ rowLock'[token[o]] = rowLock[token[o]]
      BY <2>1, Sink!ScmdbSinkAssumption DEF Sink!ScmdbSinkAssumption, SinkInv, Typed, Carries, Holds
    <3>2. Carries(o)' /\ Holds(o)'
      BY <2>1, <2>5, <3>1 DEF SinkInv, Carries, Holds, Sink!tables, Sink!carried
    <3>3. RecordsFirst(o)'
      BY <2>1, <2>5 DEF SinkInv, RecordsFirst, Sink!tables, Sink!carried
    <3> QED
      BY <3>2, <3>3
  <2> QED
    BY <2>3, <2>4, <2>7, <2>8 DEF SinkInv
<1> QED
  BY <1>1, <1>2

\* A post goes on with the row it has.
LEMMA GoesOn ==
  ASSUME SinkInv, NEW s \in Keys, siPc[s] \in Posting, NEW step \in Posting, Sink!Goto(s, step),
         UNCHANGED <<Sink!tables, rowLock, Sink!carried, binds, Sink!history>>,
         step = "recorded" => /\ event[s] \notin events
                              /\ \A o \in Keys : siPc[o] = "recorded" => event[o] # event[s]
  PROVE  SinkInv'
<1> USE DEF Sink!Goto, Sink!tables, Sink!carried, Sink!history
<1>1. siPc' \in [Keys \cup Peers ->
                 {"new", "checked", "bound", "applying", "recording", "recorded", "locked", "done"}]
      /\ siPc'[s] = step /\ \A o \in Keys \ {s} : siPc'[o] = siPc[o]
  BY DEF SinkInv, Typed, Posting
<1>2. Typed' /\ Once' /\ Owned'
  BY <1>1 DEF SinkInv, Typed, Once, Owned
<1>3. ASSUME NEW o \in Keys PROVE Carries(o)' /\ Holds(o)'
  BY <1>1 DEF SinkInv, Carries, Holds
<1>4. ASSUME NEW o \in Keys PROVE RecordsFirst(o)'
  BY <1>1 DEF SinkInv, RecordsFirst
<1> QED
  BY <1>2, <1>3, <1>4 DEF SinkInv

\* A commit, of an event that is in events by then.
LEMMA CommitStep ==
  ASSUME Sink!ScmdbSinkAssumption, SinkInv, NEW s \in Keys, siPc[s] \in Posting, Sink!Commit(s), Once',
         events \subseteq events' /\ events' \subseteq events \cup {event[s]},
         event[s] \in events' \ events => siPc[s] = "recorded",
         counted' \in [Nesting -> Nat], senders' \in [Creates -> SUBSET Nesting],
         \A t \in Creates \ {token[s]} : senders'[t] = senders[t],
         senders'[token[s]] \subseteq senders[token[s]] \cup {u \in {sender[s]} : kind[s] # "inventory"}
  PROVE  SinkInv'
<1>1. token[s] \in Creates /\ event[s] \in Nesting /\ sender[s] \in Nesting
  BY DEF SinkInv, Carries
<1>2. /\ identity' = IF s \in binds THEN [identity EXCEPT ![token[s]] = sender[s]] ELSE identity
      /\ connection' = IF connection[token[s]] = "pending" THEN [connection EXCEPT ![token[s]] = "connected"]
                       ELSE connection
      /\ binds' = binds \ {s} /\ siPc' = [siPc EXCEPT ![s] = "done"] /\ UNCHANGED Sink!carried
      /\ rowLock' = [t \in Creates |-> IF rowLock[t] = s THEN None ELSE rowLock[t]]
  BY DEF Sink!Commit, Sink!Unlock, Sink!Goto
<1>3. Typed'
  <2>1. identity' \in [Creates -> Nesting \cup {None}] /\ connection' \in [Creates -> {"none", "revoked"} \cup Sink!Alive]
    BY <1>1, <1>2 DEF SinkInv, Typed, Sink!Alive
  <2>2. rowLock' \in [Creates -> Keys \cup {None}]
        /\ siPc' \in [Keys \cup Peers ->
                      {"new", "checked", "bound", "applying", "recording", "recorded", "locked", "done"}]
    BY <1>2 DEF SinkInv, Typed
  <2> QED
    BY <1>2, <2>1, <2>2 DEF SinkInv, Typed, Sink!carried
<1>4. Owned'
  <2>1. \A t \in Creates : t # token[s] => identity'[t] = identity[t]
    BY <1>2 DEF SinkInv, Typed
  <2>2. senders'[token[s]] \subseteq {identity'[token[s]]}
    <3>1. CASE s \in binds
      <4>1. identity[token[s]] = None /\ identity'[token[s]] = sender[s]
        BY <1>1, <1>2, <3>1 DEF SinkInv, Typed, Holds
      <4>2. senders[token[s]] = {}
        BY <1>1, <4>1, Sink!ScmdbSinkAssumption DEF Sink!ScmdbSinkAssumption, SinkInv, Typed, Owned
      <4> QED
        BY <4>1, <4>2
    <3>2. CASE s \notin binds
      <4>1. identity'[token[s]] = identity[token[s]] /\ (kind[s] = "inventory" \/ identity[token[s]] = sender[s])
        BY <1>2, <3>2 DEF SinkInv, Holds
      <4>2. senders[token[s]] \subseteq {identity[token[s]]}
        BY <1>1 DEF SinkInv, Owned
      <4> QED
        BY <4>1, <4>2
    <3> QED
      BY <3>1, <3>2
  <2>3. \A t \in Creates : senders'[t] \subseteq {identity'[t]}
    BY <2>1, <2>2 DEF SinkInv, Owned
  <2>4. \A t \in Creates : connection'[t] = "pending" => connection[t] = "pending"
    BY <1>2 DEF SinkInv, Typed
  <2> QED
    BY <2>3, <2>4 DEF SinkInv, Owned
<1>5. siPc'[s] = "done" /\ \A o \in Keys \ {s} : siPc'[o] = siPc[o]
  BY <1>2 DEF SinkInv, Typed
<1>6. Carries(s)' /\ Holds(s)' /\ RecordsFirst(s)'
  BY <1>2, <1>5 DEF Carries, Holds, RecordsFirst, Posting
<1>7. ASSUME NEW o \in Keys \ {s} PROVE Carries(o)' /\ Holds(o)' /\ RecordsFirst(o)'
  <2>1. siPc[o] \in Posting => /\ token[o] \in Creates /\ token[o] # token[s]
                            /\ rowLock'[token[o]] = rowLock[token[o]]
                            /\ identity'[token[o]] = identity[token[o]] /\ connection'[token[o]] = connection[token[o]]
    <3>1. siPc[o] \in Posting => token[o] \in Creates /\ token[o] # token[s] /\ rowLock[token[o]] = o
      BY Apart DEF SinkInv, Carries, Holds
    <3> QED
      BY <1>2, <3>1 DEF SinkInv, Typed
  <2>2. Carries(o)' /\ Holds(o)'
    BY <1>2, <1>5, <2>1 DEF SinkInv, Carries, Holds, Sink!carried
  <2>3. RecordsFirst(o)'
    BY <1>2, <1>5 DEF SinkInv, RecordsFirst, Sink!carried
  <2> QED
    BY <2>2, <2>3
<1> QED
  BY <1>3, <1>4, <1>6, <1>7 DEF SinkInv

\* A post is ignored, applied, recorded or finished.
LEMMA PostStep ==
  ASSUME Sink!ScmdbSinkAssumption, SinkInv, NEW s \in Keys,
         Sink!Ignore(s) \/ Sink!Proceed(s) \/ Sink!Apply(s) \/ Sink!Record(s) \/ Sink!Finish(s)
  PROVE  SinkInv'
<1>1. CASE Sink!Ignore(s)
  <2>1. siPc[s] \in Posting /\ event[s] \in events /\ accepted' = accepted \cup {event[s]}
        /\ UNCHANGED <<events, counted, senders>> /\ Sink!Commit(s)
    BY <1>1 DEF Sink!Ignore, Sink!Duplicate, Sink!Commit, Posting
  <2>2. Once'
    BY <2>1 DEF SinkInv, Once
  <2> QED
    BY <2>1, <2>2, CommitStep DEF SinkInv, Typed
<1>2. CASE Sink!Proceed(s)
  BY <1>2, GoesOn DEF Sink!Proceed, Posting, Sink!locks
<1>3. CASE Sink!Apply(s)
  <2>1. CASE Sink!Rollback(s)
    BY <2>1, RollbackStep
  <2>2. CASE ~Sink!Rollback(s)
    BY <1>3, <2>2, GoesOn DEF Sink!Apply, Posting
  <2> QED
    BY <2>1, <2>2
<1>4. CASE Sink!Record(s)
  <2>1. CASE Sink!Rollback(s)
    BY <2>1, RollbackStep
  <2>2. CASE ~Sink!Rollback(s)
    BY <1>4, <2>2, GoesOn DEF Sink!Record, Sink!Recorded, Posting, Sink!locks
  <2> QED
    BY <2>1, <2>2
<1>5. CASE Sink!Finish(s)
  <2>1. /\ siPc[s] = "recorded" /\ Sink!Commit(s) /\ events' = events \cup {event[s]}
        /\ counted' = [counted EXCEPT ![event[s]] = counted[event[s]] + 1]
        /\ senders' = [senders EXCEPT ![token[s]] =
                         IF kind[s] = "inventory" THEN senders[token[s]] ELSE senders[token[s]] \cup {sender[s]}]
        /\ accepted' = accepted \cup {event[s]}
    BY <1>5 DEF Sink!Finish, Sink!Commit
  <2>2. siPc[s] \in Posting /\ token[s] \in Creates /\ event[s] \in Nesting /\ sender[s] \in Nesting /\ event[s] \notin events
    BY <2>1 DEF SinkInv, Posting, Carries, RecordsFirst
  <2>3. counted' \in [Nesting -> Nat] /\ Once'
    <3>1. counted[event[s]] = 0
      BY <2>2 DEF SinkInv, Once
    <3>2. counted' \in [Nesting -> Nat] /\ counted'[event[s]] = 1 /\ \A e \in Nesting \ {event[s]} : counted'[e] = counted[e]
      BY <2>1, <2>2, <3>1 DEF SinkInv, Typed
    <3> QED
      BY <2>1, <2>2, <3>2 DEF SinkInv, Once
  <2>4. senders' \in [Creates -> SUBSET Nesting] /\ (\A t \in Creates \ {token[s]} : senders'[t] = senders[t])
        /\ senders'[token[s]] \subseteq senders[token[s]] \cup {u \in {sender[s]} : kind[s] # "inventory"}
    BY <2>1, <2>2 DEF SinkInv, Typed
  <2> QED
    BY <2>1, <2>2, <2>3, <2>4, CommitStep
<1> QED
  BY <1>1, <1>2, <1>3, <1>4, <1>5

\* Connections are revoked, and one may be made, where no post is at work.
LEMMA ConnectionStep ==
  ASSUME Sink!ScmdbSinkAssumption, SinkInv, NEW c \in Peers,
         Sink!ConnectBegin(c) \/ Sink!Disconnect(c) \/ (\E t \in Creates : Sink!Connect(c, t))
  PROVE  SinkInv'
<1>1. /\ siPc' \in [Keys \cup Peers ->
                    {"new", "checked", "bound", "applying", "recording", "recorded", "locked", "done"}]
      /\ \A s \in Keys : siPc'[s] = siPc[s]
      /\ connection' \in [Creates -> {"none", "revoked"} \cup Sink!Alive]
      /\ rowLock' = rowLock
      /\ \A t \in Creates : rowLock[t] # None /\ connection[t] \in Sink!Alive => connection'[t] = connection[t]
      /\ \A t, u \in Creates : connection'[t] = "pending" /\ connection'[u] = "pending" => t = u
      /\ UNCHANGED <<identity, events, Sink!carried, binds, Sink!history>>
  <2> USE DEF Sink!ScmdbSinkAssumption, SinkInv, Typed, Sink!Goto, Owned
  <2>1. CASE Sink!ConnectBegin(c)
    BY <2>1 DEF Sink!ConnectBegin, Sink!tables
  <2>2. CASE Sink!Disconnect(c)
    BY <2>2 DEF Sink!Disconnect, Sink!Revoked, Sink!Free, Sink!Alive, Sink!locks
  <2>3. ASSUME NEW t \in Creates, Sink!Connect(c, t)
        PROVE  /\ siPc' \in [Keys \cup Peers ->
                             {"new", "checked", "bound", "applying", "recording", "recorded", "locked", "done"}]
               /\ \A s \in Keys : siPc'[s] = siPc[s]
               /\ connection' \in [Creates -> {"none", "revoked"} \cup Sink!Alive]
               /\ rowLock' = rowLock
               /\ \A o \in Creates : rowLock[o] # None /\ connection[o] \in Sink!Alive => connection'[o] = connection[o]
               /\ \A o, u \in Creates : connection'[o] = "pending" /\ connection'[u] = "pending" => o = u
               /\ UNCHANGED <<identity, events, Sink!carried, binds, Sink!history>>
    <3>1. /\ Sink!Free({"pending"}) /\ connection[t] = "none" /\ Sink!Unlock(c) /\ Sink!Goto(c, "done")
          /\ connection' = [Sink!Revoked({"pending"}) EXCEPT ![t] = "pending"]
          /\ UNCHANGED <<identity, events, Sink!carried, binds, Sink!history>>
      BY <2>3 DEF Sink!Connect
    <3>2. rowLock' = rowLock
      BY <3>1 DEF Sink!Unlock
    <3>3. connection' = [o \in Creates |-> IF o = t THEN "pending"
                                          ELSE IF connection[o] = "pending" THEN "revoked" ELSE connection[o]]
      BY <3>1 DEF Sink!Revoked
    <3>4. connection' \in [Creates -> {"none", "revoked"} \cup Sink!Alive]
      BY <3>3 DEF Sink!Alive
    <3>5. \A o \in Creates : rowLock[o] # None /\ connection[o] \in Sink!Alive => connection'[o] = connection[o]
      BY <3>1, <3>3 DEF Sink!Free, Sink!Alive
    <3>6. \A o, u \in Creates : connection'[o] = "pending" /\ connection'[u] = "pending" => o = u
      BY <3>3
    <3> QED
      BY <3>1, <3>2, <3>4, <3>5, <3>6
  <2> QED
    BY <2>1, <2>2, <2>3
<1>2. Typed' /\ Once' /\ Owned'
  BY <1>1 DEF SinkInv, Typed, Once, Owned, Sink!carried, Sink!history
<1>3. ASSUME NEW s \in Keys PROVE Carries(s)' /\ Holds(s)' /\ RecordsFirst(s)'
  BY <1>1, Sink!ScmdbSinkAssumption
     DEF Sink!ScmdbSinkAssumption, SinkInv, Carries, Holds, RecordsFirst, Sink!carried
<1> QED
  BY <1>2, <1>3 DEF SinkInv

\* Every step of posts and connects keeps the invariant.
LEMMA SinkStep == ASSUME Sink!ScmdbSinkAssumption, SinkInv, [Sink!Next]_(Sink!vars) PROVE SinkInv'
<1>1. CASE Sink!Next
  <2>1. ASSUME NEW s \in Keys, NEW c \in Peers, Sink!Abort(s, c) PROVE SinkInv'
    BY <2>1, RollbackStep DEF Sink!Abort
  <2> QED
    BY <1>1, <2>1, ReceiveStep, BindStep, PostStep, ConnectionStep DEF Sink!Next
<1>2. CASE UNCHANGED Sink!vars
  BY <1>2
     DEF Sink!vars, Sink!tables, Sink!locks, Sink!carried, Sink!history, SinkInv, Typed, Once, Owned,
        Carries, Holds, RecordsFirst
<1> QED
  BY <1>1, <1>2

\* Whatever the other parts do, the sink keeps its invariant.
LEMMA SinkInvariance == ASSUME Sink!ScmdbSinkAssumption PROVE Sink!Spec => []SinkInv
  BY SinkInit, SinkStep, PTL DEF Sink!Spec

\* An event that is delivered several times, at once or under several tokens, is applied
\* once, and only what was applied is answered 202.
THEOREM AppliedOnce == PartsSpec => []Sink!EventsCountOnce
<1>1. ASSUME SinkInv PROVE Sink!EventsCountOnce
  BY <1>1 DEF SinkInv, Once, Sink!EventsCountOnce
<1> QED
  BY <1>1, PartsAssumption, PartsFollow, SinkInvariance, PTL

\* What is applied under a token is of one sender, no connection is revoked under a
\* running delivery, and an account has one pending connection at most.
THEOREM Ownership == PartsSpec => []SinkIsOwned
<1>1. ASSUME SinkInv PROVE SinkIsOwned
  <2> DEFINE pending == {t \in Creates : connection[t] = "pending"}
  <2>1. Cardinality(pending) <= 1
    <3>1. CASE pending = {}
      BY <3>1, FS_EmptySet
    <3>2. CASE pending # {}
      <4>1. PICK u \in pending : TRUE
        BY <3>2
      <4>2. pending = {u}
        BY <1>1, <4>1 DEF SinkInv, Owned
      <4>3. Cardinality({u}) = 1
        BY FS_Singleton
      <4> QED
        BY <4>2, <4>3
    <3> QED
      BY <3>1, <3>2
  <2>2. \A s \in Keys : siPc[s] \in {"bound", "applying", "recording", "recorded"} => connection[token[s]] \in Sink!Alive
    BY <1>1 DEF SinkInv, Holds, Posting
  <2> QED
    BY <1>1, <2>1, <2>2, SinkSets DEF SinkInv, Owned, Sink!SinkIsOwned, SinkIsOwned
<1> QED
  BY <1>1, PartsAssumption, PartsFollow, SinkInvariance, PTL
\* A post that commits takes effect at that moment: the row it has held since its lookup
\* is alive and its sender's, and its event is applied now or was before.
LEMMA DeliveryIsAtomic ==
  ASSUME Sink!ScmdbSinkAssumption, SinkInv, NEW s \in Keys, Sink!Ignore(s) \/ Sink!Finish(s)
  PROVE  Atomic!Deliver(token[s], event[s], sender[s], kind[s])
<1> DEFINE t == token[s]
<1>1. siPc[s] \in Posting /\ Sink!Commit(s)
  BY DEF Sink!Ignore, Sink!Finish, Posting
<1>2. t \in Creates /\ event[s] \in Nesting /\ sender[s] \in Nesting
  BY <1>1 DEF SinkInv, Carries
<1>3. /\ connection[t] \in Sink!Alive
      /\ s \in binds => identity[t] = None /\ kind[s] = "profile"
      /\ s \notin binds => kind[s] = "inventory" \/ identity[t] = sender[s]
  BY <1>1 DEF SinkInv, Holds
<1>4. /\ identity' = IF s \in binds THEN [identity EXCEPT ![t] = sender[s]] ELSE identity
      /\ connection' = IF connection[t] = "pending" THEN [connection EXCEPT ![t] = "connected"] ELSE connection
      /\ accepted' = accepted \cup {event[s]}
  BY <1>1 DEF Sink!Commit
<1>5. connection' = [connection EXCEPT ![t] = "connected"]
  <2>1. connection \in [Creates -> {"none", "revoked"} \cup Sink!Alive]
    BY DEF SinkInv, Typed
  <2>2. connection[t] = "pending" \/ connection[t] = "connected"
    BY <1>3 DEF Sink!Alive
  <2> QED
    BY <1>2, <1>4, <2>1, <2>2
<1>6. identity' = IF kind[s] = "profile" THEN [identity EXCEPT ![t] = sender[s]] ELSE identity
  <2>1. identity \in [Creates -> Nesting \cup {None}]
    BY DEF SinkInv, Typed
  <2> QED
    BY <1>2, <1>3, <1>4, <2>1
<1>7. counted' = [counted EXCEPT ![event[s]] = 1]
  <2>1. counted \in [Nesting -> Nat] /\ counted[event[s]] = IF event[s] \in events THEN 1 ELSE 0
    BY <1>2 DEF SinkInv, Typed, Once
  <2>2. CASE Sink!Ignore(s)
    <3>1. event[s] \in events /\ counted' = counted
      BY <2>2 DEF Sink!Ignore, Sink!Duplicate
    <3> QED
      BY <1>2, <2>1, <3>1
  <2>3. CASE Sink!Finish(s)
    <3>1. siPc[s] = "recorded" /\ counted' = [counted EXCEPT ![event[s]] = counted[event[s]] + 1]
      BY <2>3 DEF Sink!Finish
    <3>2. counted[event[s]] = 0
      BY <2>1, <3>1 DEF SinkInv, RecordsFirst
    <3> QED
      BY <3>1, <3>2
  <2> QED
    BY <2>2, <2>3
<1>8. connection[t] \in Atomic!Alive /\ Atomic!Belongs(t, sender[s], kind[s])
  BY <1>3 DEF Sink!Alive, Atomic!Alive, Atomic!Belongs
<1> QED
  BY <1>4, <1>5, <1>6, <1>7, <1>8 DEF Atomic!Deliver

\* A request that is rolled back has had no effect.
LEMMA RollbackIsNothing == \A r : Sink!Rollback(r) => UNCHANGED Atomic!vars
  BY DEF Sink!Rollback, Sink!tables, Sink!history, Atomic!vars

\* Nor has what a post does before its commit.
LEMMA BeforeIsNothing ==
  ASSUME NEW s \in Keys,
         \/ \E t \in Creates, e \in Nesting, u \in Nesting, k \in Sink!Kinds : Sink!Receive(s, t, e, u, k)
         \/ Sink!Bind(s) \/ Sink!Proceed(s) \/ Sink!Apply(s) \/ Sink!Record(s)
  PROVE  UNCHANGED Atomic!vars
<1> USE DEF Sink!tables, Sink!history, Atomic!vars
<1>1. CASE \E t \in Creates, e \in Nesting, u \in Nesting, k \in Sink!Kinds : Sink!Receive(s, t, e, u, k)
  BY <1>1 DEF Sink!Receive
<1>2. CASE Sink!Bind(s)
  BY <1>2, RollbackIsNothing DEF Sink!Bind
<1>3. CASE Sink!Proceed(s)
  BY <1>3 DEF Sink!Proceed
<1>4. CASE Sink!Apply(s)
  BY <1>4, RollbackIsNothing DEF Sink!Apply
<1>5. CASE Sink!Record(s)
  BY <1>5, RollbackIsNothing DEF Sink!Record
<1> QED
  BY <1>1, <1>2, <1>3, <1>4, <1>5

\* A connection is made, or all are ended, at one moment.
LEMMA ConnectionIsAtomic ==
  ASSUME NEW c \in Peers, Sink!Disconnect(c) \/ (\E t \in Creates : Sink!Connect(c, t))
  PROVE  Atomic!Disconnect \/ (\E t \in Creates : Atomic!Connect(t))
<1>1. \A states : Sink!Revoked(states) = Atomic!Revoked(states)
  BY DEF Sink!Revoked, Atomic!Revoked
<1>2. CASE Sink!Disconnect(c)
  <2>1. connection' = Sink!Revoked(Sink!Alive) /\ Sink!Alive = Atomic!Alive
        /\ UNCHANGED <<identity, counted, accepted>>
    BY <1>2 DEF Sink!Disconnect, Sink!Alive, Atomic!Alive, Sink!history
  <2> QED
    BY <1>1, <2>1 DEF Atomic!Disconnect
<1>3. ASSUME NEW t \in Creates, Sink!Connect(c, t) PROVE Atomic!Connect(t)
  <2>1. /\ connection[t] = "none" /\ connection' = [Sink!Revoked({"pending"}) EXCEPT ![t] = "pending"]
        /\ UNCHANGED <<identity, counted, accepted>>
    BY <1>3 DEF Sink!Connect, Sink!history
  <2> QED
    BY <1>1, <2>1 DEF Atomic!Connect
<1> QED
  BY <1>2, <1>3

\* Every step of posts and connects is one step of the promise, or none.
LEMMA AtomicStep ==
  ASSUME Sink!ScmdbSinkAssumption, SinkInv, [Sink!Next]_(Sink!vars)
  PROVE  [Atomic!Next]_(Atomic!vars)
<1>1. CASE UNCHANGED Sink!vars
  BY <1>1 DEF Sink!vars, Sink!tables, Sink!history, Atomic!vars
<1>2. ASSUME NEW s \in Keys, Sink!Ignore(s) \/ Sink!Finish(s) PROVE Atomic!Next
  <2>1. siPc[s] \in Posting /\ kind[s] \in Sink!Kinds \cup {"none"}
    BY <1>2 DEF Sink!Ignore, Sink!Finish, Posting, SinkInv, Typed
  <2>2. token[s] \in Creates /\ event[s] \in Nesting /\ sender[s] \in Nesting
    BY <2>1 DEF SinkInv, Carries
  <2>3. kind[s] \in {"profile", "inventory", "blueprint"}
    BY <2>1 DEF SinkInv, Carries, Sink!Kinds
  <2> QED
    BY <1>2, <2>2, <2>3, DeliveryIsAtomic DEF Atomic!Next
<1>3. ASSUME NEW c \in Peers, Sink!Disconnect(c) \/ (\E t \in Creates : Sink!Connect(c, t))
      PROVE  Atomic!Next
  BY <1>3, ConnectionIsAtomic DEF Atomic!Next
<1>4. CASE Sink!Next
  <2>1. CASE \E s \in Keys : Sink!Ignore(s) \/ Sink!Finish(s)
    BY <1>2, <2>1
  <2>2. CASE \E c \in Peers : Sink!Disconnect(c) \/ (\E t \in Creates : Sink!Connect(c, t))
    BY <1>3, <2>2
  <2>3. CASE \E s \in Keys :
               \/ \E t \in Creates, e \in Nesting, u \in Nesting, k \in Sink!Kinds : Sink!Receive(s, t, e, u, k)
               \/ Sink!Bind(s) \/ Sink!Proceed(s) \/ Sink!Apply(s) \/ Sink!Record(s)
    BY <2>3, BeforeIsNothing
  <2>4. CASE \E c \in Peers : Sink!ConnectBegin(c) \/ \E s \in Keys : Sink!Abort(s, c)
    <3>1. \A c \in Peers : Sink!ConnectBegin(c) => UNCHANGED Atomic!vars
      BY DEF Sink!ConnectBegin, Sink!tables, Sink!history, Atomic!vars
    <3>2. \A c \in Peers, s \in Keys : Sink!Abort(s, c) => UNCHANGED Atomic!vars
      BY RollbackIsNothing DEF Sink!Abort
    <3> QED
      BY <2>4, <3>1, <3>2
  <2> QED
    BY <1>4, <2>1, <2>2, <2>3, <2>4 DEF Sink!Next
<1> QED
  BY <1>1, <1>4

\* Whatever deliveries, repeated events, connects, disconnects and aborted transactions
\* interleave, the sink is one whose deliveries take effect at one moment each.
THEOREM SinkRefinement == PartsSpec => SinkIsAtomic
<1>1. Sink!Init => Atomic!Init
  BY DEF Sink!Init, Atomic!Init
<1>2. SinkInv /\ [Sink!Next]_(Sink!vars) => [Atomic!Next]_(Atomic!vars)
  BY PartsAssumption, AtomicStep
<1> QED
  BY <1>1, <1>2, PartsAssumption, PartsFollow, SinkInvariance, PTL DEF Sink!Spec, Atomic!Spec, SinkIsAtomic

-----------------------------------------------------------------------------
(* The history. *)

\* The component's own copies of these operators of FiniteSets are those of FiniteSets.
LEMMA ViewSets == \A S : View!Cardinality(S) = Cardinality(S) /\ (View!IsFiniteSet(S) <=> IsFiniteSet(S))
  BY DEF View!Cardinality, Cardinality, View!IsFiniteSet, IsFiniteSet

\* And these two of SequencesExt are those that are written out here.
LEMMA ViewSeqs == \A s : View!Last(s) = s[Len(s)] /\ View!ToSet(s) = {s[i] : i \in DOMAIN s}
  BY DEF View!Last, View!ToSet

\* The order in which rows are listed, newest first.
LEMMA OlderIs ==
  ASSUME View!HistoryViewAssumption, NEW r \in View!Row, NEW s \in View!Row, NEW t \in View!Row
  PROVE  /\ ~View!Older(r, r)
         /\ View!Older(r, s) /\ View!Older(s, t) => View!Older(r, t)
         /\ View!Older(r, s) \/ r = s \/ View!Older(s, r)
         /\ ~(View!Older(r, s) /\ View!Older(s, r))
<1>1. /\ r.at \in Int /\ s.at \in Int /\ t.at \in Int
      /\ r.id \in Int /\ s.id \in Int /\ t.id \in Int
      /\ r.at = s.at /\ r.id = s.id => r = s
  <2>1. \A x \in View!Row : x.at \in Int /\ x.id \in Int
    <3>1. Ids \subseteq Int /\ 1..LastInstant \subseteq Int  BY DEF View!HistoryViewAssumption
    <3>2. \A x \in View!Row : x.at \in 1..LastInstant /\ x.id \in Ids  BY DEF View!Row
    <3>. QED  BY <3>1, <3>2
  <2>2. r = [at |-> r.at, id |-> r.id] /\ s = [at |-> s.at, id |-> s.id]  BY DEF View!Row
  <2>. QED  BY <2>1, <2>2
<1>. QED  BY <1>1 DEF View!Older

\* The place of a row among those found: how many of them are newer.
PlaceIn(r, found) == View!Cardinality(View!Newer(r, found))

\* A place is a number less than how many were found, and the newer row has the lesser one.
LEMMA PlaceIs ==
  ASSUME View!HistoryViewAssumption, NEW found \in SUBSET View!Row, IsFiniteSet(found), NEW r \in found
  PROVE  /\ PlaceIn(r, found) \in 0..(Cardinality(found) - 1)
         /\ \A s \in found : View!Older(r, s) <=> PlaceIn(s, found) < PlaceIn(r, found)
<1>1. \A s \in found : View!Newer(s, found) \in SUBSET found /\ IsFiniteSet(View!Newer(s, found))
  BY FS_Subset DEF View!Newer
<1>2. \A s \in found : PlaceIn(s, found) \in Nat
  BY <1>1, FS_CardinalityType, ViewSets DEF PlaceIn
<1>3. ASSUME NEW x \in found, NEW y \in found, View!Older(x, y)
      PROVE  PlaceIn(y, found) < PlaceIn(x, found)
  <2>1. View!Newer(y, found) \in SUBSET View!Newer(x, found)
    BY <1>3, OlderIs DEF View!Newer
  <2>2. y \in View!Newer(x, found) /\ y \notin View!Newer(y, found)
    BY <1>3, OlderIs DEF View!Newer
  <2>3. View!Newer(x, found) # View!Newer(y, found)  BY <2>2
  <2>. QED  BY <1>1, <1>2, <2>1, <2>3, FS_Subset, ViewSets DEF PlaceIn
<1>4. \A s \in found : View!Older(r, s) <=> PlaceIn(s, found) < PlaceIn(r, found)
  <2>1. ASSUME NEW s \in found, PlaceIn(s, found) < PlaceIn(r, found) PROVE View!Older(r, s)
    <3>1. r # s  BY <1>2, <2>1
    <3>2. ~View!Older(s, r)  BY <1>2, <1>3, <2>1
    <3>. QED  BY <3>1, <3>2, OlderIs
  <2>. QED  BY <1>3, <2>1
<1>5. PlaceIn(r, found) < Cardinality(found)
  <2>1. r \notin View!Newer(r, found)  BY OlderIs DEF View!Newer
  <2>2. View!Newer(r, found) # found  BY <2>1
  <2>3. Cardinality(found) \in Nat  BY FS_CardinalityType
  <2>. QED  BY <1>1, <1>2, <2>2, <2>3, FS_Subset, ViewSets DEF PlaceIn
<1>6. Cardinality(found) \in Nat  BY FS_CardinalityType
<1>. QED  BY <1>2, <1>4, <1>5, <1>6

\* Every place is taken, by one row.
LEMMA PlacesAre ==
  ASSUME View!HistoryViewAssumption, NEW found \in SUBSET View!Row, IsFiniteSet(found)
  PROVE  /\ Cardinality(found) \in Nat
         /\ \A i \in 0..(Cardinality(found) - 1) : \E r \in found : PlaceIn(r, found) = i
         /\ \A r, s \in found : PlaceIn(r, found) = PlaceIn(s, found) => r = s
<1>. DEFINE n == Cardinality(found)
            f == [r \in found |-> PlaceIn(r, found)]
<1>0. n \in Nat  BY FS_CardinalityType
<1>1. \A r \in found : PlaceIn(r, found) \in 0..(n - 1)  BY PlaceIs
<1>2. \A r, s \in found : PlaceIn(r, found) = PlaceIn(s, found) => r = s
  <2>1. SUFFICES ASSUME NEW r \in found, NEW s \in found, PlaceIn(r, found) = PlaceIn(s, found) PROVE r = s
    OBVIOUS
  <2>2. PlaceIn(r, found) \in Int /\ PlaceIn(s, found) \in Int  BY <1>0, <1>1
  <2>3. ~View!Older(r, s) /\ ~View!Older(s, r)  BY <2>1, <2>2, PlaceIs
  <2>. QED  BY <2>3, OlderIs
<1>3. f \in Injection(found, 0..(n - 1))
  <2>. HIDE DEF n
  <2>1. f \in [found -> 0..(n - 1)]  BY <1>1
  <2>2. \A r, s \in found : f[r] = f[s] => r = s  BY <1>2
  <2>. HIDE DEF f
  <2>. QED  BY <2>1, <2>2 DEF Injection, IsInjective
<1>4. IsFiniteSet(0..(n - 1)) /\ Cardinality(0..(n - 1)) = n
  <2>1. 0 \in Int /\ n - 1 \in Int  BY <1>0
  <2>. HIDE DEF n
  <2>. QED  BY <1>0, <2>1, FS_Interval
<1>5. f \in Surjection(found, 0..(n - 1))
  <2>. HIDE DEF f
  <2>. QED  BY <1>3, <1>4, FS_Injection
<1>6. \A i \in 0..(n - 1) : \E r \in found : f[r] = i
  <2>. HIDE DEF f, n
  <2>. QED  BY <1>5 DEF Surjection
<1>. QED  BY <1>0, <1>2, <1>6

\* A page of what was found after a cursor, and where it can be continued: in order, and
\* none is left out down to there.
Pages(found, page, next) ==
  /\ page \in Seq(View!Row) /\ Len(page) <= PageSize
  /\ \A i \in 1..Len(page) : page[i] \in found
  /\ \A i \in 1..(Len(page) - 1) : View!Older(page[i + 1], page[i])
  /\ next # None => page # <<>> /\ next = View!Last(page)
  /\ \A r \in found : next = None \/ ~View!Older(r, next) => \E i \in 1..Len(page) : page[i] = r

\* One page of the list is such a page of what matches the cursor.
LEMMA ListedIs ==
  ASSUME View!HistoryViewAssumption, NEW after, IsFiniteSet(viRows), viRows \subseteq View!Row
  PROVE  Pages(View!Matching(after), View!Listed(after).page, View!Listed(after).next)
<1>. DEFINE found == View!Matching(after)
            n == View!Cardinality(found)
            size == IF n > PageSize THEN PageSize ELSE n
            page == View!Listed(after).page
            next == View!Listed(after).next
<1>1. found \in SUBSET View!Row /\ IsFiniteSet(found)
  <2>1. found \in SUBSET viRows  BY DEF View!Matching
  <2>. QED  BY <2>1, FS_Subset
<1>2. /\ page = [i \in 1..size |-> CHOOSE r \in found : PlaceIn(r, found) = i - 1]
      /\ next = IF n > PageSize THEN View!Last(page) ELSE None
  BY DEF View!Listed, PlaceIn
<1>. HIDE DEF found, page, next
<1>3. /\ n \in Nat
      /\ \A i \in 0..(n - 1) : \E r \in found : PlaceIn(r, found) = i
      /\ \A r, s \in found : PlaceIn(r, found) = PlaceIn(s, found) => r = s
  BY <1>1, PlacesAre, ViewSets
<1>4. PageSize \in Nat \ {0}  BY DEF View!HistoryViewAssumption
<1>. HIDE DEF n
<1>5. size \in Nat /\ size <= PageSize /\ size <= n /\ (n > PageSize => size = PageSize) /\ (n <= PageSize => size = n)
  BY <1>3, <1>4
<1>. HIDE DEF size
<1>6. ASSUME NEW i \in 1..size PROVE page[i] \in found /\ PlaceIn(page[i], found) = i - 1
  <2>1. i - 1 \in 0..(n - 1)  BY <1>3, <1>5, <1>6
  <2>2. \E r \in found : PlaceIn(r, found) = i - 1  BY <1>3, <2>1
  <2>. QED  BY <1>2, <2>2
<1>7. page \in [1..size -> View!Row]  BY <1>1, <1>2, <1>6
<1>8. page \in Seq(View!Row) /\ Len(page) = size
  <2>1. page \in Seq(View!Row)  BY <1>5, <1>7, SeqDef
  <2>2. DOMAIN page = 1..Len(page) /\ Len(page) \in Nat  BY <2>1, LenProperties
  <2>3. DOMAIN page = 1..size  BY <1>7
  <2>4. PICK m \in Nat : m = Len(page)  BY <2>2
  <2>5. 1..m = 1..size  BY <2>2, <2>3, <2>4
  <2>6. m \in 1..m \/ m = 0  BY <2>4
  <2>7. size \in 1..size \/ size = 0  BY <1>5
  <2>8. m = size  BY <1>5, <2>4, <2>5, <2>6, <2>7
  <2>. QED  BY <2>1, <2>4, <2>8
<1>9. ASSUME NEW i \in 1..(size - 1) PROVE View!Older(page[i + 1], page[i])
  <2>1. i \in 1..size /\ i + 1 \in 1..size  BY <1>5, <1>9
  <2>2. PlaceIn(page[i], found) < PlaceIn(page[i + 1], found)  BY <1>6, <2>1
  <2>. QED  BY <1>1, <1>6, <2>1, <2>2, PlaceIs
<1>10. next # None => n > PageSize /\ page # <<>> /\ next = View!Last(page)
  <2>1. next # None => n > PageSize /\ next = View!Last(page)  BY <1>2
  <2>2. n > PageSize => Len(page) # 0  BY <1>4, <1>5, <1>8
  <2>. QED  BY <2>1, <2>2
<1>11. ASSUME NEW r \in found, next = None \/ ~View!Older(r, next)
       PROVE  \E i \in 1..size : page[i] = r
  <2>1. PlaceIn(r, found) \in 0..(n - 1)  BY <1>1, PlaceIs, ViewSets DEF n
  <2>2. PlaceIn(r, found) <= size - 1
    <3>1. CASE n <= PageSize  BY <1>3, <1>5, <2>1, <3>1
    <3>2. CASE n > PageSize
      <4>1. size = PageSize /\ size \in 1..size  BY <1>3, <1>4, <1>5, <3>2
      <4>2. page[size] \in found /\ PlaceIn(page[size], found) = size - 1  BY <1>6, <4>1
      <4>3. next = page[size]  BY <1>2, <1>8, <3>2 DEF View!Last
      <4>4. next # None  BY <1>1, <4>2, <4>3 DEF View!HistoryViewAssumption, View!Row
      <4>5. ~(PlaceIn(page[size], found) < PlaceIn(r, found))  BY <1>1, <1>11, <4>2, <4>3, <4>4, PlaceIs
      <4>. QED  BY <1>3, <1>5, <2>1, <4>2, <4>5
    <3>. QED  BY <1>3, <1>4, <3>1, <3>2
  <2>3. PlaceIn(r, found) + 1 \in 1..size  BY <1>3, <1>5, <2>1, <2>2
  <2>4. PICK i \in 1..size : i = PlaceIn(r, found) + 1  BY <2>3
  <2>5. PlaceIn(page[i], found) = PlaceIn(r, found) /\ page[i] \in found
    <3>1. i - 1 = PlaceIn(r, found)  BY <1>3, <2>1, <2>4
    <3>. QED  BY <1>6, <3>1
  <2>. QED  BY <1>3, <2>5
<1>12. Pages(found, page, next)
  BY <1>5, <1>6, <1>8, <1>9, <1>10, <1>11 DEF Pages
<1>. QED  BY <1>12 DEF found, page, next

\* A request of the page, typed.
PageRequest == [kind : {"none", "more", "reload", "delete"}, step : {"idle", "sent", "served"},
            after : View!Row \cup {None}, page : Seq(View!Row), next : View!Row \cup {None}, seen : SUBSET View!Row]

\* The types of the history and of its page.
ViewTyped ==
  /\ viNow \in 1..LastInstant /\ IsFiniteSet(viRows) /\ viRows \subseteq past /\ past \subseteq View!Row
  /\ viEntries \in Seq(View!Row) /\ \A i \in 1..Len(viEntries) : viEntries[i] \in past
  /\ cursor \in past \cup {None} /\ buttons \subseteq {"more", "delete"}
  /\ "more" \in buttons => cursor # None
  /\ call \in [Peers -> PageRequest] /\ since \subseteq past /\ overlapped \in BOOLEAN

\* What a request has been told is a page of rows that were there together, and the first
\* page unless it asks for more.
Told(q) ==
  LET c == call[q] IN
  /\ c.kind = "none" <=> c = View!Idle
  /\ c.seen \subseteq past /\ c.after \in past \cup {None}
  /\ c.kind \in {"reload", "delete"} => c.after = None
  /\ c.kind = "delete" => c.seen = {} /\ c.page = <<>> /\ c.next = None
  /\ c.step # "served" => c.page = <<>> /\ c.next = None
  /\ c.step = "served" /\ c.kind \in {"more", "reload"} =>
       Pages({r \in c.seen : c.after = None \/ View!Older(r, c.after)}, c.page, c.next)

\* While the owner does one thing at a time, one request is open, and one for more goes
\* on where the list ends, with what there is of the rows that the list should have.
Alone(q) ==
  call[q] # View!Idle =>
    /\ ~View!Busy(q)
    /\ call[q].kind = "more" =>
         /\ cursor # None /\ call[q].after = cursor
         /\ call[q].step = "served" => since \cap viRows \subseteq call[q].seen

\* ViewIsFaithful, in the words of Pages.
Faithful ==
  /\ \A i \in 1..(Len(viEntries) - 1) : View!Older(viEntries[i + 1], viEntries[i])
  /\ cursor # None => viEntries # <<>> /\ cursor = View!Last(viEntries)
  /\ \A r \in since \cap viRows :
       cursor = None \/ ~View!Older(r, cursor) => \E i \in 1..Len(viEntries) : viEntries[i] = r

\* The invariant of the history: what a request was told holds whatever overlaps, what
\* the list says of the rows while nothing does.
ViewInv ==
  /\ ViewTyped /\ \A q \in Peers : Told(q)
  /\ ~overlapped => Faithful /\ \A q \in Peers : Alone(q)

\* Before the page is mounted nothing is listed and nothing is open.
LEMMA ViewInit == ASSUME View!HistoryViewAssumption, View!Init PROVE ViewInv
<1>. USE DEF View!Init
<1>1. <<>> \in Seq(View!Row) /\ Len(<<>>) = 0  BY EmptySeq
<1>2. View!Idle \in PageRequest /\ View!Idle.kind = "none"  BY <1>1 DEF View!Idle, PageRequest
<1>3. ViewTyped
  <2>1. call \in [Peers -> PageRequest]  BY <1>2
  <2>2. 1 \in 1..LastInstant  BY DEF View!HistoryViewAssumption
  <2>3. \A i \in 1..Len(viEntries) : FALSE  BY <1>1
  <2>. QED  BY <1>1, <2>1, <2>2, <2>3, FS_EmptySet DEF ViewTyped
<1>4. \A q \in Peers : call[q] = View!Idle  OBVIOUS
<1>5. \A q \in Peers : Told(q)  BY <1>4 DEF Told, View!Idle
<1>6. Faithful  BY <1>1 DEF Faithful
<1>. QED  BY <1>3, <1>4, <1>5, <1>6 DEF ViewInv, Alone

\* The rows change, or the clock: what is open and what is listed does not.
LEMMA ViewServer ==
  ASSUME View!HistoryViewAssumption, ViewInv, UNCHANGED <<viEntries, cursor, call, since>>,
         viNow' \in 1..LastInstant, IsFiniteSet(viRows'), viRows' \subseteq past', past \subseteq past', past' \subseteq View!Row,
         viRows' \cap past \subseteq viRows, buttons' \subseteq {"more", "delete"}, "more" \in buttons' => cursor # None,
         overlapped' = overlapped
  PROVE  ViewInv'
<1>1. ViewTyped'  BY DEF ViewInv, ViewTyped
<1>2. ASSUME NEW q \in Peers PROVE Told(q)'
  <2>1. Told(q)  BY DEF ViewInv
  <2>. QED  BY <2>1 DEF Told
<1>3. ASSUME ~overlapped PROVE (Faithful /\ \A q \in Peers : Alone(q))'
  <2>1. since \cap viRows' \subseteq since \cap viRows  BY DEF ViewInv, ViewTyped
  <2>2. Faithful'  BY <1>3, <2>1 DEF ViewInv, Faithful
  <2>3. ASSUME NEW q \in Peers PROVE Alone(q)'
    <3>1. Alone(q)  BY <1>3 DEF ViewInv
    <3>. QED  BY <2>1, <3>1 DEF Alone, View!Busy
  <2>. QED  BY <2>2, <2>3
<1>. QED  BY <1>1, <1>2, <1>3 DEF ViewInv

\* A button opens a request, which overlaps every one that is open.
LEMMA ViewPress ==
  ASSUME View!HistoryViewAssumption, ViewInv, NEW q \in Peers, NEW k \in {"more", "delete", "reload"}, View!Press(q, k)
  PROVE  ViewInv'
<1>. DEFINE c == [View!Idle EXCEPT !.kind = k, !.step = "sent", !.after = IF k = "more" THEN cursor ELSE None]
<1>0. ViewTyped /\ call[q] = View!Idle  BY DEF ViewInv, View!Press
<1>1. /\ UNCHANGED <<viNow, viRows, past, viEntries, cursor, since>> /\ buttons' = buttons \ {k}
      /\ call' = [call EXCEPT ![q] = c] /\ overlapped' = (overlapped \/ View!Busy(q))
      /\ k = "more" => cursor # None
  BY <1>0 DEF View!Press, View!server, ViewTyped
<1>2. /\ c.kind = k /\ c.step = "sent" /\ c.after = IF k = "more" THEN cursor ELSE None
      /\ c.page = <<>> /\ c.next = None /\ c.seen = {} /\ c # View!Idle /\ c \in PageRequest
  <2>1. <<>> \in Seq(View!Row)  BY EmptySeq
  <2>2. cursor \in View!Row \cup {None}  BY <1>0 DEF ViewTyped
  <2>3. /\ View!Idle.step = "idle" /\ View!Idle.page = <<>> /\ View!Idle.next = None /\ View!Idle.seen = {} /\ View!Idle.after = None
        /\ View!Idle.kind = "none"
    BY DEF View!Idle
  <2>4. View!Idle \in PageRequest  BY <2>1 DEF View!Idle, PageRequest
  <2>5. c.step = "sent" /\ c.kind = k  BY <2>4 DEF PageRequest
  <2>. QED  BY <2>1, <2>2, <2>3, <2>4, <2>5 DEF PageRequest
<1>. HIDE DEF c
<1>3. call' \in [Peers -> PageRequest] /\ call'[q] = c /\ \A o \in Peers \ {q} : call'[o] = call[o]
  BY <1>0, <1>1, <1>2 DEF ViewTyped
<1>4. ViewTyped'  BY <1>0, <1>1, <1>3 DEF ViewTyped, View!Busy
<1>5. ASSUME NEW o \in Peers PROVE Told(o)'
  <2>1. CASE o = q
    BY <1>0, <1>1, <1>2, <1>3, <2>1 DEF Told, ViewTyped
  <2>2. CASE o # q
    <3>1. Told(o)  BY DEF ViewInv
    <3>. QED  BY <1>1, <1>3, <2>2, <3>1 DEF Told
  <2>. QED  BY <2>1, <2>2
<1>6. ASSUME ~overlapped' PROVE (Faithful /\ \A o \in Peers : Alone(o))'
  <2>1. ~overlapped /\ \A o \in Peers \ {q} : call[o] = View!Idle
    BY <1>0, <1>1, <1>6 DEF View!Busy, ViewTyped
  <2>2. Faithful'  BY <1>1, <2>1 DEF ViewInv, Faithful
  <2>3. ASSUME NEW o \in Peers PROVE Alone(o)'
    <3>1. CASE o = q  BY <1>1, <1>2, <1>3, <2>1, <3>1 DEF Alone, View!Busy
    <3>2. CASE o # q  BY <1>3, <2>1, <3>2 DEF Alone
    <3>. QED  BY <3>1, <3>2
  <2>. QED  BY <2>2, <2>3
<1>. QED  BY <1>4, <1>5, <1>6 DEF ViewInv

\* A query answers with a page of the rows that match now.
LEMMA ViewList ==
  ASSUME View!HistoryViewAssumption, ViewInv, NEW q \in Peers, View!List(q)
  PROVE  ViewInv'
<1>. DEFINE found == View!Listed(call[q].after)
            c == [call[q] EXCEPT !.step = "served", !.page = found.page, !.next = found.next, !.seen = viRows]
<1>0. ViewTyped /\ call[q] \in PageRequest /\ Told(q)  BY DEF ViewInv, ViewTyped
<1>1. /\ UNCHANGED <<viNow, viRows, past, viEntries, cursor, buttons, since, overlapped>>
      /\ call' = [call EXCEPT ![q] = c] /\ call[q].step = "sent" /\ call[q].kind \in {"more", "reload"}
  BY DEF View!List, View!server
<1>2. Pages(View!Matching(call[q].after), found.page, found.next)
  BY <1>0, ListedIs DEF ViewTyped
<1>3. found.page \in Seq(View!Row) /\ found.next \in past \cup {None}
  <2>1. found.next # None => found.next \in View!Matching(call[q].after)
    <3>1. ASSUME found.next # None PROVE found.next \in View!Matching(call[q].after)
      <4>. DEFINE page == found.page
      <4>1. page \in Seq(View!Row) /\ page # <<>> /\ found.next = View!Last(page) /\ \A i \in 1..Len(page) : page[i] \in View!Matching(call[q].after)
        BY <1>2, <3>1 DEF Pages
      <4>. HIDE DEF page
      <4>2. Len(page) \in 1..Len(page)  BY <4>1, EmptySeq
      <4>. QED  BY <4>1, <4>2 DEF View!Last
    <3>. QED  BY <3>1
  <2>. HIDE DEF found
  <2>. QED  BY <1>0, <1>2, <2>1 DEF Pages, View!Matching, ViewTyped
<1>4. /\ c.kind = call[q].kind /\ c.step = "served" /\ c.after = call[q].after
      /\ c.page = found.page /\ c.next = found.next /\ c.seen = viRows /\ c # View!Idle /\ c \in PageRequest
  <2>1. viRows \in SUBSET View!Row /\ found.next \in View!Row \cup {None}  BY <1>0, <1>3 DEF ViewTyped
  <2>2. View!Idle.step = "idle"  BY DEF View!Idle
  <2>. HIDE DEF found
  <2>3. c.step = "served"  BY <1>0 DEF PageRequest
  <2>. QED  BY <1>0, <1>3, <2>1, <2>2, <2>3 DEF PageRequest
<1>. HIDE DEF c, found
<1>5. call' \in [Peers -> PageRequest] /\ call'[q] = c /\ \A o \in Peers \ {q} : call'[o] = call[o]
  BY <1>0, <1>1, <1>4 DEF ViewTyped
<1>6. ViewTyped'  BY <1>0, <1>1, <1>5 DEF ViewTyped
<1>7. ASSUME NEW o \in Peers PROVE Told(o)'
  <2>1. CASE o = q
    <3>1. Pages({r \in c.seen : c.after = None \/ View!Older(r, c.after)}, c.page, c.next)
      BY <1>2, <1>4 DEF View!Matching
    <3>2. c.seen \subseteq past /\ c.after \in past \cup {None} /\ c.kind \in {"more", "reload"}
          /\ (c.kind = "reload" => c.after = None)
      BY <1>0, <1>1, <1>4 DEF Told, ViewTyped
    <3>3. call'[o] = c /\ past' = past  BY <1>1, <1>5, <2>1
    <3>. QED  BY <1>4, <3>1, <3>2, <3>3 DEF Told
  <2>2. CASE o # q
    <3>1. Told(o)  BY DEF ViewInv
    <3>. QED  BY <1>1, <1>5, <2>2, <3>1 DEF Told
  <2>. QED  BY <2>1, <2>2
<1>8. ASSUME ~overlapped PROVE (Faithful /\ \A o \in Peers : Alone(o))'
  <2>1. Alone(q) /\ call[q] # View!Idle  BY <1>1, <1>8 DEF ViewInv, View!Idle
  <2>2. \A o \in Peers \ {q} : call[o] = View!Idle  BY <2>1 DEF Alone, View!Busy
  <2>3. Faithful'  BY <1>1, <1>8 DEF ViewInv, Faithful
  <2>4. ASSUME NEW o \in Peers PROVE Alone(o)'
    <3>1. CASE o = q
      BY <1>1, <1>4, <1>5, <2>1, <2>2, <3>1 DEF Alone, View!Busy
    <3>2. CASE o # q  BY <1>5, <2>2, <3>2 DEF Alone
    <3>. QED  BY <3>1, <3>2
  <2>. QED  BY <2>3, <2>4
<1>. QED  BY <1>1, <1>6, <1>7, <1>8 DEF ViewInv

\* Deleting leaves no row that the list would have to have.
LEMMA ViewDelete ==
  ASSUME View!HistoryViewAssumption, ViewInv, NEW q \in Peers, View!DeleteHistory(q)
  PROVE  ViewInv'
<1>. DEFINE c == [call[q] EXCEPT !.step = "served"]
<1>0. ViewTyped /\ call[q] \in PageRequest /\ Told(q)  BY DEF ViewInv, ViewTyped
<1>1. /\ UNCHANGED <<viNow, past, viEntries, cursor, buttons, since, overlapped>> /\ viRows' = {}
      /\ call' = [call EXCEPT ![q] = c] /\ call[q].step = "sent" /\ call[q].kind = "delete"
  BY DEF View!DeleteHistory
<1>2. /\ c.kind = "delete" /\ c.step = "served" /\ c.after = call[q].after /\ c.page = call[q].page
      /\ c.next = call[q].next /\ c.seen = call[q].seen /\ c # View!Idle /\ c \in PageRequest
  <2>1. View!Idle.step = "idle"  BY DEF View!Idle
  <2>2. c.step = "served"  BY <1>0 DEF PageRequest
  <2>. QED  BY <1>0, <1>1, <2>1, <2>2 DEF PageRequest
<1>. HIDE DEF c
<1>3. call' \in [Peers -> PageRequest] /\ call'[q] = c /\ \A o \in Peers \ {q} : call'[o] = call[o]
  BY <1>0, <1>1, <1>2 DEF ViewTyped
<1>4. ViewTyped'  BY <1>0, <1>1, <1>3, FS_EmptySet DEF ViewTyped
<1>5. ASSUME NEW o \in Peers PROVE Told(o)'
  <2>1. CASE o = q
    <3>1. call'[o] = c /\ past' = past  BY <1>1, <1>3, <2>1
    <3>2. View!Idle.kind = "none"  BY DEF View!Idle
    <3>. QED  BY <1>0, <1>1, <1>2, <3>1, <3>2 DEF Told
  <2>2. CASE o # q
    <3>1. Told(o)  BY DEF ViewInv
    <3>. QED  BY <1>1, <1>3, <2>2, <3>1 DEF Told
  <2>. QED  BY <2>1, <2>2
<1>6. ASSUME ~overlapped PROVE (Faithful /\ \A o \in Peers : Alone(o))'
  <2>1. Alone(q) /\ call[q] # View!Idle  BY <1>1, <1>6 DEF ViewInv, View!Idle
  <2>2. \A o \in Peers \ {q} : call[o] = View!Idle  BY <2>1 DEF Alone, View!Busy
  <2>3. Faithful'  BY <1>1, <1>6 DEF ViewInv, Faithful
  <2>4. ASSUME NEW o \in Peers PROVE Alone(o)'
    <3>1. CASE o = q
      BY <1>1, <1>2, <1>3, <2>1, <2>2, <3>1 DEF Alone, View!Busy
    <3>2. CASE o # q  BY <1>3, <2>2, <3>2 DEF Alone
    <3>. QED  BY <3>1, <3>2
  <2>. QED  BY <2>3, <2>4
<1>. QED  BY <1>1, <1>4, <1>5, <1>6 DEF ViewInv

\* An answer, or a failure: what it lists has been there, and it is in order unless the
\* owner did something else meanwhile.
LEMMA ViewShow ==
  ASSUME View!HistoryViewAssumption, ViewInv, NEW q \in Peers, call[q] # View!Idle, NEW list \in Seq(View!Row), NEW next \in past \cup {None},
         NEW first \in BOOLEAN, View!Show(q, list, next, first), \A i \in 1..Len(list) : list[i] \in past,
         ~overlapped' => Faithful'
  PROVE  ViewInv'
<1>0. ViewTyped /\ call[q] \in PageRequest /\ Told(q)  BY DEF ViewInv, ViewTyped
<1>1. /\ UNCHANGED <<viNow, viRows, past>> /\ viEntries' = list /\ cursor' = next
      /\ buttons' = {b \in {"more"} : next # None} \cup {b \in {"delete"} : list # <<>>}
      /\ since' = IF first THEN call[q].seen ELSE since
      /\ overlapped' = IF first THEN View!Busy(q) ELSE overlapped
      /\ call' = [call EXCEPT ![q] = View!Idle]
  BY DEF View!Show, View!Render, View!server
<1>2. View!Idle \in PageRequest
  <2>1. <<>> \in Seq(View!Row)  BY EmptySeq
  <2>. QED  BY <2>1 DEF View!Idle, PageRequest
<1>3. call' \in [Peers -> PageRequest] /\ call'[q] = View!Idle /\ \A o \in Peers \ {q} : call'[o] = call[o]
  BY <1>0, <1>1, <1>2 DEF ViewTyped
<1>4. ViewTyped'
  <2>1. since' \subseteq past  BY <1>0, <1>1 DEF ViewTyped, Told
  <2>2. overlapped' \in BOOLEAN  BY <1>0, <1>1 DEF ViewTyped, View!Busy
  <2>. QED  BY <1>0, <1>1, <1>3, <2>1, <2>2 DEF ViewTyped
<1>5. ASSUME NEW o \in Peers PROVE Told(o)'
  <2>1. CASE o = q
    <3>1. call'[o] = View!Idle  BY <1>3, <2>1
    <3>2. View!Idle.seen = {} /\ View!Idle.after = None /\ View!Idle.kind = "none" /\ View!Idle.step = "idle" /\ View!Idle.page = <<>> /\ View!Idle.next = None
      BY DEF View!Idle
    <3>. QED  BY <3>1, <3>2 DEF Told
  <2>2. CASE o # q
    <3>1. Told(o)  BY DEF ViewInv
    <3>. QED  BY <1>1, <1>3, <2>2, <3>1 DEF Told
  <2>. QED  BY <2>1, <2>2
<1>6. ASSUME ~overlapped', NEW o \in Peers PROVE call'[o] = View!Idle
  <2>1. ~View!Busy(q)
    <3>1. CASE first  BY <1>1, <1>6, <3>1
    <3>2. CASE ~first
      <4>1. Alone(q)  BY <1>1, <1>6, <3>2 DEF ViewInv
      <4>. QED  BY <4>1 DEF Alone
    <3>. QED  BY <3>1, <3>2
  <2>. QED  BY <1>3, <2>1 DEF View!Busy
<1>7. ~overlapped' => Faithful' /\ \A o \in Peers : Alone(o)'  BY <1>6 DEF Alone
<1>. QED  BY <1>4, <1>5, <1>7 DEF ViewInv

\* The page of a request is made of rows there have been.
LEMMA PageIs ==
  ASSUME View!HistoryViewAssumption, ViewInv, NEW q \in Peers, call[q].step = "served", call[q].kind \in {"more", "reload"}
  PROVE  LET c == call[q] IN
         /\ c.page \in Seq(View!Row) /\ \A i \in 1..Len(c.page) : c.page[i] \in past
         /\ c.next \in past \cup {None} /\ Len(c.page) \in Nat
         /\ Pages({r \in c.seen : c.after = None \/ View!Older(r, c.after)}, c.page, c.next)
<1>. DEFINE c == call[q]
<1>1. ViewTyped /\ Told(q) /\ c \in PageRequest  BY DEF ViewInv, ViewTyped
<1>2. Pages({r \in c.seen : c.after = None \/ View!Older(r, c.after)}, c.page, c.next) /\ c.seen \subseteq past
  BY <1>1 DEF Told
<1>. HIDE DEF c
<1>3. c.page \in Seq(View!Row) /\ \A i \in 1..Len(c.page) : c.page[i] \in past  BY <1>2 DEF Pages
<1>4. Len(c.page) \in Nat  BY <1>3, LenProperties
<1>5. ASSUME c.next # None PROVE c.next \in past
  <2>1. c.page # <<>> /\ c.next = View!Last(c.page)  BY <1>2, <1>5 DEF Pages
  <2>2. Len(c.page) \in 1..Len(c.page)  BY <1>3, <2>1, EmptySeq
  <2>. QED  BY <1>3, <2>1, <2>2 DEF View!Last
<1>. QED  BY <1>2, <1>3, <1>4, <1>5 DEF c

\* A first page: the list is what it says.
LEMMA ReloadIsFaithful ==
  ASSUME View!HistoryViewAssumption, ViewInv, NEW q \in Peers, call[q].step = "served", call[q].kind = "reload",
         View!Show(q, call[q].page, call[q].next, TRUE)
  PROVE  Faithful'
<1>. DEFINE c == call[q]
<1>1. viEntries' = c.page /\ cursor' = c.next /\ since' = c.seen  BY DEF View!Show, View!Render
<1>2. c.after = None  BY DEF ViewInv, Told
<1>3. Pages(c.seen, c.page, c.next)
  <2>1. {r \in c.seen : c.after = None \/ View!Older(r, c.after)} = c.seen  BY <1>2
  <2>. QED  BY <2>1, PageIs
<1>. HIDE DEF c
<1>. QED  BY <1>1, <1>3 DEF Pages, Faithful

\* One page more: it begins after the last row of the list, and what the list lacks down
\* to there is on it.
LEMMA MoreIsFaithful ==
  ASSUME View!HistoryViewAssumption, ViewInv, NEW q \in Peers, call[q].step = "served", call[q].kind = "more", ~overlapped,
         View!Show(q, viEntries \o call[q].page, call[q].next, FALSE)
  PROVE  Faithful'
<1>. DEFINE c == call[q]
            list == viEntries \o c.page
            m == Len(viEntries)
            n == Len(c.page)
<1>1. viEntries' = list /\ cursor' = c.next /\ since' = since /\ viRows' = viRows
  BY DEF View!Show, View!Render, View!server
<1>2. ViewTyped /\ Told(q) /\ Faithful /\ Alone(q) /\ c # View!Idle  BY DEF ViewInv, Told, View!Idle
<1>3. cursor # None /\ c.after = cursor /\ since \cap viRows \subseteq c.seen /\ cursor \in View!Row
  BY <1>2 DEF Alone, ViewTyped
<1>4. /\ c.page \in Seq(View!Row) /\ n \in Nat /\ viEntries \in Seq(View!Row) /\ m \in Nat /\ m \in 1..m
      /\ cursor = viEntries[m] /\ past \subseteq View!Row /\ \A i \in 1..m : viEntries[i] \in View!Row
  <2>1. c.page \in Seq(View!Row) /\ n \in Nat  BY PageIs
  <2>2. viEntries \in Seq(View!Row) /\ past \subseteq View!Row /\ \A i \in 1..m : viEntries[i] \in View!Row
    BY <1>2 DEF ViewTyped
  <2>3. viEntries # <<>> /\ cursor = viEntries[m]  BY <1>2, <1>3 DEF Faithful, View!Last
  <2>4. m \in Nat \ {0}  BY <2>2, <2>3, EmptySeq
  <2>. QED  BY <2>1, <2>2, <2>3, <2>4
<1>5. Pages({r \in c.seen : View!Older(r, cursor)}, c.page, c.next)
  <2>1. {r \in c.seen : c.after = None \/ View!Older(r, c.after)} = {r \in c.seen : View!Older(r, cursor)}
    BY <1>3
  <2>. QED  BY <2>1, PageIs
<1>. HIDE DEF c
<1>6. /\ Len(list) = m + n
      /\ \A i \in 1..m : list[i] = viEntries[i]
      /\ \A i \in 1..n : list[m + i] = c.page[i]
  BY <1>4, ConcatProperties
<1>. HIDE DEF list, m, n
<1>7. ASSUME NEW i \in 1..(Len(list) - 1) PROVE View!Older(list[i + 1], list[i])
  <2>1. CASE i < m
    <3>1. i \in 1..(m - 1) /\ i \in 1..m /\ i + 1 \in 1..m  BY <1>4, <1>7, <2>1
    <3>. QED  BY <1>2, <1>6, <3>1 DEF Faithful, m
  <2>2. CASE i = m
    <3>1. 1 \in 1..n  BY <1>4, <1>6, <1>7, <2>2
    <3>2. list[m + 1] = c.page[1] /\ list[m] = cursor  BY <1>4, <1>6, <3>1
    <3>3. View!Older(c.page[1], cursor)  BY <1>5, <3>1 DEF Pages, n
    <3>. QED  BY <2>2, <3>2, <3>3
  <2>3. CASE i > m
    <3>0. i - m \in 1..(n - 1) /\ i = m + (i - m)  BY <1>4, <1>6, <1>7, <2>3
    <3>1. PICK j \in 1..(n - 1) : i = m + j  BY <3>0
    <3>2. j \in 1..n /\ j + 1 \in 1..n /\ i + 1 = m + (j + 1)  BY <1>4, <3>1
    <3>3. View!Older(c.page[j + 1], c.page[j])  BY <1>5, <3>1 DEF Pages, n
    <3>. QED  BY <1>6, <3>1, <3>2, <3>3
  <2>. QED  BY <1>4, <1>7, <2>1, <2>2, <2>3
<1>8. ASSUME c.next # None PROVE list # <<>> /\ c.next = View!Last(list)
  <2>1. c.page # <<>> /\ c.next = c.page[n]  BY <1>5, <1>8 DEF Pages, View!Last, n
  <2>2. n \in 1..n  BY <1>4, <2>1, EmptySeq DEF n
  <2>3. list[m + n] = c.page[n] /\ Len(list) # 0  BY <1>4, <1>6, <2>2
  <2>4. Len(<<>>) = 0  BY EmptySeq
  <2>5. list # <<>>  BY <2>3, <2>4
  <2>. QED  BY <1>6, <2>1, <2>3, <2>5 DEF View!Last
<1>9. ASSUME NEW r \in since \cap viRows, c.next = None \/ ~View!Older(r, c.next)
      PROVE  \E i \in 1..Len(list) : list[i] = r
  <2>1. CASE View!Older(r, cursor)
    <3>1. r \in c.seen  BY <1>3, <1>9
    <3>2. PICK i \in 1..n : c.page[i] = r  BY <1>5, <1>9, <2>1, <3>1 DEF Pages, n
    <3>3. m + i \in 1..Len(list)  BY <1>4, <1>6, <3>2
    <3>. QED  BY <1>6, <3>2, <3>3
  <2>2. CASE ~View!Older(r, cursor)
    <3>1. PICK i \in 1..m : viEntries[i] = r  BY <1>2, <1>9, <2>2 DEF Faithful, m
    <3>2. i \in 1..Len(list)  BY <1>4, <1>6, <3>1
    <3>. QED  BY <1>6, <3>1, <3>2
  <2>. QED  BY <2>1, <2>2
<1>. QED  BY <1>1, <1>7, <1>8, <1>9 DEF Faithful

\* The list is replaced by the first page, or goes on with the next.
LEMMA ViewAnswer ==
  ASSUME View!HistoryViewAssumption, ViewInv, NEW q \in Peers, View!Answer(q)
  PROVE  ViewInv'
<1>. DEFINE c == call[q]
<1>0. ViewTyped /\ c \in PageRequest /\ Told(q) /\ c.step = "served" /\ c # View!Idle
  BY DEF ViewInv, ViewTyped, View!Answer, View!Idle
<1>1. CASE c.kind = "more" /\ View!Show(q, viEntries \o c.page, c.next, FALSE)
  <2>1. /\ c.page \in Seq(View!Row) /\ \A i \in 1..Len(c.page) : c.page[i] \in past
        /\ c.next \in past \cup {None} /\ Len(c.page) \in Nat
    BY <1>0, <1>1, PageIs
  <2>2. viEntries \in Seq(View!Row) /\ Len(viEntries) \in Nat /\ \A i \in 1..Len(viEntries) : viEntries[i] \in past
    BY <1>0, LenProperties DEF ViewTyped
  <2>3. ~overlapped' => Faithful'
    <3>1. overlapped' = overlapped  BY <1>1 DEF View!Show
    <3>. QED  BY <1>0, <1>1, <3>1, MoreIsFaithful
  <2>. DEFINE page == c.page
              list == viEntries \o page
  <2>4. list \in Seq(View!Row) /\ \A i \in 1..Len(list) : list[i] \in past
    <3>1. page \in Seq(View!Row) /\ Len(page) \in Nat /\ \A i \in 1..Len(page) : page[i] \in past
      BY <2>1
    <3>. HIDE DEF page
    <3>2. /\ list \in Seq(View!Row) /\ Len(list) = Len(viEntries) + Len(page)
          /\ \A i \in 1..Len(viEntries) : list[i] = viEntries[i]
          /\ \A i \in 1..Len(page) : list[Len(viEntries) + i] = page[i]
      BY <2>2, <3>1, ConcatProperties
    <3>3. ASSUME NEW i \in 1..Len(list) PROVE list[i] \in past
      <4>0. i \in 1..Len(list)  BY <3>3
      <4>1. CASE i <= Len(viEntries)  BY <2>2, <3>2, <4>1
      <4>2. CASE i > Len(viEntries)
        <5>0. i - Len(viEntries) \in 1..Len(page) /\ i = Len(viEntries) + (i - Len(viEntries))
          BY <2>2, <3>1, <3>2, <4>0, <4>2
        <5>1. PICK j \in 1..Len(page) : i = Len(viEntries) + j  BY <5>0
        <5>. QED  BY <3>1, <3>2, <5>1
      <4>. QED  BY <2>2, <3>2, <4>1, <4>2
    <3>. QED  BY <3>2, <3>3
  <2>5. View!Show(q, list, c.next, FALSE)  BY <1>1
  <2>. HIDE DEF list
  <2>. QED  BY <1>0, <2>1, <2>3, <2>4, <2>5, ViewShow
<1>2. CASE c.kind = "reload" /\ View!Show(q, c.page, c.next, TRUE)
  <2>1. /\ c.page \in Seq(View!Row) /\ \A i \in 1..Len(c.page) : c.page[i] \in past
        /\ c.next \in past \cup {None}
    BY <1>0, <1>2, PageIs
  <2>2. Faithful'  BY <1>0, <1>2, ReloadIsFaithful
  <2>. QED  BY <1>0, <1>2, <2>1, <2>2, ViewShow
<1>3. CASE c.kind = "delete" /\ View!Show(q, <<>>, None, TRUE)
  <2>1. <<>> \in Seq(View!Row) /\ Len(<<>>) = 0  BY EmptySeq
  <2>2. c.seen = {}  BY <1>0, <1>3 DEF Told
  <2>3. viEntries' = <<>> /\ cursor' = None /\ since' = {}  BY <1>3, <2>2 DEF View!Show, View!Render
  <2>4. Faithful'  BY <2>1, <2>3 DEF Faithful
  <2>5. PICK list \in Seq(View!Row) : list = <<>>  BY <2>1
  <2>6. View!Show(q, list, None, TRUE)  BY <1>3, <2>5, Zenon
  <2>7. \A i \in 1..Len(list) : list[i] \in past  BY <2>1, <2>5
  <2>. QED  BY <1>0, <2>4, <2>6, <2>7, ViewShow
<1>. QED  BY <1>1, <1>2, <1>3 DEF View!Answer

\* A request that fails leaves the list as it is.
LEMMA ViewFails ==
  ASSUME View!HistoryViewAssumption, ViewInv, NEW q \in Peers, View!Fails(q)
  PROVE  ViewInv'
<1>1. /\ viEntries \in Seq(View!Row) /\ \A i \in 1..Len(viEntries) : viEntries[i] \in past
      /\ cursor \in past \cup {None} /\ call[q] # View!Idle /\ View!Show(q, viEntries, cursor, FALSE)
  BY DEF ViewInv, ViewTyped, View!Fails
<1>2. ~overlapped' => Faithful'
  <2>1. viEntries' = viEntries /\ cursor' = cursor /\ since' = since /\ overlapped' = overlapped /\ viRows' = viRows
    BY <1>1 DEF View!Show, View!Render, View!server
  <2>. QED  BY <2>1 DEF ViewInv, Faithful
<1>. QED  BY <1>1, <1>2, ViewShow

\* Every step of the server and of the page keeps the invariant.
LEMMA ViewStep == ASSUME View!HistoryViewAssumption, ViewInv, [View!Next]_(View!vars) PROVE ViewInv'
<1>0. ViewTyped  BY DEF ViewInv
<1>. USE DEF View!server
<1>1. CASE View!Tick
  BY <1>0, <1>1, ViewServer DEF View!Tick, ViewTyped, View!HistoryViewAssumption
<1>2. CASE View!Expire
  <2>1. viRows' \in SUBSET viRows /\ UNCHANGED <<viNow, past, viEntries, cursor, buttons, call, since, overlapped>>
    BY <1>2 DEF View!Expire
  <2>2. IsFiniteSet(viRows')  BY <1>0, <2>1, FS_Subset DEF ViewTyped
  <2>. QED  BY <1>0, <2>1, <2>2, ViewServer DEF ViewTyped
<1>3. CASE View!Refresh
  <2>1. /\ UNCHANGED <<viNow, viRows, past, viEntries, cursor, call, since, overlapped>>
        /\ buttons' = {b \in {"more"} : cursor # None} \cup {b \in {"delete"} : viEntries # <<>>}
    BY <1>3 DEF View!Refresh, View!Render
  <2>. QED  BY <1>0, <2>1, ViewServer DEF ViewTyped
<1>4. ASSUME NEW id \in Ids, View!Record(id) PROVE ViewInv'
  <2>. DEFINE row == [at |-> viNow, id |-> id]
  <2>1. /\ row \notin past /\ viRows' = viRows \cup {row} /\ past' = past \cup {row}
        /\ UNCHANGED <<viNow, viEntries, cursor, buttons, call, since, overlapped>>
    BY <1>4 DEF View!Record
  <2>2. row \in View!Row  BY <1>0 DEF View!Row, ViewTyped
  <2>. HIDE DEF row
  <2>3. IsFiniteSet(viRows')  BY <1>0, <2>1, FS_AddElement DEF ViewTyped
  <2>. QED  BY <1>0, <2>1, <2>2, <2>3, ViewServer DEF ViewTyped
<1>5. CASE UNCHANGED View!vars
  BY <1>0, <1>5, ViewServer DEF View!vars, ViewTyped
<1>. QED
  BY <1>1, <1>2, <1>3, <1>4, <1>5, ViewPress, ViewList, ViewDelete, ViewAnswer, ViewFails DEF View!Next

\* The property is the invariant in other words.
LEMMA ViewFollows == ASSUME View!HistoryViewAssumption, ViewInv PROVE View!TypeOK /\ View!ViewIsFaithful
<1>1. ViewTyped /\ viEntries \in Seq(View!Row)  BY DEF ViewInv, ViewTyped
<1>2. View!ToSet(viEntries) = {viEntries[i] : i \in 1..Len(viEntries)}
  BY <1>1, LenProperties DEF View!ToSet
<1>3. View!ViewIsFaithful  BY <1>2 DEF ViewInv, Faithful, View!ViewIsFaithful
<1>4. ASSUME NEW q \in Peers
      PROVE  /\ call[q].kind \in {"none", "more", "reload", "delete"} /\ call[q].step \in {"idle", "sent", "served"}
             /\ Len(call[q].page) <= PageSize
  <2>1. call[q] \in PageRequest /\ Told(q)  BY <1>1 DEF ViewInv, ViewTyped
  <2>2. Len(<<>>) = 0 /\ PageSize \in Nat  BY EmptySeq DEF View!HistoryViewAssumption
  <2>3. call[q].step = "served" /\ call[q].kind \in {"more", "reload"} => Len(call[q].page) <= PageSize
    BY <2>1 DEF Told, Pages
  <2>4. View!Idle.page = <<>>  BY DEF View!Idle
  <2>5. ~(call[q].step = "served" /\ call[q].kind \in {"more", "reload"}) => call[q].page = <<>>
    BY <2>1, <2>4 DEF Told, PageRequest
  <2>. QED  BY <2>1, <2>2, <2>3, <2>5 DEF PageRequest
<1>. QED  BY <1>1, <1>2, <1>3, <1>4 DEF View!TypeOK, ViewTyped

\* Whatever the other parts do, the history keeps its invariant.
LEMMA ViewInvariance == ASSUME View!HistoryViewAssumption PROVE View!Spec => []ViewInv
<1>1. View!Init => ViewInv  BY ViewInit
<1>2. ViewInv /\ [View!Next]_(View!vars) => ViewInv'  BY ViewStep
<1>. QED  BY <1>1, <1>2, PTL DEF View!Spec

\* For any number of rows, instants and calls, and for any page size: while no two calls
\* overlap the list is in order, has no row twice, and lacks none that has been there since
\* its first page was read, down to where it can be continued.
THEOREM HistoryIsFaithful == PartsSpec => []ViewIsFaithful
<1>1. ViewInv => ViewIsFaithful
  BY PartsAssumption, ViewFollows DEF ViewIsFaithful
<1>. QED  BY <1>1, PartsAssumption, PartsFollow, ViewInvariance, PTL
-----------------------------------------------------------------------------
(* The types. *)

\* Who binds an identity, and who has the account's row.
LocksTyped == binds \subseteq Keys /\ accountLock \in Keys \cup Peers \cup {None}

\* Only posts bind, and a lock is taken by the request that asks for it.
LEMMA LocksStep == ASSUME LocksTyped, [Sink!Next]_(Sink!vars) PROVE LocksTyped'
<1>. USE DEF LocksTyped, Sink!Unlock, Sink!tables, Sink!locks, Sink!carried, Sink!history
<1>1. ASSUME NEW r \in Keys \cup Peers, Sink!Rollback(r) PROVE LocksTyped'
  BY <1>1 DEF Sink!Rollback
<1>2. ASSUME NEW s \in Keys, Sink!Commit(s) PROVE LocksTyped'
  BY <1>2 DEF Sink!Commit
<1>3. ASSUME NEW s \in Keys, \/ \E t \in Creates, e \in Nesting, u \in Nesting, k \in Sink!Kinds : Sink!Receive(s, t, e, u, k)
                             \/ Sink!Bind(s) \/ Sink!Ignore(s) \/ Sink!Proceed(s) \/ Sink!Apply(s)
                             \/ Sink!Record(s) \/ Sink!Finish(s)
      PROVE  LocksTyped'
  <2>1. CASE \E t \in Creates, e \in Nesting, u \in Nesting, k \in Sink!Kinds : Sink!Receive(s, t, e, u, k)
    BY <2>1 DEF Sink!Receive
  <2>2. CASE Sink!Bind(s)  BY <1>1, <2>2 DEF Sink!Bind
  <2>3. CASE Sink!Ignore(s) \/ Sink!Finish(s)  BY <1>2, <2>3 DEF Sink!Ignore, Sink!Finish
  <2>4. CASE Sink!Proceed(s)  BY <2>4 DEF Sink!Proceed
  <2>5. CASE Sink!Apply(s)  BY <1>1, <2>5 DEF Sink!Apply
  <2>6. CASE Sink!Record(s)  BY <1>1, <2>6 DEF Sink!Record
  <2>. QED  BY <1>3, <2>1, <2>2, <2>3, <2>4, <2>5, <2>6
<1>4. ASSUME NEW c \in Peers, \/ Sink!ConnectBegin(c) \/ Sink!Disconnect(c)
                              \/ (\E t \in Creates : Sink!Connect(c, t)) \/ (\E s \in Keys : Sink!Abort(s, c))
      PROVE  LocksTyped'
  BY <1>1, <1>4 DEF Sink!ConnectBegin, Sink!Disconnect, Sink!Connect, Sink!Abort
<1>5. CASE UNCHANGED Sink!vars  BY <1>5 DEF Sink!vars
<1>. QED  BY <1>3, <1>4, <1>5 DEF Sink!Next

\* So the locks of the sink stay in their types.
LEMMA LocksInvariance == Sink!Spec => []LocksTyped
<1>1. Sink!Init => LocksTyped  BY DEF Sink!Init, LocksTyped
<1>. QED  BY <1>1, LocksStep, PTL DEF Sink!Spec

\* No queue is longer than there are handlers, because nobody waits twice.
LEMMA QueueIsShort ==
  ASSUME Pool!PoolUseAssumption, PoolInv
  PROVE  Len(waiting) \in Nat /\ Len(waiting) <= Pool!Cardinality(Workers)
<1>1. waiting \in Seq(Workers)  BY DEF PoolInv, PoolTyped
<1>2. Len(waiting) \in Nat /\ waiting \in [1..Len(waiting) -> Workers]
  BY <1>1, LenProperties
<1>3. PICK n \in Nat : n = Len(waiting)  BY <1>2
<1>4. waiting \in Injection(1..n, Workers)
  <2>1. \A i, j \in 1..n : waiting[i] = waiting[j] => i = j  BY <1>3 DEF PoolInv, QueueIsExact
  <2>. QED  BY <1>2, <1>3, <2>1 DEF Injection, IsInjective
<1>5. IsFiniteSet(Workers)  BY PoolSets DEF Pool!PoolUseAssumption
<1>6. Cardinality(1..n) <= Cardinality(Workers)  BY <1>4, <1>5, FS_Injection
<1>7. Cardinality(1..n) = n
  <2>1. IF 1 > n THEN Cardinality(1..n) = 0 ELSE Cardinality(1..n) = n - 1 + 1  BY FS_Interval
  <2>. QED  BY <2>1
<1>. QED  BY <1>3, <1>6, <1>7, PoolSets

\* Every part keeps the types of its tables, requests, locks, queues and counters.
THEOREM PartsTypes == PartsSpec => []PartsTypeOK
<1>1. LimiterInv => Limiter!TypeOK  BY DEF LimiterInv, LimiterTyped
<1>2. BeatInv => Beat!TypeOK  BY DEF BeatInv
<1>3. IInv => TypeOK  BY DEF IInv
<1>4. ASSUME PoolInv PROVE Pool!TypeOK
  <2>1. Pool!InUse <= PoolMax  BY <1>4, InUseIsSum DEF PoolInv, PoolIsUsed
  <2>. QED  BY <1>4, <2>1, PartsAssumption, QueueIsShort DEF PoolInv, PoolTyped, Pool!TypeOK, Pool!InUse
<1>5. SinkInv /\ LocksTyped => Sink!TypeOK
  BY DEF SinkInv, Typed, Once, LocksTyped, Sink!TypeOK
<1>6. ViewInv => View!TypeOK  BY PartsAssumption, ViewFollows
<1>7. LimiterInv /\ BeatInv /\ IInv /\ PoolInv /\ SinkInv /\ LocksTyped /\ ViewInv => PartsTypeOK
  BY <1>1, <1>2, <1>3, <1>4, <1>5, <1>6 DEF PartsTypeOK
<1>. QED
  BY <1>7, PartsAssumption, PartsFollow, LimiterInvariance, BeatInvariance, Invariance, PoolInvariance,
     SinkInvariance, LocksInvariance, ViewInvariance, PTL
=============================================================================
