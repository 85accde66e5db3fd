---------------------------- MODULE GoodsProofs -----------------------------
(***************************************************************************)
(* Materials, orders and personal inventories, for any number of requests, *)
(* connections and places; what a fold over places adds up is taken from   *)
(* Sums.                                                                   *)
(***************************************************************************)
EXTENDS CommunityProofs

(* Materials. *)

\* The component's own copy of this operator of FiniteSets is that of FiniteSets.
LEMMA StockSets == \A S : Material!IsFiniteSet(S) <=> IsFiniteSet(S)
  BY DEF Material!IsFiniteSet, IsFiniteSet

\* A request that has begun and not ended.
InTransaction(h) == maPc[h] \in {"began", "decided", "withdrawals", "contributions"}

\* A withdrawal has a connection of its own from BEGIN to its end, and the lock from its
\* decision on; a clear only remembers where it began.
Reserves ==
  /\ \A h \in Asks :
       /\ maPc[h] \in {"new", "began", "decided", "done"}
       /\ IF InTransaction(h) THEN line[h] \in open ELSE line[h] = None
       /\ maPc[h] = "decided" => lock = line[h]
  /\ \A g, h \in Asks : InTransaction(g) /\ InTransaction(h) /\ line[g] = line[h] => g = h
  /\ \A h \in Single : maPc[h] # "decided" /\ (InTransaction(h) => line[h] \in Things)

\* No transaction takes away more of f than there is, and one at a time does.
Covered(f, n) == \A p \in Places, c \in Things :
  f[p] + n[c][p] >= 0 /\ \A d \in Things \ {c} : n[c][p] >= 0 \/ n[d][p] >= 0

\* Only inside of a transaction something is not committed.
NeverNegative ==
  /\ \A c \in Things \ open : newAdded[c] = Material!Zero /\ newTaken[c] = Material!Zero
  /\ Covered(added, newAdded) /\ Covered(taken, newTaken)

\* Unless a clear overlapped something, it is alone, and its statements share a connection.
ClearIsAlone ==
  /\ (\A h \in Single : ~InTransaction(h)) => leaked = {}
  /\ \A h \in Single : InTransaction(h) =>
       /\ open = {line[h]} /\ leaked = {line[h]}
       /\ \A g \in Material!Requests \ {h} : ~InTransaction(g)
       /\ \A p \in Places : newTaken[line[h]][p] = IF maPc[h] = "began" THEN 0 ELSE -taken[p]

\* A withdrawal changes nothing before it has the lock, and then takes what there is.
TakesWhatIsThere ==
  \A h \in Asks :
    /\ maPc[h] = "began" => newAdded[line[h]] = Material!Zero /\ newTaken[line[h]] = Material!Zero
    /\ maPc[h] = "decided" => \A p \in Places :
         taken[p] + newTaken[line[h]][p] <= added[p] + newAdded[line[h]][p]

\* Only a clear leaves a connection in a transaction.
OnlyClears == \A c \in Material!Idle \cap open : c \in leaked

\* The invariant of the material inventory.  What it says of the stock holds until a
\* clear is torn from a transaction of its own.
StockInv ==
  /\ Material!TypeOK /\ Reserves /\ NeverNegative /\ OnlyClears
  /\ torn \/ (Material!StockIsCovered /\ ClearIsAlone /\ TakesWhatIsThere)

\* What a statement may add to or take from each place.
Amounts == [Places -> Int]

\* Amounts are added place by place.
LEMMA PlusIs ==
  ASSUME NEW f \in Amounts, NEW g \in Amounts
  PROVE  Material!Plus(f, g) \in Amounts /\ \A p \in Places : Material!Plus(f, g)[p] = f[p] + g[p]
  BY DEF Material!Plus, Amounts

\* Nothing is added anywhere.
LEMMA ZeroIs == Material!Zero \in Amounts /\ \A p \in Places : Material!Zero[p] = 0
  BY DEF Material!Zero, Amounts

\* Adding nothing changes nothing.
LEMMA PlusZero == ASSUME NEW f \in Amounts PROVE Material!Plus(f, Material!Zero) = f
  BY DEF Material!Plus, Material!Zero, Amounts

\* A change that adds, or that takes away everything while nobody else does.
Allows(f, n, c, a) == \A p \in Places :
  a[p] >= 0 \/ (a[p] = -(f[p] + n[c][p]) /\ \A d \in Things \ {c} : n[d][p] >= 0)

\* A change that is allowed keeps everything covered, committed or not.
LEMMA WriteKeepsCovered ==
  ASSUME NEW f \in [Places -> Nat], NEW n \in [Things -> Amounts], NEW c \in Things,
         NEW a \in Amounts, Covered(f, n), Allows(f, n, c, a)
  PROVE  /\ Covered(f, [n EXCEPT ![c] = Material!Plus(@, a)])
         /\ [n EXCEPT ![c] = Material!Plus(@, a)] \in [Things -> Amounts]
         /\ n[c] = Material!Zero => Covered(Material!Plus(f, a), n) /\ Material!Plus(f, a) \in [Places -> Nat]
<1>. DEFINE m == [n EXCEPT ![c] = Material!Plus(@, a)]
<1>1. /\ m \in [Things -> Amounts] /\ \A p \in Places : m[c][p] = n[c][p] + a[p]
      /\ \A d \in Things \ {c} : m[d] = n[d]
  BY PlusIs
<1>2. \A d \in Things, p \in Places : n[d][p] \in Int /\ m[d][p] \in Int /\ a[p] \in Int /\ f[p] \in Nat
  BY <1>1 DEF Amounts
<1>. HIDE DEF m
<1>3. Covered(f, m)
  BY <1>1, <1>2 DEF Covered, Allows
<1>4. ASSUME n[c] = Material!Zero PROVE Covered(Material!Plus(f, a), n) /\ Material!Plus(f, a) \in [Places -> Nat]
  <2>1. f \in Amounts  BY DEF Amounts
  <2>2. \A p \in Places : Material!Plus(f, a)[p] = f[p] + a[p] /\ n[c][p] = 0
    BY <1>4, <2>1, PlusIs, ZeroIs
  <2>3. \A p \in Places : Material!Plus(f, a)[p] \in Nat  BY <1>2, <2>2 DEF Allows
  <2>4. \A p \in Places, d \in Things : Material!Plus(f, a)[p] + n[d][p] >= 0
    <3>. SUFFICES ASSUME NEW p \in Places, NEW d \in Things
                  PROVE  Material!Plus(f, a)[p] + n[d][p] >= 0
      OBVIOUS
    <3>1. Material!Plus(f, a)[p] = f[p] + a[p] /\ n[c][p] = 0  BY <2>2
    <3>2. n[d][p] \in Int /\ a[p] \in Int /\ f[p] \in Nat  BY <1>2
    <3>3. f[p] + n[d][p] >= 0  BY DEF Covered
    <3>4. CASE a[p] >= 0  BY <3>1, <3>2, <3>3, <3>4
    <3>5. CASE a[p] = -(f[p] + n[c][p]) /\ \A e \in Things \ {c} : n[e][p] >= 0
      BY <3>1, <3>2, <3>5
    <3>. QED  BY <3>4, <3>5 DEF Allows
  <2>5. Covered(Material!Plus(f, a), n)  BY <2>4 DEF Covered
  <2>6. Material!Plus(f, a) \in [Places -> Nat]  BY <2>1, <2>3, PlusIs DEF Amounts
  <2>. QED  BY <2>5, <2>6
<1>. QED  BY <1>1, <1>3, <1>4 DEF m

\* A transaction may commit or roll back, and everything stays covered.
LEMMA CloseKeepsCovered ==
  ASSUME NEW f \in [Places -> Nat], NEW n \in [Things -> Amounts], NEW m \in [Things -> Amounts], NEW c \in Things,
         Covered(f, n), m[c] = Material!Zero, \A d \in Things \ {c} : m[d] = n[d]
  PROVE  /\ Covered(f, m)
         /\ Covered(Material!Plus(f, n[c]), m)
         /\ Material!Plus(f, n[c]) \in [Places -> Nat]
         /\ \A p \in Places : Material!Plus(f, n[c])[p] = f[p] + n[c][p]
<1>1. \A d \in Things, p \in Places : n[d][p] \in Int /\ f[p] \in Nat  BY DEF Amounts
<1>2. \A p \in Places : m[c][p] = 0  BY ZeroIs
<1>3. f \in Amounts  BY DEF Amounts
<1>4. \A p \in Places : Material!Plus(f, n[c])[p] = f[p] + n[c][p]  BY <1>3, PlusIs
<1>5. Covered(f, m)  BY <1>1, <1>2 DEF Covered
<1>6. Covered(Material!Plus(f, n[c]), m)
  BY <1>1, <1>2, <1>4 DEF Covered
<1>7. \A p \in Places : Material!Plus(f, n[c])[p] \in Nat  BY <1>1, <1>4 DEF Covered
<1>8. Material!Plus(f, n[c]) \in [Places -> Nat]  BY <1>3, <1>7, PlusIs DEF Amounts
<1>. QED  BY <1>4, <1>5, <1>6, <1>8

\* The tables and what is not committed, in the types the lemmas above need.
LEMMA MaTypes ==
  ASSUME Material!TypeOK
  PROVE  /\ added \in [Places -> Nat] /\ taken \in [Places -> Nat]
         /\ newAdded \in [Things -> Amounts] /\ newTaken \in [Things -> Amounts]
         /\ added \in Amounts /\ taken \in Amounts
         /\ \A p \in Places : added[p] \in Nat /\ taken[p] \in Nat
         /\ \A c \in Things, p \in Places : newAdded[c][p] \in Int /\ newTaken[c][p] \in Int
  BY DEF Material!TypeOK, Amounts

\* What a statement leaves of the tables, inside and outside of a transaction.
LEMMA WriteIs ==
  ASSUME Material!TypeOK, NeverNegative, open' = open, NEW c \in Things, NEW a \in Amounts, NEW t \in Amounts,
         Material!Write(c, a, t), Allows(added, newAdded, c, a), Allows(taken, newTaken, c, t)
  PROVE  /\ NeverNegative'
         /\ added' \in [Places -> Nat] /\ taken' \in [Places -> Nat]
         /\ newAdded' \in [Things -> Amounts] /\ newTaken' \in [Things -> Amounts]
         /\ \A d \in Things \ {c} : newAdded'[d] = newAdded[d] /\ newTaken'[d] = newTaken[d]
         /\ c \in open => /\ added' = added /\ taken' = taken
                          /\ \A p \in Places : /\ newAdded'[c][p] = newAdded[c][p] + a[p]
                                               /\ newTaken'[c][p] = newTaken[c][p] + t[p]
         /\ c \notin open => /\ newAdded' = newAdded /\ newTaken' = newTaken
                             /\ \A p \in Places : added'[p] = added[p] + a[p] /\ taken'[p] = taken[p] + t[p]
<1>. USE MaTypes DEF NeverNegative
<1>1. CASE c \in open
  <2>1. /\ added' = added /\ taken' = taken /\ newAdded' = [newAdded EXCEPT ![c] = Material!Plus(@, a)]
        /\ newTaken' = [newTaken EXCEPT ![c] = Material!Plus(@, t)]
    BY <1>1 DEF Material!Write, Material!tables
  <2>2. Covered(added, newAdded') /\ newAdded' \in [Things -> Amounts]  BY <2>1, WriteKeepsCovered
  <2>3. Covered(taken, newTaken') /\ newTaken' \in [Things -> Amounts]  BY <2>1, WriteKeepsCovered
  <2>4. \A d \in Things \ {c} : newAdded'[d] = newAdded[d] /\ newTaken'[d] = newTaken[d]  BY <2>1
  <2>5. newAdded'[c] = Material!Plus(newAdded[c], a) /\ newTaken'[c] = Material!Plus(newTaken[c], t)
    BY <2>1
  <2>6. \A p \in Places : newAdded'[c][p] = newAdded[c][p] + a[p] /\ newTaken'[c][p] = newTaken[c][p] + t[p]
    BY <2>5, PlusIs
  <2>7. NeverNegative'
    <3>1. \A d \in Things \ open' : newAdded'[d] = Material!Zero /\ newTaken'[d] = Material!Zero
      BY <1>1, <2>4
    <3>2. (Covered(added, newAdded) /\ Covered(taken, newTaken))'  BY <2>1, <2>2, <2>3 DEF Covered
    <3>. QED  BY <3>1, <3>2 DEF Material!Zero
  <2>. QED  BY <1>1, <2>1, <2>2, <2>3, <2>4, <2>6, <2>7
<1>2. CASE c \notin open
  <2>1. /\ added' = Material!Plus(added, a) /\ taken' = Material!Plus(taken, t) /\ newAdded' = newAdded /\ newTaken' = newTaken
        /\ newAdded[c] = Material!Zero /\ newTaken[c] = Material!Zero
    BY <1>2 DEF Material!Write, Material!work
  <2>2. Covered(added', newAdded) /\ added' \in [Places -> Nat]  BY <2>1, WriteKeepsCovered
  <2>3. Covered(taken', newTaken) /\ taken' \in [Places -> Nat]  BY <2>1, WriteKeepsCovered
  <2>4. \A p \in Places : added'[p] = added[p] + a[p] /\ taken'[p] = taken[p] + t[p]  BY <2>1, PlusIs
  <2>5. NeverNegative'
    <3>1. \A d \in Things \ open' : newAdded'[d] = Material!Zero /\ newTaken'[d] = Material!Zero
      BY <2>1
    <3>2. (Covered(added, newAdded) /\ Covered(taken, newTaken))'  BY <2>1, <2>2, <2>3 DEF Covered
    <3>. QED  BY <3>1, <3>2 DEF Material!Zero
  <2>. QED  BY <1>2, <2>1, <2>2, <2>3, <2>4, <2>5
<1>. QED  BY <1>1, <1>2

\* COMMIT and ROLLBACK, whatever has begun the transaction.
LEMMA CloseIs ==
  ASSUME Material!TypeOK, NeverNegative, NEW c \in Things, Material!Commit(c) \/ Material!Rollback(c)
  PROVE  /\ NeverNegative'
         /\ added' \in [Places -> Nat] /\ taken' \in [Places -> Nat]
         /\ newAdded' \in [Things -> Amounts] /\ newTaken' \in [Things -> Amounts]
         /\ \A d \in Things \ {c} : newAdded'[d] = newAdded[d] /\ newTaken'[d] = newTaken[d]
         /\ open' = open \ {c} /\ leaked' = leaked \ {c} /\ lock' = IF lock = c THEN None ELSE lock
         /\ Material!Rollback(c) => added' = added /\ taken' = taken
         /\ Material!Commit(c) => \A p \in Places : /\ added'[p] = added[p] + newAdded[c][p]
                                                    /\ taken'[p] = taken[p] + newTaken[c][p]
<1>1. /\ newAdded' = [newAdded EXCEPT ![c] = Material!Zero] /\ newTaken' = [newTaken EXCEPT ![c] = Material!Zero]
      /\ open' = open \ {c} /\ leaked' = leaked \ {c} /\ lock' = IF lock = c THEN None ELSE lock
  BY DEF Material!Commit, Material!Rollback, Material!Close
<1>2. Material!Commit(c) => added' = Material!Plus(added, newAdded[c]) /\ taken' = Material!Plus(taken, newTaken[c])
  BY DEF Material!Commit, Material!Added, Material!Taken
<1>3. Material!Rollback(c) => added' = added /\ taken' = taken
  BY DEF Material!Rollback, Material!tables
<1>4. /\ added \in [Places -> Nat] /\ newAdded \in [Things -> Amounts]
      /\ taken \in [Places -> Nat] /\ newTaken \in [Things -> Amounts]
  BY MaTypes
<1>5. Covered(added, newAdded) /\ Covered(taken, newTaken)  BY DEF NeverNegative
<1>6. /\ newAdded' \in [Things -> Amounts] /\ newAdded'[c] = Material!Zero
      /\ \A d \in Things \ {c} : newAdded'[d] = newAdded[d]
      /\ Covered(added, newAdded') /\ Covered(Material!Plus(added, newAdded[c]), newAdded')
      /\ Material!Plus(added, newAdded[c]) \in [Places -> Nat]
      /\ \A p \in Places : Material!Plus(added, newAdded[c])[p] = added[p] + newAdded[c][p]
  <2>1. newAdded' \in [Things -> Amounts] /\ newAdded'[c] = Material!Zero  BY <1>1, <1>4, ZeroIs
  <2>2. \A d \in Things \ {c} : newAdded'[d] = newAdded[d]  BY <1>1, <1>4
  <2>. QED  BY ONLY <1>4, <1>5, <2>1, <2>2, c \in Things, CloseKeepsCovered
<1>7. /\ newTaken' \in [Things -> Amounts] /\ newTaken'[c] = Material!Zero
      /\ \A d \in Things \ {c} : newTaken'[d] = newTaken[d]
      /\ Covered(taken, newTaken') /\ Covered(Material!Plus(taken, newTaken[c]), newTaken')
      /\ Material!Plus(taken, newTaken[c]) \in [Places -> Nat]
      /\ \A p \in Places : Material!Plus(taken, newTaken[c])[p] = taken[p] + newTaken[c][p]
  <2>1. newTaken' \in [Things -> Amounts] /\ newTaken'[c] = Material!Zero  BY <1>1, <1>4, ZeroIs
  <2>2. \A d \in Things \ {c} : newTaken'[d] = newTaken[d]  BY <1>1, <1>4
  <2>. QED  BY ONLY <1>4, <1>5, <2>1, <2>2, c \in Things, CloseKeepsCovered
<1>8. /\ Covered(added', newAdded') /\ added' \in [Places -> Nat]
      /\ Covered(taken', newTaken') /\ taken' \in [Places -> Nat]
  <2>1. CASE Material!Commit(c)  BY <1>2, <1>6, <1>7, <2>1
  <2>2. CASE Material!Rollback(c)  BY <1>3, <1>4, <1>6, <1>7, <2>2
  <2>. QED  BY <2>1, <2>2
<1>9. Material!Commit(c) => \A p \in Places : added'[p] = added[p] + newAdded[c][p] /\ taken'[p] = taken[p] + newTaken[c][p]
  BY <1>2, <1>6, <1>7
<1>10. NeverNegative'
  <2>1. \A d \in Things \ open : newAdded[d] = Material!Zero /\ newTaken[d] = Material!Zero  BY DEF NeverNegative
  <2>2. \A d \in Things \ open' : newAdded'[d] = Material!Zero /\ newTaken'[d] = Material!Zero
    BY <1>1, <1>6, <1>7, <2>1
  <2>3. (Covered(added, newAdded) /\ Covered(taken, newTaken))'  BY <1>8 DEF Covered
  <2>. QED  BY <2>2, <2>3 DEF NeverNegative, Material!Zero
<1>. QED  BY <1>1, <1>3, <1>6, <1>7, <1>8, <1>9, <1>10

\* At first nothing is stored, and no connection is in use.
LEMMA MaInit == ASSUME Material!MaterialsAssumption PROVE Material!Init => StockInv
<1>. SUFFICES ASSUME Material!Init PROVE StockInv
  OBVIOUS
<1>. USE ZeroIs DEF Material!Init, Material!MaterialsAssumption, Material!Requests
<1>0. Material!Zero \in [Places -> Nat] /\ Material!Zero \in [Places -> Int]  BY DEF Material!Zero
<1>1. Material!TypeOK  BY <1>0 DEF Material!TypeOK
<1>2. Reserves /\ OnlyClears  BY DEF Reserves, InTransaction, OnlyClears
<1>3. NeverNegative  BY DEF NeverNegative, Covered
<1>4. Material!StockIsCovered /\ ClearIsAlone /\ TakesWhatIsThere
  BY DEF Material!StockIsCovered, ClearIsAlone, InTransaction, TakesWhatIsThere
<1>. QED  BY <1>1, <1>2, <1>3, <1>4 DEF StockInv

\* The lines of two withdrawals differ, and one that has decided is the only one.
LEMMA OneDecides ==
  ASSUME Material!MaterialsAssumption, StockInv, NEW h \in Asks, maPc[h] = "began", Material!Queued(line[h])
  PROVE  \A g \in Asks : maPc[g] # "decided"
  BY DEF StockInv, Material!TypeOK, Reserves, InTransaction, Material!Queued,
     Material!MaterialsAssumption

\* A contribution only adds.
LEMMA ContributeStep ==
  ASSUME Material!MaterialsAssumption, StockInv, NEW c \in Things, NEW p \in Places, Material!Contribute(c, p)
  PROVE  StockInv'
<1>. DEFINE a == [Material!Zero EXCEPT ![p] = 1]
<1>. USE DEF StockInv
<1>1. /\ Material!Write(c, a, Material!Zero) /\ c \in Material!Idle
      /\ UNCHANGED <<open, lock, maPc, line, leaked, torn>>
  BY DEF Material!Contribute, Material!requests
<1>2. a \in Amounts /\ \A q \in Places : a[q] >= 0
  BY DEF Material!Zero, Amounts
<1>. HIDE DEF a
<1>3. Allows(added, newAdded, c, a) /\ Allows(taken, newTaken, c, Material!Zero)
  BY <1>2, ZeroIs DEF Allows
<1>4. /\ NeverNegative'
      /\ added' \in [Places -> Nat] /\ taken' \in [Places -> Nat]
      /\ newAdded' \in [Things -> Amounts] /\ newTaken' \in [Things -> Amounts]
      /\ \A d \in Things \ {c} : newAdded'[d] = newAdded[d] /\ newTaken'[d] = newTaken[d]
      /\ c \in open => /\ added' = added /\ taken' = taken
                       /\ \A q \in Places : newTaken'[c][q] = newTaken[c][q] + Material!Zero[q]
      /\ c \notin open => /\ newAdded' = newAdded /\ newTaken' = newTaken
                          /\ \A q \in Places : added'[q] = added[q] + a[q] /\ taken'[q] = taken[q] + Material!Zero[q]
  BY <1>1, <1>2, <1>3, ZeroIs, WriteIs
<1>5. \A q \in Places : /\ added'[q] >= added[q] /\ taken'[q] = taken[q]
                        /\ \A d \in Things : newTaken'[d][q] = newTaken[d][q]
  <2>. SUFFICES ASSUME NEW q \in Places
                PROVE  /\ added'[q] >= added[q] /\ taken'[q] = taken[q]
                       /\ \A d \in Things : newTaken'[d][q] = newTaken[d][q]
    OBVIOUS
  <2>1. /\ a[q] \in Int /\ a[q] >= 0 /\ Material!Zero[q] = 0 /\ added[q] \in Nat /\ taken[q] \in Nat
        /\ \A d \in Things : newTaken[d][q] \in Int
    BY <1>2, ZeroIs, MaTypes DEF Amounts
  <2>. QED  BY <1>4, <2>1
<1>6. Material!TypeOK'  BY <1>1, <1>4 DEF Material!TypeOK, Amounts
<1>7. Reserves' /\ OnlyClears'
  BY <1>1 DEF Reserves, InTransaction, OnlyClears, Material!Idle
<1>8. ASSUME ~torn PROVE (Material!StockIsCovered /\ ClearIsAlone /\ TakesWhatIsThere)'
  <2>1. Material!StockIsCovered'
    BY <1>4, <1>5, <1>8, MaTypes DEF Material!StockIsCovered
  <2>2. ClearIsAlone'
    BY <1>1, <1>5, <1>8 DEF ClearIsAlone, InTransaction, Reserves
  <2>3. TakesWhatIsThere'
    <3>. SUFFICES ASSUME NEW h \in Asks, InTransaction(h)
         PROVE  /\ maPc[h] = "began" => newAdded'[line[h]] = Material!Zero /\ newTaken'[line[h]] = Material!Zero
                /\ maPc[h] = "decided" => \A q \in Places :
                     taken'[q] + newTaken'[line[h]][q] <= added'[q] + newAdded'[line[h]][q]
      BY <1>1 DEF TakesWhatIsThere, InTransaction, Material!Zero
    <3>1. line[h] \in Things \ {c}  BY <1>1 DEF Material!Idle, Reserves, Material!TypeOK
    <3>2. newAdded'[line[h]] = newAdded[line[h]] /\ newTaken'[line[h]] = newTaken[line[h]]
      BY <1>4, <3>1
    <3>3. maPc[h] = "decided" => \A q \in Places :
            taken'[q] + newTaken[line[h]][q] <= added'[q] + newAdded[line[h]][q]
      <4>. SUFFICES ASSUME maPc[h] = "decided", NEW q \in Places
                    PROVE  taken'[q] + newTaken[line[h]][q] <= added'[q] + newAdded[line[h]][q]
        OBVIOUS
      <4>1. taken[q] + newTaken[line[h]][q] <= added[q] + newAdded[line[h]][q]
        BY <1>8 DEF TakesWhatIsThere
      <4>2. taken'[q] = taken[q] /\ added'[q] >= added[q] /\ added[q] \in Nat /\ taken[q] \in Nat /\ added'[q] \in Nat
            /\ newTaken[line[h]][q] \in Int /\ newAdded[line[h]][q] \in Int
        BY <1>4, <1>5, <3>1, MaTypes
      <4>. QED  BY <4>1, <4>2
    <3>. QED  BY <1>8, <3>2, <3>3 DEF TakesWhatIsThere
  <2>. QED  BY <2>1, <2>2, <2>3
<1>. QED  BY <1>1, <1>4, <1>6, <1>7, <1>8

\* A withdrawal gets an idle connection.
LEMMA StockBegin ==
  ASSUME Material!MaterialsAssumption, StockInv, NEW h \in Asks, NEW c \in Things, Material!Begin(h, c)
  PROVE  StockInv'
<1>. USE DEF StockInv, Material!Begin, Material!Goto, Material!tables, Material!work
<1>0. h \in Material!Requests /\ h \notin Single /\ line[h] = None
  BY DEF Material!Requests, Material!MaterialsAssumption, Reserves, InTransaction
<1>1. Material!TypeOK'  BY <1>0 DEF Material!TypeOK
<1>2. Reserves'
  BY <1>0 DEF Reserves, InTransaction, Material!TypeOK, Material!Idle, Material!Requests
<1>3. NeverNegative'  BY DEF NeverNegative, Covered, Material!Zero
<1>4. OnlyClears'
  <2>1. \A d \in Material!Idle' : d \in Material!Idle /\ d # c
    BY <1>0 DEF Material!Idle, Material!TypeOK, Material!MaterialsAssumption
  <2>. QED  BY <2>1 DEF OnlyClears
<1>5. ASSUME ~torn' PROVE (Material!StockIsCovered /\ ClearIsAlone /\ TakesWhatIsThere)'
  <2>1. ~torn /\ Material!Clearing = {} /\ leaked = {}  BY <1>5
  <2>2. \A g \in Single : ~InTransaction(g)  BY <2>1 DEF Material!Clearing, InTransaction, Reserves
  <2>3. newAdded[c] = Material!Zero /\ newTaken[c] = Material!Zero
    BY <2>1 DEF OnlyClears, NeverNegative
  <2>4. Material!StockIsCovered'  BY <2>1 DEF Material!StockIsCovered
  <2>5. ClearIsAlone'
    BY <1>0, <2>1, <2>2 DEF ClearIsAlone, InTransaction, Material!TypeOK, Material!Requests
  <2>6. TakesWhatIsThere'
    <3>. SUFFICES ASSUME NEW g \in Asks
         PROVE  /\ maPc'[g] = "began" => newAdded[line'[g]] = Material!Zero /\ newTaken[line'[g]] = Material!Zero
                /\ maPc'[g] = "decided" => \A q \in Places :
                     taken[q] + newTaken[line'[g]][q] <= added[q] + newAdded[line'[g]][q]
      BY DEF TakesWhatIsThere, Material!Zero
    <3>1. CASE g = h  BY <1>0, <2>3, <3>1 DEF Material!TypeOK
    <3>2. CASE g # h  BY <2>1, <3>2 DEF Material!TypeOK, TakesWhatIsThere, Material!Requests
    <3>. QED  BY <3>1, <3>2
  <2>. QED  BY <2>4, <2>5, <2>6
<1>. QED  BY <1>1, <1>2, <1>3, <1>4, <1>5

\* A withdrawal or a move that changes what it reads under the lock.
LEMMA MoveStep ==
  ASSUME Material!MaterialsAssumption, StockInv, NEW h \in Asks, maPc[h] = "began", Material!Queued(line[h]),
         NEW a \in Amounts, NEW t \in Amounts, Material!Move(h, a, t),
         \A p \in Places : a[p] >= 0 /\ t[p] >= 0,
         ~torn => \A p \in Places : taken[p] + t[p] <= added[p] + a[p]
  PROVE  StockInv'
<1>. DEFINE c == line[h]
<1>. USE DEF StockInv
<1>1. /\ c \in open /\ c \in Things /\ h \in Material!Requests /\ h \notin Single /\ c # None
      /\ lock' = c /\ Material!Write(c, a, t) /\ maPc' = [maPc EXCEPT ![h] = "decided"]
      /\ UNCHANGED <<open, line, leaked, torn>>
  BY DEF Material!Move, Material!Goto, Reserves, InTransaction, Material!TypeOK, Material!Requests,
     Material!MaterialsAssumption
<1>2. \A g \in Asks \ {h} : InTransaction(g) => line[g] # c /\ maPc[g] = "began" /\ line[g] \in Things
  BY OneDecides DEF Reserves, InTransaction, Material!TypeOK
<1>3. Allows(added, newAdded, c, a) /\ Allows(taken, newTaken, c, t)
  BY DEF Allows
<1>4. /\ NeverNegative' /\ added' = added /\ taken' = taken
      /\ newAdded' \in [Things -> Amounts] /\ newTaken' \in [Things -> Amounts]
      /\ \A d \in Things \ {c} : newAdded'[d] = newAdded[d] /\ newTaken'[d] = newTaken[d]
      /\ \A q \in Places : newTaken'[c][q] = newTaken[c][q] + t[q] /\ newAdded'[c][q] = newAdded[c][q] + a[q]
  <2>. HIDE DEF c
  <2>. QED  BY <1>1, <1>3, WriteIs
<1>5. Material!TypeOK'  BY <1>1, <1>4 DEF Material!TypeOK, Amounts
<1>6. Reserves'
  BY <1>1, <1>2 DEF Reserves, InTransaction, Material!TypeOK, Material!Requests
<1>7. OnlyClears'  BY <1>1 DEF OnlyClears, Material!Idle
<1>8. ASSUME ~torn PROVE (Material!StockIsCovered /\ ClearIsAlone /\ TakesWhatIsThere)'
  <2>1. Material!StockIsCovered'  BY <1>4, <1>8 DEF Material!StockIsCovered
  <2>2. \A g \in Single : ~InTransaction(g)
    BY <1>1, <1>8 DEF ClearIsAlone, InTransaction
  <2>3. ClearIsAlone'
    BY <1>1, <1>8, <2>2 DEF ClearIsAlone, InTransaction, Material!TypeOK, Material!Requests
  <2>4. TakesWhatIsThere'
    <3>. SUFFICES ASSUME NEW g \in Asks
         PROVE  /\ maPc'[g] = "began" => newAdded'[line[g]] = Material!Zero /\ newTaken'[line[g]] = Material!Zero
                /\ maPc'[g] = "decided" => \A q \in Places :
                     taken[q] + newTaken'[line[g]][q] <= added[q] + newAdded'[line[g]][q]
      BY <1>1, <1>4 DEF TakesWhatIsThere, Material!Zero
    <3>1. CASE g = h
      <4>1. newAdded[c] = Material!Zero /\ newTaken[c] = Material!Zero  BY <1>8 DEF TakesWhatIsThere
      <4>2. \A q \in Places : newTaken'[c][q] = t[q] /\ newAdded'[c][q] = a[q]
        BY <1>4, <4>1, ZeroIs DEF Amounts
      <4>. QED  BY <1>1, <1>8, <3>1, <4>2 DEF Material!TypeOK
    <3>2. CASE g # h
      <4>1. maPc'[g] = maPc[g]  BY <1>1, <3>2
      <4>2. maPc[g] # "decided"  BY OneDecides
      <4>. QED  BY <1>2, <1>4, <1>8, <3>2, <4>1, <4>2 DEF TakesWhatIsThere, InTransaction
    <3>. QED  BY <3>1, <3>2
  <2>. QED  BY <2>1, <2>3, <2>4
<1>. QED  BY <1>1, <1>4, <1>5, <1>6, <1>7, <1>8

\* What is available is what was added and not taken.
LEMMA AvailableIs ==
  ASSUME Material!TypeOK, NEW c \in Things, NEW p \in Places
  PROVE  /\ Material!Added(c)[p] = added[p] + newAdded[c][p] /\ Material!Taken(c)[p] = taken[p] + newTaken[c][p]
         /\ Material!Available(c, p) \in Nat
         /\ Material!Available(c, p) # 0 => Material!Taken(c)[p] + Material!Available(c, p) = Material!Added(c)[p]
<1>1. Material!Added(c)[p] = added[p] + newAdded[c][p] /\ Material!Taken(c)[p] = taken[p] + newTaken[c][p]
  BY PlusIs, MaTypes DEF Material!Added, Material!Taken
<1>2. Material!Added(c)[p] \in Int /\ Material!Taken(c)[p] \in Int  BY <1>1, MaTypes
<1>. QED  BY <1>1, <1>2 DEF Material!Available

\* A refused withdrawal and the end of one: the connection is given back.
LEMMA GiveBackStep ==
  ASSUME Material!MaterialsAssumption, StockInv, NEW h \in Asks, InTransaction(h), Material!Done(h), torn' = torn,
         Material!Rollback(line[h]) \/ (Material!Commit(line[h]) /\ maPc[h] = "decided")
  PROVE  StockInv'
<1>. DEFINE c == line[h]
<1>. USE DEF StockInv
<1>1. /\ c \in open /\ c \in Things /\ h \in Material!Requests /\ h \notin Single /\ c # None
      /\ maPc' = [maPc EXCEPT ![h] = "done"] /\ line' = [line EXCEPT ![h] = None]
  BY DEF Material!Done, Material!Goto, Reserves, InTransaction, Material!TypeOK, Material!Requests,
     Material!MaterialsAssumption
<1>2. \A g \in Asks \ {h} : InTransaction(g) => line[g] # c /\ line[g] \in Things
  BY DEF Reserves, InTransaction, Material!TypeOK
<1>3. /\ NeverNegative'
      /\ added' \in [Places -> Nat] /\ taken' \in [Places -> Nat]
      /\ newAdded' \in [Things -> Amounts] /\ newTaken' \in [Things -> Amounts]
      /\ \A d \in Things \ {c} : newAdded'[d] = newAdded[d] /\ newTaken'[d] = newTaken[d]
      /\ open' = open \ {c} /\ leaked' = leaked \ {c} /\ lock' = IF lock = c THEN None ELSE lock
      /\ Material!Rollback(c) => added' = added /\ taken' = taken
      /\ Material!Commit(c) => \A p \in Places : /\ added'[p] = added[p] + newAdded[c][p]
                                                 /\ taken'[p] = taken[p] + newTaken[c][p]
  <2>. HIDE DEF c
  <2>. QED  BY <1>1, CloseIs DEF c
<1>. HIDE DEF c
<1>. USE DEF c
<1>4. Material!TypeOK'  BY <1>1, <1>3 DEF Material!TypeOK, Amounts
<1>5. Reserves'
  BY <1>1, <1>2, <1>3 DEF Reserves, InTransaction, Material!TypeOK, Material!Requests
<1>6. OnlyClears'
  <2>1. \A d \in Material!Idle' \cap open' : d \in Material!Idle /\ d \in open /\ d # c
    BY <1>1, <1>3 DEF Material!Idle, Material!TypeOK, Material!Requests
  <2>. QED  BY <1>3, <2>1 DEF OnlyClears
<1>7. ASSUME ~torn PROVE (Material!StockIsCovered /\ ClearIsAlone /\ TakesWhatIsThere)'
  <2>1. Material!StockIsCovered'
    BY <1>3, <1>7 DEF Material!StockIsCovered, TakesWhatIsThere
  <2>2. \A g \in Single : ~InTransaction(g)
    BY <1>1, <1>7 DEF ClearIsAlone
  <2>3. ClearIsAlone'
    BY <1>1, <1>3, <1>7, <2>2 DEF ClearIsAlone, InTransaction, Material!TypeOK, Material!Requests
  <2>4. TakesWhatIsThere'
    <3>. SUFFICES ASSUME NEW g \in Asks
         PROVE  /\ maPc'[g] = "began" => newAdded'[line'[g]] = Material!Zero /\ newTaken'[line'[g]] = Material!Zero
                /\ maPc'[g] = "decided" => \A q \in Places :
                     taken'[q] + newTaken'[line'[g]][q] <= added'[q] + newAdded'[line'[g]][q]
      BY <1>1, <1>3 DEF TakesWhatIsThere, Material!Zero
    <3>1. CASE g = h  BY <1>1, <3>1 DEF Material!TypeOK
    <3>2. CASE g # h /\ InTransaction(g)
      <4>1. maPc'[g] = maPc[g] /\ line'[g] = line[g]  BY <1>1, <3>2
      <4>2. newAdded'[line[g]] = newAdded[line[g]] /\ newTaken'[line[g]] = newTaken[line[g]]
        BY <1>2, <1>3, <3>2
      <4>3. maPc[g] = "decided" => maPc[h] # "decided"
        BY <1>2, <3>2 DEF Reserves
      <4>. QED  BY <1>3, <1>7, <4>1, <4>2, <4>3 DEF TakesWhatIsThere
    <3>3. CASE g # h /\ ~InTransaction(g)
      BY <1>1, <3>3 DEF InTransaction
    <3>. QED  BY <3>1, <3>2, <3>3
  <2>. QED  BY <2>1, <2>3, <2>4
<1>. QED  BY <1>3, <1>4, <1>5, <1>6, <1>7

\* A withdrawal takes at most what is there, or is refused and rolled back.
LEMMA WithdrawStep ==
  ASSUME Material!MaterialsAssumption, StockInv, NEW h \in Asks, NEW from \in Places, NEW to \in Places \cup {None},
         NEW qty \in 1..MaxStock, Material!Withdraw(h, from, to, qty)
  PROVE  StockInv'
<1>. DEFINE c == line[h]
            a == [p \in Places |-> IF p = to THEN qty ELSE 0]
            t == [Material!Zero EXCEPT ![from] = qty]
<1>. USE DEF StockInv
<1>1. maPc[h] = "began" /\ Material!Queued(c) /\ from # to /\ c \in Things /\ qty \in Nat /\ qty > 0 /\ h \in Material!Requests
  BY DEF Material!Withdraw, Reserves, InTransaction, Material!TypeOK, Material!MaterialsAssumption,
     Material!Requests
<1>2. CASE qty <= Material!Available(c, from) /\ Material!Move(h, a, t)
  <2>1. /\ a \in Amounts /\ t \in Amounts /\ \A p \in Places : a[p] >= 0 /\ t[p] >= 0
        /\ t[from] = qty /\ \A p \in Places \ {from} : t[p] = 0
    BY <1>1 DEF Amounts, Material!Zero
  <2>. HIDE DEF a, t
  <2>2. ASSUME ~torn, NEW p \in Places PROVE taken[p] + t[p] <= added[p] + a[p]
    <3>1. newAdded[c] = Material!Zero /\ newTaken[c] = Material!Zero  BY <1>1, <2>2 DEF TakesWhatIsThere
    <3>2. Material!Added(c)[p] = added[p] /\ Material!Taken(c)[p] = taken[p] /\ Material!Available(c, p) \in Nat
          /\ (Material!Available(c, p) # 0 => taken[p] + Material!Available(c, p) = added[p])
      BY <1>1, <3>1, ZeroIs, AvailableIs, MaTypes
    <3>3. taken[p] <= added[p] /\ taken[p] \in Nat /\ added[p] \in Nat /\ a[p] \in Int /\ t[p] \in Int
      BY <2>1, <2>2, MaTypes DEF Material!StockIsCovered, Amounts
    <3>. QED  BY <1>1, <1>2, <2>1, <3>2, <3>3
  <2>. QED  BY <1>1, <1>2, <2>1, <2>2, MoveStep
<1>3. CASE Material!Rollback(c) /\ Material!Done(h) /\ UNCHANGED torn
  BY <1>1, <1>3, GiveBackStep DEF InTransaction
<1>. QED  BY <1>2, <1>3 DEF Material!Withdraw

\* What is gathered is the sum of what was available.
LEMMA MoveAllStep ==
  ASSUME Material!MaterialsAssumption, StockInv, NEW h \in Asks, NEW to \in Places, Material!MoveAll(h, to)
  PROVE  StockInv'
<1>. DEFINE c == line[h]
            moved == [p \in Places |-> Material!Available(c, p)]
            a == [Material!Zero EXCEPT ![to] = SumOf(moved, Places)]
<1>. USE DEF StockInv
<1>1. maPc[h] = "began" /\ Material!Queued(c) /\ c \in Things /\ IsFiniteSet(Places) /\ h \in Material!Requests
  BY StockSets
     DEF Material!MoveAll, Reserves, InTransaction, Material!TypeOK, Material!MaterialsAssumption,
        Material!Requests
<1>2. \A p \in Places : moved[p] \in Nat  BY <1>1, AvailableIs
<1>3. Material!FoldFunction(LAMBDA x, y : x + y, 0, moved) = SumOf(moved, Places)
  BY DEF Material!FoldFunction, Material!FoldFunctionOnSet, SumOf, MapThenSumSet,
     Material!MapThenFoldSet, MapThenFoldSet
<1>4. Material!Move(h, a, moved)  BY <1>3 DEF Material!MoveAll
<1>5. SumOf(moved, Places) \in Nat
  <2>. HIDE DEF moved
  <2>. QED  BY <1>1, <1>2, SumNat
<1>6. /\ a \in Amounts /\ moved \in Amounts /\ \A p \in Places : a[p] \in Nat /\ moved[p] \in Nat
      /\ \A p \in Places : moved[p] = Material!Available(c, p)
  BY <1>2, <1>5 DEF Material!Zero, Amounts
<1>. HIDE DEF a, moved
<1>7. ASSUME ~torn, NEW p \in Places PROVE taken[p] + moved[p] <= added[p] + a[p]
  <2>1. newAdded[c] = Material!Zero /\ newTaken[c] = Material!Zero  BY <1>1, <1>7 DEF TakesWhatIsThere
  <2>2. Material!Available(c, p) \in Nat /\ (Material!Available(c, p) # 0 => taken[p] + Material!Available(c, p) = added[p])
    BY <1>1, <2>1, ZeroIs, AvailableIs, MaTypes
  <2>3. taken[p] <= added[p] /\ taken[p] \in Nat /\ added[p] \in Nat
    BY <1>7, MaTypes DEF Material!StockIsCovered
  <2>. QED  BY <1>6, <2>2, <2>3
<1>. QED  BY <1>1, <1>4, <1>6, <1>7, MoveStep

\* A clear begins on some connection.
LEMMA ClearBeginStep ==
  ASSUME Material!MaterialsAssumption, StockInv, NEW h \in Single, NEW c \in Things, Material!ClearBegin(h, c)
  PROVE  StockInv'
<1>. USE DEF StockInv, Material!ClearBegin, Material!Goto, Material!tables, Material!work
<1>0. h \in Material!Requests /\ h \notin Asks
  BY DEF Material!Requests, Material!MaterialsAssumption
<1>1. Material!TypeOK'  BY <1>0 DEF Material!TypeOK
<1>2. Reserves'  BY <1>0 DEF Reserves, InTransaction, Material!TypeOK, Material!Requests
<1>3. NeverNegative'  BY DEF NeverNegative, Covered, Material!Zero
<1>4. OnlyClears'  BY <1>0 DEF OnlyClears, Material!Idle, Material!TypeOK
<1>5. ASSUME ~torn' PROVE (Material!StockIsCovered /\ ClearIsAlone /\ TakesWhatIsThere)'
  <2>1. ~torn /\ Material!Clearing = {} /\ ~Material!Withdrawing /\ leaked = {}  BY <1>5
  <2>2. \A g \in Material!Requests : ~InTransaction(g)
    BY <2>1 DEF Material!Clearing, Material!Withdrawing, InTransaction, Reserves, Material!Requests
  <2>3. open = {}
    BY <2>1, <2>2
       DEF OnlyClears, Material!Idle, Reserves, Material!TypeOK,
          Material!MaterialsAssumption, Material!Requests
  <2>4. newTaken[c] = Material!Zero  BY <2>3 DEF NeverNegative
  <2>5. Material!StockIsCovered'  BY <2>1 DEF Material!StockIsCovered
  <2>6. ClearIsAlone'
    BY <1>0, <2>1, <2>2, <2>3, <2>4, ZeroIs
       DEF ClearIsAlone, InTransaction, Material!TypeOK, Material!Requests
  <2>7. TakesWhatIsThere'
    BY <1>0, <2>1, <2>2
       DEF TakesWhatIsThere, InTransaction, Material!TypeOK, Material!Requests, Material!Zero
  <2>. QED  BY <2>5, <2>6, <2>7
<1>. QED  BY <1>1, <1>2, <1>3, <1>4, <1>5

\* What a clear's DELETE on one connection leaves to prove.
LEMMA DeleteStep ==
  ASSUME Material!MaterialsAssumption, StockInv, NEW h \in Single, NEW c \in Things, c \in Material!Idle,
         NEW a \in Amounts, NEW t \in Amounts, Material!Write(c, a, t),
         Allows(added, newAdded, c, a), Allows(taken, newTaken, c, t),
         NEW next \in {"withdrawals", "contributions"}, maPc[h] \in {"began", "withdrawals"}, Material!Goto(h, next),
         UNCHANGED <<open, line, lock, leaked>>, torn' = Material!Elsewhere(h, c),
         \A p \in Places : newTaken[c][p] + t[p] = -taken[p] \/ torn'
  PROVE  StockInv'
<1>. USE DEF StockInv, Material!Goto
<1>0. h \in Material!Requests /\ h \notin Asks
  BY DEF Material!Requests, Material!MaterialsAssumption
<1>1. /\ NeverNegative'
      /\ added' \in [Places -> Nat] /\ taken' \in [Places -> Nat]
      /\ newAdded' \in [Things -> Amounts] /\ newTaken' \in [Things -> Amounts]
      /\ c \in open => /\ added' = added /\ taken' = taken
                       /\ \A p \in Places : newTaken'[c][p] = newTaken[c][p] + t[p]
  BY WriteIs
<1>2. Material!TypeOK'  BY <1>0, <1>1 DEF Material!TypeOK, Amounts, Material!Elsewhere
<1>3. Reserves'  BY <1>0 DEF Reserves, InTransaction, Material!TypeOK, Material!Requests
<1>4. OnlyClears'  BY DEF OnlyClears, Material!Idle
<1>5. ASSUME ~torn' PROVE (Material!StockIsCovered /\ ClearIsAlone /\ TakesWhatIsThere)'
  <2>1. ~torn /\ c = line[h]  BY <1>5 DEF Material!Elsewhere
  <2>2. /\ InTransaction(h) /\ open = {c} /\ leaked = {c} /\ \A g \in Material!Requests \ {h} : ~InTransaction(g)
    BY <2>1 DEF ClearIsAlone, InTransaction
  <2>3. added' = added /\ taken' = taken /\ \A p \in Places : newTaken'[c][p] = -taken[p]
    BY <1>1, <1>5, <2>2
  <2>4. Material!StockIsCovered'  BY <2>1, <2>3 DEF Material!StockIsCovered
  <2>5. \A g \in Material!Requests \ {h} : ~InTransaction(g)' /\ maPc'[g] = maPc[g]
    BY <2>2 DEF InTransaction, Material!TypeOK
  <2>6. ClearIsAlone'
    BY <1>0, <2>1, <2>2, <2>3, <2>5 DEF ClearIsAlone, InTransaction, Material!TypeOK, Material!Requests
  <2>7. TakesWhatIsThere'
    BY <1>0, <2>5 DEF TakesWhatIsThere, InTransaction, Material!Requests
  <2>. QED  BY <2>4, <2>6, <2>7
<1>. QED  BY <1>1, <1>2, <1>3, <1>4, <1>5

\* The first DELETE of a clear gives back what was withdrawn.
LEMMA ClearWithdrawalsStep ==
  ASSUME Material!MaterialsAssumption, StockInv, NEW h \in Single, NEW c \in Things, Material!ClearWithdrawals(h, c)
  PROVE  StockInv'
<1>. DEFINE t == [p \in Places |-> -Material!Taken(c)[p]]
<1>. USE DEF StockInv
<1>1. \A p \in Places : t[p] = -(taken[p] + newTaken[c][p])  BY AvailableIs
<1>2. t \in Amounts  BY <1>1, MaTypes DEF Amounts
<1>3. Material!Write(c, Material!Zero, t) /\ c \in Material!Idle /\ maPc[h] = "began" /\ Material!Goto(h, "withdrawals")
      /\ UNCHANGED <<open, line, lock, leaked>> /\ torn' = Material!Elsewhere(h, c)
      /\ \A d \in Things \ {c}, p \in Places : newTaken[d][p] >= 0
  BY DEF Material!ClearWithdrawals
<1>. HIDE DEF t
<1>4. Allows(added, newAdded, c, Material!Zero) /\ Allows(taken, newTaken, c, t)
  BY <1>1, <1>3, ZeroIs DEF Allows
<1>5. \A p \in Places : newTaken[c][p] + t[p] = -taken[p]
  BY <1>1, MaTypes
<1>. QED  BY <1>2, <1>3, <1>4, <1>5, ZeroIs, DeleteStep

\* The second takes away what was contributed.
LEMMA ClearContributionsStep ==
  ASSUME Material!MaterialsAssumption, StockInv, NEW h \in Single, NEW c \in Things, Material!ClearContributions(h, c)
  PROVE  StockInv'
<1>. DEFINE a == [p \in Places |-> -Material!Added(c)[p]]
<1>. USE DEF StockInv
<1>1. \A p \in Places : a[p] = -(added[p] + newAdded[c][p])  BY AvailableIs
<1>2. a \in Amounts  BY <1>1, MaTypes DEF Amounts
<1>3. Material!Write(c, a, Material!Zero) /\ c \in Material!Idle /\ maPc[h] = "withdrawals" /\ Material!Goto(h, "contributions")
      /\ UNCHANGED <<open, line, lock, leaked>> /\ torn' = Material!Elsewhere(h, c)
      /\ \A d \in Things \ {c}, p \in Places : newAdded[d][p] >= 0
  BY DEF Material!ClearContributions
<1>. HIDE DEF a
<1>4. Allows(added, newAdded, c, a) /\ Allows(taken, newTaken, c, Material!Zero)
  BY <1>1, <1>3, ZeroIs DEF Allows
<1>5. \A p \in Places : newTaken[c][p] + Material!Zero[p] = -taken[p] \/ torn'
  <2>. SUFFICES ASSUME ~torn', NEW p \in Places PROVE newTaken[c][p] + Material!Zero[p] = -taken[p]
    OBVIOUS
  <2>1. ~torn /\ c = line[h]  BY <1>3 DEF Material!Elsewhere
  <2>2. newTaken[c][p] = -taken[p]  BY <1>3, <2>1 DEF ClearIsAlone, InTransaction
  <2>. QED  BY <2>2, ZeroIs, MaTypes
<1>. QED  BY <1>2, <1>3, <1>4, <1>5, ZeroIs, DeleteStep

\* COMMIT ends the transaction of the connection it happens to be on.
LEMMA ClearCommitStep ==
  ASSUME Material!MaterialsAssumption, StockInv, NEW h \in Single, NEW c \in Things, Material!ClearCommit(h, c)
  PROVE  StockInv'
<1>. USE DEF StockInv
<1>0. h \in Material!Requests /\ h \notin Asks
  BY DEF Material!Requests, Material!MaterialsAssumption
<1>1. /\ c \in Material!Idle /\ Material!Commit(c) /\ torn' = Material!Elsewhere(h, c) /\ maPc[h] = "contributions"
      /\ maPc' = [maPc EXCEPT ![h] = "done"] /\ line' = [line EXCEPT ![h] = None]
  BY DEF Material!ClearCommit, Material!Done, Material!Goto
<1>2. /\ NeverNegative'
      /\ added' \in [Places -> Nat] /\ taken' \in [Places -> Nat]
      /\ newAdded' \in [Things -> Amounts] /\ newTaken' \in [Things -> Amounts]
      /\ open' = open \ {c} /\ leaked' = leaked \ {c} /\ lock' = IF lock = c THEN None ELSE lock
      /\ \A p \in Places : taken'[p] = taken[p] + newTaken[c][p]
  BY <1>1, CloseIs
<1>3. Material!TypeOK'  BY <1>0, <1>1, <1>2 DEF Material!TypeOK, Amounts, Material!Elsewhere
<1>4. Reserves'
  <2>1. \A g \in Asks : line[g] # c  BY <1>1 DEF Material!Idle
  <2>. QED  BY <1>0, <1>1, <1>2, <2>1 DEF Reserves, InTransaction, Material!TypeOK, Material!Requests
<1>5. OnlyClears'
  BY <1>0, <1>1, <1>2 DEF OnlyClears, Material!Idle, Material!TypeOK, Material!Requests
<1>6. ASSUME ~torn' PROVE (Material!StockIsCovered /\ ClearIsAlone /\ TakesWhatIsThere)'
  <2>1. ~torn /\ c = line[h]  BY <1>1, <1>6 DEF Material!Elsewhere
  <2>2. /\ open = {c} /\ leaked = {c} /\ \A g \in Material!Requests \ {h} : ~InTransaction(g)
        /\ \A p \in Places : newTaken[c][p] = -taken[p]
    BY <1>1, <2>1 DEF ClearIsAlone, InTransaction
  <2>3. \A p \in Places : taken'[p] = 0 /\ added'[p] >= 0
    BY <1>2, <2>2, MaTypes
  <2>4. Material!StockIsCovered'  BY <2>3 DEF Material!StockIsCovered
  <2>5. \A g \in Material!Requests : ~InTransaction(g)'
    BY <1>1, <2>2 DEF InTransaction, Material!TypeOK
  <2>6. ClearIsAlone'  BY <1>2, <2>2, <2>5 DEF ClearIsAlone, Material!Requests
  <2>7. TakesWhatIsThere'
    BY <2>5 DEF TakesWhatIsThere, InTransaction, Material!Requests
  <2>. QED  BY <2>4, <2>6, <2>7
<1>. QED  BY <1>2, <1>3, <1>4, <1>5, <1>6

\* Every statement of withdrawals, moves and clears keeps the invariant.
LEMMA MaStep ==
  ASSUME Material!MaterialsAssumption, StockInv, [Material!Next]_(Material!vars)
  PROVE  StockInv'
<1>1. ASSUME NEW h \in Asks, Material!End(h) PROVE StockInv'
  BY <1>1, GiveBackStep DEF Material!End, InTransaction
<1>2. CASE UNCHANGED Material!vars
  BY <1>2
     DEF Material!vars, Material!tables, Material!work, Material!requests, StockInv, Material!TypeOK,
        Reserves, InTransaction, NeverNegative, Covered, Material!Zero,
     OnlyClears, Material!Idle, Material!StockIsCovered, ClearIsAlone, TakesWhatIsThere
<1>. QED
  BY <1>1, <1>2, ContributeStep, StockBegin, WithdrawStep, MoveAllStep, ClearBeginStep,
     ClearWithdrawalsStep,
     ClearContributionsStep, ClearCommitStep DEF Material!Next

\* Whatever the other parts do, the stock keeps its invariant.
LEMMA StockInvariance == PartsSpec => []StockInv
<1>1. Material!MaterialsAssumption  BY PartsAssumption
<1>. QED  BY <1>1, MaInit, MaStep, CommunityFollows, PTL DEF Material!Spec

\* Withdrawals and moves never take more from a place than was contributed there; only a
\* clear that overlaps them, or is spread over connections, can make it so.
THEOREM Stock == PartsSpec => []StockIsCovered
<1>1. ASSUME StockInv PROVE StockIsCovered
  BY <1>1 DEF StockInv, StockIsCovered, Material!StockIsCovered
<1>. QED  BY <1>1, StockInvariance, PTL

\* However transactions end, a connection goes back to the pool outside of one; a clear
\* that had a connection to itself leaves none open either.
THEOREM CleanConnections == PartsSpec => []IdleIsClean
<1>1. ASSUME StockInv PROVE IdleIsClean
  <2>1. SUFFICES ASSUME NEW c \in Material!Idle \cap open
                 PROVE  c \in leaked /\ (torn \/ \E h \in Material!Clearing : line[h] = c)
    BY DEF IdleIsClean, Material!IdleIsClean
  <2>2. c \in leaked  BY <1>1 DEF StockInv, OnlyClears
  <2>3. ASSUME ~torn PROVE \E h \in Material!Clearing : line[h] = c
    <3>1. PICK h \in Single : InTransaction(h)
      BY <1>1, <2>2, <2>3 DEF StockInv, ClearIsAlone
    <3>2. leaked = {line[h]}  BY <1>1, <2>3, <3>1 DEF StockInv, ClearIsAlone
    <3>3. h \in Material!Clearing
      BY <1>1, <3>1 DEF StockInv, Reserves, InTransaction, Material!Clearing
    <3>. QED  BY <2>2, <3>2, <3>3
  <2>. QED  BY <2>2, <2>3
<1>. QED  BY <1>1, StockInvariance, PTL
-----------------------------------------------------------------------------
(* Orders. *)

\* The component's own copy of this operator of FiniteSets is that of FiniteSets.
LEMMA MemberSets == \A S : Order!IsFiniteSet(S) <=> IsFiniteSet(S)
  BY DEF Order!IsFiniteSet, IsFiniteSet

\* The deliveries that SUM() finds are the sum of Sums.
LEMMA DeliveriesAre ==
  Order!Deliveries = SumOf(reported, Places) /\ Order!Deliveries' = SumOf(reported', Places)
  BY DEF Order!Deliveries, Order!FoldFunctionOnSet, Order!MapThenFoldSet, SumOf, MapThenSumSet,
     MapThenFoldSet

\* Their sum is a quantity.
LEMMA DeliveriesNat ==
  ASSUME Order!OrdersAssumption, reported \in [Places -> Nat] PROVE Order!Deliveries \in Nat
  BY DeliveriesAre, SumNat, MemberSets DEF Order!OrdersAssumption

\* When what one member reported becomes n, the sum changes by the difference.
LEMMA DeliveriesChange ==
  ASSUME Order!OrdersAssumption, reported \in [Places -> Nat], NEW m \in Places, NEW n \in Nat,
         reported' = [reported EXCEPT ![m] = n]
  PROVE  Order!Deliveries' = Order!Deliveries - reported[m] + n
<1>1. IsFiniteSet(Places)  BY MemberSets DEF Order!OrdersAssumption
<1>2. (\A p \in Places : reported[p] \in Int) /\ reported'[m] = n /\ (\A p \in Places \ {m} : reported'[p] = reported[p])
  OBVIOUS
<1>3. SumOf(reported', Places) = SumOf(reported, Places) - reported[m] + reported'[m]
  <2>. DEFINE new == reported'
  <2>1. new[m] \in Int /\ \A p \in Places \ {m} : new[p] = reported[p]  BY <1>2
  <2>. HIDE DEF new
  <2>2. SumOf(new, Places) = SumOf(reported, Places) - reported[m] + new[m]
    BY <1>1, <1>2, <2>1, SumUpdate
  <2>. QED  BY <2>2 DEF new
<1>. QED  BY <1>2, <1>3, DeliveriesAre

\* Whatever was reported at some time: an account that goes takes nothing from it.
Ever == Order!Deliveries + erased

\* Claims and reports are of a member; a transaction keeps the order there.
OrderWork ==
  /\ \A r \in Order!Claiming \cup Order!Reporting : by[r] \in Places
  /\ \A r \in (Asks \cup Things) : Order!InTransaction(r) => Order!Exists
  /\ basis <= erased /\ seen <= erased

\* Who has seen the order delivered is right for good.
CompletionIsEarned ==
  /\ orStatus = "completed" => Ever >= Required
  /\ \A r \in (Asks \cup Things) : orPc[r] = "completed" => Ever >= Required

\* A report's total is at most what was ever reported, its own delivery included.
TotalIsSeen ==
  /\ delivered <= Ever
  /\ \A r \in (Asks \cup Things) : orPc[r] = "summed" => total[r] <= Ever + orQuantity[r]

\* The only report there is has asked for what is still missing, and seen everything that
\* was there when it looked.
AloneIsExact ==
  ~orOverlapped =>
    /\ delivered = Ever - basis /\ delivered <= Required
    /\ \A r, s \in Order!Reporting : r = s
    /\ \A r \in Order!Reporting : orQuantity[r] <= Required - delivered
    /\ \A r \in (Asks \cup Things) : orPc[r] = "summed" =>
         total[r] = Ever + orQuantity[r] - seen /\ basis <= seen

\* The only claim there is comes first, and the order it has got is not open again.
OneClaims ==
  ~contested =>
    /\ \A r, s \in Order!Claiming : r = s
    /\ winners # {} => orStatus # "open" /\ Order!Claiming = {}
    /\ Order!ClaimIsKept

\* The invariant of an order.
OrderInv ==
  /\ Order!TypeOK /\ OrderWork
  /\ Order!Exists => CompletionIsEarned /\ TotalIsSeen /\ AloneIsExact /\ OneClaims

\* The quantities, as numbers.
LEMMA OrderTypes ==
  ASSUME Order!OrdersAssumption, OrderInv
  PROVE  /\ Order!Deliveries \in Nat /\ Ever \in Nat /\ Ever = Order!Deliveries + erased
         /\ delivered \in Nat /\ erased \in Nat /\ seen \in Nat /\ basis \in Nat /\ Required \in Nat
         /\ \A r \in (Asks \cup Things) : orQuantity[r] \in Nat /\ total[r] \in Nat
         /\ \A m \in Places : reported[m] \in Nat
  BY DeliveriesNat DEF OrderInv, Order!TypeOK, Ever, Order!OrdersAssumption

\* A request that ends is no claim, report or completion any more; the others go on.
LEMMA FinishIs ==
  ASSUME Order!OrdersAssumption, Order!TypeOK, NEW r \in (Asks \cup Things), Order!Finish(r)
  PROVE  /\ orPc' \in [(Asks \cup Things) -> {"new", "report", "inserted", "summed", "done"} \cup Order!Blind]
         /\ by' \in [(Asks \cup Things) -> Places \cup {None}]
         /\ orQuantity' \in [(Asks \cup Things) -> 0..Required] /\ total' \in [(Asks \cup Things) -> Nat]
         /\ Order!Claiming' = Order!Claiming \ {r} /\ Order!Reporting' = Order!Reporting \ {r}
         /\ orPc'[r] = "done"
         /\ \A s \in (Asks \cup Things) \ {r} :
              /\ orPc'[s] = orPc[s] /\ by'[s] = by[s]
              /\ orQuantity'[s] = orQuantity[s] /\ total'[s] = total[s]
<1>. USE DEF Order!Finish, Order!Goto, Order!TypeOK, Order!OrdersAssumption
<1>1. orPc' \in [(Asks \cup Things) -> {"new", "report", "inserted", "summed", "done"} \cup Order!Blind]
  OBVIOUS
<1>2. by' \in [(Asks \cup Things) -> Places \cup {None}]
  OBVIOUS
<1>3. orQuantity' \in [(Asks \cup Things) -> 0..Required] /\ total' \in [(Asks \cup Things) -> Nat]
  OBVIOUS
<1>4. /\ orPc'[r] = "done"
      /\ \A s \in (Asks \cup Things) \ {r} :
           /\ orPc'[s] = orPc[s] /\ by'[s] = by[s]
           /\ orQuantity'[s] = orQuantity[s] /\ total'[s] = total[s]
  OBVIOUS
<1>5. Order!Claiming' = Order!Claiming \ {r} /\ Order!Reporting' = Order!Reporting \ {r}
  BY <1>4 DEF Order!Claiming, Order!Reporting
<1>. QED  BY <1>1, <1>2, <1>3, <1>4, <1>5

\* A new order is open and nothing is delivered.
LEMMA OrderInit == ASSUME Order!OrdersAssumption, Order!Init PROVE OrderInv
<1>. USE DEF Order!Init, Order!OrdersAssumption
<1>1. Order!TypeOK
  <2>1. orQuantity \in [(Asks \cup Things) -> 0..Required] /\ total \in [(Asks \cup Things) -> Nat]
    OBVIOUS
  <2>2. orPc \in [(Asks \cup Things) -> {"new", "report", "inserted", "summed", "done"} \cup Order!Blind]
    OBVIOUS
  <2>3. by \in [(Asks \cup Things) -> Places \cup {None}] /\ reported \in [Places -> Nat]
    OBVIOUS
  <2>. QED  BY <2>1, <2>2, <2>3 DEF Order!TypeOK
<1>2. Order!Deliveries = 0
  <2>1. IsFiniteSet(Places)  BY MemberSets
  <2>2. \A m \in Places : reported[m] = 0  OBVIOUS
  <2>. QED  BY <2>1, <2>2, DeliveriesAre, SumZero
<1>3. Ever = 0  BY <1>2 DEF Ever
<1>4. \A r \in (Asks \cup Things) : orPc[r] = "new"  OBVIOUS
<1>5. Order!Claiming = {} /\ Order!Reporting = {}
  BY <1>4 DEF Order!Claiming, Order!Reporting
<1>6. OrderWork  BY <1>4, <1>5 DEF OrderWork, Order!InTransaction
<1>7. CompletionIsEarned /\ TotalIsSeen
  BY <1>3, <1>4 DEF CompletionIsEarned, TotalIsSeen
<1>8. AloneIsExact  BY <1>3, <1>4, <1>5 DEF AloneIsExact
<1>9. OneClaims  BY <1>5 DEF OneClaims, Order!ClaimIsKept
<1>. QED  BY <1>1, <1>6, <1>7, <1>8, <1>9 DEF OrderInv

\* What was ever reported stays while the deliveries do.
LEMMA EverKept ==
  ASSUME UNCHANGED <<reported, erased>>
  PROVE  Ever' = Ever /\ Order!Deliveries' = Order!Deliveries
  BY DeliveriesAre DEF Ever

\* A request that ends without a delivery leaves all but the claims and the status so.
LEMMA FinishKeeps ==
  ASSUME Order!OrdersAssumption, OrderInv, NEW r \in (Asks \cup Things), Order!Finish(r),
         UNCHANGED <<delivered, reported, erased, seen, basis, orOverlapped>>,
         Order!Exists' <=> Order!Exists
  PROVE  /\ OrderWork'
         /\ Order!Exists => /\ TotalIsSeen' /\ AloneIsExact'
                            /\ \A s \in (Asks \cup Things) : orPc'[s] = "completed" => Ever' >= Required
<1>1. Order!TypeOK  BY DEF OrderInv
<1>2. OrderWork'
  <2>1. \A s \in (Order!Claiming \cup Order!Reporting)' : by'[s] \in Places
    BY <1>1, FinishIs DEF OrderInv, OrderWork, Order!Claiming, Order!Reporting
  <2>2. ASSUME NEW s \in (Asks \cup Things), Order!InTransaction(s)' PROVE Order!Exists'
    <3>1. Order!InTransaction(s)
      BY <1>1, <2>2, FinishIs DEF Order!InTransaction
    <3>. QED  BY <3>1 DEF OrderInv, OrderWork
  <2>3. basis' <= erased' /\ seen' <= erased'  BY DEF OrderInv, OrderWork
  <2>. QED  BY <2>1, <2>2, <2>3 DEF OrderWork
<1>3. ASSUME Order!Exists PROVE TotalIsSeen'
  BY <1>1, <1>3, FinishIs, EverKept DEF OrderInv, TotalIsSeen
<1>4. ASSUME Order!Exists PROVE AloneIsExact'
  <2>1. SUFFICES ASSUME ~orOverlapped' PROVE AloneIsExact'
    BY DEF AloneIsExact
  <2>2. Ever' = Ever /\ AloneIsExact /\ ~orOverlapped
    BY <1>4, <2>1, EverKept DEF OrderInv
  <2>3. ASSUME NEW s \in Order!Reporting'
        PROVE  /\ s \in Order!Reporting /\ s \in (Asks \cup Things)
               /\ orPc'[s] = orPc[s] /\ orQuantity'[s] = orQuantity[s] /\ total'[s] = total[s]
    BY <1>1, <2>3, FinishIs DEF Order!Reporting
  <2>4. \A s \in (Asks \cup Things) : orPc'[s] = "summed" => s \in Order!Reporting'
    BY DEF Order!Reporting
  <2>. QED  BY <2>2, <2>3, <2>4 DEF AloneIsExact
<1>5. ASSUME Order!Exists, NEW s \in (Asks \cup Things), orPc'[s] = "completed" PROVE Ever' >= Required
  BY <1>1, <1>5, FinishIs, EverKept DEF OrderInv, CompletionIsEarned
<1>. QED  BY <1>2, <1>3, <1>4, <1>5

\* When the order is gone, nothing is said of it any more.
LEMMA OrderClear ==
  ASSUME Order!OrdersAssumption, OrderInv, Order!Clear
  PROVE  OrderInv'
<1>. USE DEF Order!Clear, Order!requests, Order!history
<1>1. Order!TypeOK'
  <2>1. reported' \in [Places -> Nat]  OBVIOUS
  <2>. QED  BY <2>1 DEF OrderInv, Order!TypeOK
<1>2. OrderWork'
  BY DEF OrderInv, OrderWork, Order!InTransaction, Order!Claiming, Order!Reporting
<1>. QED  BY <1>1, <1>2 DEF OrderInv, Order!Exists

\* A decision to complete or to cancel, on an order as it is.
LEMMA OrderDecide ==
  ASSUME Order!OrdersAssumption, OrderInv, NEW r \in (Asks \cup Things), NEW next \in Order!Blind,
         Order!Decide(r, next)
  PROVE  OrderInv'
<1>. USE DEF Order!Decide, Order!Goto, Order!row, Order!history
<1>1. Order!TypeOK'
  BY DEF OrderInv, Order!TypeOK, Order!Blind
<1>2. /\ \A s \in (Asks \cup Things) \ {r} : orPc'[s] = orPc[s]
      /\ orPc'[r] = next /\ next \in {"completed", "cancelled"} /\ orPc[r] = "new"
  BY DEF OrderInv, Order!TypeOK, Order!Blind
<1>3. Order!Claiming' = Order!Claiming /\ Order!Reporting' = Order!Reporting
  BY <1>2 DEF Order!Claiming, Order!Reporting
<1>4. OrderWork'
  BY <1>2, <1>3 DEF OrderInv, OrderWork, Order!InTransaction, Order!Exists
<1>5. Order!Exists /\ Ever' = Ever  BY EverKept
<1>6. CompletionIsEarned'
  BY <1>2, <1>5, OrderTypes DEF OrderInv, CompletionIsEarned, TotalIsSeen, Order!Permitted
<1>7. TotalIsSeen'  BY <1>2, <1>5 DEF OrderInv, TotalIsSeen
<1>8. AloneIsExact'  BY <1>2, <1>3, <1>5 DEF OrderInv, AloneIsExact
<1>9. OneClaims'
  BY <1>3, <1>5 DEF OrderInv, OneClaims, Order!ClaimIsKept
<1>. QED  BY <1>1, <1>4, <1>6, <1>7, <1>8, <1>9 DEF OrderInv

\* A claim is decided on an open order: nobody has won it yet.
LEMMA OrderDecideClaim ==
  ASSUME Order!OrdersAssumption, OrderInv, NEW r \in (Asks \cup Things), NEW m \in Places,
         Order!DecideClaim(r, m)
  PROVE  OrderInv'
<1>. USE DEF Order!DecideClaim, Order!Goto, Order!row
<1>1. Order!TypeOK'
  BY DEF OrderInv, Order!TypeOK, Order!Blind
<1>2. /\ \A s \in (Asks \cup Things) \ {r} : orPc'[s] = orPc[s] /\ by'[s] = by[s]
      /\ orPc'[r] = "claimed" /\ by'[r] = m /\ orPc[r] = "new"
  BY DEF OrderInv, Order!TypeOK
<1>3. Order!Claiming' = Order!Claiming \cup {r} /\ Order!Reporting' = Order!Reporting
  BY <1>2 DEF Order!Claiming, Order!Reporting
<1>4. OrderWork'
  BY <1>2, <1>3 DEF OrderInv, OrderWork, Order!InTransaction, Order!Exists, Order!Claiming, Order!Reporting
<1>5. Order!Exists /\ Ever' = Ever  BY EverKept
<1>6. CompletionIsEarned' /\ TotalIsSeen'
  BY <1>2, <1>5 DEF OrderInv, CompletionIsEarned, TotalIsSeen
<1>7. AloneIsExact'  BY <1>2, <1>3, <1>5 DEF OrderInv, AloneIsExact
<1>8. OneClaims'
  <2>1. SUFFICES ASSUME ~contested' PROVE OneClaims'
    BY DEF OneClaims
  <2>2. ~contested /\ Order!Claiming = {} /\ orStatus = "open"
    BY <2>1 DEF Order!Permitted, OrderInv, Order!TypeOK
  <2>3. winners = {}  BY <1>5, <2>2 DEF OrderInv, OneClaims
  <2>. QED  BY <1>3, <2>2, <2>3 DEF OneClaims, Order!ClaimIsKept
<1>. QED  BY <1>1, <1>4, <1>6, <1>7, <1>8 DEF OrderInv

\* A report is decided: what it reports was still missing.
LEMMA OrderDecideReport ==
  ASSUME Order!OrdersAssumption, OrderInv, NEW r \in (Asks \cup Things), NEW m \in Places,
         NEW q \in 1..Required, Order!DecideReport(r, m, q)
  PROVE  OrderInv'
<1>. USE DEF Order!DecideReport, Order!Goto, Order!row
<1>1. Order!TypeOK'
  BY DEF OrderInv, Order!TypeOK, Order!OrdersAssumption
<1>2. /\ \A s \in (Asks \cup Things) \ {r} :
           orPc'[s] = orPc[s] /\ by'[s] = by[s] /\ orQuantity'[s] = orQuantity[s]
      /\ orPc'[r] = "report" /\ by'[r] = m /\ orQuantity'[r] = q /\ orPc[r] = "new"
  BY DEF OrderInv, Order!TypeOK
<1>3. Order!Claiming' = Order!Claiming /\ Order!Reporting' = Order!Reporting \cup {r}
  BY <1>2 DEF Order!Claiming, Order!Reporting
<1>4. OrderWork'
  BY <1>2, <1>3 DEF OrderInv, OrderWork, Order!InTransaction, Order!Exists, Order!Claiming, Order!Reporting
<1>5. Order!Exists /\ Ever' = Ever  BY EverKept
<1>6. CompletionIsEarned' /\ TotalIsSeen'
  BY <1>2, <1>5 DEF OrderInv, CompletionIsEarned, TotalIsSeen
<1>7. AloneIsExact'
  <2>1. SUFFICES ASSUME ~orOverlapped' PROVE AloneIsExact'
    BY DEF AloneIsExact
  <2>2. ~orOverlapped /\ Order!Reporting = {}
    BY <2>1 DEF OrderInv, Order!TypeOK
  <2>. QED  BY <1>2, <1>3, <1>5, <2>2 DEF OrderInv, AloneIsExact
<1>8. OneClaims'  BY <1>3, <1>5 DEF OrderInv, OneClaims, Order!ClaimIsKept
<1>. QED  BY <1>1, <1>4, <1>6, <1>7, <1>8 DEF OrderInv

\* complete and cancel write what was earned when they read the order, and earned still.
LEMMA OrderSetStatus ==
  ASSUME Order!OrdersAssumption, OrderInv, NEW r \in (Asks \cup Things), Order!SetStatus(r)
  PROVE  OrderInv'
<1>. USE DEF Order!SetStatus, Order!history
<1>1. Order!TypeOK  BY DEF OrderInv
<1>2. Order!Finish(r) /\ Order!Exists /\ orStatus' \in {"completed", "cancelled"} /\ orStatus' = orPc[r]
  BY <1>1 DEF Order!TypeOK, Order!Blind
<1>3. Order!Exists'  BY <1>2 DEF Order!Exists
<1>4. Order!TypeOK'
  BY <1>1, <1>2, FinishIs DEF Order!TypeOK, Order!Blind
<1>5. OrderWork' /\ TotalIsSeen' /\ AloneIsExact'
  BY <1>2, <1>3, FinishKeeps
<1>6. CompletionIsEarned'
  <2>1. \A s \in (Asks \cup Things) : orPc'[s] = "completed" => Ever' >= Required
    BY <1>2, <1>3, FinishKeeps
  <2>2. orStatus' = "completed" => Ever' >= Required
    BY <1>2, EverKept DEF OrderInv, CompletionIsEarned
  <2>. QED  BY <2>1, <2>2 DEF CompletionIsEarned
<1>7. OneClaims'
  BY <1>1, <1>2, FinishIs DEF OrderInv, OneClaims, Order!ClaimIsKept
<1>. QED  BY <1>4, <1>5, <1>6, <1>7 DEF OrderInv

\* A claim is written; if it was the only one, the order was not won before.
LEMMA OrderClaim ==
  ASSUME Order!OrdersAssumption, OrderInv, NEW r \in (Asks \cup Things), Order!Claim(r)
  PROVE  OrderInv'
<1>. USE DEF Order!Claim
<1>1. Order!TypeOK  BY DEF OrderInv
<1>2. Order!Finish(r) /\ Order!Exists /\ orStatus' = "claimed" /\ r \in Order!Claiming
  BY DEF Order!Claiming
<1>3. Order!Exists'  BY <1>2 DEF Order!Exists
<1>4. by[r] \in Places  BY <1>2 DEF OrderInv, OrderWork
<1>5. Order!TypeOK'
  BY <1>1, <1>2, <1>4, FinishIs DEF Order!TypeOK, Order!Blind
<1>6. OrderWork' /\ TotalIsSeen' /\ AloneIsExact'
  BY <1>2, <1>3, FinishKeeps
<1>7. CompletionIsEarned'
  <2>1. \A s \in (Asks \cup Things) : orPc'[s] = "completed" => Ever' >= Required
    BY <1>2, <1>3, FinishKeeps
  <2>. QED  BY <1>2, <2>1 DEF CompletionIsEarned
<1>8. OneClaims'
  <2>1. SUFFICES ASSUME ~contested' PROVE OneClaims'
    BY DEF OneClaims
  <2>2. Order!Claiming' = Order!Claiming \ {r}  BY <1>1, <1>2, FinishIs
  <2>3. ~contested /\ winners = {} /\ Order!Claiming' = {}
    BY <1>2, <2>1, <2>2 DEF OrderInv, OneClaims
  <2>4. winners' = {by[r]} /\ assignee' = by[r] /\ orClosed' = orClosed /\ by[r] \notin orClosed
    BY <2>3
  <2>. QED  BY <1>2, <2>3, <2>4 DEF OneClaims, Order!ClaimIsKept
<1>. QED  BY <1>5, <1>6, <1>7, <1>8 DEF OrderInv

\* A request that fails has changed nothing.
LEMMA OrderAbort ==
  ASSUME Order!OrdersAssumption, OrderInv, NEW r \in (Asks \cup Things), Order!Abort(r)
  PROVE  OrderInv'
<1>. USE DEF Order!Abort, Order!row, Order!history
<1>1. Order!TypeOK  BY DEF OrderInv
<1>2. Order!Finish(r) /\ (Order!Exists' <=> Order!Exists)  BY DEF Order!Exists
<1>3. Order!TypeOK'  BY <1>1, <1>2, FinishIs DEF Order!TypeOK
<1>4. OrderWork'  BY <1>2, FinishKeeps
<1>5. ASSUME Order!Exists PROVE CompletionIsEarned' /\ TotalIsSeen' /\ AloneIsExact'
  <2>1. TotalIsSeen' /\ AloneIsExact'  BY <1>2, <1>5, FinishKeeps
  <2>2. \A s \in (Asks \cup Things) : orPc'[s] = "completed" => Ever' >= Required
    BY <1>2, <1>5, FinishKeeps
  <2>3. orStatus' = "completed" => Ever' >= Required
    BY <1>5, EverKept DEF OrderInv, CompletionIsEarned
  <2>. QED  BY <2>1, <2>2, <2>3 DEF CompletionIsEarned
<1>6. ASSUME Order!Exists PROVE OneClaims'
  BY <1>1, <1>2, <1>6, FinishIs DEF OrderInv, OneClaims, Order!ClaimIsKept
<1>. QED  BY <1>2, <1>3, <1>4, <1>5, <1>6 DEF OrderInv

\* The delivery is inserted, not committed.
LEMMA OrderInsert ==
  ASSUME Order!OrdersAssumption, OrderInv, NEW r \in (Asks \cup Things), Order!Insert(r)
  PROVE  OrderInv'
<1>. USE DEF Order!Insert, Order!Goto, Order!row, Order!history
<1>1. Order!TypeOK'
  BY DEF OrderInv, Order!TypeOK
<1>2. /\ \A s \in (Asks \cup Things) \ {r} : orPc'[s] = orPc[s]
      /\ orPc'[r] = "inserted" /\ orPc[r] = "report"
  BY DEF OrderInv, Order!TypeOK
<1>3. Order!Claiming' = Order!Claiming /\ Order!Reporting' = Order!Reporting
  BY <1>2 DEF Order!Claiming, Order!Reporting
<1>4. Order!Exists /\ Order!Exists' /\ Ever' = Ever  BY EverKept DEF Order!Exists
<1>5. OrderWork'  BY <1>3, <1>4 DEF OrderInv, OrderWork
<1>6. CompletionIsEarned' /\ TotalIsSeen'
  BY <1>2, <1>4 DEF OrderInv, CompletionIsEarned, TotalIsSeen
<1>7. AloneIsExact'  BY <1>2, <1>3, <1>4 DEF OrderInv, AloneIsExact
<1>8. OneClaims'  BY <1>3, <1>4 DEF OrderInv, OneClaims, Order!ClaimIsKept
<1>. QED  BY <1>1, <1>5, <1>6, <1>7, <1>8 DEF OrderInv

\* SUM sees all deliveries there are, and its own.
LEMMA OrderSum ==
  ASSUME Order!OrdersAssumption, OrderInv, NEW r \in (Asks \cup Things), Order!Sum(r)
  PROVE  OrderInv'
<1>. USE DEF Order!Sum, Order!Goto, Order!row
<1>1. Order!TypeOK'
  BY OrderTypes DEF OrderInv, Order!TypeOK
<1>2. /\ \A s \in (Asks \cup Things) \ {r} : orPc'[s] = orPc[s] /\ total'[s] = total[s]
      /\ orPc'[r] = "summed" /\ orPc[r] = "inserted" /\ total'[r] = Order!Deliveries + orQuantity[r]
  BY DEF OrderInv, Order!TypeOK
<1>3. Order!Claiming' = Order!Claiming /\ Order!Reporting' = Order!Reporting /\ r \in Order!Reporting
  BY <1>2 DEF Order!Claiming, Order!Reporting
<1>4. Order!Exists /\ Order!Exists' /\ Ever' = Ever
  BY <1>2, EverKept DEF Order!Exists, Order!InTransaction, OrderInv, OrderWork
<1>5. OrderWork'
  BY <1>3, <1>4, OrderTypes DEF OrderInv, OrderWork
<1>6. CompletionIsEarned'
  BY <1>2, <1>4 DEF OrderInv, CompletionIsEarned
<1>7. TotalIsSeen'
  BY <1>2, <1>4, OrderTypes DEF OrderInv, TotalIsSeen
<1>8. AloneIsExact'
  <2>1. SUFFICES ASSUME ~orOverlapped' PROVE AloneIsExact'
    BY DEF AloneIsExact
  <2>2. \A s \in (Asks \cup Things) : orPc'[s] = "summed" => s = r
    BY <1>2, <1>3, <1>4, <2>1 DEF OrderInv, AloneIsExact, Order!Reporting
  <2>3. total'[r] = Ever' + orQuantity'[r] - seen' /\ basis' <= seen'
    BY <1>2, <1>4, OrderTypes DEF OrderInv, OrderWork
  <2>. QED  BY <1>3, <1>4, <2>1, <2>2, <2>3 DEF OrderInv, AloneIsExact
<1>9. OneClaims'  BY <1>3, <1>4 DEF OrderInv, OneClaims, Order!ClaimIsKept
<1>. QED  BY <1>1, <1>5, <1>6, <1>7, <1>8, <1>9 DEF OrderInv

\* The order is written from what SUM saw, and the delivery is there.
LEMMA OrderUpdate ==
  ASSUME Order!OrdersAssumption, OrderInv, NEW r \in (Asks \cup Things), Order!Update(r)
  PROVE  OrderInv'
<1>. USE DEF Order!Update
<1>1. Order!TypeOK /\ Order!Finish(r) /\ r \in Order!Reporting
  BY DEF OrderInv, Order!Reporting
<1>2. Order!Exists /\ Order!Exists'
  BY DEF OrderInv, OrderWork, Order!InTransaction, Order!Exists
<1>3. by[r] \in Places  BY <1>1 DEF OrderInv, OrderWork
<1>4. reported' = [reported EXCEPT ![by[r]] = reported[by[r]] + orQuantity[r]]
  OBVIOUS
<1>5. Ever' = Ever + orQuantity[r]
  <2>1. reported[by[r]] + orQuantity[r] \in Nat  BY <1>3, OrderTypes
  <2>2. Order!Deliveries' = Order!Deliveries - reported[by[r]] + (reported[by[r]] + orQuantity[r])
    BY <1>1, <1>3, <1>4, <2>1, DeliveriesChange DEF Order!TypeOK
  <2>. QED  BY <1>3, <2>2, OrderTypes DEF Ever
<1>6. Order!TypeOK'
  <2>1. reported' \in [Places -> Nat]
    BY <1>1, <1>3, <1>4, OrderTypes DEF Order!TypeOK
  <2>2. delivered' \in Nat /\ orStatus' \in {"completed", "reported"}
    BY OrderTypes
  <2>. QED  BY <1>1, <2>1, <2>2, FinishIs DEF Order!TypeOK, Order!Blind
<1>7. OrderWork'
  <2>1. \A s \in (Order!Claiming \cup Order!Reporting)' : by'[s] \in Places
    BY <1>1, FinishIs DEF OrderInv, OrderWork, Order!Claiming, Order!Reporting
  <2>2. basis' <= erased' /\ seen' <= erased'  BY DEF OrderInv, OrderWork
  <2>. QED  BY <1>2, <2>1, <2>2 DEF OrderWork
<1>8. CompletionIsEarned'
  <2>1. total[r] <= Ever'  BY <1>2, <1>5 DEF OrderInv, TotalIsSeen
  <2>2. orStatus' = "completed" => Ever' >= Required
    BY <1>5, <2>1, OrderTypes
  <2>3. \A s \in (Asks \cup Things) : orPc'[s] = "completed" => Ever' >= Required
    BY <1>1, <1>2, <1>5, FinishIs, OrderTypes DEF OrderInv, CompletionIsEarned
  <2>. QED  BY <2>2, <2>3 DEF CompletionIsEarned
<1>9. TotalIsSeen'
  <2>1. delivered' <= Ever'  BY <1>2, <1>5 DEF OrderInv, TotalIsSeen
  <2>2. ASSUME NEW s \in (Asks \cup Things), orPc'[s] = "summed" PROVE total'[s] <= Ever' + orQuantity'[s]
    <3>1. s # r /\ orPc[s] = "summed" /\ total'[s] = total[s] /\ orQuantity'[s] = orQuantity[s]
      BY <1>1, <2>2, FinishIs
    <3>. QED  BY <1>2, <1>5, <3>1, OrderTypes DEF OrderInv, TotalIsSeen
  <2>. QED  BY <2>1, <2>2 DEF TotalIsSeen
<1>10. AloneIsExact'
  <2>1. SUFFICES ASSUME ~orOverlapped' PROVE AloneIsExact'
    BY DEF AloneIsExact
  <2>2. Order!Reporting' = {}
    BY <1>1, <1>2, <2>1, FinishIs DEF OrderInv, AloneIsExact
  <2>3. \A s \in (Asks \cup Things) : orPc'[s] # "summed"
    BY <2>2 DEF Order!Reporting
  <2>4. /\ delivered = Ever - basis /\ orQuantity[r] <= Required - delivered
        /\ total[r] = Ever + orQuantity[r] - seen /\ basis <= seen
    BY <1>1, <1>2, <2>1 DEF OrderInv, AloneIsExact
  <2>5. delivered' = Ever' - basis' /\ delivered' <= Required
    BY <1>5, <2>4, OrderTypes
  <2>. QED  BY <2>2, <2>3, <2>5 DEF AloneIsExact
<1>11. OneClaims'
  <2>1. Order!Claiming' = Order!Claiming
    BY <1>1, FinishIs DEF Order!Claiming, Order!Reporting
  <2>. QED  BY <1>2, <2>1 DEF OrderInv, OneClaims, Order!ClaimIsKept
<1>. QED  BY <1>6, <1>7, <1>8, <1>9, <1>10, <1>11 DEF OrderInv

\* With an account go its deliveries; what was ever reported, and counted, stays.
LEMMA OrderCloseAccount ==
  ASSUME Order!OrdersAssumption, OrderInv, NEW m \in Places, Order!CloseAccount(m)
  PROVE  OrderInv'
<1>. USE DEF Order!CloseAccount, Order!requests
<1>1. Order!TypeOK  BY DEF OrderInv
<1>2. Order!Exists /\ Order!Exists'  BY DEF Order!Exists
<1>3. Ever' = Ever /\ erased' \in Nat /\ erased' >= erased
  <2>1. Order!Deliveries' = Order!Deliveries - reported[m]
    <3>1. reported \in [Places -> Nat] /\ reported' = [reported EXCEPT ![m] = 0] /\ 0 \in Nat
      BY <1>1 DEF Order!TypeOK
    <3>2. Order!Deliveries' = Order!Deliveries - reported[m] + 0
      BY <3>1, DeliveriesChange
    <3>. QED  BY <3>2, OrderTypes
  <2>. QED  BY <2>1, OrderTypes DEF Ever
<1>4. Order!TypeOK'
  <2>1. reported' \in [Places -> Nat]  BY <1>1 DEF Order!TypeOK
  <2>2. assignee' \in Places \cup {None} /\ orClosed' \subseteq Places
    BY <1>1 DEF Order!TypeOK
  <2>. QED  BY <1>1, <1>3, <2>1, <2>2 DEF Order!TypeOK
<1>5. Order!Claiming' = Order!Claiming /\ Order!Reporting' = Order!Reporting
  BY DEF Order!Claiming, Order!Reporting
<1>6. OrderWork'
  BY <1>2, <1>3, <1>5, OrderTypes DEF OrderInv, OrderWork
<1>7. CompletionIsEarned' /\ TotalIsSeen'
  BY <1>2, <1>3 DEF OrderInv, CompletionIsEarned, TotalIsSeen
<1>8. AloneIsExact'  BY <1>2, <1>3, <1>5 DEF OrderInv, AloneIsExact
<1>9. OneClaims'
  <2>1. Order!ClaimIsKept => Order!ClaimIsKept'
    BY <1>1 DEF Order!ClaimIsKept, Order!TypeOK, Order!OrdersAssumption
  <2>. QED  BY <1>2, <1>5, <2>1 DEF OrderInv, OneClaims
<1>. QED  BY <1>4, <1>6, <1>7, <1>8, <1>9 DEF OrderInv

\* Every step of an order keeps the invariant.
LEMMA OrderStep == ASSUME Order!OrdersAssumption, OrderInv, [Order!Next]_(Order!vars) PROVE OrderInv'
<1>1. CASE UNCHANGED Order!vars
  <2>. USE <1>1 DEF Order!vars, Order!row, Order!requests, Order!history
  <2>1. Ever' = Ever  BY EverKept
  <2>2. Order!Claiming' = Order!Claiming /\ Order!Reporting' = Order!Reporting
    BY DEF Order!Claiming, Order!Reporting
  <2>3. Order!TypeOK' /\ OrderWork'
    BY <2>2 DEF OrderInv, Order!TypeOK, OrderWork, Order!Exists, Order!InTransaction
  <2>4. ASSUME Order!Exists PROVE CompletionIsEarned' /\ TotalIsSeen' /\ AloneIsExact' /\ OneClaims'
    BY <2>1, <2>2, <2>4
       DEF OrderInv, CompletionIsEarned, TotalIsSeen, AloneIsExact, OneClaims, Order!ClaimIsKept
  <2>. QED  BY <2>3, <2>4 DEF OrderInv, Order!Exists
<1>. QED
  BY <1>1, OrderClear, OrderDecide, OrderDecideClaim, OrderDecideReport, OrderSetStatus, OrderClaim,
     OrderAbort, OrderInsert, OrderSum, OrderUpdate, OrderCloseAccount DEF Order!Next

\* Whatever the other parts do, an order keeps its invariant.
LEMMA OrderInvariance == PartsSpec => []OrderInv
<1>1. Order!OrdersAssumption  BY PartsAssumption
<1>. QED  BY <1>1, OrderInit, OrderStep, CommunityFollows, PTL DEF Order!Spec

\* Whatever stale actions and account deletions race on an order, it is completed only
\* once enough was reported, its delivered quantity is exact as long as no two reports
\* overlap, and it stays the claimer's as long as no two claims do.
THEOREM OrderHolds == PartsSpec => []OrderIsConsistent
<1>1. ASSUME OrderInv PROVE OrderIsConsistent
  <2>1. SUFFICES ASSUME Order!Exists
                 PROVE  Order!CompletedIsEarned /\ Order!DeliveredIsExact /\ Order!ClaimIsKept
    BY DEF OrderIsConsistent, Order!OrderIsConsistent
  <2>2. Order!OrdersAssumption  BY PartsAssumption
  <2>3. Ever = Order!Deliveries + erased /\ Order!Deliveries \in Nat /\ erased \in Nat /\ basis \in Nat
    BY <1>1, <2>2, OrderTypes
  <2>4. Order!CompletedIsEarned
    BY <1>1, <2>1, <2>3 DEF OrderInv, CompletionIsEarned, Order!CompletedIsEarned
  <2>5. Order!DeliveredIsExact
    BY <1>1, <2>1, <2>3 DEF OrderInv, TotalIsSeen, AloneIsExact, Order!DeliveredIsExact
  <2>6. Order!ClaimIsKept
    BY <1>1, <2>1 DEF OrderInv, OneClaims, Order!ClaimIsKept
  <2>. QED  BY <2>4, <2>5, <2>6
<1>. QED  BY <1>1, OrderInvariance, PTL
-----------------------------------------------------------------------------
(* Personal inventories. *)

\* The component's own copy of this operator of FiniteSets is that of FiniteSets.
LEMMA RowSets == \A S : Inventory!IsFiniteSet(S) <=> IsFiniteSet(S)
  BY DEF Inventory!IsFiniteSet, IsFiniteSet

\* What a reset has read is everything there is, until it holds the rows it will delete.
GathersAll(r) ==
  r \notin inOverlapped =>
    /\ inPc[r] \in {"read", "waiting"} => want[r].quantity = Inventory!Total(inQuantity, Couple)
    /\ inPc[r] = "deleted" => /\ want[r].quantity = Inventory!Total(inQuantity, locked[r])
                              /\ \A l \in Couple \ locked[r] : inQuantity[l] = 0

\* A row that may be written: no more for trade than there is, nothing of what is not.
Proper(row) ==
  row.trade <= row.quantity /\ (row.status = "NOT_FOR_TRADE" => row.trade = 0)

\* The rows that are there, except where the history says otherwise.
RowsProper ==
  /\ \A l \in Couple \ short : trade[l] <= inQuantity[l]
  /\ \A l \in Couple \ delisted : inStatus[l] = "NOT_FOR_TRADE" => trade[l] = 0

\* A row of the table.
RowType == [quantity : Nat, trade : Nat, status : Inventory!Statuses]

\* What a request will write, typed as a row.
WantsTyped == want \in [Things \cup Asks -> RowType]

\* The invariant of a personal inventory.
InventoryInv ==
  /\ Inventory!TypeOK /\ WantsTyped /\ RowsProper
  /\ \A r \in Asks : GathersAll(r) /\ Proper(want[r])
  /\ \A e \in Things : /\ inPc[e] \in {"new", "read", "write", "done"}
                       /\ inPc[e] = "write" => Proper(want[e])

\* The total of a column is the sum of Sums.
LEMMA TotalIs == ASSUME NEW f, NEW where PROVE Inventory!Total(f, where) = SumOf(f, where)
  BY DEF Inventory!Total, Inventory!FoldFunctionOnSet, Inventory!MapThenFoldSet, SumOf, MapThenSumSet,
     MapThenFoldSet

\* The columns of a row.
LEMMA RowIs ==
  ASSUME NEW q \in Nat, NEW t \in Nat, NEW s \in Inventory!Statuses
  PROVE  /\ Inventory!Row(q, t, s) \in RowType /\ Inventory!Row(q, t, s).quantity = q
         /\ Inventory!Row(q, t, s).trade = t /\ Inventory!Row(q, t, s).status = s
  BY DEF Inventory!Row, RowType

\* A row that is not there is proper.
LEMMA NoRowIs ==
  /\ Inventory!NoRow \in RowType /\ Inventory!NoRow.quantity = 0 /\ Inventory!NoRow.trade = 0
  /\ Inventory!NoRow.status = "NOT_FOR_TRADE" /\ Proper(Inventory!NoRow)
  BY RowIs DEF Inventory!NoRow, Inventory!Statuses, Proper

\* The lesser of two quantities.
LEMMA LeastIs ==
  ASSUME NEW a \in Nat, NEW b \in Nat
  PROVE  Inventory!LeastOf(a, b) \in Nat /\ Inventory!LeastOf(a, b) <= a /\ Inventory!LeastOf(a, b) <= b /\ (a <= b => Inventory!LeastOf(a, b) = a)
  BY DEF Inventory!LeastOf

\* At first there are no rows.
LEMMA InInit == ASSUME Inventory!PersonalInventoryAssumption PROVE Inventory!Init => InventoryInv
<1>. SUFFICES ASSUME Inventory!Init PROVE InventoryInv
  OBVIOUS
<1>. USE NoRowIs DEF Inventory!Init, Inventory!PersonalInventoryAssumption
<1>1. Inventory!TypeOK
  <2>1. \A h \in Things \cup Asks : want[h] = Inventory!Row(want[h].quantity, want[h].trade, want[h].status)
    BY DEF Inventory!NoRow, Inventory!Row
  <2>. QED  BY <2>1 DEF Inventory!TypeOK, Inventory!Statuses
<1>2. WantsTyped /\ RowsProper  BY DEF WantsTyped, RowsProper
<1>3. \A r \in Asks : GathersAll(r) /\ Proper(want[r])  BY DEF GathersAll
<1>. QED  BY <1>1, <1>2, <1>3 DEF InventoryInv

\* A record with these fields is a row, and the other way round.
LEMMA WantsAreRows ==
  ASSUME WantsTyped PROVE \A h \in Things \cup Asks : want[h] = Inventory!Row(want[h].quantity, want[h].trade, want[h].status)
  BY DEF WantsTyped, RowType, Inventory!Row

\* Resets that read before a row was written are no longer promised anything.
LEMMA OverlapSpares ==
  ASSUME NEW r \in Asks, inOverlapped' = inOverlapped \cup Inventory!Gathering, inPc'[r] = inPc[r]
  PROVE  GathersAll(r)'
  BY DEF GathersAll, Inventory!Gathering

\* A single statement that writes one row.
LEMMA RowWrite ==
  ASSUME Inventory!PersonalInventoryAssumption, InventoryInv, NEW l \in Couple, NEW row \in RowType, NEW ended \in SUBSET Things,
         Inventory!WriteLast(l, row, ended),
         \A h \in Asks : inPc'[h] = inPc[h] /\ want'[h] = want[h],
         \A e \in Things : \/ inPc'[e] = inPc[e] /\ want'[e] = want[e]
                           \/ inPc'[e] = "done" /\ want'[e] = Inventory!NoRow,
         inPc' \in [Things \cup Asks -> {"new", "read", "write", "waiting", "deleted", "done"}],
         want' \in [Things \cup Asks -> RowType],
         short' \subseteq Couple, delisted' \subseteq Couple,
         short \ {l} \subseteq short', delisted \ {l} \subseteq delisted',
         row.trade <= row.quantity \/ l \in short',
         (row.status = "NOT_FOR_TRADE" => row.trade = 0) \/ l \in delisted'
  PROVE  InventoryInv'
<1>. USE DEF InventoryInv
<1>1. /\ locked' = locked /\ inOverlapped' = inOverlapped \cup Inventory!Gathering
      /\ inQuantity' = [x \in Couple |-> IF x = l THEN row.quantity ELSE inQuantity[x]]
      /\ trade' = [x \in Couple |-> IF x = l THEN row.trade ELSE trade[x]]
      /\ inStatus' = [x \in Couple |-> IF x = l THEN row.status ELSE inStatus[x]]
      /\ aim' \in [Things -> Couple \cup {None}]
  BY DEF Inventory!WriteLast, Inventory!Replace, Inventory!TypeOK
<1>2. row.quantity \in Nat /\ row.trade \in Nat /\ row.status \in Inventory!Statuses  BY DEF RowType
<1>3. WantsTyped'  BY DEF WantsTyped, RowType, Inventory!Statuses
<1>4. Inventory!TypeOK'
  <2>1. \A h \in Things \cup Asks : (want[h] = Inventory!Row(want[h].quantity, want[h].trade, want[h].status))'
    BY DEF RowType, Inventory!Row
  <2>2. inOverlapped' \subseteq Asks  BY <1>1 DEF Inventory!Gathering, Inventory!TypeOK
  <2>3. inQuantity' \in [Couple -> Nat] /\ trade' \in [Couple -> Nat] /\ inStatus' \in [Couple -> Inventory!Statuses]
    BY <1>1, <1>2 DEF Inventory!TypeOK
  <2>. QED  BY <1>1, <2>1, <2>2, <2>3 DEF Inventory!TypeOK, Inventory!Statuses, Inventory!Row
<1>5. RowsProper'
  BY <1>1 DEF RowsProper
<1>6. ASSUME NEW r \in Asks PROVE GathersAll(r)' /\ Proper(want[r])'
  BY <1>1, OverlapSpares DEF Proper
<1>7. ASSUME NEW e \in Things
      PROVE  (inPc[e] \in {"new", "read", "write", "done"} /\ (inPc[e] = "write" => Proper(want[e])))'
  BY DEF Proper
<1>. QED  BY <1>3, <1>4, <1>5, <1>6, <1>7

\* A row is removed.
LEMMA RowRemove ==
  ASSUME Inventory!PersonalInventoryAssumption, InventoryInv, NEW l \in Couple, Inventory!Remove(l)
  PROVE  InventoryInv'
  BY NoRowIs, RowWrite
     DEF InventoryInv, Inventory!TypeOK, WantsTyped, Inventory!Remove, Inventory!Write,
        Inventory!Regular

\* What the statements of the browser and of the sink write.
LEMMA StatementStep ==
  ASSUME Inventory!PersonalInventoryAssumption, InventoryInv, NEW l \in Couple, NEW q \in 1..MaxQuantity,
         Inventory!Add(l, q) \/ Inventory!SetQuantity(l, q) \/ Inventory!ToBackpack(l, q) \/ Inventory!ToStation(l, q)
  PROVE  InventoryInv'
<1>. USE DEF InventoryInv, Inventory!Write, Inventory!Regular, Inventory!PersonalInventoryAssumption
<1>0. /\ q \in Nat /\ q > 0 /\ inQuantity[l] \in Nat /\ trade[l] \in Nat /\ inStatus[l] \in Inventory!Statuses /\ {} \in SUBSET Things
      /\ short \subseteq Couple /\ delisted \subseteq Couple
      /\ inPc \in [Things \cup Asks -> {"new", "read", "write", "waiting", "deleted", "done"}]
      /\ want \in [Things \cup Asks -> RowType]
      /\ (inStatus[l] = "NOT_FOR_TRADE" => trade[l] = 0) \/ l \in delisted
      /\ trade[l] <= inQuantity[l] \/ l \in short
  BY DEF Inventory!TypeOK, WantsTyped, RowsProper
<1>1. ASSUME NEW n \in Nat, Inventory!WriteLast(l, Inventory!Row(n, Inventory!Capped(l, n), inStatus[l]), {}), short' = short \ {l},
             UNCHANGED <<inPc, want, delisted>>
      PROVE  InventoryInv'
  <2>. DEFINE row == Inventory!Row(n, Inventory!Capped(l, n), inStatus[l])
  <2>1. Inventory!Capped(l, n) \in Nat /\ Inventory!Capped(l, n) <= n /\ Inventory!Capped(l, n) <= trade[l]
    BY <1>0, LeastIs DEF Inventory!Capped
  <2>2. row \in RowType /\ row.quantity = n /\ row.trade = Inventory!Capped(l, n) /\ row.status = inStatus[l]
    BY <1>0, <2>1, RowIs
  <2>. HIDE DEF row
  <2>. QED  BY <1>0, <1>1, <2>1, <2>2, RowWrite DEF row
<1>2. ASSUME Inventory!WriteLast(l, Inventory!NoRow, {}), UNCHANGED <<inPc, want>>, short' = short \ {l}, delisted' \in {delisted, delisted \ {l}}
      PROVE  InventoryInv'
  BY <1>0, <1>2, NoRowIs, RowWrite
<1>3. ASSUME NEW n \in Nat, Inventory!WriteLast(l, Inventory!Row(n, trade[l], inStatus[l]), {}), UNCHANGED <<inPc, want, delisted>>,
             \/ short' = short /\ n >= inQuantity[l]
             \/ short' = short \cup {l}
      PROVE  InventoryInv'
  <2>. DEFINE row == Inventory!Row(n, trade[l], inStatus[l])
  <2>1. row \in RowType /\ row.quantity = n /\ row.trade = trade[l] /\ row.status = inStatus[l]
    BY <1>0, RowIs
  <2>. HIDE DEF row
  <2>. QED  BY <1>0, <1>3, <2>1, RowWrite DEF row
<1>4. CASE Inventory!Add(l, q)  BY <1>0, <1>1, <1>4 DEF Inventory!Add
<1>5. CASE Inventory!SetQuantity(l, q)  BY <1>0, <1>1, <1>5 DEF Inventory!SetQuantity
<1>7. CASE Inventory!ToBackpack(l, q)  BY <1>0, <1>3, <1>7 DEF Inventory!ToBackpack
<1>8. CASE Inventory!ToStation(l, q)
  <2>1. CASE inQuantity[l] <= q  BY <1>2, <1>8, <2>1 DEF Inventory!ToStation
  <2>2. CASE ~(inQuantity[l] <= q)
    <3>1. inQuantity[l] - q \in Nat  BY <1>0, <2>2
    <3>. QED  BY <1>3, <1>8, <2>2, <3>1 DEF Inventory!ToStation
  <2>. QED  BY <2>1, <2>2
<1>. QED  BY <1>4, <1>5, <1>7, <1>8

\* A step of an edit that writes nothing.
LEMMA RowRead ==
  ASSUME Inventory!PersonalInventoryAssumption, InventoryInv, NEW e \in Things, NEW next \in {"read", "write"}, NEW row \in RowType,
         inPc' = [inPc EXCEPT ![e] = next], want' = [want EXCEPT ![e] = row], next = "write" => Proper(row),
         aim' \in [Things -> Couple \cup {None}], UNCHANGED <<Inventory!rows, locked, Inventory!history>>
  PROVE  InventoryInv'
<1>. USE DEF InventoryInv, Inventory!rows, Inventory!history, Inventory!PersonalInventoryAssumption
<1>1. WantsTyped'  BY DEF WantsTyped, RowType, Inventory!Statuses
<1>2. Inventory!TypeOK'
  <2>1. \A h \in Things \cup Asks : (want[h] = Inventory!Row(want[h].quantity, want[h].trade, want[h].status))'
    BY DEF WantsTyped, RowType, Inventory!Row
  <2>. QED  BY <2>1 DEF Inventory!TypeOK, Inventory!Statuses, Inventory!Row
<1>3. RowsProper'  BY DEF RowsProper
<1>4. ASSUME NEW r \in Asks PROVE GathersAll(r)' /\ Proper(want[r])'
  <2>1. inPc'[r] = inPc[r] /\ want'[r] = want[r]  BY DEF Inventory!TypeOK, WantsTyped
  <2>. QED  BY <2>1 DEF GathersAll, Proper
<1>5. ASSUME NEW x \in Things
      PROVE  (inPc[x] \in {"new", "read", "write", "done"} /\ (inPc[x] = "write" => Proper(want[x])))'
  BY DEF Proper, Inventory!TypeOK, WantsTyped
<1>. QED  BY <1>1, <1>2, <1>3, <1>4, <1>5

\* An edit reads twice, and writes a row that is proper.
LEMMA RowEdit ==
  ASSUME Inventory!PersonalInventoryAssumption, InventoryInv, NEW e \in Things,
         Inventory!Update(e) \/ (\E l \in Couple : Inventory!ReadQuantity(e, l)) \/ (\E s \in Inventory!Statuses : Inventory!ReadTrade(e, s))
  PROVE  InventoryInv'
<1>. USE DEF InventoryInv, Inventory!Goto
<1>0. /\ want \in [Things \cup Asks -> RowType] /\ want[e] \in RowType
      /\ want[e].quantity \in Nat /\ want[e].trade \in Nat /\ want[e].status \in Inventory!Statuses
  BY DEF WantsTyped, RowType
<1>1. ASSUME NEW l \in Couple, Inventory!ReadQuantity(e, l) PROVE InventoryInv'
  <2>1. PICK q \in {inQuantity[l]} \cup 1..MaxQuantity : want' = [want EXCEPT ![e].quantity = q]
    BY <1>1 DEF Inventory!ReadQuantity
  <2>2. q \in Nat  BY DEF Inventory!TypeOK, Inventory!PersonalInventoryAssumption
  <2>3. [want[e] EXCEPT !.quantity = q] \in RowType  BY <1>0, <2>2 DEF RowType
  <2>4. want' = [want EXCEPT ![e] = [want[e] EXCEPT !.quantity = q]]  BY <2>1
  <2>5. aim' \in [Things -> Couple \cup {None}]  BY <1>1 DEF Inventory!ReadQuantity, Inventory!TypeOK
  <2>. QED  BY <1>1, <2>3, <2>4, <2>5, RowRead DEF Inventory!ReadQuantity
<1>2. ASSUME NEW s \in Inventory!Statuses, Inventory!ReadTrade(e, s) PROVE InventoryInv'
  <2>1. PICK t \in {trade[aim[e]]} \cup 0..MaxQuantity :
          /\ t <= want[e].quantity /\ (s = "NOT_FOR_TRADE" => t = 0)
          /\ want' = [want EXCEPT ![e].trade = t, ![e].status = s]
    BY <1>2 DEF Inventory!ReadTrade
  <2>2. t \in Nat
    BY <1>2 DEF Inventory!ReadTrade, Inventory!TypeOK, Inventory!PersonalInventoryAssumption
  <2>. DEFINE row == [want[e] EXCEPT !.trade = t, !.status = s]
  <2>3. row \in RowType /\ row.trade = t /\ row.status = s /\ row.quantity = want[e].quantity
    BY <1>0, <2>2 DEF RowType
  <2>4. want' = [want EXCEPT ![e] = row]
    BY <1>0, <2>1
  <2>. HIDE DEF row
  <2>5. Proper(row)  BY <2>1, <2>3 DEF Proper
  <2>6. aim' \in [Things -> Couple \cup {None}]  BY <1>2 DEF Inventory!ReadTrade, Inventory!TypeOK
  <2>. QED  BY <1>2, <2>3, <2>4, <2>5, <2>6, RowRead DEF Inventory!ReadTrade
<1>3. CASE Inventory!Update(e)
  <2>1. /\ inPc[e] = "write" /\ Proper(want[e]) /\ inPc' = [inPc EXCEPT ![e] = "done"] /\ want' = [want EXCEPT ![e] = Inventory!NoRow]
        /\ \A h \in Asks : h # e
    BY <1>3 DEF Inventory!Update, Inventory!PersonalInventoryAssumption
  <2>2. /\ inPc' \in [Things \cup Asks -> {"new", "read", "write", "waiting", "deleted", "done"}]
        /\ want' \in [Things \cup Asks -> RowType]
        /\ \A h \in Asks : inPc'[h] = inPc[h] /\ want'[h] = want[h]
        /\ \A x \in Things : \/ inPc'[x] = inPc[x] /\ want'[x] = want[x]
                             \/ inPc'[x] = "done" /\ want'[x] = Inventory!NoRow
    BY <1>0, <2>1, NoRowIs DEF Inventory!TypeOK
  <2>3. CASE aim[e] # None
    <3>1. aim[e] \in Couple  BY <2>3 DEF Inventory!TypeOK
    <3>. QED
      BY <1>0, <1>3, <2>1, <2>2, <2>3, <3>1, RowWrite
         DEF Inventory!Update, Inventory!Regular, Proper, Inventory!TypeOK
  <2>4. CASE aim[e] = None
    <3>. USE <1>3, <2>4 DEF Inventory!Update, Inventory!rows, Inventory!history
    <3>1. WantsTyped'  BY <2>2 DEF WantsTyped, RowType, Inventory!Statuses
    <3>2. Inventory!TypeOK'
      <4>1. \A h \in Things \cup Asks : (want[h] = Inventory!Row(want[h].quantity, want[h].trade, want[h].status))'
        BY <2>2 DEF RowType, Inventory!Row
      <4>. QED  BY <2>2, <4>1 DEF Inventory!TypeOK, Inventory!Statuses, Inventory!Row
    <3>3. RowsProper'  BY DEF RowsProper
    <3>4. ASSUME NEW r \in Asks PROVE GathersAll(r)' /\ Proper(want[r])'
      BY <2>2 DEF GathersAll, Proper
    <3>5. ASSUME NEW x \in Things
          PROVE  (inPc[x] \in {"new", "read", "write", "done"} /\ (inPc[x] = "write" => Proper(want[x])))'
      BY <2>2 DEF Proper
    <3>. QED  BY <3>1, <3>2, <3>3, <3>4, <3>5
  <2>. QED  BY <2>3, <2>4
<1>. QED  BY <1>1, <1>2, <1>3

\* A step that leaves every row alone: what has to be shown of it.
LEMMA RowsKept ==
  ASSUME InventoryInv, UNCHANGED <<Inventory!rows, Inventory!history>>, locked' \in [Asks -> SUBSET Couple],
         inPc' \in [Things \cup Asks -> {"new", "read", "write", "waiting", "deleted", "done"}],
         aim' \in [Things -> Couple \cup {None}], want' \in [Things \cup Asks -> RowType],
         \A e \in Things : inPc'[e] = inPc[e] /\ want'[e] = want[e],
         \A r \in Asks : GathersAll(r)' /\ Proper(want'[r])
  PROVE  InventoryInv'
<1>. USE DEF InventoryInv, Inventory!rows, Inventory!history
<1>1. WantsTyped'  BY DEF WantsTyped, RowType, Inventory!Statuses
<1>2. Inventory!TypeOK'
  <2>1. \A h \in Things \cup Asks : (want[h] = Inventory!Row(want[h].quantity, want[h].trade, want[h].status))'
    BY DEF RowType, Inventory!Row
  <2>. QED  BY <2>1 DEF Inventory!TypeOK, Inventory!Statuses, Inventory!Row
<1>3. RowsProper'  BY DEF RowsProper
<1>4. \A r \in Asks : (GathersAll(r) /\ Proper(want[r]))'  BY DEF Proper
<1>5. \A e \in Things : (inPc[e] \in {"new", "read", "write", "done"} /\ (inPc[e] = "write" => Proper(want[e])))'
  BY DEF Proper
<1>. QED  BY <1>1, <1>2, <1>3, <1>4, <1>5

\* A reset adds up all rows there are.
LEMMA RowGather ==
  ASSUME Inventory!PersonalInventoryAssumption, InventoryInv, NEW r \in Asks, NEW s \in Inventory!Statuses, Inventory!Gather(r, s)
  PROVE  InventoryInv'
<1>. USE DEF InventoryInv, Inventory!PersonalInventoryAssumption
<1>. DEFINE q == Inventory!Total(inQuantity, Couple)
            t == Inventory!Total(trade, Couple)
            row == Inventory!Row(q, Inventory!LeastOf(t, q), IF t > 0 THEN "FOR_TRADE" ELSE s)
<1>1. q \in Nat /\ t \in Nat
  <2>1. \A l \in Couple : inQuantity[l] \in Nat /\ trade[l] \in Nat  BY DEF Inventory!TypeOK
  <2>. QED  BY <2>1, TotalIs, RowSets, SumNat
<1>2. /\ inPc' = [inPc EXCEPT ![r] = "read"] /\ want' = [want EXCEPT ![r] = row]
      /\ UNCHANGED <<Inventory!rows, locked, aim, Inventory!history>>
  BY DEF Inventory!Gather, Inventory!Goto
<1>3. row \in RowType /\ Proper(row) /\ row.quantity = Inventory!Total(inQuantity, Couple)
  <2>. HIDE DEF q, t
  <2>1. Inventory!LeastOf(t, q) \in Nat /\ Inventory!LeastOf(t, q) <= q /\ Inventory!LeastOf(t, q) <= t
    BY <1>1, LeastIs
  <2>2. row \in RowType /\ row.quantity = q /\ row.trade = Inventory!LeastOf(t, q)
        /\ row.status = IF t > 0 THEN "FOR_TRADE" ELSE s
    BY <1>1, <2>1, RowIs DEF Inventory!Statuses
  <2>3. Proper(row)
    <3>. HIDE DEF row
    <3>. QED  BY <1>1, <2>1, <2>2 DEF Proper
  <2>. QED  BY <2>2, <2>3 DEF q
<1>. HIDE DEF row, q, t
<1>4. /\ locked' \in [Asks -> SUBSET Couple] /\ aim' \in [Things -> Couple \cup {None}]
      /\ inPc' \in [Things \cup Asks -> {"new", "read", "write", "waiting", "deleted", "done"}]
      /\ want' \in [Things \cup Asks -> RowType]
      /\ \A e \in Things : inPc'[e] = inPc[e] /\ want'[e] = want[e]
  BY <1>2, <1>3 DEF Inventory!TypeOK, WantsTyped
<1>5. ASSUME NEW x \in Asks PROVE GathersAll(x)' /\ Proper(want'[x])
  <2>0. /\ inQuantity' = inQuantity /\ locked' = locked /\ inOverlapped' = inOverlapped
    BY <1>2 DEF Inventory!rows, Inventory!history
  <2>1. CASE x = r
    <3>1. inPc'[x] = "read" /\ want'[x] = row  BY <1>2, <2>1 DEF Inventory!TypeOK, WantsTyped
    <3>. QED  BY <1>3, <2>0, <3>1 DEF GathersAll
  <2>2. CASE x # r
    <3>1. inPc'[x] = inPc[x] /\ want'[x] = want[x]  BY <1>2, <2>2 DEF Inventory!TypeOK, WantsTyped
    <3>. QED  BY <2>0, <3>1 DEF GathersAll
  <2>. QED  BY <2>1, <2>2
<1>. QED  BY <1>2, <1>4, <1>5, RowsKept

\* What it deletes is all it has read: the other rows are empty.
LEMMA RowDelete ==
  ASSUME Inventory!PersonalInventoryAssumption, InventoryInv, NEW r \in Asks, Inventory!Delete(r)
  PROVE  InventoryInv'
<1>. USE DEF InventoryInv, Inventory!PersonalInventoryAssumption
<1>. DEFINE there == {l \in Couple : inQuantity[l] > 0}
<1>0. /\ inPc[r] = "read" /\ UNCHANGED <<Inventory!rows, aim, want, Inventory!history>>
      /\ inQuantity' = inQuantity /\ inOverlapped' = inOverlapped
  BY DEF Inventory!Delete, Inventory!rows, Inventory!history
<1>1. \/ inPc' = [inPc EXCEPT ![r] = "waiting"] /\ locked' = locked
      \/ inPc' = [inPc EXCEPT ![r] = "deleted"] /\ locked' = [locked EXCEPT ![r] = there]
  BY DEF Inventory!Delete, Inventory!Goto
<1>2. Inventory!Total(inQuantity, Couple) = Inventory!Total(inQuantity, there)
  <2>1. IsFiniteSet(there) /\ IsFiniteSet(Couple \ there)  BY RowSets, FS_Subset
  <2>2. \A l \in Couple : inQuantity[l] \in Int /\ (l \notin there => inQuantity[l] = 0)
    BY DEF Inventory!TypeOK
  <2>3. SumOf(inQuantity, Couple \ there) = 0  BY <2>1, <2>2, SumZero
  <2>4. there \cap (Couple \ there) = {} /\ there \cup (Couple \ there) = Couple  OBVIOUS
  <2>. HIDE DEF there
  <2>5. SumOf(inQuantity, there \cup (Couple \ there)) = SumOf(inQuantity, there) + SumOf(inQuantity, Couple \ there)
    BY <2>1, <2>2, <2>4, SumUnion
  <2>6. SumOf(inQuantity, there) \in Int
    <3>1. \A l \in there : inQuantity[l] \in Int  BY <2>2, <2>4
    <3>. QED  BY <2>1, <3>1, SumInt
  <2>7. SumOf(inQuantity, Couple) = SumOf(inQuantity, there) + SumOf(inQuantity, Couple \ there)
    BY <2>4, <2>5
  <2>8. SumOf(inQuantity, Couple) = SumOf(inQuantity, there)  BY <2>3, <2>6, <2>7
  <2>. QED  BY <2>8, TotalIs
<1>3. \A l \in Couple \ there : inQuantity[l] = 0  BY DEF Inventory!TypeOK
<1>4. there \in SUBSET Couple  OBVIOUS
<1>. HIDE DEF there
<1>5. /\ locked' \in [Asks -> SUBSET Couple] /\ aim' \in [Things -> Couple \cup {None}]
      /\ inPc' \in [Things \cup Asks -> {"new", "read", "write", "waiting", "deleted", "done"}]
      /\ want' \in [Things \cup Asks -> RowType]
      /\ \A e \in Things : inPc'[e] = inPc[e] /\ want'[e] = want[e]
  BY <1>0, <1>1, <1>4 DEF Inventory!TypeOK, WantsTyped
<1>6. ASSUME NEW x \in Asks PROVE GathersAll(x)' /\ Proper(want'[x])
  <2>1. CASE x = r
    <3>1. \/ inPc'[x] = "waiting"
          \/ inPc'[x] = "deleted" /\ locked'[x] = there
      BY <1>1, <2>1 DEF Inventory!TypeOK
    <3>. QED  BY <1>0, <1>2, <1>3, <2>1, <3>1 DEF GathersAll
  <2>2. CASE x # r
    <3>1. inPc'[x] = inPc[x] /\ locked'[x] = locked[x]  BY <1>1, <2>2 DEF Inventory!TypeOK
    <3>. QED  BY <1>0, <3>1 DEF GathersAll
  <2>. QED  BY <2>1, <2>2
<1>. QED  BY <1>0, <1>5, <1>6, RowsKept

\* The end of a reset, which wakes those that wait for it.
LEMMA EndedIs ==
  ASSUME Inventory!PersonalInventoryAssumption, InventoryInv, NEW r \in Asks, NEW next \in {"read", "deleted"}, Inventory!Ended(r, next)
  PROVE  /\ inPc' \in [Things \cup Asks -> {"new", "read", "write", "waiting", "deleted", "done"}]
         /\ locked' \in [Asks -> SUBSET Couple]
         /\ \A x \in Asks \ {r} : /\ locked'[x] = locked[x]
                                  /\ inPc'[x] = IF inPc[x] = "waiting" THEN next ELSE inPc[x]
         /\ inPc'[r] = "done"
         /\ \A e \in Things : inPc'[e] = inPc[e]
  BY DEF Inventory!Ended, InventoryInv, Inventory!TypeOK, Inventory!PersonalInventoryAssumption

\* It inserts a proper row at home.
LEMMA RowInsert ==
  ASSUME Inventory!PersonalInventoryAssumption, InventoryInv, NEW r \in Asks, Inventory!Insert(r)
  PROVE  InventoryInv'
<1>. USE DEF InventoryInv, Inventory!PersonalInventoryAssumption
<1>1. /\ want' = [want EXCEPT ![r] = Inventory!NoRow] /\ want' \in [Things \cup Asks -> RowType]
      /\ want'[r] = Inventory!NoRow /\ \A h \in (Things \cup Asks) \ {r} : want'[h] = want[h]
      /\ want[r] \in RowType
  BY NoRowIs DEF Inventory!Insert, WantsTyped
<1>2. want[r].quantity \in Nat /\ want[r].trade \in Nat /\ want[r].status \in Inventory!Statuses
  BY <1>1 DEF RowType
<1>3. WantsTyped' /\ \A h \in Things \cup Asks : (want[h] = Inventory!Row(want[h].quantity, want[h].trade, want[h].status))'
  BY <1>1 DEF WantsTyped, RowType, Inventory!Row, Inventory!Statuses
<1>4. \A x \in Asks : Proper(want[x])'
  BY <1>1, NoRowIs DEF Proper
<1>5. CASE inQuantity[Founder] > 0 /\ Founder \notin locked[r]
  <2>1. /\ Inventory!Ended(r, "read") /\ UNCHANGED <<Inventory!rows, aim, short, delisted>> /\ inOverlapped' = inOverlapped \ {r}
    BY <1>5 DEF Inventory!Insert
  <2>. USE EndedIs DEF Inventory!rows
  <2>2. Inventory!TypeOK'  BY <1>3, <2>1 DEF Inventory!TypeOK, Inventory!Statuses, Inventory!Row
  <2>3. RowsProper'  BY <2>1 DEF RowsProper
  <2>4. ASSUME NEW x \in Asks PROVE GathersAll(x)'
    <3>1. CASE x = r  BY <2>1, <3>1 DEF GathersAll
    <3>2. CASE x # r  BY <1>1, <2>1, <3>2 DEF GathersAll
    <3>. QED  BY <3>1, <3>2
  <2>5. \A e \in Things : (inPc[e] \in {"new", "read", "write", "done"} /\ (inPc[e] = "write" => Proper(want[e])))'
    BY <1>1, <2>1 DEF Proper
  <2>. QED  BY <1>3, <1>4, <2>2, <2>3, <2>4, <2>5
<1>6. CASE ~(inQuantity[Founder] > 0 /\ Founder \notin locked[r])
  <2>. DEFINE gone == locked[r] \cup {Founder}
  <2>1. /\ Inventory!Ended(r, "deleted")
        /\ inQuantity' = [l \in Couple |-> IF l = Founder THEN want[r].quantity
                                            ELSE IF l \in locked[r] THEN 0 ELSE inQuantity[l]]
        /\ trade' = [l \in Couple |-> IF l = Founder THEN want[r].trade
                                         ELSE IF l \in locked[r] THEN 0 ELSE trade[l]]
        /\ inStatus' = [l \in Couple |-> IF l = Founder THEN want[r].status
                                          ELSE IF l \in locked[r] THEN "NOT_FOR_TRADE" ELSE inStatus[l]]
        /\ aim' = [e \in Things |-> IF aim[e] \in locked[r] THEN None ELSE aim[e]]
        /\ short' = short \ (locked[r] \cup {Founder}) /\ delisted' = delisted \ (locked[r] \cup {Founder})
        /\ inOverlapped' = (inOverlapped \cup Inventory!Gathering) \ {r}
    BY <1>6 DEF Inventory!Insert, Inventory!Regular
  <2>2. Inventory!TypeOK'
    <3>1. inQuantity' \in [Couple -> Nat] /\ trade' \in [Couple -> Nat] /\ inStatus' \in [Couple -> Inventory!Statuses]
      BY <1>2, <2>1 DEF Inventory!TypeOK, Inventory!Statuses
    <3>2. aim' \in [Things -> Couple \cup {None}] /\ inOverlapped' \subseteq Asks
          /\ short' \subseteq Couple /\ delisted' \subseteq Couple
      BY <2>1 DEF Inventory!TypeOK, Inventory!Gathering
    <3>3. /\ inPc' \in [Things \cup Asks -> {"new", "read", "write", "waiting", "deleted", "done"}]
          /\ locked' \in [Asks -> SUBSET Couple]
      BY <2>1, EndedIs
    <3>. QED  BY <1>3, <3>1, <3>2, <3>3 DEF Inventory!TypeOK, Inventory!Statuses, Inventory!Row
  <2>3. RowsProper'
    <3>1. Proper(want[r])  OBVIOUS
    <3>. QED  BY <1>2, <2>1, <3>1 DEF RowsProper, Proper, Inventory!TypeOK
  <2>4. ASSUME NEW x \in Asks PROVE GathersAll(x)'
    <3>1. CASE x = r  BY <2>1, <3>1, EndedIs DEF GathersAll
    <3>2. CASE x # r  BY <2>1, <3>2, EndedIs DEF GathersAll, Inventory!Gathering
    <3>. QED  BY <3>1, <3>2
  <2>5. \A e \in Things : (inPc[e] \in {"new", "read", "write", "done"} /\ (inPc[e] = "write" => Proper(want[e])))'
    BY <1>1, <2>1, EndedIs DEF Proper
  <2>. QED  BY <1>3, <1>4, <2>2, <2>3, <2>4, <2>5
<1>. QED  BY <1>5, <1>6

\* Everything is removed.
LEMMA RowWipe ==
  ASSUME Inventory!PersonalInventoryAssumption, InventoryInv, Inventory!Wipe
  PROVE  InventoryInv'
<1>. USE DEF InventoryInv, Inventory!PersonalInventoryAssumption
<1>1. /\ inQuantity' = [l \in Couple |-> 0] /\ trade' = [l \in Couple |-> 0]
      /\ inStatus' = [l \in Couple |-> "NOT_FOR_TRADE"] /\ aim' \in [Things -> Couple \cup {None}]
      /\ short' = short \ Couple /\ delisted' = delisted \ Couple
      /\ inOverlapped' = inOverlapped \cup Inventory!Gathering /\ UNCHANGED <<locked, inPc, want>>
  BY NoRowIs DEF Inventory!Wipe, Inventory!Replace, Inventory!Regular, Inventory!TypeOK
<1>2. WantsTyped'  BY <1>1 DEF WantsTyped, RowType, Inventory!Statuses
<1>3. Inventory!TypeOK'
  BY <1>1 DEF Inventory!TypeOK, Inventory!Gathering, Inventory!Statuses, Inventory!Row
<1>4. RowsProper'  BY <1>1 DEF RowsProper
<1>5. \A r \in Asks : (GathersAll(r) /\ Proper(want[r]))'  BY <1>1, OverlapSpares DEF Proper
<1>6. \A e \in Things : (inPc[e] \in {"new", "read", "write", "done"} /\ (inPc[e] = "write" => Proper(want[e])))'
  BY <1>1 DEF Proper
<1>. QED  BY <1>2, <1>3, <1>4, <1>5, <1>6

\* The schema makes every row proper that was not.
LEMMA RowRestart ==
  ASSUME Inventory!PersonalInventoryAssumption, InventoryInv, Inventory!Restart
  PROVE  InventoryInv'
<1>. DEFINE over == {l \in Couple : trade[l] > inQuantity[l]}
<1>. USE DEF InventoryInv, Inventory!PersonalInventoryAssumption
<1>1. /\ trade' = [l \in Couple |-> Inventory!LeastOf(trade[l], inQuantity[l])]
      /\ inStatus' = [l \in Couple |-> IF l \in over THEN "NOT_FOR_TRADE" ELSE inStatus[l]]
      /\ locked' = [r \in Asks |-> {}] /\ inPc' = [h \in Things \cup Asks |-> "done"]
      /\ short' = {} /\ delisted' = delisted \cup over
      /\ want' = [h \in Things \cup Asks |-> Inventory!NoRow] /\ aim' = [e \in Things |-> None]
      /\ inOverlapped' = {} /\ UNCHANGED inQuantity
  BY DEF Inventory!Restart, Inventory!TypeOK, WantsTyped
<1>2. \A l \in Couple : /\ trade[l] \in Nat /\ inQuantity[l] \in Nat
                        /\ Inventory!LeastOf(trade[l], inQuantity[l]) \in Nat /\ Inventory!LeastOf(trade[l], inQuantity[l]) <= inQuantity[l]
                        /\ l \notin over => Inventory!LeastOf(trade[l], inQuantity[l]) = trade[l]
  BY LeastIs DEF Inventory!TypeOK
<1>. HIDE DEF over
<1>3. WantsTyped'  BY <1>1, NoRowIs DEF WantsTyped, RowType, Inventory!Statuses
<1>4. Inventory!TypeOK'
  <2>1. \A h \in Things \cup Asks : (want[h] = Inventory!Row(want[h].quantity, want[h].trade, want[h].status))'
    BY <1>3, <1>1, NoRowIs DEF RowType, Inventory!Row
  <2>2. inStatus' \in [Couple -> Inventory!Statuses] /\ trade' \in [Couple -> Nat]
    BY <1>1, <1>2 DEF Inventory!TypeOK, Inventory!Statuses
  <2>3. delisted' \subseteq Couple  BY <1>1 DEF Inventory!TypeOK, over
  <2>. QED  BY <1>1, <2>1, <2>2, <2>3 DEF Inventory!TypeOK, Inventory!Statuses, Inventory!Row
<1>5. RowsProper'  BY <1>1, <1>2 DEF RowsProper
<1>6. \A r \in Asks : (GathersAll(r) /\ Proper(want[r]))'  BY <1>1, NoRowIs DEF GathersAll, Proper
<1>7. \A e \in Things : (inPc[e] \in {"new", "read", "write", "done"} /\ (inPc[e] = "write" => Proper(want[e])))'
  BY <1>1
<1>. QED  BY <1>3, <1>4, <1>5, <1>6, <1>7

\* Every statement of edits, resets, the sink and a restart keeps the invariant.
LEMMA InStep ==
  ASSUME Inventory!PersonalInventoryAssumption, InventoryInv, [Inventory!Next]_(Inventory!vars)
  PROVE  InventoryInv'
<1>1. CASE UNCHANGED Inventory!vars
  BY <1>1, RowsKept
     DEF Inventory!vars, Inventory!rows, Inventory!requests, Inventory!history, InventoryInv,
        Inventory!TypeOK, WantsTyped, GathersAll
<1>. QED
  BY <1>1, RowRemove, StatementStep, RowEdit, RowGather, RowDelete, RowInsert, RowWipe, RowRestart
     DEF Inventory!Next

\* The property is a part of the invariant.
LEMMA InKept == InventoryInv => Inventory!InventoryIsKept
  BY DEF InventoryInv, GathersAll, RowsProper, Inventory!InventoryIsKept

\* Whatever the other parts do, an inventory keeps its invariant.
LEMMA InventoryInvariance == PartsSpec => []InventoryInv
<1>1. Inventory!PersonalInventoryAssumption  BY PartsAssumption
<1>. QED  BY <1>1, InInit, InStep, CommunityFollows, PTL DEF Inventory!Spec

\* Whatever edits, resets, deliveries of the sink and restarts interleave, a reset puts
\* back what it has deleted unless a row was written meanwhile, and no row offers more
\* than it holds but where the sink took some or a restart delisted it.
THEOREM InventoryKept == PartsSpec => []InventoryIsKept
<1>1. ASSUME InventoryInv PROVE InventoryIsKept
  BY <1>1, InKept DEF InventoryIsKept
<1>. QED  BY <1>1, InventoryInvariance, PTL
-----------------------------------------------------------------------------
\* Every part keeps the types of its tables, requests and locks.
THEOREM PartsTypes == PartsSpec => []PartsTypeOK
<1>1. AccInv /\ GroupInv /\ MissionInv /\ StockInv /\ OrderInv /\ InventoryInv => PartsTypeOK
  BY DEF AccInv, GroupInv, MissionInv, StockInv, OrderInv, InventoryInv, PartsTypeOK
<1>. QED
  BY <1>1, AccInvariance, GroupInvariance, MissionInvariance, StockInvariance, OrderInvariance,
     InventoryInvariance, PTL
=============================================================================
