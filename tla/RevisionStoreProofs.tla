------------------------- MODULE RevisionStoreProofs -------------------------
(***************************************************************************)
(* The revision store hands out strictly increasing revisions, for any     *)
(* number of processes and any largest revision.  What is handed out is    *)
(* durable before it is, and only the holder of the lock moves the file    *)
(* between its read and its rename.                                        *)
(***************************************************************************)
EXTENDS RevisionStore, TLAPS

\* What the holder is about to save is above what the file holds, and the file
\* is the holder's once it is renamed.
SaveIsAhead ==
  \A p \in Procs :
    /\ pc[p] \in {"loaded", "written"} => file < next[p]
    /\ pc[p] = "renamed" =>
         next[p] > 0 /\ file = next[p] /\ \A r \in issued : r < next[p]

IInv == TypeOK /\ OneHolder /\ disk <= file /\ IssuedIsDurable /\ SaveIsAhead

LEMMA InitIInv == Init => IInv
  BY StoreAssumption
     DEF Init, IInv, TypeOK, Holding, OneHolder, IssuedIsDurable, SaveIsAhead

LEMMA StepIInv ==
  ASSUME IInv, [Next]_vars
  PROVE  IInv'
<1> USE StoreAssumption DEF IInv, TypeOK, Holding, OneHolder, IssuedIsDurable, SaveIsAhead
<1>1. ASSUME NEW p \in Procs, Launch(p)
      PROVE  IInv'
  BY <1>1 DEF Launch
<1>2. ASSUME NEW p \in Procs, Acquire(p)
      PROVE  IInv'
  BY <1>2 DEF Acquire
<1>3. ASSUME NEW p \in Procs, Release(p)
      PROVE  IInv'
  BY <1>3 DEF Release
<1>4. ASSUME NEW p \in Procs, NEW minimum \in 0..MaxValue, AdvanceAtLeast(p, minimum)
      PROVE  IInv'
  BY <1>4 DEF AdvanceAtLeast, Larger
<1>5. ASSUME NEW p \in Procs, WriteTemp(p)
      PROVE  IInv'
  BY <1>5 DEF WriteTemp
<1>6. ASSUME NEW p \in Procs, ReplaceFile(p)
      PROVE  IInv'
  BY <1>6 DEF ReplaceFile
<1>7. ASSUME NEW p \in Procs, SyncDirectory(p)
      PROVE  IInv'
  <2>0. next[p] \in 1..MaxValue
    <3>1. pc[p] = "renamed"
      BY <1>7 DEF SyncDirectory
    <3>2. next[p] \in 0..MaxValue /\ next[p] > 0
      BY <3>1
    <3> QED
      BY <3>2
  <2>1. TypeOK'
    <3>1. issued' \subseteq 1..MaxValue
      BY <1>7, <2>0 DEF SyncDirectory
    <3>2. pc' \in [Procs -> {"down", "unlocked"} \cup Holding]
      BY <1>7 DEF SyncDirectory
    <3> QED
      BY <1>7, <3>1, <3>2 DEF SyncDirectory
  <2>2. OneHolder'
    BY <1>7 DEF SyncDirectory
  <2>3. \A r \in issued : r \in Nat /\ r < next[p]
    BY <1>7 DEF SyncDirectory
  <2>4. file = next[p] /\ file \in Nat
    BY <1>7 DEF SyncDirectory
  <2>5. issued' = issued \cup {next[p]} /\ disk' = file /\ file' = file
    BY <1>7 DEF SyncDirectory
  <2>6. (disk <= file)' /\ IssuedIsDurable'
    BY <2>3, <2>4, <2>5
  <2>7. \A q \in Procs : pc'[q] \notin {"loaded", "written", "renamed"}
    BY <1>7 DEF SyncDirectory
  <2>8. SaveIsAhead'
    BY <2>7
  <2> QED
    BY <2>1, <2>2, <2>6, <2>8
<1>8. ASSUME NEW p \in Procs, SaveFails(p)
      PROVE  IInv'
  BY <1>8 DEF SaveFails
<1>9. ASSUME NEW p \in Procs, Crash(p)
      PROVE  IInv'
  BY <1>9 DEF Crash
<1>10. CASE Persist
  BY <1>10 DEF Persist
<1>11. CASE PowerLoss
  BY <1>11 DEF PowerLoss
<1>12. CASE UNCHANGED vars
  BY <1>12 DEF vars
<1> QED
  BY <1>1, <1>2, <1>3, <1>4, <1>5, <1>6, <1>7, <1>8, <1>9, <1>10, <1>11, <1>12 DEF Next

\* What the store does to the revisions handed out is a step of the counter.
LEMMA StepIssues ==
  ASSUME IInv, [Next]_vars
  PROVE  [Counter!Next]_issued
<1>1. ASSUME NEW p \in Procs, SyncDirectory(p)
      PROVE  Counter!Next
  <2>1. next[p] \in 1..MaxValue /\ Counter!Issue(next[p])
    BY <1>1 DEF SyncDirectory, Counter!Issue, IInv, TypeOK, SaveIsAhead
  <2> QED
    BY <2>1 DEF Counter!Next
<1>2. CASE UNCHANGED issued
  BY <1>2
<1> QED
  BY <1>1, <1>2 DEF Next, Launch, Acquire, Release, AdvanceAtLeast, WriteTemp, ReplaceFile,
     SaveFails, Crash, Persist, PowerLoss, vars

\* In every reachable state one process holds the lock, and every revision in
\* use is on disk.
THEOREM StoreInvariance == Spec => []IInv
<1>1. IInv /\ [Next]_vars => IInv'
  BY StepIInv
<1> QED
  BY <1>1, InitIInv, PTL DEF Spec

\* The file, the disk and every revision handed out stay within 0 .. MaxValue, the
\* largest integer JavaScript compares exactly (AdvanceAtLeast refuses the next one).
THEOREM TypeCorrect == Spec => []TypeOK
<1>1. IInv => TypeOK
  BY DEF IInv
<1> QED
  BY <1>1, StoreInvariance, PTL

\* Exclusive use of a device's revision (the OS lock of Acquire).
THEOREM SoleUse == Spec => []OneHolder
<1>1. IInv => OneHolder
  BY DEF IInv
<1> QED
  BY <1>1, StoreInvariance, PTL

\* A revision is durable before anything is sent with it (save, Advance).
THEOREM Durability == Spec => []IssuedIsDurable
<1>1. IInv => IssuedIsDurable
  BY DEF IInv
<1> QED
  BY <1>1, StoreInvariance, PTL

\* The store implements the counter: revisions strictly increase across
\* processes, crashes and power losses.
THEOREM StoreImplementsCounter == Spec => ImplementsCounter
<1>1. Init => Counter!Init
  BY DEF Init, Counter!Init
<1>2. IInv /\ [Next]_vars => [Counter!Next]_issued
  BY StepIssues
<1> QED
  BY <1>1, <1>2, StoreInvariance, PTL DEF Spec, ImplementsCounter, Counter!Spec
=============================================================================
