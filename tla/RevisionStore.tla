---------------------------- MODULE RevisionStore ----------------------------
(***************************************************************************)
(* The durable revision of one device on the client's machine              *)
(* (src/telemetry/internal/revision/store.go): a state file replaced       *)
(* atomically by a synced temporary one, and a sibling lock file that one  *)
(* process holds at a time.  Processes crash between any two steps; power  *)
(* loss also undoes a rename that was not made durable.                    *)
(***************************************************************************)
EXTENDS Integers

CONSTANTS Procs,     \* processes that may use the device
          MaxValue,  \* the last revision
          None       \* nobody

ASSUME StoreAssumption == MaxValue \in Nat /\ None \notin Procs

VARIABLES owner,    \* the process that holds the OS lock
          file,     \* the revision in the state file; 0 if there is no file
          disk,     \* the revision a power loss would leave in it
          pc,       \* pc[p]: where process p is
          next,     \* next[p]: the revision p is about to save
          issued    \* the revisions handed to callers

vars == <<owner, file, disk, pc, next, issued>>

Holding == {"held", "loaded", "written", "renamed"}

TypeOK ==
  /\ owner \in Procs \cup {None}
  /\ file \in 0..MaxValue
  /\ disk \in 0..MaxValue
  /\ pc \in [Procs -> {"down", "unlocked"} \cup Holding]
  /\ next \in [Procs -> 0..MaxValue]
  /\ issued \subseteq 1..MaxValue

Init ==
  /\ owner = None
  /\ file = 0 /\ disk = 0
  /\ pc = [p \in Procs |-> "down"]
  /\ next = [p \in Procs |-> 0]
  /\ issued = {}

Larger(a, b) == IF a < b THEN b ELSE a
-----------------------------------------------------------------------------
Launch(p) ==
  /\ pc[p] = "down"
  /\ pc' = [pc EXCEPT ![p] = "unlocked"]
  /\ UNCHANGED <<owner, file, disk, next, issued>>

\* Mutant: the lock file is opened and not locked.
AcquireUnlocked(p) ==
  /\ pc[p] = "unlocked"
  /\ owner' = p
  /\ pc' = [pc EXCEPT ![p] = "held"]
  /\ UNCHANGED <<file, disk, next, issued>>

\* The lock is taken without waiting; a file that cannot be read gives it back.
Acquire(p) ==
  /\ pc[p] = "unlocked" /\ owner = None
  /\ owner' = p
  /\ pc' = [pc EXCEPT ![p] = "held"]
  /\ UNCHANGED <<file, disk, next, issued>>

\* The mutex of the Lock keeps Release out of a running AdvanceAtLeast.
Release(p) ==
  /\ pc[p] = "held"
  /\ owner' = None
  /\ pc' = [pc EXCEPT ![p] = "unlocked"]
  /\ UNCHANGED <<file, disk, next, issued>>

\* Mutant: a server revision replaces the local one, even by a smaller one.
AdvanceToMinimum(p, minimum) ==
  LET floor == IF minimum > 0 THEN minimum ELSE file IN
  /\ pc[p] = "held"
  /\ floor < MaxValue
  /\ next' = [next EXCEPT ![p] = floor + 1]
  /\ pc' = [pc EXCEPT ![p] = "loaded"]
  /\ UNCHANGED <<owner, file, disk, issued>>

\* AdvanceAtLeast reads the file again, raises it to the server's revision and
\* goes one further, unless the revisions are used up.
AdvanceAtLeast(p, minimum) ==
  LET floor == Larger(file, minimum) IN
  /\ pc[p] = "held"
  /\ floor < MaxValue
  /\ next' = [next EXCEPT ![p] = floor + 1]
  /\ pc' = [pc EXCEPT ![p] = "loaded"]
  /\ UNCHANGED <<owner, file, disk, issued>>

\* save: the temporary file, written, synced and closed ...
WriteTemp(p) ==
  /\ pc[p] = "loaded"
  /\ pc' = [pc EXCEPT ![p] = "written"]
  /\ UNCHANGED <<owner, file, disk, next, issued>>

\* ... takes the place of the state file ...
ReplaceFile(p) ==
  /\ pc[p] = "written"
  /\ file' = next[p]
  /\ pc' = [pc EXCEPT ![p] = "renamed"]
  /\ UNCHANGED <<owner, disk, next, issued>>

\* ... and the directory is synced before the revision is handed out.
SyncDirectory(p) ==
  /\ pc[p] = "renamed"
  /\ disk' = file
  /\ issued' = issued \cup {next[p]}
  /\ pc' = [pc EXCEPT ![p] = "held"]
  /\ UNCHANGED <<owner, file, next>>

\* Mutant: the result of syncing the directory is not looked at.
SaveFailsUnnoticed(p) ==
  /\ pc[p] \in {"loaded", "written", "renamed"}
  /\ pc' = [pc EXCEPT ![p] = "held"]
  /\ issued' = IF pc[p] = "renamed" THEN issued \cup {next[p]} ELSE issued
  /\ UNCHANGED <<owner, file, disk, next>>

\* Any step of save fails: the caller gets no revision, the file may have one.
SaveFails(p) ==
  /\ pc[p] \in {"loaded", "written", "renamed"}
  /\ pc' = [pc EXCEPT ![p] = "held"]
  /\ UNCHANGED <<owner, file, disk, next, issued>>
-----------------------------------------------------------------------------
\* The system writes a rename out in its own time.
Persist ==
  /\ disk' = file
  /\ UNCHANGED <<owner, file, pc, next, issued>>

\* The OS gives back the lock of a process that ends.
Crash(p) ==
  /\ pc[p] # "down"
  /\ pc' = [pc EXCEPT ![p] = "down"]
  /\ owner' = IF owner = p THEN None ELSE owner
  /\ UNCHANGED <<file, disk, next, issued>>

PowerLoss ==
  /\ pc' = [p \in Procs |-> "down"]
  /\ owner' = None
  /\ file' = disk
  /\ UNCHANGED <<disk, next, issued>>

Next ==
  \/ \E p \in Procs :
       \/ Launch(p) \/ Acquire(p) \/ Release(p)
       \/ \E minimum \in 0..MaxValue : AdvanceAtLeast(p, minimum)
       \/ WriteTemp(p) \/ ReplaceFile(p) \/ SyncDirectory(p) \/ SaveFails(p)
       \/ Crash(p)
  \/ Persist \/ PowerLoss

Spec == Init /\ [][Next]_vars
-----------------------------------------------------------------------------
(* Properties                                                              *)

\* One process works on the revision of a device: whoever is past Acquire is
\* the owner of the OS lock.
OneHolder == \A p \in Procs : pc[p] \in Holding => owner = p

\* A revision that was handed out, and may be in a request, survives a power
\* loss: no later run of the client starts below it.
IssuedIsDurable == \A r \in issued : r <= disk /\ disk <= file

Counter == INSTANCE RevisionCounter

\* Over all processes, crashes and reconciliations with the server the store
\* hands out strictly increasing revisions.
ImplementsCounter == Counter!Spec
=============================================================================
