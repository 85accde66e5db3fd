----------------------------- MODULE MCCommunity ----------------------------
(***************************************************************************)
(* What the members of a group do, each with its own tables: accounts,     *)
(* groups, missions, materials, orders and personal inventories.  A        *)
(* behaviour follows one of them ("part"): what a part takes from another  *)
(* (who is a member) it has as state of its own.  The variables and the    *)
(* properties of the group part are those of Groups itself.                *)
(***************************************************************************)
EXTENDS Groups, TLC

CONSTANTS Asks, Things, Places, Single, Couple,
          MaxSecrets, MaxTarget, MaxRequests,  \* see Accounts, Missions
          MaxStock, Required, MaxQuantity      \* see Materials, Orders, PersonalInventory

VARIABLES part,
  acStatus, token, key, nextToken, nextKey, sessions, acPc, secret, userLock,
    keyLock, tokenLock, doomed, answer, overtaken, used,
  members, tasks, mission, miPc, job, draft, begun, fresh, taskLock, missionLock,
    shared, unassigning, miExcused,
  added, taken, open, newAdded, newTaken, lock, maPc, line, leaked, torn,
  orStatus, delivered, assignee, reported, orClosed, orPc, by, orQuantity, total,
    orOverlapped, contested, winners, erased, seen, basis,
  inQuantity, trade, inStatus, locked, inPc, aim, want, short, delisted,
    inOverlapped

accountVars == <<acStatus, token, key, nextToken, nextKey, sessions, acPc, secret,
  userLock, keyLock, tokenLock, doomed, answer, overtaken, used>>
missionVars == <<members, tasks, mission, miPc, job, draft, begun, fresh, taskLock,
  missionLock, shared, unassigning, miExcused>>
materialVars == <<added, taken, open, newAdded, newTaken, lock, maPc, line, leaked,
  torn>>
orderVars == <<orStatus, delivered, assignee, reported, orClosed, orPc, by, orQuantity,
  total, orOverlapped, contested, winners, erased, seen, basis>>
inventoryVars == <<inQuantity, trade, inStatus, locked, inPc, aim, want, short,
  delisted, inOverlapped>>
allVars == <<part, accountVars, vars, missionVars, materialVars, orderVars,
  inventoryVars>>

Account == INSTANCE Accounts WITH
  Logins <- Things, Recoveries <- Asks, Rotations <- Single,
  status <- acStatus, pc <- acPc

Mission == INSTANCE Missions WITH
  Requests <- Asks, Tasks <- Things, Users <- Couple, Manager <- Founder,
  pc <- miPc, excused <- miExcused

Material == INSTANCE Materials WITH
  Withdrawals <- Asks, Clears <- Single, Connections <- Things, pc <- maPc

Order == INSTANCE Orders WITH
  Requests <- Asks \cup Things, Members <- Places, status <- orStatus,
  closed <- orClosed, pc <- orPc, quantity <- orQuantity, overlapped <- orOverlapped

Inventory == INSTANCE PersonalInventory WITH
  Edits <- Things, Resets <- Asks, Locations <- Couple, Home <- Founder,
  quantity <- inQuantity, status <- inStatus, pc <- inPc,
  overlapped <- inOverlapped

ASSUME PartsAssumption ==
  /\ Account!AccountsAssumption /\ GroupsAssumption
  /\ Mission!MissionsAssumption /\ Material!MaterialsAssumption
  /\ Order!OrdersAssumption /\ Inventory!PersonalInventoryAssumption

PartsInit ==
  /\ part \in { "account", "group", "mission", "material", "order",
             "inventory"}
  /\ Account!Init /\ Init /\ Mission!Init /\ Material!Init
  /\ Order!Init /\ Inventory!Init

PartsNext ==
  /\ \/ part = "account" /\ Account!Next
          /\ UNCHANGED <<vars, missionVars, materialVars, orderVars, inventoryVars>>
     \/ part = "group" /\ Next
          /\ UNCHANGED <<accountVars, missionVars, materialVars, orderVars, inventoryVars>>
     \/ part = "mission" /\ Mission!Next
          /\ UNCHANGED <<accountVars, vars, materialVars, orderVars, inventoryVars>>
     \/ part = "material" /\ Material!Next
          /\ UNCHANGED <<accountVars, vars, missionVars, orderVars, inventoryVars>>
     \/ part = "order" /\ Order!Next
          /\ UNCHANGED <<accountVars, vars, missionVars, materialVars, inventoryVars>>
     \/ part = "inventory" /\ Inventory!Next
          /\ UNCHANGED <<accountVars, vars, missionVars, materialVars, orderVars>>
  /\ UNCHANGED part

PartsSpec == PartsInit /\ [][PartsNext]_allVars

Symmetric == Permutations(Asks) \cup Permutations(Things) \cup Permutations(Places)
-----------------------------------------------------------------------------
\* The variables of the part a behaviour follows stay in their types.
PartsTypeOK ==
  /\ part = "account" => Account!TypeOK
  /\ part = "group" => TypeOK
  /\ part = "mission" => Mission!TypeOK
  /\ part = "material" => Material!TypeOK
  /\ part = "order" => Order!TypeOK
  /\ part = "inventory" => Inventory!TypeOK

\* See Accounts: a recovery key works once, and the newest credentials are the account's.
KeyWorksOnce == Account!KeyWorksOnce

\* See Accounts: no session of a lost VerseLink ID outlives the recovery.
OldSessionsEnd == Account!OldSessionsEnd

\* See Missions: an item task's progress and the statuses follow from what is committed.
ProgressIsExact == Mission!ProgressIsExact

\* See Missions: only a reopened or overtaken task is left with somebody who is gone.
StrayAssignments == Mission!StrayAssignments

\* See Materials: no place gives more than it was given.
StockIsCovered == Material!StockIsCovered

\* See Materials: connections return to the pool outside of a transaction.
IdleIsClean == Material!IdleIsClean

\* See Orders: a completed order was delivered in full, a claimed one is the claimer's.
OrderIsConsistent == Order!OrderIsConsistent

\* See PersonalInventory: a reset keeps the items, and no more is offered than there is.
InventoryIsKept == Inventory!InventoryIsKept
=============================================================================
