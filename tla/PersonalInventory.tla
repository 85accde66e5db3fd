------------------------- MODULE PersonalInventory --------------------------
(***************************************************************************)
(* One item in the personal inventory of one account (src/server.js): a row*)
(* per location, with how many are for trade.  The browser edits rows and  *)
(* gathers everything at home after a patch; the sink reports what went to *)
(* and from the backpack.  An edit reads what it was not given and writes  *)
(* the whole row; a reset reads, deletes and inserts in one transaction.   *)
(***************************************************************************)
EXTENDS Integers, FiniteSets, Functions

CONSTANTS Edits, Resets,      \* requests
          Locations, Home, MaxQuantity, None

PersonalInventoryAssumption ==
  /\ Home \in Locations /\ MaxQuantity \in Nat /\ Edits \cap Resets = {}
  /\ None \notin Locations /\ IsFiniteSet(Locations)

VARIABLES quantity, trade, status,  \* location -> the row; no row has quantity 0
          locked,                   \* reset -> locations whose rows it has deleted
          pc,                       \* request -> where it is
          aim,                      \* edit -> its row's location; None when the row is gone
          want,                     \* request -> the row it will write
          short, delisted,          \* history: locations, see InventoryIsKept
          overlapped                \* history: resets during which a row was written

rows == <<quantity, trade, status>>
requests == <<pc, aim, want>>
history == <<short, delisted, overlapped>>
vars == <<rows, locked, requests, history>>

Statuses == {"NOT_FOR_TRADE", "MAY_TRADE", "FOR_TRADE"}
Row(q, t, s) == [quantity |-> q, trade |-> t, status |-> s]
NoRow == Row(0, 0, "NOT_FOR_TRADE")
Total(f, where) == FoldFunctionOnSet(LAMBDA x, y : x + y, 0, f, where)

TypeOK ==
  /\ quantity \in [Locations -> Nat] /\ trade \in [Locations -> Nat]
  /\ status \in [Locations -> Statuses] /\ locked \in [Resets -> SUBSET Locations]
  /\ pc \in [Edits \cup Resets -> {"new", "read", "write", "waiting", "deleted", "done"}]
  /\ aim \in [Edits -> Locations \cup {None}]
  /\ \A h \in Edits \cup Resets : want[h] = Row(want[h].quantity, want[h].trade, want[h].status)
  /\ short \subseteq Locations /\ delisted \subseteq Locations /\ overlapped \subseteq Resets

Init ==
  /\ quantity = [l \in Locations |-> 0] /\ trade = [l \in Locations |-> 0]
  /\ status = [l \in Locations |-> "NOT_FOR_TRADE"] /\ locked = [r \in Resets |-> {}]
  /\ pc = [h \in Edits \cup Resets |-> "new"] /\ aim = [e \in Edits |-> None]
  /\ want = [h \in Edits \cup Resets |-> NoRow]
  /\ short = {} /\ delisted = {} /\ overlapped = {}
-----------------------------------------------------------------------------
LeastOf(a, b) == IF a < b THEN a ELSE b
Goto(h, step) == pc' = [pc EXCEPT ![h] = step]
Unlocked(l) == \A r \in Resets : l \notin locked[r]
Gathering == {r \in Resets : pc[r] \in {"read", "waiting", "deleted"}}

\* The rows at the places in where become row; the edits in ended are over, and those of
\* a row that is deleted miss it.
Replace(where, row, ended) ==
  /\ quantity' = [l \in Locations |-> IF l \in where THEN row.quantity ELSE quantity[l]]
  /\ trade' = [l \in Locations |-> IF l \in where THEN row.trade ELSE trade[l]]
  /\ status' = [l \in Locations |-> IF l \in where THEN row.status ELSE status[l]]
  /\ aim' = [e \in Edits |-> IF e \in ended \/ (aim[e] \in where /\ row = NoRow)
                              THEN None ELSE aim[e]]

\* A statement of its own writes the row at l, and ends these edits.
WriteLast(l, row, ended) ==
  /\ Unlocked(l) /\ Replace({l}, row, ended)
  /\ overlapped' = overlapped \cup Gathering
  /\ UNCHANGED locked

Write(l, row) == WriteLast(l, row, {})

\* Mutant: what is for trade is kept as it is.
Uncapped(l, q) == trade[l]

Capped(l, q) == LeastOf(trade[l], q)

\* The rows at the places in where are new or written as a whole.
Regular(where) == short' = short \ where /\ delisted' = delisted \ where

\* POST adds to the row or makes it.
Add(l, q) ==
  /\ quantity[l] + q <= MaxQuantity
  /\ Write(l, Row(quantity[l] + q, Capped(l, quantity[l] + q), status[l]))
  /\ short' = short \ {l} /\ UNCHANGED <<pc, want, delisted>>

\* PATCH with nothing but a quantity.
SetQuantity(l, q) ==
  /\ quantity[l] > 0
  /\ Write(l, Row(q, Capped(l, q), status[l]))
  /\ short' = short \ {l} /\ UNCHANGED <<pc, want, delisted>>

\* DELETE, and PATCH with quantity 0.
Remove(l) ==
  /\ quantity[l] > 0 /\ Write(l, NoRow) /\ Regular({l}) /\ UNCHANGED <<pc, want>>

\* The sink's inventory.transaction: TO_BACKPACK adds, TO_STATION takes and leaves the
\* other columns as they are.
ToBackpack(l, q) ==
  /\ quantity[l] + q <= MaxQuantity
  /\ Write(l, Row(quantity[l] + q, trade[l], status[l])) /\ UNCHANGED <<pc, want, short, delisted>>

ToStation(l, q) ==
  /\ quantity[l] > 0
  /\ IF quantity[l] <= q THEN Write(l, NoRow) /\ Regular({l})
     ELSE /\ Write(l, Row(quantity[l] - q, trade[l], status[l]))
          /\ short' = short \cup {l} /\ UNCHANGED delisted
  /\ UNCHANGED <<pc, want>>
-----------------------------------------------------------------------------
\* PATCH of the trade settings: the quantity is given or read, ...
ReadQuantity(e, l) ==
  /\ pc[e] = "new" /\ quantity[l] > 0 /\ aim' = [aim EXCEPT ![e] = l]
  /\ \E q \in {quantity[l]} \cup 1..MaxQuantity : want' = [want EXCEPT ![e].quantity = q]
  /\ Goto(e, "read") /\ UNCHANGED <<rows, locked, history>>

\* ... so are the settings, by a later query; what does not fit is refused.
ReadTrade(e, s) ==
  /\ pc[e] = "read" /\ aim[e] # None
  /\ \E t \in {trade[aim[e]]} \cup 0..MaxQuantity :
       /\ t <= want[e].quantity /\ (s = "NOT_FOR_TRADE" => t = 0)
       /\ want' = [want EXCEPT ![e].trade = t, ![e].status = s]
  /\ Goto(e, "write") /\ UNCHANGED <<rows, locked, aim, history>>

Update(e) ==
  /\ pc[e] = "write" /\ Goto(e, "done") /\ want' = [want EXCEPT ![e] = NoRow]
  /\ IF aim[e] = None THEN UNCHANGED <<rows, locked, aim, history>>
     ELSE WriteLast(aim[e], want[e], {e}) /\ Regular({aim[e]})
-----------------------------------------------------------------------------
\* patch-reset: BEGIN and the rows, added up; one of them lends its status.
Gather(r, s) ==
  LET Sum(f) == Total(f, Locations)
      given == IF Sum(trade) > 0 THEN "FOR_TRADE" ELSE s
  IN
  /\ pc[r] = "new" /\ \E l \in Locations : quantity[l] > 0 /\ status[l] = s
  /\ want' = [want EXCEPT ![r] = Row(Sum(quantity), LeastOf(Sum(trade), Sum(quantity)), given)]
  /\ Goto(r, "read") /\ UNCHANGED <<rows, locked, aim, history>>

\* DELETE takes the rows there are now; it waits for another reset that has taken them,
\* and if that one commits, the rows it was waiting for are gone.
Delete(r) ==
  /\ pc[r] = "read"
  /\ IF \E o \in Resets : locked[o] # {} THEN Goto(r, "waiting") /\ UNCHANGED locked
     ELSE /\ locked' = [locked EXCEPT ![r] = {l \in Locations : quantity[l] > 0}]
          /\ Goto(r, "deleted")
  /\ UNCHANGED <<rows, aim, want, history>>

Ended(r, next) ==
  /\ pc' = [h \in DOMAIN pc |-> IF h = r THEN "done" ELSE IF pc[h] = "waiting" THEN next ELSE pc[h]]
  /\ locked' = [locked EXCEPT ![r] = {}]

\* INSERT at home, which fails when a row is there, and COMMIT.
Insert(r) ==
  /\ pc[r] = "deleted" /\ \A o \in Resets \ {r} : Home \notin locked[o]
  /\ IF quantity[Home] > 0 /\ Home \notin locked[r]
     THEN Ended(r, "read") /\ UNCHANGED <<rows, aim, short, delisted>> /\ overlapped' = overlapped \ {r}
     ELSE /\ Ended(r, "deleted")
          /\ quantity' = [l \in Locations |-> IF l = Home THEN want[r].quantity
                                              ELSE IF l \in locked[r] THEN 0 ELSE quantity[l]]
          /\ trade' = [l \in Locations |-> IF l = Home THEN want[r].trade
                                           ELSE IF l \in locked[r] THEN 0 ELSE trade[l]]
          /\ status' = [l \in Locations |-> IF l = Home THEN want[r].status
                                            ELSE IF l \in locked[r] THEN "NOT_FOR_TRADE" ELSE status[l]]
          /\ aim' = [e \in Edits |-> IF aim[e] \in locked[r] THEN None ELSE aim[e]]
          /\ Regular(locked[r] \cup {Home})
          /\ overlapped' = (overlapped \cup Gathering) \ {r}
  /\ want' = [want EXCEPT ![r] = NoRow]

Wipe ==
  /\ \A l \in Locations : Unlocked(l)
  /\ Replace(Locations, NoRow, {}) /\ Regular(Locations)
  /\ overlapped' = overlapped \cup Gathering /\ UNCHANGED <<locked, pc, want>>

\* The server restarts: requests are lost, and the schema's UPDATE lowers what is for
\* trade to what there is and takes it off the market.
Restart ==
  LET over == {l \in Locations : trade[l] > quantity[l]} IN
  /\ over # {}
  /\ trade' = [l \in Locations |-> LeastOf(trade[l], quantity[l])]
  /\ status' = [l \in Locations |-> IF l \in over THEN "NOT_FOR_TRADE" ELSE status[l]]
  /\ locked' = [r \in Resets |-> {}] /\ pc' = [h \in DOMAIN pc |-> "done"]
  /\ short' = {} /\ delisted' = delisted \cup over
  /\ want' = [h \in DOMAIN want |-> NoRow] /\ aim' = [e \in Edits |-> None]
  /\ overlapped' = {} /\ UNCHANGED quantity

Next ==
  \/ \E l \in Locations :
       Remove(l) \/ \E q \in 1..MaxQuantity :
                      Add(l, q) \/ SetQuantity(l, q) \/ ToBackpack(l, q) \/ ToStation(l, q)
  \/ \E e \in Edits :
       Update(e) \/ (\E l \in Locations : ReadQuantity(e, l)) \/ (\E s \in Statuses : ReadTrade(e, s))
  \/ \E r \in Resets : Delete(r) \/ Insert(r) \/ \E s \in Statuses : Gather(r, s)
  \/ Wipe \/ Restart

Spec == Init /\ [][Next]_vars
-----------------------------------------------------------------------------
\* A reset inserts what it has deleted, and that is everything, unless a row was written
\* while it ran; no more is offered than there is, except where the sink has taken some
\* since, and nothing of what is not for trade, except where a restart has delisted it.
InventoryIsKept ==
  /\ \A r \in Resets \ overlapped : pc[r] = "deleted" =>
       /\ want[r].quantity = Total(quantity, locked[r])
       /\ \A l \in Locations \ locked[r] : quantity[l] = 0
  /\ \A l \in Locations \ short : trade[l] <= quantity[l]
  /\ \A l \in Locations \ delisted : status[l] = "NOT_FOR_TRADE" => trade[l] = 0
=============================================================================
