----------------------------- MODULE Membership -----------------------------
(***************************************************************************)
(* What the invites of a group promise: a request joins at one moment, at  *)
(* which the group and the account exist and the invite is live; it is the *)
(* only way in, and a one-time invite lets one request in.                 *)
(***************************************************************************)
CONSTANTS People, Invites, Joins, Founder

VARIABLES exists, members, closed,  \* the group; who is in it; deleted accounts
          invite,                   \* invite -> its state
          uses                      \* <<join, invite>> answered 200

vars == <<exists, members, closed, invite, uses>>

Init ==
  /\ exists = TRUE /\ members = {Founder} /\ closed = {}
  /\ invite = [i \in Invites |-> "none"] /\ uses = {}

Create(i, kind) ==
  /\ exists /\ invite[i] = "none"
  /\ invite' = [invite EXCEPT ![i] = kind]
  /\ UNCHANGED <<exists, members, closed, uses>>

Live(i) == invite[i] \in {"single", "reusable"}

Expire(i) ==
  /\ Live(i) /\ invite' = [invite EXCEPT ![i] = "expired"]
  /\ UNCHANGED <<exists, members, closed, uses>>

Remove(i) ==
  /\ invite[i] # "none" /\ invite' = [invite EXCEPT ![i] = "gone"]
  /\ UNCHANGED <<exists, members, closed, uses>>

Join(h, p, i) ==
  /\ exists /\ p \notin closed /\ Live(i) /\ \A u \in uses : u[1] # h
  /\ members' = members \cup {p}
  /\ invite' = [invite EXCEPT ![i] = IF @ = "single" THEN "used" ELSE @]
  /\ uses' = uses \cup {<<h, i>>}
  /\ UNCHANGED <<exists, closed>>

Leave(p) == members' = members \ {p} /\ UNCHANGED <<exists, closed, invite, uses>>

\* An account is deleted, and with it its membership.
Close(p) ==
  /\ closed' = closed \cup {p} /\ members' = members \ {p}
  /\ UNCHANGED <<exists, invite, uses>>

\* The group is deleted, alone or with its owner's account.
Delete(owners) ==
  /\ exists /\ exists' = FALSE
  /\ members' = {} /\ closed' = closed \cup owners
  /\ invite' = [i \in Invites |-> IF invite[i] = "none" THEN "none" ELSE "gone"]
  /\ UNCHANGED uses

Next ==
  \/ \E i \in Invites : Expire(i) \/ Remove(i) \/ \E k \in {"single", "reusable"} : Create(i, k)
  \/ \E p \in People : Leave(p) \/ Close(p) \/ Delete({p})
                       \/ \E h \in Joins, i \in Invites : Join(h, p, i)
  \/ Delete({})

Spec == Init /\ [][Next]_vars
=============================================================================
