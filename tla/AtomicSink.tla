---------------------------- MODULE AtomicSink -----------------------------
(***************************************************************************)
(* What the SCMDB sink promises: each delivery takes effect at one moment. *)
(* Then its connection is alive and belongs to the sender, or to nobody    *)
(* yet, its event is applied if that never happened, and it is answered.   *)
(***************************************************************************)
CONSTANTS Tokens, Events, Senders, None

VARIABLES connection, identity,  \* token -> its state, whom it is bound to
          applied,               \* event -> times it was applied
          answered               \* events answered 202

vars == <<connection, identity, applied, answered>>

Alive == {"pending", "connected"}

Init ==
  /\ connection = [t \in Tokens |-> "none"] /\ identity = [t \in Tokens |-> None]
  /\ applied = [e \in Events |-> 0] /\ answered = {}

\* Inventory transactions carry no sender; only a profile may be the first to bind.
Belongs(t, u, k) ==
  k = "inventory" \/ identity[t] = u \/ (k = "profile" /\ identity[t] = None)

Deliver(t, e, u, k) ==
  /\ connection[t] \in Alive /\ Belongs(t, u, k)
  /\ connection' = [connection EXCEPT ![t] = "connected"]
  /\ identity' = IF k = "profile" THEN [identity EXCEPT ![t] = u] ELSE identity
  /\ applied' = [applied EXCEPT ![e] = 1] /\ answered' = answered \cup {e}

Revoked(states) ==
  [t \in Tokens |-> IF connection[t] \in states THEN "revoked" ELSE connection[t]]

\* The new connection takes the place of one that nobody used.
Connect(t) ==
  /\ connection[t] = "none"
  /\ connection' = [Revoked({"pending"}) EXCEPT ![t] = "pending"]
  /\ UNCHANGED <<identity, applied, answered>>

Disconnect ==
  /\ connection' = Revoked(Alive)
  /\ UNCHANGED <<identity, applied, answered>>

Next ==
  \/ \E t \in Tokens, e \in Events, u \in Senders :
       \E k \in {"profile", "inventory", "blueprint"} : Deliver(t, e, u, k)
  \/ \E t \in Tokens : Connect(t)
  \/ Disconnect

Spec == Init /\ [][Next]_vars
=============================================================================
