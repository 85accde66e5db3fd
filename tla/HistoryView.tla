----------------------------- MODULE HistoryView -----------------------------
(***************************************************************************)
(* The presence history of one account as its owner reads it: the profile  *)
(* page (public/js/profile-mobiglass.js) asks for it page by page, listing *)
(* and deletion are statements of src/telemetry-management.js, and rows are*)
(* recorded and expire meanwhile.  Every answer of the page's requests     *)
(* renders the section anew, with all its buttons enabled.                 *)
(***************************************************************************)
EXTENDS Integers, FiniteSets, SequencesExt

CONSTANTS Calls,            \* requests of the page that are open at once
          Ids,              \* the ids of one instant's rows, as they sort
          PageSize, MaxTime, None

HistoryViewAssumption ==
  /\ Ids \subseteq Nat /\ PageSize \in Nat \ {0} /\ MaxTime \in Nat \ {0}
  /\ None \notin [at : 1..MaxTime, id : Ids]

VARIABLES now, rows, past,    \* the clock; telemetry_presence_history; every row there was
          entries, cursor,    \* telemetryHistory, telemetryHistoryCursor
          buttons,            \* those one can press
          call,               \* request -> what it asks and has been told
          since, overlapped   \* history: see ViewIsFaithful

server == <<now, rows, past>>
vars == <<server, entries, cursor, buttons, call, since, overlapped>>

Row == [at : 1..MaxTime, id : Ids]
Idle == [kind |-> "none", step |-> "idle", after |-> None, page |-> <<>>, next |-> None, seen |-> {}]

TypeOK ==
  /\ now \in 1..MaxTime /\ rows \subseteq past /\ past \subseteq Row
  /\ ToSet(entries) \subseteq past /\ cursor \in past \cup {None}
  /\ buttons \subseteq {"more", "delete"}
  /\ \A q \in Calls :
       /\ call[q].kind \in {"none", "more", "reload", "delete"}
       /\ call[q].step \in {"idle", "sent", "served"} /\ Len(call[q].page) <= PageSize
  /\ since \subseteq past /\ overlapped \in BOOLEAN

\* The page is shown, and nothing has been recorded yet.
Init ==
  /\ now = 1 /\ rows = {} /\ past = {}
  /\ entries = <<>> /\ cursor = None /\ buttons = {}
  /\ call = [q \in Calls |-> Idle] /\ since = {} /\ overlapped = FALSE
-----------------------------------------------------------------------------
Older(r, s) == r.at < s.at \/ (r.at = s.at /\ r.id < s.id)

\* Mutant: the cursor is a time, and rows of one instant are lost between pages.
ByTime(after) == {r \in rows : after = None \/ r.at < after.at}

Matching(after) == {r \in rows : after = None \/ Older(r, after)}

Newer(r, found) == {s \in found : Older(r, s)}

\* SELECT ... ORDER BY received_at DESC, id DESC LIMIT limit + 1: a row's place is after
\* those newer; the cursor carries all six digits of received_at, so it is the row it was
\* made of.
Listed(after) ==
  LET found == Matching(after)
      more  == Cardinality(found) > PageSize
      page  == [i \in 1..(IF more THEN PageSize ELSE Cardinality(found)) |->
                  CHOOSE r \in found : Cardinality(Newer(r, found)) = i - 1]
  IN [page |-> page, next |-> IF more THEN Last(page) ELSE None]

\* received_at is the clock under the account's lock: rows are committed in its order.
Record(id) ==
  LET row == [at |-> now, id |-> id] IN
  /\ row \notin past /\ rows' = rows \cup {row} /\ past' = past \cup {row}
  /\ UNCHANGED <<now, entries, cursor, buttons, call, since, overlapped>>

Tick ==
  /\ now < MaxTime /\ now' = now + 1
  /\ UNCHANGED <<rows, past, entries, cursor, buttons, call, since, overlapped>>

\* Ninety days of the oldest rows are over.
Expire ==
  /\ \E t \in 1..(now - 1) :
       /\ \E r \in rows : r.at = t
       /\ rows' = {r \in rows : r.at > t}
  /\ UNCHANGED <<now, past, entries, cursor, buttons, call, since, overlapped>>
-----------------------------------------------------------------------------
Busy(q) == \E o \in Calls \ {q} : call[o] # Idle

\* LOAD OLDER, DELETE, or the list that is loaded after a device was revoked.
Press(q, kind) ==
  /\ call[q] = Idle /\ kind \in buttons \cup {"reload"}
  /\ buttons' = buttons \ {kind}
  /\ call' = [call EXCEPT ![q] = [Idle EXCEPT !.kind = kind, !.step = "sent",
                                    !.after = IF kind = "more" THEN cursor ELSE None]]
  /\ overlapped' = (overlapped \/ Busy(q))
  /\ UNCHANGED <<server, entries, cursor, since>>

List(q) ==
  /\ call[q].step = "sent" /\ call[q].kind \in {"more", "reload"}
  /\ LET found == Listed(call[q].after) IN
     call' = [call EXCEPT ![q] = [@ EXCEPT !.step = "served", !.page = found.page,
                                    !.next = found.next, !.seen = rows]]
  /\ UNCHANGED <<server, entries, cursor, buttons, since, overlapped>>

DeleteHistory(q) ==
  /\ call[q].step = "sent" /\ call[q].kind = "delete"
  /\ rows' = {} /\ call' = [call EXCEPT ![q].step = "served"]
  /\ UNCHANGED <<now, past, entries, cursor, buttons, since, overlapped>>

Render(list, next) ==
  /\ entries' = list /\ cursor' = next
  /\ buttons' = {b \in {"more"} : next # None} \cup {b \in {"delete"} : list # <<>>}

\* A first page, like an empty list, starts the section over.
Show(q, list, next, first) ==
  /\ Render(list, next)
  /\ since' = IF first THEN call[q].seen ELSE since
  /\ overlapped' = IF first THEN Busy(q) ELSE overlapped
  /\ call' = [call EXCEPT ![q] = Idle] /\ UNCHANGED server

Answer(q) ==
  /\ call[q].step = "served"
  /\ LET c == call[q] IN
     \/ c.kind = "more" /\ Show(q, entries \o c.page, c.next, FALSE)
     \/ c.kind = "reload" /\ Show(q, c.page, c.next, TRUE)
     \/ c.kind = "delete" /\ Show(q, <<>>, None, TRUE)

\* The request, or its answer, is lost: the message is shown with the old list.
Fails(q) == call[q] # Idle /\ Show(q, entries, cursor, FALSE)

\* A saved profile, a renamed device, the SCMDB status: the page is rendered.
Refresh ==
  /\ Render(entries, cursor)
  /\ UNCHANGED <<server, call, since, overlapped>>

Next ==
  \/ Tick \/ Expire \/ Refresh
  \/ \E id \in Ids : Record(id)
  \/ \E q \in Calls :
       List(q) \/ DeleteHistory(q) \/ Answer(q) \/ Fails(q)
       \/ \E kind \in {"more", "delete", "reload"} : Press(q, kind)

Spec == Init /\ [][Next]_vars
-----------------------------------------------------------------------------
\* While the owner does one thing at a time, the list has no row twice and none out of
\* order, and lacks none that has been there since its first page was read, down to the
\* point where it can be continued: whatever is recorded, expires and fails meanwhile,
\* and however many rows share an instant.
ViewIsFaithful ==
  ~overlapped =>
    /\ \A i \in 1..(Len(entries) - 1) : Older(entries[i + 1], entries[i])
    /\ cursor # None => entries # <<>> /\ cursor = Last(entries)
    /\ \A r \in since \cap rows : (cursor = None \/ ~Older(r, cursor)) => r \in ToSet(entries)
=============================================================================
