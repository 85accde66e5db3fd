---------------------------- MODULE OneTimeCode ----------------------------
(***************************************************************************)
(* What pairing promises: an account has at most one code that can be      *)
(* redeemed, the newest; a code makes one device at most, and only while   *)
(* its account is open.                                                    *)
(***************************************************************************)
CONSTANTS Accounts, Codes, Claims, None

VARIABLES open,      \* accounts
          current,   \* account -> its redeemable code, or None
          redeemed,  \* <<claim, code>>: the claim made a device with the code
          issued     \* codes that were given out

vars == <<open, current, redeemed, issued>>

Init ==
  /\ open = Accounts
  /\ current = [a \in Accounts |-> None]
  /\ redeemed = {} /\ issued = {}

Issue(a, c) ==
  /\ a \in open /\ c \notin issued
  /\ current' = [current EXCEPT ![a] = c] /\ issued' = issued \cup {c}
  /\ UNCHANGED <<open, redeemed>>

Redeem(a, h) ==
  /\ a \in open /\ current[a] # None
  /\ redeemed' = redeemed \cup {<<h, current[a]>>}
  /\ current' = [current EXCEPT ![a] = None]
  /\ UNCHANGED <<open, issued>>

\* Cleaned up long after it expired.
Lapse(a) ==
  /\ current' = [current EXCEPT ![a] = None]
  /\ UNCHANGED <<open, redeemed, issued>>

\* Closing an account ends its code; reopening does not bring it back.
Close(a)  ==
  /\ open' = open \ {a} /\ current' = [current EXCEPT ![a] = None]
  /\ UNCHANGED <<redeemed, issued>>

Reopen(a) == open' = open \cup {a} /\ UNCHANGED <<current, redeemed, issued>>

Next == \E a \in Accounts :
  \/ \E c \in Codes : Issue(a, c)
  \/ \E h \in Claims : Redeem(a, h)
  \/ Lapse(a) \/ Close(a) \/ Reopen(a)

Spec == Init /\ [][Next]_vars
=============================================================================
