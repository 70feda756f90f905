--------------------------- MODULE PresenceLedger ---------------------------
(***************************************************************************)
(* What presence promises its callers, with no Redis and no tasks: the set *)
(* of connections that count, and the arrivals that are still to be told.  *)
(* Filling a user's empty set owes one announcement, decided by the very   *)
(* step that fills it; nothing else ever owes one.                         *)
(***************************************************************************)
CONSTANTS Conn, User, UserOf

VARIABLES
  members,   \* connections that count as present
  owed,      \* arrivals decided but not announced yet
  told       \* arrivals announced

ledgerVars == <<members, owed, told>>

Companions(c) == {d \in members : UserOf[d] = UserOf[c]}

LedgerInit == members = {} /\ owed = {} /\ told = {}

Arrive(c) ==
  /\ c \notin members \cup owed \cup told
  /\ members' = members \cup {c}
  /\ owed' = IF Companions(c) = {} THEN owed \cup {c} ELSE owed
  /\ UNCHANGED told

Tell(c) ==
  /\ c \in owed
  /\ owed' = owed \ {c}
  /\ told' = told \cup {c}
  /\ UNCHANGED members

\* The stream closed, or its dead instance's reclaim released it.
Leave(c) ==
  /\ c \in members
  /\ members' = members \ {c}
  /\ UNCHANGED <<owed, told>>

\* A killed instance takes what it still had to say with it.
Silence(lost) ==
  /\ lost # {} /\ lost \subseteq owed
  /\ owed' = owed \ lost
  /\ UNCHANGED <<members, told>>

LedgerNext ==
  \/ \E c \in Conn : Arrive(c) \/ Tell(c) \/ Leave(c)
  \/ \E lost \in SUBSET Conn : Silence(lost)

LedgerSpec == LedgerInit /\ [][LedgerNext]_ledgerVars
=============================================================================
