----------------------------- MODULE MessageInbox -----------------------------
(***************************************************************************)
(* What the write path promises, without streams, instances or databases:  *)
(* a published message gets copies in its session's history or a place     *)
(* among the dead letters, and only then is it settled.  A message of Once *)
(* gets one copy at most.  Deleting the consumer makes every message       *)
(* unsettled again, and may excuse some of what was published from being   *)
(* copied once only.                                                       *)
(***************************************************************************)
EXTENDS Naturals

CONSTANTS
  Msg,    \* messages
  Once    \* those that may be copied once only

VARIABLES
  published,  \* messages handed over to the system
  copies,     \* copies[m]: how many entries of the history hold m
  dead,       \* messages put aside as dead letters
  settled,    \* messages the system will not work on again
  excused     \* messages that may be copied again

inboxVars == <<published, copies, dead, settled, excused>>

Init ==
  /\ published = {}
  /\ copies = [m \in Msg |-> 0]
  /\ dead = {}
  /\ settled = {}
  /\ excused = {}

Publish(m) ==
  /\ m \notin published
  /\ published' = published \cup {m}
  /\ UNCHANGED <<copies, dead, settled, excused>>

Store(m) ==
  /\ m \in published
  /\ m \in Once \ excused => copies[m] = 0
  /\ copies' = [copies EXCEPT ![m] = @ + 1]
  /\ UNCHANGED <<published, dead, settled, excused>>

Bury(m) ==
  /\ m \in published
  /\ dead' = dead \cup {m}
  /\ UNCHANGED <<published, copies, settled, excused>>

(* A dead letter that could not be confirmed may be put aside all the same;
   its message stays unsettled, as in Bury. *)
Settle(m) ==
  /\ copies[m] > 0 \/ m \in dead
  /\ settled' = settled \cup {m}
  /\ UNCHANGED <<published, copies, dead, excused>>

Reopen ==
  /\ settled' = {}
  /\ \E some \in SUBSET published : excused' = excused \cup some
  /\ UNCHANGED <<published, copies, dead>>

Next == Reopen \/ \E m \in Msg : Publish(m) \/ Store(m) \/ Bury(m) \/ Settle(m)

Spec == Init /\ [][Next]_inboxVars
=============================================================================
