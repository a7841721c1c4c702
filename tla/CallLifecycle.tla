----------------------------- MODULE CallLifecycle -----------------------------
(***************************************************************************)
(* What the state plane promises of a call, without Redis, gateways or     *)
(* time: it rings, may be answered, is ended once and for good, never      *)
(* disappears before it has ended, and leaves at most one record, which    *)
(* says "completed" only of a call that was answered.                      *)
(***************************************************************************)
EXTENDS Sequences

CONSTANT Call

VARIABLES
  phase,    \* phase[c]: none, ringing, connected, ended or gone
  talked,   \* talked[c]: the call has been answered
  records   \* records[c]: the chat records published for the call

lifecycleVars == <<phase, talked, records>>

Reason == {"canceled", "rejected", "completed", "missed", "failed"}

Init ==
  /\ phase = [c \in Call |-> "none"]
  /\ talked = [c \in Call |-> FALSE]
  /\ records = [c \in Call |-> <<>>]

Move(c, from, to) == phase[c] \in from /\ phase' = [phase EXCEPT ![c] = to]

Ring(c) == Move(c, {"none"}, "ringing") /\ UNCHANGED <<talked, records>>

Answer(c) ==
  /\ Move(c, {"ringing"}, "connected")
  /\ talked' = [talked EXCEPT ![c] = TRUE]
  /\ UNCHANGED records

End(c) == Move(c, {"ringing", "connected"}, "ended") /\ UNCHANGED <<talked, records>>

Record(c, why) ==
  /\ phase[c] = "ended"
  /\ records[c] = <<>>
  /\ why = "completed" => talked[c]
  /\ records' = [records EXCEPT ![c] = <<[why |-> why, talked |-> talked[c]]>>]
  /\ UNCHANGED <<phase, talked>>

(* The state of ended calls is kept for a while only; several may go at once. *)
Forget ==
  /\ \E C \in SUBSET {c \in Call : phase[c] = "ended"} :
       phase' = [c \in Call |-> IF c \in C THEN "gone" ELSE phase[c]]
  /\ UNCHANGED <<talked, records>>

Next ==
  \/ Forget
  \/ \E c \in Call : Ring(c) \/ Answer(c) \/ End(c) \/ \E why \in Reason : Record(c, why)

Spec == Init /\ [][Next]_lifecycleVars
=============================================================================
