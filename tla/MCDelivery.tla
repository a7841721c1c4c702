------------------------------- MODULE MCDelivery -------------------------------
(***************************************************************************)
(* The two parts that serve a user who is online, a user's connections and *)
(* a session's summary, checked in one run.  They share no state: the      *)
(* first state chooses the part that takes steps and the other one stays   *)
(* as it is, so the states are the sum of the parts', not their product.   *)
(***************************************************************************)
EXTENDS Connections, SessionSummary

CONSTANTS n1, n2, c1, c2, i1, i2

VARIABLE focus  \* the part that takes steps

DeliveryInit == focus \in {"connections", "summary"} /\ Init /\ SumInit

DeliveryNext ==
    \/ focus = "connections" /\ Next /\ UNCHANGED <<focus, sumVars>>
    \/ focus = "summary" /\ SumNext /\ UNCHANGED <<focus, vars>>

\* The steps Fairness asks for are disabled while there is no connection, and
\* those SumFairness asks for while there is no message: a part at rest owes none.
DeliverySpec ==
    /\ DeliveryInit /\ [][DeliveryNext]_<<focus, vars, sumVars>>
    /\ Fairness /\ SumFairness

\* Every part's variables keep their types.
DeliveryTypeOK == TypeOK /\ SumTypeOK
================================================================================
