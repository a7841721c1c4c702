-------------------------- MODULE MCMessagePipeline --------------------------
(* Instances of MessagePipeline for TLC. *)
EXTENDS MessagePipeline, TLC

CONSTANTS i1, i2, s1, s2, m1, m2, m3

OneSession  == [m \in Msg |-> s1]
TwoSessions == [m \in Msg |-> IF m = m3 THEN s2 ELSE s1]
Nodes       == [i \in Inst |-> IF i = i1 THEN 1 ELSE 2]

\* A bound: one crash and one failed call, two failed calls, or a re-created consumer.
TroublesApart == crashes + faults + 2 * rebuilds <= 2
=============================================================================
