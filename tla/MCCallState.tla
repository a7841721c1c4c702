------------------------------ MODULE MCCallState ------------------------------
(* Instances of CallState for TLC. *)
EXTENDS CallState, TLC

CONSTANTS a, b, d, w1, w2, x, y

(* x: a calls b; y: d calls b, or b calls a where there is no d *)
Callers == [c \in Call |-> IF c = x THEN a ELSE IF d \in User THEN d ELSE b]
Callees == [c \in Call |-> IF c = x \/ d \in User THEN b ELSE a]
=============================================================================
