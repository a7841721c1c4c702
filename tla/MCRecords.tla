------------------------------- MODULE MCRecords -------------------------------
(***************************************************************************)
(* The records the services keep in MySQL, MongoDB and Redis, checked in   *)
(* one run.  The five parts share no state: the first state chooses the    *)
(* part that takes steps and the others stay as they are, so the states    *)
(* are the sum of the parts', not their product.                           *)
(*                                                                         *)
(* Every part has two actors, h1 and h2, in its sets and nowhere else, and *)
(* the properties are invariants: the actors may be exchanged.             *)
(***************************************************************************)
EXTENDS IdSegments, SessionKeys, MessageLog, Groups, Friends, TLC

CONSTANTS h1, h2, k1, k2, k3, u1, u2, p1, p2, owner

Interchangeable == Permutations({h1, h2})

VARIABLE focus  \* the part that takes steps

RecordsInit ==
    /\ focus \in {"ids", "keys", "log", "groups", "friends"}
    /\ IdInit /\ SkInit /\ LogInit /\ GroupsInit /\ FriendInit

RecordsNext ==
    /\ UNCHANGED focus
    /\ \/ /\ focus = "ids" /\ IdNext
          /\ UNCHANGED <<skVars, logVars, groupsVars, friendVars>>
       \/ /\ focus = "keys" /\ SkNext
          /\ UNCHANGED <<idVars, logVars, groupsVars, friendVars>>
       \/ /\ focus = "log" /\ LogNext
          /\ UNCHANGED <<idVars, skVars, groupsVars, friendVars>>
       \/ /\ focus = "groups" /\ GroupsNext
          /\ UNCHANGED <<idVars, skVars, logVars, friendVars>>
       \/ /\ focus = "friends" /\ FriendNext
          /\ UNCHANGED <<idVars, skVars, logVars, groupsVars>>

RecordsSpec ==
    RecordsInit /\ [][RecordsNext]_<<focus, idVars, skVars, logVars, groupsVars, friendVars>>

\* Every part's variables keep their types.
RecordsTypeOK == IdTypeOK /\ SkTypeOK /\ LogTypeOK /\ GroupsTypeOK /\ FriendTypeOK
================================================================================
