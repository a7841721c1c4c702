------------------------------ MODULE Friends ------------------------------
(***************************************************************************)
(* Friendships and friend applications of the User service.                *)
(*                                                                         *)
(* A friendship is two rows of user_friend, one for each direction, and a  *)
(* unique index refuses a second row of one direction.  An application     *)
(* that is accepted writes its status and both rows in one transaction;    *)
(* the direct path of NewFriendApply passes FriendDAO.DB() for the         *)
(* transaction, so its two rows are two statements of their own.           *)
(***************************************************************************)
EXTENDS Naturals, FiniteSets

CONSTANTS
  FriendHandler,      \* handler goroutines of the User service
  Person,             \* users
  FriendApply,        \* ids of friend_apply records
  NoApply,            \* no record
  MaxFriendRequests,  \* bound: requests in a behaviour
  MaxFriendFaults     \* bound: requests cut short in a behaviour

ASSUME FriendsAssumption ==
  /\ NoApply \notin FriendApply
  /\ MaxFriendRequests \in Nat
  /\ MaxFriendFaults \in Nat

VARIABLES
  friends,       \* rows of user_friend, as <<user_id, friend_id>>
  applies,       \* friend_apply records
  asking,        \* what each handler is doing
  torn,          \* directions whose direct add was cut short or deleted halfway
  honoured,      \* records that made a friendship
  contested,     \* records that two requests were answering at once
  friendRequests, friendFaults

friendHistory == <<torn, honoured, contested>>
friendVars == <<friends, applies, asking, friendHistory, friendRequests, friendFaults>>

Pairs == {pair \in Person \X Person : pair[1] # pair[2]}
Back(pair) == <<pair[2], pair[1]>>
Unsent == [status |-> "none", pair |-> <<>>]
Waiting == [at |-> "idle", pair |-> <<>>, apply |-> NoApply]

ApplyRecord == [status : {"pending", "accepted", "rejected"}, pair : Pairs]
AskingRecord == [at : {"first", "second", "file", "accept", "reject", "delete"}, pair : Pairs,
                 apply : FriendApply \union {NoApply}]

FriendTypeOK ==
  /\ friends \subseteq Pairs
  /\ applies \in [FriendApply -> {Unsent} \union ApplyRecord]
  /\ asking \in [FriendHandler -> {Waiting} \union AskingRecord]
  /\ torn \subseteq Pairs
  /\ honoured \subseteq FriendApply /\ contested \subseteq FriendApply
  /\ friendRequests \in 0..MaxFriendRequests /\ friendFaults \in 0..MaxFriendFaults

FriendInit ==
  /\ friends = {}
  /\ applies = [a \in FriendApply |-> Unsent]
  /\ asking = [h \in FriendHandler |-> Waiting]
  /\ torn = {} /\ honoured = {} /\ contested = {}
  /\ friendRequests = 0 /\ friendFaults = 0

StartAsking(h, at, pair, a) ==
  /\ asking[h] = Waiting
  /\ friendRequests < MaxFriendRequests
  /\ friendRequests' = friendRequests + 1
  /\ asking' = [asking EXCEPT ![h] = [at |-> at, pair |-> pair, apply |-> a]]
  /\ UNCHANGED <<friends, applies, torn, honoured, friendFaults>>

StopAsking(h) == asking' = [asking EXCEPT ![h] = Waiting]

(***************************************************************************)
(* NewFriendApply                                                          *)
(***************************************************************************)
\* The other side accepts anyone.
AddDirectly(h, pair) ==
  /\ pair \notin friends
  /\ StartAsking(h, "first", pair, NoApply)
  /\ UNCHANGED contested

\* The other side wants to be asked, and has not been yet.
AskFriend(h, pair, a) ==
  /\ pair \notin friends
  /\ \A b \in FriendApply : ~ (applies[b].status = "pending" /\ applies[b].pair = pair)
  /\ applies[a] = Unsent
  /\ \A g \in FriendHandler : asking[g].apply # a
  /\ StartAsking(h, "file", pair, a)
  /\ UNCHANGED contested

FileApply(h) ==
  /\ asking[h].at = "file"
  /\ applies' = [applies EXCEPT ![asking[h].apply] = [status |-> "pending",
                                                      pair |-> asking[h].pair]]
  /\ StopAsking(h)
  /\ UNCHANGED <<friends, friendHistory, friendRequests, friendFaults>>

\* InsertFriendTx outside a transaction: a row that exists already ends the
\* request with an error and undoes nothing.
InsertFirst(h) ==
  LET pair == asking[h].pair IN
  /\ asking[h].at = "first"
  /\ friends' = friends \union {pair}
  /\ IF pair \in friends THEN StopAsking(h)
                         ELSE asking' = [asking EXCEPT ![h].at = "second"]
  /\ UNCHANGED <<applies, friendHistory, friendRequests, friendFaults>>

\* Mutant: the second statement repeats the first.
InsertSame(h) ==
  /\ asking[h].at = "second"
  /\ friends' = friends \union {asking[h].pair}
  /\ StopAsking(h)
  /\ UNCHANGED <<applies, friendHistory, friendRequests, friendFaults>>

InsertSecond(h) ==
  /\ asking[h].at = "second"
  /\ friends' = friends \union {Back(asking[h].pair)}
  /\ StopAsking(h)
  /\ UNCHANGED <<applies, friendHistory, friendRequests, friendFaults>>

(***************************************************************************)
(* HandleFriendApply, DeleteFriend, failures                               *)
(***************************************************************************)
\* Mutant: an application may be answered again.
HandleAnswered(h, a, answer) ==
  /\ applies[a] # Unsent
  /\ StartAsking(h, answer, applies[a].pair, a)
  /\ contested' = IF \E g \in FriendHandler : asking[g].apply = a
                    THEN contested \union {a} ELSE contested

HandleFriendApply(h, a, answer) ==
  /\ applies[a].status = "pending"
  /\ StartAsking(h, answer, applies[a].pair, a)
  /\ contested' = IF \E g \in FriendHandler : asking[g].apply = a
                    THEN contested \union {a} ELSE contested

\* The transaction updates the record whatever its status has become, and
\* rolls back as a whole when a row of the friendship exists already.
AnswerTx(h) ==
  LET a == asking[h].apply
      pair == asking[h].pair
      both == {pair, Back(pair)}
      duplicate == asking[h].at = "accept" /\ both \intersect friends # {} IN
  /\ asking[h].at \in {"accept", "reject"}
  /\ StopAsking(h)
  /\ IF duplicate
       THEN UNCHANGED <<applies, friends, honoured>>
       ELSE /\ applies' = [applies EXCEPT ![a].status =
                             IF asking[h].at = "accept" THEN "accepted" ELSE "rejected"]
            /\ IF asking[h].at = "accept"
                 THEN friends' = friends \union both /\ honoured' = honoured \union {a}
                 ELSE UNCHANGED <<friends, honoured>>
  /\ UNCHANGED <<torn, contested, friendRequests, friendFaults>>

DeleteFriend(h, pair) ==
  /\ pair \in friends
  /\ StartAsking(h, "delete", pair, NoApply)
  /\ UNCHANGED contested

DeleteTx(h) ==
  LET both == {asking[h].pair, Back(asking[h].pair)} IN
  /\ asking[h].at = "delete"
  /\ friends' = friends \ both
  /\ torn' = torn \union {asking[g].pair : g \in {f \in FriendHandler :
                            asking[f].at = "second" /\ asking[f].pair \in both}}
  /\ StopAsking(h)
  /\ UNCHANGED <<applies, honoured, contested, friendRequests, friendFaults>>

\* A database error, a cancelled call or the death of the process ends a request.
AskingFails(h) ==
  /\ asking[h] # Waiting
  /\ friendFaults < MaxFriendFaults
  /\ friendFaults' = friendFaults + 1
  /\ torn' = IF asking[h].at = "second" THEN torn \union {asking[h].pair} ELSE torn
  /\ StopAsking(h)
  /\ UNCHANGED <<friends, applies, honoured, contested, friendRequests>>

FriendNext ==
  \E h \in FriendHandler :
    \/ \E pair \in Pairs :
         \/ AddDirectly(h, pair) \/ DeleteFriend(h, pair)
         \/ \E a \in FriendApply : AskFriend(h, pair, a)
    \/ \E a \in FriendApply, answer \in {"accept", "reject"} : HandleFriendApply(h, a, answer)
    \/ FileApply(h) \/ InsertFirst(h) \/ InsertSecond(h)
    \/ AnswerTx(h) \/ DeleteTx(h) \/ AskingFails(h)

FriendSpec == FriendInit /\ [][FriendNext]_friendVars

(***************************************************************************)
(* Properties                                                              *)
(***************************************************************************)
\* A friendship has both rows, except while a direct add is between its two
\* statements, and after one was cut short or overtaken by a deletion there
\* (dao/friend.go InsertFriendTx, friend_apply.go NewFriendApply).
FriendsAreMutual ==
  \A pair \in friends :
    \/ Back(pair) \in friends
    \/ {pair, Back(pair)} \intersect torn # {}
    \/ \E h \in FriendHandler : asking[h].at = "second" /\ asking[h].pair = pair

\* An accepted application made the friendship and a rejected one did not,
\* unless two requests were answering it at once (friend_apply.go
\* HandleFriendApply reads the pending status outside its transaction).
FriendAnswerStands ==
  \A a \in FriendApply :
    /\ applies[a].status = "accepted" => a \in honoured
    /\ applies[a].status = "rejected" /\ a \in honoured => a \in contested
=============================================================================
