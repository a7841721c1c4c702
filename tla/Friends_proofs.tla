---------------------------- MODULE Friends_proofs ----------------------------
(***************************************************************************)
(* Theorems about Friends, for any number of users, handlers, applications *)
(* and requests.                                                           *)
(***************************************************************************)
EXTENDS Friends, TLAPS

Answering(h, a) == asking[h].at \in {"accept", "reject"} /\ asking[h].apply = a

(* The first statement's row is there, or its deletion has been noted.     *)
SecondFollowsFirst ==
  \A h \in FriendHandler :
    asking[h].at = "second" => asking[h].pair \in friends \union torn

(* A record is new until it is filed, and answered only then.              *)
FiledOnce ==
  /\ \A h \in FriendHandler :
       asking[h].at = "file" => /\ asking[h].apply \in FriendApply
                                /\ applies[asking[h].apply] = Unsent
  /\ \A g, h \in FriendHandler :
       asking[g].at = "file" /\ asking[h].at = "file" /\ g # h => asking[g].apply # asking[h].apply
  /\ \A h \in FriendHandler :
       asking[h].at \in {"accept", "reject"} => /\ asking[h].apply \in FriendApply
                                                /\ applies[asking[h].apply] # Unsent
  /\ \A a \in honoured : applies[a].status \in {"accepted", "rejected"}

(* Whoever answers a record that has made a friendship, or that another    *)
(* handler answers too, is known to contest it.                            *)
ContestKnown ==
  \A h \in FriendHandler, a \in FriendApply : Answering(h, a) =>
    /\ a \in honoured => a \in contested
    /\ \A g \in FriendHandler : Answering(g, a) /\ g # h => a \in contested

FriendInv ==
  /\ FriendTypeOK /\ FriendsAreMutual /\ FriendAnswerStands
  /\ SecondFollowsFirst /\ FiledOnce /\ ContestKnown

LEMMA FriendInitInv == FriendInit => FriendInv
  BY FriendsAssumption
  DEF FriendInit, FriendInv, FriendTypeOK, FriendsAreMutual, FriendAnswerStands,
      SecondFollowsFirst, FiledOnce, ContestKnown, Answering, Waiting, Unsent

LEMMA PairFacts ==
  ASSUME NEW pair \in Pairs
  PROVE  Back(pair) \in Pairs /\ Back(Back(pair)) = pair
  BY DEF Pairs, Back

(* A handler that starts a request which files and answers nothing. *)
LEMMA StartPlain ==
  ASSUME FriendInv, NEW h \in FriendHandler, NEW pair \in Pairs,
         NEW at \in {"first", "delete"},
         StartAsking(h, at, pair, NoApply), UNCHANGED contested
  PROVE  FriendInv'
  <1> DEFINE new == [at |-> at, pair |-> pair, apply |-> NoApply]
  <1>1. new \in AskingRecord /\ asking' = [asking EXCEPT ![h] = new] /\ asking[h] = Waiting
    BY DEF AskingRecord, StartAsking
  <1>2. FriendTypeOK'
    BY <1>1, FriendsAssumption DEF FriendInv, FriendTypeOK, StartAsking
  <1>3. /\ asking'[h] = new
        /\ \A g \in FriendHandler \ {h} : asking'[g] = asking[g]
    BY <1>1 DEF FriendInv, FriendTypeOK
  <1>4. FriendsAreMutual'
    BY <1>1, <1>3 DEF FriendInv, FriendsAreMutual, StartAsking, Waiting
  <1>5. FriendAnswerStands'
    BY DEF FriendInv, FriendAnswerStands, StartAsking
  <1>6. SecondFollowsFirst'
    BY <1>3 DEF FriendInv, SecondFollowsFirst, StartAsking
  <1>7. FiledOnce'
    BY <1>3 DEF FriendInv, FiledOnce, StartAsking
  <1>8. ContestKnown'
    BY <1>3 DEF FriendInv, ContestKnown, Answering, StartAsking
  <1> QED
    BY <1>2, <1>4, <1>5, <1>6, <1>7, <1>8 DEF FriendInv

(* A handler that has done its last step, in general. *)
LEMMA StopFacts ==
  ASSUME FriendTypeOK, NEW h \in FriendHandler, StopAsking(h)
  PROVE  /\ asking' \in [FriendHandler -> {Waiting} \union AskingRecord]
         /\ asking'[h] = Waiting
         /\ \A g \in FriendHandler \ {h} : asking'[g] = asking[g]
         /\ \A g \in FriendHandler, at \in {"first", "second", "file", "accept", "reject"} :
              asking'[g].at = at => g # h /\ asking'[g] = asking[g]
         /\ \A g \in FriendHandler, a \in FriendApply : Answering(g, a)' => g # h /\ Answering(g, a)
  BY DEF FriendTypeOK, StopAsking, Waiting, Answering

LEMMA FriendStepInv == FriendInv /\ [FriendNext]_friendVars => FriendInv'
  <1> SUFFICES ASSUME FriendInv, [FriendNext]_friendVars PROVE FriendInv'
    OBVIOUS
  <1>t. FriendTypeOK
    BY DEF FriendInv
  <1> USE DEF friendHistory
  <1>0. CASE UNCHANGED friendVars
    BY <1>0
    DEF friendVars, FriendInv, FriendTypeOK, FriendsAreMutual, FriendAnswerStands,
        SecondFollowsFirst, FiledOnce, ContestKnown, Answering
  <1>1. ASSUME NEW h \in FriendHandler, NEW pair \in Pairs,
               AddDirectly(h, pair) \/ DeleteFriend(h, pair)
        PROVE  FriendInv'
    BY <1>1, StartPlain DEF AddDirectly, DeleteFriend
  <1>2. ASSUME NEW h \in FriendHandler, NEW pair \in Pairs, NEW a \in FriendApply,
               AskFriend(h, pair, a)
        PROVE  FriendInv'
    <2> DEFINE new == [at |-> "file", pair |-> pair, apply |-> a]
    <2>1. new \in AskingRecord /\ asking' = [asking EXCEPT ![h] = new] /\ asking[h] = Waiting
      BY <1>2 DEF AskingRecord, StartAsking, AskFriend
    <2>2. FriendTypeOK'
      BY <1>2, <1>t, <2>1, FriendsAssumption DEF FriendTypeOK, StartAsking, AskFriend
    <2>3. asking'[h] = new /\ \A g \in FriendHandler \ {h} : asking'[g] = asking[g]
      BY <2>1, <1>t DEF FriendTypeOK
    <2>4. FriendsAreMutual' /\ FriendAnswerStands' /\ SecondFollowsFirst'
      BY <1>2, <2>1, <2>3
      DEF FriendInv, FriendsAreMutual, FriendAnswerStands, SecondFollowsFirst, StartAsking,
          AskFriend, Waiting
    <2>5. FiledOnce'
      BY <1>2, <2>3 DEF FriendInv, FiledOnce, StartAsking, AskFriend
    <2>6. ContestKnown'
      BY <1>2, <2>3 DEF FriendInv, ContestKnown, Answering, StartAsking, AskFriend
    <2> QED
      BY <2>2, <2>4, <2>5, <2>6 DEF FriendInv
  <1>3. ASSUME NEW h \in FriendHandler, FileApply(h) PROVE FriendInv'
    <2> DEFINE a == asking[h].apply
               new == [status |-> "pending", pair |-> asking[h].pair]
    <2>1. asking[h] \in AskingRecord /\ asking[h].at = "file"
      BY <1>3, <1>t DEF FileApply, FriendTypeOK, Waiting
    <2>2. a \in FriendApply /\ applies[a] = Unsent /\ new \in ApplyRecord
      BY <2>1 DEF FriendInv, FiledOnce, AskingRecord, ApplyRecord
    <2>3. applies' = [applies EXCEPT ![a] = new] /\ StopAsking(h)
      BY <1>3 DEF FileApply
    <2>4. FriendTypeOK'
      BY <1>3, <1>t, <2>2, <2>3, StopFacts DEF FileApply, FriendTypeOK
    <2>5. FriendsAreMutual' /\ SecondFollowsFirst'
      BY <1>3, <1>t, <2>1, <2>3, StopFacts
      DEF FileApply, FriendInv, FriendsAreMutual, SecondFollowsFirst
    <2>6. a \notin honoured
      BY <2>2 DEF FriendInv, FiledOnce, Unsent
    <2>7. /\ \A b \in FriendApply \ {a} : applies'[b] = applies[b]
          /\ applies'[a].status = "pending" /\ applies'[a] # Unsent
      BY <2>2, <2>3, <1>t DEF FriendTypeOK, Unsent
    <2>8. FriendAnswerStands'
      BY <1>3, <2>7 DEF FileApply, FriendInv, FriendAnswerStands
    <2>9. FiledOnce'
      <3>1. \A g \in FriendHandler : g # h /\ asking[g].at = "file" => asking[g].apply # a
        BY <2>1 DEF FriendInv, FiledOnce
      <3> QED
        BY <1>3, <1>t, <2>3, <2>6, <2>7, <3>1, StopFacts DEF FileApply, FriendInv, FiledOnce,
           FriendTypeOK
    <2>10. ContestKnown'
      BY <1>3, <1>t, <2>3, StopFacts DEF FileApply, FriendInv, ContestKnown
    <2> QED
      BY <2>4, <2>5, <2>8, <2>9, <2>10 DEF FriendInv
  <1>4. ASSUME NEW h \in FriendHandler, InsertFirst(h) PROVE FriendInv'
    <2> DEFINE pair == asking[h].pair
               next == [asking[h] EXCEPT !.at = "second"]
    <2>1. asking[h] \in AskingRecord /\ pair \in Pairs /\ friends' = friends \union {pair}
      BY <1>4, <1>t DEF InsertFirst, FriendTypeOK, Waiting, AskingRecord
    <2>2. CASE pair \in friends
      BY <1>4, <1>t, <2>1, <2>2, StopFacts
      DEF InsertFirst, FriendInv, FriendTypeOK, FriendsAreMutual, FriendAnswerStands,
          SecondFollowsFirst, FiledOnce, ContestKnown
    <2>3. CASE pair \notin friends
      <3>1. /\ asking' = [asking EXCEPT ![h] = next] /\ next \in AskingRecord
            /\ next.at = "second" /\ next.pair = pair
        BY <1>4, <2>1, <2>3 DEF InsertFirst, AskingRecord
      <3> HIDE DEF next
      <3>2. asking'[h] = next /\ \A g \in FriendHandler \ {h} : asking'[g] = asking[g]
        BY <3>1, <1>t DEF FriendTypeOK
      <3>3. FriendTypeOK'
        BY <1>4, <1>t, <2>1, <3>1 DEF InsertFirst, FriendTypeOK
      <3>4. FriendsAreMutual' /\ SecondFollowsFirst'
        BY <1>4, <2>1, <3>1, <3>2 DEF InsertFirst, FriendInv, FriendsAreMutual, SecondFollowsFirst
      <3>5. FriendAnswerStands' /\ FiledOnce' /\ ContestKnown'
        BY <1>4, <3>1, <3>2
        DEF InsertFirst, FriendInv, FriendAnswerStands, FiledOnce, ContestKnown, Answering
      <3> QED
        BY <3>3, <3>4, <3>5 DEF FriendInv
    <2> QED
      BY <2>2, <2>3
  <1>5. ASSUME NEW h \in FriendHandler, InsertSecond(h) PROVE FriendInv'
    <2> DEFINE pair == asking[h].pair
    <2>1. asking[h] \in AskingRecord /\ pair \in Pairs /\ pair \in friends \union torn
      BY <1>5, <1>t DEF InsertSecond, FriendTypeOK, Waiting, AskingRecord, FriendInv,
                        SecondFollowsFirst
    <2>2. Back(pair) \in Pairs /\ Back(Back(pair)) = pair
      BY <2>1, PairFacts
    <2>3. FriendTypeOK'
      BY <1>5, <1>t, <2>2, StopFacts DEF InsertSecond, FriendTypeOK
    <2>4. FriendsAreMutual'
      <3> SUFFICES ASSUME NEW p \in friends' PROVE
              \/ Back(p) \in friends'
              \/ {p, Back(p)} \intersect torn' # {}
              \/ \E g \in FriendHandler : asking'[g].at = "second" /\ asking'[g].pair = p
        BY DEF FriendsAreMutual
      <3>1. CASE p = Back(pair)
        BY <1>5, <2>1, <2>2, <3>1 DEF InsertSecond
      <3>2. CASE p = pair
        BY <1>5, <3>2 DEF InsertSecond
      <3>3. CASE p # pair /\ p \in friends
        BY <1>5, <1>t, <3>3, StopFacts DEF InsertSecond, FriendInv, FriendsAreMutual
      <3> QED
        BY <1>5, <3>1, <3>2, <3>3 DEF InsertSecond
    <2>5. SecondFollowsFirst' /\ FriendAnswerStands' /\ FiledOnce' /\ ContestKnown'
      BY <1>5, <1>t, StopFacts
      DEF InsertSecond, FriendInv, FriendAnswerStands, SecondFollowsFirst, FiledOnce, ContestKnown
    <2> QED
      BY <2>3, <2>4, <2>5 DEF FriendInv
  <1>6. ASSUME NEW h \in FriendHandler, NEW a \in FriendApply, NEW answer \in {"accept", "reject"},
               HandleFriendApply(h, a, answer)
        PROVE  FriendInv'
    <2> DEFINE new == [at |-> answer, pair |-> applies[a].pair, apply |-> a]
    <2>1. /\ asking[h] = Waiting /\ asking' = [asking EXCEPT ![h] = new]
          /\ applies[a].status = "pending" /\ new \in AskingRecord
      BY <1>6, <1>t
      DEF HandleFriendApply, StartAsking, FriendTypeOK, Unsent, ApplyRecord, AskingRecord
    <2>2. asking'[h] = new /\ \A g \in FriendHandler \ {h} : asking'[g] = asking[g]
      BY <2>1, <1>t DEF FriendTypeOK
    <2>3. /\ contested \subseteq contested' /\ contested' \subseteq FriendApply
          /\ (\E g \in FriendHandler : asking[g].apply = a) => a \in contested'
      BY <1>6, <1>t DEF HandleFriendApply, FriendTypeOK
    <2>4. FriendTypeOK'
      BY <1>6, <1>t, <2>1, <2>3, FriendsAssumption DEF HandleFriendApply, StartAsking, FriendTypeOK
    <2>5. FriendsAreMutual' /\ SecondFollowsFirst' /\ FriendAnswerStands'
      BY <1>6, <2>1, <2>2, <2>3
      DEF HandleFriendApply, StartAsking, FriendInv, FriendsAreMutual, SecondFollowsFirst,
          FriendAnswerStands, Waiting
    <2>6. FiledOnce'
      BY <1>6, <2>1, <2>2 DEF HandleFriendApply, StartAsking, FriendInv, FiledOnce, Unsent
    <2>7. ContestKnown'
      <3>1. a \notin honoured
        BY <2>1 DEF FriendInv, FiledOnce
      <3> QED
        BY <1>6, <2>2, <2>3, <3>1
        DEF HandleFriendApply, StartAsking, FriendInv, ContestKnown, Answering
    <2> QED
      BY <2>4, <2>5, <2>6, <2>7 DEF FriendInv
  <1>7. ASSUME NEW h \in FriendHandler, AnswerTx(h) PROVE FriendInv'
    <2> DEFINE a == asking[h].apply
               pair == asking[h].pair
               both == {pair, Back(pair)}
               status == IF asking[h].at = "accept" THEN "accepted" ELSE "rejected"
    <2>1. /\ asking[h] \in AskingRecord /\ asking[h].at \in {"accept", "reject"}
          /\ pair \in Pairs /\ a \in FriendApply /\ applies[a] # Unsent
      BY <1>7, <1>t DEF AnswerTx, FriendTypeOK, Waiting, AskingRecord, FriendInv, FiledOnce
    <2>2. applies[a] \in ApplyRecord /\ [applies[a] EXCEPT !.status = status] \in ApplyRecord
      BY <2>1, <1>t DEF FriendTypeOK, ApplyRecord
    <2>3. Back(pair) \in Pairs /\ Back(Back(pair)) = pair
      BY <2>1, PairFacts
    <2>4. StopAsking(h) /\ Answering(h, a)
      BY <1>7, <2>1 DEF AnswerTx, Answering
    <2>5. CASE UNCHANGED <<applies, friends, honoured>>
      BY <1>7, <1>t, <2>4, <2>5, StopFacts
      DEF AnswerTx, FriendInv, FriendTypeOK, FriendsAreMutual, FriendAnswerStands,
          SecondFollowsFirst, FiledOnce, ContestKnown
    <2>6. ASSUME applies' = [applies EXCEPT ![a].status = status],
                 \/ /\ asking[h].at = "accept"
                    /\ friends' = friends \union both /\ honoured' = honoured \union {a}
                 \/ asking[h].at = "reject" /\ UNCHANGED <<friends, honoured>>
          PROVE  FriendInv'
      <3>1. /\ applies' \in [FriendApply -> {Unsent} \union ApplyRecord]
            /\ \A b \in FriendApply \ {a} : applies'[b] = applies[b]
            /\ applies'[a].status = status /\ applies'[a] # Unsent
        BY <2>1, <2>2, <2>6, <1>t DEF FriendTypeOK, Unsent, ApplyRecord
      <3>2. FriendTypeOK'
        BY <1>7, <1>t, <2>1, <2>3, <2>4, <2>6, <3>1, StopFacts DEF AnswerTx, FriendTypeOK
      <3>3. FriendsAreMutual' /\ SecondFollowsFirst'
        BY <1>7, <1>t, <2>1, <2>3, <2>4, <2>6, StopFacts
        DEF AnswerTx, FriendInv, FriendsAreMutual, SecondFollowsFirst
      <3>4. FriendAnswerStands'
        <4>1. a \in honoured => a \in contested
          BY <2>1, <2>4 DEF FriendInv, ContestKnown
        <4>2. \A b \in FriendApply \ {a} : b \in honoured' <=> b \in honoured
          BY <2>6
        <4>3. /\ applies'[a].status = "accepted" => a \in honoured'
              /\ applies'[a].status = "rejected" /\ a \in honoured' => a \in contested
          BY <2>1, <2>6, <3>1, <4>1
        <4> QED
          BY <1>7, <3>1, <4>2, <4>3 DEF AnswerTx, FriendInv, FriendAnswerStands
      <3>5. FiledOnce'
        <4>1. \A g \in FriendHandler : asking[g].at = "file" => asking[g].apply # a
          BY <2>1 DEF FriendInv, FiledOnce
        <4>2. \A b \in honoured' : applies'[b].status \in {"accepted", "rejected"}
          BY <1>t, <2>1, <2>6, <3>1 DEF FriendInv, FiledOnce, FriendTypeOK
        <4> QED
          BY <1>t, <2>4, <3>1, <4>1, <4>2, StopFacts DEF FriendInv, FiledOnce, FriendTypeOK
      <3>6. ContestKnown'
        <4>1. \A g \in FriendHandler : Answering(g, a) /\ g # h => a \in contested
          BY <2>1, <2>4 DEF FriendInv, ContestKnown
        <4>2. \A b \in FriendApply \ {a} : b \in honoured' <=> b \in honoured
          BY <2>6
        <4> QED
          BY <1>7, <1>t, <2>4, <4>1, <4>2, StopFacts DEF AnswerTx, FriendInv, ContestKnown
      <3> QED
        BY <3>2, <3>3, <3>4, <3>5, <3>6 DEF FriendInv
    <2> QED
      BY <1>7, <2>1, <2>5, <2>6 DEF AnswerTx
  <1>8. ASSUME NEW h \in FriendHandler, DeleteTx(h) PROVE FriendInv'
    <2> DEFINE both == {asking[h].pair, Back(asking[h].pair)}
    <2>1. asking[h] \in AskingRecord /\ asking[h].pair \in Pairs /\ asking[h].at = "delete"
      BY <1>8, <1>t DEF DeleteTx, FriendTypeOK, Waiting, AskingRecord
    <2>2. \A g \in FriendHandler : asking[g].at = "second" => asking[g].pair \in Pairs
      BY <1>t DEF FriendTypeOK, Waiting, AskingRecord
    <2>3. /\ torn \subseteq torn' /\ torn' \subseteq Pairs
          /\ \A g \in FriendHandler :
               asking[g].at = "second" /\ asking[g].pair \in both => asking[g].pair \in torn'
      BY <1>8, <1>t, <2>2 DEF DeleteTx, FriendTypeOK
    <2>4. FriendTypeOK'
      BY <1>8, <1>t, <2>3, StopFacts DEF DeleteTx, FriendTypeOK
    <2>5. FriendsAreMutual'
      <3> SUFFICES ASSUME NEW p \in friends' PROVE
              \/ Back(p) \in friends'
              \/ {p, Back(p)} \intersect torn' # {}
              \/ \E g \in FriendHandler : asking'[g].at = "second" /\ asking'[g].pair = p
        BY DEF FriendsAreMutual
      <3>1. p \in friends /\ p \notin both /\ p \in Pairs
        BY <1>8, <1>t DEF DeleteTx, FriendTypeOK
      <3>2. Back(p) \notin both
        BY <2>1, <3>1, PairFacts
      <3>3. CASE Back(p) \in friends
        BY <1>8, <3>2, <3>3 DEF DeleteTx
      <3>4. CASE {p, Back(p)} \intersect torn # {}
        BY <2>3, <3>4
      <3>5. CASE \E g \in FriendHandler : asking[g].at = "second" /\ asking[g].pair = p
        BY <1>8, <1>t, <2>1, <3>5, StopFacts DEF DeleteTx
      <3> QED
        BY <3>1, <3>3, <3>4, <3>5 DEF FriendInv, FriendsAreMutual
    <2>6. SecondFollowsFirst'
      BY <1>8, <1>t, <2>3, StopFacts DEF DeleteTx, FriendInv, SecondFollowsFirst
    <2>7. FriendAnswerStands' /\ FiledOnce' /\ ContestKnown'
      BY <1>8, <1>t, StopFacts DEF DeleteTx, FriendInv, FriendAnswerStands, FiledOnce, ContestKnown
    <2> QED
      BY <2>4, <2>5, <2>6, <2>7 DEF FriendInv
  <1>9. ASSUME NEW h \in FriendHandler, AskingFails(h) PROVE FriendInv'
    <2>1. /\ torn \subseteq torn' /\ torn' \subseteq Pairs
          /\ asking[h].at = "second" => asking[h].pair \in torn'
      BY <1>9, <1>t DEF AskingFails, FriendTypeOK, Waiting, AskingRecord
    <2>2. FriendTypeOK'
      BY <1>9, <1>t, <2>1, StopFacts, FriendsAssumption DEF AskingFails, FriendTypeOK
    <2>3. FriendsAreMutual' /\ SecondFollowsFirst'
      BY <1>9, <1>t, <2>1, StopFacts
      DEF AskingFails, FriendInv, FriendsAreMutual, SecondFollowsFirst
    <2>4. FriendAnswerStands' /\ FiledOnce' /\ ContestKnown'
      BY <1>9, <1>t, StopFacts
      DEF AskingFails, FriendInv, FriendAnswerStands, FiledOnce, ContestKnown
    <2> QED
      BY <2>2, <2>3, <2>4 DEF FriendInv
  <1> QED
    BY <1>0, <1>1, <1>2, <1>3, <1>4, <1>5, <1>6, <1>7, <1>8, <1>9 DEF FriendNext

(* A friendship is never one-sided, but for a direct add between its two   *)
(* statements, cut short there, or overtaken there by a deletion.          *)
THEOREM FriendshipsMutual == FriendSpec => []FriendsAreMutual
  <1>1. FriendInv => FriendsAreMutual
    BY DEF FriendInv
  <1> QED
    BY <1>1, FriendInitInv, FriendStepInv, PTL DEF FriendSpec

(* The status of an application tells whether it made a friendship, unless *)
(* two requests were answering it at once.                                 *)
THEOREM AnswersStand == FriendSpec => []FriendAnswerStands
  <1>1. FriendInv => FriendAnswerStands
    BY DEF FriendInv
  <1> QED
    BY <1>1, FriendInitInv, FriendStepInv, PTL DEF FriendSpec
================================================================================
