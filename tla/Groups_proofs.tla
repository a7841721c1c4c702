---------------------------- MODULE Groups_proofs ----------------------------
(***************************************************************************)
(* Theorems about Groups, for any users, handlers and records and any      *)
(* number of requests: of a user whose requests never overlapped and whose *)
(* checks never failed, one row at most; of a record that was answered     *)
(* once, an answer that stands; as long as a single call fails, a member   *)
(* set that is the members of the database whenever nothing is under way,  *)
(* but for the users it has strayed about since it last expired; and, as   *)
(* long as requests about one user do not overlap and nothing else is      *)
(* known to break it, a member count that is the number of member rows.    *)
(***************************************************************************)
EXTENDS Groups, FiniteSetTheorems, SequenceTheorems, WellFoundedInduction, TLAPS

(***************************************************************************)
(* What a handler may be doing                                             *)
(***************************************************************************)
Fits(r) ==
  /\ r.op = "none" <=> r.at = "idle"
  /\ r.op = "create" => r.at \in {"store", "route", "publish"} /\ ~r.behind
  /\ r.op \in {"ask", "update"} => r.at = "store"
  /\ r.op = "answer" => r.at \in {"store", "admit", "insert", "route", "replace", "publish"}
  /\ r.op = "join" => r.at \in {"insert", "route", "replace", "publish"}
  /\ r.op \in {"leave", "kick", "dismiss"} => r.at \in {"store", "route", "publish"}
  /\ r.op = "sync" => r.at = "route"
  /\ r.petition # NoPetition <=> r.op \in {"ask", "answer"}
  /\ r.op = "create" \/ r.at = "replace" => r.seen \subseteq Member
  /\ r.op = "update" => r.seen # {} /\ r.seen \subseteq Int

Ops == {"none", "create", "ask", "answer", "join", "leave", "kick", "dismiss", "update", "sync"}
Ats == {"idle", "store", "admit", "insert", "route", "replace", "publish"}

Request == [op : Ops, user : Member, petition : Petition \union {NoPetition}, at : Ats,
            seen : SUBSET (Member \union Int), behind : BOOLEAN]
Record == [status : {"none", "pending", "accepted", "rejected"}, user : Member, invite : BOOLEAN]
NoticeSet == [op : {"CREATE", "JOIN", "LEAVE", "DISMISS"}, users : SUBSET Member,
              behind : BOOLEAN]

Typed ==
  /\ rows \in [Member -> Nat]
  /\ groupRow \in {"none", "up", "dismissed"}
  /\ memberCount \in Int /\ groupCache \subseteq Int
  /\ petitions \in [Petition -> Record]
  /\ route \subseteq Member
  /\ events \in Seq(NoticeSet) /\ again \subseteq NoticeSet
  /\ request \in [GroupHandler -> Request]
  /\ \A h \in GroupHandler : Fits(request[h])
  /\ groupRequests \in Nat /\ groupFaults \in 0..MaxGroupFaults

(* Nothing is there before the group is created, and one handler alone     *)
(* creates it.                                                             *)
NothingYet ==
  /\ \A h \in GroupHandler :
       request[h].op = "create" /\ request[h].at = "store" => groupRow = "none"
  /\ groupRow = "none" =>
       /\ rows = [m \in Member |-> 0] /\ groupCache = {} /\ route = {}
       /\ events = <<>> /\ again = {}
       /\ \A p \in Petition : petitions[p].status = "none"
       /\ \A h \in GroupHandler : Busy(h) => request[h].op = "create" /\ request[h].at = "store"
       /\ \A g, h \in GroupHandler : Busy(g) /\ Busy(h) => g = h

ShapeInv == Typed /\ NothingYet

(***************************************************************************)
(* What the helpers do to the requests                                     *)
(***************************************************************************)
Others(h) == \A g \in GroupHandler \ {h} : request'[g] = request[g]

Went(h, at) ==
  /\ Others(h)
  /\ request'[h].at = at
  /\ request'[h].op = request[h].op /\ request'[h].user = request[h].user
  /\ request'[h].petition = request[h].petition /\ request'[h].behind = request[h].behind

Ended(h) == Others(h) /\ request'[h] = Free

LEMMA FreeIsTyped == Free \in Request /\ Fits(Free)
  BY GroupsAssumption DEF Free, Request, Fits, Ops, Ats, Member

LEMMA RequestTyped ==
  ASSUME Typed, NEW h \in GroupHandler
  PROVE  request[h] \in Request /\ Fits(request[h])
  BY DEF Typed

LEMMA UpdateFacts ==
  ASSUME Typed, NEW h \in GroupHandler, NEW r \in Request, Fits(r),
         request' = [request EXCEPT ![h] = r]
  PROVE  /\ request' \in [GroupHandler -> Request]
         /\ \A g \in GroupHandler : Fits(request'[g])
         /\ request'[h] = r /\ Others(h)
  BY DEF Typed, Others

LEMMA GotoFacts ==
  ASSUME Typed, NEW h \in GroupHandler, NEW at \in Ats, Goto(h, at),
         Fits([request[h] EXCEPT !.at = at])
  PROVE  /\ request' \in [GroupHandler -> Request]
         /\ \A g \in GroupHandler : Fits(request'[g])
         /\ request'[h].seen = request[h].seen
         /\ Went(h, at)
  <1> DEFINE r == [request[h] EXCEPT !.at = at]
  <1>1. request[h] \in Request
    BY RequestTyped
  <1>2. /\ r \in Request /\ r.at = at /\ r.seen = request[h].seen
        /\ r.op = request[h].op /\ r.user = request[h].user
        /\ r.petition = request[h].petition /\ r.behind = request[h].behind
    BY <1>1 DEF Request
  <1>3. request' = [request EXCEPT ![h] = r]
    BY DEF Goto
  <1>4. Fits(r)
    OBVIOUS
  <1> HIDE DEF r
  <1> QED
    BY <1>2, <1>3, <1>4, UpdateFacts DEF Went

LEMMA DoneFacts ==
  ASSUME Typed, NEW h \in GroupHandler, Done(h)
  PROVE  /\ request' \in [GroupHandler -> Request]
         /\ \A g \in GroupHandler : Fits(request'[g])
         /\ Ended(h)
  BY FreeIsTyped, UpdateFacts DEF Done, Ended

(* Which handler is where, by the fields that are read. *)
LEMMA FitsFacts ==
  ASSUME NEW r \in Request, NEW at \in Ats, Fits(r),
         \/ r.op = "create" /\ at \in {"store", "route", "publish"}
         \/ r.op = "answer" /\ at \in {"store", "admit", "insert", "route", "publish"}
         \/ r.op = "join" /\ at \in {"insert", "route", "publish"}
         \/ r.op \in {"leave", "kick", "dismiss"} /\ at \in {"store", "route", "publish"}
  PROVE  Fits([r EXCEPT !.at = at])
  <1>1. /\ [r EXCEPT !.at = at].op = r.op /\ [r EXCEPT !.at = at].at = at
        /\ [r EXCEPT !.at = at].behind = r.behind /\ [r EXCEPT !.at = at].petition = r.petition
        /\ [r EXCEPT !.at = at].seen = r.seen
    BY DEF Request
  <1> HIDE DEF Request
  <1> QED
    BY <1>1 DEF Fits

(* A new request. *)
Began(h, op, u, at) ==
  /\ request[h].at = "idle"
  /\ Others(h)
  /\ request'[h].op = op /\ request'[h].user = u /\ request'[h].at = at

LEMMA BeginFacts ==
  ASSUME Typed, NEW h \in GroupHandler, NEW u \in Member, NEW op, NEW at,
         \/ op = "join" /\ at = "insert"
         \/ op \in {"leave", "kick", "dismiss"} /\ at = "store"
         \/ op = "sync" /\ at = "route",
         Begin(h, op, u, at)
  PROVE  /\ request' \in [GroupHandler -> Request]
         /\ \A g \in GroupHandler : Fits(request'[g])
         /\ Began(h, op, u, at) /\ request'[h].petition = NoPetition
         /\ \A m \in Member : (m = u \/ op = "dismiss") /\ NoticesOf(m) # {} => request'[h].behind
         /\ \A m \in Member : (m = u \/ op = "dismiss") /\ (m \notin crossed' \/ m \notin strayed')
              => \A g \in GroupHandler : ~Concerns(g, m)
         /\ crossed \subseteq crossed' /\ strayed \subseteq strayed'
         /\ groupRequests' \in Nat
  <1> DEFINE users == IF op = "dismiss" THEN Member ELSE {u}
             B == \E m \in users : NoticesOf(m) # {}
             r == [Free EXCEPT !.op = op, !.user = u, !.at = at, !.behind = B]
  <1>1. /\ request[h].at = "idle" /\ groupRequests' = groupRequests + 1
        /\ request' = [request EXCEPT ![h] = r]
        /\ crossed' = crossed \union {m \in users : \E g \in GroupHandler : Concerns(g, m)}
        /\ strayed' = strayed \union {m \in users : \E g \in GroupHandler : Concerns(g, m)}
    BY DEF Begin, Begins, Busy
  <1>2. B \in BOOLEAN
    OBVIOUS
  <1>3. \A m \in Member : (m = u \/ op = "dismiss") => m \in users
    OBVIOUS
  <1>4. \A m \in Member : (m = u \/ op = "dismiss") /\ NoticesOf(m) # {} => B
    <2> HIDE DEF users
    <2> QED
      BY <1>3, Zenon
  <1>5. \A m \in Member : (m = u \/ op = "dismiss") /\ (m \notin crossed' \/ m \notin strayed')
              => \A g \in GroupHandler : ~Concerns(g, m)
    <2> HIDE DEF users
    <2>1. {m \in users : \E g \in GroupHandler : Concerns(g, m)} \subseteq crossed' \cap strayed'
      BY <1>1
    <2>2. ASSUME NEW m \in Member, m \in users, NEW g \in GroupHandler, Concerns(g, m)
          PROVE  m \in crossed' /\ m \in strayed'
      BY <2>1, <2>2, Zenon
    <2> QED
      BY <1>3, <2>2
  <1> HIDE DEF B, users
  <1>7. op \in Ops /\ at \in Ats
    BY DEF Ops, Ats
  <1>8. r \in Request
    BY <1>2, <1>7, FreeIsTyped DEF Request
  <1>9. /\ r.op = op /\ r.user = u /\ r.at = at /\ r.petition = NoPetition /\ r.behind = B
        /\ r.seen = {}
    BY DEF Free
  <1> HIDE DEF r
  <1>10. Fits(r)
    BY <1>9 DEF Fits
  <1>11. groupRequests' \in Nat
    BY <1>1 DEF Typed
  <1>12. /\ request' \in [GroupHandler -> Request]
         /\ \A g \in GroupHandler : Fits(request'[g])
         /\ request'[h] = r /\ Others(h)
    BY <1>1, <1>8, <1>10, UpdateFacts
  <1> QED
    BY <1>1, <1>4, <1>5, <1>9, <1>11, <1>12 DEF Began

LEMMA CreateFacts ==
  ASSUME Typed, NEW h \in GroupHandler, NEW listed \in SUBSET Member, CreateGroup(h, listed)
  PROVE  /\ request' \in [GroupHandler -> Request]
         /\ \A g \in GroupHandler : Fits(request'[g])
         /\ Began(h, "create", Owner, "store")
         /\ groupRequests' \in Nat
  <1> DEFINE r == [Free EXCEPT !.op = "create", !.at = "store", !.seen = listed]
  <1>1. r \in Request /\ Fits(r) /\ r.op = "create" /\ r.user = Owner /\ r.at = "store"
    <2>1. r \in Request
      BY FreeIsTyped DEF Request, Ops, Ats, Member
    <2>2. /\ r.op = "create" /\ r.user = Owner /\ r.at = "store" /\ r.behind = FALSE
          /\ r.petition = NoPetition /\ r.seen = listed
      BY DEF Free
    <2> HIDE DEF r
    <2> QED
      BY <2>1, <2>2 DEF Fits
  <1>2. request' = [request EXCEPT ![h] = r] /\ request[h].at = "idle"
        /\ groupRequests' = groupRequests + 1
    BY DEF CreateGroup, Begins, Busy
  <1> HIDE DEF r
  <1>3. /\ request' \in [GroupHandler -> Request]
        /\ \A g \in GroupHandler : Fits(request'[g])
        /\ request'[h] = r /\ Others(h)
    BY <1>1, <1>2, UpdateFacts
  <1> QED
    BY <1>1, <1>2, <1>3 DEF Began, Typed

LEMMA AskFacts ==
  ASSUME Typed, NEW h \in GroupHandler, NEW u \in GroupUser, NEW invite \in BOOLEAN,
         AskToJoin(h, u, invite)
  PROVE  /\ request' \in [GroupHandler -> Request]
         /\ \A g \in GroupHandler : Fits(request'[g])
         /\ Began(h, "ask", u, "store")
         /\ groupRequests' \in Nat
         /\ request'[h].petition \in Petition
         /\ petitions[request'[h].petition].status = "none"
         /\ \A g \in GroupHandler : request[g].petition # request'[h].petition
  <1>1. PICK p \in Petition :
          /\ petitions[p].status = "none"
          /\ \A g \in GroupHandler : request[g].petition # p
          /\ Begins(h)
          /\ request' = [request EXCEPT ![h] =
               [Free EXCEPT !.op = "ask", !.user = u, !.petition = p, !.at = "store",
                            !.seen = IF invite THEN {Owner} ELSE {}]]
    BY DEF AskToJoin
  <1> DEFINE r == [Free EXCEPT !.op = "ask", !.user = u, !.petition = p, !.at = "store",
                               !.seen = IF invite THEN {Owner} ELSE {}]
  <1>2. r \in Request /\ Fits(r) /\ r.op = "ask" /\ r.user = u /\ r.at = "store" /\ r.petition = p
    <2>1. r \in Request
      BY FreeIsTyped DEF Request, Ops, Ats, Member
    <2>2. /\ r.op = "ask" /\ r.user = u /\ r.at = "store" /\ r.behind = FALSE /\ r.petition = p
      BY DEF Free
    <2> HIDE DEF r
    <2> QED
      BY <2>1, <2>2, GroupsAssumption DEF Fits
  <1> HIDE DEF r
  <1>3. request' = [request EXCEPT ![h] = r]
    BY <1>1 DEF r
  <1>4. /\ request' \in [GroupHandler -> Request]
        /\ \A g \in GroupHandler : Fits(request'[g])
        /\ request'[h] = r /\ Others(h)
    BY <1>2, <1>3, UpdateFacts
  <1>5. request[h].at = "idle" /\ groupRequests' \in Nat
    BY <1>1 DEF Begins, Busy, Typed
  <1> QED
    BY <1>1, <1>2, <1>4, <1>5 DEF Began

LEMMA AnswerFacts ==
  ASSUME Typed, NEW h \in GroupHandler, NEW p \in Petition, NEW accept \in BOOLEAN,
         AnswerPetition(h, p, accept)
  PROVE  /\ request' \in [GroupHandler -> Request]
         /\ \A g \in GroupHandler : Fits(request'[g])
         /\ Began(h, "answer", petitions[p].user, "store")
         /\ petitions[p].user \in Member
         /\ groupRequests' \in Nat
         /\ request'[h].petition = p
         /\ NoticesOf(petitions[p].user) # {} => request'[h].behind
         /\ crossed \subseteq crossed' /\ strayed \subseteq strayed'
         /\ petitions[p].user \notin crossed' \/ petitions[p].user \notin strayed'
              => \A g \in GroupHandler : ~Concerns(g, petitions[p].user)
  <1> DEFINE u == petitions[p].user
             B == NoticesOf(u) # {}
             r == [Free EXCEPT !.op = "answer", !.user = u, !.petition = p, !.at = "store",
                               !.seen = IF accept THEN {u} ELSE {}, !.behind = B]
  <1>1. /\ request[h].at = "idle" /\ groupRequests' = groupRequests + 1
        /\ request' = [request EXCEPT ![h] = r]
        /\ crossed' = crossed \union {m \in {u} : \E g \in GroupHandler : Concerns(g, m)}
        /\ strayed' = strayed \union {m \in {u} : \E g \in GroupHandler : Concerns(g, m)}
    BY DEF AnswerPetition, Begins, Busy
  <1>2. u \in Member
    BY DEF Typed, Record
  <1>3. B \in BOOLEAN
    OBVIOUS
  <1>4. r \in Request /\ Fits(r) /\ r.op = "answer" /\ r.user = u /\ r.at = "store"
        /\ r.petition = p /\ r.behind = B
    <2> HIDE DEF u, B
    <2>1. r \in Request
      BY <1>2, <1>3, FreeIsTyped DEF Request, Ops, Ats
    <2>2. /\ r.op = "answer" /\ r.user = u /\ r.at = "store" /\ r.behind = B /\ r.petition = p
      BY DEF Free
    <2> HIDE DEF r
    <2> QED
      BY <2>1, <2>2, GroupsAssumption DEF Fits
  <1> HIDE DEF r
  <1>5. /\ request' \in [GroupHandler -> Request]
        /\ \A g \in GroupHandler : Fits(request'[g])
        /\ request'[h] = r /\ Others(h)
    BY <1>1, <1>4, UpdateFacts
  <1>6. groupRequests' \in Nat
    BY <1>1 DEF Typed
  <1>7. /\ crossed \subseteq crossed' /\ strayed \subseteq strayed'
        /\ u \notin crossed' \/ u \notin strayed' => \A g \in GroupHandler : ~Concerns(g, u)
    <2> HIDE DEF u
    <2> QED
      BY <1>1
  <1> QED
    BY <1>1, <1>2, <1>4, <1>5, <1>6, <1>7 DEF Began

LEMMA UpdateGroupFacts ==
  ASSUME Typed, NEW h \in GroupHandler, UpdateGroup(h)
  PROVE  /\ request' \in [GroupHandler -> Request]
         /\ \A g \in GroupHandler : Fits(request'[g])
         /\ Began(h, "update", Owner, "store") /\ request'[h].petition = NoPetition
         /\ groupRequests' \in Nat
         /\ FoundGroup \subseteq Int
  <1> DEFINE r == [Free EXCEPT !.op = "update", !.at = "store", !.seen = FoundGroup]
  <1>1. FoundGroup \subseteq Int
    BY DEF FoundGroup, Typed
  <1>2. /\ r \in Request /\ Fits(r) /\ r.op = "update" /\ r.user = Owner /\ r.at = "store"
        /\ r.petition = NoPetition
    <2>1. r \in Request
      BY <1>1, FreeIsTyped DEF Request, Ops, Ats, Member
    <2>3. r.seen = FoundGroup /\ FoundGroup # {}
      BY DEF UpdateGroup
    <2>2. /\ r.op = "update" /\ r.user = Owner /\ r.at = "store" /\ r.behind = FALSE
          /\ r.petition = NoPetition
      BY DEF Free
    <2> HIDE DEF r
    <2> QED
      BY <1>1, <2>1, <2>2, <2>3 DEF Fits
  <1>3. request' = [request EXCEPT ![h] = r] /\ request[h].at = "idle"
        /\ groupRequests' = groupRequests + 1
    BY DEF UpdateGroup, Begins, Busy
  <1> HIDE DEF r
  <1>4. /\ request' \in [GroupHandler -> Request]
        /\ \A g \in GroupHandler : Fits(request'[g])
        /\ request'[h] = r /\ Others(h)
    BY <1>2, <1>3, UpdateFacts
  <1> QED
    BY <1>1, <1>2, <1>3, <1>4 DEF Began, Typed

(* What the steps of a request under way make of it. *)
LEMMA AtFacts ==
  ASSUME Typed, NEW h \in GroupHandler
  PROVE  /\ request[h].at = "admit" => request[h].op = "answer"
         /\ request[h].at \in {"insert", "replace"} => request[h].op \in {"join", "answer"}
         /\ request[h].at = "publish" => request[h].op \in {"create", "join", "answer", "leave", "kick", "dismiss"}
         /\ request[h].at = "route" => request[h].op \in {"create", "join", "answer", "leave", "kick", "dismiss", "sync"}
         /\ request[h].op \in {"ask", "update"} => request[h].at = "store"
         /\ request[h].op = "ask" \/ request[h].op = "answer" => request[h].petition \in Petition
  BY RequestTyped DEF Fits, Request, Ops

LEMMA WentFacts ==
  ASSUME Typed, NEW h \in GroupHandler, NEW at \in Ats, Goto(h, at),
         \/ request[h].op = "create" /\ at \in {"store", "route", "publish"}
         \/ request[h].op = "answer" /\ at \in {"store", "admit", "insert", "route", "publish"}
         \/ request[h].op = "join" /\ at \in {"insert", "route", "publish"}
         \/ request[h].op \in {"leave", "kick", "dismiss"} /\ at \in {"store", "route", "publish"}
  PROVE  /\ request' \in [GroupHandler -> Request]
         /\ \A g \in GroupHandler : Fits(request'[g])
         /\ request'[h].seen = request[h].seen
         /\ Went(h, at)
  BY RequestTyped, FitsFacts, GotoFacts

RowStep(h) == StoreGroup(h) \/ InsertMember(h) \/ DeleteMember(h) \/ DeleteGroup(h)

LEMMA RowStepGoes ==
  ASSUME Typed, NEW h \in GroupHandler, RowStep(h)
  PROVE  /\ request' \in [GroupHandler -> Request]
         /\ \A g \in GroupHandler : Fits(request'[g])
         /\ request'[h].seen = request[h].seen
         /\ Went(h, "route")
  <1>1. Goto(h, "route")
    BY DEF RowStep, StoreGroup, InsertMember, DeleteMember, DeleteGroup
  <1>2. request[h].op \in {"create", "answer", "join", "leave", "kick", "dismiss"}
    BY AtFacts DEF RowStep, StoreGroup, InsertMember, DeleteMember, DeleteGroup
  <1> QED
    BY <1>1, <1>2, WentFacts DEF Ats

LEMMA AfterRouteGoes ==
  ASSUME Typed, NEW h \in GroupHandler, AfterRoute(h), request[h].at \in {"route", "replace"}
  PROVE  /\ request' \in [GroupHandler -> Request]
         /\ \A g \in GroupHandler : Fits(request'[g])
         /\ \/ request[h].op = "sync" /\ Ended(h)
            \/ request[h].op # "sync" /\ Went(h, "publish") /\ request'[h].seen = request[h].seen
  <1>1. CASE request[h].op = "sync"
    BY <1>1, DoneFacts DEF AfterRoute
  <1>2. CASE request[h].op # "sync"
    <2>1. Goto(h, "publish")
      BY <1>2 DEF AfterRoute
    <2>2. request[h].op \in {"create", "join", "answer", "leave", "kick", "dismiss"}
      BY <1>2, AtFacts
    <2> QED
      BY <1>2, <2>1, <2>2, WentFacts DEF Ats
  <1> QED
    BY <1>1, <1>2

LEMMA WriteRouteGoes ==
  ASSUME Typed, NEW h \in GroupHandler, WriteRoute(h)
  PROVE  /\ request' \in [GroupHandler -> Request]
         /\ \A g \in GroupHandler : Fits(request'[g])
         /\ \/ /\ request[h].op \in {"join", "answer"} /\ route = {}
               /\ Went(h, "replace") /\ request'[h].seen = Joined
            \/ request[h].op = "sync" /\ Ended(h)
            \/ /\ request[h].op # "sync"
               /\ request[h].op \in {"join", "answer"} => route # {}
               /\ Went(h, "publish") /\ request'[h].seen = request[h].seen
  <1>1. CASE request[h].op \in {"join", "answer"} /\ route = {}
    <2> DEFINE r == [request[h] EXCEPT !.at = "replace", !.seen = Joined]
    <2>1. request' = [request EXCEPT ![h].at = "replace", ![h].seen = Joined]
      BY <1>1 DEF WriteRoute
    <2>2. request' = [request EXCEPT ![h] = r] /\ request[h] \in Request /\ Fits(request[h])
      BY <2>1, RequestTyped DEF Typed
    <2>3. Joined \subseteq Member
      BY DEF Joined
    <2>4. /\ r \in Request /\ r.at = "replace" /\ r.seen = Joined
          /\ r.op = request[h].op /\ r.user = request[h].user
          /\ r.petition = request[h].petition /\ r.behind = request[h].behind
      BY <2>2, <2>3 DEF Request, Ats
    <2> HIDE DEF r
    <2>5. Fits(r)
      BY <1>1, <2>2, <2>3, <2>4 DEF Fits
    <2>6. /\ request' \in [GroupHandler -> Request]
          /\ \A g \in GroupHandler : Fits(request'[g])
          /\ request'[h] = r /\ Others(h)
      BY <2>2, <2>4, <2>5, UpdateFacts
    <2> QED
      BY <1>1, <2>4, <2>6 DEF Went
  <1>2. CASE ~(request[h].op \in {"join", "answer"} /\ route = {})
    <2>1. AfterRoute(h) /\ request[h].at = "route"
      BY <1>2 DEF WriteRoute
    <2> QED
      BY <1>2, <2>1, AfterRouteGoes
  <1> QED
    BY <1>1, <1>2

LEMMA ReplaceRouteGoes ==
  ASSUME Typed, NEW h \in GroupHandler, ReplaceRoute(h)
  PROVE  /\ request' \in [GroupHandler -> Request]
         /\ \A g \in GroupHandler : Fits(request'[g])
         /\ request'[h].seen = request[h].seen
         /\ Went(h, "publish")
  <1>1. Goto(h, "publish") /\ request[h].op \in {"join", "answer"}
    BY AtFacts DEF ReplaceRoute
  <1> QED
    BY <1>1, WentFacts DEF Ats

(* The check for a member fails for a member only, who is remembered, and  *)
(* changes nothing else.                                                   *)
LEMMA FoundFacts ==
  ASSUME Typed, NEW u, FoundNoMember(u)
  PROVE  /\ rows[u] = 0 \/ u \in unchecked'
         /\ unchecked \subseteq unchecked' /\ unchecked' \subseteq unchecked \union {u}
         /\ groupFaults' \in 0..MaxGroupFaults /\ groupFaults <= groupFaults'
  BY GroupsAssumption DEF Typed, FoundNoMember, GroupFault

LEMMA AskFaultFacts ==
  ASSUME Typed, NEW h \in GroupHandler, NEW u, NEW invite, AskToJoin(h, u, invite)
  PROVE  groupFaults' \in 0..MaxGroupFaults /\ groupFaults <= groupFaults'
  <1>1. GroupFault \/ UNCHANGED groupFaults
    BY DEF AskToJoin
  <1> QED
    BY <1>1, GroupsAssumption DEF Typed, GroupFault

LEMMA AdmitFacts ==
  ASSUME Typed, NEW h \in GroupHandler, AdmitUser(h)
  PROVE  /\ Done(h) \/ (Goto(h, "insert")
                       /\ (rows[request[h].user] = 0 \/ request[h].user \in unchecked'))
         /\ unchecked \subseteq unchecked'
         /\ unchecked' \subseteq unchecked \union {request[h].user}
         /\ groupFaults' \in 0..MaxGroupFaults /\ groupFaults <= groupFaults'
         /\ UNCHANGED <<rows, groupRow, memberCount, petitions, noticeVars, crossed, strayed,
                        miscounted, doubled, groupRequests>>
  <1>1. UNCHANGED <<rows, groupRow, memberCount, petitions, noticeVars, crossed, strayed,
                    miscounted, doubled, groupRequests>>
    BY DEF AdmitUser
  <1>2. \/ Done(h) /\ UNCHANGED <<unchecked, groupFaults>>
        \/ Goto(h, "insert") /\ FoundNoMember(request[h].user)
    BY DEF AdmitUser
  <1>3. CASE Done(h) /\ UNCHANGED <<unchecked, groupFaults>>
    BY <1>1, <1>3, GroupsAssumption DEF Typed
  <1>4. CASE Goto(h, "insert") /\ FoundNoMember(request[h].user)
    BY <1>1, <1>4, FoundFacts
  <1> QED
    BY <1>2, <1>3, <1>4

(* Steps between the first read and the row write. *)
LEMMA AnswerGoes ==
  ASSUME Typed, NEW h \in GroupHandler, UpdatePetition(h) \/ AdmitUser(h)
  PROVE  /\ request' \in [GroupHandler -> Request]
         /\ \A g \in GroupHandler : Fits(request'[g])
         /\ request[h].op = "answer"
         /\ \/ Ended(h)
            \/ request[h].at = "store" /\ Went(h, "admit")
            \/ /\ request[h].at = "admit" /\ Went(h, "insert")
               /\ rows[request[h].user] = 0 \/ request[h].user \in unchecked'
  <1>1. request[h].op = "answer"
    BY AtFacts DEF UpdatePetition, AdmitUser
  <1>2. AdmitUser(h) => request[h].at = "admit"
    BY DEF AdmitUser
  <1>3. \/ Done(h)
        \/ request[h].at = "store" /\ Goto(h, "admit")
        \/ /\ request[h].at = "admit" /\ Goto(h, "insert")
           /\ rows[request[h].user] = 0 \/ request[h].user \in unchecked'
    BY <1>2, AdmitFacts DEF UpdatePetition
  <1>4. CASE Done(h)
    BY <1>1, <1>4, DoneFacts
  <1>5. CASE request[h].at = "store" /\ Goto(h, "admit")
    BY <1>1, <1>5, WentFacts DEF Ats
  <1>6. CASE /\ request[h].at = "admit" /\ Goto(h, "insert")
             /\ rows[request[h].user] = 0 \/ request[h].user \in unchecked'
    BY <1>1, <1>6, WentFacts DEF Ats
  <1> QED
    BY <1>3, <1>4, <1>5, <1>6

LEMMA DoneGoes ==
  ASSUME Typed, NEW h \in GroupHandler,
         InsertPetition(h) \/ SaveGroup(h) \/ PublishNotice(h) \/ PublishFails(h) \/ RequestDies(h)
  PROVE  /\ request' \in [GroupHandler -> Request]
         /\ \A g \in GroupHandler : Fits(request'[g])
         /\ Ended(h) /\ Busy(h)
  <1>1. Done(h)
    BY DEF InsertPetition, SaveGroup, PublishNotice, PublishFails, RequestDies
  <1>2. Busy(h)
    BY AtFacts DEF InsertPetition, SaveGroup, PublishNotice, PublishFails, RequestDies, Busy
  <1> QED
    BY <1>1, <1>2, DoneFacts

(***************************************************************************)
(* Types, and what is there before the group is                            *)
(***************************************************************************)
LEMMA ShapeInit == GroupsInit => ShapeInv
  <1> SUFFICES ASSUME GroupsInit PROVE ShapeInv
    OBVIOUS
  <1>1. \A h \in GroupHandler : request[h] = Free
    BY DEF GroupsInit
  <1>2. request \in [GroupHandler -> Request] /\ \A h \in GroupHandler : Fits(request[h])
    BY <1>1, FreeIsTyped DEF GroupsInit
  <1>3. petitions \in [Petition -> Record]
    BY DEF GroupsInit, NoRecord, Record, Member
  <1>4. events \in Seq(NoticeSet) /\ again \subseteq NoticeSet /\ route \subseteq Member
    BY DEF GroupsInit
  <1>5. Typed
    BY <1>2, <1>3, <1>4, GroupsAssumption DEF GroupsInit, Typed
  <1>6. NothingYet
    BY <1>1 DEF GroupsInit, NothingYet, NoRecord, Busy, Free
  <1> QED
    BY <1>5, <1>6 DEF ShapeInv

LEMMA LaterStays ==
  ASSUME ShapeInv, Typed', groupRow # "none", groupRow' # "none",
         \A h \in GroupHandler :
           request'[h].op = "create" /\ request'[h].at = "store" => request'[h] = request[h]
  PROVE  ShapeInv'
  BY DEF ShapeInv, NothingYet

LEMMA StoredIsLater ==
  ASSUME ShapeInv, NEW h \in GroupHandler, Busy(h),
         request[h].op # "create" \/ request[h].at # "store"
  PROVE  groupRow # "none"
  BY DEF ShapeInv, NothingYet

LEMMA GroupIsLater ==
  ASSUME ShapeInv
  PROVE  /\ FoundGroup \subseteq Int
         /\ FoundGroup # {} => groupRow # "none"
         /\ \A u \in Member : rows[u] > 0 => groupRow # "none"
         /\ \A p \in Petition : petitions[p].status # "none" => groupRow # "none"
         /\ events # <<>> \/ again # {} \/ route # {} \/ groupCache # {} => groupRow # "none"
  <1>1. FoundGroup \subseteq Int
    BY DEF ShapeInv, Typed, FoundGroup
  <1>2. FoundGroup # {} => groupRow # "none"
    BY DEF ShapeInv, NothingYet, FoundGroup
  <1> QED
    BY <1>1, <1>2 DEF ShapeInv, NothingYet

(* A step of a request that is not being created changes no type. *)
LEMMA BeginShape ==
  ASSUME ShapeInv, NEW h \in GroupHandler,
         request' \in [GroupHandler -> Request], \A g \in GroupHandler : Fits(request'[g]),
         Others(h), request'[h].op # "create",
         groupRow # "none", groupCache' \subseteq Int, groupRequests' \in Nat,
         groupFaults' \in 0..MaxGroupFaults,
         UNCHANGED <<rows, groupRow, memberCount, petitions, noticeVars>>
  PROVE  ShapeInv'
  <1>1. Typed'
    BY DEF ShapeInv, Typed, noticeVars
  <1> QED
    BY <1>1, LaterStays DEF Others

LEMMA FaultFacts ==
  ASSUME Typed, GroupFault
  PROVE  groupFaults' \in 0..MaxGroupFaults /\ groupFaults < MaxGroupFaults
         /\ groupFaults' = groupFaults + 1
  BY GroupsAssumption DEF Typed, GroupFault

(* One element less, the others in their order.                            *)
LEMMA RemoveFacts ==
  ASSUME NEW S, NEW s \in Seq(S), NEW i \in 1..Len(s)
  PROVE  /\ RemoveAt(s, i) \in Seq(S) /\ Len(RemoveAt(s, i)) = Len(s) - 1
         /\ \A k \in 1..(Len(s) - 1) : RemoveAt(s, i)[k] = IF k < i THEN s[k] ELSE s[k + 1]
  <1> DEFINE a == SubSeq(s, 1, i - 1)
             b == SubSeq(s, i + 1, Len(s))
  <1>1. Len(s) \in Nat /\ i \in Int /\ 1 <= i /\ i <= Len(s) /\ \A k \in 1..Len(s) : s[k] \in S
    OBVIOUS
  <1>2. /\ a \in Seq(S) /\ Len(a) = i - 1
        /\ \A k \in 1..(i - 1) : a[k] = s[k]
    BY <1>1, SubSeqProperties
  <1>3. /\ b \in Seq(S) /\ Len(b) = Len(s) - i
        /\ \A k \in 1..(Len(s) - i) : b[k] = s[i + k]
    BY <1>1, SubSeqProperties
  <1> HIDE DEF a, b
  <1>4. /\ a \o b \in Seq(S) /\ Len(a \o b) = Len(a) + Len(b)
        /\ \A k \in 1..(Len(a) + Len(b)) :
             (a \o b)[k] = IF k <= Len(a) THEN a[k] ELSE b[k - Len(a)]
    BY <1>2, <1>3, ConcatProperties
  <1>5. RemoveAt(s, i) = a \o b
    BY DEF RemoveAt, a, b
  <1>6. ASSUME NEW k \in 1..(Len(s) - 1)
        PROVE  (a \o b)[k] = IF k < i THEN s[k] ELSE s[k + 1]
    <2>1. CASE k < i
      BY <1>1, <1>2, <1>3, <1>4, <2>1
    <2>2. CASE ~(k < i)
      <3>1. k - (i - 1) \in 1..(Len(s) - i) /\ i + (k - (i - 1)) = k + 1 /\ ~(k <= i - 1)
        BY <1>1, <2>2
      <3>2. (a \o b)[k] = b[k - (i - 1)]
        BY <1>1, <1>2, <1>3, <1>4, <3>1
      <3> QED
        BY <1>3, <2>2, <3>1, <3>2
    <2> QED
      BY <2>1, <2>2
  <1> QED
    BY <1>1, <1>2, <1>3, <1>4, <1>5, <1>6

LEMMA NoticeFacts ==
  ASSUME Typed
  PROVE  /\ \A i \in 1..Len(events) :
              events[i] \in NoticeSet /\ RemoveAt(events, i) \in Seq(NoticeSet)
         /\ \A e \in NoticeSet : Replayed(e) \subseteq Member
  <1>1. \A i \in 1..Len(events) :
          events[i] \in NoticeSet /\ RemoveAt(events, i) \in Seq(NoticeSet)
    BY RemoveFacts DEF Typed
  <1>2. \A e \in NoticeSet : Replayed(e) \subseteq Member
    BY DEF Typed, NoticeSet, Replayed, AddRoute
  <1> QED
    BY <1>1, <1>2

(* The members are finitely many. *)
LEMMA SeenIsFinite == ASSUME NEW S \in SUBSET Member PROVE Cardinality(S) \in Nat
  <1>1. IsFiniteSet(Member)
    BY GroupsAssumption, FS_AddElement, FS_Union, FS_Singleton DEF Member
  <1>2. IsFiniteSet(S)
    BY <1>1, FS_Subset
  <1> QED
    BY <1>2, FS_CardinalityType

(* An update's copy is a count. *)
LEMMA SavedIsACount ==
  ASSUME Typed, NEW h \in GroupHandler, request[h].op = "update"
  PROVE  (CHOOSE n \in request[h].seen : TRUE) \in Int
  BY RequestTyped DEF Fits

LEMMA OwnerIsMember == Owner \in Member /\ GroupUser \subseteq Member
  BY DEF Member

LEMMA PublishedIsNotice ==
  ASSUME Typed, NEW h \in GroupHandler, PublishNotice(h)
  PROVE  events' \in Seq(NoticeSet)
  <1> DEFINE n == CASE request[h].op = "create" -> Notice(h, "CREATE", request[h].seen \union {Owner})
                    [] request[h].op \in {"leave", "kick"} -> Notice(h, "LEAVE", {request[h].user})
                    [] request[h].op = "dismiss" -> Notice(h, "DISMISS", Member)
                    [] OTHER -> Notice(h, "JOIN", {request[h].user})
  <1>1. events' = Append(events, n)
    BY DEF PublishNotice
  <1>2. request[h].behind \in BOOLEAN /\ request[h].user \in Member
    BY RequestTyped DEF Request
  <1>3. request[h].op = "create" => request[h].seen \union {Owner} \subseteq Member
    BY RequestTyped, OwnerIsMember DEF Fits
  <1>4. n \in NoticeSet
    BY <1>2, <1>3 DEF Notice, NoticeSet
  <1> HIDE DEF n
  <1> QED
    BY <1>1, <1>4 DEF Typed

LEMMA ShapeStep == ShapeInv /\ [GroupsNext]_groupsVars => ShapeInv'
  <1> SUFFICES ASSUME ShapeInv, [GroupsNext]_groupsVars PROVE ShapeInv'
    OBVIOUS
  <1>t. Typed /\ NothingYet
    BY DEF ShapeInv
  <1>0. CASE UNCHANGED groupsVars
    BY <1>0 DEF groupsVars, groupVars, noticeVars, historyVars, ShapeInv, Typed, NothingYet, Busy
  (* What is read and checked first. *)
  <1>1. ASSUME NEW h \in GroupHandler, NEW listed \in SUBSET Member, CreateGroup(h, listed)
        PROVE  ShapeInv'
    <2>1. /\ request' \in [GroupHandler -> Request] /\ \A g \in GroupHandler : Fits(request'[g])
          /\ Began(h, "create", Owner, "store") /\ groupRequests' \in Nat
      BY <1>t, <1>1, CreateFacts
    <2>2. Typed'
      BY <1>t, <1>1, <2>1 DEF CreateGroup, Typed, groupVars, noticeVars
    <2>3. NothingYet'
      BY <1>t, <1>1, <2>1 DEF CreateGroup, NothingYet, Began, Others, Busy, groupVars, noticeVars
    <2> QED
      BY <2>2, <2>3 DEF ShapeInv
  <1>2. ASSUME NEW h \in GroupHandler, NEW u \in GroupUser, JoinGroup(h, u) PROVE ShapeInv'
    <2>1. u \in Member /\ Begin(h, "join", u, "insert")
      BY <1>2 DEF JoinGroup, Member
    <2>2. /\ request' \in [GroupHandler -> Request] /\ \A g \in GroupHandler : Fits(request'[g])
          /\ Began(h, "join", u, "insert") /\ groupRequests' \in Nat
      BY <1>t, <2>1, BeginFacts
    <2>3. groupFaults' \in 0..MaxGroupFaults
      BY <1>t, <1>2, FoundFacts DEF JoinGroup
    <2> QED
      BY <1>2, <2>2, <2>3, GroupIsLater, BeginShape DEF JoinGroup, Began, noticeVars
  <1>3. ASSUME NEW h \in GroupHandler, NEW u \in GroupUser, NEW invite \in BOOLEAN,
               AskToJoin(h, u, invite)
        PROVE  ShapeInv'
    <2>1. /\ request' \in [GroupHandler -> Request] /\ \A g \in GroupHandler : Fits(request'[g])
          /\ Began(h, "ask", u, "store") /\ groupRequests' \in Nat
      BY <1>t, <1>3, AskFacts
    <2>2. groupFaults' \in 0..MaxGroupFaults
      BY <1>t, <1>3, AskFaultFacts
    <2> QED
      BY <1>3, <2>1, <2>2, GroupIsLater, BeginShape DEF AskToJoin, Began, noticeVars
  <1>4. ASSUME NEW h \in GroupHandler, NEW u \in Member,
               \/ \E kicked \in BOOLEAN : LeaveGroup(h, u, kicked)
               \/ u = Owner /\ DismissGroup(h)
               \/ GetUserGroupIDs(h, u)
        PROVE  ShapeInv'
    <2>1. \E op, at : /\ Begin(h, op, u, at)
                      /\ \/ op \in {"leave", "kick", "dismiss"} /\ at = "store"
                         \/ op = "sync" /\ at = "route"
      BY <1>4 DEF LeaveGroup, DismissGroup, GetUserGroupIDs
    <2>2. /\ request' \in [GroupHandler -> Request] /\ \A g \in GroupHandler : Fits(request'[g])
          /\ Others(h) /\ request'[h].op # "create" /\ groupRequests' \in Nat
      BY <1>t, <2>1, BeginFacts DEF Began
    <2>3. rows[u] > 0 /\ UNCHANGED <<groupVars, petitions, noticeVars, groupFaults>>
      BY <1>4 DEF LeaveGroup, DismissGroup, GetUserGroupIDs
    <2> QED
      BY <1>t, <2>2, <2>3, GroupIsLater, BeginShape DEF groupVars, noticeVars, Typed
  <1>5. ASSUME NEW h \in GroupHandler, NEW p \in Petition, NEW accept \in BOOLEAN,
               AnswerPetition(h, p, accept)
        PROVE  ShapeInv'
    <2>1. /\ request' \in [GroupHandler -> Request] /\ \A g \in GroupHandler : Fits(request'[g])
          /\ Began(h, "answer", petitions[p].user, "store") /\ groupRequests' \in Nat
      BY <1>t, <1>5, AnswerFacts
    <2>2. groupRow # "none" /\ UNCHANGED <<groupVars, petitions, noticeVars, groupFaults>>
      BY <1>5, GroupIsLater DEF AnswerPetition
    <2> QED
      BY <1>t, <2>1, <2>2, BeginShape DEF Began, groupVars, noticeVars, Typed
  <1>6. ASSUME NEW h \in GroupHandler, UpdateGroup(h) PROVE ShapeInv'
    <2>1. /\ request' \in [GroupHandler -> Request] /\ \A g \in GroupHandler : Fits(request'[g])
          /\ Began(h, "update", Owner, "store") /\ groupRequests' \in Nat
      BY <1>t, <1>6, UpdateGroupFacts
    <2> QED
      BY <1>t, <1>6, <2>1, GroupIsLater, BeginShape DEF UpdateGroup, Began, noticeVars, Typed
  (* The database writes. *)
  <1>7. ASSUME NEW h \in GroupHandler, StoreGroup(h) PROVE ShapeInv'
    <2>1. /\ request' \in [GroupHandler -> Request] /\ \A g \in GroupHandler : Fits(request'[g])
          /\ Went(h, "route")
      BY <1>t, <1>7, RowStepGoes DEF RowStep
    <2>2. rows' \in [Member -> Nat]
      BY <1>7 DEF StoreGroup
    <2>3. request[h].seen \subseteq Member
      BY <1>t, <1>7, RequestTyped DEF StoreGroup, Fits
    <2>4. memberCount' \in Int
      <3>1. memberCount' = 1 + Cardinality(request[h].seen)
        BY <1>7 DEF StoreGroup
      <3> QED
        BY <3>1, <2>3, SeenIsFinite
    <2>5. Typed'
      BY <1>t, <1>7, <2>1, <2>2, <2>4 DEF StoreGroup, Typed, noticeVars
    <2>6. groupRow = "none" /\ groupRow' = "up"
      BY <1>t, <1>7 DEF StoreGroup, NothingYet
    <2>7. \A g \in GroupHandler : ~(request'[g].op = "create" /\ request'[g].at = "store")
      BY <1>t, <1>7, <2>1, <2>6 DEF NothingYet, StoreGroup, Went, Others, Busy
    <2>8. NothingYet'
      BY <2>6, <2>7 DEF NothingYet
    <2> QED
      BY <2>5, <2>8 DEF ShapeInv
  <1>8. ASSUME NEW h \in GroupHandler, InsertPetition(h) PROVE ShapeInv'
    <2>1. /\ request' \in [GroupHandler -> Request] /\ \A g \in GroupHandler : Fits(request'[g])
          /\ Ended(h) /\ Busy(h)
      BY <1>t, <1>8, DoneGoes
    <2>2. petitions' \in [Petition -> Record]
      <3>1. request[h].petition \in Petition /\ request[h].user \in Member
        BY <1>t, <1>8, AtFacts, RequestTyped DEF InsertPetition, Request
      <3>2. [status |-> "pending", user |-> request[h].user, invite |-> request[h].seen # {}] \in Record
        BY <3>1 DEF Record
      <3> QED
        BY <1>t, <1>8, <3>1, <3>2 DEF InsertPetition, Typed
    <2>3. Typed'
      BY <1>t, <1>8, <2>1, <2>2 DEF InsertPetition, Typed, groupVars, noticeVars
    <2>4. groupRow # "none"
      BY <1>8, <2>1, StoredIsLater DEF InsertPetition
    <2> QED
      BY <1>8, <2>1, <2>3, <2>4, LaterStays DEF InsertPetition, groupVars, Ended, Others, Free
  <1>9. ASSUME NEW h \in GroupHandler, UpdatePetition(h) \/ AdmitUser(h) PROVE ShapeInv'
    <2>1. /\ request' \in [GroupHandler -> Request] /\ \A g \in GroupHandler : Fits(request'[g])
          /\ Others(h) /\ request'[h].op \in {"answer", "none"} /\ request[h].op = "answer"
      BY <1>t, <1>9, AnswerGoes DEF Ended, Went, Free
    <2>2. petitions' \in [Petition -> Record]
      <3>1. CASE UpdatePetition(h)
        <4> DEFINE p == request[h].petition
                   s == IF request[h].seen # {} THEN "accepted" ELSE "rejected"
        <4>1. petitions' = [petitions EXCEPT ![p].status = s]
          BY <3>1 DEF UpdatePetition
        <4>2. p \in Petition /\ petitions[p] \in Record
          BY <1>t, <2>1, AtFacts DEF Typed
        <4>3. [petitions[p] EXCEPT !.status = s] \in Record
          BY <4>2 DEF Record
        <4> QED
          BY <1>t, <4>1, <4>2, <4>3 DEF Typed
      <3>2. CASE AdmitUser(h)
        BY <1>t, <3>2, AdmitFacts DEF Typed
      <3> QED
        BY <1>9, <3>1, <3>2
    <2>3. groupCache' \subseteq Int
      BY <1>t, <1>9, GroupIsLater DEF UpdatePetition, AdmitUser, Typed, groupVars
    <2>4. /\ UNCHANGED <<rows, groupRow, memberCount, noticeVars, groupRequests>>
          /\ groupFaults' \in 0..MaxGroupFaults
      BY <1>t, <1>9, AdmitFacts DEF UpdatePetition, groupVars, Typed
    <2>5. Typed'
      BY <1>t, <2>1, <2>2, <2>3, <2>4 DEF Typed, noticeVars
    <2>6. groupRow # "none"
      <3>1. Busy(h)
        BY <1>9 DEF UpdatePetition, AdmitUser, Busy
      <3> QED
        BY <2>1, <3>1, StoredIsLater
    <2> QED
      BY <2>1, <2>4, <2>5, <2>6, LaterStays DEF Others
  <1>10. ASSUME NEW h \in GroupHandler, InsertMember(h) \/ DeleteMember(h) \/ DeleteGroup(h)
         PROVE  ShapeInv'
    <2>1. /\ request' \in [GroupHandler -> Request] /\ \A g \in GroupHandler : Fits(request'[g])
          /\ Went(h, "route")
      BY <1>t, <1>10, RowStepGoes DEF RowStep
    <2>2. request[h].user \in Member /\ rows[request[h].user] \in Nat
      BY <1>t, RequestTyped DEF Typed, Request
    <2>3. rows' \in [Member -> Nat]
      BY <1>t, <1>10, <2>2 DEF InsertMember, DeleteMember, DeleteGroup, Typed
    <2>4. memberCount' \in Int
      BY <1>t, <1>10, <2>2 DEF InsertMember, DeleteMember, DeleteGroup, AddToCount, Typed
    <2>5. groupCache' \subseteq Int
      BY <1>t, <1>10 DEF InsertMember, DeleteMember, DeleteGroup, DropGroupCache, Typed
    <2>6. groupRow' \in {groupRow, "dismissed"}
          /\ UNCHANGED <<petitions, noticeVars, groupRequests, groupFaults>>
      BY <1>10 DEF InsertMember, DeleteMember, DeleteGroup
    <2>7. Typed'
      BY <1>t, <2>1, <2>3, <2>4, <2>5, <2>6 DEF Typed, noticeVars
    <2>8. Busy(h) /\ ~(request[h].op = "create" /\ request[h].at = "store")
      BY <1>10 DEF InsertMember, DeleteMember, DeleteGroup, Busy
    <2>9. groupRow # "none"
      BY <2>8, StoredIsLater
    <2> QED
      BY <2>1, <2>6, <2>7, <2>9, LaterStays DEF Went, Others
  <1>11. ASSUME NEW h \in GroupHandler, SaveGroup(h) PROVE ShapeInv'
    <2>1. /\ request' \in [GroupHandler -> Request] /\ \A g \in GroupHandler : Fits(request'[g])
          /\ Ended(h) /\ Busy(h)
      BY <1>t, <1>11, DoneGoes
    <2>2. memberCount' \in Int /\ groupRow' = "up" /\ groupCache' \subseteq Int
          /\ UNCHANGED <<rows, petitions, noticeVars, groupRequests, groupFaults>>
      <3>1. memberCount' \in Int
        BY <1>t, <1>11, SavedIsACount DEF SaveGroup
      <3> QED
        BY <1>t, <1>11, <3>1 DEF SaveGroup, DropGroupCache, Typed
    <2>3. Typed'
      BY <1>t, <2>1, <2>2 DEF Typed, noticeVars
    <2>4. groupRow # "none"
      BY <1>11, <2>1, StoredIsLater DEF SaveGroup
    <2> QED
      BY <2>1, <2>2, <2>3, <2>4, LaterStays DEF Ended, Others, Free
  (* The routing table and the notice. *)
  <1>12. ASSUME NEW h \in GroupHandler,
                \/ WriteRoute(h) \/ ReplaceRoute(h) \/ RouteFails(h)
                \/ PublishNotice(h) \/ PublishFails(h)
         PROVE  ShapeInv'
    <2>1. /\ request' \in [GroupHandler -> Request] /\ \A g \in GroupHandler : Fits(request'[g])
          /\ Others(h) /\ request'[h].at # "store"
          /\ request[h].at \in {"route", "replace", "publish"}
      <3>1. CASE WriteRoute(h)
        <4>1. Ended(h) \/ Went(h, "replace") \/ Went(h, "publish")
          BY <1>t, <3>1, WriteRouteGoes
        <4>2. /\ request' \in [GroupHandler -> Request]
              /\ \A g \in GroupHandler : Fits(request'[g])
          BY <1>t, <3>1, WriteRouteGoes
        <4>3. request[h].at = "route"
          BY <3>1 DEF WriteRoute
        <4> QED
          BY <4>1, <4>2, <4>3 DEF Went, Ended, Free
      <3>2. CASE ReplaceRoute(h)
        BY <1>t, <3>2, ReplaceRouteGoes DEF ReplaceRoute, Went
      <3>3. CASE RouteFails(h)
        <4>1. AfterRoute(h) /\ request[h].at \in {"route", "replace"}
          BY <3>3 DEF RouteFails
        <4>2. Ended(h) \/ Went(h, "publish")
          BY <1>t, <4>1, AfterRouteGoes
        <4> QED
          BY <1>t, <4>1, <4>2, AfterRouteGoes DEF Went, Ended, Free
      <3>4. CASE PublishNotice(h) \/ PublishFails(h)
        <4>1. /\ request' \in [GroupHandler -> Request]
              /\ \A g \in GroupHandler : Fits(request'[g])
              /\ Ended(h)
          BY <1>t, <3>4, DoneGoes
        <4>2. request[h].at = "publish"
          BY <3>4 DEF PublishNotice, PublishFails
        <4> QED
          BY <4>1, <4>2 DEF Ended, Free
      <3> QED
        BY <1>12, <3>1, <3>2, <3>3, <3>4
    <2>2. UNCHANGED <<groupVars, petitions, again, groupRequests>>
      BY <1>12 DEF WriteRoute, ReplaceRoute, RouteFails, PublishNotice, PublishFails, noticeVars
    <2>3. groupFaults' \in 0..MaxGroupFaults
      BY <1>t, <1>12, FaultFacts DEF WriteRoute, ReplaceRoute, RouteFails, PublishNotice, PublishFails, Typed
    <2>4. route' \subseteq Member
      <3>1. request[h].user \in Member
        BY <1>t, RequestTyped DEF Request
      <3>2. request[h].op = "create" \/ request[h].at = "replace" => request[h].seen \subseteq Member
        BY <1>t, RequestTyped DEF Fits
      <3>3. CASE WriteRoute(h)
        <4>1. \/ request[h].op = "create" /\ route' = request[h].seen \union {Owner}
              \/ route' = route \ {request[h].user}
              \/ route' = {}
              \/ route' = AddRoute({request[h].user})
          BY <3>3 DEF WriteRoute
        <4> QED
          BY <1>t, <3>1, <3>2, <4>1 DEF AddRoute, Typed, Member
      <3>4. CASE ReplaceRoute(h)
        BY <3>2, <3>4 DEF ReplaceRoute
      <3> QED
        BY <1>t, <1>12, <3>3, <3>4 DEF RouteFails, PublishNotice, PublishFails, noticeVars, Typed
    <2>5. events' \in Seq(NoticeSet)
      <3>1. CASE PublishNotice(h)
        BY <1>t, <3>1, PublishedIsNotice
      <3> QED
        BY <1>t, <1>12, <3>1 DEF WriteRoute, ReplaceRoute, RouteFails, PublishFails, noticeVars, Typed
    <2>6. Typed'
      BY <1>t, <2>1, <2>2, <2>3, <2>4, <2>5 DEF Typed, groupVars
    <2>7. groupRow # "none"
      BY <2>1, StoredIsLater DEF Busy
    <2> QED
      BY <2>1, <2>2, <2>6, <2>7, LaterStays DEF Others, groupVars
  <1>13. ASSUME NEW h \in GroupHandler, RequestDies(h) PROVE ShapeInv'
    <2>1. /\ request' \in [GroupHandler -> Request] /\ \A g \in GroupHandler : Fits(request'[g])
          /\ Ended(h) /\ Busy(h)
      BY <1>t, <1>13, DoneGoes
    <2>2. groupFaults' \in 0..MaxGroupFaults
          /\ UNCHANGED <<groupVars, petitions, noticeVars, groupRequests>>
      BY <1>t, <1>13, FaultFacts DEF RequestDies
    <2>3. Typed'
      BY <1>t, <2>1, <2>2 DEF Typed, groupVars, noticeVars
    <2>4. NothingYet'
      <3>1. ~Busy(h)' /\ \A g \in GroupHandler : Busy(g)' => request'[g] = request[g] /\ Busy(g)
        BY <2>1 DEF Ended, Others, Free, Busy
      <3> QED
        BY <1>t, <2>1, <2>2, <3>1 DEF NothingYet, groupVars, noticeVars, Ended, Others, Free
    <2> QED
      BY <2>3, <2>4 DEF ShapeInv
  (* The replay, and keys that expire. *)
  <1>14. ASSUME \/ \E i \in 1..Len(events) : SyncGroupRoute(i) \/ SyncFails(i) \/ AckIsLost(i)
                \/ \E e \in again : SyncAgain(e)
                \/ RouteExpires
         PROVE  ShapeInv'
    <2>1. UNCHANGED <<groupVars, petitions, request, groupRequests>>
      BY <1>14 DEF SyncGroupRoute, SyncFails, AckIsLost, SyncAgain, RouteExpires
    <2>2. groupRow # "none"
      <3>1. (\E i \in 1..Len(events) : TRUE) => events # <<>>
        OBVIOUS
      <3> QED
        BY <1>14, <3>1, GroupIsLater DEF SyncAgain, RouteExpires
    <2>3. route' \subseteq Member
      <3>1. ASSUME NEW i \in 1..Len(events), SyncGroupRoute(i) \/ SyncFails(i) \/ AckIsLost(i)
            PROVE  route' \subseteq Member
        BY <1>t, <3>1, NoticeFacts DEF SyncGroupRoute, SyncFails, AckIsLost, Typed
      <3>3. CASE (\E e \in again : SyncAgain(e)) \/ RouteExpires
        BY <1>t, <3>3, NoticeFacts DEF SyncAgain, RouteExpires, Typed
      <3> QED
        BY <1>14, <3>1, <3>3
    <2>4. events' \in Seq(NoticeSet) /\ again' \subseteq NoticeSet
      <3>1. ASSUME NEW i \in 1..Len(events), SyncGroupRoute(i) \/ SyncFails(i)
            PROVE  events' \in Seq(NoticeSet) /\ again' \subseteq NoticeSet
        BY <1>t, <3>1, NoticeFacts DEF SyncGroupRoute, SyncFails, Typed
      <3>2. ASSUME NEW i \in 1..Len(events), AckIsLost(i)
            PROVE  events' \in Seq(NoticeSet) /\ again' \subseteq NoticeSet
        BY <1>t, <3>2, NoticeFacts DEF AckIsLost, Typed
      <3>3. CASE (\E e \in again : SyncAgain(e)) \/ RouteExpires
        BY <1>t, <3>3, NoticeFacts DEF SyncAgain, RouteExpires, Typed
      <3> QED
        BY <1>14, <3>1, <3>2, <3>3
    <2>5. groupFaults' \in 0..MaxGroupFaults
      BY <1>t, <1>14, FaultFacts DEF SyncGroupRoute, SyncFails, AckIsLost, SyncAgain, RouteExpires, Typed
    <2>6. Typed'
      BY <1>t, <2>1, <2>3, <2>4, <2>5 DEF Typed, groupVars
    <2> QED
      BY <2>1, <2>2, <2>6, LaterStays DEF groupVars
  <1>15. CASE GroupCacheExpires
    <2>1. Typed'
      BY <1>t, <1>15 DEF GroupCacheExpires, Typed, noticeVars
    <2>2. NothingYet'
      BY <1>t, <1>15 DEF GroupCacheExpires, NothingYet, noticeVars, Busy
    <2> QED
      BY <2>1, <2>2 DEF ShapeInv
  <1> QED
    BY <1>0, <1>1, <1>2, <1>3, <1>4, <1>5, <1>6, <1>7, <1>8, <1>9, <1>10, <1>11, <1>12, <1>13,
       <1>14, <1>15, OwnerIsMember
    DEF GroupsNext

(***************************************************************************)
(* Membership                                                              *)
(***************************************************************************)
(* h is to change or to publish u's membership.                            *)
Acts(h, u) ==
  /\ request[h].op \in {"create", "answer", "join", "leave", "kick", "dismiss", "sync"}
  /\ request[h].user = u \/ request[h].op \in {"create", "dismiss"}

(* Nobody else does, until requests overlapped: crossed remembers that for *)
(* good, strayed until the member set expires.                             *)
ActsAlone ==
  \A u \in Member \ (crossed \cap strayed), g, h \in GroupHandler :
    Acts(g, u) /\ Acts(h, u) => g = h

InsertIsFirst ==
  \A h \in GroupHandler :
    request[h].at = "insert" /\ request[h].user \notin crossed \union unchecked
      => rows[request[h].user] = 0

MemberInv == ShapeInv /\ ActsAlone /\ InsertIsFirst /\ MemberOnce

LEMMA ActsFacts ==
  ASSUME Typed
  PROVE  \A h \in GroupHandler :
           /\ \A u \in Member : Acts(h, u) => Concerns(h, u)
           /\ request[h].user \in Member
           /\ request[h].at \in {"insert", "admit", "replace"} => Acts(h, request[h].user)
  <1> SUFFICES ASSUME NEW h \in GroupHandler
               PROVE  /\ \A u \in Member : Acts(h, u) => Concerns(h, u)
                      /\ request[h].user \in Member
                      /\ request[h].at \in {"insert", "admit", "replace"} => Acts(h, request[h].user)
    OBVIOUS
  <1>1. request[h].op # "none" => request[h].at # "idle"
    BY RequestTyped DEF Fits
  <1>2. request[h].user \in Member
    BY RequestTyped DEF Request
  <1> QED
    BY <1>1, <1>2, AtFacts DEF Acts, Concerns, Busy

(* Requests go on as long as nobody's rows change ... *)
LEMMA MemberKept ==
  ASSUME MemberInv, ShapeInv', UNCHANGED rows, crossed \subseteq crossed',
         unchecked \subseteq unchecked',
         strayed \subseteq strayed' \/ \A h \in GroupHandler, u \in Member : ~Acts(h, u),
         \A h \in GroupHandler :
           \/ request'[h] = Free
           \/ /\ request'[h].op = request[h].op /\ request'[h].user = request[h].user
              /\ request'[h].at = "insert" =>
                   \/ request[h].at = "insert" \/ rows[request[h].user] = 0
                   \/ request[h].user \in unchecked'
  PROVE  MemberInv'
  <1>1. Free.op = "none" /\ Free.at = "idle"
    BY DEF Free
  <1>2. ActsAlone'
    <2>1. \A h \in GroupHandler, u \in Member : Acts(h, u)' => Acts(h, u)
      BY <1>1 DEF Acts
    <2> QED
      BY <2>1 DEF MemberInv, ActsAlone
  <1>3. InsertIsFirst'
    BY <1>1 DEF MemberInv, InsertIsFirst
  <1>4. MemberOnce'
    BY DEF MemberInv, MemberOnce
  <1> QED
    BY <1>2, <1>3, <1>4 DEF MemberInv

(* ... and begin alone, or are remembered as crossed. *)
LEMMA MemberBegun ==
  ASSUME MemberInv, ShapeInv', UNCHANGED rows, crossed \subseteq crossed',
         NEW h \in GroupHandler, Others(h),
         unchecked \subseteq unchecked', strayed \subseteq strayed',
         \A m \in Member \ (crossed' \cap strayed') :
           Acts(h, m)' => \A g \in GroupHandler : ~Concerns(g, m),
         request'[h].at = "insert" =>
           rows[request'[h].user] = 0 \/ request'[h].user \in unchecked'
  PROVE  MemberInv'
  <1>1. ActsAlone'
    <2> SUFFICES ASSUME NEW u \in Member \ (crossed' \cap strayed'),
                        NEW f \in GroupHandler, NEW g \in GroupHandler,
                        Acts(f, u)', Acts(g, u)', f # g
                 PROVE  FALSE
      BY DEF ActsAlone
    <2>1. \A i \in GroupHandler \ {h} : Acts(i, u)' => Acts(i, u)
      BY DEF Others, Acts
    <2>2. CASE f # h /\ g # h
      BY <2>1, <2>2 DEF MemberInv, ActsAlone
    <2>3. CASE f = h \/ g = h
      BY <2>1, <2>3, ActsFacts DEF MemberInv, ShapeInv
    <2> QED
      BY <2>2, <2>3
  <1>2. InsertIsFirst'
    BY DEF MemberInv, InsertIsFirst, Others
  <1>3. MemberOnce'
    BY DEF MemberInv, MemberOnce
  <1> QED
    BY <1>1, <1>2, <1>3 DEF MemberInv

(* A row write: its user was nobody else's, or is crossed.                 *)
LEMMA MemberWritten ==
  ASSUME MemberInv, ShapeInv', crossed \subseteq crossed', strayed \subseteq strayed',
         NEW h \in GroupHandler, Others(h), request'[h].op = request[h].op, request'[h].user = request[h].user,
         request'[h].at # "insert",
         \A u \in Member \ (crossed' \union unchecked') :
           rows'[u] # rows[u] => Acts(h, u) /\ rows'[u] <= 1,
         \A u \in (Member \cap unchecked) \ unchecked' : Acts(h, u) /\ rows'[u] = 0
  PROVE  MemberInv'
  <1>1. ActsAlone'
    BY DEF MemberInv, ActsAlone, Acts, Others
  <1>2. InsertIsFirst'
    <2> SUFFICES ASSUME NEW g \in GroupHandler, request'[g].at = "insert",
                        request'[g].user \notin crossed' \union unchecked'
                 PROVE  rows'[request'[g].user] = 0
      BY DEF InsertIsFirst
    <2>1. g # h /\ request'[g] = request[g]
      BY DEF Others
    <2>2. request[g].user \in Member /\ Acts(g, request[g].user)
      BY <2>1, ActsFacts DEF MemberInv, ShapeInv
    <2>4. ~Acts(h, request[g].user)
      BY <2>1, <2>2 DEF MemberInv, ActsAlone
    <2>3. rows[request[g].user] = 0
      <3>1. request[g].at = "insert" /\ request[g].user \notin crossed \union unchecked
        BY <2>1, <2>2, <2>4
      <3> QED
        BY <3>1 DEF MemberInv, InsertIsFirst
    <2> QED
      BY <2>1, <2>2, <2>3, <2>4
  <1>3. MemberOnce'
    BY DEF MemberInv, MemberOnce
  <1> QED
    BY <1>1, <1>2, <1>3 DEF MemberInv

LEMMA MemberInit == GroupsInit => MemberInv
  <1> SUFFICES ASSUME GroupsInit PROVE MemberInv
    OBVIOUS
  <1>1. \A h \in GroupHandler : request[h].op = "none" /\ request[h].at = "idle"
    BY DEF GroupsInit, Free
  <1>2. ActsAlone /\ InsertIsFirst /\ MemberOnce
    BY <1>1 DEF GroupsInit, ActsAlone, Acts, InsertIsFirst, MemberOnce
  <1> QED
    BY <1>2, ShapeInit DEF MemberInv

LEMMA MemberStep == MemberInv /\ [GroupsNext]_groupsVars => MemberInv'
  <1> SUFFICES ASSUME MemberInv, [GroupsNext]_groupsVars PROVE MemberInv'
    OBVIOUS
  <1>t. ShapeInv /\ Typed /\ ShapeInv'
    BY ShapeStep DEF MemberInv, ShapeInv
  <1>f. Free.op = "none" /\ Free.at = "idle"
    BY DEF Free
  <1>0. CASE UNCHANGED groupsVars
    BY <1>t, <1>0, MemberKept DEF groupsVars, groupVars, historyVars
  (* What is read and checked first. *)
  <1>1. ASSUME NEW h \in GroupHandler, NEW listed \in SUBSET Member, CreateGroup(h, listed)
        PROVE  MemberInv'
    <2>1. Began(h, "create", Owner, "store")
      BY <1>t, <1>1, CreateFacts
    <2>2. \A g \in GroupHandler : ~Busy(g)
      BY <1>1 DEF CreateGroup
    <2>3. UNCHANGED <<rows, crossed, strayed, unchecked>>
      BY <1>1 DEF CreateGroup, groupVars, historyVars
    <2> QED
      BY <1>t, <2>1, <2>2, <2>3, MemberBegun DEF Began, Concerns
  <1>2. ASSUME NEW h \in GroupHandler, NEW u \in GroupUser, JoinGroup(h, u) PROVE MemberInv'
    <2>1. u \in Member /\ Begin(h, "join", u, "insert") /\ FoundNoMember(u) /\ UNCHANGED rows
      BY <1>2 DEF JoinGroup, Member
    <2>4. unchecked \subseteq unchecked' /\ (rows[u] = 0 \/ u \in unchecked')
      BY <1>t, <2>1, FoundFacts
    <2>2. Began(h, "join", u, "insert") /\ crossed \subseteq crossed' /\ strayed \subseteq strayed'
          /\ (u \notin crossed' \/ u \notin strayed' => \A g \in GroupHandler : ~Concerns(g, u))
      BY <1>t, <2>1, BeginFacts
    <2>3. \A m \in Member : Acts(h, m)' => m = u
      BY <2>2 DEF Began, Acts
    <2> QED
      BY <1>t, <2>1, <2>2, <2>3, <2>4, MemberBegun DEF Began
  <1>3. ASSUME NEW h \in GroupHandler, NEW u \in GroupUser, NEW invite \in BOOLEAN,
               AskToJoin(h, u, invite)
        PROVE  MemberInv'
    <2>1. Began(h, "ask", u, "store")
      BY <1>t, <1>3, AskFacts
    <2>2. UNCHANGED <<rows, crossed, strayed, unchecked>> /\ \A m \in Member : ~Acts(h, m)'
      BY <1>3, <2>1 DEF AskToJoin, historyVars, Began, Acts
    <2> QED
      BY <1>t, <2>1, <2>2, MemberBegun DEF Began
  <1>4. ASSUME NEW h \in GroupHandler, NEW u \in Member,
               \/ \E kicked \in BOOLEAN : LeaveGroup(h, u, kicked)
               \/ u = Owner /\ DismissGroup(h)
               \/ GetUserGroupIDs(h, u)
        PROVE  MemberInv'
    <2>1. PICK op, at : /\ Begin(h, op, u, at)
                        /\ \/ op \in {"leave", "kick", "dismiss"} /\ at = "store"
                           \/ op = "sync" /\ at = "route"
      BY <1>4 DEF LeaveGroup, DismissGroup, GetUserGroupIDs
    <2>2. UNCHANGED <<rows, unchecked>>
      BY <1>4 DEF LeaveGroup, DismissGroup, GetUserGroupIDs, groupVars
    <2>3. /\ Began(h, op, u, at) /\ crossed \subseteq crossed' /\ strayed \subseteq strayed'
          /\ \A m \in Member : (m = u \/ op = "dismiss") /\ (m \notin crossed' \/ m \notin strayed')
               => \A g \in GroupHandler : ~Concerns(g, m)
      BY <1>t, <2>1, BeginFacts
    <2>4. \A m \in Member : Acts(h, m)' => m = u \/ op = "dismiss"
      BY <2>1, <2>3 DEF Began, Acts
    <2> QED
      BY <1>t, <2>1, <2>2, <2>3, <2>4, MemberBegun DEF Began
  <1>5. ASSUME NEW h \in GroupHandler, NEW p \in Petition, NEW accept \in BOOLEAN,
               AnswerPetition(h, p, accept)
        PROVE  MemberInv'
    <2> DEFINE u == petitions[p].user
    <2>1. Began(h, "answer", u, "store") /\ crossed \subseteq crossed' /\ strayed \subseteq strayed'
          /\ (u \notin crossed' \/ u \notin strayed' => \A g \in GroupHandler : ~Concerns(g, u))
      BY <1>t, <1>5, AnswerFacts
    <2>2. UNCHANGED <<rows, unchecked>>
      BY <1>5 DEF AnswerPetition, groupVars
    <2> HIDE DEF u
    <2>3. \A m \in Member : Acts(h, m)' => m = u
      BY <2>1 DEF Began, Acts
    <2> QED
      BY <1>t, <2>1, <2>2, <2>3, MemberBegun DEF Began
  <1>6. ASSUME NEW h \in GroupHandler, UpdateGroup(h) PROVE MemberInv'
    <2>1. Began(h, "update", Owner, "store")
      BY <1>t, <1>6, UpdateGroupFacts
    <2>2. UNCHANGED <<rows, crossed, strayed, unchecked>> /\ \A m \in Member : ~Acts(h, m)'
      BY <1>6, <2>1 DEF UpdateGroup, historyVars, Began, Acts
    <2> QED
      BY <1>t, <2>1, <2>2, MemberBegun DEF Began
  (* The row writes. *)
  <1>7. ASSUME NEW h \in GroupHandler, RowStep(h) PROVE MemberInv'
    <2>1. Went(h, "route")
      BY <1>t, <1>7, RowStepGoes
    <2>2. crossed \subseteq crossed' /\ strayed \subseteq strayed'
      BY <1>7 DEF RowStep, StoreGroup, InsertMember, DeleteMember, DeleteGroup
    <2>3. request[h].user \in Member /\ rows \in [Member -> Nat]
      BY <1>t, ActsFacts DEF Typed
    <2>5. \A u \in (Member \cap unchecked) \ unchecked' : Acts(h, u) /\ rows'[u] = 0
      <3>1. CASE StoreGroup(h) \/ InsertMember(h)
        BY <3>1 DEF StoreGroup, InsertMember
      <3>2. CASE DeleteMember(h)
        BY <2>3, <3>2 DEF DeleteMember, Acts
      <3>3. CASE DeleteGroup(h)
        BY <3>3 DEF DeleteGroup, Acts
      <3> QED
        BY <1>7, <3>1, <3>2, <3>3 DEF RowStep
    <2>4. \A u \in Member \ (crossed' \union unchecked') :
            rows'[u] # rows[u] => Acts(h, u) /\ rows'[u] <= 1
      <3>1. CASE StoreGroup(h)
        BY <3>1 DEF StoreGroup, Acts
      <3>2. CASE InsertMember(h)
        <4>1. Acts(h, request[h].user)
          BY <1>t, <3>2, ActsFacts DEF InsertMember
        <4>2. request[h].user \notin crossed' \union unchecked' => rows[request[h].user] = 0
          BY <2>2, <3>2 DEF InsertMember, MemberInv, InsertIsFirst
        <4>3. rows' = [rows EXCEPT ![request[h].user] = @ + 1]
          BY <3>2 DEF InsertMember
        <4>4. \A u \in Member : rows'[u] # rows[u] => u = request[h].user /\ rows'[u] = rows[u] + 1
          BY <2>3, <4>3
        <4> QED
          BY <2>3, <4>1, <4>2, <4>4
      <3>3. CASE DeleteMember(h)
        BY <2>3, <3>3 DEF DeleteMember, Acts
      <3>4. CASE DeleteGroup(h)
        BY <3>4 DEF DeleteGroup, Acts
      <3> QED
        BY <1>7, <3>1, <3>2, <3>3, <3>4 DEF RowStep
    <2> QED
      BY <1>t, <2>1, <2>2, <2>4, <2>5, MemberWritten DEF Went
  (* Everything else leaves the rows alone. *)
  <1>8. ASSUME NEW h \in GroupHandler, UpdatePetition(h) \/ AdmitUser(h) PROVE MemberInv'
    <2>1. UNCHANGED <<rows, crossed, strayed>> /\ unchecked \subseteq unchecked'
      BY <1>t, <1>8, AdmitFacts DEF UpdatePetition, groupVars, historyVars
    <2>2. \/ Ended(h)
          \/ Went(h, "admit")
          \/ /\ rows[request[h].user] = 0 \/ request[h].user \in unchecked'
             /\ Went(h, "insert")
      BY <1>t, <1>8, AnswerGoes
    <2> QED
      BY <1>t, <2>1, <2>2, MemberKept DEF Ended, Went, Others
  <1>9. ASSUME NEW h \in GroupHandler,
               \/ WriteRoute(h) \/ ReplaceRoute(h) \/ RouteFails(h)
        PROVE  MemberInv'
    <2>1. UNCHANGED <<rows, crossed, strayed, unchecked>>
      BY <1>9 DEF WriteRoute, ReplaceRoute, RouteFails, groupVars, historyVars
    <2>2. Ended(h) \/ Went(h, "replace") \/ Went(h, "publish")
      BY <1>t, <1>9, WriteRouteGoes, ReplaceRouteGoes, AfterRouteGoes DEF RouteFails
    <2> QED
      BY <1>t, <2>1, <2>2, MemberKept DEF Ended, Went, Others
  <1>10. ASSUME NEW h \in GroupHandler,
                InsertPetition(h) \/ SaveGroup(h) \/ PublishNotice(h) \/ PublishFails(h) \/ RequestDies(h)
         PROVE  MemberInv'
    <2>1. Ended(h)
      BY <1>t, <1>10, DoneGoes
    <2>2. UNCHANGED <<rows, crossed, unchecked>> /\ strayed \subseteq strayed'
      BY <1>10
      DEF InsertPetition, SaveGroup, PublishNotice, PublishFails, RequestDies, groupVars, historyVars
    <2> QED
      BY <1>t, <2>1, <2>2, MemberKept DEF Ended, Others
  <1>11. ASSUME \/ \E i \in 1..Len(events) : SyncGroupRoute(i) \/ SyncFails(i) \/ AckIsLost(i)
                \/ \E e \in again : SyncAgain(e)
                \/ RouteExpires \/ GroupCacheExpires
         PROVE  MemberInv'
    <2>1. UNCHANGED <<rows, request, crossed, unchecked>>
      BY <1>11
      DEF SyncGroupRoute, SyncFails, AckIsLost, SyncAgain, RouteExpires, GroupCacheExpires,
          groupVars, historyVars
    <2>2. strayed \subseteq strayed' \/ \A h \in GroupHandler, u \in Member : ~Acts(h, u)
      <3>1. CASE RouteExpires
        <4>1. strayed' = strayed \/ \A h \in GroupHandler : ~Busy(h)
          BY <3>1 DEF RouteExpires
        <4> QED
          BY <1>t, <4>1, ActsFacts DEF Concerns
      <3> QED
        BY <1>11, <3>1 DEF SyncGroupRoute, SyncFails, AckIsLost, SyncAgain, GroupCacheExpires, historyVars
    <2> QED
      BY <1>t, <2>1, <2>2, MemberKept
  <1> QED
    BY <1>0, <1>1, <1>2, <1>3, <1>4, <1>5, <1>6, <1>7, <1>8, <1>9, <1>10, <1>11, OwnerIsMember
    DEF GroupsNext, RowStep

(* A user about whom no two requests overlapped, and for whom the look     *)
(* before the insert did not fail since the user's rows were last deleted, *)
(* has one member row at most, though the table has no unique index.       *)
THEOREM OneRowEach == GroupsSpec => []MemberOnce
  <1>1. MemberInv => MemberOnce
    BY DEF MemberInv
  <1> QED
    BY <1>1, MemberInit, MemberStep, PTL DEF GroupsSpec

(***************************************************************************)
(* Answers                                                                 *)
(***************************************************************************)
(* A record that is asked for is not there yet, and no other request has   *)
(* its id.                                                                 *)
AskedIsNew ==
  \A g, h \in GroupHandler :
    request[h].op = "ask" =>
      /\ petitions[request[h].petition].status = "none"
      /\ request[g].petition = request[h].petition => g = h

(* Of the requests that answer a record only one is under way, and the     *)
(* record's status is how far it has come.                                 *)
AnswersAgree ==
  \A h \in GroupHandler :
    request[h].op = "answer" /\ request[h].petition \notin doubled =>
      /\ \A g \in GroupHandler :
           request[g].op = "answer" /\ request[g].petition = request[h].petition => g = h
      /\ petitions[request[h].petition].status
           = IF request[h].at = "store" THEN "pending" ELSE "accepted"
      /\ request[h].at \in {"route", "replace", "publish"} => request[h].petition \in admitted

AdmittedIsAccepted ==
  \A p \in admitted \ doubled : p \in Petition => petitions[p].status = "accepted"

AnswerInv == ShapeInv /\ AskedIsNew /\ AnswersAgree /\ AdmittedIsAccepted /\ AnswerStands

LEMMA AnswerInit == GroupsInit => AnswerInv
  <1> SUFFICES ASSUME GroupsInit PROVE AnswerInv
    OBVIOUS
  <1>1. \A h \in GroupHandler : request[h].op = "none"
    BY DEF GroupsInit, Free
  <1>2. \A p \in Petition : petitions[p].status = "none"
    BY DEF GroupsInit, NoRecord
  <1>3. admitted = {}
    BY DEF GroupsInit
  <1> QED
    BY <1>1, <1>2, <1>3, ShapeInit
    DEF AnswerInv, AskedIsNew, AnswersAgree, AdmittedIsAccepted, AnswerStands

(* A handler with a record asks for it or answers it.                      *)
LEMMA PetitionFacts ==
  ASSUME Typed, NEW h \in GroupHandler
  PROVE  /\ request[h].petition # NoPetition <=> request[h].op \in {"ask", "answer"}
         /\ request[h].op \in {"ask", "answer"} => request[h].petition \in Petition
         /\ request[h].at = "idle" => request[h].petition = NoPetition
  BY RequestTyped, AtFacts DEF Fits

(* The request of h stays, ends, or goes on past the record.               *)
Carries(h) ==
  \/ request'[h] = request[h]
  \/ /\ request'[h].petition = NoPetition /\ request'[h].op \notin {"ask", "answer"}
     /\ request[h].op = "answer" /\ request[h].at # "store" /\ request[h].petition \notin doubled'
          => request[h].petition \in admitted' \union refused'
  \/ /\ request'[h].op = request[h].op /\ request'[h].petition = request[h].petition
     /\ \/ request[h].at # "store" /\ request'[h].at # "store"
        \/ request[h].op \notin {"ask", "answer"}
     /\ /\ request[h].op = "answer" /\ request'[h].at \in {"route", "replace", "publish"}
        /\ request[h].petition \notin doubled'
        => request[h].petition \in admitted'

LEMMA AnswerKept ==
  ASSUME AnswerInv, ShapeInv', UNCHANGED petitions,
         doubled \subseteq doubled', admitted \subseteq admitted', refused \subseteq refused',
         \A h \in GroupHandler : Carries(h),
         \A p \in admitted' \ doubled' :
           \/ p \in admitted
           \/ \E h \in GroupHandler :
                request[h].op = "answer" /\ request[h].petition = p /\ request[h].at # "store"
  PROVE  AnswerInv'
  <1>t. Typed /\ Typed'
    BY DEF AnswerInv, ShapeInv
  <1>p. \A h \in GroupHandler :
          /\ request[h].petition # NoPetition <=> request[h].op \in {"ask", "answer"}
          /\ request[h].op \in {"ask", "answer"} => request[h].petition \in Petition
    BY <1>t, PetitionFacts
  <1>k. \A h \in GroupHandler : request[h].op = "ask" => request[h].at = "store"
    BY <1>t, AtFacts
  <1>n. NoPetition \notin Petition
    BY GroupsAssumption
  <1>1. \A h \in GroupHandler : request'[h].op \in {"ask", "answer"} =>
          request'[h].op = request[h].op /\ request'[h].petition = request[h].petition
    BY DEF Carries
  <1>2. \A h \in GroupHandler : request'[h].petition # NoPetition =>
          request'[h].petition = request[h].petition
    BY <1>p DEF Carries
  <1>3. AskedIsNew'
    <2> SUFFICES ASSUME NEW g \in GroupHandler, NEW h \in GroupHandler, request'[h].op = "ask"
                 PROVE  /\ petitions[request'[h].petition].status = "none"
                        /\ request'[g].petition = request'[h].petition => g = h
      BY DEF AskedIsNew
    <2>1. request[h].op = "ask" /\ request'[h].petition = request[h].petition
      BY <1>1
    <2>2. request'[h].petition # NoPetition
      BY <1>p, <1>n, <2>1
    <2> QED
      BY <1>2, <2>1, <2>2 DEF AnswerInv, AskedIsNew
  <1>4. AnswersAgree'
    <2> SUFFICES ASSUME NEW h \in GroupHandler, request'[h].op = "answer",
                        request'[h].petition \notin doubled'
                 PROVE  /\ \A g \in GroupHandler :
                             request'[g].op = "answer" /\ request'[g].petition = request'[h].petition
                               => g = h
                        /\ petitions[request'[h].petition].status
                             = IF request'[h].at = "store" THEN "pending" ELSE "accepted"
                        /\ request'[h].at \in {"route", "replace", "publish"}
                             => request'[h].petition \in admitted'
      BY DEF AnswersAgree
    <2>1. /\ request[h].op = "answer" /\ request'[h].petition = request[h].petition
          /\ request[h].petition \notin doubled
      BY <1>1
    <2>2. request'[h] = request[h] \/ (request[h].at # "store" /\ request'[h].at # "store")
      BY <1>p, <1>n, <2>1 DEF Carries
    <2>3. request'[h].at \in {"route", "replace", "publish"} => request'[h].petition \in admitted'
      BY <1>p, <1>n, <2>1 DEF Carries, AnswerInv, AnswersAgree
    <2>4. \A g \in GroupHandler :
            request'[g].op = "answer" /\ request'[g].petition = request'[h].petition => g = h
      BY <1>1, <2>1 DEF AnswerInv, AnswersAgree
    <2> QED
      BY <2>1, <2>2, <2>3, <2>4 DEF AnswerInv, AnswersAgree
  <1>5. AdmittedIsAccepted'
    BY DEF AnswerInv, AdmittedIsAccepted, AnswersAgree
  <1>6. AnswerStands'
    <2> SUFFICES ASSUME NEW p \in Petition \ doubled'
                 PROVE  /\ petitions[p].status = "rejected" => p \notin admitted'
                        /\ (petitions[p].status = "accepted"
                            /\ \A h \in GroupHandler : request'[h].petition # p)
                             => p \in admitted' \union refused'
      BY DEF AnswerStands
    <2>1. petitions[p].status = "rejected" => p \notin admitted'
      BY <1>5 DEF AdmittedIsAccepted
    <2>2. ASSUME petitions[p].status = "accepted", \A h \in GroupHandler : request'[h].petition # p
          PROVE  p \in admitted' \union refused'
      <3>1. CASE \A h \in GroupHandler : request[h].petition # p
        BY <2>2, <3>1 DEF AnswerInv, AnswerStands
      <3>2. ASSUME NEW h \in GroupHandler, request[h].petition = p
            PROVE  p \in admitted' \union refused'
        <4>1. request[h].op \in {"ask", "answer"}
          BY <1>p, <1>n, <3>2
        <4>2. request[h].op = "answer" /\ request[h].at # "store"
          BY <2>2, <3>2, <4>1 DEF AnswerInv, AskedIsNew, AnswersAgree
        <4> QED
          BY <2>2, <3>2, <4>2 DEF Carries
      <3> QED
        BY <3>1, <3>2
    <2> QED
      BY <2>1, <2>2
  <1> QED
    BY <1>3, <1>4, <1>5, <1>6 DEF AnswerInv

(* A new request without a record. *)
LEMMA BeginCarries ==
  ASSUME Typed, NEW h \in GroupHandler, request[h].at = "idle", Others(h),
         request'[h].petition = NoPetition, request'[h].op \notin {"ask", "answer"}
  PROVE  \A g \in GroupHandler : Carries(g)
  <1>1. request[h].op # "answer"
    BY PetitionFacts
  <1> QED
    BY <1>1 DEF Carries, Others

LEMMA CreatePetition ==
  ASSUME Typed', NEW h \in GroupHandler, request'[h].op \in {"create", "update"}
  PROVE  request'[h].petition = NoPetition
  BY DEF Typed, Fits

LEMMA AnswerStep == AnswerInv /\ [GroupsNext]_groupsVars => AnswerInv'
  <1> SUFFICES ASSUME AnswerInv, [GroupsNext]_groupsVars PROVE AnswerInv'
    OBVIOUS
  <1>t. ShapeInv /\ Typed /\ ShapeInv' /\ Typed'
    BY ShapeStep DEF AnswerInv, ShapeInv
  <1>f. Free.op = "none" /\ Free.at = "idle" /\ Free.petition = NoPetition
    BY DEF Free
  <1>p. \A h \in GroupHandler :
          /\ request[h].petition # NoPetition <=> request[h].op \in {"ask", "answer"}
          /\ request[h].op \in {"ask", "answer"} => request[h].petition \in Petition
          /\ request[h].at = "idle" => request[h].petition = NoPetition
    BY <1>t, PetitionFacts
  <1>n. NoPetition \notin Petition
    BY GroupsAssumption
  <1>0. CASE UNCHANGED groupsVars
    BY <1>t, <1>0, AnswerKept DEF groupsVars, historyVars, Carries
  (* Requests that begin without a record. *)
  <1>1. ASSUME NEW h \in GroupHandler, request[h].at = "idle", Others(h),
               request'[h].petition = NoPetition, request'[h].op \notin {"ask", "answer"},
               UNCHANGED <<petitions, doubled, admitted, refused>>
        PROVE  AnswerInv'
    BY <1>t, <1>1, BeginCarries, AnswerKept
  <1>2. ASSUME NEW h \in GroupHandler, NEW listed \in SUBSET Member, CreateGroup(h, listed)
        PROVE  AnswerInv'
    <2>1. Began(h, "create", Owner, "store")
      BY <1>t, <1>2, CreateFacts
    <2>2. request'[h].petition = NoPetition
      BY <1>t, <2>1, CreatePetition DEF Began
    <2> QED
      BY <1>1, <1>2, <2>1, <2>2 DEF CreateGroup, historyVars, Began
  <1>3. ASSUME NEW h \in GroupHandler, NEW u \in Member, NEW op, NEW at,
               \/ op = "join" /\ at = "insert"
               \/ op \in {"leave", "kick", "dismiss"} /\ at = "store"
               \/ op = "sync" /\ at = "route",
               Begin(h, op, u, at), UNCHANGED <<petitions, doubled, admitted, refused>>
        PROVE  AnswerInv'
    <2>1. Began(h, op, u, at) /\ request'[h].petition = NoPetition
      BY <1>t, <1>3, BeginFacts
    <2> QED
      BY <1>1, <1>3, <2>1 DEF Began
  <1>4. ASSUME NEW h \in GroupHandler, NEW u \in GroupUser,
               \/ JoinGroup(h, u)
               \/ \E kicked \in BOOLEAN : LeaveGroup(h, u, kicked)
               \/ GetUserGroupIDs(h, u)
        PROVE  AnswerInv'
    BY <1>3, <1>4, OwnerIsMember DEF JoinGroup, LeaveGroup, GetUserGroupIDs
  <1>5. ASSUME NEW h \in GroupHandler, DismissGroup(h) PROVE AnswerInv'
    BY <1>3, <1>5, OwnerIsMember DEF DismissGroup
  <1>6. ASSUME NEW h \in GroupHandler, UpdateGroup(h) PROVE AnswerInv'
    <2>1. Began(h, "update", Owner, "store") /\ request'[h].petition = NoPetition
      BY <1>t, <1>6, UpdateGroupFacts
    <2> QED
      BY <1>1, <1>6, <2>1 DEF UpdateGroup, historyVars, Began
  (* Requests that make a record, or begin to answer one. *)
  <1>7. ASSUME NEW h \in GroupHandler, NEW u \in GroupUser, NEW invite \in BOOLEAN,
               AskToJoin(h, u, invite)
        PROVE  AnswerInv'
    <2>1. /\ Began(h, "ask", u, "store")
          /\ request'[h].petition \in Petition
          /\ petitions[request'[h].petition].status = "none"
          /\ \A g \in GroupHandler : request[g].petition # request'[h].petition
      BY <1>t, <1>7, AskFacts
    <2>2. UNCHANGED <<petitions, doubled, admitted, refused>>
      BY <1>7 DEF AskToJoin, historyVars
    <2>3. request[h].petition = NoPetition /\ request[h].op \notin {"ask", "answer"}
      BY <1>p, <2>1 DEF Began
    <2>4. \A g \in GroupHandler : g # h => request'[g] = request[g]
      BY <2>1 DEF Began, Others
    <2>5. AskedIsNew'
      BY <2>1, <2>2, <2>4 DEF AnswerInv, AskedIsNew, Began
    <2>6. AnswersAgree'
      BY <2>1, <2>2, <2>4 DEF AnswerInv, AnswersAgree, Began
    <2>7. AnswerStands'
      BY <1>n, <2>1, <2>2, <2>3, <2>4 DEF AnswerInv, AnswerStands
    <2> QED
      BY <1>t, <2>2, <2>5, <2>6, <2>7 DEF AnswerInv, AdmittedIsAccepted
  <1>8. ASSUME NEW h \in GroupHandler, NEW p \in Petition, NEW accept \in BOOLEAN,
               AnswerPetition(h, p, accept)
        PROVE  AnswerInv'
    <2>1. Began(h, "answer", petitions[p].user, "store") /\ request'[h].petition = p
      BY <1>t, <1>8, AnswerFacts
    <2>2. /\ petitions[p].status = "pending" /\ UNCHANGED <<petitions, admitted, refused>>
          /\ doubled \subseteq doubled'
          /\ (\E g \in GroupHandler : request[g].op = "answer" /\ request[g].petition = p)
               => p \in doubled'
      BY <1>8 DEF AnswerPetition
    <2>3. request[h].petition = NoPetition /\ request[h].op \notin {"ask", "answer"}
      BY <1>p, <2>1 DEF Began
    <2>4. \A g \in GroupHandler : g # h => request'[g] = request[g]
      BY <2>1 DEF Began, Others
    <2>5. AskedIsNew'
      BY <2>1, <2>2, <2>4 DEF AnswerInv, AskedIsNew, Began
    <2>6. AnswersAgree'
      BY <2>1, <2>2, <2>4 DEF AnswerInv, AnswersAgree, Began
    <2>7. AnswerStands'
      BY <1>n, <2>1, <2>2, <2>3, <2>4 DEF AnswerInv, AnswerStands
    <2> QED
      BY <1>t, <2>2, <2>5, <2>6, <2>7 DEF AnswerInv, AdmittedIsAccepted
  <1>9. ASSUME NEW h \in GroupHandler, InsertPetition(h) PROVE AnswerInv'
    <2> DEFINE p == request[h].petition
    <2>1. Ended(h) /\ request[h].op = "ask" /\ p \in Petition
      BY <1>t, <1>9, <1>p, DoneGoes DEF InsertPetition
    <2>2. petitions' = [petitions EXCEPT ![p] = [status |-> "pending", user |-> request[h].user,
                                                 invite |-> request[h].seen # {}]]
          /\ UNCHANGED <<doubled, admitted, refused>>
      BY <1>9 DEF InsertPetition, historyVars
    <2>3. petitions'[p].status = "pending"
          /\ \A q \in Petition : q # p => petitions'[q] = petitions[q]
      BY <1>t, <2>1, <2>2 DEF Typed
    <2>4. \A g \in GroupHandler : g # h => request'[g] = request[g] /\ request[g].petition # p
      BY <2>1 DEF Ended, Others, AnswerInv, AskedIsNew
    <2>5. request'[h].op = "none" /\ request'[h].petition = NoPetition
      BY <1>f, <2>1 DEF Ended
    <2>6. petitions[p].status = "none"
      BY <2>1 DEF AnswerInv, AskedIsNew
    <2> HIDE DEF p
    <2>7. AskedIsNew'
      BY <1>p, <2>3, <2>4, <2>5 DEF AnswerInv, AskedIsNew
    <2>8. AnswersAgree'
      BY <1>p, <2>2, <2>3, <2>4, <2>5 DEF AnswerInv, AnswersAgree
    <2>9. AdmittedIsAccepted'
      BY <2>2, <2>3, <2>6 DEF AnswerInv, AdmittedIsAccepted
    <2>10. AnswerStands'
      <3> SUFFICES ASSUME NEW q \in Petition \ doubled
                   PROVE  /\ petitions'[q].status = "rejected" => q \notin admitted
                          /\ (petitions'[q].status = "accepted"
                              /\ \A g \in GroupHandler : request'[g].petition # q)
                               => q \in admitted \union refused
        BY <2>2 DEF AnswerStands
      <3>1. CASE q = p
        BY <2>3, <3>1
      <3>2. CASE q # p
        <4>1. request[h].petition # q /\ petitions'[q] = petitions[q]
          BY <2>3, <3>2 DEF p
        <4> QED
          BY <2>4, <4>1 DEF AnswerInv, AnswerStands
      <3> QED
        BY <3>1, <3>2
    <2> QED
      BY <1>t, <2>7, <2>8, <2>9, <2>10 DEF AnswerInv
  <1>10. ASSUME NEW h \in GroupHandler, UpdatePetition(h) PROVE AnswerInv'
    <2> DEFINE p == request[h].petition
               s == IF request[h].seen # {} THEN "accepted" ELSE "rejected"
    <2>1. /\ request[h].op = "answer" /\ request[h].at = "store" /\ p \in Petition
          /\ petitions' = [petitions EXCEPT ![p].status = s]
          /\ UNCHANGED <<doubled, admitted, refused>>
      BY <1>10, <1>p DEF UpdatePetition, historyVars
    <2>2. \/ s = "accepted" /\ Went(h, "admit")
          \/ s = "rejected" /\ Ended(h)
      <3>1. CASE request[h].seen # {}
        <4>1. Goto(h, "admit")
          BY <1>10, <3>1 DEF UpdatePetition
        <4> QED
          BY <1>t, <2>1, <3>1, <4>1, WentFacts DEF Ats
      <3>2. CASE request[h].seen = {}
        <4>1. Done(h)
          BY <1>10, <3>2 DEF UpdatePetition
        <4> QED
          BY <1>t, <3>2, <4>1, DoneFacts
      <3> QED
        BY <3>1, <3>2
    <2> HIDE DEF s
    <2>3. petitions'[p].status = s
          /\ \A q \in Petition : q # p => petitions'[q] = petitions[q]
      <3>1. petitions' = [petitions EXCEPT ![p] = [petitions[p] EXCEPT !.status = s]]
            /\ petitions[p] \in Record
        BY <1>t, <2>1 DEF Typed
      <3>2. [petitions[p] EXCEPT !.status = s].status = s
        BY <3>1 DEF Record
      <3> QED
        BY <1>t, <2>1, <3>1, <3>2 DEF Typed
    <2>4. \A g \in GroupHandler : g # h => request'[g] = request[g]
      BY <2>2 DEF Ended, Went, Others
    <2>5. \/ s = "accepted" /\ request'[h].op = "answer" /\ request'[h].petition = p
             /\ request'[h].at = "admit"
          \/ s = "rejected" /\ request'[h].op = "none" /\ request'[h].petition = NoPetition
      BY <1>f, <2>1, <2>2 DEF Ended, Went
    <2>6. p \notin doubled =>
            /\ petitions[p].status = "pending"
            /\ \A g \in GroupHandler : request[g].op = "answer" /\ request[g].petition = p => g = h
      BY <2>1 DEF AnswerInv, AnswersAgree
    <2>7. \A g \in GroupHandler : request[g].op = "ask" => request[g].petition # p
      BY <2>1 DEF AnswerInv, AskedIsNew
    <2>8. request[h].petition = p
      OBVIOUS
    <2> HIDE DEF p
    <2>9. AskedIsNew'
      BY <1>p, <1>n, <2>1, <2>3, <2>4, <2>5, <2>7, <2>8 DEF AnswerInv, AskedIsNew
    <2>10. AnswersAgree'
      BY <1>p, <1>n, <2>1, <2>3, <2>4, <2>5, <2>6, <2>8 DEF AnswerInv, AnswersAgree
    <2>11. AdmittedIsAccepted'
      BY <2>1, <2>3, <2>6 DEF AnswerInv, AdmittedIsAccepted
    <2>12. AnswerStands'
      <3> SUFFICES ASSUME NEW q \in Petition \ doubled
                   PROVE  /\ petitions'[q].status = "rejected" => q \notin admitted
                          /\ (petitions'[q].status = "accepted"
                              /\ \A g \in GroupHandler : request'[g].petition # q)
                               => q \in admitted \union refused
        BY <2>1 DEF AnswerStands
      <3>1. CASE q = p
        BY <2>3, <2>5, <2>6, <3>1 DEF AnswerInv, AdmittedIsAccepted
      <3>2. CASE q # p
        BY <2>3, <2>4, <2>8, <3>2 DEF AnswerInv, AnswerStands
      <3> QED
        BY <3>1, <3>2
    <2> QED
      BY <1>t, <2>9, <2>10, <2>11, <2>12 DEF AnswerInv
  (* Past the record. *)
  <1>11. ASSUME NEW h \in GroupHandler, AdmitUser(h) PROVE AnswerInv'
    <2> DEFINE p == request[h].petition
    <2>1. /\ request[h].op = "answer" /\ request[h].at = "admit" /\ p \in Petition
          /\ UNCHANGED <<petitions, doubled>>
          /\ admitted' \in {admitted, admitted \union {p}} /\ refused \subseteq refused'
      <3>1. request[h].at = "admit"
        BY <1>11 DEF AdmitUser
      <3>2. admitted' \in {admitted, admitted \union {p}} /\ refused \subseteq refused'
        BY <1>11 DEF AdmitUser
      <3> QED
        BY <1>11, <1>t, <1>p, <3>1, <3>2, AtFacts, AdmitFacts
    <2>2. \/ Went(h, "insert")
          \/ Ended(h) /\ p \in admitted' \union refused'
      <3>1. CASE Done(h)
        <4>2. (p \in admitted' \union refused') \/ Goto(h, "insert")
          BY <1>11 DEF AdmitUser
        <4> QED
          BY <1>t, <2>1, <3>1, <4>2, DoneFacts, WentFacts DEF Ats
      <3>2. CASE ~Done(h)
        <4>1. Goto(h, "insert")
          BY <1>t, <1>11, <3>2, AdmitFacts
        <4> QED
          BY <1>t, <2>1, <4>1, WentFacts DEF Ats
      <3> QED
        BY <3>1, <3>2
    <2>3. \A g \in GroupHandler : Carries(g)
      BY <1>f, <2>1, <2>2 DEF Carries, Went, Ended, Others
    <2> QED
      BY <1>t, <2>1, <2>3, AnswerKept
  <1>12. ASSUME NEW h \in GroupHandler, RowStep(h) PROVE AnswerInv'
    <2>1. Went(h, "route")
      BY <1>t, <1>12, RowStepGoes
    <2>2. UNCHANGED <<petitions, doubled, refused>>
      BY <1>12 DEF RowStep, StoreGroup, InsertMember, DeleteMember, DeleteGroup
    <2>3. /\ admitted \subseteq admitted'
          /\ \/ request[h].op \notin {"ask", "answer"} /\ admitted' = admitted
             \/ request[h].op = "answer" /\ request[h].at = "insert"
                /\ admitted' = admitted \union {request[h].petition}
      <3>1. CASE InsertMember(h)
        <4>1. request[h].op \in {"join", "answer"} /\ request[h].at = "insert"
              /\ admitted' = admitted \union ({request[h].petition} \ {NoPetition})
          BY <1>t, <3>1, AtFacts DEF InsertMember
        <4> QED
          BY <1>p, <1>n, <4>1
      <3> QED
        BY <1>12, <3>1 DEF RowStep, StoreGroup, DeleteMember, DeleteGroup
    <2>4. \A g \in GroupHandler : Carries(g)
      BY <2>1, <2>3 DEF Carries, Went, Others
    <2> QED
      BY <1>t, <2>2, <2>3, <2>4, AnswerKept
  <1>13. ASSUME NEW h \in GroupHandler, WriteRoute(h) \/ ReplaceRoute(h) \/ RouteFails(h)
         PROVE  AnswerInv'
    <2>1. UNCHANGED <<petitions, doubled, admitted, refused>>
          /\ request[h].at \in {"route", "replace"}
      BY <1>13 DEF WriteRoute, ReplaceRoute, RouteFails, historyVars
    <2>2. \/ request[h].op = "sync" /\ Ended(h)
          \/ Went(h, "replace") \/ Went(h, "publish")
      BY <1>t, <1>13, WriteRouteGoes, ReplaceRouteGoes, AfterRouteGoes DEF RouteFails
    <2>3. request[h].op = "answer" /\ request[h].petition \notin doubled => request[h].petition \in admitted
      BY <2>1 DEF AnswerInv, AnswersAgree
    <2>4. request[h].op = "ask" => request[h].at = "store"
      BY <1>t, AtFacts
    <2>5. \A g \in GroupHandler : Carries(g)
      BY <1>f, <2>1, <2>2, <2>3, <2>4 DEF Carries, Went, Ended, Others
    <2> QED
      BY <1>t, <2>1, <2>5, AnswerKept
  <1>14. ASSUME NEW h \in GroupHandler,
                SaveGroup(h) \/ PublishNotice(h) \/ PublishFails(h) \/ RequestDies(h)
         PROVE  AnswerInv'
    <2>1. Ended(h)
      BY <1>t, <1>14, DoneGoes
    <2>2. UNCHANGED <<petitions, doubled, admitted>> /\ refused \subseteq refused'
      BY <1>14 DEF SaveGroup, PublishNotice, PublishFails, RequestDies, historyVars
    <2>3. request[h].op = "answer" /\ request[h].at # "store" /\ request[h].petition \notin doubled'
            => request[h].petition \in admitted' \union refused'
      <3> SUFFICES ASSUME request[h].op = "answer", request[h].at # "store",
                          request[h].petition \notin doubled
                   PROVE  request[h].petition \in admitted' \union refused'
        BY <2>2
      <3>1. CASE request[h].at \in {"route", "replace", "publish"}
        BY <2>2, <3>1 DEF AnswerInv, AnswersAgree
      <3>2. CASE request[h].at \in {"admit", "insert"}
        <4>1. RequestDies(h)
          BY <1>14, <3>2 DEF SaveGroup, PublishNotice, PublishFails
        <4>2. request[h].petition # NoPetition
          BY <1>p
        <4> QED
          BY <3>2, <4>1, <4>2 DEF RequestDies
      <3>3. request[h].at \in {"store", "admit", "insert", "route", "replace", "publish"}
        BY <1>t, RequestTyped DEF Fits
      <3> QED
        BY <3>1, <3>2, <3>3
    <2>4. \A g \in GroupHandler : Carries(g)
      BY <1>f, <2>1, <2>3 DEF Carries, Ended, Others
    <2> QED
      BY <1>t, <2>2, <2>4, AnswerKept
  <1>15. ASSUME \/ \E i \in 1..Len(events) : SyncGroupRoute(i) \/ SyncFails(i) \/ AckIsLost(i)
                \/ \E e \in again : SyncAgain(e)
                \/ RouteExpires \/ GroupCacheExpires
         PROVE  AnswerInv'
    <2>1. UNCHANGED <<petitions, request, doubled, admitted, refused>>
      BY <1>15
      DEF SyncGroupRoute, SyncFails, AckIsLost, SyncAgain, RouteExpires, GroupCacheExpires,
          historyVars
    <2> QED
      BY <1>t, <2>1, AnswerKept DEF Carries
  <1> QED
    BY <1>0, <1>2, <1>4, <1>5, <1>7, <1>8, <1>6, <1>9, <1>10, <1>11, <1>12, <1>13, <1>14, <1>15
    DEF GroupsNext, RowStep

(* A rejected application or invitation brought nobody in and an accepted  *)
(* one did, unless its request was cut short or another answered it too.   *)
THEOREM GroupAnswersStand == GroupsSpec => []AnswerStands
  <1>1. AnswerInv => AnswerStands
    BY DEF AnswerInv
  <1> QED
    BY <1>1, AnswerInit, AnswerStep, PTL DEF GroupsSpec

(***************************************************************************)
(* The routing table                                                       *)
(***************************************************************************)
(* h has written u's row, and has a notice to publish.                     *)
Told(h, u) ==
  Acts(h, u) /\ request[h].op # "sync" /\ request[h].at \in {"route", "replace", "publish"}
Settled(u) == \A h \in GroupHandler : ~Told(h, u)

Shows(u) == route # {} => (u \in route <=> rows[u] > 0)
Says(e, u) ==
  /\ e.op = "CREATE" => (u \in e.users <=> rows[u] > 0)
  /\ e.op = "JOIN" => rows[u] > 0
  /\ e.op = "LEAVE" => rows[u] = 0
About(i, u) == u \in Touched(events[i])

(* A request past its row write found what it was to write.                *)
RowIsWritten ==
  \A h \in GroupHandler, u \in Member \ strayed :
    /\ Told(h, u) =>
         /\ request[h].op = "create" => (u \in request[h].seen \union {Owner} <=> rows[u] > 0)
         /\ request[h].op \in {"join", "answer"} => rows[u] > 0
         /\ request[h].op \in {"leave", "kick", "dismiss"} => rows[u] = 0
    /\ Acts(h, u) /\ request[h].op = "sync" => rows[u] > 0

ReadIsCurrent ==
  \A h \in GroupHandler, u \in Member \ strayed :
    request[h].at = "replace" => (u \in request[h].seen <=> rows[u] > 0)

(* The last notice about a user agrees with the user's rows, and so does   *)
(* one that is to come again.                                              *)
LastIsRight ==
  \A u \in Member \ strayed, i \in 1..Len(events) :
    (Settled(u) /\ About(i, u) /\ \A j \in 1..Len(events) : j > i => ~About(j, u))
      => Says(events[i], u)

AgainIsRight ==
  \A e \in again : groupFaults > 0 /\ \A u \in Touched(e) \ strayed : Says(e, u)

(* With no notice to come the set is right.                                *)
QuietIsRight ==
  \A u \in Member \ strayed :
    (Settled(u) /\ \A i \in 1..Len(events) : ~About(i, u)) => Shows(u)

(* A request about a user with a notice in the queue knows that it is      *)
(* behind, and so does every notice that follows another.                  *)
BehindIsKnown ==
  \A u \in Member \ strayed, i \in 1..Len(events) :
    About(i, u) =>
      /\ \A h \in GroupHandler : Acts(h, u) => request[h].behind
      /\ \A j \in 1..Len(events) : j > i /\ About(j, u) => events[j].behind

(* Before any fault the direct write of a request that is not behind is    *)
(* what the set shows, as its notice is published and while it is queued.  *)
WriteIsRight ==
  groupFaults = 0 =>
    \A u \in Member \ strayed :
      /\ \A h \in GroupHandler :
           Acts(h, u) /\ request[h].at = "publish" /\ ~request[h].behind => Shows(u)
      /\ \A i \in 1..Len(events) :
           /\ Settled(u) /\ About(i, u) /\ ~events[i].behind
           /\ \A j \in 1..Len(events) : About(j, u) => j = i
           => Shows(u)

RouteInv ==
  /\ MemberInv /\ RowIsWritten /\ ReadIsCurrent /\ LastIsRight /\ AgainIsRight
  /\ QuietIsRight /\ BehindIsKnown /\ WriteIsRight

(* What goes on and what a request comes to while neither rows nor the     *)
(* queue change.                                                           *)
RouteMove(h) ==
  \/ request'[h] = request[h]
  \/ /\ request'[h].op = request[h].op /\ request'[h].user = request[h].user
     /\ request'[h].behind = request[h].behind
     /\ request[h].op # "sync" /\ request[h].at \in {"route", "replace"}
     /\ request'[h].at \in {"replace", "publish"}
     /\ request[h].op = "create" => request'[h].seen = request[h].seen
     /\ request'[h].at = "replace" => request'[h].seen = Joined
     /\ request'[h].at = "publish" /\ groupFaults' = 0
          => \A u \in Member \ strayed' : Acts(h, u) => Shows(u)'
  \/ /\ request'[h].at \notin {"replace", "publish"}
     /\ \A u \in Member \ strayed' :
          /\ ~Told(h, u)'
          /\ Told(h, u) => Shows(u)' /\ \A i \in 1..Len(events) : ~About(i, u)
          /\ Acts(h, u)' /\ request'[h].op = "sync" => rows[u] > 0
          /\ Acts(h, u)' /\ (\E i \in 1..Len(events) : About(i, u)) => request'[h].behind

LEMMA RouteKept ==
  ASSUME RouteInv, MemberInv', UNCHANGED <<rows, events>>, again' \subseteq again,
         strayed \subseteq strayed', groupFaults \in Nat, groupFaults' \in Nat,
         groupFaults <= groupFaults',
         \A u \in Member \ strayed' : Shows(u) => Shows(u)',
         \A h \in GroupHandler : RouteMove(h)
  PROVE  RouteInv'
  <1>1. \A h \in GroupHandler, u \in Member \ strayed' :
          Told(h, u)' => Told(h, u) /\ request'[h].op = request[h].op
    BY DEF RouteMove, Told, Acts
  <1>2. \A u \in Member \ strayed' :
          Settled(u)' => Settled(u) \/ (Shows(u)' /\ \A i \in 1..Len(events) : ~About(i, u))
    <2> SUFFICES ASSUME NEW u \in Member \ strayed', Settled(u)', NEW h \in GroupHandler, Told(h, u)
                 PROVE  Shows(u)' /\ \A i \in 1..Len(events) : ~About(i, u)
      BY DEF Settled
    <2>1. ~Told(h, u)'
      BY DEF Settled
    <2> QED
      BY <2>1 DEF RouteMove, Told, Acts
  <1>3. RowIsWritten'
    <2> SUFFICES ASSUME NEW h \in GroupHandler, NEW u \in Member \ strayed'
                 PROVE  /\ Told(h, u)' =>
                             /\ request'[h].op = "create" =>
                                  (u \in request'[h].seen \union {Owner} <=> rows[u] > 0)
                             /\ request'[h].op \in {"join", "answer"} => rows[u] > 0
                             /\ request'[h].op \in {"leave", "kick", "dismiss"} => rows[u] = 0
                        /\ Acts(h, u)' /\ request'[h].op = "sync" => rows[u] > 0
      BY DEF RowIsWritten
    <2>1. CASE request'[h] = request[h]
      BY <2>1 DEF RouteInv, RowIsWritten, Told, Acts
    <2>2. CASE request'[h] # request[h]
      BY <1>1, <2>2 DEF RouteInv, RowIsWritten, RouteMove
    <2> QED
      BY <2>1, <2>2
  <1>4. ReadIsCurrent'
    <2> SUFFICES ASSUME NEW h \in GroupHandler, NEW u \in Member \ strayed',
                        request'[h].at = "replace"
                 PROVE  u \in request'[h].seen <=> rows[u] > 0
      BY DEF ReadIsCurrent
    <2> QED
      BY DEF RouteInv, ReadIsCurrent, RouteMove, Joined
  <1>5. LastIsRight'
    BY <1>2 DEF RouteInv, LastIsRight, About, Says
  <1>6. AgainIsRight'
    BY DEF RouteInv, AgainIsRight, Says
  <1>7. QuietIsRight'
    BY <1>2 DEF RouteInv, QuietIsRight, About
  <1>8. BehindIsKnown'
    <2> SUFFICES ASSUME NEW u \in Member \ strayed', NEW i \in 1..Len(events), About(i, u)
                 PROVE  /\ \A h \in GroupHandler : Acts(h, u)' => request'[h].behind
                        /\ \A j \in 1..Len(events) : j > i /\ About(j, u) => events[j].behind
      BY DEF BehindIsKnown, About
    <2>1. \A h \in GroupHandler : Acts(h, u)' => request'[h].behind
      BY DEF RouteMove, RouteInv, BehindIsKnown, Acts
    <2> QED
      BY <2>1 DEF RouteInv, BehindIsKnown
  <1>9. WriteIsRight'
    <2> SUFFICES ASSUME groupFaults' = 0, NEW u \in Member \ strayed'
                 PROVE  /\ \A h \in GroupHandler :
                             Acts(h, u)' /\ request'[h].at = "publish" /\ ~request'[h].behind
                               => Shows(u)'
                        /\ \A i \in 1..Len(events) :
                             /\ Settled(u)' /\ About(i, u) /\ ~events[i].behind
                             /\ \A j \in 1..Len(events) : About(j, u) => j = i
                             => Shows(u)'
      BY DEF WriteIsRight, About
    <2>1. groupFaults = 0
      OBVIOUS
    <2>2. \A h \in GroupHandler :
             Acts(h, u)' /\ request'[h].at = "publish" /\ ~request'[h].behind => Shows(u)'
      BY <2>1 DEF RouteInv, WriteIsRight, RouteMove, Acts
    <2>3. \A i \in 1..Len(events) :
             /\ Settled(u)' /\ About(i, u) /\ ~events[i].behind
             /\ \A j \in 1..Len(events) : About(j, u) => j = i
             => Shows(u)'
      BY <1>2, <2>1 DEF RouteInv, WriteIsRight
    <2> QED
      BY <2>2, <2>3
  <1> QED
    BY <1>3, <1>4, <1>5, <1>6, <1>7, <1>8, <1>9 DEF RouteInv

(* A row write. *)
LEMMA RouteWritten ==
  ASSUME RouteInv, MemberInv', UNCHANGED <<route, events, again, groupFaults>>,
         strayed \subseteq strayed', NEW h \in GroupHandler, Went(h, "route"),
         request'[h].seen = request[h].seen,
         request[h].op # "sync", request[h].at \notin {"route", "replace", "publish"},
         \A u \in Member \ strayed' : rows'[u] # rows[u] =>
            /\ Acts(h, u)
            /\ \A g \in GroupHandler \ {h} : request[g].at # "replace"
            /\ \A e \in again : u \notin Touched(e),
         \A u \in Member \ strayed' : Acts(h, u) =>
            /\ request[h].op = "create" => (u \in request[h].seen \union {Owner} <=> rows'[u] > 0)
            /\ request[h].op \in {"join", "answer"} => rows'[u] > 0
            /\ request[h].op \in {"leave", "kick", "dismiss"} => rows'[u] = 0
  PROVE  RouteInv'
  <1>1. \A g \in GroupHandler, u \in Member : Acts(g, u)' <=> Acts(g, u)
    BY DEF Went, Others, Acts
  <1>2. \A g \in GroupHandler \ {h} : request'[g] = request[g]
    BY DEF Went, Others
  <1>3. /\ request'[h].op = request[h].op /\ request'[h].at = "route"
        /\ request'[h].behind = request[h].behind
    BY DEF Went
  <1>4. \A g \in GroupHandler \ {h}, u \in Member \ strayed' :
          Acts(g, u) => rows'[u] = rows[u]
    BY DEF RouteInv, MemberInv, ActsAlone
  <1>5. \A u \in Member \ strayed' : Settled(u)' => Settled(u) /\ rows'[u] = rows[u]
    <2> SUFFICES ASSUME NEW u \in Member \ strayed', Settled(u)'
                 PROVE  Settled(u) /\ rows'[u] = rows[u]
      OBVIOUS
    <2>1. ~Acts(h, u)
      BY <1>1, <1>3 DEF Settled, Told
    <2> QED
      BY <1>1, <1>2, <2>1 DEF Settled, Told
  <1>6. RowIsWritten'
    <2> SUFFICES ASSUME NEW g \in GroupHandler, NEW u \in Member \ strayed'
                 PROVE  /\ Told(g, u)' =>
                             /\ request'[g].op = "create" =>
                                  (u \in request'[g].seen \union {Owner} <=> rows'[u] > 0)
                             /\ request'[g].op \in {"join", "answer"} => rows'[u] > 0
                             /\ request'[g].op \in {"leave", "kick", "dismiss"} => rows'[u] = 0
                        /\ Acts(g, u)' /\ request'[g].op = "sync" => rows'[u] > 0
      BY DEF RowIsWritten
    <2>1. CASE g = h
      BY <1>1, <1>3, <2>1 DEF Told
    <2>2. CASE g # h
      BY <1>1, <1>2, <1>4, <2>2 DEF RouteInv, RowIsWritten, Told
    <2> QED
      BY <2>1, <2>2
  <1>7. ReadIsCurrent'
    BY <1>2, <1>3 DEF RouteInv, ReadIsCurrent
  <1>8. LastIsRight'
    BY <1>5 DEF RouteInv, LastIsRight, About, Says
  <1>9. AgainIsRight'
    <2> SUFFICES ASSUME NEW e \in again, NEW u \in Touched(e) \ strayed'
                 PROVE  Says(e, u)'
      BY DEF RouteInv, AgainIsRight
    <2>1. u \in Member
      <3>1. e \in NoticeSet
        BY DEF RouteInv, MemberInv, ShapeInv, Typed
      <3> QED
        BY <3>1 DEF Touched, NoticeSet
    <2>2. rows'[u] = rows[u]
      BY <2>1
    <2> QED
      BY <2>2 DEF RouteInv, AgainIsRight, Says
  <1>10. QuietIsRight'
    BY <1>5 DEF RouteInv, QuietIsRight, About, Shows
  <1>11. BehindIsKnown'
    BY <1>1, <1>2, <1>3 DEF RouteInv, BehindIsKnown, About
  <1>12. WriteIsRight'
    <2> SUFFICES ASSUME groupFaults = 0, NEW u \in Member \ strayed'
                 PROVE  /\ \A g \in GroupHandler :
                             Acts(g, u)' /\ request'[g].at = "publish" /\ ~request'[g].behind
                               => Shows(u)'
                        /\ \A i \in 1..Len(events) :
                             /\ Settled(u)' /\ About(i, u) /\ ~events[i].behind
                             /\ \A j \in 1..Len(events) : About(j, u) => j = i
                             => Shows(u)'
      BY DEF WriteIsRight, About
    <2>1. \A g \in GroupHandler :
             Acts(g, u)' /\ request'[g].at = "publish" /\ ~request'[g].behind => Shows(u)'
      BY <1>1, <1>2, <1>3, <1>4 DEF RouteInv, WriteIsRight, Shows
    <2>2. \A i \in 1..Len(events) :
             /\ Settled(u)' /\ About(i, u) /\ ~events[i].behind
             /\ \A j \in 1..Len(events) : About(j, u) => j = i
             => Shows(u)'
      BY <1>5 DEF RouteInv, WriteIsRight, Shows
    <2> QED
      BY <2>1, <2>2
  <1> QED
    BY <1>6, <1>7, <1>8, <1>9, <1>10, <1>11, <1>12 DEF RouteInv

(* A notice that is replayed is right about its users and touches nobody   *)
(* else.                                                                   *)
LEMMA ReplayFacts ==
  ASSUME Typed, UNCHANGED rows, NEW e \in NoticeSet, route' = Replayed(e), NEW u \in Member
  PROVE  /\ u \in Touched(e) /\ Says(e, u) => Shows(u)'
         /\ u \notin Touched(e) /\ Shows(u) => Shows(u)'
  <1>1. e.op \in {"CREATE", "JOIN", "LEAVE", "DISMISS"}
    BY DEF NoticeSet
  <1>2. CASE e.op = "CREATE"
    BY <1>2 DEF Replayed, Touched, Says, Shows
  <1>3. CASE e.op = "JOIN"
    <2>1. route' = IF route = {} THEN {} ELSE route \union e.users
      BY <1>3 DEF Replayed, AddRoute
    <2> QED
      BY <1>3, <2>1 DEF Touched, Says, Shows
  <1>4. CASE e.op = "LEAVE"
    <2>1. route' = route \ e.users
      BY <1>4 DEF Replayed
    <2> QED
      BY <1>4, <2>1 DEF Touched, Says, Shows
  <1>5. CASE e.op = "DISMISS"
    BY <1>5 DEF Replayed, Shows
  <1> QED
    BY <1>1, <1>2, <1>3, <1>4, <1>5

(* A notice leaves the queue, ahead of every other about its users or      *)
(* leaving them strayed.                                                   *)
LEMMA RoutePopped ==
  ASSUME RouteInv, MemberInv', UNCHANGED <<rows, request>>,
         NEW n \in 1..Len(events), events' = RemoveAt(events, n), strayed \subseteq strayed',
         groupFaults \in Nat, groupFaults' \in Nat, groupFaults <= groupFaults',
         \A u \in Member \ strayed' :
           /\ ~About(n, u) /\ Shows(u) => Shows(u)'
           /\ About(n, u) => \A j \in 1..Len(events) : j < n => ~About(j, u)
           /\ /\ About(n, u) /\ Settled(u)
              /\ \A j \in 1..Len(events) : j # n => ~About(j, u)
              => Shows(u)',
         \A e \in again' : e \in again \/ (groupFaults' > 0 /\ \A u \in Touched(e) \ strayed' : Says(e, u))
  PROVE  RouteInv'
  <1> DEFINE Old(i) == IF i < n THEN i ELSE i + 1
  <1>1. /\ Len(events) \in Nat /\ Len(events') = Len(events) - 1
        /\ \A i \in 1..Len(events') : events'[i] = events[Old(i)]
    <2>1. events \in Seq(NoticeSet) /\ n \in 1..Len(events)
      BY DEF RouteInv, MemberInv, ShapeInv, Typed
    <2> DEFINE s == RemoveAt(events, n)
    <2>2. /\ s \in Seq(NoticeSet) /\ Len(s) = Len(events) - 1
          /\ \A k \in 1..(Len(events) - 1) : s[k] = IF k < n THEN events[k] ELSE events[k + 1]
      BY <2>1, RemoveFacts
    <2> HIDE DEF s
    <2>3. Len(events) \in Nat /\ events' = s
      BY <2>1 DEF s
    <2>4. ASSUME NEW i \in 1..Len(events') PROVE events'[i] = events[Old(i)]
      <3>1. events'[i] = IF i < n THEN events[i] ELSE events[i + 1]
        BY <2>2, <2>3
      <3> QED
        BY <3>1
    <2> QED
      BY <2>2, <2>3, <2>4
  <1>2. /\ \A i \in 1..Len(events') : Old(i) \in 1..Len(events) /\ Old(i) # n
        /\ \A i, k \in 1..Len(events') : k > i <=> Old(k) > Old(i)
        /\ \A j \in 1..Len(events) : j # n => \E i \in 1..Len(events') : Old(i) = j
    <2>1. \A j \in 1..Len(events) : j # n => \E i \in 1..Len(events') : Old(i) = j
      <3> SUFFICES ASSUME NEW j \in 1..Len(events), j # n
                   PROVE  \E i \in 1..Len(events') : Old(i) = j
        OBVIOUS
      <3>1. CASE j < n
        <4>1. j \in 1..Len(events') /\ Old(j) = j
          BY <1>1, <3>1
        <4> QED
          BY <4>1
      <3>2. CASE j > n
        <4>1. j - 1 \in 1..Len(events') /\ Old(j - 1) = j
          BY <1>1, <3>2
        <4> QED
          BY <4>1
      <3> QED
        BY <3>1, <3>2
    <2> QED
      BY <1>1, <2>1
  <1>3. \A u, i : i \in 1..Len(events') => (About(i, u)' <=> About(Old(i), u))
    <2> HIDE DEF Old
    <2> QED
      BY <1>1 DEF About, Touched
  <1> HIDE DEF Old
  <1>4. /\ \A h \in GroupHandler, u \in Member : Acts(h, u)' <=> Acts(h, u)
        /\ \A u \in Member : Settled(u)' <=> Settled(u)
    BY DEF Acts, Told, Settled
  <1>5. RowIsWritten' /\ ReadIsCurrent'
    BY DEF RouteInv, RowIsWritten, ReadIsCurrent, Told, Acts
  <1>6. LastIsRight'
    <2> SUFFICES ASSUME NEW u \in Member \ strayed', NEW i \in 1..Len(events'),
                        Settled(u)', About(i, u)',
                        \A j \in 1..Len(events') : j > i => ~About(j, u)'
                 PROVE  Says(events[i], u)'
      BY DEF LastIsRight
    <2>1. Settled(u) /\ Old(i) \in 1..Len(events) /\ Old(i) # n /\ About(Old(i), u)
      BY <1>2, <1>3, <1>4
    <2>2. ASSUME NEW j \in 1..Len(events), j > Old(i), About(j, u) PROVE FALSE
      <3>1. CASE j = n
        BY <2>1, <2>2, <3>1
      <3>2. CASE j # n
        <4>1. PICK k \in 1..Len(events') : Old(k) = j
          BY <1>2, <3>2
        <4>2. k > i /\ About(k, u)'
          BY <1>2, <1>3, <2>2, <4>1
        <4> QED
          BY <4>2
      <3> QED
        BY <3>1, <3>2
    <2>3. Says(events[Old(i)], u)
      BY <2>1, <2>2 DEF RouteInv, LastIsRight
    <2> QED
      BY <1>1, <2>3 DEF Says
  <1>7. AgainIsRight'
    BY DEF RouteInv, AgainIsRight, Says
  <1>8. QuietIsRight'
    <2> SUFFICES ASSUME NEW u \in Member \ strayed', Settled(u)',
                        \A i \in 1..Len(events') : ~About(i, u)'
                 PROVE  Shows(u)'
      BY DEF QuietIsRight
    <2>1. Settled(u)
      BY <1>4
    <2>2. \A j \in 1..Len(events) : j # n => ~About(j, u)
      <3> SUFFICES ASSUME NEW j \in 1..Len(events), j # n PROVE ~About(j, u)
        OBVIOUS
      <3>1. PICK k \in 1..Len(events') : Old(k) = j
        BY <1>2
      <3> QED
        BY <1>3, <3>1
    <2>3. CASE About(n, u)
      BY <2>1, <2>2, <2>3
    <2>4. CASE ~About(n, u)
      <3>1. \A j \in 1..Len(events) : ~About(j, u)
        BY <2>2, <2>4
      <3> QED
        BY <2>1, <2>4, <3>1 DEF RouteInv, QuietIsRight
    <2> QED
      BY <2>3, <2>4
  <1>9. BehindIsKnown'
    <2> SUFFICES ASSUME NEW u \in Member \ strayed', NEW i \in 1..Len(events'), About(i, u)'
                 PROVE  /\ \A h \in GroupHandler : Acts(h, u)' => request'[h].behind
                        /\ \A j \in 1..Len(events') : j > i /\ About(j, u)' => events'[j].behind
      BY DEF BehindIsKnown
    <2>1. Old(i) \in 1..Len(events) /\ About(Old(i), u)
      BY <1>2, <1>3
    <2>2. \A h \in GroupHandler : Acts(h, u)' => request'[h].behind
      BY <1>4, <2>1 DEF RouteInv, BehindIsKnown
    <2>3. ASSUME NEW j \in 1..Len(events'), j > i, About(j, u)' PROVE events'[j].behind
      <3>1. /\ Old(j) \in 1..Len(events) /\ Old(j) > Old(i) /\ About(Old(j), u)
            /\ events'[j] = events[Old(j)]
        BY <1>1, <1>2, <1>3, <2>3
      <3> QED
        BY <2>1, <3>1 DEF RouteInv, BehindIsKnown
    <2> QED
      BY <2>2, <2>3
  <1>10. WriteIsRight'
    <2> SUFFICES ASSUME groupFaults' = 0, NEW u \in Member \ strayed'
                 PROVE  /\ \A h \in GroupHandler :
                             Acts(h, u)' /\ request'[h].at = "publish" /\ ~request'[h].behind
                               => Shows(u)'
                        /\ \A i \in 1..Len(events') :
                             /\ Settled(u)' /\ About(i, u)' /\ ~events'[i].behind
                             /\ \A j \in 1..Len(events') : About(j, u)' => j = i
                             => Shows(u)'
      BY DEF WriteIsRight
    <2>1. groupFaults = 0
      OBVIOUS
    <2>2. ASSUME NEW h \in GroupHandler, Acts(h, u)', request'[h].at = "publish", ~request'[h].behind
          PROVE  Shows(u)'
      <3>1. Acts(h, u) /\ ~About(n, u)
        BY <1>4, <2>2 DEF RouteInv, BehindIsKnown
      <3> QED
        BY <2>1, <2>2, <3>1 DEF RouteInv, WriteIsRight
    <2>3. ASSUME NEW i \in 1..Len(events'), Settled(u)', About(i, u)', ~events'[i].behind,
                 \A j \in 1..Len(events') : About(j, u)' => j = i
          PROVE  Shows(u)'
      <3>1. /\ Old(i) \in 1..Len(events) /\ Old(i) # n
            /\ About(Old(i), u) /\ ~events[Old(i)].behind
        BY <1>1, <1>2, <1>3, <2>3
      <3>2. ~About(n, u)
        <4>1. CASE Old(i) < n
          BY <3>1, <4>1
        <4>2. CASE Old(i) > n
          BY <3>1, <4>2 DEF RouteInv, BehindIsKnown
        <4> QED
          BY <3>1, <4>1, <4>2
      <3>3. \A j \in 1..Len(events) : About(j, u) => j = Old(i)
        <4> SUFFICES ASSUME NEW j \in 1..Len(events), About(j, u) PROVE j = Old(i)
          OBVIOUS
        <4>1. PICK k \in 1..Len(events') : Old(k) = j
          BY <1>2, <3>2
        <4>2. k = i
          BY <1>3, <2>3, <4>1
        <4> QED
          BY <4>1, <4>2
      <3>4. Settled(u)
        BY <1>4, <2>3
      <3>5. Shows(u)
        BY <2>1, <3>1, <3>3, <3>4 DEF RouteInv, WriteIsRight
      <3> QED
        BY <3>2, <3>5
    <2> QED
      BY <2>2, <2>3
  <1> QED
    BY <1>5, <1>6, <1>7, <1>8, <1>9, <1>10 DEF RouteInv

(* A request publishes what it has written, and to nobody else. *)
LEMMA PublishFacts ==
  ASSUME RouteInv, NEW h \in GroupHandler, PublishNotice(h)
  PROVE  \E n \in NoticeSet :
           /\ events' = Append(events, n) /\ n.behind = request[h].behind
           /\ \A u \in Member : u \in Touched(n) <=> Acts(h, u)
           /\ \A u \in Member \ strayed : Acts(h, u) => Says(n, u)
  <1>t. Typed
    BY DEF RouteInv, MemberInv, ShapeInv
  <1>1. /\ request[h].at = "publish" /\ request[h].behind \in BOOLEAN /\ request[h].user \in Member
        /\ request[h].op \in {"create", "join", "answer", "leave", "kick", "dismiss"}
        /\ request[h].op = "create" => request[h].seen \union {Owner} \subseteq Member
    BY <1>t, RequestTyped, AtFacts, OwnerIsMember DEF PublishNotice, Request, Fits
  <1>2. \A u \in Member \ strayed : Acts(h, u) =>
          /\ request[h].op = "create" => (u \in request[h].seen \union {Owner} <=> rows[u] > 0)
          /\ request[h].op \in {"join", "answer"} => rows[u] > 0
          /\ request[h].op \in {"leave", "kick", "dismiss"} => rows[u] = 0
    BY <1>1 DEF RouteInv, RowIsWritten, Told
  <1>3. CASE request[h].op = "create"
    <2> DEFINE n == [op |-> "CREATE", users |-> request[h].seen \union {Owner}, behind |-> request[h].behind]
    <2>1. events' = Append(events, n)
      BY <1>3 DEF PublishNotice, Notice
    <2>2. n \in NoticeSet
      BY <1>1, <1>3 DEF NoticeSet
    <2>3. n.op = "CREATE" /\ n.users = request[h].seen \union {Owner} /\ n.behind = request[h].behind
      OBVIOUS
    <2> HIDE DEF n
    <2> QED
      BY <1>2, <1>3, <2>1, <2>2, <2>3 DEF Touched, Acts, Says
  <1>4. CASE request[h].op \in {"leave", "kick"}
    <2> DEFINE n == [op |-> "LEAVE", users |-> {request[h].user}, behind |-> request[h].behind]
    <2>1. events' = Append(events, n)
      BY <1>4 DEF PublishNotice, Notice
    <2>2. n \in NoticeSet
      BY <1>1, <1>4 DEF NoticeSet
    <2>3. n.op = "LEAVE" /\ n.users = {request[h].user} /\ n.behind = request[h].behind
      OBVIOUS
    <2> HIDE DEF n
    <2> QED
      BY <1>2, <1>4, <2>1, <2>2, <2>3 DEF Touched, Acts, Says
  <1>5. CASE request[h].op = "dismiss"
    <2> DEFINE n == [op |-> "DISMISS", users |-> Member, behind |-> request[h].behind]
    <2>1. events' = Append(events, n)
      BY <1>5 DEF PublishNotice, Notice
    <2>2. n \in NoticeSet
      BY <1>1, <1>5 DEF NoticeSet
    <2>3. n.op = "DISMISS" /\ n.users = Member /\ n.behind = request[h].behind
      OBVIOUS
    <2> HIDE DEF n
    <2> QED
      BY <1>2, <1>5, <2>1, <2>2, <2>3 DEF Touched, Acts, Says
  <1>6. CASE request[h].op \in {"join", "answer"}
    <2> DEFINE n == [op |-> "JOIN", users |-> {request[h].user}, behind |-> request[h].behind]
    <2>1. events' = Append(events, n)
      BY <1>6 DEF PublishNotice, Notice
    <2>2. n \in NoticeSet
      BY <1>1, <1>6 DEF NoticeSet
    <2>3. n.op = "JOIN" /\ n.users = {request[h].user} /\ n.behind = request[h].behind
      OBVIOUS
    <2> HIDE DEF n
    <2> QED
      BY <1>2, <1>6, <2>1, <2>2, <2>3 DEF Touched, Acts, Says
  <1> QED
    BY <1>1, <1>3, <1>4, <1>5, <1>6

LEMMA RoutePublished ==
  ASSUME RouteInv, MemberInv', NEW h \in GroupHandler, PublishNotice(h)
  PROVE  RouteInv'
  <1>t. Typed
    BY DEF RouteInv, MemberInv, ShapeInv
  <1>1. PICK n \in NoticeSet :
           /\ events' = Append(events, n) /\ n.behind = request[h].behind
           /\ \A u \in Member : u \in Touched(n) <=> Acts(h, u)
           /\ \A u \in Member \ strayed : Acts(h, u) => Says(n, u)
    BY PublishFacts
  <1>2. UNCHANGED <<rows, route, again, strayed, groupFaults>> /\ request[h].at = "publish"
    BY DEF PublishNotice, groupVars, historyVars
  <1>3. Ended(h)
    BY <1>t, DoneGoes
  <1>4. request[h].op # "sync"
    BY <1>t, <1>2, AtFacts
  <1>5. /\ \A g \in GroupHandler \ {h} : request'[g] = request[g]
        /\ request'[h].op = "none" /\ request'[h].at = "idle"
    BY <1>3 DEF Ended, Others, Free
  <1>6. \A g \in GroupHandler, u \in Member : Acts(g, u)' => g # h /\ Acts(g, u)
    BY <1>5 DEF Acts
  <1>k. PICK k \in Nat : k = Len(events) + 1
    BY <1>t DEF Typed
  <1>7. /\ Len(events) \in Nat /\ k = Len(events) + 1 /\ Len(events') = k
        /\ \A i \in 1..Len(events) : i \in 1..Len(events') /\ events'[i] = events[i]
        /\ events'[k] = n /\ k \in 1..Len(events')
        /\ \A i \in 1..Len(events') : i \in 1..Len(events) \/ i = k
    BY <1>t, <1>k, <1>1 DEF Typed
  <1>8. \A u \in Member : /\ \A i \in 1..Len(events) : About(i, u)' <=> About(i, u)
                          /\ About(k, u)' <=> Acts(h, u)
    BY <1>1, <1>7 DEF About, Touched
  <1>9. \A u \in Member : ~Acts(h, u) => (Settled(u)' <=> Settled(u))
    BY <1>5 DEF Settled, Told, Acts
  <1>10. \A u \in Member : ~Acts(h, u) =>
           \A i \in 1..Len(events') : About(i, u)' => i \in 1..Len(events) /\ About(i, u)
    BY <1>7, <1>8
  <1>11. RowIsWritten'
    BY <1>2, <1>5 DEF RouteInv, RowIsWritten, Told, Acts
  <1>12. ReadIsCurrent'
    BY <1>2, <1>5 DEF RouteInv, ReadIsCurrent
  <1>13. LastIsRight'
    <2> SUFFICES ASSUME NEW u \in Member \ strayed, NEW i \in 1..Len(events'),
                        Settled(u)', About(i, u)',
                        \A j \in 1..Len(events') : j > i => ~About(j, u)'
                 PROVE  Says(events[i], u)'
      BY <1>2 DEF LastIsRight
    <2>1. CASE Acts(h, u)
      <3>1. i = k
        BY <1>7, <1>8, <2>1
      <3>2. Says(n, u)
        BY <1>1, <2>1
      <3> QED
        BY <1>2, <1>7, <3>1, <3>2 DEF Says
    <2>2. CASE ~Acts(h, u)
      <3>1. i \in 1..Len(events) /\ About(i, u) /\ Settled(u)
        BY <1>9, <1>10, <2>2
      <3>2. \A j \in 1..Len(events) : j > i => ~About(j, u)
        BY <1>7, <1>8
      <3>3. Says(events[i], u)
        BY <3>1, <3>2 DEF RouteInv, LastIsRight
      <3> QED
        BY <1>2, <1>7, <3>1, <3>3 DEF Says
    <2> QED
      BY <2>1, <2>2
  <1>14. AgainIsRight'
    BY <1>2 DEF RouteInv, AgainIsRight, Says
  <1>15. QuietIsRight'
    <2> SUFFICES ASSUME NEW u \in Member \ strayed, Settled(u)',
                        \A i \in 1..Len(events') : ~About(i, u)'
                 PROVE  Shows(u)'
      BY <1>2 DEF QuietIsRight
    <2>1. ~Acts(h, u)
      BY <1>7, <1>8
    <2>2. Settled(u) /\ \A i \in 1..Len(events) : ~About(i, u)
      BY <1>7, <1>8, <1>9, <2>1
    <2> QED
      BY <1>2, <2>2 DEF RouteInv, QuietIsRight, Shows
  <1>16. BehindIsKnown'
    <2> SUFFICES ASSUME NEW u \in Member \ strayed, NEW i \in 1..Len(events'), About(i, u)'
                 PROVE  /\ \A g \in GroupHandler : Acts(g, u)' => request'[g].behind
                        /\ \A j \in 1..Len(events') : j > i /\ About(j, u)' => events'[j].behind
      BY <1>2 DEF BehindIsKnown
    <2>1. CASE Acts(h, u)
      <3>1. \A g \in GroupHandler : ~Acts(g, u)'
        BY <1>6, <2>1 DEF RouteInv, MemberInv, ActsAlone
      <3>2. ASSUME NEW j \in 1..Len(events'), j > i, About(j, u)' PROVE events'[j].behind
        <4>1. i \in 1..Len(events) /\ About(i, u)
          BY <1>7, <1>8, <3>2
        <4>2. request[h].behind
          BY <2>1, <4>1 DEF RouteInv, BehindIsKnown
        <4>3. CASE j = k
          BY <1>1, <1>7, <4>2, <4>3
        <4>4. CASE j \in 1..Len(events)
          BY <1>7, <1>8, <3>2, <4>1, <4>4 DEF RouteInv, BehindIsKnown
        <4> QED
          BY <1>7, <4>3, <4>4
      <3> QED
        BY <3>1, <3>2
    <2>2. CASE ~Acts(h, u)
      <3>1. i \in 1..Len(events) /\ About(i, u)
        BY <1>10, <2>2
      <3>2. \A g \in GroupHandler : Acts(g, u)' => request'[g].behind
        BY <1>5, <1>6, <3>1 DEF RouteInv, BehindIsKnown
      <3>3. \A j \in 1..Len(events') : j > i /\ About(j, u)' => events'[j].behind
        BY <1>7, <1>10, <2>2, <3>1 DEF RouteInv, BehindIsKnown
      <3> QED
        BY <3>2, <3>3
    <2> QED
      BY <2>1, <2>2
  <1>17. WriteIsRight'
    <2> SUFFICES ASSUME groupFaults = 0, NEW u \in Member \ strayed
                 PROVE  /\ \A g \in GroupHandler :
                             Acts(g, u)' /\ request'[g].at = "publish" /\ ~request'[g].behind
                               => Shows(u)'
                        /\ \A i \in 1..Len(events') :
                             /\ Settled(u)' /\ About(i, u)' /\ ~events'[i].behind
                             /\ \A j \in 1..Len(events') : About(j, u)' => j = i
                             => Shows(u)'
      BY <1>2 DEF WriteIsRight
    <2>1. Shows(u) => Shows(u)'
      BY <1>2 DEF Shows
    <2>2. \A g \in GroupHandler :
             Acts(g, u)' /\ request'[g].at = "publish" /\ ~request'[g].behind => Shows(u)'
      BY <1>5, <1>6, <2>1 DEF RouteInv, WriteIsRight
    <2>3. ASSUME NEW i \in 1..Len(events'), Settled(u)', About(i, u)', ~events'[i].behind,
                 \A j \in 1..Len(events') : About(j, u)' => j = i
          PROVE  Shows(u)'
      <3>1. CASE Acts(h, u)
        <4>1. i = k
          BY <1>7, <1>8, <2>3, <3>1
        <4>2. ~request[h].behind
          BY <1>1, <1>7, <2>3, <4>1
        <4> QED
          BY <1>2, <2>1, <3>1, <4>2 DEF RouteInv, WriteIsRight
      <3>2. CASE ~Acts(h, u)
        <4>1. i \in 1..Len(events) /\ About(i, u) /\ Settled(u) /\ ~events[i].behind
          BY <1>7, <1>9, <1>10, <2>3, <3>2
        <4>2. \A j \in 1..Len(events) : About(j, u) => j = i
          BY <1>7, <1>8, <2>3
        <4> QED
          BY <2>1, <4>1, <4>2 DEF RouteInv, WriteIsRight
      <3> QED
        BY <3>1, <3>2
    <2> QED
      BY <2>2, <2>3
  <1> QED
    BY <1>11, <1>12, <1>13, <1>14, <1>15, <1>16, <1>17 DEF RouteInv

(***************************************************************************)
(* What a request does to the set                                          *)
(***************************************************************************)
LEMMA AboutIsNoted ==
  ASSUME NEW u, NEW i \in 1..Len(events), About(i, u)
  PROVE  NoticesOf(u) # {}
  <1>1. events[i] \in Queued /\ u \in Touched(events[i])
    BY DEF Queued, About
  <1> QED
    BY <1>1 DEF NoticesOf

(* A request that begins knows of the notices it is behind. *)
Knows(h) ==
  /\ Others(h) /\ request[h].at = "idle"
  /\ \/ request'[h].at \in {"store", "insert"}
     \/ request'[h].op = "sync" /\ request'[h].at = "route"
  /\ \A u \in Member \ strayed' : Acts(h, u)' =>
       /\ request'[h].op = "sync" => rows[u] > 0
       /\ NoticesOf(u) # {} => request'[h].behind

LEMMA RouteBegun ==
  ASSUME RouteInv, MemberInv', UNCHANGED <<rows, route, events, again>>,
         groupFaults <= groupFaults',
         strayed \subseteq strayed', NEW h \in GroupHandler, Knows(h)
  PROVE  RouteInv'
  <1>1. groupFaults \in Nat /\ groupFaults' \in Nat /\ groupFaults <= groupFaults'
    BY GroupsAssumption DEF RouteInv, MemberInv, ShapeInv, Typed
  <1>2. \A g \in GroupHandler \ {h} : RouteMove(g)
    BY DEF RouteMove, Knows, Others
  <1>3. RouteMove(h)
    <2>1. \A u \in Member \ strayed' : ~Told(h, u)' /\ ~Told(h, u)
      BY DEF Knows, Told
    <2>2. \A u \in Member \ strayed' :
             /\ Acts(h, u)' /\ request'[h].op = "sync" => rows[u] > 0
             /\ Acts(h, u)' /\ (\E i \in 1..Len(events) : About(i, u)) => request'[h].behind
      BY AboutIsNoted DEF Knows
    <2>3. request'[h].at \notin {"replace", "publish"}
      BY DEF Knows
    <2> QED
      BY <2>1, <2>2, <2>3 DEF RouteMove
  <1>4. \A u \in Member \ strayed' : Shows(u) => Shows(u)'
    BY DEF Shows
  <1> QED
    BY <1>1, <1>2, <1>3, <1>4, RouteKept

(* The direct write is right about the users of the request, and touches   *)
(* nobody else.                                                            *)
LEMMA WriteShows ==
  ASSUME RouteInv, NEW h \in GroupHandler, WriteRoute(h), NEW u \in Member \ strayed
  PROVE  /\ Shows(u) => Shows(u)'
         /\ Acts(h, u) => Shows(u)'
  <1>1. /\ request[h].at = "route" /\ UNCHANGED rows
        /\ request[h].op \in {"create", "join", "answer", "leave", "kick", "dismiss", "sync"}
    BY AtFacts DEF WriteRoute, groupVars, RouteInv, MemberInv, ShapeInv
  <1>2. Acts(h, u) =>
          /\ request[h].op = "create" => (u \in request[h].seen \union {Owner} <=> rows[u] > 0)
          /\ request[h].op \in {"join", "answer", "sync"} => rows[u] > 0
          /\ request[h].op \in {"leave", "kick", "dismiss"} => rows[u] = 0
    BY <1>1 DEF RouteInv, RowIsWritten, Told
  <1>3. CASE request[h].op = "create"
    <2>1. route' = request[h].seen \union {Owner} /\ Acts(h, u)
      BY <1>3 DEF WriteRoute, Acts
    <2> QED
      BY <1>1, <1>2, <1>3, <2>1 DEF Shows
  <1>4. CASE request[h].op \in {"leave", "kick"}
    <2>1. route' = route \ {request[h].user} /\ (Acts(h, u) <=> u = request[h].user)
      BY <1>4 DEF WriteRoute, Acts
    <2> QED
      BY <1>1, <1>2, <1>4, <2>1 DEF Shows
  <1>5. CASE request[h].op = "dismiss"
    <2>1. route' = {}
      BY <1>5 DEF WriteRoute
    <2> QED
      BY <2>1 DEF Shows
  <1>6. CASE request[h].op \in {"join", "answer", "sync"}
    <2>1. /\ route' = IF route = {} THEN {} ELSE route \union {request[h].user}
          /\ Acts(h, u) <=> u = request[h].user
      BY <1>6 DEF WriteRoute, AddRoute, Acts
    <2> QED
      BY <1>1, <1>2, <1>6, <2>1 DEF Shows
  <1> QED
    BY <1>1, <1>3, <1>4, <1>5, <1>6

(* Every write is fallible, but only one call fails in a behaviour.        *)
OneFault == MaxGroupFaults <= 1

LEMMA FaultIsFirst ==
  ASSUME OneFault, Typed, GroupFault
  PROVE  groupFaults = 0 /\ groupFaults' = 1
  BY FaultFacts, GroupsAssumption DEF OneFault, Typed

LEMMA RouteInit == GroupsInit => RouteInv
  <1> SUFFICES ASSUME GroupsInit PROVE RouteInv
    OBVIOUS
  <1>1. \A h \in GroupHandler : request[h].op = "none" /\ request[h].at = "idle"
    BY DEF GroupsInit, Free
  <1>2. events = <<>> /\ again = {} /\ route = {}
    BY DEF GroupsInit
  <1>3. RowIsWritten /\ ReadIsCurrent /\ AgainIsRight /\ QuietIsRight
    BY <1>1, <1>2 DEF RowIsWritten, ReadIsCurrent, AgainIsRight, QuietIsRight, Shows, Told, Acts
  <1>4. LastIsRight /\ BehindIsKnown /\ WriteIsRight
    BY <1>1, <1>2 DEF LastIsRight, BehindIsKnown, WriteIsRight, Acts
  <1> QED
    BY <1>3, <1>4, MemberInit DEF RouteInv

LEMMA RouteStep ==
  ASSUME OneFault
  PROVE  RouteInv /\ [GroupsNext]_groupsVars => RouteInv'
  <1> SUFFICES ASSUME RouteInv, [GroupsNext]_groupsVars PROVE RouteInv'
    OBVIOUS
  <1>t. Typed /\ NothingYet /\ ShapeInv /\ MemberInv /\ MemberInv' /\ groupFaults \in Nat
    BY MemberStep, GroupsAssumption DEF RouteInv, MemberInv, ShapeInv, Typed
  <1>f. Free.op = "none" /\ Free.at = "idle"
    BY DEF Free
  <1>m. \A h \in GroupHandler : request'[h] = request[h] => RouteMove(h)
    BY DEF RouteMove
  (* What is read and checked first. *)
  <1>1. ASSUME NEW h \in GroupHandler, NEW listed \in SUBSET Member, CreateGroup(h, listed)
        PROVE  RouteInv'
    <2>1. Began(h, "create", Owner, "store")
      BY <1>t, <1>1, CreateFacts
    <2>2. UNCHANGED <<rows, route, events, again, groupFaults, strayed>>
      BY <1>1 DEF CreateGroup, groupVars, noticeVars, historyVars
    <2>3. \A u : NoticesOf(u) = {}
      <3>1. events = <<>> /\ again = {}
        BY <1>t, <1>1 DEF CreateGroup, NothingYet
      <3>2. Queued = {}
        BY <3>1 DEF Queued
      <3> QED
        BY <3>2 DEF NoticesOf
    <2>q. Knows(h) /\ strayed \subseteq strayed'
      BY <2>1, <2>2, <2>3 DEF Began, Knows
    <2> QED
      BY <1>t, <2>1, <2>2, <2>q, RouteBegun
  <1>2. ASSUME NEW h \in GroupHandler, NEW u \in GroupUser, JoinGroup(h, u) PROVE RouteInv'
    <2>1. u \in Member /\ Begin(h, "join", u, "insert")
          /\ UNCHANGED <<rows, route, events, again>> /\ groupFaults <= groupFaults'
      BY <1>t, <1>2, FoundFacts DEF JoinGroup, Member, noticeVars
    <2>2. /\ Began(h, "join", u, "insert") /\ strayed \subseteq strayed'
          /\ NoticesOf(u) # {} => request'[h].behind
      BY <1>t, <2>1, BeginFacts
    <2>3. \A m \in Member : Acts(h, m)' => m = u
      BY <2>2 DEF Began, Acts
    <2>q. Knows(h) /\ strayed \subseteq strayed'
      BY <2>1, <2>2, <2>3 DEF Began, Knows
    <2> QED
      BY <1>t, <2>1, <2>2, <2>q, RouteBegun
  <1>3. ASSUME NEW h \in GroupHandler, NEW u \in GroupUser, NEW invite \in BOOLEAN,
               AskToJoin(h, u, invite)
        PROVE  RouteInv'
    <2>1. Began(h, "ask", u, "store")
      BY <1>t, <1>3, AskFacts
    <2>2. UNCHANGED <<rows, route, events, again, strayed>>
      BY <1>3 DEF AskToJoin, noticeVars, historyVars
    <2>3. groupFaults <= groupFaults'
      BY <1>t, <1>3, AskFaultFacts
    <2>4. \A m \in Member : ~Acts(h, m)'
      BY <2>1 DEF Began, Acts
    <2>q. Knows(h) /\ strayed \subseteq strayed'
      BY <2>1, <2>2, <2>4 DEF Began, Knows
    <2> QED
      BY <1>t, <2>1, <2>2, <2>3, <2>q, RouteBegun
  <1>4. ASSUME NEW h \in GroupHandler, NEW u \in Member,
               \/ \E kicked \in BOOLEAN : LeaveGroup(h, u, kicked)
               \/ u = Owner /\ DismissGroup(h)
               \/ GetUserGroupIDs(h, u)
        PROVE  RouteInv'
    <2>1. PICK op, at : /\ Begin(h, op, u, at)
                        /\ \/ op \in {"leave", "kick", "dismiss"} /\ at = "store"
                           \/ op = "sync" /\ at = "route"
      BY <1>4 DEF LeaveGroup, DismissGroup, GetUserGroupIDs
    <2>2. UNCHANGED <<rows, route, events, again, groupFaults>> /\ rows[u] > 0
      BY <1>4 DEF LeaveGroup, DismissGroup, GetUserGroupIDs, groupVars, noticeVars
    <2>3. /\ Began(h, op, u, at) /\ strayed \subseteq strayed'
          /\ \A m \in Member : (m = u \/ op = "dismiss") /\ NoticesOf(m) # {} => request'[h].behind
      BY <1>t, <2>1, BeginFacts
    <2>4. \A m \in Member : Acts(h, m)' => m = u \/ op = "dismiss"
      BY <2>1, <2>3 DEF Began, Acts
    <2>q. Knows(h) /\ strayed \subseteq strayed'
      BY <2>1, <2>2, <2>3, <2>4 DEF Began, Knows
    <2> QED
      BY <1>t, <2>1, <2>2, <2>q, RouteBegun
  <1>5. ASSUME NEW h \in GroupHandler, NEW p \in Petition, NEW accept \in BOOLEAN,
               AnswerPetition(h, p, accept)
        PROVE  RouteInv'
    <2> DEFINE u == petitions[p].user
    <2>1. /\ Began(h, "answer", u, "store") /\ strayed \subseteq strayed'
          /\ NoticesOf(u) # {} => request'[h].behind
      BY <1>t, <1>5, AnswerFacts
    <2>2. UNCHANGED <<rows, route, events, again, groupFaults>>
      BY <1>5 DEF AnswerPetition, groupVars, noticeVars
    <2> HIDE DEF u
    <2>3. \A m \in Member : Acts(h, m)' => m = u
      BY <2>1 DEF Began, Acts
    <2>q. Knows(h) /\ strayed \subseteq strayed'
      BY <2>1, <2>2, <2>3 DEF Began, Knows
    <2> QED
      BY <1>t, <2>1, <2>2, <2>q, RouteBegun
  <1>6. ASSUME NEW h \in GroupHandler, UpdateGroup(h) PROVE RouteInv'
    <2>1. Began(h, "update", Owner, "store")
      BY <1>t, <1>6, UpdateGroupFacts
    <2>2. UNCHANGED <<rows, route, events, again, groupFaults, strayed>>
          /\ \A m \in Member : ~Acts(h, m)'
      BY <1>6, <2>1 DEF UpdateGroup, noticeVars, historyVars, Began, Acts
    <2>q. Knows(h) /\ strayed \subseteq strayed'
      BY <2>1, <2>2 DEF Began, Knows
    <2> QED
      BY <1>t, <2>1, <2>2, <2>q, RouteBegun
  (* The row writes: nobody reads the rows meanwhile, and no old notice is   *)
  (* to come, or the user is strayed.                                        *)
  <1>7. ASSUME NEW h \in GroupHandler, RowStep(h) PROVE RouteInv'
    <2>1. Went(h, "route") /\ request'[h].seen = request[h].seen
      BY <1>t, <1>7, RowStepGoes
    <2>2. UNCHANGED <<route, events, again, groupFaults>> /\ strayed \subseteq strayed'
      BY <1>7 DEF RowStep, StoreGroup, InsertMember, DeleteMember, DeleteGroup, noticeVars
    <2>3. /\ request[h].op \in {"create", "answer", "join", "leave", "kick", "dismiss"}
          /\ request[h].at \in {"store", "insert"}
      BY <1>t, <1>7, AtFacts DEF RowStep, StoreGroup, InsertMember, DeleteMember, DeleteGroup
    <2>4. request[h].user \in Member /\ rows \in [Member -> Nat]
      BY <1>t, ActsFacts DEF Typed
    <2> DEFINE Alone(u) == /\ \A g \in GroupHandler \ {h} : request[g].at # "replace"
                           /\ \A e \in again : u \notin Touched(e)
               Written(u) ==
                 /\ request[h].op = "create" => (u \in request[h].seen \union {Owner} <=> rows'[u] > 0)
                 /\ request[h].op \in {"join", "answer"} => rows'[u] > 0
                 /\ request[h].op \in {"leave", "kick", "dismiss"} => rows'[u] = 0
    <2>5. \A users, u : u \in users \ Outrun(h, users) => Alone(u)
      BY DEF Outrun
    <2>6. /\ \A u \in Member \ strayed' : rows'[u] # rows[u] => Acts(h, u) /\ Alone(u)
          /\ \A u \in Member \ strayed' : Acts(h, u) => Written(u)
      <3>1. CASE StoreGroup(h)
        <4>1. request[h].op = "create" /\ request[h].at = "store"
              /\ rows' = [m \in Member |-> IF m \in request[h].seen \union {Owner} THEN 1 ELSE 0]
          BY <3>1 DEF StoreGroup
        <4>2. again = {} /\ \A g \in GroupHandler \ {h} : request[g].at = "idle"
          BY <1>t, <4>1 DEF NothingYet, Busy
        <4> QED
          BY <4>1, <4>2 DEF Acts
      <3>2. CASE InsertMember(h)
        <4>1. /\ request[h].op \in {"join", "answer"} /\ Acts(h, request[h].user)
              /\ rows' = [rows EXCEPT ![request[h].user] = @ + 1]
              /\ strayed' = strayed \union Outrun(h, {request[h].user})
          BY <1>t, <3>2, AtFacts, ActsFacts DEF InsertMember
        <4>2. /\ \A u \in Member : rows'[u] # rows[u] => u = request[h].user
              /\ rows'[request[h].user] > 0
          BY <2>4, <4>1
        <4>3. \A u \in Member : Acts(h, u) => u = request[h].user
          BY <4>1 DEF Acts
        <4>4. request[h].user \notin strayed' => Alone(request[h].user)
          BY <2>5, <4>1
        <4> HIDE DEF Alone
        <4> QED
          BY <4>1, <4>2, <4>3, <4>4
      <3>3. CASE DeleteMember(h)
        <4>1. /\ request[h].op \in {"leave", "kick"} /\ Acts(h, request[h].user)
              /\ rows' = [rows EXCEPT ![request[h].user] = 0]
              /\ strayed' = strayed \union Outrun(h, {request[h].user})
          BY <3>3 DEF DeleteMember, Acts
        <4>2. /\ \A u \in Member : rows'[u] # rows[u] => u = request[h].user
              /\ rows'[request[h].user] = 0
          BY <2>4, <4>1
        <4>3. \A u \in Member : Acts(h, u) => u = request[h].user
          BY <4>1 DEF Acts
        <4>4. request[h].user \notin strayed' => Alone(request[h].user)
          BY <2>5, <4>1
        <4> HIDE DEF Alone
        <4> QED
          BY <4>1, <4>2, <4>3, <4>4
      <3>4. CASE DeleteGroup(h)
        <4>1. /\ request[h].op = "dismiss" /\ rows' = [m \in Member |-> 0]
              /\ strayed' = strayed \union Outrun(h, Member)
          BY <3>4 DEF DeleteGroup
        <4>2. \A u \in Member \ strayed' : Alone(u)
          BY <2>5, <4>1
        <4> HIDE DEF Alone
        <4> QED
          BY <4>1, <4>2 DEF Acts
      <3> QED
        BY <1>7, <3>1, <3>2, <3>3, <3>4 DEF RowStep
    <2> QED
      BY <1>t, <2>1, <2>2, <2>3, <2>6, RouteWritten
  (* Between the two. *)
  <1>8. ASSUME NEW h \in GroupHandler,
               UpdatePetition(h) \/ AdmitUser(h) \/ InsertPetition(h) \/ SaveGroup(h)
        PROVE  RouteInv'
    <2>1. /\ UNCHANGED <<rows, route, events, again, strayed>>
          /\ groupFaults' \in Nat /\ groupFaults <= groupFaults'
      <3>1. CASE AdmitUser(h)
        BY <1>t, <3>1, AdmitFacts, GroupsAssumption DEF noticeVars
      <3> QED
        BY <1>t, <1>8, <3>1 DEF UpdatePetition, InsertPetition, SaveGroup, groupVars, noticeVars, historyVars
    <2>2. /\ Others(h) /\ request[h].at \in {"store", "admit"}
          /\ \/ request'[h] = Free
             \/ /\ request'[h].op = request[h].op /\ request'[h].user = request[h].user
                /\ request'[h].behind = request[h].behind
                /\ request[h].op = "answer" /\ request'[h].at \in {"admit", "insert"}
      <3>1. CASE UpdatePetition(h) \/ AdmitUser(h)
        <4>1. request[h].at \in {"store", "admit"}
          BY <3>1 DEF UpdatePetition, AdmitUser
        <4> QED
          BY <1>t, <3>1, <4>1, AnswerGoes DEF Went, Ended
      <3>2. CASE InsertPetition(h) \/ SaveGroup(h)
        <4>1. request[h].at = "store"
          BY <1>t, <3>2, AtFacts DEF InsertPetition, SaveGroup
        <4> QED
          BY <1>t, <3>2, <4>1, DoneGoes DEF Ended
      <3> QED
        BY <1>8, <3>1, <3>2
    <2>3. RouteMove(h)
      <3>1. \A u \in Member : ~Told(h, u) /\ ~Told(h, u)'
        BY <1>f, <2>2 DEF Told
      <3>2. \A u \in Member \ strayed' :
              /\ Acts(h, u)' /\ request'[h].op = "sync" => rows[u] > 0
              /\ Acts(h, u)' /\ (\E i \in 1..Len(events) : About(i, u)) => request'[h].behind
        BY <1>f, <2>1, <2>2 DEF Acts, RouteInv, BehindIsKnown
      <3> QED
        BY <1>f, <2>2, <3>1, <3>2 DEF RouteMove
    <2>4. \A u \in Member \ strayed' : Shows(u) => Shows(u)'
      BY <2>1 DEF Shows
    <2> QED
      BY <1>t, <1>m, <2>1, <2>2, <2>3, <2>4, RouteKept DEF Others
  (* The set is written. *)
  <1>9. ASSUME NEW h \in GroupHandler, WriteRoute(h) PROVE RouteInv'
    <2>1. UNCHANGED <<rows, events, again, strayed, groupFaults>> /\ request[h].at = "route"
      BY <1>9 DEF WriteRoute, groupVars, historyVars
    <2>2. \/ /\ request[h].op \in {"join", "answer"}
             /\ Went(h, "replace") /\ request'[h].seen = Joined
          \/ request[h].op = "sync" /\ Ended(h)
          \/ /\ request[h].op # "sync"
             /\ Went(h, "publish") /\ request'[h].seen = request[h].seen
      BY <1>t, <1>9, WriteRouteGoes
    <2>3. \A u \in Member \ strayed' : /\ Shows(u) => Shows(u)'
                                       /\ Acts(h, u) => Shows(u)'
      BY <1>9, <2>1, WriteShows
    <2>4. RouteMove(h)
      <3>1. CASE request[h].op = "sync" /\ Ended(h)
        BY <1>f, <3>1 DEF RouteMove, Ended, Told, Acts
      <3>2. CASE request[h].op # "sync" /\ (Went(h, "replace") \/ Went(h, "publish"))
        BY <2>1, <2>2, <2>3, <3>2 DEF RouteMove, Went
      <3> QED
        BY <2>2, <3>1, <3>2
    <2>5. Others(h)
      BY <2>2 DEF Went, Ended
    <2> QED
      BY <1>t, <1>m, <2>1, <2>3, <2>4, <2>5, RouteKept DEF Others
  <1>10. ASSUME NEW h \in GroupHandler, ReplaceRoute(h) PROVE RouteInv'
    <2>1. UNCHANGED <<rows, events, again, strayed, groupFaults>> /\ request[h].at = "replace"
          /\ route' = request[h].seen
      BY <1>10 DEF ReplaceRoute, groupVars, historyVars
    <2>2. request[h].op # "sync" /\ Went(h, "publish") /\ request'[h].seen = request[h].seen
      BY <1>t, <1>10, <2>1, ReplaceRouteGoes, AtFacts
    <2>3. \A u \in Member \ strayed' : Shows(u)'
      BY <2>1 DEF RouteInv, ReadIsCurrent, Shows
    <2>4. RouteMove(h)
      BY <2>1, <2>2, <2>3 DEF RouteMove, Went
    <2> QED
      BY <1>t, <1>m, <2>1, <2>2, <2>3, <2>4, RouteKept DEF Went, Others
  <1>11. ASSUME NEW h \in GroupHandler, RouteFails(h) PROVE RouteInv'
    <2>1. UNCHANGED <<rows, route, events, again, strayed>> /\ request[h].at \in {"route", "replace"}
          /\ groupFaults = 0 /\ groupFaults' = 1
      BY <1>t, <1>11, FaultIsFirst DEF RouteFails, groupVars, noticeVars, historyVars
    <2>2. \/ request[h].op = "sync" /\ Ended(h)
          \/ request[h].op # "sync" /\ Went(h, "publish") /\ request'[h].seen = request[h].seen
      BY <1>t, <1>11, <2>1, AfterRouteGoes DEF RouteFails
    <2>3. RouteMove(h)
      <3>1. CASE request[h].op = "sync" /\ Ended(h)
        BY <1>f, <3>1 DEF RouteMove, Ended, Told, Acts
      <3>2. CASE request[h].op # "sync" /\ Went(h, "publish") /\ request'[h].seen = request[h].seen
        BY <2>1, <3>2 DEF RouteMove, Went
      <3> QED
        BY <2>2, <3>1, <3>2
    <2>4. Others(h) /\ \A u \in Member \ strayed' : Shows(u) => Shows(u)'
      BY <2>1, <2>2 DEF Went, Ended, Shows
    <2> QED
      BY <1>t, <1>m, <2>1, <2>3, <2>4, RouteKept DEF Others
  (* A request ends: with its notice, without it, or before its time. *)
  <1>12. ASSUME NEW h \in GroupHandler, PublishNotice(h) PROVE RouteInv'
    BY <1>t, <1>12, RoutePublished
  <1>13. ASSUME NEW h \in GroupHandler, PublishFails(h) \/ RequestDies(h) PROVE RouteInv'
    <2>1. UNCHANGED <<rows, route, events, again>> /\ strayed \subseteq strayed'
          /\ groupFaults = 0 /\ groupFaults' = 1
      BY <1>t, <1>13, FaultIsFirst DEF PublishFails, RequestDies, groupVars, noticeVars
    <2>2. Ended(h)
      BY <1>t, <1>13, DoneGoes
    <2>3. \A u \in Member \ strayed' : Told(h, u) =>
            Shows(u)' /\ \A i \in 1..Len(events) : ~About(i, u)
      <3> SUFFICES ASSUME NEW u \in Member \ strayed', Told(h, u)
                   PROVE  Shows(u)' /\ \A i \in 1..Len(events) : ~About(i, u)
        OBVIOUS
      <3>1. Acts(h, u) /\ u \notin strayed
        BY <2>1 DEF Told
      <3>2. CASE PublishFails(h)
        <4>1. ~request[h].behind
          <5>1. request[h].op = "create" => ~request[h].behind
            BY <1>t, RequestTyped DEF Fits
          <5>2. CASE request[h].op # "create"
            BY <3>1, <3>2, <5>2 DEF PublishFails, Acts
          <5> QED
            BY <5>1, <5>2
        <4>2. \A i \in 1..Len(events) : ~About(i, u)
          BY <3>1, <4>1 DEF RouteInv, BehindIsKnown
        <4>3. Shows(u)
          BY <2>1, <3>1, <3>2, <4>1 DEF RouteInv, WriteIsRight, PublishFails
        <4> QED
          BY <2>1, <4>2, <4>3 DEF Shows
      <3>3. CASE RequestDies(h)
        <4>1. u \in strayed'
          BY <3>1, <3>3 DEF RequestDies, Told, Acts
        <4> QED
          BY <4>1
      <3> QED
        BY <1>13, <3>2, <3>3
    <2>4. RouteMove(h)
      BY <1>f, <2>2, <2>3 DEF RouteMove, Ended, Told, Acts
    <2>5. Others(h) /\ \A u \in Member \ strayed' : Shows(u) => Shows(u)'
      BY <2>1, <2>2 DEF Ended, Shows
    <2> QED
      BY <1>t, <1>m, <2>1, <2>4, <2>5, RouteKept DEF Others
  (* A notice is replayed, or dropped, or is to come once more. *)
  <1>h. ASSUME NEW i \in 1..Len(events)
        PROVE  /\ events[i] \in NoticeSet
               /\ \A u : About(i, u) <=> u \in Touched(events[i])
               /\ \A u \in Member \ strayed :
                    /\ About(i, u) /\ Settled(u)
                    /\ \A j \in 1..Len(events) : j # i => ~About(j, u)
                    => Says(events[i], u)
    <2>1. events[i] \in NoticeSet
      BY <1>t DEF Typed
    <2>2. \A u : About(i, u) <=> u \in Touched(events[i])
      BY DEF About
    <2>3. \A j \in 1..Len(events) : j > i => j # i
      OBVIOUS
    <2> QED
      BY <2>1, <2>2, <2>3 DEF RouteInv, LastIsRight
  <1>14. ASSUME NEW i \in 1..Len(events), SyncGroupRoute(i) PROVE RouteInv'
    <2>1. UNCHANGED <<rows, request, again, groupFaults>> /\ strayed \subseteq strayed'
          /\ events' = RemoveAt(events, i) /\ route' = Replayed(events[i])
      BY <1>14 DEF SyncGroupRoute, groupVars
    <2>2. \A u \in Member :
            /\ About(i, u) /\ Says(events[i], u) => Shows(u)'
            /\ ~About(i, u) /\ Shows(u) => Shows(u)'
      BY <1>t, <1>h, <2>1, ReplayFacts
    <2>3. \A u \in Member \ strayed' :
            About(i, u) => \A j \in 1..Len(events) : j < i => ~About(j, u)
      <3> SUFFICES ASSUME NEW u \in Member \ strayed', About(i, u),
                          NEW j \in 1..Len(events), j < i, About(j, u)
                   PROVE  FALSE
        OBVIOUS
      <3>1. j \in 1..(i - 1) /\ u \in Touched(events[i]) \intersect Touched(events[j])
        BY DEF About
      <3>2. u \in Overtaken(i)
        BY <3>1 DEF Overtaken
      <3> QED
        BY <1>14, <3>2 DEF SyncGroupRoute
    <2> QED
      BY <1>t, <1>h, <2>1, <2>2, <2>3, RoutePopped
  <1>15. ASSUME NEW i \in 1..Len(events), SyncFails(i) PROVE RouteInv'
    <2>1. UNCHANGED <<rows, request, again, route>>
          /\ events' = RemoveAt(events, i) /\ strayed \subseteq strayed'
          /\ groupFaults = 0 /\ groupFaults' = 1
          /\ \A u \in Touched(events[i]) \ strayed' : ~events[i].behind
      BY <1>t, <1>15, FaultIsFirst DEF SyncFails, groupVars
    <2>2. \A u \in Member \ strayed' :
            About(i, u) => \A j \in 1..Len(events) : j < i => ~About(j, u)
      BY <1>h, <2>1 DEF RouteInv, BehindIsKnown
    <2>3. \A u \in Member \ strayed' :
            /\ About(i, u) /\ Settled(u)
            /\ \A j \in 1..Len(events) : j # i => ~About(j, u)
            => Shows(u)
      <3> SUFFICES ASSUME NEW u \in Member \ strayed', About(i, u), Settled(u),
                          \A j \in 1..Len(events) : j # i => ~About(j, u)
                   PROVE  Shows(u)
        OBVIOUS
      <3>1. ~events[i].behind /\ u \notin strayed
        BY <1>h, <2>1
      <3>2. \A j \in 1..Len(events) : About(j, u) => j = i
        OBVIOUS
      <3> QED
        BY <2>1, <3>1, <3>2 DEF RouteInv, WriteIsRight
    <2>4. \A u \in Member : Shows(u) => Shows(u)'
      BY <2>1 DEF Shows
    <2> QED
      BY <1>t, <2>1, <2>2, <2>3, <2>4, RoutePopped
  <1>16. ASSUME NEW i \in 1..Len(events), AckIsLost(i) PROVE RouteInv'
    <2>1. UNCHANGED <<rows, request>>
          /\ events' = RemoveAt(events, i) /\ route' = Replayed(events[i])
          /\ again' = again \union {events[i]} /\ strayed \subseteq strayed'
          /\ groupFaults = 0 /\ groupFaults' = 1
      BY <1>t, <1>16, FaultIsFirst DEF AckIsLost, groupVars
    <2>2. \A u \in Member :
            /\ About(i, u) /\ Says(events[i], u) => Shows(u)'
            /\ ~About(i, u) /\ Shows(u) => Shows(u)'
      BY <1>t, <1>h, <2>1, ReplayFacts
    <2>3. ASSUME NEW u \in Touched(events[i]) \ strayed'
          PROVE  /\ \A j \in 1..Len(events) : j # i => ~About(j, u)
                 /\ Says(events[i], u)
      <3>1. u \in Member
        BY <1>h DEF Touched, NoticeSet
      <3>2. /\ \A j \in 1..Len(events) : j # i => u \notin Touched(events[j])
            /\ \A h \in GroupHandler : ~Concerns(h, u)
        BY <1>16 DEF AckIsLost
      <3>3. Settled(u)
        BY <1>t, <3>1, <3>2, ActsFacts DEF Settled, Told
      <3>4. \A j \in 1..Len(events) : j # i => ~About(j, u)
        BY <3>2 DEF About
      <3>5. About(i, u)
        BY DEF About
      <3> QED
        BY <1>h, <2>1, <3>1, <3>3, <3>4, <3>5
    <2>4. \A u \in Member \ strayed' :
            About(i, u) => \A j \in 1..Len(events) : j < i => ~About(j, u)
      BY <2>3 DEF About
    <2>5. \A u \in Member \ strayed' : About(i, u) => Shows(u)'
      BY <2>2, <2>3 DEF About
    <2>6. \A e \in again' :
            e \in again \/ (groupFaults' > 0 /\ \A u \in Touched(e) \ strayed' : Says(e, u))
      BY <2>1, <2>3
    <2> QED
      BY <1>t, <2>1, <2>2, <2>4, <2>5, <2>6, RoutePopped
  (* An old notice comes once more; keys expire. *)
  <1>17. ASSUME NEW e \in again, SyncAgain(e) PROVE RouteInv'
    <2>1. UNCHANGED <<rows, events, request, strayed, groupFaults>> /\ again' \subseteq again
          /\ route' = Replayed(e) /\ e \in NoticeSet
      BY <1>t, <1>17 DEF SyncAgain, groupVars, historyVars, Typed
    <2>2. \A u \in Member \ strayed' : Shows(u) => Shows(u)'
      BY <1>t, <2>1, ReplayFacts DEF RouteInv, AgainIsRight
    <2> QED
      BY <1>t, <1>m, <2>1, <2>2, RouteKept
  <1>18. ASSUME RouteExpires \/ GroupCacheExpires \/ UNCHANGED groupsVars, strayed' = strayed
         PROVE  RouteInv'
    <2>1. UNCHANGED <<rows, events, again, request, groupFaults>>
          /\ (route' = {} \/ route' = route)
      BY <1>18
      DEF RouteExpires, GroupCacheExpires, groupsVars, groupVars, noticeVars
    <2>2. \A u \in Member \ strayed' : Shows(u) => Shows(u)'
      BY <2>1 DEF Shows
    <2> QED
      BY <1>t, <1>m, <1>18, <2>1, <2>2, RouteKept
  (* With nothing under way the set is gone with all that was wrong. *)
  <1>19. ASSUME RouteExpires, strayed' # strayed PROVE RouteInv'
    <2>1. /\ events' = events /\ again' = {} /\ request' = request /\ route' = {}
          /\ Queued = {} /\ \A h \in GroupHandler : ~Busy(h)
      BY <1>19 DEF RouteExpires, Queued
    <2>2. Len(events') = 0
      <3>1. \A i \in 1..Len(events) : events[i] \in Queued
        BY DEF Queued
      <3> QED
        BY <1>t, <2>1, <3>1 DEF Typed
    <2>3. \A h \in GroupHandler, u \in Member : ~Acts(h, u) /\ request[h].at = "idle"
      BY <1>t, <2>1, ActsFacts DEF Busy, Concerns
    <2>4. \A h \in GroupHandler, u \in Member : ~Acts(h, u)' /\ ~Told(h, u)' /\ request'[h].at = "idle"
      BY <2>1, <2>3 DEF Acts, Told
    <2>5. \A u \in Member : Shows(u)'
      BY <2>1 DEF Shows
    <2>6. RowIsWritten' /\ ReadIsCurrent' /\ AgainIsRight' /\ QuietIsRight'
      BY <2>1, <2>4, <2>5 DEF RowIsWritten, ReadIsCurrent, AgainIsRight, QuietIsRight
    <2>7. LastIsRight' /\ BehindIsKnown' /\ WriteIsRight'
      BY <2>2, <2>5 DEF LastIsRight, BehindIsKnown, WriteIsRight
    <2> QED
      BY <1>t, <2>6, <2>7 DEF RouteInv
  <1>20. strayed' = strayed \/ ~(GroupCacheExpires \/ UNCHANGED groupsVars)
    BY DEF GroupCacheExpires, groupsVars, historyVars
  <1> QED
    BY <1>1, <1>2, <1>3, <1>4, <1>5, <1>6, <1>7, <1>8, <1>9, <1>10, <1>11, <1>12, <1>13, <1>14,
       <1>15, <1>16, <1>17, <1>18, <1>19, <1>20, OwnerIsMember
    DEF GroupsNext, RowStep

(* As long as a single call fails, a member set that exists with nothing   *)
(* under way holds exactly the members of the database, for every user     *)
(* about whom it has not strayed since it last expired: direct writes and  *)
(* notices that are replayed by any instance, dropped or come once more    *)
(* leave it right unless two of them met about that user.                  *)
THEOREM RouteShowsMembers ==
  ASSUME OneFault
  PROVE  GroupsSpec => []RouteIsMembership
  <1>1. RouteInv => RouteIsMembership
    <2> SUFFICES ASSUME RouteInv, \A h \in GroupHandler : ~Busy(h), Queued = {}, route # {},
                        NEW u \in Member \ strayed
                 PROVE  u \in route <=> rows[u] > 0
      BY DEF RouteIsMembership
    <2>1. Settled(u)
      BY DEF Settled, Told, Busy
    <2>2. \A i \in 1..Len(events) : ~About(i, u)
      BY DEF Queued
    <2> QED
      BY <2>1, <2>2 DEF RouteInv, QuietIsRight, Shows
  <1> QED
    BY <1>1, RouteInit, RouteStep, PTL DEF GroupsSpec

(***************************************************************************)
(* Sums over the members                                                   *)
(***************************************************************************)
LEMMA NatLeast ==
  ASSUME NEW T \in SUBSET Nat, T # {}
  PROVE  \E n \in T : \A k \in T : n <= k
  <1>1. PICK n \in T : \A k \in T : ~ (<<k, n>> \in OpToRel(<, Nat))
    BY NatLessThanWellFounded, WFMin, Zenon
  <1>2. \A k \in T : ~(k < n)
    BY <1>1 DEF OpToRel
  <1> QED
    BY <1>2

Pick(s) == CHOOSE x \in s : TRUE
Rest(s) == s \ {Pick(s)}

LEMMA MembersAreFinite ==
  ASSUME NEW s \in SUBSET Member
  PROVE  /\ IsFiniteSet(s) /\ Cardinality(s) \in Nat
         /\ Cardinality(s) <= Cardinality(Member)
         /\ s # {} => /\ Pick(s) \in s /\ Rest(s) \in SUBSET Member
                      /\ Cardinality(Rest(s)) = Cardinality(s) - 1
         /\ Cardinality(s) = 0 <=> s = {}
  <1>1. IsFiniteSet(Member)
    BY GroupsAssumption, FS_AddElement, FS_Union, FS_Singleton DEF Member
  <1>2. IsFiniteSet(s) /\ Cardinality(s) <= Cardinality(Member)
    BY <1>1, FS_Subset
  <1>3. s # {} => Pick(s) \in s
    BY DEF Pick
  <1>4. s # {} => Cardinality(Rest(s)) = Cardinality(s) - 1
    BY <1>2, <1>3, FS_RemoveElement DEF Rest
  <1> QED
    BY <1>2, <1>3, <1>4, FS_CardinalityType, FS_EmptySet DEF Rest

(* What holds of no member and of one more than before holds of all.       *)
LEMMA SubsetsInduct ==
  ASSUME NEW P, {} \in P,
         \A s \in SUBSET Member : s # {} /\ Rest(s) \in P => s \in P
  PROVE  \A s \in SUBSET Member : s \in P
  <1> SUFFICES ASSUME NEW z \in SUBSET Member, z \notin P PROVE FALSE
    OBVIOUS
  <1> DEFINE T == {n \in Nat : \E s \in SUBSET Member : s \notin P /\ Cardinality(s) = n}
  <1>1. Cardinality(z) \in T
    BY MembersAreFinite
  <1>2. PICK n \in T : \A k \in T : n <= k
    <2>1. T \in SUBSET Nat /\ T # {}
      BY <1>1
    <2> HIDE DEF T
    <2> QED
      BY <2>1, NatLeast
  <1>3. PICK s \in SUBSET Member : s \notin P /\ Cardinality(s) = n
    BY <1>2
  <1>4. s # {} /\ Rest(s) \in SUBSET Member /\ Cardinality(Rest(s)) = Cardinality(s) - 1
        /\ Cardinality(Rest(s)) \in Nat
    BY <1>3, MembersAreFinite
  <1>5. Rest(s) \notin P
    BY <1>3, <1>4
  <1>6. Cardinality(Rest(s)) \in T
    BY <1>4, <1>5
  <1> HIDE DEF T
  <1>7. n \in Nat
    BY <1>3, MembersAreFinite
  <1> QED
    BY <1>2, <1>3, <1>4, <1>6, <1>7

(* RowTotal is the last value of a function defined by recursion on sets.  *)
SumAt(r, f, s) == IF s = {} THEN 0 ELSE r[Pick(s)] + f[Rest(s)]
Sums(r, f) == f = [s \in SUBSET Member |-> SumAt(r, f, s)]
SumOf(r) == CHOOSE f : Sums(r, f)

LEMMA TotalIsSum == RowTotal = SumOf(rows)[Member]
  BY DEF RowTotal, MapThenSumSet, MapThenFoldSet, SumOf, Sums, SumAt, Pick, Rest

LEMMA SumExists ==
  ASSUME NEW r \in [Member -> Int]
  PROVE  \E f : Sums(r, f)
  <1> DEFINE Good(f, k) == \A s \in SUBSET Member : Cardinality(s) <= k => f[s] = SumAt(r, f, s)
             Bad == {k \in Nat : \A f \in [SUBSET Member -> Int] : ~Good(f, k)}
  <1>1. Good([s \in SUBSET Member |-> 0], 0)
    BY MembersAreFinite DEF SumAt
  <1>2. ASSUME NEW k \in Nat, NEW f \in [SUBSET Member -> Int], Good(f, k)
        PROVE  \E g \in [SUBSET Member -> Int] : Good(g, k + 1)
    <2> DEFINE g == [s \in SUBSET Member |-> SumAt(r, f, s)]
    <2>1. \A s \in SUBSET Member : SumAt(r, f, s) \in Int
      BY MembersAreFinite DEF SumAt
    <2>2. g \in [SUBSET Member -> Int]
      BY <2>1
    <2>3. ASSUME NEW s \in SUBSET Member, Cardinality(s) <= k + 1 PROVE g[s] = SumAt(r, g, s)
      <3>1. CASE s = {}
        BY <3>1 DEF SumAt
      <3>2. CASE s # {}
        <4>1. Rest(s) \in SUBSET Member /\ Cardinality(Rest(s)) <= k
          BY <2>3, <3>2, MembersAreFinite
        <4>2. f[Rest(s)] = g[Rest(s)]
          BY <1>2, <4>1
        <4> QED
          BY <3>2, <4>2 DEF SumAt
      <3> QED
        BY <3>1, <3>2
    <2> HIDE DEF g
    <2> QED
      BY <2>2, <2>3
  <1>3. Bad = {}
    <2> SUFFICES ASSUME Bad # {} PROVE FALSE
      OBVIOUS
    <2>1. PICK n \in Bad : \A k \in Bad : n <= k
      BY NatLeast
    <2>2. n \in Nat /\ n # 0
      <3>1. [s \in SUBSET Member |-> 0] \in [SUBSET Member -> Int]
        OBVIOUS
      <3> HIDE DEF Good
      <3> QED
        BY <1>1, <2>1, <3>1
    <2>3. n - 1 \in Nat /\ n - 1 \notin Bad /\ (n - 1) + 1 = n
      <3> HIDE DEF Bad
      <3> QED
        BY <2>1, <2>2
    <2> HIDE DEF Good
    <2>4. PICK f \in [SUBSET Member -> Int] : Good(f, n - 1)
      BY <2>3
    <2>5. \E g \in [SUBSET Member -> Int] : Good(g, n)
      BY <1>2, <2>3, <2>4
    <2> QED
      BY <2>1, <2>5
  <1>4. PICK f \in [SUBSET Member -> Int] : Good(f, Cardinality(Member))
    <2>1. Cardinality(Member) \in Nat
      BY MembersAreFinite
    <2> HIDE DEF Good
    <2> QED
      BY <1>3, <2>1
  <1>5. \A s \in SUBSET Member : f[s] = SumAt(r, f, s)
    BY <1>4, MembersAreFinite
  <1>6. f = [s \in SUBSET Member |-> SumAt(r, f, s)]
    BY <1>5
  <1> QED
    BY <1>6 DEF Sums

LEMMA SumFacts ==
  ASSUME NEW r \in [Member -> Int]
  PROVE  /\ SumOf(r)[{}] = 0
         /\ \A s \in SUBSET Member : s # {} => SumOf(r)[s] = r[Pick(s)] + SumOf(r)[Rest(s)]
         /\ \A s \in SUBSET Member : SumOf(r)[s] \in Int
  <1>1. Sums(r, SumOf(r))
    BY SumExists DEF SumOf
  <1>2. \A s \in SUBSET Member : SumOf(r)[s] = SumAt(r, SumOf(r), s)
    BY <1>1 DEF Sums
  <1>3. SumOf(r)[{}] = 0
    BY <1>2 DEF SumAt
  <1>4. \A s \in SUBSET Member : s # {} => SumOf(r)[s] = r[Pick(s)] + SumOf(r)[Rest(s)]
    BY <1>2 DEF SumAt
  <1>5. \A s \in SUBSET Member : SumOf(r)[s] \in Int
    <2> DEFINE P == {s \in SUBSET Member : SumOf(r)[s] \in Int}
    <2>1. {} \in P
      BY <1>3
    <2>2. \A s \in SUBSET Member : s # {} /\ Rest(s) \in P => s \in P
      BY <1>4, MembersAreFinite
    <2>3. \A s \in SUBSET Member : s \in P
      <3> HIDE DEF P
      <3> QED
        BY <2>1, <2>2, SubsetsInduct
    <2> QED
      BY <2>3
  <1> QED
    BY <1>3, <1>4, <1>5

(* One summand changes, and so does the sum. *)
LEMMA SumChange ==
  ASSUME NEW r \in [Member -> Int], NEW q \in [Member -> Int], NEW m \in Member,
         \A x \in Member \ {m} : q[x] = r[x]
  PROVE  SumOf(q)[Member] = SumOf(r)[Member] + q[m] - r[m]
  <1> DEFINE P == {s \in SUBSET Member :
                     SumOf(q)[s] = SumOf(r)[s] + (IF m \in s THEN q[m] - r[m] ELSE 0)}
  <1>1. {} \in P
    BY SumFacts
  <1>2. ASSUME NEW s \in SUBSET Member, s # {}, Rest(s) \in P PROVE s \in P
    <2>1. /\ SumOf(q)[s] = q[Pick(s)] + SumOf(q)[Rest(s)]
          /\ SumOf(r)[s] = r[Pick(s)] + SumOf(r)[Rest(s)]
          /\ SumOf(q)[Rest(s)] \in Int /\ SumOf(r)[Rest(s)] \in Int
          /\ Pick(s) \in s /\ q[m] \in Int /\ r[m] \in Int
          /\ q[Pick(s)] \in Int /\ r[Pick(s)] \in Int
      BY <1>2, SumFacts, MembersAreFinite
    <2>2. SumOf(q)[Rest(s)] = SumOf(r)[Rest(s)] + (IF m \in Rest(s) THEN q[m] - r[m] ELSE 0)
      BY <1>2
    <2>3. CASE Pick(s) = m
      BY <2>1, <2>2, <2>3 DEF Rest
    <2>4. CASE Pick(s) # m
      <3>1. q[Pick(s)] = r[Pick(s)] /\ (m \in Rest(s) <=> m \in s)
        BY <2>1, <2>4 DEF Rest
      <3> QED
        BY <2>1, <2>2, <3>1
    <2> QED
      BY <2>3, <2>4
  <1>3. \A s \in SUBSET Member : s \in P
    <2> HIDE DEF P
    <2> QED
      BY <1>1, <1>2, SubsetsInduct
  <1>4. SumOf(r)[Member] \in Int /\ q[m] \in Int /\ r[m] \in Int
    BY SumFacts
  <1> QED
    BY <1>3, <1>4

(* Ones are counted. *)
LEMMA SumOfOnes ==
  ASSUME NEW A \in SUBSET Member
  PROVE  SumOf([m \in Member |-> IF m \in A THEN 1 ELSE 0])[Member] = Cardinality(A)
  <1> DEFINE r == [m \in Member |-> IF m \in A THEN 1 ELSE 0]
             P == {s \in SUBSET Member : SumOf(r)[s] = Cardinality(s \cap A)}
  <1>r. r \in [Member -> Int] /\ \A m \in Member : r[m] = IF m \in A THEN 1 ELSE 0
    OBVIOUS
  <1> HIDE DEF r
  <1>1. {} \in P
    BY <1>r, SumFacts, FS_EmptySet
  <1>2. ASSUME NEW s \in SUBSET Member, s # {}, Rest(s) \in P PROVE s \in P
    <2>1. /\ SumOf(r)[s] = r[Pick(s)] + SumOf(r)[Rest(s)]
          /\ Pick(s) \in s /\ SumOf(r)[Rest(s)] = Cardinality(Rest(s) \cap A)
      <3>1. SumOf(r)[s] = r[Pick(s)] + SumOf(r)[Rest(s)]
        BY <1>2, <1>r, SumFacts
      <3>2. Pick(s) \in s
        BY <1>2, MembersAreFinite
      <3>3. SumOf(r)[Rest(s)] = Cardinality(Rest(s) \cap A)
        BY <1>2
      <3> QED
        BY <3>1, <3>2, <3>3
    <2>2. IsFiniteSet(s \cap A) /\ Cardinality(s \cap A) \in Nat
      <3>1. s \cap A \in SUBSET Member
        OBVIOUS
      <3> QED
        BY <3>1, MembersAreFinite
    <2>3. CASE Pick(s) \in A
      <3>1. Rest(s) \cap A = (s \cap A) \ {Pick(s)} /\ Pick(s) \in s \cap A
        BY <2>1, <2>3 DEF Rest
      <3>2. Cardinality(Rest(s) \cap A) = Cardinality(s \cap A) - 1
        <4>1. \A x \in s \cap A : Cardinality((s \cap A) \ {x}) = Cardinality(s \cap A) - 1
          BY <2>2, FS_RemoveElement
        <4> QED
          BY <3>1, <4>1
      <3>3. r[Pick(s)] = 1
        BY <1>r, <2>1, <2>3
      <3> QED
        BY <2>1, <2>2, <3>2, <3>3
    <2>4. CASE Pick(s) \notin A
      <3>1. Rest(s) \cap A = s \cap A
        BY <2>4 DEF Rest
      <3>2. r[Pick(s)] = 0
        BY <1>r, <2>1, <2>4
      <3> QED
        BY <2>1, <2>2, <3>1, <3>2
    <2> QED
      BY <2>3, <2>4
  <1>3. \A s \in SUBSET Member : s \in P
    <2> HIDE DEF P
    <2> QED
      BY <1>1, <1>2, SubsetsInduct
  <1>4. Member \cap A = A
    OBVIOUS
  <1> QED
    BY <1>3, <1>4 DEF r

(***************************************************************************)
(* The count                                                               *)
(***************************************************************************)
(* Who is about to leave has one row, which is what LeaveGroup takes from  *)
(* the count without looking - unless the check for a member failed.       *)
Leaves(h) == request[h].op = "leave" /\ request[h].at = "store"
LeaverHasOneRow ==
  \A h \in GroupHandler :
    Leaves(h) /\ request[h].user \notin crossed \union unchecked => rows[request[h].user] = 1

CountInv == MemberInv /\ LeaverHasOneRow /\ CountIsRows

LEMMA CountKept ==
  ASSUME CountInv, MemberInv', UNCHANGED <<rows, groupRow>>, crossed \subseteq crossed',
         unchecked \subseteq unchecked',
         miscounted' \/ (miscounted' = miscounted /\ memberCount' = memberCount),
         \A h \in GroupHandler : Leaves(h)' =>
            \/ Leaves(h) /\ request'[h].user = request[h].user
            \/ request'[h].user \notin crossed' \union unchecked' => rows[request'[h].user] = 1
  PROVE  CountInv'
  <1>1. LeaverHasOneRow'
    BY DEF CountInv, LeaverHasOneRow
  <1>2. RowTotal' = RowTotal
    <2>1. RowTotal = SumOf(rows)[Member] /\ RowTotal' = SumOf(rows')[Member]
      BY DEF RowTotal, MapThenSumSet, MapThenFoldSet, SumOf, Sums, SumAt, Pick, Rest
    <2> QED
      BY <2>1
  <1>3. CountIsRows'
    BY <1>2 DEF CountInv, CountIsRows
  <1> QED
    BY <1>1, <1>3 DEF CountInv

LEMMA CountWritten ==
  ASSUME CountInv, MemberInv', NEW h \in GroupHandler, Went(h, "route"), crossed \subseteq crossed',
         \A u \in Member \ (crossed' \union unchecked') : rows'[u] # rows[u] => Acts(h, u),
         \A u \in (Member \cap unchecked) \ unchecked' : Acts(h, u),
         CountIsRows'
  PROVE  CountInv'
  <1>1. ASSUME NEW g \in GroupHandler, Leaves(g)', request'[g].user \notin crossed' \union unchecked'
        PROVE  rows'[request'[g].user] = 1
    <2>1. g # h /\ request'[g] = request[g]
      BY <1>1 DEF Went, Others, Leaves
    <2>2. Leaves(g) /\ request[g].user \in Member /\ request[g].user \notin crossed
      BY <1>1, <2>1, ActsFacts DEF Leaves, CountInv, MemberInv, ShapeInv
    <2>3. Acts(g, request[g].user)
      BY <2>2 DEF Leaves, Acts
    <2>4. ~Acts(h, request[g].user)
      BY <2>1, <2>2, <2>3 DEF CountInv, MemberInv, ActsAlone
    <2>6. request[g].user \notin unchecked
      BY <1>1, <2>1, <2>2, <2>4
    <2>5. rows[request[g].user] = 1
      BY <2>2, <2>6 DEF CountInv, LeaverHasOneRow
    <2> QED
      BY <1>1, <2>1, <2>2, <2>4, <2>5
  <1> QED
    BY <1>1 DEF CountInv, LeaverHasOneRow

LEMMA CountInit == GroupsInit => CountInv
  <1> SUFFICES ASSUME GroupsInit PROVE CountInv
    OBVIOUS
  <1>1. LeaverHasOneRow /\ CountIsRows
    BY DEF GroupsInit, LeaverHasOneRow, Leaves, CountIsRows, Free
  <1> QED
    BY <1>1, MemberInit DEF CountInv

LEMMA CountStep == CountInv /\ [GroupsNext]_groupsVars => CountInv'
  <1> SUFFICES ASSUME CountInv, [GroupsNext]_groupsVars PROVE CountInv'
    OBVIOUS
  <1>t. Typed /\ ShapeInv /\ MemberInv /\ MemberInv' /\ Typed'
    BY MemberStep DEF CountInv, MemberInv, ShapeInv
  <1>f. Free.op = "none" /\ Free.at = "idle"
    BY DEF Free
  <1>s. RowTotal = SumOf(rows)[Member] /\ RowTotal' = SumOf(rows')[Member]
    BY DEF RowTotal, MapThenSumSet, MapThenFoldSet, SumOf, Sums, SumAt, Pick, Rest
  <1>i. /\ rows \in [Member -> Int] /\ rows' \in [Member -> Int] /\ memberCount \in Int
        /\ \A u \in Member : rows[u] \in Nat
        /\ RowTotal \in Int
    <2>1. rows \in [Member -> Int] /\ rows' \in [Member -> Int] /\ memberCount \in Int
          /\ \A u \in Member : rows[u] \in Nat
      BY <1>t DEF Typed
    <2>2. SumOf(rows)[Member] \in Int
      BY <2>1, SumFacts
    <2> QED
      BY <1>s, <2>1, <2>2
  (* What is read and checked first. *)
  <1>1. ASSUME NEW h \in GroupHandler, NEW listed \in SUBSET Member, CreateGroup(h, listed)
        PROVE  CountInv'
    <2>1. Began(h, "create", Owner, "store")
      BY <1>t, <1>1, CreateFacts
    <2>2. UNCHANGED <<rows, groupRow, memberCount, miscounted, crossed, unchecked>>
      BY <1>1 DEF CreateGroup, groupVars, historyVars
    <2> QED
      BY <1>t, <2>1, <2>2, CountKept DEF Began, Others, Leaves
  <1>2. ASSUME NEW h \in GroupHandler, NEW u \in GroupUser, JoinGroup(h, u) PROVE CountInv'
    <2>1. u \in Member /\ Begin(h, "join", u, "insert") /\ FoundNoMember(u)
          /\ UNCHANGED <<rows, groupRow, memberCount, miscounted>>
      BY <1>2 DEF JoinGroup, Member
    <2>2. Began(h, "join", u, "insert") /\ crossed \subseteq crossed'
      BY <1>t, <2>1, BeginFacts
    <2>3. unchecked \subseteq unchecked'
      BY <1>t, <2>1, FoundFacts
    <2> QED
      BY <1>t, <2>1, <2>2, <2>3, CountKept DEF Began, Others, Leaves
  <1>3. ASSUME NEW h \in GroupHandler, NEW u \in GroupUser, NEW invite \in BOOLEAN,
               AskToJoin(h, u, invite)
        PROVE  CountInv'
    <2>1. Began(h, "ask", u, "store")
      BY <1>t, <1>3, AskFacts
    <2>2. UNCHANGED <<rows, groupRow, memberCount, miscounted, crossed, unchecked>>
      BY <1>3 DEF AskToJoin, historyVars
    <2> QED
      BY <1>t, <2>1, <2>2, CountKept DEF Began, Others, Leaves
  <1>4. ASSUME NEW h \in GroupHandler, NEW u \in Member,
               \/ \E kicked \in BOOLEAN : LeaveGroup(h, u, kicked)
               \/ u = Owner /\ DismissGroup(h)
               \/ GetUserGroupIDs(h, u)
        PROVE  CountInv'
    <2>1. PICK op, at : /\ Begin(h, op, u, at)
                        /\ \/ op \in {"leave", "kick", "dismiss"} /\ at = "store"
                           \/ op = "sync" /\ at = "route"
      BY <1>4 DEF LeaveGroup, DismissGroup, GetUserGroupIDs
    <2>2. UNCHANGED <<rows, groupRow, memberCount, miscounted, unchecked>> /\ rows[u] > 0
      BY <1>4 DEF LeaveGroup, DismissGroup, GetUserGroupIDs, groupVars
    <2>3. Began(h, op, u, at) /\ crossed \subseteq crossed'
      BY <1>t, <2>1, BeginFacts
    <2>4. u \notin crossed' \union unchecked' => rows[u] = 1
      <3>1. u \notin crossed \union unchecked => rows[u] <= 1
        BY <1>t DEF MemberInv, MemberOnce
      <3> QED
        BY <1>i, <2>2, <2>3, <3>1
    <2> QED
      BY <1>t, <2>2, <2>3, <2>4, CountKept DEF Began, Others, Leaves
  <1>5. ASSUME NEW h \in GroupHandler, NEW p \in Petition, NEW accept \in BOOLEAN,
               AnswerPetition(h, p, accept)
        PROVE  CountInv'
    <2>1. Began(h, "answer", petitions[p].user, "store") /\ crossed \subseteq crossed'
      BY <1>t, <1>5, AnswerFacts
    <2>2. UNCHANGED <<rows, groupRow, memberCount, miscounted, unchecked>>
      BY <1>5 DEF AnswerPetition, groupVars
    <2> QED
      BY <1>t, <2>1, <2>2, CountKept DEF Began, Others, Leaves
  <1>6. ASSUME NEW h \in GroupHandler, UpdateGroup(h) PROVE CountInv'
    <2>1. Began(h, "update", Owner, "store")
      BY <1>t, <1>6, UpdateGroupFacts
    <2>2. UNCHANGED <<rows, groupRow, memberCount, miscounted, crossed, unchecked>>
      BY <1>6 DEF UpdateGroup, historyVars
    <2> QED
      BY <1>t, <2>1, <2>2, CountKept DEF Began, Others, Leaves
  (* The rows and the count are written in one transaction. *)
  <1>7. ASSUME NEW h \in GroupHandler, StoreGroup(h) PROVE CountInv'
    <2>1. Went(h, "route") /\ request[h].op = "create" /\ UNCHANGED <<crossed, unchecked>>
      BY <1>t, <1>7, RowStepGoes DEF RowStep, StoreGroup
    <2> DEFINE A == request[h].seen \union {Owner}
    <2>2. A \in SUBSET Member /\ request[h].seen \in SUBSET Member
      BY <1>t, <2>1, RequestTyped, OwnerIsMember DEF Fits
    <2>3. rows' = [m \in Member |-> IF m \in A THEN 1 ELSE 0]
      BY <1>7 DEF StoreGroup
    <2>4. SumOf(rows')[Member] = Cardinality(A)
      <3> HIDE DEF A
      <3> QED
        BY <2>2, <2>3, SumOfOnes
    <2>5. Owner \notin request[h].seen => Cardinality(A) = Cardinality(request[h].seen) + 1
      <3>1. IsFiniteSet(request[h].seen)
        BY <2>2, MembersAreFinite
      <3> QED
        BY <3>1, FS_AddElement
    <2>6. memberCount' = 1 + Cardinality(request[h].seen) /\ miscounted' = (Owner \in request[h].seen)
      BY <1>7 DEF StoreGroup
    <2>7. Cardinality(request[h].seen) \in Nat
      BY <2>2, MembersAreFinite
    <2>8. ~miscounted' => memberCount' = RowTotal'
      <3>1. ~miscounted' => Cardinality(A) = Cardinality(request[h].seen) + 1
        BY <2>5, <2>6
      <3> HIDE DEF A
      <3> QED
        BY <1>s, <2>4, <2>6, <2>7, <3>1
    <2>9. CountIsRows'
      BY <2>8 DEF CountIsRows
    <2>10. \A u \in Member : Acts(h, u)
      BY <2>1 DEF Acts
    <2> QED
      BY <1>t, <2>1, <2>9, <2>10, CountWritten
  <1>8. ASSUME NEW h \in GroupHandler, InsertMember(h) \/ DeleteMember(h) PROVE CountInv'
    <2> DEFINE u == request[h].user
    <2>1. Went(h, "route") /\ crossed \subseteq crossed' /\ UNCHANGED groupRow
      BY <1>t, <1>8, RowStepGoes DEF RowStep, InsertMember, DeleteMember
    <2>2. u \in Member /\ Acts(h, u)
      BY <1>t, <1>8, ActsFacts DEF InsertMember, DeleteMember, Acts
    <2>3. \/ /\ rows' = [rows EXCEPT ![u] = rows[u] + 1]
             /\ groupRow = "up" => memberCount' = memberCount + 1
          \/ /\ rows' = [rows EXCEPT ![u] = 0]
             /\ groupRow = "up" => \/ memberCount' = memberCount - rows[u]
                                   \/ Leaves(h) /\ memberCount' = memberCount - 1
      <3>1. CASE InsertMember(h)
        BY <3>1 DEF InsertMember, AddToCount
      <3>2. CASE DeleteMember(h)
        <4>1. /\ rows' = [rows EXCEPT ![u] = 0] /\ request[h].at = "store"
              /\ groupRow = "up" =>
                   memberCount' = memberCount + (- IF request[h].op = "leave" THEN 1 ELSE rows[u])
          BY <3>2 DEF DeleteMember, AddToCount
        <4>2. rows[u] \in Int
          BY <1>i, <2>2
        <4> HIDE DEF u
        <4>3. CASE request[h].op = "leave"
          BY <1>i, <4>1, <4>3 DEF Leaves
        <4>4. CASE request[h].op # "leave"
          <5>1. groupRow = "up" => memberCount' = memberCount + (- rows[u])
            BY <4>1, <4>4
          <5> QED
            BY <1>i, <4>1, <4>2, <5>1
        <4> QED
          BY <4>3, <4>4
      <3> QED
        BY <1>8, <3>1, <3>2
    <2>4. Leaves(h) /\ u \notin crossed \union unchecked => rows[u] = 1
      BY DEF CountInv, LeaverHasOneRow
    <2>m. ~miscounted' => ~miscounted /\ (Leaves(h) => u \notin unchecked)
      <3>1. CASE InsertMember(h)
        <4>1. ~Leaves(h) /\ miscounted' = miscounted
          BY <3>1 DEF InsertMember, Leaves
        <4> QED
          BY <4>1
      <3>2. CASE DeleteMember(h)
        <4>1. miscounted' = (miscounted \/ (request[h].op = "leave" /\ u \in unchecked))
          BY <3>2 DEF DeleteMember
        <4> HIDE DEF u
        <4> QED
          BY <4>1 DEF Leaves
      <3> QED
        BY <1>8, <3>1, <3>2
    <2>c. \A x \in (Member \cap unchecked) \ unchecked' : x = u
      BY <1>8 DEF InsertMember, DeleteMember
    <2> HIDE DEF u
    <2>5. /\ \A x \in Member \ {u} : rows'[x] = rows[x]
          /\ rows[u] \in Nat /\ rows'[u] \in Int
      BY <1>i, <2>2, <2>3
    <2>6. SumOf(rows')[Member] = SumOf(rows)[Member] + rows'[u] - rows[u]
      BY <1>i, <2>2, <2>5, SumChange
    <2>7. groupRow = "up" /\ crossed = {} /\ ~miscounted'
            => memberCount' = memberCount + rows'[u] - rows[u]
      <3>1. CASE rows' = [rows EXCEPT ![u] = rows[u] + 1] /\ (groupRow = "up" => memberCount' = memberCount + 1)
        BY <1>i, <2>2, <2>5, <3>1
      <3>2. CASE /\ rows' = [rows EXCEPT ![u] = 0]
                 /\ groupRow = "up" => \/ memberCount' = memberCount - rows[u]
                                       \/ Leaves(h) /\ memberCount' = memberCount - 1
        BY <1>i, <2>2, <2>4, <2>5, <2>m, <3>2
      <3> QED
        BY <2>3, <3>1, <3>2
    <2>8. CountIsRows'
      <3> SUFFICES ASSUME groupRow = "up", crossed = {}, ~miscounted'
                   PROVE  memberCount' = RowTotal'
        BY <2>1 DEF CountIsRows
      <3>1. memberCount = RowTotal
        BY <2>m DEF CountInv, CountIsRows
      <3> QED
        BY <1>i, <1>s, <2>6, <2>7, <3>1
    <2>9. /\ \A x \in Member : rows'[x] # rows[x] => Acts(h, x)
          /\ \A x \in (Member \cap unchecked) \ unchecked' : Acts(h, x)
      BY <2>2, <2>5, <2>c
    <2> QED
      BY <1>t, <2>1, <2>8, <2>9, CountWritten
  <1>9. ASSUME NEW h \in GroupHandler, DeleteGroup(h) PROVE CountInv'
    <2>1. Went(h, "route") /\ crossed \subseteq crossed' /\ groupRow' = "dismissed"
          /\ request[h].op = "dismiss"
      BY <1>t, <1>9, RowStepGoes DEF RowStep, DeleteGroup
    <2>2. CountIsRows' /\ \A x \in Member : Acts(h, x)
      BY <2>1 DEF CountIsRows, Acts
    <2> QED
      BY <1>t, <2>1, <2>2, CountWritten
  (* An update that saves a wrong count is remembered. *)
  <1>10. ASSUME NEW h \in GroupHandler, SaveGroup(h) PROVE CountInv'
    <2>1. Ended(h)
      BY <1>t, <1>10, DoneGoes
    <2>2. /\ UNCHANGED <<rows, crossed, unchecked>> /\ groupRow' = "up"
          /\ miscounted' = (miscounted \/ memberCount' # memberCount \/ groupRow # "up")
      BY <1>10 DEF SaveGroup
    <2>3. LeaverHasOneRow'
      BY <1>f, <2>1, <2>2 DEF CountInv, LeaverHasOneRow, Leaves, Ended, Others
    <2>4. CountIsRows'
      <3> SUFFICES ASSUME crossed = {}, ~miscounted' PROVE memberCount' = RowTotal'
        BY <2>2 DEF CountIsRows
      <3>1. groupRow = "up" /\ ~miscounted /\ memberCount' = memberCount
        BY <2>2
      <3>2. RowTotal' = RowTotal
        BY <1>s, <2>2
      <3> QED
        BY <3>1, <3>2 DEF CountInv, CountIsRows
    <2> QED
      BY <1>t, <2>3, <2>4 DEF CountInv
  (* Everything else leaves rows and count alone. *)
  <1>11. ASSUME NEW h \in GroupHandler,
                \/ UpdatePetition(h) \/ AdmitUser(h)
                \/ WriteRoute(h) \/ ReplaceRoute(h) \/ RouteFails(h)
                \/ InsertPetition(h) \/ PublishNotice(h) \/ PublishFails(h) \/ RequestDies(h)
         PROVE  CountInv'
    <2>4. unchecked \subseteq unchecked'
      BY <1>t, <1>11, AdmitFacts
      DEF UpdatePetition, WriteRoute, ReplaceRoute, RouteFails, InsertPetition,
          PublishNotice, PublishFails, RequestDies, historyVars
    <2>1. UNCHANGED <<rows, groupRow, memberCount, miscounted>> /\ crossed \subseteq crossed'
      BY <1>11
      DEF UpdatePetition, AdmitUser, WriteRoute, ReplaceRoute, RouteFails, InsertPetition,
          PublishNotice, PublishFails, RequestDies, groupVars, historyVars
    <2>2. Ended(h) \/ \E at \in {"admit", "insert", "replace", "publish"} : Went(h, at)
      <3>1. CASE UpdatePetition(h) \/ AdmitUser(h)
        BY <1>t, <3>1, AnswerGoes
      <3>2. CASE WriteRoute(h) \/ ReplaceRoute(h) \/ RouteFails(h)
        BY <1>t, <3>2, WriteRouteGoes, ReplaceRouteGoes, AfterRouteGoes DEF RouteFails
      <3>3. CASE InsertPetition(h) \/ PublishNotice(h) \/ PublishFails(h) \/ RequestDies(h)
        BY <1>t, <3>3, DoneGoes
      <3> QED
        BY <1>11, <3>1, <3>2, <3>3
    <2>3. \A g \in GroupHandler : Leaves(g)' => Leaves(g) /\ request'[g].user = request[g].user
      BY <1>f, <2>2 DEF Leaves, Ended, Went, Others
    <2> QED
      BY <1>t, <2>1, <2>3, <2>4, CountKept
  <1>12. CASE \/ \E i \in 1..Len(events) : SyncGroupRoute(i) \/ SyncFails(i) \/ AckIsLost(i)
              \/ \E e \in again : SyncAgain(e)
              \/ RouteExpires \/ GroupCacheExpires \/ UNCHANGED groupsVars
    <2>1. UNCHANGED <<rows, groupRow, memberCount, miscounted, request, crossed, unchecked>>
      BY <1>12
      DEF SyncGroupRoute, SyncFails, AckIsLost, SyncAgain, RouteExpires, GroupCacheExpires,
          groupsVars, groupVars, historyVars
    <2> QED
      BY <1>t, <2>1, CountKept DEF Leaves
  <1> QED
    BY <1>1, <1>2, <1>3, <1>4, <1>5, <1>6, <1>7, <1>8, <1>9, <1>10, <1>11, <1>12, OwnerIsMember
    DEF GroupsNext

(* member_count is the number of member rows, whatever requests were cut   *)
(* short, until requests about one user overlap, the creator lists itself, *)
(* an update saves a stale copy, or a member leaves whom a failed check    *)
(* had let in again.                                                       *)
THEOREM CountsAreRows == GroupsSpec => []CountIsRows
  <1>1. CountInv => CountIsRows
    BY DEF CountInv
  <1> QED
    BY <1>1, CountInit, CountStep, PTL DEF GroupsSpec

(***************************************************************************)
(* Types                                                                   *)
(***************************************************************************)
HistoryTyped ==
  /\ crossed \subseteq Member /\ strayed \subseteq Member /\ unchecked \subseteq Member
  /\ miscounted \in BOOLEAN
  /\ doubled \subseteq Petition /\ admitted \subseteq Petition /\ refused \subseteq Petition

(* h is to give u a row.                                                   *)
Adds(h, u) ==
  \/ request[h].op = "create" /\ request[h].at = "store"
  \/ /\ request[h].op \in {"join", "answer"} /\ request[h].at \in {"store", "admit", "insert"}
     /\ request[h].user = u

Adders(u) == {h \in GroupHandler : Adds(h, u)}

(* Every row is of a request of its own.                                   *)
RowsPaid ==
  /\ groupRequests <= MaxGroupRequests
  /\ \A u \in Member : /\ IsFiniteSet(Adders(u))
                       /\ rows[u] + Cardinality(Adders(u)) <= groupRequests

GroupTypeInv == ShapeInv /\ HistoryTyped /\ RowsPaid

LEMMA PaidKept ==
  ASSUME Typed, Typed', RowsPaid, groupRequests' = groupRequests,
         \A u \in Member, h \in GroupHandler : Adds(h, u)' => Adds(h, u),
         \A u \in Member : rows'[u] <= rows[u]
  PROVE  RowsPaid'
  <1> SUFFICES ASSUME NEW u \in Member
               PROVE  /\ IsFiniteSet(Adders(u)')
                      /\ rows'[u] + Cardinality(Adders(u)') <= groupRequests'
    BY DEF RowsPaid
  <1>1. Adders(u)' \in SUBSET Adders(u) /\ IsFiniteSet(Adders(u))
        /\ rows[u] + Cardinality(Adders(u)) <= groupRequests
    BY DEF Adders, RowsPaid
  <1>2. /\ IsFiniteSet(Adders(u)') /\ Cardinality(Adders(u)') <= Cardinality(Adders(u))
        /\ Cardinality(Adders(u)') \in Nat /\ Cardinality(Adders(u)) \in Nat
    BY <1>1, FS_Subset, FS_CardinalityType
  <1>3. rows[u] \in Nat /\ rows'[u] \in Nat /\ rows'[u] <= rows[u] /\ groupRequests \in Nat
    BY DEF Typed
  <1> QED
    BY <1>1, <1>2, <1>3

LEMMA PaidBegun ==
  ASSUME Typed, RowsPaid, NEW h \in GroupHandler, Begins(h), Others(h), rows' = rows
  PROVE  RowsPaid'
  <1>1. groupRequests' = groupRequests + 1 /\ groupRequests' <= MaxGroupRequests
        /\ groupRequests \in Nat
    BY GroupsAssumption DEF Begins, Typed
  <1> SUFFICES ASSUME NEW u \in Member
               PROVE  /\ IsFiniteSet(Adders(u)')
                      /\ rows'[u] + Cardinality(Adders(u)') <= groupRequests'
    BY <1>1 DEF RowsPaid
  <1>2. Adders(u)' \in SUBSET (Adders(u) \union {h}) /\ IsFiniteSet(Adders(u))
        /\ rows[u] + Cardinality(Adders(u)) <= groupRequests /\ rows[u] \in Nat
    BY DEF Adders, Adds, RowsPaid, Others, Typed
  <1>3. /\ IsFiniteSet(Adders(u) \union {h})
        /\ Cardinality(Adders(u) \union {h}) <= Cardinality(Adders(u)) + 1
        /\ Cardinality(Adders(u)) \in Nat
    <2>1. Cardinality(Adders(u)) \in Nat
      BY <1>2, FS_CardinalityType
    <2>2. /\ IsFiniteSet(Adders(u) \union {h})
          /\ \/ Cardinality(Adders(u) \union {h}) = Cardinality(Adders(u))
             \/ Cardinality(Adders(u) \union {h}) = Cardinality(Adders(u)) + 1
      BY <1>2, FS_AddElement
    <2> QED
      BY <2>1, <2>2
  <1>4. /\ IsFiniteSet(Adders(u)') /\ Cardinality(Adders(u)') <= Cardinality(Adders(u) \union {h})
        /\ Cardinality(Adders(u)') \in Nat /\ Cardinality(Adders(u) \union {h}) \in Nat
    BY <1>2, <1>3, FS_Subset, FS_CardinalityType
  <1> QED
    BY <1>1, <1>2, <1>3, <1>4

LEMMA PaidAdded ==
  ASSUME Typed, Typed', RowsPaid, NEW h \in GroupHandler, groupRequests' = groupRequests, Others(h),
         \A u \in Member : ~Adds(h, u)',
         \A u \in Member : \/ rows'[u] <= rows[u]
                           \/ Adds(h, u) /\ rows'[u] = rows[u] + 1
  PROVE  RowsPaid'
  <1> SUFFICES ASSUME NEW u \in Member
               PROVE  /\ IsFiniteSet(Adders(u)')
                      /\ rows'[u] + Cardinality(Adders(u)') <= groupRequests'
    BY DEF RowsPaid
  <1>1. Adders(u)' = Adders(u) \ {h} /\ IsFiniteSet(Adders(u))
        /\ rows[u] + Cardinality(Adders(u)) <= groupRequests
    BY DEF Adders, Adds, RowsPaid, Others
  <1>2. /\ IsFiniteSet(Adders(u)')
        /\ Cardinality(Adders(u)')
             = IF h \in Adders(u) THEN Cardinality(Adders(u)) - 1 ELSE Cardinality(Adders(u))
        /\ Cardinality(Adders(u)) \in Nat
    BY <1>1, FS_RemoveElement, FS_CardinalityType
  <1>3. rows[u] \in Nat /\ rows'[u] \in Nat /\ groupRequests \in Nat
    BY DEF Typed
  <1>4. Adds(h, u) <=> h \in Adders(u)
    BY DEF Adders
  <1> QED
    BY <1>1, <1>2, <1>3, <1>4

LEMMA GroupTypeInit == GroupsInit => GroupTypeInv
  <1> SUFFICES ASSUME GroupsInit PROVE GroupTypeInv
    OBVIOUS
  <1>1. \A u \in Member : Adders(u) = {} /\ rows[u] = 0
    BY DEF GroupsInit, Adders, Adds, Free
  <1>2. RowsPaid
    <2>1. IsFiniteSet({}) /\ Cardinality({}) = 0
      BY FS_EmptySet
    <2>2. groupRequests = 0 /\ 0 <= MaxGroupRequests
      BY GroupsAssumption DEF GroupsInit
    <2> QED
      BY <1>1, <2>1, <2>2 DEF RowsPaid
  <1> QED
    BY <1>2, ShapeInit DEF GroupsInit, GroupTypeInv, HistoryTyped

LEMMA HistoryStep ==
  ASSUME ShapeInv, HistoryTyped, [GroupsNext]_groupsVars
  PROVE  HistoryTyped'
  <1>t. Typed
    BY DEF ShapeInv
  <1>r. \A h \in GroupHandler :
          /\ request[h].user \in Member /\ request[h].petition \in Petition \union {NoPetition}
          /\ request[h].at = "admit" => request[h].petition \in Petition
    BY <1>t, RequestTyped, AtFacts DEF Request
  <1>p. \A p \in Petition : petitions[p].user \in Member
    BY <1>t DEF Typed, Record
  <1>e. \A e \in NoticeSet : Touched(e) \subseteq Member
    BY DEF NoticeSet, Touched
  <1>o. \A h \in GroupHandler, users \in SUBSET Member : Outrun(h, users) \subseteq Member
    BY DEF Outrun
  <1>b. ASSUME NEW h \in GroupHandler, NEW op, NEW at, NEW u \in Member, Begin(h, op, u, at)
        PROVE  crossed' \subseteq Member /\ strayed' \subseteq Member
    BY <1>b DEF Begin, HistoryTyped
  <1>0. CASE UNCHANGED historyVars
    BY <1>0 DEF historyVars, HistoryTyped
  <1>1. ASSUME NEW h \in GroupHandler, NEW u \in Member,
               \/ JoinGroup(h, u) \/ (\E kicked \in BOOLEAN : LeaveGroup(h, u, kicked))
               \/ GetUserGroupIDs(h, u)
               \/ u = Owner /\ DismissGroup(h)
        PROVE  HistoryTyped'
    <2>1. \E op, at : Begin(h, op, u, at)
      BY <1>1 DEF JoinGroup, LeaveGroup, GetUserGroupIDs, DismissGroup
    <2>2. unchecked' \subseteq Member
      <3>1. JoinGroup(h, u) => FoundNoMember(u)
        BY DEF JoinGroup
      <3>2. JoinGroup(h, u) \/ unchecked' = unchecked
        BY <1>1 DEF LeaveGroup, GetUserGroupIDs, DismissGroup
      <3> QED
        BY <1>t, <3>1, <3>2, FoundFacts DEF HistoryTyped
    <2> QED
      BY <1>1, <1>b, <2>1, <2>2 DEF JoinGroup, LeaveGroup, GetUserGroupIDs, DismissGroup, HistoryTyped
  <1>2. ASSUME NEW h \in GroupHandler, NEW p \in Petition, NEW accept \in BOOLEAN,
               AnswerPetition(h, p, accept)
        PROVE  HistoryTyped'
    <2>1. /\ crossed' \subseteq crossed \union {petitions[p].user}
          /\ strayed' \subseteq strayed \union {petitions[p].user}
          /\ doubled' \subseteq doubled \union {p}
      BY <1>2 DEF AnswerPetition
    <2> QED
      BY <1>2, <1>p, <2>1 DEF AnswerPetition, HistoryTyped
  <1>3. ASSUME NEW h \in GroupHandler, StoreGroup(h) \/ SaveGroup(h) PROVE HistoryTyped'
    <2>1. miscounted' \in BOOLEAN
      <3> DEFINE copy == CHOOSE n \in request[h].seen : TRUE
      <3>1. (Owner \in request[h].seen) \in BOOLEAN
            /\ (miscounted \/ copy # memberCount \/ groupRow # "up") \in BOOLEAN
        OBVIOUS
      <3>2. CASE StoreGroup(h)
        BY <3>1, <3>2, Zenon DEF StoreGroup
      <3>3. CASE SaveGroup(h)
        BY <3>1, <3>3, Zenon DEF SaveGroup
      <3> QED
        BY <1>3, <3>2, <3>3
    <2> QED
      BY <1>3, <2>1 DEF StoreGroup, SaveGroup, HistoryTyped
  <1>4. ASSUME NEW h \in GroupHandler, AdmitUser(h) PROVE HistoryTyped'
    <2>1. /\ request[h].petition \in Petition
          /\ refused' \subseteq refused \union {request[h].petition}
          /\ admitted' \subseteq admitted \union {request[h].petition}
      BY <1>4, <1>r DEF AdmitUser
    <2>2. unchecked' \subseteq unchecked \union {request[h].user}
          /\ UNCHANGED <<crossed, strayed, miscounted, doubled>>
      BY <1>4, <1>t, AdmitFacts
    <2> QED
      BY <1>r, <2>1, <2>2 DEF HistoryTyped
  <1>5. ASSUME NEW h \in GroupHandler, InsertMember(h) \/ DeleteMember(h) \/ DeleteGroup(h)
        PROVE  HistoryTyped'
    <2>1. {request[h].user} \in SUBSET Member /\ Member \in SUBSET Member
      BY <1>r
    <2>2. strayed' \subseteq Member /\ unchecked' \subseteq Member
      BY <1>5, <1>o, <2>1 DEF InsertMember, DeleteMember, DeleteGroup, HistoryTyped
    <2>4. miscounted' \in BOOLEAN
      <3>1. CASE DeleteMember(h)
        <4>1. miscounted' = (miscounted \/ (request[h].op = "leave" /\ request[h].user \in unchecked))
          BY <3>1 DEF DeleteMember
        <4> QED
          BY <4>1, Zenon
      <3>2. CASE InsertMember(h) \/ DeleteGroup(h)
        BY <3>2 DEF InsertMember, DeleteGroup, HistoryTyped
      <3> QED
        BY <1>5, <3>1, <3>2
    <2>3. admitted' \subseteq Petition
      BY <1>5, <1>r DEF InsertMember, DeleteMember, DeleteGroup, HistoryTyped
    <2> QED
      BY <1>5, <2>2, <2>3, <2>4 DEF InsertMember, DeleteMember, DeleteGroup, HistoryTyped
  <1>6. ASSUME NEW h \in GroupHandler, PublishFails(h) \/ RequestDies(h) PROVE HistoryTyped'
    <2>1. strayed' \subseteq Member
      BY <1>6, <1>r DEF PublishFails, RequestDies, HistoryTyped
    <2>2. refused' \subseteq Petition
      BY <1>6, <1>r DEF PublishFails, RequestDies, HistoryTyped
    <2> QED
      BY <1>6, <2>1, <2>2 DEF PublishFails, RequestDies, HistoryTyped
  <1>7. ASSUME NEW i \in 1..Len(events), SyncGroupRoute(i) \/ SyncFails(i) \/ AckIsLost(i)
        PROVE  HistoryTyped'
    <2>1. events[i] \in NoticeSet
      BY <1>t, NoticeFacts
    <2>2. strayed' \subseteq strayed \union Touched(events[i])
      BY <1>7 DEF SyncGroupRoute, SyncFails, AckIsLost, Overtaken
    <2> QED
      BY <1>7, <1>e, <2>1, <2>2 DEF SyncGroupRoute, SyncFails, AckIsLost, HistoryTyped
  <1>8. CASE UNCHANGED groupsVars
    BY <1>0, <1>8 DEF groupsVars
  <1>9. GroupUser \subseteq Member /\ Owner \in Member
    BY OwnerIsMember
  <1>10. ASSUME NEW h \in GroupHandler,
                \/ \E listed \in SUBSET Member : CreateGroup(h, listed)
                \/ \E u \in GroupUser, invite \in BOOLEAN : AskToJoin(h, u, invite)
                \/ UpdateGroup(h) \/ InsertPetition(h) \/ UpdatePetition(h)
                \/ WriteRoute(h) \/ ReplaceRoute(h) \/ PublishNotice(h) \/ RouteFails(h)
         PROVE  HistoryTyped'
    BY <1>0, <1>10 DEF CreateGroup, AskToJoin, UpdateGroup, InsertPetition, UpdatePetition,
       WriteRoute, ReplaceRoute, PublishNotice, RouteFails
  <1>11. ASSUME (\E e \in again : SyncAgain(e)) \/ RouteExpires \/ GroupCacheExpires
         PROVE  HistoryTyped'
    <2>1. CASE (\E e \in again : SyncAgain(e)) \/ GroupCacheExpires
      BY <1>0, <2>1 DEF SyncAgain, GroupCacheExpires
    <2>2. CASE RouteExpires
      BY <2>2 DEF RouteExpires, HistoryTyped
    <2> QED
      BY <1>11, <2>1, <2>2
  <1> QED
    BY <1>1, <1>2, <1>3, <1>4, <1>5, <1>6, <1>7, <1>8, <1>9, <1>10, <1>11 DEF GroupsNext

LEMMA PaidStep ==
  ASSUME ShapeInv, ShapeInv', RowsPaid, [GroupsNext]_groupsVars
  PROVE  RowsPaid'
  <1>t. Typed /\ Typed'
    BY DEF ShapeInv
  <1>n. \A u \in Member : rows[u] \in Nat
    BY <1>t DEF Typed
  <1>e. ASSUME NEW h \in GroupHandler, Ended(h), rows' = rows, groupRequests' = groupRequests
        PROVE  RowsPaid'
    <2>1. \A u \in Member, g \in GroupHandler : Adds(g, u)' => Adds(g, u)
      BY <1>e DEF Ended, Others, Adds, Free
    <2> QED
      BY <1>e, <1>n, <1>t, <2>1, PaidKept
  <1>w. ASSUME NEW h \in GroupHandler, NEW at, Went(h, at), at \in {"replace", "publish"},
               rows' = rows, groupRequests' = groupRequests
        PROVE  RowsPaid'
    <2>1. \A u \in Member, g \in GroupHandler : Adds(g, u)' => Adds(g, u)
      BY <1>w DEF Went, Others, Adds
    <2> QED
      BY <1>n, <1>t, <1>w, <2>1, PaidKept
  (* Requests that begin. *)
  <1>1. ASSUME NEW h \in GroupHandler, Begins(h), Others(h), rows' = rows PROVE RowsPaid'
    BY <1>1, <1>t, PaidBegun
  <1>2. ASSUME NEW h \in GroupHandler, NEW listed \in SUBSET Member, CreateGroup(h, listed)
        PROVE  RowsPaid'
    BY <1>1, <1>2, <1>t, CreateFacts DEF CreateGroup, groupVars, Began
  <1>3. ASSUME NEW h \in GroupHandler, NEW u \in GroupUser, NEW invite \in BOOLEAN,
               AskToJoin(h, u, invite)
        PROVE  RowsPaid'
    <2>1. Begins(h) /\ rows' = rows
      BY <1>3 DEF AskToJoin
    <2> QED
      BY <1>1, <1>3, <1>t, <2>1, AskFacts DEF Began
  <1>4. ASSUME NEW h \in GroupHandler, NEW u \in Member,
               \/ JoinGroup(h, u)
               \/ \E kicked \in BOOLEAN : LeaveGroup(h, u, kicked)
               \/ GetUserGroupIDs(h, u)
               \/ u = Owner /\ DismissGroup(h)
        PROVE  RowsPaid'
    <2>1. \E op, at : /\ Begin(h, op, u, at)
                      /\ \/ op = "join" /\ at = "insert"
                         \/ op \in {"leave", "kick", "dismiss"} /\ at = "store"
                         \/ op = "sync" /\ at = "route"
      BY <1>4 DEF JoinGroup, LeaveGroup, GetUserGroupIDs, DismissGroup
    <2>2. Others(h) /\ Begins(h)
      BY <1>t, <2>1, BeginFacts DEF Began, Begin
    <2>3. rows' = rows
      BY <1>4 DEF JoinGroup, LeaveGroup, GetUserGroupIDs, DismissGroup, groupVars
    <2> QED
      BY <1>1, <2>2, <2>3
  <1>5. ASSUME NEW h \in GroupHandler, NEW p \in Petition, NEW accept \in BOOLEAN,
               AnswerPetition(h, p, accept)
        PROVE  RowsPaid'
    <2>1. Begins(h) /\ rows' = rows
      BY <1>5 DEF AnswerPetition, groupVars
    <2> QED
      BY <1>1, <1>5, <1>t, <2>1, AnswerFacts DEF Began
  <1>6. ASSUME NEW h \in GroupHandler, UpdateGroup(h) PROVE RowsPaid'
    <2>1. Begins(h) /\ rows' = rows
      BY <1>6 DEF UpdateGroup
    <2> QED
      BY <1>1, <1>6, <1>t, <2>1, UpdateGroupFacts DEF Began
  (* Requests that write. *)
  <1>7. ASSUME NEW h \in GroupHandler, RowStep(h) PROVE RowsPaid'
    <2>1. Others(h) /\ \A u \in Member : ~Adds(h, u)'
      BY <1>7, <1>t, RowStepGoes DEF Went, Adds
    <2>2. groupRequests' = groupRequests
      BY <1>7 DEF RowStep, StoreGroup, InsertMember, DeleteMember, DeleteGroup
    <2>3. ASSUME NEW u \in Member
          PROVE  \/ rows'[u] <= rows[u]
                 \/ Adds(h, u) /\ rows'[u] = rows[u] + 1
      <3>0. rows \in [Member -> Nat] /\ rows[u] \in Nat
        BY <1>t DEF Typed
      <3>1. CASE StoreGroup(h)
        <4>1. rows[u] = 0 /\ Adds(h, u)
          <5>1. Busy(h) /\ request[h].op = "create" /\ request[h].at = "store"
            BY <3>1 DEF StoreGroup, Busy
          <5>2. rows = [m \in Member |-> 0]
            BY <5>1 DEF ShapeInv, NothingYet
          <5> QED
            BY <5>1, <5>2 DEF Adds
        <4>2. rows'[u] \in {0, 1}
          BY <3>1 DEF StoreGroup
        <4> QED
          BY <4>1, <4>2
      <3>2. CASE InsertMember(h)
        <4>1. rows' = [rows EXCEPT ![request[h].user] = @ + 1] /\ request[h].at = "insert"
          BY <3>2 DEF InsertMember
        <4>2. request[h].op \in {"join", "answer"}
          BY <1>t, <4>1, AtFacts
        <4> QED
          BY <3>0, <4>1, <4>2 DEF Adds
      <3>3. CASE DeleteMember(h) \/ DeleteGroup(h)
        BY <3>0, <3>3 DEF DeleteMember, DeleteGroup
      <3> QED
        BY <1>7, <3>1, <3>2, <3>3 DEF RowStep
    <2> QED
      BY <1>t, <2>1, <2>2, <2>3, PaidAdded
  <1>8. ASSUME NEW h \in GroupHandler, UpdatePetition(h) \/ AdmitUser(h) PROVE RowsPaid'
    <2>1. rows' = rows /\ groupRequests' = groupRequests
      BY <1>8, <1>t, AdmitFacts DEF UpdatePetition, groupVars
    <2>2. /\ request[h].op = "answer"
          /\ \/ Ended(h)
             \/ request[h].at = "store" /\ Went(h, "admit")
             \/ request[h].at = "admit" /\ Went(h, "insert")
      BY <1>8, <1>t, AnswerGoes
    <2>3. CASE Ended(h)
      BY <1>e, <2>1, <2>3
    <2>4. CASE /\ request[h].at \in {"store", "admit"}
               /\ Went(h, "admit") \/ Went(h, "insert")
      <3>1. \A u \in Member, g \in GroupHandler : Adds(g, u)' => Adds(g, u)
        BY <2>2, <2>4 DEF Went, Others, Adds
      <3> QED
        BY <1>n, <1>t, <2>1, <3>1, PaidKept
    <2> QED
      BY <2>2, <2>3, <2>4
  <1>9. ASSUME NEW h \in GroupHandler,
               \/ InsertPetition(h) \/ SaveGroup(h) \/ PublishNotice(h) \/ PublishFails(h)
               \/ RequestDies(h)
        PROVE  RowsPaid'
    <2>1. rows' = rows /\ groupRequests' = groupRequests
      BY <1>9 DEF InsertPetition, SaveGroup, PublishNotice, PublishFails, RequestDies, groupVars
    <2> QED
      BY <1>9, <1>e, <1>t, <2>1, DoneGoes
  <1>10. ASSUME NEW h \in GroupHandler, WriteRoute(h) \/ ReplaceRoute(h) \/ RouteFails(h)
         PROVE  RowsPaid'
    <2>1. rows' = rows /\ groupRequests' = groupRequests
      BY <1>10 DEF WriteRoute, ReplaceRoute, RouteFails, groupVars
    <2>2. Ended(h) \/ Went(h, "replace") \/ Went(h, "publish")
      BY <1>10, <1>t, WriteRouteGoes, ReplaceRouteGoes, AfterRouteGoes DEF RouteFails
    <2> QED
      BY <1>e, <1>w, <2>1, <2>2
  (* Steps of no request. *)
  <1>11. ASSUME \/ \E i \in 1..Len(events) : SyncGroupRoute(i) \/ SyncFails(i) \/ AckIsLost(i)
                \/ \E e \in again : SyncAgain(e)
                \/ RouteExpires \/ GroupCacheExpires \/ UNCHANGED groupsVars
         PROVE  RowsPaid'
    <2>1. rows' = rows /\ groupRequests' = groupRequests /\ request' = request
      BY <1>11 DEF SyncGroupRoute, SyncFails, AckIsLost, SyncAgain, RouteExpires, GroupCacheExpires,
         groupsVars, groupVars
    <2>2. \A u \in Member, g \in GroupHandler : Adds(g, u)' => Adds(g, u)
      BY <2>1 DEF Adds
    <2> QED
      BY <1>n, <1>t, <2>1, <2>2, PaidKept
  <1> QED
    BY <1>2, <1>3, <1>4, <1>5, <1>6, <1>7, <1>8, <1>9, <1>10, <1>11, OwnerIsMember
    DEF GroupsNext, RowStep

(* The variables keep their types, and nobody has more rows than there     *)
(* were requests.                                                          *)
THEOREM GroupTypes == GroupsSpec => []GroupsTypeOK
  <1>1. GroupTypeInv /\ [GroupsNext]_groupsVars => GroupTypeInv'
    BY ShapeStep, HistoryStep, PaidStep DEF GroupTypeInv
  <1>2. GroupTypeInv => GroupsTypeOK
    <2> SUFFICES ASSUME GroupTypeInv PROVE GroupsTypeOK
      OBVIOUS
    <2>t. Typed
      BY DEF GroupTypeInv, ShapeInv
    <2>1. rows \in [Member -> 0..MaxGroupRequests]
      <3> SUFFICES ASSUME NEW u \in Member PROVE rows[u] \in 0..MaxGroupRequests
        BY <2>t DEF Typed
      <3>1. /\ Cardinality(Adders(u)) \in Nat
            /\ rows[u] + Cardinality(Adders(u)) <= groupRequests
            /\ groupRequests <= MaxGroupRequests
        BY FS_CardinalityType DEF GroupTypeInv, RowsPaid
      <3> QED
        BY <2>t, <3>1, GroupsAssumption DEF Typed
    <2>2. Queued \subseteq NoticeSet
      BY <2>t DEF Typed, Queued
    <2>3. \A h \in GroupHandler : request[h] \in Request
      BY <2>t DEF Typed
    <2> QED
      BY <2>t, <2>1, <2>2, <2>3
      DEF GroupsTypeOK, GroupTypeInv, HistoryTyped, Typed, Record, NoticeSet, Request, Ops, Ats
  <1> QED
    BY <1>1, <1>2, GroupTypeInit, PTL DEF GroupsSpec
===============================================================================
