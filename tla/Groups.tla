------------------------------- MODULE Groups -------------------------------
(***************************************************************************)
(* One chat group of the Group service: its member rows and member_count   *)
(* in MySQL, the join applications and invitations, the cached group row,  *)
(* the group's member set in the Redis routing table, and the operation    *)
(* notices that the Message service replays onto that set.                 *)
(*                                                                         *)
(* A request runs in one handler goroutine and is a sequence of separate   *)
(* database, Redis and NATS calls; requests interleave between any two of  *)
(* them.  group_member has no unique index, so rows counts the rows of a   *)
(* user.  Redis has no empty set: route = {} is a missing set.             *)
(***************************************************************************)
EXTENDS Integers, Sequences, FiniteSets, FiniteSetsExt, SequencesExt

CONSTANTS
  GroupHandler,      \* handler goroutines of the Group service
  Owner,             \* the user who creates and administers the group
  GroupUser,         \* the other users
  Petition,          \* ids of group_apply and group_invite records
  NoPetition,        \* no record
  MaxGroupRequests,  \* bound: requests and faults together in a behaviour (one more
                     \* when the last request begins with a fault)
  MaxGroupFaults     \* bound: failed calls, lost acks and deaths in a behaviour

ASSUME GroupsAssumption ==
  /\ Owner \notin GroupUser /\ IsFiniteSet(GroupUser)
  /\ NoPetition \notin Petition
  /\ MaxGroupRequests \in Nat
  /\ MaxGroupFaults \in Nat

Member == GroupUser \union {Owner}

VARIABLES
  rows,          \* group_member rows of each user
  groupRow,      \* the group's row: "none", "up" or "dismissed"
  memberCount,   \* its member_count
  groupCache,    \* its cached copy: {} or the {member_count} it holds
  petitions,     \* group_apply and group_invite records
  route,         \* the Redis member set
  events,        \* notices in JetStream, oldest first
  again,         \* notices applied whose acknowledgement was lost
  request,       \* what each handler is doing
  crossed,       \* users about whom requests overlapped
  strayed,       \* users the set may be wrong about, until it expires: requests overlapped,
                 \* a write was lost, or notices were replayed out of order
  unchecked,     \* members who were taken for no members by a check that failed
  miscounted,    \* member_count was written from a list or a copy that was wrong
  doubled,       \* records two requests were answering at once
  admitted,      \* records whose acceptance found or made the user a member
  refused,       \* records whose acceptance was cut short
  groupRequests, groupFaults

groupVars == <<rows, groupRow, memberCount, groupCache>>
noticeVars == <<route, events, again>>
historyVars == <<crossed, strayed, unchecked, miscounted, doubled, admitted, refused>>
groupsVars == <<groupVars, petitions, noticeVars, request, historyVars,
                groupRequests, groupFaults>>

Free == [op |-> "none", user |-> Owner, petition |-> NoPetition, at |-> "idle", seen |-> {},
         behind |-> FALSE]
NoRecord == [status |-> "none", user |-> Owner, invite |-> FALSE]

Notice(h, op, users) == [op |-> op, users |-> users, behind |-> request[h].behind]
Joined == {m \in Member : rows[m] > 0}
RowTotal == MapThenSumSet(LAMBDA m : rows[m], Member)

Busy(h) == request[h].at # "idle"
Concerns(h, u) == Busy(h) /\ (request[h].user = u \/ request[h].op \in {"create", "dismiss"})
Queued == {events[i] : i \in 1..Len(events)} \union again
Touched(e) == IF e.op = "CREATE" THEN Member ELSE e.users
NoticesOf(u) == {e \in Queued : u \in Touched(e)}

(***************************************************************************)
(* Types and the initial state                                             *)
(***************************************************************************)
GroupsTypeOK ==
  /\ rows \in [Member -> 0..MaxGroupRequests]
  /\ groupRow \in {"none", "up", "dismissed"}
  /\ memberCount \in Int
  /\ \A copy \in groupCache : copy \in Int
  /\ petitions \in [Petition -> [status : {"none", "pending", "accepted", "rejected"},
                                 user : Member, invite : BOOLEAN]]
  /\ route \subseteq Member
  /\ Queued \subseteq [op : {"CREATE", "JOIN", "LEAVE", "DISMISS"}, users : SUBSET Member,
                  behind : BOOLEAN]
  /\ \A h \in GroupHandler :
       /\ request[h].op \in {"none", "create", "ask", "answer", "join", "leave", "kick",
                             "dismiss", "update", "sync"}
       /\ request[h].at \in {"idle", "store", "admit", "insert", "route", "replace", "publish"}
       /\ request[h].petition \in Petition \union {NoPetition}
       /\ request[h].behind \in BOOLEAN
  /\ crossed \subseteq Member /\ strayed \subseteq Member /\ unchecked \subseteq Member
  /\ miscounted \in BOOLEAN
  /\ doubled \subseteq Petition /\ admitted \subseteq Petition /\ refused \subseteq Petition

GroupsInit ==
  /\ rows = [m \in Member |-> 0]
  /\ groupRow = "none" /\ memberCount = 0 /\ groupCache = {}
  /\ petitions = [p \in Petition |-> NoRecord]
  /\ route = {} /\ events = <<>> /\ again = {}
  /\ request = [h \in GroupHandler |-> Free]
  /\ crossed = {} /\ strayed = {} /\ unchecked = {} /\ miscounted = FALSE
  /\ doubled = {} /\ admitted = {} /\ refused = {}
  /\ groupRequests = 0 /\ groupFaults = 0

(***************************************************************************)
(* Calls the requests are made of                                          *)
(***************************************************************************)
\* GroupDAO.FindByID answers from the cache, which a dismissal leaves in place.
FoundGroup ==
  IF groupCache # {} THEN groupCache ELSE IF groupRow = "up" THEN {memberCount} ELSE {}

\* A write deletes the cached row before it commits; a reader may cache the
\* old row in between, until the second delete half a second later.
DropGroupCache == groupCache' \in SUBSET IF groupRow = "up" THEN {memberCount} ELSE {}

\* Mutant: only arrivals are counted.
AddArrivals(n) == memberCount' = IF groupRow = "up" /\ n > 0 THEN memberCount + n ELSE memberCount

AddToCount(n) == memberCount' = IF groupRow = "up" THEN memberCount + n ELSE memberCount

\* A write about users while another handler is about to replace the set with
\* what it has read, or while an old notice about them is still to come again.
Outrun(h, users) ==
  {u \in users : \/ \E g \in GroupHandler \ {h} : request[g].at = "replace"
                 \/ \E e \in again : u \in Touched(e)}

Goto(h, at) == request' = [request EXCEPT ![h].at = at]
Done(h) == request' = [request EXCEPT ![h] = Free]

Begins(h) ==
  /\ ~Busy(h)
  /\ groupRequests + groupFaults < MaxGroupRequests
  /\ groupRequests' = groupRequests + 1

Begin(h, op, u, at) ==
  LET users == IF op = "dismiss" THEN Member ELSE {u}
      met == {m \in users : \E g \in GroupHandler : Concerns(g, m)} IN
  /\ Begins(h)
  /\ request' = [request EXCEPT ![h] =
       [Free EXCEPT !.op = op, !.user = u, !.at = at,
                    !.behind = \E m \in users : NoticesOf(m) # {}]]
  /\ crossed' = crossed \union met
  /\ strayed' = strayed \union met

GroupFault ==
  /\ groupFaults < MaxGroupFaults
  /\ groupRequests + groupFaults < MaxGroupRequests
  /\ groupFaults' = groupFaults + 1

\* IsMember says no: of a user who is no member, and also when its query fails,
\* for every caller discards the error.
FoundNoMember(u) ==
  \/ rows[u] = 0 /\ UNCHANGED <<unchecked, groupFaults>>
  \/ rows[u] > 0 /\ GroupFault /\ unchecked' = unchecked \union {u}

(***************************************************************************)
(* Requests: what is read and checked first                                *)
(***************************************************************************)
CreateGroup(h, listed) ==
  /\ groupRow = "none"
  /\ \A g \in GroupHandler : ~Busy(g)
  /\ Begins(h)
  /\ request' = [request EXCEPT ![h] = [Free EXCEPT !.op = "create", !.at = "store",
                                                   !.seen = listed]]
  /\ UNCHANGED <<groupVars, petitions, noticeVars, historyVars, groupFaults>>

\* Mutant: a member may join.
JoinUnchecked(h, u) ==
  /\ groupRow # "none" /\ FoundGroup # {}
  /\ groupCache' = FoundGroup
  /\ Begin(h, "join", u, "insert")
  /\ UNCHANGED <<rows, groupRow, memberCount, petitions, noticeVars, unchecked, miscounted,
                 doubled, admitted, refused, groupFaults>>

\* JoinGroup of a group that anyone may join.
JoinGroup(h, u) ==
  /\ groupRow # "none" /\ FoundGroup # {}
  /\ FoundNoMember(u)
  /\ groupCache' = FoundGroup
  /\ Begin(h, "join", u, "insert")
  /\ UNCHANGED <<rows, groupRow, memberCount, petitions, noticeVars, miscounted, doubled,
                 admitted, refused>>

\* JoinGroup of a group that verifies, or InviteMembers by the owner: both ask
\* for nothing the user has, but go on when the check for a member fails, and
\* the invitation also when the check for an earlier one does.
AskToJoin(h, u, invite) ==
  LET asked == \E p \in Petition : /\ petitions[p].status = "pending"
                                   /\ petitions[p].user = u /\ petitions[p].invite = invite IN
  /\ FoundGroup # {}
  /\ invite => rows[Owner] > 0
  /\ asked => invite
  /\ IF asked \/ rows[u] > 0 THEN GroupFault ELSE UNCHANGED groupFaults
  /\ groupCache' = FoundGroup
  /\ \E p \in Petition :
       /\ petitions[p].status = "none"
       /\ \A g \in GroupHandler : request[g].petition # p
       /\ Begins(h)
       /\ request' = [request EXCEPT ![h] =
            [Free EXCEPT !.op = "ask", !.user = u, !.petition = p, !.at = "store",
                         !.seen = IF invite THEN {Owner} ELSE {}]]
  /\ UNCHANGED <<rows, groupRow, memberCount, petitions, noticeVars, historyVars>>

\* HandleGroupApply by the owner, HandleGroupInvite by the invited user.
AnswerPetition(h, p, accept) ==
  LET met == {m \in {petitions[p].user} : \E g \in GroupHandler : Concerns(g, m)} IN
  /\ petitions[p].status = "pending"
  /\ petitions[p].invite \/ rows[Owner] > 0
  /\ Begins(h)
  /\ request' = [request EXCEPT ![h] =
       [Free EXCEPT !.op = "answer", !.user = petitions[p].user, !.petition = p,
                    !.at = "store", !.seen = IF accept THEN {petitions[p].user} ELSE {},
                    !.behind = NoticesOf(petitions[p].user) # {}]]
  /\ crossed' = crossed \union met
  /\ strayed' = strayed \union met
  /\ doubled' = IF \E g \in GroupHandler : request[g].op = "answer" /\ request[g].petition = p
                  THEN doubled \union {p} ELSE doubled
  /\ UNCHANGED <<groupVars, petitions, noticeVars, unchecked, miscounted, admitted, refused,
                 groupFaults>>

\* LeaveGroup by a member, RemoveMembers of one member by the owner.
LeaveGroup(h, u, kicked) ==
  /\ rows[u] > 0
  /\ kicked => rows[Owner] > 0
  /\ Begin(h, IF kicked THEN "kick" ELSE "leave", u, "store")
  /\ UNCHANGED <<groupVars, petitions, noticeVars, unchecked, miscounted, doubled, admitted,
                 refused, groupFaults>>

DismissGroup(h) ==
  /\ rows[Owner] > 0
  /\ Begin(h, "dismiss", Owner, "store")
  /\ UNCHANGED <<groupVars, petitions, noticeVars, unchecked, miscounted, doubled, admitted,
                 refused, groupFaults>>

\* UpdateGroup keeps the whole row it found, member_count included.
UpdateGroup(h) ==
  /\ rows[Owner] > 0 /\ FoundGroup # {}
  /\ Begins(h)
  /\ groupCache' = FoundGroup
  /\ request' = [request EXCEPT ![h] = [Free EXCEPT !.op = "update", !.at = "store",
                                                   !.seen = FoundGroup]]
  /\ UNCHANGED <<rows, groupRow, memberCount, petitions, noticeVars, historyVars, groupFaults>>

GetUserGroupIDs(h, u) ==
  /\ rows[u] > 0
  /\ Begin(h, "sync", u, "route")
  /\ UNCHANGED <<groupVars, petitions, noticeVars, unchecked, miscounted, doubled, admitted,
                 refused, groupFaults>>

(***************************************************************************)
(* Requests: the database writes                                           *)
(***************************************************************************)
StoreGroup(h) ==
  /\ request[h].op = "create" /\ request[h].at = "store"
  /\ rows' = [m \in Member |-> IF m \in request[h].seen \union {Owner} THEN 1 ELSE 0]
  /\ groupRow' = "up"
  /\ memberCount' = 1 + Cardinality(request[h].seen)
  /\ miscounted' = (Owner \in request[h].seen)
  /\ Goto(h, "route")
  /\ UNCHANGED <<groupCache, petitions, noticeVars, crossed, strayed, unchecked, doubled,
                 admitted, refused, groupRequests, groupFaults>>

InsertPetition(h) ==
  /\ request[h].op = "ask"
  /\ petitions' = [petitions EXCEPT ![request[h].petition] =
       [status |-> "pending", user |-> request[h].user, invite |-> request[h].seen # {}]]
  /\ Done(h)
  /\ UNCHANGED <<groupVars, noticeVars, historyVars, groupRequests, groupFaults>>

\* Mutant: the user is admitted whatever the answer.
UpdateAndAdmit(h) ==
  LET p == request[h].petition
      accept == request[h].seen # {} IN
  /\ request[h].op = "answer" /\ request[h].at = "store"
  /\ petitions' = [petitions EXCEPT ![p].status = IF accept THEN "accepted" ELSE "rejected"]
  /\ Goto(h, "admit")
  /\ UNCHANGED <<groupVars, noticeVars, historyVars, groupRequests, groupFaults>>

\* The update asks for nothing but the id: the pending status read before is not checked again.
UpdatePetition(h) ==
  LET p == request[h].petition
      accept == request[h].seen # {} IN
  /\ request[h].op = "answer" /\ request[h].at = "store"
  /\ petitions' = [petitions EXCEPT ![p].status = IF accept THEN "accepted" ELSE "rejected"]
  /\ IF accept THEN Goto(h, "admit") ELSE Done(h)
  /\ UNCHANGED <<groupVars, noticeVars, historyVars, groupRequests, groupFaults>>

\* An accepted user joins unless found a member; an invitation looks the group up first.
AdmitUser(h) ==
  LET p == request[h].petition
      u == request[h].user
      gone == petitions[p].invite /\ FoundGroup = {} IN
  /\ request[h].at = "admit"
  /\ groupCache' = IF petitions[p].invite THEN FoundGroup ELSE groupCache
  /\ \/ /\ gone
        /\ refused' = refused \union {p}
        /\ Done(h)
        /\ UNCHANGED <<unchecked, admitted, groupFaults>>
     \/ /\ ~gone /\ rows[u] > 0
        /\ admitted' = admitted \union {p}
        /\ Done(h)
        /\ UNCHANGED <<unchecked, refused, groupFaults>>
     \/ /\ ~gone /\ FoundNoMember(u)
        /\ Goto(h, "insert")
        /\ UNCHANGED <<admitted, refused>>
  /\ UNCHANGED <<rows, groupRow, memberCount, petitions, noticeVars, crossed, strayed,
                 miscounted, doubled, groupRequests>>

InsertMember(h) ==
  LET u == request[h].user IN
  /\ request[h].at = "insert"
  /\ rows' = [rows EXCEPT ![u] = @ + 1]
  /\ AddToCount(1)
  /\ DropGroupCache
  /\ admitted' = admitted \union ({request[h].petition} \ {NoPetition})
  /\ strayed' = strayed \union Outrun(h, {u})
  /\ Goto(h, "route")
  /\ UNCHANGED <<groupRow, petitions, noticeVars, crossed, unchecked, miscounted, doubled,
                 refused, groupRequests, groupFaults>>

\* LeaveGroup takes one from the count whatever it deletes, RemoveMembers what it deletes,
\* and neither goes on when the database fails.
DeleteMember(h) ==
  LET u == request[h].user IN
  /\ request[h].op \in {"leave", "kick"} /\ request[h].at = "store"
  /\ rows' = [rows EXCEPT ![u] = 0]
  /\ AddToCount(- IF request[h].op = "leave" THEN 1 ELSE rows[u])
  /\ DropGroupCache
  /\ unchecked' = unchecked \ {u}
  /\ miscounted' = (miscounted \/ (request[h].op = "leave" /\ u \in unchecked))
  /\ strayed' = strayed \union Outrun(h, {u})
  /\ Goto(h, "route")
  /\ UNCHANGED <<groupRow, petitions, noticeVars, crossed, doubled, admitted, refused,
                 groupRequests, groupFaults>>

\* The dismissal's transaction goes past the DAO, so the cached row stays.
DeleteGroup(h) ==
  /\ request[h].op = "dismiss" /\ request[h].at = "store"
  /\ rows' = [m \in Member |-> 0]
  /\ groupRow' = "dismissed"
  /\ unchecked' = {}
  /\ strayed' = strayed \union Outrun(h, Member)
  /\ Goto(h, "route")
  /\ UNCHANGED <<memberCount, groupCache, petitions, noticeVars, crossed, miscounted, doubled,
                 admitted, refused, groupRequests, groupFaults>>

\* Save writes every column of the copy, and inserts the row when there is none.
SaveGroup(h) ==
  LET copy == CHOOSE n \in request[h].seen : TRUE IN
  /\ request[h].op = "update"
  /\ miscounted' = (miscounted \/ copy # memberCount \/ groupRow # "up")
  /\ memberCount' = copy
  /\ groupRow' = "up"
  /\ DropGroupCache
  /\ Done(h)
  /\ UNCHANGED <<rows, petitions, noticeVars, crossed, strayed, unchecked, doubled, admitted,
                 refused, groupRequests, groupFaults>>

(***************************************************************************)
(* Requests: the routing table and the notice                              *)
(***************************************************************************)
\* Mutant: a missing set is begun with the user alone.
AddRouteAlways(users) == route \union users

AddRoute(users) == IF route = {} THEN {} ELSE route \union users

AfterRoute(h) == IF request[h].op = "sync" THEN Done(h) ELSE Goto(h, "publish")

\* ensureGroupRoute reads the members of the database when the set is missing.
WriteRoute(h) ==
  LET u == request[h].user
      rebuild == request[h].op \in {"join", "answer"} /\ route = {} IN
  /\ request[h].at = "route"
  /\ route' = CASE request[h].op = "create" -> request[h].seen \union {Owner}
                [] request[h].op \in {"leave", "kick"} -> route \ {u}
                [] request[h].op = "dismiss" -> {}
                [] OTHER -> AddRoute({u})
  /\ IF rebuild
       THEN request' = [request EXCEPT ![h].at = "replace", ![h].seen = Joined]
       ELSE AfterRoute(h)
  /\ UNCHANGED <<groupVars, petitions, events, again, historyVars, groupRequests, groupFaults>>

ReplaceRoute(h) ==
  /\ request[h].at = "replace"
  /\ route' = request[h].seen
  /\ Goto(h, "publish")
  /\ UNCHANGED <<groupVars, petitions, events, again, historyVars, groupRequests, groupFaults>>

PublishNotice(h) ==
  LET u == request[h].user
      op == request[h].op IN
  /\ request[h].at = "publish"
  /\ events' = Append(events,
       CASE op = "create" -> Notice(h, "CREATE", request[h].seen \union {Owner})
         [] op \in {"leave", "kick"} -> Notice(h, "LEAVE", {u})
         [] op = "dismiss" -> Notice(h, "DISMISS", Member)
         [] OTHER -> Notice(h, "JOIN", {u}))
  /\ Done(h)
  /\ UNCHANGED <<groupVars, petitions, route, again, historyVars, groupRequests, groupFaults>>

(***************************************************************************)
(* Faults of a request                                                     *)
(***************************************************************************)
\* A failed Redis write is logged and the request goes on.
RouteFails(h) ==
  /\ request[h].at \in {"route", "replace"}
  /\ GroupFault
  /\ AfterRoute(h)
  /\ UNCHANGED <<groupVars, petitions, noticeVars, historyVars, groupRequests>>

\* So is a failed publish, and a failed replay below.  When an older notice about
\* the user was queued as the request began, that notice is replayed after the
\* request's direct write, and nothing follows to put it right.
PublishFails(h) ==
  LET users == IF request[h].op = "dismiss" THEN Member ELSE {request[h].user} IN
  /\ request[h].at = "publish"
  /\ GroupFault
  /\ strayed' = IF request[h].behind THEN strayed \union users ELSE strayed
  /\ Done(h)
  /\ UNCHANGED <<groupVars, petitions, noticeVars, crossed, unchecked, miscounted, doubled,
                 admitted, refused, groupRequests>>

\* A database error ends the request; later on only the death of the process does.
RequestDies(h) ==
  LET users == IF request[h].op \in {"create", "dismiss"} THEN Member ELSE {request[h].user} IN
  /\ Busy(h)
  /\ GroupFault
  /\ strayed' = IF request[h].at \in {"route", "replace", "publish"}
                  THEN strayed \union users ELSE strayed
  /\ refused' = IF request[h].at \in {"admit", "insert"}
                  THEN refused \union ({request[h].petition} \ {NoPetition}) ELSE refused
  /\ Done(h)
  /\ UNCHANGED <<groupVars, petitions, noticeVars, crossed, unchecked, miscounted, doubled,
                 admitted, groupRequests>>

(***************************************************************************)
(* The Message service replays the notices; keys expire                    *)
(***************************************************************************)
Replayed(e) ==
  CASE e.op = "CREATE" -> e.users
    [] e.op = "JOIN" -> AddRoute(e.users)
    [] e.op = "LEAVE" -> route \ e.users
    [] e.op = "DISMISS" -> {}

\* The instances of the Message service share one consumer, each replays a notice
\* when it has stored and delivered it, and one that could not be stored comes
\* back later: any notice in the stream may be the next one replayed.
Overtaken(i) == UNION {Touched(events[i]) \intersect Touched(events[j]) : j \in 1..(i - 1)}

SyncGroupRoute(i) ==
  /\ route' = Replayed(events[i])
  /\ events' = RemoveAt(events, i)
  /\ strayed' = strayed \union Overtaken(i)
  /\ UNCHANGED <<groupVars, petitions, again, request, crossed, unchecked, miscounted, doubled,
                 admitted, refused, groupRequests, groupFaults>>

SyncFails(i) ==
  /\ GroupFault
  /\ strayed' = IF events[i].behind THEN strayed \union Touched(events[i]) ELSE strayed
  /\ events' = RemoveAt(events, i)
  /\ UNCHANGED <<groupVars, petitions, route, again, request, crossed, unchecked, miscounted,
                 doubled, admitted, refused, groupRequests>>

\* The notice is applied and its acknowledgement lost: it comes once more, after
\* notices that are in the stream and requests that are under way.
AckIsLost(i) ==
  /\ GroupFault
  /\ route' = Replayed(events[i])
  /\ events' = RemoveAt(events, i)
  /\ again' = again \union {events[i]}
  /\ strayed' = strayed \union
       {u \in Touched(events[i]) : \/ \E j \in 1..Len(events) : j # i /\ u \in Touched(events[j])
                                   \/ \E h \in GroupHandler : Concerns(h, u)}
  /\ UNCHANGED <<groupVars, petitions, request, crossed, unchecked, miscounted, doubled,
                 admitted, refused, groupRequests>>

SyncAgain(e) ==
  /\ e \in again
  /\ route' = Replayed(e)
  /\ again' = again \ {e}
  /\ UNCHANGED <<groupVars, petitions, events, request, historyVars, groupRequests, groupFaults>>

\* Once nothing about the group is under way, the set is gone with all its errors.
RouteExpires ==
  LET quiet == Queued = {} /\ \A h \in GroupHandler : ~Busy(h) IN
  /\ route # {}
  /\ route' = {}
  /\ strayed' = IF quiet THEN {} ELSE strayed
  /\ UNCHANGED <<groupVars, petitions, events, again, request, crossed, unchecked, miscounted,
                 doubled, admitted, refused, groupRequests, groupFaults>>

GroupCacheExpires ==
  /\ groupCache # {}
  /\ groupCache' = {}
  /\ UNCHANGED <<rows, groupRow, memberCount, petitions, noticeVars, request, historyVars,
                 groupRequests, groupFaults>>

GroupsNext ==
  \/ \E h \in GroupHandler :
       \/ \E listed \in SUBSET Member : CreateGroup(h, listed)
       \/ \E u \in GroupUser :
            \/ JoinGroup(h, u)
            \/ \E invite \in BOOLEAN : AskToJoin(h, u, invite)
            \/ \E kicked \in BOOLEAN : LeaveGroup(h, u, kicked)
            \/ GetUserGroupIDs(h, u)
       \/ \E p \in Petition, accept \in BOOLEAN : AnswerPetition(h, p, accept)
       \/ DismissGroup(h) \/ UpdateGroup(h)
       \/ StoreGroup(h) \/ InsertPetition(h) \/ UpdatePetition(h) \/ AdmitUser(h)
       \/ InsertMember(h) \/ DeleteMember(h) \/ DeleteGroup(h) \/ SaveGroup(h)
       \/ WriteRoute(h) \/ ReplaceRoute(h) \/ PublishNotice(h)
       \/ RouteFails(h) \/ PublishFails(h) \/ RequestDies(h)
  \/ \E i \in 1..Len(events) : SyncGroupRoute(i) \/ SyncFails(i) \/ AckIsLost(i)
  \/ \E e \in again : SyncAgain(e)
  \/ RouteExpires \/ GroupCacheExpires

GroupsSpec == GroupsInit /\ [][GroupsNext]_groupsVars

(***************************************************************************)
(* Properties                                                              *)
(***************************************************************************)
\* Direct writes and replayed notices meet: with no request or notice under
\* way, a member set that exists holds exactly the members of the database,
\* whichever one call failed - but for users about whom requests overlapped,
\* a write was lost or notices came out of order since the set last expired
\* (route.go ensureGroupRoute, group_events.go syncGroupRoute).
RouteIsMembership ==
  (/\ \A h \in GroupHandler : ~Busy(h)
   /\ Queued = {}
   /\ route # {})
    => \A u \in Member \ strayed : u \in route <=> rows[u] > 0

\* member_count is the number of member rows until requests about one user
\* overlap, the creator lists itself, an update saves a stale copy, or a member
\* leaves whom a failed check had let in again
\* (dao/group.go InsertMember, DeleteMember, DeleteMembers).
CountIsRows ==
  (groupRow = "up" /\ crossed = {} /\ ~miscounted) => memberCount = RowTotal

\* Nobody is a member twice unless requests about that user overlapped, or the
\* check before the insert failed, since the user's rows were last deleted: that
\* check is all that prevents it (apply.go, invite.go).
MemberOnce == \A u \in Member \ (crossed \union unchecked) : rows[u] <= 1

\* A rejected record brought nobody in unless two requests answered it at
\* once, and an accepted one did once its request is over, unless that
\* request was cut short (apply.go HandleGroupApply, invite.go HandleGroupInvite).
AnswerStands ==
  \A p \in Petition \ doubled :
    /\ petitions[p].status = "rejected" => p \notin admitted
    /\ (petitions[p].status = "accepted" /\ \A h \in GroupHandler : request[h].petition # p)
         => p \in admitted \union refused
=============================================================================
