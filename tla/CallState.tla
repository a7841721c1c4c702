------------------------------- MODULE CallState -------------------------------
(***************************************************************************)
(* The state plane of WebRTC calls: the call's HASH, the two busy locks and *)
(* the deadline index in Redis, and the processes that work on them one    *)
(* key at a time: the signal handlers of the users' gateway connections    *)
(* (invite, accept, terminate, pending) and the sweepers that end calls    *)
(* whose time is up.                                                       *)
(*                                                                         *)
(* Every Redis script is one atomic step.  Between two of them any other   *)
(* process may run, a process may crash, and a script may fail, with or    *)
(* without having taken effect.                                            *)
(*                                                                         *)
(* Time: Tick lets one unit pass.  Absolute times are kept as what remains *)
(* of them, like a key's TTL.  An operation crosses at most one tick (its  *)
(* Redis calls have a timeout well below a unit), and an idle sweeper      *)
(* polls between any two ticks (every 2 s).                                *)
(***************************************************************************)
EXTENDS Integers, Sequences, FiniteSets

CONSTANTS
  User,        \* users; each has one connection, which handles one signal at a time
  Sweeper,     \* sweepers, one per gateway
  Call,        \* calls that may be placed
  CallerOf,    \* [Call -> User]
  CalleeOf,    \* [Call -> User]
  NoCall,      \* no call: the value of a free lock
  RingTTL, EndedLingerTTL, ClaimVisibilityTTL, MaxCallDuration,   \* in ticks
  MaxMishaps,  \* bound: crashes and failed scripts, taken together
  MaxConnects, \* bound: times a user connects anew
  MaxSignals   \* bound: accept, cancel, reject and hangup signals sent

ASSUME CallAssumption ==
  /\ CallerOf \in [Call -> User]
  /\ CalleeOf \in [Call -> User]
  /\ \A c \in Call : CallerOf[c] # CalleeOf[c]
  /\ NoCall \notin Call
  /\ User \cap Sweeper = {}
  /\ {EndedLingerTTL, ClaimVisibilityTTL, MaxCallDuration} \subseteq Nat \ {0}
  /\ RingTTL \in Nat \ {0, 1}      \* more than an operation may take
  /\ {MaxMishaps, MaxConnects, MaxSignals} \subseteq Nat

Proc == User \cup Sweeper

VARIABLES
  \* Redis
  state,     \* state[c]: the HASH's state; none: not yet written, gone: expired
  talked,    \* talked[c]: connected_at is set
  expire,    \* expire[c]: what remains until expire_at
  ttl,       \* ttl[c]: what remains until the HASH expires
  due,       \* due[c]: what remains until the index entry is due, or NotIndexed
  busy,      \* busy[u]: the call that holds the user's busy lock
  busyTTL,   \* busyTTL[u]: what remains until the lock expires
  \* users
  online,    \* online[u]: the user's client is connected, and its route registered
  asked,     \* asked[u]: this connection has had its CALL_PENDING answered,
             \* other than for want of the caller
  told,      \* told[c]: the callee got the invite on this connection, before, or never
  made,      \* made[c]: how far the caller's onCallInvite got
  \* processes
  pc, job,   \* pc[p], job[p]: what the process does, and for which call
  left,      \* left[p]: what remains until the expire_at it has computed or read
  note,      \* note[p]: the reason it ends the call with, and what it knows of it
  claimed,   \* claimed[w]: calls the sweeper has claimed and not yet reaped
  late,      \* processes whose operation has crossed a tick
  records,   \* records[c]: the chat records published, in order
  mishaps, connects, signals   \* how much of each bound is used up

redisVars == <<state, talked, expire, ttl, due, busy, busyTTL>>
userVars  == <<online, asked, told, made>>
vars == <<state, talked, expire, ttl, due, busy, busyTTL, online, asked, told, made,
          pc, job, left, note, claimed, late, records, mishaps, connects, signals>>

NotIndexed == -1

States  == {"none", "ringing", "connected", "ended", "gone"}
Reason  == {"canceled", "rejected", "completed", "missed", "failed"}
Record  == [why : Reason, talked : BOOLEAN]
NoNote  == [why |-> "none", talked |-> FALSE]
Note    == Record \cup {NoNote}
Parties(c) == {CallerOf[c], CalleeOf[c]}
Absent(c)  == state[c] \in {"none", "gone"}
Active(c)  == state[c] \in {"ringing", "connected"}
Ringing(c) == state[c] = "ringing" /\ expire[c] > 0          \* IsRinging

PCs == {"idle", "lock_caller", "unlock_callee", "index", "create", "deliver",
        "pending_get", "pending_unlock", "pending_check", "accept", "accept_index",
        "terminate", "unindex", "free_callee", "free_caller", "record",
        "reap", "reschedule", "drop_index"}

TypeOK ==
  /\ state \in [Call -> States]
  /\ talked \in [Call -> BOOLEAN]
  /\ expire \in [Call -> Nat] /\ ttl \in [Call -> Nat]
  /\ due \in [Call -> Nat \cup {NotIndexed}]
  /\ busy \in [User -> Call \cup {NoCall}]
  /\ busyTTL \in [User -> Nat]
  /\ online \in [User -> BOOLEAN] /\ asked \in [User -> BOOLEAN]
  /\ told \in [Call -> {"never", "before", "now"}]
  /\ made \in [Call -> {"no", "making", "made", "offered", "refused"}]
  /\ pc \in [Proc -> PCs]
  /\ job \in [Proc -> Call \cup {NoCall}]
  /\ left \in [Proc -> Nat]
  /\ note \in [Proc -> Note]
  /\ claimed \in [Sweeper -> SUBSET Call]
  /\ late \subseteq Proc
  /\ records \in [Call -> Seq(Record)]
  /\ mishaps \in 0 .. MaxMishaps /\ connects \in 0 .. MaxConnects
  /\ signals \in 0 .. MaxSignals
  /\ \A p \in Proc : pc[p] \in {"idle", "reap"} <=> job[p] = NoCall
  /\ \A u \in User : busy[u] = NoCall <=> busyTTL[u] = 0
  /\ \A c \in Call : Absent(c) <=> ttl[c] = 0

Init ==
  /\ state = [c \in Call |-> "none"]
  /\ talked = [c \in Call |-> FALSE]
  /\ expire = [c \in Call |-> 0]
  /\ ttl = [c \in Call |-> 0]
  /\ due = [c \in Call |-> NotIndexed]
  /\ busy = [u \in User |-> NoCall]
  /\ busyTTL = [u \in User |-> 0]
  /\ online \in [User -> BOOLEAN]
  /\ asked = online
  /\ told = [c \in Call |-> "never"]
  /\ made = [c \in Call |-> "no"]
  /\ pc = [p \in Proc |-> "idle"]
  /\ job = [p \in Proc |-> NoCall]
  /\ left = [p \in Proc |-> 0]
  /\ note = [p \in Proc |-> NoNote]
  /\ claimed = [w \in Sweeper |-> {}]
  /\ late = {}
  /\ records = [c \in Call |-> <<>>]
  /\ mishaps = 0 /\ connects = 0 /\ signals = 0

----------------------------------------------------------------------------
(* Steps of a process. *)

At(p, label)   == pc[p] = label
Goto(p, label) == pc' = [pc EXCEPT ![p] = label] /\ UNCHANGED <<job, left, note, claimed, late>>

(* The operation is over; a sweeper goes on with the next call it has claimed. *)
FinishCall(p, c) ==
  LET rest == IF p \in Sweeper THEN claimed[p] \ {c} ELSE {} IN
  /\ pc' = [pc EXCEPT ![p] = IF rest = {} THEN "idle" ELSE "reap"]
  /\ job' = [job EXCEPT ![p] = NoCall]
  /\ left' = [left EXCEPT ![p] = 0]
  /\ note' = [note EXCEPT ![p] = NoNote]
  /\ claimed' = [w \in Sweeper |-> IF w = p THEN rest ELSE claimed[w]]
  /\ late' = IF rest = {} THEN late \ {p} ELSE late

Finish(p) == FinishCall(p, job[p])

(* A process starts an operation on a call, with a time and a reason in hand. *)
Start(p, c, label, time, about) ==
  /\ pc' = [pc EXCEPT ![p] = label]
  /\ job' = [job EXCEPT ![p] = c]
  /\ left' = [left EXCEPT ![p] = time]
  /\ note' = [note EXCEPT ![p] = about]
  /\ UNCHANGED <<claimed, late>>

Calm   == UNCHANGED <<mishaps, connects, signals>>
Mishap == mishaps < MaxMishaps /\ mishaps' = mishaps + 1 /\ UNCHANGED <<connects, signals>>
Signal == signals < MaxSignals /\ signals' = signals + 1 /\ UNCHANGED <<mishaps, connects>>

\* mutant: whoever holds the lock, it is taken over
LockTakenOver(u, c) == TRUE

\* mutant: SET without PX, the lock keeps whatever time it had
LockForever(u, c) == busy' = [busy EXCEPT ![u] = c] /\ UNCHANGED busyTTL

(* acquireBusyScript and releaseBusyScript *)
LockFree(u, c) == busy[u] \in {NoCall, c}
Lock(u, c) ==
  /\ busy' = [busy EXCEPT ![u] = c]
  /\ busyTTL' = [busyTTL EXCEPT ![u] = RingTTL]
Unlock(u, c) ==
  IF busy[u] = c
  THEN busy' = [busy EXCEPT ![u] = NoCall] /\ busyTTL' = [busyTTL EXCEPT ![u] = 0]
  ELSE UNCHANGED <<busy, busyTTL>>

hashVars == <<state, talked, expire, ttl>>
lockVars == <<busy, busyTTL>>

SetMade(c, to) == made' = [made EXCEPT ![c] = to] /\ UNCHANGED <<online, asked, told>>

----------------------------------------------------------------------------
(* onCallInvite: both locks, the index, the HASH, and only then the callee. *)

(* The callee's lock comes first; if it is taken there is nothing to undo. *)
Invite(u, c) ==
  /\ At(u, "idle") /\ online[u] /\ u = CallerOf[c] /\ made[c] = "no"
  /\ \/ /\ LockFree(CalleeOf[c], c)
        /\ Lock(CalleeOf[c], c)
        /\ Start(u, c, "lock_caller", RingTTL, NoNote)
        /\ SetMade(c, "making")
        /\ Calm
     \/ /\ ~LockFree(CalleeOf[c], c)
        /\ SetMade(c, "refused")
        /\ UNCHANGED <<lockVars, pc, job, left, note, claimed, late>>
        /\ Calm
     \/ /\ Mishap
        /\ (LockFree(CalleeOf[c], c) /\ Lock(CalleeOf[c], c)) \/ UNCHANGED lockVars
        /\ SetMade(c, "refused")
        /\ UNCHANGED <<pc, job, left, note, claimed, late>>
  /\ UNCHANGED <<hashVars, due, records>>

LockCaller(u) ==
  LET c == job[u] IN
  /\ At(u, "lock_caller")
  /\ \/ LockFree(u, c) /\ Lock(u, c) /\ Goto(u, "index") /\ Calm
     \/ ~LockFree(u, c) /\ UNCHANGED lockVars /\ Goto(u, "unlock_callee") /\ Calm
     \/ /\ Mishap
        /\ (LockFree(u, c) /\ Lock(u, c)) \/ UNCHANGED lockVars
        /\ Goto(u, "unlock_callee")
  /\ UNCHANGED <<hashVars, due, userVars, records>>

UnlockCallee(u) ==
  LET c == job[u] IN
  /\ At(u, "unlock_callee")
  /\ Unlock(CalleeOf[c], c)
  /\ SetMade(c, "refused")
  /\ Finish(u)
  /\ Calm
  /\ UNCHANGED <<hashVars, due, records>>

\* mutant: the index is written with its error ignored, as Accept does
IndexFailsSilently(u) == Goto(u, "create")

(* Without an index entry there will be no HASH either. *)
IndexFails(u) == Goto(u, "free_callee")

IndexCall(u) ==
  LET c == job[u] IN
  /\ At(u, "index")
  /\ \/ due' = [due EXCEPT ![c] = left[u]] /\ Goto(u, "create") /\ Calm
     \/ /\ Mishap
        /\ due' = [due EXCEPT ![c] = left[u]] \/ UNCHANGED due
        /\ IndexFails(u)
  /\ UNCHANGED <<hashVars, lockVars, userVars, records>>

WriteRinging(c, time) ==
  /\ state' = [state EXCEPT ![c] = "ringing"]
  /\ expire' = [expire EXCEPT ![c] = time]
  /\ ttl' = [ttl EXCEPT ![c] = RingTTL + EndedLingerTTL]
  /\ UNCHANGED talked

CreateState(u) ==
  LET c == job[u] IN
  /\ At(u, "create")
  /\ \/ WriteRinging(c, left[u]) /\ Goto(u, "deliver") /\ SetMade(c, "made") /\ Calm
     \/ /\ Mishap
        /\ WriteRinging(c, left[u]) \/ UNCHANGED hashVars
        /\ Goto(u, "free_callee")
        /\ UNCHANGED userVars
  /\ UNCHANGED <<due, lockVars, records>>

(* The invite reaches a callee that is connected by now; a lookup that fails
   broadcasts and reaches it too.  A route that outlives its connection, or
   its node, leads nowhere. *)
Deliver(u) ==
  LET c == job[u] IN
  /\ At(u, "deliver")
  /\ made' = [made EXCEPT ![c] = "offered"]
  /\ told' = [told EXCEPT ![c] = IF online[CalleeOf[c]] THEN "now" ELSE @]
  /\ Finish(u)
  /\ Calm
  /\ UNCHANGED <<redisVars, online, asked, records>>

----------------------------------------------------------------------------
(* onCallPending: what a client asks for when it has connected. *)

Answered(u) == asked' = [asked EXCEPT ![u] = online[u]] /\ UNCHANGED <<online, told, made>>

ReadLock(u) ==
  /\ At(u, "idle") /\ online[u] /\ ~asked[u]
  /\ \/ /\ busy[u] = NoCall
        /\ Answered(u)
        /\ UNCHANGED <<pc, job, left, note, claimed, late>>
     \/ /\ busy[u] # NoCall
        /\ Start(u, busy[u], "pending_get", 0, NoNote)
        /\ UNCHANGED userVars
  /\ Calm
  /\ UNCHANGED <<redisVars, records>>

PendingGet(u) ==
  LET c == job[u] IN
  /\ At(u, "pending_get")
  /\ \/ Absent(c) /\ Goto(u, "pending_unlock") /\ UNCHANGED userVars
     \/ ~Absent(c) /\ CalleeOf[c] = u /\ Ringing(c) /\ Goto(u, "pending_check") /\ UNCHANGED userVars
     \/ ~Absent(c) /\ ~(CalleeOf[c] = u /\ Ringing(c)) /\ Finish(u) /\ Answered(u)
  /\ Calm
  /\ UNCHANGED <<redisVars, records>>

(* A lock without a state is taken for a remnant. *)
PendingUnlock(u) ==
  /\ At(u, "pending_unlock")
  /\ Unlock(u, job[u])
  /\ Finish(u) /\ Answered(u)
  /\ Calm
  /\ UNCHANGED <<hashVars, due, records>>

(* The caller's route must still be there, as it may well be for a while when
   the caller is not, and enough of the ringing time left: with a tick or less
   to go, minDeliverRemainMs may refuse. *)
PendingCheck(u) ==
  LET c == job[u] IN
  /\ At(u, "pending_check")
  /\ \/ /\ ~online[CallerOf[c]]
        /\ Start(u, c, "terminate", 0, [why |-> "failed", talked |-> FALSE])
        /\ UNCHANGED userVars
     \/ /\ told' = [told EXCEPT ![c] = IF online[u] THEN "now" ELSE @]
        /\ asked' = [asked EXCEPT ![u] = online[u]]
        /\ Finish(u)
        /\ UNCHANGED <<online, made>>
     \/ expire[c] <= 1 /\ Finish(u) /\ Answered(u)
  /\ Calm
  /\ UNCHANGED <<redisVars, records>>

----------------------------------------------------------------------------
(* onCallAccept and onCallTerminate. *)

Accept(u, c) ==
  /\ At(u, "idle") /\ online[u] /\ u = CalleeOf[c] /\ told[c] # "never"
  /\ ~Absent(c)
  /\ Start(u, c, "accept", 0, NoNote)
  /\ Signal
  /\ UNCHANGED <<redisVars, userVars, records>>

WriteConnected(c) ==
  /\ state' = [state EXCEPT ![c] = "connected"]
  /\ talked' = [talked EXCEPT ![c] = TRUE]
  /\ expire' = [expire EXCEPT ![c] = MaxCallDuration]
  /\ ttl' = [ttl EXCEPT ![c] = MaxCallDuration + EndedLingerTTL]

(* acceptScript's comparison *)
MayConnect(c) == state[c] = "ringing"

AcceptCAS(u) ==
  LET c == job[u] IN
  /\ At(u, "accept")
  /\ \/ /\ MayConnect(c)
        /\ WriteConnected(c)
        /\ Start(u, c, "accept_index", MaxCallDuration, NoNote)
        /\ Calm
     \/ ~MayConnect(c) /\ UNCHANGED hashVars /\ Finish(u) /\ Calm
     \/ /\ Mishap
        /\ (MayConnect(c) /\ WriteConnected(c)) \/ UNCHANGED hashVars
        /\ Finish(u)
  /\ UNCHANGED <<due, lockVars, userVars, records>>

AcceptIndex(u) ==
  /\ At(u, "accept_index")
  /\ due' = [due EXCEPT ![job[u]] = left[u]]
  /\ Finish(u)
  /\ Calm
  /\ UNCHANGED <<hashVars, lockVars, userVars, records>>

(* Hanging up while it rings is the caller's cancel or the callee's reject. *)
Normalized(u, c, reason) ==
  IF state[c] # "ringing" \/ reason # "completed" THEN reason
  ELSE IF u = CallerOf[c] THEN "canceled" ELSE "rejected"

HangUp(u, c, reason) ==
  /\ At(u, "idle") /\ online[u] /\ u \in Parties(c)
  /\ IF u = CallerOf[c] THEN made[c] \in {"made", "offered"} ELSE told[c] # "never"
  /\ ~Absent(c)
  /\ Start(u, c, "terminate", 0, [why |-> Normalized(u, c, reason), talked |-> FALSE])
  /\ Signal
  /\ UNCHANGED <<redisVars, userVars, records>>

----------------------------------------------------------------------------
(* Terminate, for the handlers and the sweepers: the CAS, and for its winner
   the index, both locks and the record. *)

\* mutant: an ended call may be ended again
MayEndAgain(c) == ~Absent(c)

\* mutant: only a ringing call is ended
MayEndRinging(c) == state[c] = "ringing"

(* terminateScript's comparison *)
MayEnd(c) == Active(c)

WriteEnded(c) ==
  /\ state' = [state EXCEPT ![c] = "ended"]
  /\ ttl' = [ttl EXCEPT ![c] = EndedLingerTTL]
  /\ UNCHANGED <<talked, expire>>

Terminate(p) ==
  LET c == job[p] IN
  /\ At(p, "terminate")
  /\ \/ /\ MayEnd(c)
        /\ WriteEnded(c)
        /\ Start(p, c, "unindex", 0, [note[p] EXCEPT !.talked = talked[c]])
        /\ Calm
     \/ ~MayEnd(c) /\ UNCHANGED hashVars /\ Finish(p) /\ Calm
     \/ /\ Mishap
        /\ (MayEnd(c) /\ WriteEnded(c)) \/ UNCHANGED hashVars
        /\ Finish(p)
  /\ UNCHANGED <<due, lockVars, userVars, records>>

Unindex(p) ==
  /\ At(p, "unindex")
  /\ due' = [due EXCEPT ![job[p]] = NotIndexed]
  /\ Goto(p, "free_callee")
  /\ Calm
  /\ UNCHANGED <<hashVars, lockVars, userVars, records>>

(* releaseBoth; also how a Create that failed half-way is undone. *)
FreeCallee(p) ==
  /\ At(p, "free_callee")
  /\ Unlock(CalleeOf[job[p]], job[p])
  /\ Goto(p, "free_caller")
  /\ Calm
  /\ UNCHANGED <<hashVars, due, userVars, records>>

FreeCaller(p) ==
  LET c == job[p] IN
  /\ At(p, "free_caller")
  /\ Unlock(CallerOf[c], c)
  /\ \/ note[p] = NoNote /\ Finish(p) /\ SetMade(c, "refused")
     \/ note[p] # NoNote /\ Goto(p, "record") /\ UNCHANGED userVars
  /\ Calm
  /\ UNCHANGED <<hashVars, due, records>>

PublishRecord(p) ==
  LET c == job[p] IN
  /\ At(p, "record")
  /\ records' = [records EXCEPT ![c] = Append(@, note[p])]
  /\ Finish(p)
  /\ Calm
  /\ UNCHANGED <<redisVars, userVars>>

----------------------------------------------------------------------------
(* The sweeper: claim what is due by scoring it anew, then reap each call. *)

ClaimExpired(w) ==
  LET D == {c \in Call : due[c] = 0} IN
  /\ At(w, "idle") /\ D # {}
  /\ due' = [c \in Call |-> IF c \in D THEN ClaimVisibilityTTL ELSE due[c]]
  /\ claimed' = [claimed EXCEPT ![w] = D]
  /\ pc' = [pc EXCEPT ![w] = "reap"]
  /\ UNCHANGED <<job, left, note, late>>
  /\ Calm
  /\ UNCHANGED <<hashVars, lockVars, userVars, records>>

(* reasonFor; a missed call and an offline peer are one reason here *)
SweepReason(c) == IF state[c] = "connected" THEN "completed" ELSE "missed"

\* mutant: the index alone decides that a call is over
TimeLeftIgnored(c) == FALSE

(* expire_at, not the index, says whether a call's time is up. *)
TimeLeft(c) == expire[c] > 0

Reap(w) ==
  /\ At(w, "reap")
  /\ \E c \in claimed[w] :
       \/ ~Active(c) /\ Start(w, c, "drop_index", 0, NoNote)
       \/ Active(c) /\ TimeLeft(c) /\ Start(w, c, "reschedule", expire[c], NoNote)
       \/ /\ Active(c) /\ ~TimeLeft(c)
          /\ Start(w, c, "terminate", 0, [why |-> SweepReason(c), talked |-> FALSE])
  /\ Calm
  /\ UNCHANGED <<redisVars, userVars, records>>

Reschedule(w) ==
  /\ At(w, "reschedule")
  /\ due' = [due EXCEPT ![job[w]] = left[w]]
  /\ Finish(w)
  /\ Calm
  /\ UNCHANGED <<hashVars, lockVars, userVars, records>>

\* mutant: nothing is done about the entry of a call that has ended
DropIndexSkipped(w) ==
  /\ At(w, "drop_index") /\ Finish(w) /\ Calm
  /\ UNCHANGED <<redisVars, userVars, records>>

DropIndex(w) ==
  /\ At(w, "drop_index")
  /\ due' = [due EXCEPT ![job[w]] = NotIndexed]
  /\ Finish(w)
  /\ Calm
  /\ UNCHANGED <<hashVars, lockVars, userVars, records>>

----------------------------------------------------------------------------
(* Mishaps, connections and time. *)

(* A step that fails, does nothing, and whose error is logged, ignored or
   returned: the operation goes on, or it ends there. *)
StepLost(p) ==
  /\ Mishap
  /\ \/ /\ \/ At(p, "unindex") /\ Goto(p, "free_callee")
           \/ At(p, "free_callee") /\ Goto(p, "free_caller")
           \/ At(p, "free_caller") /\ note[p] # NoNote /\ Goto(p, "record")
           \/ pc[p] \in {"record", "pending_get", "accept_index", "reschedule", "drop_index"}
              /\ Finish(p)
           \/ At(p, "reap") /\ \E c \in claimed[p] : FinishCall(p, c)
        /\ UNCHANGED userVars
     \/ /\ At(p, "unlock_callee") \/ (At(p, "free_caller") /\ note[p] = NoNote)
        /\ SetMade(job[p], "refused")
        /\ Finish(p)
     \/ At(p, "pending_unlock") /\ Answered(p) /\ Finish(p)
  /\ UNCHANGED <<redisVars, records>>

(* Of a connection that is gone only what its client remembers is left; a
   handler that is at work goes on. *)
Offline(u) ==
  /\ online' = [online EXCEPT ![u] = FALSE]
  /\ asked' = [asked EXCEPT ![u] = FALSE]
  /\ told' = [c \in Call |-> IF CalleeOf[c] = u /\ told[c] = "now" THEN "before" ELSE told[c]]
  /\ UNCHANGED made

(* The gateway dies with the connection's handler, or with its sweeper. *)
Crash(p) ==
  /\ ~At(p, "idle")
  /\ Mishap
  /\ pc' = [pc EXCEPT ![p] = "idle"]
  /\ job' = [job EXCEPT ![p] = NoCall]
  /\ left' = [left EXCEPT ![p] = 0]
  /\ note' = [note EXCEPT ![p] = NoNote]
  /\ claimed' = [w \in Sweeper |-> IF w = p THEN {} ELSE claimed[w]]
  /\ late' = late \ {p}
  /\ IF p \in User THEN Offline(p) ELSE UNCHANGED userVars
  /\ UNCHANGED <<redisVars, records>>

Disconnect(u) ==
  /\ online[u]
  /\ Offline(u)
  /\ Calm
  /\ UNCHANGED <<redisVars, pc, job, left, note, claimed, late, records>>

(* The route is registered before the client can ask for anything. *)
Connect(u) ==
  /\ ~online[u] /\ At(u, "idle")
  /\ connects < MaxConnects /\ connects' = connects + 1
  /\ online' = [online EXCEPT ![u] = TRUE]
  /\ UNCHANGED <<redisVars, asked, told, made, pc, job, left, note, claimed, late,
                 records, mishaps, signals>>

Down(n) == IF n > 0 THEN n - 1 ELSE n

Tick ==
  /\ late = {}
  /\ ~\E c \in Call, w \in Sweeper : due[c] = 0 /\ At(w, "idle")
  /\ late' = {p \in Proc : ~At(p, "idle")}
  /\ expire' = [c \in Call |-> Down(expire[c])]
  /\ ttl' = [c \in Call |-> Down(ttl[c])]
  /\ state' = [c \in Call |-> IF ttl[c] = 1 THEN "gone" ELSE state[c]]
  /\ due' = [c \in Call |-> Down(due[c])]
  /\ busyTTL' = [u \in User |-> Down(busyTTL[u])]
  /\ busy' = [u \in User |-> IF busyTTL[u] = 1 THEN NoCall ELSE busy[u]]
  /\ left' = [p \in Proc |-> Down(left[p])]
  /\ UNCHANGED <<talked, userVars, pc, job, note, claimed, records, mishaps, connects, signals>>

----------------------------------------------------------------------------
\* mutant: the callee is told first, then the HASH is written
HandlerStepOfferFirst(u) ==
  LET c == job[u] IN
  \/ LockCaller(u) \/ UnlockCallee(u) \/ IndexCall(u)
  \/ /\ At(u, "create")
     /\ told' = [told EXCEPT ![c] = IF online[CalleeOf[c]] THEN "now" ELSE @]
     /\ Goto(u, "deliver") /\ Calm
     /\ UNCHANGED <<redisVars, online, asked, made, records>>
  \/ /\ At(u, "deliver")
     /\ WriteRinging(c, left[u])
     /\ SetMade(c, "offered") /\ Finish(u) /\ Calm
     /\ UNCHANGED <<due, lockVars, records>>
  \/ ReadLock(u) \/ PendingGet(u) \/ PendingUnlock(u) \/ PendingCheck(u)
  \/ AcceptCAS(u) \/ AcceptIndex(u)

HandlerStep(u) ==
  \/ LockCaller(u) \/ UnlockCallee(u) \/ IndexCall(u) \/ CreateState(u) \/ Deliver(u)
  \/ ReadLock(u) \/ PendingGet(u) \/ PendingUnlock(u) \/ PendingCheck(u)
  \/ AcceptCAS(u) \/ AcceptIndex(u)

TerminateStep(p) ==
  Terminate(p) \/ Unindex(p) \/ FreeCallee(p) \/ FreeCaller(p) \/ PublishRecord(p)

SweeperStep(w) == ClaimExpired(w) \/ Reap(w) \/ Reschedule(w) \/ DropIndex(w)

Step(p) ==
  \/ TerminateStep(p)
  \/ p \in User /\ HandlerStep(p)
  \/ p \in Sweeper /\ SweeperStep(p)

Next ==
  \/ Tick
  \/ \E u \in User : Connect(u) \/ Disconnect(u)
  \/ \E u \in User, c \in Call :
       \/ Invite(u, c) \/ Accept(u, c)
       \/ \E reason \in {"canceled", "rejected", "completed"} : HangUp(u, c, reason)
  \/ \E p \in Proc : Step(p) \/ StepLost(p) \/ Crash(p)

(* Whatever was begun goes on, the sweepers poll and time passes; nobody has
   to call, to answer or to hang up. *)
Fairness == WF_vars(Tick) /\ \A p \in Proc : WF_vars(Step(p))

Spec     == Init /\ [][Next]_vars
FairSpec == Spec /\ Fairness

----------------------------------------------------------------------------
(* Properties. *)

(* A call that is alive can always be found by the sweepers: whoever crashes
   and whatever fails, its index entry is there (Create writes the index
   before the HASH, and it is removed only after the call has ended). *)
ActiveIsIndexed == \A c \in Call : Active(c) => due[c] # NotIndexed

(* Nobody's phone rings for two calls at once (the busy locks of Create). *)
RingsAlone ==
  \A c, d \in Call : Ringing(c) /\ Ringing(d) /\ Parties(c) \cap Parties(d) # {} => c = d

(* No invite is missed: once the caller has tried to deliver it and the
   callee's connection has had its CALL_PENDING answered, a callee that is
   online while the call still rings has been told of it on that connection
   (the order contract of Create and onCallInvite).  Of one connection anew
   only: a CALL_PENDING during Create releases the callee's lock, and then a
   further connection that asks finds none. *)
InviteReaches ==
  connects <= 1 =>
  \A c \in Call :
    /\ made[c] = "offered" /\ state[c] = "ringing" /\ expire[c] > 1
    /\ online[CalleeOf[c]] /\ asked[CalleeOf[c]]
    => told[c] = "now"

(* The state plane implements CallLifecycle. *)
Lifecycle == INSTANCE CallLifecycle WITH phase <- state
ImplementsCallLifecycle == Lifecycle!Spec

(* An index entry that has drifted ends no call: when a sweeper is about to
   end a call it has read as connected, the call's time really is up. *)
DriftEndsNoCall ==
  \A w \in Sweeper :
    At(w, "terminate") /\ note[w].why = "completed" /\ Active(job[w]) => expire[job[w]] = 0

(* Every call that has rung leaves a record in the end, unless something has
   crashed or failed: the winner of the CAS may die before it publishes. *)
EveryCallRecorded ==
  \A c \in Call : state[c] = "ringing" ~> records[c] # <<>> \/ mishaps > 0

(* An index entry goes away in the end, whatever crashed or failed. *)
IndexHeals == \A c \in Call : due[c] # NotIndexed ~> due[c] = NotIndexed
=============================================================================
