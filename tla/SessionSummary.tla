---------------------------- MODULE SessionSummary ----------------------------
(***************************************************************************)
(* What a private chat's session list shows: the newest message, kept in   *)
(* MySQL (session), as a snapshot in Redis (session:info) and in the users'*)
(* timelines by every instance's SeqSyncer; and one user's read cursor     *)
(* (user_session), which EnsureUserSessions creates and MarkSessionRead    *)
(* advances.                                                               *)
(*                                                                         *)
(* An instance handles the messages of a session one after the other       *)
(* (NatsListener hashes a session to a worker); the instances run side by  *)
(* side, each with a channel of updates that its SeqSyncer flushes, first  *)
(* to MySQL, then to Redis.  A message is its seq; one that is delivered   *)
(* again keeps it.  Storing and acknowledging it is MessagePipeline's.     *)
(***************************************************************************)
EXTENDS Integers, Sequences, FiniteSets

CONSTANTS
    Syncer,      \* instances of the Message service
    MaxMsg,      \* the messages are 1..MaxMsg
    ChannelCap,  \* capacity of SeqSyncer's channel (defaultSeqBufSize)
    SumFaults,   \* bound on failed calls
    SumCrashes   \* bound on instance crashes

ASSUME SessionSummaryAssumption ==
    {MaxMsg, ChannelCap, SumFaults, SumCrashes} \subseteq Nat

VARIABLES
    dbRow,     \* the row of session: [seq, content], both 0 at first
    snapshot,  \* the hash session:info, [seq, content], both 0 when absent
    timeline,  \* the session's score in the users' timelines, 0 when absent; it is
               \* the newest message's time, which here is its seq
    cursor,    \* the user's row of user_session: [row, read]
    guard,     \* guard[i]: i's ensureGuard holds the session
    worker,    \* worker[i]: what i does with its current message
    channel,   \* channel[i]: the updates pushed to i's SeqSyncer
    flush,     \* flush[i][c]: batchFlush, by the SeqSyncer or by the worker
    stored,    \* messages in the log
    handled,   \* messages whose handling is complete
    unensured, \* history: messages handled although the ensuring had failed
    hidden,    \* history: the cursor's value when EnsureUserSessions made it
    sumFaults, sumCrashes

listVars   == <<dbRow, snapshot, timeline>>
cursorVars == <<cursor, hidden>>
flushVars  == <<channel, flush>>
workVars   == <<guard, worker, stored, handled, unensured>>
sumBudget  == <<sumFaults, sumCrashes>>
sumVars    == <<listVars, cursorVars, flushVars, workVars, sumBudget>>

Message == 1..MaxMsg
Summary == [seq : 0..MaxMsg, content : 0..MaxMsg]
SummaryOf(m) == [seq |-> m, content |-> m]
NoSummary == SummaryOf(0)

Caller == {"run", "push"}

NotWorking == [pc |-> "idle", msg |-> 0, top |-> 0]
NotFlushing == [pc |-> "idle", msg |-> 0, wrote |-> FALSE]

SumTypeOK ==
    /\ dbRow \in Summary /\ snapshot \in Summary
    /\ timeline \in 0..MaxMsg /\ hidden \in 0..MaxMsg
    /\ cursor \in [row : BOOLEAN, read : 0..MaxMsg]
    /\ guard \in [Syncer -> BOOLEAN]
    /\ worker \in [Syncer -> [pc : {"idle", "read", "insert", "store", "push", "flush"},
                              msg : 0..MaxMsg, top : 0..MaxMsg]]
    /\ channel \in [Syncer -> Seq(Message)]
    /\ flush \in [Syncer -> [Caller -> [pc : {"idle", "mysql", "redis"},
                                        msg : 0..MaxMsg, wrote : BOOLEAN]]]
    /\ stored \subseteq Message /\ handled \subseteq Message /\ unensured \subseteq Message
    /\ sumFaults \in 0..SumFaults /\ sumCrashes \in 0..SumCrashes

SumInit ==
    /\ dbRow = NoSummary /\ snapshot = NoSummary /\ timeline = 0 /\ hidden = 0
    /\ cursor = [row |-> FALSE, read |-> 0]
    /\ guard = [i \in Syncer |-> FALSE]
    /\ worker = [i \in Syncer |-> NotWorking]
    /\ channel = [i \in Syncer |-> <<>>]
    /\ flush = [i \in Syncer |-> [c \in Caller |-> NotFlushing]]
    /\ stored = {} /\ handled = {} /\ unensured = {}
    /\ sumFaults = 0 /\ sumCrashes = 0

SumFault == sumFaults < SumFaults /\ sumFaults' = sumFaults + 1

(* FindSessionsByIDs: the snapshot, or the row when there is none *)
Shown == IF snapshot.seq > 0 THEN snapshot ELSE dbRow

Larger(a, b) == IF a > b THEN a ELSE b

--------------------------------------------------------------------------------
(* The worker: ensure, store, push.                                        *)

Proceed(i, pc) == worker' = [worker EXCEPT ![i].pc = pc]

(* a message arrives; tryAcquire lets one message per period ensure *)
Pull(i, m) ==
    /\ worker[i].pc = "idle" /\ m \notin handled
    /\ \A j \in Syncer : worker[j].msg # m
    /\ worker' = [worker EXCEPT ![i] = [pc |-> IF guard[i] THEN "store" ELSE "read",
                                        msg |-> m, top |-> 0]]
    /\ guard' = [guard EXCEPT ![i] = TRUE]
    /\ UNCHANGED <<stored, handled, unensured, listVars, cursorVars, flushVars, sumBudget>>

\* Mutant: the row starts at the message that is being handled.
CurrentMaxSeqOwn(i) ==
    /\ worker[i].pc = "read"
    /\ worker' = [worker EXCEPT ![i].pc = "insert", ![i].top = worker[i].msg]
    /\ UNCHANGED <<guard, stored, handled, unensured, listVars, cursorVars, flushVars, sumBudget>>

(* currentMaxSeq; when Redis does not answer, MySQL does *)
CurrentMaxSeq(i) ==
    /\ worker[i].pc = "read"
    /\ \E top \in {Shown.seq, dbRow.seq} :
         worker' = [worker EXCEPT ![i].pc = "insert", ![i].top = top]
    /\ UNCHANGED <<guard, stored, handled, unensured, listVars, cursorVars, flushVars, sumBudget>>

(* the insert of EnsureUserSessions does nothing to a row that exists *)
EnsureUserSessions(i) ==
    /\ worker[i].pc = "insert"
    /\ cursor' = IF cursor.row THEN cursor ELSE [row |-> TRUE, read |-> worker[i].top]
    /\ hidden' = IF cursor.row THEN hidden ELSE worker[i].top
    /\ Proceed(i, "store")
    /\ UNCHANGED <<guard, stored, handled, unensured, listVars, flushVars, sumBudget>>

(* it fails: the guard is released, and the message goes its way *)
EnsureFails(i) ==
    /\ worker[i].pc = "insert" /\ SumFault
    /\ guard' = [guard EXCEPT ![i] = FALSE]
    /\ unensured' = unensured \cup {worker[i].msg}
    /\ Proceed(i, "store")
    /\ UNCHANGED <<sumCrashes, stored, handled, listVars, cursorVars, flushVars>>

(* the guard's period ends *)
GuardExpires(i) ==
    /\ guard[i] /\ worker[i].pc = "idle"
    /\ guard' = [guard EXCEPT ![i] = FALSE]
    /\ UNCHANGED <<worker, stored, handled, unensured, listVars, cursorVars, flushVars, sumBudget>>

StoreMessage(i) ==
    /\ worker[i].pc = "store"
    /\ stored' = stored \cup {worker[i].msg}
    /\ Proceed(i, "push")
    /\ UNCHANGED <<guard, handled, unensured, listVars, cursorVars, flushVars, sumBudget>>

Finish(i) ==
    /\ worker' = [worker EXCEPT ![i] = NotWorking]
    /\ handled' = handled \cup {worker[i].msg}

(* Push: there is room in the channel, at once or within 200 ms ...        *)
Push(i) ==
    /\ worker[i].pc = "push" /\ Len(channel[i]) < ChannelCap
    /\ channel' = [channel EXCEPT ![i] = Append(@, worker[i].msg)]
    /\ Finish(i)
    /\ UNCHANGED <<flush, guard, stored, unensured, listVars, cursorVars, sumBudget>>

StartFlush(i, c, m) == flush' = [flush EXCEPT ![i][c] = [pc |-> "mysql", msg |-> m, wrote |-> FALSE]]

\* Mutant: an update that finds the channel full is dropped.
PushDrops(i) ==
    /\ worker[i].pc = "push" /\ Len(channel[i]) = ChannelCap
    /\ Finish(i)
    /\ UNCHANGED <<flushVars, guard, stored, unensured, listVars, cursorVars, sumBudget>>

(* ... or the worker flushes its update itself *)
PushDegrades(i) ==
    /\ worker[i].pc = "push" /\ Len(channel[i]) = ChannelCap
    /\ StartFlush(i, "push", worker[i].msg)
    /\ Proceed(i, "flush")
    /\ UNCHANGED <<channel, guard, stored, handled, unensured, listVars, cursorVars, sumBudget>>

--------------------------------------------------------------------------------
(* batchFlush, run by i's SeqSyncer (c = "run") or by its worker ("push")  *)

(* SeqSyncer.run: flush what it has taken from the channel; of a session's *)
(* updates only the one with the largest seq counts                        *)
TakeBatch(i) ==
    /\ flush[i]["run"].pc = "idle"
    /\ \E n \in 1..Len(channel[i]) :
         /\ \E k \in 1..n :
              /\ \A l \in 1..n : channel[i][l] <= channel[i][k]
              /\ StartFlush(i, "run", channel[i][k])
         /\ channel' = [channel EXCEPT ![i] = SubSeq(@, n + 1, Len(@))]
    /\ UNCHANGED <<listVars, cursorVars, workVars, sumBudget>>

\* Mutant: the seq is assigned before the content that depends on it.
MergeSeqFirst(old, m) ==
    LET seq == Larger(old.seq, m)
    IN [seq |-> seq, content |-> IF m > seq THEN m ELSE old.content]

\* Mutant: the newest flush wins.
MergeLast(old, m) == SummaryOf(m)

(* MySQL assigns from left to right: the content before the seq it depends on *)
Merge(old, m) ==
    LET content == IF m > old.seq THEN m ELSE old.content
    IN [seq |-> Larger(old.seq, m), content |-> content]

Upsert(i, c) ==
    /\ flush[i][c].pc = "mysql"
    /\ dbRow' = Merge(dbRow, flush[i][c].msg)
    /\ flush' = [flush EXCEPT ![i][c].pc = "redis", ![i][c].wrote = TRUE]
    /\ UNCHANGED <<snapshot, timeline, channel, cursorVars, workVars, sumBudget>>

(* the upsert is reported as failed: the timelines are left alone, the     *)
(* snapshot is written all the same                                        *)
UpsertFails(i, c) ==
    /\ flush[i][c].pc = "mysql" /\ SumFault
    /\ dbRow' \in {dbRow, Merge(dbRow, flush[i][c].msg)}
    /\ flush' = [flush EXCEPT ![i][c].pc = "redis"]
    /\ UNCHANGED <<snapshot, timeline, channel, sumCrashes, cursorVars, workVars>>

FinishFlush(i, c) ==
    /\ flush' = [flush EXCEPT ![i][c] = NotFlushing]
    /\ IF c = "push" THEN Finish(i) ELSE UNCHANGED <<worker, handled>>

\* Mutant: the newest flush wins.
NewSnapshotLast(m) == SummaryOf(m)

(* snapshotUpdateScript *)
NewSnapshot(m) == IF m > snapshot.seq THEN SummaryOf(m) ELSE snapshot

\* Mutant: the timelines are written although the upsert failed.
NewTimelineAlways(f) == Larger(timeline, f.msg)

\* Mutant: the score is one too high.
NewTimelineAhead(f) == IF f.wrote THEN Larger(timeline, f.msg + 1) ELSE timeline

(* ZAddGT, for the sessions whose upsert succeeded *)
NewTimeline(f) == IF f.wrote THEN Larger(timeline, f.msg) ELSE timeline

WriteRedis(i, c) ==
    /\ flush[i][c].pc = "redis"
    /\ snapshot' = NewSnapshot(flush[i][c].msg)
    /\ timeline' = NewTimeline(flush[i][c])
    /\ FinishFlush(i, c)
    /\ UNCHANGED <<dbRow, channel, guard, stored, unensured, cursorVars, sumBudget>>

(* the pipeline breaks: none, or only the first part of it, was executed *)
RedisFails(i, c) ==
    /\ flush[i][c].pc = "redis" /\ SumFault
    /\ snapshot' \in {snapshot, NewSnapshot(flush[i][c].msg)}
    /\ FinishFlush(i, c)
    /\ UNCHANGED <<dbRow, timeline, channel, guard, stored, unensured, sumCrashes, cursorVars>>

NoFlush == \A i \in Syncer, c \in Caller : flush[i][c].pc = "idle"

(* The snapshot's seven days are over.  Every flush renews them; an update *)
(* takes seconds from the worker to the end of its flush (flushInterval,   *)
(* the 200 ms of Push, the five seconds of batchFlush), and a message with *)
(* a smaller seq was published earlier and is retried for minutes.         *)
SnapshotExpires ==
    /\ snapshot # NoSummary /\ snapshot' = NoSummary
    /\ NoFlush /\ \A i \in Syncer : channel[i] = <<>> /\ worker[i].pc = "idle"
    /\ 1..snapshot.seq \subseteq handled
    /\ UNCHANGED <<dbRow, timeline, cursorVars, flushVars, workVars, sumBudget>>

--------------------------------------------------------------------------------
(* The user, whose calls may overtake each other                           *)

\* Mutant: the report that comes last wins.
MarkSessionReadLast(m) ==
    /\ m \in stored
    /\ cursor' = [row |-> TRUE, read |-> m]
    /\ UNCHANGED <<hidden, listVars, flushVars, workVars, sumBudget>>

MarkSessionRead(m) ==
    /\ m \in stored
    /\ cursor' = [row |-> TRUE, read |-> Larger(cursor.read, m)]
    /\ UNCHANGED <<hidden, listVars, flushVars, workVars, sumBudget>>

(* a setting of the session; a row it has to create starts at 0 *)
UpdateUserSession ==
    /\ ~cursor.row
    /\ cursor' = [row |-> TRUE, read |-> 0]
    /\ UNCHANGED <<hidden, listVars, flushVars, workVars, sumBudget>>

(* The instance dies, or is stopped: nothing calls SeqSyncer.Stop.  Its    *)
(* message is delivered again.                                             *)
SyncerCrash(i) ==
    /\ sumCrashes < SumCrashes /\ sumCrashes' = sumCrashes + 1
    /\ guard' = [guard EXCEPT ![i] = FALSE]
    /\ worker' = [worker EXCEPT ![i] = NotWorking]
    /\ channel' = [channel EXCEPT ![i] = <<>>]
    /\ flush' = [flush EXCEPT ![i] = [c \in Caller |-> NotFlushing]]
    /\ UNCHANGED <<stored, handled, unensured, sumFaults, listVars, cursorVars>>

WorkerStep(i) ==
    \/ CurrentMaxSeq(i) \/ EnsureUserSessions(i) \/ EnsureFails(i)
    \/ StoreMessage(i) \/ Push(i) \/ PushDegrades(i)

FlushStep(i, c) ==
    Upsert(i, c) \/ UpsertFails(i, c) \/ WriteRedis(i, c) \/ RedisFails(i, c)

SumNext ==
    \/ \E i \in Syncer :
        \/ \E m \in Message : Pull(i, m)
        \/ WorkerStep(i) \/ GuardExpires(i) \/ SyncerCrash(i) \/ TakeBatch(i)
        \/ \E c \in Caller : FlushStep(i, c)
    \/ \E m \in Message : MarkSessionRead(m)
    \/ UpdateUserSession \/ SnapshotExpires

(* The worker and the SeqSyncer's loop run on; its ticker fires. *)
SumFairness ==
    \A i \in Syncer :
        /\ WF_sumVars(WorkerStep(i) \/ FlushStep(i, "push"))
        /\ WF_sumVars(TakeBatch(i) \/ FlushStep(i, "run"))

SumSpec == SumInit /\ [][SumNext]_sumVars /\ SumFairness

--------------------------------------------------------------------------------
(* Flushes of two instances, and of a worker that found the channel full,  *)
(* overlap in any order.  The row and the snapshot always show one message *)
(* that is stored, never the seq of one and the content of another.        *)
SummaryIsOneMessage ==
    \A s \in {dbRow, snapshot} : s.content = s.seq /\ (s.seq > 0 => s.seq \in stored)

(* An older batch never takes back what a newer one wrote (the seq         *)
(* conditions of batchFlush), unless the snapshot is dropped altogether.   *)
SummaryNeverGoesBack ==
    [][ /\ dbRow'.seq >= dbRow.seq /\ timeline' >= timeline
        /\ snapshot'.seq >= snapshot.seq \/ snapshot' = NoSummary ]_sumVars

(* GetActiveSessions lists a session by its timeline and shows its         *)
(* snapshot or its row: never an older message than the one that put the   *)
(* session on the list, whatever failed or expired in between.             *)
ListedIsShown == Shown.seq >= timeline

(* Once the flushes are over the snapshot, which readers prefer, tells     *)
(* the same as the row, in whatever order the instances' batches reached   *)
(* MySQL and Redis; only a failure or a crash leaves them apart.           *)
SnapshotAgrees ==
    NoFlush /\ sumFaults = 0 /\ sumCrashes = 0 => snapshot \in {NoSummary, dbRow}

(* The cursor never goes back, however the user's reports and the ensuring *)
(* of several instances overtake each other (MarkSessionRead's GREATEST).  *)
CursorNeverGoesBack == [][cursor.row => cursor'.row /\ cursor'.read >= cursor.read]_sumVars

(* EnsureUserSessions starts a new row at the newest message it can see.   *)
(* It never hides a message behind the cursor that has been handled with   *)
(* the row ensured: only after the ensuring of that message had failed.    *)
HidesOnlyUnensured == hidden > 0 => hidden \in unensured

(* Without failures the newest message reaches the row of the session,     *)
(* through the channel or past a full one.                                 *)
SummaryCatchesUp ==
    stored = Message ~> (dbRow.seq = MaxMsg \/ sumFaults > 0 \/ sumCrashes > 0)
================================================================================
