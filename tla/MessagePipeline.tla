---------------------------- MODULE MessagePipeline ----------------------------
(***************************************************************************)
(* The write path of a chat message: the gateway publishes it to the       *)
(* JetStream stream WS_MESSAGES, the Message service's instances pull it   *)
(* through one shared durable consumer, give it a Lamport seq, append it   *)
(* to the session's message log in MongoDB, push the session summary, and  *)
(* acknowledge it - or retry it, or move it to the dead-letter stream.     *)
(*                                                                         *)
(* Delivery is at least once: an instance may crash between any two of     *)
(* these steps, a delivery may outlive the server's AckWait while it waits *)
(* in a worker's queue, an acknowledgement may be lost, a database call    *)
(* may fail or may take effect and still be reported as failed, and an     *)
(* operator may delete the consumer, whose delivery counts then restart.   *)
(*                                                                         *)
(* One worker per instance and session: the code hashes a session to one   *)
(* of its workers, so a worker shared by two sessions only removes         *)
(* interleavings of this model.                                            *)
(***************************************************************************)
EXTENDS Integers, Sequences, FiniteSets

CONSTANTS
  Inst,         \* instances of the Message service
  Session,      \* chat sessions
  Msg,          \* what is published; each element enters the stream once
  SessionOf,    \* [Msg -> Session]
  Minted,       \* messages made by the server: they carry no client_id
  Poison,       \* messages whose payload cannot be decoded
  NodeOf,       \* [Inst -> Nat]: the node bits of an instance's seqs
  MaxDeliver,   \* deliveries after which a message is moved to the DLQ
  QueueCap,     \* capacity of a worker's queue
  MaxCrashes,   \* bound: instance crashes in a behaviour
  MaxFaults,    \* bound: failed or ambiguous calls, lost acknowledgements
  MaxTimeouts,  \* bound: AckWait expiries of a delivery that is still held
  MaxRebuilds   \* bound: deletions and re-creations of the consumer

ASSUME PipelineAssumption ==
  /\ SessionOf \in [Msg -> Session]
  /\ NodeOf \in [Inst -> Nat]
  /\ \A i, j \in Inst : NodeOf[i] = NodeOf[j] => i = j
  /\ Minted \subseteq Msg
  /\ Poison \subseteq Msg
  /\ MaxDeliver \in Nat \ {0}
  /\ QueueCap \in Nat \ {0}
  /\ Msg # {}
  /\ {MaxCrashes, MaxFaults, MaxTimeouts, MaxRebuilds} \subseteq Nat

VARIABLES
  last,      \* the stream's last sequence
  sseq,      \* sseq[m]: the message's sequence in the stream, 0 before it is published
  cons,      \* cons[m]: what the consumer knows of the message
  nd,        \* nd[m]: how often the current consumer has delivered it
  created,   \* the last stream sequence stored before the consumer was created
  seen,      \* seen[i]: the instance's copy of "created" (consumerCreated)
  refetch,   \* refetch[i]: the instance's fetches have failed (fetchFailed)
  queue,     \* queue[i][s]: deliveries waiting for the session's worker
  pc,        \* pc[i][s]: where that worker is
  job,       \* job[i][s]: the delivery it is working on
  seq,       \* seq[i][s]: the seq it has allocated
  clock,     \* clock[i][s]: the allocator's last timestamp, 0 when not Known
  log,       \* log[s]: the rows appended to the session, in order of append
  buffer,    \* buffer[i][s]: the newest summary waiting in the SeqSyncer
  summary,   \* summary[s]: the seq the session summary shows
  dlq,       \* messages in the dead-letter stream
  misdated,  \* history: messages an instance took for younger than a consumer
             \* that was created anew without its noticing
  crashes, faults, timeouts, rebuilds   \* how much of each bound is used up

streamVars  == <<last, sseq, created, rebuilds, misdated>>
fetchVars   == <<nd, seen, refetch, queue>>
budgetVars  == <<crashes, faults, timeouts>>
vars == <<last, sseq, cons, nd, created, seen, refetch, queue, pc, job, seq, clock,
          log, buffer, summary, dlq, misdated, crashes, faults, timeouts, rebuilds>>

----------------------------------------------------------------------------
(* Seqs: the timestamp first, then the node.  The counter below the node   *)
(* bits tells apart two seqs of one node with one timestamp; within a      *)
(* session a node never repeats a timestamp (NodeSeqsGrow), so it is left  *)
(* out.                                                                    *)

SeqVal == [ts : Nat, node : Nat]
NoSeq  == [ts |-> 0, node |-> 0]

SeqLess(a, b) == a.ts < b.ts \/ (a.ts = b.ts /\ a.node < b.node)
SeqMax(a, b)  == IF SeqLess(a, b) THEN b ELSE a

Row      == [msg : Msg, at : SeqVal]
Delivery == [msg : Msg, n : Nat]

NoJob    == [msg |-> CHOOSE m \in Msg : TRUE, n |-> 0]

Unknown  == -1              \* consumerCreatedUnknown: every message predates it

Rows(s)   == {log[s][k] : k \in 1 .. Len(log[s])}
Stored(m) == \E r \in Rows(SessionOf[m]) : r.msg = m

(* MaxSeq: the largest timestamp stored in the session, 0 for an empty one,
   as the set of its one value *)
MaxTs(s) ==
  {t \in {0} \cup {r.at.ts : r \in Rows(s)} : \A r \in Rows(s) : r.at.ts <= t}

Held(m) ==
  \E i \in Inst : LET s == SessionOf[m] IN
    \/ pc[i][s] # "idle" /\ job[i][s].msg = m
    \/ \E k \in 1 .. Len(queue[i][s]) : queue[i][s][k].msg = m

PCs == {"idle", "check", "alloc", "append", "ok", "failed", "poison"}

TypeOK ==
  /\ last \in Nat
  /\ sseq \in [Msg -> Nat]
  /\ cons \in [Msg -> {"new", "out", "again", "done"}]
  /\ nd \in [Msg -> Nat]
  /\ created \in Nat
  /\ seen \in [Inst -> Nat \cup {Unknown}]
  /\ refetch \in [Inst -> BOOLEAN]
  /\ queue \in [Inst -> [Session -> Seq(Delivery)]]
  /\ \A i \in Inst, s \in Session : Len(queue[i][s]) <= QueueCap
  /\ pc \in [Inst -> [Session -> PCs]]
  /\ job \in [Inst -> [Session -> Delivery]]
  /\ seq \in [Inst -> [Session -> SeqVal]]
  /\ clock \in [Inst -> [Session -> Nat]]
  /\ log \in [Session -> Seq(Row)]
  /\ buffer \in [Inst -> [Session -> SeqVal]]
  /\ summary \in [Session -> SeqVal]
  /\ dlq \subseteq Msg /\ misdated \subseteq Msg
  /\ crashes \in Nat /\ faults \in Nat /\ timeouts \in Nat /\ rebuilds \in Nat

Init ==
  /\ last = 0
  /\ sseq = [m \in Msg |-> 0]
  /\ cons = [m \in Msg |-> "new"]
  /\ nd = [m \in Msg |-> 0]
  /\ created = 0
  /\ seen = [i \in Inst |-> 0]
  /\ refetch = [i \in Inst |-> FALSE]
  /\ queue = [i \in Inst |-> [s \in Session |-> <<>>]]
  /\ pc = [i \in Inst |-> [s \in Session |-> "idle"]]
  /\ job = [i \in Inst |-> [s \in Session |-> NoJob]]
  /\ seq = [i \in Inst |-> [s \in Session |-> NoSeq]]
  /\ clock = [i \in Inst |-> [s \in Session |-> 0]]
  /\ log = [s \in Session |-> <<>>]
  /\ buffer = [i \in Inst |-> [s \in Session |-> NoSeq]]
  /\ summary = [s \in Session |-> NoSeq]
  /\ dlq = {} /\ misdated = {}
  /\ crashes = 0 /\ faults = 0 /\ timeouts = 0 /\ rebuilds = 0

----------------------------------------------------------------------------
(* The stream and its consumer. *)

(* A publisher - the gateway, the recall, a group operation, the end of a
   call - appends the message to the stream.  A resend within the stream's
   duplicate window is folded there and is no step. *)
Publish(m) ==
  /\ sseq[m] = 0
  /\ last' = last + 1
  /\ sseq' = [sseq EXCEPT ![m] = last + 1]
  /\ UNCHANGED <<cons, created, rebuilds, misdated, fetchVars, pc, job, seq, clock, log,
                 buffer, summary, dlq, budgetVars>>

FirstNew(m) == \A x \in Msg : sseq[x] > 0 /\ cons[x] = "new" => sseq[m] <= sseq[x]

\* mutant: the server, too, stops delivering after MaxDeliver deliveries
DeliverableLimited(m) ==
  /\ sseq[m] > 0 /\ nd[m] < MaxDeliver
  /\ cons[m] = "again" \/ (cons[m] = "new" /\ FirstNew(m))

(* New messages are delivered in stream order, others as they come back, and
   however often they have come back (serverMaxDeliver). *)
Deliverable(m) ==
  /\ sseq[m] > 0
  /\ cons[m] = "again" \/ (cons[m] = "new" /\ FirstNew(m))

\* mutant: one delivery too many fits into the queue
RoomOneMore(i, s) == Len(queue[i][s]) <= QueueCap

Room(i, s) == Len(queue[i][s]) < QueueCap

(* An instance fetches a message and hands it to the session's worker; the
   fetch loop waits while that worker's queue is full.  After failed fetches
   the instance reads the consumer's creation time anew before it dispatches,
   and takes every message for an old one if it cannot. *)
Fetch(i, m) ==
  LET s == SessionOf[m] IN
  /\ Deliverable(m)
  /\ Room(i, s)
  /\ cons' = [cons EXCEPT ![m] = "out"]
  /\ nd' = [nd EXCEPT ![m] = @ + 1]
  /\ queue' = [queue EXCEPT ![i][s] = Append(@, [msg |-> m, n |-> nd[m] + 1])]
  /\ \/ /\ ~refetch[i]
        /\ UNCHANGED <<seen, refetch, faults>>
     \/ /\ refetch[i]
        /\ seen' = [seen EXCEPT ![i] = created]
        /\ refetch' = [refetch EXCEPT ![i] = FALSE]
        /\ UNCHANGED faults
     \/ /\ refetch[i]
        /\ faults < MaxFaults
        /\ faults' = faults + 1
        /\ seen' = [seen EXCEPT ![i] = Unknown]
        /\ UNCHANGED refetch
  /\ UNCHANGED <<streamVars, pc, job, seq, clock, log, buffer, summary, dlq,
                 crashes, timeouts>>

(* The server gives up waiting for an acknowledgement: at once when nobody
   holds the delivery any more, and up to MaxTimeouts times while an instance
   still does. *)
AckWaitExpires(m) ==
  /\ cons[m] = "out"
  /\ cons' = [cons EXCEPT ![m] = "again"]
  /\ \/ ~Held(m) /\ UNCHANGED timeouts
     \/ Held(m) /\ timeouts < MaxTimeouts /\ timeouts' = timeouts + 1
  /\ UNCHANGED <<streamVars, fetchVars, pc, job, seq, clock, log, buffer,
                 summary, dlq, crashes, faults>>

(* A pull is answered with an error, not with a timeout. *)
FetchFails(i) ==
  /\ faults < MaxFaults
  /\ faults' = faults + 1
  /\ refetch' = [refetch EXCEPT ![i] = TRUE]
  /\ UNCHANGED <<streamVars, cons, nd, seen, queue, pc, job, seq, clock, log, buffer,
                 summary, dlq, crashes, timeouts>>

(* The message is older than the consumer, as far as the instance knows. *)
Predates(i, m) == seen[i] = Unknown \/ sseq[m] <= seen[i]

(* The durable consumer is deleted and created again: every message of the
   stream is new to it, and delivery counts restart.  The instances that pull
   meanwhile see their fetches fail; one that does not - its loop waits at a
   full queue, or is between two pulls - goes on with the old creation time. *)
RebuildConsumer(noticed) ==
  /\ rebuilds < MaxRebuilds
  /\ rebuilds' = rebuilds + 1
  /\ created' = last
  /\ cons' = [m \in Msg |-> "new"]
  /\ nd' = [m \in Msg |-> 0]
  /\ refetch' = [i \in Inst |-> refetch[i] \/ i \in noticed]
  /\ misdated' = misdated \cup
       {m \in Msg : sseq[m] > 0 /\ \E i \in Inst : ~refetch'[i] /\ ~Predates(i, m)}
  /\ UNCHANGED <<last, sseq, seen, queue, pc, job, seq, clock, log, buffer,
                 summary, dlq, budgetVars>>

----------------------------------------------------------------------------
(* A worker: duplicate check, seq, row, summary, acknowledgement. *)

\* mutant: delivery counts are trusted across a re-created consumer
NeedsCheckByCount(i, d) == d.msg \notin Minted /\ d.n # 1

(* Delivery.MaybeDuplicate, and a client_id to look the message up by *)
NeedsCheck(i, d) == d.msg \notin Minted /\ (d.n # 1 \/ Predates(i, d.msg))

At(i, s, label)   == pc[i][s] = label
Goto(i, s, label) == pc' = [pc EXCEPT ![i][s] = label]

(* The worker is done with its delivery. *)
Leave(i, s) ==
  /\ Goto(i, s, "idle")
  /\ job' = [job EXCEPT ![i][s] = NoJob]
  /\ seq' = [seq EXCEPT ![i][s] = NoSeq]

(* What an acknowledgement and a negative one do to the consumer: one that
   has not delivered the message itself ignores both. *)
Acked(m)  == [cons EXCEPT ![m] = IF @ = "new" THEN @ ELSE "done"]

Nacked(m) == [cons EXCEPT ![m] = IF @ = "out" THEN "again" ELSE @]

Take(i, s) ==
  /\ At(i, s, "idle")
  /\ queue[i][s] # <<>>
  /\ LET d == Head(queue[i][s]) IN
       /\ job' = [job EXCEPT ![i][s] = d]
       /\ Goto(i, s, IF NeedsCheck(i, d) THEN "check" ELSE "alloc")
  /\ queue' = [queue EXCEPT ![i][s] = Tail(@)]
  /\ UNCHANGED <<streamVars, cons, nd, seen, refetch, seq, clock, log, buffer,
                 summary, dlq, budgetVars>>

(* The message is already stored: its row's seq is used again, and pushed to
   the summary once more. *)
FindDuplicate(i, s) ==
  /\ At(i, s, "check")
  /\ \E r \in Rows(s) :
       /\ r.msg = job[i][s].msg
       /\ seq' = [seq EXCEPT ![i][s] = r.at]
       /\ buffer' = [buffer EXCEPT ![i][s] = SeqMax(@, r.at)]
  /\ Goto(i, s, "ok")
  /\ UNCHANGED <<streamVars, cons, fetchVars, job, clock, log, summary, dlq, budgetVars>>

FindNone(i, s) ==
  /\ At(i, s, "check")
  /\ ~Stored(job[i][s].msg)
  /\ Goto(i, s, "alloc")
  /\ UNCHANGED <<streamVars, cons, fetchVars, job, seq, clock, log, buffer,
                 summary, dlq, budgetVars>>

(* Resolving the session, the duplicate check or reading the largest stored
   seq fails. *)
LookupFails(i, s) ==
  /\ pc[i][s] \in {"check", "alloc"}
  /\ faults < MaxFaults
  /\ faults' = faults + 1
  /\ Goto(i, s, "failed")
  /\ UNCHANGED <<streamVars, cons, fetchVars, job, seq, clock, log, buffer,
                 summary, dlq, crashes, timeouts>>

\* mutant: an instance that does not know the session is not seeded
ReferenceTsUnseeded(i, s) == {clock[i][s]}

(* Known and Observe: an instance's clock of the session, seeded from the log
   when it has none *)
ReferenceTs(i, s) == IF clock[i][s] = 0 THEN MaxTs(s) ELSE {clock[i][s]}

(* Alloc: the stream sequence, or one more than the clock that has passed it *)
NextTs(known, m) == IF sseq[m] <= known THEN known + 1 ELSE sseq[m]

\* mutant: the node bits are left out
NewSeqWithoutNode(i, ts) == [ts |-> ts, node |-> 0]

NewSeq(i, ts) == [ts |-> ts, node |-> NodeOf[i]]

AllocSeq(i, s) ==
  LET m == job[i][s].msg IN
  /\ At(i, s, "alloc")
  /\ \E known \in ReferenceTs(i, s) :
       /\ clock' = [clock EXCEPT ![i][s] = NextTs(known, m)]
       /\ seq' = [seq EXCEPT ![i][s] = NewSeq(i, NextTs(known, m))]
  /\ Goto(i, s, IF m \in Poison THEN "poison" ELSE "append")
  /\ UNCHANGED <<streamVars, cons, fetchVars, job, log, buffer, summary, dlq, budgetVars>>

NewRow(i, s) == [msg |-> job[i][s].msg, at |-> seq[i][s]]

(* The row is stored, then the summary is pushed. *)
AppendRow(i, s) ==
  /\ At(i, s, "append")
  /\ log' = [log EXCEPT ![s] = Append(@, NewRow(i, s))]
  /\ buffer' = [buffer EXCEPT ![i][s] = SeqMax(@, seq[i][s])]
  /\ Goto(i, s, "ok")
  /\ UNCHANGED <<streamVars, cons, fetchVars, job, seq, clock, summary, dlq, budgetVars>>

\* mutant: the summary is pushed before the row is stored
PushThenAppendFails(i, s) ==
  /\ At(i, s, "append")
  /\ faults < MaxFaults
  /\ faults' = faults + 1
  /\ buffer' = [buffer EXCEPT ![i][s] = SeqMax(@, seq[i][s])]
  /\ Goto(i, s, "failed")
  /\ UNCHANGED <<streamVars, cons, fetchVars, job, seq, clock, log, summary, dlq,
                 crashes, timeouts>>

(* The append is reported as failed: it did nothing, or it did take effect. *)
AppendFails(i, s) ==
  /\ At(i, s, "append")
  /\ faults < MaxFaults
  /\ faults' = faults + 1
  /\ \/ UNCHANGED log
     \/ log' = [log EXCEPT ![s] = Append(@, NewRow(i, s))]
  /\ Goto(i, s, "failed")
  /\ UNCHANGED <<streamVars, cons, fetchVars, job, seq, clock, buffer, summary,
                 dlq, crashes, timeouts>>

(* finishMsg without an error: acknowledge; the acknowledgement may be lost. *)
Acknowledge(i, s) ==
  /\ At(i, s, "ok")
  /\ \/ cons' = Acked(job[i][s].msg) /\ UNCHANGED faults
     \/ faults < MaxFaults /\ faults' = faults + 1 /\ UNCHANGED cons
  /\ Leave(i, s)
  /\ UNCHANGED <<streamVars, fetchVars, clock, log, buffer, summary, dlq, crashes, timeouts>>

Dead(i, s) == At(i, s, "poison") \/ (At(i, s, "failed") /\ job[i][s].n >= MaxDeliver)

\* mutant: a message that failed is acknowledged
RetryAcked(i, s) ==
  /\ At(i, s, "failed")
  /\ ~Dead(i, s)
  /\ cons' = Acked(job[i][s].msg)
  /\ Leave(i, s)
  /\ UNCHANGED <<streamVars, fetchVars, clock, log, buffer, summary, dlq, budgetVars>>

(* finishMsg with an error that may pass: ask for redelivery. *)
Retry(i, s) ==
  /\ At(i, s, "failed")
  /\ ~Dead(i, s)
  /\ cons' = Nacked(job[i][s].msg)
  /\ Leave(i, s)
  /\ UNCHANGED <<streamVars, fetchVars, clock, log, buffer, summary, dlq, budgetVars>>

(* finishMsg with a poison message or the last delivery: only once the dead
   letter is stored may the message be acknowledged. *)
Bury(i, s) ==
  /\ Dead(i, s)
  /\ dlq' = dlq \cup {job[i][s].msg}
  /\ Goto(i, s, "ok")
  /\ UNCHANGED <<streamVars, cons, fetchVars, job, seq, clock, log, buffer,
                 summary, budgetVars>>

\* mutant: a message whose dead letter is not confirmed is acknowledged
UnburiedAcked(m) == Acked(m)

Unburied(m) == Nacked(m)

(* The dead letter is not confirmed, whether it was stored or not. *)
BuryFails(i, s) ==
  /\ Dead(i, s)
  /\ faults < MaxFaults
  /\ faults' = faults + 1
  /\ \/ UNCHANGED dlq
     \/ dlq' = dlq \cup {job[i][s].msg}
  /\ cons' = Unburied(job[i][s].msg)
  /\ Leave(i, s)
  /\ UNCHANGED <<streamVars, fetchVars, clock, log, buffer, summary, crashes, timeouts>>

(* The SeqSyncer writes a pushed summary, if it is newer than the stored one;
   a flush that fails is dropped. *)
FlushSummary(i, s) ==
  /\ buffer[i][s] # NoSeq
  /\ buffer' = [buffer EXCEPT ![i][s] = NoSeq]
  /\ \/ /\ summary' = [summary EXCEPT ![s] = SeqMax(@, buffer[i][s])]
        /\ UNCHANGED faults
     \/ /\ faults < MaxFaults
        /\ faults' = faults + 1
        /\ UNCHANGED summary
  /\ UNCHANGED <<streamVars, cons, fetchVars, pc, job, seq, clock, log, dlq,
                 crashes, timeouts>>

(* An instance dies and starts again: its queues, clocks and pushed summaries
   are gone, and Listen reads the consumer's creation time. *)
Crash(i) ==
  /\ crashes < MaxCrashes
  /\ crashes' = crashes + 1
  /\ queue' = [queue EXCEPT ![i] = [s \in Session |-> <<>>]]
  /\ pc' = [pc EXCEPT ![i] = [s \in Session |-> "idle"]]
  /\ job' = [job EXCEPT ![i] = [s \in Session |-> NoJob]]
  /\ seq' = [seq EXCEPT ![i] = [s \in Session |-> NoSeq]]
  /\ clock' = [clock EXCEPT ![i] = [s \in Session |-> 0]]
  /\ buffer' = [buffer EXCEPT ![i] = [s \in Session |-> NoSeq]]
  /\ seen' = [seen EXCEPT ![i] = created]
  /\ refetch' = [refetch EXCEPT ![i] = FALSE]
  /\ UNCHANGED <<streamVars, cons, nd, log, summary, dlq, faults, timeouts>>

----------------------------------------------------------------------------
Worker(i, s) ==
  \/ Take(i, s)
  \/ FindDuplicate(i, s) \/ FindNone(i, s) \/ LookupFails(i, s)
  \/ AllocSeq(i, s)
  \/ AppendRow(i, s) \/ AppendFails(i, s)
  \/ Acknowledge(i, s) \/ Retry(i, s) \/ Bury(i, s) \/ BuryFails(i, s)

Next ==
  \/ \E m \in Msg : Publish(m) \/ AckWaitExpires(m)
  \/ \E noticed \in SUBSET Inst : RebuildConsumer(noticed)
  \/ \E i \in Inst :
       \/ Crash(i) \/ FetchFails(i)
       \/ \E m \in Msg : Fetch(i, m)
       \/ \E s \in Session : Worker(i, s) \/ FlushSummary(i, s)

(* Every instance runs its fetch loop, its workers and its SeqSyncer, and the
   server's AckWait timer fires; nobody has to publish or to fail. *)
Fairness ==
  /\ WF_vars(\E i \in Inst, m \in Msg : Fetch(i, m))
  /\ \A m \in Msg : WF_vars(AckWaitExpires(m))
  /\ \A i \in Inst, s \in Session : WF_vars(Worker(i, s)) /\ WF_vars(FlushSummary(i, s))

Spec     == Init /\ [][Next]_vars
FairSpec == Spec /\ Fairness

----------------------------------------------------------------------------
(* Properties. *)

(* No silent loss: a message the consumer counts as acknowledged is stored in
   its session's log or kept as a dead letter - whatever crashed, failed or
   timed out in between (finishMsg, DLQHandler.Handle). *)
AckedIsKept == \A m \in Msg : cons[m] = "done" => Stored(m) \/ m \in dlq

(* Within a session no node ever falls back behind, or repeats, a seq it has
   stored, not even after losing its clock in a crash (Alloc, Observe and the
   seeding in PersistMessage). *)
NodeSeqsGrow ==
  \A s \in Session : \A k, l \in 1 .. Len(log[s]) :
    k < l /\ log[s][k].at.node = log[s][l].at.node => log[s][k].at.ts < log[s][l].at.ts

(* Two rows of a session never share a seq, whichever instances stored them. *)
SeqsUnique ==
  \A s \in Session : \A k, l \in 1 .. Len(log[s]) :
    k # l => log[s][k].at # log[s][l].at

(* The session list never shows a message that does not exist: the summary is
   the seq of a stored row (pushSessionSummary after AppendMessages). *)
SummaryShowsRow ==
  \A s \in Session : summary[s] # NoSeq => \E r \in Rows(s) : r.at = summary[s]

(* A client's message has one row however often it is delivered
   (Delivery.MaybeDuplicate, FindBySenderAndClient). *)
OneRowPerClientMessage ==
  \A s \in Session : \A k, l \in 1 .. Len(log[s]) :
    log[s][k].msg = log[s][l].msg /\ log[s][k].msg \notin Minted => k = l

(* A row is stored above every row of its session, so a client that has pulled
   up to some seq never misses a later one (GetHistory's incremental pull). *)
RowsStoredInOrder ==
  \A s \in Session : \A k, l \in 1 .. Len(log[s]) :
    k < l => SeqLess(log[s][k].at, log[s][l].at)

(* The write path implements MessageInbox: a message has as many copies as
   rows, and is settled when the consumer counts it as acknowledged. *)
Published == {m \in Msg : sseq[m] > 0}
Copies(m) == Cardinality({k \in 1 .. Len(log[SessionOf[m]]) : log[SessionOf[m]][k].msg = m})
Settled   == {m \in Msg : cons[m] = "done"}

AtLeastOnce == INSTANCE MessageInbox WITH
  Once <- {}, published <- Published, copies <- [m \in Msg |-> Copies(m)],
  dead <- dlq, settled <- Settled, excused <- misdated

ExactlyOnce == INSTANCE MessageInbox WITH
  Once <- Msg \ Minted, published <- Published, copies <- [m \in Msg |-> Copies(m)],
  dead <- dlq, settled <- Settled, excused <- misdated

(* Whatever crashes, fails or times out, and for any number of instances,
   only a message that is stored or buried is ever settled. *)
ImplementsAtLeastOnce == AtLeastOnce!Spec

(* A single instance stores what a client sent exactly once, through crashes,
   lost acknowledgements, ambiguous appends and a consumer that is created
   anew - but for messages it then takes for younger than the consumer, since
   its fetch loop has not noticed (runLoop, Delivery.MaybeDuplicate). *)
ImplementsExactlyOnce == ExactlyOnce!Spec

(* Every published message is acknowledged in the end. *)
EveryMessageSettles == \A m \in Msg : sseq[m] > 0 ~> cons[m] = "done"
=============================================================================
