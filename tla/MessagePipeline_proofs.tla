------------------------ MODULE MessagePipeline_proofs ------------------------
(* Theorems about MessagePipeline, for any number of instances, sessions,    *)
(* messages, crashes and faults.                                             *)
EXTENDS MessagePipeline, FiniteSetTheorems, TLAPS

----------------------------------------------------------------------------

(* Type correctness. *)

LEMMA TypeInit == Init => TypeOK
  <1> USE PipelineAssumption
  <1> SUFFICES ASSUME Init PROVE TypeOK
    OBVIOUS
  <1>1. NoJob \in Delivery
    BY DEF NoJob, Delivery
  <1>2. NoSeq \in SeqVal
    BY DEF NoSeq, SeqVal
  <1> QED
    BY <1>1, <1>2 DEF Init, TypeOK, PCs

(* What the worker's steps take from TypeOK for their instance and session. *)
LEMMA TypeAt ==
  ASSUME TypeOK, NEW i \in Inst, NEW s \in Session
  PROVE  /\ job[i][s] \in Delivery /\ job[i][s].msg \in Msg
         /\ seq[i][s] \in SeqVal /\ buffer[i][s] \in SeqVal
         /\ clock[i][s] \in Nat
         /\ queue[i][s] \in Seq(Delivery)
         /\ log[s] \in Seq(Row)
         /\ \A r \in Rows(s) : r \in Row /\ r.msg \in Msg /\ r.at \in SeqVal /\ r.at.ts \in Nat
  <1>1. /\ job[i][s] \in Delivery
        /\ seq[i][s] \in SeqVal /\ buffer[i][s] \in SeqVal
        /\ clock[i][s] \in Nat
        /\ queue[i][s] \in Seq(Delivery)
        /\ log[s] \in Seq(Row)
    BY DEF TypeOK
  <1>2. \A r \in Rows(s) : r \in Row
    BY <1>1 DEF Rows
  <1> QED
    BY <1>1, <1>2 DEF Delivery, Row, SeqVal

(* Updating a table of instances and sessions. *)
LEMMA TableUpdate ==
  ASSUME NEW T, NEW f \in [Inst -> [Session -> T]], NEW i \in Inst, NEW s \in Session,
         NEW v \in T
  PROVE  /\ [f EXCEPT ![i][s] = v] \in [Inst -> [Session -> T]]
         /\ \A j \in Inst, t \in Session :
              [f EXCEPT ![i][s] = v][j][t] = IF j = i /\ t = s THEN v ELSE f[j][t]
  OBVIOUS

LEMMA SeqMaxType ==
  ASSUME NEW a \in SeqVal, NEW b \in SeqVal
  PROVE  SeqMax(a, b) \in SeqVal /\ SeqMax(a, b) \in {a, b}
  BY DEF SeqMax

LEMMA ConsUpdates ==
  ASSUME TypeOK, NEW m \in Msg
  PROVE  /\ Acked(m) \in [Msg -> {"new", "out", "again", "done"}]
         /\ Nacked(m) \in [Msg -> {"new", "out", "again", "done"}]
         /\ Unburied(m) \in [Msg -> {"new", "out", "again", "done"}]
  BY DEF TypeOK, Acked, Nacked, Unburied

LEMMA TypeStep == TypeOK /\ [Next]_vars => TypeOK'
  <1> SUFFICES ASSUME TypeOK, [Next]_vars PROVE TypeOK'
    OBVIOUS
  <1>a. NoJob \in Delivery /\ NoSeq \in SeqVal
    BY PipelineAssumption DEF NoJob, Delivery, NoSeq, SeqVal
  <1> USE DEF streamVars, fetchVars, budgetVars
  <1>1. CASE UNCHANGED vars
    BY <1>1 DEF vars, TypeOK
  <1>2. ASSUME NEW m \in Msg, Publish(m) PROVE TypeOK'
    BY <1>2 DEF Publish, TypeOK
  <1>3. ASSUME NEW m \in Msg, AckWaitExpires(m) PROVE TypeOK'
    BY <1>3 DEF AckWaitExpires, TypeOK
  <1>4. ASSUME NEW noticed \in SUBSET Inst, RebuildConsumer(noticed) PROVE TypeOK'
    BY <1>4 DEF RebuildConsumer, TypeOK
  <1>9. ASSUME NEW i \in Inst, FetchFails(i) PROVE TypeOK'
    BY <1>9 DEF FetchFails, TypeOK
  <1>5. ASSUME NEW i \in Inst, Crash(i) PROVE TypeOK'
    <2>1. /\ queue' \in [Inst -> [Session -> Seq(Delivery)]]
          /\ \A j \in Inst, t \in Session : Len(queue'[j][t]) <= QueueCap
      BY <1>5, PipelineAssumption DEF Crash, TypeOK
    <2>2. /\ pc' \in [Inst -> [Session -> PCs]]
          /\ clock' \in [Inst -> [Session -> Nat]]
      BY <1>5 DEF Crash, TypeOK, PCs
    <2>3. /\ job' \in [Inst -> [Session -> Delivery]]
          /\ seq' \in [Inst -> [Session -> SeqVal]]
          /\ buffer' \in [Inst -> [Session -> SeqVal]]
      BY <1>5, <1>a DEF Crash, TypeOK
    <2> QED
      BY <1>5, <2>1, <2>2, <2>3 DEF Crash, TypeOK
  <1>6. ASSUME NEW i \in Inst, NEW m \in Msg, Fetch(i, m) PROVE TypeOK'
    <2> DEFINE s == SessionOf[m]
               d == [msg |-> m, n |-> nd[m] + 1]
    <2>1. s \in Session /\ d \in Delivery /\ queue[i][s] \in Seq(Delivery)
      <3>1. s \in Session
        BY PipelineAssumption
      <3>2. nd[m] + 1 \in Nat
        BY DEF TypeOK
      <3>3. d \in Delivery
        BY <3>2 DEF Delivery
      <3>4. queue[i][s] \in Seq(Delivery)
        <4>1. queue \in [Inst -> [Session -> Seq(Delivery)]]
          BY DEF TypeOK
        <4> QED
          BY <3>1, <4>1
      <3> QED
        BY <3>1, <3>3, <3>4
    <2>2. Append(queue[i][s], d) \in Seq(Delivery) /\ Len(Append(queue[i][s], d)) <= QueueCap
      BY <1>6, <2>1, PipelineAssumption DEF Fetch, Room
    <2>3. queue' = [queue EXCEPT ![i][s] = Append(@, d)]
      BY <1>6 DEF Fetch
    <2> HIDE DEF s, d
    <2>4. /\ queue' \in [Inst -> [Session -> Seq(Delivery)]]
          /\ \A j \in Inst, t \in Session : Len(queue'[j][t]) <= QueueCap
      BY <2>1, <2>2, <2>3 DEF TypeOK
    <2>5. /\ seen' \in [Inst -> Nat \cup {Unknown}]
          /\ refetch' \in [Inst -> BOOLEAN]
          /\ faults' \in Nat
      <3>1. CASE UNCHANGED <<seen, refetch, faults>>
        BY <3>1 DEF TypeOK
      <3>2. CASE /\ seen' = [seen EXCEPT ![i] = created]
                 /\ refetch' = [refetch EXCEPT ![i] = FALSE]
                 /\ UNCHANGED faults
        BY <3>2 DEF TypeOK
      <3>3. CASE /\ faults' = faults + 1
                 /\ seen' = [seen EXCEPT ![i] = Unknown]
                 /\ UNCHANGED refetch
        BY <3>3 DEF TypeOK
      <3> QED
        BY <1>6, <3>1, <3>2, <3>3 DEF Fetch
    <2>6. /\ cons' \in [Msg -> {"new", "out", "again", "done"}]
          /\ nd' \in [Msg -> Nat]
      BY <1>6 DEF Fetch, TypeOK
    <2> QED
      BY <1>6, <2>6, <2>4, <2>5 DEF Fetch, TypeOK
  <1>7. ASSUME NEW i \in Inst, NEW s \in Session, Worker(i, s) PROVE TypeOK'
    <2>a. /\ job[i][s] \in Delivery /\ job[i][s].msg \in Msg
          /\ seq[i][s] \in SeqVal /\ buffer[i][s] \in SeqVal
          /\ \A r \in Rows(s) : r.at \in SeqVal /\ r.at.ts \in Nat
          /\ queue[i][s] \in Seq(Delivery)
      BY TypeAt
    <2>b. NewRow(i, s) \in Row
      BY <2>a DEF NewRow, Row
    <2>c. /\ Acked(job[i][s].msg) \in [Msg -> {"new", "out", "again", "done"}]
          /\ Nacked(job[i][s].msg) \in [Msg -> {"new", "out", "again", "done"}]
          /\ Unburied(job[i][s].msg) \in [Msg -> {"new", "out", "again", "done"}]
      BY <2>a, ConsUpdates
    <2>1. CASE Take(i, s)
      <3>1. Head(queue[i][s]) \in Delivery /\ Tail(queue[i][s]) \in Seq(Delivery)
            /\ Len(Tail(queue[i][s])) <= QueueCap
        <4>1. queue[i][s] # <<>> /\ Len(queue[i][s]) <= QueueCap
          BY <2>1 DEF Take, TypeOK
        <4> QED
          BY <4>1, <2>a, PipelineAssumption
      <3>2. /\ queue' \in [Inst -> [Session -> Seq(Delivery)]]
            /\ \A j \in Inst, t \in Session : Len(queue'[j][t]) <= QueueCap
        BY <2>1, <3>1, TableUpdate DEF Take, TypeOK
      <3> QED
        BY <2>1, <3>1, <3>2 DEF Take, TypeOK, Goto, PCs
    <2>2. CASE FindDuplicate(i, s)
      BY <2>2, <2>a, SeqMaxType DEF FindDuplicate, TypeOK, Goto, PCs
    <2>3. CASE FindNone(i, s)
      BY <2>3 DEF FindNone, TypeOK, Goto, PCs
    <2>4. CASE LookupFails(i, s)
      BY <2>4 DEF LookupFails, TypeOK, Goto, PCs
    <2>5. CASE AllocSeq(i, s)
      <3>1. PICK known \in ReferenceTs(i, s) :
              /\ clock' = [clock EXCEPT ![i][s] = NextTs(known, job[i][s].msg)]
              /\ seq' = [seq EXCEPT ![i][s] = NewSeq(i, NextTs(known, job[i][s].msg))]
        BY <2>5 DEF AllocSeq
      <3>2. known \in Nat
        BY <2>a DEF ReferenceTs, MaxTs, TypeOK
      <3>3. NextTs(known, job[i][s].msg) \in Nat
        BY <2>a, <3>2 DEF NextTs, TypeOK
      <3>4. NewSeq(i, NextTs(known, job[i][s].msg)) \in SeqVal
        BY <3>3, PipelineAssumption DEF NewSeq, SeqVal
      <3> QED
        BY <2>5, <3>1, <3>3, <3>4 DEF AllocSeq, TypeOK, Goto, PCs
    <2>6. CASE AppendRow(i, s)
      BY <2>6, <2>a, <2>b, SeqMaxType DEF AppendRow, TypeOK, Goto, PCs
    <2>7. CASE AppendFails(i, s)
      <3>1. log' \in [Session -> Seq(Row)]
        <4>1. Append(log[s], NewRow(i, s)) \in Seq(Row)
          BY <2>b DEF TypeOK
        <4> QED
          BY <2>7, <4>1 DEF AppendFails, TypeOK
      <3> QED
        BY <2>7, <3>1 DEF AppendFails, TypeOK, Goto, PCs
    <2>8. CASE Acknowledge(i, s)
      BY <2>8, <2>c, <1>a DEF Acknowledge, Leave, TypeOK, Goto, PCs
    <2>9. CASE Retry(i, s)
      BY <2>9, <2>c, <1>a DEF Retry, Leave, TypeOK, Goto, PCs
    <2>10. CASE Bury(i, s)
      BY <2>10, <2>a DEF Bury, TypeOK, Goto, PCs
    <2>11. CASE BuryFails(i, s)
      BY <2>11, <2>a, <2>c, <1>a DEF BuryFails, Leave, TypeOK, Goto, PCs
    <2> QED
      BY <1>7, <2>1, <2>2, <2>3, <2>4, <2>5, <2>6, <2>7, <2>8, <2>9, <2>10, <2>11
      DEF Worker
  <1>8. ASSUME NEW i \in Inst, NEW s \in Session, FlushSummary(i, s) PROVE TypeOK'
    <2>1. SeqMax(summary[s], buffer[i][s]) \in SeqVal
      BY SeqMaxType DEF TypeOK
    <2> QED
      <3>1. summary' \in [Session -> SeqVal]
        BY <1>8, <2>1 DEF FlushSummary, TypeOK
      <3>2. faults' \in Nat
        BY <1>8 DEF FlushSummary, TypeOK
      <3>3. buffer' \in [Inst -> [Session -> SeqVal]]
        BY <1>8, <1>a DEF FlushSummary, TypeOK
      <3> QED
        BY <1>8, <3>1, <3>2, <3>3 DEF FlushSummary, TypeOK
  <1> QED
    BY <1>1, <1>2, <1>3, <1>4, <1>5, <1>6, <1>7, <1>8, <1>9 DEF Next

(* Every variable keeps its type and no worker's queue exceeds its capacity. *)
THEOREM TypeCorrect == Spec => []TypeOK
  BY TypeInit, TypeStep, PTL DEF Spec

----------------------------------------------------------------------------

(* How the log grows. *)

LEMMA LogAppend ==
  ASSUME TypeOK, NEW s \in Session, NEW r \in Row,
         log' = [log EXCEPT ![s] = Append(@, r)]
  PROVE  /\ \A t \in Session : Rows(t) \subseteq Rows(t)'
         /\ Rows(s)' = Rows(s) \cup {r}
         /\ \A t \in Session : t # s => log'[t] = log[t]
         /\ Len(log'[s]) = Len(log[s]) + 1
         /\ \A k \in 1 .. Len(log[s]) : log'[s][k] = log[s][k]
         /\ log'[s][Len(log[s]) + 1] = r
  <1>1. log[s] \in Seq(Row) /\ log'[s] = Append(log[s], r)
    BY DEF TypeOK
  <1>2. /\ Len(log'[s]) = Len(log[s]) + 1
        /\ \A k \in 1 .. Len(log[s]) : log'[s][k] = log[s][k]
        /\ log'[s][Len(log[s]) + 1] = r
    BY <1>1
  <1>3. Rows(s)' = Rows(s) \cup {r}
    BY <1>1, <1>2 DEF Rows
  <1>4. \A t \in Session : t # s => log'[t] = log[t]
    BY DEF TypeOK
  <1>5. \A t \in Session : t # s => Rows(t)' = Rows(t)
    BY <1>4 DEF Rows
  <1> QED
    BY <1>2, <1>3, <1>4, <1>5

LEMMA NewRowType ==
  ASSUME TypeOK, NEW i \in Inst, NEW s \in Session
  PROVE  NewRow(i, s) \in Row
  BY TypeAt DEF NewRow, Row

(* Every step leaves the log alone, or is a worker's append. *)
LEMMA LogStep ==
  ASSUME TypeOK, [Next]_vars
  PROVE  \/ UNCHANGED log
         \/ \E i \in Inst, s \in Session :
              /\ pc[i][s] = "append"
              /\ AppendRow(i, s) \/ AppendFails(i, s)
              /\ log' = [log EXCEPT ![s] = Append(@, NewRow(i, s))]
  <1>1. CASE UNCHANGED vars
    BY <1>1 DEF vars
  <1>2. ASSUME NEW m \in Msg, Publish(m) \/ AckWaitExpires(m) PROVE UNCHANGED log
    BY <1>2 DEF Publish, AckWaitExpires
  <1>3. ASSUME NEW noticed \in SUBSET Inst, RebuildConsumer(noticed) PROVE UNCHANGED log
    BY <1>3 DEF RebuildConsumer
  <1>4. ASSUME NEW i \in Inst, Crash(i) \/ FetchFails(i) \/ \E m \in Msg : Fetch(i, m)
        PROVE  UNCHANGED log
    BY <1>4 DEF Crash, FetchFails, Fetch
  <1>5. ASSUME NEW i \in Inst, NEW s \in Session, FlushSummary(i, s) PROVE UNCHANGED log
    BY <1>5 DEF FlushSummary
  <1>6. ASSUME NEW i \in Inst, NEW s \in Session, Worker(i, s),
               ~AppendRow(i, s), ~AppendFails(i, s)
        PROVE  UNCHANGED log
    BY <1>6 DEF Worker, Take, FindDuplicate, FindNone, LookupFails, AllocSeq,
                Acknowledge, Retry, Bury, BuryFails
  <1>7. ASSUME NEW i \in Inst, NEW s \in Session, AppendRow(i, s) \/ AppendFails(i, s)
        PROVE  /\ pc[i][s] = "append"
               /\ \/ UNCHANGED log
                  \/ log' = [log EXCEPT ![s] = Append(@, NewRow(i, s))]
    BY <1>7 DEF AppendRow, AppendFails, At
  <1> QED
    BY <1>1, <1>2, <1>3, <1>4, <1>5, <1>6, <1>7 DEF Next

----------------------------------------------------------------------------

(* No silent loss. *)

Kept(m) == Stored(m) \/ m \in dlq

(* A worker's delivery belongs to the worker's session. *)
JobsInSession ==
  \A i \in Inst, s \in Session :
    /\ pc[i][s] # "idle" => SessionOf[job[i][s].msg] = s
    /\ \A k \in 1 .. Len(queue[i][s]) : SessionOf[queue[i][s][k].msg] = s

(* What is about to be acknowledged is kept already. *)
OkIsKept == \A i \in Inst, s \in Session : pc[i][s] = "ok" => Kept(job[i][s].msg)

KeptInv == TypeOK /\ JobsInSession /\ OkIsKept /\ AckedIsKept

LEMMA KeptInit == Init => KeptInv
  <1> SUFFICES ASSUME Init PROVE KeptInv
    OBVIOUS
  <1>1. JobsInSession /\ OkIsKept /\ AckedIsKept
    BY DEF Init, JobsInSession, OkIsKept, AckedIsKept
  <1> QED
    BY <1>1, TypeInit DEF KeptInv

(* Neither a row nor a dead letter is ever taken back. *)
LEMMA KeptStays ==
  ASSUME TypeOK, [Next]_vars, NEW m \in Msg, Kept(m)
  PROVE  Kept(m)'
  <1>1. SessionOf[m] \in Session
    BY PipelineAssumption
  <1>2. Rows(SessionOf[m]) \subseteq Rows(SessionOf[m])'
    <2>1. CASE UNCHANGED log
      BY <2>1 DEF Rows
    <2>2. ASSUME NEW i \in Inst, NEW s \in Session,
                 log' = [log EXCEPT ![s] = Append(@, NewRow(i, s))]
          PROVE  Rows(SessionOf[m]) \subseteq Rows(SessionOf[m])'
      BY <1>1, <2>2, NewRowType, LogAppend
    <2> QED
      BY <2>1, <2>2, LogStep
  <1>3. Stored(m) => Stored(m)'
    BY <1>2 DEF Stored
  <1>4. dlq \subseteq dlq'
    <2>1. ASSUME NEW i \in Inst, NEW s \in Session, Worker(i, s) PROVE dlq \subseteq dlq'
      BY <2>1 DEF Worker, Take, FindDuplicate, FindNone, LookupFails, AllocSeq,
                  AppendRow, AppendFails, Acknowledge, Retry, Bury, BuryFails
    <2> QED
      BY <2>1 DEF Next, vars, Publish, AckWaitExpires, RebuildConsumer, Crash, FetchFails,
                  Fetch, FlushSummary
  <1> QED
    BY <1>3, <1>4 DEF Kept

LEMMA JobsStep == TypeOK /\ JobsInSession /\ [Next]_vars => JobsInSession'
  <1> SUFFICES ASSUME TypeOK, JobsInSession, [Next]_vars PROVE JobsInSession'
    OBVIOUS
  <1> USE DEF fetchVars
  <1>1. ASSUME UNCHANGED <<queue, pc, job>> PROVE JobsInSession'
    BY <1>1 DEF JobsInSession
  <1>2. ASSUME NEW i \in Inst, Crash(i) PROVE JobsInSession'
    <2>1. \A j \in Inst, t \in Session :
            \/ pc'[j][t] = "idle" /\ queue'[j][t] = <<>>
            \/ queue'[j][t] = queue[j][t] /\ pc'[j][t] = pc[j][t] /\ job'[j][t] = job[j][t]
      BY <1>2 DEF Crash, TypeOK
    <2> QED
      BY <2>1 DEF JobsInSession
  <1>3. ASSUME NEW i \in Inst, NEW m \in Msg, Fetch(i, m) PROVE JobsInSession'
    <2> DEFINE s == SessionOf[m]
               d == [msg |-> m, n |-> nd[m] + 1]
    <2>1. s \in Session
      BY PipelineAssumption
    <2>2. queue' = [queue EXCEPT ![i][s] = Append(@, d)] /\ UNCHANGED <<pc, job>>
      BY <1>3 DEF Fetch
    <2>3. \A k \in 1 .. Len(queue'[i][s]) : SessionOf[queue'[i][s][k].msg] = s
      <3>1. queue[i][s] \in Seq(Delivery) /\ queue'[i][s] = Append(queue[i][s], d)
        BY <2>1, <2>2 DEF TypeOK
      <3>2. \A k \in 1 .. Len(queue[i][s]) : SessionOf[queue[i][s][k].msg] = s
        BY <2>1 DEF JobsInSession
      <3>3. d.msg = m
        OBVIOUS
      <3> HIDE DEF d
      <3> QED
        BY <3>1, <3>2, <3>3
    <2>4. \A j \in Inst, t \in Session : j # i \/ t # s => queue'[j][t] = queue[j][t]
      BY <2>1, <2>2 DEF TypeOK
    <2> HIDE DEF s, d
    <2> QED
      BY <2>1, <2>2, <2>3, <2>4 DEF JobsInSession
  <1>4. ASSUME NEW i \in Inst, NEW s \in Session, Take(i, s) PROVE JobsInSession'
    <2>1. queue[i][s] \in Seq(Delivery) /\ queue[i][s] # <<>>
      BY <1>4 DEF Take, TypeOK
    <2>2. job'[i][s] = queue[i][s][1] /\ queue'[i][s] = Tail(queue[i][s])
      BY <1>4, <2>1 DEF Take, TypeOK
    <2>3. \A k \in 1 .. Len(queue[i][s]) : SessionOf[queue[i][s][k].msg] = s
      BY DEF JobsInSession
    <2>4. /\ SessionOf[job'[i][s].msg] = s
          /\ \A k \in 1 .. Len(queue'[i][s]) : SessionOf[queue'[i][s][k].msg] = s
      BY <2>1, <2>2, <2>3
    <2>5. \A j \in Inst, t \in Session : j # i \/ t # s =>
            /\ queue'[j][t] = queue[j][t]
            /\ pc'[j][t] = pc[j][t] /\ job'[j][t] = job[j][t]
      BY <1>4 DEF Take, Goto, TypeOK
    <2> QED
      BY <2>4, <2>5 DEF JobsInSession
  <1>5. ASSUME NEW i \in Inst, NEW s \in Session,
               pc[i][s] # "idle", UNCHANGED <<queue, job>>,
               \A j \in Inst, t \in Session : j # i \/ t # s => pc'[j][t] = pc[j][t]
        PROVE  JobsInSession'
    BY <1>5 DEF JobsInSession
  <1>6. ASSUME NEW i \in Inst, NEW s \in Session, Leave(i, s), UNCHANGED queue
        PROVE  JobsInSession'
    BY <1>6 DEF Leave, Goto, JobsInSession, TypeOK
  <1>7. ASSUME NEW i \in Inst, NEW s \in Session, Worker(i, s), ~Take(i, s)
        PROVE  JobsInSession'
    <2>1. CASE Acknowledge(i, s) \/ Retry(i, s) \/ BuryFails(i, s)
      BY <2>1, <1>6 DEF Acknowledge, Retry, BuryFails
    <2>2. CASE \/ FindDuplicate(i, s) \/ FindNone(i, s) \/ LookupFails(i, s)
               \/ AllocSeq(i, s) \/ AppendRow(i, s) \/ AppendFails(i, s) \/ Bury(i, s)
      <3>1. pc[i][s] # "idle" /\ UNCHANGED <<queue, job>>
        BY <2>2 DEF FindDuplicate, FindNone, LookupFails, AllocSeq, AppendRow,
                    AppendFails, Bury, Dead, At
      <3>2. \E label : Goto(i, s, label)
        BY <2>2 DEF FindDuplicate, FindNone, LookupFails, AllocSeq, AppendRow,
                    AppendFails, Bury
      <3>3. \A j \in Inst, t \in Session : j # i \/ t # s => pc'[j][t] = pc[j][t]
        BY <3>2 DEF Goto, TypeOK
      <3> QED
        BY <1>5, <3>1, <3>3
    <2> QED
      BY <1>7, <2>1, <2>2 DEF Worker
  <1> QED
    BY <1>1, <1>2, <1>3, <1>4, <1>7
    DEF Next, vars, Publish, AckWaitExpires, RebuildConsumer, FetchFails, FlushSummary

LEMMA KeptStep == KeptInv /\ [Next]_vars => KeptInv'
  <1> SUFFICES ASSUME KeptInv, [Next]_vars PROVE OkIsKept' /\ AckedIsKept'
    BY TypeStep, JobsStep DEF KeptInv
  <1> USE DEF KeptInv
  <1>a. \A m \in Msg : Kept(m) => Kept(m)'
    BY KeptStays
  <1>b. \A i \in Inst, s \in Session : job[i][s].msg \in Msg
    BY TypeAt
  <1>1. ASSUME \A i \in Inst, s \in Session :
                 pc'[i][s] = "ok" => pc[i][s] = "ok" /\ job'[i][s] = job[i][s]
        PROVE  OkIsKept'
    BY <1>a, <1>b, <1>1 DEF OkIsKept, Kept
  <1>2. ASSUME \A m \in Msg : cons'[m] = "done" => cons[m] = "done" \/ Kept(m)'
        PROVE  AckedIsKept'
    BY <1>a, <1>2 DEF AckedIsKept, Kept
  <1> USE DEF fetchVars, streamVars, budgetVars
  <1>3. CASE UNCHANGED <<cons, pc, job>>
    BY <1>1, <1>2, <1>3
  <1>4. ASSUME NEW m \in Msg, AckWaitExpires(m) PROVE OkIsKept' /\ AckedIsKept'
    BY <1>1, <1>2, <1>4 DEF AckWaitExpires, TypeOK
  <1>5. ASSUME NEW noticed \in SUBSET Inst, RebuildConsumer(noticed)
        PROVE  OkIsKept' /\ AckedIsKept'
    BY <1>1, <1>2, <1>5 DEF RebuildConsumer
  <1>6. ASSUME NEW i \in Inst, Crash(i) PROVE OkIsKept' /\ AckedIsKept'
    BY <1>1, <1>2, <1>6 DEF Crash, TypeOK
  <1>7. ASSUME NEW i \in Inst, NEW m \in Msg, Fetch(i, m) PROVE OkIsKept' /\ AckedIsKept'
    BY <1>1, <1>2, <1>7 DEF Fetch, TypeOK
  <1>8. ASSUME NEW i \in Inst, NEW s \in Session, Worker(i, s)
        PROVE  OkIsKept' /\ AckedIsKept'
    <2>a. PICK m \in Msg : m = job[i][s].msg
      BY <1>b
    <2>b. ASSUME UNCHANGED cons PROVE AckedIsKept'
      BY <1>2, <2>b
    <2>c. ASSUME NEW label, label # "ok", Goto(i, s, label),
                 \A j \in Inst, t \in Session : j # i \/ t # s => job'[j][t] = job[j][t]
          PROVE  OkIsKept'
      BY <1>1, <2>c DEF Goto, TypeOK
    <2>d. ASSUME Goto(i, s, "ok"), UNCHANGED job, Kept(m)'
          PROVE  OkIsKept'
      <3>1. \A j \in Inst, t \in Session : j # i \/ t # s => pc'[j][t] = pc[j][t]
        BY <2>d DEF Goto, TypeOK
      <3> QED
        BY <1>a, <1>b, <2>a, <2>d, <3>1 DEF OkIsKept, Kept
    <2>e. ASSUME Leave(i, s) PROVE OkIsKept'
      <3>1. \A j \in Inst, t \in Session : j # i \/ t # s => job'[j][t] = job[j][t]
        BY <2>e DEF Leave, TypeOK
      <3> QED
        BY <2>c, <2>e, <3>1 DEF Leave
    <2>f. ASSUME cons' = Nacked(m) PROVE AckedIsKept'
      BY <1>2, <2>a, <2>f DEF Nacked, TypeOK
    <2>1. CASE Take(i, s)
      <3>1. \A j \in Inst, t \in Session : j # i \/ t # s => job'[j][t] = job[j][t]
        BY <2>1 DEF Take, TypeOK
      <3> QED
        BY <2>1, <2>b, <2>c, <3>1 DEF Take
    <2>2. CASE FindDuplicate(i, s)
      <3>1. Stored(m)
        BY <2>2, <2>a DEF FindDuplicate, Stored, At, JobsInSession
      <3> QED
        BY <2>2, <3>1, <1>a, <2>a, <2>b, <2>d DEF FindDuplicate, Kept
    <2>3. CASE FindNone(i, s) \/ LookupFails(i, s) \/ AllocSeq(i, s) \/ AppendFails(i, s)
      BY <2>3, <2>b, <2>c DEF FindNone, LookupFails, AllocSeq, AppendFails
    <2>4. CASE AppendRow(i, s)
      <3>1. SessionOf[m] = s
        BY <2>4, <2>a DEF AppendRow, At, JobsInSession
      <3>2. PICK r \in Row : r = NewRow(i, s)
        BY NewRowType
      <3>3. r.msg = m
        BY <2>a, <3>2 DEF NewRow
      <3>5. r \in Rows(s)'
        <4>1. log' = [log EXCEPT ![s] = Append(@, r)]
          BY <2>4, <3>2 DEF AppendRow
        <4>2. Rows(s)' = Rows(s) \cup {r}
          BY <4>1, LogAppend
        <4> QED
          BY <4>2
      <3>4. Kept(m)'
        BY <3>1, <3>3, <3>5 DEF Kept, Stored
      <3> QED
        BY <2>4, <3>4, <2>a, <2>b, <2>d DEF AppendRow
    <2>5. CASE Acknowledge(i, s)
      <3>1. Kept(m)'
        BY <2>5, <1>a, <2>a DEF Acknowledge, At, OkIsKept
      <3>2. cons' = Acked(m) => AckedIsKept'
        BY <3>1, <1>2, <2>a DEF Acked, TypeOK
      <3> QED
        BY <2>5, <3>2, <2>a, <2>b, <2>e DEF Acknowledge
    <2>6. CASE Retry(i, s)
      BY <2>6, <2>a, <2>e, <2>f DEF Retry
    <2>7. CASE Bury(i, s)
      <3>1. Kept(m)'
        BY <2>7, <2>a DEF Bury, Kept
      <3> QED
        BY <2>7, <3>1, <2>b, <2>d DEF Bury
    <2>8. CASE BuryFails(i, s)
      BY <2>8, <2>a, <2>e, <2>f DEF BuryFails, Unburied
    <2> QED
      BY <1>8, <2>1, <2>2, <2>3, <2>4, <2>5, <2>6, <2>7, <2>8 DEF Worker
  <1> QED
    BY <1>3, <1>4, <1>5, <1>6, <1>7, <1>8 DEF Next, vars, Publish, FetchFails, FlushSummary

(* A message counts as acknowledged only when its row or its dead letter is
   stored, however many instances crash, fail, time out or race. *)
THEOREM NoSilentLoss == Spec => []AckedIsKept
  <1>1. KeptInv => AckedIsKept
    BY DEF KeptInv
  <1> QED
    BY <1>1, KeptInit, KeptStep, PTL DEF Spec

----------------------------------------------------------------------------

(* No seq is repeated. *)

(* No row of a node lies above the clock of the node's instance, if it has one. *)
ClockCovers ==
  \A i \in Inst, s \in Session : clock[i][s] # 0 =>
    \A r \in Rows(s) : r.at.node = NodeOf[i] => r.at.ts <= clock[i][s]

(* A seq that is about to be stored is the clock's, and above the node's rows. *)
PendingIsAbove ==
  \A i \in Inst, s \in Session : pc[i][s] = "append" =>
    /\ clock[i][s] # 0
    /\ seq[i][s] = NewSeq(i, clock[i][s])
    /\ \A r \in Rows(s) : r.at.node = NodeOf[i] => r.at.ts < clock[i][s]

SeqInv == TypeOK /\ ClockCovers /\ PendingIsAbove /\ NodeSeqsGrow

LEMMA SeqInit == Init => SeqInv
  <1> SUFFICES ASSUME Init PROVE SeqInv
    OBVIOUS
  <1>1. ClockCovers /\ PendingIsAbove /\ NodeSeqsGrow
    BY DEF Init, ClockCovers, PendingIsAbove, NodeSeqsGrow
  <1> QED
    BY <1>1, TypeInit DEF SeqInv

(* A step that leaves the log alone and brings no worker to its append. *)
LEMMA SeqQuiet ==
  ASSUME SeqInv, UNCHANGED log,
         \A i \in Inst, s \in Session :
           /\ clock'[i][s] \in {0, clock[i][s]}
           /\ pc'[i][s] = "append" =>
                /\ pc[i][s] = "append"
                /\ seq'[i][s] = seq[i][s] /\ clock'[i][s] = clock[i][s]
  PROVE  ClockCovers' /\ PendingIsAbove' /\ NodeSeqsGrow'
  BY DEF SeqInv, ClockCovers, PendingIsAbove, NodeSeqsGrow, Rows, NewSeq

LEMMA SeqAlloc ==
  ASSUME SeqInv, NEW i \in Inst, NEW s \in Session, AllocSeq(i, s)
  PROVE  ClockCovers' /\ PendingIsAbove' /\ NodeSeqsGrow'
  <1> USE DEF SeqInv
  <1>1. PICK known \in ReferenceTs(i, s) :
          /\ clock' = [clock EXCEPT ![i][s] = NextTs(known, job[i][s].msg)]
          /\ seq' = [seq EXCEPT ![i][s] = NewSeq(i, NextTs(known, job[i][s].msg))]
    BY DEF AllocSeq
  <1>2. UNCHANGED log
    BY DEF AllocSeq
  <1>3. /\ job[i][s].msg \in Msg
        /\ \A r \in Rows(s) : r.at.ts \in Nat
        /\ clock[i][s] \in Nat
    BY TypeAt
  <1>4. known \in Nat /\ \A r \in Rows(s) : r.at.node = NodeOf[i] => r.at.ts <= known
    BY <1>3 DEF ReferenceTs, MaxTs, ClockCovers
  <1>5. /\ NextTs(known, job[i][s].msg) \in Nat
        /\ NextTs(known, job[i][s].msg) > known
    BY <1>3, <1>4 DEF NextTs, TypeOK
  <1>6. PICK ts \in Nat : ts = NextTs(known, job[i][s].msg)
    BY <1>5
  <1>7. /\ ts # 0
        /\ \A r \in Rows(s) : r.at.node = NodeOf[i] => r.at.ts < ts
    BY <1>3, <1>4, <1>5, <1>6
  <1>8. clock'[i][s] = ts /\ seq'[i][s] = NewSeq(i, ts)
    BY <1>1, <1>6 DEF TypeOK
  <1>9. \A j \in Inst, t \in Session : j # i \/ t # s =>
          clock'[j][t] = clock[j][t] /\ seq'[j][t] = seq[j][t] /\ pc'[j][t] = pc[j][t]
    BY <1>1 DEF AllocSeq, Goto, TypeOK
  <1>10. \A t \in Session : Rows(t)' = Rows(t)
    BY <1>2 DEF Rows
  <1>11. ClockCovers'
    BY <1>3, <1>7, <1>8, <1>9, <1>10 DEF ClockCovers
  <1>12. PendingIsAbove'
    BY <1>7, <1>8, <1>9, <1>10 DEF PendingIsAbove, NewSeq
  <1>13. NodeSeqsGrow'
    BY <1>2 DEF NodeSeqsGrow
  <1> QED
    BY <1>11, <1>12, <1>13

LEMMA SeqAppend ==
  ASSUME SeqInv, NEW i \in Inst, NEW s \in Session, pc[i][s] = "append",
         log' = [log EXCEPT ![s] = Append(@, NewRow(i, s))],
         UNCHANGED <<seq, clock>>,
         NEW label, label # "append", Goto(i, s, label)
  PROVE  ClockCovers' /\ PendingIsAbove' /\ NodeSeqsGrow'
  <1> USE DEF SeqInv
  <1>1. PICK r \in Row : r = NewRow(i, s)
    BY NewRowType
  <1>2. /\ r.at = NewSeq(i, clock[i][s])
        /\ r.at.node = NodeOf[i] /\ r.at.ts = clock[i][s]
        /\ clock[i][s] # 0 /\ clock[i][s] \in Nat
    BY <1>1, TypeAt DEF NewRow, NewSeq, PendingIsAbove
  <1>3. log' = [log EXCEPT ![s] = Append(@, r)]
    BY <1>1
  <1>4. /\ Rows(s)' = Rows(s) \cup {r}
        /\ \A t \in Session : t # s => log'[t] = log[t]
        /\ Len(log'[s]) = Len(log[s]) + 1
        /\ \A k \in 1 .. Len(log[s]) : log'[s][k] = log[s][k]
        /\ log'[s][Len(log[s]) + 1] = r
    BY <1>3, LogAppend
  <1>5. \A t \in Session : t # s => Rows(t)' = Rows(t)
    BY <1>4 DEF Rows
  <1>6. \A j \in Inst : NodeOf[j] = NodeOf[i] => j = i
    BY PipelineAssumption
  <1>7. /\ pc'[i][s] = label
        /\ \A j \in Inst, t \in Session : j # i \/ t # s => pc'[j][t] = pc[j][t]
    BY DEF Goto, TypeOK
  <1>8. ClockCovers'
    BY <1>2, <1>4, <1>5, <1>6 DEF ClockCovers
  <1>9. PendingIsAbove'
    <2> SUFFICES ASSUME NEW j \in Inst, NEW t \in Session, pc'[j][t] = "append"
                 PROVE  /\ clock[j][t] # 0
                        /\ seq[j][t] = NewSeq(j, clock[j][t])
                        /\ \A q \in Rows(t)' : q.at.node = NodeOf[j] => q.at.ts < clock[j][t]
      BY DEF PendingIsAbove, NewSeq
    <2>1. j # i \/ t # s
      BY <1>7
    <2>2. pc[j][t] = "append"
      BY <1>7, <2>1
    <2>3. t = s => r.at.node # NodeOf[j]
      BY <1>2, <1>6, <2>1
    <2> QED
      BY <1>4, <1>5, <2>2, <2>3 DEF PendingIsAbove
  <1>10. NodeSeqsGrow'
    <2> SUFFICES ASSUME NEW t \in Session, NEW k \in 1 .. Len(log'[t]),
                        NEW l \in 1 .. Len(log'[t]), k < l,
                        log'[t][k].at.node = log'[t][l].at.node
                 PROVE  log'[t][k].at.ts < log'[t][l].at.ts
      BY DEF NodeSeqsGrow
    <2>1. CASE t # s
      BY <2>1, <1>4 DEF NodeSeqsGrow
    <2>2. CASE t = s /\ l <= Len(log[s])
      <3>1. Len(log[s]) \in Nat
        BY TypeAt
      <3>2. k \in 1 .. Len(log[s]) /\ l \in 1 .. Len(log[s])
        BY <2>2, <3>1
      <3> QED
        BY <2>2, <3>2, <1>4 DEF NodeSeqsGrow
    <2>3. CASE t = s /\ l > Len(log[s])
      <3>1. Len(log[s]) \in Nat
        BY TypeAt
      <3>2. l = Len(log[s]) + 1 /\ k \in 1 .. Len(log[s])
        BY <2>3, <3>1, <1>4
      <3>3. log'[s][l] = r /\ log'[s][k] = log[s][k] /\ log[s][k] \in Rows(s)
        BY <3>2, <1>4 DEF Rows
      <3>4. \A q \in Rows(s) : q.at.node = NodeOf[i] => q.at.ts < r.at.ts
        BY <1>2 DEF PendingIsAbove
      <3>5. log[s][k].at.node = NodeOf[i]
        BY <2>3, <3>3, <1>2
      <3>6. log[s][k].at.ts < r.at.ts
        BY <3>3, <3>4, <3>5
      <3> QED
        BY <2>3, <3>3, <3>6
    <2>4. l <= Len(log[s]) \/ l > Len(log[s])
      BY TypeAt
    <2> QED
      BY <2>1, <2>2, <2>3, <2>4
  <1> QED
    BY <1>8, <1>9, <1>10

LEMMA SeqStep == SeqInv /\ [Next]_vars => SeqInv'
  <1> SUFFICES ASSUME SeqInv, [Next]_vars PROVE ClockCovers' /\ PendingIsAbove' /\ NodeSeqsGrow'
    BY TypeStep DEF SeqInv
  <1> USE DEF SeqInv, fetchVars, streamVars, budgetVars
  <1>a. \A i \in Inst, s \in Session : clock[i][s] \in {0, clock[i][s]}
    OBVIOUS
  <1>1. ASSUME UNCHANGED <<log, pc, seq, clock>>
        PROVE  ClockCovers' /\ PendingIsAbove' /\ NodeSeqsGrow'
    BY <1>1, SeqQuiet
  <1>2. ASSUME NEW i \in Inst, Crash(i)
        PROVE  ClockCovers' /\ PendingIsAbove' /\ NodeSeqsGrow'
    <2>1. \A j \in Inst, s \in Session :
            /\ clock'[j][s] \in {0, clock[j][s]}
            /\ pc'[j][s] = "append" =>
                 /\ pc[j][s] = "append"
                 /\ seq'[j][s] = seq[j][s] /\ clock'[j][s] = clock[j][s]
      BY <1>2 DEF Crash, TypeOK
    <2>2. UNCHANGED log
      BY <1>2 DEF Crash
    <2> QED
      BY <2>1, <2>2, SeqQuiet
  <1>3. ASSUME NEW i \in Inst, NEW s \in Session, Worker(i, s)
        PROVE  ClockCovers' /\ PendingIsAbove' /\ NodeSeqsGrow'
    <2>a. ASSUME NEW label, label # "append", Goto(i, s, label), UNCHANGED <<log, clock>>,
                 \A j \in Inst, t \in Session : j # i \/ t # s => seq'[j][t] = seq[j][t]
          PROVE  ClockCovers' /\ PendingIsAbove' /\ NodeSeqsGrow'
      <3>1. \A j \in Inst, t \in Session :
              /\ clock'[j][t] \in {0, clock[j][t]}
              /\ pc'[j][t] = "append" =>
                   /\ pc[j][t] = "append"
                   /\ seq'[j][t] = seq[j][t] /\ clock'[j][t] = clock[j][t]
        BY <2>a DEF Goto, TypeOK
      <3> QED
        BY <2>a, <3>1, SeqQuiet
    <2>1. CASE \/ Take(i, s) \/ FindNone(i, s) \/ LookupFails(i, s) \/ Bury(i, s)
      <3>1. /\ UNCHANGED <<log, clock, seq>>
            /\ \E label : label # "append" /\ Goto(i, s, label)
        BY <2>1 DEF Take, FindNone, LookupFails, Bury
      <3> QED
        BY <3>1, <2>a
    <2>2. CASE FindDuplicate(i, s)
      <3>1. \A j \in Inst, t \in Session : j # i \/ t # s => seq'[j][t] = seq[j][t]
        BY <2>2 DEF FindDuplicate, TypeOK
      <3> QED
        BY <2>2, <3>1, <2>a DEF FindDuplicate
    <2>3. CASE Acknowledge(i, s) \/ Retry(i, s) \/ BuryFails(i, s)
      <3>1. Leave(i, s) /\ UNCHANGED <<log, clock>>
        BY <2>3 DEF Acknowledge, Retry, BuryFails
      <3>2. \A j \in Inst, t \in Session : j # i \/ t # s => seq'[j][t] = seq[j][t]
        BY <3>1 DEF Leave, TypeOK
      <3> QED
        BY <3>1, <3>2, <2>a DEF Leave
    <2>4. CASE AllocSeq(i, s)
      BY <2>4, SeqAlloc
    <2>5. CASE AppendRow(i, s)
      BY <2>5, SeqAppend DEF AppendRow, At
    <2>6. CASE AppendFails(i, s)
      <3>1. CASE UNCHANGED log
        BY <2>6, <3>1, <2>a DEF AppendFails
      <3>2. CASE log' = [log EXCEPT ![s] = Append(@, NewRow(i, s))]
        BY <2>6, <3>2, SeqAppend DEF AppendFails, At
      <3> QED
        BY <2>6, <3>1, <3>2 DEF AppendFails
    <2> QED
      BY <1>3, <2>1, <2>2, <2>3, <2>4, <2>5, <2>6 DEF Worker
  <1> QED
    BY <1>1, <1>2, <1>3
    DEF Next, vars, Publish, AckWaitExpires, RebuildConsumer, FetchFails, Fetch, FlushSummary

(* A node's seqs grow in the order in which its rows are stored, although its
   clock is lost in every crash and rebuilt from the log. *)
THEOREM SeqsGrowPerNode == Spec => []NodeSeqsGrow
  <1>1. SeqInv => NodeSeqsGrow
    BY DEF SeqInv
  <1> QED
    BY <1>1, SeqInit, SeqStep, PTL DEF Spec

(* No two rows of a session have the same seq. *)
THEOREM SeqsAreUnique == Spec => []SeqsUnique
  <1>1. SeqInv => SeqsUnique
    <2> SUFFICES ASSUME SeqInv, NEW s \in Session, NEW k \in 1 .. Len(log[s]),
                        NEW l \in 1 .. Len(log[s]), k # l, log[s][k].at = log[s][l].at
                 PROVE  FALSE
      BY DEF SeqsUnique
    <2>1. log[s][k].at.ts \in Nat /\ log[s][l].at.ts \in Nat
      <3>2. TypeOK
        BY DEF SeqInv
      <3>3. log[s] \in Seq(Row)
        BY <3>2 DEF TypeOK
      <3>4. log[s][k] \in Row /\ log[s][l] \in Row
        BY <3>3
      <3> QED
        BY <3>4 DEF Row, SeqVal
    <2>2. k < l \/ l < k
      BY TypeAt DEF SeqInv
    <2> QED
      BY <2>1, <2>2 DEF SeqInv, NodeSeqsGrow
  <1> QED
    BY <1>1, SeqInit, SeqStep, PTL DEF Spec

----------------------------------------------------------------------------

(* The summary shows a stored row. *)

ShowsRow(s, at) == at = NoSeq \/ \E r \in Rows(s) : r.at = at

(* What waits in a SeqSyncer is the seq of a stored row as well. *)
BuffersShowRows == \A i \in Inst, s \in Session : ShowsRow(s, buffer[i][s])

ShownInv == TypeOK /\ BuffersShowRows /\ SummaryShowsRow

LEMMA ShownInit == Init => ShownInv
  <1> SUFFICES ASSUME Init PROVE ShownInv
    OBVIOUS
  <1>1. BuffersShowRows /\ SummaryShowsRow
    BY DEF Init, BuffersShowRows, SummaryShowsRow, ShowsRow
  <1> QED
    BY <1>1, TypeInit DEF ShownInv

(* A row is never taken back. *)
LEMMA RowsStay ==
  ASSUME TypeOK, [Next]_vars, NEW s \in Session
  PROVE  Rows(s) \subseteq Rows(s)'
  <1>1. CASE UNCHANGED log
    BY <1>1 DEF Rows
  <1>2. ASSUME NEW i \in Inst, NEW t \in Session,
               log' = [log EXCEPT ![t] = Append(@, NewRow(i, t))]
        PROVE  Rows(s) \subseteq Rows(s)'
    BY <1>2, NewRowType, LogAppend
  <1> QED
    BY <1>1, <1>2, LogStep

LEMMA ShownStep == ShownInv /\ [Next]_vars => ShownInv'
  <1> SUFFICES ASSUME ShownInv, [Next]_vars PROVE BuffersShowRows' /\ SummaryShowsRow'
    BY TypeStep DEF ShownInv
  <1> USE DEF ShownInv, fetchVars, streamVars, budgetVars
  <1>a. \A s \in Session : \A at : ShowsRow(s, at) => ShowsRow(s, at)'
    BY RowsStay DEF ShowsRow, NoSeq
  <1>b. ASSUME NEW i \in Inst, NEW s \in Session, NEW at \in SeqVal, ShowsRow(s, at)',
               buffer' = [buffer EXCEPT ![i][s] = at]
        PROVE  BuffersShowRows'
    <2>1. \A j \in Inst, t \in Session :
            buffer'[j][t] = IF j = i /\ t = s THEN at ELSE buffer[j][t]
      BY <1>b, TableUpdate DEF TypeOK
    <2>2. ASSUME NEW j \in Inst, NEW t \in Session PROVE ShowsRow(t, buffer[j][t])'
      <3>1. CASE j = i /\ t = s
        BY <1>b, <2>1, <3>1 DEF ShowsRow
      <3>2. CASE ~(j = i /\ t = s)
        <4>1. buffer'[j][t] = buffer[j][t]
          BY <2>1, <3>2
        <4> QED
          BY <1>a, <4>1 DEF BuffersShowRows, ShowsRow
      <3> QED
        BY <3>1, <3>2
    <2> QED
      BY <2>2 DEF BuffersShowRows
  <1>c. ASSUME UNCHANGED buffer PROVE BuffersShowRows'
    BY <1>a, <1>c DEF BuffersShowRows, ShowsRow
  <1>d. ASSUME UNCHANGED summary PROVE SummaryShowsRow'
    BY <1>a, <1>d DEF SummaryShowsRow, ShowsRow
  <1>1. CASE UNCHANGED <<buffer, summary>>
    BY <1>1, <1>c, <1>d
  <1>2. ASSUME NEW i \in Inst, Crash(i) PROVE BuffersShowRows' /\ SummaryShowsRow'
    <2>1. \A j \in Inst, t \in Session : buffer'[j][t] \in {NoSeq, buffer[j][t]}
      BY <1>2 DEF Crash, TypeOK
    <2>2. BuffersShowRows'
      BY <1>a, <2>1 DEF BuffersShowRows, ShowsRow
    <2>3. UNCHANGED summary
      BY <1>2 DEF Crash
    <2> QED
      BY <1>d, <2>2, <2>3
  <1>3. ASSUME NEW i \in Inst, NEW s \in Session, FindDuplicate(i, s)
        PROVE  BuffersShowRows' /\ SummaryShowsRow'
    <2>1. PICK r \in Rows(s) : buffer' = [buffer EXCEPT ![i][s] = SeqMax(@, r.at)]
      BY <1>3 DEF FindDuplicate
    <2>2. PICK at \in SeqVal : at = SeqMax(buffer[i][s], r.at) /\ at \in {buffer[i][s], r.at}
      BY TypeAt, SeqMaxType
    <2>3. ShowsRow(s, at)'
      BY <1>a, <2>2 DEF BuffersShowRows, ShowsRow
    <2>4. buffer' = [buffer EXCEPT ![i][s] = at]
      BY <2>1, <2>2
    <2> QED
      BY <1>3, <1>b, <1>d, <2>3, <2>4 DEF FindDuplicate
  <1>4. ASSUME NEW i \in Inst, NEW s \in Session, AppendRow(i, s)
        PROVE  BuffersShowRows' /\ SummaryShowsRow'
    <2>1. PICK r \in Row : r = NewRow(i, s) /\ r.at = seq[i][s]
      BY NewRowType DEF NewRow
    <2>2. ShowsRow(s, r.at)'
      <3>1. log' = [log EXCEPT ![s] = Append(@, r)]
        BY <1>4, <2>1 DEF AppendRow
      <3>2. Rows(s)' = Rows(s) \cup {r}
        BY <3>1, LogAppend
      <3> QED
        BY <3>2 DEF ShowsRow
    <2>3. PICK at \in SeqVal : at = SeqMax(buffer[i][s], r.at) /\ at \in {buffer[i][s], r.at}
      BY <2>1, TypeAt, SeqMaxType
    <2>4. ShowsRow(s, at)'
      BY <1>a, <2>2, <2>3 DEF BuffersShowRows
    <2>5. buffer' = [buffer EXCEPT ![i][s] = at]
      BY <1>4, <2>1, <2>3 DEF AppendRow
    <2> QED
      BY <1>4, <1>b, <1>d, <2>4, <2>5 DEF AppendRow
  <1>5. ASSUME NEW i \in Inst, NEW s \in Session, FlushSummary(i, s)
        PROVE  BuffersShowRows' /\ SummaryShowsRow'
    <2>1. buffer' = [buffer EXCEPT ![i][s] = NoSeq]
      BY <1>5 DEF FlushSummary
    <2>2. NoSeq \in SeqVal /\ ShowsRow(s, NoSeq)'
      BY PipelineAssumption DEF NoSeq, SeqVal, ShowsRow
    <2>3. BuffersShowRows'
      BY <1>b, <2>1, <2>2
    <2>4. CASE UNCHANGED summary
      BY <1>d, <2>3, <2>4
    <2>5. CASE summary' = [summary EXCEPT ![s] = SeqMax(@, buffer[i][s])]
      <3>1. PICK at \in SeqVal :
              at = SeqMax(summary[s], buffer[i][s]) /\ at \in {summary[s], buffer[i][s]}
        BY TypeAt, SeqMaxType DEF TypeOK
      <3>2. \A t \in Session : summary'[t] = IF t = s THEN at ELSE summary[t]
        BY <2>5, <3>1 DEF TypeOK
      <3>3. \A t \in Session : ShowsRow(t, summary[t])
        BY DEF SummaryShowsRow, ShowsRow
      <3>4. \A t \in Session : ShowsRow(t, summary'[t])
        BY <3>1, <3>2, <3>3 DEF BuffersShowRows
      <3>5. \A t \in Session : ShowsRow(t, summary[t])'
        BY <1>a, <3>4 DEF ShowsRow
      <3> QED
        BY <2>3, <3>5 DEF SummaryShowsRow, ShowsRow
    <2> QED
      BY <1>5, <2>4, <2>5 DEF FlushSummary
  <1>6. ASSUME NEW i \in Inst, NEW s \in Session, Worker(i, s),
               ~FindDuplicate(i, s), ~AppendRow(i, s)
        PROVE  UNCHANGED <<buffer, summary>>
    BY <1>6 DEF Worker, Take, FindNone, LookupFails, AllocSeq, AppendFails,
                Acknowledge, Retry, Bury, BuryFails
  <1> QED
    BY <1>1, <1>2, <1>3, <1>4, <1>5, <1>6
    DEF Next, vars, Publish, AckWaitExpires, RebuildConsumer, FetchFails, Fetch

(* The session list never shows a message that was not stored, although each
   instance holds summaries back and drops them in a crash or a failed flush. *)
THEOREM SummariesShowRows == Spec => []SummaryShowsRow
  <1>1. ShownInv => SummaryShowsRow
    BY DEF ShownInv
  <1> QED
    BY <1>1, ShownInit, ShownStep, PTL DEF Spec

----------------------------------------------------------------------------

(* The write path implements MessageInbox. *)

(* Only a published message is ever worked on. *)
WorkIsPublished ==
  \A i \in Inst, s \in Session :
    /\ pc[i][s] # "idle" => sseq[job[i][s].msg] > 0
    /\ \A k \in 1 .. Len(queue[i][s]) : sseq[queue[i][s][k].msg] > 0

InboxInv == KeptInv /\ WorkIsPublished

LEMMA InboxInit == Init => InboxInv
  <1> SUFFICES ASSUME Init PROVE InboxInv
    OBVIOUS
  <1>1. WorkIsPublished
    BY DEF Init, WorkIsPublished
  <1> QED
    BY <1>1, KeptInit DEF InboxInv

(* A published message stays published. *)
LEMMA PublishedStays ==
  ASSUME TypeOK, [Next]_vars, NEW m \in Msg, sseq[m] > 0
  PROVE  sseq'[m] > 0
  <1> USE DEF streamVars
  <1>1. ASSUME NEW x \in Msg, Publish(x) PROVE sseq'[m] > 0
    BY <1>1 DEF Publish, TypeOK
  <1>2. ASSUME NEW i \in Inst, NEW s \in Session, Worker(i, s) PROVE UNCHANGED sseq
    BY <1>2 DEF Worker, Take, FindDuplicate, FindNone, LookupFails, AllocSeq,
                AppendRow, AppendFails, Acknowledge, Retry, Bury, BuryFails
  <1> QED
    BY <1>1, <1>2 DEF Next, vars, AckWaitExpires, RebuildConsumer, Crash, FetchFails, Fetch,
                      FlushSummary

LEMMA WorkStep == TypeOK /\ WorkIsPublished /\ [Next]_vars => WorkIsPublished'
  <1> SUFFICES ASSUME TypeOK, WorkIsPublished, [Next]_vars PROVE WorkIsPublished'
    OBVIOUS
  <1> USE DEF fetchVars
  <1>a. \A i \in Inst, s \in Session :
          /\ job[i][s].msg \in Msg
          /\ queue[i][s] \in Seq(Delivery)
          /\ \A k \in 1 .. Len(queue[i][s]) : queue[i][s][k].msg \in Msg
    <2>1. \A i \in Inst, s \in Session : job[i][s].msg \in Msg /\ queue[i][s] \in Seq(Delivery)
      BY TypeAt
    <2>2. \A i \in Inst, s \in Session : \A k \in 1 .. Len(queue[i][s]) :
            queue[i][s][k] \in Delivery
      BY <2>1
    <2> QED
      BY <2>1, <2>2 DEF Delivery
  <1>b. \A m \in Msg : sseq[m] > 0 => sseq'[m] > 0
    BY PublishedStays
  (* It is enough to look at the workers whose work changes. *)
  <1>c. ASSUME NEW i \in Inst, NEW s \in Session,
               \A j \in Inst, t \in Session : j # i \/ t # s =>
                 /\ queue'[j][t] = queue[j][t]
                 /\ pc'[j][t] = pc[j][t] /\ job'[j][t] = job[j][t],
               pc'[i][s] # "idle" => sseq'[job'[i][s].msg] > 0,
               \A k \in 1 .. Len(queue'[i][s]) : sseq'[queue'[i][s][k].msg] > 0
        PROVE  WorkIsPublished'
    <2> SUFFICES ASSUME NEW j \in Inst, NEW t \in Session
                 PROVE  /\ pc'[j][t] # "idle" => sseq'[job'[j][t].msg] > 0
                        /\ \A k \in 1 .. Len(queue'[j][t]) : sseq'[queue'[j][t][k].msg] > 0
      BY DEF WorkIsPublished
    <2>1. CASE j = i /\ t = s
      BY <1>c, <2>1
    <2>2. CASE j # i \/ t # s
      BY <1>a, <1>b, <1>c, <2>2 DEF WorkIsPublished
    <2> QED
      BY <2>1, <2>2
  <1>1. ASSUME UNCHANGED <<queue, pc, job>> PROVE WorkIsPublished'
    BY <1>a, <1>b, <1>1 DEF WorkIsPublished
  <1>2. ASSUME NEW i \in Inst, Crash(i) PROVE WorkIsPublished'
    <2>1. \A j \in Inst, t \in Session :
            \/ pc'[j][t] = "idle" /\ queue'[j][t] = <<>>
            \/ queue'[j][t] = queue[j][t] /\ pc'[j][t] = pc[j][t] /\ job'[j][t] = job[j][t]
      BY <1>2 DEF Crash, TypeOK
    <2> QED
      BY <1>a, <1>b, <2>1 DEF WorkIsPublished
  <1>3. ASSUME NEW i \in Inst, NEW m \in Msg, Fetch(i, m) PROVE WorkIsPublished'
    <2> DEFINE s == SessionOf[m]
               d == [msg |-> m, n |-> nd[m] + 1]
    <2>1. s \in Session
      BY PipelineAssumption
    <2>2. queue' = [queue EXCEPT ![i][s] = Append(@, d)] /\ UNCHANGED <<pc, job>>
      BY <1>3 DEF Fetch
    <2>3. sseq[m] > 0 /\ d.msg = m
      BY <1>3 DEF Fetch, Deliverable
    <2>4. queue'[i][s] = Append(queue[i][s], d)
      BY <2>1, <2>2 DEF TypeOK
    <2>5. \A j \in Inst, t \in Session : j # i \/ t # s => queue'[j][t] = queue[j][t]
      BY <2>1, <2>2 DEF TypeOK
    <2> HIDE DEF s, d
    <2>6. \A k \in 1 .. Len(queue'[i][s]) : sseq'[queue'[i][s][k].msg] > 0
      BY <1>a, <1>b, <2>1, <2>3, <2>4 DEF WorkIsPublished
    <2>7. pc'[i][s] # "idle" => sseq'[job'[i][s].msg] > 0
      BY <1>a, <1>b, <2>1, <2>2 DEF WorkIsPublished
    <2> QED
      BY <1>c, <2>1, <2>2, <2>5, <2>6, <2>7
  <1>4. ASSUME NEW i \in Inst, NEW s \in Session, Take(i, s) PROVE WorkIsPublished'
    <2>1. queue[i][s] # <<>>
      BY <1>4 DEF Take
    <2>2. job'[i][s] = queue[i][s][1] /\ queue'[i][s] = Tail(queue[i][s])
      BY <1>4, <2>1 DEF Take, TypeOK
    <2>3. \A j \in Inst, t \in Session : j # i \/ t # s =>
            /\ queue'[j][t] = queue[j][t]
            /\ pc'[j][t] = pc[j][t] /\ job'[j][t] = job[j][t]
      BY <1>4 DEF Take, Goto, TypeOK
    <2>4. \A k \in 1 .. Len(queue[i][s]) : sseq'[queue[i][s][k].msg] > 0
      BY <1>a, <1>b DEF WorkIsPublished
    <2>5. /\ sseq'[job'[i][s].msg] > 0
          /\ \A k \in 1 .. Len(queue'[i][s]) : sseq'[queue'[i][s][k].msg] > 0
      BY <1>a, <2>1, <2>2, <2>4
    <2> QED
      BY <1>c, <2>3, <2>5
  <1>5. ASSUME NEW i \in Inst, NEW s \in Session, Worker(i, s), ~Take(i, s)
        PROVE  WorkIsPublished'
    <2>1. /\ UNCHANGED queue
          /\ pc[i][s] # "idle"
          /\ Leave(i, s) \/ (UNCHANGED job /\ \E label : Goto(i, s, label))
      BY <1>5 DEF Worker, FindDuplicate, FindNone, LookupFails, AllocSeq, AppendRow,
                  AppendFails, Acknowledge, Retry, Bury, BuryFails, Dead, At
    <2>2. /\ pc'[i][s] = "idle" \/ job'[i][s] = job[i][s]
          /\ \A j \in Inst, t \in Session : j # i \/ t # s =>
               pc'[j][t] = pc[j][t] /\ job'[j][t] = job[j][t]
      BY <2>1 DEF Leave, Goto, TypeOK
    <2> QED
      BY <1>a, <1>b, <1>c, <2>1, <2>2 DEF WorkIsPublished
  <1> QED
    BY <1>1, <1>2, <1>3, <1>4, <1>5
    DEF Next, vars, Publish, AckWaitExpires, RebuildConsumer, FetchFails, FlushSummary

LEMMA InboxStep == InboxInv /\ [Next]_vars => InboxInv'
  BY KeptStep, WorkStep DEF InboxInv, KeptInv

(* Where the rows of a message are in its session's log. *)
Places(m) == {k \in 1 .. Len(log[SessionOf[m]]) : log[SessionOf[m]][k].msg = m}

(* A message has copies when it is stored, and a natural number of them. *)
LEMMA CopiesOfStored ==
  ASSUME TypeOK, NEW m \in Msg
  PROVE  /\ IsFiniteSet(Places(m))
         /\ Copies(m) = Cardinality(Places(m)) /\ Copies(m) \in Nat
         /\ Stored(m) => Copies(m) > 0
  <1>1. SessionOf[m] \in Session
    BY PipelineAssumption
  <1>2. Len(log[SessionOf[m]]) \in Nat
    BY <1>1, TypeAt
  <1>3. IsFiniteSet(1 .. Len(log[SessionOf[m]]))
    BY <1>2, FS_Interval
  <1>4. IsFiniteSet(Places(m))
    BY <1>3, FS_Subset DEF Places
  <1>5. Copies(m) = Cardinality(Places(m)) /\ Copies(m) \in Nat
    BY <1>4, FS_CardinalityType DEF Copies, Places
  <1>6. ASSUME Stored(m) PROVE Copies(m) > 0
    <2>1. Places(m) # {}
      BY <1>6 DEF Stored, Rows, Places
    <2>2. Cardinality(Places(m)) # 0
      BY <1>4, <2>1, FS_EmptySet
    <2> QED
      BY <1>5, <2>2
  <1> QED
    BY <1>4, <1>5, <1>6

(* A stored row adds one copy of its message, and of no other. *)
LEMMA CopiesGrow ==
  ASSUME TypeOK, NEW s \in Session, NEW r \in Row, SessionOf[r.msg] = s,
         log' = [log EXCEPT ![s] = Append(@, r)]
  PROVE  \A m \in Msg : Copies(m)' = IF m = r.msg THEN Copies(m) + 1 ELSE Copies(m)
  <1>1. r.msg \in Msg
    BY DEF Row
  <1>2. /\ \A t \in Session : t # s => log'[t] = log[t]
        /\ Len(log'[s]) = Len(log[s]) + 1
        /\ \A k \in 1 .. Len(log[s]) : log'[s][k] = log[s][k]
        /\ log'[s][Len(log[s]) + 1] = r
    <2>1. log' = [log EXCEPT ![s] = Append(@, r)]
      OBVIOUS
    <2> QED
      BY <2>1, LogAppend
  <1>3. Len(log[s]) \in Nat
    BY TypeAt
  <1>4. Places(r.msg)' = Places(r.msg) \cup {Len(log[s]) + 1}
    BY <1>2, <1>3 DEF Places
  <1>5. Len(log[s]) + 1 \notin Places(r.msg)
    BY <1>3 DEF Places
  <1>6. Cardinality(Places(r.msg)') = Cardinality(Places(r.msg)) + 1
    BY <1>1, <1>4, <1>5, CopiesOfStored, FS_AddElement
  <1>7. ASSUME NEW m \in Msg, m # r.msg PROVE Places(m)' = Places(m)
    <2>1. CASE SessionOf[m] = s
      BY <1>2, <1>3, <1>7, <2>1 DEF Places
    <2>2. CASE SessionOf[m] # s
      BY <1>2, <2>2, PipelineAssumption DEF Places
    <2> QED
      BY <2>1, <2>2
  <1>8. \A m : Copies(m) = Cardinality(Places(m)) /\ Copies(m)' = Cardinality(Places(m)')
    BY DEF Copies, Places
  <1> QED
    BY <1>6, <1>7, <1>8

LEMMA InboxInitImplements == Init => AtLeastOnce!Init
  <1> SUFFICES ASSUME Init PROVE AtLeastOnce!Init
    OBVIOUS
  <1>1. Published = {} /\ Settled = {} /\ misdated = {}
    BY DEF Init, Published, Settled
  <1>2. ASSUME NEW m \in Msg PROVE Copies(m) = 0
    <2>1. log[SessionOf[m]] = <<>>
      BY PipelineAssumption DEF Init
    <2>2. Places(m) = {}
      BY <2>1 DEF Places
    <2> QED
      BY <2>2, FS_EmptySet DEF Copies, Places
  <1> QED
    BY <1>1, <1>2 DEF Init, AtLeastOnce!Init

(* Each step of the write path is a step of the inbox or none of its business. *)
LEMMA InboxImplements ==
  ASSUME InboxInv, [Next]_vars
  PROVE  [AtLeastOnce!Next]_(AtLeastOnce!inboxVars)
  <1> USE DEF InboxInv, KeptInv, streamVars, fetchVars, budgetVars
  <1> DEFINE copies == [m \in Msg |-> Copies(m)]
  <1>a. ASSUME UNCHANGED log PROVE UNCHANGED copies
    BY <1>a DEF Copies
  <1>b. ASSUME UNCHANGED sseq PROVE UNCHANGED Published
    BY <1>b DEF Published
  <1>c. ASSUME UNCHANGED cons PROVE UNCHANGED Settled
    BY <1>c DEF Settled
  <1>d. ASSUME UNCHANGED <<Published, copies, dlq, Settled, misdated>>
        PROVE  UNCHANGED AtLeastOnce!inboxVars
    BY <1>d DEF AtLeastOnce!inboxVars
  <1>1. ASSUME UNCHANGED <<log, sseq, cons, dlq, misdated>> PROVE UNCHANGED AtLeastOnce!inboxVars
    BY <1>1, <1>a, <1>b, <1>c, <1>d
  <1>2. ASSUME NEW m \in Msg, Publish(m) PROVE AtLeastOnce!Publish(m)
    <2>1. m \notin Published /\ Published' = Published \cup {m}
      BY <1>2 DEF Publish, Published, TypeOK
    <2>2. UNCHANGED <<copies, dlq, Settled, misdated>>
      BY <1>2, <1>a, <1>c DEF Publish
    <2> QED
      BY <2>1, <2>2 DEF AtLeastOnce!Publish
  <1>3. ASSUME UNCHANGED <<log, sseq, dlq, misdated>>,
               \A m \in Msg : cons[m] = "done" <=> cons'[m] = "done"
        PROVE  UNCHANGED AtLeastOnce!inboxVars
    <2>1. UNCHANGED Settled
      BY <1>3 DEF Settled
    <2> QED
      BY <1>3, <1>a, <1>b, <1>d, <2>1
  <1>4. ASSUME NEW m \in Msg, AckWaitExpires(m) PROVE UNCHANGED AtLeastOnce!inboxVars
    BY <1>3, <1>4 DEF AckWaitExpires, TypeOK
  <1>5. ASSUME NEW noticed \in SUBSET Inst, RebuildConsumer(noticed) PROVE AtLeastOnce!Reopen
    <2>1. Settled' = {}
      BY <1>5 DEF RebuildConsumer, Settled
    <2>2. UNCHANGED <<Published, copies, dlq>>
      BY <1>5, <1>a, <1>b DEF RebuildConsumer
    <2>3. PICK some \in SUBSET Published : misdated' = misdated \cup some
      <3>1. misdated' = misdated \cup
              {m \in Msg : sseq[m] > 0 /\ \E i \in Inst : ~refetch'[i] /\ ~Predates(i, m)}
        BY <1>5 DEF RebuildConsumer
      <3>2. {m \in Msg : sseq[m] > 0 /\ \E i \in Inst : ~refetch'[i] /\ ~Predates(i, m)}
              \in SUBSET Published
        BY DEF Published
      <3> QED
        BY <3>1, <3>2
    <2> QED
      BY <2>1, <2>2, <2>3 DEF AtLeastOnce!Reopen
  <1>6. ASSUME NEW i \in Inst, Crash(i) PROVE UNCHANGED AtLeastOnce!inboxVars
    BY <1>1, <1>6 DEF Crash
  <1>7. ASSUME NEW i \in Inst, NEW m \in Msg, Fetch(i, m)
        PROVE  UNCHANGED AtLeastOnce!inboxVars
    <2>1. \A x \in Msg : cons[x] = "done" <=> cons'[x] = "done"
      BY <1>7 DEF Fetch, Deliverable, TypeOK
    <2>2. UNCHANGED <<log, sseq, dlq, misdated>>
      BY <1>7 DEF Fetch
    <2> QED
      BY <1>3, <2>1, <2>2
  <1>8. ASSUME NEW i \in Inst, NEW s \in Session, FlushSummary(i, s)
        PROVE  UNCHANGED AtLeastOnce!inboxVars
    BY <1>1, <1>8 DEF FlushSummary
  <1>9. ASSUME NEW i \in Inst, NEW s \in Session, Worker(i, s)
        PROVE  \/ \E m \in Msg :
                    AtLeastOnce!Store(m) \/ AtLeastOnce!Bury(m) \/ AtLeastOnce!Settle(m)
               \/ UNCHANGED AtLeastOnce!inboxVars
    <2>a. PICK m \in Msg : m = job[i][s].msg
      BY TypeAt
    <2>b. pc[i][s] # "idle" => m \in Published /\ SessionOf[m] = s
      BY <2>a DEF WorkIsPublished, JobsInSession, Published
    <2>c. ASSUME log' = [log EXCEPT ![s] = Append(@, NewRow(i, s))],
                 pc[i][s] = "append", UNCHANGED <<sseq, cons, dlq, misdated>>
          PROVE  AtLeastOnce!Store(m)
      <3>1. PICK r \in Row : r = NewRow(i, s) /\ r.msg = m
        BY <2>a, NewRowType DEF NewRow
      <3>2. log' = [log EXCEPT ![s] = Append(@, r)] /\ SessionOf[r.msg] = s
        BY <2>b, <2>c, <3>1
      <3>3. \A x \in Msg : Copies(x)' = IF x = m THEN Copies(x) + 1 ELSE Copies(x)
        BY <3>1, <3>2, CopiesGrow
      <3>4. copies' = [copies EXCEPT ![m] = @ + 1]
        BY <3>3
      <3>5. UNCHANGED <<Published, dlq, Settled, misdated>>
        BY <2>c, <1>b, <1>c
      <3> QED
        BY <2>b, <2>c, <3>4, <3>5 DEF AtLeastOnce!Store
    <2>d. ASSUME dlq' = dlq \cup {m}, pc[i][s] # "idle", UNCHANGED <<log, sseq, Settled, misdated>>
          PROVE  AtLeastOnce!Bury(m)
      BY <2>b, <2>d, <1>a, <1>b DEF AtLeastOnce!Bury
    <2>e. ASSUME cons' = Nacked(m) PROVE UNCHANGED Settled
      <3>1. \A x \in Msg : cons[x] = "done" <=> cons'[x] = "done"
        BY <2>e DEF Nacked, TypeOK
      <3> QED
        BY <3>1 DEF Settled
    <2>1. CASE \/ Take(i, s) \/ FindDuplicate(i, s) \/ FindNone(i, s)
               \/ LookupFails(i, s) \/ AllocSeq(i, s)
      BY <1>1, <2>1 DEF Take, FindDuplicate, FindNone, LookupFails, AllocSeq
    <2>2. CASE AppendRow(i, s)
      BY <2>2, <2>c DEF AppendRow, At
    <2>3. CASE AppendFails(i, s)
      BY <1>1, <2>3, <2>c DEF AppendFails, At
    <2>4. CASE Acknowledge(i, s)
      <3>1. UNCHANGED <<log, sseq, dlq, misdated>>
        BY <2>4 DEF Acknowledge
      <3>2. copies[m] > 0 \/ m \in dlq
        BY <2>4, <2>a, CopiesOfStored DEF Acknowledge, At, OkIsKept, Kept
      <3>3. CASE cons' = Acked(m) /\ cons[m] # "new"
        <4>1. Settled' = Settled \cup {m}
          BY <3>3 DEF Acked, Settled, TypeOK
        <4>2. AtLeastOnce!Settle(m)
          BY <1>a, <1>b, <3>1, <3>2, <4>1 DEF AtLeastOnce!Settle
        <4> QED
          BY <4>2
      <3>4. CASE cons' = Acked(m) /\ cons[m] = "new"
        <4>1. \A x \in Msg : cons[x] = "done" <=> cons'[x] = "done"
          BY <3>4 DEF Acked, TypeOK
        <4> QED
          BY <1>3, <3>1, <4>1
      <3>5. CASE UNCHANGED cons
        BY <1>1, <3>1, <3>5
      <3> QED
        BY <2>4, <2>a, <3>3, <3>4, <3>5 DEF Acknowledge
    <2>5. CASE Retry(i, s)
      BY <2>5, <2>a, <2>e, <1>a, <1>b, <1>d DEF Retry
    <2>6. CASE Bury(i, s)
      <3>1. pc[i][s] # "idle" /\ UNCHANGED <<log, sseq, cons, misdated>> /\ dlq' = dlq \cup {m}
        BY <2>6, <2>a DEF Bury, Dead, At
      <3> QED
        BY <2>d, <1>c, <3>1
    <2>7. CASE BuryFails(i, s)
      <3>1. /\ pc[i][s] # "idle" /\ UNCHANGED <<log, sseq, misdated>>
            /\ dlq' \in {dlq, dlq \cup {m}}
        BY <2>7, <2>a DEF BuryFails, Dead, At
      <3>2. UNCHANGED Settled
        BY <2>7, <2>a, <2>e DEF BuryFails, Unburied
      <3>3. CASE UNCHANGED dlq
        BY <1>a, <1>b, <1>d, <3>1, <3>2, <3>3
      <3> QED
        BY <2>d, <3>1, <3>2, <3>3
    <2> QED
      BY <1>9, <2>1, <2>2, <2>3, <2>4, <2>5, <2>6, <2>7 DEF Worker
  <1>10. CASE UNCHANGED vars
    BY <1>1, <1>10 DEF vars
  <1>11. ASSUME NEW i \in Inst, FetchFails(i) PROVE UNCHANGED AtLeastOnce!inboxVars
    BY <1>1, <1>11 DEF FetchFails
  <1> QED
    BY <1>2, <1>4, <1>5, <1>6, <1>7, <1>8, <1>9, <1>10, <1>11 DEF Next, AtLeastOnce!Next

(* For any number of instances, sessions and messages and whatever crashes,
   fails or times out, the write path is an inbox in which only a published
   message gets a copy or a dead letter, and only one that has either is settled. *)
THEOREM WritePathIsAnInbox == Spec => ImplementsAtLeastOnce
  BY InboxInit, InboxStep, InboxInitImplements, InboxImplements, PTL
  DEF Spec, ImplementsAtLeastOnce, AtLeastOnce!Spec

----------------------------------------------------------------------------

(* A single instance stores its rows in order. *)

OneInstance == \A i, j \in Inst : i = j

RowsHaveNodes ==
  \A s \in Session : \A r \in Rows(s) : \E i \in Inst : r.at.node = NodeOf[i]

OrderInv == SeqInv /\ RowsHaveNodes

LEMMA OrderStep == OrderInv /\ [Next]_vars => OrderInv'
  <1> SUFFICES ASSUME OrderInv, [Next]_vars PROVE RowsHaveNodes'
    BY SeqStep DEF OrderInv
  <1> USE DEF OrderInv, SeqInv
  <1>1. CASE UNCHANGED log
    BY <1>1 DEF RowsHaveNodes, Rows
  <1>2. ASSUME NEW i \in Inst, NEW s \in Session, pc[i][s] = "append",
               log' = [log EXCEPT ![s] = Append(@, NewRow(i, s))]
        PROVE  RowsHaveNodes'
    <2>1. PICK r \in Row : r = NewRow(i, s)
      BY NewRowType
    <2>2. r.at.node = NodeOf[i]
      <3>1. seq[i][s] = NewSeq(i, clock[i][s])
        BY <1>2 DEF PendingIsAbove
      <3>2. r.at = seq[i][s]
        BY <2>1 DEF NewRow
      <3> QED
        BY <3>1, <3>2 DEF NewSeq
    <2>3. log' = [log EXCEPT ![s] = Append(@, r)]
      BY <1>2, <2>1
    <2>4. Rows(s)' = Rows(s) \cup {r} /\ \A t \in Session : t # s => log'[t] = log[t]
      BY <2>3, LogAppend
    <2>5. \A t \in Session : t # s => Rows(t)' = Rows(t)
      BY <2>4 DEF Rows
    <2> QED
      BY <2>2, <2>4, <2>5 DEF RowsHaveNodes
  <1> QED
    BY <1>1, <1>2, LogStep

(* With one instance a row's seq is above those of all rows stored before it,
   so a client that pulls above the newest seq it has misses none. *)
THEOREM OneInstanceStoresInOrder ==
  ASSUME OneInstance
  PROVE  Spec => []RowsStoredInOrder
  <1>1. Init => OrderInv
    <2>1. Init => RowsHaveNodes
      BY DEF Init, RowsHaveNodes, Rows
    <2> QED
      BY <2>1, SeqInit DEF OrderInv
  <1>2. OrderInv => RowsStoredInOrder
    <2> SUFFICES ASSUME OrderInv, NEW s \in Session, NEW k \in 1 .. Len(log[s]),
                        NEW l \in 1 .. Len(log[s]), k < l
                 PROVE  SeqLess(log[s][k].at, log[s][l].at)
      BY DEF RowsStoredInOrder
    <2>1. log[s][k] \in Rows(s) /\ log[s][l] \in Rows(s)
      BY DEF Rows
    <2>2. log[s][k].at.node = log[s][l].at.node
      BY <2>1, OneInstance DEF OrderInv, RowsHaveNodes, OneInstance
    <2> QED
      BY <2>2 DEF OrderInv, SeqInv, NodeSeqsGrow, SeqLess
  <1> QED
    BY <1>1, <1>2, OrderStep, PTL DEF Spec

----------------------------------------------------------------------------

(* A single instance stores a client's message once.                       *)

(* The duplicate check of the delivery is not skipped, now or later. *)
Checked(i, d) == d.n # 1 \/ (sseq[d.msg] <= created /\ Predates(i, d.msg))

Busy(i, s, m) == pc[i][s] # "idle" /\ job[i][s].msg = m

Queued(i, s, m, n) == \E k \in 1 .. n : queue[i][s][k].msg = m

Had(i, s, m) == Stored(m) \/ Busy(i, s, m) \/ Queued(i, s, m, Len(queue[i][s]))

(* The messages that may be stored twice. *)
Excused == Minted \cup misdated

(* What the consumer counts from anew was in the stream when it was created,
   and the instance knows it, or learns it before the next delivery. *)
CountedAnewPredates ==
  \A i \in Inst, s \in Session, m \in Msg \ Excused : Had(i, s, m) /\ nd[m] = 0 =>
    sseq[m] <= created /\ (refetch[i] \/ Predates(i, m))

(* Of two deliveries of a message the later one is checked. *)
SecondIsChecked ==
  \A i \in Inst, s \in Session : \A l \in 1 .. Len(queue[i][s]) :
    LET d == queue[i][s][l] IN
    /\ d.msg \notin Excused
    /\ Stored(d.msg) \/ Busy(i, s, d.msg) \/ Queued(i, s, d.msg, l - 1)
    => Checked(i, d)

(* A message that passed the check, or needed none, is not stored. *)
FreshIsUnstored ==
  \A i \in Inst, s \in Session :
    pc[i][s] \in {"alloc", "append"} /\ job[i][s].msg \notin Excused => ~Stored(job[i][s].msg)

StreamIsCounted ==
  /\ created <= last
  /\ \A m \in Msg : sseq[m] <= last /\ (Stored(m) => sseq[m] > 0)

OnceInv ==
  InboxInv /\ StreamIsCounted /\ CountedAnewPredates /\ SecondIsChecked /\ FreshIsUnstored

LEMMA OnceInit == Init => OnceInv
  <1> SUFFICES ASSUME Init PROVE OnceInv
    OBVIOUS
  <1>1. \A i \in Inst, s \in Session : queue[i][s] = <<>> /\ pc[i][s] = "idle"
    BY DEF Init
  <1>2. \A m \in Msg : ~Stored(m)
    <2>1. \A m \in Msg : log[SessionOf[m]] = <<>>
      BY PipelineAssumption DEF Init
    <2> QED
      BY <2>1 DEF Stored, Rows
  <1>3. StreamIsCounted
    BY <1>2 DEF Init, StreamIsCounted
  <1>4. CountedAnewPredates
    BY <1>1, <1>2 DEF CountedAnewPredates, Had, Busy, Queued
  <1>5. SecondIsChecked
    BY <1>1 DEF SecondIsChecked
  <1>6. FreshIsUnstored
    BY <1>1 DEF FreshIsUnstored
  <1> QED
    BY <1>3, <1>4, <1>5, <1>6, InboxInit DEF OnceInv

(* What the invariant says of the messages a worker holds. *)
LEMMA HeldFacts ==
  ASSUME InboxInv, NEW i \in Inst, NEW s \in Session
  PROVE  /\ queue[i][s] \in Seq(Delivery) /\ Len(queue[i][s]) \in Nat
         /\ job[i][s].msg \in Msg /\ job[i][s] \in Delivery
         /\ pc[i][s] # "idle" => SessionOf[job[i][s].msg] = s /\ sseq[job[i][s].msg] > 0
         /\ \A k \in 1 .. Len(queue[i][s]) :
              /\ queue[i][s][k] \in Delivery /\ queue[i][s][k].msg \in Msg
              /\ SessionOf[queue[i][s][k].msg] = s /\ sseq[queue[i][s][k].msg] > 0
  <1>1. queue[i][s] \in Seq(Delivery) /\ job[i][s].msg \in Msg /\ job[i][s] \in Delivery
    BY TypeAt DEF InboxInv, KeptInv
  <1>2. \A k \in 1 .. Len(queue[i][s]) : queue[i][s][k] \in Delivery
    BY <1>1
  <1>3. \A k \in 1 .. Len(queue[i][s]) : queue[i][s][k].msg \in Msg
    BY <1>2 DEF Delivery
  <1> QED
    BY <1>1, <1>2, <1>3 DEF InboxInv, KeptInv, JobsInSession, WorkIsPublished

LEMMA ExcusedStays ==
  ASSUME [Next]_vars
  PROVE  Excused \subseteq Excused'
  <1> USE DEF streamVars
  <1>1. ASSUME NEW i \in Inst, NEW s \in Session, Worker(i, s) PROVE UNCHANGED misdated
    BY <1>1 DEF Worker, Take, FindDuplicate, FindNone, LookupFails, AllocSeq,
                AppendRow, AppendFails, Acknowledge, Retry, Bury, BuryFails
  <1>2. ASSUME NEW noticed \in SUBSET Inst, RebuildConsumer(noticed)
        PROVE  misdated \subseteq misdated'
    BY <1>2 DEF RebuildConsumer
  <1>3. misdated \subseteq misdated'
    BY <1>1, <1>2 DEF Next, vars, Publish, AckWaitExpires, Crash, FetchFails, Fetch, FlushSummary
  <1> QED
    BY <1>3 DEF Excused

(* What a step that stores, takes or fetches nothing leaves as it was. *)
LEMMA StoredSame ==
  ASSUME UNCHANGED log
  PROVE  \A m : Stored(m)' <=> Stored(m)
  BY DEF Stored, Rows

(* A stored row makes its own message stored, and no other. *)
LEMMA StoredGrows ==
  ASSUME TypeOK, NEW s \in Session, NEW r \in Row, NEW m \in Msg, Stored(m)',
         log' = [log EXCEPT ![s] = Append(@, r)]
  PROVE  Stored(m) \/ m = r.msg
  <1>1. SessionOf[m] \in Session
    BY PipelineAssumption
  <1>2. Rows(s)' = Rows(s) \cup {r} /\ \A t \in Session : t # s => log'[t] = log[t]
    <2>1. log' = [log EXCEPT ![s] = Append(@, r)]
      OBVIOUS
    <2> QED
      BY <2>1, LogAppend
  <1>3. \A t \in Session : t # s => Rows(t)' = Rows(t)
    BY <1>2 DEF Rows
  <1> QED
    BY <1>1, <1>2, <1>3 DEF Stored

(* How the stream's counters and an instance's view of them move. *)
LEMMA StreamStep ==
  ASSUME TypeOK, [Next]_vars
  PROVE  /\ created' \in {created, last} /\ last' \in {last, last + 1}
         /\ \A i \in Inst : seen'[i] \in {seen[i], created, Unknown}
         /\ \A m \in Msg : sseq'[m] = sseq[m] \/ (sseq[m] = 0 /\ sseq'[m] = last')
  <1> USE DEF streamVars, fetchVars, TypeOK
  <1>1. ASSUME NEW m \in Msg, Publish(m)
        PROVE  /\ UNCHANGED <<created, seen>> /\ last' = last + 1
               /\ \A x \in Msg : sseq'[x] = sseq[x] \/ (sseq[x] = 0 /\ sseq'[x] = last')
    BY <1>1 DEF Publish
  <1>2. ASSUME NEW noticed \in SUBSET Inst, RebuildConsumer(noticed)
        PROVE  /\ created' = last /\ UNCHANGED <<last, sseq, seen>>
    BY <1>2 DEF RebuildConsumer
  <1>3. ASSUME NEW i \in Inst, Crash(i)
        PROVE  /\ UNCHANGED <<created, last, sseq>>
               /\ \A j \in Inst : seen'[j] \in {seen[j], created}
    BY <1>3 DEF Crash
  <1>4. ASSUME NEW i \in Inst, NEW m \in Msg, Fetch(i, m)
        PROVE  /\ UNCHANGED <<created, last, sseq>>
               /\ \A j \in Inst : seen'[j] \in {seen[j], created, Unknown}
    BY <1>4 DEF Fetch
  <1>5. ASSUME NEW i \in Inst, NEW s \in Session, Worker(i, s) \/ FlushSummary(i, s)
        PROVE  UNCHANGED <<created, last, sseq, seen>>
    BY <1>5 DEF Worker, Take, FindDuplicate, FindNone, LookupFails, AllocSeq, AppendRow,
                AppendFails, Acknowledge, Retry, Bury, BuryFails, FlushSummary
  <1>6. ASSUME NEW m \in Msg, AckWaitExpires(m) PROVE UNCHANGED <<created, last, sseq, seen>>
    BY <1>6 DEF AckWaitExpires
  <1>8. ASSUME NEW i \in Inst, FetchFails(i) PROVE UNCHANGED <<created, last, sseq, seen>>
    BY <1>8 DEF FetchFails
  <1>7. CASE UNCHANGED vars
    BY <1>7 DEF vars
  <1> QED
    BY <1>1, <1>2, <1>3, <1>4, <1>5, <1>6, <1>7, <1>8 DEF Next

LEMMA CheckedStays ==
  ASSUME OnceInv, [Next]_vars, NEW i \in Inst, NEW d \in Delivery,
         sseq[d.msg] > 0, Checked(i, d)
  PROVE  Checked(i, d)'
  <1>1. TypeOK /\ d.msg \in Msg /\ created <= last
    BY DEF OnceInv, InboxInv, KeptInv, Delivery, StreamIsCounted
  <1>2. /\ sseq'[d.msg] = sseq[d.msg]
        /\ created' \in {created, last}
        /\ seen'[i] \in {seen[i], created, Unknown}
    BY <1>1, StreamStep
  <1>3. /\ created \in Nat /\ last \in Nat /\ sseq[d.msg] \in Nat
        /\ seen[i] \in Nat \cup {Unknown} /\ Unknown = -1
    BY <1>1 DEF TypeOK, Unknown
  <1>4. sseq[d.msg] <= created => sseq[d.msg] <= created'
    BY <1>1, <1>2, <1>3
  <1> HIDE DEF Unknown
  <1> QED
    BY <1>2, <1>3, <1>4 DEF Checked, Predates

(* A step that leaves queues, deliveries in work and rows alone; a fetch may
   fail in it. *)
LEMMA OnceStill ==
  ASSUME OnceInv, [Next]_vars, UNCHANGED <<queue, pc, job, log, created, seen, nd>>,
         \A i \in Inst : refetch[i] => refetch'[i]
  PROVE  CountedAnewPredates' /\ SecondIsChecked' /\ FreshIsUnstored'
  <1>a. InboxInv
    BY DEF OnceInv
  <1>b. (\A m : Stored(m)' <=> Stored(m)) /\ Excused \subseteq Excused'
    BY StoredSame, ExcusedStays
  <1>1. FreshIsUnstored'
    BY <1>b DEF OnceInv, FreshIsUnstored
  <1>2. SecondIsChecked'
    <2> SUFFICES ASSUME NEW i \in Inst, NEW s \in Session, NEW l \in 1 .. Len(queue[i][s]),
                        NEW d, d = queue[i][s][l], d.msg \notin Excused,
                        Stored(d.msg) \/ Busy(i, s, d.msg) \/ Queued(i, s, d.msg, l - 1)
                 PROVE  Checked(i, d)'
      BY <1>b DEF SecondIsChecked, Busy, Queued, Checked, Predates
    <2>1. Checked(i, d)
      BY DEF OnceInv, SecondIsChecked
    <2>2. d \in Delivery /\ sseq[d.msg] > 0
      BY <1>a, HeldFacts
    <2> QED
      BY <2>1, <2>2, CheckedStays
  <1>3. CountedAnewPredates'
    <2> SUFFICES ASSUME NEW i \in Inst, NEW s \in Session, NEW m \in Msg \ Excused,
                        Had(i, s, m), nd[m] = 0
                 PROVE  sseq'[m] <= created /\ (refetch'[i] \/ Predates(i, m)')
      BY <1>b DEF CountedAnewPredates, Had, Busy, Queued, Predates
    <2>1. sseq[m] <= created /\ (refetch[i] \/ Predates(i, m))
      BY DEF OnceInv, CountedAnewPredates
    <2>2. sseq[m] > 0
      BY <1>a, HeldFacts DEF Had, Busy, Queued, OnceInv, StreamIsCounted
    <2>3. sseq'[m] = sseq[m]
      BY <1>a, <2>2, StreamStep DEF InboxInv, KeptInv
    <2> QED
      BY <2>1, <2>3 DEF Predates
  <1> QED
    BY <1>1, <1>2, <1>3

LEMMA OnceRebuild ==
  ASSUME OnceInv, NEW noticed \in SUBSET Inst, RebuildConsumer(noticed)
  PROVE  CountedAnewPredates' /\ SecondIsChecked' /\ FreshIsUnstored'
  <1>a. InboxInv /\ [Next]_vars /\ UNCHANGED <<queue, pc, job, log, seen, sseq>>
    BY DEF OnceInv, RebuildConsumer, Next
  <1>b. (\A m : Stored(m)' <=> Stored(m)) /\ Excused \subseteq Excused'
    BY <1>a, StoredSame, ExcusedStays
  <1>1. FreshIsUnstored'
    BY <1>a, <1>b DEF OnceInv, FreshIsUnstored
  <1>2. SecondIsChecked'
    <2> SUFFICES ASSUME NEW i \in Inst, NEW s \in Session, NEW l \in 1 .. Len(queue[i][s]),
                        NEW d, d = queue[i][s][l], d.msg \notin Excused,
                        Stored(d.msg) \/ Busy(i, s, d.msg) \/ Queued(i, s, d.msg, l - 1)
                 PROVE  Checked(i, d)'
      BY <1>a, <1>b DEF SecondIsChecked, Busy, Queued, Checked, Predates
    <2>1. Checked(i, d)
      BY DEF OnceInv, SecondIsChecked
    <2>2. d \in Delivery /\ sseq[d.msg] > 0
      BY <1>a, HeldFacts
    <2> QED
      BY <1>a, <2>1, <2>2, CheckedStays
  <1>3. CountedAnewPredates'
    <2> SUFFICES ASSUME NEW i \in Inst, NEW s \in Session, NEW m \in Msg,
                        m \notin Excused', Had(i, s, m)
                 PROVE  sseq[m] <= last /\ (refetch'[i] \/ Predates(i, m))
      BY <1>a, <1>b DEF CountedAnewPredates, Had, Busy, Queued, Predates, RebuildConsumer
    <2>1. sseq[m] > 0 /\ sseq[m] <= last
      BY <1>a, HeldFacts DEF Had, Busy, Queued, OnceInv, StreamIsCounted
    <2>2. ~(sseq[m] > 0 /\ \E j \in Inst : ~refetch'[j] /\ ~Predates(j, m))
      BY DEF RebuildConsumer, Excused
    <2> QED
      BY <2>1, <2>2
  <1> QED
    BY <1>1, <1>2, <1>3

LEMMA OnceCrash ==
  ASSUME OneInstance, OnceInv, NEW i \in Inst, Crash(i)
  PROVE  CountedAnewPredates' /\ SecondIsChecked' /\ FreshIsUnstored'
  <1>a. \A j \in Inst : j = i
    BY DEF OneInstance
  <1>b. /\ \A s \in Session : pc'[i][s] = "idle" /\ queue'[i][s] = <<>>
        /\ seen'[i] = created
    BY DEF Crash, OnceInv, InboxInv, KeptInv, TypeOK
  <1>c. UNCHANGED <<log, nd, sseq, created>>
    BY DEF Crash, streamVars
  <1>d. (\A m : Stored(m)' <=> Stored(m)) /\ Excused' = Excused
    BY <1>c, StoredSame DEF Crash, streamVars, Excused
  <1>1. SecondIsChecked'
    BY <1>a, <1>b DEF SecondIsChecked
  <1>2. FreshIsUnstored'
    BY <1>a, <1>b DEF FreshIsUnstored
  <1>3. CountedAnewPredates'
    <2> SUFFICES ASSUME NEW s \in Session, NEW m \in Msg \ Excused, Had(i, s, m)', nd[m] = 0
                 PROVE  sseq[m] <= created
      BY <1>a, <1>b, <1>c, <1>d DEF CountedAnewPredates, Predates
    <2>1. Stored(m)
      BY <1>b, <1>d DEF Had, Busy, Queued
    <2> QED
      BY <2>1 DEF OnceInv, CountedAnewPredates, Had
  <1> QED
    BY <1>1, <1>2, <1>3

LEMMA OnceFetch ==
  ASSUME OneInstance, OnceInv, NEW i \in Inst, NEW m \in Msg, Fetch(i, m)
  PROVE  CountedAnewPredates' /\ SecondIsChecked' /\ FreshIsUnstored'
  <1> DEFINE t == SessionOf[m]
             d == [msg |-> m, n |-> nd[m] + 1]
  <1>a. \A j \in Inst : j = i
    BY DEF OneInstance
  <1>b. InboxInv /\ TypeOK /\ [Next]_vars
    BY DEF OnceInv, InboxInv, KeptInv, Next
  <1>c. /\ UNCHANGED <<pc, job, log, sseq, created>> /\ Excused' = Excused
        /\ \A x : Stored(x)' <=> Stored(x)
    BY StoredSame DEF Fetch, streamVars, Excused
  <1>d. /\ t \in Session /\ d \in Delivery /\ d.msg = m /\ d.n = nd[m] + 1
        /\ nd[m] \in Nat /\ sseq[m] > 0
    <2>1. t \in Session
      BY PipelineAssumption
    <2>2. nd[m] \in Nat /\ nd[m] + 1 \in Nat
      BY <1>b DEF TypeOK
    <2>3. sseq[m] > 0
      BY DEF Fetch, Deliverable
    <2> QED
      BY <2>1, <2>2, <2>3 DEF Delivery
  <1>e. /\ queue' = [queue EXCEPT ![i][t] = Append(@, d)]
        /\ nd' = [nd EXCEPT ![m] = @ + 1]
    BY DEF Fetch
  <1>f. queue'[i][t] = Append(queue[i][t], d) /\ nd'[m] # 0
    BY <1>b, <1>d, <1>e DEF TypeOK
  <1>g. \A s \in Session : s # t => queue'[i][s] = queue[i][s]
    BY <1>b, <1>e DEF TypeOK
  <1>h. \/ UNCHANGED <<seen, refetch>>
        \/ seen'[i] = created
        \/ seen'[i] = Unknown
    BY <1>b DEF Fetch, TypeOK
  <1>i. refetch[i] => refetch'[i] \/ seen'[i] = created
    BY <1>b DEF Fetch, TypeOK
  <1> HIDE DEF t, d
  <1>j. \A s \in Session :
          /\ Len(queue[i][s]) \in Nat
          /\ \A k \in 1 .. Len(queue[i][s]) : k \in 1 .. Len(queue'[i][s]) /\ queue'[i][s][k] = queue[i][s][k]
          /\ s # t => Len(queue'[i][s]) = Len(queue[i][s])
          /\ s = t => /\ Len(queue'[i][s]) = Len(queue[i][s]) + 1
                      /\ queue'[i][s][Len(queue[i][s]) + 1] = d
    <2> SUFFICES ASSUME NEW s \in Session
                 PROVE  /\ Len(queue[i][s]) \in Nat
                        /\ \A k \in 1 .. Len(queue[i][s]) :
                             k \in 1 .. Len(queue'[i][s]) /\ queue'[i][s][k] = queue[i][s][k]
                        /\ s # t => Len(queue'[i][s]) = Len(queue[i][s])
                        /\ s = t => /\ Len(queue'[i][s]) = Len(queue[i][s]) + 1
                                    /\ queue'[i][s][Len(queue[i][s]) + 1] = d
      OBVIOUS
    <2>1. queue[i][s] \in Seq(Delivery) /\ Len(queue[i][s]) \in Nat
      BY <1>b, HeldFacts
    <2>2. CASE s = t
      BY <1>d, <1>f, <2>1, <2>2
    <2>3. CASE s # t
      BY <1>g, <2>1, <2>3
    <2> QED
      BY <2>1, <2>2, <2>3
  <1>1. FreshIsUnstored'
    BY <1>c DEF OnceInv, FreshIsUnstored
  (* Deliveries counted from anew are known to predate the consumer. *)
  <1>2. ASSUME NEW x \in Msg, sseq[x] <= created, refetch[i] \/ Predates(i, x)
        PROVE  refetch'[i] \/ Predates(i, x)'
    BY <1>2, <1>c, <1>h, <1>i DEF Predates
  <1>3. ASSUME NEW x \in Msg, sseq[x] <= created, refetch[i] \/ Predates(i, x)
        PROVE  Predates(i, x)'
    <2>1. seen'[i] # created => seen'[i] = Unknown \/ (~refetch[i] /\ UNCHANGED seen)
      BY <1>b DEF Fetch, TypeOK
    <2> QED
      BY <1>3, <1>c, <2>1 DEF Predates
  <1>4. CountedAnewPredates'
    <2> SUFFICES ASSUME NEW s \in Session, NEW x \in Msg \ Excused, Had(i, s, x)', nd'[x] = 0
                 PROVE  sseq[x] <= created /\ (refetch'[i] \/ Predates(i, x)')
      BY <1>a, <1>c DEF CountedAnewPredates
    <2>1. x # m /\ nd[x] = 0
      BY <1>b, <1>e, <1>f DEF TypeOK
    <2>2. Had(i, s, x)
      <3>1. ASSUME NEW k \in 1 .. Len(queue'[i][s]), queue'[i][s][k].msg = x
            PROVE  k \in 1 .. Len(queue[i][s]) /\ queue[i][s][k].msg = x
        <4>1. k \in 1 .. Len(queue[i][s])
          BY <1>d, <1>j, <2>1, <3>1
        <4> QED
          BY <1>j, <3>1, <4>1
      <3> QED
        BY <1>c, <3>1 DEF Had, Busy, Queued
    <2>3. sseq[x] <= created /\ (refetch[i] \/ Predates(i, x))
      BY <2>1, <2>2 DEF OnceInv, CountedAnewPredates
    <2> QED
      BY <1>2, <2>3
  <1>5. SecondIsChecked'
    <2> SUFFICES ASSUME NEW s \in Session, NEW l \in 1 .. Len(queue'[i][s]),
                        NEW e, e = queue'[i][s][l], e.msg \notin Excused,
                        Stored(e.msg) \/ Busy(i, s, e.msg) \/ Queued(i, s, e.msg, l - 1)'
                 PROVE  Checked(i, e)'
      BY <1>a, <1>c DEF SecondIsChecked, Busy
    <2>1. CASE l <= Len(queue[i][s])
      <3>1. l \in 1 .. Len(queue[i][s]) /\ e = queue[i][s][l]
        BY <1>j, <2>1
      <3>2. Queued(i, s, e.msg, l - 1)' => Queued(i, s, e.msg, l - 1)
        <4>1. \A k \in 1 .. (l - 1) : queue'[i][s][k] = queue[i][s][k]
          BY <1>j, <3>1
        <4> QED
          BY <4>1 DEF Queued
      <3>3. Checked(i, e)
        BY <3>1, <3>2 DEF OnceInv, SecondIsChecked
      <3>4. e \in Delivery /\ sseq[e.msg] > 0
        BY <1>b, <3>1, HeldFacts
      <3> QED
        BY <1>b, <3>3, <3>4, CheckedStays
    <2>2. CASE l > Len(queue[i][s])
      <3>1. s = t /\ l = Len(queue[i][s]) + 1 /\ e = d /\ e.msg = m
        BY <1>d, <1>j, <2>2
      <3>2. Had(i, s, m)
        <4>1. Queued(i, s, m, l - 1)' => Queued(i, s, m, Len(queue[i][s]))
          <5>1. l - 1 = Len(queue[i][s])
            BY <1>j, <3>1
          <5>2. \A k \in 1 .. Len(queue[i][s]) : queue'[i][s][k] = queue[i][s][k]
            BY <1>j
          <5> QED
            BY <5>1, <5>2 DEF Queued
        <4> QED
          BY <3>1, <4>1 DEF Had
      <3>3. CASE nd[m] = 0
        <4>1. sseq[m] <= created /\ (refetch[i] \/ Predates(i, m))
          BY <3>1, <3>2, <3>3 DEF OnceInv, CountedAnewPredates
        <4>2. Predates(i, m)'
          BY <1>3, <4>1
        <4> QED
          BY <1>c, <3>1, <4>1, <4>2 DEF Checked
      <3>4. CASE nd[m] # 0
        BY <1>d, <3>1, <3>4 DEF Checked
      <3> QED
        BY <3>3, <3>4
    <2> QED
      BY <1>j, <2>1, <2>2
  <1> QED
    BY <1>1, <1>4, <1>5

LEMMA OnceTake ==
  ASSUME OneInstance, OnceInv, NEW i \in Inst, NEW t \in Session, Take(i, t)
  PROVE  CountedAnewPredates' /\ SecondIsChecked' /\ FreshIsUnstored'
  <1> DEFINE d == queue[i][t][1]
  <1>a. \A j \in Inst : j = i
    BY DEF OneInstance
  <1>b. InboxInv /\ TypeOK /\ [Next]_vars
    BY DEF OnceInv, InboxInv, KeptInv, Next, Worker
  <1>c. /\ UNCHANGED <<log, sseq, created, seen, refetch, nd>> /\ Excused' = Excused
        /\ \A x : Stored(x)' <=> Stored(x)
    BY StoredSame DEF Take, streamVars, Excused
  <1>d. /\ pc[i][t] = "idle" /\ queue[i][t] # <<>> /\ queue[i][t] \in Seq(Delivery)
        /\ 1 \in 1 .. Len(queue[i][t])
    BY <1>b, HeldFacts DEF Take, At
  <1>e. /\ job'[i][t] = d /\ queue'[i][t] = Tail(queue[i][t])
        /\ pc'[i][t] = IF NeedsCheck(i, d) THEN "check" ELSE "alloc"
    BY <1>b, <1>d DEF Take, Goto, TypeOK
  <1>f. \A s \in Session : s # t =>
          queue'[i][s] = queue[i][s] /\ pc'[i][s] = pc[i][s] /\ job'[i][s] = job[i][s]
    BY <1>b DEF Take, Goto, TypeOK
  <1>g. /\ Len(queue[i][t]) \in Nat /\ Len(queue'[i][t]) = Len(queue[i][t]) - 1
        /\ \A k \in 1 .. Len(queue'[i][t]) :
             k + 1 \in 1 .. Len(queue[i][t]) /\ queue'[i][t][k] = queue[i][t][k + 1]
    BY <1>d, <1>e
  <1> HIDE DEF d
  <1>1. FreshIsUnstored'
    <2> SUFFICES ASSUME NEW s \in Session, pc'[i][s] \in {"alloc", "append"},
                        job'[i][s].msg \notin Excused, Stored(job'[i][s].msg)
                 PROVE  FALSE
      BY <1>a, <1>c DEF FreshIsUnstored
    <2>1. CASE s # t
      BY <1>f, <2>1 DEF OnceInv, FreshIsUnstored
    <2>2. CASE s = t
      <3>1. ~NeedsCheck(i, d) /\ d.msg \notin Excused /\ Stored(d.msg)
        BY <1>e, <2>2
      <3>2. Checked(i, d)
        BY <1>d, <3>1 DEF OnceInv, SecondIsChecked, d
      <3> QED
        BY <3>1, <3>2 DEF Checked, NeedsCheck, Excused
    <2> QED
      BY <2>1, <2>2
  (* The delivery taken was in the queue, the others are in it still. *)
  <1>2. ASSUME NEW s \in Session, NEW x, Had(i, s, x)'
        PROVE  Had(i, s, x)
    <2>1. CASE s # t
      BY <1>2, <1>c, <1>f, <2>1 DEF Had, Busy, Queued
    <2>2. CASE s = t
      <3>1. Busy(i, t, x)' => Queued(i, t, x, Len(queue[i][t]))
        BY <1>d, <1>e DEF Busy, Queued, d
      <3>2. Queued(i, t, x, Len(queue[i][t]))' => Queued(i, t, x, Len(queue[i][t]))
        BY <1>g DEF Queued
      <3> QED
        BY <1>2, <1>c, <2>2, <3>1, <3>2 DEF Had
    <2> QED
      BY <2>1, <2>2
  <1>3. CountedAnewPredates'
    BY <1>2, <1>a, <1>c DEF OnceInv, CountedAnewPredates, Predates
  <1>4. SecondIsChecked'
    <2> SUFFICES ASSUME NEW s \in Session, NEW l \in 1 .. Len(queue'[i][s]),
                        NEW e, e = queue'[i][s][l], e.msg \notin Excused,
                        Stored(e.msg) \/ Busy(i, s, e.msg)' \/ Queued(i, s, e.msg, l - 1)'
                 PROVE  Checked(i, e)
      BY <1>a, <1>c DEF SecondIsChecked, Checked, Predates
    <2>1. CASE s # t
      BY <1>f, <2>1 DEF OnceInv, SecondIsChecked, Busy, Queued
    <2>2. CASE s = t
      <3>1. l + 1 \in 1 .. Len(queue[i][t]) /\ e = queue[i][t][l + 1]
        BY <1>g, <2>2
      <3>2. Busy(i, t, e.msg)' => Queued(i, t, e.msg, l)
        BY <1>d, <1>e DEF Busy, Queued, d
      <3>3. Queued(i, t, e.msg, l - 1)' => Queued(i, t, e.msg, l)
        <4>1. ASSUME NEW k \in 1 .. (l - 1), queue'[i][t][k].msg = e.msg
              PROVE  k + 1 \in 1 .. l /\ queue[i][t][k + 1].msg = e.msg
          <5>1. k \in 1 .. Len(queue'[i][t]) /\ k + 1 \in 1 .. l
            BY <1>g, <2>2
          <5> QED
            BY <1>g, <4>1, <5>1
        <4> QED
          BY <4>1 DEF Queued
      <3>4. Stored(e.msg) \/ Queued(i, t, e.msg, l)
        BY <2>2, <3>2, <3>3
      <3>5. (l + 1) - 1 = l
        BY <1>g, <2>2
      <3> QED
        BY <3>1, <3>4, <3>5 DEF OnceInv, SecondIsChecked
    <2> QED
      BY <2>1, <2>2
  <1> QED
    BY <1>1, <1>3, <1>4

(* A worker that goes on with its delivery, or leaves it: if it has stored a
   row it is past its append. *)
LEMMA OnceWork ==
  ASSUME OneInstance, OnceInv, [Next]_vars, NEW i \in Inst, NEW t \in Session,
         UNCHANGED <<queue, sseq, created, seen, refetch, nd, misdated>>,
         \A s \in Session : s # t => pc'[i][s] = pc[i][s] /\ job'[i][s] = job[i][s],
         pc'[i][t] = "idle" \/ (pc[i][t] # "idle" /\ job'[i][t] = job[i][t]),
         \A m \in Msg : Stored(m)' => Stored(m) \/ Busy(i, t, m),
         \A m \in Msg \ Excused : pc'[i][t] \in {"alloc", "append"} /\ job'[i][t].msg = m =>
           ~Stored(m)'
  PROVE  CountedAnewPredates' /\ SecondIsChecked' /\ FreshIsUnstored'
  <1>a. \A j \in Inst : j = i
    BY DEF OneInstance
  <1>b. InboxInv /\ Excused' = Excused
    BY DEF OnceInv, Excused
  <1>c. ASSUME NEW s \in Session, NEW m \in Msg, Busy(i, s, m)' PROVE Busy(i, s, m)
    BY <1>c DEF Busy
  <1>d. ASSUME NEW m \in Msg, Busy(i, t, m) PROVE SessionOf[m] = t
    BY <1>b, <1>d, HeldFacts DEF Busy
  <1>1. FreshIsUnstored'
    <2> SUFFICES ASSUME NEW s \in Session, pc'[i][s] \in {"alloc", "append"},
                        NEW m, m = job'[i][s].msg, m \notin Excused
                 PROVE  ~Stored(m)'
      BY <1>a, <1>b DEF FreshIsUnstored
    <2>1. CASE s = t
      <3>1. m \in Msg
        BY <1>b, <2>1, HeldFacts
      <3> QED
        BY <2>1, <3>1
    <2>2. CASE s # t
      <3>1. /\ pc[i][s] \in {"alloc", "append"} /\ m = job[i][s].msg
            /\ m \in Msg /\ SessionOf[m] = s
        BY <1>b, <2>2, HeldFacts
      <3>2. ~Stored(m)
        BY <3>1 DEF OnceInv, FreshIsUnstored
      <3>3. ~Busy(i, t, m)
        BY <1>d, <2>2, <3>1
      <3> QED
        BY <3>1, <3>2, <3>3
    <2> QED
      BY <2>1, <2>2
  <1>2. CountedAnewPredates'
    <2> SUFFICES ASSUME NEW s \in Session, NEW m \in Msg \ Excused, Had(i, s, m)', nd[m] = 0
                 PROVE  sseq[m] <= created /\ (refetch[i] \/ Predates(i, m))
      BY <1>a, <1>b DEF CountedAnewPredates, Predates
    <2>1. Had(i, s, m) \/ Had(i, t, m)
      BY <1>c DEF Had, Queued
    <2> QED
      BY <2>1 DEF OnceInv, CountedAnewPredates
  <1>3. SecondIsChecked'
    <2> SUFFICES ASSUME NEW s \in Session, NEW l \in 1 .. Len(queue[i][s]),
                        NEW e, e = queue[i][s][l], e.msg \notin Excused,
                        Stored(e.msg)' \/ Busy(i, s, e.msg)' \/ Queued(i, s, e.msg, l - 1)
                 PROVE  Checked(i, e)
      BY <1>a, <1>b DEF SecondIsChecked, Checked, Predates, Queued
    <2>1. e.msg \in Msg /\ SessionOf[e.msg] = s
      BY <1>b, HeldFacts
    <2>2. Stored(e.msg)' => Stored(e.msg) \/ Busy(i, s, e.msg)
      BY <1>d, <2>1
    <2>3. Stored(e.msg) \/ Busy(i, s, e.msg) \/ Queued(i, s, e.msg, l - 1)
      BY <1>c, <2>1, <2>2
    <2> QED
      BY <2>3 DEF OnceInv, SecondIsChecked
  <1> QED
    BY <1>1, <1>2, <1>3

LEMMA OnceStep ==
  ASSUME OneInstance
  PROVE  OnceInv /\ [Next]_vars => OnceInv'
  <1> SUFFICES ASSUME OnceInv, [Next]_vars PROVE OnceInv'
    OBVIOUS
  <1> USE DEF streamVars, fetchVars
  <1>a. InboxInv /\ TypeOK
    BY DEF OnceInv, InboxInv, KeptInv
  <1>1. StreamIsCounted'
    <2>1. created' <= last' /\ \A m \in Msg : sseq'[m] <= last'
      <3>1. /\ created' \in {created, last} /\ last' \in {last, last + 1}
            /\ \A m \in Msg : sseq'[m] = sseq[m] \/ (sseq[m] = 0 /\ sseq'[m] = last')
        BY <1>a, StreamStep
      <3>2. created \in Nat /\ last \in Nat /\ \A m \in Msg : sseq[m] \in Nat
        BY <1>a DEF TypeOK
      <3>3. created <= last /\ \A m \in Msg : sseq[m] <= last
        BY DEF OnceInv, StreamIsCounted
      <3>4. last <= last' /\ last' \in Nat
        BY <3>1, <3>2
      <3>5. created' <= last'
        BY <3>1, <3>2, <3>3, <3>4
      <3>6. ASSUME NEW m \in Msg PROVE sseq'[m] <= last'
        BY <3>1, <3>2, <3>3, <3>4
      <3> QED
        BY <3>5, <3>6
    <2>2. ASSUME NEW m \in Msg, Stored(m)' PROVE sseq'[m] > 0
      <3>1. CASE UNCHANGED log
        <4>1. sseq[m] > 0
          BY <2>2, <3>1, StoredSame DEF OnceInv, StreamIsCounted
        <4> QED
          BY <1>a, <4>1, PublishedStays
      <3>2. ASSUME NEW i \in Inst, NEW s \in Session, pc[i][s] = "append",
                   log' = [log EXCEPT ![s] = Append(@, NewRow(i, s))]
            PROVE  sseq'[m] > 0
        <4>1. PICK r \in Row : r = NewRow(i, s) /\ r.msg = job[i][s].msg
          BY <1>a, NewRowType DEF NewRow
        <4>2. log' = [log EXCEPT ![s] = Append(@, r)]
          BY <3>2, <4>1
        <4>3. Stored(m) \/ m = job[i][s].msg
          BY <1>a, <2>2, <4>1, <4>2, StoredGrows
        <4>4. sseq[m] > 0
          BY <1>a, <3>2, <4>3, HeldFacts DEF OnceInv, StreamIsCounted
        <4> QED
          BY <1>a, <4>4, PublishedStays
      <3> QED
        BY <1>a, <3>1, <3>2, LogStep
    <2> QED
      BY <2>1, <2>2 DEF StreamIsCounted
  <1>b. InboxInv'
    BY <1>a, InboxStep
  <1> SUFFICES CountedAnewPredates' /\ SecondIsChecked' /\ FreshIsUnstored'
    BY <1>1, <1>b DEF OnceInv
  <1>2. ASSUME UNCHANGED <<queue, pc, job, log, created, seen, nd>>,
               \A i \in Inst : refetch[i] => refetch'[i]
        PROVE  CountedAnewPredates' /\ SecondIsChecked' /\ FreshIsUnstored'
    BY <1>2, OnceStill
  <1>3. ASSUME NEW i \in Inst, NEW t \in Session, Worker(i, t), ~Take(i, t)
        PROVE  CountedAnewPredates' /\ SecondIsChecked' /\ FreshIsUnstored'
    <2>a. UNCHANGED <<queue, sseq, created, seen, refetch, nd, misdated>>
      BY <1>3 DEF Worker, FindDuplicate, FindNone, LookupFails, AllocSeq, AppendRow,
                  AppendFails, Acknowledge, Retry, Bury, BuryFails
    <2>b. /\ pc[i][t] # "idle"
          /\ Leave(i, t) \/ (UNCHANGED job /\ \E label : Goto(i, t, label))
      BY <1>3 DEF Worker, FindDuplicate, FindNone, LookupFails, AllocSeq, AppendRow,
                  AppendFails, Acknowledge, Retry, Bury, BuryFails, Dead, At
    <2>c. /\ \A s \in Session : s # t => pc'[i][s] = pc[i][s] /\ job'[i][s] = job[i][s]
          /\ pc'[i][t] = "idle" \/ job'[i][t] = job[i][t]
      BY <1>a, <2>b DEF Leave, Goto, TypeOK
    <2>d. \A m \in Msg : Stored(m)' => Stored(m) \/ Busy(i, t, m)
      <3>1. CASE AppendRow(i, t) \/ AppendFails(i, t)
        <4>1. PICK r \in Row : r = NewRow(i, t) /\ r.msg = job[i][t].msg
          BY <1>a, NewRowType DEF NewRow
        <4>2. UNCHANGED log \/ log' = [log EXCEPT ![t] = Append(@, r)]
          BY <3>1, <4>1 DEF AppendRow, AppendFails
        <4> QED
          BY <1>a, <2>b, <4>1, <4>2, StoredGrows, StoredSame DEF Busy
      <3>2. CASE ~AppendRow(i, t) /\ ~AppendFails(i, t)
        <4>1. UNCHANGED log
          BY <1>3, <3>2 DEF Worker, FindDuplicate, FindNone, LookupFails, AllocSeq,
                            Acknowledge, Retry, Bury, BuryFails
        <4> QED
          BY <4>1, StoredSame
      <3> QED
        BY <3>1, <3>2
    <2>e. ASSUME NEW m \in Msg \ Excused, pc'[i][t] \in {"alloc", "append"}, job'[i][t].msg = m
          PROVE  ~Stored(m)'
      <3>1. FindNone(i, t) \/ AllocSeq(i, t)
        <4>1. ASSUME NEW label, Goto(i, t, label) PROVE pc'[i][t] = label
          BY <1>a, <4>1 DEF Goto, TypeOK
        <4>2. CASE \/ FindDuplicate(i, t) \/ LookupFails(i, t) \/ AppendRow(i, t)
                   \/ AppendFails(i, t) \/ Bury(i, t)
          <5>1. Goto(i, t, "ok") \/ Goto(i, t, "failed")
            BY <4>2 DEF FindDuplicate, LookupFails, AppendRow, AppendFails, Bury
          <5> QED
            BY <2>e, <4>1, <5>1
        <4>3. CASE Acknowledge(i, t) \/ Retry(i, t) \/ BuryFails(i, t)
          <5>1. Goto(i, t, "idle")
            BY <4>3 DEF Acknowledge, Retry, BuryFails, Leave
          <5> QED
            BY <2>e, <4>1, <5>1
        <4> QED
          BY <1>3, <4>2, <4>3 DEF Worker
      <3>2. UNCHANGED <<log, job>>
        BY <3>1 DEF FindNone, AllocSeq
      <3>3. ~Stored(m)
        BY <2>e, <3>1, <3>2 DEF FindNone, AllocSeq, At, OnceInv, FreshIsUnstored
      <3> QED
        BY <3>2, <3>3, StoredSame
    <2> QED
      BY <2>a, <2>b, <2>c, <2>d, <2>e, OnceWork
  <1>4. CASE UNCHANGED vars
    BY <1>2, <1>4 DEF vars
  <1>5. ASSUME NEW m \in Msg, Publish(m) \/ AckWaitExpires(m)
        PROVE  CountedAnewPredates' /\ SecondIsChecked' /\ FreshIsUnstored'
    BY <1>2, <1>5 DEF Publish, AckWaitExpires
  <1>6. ASSUME NEW i \in Inst, NEW s \in Session, FlushSummary(i, s)
        PROVE  CountedAnewPredates' /\ SecondIsChecked' /\ FreshIsUnstored'
    BY <1>2, <1>6 DEF FlushSummary
  <1>7. ASSUME NEW noticed \in SUBSET Inst, RebuildConsumer(noticed)
        PROVE  CountedAnewPredates' /\ SecondIsChecked' /\ FreshIsUnstored'
    BY <1>7, OnceRebuild
  <1>10. ASSUME NEW i \in Inst, FetchFails(i)
         PROVE  CountedAnewPredates' /\ SecondIsChecked' /\ FreshIsUnstored'
    <2>1. \A j \in Inst : refetch[j] => refetch'[j]
      BY <1>10, <1>a DEF FetchFails, TypeOK
    <2> QED
      BY <1>2, <1>10, <2>1 DEF FetchFails
  <1>8. ASSUME NEW i \in Inst, Crash(i) \/ \E m \in Msg : Fetch(i, m)
        PROVE  CountedAnewPredates' /\ SecondIsChecked' /\ FreshIsUnstored'
    BY <1>8, OnceCrash, OnceFetch
  <1>9. ASSUME NEW i \in Inst, NEW t \in Session, Take(i, t)
        PROVE  CountedAnewPredates' /\ SecondIsChecked' /\ FreshIsUnstored'
    BY <1>9, OnceTake
  <1> QED
    BY <1>3, <1>4, <1>5, <1>6, <1>7, <1>8, <1>9, <1>10 DEF Next

(* A step that adds a copy of a client's message adds the first one. *)
LEMMA OnceImplements ==
  ASSUME OnceInv, [Next]_vars
  PROVE  [ExactlyOnce!Next]_(ExactlyOnce!inboxVars)
  <1> DEFINE copies == [m \in Msg |-> Copies(m)]
  <1>a. InboxInv /\ TypeOK
    BY DEF OnceInv, InboxInv, KeptInv
  <1>1. [AtLeastOnce!Next]_(AtLeastOnce!inboxVars)
    BY <1>a, InboxImplements
  <1>2. ASSUME NEW m \in Msg \ Excused, Copies(m)' # Copies(m) PROVE Copies(m) = 0
    <2>1. ~UNCHANGED log
      BY <1>2 DEF Copies
    <2>2. PICK i \in Inst, s \in Session :
            pc[i][s] = "append" /\ log' = [log EXCEPT ![s] = Append(@, NewRow(i, s))]
      BY <1>a, <2>1, LogStep
    <2>3. PICK r \in Row : r = NewRow(i, s) /\ r.msg = job[i][s].msg
      BY <1>a, NewRowType DEF NewRow
    <2>4. log' = [log EXCEPT ![s] = Append(@, r)] /\ SessionOf[r.msg] = s
      BY <1>a, <2>2, <2>3, HeldFacts
    <2>5. m = r.msg
      BY <1>a, <1>2, <2>4, CopiesGrow
    <2>6. ~Stored(m)
      BY <2>2, <2>3, <2>5 DEF OnceInv, FreshIsUnstored
    <2>7. Places(m) = {}
      BY <2>6 DEF Stored, Rows, Places
    <2> QED
      BY <2>7, FS_EmptySet DEF Copies, Places
  <1>3. ASSUME NEW m \in Msg, AtLeastOnce!Store(m) PROVE ExactlyOnce!Store(m)
    <2>1. copies' = [copies EXCEPT ![m] = @ + 1]
      BY <1>3 DEF AtLeastOnce!Store
    <2>2. Copies(m)' = Copies(m) + 1 /\ Copies(m) \in Nat
      BY <1>a, <2>1, CopiesOfStored
    <2>3. m \in (Msg \ Minted) \ misdated => copies[m] = 0
      BY <1>2, <2>2 DEF Excused
    <2> QED
      BY <1>3, <2>3 DEF AtLeastOnce!Store, ExactlyOnce!Store
  <1>4. ASSUME NEW m \in Msg, AtLeastOnce!Publish(m) \/ AtLeastOnce!Bury(m) \/ AtLeastOnce!Settle(m)
        PROVE  ExactlyOnce!Publish(m) \/ ExactlyOnce!Bury(m) \/ ExactlyOnce!Settle(m)
    BY <1>4 DEF AtLeastOnce!Publish, AtLeastOnce!Bury, AtLeastOnce!Settle,
                ExactlyOnce!Publish, ExactlyOnce!Bury, ExactlyOnce!Settle
  <1>5. AtLeastOnce!Reopen => ExactlyOnce!Reopen
    BY DEF AtLeastOnce!Reopen, ExactlyOnce!Reopen
  <1> QED
    BY <1>1, <1>3, <1>4, <1>5
    DEF AtLeastOnce!Next, ExactlyOnce!Next, AtLeastOnce!inboxVars, ExactlyOnce!inboxVars

(* With one instance a client's message is stored exactly once, through every
   redelivery: after a crash, a lost acknowledgement, an append that took effect
   but was reported as failed, and a consumer that counts deliveries from anew -
   unless the instance, whose fetch loop did not notice that consumer, takes the
   message for a younger one. *)
THEOREM OneInstanceStoresOnce ==
  ASSUME OneInstance
  PROVE  Spec => ImplementsExactlyOnce
  <1>1. Init => ExactlyOnce!Init
    BY InboxInitImplements DEF AtLeastOnce!Init, ExactlyOnce!Init
  <1> QED
    BY <1>1, OnceInit, OnceStep, OnceImplements, PTL
    DEF Spec, ImplementsExactlyOnce, ExactlyOnce!Spec
=============================================================================
