------------------------- MODULE SessionSummary_proofs -------------------------
(* Theorems about SessionSummary, for any number of instances and messages, *)
(* any capacity of the channel and any number of failures and crashes, and  *)
(* about MCDelivery, which composes it with Connections.                    *)
EXTENDS MCDelivery, Connections_proofs, TLAPS

--------------------------------------------------------------------------------

(* Type correctness.                                                        *)

(* A worker that is busy has a message, and it is waiting for the flush it   *)
(* runs itself.                                                             *)
BusyHasMessage ==
    \A i \in Syncer :
        /\ worker[i].pc # "idle" => worker[i].msg \in Message
        /\ flush[i]["push"].pc # "idle" => worker[i].pc = "flush"

SumTypeInv == SumTypeOK /\ BusyHasMessage

WorkerState == [pc : {"idle", "read", "insert", "store", "push", "flush"},
                msg : 0..MaxMsg, top : 0..MaxMsg]
FlushState  == [pc : {"idle", "mysql", "redis"}, msg : 0..MaxMsg, wrote : BOOLEAN]

(* What the invariant says of one instance. *)
LEMMA SumTypeAt ==
    ASSUME SumTypeInv, NEW i \in Syncer
    PROVE  /\ worker[i] \in WorkerState /\ guard[i] \in BOOLEAN
           /\ worker[i].msg \in 0..MaxMsg /\ worker[i].top \in 0..MaxMsg
           /\ channel[i] \in Seq(Message) /\ Len(channel[i]) \in Nat
           /\ \A k \in 1..Len(channel[i]) : channel[i][k] \in Message
           /\ \A c \in Caller : flush[i][c] \in FlushState /\ flush[i][c].msg \in 0..MaxMsg
           /\ MaxMsg \in Nat
    BY SessionSummaryAssumption DEF SumTypeInv, SumTypeOK, WorkerState, FlushState

LEMMA LargerType ==
    ASSUME NEW a \in Nat, NEW b \in Nat
    PROVE  /\ Larger(a, b) \in {a, b}
           /\ Larger(a, b) >= a /\ Larger(a, b) >= b
    BY DEF Larger

(* A flush merges one message into the row. *)
LEMMA MergeFacts ==
    ASSUME NEW old \in Summary, NEW m \in 0..MaxMsg
    PROVE  /\ Merge(old, m) \in Summary
           /\ Merge(old, m).seq = Larger(old.seq, m)
           /\ old.content = old.seq => Merge(old, m).content = Merge(old, m).seq
    BY SessionSummaryAssumption DEF Merge, Summary, Larger

LEMMA SnapshotFacts ==
    ASSUME snapshot \in Summary, NEW m \in 0..MaxMsg
    PROVE  /\ NewSnapshot(m) \in Summary
           /\ NewSnapshot(m).seq = Larger(snapshot.seq, m)
           /\ snapshot.content = snapshot.seq => NewSnapshot(m).content = NewSnapshot(m).seq
    BY SessionSummaryAssumption DEF NewSnapshot, SummaryOf, Summary, Larger

LEMMA SumTypeInit == SumInit => SumTypeInv
    <1> SUFFICES ASSUME SumInit PROVE SumTypeInv
        OBVIOUS
    <1>1. 0 \in 0..MaxMsg /\ 0 \in 0..SumFaults /\ 0 \in 0..SumCrashes
        BY SessionSummaryAssumption
    <1>2. SumTypeOK
        BY <1>1 DEF SumInit, SumTypeOK, NoSummary, SummaryOf, Summary, NotWorking, NotFlushing
    <1>3. BusyHasMessage
        BY DEF SumInit, BusyHasMessage, NotWorking, NotFlushing, Caller
    <1> QED
        BY <1>2, <1>3 DEF SumTypeInv

(* One instance's entry of a table. *)
LEMMA WorkerUpdate ==
    ASSUME NEW i \in Syncer, NEW w \in WorkerState, worker \in [Syncer -> WorkerState]
    PROVE  /\ [worker EXCEPT ![i] = w] \in [Syncer -> WorkerState]
           /\ \A j \in Syncer : [worker EXCEPT ![i] = w][j] = IF j = i THEN w ELSE worker[j]
    OBVIOUS

(* What each step of a worker makes of its state. *)
LEMMA ProceedFacts ==
    ASSUME SumTypeInv, NEW i \in Syncer,
           NEW pc \in {"idle", "read", "insert", "store", "push", "flush"}, Proceed(i, pc)
    PROVE  /\ worker' \in [Syncer -> WorkerState]
           /\ worker'[i].pc = pc /\ worker'[i].msg = worker[i].msg /\ worker'[i].top = worker[i].top
           /\ \A j \in Syncer : j # i => worker'[j] = worker[j]
    BY SumTypeAt DEF Proceed, WorkerState, SumTypeInv, SumTypeOK

LEMMA FinishFacts ==
    ASSUME SumTypeInv, NEW i \in Syncer, Finish(i), worker[i].pc # "idle"
    PROVE  /\ worker' \in [Syncer -> WorkerState]
           /\ worker'[i] = NotWorking
           /\ \A j \in Syncer : j # i => worker'[j] = worker[j]
           /\ handled' = handled \cup {worker[i].msg} /\ worker[i].msg \in Message
    <1>1. NotWorking \in WorkerState
        BY SessionSummaryAssumption DEF NotWorking, WorkerState
    <1>2. worker \in [Syncer -> WorkerState]
        BY DEF SumTypeInv, SumTypeOK, WorkerState
    <1> QED
        BY <1>1, <1>2, WorkerUpdate DEF Finish, SumTypeInv, BusyHasMessage

(* What each step of a flush makes of its state. *)
LEMMA FlushTyped == SumTypeInv => flush \in [Syncer -> [Caller -> FlushState]]
    BY DEF SumTypeInv, SumTypeOK, FlushState

LEMMA StartFlushFacts ==
    ASSUME SumTypeInv, NEW i \in Syncer, NEW c \in Caller, NEW m \in Message, StartFlush(i, c, m)
    PROVE  /\ flush' \in [Syncer -> [Caller -> FlushState]]
           /\ flush'[i][c].pc = "mysql" /\ flush'[i][c].msg = m /\ ~flush'[i][c].wrote
           /\ \A j \in Syncer, e \in Caller : j # i \/ e # c => flush'[j][e] = flush[j][e]
    <1> DEFINE f == [pc |-> "mysql", msg |-> m, wrote |-> FALSE]
    <1>1. f \in FlushState
        BY SessionSummaryAssumption DEF FlushState, Message
    <1>2. f.pc = "mysql" /\ f.msg = m /\ ~f.wrote
        OBVIOUS
    <1>3. flush' = [flush EXCEPT ![i][c] = f]
        BY DEF StartFlush
    <1> HIDE DEF f
    <1>4. /\ flush' \in [Syncer -> [Caller -> FlushState]]
          /\ flush'[i][c] = f
          /\ \A j \in Syncer, e \in Caller : j # i \/ e # c => flush'[j][e] = flush[j][e]
        BY <1>1, <1>3, FlushTyped
    <1> QED
        BY <1>2, <1>4

LEMMA UpsertFacts ==
    ASSUME SumTypeInv, NEW i \in Syncer, NEW c \in Caller, Upsert(i, c)
    PROVE  /\ flush' \in [Syncer -> [Caller -> FlushState]]
           /\ flush'[i][c].pc = "redis" /\ flush'[i][c].msg = flush[i][c].msg
           /\ flush'[i][c].wrote
           /\ \A j \in Syncer, e \in Caller : j # i \/ e # c => flush'[j][e] = flush[j][e]
    <1> DEFINE f == [flush[i][c] EXCEPT !.pc = "redis", !.wrote = TRUE]
    <1>1. flush[i][c] \in FlushState
        BY SumTypeAt
    <1>2. f \in FlushState
        BY <1>1, Zenon DEF FlushState
    <1>3. f.pc = "redis" /\ f.msg = flush[i][c].msg /\ f.wrote
        BY <1>1 DEF FlushState
    <1>4. flush' = [flush EXCEPT ![i][c] = f]
        BY DEF Upsert, SumTypeInv, SumTypeOK
    <1> HIDE DEF f
    <1>5. /\ flush' \in [Syncer -> [Caller -> FlushState]]
          /\ flush'[i][c] = f
          /\ \A j \in Syncer, e \in Caller : j # i \/ e # c => flush'[j][e] = flush[j][e]
        BY <1>2, <1>4, FlushTyped
    <1> QED
        BY <1>3, <1>5

LEMMA UpsertFailsFacts ==
    ASSUME SumTypeInv, NEW i \in Syncer, NEW c \in Caller, UpsertFails(i, c)
    PROVE  /\ flush' \in [Syncer -> [Caller -> FlushState]]
           /\ flush'[i][c].pc = "redis" /\ flush'[i][c].msg = flush[i][c].msg
           /\ flush'[i][c].wrote = flush[i][c].wrote
           /\ \A j \in Syncer, e \in Caller : j # i \/ e # c => flush'[j][e] = flush[j][e]
    <1> DEFINE f == [flush[i][c] EXCEPT !.pc = "redis"]
    <1>1. flush[i][c] \in FlushState
        BY SumTypeAt
    <1>2. f \in FlushState
        BY <1>1 DEF FlushState
    <1>3. f.pc = "redis" /\ f.msg = flush[i][c].msg /\ f.wrote = flush[i][c].wrote
        BY <1>1 DEF FlushState
    <1>4. flush' = [flush EXCEPT ![i][c] = f]
        BY DEF UpsertFails, SumTypeInv, SumTypeOK
    <1> HIDE DEF f
    <1>5. /\ flush' \in [Syncer -> [Caller -> FlushState]]
          /\ flush'[i][c] = f
          /\ \A j \in Syncer, e \in Caller : j # i \/ e # c => flush'[j][e] = flush[j][e]
        BY <1>2, <1>4, FlushTyped
    <1> QED
        BY <1>3, <1>5

LEMMA FinishFlushFacts ==
    ASSUME SumTypeInv, NEW i \in Syncer, NEW c \in Caller, FinishFlush(i, c),
           flush[i][c].pc # "idle"
    PROVE  /\ flush' \in [Syncer -> [Caller -> FlushState]]
           /\ flush'[i][c].pc = "idle"
           /\ \A j \in Syncer, e \in Caller : j # i \/ e # c => flush'[j][e] = flush[j][e]
           /\ worker' \in [Syncer -> WorkerState]
           /\ \A j \in Syncer : worker'[j] = worker[j] \/ (j = i /\ c = "push" /\ worker'[j] = NotWorking)
           /\ handled' \subseteq handled \cup {worker[i].msg}
           /\ handled \subseteq handled' /\ (c = "run" => UNCHANGED <<worker, handled>>)
           /\ c = "push" => worker[i].msg \in Message
    <1> DEFINE f == NotFlushing
    <1>1. f \in FlushState
        BY SessionSummaryAssumption DEF NotFlushing, FlushState
    <1>2. f.pc = "idle"
        BY DEF NotFlushing
    <1>a. flush' = [flush EXCEPT ![i][c] = f]
        BY DEF FinishFlush
    <1> HIDE DEF f
    <1>5. /\ flush' \in [Syncer -> [Caller -> FlushState]]
          /\ flush'[i][c] = f
          /\ \A j \in Syncer, e \in Caller : j # i \/ e # c => flush'[j][e] = flush[j][e]
        BY <1>1, <1>a, FlushTyped
    <1>b. /\ flush' \in [Syncer -> [Caller -> FlushState]]
          /\ flush'[i][c].pc = "idle"
          /\ \A j \in Syncer, e \in Caller : j # i \/ e # c => flush'[j][e] = flush[j][e]
        BY <1>2, <1>5
    <1>3. CASE c = "push"
        <2>1. worker[i].pc # "idle" /\ worker[i].msg \in Message
            BY <1>3 DEF SumTypeInv, BusyHasMessage
        <2>2. Finish(i)
            BY <1>3 DEF FinishFlush
        <2> QED
            BY <1>b, <1>3, <2>1, <2>2, FinishFacts
    <1>4. CASE c = "run"
        <2>1. UNCHANGED <<worker, handled>>
            BY <1>4 DEF FinishFlush
        <2>2. worker \in [Syncer -> WorkerState]
            BY DEF SumTypeInv, SumTypeOK, WorkerState
        <2> QED
            BY <1>b, <1>4, <2>1, <2>2
    <1> QED
        BY <1>3, <1>4 DEF Caller

(* The SeqSyncer takes the first n updates and flushes the largest of them. *)
LEMMA TakeBatchFacts ==
    ASSUME SumTypeInv, NEW i \in Syncer, TakeBatch(i)
    PROVE  /\ flush' \in [Syncer -> [Caller -> FlushState]]
           /\ flush'[i]["run"].pc = "mysql" /\ ~flush'[i]["run"].wrote
           /\ \E k \in 1..Len(channel[i]) : flush'[i]["run"].msg = channel[i][k]
           /\ \A j \in Syncer, e \in Caller :
                j # i \/ e # "run" => flush'[j][e] = flush[j][e]
           /\ channel' \in [Syncer -> Seq(Message)]
           /\ \A j \in Syncer : j # i => channel'[j] = channel[j]
           /\ \A k \in 1..Len(channel'[i]) :
                \E l \in 1..Len(channel[i]) : channel'[i][k] = channel[i][l]
    <1>1. PICK n \in 1..Len(channel[i]) :
            /\ \E k \in 1..n : StartFlush(i, "run", channel[i][k])
            /\ channel' = [channel EXCEPT ![i] = SubSeq(@, n + 1, Len(@))]
        BY DEF TakeBatch
    <1>2. PICK k \in 1..n : StartFlush(i, "run", channel[i][k])
        BY <1>1
    <1>3. channel[i] \in Seq(Message) /\ Len(channel[i]) \in Nat /\ "run" \in Caller
        BY SumTypeAt DEF Caller
    <1>4. k \in 1..Len(channel[i]) /\ channel[i][k] \in Message
        BY <1>3, SumTypeAt
    <1>5. channel \in [Syncer -> Seq(Message)]
        BY DEF SumTypeInv, SumTypeOK
    <1>6. /\ SubSeq(channel[i], n + 1, Len(channel[i])) \in Seq(Message)
          /\ Len(SubSeq(channel[i], n + 1, Len(channel[i]))) = Len(channel[i]) - n
          /\ \A l \in 1..(Len(channel[i]) - n) :
               SubSeq(channel[i], n + 1, Len(channel[i]))[l] = channel[i][l + n]
        BY <1>3
    <1>7. /\ channel' \in [Syncer -> Seq(Message)]
          /\ channel'[i] = SubSeq(channel[i], n + 1, Len(channel[i]))
          /\ \A j \in Syncer : j # i => channel'[j] = channel[j]
        BY <1>1, <1>5, <1>6
    <1>8. ASSUME NEW l \in 1..Len(channel'[i])
          PROVE  \E m \in 1..Len(channel[i]) : channel'[i][l] = channel[i][m]
        <2>1. l \in 1..(Len(channel[i]) - n) /\ l + n \in 1..Len(channel[i])
            BY <1>3, <1>6, <1>7
        <2> QED
            BY <2>1, <1>6, <1>7
    <1>9. /\ flush' \in [Syncer -> [Caller -> FlushState]]
          /\ flush'[i]["run"].pc = "mysql" /\ ~flush'[i]["run"].wrote
          /\ flush'[i]["run"].msg = channel[i][k]
          /\ \A j \in Syncer, e \in Caller : j # i \/ e # "run" => flush'[j][e] = flush[j][e]
        BY <1>2, <1>3, <1>4, StartFlushFacts
    <1> QED
        BY <1>4, <1>7, <1>8, <1>9

(* The worker hands its message to the channel. *)
LEMMA PushFacts ==
    ASSUME SumTypeInv, NEW i \in Syncer, Push(i)
    PROVE  /\ worker[i].msg \in Message
           /\ channel' \in [Syncer -> Seq(Message)]
           /\ \A j \in Syncer : j # i => channel'[j] = channel[j]
           /\ \A k \in 1..Len(channel'[i]) :
                \/ channel'[i][k] = worker[i].msg
                \/ \E l \in 1..Len(channel[i]) : channel'[i][k] = channel[i][l]
    <1>1. worker[i].msg \in Message /\ channel[i] \in Seq(Message)
        BY SumTypeAt DEF Push, SumTypeInv, BusyHasMessage
    <1>2. channel \in [Syncer -> Seq(Message)]
        BY DEF SumTypeInv, SumTypeOK
    <1>3. /\ channel'[i] = Append(channel[i], worker[i].msg)
          /\ channel' \in [Syncer -> Seq(Message)]
          /\ \A j \in Syncer : j # i => channel'[j] = channel[j]
        BY <1>1, <1>2 DEF Push
    <1>4. ASSUME NEW k \in 1..Len(channel'[i])
          PROVE  \/ channel'[i][k] = worker[i].msg
                 \/ \E l \in 1..Len(channel[i]) : channel'[i][k] = channel[i][l]
        <2>1. CASE k = Len(channel[i]) + 1
            BY <2>1, <1>1, <1>3
        <2>2. CASE k # Len(channel[i]) + 1
            <3>1. k \in 1..Len(channel[i])
                BY <2>2, <1>1, <1>3
            <3> QED
                BY <3>1, <1>1, <1>3
        <2> QED
            BY <2>1, <2>2
    <1> QED
        BY <1>1, <1>3, <1>4

(* An instance dies with what it had in memory. *)
LEMMA CrashFacts ==
    ASSUME SumTypeInv, NEW i \in Syncer, SyncerCrash(i)
    PROVE  /\ flush' \in [Syncer -> [Caller -> FlushState]]
           /\ worker' \in [Syncer -> WorkerState]
           /\ channel' \in [Syncer -> Seq(Message)]
           /\ worker'[i] = NotWorking /\ channel'[i] = <<>>
           /\ \A e \in Caller : flush'[i][e].pc = "idle"
           /\ \A j \in Syncer : j # i => /\ worker'[j] = worker[j]
                                         /\ channel'[j] = channel[j]
                                         /\ flush'[j] = flush[j]
    <1>1. NotWorking \in WorkerState
        BY SessionSummaryAssumption DEF NotWorking, WorkerState
    <1>2. worker \in [Syncer -> WorkerState] /\ channel \in [Syncer -> Seq(Message)]
        BY DEF SumTypeInv, SumTypeOK, WorkerState
    <1>3. worker' = [worker EXCEPT ![i] = NotWorking] /\ channel' = [channel EXCEPT ![i] = <<>>]
        BY DEF SyncerCrash
    <1>4. <<>> \in Seq(Message)
        OBVIOUS
    <1>5. /\ worker' \in [Syncer -> WorkerState] /\ worker'[i] = NotWorking
          /\ \A j \in Syncer : j # i => worker'[j] = worker[j]
        BY <1>1, <1>2, <1>3, WorkerUpdate
    <1>6. /\ channel' \in [Syncer -> Seq(Message)] /\ channel'[i] = <<>>
          /\ \A j \in Syncer : j # i => channel'[j] = channel[j]
        BY <1>2, <1>3, <1>4
    <1> DEFINE f == NotFlushing
               g == [e \in Caller |-> f]
    <1>7. f \in FlushState /\ f.pc = "idle"
        BY SessionSummaryAssumption DEF NotFlushing, FlushState
    <1>8. flush' = [flush EXCEPT ![i] = g]
        BY DEF SyncerCrash
    <1>9. flush \in [Syncer -> [Caller -> FlushState]]
        BY DEF SumTypeInv, SumTypeOK, FlushState
    <1> HIDE DEF f
    <1>10. g \in [Caller -> FlushState] /\ \A e \in Caller : g[e].pc = "idle"
        BY <1>7
    <1> HIDE DEF g
    <1>11. /\ flush' \in [Syncer -> [Caller -> FlushState]] /\ flush'[i] = g
           /\ \A j \in Syncer : j # i => flush'[j] = flush[j]
        BY <1>8, <1>9, <1>10
    <1> QED
        BY <1>5, <1>6, <1>10, <1>11

(* A worker takes a message. *)
LEMMA PullFacts ==
    ASSUME SumTypeInv, NEW i \in Syncer, NEW m \in Message, Pull(i, m)
    PROVE  /\ worker' \in [Syncer -> WorkerState]
           /\ worker'[i].pc = IF guard[i] THEN "store" ELSE "read"
           /\ worker'[i].msg = m
           /\ \A j \in Syncer : j # i => worker'[j] = worker[j]
    <1> DEFINE w == [pc |-> IF guard[i] THEN "store" ELSE "read", msg |-> m, top |-> 0]
    <1>1. w \in WorkerState
        BY SessionSummaryAssumption DEF WorkerState, Message
    <1>2. worker' = [worker EXCEPT ![i] = w] /\ worker \in [Syncer -> WorkerState]
        BY DEF Pull, SumTypeInv, SumTypeOK, WorkerState
    <1>3. w.pc = (IF guard[i] THEN "store" ELSE "read") /\ w.msg = m
        OBVIOUS
    <1> HIDE DEF w
    <1> QED
        BY <1>1, <1>2, <1>3, WorkerUpdate

(* A worker reads the newest seq. *)
LEMMA ReadFacts ==
    ASSUME SumTypeInv, NEW i \in Syncer, CurrentMaxSeq(i)
    PROVE  /\ worker' \in [Syncer -> WorkerState]
           /\ worker'[i].pc = "insert" /\ worker'[i].msg = worker[i].msg
           /\ worker'[i].top \in {Shown.seq, dbRow.seq}
           /\ \A j \in Syncer : j # i => worker'[j] = worker[j]
    <1>1. PICK top \in {Shown.seq, dbRow.seq} :
            worker' = [worker EXCEPT ![i].pc = "insert", ![i].top = top]
        BY DEF CurrentMaxSeq
    <1>2. top \in 0..MaxMsg
        BY SessionSummaryAssumption DEF Shown, SumTypeInv, SumTypeOK, Summary
    <1>3. worker \in [Syncer -> WorkerState]
        BY DEF SumTypeInv, SumTypeOK, WorkerState
    <1> HIDE DEF SumTypeInv
    <1> QED
        BY <1>1, <1>2, <1>3 DEF WorkerState

(* The tables of SumTypeInv, for the steps that change one of them. *)
TablesOK ==
    /\ worker \in [Syncer -> WorkerState] /\ flush \in [Syncer -> [Caller -> FlushState]]
    /\ channel \in [Syncer -> Seq(Message)] /\ guard \in [Syncer -> BOOLEAN]
RowsOK ==
    /\ dbRow \in Summary /\ snapshot \in Summary /\ timeline \in 0..MaxMsg
    /\ hidden \in 0..MaxMsg /\ cursor \in [row : BOOLEAN, read : 0..MaxMsg]
SetsOK ==
    /\ stored \subseteq Message /\ handled \subseteq Message /\ unensured \subseteq Message
    /\ sumFaults \in 0..SumFaults /\ sumCrashes \in 0..SumCrashes

LEMMA TypeParts == SumTypeOK <=> TablesOK /\ RowsOK /\ SetsOK
    BY DEF SumTypeOK, TablesOK, RowsOK, SetsOK, WorkerState, FlushState

LEMMA BudgetStep ==
    ASSUME SetsOK
    PROVE  /\ SumFault => sumFaults' \in 0..SumFaults
           /\ (sumCrashes < SumCrashes /\ sumCrashes' = sumCrashes + 1) => sumCrashes' \in 0..SumCrashes
    BY SessionSummaryAssumption DEF SetsOK, SumFault

(* The steps of the instances and the others, one by one. *)
LEMMA SumTypeStep == SumTypeInv /\ [SumNext]_sumVars => SumTypeInv'
    <1> SUFFICES ASSUME SumTypeInv, [SumNext]_sumVars PROVE SumTypeInv'
        OBVIOUS
    <1>t. TablesOK /\ RowsOK /\ SetsOK /\ BusyHasMessage
        BY TypeParts DEF SumTypeInv
    <1>s. SUFFICES TablesOK' /\ RowsOK' /\ SetsOK' /\ BusyHasMessage'
        BY TypeParts DEF SumTypeInv, SumTypeOK, TablesOK, RowsOK, SetsOK, WorkerState, FlushState
    <1>1. ASSUME NEW i \in Syncer, NEW m \in Message, Pull(i, m)
          PROVE  TablesOK' /\ RowsOK' /\ SetsOK' /\ BusyHasMessage'
        <2>1. TablesOK' /\ RowsOK' /\ SetsOK'
            BY <1>t, <1>1, PullFacts DEF Pull, TablesOK, RowsOK, SetsOK, listVars, cursorVars, flushVars, sumBudget
        <2>2. BusyHasMessage'
            BY <1>t, <1>1, PullFacts DEF Pull, BusyHasMessage, flushVars
        <2> QED
            BY <2>1, <2>2
    <1>2. ASSUME NEW i \in Syncer, CurrentMaxSeq(i)
          PROVE  TablesOK' /\ RowsOK' /\ SetsOK' /\ BusyHasMessage'
        <2>1. TablesOK' /\ RowsOK' /\ SetsOK'
            BY <1>t, <1>2, ReadFacts DEF CurrentMaxSeq, TablesOK, RowsOK, SetsOK, listVars, cursorVars, flushVars, sumBudget
        <2>a. worker[i].pc = "read" /\ UNCHANGED flush
            BY <1>2 DEF CurrentMaxSeq, flushVars
        <2>b. /\ worker'[i].pc = "insert" /\ worker'[i].msg = worker[i].msg
              /\ \A j \in Syncer : j # i => worker'[j] = worker[j]
            BY <1>2, ReadFacts
        <2>2. BusyHasMessage'
            BY <1>t, <2>a, <2>b DEF BusyHasMessage
        <2> QED
            BY <2>1, <2>2
    <1>3. ASSUME NEW i \in Syncer, EnsureUserSessions(i)
          PROVE  TablesOK' /\ RowsOK' /\ SetsOK' /\ BusyHasMessage'
        <2>1. Proceed(i, "store") /\ worker[i].top \in 0..MaxMsg
            BY <1>3, SumTypeAt DEF EnsureUserSessions
        <2>2. cursor' \in [row : BOOLEAN, read : 0..MaxMsg] /\ hidden' \in 0..MaxMsg
            BY <1>t, <1>3, <2>1 DEF EnsureUserSessions, RowsOK
        <2>3. TablesOK' /\ RowsOK' /\ SetsOK'
            BY <1>t, <1>3, <2>1, <2>2, ProceedFacts
            DEF EnsureUserSessions, TablesOK, RowsOK, SetsOK, listVars, flushVars, sumBudget
        <2>4. BusyHasMessage'
            BY <1>t, <1>3, <2>1, ProceedFacts DEF EnsureUserSessions, BusyHasMessage, flushVars
        <2> QED
            BY <2>3, <2>4
    <1>4. ASSUME NEW i \in Syncer, EnsureFails(i)
          PROVE  TablesOK' /\ RowsOK' /\ SetsOK' /\ BusyHasMessage'
        <2>1. Proceed(i, "store") /\ worker[i].msg \in Message
            BY <1>t, <1>4 DEF EnsureFails, BusyHasMessage
        <2>2. sumFaults' \in 0..SumFaults
            BY <1>t, <1>4, BudgetStep DEF EnsureFails
        <2>3. TablesOK' /\ RowsOK' /\ SetsOK'
            BY <1>t, <1>4, <2>1, <2>2, ProceedFacts
            DEF EnsureFails, TablesOK, RowsOK, SetsOK, listVars, flushVars, cursorVars
        <2>4. BusyHasMessage'
            BY <1>t, <1>4, <2>1, ProceedFacts DEF EnsureFails, BusyHasMessage, flushVars
        <2> QED
            BY <2>3, <2>4
    <1>5. ASSUME NEW i \in Syncer, StoreMessage(i)
          PROVE  TablesOK' /\ RowsOK' /\ SetsOK' /\ BusyHasMessage'
        <2>1. Proceed(i, "push") /\ worker[i].msg \in Message
            BY <1>t, <1>5 DEF StoreMessage, BusyHasMessage
        <2>3. TablesOK' /\ RowsOK' /\ SetsOK'
            BY <1>t, <1>5, <2>1, ProceedFacts
            DEF StoreMessage, TablesOK, RowsOK, SetsOK, listVars, flushVars, cursorVars, sumBudget
        <2>4. BusyHasMessage'
            BY <1>t, <1>5, <2>1, ProceedFacts DEF StoreMessage, BusyHasMessage, flushVars
        <2> QED
            BY <2>3, <2>4
    <1>6. ASSUME NEW i \in Syncer, Push(i)
          PROVE  TablesOK' /\ RowsOK' /\ SetsOK' /\ BusyHasMessage'
        <2>1. Finish(i) /\ worker[i].pc = "push"
            BY <1>6 DEF Push
        <2>2. TablesOK' /\ RowsOK' /\ SetsOK'
            BY <1>t, <1>6, <2>1, FinishFacts, PushFacts
            DEF Push, TablesOK, RowsOK, SetsOK, listVars, cursorVars, sumBudget
        <2>3. BusyHasMessage'
            BY <1>t, <1>6, <2>1, FinishFacts DEF Push, BusyHasMessage, NotWorking
        <2> QED
            BY <2>2, <2>3
    <1>7. ASSUME NEW i \in Syncer, PushDegrades(i)
          PROVE  TablesOK' /\ RowsOK' /\ SetsOK' /\ BusyHasMessage'
        <2>1. /\ Proceed(i, "flush") /\ worker[i].msg \in Message /\ "push" \in Caller
              /\ StartFlush(i, "push", worker[i].msg)
            BY <1>t, <1>7 DEF PushDegrades, BusyHasMessage, Caller
        <2>2. TablesOK' /\ RowsOK' /\ SetsOK'
            BY <1>t, <1>7, <2>1, ProceedFacts, StartFlushFacts
            DEF PushDegrades, TablesOK, RowsOK, SetsOK, listVars, cursorVars, sumBudget
        <2>3. BusyHasMessage'
            BY <1>t, <1>7, <2>1, ProceedFacts, StartFlushFacts DEF PushDegrades, BusyHasMessage
        <2> QED
            BY <2>2, <2>3
    <1>8. ASSUME NEW i \in Syncer, GuardExpires(i)
          PROVE  TablesOK' /\ RowsOK' /\ SetsOK' /\ BusyHasMessage'
        BY <1>t, <1>8 DEF GuardExpires, TablesOK, RowsOK, SetsOK, BusyHasMessage, listVars, flushVars, cursorVars, sumBudget
    <1>9. ASSUME NEW i \in Syncer, SyncerCrash(i)
          PROVE  TablesOK' /\ RowsOK' /\ SetsOK' /\ BusyHasMessage'
        <2>1. sumCrashes' \in 0..SumCrashes
            BY <1>t, <1>9, BudgetStep DEF SyncerCrash
        <2>2. TablesOK' /\ RowsOK' /\ SetsOK'
            BY <1>t, <1>9, <2>1, CrashFacts
            DEF SyncerCrash, TablesOK, RowsOK, SetsOK, listVars, cursorVars
        <2>3. BusyHasMessage'
            BY <1>t, <1>9, CrashFacts DEF BusyHasMessage, NotWorking, Caller
        <2> QED
            BY <2>2, <2>3
    <1>10. ASSUME NEW i \in Syncer, TakeBatch(i)
           PROVE  TablesOK' /\ RowsOK' /\ SetsOK' /\ BusyHasMessage'
        <2>a. TablesOK'
            BY <1>t, <1>10, TakeBatchFacts DEF TakeBatch, TablesOK, workVars
        <2>b. RowsOK'
            BY <1>t, <1>10 DEF TakeBatch, RowsOK, listVars, cursorVars
        <2>c. SetsOK'
            BY <1>t, <1>10 DEF TakeBatch, SetsOK, cursorVars, workVars, sumBudget
        <2>1. TablesOK' /\ RowsOK' /\ SetsOK'
            BY <2>a, <2>b, <2>c
        <2>2. BusyHasMessage'
            BY <1>t, <1>10, TakeBatchFacts DEF TakeBatch, BusyHasMessage, workVars, Caller
        <2> QED
            BY <2>1, <2>2
    <1>11. ASSUME NEW i \in Syncer, NEW c \in Caller, Upsert(i, c)
           PROVE  TablesOK' /\ RowsOK' /\ SetsOK' /\ BusyHasMessage'
        <2>1. dbRow' \in Summary
            BY <1>t, <1>11, MergeFacts, SumTypeAt DEF Upsert, RowsOK
        <2>d. TablesOK'
            BY <1>t, <1>11, UpsertFacts DEF Upsert, TablesOK, workVars
        <2>e. RowsOK'
            BY <1>t, <1>11, <2>1 DEF Upsert, RowsOK, cursorVars
        <2>f. SetsOK'
            BY <1>t, <1>11 DEF Upsert, SetsOK, cursorVars, workVars, sumBudget
        <2>2. TablesOK' /\ RowsOK' /\ SetsOK'
            BY <2>d, <2>e, <2>f
        <2>a. flush[i][c].pc = "mysql" /\ UNCHANGED worker
            BY <1>11 DEF Upsert, workVars
        <2>b. \A j \in Syncer, e \in Caller : j # i \/ e # c => flush'[j][e] = flush[j][e]
            BY <1>11, UpsertFacts
        <2>3. BusyHasMessage'
            BY <1>t, <2>a, <2>b DEF BusyHasMessage, Caller
        <2> QED
            BY <2>2, <2>3
    <1>12. ASSUME NEW i \in Syncer, NEW c \in Caller, UpsertFails(i, c)
           PROVE  TablesOK' /\ RowsOK' /\ SetsOK' /\ BusyHasMessage'
        <2>1. dbRow' \in Summary
            BY <1>t, <1>12, MergeFacts, SumTypeAt DEF UpsertFails, RowsOK
        <2>2. sumFaults' \in 0..SumFaults
            BY <1>t, <1>12, BudgetStep DEF UpsertFails
        <2>a. TablesOK'
            BY <1>t, <1>12, UpsertFailsFacts DEF UpsertFails, TablesOK, workVars
        <2>b. RowsOK'
            BY <1>t, <1>12, <2>1 DEF UpsertFails, RowsOK, cursorVars
        <2>c. SetsOK'
            BY <1>t, <1>12, <2>2 DEF UpsertFails, SetsOK, cursorVars, workVars
        <2>3. TablesOK' /\ RowsOK' /\ SetsOK'
            BY <2>a, <2>b, <2>c
        <2>4. BusyHasMessage'
            BY <1>t, <1>12, UpsertFailsFacts DEF UpsertFails, BusyHasMessage, workVars, Caller
        <2> QED
            BY <2>3, <2>4
    <1>13. ASSUME NEW i \in Syncer, NEW c \in Caller, WriteRedis(i, c)
           PROVE  TablesOK' /\ RowsOK' /\ SetsOK' /\ BusyHasMessage'
        <2>1. snapshot' \in Summary
            BY <1>t, <1>13, SnapshotFacts, SumTypeAt DEF WriteRedis, RowsOK
        <2>2. timeline' \in 0..MaxMsg
            BY <1>t, <1>13, SumTypeAt DEF WriteRedis, RowsOK, NewTimeline, Larger
        <2>3. FinishFlush(i, c) /\ flush[i][c].pc # "idle"
            BY <1>13 DEF WriteRedis
        <2>a. TablesOK'
            BY <1>t, <1>13, <2>3, FinishFlushFacts DEF WriteRedis, TablesOK
        <2>b. RowsOK'
            BY <1>t, <1>13, <2>1, <2>2 DEF WriteRedis, RowsOK, cursorVars
        <2>c. handled' \subseteq Message
            BY <1>t, <2>3, FinishFlushFacts DEF SetsOK, Caller
        <2>d. SetsOK'
            BY <1>t, <1>13, <2>c DEF WriteRedis, SetsOK, cursorVars, sumBudget
        <2>4. TablesOK' /\ RowsOK' /\ SetsOK'
            BY <2>a, <2>b, <2>d
        <2>5. BusyHasMessage'
            BY <1>t, <1>13, <2>3, FinishFlushFacts DEF BusyHasMessage, NotWorking, Caller
        <2> QED
            BY <2>4, <2>5
    <1>14. ASSUME NEW i \in Syncer, NEW c \in Caller, RedisFails(i, c)
           PROVE  TablesOK' /\ RowsOK' /\ SetsOK' /\ BusyHasMessage'
        <2>1. snapshot' \in Summary
            BY <1>t, <1>14, SnapshotFacts, SumTypeAt DEF RedisFails, RowsOK
        <2>2. sumFaults' \in 0..SumFaults
            BY <1>t, <1>14, BudgetStep DEF RedisFails
        <2>3. FinishFlush(i, c) /\ flush[i][c].pc # "idle"
            BY <1>14 DEF RedisFails
        <2>4. TablesOK' /\ RowsOK' /\ SetsOK'
            BY <1>t, <1>14, <2>1, <2>2, <2>3, FinishFlushFacts
            DEF RedisFails, TablesOK, RowsOK, SetsOK, cursorVars, Caller
        <2>5. BusyHasMessage'
            BY <1>t, <1>14, <2>3, FinishFlushFacts DEF BusyHasMessage, NotWorking, Caller
        <2> QED
            BY <2>4, <2>5
    <1>15. ASSUME NEW m \in Message, MarkSessionRead(m)
           PROVE  TablesOK' /\ RowsOK' /\ SetsOK' /\ BusyHasMessage'
        <2>1. cursor' \in [row : BOOLEAN, read : 0..MaxMsg]
            BY <1>t, <1>15 DEF MarkSessionRead, RowsOK, Larger, Message
        <2> QED
            BY <1>t, <1>15, <2>1 DEF MarkSessionRead, TablesOK, RowsOK, SetsOK, BusyHasMessage,
                listVars, flushVars, workVars, sumBudget
    <1>16. CASE UpdateUserSession
        <2>1. cursor' \in [row : BOOLEAN, read : 0..MaxMsg]
            BY <1>16, SessionSummaryAssumption DEF UpdateUserSession
        <2> QED
            BY <1>t, <1>16, <2>1 DEF UpdateUserSession, TablesOK, RowsOK, SetsOK, BusyHasMessage,
                listVars, flushVars, workVars, sumBudget
    <1>17. CASE SnapshotExpires
        <2>1. snapshot' \in Summary
            BY <1>17, SessionSummaryAssumption DEF SnapshotExpires, NoSummary, SummaryOf, Summary
        <2> QED
            BY <1>t, <1>17, <2>1 DEF SnapshotExpires, TablesOK, RowsOK, SetsOK, BusyHasMessage,
                cursorVars, flushVars, workVars, sumBudget
    <1>18. CASE UNCHANGED sumVars
        BY <1>t, <1>18 DEF TablesOK, RowsOK, SetsOK, BusyHasMessage, sumVars,
            listVars, cursorVars, flushVars, workVars, sumBudget
    <1> QED
        BY <1>1, <1>2, <1>3, <1>4, <1>5, <1>6, <1>7, <1>8, <1>9, <1>10, <1>11, <1>12, <1>13,
           <1>14, <1>15, <1>16, <1>17, <1>18 DEF SumNext, WorkerStep, FlushStep

--------------------------------------------------------------------------------

(* Where a message can be between its worker and the summary, and how the   *)
(* steps move it.                                                           *)

InChannel(i, m) == \E k \in 1..Len(channel[i]) : channel[i][k] = m
InFlush(i, c, m) == flush[i][c].pc # "idle" /\ flush[i][c].msg = m
OnItsWay(m) ==
    \E i \in Syncer : InChannel(i, m) \/ \E c \in Caller : InFlush(i, c, m)

(* A step lets a message set out only from a worker that has stored it, and *)
(* a worker takes up only a message that is not handled.                    *)
SetsOut(m) == \E i \in Syncer : worker[i].pc = "push" /\ worker[i].msg = m
WorkersMove ==
    /\ handled \subseteq handled' /\ stored \subseteq stored'
    /\ \A i \in Syncer : worker'[i].pc # "idle" =>
        \/ worker'[i].pc \in {"read", "store"} /\ worker'[i].msg \notin handled
        \/ /\ worker[i].pc # "idle" /\ worker'[i].msg = worker[i].msg
           /\ worker'[i].pc \in {"push", "flush"} =>
                worker[i].pc \in {"push", "flush"} \/ worker[i].msg \in stored'
MessagesMove ==
    WorkersMove /\ \A m \in Message : OnItsWay(m)' => OnItsWay(m) \/ SetsOut(m)

(* The steps that leave the channels and the flushes alone. *)
LEMMA StayPut == UNCHANGED flushVars => \A m \in Message : OnItsWay(m)' => OnItsWay(m) \/ SetsOut(m)
    BY DEF flushVars, OnItsWay, InChannel, InFlush

(* The steps that only change flush (i, c), to another message that was on  *)
(* its way or not at all.                                                   *)
LEMMA FlushMoves ==
    ASSUME NEW i \in Syncer, NEW c \in Caller,
           \A j \in Syncer, e \in Caller : j # i \/ e # c => flush'[j][e] = flush[j][e],
           \/ flush'[i][c].pc = "idle"
           \/ flush[i][c].pc # "idle" /\ flush'[i][c].msg = flush[i][c].msg
           \/ InChannel(i, flush'[i][c].msg)
           \/ SetsOut(flush'[i][c].msg),
           \A j \in Syncer, m \in Message : InChannel(j, m)' => InChannel(j, m)
    PROVE  \A m \in Message : OnItsWay(m)' => OnItsWay(m) \/ SetsOut(m)
    <1> SUFFICES ASSUME NEW m \in Message, NEW j \in Syncer,
                        InChannel(j, m)' \/ \E e \in Caller : InFlush(j, e, m)'
                 PROVE  OnItsWay(m) \/ SetsOut(m)
        BY DEF OnItsWay
    <1>1. CASE InChannel(j, m)'
        BY <1>1 DEF OnItsWay
    <1>2. ASSUME NEW e \in Caller, InFlush(j, e, m)'
          PROVE  OnItsWay(m) \/ SetsOut(m)
        <2>1. CASE j # i \/ e # c
            <3>1. InFlush(j, e, m)
                BY <1>2, <2>1 DEF InFlush
            <3> QED
                BY <3>1 DEF OnItsWay
        <2>2. CASE j = i /\ e = c
            BY <1>2, <2>2 DEF InFlush, OnItsWay
        <2> QED
            BY <2>1, <2>2
    <1> QED
        BY <1>1, <1>2

LEMMA MessagesMoveStep == SumTypeInv /\ [SumNext]_sumVars => MessagesMove
    <1> SUFFICES ASSUME SumTypeInv, [SumNext]_sumVars PROVE MessagesMove
        OBVIOUS
    <1>b. \A i \in Syncer : worker[i].pc # "idle" => worker[i].msg \in Message
        BY DEF SumTypeInv, BusyHasMessage
    <1>c. \A i \in Syncer : flush[i]["push"].pc # "idle" => worker[i].pc = "flush"
        BY DEF SumTypeInv, BusyHasMessage
    <1>1. ASSUME NEW i \in Syncer, NEW m \in Message, Pull(i, m)
          PROVE  MessagesMove
        <2>1. WorkersMove
            BY <1>1, PullFacts DEF Pull, WorkersMove
        <2> QED
            BY <1>1, <2>1, StayPut DEF Pull, MessagesMove
    <1>2. ASSUME NEW i \in Syncer, CurrentMaxSeq(i)
          PROVE  MessagesMove
        <2>1. worker[i].pc = "read" /\ UNCHANGED <<handled, stored, flushVars>>
            BY <1>2 DEF CurrentMaxSeq
        <2>2. WorkersMove
            BY <1>2, <2>1, ReadFacts DEF WorkersMove
        <2> QED
            BY <2>1, <2>2, StayPut DEF MessagesMove
    <1>3. ASSUME NEW i \in Syncer, EnsureUserSessions(i) \/ EnsureFails(i)
          PROVE  MessagesMove
        <2>1. /\ Proceed(i, "store") /\ worker[i].pc = "insert"
              /\ UNCHANGED <<handled, stored, flushVars>>
            BY <1>3 DEF EnsureUserSessions, EnsureFails
        <2>2. WorkersMove
            BY <2>1, ProceedFacts DEF WorkersMove
        <2> QED
            BY <2>1, <2>2, StayPut DEF MessagesMove
    <1>5. ASSUME NEW i \in Syncer, StoreMessage(i)
          PROVE  MessagesMove
        <2>1. /\ Proceed(i, "push") /\ worker[i].pc = "store" /\ UNCHANGED <<handled, flushVars>>
              /\ stored' = stored \cup {worker[i].msg}
            BY <1>5 DEF StoreMessage
        <2>2. WorkersMove
            BY <2>1, ProceedFacts DEF WorkersMove
        <2> QED
            BY <2>1, <2>2, StayPut DEF MessagesMove
    <1>6. ASSUME NEW i \in Syncer, Push(i)
          PROVE  MessagesMove
        <2>1. Finish(i) /\ worker[i].pc = "push" /\ UNCHANGED <<flush, stored>>
            BY <1>6 DEF Push
        <2>2. WorkersMove
            BY <2>1, FinishFacts DEF WorkersMove, NotWorking
        <2>3. ASSUME NEW m \in Message, NEW j \in Syncer, InChannel(j, m)'
              PROVE  InChannel(j, m) \/ (j = i /\ m = worker[i].msg)
            BY <1>6, <2>3, PushFacts DEF InChannel
        <2>4. \A m \in Message, j \in Syncer, e \in Caller : InFlush(j, e, m)' => InFlush(j, e, m)
            BY <2>1 DEF InFlush
        <2>5. \A m \in Message : OnItsWay(m)' => OnItsWay(m) \/ SetsOut(m)
            BY <2>1, <2>3, <2>4 DEF OnItsWay, SetsOut
        <2> QED
            BY <2>2, <2>5 DEF MessagesMove
    <1>7. ASSUME NEW i \in Syncer, PushDegrades(i)
          PROVE  MessagesMove
        <2>1. /\ Proceed(i, "flush") /\ worker[i].pc = "push" /\ worker[i].msg \in Message
              /\ "push" \in Caller /\ StartFlush(i, "push", worker[i].msg)
              /\ UNCHANGED <<handled, stored, channel>>
            BY <1>7, <1>b DEF PushDegrades, Caller
        <2>2. WorkersMove
            BY <2>1, ProceedFacts DEF WorkersMove
        <2>3. SetsOut(worker[i].msg)
            BY <2>1 DEF SetsOut
        <2>4. /\ flush'[i]["push"].msg = worker[i].msg
              /\ \A j \in Syncer, e \in Caller : j # i \/ e # "push" => flush'[j][e] = flush[j][e]
            BY <2>1, StartFlushFacts
        <2>5. \A m \in Message : OnItsWay(m)' => OnItsWay(m) \/ SetsOut(m)
            <3>1. \A j \in Syncer, m \in Message : InChannel(j, m)' => InChannel(j, m)
                BY <2>1 DEF InChannel
            <3> QED
                BY <2>1, <2>3, <2>4, <3>1, FlushMoves
        <2> QED
            BY <2>2, <2>5 DEF MessagesMove
    <1>8. ASSUME NEW i \in Syncer, GuardExpires(i)
          PROVE  MessagesMove
        <2>1. UNCHANGED <<worker, handled, stored, flushVars>>
            BY <1>8 DEF GuardExpires
        <2>2. WorkersMove
            BY <2>1 DEF WorkersMove
        <2> QED
            BY <2>1, <2>2, StayPut DEF MessagesMove
    <1>9. ASSUME NEW i \in Syncer, SyncerCrash(i)
          PROVE  MessagesMove
        <2>1. UNCHANGED <<handled, stored>>
            BY <1>9 DEF SyncerCrash
        <2>2. WorkersMove
            BY <1>9, <2>1, CrashFacts DEF WorkersMove, NotWorking
        <2>3. \A m \in Message, j \in Syncer : InChannel(j, m)' => InChannel(j, m)
            BY <1>9, CrashFacts DEF InChannel
        <2>4. \A m \in Message, j \in Syncer, e \in Caller : InFlush(j, e, m)' => InFlush(j, e, m)
            BY <1>9, CrashFacts DEF InFlush
        <2>5. \A m \in Message : OnItsWay(m)' => OnItsWay(m) \/ SetsOut(m)
            BY <2>3, <2>4 DEF OnItsWay
        <2> QED
            BY <2>2, <2>5 DEF MessagesMove
    <1>10. ASSUME NEW i \in Syncer, TakeBatch(i)
           PROVE  MessagesMove
        <2>1. UNCHANGED <<worker, handled, stored>> /\ "run" \in Caller
            BY <1>10 DEF TakeBatch, workVars, Caller
        <2>2. WorkersMove
            BY <2>1 DEF WorkersMove
        <2>a. /\ \A j \in Syncer : j # i => channel'[j] = channel[j]
              /\ \A k \in 1..Len(channel'[i]) :
                   \E l \in 1..Len(channel[i]) : channel'[i][k] = channel[i][l]
            BY <1>10, TakeBatchFacts
        <2>3. \A j \in Syncer, m \in Message : InChannel(j, m)' => InChannel(j, m)
            <3>1. \A m \in Message : InChannel(i, m)' => InChannel(i, m)
                BY <2>a DEF InChannel
            <3>2. \A j \in Syncer, m \in Message : j # i /\ InChannel(j, m)' => InChannel(j, m)
                BY <2>a DEF InChannel
            <3> QED
                BY <3>1, <3>2
        <2>4. /\ InChannel(i, flush'[i]["run"].msg)
              /\ \A j \in Syncer, e \in Caller : j # i \/ e # "run" => flush'[j][e] = flush[j][e]
            BY <1>10, TakeBatchFacts DEF InChannel
        <2>5. \A m \in Message : OnItsWay(m)' => OnItsWay(m) \/ SetsOut(m)
            BY <2>1, <2>3, <2>4, FlushMoves
        <2> QED
            BY <2>2, <2>5 DEF MessagesMove
    <1>11. ASSUME NEW i \in Syncer, NEW c \in Caller, Upsert(i, c) \/ UpsertFails(i, c)
           PROVE  MessagesMove
        <2>1. UNCHANGED <<worker, handled, stored, channel>> /\ flush[i][c].pc = "mysql"
            BY <1>11 DEF Upsert, UpsertFails, workVars
        <2>2. WorkersMove
            BY <2>1 DEF WorkersMove
        <2>3. /\ flush'[i][c].msg = flush[i][c].msg
              /\ \A j \in Syncer, e \in Caller : j # i \/ e # c => flush'[j][e] = flush[j][e]
            BY <1>11, UpsertFacts, UpsertFailsFacts
        <2>4. \A j \in Syncer, m \in Message : InChannel(j, m)' => InChannel(j, m)
            BY <2>1 DEF InChannel
        <2>5. \A m \in Message : OnItsWay(m)' => OnItsWay(m) \/ SetsOut(m)
            BY <2>1, <2>3, <2>4, FlushMoves
        <2> QED
            BY <2>2, <2>5 DEF MessagesMove
    <1>12. ASSUME NEW i \in Syncer, NEW c \in Caller, WriteRedis(i, c) \/ RedisFails(i, c)
           PROVE  MessagesMove
        <2>1. FinishFlush(i, c) /\ UNCHANGED <<stored, channel>> /\ flush[i][c].pc # "idle"
            BY <1>12 DEF WriteRedis, RedisFails
        <2>2. WorkersMove
            BY <2>1, FinishFlushFacts DEF WorkersMove, NotWorking
        <2>3. /\ flush'[i][c].pc = "idle"
              /\ \A j \in Syncer, e \in Caller : j # i \/ e # c => flush'[j][e] = flush[j][e]
            BY <2>1, FinishFlushFacts
        <2>4. \A j \in Syncer, m \in Message : InChannel(j, m)' => InChannel(j, m)
            BY <2>1 DEF InChannel
        <2>5. \A m \in Message : OnItsWay(m)' => OnItsWay(m) \/ SetsOut(m)
            BY <2>3, <2>4, FlushMoves
        <2> QED
            BY <2>2, <2>5 DEF MessagesMove
    <1>13. ASSUME UNCHANGED workVars, UNCHANGED flushVars
           PROVE  MessagesMove
        <2>1. WorkersMove
            BY <1>13 DEF WorkersMove, workVars
        <2> QED
            BY <1>13, <2>1, StayPut DEF MessagesMove
    <1>14. ASSUME \/ \E m \in Message : MarkSessionRead(m)
                  \/ UpdateUserSession \/ SnapshotExpires \/ UNCHANGED sumVars
           PROVE  UNCHANGED workVars /\ UNCHANGED flushVars
        BY <1>14 DEF MarkSessionRead, UpdateUserSession, SnapshotExpires, sumVars
    <1> QED
        BY <1>1, <1>2, <1>3, <1>5, <1>6, <1>7, <1>8, <1>9, <1>10, <1>11, <1>12, <1>13,
           <1>14 DEF SumNext, WorkerStep, FlushStep

--------------------------------------------------------------------------------

(* The summary shows one message that is stored.                            *)

(* What a flush writes is stored, for it is stored before it sets out.      *)
OnItsWayIsStored ==
    /\ \A i \in Syncer : worker[i].pc \in {"push", "flush"} => worker[i].msg \in stored
    /\ \A m \in Message : OnItsWay(m) => m \in stored

(* A flush that began with no message shows nothing; the others have one.   *)
FlushHasMessage == \A i \in Syncer, c \in Caller : flush[i][c].pc # "idle" => flush[i][c].msg \in Message

OneMessageInv == SumTypeInv /\ FlushHasMessage /\ OnItsWayIsStored /\ SummaryIsOneMessage

LEMMA FlushHasMessageStep ==
    SumTypeInv /\ FlushHasMessage /\ [SumNext]_sumVars => FlushHasMessage'
    <1> SUFFICES ASSUME SumTypeInv, FlushHasMessage, [SumNext]_sumVars PROVE FlushHasMessage'
        OBVIOUS
    <1> DEFINE Only(i, c) ==
            \A j \in Syncer, e \in Caller : j # i \/ e # c => flush'[j][e] = flush[j][e]
    <1>1. ASSUME NEW i \in Syncer, PushDegrades(i)
          PROVE  FlushHasMessage'
        <2>1. "push" \in Caller /\ worker[i].msg \in Message /\ StartFlush(i, "push", worker[i].msg)
            BY <1>1 DEF PushDegrades, SumTypeInv, BusyHasMessage, Caller
        <2>2. flush'[i]["push"].msg \in Message /\ Only(i, "push")
            BY <2>1, StartFlushFacts
        <2> QED
            BY <2>2 DEF FlushHasMessage
    <1>2. ASSUME NEW i \in Syncer, TakeBatch(i)
          PROVE  FlushHasMessage'
        <2>1. \A k \in 1..Len(channel[i]) : channel[i][k] \in Message
            BY SumTypeAt
        <2>2. flush'[i]["run"].msg \in Message /\ Only(i, "run")
            BY <1>2, <2>1, TakeBatchFacts
        <2> QED
            BY <2>2 DEF FlushHasMessage
    <1>3. ASSUME NEW i \in Syncer, NEW c \in Caller, Upsert(i, c) \/ UpsertFails(i, c)
          PROVE  FlushHasMessage'
        <2>1. flush'[i][c].msg = flush[i][c].msg /\ Only(i, c) /\ flush[i][c].pc = "mysql"
            <3>1. CASE Upsert(i, c)
                BY <3>1, UpsertFacts DEF Upsert
            <3>2. CASE UpsertFails(i, c)
                BY <3>2, UpsertFailsFacts DEF UpsertFails
            <3> QED
                BY <1>3, <3>1, <3>2
        <2> QED
            BY <2>1 DEF FlushHasMessage
    <1>4. ASSUME NEW i \in Syncer, NEW c \in Caller, WriteRedis(i, c) \/ RedisFails(i, c)
          PROVE  FlushHasMessage'
        <2>1. FinishFlush(i, c) /\ flush[i][c].pc # "idle"
            BY <1>4 DEF WriteRedis, RedisFails
        <2>2. flush'[i][c].pc = "idle" /\ Only(i, c)
            BY <2>1, FinishFlushFacts
        <2> QED
            BY <2>2 DEF FlushHasMessage
    <1>5. ASSUME NEW i \in Syncer, SyncerCrash(i)
          PROVE  FlushHasMessage'
        BY <1>5, CrashFacts DEF FlushHasMessage
    <1>6. ASSUME UNCHANGED flush
          PROVE  FlushHasMessage'
        BY <1>6 DEF FlushHasMessage
    <1>7. CASE UNCHANGED sumVars
        BY <1>6, <1>7 DEF sumVars, flushVars
    <1>8. ASSUME \/ \E i \in Syncer : \/ \E m \in Message : Pull(i, m)
                                      \/ CurrentMaxSeq(i) \/ EnsureUserSessions(i) \/ EnsureFails(i)
                                      \/ StoreMessage(i) \/ Push(i) \/ GuardExpires(i)
                 \/ \E m \in Message : MarkSessionRead(m)
                 \/ UpdateUserSession \/ SnapshotExpires
          PROVE  UNCHANGED flush
        BY <1>8 DEF Pull, CurrentMaxSeq, EnsureUserSessions, EnsureFails, StoreMessage, Push,
            GuardExpires, MarkSessionRead, UpdateUserSession, SnapshotExpires, flushVars
    <1> QED
        BY <1>1, <1>2, <1>3, <1>4, <1>5, <1>6, <1>7, <1>8 DEF SumNext, WorkerStep, FlushStep

LEMMA OnItsWayIsStoredStep ==
    SumTypeInv /\ OnItsWayIsStored /\ [SumNext]_sumVars => OnItsWayIsStored'
    <1> SUFFICES ASSUME SumTypeInv, OnItsWayIsStored, [SumNext]_sumVars PROVE OnItsWayIsStored'
        OBVIOUS
    <1>1. WorkersMove /\ \A m \in Message : OnItsWay(m)' => OnItsWay(m) \/ SetsOut(m)
        BY MessagesMoveStep DEF MessagesMove
    <1>2. stored \subseteq stored'
        BY <1>1 DEF WorkersMove
    <1>3. \A m \in Message : OnItsWay(m) \/ SetsOut(m) => m \in stored
        BY DEF OnItsWayIsStored, SetsOut
    <1>4. ASSUME NEW i \in Syncer, worker'[i].pc \in {"push", "flush"}
          PROVE  worker'[i].msg \in stored'
        BY <1>1, <1>2, <1>4 DEF WorkersMove, OnItsWayIsStored
    <1>5. \A m \in Message : OnItsWay(m)' => m \in stored'
        BY <1>1, <1>2, <1>3
    <1> QED
        BY <1>4, <1>5 DEF OnItsWayIsStored

(* The steps that write the summary, and what the others do to the flushes:  *)
(* they start one, or a crash ends some.                                    *)
ListStep ==
    \E i \in Syncer, c \in Caller :
        Upsert(i, c) \/ UpsertFails(i, c) \/ WriteRedis(i, c) \/ RedisFails(i, c)
QuietStep ==
    /\ UNCHANGED <<dbRow, snapshot, timeline>>
    /\ sumFaults' >= sumFaults /\ sumCrashes' >= sumCrashes
    /\ \A i \in Syncer, c \in Caller :
        \/ flush'[i][c] = flush[i][c]
        \/ /\ flush'[i][c].pc \in {"idle", "mysql"}
           /\ flush[i][c].pc # "idle" => sumCrashes' > 0
           /\ flush'[i][c].pc = "mysql" => ~flush'[i][c].wrote

LEMMA Steps ==
    SumTypeInv /\ [SumNext]_sumVars => QuietStep \/ ListStep \/ SnapshotExpires
    <1> SUFFICES ASSUME SumTypeInv, [SumNext]_sumVars
                 PROVE  QuietStep \/ ListStep \/ SnapshotExpires
        OBVIOUS
    <1>a. sumFaults \in Nat /\ sumCrashes \in Nat
        BY DEF SumTypeInv, SumTypeOK
    <1> DEFINE Only(i, c) ==
            \A j \in Syncer, e \in Caller : j # i \/ e # c => flush'[j][e] = flush[j][e]
    <1>1. ASSUME NEW i \in Syncer, PushDegrades(i)
          PROVE  QuietStep
        <2>1. "push" \in Caller /\ worker[i].msg \in Message /\ StartFlush(i, "push", worker[i].msg)
            BY <1>1 DEF PushDegrades, SumTypeInv, BusyHasMessage, Caller
        <2>2. flush'[i]["push"].pc = "mysql" /\ ~flush'[i]["push"].wrote /\ Only(i, "push")
            BY <2>1, StartFlushFacts
        <2>3. UNCHANGED <<listVars, sumBudget>> /\ flush[i]["push"].pc = "idle"
            BY <1>1 DEF PushDegrades, SumTypeInv, BusyHasMessage
        <2> QED
            BY <1>a, <2>2, <2>3 DEF QuietStep, listVars, sumBudget
    <1>2. ASSUME NEW i \in Syncer, TakeBatch(i)
          PROVE  QuietStep
        <2>1. flush'[i]["run"].pc = "mysql" /\ ~flush'[i]["run"].wrote /\ Only(i, "run")
            BY <1>2, TakeBatchFacts
        <2>2. UNCHANGED <<listVars, sumBudget>> /\ flush[i]["run"].pc = "idle"
            BY <1>2 DEF TakeBatch
        <2> QED
            BY <1>a, <2>1, <2>2 DEF QuietStep, listVars, sumBudget
    <1>3. ASSUME NEW i \in Syncer, SyncerCrash(i)
          PROVE  QuietStep
        <2>1. /\ \A e \in Caller : flush'[i][e].pc = "idle"
              /\ \A j \in Syncer : j # i => flush'[j] = flush[j]
            BY <1>3, CrashFacts
        <2>2. UNCHANGED <<listVars, sumFaults>> /\ sumCrashes' = sumCrashes + 1
            BY <1>3 DEF SyncerCrash
        <2> QED
            BY <1>a, <2>1, <2>2 DEF QuietStep, listVars
    <1>4. ASSUME UNCHANGED listVars, UNCHANGED flush, UNCHANGED sumCrashes,
                 UNCHANGED sumFaults \/ sumFaults' = sumFaults + 1
          PROVE  QuietStep
        BY <1>a, <1>4 DEF QuietStep, listVars
    <1>5. CASE UNCHANGED sumVars
        BY <1>4, <1>5 DEF sumVars, flushVars, sumBudget
    <1>6. ASSUME NEW i \in Syncer, EnsureFails(i)
          PROVE  QuietStep
        BY <1>4, <1>6 DEF EnsureFails, flushVars, SumFault
    <1>7. ASSUME \/ \E i \in Syncer : \/ \E m \in Message : Pull(i, m)
                                      \/ CurrentMaxSeq(i) \/ EnsureUserSessions(i)
                                      \/ StoreMessage(i) \/ Push(i) \/ GuardExpires(i)
                 \/ \E m \in Message : MarkSessionRead(m)
                 \/ UpdateUserSession
          PROVE  UNCHANGED <<listVars, flush, sumBudget>>
        BY <1>7 DEF Pull, CurrentMaxSeq, EnsureUserSessions, StoreMessage, Push,
            GuardExpires, MarkSessionRead, UpdateUserSession, flushVars
    <1>8. UNCHANGED <<listVars, flush, sumBudget>> => QuietStep
        BY <1>4 DEF sumBudget
    <1> QED
        BY <1>1, <1>2, <1>3, <1>5, <1>6, <1>7, <1>8 DEF SumNext, WorkerStep, FlushStep, ListStep

(* What a flush writes: the row first, then the snapshot and the timelines. *)
LEMMA ListFacts ==
    ASSUME SumTypeInv, FlushHasMessage, [SumNext]_sumVars, ListStep
    PROVE  \E i \in Syncer, c \in Caller :
            /\ flush[i][c].pc # "idle" /\ flush[i][c].msg \in Message /\ OnItsWay(flush[i][c].msg)
            /\ \A j \in Syncer, e \in Caller : j # i \/ e # c => flush'[j][e] = flush[j][e]
            /\ Upsert(i, c) \/ UpsertFails(i, c) \/ WriteRedis(i, c) \/ RedisFails(i, c)
    <1>1. PICK i \in Syncer, c \in Caller :
            Upsert(i, c) \/ UpsertFails(i, c) \/ WriteRedis(i, c) \/ RedisFails(i, c)
        BY DEF ListStep
    <1>2. flush[i][c].pc # "idle" /\ flush[i][c].msg \in Message
        BY <1>1 DEF Upsert, UpsertFails, WriteRedis, RedisFails, FlushHasMessage
    <1>3. OnItsWay(flush[i][c].msg)
        BY <1>2 DEF OnItsWay, InFlush
    <1>4. \A j \in Syncer, e \in Caller : j # i \/ e # c => flush'[j][e] = flush[j][e]
        <2>1. CASE Upsert(i, c)
            BY <2>1, UpsertFacts
        <2>2. CASE UpsertFails(i, c)
            BY <2>2, UpsertFailsFacts
        <2>3. CASE WriteRedis(i, c) \/ RedisFails(i, c)
            BY <1>2, <2>3, FinishFlushFacts DEF WriteRedis, RedisFails
        <2> QED
            BY <1>1, <2>1, <2>2, <2>3
    <1> QED
        BY <1>1, <1>2, <1>3, <1>4

LEMMA SeqTypes ==
    ASSUME SumTypeInv
    PROVE  /\ dbRow \in Summary /\ snapshot \in Summary
           /\ dbRow.seq \in Nat /\ snapshot.seq \in Nat /\ timeline \in Nat
           /\ Message \subseteq 1..MaxMsg /\ MaxMsg \in Nat /\ Message \subseteq 0..MaxMsg
    BY SessionSummaryAssumption DEF SumTypeInv, SumTypeOK, Summary, Message

LEMMA OneMessageStep ==
    SumTypeInv /\ FlushHasMessage /\ OnItsWayIsStored /\ SummaryIsOneMessage /\ [SumNext]_sumVars
        => SummaryIsOneMessage'
    <1> SUFFICES ASSUME SumTypeInv, FlushHasMessage, OnItsWayIsStored, SummaryIsOneMessage,
                        [SumNext]_sumVars
                 PROVE  SummaryIsOneMessage'
        OBVIOUS
    <1>1. stored \subseteq stored'
        BY MessagesMoveStep DEF MessagesMove, WorkersMove
    <1>2. CASE QuietStep
        BY <1>1, <1>2 DEF QuietStep, SummaryIsOneMessage
    <1>3. CASE SnapshotExpires
        BY <1>1, <1>3 DEF SnapshotExpires, SummaryIsOneMessage, NoSummary, SummaryOf
    <1>4. CASE ListStep
        <2>1. PICK i \in Syncer, c \in Caller :
                /\ flush[i][c].msg \in Message /\ OnItsWay(flush[i][c].msg)
                /\ Upsert(i, c) \/ UpsertFails(i, c) \/ WriteRedis(i, c) \/ RedisFails(i, c)
            BY <1>4, ListFacts
        <2>2. PICK m \in Message : m = flush[i][c].msg
            BY <2>1
        <2>3. m \in stored /\ m \in 0..MaxMsg /\ m \in Nat
            BY <2>1, <2>2, SeqTypes DEF OnItsWayIsStored
        <2>4. dbRow' \in {dbRow, Merge(dbRow, m)} /\ snapshot' \in {snapshot, NewSnapshot(m)}
            BY <2>1, <2>2 DEF Upsert, UpsertFails, WriteRedis, RedisFails
        <2>5. /\ Merge(dbRow, m).content = Merge(dbRow, m).seq
              /\ Merge(dbRow, m).seq \in {dbRow.seq, m}
            BY <2>3, MergeFacts, LargerType, SeqTypes DEF SummaryIsOneMessage
        <2>6. /\ NewSnapshot(m).content = NewSnapshot(m).seq
              /\ NewSnapshot(m).seq \in {snapshot.seq, m}
            BY <2>3, SnapshotFacts, LargerType, SeqTypes DEF SummaryIsOneMessage
        <2>7. dbRow'.content = dbRow'.seq /\ (dbRow'.seq > 0 => dbRow'.seq \in stored')
            BY <1>1, <2>3, <2>4, <2>5 DEF SummaryIsOneMessage
        <2>8. snapshot'.content = snapshot'.seq /\ (snapshot'.seq > 0 => snapshot'.seq \in stored')
            BY <1>1, <2>3, <2>4, <2>6 DEF SummaryIsOneMessage
        <2> QED
            BY <2>7, <2>8 DEF SummaryIsOneMessage
    <1> QED
        BY <1>2, <1>3, <1>4, Steps

LEMMA OneMessageInit == SumInit => OneMessageInv
    <1> SUFFICES ASSUME SumInit PROVE OneMessageInv
        OBVIOUS
    <1>1. /\ \A i \in Syncer : worker[i].pc = "idle" /\ Len(channel[i]) = 0
          /\ \A i \in Syncer, c \in Caller : flush[i][c].pc = "idle"
        BY DEF SumInit, NotWorking, NotFlushing
    <1>2. FlushHasMessage /\ OnItsWayIsStored
        BY <1>1 DEF FlushHasMessage, OnItsWayIsStored, OnItsWay, InChannel, InFlush
    <1>3. SummaryIsOneMessage
        BY DEF SumInit, SummaryIsOneMessage, NoSummary, SummaryOf
    <1> QED
        BY <1>2, <1>3, SumTypeInit DEF OneMessageInv

LEMMA OneMessageInvariant == SumSpec => []OneMessageInv
    <1>1. OneMessageInv /\ [SumNext]_sumVars => OneMessageInv'
        BY SumTypeStep, FlushHasMessageStep, OnItsWayIsStoredStep, OneMessageStep DEF OneMessageInv
    <1> QED
        BY <1>1, OneMessageInit, PTL DEF SumSpec

(* The row and the snapshot of a session (session, session:info) always     *)
(* show one message that is stored, whichever flushes of batchFlush overlap,*)
(* fail half way or die: every update is pushed after its message is stored,*)
(* and both writes take the content and the seq together.                   *)
THEOREM SummariesAreOneMessage == SumSpec => []SummaryIsOneMessage
    <1>1. OneMessageInv => SummaryIsOneMessage
        BY DEF OneMessageInv
    <1> QED
        BY <1>1, OneMessageInvariant, PTL

--------------------------------------------------------------------------------

(* The summary never goes back.                                             *)

LEMMA NeverBackStep ==
    SumTypeInv /\ FlushHasMessage /\ [SumNext]_sumVars =>
        /\ dbRow'.seq >= dbRow.seq /\ timeline' >= timeline
        /\ snapshot'.seq >= snapshot.seq \/ snapshot' = NoSummary
    <1> SUFFICES ASSUME SumTypeInv, FlushHasMessage, [SumNext]_sumVars
                 PROVE  /\ dbRow'.seq >= dbRow.seq /\ timeline' >= timeline
                        /\ snapshot'.seq >= snapshot.seq \/ snapshot' = NoSummary
        OBVIOUS
    <1>1. CASE QuietStep
        BY <1>1, SeqTypes DEF QuietStep
    <1>2. CASE SnapshotExpires
        BY <1>2, SeqTypes DEF SnapshotExpires
    <1>3. CASE ListStep
        <2>1. PICK i \in Syncer, c \in Caller :
                /\ flush[i][c].msg \in Message
                /\ Upsert(i, c) \/ UpsertFails(i, c) \/ WriteRedis(i, c) \/ RedisFails(i, c)
            BY <1>3, ListFacts
        <2>2. PICK m \in Message : m = flush[i][c].msg
            BY <2>1
        <2>3. m \in 0..MaxMsg /\ m \in Nat
            BY SeqTypes
        <2>4. /\ dbRow' \in {dbRow, Merge(dbRow, m)} /\ snapshot' \in {snapshot, NewSnapshot(m)}
              /\ timeline' \in {timeline, Larger(timeline, m)}
            BY <2>1, <2>2 DEF Upsert, UpsertFails, WriteRedis, RedisFails, NewTimeline
        <2>5. Merge(dbRow, m).seq >= dbRow.seq
            BY <2>3, MergeFacts, LargerType, SeqTypes
        <2>6. NewSnapshot(m).seq >= snapshot.seq
            BY <2>3, SnapshotFacts, LargerType, SeqTypes
        <2>7. Larger(timeline, m) >= timeline
            BY <2>3, LargerType, SeqTypes
        <2>8. dbRow'.seq >= dbRow.seq
            BY <2>4, <2>5, SeqTypes
        <2>9. snapshot'.seq >= snapshot.seq
            BY <2>4, <2>6, SeqTypes
        <2>10. timeline' >= timeline
            BY <2>4, <2>7, SeqTypes
        <2> QED
            BY <2>8, <2>9, <2>10
    <1> QED
        BY <1>1, <1>2, <1>3, Steps

(* An older batch never takes back what a newer one wrote, in any order in  *)
(* which the batches of the instances and of their degraded workers reach   *)
(* MySQL and Redis: the seq conditions of batchFlush see to it.             *)
THEOREM SummaryOnlyAdvances == SumSpec => SummaryNeverGoesBack
    <1>1. OneMessageInv /\ [SumNext]_sumVars =>
            [ /\ dbRow'.seq >= dbRow.seq /\ timeline' >= timeline
              /\ snapshot'.seq >= snapshot.seq \/ snapshot' = NoSummary ]_sumVars
        BY NeverBackStep DEF OneMessageInv
    <1> QED
        BY <1>1, OneMessageInvariant, PTL DEF SumSpec, SummaryNeverGoesBack

--------------------------------------------------------------------------------

(* The list never promises what it does not show.                           *)

(* A message that can still be flushed: not handled, with a worker, or on   *)
(* its way.                                                                 *)
InFlight(m) ==
    \/ m \notin handled \/ OnItsWay(m)
    \/ \E i \in Syncer : worker[i].pc # "idle" /\ worker[i].msg = m

LEMMA InFlightShrinks ==
    ASSUME MessagesMove
    PROVE  \A m \in Message : InFlight(m)' => InFlight(m)
    <1> SUFFICES ASSUME NEW m \in Message, InFlight(m)' PROVE InFlight(m)
        OBVIOUS
    <1>1. CASE m \notin handled'
        BY <1>1 DEF MessagesMove, WorkersMove, InFlight
    <1>2. CASE OnItsWay(m)'
        BY <1>2 DEF MessagesMove, SetsOut, InFlight
    <1>3. CASE \E i \in Syncer : worker'[i].pc # "idle" /\ worker'[i].msg = m
        BY <1>3 DEF MessagesMove, WorkersMove, InFlight
    <1> QED
        BY <1>1, <1>2, <1>3 DEF InFlight

(* The timelines are written together with the snapshot and after the row;  *)
(* while there is no snapshot, what is still to be flushed is newer than    *)
(* all that put the session on the list.                                    *)
ListedInRow ==
    /\ dbRow.seq >= timeline
    /\ \A i \in Syncer, c \in Caller :
        flush[i][c].pc # "idle" /\ flush[i][c].wrote => dbRow.seq >= flush[i][c].msg
ListedInSnapshot ==
    /\ snapshot.seq = 0 \/ snapshot.seq >= timeline
    /\ snapshot.seq = 0 => \A m \in Message : InFlight(m) => m > timeline

LEMMA ListedInRowStep ==
    SumTypeInv /\ FlushHasMessage /\ ListedInRow /\ [SumNext]_sumVars => ListedInRow'
    <1> SUFFICES ASSUME SumTypeInv, FlushHasMessage, ListedInRow, [SumNext]_sumVars PROVE ListedInRow'
        OBVIOUS
    <1>a. dbRow' \in Summary
        BY SumTypeStep DEF SumTypeInv, SumTypeOK
    <1>1. dbRow'.seq >= dbRow.seq /\ dbRow'.seq \in Nat /\ dbRow.seq \in Nat
        BY <1>a, NeverBackStep, SeqTypes, SessionSummaryAssumption DEF Summary
    <1>2. \A i \in Syncer, c \in Caller : flush[i][c].msg \in Nat
        BY SumTypeAt
    <1>3. CASE QuietStep
        <2>1. UNCHANGED <<dbRow, timeline>>
            BY <1>3 DEF QuietStep
        <2>2. \A i \in Syncer, c \in Caller : \/ flush'[i][c] = flush[i][c]
                                              \/ flush'[i][c].pc # "idle" => ~flush'[i][c].wrote
            BY <1>3 DEF QuietStep
        <2> QED
            BY <2>1, <2>2 DEF ListedInRow
    <1>4. CASE SnapshotExpires
        BY <1>4 DEF SnapshotExpires, ListedInRow, flushVars
    <1>5. CASE ListStep
        <2>1. PICK i \in Syncer, c \in Caller :
                /\ flush[i][c].pc # "idle" /\ flush[i][c].msg \in Message
                /\ \A j \in Syncer, e \in Caller : j # i \/ e # c => flush'[j][e] = flush[j][e]
                /\ Upsert(i, c) \/ UpsertFails(i, c) \/ WriteRedis(i, c) \/ RedisFails(i, c)
            BY <1>5, ListFacts
        <2>2. \/ flush'[i][c].pc = "idle" \/ ~flush'[i][c].wrote
              \/ dbRow'.seq >= flush'[i][c].msg
            <3>1. CASE Upsert(i, c)
                <4>1. flush'[i][c].msg = flush[i][c].msg /\ flush[i][c].msg \in 0..MaxMsg
                    BY <2>1, <3>1, UpsertFacts, SumTypeAt
                <4>2. dbRow'.seq = Larger(dbRow.seq, flush[i][c].msg)
                    BY <3>1, <4>1, MergeFacts, SeqTypes DEF Upsert
                <4>3. Larger(dbRow.seq, flush[i][c].msg) >= flush[i][c].msg
                    BY <1>1, <1>2, LargerType
                <4> QED
                    BY <4>1, <4>2, <4>3
            <3>2. CASE UpsertFails(i, c)
                <4>1. /\ flush'[i][c].msg = flush[i][c].msg
                      /\ flush'[i][c].wrote = flush[i][c].wrote
                    BY <3>2, UpsertFailsFacts
                <4>2. flush[i][c].wrote => dbRow.seq >= flush[i][c].msg
                    BY <2>1 DEF ListedInRow
                <4> QED
                    BY <1>1, <1>2, <4>1, <4>2
            <3>3. CASE WriteRedis(i, c) \/ RedisFails(i, c)
                BY <2>1, <3>3, FinishFlushFacts DEF WriteRedis, RedisFails
            <3> QED
                BY <2>1, <3>1, <3>2, <3>3
        <2>3. ASSUME NEW j \in Syncer, NEW e \in Caller, flush'[j][e].pc # "idle", flush'[j][e].wrote
              PROVE  dbRow'.seq >= flush'[j][e].msg
            <3>1. CASE j = i /\ e = c
                BY <2>2, <2>3, <3>1
            <3>2. CASE j # i \/ e # c
                <4>1. flush'[j][e] = flush[j][e]
                    BY <2>1, <3>2
                <4>2. dbRow.seq >= flush[j][e].msg /\ flush'[j][e].msg = flush[j][e].msg
                    BY <2>3, <4>1 DEF ListedInRow
                <4> QED
                    BY <1>1, <1>2, <4>2
            <3> QED
                BY <3>1, <3>2
        <2>4. dbRow'.seq >= timeline'
            <3>1. CASE Upsert(i, c) \/ UpsertFails(i, c) \/ RedisFails(i, c)
                <4>1. UNCHANGED timeline
                    BY <3>1 DEF Upsert, UpsertFails, RedisFails
                <4> QED
                    BY <1>1, <4>1, SeqTypes DEF ListedInRow
            <3>2. CASE WriteRedis(i, c)
                <4>1. /\ UNCHANGED dbRow
                      /\ timeline' = IF flush[i][c].wrote THEN Larger(timeline, flush[i][c].msg)
                                                          ELSE timeline
                    BY <3>2 DEF WriteRedis, NewTimeline
                <4>2. flush[i][c].wrote => dbRow.seq >= flush[i][c].msg
                    BY <2>1 DEF ListedInRow
                <4> QED
                    BY <4>1, <4>2 DEF ListedInRow, Larger
            <3> QED
                BY <2>1, <3>1, <3>2
        <2> QED
            BY <2>3, <2>4 DEF ListedInRow
    <1> QED
        BY <1>3, <1>4, <1>5, Steps

LEMMA ListedInSnapshotStep ==
    SumTypeInv /\ FlushHasMessage /\ ListedInSnapshot /\ [SumNext]_sumVars => ListedInSnapshot'
    <1> SUFFICES ASSUME SumTypeInv, FlushHasMessage, ListedInSnapshot, [SumNext]_sumVars
                 PROVE  ListedInSnapshot'
        OBVIOUS
    <1>1. \A m \in Message : InFlight(m)' => InFlight(m)
        BY MessagesMoveStep, InFlightShrinks
    <1>2. CASE QuietStep
        BY <1>1, <1>2 DEF QuietStep, ListedInSnapshot
    <1>3. CASE SnapshotExpires
        <2>1. /\ snapshot' = NoSummary /\ UNCHANGED timeline
              /\ 1..snapshot.seq \subseteq handled /\ NoFlush
              /\ \A i \in Syncer : channel[i] = <<>> /\ worker[i].pc = "idle"
            BY <1>3 DEF SnapshotExpires
        <2>2. \A m \in Message : InFlight(m) => m \notin handled
            BY <2>1 DEF InFlight, OnItsWay, InChannel, InFlush, NoFlush
        <2>3. \A m \in Message : InFlight(m) => m > snapshot.seq
            BY <2>1, <2>2, SeqTypes
        <2>4. \A m \in Message : InFlight(m) => m > timeline
            BY <2>3, SeqTypes DEF ListedInSnapshot
        <2>5. snapshot'.seq = 0
            BY <2>1 DEF NoSummary, SummaryOf
        <2> QED
            BY <1>1, <2>1, <2>4, <2>5 DEF ListedInSnapshot
    <1>4. CASE ListStep
        <2>1. PICK i \in Syncer, c \in Caller :
                /\ flush[i][c].msg \in Message /\ OnItsWay(flush[i][c].msg)
                /\ Upsert(i, c) \/ UpsertFails(i, c) \/ WriteRedis(i, c) \/ RedisFails(i, c)
            BY <1>4, ListFacts
        <2>2. PICK m \in Message : m = flush[i][c].msg
            BY <2>1
        <2>3. /\ m \in Nat /\ m > 0 /\ m \in 0..MaxMsg
              /\ NewSnapshot(m).seq = Larger(snapshot.seq, m) /\ NewSnapshot(m).seq \in Nat
            BY SnapshotFacts, SeqTypes DEF Larger
        <2>4. snapshot.seq = 0 => m > timeline
            BY <2>1, <2>2 DEF ListedInSnapshot, InFlight
        <2>5. CASE UNCHANGED <<snapshot, timeline>>
            BY <1>1, <2>5 DEF ListedInSnapshot
        <2>6. CASE snapshot' = NewSnapshot(m) /\ timeline' \in {timeline, Larger(timeline, m)}
            <3>1. snapshot'.seq > 0 /\ snapshot'.seq >= m
                BY <2>3, <2>6, SeqTypes DEF Larger
            <3>2. snapshot'.seq >= timeline
                BY <2>3, <2>4, <2>6, SeqTypes DEF ListedInSnapshot, Larger
            <3>3. snapshot'.seq >= timeline'
                BY <2>6, <3>1, <3>2 DEF Larger
            <3> QED
                BY <3>1, <3>3 DEF ListedInSnapshot
        <2> QED
            BY <2>1, <2>2, <2>5, <2>6 DEF Upsert, UpsertFails, WriteRedis, RedisFails, NewTimeline
    <1> QED
        BY <1>2, <1>3, <1>4, Steps

ListedInv == OneMessageInv /\ ListedInRow /\ ListedInSnapshot

LEMMA ListedInvariant == SumSpec => []ListedInv
    <1>1. SumInit => ListedInRow /\ ListedInSnapshot
        <2> SUFFICES ASSUME SumInit PROVE ListedInRow /\ ListedInSnapshot
            OBVIOUS
        <2>1. /\ dbRow.seq = 0 /\ snapshot.seq = 0 /\ timeline = 0
              /\ \A i \in Syncer, c \in Caller : flush[i][c].pc = "idle"
            BY DEF SumInit, NoSummary, SummaryOf, NotFlushing
        <2>2. SumTypeInv
            BY SumTypeInit
        <2>3. \A m \in Message : m > 0
            BY <2>2, SeqTypes
        <2> QED
            BY <2>1, <2>3 DEF ListedInRow, ListedInSnapshot
    <1>2. SumInit => ListedInv
        BY <1>1, OneMessageInit DEF ListedInv
    <1>3. ListedInv /\ [SumNext]_sumVars => ListedInv'
        BY SumTypeStep, FlushHasMessageStep, OnItsWayIsStoredStep, OneMessageStep,
           ListedInRowStep, ListedInSnapshotStep DEF ListedInv, OneMessageInv
    <1> QED
        BY <1>2, <1>3, PTL DEF SumSpec

(* A session is never listed for a message that is newer than the one it     *)
(* shows, whatever failed, died or expired in between: batchFlush writes the *)
(* row before the timelines, the snapshot with them, and readers fall back   *)
(* to the row (GetActiveSessions, FindSessionsByIDs).                        *)
THEOREM ListedSessionsAreShown == SumSpec => []ListedIsShown
    <1>1. ListedInv => ListedIsShown
        <2> SUFFICES ASSUME ListedInv PROVE ListedIsShown
            OBVIOUS
        <2>1. SumTypeInv
            BY DEF ListedInv, OneMessageInv
        <2>2. /\ dbRow.seq >= timeline
              /\ snapshot.seq = 0 \/ snapshot.seq >= timeline
            BY DEF ListedInv, ListedInRow, ListedInSnapshot
        <2> QED
            BY <2>1, <2>2, SeqTypes DEF ListedIsShown, Shown
    <1> QED
        BY <1>1, ListedInvariant, PTL

--------------------------------------------------------------------------------

(* Without failures the snapshot agrees with the row.                       *)

(* The row leads.  Where the snapshot is behind, a flush is about to bring   *)
(* it up, or there is none and nothing older is left to make one.            *)
RowLeads ==
    sumFaults = 0 /\ sumCrashes = 0 =>
        /\ \A i \in Syncer, c \in Caller : flush[i][c].pc = "redis" => flush[i][c].wrote
        /\ snapshot.seq <= dbRow.seq
        /\ \/ dbRow.seq = snapshot.seq
           \/ \E i \in Syncer, c \in Caller :
                flush[i][c].pc = "redis" /\ flush[i][c].msg = dbRow.seq
           \/ snapshot.seq = 0 /\ \A m \in Message : InFlight(m) => m > dbRow.seq

LEMMA RowLeadsStep ==
    ListedInv /\ RowLeads /\ [SumNext]_sumVars => RowLeads'
    <1> SUFFICES ASSUME ListedInv, RowLeads, [SumNext]_sumVars,
                        sumFaults' = 0, sumCrashes' = 0
                 PROVE  RowLeads'
        BY DEF RowLeads
    <1>t. SumTypeInv /\ FlushHasMessage /\ SummaryIsOneMessage
        BY DEF ListedInv, OneMessageInv
    <1>n. sumFaults \in Nat /\ sumCrashes \in Nat
        BY <1>t DEF SumTypeInv, SumTypeOK
    <1>1. \A m \in Message : InFlight(m)' => InFlight(m)
        BY <1>t, MessagesMoveStep, InFlightShrinks
    <1>2. CASE QuietStep
        <2>1. sumFaults = 0 /\ sumCrashes = 0
            BY <1>2, <1>n DEF QuietStep
        <2>2. \A i \in Syncer, c \in Caller : flush'[i][c].pc = "redis" => flush'[i][c] = flush[i][c]
            BY <1>2 DEF QuietStep
        <2>3. \A i \in Syncer, c \in Caller : flush[i][c].pc = "redis" => flush'[i][c] = flush[i][c]
            BY <1>2 DEF QuietStep
        <2>4. UNCHANGED <<dbRow, snapshot>>
            BY <1>2 DEF QuietStep
        <2> QED
            BY <1>1, <2>1, <2>2, <2>3, <2>4 DEF RowLeads
    <1>3. CASE SnapshotExpires
        <2>1. /\ snapshot' = NoSummary /\ snapshot # NoSummary /\ UNCHANGED <<dbRow, flush>>
              /\ UNCHANGED <<sumFaults, sumCrashes>>
              /\ 1..snapshot.seq \subseteq handled /\ NoFlush
              /\ \A i \in Syncer : channel[i] = <<>> /\ worker[i].pc = "idle"
            BY <1>3 DEF SnapshotExpires, sumBudget, flushVars
        <2>2. \A m \in Message : InFlight(m) => m \notin handled
            BY <2>1 DEF InFlight, OnItsWay, InChannel, InFlush, NoFlush
        <2>3. \A m \in Message : InFlight(m) => m > snapshot.seq
            BY <1>t, <2>1, <2>2, SeqTypes
        <2>4. snapshot.seq # 0
            BY <1>t, <2>1, SeqTypes DEF SummaryIsOneMessage, NoSummary, SummaryOf, Summary
        <2>5. dbRow.seq = snapshot.seq
            BY <2>1, <2>4 DEF RowLeads, NoFlush
        <2>6. snapshot'.seq = 0 /\ snapshot'.seq <= dbRow'.seq
            BY <1>t, <2>1, SeqTypes DEF NoSummary, SummaryOf
        <2>7. \A i \in Syncer, c \in Caller : flush'[i][c].pc # "redis"
            BY <2>1 DEF NoFlush
        <2> QED
            BY <1>1, <2>1, <2>3, <2>5, <2>6, <2>7 DEF RowLeads
    <1>4. CASE ListStep
        <2>1. PICK i \in Syncer, c \in Caller :
                /\ flush[i][c].msg \in Message /\ OnItsWay(flush[i][c].msg)
                /\ \A j \in Syncer, e \in Caller : j # i \/ e # c => flush'[j][e] = flush[j][e]
                /\ Upsert(i, c) \/ UpsertFails(i, c) \/ WriteRedis(i, c) \/ RedisFails(i, c)
            BY <1>t, <1>4, ListFacts
        <2>2. PICK m \in Message : m = flush[i][c].msg
            BY <2>1
        <2>a. m \in Nat /\ m > 0 /\ m \in 0..MaxMsg /\ dbRow.seq \in Nat /\ snapshot.seq \in Nat
            BY <1>t, SeqTypes
        <2>b. snapshot.seq = 0 => m > timeline
            BY <2>1, <2>2 DEF ListedInv, ListedInSnapshot, InFlight
        <2>3. /\ m \in Nat /\ m > 0 /\ m \in 0..MaxMsg /\ dbRow.seq \in Nat /\ snapshot.seq \in Nat
              /\ NewSnapshot(m).seq = Larger(snapshot.seq, m)
              /\ Merge(dbRow, m).seq = Larger(dbRow.seq, m)
              /\ snapshot.seq = 0 => m > timeline
            BY <1>t, <2>a, <2>b, SeqTypes, SnapshotFacts, MergeFacts
        <2>4. Upsert(i, c) \/ WriteRedis(i, c)
            BY <1>n, <2>1 DEF UpsertFails, RedisFails, SumFault
        <2>5. sumFaults = 0 /\ sumCrashes = 0
            BY <2>4 DEF Upsert, WriteRedis, sumBudget
        <2>6. CASE Upsert(i, c)
            <3>1. /\ flush'[i][c].pc = "redis" /\ flush'[i][c].msg = m /\ flush'[i][c].wrote
                  /\ flush[i][c].pc = "mysql"
                BY <1>t, <2>2, <2>6, UpsertFacts DEF Upsert
            <3>2. dbRow'.seq = Larger(dbRow.seq, m) /\ UNCHANGED snapshot
                BY <2>2, <2>3, <2>6 DEF Upsert
            <3>3. \A j \in Syncer, e \in Caller : flush'[j][e].pc = "redis" => flush'[j][e].wrote
                BY <2>1, <2>5, <3>1 DEF RowLeads
            <3>4. snapshot'.seq <= dbRow'.seq
                BY <2>3, <2>5, <3>2 DEF RowLeads, Larger
            <3>5. CASE m > dbRow.seq
                <4>1. flush'[i][c].msg = dbRow'.seq
                    BY <2>3, <3>1, <3>2, <3>5 DEF Larger
                <4> QED
                    BY <3>1, <3>3, <3>4, <4>1 DEF RowLeads
            <3>6. CASE m <= dbRow.seq
                <4>1. dbRow'.seq = dbRow.seq
                    BY <2>3, <3>2, <3>6 DEF Larger
                <4>2. \A j \in Syncer, e \in Caller :
                        flush[j][e].pc = "redis" => flush'[j][e] = flush[j][e]
                    BY <2>1, <3>1
                <4> QED
                    BY <1>1, <2>5, <3>2, <3>3, <3>4, <4>1, <4>2 DEF RowLeads
            <3> QED
                BY <2>3, <3>5, <3>6
        <2>7. CASE WriteRedis(i, c)
            <3>1. /\ flush'[i][c].pc = "idle" /\ flush[i][c].pc = "redis"
                BY <1>t, <2>7, FinishFlushFacts DEF WriteRedis
            <3>2. snapshot'.seq = Larger(snapshot.seq, m) /\ UNCHANGED dbRow
                BY <2>2, <2>3, <2>7 DEF WriteRedis
            <3>3. \A j \in Syncer, e \in Caller : flush'[j][e].pc = "redis" => flush'[j][e].wrote
                BY <2>1, <2>5, <3>1 DEF RowLeads
            <3>4. dbRow.seq >= m
                BY <2>2, <2>5, <3>1 DEF RowLeads, ListedInv, ListedInRow
            <3>5. snapshot'.seq <= dbRow'.seq
                BY <2>3, <2>5, <3>2, <3>4 DEF RowLeads, Larger
            <3>6. CASE dbRow.seq = snapshot.seq
                <4>1. dbRow'.seq = snapshot'.seq
                    BY <2>3, <3>2, <3>4, <3>6 DEF Larger
                <4> QED
                    BY <3>3, <3>5, <4>1 DEF RowLeads
            <3>7. CASE \E j \in Syncer, e \in Caller :
                        flush[j][e].pc = "redis" /\ flush[j][e].msg = dbRow.seq
                <4>1. PICK j \in Syncer, e \in Caller :
                        flush[j][e].pc = "redis" /\ flush[j][e].msg = dbRow.seq
                    BY <3>7
                <4>2. CASE j = i /\ e = c
                    <5>1. m = dbRow.seq
                        BY <2>2, <4>1, <4>2
                    <5>2. dbRow'.seq = snapshot'.seq
                        BY <2>3, <2>5, <3>2, <5>1 DEF RowLeads, Larger
                    <5> QED
                        BY <3>3, <3>5, <5>2 DEF RowLeads
                <4>3. CASE j # i \/ e # c
                    <5>1. flush'[j][e].pc = "redis" /\ flush'[j][e].msg = dbRow'.seq
                        BY <2>1, <3>2, <4>1, <4>3
                    <5> QED
                        BY <3>3, <3>5, <5>1 DEF RowLeads
                <4> QED
                    BY <4>2, <4>3
            <3>8. CASE snapshot.seq = 0 /\ \A n \in Message : InFlight(n) => n > dbRow.seq
                <4>1. m > dbRow.seq
                    BY <2>1, <2>2, <3>8 DEF InFlight
                <4> QED
                    BY <2>3, <3>4, <4>1
            <3> QED
                BY <2>5, <3>6, <3>7, <3>8 DEF RowLeads
        <2> QED
            BY <2>4, <2>6, <2>7
    <1> QED
        BY <1>2, <1>3, <1>4, <1>t, Steps

(* In a run without failed calls and crashes, once the flushes are over the  *)
(* snapshot of a session tells the same as its row, or there is none,        *)
(* however the batches of the instances reached MySQL and Redis.             *)
THEOREM SnapshotsAgree == SumSpec => []SnapshotAgrees
    <1>1. SumInit => RowLeads
        <2> SUFFICES ASSUME SumInit PROVE RowLeads
            OBVIOUS
        <2>1. /\ dbRow.seq = 0 /\ snapshot.seq = 0
              /\ \A i \in Syncer, c \in Caller : flush[i][c].pc = "idle"
            BY DEF SumInit, NoSummary, SummaryOf, NotFlushing
        <2> QED
            BY <2>1 DEF RowLeads
    <1>2. ListedInv /\ RowLeads => SnapshotAgrees
        <2> SUFFICES ASSUME ListedInv, RowLeads, NoFlush, sumFaults = 0, sumCrashes = 0
                     PROVE  snapshot \in {NoSummary, dbRow}
            BY DEF SnapshotAgrees
        <2>1. SumTypeInv /\ SummaryIsOneMessage
            BY DEF ListedInv, OneMessageInv
        <2>2. dbRow \in Summary /\ snapshot \in Summary
            BY <2>1, SeqTypes
        <2>3. dbRow.content = dbRow.seq /\ snapshot.content = snapshot.seq
            BY <2>1 DEF SummaryIsOneMessage
        <2>4. dbRow.seq = snapshot.seq \/ snapshot.seq = 0
            BY DEF RowLeads, NoFlush
        <2> QED
            BY <2>2, <2>3, <2>4 DEF Summary, NoSummary, SummaryOf
    <1> QED
        BY <1>1, <1>2, RowLeadsStep, ListedInvariant, PTL DEF SumSpec

--------------------------------------------------------------------------------

(* The read cursor.                                                         *)

(* No step moves the cursor back. *)
LEMMA CursorStep ==
    SumTypeInv /\ [SumNext]_sumVars =>
        /\ cursor.row => cursor'.row /\ cursor'.read >= cursor.read
        /\ \/ UNCHANGED hidden
           \/ \E i \in Syncer : EnsureUserSessions(i) /\ ~cursor.row /\ hidden' = worker[i].top
    <1> SUFFICES ASSUME SumTypeInv, [SumNext]_sumVars
                 PROVE  /\ cursor.row => cursor'.row /\ cursor'.read >= cursor.read
                        /\ \/ UNCHANGED hidden
                           \/ \E i \in Syncer : /\ EnsureUserSessions(i) /\ ~cursor.row
                                                /\ hidden' = worker[i].top
        OBVIOUS
    <1>1. cursor.read \in Nat /\ Message \subseteq Nat
        BY SessionSummaryAssumption DEF SumTypeInv, SumTypeOK, Message
    <1>2. ASSUME NEW i \in Syncer, EnsureUserSessions(i)
          PROVE  /\ cursor.row => UNCHANGED <<cursor, hidden>>
                 /\ ~cursor.row => hidden' = worker[i].top
        BY <1>2 DEF EnsureUserSessions
    <1>3. ASSUME NEW m \in Message, MarkSessionRead(m)
          PROVE  cursor'.row /\ cursor'.read >= cursor.read /\ UNCHANGED hidden
        <2>1. cursor'.row /\ cursor'.read = Larger(cursor.read, m) /\ UNCHANGED hidden
            BY <1>3 DEF MarkSessionRead
        <2> QED
            BY <1>1, <2>1, LargerType
    <1>4. UpdateUserSession => ~cursor.row /\ UNCHANGED hidden
        BY DEF UpdateUserSession
    <1>5. ASSUME \/ \E i \in Syncer :
                        \/ \E m \in Message : Pull(i, m)
                        \/ CurrentMaxSeq(i) \/ EnsureFails(i) \/ StoreMessage(i) \/ Push(i)
                        \/ PushDegrades(i) \/ GuardExpires(i) \/ SyncerCrash(i) \/ TakeBatch(i)
                        \/ \E c \in Caller : FlushStep(i, c)
                 \/ SnapshotExpires \/ UNCHANGED sumVars
          PROVE  UNCHANGED cursorVars
        <2>1. ASSUME NEW i \in Syncer, NEW m \in Message, Pull(i, m) PROVE UNCHANGED cursorVars
            BY <2>1 DEF Pull
        <2>2. ASSUME NEW i \in Syncer,
                     CurrentMaxSeq(i) \/ EnsureFails(i) \/ StoreMessage(i) \/ Push(i) \/ PushDegrades(i)
              PROVE  UNCHANGED cursorVars
            BY <2>2 DEF CurrentMaxSeq, EnsureFails, StoreMessage, Push, PushDegrades
        <2>3. ASSUME NEW i \in Syncer, GuardExpires(i) \/ SyncerCrash(i) \/ TakeBatch(i)
              PROVE  UNCHANGED cursorVars
            BY <2>3 DEF GuardExpires, SyncerCrash, TakeBatch
        <2>4. ASSUME NEW i \in Syncer, NEW c \in Caller, FlushStep(i, c)
              PROVE  UNCHANGED cursorVars
            BY <2>4 DEF FlushStep, Upsert, UpsertFails, WriteRedis, RedisFails
        <2>5. CASE SnapshotExpires \/ UNCHANGED sumVars
            BY <2>5 DEF SnapshotExpires, sumVars
        <2> QED
            BY <1>5, <2>1, <2>2, <2>3, <2>4, <2>5
    <1>6. UNCHANGED cursorVars => UNCHANGED hidden /\ UNCHANGED cursor
        BY DEF cursorVars
    <1> QED
        BY <1>1, <1>2, <1>3, <1>4, <1>5, <1>6 DEF SumNext, WorkerStep

(* A user's read cursor never goes back once its row exists, however the    *)
(* reports of MarkSessionRead, the settings and the ensuring of several     *)
(* instances overtake each other.                                           *)
THEOREM CursorOnlyAdvances == SumSpec => CursorNeverGoesBack
    <1>1. OneMessageInv /\ [SumNext]_sumVars =>
            [cursor.row => cursor'.row /\ cursor'.read >= cursor.read]_sumVars
        BY CursorStep DEF OneMessageInv
    <1> QED
        BY <1>1, OneMessageInvariant, PTL DEF SumSpec, CursorNeverGoesBack

(* Past the ensuring, a message has the row or is marked as unensured; the   *)
(* guard stands for a row that exists; a worker about to insert saw a        *)
(* message that is stored.                                                   *)
EnsuredOrMarked ==
    /\ \A i \in Syncer :
        /\ guard[i] /\ worker[i].pc \notin {"read", "insert"} => cursor.row
        /\ worker[i].pc \in {"store", "push", "flush"} =>
             cursor.row \/ worker[i].msg \in unensured
        /\ worker[i].pc = "insert" /\ worker[i].top > 0 => worker[i].top \in stored
    /\ \A m \in stored : cursor.row \/ m \in unensured

LEMMA EnsuredStep ==
    OneMessageInv /\ EnsuredOrMarked /\ [SumNext]_sumVars => EnsuredOrMarked'
    <1> SUFFICES ASSUME OneMessageInv, EnsuredOrMarked, [SumNext]_sumVars PROVE EnsuredOrMarked'
        OBVIOUS
    <1>t. SumTypeInv
        BY DEF OneMessageInv
    <1>r. cursor.row => cursor'.row
        BY <1>t, CursorStep
    <1>0. ASSUME UNCHANGED <<guard, worker, stored, unensured>>
          PROVE  EnsuredOrMarked'
        BY <1>0, <1>r DEF EnsuredOrMarked
    <1>1. ASSUME NEW i \in Syncer, NEW m \in Message, Pull(i, m)
          PROVE  EnsuredOrMarked'
        <2>1. /\ UNCHANGED <<stored, unensured, cursor>> /\ guard \in [Syncer -> BOOLEAN]
              /\ worker[i].pc = "idle" /\ guard' = [guard EXCEPT ![i] = TRUE]
            BY <1>t, <1>1 DEF Pull, cursorVars, SumTypeInv, SumTypeOK
        <2>2. /\ worker'[i].pc = IF guard[i] THEN "store" ELSE "read"
              /\ \A j \in Syncer : j # i => worker'[j] = worker[j]
            BY <1>t, <1>1, PullFacts
        <2>3. guard[i] => cursor.row
            BY <2>1 DEF EnsuredOrMarked
        <2>4. \A j \in Syncer : j # i => guard'[j] = guard[j]
            BY <2>1
        <2>5. ASSUME NEW j \in Syncer
              PROVE  /\ guard'[j] /\ worker'[j].pc \notin {"read", "insert"} => cursor'.row
                     /\ worker'[j].pc \in {"store", "push", "flush"} =>
                          cursor'.row \/ worker'[j].msg \in unensured'
                     /\ worker'[j].pc = "insert" /\ worker'[j].top > 0 => worker'[j].top \in stored'
            <3>1. CASE j = i
                BY <2>1, <2>2, <2>3, <3>1
            <3>2. CASE j # i
                BY <2>1, <2>2, <2>4, <3>2 DEF EnsuredOrMarked
            <3> QED
                BY <3>1, <3>2
        <2> QED
            BY <2>1, <2>5 DEF EnsuredOrMarked
    <1>2. ASSUME NEW i \in Syncer, CurrentMaxSeq(i)
          PROVE  EnsuredOrMarked'
        <2>1. UNCHANGED <<guard, stored, unensured, cursor>> /\ worker[i].pc = "read"
            BY <1>2 DEF CurrentMaxSeq, cursorVars
        <2>2. /\ worker'[i].pc = "insert" /\ worker'[i].top \in {Shown.seq, dbRow.seq}
              /\ \A j \in Syncer : j # i => worker'[j] = worker[j]
            BY <1>t, <1>2, ReadFacts
        <2>3. worker'[i].top > 0 => worker'[i].top \in stored
            BY <2>2 DEF Shown, OneMessageInv, SummaryIsOneMessage
        <2>4. ASSUME NEW j \in Syncer
              PROVE  /\ guard'[j] /\ worker'[j].pc \notin {"read", "insert"} => cursor'.row
                     /\ worker'[j].pc \in {"store", "push", "flush"} =>
                          cursor'.row \/ worker'[j].msg \in unensured'
                     /\ worker'[j].pc = "insert" /\ worker'[j].top > 0 => worker'[j].top \in stored'
            <3>1. CASE j = i
                BY <2>1, <2>2, <2>3, <3>1
            <3>2. CASE j # i
                BY <2>1, <2>2, <3>2 DEF EnsuredOrMarked
            <3> QED
                BY <3>1, <3>2
        <2> QED
            BY <2>1, <2>4 DEF EnsuredOrMarked
    <1>3. ASSUME NEW i \in Syncer, EnsureUserSessions(i)
          PROVE  EnsuredOrMarked'
        <2>1. /\ UNCHANGED <<guard, stored, unensured>> /\ Proceed(i, "store") /\ cursor'.row
            BY <1>3 DEF EnsureUserSessions
        <2>2. /\ worker'[i].pc = "store" /\ \A j \in Syncer : j # i => worker'[j] = worker[j]
            BY <1>t, <2>1, ProceedFacts
        <2> QED
            BY <2>1, <2>2 DEF EnsuredOrMarked
    <1>4. ASSUME NEW i \in Syncer, EnsureFails(i)
          PROVE  EnsuredOrMarked'
        <2>1. /\ UNCHANGED <<stored, cursor>> /\ Proceed(i, "store") /\ worker[i].pc = "insert"
              /\ unensured' = unensured \cup {worker[i].msg}
              /\ guard' = [guard EXCEPT ![i] = FALSE] /\ guard \in [Syncer -> BOOLEAN]
            BY <1>t, <1>4 DEF EnsureFails, cursorVars, SumTypeInv, SumTypeOK
        <2>2. /\ worker'[i].pc = "store" /\ worker'[i].msg = worker[i].msg
              /\ \A j \in Syncer : j # i => worker'[j] = worker[j]
            BY <1>t, <2>1, ProceedFacts
        <2>3. ~guard'[i] /\ \A j \in Syncer : j # i => guard'[j] = guard[j]
            BY <2>1
        <2>4. ASSUME NEW j \in Syncer
              PROVE  /\ guard'[j] /\ worker'[j].pc \notin {"read", "insert"} => cursor'.row
                     /\ worker'[j].pc \in {"store", "push", "flush"} =>
                          cursor'.row \/ worker'[j].msg \in unensured'
                     /\ worker'[j].pc = "insert" /\ worker'[j].top > 0 => worker'[j].top \in stored'
            <3>1. CASE j = i
                BY <2>1, <2>2, <2>3, <3>1
            <3>2. CASE j # i
                BY <2>1, <2>2, <2>3, <3>2 DEF EnsuredOrMarked
            <3> QED
                BY <3>1, <3>2
        <2> QED
            BY <2>1, <2>4 DEF EnsuredOrMarked
    <1>5. ASSUME NEW i \in Syncer, StoreMessage(i)
          PROVE  EnsuredOrMarked'
        <2>1. /\ UNCHANGED <<guard, cursor, unensured>> /\ Proceed(i, "push") /\ worker[i].pc = "store"
              /\ stored' = stored \cup {worker[i].msg}
            BY <1>5 DEF StoreMessage, cursorVars
        <2>2. /\ worker'[i].pc = "push" /\ worker'[i].msg = worker[i].msg
              /\ \A j \in Syncer : j # i => worker'[j] = worker[j]
            BY <1>t, <2>1, ProceedFacts
        <2> QED
            BY <2>1, <2>2 DEF EnsuredOrMarked
    <1>6. ASSUME NEW i \in Syncer, PushDegrades(i)
          PROVE  EnsuredOrMarked'
        <2>1. /\ UNCHANGED <<guard, cursor, unensured, stored>> /\ Proceed(i, "flush")
              /\ worker[i].pc = "push"
            BY <1>6 DEF PushDegrades, cursorVars
        <2>2. /\ worker'[i].pc = "flush" /\ worker'[i].msg = worker[i].msg
              /\ \A j \in Syncer : j # i => worker'[j] = worker[j]
            BY <1>t, <2>1, ProceedFacts
        <2> QED
            BY <2>1, <2>2 DEF EnsuredOrMarked
    <1>7. ASSUME NEW i \in Syncer,
                 UNCHANGED <<guard, cursor, unensured, stored>>, worker[i].pc \in {"push", "flush"},
                 \A j \in Syncer : worker'[j] = worker[j] \/ (j = i /\ worker'[j] = NotWorking)
          PROVE  EnsuredOrMarked'
        <2>1. guard[i] => cursor.row
            BY <1>7 DEF EnsuredOrMarked
        <2> QED
            BY <1>7, <2>1 DEF EnsuredOrMarked, NotWorking
    <1>8. ASSUME NEW i \in Syncer, Push(i)
          PROVE  EnsuredOrMarked'
        <2>1. /\ Finish(i) /\ worker[i].pc = "push" /\ UNCHANGED <<guard, cursor, unensured, stored>>
            BY <1>8 DEF Push, cursorVars
        <2> QED
            BY <1>t, <1>7, <2>1, FinishFacts
    <1>9. ASSUME NEW i \in Syncer, NEW c \in Caller, WriteRedis(i, c) \/ RedisFails(i, c)
          PROVE  EnsuredOrMarked'
        <2>1. /\ FinishFlush(i, c) /\ flush[i][c].pc # "idle"
              /\ UNCHANGED <<guard, cursor, unensured, stored>>
            BY <1>9 DEF WriteRedis, RedisFails, cursorVars
        <2>2. CASE c = "push"
            <3>1. worker[i].pc = "flush"
                BY <1>t, <2>1, <2>2 DEF SumTypeInv, BusyHasMessage
            <3> QED
                BY <1>t, <1>7, <2>1, <3>1, FinishFlushFacts
        <2>3. CASE c = "run"
            BY <1>t, <1>0, <2>1, <2>3, FinishFlushFacts
        <2> QED
            BY <2>2, <2>3 DEF Caller
    <1>10. ASSUME NEW i \in Syncer, GuardExpires(i) \/ SyncerCrash(i)
           PROVE  EnsuredOrMarked'
        <2>1. /\ guard' = [guard EXCEPT ![i] = FALSE] /\ guard \in [Syncer -> BOOLEAN]
              /\ UNCHANGED <<stored, unensured, cursor>>
            BY <1>t, <1>10 DEF GuardExpires, SyncerCrash, cursorVars, SumTypeInv, SumTypeOK
        <2>2. \A j \in Syncer : worker'[j] = worker[j] \/ worker'[j] = NotWorking
            BY <1>t, <1>10, CrashFacts DEF GuardExpires
        <2>3. \A j \in Syncer : j # i => worker'[j] = worker[j]
            BY <1>t, <1>10, CrashFacts DEF GuardExpires
        <2>4. ~guard'[i] /\ \A j \in Syncer : j # i => guard'[j] = guard[j]
            BY <2>1
        <2> QED
            BY <2>1, <2>2, <2>3, <2>4 DEF EnsuredOrMarked, NotWorking
    <1>11. ASSUME \/ \E i \in Syncer : \/ TakeBatch(i)
                                       \/ \E c \in Caller : Upsert(i, c) \/ UpsertFails(i, c)
                  \/ \E m \in Message : MarkSessionRead(m)
                  \/ UpdateUserSession \/ SnapshotExpires \/ UNCHANGED sumVars
           PROVE  UNCHANGED <<guard, worker, stored, unensured>>
        BY <1>11 DEF TakeBatch, Upsert, UpsertFails, MarkSessionRead, UpdateUserSession,
            SnapshotExpires, sumVars, workVars
    <1> QED
        BY <1>0, <1>1, <1>2, <1>3, <1>4, <1>5, <1>6, <1>8, <1>9, <1>10, <1>11
        DEF SumNext, WorkerStep, FlushStep

LEMMA UnensuredGrows == [SumNext]_sumVars => unensured \subseteq unensured'
    <1> SUFFICES ASSUME [SumNext]_sumVars PROVE unensured \subseteq unensured'
        OBVIOUS
    <1>1. ASSUME NEW i \in Syncer, EnsureFails(i) PROVE unensured \subseteq unensured'
        BY <1>1 DEF EnsureFails
    <1>2. ASSUME UNCHANGED unensured PROVE unensured \subseteq unensured'
        BY <1>2
    <1>3. ASSUME NEW i \in Syncer,
                 \/ \E m \in Message : Pull(i, m)
                 \/ CurrentMaxSeq(i) \/ EnsureUserSessions(i) \/ StoreMessage(i) \/ Push(i)
                 \/ PushDegrades(i) \/ GuardExpires(i) \/ SyncerCrash(i)
                 \/ \E c \in Caller : WriteRedis(i, c) \/ RedisFails(i, c)
          PROVE  UNCHANGED unensured
        BY <1>3 DEF Pull, CurrentMaxSeq, EnsureUserSessions, StoreMessage, Push, PushDegrades,
            GuardExpires, SyncerCrash, WriteRedis, RedisFails
    <1>4. ASSUME \/ \E i \in Syncer : \/ TakeBatch(i)
                                      \/ \E c \in Caller : Upsert(i, c) \/ UpsertFails(i, c)
                 \/ \E m \in Message : MarkSessionRead(m)
                 \/ UpdateUserSession \/ SnapshotExpires \/ UNCHANGED sumVars
          PROVE  UNCHANGED workVars
        BY <1>4 DEF TakeBatch, Upsert, UpsertFails, MarkSessionRead, UpdateUserSession,
            SnapshotExpires, sumVars
    <1>5. UNCHANGED workVars => UNCHANGED unensured
        BY DEF workVars
    <1> QED
        BY <1>1, <1>2, <1>3, <1>4, <1>5 DEF SumNext, WorkerStep, FlushStep

(* EnsureUserSessions starts a user's row at the newest message it can see; *)
(* the only messages this can hide behind the cursor are those whose own    *)
(* ensuring had failed (NatsListener goes on after a failed ensure).        *)
THEOREM OnlyUnensuredAreHidden == SumSpec => []HidesOnlyUnensured
    <1>1. SumInit => EnsuredOrMarked /\ HidesOnlyUnensured
        BY DEF SumInit, EnsuredOrMarked, HidesOnlyUnensured, NotWorking
    <1>2. OneMessageInv /\ EnsuredOrMarked /\ HidesOnlyUnensured /\ [SumNext]_sumVars
            => HidesOnlyUnensured'
        <2> SUFFICES ASSUME OneMessageInv, EnsuredOrMarked, HidesOnlyUnensured, [SumNext]_sumVars
                     PROVE  HidesOnlyUnensured'
            OBVIOUS
        <2>1. unensured \subseteq unensured'
            BY UnensuredGrows
        <2>2. CASE UNCHANGED hidden
            BY <2>1, <2>2 DEF HidesOnlyUnensured
        <2>3. ASSUME NEW i \in Syncer, EnsureUserSessions(i), ~cursor.row, hidden' = worker[i].top
              PROVE  HidesOnlyUnensured'
            <3>1. worker[i].pc = "insert"
                BY <2>3 DEF EnsureUserSessions
            <3>2. worker[i].top > 0 => worker[i].top \in unensured
                BY <2>3, <3>1 DEF EnsuredOrMarked
            <3> QED
                BY <2>1, <2>3, <3>2 DEF HidesOnlyUnensured
        <2> QED
            BY <2>2, <2>3, CursorStep DEF OneMessageInv
    <1> QED
        BY <1>1, <1>2, EnsuredStep, OneMessageInvariant, PTL DEF SumSpec

--------------------------------------------------------------------------------

(* The composition with the connections.  Each part takes its own steps or  *)
(* none, so that what holds of the part alone holds of it here.             *)
LEMMA DeliveryIsItsParts ==
    DeliverySpec => Spec /\ SumInit /\ [][SumNext]_sumVars
    <1>1. DeliveryInit => Init /\ SumInit
        BY DEF DeliveryInit
    <1>2. [DeliveryNext]_<<focus, vars, sumVars>> => [Next]_vars /\ [SumNext]_sumVars
        BY DEF DeliveryNext
    <1> QED
        BY <1>1, <1>2, PTL DEF DeliverySpec, Spec

(* The variables of both parts keep their types.                            *)
THEOREM DeliveryTypes == DeliverySpec => []DeliveryTypeOK
    <1>1. OrphanInv => TypeOK
        BY DEF OrphanInv
    <1>2. SumTypeInv => SumTypeOK
        BY DEF SumTypeInv
    <1>3. TypeOK /\ SumTypeOK => DeliveryTypeOK
        BY DEF DeliveryTypeOK
    <1> QED
        BY <1>1, <1>2, <1>3, OrphanInit, OrphanStep, SumTypeInit, SumTypeStep, DeliveryIsItsParts,
           PTL DEF Spec
================================================================================
