--------------------------- MODULE CallState_proofs ---------------------------
(***************************************************************************)
(* Theorems about CallState, for any number of users, sweepers and calls   *)
(* and any bounds on mishaps, connections and signals.                     *)
(***************************************************************************)
EXTENDS CallState, TLAPS

----------------------------------------------------------------------------

(* Type correctness, and which labels a process may be at. *)

Creating   == {"lock_caller", "index", "create"}
SweeperPCs == {"idle", "reap", "reschedule", "drop_index", "terminate", "unindex",
               "free_callee", "free_caller", "record"}

(* One process: it works on a call, except when it is idle or looks for the
   next one; who ends a call has a reason, who creates one has none; a sweeper
   works on a call it has claimed, and never undoes a Create. *)
ProcOK(p) ==
  /\ pc[p] \in {"idle", "reap"} <=> job[p] = NoCall
  /\ pc[p] \in {"terminate", "unindex", "record"} => note[p] # NoNote
  /\ pc[p] \in Creating => note[p] = NoNote
  /\ p \in late => pc[p] # "idle"
  /\ p \in Sweeper => /\ pc[p] \in SweeperPCs
                      /\ pc[p] = "idle" <=> claimed[p] = {}
                      /\ job[p] # NoCall => job[p] \in claimed[p]
                      /\ pc[p] \in {"free_callee", "free_caller"} => note[p] # NoNote
  /\ p \in User => pc[p] \notin {"reap", "reschedule", "drop_index"}

ProcTypes ==
  /\ pc \in [Proc -> PCs] /\ job \in [Proc -> Call \cup {NoCall}]
  /\ left \in [Proc -> Nat] /\ note \in [Proc -> Note]
  /\ claimed \in [Sweeper -> SUBSET Call] /\ late \subseteq Proc
HashTypes ==
  /\ state \in [Call -> States] /\ talked \in [Call -> BOOLEAN]
  /\ expire \in [Call -> Nat] /\ ttl \in [Call -> Nat]
  /\ \A c \in Call : Absent(c) <=> ttl[c] = 0
LockTypes ==
  /\ busy \in [User -> Call \cup {NoCall}] /\ busyTTL \in [User -> Nat]
  /\ \A u \in User : busy[u] = NoCall <=> busyTTL[u] = 0
UserTypes ==
  /\ online \in [User -> BOOLEAN] /\ asked \in [User -> BOOLEAN]
  /\ told \in [Call -> {"never", "before", "now"}]
  /\ made \in [Call -> {"no", "making", "made", "offered", "refused"}]
OtherTypes ==
  /\ due \in [Call -> Nat \cup {NotIndexed}] /\ records \in [Call -> Seq(Record)]
BudgetTypes ==
  /\ mishaps \in 0 .. MaxMishaps /\ connects \in 0 .. MaxConnects
  /\ signals \in 0 .. MaxSignals

TypeInv ==
  /\ ProcTypes /\ HashTypes /\ LockTypes /\ UserTypes /\ OtherTypes /\ BudgetTypes
  /\ \A p \in Proc : ProcOK(p)

LEMMA TypeInvImplies == TypeInv => TypeOK
  BY DEF TypeInv, ProcTypes, HashTypes, LockTypes, UserTypes, OtherTypes, BudgetTypes,
         TypeOK, ProcOK

----------------------------------------------------------------------------

(* What the operators that actions are made of do to their variables. *)

LEMMA Parties2 ==
  ASSUME NEW c \in Call
  PROVE  /\ CallerOf[c] \in User /\ CalleeOf[c] \in User /\ CallerOf[c] # CalleeOf[c]
         /\ c # NoCall
  BY CallAssumption

LEMMA Kinds == User \subseteq Proc /\ Sweeper \subseteq Proc /\ User \cap Sweeper = {}
  BY CallAssumption DEF Proc

LEMMA Times ==
  /\ EndedLingerTTL \in Nat /\ ClaimVisibilityTTL \in Nat /\ MaxCallDuration \in Nat /\ RingTTL \in Nat
  /\ EndedLingerTTL > 0 /\ ClaimVisibilityTTL > 0 /\ MaxCallDuration > 0 /\ RingTTL > 1
  BY CallAssumption

(* A reason, and a reason together with whether the call was answered. *)
LEMMA NoteFacts ==
  /\ NoNote \in Note /\ Record \subseteq Note
  /\ \A n \in Note : n # NoNote => n \in Record
  /\ \A n \in Record : n # NoNote
  /\ \A w \in Reason : LET n == [why |-> w, talked |-> FALSE] IN n \in Record /\ n.why = w
  <1>1. \A w \in Reason : w # "none"
    BY DEF Reason
  <1>2. \A n \in Record : n.why \in Reason
    BY DEF Record
  <1>3. NoNote.why = "none"
    BY DEF NoNote
  <1>4. \A n \in Record : n # NoNote
    BY <1>1, <1>2, <1>3
  <1>5. \A w \in Reason : [why |-> w, talked |-> FALSE] \in Record
    BY DEF Record
  <1> QED
    BY <1>4, <1>5 DEF Note

LEMMA TalkedNote ==
  ASSUME NEW n \in Record, NEW b \in BOOLEAN
  PROVE  LET m == [n EXCEPT !.talked = b] IN m \in Record /\ m.talked = b /\ m.why = n.why
  <1>1. [n EXCEPT !.talked = b] \in Record
    BY Zenon DEF Record
  <1>2. [n EXCEPT !.talked = b].talked = b /\ [n EXCEPT !.talked = b].why = n.why
    BY DEF Record
  <1> QED
    BY <1>1, <1>2

(* Everyone but p stays as it is. *)
OthersStay(p) ==
  \A q \in Proc : q # p =>
    /\ pc'[q] = pc[q] /\ job'[q] = job[q] /\ left'[q] = left[q] /\ note'[q] = note[q]
    /\ (q \in late') <=> (q \in late)
    /\ q \in Sweeper => claimed'[q] = claimed[q]

LEMMA GotoFacts ==
  ASSUME ProcTypes, NEW p \in Proc, NEW label \in PCs, Goto(p, label)
  PROVE  /\ ProcTypes' /\ OthersStay(p)
         /\ pc'[p] = label /\ UNCHANGED <<job, left, note, claimed, late>>
  BY DEF ProcTypes, Goto, OthersStay

LEMMA StartFacts ==
  ASSUME ProcTypes, NEW p \in Proc, NEW c \in Call, NEW label \in PCs, NEW time \in Nat,
         NEW about \in Note, Start(p, c, label, time, about)
  PROVE  /\ ProcTypes' /\ OthersStay(p)
         /\ pc'[p] = label /\ job'[p] = c /\ left'[p] = time /\ note'[p] = about
         /\ UNCHANGED <<claimed, late>>
  BY DEF ProcTypes, Start, OthersStay

LEMMA FinishFacts ==
  ASSUME ProcTypes, NEW p \in Proc, NEW c, FinishCall(p, c)
  PROVE  /\ ProcTypes' /\ OthersStay(p)
         /\ job'[p] = NoCall /\ left'[p] = 0 /\ note'[p] = NoNote
         /\ p \notin Sweeper => pc'[p] = "idle" /\ p \notin late'
         /\ p \in Sweeper =>
              /\ claimed'[p] = claimed[p] \ {c}
              /\ IF claimed'[p] = {} THEN pc'[p] = "idle" /\ p \notin late'
                                     ELSE pc'[p] = "reap" /\ ((p \in late') <=> (p \in late))
  <1> DEFINE rest == IF p \in Sweeper THEN claimed[p] \ {c} ELSE {}
  <1>0. Sweeper \subseteq Proc
    BY Kinds
  <1>1. /\ pc' = [pc EXCEPT ![p] = IF rest = {} THEN "idle" ELSE "reap"]
        /\ job' = [job EXCEPT ![p] = NoCall]
        /\ left' = [left EXCEPT ![p] = 0]
        /\ note' = [note EXCEPT ![p] = NoNote]
        /\ claimed' = [w \in Sweeper |-> IF w = p THEN rest ELSE claimed[w]]
        /\ late' = IF rest = {} THEN late \ {p} ELSE late
    BY DEF FinishCall
  <1>2. pc' \in [Proc -> PCs] /\ job' \in [Proc -> Call \cup {NoCall}]
    BY <1>1 DEF ProcTypes, PCs
  <1>3. left' \in [Proc -> Nat] /\ note' \in [Proc -> Note]
    BY <1>1, NoteFacts DEF ProcTypes
  <1>4. claimed' \in [Sweeper -> SUBSET Call] /\ late' \subseteq Proc
    BY <1>1 DEF ProcTypes
  <1>5. ProcTypes'
    BY <1>2, <1>3, <1>4 DEF ProcTypes
  <1>6. OthersStay(p)
    BY <1>0, <1>1 DEF ProcTypes, OthersStay
  <1>7. job'[p] = NoCall /\ left'[p] = 0 /\ note'[p] = NoNote
    BY <1>1 DEF ProcTypes
  <1>8. /\ pc'[p] = IF rest = {} THEN "idle" ELSE "reap"
        /\ p \in Sweeper => claimed'[p] = rest
        /\ p \in late' <=> p \in late /\ rest # {}
    BY <1>1 DEF ProcTypes
  <1> QED
    BY <1>5, <1>6, <1>7, <1>8

(* The others are as they should be because nothing of theirs has changed. *)
LEMMA ProcFrame ==
  ASSUME NEW p \in Proc, OthersStay(p), \A q \in Proc : ProcOK(q), ProcOK(p)'
  PROVE  \A q \in Proc : ProcOK(q)'
  <1> SUFFICES ASSUME NEW q \in Proc, q # p PROVE ProcOK(q)'
    OBVIOUS
  <1> QED
    BY DEF OthersStay, ProcOK

LEMMA FinishOK ==
  ASSUME TypeInv, NEW p \in Proc, NEW c, FinishCall(p, c)
  PROVE  ProcTypes' /\ OthersStay(p) /\ \A q \in Proc : ProcOK(q)'
  <1>0. ProcTypes /\ \A q \in Proc : ProcOK(q)
    BY DEF TypeInv
  <1>1. ProcTypes' /\ OthersStay(p)
    BY <1>0, FinishFacts
  <1>2. ProcOK(p)'
    BY <1>0, FinishFacts, Kinds DEF ProcOK, Creating, SweeperPCs
  <1> QED
    BY <1>0, <1>1, <1>2, ProcFrame

LEMMA LockFacts ==
  ASSUME LockTypes, NEW u \in User, NEW c \in Call
  PROVE  /\ Lock(u, c) => LockTypes'
         /\ Unlock(u, c) => LockTypes'
         /\ UNCHANGED lockVars => LockTypes'
  BY Parties2, Times DEF LockTypes, Lock, Unlock, lockVars

LEMMA UserFacts ==
  ASSUME UserTypes, NEW u \in User, NEW c \in Call
  PROVE  /\ \A to \in {"no", "making", "made", "offered", "refused"} : SetMade(c, to) => UserTypes'
         /\ Answered(u) => UserTypes'
         /\ Offline(u) => UserTypes'
         /\ UNCHANGED userVars => UserTypes'
  <1>1. \A to \in {"no", "making", "made", "offered", "refused"} : SetMade(c, to) => UserTypes'
    BY DEF UserTypes, SetMade
  <1>2. Answered(u) => UserTypes'
    BY DEF UserTypes, Answered
  <1>3. Offline(u) => UserTypes'
    BY DEF UserTypes, Offline
  <1>4. UNCHANGED userVars => UserTypes'
    BY DEF UserTypes, userVars
  <1> QED
    BY <1>1, <1>2, <1>3, <1>4

LEMMA HashFacts ==
  ASSUME HashTypes, NEW c \in Call
  PROVE  /\ \A time \in Nat : WriteRinging(c, time) => HashTypes'
         /\ WriteConnected(c) => HashTypes'
         /\ WriteEnded(c) => HashTypes'
         /\ UNCHANGED hashVars => HashTypes'
  <1>1. \A time \in Nat : WriteRinging(c, time) => HashTypes'
    BY Times DEF HashTypes, WriteRinging, Absent, States
  <1>2. WriteConnected(c) => HashTypes'
    BY Times DEF HashTypes, WriteConnected, Absent, States
  <1>3. WriteEnded(c) => HashTypes'
    BY Times DEF HashTypes, WriteEnded, Absent, States
  <1>4. UNCHANGED hashVars => HashTypes'
    BY DEF HashTypes, hashVars, Absent
  <1> QED
    BY <1>1, <1>2, <1>3, <1>4

LEMMA BudgetFacts ==
  ASSUME BudgetTypes
  PROVE  /\ Calm => BudgetTypes' /\ mishaps' = mishaps
         /\ Mishap => BudgetTypes' /\ mishaps' = mishaps + 1
         /\ Signal => BudgetTypes' /\ mishaps' = mishaps
  BY CallAssumption DEF BudgetTypes, Calm, Mishap, Signal

LEMMA GotoOK ==
  ASSUME TypeInv, NEW p \in Proc, NEW label \in PCs, Goto(p, label),
         pc[p] \notin {"idle", "reap"}, label \notin {"idle", "reap"},
         label \in {"terminate", "unindex", "record"} => note[p] # NoNote,
         label \in Creating => note[p] = NoNote,
         p \in Sweeper => label \in SweeperPCs
                          /\ (label \in {"free_callee", "free_caller"} => note[p] # NoNote),
         p \in User => label \notin {"reschedule", "drop_index"}
  PROVE  ProcTypes' /\ OthersStay(p) /\ \A q \in Proc : ProcOK(q)'
  <1>0. ProcTypes /\ \A q \in Proc : ProcOK(q)
    BY DEF TypeInv
  <1>1. ProcTypes' /\ OthersStay(p) /\ pc'[p] = label /\ UNCHANGED <<job, left, note, claimed, late>>
    BY <1>0, GotoFacts
  <1>2. ProcOK(p)'
    BY <1>0, <1>1 DEF ProcOK
  <1> QED
    BY <1>0, <1>1, <1>2, ProcFrame

LEMMA StartOK ==
  ASSUME TypeInv, NEW p \in Proc, NEW c \in Call, NEW label \in PCs, NEW time \in Nat,
         NEW about \in Note, Start(p, c, label, time, about),
         label \notin {"idle", "reap"},
         label \in {"terminate", "unindex", "record"} => about # NoNote,
         label \in Creating => about = NoNote,
         p \in Sweeper => label \in SweeperPCs \ {"free_callee", "free_caller"} /\ c \in claimed[p],
         p \in User => label \notin {"reschedule", "drop_index"}
  PROVE  ProcTypes' /\ OthersStay(p) /\ \A q \in Proc : ProcOK(q)'
  <1>0. ProcTypes /\ \A q \in Proc : ProcOK(q)
    BY DEF TypeInv
  <1>1. /\ ProcTypes' /\ OthersStay(p)
        /\ pc'[p] = label /\ job'[p] = c /\ left'[p] = time /\ note'[p] = about
        /\ UNCHANGED <<claimed, late>>
    BY <1>0, StartFacts
  <1>2. c # NoCall
    BY Parties2
  <1>3. ProcOK(p)'
    BY <1>0, <1>1, <1>2 DEF ProcOK
  <1> QED
    BY <1>0, <1>1, <1>3, ProcFrame

LEMMA StayOK ==
  ASSUME TypeInv, UNCHANGED <<pc, job, left, note, claimed, late>>
  PROVE  ProcTypes' /\ \A q \in Proc : ProcOK(q)'
  BY DEF TypeInv, ProcTypes, ProcOK

(* The call a busy process works on. *)
LEMMA Working ==
  ASSUME TypeInv, NEW p \in Proc, pc[p] \notin {"idle", "reap"}
  PROVE  job[p] \in Call /\ job[p] # NoCall
  BY DEF TypeInv, ProcTypes, ProcOK

(* Who is at a label of the handlers is a user, at one of the sweepers a sweeper. *)
LEMMA WhoIsAt ==
  ASSUME TypeInv, NEW p \in Proc
  PROVE  /\ pc[p] \in {"lock_caller", "unlock_callee", "index", "create", "deliver", "pending_get",
                       "pending_unlock", "pending_check", "accept", "accept_index"} => p \in User
         /\ pc[p] \in {"reap", "reschedule", "drop_index"} => p \in Sweeper
         /\ p \in User => p \notin Sweeper
  BY Kinds DEF TypeInv, ProcOK, SweeperPCs, Proc

LEMMA OtherFacts ==
  ASSUME OtherTypes, NEW c \in Call
  PROVE  /\ \A n \in Nat \cup {NotIndexed} : due' = [due EXCEPT ![c] = n] =>
              due' \in [Call -> Nat \cup {NotIndexed}]
         /\ \A n \in Record : records' = [records EXCEPT ![c] = Append(@, n)] =>
              records' \in [Call -> Seq(Record)]
  <1>1. \A n \in Nat \cup {NotIndexed} : due' = [due EXCEPT ![c] = n] =>
              due' \in [Call -> Nat \cup {NotIndexed}]
    BY DEF OtherTypes
  <1>2. ASSUME NEW n \in Record, records' = [records EXCEPT ![c] = Append(@, n)]
        PROVE  records' \in [Call -> Seq(Record)]
    <2>1. records[c] \in Seq(Record)
      BY DEF OtherTypes
    <2>2. Append(records[c], n) \in Seq(Record)
      BY <2>1
    <2> QED
      BY <1>2, <2>2 DEF OtherTypes
  <1> QED
    BY <1>1, <1>2

LEMMA TypeInit == Init => TypeInv
  <1> SUFFICES ASSUME Init PROVE TypeInv
    OBVIOUS
  <1>1. ProcTypes
    BY NoteFacts DEF Init, ProcTypes, PCs
  <1>2. HashTypes
    BY DEF Init, HashTypes, States, Absent
  <1>3. LockTypes /\ UserTypes
    BY DEF Init, LockTypes, UserTypes
  <1>4. OtherTypes
    BY DEF Init, OtherTypes
  <1>5. BudgetTypes
    BY CallAssumption DEF Init, BudgetTypes
  <1>6. \A p \in Proc : ProcOK(p)
    BY Kinds DEF Init, ProcOK, Creating, SweeperPCs
  <1> QED
    BY <1>1, <1>2, <1>3, <1>4, <1>5, <1>6 DEF TypeInv

(* The steps of the connections' handlers. *)
LEMMA TypeHandler ==
  ASSUME TypeInv, NEW u \in User
  PROVE  /\ (Connect(u) \/ Disconnect(u)) => TypeInv'
         /\ HandlerStep(u) => TypeInv'
         /\ \A c \in Call : Invite(u, c) \/ Accept(u, c) => TypeInv'
         /\ \A c \in Call, reason \in {"canceled", "rejected", "completed"} :
              HangUp(u, c, reason) => TypeInv'
  <1> DEFINE c == job[u]
  <1>a. /\ ProcTypes /\ HashTypes /\ LockTypes /\ UserTypes /\ OtherTypes /\ BudgetTypes
        /\ \A p \in Proc : ProcOK(p)
    BY DEF TypeInv
  <1>b. u \in Proc /\ u \notin Sweeper
    BY Kinds
  <1>o. UNCHANGED <<due, records>> => OtherTypes'
    BY <1>a DEF OtherTypes
  <1>u. UNCHANGED userVars => UserTypes'
    BY <1>a DEF UserTypes, userVars
  <1>l. UNCHANGED lockVars => LockTypes'
    BY <1>a DEF LockTypes, lockVars
  <1>h. UNCHANGED hashVars => HashTypes'
    BY <1>a DEF HashTypes, hashVars, Absent
  <1>p. UNCHANGED <<pc, job, left, note, claimed, late>> => ProcTypes' /\ \A p \in Proc : ProcOK(p)'
    BY StayOK
  <1>r. UNCHANGED redisVars => UNCHANGED <<hashVars, lockVars, due>>
    BY DEF redisVars, hashVars, lockVars
  <1>f. FinishCall(u, c) => ProcTypes' /\ \A p \in Proc : ProcOK(p)'
    BY <1>b, FinishOK
  <1>z. ASSUME ProcTypes', HashTypes', LockTypes', UserTypes', OtherTypes', BudgetTypes',
               \A p \in Proc : ProcOK(p)'
        PROVE  TypeInv'
    BY <1>z DEF TypeInv
  <1>1. CASE Connect(u)
    <2>1. UserTypes'
      BY <1>a, <1>1 DEF Connect, UserTypes
    <2>2. BudgetTypes'
      BY <1>a, <1>1, CallAssumption DEF Connect, BudgetTypes
    <2> QED
      BY <1>1, <1>h, <1>l, <1>o, <1>p, <1>r, <1>z, <2>1, <2>2 DEF Connect
  <1>2. CASE Disconnect(u)
    <2>1. UserTypes'
      BY <1>a, <1>2 DEF Disconnect, UserTypes, Offline
    <2> QED
      BY <1>2, <1>a, <1>h, <1>l, <1>o, <1>p, <1>r, <1>z, <2>1, BudgetFacts DEF Disconnect
  <1>3. ASSUME NEW d \in Call, Invite(u, d)
        PROVE  TypeInv'
    <2>1. CalleeOf[d] \in User
      BY Parties2
    <2>2. LockTypes'
      BY <1>a, <1>3, <1>l, <2>1, LockFacts DEF Invite
    <2>3. UserTypes'
      BY <1>a, <1>3, UserFacts DEF Invite
    <2>4. BudgetTypes'
      BY <1>a, <1>3, BudgetFacts DEF Invite
    <2>5. ProcTypes' /\ \A p \in Proc : ProcOK(p)'
      <3>1. Start(u, d, "lock_caller", RingTTL, NoNote) => ProcTypes' /\ \A p \in Proc : ProcOK(p)'
        BY <1>b, StartOK, NoteFacts, Times DEF PCs, Creating
      <3> QED
        BY <1>3, <1>p, <3>1 DEF Invite
    <2> QED
      BY <1>3, <1>h, <1>o, <1>z, <2>2, <2>3, <2>4, <2>5 DEF Invite
  <1>4. CASE LockCaller(u)
    <2>1. c \in Call /\ pc[u] = "lock_caller" /\ note[u] = NoNote
      BY <1>4, <1>a, <1>b, Working DEF LockCaller, At, ProcOK, Creating
    <2>2. LockTypes'
      BY <1>a, <1>4, <1>l, <2>1, LockFacts DEF LockCaller
    <2>3. ProcTypes' /\ \A p \in Proc : ProcOK(p)'
      <3>1. \A label \in {"index", "unlock_callee"} :
              Goto(u, label) => ProcTypes' /\ \A p \in Proc : ProcOK(p)'
        BY <1>b, <2>1, GotoOK DEF PCs, Creating
      <3> QED
        BY <1>4, <3>1 DEF LockCaller
    <2> QED
      BY <1>a, <1>4, <1>h, <1>o, <1>u, <1>z, <2>2, <2>3, BudgetFacts DEF LockCaller
  <1>5. CASE UnlockCallee(u)
    <2>1. c \in Call /\ CalleeOf[c] \in User
      BY <1>5, <1>b, Working, Parties2 DEF UnlockCallee, At
    <2>2. LockTypes' /\ UserTypes'
      BY <1>a, <1>5, <2>1, LockFacts, UserFacts DEF UnlockCallee
    <2> QED
      BY <1>a, <1>5, <1>h, <1>o, <1>f, <1>z, <2>2, BudgetFacts DEF UnlockCallee, Finish
  <1>6. CASE IndexCall(u)
    <2>1. c \in Call /\ pc[u] = "index" /\ note[u] = NoNote /\ left[u] \in Nat
      BY <1>6, <1>a, <1>b, Working DEF IndexCall, At, ProcOK, Creating, ProcTypes
    <2>2. OtherTypes'
      BY <1>a, <1>6, <2>1 DEF IndexCall, OtherTypes
    <2>3. ProcTypes' /\ \A p \in Proc : ProcOK(p)'
      <3>1. \A label \in {"create", "free_callee"} :
              Goto(u, label) => ProcTypes' /\ \A p \in Proc : ProcOK(p)'
        BY <1>b, <2>1, GotoOK DEF PCs, Creating
      <3> QED
        BY <1>6, <3>1 DEF IndexCall, IndexFails
    <2> QED
      BY <1>a, <1>6, <1>h, <1>l, <1>u, <1>z, <2>2, <2>3, BudgetFacts DEF IndexCall
  <1>7. CASE CreateState(u)
    <2>1. c \in Call /\ pc[u] = "create" /\ note[u] = NoNote /\ left[u] \in Nat
      BY <1>7, <1>a, <1>b, Working DEF CreateState, At, ProcOK, Creating, ProcTypes
    <2>2. HashTypes'
      BY <1>a, <1>7, <1>h, <2>1, HashFacts DEF CreateState
    <2>3. ProcTypes' /\ \A p \in Proc : ProcOK(p)'
      <3>1. \A label \in {"deliver", "free_callee"} :
              Goto(u, label) => ProcTypes' /\ \A p \in Proc : ProcOK(p)'
        BY <1>b, <2>1, GotoOK DEF PCs, Creating
      <3> QED
        BY <1>7, <3>1 DEF CreateState
    <2>4. UserTypes'
      BY <1>a, <1>7, <1>u, <2>1, UserFacts DEF CreateState
    <2> QED
      BY <1>a, <1>7, <1>l, <1>o, <1>z, <2>2, <2>3, <2>4, BudgetFacts DEF CreateState
  <1>8. CASE Deliver(u)
    <2>1. UserTypes'
      BY <1>a, <1>8 DEF Deliver, UserTypes
    <2> QED
      BY <1>a, <1>8, <1>h, <1>l, <1>o, <1>r, <1>f, <1>z, <2>1, BudgetFacts DEF Deliver, Finish
  <1>9. CASE ReadLock(u)
    <2>1. UserTypes'
      BY <1>a, <1>9, <1>u DEF ReadLock, UserTypes, Answered
    <2>2. ProcTypes' /\ \A p \in Proc : ProcOK(p)'
      <3>1. CASE UNCHANGED <<pc, job, left, note, claimed, late>>
        BY <1>p, <3>1
      <3>2. CASE busy[u] # NoCall /\ Start(u, busy[u], "pending_get", 0, NoNote)
        <4>1. busy[u] \in Call
          BY <1>a, <3>2 DEF LockTypes
        <4> QED
          BY <1>b, <3>2, <4>1, StartOK, NoteFacts DEF PCs, Creating
      <3> QED
        BY <1>9, <3>1, <3>2 DEF ReadLock
    <2> QED
      BY <1>a, <1>9, <1>h, <1>l, <1>o, <1>r, <1>z, <2>1, <2>2, BudgetFacts DEF ReadLock
  <1>10. CASE PendingGet(u)
    <2>1. UserTypes'
      BY <1>a, <1>10, <1>u DEF PendingGet, UserTypes, Answered
    <2>2. pc[u] = "pending_get"
      BY <1>10 DEF PendingGet, At
    <2>3. ProcTypes' /\ \A p \in Proc : ProcOK(p)'
      <3>1. \A label \in {"pending_unlock", "pending_check"} :
              Goto(u, label) => ProcTypes' /\ \A p \in Proc : ProcOK(p)'
        BY <1>b, <2>2, GotoOK DEF PCs, Creating
      <3> QED
        BY <1>10, <1>f, <3>1 DEF PendingGet, Finish
    <2> QED
      BY <1>a, <1>10, <1>h, <1>l, <1>o, <1>r, <1>z, <2>1, <2>3, BudgetFacts DEF PendingGet
  <1>11. CASE PendingUnlock(u)
    <2>1. c \in Call
      BY <1>11, <1>b, Working DEF PendingUnlock, At
    <2>2. LockTypes' /\ UserTypes'
      BY <1>a, <1>11, <2>1, LockFacts, UserFacts DEF PendingUnlock
    <2> QED
      BY <1>a, <1>11, <1>h, <1>o, <1>f, <1>z, <2>2, BudgetFacts DEF PendingUnlock, Finish
  <1>12. CASE PendingCheck(u)
    <2>1. c \in Call
      BY <1>12, <1>b, Working DEF PendingCheck, At
    <2>2. UserTypes'
      BY <1>a, <1>12, <1>u DEF PendingCheck, UserTypes, Answered
    <2>3. ProcTypes' /\ \A p \in Proc : ProcOK(p)'
      <3>1. Start(u, c, "terminate", 0, [why |-> "failed", talked |-> FALSE]) =>
              ProcTypes' /\ \A p \in Proc : ProcOK(p)'
        <4>1. [why |-> "failed", talked |-> FALSE] \in Record
          BY NoteFacts DEF Reason
        <4>2. PICK n \in Record : n = [why |-> "failed", talked |-> FALSE]
          BY <4>1
        <4> QED
          BY <1>b, <2>1, <4>2, StartOK, NoteFacts DEF PCs, Creating
      <3> QED
        BY <1>12, <1>f, <3>1 DEF PendingCheck, Finish
    <2> QED
      BY <1>a, <1>12, <1>h, <1>l, <1>o, <1>r, <1>z, <2>2, <2>3, BudgetFacts DEF PendingCheck
  <1>13. ASSUME NEW d \in Call, Accept(u, d)
         PROVE  TypeInv'
    <2>1. ProcTypes' /\ \A p \in Proc : ProcOK(p)'
      BY <1>13, <1>b, StartOK, NoteFacts DEF Accept, PCs, Creating
    <2> QED
      BY <1>a, <1>13, <1>h, <1>l, <1>o, <1>r, <1>u, <1>z, <2>1, BudgetFacts DEF Accept
  <1>14. CASE AcceptCAS(u)
    <2>1. c \in Call
      BY <1>14, <1>b, Working DEF AcceptCAS, At
    <2>2. HashTypes'
      BY <1>a, <1>14, <1>h, <2>1, HashFacts DEF AcceptCAS
    <2>3. ProcTypes' /\ \A p \in Proc : ProcOK(p)'
      <3>1. Start(u, c, "accept_index", MaxCallDuration, NoNote) =>
              ProcTypes' /\ \A p \in Proc : ProcOK(p)'
        BY <1>b, <2>1, StartOK, NoteFacts, Times DEF PCs, Creating
      <3> QED
        BY <1>14, <1>f, <3>1 DEF AcceptCAS, Finish
    <2> QED
      BY <1>a, <1>14, <1>l, <1>o, <1>u, <1>z, <2>2, <2>3, BudgetFacts DEF AcceptCAS
  <1>15. CASE AcceptIndex(u)
    <2>1. c \in Call /\ left[u] \in Nat
      BY <1>15, <1>a, <1>b, Working DEF AcceptIndex, At, ProcTypes
    <2>2. OtherTypes'
      BY <1>a, <1>15, <2>1 DEF AcceptIndex, OtherTypes
    <2> QED
      BY <1>a, <1>15, <1>f, <1>h, <1>l, <1>u, <1>z, <2>2, BudgetFacts DEF AcceptIndex, Finish
  <1>16. ASSUME NEW d \in Call, NEW reason \in {"canceled", "rejected", "completed"},
                HangUp(u, d, reason)
         PROVE  TypeInv'
    <2>1. Normalized(u, d, reason) \in Reason
      BY DEF Normalized, Reason
    <2>2. [why |-> Normalized(u, d, reason), talked |-> FALSE] \in Record
      BY <2>1, NoteFacts
    <2>3. PICK n \in Record : n = [why |-> Normalized(u, d, reason), talked |-> FALSE]
      BY <2>2
    <2>4. Start(u, d, "terminate", 0, n)
      BY <1>16, <2>3 DEF HangUp
    <2>5. ProcTypes' /\ \A p \in Proc : ProcOK(p)'
      BY <1>b, <2>4, StartOK, NoteFacts DEF PCs, Creating
    <2> QED
      BY <1>a, <1>16, <1>h, <1>l, <1>o, <1>r, <1>u, <1>z, <2>5, BudgetFacts DEF HangUp
  <1> HIDE DEF c
  <1> QED
    BY <1>1, <1>2, <1>3, <1>4, <1>5, <1>6, <1>7, <1>8, <1>9, <1>10, <1>11, <1>12, <1>13, <1>14,
       <1>15, <1>16 DEF HandlerStep

(* Ending a call, for the handlers and the sweepers. *)
LEMMA TypeTerminate ==
  ASSUME TypeInv, NEW p \in Proc, TerminateStep(p)
  PROVE  TypeInv'
  <1> DEFINE c == job[p]
  <1>a. /\ ProcTypes /\ HashTypes /\ LockTypes /\ UserTypes /\ OtherTypes /\ BudgetTypes
        /\ \A q \in Proc : ProcOK(q)
    BY DEF TypeInv
  <1>b. /\ c \in Call /\ CallerOf[c] \in User /\ CalleeOf[c] \in User
        /\ pc[p] \notin {"idle", "reap"} /\ note[p] \in Note
        /\ pc[p] = "unindex" => note[p] # NoNote
        /\ pc[p] = "free_callee" /\ p \in Sweeper => note[p] # NoNote
    <2>1. pc[p] \notin {"idle", "reap"}
      BY DEF TerminateStep, Terminate, Unindex, FreeCallee, FreeCaller, PublishRecord, At
    <2>2. /\ pc[p] = "unindex" => note[p] # NoNote
          /\ pc[p] = "free_callee" /\ p \in Sweeper => note[p] # NoNote
      BY <1>a DEF ProcOK
    <2> QED
      BY <1>a, <2>1, <2>2, Working, Parties2 DEF ProcTypes
  <1>o. UNCHANGED <<due, records>> => OtherTypes'
    BY <1>a DEF OtherTypes
  <1>u. UNCHANGED userVars => UserTypes'
    BY <1>a DEF UserTypes, userVars
  <1>l. UNCHANGED lockVars => LockTypes'
    BY <1>a DEF LockTypes, lockVars
  <1>h. UNCHANGED hashVars => HashTypes'
    BY <1>a DEF HashTypes, hashVars, Absent
  <1>r. UNCHANGED redisVars => UNCHANGED <<hashVars, lockVars, due>>
    BY DEF redisVars, hashVars, lockVars
  <1>f. FinishCall(p, c) => ProcTypes' /\ \A q \in Proc : ProcOK(q)'
    BY FinishOK
  <1>z. ASSUME ProcTypes', HashTypes', LockTypes', UserTypes', OtherTypes', BudgetTypes',
               \A q \in Proc : ProcOK(q)'
        PROVE  TypeInv'
    BY <1>z DEF TypeInv
  <1>1. CASE Terminate(p)
    <2>1. note[p] \in Record /\ talked[c] \in BOOLEAN
      BY <1>1, <1>a, <1>b, NoteFacts DEF Terminate, At, ProcOK, HashTypes
    <2>2. HashTypes'
      BY <1>a, <1>b, <1>1, <1>h, HashFacts DEF Terminate
    <2>3. PICK n \in Record : n = [note[p] EXCEPT !.talked = talked[c]]
      BY <2>1, TalkedNote
    <2>4. Start(p, c, "unindex", 0, n) => ProcTypes' /\ \A q \in Proc : ProcOK(q)'
      <3>1. c \in claimed[p] \/ p \notin Sweeper
        BY <1>a, <1>b, Parties2 DEF ProcOK
      <3> QED
        BY <1>b, <3>1, StartOK, NoteFacts DEF PCs, Creating, SweeperPCs
    <2>5. ProcTypes' /\ \A q \in Proc : ProcOK(q)'
      BY <1>1, <1>f, <2>3, <2>4 DEF Terminate, Finish
    <2> QED
      BY <1>a, <1>1, <1>l, <1>o, <1>u, <1>z, <2>2, <2>5, BudgetFacts DEF Terminate
  <1>2. CASE Unindex(p)
    <2>1. OtherTypes'
      BY <1>a, <1>b, <1>2 DEF Unindex, OtherTypes
    <2>2. ProcTypes' /\ \A q \in Proc : ProcOK(q)'
      BY <1>b, <1>2, GotoOK DEF Unindex, At, PCs, Creating, SweeperPCs
    <2> QED
      BY <1>a, <1>2, <1>h, <1>l, <1>u, <1>z, <2>1, <2>2, BudgetFacts DEF Unindex
  <1>3. CASE FreeCallee(p)
    <2>1. LockTypes'
      BY <1>a, <1>b, <1>3, LockFacts DEF FreeCallee
    <2>2. ProcTypes' /\ \A q \in Proc : ProcOK(q)'
      BY <1>b, <1>3, GotoOK DEF FreeCallee, At, PCs, Creating, SweeperPCs
    <2> QED
      BY <1>a, <1>3, <1>h, <1>o, <1>u, <1>z, <2>1, <2>2, BudgetFacts DEF FreeCallee
  <1>4. CASE FreeCaller(p)
    <2>1. LockTypes' /\ UserTypes'
      BY <1>a, <1>b, <1>4, <1>u, LockFacts, UserFacts DEF FreeCaller
    <2>2. ASSUME note[p] # NoNote, Goto(p, "record")
          PROVE  ProcTypes' /\ \A q \in Proc : ProcOK(q)'
      BY <1>b, <2>2, GotoOK DEF PCs, Creating, SweeperPCs
    <2>3. ProcTypes' /\ \A q \in Proc : ProcOK(q)'
      BY <1>4, <1>f, <2>2 DEF FreeCaller, Finish
    <2> QED
      BY <1>a, <1>4, <1>h, <1>o, <1>z, <2>1, <2>3, BudgetFacts DEF FreeCaller
  <1>5. CASE PublishRecord(p)
    <2>1. note[p] \in Record
      BY <1>5, <1>a, <1>b, NoteFacts DEF PublishRecord, At, ProcOK
    <2>2. OtherTypes'
      BY <1>a, <1>b, <1>5, <1>r, <2>1, OtherFacts DEF PublishRecord, OtherTypes
    <2> QED
      BY <1>a, <1>5, <1>f, <1>h, <1>l, <1>u, <1>r, <1>z, <2>2, BudgetFacts DEF PublishRecord, Finish
  <1> HIDE DEF c
  <1> QED
    BY <1>1, <1>2, <1>3, <1>4, <1>5 DEF TerminateStep

(* The sweepers, mishaps and time. *)
LEMMA TypeSweeper ==
  ASSUME TypeInv, NEW w \in Sweeper, SweeperStep(w)
  PROVE  TypeInv'
  <1>a. /\ ProcTypes /\ HashTypes /\ LockTypes /\ UserTypes /\ OtherTypes /\ BudgetTypes
        /\ \A q \in Proc : ProcOK(q)
    BY DEF TypeInv
  <1>b. w \in Proc /\ w \notin User
    BY Kinds
  <1>o. UNCHANGED <<due, records>> => OtherTypes'
    BY <1>a DEF OtherTypes
  <1>u. UNCHANGED userVars => UserTypes'
    BY <1>a DEF UserTypes, userVars
  <1>l. UNCHANGED lockVars => LockTypes'
    BY <1>a DEF LockTypes, lockVars
  <1>h. UNCHANGED hashVars => HashTypes'
    BY <1>a DEF HashTypes, hashVars, Absent
  <1>r. UNCHANGED redisVars => UNCHANGED <<hashVars, lockVars, due>>
    BY DEF redisVars, hashVars, lockVars
  <1>f. Finish(w) => ProcTypes' /\ \A q \in Proc : ProcOK(q)'
    BY <1>b, FinishOK DEF Finish
  <1>z. ASSUME ProcTypes', HashTypes', LockTypes', UserTypes', OtherTypes', BudgetTypes',
               \A q \in Proc : ProcOK(q)'
        PROVE  TypeInv'
    BY <1>z DEF TypeInv
  <1>1. CASE ClaimExpired(w)
    <2>1. OtherTypes'
      BY <1>a, <1>1, Times DEF ClaimExpired, OtherTypes
    <2>2. ProcTypes' /\ OthersStay(w)
      BY <1>a, <1>b, <1>1 DEF ClaimExpired, ProcTypes, OthersStay, PCs
    <2>3. ProcOK(w)'
      <3>1. job[w] = NoCall
        BY <1>a, <1>b, <1>1 DEF ClaimExpired, ProcOK, At
      <3>2. pc'[w] = "reap" /\ claimed'[w] # {} /\ job'[w] = NoCall
        BY <1>a, <1>b, <1>1, <3>1 DEF ClaimExpired, ProcTypes
      <3> QED
        BY <1>b, <3>2 DEF ProcOK, Creating, SweeperPCs
    <2>4. \A q \in Proc : ProcOK(q)'
      BY <1>a, <1>b, <2>2, <2>3, ProcFrame
    <2> QED
      BY <1>a, <1>1, <1>h, <1>l, <1>u, <1>z, <2>1, <2>2, <2>4, BudgetFacts DEF ClaimExpired
  <1>2. CASE Reap(w)
    <2>1. PICK c \in claimed[w] :
            \/ ~Active(c) /\ Start(w, c, "drop_index", 0, NoNote)
            \/ Active(c) /\ TimeLeft(c) /\ Start(w, c, "reschedule", expire[c], NoNote)
            \/ /\ Active(c) /\ ~TimeLeft(c)
               /\ Start(w, c, "terminate", 0, [why |-> SweepReason(c), talked |-> FALSE])
      BY <1>2 DEF Reap
    <2>2. c \in Call /\ expire[c] \in Nat
      BY <1>a DEF ProcTypes, HashTypes
    <2>3. Start(w, c, "drop_index", 0, NoNote) => ProcTypes' /\ \A q \in Proc : ProcOK(q)'
      BY <1>b, <2>2, StartOK, NoteFacts DEF PCs, Creating, SweeperPCs
    <2>4. Start(w, c, "reschedule", expire[c], NoNote) => ProcTypes' /\ \A q \in Proc : ProcOK(q)'
      BY <1>b, <2>2, StartOK, NoteFacts DEF PCs, Creating, SweeperPCs
    <2>5. Start(w, c, "terminate", 0, [why |-> SweepReason(c), talked |-> FALSE]) =>
            ProcTypes' /\ \A q \in Proc : ProcOK(q)'
      <3>1. [why |-> SweepReason(c), talked |-> FALSE] \in Record
        BY NoteFacts DEF SweepReason, Reason
      <3>2. PICK n \in Record : n = [why |-> SweepReason(c), talked |-> FALSE]
        BY <3>1
      <3> QED
        BY <1>b, <2>2, <3>2, StartOK, NoteFacts DEF PCs, Creating, SweeperPCs
    <2>6. ProcTypes' /\ \A q \in Proc : ProcOK(q)'
      BY <2>1, <2>3, <2>4, <2>5
    <2> QED
      BY <1>a, <1>2, <1>h, <1>l, <1>o, <1>u, <1>r, <1>z, <2>6, BudgetFacts DEF Reap
  <1>3. CASE Reschedule(w)
    <2>1. job[w] \in Call /\ left[w] \in Nat
      BY <1>3, <1>a, <1>b, Working DEF Reschedule, At, ProcTypes
    <2>2. OtherTypes'
      BY <1>a, <1>3, <2>1 DEF Reschedule, OtherTypes
    <2> QED
      BY <1>a, <1>3, <1>f, <1>h, <1>l, <1>u, <1>z, <2>2, BudgetFacts DEF Reschedule
  <1>4. CASE DropIndex(w)
    <2>1. job[w] \in Call
      BY <1>4, <1>b, Working DEF DropIndex, At
    <2>2. OtherTypes'
      BY <1>a, <1>4, <2>1 DEF DropIndex, OtherTypes
    <2> QED
      BY <1>a, <1>4, <1>f, <1>h, <1>l, <1>u, <1>z, <2>2, BudgetFacts DEF DropIndex
  <1> QED
    BY <1>1, <1>2, <1>3, <1>4 DEF SweeperStep

LEMMA TypeMishap ==
  ASSUME TypeInv, NEW p \in Proc
  PROVE  /\ StepLost(p) => TypeInv'
         /\ Crash(p) => TypeInv'
  <1>a. /\ ProcTypes /\ HashTypes /\ LockTypes /\ UserTypes /\ OtherTypes /\ BudgetTypes
        /\ \A q \in Proc : ProcOK(q)
    BY DEF TypeInv
  <1>h. UNCHANGED redisVars => HashTypes' /\ LockTypes' /\ due' = due
    BY <1>a DEF HashTypes, Absent, LockTypes, redisVars
  <1>u. UNCHANGED userVars => UserTypes'
    BY <1>a DEF UserTypes, userVars
  <1>1. ASSUME StepLost(p) PROVE TypeInv'
    <2>0. /\ pc[p] = "unindex" => note[p] # NoNote
          /\ pc[p] = "free_callee" /\ p \in Sweeper => note[p] # NoNote
      BY <1>a DEF ProcOK
    <2>2. ASSUME NEW c, FinishCall(p, c) PROVE ProcTypes' /\ \A q \in Proc : ProcOK(q)'
      BY <2>2, FinishOK
    <2>3. ProcTypes' /\ \A q \in Proc : ProcOK(q)'
      <3>1. ASSUME pc[p] = "unindex", Goto(p, "free_callee")
            PROVE  ProcTypes' /\ \A q \in Proc : ProcOK(q)'
        BY <2>0, <3>1, GotoOK DEF PCs, Creating, SweeperPCs
      <3>2. ASSUME pc[p] = "free_callee", Goto(p, "free_caller")
            PROVE  ProcTypes' /\ \A q \in Proc : ProcOK(q)'
        BY <2>0, <3>2, GotoOK DEF PCs, Creating, SweeperPCs
      <3>3. ASSUME pc[p] = "free_caller", note[p] # NoNote, Goto(p, "record")
            PROVE  ProcTypes' /\ \A q \in Proc : ProcOK(q)'
        BY <3>3, GotoOK DEF PCs, Creating, SweeperPCs
      <3> QED
        BY <1>1, <2>2, <3>1, <3>2, <3>3 DEF StepLost, At, Finish
    <2>4. UserTypes'
      <3>1. ASSUME NEW u \in Call, SetMade(u, "refused") PROVE UserTypes'
        BY <1>a, <3>1 DEF UserTypes, SetMade
      <3>2. ASSUME pc[p] = "pending_unlock", Answered(p) PROVE UserTypes'
        <4>1. p \in User
          BY <3>2, WhoIsAt
        <4> QED
          BY <1>a, <3>2, <4>1 DEF UserTypes, Answered
      <3>3. pc[p] \in {"unlock_callee", "free_caller"} => job[p] \in Call
        BY Working
      <3> QED
        BY <1>1, <1>u, <3>1, <3>2, <3>3 DEF StepLost, At
    <2>5. BudgetTypes'
      BY <1>a, <1>1, BudgetFacts DEF StepLost
    <2>6. OtherTypes'
      BY <1>a, <1>1, <1>h DEF StepLost, OtherTypes
    <2> QED
      BY <1>1, <1>h, <2>3, <2>4, <2>5, <2>6 DEF StepLost, TypeInv
  <1>2. ASSUME Crash(p) PROVE TypeInv'
    <2>1. BudgetTypes'
      BY <1>a, <1>2, BudgetFacts DEF Crash
    <2>2. OtherTypes'
      BY <1>a, <1>2, <1>h DEF Crash, OtherTypes
    <2>3. UserTypes'
      <3>1. p \in User /\ Offline(p) => UserTypes'
        BY <1>a DEF UserTypes, Offline
      <3> QED
        BY <1>2, <1>u, <3>1 DEF Crash
    <2>4. /\ pc' = [pc EXCEPT ![p] = "idle"]
          /\ job' = [job EXCEPT ![p] = NoCall]
          /\ left' = [left EXCEPT ![p] = 0]
          /\ note' = [note EXCEPT ![p] = NoNote]
          /\ claimed' = [w \in Sweeper |-> IF w = p THEN {} ELSE claimed[w]]
          /\ late' = late \ {p}
      BY <1>2 DEF Crash
    <2>5. ProcTypes'
      BY <1>a, <2>4, NoteFacts DEF ProcTypes, PCs
    <2>6. OthersStay(p)
      BY <1>a, <2>4, Kinds DEF ProcTypes, OthersStay
    <2>7. ProcOK(p)'
      BY <1>a, <2>4 DEF ProcTypes, ProcOK, Creating, SweeperPCs
    <2>8. \A q \in Proc : ProcOK(q)'
      BY <1>a, <2>6, <2>7, ProcFrame
    <2> QED
      BY <1>2, <1>h, <2>1, <2>2, <2>3, <2>5, <2>8 DEF Crash, TypeInv
  <1> QED
    BY <1>1, <1>2

LEMMA DownFacts ==
  ASSUME NEW n \in Nat
  PROVE  /\ Down(n) \in Nat /\ Down(n) <= n /\ (n = 0 => Down(n) = 0)
         /\ (n > 0 => Down(n) = n - 1)
  BY DEF Down

LEMMA TypeTick == TypeInv /\ Tick => TypeInv'
  <1> SUFFICES ASSUME TypeInv, Tick PROVE TypeInv'
    OBVIOUS
  <1>a. /\ ProcTypes /\ HashTypes /\ LockTypes /\ UserTypes /\ OtherTypes /\ BudgetTypes
        /\ \A q \in Proc : ProcOK(q)
    BY DEF TypeInv
  <1>1. ProcTypes'
    <2>1. left' \in [Proc -> Nat]
      BY <1>a DEF Tick, ProcTypes, Down
    <2> QED
      BY <1>a, <2>1 DEF Tick, ProcTypes
  <1>2. HashTypes'
    <2>1. /\ state' = [c \in Call |-> IF ttl[c] = 1 THEN "gone" ELSE state[c]]
          /\ expire' = [c \in Call |-> Down(expire[c])]
          /\ ttl' = [c \in Call |-> Down(ttl[c])] /\ talked' = talked
      BY DEF Tick
    <2>2. ttl' \in [Call -> Nat] /\ expire' \in [Call -> Nat]
      BY <1>a, <2>1 DEF HashTypes, Down
    <2>3. state' \in [Call -> States]
      BY <1>a, <2>1 DEF HashTypes, States
    <2>4. \A c \in Call : Absent(c)' <=> ttl'[c] = 0
      BY <1>a, <2>1 DEF HashTypes, Absent, Down
    <2> QED
      BY <1>a, <2>1, <2>2, <2>3, <2>4 DEF HashTypes
  <1>3. LockTypes'
    BY <1>a DEF Tick, LockTypes, Down
  <1>4. UserTypes'
    BY <1>a DEF Tick, UserTypes, userVars
  <1>5. OtherTypes'
    <2>1. due' = [c \in Call |-> Down(due[c])] /\ records' = records
      BY DEF Tick
    <2>2. \A c \in Call : Down(due[c]) \in Nat \cup {NotIndexed}
      BY <1>a DEF OtherTypes, Down, NotIndexed
    <2> QED
      BY <1>a, <2>1, <2>2 DEF OtherTypes
  <1>6. BudgetTypes'
    BY <1>a DEF Tick, BudgetTypes
  <1>7. \A q \in Proc : ProcOK(q)'
    BY <1>a DEF Tick, ProcOK, At
  <1> QED
    BY <1>1, <1>2, <1>3, <1>4, <1>5, <1>6, <1>7 DEF TypeInv

LEMMA TypeStep == TypeInv /\ [Next]_vars => TypeInv'
  <1> SUFFICES ASSUME TypeInv, [Next]_vars PROVE TypeInv'
    OBVIOUS
  <1>1. CASE UNCHANGED vars
    BY <1>1 DEF vars, TypeInv, ProcTypes, HashTypes, LockTypes, UserTypes, OtherTypes, BudgetTypes,
                ProcOK, Absent
  <1>2. CASE \E u \in User : Connect(u) \/ Disconnect(u)
    BY <1>2, TypeHandler
  <1>3. CASE \E u \in User, c \in Call :
               \/ Invite(u, c) \/ Accept(u, c)
               \/ \E reason \in {"canceled", "rejected", "completed"} : HangUp(u, c, reason)
    BY <1>3, TypeHandler
  <1>4. ASSUME NEW p \in Proc, Step(p) PROVE TypeInv'
    BY <1>4, TypeTerminate, TypeHandler, TypeSweeper DEF Step
  <1>5. ASSUME NEW p \in Proc, StepLost(p) \/ Crash(p) PROVE TypeInv'
    BY <1>5, TypeMishap
  <1> QED
    BY <1>1, <1>2, <1>3, <1>4, <1>5, TypeTick DEF Next

(* The Redis keys, the processes and the connections keep their types; a lock
   and a HASH are there exactly while their time to live has not run out, and
   a process works on a call exactly while it is neither idle nor between two
   claimed calls. *)
THEOREM CallTypes == Spec => []TypeOK
  <1>1. Init => TypeInv
    BY TypeInit
  <1>2. TypeInv /\ [Next]_vars => TypeInv'
    BY TypeStep
  <1>3. TypeInv => TypeOK
    BY TypeInvImplies
  <1> QED
    BY <1>1, <1>2, <1>3, PTL DEF Spec

----------------------------------------------------------------------------

(* The moves.  What a step does to calls, as far as the invariants below care:
   most steps leave every HASH, every index entry and every record alone, and
   only move a process on; the others write one of them. *)

Freeing    == {"free_callee", "free_caller"}
DueWriters == {"accept_index", "unindex", "reschedule", "drop_index"}

(* p stays where it is. *)
Keeps(p) ==
  /\ pc'[p] = pc[p] /\ job'[p] = job[p] /\ left'[p] = left[p] /\ note'[p] = note[p]
  /\ (p \in late') <=> (p \in late)
  /\ p \in Sweeper => claimed'[p] = claimed[p]

(* p is done with the calls of D, or was killed. *)
Ends(p, D) ==
  /\ pc'[p] \in {"idle", "reap"} /\ job'[p] = NoCall /\ note'[p] = NoNote
  /\ p \in late' => p \in late
  /\ p \in late => p \in late' \/ pc'[p] = "idle"
  /\ p \in Sweeper => claimed'[p] \subseteq claimed[p] /\ claimed[p] \ claimed'[p] \subseteq D

(* p goes on with its call. *)
Goes(p, label) ==
  /\ pc'[p] = label /\ job'[p] = job[p] /\ left'[p] = left[p] /\ note'[p] = note[p]
  /\ (p \in late') <=> (p \in late)
  /\ p \in Sweeper => claimed'[p] = claimed[p]

(* p begins to work on a call. *)
Begins(p, c, label, time) ==
  /\ pc'[p] = label /\ job'[p] = c /\ left'[p] = time
  /\ (p \in late') <=> (p \in late)
  /\ p \in Sweeper => claimed'[p] = claimed[p]

(* A call that has an invite never goes back to having none. *)
MadeStays == \A c \in Call : made'[c] = "no" => made[c] = "no"

QuietBegin(p, c) ==
  \/ /\ pc[p] = "idle" /\ p = CallerOf[c] /\ made[c] = "no" /\ made'[c] # "no"
     /\ Begins(p, c, "lock_caller", RingTTL)
  \/ \E label \in {"pending_get", "accept"} : Begins(p, c, label, 0)
  \/ /\ Begins(p, c, "terminate", 0)
     /\ note'[p].why = "completed" =>
          state[c] \in {"connected", "ended"} /\ (p \in Sweeper => expire[c] = 0)
  \/ p \in Sweeper /\ c \in claimed[p] /\ ~Active(c) /\ Begins(p, c, "drop_index", 0)
  \/ p \in Sweeper /\ c \in claimed[p] /\ Active(c) /\ expire[c] > 0
     /\ Begins(p, c, "reschedule", expire[c])

QuietGo(p) ==
  \/ pc[p] = "lock_caller" /\ Goes(p, "index")
  \/ pc[p] # "create" /\ \E label \in {"unlock_callee", "pending_unlock", "pending_check"} : Goes(p, label)
  \/ note[p] = NoNote /\ \E label \in Freeing : Goes(p, label)
  \/ /\ note[p] # NoNote /\ pc[p] \in {"unindex"} \cup Freeing
     /\ \E label \in Freeing \cup {"record"} : Goes(p, label)

Quiet(p) ==
  /\ OthersStay(p) /\ MadeStays
  /\ UNCHANGED <<hashVars, due, records>>
  /\ \/ mishaps' = mishaps /\ Ends(p, {c \in Call : ~Active(c)})
     \/ mishaps' = mishaps + 1 /\ Ends(p, Call)
     \/ mishaps' \in {mishaps, mishaps + 1} /\ (Keeps(p) \/ QuietGo(p))
     \/ mishaps' = mishaps /\ \E c \in Call : QuietBegin(p, c)

(* The index entry of a new call is written. *)
IndexMove(u) ==
  LET c == job[u] IN
  /\ OthersStay(u) /\ MadeStays /\ u \in User /\ c \in Call
  /\ UNCHANGED <<hashVars, records>>
  /\ mishaps' \in {mishaps, mishaps + 1}
  /\ pc[u] = "index"
  /\ due' = [due EXCEPT ![c] = left[u]]
  /\ Goes(u, "create") \/ Goes(u, "free_callee")

(* The HASH of a new call is written. *)
CreateMove(u) ==
  LET c == job[u] IN
  /\ OthersStay(u) /\ MadeStays /\ u \in User /\ c \in Call
  /\ UNCHANGED <<due, records>>
  /\ mishaps' \in {mishaps, mishaps + 1}
  /\ pc[u] = "create"
  /\ WriteRinging(c, left[u])
  /\ Goes(u, "deliver") \/ Goes(u, "free_callee")

(* A call is answered. *)
AnswerMove(u) ==
  LET c == job[u] IN
  /\ OthersStay(u) /\ MadeStays /\ u \in User /\ c \in Call
  /\ UNCHANGED <<due, records>>
  /\ pc[u] = "accept" /\ MayConnect(c)
  /\ WriteConnected(c)
  /\ \/ mishaps' = mishaps /\ Begins(u, c, "accept_index", MaxCallDuration)
     \/ mishaps' = mishaps + 1 /\ Ends(u, Call)

(* A call is ended. *)
EndMove(p) ==
  LET c == job[p] IN
  /\ OthersStay(p) /\ MadeStays /\ c \in Call
  /\ UNCHANGED <<due, records>>
  /\ pc[p] = "terminate" /\ MayEnd(c)
  /\ WriteEnded(c)
  /\ \/ /\ mishaps' = mishaps
        /\ Begins(p, c, "unindex", 0)
        /\ note'[p] \in Record /\ note'[p].why = note[p].why /\ note'[p].talked = talked[c]
     \/ mishaps' = mishaps + 1 /\ Ends(p, Call)

(* An index entry is written or removed. *)
DueMove(p) ==
  LET c == job[p] IN
  /\ OthersStay(p) /\ MadeStays /\ c \in Call
  /\ UNCHANGED <<hashVars, records>>
  /\ mishaps' = mishaps
  /\ pc[p] \in DueWriters
  /\ due' = [due EXCEPT ![c] = IF pc[p] \in {"accept_index", "reschedule"} THEN left[p] ELSE NotIndexed]
  /\ IF pc[p] = "unindex" THEN Goes(p, "free_callee") ELSE Ends(p, {c})

(* The record of an ended call is published. *)
RecordMove(p) ==
  LET c == job[p] IN
  /\ OthersStay(p) /\ MadeStays /\ c \in Call
  /\ UNCHANGED <<hashVars, due>>
  /\ mishaps' = mishaps
  /\ pc[p] = "record" /\ note[p] \in Record
  /\ records' = [records EXCEPT ![c] = Append(@, note[p])]
  /\ Ends(p, {c})

(* What is due is claimed. *)
ClaimMove(w) ==
  LET D == {c \in Call : due[c] = 0} IN
  /\ OthersStay(w) /\ MadeStays /\ w \in Sweeper
  /\ UNCHANGED <<hashVars, records>>
  /\ mishaps' = mishaps
  /\ pc[w] = "idle" /\ w \notin late' /\ D # {}
  /\ due' = [c \in Call |-> IF c \in D THEN ClaimVisibilityTTL ELSE due[c]]
  /\ pc'[w] = "reap" /\ job'[w] = NoCall /\ claimed'[w] = D

Move(p) ==
  \/ Quiet(p) \/ IndexMove(p) \/ CreateMove(p) \/ AnswerMove(p) \/ EndMove(p)
  \/ DueMove(p) \/ RecordMove(p) \/ ClaimMove(p)

LEMMA MadeFacts ==
  ASSUME UserTypes
  PROVE  /\ UNCHANGED userVars => MadeStays
         /\ UNCHANGED made => MadeStays
         /\ \A c \in Call, to \in {"making", "made", "offered", "refused"} : SetMade(c, to) => MadeStays
         /\ \A u \in User : Answered(u) \/ Offline(u) => MadeStays
  BY DEF UserTypes, userVars, MadeStays, SetMade, Answered, Offline

LEMMA FinishEnds ==
  ASSUME TypeInv, NEW p \in Proc, NEW c, FinishCall(p, c)
  PROVE  OthersStay(p) /\ Ends(p, {c})
  <1>1. ProcTypes
    BY DEF TypeInv
  <1>2. p \in Sweeper => claimed[p] \subseteq Call
    BY <1>1 DEF ProcTypes
  <1> QED
    BY <1>1, <1>2, FinishFacts DEF Ends

LEMMA GotoGoes ==
  ASSUME TypeInv, NEW p \in Proc, NEW label \in PCs, Goto(p, label)
  PROVE  OthersStay(p) /\ Goes(p, label)
  <1>1. ProcTypes
    BY DEF TypeInv
  <1> QED
    BY <1>1, GotoFacts DEF Goes

LEMMA StartBegins ==
  ASSUME TypeInv, NEW p \in Proc, NEW c \in Call, NEW label \in PCs, NEW time \in Nat,
         NEW about \in Note, Start(p, c, label, time, about)
  PROVE  OthersStay(p) /\ Begins(p, c, label, time) /\ note'[p] = about
  <1>1. ProcTypes
    BY DEF TypeInv
  <1> QED
    BY <1>1, StartFacts DEF Begins

LEMMA StillKeeps ==
  ASSUME NEW p \in Proc, UNCHANGED <<pc, job, left, note, claimed, late>>
  PROVE  OthersStay(p) /\ Keeps(p)
  BY DEF OthersStay, Keeps

(* Every step of a connection's handler is a move. *)
LEMMA HandlerMoves ==
  ASSUME TypeInv, NEW u \in User
  PROVE  /\ Connect(u) \/ Disconnect(u) => Move(u)
         /\ HandlerStep(u) => Move(u)
         /\ \A c \in Call : Invite(u, c) \/ Accept(u, c) => Move(u)
         /\ \A c \in Call, reason \in {"canceled", "rejected", "completed"} :
              HangUp(u, c, reason) => Move(u)
  <1> DEFINE c == job[u]
  <1>a. ProcTypes /\ HashTypes /\ LockTypes /\ UserTypes /\ OtherTypes /\ BudgetTypes
    BY DEF TypeInv
  <1>b. u \in Proc /\ u \notin Sweeper
    BY Kinds
  <1>c. pc[u] \notin {"idle", "reap"} => c \in Call
    BY <1>b, Working
  <1>d. pc[u] \in Creating => note[u] = NoNote
    BY <1>b DEF TypeInv, ProcOK
  <1>m. mishaps \in Nat /\ (Calm \/ Signal => mishaps' = mishaps) /\ (Mishap => mishaps' = mishaps + 1)
    BY <1>a, CallAssumption DEF Calm, Mishap, Signal, BudgetTypes
  <1>r. UNCHANGED redisVars => UNCHANGED <<hashVars, due>>
    BY DEF redisVars, hashVars
  <1>s. UNCHANGED <<pc, job, left, note, claimed, late>> => OthersStay(u) /\ Keeps(u)
    BY <1>b, StillKeeps
  <1>f. ASSUME Finish(u)
        PROVE  OthersStay(u) /\ \A D : Ends(u, D)
    <2>1. OthersStay(u) /\ Ends(u, {c})
      BY <1>b, <1>f, FinishEnds DEF Finish
    <2> QED
      BY <1>b, <2>1 DEF Ends
  <1>g. \A label \in PCs : Goto(u, label) => OthersStay(u) /\ Goes(u, label)
    BY <1>b, GotoGoes
  <1>x. ASSUME OthersStay(u), MadeStays, UNCHANGED <<hashVars, due, records>>,
               \/ mishaps' = mishaps /\ Ends(u, {e \in Call : ~Active(e)})
               \/ mishaps' = mishaps + 1 /\ Ends(u, Call)
               \/ mishaps' \in {mishaps, mishaps + 1} /\ (Keeps(u) \/ QuietGo(u))
               \/ mishaps' = mishaps /\ \E e \in Call : QuietBegin(u, e)
        PROVE  Move(u)
    BY <1>x DEF Quiet, Move
  <1> HIDE DEF c
  <1>1. ASSUME Connect(u) PROVE Move(u)
    BY <1>1, <1>r, <1>s, <1>x, MadeFacts, <1>a DEF Connect
  <1>2. ASSUME Disconnect(u) PROVE Move(u)
    BY <1>2, <1>m, <1>r, <1>s, <1>x, MadeFacts, <1>a DEF Disconnect
  <1>3. ASSUME NEW d \in Call, Invite(u, d) PROVE Move(u)
    <2>1. /\ MadeStays /\ UNCHANGED <<hashVars, due, records>>
          /\ mishaps' \in {mishaps, mishaps + 1}
          /\ pc[u] = "idle" /\ u = CallerOf[d] /\ made[d] = "no"
      BY <1>3, <1>a, <1>m, MadeFacts DEF Invite, At
    <2>2. CASE UNCHANGED <<pc, job, left, note, claimed, late>>
      BY <1>s, <1>x, <2>1, <2>2
    <2>3. CASE /\ Start(u, d, "lock_caller", RingTTL, NoNote)
               /\ SetMade(d, "making") /\ Calm
      <3>1. OthersStay(u) /\ Begins(u, d, "lock_caller", RingTTL)
        BY <1>b, <2>3, StartBegins, Times, NoteFacts DEF PCs
      <3>2. made'[d] # "no"
        BY <1>a, <2>3 DEF SetMade, UserTypes
      <3>3. QuietBegin(u, d)
        BY <2>1, <3>1, <3>2 DEF QuietBegin
      <3> QED
        BY <1>m, <1>x, <2>1, <2>3, <3>1, <3>3
    <2> QED
      BY <1>3, <2>2, <2>3 DEF Invite
  <1>4. ASSUME LockCaller(u) PROVE Move(u)
    <2>1. /\ MadeStays /\ UNCHANGED <<hashVars, due, records>>
          /\ mishaps' \in {mishaps, mishaps + 1} /\ pc[u] = "lock_caller"
      BY <1>4, <1>a, <1>m, MadeFacts DEF LockCaller, At
    <2>2. Goto(u, "index") \/ Goto(u, "unlock_callee")
      BY <1>4 DEF LockCaller
    <2>3. OthersStay(u) /\ QuietGo(u)
      BY <1>g, <2>1, <2>2 DEF QuietGo, PCs
    <2> QED
      BY <1>x, <2>1, <2>3
  <1>5. ASSUME UnlockCallee(u) PROVE Move(u)
    <2>1. c \in Call
      BY <1>5, <1>c DEF UnlockCallee, At
    <2> QED
      BY <1>5, <1>a, <1>f, <1>m, <1>x, <2>1, MadeFacts DEF UnlockCallee, c
  <1>6. ASSUME IndexCall(u) PROVE Move(u)
    <2>1. /\ MadeStays /\ UNCHANGED <<hashVars, records>>
          /\ mishaps' \in {mishaps, mishaps + 1} /\ pc[u] = "index" /\ note[u] = NoNote /\ c \in Call
      BY <1>6, <1>a, <1>c, <1>d, <1>m, MadeFacts DEF IndexCall, At, Creating
    <2>2. OthersStay(u) /\ (Goes(u, "create") \/ Goes(u, "free_callee"))
      BY <1>6, <1>g DEF IndexCall, IndexFails, PCs
    <2>3. CASE due' = [due EXCEPT ![c] = left[u]]
      BY <2>1, <2>2, <2>3 DEF Move, IndexMove, c
    <2>4. CASE UNCHANGED due /\ Goto(u, "free_callee")
      <3>1. QuietGo(u)
        BY <1>g, <2>1, <2>4 DEF QuietGo, Freeing, PCs
      <3> QED
        BY <1>x, <2>1, <2>2, <2>4, <3>1
    <2> QED
      BY <1>6, <2>3, <2>4 DEF IndexCall, IndexFails, c
  <1>7. ASSUME CreateState(u) PROVE Move(u)
    <2>1. /\ UNCHANGED <<due, records>>
          /\ mishaps' \in {mishaps, mishaps + 1} /\ pc[u] = "create" /\ note[u] = NoNote /\ c \in Call
      BY <1>7, <1>c, <1>d, <1>m DEF CreateState, At, Creating
    <2>2. OthersStay(u) /\ (Goes(u, "deliver") \/ Goes(u, "free_callee"))
      BY <1>7, <1>g DEF CreateState, PCs
    <2>3. MadeStays
      BY <1>7, <1>a, <2>1, MadeFacts DEF CreateState, c
    <2>4. CASE WriteRinging(c, left[u])
      BY <2>1, <2>2, <2>3, <2>4 DEF Move, CreateMove, c
    <2>5. CASE UNCHANGED hashVars /\ Goto(u, "free_callee")
      <3>1. QuietGo(u)
        BY <1>g, <2>1, <2>5 DEF QuietGo, Freeing, PCs
      <3> QED
        BY <1>x, <2>1, <2>2, <2>3, <2>5, <3>1
    <2> QED
      BY <1>7, <2>4, <2>5 DEF CreateState, c
  <1>8. ASSUME Deliver(u) PROVE Move(u)
    <2>1. MadeStays
      BY <1>8, <1>a DEF Deliver, UserTypes, MadeStays
    <2> QED
      BY <1>8, <1>f, <1>m, <1>r, <1>x, <2>1 DEF Deliver
  <1>9. ASSUME ReadLock(u) PROVE Move(u)
    <2>1. MadeStays /\ UNCHANGED <<hashVars, due, records>> /\ mishaps' = mishaps
      BY <1>9, <1>a, <1>m, <1>r, MadeFacts DEF ReadLock
    <2>2. CASE UNCHANGED <<pc, job, left, note, claimed, late>>
      BY <1>s, <1>x, <2>1, <2>2
    <2>3. CASE busy[u] # NoCall /\ Start(u, busy[u], "pending_get", 0, NoNote)
      <3>1. busy[u] \in Call
        BY <1>a, <2>3 DEF LockTypes
      <3>2. OthersStay(u) /\ Begins(u, busy[u], "pending_get", 0)
        BY <1>b, <2>3, <3>1, StartBegins, NoteFacts DEF PCs
      <3>3. QuietBegin(u, busy[u])
        BY <3>2 DEF QuietBegin
      <3> QED
        BY <1>x, <2>1, <3>1, <3>2, <3>3
    <2> QED
      BY <1>9, <2>2, <2>3 DEF ReadLock
  <1>10. ASSUME PendingGet(u) PROVE Move(u)
    <2>1. MadeStays /\ UNCHANGED <<hashVars, due, records>> /\ mishaps' = mishaps /\ pc[u] = "pending_get"
      BY <1>10, <1>a, <1>m, <1>r, MadeFacts DEF PendingGet, At
    <2>2. CASE Goto(u, "pending_unlock") \/ Goto(u, "pending_check")
      <3>1. OthersStay(u) /\ QuietGo(u)
        BY <1>g, <2>1, <2>2 DEF QuietGo, PCs
      <3> QED
        BY <1>x, <2>1, <3>1
    <2>3. CASE Finish(u)
      BY <1>f, <1>x, <2>1, <2>3
    <2> QED
      BY <1>10, <2>2, <2>3 DEF PendingGet
  <1>11. ASSUME PendingUnlock(u) PROVE Move(u)
    BY <1>11, <1>a, <1>f, <1>m, <1>x, MadeFacts DEF PendingUnlock
  <1>12. ASSUME PendingCheck(u) PROVE Move(u)
    <2>1. UNCHANGED <<hashVars, due, records>> /\ mishaps' = mishaps /\ c \in Call
      BY <1>12, <1>c, <1>m, <1>r DEF PendingCheck, At
    <2>2. MadeStays
      BY <1>12, <1>a, MadeFacts DEF PendingCheck
    <2>3. CASE Start(u, c, "terminate", 0, [why |-> "failed", talked |-> FALSE])
      <3>1. PICK n \in Record : n = [why |-> "failed", talked |-> FALSE] /\ n.why = "failed"
        BY NoteFacts DEF Reason
      <3>2. OthersStay(u) /\ Begins(u, c, "terminate", 0) /\ note'[u].why = "failed"
        BY <1>b, <2>1, <2>3, <3>1, StartBegins, NoteFacts DEF PCs
      <3>3. QuietBegin(u, c)
        BY <3>2 DEF QuietBegin
      <3> QED
        BY <1>x, <2>1, <2>2, <3>2, <3>3
    <2>4. CASE Finish(u)
      BY <1>f, <1>x, <2>1, <2>2, <2>4
    <2> QED
      BY <1>12, <2>3, <2>4 DEF PendingCheck, c
  <1>13. ASSUME NEW d \in Call, Accept(u, d) PROVE Move(u)
    <2>1. MadeStays /\ UNCHANGED <<hashVars, due, records>> /\ mishaps' = mishaps
      BY <1>13, <1>a, <1>m, <1>r, MadeFacts DEF Accept
    <2>2. OthersStay(u) /\ Begins(u, d, "accept", 0)
      BY <1>13, <1>b, StartBegins, NoteFacts DEF Accept, PCs
    <2>3. QuietBegin(u, d)
      BY <2>2 DEF QuietBegin
    <2> QED
      BY <1>x, <2>1, <2>2, <2>3
  <1>14. ASSUME AcceptCAS(u) PROVE Move(u)
    <2>1. /\ MadeStays /\ UNCHANGED <<due, records>> /\ pc[u] = "accept" /\ c \in Call
      BY <1>14, <1>a, <1>c, MadeFacts DEF AcceptCAS, At
    <2>2. CASE /\ MayConnect(c) /\ WriteConnected(c)
               /\ Start(u, c, "accept_index", MaxCallDuration, NoNote) /\ Calm
      <3>1. OthersStay(u) /\ Begins(u, c, "accept_index", MaxCallDuration)
        BY <1>b, <2>1, <2>2, StartBegins, Times, NoteFacts DEF PCs
      <3> QED
        BY <1>m, <2>1, <2>2, <3>1 DEF Move, AnswerMove, c
    <2>3. CASE MayConnect(c) /\ WriteConnected(c) /\ Finish(u) /\ Mishap
      BY <1>m, <1>f, <2>1, <2>3 DEF Move, AnswerMove, c
    <2>4. CASE UNCHANGED hashVars /\ Finish(u) /\ (Calm \/ Mishap)
      BY <1>m, <1>f, <1>x, <2>1, <2>4
    <2> QED
      BY <1>14, <2>2, <2>3, <2>4 DEF AcceptCAS, c
  <1>15. ASSUME AcceptIndex(u) PROVE Move(u)
    <2>1. /\ MadeStays /\ UNCHANGED <<hashVars, records>> /\ mishaps' = mishaps
          /\ pc[u] = "accept_index" /\ c \in Call
          /\ due' = [due EXCEPT ![c] = left[u]] /\ OthersStay(u) /\ Ends(u, {c})
      BY <1>15, <1>a, <1>c, <1>f, <1>m, MadeFacts DEF AcceptIndex, At, c
    <2> QED
      BY <2>1 DEF Move, DueMove, DueWriters, c
  <1>16. ASSUME NEW d \in Call, NEW reason \in {"canceled", "rejected", "completed"},
                HangUp(u, d, reason)
         PROVE  Move(u)
    <2>1. MadeStays /\ UNCHANGED <<hashVars, due, records>> /\ mishaps' = mishaps /\ ~Absent(d)
      BY <1>16, <1>a, <1>m, <1>r, MadeFacts DEF HangUp
    <2>2. Normalized(u, d, reason) \in Reason
      BY DEF Normalized, Reason
    <2>3. PICK n \in Record : /\ n = [why |-> Normalized(u, d, reason), talked |-> FALSE]
                              /\ n.why = Normalized(u, d, reason)
      BY <2>2, NoteFacts
    <2>4. Start(u, d, "terminate", 0, n)
      BY <1>16, <2>3 DEF HangUp
    <2>5. OthersStay(u) /\ Begins(u, d, "terminate", 0) /\ note'[u] = n
      BY <1>b, <2>4, StartBegins, NoteFacts DEF PCs
    <2>6. Normalized(u, d, reason) = "completed" => state[d] \in {"connected", "ended"}
      BY <1>a, <2>1 DEF Normalized, Absent, HashTypes, States
    <2>7. QuietBegin(u, d)
      BY <1>b, <2>3, <2>5, <2>6 DEF QuietBegin
    <2> QED
      BY <1>x, <2>1, <2>5, <2>7
  <1> QED
    BY <1>1, <1>2, <1>3, <1>4, <1>5, <1>6, <1>7, <1>8, <1>9, <1>10, <1>11, <1>12, <1>13, <1>14,
       <1>15, <1>16 DEF HandlerStep

(* So is every step that ends a call, of the sweepers, and every mishap. *)
LEMMA TerminateMoves ==
  ASSUME TypeInv, NEW p \in Proc, TerminateStep(p)
  PROVE  Move(p)
  <1> DEFINE c == job[p]
  <1>a. ProcTypes /\ HashTypes /\ LockTypes /\ UserTypes /\ OtherTypes /\ BudgetTypes
    BY DEF TypeInv
  <1>c. pc[p] \notin {"idle", "reap"} => c \in Call
    BY Working
  <1>d. /\ pc[p] \in {"terminate", "record"} => note[p] \in Record
        /\ p \in Sweeper /\ pc[p] \in Freeing => note[p] # NoNote
    BY NoteFacts DEF TypeInv, ProcTypes, ProcOK, Freeing
  <1>m. mishaps \in Nat /\ (Calm => mishaps' = mishaps) /\ (Mishap => mishaps' = mishaps + 1)
    BY <1>a, CallAssumption DEF Calm, Mishap, BudgetTypes
  <1>f. ASSUME Finish(p)
        PROVE  OthersStay(p) /\ Ends(p, {c}) /\ (p \notin Sweeper => \A D : Ends(p, D))
    <2>1. OthersStay(p) /\ Ends(p, {c})
      BY <1>f, FinishEnds DEF Finish
    <2> QED
      BY <2>1 DEF Ends
  <1>g. \A label \in PCs : Goto(p, label) => OthersStay(p) /\ Goes(p, label)
    BY GotoGoes
  <1>x. ASSUME OthersStay(p), MadeStays, UNCHANGED <<hashVars, due, records>>,
               \/ mishaps' = mishaps /\ Ends(p, {e \in Call : ~Active(e)})
               \/ mishaps' = mishaps + 1 /\ Ends(p, Call)
               \/ mishaps' \in {mishaps, mishaps + 1} /\ (Keeps(p) \/ QuietGo(p))
               \/ mishaps' = mishaps /\ \E e \in Call : QuietBegin(p, e)
        PROVE  Move(p)
    BY <1>x DEF Quiet, Move
  <1>1. ASSUME Terminate(p) PROVE Move(p)
    <2>1. /\ MadeStays /\ UNCHANGED <<due, records>> /\ pc[p] = "terminate" /\ c \in Call
          /\ note[p] \in Record /\ talked[c] \in BOOLEAN
      BY <1>1, <1>a, <1>c, <1>d, MadeFacts DEF Terminate, At, HashTypes
    <2>2. PICK n \in Record : n = [note[p] EXCEPT !.talked = talked[c]]
                              /\ n.why = note[p].why /\ n.talked = talked[c]
      BY <2>1, TalkedNote
    <2>3. CASE MayEnd(c) /\ WriteEnded(c) /\ Start(p, c, "unindex", 0, n) /\ Calm
      <3>1. OthersStay(p) /\ Begins(p, c, "unindex", 0) /\ note'[p] = n
        BY <2>1, <2>3, StartBegins, NoteFacts DEF PCs
      <3> QED
        BY <1>m, <2>1, <2>2, <2>3, <3>1 DEF Move, EndMove, c
    <2>4. CASE MayEnd(c) /\ WriteEnded(c) /\ Finish(p) /\ Mishap
      <3>1. Ends(p, Call)
        BY <1>f, <2>1, <2>4 DEF Ends
      <3> QED
        BY <1>m, <1>f, <2>1, <2>4, <3>1 DEF Move, EndMove, c
    <2>5. CASE UNCHANGED hashVars /\ Finish(p) /\ ~MayEnd(c) /\ Calm
      <3>1. Ends(p, {e \in Call : ~Active(e)})
        BY <1>f, <2>1, <2>5 DEF Ends, MayEnd
      <3> QED
        BY <1>m, <1>f, <1>x, <2>1, <2>5, <3>1
    <2>6. CASE UNCHANGED hashVars /\ Finish(p) /\ Mishap
      <3>1. Ends(p, Call)
        BY <1>f, <2>1, <2>6 DEF Ends
      <3> QED
        BY <1>m, <1>f, <1>x, <2>1, <2>6, <3>1
    <2> QED
      BY <1>1, <2>2, <2>3, <2>4, <2>5, <2>6 DEF Terminate, c
  <1>2. ASSUME Unindex(p) PROVE Move(p)
    <2>1. /\ MadeStays /\ UNCHANGED <<hashVars, records>> /\ mishaps' = mishaps
          /\ pc[p] = "unindex" /\ c \in Call
          /\ due' = [due EXCEPT ![c] = NotIndexed] /\ OthersStay(p) /\ Goes(p, "free_callee")
      BY <1>2, <1>a, <1>c, <1>g, <1>m, MadeFacts DEF Unindex, At, PCs
    <2> QED
      BY <2>1 DEF Move, DueMove, DueWriters
  <1>3. ASSUME FreeCallee(p) PROVE Move(p)
    <2>1. /\ MadeStays /\ UNCHANGED <<hashVars, due, records>> /\ mishaps' = mishaps
          /\ pc[p] = "free_callee" /\ OthersStay(p) /\ Goes(p, "free_caller")
      BY <1>3, <1>a, <1>g, <1>m, MadeFacts DEF FreeCallee, At, PCs
    <2>2. QuietGo(p)
      BY <2>1 DEF QuietGo, Freeing
    <2> QED
      BY <1>x, <2>1, <2>2
  <1>4. ASSUME FreeCaller(p) PROVE Move(p)
    <2>1. /\ UNCHANGED <<hashVars, due, records>> /\ mishaps' = mishaps
          /\ pc[p] = "free_caller" /\ c \in Call
      BY <1>4, <1>c, <1>m DEF FreeCaller, At
    <2>2. MadeStays
      BY <1>4, <1>a, <2>1, MadeFacts DEF FreeCaller
    <2>3. CASE note[p] # NoNote /\ Goto(p, "record")
      <3>1. OthersStay(p) /\ QuietGo(p)
        BY <1>g, <2>1, <2>3 DEF QuietGo, Freeing, PCs
      <3> QED
        BY <1>x, <2>1, <2>2, <3>1
    <2>4. CASE note[p] = NoNote /\ Finish(p)
      <3>1. p \notin Sweeper
        BY <1>d, <2>1, <2>4 DEF Freeing
      <3> QED
        BY <1>f, <1>x, <2>1, <2>2, <2>4, <3>1
    <2> QED
      BY <1>4, <2>3, <2>4 DEF FreeCaller
  <1>5. ASSUME PublishRecord(p) PROVE Move(p)
    <2>1. /\ MadeStays /\ UNCHANGED <<hashVars, due>> /\ mishaps' = mishaps
          /\ pc[p] = "record" /\ c \in Call /\ note[p] \in Record
          /\ records' = [records EXCEPT ![c] = Append(@, note[p])]
          /\ OthersStay(p) /\ Ends(p, {c})
      BY <1>5, <1>a, <1>c, <1>d, <1>f, <1>m, MadeFacts DEF PublishRecord, At, redisVars, hashVars
    <2> QED
      BY <2>1 DEF Move, RecordMove
  <1> QED
    BY <1>1, <1>2, <1>3, <1>4, <1>5 DEF TerminateStep

LEMMA SweeperMoves ==
  ASSUME TypeInv, NEW w \in Sweeper, SweeperStep(w)
  PROVE  Move(w)
  <1> DEFINE c == job[w]
  <1>a. ProcTypes /\ HashTypes /\ LockTypes /\ UserTypes /\ OtherTypes /\ BudgetTypes
    BY DEF TypeInv
  <1>b. w \in Proc
    BY Kinds
  <1>c. pc[w] \notin {"idle", "reap"} => c \in Call
    BY <1>b, Working
  <1>m. mishaps \in Nat /\ (Calm => mishaps' = mishaps)
    BY <1>a, CallAssumption DEF Calm, BudgetTypes
  <1>1. ASSUME ClaimExpired(w) PROVE Move(w)
    <2>1. job[w] = NoCall /\ w \notin late /\ pc[w] = "idle"
      BY <1>1, <1>b DEF ClaimExpired, At, TypeInv, ProcOK
    <2>2. OthersStay(w) /\ pc'[w] = "reap" /\ job'[w] = NoCall /\ w \notin late'
      BY <1>1, <1>a, <1>b, <2>1 DEF ClaimExpired, ProcTypes, OthersStay
    <2>3. claimed'[w] = {e \in Call : due[e] = 0}
      BY <1>1, <1>a DEF ClaimExpired, ProcTypes
    <2>4. /\ MadeStays /\ UNCHANGED <<hashVars, records>> /\ mishaps' = mishaps
          /\ {e \in Call : due[e] = 0} # {}
          /\ due' = [e \in Call |-> IF e \in {d \in Call : due[d] = 0} THEN ClaimVisibilityTTL ELSE due[e]]
      BY <1>1, <1>a, <1>m, MadeFacts DEF ClaimExpired
    <2> QED
      BY <2>1, <2>2, <2>3, <2>4 DEF Move, ClaimMove
  <1>2. ASSUME Reap(w) PROVE Move(w)
    <2>1. PICK d \in claimed[w] :
            \/ ~Active(d) /\ Start(w, d, "drop_index", 0, NoNote)
            \/ Active(d) /\ TimeLeft(d) /\ Start(w, d, "reschedule", expire[d], NoNote)
            \/ /\ Active(d) /\ ~TimeLeft(d)
               /\ Start(w, d, "terminate", 0, [why |-> SweepReason(d), talked |-> FALSE])
      BY <1>2 DEF Reap
    <2>2. d \in Call /\ expire[d] \in Nat
      BY <1>a DEF ProcTypes, HashTypes
    <2>3. MadeStays /\ UNCHANGED <<hashVars, due, records>> /\ mishaps' = mishaps
      BY <1>2, <1>a, <1>m, MadeFacts DEF Reap, redisVars, hashVars
    <2>4. CASE ~Active(d) /\ Start(w, d, "drop_index", 0, NoNote)
      <3>1. OthersStay(w) /\ Begins(w, d, "drop_index", 0)
        BY <1>b, <2>2, <2>4, StartBegins, NoteFacts DEF PCs
      <3>2. QuietBegin(w, d)
        BY <2>1, <2>4, <3>1 DEF QuietBegin
      <3> QED
        BY <2>2, <2>3, <3>1, <3>2 DEF Quiet, Move
    <2>5. CASE Active(d) /\ TimeLeft(d) /\ Start(w, d, "reschedule", expire[d], NoNote)
      <3>1. OthersStay(w) /\ Begins(w, d, "reschedule", expire[d])
        BY <1>b, <2>2, <2>5, StartBegins, NoteFacts DEF PCs
      <3>2. QuietBegin(w, d)
        BY <2>1, <2>5, <3>1 DEF QuietBegin, TimeLeft
      <3> QED
        BY <2>2, <2>3, <3>1, <3>2 DEF Quiet, Move
    <2>6. CASE /\ Active(d) /\ ~TimeLeft(d)
               /\ Start(w, d, "terminate", 0, [why |-> SweepReason(d), talked |-> FALSE])
      <3>1. SweepReason(d) \in Reason
        BY DEF SweepReason, Reason
      <3>2. PICK n \in Record : n = [why |-> SweepReason(d), talked |-> FALSE] /\ n.why = SweepReason(d)
        BY <3>1, NoteFacts
      <3>3. OthersStay(w) /\ Begins(w, d, "terminate", 0) /\ note'[w] = n
        BY <1>b, <2>2, <2>6, <3>2, StartBegins, NoteFacts DEF PCs
      <3>4. n.why = "completed" => state[d] = "connected"
        BY <3>2 DEF SweepReason
      <3>5. expire[d] = 0
        BY <2>2, <2>6 DEF TimeLeft
      <3>6. QuietBegin(w, d)
        BY <3>3, <3>4, <3>5 DEF QuietBegin
      <3> QED
        BY <2>2, <2>3, <3>3, <3>6 DEF Quiet, Move
    <2> QED
      BY <2>1, <2>4, <2>5, <2>6
  <1>3. ASSUME Reschedule(w) PROVE Move(w)
    <2>1. /\ MadeStays /\ UNCHANGED <<hashVars, records>> /\ mishaps' = mishaps
          /\ pc[w] = "reschedule" /\ c \in Call
          /\ due' = [due EXCEPT ![c] = left[w]] /\ OthersStay(w) /\ Ends(w, {c})
      BY <1>3, <1>a, <1>b, <1>c, <1>m, MadeFacts, FinishEnds DEF Reschedule, At, Finish
    <2> QED
      BY <2>1 DEF Move, DueMove, DueWriters
  <1>4. ASSUME DropIndex(w) PROVE Move(w)
    <2>1. /\ MadeStays /\ UNCHANGED <<hashVars, records>> /\ mishaps' = mishaps
          /\ pc[w] = "drop_index" /\ c \in Call
          /\ due' = [due EXCEPT ![c] = NotIndexed] /\ OthersStay(w) /\ Ends(w, {c})
      BY <1>4, <1>a, <1>b, <1>c, <1>m, MadeFacts, FinishEnds DEF DropIndex, At, Finish
    <2> QED
      BY <2>1 DEF Move, DueMove, DueWriters
  <1> QED
    BY <1>1, <1>2, <1>3, <1>4 DEF SweeperStep

LEMMA MishapMoves ==
  ASSUME TypeInv, NEW p \in Proc, StepLost(p) \/ Crash(p)
  PROVE  Move(p)
  <1>a. ProcTypes /\ HashTypes /\ LockTypes /\ UserTypes /\ OtherTypes /\ BudgetTypes
    BY DEF TypeInv
  <1>b. /\ pc[p] \in {"unlock_callee", "free_caller"} => job[p] \in Call
        /\ pc[p] = "pending_unlock" => p \in User
        /\ p \in Sweeper => claimed[p] \subseteq Call
    BY <1>a, Working, WhoIsAt DEF ProcTypes
  <1>m. mishaps \in Nat /\ mishaps' = mishaps + 1
    BY <1>a, CallAssumption DEF Mishap, StepLost, Crash, BudgetTypes
  <1>r. UNCHANGED <<hashVars, due, records>>
    BY DEF StepLost, Crash, redisVars, hashVars
  <1>s. MadeStays
    BY <1>a, <1>b, MadeFacts DEF StepLost, Crash, At
  <1>f. ASSUME NEW c, FinishCall(p, c)
        PROVE  OthersStay(p) /\ Ends(p, Call)
    <2>1. OthersStay(p) /\ Ends(p, {c})
      BY <1>f, FinishEnds
    <2> QED
      BY <1>b, <2>1 DEF Ends
  <1>1. ASSUME StepLost(p) PROVE OthersStay(p) /\ (QuietGo(p) \/ Ends(p, Call))
    <2>1. ASSUME NEW from \in {"unindex"} \cup Freeing, NEW to \in Freeing \cup {"record"},
                 At(p, from), Goto(p, to), to = "record" => note[p] # NoNote
          PROVE  OthersStay(p) /\ QuietGo(p)
      <3>1. OthersStay(p) /\ Goes(p, to)
        BY <2>1, GotoGoes DEF Freeing, PCs
      <3> QED
        BY <2>1, <3>1 DEF QuietGo, At
    <2> QED
      BY <1>1, <1>f, <2>1 DEF StepLost, Finish, Freeing
  <1>2. ASSUME Crash(p) PROVE OthersStay(p) /\ Ends(p, Call)
    <2>1. /\ pc' = [pc EXCEPT ![p] = "idle"]
          /\ job' = [job EXCEPT ![p] = NoCall]
          /\ left' = [left EXCEPT ![p] = 0]
          /\ note' = [note EXCEPT ![p] = NoNote]
          /\ claimed' = [w \in Sweeper |-> IF w = p THEN {} ELSE claimed[w]]
          /\ late' = late \ {p}
      BY <1>2 DEF Crash
    <2>2. OthersStay(p)
      BY <1>a, <2>1, Kinds DEF ProcTypes, OthersStay
    <2>3. Ends(p, Call)
      BY <1>a, <1>b, <2>1 DEF ProcTypes, Ends
    <2> QED
      BY <2>2, <2>3
  <1> QED
    BY <1>m, <1>r, <1>s, <1>1, <1>2 DEF Quiet, Move

LEMMA StepsAreMoves ==
  ASSUME TypeInv, Next
  PROVE  Tick \/ \E p \in Proc : Move(p)
  <1>2. CASE \E u \in User : Connect(u) \/ Disconnect(u)
    BY <1>2, HandlerMoves, Kinds
  <1>3. CASE \E u \in User, c \in Call :
               \/ Invite(u, c) \/ Accept(u, c)
               \/ \E reason \in {"canceled", "rejected", "completed"} : HangUp(u, c, reason)
    BY <1>3, HandlerMoves, Kinds
  <1>4. ASSUME NEW p \in Proc, Step(p) PROVE Move(p)
    BY <1>4, TerminateMoves, HandlerMoves, SweeperMoves DEF Step
  <1>5. ASSUME NEW p \in Proc, StepLost(p) \/ Crash(p) PROVE Move(p)
    BY <1>5, MishapMoves
  <1> QED
    BY <1>2, <1>3, <1>4, <1>5 DEF Next

----------------------------------------------------------------------------

(* No call is alive without an index entry.  A call that is being created has
   no HASH yet, no sweeper holds it, and its entry (which is written first) is
   not due before its creator is through: the creator crosses one tick at
   most, and the call rings for longer than that. *)

Crossed(p) == IF p \in late THEN 1 ELSE 0

(* The call has not been placed, or its caller is still at work on its Create. *)
Pending(c) ==
  made[c] = "no" \/ (pc[CallerOf[c]] \in Creating /\ job[CallerOf[c]] = c)

Unheld(c) == \A w \in Sweeper : c \notin claimed[w]

CreatorOK(u) ==
  pc[u] \in Creating =>
    LET c == job[u] IN
    /\ u = CallerOf[c] /\ made[c] # "no" /\ state[c] = "none" /\ Unheld(c)
    /\ RingTTL - Crossed(u) <= left[u] /\ left[u] <= RingTTL
    /\ due[c] = IF pc[u] = "create" THEN left[u] ELSE NotIndexed

UnmadeOK(c) == made[c] = "no" => state[c] = "none" /\ due[c] = NotIndexed /\ Unheld(c)

(* Who writes or removes an index entry does so for a call that has been
   created, and removes that of a call that is not alive. *)
WriterOK(p) ==
  /\ pc[p] \in DueWriters => ~Pending(job[p])
  /\ pc[p] \in {"unindex", "drop_index"} => ~Active(job[p])

CreationInv ==
  /\ \A u \in User : CreatorOK(u)
  /\ \A c \in Call : UnmadeOK(c)
  /\ \A p \in Proc : WriterOK(p)

LEMMA PendingFacts ==
  ASSUME TypeInv, CreationInv, NEW c \in Call, Pending(c)
  PROVE  state[c] = "none" /\ Unheld(c) /\ due[c] # 0
  <1>1. CASE made[c] = "no"
    BY <1>1 DEF CreationInv, UnmadeOK, NotIndexed
  <1>2. CASE pc[CallerOf[c]] \in Creating /\ job[CallerOf[c]] = c
    <2> DEFINE u == CallerOf[c]
    <2>1. u \in User /\ u \in Proc
      BY Parties2, Kinds
    <2>2. CreatorOK(u)
      BY <2>1 DEF CreationInv
    <2>3. left[u] \in Nat
      BY <2>1 DEF TypeInv, ProcTypes
    <2>4. left[u] # 0
      BY <1>2, <2>2, <2>3, Times DEF CreatorOK, Crossed
    <2> QED
      BY <1>2, <2>2, <2>4 DEF CreatorOK, NotIndexed
  <1> QED
    BY <1>1, <1>2 DEF Pending

(* What a move says of its process and of the variables it shares. *)
LEMMA MoveFacts ==
  ASSUME TypeInv, NEW p \in Proc, Move(p)
  PROVE  /\ OthersStay(p) /\ MadeStays
         /\ mishaps \in Nat /\ mishaps' \in {mishaps, mishaps + 1}
         /\ IndexMove(p) \/ CreateMove(p) \/ AnswerMove(p) => p \in User
         /\ ClaimMove(p) => p \in Sweeper
         /\ ~ClaimMove(p) => \A w \in Sweeper : claimed'[w] \subseteq claimed[w]
  <1>1. mishaps \in Nat
    BY CallAssumption DEF TypeInv, BudgetTypes
  <1>2. OthersStay(p) /\ MadeStays
    BY DEF Move, Quiet, IndexMove, CreateMove, AnswerMove, EndMove, DueMove, RecordMove, ClaimMove
  <1>3. mishaps' \in {mishaps, mishaps + 1}
    BY DEF Move, Quiet, IndexMove, CreateMove, AnswerMove, EndMove, DueMove, RecordMove, ClaimMove
  <1>4. p \in Sweeper /\ ~ClaimMove(p) => claimed'[p] \subseteq claimed[p]
    BY DEF Move, Quiet, IndexMove, CreateMove, AnswerMove, EndMove, DueMove, RecordMove,
           Keeps, QuietGo, QuietBegin, Goes, Begins, Ends
  <1>5. \A w \in Sweeper : w # p => claimed'[w] = claimed[w]
    BY <1>2, Kinds DEF OthersStay
  <1>6. /\ IndexMove(p) \/ CreateMove(p) \/ AnswerMove(p) => p \in User
        /\ ClaimMove(p) => p \in Sweeper
    BY DEF IndexMove, CreateMove, AnswerMove, ClaimMove
  <1> QED
    BY <1>1, <1>2, <1>3, <1>4, <1>5, <1>6

(* How a process gets to the labels at which it creates a call. *)
LEMMA EntersCreating ==
  ASSUME TypeInv, NEW p \in Proc, Move(p), pc'[p] \in Creating
  PROVE  \/ Quiet(p) /\ Keeps(p)
         \/ Quiet(p) /\ pc[p] = "lock_caller" /\ Goes(p, "index")
         \/ /\ Quiet(p) /\ pc[p] = "idle"
            /\ \E c \in Call : /\ p = CallerOf[c] /\ made[c] = "no" /\ made'[c] # "no"
                               /\ Begins(p, c, "lock_caller", RingTTL)
         \/ IndexMove(p) /\ pc[p] = "index" /\ Goes(p, "create")
  <1>1. CASE Quiet(p)
    <2>1. Quiet(p) => Keeps(p) \/ QuietGo(p) \/ \E c \in Call : QuietBegin(p, c)
      BY DEF Quiet, Ends, Creating
    <2>2. QuietGo(p) => pc[p] = "lock_caller" /\ Goes(p, "index")
      BY DEF QuietGo, Goes, Creating, Freeing
    <2>3. ASSUME NEW c \in Call, QuietBegin(p, c)
          PROVE  /\ pc[p] = "idle" /\ p = CallerOf[c] /\ made[c] = "no" /\ made'[c] # "no"
                 /\ Begins(p, c, "lock_caller", RingTTL)
      BY <2>3 DEF QuietBegin, Begins, Creating
    <2> QED
      BY <1>1, <2>1, <2>2, <2>3
  <1>2. CASE IndexMove(p)
    BY <1>2 DEF IndexMove, Goes, Creating
  <1>3. CASE CreateMove(p) \/ AnswerMove(p) \/ EndMove(p) \/ DueMove(p) \/ RecordMove(p) \/ ClaimMove(p)
    BY <1>3 DEF CreateMove, AnswerMove, EndMove, DueMove, RecordMove, ClaimMove,
                Goes, Begins, Ends, Creating
  <1> QED
    BY <1>1, <1>2, <1>3 DEF Move

LEMMA PendingShrinks ==
  ASSUME TypeInv, NEW p \in Proc, Move(p), NEW c \in Call, Pending(c)'
  PROVE  Pending(c)
  <1> DEFINE u == CallerOf[c]
  <1>1. u \in User /\ u \in Proc
    BY Parties2, Kinds
  <1>2. CASE made'[c] = "no"
    BY <1>2, MoveFacts DEF MadeStays, Pending
  <1>3. CASE pc'[u] \in Creating /\ job'[u] = c /\ u # p
    BY <1>1, <1>3, MoveFacts DEF OthersStay, Pending
  <1>4. CASE pc'[u] \in Creating /\ job'[u] = c /\ u = p
    BY <1>1, <1>4, EntersCreating DEF Pending, Keeps, Goes, Begins, Creating
  <1> QED
    BY <1>2, <1>3, <1>4 DEF Pending

(* Only its creator touches a call that is pending. *)
LEMMA PendingUntouched ==
  ASSUME TypeInv, CreationInv, NEW p \in Proc, Move(p), NEW c \in Call, Pending(c),
         ~(pc[p] \in Creating /\ job[p] = c)
  PROVE  state'[c] = state[c] /\ due'[c] = due[c] /\ Unheld(c)'
  <1>0. /\ state[c] = "none" /\ Unheld(c) /\ due[c] # 0
        /\ due \in [Call -> Nat \cup {NotIndexed}] /\ state \in [Call -> States]
    BY PendingFacts DEF TypeInv, OtherTypes, HashTypes
  <1>1. ~ClaimMove(p) => Unheld(c)'
    BY <1>0, MoveFacts DEF Unheld
  <1>2. CASE Quiet(p) \/ RecordMove(p)
    <2>1. p \in Sweeper => claimed'[p] \subseteq claimed[p]
      BY <1>2 DEF Quiet, RecordMove, Keeps, QuietGo, QuietBegin, Goes, Begins, Ends
    <2>2. Unheld(c)'
      BY <1>0, <2>1, MoveFacts, Kinds DEF Unheld, OthersStay
    <2> QED
      BY <1>2, <2>2 DEF Quiet, RecordMove, hashVars
  <1>3. CASE IndexMove(p)
    <2>1. ~ClaimMove(p) /\ job[p] # c
      BY <1>3 DEF IndexMove, ClaimMove, Creating
    <2> QED
      BY <1>0, <1>1, <1>3, <2>1 DEF IndexMove, hashVars
  <1>4. CASE CreateMove(p)
    <2>1. ~ClaimMove(p) /\ job[p] # c
      BY <1>4 DEF CreateMove, ClaimMove, Creating
    <2> QED
      BY <1>0, <1>1, <1>4, <2>1 DEF CreateMove, WriteRinging
  <1>5. CASE AnswerMove(p)
    <2>1. ~ClaimMove(p) /\ job[p] # c
      BY <1>0, <1>5 DEF AnswerMove, ClaimMove, MayConnect
    <2> QED
      BY <1>0, <1>1, <1>5, <2>1 DEF AnswerMove, WriteConnected
  <1>6. CASE EndMove(p)
    <2>1. ~ClaimMove(p) /\ job[p] # c
      BY <1>0, <1>6 DEF EndMove, ClaimMove, MayEnd, Active
    <2> QED
      BY <1>0, <1>1, <1>6, <2>1 DEF EndMove, WriteEnded
  <1>7. CASE DueMove(p)
    <2>1. ~ClaimMove(p) /\ job[p] # c
      BY <1>7 DEF DueMove, ClaimMove, CreationInv, WriterOK, DueWriters
    <2> QED
      BY <1>0, <1>1, <1>7, <2>1 DEF DueMove, hashVars
  <1>8. CASE ClaimMove(p)
    <2>1. Unheld(c)'
      BY <1>0, <1>8, MoveFacts, Kinds DEF ClaimMove, Unheld, OthersStay
    <2> QED
      BY <1>0, <1>8, <2>1 DEF ClaimMove, hashVars
  <1> QED
    BY <1>2, <1>3, <1>4, <1>5, <1>6, <1>7, <1>8 DEF Move

(* A call comes to life from pending only. *)
LEMMA ActiveArises ==
  ASSUME TypeInv, CreationInv, NEW p \in Proc, Move(p), NEW c \in Call, Active(c)'
  PROVE  Active(c) \/ (CreateMove(p) /\ job[p] = c /\ Pending(c))
  <1>0. state \in [Call -> States]
    BY DEF TypeInv, HashTypes
  <1>1. CASE CreateMove(p)
    <2>1. job[p] \in Call /\ p \in User /\ pc[p] = "create"
      BY <1>1 DEF CreateMove
    <2>2. job[p] = c => p = CallerOf[c]
      BY <2>1 DEF CreationInv, CreatorOK, Creating
    <2> QED
      BY <1>0, <1>1, <2>1, <2>2 DEF CreateMove, WriteRinging, Active, Pending, Creating
  <1>2. CASE AnswerMove(p)
    BY <1>0, <1>2 DEF AnswerMove, WriteConnected, MayConnect, Active
  <1>3. CASE EndMove(p)
    BY <1>0, <1>3 DEF EndMove, WriteEnded, Active
  <1>4. CASE Quiet(p) \/ IndexMove(p) \/ DueMove(p) \/ RecordMove(p) \/ ClaimMove(p)
    BY <1>4 DEF Quiet, IndexMove, DueMove, RecordMove, ClaimMove, hashVars, Active
  <1> QED
    BY <1>1, <1>2, <1>3, <1>4 DEF Move

LEMMA CreatorMove ==
  ASSUME TypeInv, CreationInv, NEW p \in Proc, Move(p), NEW u \in User
  PROVE  CreatorOK(u)'
  <1> SUFFICES ASSUME pc'[u] \in Creating PROVE CreatorOK(u)'
    BY DEF CreatorOK
  <1>0. u \in Proc /\ CreatorOK(u) /\ due \in [Call -> Nat \cup {NotIndexed}]
    BY Kinds DEF CreationInv, TypeInv, OtherTypes
  <1>a. \A c \in Call : made[c] # "no" => made'[c] # "no"
    BY MoveFacts DEF MadeStays
  <1>b. u \notin Sweeper
    BY Kinds
  <1>1. CASE u # p
    <2>1. /\ pc'[u] = pc[u] /\ job'[u] = job[u] /\ left'[u] = left[u] /\ (u \in late' <=> u \in late)
      BY <1>0, <1>1, MoveFacts DEF OthersStay
    <2>c. PICK c \in Call : c = job[u]
      BY <1>0, <2>1, Working DEF Creating
    <2>2. u = CallerOf[c] /\ Pending(c)
      BY <1>0, <2>1, <2>c DEF CreatorOK, Pending, Creating
    <2>3. ~(pc[p] \in Creating /\ job[p] = c)
      <3>1. ASSUME pc[p] \in Creating PROVE p \in User
        BY <3>1, WhoIsAt DEF Creating
      <3> QED
        BY <1>1, <2>2, <2>c, <3>1 DEF CreationInv, CreatorOK
    <2>4. state'[c] = state[c] /\ due'[c] = due[c] /\ Unheld(c)'
      BY <2>2, <2>3, PendingUntouched
    <2> QED
      BY <1>0, <1>a, <2>1, <2>c, <2>2, <2>4 DEF CreatorOK, Crossed
  <1>2. CASE u = p
    <2>1. CASE Quiet(p) /\ (Keeps(p) \/ (pc[p] = "lock_caller" /\ Goes(p, "index")))
      <3> DEFINE c == job[p]
      <3>1. pc[p] \in Creating /\ job'[p] = c /\ left'[p] = left[p] /\ (p \in late' <=> p \in late)
            /\ (pc'[p] = "create" <=> pc[p] = "create")
        BY <1>2, <2>1 DEF Keeps, Goes, Creating
      <3>2. c \in Call
        BY <3>1, Working DEF Creating
      <3>3. ~ClaimMove(p)
        BY <1>2, <1>b, MoveFacts
      <3>4. Unheld(c)'
        BY <1>0, <1>2, <3>1, <3>3, MoveFacts DEF CreatorOK, Unheld
      <3>5. state' = state /\ due' = due
        BY <2>1 DEF Quiet, hashVars
      <3> QED
        BY <1>0, <1>2, <1>a, <3>1, <3>2, <3>4, <3>5 DEF CreatorOK, Crossed
    <2>2. ASSUME NEW c \in Call, Quiet(p), pc[p] = "idle", p = CallerOf[c], made[c] = "no",
                 made'[c] # "no", Begins(p, c, "lock_caller", RingTTL)
          PROVE  CreatorOK(u)'
      <3>1. state[c] = "none" /\ due[c] = NotIndexed /\ Unheld(c)
        BY <2>2 DEF CreationInv, UnmadeOK
      <3>2. ~ClaimMove(p)
        BY <1>2, <1>b, MoveFacts
      <3>3. Unheld(c)'
        BY <3>1, <3>2, MoveFacts DEF Unheld
      <3>4. state' = state /\ due' = due
        BY <2>2 DEF Quiet, hashVars
      <3> QED
        BY <1>2, <2>2, <3>1, <3>3, <3>4, Times DEF CreatorOK, Crossed, Begins
    <2>3. CASE IndexMove(p) /\ pc[p] = "index" /\ Goes(p, "create")
      <3> DEFINE c == job[p]
      <3>1. /\ pc[p] \in Creating /\ job'[p] = c /\ left'[p] = left[p] /\ (p \in late' <=> p \in late)
            /\ pc'[p] = "create" /\ c \in Call
        BY <2>3 DEF IndexMove, Goes, Creating
      <3>2. state' = state /\ due'[c] = left[p]
        BY <1>0, <2>3, <3>1 DEF IndexMove, hashVars
      <3>3. Unheld(c)'
        BY <1>0, <1>2, <1>b, <3>1, MoveFacts DEF CreatorOK, Unheld
      <3> QED
        BY <1>0, <1>2, <1>a, <3>1, <3>2, <3>3 DEF CreatorOK, Crossed
    <2> QED
      BY <1>2, <2>1, <2>2, <2>3, EntersCreating
  <1> QED
    BY <1>1, <1>2

LEMMA UnmadeMove ==
  ASSUME TypeInv, CreationInv, NEW p \in Proc, Move(p), NEW c \in Call
  PROVE  UnmadeOK(c)'
  <1> SUFFICES ASSUME made'[c] = "no" PROVE UnmadeOK(c)'
    BY DEF UnmadeOK
  <1>1. made[c] = "no" /\ Pending(c)
    BY MoveFacts DEF MadeStays, Pending
  <1>2. state[c] = "none" /\ due[c] = NotIndexed
    BY <1>1 DEF CreationInv, UnmadeOK
  <1>3. ~(pc[p] \in Creating /\ job[p] = c)
    <2>1. pc[p] \in Creating => p \in User
      BY WhoIsAt DEF Creating
    <2> QED
      BY <1>1, <2>1 DEF CreationInv, CreatorOK
  <1> QED
    BY <1>1, <1>2, <1>3, PendingUntouched DEF UnmadeOK

LEMMA WriterMove ==
  ASSUME TypeInv, CreationInv, NEW p \in Proc, Move(p), NEW q \in Proc
  PROVE  WriterOK(q)'
  <1> SUFFICES ASSUME pc'[q] \in DueWriters PROVE WriterOK(q)'
    BY DEF WriterOK, DueWriters
  (* What q was about to do it still may. *)
  <1>1. ASSUME pc[q] = pc'[q], job'[q] = job[q] PROVE WriterOK(q)'
    <2>1. PICK c \in Call : c = job[q]
      BY <1>1, Working DEF DueWriters
    <2>2. ~Pending(c) /\ (pc[q] \in {"unindex", "drop_index"} => ~Active(c))
      BY <1>1, <2>1 DEF CreationInv, WriterOK
    <2>3. ~Pending(c)'
      BY <2>2, PendingShrinks
    <2>4. pc[q] \in {"unindex", "drop_index"} => ~Active(c)'
      BY <2>2, ActiveArises
    <2> QED
      BY <1>1, <2>1, <2>3, <2>4 DEF WriterOK
  <1>2. CASE q # p
    BY <1>1, <1>2, MoveFacts DEF OthersStay
  (* A call that is alive, or held by a sweeper, is not pending. *)
  <1>3. ASSUME NEW c \in Call, job'[p] = c, Active(c) \/ ~Unheld(c),
               pc'[p] \in {"unindex", "drop_index"} => ~Active(c)'
        PROVE  WriterOK(p)'
    <2>1. ~Pending(c)
      BY <1>3, PendingFacts DEF Active
    <2>2. ~Pending(c)'
      BY <2>1, PendingShrinks
    <2> QED
      BY <1>3, <2>2 DEF WriterOK
  <1>4. CASE q = p /\ Quiet(p)
    <2>1. CASE Keeps(p)
      BY <1>1, <1>4, <2>1 DEF Keeps
    <2>2. CASE QuietGo(p) \/ Ends(p, Call) \/ Ends(p, {c \in Call : ~Active(c)})
      BY <1>4, <2>2 DEF QuietGo, Goes, Ends, DueWriters, Freeing
    <2>3. ASSUME NEW c \in Call, QuietBegin(p, c) PROVE WriterOK(q)'
      <3>1. /\ job'[p] = c /\ p \in Sweeper /\ c \in claimed[p]
            /\ pc'[p] = "drop_index" => ~Active(c)
            /\ pc'[p] # "unindex"
        BY <1>4, <2>3 DEF QuietBegin, Begins, DueWriters
      <3>2. Active(c)' <=> Active(c)
        BY <1>4 DEF Quiet, hashVars, Active
      <3> QED
        BY <1>3, <1>4, <3>1, <3>2 DEF Unheld
    <2> QED
      BY <1>4, <2>1, <2>2, <2>3 DEF Quiet
  <1>5. CASE q = p /\ AnswerMove(p)
    <2>1. PICK c \in Call : c = job[p]
      BY <1>5 DEF AnswerMove
    <2>2. pc'[p] = "accept_index" /\ job'[p] = c /\ Active(c)
      BY <1>5, <2>1 DEF AnswerMove, Begins, Ends, MayConnect, Active, DueWriters
    <2> QED
      BY <1>3, <1>5, <2>2
  <1>6. CASE q = p /\ EndMove(p)
    <2>1. PICK c \in Call : c = job[p]
      BY <1>6 DEF EndMove
    <2>2. job'[p] = c /\ Active(c)
      BY <1>6, <2>1 DEF EndMove, Begins, Ends, MayEnd, DueWriters
    <2>3. ~Active(c)'
      BY <1>6, <2>1 DEF EndMove, WriteEnded, Active, TypeInv, HashTypes
    <2> QED
      BY <1>3, <1>6, <2>2, <2>3
  <1>7. CASE q = p /\ (IndexMove(p) \/ CreateMove(p) \/ DueMove(p) \/ RecordMove(p) \/ ClaimMove(p))
    BY <1>7 DEF IndexMove, CreateMove, DueMove, RecordMove, ClaimMove, Goes, Ends, DueWriters
  <1> QED
    BY <1>2, <1>4, <1>5, <1>6, <1>7 DEF Move

(* A tick finds nobody late, makes everybody who is at work late, and takes
   one from each time. *)
LEMMA TickFacts ==
  ASSUME TypeInv, Tick
  PROVE  /\ UNCHANGED <<pc, job, note, claimed, made, talked, records, mishaps>>
         /\ \A p \in Proc : /\ p \notin late
                            /\ p \in late' <=> pc[p] # "idle"
                            /\ left'[p] = IF left[p] > 0 THEN left[p] - 1 ELSE 0
         /\ \A c \in Call : /\ state'[c] = IF ttl[c] = 1 THEN "gone" ELSE state[c]
                            /\ ttl'[c] = IF ttl[c] > 0 THEN ttl[c] - 1 ELSE 0
                            /\ expire'[c] = IF expire[c] > 0 THEN expire[c] - 1 ELSE 0
                            /\ due'[c] = IF due[c] > 0 THEN due[c] - 1 ELSE due[c]
                            /\ \A w \in Sweeper : due[c] = 0 => pc[w] # "idle"
  <1>1. UNCHANGED <<pc, job, note, claimed, made, talked, records, mishaps>>
    BY DEF Tick, userVars
  <1>2. \A p \in Proc : /\ p \notin late
                        /\ p \in late' <=> pc[p] # "idle"
                        /\ left'[p] = IF left[p] > 0 THEN left[p] - 1 ELSE 0
    BY DEF Tick, At, Down, TypeInv, ProcTypes
  <1>3. \A c \in Call : /\ state'[c] = IF ttl[c] = 1 THEN "gone" ELSE state[c]
                        /\ ttl'[c] = IF ttl[c] > 0 THEN ttl[c] - 1 ELSE 0
                        /\ expire'[c] = IF expire[c] > 0 THEN expire[c] - 1 ELSE 0
    BY DEF Tick, Down, TypeInv, HashTypes
  <1>4. \A c \in Call : due'[c] = IF due[c] > 0 THEN due[c] - 1 ELSE due[c]
    BY DEF Tick, Down
  <1>5. \A c \in Call, w \in Sweeper : due[c] = 0 => pc[w] # "idle"
    BY DEF Tick, At
  <1> QED
    BY <1>1, <1>2, <1>3, <1>4, <1>5

LEMMA CreationTick ==
  ASSUME TypeInv, CreationInv, Tick
  PROVE  CreationInv'
  <1>0. /\ due \in [Call -> Nat \cup {NotIndexed}] /\ ttl \in [Call -> Nat] /\ left \in [Proc -> Nat]
        /\ \A c \in Call : Absent(c) <=> ttl[c] = 0
    BY DEF TypeInv, OtherTypes, HashTypes, ProcTypes
  <1>1. \A c \in Call : state[c] = "none" => state'[c] = "none"
    BY <1>0, TickFacts DEF Absent
  <1>2. ASSUME NEW u \in User PROVE CreatorOK(u)'
    <2> SUFFICES ASSUME pc'[u] \in Creating PROVE CreatorOK(u)'
      BY DEF CreatorOK
    <2>1. u \in Proc /\ CreatorOK(u)
      BY Kinds DEF CreationInv
    <2>2. pc'[u] = pc[u] /\ job'[u] = job[u] /\ u \notin late /\ u \in late'
      BY <2>1, TickFacts DEF Creating
    <2>3. PICK c \in Call : c = job[u]
      BY <2>1, <2>2, Working DEF Creating
    <2>4. left[u] = RingTTL /\ left'[u] = RingTTL - 1
      BY <1>0, <2>1, <2>2, <2>3, TickFacts, Times DEF CreatorOK, Crossed
    <2>5. state'[c] = "none" /\ made'[c] # "no" /\ Unheld(c)' /\ u = CallerOf[c]
      BY <1>1, <2>1, <2>2, <2>3, TickFacts DEF CreatorOK, Unheld
    <2>6. due'[c] = IF pc'[u] = "create" THEN left'[u] ELSE NotIndexed
      BY <1>0, <2>1, <2>2, <2>3, <2>4, TickFacts, Times DEF CreatorOK, NotIndexed
    <2> QED
      BY <2>2, <2>3, <2>4, <2>5, <2>6, Times DEF CreatorOK, Crossed
  <1>3. ASSUME NEW c \in Call PROVE UnmadeOK(c)'
    <2>1. UnmadeOK(c)
      BY DEF CreationInv
    <2> QED
      BY <1>1, <2>1, TickFacts DEF UnmadeOK, Unheld, NotIndexed
  <1>4. ASSUME NEW p \in Proc PROVE WriterOK(p)'
    <2> SUFFICES ASSUME pc'[p] \in DueWriters PROVE WriterOK(p)'
      BY DEF WriterOK, DueWriters
    <2>1. WriterOK(p) /\ pc' = pc /\ job' = job /\ made' = made
      BY TickFacts DEF CreationInv
    <2>2. PICK c \in Call : c = job[p]
      BY <2>1, Working DEF DueWriters
    <2>3. Pending(c)' <=> Pending(c)
      BY <2>1 DEF Pending
    <2>4. Active(c)' => Active(c)
      BY TickFacts DEF Active
    <2> QED
      BY <2>1, <2>2, <2>3, <2>4 DEF WriterOK
  <1> QED
    BY <1>2, <1>3, <1>4 DEF CreationInv

IndexedInv == TypeInv /\ CreationInv /\ ActiveIsIndexed

LEMMA IndexedInit == Init => IndexedInv
  <1> SUFFICES ASSUME Init PROVE IndexedInv
    OBVIOUS
  <1>1. CreationInv
    BY Kinds DEF Init, CreationInv, CreatorOK, UnmadeOK, WriterOK, Unheld, Creating, DueWriters
  <1>2. ActiveIsIndexed
    BY DEF Init, ActiveIsIndexed, Active
  <1> QED
    BY <1>1, <1>2, TypeInit DEF IndexedInv

LEMMA IndexedStep == IndexedInv /\ [Next]_vars => IndexedInv'
  <1> SUFFICES ASSUME IndexedInv, [Next]_vars PROVE IndexedInv'
    OBVIOUS
  <1>0. TypeInv /\ CreationInv /\ ActiveIsIndexed /\ TypeInv'
    BY TypeStep DEF IndexedInv
  <1>a. /\ due \in [Call -> Nat \cup {NotIndexed}] /\ left \in [Proc -> Nat]
        /\ ClaimVisibilityTTL # NotIndexed
        /\ \A n \in Nat : n # NotIndexed
    BY <1>0, Times DEF TypeInv, OtherTypes, ProcTypes, NotIndexed
  <1>1. CASE UNCHANGED vars
    <2>1. CreationInv'
      BY <1>0, <1>1 DEF vars, CreationInv, CreatorOK, UnmadeOK, WriterOK, Unheld, Crossed, Pending, Active
    <2>2. ActiveIsIndexed'
      BY <1>0, <1>1 DEF vars, ActiveIsIndexed, Active
    <2> QED
      BY <1>0, <2>1, <2>2 DEF IndexedInv
  <1>2. CASE Tick
    <2>1. CreationInv'
      BY <1>0, <1>2, CreationTick
    <2>2. ASSUME NEW c \in Call, Active(c)' PROVE due'[c] # NotIndexed
      <3>1. Active(c)
        BY <1>0, <1>2, <2>2, TickFacts DEF Active
      <3>2. due[c] \in Nat
        BY <1>0, <1>a, <3>1 DEF ActiveIsIndexed
      <3>3. due'[c] = IF due[c] > 0 THEN due[c] - 1 ELSE due[c]
        BY <1>0, <1>2, TickFacts
      <3> QED
        BY <3>2, <3>3 DEF NotIndexed
    <2> QED
      BY <1>0, <2>1, <2>2 DEF IndexedInv, ActiveIsIndexed
  <1>3. ASSUME NEW p \in Proc, Move(p) PROVE IndexedInv'
    <2>1. CreationInv'
      BY <1>0, <1>3, CreatorMove, UnmadeMove, WriterMove DEF CreationInv
    <2>2. ASSUME NEW c \in Call, Active(c)' PROVE due'[c] # NotIndexed
      <3>1. CASE Active(c)
        <4>0. due[c] # NotIndexed
          BY <1>0, <3>1 DEF ActiveIsIndexed
        <4>1. CASE IndexMove(p)
          BY <1>a, <4>0, <4>1 DEF IndexMove
        <4>2. CASE DueMove(p)
          <5>1. job[p] = c => pc[p] \in {"accept_index", "reschedule"}
            BY <1>0, <3>1, <4>2 DEF DueMove, DueWriters, CreationInv, WriterOK
          <5>2. due' = [due EXCEPT ![job[p]] = IF pc[p] \in {"accept_index", "reschedule"} THEN left[p] ELSE NotIndexed]
            BY <4>2 DEF DueMove
          <5> QED
            BY <1>a, <4>0, <5>1, <5>2
        <4>3. CASE ClaimMove(p)
          BY <1>a, <4>0, <4>3 DEF ClaimMove
        <4>4. CASE Quiet(p) \/ CreateMove(p) \/ AnswerMove(p) \/ EndMove(p) \/ RecordMove(p)
          BY <4>0, <4>4 DEF Quiet, CreateMove, AnswerMove, EndMove, RecordMove
        <4> QED
          BY <1>3, <4>1, <4>2, <4>3, <4>4 DEF Move
      <3>2. CASE CreateMove(p) /\ job[p] = c
        <4>1. p \in User /\ pc[p] = "create" /\ due' = due
          BY <3>2 DEF CreateMove
        <4>2. due[c] = left[p]
          BY <1>0, <3>2, <4>1 DEF CreationInv, CreatorOK, Creating
        <4> QED
          BY <1>a, <4>1, <4>2
      <3> QED
        BY <1>0, <1>3, <2>2, <3>1, <3>2, ActiveArises
    <2> QED
      BY <1>0, <2>1, <2>2 DEF IndexedInv, ActiveIsIndexed
  <1> QED
    BY <1>0, <1>1, <1>2, <1>3, StepsAreMoves

(* Whoever crashes and whatever fails between the scripts of Create, Accept,
   Terminate and the sweep, a call that is alive has an index entry: the
   sweepers can find it. *)
THEOREM LiveCallsAreIndexed == Spec => []ActiveIsIndexed
  <1>1. Init => IndexedInv
    BY IndexedInit
  <1>2. IndexedInv /\ [Next]_vars => IndexedInv'
    BY IndexedStep
  <1>3. IndexedInv => ActiveIsIndexed
    BY DEF IndexedInv
  <1> QED
    BY <1>1, <1>2, <1>3, PTL DEF Spec

----------------------------------------------------------------------------

(* A call only goes onward, so what a process has read of it may be outdated
   in one direction only: a call read as connected is connected, ended or
   gone, and only an answer gives it more time. *)

PastRinging == {"connected", "ended", "gone"}
Over      == {"ended", "gone"}

LEMMA Onward ==
  ASSUME TypeInv, CreationInv, NEW p \in Proc, Move(p), NEW c \in Call
  PROVE  /\ state[c] \in PastRinging =>
              /\ state'[c] \in PastRinging
              /\ state'[c] = "connected" => state[c] = "connected" /\ expire'[c] = expire[c]
         /\ state[c] \in Over => state'[c] = state[c] /\ ttl'[c] = ttl[c]
         /\ talked[c] => talked'[c]
         /\ state[c] = "ended" => talked'[c] = talked[c]
         /\ state'[c] = "connected" => state[c] = "connected" \/ talked'[c]
  <1>0. /\ state \in [Call -> States] /\ talked \in [Call -> BOOLEAN]
        /\ expire \in [Call -> Nat] /\ ttl \in [Call -> Nat]
    BY DEF TypeInv, HashTypes
  <1>1. CASE CreateMove(p)
    <2>1. state[job[p]] = "none" /\ job[p] \in Call
      BY <1>1 DEF CreateMove, CreationInv, CreatorOK, Creating
    <2> QED
      BY <1>0, <1>1, <2>1 DEF CreateMove, WriteRinging, PastRinging, Over
  <1>2. CASE AnswerMove(p)
    BY <1>0, <1>2 DEF AnswerMove, MayConnect, WriteConnected, PastRinging, Over
  <1>3. CASE EndMove(p)
    BY <1>0, <1>3 DEF EndMove, MayEnd, Active, WriteEnded, PastRinging, Over
  <1>4. CASE Quiet(p) \/ IndexMove(p) \/ DueMove(p) \/ RecordMove(p) \/ ClaimMove(p)
    BY <1>4 DEF Quiet, IndexMove, DueMove, RecordMove, ClaimMove, hashVars
  <1> QED
    BY <1>1, <1>2, <1>3, <1>4 DEF Move

(* Who ends a call as completed has read it as connected, and a sweeper has
   read as well that its time is up. *)
CompletesOK(p) ==
  pc[p] = "terminate" /\ note[p].why = "completed" =>
    /\ state[job[p]] \in PastRinging
    /\ p \in Sweeper /\ state[job[p]] = "connected" => expire[job[p]] = 0

DriftInv == IndexedInv /\ \A p \in Proc : CompletesOK(p)

LEMMA CompletesMove ==
  ASSUME TypeInv, CreationInv, NEW p \in Proc, Move(p), NEW q \in Proc, CompletesOK(q)
  PROVE  CompletesOK(q)'
  <1> SUFFICES ASSUME pc'[q] = "terminate", note'[q].why = "completed" PROVE CompletesOK(q)'
    BY DEF CompletesOK
  <1>1. ASSUME pc'[q] = pc[q], job'[q] = job[q], note'[q] = note[q] PROVE CompletesOK(q)'
    <2>1. PICK c \in Call : c = job[q]
      BY <1>1, Working
    <2> QED
      BY <1>1, <2>1, Onward DEF CompletesOK
  <1>2. CASE q # p
    BY <1>1, <1>2, MoveFacts DEF OthersStay
  <1>3. CASE q = p /\ Quiet(p)
    <2>1. CASE Keeps(p)
      BY <1>1, <1>3, <2>1 DEF Keeps
    <2>2. CASE QuietGo(p) \/ Ends(p, Call) \/ Ends(p, {c \in Call : ~Active(c)})
      BY <1>3, <2>2 DEF QuietGo, Goes, Ends, Freeing
    <2>3. ASSUME NEW c \in Call, QuietBegin(p, c) PROVE CompletesOK(q)'
      <3>1. /\ job'[p] = c /\ state[c] \in {"connected", "ended"}
            /\ p \in Sweeper => expire[c] = 0
        BY <1>3, <2>3 DEF QuietBegin, Begins
      <3>2. state' = state /\ expire' = expire
        BY <1>3 DEF Quiet, hashVars
      <3> QED
        BY <1>3, <3>1, <3>2 DEF CompletesOK, PastRinging
    <2> QED
      BY <1>3, <2>1, <2>2, <2>3 DEF Quiet
  <1>4. CASE q = p /\ ~Quiet(p)
    BY <1>4 DEF Move, IndexMove, CreateMove, AnswerMove, EndMove, DueMove, RecordMove, ClaimMove,
                Goes, Begins, Ends
  <1> QED
    BY <1>2, <1>3, <1>4

LEMMA DriftStep == DriftInv /\ [Next]_vars => DriftInv'
  <1> SUFFICES ASSUME DriftInv, [Next]_vars PROVE DriftInv'
    OBVIOUS
  <1>0. IndexedInv' /\ TypeInv /\ CreationInv /\ \A p \in Proc : CompletesOK(p)
    BY IndexedStep DEF DriftInv, IndexedInv
  <1>1. CASE UNCHANGED vars
    BY <1>0, <1>1 DEF vars, DriftInv, CompletesOK
  <1>2. CASE Tick
    <2>1. ASSUME NEW p \in Proc, pc'[p] = "terminate", note'[p].why = "completed"
          PROVE  CompletesOK(p)'
      <3>1. pc' = pc /\ job' = job /\ note' = note
        BY <1>0, <1>2, TickFacts
      <3>2. PICK c \in Call : c = job[p]
        BY <1>0, <2>1, <3>1, Working
      <3>3. /\ state'[c] = IF ttl[c] = 1 THEN "gone" ELSE state[c]
            /\ expire'[c] = IF expire[c] > 0 THEN expire[c] - 1 ELSE 0
        BY <1>0, <1>2, TickFacts
      <3> QED
        BY <1>0, <2>1, <3>1, <3>2, <3>3 DEF CompletesOK, PastRinging
    <2> QED
      BY <1>0, <2>1 DEF DriftInv, CompletesOK
  <1>3. ASSUME NEW p \in Proc, Move(p) PROVE DriftInv'
    BY <1>0, <1>3, CompletesMove DEF DriftInv
  <1> QED
    BY <1>0, <1>1, <1>2, <1>3, StepsAreMoves

(* An index entry that has drifted ends no call: when a sweeper is about to
   end a call as completed, and the call is still alive, its expire_at has
   passed, however long ago the sweeper read it and whoever wrote meanwhile. *)
THEOREM DriftHarmsNoCall == Spec => []DriftEndsNoCall
  <1>1. Init => DriftInv
    BY IndexedInit DEF Init, DriftInv, CompletesOK
  <1>2. DriftInv /\ [Next]_vars => DriftInv'
    BY DriftStep
  <1>3. DriftInv => DriftEndsNoCall
    BY Kinds DEF DriftInv, DriftEndsNoCall, CompletesOK, PastRinging, Active, At
  <1> QED
    BY <1>1, <1>2, <1>3, PTL DEF Spec

----------------------------------------------------------------------------

(* Records: the one who has ended a call is the only one to publish, and does
   so while the HASH of the ended call is still there. *)

Winner(p, c) ==
  job[p] = c /\ (pc[p] \in {"unindex", "record"} \/ (pc[p] \in Freeing /\ note[p] # NoNote))

WinnerOK(p, c) ==
  Winner(p, c) =>
    /\ state[c] = "ended" /\ records[c] = <<>>
    /\ ttl[c] >= EndedLingerTTL - Crossed(p)
    /\ note[p].talked = talked[c] /\ (note[p].why = "completed" => talked[c])
    /\ \A q \in Proc : Winner(q, c) => p = q

CallOK(c) ==
  /\ records[c] # <<>> => state[c] \in Over
  /\ state[c] = "connected" => talked[c]
  /\ state[c] = "none" => ~talked[c]

RecordInv ==
  /\ \A p \in Proc, c \in Call : WinnerOK(p, c)
  /\ \A c \in Call : CallOK(c)

(* A process wins a call in EndMove, and keeps on winning until it is done. *)
LEMMA WinnerArises ==
  ASSUME TypeInv, NEW p \in Proc, Move(p), NEW q \in Proc, NEW c \in Call, Winner(q, c)'
  PROVE  \/ /\ Winner(q, c) /\ ~(RecordMove(p) /\ p = q)
            /\ note'[q] = note[q] /\ (q \in late' <=> q \in late)
         \/ EndMove(p) /\ p = q /\ job[p] = c /\ Begins(p, c, "unindex", 0)
  <1>1. CASE q # p
    BY <1>1, MoveFacts DEF OthersStay, Winner
  <1>2. CASE q = p /\ Quiet(p)
    <2>1. CASE Keeps(p)
      BY <1>2, <2>1 DEF Keeps, Winner, Quiet, RecordMove, Ends, Freeing
    <2>2. CASE QuietGo(p)
      BY <1>2, <2>2 DEF QuietGo, Goes, Winner, Freeing, RecordMove, Ends
    <2>3. CASE Ends(p, Call) \/ Ends(p, {d \in Call : ~Active(d)})
      BY <1>2, <2>3 DEF Ends, Winner, Freeing
    <2>4. ASSUME NEW d \in Call, QuietBegin(p, d) PROVE FALSE
      BY <1>2, <2>4 DEF QuietBegin, Begins, Winner, Freeing
    <2> QED
      BY <1>2, <2>1, <2>2, <2>3, <2>4 DEF Quiet
  <1>3. CASE q = p /\ (IndexMove(p) \/ CreateMove(p))
    <2>1. note[p] = NoNote
      BY <1>3 DEF IndexMove, CreateMove, TypeInv, ProcOK, Creating
    <2> QED
      BY <1>3, <2>1 DEF IndexMove, CreateMove, Goes, Winner, Freeing
  <1>4. CASE q = p /\ EndMove(p)
    BY <1>4 DEF EndMove, Begins, Ends, Winner, Freeing
  <1>5. CASE q = p /\ (AnswerMove(p) \/ RecordMove(p) \/ ClaimMove(p))
    BY <1>5 DEF AnswerMove, RecordMove, ClaimMove, Begins, Ends, Winner, Freeing
  <1>6. CASE q = p /\ DueMove(p)
    BY <1>6 DEF DueMove, DueWriters, Goes, Ends, Winner, Freeing, RecordMove
  <1> QED
    BY <1>1, <1>2, <1>3, <1>4, <1>5, <1>6 DEF Move

LEMMA RecordMoveKeeps ==
  ASSUME DriftInv, RecordInv, NEW p \in Proc, Move(p)
  PROVE  RecordInv'
  <1>0. /\ TypeInv /\ CreationInv
        /\ state \in [Call -> States] /\ talked \in [Call -> BOOLEAN] /\ ttl \in [Call -> Nat]
        /\ records \in [Call -> Seq(Record)]
    BY DEF DriftInv, IndexedInv, TypeInv, HashTypes, OtherTypes
  <1>r. ASSUME NEW c \in Call
        PROVE  records'[c] = records[c] \/ (RecordMove(p) /\ job[p] = c)
    BY <1>0 DEF Move, Quiet, IndexMove, CreateMove, AnswerMove, EndMove, DueMove, RecordMove, ClaimMove
  <1>w. RecordMove(p) => Winner(p, job[p])
    BY DEF RecordMove, Winner
  <1>1. ASSUME NEW q \in Proc, NEW c \in Call, Winner(q, c)'
        PROVE  WinnerOK(q, c)'
    <2>1. CASE /\ Winner(q, c) /\ ~(RecordMove(p) /\ p = q)
               /\ note'[q] = note[q] /\ (q \in late' <=> q \in late)
      <3>1. /\ state[c] = "ended" /\ records[c] = <<>>
            /\ ttl[c] >= EndedLingerTTL - Crossed(q)
            /\ note[q].talked = talked[c] /\ (note[q].why = "completed" => talked[c])
            /\ \A s \in Proc : Winner(s, c) => q = s
        BY <2>1 DEF RecordInv, WinnerOK
      <3>2. state'[c] = "ended" /\ ttl'[c] = ttl[c] /\ talked'[c] = talked[c]
        BY <1>0, <3>1, Onward DEF Over
      <3>3. records'[c] = <<>>
        BY <1>r, <1>w, <2>1, <3>1
      <3>4. ASSUME NEW s \in Proc, Winner(s, c)' PROVE q = s
        <4>1. ~(EndMove(p) /\ job[p] = c)
          BY <3>1 DEF EndMove, MayEnd, Active
        <4> QED
          BY <1>0, <3>1, <3>4, <4>1, WinnerArises
      <3> QED
        BY <2>1, <3>1, <3>2, <3>3, <3>4 DEF WinnerOK, Crossed
    <2>2. CASE EndMove(p) /\ p = q /\ job[p] = c /\ Begins(p, c, "unindex", 0)
      <3>1. /\ Active(c) /\ state' = [state EXCEPT ![c] = "ended"]
            /\ ttl' = [ttl EXCEPT ![c] = EndedLingerTTL] /\ talked' = talked /\ records' = records
            /\ pc[p] = "terminate"
        BY <2>2 DEF EndMove, MayEnd, WriteEnded
      <3>2. note'[p].why = note[p].why /\ note'[p].talked = talked[c]
        BY <2>2 DEF EndMove, Begins, Ends
      <3>3. records[c] = <<>>
        BY <3>1 DEF RecordInv, CallOK, Active, Over
      <3>4. note[p].why = "completed" => talked[c]
        BY <2>2, <3>1 DEF DriftInv, CompletesOK, PastRinging, Active, RecordInv, CallOK
      <3>5. ASSUME NEW s \in Proc, Winner(s, c)' PROVE s = p
        <4>1. ~Winner(s, c)
          BY <3>1 DEF RecordInv, WinnerOK, Active
        <4> QED
          BY <1>0, <3>5, <4>1, WinnerArises
      <3> QED
        BY <1>0, <2>2, <3>1, <3>2, <3>3, <3>4, <3>5, Times DEF WinnerOK, Crossed
    <2> QED
      BY <1>0, <1>1, <2>1, <2>2, WinnerArises
  <1>2. ASSUME NEW c \in Call PROVE CallOK(c)'
    <2>0. CallOK(c)
      BY DEF RecordInv
    <2>1. records'[c] # <<>> => state'[c] \in Over
      <3>1. CASE records'[c] = records[c]
        BY <1>0, <2>0, <3>1, Onward DEF CallOK
      <3>2. CASE RecordMove(p) /\ job[p] = c
        <4>1. state[c] = "ended"
          BY <1>w, <3>2 DEF RecordInv, WinnerOK
        <4> QED
          BY <3>2, <4>1 DEF RecordMove, hashVars, Over
      <3> QED
        BY <1>r, <3>1, <3>2
    <2>2. state'[c] = "connected" => talked'[c]
      BY <1>0, <2>0, Onward DEF CallOK
    <2>3. state'[c] = "none" => ~talked'[c]
      <3>1. CASE CreateMove(p)
        BY <1>0, <2>0, <3>1 DEF CreateMove, WriteRinging, CallOK
      <3>2. CASE AnswerMove(p)
        BY <1>0, <2>0, <3>2 DEF AnswerMove, WriteConnected, CallOK
      <3>3. CASE EndMove(p)
        BY <1>0, <2>0, <3>3 DEF EndMove, WriteEnded, CallOK
      <3>4. CASE Quiet(p) \/ IndexMove(p) \/ DueMove(p) \/ RecordMove(p) \/ ClaimMove(p)
        BY <2>0, <3>4 DEF Quiet, IndexMove, DueMove, RecordMove, ClaimMove, hashVars, CallOK
      <3> QED
        BY <3>1, <3>2, <3>3, <3>4 DEF Move
    <2> QED
      BY <2>1, <2>2, <2>3 DEF CallOK
  <1> QED
    BY <1>1, <1>2 DEF RecordInv, WinnerOK

LEMMA RecordTick ==
  ASSUME TypeInv, RecordInv, Tick, EndedLingerTTL > 1
  PROVE  RecordInv'
  <1>0. ttl \in [Call -> Nat] /\ \A c \in Call : Absent(c) <=> ttl[c] = 0
    BY DEF TypeInv, HashTypes
  <1>1. /\ UNCHANGED <<pc, job, note, talked, records>>
        /\ \A p \in Proc, c \in Call : Winner(p, c)' <=> Winner(p, c)
    BY TickFacts DEF Winner
  <1>2. ASSUME NEW p \in Proc, NEW c \in Call, Winner(p, c) PROVE WinnerOK(p, c)'
    <2>1. WinnerOK(p, c)
      BY DEF RecordInv
    <2>2. p \notin late /\ p \in late'
      BY <1>2, TickFacts DEF Winner, Freeing
    <2>3. ttl[c] >= EndedLingerTTL /\ ttl[c] \in Nat
      BY <1>0, <1>2, <2>1, <2>2, Times DEF WinnerOK, Crossed
    <2>4. state'[c] = state[c] /\ ttl'[c] = ttl[c] - 1
      BY <2>3, TickFacts, Times
    <2> QED
      BY <1>1, <1>2, <2>1, <2>2, <2>3, <2>4, Times DEF WinnerOK, Crossed
  <1>3. ASSUME NEW c \in Call PROVE CallOK(c)'
    <2>1. CallOK(c)
      BY DEF RecordInv
    <2> QED
      BY <1>1, <2>1, TickFacts DEF CallOK, Over
  <1> QED
    BY <1>1, <1>2, <1>3 DEF RecordInv, WinnerOK

LEMMA RecordInit == Init => RecordInv
  BY DEF Init, RecordInv, WinnerOK, CallOK, Winner, Freeing

----------------------------------------------------------------------------

(* Time.  A call that is alive is ended before its HASH expires: while its time
   lasts, so does the HASH, with the linger time to spare; once its time is up,
   a sweeper ends it before the linger time is spent.  Each mishap may cost one
   round of the sweep, the visibility time of a claim and two ticks. *)

Generous ==
  /\ Sweeper # {}
  /\ RingTTL <= MaxCallDuration /\ ClaimVisibilityTTL <= MaxCallDuration
  /\ EndedLingerTTL >= 3 + MaxMishaps * (ClaimVisibilityTTL + 2)

(* What the mishaps that may still happen can cost. *)
Credit == (MaxMishaps - mishaps) * (ClaimVisibilityTTL + 2)

(* An operation that has not crossed a tick yet may have to. *)
Lag(w) == 1 - Crossed(w)

(* The sweeper is about to give the entry back, or it may yet end the call. *)
Moving(w, c)  == c \in claimed[w] /\ job[w] = c /\ pc[w] = "reschedule"
Holding(w, c) == c \in claimed[w] /\ ~Moving(w, c)

CallTimeOK(c) ==
  /\ state[c] = "ringing" => expire[c] <= RingTTL
  /\ Active(c) => due[c] <= expire[c] \/ due[c] <= ClaimVisibilityTTL

LeftOK(p) ==
  pc[p] \in {"accept_index", "reschedule"} /\ Active(job[p]) => left[p] <= expire[job[p]]

BeforeOK(c) ==
  Active(c) /\ expire[c] > 0 =>
    /\ ttl[c] >= expire[c] + EndedLingerTTL
    /\ due[c] <= expire[c] \/ mishaps > 0 \/ ~Unheld(c)

DueInTime(c)   == ttl[c] >= due[c] + 3 + Credit
DueNow(c)      == due[c] = 0 /\ ttl[c] >= 2 + Credit
                  /\ \A w \in Sweeper : pc[w] = "idle" \/ w \in late
HeldBy(w, c)   == Holding(w, c) /\ ttl[c] >= 1 + Lag(w) + Credit
MovedBy(w, c)  == Moving(w, c) /\ ttl[c] >= 3 + Lag(w) + Credit

AfterOK(c) ==
  Active(c) /\ expire[c] = 0 =>
    DueInTime(c) \/ DueNow(c) \/ \E w \in Sweeper : HeldBy(w, c) \/ MovedBy(w, c)

TimeInv ==
  /\ DriftInv /\ RecordInv
  /\ \A p \in Proc : LeftOK(p)
  /\ \A c \in Call : CallTimeOK(c) /\ BeforeOK(c) /\ AfterOK(c)

LEMMA TimeTypes ==
  ASSUME TypeInv
  PROVE  /\ state \in [Call -> States] /\ expire \in [Call -> Nat] /\ ttl \in [Call -> Nat]
         /\ due \in [Call -> Nat \cup {NotIndexed}] /\ left \in [Proc -> Nat]
         /\ mishaps \in 0 .. MaxMishaps /\ MaxMishaps \in Nat
         /\ claimed \in [Sweeper -> SUBSET Call]
         /\ \A w \in Sweeper : w \in Proc /\ w \notin User /\ (pc[w] = "idle" <=> claimed[w] = {})
         /\ \A w \in Sweeper : Lag(w) = IF w \in late THEN 0 ELSE 1
  <1>1. \A w \in Sweeper : Lag(w) = IF w \in late THEN 0 ELSE 1
    BY DEF Lag, Crossed
  <1>2. \A w \in Sweeper : w \in Proc /\ w \notin User
    BY Kinds
  <1>3. \A w \in Sweeper : pc[w] = "idle" <=> claimed[w] = {}
    BY <1>2 DEF TypeInv, ProcOK
  <1> QED
    BY <1>1, <1>2, <1>3, CallAssumption DEF TypeInv, HashTypes, OtherTypes, ProcTypes, BudgetTypes

LEMMA ProductFacts ==
  ASSUME NEW m \in Nat, NEW n \in Nat, NEW k \in Nat, m <= n
  PROVE  /\ (n - m) * k \in Nat /\ (n - m) * k <= n * k
         /\ m > 0 => (n - m) * k + k <= n * k
         /\ (n - m) * k = (n - (m + 1)) * k + k
  <1>1. (n - m) * k = n * k - m * k /\ n * k \in Nat /\ m * k \in Nat
    OBVIOUS
  <1>2. (n - m) * k \in Nat
    OBVIOUS
  <1>3. m > 0 => m * k >= k
    OBVIOUS
  <1>4. (n - m) * k = (n - (m + 1)) * k + k
    OBVIOUS
  <1> QED
    BY <1>1, <1>2, <1>3, <1>4

LEMMA CreditFacts ==
  ASSUME TypeInv
  PROVE  /\ Credit \in Nat /\ Credit <= MaxMishaps * (ClaimVisibilityTTL + 2)
         /\ mishaps > 0 => Credit + (ClaimVisibilityTTL + 2) <= MaxMishaps * (ClaimVisibilityTTL + 2)
  <1>1. mishaps \in Nat /\ mishaps <= MaxMishaps /\ MaxMishaps \in Nat
    BY TimeTypes
  <1>2. ClaimVisibilityTTL + 2 \in Nat
    BY Times
  <1> QED
    BY <1>1, <1>2, ProductFacts DEF Credit

LEMMA CreditMove ==
  ASSUME TypeInv, TypeInv', mishaps' \in {mishaps, mishaps + 1}
  PROVE  /\ Credit \in Nat /\ Credit' \in Nat /\ Credit' <= Credit
         /\ mishaps' = mishaps => Credit' = Credit
         /\ mishaps' = mishaps + 1 => Credit = Credit' + (ClaimVisibilityTTL + 2)
  <1>1. /\ mishaps \in Nat /\ mishaps <= MaxMishaps /\ MaxMishaps \in Nat
        /\ mishaps' \in Nat /\ mishaps' <= MaxMishaps
    BY TimeTypes DEF TypeInv, BudgetTypes
  <1>2. ClaimVisibilityTTL + 2 \in Nat
    BY Times
  <1>3. Credit \in Nat /\ Credit' \in Nat
    BY <1>1, <1>2, ProductFacts DEF Credit
  <1>4. (MaxMishaps - mishaps) * (ClaimVisibilityTTL + 2)
          = (MaxMishaps - (mishaps + 1)) * (ClaimVisibilityTTL + 2) + (ClaimVisibilityTTL + 2)
    BY <1>1, <1>2, ProductFacts
  <1>5. mishaps' = mishaps + 1 => Credit = Credit' + (ClaimVisibilityTTL + 2)
    BY <1>4 DEF Credit
  <1>6. mishaps' = mishaps => Credit' = Credit
    BY DEF Credit
  <1> QED
    BY <1>2, <1>3, <1>5, <1>6

(* What a move may do to a call that is alive before and after it. *)
LEMMA AliveMove ==
  ASSUME TypeInv, CreationInv, NEW p \in Proc, Move(p), NEW c \in Call, Active(c), Active(c)'
  PROVE  \/ /\ state'[c] = state[c] /\ ttl'[c] = ttl[c] /\ expire'[c] = expire[c]
            /\ ~(AnswerMove(p) /\ job[p] = c)
         \/ /\ AnswerMove(p) /\ job[p] = c /\ state'[c] = "connected"
            /\ ttl'[c] = MaxCallDuration + EndedLingerTTL /\ expire'[c] = MaxCallDuration
            /\ state[c] = "ringing"
  <1>0. /\ state \in [Call -> States] /\ expire \in [Call -> Nat] /\ ttl \in [Call -> Nat]
    BY TimeTypes
  <1>1. CASE CreateMove(p)
    <2>1. state[job[p]] = "none" /\ ~AnswerMove(p)
      BY <1>1 DEF CreateMove, AnswerMove, CreationInv, CreatorOK, Creating
    <2> QED
      BY <1>0, <1>1, <2>1 DEF CreateMove, WriteRinging, Active
  <1>2. CASE AnswerMove(p)
    BY <1>0, <1>2 DEF AnswerMove, MayConnect, WriteConnected
  <1>3. CASE EndMove(p)
    <2>1. job[p] # c /\ ~AnswerMove(p)
      BY <1>0, <1>3 DEF EndMove, AnswerMove, WriteEnded, Active
    <2> QED
      BY <1>0, <1>3, <2>1 DEF EndMove, WriteEnded
  <1>4. CASE ~AnswerMove(p) /\ (Quiet(p) \/ IndexMove(p) \/ DueMove(p) \/ RecordMove(p) \/ ClaimMove(p))
    BY <1>4 DEF Quiet, IndexMove, DueMove, RecordMove, ClaimMove, hashVars
  <1> QED
    BY <1>1, <1>2, <1>3, <1>4 DEF Move

LEMMA AliveDue ==
  ASSUME TypeInv, CreationInv, NEW p \in Proc, Move(p), NEW c \in Call, Active(c)
  PROVE  \/ due'[c] = due[c] /\ ~(DueMove(p) /\ job[p] = c) /\ ~(ClaimMove(p) /\ due[c] = 0)
         \/ /\ DueMove(p) /\ job[p] = c /\ due'[c] = left[p] /\ mishaps' = mishaps
            /\ pc[p] \in {"accept_index", "reschedule"}
         \/ /\ ClaimMove(p) /\ due[c] = 0 /\ due'[c] = ClaimVisibilityTTL /\ c \in claimed'[p]
            /\ mishaps' = mishaps
  <1>0. due \in [Call -> Nat \cup {NotIndexed}]
    BY TimeTypes
  <1>1. CASE DueMove(p)
    <2>1. job[p] = c => pc[p] \in {"accept_index", "reschedule"}
      BY <1>1 DEF DueMove, DueWriters, CreationInv, WriterOK
    <2>2. ~ClaimMove(p)
      BY <1>1 DEF DueMove, ClaimMove, DueWriters
    <2> QED
      BY <1>0, <1>1, <2>1, <2>2 DEF DueMove
  <1>2. CASE ClaimMove(p)
    BY <1>0, <1>2 DEF ClaimMove, DueMove, DueWriters
  <1>3. CASE IndexMove(p)
    <2>1. state[job[p]] = "none"
      BY <1>3 DEF IndexMove, CreationInv, CreatorOK, Creating
    <2> QED
      BY <1>0, <1>3, <2>1 DEF IndexMove, DueMove, ClaimMove, DueWriters, Active
  <1>4. CASE /\ ~DueMove(p) /\ ~ClaimMove(p)
             /\ Quiet(p) \/ CreateMove(p) \/ AnswerMove(p) \/ EndMove(p) \/ RecordMove(p)
    BY <1>4 DEF Quiet, CreateMove, AnswerMove, EndMove, RecordMove
  <1> QED
    BY <1>1, <1>2, <1>3, <1>4 DEF Move

(* A sweeper gives up a call that is alive only by a mishap, or when it has
   given the entry back. *)
LEMMA HolderMove ==
  ASSUME TypeInv, RecordInv, NEW p \in Proc, Move(p), NEW c \in Call, Active(c),
         NEW w \in Sweeper, c \in claimed[w]
  PROVE  \/ c \in claimed'[w]
         \/ w = p /\ mishaps' = mishaps + 1
         \/ w = p /\ DueMove(p) /\ job[p] = c
  <1>0. w \in Proc /\ w \notin User /\ pc[w] # "idle"
    BY TimeTypes
  <1>1. CASE w # p
    BY <1>0, <1>1, MoveFacts DEF OthersStay
  <1>2. CASE w = p /\ Quiet(p)
    BY <1>2 DEF Quiet, Keeps, QuietGo, QuietBegin, Goes, Begins, Ends
  <1>3. CASE w = p /\ (IndexMove(p) \/ CreateMove(p) \/ AnswerMove(p) \/ ClaimMove(p))
    BY <1>0, <1>3 DEF IndexMove, CreateMove, AnswerMove, ClaimMove
  <1>4. CASE w = p /\ EndMove(p)
    BY <1>4 DEF EndMove, Begins, Ends
  <1>5. CASE w = p /\ DueMove(p)
    BY <1>5 DEF DueMove, Goes, Ends
  <1>6. CASE w = p /\ RecordMove(p)
    <2>1. Winner(p, job[p]) /\ job[p] \in Call
      BY <1>6 DEF RecordMove, Winner
    <2>2. state[job[p]] = "ended"
      BY <2>1 DEF RecordInv, WinnerOK
    <2> QED
      BY <1>6, <2>2 DEF RecordMove, Ends, Active
  <1> QED
    BY <1>1, <1>2, <1>3, <1>4, <1>5, <1>6 DEF Move

(* A sweeper that holds a call does not fall behind without a tick, and it
   gives an entry back only for a call whose time is not up. *)
LEMMA SweeperKeepsUp ==
  ASSUME TypeInv, TypeInv', NEW p \in Proc, Move(p), NEW w \in Sweeper
  PROVE  /\ claimed[w] # {} /\ claimed'[w] # {} => Lag(w)' <= Lag(w)
         /\ ~(ClaimMove(p) /\ w = p) =>
              (pc[w] = "idle" \/ w \in late => pc'[w] = "idle" \/ w \in late')
         /\ \A c \in Call : Moving(w, c)' /\ expire[c] = 0 => Moving(w, c)
  <1>0. w \in Proc /\ w \notin User /\ (pc[w] = "idle" <=> claimed[w] = {})
        /\ (pc'[w] = "idle" <=> claimed'[w] = {})
    BY Kinds DEF TypeInv, ProcOK
  <1>l. Lag(w) = (IF w \in late THEN 0 ELSE 1) /\ Lag(w)' = (IF w \in late' THEN 0 ELSE 1)
    BY DEF Lag, Crossed
  <1>1. CASE w # p
    <2>1. /\ pc'[w] = pc[w] /\ job'[w] = job[w] /\ (w \in late' <=> w \in late)
          /\ claimed'[w] = claimed[w]
      BY <1>0, <1>1, MoveFacts DEF OthersStay
    <2>2. Lag(w)' <= Lag(w)
      BY <1>l, <2>1
    <2>3. \A c \in Call : Moving(w, c)' => Moving(w, c)
      BY <2>1 DEF Moving
    <2> QED
      BY <1>1, <2>1, <2>2, <2>3
  <1>2. CASE w = p /\ (\E D : Ends(p, D))
    <2>1. PICK D : Ends(p, D)
      BY <1>2
    <2>2. /\ pc'[w] \in {"idle", "reap"}
          /\ w \in late' => w \in late
          /\ w \in late => w \in late' \/ pc'[w] = "idle"
          /\ claimed'[w] \subseteq claimed[w]
      BY <1>2, <2>1 DEF Ends
    <2>3. claimed[w] # {} /\ claimed'[w] # {} => Lag(w)' <= Lag(w)
      BY <1>0, <1>l, <2>2
    <2>4. pc[w] = "idle" => pc'[w] = "idle"
      BY <1>0, <2>2
    <2>5. \A c \in Call : ~Moving(w, c)'
      BY <2>2 DEF Moving
    <2> QED
      BY <2>2, <2>3, <2>4, <2>5
  <1>3. CASE w = p /\ (w \in late' <=> w \in late) /\ claimed'[w] = claimed[w]
             /\ \A c \in Call : Moving(w, c)' /\ expire[c] = 0 => Moving(w, c)
    <2>1. Lag(w)' <= Lag(w)
      BY <1>3, <1>l
    <2>2. pc[w] = "idle" <=> pc'[w] = "idle"
      BY <1>0, <1>3
    <2> QED
      BY <1>3, <2>1, <2>2
  <1>4. CASE w = p /\ Quiet(p)
    <2>1. CASE Keeps(p)
      BY <1>0, <1>3, <1>4, <2>1 DEF Keeps, Moving
    <2>2. CASE QuietGo(p)
      BY <1>0, <1>3, <1>4, <2>2 DEF QuietGo, Goes, Moving, Freeing
    <2>3. ASSUME NEW c \in Call, QuietBegin(p, c)
          PROVE  (w \in late' <=> w \in late) /\ claimed'[w] = claimed[w]
                 /\ \A d \in Call : Moving(w, d)' /\ expire[d] = 0 => Moving(w, d)
      <3>1. /\ (w \in late' <=> w \in late) /\ claimed'[w] = claimed[w] /\ job'[w] = c
            /\ pc'[w] = "reschedule" => expire[c] > 0
        BY <1>4, <2>3 DEF QuietBegin, Begins
      <3> QED
        BY <3>1 DEF Moving
    <2> QED
      BY <1>2, <1>3, <1>4, <2>1, <2>2, <2>3 DEF Quiet
  <1>5. CASE w = p /\ EndMove(p)
    <2>1. CASE Begins(p, job[p], "unindex", 0)
      BY <1>3, <1>5, <2>1 DEF Begins, Moving
    <2> QED
      BY <1>2, <1>5, <2>1 DEF EndMove
  <1>6. CASE w = p /\ DueMove(p)
    <2>1. CASE Goes(p, "free_callee")
      BY <1>3, <1>6, <2>1 DEF Goes, Moving
    <2> QED
      BY <1>2, <1>6, <2>1 DEF DueMove
  <1>7. CASE w = p /\ RecordMove(p)
    BY <1>2, <1>7 DEF RecordMove
  <1>8. CASE w = p /\ ClaimMove(p)
    BY <1>0, <1>8 DEF ClaimMove, Moving
  <1>9. CASE w = p /\ (IndexMove(p) \/ CreateMove(p) \/ AnswerMove(p))
    BY <1>0, <1>9 DEF IndexMove, CreateMove, AnswerMove
  <1> QED
    BY <1>1, <1>4, <1>5, <1>6, <1>7, <1>8, <1>9 DEF Move

LEMMA CreatedFacts ==
  ASSUME TypeInv, CreationInv, NEW p \in Proc, CreateMove(p), NEW c \in Call, job[p] = c
  PROVE  /\ expire'[c] = left[p] /\ left[p] > 0 /\ left[p] <= RingTTL
         /\ ttl'[c] = RingTTL + EndedLingerTTL /\ due'[c] = left[p] /\ state'[c] = "ringing"
  <1>0. /\ state \in [Call -> States] /\ expire \in [Call -> Nat] /\ ttl \in [Call -> Nat]
        /\ left[p] \in Nat
    BY TimeTypes
  <1>1. p \in User /\ pc[p] = "create"
    BY DEF CreateMove
  <1>2. left[p] <= RingTTL /\ left[p] >= RingTTL - Crossed(p) /\ due[c] = left[p]
    BY <1>1 DEF CreationInv, CreatorOK, Creating
  <1>3. left[p] > 0
    BY <1>0, <1>2, Times DEF Crossed
  <1> QED
    BY <1>0, <1>2, <1>3 DEF CreateMove, WriteRinging

LEMMA LeftMove ==
  ASSUME TimeInv, Generous, NEW p \in Proc, Move(p), NEW q \in Proc
  PROVE  LeftOK(q)'
  <1> SUFFICES ASSUME pc'[q] \in {"accept_index", "reschedule"}, Active(job[q])' PROVE LeftOK(q)'
    BY DEF LeftOK
  <1>0. TypeInv /\ CreationInv /\ LeftOK(q) /\ \A c \in Call : CallTimeOK(c)
    BY DEF TimeInv, DriftInv, IndexedInv
  <1>a. /\ state \in [Call -> States] /\ expire \in [Call -> Nat] /\ ttl \in [Call -> Nat]
        /\ left \in [Proc -> Nat]
    BY <1>0, TimeTypes
  <1>1. ASSUME pc'[q] = pc[q], job'[q] = job[q], left'[q] = left[q] PROVE LeftOK(q)'
    <2>1. PICK c \in Call : c = job[q]
      BY <1>0, <1>1, Working
    <2>2. ~Pending(c) /\ Active(c)'
      BY <1>0, <1>1, <2>1 DEF CreationInv, WriterOK, DueWriters
    <2>3. Active(c)
      BY <1>0, <2>2, ActiveArises
    <2>4. left[q] <= expire[c]
      BY <1>0, <1>1, <2>1, <2>3 DEF LeftOK
    <2>5. CASE expire'[c] = expire[c]
      BY <1>1, <2>1, <2>4, <2>5 DEF LeftOK
    <2>6. CASE expire'[c] = MaxCallDuration /\ state[c] = "ringing"
      <3>1. expire[c] <= RingTTL
        BY <1>0, <2>6 DEF CallTimeOK
      <3>2. left[q] <= MaxCallDuration
        BY <1>a, <2>4, <3>1, Times DEF Generous
      <3> QED
        BY <1>1, <2>1, <2>6, <3>2 DEF LeftOK
    <2> QED
      BY <1>0, <2>2, <2>3, <2>5, <2>6, AliveMove
  <1>2. CASE q # p
    BY <1>0, <1>1, <1>2, MoveFacts DEF OthersStay
  <1>3. CASE q = p /\ Quiet(p)
    <2>1. CASE Keeps(p)
      BY <1>1, <1>3, <2>1 DEF Keeps
    <2>2. CASE QuietGo(p) \/ Ends(p, Call) \/ Ends(p, {c \in Call : ~Active(c)})
      BY <1>3, <2>2 DEF QuietGo, Goes, Ends, Freeing
    <2>3. ASSUME NEW c \in Call, QuietBegin(p, c) PROVE LeftOK(q)'
      <3>1. job'[p] = c /\ left'[p] = expire[c]
        BY <1>3, <2>3 DEF QuietBegin, Begins
      <3>2. expire' = expire
        BY <1>3 DEF Quiet, hashVars
      <3> QED
        BY <1>3, <1>a, <3>1, <3>2 DEF LeftOK
    <2> QED
      BY <1>3, <2>1, <2>2, <2>3 DEF Quiet
  <1>4. CASE q = p /\ AnswerMove(p)
    <2>1. PICK c \in Call : c = job[p]
      BY <1>4 DEF AnswerMove
    <2>2. job'[p] = c /\ left'[p] = MaxCallDuration
      BY <1>4, <2>1 DEF AnswerMove, Begins, Ends
    <2>3. expire'[c] = MaxCallDuration
      BY <1>4, <1>a, <2>1 DEF AnswerMove, WriteConnected
    <2> QED
      BY <1>4, <2>2, <2>3, Times DEF LeftOK
  <1>5. CASE q = p /\ ~Quiet(p) /\ ~AnswerMove(p)
    BY <1>5 DEF Move, IndexMove, CreateMove, EndMove, DueMove, RecordMove, ClaimMove,
                Goes, Begins, Ends
  <1> QED
    BY <1>2, <1>3, <1>4, <1>5

(* The time an entry is given when it is written. *)
LEMMA WrittenDue ==
  ASSUME TimeInv, NEW p \in Proc, DueMove(p), NEW c \in Call, job[p] = c, Active(c),
         pc[p] \in {"accept_index", "reschedule"}
  PROVE  left[p] <= expire[c] /\ left[p] \in Nat /\ ~AnswerMove(p)
  <1>1. LeftOK(p) /\ TypeInv
    BY DEF TimeInv, DriftInv, IndexedInv
  <1> QED
    BY <1>1, TimeTypes DEF LeftOK, AnswerMove

LEMMA CallTimeMove ==
  ASSUME TimeInv, Generous, NEW p \in Proc, Move(p), NEW c \in Call
  PROVE  CallTimeOK(c)'
  <1> SUFFICES ASSUME Active(c)' PROVE CallTimeOK(c)'
    BY DEF CallTimeOK, Active
  <1>0. TypeInv /\ CreationInv /\ CallTimeOK(c)
    BY DEF TimeInv, DriftInv, IndexedInv
  <1>a. /\ expire[c] \in Nat /\ due[c] \in Nat \cup {NotIndexed} /\ NotIndexed \in Int
    BY <1>0, TimeTypes DEF NotIndexed
  <1>1. CASE Active(c)
    <2>1. CASE state'[c] = state[c] /\ expire'[c] = expire[c]
      <3>1. CASE due'[c] = due[c] \/ due'[c] = ClaimVisibilityTTL
        BY <1>0, <1>1, <1>a, <2>1, <3>1, Times DEF CallTimeOK, Active
      <3>2. CASE /\ DueMove(p) /\ job[p] = c /\ due'[c] = left[p]
                 /\ pc[p] \in {"accept_index", "reschedule"}
        <4>1. left[p] <= expire[c]
          BY <1>1, <3>2, WrittenDue
        <4> QED
          BY <1>0, <1>1, <2>1, <3>2, <4>1 DEF CallTimeOK, Active
      <3> QED
        BY <1>0, <1>1, <3>1, <3>2, AliveDue
    <2>2. CASE AnswerMove(p) /\ state'[c] = "connected" /\ expire'[c] = MaxCallDuration /\ state[c] = "ringing"
      <3>1. due'[c] = due[c]
        BY <2>2 DEF AnswerMove
      <3> QED
        BY <1>0, <1>1, <1>a, <2>2, <3>1, Times DEF CallTimeOK, Generous
    <2> QED
      BY <1>0, <1>1, <2>1, <2>2, AliveMove
  <1>2. CASE CreateMove(p) /\ job[p] = c
    <2>1. left[p] \in Nat
      BY <1>0, TimeTypes
    <2> QED
      BY <1>0, <1>2, <2>1, CreatedFacts DEF CallTimeOK
  <1> QED
    BY <1>0, <1>1, <1>2, ActiveArises

LEMMA BeforeMove ==
  ASSUME TimeInv, Generous, NEW p \in Proc, Move(p), NEW c \in Call
  PROVE  BeforeOK(c)'
  <1> SUFFICES ASSUME Active(c)', expire'[c] > 0 PROVE BeforeOK(c)'
    BY DEF BeforeOK
  <1>0. TypeInv /\ CreationInv /\ RecordInv /\ CallTimeOK(c) /\ BeforeOK(c)
    BY DEF TimeInv, DriftInv, IndexedInv
  <1>a. /\ expire[c] \in Nat /\ due[c] \in Nat \cup {NotIndexed} /\ NotIndexed \in Int
        /\ mishaps \in Nat /\ mishaps' \in {mishaps, mishaps + 1}
    BY <1>0, TimeTypes, MoveFacts DEF NotIndexed
  <1>1. CASE Active(c)
    <2>1. CASE ttl'[c] = ttl[c] /\ expire'[c] = expire[c]
      <3>0. /\ ttl[c] >= expire[c] + EndedLingerTTL
            /\ due[c] <= expire[c] \/ mishaps > 0 \/ ~Unheld(c)
        BY <1>0, <1>1, <2>1 DEF BeforeOK
      <3>1. CASE DueMove(p) /\ job[p] = c
        <4>1. due'[c] = left[p] /\ pc[p] \in {"accept_index", "reschedule"}
          BY <1>0, <1>1, <3>1, AliveDue DEF DueMove, ClaimMove, DueWriters
        <4>2. due'[c] <= expire[c]
          BY <1>1, <3>1, <4>1, WrittenDue
        <4> QED
          BY <2>1, <3>0, <4>2 DEF BeforeOK
      <3>2. CASE ClaimMove(p) /\ c \in claimed'[p]
        BY <2>1, <3>0, <3>2 DEF BeforeOK, ClaimMove, Unheld
      <3>3. CASE due'[c] = due[c] /\ ~(DueMove(p) /\ job[p] = c)
        <4>1. ~Unheld(c) => ~Unheld(c)' \/ mishaps' > 0
          BY <1>0, <1>1, <1>a, <3>3, HolderMove DEF Unheld
        <4> QED
          BY <1>a, <2>1, <3>0, <3>3, <4>1 DEF BeforeOK
      <3> QED
        BY <1>0, <1>1, <3>1, <3>2, <3>3, AliveDue
    <2>2. CASE /\ AnswerMove(p) /\ expire'[c] = MaxCallDuration /\ state[c] = "ringing"
               /\ ttl'[c] = MaxCallDuration + EndedLingerTTL
      <3>1. due'[c] = due[c]
        BY <2>2 DEF AnswerMove
      <3> QED
        BY <1>0, <1>1, <1>a, <2>2, <3>1, Times DEF CallTimeOK, BeforeOK, Generous
    <2> QED
      BY <1>0, <1>1, <2>1, <2>2, AliveMove
  <1>2. CASE CreateMove(p) /\ job[p] = c
    <2>1. left[p] \in Nat
      BY <1>0, TimeTypes
    <2> QED
      BY <1>0, <1>2, <2>1, CreatedFacts, Times DEF BeforeOK
  <1> QED
    BY <1>0, <1>1, <1>2, ActiveArises

LEMMA AfterMove ==
  ASSUME TimeInv, Generous, NEW p \in Proc, Move(p), NEW c \in Call, TypeInv'
  PROVE  AfterOK(c)'
  <1> SUFFICES ASSUME Active(c)', expire'[c] = 0 PROVE AfterOK(c)'
    BY DEF AfterOK
  <1>0. TypeInv /\ CreationInv /\ RecordInv /\ CallTimeOK(c) /\ AfterOK(c) /\ ActiveIsIndexed
    BY DEF TimeInv, DriftInv, IndexedInv
  <1>1. Active(c)
    <2>1. CreateMove(p) /\ job[p] = c => expire'[c] > 0
      BY <1>0, CreatedFacts
    <2> QED
      BY <1>0, <2>1, ActiveArises
  <1>2. expire[c] = 0 /\ ttl'[c] = ttl[c] /\ ~(AnswerMove(p) /\ job[p] = c)
    BY <1>0, <1>1, AliveMove, Times
  <1>3. ttl[c] \in Nat /\ due[c] \in Nat
    BY <1>0, <1>1, TimeTypes DEF ActiveIsIndexed
  <1>4. due[c] <= ClaimVisibilityTTL
    BY <1>0, <1>1, <1>2, <1>3, Times DEF CallTimeOK
  <1>5. /\ Credit \in Nat /\ Credit' \in Nat /\ Credit' <= Credit
        /\ mishaps' = mishaps + 1 => Credit = Credit' + (ClaimVisibilityTTL + 2)
    BY <1>0, CreditMove, MoveFacts
  <1>6. ASSUME NEW w \in Sweeper, HeldBy(w, c) \/ MovedBy(w, c)
        PROVE  \/ DueInTime(c)' \/ HeldBy(w, c)' \/ MovedBy(w, c)'
               \/ w = p /\ DueMove(p) /\ job[p] = c
    <2>0. /\ c \in claimed[w] /\ Lag(w) \in {0, 1} /\ Lag(w)' \in {0, 1}
          /\ ttl[c] >= 1 + Lag(w) + Credit
          /\ Moving(w, c) => ttl[c] >= 3 + Lag(w) + Credit
      BY <1>3, <1>5, <1>6 DEF HeldBy, MovedBy, Holding, Moving, Lag, Crossed
    <2>1. CASE c \in claimed'[w]
      <3>1. Lag(w)' <= Lag(w)
        BY <1>0, <2>0, <2>1, SweeperKeepsUp
      <3>2. CASE Moving(w, c)'
        <4>1. Moving(w, c)
          BY <1>0, <1>2, <3>2, SweeperKeepsUp
        <4>2. ttl'[c] >= 3 + Lag(w)' + Credit'
          BY <1>2, <1>3, <1>5, <2>0, <3>1, <4>1
        <4> QED
          BY <3>2, <4>2 DEF MovedBy
      <3>3. CASE ~Moving(w, c)'
        <4>1. ttl'[c] >= 1 + Lag(w)' + Credit'
          BY <1>2, <1>3, <1>5, <2>0, <3>1
        <4> QED
          BY <2>1, <3>3, <4>1 DEF HeldBy, Holding
      <3> QED
        BY <3>2, <3>3
    <2>2. CASE w = p /\ mishaps' = mishaps + 1
      <3>1. due'[c] = due[c]
        BY <1>0, <1>1, <2>2, AliveDue, TimeTypes
      <3>2. ttl'[c] >= due'[c] + 3 + Credit'
        BY <1>2, <1>3, <1>4, <1>5, <2>0, <2>2, <3>1, Times
      <3> QED
        BY <3>2 DEF DueInTime
    <2> QED
      BY <1>0, <1>1, <2>0, <2>1, <2>2, HolderMove
  <1>7. CASE DueMove(p) /\ job[p] = c
    <2>1. due'[c] = left[p] /\ pc[p] \in {"accept_index", "reschedule"}
      BY <1>0, <1>1, <1>7, AliveDue DEF DueMove, ClaimMove, DueWriters
    <2>2. due'[c] = 0
      BY <1>1, <1>2, <1>7, <2>1, WrittenDue
    <2>3. ~(\E w \in Sweeper : ClaimMove(p) /\ w = p)
      BY <1>7 DEF DueMove, ClaimMove, DueWriters
    <2>4. CASE DueInTime(c)
      <3>1. ttl'[c] >= due'[c] + 3 + Credit'
        BY <1>2, <1>3, <1>5, <2>2, <2>4 DEF DueInTime
      <3> QED
        BY <3>1 DEF AfterOK, DueInTime
    <2>5. CASE DueNow(c)
      <3>1. \A w \in Sweeper : pc'[w] = "idle" \/ w \in late'
        BY <1>0, <2>3, <2>5, SweeperKeepsUp DEF DueNow
      <3>2. ttl'[c] >= 2 + Credit'
        BY <1>2, <1>3, <1>5, <2>5 DEF DueNow
      <3> QED
        BY <2>2, <3>1, <3>2 DEF AfterOK, DueNow
    <2>6. ASSUME NEW w \in Sweeper, HeldBy(w, c) \/ MovedBy(w, c), w = p
          PROVE  DueInTime(c)'
      <3>1. Moving(w, c) /\ Lag(w) \in {0, 1}
        <4>1. pc[p] = "reschedule"
          BY <2>1, <2>6, TimeTypes, <1>0, WhoIsAt
        <4> QED
          BY <1>7, <2>6, <4>1 DEF HeldBy, MovedBy, Holding, Moving, Lag, Crossed
      <3>2. ttl[c] >= 3 + Lag(w) + Credit
        BY <2>6, <3>1 DEF HeldBy, MovedBy, Holding
      <3>3. ttl'[c] >= due'[c] + 3 + Credit'
        BY <1>2, <1>3, <1>5, <2>2, <3>1, <3>2
      <3> QED
        BY <3>3 DEF DueInTime
    <2> QED
      BY <1>0, <1>1, <1>2, <1>6, <2>4, <2>5, <2>6 DEF AfterOK
  <1>8. CASE ClaimMove(p) /\ due[c] = 0 /\ c \in claimed'[p]
    <2>1. p \in Sweeper /\ pc'[p] = "reap" /\ p \notin late'
      BY <1>8 DEF ClaimMove
    <2>2. Holding(p, c)' /\ Lag(p)' = 1
      BY <1>8, <2>1 DEF Holding, Moving, Lag, Crossed
    <2>3. CASE DueInTime(c) \/ DueNow(c)
      <3>1. ttl'[c] >= 1 + Lag(p)' + Credit'
        BY <1>2, <1>3, <1>5, <1>8, <2>2, <2>3 DEF DueInTime, DueNow
      <3> QED
        BY <2>1, <2>2, <3>1 DEF AfterOK, HeldBy
    <2>4. ~DueMove(p)
      BY <1>8 DEF DueMove, ClaimMove, DueWriters
    <2> QED
      BY <1>0, <1>1, <1>2, <1>6, <2>3, <2>4 DEF AfterOK
  <1>9. CASE due'[c] = due[c] /\ ~(DueMove(p) /\ job[p] = c) /\ ~(ClaimMove(p) /\ due[c] = 0)
    <2>1. CASE DueInTime(c)
      <3>1. ttl'[c] >= due'[c] + 3 + Credit'
        BY <1>2, <1>3, <1>5, <1>9, <2>1 DEF DueInTime
      <3> QED
        BY <3>1 DEF AfterOK, DueInTime
    <2>2. CASE DueNow(c)
      <3>1. \A w \in Sweeper : pc'[w] = "idle" \/ w \in late'
        BY <1>0, <1>9, <2>2, SweeperKeepsUp DEF DueNow
      <3>2. ttl'[c] >= 2 + Credit'
        BY <1>2, <1>3, <1>5, <2>2 DEF DueNow
      <3> QED
        BY <1>9, <2>2, <3>1, <3>2 DEF AfterOK, DueNow
    <2> QED
      BY <1>0, <1>1, <1>2, <1>6, <1>9, <2>1, <2>2 DEF AfterOK
  <1> QED
    BY <1>0, <1>1, <1>7, <1>8, <1>9, AliveDue

(* No tick takes the HASH of a call that is alive. *)
LEMMA NoneIsLost ==
  ASSUME TimeInv, Generous, Tick, NEW c \in Call, Active(c)
  PROVE  ttl[c] > 1
  <1>0. TypeInv /\ BeforeOK(c) /\ AfterOK(c) /\ ActiveIsIndexed
    BY DEF TimeInv, DriftInv, IndexedInv
  <1>1. ttl[c] \in Nat /\ due[c] \in Nat /\ expire[c] \in Nat /\ Credit \in Nat
    BY <1>0, TimeTypes, CreditFacts DEF ActiveIsIndexed
  <1>2. CASE expire[c] > 0
    BY <1>0, <1>1, <1>2, Times DEF BeforeOK
  <1>3. CASE expire[c] = 0
    <2>1. \A w \in Sweeper : Lag(w) = 1
      BY <1>0, TickFacts, TimeTypes
    <2>2. DueInTime(c) \/ DueNow(c) => ttl[c] > 1
      BY <1>1 DEF DueInTime, DueNow
    <2>3. ASSUME NEW w \in Sweeper, HeldBy(w, c) \/ MovedBy(w, c) PROVE ttl[c] > 1
      <3>1. ttl[c] >= 1 + Lag(w) + Credit \/ ttl[c] >= 3 + Lag(w) + Credit
        BY <2>3 DEF HeldBy, MovedBy
      <3> QED
        BY <1>1, <2>1, <3>1
    <2> QED
      BY <1>0, <1>3, <2>2, <2>3 DEF AfterOK
  <1> QED
    BY <1>1, <1>2, <1>3

LEMMA TimeTick ==
  ASSUME TimeInv, Generous, Tick, TypeInv'
  PROVE  /\ \A p \in Proc : LeftOK(p)'
         /\ \A c \in Call : CallTimeOK(c)' /\ BeforeOK(c)' /\ AfterOK(c)'
  <1>0. /\ TypeInv /\ ActiveIsIndexed
        /\ \A p \in Proc : LeftOK(p)
        /\ \A c \in Call : CallTimeOK(c) /\ BeforeOK(c) /\ AfterOK(c)
    BY DEF TimeInv, DriftInv, IndexedInv
  <1>a. /\ expire \in [Call -> Nat] /\ ttl \in [Call -> Nat] /\ left \in [Proc -> Nat]
        /\ due \in [Call -> Nat \cup {NotIndexed}]
        /\ mishaps' = mishaps /\ mishaps \in Nat /\ Credit' = Credit /\ Credit \in Nat
    <2>1. mishaps' = mishaps
      BY <1>0, TickFacts
    <2>2. Credit' = Credit
      BY <2>1 DEF Credit
    <2> QED
      BY <1>0, <2>1, <2>2, TimeTypes, CreditFacts
  <1>b. \A c \in Call : Active(c)' => Active(c) /\ state'[c] = state[c] /\ due[c] \in Nat
    BY <1>0, <1>a, TickFacts DEF Active, ActiveIsIndexed
  <1>1. ASSUME NEW p \in Proc PROVE LeftOK(p)'
    <2> SUFFICES ASSUME pc'[p] \in {"accept_index", "reschedule"}, Active(job[p])' PROVE LeftOK(p)'
      BY DEF LeftOK
    <2>1. pc' = pc /\ job' = job
      BY <1>0, TickFacts
    <2>2. PICK c \in Call : c = job[p]
      BY <1>0, <2>1, Working
    <2>3. left[p] <= expire[c] /\ left[p] \in Nat /\ expire[c] \in Nat
      BY <1>0, <1>a, <1>b, <2>1, <2>2 DEF LeftOK
    <2>4. /\ left'[p] = IF left[p] > 0 THEN left[p] - 1 ELSE 0
          /\ expire'[c] = IF expire[c] > 0 THEN expire[c] - 1 ELSE 0
      BY <1>0, TickFacts
    <2>5. left'[p] <= expire'[c]
      BY <2>3, <2>4
    <2> QED
      BY <2>1, <2>2, <2>5 DEF LeftOK
  <1>2. ASSUME NEW c \in Call, Active(c)'
        PROVE  CallTimeOK(c)' /\ BeforeOK(c)' /\ AfterOK(c)'
    <2>1. Active(c) /\ state'[c] = state[c] /\ due[c] \in Nat /\ ttl[c] \in Nat /\ expire[c] \in Nat
      BY <1>a, <1>b, <1>2
    <2>2. /\ ttl[c] > 1 /\ ttl'[c] = ttl[c] - 1
          /\ expire'[c] = IF expire[c] > 0 THEN expire[c] - 1 ELSE 0
          /\ due'[c] = IF due[c] > 0 THEN due[c] - 1 ELSE due[c]
          /\ \A w \in Sweeper : due[c] = 0 => pc[w] # "idle"
          /\ pc' = pc /\ job' = job /\ claimed' = claimed
      BY <1>0, <2>1, TickFacts, NoneIsLost
    <2>3. CallTimeOK(c)'
      <3>1. state[c] = "ringing" => expire[c] <= RingTTL
        BY <1>0 DEF CallTimeOK
      <3>2. due[c] <= expire[c] \/ due[c] <= ClaimVisibilityTTL
        BY <1>0, <2>1 DEF CallTimeOK
      <3>3. state'[c] = "ringing" => expire'[c] <= RingTTL
        BY <2>1, <2>2, <3>1, Times
      <3>4. due'[c] <= expire'[c] \/ due'[c] <= ClaimVisibilityTTL
        BY <2>1, <2>2, <3>2, Times
      <3> QED
        BY <3>3, <3>4 DEF CallTimeOK
    <2>4. Unheld(c)' <=> Unheld(c)
      BY <2>2 DEF Unheld
    <2>5. ASSUME expire'[c] > 0 PROVE BeforeOK(c)'
      <3>1. /\ ttl[c] >= expire[c] + EndedLingerTTL
            /\ due[c] <= expire[c] \/ mishaps > 0 \/ ~Unheld(c)
        BY <1>0, <2>1, <2>2, <2>5 DEF BeforeOK
      <3>2. ttl'[c] >= expire'[c] + EndedLingerTTL
        BY <2>1, <2>2, <2>5, <3>1, Times
      <3>3. due[c] <= expire[c] => due'[c] <= expire'[c]
        BY <2>1, <2>2, <2>5
      <3> QED
        BY <1>a, <2>4, <3>1, <3>2, <3>3 DEF BeforeOK
    <2>6. ASSUME NEW w \in Sweeper, pc[w] # "idle"
          PROVE  w \in late' /\ Lag(w)' = 0 /\ Lag(w) = 1
      <3>1. w \in Proc /\ w \notin late /\ w \in late'
        BY <1>0, <2>6, Kinds, TickFacts
      <3> QED
        BY <3>1 DEF Lag, Crossed
    <2>7. ASSUME NEW w \in Sweeper, c \in claimed[w]
          PROVE  /\ pc[w] # "idle"
                 /\ Holding(w, c)' <=> Holding(w, c)
                 /\ Moving(w, c)' <=> Moving(w, c)
                 /\ Holding(w, c) \/ Moving(w, c)
      <3>1. pc[w] # "idle"
        BY <1>0, <2>7, TimeTypes
      <3> QED
        BY <2>2, <2>7, <3>1 DEF Holding, Moving
    <2>8. ASSUME expire'[c] = 0, expire[c] > 0 PROVE AfterOK(c)'
      <3>1. expire[c] = 1
        BY <2>1, <2>2, <2>8
      <3>2. /\ ttl[c] >= 1 + EndedLingerTTL
            /\ due[c] <= 1 \/ mishaps > 0 \/ ~Unheld(c)
        BY <1>0, <2>1, <2>8, <3>1 DEF BeforeOK
      <3>3. ttl'[c] >= 3 + MaxMishaps * (ClaimVisibilityTTL + 2)
        <4>1. MaxMishaps * (ClaimVisibilityTTL + 2) \in Nat
          BY CallAssumption, Times
        <4> DEFINE X == MaxMishaps * (ClaimVisibilityTTL + 2)
        <4>2. X \in Nat /\ EndedLingerTTL >= 3 + X
          BY <4>1 DEF Generous
        <4> HIDE DEF X
        <4>3. ttl'[c] >= 3 + X
          BY <2>1, <2>2, <3>2, <4>2, Times
        <4> QED
          BY <4>3 DEF X
      <3>4. /\ Credit <= MaxMishaps * (ClaimVisibilityTTL + 2)
            /\ mishaps > 0 => Credit + (ClaimVisibilityTTL + 2) <= MaxMishaps * (ClaimVisibilityTTL + 2)
            /\ MaxMishaps * (ClaimVisibilityTTL + 2) \in Nat
        BY <1>0, CreditFacts, CallAssumption, Times
      <3>5. ttl'[c] >= 3 + Credit' /\ (mishaps > 0 => ttl'[c] >= 3 + Credit' + (ClaimVisibilityTTL + 2))
        <4> DEFINE X == MaxMishaps * (ClaimVisibilityTTL + 2)
        <4>1. X \in Nat /\ ttl'[c] >= 3 + X /\ Credit <= X
              /\ (mishaps > 0 => Credit + (ClaimVisibilityTTL + 2) <= X)
          BY <3>3, <3>4
        <4>2. ttl'[c] \in Nat
          BY <2>1, <2>2
        <4> HIDE DEF X
        <4> QED
          BY <1>a, <4>1, <4>2, Times
      <3>6. CASE due[c] <= 1
        <4>1. due'[c] = 0
          BY <2>1, <2>2, <3>6
        <4>2. DueInTime(c)'
          BY <1>a, <3>5, <4>1 DEF DueInTime
        <4> QED
          BY <4>2 DEF AfterOK
      <3>7. CASE mishaps > 0
        <4>1. due'[c] <= ClaimVisibilityTTL /\ due'[c] \in Nat
          BY <1>0, <2>1, <2>2, <3>1, Times DEF CallTimeOK
        <4>2. ttl'[c] >= due'[c] + 3 + Credit'
          BY <1>a, <2>1, <2>2, <3>5, <3>7, <4>1, Times
        <4> QED
          BY <4>2 DEF AfterOK, DueInTime
      <3>8. CASE ~Unheld(c)
        <4>1. PICK w \in Sweeper : c \in claimed[w]
          BY <3>8 DEF Unheld
        <4>2. Lag(w)' = 0
          BY <2>6, <2>7, <4>1
        <4>3. /\ ttl'[c] >= 1 + Lag(w)' + Credit' /\ ttl'[c] >= 3 + Lag(w)' + Credit'
          BY <1>a, <2>1, <2>2, <3>5, <4>2
        <4>4. HeldBy(w, c)' \/ MovedBy(w, c)'
          BY <2>7, <4>1, <4>3 DEF HeldBy, MovedBy
        <4> QED
          BY <4>4 DEF AfterOK
      <3> QED
        BY <3>2, <3>6, <3>7, <3>8
    <2>9. ASSUME expire[c] = 0 PROVE AfterOK(c)'
      <3>1. CASE DueInTime(c) /\ due[c] > 0
        <4>1. ttl'[c] >= due'[c] + 3 + Credit'
          BY <1>a, <2>1, <2>2, <3>1 DEF DueInTime
        <4> QED
          BY <4>1 DEF AfterOK, DueInTime
      <3>2. CASE DueInTime(c) /\ due[c] = 0
        <4>1. due'[c] = 0 /\ ttl'[c] >= 2 + Credit'
          BY <1>a, <2>1, <2>2, <3>2 DEF DueInTime
        <4>2. \A w \in Sweeper : w \in late'
          BY <2>2, <2>6, <3>2
        <4> QED
          BY <4>1, <4>2 DEF AfterOK, DueNow
      <3>3. CASE DueNow(c)
        <4>1. PICK w \in Sweeper : TRUE
          BY DEF Generous
        <4>2. w \notin late /\ pc[w] # "idle"
          BY <1>0, <2>2, <3>3, <4>1, TickFacts, Kinds DEF DueNow
        <4> QED
          BY <3>3, <4>1, <4>2 DEF DueNow
      <3>4. ASSUME NEW w \in Sweeper, HeldBy(w, c) \/ MovedBy(w, c) PROVE AfterOK(c)'
        <4>1. c \in claimed[w]
          BY <3>4 DEF HeldBy, MovedBy, Holding, Moving
        <4>2. Lag(w)' = 0 /\ Lag(w) = 1
          BY <2>6, <2>7, <4>1
        <4>3. CASE Holding(w, c) /\ ttl[c] >= 1 + Lag(w) + Credit
          <5>1. ttl'[c] >= 1 + Lag(w)' + Credit'
            BY <1>a, <2>1, <2>2, <4>2, <4>3
          <5> QED
            BY <2>7, <4>1, <4>3, <5>1 DEF AfterOK, HeldBy
        <4>4. CASE Moving(w, c) /\ ttl[c] >= 3 + Lag(w) + Credit
          <5>1. ttl'[c] >= 3 + Lag(w)' + Credit'
            BY <1>a, <2>1, <2>2, <4>2, <4>4
          <5> QED
            BY <2>7, <4>1, <4>4, <5>1 DEF AfterOK, MovedBy
        <4> QED
          BY <3>4, <4>3, <4>4 DEF HeldBy, MovedBy
      <3>5. due[c] > 0 \/ due[c] = 0
        BY <2>1
      <3> QED
        BY <1>0, <2>1, <2>9, <3>1, <3>2, <3>3, <3>4, <3>5 DEF AfterOK
    <2>10. expire[c] = 0 \/ expire[c] > 0
      BY <2>1
    <2>11. expire'[c] = 0 \/ expire'[c] > 0
      BY <2>1, <2>2
    <2> QED
      BY <2>3, <2>5, <2>8, <2>9, <2>10, <2>11 DEF BeforeOK, AfterOK
  <1>3. ASSUME NEW c \in Call, ~Active(c)'
        PROVE  CallTimeOK(c)' /\ BeforeOK(c)' /\ AfterOK(c)'
    BY <1>3 DEF CallTimeOK, BeforeOK, AfterOK, Active
  <1> QED
    BY <1>1, <1>2, <1>3

LEMMA TimeInit == Init => TimeInv
  <1> SUFFICES ASSUME Init PROVE TimeInv
    OBVIOUS
  <1>1. DriftInv /\ RecordInv
    BY IndexedInit, RecordInit DEF Init, DriftInv, CompletesOK
  <1>2. \A p \in Proc : LeftOK(p)
    BY DEF Init, LeftOK
  <1>3. \A c \in Call : CallTimeOK(c) /\ BeforeOK(c) /\ AfterOK(c)
    BY DEF Init, CallTimeOK, BeforeOK, AfterOK, Active
  <1> QED
    BY <1>1, <1>2, <1>3 DEF TimeInv

LEMMA TimeStep ==
  ASSUME Generous, TimeInv, [Next]_vars
  PROVE  TimeInv'
  <1>0. DriftInv /\ RecordInv /\ TypeInv /\ DriftInv' /\ TypeInv'
    BY DriftStep, TypeStep DEF TimeInv, DriftInv, IndexedInv
  <1>1. CASE UNCHANGED vars
    <2>1. RecordInv'
      BY <1>0, <1>1 DEF vars, RecordInv, WinnerOK, CallOK, Winner, Crossed
    <2>2. /\ \A p \in Proc : LeftOK(p)'
          /\ \A c \in Call : CallTimeOK(c)' /\ BeforeOK(c)'
      BY <1>1 DEF TimeInv, vars, LeftOK, CallTimeOK, BeforeOK, Active, Unheld
    <2>3. \A c \in Call : AfterOK(c)'
      BY <1>1 DEF TimeInv, vars, AfterOK, Active, DueInTime, DueNow, HeldBy, MovedBy, Holding, Moving,
                  Lag, Crossed, Credit
    <2> QED
      BY <1>0, <2>1, <2>2, <2>3 DEF TimeInv
  <1>2. CASE Tick
    <2>1. EndedLingerTTL > 1
      <3>1. MaxMishaps * (ClaimVisibilityTTL + 2) \in Nat
        BY CallAssumption, Times
      <3> DEFINE X == MaxMishaps * (ClaimVisibilityTTL + 2)
      <3>2. X \in Nat /\ EndedLingerTTL >= 3 + X
        BY <3>1 DEF Generous
      <3> HIDE DEF X
      <3> QED
        BY <3>2, Times
    <2> QED
      BY <1>0, <1>2, <2>1, RecordTick, TimeTick DEF TimeInv
  <1>3. ASSUME NEW p \in Proc, Move(p) PROVE TimeInv'
    BY <1>0, <1>3, RecordMoveKeeps, LeftMove, CallTimeMove, BeforeMove, AfterMove DEF TimeInv
  <1> QED
    BY <1>0, <1>1, <1>2, <1>3, StepsAreMoves

----------------------------------------------------------------------------

(* The state plane implements CallLifecycle, with a call's phase the state of
   its HASH. *)

LEMMA LifecycleInit == Init => Lifecycle!Init
  BY DEF Init, Lifecycle!Init

LEMMA MoveIsLifecycle ==
  ASSUME TimeInv, NEW p \in Proc, Move(p)
  PROVE  [Lifecycle!Next]_<<state, talked, records>>
  <1>0. /\ TypeInv /\ CreationInv /\ RecordInv
        /\ state \in [Call -> States] /\ talked \in [Call -> BOOLEAN]
        /\ records \in [Call -> Seq(Record)]
    BY DEF TimeInv, DriftInv, IndexedInv, TypeInv, HashTypes, OtherTypes
  <1>1. CASE CreateMove(p)
    <2>1. PICK c \in Call : c = job[p]
      BY <1>1 DEF CreateMove
    <2>2. state[c] = "none"
      BY <1>0, <1>1, <2>1 DEF CreateMove, CreationInv, CreatorOK, Creating
    <2>3. Lifecycle!Ring(c)
      BY <1>1, <2>1, <2>2 DEF CreateMove, WriteRinging, Lifecycle!Ring, Lifecycle!Move
    <2> QED
      BY <2>3 DEF Lifecycle!Next
  <1>2. CASE AnswerMove(p)
    <2>1. PICK c \in Call : c = job[p]
      BY <1>2 DEF AnswerMove
    <2>2. Lifecycle!Answer(c)
      BY <1>2, <2>1 DEF AnswerMove, MayConnect, WriteConnected, Lifecycle!Answer, Lifecycle!Move
    <2> QED
      BY <2>2 DEF Lifecycle!Next
  <1>3. CASE EndMove(p)
    <2>1. PICK c \in Call : c = job[p]
      BY <1>3 DEF EndMove
    <2>2. Lifecycle!End(c)
      BY <1>3, <2>1 DEF EndMove, MayEnd, Active, WriteEnded, Lifecycle!End, Lifecycle!Move
    <2> QED
      BY <2>2 DEF Lifecycle!Next
  <1>4. CASE RecordMove(p)
    <2>1. PICK c \in Call : c = job[p]
      BY <1>4 DEF RecordMove
    <2>2. Winner(p, c) /\ note[p] \in Record
      BY <1>4, <2>1 DEF RecordMove, Winner
    <2>3. /\ state[c] = "ended" /\ records[c] = <<>>
          /\ note[p].talked = talked[c] /\ (note[p].why = "completed" => talked[c])
      BY <1>0, <2>2 DEF RecordInv, WinnerOK
    <2>4. note[p] = [why |-> note[p].why, talked |-> talked[c]] /\ note[p].why \in Reason
      BY <2>2, <2>3 DEF Record
    <2>5. Append(records[c], note[p]) = <<note[p]>>
      BY <2>3
    <2>6. records' = [records EXCEPT ![c] = <<[why |-> note[p].why, talked |-> talked[c]]>>]
      BY <1>0, <1>4, <2>1, <2>4, <2>5, Zenon DEF RecordMove
    <2>7. UNCHANGED <<state, talked>>
      BY <1>4 DEF RecordMove, hashVars
    <2>8. Lifecycle!Record(c, note[p].why)
      BY <2>3, <2>6, <2>7 DEF Lifecycle!Record
    <2> QED
      BY <2>4, <2>8 DEF Lifecycle!Next, Reason, Lifecycle!Reason
  <1>5. CASE Quiet(p) \/ IndexMove(p) \/ DueMove(p) \/ ClaimMove(p)
    BY <1>5 DEF Quiet, IndexMove, DueMove, ClaimMove, hashVars
  <1> QED
    BY <1>1, <1>2, <1>3, <1>4, <1>5 DEF Move

LEMMA TickIsLifecycle ==
  ASSUME TimeInv, Generous, Tick
  PROVE  [Lifecycle!Next]_<<state, talked, records>>
  <1> DEFINE C == {c \in Call : ttl[c] = 1}
  <1>0. TypeInv /\ ttl \in [Call -> Nat] /\ state \in [Call -> States]
        /\ \A c \in Call : Absent(c) <=> ttl[c] = 0
    BY DEF TimeInv, DriftInv, IndexedInv, TypeInv, HashTypes
  <1>1. \A c \in C : state[c] = "ended"
    <2> SUFFICES ASSUME NEW c \in Call, ttl[c] = 1 PROVE state[c] = "ended"
      OBVIOUS
    <2>1. ~Absent(c)
      BY <1>0
    <2>2. ~Active(c)
      BY NoneIsLost
    <2> QED
      BY <1>0, <2>1, <2>2 DEF Absent, Active, States
  <1>2. state' = [c \in Call |-> IF c \in C THEN "gone" ELSE state[c]]
    BY DEF Tick
  <1>3. UNCHANGED <<talked, records>>
    BY DEF Tick
  <1>4. C \in SUBSET {c \in Call : state[c] = "ended"}
    BY <1>1
  <1> HIDE DEF C
  <1>5. Lifecycle!Forget
    BY <1>2, <1>3, <1>4 DEF Lifecycle!Forget
  <1> QED
    BY <1>5 DEF Lifecycle!Next

LEMMA StepIsLifecycle ==
  ASSUME TimeInv, Generous, [Next]_vars
  PROVE  [Lifecycle!Next]_<<state, talked, records>>
  <1>1. CASE UNCHANGED vars
    BY <1>1 DEF vars
  <1>2. CASE Tick
    BY <1>2, TickIsLifecycle
  <1>3. ASSUME NEW p \in Proc, Move(p) PROVE [Lifecycle!Next]_<<state, talked, records>>
    BY <1>3, MoveIsLifecycle
  <1>4. TypeInv
    BY DEF TimeInv, DriftInv, IndexedInv
  <1> QED
    BY <1>1, <1>2, <1>3, <1>4, StepsAreMoves

(* The calls' HASH, index, locks and records, worked on one Redis script at a
   time by handlers and sweepers that crash and fail, implement the life of a
   call: it is ended once and for good, it does not disappear before it has
   ended, and it leaves at most one record, which says "completed" only of a
   call that was answered.  The linger time of an ended call has to last for a
   round of the sweep, and for one more per mishap. *)
THEOREM StatePlaneIsALifecycle ==
  ASSUME Generous
  PROVE  Spec => ImplementsCallLifecycle
  <1>1. Init => TimeInv /\ Lifecycle!Init
    BY TimeInit, LifecycleInit
  <1>2. TimeInv /\ [Next]_vars => TimeInv' /\ [Lifecycle!Next]_<<state, talked, records>>
    BY Generous, TimeStep, StepIsLifecycle
  <1> QED
    BY <1>1, <1>2, PTL DEF Spec, ImplementsCallLifecycle, Lifecycle!Spec, Lifecycle!lifecycleVars

----------------------------------------------------------------------------

(* The invite reaches the callee.  Who has connected once finds its lock: it is
   set before the HASH and lasts as long as the call rings, and what releases it
   early is a CALL_PENDING during Create alone, from a callee that is connected
   when the invite goes out or that has used up its one connection.            *)

PendingPCs == {"pending_get", "pending_unlock", "pending_check"}
Offering   == {"lock_caller", "index", "create", "deliver"}

(* u places a call, or undoes what it has placed. *)
Places(u) ==
  \/ pc[u] \in Offering \cup {"unlock_callee"}
  \/ pc[u] \in Freeing /\ note[u] = NoNote

PlacesOK(u) == Places(u) => u = CallerOf[job[u]] /\ made[job[u]] \in {"making", "made"}

EnderOK(p) == pc[p] \in {"unindex"} \cup Freeing /\ note[p] # NoNote => state[job[p]] \in Over

(* A client has had its CALL_PENDING answered from the start, or has connected. *)
AskOK(u) ==
  /\ asked[u] => online[u]
  /\ online[u] /\ ~asked[u] => connects > 0
  /\ pc[u] \in PendingPCs => connects > 0 /\ ~asked[u]

LockedFor(c, time) == busy[CalleeOf[c]] = c /\ busyTTL[CalleeOf[c]] = time

(* Until the callee is told. *)
OfferOK(u) ==
  LET c == job[u] IN
  /\ /\ pc[u] \in Offering /\ (pc[u] = "deliver" => state[c] = "ringing")
     /\ connects = 0 /\ left[u] > 0
     => LockedFor(c, left[u])
  /\ pc[u] = "deliver" /\ state[c] = "ringing" => expire[c] = left[u]

Offered(c) == connects <= 1 /\ made[c] = "offered" /\ state[c] = "ringing" /\ expire[c] > 0

(* Afterwards. *)
ReachOK(c) ==
  LET k == CalleeOf[c] IN
  Offered(c) =>
    /\ connects = 0 => LockedFor(c, expire[c])
    /\ online[k] /\ told[c] # "now" =>
         /\ LockedFor(c, expire[c])
         /\ pc[k] \in PendingPCs => job[k] = c /\ pc[k] # "pending_unlock"
         /\ expire[c] > 1 => ~asked[k]

ReachInv ==
  /\ TypeInv /\ CreationInv /\ ActiveIsIndexed
  /\ \A u \in User : PlacesOK(u) /\ AskOK(u) /\ OfferOK(u)
  /\ \A p \in Proc : EnderOK(p)
  /\ \A c \in Call : ReachOK(c)

(* What a step of p does to locks, to what the users know, and to p's own
   placing of a call. *)

(* p releases the callee's lock, or takes it for a new call. *)
Breaks(p, c) ==
  \/ made[c] = "no"
  \/ job[p] = c /\ pc[p] \in {"unlock_callee", "free_callee"}
  \/ job[p] = c /\ pc[p] = "pending_unlock" /\ p = CalleeOf[c]

LocksMove(p) ==
  \A c \in Call : busy[CalleeOf[c]] = c /\ ~Breaks(p, c) =>
    busy'[CalleeOf[c]] = c /\ busyTTL'[CalleeOf[c]] = busyTTL[CalleeOf[c]]

(* p has its CALL_PENDING answered. *)
Answers(p) ==
  /\ online[p]
  /\ \/ pc[p] = "idle" /\ busy[p] = NoCall
     \/ pc[p] = "pending_unlock"
     \/ pc[p] = "pending_get" /\ ~(CalleeOf[job[p]] = p /\ Ringing(job[p]))
     \/ pc[p] = "pending_check" /\ (expire[job[p]] <= 1 \/ told'[job[p]] = "now")

AskMove(p) ==
  /\ connects' \in {connects, connects + 1}
  /\ \A u \in User :
       /\ online'[u] => online[u] \/ (connects' = connects + 1 /\ pc'[u] = "idle" /\ asked'[u] = asked[u])
       /\ asked'[u] => online'[u]
       /\ online'[u] /\ asked[u] => asked'[u]
       /\ asked'[u] /\ ~asked[u] => u = p /\ Answers(u) /\ pc'[u] = "idle"
       /\ pc'[u] \in PendingPCs =>
            \/ /\ pc[u] \in PendingPCs /\ job'[u] = job[u]
               /\ pc'[u] = "pending_unlock" => pc[u] = "pending_unlock" \/ Absent(job[u])
            \/ pc'[u] = "pending_get" /\ online[u] /\ ~asked[u] /\ job'[u] = busy[u]

TellMove(p) ==
  \A c \in Call :
    /\ told[c] = "now" => told'[c] = "now" \/ ~online'[CalleeOf[c]]
    /\ \/ made'[c] = made[c]
       \/ p = CallerOf[c] /\ made[c] = "no" /\ ~Places(p)
       \/ p \in User /\ Places(p) /\ job[p] = c
    /\ made'[c] = "offered" =>
         \/ made[c] = "offered"
         \/ /\ pc[p] = "deliver" /\ job[p] = c
            /\ online[CalleeOf[c]] => told'[c] = "now"
            /\ UNCHANGED <<busy, busyTTL, state, expire, online, connects>>

PlaceMove(p) ==
  p \in User /\ Places(p)' =>
    LET c == job'[p] IN
    \/ /\ pc[p] = "idle" /\ made[c] = "no" /\ p = CallerOf[c] /\ made'[c] = "making"
       /\ pc'[p] = "lock_caller" /\ left'[p] = RingTTL
       /\ busy'[CalleeOf[c]] = c /\ busyTTL'[CalleeOf[c]] = RingTTL
    \/ /\ Places(p) /\ c = job[p] /\ left'[p] = left[p] /\ made'[c] \in {"making", "made"}
       /\ pc'[p] \in Offering => pc'[p] = pc[p] \/ pc[p] \in Creating
       /\ pc'[p] = "deliver" => pc[p] = "deliver" \/ (pc[p] = "create" /\ expire'[c] = left[p])

ReachMove(p) == LocksMove(p) /\ AskMove(p) /\ TellMove(p) /\ PlaceMove(p)

LEMMA SameLocks ==
  ASSUME NEW p, UNCHANGED lockVars
  PROVE  LocksMove(p)
  BY DEF lockVars, LocksMove

LEMMA SameAsk ==
  ASSUME NEW p \in Proc, OthersStay(p), UNCHANGED <<online, asked, connects>>,
         \A u \in User : AskOK(u), pc'[p] \notin PendingPCs
  PROVE  AskMove(p)
  BY Kinds DEF AskMove, AskOK, OthersStay

(* The handler that asks gets its answer, and is done. *)
LEMMA AnsweredAsk ==
  ASSUME TypeInv, NEW p \in User, OthersStay(p), UNCHANGED <<online, connects>>,
         asked' = [asked EXCEPT ![p] = online[p]], ~asked[p], pc'[p] = "idle",
         \A u \in User : AskOK(u), online[p] => Answers(p)
  PROVE  AskMove(p)
  <1>1. asked \in [User -> BOOLEAN]
    BY DEF TypeInv, UserTypes
  <1>2. \A u \in User : asked'[u] = IF u = p THEN online[p] ELSE asked[u]
    BY <1>1
  <1> QED
    BY <1>2, Kinds DEF AskMove, AskOK, OthersStay, PendingPCs

LEMMA SameTell ==
  ASSUME NEW p, UNCHANGED <<told, made>>
  PROVE  TellMove(p)
  BY DEF TellMove

LEMMA MadeTell ==
  ASSUME TypeInv, NEW p, NEW c \in Call, NEW to \in {"making", "made", "refused"}, SetMade(c, to),
         \/ p = CallerOf[c] /\ made[c] = "no" /\ ~Places(p)
         \/ p \in User /\ Places(p) /\ job[p] = c
  PROVE  TellMove(p)
  <1>1. made \in [Call -> {"no", "making", "made", "offered", "refused"}]
    BY DEF TypeInv, UserTypes
  <1>2. told' = told /\ \A d \in Call : made'[d] = IF d = c THEN to ELSE made[d]
    BY <1>1 DEF SetMade
  <1> QED
    BY <1>2 DEF TellMove

(* Locks are taken only if they are free. *)
LEMMA LockMoves ==
  ASSUME TypeInv, NEW p, NEW u \in User, NEW c \in Call
  PROVE  /\ LockFree(u, c) /\ Lock(u, c) /\ u # CalleeOf[c] => LocksMove(p)
         /\ Lock(CalleeOf[c], c) /\ made[c] = "no" /\ LockFree(CalleeOf[c], c) =>
              /\ LocksMove(p)
              /\ busy'[CalleeOf[c]] = c /\ busyTTL'[CalleeOf[c]] = RingTTL
         /\ Unlock(u, c) /\ (u = CalleeOf[c] => Breaks(p, c)) => LocksMove(p)
  <1>1. busy \in [User -> Call \cup {NoCall}] /\ busyTTL \in [User -> Nat]
    BY DEF TypeInv, LockTypes
  <1>2. \A d \in Call : CalleeOf[d] \in User /\ d # NoCall
    BY Parties2
  <1>3. ASSUME LockFree(u, c), Lock(u, c), u # CalleeOf[c] PROVE LocksMove(p)
    BY <1>1, <1>2, <1>3 DEF LockFree, Lock, LocksMove
  <1>4. ASSUME Lock(CalleeOf[c], c), made[c] = "no", LockFree(CalleeOf[c], c)
        PROVE  /\ LocksMove(p)
               /\ busy'[CalleeOf[c]] = c /\ busyTTL'[CalleeOf[c]] = RingTTL
    BY <1>1, <1>2, <1>4 DEF Lock, LockFree, LocksMove, Breaks
  <1>5. ASSUME Unlock(u, c), u = CalleeOf[c] => Breaks(p, c) PROVE LocksMove(p)
    <2>1. ASSUME NEW d \in Call, busy[CalleeOf[d]] = d, ~Breaks(p, d)
          PROVE  busy'[CalleeOf[d]] = d /\ busyTTL'[CalleeOf[d]] = busyTTL[CalleeOf[d]]
      <3>1. ~(CalleeOf[d] = u /\ busy[u] = c)
        BY <1>5, <2>1
      <3> QED
        BY <1>1, <1>2, <1>5, <2>1, <3>1 DEF Unlock
    <2> QED
      BY <2>1 DEF LocksMove
  <1> QED
    BY <1>3, <1>4, <1>5

(* Whatever is left of a step that changes neither locks nor what is known. *)
LEMMA SilentMove ==
  ASSUME NEW p \in Proc, OthersStay(p), \A u \in User : AskOK(u),
         UNCHANGED <<busy, busyTTL, online, asked, told, made, connects>>,
         pc'[p] \notin PendingPCs, ~Places(p)'
  PROVE  ReachMove(p)
  BY SameLocks, SameAsk, SameTell DEF lockVars, ReachMove, PlaceMove

(* The first step of a call, and the rest of its Create. *)
LEMMA PlacingMoves ==
  ASSUME TypeInv, NEW u \in User, \A v \in User : PlacesOK(v) /\ AskOK(v)
  PROVE  /\ \A c \in Call : Invite(u, c) => ReachMove(u)
         /\ LockCaller(u) \/ UnlockCallee(u) \/ IndexCall(u) \/ CreateState(u) \/ Deliver(u) => ReachMove(u)
  <1>a. ProcTypes /\ HashTypes /\ LockTypes /\ UserTypes /\ OtherTypes /\ BudgetTypes
    BY DEF TypeInv
  <1>b. u \in Proc /\ u \notin Sweeper
    BY Kinds
  <1>c. pc[u] \notin {"idle", "reap"} => job[u] \in Call
    BY <1>b, Working
  <1>d. pc[u] \in Creating => note[u] = NoNote
    BY <1>b DEF TypeInv, ProcOK
  <1>m. Calm \/ Signal \/ Mishap => connects' = connects
    BY DEF Calm, Mishap, Signal
  <1>s. UNCHANGED <<pc, job, left, note, claimed, late>> => OthersStay(u)
    BY <1>b, StillKeeps
  <1>f. Finish(u) => OthersStay(u) /\ pc'[u] = "idle"
    BY <1>a, <1>b, FinishFacts DEF Finish
  <1>g. \A label \in PCs : Goto(u, label) =>
          OthersStay(u) /\ pc'[u] = label /\ UNCHANGED <<job, left, note>>
    BY <1>a, <1>b, GotoFacts
  <1>1. ASSUME NEW c \in Call, Invite(u, c) PROVE ReachMove(u)
    <2>1. /\ pc[u] = "idle" /\ u = CallerOf[c] /\ made[c] = "no" /\ ~Places(u)
          /\ UNCHANGED <<online, asked, connects, told>>
      BY <1>1, <1>m DEF Invite, At, SetMade, Places, Offering, Freeing
    <2>2. PICK to \in {"making", "refused"} : SetMade(c, to)
      BY <1>1 DEF Invite
    <2>3. TellMove(u)
      BY <2>1, <2>2, MadeTell
    <2>4. LocksMove(u)
      <3>1. (LockFree(CalleeOf[c], c) /\ Lock(CalleeOf[c], c)) \/ UNCHANGED lockVars
        BY <1>1 DEF Invite
      <3> QED
        BY <2>1, <3>1, LockMoves, SameLocks
    <2>5. CASE UNCHANGED <<pc, job, left, note, claimed, late>>
      <3>1. AskMove(u)
        BY <1>b, <1>s, <2>1, <2>5, SameAsk DEF PendingPCs
      <3>2. PlaceMove(u)
        BY <2>1, <2>5 DEF PlaceMove, Places
      <3> QED
        BY <2>3, <2>4, <3>1, <3>2 DEF ReachMove
    <2>6. CASE /\ LockFree(CalleeOf[c], c) /\ Lock(CalleeOf[c], c)
               /\ Start(u, c, "lock_caller", RingTTL, NoNote) /\ SetMade(c, "making")
      <3>1. OthersStay(u) /\ pc'[u] = "lock_caller" /\ job'[u] = c /\ left'[u] = RingTTL
        BY <1>a, <1>b, <2>6, StartFacts, Times, NoteFacts DEF PCs
      <3>2. AskMove(u)
        BY <1>b, <2>1, <3>1, SameAsk DEF PendingPCs
      <3>3. made'[c] = "making" /\ busy'[CalleeOf[c]] = c /\ busyTTL'[CalleeOf[c]] = RingTTL
        BY <1>a, <2>1, <2>6, LockMoves DEF SetMade, UserTypes
      <3>4. PlaceMove(u)
        BY <2>1, <3>1, <3>3 DEF PlaceMove
      <3> QED
        BY <2>3, <2>4, <3>2, <3>4 DEF ReachMove
    <2> QED
      BY <1>1, <2>5, <2>6 DEF Invite
  (* p goes on with its Create. *)
  <1>p. ASSUME NEW from \in Offering \cup {"unlock_callee"}, pc[u] = from,
               NEW label \in {"index", "unlock_callee", "create", "deliver", "free_callee"},
               Goto(u, label), UNCHANGED <<online, asked, told, connects>>,
               \/ made' = made
               \/ SetMade(job[u], "made"),
               from \in Creating, label = "deliver" => from = "create" /\ expire'[job[u]] = left[u],
               LocksMove(u)
        PROVE  ReachMove(u)
    <2> DEFINE c == job[u]
    <2>1. OthersStay(u) /\ pc'[u] = label /\ job'[u] = c /\ left'[u] = left[u] /\ note'[u] = note[u]
      BY <1>g, <1>p DEF PCs
    <2>2. Places(u) /\ c \in Call /\ u = CallerOf[c] /\ made[c] \in {"making", "made"}
      BY <1>c, <1>p DEF Places, PlacesOK, Creating
    <2>3. AskMove(u)
      BY <1>b, <1>p, <2>1, SameAsk DEF PendingPCs
    <2>4. TellMove(u)
      BY <1>p, <2>2, SameTell, MadeTell
    <2>5. made'[c] \in {"making", "made"}
      BY <1>a, <1>p, <2>2 DEF SetMade, UserTypes
    <2>6. PlaceMove(u)
      BY <1>p, <2>1, <2>2, <2>5 DEF PlaceMove
    <2> QED
      BY <1>p, <2>3, <2>4, <2>6 DEF ReachMove
  <1>2. ASSUME LockCaller(u) PROVE ReachMove(u)
    <2>1. /\ pc[u] = "lock_caller" /\ UNCHANGED <<online, asked, told, made, connects>>
          /\ Goto(u, "index") \/ Goto(u, "unlock_callee")
          /\ (LockFree(u, job[u]) /\ Lock(u, job[u])) \/ UNCHANGED lockVars
      BY <1>2, <1>m DEF LockCaller, At, userVars
    <2>2. job[u] \in Call /\ u # CalleeOf[job[u]]
      <3>1. job[u] \in Call /\ u = CallerOf[job[u]]
        BY <1>c, <2>1 DEF PlacesOK, Places, Offering
      <3> QED
        BY <3>1, Parties2
    <2>3. LocksMove(u)
      BY <2>1, <2>2, LockMoves, SameLocks
    <2> QED
      BY <1>p, <2>1, <2>3 DEF Offering, Creating
  <1>3. ASSUME UnlockCallee(u) PROVE ReachMove(u)
    <2>1. /\ pc[u] = "unlock_callee" /\ Unlock(CalleeOf[job[u]], job[u]) /\ SetMade(job[u], "refused")
          /\ Finish(u) /\ job[u] \in Call /\ connects' = connects /\ UNCHANGED <<online, asked>>
      BY <1>3, <1>c, <1>m DEF UnlockCallee, At, SetMade
    <2>2. LocksMove(u)
      BY <2>1, LockMoves, Parties2 DEF Breaks
    <2>3. TellMove(u)
      BY <2>1, MadeTell DEF Places
    <2>4. OthersStay(u) /\ pc'[u] = "idle"
      BY <1>f, <2>1
    <2>5. AskMove(u)
      BY <1>b, <2>1, <2>4, SameAsk DEF PendingPCs
    <2>6. PlaceMove(u)
      BY <2>4 DEF PlaceMove, Places, Offering, Freeing
    <2> QED
      BY <2>2, <2>3, <2>5, <2>6 DEF ReachMove
  <1>4. ASSUME IndexCall(u) PROVE ReachMove(u)
    <2>1. /\ pc[u] = "index" /\ UNCHANGED <<online, asked, told, made, connects, busy, busyTTL>>
          /\ Goto(u, "create") \/ Goto(u, "free_callee")
      BY <1>4, <1>m DEF IndexCall, IndexFails, At, userVars, lockVars
    <2>2. LocksMove(u)
      BY <2>1, SameLocks DEF lockVars
    <2> QED
      BY <1>p, <2>1, <2>2 DEF Offering, Creating
  <1>5. ASSUME CreateState(u) PROVE ReachMove(u)
    <2>1. /\ pc[u] = "create" /\ UNCHANGED <<online, asked, told, connects, busy, busyTTL>>
          /\ \/ WriteRinging(job[u], left[u]) /\ Goto(u, "deliver") /\ SetMade(job[u], "made")
             \/ Goto(u, "free_callee") /\ made' = made
      BY <1>5, <1>m DEF CreateState, At, userVars, lockVars, SetMade
    <2>2. LocksMove(u)
      BY <2>1, SameLocks DEF lockVars
    <2>3. WriteRinging(job[u], left[u]) => expire'[job[u]] = left[u]
      BY <1>a, <1>c, <2>1 DEF WriteRinging, HashTypes
    <2> QED
      BY <1>p, <2>1, <2>2, <2>3 DEF Offering, Creating
  <1>6. ASSUME Deliver(u) PROVE ReachMove(u)
    <2> DEFINE c == job[u]
    <2>1. /\ pc[u] = "deliver" /\ c \in Call /\ Finish(u)
          /\ UNCHANGED <<busy, busyTTL, state, expire, online, asked, connects>>
          /\ made' = [made EXCEPT ![c] = "offered"]
          /\ told' = [told EXCEPT ![c] = IF online[CalleeOf[c]] THEN "now" ELSE told[c]]
      BY <1>6, <1>c, <1>m DEF Deliver, At, redisVars
    <2>2. OthersStay(u) /\ pc'[u] = "idle" /\ Places(u)
      BY <1>f, <2>1 DEF Places, Offering
    <2> HIDE DEF c
    <2>3. \A d \in Call : /\ made'[d] = IF d = c THEN "offered" ELSE made[d]
                          /\ told'[d] = IF d = c /\ online[CalleeOf[c]] THEN "now" ELSE told[d]
      BY <1>a, <2>1 DEF UserTypes
    <2>4. TellMove(u)
      BY <2>1, <2>2, <2>3 DEF TellMove, c
    <2>5. AskMove(u) /\ LocksMove(u)
      BY <1>b, <2>1, <2>2, SameAsk, SameLocks DEF PendingPCs, lockVars
    <2>6. PlaceMove(u)
      BY <2>2 DEF PlaceMove, Places, Offering, Freeing
    <2> QED
      BY <2>4, <2>5, <2>6 DEF ReachMove
  <1> QED
    BY <1>1, <1>2, <1>3, <1>4, <1>5, <1>6

(* A client asks what it has missed. *)
LEMMA PendingMoves ==
  ASSUME TypeInv, NEW u \in User, \A v \in User : AskOK(v),
         ReadLock(u) \/ PendingGet(u) \/ PendingUnlock(u) \/ PendingCheck(u)
  PROVE  ReachMove(u)
  <1>a. ProcTypes /\ HashTypes /\ LockTypes /\ UserTypes /\ OtherTypes /\ BudgetTypes
    BY DEF TypeInv
  <1>b. u \in Proc /\ u \notin Sweeper
    BY Kinds
  <1>c. pc[u] \notin {"idle", "reap"} => job[u] \in Call
    BY <1>b, Working
  <1>m. Calm => connects' = connects
    BY DEF Calm
  <1>s. UNCHANGED <<pc, job, left, note, claimed, late>> => OthersStay(u)
    BY <1>b, StillKeeps
  <1>f. Finish(u) => OthersStay(u) /\ pc'[u] = "idle"
    BY <1>a, <1>b, FinishFacts DEF Finish
  <1>g. \A label \in PCs : Goto(u, label) =>
          OthersStay(u) /\ pc'[u] = label /\ UNCHANGED <<job, left, note>>
    BY <1>a, <1>b, GotoFacts
  <1>h. pc[u] \in PendingPCs => ~asked[u]
    BY DEF AskOK
  (* It is answered. *)
  <1>x. ASSUME Answered(u), ~asked[u], connects' = connects, OthersStay(u), pc'[u] = "idle",
               online[u] => Answers(u), LocksMove(u)
        PROVE  ReachMove(u)
    <2>1. AskMove(u)
      BY <1>x, AnsweredAsk DEF Answered
    <2>2. TellMove(u)
      BY <1>x, SameTell DEF Answered
    <2>3. PlaceMove(u)
      BY <1>x DEF PlaceMove, Places, Offering, Freeing
    <2> QED
      BY <1>x, <2>1, <2>2, <2>3 DEF ReachMove
  (* It goes on. *)
  <1>y. ASSUME OthersStay(u), UNCHANGED <<busy, busyTTL, online, asked, told, made, connects>>,
               pc'[u] \in {"pending_get", "pending_unlock", "pending_check"},
               \/ /\ pc[u] \in PendingPCs /\ job'[u] = job[u]
                  /\ pc'[u] = "pending_unlock" => Absent(job[u])
               \/ pc'[u] = "pending_get" /\ online[u] /\ ~asked[u] /\ job'[u] = busy[u]
        PROVE  ReachMove(u)
    <2>1. AskMove(u)
      BY <1>b, <1>y, Kinds DEF AskMove, AskOK, OthersStay
    <2>2. TellMove(u) /\ LocksMove(u)
      BY <1>y, SameTell, SameLocks DEF lockVars
    <2>3. PlaceMove(u)
      BY <1>y DEF PlaceMove, Places, Offering, Freeing
    <2> QED
      BY <2>1, <2>2, <2>3 DEF ReachMove
  <1>1. ASSUME ReadLock(u) PROVE ReachMove(u)
    <2>1. /\ pc[u] = "idle" /\ online[u] /\ ~asked[u] /\ connects' = connects
          /\ UNCHANGED <<busy, busyTTL>>
      BY <1>1, <1>m DEF ReadLock, At, redisVars
    <2>2. LocksMove(u)
      BY <2>1, SameLocks DEF lockVars
    <2>3. CASE busy[u] = NoCall /\ Answered(u) /\ UNCHANGED <<pc, job, left, note, claimed, late>>
      BY <1>s, <1>x, <2>1, <2>2, <2>3 DEF Answers
    <2>4. CASE /\ busy[u] # NoCall /\ Start(u, busy[u], "pending_get", 0, NoNote)
               /\ UNCHANGED userVars
      <3>1. busy[u] \in Call
        BY <1>a, <2>4 DEF LockTypes
      <3>2. OthersStay(u) /\ pc'[u] = "pending_get" /\ job'[u] = busy[u]
        BY <1>a, <1>b, <2>4, <3>1, StartFacts, NoteFacts DEF PCs
      <3> QED
        BY <1>y, <2>1, <2>4, <3>2 DEF userVars
    <2> QED
      BY <1>1, <2>3, <2>4 DEF ReadLock
  <1>2. ASSUME PendingGet(u) PROVE ReachMove(u)
    <2>1. pc[u] = "pending_get" /\ connects' = connects /\ UNCHANGED <<busy, busyTTL>>
      BY <1>2, <1>m DEF PendingGet, At, redisVars
    <2>2. LocksMove(u)
      BY <2>1, SameLocks DEF lockVars
    <2>3. CASE /\ UNCHANGED userVars
               /\ \/ Absent(job[u]) /\ Goto(u, "pending_unlock")
                  \/ Goto(u, "pending_check")
      BY <1>g, <1>y, <2>1, <2>3 DEF userVars, PCs, PendingPCs
    <2>4. CASE ~(CalleeOf[job[u]] = u /\ Ringing(job[u])) /\ Finish(u) /\ Answered(u)
      BY <1>f, <1>h, <1>x, <2>1, <2>2, <2>4 DEF Answers, PendingPCs
    <2> QED
      BY <1>2, <2>3, <2>4 DEF PendingGet
  <1>3. ASSUME PendingUnlock(u) PROVE ReachMove(u)
    <2>1. /\ pc[u] = "pending_unlock" /\ connects' = connects /\ job[u] \in Call
          /\ Unlock(u, job[u]) /\ Finish(u) /\ Answered(u)
      BY <1>3, <1>c, <1>m DEF PendingUnlock, At
    <2>2. LocksMove(u)
      BY <2>1, LockMoves DEF Breaks
    <2> QED
      BY <1>f, <1>h, <1>x, <2>1, <2>2 DEF Answers, PendingPCs
  <1>4. ASSUME PendingCheck(u) PROVE ReachMove(u)
    <2> DEFINE c == job[u]
    <2>1. pc[u] = "pending_check" /\ connects' = connects /\ c \in Call /\ UNCHANGED <<busy, busyTTL>>
      BY <1>4, <1>c, <1>m DEF PendingCheck, At, redisVars
    <2>2. LocksMove(u)
      BY <2>1, SameLocks DEF lockVars
    <2>3. CASE /\ Start(u, c, "terminate", 0, [why |-> "failed", talked |-> FALSE])
               /\ UNCHANGED userVars
      <3>1. OthersStay(u) /\ pc'[u] = "terminate"
        BY <1>a, <1>b, <2>1, <2>3, StartFacts, NoteFacts DEF PCs, Reason
      <3> QED
        BY <1>b, <2>1, <2>3, <3>1, SilentMove DEF userVars, PendingPCs, Places, Offering, Freeing
    <2>4. CASE /\ told' = [told EXCEPT ![c] = IF online[u] THEN "now" ELSE told[c]]
               /\ asked' = [asked EXCEPT ![u] = online[u]]
               /\ Finish(u) /\ UNCHANGED <<online, made>>
      <3> HIDE DEF c
      <3>1. OthersStay(u) /\ pc'[u] = "idle"
        BY <1>f, <2>4
      <3>2. \A d \in Call : told'[d] = IF d = c /\ online[u] THEN "now" ELSE told[d]
        BY <1>a, <2>1, <2>4 DEF UserTypes
      <3>3. online[u] => Answers(u)
        BY <2>1, <3>2 DEF Answers, c
      <3>4. AskMove(u)
        BY <1>h, <2>1, <2>4, <3>1, <3>3, AnsweredAsk DEF PendingPCs
      <3>5. TellMove(u)
        BY <2>4, <3>2 DEF TellMove
      <3>6. PlaceMove(u)
        BY <3>1 DEF PlaceMove, Places, Offering, Freeing
      <3> QED
        BY <2>2, <3>4, <3>5, <3>6 DEF ReachMove
    <2>5. CASE expire[c] <= 1 /\ Finish(u) /\ Answered(u)
      BY <1>f, <1>h, <1>x, <2>1, <2>2, <2>5 DEF Answers, PendingPCs
    <2> QED
      BY <1>4, <2>3, <2>4, <2>5 DEF PendingCheck
  <1> QED
    BY <1>1, <1>2, <1>3, <1>4

(* A connection comes or goes. *)
LEMMA LeaveMoves ==
  ASSUME TypeInv, NEW p \in Proc, OthersStay(p), \A u \in User : AskOK(u), connects' = connects,
         UNCHANGED <<busy, busyTTL, made>>, pc'[p] \notin PendingPCs \/ UNCHANGED <<pc, job>>,
         p \in User => Offline(p), p \notin User => UNCHANGED <<online, asked, told>>
  PROVE  LocksMove(p) /\ AskMove(p) /\ TellMove(p)
  <1>a. UserTypes
    BY DEF TypeInv
  <1>1. \A u \in User : /\ online'[u] = (online[u] /\ u # p)
                        /\ asked'[u] = (asked[u] /\ u # p)
    BY <1>a DEF Offline, UserTypes
  <1>2. \A c \in Call : told[c] = "now" => told'[c] = "now" \/ CalleeOf[c] = p
    BY DEF Offline
  <1>3. LocksMove(p) /\ TellMove(p)
    BY <1>1, <1>2, Parties2, SameLocks DEF TellMove, lockVars
  <1>4. AskMove(p)
    <2>1. \A u \in User : pc'[u] \in PendingPCs => pc'[u] = pc[u] /\ job'[u] = job[u]
      BY Kinds DEF OthersStay
    <2> QED
      BY <1>1, <2>1 DEF AskMove, AskOK
  <1> QED
    BY <1>3, <1>4

LEMMA OnlineMoves ==
  ASSUME TypeInv, NEW u \in User, \A v \in User : PlacesOK(v) /\ AskOK(v),
         Connect(u) \/ Disconnect(u)
  PROVE  ReachMove(u)
  <1>a. UserTypes /\ u \in Proc
    BY Kinds DEF TypeInv
  <1>1. /\ OthersStay(u) /\ UNCHANGED <<busy, busyTTL, made, pc, job, left, note, state, expire>>
    BY <1>a, StillKeeps DEF Connect, Disconnect, Offline, redisVars
  <1>2. PlaceMove(u)
    BY <1>1 DEF PlaceMove, Places, PlacesOK, Offering
  <1>3. CASE Disconnect(u)
    BY <1>1, <1>2, <1>3, <1>a, LeaveMoves DEF Disconnect, Calm, ReachMove
  <1>4. CASE Connect(u)
    <2>1. /\ \A v \in User : online'[v] = (online[v] \/ v = u)
          /\ UNCHANGED <<asked, told>> /\ connects' = connects + 1 /\ pc[u] = "idle"
      BY <1>4, <1>a DEF Connect, At, UserTypes
    <2>2. AskMove(u)
      BY <1>1, <2>1 DEF AskMove, AskOK
    <2> QED
      BY <1>1, <1>2, <2>1, <2>2, SameLocks, SameTell DEF ReachMove, lockVars
  <1> QED
    BY <1>3, <1>4

(* A call is answered or ended. *)
LEMMA EndingMoves ==
  ASSUME TypeInv, NEW p \in Proc, \A v \in User : PlacesOK(v) /\ AskOK(v)
  PROVE  /\ TerminateStep(p) => ReachMove(p)
         /\ p \in User /\ (AcceptCAS(p) \/ AcceptIndex(p)) => ReachMove(p)
         /\ p \in User => \A c \in Call :
              /\ Accept(p, c) => ReachMove(p)
              /\ \A reason \in {"canceled", "rejected", "completed"} :
                   HangUp(p, c, reason) => ReachMove(p)
         /\ p \in Sweeper /\ SweeperStep(p) => ReachMove(p)
  <1>a. ProcTypes /\ HashTypes /\ LockTypes /\ UserTypes /\ OtherTypes /\ BudgetTypes
    BY DEF TypeInv
  <1>c. pc[p] \notin {"idle", "reap"} => job[p] \in Call
    BY Working
  <1>d. /\ pc[p] \in {"terminate", "unindex", "record"} => note[p] # NoNote
        /\ p \in Sweeper /\ pc[p] \in Freeing => note[p] # NoNote
    BY DEF TypeInv, ProcOK, Freeing
  <1>m. Calm \/ Signal \/ Mishap => connects' = connects
    BY DEF Calm, Mishap, Signal
  <1>f. ASSUME NEW c, FinishCall(p, c) PROVE OthersStay(p) /\ pc'[p] \in {"idle", "reap"}
    BY <1>a, <1>f, FinishFacts
  <1>g. \A label \in PCs : Goto(p, label) =>
          OthersStay(p) /\ pc'[p] = label /\ UNCHANGED <<job, left, note>>
    BY <1>a, GotoFacts
  <1>t. ASSUME NEW c \in Call, NEW time \in Nat, NEW n \in Note,
               NEW label \in {"accept", "accept_index", "terminate", "unindex", "drop_index", "reschedule"},
               Start(p, c, label, time, n)
        PROVE  OthersStay(p) /\ pc'[p] = label
    BY <1>a, <1>t, StartFacts DEF PCs
  (* Locks and users are left alone. *)
  <1>q. ASSUME OthersStay(p), UNCHANGED <<busy, busyTTL, online, asked, told, made, connects>>,
               \/ pc'[p] \in {"idle", "reap", "accept", "accept_index", "terminate", "unindex",
                              "drop_index", "reschedule", "record"}
               \/ pc'[p] = "free_callee" /\ note'[p] # NoNote
        PROVE  ReachMove(p)
    BY <1>q, SilentMove DEF PendingPCs, Places, Offering, Freeing
  <1>1. ASSUME Terminate(p) PROVE ReachMove(p)
    <2> DEFINE n == [note[p] EXCEPT !.talked = talked[job[p]]]
    <2>1. /\ pc[p] = "terminate" /\ job[p] \in Call /\ note[p] \in Record /\ talked[job[p]] \in BOOLEAN
          /\ UNCHANGED <<busy, busyTTL, online, asked, told, made, connects>>
      BY <1>1, <1>a, <1>c, <1>d, <1>m, NoteFacts
      DEF Terminate, At, lockVars, userVars, ProcTypes, HashTypes
    <2>2. n \in Note
      BY <2>1, TalkedNote, NoteFacts
    <2>3. Start(p, job[p], "unindex", 0, n) \/ Finish(p)
      BY <1>1 DEF Terminate
    <2> HIDE DEF n
    <2> QED
      BY <1>f, <1>q, <1>t, <2>1, <2>2, <2>3 DEF Finish
  <1>2. ASSUME Unindex(p) PROVE ReachMove(p)
    <2>1. /\ pc[p] = "unindex" /\ Goto(p, "free_callee") /\ note[p] # NoNote
          /\ UNCHANGED <<busy, busyTTL, online, asked, told, made, connects>>
      BY <1>2, <1>d, <1>m DEF Unindex, At, lockVars, userVars
    <2> QED
      BY <1>g, <1>q, <2>1 DEF PCs
  (* Locks are released. *)
  <1>3. ASSUME FreeCallee(p) PROVE ReachMove(p)
    <2>1. /\ pc[p] = "free_callee" /\ Goto(p, "free_caller") /\ job[p] \in Call
          /\ Unlock(CalleeOf[job[p]], job[p])
          /\ UNCHANGED <<online, asked, told, made, connects>>
      BY <1>3, <1>c, <1>m DEF FreeCallee, At, userVars
    <2>2. LocksMove(p)
      BY <2>1, LockMoves, Parties2 DEF Breaks
    <2>3. OthersStay(p) /\ pc'[p] = "free_caller" /\ UNCHANGED <<job, left, note>>
      BY <1>g, <2>1 DEF PCs
    <2>4. AskMove(p) /\ TellMove(p)
      BY <2>1, <2>3, SameAsk, SameTell DEF PendingPCs
    <2>5. PlaceMove(p)
      BY <2>1, <2>3 DEF PlaceMove, Places, PlacesOK, Offering, Freeing
    <2> QED
      BY <2>2, <2>4, <2>5 DEF ReachMove
  <1>4. ASSUME FreeCaller(p) PROVE ReachMove(p)
    <2>1. /\ pc[p] = "free_caller" /\ job[p] \in Call /\ connects' = connects
          /\ Unlock(CallerOf[job[p]], job[p])
      BY <1>4, <1>c, <1>m DEF FreeCaller, At
    <2>2. LocksMove(p)
      BY <2>1, LockMoves, Parties2
    <2>3. CASE note[p] = NoNote /\ Finish(p) /\ SetMade(job[p], "refused")
      <3>1. p \in User /\ Places(p)
        BY <1>d, <2>1, <2>3 DEF Proc, Places, Freeing
      <3>2. OthersStay(p) /\ pc'[p] \in {"idle", "reap"}
        BY <1>f, <2>3 DEF Finish
      <3>3. TellMove(p)
        BY <2>1, <2>3, <3>1, MadeTell
      <3>4. AskMove(p)
        BY <2>1, <2>3, <3>2, SameAsk DEF SetMade, PendingPCs
      <3>5. PlaceMove(p)
        BY <3>2 DEF PlaceMove, Places, Offering, Freeing
      <3> QED
        BY <2>2, <3>3, <3>4, <3>5 DEF ReachMove
    <2>4. CASE note[p] # NoNote /\ Goto(p, "record") /\ UNCHANGED userVars
      <3>1. OthersStay(p) /\ pc'[p] = "record"
        BY <1>g, <2>4 DEF PCs
      <3>2. TellMove(p) /\ AskMove(p) /\ PlaceMove(p)
        BY <2>1, <2>4, <3>1, SameTell, SameAsk
        DEF userVars, PendingPCs, PlaceMove, Places, Offering, Freeing
      <3> QED
        BY <2>2, <3>2 DEF ReachMove
    <2> QED
      BY <1>4, <2>3, <2>4 DEF FreeCaller
  <1>5. ASSUME PublishRecord(p) PROVE ReachMove(p)
    <2>1. Finish(p) /\ UNCHANGED <<busy, busyTTL, online, asked, told, made, connects>>
      BY <1>5, <1>m DEF PublishRecord, redisVars, userVars
    <2> QED
      BY <1>f, <1>q, <2>1 DEF Finish
  <1>6. ASSUME p \in User, AcceptCAS(p) \/ AcceptIndex(p) PROVE ReachMove(p)
    <2>1. /\ UNCHANGED <<busy, busyTTL, online, asked, told, made, connects>>
          /\ job[p] \in Call
          /\ Finish(p) \/ Start(p, job[p], "accept_index", MaxCallDuration, NoNote)
      BY <1>6, <1>c, <1>m DEF AcceptCAS, AcceptIndex, At, lockVars, userVars
    <2> QED
      BY <1>f, <1>q, <1>t, <2>1, Times, NoteFacts DEF Finish
  <1>7. ASSUME p \in User, NEW c \in Call, Accept(p, c) PROVE ReachMove(p)
    <2>1. /\ UNCHANGED <<busy, busyTTL, online, asked, told, made, connects>>
          /\ Start(p, c, "accept", 0, NoNote)
      BY <1>7, <1>m DEF Accept, redisVars, userVars
    <2> QED
      BY <1>q, <1>t, <2>1, NoteFacts
  <1>8. ASSUME p \in User, NEW c \in Call, NEW reason \in {"canceled", "rejected", "completed"},
               HangUp(p, c, reason)
        PROVE  ReachMove(p)
    <2> DEFINE n == [why |-> Normalized(p, c, reason), talked |-> FALSE]
    <2>1. /\ UNCHANGED <<busy, busyTTL, online, asked, told, made, connects>>
          /\ Start(p, c, "terminate", 0, n)
      BY <1>8, <1>m DEF HangUp, redisVars, userVars
    <2>2. n \in Note
      <3>1. Normalized(p, c, reason) \in Reason
        BY DEF Normalized, Reason
      <3> QED
        BY <3>1, NoteFacts
    <2> HIDE DEF n
    <2> QED
      BY <1>q, <1>t, <2>1, <2>2
  <1>9. ASSUME p \in Sweeper, SweeperStep(p) PROVE ReachMove(p)
    <2>1. UNCHANGED <<busy, busyTTL, online, asked, told, made, connects>>
      BY <1>9, <1>m DEF SweeperStep, ClaimExpired, Reap, Reschedule, DropIndex, redisVars, lockVars, userVars
    <2>2. CASE ClaimExpired(p)
      <3>1. OthersStay(p) /\ pc'[p] = "reap"
        BY <1>9, <1>a, <2>2 DEF ClaimExpired, ProcTypes, OthersStay
      <3> QED
        BY <1>q, <2>1, <3>1
    <2>3. CASE Reap(p)
      <3>1. PICK d \in claimed[p] :
              \/ Start(p, d, "drop_index", 0, NoNote)
              \/ Start(p, d, "reschedule", expire[d], NoNote)
              \/ Start(p, d, "terminate", 0, [why |-> SweepReason(d), talked |-> FALSE])
        BY <2>3 DEF Reap
      <3>2. d \in Call /\ expire[d] \in Nat
        BY <1>9, <1>a DEF ProcTypes, HashTypes
      <3>3. NoNote \in Note /\ [why |-> SweepReason(d), talked |-> FALSE] \in Note
        BY NoteFacts DEF SweepReason, Reason
      <3> QED
        BY <1>q, <1>t, <2>1, <3>1, <3>2, <3>3
    <2>4. CASE Reschedule(p) \/ DropIndex(p)
      BY <1>f, <1>q, <2>1, <2>4 DEF Reschedule, DropIndex, Finish
    <2> QED
      BY <1>9, <2>2, <2>3, <2>4 DEF SweeperStep
  <1> QED
    BY <1>1, <1>2, <1>3, <1>4, <1>5, <1>6, <1>7, <1>8, <1>9 DEF TerminateStep

(* A script fails, or a process dies. *)
LEMMA LossMoves ==
  ASSUME TypeInv, NEW p \in Proc, \A v \in User : PlacesOK(v) /\ AskOK(v), StepLost(p) \/ Crash(p)
  PROVE  ReachMove(p)
  <1>a. ProcTypes /\ HashTypes /\ LockTypes /\ UserTypes /\ OtherTypes /\ BudgetTypes
    BY DEF TypeInv
  <1>c. pc[p] \notin {"idle", "reap"} => job[p] \in Call
    BY Working
  <1>d. /\ pc[p] \in {"terminate", "unindex", "record"} => note[p] # NoNote
        /\ p \in Sweeper /\ pc[p] \in Freeing => note[p] # NoNote
    BY DEF TypeInv, ProcOK, Freeing
  <1>m. connects' = connects /\ UNCHANGED <<busy, busyTTL>>
    BY DEF StepLost, Crash, Mishap, redisVars
  <1>l. LocksMove(p)
    BY <1>m, SameLocks DEF lockVars
  <1>f. ASSUME NEW c, FinishCall(p, c) PROVE OthersStay(p) /\ pc'[p] \in {"idle", "reap"} /\ (p \in User => pc'[p] = "idle")
    BY <1>a, <1>f, FinishFacts, Kinds
  <1>p. pc'[p] \in {"idle", "reap"} => PlaceMove(p)
    BY DEF PlaceMove, Places, Offering, Freeing
  <1>1. CASE Crash(p)
    <2>1. OthersStay(p) /\ pc'[p] = "idle" /\ made' = made
      BY <1>1, <1>a DEF Crash, ProcTypes, OthersStay, Offline, userVars
    <2>2. (p \in User => Offline(p)) /\ (p \notin User => UNCHANGED <<online, asked, told>>)
      BY <1>1 DEF Crash, userVars
    <2>3. AskMove(p) /\ TellMove(p)
      BY <1>m, <2>1, <2>2, LeaveMoves DEF PendingPCs
    <2> QED
      BY <1>l, <1>p, <2>1, <2>3 DEF ReachMove
  <1>2. CASE StepLost(p)
    <2>1. ASSUME UNCHANGED userVars,
                 \/ At(p, "unindex") /\ Goto(p, "free_callee")
                 \/ At(p, "free_callee") /\ Goto(p, "free_caller")
                 \/ At(p, "free_caller") /\ note[p] # NoNote /\ Goto(p, "record")
          PROVE  ReachMove(p)
      <3>1. /\ OthersStay(p) /\ UNCHANGED <<job, left, note>>
            /\ \/ pc[p] = "unindex" /\ pc'[p] = "free_callee"
               \/ pc[p] = "free_callee" /\ pc'[p] = "free_caller"
               \/ pc'[p] = "record"
        BY <1>a, <2>1, GotoFacts DEF At, PCs
      <3>2. UNCHANGED <<online, asked, told, made>>
        BY <2>1 DEF userVars
      <3>3. AskMove(p) /\ TellMove(p)
        BY <1>m, <3>1, <3>2, SameAsk, SameTell DEF PendingPCs
      <3>4. PlaceMove(p)
        BY <1>d, <3>1, <3>2 DEF PlaceMove, Places, PlacesOK, Offering, Freeing
      <3> QED
        BY <1>l, <3>3, <3>4 DEF ReachMove
    <2>2. ASSUME UNCHANGED userVars, NEW c, FinishCall(p, c)
          PROVE  ReachMove(p)
      BY <1>f, <1>l, <1>m, <1>p, <2>2, SameAsk, SameTell DEF userVars, ReachMove, PendingPCs
    <2>3. ASSUME At(p, "unlock_callee") \/ (At(p, "free_caller") /\ note[p] = NoNote),
                 SetMade(job[p], "refused"), Finish(p)
          PROVE  ReachMove(p)
      <3>1. Places(p) /\ p \in User /\ job[p] \in Call
        BY <1>c, <1>d, <2>3, WhoIsAt DEF At, Places, Freeing, Proc
      <3>2. TellMove(p)
        BY <2>3, <3>1, MadeTell
      <3>3. OthersStay(p) /\ pc'[p] = "idle"
        BY <1>f, <2>3, <3>1 DEF Finish
      <3>4. AskMove(p)
        BY <1>m, <2>3, <3>3, SameAsk DEF SetMade, PendingPCs
      <3> QED
        BY <1>l, <1>p, <3>2, <3>3, <3>4 DEF ReachMove
    <2>4. ASSUME At(p, "pending_unlock"), Answered(p), Finish(p)
          PROVE  ReachMove(p)
      <3>1. p \in User /\ pc[p] = "pending_unlock"
        BY <2>4, WhoIsAt DEF At
      <3>2. ~asked[p] /\ (online[p] => Answers(p))
        BY <3>1 DEF AskOK, PendingPCs, Answers
      <3>3. OthersStay(p) /\ pc'[p] = "idle"
        BY <1>f, <2>4, <3>1 DEF Finish
      <3>4. AskMove(p)
        BY <1>m, <2>4, <3>1, <3>2, <3>3, AnsweredAsk DEF Answered
      <3>5. TellMove(p)
        BY <2>4, SameTell DEF Answered
      <3> QED
        BY <1>l, <1>p, <3>3, <3>4, <3>5 DEF ReachMove
    <2> QED
      BY <1>2, <2>1, <2>2, <2>3, <2>4 DEF StepLost, Finish
  <1> QED
    BY <1>1, <1>2

LEMMA StepsAreReachMoves ==
  ASSUME TypeInv, \A v \in User : PlacesOK(v) /\ AskOK(v), Next
  PROVE  Tick \/ \E p \in Proc : Move(p) /\ ReachMove(p)
  <1>2. ASSUME NEW u \in User, Connect(u) \/ Disconnect(u) PROVE Move(u) /\ ReachMove(u)
    BY <1>2, HandlerMoves, OnlineMoves
  <1>3. ASSUME NEW u \in User, NEW c \in Call,
               \/ Invite(u, c) \/ Accept(u, c)
               \/ \E reason \in {"canceled", "rejected", "completed"} : HangUp(u, c, reason)
        PROVE  Move(u) /\ ReachMove(u)
    BY <1>3, HandlerMoves, PlacingMoves, EndingMoves, Kinds
  <1>4. ASSUME NEW p \in Proc, Step(p) PROVE Move(p) /\ ReachMove(p)
    <2>1. CASE TerminateStep(p)
      BY <2>1, TerminateMoves, EndingMoves
    <2>2. CASE p \in User /\ HandlerStep(p)
      <3>1. Move(p)
        BY <2>2, HandlerMoves
      <3> QED
        BY <2>2, <3>1, PlacingMoves, PendingMoves, EndingMoves DEF HandlerStep
    <2>3. CASE p \in Sweeper /\ SweeperStep(p)
      BY <2>3, SweeperMoves, EndingMoves
    <2> QED
      BY <1>4, <2>1, <2>2, <2>3 DEF Step
  <1>5. ASSUME NEW p \in Proc, StepLost(p) \/ Crash(p) PROVE Move(p) /\ ReachMove(p)
    BY <1>5, MishapMoves, LossMoves
  <1> QED
    BY <1>2, <1>3, <1>4, <1>5, Kinds DEF Next

LEMMA ReachInit == Init => ReachInv
  <1> SUFFICES ASSUME Init PROVE ReachInv
    OBVIOUS
  <1>1. TypeInv /\ CreationInv /\ ActiveIsIndexed
    BY IndexedInit DEF IndexedInv
  <1>2. \A p \in Proc : pc[p] = "idle"
    BY DEF Init
  <1>3. \A u \in User : PlacesOK(u) /\ OfferOK(u)
    BY <1>2, Kinds DEF PlacesOK, Places, OfferOK, Offering, Freeing
  <1>4. \A u \in User : AskOK(u)
    BY <1>2, Kinds DEF Init, AskOK, PendingPCs
  <1>5. \A p \in Proc : EnderOK(p)
    BY <1>2 DEF EnderOK, Freeing
  <1>6. \A c \in Call : ReachOK(c)
    BY DEF Init, ReachOK, Offered
  <1> QED
    BY <1>1, <1>3, <1>4, <1>5, <1>6 DEF ReachInv

(* A step takes nothing from the callee of a call that is being placed or
   rings, except by a CALL_PENDING of the callee's own. *)
LEMMA LockLasts ==
  ASSUME ReachInv, NEW p \in Proc, OthersStay(p), ReachMove(p), NEW c \in Call,
         busy[CalleeOf[c]] = c, state[c] \notin Over,
         \/ made[c] = "offered"
         \/ Places(CallerOf[c]) /\ job[CallerOf[c]] = c /\ pc[CallerOf[c]] \in Offering
  PROVE  \/ /\ busy'[CalleeOf[c]] = c /\ busyTTL'[CalleeOf[c]] = busyTTL[CalleeOf[c]]
         \/ p = CalleeOf[c] /\ pc[p] = "pending_unlock" /\ job[p] = c
  <1> SUFFICES ASSUME Breaks(p, c)
               PROVE  p = CalleeOf[c] /\ pc[p] = "pending_unlock" /\ job[p] = c
    BY DEF ReachMove, LocksMove
  <1>a. CallerOf[c] \in User /\ CalleeOf[c] \in User
    BY Parties2
  <1>1. made[c] # "no"
    BY <1>a DEF ReachInv, PlacesOK
  <1>2. ~(job[p] = c /\ pc[p] \in {"unlock_callee", "free_callee"})
    <2> SUFFICES ASSUME job[p] = c, pc[p] \in {"unlock_callee", "free_callee"} PROVE FALSE
      OBVIOUS
    <2>1. CASE Places(p)
      <3>1. p \in User
        BY <2>1, Kinds DEF Places, ReachInv, TypeInv, ProcOK, Offering, Freeing, SweeperPCs, Proc
      <3>2. p = CallerOf[c] /\ made[c] \in {"making", "made"}
        BY <2>1, <3>1 DEF ReachInv, PlacesOK
      <3>3. pc[p] \in Offering
        BY <3>2
      <3> QED
        BY <3>3 DEF Offering
    <2>2. CASE ~Places(p)
      BY <2>2 DEF Places, Freeing, ReachInv, EnderOK, Over
    <2> QED
      BY <2>1, <2>2
  <1> QED
    BY <1>1, <1>2 DEF Breaks

(* What a step may do to a HASH that rings. *)
LEMMA StillRinging ==
  ASSUME TypeInv, NEW p \in Proc, Move(p), NEW c \in Call, state'[c] = "ringing"
  PROVE  \/ state[c] = "ringing" /\ expire'[c] = expire[c]
         \/ pc[p] = "create" /\ job[p] = c /\ expire'[c] = left[p]
  <1>0. state \in [Call -> States] /\ expire \in [Call -> Nat]
    BY DEF TypeInv, HashTypes
  <1>1. CASE CreateMove(p)
    BY <1>0, <1>1 DEF CreateMove, WriteRinging
  <1>2. CASE AnswerMove(p)
    BY <1>0, <1>2 DEF AnswerMove, WriteConnected
  <1>3. CASE EndMove(p)
    BY <1>0, <1>3 DEF EndMove, WriteEnded
  <1>4. CASE Quiet(p) \/ IndexMove(p) \/ DueMove(p) \/ RecordMove(p) \/ ClaimMove(p)
    BY <1>4 DEF Quiet, IndexMove, DueMove, RecordMove, ClaimMove, hashVars
  <1> QED
    BY <1>1, <1>2, <1>3, <1>4 DEF Move

LEMMA PlacesKept ==
  ASSUME ReachInv, NEW p \in Proc, OthersStay(p), ReachMove(p), NEW u \in User
  PROVE  PlacesOK(u)'
  <1> SUFFICES ASSUME Places(u)' PROVE u = CallerOf[job'[u]] /\ made'[job'[u]] \in {"making", "made"}
    BY DEF PlacesOK
  <1>0. PlacesOK(u) /\ u \in Proc
    BY Kinds DEF ReachInv
  <1>1. CASE u = p
    BY <1>0, <1>1 DEF ReachMove, PlaceMove, PlacesOK
  <1>2. CASE u # p
    <2>1. Places(u) /\ job'[u] = job[u]
      BY <1>0, <1>2 DEF OthersStay, Places
    <2>2. PICK c \in Call : c = job[u]
      BY <1>0, <2>1, Working DEF ReachInv, Places, Offering, Freeing
    <2>3. u = CallerOf[c] /\ made[c] \in {"making", "made"}
      BY <1>0, <2>1, <2>2 DEF PlacesOK
    <2>4. made'[c] = made[c]
      <3>1. ~(p \in User /\ Places(p) /\ job[p] = c)
        BY <1>2, <2>3 DEF ReachInv, PlacesOK
      <3> QED
        BY <1>2, <2>3, <3>1 DEF ReachMove, TellMove
    <2> QED
      BY <2>1, <2>2, <2>3, <2>4
  <1> QED
    BY <1>1, <1>2

LEMMA AskKept ==
  ASSUME ReachInv, NEW p \in Proc, ReachMove(p), NEW u \in User
  PROVE  AskOK(u)'
  <1>0. AskOK(u) /\ connects \in Nat /\ asked[u] \in BOOLEAN /\ online[u] \in BOOLEAN
    BY CallAssumption DEF ReachInv, TypeInv, BudgetTypes, UserTypes
  <1>1. /\ connects' \in {connects, connects + 1}
        /\ online'[u] => online[u] \/ (connects' = connects + 1 /\ pc'[u] = "idle" /\ asked'[u] = asked[u])
        /\ asked'[u] => online'[u]
        /\ online'[u] /\ asked[u] => asked'[u]
        /\ asked'[u] /\ ~asked[u] => pc'[u] = "idle"
        /\ pc'[u] \in PendingPCs => pc[u] \in PendingPCs \/ (online[u] /\ ~asked[u])
    BY DEF ReachMove, AskMove
  <1>2. "idle" \notin PendingPCs
    BY DEF PendingPCs
  <1>3. connects > 0 => connects' > 0
    BY <1>0, <1>1
  <1>4. online'[u] /\ ~asked'[u] => connects' > 0
    <2>1. CASE online[u]
      BY <1>0, <1>1, <1>3, <2>1 DEF AskOK
    <2>2. CASE connects' = connects + 1
      BY <1>0, <2>2
    <2> QED
      BY <1>1, <2>1, <2>2
  <1>5. pc'[u] \in PendingPCs => connects' > 0 /\ ~asked'[u]
    BY <1>0, <1>1, <1>2, <1>3 DEF AskOK
  <1> QED
    BY <1>1, <1>4, <1>5 DEF AskOK

LEMMA EnderKept ==
  ASSUME ReachInv, NEW p \in Proc, Move(p), NEW q \in Proc
  PROVE  EnderOK(q)'
  <1> SUFFICES ASSUME pc'[q] \in {"unindex"} \cup Freeing, note'[q] # NoNote
               PROVE  state'[job'[q]] \in Over
    BY DEF EnderOK
  <1>0. TypeInv /\ CreationInv /\ EnderOK(q) /\ OthersStay(p)
    BY MoveFacts DEF ReachInv
  <1>1. ASSUME pc[q] \in {"unindex"} \cup Freeing, note'[q] = note[q], job'[q] = job[q]
        PROVE  state'[job'[q]] \in Over
    <2>1. PICK c \in Call : c = job[q]
      BY <1>0, <1>1, Working DEF Freeing
    <2> QED
      BY <1>0, <1>1, <2>1, Onward DEF EnderOK
  <1>2. CASE q # p
    BY <1>0, <1>1, <1>2 DEF OthersStay
  <1>3. CASE q = p /\ EndMove(p)
    <2>1. PICK c \in Call : c = job[p]
      BY <1>3 DEF EndMove
    <2>2. state'[c] = "ended" /\ job'[p] = c
      BY <1>0, <1>3, <2>1 DEF EndMove, WriteEnded, TypeInv, HashTypes, Begins, Ends
    <2> QED
      BY <1>3, <2>2 DEF Over
  <1>4. CASE q = p /\ ~EndMove(p)
    <2>1. pc[q] \in {"unindex"} \cup Freeing /\ note'[q] = note[q] /\ job'[q] = job[q]
      <3>1. CASE Quiet(p)
        BY <1>0, <1>4, <3>1
        DEF Quiet, Keeps, QuietGo, QuietBegin, Goes, Begins, Ends, Freeing
      <3>2. CASE IndexMove(p) \/ CreateMove(p)
        BY <1>0, <1>4, <3>2 DEF IndexMove, CreateMove, Goes, TypeInv, ProcOK, Creating, Freeing
      <3>3. CASE AnswerMove(p) \/ RecordMove(p) \/ ClaimMove(p)
        BY <1>4, <3>3 DEF AnswerMove, RecordMove, ClaimMove, Begins, Ends, Freeing
      <3>4. CASE DueMove(p)
        BY <1>4, <3>4 DEF DueMove, Goes, Ends, Freeing
      <3> QED
        BY <1>0, <1>4, <3>1, <3>2, <3>3, <3>4 DEF ReachInv, Move
    <2> QED
      BY <1>1, <2>1
  <1> QED
    BY <1>2, <1>3, <1>4

LEMMA OfferKept ==
  ASSUME ReachInv, NEW p \in Proc, Move(p), ReachMove(p), NEW u \in User
  PROVE  OfferOK(u)'
  <1> SUFFICES ASSUME pc'[u] \in Offering PROVE OfferOK(u)'
    BY DEF OfferOK, Offering
  <1>0. /\ TypeInv /\ CreationInv /\ OthersStay(p) /\ u \in Proc
        /\ OfferOK(u) /\ PlacesOK(u) /\ AskOK(u) /\ CreatorOK(u)
        /\ connects \in Nat /\ connects' \in {connects, connects + 1}
    BY MoveFacts, Kinds, CallAssumption DEF ReachInv, CreationInv, ReachMove, AskMove, TypeInv, BudgetTypes
  (* It has been placing the call before. *)
  <1>1. ASSUME Places(u), job'[u] = job[u], left'[u] = left[u],
               pc'[u] = pc[u] \/ pc[u] \in Creating,
               pc'[u] = "deliver" =>
                 pc[u] = "deliver" \/ (u = p /\ pc[u] = "create" /\ expire'[job[u]] = left[u])
        PROVE  OfferOK(u)'
    <2>1. pc[u] \in Offering
      BY <1>1 DEF Offering, Creating
    <2>2. PICK c \in Call : c = job[u]
      BY <1>0, <2>1, Working DEF Offering
    <2>3. u = CallerOf[c] /\ made[c] \in {"making", "made"}
      BY <1>0, <1>1, <2>2 DEF PlacesOK
    <2>4. \A q \in Proc : pc[q] = "create" /\ job[q] = c => q = u
      <3>1. \A q \in Proc : pc[q] = "create" => q \in User /\ Places(q)
        BY <1>0, WhoIsAt DEF Places, Offering
      <3> QED
        BY <2>3, <3>1 DEF ReachInv, PlacesOK
    <2>5. pc[u] = "deliver" /\ state'[c] = "ringing" => state[c] = "ringing" /\ expire'[c] = expire[c]
      BY <1>0, <2>4, StillRinging
    <2>6. pc[u] # "deliver" => state[c] = "none"
      BY <1>0, <2>1, <2>2 DEF CreatorOK, Creating, Offering
    <2>7. ASSUME pc'[u] = "deliver" => state'[c] = "ringing", connects' = 0, left[u] > 0
          PROVE  LockedFor(c, left[u])'
      <3>1. connects = 0
        BY <1>0, <2>7
      <3>2. pc[u] = "deliver" => state[c] = "ringing"
        BY <1>1, <2>5, <2>7 DEF Creating
      <3>3. busy[CalleeOf[c]] = c /\ busyTTL[CalleeOf[c]] = left[u]
        BY <1>0, <2>1, <2>2, <2>7, <3>1, <3>2 DEF OfferOK, LockedFor
      <3>4. state[c] \notin Over
        BY <2>6, <3>2 DEF Over
      <3>5. ~(p = CalleeOf[c] /\ pc[p] = "pending_unlock")
        BY <1>0, <3>1, Parties2 DEF ReachInv, AskOK, PendingPCs
      <3>6. busy'[CalleeOf[c]] = c /\ busyTTL'[CalleeOf[c]] = busyTTL[CalleeOf[c]]
        BY <1>0, <1>1, <2>1, <2>2, <2>3, <3>3, <3>4, <3>5, LockLasts
      <3> QED
        BY <1>1, <3>3, <3>6 DEF LockedFor
    <2>8. pc'[u] = "deliver" /\ state'[c] = "ringing" => expire'[c] = left[u]
      BY <1>0, <1>1, <2>2, <2>5 DEF OfferOK
    <2> QED
      BY <1>1, <2>2, <2>7, <2>8 DEF OfferOK, LockedFor
  <1>2. CASE u # p
    <2>1. pc'[u] = pc[u] /\ job'[u] = job[u] /\ left'[u] = left[u]
      BY <1>0, <1>2 DEF OthersStay
    <2> QED
      BY <1>1, <2>1 DEF Places
  <1>3. CASE u = p
    <2>1. Places(p)'
      BY <1>3 DEF Places
    <2>2. CASE /\ pc'[p] = "lock_caller" /\ left'[p] = RingTTL
               /\ busy'[CalleeOf[job'[p]]] = job'[p] /\ busyTTL'[CalleeOf[job'[p]]] = RingTTL
      BY <1>3, <2>2 DEF OfferOK, LockedFor
    <2>3. CASE ~(pc'[p] = "lock_caller" /\ left'[p] = RingTTL
                 /\ busy'[CalleeOf[job'[p]]] = job'[p] /\ busyTTL'[CalleeOf[job'[p]]] = RingTTL)
      <3>1. /\ Places(p) /\ job'[p] = job[p] /\ left'[p] = left[p]
            /\ pc'[p] = pc[p] \/ pc[p] \in Creating
            /\ pc'[p] = "deliver" => pc[p] = "deliver" \/ (pc[p] = "create" /\ expire'[job[p]] = left[p])
        BY <1>3, <2>1, <2>3 DEF ReachMove, PlaceMove
      <3> QED
        BY <1>1, <1>3, <3>1
    <2> QED
      BY <2>2, <2>3
  <1> QED
    BY <1>2, <1>3

LEMMA ReachKept ==
  ASSUME ReachInv, NEW p \in Proc, Move(p), ReachMove(p), NEW c \in Call
  PROVE  ReachOK(c)'
  <1> DEFINE k == CalleeOf[c]
  <1> SUFFICES ASSUME Offered(c)'
               PROVE  /\ connects' = 0 => LockedFor(c, expire[c])'
                      /\ online'[k] /\ told'[c] # "now" =>
                           /\ LockedFor(c, expire[c])'
                           /\ pc'[k] \in PendingPCs => job'[k] = c /\ pc'[k] # "pending_unlock"
                           /\ expire'[c] > 1 => ~asked'[k]
    BY DEF ReachOK
  <1>0. /\ TypeInv /\ CreationInv /\ OthersStay(p) /\ ReachOK(c)
        /\ \A u \in User : AskOK(u) /\ PlacesOK(u) /\ OfferOK(u)
        /\ connects \in Nat /\ connects' \in {connects, connects + 1}
        /\ k \in User /\ c # NoCall
        /\ state'[c] = "ringing" /\ connects' <= 1 /\ made'[c] = "offered" /\ expire'[c] > 0
    BY MoveFacts, Parties2, CallAssumption
    DEF ReachInv, ReachMove, AskMove, TypeInv, BudgetTypes, Offered
  <1> HIDE DEF k
  <1>1. CASE made[c] = "offered"
    <2>1. state[c] = "ringing" /\ expire'[c] = expire[c]
      <3>1. ~(pc[p] = "create" /\ job[p] = c)
        BY <1>0, <1>1, WhoIsAt DEF PlacesOK, Places, Offering
      <3> QED
        BY <1>0, <3>1, StillRinging
    <2>2. Offered(c)
      BY <1>0, <1>1, <2>1 DEF Offered
    <2>3. ASSUME LockedFor(c, expire[c]), ~(p = k /\ pc[p] = "pending_unlock")
          PROVE  LockedFor(c, expire[c])'
      <3>1. busy'[CalleeOf[c]] = c /\ busyTTL'[CalleeOf[c]] = busyTTL[CalleeOf[c]]
        BY <1>0, <1>1, <2>1, <2>3, LockLasts DEF LockedFor, Over, k
      <3> QED
        BY <2>1, <2>3, <3>1 DEF LockedFor
    <2>4. connects = 0 => LockedFor(c, expire[c])'
      <3> SUFFICES ASSUME connects = 0 PROVE LockedFor(c, expire[c])'
        OBVIOUS
      <3>1. LockedFor(c, expire[c])
        BY <1>0, <2>2 DEF ReachOK
      <3>2. pc[k] # "pending_unlock"
        BY <1>0 DEF AskOK, PendingPCs
      <3> QED
        BY <2>3, <3>1, <3>2
    <2>5. ASSUME online'[k], told'[c] # "now"
          PROVE  /\ LockedFor(c, expire[c])'
                 /\ pc'[k] \in PendingPCs => job'[k] = c /\ pc'[k] # "pending_unlock"
                 /\ expire'[c] > 1 => ~asked'[k]
      <3>1. told[c] # "now"
        BY <2>5 DEF ReachMove, TellMove, k
      <3>2. CASE online[k]
        <4>1. /\ LockedFor(c, expire[c])
              /\ pc[k] \in PendingPCs => job[k] = c /\ pc[k] # "pending_unlock"
              /\ expire[c] > 1 => ~asked[k]
          BY <1>0, <2>2, <3>1, <3>2 DEF ReachOK, k
        <4>2. pc[k] # "pending_unlock" /\ busy[k] = c
          BY <4>1 DEF PendingPCs, LockedFor, k
        <4>3. LockedFor(c, expire[c])'
          BY <2>3, <4>1, <4>2
        <4>4. pc'[k] \in PendingPCs => job'[k] = c /\ pc'[k] # "pending_unlock"
          <5>1. ~Absent(c)
            BY <2>1 DEF Absent
          <5> QED
            BY <1>0, <4>1, <4>2, <5>1 DEF ReachMove, AskMove
        <4>5. ASSUME expire[c] > 1, asked'[k] PROVE FALSE
          <5>1. ~asked[k] /\ k = p /\ Answers(k)
            BY <1>0, <4>1, <4>5 DEF ReachMove, AskMove
          <5>2. Ringing(c)
            BY <1>0, <2>1 DEF Ringing
          <5>3. ~(expire[c] <= 1)
            BY <1>0, <4>5 DEF TypeInv, HashTypes
          <5> QED
            BY <1>0, <2>5, <4>1, <4>2, <5>1, <5>2, <5>3 DEF Answers, PendingPCs, k
        <4> QED
          BY <2>1, <4>3, <4>4, <4>5
      <3>3. CASE ~online[k]
        <4>1. connects' = connects + 1 /\ pc'[k] = "idle" /\ asked'[k] = asked[k]
          BY <1>0, <2>5, <3>3 DEF ReachMove, AskMove
        <4>2. connects = 0
          BY <1>0, <4>1
        <4>3. ~asked'[k]
          BY <1>0, <3>3, <4>1 DEF AskOK
        <4> QED
          BY <2>4, <4>1, <4>2, <4>3 DEF PendingPCs
      <3> QED
        BY <3>2, <3>3
    <2>6. connects' = 0 => connects = 0
      BY <1>0
    <2> QED
      BY <2>4, <2>5, <2>6
  <1>2. CASE made[c] # "offered"
    <2>1. /\ pc[p] = "deliver" /\ job[p] = c
          /\ online[k] => told'[c] = "now"
          /\ UNCHANGED <<busy, busyTTL, state, expire, online, connects>>
      BY <1>0, <1>2 DEF ReachMove, TellMove, k
    <2>2. p \in User
      BY <1>0, <2>1, WhoIsAt
    <2>3. expire[c] = left[p] /\ (connects = 0 => LockedFor(c, left[p]))
      BY <1>0, <2>1, <2>2 DEF OfferOK, Offering
    <2> QED
      BY <2>1, <2>3 DEF LockedFor
  <1> QED
    BY <1>1, <1>2

LEMMA ReachTick ==
  ASSUME ReachInv, Tick
  PROVE  /\ \A u \in User : PlacesOK(u)' /\ AskOK(u)' /\ OfferOK(u)'
         /\ \A p \in Proc : EnderOK(p)'
         /\ \A c \in Call : ReachOK(c)'
  <1>0. /\ TypeInv /\ UNCHANGED <<pc, job, note, online, asked, told, made, connects>>
        /\ busy \in [User -> Call \cup {NoCall}] /\ busyTTL \in [User -> Nat]
    BY DEF ReachInv, Tick, userVars, TypeInv, LockTypes
  <1>1. \A c \in Call : /\ state'[c] = IF ttl[c] = 1 THEN "gone" ELSE state[c]
                        /\ expire[c] \in Nat /\ expire'[c] = Down(expire[c])
    BY <1>0 DEF Tick, TypeInv, HashTypes
  <1>2. \A p \in Proc : left[p] \in Nat /\ left'[p] = Down(left[p])
    BY <1>0 DEF Tick, TypeInv, ProcTypes
  <1>3. ASSUME NEW c \in Call, NEW t \in Nat, LockedFor(c, t), Down(t) > 0
        PROVE  busy'[CalleeOf[c]] = c /\ busyTTL'[CalleeOf[c]] = Down(t)
    <2>1. t > 1 /\ Down(t) = t - 1
      BY <1>3 DEF Down
    <2>2. CalleeOf[c] \in User
      BY Parties2
    <2> QED
      BY <1>0, <1>3, <2>1, <2>2 DEF Tick, LockedFor
  <1>4. ASSUME NEW u \in User PROVE PlacesOK(u)' /\ AskOK(u)'
    BY <1>0 DEF ReachInv, PlacesOK, Places, AskOK
  <1>5. ASSUME NEW u \in User PROVE OfferOK(u)'
    <2> SUFFICES ASSUME pc[u] \in Offering PROVE OfferOK(u)'
      BY <1>0 DEF OfferOK, Offering
    <2>1. u \in Proc /\ OfferOK(u)
      BY Kinds DEF ReachInv
    <2>2. PICK c \in Call : c = job[u]
      BY <1>0, <2>1, Working DEF Offering
    <2>3. PICK t \in Nat : t = left[u] /\ left'[u] = Down(t)
      BY <1>2, <2>1
    <2>4. state'[c] = "ringing" => state[c] = "ringing"
      BY <1>1
    <2>5. ASSUME pc[u] = "deliver" => state'[c] = "ringing", connects = 0, Down(t) > 0
          PROVE  busy'[CalleeOf[c]] = c /\ busyTTL'[CalleeOf[c]] = Down(t)
      <3>1. t > 0
        BY <2>5 DEF Down
      <3>2. LockedFor(c, t)
        BY <2>1, <2>2, <2>3, <2>4, <2>5, <3>1 DEF OfferOK
      <3> QED
        BY <1>3, <2>5, <3>2
    <2>6. pc[u] = "deliver" /\ state'[c] = "ringing" => expire'[c] = Down(t)
      BY <1>1, <2>1, <2>2, <2>3, <2>4 DEF OfferOK
    <2> QED
      BY <1>0, <2>2, <2>3, <2>5, <2>6 DEF OfferOK, LockedFor
  <1>6. ASSUME NEW p \in Proc PROVE EnderOK(p)'
    <2> SUFFICES ASSUME pc[p] \in {"unindex"} \cup Freeing, note[p] # NoNote
                 PROVE  state'[job[p]] \in Over
      BY <1>0 DEF EnderOK
    <2>1. PICK c \in Call : c = job[p]
      BY <1>0, Working DEF Freeing
    <2> QED
      BY <1>1, <2>1 DEF ReachInv, EnderOK, Over
  <1>7. ASSUME NEW c \in Call PROVE ReachOK(c)'
    <2> SUFFICES ASSUME Offered(c)' PROVE ReachOK(c)'
      BY DEF ReachOK
    <2>1. PICK t \in Nat : t = expire[c] /\ expire'[c] = Down(t)
      BY <1>1
    <2>2. Down(t) > 0 /\ t > 0 /\ (Down(t) > 1 => t > 1)
      BY <2>1 DEF Offered, Down
    <2>3. Offered(c)
      BY <1>0, <1>1, <2>1, <2>2 DEF Offered
    <2>4. LockedFor(c, t) => busy'[CalleeOf[c]] = c /\ busyTTL'[CalleeOf[c]] = Down(t)
      BY <1>3, <2>2
    <2> QED
      BY <1>0, <2>1, <2>2, <2>3, <2>4 DEF ReachInv, ReachOK, LockedFor
  <1> QED
    BY <1>4, <1>5, <1>6, <1>7

LEMMA ReachStep == ReachInv /\ [Next]_vars => ReachInv'
  <1> SUFFICES ASSUME ReachInv, [Next]_vars PROVE ReachInv'
    OBVIOUS
  <1>0. TypeInv' /\ CreationInv' /\ ActiveIsIndexed'
    BY IndexedStep DEF ReachInv, IndexedInv
  <1>1. CASE UNCHANGED vars
    BY <1>0, <1>1
    DEF vars, ReachInv, PlacesOK, Places, AskOK, OfferOK, EnderOK, ReachOK, Offered, LockedFor
  <1>2. CASE Tick
    BY <1>0, <1>2, ReachTick DEF ReachInv
  <1>3. ASSUME NEW p \in Proc, Move(p), ReachMove(p) PROVE ReachInv'
    <2>1. OthersStay(p)
      BY <1>3, MoveFacts DEF ReachInv
    <2> QED
      BY <1>0, <1>3, <2>1, PlacesKept, AskKept, OfferKept, EnderKept, ReachKept DEF ReachInv
  <1> QED
    BY <1>1, <1>2, <1>3, StepsAreReachMoves DEF ReachInv

(* No invite is missed: once the caller has tried to deliver it, a callee that
   is online while the call still rings, and whose connection has had its
   CALL_PENDING answered, has been told of the call on that connection, as long
   as nobody has connected anew more than once. *)
THEOREM InvitesReach == Spec => []InviteReaches
  <1>1. ReachInv => InviteReaches
    <2> SUFFICES ASSUME ReachInv, connects <= 1, NEW c \in Call,
                        made[c] = "offered", state[c] = "ringing", expire[c] > 1,
                        online[CalleeOf[c]], asked[CalleeOf[c]]
                 PROVE  told[c] = "now"
      BY DEF InviteReaches
    <2>1. Offered(c)
      BY DEF Offered, ReachInv, TypeInv, HashTypes
    <2> QED
      BY <2>1 DEF ReachInv, ReachOK
  <1> QED
    BY <1>1, ReachInit, ReachStep, PTL DEF Spec

----------------------------------------------------------------------------

(* Nobody's phone rings twice.  A call that has been created holds both locks as
   long as it rings, and two calls cannot hold one lock.  What breaks this is a
   CALL_PENDING that releases a lock during Create, for which somebody must have
   connected anew, and a HASH that was written although its Create has failed. *)

Placed(c) == made[c] \in {"made", "offered"}

MadeOK(u) == Places(u) => made[job[u]] = IF pc[u] = "deliver" THEN "made" ELSE "making"

Holds(u, c, time) == busy[u] = c /\ busyTTL[u] >= time

(* The caller's own lock, until the HASH is there. *)
HeldOK(u) ==
  connects = 0 /\ pc[u] \in {"index", "create"} /\ left[u] > 0 => Holds(u, job[u], left[u])

PlacedOK(c) ==
  connects = 0 /\ Placed(c) /\ Ringing(c) => \A u \in Parties(c) : Holds(u, c, expire[c])

StrayOK(c) == mishaps = 0 /\ state[c] = "ringing" => Placed(c)

AloneInv ==
  /\ ReachInv
  /\ \A u \in User : MadeOK(u) /\ HeldOK(u)
  /\ \A c \in Call : PlacedOK(c) /\ StrayOK(c)

(* What a step of p does to the callers' locks, to how far a call has got, and
   to p's own placing of a call. *)

CallerLocksMove(p) ==
  \A c \in Call :
    /\ busy[CallerOf[c]] = c /\ made[c] # "no"
    /\ ~(job[p] = c /\ pc[p] \in {"lock_caller", "free_caller", "pending_unlock"})
    => busy'[CallerOf[c]] = c /\ busyTTL'[CallerOf[c]] = busyTTL[CallerOf[c]]

(* The call is refused, or just begun. *)
Undecided(p, c) ==
  /\ made'[c] \in {"making", "refused"}
  /\ made[c] = "no" \/ (p \in User /\ Places(p) /\ job[p] = c /\ pc[p] # "deliver")

Creates(p, c) ==
  /\ pc[p] = "create" /\ job[p] = c /\ pc'[p] = "deliver" /\ made'[c] = "made"
  /\ UNCHANGED <<busy, busyTTL>>

Offers(p, c) == pc[p] = "deliver" /\ job[p] = c /\ made'[c] = "offered"

MadeMove(p) ==
  \A c \in Call :
    /\ made'[c] = made[c] \/ Undecided(p, c) \/ Creates(p, c) \/ Offers(p, c)
    /\ pc[p] = "create" /\ job[p] = c /\ state'[c] = "ringing" =>
         state[c] = "ringing" \/ made'[c] = "made" \/ mishaps' = mishaps + 1

GoesOn(p) ==
  /\ Places(p) /\ job'[p] = job[p] /\ left'[p] = left[p]
  /\ \/ pc'[p] = pc[p] /\ made' = made
     \/ pc[p] # "deliver" /\ pc'[p] \notin {"index", "deliver"} /\ made' = made
        /\ (pc'[p] = "create" => pc[p] = "index")
     \/ /\ pc[p] = "lock_caller" /\ pc'[p] = "index" /\ made' = made
        /\ busy'[p] = job[p] /\ busyTTL'[p] = RingTTL
     \/ Creates(p, job[p])

GoMove(p) ==
  p \in User /\ Places(p)' =>
    \/ pc[p] = "idle" /\ pc'[p] = "lock_caller" /\ made'[job'[p]] = "making"
    \/ GoesOn(p)

AloneMove(p) == CallerLocksMove(p) /\ MadeMove(p) /\ GoMove(p)

LEMMA CallerLockMoves ==
  ASSUME TypeInv, NEW p, NEW u \in User, NEW c \in Call,
         u = CallerOf[c] =>
           made[c] = "no" \/ (job[p] = c /\ pc[p] \in {"lock_caller", "free_caller", "pending_unlock"})
  PROVE  /\ UNCHANGED lockVars => CallerLocksMove(p)
         /\ LockFree(u, c) /\ Lock(u, c) => CallerLocksMove(p)
         /\ Unlock(u, c) => CallerLocksMove(p)
  <1>1. busy \in [User -> Call \cup {NoCall}] /\ busyTTL \in [User -> Nat]
    BY DEF TypeInv, LockTypes
  <1>2. \A d \in Call : CallerOf[d] \in User /\ d # NoCall
    BY Parties2
  <1>3. ASSUME NEW d \in Call, busy[CallerOf[d]] = d, made[d] # "no",
               ~(job[p] = d /\ pc[p] \in {"lock_caller", "free_caller", "pending_unlock"})
        PROVE  ~(CallerOf[d] = u /\ (busy[u] \in {NoCall, c}))
    BY <1>2, <1>3
  <1>4. UNCHANGED lockVars => CallerLocksMove(p)
    BY DEF lockVars, CallerLocksMove
  <1>5. ASSUME LockFree(u, c), Lock(u, c) PROVE CallerLocksMove(p)
    BY <1>1, <1>2, <1>3, <1>5 DEF LockFree, Lock, CallerLocksMove
  <1>6. ASSUME Unlock(u, c) PROVE CallerLocksMove(p)
    BY <1>1, <1>2, <1>3, <1>6 DEF Unlock, CallerLocksMove
  <1> QED
    BY <1>4, <1>5, <1>6

(* Most steps touch neither locks nor the making of calls. *)
LEMMA RestAlone ==
  ASSUME NEW p \in Proc, ReachMove(p), UNCHANGED <<busy, busyTTL, made>>,
         p \in User => ~Places(p) \/ ~Places(p)' \/ UNCHANGED <<pc, job, left>>,
         pc[p] # "create" \/ UNCHANGED state
  PROVE  AloneMove(p)
  <1>1. CallerLocksMove(p) /\ MadeMove(p)
    BY DEF CallerLocksMove, MadeMove
  <1>2. GoMove(p)
    <2> SUFFICES ASSUME p \in User, Places(p)' PROVE GoesOn(p)
      BY DEF GoMove
    <2>1. Places(p)
      BY DEF ReachMove, PlaceMove
    <2> QED
      BY <2>1 DEF GoesOn
  <1> QED
    BY <1>1, <1>2 DEF AloneMove

LEMMA MadeAlone ==
  ASSUME TypeInv, NEW p, NEW c \in Call, NEW to \in {"making", "refused"}, SetMade(c, to),
         made[c] = "no" \/ (p \in User /\ Places(p) /\ job[p] = c /\ pc[p] # "deliver"),
         pc[p] # "create"
  PROVE  MadeMove(p) /\ made'[c] = to
  <1>1. \A e \in Call : made'[e] = IF e = c THEN to ELSE made[e]
    BY DEF TypeInv, UserTypes, SetMade
  <1> QED
    BY <1>1 DEF MadeMove, Undecided

(* The first step of a call, and the rest of its Create. *)
LEMMA PlacingAlone ==
  ASSUME TypeInv, NEW u \in User, \A v \in User : PlacesOK(v) /\ AskOK(v)
  PROVE  /\ \A c \in Call : Invite(u, c) => AloneMove(u)
         /\ LockCaller(u) \/ UnlockCallee(u) \/ IndexCall(u) \/ CreateState(u) \/ Deliver(u) => AloneMove(u)
  <1>a. ProcTypes /\ HashTypes /\ LockTypes /\ UserTypes
    BY DEF TypeInv
  <1>b. u \in Proc /\ u \notin Sweeper
    BY Kinds
  <1>c. pc[u] \notin {"idle", "reap"} => job[u] \in Call
    BY <1>b, Working
  <1>d. pc[u] \in Creating => note[u] = NoNote
    BY <1>b DEF TypeInv, ProcOK
  <1>f. Finish(u) => ~Places(u)'
    BY <1>a, <1>b, FinishFacts DEF Finish, Places, Offering, Freeing
  <1>g. \A label \in PCs : Goto(u, label) => pc'[u] = label /\ UNCHANGED <<job, left, note>>
    BY <1>a, <1>b, GotoFacts
  <1>e. ASSUME pc[u] \in Offering \cup {"unlock_callee"}
        PROVE  Places(u) /\ job[u] \in Call /\ u = CallerOf[job[u]] /\ u # CalleeOf[job[u]]
    <2>1. Places(u) /\ job[u] \in Call /\ u = CallerOf[job[u]]
      BY <1>c, <1>e DEF Places, PlacesOK, Offering
    <2> QED
      BY <2>1, Parties2
  <1>1. ASSUME NEW c \in Call, Invite(u, c) PROVE AloneMove(u)
    <2>1. pc[u] = "idle" /\ u = CallerOf[c] /\ made[c] = "no" /\ CalleeOf[c] \in User
      BY <1>1, Parties2 DEF Invite, At
    <2>2. PICK to \in {"making", "refused"} : SetMade(c, to)
      BY <1>1 DEF Invite
    <2>3. MadeMove(u)
      BY <2>1, <2>2, MadeAlone
    <2>4. CallerLocksMove(u)
      <3>1. (LockFree(CalleeOf[c], c) /\ Lock(CalleeOf[c], c)) \/ UNCHANGED lockVars
        BY <1>1 DEF Invite
      <3> QED
        BY <2>1, <3>1, CallerLockMoves
    <2>5. CASE UNCHANGED <<pc, job, left, note, claimed, late>>
      BY <2>1, <2>3, <2>4, <2>5 DEF AloneMove, GoMove, Places, Offering, Freeing
    <2>6. CASE Start(u, c, "lock_caller", RingTTL, NoNote) /\ SetMade(c, "making")
      <3>1. pc'[u] = "lock_caller" /\ job'[u] = c
        BY <1>a, <1>b, <2>6, StartFacts, Times, NoteFacts DEF PCs
      <3>2. made'[c] = "making"
        BY <2>1, <2>6, MadeAlone
      <3> QED
        BY <2>1, <2>3, <2>4, <3>1, <3>2 DEF AloneMove, GoMove
    <2> QED
      BY <1>1, <2>5, <2>6 DEF Invite
  <1>2. ASSUME LockCaller(u) PROVE AloneMove(u)
    <2> DEFINE c == job[u]
    <2>1. /\ pc[u] = "lock_caller" /\ made' = made
          /\ \/ LockFree(u, c) /\ Lock(u, c) /\ Goto(u, "index")
             \/ Goto(u, "unlock_callee") /\ ((LockFree(u, c) /\ Lock(u, c)) \/ UNCHANGED lockVars)
      BY <1>2 DEF LockCaller, At, userVars
    <2>2. Places(u) /\ c \in Call
      BY <1>e, <2>1 DEF Offering
    <2>3. CallerLocksMove(u)
      BY <2>1, <2>2, CallerLockMoves
    <2>4. MadeMove(u)
      BY <2>1 DEF MadeMove
    <2>5. CASE Lock(u, c) /\ Goto(u, "index")
      <3>1. busy'[u] = c /\ busyTTL'[u] = RingTTL
        BY <1>a, <2>5 DEF Lock, LockTypes
      <3>2. pc'[u] = "index" /\ job'[u] = job[u] /\ left'[u] = left[u]
        BY <1>g, <2>5 DEF PCs
      <3>3. GoesOn(u)
        BY <2>1, <2>2, <3>1, <3>2 DEF GoesOn
      <3> QED
        BY <2>3, <2>4, <3>3 DEF AloneMove, GoMove
    <2>6. CASE Goto(u, "unlock_callee")
      <3>1. pc'[u] = "unlock_callee" /\ job'[u] = job[u] /\ left'[u] = left[u]
        BY <1>g, <2>6 DEF PCs
      <3>2. GoesOn(u)
        BY <2>1, <2>2, <3>1 DEF GoesOn
      <3> QED
        BY <2>3, <2>4, <3>2 DEF AloneMove, GoMove
    <2> QED
      BY <2>1, <2>5, <2>6
  <1>3. ASSUME UnlockCallee(u) PROVE AloneMove(u)
    <2>1. /\ pc[u] = "unlock_callee" /\ Unlock(CalleeOf[job[u]], job[u])
          /\ SetMade(job[u], "refused") /\ Finish(u)
      BY <1>3 DEF UnlockCallee, At
    <2>2. Places(u) /\ job[u] \in Call /\ CalleeOf[job[u]] \in User /\ CalleeOf[job[u]] # CallerOf[job[u]]
      BY <1>e, <2>1, Parties2
    <2>3. CallerLocksMove(u)
      BY <2>1, <2>2, CallerLockMoves
    <2>4. MadeMove(u)
      BY <2>1, <2>2, MadeAlone
    <2> QED
      BY <1>f, <2>1, <2>3, <2>4 DEF AloneMove, GoMove
  <1>4. ASSUME IndexCall(u) PROVE AloneMove(u)
    <2>1. /\ pc[u] = "index" /\ UNCHANGED <<made, busy, busyTTL>>
          /\ Goto(u, "create") \/ Goto(u, "free_callee")
      BY <1>4 DEF IndexCall, IndexFails, At, userVars, lockVars
    <2>2. Places(u)
      BY <1>e, <2>1 DEF Offering
    <2>3. pc'[u] \in {"create", "free_callee"} /\ job'[u] = job[u] /\ left'[u] = left[u]
      BY <1>g, <2>1 DEF PCs
    <2>4. GoesOn(u)
      BY <2>1, <2>2, <2>3 DEF GoesOn
    <2> QED
      BY <2>1, <2>4 DEF AloneMove, GoMove, CallerLocksMove, MadeMove
  <1>5. ASSUME CreateState(u) PROVE AloneMove(u)
    <2> DEFINE c == job[u]
    <2>1. /\ pc[u] = "create" /\ UNCHANGED <<busy, busyTTL>>
          /\ \/ Goto(u, "deliver") /\ SetMade(c, "made")
             \/ Mishap /\ Goto(u, "free_callee") /\ made' = made
      BY <1>5 DEF CreateState, At, userVars, lockVars
    <2>2. Places(u) /\ c \in Call
      BY <1>e, <2>1 DEF Offering
    <2>3. CallerLocksMove(u)
      BY <2>1 DEF CallerLocksMove
    <2>4. CASE Goto(u, "deliver") /\ SetMade(c, "made")
      <3>1. pc'[u] = "deliver" /\ job'[u] = job[u] /\ left'[u] = left[u]
        BY <1>g, <2>4 DEF PCs
      <3>2. \A e \in Call : made'[e] = IF e = c THEN "made" ELSE made[e]
        BY <1>a, <2>4 DEF SetMade, UserTypes
      <3>3. Creates(u, c)
        BY <2>1, <2>2, <3>1, <3>2 DEF Creates
      <3>4. MadeMove(u)
        BY <3>2, <3>3 DEF MadeMove
      <3>5. GoesOn(u)
        BY <2>2, <3>1, <3>3 DEF GoesOn
      <3> QED
        BY <2>3, <3>4, <3>5 DEF AloneMove, GoMove
    <2>5. CASE Mishap /\ Goto(u, "free_callee") /\ made' = made
      <3>1. pc'[u] = "free_callee" /\ job'[u] = job[u] /\ left'[u] = left[u]
        BY <1>g, <2>5 DEF PCs
      <3>2. GoesOn(u)
        BY <2>1, <2>2, <2>5, <3>1 DEF GoesOn
      <3>3. MadeMove(u)
        BY <2>5 DEF MadeMove, Mishap
      <3> QED
        BY <2>3, <3>2, <3>3 DEF AloneMove, GoMove
    <2> QED
      BY <2>1, <2>4, <2>5
  <1>6. ASSUME Deliver(u) PROVE AloneMove(u)
    <2> DEFINE c == job[u]
    <2>1. /\ pc[u] = "deliver" /\ UNCHANGED <<busy, busyTTL>> /\ Finish(u)
          /\ made' = [made EXCEPT ![c] = "offered"]
      BY <1>6 DEF Deliver, At, redisVars
    <2>2. \A e \in Call : made'[e] = IF e = c THEN "offered" ELSE made[e]
      BY <1>a, <2>1 DEF UserTypes
    <2>3. MadeMove(u)
      BY <2>1, <2>2 DEF MadeMove, Offers
    <2> QED
      BY <1>f, <2>1, <2>3 DEF AloneMove, GoMove, CallerLocksMove
  <1> QED
    BY <1>1, <1>2, <1>3, <1>4, <1>5, <1>6

(* A lock is released, or a call is answered or ended. *)
LEMMA EndingAlone ==
  ASSUME TypeInv, NEW p \in Proc, \A v \in User : PlacesOK(v) /\ AskOK(v), ReachMove(p)
  PROVE  /\ TerminateStep(p) => AloneMove(p)
         /\ p \in User /\ (AcceptCAS(p) \/ AcceptIndex(p)) => AloneMove(p)
         /\ p \in User /\ (ReadLock(p) \/ PendingGet(p) \/ PendingUnlock(p) \/ PendingCheck(p)) => AloneMove(p)
         /\ p \in User => \A c \in Call :
              /\ Accept(p, c) => AloneMove(p)
              /\ \A reason \in {"canceled", "rejected", "completed"} :
                   HangUp(p, c, reason) => AloneMove(p)
         /\ p \in Sweeper /\ SweeperStep(p) => AloneMove(p)
         /\ p \in User /\ (Connect(p) \/ Disconnect(p)) => AloneMove(p)
  <1>a. ProcTypes /\ HashTypes /\ LockTypes /\ UserTypes
    BY DEF TypeInv
  <1>c. pc[p] \notin {"idle", "reap"} => job[p] \in Call
    BY Working
  <1>d. /\ pc[p] \in {"terminate", "unindex", "record"} => note[p] # NoNote
        /\ p \in Sweeper /\ pc[p] \in Freeing => note[p] # NoNote
    BY DEF TypeInv, ProcOK, Freeing
  <1>f. Finish(p) => ~Places(p)'
    BY <1>a, FinishFacts, Kinds DEF Finish, Places, Offering, Freeing
  <1>g. \A label \in PCs : Goto(p, label) => pc'[p] = label /\ UNCHANGED <<job, left, note>>
    BY <1>a, GotoFacts
  (* Whoever is at such a label places no call. *)
  <1>q. ASSUME UNCHANGED <<busy, busyTTL, made>>,
               pc[p] \in {"idle", "pending_get", "pending_check", "accept", "accept_index",
                          "terminate", "unindex", "record"} \/ p \notin User
        PROVE  AloneMove(p)
    <2>1. p \in User => ~Places(p)
      BY <1>q DEF Places, Offering, Freeing
    <2>2. pc[p] # "create"
      BY <1>q, WhoIsAt
    <2> QED
      BY <1>q, <2>1, <2>2, RestAlone
  <1>1. ASSUME Terminate(p) \/ Unindex(p) \/ PublishRecord(p) PROVE AloneMove(p)
    BY <1>q, <1>1 DEF Terminate, Unindex, PublishRecord, At, lockVars, userVars, redisVars
  <1>2. ASSUME FreeCallee(p) PROVE AloneMove(p)
    <2>1. /\ pc[p] = "free_callee" /\ job[p] \in Call /\ Goto(p, "free_caller") /\ made' = made
          /\ Unlock(CalleeOf[job[p]], job[p])
      BY <1>2, <1>c DEF FreeCallee, At, userVars
    <2>2. CallerLocksMove(p) /\ MadeMove(p)
      BY <2>1, CallerLockMoves, Parties2 DEF MadeMove
    <2>3. pc'[p] = "free_caller" /\ UNCHANGED <<job, left, note>>
      BY <1>g, <2>1 DEF PCs
    <2>4. Places(p)' => GoesOn(p)
      BY <2>1, <2>3 DEF Places, GoesOn, Offering, Freeing
    <2> QED
      BY <2>2, <2>4 DEF AloneMove, GoMove
  <1>3. ASSUME FreeCaller(p) PROVE AloneMove(p)
    <2>1. /\ pc[p] = "free_caller" /\ job[p] \in Call /\ Unlock(CallerOf[job[p]], job[p])
          /\ \/ note[p] = NoNote /\ Finish(p) /\ SetMade(job[p], "refused")
             \/ note[p] # NoNote /\ Goto(p, "record") /\ made' = made
      BY <1>3, <1>c DEF FreeCaller, At, userVars
    <2>2. CallerLocksMove(p)
      BY <2>1, CallerLockMoves, Parties2
    <2>3. CASE note[p] = NoNote /\ Finish(p) /\ SetMade(job[p], "refused")
      <3>1. p \in User /\ Places(p)
        BY <1>d, <2>1, <2>3 DEF Proc, Places, Freeing
      <3>2. MadeMove(p)
        BY <2>1, <2>3, <3>1, MadeAlone
      <3> QED
        BY <1>f, <2>2, <2>3, <3>2 DEF AloneMove, GoMove
    <2>4. CASE note[p] # NoNote /\ Goto(p, "record") /\ made' = made
      <3>1. pc'[p] = "record"
        BY <1>g, <2>4 DEF PCs
      <3> QED
        BY <2>1, <2>2, <2>4, <3>1 DEF AloneMove, GoMove, MadeMove, Places, Offering, Freeing
    <2> QED
      BY <2>1, <2>3, <2>4
  <1>4. ASSUME p \in User, PendingUnlock(p) PROVE AloneMove(p)
    <2>1. /\ pc[p] = "pending_unlock" /\ job[p] \in Call /\ Unlock(p, job[p]) /\ Finish(p) /\ made' = made
      BY <1>4, <1>c DEF PendingUnlock, At, Answered
    <2>2. CallerLocksMove(p) /\ MadeMove(p)
      BY <1>4, <2>1, CallerLockMoves DEF MadeMove
    <2> QED
      BY <1>f, <2>1, <2>2 DEF AloneMove, GoMove
  <1>5. ASSUME AcceptCAS(p) \/ AcceptIndex(p) PROVE AloneMove(p)
    BY <1>q, <1>5 DEF AcceptCAS, AcceptIndex, At, lockVars, userVars
  <1>6. ASSUME NEW c \in Call,
               \/ Accept(p, c)
               \/ \E reason \in {"canceled", "rejected", "completed"} : HangUp(p, c, reason)
        PROVE  AloneMove(p)
    BY <1>q, <1>6 DEF Accept, HangUp, At, redisVars, userVars
  <1>7. ASSUME ReadLock(p) \/ PendingGet(p) \/ PendingCheck(p) PROVE AloneMove(p)
    BY <1>q, <1>7 DEF ReadLock, PendingGet, PendingCheck, At, Answered, redisVars, userVars
  <1>8. ASSUME p \in Sweeper, SweeperStep(p) PROVE AloneMove(p)
    BY <1>q, <1>8, WhoIsAt DEF SweeperStep, ClaimExpired, Reap, Reschedule, DropIndex, redisVars, lockVars, userVars
  <1>9. ASSUME Connect(p) \/ Disconnect(p) PROVE AloneMove(p)
    <2>1. UNCHANGED <<busy, busyTTL, made, pc, job, left, state>>
      BY <1>9 DEF Connect, Disconnect, Offline, redisVars
    <2> QED
      BY <2>1, RestAlone
  <1> QED
    BY <1>1, <1>2, <1>3, <1>4, <1>5, <1>6, <1>7, <1>8, <1>9 DEF TerminateStep

(* A script fails, or a process dies. *)
LEMMA LossAlone ==
  ASSUME TypeInv, NEW p \in Proc, \A v \in User : PlacesOK(v) /\ AskOK(v), ReachMove(p),
         StepLost(p) \/ Crash(p)
  PROVE  AloneMove(p)
  <1>a. ProcTypes /\ HashTypes /\ LockTypes /\ UserTypes
    BY DEF TypeInv
  <1>c. pc[p] \notin {"idle", "reap"} => job[p] \in Call
    BY Working
  <1>d. /\ pc[p] = "unindex" => note[p] # NoNote
        /\ p \in Sweeper /\ pc[p] \in Freeing => note[p] # NoNote
    BY DEF TypeInv, ProcOK, Freeing
  <1>f. ASSUME NEW c, FinishCall(p, c) PROVE ~Places(p)'
    BY <1>a, <1>f, FinishFacts, Kinds DEF Places, Offering, Freeing
  <1>g. \A label \in PCs : Goto(p, label) => pc'[p] = label /\ UNCHANGED <<job, left, note>>
    BY <1>a, GotoFacts
  <1>m. UNCHANGED <<busy, busyTTL, state>>
    BY DEF StepLost, Crash, redisVars
  <1>r. made' = made /\ (~Places(p) \/ ~Places(p)') => AloneMove(p)
    BY <1>m, RestAlone
  <1>1. CASE Crash(p)
    <2>1. made' = made /\ pc'[p] = "idle"
      BY <1>1, <1>a DEF Crash, ProcTypes, Offline, userVars
    <2> QED
      BY <1>r, <2>1 DEF Places, Offering, Freeing
  <1>2. CASE StepLost(p)
    <2>1. ASSUME made' = made, At(p, "unindex"), Goto(p, "free_callee") PROVE AloneMove(p)
      BY <1>d, <1>r, <2>1 DEF At, Places, Offering, Freeing
    <2>2. ASSUME made' = made, At(p, "free_callee"), Goto(p, "free_caller") PROVE AloneMove(p)
      <3>1. pc[p] = "free_callee" /\ pc'[p] = "free_caller" /\ UNCHANGED <<job, left, note>>
        BY <1>g, <2>2 DEF At, PCs
      <3>2. Places(p)' => GoesOn(p)
        BY <2>2, <3>1 DEF Places, GoesOn, Offering, Freeing
      <3> QED
        BY <1>m, <2>2, <3>1, <3>2 DEF AloneMove, GoMove, CallerLocksMove, MadeMove
    <2>3. ASSUME made' = made, note[p] # NoNote, Goto(p, "record") PROVE AloneMove(p)
      <3>1. pc'[p] = "record"
        BY <1>g, <2>3 DEF PCs
      <3> QED
        BY <1>r, <2>3, <3>1 DEF Places, Offering, Freeing
    <2>4. ASSUME made' = made, NEW c, FinishCall(p, c) PROVE AloneMove(p)
      BY <1>f, <1>r, <2>4
    <2>5. ASSUME At(p, "unlock_callee") \/ (At(p, "free_caller") /\ note[p] = NoNote),
                 SetMade(job[p], "refused"), Finish(p)
          PROVE  AloneMove(p)
      <3>1. Places(p) /\ p \in User /\ job[p] \in Call /\ pc[p] \notin {"deliver", "create"}
        BY <1>c, <1>d, <2>5, WhoIsAt DEF At, Places, Freeing, Proc
      <3>2. MadeMove(p)
        BY <2>5, <3>1, MadeAlone
      <3> QED
        BY <1>f, <1>m, <2>5, <3>2 DEF AloneMove, GoMove, CallerLocksMove, Finish
    <2>6. userVars' = userVars \/ Answered(p) => made' = made
      BY DEF userVars, Answered
    <2> QED
      BY <1>2, <2>1, <2>2, <2>3, <2>4, <2>5, <2>6 DEF StepLost, Finish
  <1> QED
    BY <1>1, <1>2

LEMMA StepsAreAloneMoves ==
  ASSUME TypeInv, \A v \in User : PlacesOK(v) /\ AskOK(v), Next
  PROVE  Tick \/ \E p \in Proc : Move(p) /\ ReachMove(p) /\ AloneMove(p)
  <1>2. ASSUME NEW u \in User, Connect(u) \/ Disconnect(u)
        PROVE  Move(u) /\ ReachMove(u) /\ AloneMove(u)
    <2>1. Move(u) /\ ReachMove(u)
      BY <1>2, HandlerMoves, OnlineMoves
    <2> QED
      BY <1>2, <2>1, EndingAlone, Kinds
  <1>3. ASSUME NEW u \in User, NEW c \in Call,
               \/ Invite(u, c) \/ Accept(u, c)
               \/ \E reason \in {"canceled", "rejected", "completed"} : HangUp(u, c, reason)
        PROVE  Move(u) /\ ReachMove(u) /\ AloneMove(u)
    <2>1. Move(u) /\ ReachMove(u)
      BY <1>3, HandlerMoves, PlacingMoves, EndingMoves, Kinds
    <2> QED
      BY <1>3, <2>1, PlacingAlone, EndingAlone, Kinds
  <1>4. ASSUME NEW p \in Proc, Step(p) PROVE Move(p) /\ ReachMove(p) /\ AloneMove(p)
    <2>1. CASE TerminateStep(p)
      BY <2>1, TerminateMoves, EndingMoves, EndingAlone
    <2>2. CASE p \in User /\ HandlerStep(p)
      <3>1. Move(p)
        BY <2>2, HandlerMoves
      <3>2. ReachMove(p)
        BY <2>2, PlacingMoves, PendingMoves, EndingMoves DEF HandlerStep
      <3>3. AloneMove(p)
        BY <2>2, <3>2, PlacingAlone, EndingAlone DEF HandlerStep
      <3> QED
        BY <3>1, <3>2, <3>3
    <2>3. CASE p \in Sweeper /\ SweeperStep(p)
      BY <2>3, SweeperMoves, EndingMoves, EndingAlone
    <2> QED
      BY <1>4, <2>1, <2>2, <2>3 DEF Step
  <1>5. ASSUME NEW p \in Proc, StepLost(p) \/ Crash(p) PROVE Move(p) /\ ReachMove(p) /\ AloneMove(p)
    BY <1>5, MishapMoves, LossMoves, LossAlone
  <1> QED
    BY <1>2, <1>3, <1>4, <1>5, Kinds DEF Next

LEMMA AloneInit == Init => AloneInv
  <1> SUFFICES ASSUME Init PROVE AloneInv
    OBVIOUS
  <1>1. ReachInv
    BY ReachInit
  <1>2. \A u \in User : MadeOK(u) /\ HeldOK(u)
    BY Kinds DEF Init, MadeOK, Places, HeldOK, Offering, Freeing
  <1>3. \A c \in Call : PlacedOK(c) /\ StrayOK(c)
    BY DEF Init, PlacedOK, StrayOK, Placed
  <1> QED
    BY <1>1, <1>2, <1>3 DEF AloneInv

(* Who places a call that is not there yet is its caller, and the only one. *)
LEMMA PlacerFacts ==
  ASSUME AloneInv, NEW p \in Proc, NEW c \in Call, job[p] = c,
         pc[p] \in Offering \cup {"unlock_callee"} \cup Freeing
  PROVE  \/ /\ p \in User /\ Places(p) /\ p = CallerOf[c]
            /\ made[c] = IF pc[p] = "deliver" THEN "made" ELSE "making"
         \/ ~Places(p) /\ pc[p] \in Freeing /\ state[c] \in Over
  <1>1. CASE Places(p)
    <2>1. p \in User
      BY <1>1, Kinds DEF Places, AloneInv, ReachInv, TypeInv, ProcOK, Offering, Freeing, SweeperPCs, Proc
    <2> QED
      BY <1>1, <2>1 DEF AloneInv, ReachInv, PlacesOK, MadeOK
  <1>2. CASE ~Places(p)
    BY <1>2 DEF Places, AloneInv, ReachInv, EnderOK
  <1> QED
    BY <1>1, <1>2

(* A step takes no lock from a call that rings or is about to. *)
LEMMA LocksStay ==
  ASSUME AloneInv, NEW p \in Proc, ReachMove(p), AloneMove(p), NEW c \in Call, connects = 0,
         \/ Placed(c) /\ state[c] = "ringing"
         \/ pc[CallerOf[c]] \in {"index", "create"} /\ job[CallerOf[c]] = c,
         NEW u \in Parties(c), busy[u] = c
  PROVE  busy'[u] = c /\ busyTTL'[u] = busyTTL[u]
  <1>0. /\ TypeInv /\ CallerOf[c] \in User /\ CallerOf[c] \in Proc /\ CalleeOf[c] \in User
        /\ u \in {CallerOf[c], CalleeOf[c]}
    BY Parties2, Kinds DEF AloneInv, ReachInv, Parties
  <1>1. \/ Placed(c) /\ state[c] = "ringing"
        \/ /\ pc[CallerOf[c]] \in {"index", "create"} /\ job[CallerOf[c]] = c
           /\ made[c] = "making" /\ state[c] = "none"
    <2> SUFFICES ASSUME pc[CallerOf[c]] \in {"index", "create"}, job[CallerOf[c]] = c
                 PROVE  made[c] = "making" /\ state[c] = "none"
      OBVIOUS
    <2>1. state[c] = "none"
      BY <1>0 DEF AloneInv, ReachInv, CreationInv, CreatorOK, Creating
    <2> QED
      BY <1>0, <2>1, PlacerFacts DEF Offering, Freeing
  <1>2. made[c] # "no"
    BY <1>1 DEF Placed
  <1>3. ~(job[p] = c /\ pc[p] \in {"lock_caller", "unlock_callee"} \cup Freeing)
    <2> SUFFICES ASSUME job[p] = c, pc[p] \in {"lock_caller", "unlock_callee"} \cup Freeing PROVE FALSE
      OBVIOUS
    <2>1. CASE p = CallerOf[c] /\ made[c] = IF pc[p] = "deliver" THEN "made" ELSE "making"
      BY <1>1, <2>1 DEF Placed, Freeing
    <2>2. CASE state[c] \in Over
      BY <1>1, <2>2 DEF Over
    <2> QED
      BY <2>1, <2>2, PlacerFacts DEF Offering
  <1>4. pc[p] # "pending_unlock"
    BY <1>0, WhoIsAt DEF AloneInv, ReachInv, AskOK, PendingPCs
  <1>5. CASE u = CalleeOf[c]
    BY <1>2, <1>3, <1>4, <1>5 DEF ReachMove, LocksMove, Breaks, Freeing
  <1>6. CASE u = CallerOf[c]
    BY <1>2, <1>3, <1>4, <1>6 DEF AloneMove, CallerLocksMove, Freeing
  <1> QED
    BY <1>0, <1>5, <1>6

LEMMA MadeKept ==
  ASSUME AloneInv, NEW p \in Proc, OthersStay(p), AloneMove(p), NEW u \in User
  PROVE  MadeOK(u)'
  <1> SUFFICES ASSUME Places(u)' PROVE made'[job'[u]] = IF pc'[u] = "deliver" THEN "made" ELSE "making"
    BY DEF MadeOK
  <1>0. u \in Proc /\ TypeInv /\ PlacesOK(u) /\ MadeOK(u)
    BY Kinds DEF AloneInv, ReachInv
  <1>1. CASE u # p
    <2>1. Places(u) /\ job'[u] = job[u] /\ pc'[u] = pc[u]
      BY <1>0, <1>1 DEF OthersStay, Places
    <2>2. PICK c \in Call : c = job[u]
      BY <1>0, <2>1, Working DEF Places, Offering, Freeing
    <2>3. u = CallerOf[c] /\ made[c] # "no" /\ made[c] = IF pc[u] = "deliver" THEN "made" ELSE "making"
      BY <1>0, <2>1, <2>2 DEF PlacesOK, MadeOK
    <2>4. ~(p \in User /\ Places(p) /\ job[p] = c)
      BY <1>1, <2>3 DEF AloneInv, ReachInv, PlacesOK
    <2>5. pc[p] \in {"create", "deliver"} => p \in User /\ Places(p)
      BY <1>0, WhoIsAt DEF Places, Offering
    <2>6. made'[c] = made[c]
      BY <2>3, <2>4, <2>5 DEF AloneMove, MadeMove, Undecided, Creates, Offers
    <2> QED
      BY <2>1, <2>2, <2>3, <2>6
  <1>2. CASE u = p
    <2>1. CASE pc'[u] = "lock_caller" /\ made'[job'[u]] = "making"
      BY <2>1
    <2>2. CASE GoesOn(u)
      <3>1. Places(u) /\ job'[u] = job[u]
        BY <2>2 DEF GoesOn
      <3>2. made[job[u]] = IF pc[u] = "deliver" THEN "made" ELSE "making"
        BY <1>0, <3>1 DEF MadeOK
      <3>3. CASE Creates(u, job[u])
        BY <3>1, <3>3 DEF Creates
      <3>4. CASE made' = made /\ ((pc'[u] = "deliver") <=> (pc[u] = "deliver"))
        BY <3>1, <3>2, <3>4
      <3> QED
        BY <2>2, <3>3, <3>4 DEF GoesOn
    <2> QED
      BY <1>2, <2>1, <2>2 DEF AloneMove, GoMove
  <1> QED
    BY <1>1, <1>2

LEMMA HeldKept ==
  ASSUME AloneInv, NEW p \in Proc, OthersStay(p), ReachMove(p), AloneMove(p), NEW u \in User
  PROVE  HeldOK(u)'
  <1> SUFFICES ASSUME connects' = 0, pc'[u] \in {"index", "create"}, left'[u] > 0
               PROVE  Holds(u, job[u], left[u])'
    BY DEF HeldOK
  <1>0. /\ u \in Proc /\ TypeInv /\ PlacesOK(u) /\ CreatorOK(u) /\ HeldOK(u)
        /\ busyTTL[u] \in Nat /\ left[u] \in Nat /\ RingTTL \in Nat
    BY Kinds, Times DEF AloneInv, ReachInv, CreationInv, TypeInv, LockTypes, ProcTypes
  <1>1. connects = 0
    <2>1. connects \in Nat /\ connects' \in {connects, connects + 1}
      BY <1>0, CallAssumption DEF ReachMove, AskMove, TypeInv, BudgetTypes
    <2> QED
      BY <2>1
  (* It has held the lock before. *)
  <1>2. ASSUME pc[u] \in {"index", "create"}, job'[u] = job[u], left'[u] = left[u]
        PROVE  Holds(u, job[u], left[u])'
    <2>1. PICK c \in Call : c = job[u]
      BY <1>0, <1>2, Working
    <2>2. u = CallerOf[c] /\ u \in Parties(c)
      BY <1>0, <1>2, <2>1 DEF PlacesOK, Places, Offering, Parties
    <2>3. busy[u] = c /\ busyTTL[u] >= left[u]
      BY <1>0, <1>1, <1>2, <2>1 DEF HeldOK, Holds
    <2>4. busy'[u] = c /\ busyTTL'[u] = busyTTL[u]
      BY <1>1, <1>2, <2>1, <2>2, <2>3, LocksStay
    <2> QED
      BY <1>2, <2>1, <2>3, <2>4 DEF Holds
  <1>3. CASE u # p
    <2>1. pc'[u] = pc[u] /\ job'[u] = job[u] /\ left'[u] = left[u]
      BY <1>0, <1>3 DEF OthersStay
    <2> QED
      BY <1>2, <2>1
  <1>4. CASE u = p
    <2>1. GoesOn(u)
      BY <1>4 DEF AloneMove, GoMove, Places, Offering
    <2>2. job'[u] = job[u] /\ left'[u] = left[u]
      BY <2>1 DEF GoesOn
    <2>3. CASE pc[u] \in {"index", "create"}
      BY <1>2, <2>2, <2>3
    <2>4. CASE pc[u] = "lock_caller" /\ busy'[u] = job[u] /\ busyTTL'[u] = RingTTL
      <3>1. left[u] <= RingTTL
        BY <1>0, <2>4 DEF CreatorOK, Creating
      <3> QED
        BY <1>0, <2>2, <2>4, <3>1 DEF Holds
    <2> QED
      BY <2>1, <2>3, <2>4 DEF GoesOn, Creates
  <1> QED
    BY <1>3, <1>4

LEMMA PlacedKept ==
  ASSUME AloneInv, NEW p \in Proc, Move(p), ReachMove(p), AloneMove(p), NEW c \in Call
  PROVE  PlacedOK(c)'
  <1> SUFFICES ASSUME connects' = 0, Placed(c)', Ringing(c)', NEW u \in Parties(c)
               PROVE  Holds(u, c, expire[c])'
    BY DEF PlacedOK, Parties
  <1>0. /\ TypeInv /\ PlacedOK(c) /\ u \in {CallerOf[c], CalleeOf[c]} /\ u \in User
        /\ state'[c] = "ringing" /\ expire'[c] > 0
    BY Parties2 DEF AloneInv, ReachInv, Parties, Ringing
  <1>1. connects = 0
    <2>1. connects \in Nat /\ connects' \in {connects, connects + 1}
      BY <1>0, CallAssumption DEF ReachMove, AskMove, TypeInv, BudgetTypes
    <2> QED
      BY <2>1
  <1>2. \/ state[c] = "ringing" /\ expire'[c] = expire[c]
        \/ pc[p] = "create" /\ job[p] = c /\ expire'[c] = left[p]
    BY <1>0, StillRinging
  <1>3. pc[p] \in {"create", "deliver"} /\ job[p] = c =>
          /\ p \in User /\ p = CallerOf[c]
          /\ made[c] = IF pc[p] = "deliver" THEN "made" ELSE "making"
    BY PlacerFacts DEF Offering, Freeing
  <1>4. CASE Placed(c)
    <2>1. state[c] = "ringing" /\ expire'[c] = expire[c]
      BY <1>2, <1>3, <1>4 DEF Placed
    <2>2. busy[u] = c /\ busyTTL[u] >= expire[c]
      BY <1>0, <1>1, <1>4, <2>1 DEF PlacedOK, Ringing, Holds
    <2>3. busy'[u] = c /\ busyTTL'[u] = busyTTL[u]
      BY <1>1, <1>4, <2>1, <2>2, LocksStay
    <2> QED
      BY <2>1, <2>2, <2>3 DEF Holds
  <1>5. CASE ~Placed(c)
    <2>1. Creates(p, c)
      BY <1>3, <1>5 DEF AloneMove, MadeMove, Placed, Undecided, Offers
    <2>2. p \in User /\ p = CallerOf[c] /\ pc[p] = "create" /\ job[p] = c /\ UNCHANGED <<busy, busyTTL>>
      BY <1>3, <2>1 DEF Creates
    <2>3. state[c] = "none"
      BY <2>2 DEF AloneInv, ReachInv, CreationInv, CreatorOK, Creating
    <2>4. expire'[c] = left[p] /\ left[p] > 0 /\ left[p] \in Nat
      BY <1>0, <1>2, <2>2, <2>3 DEF TypeInv, ProcTypes
    <2>5. CASE u = CallerOf[c]
      BY <1>1, <2>2, <2>4, <2>5 DEF AloneInv, HeldOK, Holds
    <2>6. CASE u = CalleeOf[c]
      <3>1. LockedFor(c, left[p])
        BY <1>1, <2>2, <2>4 DEF AloneInv, ReachInv, OfferOK, Offering
      <3> QED
        BY <2>2, <2>4, <2>6, <3>1 DEF LockedFor, Holds
    <2> QED
      BY <1>0, <2>5, <2>6
  <1> QED
    BY <1>4, <1>5

LEMMA StrayKept ==
  ASSUME AloneInv, NEW p \in Proc, Move(p), AloneMove(p), NEW c \in Call
  PROVE  StrayOK(c)'
  <1> SUFFICES ASSUME mishaps' = 0, state'[c] = "ringing" PROVE made'[c] \in {"made", "offered"}
    BY DEF StrayOK, Placed
  <1>0. TypeInv /\ StrayOK(c)
    BY DEF AloneInv, ReachInv
  <1>1. mishaps = 0 /\ mishaps' # mishaps + 1
    <2>1. mishaps \in Nat /\ mishaps' \in {mishaps, mishaps + 1}
      BY <1>0, MoveFacts
    <2> QED
      BY <2>1
  <1>2. CASE state[c] = "ringing"
    <2>1. made[c] \in {"made", "offered"}
      BY <1>0, <1>1, <1>2 DEF StrayOK, Placed
    <2>2. ~Undecided(p, c)
      <3>1. p \in User /\ Places(p) /\ job[p] = c /\ pc[p] # "deliver" => made[c] = "making"
        BY DEF AloneInv, MadeOK
      <3> QED
        BY <2>1, <3>1 DEF Undecided
    <2> QED
      BY <2>1, <2>2 DEF AloneMove, MadeMove, Creates, Offers
  <1>3. CASE state[c] # "ringing"
    <2>1. pc[p] = "create" /\ job[p] = c
      BY <1>0, <1>3, StillRinging
    <2> QED
      BY <1>1, <1>3, <2>1 DEF AloneMove, MadeMove
  <1> QED
    BY <1>2, <1>3

LEMMA AloneTick ==
  ASSUME AloneInv, Tick
  PROVE  /\ \A u \in User : MadeOK(u)' /\ HeldOK(u)'
         /\ \A c \in Call : PlacedOK(c)' /\ StrayOK(c)'
  <1>0. /\ TypeInv /\ UNCHANGED <<pc, job, note, made, connects, mishaps>>
        /\ busy \in [User -> Call \cup {NoCall}] /\ busyTTL \in [User -> Nat]
    BY DEF AloneInv, ReachInv, Tick, userVars, TypeInv, LockTypes
  <1>1. \A c \in Call : /\ state'[c] = IF ttl[c] = 1 THEN "gone" ELSE state[c]
                        /\ expire[c] \in Nat /\ expire'[c] = Down(expire[c])
    BY <1>0 DEF Tick, TypeInv, HashTypes
  <1>2. \A p \in Proc : left[p] \in Nat /\ left'[p] = Down(left[p])
    BY <1>0 DEF Tick, TypeInv, ProcTypes
  <1>3. ASSUME NEW u \in User, NEW c, NEW t \in Nat, Holds(u, c, t), Down(t) > 0
        PROVE  busy'[u] = c /\ busyTTL'[u] >= Down(t)
    <2>1. t > 1 /\ Down(t) = t - 1
      BY <1>3 DEF Down
    <2>2. busyTTL[u] \in Nat /\ busyTTL[u] >= t
      BY <1>0, <1>3 DEF Holds
    <2>3. busyTTL[u] # 1 /\ Down(busyTTL[u]) = busyTTL[u] - 1
      BY <2>1, <2>2 DEF Down
    <2>4. busy'[u] = busy[u] /\ busyTTL'[u] = Down(busyTTL[u])
      BY <1>0, <2>3 DEF Tick
    <2> QED
      BY <1>3, <2>1, <2>2, <2>3, <2>4 DEF Holds
  <1>4. \A t \in Nat : Down(t) > 0 => t > 0
    BY DEF Down
  <1>5. ASSUME NEW u \in User PROVE MadeOK(u)' /\ HeldOK(u)'
    <2>1. MadeOK(u)'
      BY <1>0 DEF AloneInv, MadeOK, Places
    <2>2. PICK t \in Nat : t = left[u] /\ left'[u] = Down(t)
      BY <1>2, Kinds
    <2>3. ASSUME connects = 0, pc[u] \in {"index", "create"}, Down(t) > 0
          PROVE  busy'[u] = job[u] /\ busyTTL'[u] >= Down(t)
      <3>1. Holds(u, job[u], t)
        BY <1>4, <2>2, <2>3 DEF AloneInv, HeldOK
      <3> QED
        BY <1>3, <2>3, <3>1
    <2> QED
      BY <1>0, <2>1, <2>2, <2>3 DEF HeldOK, Holds
  <1>6. ASSUME NEW c \in Call PROVE PlacedOK(c)' /\ StrayOK(c)'
    <2>1. state'[c] = "ringing" => state[c] = "ringing"
      BY <1>1
    <2>2. StrayOK(c)'
      BY <1>0, <2>1 DEF AloneInv, StrayOK, Placed
    <2>3. PICK t \in Nat : t = expire[c] /\ expire'[c] = Down(t)
      BY <1>1
    <2>4. ASSUME connects = 0, Placed(c), state'[c] = "ringing", Down(t) > 0, NEW u \in Parties(c)
          PROVE  busy'[u] = c /\ busyTTL'[u] >= Down(t)
      <3>1. u \in User
        BY Parties2 DEF Parties
      <3>2. Holds(u, c, t)
        BY <1>4, <2>1, <2>3, <2>4 DEF AloneInv, PlacedOK, Ringing
      <3> QED
        BY <1>3, <2>4, <3>1, <3>2
    <2>5. PlacedOK(c)'
      BY <1>0, <2>3, <2>4 DEF PlacedOK, Placed, Ringing, Holds, Parties
    <2> QED
      BY <2>2, <2>5
  <1> QED
    BY <1>5, <1>6

LEMMA AloneStep == AloneInv /\ [Next]_vars => AloneInv'
  <1> SUFFICES ASSUME AloneInv, [Next]_vars PROVE AloneInv'
    OBVIOUS
  <1>0. ReachInv'
    BY ReachStep DEF AloneInv
  <1>1. CASE UNCHANGED vars
    <2>1. \A u \in User : MadeOK(u)' /\ HeldOK(u)'
      BY <1>1 DEF vars, AloneInv, MadeOK, Places, HeldOK, Holds
    <2>2. \A c \in Call : PlacedOK(c)' /\ StrayOK(c)'
      BY <1>1 DEF vars, AloneInv, PlacedOK, Placed, Ringing, Parties, Holds, StrayOK
    <2> QED
      BY <1>0, <2>1, <2>2 DEF AloneInv
  <1>2. CASE Tick
    BY <1>0, <1>2, AloneTick DEF AloneInv
  <1>3. ASSUME NEW p \in Proc, Move(p), ReachMove(p), AloneMove(p) PROVE AloneInv'
    <2>1. OthersStay(p)
      BY <1>3, MoveFacts DEF AloneInv, ReachInv
    <2> QED
      BY <1>0, <1>3, <2>1, MadeKept, HeldKept, PlacedKept, StrayKept DEF AloneInv
  <1> QED
    BY <1>1, <1>2, <1>3, StepsAreAloneMoves DEF AloneInv, ReachInv

(* Nobody's phone rings for two calls at once, as long as nobody has connected
   anew: not for two calls whose Create has succeeded, whatever crashed or
   failed, and not for any two calls if nothing has. *)
THEOREM LocksKeepCallsApart ==
  Spec => [](connects = 0 =>
    /\ \A c, d \in Call : Placed(c) /\ Placed(d) /\ Ringing(c) /\ Ringing(d)
                          /\ Parties(c) \cap Parties(d) # {} => c = d
    /\ mishaps = 0 => RingsAlone)
  <1> DEFINE Apart == connects = 0 =>
        /\ \A c, d \in Call : Placed(c) /\ Placed(d) /\ Ringing(c) /\ Ringing(d)
                              /\ Parties(c) \cap Parties(d) # {} => c = d
        /\ mishaps = 0 => RingsAlone
  <1>1. AloneInv => Apart
    <2> SUFFICES ASSUME AloneInv, connects = 0 PROVE Apart
      OBVIOUS
    <2>1. ASSUME NEW c \in Call, NEW d \in Call, Placed(c), Placed(d), Ringing(c), Ringing(d),
                 NEW u \in Parties(c) \cap Parties(d)
          PROVE  c = d
      BY <2>1 DEF AloneInv, PlacedOK, Holds
    <2>2. mishaps = 0 => \A c \in Call : Ringing(c) => Placed(c)
      BY DEF AloneInv, StrayOK, Ringing
    <2> QED
      BY <2>1, <2>2 DEF RingsAlone
  <1> HIDE DEF Apart
  <1>2. Spec => []Apart
    BY <1>1, AloneInit, AloneStep, PTL DEF Spec
  <1> QED
    BY <1>2 DEF Apart
=============================================================================
