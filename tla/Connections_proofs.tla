-------------------------- MODULE Connections_proofs --------------------------
(***************************************************************************)
(* Theorems about Connections, for any number of nodes and connections and *)
(* any number of faults and stops.                                         *)
(***************************************************************************)
EXTENDS Connections, TLAPS

Kept(c) == conn[c].pc \in {"registering", "serving"}
Heard(c) == conn[c].open /\ ~conn[c].kicked
Absent(c) == conn[c].pc \in {"idle", "gone"}

(* A connection that is handled belongs to a node whose process runs. *)
Placed ==
    \A c \in Conn : IF Absent(c) THEN conn[c].node = None
                    ELSE conn[c].node \in Node /\ mode[conn[c].node] # "down"

(* Of two connections between LoadAndDelete and Store both have noticed;   *)
(* and one that its node has stored already was kicked, unless it overlaps *)
(* the one that is about to be stored.                                     *)
OverlapNoticed ==
    \A c, d \in Conn :
        /\ c # d /\ conn[d].pc = "storing" /\ conn[c].node = conn[d].node
        /\ \/ conn[c].pc = "storing" /\ conn[c].open
           \/ Kept(c) /\ Heard(c) /\ mode[conn[c].node] = "up"
        => conn[c].raced

OrphanInv == TypeOK /\ Placed /\ OverlapNoticed /\ OrphansOnlyByOverlap

LEMMA OrphanInit == Init => OrphanInv
  BY ConnectionsAssumption
  DEF Init, OrphanInv, TypeOK, Placed, OverlapNoticed, OrphansOnlyByOverlap, Goroutine, PCs,
      Unborn, Absent, Kept, Heard

(* What a step that neither stores nor evicts, and starts no node, may do  *)
(* to a connection.                                                        *)
Ages(c) ==
    \/ conn'[c] = Gone
    \/ /\ conn'[c].node = conn[c].node
       /\ conn[c].node \in Node => mode'[conn[c].node] # "down"
       /\ \/ conn'[c].pc = conn[c].pc
          \/ Kept(c) /\ conn'[c].pc \in {"serving", "removing"}
          \/ conn[c].pc = "removing" /\ conn'[c].pc = "looking"
          \/ conn[c].pc = "looking" /\ conn'[c].pc = "unregistering"
       /\ conn'[c].open => /\ conn[c].open /\ conn'[c].raced = conn[c].raced
                           /\ conn[c].kicked => conn'[c].kicked

LEMMA AgeingKeeps ==
  ASSUME OrphanInv, TypeOK',
         \A n \in Node : mode'[n] = "up" => mode[n] = "up",
         \A c \in Conn : Ages(c),
         \A c \in Conn : Kept(c)' /\ Heard(c)' /\ mode'[conn'[c].node] = "up"
                           => local'[conn'[c].node] = local[conn'[c].node]
                              \/ local[conn'[c].node] # c
  PROVE  OrphanInv'
  <1>1. Placed'
    BY DEF OrphanInv, Placed, Ages, Absent, Kept, Gone, Unborn
  <1>2. \A c \in Conn :
          /\ conn'[c].pc = "storing" => /\ conn[c].pc = "storing" /\ conn'[c].node = conn[c].node
                                        /\ conn'[c].open => conn[c].open /\ conn'[c].raced = conn[c].raced
          /\ Kept(c)' /\ Heard(c)' =>
               /\ Kept(c) /\ Heard(c) /\ conn'[c].node = conn[c].node
               /\ conn'[c].raced = conn[c].raced /\ conn[c].node \in Node
    BY DEF Ages, Kept, Heard, Gone, Unborn, OrphanInv, Placed, Absent
  <1>3. OverlapNoticed'
    BY <1>2 DEF OrphanInv, OverlapNoticed
  <1>4. OrphansOnlyByOverlap'
    BY <1>2 DEF OrphanInv, OrphansOnlyByOverlap, Kept, Heard
  <1> QED
    BY <1>1, <1>3, <1>4 DEF OrphanInv

(* What the helpers do to the connections. *)
LEMMA GotoFacts ==
  ASSUME TypeOK, NEW c \in Conn, NEW step \in PCs, conn' = Goto(c, step)
  PROVE  /\ conn' \in [Conn -> Goroutine]
         /\ conn'[c].pc = step /\ conn'[c].node = conn[c].node /\ conn'[c].open = conn[c].open
         /\ conn'[c].raced = conn[c].raced /\ conn'[c].kicked = conn[c].kicked
         /\ \A d \in Conn \ {c} : conn'[d] = conn[d]
  <1>1. conn[c] \in Goroutine /\ conn' = [conn EXCEPT ![c] = [conn[c] EXCEPT !.pc = step]]
    BY DEF TypeOK, Goto
  <1>2. [conn[c] EXCEPT !.pc = step] \in Goroutine
    BY <1>1 DEF Goroutine
  <1> QED
    BY <1>1, <1>2 DEF TypeOK, Goroutine

LEMMA KickFacts ==
  ASSUME TypeOK, NEW c \in Conn \cup {None}
  PROVE  /\ Kick(conn, c) \in [Conn -> Goroutine]
         /\ \A d \in Conn :
              /\ Kick(conn, c)[d].pc = conn[d].pc /\ Kick(conn, c)[d].node = conn[d].node
              /\ Kick(conn, c)[d].open = conn[d].open /\ Kick(conn, c)[d].raced = conn[d].raced
              /\ conn[d].kicked => Kick(conn, c)[d].kicked
              /\ d = c /\ conn[d].open => Kick(conn, c)[d].kicked
  <1>1. CASE c # None /\ conn[c].open
    <2>1. c \in Conn /\ Kick(conn, c) = [conn EXCEPT ![c] = [conn[c] EXCEPT !.kicked = TRUE]]
      BY <1>1 DEF Kick, TypeOK
    <2>2. conn[c] \in Goroutine
      BY <2>1 DEF TypeOK
    <2>3. [conn[c] EXCEPT !.kicked = TRUE] \in Goroutine
      BY <2>2 DEF Goroutine
    <2> QED
      BY <2>1, <2>2, <2>3 DEF TypeOK, Goroutine
  <1>2. CASE ~(c # None /\ conn[c].open)
    BY <1>2, ConnectionsAssumption DEF Kick, TypeOK
  <1> QED
    BY <1>1, <1>2

LEMMA CloseFacts ==
  ASSUME TypeOK, NEW c \in Conn, conn' = Close(conn, c)
  PROVE  /\ conn' \in [Conn -> Goroutine]
         /\ conn'[c].pc = conn[c].pc /\ conn'[c].node = conn[c].node /\ ~conn'[c].open
         /\ \A d \in Conn \ {c} : conn'[d] = conn[d]
  <1> DEFINE new == [Unborn EXCEPT !.pc = conn[c].pc, !.node = conn[c].node]
  <1>1. /\ new \in Goroutine /\ new.pc = conn[c].pc /\ new.node = conn[c].node /\ ~new.open
    BY DEF TypeOK, Goroutine, Unborn
  <1>2. conn' = [conn EXCEPT ![c] = new]
    BY DEF Close
  <1> HIDE DEF new
  <1> QED
    BY <1>1, <1>2 DEF TypeOK

LEMMA GoneFacts ==
  ASSUME TypeOK, NEW c \in Conn, conn' = [conn EXCEPT ![c] = Gone]
  PROVE  /\ conn' \in [Conn -> Goroutine] /\ conn'[c] = Gone
         /\ \A d \in Conn \ {c} : conn'[d] = conn[d]
  <1>1. Gone \in Goroutine
    BY DEF Gone, Goroutine, Unborn, PCs
  <1> QED
    BY <1>1 DEF TypeOK

LEMMA OrphanStep == OrphanInv /\ [Next]_vars => OrphanInv'
  <1> SUFFICES ASSUME OrphanInv, [Next]_vars PROVE OrphanInv'
    OBVIOUS
  <1>t. TypeOK /\ Placed
    BY DEF OrphanInv
  <1>p. \A c \in Conn : conn[c].node \in Node => mode[conn[c].node] # "down"
    BY <1>t, ConnectionsAssumption DEF Placed
  <1>0. CASE UNCHANGED vars
    BY <1>0
    DEF vars, OrphanInv, TypeOK, Placed, OverlapNoticed, OrphansOnlyByOverlap, Absent, Kept, Heard
  (* Steps of the goroutine that serves a connection. *)
  <1>1. ASSUME NEW c \in Conn, RegisterUser(c) PROVE OrphanInv'
    <2>1. /\ conn' = Goto(c, "serving") /\ Kept(c) /\ UNCHANGED <<mode, local, kicker, beat, faults, stops>>
          /\ conn[c].node \in Node
      BY <1>1, <1>t DEF RegisterUser, Kept, Placed, Absent
    <2>2. TypeOK'
      BY <1>1, <1>t, <2>1, GotoFacts DEF RegisterUser, TypeOK, PCs
    <2>3. \A d \in Conn : Ages(d)
      BY <1>t, <1>p, <2>1, GotoFacts DEF Ages, PCs
    <2> QED
      BY <2>1, <2>2, <2>3, AgeingKeeps
  <1>2. ASSUME NEW c \in Conn, RegisterFails(c) PROVE OrphanInv'
    <2>1. /\ conn' = [conn EXCEPT ![c] = Gone] /\ UNCHANGED <<mode, route, notices, kicker, beat, stops>>
          /\ \/ local' = local
             \/ local[conn[c].node] = c /\ local' = [local EXCEPT ![conn[c].node] = None]
      BY <1>2 DEF RegisterFails
    <2>2. TypeOK'
      <3>1. local' \in [Node -> Conn \cup {None}]
        BY <1>t, <2>1 DEF TypeOK
      <3>2. faults' \in 0..MaxFaults
        BY <1>2, <1>t, ConnectionsAssumption DEF RegisterFails, TypeOK
      <3> QED
        BY <1>t, <2>1, <3>1, <3>2, GoneFacts DEF TypeOK
    <2>3. \A d \in Conn : Ages(d)
      BY <1>t, <1>p, <2>1, GoneFacts DEF Ages
    <2>4. ~Kept(c)'
      BY <1>t, <2>1, GoneFacts DEF Kept, Gone, Unborn
    <2>5. \A n \in Node : local'[n] = local[n] \/ local[n] = c
      BY <1>t, <2>1 DEF TypeOK
    <2>6. \A d \in Conn : Kept(d)' => conn'[d].node \in Node
      BY <2>3, <1>t DEF Ages, Kept, Placed, Absent, Gone, Unborn
    <2> QED
      BY <2>1, <2>2, <2>3, <2>4, <2>5, <2>6, AgeingKeeps
  <1>3. ASSUME NEW c \in Conn, ClientLeaves(c) \/ KickFires(c) PROVE OrphanInv'
    <2>1. conn' = Close(conn, c) /\ UNCHANGED <<mode, local, route, notices, kicker, beat, faults, stops>>
      BY <1>3 DEF ClientLeaves, KickFires
    <2>2. TypeOK'
      BY <1>t, <2>1, CloseFacts DEF TypeOK
    <2>3. \A d \in Conn : Ages(d)
      BY <1>t, <1>p, <2>1, CloseFacts DEF Ages
    <2> QED
      BY <2>1, <2>2, <2>3, AgeingKeeps
  <1>4. ASSUME NEW c \in Conn, ReadPumpEnds(c) PROVE OrphanInv'
    <2>1. /\ conn' = Goto(c, "removing") /\ Kept(c)
          /\ UNCHANGED <<mode, local, route, notices, kicker, beat, faults, stops>>
      BY <1>4 DEF ReadPumpEnds, Kept
    <2>2. TypeOK'
      BY <1>t, <2>1, GotoFacts DEF TypeOK, PCs
    <2>3. \A d \in Conn : Ages(d)
      BY <1>t, <1>p, <2>1, GotoFacts DEF Ages, PCs
    <2> QED
      BY <2>1, <2>2, <2>3, AgeingKeeps
  <1>5. ASSUME NEW c \in Conn, RemoveConnection(c) PROVE OrphanInv'
    <2>1. /\ conn' = Goto(c, "looking") /\ conn[c].pc = "removing"
          /\ UNCHANGED <<mode, route, notices, kicker, beat, faults, stops>>
          /\ \/ local' = local
             \/ local[conn[c].node] = c /\ local' = [local EXCEPT ![conn[c].node] = None]
      BY <1>5 DEF RemoveConnection
    <2>2. /\ local' \in [Node -> Conn \cup {None}]
          /\ \A n \in Node : local'[n] = local[n] \/ local[n] = c
      BY <1>t, <2>1 DEF TypeOK
    <2>3. TypeOK'
      BY <1>t, <2>1, <2>2, GotoFacts DEF TypeOK, PCs
    <2>4. \A d \in Conn : Ages(d)
      BY <1>t, <1>p, <2>1, GotoFacts DEF Ages, PCs
    <2>5. ~Kept(c)'
      BY <1>t, <2>1, GotoFacts DEF Kept, PCs
    <2>6. \A d \in Conn : Kept(d)' => conn'[d].node \in Node
      BY <2>4, <1>t DEF Ages, Kept, Placed, Absent, Gone, Unborn
    <2> QED
      BY <2>1, <2>2, <2>3, <2>4, <2>5, <2>6, AgeingKeeps
  <1>6. ASSUME NEW c \in Conn, LookForNewer(c) PROVE OrphanInv'
    <2>1. /\ conn[c].pc = "looking" /\ UNCHANGED <<mode, local, route, notices, kicker, beat, faults, stops>>
          /\ conn' = Goto(c, "unregistering") \/ conn' = [conn EXCEPT ![c] = Gone]
      BY <1>6 DEF LookForNewer
    <2>2. TypeOK'
      BY <1>t, <2>1, GotoFacts, GoneFacts DEF TypeOK, PCs
    <2>3. \A d \in Conn : Ages(d)
      <3>1. CASE conn' = Goto(c, "unregistering")
        BY <1>t, <1>p, <2>1, <3>1, GotoFacts DEF Ages, PCs
      <3>2. CASE conn' = [conn EXCEPT ![c] = Gone]
        BY <1>t, <1>p, <2>1, <3>2, GoneFacts DEF Ages
      <3> QED
        BY <2>1, <3>1, <3>2
    <2> QED
      BY <2>1, <2>2, <2>3, AgeingKeeps
  <1>7. ASSUME NEW c \in Conn, UnregisterUser(c) PROVE OrphanInv'
    <2>1. /\ conn' = [conn EXCEPT ![c] = Gone] /\ UNCHANGED <<mode, local, notices, kicker, beat, faults, stops>>
          /\ route' \in {None, route}
      BY <1>7 DEF UnregisterUser
    <2>2. TypeOK'
      BY <1>t, <2>1, GoneFacts DEF TypeOK
    <2>3. \A d \in Conn : Ages(d)
      BY <1>t, <1>p, <2>1, GoneFacts DEF Ages
    <2> QED
      BY <2>1, <2>2, <2>3, AgeingKeeps
  (* The two halves of AddConnection. *)
  <1>8. ASSUME NEW c \in Conn, NEW n \in Node, Evict(c, n) PROVE OrphanInv'
    <2> DEFINE rivals == {d \in At(n, "storing") : conn[d].open}
               mine == [Unborn EXCEPT !.pc = "storing", !.node = n, !.open = TRUE,
                                      !.raced = At(n, "storing") # {}]
               told == Kick(conn, local[n])
    <2>1. /\ conn[c].pc = "idle" /\ mode[n] # "down"
          /\ conn' = [d \in Conn |-> IF d = c THEN mine
                                     ELSE IF d \in rivals THEN [told[d] EXCEPT !.raced = TRUE]
                                     ELSE told[d]]
          /\ local' = [local EXCEPT ![n] = None]
          /\ UNCHANGED <<mode, route, notices, kicker, beat, faults, stops>>
      BY <1>8 DEF Evict
    <2>2. /\ mine \in Goroutine /\ mine.pc = "storing" /\ mine.node = n
          /\ mine.raced = (At(n, "storing") # {})
      BY DEF Goroutine, Unborn, PCs
    <2>3. \A d \in Conn : /\ told[d] \in Goroutine
                          /\ told[d].pc = conn[d].pc /\ told[d].node = conn[d].node
                          /\ told[d].open = conn[d].open /\ told[d].raced = conn[d].raced
                          /\ conn[d].kicked => told[d].kicked
                          /\ d = local[n] /\ conn[d].open => told[d].kicked
      <3>1. local[n] \in Conn \cup {None}
        BY <1>t DEF TypeOK
      <3> QED
        BY <1>t, <3>1, KickFacts
    <2> HIDE DEF told, mine
    <2>4. \A d \in Conn : /\ [told[d] EXCEPT !.raced = TRUE] \in Goroutine
                          /\ [told[d] EXCEPT !.raced = TRUE].raced
                          /\ [told[d] EXCEPT !.raced = TRUE].pc = told[d].pc
                          /\ [told[d] EXCEPT !.raced = TRUE].node = told[d].node
                          /\ [told[d] EXCEPT !.raced = TRUE].open = told[d].open
                          /\ [told[d] EXCEPT !.raced = TRUE].kicked = told[d].kicked
      BY <2>3 DEF Goroutine
    <2>5. conn'[c] = mine
      BY <2>1
    <2>6. \A d \in Conn \ {c} :
            /\ conn'[d] \in Goroutine
            /\ conn'[d].pc = conn[d].pc /\ conn'[d].node = conn[d].node
            /\ conn'[d].open = conn[d].open
            /\ conn[d].kicked => conn'[d].kicked
            /\ d = local[n] /\ conn[d].open => conn'[d].kicked
            /\ conn[d].raced => conn'[d].raced
            /\ d \in rivals => conn'[d].raced
      BY <2>1, <2>3, <2>4
    <2>7. conn' \in [Conn -> Goroutine]
      BY <2>1, <2>2, <2>5, <2>6
    <2>8. TypeOK'
      BY <1>t, <2>1, <2>7 DEF TypeOK
    <2>9. Placed'
      <3> SUFFICES ASSUME NEW d \in Conn
                   PROVE  IF Absent(d)' THEN conn'[d].node = None
                          ELSE conn'[d].node \in Node /\ mode'[conn'[d].node] # "down"
        BY DEF Placed
      <3>1. CASE d = c
        BY <2>1, <2>2, <2>5, <3>1 DEF Absent
      <3>2. CASE d # c
        <4>1. d \in Conn \ {c}
          BY <3>2
        <4>2. conn'[d].pc = conn[d].pc /\ conn'[d].node = conn[d].node
          BY <2>6, <4>1
        <4>3. mode' = mode
          BY <2>1
        <4>4. CASE Absent(d)
          <5>1. conn[d].node = None
            BY <1>t, <4>4 DEF Placed
          <5> QED
            BY <4>2, <4>4, <5>1 DEF Absent
        <4>5. CASE ~Absent(d)
          <5>1. conn[d].node \in Node /\ mode[conn[d].node] # "down"
            BY <1>t, <4>5 DEF Placed
          <5> QED
            BY <4>2, <4>3, <4>5, <5>1 DEF Absent
        <4> QED
          BY <4>4, <4>5
      <3> QED
        BY <3>1, <3>2
    <2>10. OverlapNoticed'
      <3> SUFFICES ASSUME NEW a \in Conn, NEW b \in Conn, a # b, conn'[b].pc = "storing",
                          conn'[a].node = conn'[b].node,
                          \/ conn'[a].pc = "storing" /\ conn'[a].open
                          \/ Kept(a)' /\ Heard(a)' /\ mode'[conn'[a].node] = "up"
                   PROVE  conn'[a].raced
        BY DEF OverlapNoticed
      <3>1. CASE a = c
        <4>1. b \in At(n, "storing")
          BY <2>2, <2>5, <2>6, <3>1 DEF At
        <4> QED
          BY <2>2, <2>5, <3>1, <4>1
      <3>2. CASE b = c
        <4>1. conn[a].node = n /\ a # c
          BY <2>2, <2>5, <2>6, <3>2
        <4>2. CASE conn'[a].pc = "storing" /\ conn'[a].open
          BY <2>6, <4>1, <4>2 DEF At
        <4>3. CASE Kept(a)' /\ Heard(a)' /\ mode'[conn'[a].node] = "up"
          <5>1. a # local[n] /\ Kept(a) /\ Heard(a) /\ mode[n] = "up"
            BY <2>1, <2>6, <4>1, <4>3 DEF Kept, Heard
          <5>2. conn[a].raced
            BY <4>1, <5>1 DEF OrphanInv, OrphansOnlyByOverlap, Kept, Heard
          <5> QED
            BY <2>6, <4>1, <5>2
        <4> QED
          BY <4>2, <4>3
      <3>3. CASE a # c /\ b # c
        <4>1. a \in Conn \ {c} /\ b \in Conn \ {c}
          BY <3>3
        <4>2. /\ conn'[a].pc = conn[a].pc /\ conn'[a].node = conn[a].node
              /\ conn'[a].open = conn[a].open
              /\ conn[a].kicked => conn'[a].kicked
              /\ conn[a].raced => conn'[a].raced
              /\ conn'[b].pc = conn[b].pc /\ conn'[b].node = conn[b].node
          BY <2>6, <4>1
        <4>3. /\ conn[b].pc = "storing" /\ conn[a].node = conn[b].node
              /\ \/ conn[a].pc = "storing" /\ conn[a].open
                 \/ Kept(a) /\ Heard(a) /\ mode[conn[a].node] = "up"
          BY <2>1, <4>2 DEF Kept, Heard
        <4>4. conn[a].raced
          BY <4>3 DEF OrphanInv, OverlapNoticed
        <4> QED
          BY <4>2, <4>4
      <3> QED
        BY <3>1, <3>2, <3>3
    <2>11. OrphansOnlyByOverlap'
      <3> SUFFICES ASSUME NEW d \in Conn, Kept(d)', Heard(d)', mode'[conn'[d].node] = "up",
                          local'[conn'[d].node] # d
                   PROVE  conn'[d].raced
        BY DEF OrphansOnlyByOverlap, Kept, Heard
      <3>1. /\ d # c /\ Kept(d) /\ Heard(d) /\ mode[conn[d].node] = "up"
            /\ conn'[d].node = conn[d].node /\ conn[d].node \in Node
        BY <1>t, <2>1, <2>2, <2>5, <2>6 DEF Kept, Heard, Placed, Absent
      <3>2. local[conn[d].node] # d
        <4>1. CASE conn[d].node = n
          <5>1. ~(d = local[n] /\ conn[d].open)
            BY <2>6, <3>1 DEF Heard
          <5> QED
            BY <3>1, <4>1, <5>1 DEF Heard
        <4>2. CASE conn[d].node # n
          BY <1>t, <2>1, <3>1, <4>2 DEF TypeOK
        <4> QED
          BY <4>1, <4>2
      <3>3. conn[d].raced
        BY <3>1, <3>2 DEF OrphanInv, OrphansOnlyByOverlap, Kept, Heard
      <3> QED
        BY <2>6, <3>1, <3>3
    <2> QED
      BY <2>8, <2>9, <2>10, <2>11 DEF OrphanInv
  <1>9. ASSUME NEW c \in Conn, Store(c) PROVE OrphanInv'
    <2> DEFINE n == conn[c].node
    <2>1. /\ conn[c].pc = "storing" /\ n \in Node /\ mode[n] # "down"
          /\ local' = [local EXCEPT ![n] = c]
          /\ UNCHANGED <<mode, route, notices, kicker, beat, faults, stops>>
      BY <1>9, <1>t DEF Store, Placed, Absent
    <2>2. /\ conn' \in [Conn -> Goroutine]
          /\ conn'[c].pc = "registering" /\ conn'[c].node = n /\ conn'[c].open = conn[c].open
          /\ conn'[c].raced = conn[c].raced /\ conn'[c].kicked = conn[c].kicked
          /\ \A d \in Conn \ {c} : conn'[d] = conn[d]
      <3> DEFINE late == IF conn[c].open THEN At(n, "unregistering") ELSE {}
                 new == [conn[c] EXCEPT !.pc = "registering", !.late = late]
      <3>1. conn[c] \in Goroutine /\ late \in SUBSET Conn
        BY <1>t DEF TypeOK, At
      <3>2. conn' = [conn EXCEPT ![c] = new]
        BY <1>9 DEF Store
      <3> HIDE DEF late
      <3>3. /\ new \in Goroutine /\ new.pc = "registering" /\ new.node = n
            /\ new.open = conn[c].open /\ new.raced = conn[c].raced /\ new.kicked = conn[c].kicked
        BY <3>1 DEF Goroutine, PCs
      <3> HIDE DEF new
      <3> QED
        BY <1>t, <3>2, <3>3 DEF TypeOK
    <2>3. TypeOK'
      BY <1>t, <2>1, <2>2 DEF TypeOK
    <2>4. Placed'
      BY <1>t, <2>1, <2>2 DEF Placed, Absent
    <2>5. OverlapNoticed'
      BY <2>1, <2>2 DEF OrphanInv, OverlapNoticed, Kept, Heard
    <2>6. OrphansOnlyByOverlap'
      <3> SUFFICES ASSUME NEW d \in Conn, Kept(d)', Heard(d)', mode'[conn'[d].node] = "up",
                          local'[conn'[d].node] # d
                   PROVE  conn'[d].raced
        BY DEF OrphansOnlyByOverlap, Kept, Heard
      <3>1. d # c
        BY <1>t, <2>1, <2>2 DEF TypeOK
      <3>2. CASE conn[d].node = n
        BY <2>1, <2>2, <3>1, <3>2 DEF OrphanInv, OverlapNoticed, Kept, Heard
      <3>3. CASE conn[d].node # n
        <4>1. conn[d].node \in Node
          BY <1>t, <2>2, <3>1 DEF Placed, Absent, Kept
        <4> QED
          BY <1>t, <2>1, <2>2, <3>1, <3>3, <4>1 DEF OrphanInv, OrphansOnlyByOverlap, Kept, Heard, TypeOK
      <3> QED
        BY <3>2, <3>3
    <2> QED
      BY <2>3, <2>4, <2>5, <2>6 DEF OrphanInv
  (* Notices and the heartbeat. *)
  <1>10. ASSUME NEW n \in Node,
                LoseNotice(n) \/ CheckNotice(n) \/ ListUsers(n) \/ RenewUserRoute(n)
         PROVE  OrphanInv'
    <2>1. UNCHANGED <<mode, local, conn>>
      BY <1>10 DEF LoseNotice, CheckNotice, ListUsers, RenewUserRoute
    <2>2. TypeOK'
      <3>1. CASE LoseNotice(n) \/ CheckNotice(n)
        BY <1>t, <3>1 DEF LoseNotice, CheckNotice, TypeOK
      <3>2. CASE ListUsers(n)
        BY <1>t, <3>2 DEF ListUsers, TypeOK
      <3>3. CASE RenewUserRoute(n)
        <4>1. beat' \in [Node -> {"idle", "listed", "conflict"}]
          BY <1>t, <3>3 DEF RenewUserRoute, TypeOK
        <4>2. route' \in Node \cup {None}
          BY <1>t, <3>3 DEF RenewUserRoute, TypeOK
        <4> QED
          BY <1>t, <3>3, <4>1, <4>2 DEF RenewUserRoute, TypeOK
      <3> QED
        BY <1>10, <3>1, <3>2, <3>3
    <2> QED
      BY <2>1, <2>2
      DEF OrphanInv, Placed, OverlapNoticed, OrphansOnlyByOverlap, Absent, Kept, Heard
  <1>11. ASSUME NEW n \in Node, KickNoticed(n) \/ KickSuperseded(n) PROVE OrphanInv'
    <2>1. conn' = Kick(conn, local[n]) /\ UNCHANGED <<mode, local, route, notices, faults, stops>>
      BY <1>11 DEF KickNoticed, KickSuperseded
    <2>2. local[n] \in Conn \cup {None}
      BY <1>t DEF TypeOK
    <2>3. kicker' \in [Node -> BOOLEAN] /\ beat' \in [Node -> {"idle", "listed", "conflict"}]
      BY <1>11, <1>t DEF KickNoticed, KickSuperseded, TypeOK
    <2>4. TypeOK'
      BY <1>t, <2>1, <2>2, <2>3, KickFacts DEF TypeOK
    <2>5. \A d \in Conn : Ages(d)
      BY <1>t, <1>p, <2>1, <2>2, KickFacts DEF Ages
    <2> QED
      BY <2>1, <2>4, <2>5, AgeingKeeps
  (* Stops and starts of a node. *)
  <1>12. ASSUME NEW n \in Node, Drain(n) PROVE OrphanInv'
    <2>1. /\ mode[n] = "up" /\ mode' = [mode EXCEPT ![n] = "draining"]
          /\ notices' = [notices EXCEPT ![n] = FALSE] /\ local' = [local EXCEPT ![n] = None]
          /\ conn' = conn \/ (local[n] \in Conn /\ conn' = Close(conn, local[n]))
          /\ UNCHANGED <<route, kicker, beat, faults>>
      BY <1>12, <1>t DEF Drain, TypeOK
    <2>2. stops' \in 0..MaxStops
      BY <1>12, <1>t, ConnectionsAssumption DEF Drain, TypeOK
    <2>3. conn' \in [Conn -> Goroutine]
      BY <1>t, <2>1, CloseFacts DEF TypeOK
    <2>4. TypeOK'
      BY <1>t, <2>1, <2>2, <2>3 DEF TypeOK
    <2>5. /\ mode'[n] = "draining"
          /\ \A m \in Node \ {n} : mode'[m] = mode[m] /\ local'[m] = local[m]
      BY <1>t, <2>1 DEF TypeOK
    <2>6. \A d \in Conn : Ages(d)
      <3>1. CASE conn' = conn
        BY <1>p, <2>5, <3>1 DEF Ages
      <3>2. CASE local[n] \in Conn /\ conn' = Close(conn, local[n])
        BY <1>t, <1>p, <2>5, <3>2, CloseFacts DEF Ages
      <3> QED
        BY <2>1, <3>1, <3>2
    <2>7. \A d \in Conn : Kept(d)' => conn'[d].node \in Node
      BY <2>6, <1>t DEF Ages, Kept, Placed, Absent, Gone, Unborn
    <2> QED
      BY <2>4, <2>5, <2>6, <2>7, AgeingKeeps
  <1>13. ASSUME NEW n \in Node, ProcessEnds(n) PROVE OrphanInv'
    <2>1. /\ mode' = [mode EXCEPT ![n] = "down"] /\ local' = [local EXCEPT ![n] = None]
          /\ notices' = [notices EXCEPT ![n] = FALSE] /\ kicker' = [kicker EXCEPT ![n] = FALSE]
          /\ beat' = [beat EXCEPT ![n] = "idle"]
          /\ conn' = [c \in Conn |-> IF conn[c].node = n THEN Gone ELSE conn[c]]
          /\ UNCHANGED <<route, faults>>
      BY <1>13 DEF ProcessEnds
    <2>2. stops' \in 0..MaxStops
      BY <1>13, <1>t, ConnectionsAssumption DEF ProcessEnds, TypeOK
    <2>3. Gone \in Goroutine
      BY DEF Gone, Goroutine, Unborn, PCs
    <2>4. conn' \in [Conn -> Goroutine]
      BY <1>t, <2>1, <2>3 DEF TypeOK
    <2>5. TypeOK'
      BY <1>t, <2>1, <2>2, <2>4 DEF TypeOK
    <2>6. \A m \in Node : IF m = n THEN mode'[m] = "down"
                          ELSE mode'[m] = mode[m] /\ local'[m] = local[m]
      BY <1>t, <2>1 DEF TypeOK
    <2>7. \A d \in Conn : Ages(d)
      BY <1>p, <2>1, <2>6 DEF Ages
    <2>8. \A d \in Conn : Kept(d)' => conn'[d].node \in Node
      BY <2>7, <1>t DEF Ages, Kept, Placed, Absent, Gone, Unborn
    <2> QED
      BY <2>5, <2>6, <2>7, <2>8, AgeingKeeps
  <1>14. ASSUME NEW n \in Node, Restart(n) PROVE OrphanInv'
    <2>1. /\ mode[n] = "down" /\ mode' = [mode EXCEPT ![n] = "up"]
          /\ UNCHANGED <<local, route, notices, kicker, beat, conn, faults, stops>>
      BY <1>14 DEF Restart
    <2>2. TypeOK'
      BY <1>t, <2>1 DEF TypeOK
    <2>3. \A c \in Conn : ~Absent(c) => conn[c].node \in Node /\ mode'[conn[c].node] = mode[conn[c].node]
      BY <1>t, <2>1 DEF Placed, TypeOK
    <2>4. Placed'
      BY <1>t, <2>1, <2>3 DEF Placed, Absent
    <2>5. \A c \in Conn : Kept(c) => ~Absent(c)
      BY DEF Kept, Absent
    <2>6. OverlapNoticed' /\ OrphansOnlyByOverlap'
      BY <2>1, <2>3, <2>5 DEF OrphanInv, OverlapNoticed, OrphansOnlyByOverlap, Kept, Heard
    <2> QED
      BY <2>2, <2>4, <2>6 DEF OrphanInv
  <1>15. CASE LoseRoute
    <2>1. faults' \in 0..MaxFaults
      BY <1>t, <1>15, ConnectionsAssumption DEF LoseRoute, TypeOK
    <2>2. TypeOK'
      BY <1>t, <1>15, <2>1 DEF LoseRoute, TypeOK
    <2> QED
      BY <1>15, <2>2
      DEF LoseRoute, OrphanInv, Placed, OverlapNoticed, OrphansOnlyByOverlap, Absent, Kept, Heard
  <1> QED
    BY <1>0, <1>1, <1>2, <1>3, <1>4, <1>5, <1>6, <1>7, <1>8, <1>9, <1>10, <1>11, <1>12, <1>13,
       <1>14, <1>15
    DEF Next, Handle, Listener, Heartbeat

(* A connection that is open but lost to its node, and that nobody has     *)
(* kicked, has overlapped another one in AddConnection.                    *)
THEOREM OrphansNeedOverlap == Spec => []OrphansOnlyByOverlap
  <1>1. OrphanInv => OrphansOnlyByOverlap
    BY DEF OrphanInv
  <1> QED
    BY <1>1, OrphanInit, OrphanStep, PTL DEF Spec

--------------------------------------------------------------------------------

(* The connection a node's map holds is on its way through Handle, at that *)
(* node, and has not been through RemoveConnection.                        *)
InMapIsPlaced ==
    \A n \in Node : local[n] # None =>
        /\ conn[local[n]].node = n
        /\ conn[local[n]].pc \in {"registering", "serving", "removing"}

(* Every goroutine about to unregister the user on a node was so already   *)
(* when the open connection in that node's map was stored: after it none   *)
(* finds the map empty.                                                    *)
LateIsComplete ==
    \A n \in Node, d \in Conn :
        /\ local[n] # None /\ conn[local[n]].open
        /\ conn[d].node = n /\ conn[d].pc = "unregistering"
        => d \in conn[local[n]].late

LateInv == InMapIsPlaced /\ LateIsComplete

LEMMA LateInit == Init => LateInv
  BY ConnectionsAssumption DEF Init, LateInv, InMapIsPlaced, LateIsComplete, Unborn

(* What a step other than Store and Evict may do to a connection as far as *)
(* the clean-up is concerned.                                              *)
Ebbs(c) ==
    \/ conn'[c] = Gone
    \/ /\ conn'[c].node = conn[c].node
       /\ conn'[c].pc # conn[c].pc =>
            \/ conn[c].pc = "registering" /\ conn'[c].pc = "serving"
            \/ conn[c].pc = "serving" /\ conn'[c].pc = "removing"
            \/ conn[c].pc = "removing" /\ conn'[c].pc = "looking"
            \/ /\ conn[c].pc = "looking" /\ conn'[c].pc = "unregistering"
               /\ conn[c].node \in Node => local[conn[c].node] = None
       /\ conn'[c].open => conn[c].open /\ conn'[c].late = conn[c].late

LEMMA EbbingKeeps ==
  ASSUME TypeOK, LateInv,
         \A n \in Node : local'[n] = local[n] \/ local'[n] = None,
         \A c \in Conn : Ebbs(c),
         \A n \in Node : local'[n] # None =>
            /\ conn'[local'[n]] # Gone
            /\ conn[local'[n]].pc = "removing" => conn'[local'[n]].pc = "removing"
  PROVE  LateInv'
  <1>0. \A n \in Node : local[n] \in Conn \cup {None}
    BY DEF TypeOK
  <1>1. InMapIsPlaced'
    BY <1>0 DEF LateInv, InMapIsPlaced, Ebbs
  <1>2. LateIsComplete'
    <2> SUFFICES ASSUME NEW n \in Node, NEW d \in Conn,
                        local'[n] # None, conn'[local'[n]].open,
                        conn'[d].node = n, conn'[d].pc = "unregistering"
                 PROVE  d \in conn'[local'[n]].late
      BY DEF LateIsComplete
    <2>1. local'[n] = local[n] /\ local[n] \in Conn
      BY <1>0
    <2>2. conn[local[n]].open /\ conn'[local[n]].late = conn[local[n]].late
      BY <2>1 DEF Ebbs
    <2>3. conn[d].node = n /\ conn[d].pc = "unregistering"
      BY <2>1 DEF Ebbs, Gone, Unborn
    <2> QED
      BY <2>1, <2>2, <2>3 DEF LateInv, LateIsComplete
  <1> QED
    BY <1>1, <1>2 DEF LateInv

(* What the helpers do to the late ones.                                   *)
LEMMA GotoEbbs ==
  ASSUME TypeOK, NEW c \in Conn, NEW step \in PCs, conn' = Goto(c, step)
  PROVE  /\ conn'[c] = [conn[c] EXCEPT !.pc = step] /\ conn[c] \in Goroutine
         /\ conn'[c].pc = step /\ conn'[c].node = conn[c].node
         /\ conn'[c].open = conn[c].open /\ conn'[c].late = conn[c].late
         /\ \A d \in Conn \ {c} : conn'[d] = conn[d]
  BY DEF TypeOK, Goto, Goroutine

LEMMA KickEbbs ==
  ASSUME TypeOK, NEW c \in Conn \cup {None}
  PROVE  \A d \in Conn : /\ Kick(conn, c)[d].late = conn[d].late
                         /\ Kick(conn, c)[d].pc = conn[d].pc /\ Kick(conn, c)[d].node = conn[d].node
                         /\ Kick(conn, c)[d].open = conn[d].open
  <1>1. CASE c # None /\ conn[c].open
    <2>1. c \in Conn /\ Kick(conn, c) = [conn EXCEPT ![c] = [conn[c] EXCEPT !.kicked = TRUE]]
      BY <1>1 DEF Kick, TypeOK
    <2>2. conn[c] \in Goroutine
      BY <2>1 DEF TypeOK
    <2> QED
      BY <2>1, <2>2 DEF TypeOK, Goroutine
  <1>2. CASE ~(c # None /\ conn[c].open)
    BY <1>2, ConnectionsAssumption DEF Kick, TypeOK
  <1> QED
    BY <1>1, <1>2

LEMMA LateStep == OrphanInv /\ LateInv /\ [Next]_vars => LateInv'
  <1> SUFFICES ASSUME OrphanInv, LateInv, [Next]_vars PROVE LateInv'
    OBVIOUS
  <1>t. TypeOK /\ Placed
    BY DEF OrphanInv
  <1>m. \A n \in Node : local[n] \in Conn \cup {None}
    BY <1>t DEF TypeOK
  <1>i. InMapIsPlaced
    BY DEF LateInv
  <1>g. Gone.pc = "gone" /\ Gone.node = None /\ ~Gone.open
    BY DEF Gone, Unborn
  <1>0. CASE UNCHANGED vars
    BY <1>0 DEF vars, LateInv, InMapIsPlaced, LateIsComplete
  (* Steps of the goroutine that serves a connection. *)
  <1>1. ASSUME NEW c \in Conn, RegisterUser(c) \/ ReadPumpEnds(c) PROVE LateInv'
    <2>1. /\ UNCHANGED local
          /\ \/ conn[c].pc = "registering" /\ conn' = Goto(c, "serving")
             \/ conn[c].pc = "serving" /\ conn' = Goto(c, "removing")
      BY <1>1 DEF RegisterUser, ReadPumpEnds
    <2>2. \A d \in Conn : Ebbs(d)
      BY <1>t, <2>1, GotoEbbs DEF Ebbs, PCs
    <2>3. \A n \in Node : local'[n] # None =>
             /\ conn'[local'[n]].pc \in {"registering", "serving", "removing"}
             /\ conn[local'[n]].pc = "removing" => conn'[local'[n]].pc = "removing"
      <3>1. /\ \A d \in Conn \ {c} : conn'[d] = conn[d]
            /\ conn'[c].pc \in {"serving", "removing"} /\ conn[c].pc # "removing"
        BY <1>t, <2>1, GotoEbbs DEF PCs
      <3>2. \A n \in Node : local'[n] # None =>
               local[n] \in Conn /\ local'[n] = local[n]
               /\ conn[local[n]].pc \in {"registering", "serving", "removing"}
        BY <1>m, <1>i, <2>1 DEF InMapIsPlaced
      <3> QED
        BY <3>1, <3>2
    <2> QED
      BY <1>t, <1>g, <2>1, <2>2, <2>3, EbbingKeeps
  <1>2. ASSUME NEW c \in Conn, RegisterFails(c) \/ RemoveConnection(c) PROVE LateInv'
    <2>1. /\ \/ local' = local /\ local[conn[c].node] # c
             \/ local[conn[c].node] = c /\ local' = [local EXCEPT ![conn[c].node] = None]
          /\ \/ conn' = [conn EXCEPT ![c] = Gone]
             \/ conn[c].pc = "removing" /\ conn' = Goto(c, "looking")
      BY <1>2 DEF RegisterFails, RemoveConnection
    <2>2. \A n \in Node : (local'[n] = local[n] \/ local'[n] = None) /\ local'[n] # c
      <3>1. \A n \in Node : local[n] = c => n = conn[c].node
        BY <1>i, ConnectionsAssumption DEF InMapIsPlaced
      <3> QED
        BY <1>t, <2>1, <3>1, ConnectionsAssumption DEF TypeOK
    <2>3. \A d \in Conn : Ebbs(d) /\ (d # c => conn'[d] = conn[d])
      <3>1. CASE conn' = [conn EXCEPT ![c] = Gone]
        <4>1. conn'[c] = Gone /\ \A d \in Conn \ {c} : conn'[d] = conn[d]
          BY <1>t, <3>1, GoneFacts
        <4> QED
          BY <4>1 DEF Ebbs
      <3>2. CASE conn[c].pc = "removing" /\ conn' = Goto(c, "looking")
        <4>1. /\ conn'[c].pc = "looking" /\ conn'[c].node = conn[c].node
              /\ conn'[c].open = conn[c].open /\ conn'[c].late = conn[c].late
              /\ \A d \in Conn \ {c} : conn'[d] = conn[d]
          BY <1>t, <3>2, GotoEbbs DEF PCs
        <4> QED
          BY <3>2, <4>1 DEF Ebbs
      <3> QED
        BY <2>1, <3>1, <3>2
    <2>4. \A n \in Node : local'[n] # None =>
             local'[n] \in Conn /\ local'[n] = local[n] /\ conn'[local'[n]] = conn[local'[n]]
      BY <1>m, <2>2, <2>3
    <2>5. \A n \in Node : local'[n] # None =>
             /\ conn'[local'[n]] # Gone
             /\ conn[local'[n]].pc = "removing" => conn'[local'[n]].pc = "removing"
      BY <1>i, <1>g, <2>4 DEF InMapIsPlaced
    <2> QED
      BY <1>t, <2>2, <2>3, <2>5, EbbingKeeps
  <1>3. ASSUME NEW c \in Conn, LookForNewer(c) \/ UnregisterUser(c) PROVE LateInv'
    <2>1. /\ conn[c].pc \in {"looking", "unregistering"} /\ UNCHANGED local
          /\ \/ conn' = [conn EXCEPT ![c] = Gone]
             \/ conn[c].pc = "looking" /\ local[conn[c].node] = None /\ conn' = Goto(c, "unregistering")
      BY <1>3 DEF LookForNewer, UnregisterUser
    <2>2. \A n \in Node : local[n] # c
      BY <1>i, <2>1, ConnectionsAssumption DEF InMapIsPlaced
    <2>3. \A d \in Conn : Ebbs(d) /\ (d # c => conn'[d] = conn[d])
      <3>1. CASE conn' = [conn EXCEPT ![c] = Gone]
        <4>1. conn'[c] = Gone /\ \A d \in Conn \ {c} : conn'[d] = conn[d]
          BY <1>t, <3>1, GoneFacts
        <4> QED
          BY <4>1 DEF Ebbs
      <3>2. CASE /\ conn[c].pc = "looking" /\ local[conn[c].node] = None
                 /\ conn' = Goto(c, "unregistering")
        <4>1. /\ conn'[c].pc = "unregistering" /\ conn'[c].node = conn[c].node
              /\ conn'[c].open = conn[c].open /\ conn'[c].late = conn[c].late
              /\ \A d \in Conn \ {c} : conn'[d] = conn[d]
          BY <1>t, <3>2, GotoEbbs DEF PCs
        <4> QED
          BY <3>2, <4>1 DEF Ebbs
      <3> QED
        BY <2>1, <3>1, <3>2
    <2>4. \A n \in Node : local'[n] # None =>
             /\ conn'[local'[n]] # Gone
             /\ conn[local'[n]].pc = "removing" => conn'[local'[n]].pc = "removing"
      BY <1>m, <1>i, <1>g, <2>1, <2>2, <2>3 DEF InMapIsPlaced
    <2> QED
      BY <1>t, <2>1, <2>3, <2>4, EbbingKeeps
  (* The two halves of AddConnection. *)
  <1>4. ASSUME NEW c \in Conn, NEW n \in Node, Evict(c, n) PROVE LateInv'
    <2> DEFINE rivals == {d \in At(n, "storing") : conn[d].open}
               mine == [Unborn EXCEPT !.pc = "storing", !.node = n, !.open = TRUE,
                                      !.raced = At(n, "storing") # {}]
               told == Kick(conn, local[n])
    <2>1. /\ conn[c].pc = "idle"
          /\ conn' = [d \in Conn |-> IF d = c THEN mine
                                     ELSE IF d \in rivals THEN [told[d] EXCEPT !.raced = TRUE]
                                     ELSE told[d]]
          /\ local' = [local EXCEPT ![n] = None]
      BY <1>4 DEF Evict
    <2>2. mine.pc = "storing"
      BY DEF Unborn
    <2>3. \A d \in Conn : /\ told[d] \in Goroutine
                          /\ told[d].late = conn[d].late
                          /\ told[d].pc = conn[d].pc /\ told[d].node = conn[d].node
                          /\ told[d].open = conn[d].open
      BY <1>t, <1>m, KickFacts, KickEbbs
    <2>4. conn'[c].pc = "storing"
      BY <2>1, <2>2
    <2>5. \A d \in Conn \ {c} : /\ conn'[d].late = conn[d].late /\ conn'[d].pc = conn[d].pc
                                /\ conn'[d].node = conn[d].node /\ conn'[d].open = conn[d].open
      <3> SUFFICES ASSUME NEW d \in Conn \ {c}
                   PROVE  /\ conn'[d].late = conn[d].late /\ conn'[d].pc = conn[d].pc
                          /\ conn'[d].node = conn[d].node /\ conn'[d].open = conn[d].open
        OBVIOUS
      <3>1. conn'[d] = [told[d] EXCEPT !.raced = TRUE] \/ conn'[d] = told[d]
        BY <2>1
      <3> HIDE DEF told
      <3> QED
        BY <2>3, <3>1 DEF Goroutine
    <2>6. /\ local'[n] = None
          /\ \A m \in Node \ {n} : local'[m] = local[m] /\ local[m] # c
      <3>1. \A m \in Node : local[m] # c
        BY <1>i, <2>1, ConnectionsAssumption DEF InMapIsPlaced
      <3> QED
        BY <1>t, <2>1, <3>1 DEF TypeOK
    <2> HIDE DEF rivals, mine, told
    <2>7. InMapIsPlaced'
      BY <1>m, <1>i, <2>5, <2>6 DEF InMapIsPlaced
    <2>8. LateIsComplete'
      BY <1>m, <2>4, <2>5, <2>6 DEF LateInv, LateIsComplete
    <2> QED
      BY <2>7, <2>8 DEF LateInv
  <1>5. ASSUME NEW c \in Conn, Store(c) PROVE LateInv'
    <2> DEFINE n == conn[c].node
               late == IF conn[c].open THEN At(n, "unregistering") ELSE {}
    <2>1. /\ conn[c].pc = "storing" /\ n \in Node
          /\ local' = [local EXCEPT ![n] = c]
          /\ conn' = [conn EXCEPT ![c].pc = "registering", ![c].late = late]
      BY <1>5, <1>t DEF Store, Placed, Absent
    <2>2. conn' = [conn EXCEPT ![c] = [conn[c] EXCEPT !.pc = "registering", !.late = late]]
      BY <1>t, <2>1 DEF TypeOK
    <2>3. conn[c] \in Goroutine
      BY <1>t DEF TypeOK
    <2>4. /\ conn'[c].pc = "registering" /\ conn'[c].node = n /\ conn'[c].open = conn[c].open
          /\ conn'[c].late = late
          /\ \A d \in Conn \ {c} : conn'[d] = conn[d]
      BY <1>t, <2>2, <2>3 DEF TypeOK, Goroutine
    <2>5. /\ local'[n] = c
          /\ \A m \in Node \ {n} : local'[m] = local[m] /\ local[m] # c
      BY <1>t, <1>i, <2>1, ConnectionsAssumption DEF TypeOK, InMapIsPlaced
    <2>6. conn[c].open => late = {d \in Conn : conn[d].node = n /\ conn[d].pc = "unregistering"}
      BY DEF At
    <2>7. c # None /\ n \in Node
      BY <2>1, ConnectionsAssumption
    <2> HIDE DEF n, late
    <2>8. InMapIsPlaced'
      BY <1>m, <1>i, <2>4, <2>5, <2>7 DEF InMapIsPlaced
    <2>9. LateIsComplete'
      BY <1>m, <2>4, <2>5, <2>6, <2>7 DEF LateInv, LateIsComplete
    <2> QED
      BY <2>8, <2>9 DEF LateInv
  (* Closes and kicks. *)
  <1>6. ASSUME NEW c \in Conn \cup {None},
               conn' = conn \/ (c \in Conn /\ conn' = Close(conn, c)) \/ conn' = Kick(conn, c),
               \A n \in Node : local'[n] = local[n] \/ local'[n] = None
        PROVE  LateInv'
    <2>1. \A d \in Conn : /\ conn'[d].pc = conn[d].pc /\ conn'[d].node = conn[d].node
                          /\ conn'[d].open => conn[d].open /\ conn'[d].late = conn[d].late
      <3>1. CASE c \in Conn /\ conn' = Close(conn, c)
        BY <1>t, <3>1, CloseFacts
      <3>2. CASE conn' = Kick(conn, c)
        BY <1>t, <3>2, KickEbbs
      <3> QED
        BY <1>6, <3>1, <3>2
    <2>2. \A d \in Conn : Ebbs(d)
      BY <2>1 DEF Ebbs
    <2>3. \A n \in Node : local'[n] # None =>
             /\ conn'[local'[n]] # Gone
             /\ conn[local'[n]].pc = "removing" => conn'[local'[n]].pc = "removing"
      BY <1>m, <1>i, <1>g, <1>6, <2>1 DEF InMapIsPlaced
    <2> QED
      BY <1>t, <1>6, <2>2, <2>3, EbbingKeeps
  <1>7. ASSUME NEW c \in Conn, ClientLeaves(c) \/ KickFires(c) PROVE LateInv'
    BY <1>6, <1>7 DEF ClientLeaves, KickFires
  <1>8. ASSUME NEW n \in Node, KickNoticed(n) \/ KickSuperseded(n) PROVE LateInv'
    BY <1>m, <1>6, <1>8 DEF KickNoticed, KickSuperseded
  <1>9. ASSUME NEW n \in Node, Drain(n) PROVE LateInv'
    <2>1. /\ conn' = conn \/ (local[n] \in Conn /\ conn' = Close(conn, local[n]))
          /\ \A m \in Node : local'[m] = local[m] \/ local'[m] = None
      BY <1>9, <1>t DEF Drain, TypeOK
    <2> QED
      BY <1>m, <1>6, <2>1
  <1>10. ASSUME NEW n \in Node,
                LoseNotice(n) \/ CheckNotice(n) \/ ListUsers(n) \/ RenewUserRoute(n)
                \/ Restart(n)
         PROVE  LateInv'
    <2>1. UNCHANGED <<local, conn>>
      BY <1>10 DEF LoseNotice, CheckNotice, ListUsers, RenewUserRoute, Restart
    <2> QED
      BY <2>1 DEF LateInv, InMapIsPlaced, LateIsComplete
  <1>11. ASSUME LoseRoute PROVE LateInv'
    BY <1>11 DEF LoseRoute, LateInv, InMapIsPlaced, LateIsComplete
  <1>12. ASSUME NEW n \in Node, ProcessEnds(n) PROVE LateInv'
    <2>1. /\ local' = [local EXCEPT ![n] = None]
          /\ conn' = [c \in Conn |-> IF conn[c].node = n THEN Gone ELSE conn[c]]
      BY <1>12 DEF ProcessEnds
    <2>2. local'[n] = None /\ \A m \in Node \ {n} : local'[m] = local[m]
      BY <1>t, <2>1 DEF TypeOK
    <2>3. \A d \in Conn : Ebbs(d)
      BY <2>1 DEF Ebbs
    <2>4. \A m \in Node : local'[m] # None =>
             local'[m] \in Conn /\ local'[m] = local[m] /\ conn'[local'[m]] = conn[local'[m]]
      BY <1>m, <1>i, <2>1, <2>2 DEF InMapIsPlaced
    <2>5. \A m \in Node : local'[m] # None =>
             /\ conn'[local'[m]] # Gone
             /\ conn[local'[m]].pc = "removing" => conn'[local'[m]].pc = "removing"
      BY <1>i, <1>g, <2>4 DEF InMapIsPlaced
    <2> QED
      BY <1>t, <2>2, <2>3, <2>5, EbbingKeeps
  <1> QED
    BY <1>0, <1>1, <1>2, <1>3, <1>4, <1>5, <1>7, <1>8, <1>9, <1>10, <1>11, <1>12
    DEF Next, Handle, Listener, Heartbeat

(* The route of a seated connection is deleted only by Redis itself or by  *)
(* a predecessor that had looked into the map before the connection was    *)
(* stored: the look spares every route registered after it.                *)
THEOREM RoutesSparedByTheLook == Spec => UnroutedOnlyByLateCleanup
  <1> DEFINE Spared == \A c \in Conn : Unroutes(c) =>
                \/ faults' # faults
                \/ \E d \in conn[c].late : conn[d].pc = "unregistering" /\ conn[d].pc' = "gone"
  <1>1. OrphanInv /\ LateInv /\ [Next]_vars => [Spared]_vars
    <2> SUFFICES ASSUME OrphanInv, LateInv, Next,
                        NEW c \in Conn, Seated(c), route = conn[c].node, route' = None
                 PROVE  \/ faults' # faults
                        \/ \E d \in conn[c].late : conn[d].pc = "unregistering" /\ conn[d].pc' = "gone"
      BY DEF Unroutes
    <2>1. /\ TypeOK /\ conn[c].node \in Node /\ local[conn[c].node] = c /\ conn[c].open
          /\ route \in Node /\ c # None
      BY ConnectionsAssumption DEF OrphanInv, Placed, Absent, Seated
    <2>2. route' # route
      BY <2>1, ConnectionsAssumption
    <2>3. CASE LoseRoute
      BY <2>1, <2>3 DEF LoseRoute, TypeOK
    <2>4. ASSUME NEW d \in Conn, UnregisterUser(d)
          PROVE  \E e \in conn[c].late : conn[e].pc = "unregistering" /\ conn[e].pc' = "gone"
      <3>1. conn[d].pc = "unregistering" /\ conn[d].node = conn[c].node
        BY <2>2, <2>4 DEF UnregisterUser
      <3>2. conn' = [conn EXCEPT ![d] = Gone]
        BY <2>4 DEF UnregisterUser
      <3>3. conn'[d].pc = "gone"
        BY <2>1, <3>2, GoneFacts DEF Gone, Unborn
      <3>4. d \in conn[c].late
        BY <2>1, <3>1 DEF LateInv, LateIsComplete
      <3> QED
        BY <3>1, <3>3, <3>4
    <2>5. ASSUME NEW d \in Conn, RegisterUser(d) PROVE FALSE
      BY <2>5, ConnectionsAssumption DEF OrphanInv, Placed, Absent, RegisterUser
    <2>6. ASSUME NEW n \in Node, RenewUserRoute(n) PROVE FALSE
      BY <2>6, <2>2, ConnectionsAssumption DEF RenewUserRoute
    <2> QED
      BY <2>2, <2>3, <2>4, <2>5, <2>6
      DEF Next, Handle, Listener, Heartbeat, Store, RegisterFails, KickFires, ReadPumpEnds,
          RemoveConnection, LookForNewer, ClientLeaves, Evict, CheckNotice, KickNoticed, ListUsers,
          KickSuperseded, LoseNotice, Drain, ProcessEnds, Restart
  <1>2. OrphanInv /\ LateInv /\ [Next]_vars => (OrphanInv /\ LateInv)'
    BY OrphanStep, LateStep
  <1>3. Init => OrphanInv /\ LateInv
    BY OrphanInit, LateInit
  <1>4. UnroutedOnlyByLateCleanup <=> [][Spared]_vars
    BY DEF UnroutedOnlyByLateCleanup
  <1> HIDE DEF Spared
  <1> QED
    BY <1>1, <1>2, <1>3, <1>4, PTL DEF Spec
================================================================================
