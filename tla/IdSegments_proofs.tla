--------------------------- MODULE IdSegments_proofs ---------------------------
(***************************************************************************)
(* Theorems about IdSegments, for any number of instances, any segment     *)
(* length and any number of retries and stops.                             *)
(***************************************************************************)
EXTENDS IdSegments, TLAPS

Left(p) == (cache[p].cur + 1)..cache[p].max
Carried(p) == idgen[p].taken
Claiming(p) == idgen[p].pc = "claiming"

(* Only running instances serve, and nothing runs, or has been claimed,    *)
(* before the row exists.                                                  *)
NothingBeforeRow ==
    /\ row.absent => claimed = {}
    /\ \A p \in Idgen : /\ idgen[p].pc # "idle" => Running(p)
                        /\ Running(p) => ~row.absent

(* An id that was claimed lies below the row, and below what the instances *)
(* have read whose update can still succeed, unless it was put back.       *)
ClaimedBelow ==
    /\ \A i \in claimed \ rewound : i <= row.max
    /\ \A p \in Idgen : Claiming(p) =>
         /\ idgen[p].seen.version <= row.version
         /\ idgen[p].seen.version = row.version =>
              \A i \in claimed \ rewound : i <= idgen[p].seen.max

(* What is held was claimed. *)
HeldIsClaimed ==
    /\ given \subseteq claimed
    /\ \A p \in Idgen : Carried(p) \subseteq claimed /\ Left(p) \subseteq claimed

(* An id that was not put back is in one place only: with a caller, taken  *)
(* for a request, or free in a cache.                                      *)
HeldOnce ==
    /\ \A p \in Idgen : \A i \in Carried(p) \ rewound : i \notin given /\ i \notin Left(p)
    /\ \A p \in Idgen : \A i \in Left(p) \ rewound : i \notin given
    /\ \A p, q \in Idgen : p # q =>
         /\ \A i \in Carried(p) \ rewound : i \notin Carried(q) /\ i \notin Left(q)
         /\ \A i \in Left(p) \ rewound : i \notin Left(q)

IdInv ==
    /\ IdTypeOK /\ NothingBeforeRow /\ ClaimedBelow /\ HeldIsClaimed /\ HeldOnce
    /\ TwiceOnlyAfterRewind

LEMMA IdInitInv == IdInit => IdInv
  <1> SUFFICES ASSUME IdInit PROVE IdInv
    OBVIOUS
  <1>1. \A p \in Idgen : Carried(p) = {} /\ Left(p) = {} /\ idgen[p].pc = "idle" /\ ~Running(p)
    BY DEF IdInit, Carried, Left, Idle, Empty, Running
  <1>2. IdTypeOK
    BY IdSegmentsAssumption
    DEF IdInit, IdTypeOK, IdProcess, Rows, NoRow, Idle, Empty
  <1>3. NothingBeforeRow /\ ClaimedBelow /\ TwiceOnlyAfterRewind
    BY <1>1 DEF IdInit, NothingBeforeRow, ClaimedBelow, TwiceOnlyAfterRewind, Claiming
  <1>4. HeldIsClaimed /\ HeldOnce
    BY <1>1 DEF IdInit, HeldIsClaimed, HeldOnce
  <1> QED
    BY <1>2, <1>3, <1>4 DEF IdInv

(* The types of an instance's records. *)
LEMMA IdTypeAt ==
  ASSUME IdTypeOK, NEW p \in Idgen
  PROVE  /\ cache[p] \in [cur : Nat, max : Nat] /\ cache[p].cur \in Nat /\ cache[p].max \in Nat
         /\ idgen[p] \in IdProcess /\ idgen[p].need \in Nat /\ idgen[p].tries \in Nat
         /\ idgen[p].taken \in SUBSET Nat
         /\ idgen[p].seen \in Rows /\ idgen[p].seen.max \in Nat /\ idgen[p].seen.version \in Nat
         /\ row \in Rows /\ row.max \in Nat /\ row.version \in Nat
  BY DEF IdTypeOK, IdProcess, Rows

(* An instance that forgets its request, and perhaps its cache, keeps the  *)
(* invariant, whatever mode it is left in.                                 *)
LEMMA ForgetInv ==
  ASSUME IdInv, NEW p \in Idgen,
         NEW mode \in {"down", "booting", "up", "saved"},
         idgen' = [idgen EXCEPT ![p] = Idle(mode)],
         mode \in {"up", "saved"} => ~row.absent,
         cache' = cache \/ cache' = [cache EXCEPT ![p] = Empty],
         UNCHANGED <<row, claimed, given, twice, rewound, saves>>
  PROVE  IdInv'
  <1>1. Idle(mode) \in IdProcess /\ Empty \in [cur : Nat, max : Nat]
    BY DEF Idle, IdProcess, Rows, NoRow, Empty
  <1>2. IdTypeOK'
    BY <1>1 DEF IdInv, IdTypeOK
  <1>3. /\ Carried(p)' = {} /\ idgen'[p].pc = "idle" /\ idgen'[p].mode = mode
        /\ \A q \in Idgen \ {p} : idgen'[q] = idgen[q] /\ cache'[q] = cache[q]
    BY DEF IdInv, IdTypeOK, Carried, Idle
  <1>4. \A q \in Idgen : Left(q)' \subseteq Left(q) /\ Carried(q)' \subseteq Carried(q)
    <2>1. CASE cache' = cache
      BY <1>3, <2>1 DEF Left, Carried
    <2>2. CASE cache' = [cache EXCEPT ![p] = Empty]
      <3>1. Left(p)' = {}
        BY <2>2 DEF IdInv, IdTypeOK, Left, Empty
      <3> QED
        BY <1>3, <3>1 DEF Left, Carried
    <2> QED
      BY <2>1, <2>2
  <1>5. NothingBeforeRow' /\ ClaimedBelow' /\ TwiceOnlyAfterRewind'
    BY <1>3 DEF IdInv, NothingBeforeRow, ClaimedBelow, TwiceOnlyAfterRewind, Claiming, Running
  <1>6. HeldIsClaimed' /\ HeldOnce'
    BY <1>4 DEF IdInv, HeldIsClaimed, HeldOnce
  <1> QED
    BY <1>2, <1>5, <1>6 DEF IdInv

LEMMA IdStepInv == IdInv /\ [IdNext]_idVars => IdInv'
  <1> SUFFICES ASSUME IdInv, [IdNext]_idVars PROVE IdInv'
    OBVIOUS
  <1>t. IdTypeOK
    BY DEF IdInv
  <1>0. CASE UNCHANGED idVars
    BY <1>0
    DEF idVars, IdInv, IdTypeOK, NothingBeforeRow, ClaimedBelow, HeldIsClaimed, HeldOnce,
        TwiceOnlyAfterRewind, Carried, Left, Claiming, Running
  <1>1. ASSUME NEW p \in Idgen, Boot(p) PROVE IdInv'
    <2>1. CASE row.absent
      BY <1>1, <2>1, ForgetInv DEF Boot
    <2>2. CASE ~row.absent
      BY <1>1, <2>2, ForgetInv DEF Boot
    <2> QED
      BY <2>1, <2>2
  <1>2. ASSUME NEW p \in Idgen, CreateRow(p) PROVE IdInv'
    <2>1. CASE ~row.absent
      BY <1>2, <2>1, ForgetInv DEF CreateRow
    <2>2. CASE row.absent
      <3>1. /\ row' = Row(MinID - 1, 0) /\ idgen' = [idgen EXCEPT ![p] = Idle("up")]
            /\ MinID - 1 \in Nat
        BY <1>2, <2>2, IdSegmentsAssumption DEF CreateRow
      <3>2. Idle("up") \in IdProcess /\ row' \in Rows /\ row'.absent = FALSE
        BY <3>1 DEF Idle, IdProcess, Rows, NoRow, Row
      <3>3. IdTypeOK'
        BY <1>2, <1>t, <3>1, <3>2 DEF CreateRow, IdTypeOK
      <3>4. \A q \in Idgen : idgen'[q].pc = "idle"
        BY <2>2, <3>1, <1>t DEF IdInv, NothingBeforeRow, IdTypeOK, Idle
      <3>5. \A q \in Idgen : Left(q)' = Left(q) /\ Carried(q)' \subseteq Carried(q)
        BY <1>2, <3>1, <1>t DEF CreateRow, Left, Carried, IdTypeOK, Idle
      <3>6. NothingBeforeRow' /\ ClaimedBelow' /\ TwiceOnlyAfterRewind'
        BY <1>2, <2>2, <3>2, <3>4
        DEF CreateRow, IdInv, NothingBeforeRow, ClaimedBelow, TwiceOnlyAfterRewind, Claiming
      <3>7. HeldIsClaimed' /\ HeldOnce'
        BY <1>2, <3>5 DEF CreateRow, IdInv, HeldIsClaimed, HeldOnce
      <3> QED
        BY <3>3, <3>6, <3>7 DEF IdInv
    <2> QED
      BY <2>1, <2>2
  <1>3. ASSUME NEW p \in Idgen, IdgenStops(p) PROVE IdInv'
    BY <1>3, ForgetInv DEF IdgenStops
  <1>4. ASSUME NEW p \in Idgen, GetFails(p) PROVE IdInv'
    <2>1. idgen[p].mode \in {"up", "saved"} /\ ~row.absent
      BY <1>4, <1>t DEF GetFails, IdInv, NothingBeforeRow, IdTypeOK, IdProcess, Running
    <2> QED
      BY <1>4, <2>1, ForgetInv DEF GetFails
  <1>5. ASSUME NEW p \in Idgen, NEW count \in 1..MaxCount, GetNextIDs(p, count) PROVE IdInv'
    <2>1. /\ idgen' = [idgen EXCEPT ![p].pc = "serving", ![p].need = count]
          /\ [idgen[p] EXCEPT !.pc = "serving", !.need = count] \in IdProcess
      <3>1. count \in Nat /\ idgen[p] \in IdProcess
        BY <1>t, IdTypeAt, IdSegmentsAssumption
      <3> QED
        BY <1>5, <3>1 DEF GetNextIDs, IdProcess
    <2>2. IdTypeOK'
      BY <1>5, <1>t, <2>1 DEF GetNextIDs, IdTypeOK
    <2>3. \A q \in Idgen : Left(q)' = Left(q) /\ Carried(q)' = Carried(q)
      BY <1>5, <1>t, <2>1 DEF GetNextIDs, Left, Carried, IdTypeOK
    <2>a. UNCHANGED <<row, claimed, given, twice, rewound>> /\ Running(p)
      BY <1>5 DEF GetNextIDs
    <2>b. /\ idgen'[p].pc = "serving" /\ idgen'[p].mode = idgen[p].mode
          /\ \A q \in Idgen \ {p} : idgen'[q] = idgen[q]
      BY <2>1, <1>t DEF IdTypeOK
    <2>4. NothingBeforeRow'
      BY <2>a, <2>b DEF IdInv, NothingBeforeRow, Running
    <2>5. ClaimedBelow' /\ TwiceOnlyAfterRewind'
      BY <2>a, <2>b DEF IdInv, ClaimedBelow, TwiceOnlyAfterRewind, Claiming
    <2>6. HeldIsClaimed' /\ HeldOnce'
      BY <2>a, <2>3 DEF IdInv, HeldIsClaimed, HeldOnce
    <2> QED
      BY <2>2, <2>4, <2>5, <2>6 DEF IdInv
  <1>6. ASSUME NEW p \in Idgen, TakeIDs(p) PROVE IdInv'
    <2> DEFINE cur == cache[p].cur
               room == cache[p].max - cur
               n == IF idgen[p].need < room THEN idgen[p].need ELSE room
               now == (cur + 1)..(cur + n)
               next == [idgen[p] EXCEPT !.need = @ - n, !.taken = @ \cup now]
    <2>1. /\ cur \in Nat /\ cache[p].max \in Nat /\ idgen[p].need \in Nat /\ idgen[p] \in IdProcess
          /\ n \in Nat /\ idgen[p].need - n \in Nat /\ cur + n \in Nat /\ cur + n <= cache[p].max
      BY <1>6, <1>t, IdTypeAt DEF TakeIDs
    <2>2. /\ cache' = [cache EXCEPT ![p].cur = cur + n]
          /\ idgen' = [idgen EXCEPT ![p].need = @ - n, ![p].taken = @ \cup now]
          /\ UNCHANGED <<row, claimed, given, twice, rewound, saves>>
      BY <1>6 DEF TakeIDs
    <2>3. next \in IdProcess
      <3>1. now \in SUBSET Nat
        BY <2>1
      <3> HIDE DEF n, now
      <3> QED
        BY <2>1, <3>1 DEF IdProcess
    <2>4. /\ now \subseteq Left(p)
          /\ Left(p)' = Left(p) \ now
      BY <2>1, <2>2, <1>t DEF Left, IdTypeOK
    <2> HIDE DEF n, now
    <2>5. IdTypeOK'
      BY <2>1, <2>2, <2>3, <1>t DEF IdTypeOK
    <2>6. Carried(p)' = Carried(p) \cup now
      BY <2>2, <1>t DEF Carried, IdTypeOK
    <2>7. \A q \in Idgen \ {p} : Left(q)' = Left(q) /\ Carried(q)' = Carried(q)
      BY <2>2, <1>t DEF Carried, Left, IdTypeOK
    <2>8. \A q \in Idgen : /\ idgen'[q].pc = idgen[q].pc /\ idgen'[q].mode = idgen[q].mode
                          /\ idgen'[q].seen = idgen[q].seen
      BY <2>2, <1>t DEF IdTypeOK
    <2>9. NothingBeforeRow' /\ ClaimedBelow' /\ TwiceOnlyAfterRewind'
      BY <2>2, <2>8
      DEF IdInv, NothingBeforeRow, ClaimedBelow, TwiceOnlyAfterRewind, Claiming, Running
    <2>10. HeldIsClaimed' /\ HeldOnce'
      BY <2>2, <2>4, <2>6, <2>7 DEF IdInv, HeldIsClaimed, HeldOnce
    <2> QED
      BY <2>5, <2>9, <2>10 DEF IdInv
  <1>7. ASSUME NEW p \in Idgen, ReturnIDs(p) PROVE IdInv'
    <2>1. /\ given' = given \cup Carried(p) /\ twice' = twice \cup (given \cap Carried(p))
          /\ idgen' = [idgen EXCEPT ![p] = Idle(idgen[p].mode)]
          /\ UNCHANGED <<row, cache, claimed, rewound, saves>>
      BY <1>7 DEF ReturnIDs, Carried
    <2>2. Idle(idgen[p].mode) \in IdProcess /\ Carried(p) \subseteq Nat
      BY <1>t, IdTypeAt DEF Idle, IdProcess, Rows, NoRow, Carried
    <2>3. IdTypeOK'
      BY <2>1, <2>2, <1>t DEF IdTypeOK
    <2>4. /\ Carried(p)' = {} /\ idgen'[p].pc = "idle" /\ idgen'[p].mode = idgen[p].mode
          /\ \A q \in Idgen \ {p} : idgen'[q] = idgen[q]
          /\ \A q \in Idgen : Left(q)' = Left(q)
      BY <2>1, <1>t DEF IdTypeOK, Carried, Left, Idle
    <2>5. NothingBeforeRow' /\ ClaimedBelow'
      BY <2>1, <2>4 DEF IdInv, NothingBeforeRow, ClaimedBelow, Claiming, Running
    <2>6. HeldIsClaimed' /\ HeldOnce'
      BY <2>1, <2>4 DEF IdInv, HeldIsClaimed, HeldOnce, Carried
    <2>7. TwiceOnlyAfterRewind'
      BY <2>1 DEF IdInv, HeldOnce, TwiceOnlyAfterRewind
    <2> QED
      BY <2>3, <2>5, <2>6, <2>7 DEF IdInv
  <1>8. ASSUME NEW p \in Idgen, ReadSegment(p) PROVE IdInv'
    <2> DEFINE next == [idgen[p] EXCEPT !.pc = "claiming", !.seen = row]
    <2>0. Running(p) /\ ~row.absent /\ idgen[p].mode \in {"up", "saved"}
      BY <1>8 DEF ReadSegment, IdInv, NothingBeforeRow, Running
    <2>1. CASE row.max + Step > MaxID
      BY <1>8, <2>0, <2>1, ForgetInv DEF ReadSegment
    <2>2. CASE ~(row.max + Step > MaxID)
      <3>1. /\ idgen' = [idgen EXCEPT ![p] = next]
            /\ UNCHANGED <<row, cache, claimed, given, twice, rewound, saves>>
        BY <1>8, <2>2, <1>t DEF ReadSegment, IdTypeOK
      <3>2. /\ next \in IdProcess /\ next.pc = "claiming" /\ next.seen = row
            /\ next.mode = idgen[p].mode /\ next.taken = idgen[p].taken
        BY <1>t, IdTypeAt DEF IdProcess
      <3> HIDE DEF next
      <3>3. idgen'[p] = next /\ \A q \in Idgen \ {p} : idgen'[q] = idgen[q]
        BY <3>1, <1>t DEF IdTypeOK
      <3>4. IdTypeOK'
        BY <3>1, <3>2, <1>t DEF IdTypeOK
      <3>5. \A q \in Idgen : Left(q)' = Left(q) /\ Carried(q)' = Carried(q)
        BY <3>1, <3>2, <3>3 DEF Left, Carried
      <3>6. NothingBeforeRow' /\ TwiceOnlyAfterRewind'
        BY <2>0, <3>1, <3>2, <3>3 DEF IdInv, NothingBeforeRow, TwiceOnlyAfterRewind, Running
      <3>7. ClaimedBelow'
        BY <3>1, <3>2, <3>3, <1>t, IdTypeAt DEF IdInv, ClaimedBelow, Claiming
      <3>8. HeldIsClaimed' /\ HeldOnce'
        BY <3>1, <3>5 DEF IdInv, HeldIsClaimed, HeldOnce
      <3> QED
        BY <3>4, <3>6, <3>7, <3>8 DEF IdInv
    <2> QED
      BY <2>1, <2>2
  <1>9. ASSUME NEW p \in Idgen, ClaimSegment(p) PROVE IdInv'
    <2> DEFINE seen == idgen[p].seen
               top == seen.max + Step
               new == (seen.max + 1)..top
               next == [idgen[p] EXCEPT !.pc = "serving", !.seen = NoRow, !.tries = 0]
    <2>0. /\ idgen[p].pc = "claiming" /\ row.version = seen.version
          /\ row' = Row(top, row.version + 1)
          /\ cache' = [cache EXCEPT ![p] = [cur |-> seen.max, max |-> top]]
          /\ claimed' = claimed \cup new
          /\ idgen' = [idgen EXCEPT ![p] = next]
          /\ UNCHANGED <<given, twice, rewound, saves>>
      BY <1>9, <1>t DEF ClaimSegment, IdTypeOK
    <2>1. /\ seen.max \in Nat /\ top \in Nat /\ new \subseteq Nat /\ seen.max <= top
          /\ row.version \in Nat /\ row.max \in Nat /\ idgen[p] \in IdProcess
      BY <1>t, IdTypeAt, IdSegmentsAssumption
    <2>2. /\ next \in IdProcess /\ next.pc = "serving"
          /\ next.mode = idgen[p].mode /\ next.taken = idgen[p].taken
      BY <2>1 DEF IdProcess, Rows, NoRow
    <2>3. row' \in Rows /\ row'.max = top /\ row'.version = row.version + 1 /\ ~row'.absent
      BY <2>0, <2>1 DEF Row, Rows
    <2>4. \A i \in new : i \in claimed => i \in rewound
      BY <2>0, <2>1, <1>t DEF IdInv, ClaimedBelow, Claiming, IdTypeOK
    <2> HIDE DEF next
    <2>5. idgen'[p] = next /\ \A q \in Idgen \ {p} : idgen'[q] = idgen[q]
      BY <2>0, <1>t DEF IdTypeOK
    <2>6. IdTypeOK'
      BY <2>0, <2>1, <2>2, <2>3, <1>t DEF IdTypeOK
    <2>7. /\ Left(p)' = new
          /\ \A q \in Idgen \ {p} : Left(q)' = Left(q)
          /\ \A q \in Idgen : Carried(q)' = Carried(q)
      BY <2>0, <2>2, <2>5, <1>t DEF Left, Carried, IdTypeOK
    <2>8. NothingBeforeRow' /\ TwiceOnlyAfterRewind'
      BY <2>0, <2>2, <2>3, <2>5 DEF IdInv, NothingBeforeRow, TwiceOnlyAfterRewind, Running
    <2>9. ClaimedBelow'
      <3>1. \A i \in claimed' \ rewound' : i <= row'.max
        <4>1. \A i \in claimed \ rewound : i <= seen.max /\ i \in Nat
          BY <2>0, <1>t DEF IdInv, ClaimedBelow, Claiming, IdTypeOK
        <4> QED
          BY <2>0, <2>1, <2>3, <4>1
      <3>2. \A q \in Idgen : Claiming(q)' => idgen'[q].seen.version < row'.version
                                           /\ idgen'[q].seen.version \in Nat
        BY <2>1, <2>2, <2>3, <2>5, <1>t, IdTypeAt DEF IdInv, ClaimedBelow, Claiming
      <3> QED
        BY <2>1, <2>3, <3>1, <3>2 DEF ClaimedBelow
    <2> HIDE DEF new, top, seen
    <2>10. HeldIsClaimed'
      BY <2>0, <2>7 DEF IdInv, HeldIsClaimed
    <2>11. HeldOnce'
      BY <2>0, <2>4, <2>7 DEF IdInv, HeldIsClaimed, HeldOnce
    <2> QED
      BY <2>6, <2>8, <2>9, <2>10, <2>11 DEF IdInv
  <1>10. ASSUME NEW p \in Idgen, RetrySegment(p) PROVE IdInv'
    <2> DEFINE next == [idgen[p] EXCEPT !.pc = "serving", !.seen = NoRow, !.tries = @ + 1]
    <2>0. Running(p) /\ ~row.absent /\ idgen[p].mode \in {"up", "saved"}
      BY <1>10 DEF RetrySegment, IdInv, NothingBeforeRow, Running
    <2>1. CASE ~(idgen[p].tries + 1 < MaxTries)
      BY <1>10, <2>0, <2>1, ForgetInv DEF RetrySegment
    <2>2. CASE idgen[p].tries + 1 < MaxTries
      <3>1. /\ idgen' = [idgen EXCEPT ![p] = next]
            /\ UNCHANGED <<row, cache, claimed, given, twice, rewound, saves>>
        BY <1>10, <2>2, <1>t DEF RetrySegment, IdTypeOK
      <3>2. /\ next \in IdProcess /\ next.pc = "serving"
            /\ next.mode = idgen[p].mode /\ next.taken = idgen[p].taken
        <4>1. idgen[p].tries + 1 \in Nat /\ NoRow \in Rows
          BY <1>t, IdTypeAt DEF NoRow, Rows
        <4> QED
          BY <1>t, <4>1, IdTypeAt DEF IdProcess
      <3> HIDE DEF next
      <3>3. idgen'[p] = next /\ \A q \in Idgen \ {p} : idgen'[q] = idgen[q]
        BY <3>1, <1>t DEF IdTypeOK
      <3>4. IdTypeOK'
        BY <3>1, <3>2, <1>t DEF IdTypeOK
      <3>5. \A q \in Idgen : Left(q)' = Left(q) /\ Carried(q)' = Carried(q)
        BY <3>1, <3>2, <3>3 DEF Left, Carried
      <3>6. NothingBeforeRow' /\ TwiceOnlyAfterRewind'
        BY <2>0, <3>1, <3>2, <3>3 DEF IdInv, NothingBeforeRow, TwiceOnlyAfterRewind, Running
      <3>7. ClaimedBelow'
        BY <3>1, <3>2, <3>3 DEF IdInv, ClaimedBelow, Claiming
      <3>8. HeldIsClaimed' /\ HeldOnce'
        BY <3>1, <3>5 DEF IdInv, HeldIsClaimed, HeldOnce
      <3> QED
        BY <3>4, <3>6, <3>7, <3>8 DEF IdInv
    <2> QED
      BY <2>1, <2>2
  <1>11. ASSUME NEW p \in Idgen, SaveCacheState(p) PROVE IdInv'
    <2> DEFINE cur == cache[p].cur
    <2>0. /\ idgen[p].mode = "up" /\ idgen[p].pc = "idle"
          /\ saves < MaxSaves /\ saves' = saves + 1
          /\ idgen' = [idgen EXCEPT ![p].mode = "saved"]
          /\ UNCHANGED <<cache, claimed, given, twice>>
      BY <1>11 DEF SaveCacheState
    <2>1. [idgen[p] EXCEPT !.mode = "saved"] \in IdProcess /\ cur \in Nat
      BY <1>t, IdTypeAt DEF IdProcess
    <2>2. /\ \A q \in Idgen : /\ idgen'[q].pc = idgen[q].pc /\ idgen'[q].seen = idgen[q].seen
                              /\ idgen'[q].taken = idgen[q].taken
          /\ idgen'[p].mode = "saved"
          /\ \A q \in Idgen \ {p} : idgen'[q].mode = idgen[q].mode
      BY <2>0, <1>t DEF IdTypeOK
    <2>3. /\ row' \in Rows /\ row'.absent = row.absent /\ row'.version = row.version
          /\ rewound \subseteq rewound' /\ rewound' \subseteq Nat
          /\ \A i \in claimed \ rewound' : i <= row'.max
      <3>1. CASE cur > 0
        <4>1. row' = [row EXCEPT !.max = cur] /\ rewound' = rewound \cup {i \in claimed : i > cur}
          BY <1>11, <3>1 DEF SaveCacheState
        <4>2. row' \in Rows /\ row'.absent = row.absent /\ row'.version = row.version
              /\ row'.max = cur
          BY <2>1, <4>1, <1>t DEF IdTypeOK, Rows
        <4> QED
          BY <2>1, <4>1, <4>2, <1>t DEF IdTypeOK
      <3>2. CASE ~(cur > 0)
        BY <1>11, <3>2, <1>t DEF SaveCacheState, IdInv, ClaimedBelow, IdTypeOK
      <3> QED
        BY <3>1, <3>2
    <2>4. IdTypeOK'
      BY <2>0, <2>1, <2>3, <1>t, IdSegmentsAssumption DEF IdTypeOK
    <2>5. \A q \in Idgen : Left(q)' = Left(q) /\ Carried(q)' = Carried(q)
      BY <2>0, <2>2 DEF Left, Carried
    <2>6. NothingBeforeRow'
      BY <2>0, <2>2, <2>3 DEF IdInv, NothingBeforeRow, Running
    <2>7. ClaimedBelow'
      BY <2>0, <2>2, <2>3 DEF IdInv, ClaimedBelow, Claiming
    <2>8. HeldIsClaimed' /\ HeldOnce' /\ TwiceOnlyAfterRewind'
      BY <2>0, <2>3, <2>5 DEF IdInv, HeldIsClaimed, HeldOnce, TwiceOnlyAfterRewind
    <2> QED
      BY <2>4, <2>6, <2>7, <2>8 DEF IdInv
  <1> QED
    BY <1>0, <1>1, <1>2, <1>3, <1>4, <1>5, <1>6, <1>7, <1>8, <1>9, <1>10, <1>11 DEF IdNext

(* An id reaches two callers only if a stopping instance had put it back.  *)
THEOREM IdsTwiceOnlyAfterRewind == IdSpec => []TwiceOnlyAfterRewind
  <1>1. IdInv => TwiceOnlyAfterRewind
    BY DEF IdInv
  <1> QED
    BY <1>1, IdInitInv, IdStepInv, PTL DEF IdSpec
================================================================================
