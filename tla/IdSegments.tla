------------------------------ MODULE IdSegments ------------------------------
(***************************************************************************)
(* The id service (Idgen): instances hand out the ids of one business tag  *)
(* from segments they claim in a MySQL row under an optimistic lock        *)
(* (IdDAO.getNextSegment), and write their position back when they are     *)
(* told to stop (IdDAO.SaveCacheState, the runner's BeforeStop hook).      *)
(* Tags share nothing, so one of them is enough.  An instance serves one   *)
(* request of the tag at a time: GetNextIDs holds the cache's mutex, which *)
(* SaveCacheState takes too.                                               *)
(***************************************************************************)
EXTENDS Naturals, FiniteSets

CONSTANTS
    Idgen,      \* instances of the service
    MinID,      \* model.GetIDRange: the smallest ...
    MaxID,      \* ... and the largest id of the tag
    Step,       \* length of a segment
    MaxTries,   \* maxRetries of getNextSegment
    MaxCount,   \* bound on the ids one request asks for
    MaxSaves    \* bound on the graceful stops

ASSUME IdSegmentsAssumption ==
    /\ MinID \in Nat \ {0} /\ MaxID \in Nat /\ Step \in Nat \ {0}
    /\ MaxTries \in Nat \ {0} /\ MaxCount \in Nat /\ MaxSaves \in Nat

VARIABLES
    row,      \* the tag's row of id_segment, a record [max, version], or NoRow
    cache,    \* cache[p]: p's SegmentCache, [cur, max]; both 0 when empty
    idgen,    \* idgen[p]: what p is doing, see IdProcess
    claimed,  \* history: every id some instance has claimed in a segment
    given,    \* history: every id some caller has received
    twice,    \* history: the ids received a second time
    rewound,  \* history: claimed ids above the position of a save
    saves     \* graceful stops so far

idVars == <<row, cache, idgen, claimed, given, twice, rewound, saves>>

NoRow == [max |-> 0, version |-> 0, absent |-> TRUE]
Row(m, v) == [max |-> m, version |-> v, absent |-> FALSE]
Rows == [max : Nat, version : Nat, absent : BOOLEAN]

(* mode: "down", "booting" (InitBizTags has not found the row), "up" or    *)
(* "saved" (BeforeStop ran; the server stops only afterwards)              *)
(* pc: "idle", "serving" (in GetNextIDs), "claiming" (row read, update     *)
(* not yet sent); need: ids still to take; taken: ids of this request;     *)
(* seen: the row as read; tries: attempts of this getNextSegment           *)
IdProcess == [mode : {"down", "booting", "up", "saved"},
              pc : {"idle", "serving", "claiming"},
              need : Nat, taken : SUBSET Nat, seen : Rows, tries : Nat]

Idle(mode) == [mode |-> mode, pc |-> "idle", need |-> 0, taken |-> {},
               seen |-> NoRow, tries |-> 0]

Empty == [cur |-> 0, max |-> 0]

IdTypeOK ==
    /\ row \in Rows
    /\ cache \in [Idgen -> [cur : Nat, max : Nat]]
    /\ idgen \in [Idgen -> IdProcess]
    /\ claimed \subseteq Nat /\ given \subseteq Nat
    /\ twice \subseteq Nat /\ rewound \subseteq Nat
    /\ saves \in 0..MaxSaves

IdInit ==
    /\ row = NoRow
    /\ cache = [p \in Idgen |-> Empty]
    /\ idgen = [p \in Idgen |-> Idle("down")]
    /\ claimed = {} /\ given = {} /\ twice = {} /\ rewound = {}
    /\ saves = 0

Running(p) == idgen[p].mode \in {"up", "saved"}

--------------------------------------------------------------------------------
(* InitBizTags: look for the row ...                                       *)
Boot(p) ==
    /\ idgen[p].mode = "down"
    /\ idgen' = [idgen EXCEPT ![p] = Idle(IF row.absent THEN "booting" ELSE "up")]
    /\ UNCHANGED <<row, cache, claimed, given, twice, rewound, saves>>

(* ... and create it; biz_tag is unique, so the slower of two instances    *)
(* gets an error, which panics                                             *)
CreateRow(p) ==
    /\ idgen[p].mode = "booting"
    /\ row' = IF row.absent THEN Row(MinID - 1, 0) ELSE row
    /\ idgen' = [idgen EXCEPT ![p] = Idle(IF row.absent THEN "up" ELSE "down")]
    /\ UNCHANGED <<cache, claimed, given, twice, rewound, saves>>

(* the process ends, after a graceful stop or by a crash: the cache is lost *)
IdgenStops(p) ==
    /\ idgen[p].mode # "down"
    /\ cache' = [cache EXCEPT ![p] = Empty]
    /\ idgen' = [idgen EXCEPT ![p] = Idle("down")]
    /\ UNCHANGED <<row, claimed, given, twice, rewound, saves>>

--------------------------------------------------------------------------------
(* GetNextIDs                                                              *)

GetNextIDs(p, count) ==
    /\ Running(p) /\ idgen[p].pc = "idle"
    /\ idgen' = [idgen EXCEPT ![p].pc = "serving", ![p].need = count]
    /\ UNCHANGED <<row, cache, claimed, given, twice, rewound, saves>>

(* take what the current segment still has, up to the ids needed *)
TakeIDs(p) ==
    LET cur  == cache[p].cur
        room == cache[p].max - cur
        n    == IF idgen[p].need < room THEN idgen[p].need ELSE room
    IN /\ idgen[p].pc = "serving" /\ idgen[p].need > 0 /\ cur < cache[p].max
       /\ cache' = [cache EXCEPT ![p].cur = cur + n]
       /\ idgen' = [idgen EXCEPT ![p].need = @ - n, ![p].taken = @ \cup (cur + 1)..(cur + n)]
       /\ UNCHANGED <<row, claimed, given, twice, rewound, saves>>

(* the answer reaches the caller *)
ReturnIDs(p) ==
    /\ idgen[p].pc = "serving" /\ idgen[p].need = 0
    /\ given' = given \cup idgen[p].taken
    /\ twice' = twice \cup (given \cap idgen[p].taken)
    /\ idgen' = [idgen EXCEPT ![p] = Idle(idgen[p].mode)]
    /\ UNCHANGED <<row, cache, claimed, rewound, saves>>

(* an error of the database; the ids taken so far are not returned *)
GetFails(p) ==
    /\ idgen[p].pc # "idle"
    /\ idgen' = [idgen EXCEPT ![p] = Idle(idgen[p].mode)]
    /\ UNCHANGED <<row, cache, claimed, given, twice, rewound, saves>>

(* getNextSegment reads the row; it fails when the range is exhausted *)
ReadSegment(p) ==
    /\ idgen[p].pc = "serving" /\ idgen[p].need > 0 /\ cache[p].cur >= cache[p].max
    /\ idgen' = IF row.max + Step > MaxID
                THEN [idgen EXCEPT ![p] = Idle(idgen[p].mode)]
                ELSE [idgen EXCEPT ![p].pc = "claiming", ![p].seen = row]
    /\ UNCHANGED <<row, cache, claimed, given, twice, rewound, saves>>

\* Mutant: the update does not ask for the version.
ClaimAnyway(p) ==
    LET seen == idgen[p].seen IN
    /\ idgen[p].pc = "claiming"
    /\ row' = Row(seen.max + Step, seen.version + 1)
    /\ cache' = [cache EXCEPT ![p] = [cur |-> seen.max, max |-> seen.max + Step]]
    /\ claimed' = claimed \cup (seen.max + 1)..(seen.max + Step)
    /\ idgen' = [idgen EXCEPT ![p].pc = "serving", ![p].seen = NoRow, ![p].tries = 0]
    /\ UNCHANGED <<given, twice, rewound, saves>>

(* the update holds if the version has not moved: the segment is p's *)
ClaimSegment(p) ==
    LET seen == idgen[p].seen IN
    /\ idgen[p].pc = "claiming" /\ row.version = seen.version
    /\ row' = Row(seen.max + Step, seen.version + 1)
    /\ cache' = [cache EXCEPT ![p] = [cur |-> seen.max, max |-> seen.max + Step]]
    /\ claimed' = claimed \cup (seen.max + 1)..(seen.max + Step)
    /\ idgen' = [idgen EXCEPT ![p].pc = "serving", ![p].seen = NoRow, ![p].tries = 0]
    /\ UNCHANGED <<given, twice, rewound, saves>>

(* another instance was faster: read again, up to maxRetries times *)
RetrySegment(p) ==
    /\ idgen[p].pc = "claiming" /\ row.version # idgen[p].seen.version
    /\ idgen' = IF idgen[p].tries + 1 < MaxTries
                THEN [idgen EXCEPT ![p].pc = "serving", ![p].seen = NoRow, ![p].tries = @ + 1]
                ELSE [idgen EXCEPT ![p] = Idle(idgen[p].mode)]
    /\ UNCHANGED <<row, cache, claimed, given, twice, rewound, saves>>

--------------------------------------------------------------------------------
(* SaveCacheState: max_id becomes the instance's position, whatever the    *)
(* row says, and the version stays.  BeforeStop runs it while the server   *)
(* still serves.                                                           *)
SaveCacheState(p) ==
    LET cur == cache[p].cur IN
    /\ idgen[p].mode = "up" /\ idgen[p].pc = "idle"
    /\ saves < MaxSaves /\ saves' = saves + 1
    /\ idgen' = [idgen EXCEPT ![p].mode = "saved"]
    /\ row' = IF cur > 0 THEN [row EXCEPT !.max = cur] ELSE row
    /\ rewound' = IF cur > 0 THEN rewound \cup {i \in claimed : i > cur} ELSE rewound
    /\ UNCHANGED <<cache, claimed, given, twice>>

IdNext ==
    \E p \in Idgen :
        \/ Boot(p) \/ CreateRow(p) \/ IdgenStops(p) \/ SaveCacheState(p)
        \/ \E count \in 1..MaxCount : GetNextIDs(p, count)
        \/ TakeIDs(p) \/ ReturnIDs(p) \/ GetFails(p)
        \/ ReadSegment(p) \/ ClaimSegment(p) \/ RetrySegment(p)

IdSpec == IdInit /\ [][IdNext]_idVars

--------------------------------------------------------------------------------
(* Instances race for segments, crash in the middle of a request, lose the *)
(* optimistic lock and are stopped one by one.  An id reaches two callers  *)
(* only if a stopping instance had put it back: it lay above the position  *)
(* some SaveCacheState wrote although a segment with it was out.           *)
TwiceOnlyAfterRewind == twice \subseteq rewound

(* idgen_test.go:61 expects of every id that it was never handed out       *)
(* before.                                                                 *)
NoIdTwice == twice = {}

================================================================================
