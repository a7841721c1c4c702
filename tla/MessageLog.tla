----------------------------- MODULE MessageLog -----------------------------
(***************************************************************************)
(* The message log of one session: buckets of up to BucketSize messages in *)
(* MongoDB, appended to by several instances in any order of seq, and read *)
(* back in pages.                                                          *)
(*                                                                         *)
(* A bucket is the set of the seqs it holds; its min_seq, max_seq and      *)
(* count are kept by $min, $max and $inc of the same update, and are those *)
(* of the set.  No two messages of a session have one seq (SeqsUnique of   *)
(* MessagePipeline).                                                       *)
(***************************************************************************)
EXTENDS Integers, FiniteSets, FiniteSetsExt

CONSTANTS
  Appender,       \* instances of the Message service
  LogSeq,         \* the seqs the session's messages will get, of 64 bits
  BucketSize,     \* messages a bucket holds at most
  BucketScanPad,  \* buckets a page reads beyond the number it needs
  PageLimit       \* lengths of page that are asked for

ASSUME MessageLogAssumption ==
  /\ LogSeq \subseteq Nat /\ IsFiniteSet(LogSeq)
  /\ BucketSize \in Nat \ {0}
  /\ BucketScanPad \in Nat
  /\ PageLimit \subseteq Nat \ {0}

VARIABLES
  log,        \* the session's buckets
  upserting   \* the chunk for which an instance found no bucket, {} if none

logVars == <<log, upserting>>

Written == UNION log
Taken == Written \union UNION {upserting[w] : w \in Appender}

LogTypeOK ==
  /\ log \subseteq SUBSET LogSeq
  /\ upserting \in [Appender -> SUBSET LogSeq]
  /\ \A b \in log : Cardinality(b) \in 1..BucketSize

LogInit == log = {} /\ upserting = [w \in Appender |-> {}]

(***************************************************************************)
(* appendChunk: one FindOneAndUpdate takes the bucket with room that has   *)
(* the greatest min_seq.  Finding none and inserting a new bucket are two  *)
(* steps of the upsert, and two instances may take the first together.     *)
(***************************************************************************)
\* Mutant: room for one message is taken for room for all.
WithSomeRoom(chunk) == {b \in log : Cardinality(b) < BucketSize}

WithRoom(chunk) == {b \in log : Cardinality(b) <= BucketSize - Cardinality(chunk)}

AppendChunk(w, chunk) ==
  /\ upserting[w] = {}
  /\ chunk # {} /\ Cardinality(chunk) <= BucketSize
  /\ chunk \intersect Taken = {}
  /\ IF WithRoom(chunk) = {}
       THEN upserting' = [upserting EXCEPT ![w] = chunk] /\ UNCHANGED log
       ELSE LET newest == CHOOSE b \in WithRoom(chunk) :
                            \A c \in WithRoom(chunk) : Min(c) <= Min(b)
            IN  /\ log' = (log \ {newest}) \union {newest \union chunk}
                /\ UNCHANGED upserting

InsertBucket(w) ==
  /\ upserting[w] # {}
  /\ log' = log \union {upserting[w]}
  /\ upserting' = [upserting EXCEPT ![w] = {}]

LogNext ==
  \E w \in Appender :
    \/ \E chunk \in SUBSET LogSeq : AppendChunk(w, chunk)
    \/ InsertBucket(w)

LogSpec == LogInit /\ [][LogNext]_logVars

(***************************************************************************)
(* FindByConversation; a negative bound is no bound                        *)
(***************************************************************************)
Smallest(S, n) == {x \in S : Cardinality({y \in S : y < x}) < n}
Greatest(S, n) == {x \in S : Cardinality({y \in S : y > x}) < n}

InRange(startSeq, endSeq) ==
  {s \in LogSeq : (startSeq >= 0 => s >= startSeq) /\ (endSeq >= 0 => s <= endSeq)}

\* Mutant: no bucket beyond the number a page needs when they are full.
BucketLimitTight(limit) == (limit \div BucketSize) + 1

BucketLimit(limit) == (limit \div BucketSize) + 1 + BucketScanPad

FindByConversation(startSeq, endSeq, limit) ==
  LET ascending == startSeq >= 0 /\ endSeq < 0
      met == {b \in log : /\ startSeq >= 0 => Max(b) >= startSeq
                          /\ endSeq >= 0 => Min(b) <= endSeq}
      mins == {Min(b) : b \in met}
      scanned == {b \in met : Min(b) \in IF ascending THEN Smallest(mins, BucketLimit(limit))
                                                      ELSE Greatest(mins, BucketLimit(limit))}
      found == (UNION scanned) \intersect InRange(startSeq, endSeq)
  IN  IF ascending THEN Smallest(found, limit) ELSE Greatest(found, limit)

\* What a log that was one sorted array would answer.
Page(startSeq, endSeq, limit) ==
  LET found == Written \intersect InRange(startSeq, endSeq)
  IN  IF startSeq >= 0 /\ endSeq < 0 THEN Smallest(found, limit) ELSE Greatest(found, limit)

(***************************************************************************)
(* Properties                                                              *)
(***************************************************************************)
Overlap(b, c) == Min(b) <= Max(c) /\ Min(c) <= Max(b)
Ragged == {b \in log : \/ Cardinality(b) < BucketSize
                       \/ \E c \in log \ {b} : Overlap(b, c)}

\* The scan's few extra buckets are enough: while fewer than BucketScanPad
\* buckets are partly filled or overlap another, every page is exactly what
\* the whole sorted log would give, in either direction, with no gap and no
\* short page (dao/message.go FindByConversation, bucketScanPad).
PageIsExact ==
  Cardinality(Ragged) < BucketScanPad =>
    \A startSeq \in Written \union {-1}, endSeq \in Written \union {-1}, limit \in PageLimit :
      FindByConversation(startSeq, endSeq, limit) = Page(startSeq, endSeq, limit)
=============================================================================
