---------------------------- MODULE Records_proofs ----------------------------
(***************************************************************************)
(* Theorems about SessionKeys and MessageLog, the rows of sessions and the *)
(* logs of their messages, and about MCRecords, which composes them with   *)
(* the other records.  They hold for any number of instances, keys and ids *)
(* and any seqs, sizes of bucket and lengths of page.                      *)
(***************************************************************************)
EXTENDS MCRecords, IdSegments_proofs, Groups_proofs, Friends_proofs,
        FiniteSetTheorems, WellFoundedInduction, TLAPS

(***************************************************************************)
(* SessionKeys                                                             *)
(***************************************************************************)

(* What the actions see of a resolution that is under way. *)
Resolving(r, pc, key) == resolver[r].pc = pc /\ resolver[r].key = key

(* Two rows of one key, or a row of a key that somebody still wants to     *)
(* create, are the traces of a race; the ids of the rows differ because    *)
(* session_id is unique; caches and messages know rows only.               *)
SkInv ==
    /\ SkTypeOK
    /\ used \subseteq session
    /\ \A r \in Resolver : keyCache[r] \subseteq session
    /\ \A a, b \in session : a.id = b.id => a = b
    /\ \A a, b \in session : a.key = b.key /\ a # b => a.key \in raced
    /\ \A r \in Resolver, entry \in session : Resolving(r, "create", entry.key) => entry.key \in raced

LEMMA SkInitInv == SkInit => SkInv
  BY SessionKeysAssumption
  DEF SkInit, SkInv, SkTypeOK, Resolving, NotResolving, Resolution

(* A resolution that ends with a row of the table keeps the invariant. *)
LEMMA ResolvedInv ==
  ASSUME SkInv, NEW r \in Resolver, NEW entry \in session,
         Resolved(r, entry), UNCHANGED <<session, proposed, raced>>
  PROVE  SkInv'
  <1>1. entry \in SessionRows /\ NotResolving \in Resolution
    BY DEF SkInv, SkTypeOK, NotResolving, Resolution
  <1>2. SkTypeOK'
    BY <1>1 DEF SkInv, SkTypeOK, Resolved
  <1>3. \A q \in Resolver, x \in session : Resolving(q, "create", x.key)' => Resolving(q, "create", x.key)
    BY DEF Resolved, Resolving, NotResolving, SkInv, SkTypeOK
  <1> QED
    BY <1>2, <1>3 DEF SkInv, Resolved, SkTypeOK

(* A new attempt keeps it. *)
LEMMA AttemptInv ==
  ASSUME SkInv, NEW r \in Resolver, NEW key \in Key, NEW id \in SessionID,
         NEW tries \in 0..MaxAttempts, Attempt(r, key, id, tries),
         UNCHANGED <<session, keyCache, used, raced>>
  PROVE  SkInv'
  <1> DEFINE new == [pc |-> "find", key |-> key, id |-> id, tries |-> tries]
  <1>1. new \in Resolution
    BY DEF Resolution
  <1>2. resolver' = [resolver EXCEPT ![r] = new]
    BY DEF Attempt
  <1>3. proposed' \in [Resolver -> SUBSET SessionID]
    BY DEF Attempt, SkInv, SkTypeOK
  <1>4. SkTypeOK'
    BY <1>1, <1>2, <1>3 DEF SkInv, SkTypeOK
  <1>5. \A q \in Resolver, x \in session : Resolving(q, "create", x.key)' => Resolving(q, "create", x.key)
    BY <1>2 DEF Resolving, SkInv, SkTypeOK
  <1> QED
    BY <1>4, <1>5 DEF SkInv

(* A resolution that is given up keeps it. *)
LEMMA GivenUpInv ==
  ASSUME SkInv, NEW r \in Resolver, resolver' = [resolver EXCEPT ![r] = NotResolving],
         UNCHANGED <<session, keyCache, proposed, used, raced>>
  PROVE  SkInv'
  <1>1. NotResolving \in Resolution
    BY DEF NotResolving, Resolution
  <1>2. SkTypeOK'
    BY <1>1 DEF SkInv, SkTypeOK
  <1>3. \A q \in Resolver, x \in session : Resolving(q, "create", x.key)' => Resolving(q, "create", x.key)
    BY DEF Resolving, NotResolving, SkInv, SkTypeOK
  <1> QED
    BY <1>2, <1>3 DEF SkInv

LEMMA SkStepInv == SkInv /\ [SkNext]_skVars => SkInv'
  <1> SUFFICES ASSUME SkInv, [SkNext]_skVars PROVE SkInv'
    OBVIOUS
  <1>t. SkTypeOK
    BY DEF SkInv
  <1>0. CASE UNCHANGED skVars
    BY <1>0 DEF skVars, SkInv, SkTypeOK, Resolving
  <1>1. ASSUME NEW r \in Resolver, NEW key \in Key, ResolveCached(r, key) PROVE SkInv'
    BY <1>1, ResolvedInv DEF ResolveCached, SkInv
  <1>2. ASSUME NEW r \in Resolver, NEW key \in Key, Resolve(r, key) PROVE SkInv'
    BY <1>2, AttemptInv, SessionKeysAssumption DEF Resolve
  <1>3. ASSUME NEW r \in Resolver, Find(r) PROVE SkInv'
    <2> DEFINE key == resolver[r].key
    <2>0. resolver[r] \in Resolution /\ resolver[r].pc = "find"
      BY <1>3, <1>t DEF Find, SkTypeOK
    <2>1. CASE RowsOf(key) # {}
      BY <1>3, <2>1, ResolvedInv DEF Find, First, RowsOf
    <2>2. CASE RowsOf(key) = {}
      <3>1. resolver' = [resolver EXCEPT ![r].pc = "create"]
        BY <1>3, <2>2 DEF Find
      <3>2. [resolver[r] EXCEPT !.pc = "create"] \in Resolution
        BY <2>0 DEF Resolution
      <3>3. SkTypeOK'
        BY <1>3, <2>2, <3>1, <3>2, <1>t DEF Find, SkTypeOK
      <3>4. \A q \in Resolver, x \in session : Resolving(q, "create", x.key)' => Resolving(q, "create", x.key)
        BY <2>0, <2>2, <3>1, <1>t DEF Resolving, SkTypeOK, RowsOf, Resolution
      <3> QED
        BY <1>3, <2>2, <3>3, <3>4 DEF Find, SkInv
    <2> QED
      BY <2>1, <2>2
  <1>4. ASSUME NEW r \in Resolver, Create(r) PROVE SkInv'
    <2> DEFINE key == resolver[r].key
               id  == resolver[r].id
               entry == [id |-> id, key |-> key]
    <2>0. /\ resolver[r] \in Resolution /\ resolver[r].pc = "create"
          /\ id \in SessionID /\ key \in Key /\ entry \in SessionRows
      <3>1. resolver[r] \in Resolution /\ resolver[r].pc = "create"
        BY <1>4, <1>t DEF Create, SkTypeOK
      <3> QED
        BY <3>1 DEF Resolution, SessionRows
    <2>1. /\ resolver' = [resolver EXCEPT ![r].pc = "check"]
          /\ [resolver[r] EXCEPT !.pc = "check"] \in Resolution
      BY <1>4, <2>0 DEF Create, Resolution
    <2>2. raced \subseteq raced' /\ raced' \subseteq Key
      BY <1>4, <2>0, <1>t DEF Create, SkTypeOK
    <2>3. SkTypeOK'
      BY <1>4, <2>0, <2>1, <2>2, <1>t DEF Create, SkTypeOK
    <2>4. \A q \in Resolver, x \in session : Resolving(q, "create", x.key)' => Resolving(q, "create", x.key)
      BY <2>0, <2>1, <1>t DEF Resolving, SkTypeOK
    <2>5. CASE \E x \in session : x.id = id
      BY <1>4, <2>2, <2>3, <2>4, <2>5 DEF Create, SkInv
    <2>6. CASE ~ \E x \in session : x.id = id
      <3>1. session' = session \cup {entry}
        BY <1>4, <2>6 DEF Create
      <3>2. \A a, b \in session' : a.id = b.id => a = b
        BY <2>6, <3>1 DEF SkInv
      <3>3. \A x \in session : x.key = key => key \in raced
        BY <2>0 DEF SkInv, Resolving
      <3>4. \A a, b \in session' : a.key = b.key /\ a # b => a.key \in raced'
        BY <2>2, <3>1, <3>3 DEF SkInv
      <3>5. \A q \in Resolver, x \in session' : Resolving(q, "create", x.key)' => x.key \in raced'
        <4> SUFFICES ASSUME NEW q \in Resolver, NEW x \in session', Resolving(q, "create", x.key)'
                     PROVE  x.key \in raced'
          OBVIOUS
        <4>1. CASE x \in session
          <5>1. Resolving(q, "create", x.key)
            BY <2>4, <4>1
          <5> QED
            BY <2>2, <4>1, <5>1 DEF SkInv
        <4>2. CASE x = entry
          <5>1. resolver'[q].pc = "create" /\ resolver'[q].key = key
            BY <4>2 DEF Resolving
          <5> QED
            BY <1>4, <2>0, <2>1, <4>2, <5>1, <1>t DEF Create, SkTypeOK
        <4> QED
          BY <3>1, <4>1, <4>2
      <3> QED
        BY <1>4, <2>3, <3>1, <3>2, <3>4, <3>5 DEF Create, SkInv
    <2> QED
      BY <2>5, <2>6
  <1>5. ASSUME NEW r \in Resolver, Confirm(r) PROVE SkInv'
    BY <1>5, ResolvedInv DEF Confirm
  <1>6. ASSUME NEW r \in Resolver, SessionIDConflict(r) PROVE SkInv'
    <2>0. resolver[r] \in Resolution /\ resolver[r].pc = "check"
      BY <1>6, <1>t DEF SessionIDConflict, SkTypeOK
    <2>1. resolver[r].key \in Key /\ resolver[r].tries \in 0..MaxAttempts
      BY <2>0 DEF Resolution
    <2>2. CASE resolver' = [resolver EXCEPT ![r] = NotResolving] /\ UNCHANGED proposed
      BY <1>6, <2>2, GivenUpInv DEF SessionIDConflict
    <2>3. ASSUME resolver[r].tries + 1 < MaxAttempts, NEW id \in SessionID,
                 Attempt(r, resolver[r].key, id, resolver[r].tries + 1)
          PROVE  SkInv'
      <3>1. resolver[r].tries + 1 \in 0..MaxAttempts
        BY <2>1, <2>3, SessionKeysAssumption
      <3> QED
        BY <1>6, <2>1, <2>3, <3>1, AttemptInv DEF SessionIDConflict
    <2> QED
      BY <1>6, <2>2, <2>3 DEF SessionIDConflict
  <1>7. ASSUME NEW r \in Resolver, ResolveFails(r) PROVE SkInv'
    BY <1>7, GivenUpInv DEF ResolveFails
  <1>8. ASSUME NEW r \in Resolver, NEW entry \in keyCache[r], Evict(r, entry) PROVE SkInv'
    <2>1. keyCache' \in [Resolver -> SUBSET SessionRows]
      BY <1>8, <1>t DEF Evict, SkTypeOK
    <2>2. \A q \in Resolver : keyCache'[q] \subseteq session
      BY <1>8, <1>t DEF Evict, SkInv, SkTypeOK
    <2> QED
      BY <1>8, <2>1, <2>2 DEF Evict, SkInv, SkTypeOK, Resolving
  <1> QED
    BY <1>0, <1>1, <1>2, <1>3, <1>4, <1>5, <1>6, <1>7, <1>8 DEF SkNext

(* Messages of two keys are never stored under one session id. *)
THEOREM ConversationsKeptApart == SkSpec => []KeysKeptApart
  <1>1. SkInv => KeysKeptApart
    BY DEF SkInv, KeysKeptApart
  <1> QED
    BY <1>1, SkInitInv, SkStepInv, PTL DEF SkSpec

(* A key's messages are under two ids only if two instances were about to  *)
(* create its session at the same time.                                    *)
THEOREM SplitNeedsRace == SkSpec => []SplitOnlyByRace
  <1>1. SkInv => SplitOnlyByRace
    BY DEF SkInv, SplitOnlyByRace
  <1> QED
    BY <1>1, SkInitInv, SkStepInv, PTL DEF SkSpec

(***************************************************************************)
(* MessageLog                                                              *)
(***************************************************************************)

(* A finite set of naturals has a greatest element: take one from a        *)
(* smallest set without it, and what is left has one.                      *)
LEMMA GreatestOf ==
  ASSUME NEW S \in SUBSET Nat, S # {}, IsFiniteSet(S)
  PROVE  \E n \in S : \A k \in S : n >= k
  <1> DEFINE Bad == {n \in Nat : \E R \in SUBSET S :
                       R # {} /\ Cardinality(R) = n /\ ~ \E m \in R : \A k \in R : m >= k}
  <1>0. \A R \in SUBSET S : IsFiniteSet(R) /\ Cardinality(R) \in Nat
    BY FS_Subset, FS_CardinalityType
  <1>1. SUFFICES ASSUME ~ \E n \in S : \A k \in S : n >= k PROVE FALSE
    OBVIOUS
  <1>2. Cardinality(S) \in Bad
    BY <1>0, <1>1
  <1>3. PICK n \in Bad : \A k \in Bad : n <= k
    <2>1. Bad \in SUBSET Nat /\ Bad # {}
      BY <1>2
    <2> HIDE DEF Bad
    <2> QED
      BY <2>1, NatLeast
  <1>4. PICK R \in SUBSET S : R # {} /\ Cardinality(R) = n /\ ~ \E m \in R : \A k \in R : m >= k
    BY <1>3
  <1>5. PICK x \in R : TRUE
    BY <1>4
  <1> DEFINE Q == R \ {x}
  <1>6. Q \in SUBSET S /\ Cardinality(Q) \in Nat /\ Cardinality(Q) = n - 1 /\ n \in Nat
    BY <1>0, <1>4, <1>5, FS_RemoveElement
  <1>7. CASE \E m \in Q : \A k \in Q : m >= k
    <2>1. PICK m \in Q : \A k \in Q : m >= k
      BY <1>7
    <2>2. m \in Nat /\ x \in Nat
      BY <1>5, <1>6
    <2>3. CASE m >= x
      BY <1>4, <2>1, <2>3
    <2>4. CASE x >= m
      <3>1. \A k \in R : x >= k
        BY <1>4, <2>1, <2>2, <2>4
      <3> QED
        BY <1>4, <1>5, <3>1
    <2> QED
      BY <2>2, <2>3, <2>4
  <1>8. CASE Q = {}
    BY <1>4, <1>5, <1>8
  <1>9. CASE Q # {} /\ ~ \E m \in Q : \A k \in Q : m >= k
    <2>1. Cardinality(Q) \in Bad
      BY <1>6, <1>9
    <2> HIDE DEF Bad, Q
    <2> QED
      BY <1>3, <1>6, <2>1
  <1> QED
    BY <1>7, <1>8, <1>9

LEMMA MinMaxFacts ==
  ASSUME NEW b \in SUBSET Nat, b # {}, IsFiniteSet(b)
  PROVE  /\ Min(b) \in b /\ Max(b) \in b
         /\ \A x \in b : Min(b) <= x /\ x <= Max(b)
  <1>1. Min(b) \in b /\ \A x \in b : Min(b) <= x
    BY NatLeast DEF Min
  <1>2. Max(b) \in b /\ \A x \in b : Max(b) >= x
    BY GreatestOf DEF Max
  <1> QED
    BY <1>1, <1>2

(* Cutting a set at its n-th element from either side leaves n, or all. *)
LEMMA GreatestIsFull ==
  ASSUME NEW S \in SUBSET Nat, IsFiniteSet(S), NEW n \in Nat, NEW z \in S, z \notin Greatest(S, n)
  PROVE  \E cut \in S \ Greatest(S, n) :
            /\ Cardinality({y \in S : y > cut}) >= n
            /\ {y \in S : y > cut} \subseteq Greatest(S, n)
            /\ cut >= z
  <1> DEFINE Out == S \ Greatest(S, n)
  <1>1. Out \in SUBSET Nat /\ Out # {} /\ IsFiniteSet(Out)
    BY FS_Subset DEF Greatest
  <1>2. PICK cut \in Out : \A k \in Out : cut >= k
    <2> HIDE DEF Out
    <2> QED
      BY <1>1, GreatestOf
  <1>3. Cardinality({y \in S : y > cut}) \in Nat
    BY FS_Subset, FS_CardinalityType
  <1>4. Cardinality({y \in S : y > cut}) >= n
    BY <1>2, <1>3 DEF Greatest
  <1>5. {y \in S : y > cut} \subseteq Greatest(S, n)
    <2>1. \A y \in S : y \in Nat /\ cut \in Nat
      BY <1>2
    <2>2. \A y \in S : y > cut => y \in Greatest(S, n)
      BY <1>2, <2>1
    <2> QED
      BY <2>2
  <1>6. cut \in Out /\ cut >= z
    BY <1>2
  <1> WITNESS cut \in S \ Greatest(S, n)
  <1> QED
    BY <1>4, <1>5, <1>6

LEMMA SmallestIsFull ==
  ASSUME NEW S \in SUBSET Nat, IsFiniteSet(S), NEW n \in Nat, NEW z \in S, z \notin Smallest(S, n)
  PROVE  \E cut \in S \ Smallest(S, n) :
            /\ Cardinality({y \in S : y < cut}) >= n
            /\ {y \in S : y < cut} \subseteq Smallest(S, n)
            /\ cut <= z
  <1> DEFINE Out == S \ Smallest(S, n)
  <1>1. Out \in SUBSET Nat /\ Out # {}
    BY DEF Smallest
  <1>2. PICK cut \in Out : \A k \in Out : cut <= k
    <2> HIDE DEF Out
    <2> QED
      BY <1>1, NatLeast
  <1>3. Cardinality({y \in S : y < cut}) \in Nat
    BY FS_Subset, FS_CardinalityType
  <1>4. Cardinality({y \in S : y < cut}) >= n
    BY <1>2, <1>3 DEF Smallest
  <1>5. {y \in S : y < cut} \subseteq Smallest(S, n)
    <2>1. \A y \in S : y \in Nat /\ cut \in Nat
      BY <1>2
    <2>2. \A y \in S : y < cut => y \in Smallest(S, n)
      BY <1>2, <2>1
    <2> QED
      BY <2>2
  <1>6. cut \in Out /\ cut <= z
    BY <1>2
  <1> WITNESS cut \in S \ Smallest(S, n)
  <1> QED
    BY <1>4, <1>5, <1>6

(* A page of S is a page of its part F if whatever of S lies outside F has *)
(* n members of F before it.                                               *)
LEMMA GreatestOfPart ==
  ASSUME NEW S \in SUBSET Nat, IsFiniteSet(S), NEW F \in SUBSET S, NEW n \in Nat,
         \A x \in S \ F : Cardinality({y \in F : y > x}) >= n
  PROVE  Greatest(F, n) = Greatest(S, n)
  <1>0. IsFiniteSet(F) /\ \A R \in SUBSET S : IsFiniteSet(R) /\ Cardinality(R) \in Nat
    BY FS_Subset, FS_CardinalityType
  <1>1. \A x \in S : Cardinality({y \in F : y > x}) <= Cardinality({y \in S : y > x})
    <2> TAKE x \in S
    <2>1. {y \in F : y > x} \in SUBSET {y \in S : y > x} /\ {y \in S : y > x} \in SUBSET S
      OBVIOUS
    <2> QED
      BY <1>0, <2>1, FS_Subset
  <1>2. ASSUME NEW x \in Greatest(S, n) PROVE x \in Greatest(F, n)
    <2>1. x \in S /\ Cardinality({y \in S : y > x}) < n
      BY <1>2 DEF Greatest
    <2>2. Cardinality({y \in F : y > x}) < n
      <3>1. {y \in F : y > x} \in SUBSET S /\ {y \in S : y > x} \in SUBSET S
        OBVIOUS
      <3> QED
        BY <1>0, <1>1, <2>1, <3>1
    <2>3. x \in F
      <3>1. {y \in F : y > x} \in SUBSET S
        OBVIOUS
      <3> QED
        BY <1>0, <2>1, <2>2, <3>1
    <2> QED
      BY <2>2, <2>3 DEF Greatest
  <1>3. ASSUME NEW x \in Greatest(F, n) PROVE x \in Greatest(S, n)
    <2>1. x \in F /\ Cardinality({y \in F : y > x}) < n
      BY <1>3 DEF Greatest
    <2>2. {y \in S : y > x} \subseteq F
      <3> SUFFICES ASSUME NEW z \in S \ F, z > x PROVE FALSE
        OBVIOUS
      <3>0. \A y \in F : y > z => y > x
        BY <2>1
      <3>1. {y \in F : y > z} \in SUBSET {y \in F : y > x} /\ {y \in F : y > x} \in SUBSET S
        BY <3>0
      <3>2. Cardinality({y \in F : y > z}) <= Cardinality({y \in F : y > x})
        BY <1>0, <3>1, FS_Subset
      <3>3. /\ Cardinality({y \in F : y > z}) \in Nat /\ Cardinality({y \in F : y > x}) \in Nat
            /\ Cardinality({y \in F : y > z}) >= n
        BY <1>0, <3>1
      <3> QED
        BY <2>1, <3>2, <3>3
    <2>3. {y \in S : y > x} = {y \in F : y > x}
      BY <2>2
    <2> QED
      BY <2>1, <2>3 DEF Greatest
  <1> QED
    BY <1>2, <1>3

LEMMA SmallestOfPart ==
  ASSUME NEW S \in SUBSET Nat, IsFiniteSet(S), NEW F \in SUBSET S, NEW n \in Nat,
         \A x \in S \ F : Cardinality({y \in F : y < x}) >= n
  PROVE  Smallest(F, n) = Smallest(S, n)
  <1>0. IsFiniteSet(F) /\ \A R \in SUBSET S : IsFiniteSet(R) /\ Cardinality(R) \in Nat
    BY FS_Subset, FS_CardinalityType
  <1>1. \A x \in S : Cardinality({y \in F : y < x}) <= Cardinality({y \in S : y < x})
    <2> TAKE x \in S
    <2>1. {y \in F : y < x} \in SUBSET {y \in S : y < x} /\ {y \in S : y < x} \in SUBSET S
      OBVIOUS
    <2> QED
      BY <1>0, <2>1, FS_Subset
  <1>2. ASSUME NEW x \in Smallest(S, n) PROVE x \in Smallest(F, n)
    <2>1. x \in S /\ Cardinality({y \in S : y < x}) < n
      BY <1>2 DEF Smallest
    <2>2. Cardinality({y \in F : y < x}) < n
      <3>1. {y \in F : y < x} \in SUBSET S /\ {y \in S : y < x} \in SUBSET S
        OBVIOUS
      <3> QED
        BY <1>0, <1>1, <2>1, <3>1
    <2>3. x \in F
      <3>1. {y \in F : y < x} \in SUBSET S
        OBVIOUS
      <3> QED
        BY <1>0, <2>1, <2>2, <3>1
    <2> QED
      BY <2>2, <2>3 DEF Smallest
  <1>3. ASSUME NEW x \in Smallest(F, n) PROVE x \in Smallest(S, n)
    <2>1. x \in F /\ Cardinality({y \in F : y < x}) < n
      BY <1>3 DEF Smallest
    <2>2. {y \in S : y < x} \subseteq F
      <3> SUFFICES ASSUME NEW z \in S \ F, z < x PROVE FALSE
        OBVIOUS
      <3>0. \A y \in F : y < z => y < x
        BY <2>1
      <3>1. {y \in F : y < z} \in SUBSET {y \in F : y < x} /\ {y \in F : y < x} \in SUBSET S
        BY <3>0
      <3>2. Cardinality({y \in F : y < z}) <= Cardinality({y \in F : y < x})
        BY <1>0, <3>1, FS_Subset
      <3>3. /\ Cardinality({y \in F : y < z}) \in Nat /\ Cardinality({y \in F : y < x}) \in Nat
            /\ Cardinality({y \in F : y < z}) >= n
        BY <1>0, <3>1
      <3> QED
        BY <2>1, <3>2, <3>3
    <2>3. {y \in S : y < x} = {y \in F : y < x}
      BY <2>2
    <2> QED
      BY <2>1, <2>3 DEF Smallest
  <1> QED
    BY <1>2, <1>3
LEMMA DisjointUnion ==
  ASSUME NEW S, NEW T, IsFiniteSet(S), IsFiniteSet(T), S \intersect T = {}
  PROVE  Cardinality(S \union T) = Cardinality(S) + Cardinality(T)
  <1>1. /\ Cardinality(S \union T) = Cardinality(S) + Cardinality(T) - Cardinality(S \intersect T)
        /\ Cardinality(S) \in Nat /\ Cardinality(T) \in Nat
    BY FS_Union, FS_CardinalityType
  <1>2. Cardinality(S \intersect T) = 0
    BY FS_EmptySet
  <1> QED
    BY <1>1, <1>2

(* Full buckets hold a multiple of BucketSize: the union of a smallest     *)
(* family for which it were not so would have one bucket too many.         *)
LEMMA UnionOfFull ==
  ASSUME NEW T \in SUBSET (SUBSET LogSeq), \A b \in T : Cardinality(b) = BucketSize,
         \A b, c \in T : b # c => b \intersect c = {}
  PROVE  Cardinality(UNION T) = Cardinality(T) * BucketSize
  <1> DEFINE Bad == {n \in Nat : \E R \in SUBSET T :
                       Cardinality(R) = n /\ Cardinality(UNION R) # n * BucketSize}
  <1>0. /\ IsFiniteSet(LogSeq) /\ BucketSize \in Nat
        /\ \A R \in SUBSET T : IsFiniteSet(R) /\ Cardinality(R) \in Nat /\ UNION R \in SUBSET LogSeq
        /\ \A s \in SUBSET LogSeq : IsFiniteSet(s) /\ Cardinality(s) \in Nat
    <2>1. IsFiniteSet(SUBSET LogSeq)
      BY MessageLogAssumption, FS_SUBSET
    <2> QED
      BY <2>1, MessageLogAssumption, FS_Subset, FS_CardinalityType
  <1> SUFFICES ASSUME Cardinality(UNION T) # Cardinality(T) * BucketSize PROVE FALSE
    OBVIOUS
  <1>1. Cardinality(T) \in Bad
    BY <1>0
  <1>2. PICK n \in Bad : \A k \in Bad : n <= k
    <2>1. Bad \in SUBSET Nat /\ Bad # {}
      BY <1>1
    <2> HIDE DEF Bad
    <2> QED
      BY <2>1, NatLeast
  <1>3. PICK R \in SUBSET T : Cardinality(R) = n /\ Cardinality(UNION R) # n * BucketSize
    BY <1>2
  <1>4. n \in Nat /\ R # {}
    <2>1. ASSUME R = {} PROVE FALSE
      <3>1. UNION R = {} /\ n = 0 /\ Cardinality(UNION R) = 0
        BY <1>3, <2>1, FS_EmptySet
      <3> QED
        BY <1>0, <1>3, <3>1
    <2> QED
      BY <1>2, <2>1
  <1>5. PICK b \in R : TRUE
    BY <1>4
  <1> DEFINE Q == R \ {b}
  <1>6. /\ Q \in SUBSET T /\ Cardinality(Q) = n - 1 /\ n - 1 \in Nat
    <2>1. IsFiniteSet(R) /\ Q \in SUBSET T /\ Cardinality(Q) \in Nat
      BY <1>0
    <2>2. Cardinality(Q) = n - 1
      BY <1>3, <1>5, <2>1, FS_RemoveElement
    <2> HIDE DEF Q
    <2> QED
      BY <2>1, <2>2
  <1>7. UNION R = (UNION Q) \union b /\ (UNION Q) \intersect b = {}
    BY <1>3, <1>5
  <1>8. Cardinality(UNION R) = Cardinality(UNION Q) + BucketSize
    <2>1. b \in SUBSET LogSeq /\ UNION Q \in SUBSET LogSeq /\ Cardinality(b) = BucketSize
      BY <1>0, <1>5, <1>6
    <2> HIDE DEF Q
    <2> QED
      BY <1>0, <1>7, <2>1, DisjointUnion
  <1>9. Cardinality(UNION Q) # (n - 1) * BucketSize
    <2>1. (n - 1) * BucketSize + BucketSize = n * BucketSize
      BY <1>0, <1>4
    <2> HIDE DEF Q
    <2> QED
      BY <1>3, <1>8, <2>1
  <1>10. n - 1 \in Bad
    BY <1>6, <1>9
  <1> HIDE DEF Bad
  <1> QED
    BY <1>2, <1>4, <1>10

(* A message is in one bucket only, of those stored and those about to be, *)
(* and no bucket is empty or holds more than BucketSize.                   *)
LogInv ==
  /\ LogTypeOK
  /\ \A b, c \in log : b # c => b \intersect c = {}
  /\ \A w \in Appender : Cardinality(upserting[w]) <= BucketSize
  /\ \A w \in Appender : upserting[w] \intersect Written = {}
  /\ \A v, w \in Appender : v # w => upserting[v] \intersect upserting[w] = {}

LEMMA LogFacts ==
  ASSUME LogTypeOK
  PROVE  /\ IsFiniteSet(log) /\ Written \in SUBSET LogSeq
         /\ LogSeq \in SUBSET Nat /\ IsFiniteSet(LogSeq)
         /\ \A s \in SUBSET LogSeq : IsFiniteSet(s) /\ Cardinality(s) \in Nat
         /\ \A R \in SUBSET log : IsFiniteSet(R) /\ Cardinality(R) \in Nat
         /\ \A b \in log : /\ b \in SUBSET LogSeq /\ Min(b) \in b /\ Max(b) \in b
                           /\ Min(b) \in Nat /\ Max(b) \in Nat
                           /\ \A x \in b : Min(b) <= x /\ x <= Max(b)
  <1>1. LogSeq \in SUBSET Nat /\ IsFiniteSet(LogSeq) /\ IsFiniteSet(SUBSET LogSeq)
    BY MessageLogAssumption, FS_SUBSET
  <1>2. \A s \in SUBSET LogSeq : IsFiniteSet(s) /\ Cardinality(s) \in Nat
    BY <1>1, FS_Subset, FS_CardinalityType
  <1>3. log \in SUBSET (SUBSET LogSeq)
    BY DEF LogTypeOK
  <1>4. IsFiniteSet(log) /\ \A R \in SUBSET log : IsFiniteSet(R) /\ Cardinality(R) \in Nat
    BY <1>1, <1>3, FS_Subset, FS_CardinalityType
  <1>5. Written \in SUBSET LogSeq
    BY <1>3 DEF Written
  <1>6. ASSUME NEW b \in log
        PROVE  /\ b \in SUBSET LogSeq /\ Min(b) \in b /\ Max(b) \in b
               /\ Min(b) \in Nat /\ Max(b) \in Nat
               /\ \A x \in b : Min(b) <= x /\ x <= Max(b)
    <2>1. b \in SUBSET LogSeq /\ b \in SUBSET Nat /\ IsFiniteSet(b)
      BY <1>1, <1>2, <1>3
    <2>2. Cardinality(b) # 0
      BY MessageLogAssumption DEF LogTypeOK
    <2>3. b # {}
      BY <2>2, FS_EmptySet
    <2>4. Min(b) \in b /\ Max(b) \in b /\ \A x \in b : Min(b) <= x /\ x <= Max(b)
      BY <2>1, <2>3, MinMaxFacts
    <2> QED
      BY <2>1, <2>4
  <1> QED
    BY <1>1, <1>2, <1>4, <1>5, <1>6

LEMMA NewestExists ==
  ASSUME LogTypeOK, NEW chunk, WithRoom(chunk) # {}
  PROVE  \E b \in WithRoom(chunk) : \A c \in WithRoom(chunk) : Min(c) <= Min(b)
  <1> DEFINE R == WithRoom(chunk)
             mins == {Min(b) : b \in R}
  <1>1. R \in SUBSET log
    BY DEF WithRoom
  <1>2. mins \in SUBSET LogSeq /\ mins # {}
    <2> HIDE DEF R
    <2> QED
      BY <1>1, LogFacts DEF R
  <1>3. mins \in SUBSET Nat /\ IsFiniteSet(mins)
    <2> HIDE DEF mins
    <2> QED
      BY <1>2, LogFacts
  <1>4. PICK top \in mins : \A m \in mins : top >= m
    <2> HIDE DEF mins
    <2> QED
      BY <1>2, <1>3, GreatestOf
  <1>5. PICK b \in R : top = Min(b)
    BY <1>4
  <1>6. \A c \in R : Min(c) <= Min(b)
    BY <1>4, <1>5
  <1> QED
    BY <1>6

LEMMA LogInvInit == LogInit => LogInv
  <1> SUFFICES ASSUME LogInit PROVE LogInv
    OBVIOUS
  <1>1. \A w \in Appender : upserting[w] = {}
    BY DEF LogInit
  <1> QED
    BY <1>1, FS_EmptySet, MessageLogAssumption DEF LogInit, LogInv, LogTypeOK, Written

LEMMA AppendInv ==
  ASSUME LogInv, NEW w \in Appender, NEW chunk \in SUBSET LogSeq, AppendChunk(w, chunk)
  PROVE  LogInv'
  <1>0. /\ LogTypeOK /\ BucketSize \in Nat /\ Cardinality(chunk) \in Nat /\ IsFiniteSet(chunk)
    BY LogFacts, MessageLogAssumption DEF LogInv
  <1>1. /\ chunk # {} /\ Cardinality(chunk) <= BucketSize
        /\ chunk \intersect Written = {}
        /\ \A v \in Appender : chunk \intersect upserting[v] = {}
    BY DEF AppendChunk, Taken
  <1>2. CASE WithRoom(chunk) = {}
    <2>1. upserting' = [upserting EXCEPT ![w] = chunk] /\ log' = log
      BY <1>2 DEF AppendChunk
    <2>2. /\ upserting' \in [Appender -> SUBSET LogSeq] /\ upserting'[w] = chunk
          /\ \A v \in Appender : v # w => upserting'[v] = upserting[v]
      BY <1>0, <2>1 DEF LogTypeOK
    <2> QED
      BY <1>0, <1>1, <2>1, <2>2 DEF LogInv, LogTypeOK, Written
  <1>3. CASE WithRoom(chunk) # {}
    <2> DEFINE newest == CHOOSE b \in WithRoom(chunk) :
                           \A c \in WithRoom(chunk) : Min(c) <= Min(b)
    <2>1. newest \in WithRoom(chunk)
      BY <1>0, <1>3, NewestExists
    <2>2. PICK b \in log : b = newest
      BY <2>1 DEF WithRoom
    <2>3. /\ log' = (log \ {b}) \union {b \union chunk} /\ upserting' = upserting
          /\ Cardinality(b) <= BucketSize - Cardinality(chunk)
      BY <1>3, <2>1, <2>2 DEF AppendChunk, WithRoom
    <2> HIDE DEF newest
    <2>4. /\ b \in SUBSET LogSeq /\ IsFiniteSet(b) /\ Cardinality(b) \in 1 .. BucketSize
          /\ b \intersect chunk = {}
      BY <1>0, <1>1, LogFacts DEF LogTypeOK, Written
    <2>5. /\ b \union chunk \in SUBSET LogSeq
          /\ Cardinality(b \union chunk) \in 1 .. BucketSize
      <3>1. Cardinality(b \union chunk) = Cardinality(b) + Cardinality(chunk)
        BY <1>0, <2>4, DisjointUnion
      <3> QED
        BY <1>0, <2>3, <2>4, <3>1
    <2>6. LogTypeOK'
      BY <1>0, <2>3, <2>5 DEF LogTypeOK
    <2>7. \A c \in log \ {b} : c \intersect (b \union chunk) = {}
      <3> TAKE c \in log \ {b}
      <3>1. c \intersect b = {}
        BY <2>2 DEF LogInv
      <3>2. c \subseteq Written
        BY DEF Written
      <3> QED
        BY <1>1, <3>1, <3>2
    <2>8. \A c, d \in log' : c # d => c \intersect d = {}
      BY <2>3, <2>7 DEF LogInv
    <2>9. Written' = Written \union chunk
      BY <2>3 DEF Written
    <2> QED
      BY <1>1, <2>3, <2>6, <2>8, <2>9 DEF LogInv
  <1> QED
    BY <1>2, <1>3

LEMMA InsertInv ==
  ASSUME LogInv, NEW w \in Appender, InsertBucket(w)
  PROVE  LogInv'
  <1> DEFINE new == upserting[w]
  <1>0. /\ LogTypeOK /\ BucketSize \in Nat /\ new \in SUBSET LogSeq /\ IsFiniteSet(new)
        /\ Cardinality(new) \in Nat /\ new # {} /\ Cardinality(new) <= BucketSize
    BY LogFacts, MessageLogAssumption DEF LogInv, LogTypeOK, InsertBucket
  <1>1. Cardinality(new) \in 1 .. BucketSize
    BY <1>0, FS_EmptySet
  <1>2. /\ log' = log \union {new} /\ upserting' \in [Appender -> SUBSET LogSeq]
        /\ upserting'[w] = {}
        /\ \A v \in Appender : v # w => upserting'[v] = upserting[v]
    BY <1>0 DEF InsertBucket, LogTypeOK
  <1>3. LogTypeOK'
    BY <1>0, <1>1, <1>2 DEF LogTypeOK
  <1>4. \A b \in log : b \intersect new = {}
    BY DEF LogInv, Written
  <1>5. \A b, c \in log' : b # c => b \intersect c = {}
    BY <1>2, <1>4 DEF LogInv
  <1>6. Written' = Written \union new
    BY <1>2 DEF Written
  <1>7. \A v \in Appender : Cardinality(upserting'[v]) <= BucketSize
    <2>1. Cardinality({}) = 0
      BY FS_EmptySet
    <2> QED
      <3> TAKE v \in Appender
      <3>1. CASE v = w
        BY <1>0, <1>2, <2>1, <3>1
      <3>2. CASE v # w
        BY <1>2, <3>2 DEF LogInv
      <3> QED
        BY <3>1, <3>2
  <1>8. \A v \in Appender : upserting'[v] \intersect Written' = {}
    BY <1>2, <1>6 DEF LogInv
  <1>9. \A u, v \in Appender : u # v => upserting'[u] \intersect upserting'[v] = {}
    BY <1>2 DEF LogInv
  <1> QED
    BY <1>3, <1>5, <1>7, <1>8, <1>9 DEF LogInv

LEMMA LogInvariant == LogSpec => []LogInv
  <1>1. LogInv /\ [LogNext]_logVars => LogInv'
    <2> SUFFICES ASSUME LogInv, [LogNext]_logVars PROVE LogInv'
      OBVIOUS
    <2>1. CASE UNCHANGED logVars
      BY <2>1 DEF logVars, LogInv, LogTypeOK, Written
    <2> QED
      BY <2>1, AppendInv, InsertInv DEF LogNext
  <1> QED
    BY <1>1, LogInvInit, PTL DEF LogSpec
(* Buckets that are full and overlap no other, all of them but one within  *)
(* the range that is asked for, hold a page.                               *)
LEMMA ScanIsEnough ==
  ASSUME LogInv, Cardinality(Ragged) < BucketScanPad,
         NEW limit \in Nat, NEW T \in SUBSET log, Cardinality(T) >= BucketLimit(limit),
         NEW R, \A b, c \in T \ Ragged : b \subseteq R \/ c \subseteq R \/ b = c
  PROVE  Cardinality((UNION (T \ Ragged)) \intersect R) >= limit
  <1> DEFINE Even == T \ Ragged
             In == {b \in Even : b \subseteq R}
             need == limit \div BucketSize
  <1>0. /\ LogTypeOK /\ \A S \in SUBSET log : IsFiniteSet(S) /\ Cardinality(S) \in Nat
        /\ \A S \in SUBSET LogSeq : IsFiniteSet(S) /\ Cardinality(S) \in Nat
    BY LogFacts DEF LogInv
  <1>1. /\ need \in Nat /\ BucketScanPad \in Nat /\ BucketSize \in Nat
        /\ limit < (need + 1) * BucketSize
    BY MessageLogAssumption
  <1>2. /\ Ragged \in SUBSET log /\ Even \in SUBSET log /\ In \in SUBSET log
        /\ T \intersect Ragged \in SUBSET log
    BY DEF Ragged
  <1>3. Cardinality(Even) >= need + 2
    <2>1. Cardinality(Even) = Cardinality(T) - Cardinality(T \intersect Ragged)
      BY <1>0, FS_Difference
    <2>2. Cardinality(T \intersect Ragged) <= Cardinality(Ragged)
      BY <1>0, <1>2, FS_Subset
    <2>3. /\ Cardinality(T) \in Nat /\ Cardinality(T \intersect Ragged) \in Nat
          /\ Cardinality(Ragged) \in Nat
      BY <1>0, <1>2
    <2>4. Cardinality(T) >= need + 1 + BucketScanPad
      BY DEF BucketLimit
    <2> HIDE DEF Even, need
    <2> QED
      BY <1>1, <2>1, <2>2, <2>3, <2>4
  <1>4. Cardinality(In) >= need + 1
    <2>1. CASE In = Even
      <3> HIDE DEF Even, In, need
      <3> QED
        BY <1>0, <1>1, <1>2, <1>3, <2>1
    <2>2. CASE In # Even
      <3>1. PICK d \in Even : ~ (d \subseteq R)
        BY <2>2
      <3>2. Even = In \union {d}
        BY <3>1
      <3> HIDE DEF Even, In, need
      <3>3. Cardinality(Even) <= Cardinality(In) + 1
        BY <1>0, <1>2, <3>2, FS_AddElement
      <3> QED
        BY <1>0, <1>1, <1>2, <1>3, <3>3
    <2> QED
      BY <2>1, <2>2
  <1>5. Cardinality(UNION In) = Cardinality(In) * BucketSize
    <2>1. In \in SUBSET (SUBSET LogSeq)
      BY <1>0, <1>2 DEF LogTypeOK
    <2>2. \A b \in In : Cardinality(b) = BucketSize
      <3> TAKE b \in In
      <3>1. b \in log /\ b \notin Ragged
        BY <1>2
      <3>2. Cardinality(b) \in 1 .. BucketSize /\ ~(Cardinality(b) < BucketSize)
        BY <1>0, <3>1 DEF LogTypeOK, Ragged
      <3> QED
        BY <1>1, <3>2
    <2>3. \A b, c \in In : b # c => b \intersect c = {}
      BY <1>2 DEF LogInv
    <2> HIDE DEF In
    <2> QED
      BY <2>1, <2>2, <2>3, UnionOfFull
  <1>6. Cardinality(In) * BucketSize >= (need + 1) * BucketSize
    <2>1. Cardinality(In) \in Nat
      BY <1>0, <1>2
    <2> HIDE DEF In, need
    <2>2. PICK more \in Nat : Cardinality(In) = need + 1 + more
      <3>1. PICK n \in Nat : n = Cardinality(In)
        BY <2>1
      <3>2. n >= need + 1 /\ need \in Nat
        BY <1>1, <1>4, <3>1
      <3>3. n - (need + 1) \in Nat /\ n = need + 1 + (n - (need + 1))
        BY <3>2
      <3> QED
        BY <3>1, <3>3
    <2>3. (need + 1 + more) * BucketSize = (need + 1) * BucketSize + more * BucketSize
      BY <1>1
    <2>4. more * BucketSize >= 0 /\ more * BucketSize \in Int /\ (need + 1) * BucketSize \in Int
      BY <1>1
    <2> QED
      BY <2>2, <2>3, <2>4
  <1>7. /\ UNION In \in SUBSET ((UNION Even) \intersect R)
        /\ (UNION Even) \intersect R \in SUBSET LogSeq
    BY <1>0, <1>2 DEF LogTypeOK
  <1>8. /\ IsFiniteSet((UNION Even) \intersect R) /\ Cardinality((UNION Even) \intersect R) \in Nat
        /\ Cardinality(UNION In) <= Cardinality((UNION Even) \intersect R)
    <2> DEFINE whole == (UNION Even) \intersect R
               part  == UNION In
    <2>1. IsFiniteSet(whole) /\ Cardinality(whole) \in Nat /\ part \in SUBSET whole
      BY <1>0, <1>7
    <2> HIDE DEF whole, part
    <2>2. Cardinality(part) <= Cardinality(whole)
      BY <2>1, FS_Subset
    <2> QED
      BY <2>1, <2>2 DEF whole, part
  <1> HIDE DEF In, need
  <1>9. Cardinality(In) * BucketSize \in Int /\ (need + 1) * BucketSize \in Int
    BY <1>0, <1>1, <1>2
  <1> QED
    BY <1>1, <1>5, <1>6, <1>8, <1>9
(* What FindByConversation reads.                                          *)
Met(startSeq, endSeq) ==
  {b \in log : /\ startSeq >= 0 => Max(b) >= startSeq
               /\ endSeq >= 0 => Min(b) <= endSeq}
Mins(startSeq, endSeq) == {Min(b) : b \in Met(startSeq, endSeq)}
Wanted(startSeq, endSeq) == Written \intersect InRange(startSeq, endSeq)

LEMMA MetFacts ==
  ASSUME LogInv, NEW startSeq \in Int, NEW endSeq \in Int
  PROVE  /\ Mins(startSeq, endSeq) \in SUBSET Nat /\ IsFiniteSet(Mins(startSeq, endSeq))
         /\ Wanted(startSeq, endSeq) \in SUBSET Nat /\ IsFiniteSet(Wanted(startSeq, endSeq))
         /\ \A S \in SUBSET Wanted(startSeq, endSeq) : IsFiniteSet(S) /\ Cardinality(S) \in Nat
         /\ \A b \in log : \A x \in b :
              x \in Wanted(startSeq, endSeq) => b \in Met(startSeq, endSeq)
  <1>0. LogTypeOK
    BY DEF LogInv
  <1>1. Mins(startSeq, endSeq) \in SUBSET LogSeq
    BY <1>0, LogFacts DEF Mins, Met
  <1>2. Wanted(startSeq, endSeq) \in SUBSET LogSeq
    BY DEF Wanted, InRange
  <1>3. \A S \in SUBSET Wanted(startSeq, endSeq) : S \in SUBSET LogSeq
    BY <1>2
  <1>4. ASSUME NEW b \in log, NEW x \in b, x \in Wanted(startSeq, endSeq)
        PROVE  b \in Met(startSeq, endSeq)
    <2>1. /\ x \in Nat /\ Min(b) <= x /\ x <= Max(b) /\ Min(b) \in Nat /\ Max(b) \in Nat
      BY <1>0, LogFacts
    <2>2. (startSeq >= 0 => x >= startSeq) /\ (endSeq >= 0 => x <= endSeq)
      BY <1>4 DEF Wanted, InRange
    <2> QED
      BY <2>1, <2>2 DEF Met
  <1> QED
    BY <1>0, <1>1, <1>2, <1>3, <1>4, LogFacts

(* As many buckets as there are least seqs of them. *)
LEMMA BucketsOfMins ==
  ASSUME LogInv, NEW T \in SUBSET log, NEW Y, Y = {Min(b) : b \in T}
  PROVE  Cardinality(T) >= Cardinality(Y) /\ Cardinality(Y) \in Nat /\ Cardinality(T) \in Nat
  <1> DEFINE f == [b \in T |-> Min(b)]
  <1>1. IsFiniteSet(T) /\ Cardinality(T) \in Nat
    BY LogFacts DEF LogInv
  <1>2. f \in Surjection(T, Y)
    BY DEF Surjection
  <1> HIDE DEF f
  <1>3. IsFiniteSet(Y) /\ Cardinality(Y) <= Cardinality(T)
    BY <1>1, <1>2, FS_Surjection
  <1> QED
    BY <1>1, <1>3, FS_CardinalityType

(* Newest first: before whatever of a bucket that was not scanned there is *)
(* a page of newer messages.                                               *)
LEMMA NewerIsEnough ==
  ASSUME LogInv, Cardinality(Ragged) < BucketScanPad,
         NEW startSeq \in Int, NEW endSeq \in Int, NEW limit \in Nat,
         NEW c \in Met(startSeq, endSeq), NEW x \in c,
         NEW F \in SUBSET Wanted(startSeq, endSeq),
         \A b \in Met(startSeq, endSeq) :
            Min(b) \in Greatest(Mins(startSeq, endSeq), BucketLimit(limit))
              => b \intersect InRange(startSeq, endSeq) \subseteq F,
         Min(c) \notin Greatest(Mins(startSeq, endSeq), BucketLimit(limit))
  PROVE  Cardinality({y \in F : y > x}) >= limit
  <1> DEFINE met   == Met(startSeq, endSeq)
             mins  == Mins(startSeq, endSeq)
             range == InRange(startSeq, endSeq)
             n     == BucketLimit(limit)
  <1>0. LogTypeOK /\ met \in SUBSET log /\ n \in Nat
    BY MessageLogAssumption DEF LogInv, Met, BucketLimit
  <1>1. PICK cut \in mins \ Greatest(mins, n) :
           /\ Cardinality({y \in mins : y > cut}) >= n
           /\ {y \in mins : y > cut} \subseteq Greatest(mins, n)
           /\ cut >= Min(c)
    <2>1. mins \in SUBSET Nat /\ IsFiniteSet(mins) /\ Min(c) \in mins
      BY MetFacts DEF Mins
    <2> HIDE DEF mins, n
    <2> QED
      BY <1>0, <2>1, GreatestIsFull DEF mins, n
  <1> DEFINE T == {b \in met : Min(b) > cut}
             Y == {y \in mins : y > cut}
  <1>2. Cardinality(T) >= n
    <2>1. Y = {Min(b) : b \in T} /\ T \in SUBSET log
      BY <1>0 DEF Mins
    <2> HIDE DEF T, Y
    <2>2. Cardinality(T) >= Cardinality(Y) /\ Cardinality(Y) \in Nat /\ Cardinality(T) \in Nat
      BY <2>1, BucketsOfMins
    <2>3. Cardinality(Y) >= n
      BY <1>1 DEF Y
    <2> HIDE DEF n
    <2> QED
      BY <1>0, <2>2, <2>3
  <1>3. \A b \in T : b \intersect range \subseteq F
    BY <1>1 DEF Mins
  <1>t. /\ cut \in Nat /\ c \in log
        /\ \A b \in log : /\ Min(b) \in Nat /\ Max(b) \in Nat
                          /\ \A e \in b : e \in Nat /\ Min(b) <= e /\ e <= Max(b)
    BY <1>0, <1>1, LogFacts, MetFacts
  <1>4. ASSUME NEW b \in T \ Ragged
        PROVE  Min(b) > Max(c)
    <2>1. b \in log /\ b # c /\ Min(b) > Min(c)
      BY <1>0, <1>1, <1>t, <1>4
    <2>2. ~Overlap(b, c)
      BY <1>4, <1>t, <2>1 DEF Ragged
    <2>3. Min(b) <= Max(b)
      BY <1>0, <2>1, LogFacts
    <2> QED
      BY <1>t, <2>1, <2>2, <2>3 DEF Overlap
  <1>5. ASSUME NEW b \in T \ Ragged, NEW e \in b
        PROVE  /\ b \in log /\ e \in LogSeq /\ e \in Nat /\ e > x
               /\ startSeq >= 0 => e >= startSeq
               /\ endSeq >= 0 => Min(b) <= endSeq
               /\ e <= Max(b) /\ Max(b) \in Nat /\ Min(b) \in Nat
    <2>1. b \in log /\ (endSeq >= 0 => Min(b) <= endSeq)
      BY <1>5 DEF Met
    <2>2. e \in LogSeq /\ e \in Nat /\ Min(b) <= e /\ e <= Max(b) /\ Max(b) \in Nat
      BY <1>0, <1>t, <1>5, <2>1 DEF LogTypeOK
    <2>3. x \in Nat /\ x <= Max(c) /\ (startSeq >= 0 => Max(c) >= startSeq)
      BY <1>t DEF Met
    <2> QED
      BY <1>4, <1>5, <1>t, <2>1, <2>2, <2>3
  <1>6. \A b, d \in T \ Ragged : b \subseteq range \/ d \subseteq range \/ b = d
    <2> SUFFICES ASSUME NEW b \in T \ Ragged, NEW d \in T \ Ragged, b # d,
                        NEW e \in b \ range, NEW g \in d \ range
                 PROVE  FALSE
      OBVIOUS
    <2>1. endSeq >= 0 /\ e > endSeq /\ g > endSeq
      BY <1>5 DEF InRange
    <2>2. Overlap(b, d)
      BY <1>5, <2>1 DEF Overlap
    <2> QED
      BY <1>5, <2>2 DEF Ragged
  <1> DEFINE page == (UNION (T \ Ragged)) \intersect range
  <1>7. Cardinality(page) >= limit
    <2>1. T \in SUBSET log
      BY <1>0
    <2> HIDE DEF T, range, n
    <2> QED
      BY <1>2, <1>6, <2>1, ScanIsEnough DEF n
  <1>8. page \in SUBSET {y \in F : y > x}
    BY <1>3, <1>5
  <1> DEFINE newer == {y \in F : y > x}
  <1>9. IsFiniteSet(newer) /\ Cardinality(newer) \in Nat
    <2>1. newer \in SUBSET Wanted(startSeq, endSeq)
      OBVIOUS
    <2> HIDE DEF newer
    <2> QED
      BY <2>1, MetFacts
  <1> HIDE DEF page, newer
  <1>10. Cardinality(page) <= Cardinality(newer) /\ Cardinality(page) \in Nat
    BY <1>8, <1>9, FS_Subset, FS_CardinalityType DEF newer
  <1> QED
    BY <1>7, <1>9, <1>10 DEF newer

(* Oldest first, the same of older ones.                                   *)
LEMMA OlderIsEnough ==
  ASSUME LogInv, Cardinality(Ragged) < BucketScanPad,
         NEW startSeq \in Int, NEW endSeq \in Int, endSeq < 0, NEW limit \in Nat,
         NEW c \in Met(startSeq, endSeq), NEW x \in c,
         NEW F \in SUBSET Wanted(startSeq, endSeq),
         \A b \in Met(startSeq, endSeq) :
            Min(b) \in Smallest(Mins(startSeq, endSeq), BucketLimit(limit))
              => b \intersect InRange(startSeq, endSeq) \subseteq F,
         Min(c) \notin Smallest(Mins(startSeq, endSeq), BucketLimit(limit))
  PROVE  Cardinality({y \in F : y < x}) >= limit
  <1> DEFINE met   == Met(startSeq, endSeq)
             mins  == Mins(startSeq, endSeq)
             range == InRange(startSeq, endSeq)
             n     == BucketLimit(limit)
  <1>0. LogTypeOK /\ met \in SUBSET log /\ n \in Nat
    BY MessageLogAssumption DEF LogInv, Met, BucketLimit
  <1>1. PICK cut \in mins \ Smallest(mins, n) :
           /\ Cardinality({y \in mins : y < cut}) >= n
           /\ {y \in mins : y < cut} \subseteq Smallest(mins, n)
           /\ cut <= Min(c)
    <2>1. mins \in SUBSET Nat /\ IsFiniteSet(mins) /\ Min(c) \in mins
      BY MetFacts DEF Mins
    <2> HIDE DEF mins, n
    <2> QED
      BY <1>0, <2>1, SmallestIsFull DEF mins, n
  <1> DEFINE T == {b \in met : Min(b) < cut}
             Y == {y \in mins : y < cut}
  <1>2. Cardinality(T) >= n
    <2>1. Y = {Min(b) : b \in T} /\ T \in SUBSET log
      BY <1>0 DEF Mins
    <2> HIDE DEF T, Y
    <2>2. Cardinality(T) >= Cardinality(Y) /\ Cardinality(Y) \in Nat /\ Cardinality(T) \in Nat
      BY <2>1, BucketsOfMins
    <2>3. Cardinality(Y) >= n
      BY <1>1 DEF Y
    <2> HIDE DEF n
    <2> QED
      BY <1>0, <2>2, <2>3
  <1>3. \A b \in T : b \intersect range \subseteq F
    BY <1>1 DEF Mins
  <1>t. /\ cut \in Nat /\ c \in log
        /\ \A b \in log : /\ Min(b) \in Nat /\ Max(b) \in Nat
                          /\ \A e \in b : e \in Nat /\ Min(b) <= e /\ e <= Max(b)
    BY <1>0, <1>1, LogFacts, MetFacts
  <1>4. ASSUME NEW b \in T \ Ragged
        PROVE  Max(b) < Min(c)
    <2>1. b \in log /\ b # c /\ Min(b) < Min(c)
      BY <1>0, <1>1, <1>t, <1>4
    <2>2. ~Overlap(b, c)
      BY <1>4, <1>t, <2>1 DEF Ragged
    <2>3. Min(c) <= Max(c)
      BY <1>0, <1>t, LogFacts
    <2> QED
      BY <1>t, <2>1, <2>2, <2>3 DEF Overlap
  <1>5. ASSUME NEW b \in T \ Ragged, NEW e \in b
        PROVE  /\ b \in log /\ e \in LogSeq /\ e \in Nat /\ e < x
               /\ startSeq >= 0 => Max(b) >= startSeq
               /\ e >= Min(b) /\ Max(b) \in Nat /\ Min(b) \in Nat
    <2>1. b \in log /\ (startSeq >= 0 => Max(b) >= startSeq)
      BY <1>5 DEF Met
    <2>2. e \in LogSeq /\ e \in Nat /\ Min(b) <= e /\ e <= Max(b) /\ Max(b) \in Nat
      BY <1>0, <1>t, <1>5, <2>1 DEF LogTypeOK
    <2>3. x \in Nat /\ x >= Min(c)
      BY <1>t
    <2> QED
      BY <1>4, <1>5, <1>t, <2>1, <2>2, <2>3
  <1>6. \A b, d \in T \ Ragged : b \subseteq range \/ d \subseteq range \/ b = d
    <2> SUFFICES ASSUME NEW b \in T \ Ragged, NEW d \in T \ Ragged, b # d,
                        NEW e \in b \ range, NEW g \in d \ range
                 PROVE  FALSE
      OBVIOUS
    <2>1. startSeq >= 0 /\ e < startSeq /\ g < startSeq
      BY <1>5 DEF InRange
    <2>2. Overlap(b, d)
      BY <1>5, <2>1 DEF Overlap
    <2> QED
      BY <1>5, <2>2 DEF Ragged
  <1> DEFINE page == (UNION (T \ Ragged)) \intersect range
  <1>7. Cardinality(page) >= limit
    <2>1. T \in SUBSET log
      BY <1>0
    <2> HIDE DEF T, range, n
    <2> QED
      BY <1>2, <1>6, <2>1, ScanIsEnough DEF n
  <1>8. page \in SUBSET {y \in F : y < x}
    BY <1>3, <1>5
  <1> DEFINE older == {y \in F : y < x}
  <1>9. IsFiniteSet(older) /\ Cardinality(older) \in Nat
    <2>1. older \in SUBSET Wanted(startSeq, endSeq)
      OBVIOUS
    <2> HIDE DEF older
    <2> QED
      BY <2>1, MetFacts
  <1> HIDE DEF page, older
  <1>10. Cardinality(page) <= Cardinality(older) /\ Cardinality(page) \in Nat
    BY <1>8, <1>9, FS_Subset, FS_CardinalityType DEF older
  <1> QED
    BY <1>7, <1>9, <1>10 DEF older

LEMMA PagesAreExact ==
  ASSUME LogInv, Cardinality(Ragged) < BucketScanPad,
         NEW startSeq \in Int, NEW endSeq \in Int, NEW limit \in Nat
  PROVE  FindByConversation(startSeq, endSeq, limit) = Page(startSeq, endSeq, limit)
  <1> DEFINE ascending == startSeq >= 0 /\ endSeq < 0
             met   == Met(startSeq, endSeq)
             mins  == Mins(startSeq, endSeq)
             range == InRange(startSeq, endSeq)
             all   == Wanted(startSeq, endSeq)
             n     == BucketLimit(limit)
             first == IF ascending THEN Smallest(mins, n) ELSE Greatest(mins, n)
             scanned == {b \in met : Min(b) \in first}
             found == (UNION scanned) \intersect range
  <1>1. /\ FindByConversation(startSeq, endSeq, limit)
             = IF ascending THEN Smallest(found, limit) ELSE Greatest(found, limit)
        /\ Page(startSeq, endSeq, limit)
             = IF ascending THEN Smallest(all, limit) ELSE Greatest(all, limit)
    BY DEF FindByConversation, Page, Met, Mins, Wanted
  <1>2. found \in SUBSET all
    BY DEF Wanted, Written, Met
  <1>3. \A b \in met : Min(b) \in first => b \intersect range \subseteq found
    OBVIOUS
  <1>4. ASSUME NEW x \in all \ found
        PROVE  \E c \in met : x \in c /\ Min(c) \notin first
    <2>1. PICK c \in log : x \in c
      BY DEF Wanted, Written
    <2>2. c \in met
      BY <2>1, MetFacts
    <2>3. x \in range
      BY DEF Wanted
    <2>4. Min(c) \notin first
      BY <1>3, <1>4, <2>1, <2>2, <2>3
    <2> QED
      BY <2>1, <2>2, <2>4
  <1>5. all \in SUBSET Nat /\ IsFiniteSet(all)
    BY MetFacts
  <1>6. CASE ascending
    <2>1. first = Smallest(mins, n) /\ endSeq < 0
      BY <1>6
    <2> HIDE DEF found, first
    <2>2. \A x \in all \ found : Cardinality({y \in found : y < x}) >= limit
      BY <1>2, <1>3, <1>4, <2>1, OlderIsEnough
    <2>3. Smallest(found, limit) = Smallest(all, limit)
      BY <1>2, <1>5, <2>2, SmallestOfPart
    <2> QED
      BY <1>1, <1>6, <2>3
  <1>7. CASE ~ascending
    <2>1. first = Greatest(mins, n)
      BY <1>7
    <2> HIDE DEF found, first
    <2>2. \A x \in all \ found : Cardinality({y \in found : y > x}) >= limit
      BY <1>2, <1>3, <1>4, <2>1, NewerIsEnough
    <2>3. Greatest(found, limit) = Greatest(all, limit)
      BY <1>2, <1>5, <2>2, GreatestOfPart
    <2> QED
      BY <1>1, <1>7, <2>3
  <1> QED
    BY <1>6, <1>7

(* While fewer than BucketScanPad buckets are ragged, every page is what   *)
(* the whole sorted log would give (FindByConversation, bucketScanPad).    *)
THEOREM EveryPageIsExact == LogSpec => []PageIsExact
  <1>1. LogInv => PageIsExact
    <2> SUFFICES ASSUME LogInv, Cardinality(Ragged) < BucketScanPad,
                        NEW startSeq \in Written \union {-1}, NEW endSeq \in Written \union {-1},
                        NEW limit \in PageLimit
                 PROVE  FindByConversation(startSeq, endSeq, limit) = Page(startSeq, endSeq, limit)
      BY DEF PageIsExact
    <2>1. startSeq \in Int /\ endSeq \in Int /\ limit \in Nat
      <3>1. Written \in SUBSET Nat
        BY LogFacts DEF LogInv
      <3> QED
        BY <3>1, MessageLogAssumption
    <2> QED
      BY <2>1, PagesAreExact
  <1> QED
    BY <1>1, LogInvariant, PTL

(***************************************************************************)
(* The composition                                                         *)
(***************************************************************************)

(* Each part of the composition takes its own steps or none, so that what  *)
(* holds of the part alone holds of it here.                               *)
THEOREM RecordsAreTheirParts ==
  RecordsSpec => IdSpec /\ SkSpec /\ LogSpec /\ GroupsSpec /\ FriendSpec
  <1>1. RecordsInit => IdInit /\ SkInit /\ LogInit /\ GroupsInit /\ FriendInit
    BY DEF RecordsInit
  <1>2. [RecordsNext]_<<focus, idVars, skVars, logVars, groupsVars, friendVars>>
          => /\ [IdNext]_idVars /\ [SkNext]_skVars /\ [LogNext]_logVars
             /\ [GroupsNext]_groupsVars /\ [FriendNext]_friendVars
    BY DEF RecordsNext
  <1> QED
    BY <1>1, <1>2, PTL DEF RecordsSpec, IdSpec, SkSpec, LogSpec, GroupsSpec, FriendSpec

(* The variables of every part keep their types.                           *)
THEOREM RecordsTypes == RecordsSpec => []RecordsTypeOK
  <1>1. IdInv => IdTypeOK
    BY DEF IdInv
  <1>2. SkInv => SkTypeOK
    BY DEF SkInv
  <1>3. LogInv => LogTypeOK
    BY DEF LogInv
  <1>4. FriendInv => FriendTypeOK
    BY DEF FriendInv
  <1>5. IdTypeOK /\ SkTypeOK /\ LogTypeOK /\ GroupsTypeOK /\ FriendTypeOK => RecordsTypeOK
    BY DEF RecordsTypeOK
  <1>6. IdSpec => []IdInv
    BY IdInitInv, IdStepInv, PTL DEF IdSpec
  <1>7. SkSpec => []SkInv
    BY SkInitInv, SkStepInv, PTL DEF SkSpec
  <1>8. FriendSpec => []FriendInv
    BY FriendInitInv, FriendStepInv, PTL DEF FriendSpec
  <1> QED
    BY <1>1, <1>2, <1>3, <1>4, <1>5, <1>6, <1>7, <1>8,
       LogInvariant, GroupTypes, RecordsAreTheirParts, PTL
===============================================================================
