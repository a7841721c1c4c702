------------------------------ MODULE SessionKeys ------------------------------
(***************************************************************************)
(* Which session a message belongs to: the instances of the Message        *)
(* service resolve a session key (a group's number, or both users' of a    *)
(* private chat) to a session id, and create the session when there is     *)
(* none (SessionDAO.FindOrCreateBySessionKey behind ResolveSessionID).     *)
(*                                                                         *)
(* The table's only unique index is on session_id (model.Session, created  *)
(* by AutoMigrate); session_key has none, so the insert of a second row    *)
(* for a key succeeds, and the branch of FindOrCreateBySessionKey for an   *)
(* insert that collided on the key is never taken.  Two instances with the *)
(* same snowflake node number may propose the same id.                     *)
(***************************************************************************)
EXTENDS Naturals, FiniteSets

CONSTANTS
    Resolver,    \* instances of the Message service
    Key,         \* session keys
    MaxSessionID,       \* ids 1..MaxSessionID: what the snowflake nodes may propose
    MaxAttempts  \* maxSessionIDAttempts

ASSUME SessionKeysAssumption == MaxSessionID \in Nat \ {0} /\ MaxAttempts \in Nat \ {0}

VARIABLES
    session,   \* the rows of the session table: records [id, key]
    keyCache,  \* keyCache[r]: r's LRU, the pairs [id, key] it remembers
    resolver,  \* resolver[r]: the resolution r is working on
    proposed,  \* proposed[r]: the ids r's snowflake node has generated
    used,      \* history: the pairs [id, key] messages were stored under
    raced      \* history: keys created while another instance was about to

skVars == <<session, keyCache, resolver, proposed, used, raced>>

SessionID == 1..MaxSessionID
SessionRows == [id : SessionID, key : Key]

(* pc: "idle", "find" (about to look for the key), "create" (it is not     *)
(* there), "check" (the insert is done); id: the id proposed; tries: the   *)
(* attempts already lost to a conflict                                     *)
Resolution == [pc : {"idle"}] \cup
              [pc : {"find", "create", "check"}, key : Key, id : SessionID, tries : 0..MaxAttempts]

NotResolving == [pc |-> "idle"]

SkTypeOK ==
    /\ session \subseteq SessionRows
    /\ keyCache \in [Resolver -> SUBSET SessionRows]
    /\ resolver \in [Resolver -> Resolution]
    /\ proposed \in [Resolver -> SUBSET SessionID]
    /\ used \subseteq SessionRows
    /\ raced \subseteq Key

SkInit ==
    /\ session = {} /\ used = {} /\ raced = {}
    /\ keyCache = [r \in Resolver |-> {}]
    /\ resolver = [r \in Resolver |-> NotResolving]
    /\ proposed = [r \in Resolver |-> {}]

RowsOf(key) == {row \in session : row.key = key}

(* First without a primary key orders by the first column, session_id *)
First(key) == {row \in RowsOf(key) : \A other \in RowsOf(key) : row.id <= other.id}

--------------------------------------------------------------------------------
(* withSessionIDRetry: one attempt, with an id of r's own node *)
Attempt(r, key, id, tries) ==
    /\ resolver' = [resolver EXCEPT ![r] = [pc |-> "find", key |-> key, id |-> id, tries |-> tries]]
    /\ proposed' = [proposed EXCEPT ![r] = @ \cup {id}]

(* the resolution succeeds, and messages go to the row's session *)
Resolved(r, row) ==
    /\ resolver' = [resolver EXCEPT ![r] = NotResolving]
    /\ keyCache' = [keyCache EXCEPT ![r] = @ \cup {row}]
    /\ used' = used \cup {row}

(* ResolveSessionIDByKey: the LRU knows the key ...                        *)
ResolveCached(r, key) ==
    /\ resolver[r].pc = "idle"
    /\ \E row \in keyCache[r] : row.key = key /\ Resolved(r, row)
    /\ UNCHANGED <<session, proposed, raced>>

(* ... or it does not *)
Resolve(r, key) ==
    /\ resolver[r].pc = "idle"
    /\ \A row \in keyCache[r] : row.key # key
    /\ \E id \in SessionID \ proposed[r] : Attempt(r, key, id, 0)
    /\ UNCHANGED <<session, keyCache, used, raced>>

\* Mutant: the key is not looked for.
FindNothing(r) ==
    /\ resolver[r].pc = "find"
    /\ resolver' = [resolver EXCEPT ![r].pc = "create"]
    /\ UNCHANGED <<session, keyCache, proposed, used, raced>>

(* FindOrCreateBySessionKey, step 1: look for the key *)
Find(r) ==
    LET key == resolver[r].key IN
    /\ resolver[r].pc = "find"
    /\ IF RowsOf(key) # {}
       THEN \E row \in First(key) : Resolved(r, row)
       ELSE resolver' = [resolver EXCEPT ![r].pc = "create"] /\ UNCHANGED <<keyCache, used>>
    /\ UNCHANGED <<session, proposed, raced>>

(* step 2: insert; when the id is taken only that row's update_time moves *)
Create(r) ==
    LET key == resolver[r].key
        id  == resolver[r].id
    IN /\ resolver[r].pc = "create"
       /\ session' = IF \E row \in session : row.id = id
                     THEN session
                     ELSE session \cup {[id |-> id, key |-> key]}
       /\ raced' = IF \E s \in Resolver \ {r} : resolver[s].pc = "create" /\ resolver[s].key = key
                   THEN raced \cup {key} ELSE raced
       /\ resolver' = [resolver EXCEPT ![r].pc = "check"]
       /\ UNCHANGED <<keyCache, proposed, used>>

\* Mutant: the row of the new id is taken for ours.
ConfirmAny(r) ==
    /\ resolver[r].pc = "check"
    /\ \E row \in session : row.id = resolver[r].id
                           /\ Resolved(r, [row EXCEPT !.key = resolver[r].key])
    /\ UNCHANGED <<session, proposed, raced>>

(* step 3: read the row of the new id again.  It is ours, or another       *)
(* session's, and then the next attempt takes a new id                     *)
Confirm(r) ==
    /\ resolver[r].pc = "check"
    /\ \E row \in session : row.id = resolver[r].id /\ row.key = resolver[r].key /\ Resolved(r, row)
    /\ UNCHANGED <<session, proposed, raced>>

SessionIDConflict(r) ==
    LET next == resolver[r].tries + 1 IN
    /\ resolver[r].pc = "check"
    /\ \E row \in session : row.id = resolver[r].id /\ row.key # resolver[r].key
    /\ \/ next < MaxAttempts
          /\ \E id \in SessionID \ proposed[r] : Attempt(r, resolver[r].key, id, next)
       \/ next = MaxAttempts
          /\ resolver' = [resolver EXCEPT ![r] = NotResolving] /\ UNCHANGED proposed
    /\ UNCHANGED <<session, keyCache, used, raced>>

(* a query fails: the message is retried later, from the start *)
ResolveFails(r) ==
    /\ resolver[r].pc # "idle"
    /\ resolver' = [resolver EXCEPT ![r] = NotResolving]
    /\ UNCHANGED <<session, keyCache, proposed, used, raced>>

(* the LRU forgets a key: it is full, or the instance restarts *)
Evict(r, row) ==
    /\ row \in keyCache[r]
    /\ keyCache' = [keyCache EXCEPT ![r] = @ \ {row}]
    /\ UNCHANGED <<session, resolver, proposed, used, raced>>

SkNext ==
    \E r \in Resolver :
        \/ \E key \in Key : ResolveCached(r, key) \/ Resolve(r, key)
        \/ Find(r) \/ Create(r) \/ Confirm(r) \/ SessionIDConflict(r) \/ ResolveFails(r)
        \/ \E row \in keyCache[r] : Evict(r, row)

SkSpec == SkInit /\ [][SkNext]_skVars

--------------------------------------------------------------------------------
(* Messages of two conversations never meet under one id, although ids may *)
(* collide and the upsert does not report a collision: the read-back of    *)
(* FindOrCreateBySessionKey and the retry with a new id see to it.         *)
KeysKeptApart == \A a, b \in used : a.id = b.id => a.key = b.key

(* A conversation is split over two ids only if two instances created its  *)
(* session at the same time; afterwards, and whatever the caches forget,   *)
(* every resolution finds a row that exists.                               *)
SplitOnlyByRace ==
    /\ used \subseteq session
    /\ \A a, b \in used : a.key = b.key /\ a.id # b.id => a.key \in raced

(* FindOrCreateBySessionKey: a session created by two instances at once    *)
(* has one row, and the one that is there counts.                          *)
OneSessionPerKey == \A a, b \in used : a.key = b.key => a.id = b.id
================================================================================
