---------------------------- MODULE DurableStore ----------------------------
(***************************************************************************)
(* The persistence layer of a durable sync session                         *)
(* (src/nio/durable/store.py): one SQLite connection, its transactions and *)
(* savepoints, and the three in-memory copies of rows that the event loop  *)
(* polls: the _LoopState mirror, the room metadata cache and the local     *)
(* membership intent cache.                                                *)
(*                                                                         *)
(* disk is what a crash leaves; conn is what the connection reads, which   *)
(* differs from disk only inside a transaction; saves holds what each open *)
(* transaction level rolls back to.  Payloads are opaque values.  A cache  *)
(* is {} while unloaded and a singleton once loaded.                       *)
(***************************************************************************)
EXTENDS Integers, Sequences, FiniteSets

CONSTANTS
    Cursors,        \* sync tokens
    Continuations,  \* encoded continuations other than the fresh '{}'
    Bodies,         \* encoded batches: records and the completes_sync flag
    Rooms, Metadata,
    Intents,        \* bodies of the membership/current row
    Consumers,      \* consumer identities an application opens with
    None,           \* an absent row or a NULL column
    Fresh,          \* the '{}' continuation a captured input starts with
    MaxSequence,    \* bound: highest batch sequence ever allocated
    MaxDepth        \* bound: nesting of transaction()

ASSUME NoneAssumption ==
    /\ None \notin Cursors \cup Continuations \cup Metadata \cup Intents
    /\ None \notin Consumers
    /\ None # Fresh

ASSUME BoundAssumption == MaxSequence \in Nat /\ MaxDepth \in Nat

VARIABLES disk, conn, saves, mirror, roomCache, intentCache, open, legacy,
          handed    \* history: every <<sequence, body>> next_batch returned

vars == <<disk, conn, saves, mirror, roomCache, intentCache, open, legacy, handed>>

caches == <<mirror, roomCache, intentCache>>

(* The durable rows: NioDurableMeta (consumer = None before adoption),     *)
(* NioDurableInput, NioDurableBatch with its AUTOINCREMENT counter,        *)
(* NioDurableRoom, and the membership row of NioDurableCrypto.             *)
Queues == UNION {[S -> Bodies] : S \in SUBSET (1..MaxSequence)}

Database ==
    [consumer     : Consumers \cup {None},
     cursor       : Cursors \cup {None},
     acked        : 0..MaxSequence,
     continuation : Continuations \cup {Fresh, None},
     batches      : Queues,
     last         : 0..MaxSequence,
     rooms        : [Rooms -> Metadata \cup {None}],
     intent       : Intents \cup {None}]

LoopState ==
    [cursor       : Cursors \cup {None},
     acked        : 0..MaxSequence,
     continuation : Continuations \cup {Fresh, None},
     pending      : Seq(1..MaxSequence)]

depth == Len(saves)

(* SELECT sequence FROM NioDurableBatch ORDER BY sequence *)
Ordered(q, S) ==
    /\ DOMAIN q = 1..Len(q)
    /\ {q[i] : i \in 1..Len(q)} = S
    /\ \A i, j \in 1..Len(q) : i < j => q[i] < q[j]

OrderedSequences(S) == {q \in [1..Cardinality(S) -> S] : Ordered(q, S)}

Mirrors(st, db) ==
    /\ st.cursor = db.cursor
    /\ st.acked = db.acked
    /\ st.continuation = db.continuation
    /\ Ordered(st.pending, DOMAIN db.batches)

(* _state(): the mirror, or the rows read through this connection *)
State ==
    IF mirror # {} THEN mirror
    ELSE {[cursor |-> conn.cursor, acked |-> conn.acked,
           continuation |-> conn.continuation, pending |-> q] :
             q \in OrderedSequences(DOMAIN conn.batches)}

RoomMetadata == IF roomCache # {} THEN roomCache ELSE {conn.rooms}

Mutable == open /\ depth > 0    \* _require_transaction

-----------------------------------------------------------------------------
TypeOK ==
    /\ disk \in Database
    /\ conn \in Database
    /\ saves \in Seq(Database)
    /\ mirror \in SUBSET LoopState
    /\ roomCache \in SUBSET [Rooms -> Metadata \cup {None}]
    /\ intentCache \in SUBSET (Intents \cup {None})
    /\ open \in BOOLEAN
    /\ legacy \in BOOLEAN
    /\ handed \in SUBSET ((1..MaxSequence) \X Bodies)

Blank == [consumer |-> None, cursor |-> None, acked |-> 0, continuation |-> None,
          batches |-> [n \in {} |-> None], last |-> 0,
          rooms |-> [r \in Rooms |-> None], intent |-> None]

(* An ordinary store that no durable session has adopted yet; it may hold  *)
(* unfinished recovery work of the release that wrote it.                  *)
Init ==
    /\ disk = Blank /\ conn = Blank
    /\ saves = <<>>
    /\ mirror = {} /\ roomCache = {} /\ intentCache = {}
    /\ open = FALSE
    /\ legacy \in BOOLEAN
    /\ handed = {}

-----------------------------------------------------------------------------
(* DurableStore(): adopt an ordinary store, inheriting its sync token, or  *)
(* reopen an adopted one for the same consumer.  Every refusal closes the  *)
(* store again and leaves the file alone, so it is no step here.           *)
Adopt(consumer, token) ==
    /\ ~open /\ disk.consumer = None
    /\ ~legacy
    /\ disk' = [disk EXCEPT !.consumer = consumer, !.cursor = token]
    /\ conn' = disk'
    /\ open' = TRUE
    /\ UNCHANGED <<saves, caches, legacy, handed>>

Reopen(consumer) ==
    /\ ~open /\ disk.consumer = consumer
    /\ open' = TRUE
    /\ UNCHANGED <<disk, conn, saves, caches, legacy, handed>>

(* The prior release finishes or settles its own recovery work. *)
DrainLegacy ==
    /\ ~open /\ disk.consumer = None /\ legacy
    /\ legacy' = FALSE
    /\ UNCHANGED <<disk, conn, saves, caches, open, handed>>

(* transaction(): entering a level opens the transaction or a savepoint *)
Begin ==
    /\ open /\ depth < MaxDepth
    /\ saves' = Append(saves, conn)
    /\ intentCache' = {}
    /\ UNCHANGED <<disk, conn, mirror, roomCache, open, legacy, handed>>

(* Leaving it normally releases the savepoint, or commits *)
Commit ==
    /\ open /\ depth > 0
    /\ saves' = SubSeq(saves, 1, depth - 1)
    /\ disk' = IF depth = 1 THEN conn ELSE disk
    /\ intentCache' = {}
    /\ UNCHANGED <<conn, mirror, roomCache, open, legacy, handed>>

(* Mutant of Rollback: the mirror survives the rollback *)
RollbackKeepsMirror ==
    /\ open /\ depth > 0
    /\ conn' = saves[depth]
    /\ saves' = SubSeq(saves, 1, depth - 1)
    /\ roomCache' = {} /\ intentCache' = {}
    /\ UNCHANGED <<disk, mirror, open, legacy, handed>>

(* Leaving it by an exception (of the body or of COMMIT itself) *)
Rollback ==
    /\ open /\ depth > 0
    /\ conn' = saves[depth]
    /\ saves' = SubSeq(saves, 1, depth - 1)
    /\ mirror' = {} /\ roomCache' = {} /\ intentCache' = {}
    /\ UNCHANGED <<disk, open, legacy, handed>>

-----------------------------------------------------------------------------
(* The loop rows.  Each write goes to the table and to the mirror. *)
LoadState ==
    /\ open /\ mirror = {}
    /\ \E st \in State : mirror' = {st}
    /\ UNCHANGED <<disk, conn, saves, roomCache, intentCache, open, legacy, handed>>

UpdateLoop(db, st) ==
    /\ Mutable
    /\ conn' = db
    /\ mirror' = {st}
    /\ UNCHANGED <<disk, saves, roomCache, intentCache, open, legacy, handed>>

SetCursor(cursor) ==
    \E st \in State :
        UpdateLoop([conn EXCEPT !.cursor = cursor], [st EXCEPT !.cursor = cursor])

Capture ==
    \E st \in State :
        /\ st.continuation = None
        /\ UpdateLoop([conn EXCEPT !.continuation = Fresh],
                      [st EXCEPT !.continuation = Fresh])

(* The UPDATE touches the row only if there is one *)
SaveContinuation(k) ==
    \E st \in State :
        UpdateLoop([conn EXCEPT !.continuation = IF @ # None THEN k ELSE None],
                   [st EXCEPT !.continuation = IF @ # None THEN k ELSE None])

FinishInput ==
    \E st \in State :
        UpdateLoop([conn EXCEPT !.continuation = None],
                   [st EXCEPT !.continuation = None])

Extend(f, n, v) == [m \in DOMAIN f \cup {n} |-> IF m = n THEN v ELSE f[m]]

(* Mutant of Publish: a plain rowid, reused once its row is deleted *)
PublishReusesNumbers(body) ==
    \E st \in State, n \in 1..MaxSequence :
        /\ \A m \in DOMAIN conn.batches : n > m
        /\ UpdateLoop([conn EXCEPT !.batches = Extend(@, n, body), !.last = n],
                      [st EXCEPT !.pending = Append(@, n)])

(* AUTOINCREMENT promises a number above every number committed before,    *)
(* not the next one.                                                       *)
Publish(body) ==
    \E st \in State, n \in 1..MaxSequence :
        /\ n > conn.last
        /\ UpdateLoop([conn EXCEPT !.batches = Extend(@, n, body), !.last = n],
                      [st EXCEPT !.pending = Append(@, n)])

(* Mutant of NextBatch: a batch is shown before its transaction commits *)
NextBatchUncommitted ==
    /\ open
    /\ \E st \in State :
        /\ mirror' = {st}
        /\ st.pending # <<>>
    /\ \E n \in DOMAIN conn.batches :
        /\ \A m \in DOMAIN conn.batches : n <= m
        /\ handed' = handed \cup {<<n, conn.batches[n]>>}
    /\ UNCHANGED <<disk, conn, saves, roomCache, intentCache, open, legacy>>

(* next_batch(): asks the mirror whether there is a batch, the table which *)
NextBatch ==
    /\ open /\ depth = 0
    /\ \E st \in State :
        /\ mirror' = {st}
        /\ st.pending # <<>>
    /\ \E n \in DOMAIN conn.batches :
        /\ \A m \in DOMAIN conn.batches : n <= m
        /\ handed' = handed \cup {<<n, conn.batches[n]>>}
    /\ UNCHANGED <<disk, conn, saves, roomCache, intentCache, open, legacy>>

Without(f, n) == [m \in DOMAIN f \ {n} |-> f[m]]

(* Mutants of Ack: acked_sequence not stored; any queued batch accepted,  *)
(* not only the oldest.                                                   *)
AckKeepsCounter(n) ==
    /\ open /\ depth = 0
    /\ \E st \in State :
        /\ st.pending # <<>> /\ n = Head(st.pending)
        /\ conn' = [conn EXCEPT !.batches = Without(@, n)]
        /\ mirror' = {[st EXCEPT !.pending = Tail(@)]}
    /\ disk' = conn'
    /\ intentCache' = {}
    /\ UNCHANGED <<saves, roomCache, open, legacy, handed>>

AckAnyQueued(n) ==
    /\ open /\ depth = 0
    /\ \E st \in State :
        /\ n > st.acked
        /\ n \in DOMAIN conn.batches
        /\ conn' = [conn EXCEPT !.batches = Without(@, n), !.acked = n]
    /\ mirror' = {}
    /\ disk' = conn'
    /\ intentCache' = {}
    /\ UNCHANGED <<saves, roomCache, open, legacy, handed>>

(* ack() of a batch the consumer holds: its own transaction, run between   *)
(* the session's transactions.  A repeated ack is no step.                 *)
Ack(n) ==
    /\ open /\ depth = 0
    /\ \E st \in State :
        /\ n > st.acked
        /\ st.pending # <<>> /\ n = Head(st.pending)
        /\ conn' = [conn EXCEPT !.batches = Without(@, n), !.acked = n]
        /\ mirror' = {[st EXCEPT !.pending = Tail(@), !.acked = n]}
    /\ disk' = conn'
    /\ intentCache' = {}
    /\ UNCHANGED <<saves, roomCache, open, legacy, handed>>

(* The same transaction failing: rolled back, caches reset *)
AckFails(n) ==
    /\ open /\ depth = 0
    /\ \E st \in State : n > st.acked /\ st.pending # <<>> /\ n = Head(st.pending)
    /\ mirror' = {} /\ roomCache' = {} /\ intentCache' = {}
    /\ UNCHANGED <<disk, conn, saves, open, legacy, handed>>

-----------------------------------------------------------------------------
(* Room metadata and the local membership intent *)
LoadRoomMetadata ==
    /\ open /\ roomCache = {}
    /\ roomCache' = RoomMetadata
    /\ UNCHANGED <<disk, conn, saves, mirror, intentCache, open, legacy, handed>>

SaveRoomMetadata(r, m) ==
    /\ Mutable
    /\ \E known \in RoomMetadata :
        /\ roomCache' = {[known EXCEPT ![r] = m]}
        /\ conn' = IF known[r] = m THEN conn ELSE [conn EXCEPT !.rooms[r] = m]
    /\ UNCHANGED <<disk, saves, mirror, intentCache, open, legacy, handed>>

ReadLocalIntent ==
    /\ open /\ intentCache = {}
    /\ intentCache' = {conn.intent}
    /\ UNCHANGED <<disk, conn, saves, mirror, roomCache, open, legacy, handed>>

WriteIntent(value) ==
    /\ Mutable
    /\ conn' = [conn EXCEPT !.intent = value]
    /\ intentCache' = {}
    /\ UNCHANGED <<disk, saves, mirror, roomCache, open, legacy, handed>>

(* create: INSERT, which fails on an existing row *)
CreateLocalIntent(i) == conn.intent = None /\ WriteIntent(i)

SaveLocalIntent(i) == WriteIntent(IF conn.intent # None THEN i ELSE None)

DeleteLocalIntent == WriteIntent(None)

-----------------------------------------------------------------------------
(* close() drops the object; a crash also drops the open transaction *)
Close ==
    /\ open /\ depth = 0
    /\ open' = FALSE
    /\ mirror' = {} /\ roomCache' = {} /\ intentCache' = {}
    /\ UNCHANGED <<disk, conn, saves, legacy, handed>>

Crash ==
    /\ open
    /\ open' = FALSE
    /\ conn' = disk /\ saves' = <<>>
    /\ mirror' = {} /\ roomCache' = {} /\ intentCache' = {}
    /\ UNCHANGED <<disk, legacy, handed>>

LoopStep ==
    \/ LoadState
    \/ \E c \in Cursors : SetCursor(c)
    \/ Capture
    \/ \E k \in Continuations : SaveContinuation(k)
    \/ FinishInput
    \/ \E b \in Bodies : Publish(b)
    \/ NextBatch
    \/ \E n \in 1..MaxSequence : Ack(n)
    \/ \E n \in 1..MaxSequence : AckFails(n)

CacheStep ==
    \/ LoadRoomMetadata
    \/ \E r \in Rooms, m \in Metadata : SaveRoomMetadata(r, m)
    \/ ReadLocalIntent
    \/ \E i \in Intents : CreateLocalIntent(i) \/ SaveLocalIntent(i)
    \/ DeleteLocalIntent

Next ==
    \/ \E c \in Consumers, t \in Cursors \cup {None} : Adopt(c, t)
    \/ \E c \in Consumers : Reopen(c)
    \/ DrainLegacy
    \/ Begin \/ Commit \/ Rollback
    \/ LoopStep
    \/ CacheStep
    \/ Close \/ Crash

Spec == Init /\ [][Next]_vars
-----------------------------------------------------------------------------
(* Every in-memory copy equals what this connection would read, through    *)
(* nested rollbacks, failed commits and reopening ("Only a failed          *)
(* transaction() resets the mirrored loop state").                         *)
Coherent ==
    /\ \A st \in mirror : Mirrors(st, conn)
    /\ roomCache \subseteq {conn.rooms}
    /\ intentCache \subseteq {conn.intent}

(* Every queued batch is newer than every acknowledged one, and no batch   *)
(* can be issued a number that was used before.                            *)
InOrder(db) ==
    /\ db.acked <= db.last
    /\ \A n \in DOMAIN db.batches : db.acked < n /\ n <= db.last

StreamOrdered == InOrder(disk)

(* A batch shown to the consumer keeps its number and its content, in any  *)
(* later delivery, and stays queued until it is acknowledged: rollbacks    *)
(* and restarts never replace or drop it.                                  *)
RedeliveryStable ==
    /\ \A p, q \in handed : p[1] = q[1] => p = q
    /\ \A p \in handed :
        \/ p[1] <= disk.acked
        \/ p[1] \in DOMAIN disk.batches /\ disk.batches[p[1]] = p[2]

(* progress_generation of the committed rows, which waiters compare across *)
(* awaits and restarts, never goes back.                                   *)
Newest(db) ==
    IF DOMAIN db.batches = {} THEN 0
    ELSE CHOOSE n \in DOMAIN db.batches : \A m \in DOMAIN db.batches : m <= n

ProgressGeneration(db) ==
    db.acked + (IF Newest(db) > db.acked THEN Newest(db) ELSE db.acked)

ProgressMonotone ==
    [][ProgressGeneration(disk') >= ProgressGeneration(disk)]_vars

(* The store implements BatchStream: transactions, savepoints, caches and  *)
(* crashes are invisible to the session and the consumer.                  *)
Rows(db) == <<db.consumer, db.cursor, db.continuation, db.rooms, db.intent>>

Stream == INSTANCE BatchStream WITH
    NoRows <- Rows(Blank), queue <- disk.batches, acked <- disk.acked,
    issued <- disk.last, rows <- Rows(disk), handed <- handed

ImplementsStream == Stream!Spec
=============================================================================
