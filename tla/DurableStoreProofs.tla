------------------------- MODULE DurableStoreProofs -------------------------
(***************************************************************************)
(* Proofs about DurableStore for any sets of cursors, continuations,       *)
(* batches, rooms and consumers and any bounds.  The inductive invariant   *)
(* relates the three databases of the model: what is on disk, what the     *)
(* connection reads, and what every open transaction level rolls back to.  *)
(***************************************************************************)
EXTENDS DurableStore, Orders, SequenceTheorems, TLAPS

(* b is a plus batches with unused numbers, and acknowledges nothing more *)
Grows(a, b) ==
    /\ a.acked = b.acked
    /\ a.last <= b.last
    /\ \A n \in DOMAIN a.batches :
        n \in DOMAIN b.batches /\ b.batches[n] = a.batches[n]
    /\ \A n \in DOMAIN b.batches \ DOMAIN a.batches : a.last < n /\ n <= b.last

Levels ==
    /\ depth = 0 => conn = disk
    /\ depth > 0 => saves[1] = disk
    /\ ~open => depth = 0 /\ mirror = {} /\ roomCache = {} /\ intentCache = {}

Growing ==
    /\ InOrder(disk) /\ Grows(disk, conn) /\ InOrder(conn)
    /\ \A i \in 1..Len(saves) : Grows(disk, saves[i]) /\ InOrder(saves[i])

IInv == TypeOK /\ Coherent /\ Levels /\ Growing /\ RedeliveryStable

-----------------------------------------------------------------------------
(* A queue is a function from issued numbers to batch bodies. *)
LEMMA QueueShape ==
    \A f : f \in Queues <=> /\ DOMAIN f \subseteq 1..MaxSequence
                            /\ f \in [DOMAIN f -> Bodies]
  BY DEF Queues

LEMMA QueueExtend ==
    ASSUME NEW f \in Queues, NEW n \in 1..MaxSequence, NEW b \in Bodies
    PROVE  /\ Extend(f, n, b) \in Queues
           /\ DOMAIN Extend(f, n, b) = DOMAIN f \cup {n}
  BY QueueShape DEF Extend

LEMMA QueueWithout ==
    ASSUME NEW f \in Queues, NEW n
    PROVE  /\ Without(f, n) \in Queues
           /\ DOMAIN Without(f, n) = DOMAIN f \ {n}
  BY QueueShape DEF Without

(* A function on 1..k is a sequence, also over a larger set. *)
LEMMA FunctionIsSequence ==
    ASSUME NEW S, NEW k \in Nat, NEW q \in [1..k -> S]
    PROVE  q \in Seq(S)
  OBVIOUS

LEMMA SequenceOfSubset ==
    ASSUME NEW S, NEW T, S \subseteq T, NEW q \in Seq(S)
    PROVE  q \in Seq(T)
  OBVIOUS

LEMMA NoIndex ==
    ASSUME NEW n, n = 0
    PROVE  1..n = {}
  OBVIOUS

(* _state() returns a well-typed loop state that agrees with the tables. *)
LEMMA StateAgrees ==
    ASSUME TypeOK, Coherent, NEW st \in State
    PROVE  st \in LoopState /\ Mirrors(st, conn)
  <1>1. CASE mirror # {}
    BY <1>1 DEF State, TypeOK, Coherent
  <1>2. CASE mirror = {}
    <2>1. PICK q \in OrderedSequences(DOMAIN conn.batches) :
            st = [cursor |-> conn.cursor, acked |-> conn.acked,
                  continuation |-> conn.continuation, pending |-> q]
      BY <1>2 DEF State
    <2>2. DOMAIN conn.batches \subseteq 1..MaxSequence
      BY QueueShape DEF TypeOK, Database
    <2>3. IsFiniteSet(DOMAIN conn.batches)
      <3>1. IsFiniteSet(1..MaxSequence)
        BY FS_Interval, BoundAssumption
      <3> QED BY <2>2, <3>1, FS_Subset
    <2>4. Cardinality(DOMAIN conn.batches) \in Nat
      BY <2>3, FS_CardinalityType
    <2>5. q \in Seq(1..MaxSequence) /\ Ordered(q, DOMAIN conn.batches)
      <3>1. /\ q \in [1..Cardinality(DOMAIN conn.batches) -> DOMAIN conn.batches]
            /\ Ordered(q, DOMAIN conn.batches)
        BY DEF OrderedSequences
      <3>2. q \in Seq(DOMAIN conn.batches)
        BY <2>4, <3>1, FunctionIsSequence
      <3> QED BY <2>2, <3>1, <3>2, SequenceOfSubset
    <2> QED
      BY <2>1, <2>5 DEF TypeOK, Database, LoopState, Mirrors
  <1> QED BY <1>1, <1>2
-----------------------------------------------------------------------------
(* Appending a number above every element, and dropping the head, keep the *)
(* mirror's deque sorted.                                                  *)
LEMMA OrderedAppend ==
    ASSUME NEW q \in Seq(1..MaxSequence), NEW S, Ordered(q, S),
           NEW n \in 1..MaxSequence, \A m \in S : m < n
    PROVE  Ordered(Append(q, n), S \cup {n})
  <1> DEFINE r == Append(q, n)
  <1>1. /\ Len(r) = Len(q) + 1 /\ r[Len(q) + 1] = n
        /\ DOMAIN r = 1..(Len(q) + 1)
        /\ \A i \in 1..Len(q) : r[i] = q[i] /\ q[i] \in S
    BY DEF Ordered
  <1>2. {r[i] : i \in 1..Len(r)} = S \cup {n}
    BY <1>1 DEF Ordered
  <1>3. \A i, j \in 1..Len(r) : i < j => r[i] < r[j]
    <2> SUFFICES ASSUME NEW i \in 1..Len(r), NEW j \in 1..Len(r), i < j
                 PROVE  r[i] < r[j]
      OBVIOUS
    <2>1. CASE j = Len(q) + 1
      BY <1>1, <2>1
    <2>2. CASE j # Len(q) + 1
      BY <1>1, <2>2 DEF Ordered
    <2> QED BY <2>1, <2>2
  <1> QED BY <1>1, <1>2, <1>3 DEF Ordered

LEMMA OrderedTail ==
    ASSUME NEW q \in Seq(1..MaxSequence), NEW S, Ordered(q, S), q # <<>>
    PROVE  /\ Head(q) \in S
           /\ \A m \in S : Head(q) <= m
           /\ Tail(q) \in Seq(1..MaxSequence)
           /\ Ordered(Tail(q), S \ {Head(q)})
  <1> DEFINE r == Tail(q)
  <1>1. /\ Len(q) \in Nat \ {0} /\ Head(q) = q[1]
        /\ Len(r) = Len(q) - 1 /\ DOMAIN r = 1..Len(r)
        /\ \A i \in 1..Len(r) : r[i] = q[i + 1]
        /\ r \in Seq(1..MaxSequence)
        /\ \A i \in 1..Len(q) : q[i] \in 1..MaxSequence
    <2>1. Len(q) \in Nat \ {0}
      BY EmptySeq
    <2>2. Head(q) = q[1] /\ \A i \in 1..Len(q) : q[i] \in 1..MaxSequence
      <3>1. Head(q) = q[1]
        BY <2>1
      <3>2. \A i \in 1..Len(q) : q[i] \in 1..MaxSequence
        BY ElementOfSeq
      <3> QED BY <3>1, <3>2
    <2>3. /\ Len(r) = Len(q) - 1
          /\ \A i \in 1..Len(r) : r[i] = q[i + 1]
          /\ r \in Seq(1..MaxSequence)
      BY HeadTailProperties
    <2>4. DOMAIN r = 1..Len(r)
      BY <2>3
    <2> QED BY <2>1, <2>2, <2>3, <2>4
  <1>2. \A i \in 2..Len(q) : q[1] < q[i]
    BY <1>1 DEF Ordered
  <1>3. Head(q) \in S /\ \A m \in S : Head(q) <= m
    BY <1>1, <1>2 DEF Ordered
  <1>4. {r[i] : i \in 1..Len(r)} = S \ {Head(q)}
    <2>1. ASSUME NEW i \in 1..Len(r) PROVE r[i] \in S \ {Head(q)}
      BY <1>1, <1>2, <2>1 DEF Ordered
    <2>2. ASSUME NEW m \in S \ {Head(q)} PROVE \E i \in 1..Len(r) : r[i] = m
      <3>1. PICK k \in 1..Len(q) : q[k] = m
        BY DEF Ordered
      <3>2. k # 1
        BY <1>1, <3>1
      <3>3. k - 1 \in 1..Len(r) /\ r[k - 1] = m
        BY <1>1, <3>1, <3>2
      <3> QED BY <3>3
    <2> QED BY <2>1, <2>2
  <1>5. \A i, j \in 1..Len(r) : i < j => r[i] < r[j]
    BY <1>1 DEF Ordered
  <1> QED BY <1>1, <1>3, <1>4, <1>5 DEF Ordered

(* A write of one loop row, applied to the table and to the mirror alike,  *)
(* preserves the invariant.                                                *)
LEMMA UpdateLoopStep ==
    ASSUME IInv, NEW db \in Database, NEW st \in LoopState, UpdateLoop(db, st),
           Mirrors(st, db), Grows(disk, db), InOrder(db),
           db.rooms = conn.rooms, db.intent = conn.intent
    PROVE  IInv'
  <1> USE DEF IInv, UpdateLoop, Mutable
  <1>1. TypeOK'
    BY DEF TypeOK
  <1>2. Coherent'
    BY DEF Coherent, Mirrors
  <1>3. Levels'
    BY DEF Levels, depth
  <1>4. Growing'
    BY DEF Growing, InOrder, Grows
  <1>5. RedeliveryStable'
    BY DEF RedeliveryStable
  <1> QED BY <1>1, <1>2, <1>3, <1>4, <1>5

(* What a step does that drops or keeps every cache and leaves the rows    *)
(* it reads alone.                                                         *)
LEMMA TransactionStep ==
    ASSUME IInv, Begin \/ Commit \/ Rollback
    PROVE  IInv'
  <1> USE DEF IInv
  <1>0. saves \in Seq(Database) /\ Len(saves) \in Nat /\ disk \in Database
        /\ conn \in Database
    BY DEF TypeOK
  <1>1. CASE Begin
    <2> USE <1>0, <1>1 DEF Begin
    <2>1. /\ Len(saves') = Len(saves) + 1 /\ saves' \in Seq(Database)
          /\ saves'[Len(saves) + 1] = conn
          /\ \A i \in 1..Len(saves) : saves'[i] = saves[i]
      OBVIOUS
    <2>2. TypeOK'
      BY <2>1 DEF TypeOK
    <2>3. Coherent'
      BY DEF Coherent, Mirrors
    <2>4. Levels'
      BY <2>1 DEF Levels, depth
    <2>5. Growing'
      BY <2>1 DEF Growing
    <2>6. RedeliveryStable'
      BY DEF RedeliveryStable
    <2> QED BY <2>2, <2>3, <2>4, <2>5, <2>6
  <1>2. ASSUME depth > 0, saves' = SubSeq(saves, 1, depth - 1)
        PROVE  /\ saves' \in Seq(Database) /\ Len(saves') = Len(saves) - 1
               /\ \A i \in 1..Len(saves') : i \in 1..Len(saves) /\ saves'[i] = saves[i]
    <2>1. Len(saves) \in Nat \ {0}
      BY <1>0, <1>2 DEF depth
    <2> DEFINE k == Len(saves) - 1
               t == SubSeq(saves, 1, k)
    <2>2. k \in Nat /\ 1 \in Int /\ k \in Int
      BY <2>1
    <2>3. \A i \in 1..k : saves[i] \in Database
      BY <1>0, ElementOfSeq
    <2>4. /\ t \in Seq(Database)
          /\ Len(t) = IF 1 <= k THEN k - 1 + 1 ELSE 0
          /\ \A i \in 1..(k - 1 + 1) : t[i] = saves[1 + i - 1]
      <3> HIDE DEF k
      <3> QED BY <2>2, <2>3, SubSeqProperties
    <2>5. saves' = t
      BY <1>2 DEF depth
    <2>6. Len(t) = k /\ \A i \in 1..k : t[i] = saves[i]
      <3> HIDE DEF k, t
      <3>1. k - 1 + 1 = k
        BY <2>2
      <3>2. ASSUME NEW i \in 1..k PROVE t[i] = saves[i]
        <4>1. 1 + i - 1 = i
          BY <2>2
        <4> QED BY <2>4, <3>1, <4>1
      <3>3. Len(t) = k
        BY <2>2, <2>4, <3>1
      <3> QED BY <3>2, <3>3
    <2> QED BY <2>1, <2>4, <2>5, <2>6
  <1>3. CASE Commit
    <2> USE <1>0, <1>3 DEF Commit
    <2>1. /\ saves' \in Seq(Database) /\ Len(saves') = Len(saves) - 1
          /\ \A i \in 1..Len(saves') : i \in 1..Len(saves) /\ saves'[i] = saves[i]
      BY <1>2
    <2>2. TypeOK'
      BY <2>1 DEF TypeOK
    <2>3. Coherent'
      BY DEF Coherent, Mirrors
    <2>4. Levels'
      BY <2>1 DEF Levels, depth
    <2>5. Growing'
      <3>1. CASE depth = 1
        <4>1. disk' = conn /\ conn' = conn /\ Len(saves') = 0
          BY <2>1, <3>1 DEF depth
        <4>2. Grows(conn, conn)
          BY DEF Grows, Database
        <4>3. InOrder(disk)' /\ InOrder(conn)'
          BY <4>1 DEF Growing, InOrder
        <4>4. Grows(disk, conn)'
          BY <4>1, <4>2 DEF Grows
        <4>5. \A i \in 1..Len(saves') : Grows(disk', saves'[i]) /\ InOrder(saves'[i])
          <5>1. 1..Len(saves') = {}
            BY <4>1, NoIndex
          <5> QED BY <5>1, Zenon
        <4> QED BY <4>3, <4>4, <4>5 DEF Growing
      <3>2. CASE depth # 1
        <4>1. disk' = disk /\ conn' = conn
          BY <3>2
        <4>2. InOrder(disk)' /\ Grows(disk, conn)' /\ InOrder(conn)'
          BY <4>1 DEF Growing, InOrder, Grows
        <4>3. \A i \in 1..Len(saves') : Grows(disk', saves'[i]) /\ InOrder(saves'[i])
          BY <2>1, <4>1 DEF Growing
        <4> QED BY <4>2, <4>3 DEF Growing
      <3> QED BY <3>1, <3>2
    <2>6. RedeliveryStable'
      <3>1. disk' = disk \/ disk' = conn
        OBVIOUS
      <3> QED BY <3>1 DEF RedeliveryStable, Growing, Grows
    <2> QED BY <2>2, <2>3, <2>4, <2>5, <2>6
  <1>4. CASE Rollback
    <2> USE <1>0, <1>4 DEF Rollback
    <2>1. /\ saves' \in Seq(Database) /\ Len(saves') = Len(saves) - 1
          /\ \A i \in 1..Len(saves') : i \in 1..Len(saves) /\ saves'[i] = saves[i]
      BY <1>2
    <2>2. depth \in 1..Len(saves) /\ saves[depth] \in Database
      BY DEF depth
    <2>3. TypeOK'
      BY <2>1, <2>2 DEF TypeOK
    <2>4. Coherent'
      BY DEF Coherent
    <2>5. Levels'
      BY <2>1, <2>2 DEF Levels, depth
    <2>6. Growing'
      <3>1. disk' = disk /\ conn' = saves[depth]
        OBVIOUS
      <3>2. Grows(disk, saves[depth]) /\ InOrder(saves[depth]) /\ InOrder(disk)
        BY <2>2 DEF Growing
      <3>3. InOrder(disk)' /\ Grows(disk, conn)' /\ InOrder(conn)'
        BY <3>1, <3>2 DEF InOrder, Grows
      <3>4. \A i \in 1..Len(saves') : Grows(disk', saves'[i]) /\ InOrder(saves'[i])
        BY <2>1, <3>1 DEF Growing
      <3> QED BY <3>3, <3>4 DEF Growing
    <2>7. RedeliveryStable'
      BY DEF RedeliveryStable
    <2> QED BY <2>3, <2>4, <2>5, <2>6, <2>7
  <1> QED BY <1>1, <1>3, <1>4

(* The writes of a transaction body to the loop rows. *)
LEMMA LoopWriteStep ==
    ASSUME IInv,
           \/ \E c \in Cursors : SetCursor(c)
           \/ Capture
           \/ \E k \in Continuations : SaveContinuation(k)
           \/ FinishInput
           \/ \E b \in Bodies : Publish(b)
    PROVE  IInv'
  <1>0. /\ TypeOK /\ Coherent /\ conn \in Database
        /\ Grows(disk, conn) /\ InOrder(conn) /\ InOrder(disk)
        /\ disk \in Database
    BY DEF IInv, Growing, TypeOK
  <1>1. ASSUME NEW st \in State PROVE st \in LoopState /\ Mirrors(st, conn)
    BY <1>0, <1>1, StateAgrees
  <1>2. ASSUME NEW c \in Cursors, SetCursor(c) PROVE IInv'
    <2> DEFINE db == [conn EXCEPT !.cursor = c]
    <2>1. PICK st \in State : UpdateLoop(db, [st EXCEPT !.cursor = c])
      BY <1>2 DEF SetCursor
    <2> DEFINE ls == [st EXCEPT !.cursor = c]
    <2>2. db \in Database /\ ls \in LoopState
      BY <1>0, <1>1 DEF Database, LoopState
    <2>3. /\ Mirrors(ls, db) /\ Grows(disk, db) /\ InOrder(db)
          /\ db.rooms = conn.rooms /\ db.intent = conn.intent
      BY <1>0, <1>1 DEF Database, LoopState, Mirrors, Grows, InOrder
    <2> HIDE DEF db, ls
    <2> QED BY <2>1, <2>2, <2>3, UpdateLoopStep DEF db, ls
  <1>3. ASSUME NEW k \in Continuations \cup {Fresh, None}, NEW st \in State,
               UpdateLoop([conn EXCEPT !.continuation = k],
                          [st EXCEPT !.continuation = k])
        PROVE  IInv'
    <2> DEFINE db == [conn EXCEPT !.continuation = k]
               ls == [st EXCEPT !.continuation = k]
    <2>1. UpdateLoop(db, ls)
      BY <1>3
    <2>2. db \in Database /\ ls \in LoopState
      BY <1>0, <1>1 DEF Database, LoopState
    <2>3. /\ Mirrors(ls, db) /\ Grows(disk, db) /\ InOrder(db)
          /\ db.rooms = conn.rooms /\ db.intent = conn.intent
      BY <1>0, <1>1 DEF Database, LoopState, Mirrors, Grows, InOrder
    <2> HIDE DEF db, ls
    <2> QED BY <2>1, <2>2, <2>3, UpdateLoopStep
  <1>4. CASE Capture
    BY <1>3, <1>4 DEF Capture
  <1>5. ASSUME NEW k \in Continuations, SaveContinuation(k) PROVE IInv'
    <2>1. PICK st \in State :
            UpdateLoop([conn EXCEPT !.continuation = IF @ # None THEN k ELSE None],
                       [st EXCEPT !.continuation = IF @ # None THEN k ELSE None])
      BY <1>5 DEF SaveContinuation
    <2>2. st.continuation = conn.continuation
      BY <1>1 DEF Mirrors
    <2>3. CASE conn.continuation # None
      BY <1>3, <2>1, <2>2, <2>3
    <2>4. CASE conn.continuation = None
      BY <1>3, <2>1, <2>2, <2>4
    <2> QED BY <2>3, <2>4
  <1>6. CASE FinishInput
    BY <1>3, <1>6 DEF FinishInput
  <1>7. ASSUME NEW b \in Bodies, Publish(b) PROVE IInv'
    <2>1. PICK st \in State, n \in 1..MaxSequence :
            /\ n > conn.last
            /\ UpdateLoop([conn EXCEPT !.batches = Extend(@, n, b), !.last = n],
                          [st EXCEPT !.pending = Append(@, n)])
      BY <1>7 DEF Publish
    <2> DEFINE db == [conn EXCEPT !.batches = Extend(@, n, b), !.last = n]
               ls == [st EXCEPT !.pending = Append(@, n)]
    <2>2. /\ conn.batches \in Queues
          /\ DOMAIN conn.batches \subseteq 1..MaxSequence
          /\ Extend(conn.batches, n, b) \in Queues
          /\ DOMAIN Extend(conn.batches, n, b) = DOMAIN conn.batches \cup {n}
      BY <1>0, QueueExtend, QueueShape DEF Database
    <2>3. st \in LoopState /\ Mirrors(st, conn)
      BY <1>1
    <2>4. \A m \in DOMAIN conn.batches : m < n
      BY <1>0, <2>1, <2>2 DEF InOrder, Database
    <2>5. db \in Database
      <3>1. ASSUME NEW q \in Queues PROVE [conn EXCEPT !.batches = q, !.last = n] \in Database
        <4>1. n \in 0..MaxSequence
          BY BoundAssumption
        <4> QED BY <1>0, <3>1, <4>1 DEF Database
      <3> QED BY <2>2, <3>1
    <2>6. ls \in LoopState
      <3>1. Append(st.pending, n) \in Seq(1..MaxSequence)
        BY <2>3 DEF LoopState
      <3> QED BY <2>3, <3>1 DEF LoopState
    <2>7. Mirrors(ls, db)
      <3>1. /\ db.cursor = conn.cursor /\ db.acked = conn.acked
            /\ db.continuation = conn.continuation
            /\ db.batches = Extend(conn.batches, n, b)
        BY <1>0 DEF Database
      <3>2. /\ ls.cursor = st.cursor /\ ls.acked = st.acked
            /\ ls.continuation = st.continuation
            /\ ls.pending = Append(st.pending, n)
            /\ st.pending \in Seq(1..MaxSequence)
        BY <2>3 DEF LoopState
      <3>3. Ordered(ls.pending, DOMAIN db.batches)
        BY <2>2, <2>3, <2>4, <3>1, <3>2, OrderedAppend DEF Mirrors
      <3> HIDE DEF db, ls
      <3> QED BY <2>3, <3>1, <3>2, <3>3 DEF Mirrors
    <2>8. Grows(disk, db)
      <3>1. \A m \in DOMAIN conn.batches : Extend(conn.batches, n, b)[m] = conn.batches[m]
        BY <2>4, <2>2 DEF Extend
      <3> QED BY <1>0, <2>1, <2>2, <3>1 DEF Grows, Database
    <2>9. InOrder(db)
      BY <1>0, <2>1, <2>2 DEF InOrder, Database
    <2>10. db.rooms = conn.rooms /\ db.intent = conn.intent
      BY <1>0 DEF Database
    <2> HIDE DEF db, ls
    <2> QED BY <2>1, <2>5, <2>6, <2>7, <2>8, <2>9, <2>10, UpdateLoopStep DEF db, ls
  <1> QED BY <1>2, <1>4, <1>5, <1>6, <1>7

(* Reads, deliveries and acknowledgements, which run between transactions. *)
LEMMA ConsumerStep ==
    ASSUME IInv,
           \/ LoadState
           \/ NextBatch
           \/ \E n \in 1..MaxSequence : Ack(n) \/ AckFails(n)
    PROVE  IInv'
  <1>0. /\ TypeOK /\ Coherent /\ Levels /\ Growing /\ RedeliveryStable
        /\ disk \in Database /\ conn \in Database
    BY DEF IInv, TypeOK
  <1>1. ASSUME NEW st \in State PROVE st \in LoopState /\ Mirrors(st, conn)
    BY <1>0, <1>1, StateAgrees
  <1>2. CASE LoadState
    <2>1. PICK st \in State : mirror' = {st}
      BY <1>2 DEF LoadState
    <2> USE <1>0, <1>1, <1>2, <2>1 DEF LoadState
    <2>2. TypeOK'
      BY DEF TypeOK
    <2>3. Coherent'
      BY DEF Coherent, Mirrors
    <2>4. Levels' /\ Growing' /\ RedeliveryStable'
      BY DEF Levels, depth, Growing, Grows, InOrder, RedeliveryStable
    <2> QED BY <2>2, <2>3, <2>4 DEF IInv
  <1>3. CASE NextBatch
    <2>1. PICK st \in State : mirror' = {st}
      BY <1>3 DEF NextBatch
    <2>2. PICK n \in DOMAIN conn.batches : handed' = handed \cup {<<n, conn.batches[n]>>}
      BY <1>3 DEF NextBatch
    <2>3. /\ UNCHANGED <<disk, conn, saves, roomCache, intentCache, open, legacy>>
          /\ conn = disk /\ open
      BY <1>0, <1>3 DEF NextBatch, Levels
    <2>4. n \in 1..MaxSequence /\ conn.batches[n] \in Bodies
      BY <1>0, QueueShape DEF Database
    <2>5. TypeOK'
      BY <1>0, <1>1, <2>1, <2>2, <2>3, <2>4 DEF TypeOK
    <2>6. Coherent'
      BY <1>0, <1>1, <2>1, <2>3 DEF Coherent, Mirrors
    <2>7. Levels' /\ Growing'
      BY <1>0, <2>3 DEF Levels, depth, Growing, Grows, InOrder
    <2>8. RedeliveryStable'
      <3>1. disk.acked < n /\ disk.acked \in Nat /\ n \in Nat
        BY <1>0, <2>3, <2>4, BoundAssumption DEF Growing, InOrder, Database
      <3>2. \A p \in handed : p[1] = n => p[2] = disk.batches[n] /\ p \in (1..MaxSequence) \X Bodies
        BY <1>0, <3>1 DEF RedeliveryStable, TypeOK
      <3>3. \A p \in handed : p[1] = n => p = <<n, disk.batches[n]>>
        BY <3>2
      <3>4. disk' = disk
        BY <2>3
      <3> QED BY <1>0, <2>2, <2>3, <3>1, <3>3, <3>4 DEF RedeliveryStable
    <2> QED BY <2>5, <2>6, <2>7, <2>8 DEF IInv
  <1>4. ASSUME NEW n \in 1..MaxSequence, Ack(n) PROVE IInv'
    <2>1. PICK st \in State :
            /\ n > st.acked
            /\ st.pending # <<>> /\ n = Head(st.pending)
            /\ conn' = [conn EXCEPT !.batches = Without(@, n), !.acked = n]
            /\ mirror' = {[st EXCEPT !.pending = Tail(@), !.acked = n]}
      BY <1>4 DEF Ack
    <2>2. /\ disk' = conn' /\ intentCache' = {} /\ depth = 0 /\ conn = disk /\ open
          /\ UNCHANGED <<saves, roomCache, open, legacy, handed>>
      BY <1>0, <1>4 DEF Ack, Levels
    <2>3. /\ st \in LoopState /\ Mirrors(st, conn)
          /\ st.pending \in Seq(1..MaxSequence)
      BY <1>1 DEF LoopState
    <2>4. /\ n \in DOMAIN conn.batches
          /\ \A m \in DOMAIN conn.batches : n <= m
          /\ Tail(st.pending) \in Seq(1..MaxSequence)
          /\ Ordered(Tail(st.pending), DOMAIN conn.batches \ {n})
      BY <2>1, <2>3, OrderedTail DEF Mirrors
    <2>5. /\ Without(conn.batches, n) \in Queues
          /\ DOMAIN Without(conn.batches, n) = DOMAIN conn.batches \ {n}
          /\ DOMAIN conn.batches \subseteq 1..MaxSequence
      BY <1>0, QueueWithout, QueueShape DEF Database
    <2>6. n \in 0..MaxSequence
      BY BoundAssumption
    <2>7. conn' \in Database
      <3>1. ASSUME NEW q \in Queues PROVE [conn EXCEPT !.batches = q, !.acked = n] \in Database
        BY <1>0, <2>6, <3>1 DEF Database
      <3> QED BY <2>1, <2>5, <3>1
    <2>8. /\ conn'.batches = Without(conn.batches, n) /\ conn'.acked = n
          /\ conn'.last = conn.last /\ conn'.cursor = conn.cursor
          /\ conn'.continuation = conn.continuation
          /\ conn'.rooms = conn.rooms /\ conn'.intent = conn.intent
      BY <1>0, <2>1 DEF Database
    <2>9. TypeOK'
      <3>1. [st EXCEPT !.pending = Tail(@), !.acked = n] \in LoopState
        BY <2>3, <2>4, <2>6 DEF LoopState
      <3> QED BY <1>0, <2>1, <2>2, <2>7, <3>1 DEF TypeOK
    <2>10. Coherent'
      <3> DEFINE ls == [st EXCEPT !.pending = Tail(@), !.acked = n]
      <3>1. /\ ls.cursor = st.cursor /\ ls.acked = n
            /\ ls.continuation = st.continuation
            /\ ls.pending = Tail(st.pending)
        BY <2>3 DEF LoopState
      <3> HIDE DEF ls
      <3>2. Mirrors(ls, conn')
        BY <2>3, <2>4, <2>5, <2>8, <3>1 DEF Mirrors
      <3>3. mirror' = {ls}
        BY <2>1 DEF ls
      <3>4. roomCache' \subseteq {conn'.rooms}
        BY <1>0, <2>2, <2>8 DEF Coherent
      <3> QED BY <2>2, <3>2, <3>3, <3>4 DEF Coherent
    <2>11. Levels'
      BY <1>0, <2>2 DEF Levels, depth
    <2>12. Growing'
      <3>1. n <= conn.last /\ conn.acked <= conn.last
        BY <1>0, <2>4 DEF Growing, InOrder
      <3>2. InOrder(conn')
        BY <1>0, <2>4, <2>5, <2>8, <3>1 DEF Growing, InOrder, Database
      <3>3. Grows(conn', conn')
        BY <2>7 DEF Grows, Database
      <3>4. Len(saves') = 0 /\ disk' = conn'
        BY <2>2 DEF depth
      <3>5. \A i \in 1..Len(saves') : Grows(disk', saves'[i]) /\ InOrder(saves'[i])
        BY <3>4
      <3>6. InOrder(disk)' /\ Grows(disk, conn)' /\ InOrder(conn)'
        BY <3>2, <3>3, <3>4 DEF Grows, InOrder
      <3> QED BY <3>5, <3>6 DEF Growing
    <2>13. RedeliveryStable'
      <3>1. ASSUME NEW p \in handed, p[1] > n
            PROVE  p[1] \in DOMAIN disk'.batches /\ disk'.batches[p[1]] = p[2]
        <4>1. p[1] \in DOMAIN disk.batches /\ disk.batches[p[1]] = p[2]
          <5>1. p[1] \in Nat /\ n > disk.acked /\ disk.acked \in Nat
            BY <1>0, <2>1, <2>2, <2>3, BoundAssumption DEF TypeOK, Mirrors, Database
          <5> QED BY <1>0, <3>1, <5>1 DEF RedeliveryStable
        <4>2. p[1] # n
          BY <3>1
        <4> QED BY <2>2, <2>8, <4>1, <4>2 DEF Without
      <3>2. \A p \in handed : p[1] \in Nat
        BY <1>0, BoundAssumption DEF TypeOK
      <3>3. handed' = handed /\ disk'.acked = n
        BY <2>2, <2>8
      <3> QED BY <1>0, <3>1, <3>2, <3>3 DEF RedeliveryStable
    <2> QED BY <2>9, <2>10, <2>11, <2>12, <2>13 DEF IInv
  <1>5. ASSUME NEW n \in 1..MaxSequence, AckFails(n) PROVE IInv'
    <2> USE <1>0, <1>5 DEF AckFails
    <2>1. TypeOK' /\ Coherent'
      BY DEF TypeOK, Coherent
    <2>2. Levels' /\ Growing' /\ RedeliveryStable'
      BY DEF Levels, depth, Growing, Grows, InOrder, RedeliveryStable
    <2> QED BY <2>1, <2>2 DEF IInv
  <1> QED BY <1>2, <1>3, <1>4, <1>5

(* The room metadata and intent rows with their caches. *)
LEMMA CacheStepInvariant ==
    ASSUME IInv, CacheStep
    PROVE  IInv'
  <1>0. /\ TypeOK /\ Coherent /\ Levels /\ Growing /\ RedeliveryStable
        /\ disk \in Database /\ conn \in Database
    BY DEF IInv, TypeOK
  <1>1. CASE LoadRoomMetadata \/ ReadLocalIntent
    <2> USE <1>0, <1>1 DEF LoadRoomMetadata, ReadLocalIntent
    <2>1. TypeOK'
      BY DEF TypeOK, RoomMetadata, Database
    <2>2. Coherent'
      BY DEF Coherent, Mirrors, RoomMetadata
    <2>3. Levels' /\ Growing' /\ RedeliveryStable'
      BY DEF Levels, depth, Growing, Grows, InOrder, RedeliveryStable
    <2> QED BY <2>1, <2>2, <2>3 DEF IInv
  <1>2. ASSUME NEW r \in Rooms, NEW m \in Metadata, SaveRoomMetadata(r, m) PROVE IInv'
    <2>1. /\ open /\ depth > 0
          /\ UNCHANGED <<disk, saves, mirror, intentCache, open, legacy, handed>>
      BY <1>2 DEF SaveRoomMetadata, Mutable
    <2>2. /\ roomCache' = {[conn.rooms EXCEPT ![r] = m]}
          /\ conn' = [conn EXCEPT !.rooms = [conn.rooms EXCEPT ![r] = m]]
      <3>1. PICK known \in RoomMetadata :
              /\ roomCache' = {[known EXCEPT ![r] = m]}
              /\ conn' = IF known[r] = m THEN conn ELSE [conn EXCEPT !.rooms[r] = m]
        BY <1>2 DEF SaveRoomMetadata
      <3>2. known = conn.rooms /\ conn.rooms \in [Rooms -> Metadata \cup {None}]
        BY <1>0 DEF RoomMetadata, Coherent, Database
      <3>3. CASE conn.rooms[r] = m
        <4>1. [conn.rooms EXCEPT ![r] = m] = conn.rooms
          BY <3>2, <3>3
        <4>2. [conn EXCEPT !.rooms = conn.rooms] = conn
          BY <1>0 DEF Database
        <4> QED BY <3>1, <3>2, <3>3, <4>1, <4>2
      <3>4. CASE conn.rooms[r] # m
        BY <3>1, <3>2, <3>4
      <3> QED BY <3>3, <3>4
    <2> DEFINE f == [conn.rooms EXCEPT ![r] = m]
    <2>3. f \in [Rooms -> Metadata \cup {None}]
      BY <1>0 DEF Database
    <2> HIDE DEF f
    <2>4. /\ conn' \in Database /\ conn'.rooms = f
          /\ conn'.cursor = conn.cursor /\ conn'.acked = conn.acked
          /\ conn'.continuation = conn.continuation /\ conn'.batches = conn.batches
          /\ conn'.last = conn.last /\ conn'.intent = conn.intent
      BY <1>0, <2>2, <2>3 DEF Database, f
    <2>5. TypeOK'
      BY <1>0, <2>1, <2>2, <2>3, <2>4 DEF TypeOK, f
    <2>6. Coherent'
      BY <1>0, <2>1, <2>2, <2>4 DEF Coherent, Mirrors, f
    <2>7. Levels' /\ Growing' /\ RedeliveryStable'
      BY <1>0, <2>1, <2>4 DEF Levels, depth, Growing, Grows, InOrder, RedeliveryStable
    <2> QED BY <2>5, <2>6, <2>7 DEF IInv
  <1>3. ASSUME NEW i \in Intents \cup {None}, WriteIntent(i) PROVE IInv'
    <2>1. /\ open /\ depth > 0 /\ intentCache' = {}
          /\ UNCHANGED <<disk, saves, mirror, roomCache, open, legacy, handed>>
          /\ conn' = [conn EXCEPT !.intent = i]
      BY <1>3 DEF WriteIntent, Mutable
    <2>2. /\ conn' \in Database /\ conn'.rooms = conn.rooms
          /\ conn'.cursor = conn.cursor /\ conn'.acked = conn.acked
          /\ conn'.continuation = conn.continuation /\ conn'.batches = conn.batches
          /\ conn'.last = conn.last
      BY <1>0, <2>1 DEF Database
    <2>3. TypeOK'
      BY <1>0, <2>1, <2>2 DEF TypeOK
    <2>4. Coherent'
      BY <1>0, <2>1, <2>2 DEF Coherent, Mirrors
    <2>5. Levels' /\ Growing' /\ RedeliveryStable'
      BY <1>0, <2>1, <2>2 DEF Levels, depth, Growing, Grows, InOrder, RedeliveryStable
    <2> QED BY <2>3, <2>4, <2>5 DEF IInv
  <1> QED
    BY <1>1, <1>2, <1>3
    DEF CacheStep, CreateLocalIntent, SaveLocalIntent, DeleteLocalIntent

(* Opening, closing and crashing. *)
LEMMA LifecycleStep ==
    ASSUME IInv,
           \/ \E c \in Consumers, t \in Cursors \cup {None} : Adopt(c, t)
           \/ \E c \in Consumers : Reopen(c)
           \/ DrainLegacy \/ Close \/ Crash
    PROVE  IInv'
  <1>0. /\ TypeOK /\ Coherent /\ Levels /\ Growing /\ RedeliveryStable
        /\ disk \in Database /\ conn \in Database
    BY DEF IInv, TypeOK
  <1>1. ASSUME NEW c \in Consumers, NEW t \in Cursors \cup {None}, Adopt(c, t) PROVE IInv'
    <2>1. /\ ~open /\ open' = TRUE /\ conn' = disk'
          /\ disk' = [disk EXCEPT !.consumer = c, !.cursor = t]
          /\ UNCHANGED <<saves, mirror, roomCache, intentCache, legacy, handed>>
          /\ mirror = {} /\ roomCache = {} /\ intentCache = {} /\ depth = 0
      BY <1>0, <1>1 DEF Adopt, caches, Levels
    <2>2. /\ disk' \in Database /\ disk'.acked = disk.acked
          /\ disk'.batches = disk.batches /\ disk'.last = disk.last
      BY <1>0, <2>1 DEF Database
    <2>3. TypeOK'
      BY <1>0, <2>1, <2>2 DEF TypeOK
    <2>4. Coherent' /\ Levels'
      BY <1>0, <2>1 DEF Coherent, Levels, depth
    <2>5. Growing'
      <3>1. Grows(disk', disk') /\ InOrder(disk')
        BY <1>0, <2>2 DEF Grows, InOrder, Growing, Database
      <3>2. 1..Len(saves') = {}
        BY <2>1 DEF depth
      <3>3. \A i \in 1..Len(saves') : Grows(disk', saves'[i]) /\ InOrder(saves'[i])
        BY <3>2, Zenon
      <3>4. InOrder(disk)' /\ Grows(disk, conn)' /\ InOrder(conn)'
        BY <2>1, <3>1 DEF Grows, InOrder
      <3> QED BY <3>3, <3>4 DEF Growing
    <2>6. RedeliveryStable'
      BY <1>0, <2>1, <2>2 DEF RedeliveryStable
    <2> QED BY <2>3, <2>4, <2>5, <2>6 DEF IInv
  <1>2. CASE (\E c \in Consumers : Reopen(c)) \/ DrainLegacy
    <2>1. UNCHANGED <<disk, conn, saves, mirror, roomCache, intentCache, handed>>
          /\ ~open /\ open' \in BOOLEAN /\ legacy' \in BOOLEAN
      BY <1>0, <1>2 DEF Reopen, DrainLegacy, caches, TypeOK
    <2>2. TypeOK' /\ Coherent'
      BY <1>0, <2>1 DEF TypeOK, Coherent, Mirrors
    <2>3. Levels' /\ Growing' /\ RedeliveryStable'
      BY <1>0, <2>1 DEF Levels, depth, Growing, Grows, InOrder, RedeliveryStable
    <2> QED BY <2>2, <2>3 DEF IInv
  <1>3. CASE Close \/ Crash
    <2>1. /\ mirror' = {} /\ roomCache' = {} /\ intentCache' = {} /\ open' = FALSE
          /\ UNCHANGED <<disk, legacy, handed>>
          /\ conn' = disk /\ saves' \in Seq(Database) /\ Len(saves') = 0
      <3>1. saves \in Seq(Database) /\ <<>> \in Seq(Database) /\ Len(<<>>) = 0
        BY <1>0, EmptySeq DEF TypeOK
      <3>2. CASE Close
        BY <1>0, <3>1, <3>2 DEF Close, Levels, depth
      <3>3. CASE Crash
        BY <3>1, <3>3 DEF Crash
      <3> QED BY <1>3, <3>2, <3>3
    <2>2. TypeOK' /\ Coherent'
      BY <1>0, <2>1 DEF TypeOK, Coherent
    <2>3. Levels' /\ RedeliveryStable'
      BY <1>0, <2>1 DEF Levels, depth, RedeliveryStable
    <2>4. Growing'
      <3>1. Grows(disk, disk) /\ InOrder(disk)
        BY <1>0 DEF Grows, Growing, Database
      <3>2. 1..Len(saves') = {}
        BY <2>1
      <3>3. \A i \in 1..Len(saves') : Grows(disk', saves'[i]) /\ InOrder(saves'[i])
        BY <3>2, Zenon
      <3>4. InOrder(disk)' /\ Grows(disk, conn)' /\ InOrder(conn)'
        BY <2>1, <3>1 DEF Grows, InOrder
      <3> QED BY <3>3, <3>4 DEF Growing
    <2> QED BY <2>2, <2>3, <2>4 DEF IInv
  <1> QED BY <1>1, <1>2, <1>3

-----------------------------------------------------------------------------
LEMMA InitInvariant == Init => IInv
  <1> SUFFICES ASSUME Init PROVE IInv
    OBVIOUS
  <1> USE DEF Init
  <1>1. Blank \in Database /\ DOMAIN Blank.batches = {} /\ Blank.acked = 0 /\ Blank.last = 0
    <2>1. [n \in {} |-> None] \in Queues
      BY QueueShape
    <2> QED BY <2>1, BoundAssumption DEF Blank, Database
  <1>2. TypeOK
    <2>1. saves \in Seq(Database)
      BY EmptySeq
    <2> QED BY <1>1, <2>1, Zenon DEF TypeOK
  <1>3. Coherent /\ Levels /\ RedeliveryStable
    BY <1>1 DEF Coherent, Levels, depth, RedeliveryStable
  <1>4. Growing
    BY <1>1 DEF Growing, Grows, InOrder
  <1> QED BY <1>2, <1>3, <1>4 DEF IInv

LEMMA NextInvariant == IInv /\ [Next]_vars => IInv'
  <1> SUFFICES ASSUME IInv, [Next]_vars PROVE IInv'
    OBVIOUS
  <1>1. CASE Next
    BY <1>1, TransactionStep, LoopWriteStep, ConsumerStep, CacheStepInvariant, LifecycleStep
    DEF Next, LoopStep
  <1>2. CASE UNCHANGED vars
    BY <1>2 DEF vars, IInv, TypeOK, Coherent, Mirrors, Levels, depth, Growing,
                Grows, InOrder, RedeliveryStable
  <1> QED BY <1>1, <1>2

(* The inductive invariant holds in every reachable state of the store. *)
THEOREM Invariance == Spec => []IInv
  BY InitInvariant, NextInvariant, PTL DEF Spec

(* Every row, cache and savepoint keeps its type. *)
THEOREM TypeCorrect == Spec => []TypeOK
  BY Invariance, PTL DEF IInv

(* The mirror, the room metadata cache and the intent cache always agree   *)
(* with what the connection reads.                                         *)
THEOREM CachesCoherent == Spec => []Coherent
  BY Invariance, PTL DEF IInv

(* No queued batch is as old as an acknowledged one. *)
THEOREM StreamInOrder == Spec => []StreamOrdered
  <1>1. IInv => StreamOrdered
    BY DEF IInv, Growing, StreamOrdered
  <1> QED BY <1>1, Invariance, PTL

(* A delivered batch is never replaced or dropped before its ack. *)
THEOREM DeliveryStable == Spec => []RedeliveryStable
  BY Invariance, PTL DEF IInv

-----------------------------------------------------------------------------
(* A step that leaves the disk and the history alone is invisible. *)
LEMMA Invisible ==
    ASSUME UNCHANGED <<disk, handed>>
    PROVE  UNCHANGED Stream!vars
  BY DEF Stream!vars, Rows

(* The outermost commit is one Transact step: nothing acknowledged, every  *)
(* queued batch kept, new batches under new numbers.                       *)
LEMMA CommitRefines ==
    ASSUME IInv, Commit
    PROVE  [Stream!Next]_Stream!vars
  <1>1. CASE depth = 1
    <2>1. disk' = conn /\ handed' = handed /\ Grows(disk, conn)
      BY <1>1 DEF Commit, IInv, Growing
    <2>2. Stream!Transact
      BY <2>1 DEF Stream!Transact, Grows
    <2> QED BY <2>2 DEF Stream!Next
  <1>2. CASE depth # 1
    BY <1>2, Invisible DEF Commit
  <1> QED BY <1>1, <1>2

LEMMA AdoptRefines ==
    ASSUME IInv, NEW c \in Consumers, NEW t \in Cursors \cup {None}, Adopt(c, t)
    PROVE  [Stream!Next]_Stream!vars
  <1>1. disk \in Database
    BY DEF IInv, TypeOK
  <1>2. /\ disk'.acked = disk.acked /\ disk'.batches = disk.batches
        /\ disk'.last = disk.last /\ handed' = handed /\ disk.last \in Nat
    BY <1>1, BoundAssumption DEF Adopt, Database
  <1>3. Stream!Transact
    BY <1>2 DEF Stream!Transact
  <1> QED BY <1>3 DEF Stream!Next

LEMMA DeliverRefines ==
    ASSUME IInv, NextBatch
    PROVE  [Stream!Next]_Stream!vars
  <1>1. conn = disk /\ UNCHANGED disk
    BY DEF IInv, Levels, NextBatch
  <1>2. PICK n \in DOMAIN disk.batches :
            /\ \A m \in DOMAIN disk.batches : n <= m
            /\ handed' = handed \cup {<<n, disk.batches[n]>>}
    BY <1>1 DEF NextBatch
  <1>3. Stream!Deliver
    BY <1>1, <1>2 DEF Stream!Deliver, Stream!Oldest, Rows
  <1> QED BY <1>3 DEF Stream!Next

LEMMA AckRefines ==
    ASSUME IInv, NEW n \in 1..MaxSequence, Ack(n)
    PROVE  [Stream!Next]_Stream!vars
  <1>1. conn = disk /\ disk' = conn' /\ handed' = handed /\ disk \in Database
    BY DEF IInv, Levels, Ack, TypeOK
  <1>2. PICK st \in State :
            /\ st.pending # <<>> /\ n = Head(st.pending)
            /\ conn' = [conn EXCEPT !.batches = Without(@, n), !.acked = n]
    BY DEF Ack
  <1>3. /\ st.pending \in Seq(1..MaxSequence)
        /\ Ordered(st.pending, DOMAIN disk.batches)
    BY <1>1, StateAgrees DEF IInv, LoopState, Mirrors
  <1>4. n \in DOMAIN disk.batches /\ \A m \in DOMAIN disk.batches : n <= m
    BY <1>2, <1>3, OrderedTail
  <1>5. /\ disk'.batches = Without(disk.batches, n) /\ disk'.acked = n
        /\ disk'.last = disk.last /\ Rows(disk)' = Rows(disk)
    BY <1>1, <1>2 DEF Database, Rows
  <1>6. Stream!Acknowledge
    BY <1>1, <1>4, <1>5 DEF Stream!Acknowledge, Stream!Oldest, Without
  <1> QED BY <1>6 DEF Stream!Next

LEMMA StepRefines == IInv /\ [Next]_vars => [Stream!Next]_Stream!vars
  <1> SUFFICES ASSUME IInv, [Next]_vars PROVE [Stream!Next]_Stream!vars
    OBVIOUS
  <1>1. CASE UNCHANGED vars \/ Begin \/ Rollback \/ CacheStep \/ LoadState
             \/ DrainLegacy \/ Close \/ Crash
             \/ (\E n \in 1..MaxSequence : AckFails(n))
             \/ (\E c \in Consumers : Reopen(c))
    <2>1. UNCHANGED <<disk, handed>>
      BY <1>1 DEF vars, Begin, Rollback, CacheStep, LoadState, DrainLegacy, Close, Crash,
                  AckFails, Reopen, LoadRoomMetadata, SaveRoomMetadata, ReadLocalIntent,
                  CreateLocalIntent, SaveLocalIntent, DeleteLocalIntent, WriteIntent
    <2> QED BY <2>1, Invisible
  <1>2. CASE \/ \E c \in Cursors : SetCursor(c)
             \/ Capture
             \/ \E k \in Continuations : SaveContinuation(k)
             \/ FinishInput
             \/ \E b \in Bodies : Publish(b)
    <2>1. UNCHANGED <<disk, handed>>
      BY <1>2 DEF SetCursor, Capture, SaveContinuation, FinishInput, Publish, UpdateLoop
    <2> QED BY <2>1, Invisible
  <1> QED
    BY <1>1, <1>2, CommitRefines, AdoptRefines, DeliverRefines, AckRefines DEF Next, LoopStep

(* The store implements BatchStream: to the session and the consumer it is *)
(* a queue that changes in whole transactions and loses only what was      *)
(* acknowledged, whatever rolls back or crashes underneath.                *)
THEOREM Refinement == Spec => ImplementsStream
  <1>1. Init => Stream!Init
    BY DEF Init, Stream!Init, Blank
  <1>2. IInv /\ [Next]_vars => [Stream!Next]_Stream!vars
    BY StepRefines
  <1> QED BY <1>1, <1>2, Invariance, PTL DEF Spec, ImplementsStream, Stream!Spec

-----------------------------------------------------------------------------
(* The newest queued number is a bound of the queue that it reaches. *)
LEMMA NewestShape ==
    ASSUME NEW db \in Database
    PROVE  /\ Newest(db) \in Nat
           /\ DOMAIN db.batches = {} => Newest(db) = 0
           /\ DOMAIN db.batches # {} => Newest(db) \in DOMAIN db.batches
           /\ \A n \in DOMAIN db.batches : n \in Nat /\ n <= Newest(db)
  <1>1. DOMAIN db.batches \in SUBSET (1..MaxSequence)
    BY QueueShape DEF Database
  <1>2. CASE DOMAIN db.batches = {}
    BY <1>2 DEF Newest
  <1>3. CASE DOMAIN db.batches # {}
    <2>1. \E n \in DOMAIN db.batches : \A m \in DOMAIN db.batches : m <= n
      <3>1. /\ DOMAIN db.batches \in SUBSET Nat /\ MaxSequence \in Nat
            /\ \A m \in DOMAIN db.batches : m <= MaxSequence
        BY <1>1, BoundAssumption
      <3> QED BY <1>3, <3>1, LargestNatural
    <2>2. Newest(db) \in DOMAIN db.batches /\ \A m \in DOMAIN db.batches : m <= Newest(db)
      <3>1. Newest(db) = CHOOSE n \in DOMAIN db.batches : \A m \in DOMAIN db.batches : m <= n
        BY <1>3 DEF Newest
      <3> QED BY <2>1, <3>1, Zenon
    <2> QED BY <1>1, <1>3, <2>2, BoundAssumption
  <1> QED BY <1>2, <1>3

(* Publishing raises the newest number, if anything. *)
LEMMA CommitProgress ==
    ASSUME NEW a \in Database, NEW b \in Database, Grows(a, b)
    PROVE  ProgressGeneration(b) >= ProgressGeneration(a)
  <1>1. Newest(a) <= Newest(b)
    BY NewestShape DEF Grows
  <1>2. a.acked \in Nat /\ b.acked = a.acked
    BY BoundAssumption DEF Database, Grows
  <1> QED BY <1>1, <1>2, NewestShape DEF ProgressGeneration

(* An ack raises the acknowledged number to one that was queued above it,  *)
(* and takes away the newest number only when it was that one.             *)
LEMMA AckProgress ==
    ASSUME NEW a \in Database, NEW b \in Database, InOrder(a), NEW n \in DOMAIN a.batches,
           b.acked = n, DOMAIN b.batches = DOMAIN a.batches \ {n}
    PROVE  ProgressGeneration(b) >= ProgressGeneration(a)
  <1>1. a.acked \in Nat /\ n \in Nat /\ a.acked < n
    BY NewestShape, BoundAssumption DEF Database, InOrder
  <1>2. /\ Newest(a) \in DOMAIN a.batches /\ Newest(a) \in Nat /\ n <= Newest(a)
        /\ Newest(b) \in Nat
    BY NewestShape
  <1>3. Newest(a) = n \/ Newest(a) <= Newest(b)
    BY <1>2, NewestShape
  <1>4. ProgressGeneration(a) = a.acked + Newest(a)
    BY <1>1, <1>2 DEF ProgressGeneration
  <1>5. ProgressGeneration(b) >= n + n /\ ProgressGeneration(b) >= n + Newest(b)
    BY <1>1, <1>2 DEF ProgressGeneration
  <1>6. ProgressGeneration(b) \in Nat
    BY <1>1, <1>2 DEF ProgressGeneration
  <1> QED BY <1>1, <1>2, <1>3, <1>4, <1>5, <1>6

LEMMA StepProgress ==
    ASSUME IInv, IInv', [Next]_vars
    PROVE  ProgressGeneration(disk') >= ProgressGeneration(disk)
  <1>1. disk \in Database /\ disk' \in Database /\ conn \in Database
    BY DEF IInv, TypeOK
  <1>2. Grows(disk, disk)
    BY <1>1, BoundAssumption DEF Grows, Database
  <1>3. CASE UNCHANGED disk
    BY <1>1, <1>2, <1>3, CommitProgress
  <1>4. CASE Commit
    <2>1. disk' = disk \/ (disk' = conn /\ Grows(disk, conn))
      BY <1>4 DEF Commit, IInv, Growing
    <2> QED BY <1>1, <1>2, <2>1, CommitProgress
  <1>5. ASSUME NEW c \in Consumers, NEW t \in Cursors \cup {None}, Adopt(c, t)
        PROVE  ProgressGeneration(disk') >= ProgressGeneration(disk)
    <2>1. disk'.acked = disk.acked /\ disk'.batches = disk.batches /\ disk'.last = disk.last
      BY <1>1, <1>5 DEF Adopt, Database
    <2> QED BY <1>1, <1>2, <2>1, CommitProgress DEF Grows
  <1>6. ASSUME NEW n \in 1..MaxSequence, Ack(n)
        PROVE  ProgressGeneration(disk') >= ProgressGeneration(disk)
    <2>1. conn = disk /\ disk' = conn'
      BY <1>6 DEF IInv, Levels, Ack
    <2>2. PICK st \in State :
              /\ st.pending # <<>> /\ n = Head(st.pending)
              /\ conn' = [conn EXCEPT !.batches = Without(@, n), !.acked = n]
      BY <1>6 DEF Ack
    <2>3. n \in DOMAIN disk.batches
      BY <2>1, <2>2, StateAgrees, OrderedTail DEF IInv, LoopState, Mirrors
    <2>4. disk'.acked = n /\ DOMAIN disk'.batches = DOMAIN disk.batches \ {n}
      BY <1>1, <2>1, <2>2 DEF Database, Without
    <2>5. InOrder(disk)
      BY DEF IInv, Growing
    <2> QED BY <1>1, <2>3, <2>4, <2>5, AckProgress
  <1>7. CASE UNCHANGED vars \/ Begin \/ Rollback \/ CacheStep \/ LoadState \/ NextBatch
             \/ DrainLegacy \/ Close \/ Crash
             \/ (\E n \in 1..MaxSequence : AckFails(n))
             \/ (\E c \in Consumers : Reopen(c))
    <2>1. UNCHANGED disk
      BY <1>7 DEF vars, Begin, Rollback, CacheStep, LoadState, NextBatch, DrainLegacy, Close,
                  Crash, AckFails, Reopen, LoadRoomMetadata, SaveRoomMetadata, ReadLocalIntent,
                  CreateLocalIntent, SaveLocalIntent, DeleteLocalIntent, WriteIntent
    <2> QED BY <2>1, <1>3
  <1>8. CASE \/ \E c \in Cursors : SetCursor(c)
             \/ Capture
             \/ \E k \in Continuations : SaveContinuation(k)
             \/ FinishInput
             \/ \E b \in Bodies : Publish(b)
    <2>1. UNCHANGED disk
      BY <1>8 DEF SetCursor, Capture, SaveContinuation, FinishInput, Publish, UpdateLoop
    <2> QED BY <2>1, <1>3
  <1> QED BY <1>4, <1>5, <1>6, <1>7, <1>8 DEF Next, LoopStep

(* progress_generation, which waiters compare across awaits and restarts,  *)
(* never goes back, whatever is published, acknowledged or rolled back.    *)
THEOREM ProgressGrows == Spec => ProgressMonotone
  <1>1. IInv /\ IInv' /\ [Next]_vars
        => [ProgressGeneration(disk') >= ProgressGeneration(disk)]_vars
    BY StepProgress
  <1> QED BY <1>1, InitInvariant, NextInvariant, PTL DEF Spec, ProgressMonotone

=============================================================================
