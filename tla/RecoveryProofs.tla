--------------------------- MODULE RecoveryProofs ---------------------------
(***************************************************************************)
(* Proofs about module Recovery: no gap in the stream is silent, whatever  *)
(* the server, the page bounds and crashes do; events keep the order of    *)
(* the server's log; losses have a reason and fence what follows.          *)
(***************************************************************************)
EXTENDS Recovery, SequenceTheorems, Orders

-----------------------------------------------------------------------------
(* Streams that grow *)
Joins(u, s, t) ==
    /\ s \in Seq(Record) /\ t \in Seq(Record) /\ u \in Seq(Record)
    /\ Len(s) \in Nat /\ Len(t) \in Nat /\ Len(u) = Len(s) + Len(t)
    /\ \A i \in 1..Len(s) : u[i] = s[i]
    /\ \A k \in 1..Len(t) : u[Len(s) + k] = t[k]
    /\ \A i \in 1..Len(u) : i \in 1..Len(s) \/ \E k \in 1..Len(t) : i = Len(s) + k

LEMMA Joined ==
    ASSUME NEW s \in Seq(Record), NEW t \in Seq(Record)
    PROVE  Joins(s \o t, s, t)
  <1>1. PICK u : u = s \o t
    OBVIOUS
  <1>2. PICK n \in Nat : n = Len(s)
    OBVIOUS
  <1>3. PICK m \in Nat : m = Len(t)
    OBVIOUS
  <1>4. /\ u \in Seq(Record) /\ Len(u) = n + m
        /\ \A i \in 1..(n + m) : u[i] = IF i <= n THEN s[i] ELSE t[i - n]
    BY <1>1, <1>2, <1>3, ConcatProperties
  <1>5. ASSUME NEW i \in 1..n PROVE u[i] = s[i]
    <2>1. i \in 1..(n + m) /\ i <= n
      OBVIOUS
    <2> QED BY <1>4, <2>1
  <1>6. ASSUME NEW k \in 1..m PROVE u[n + k] = t[k]
    <2>1. n + k \in 1..(n + m) /\ ~(n + k <= n) /\ (n + k) - n = k
      OBVIOUS
    <2> QED BY <1>4, <2>1
  <1>7. ASSUME NEW i \in 1..(n + m) PROVE i \in 1..n \/ \E k \in 1..m : i = n + k
    <2>1. CASE i <= n
      BY <2>1
    <2>2. CASE ~(i <= n)
      <3>1. i - n \in 1..m /\ i = n + (i - n)
        BY <2>2
      <3> QED BY <3>1
    <2> QED BY <2>1, <2>2
  <1>8. Joins(u, s, t)
    BY <1>2, <1>3, <1>4, <1>5, <1>6, <1>7 DEF Joins
  <1> QED BY <1>1, <1>8

(* Chronological, of any stream *)
Increasing(s) ==
    \A i, j \in 1..Len(s) :
        /\ i < j /\ s[i].room = s[j].room
        /\ s[i].kind = "event" /\ s[j].kind = "event"
        => s[i].upto < s[j].upto

(* The events of t come after those of s. *)
Ahead(t, s) ==
    \A i \in 1..Len(s), k \in 1..Len(t) :
        /\ s[i].room = t[k].room /\ s[i].kind = "event" /\ t[k].kind = "event"
        => s[i].upto < t[k].upto

LEMMA JoinIncreasing ==
    ASSUME NEW s, NEW t, NEW u, Joins(u, s, t), Increasing(s), Increasing(t), Ahead(t, s)
    PROVE  Increasing(u)
  <1> SUFFICES ASSUME NEW i \in 1..Len(u), NEW j \in 1..Len(u), i < j, u[i].room = u[j].room,
                      u[i].kind = "event", u[j].kind = "event"
               PROVE  u[i].upto < u[j].upto
    BY DEF Increasing
  <1>1. Len(s) \in Nat /\ Len(t) \in Nat
    BY DEF Joins
  <1>2. CASE j \in 1..Len(s)
    <2>1. i \in 1..Len(s) /\ u[i] = s[i] /\ u[j] = s[j]
      BY <1>1, <1>2 DEF Joins
    <2> QED BY <1>2, <2>1 DEF Increasing
  <1>3. CASE j \notin 1..Len(s)
    <2>1. PICK k \in 1..Len(t) : j = Len(s) + k /\ u[j] = t[k]
      BY <1>3 DEF Joins
    <2>2. CASE i \in 1..Len(s)
      <3>1. u[i] = s[i]
        BY <2>2 DEF Joins
      <3> QED BY <2>1, <2>2, <3>1 DEF Ahead
    <2>3. CASE i \notin 1..Len(s)
      <3>1. PICK h \in 1..Len(t) : i = Len(s) + h /\ u[i] = t[h]
        BY <2>3 DEF Joins
      <3>2. h < k
        BY <1>1, <2>1, <3>1
      <3> QED BY <2>1, <3>1, <3>2 DEF Increasing
    <2> QED BY <2>2, <2>3
  <1> QED BY <1>2, <1>3

(* Every event of r in s is at most at n. *)
Bounded(s, r, n) ==
    \A i \in 1..Len(s) : s[i].kind = "event" /\ s[i].room = r => s[i].upto <= n

LEMMA JoinBounded ==
    ASSUME NEW s, NEW t, NEW u, Joins(u, s, t), NEW r, NEW n, Bounded(s, r, n), Bounded(t, r, n)
    PROVE  Bounded(u, r, n)
  <1> SUFFICES ASSUME NEW i \in 1..Len(u), u[i].kind = "event", u[i].room = r
               PROVE  u[i].upto <= n
    BY DEF Bounded
  <1>1. CASE i \in 1..Len(s)
    <2>1. u[i] = s[i]
      BY <1>1 DEF Joins
    <2> QED BY <1>1, <2>1 DEF Bounded
  <1>2. CASE i \notin 1..Len(s)
    <2>1. PICK k \in 1..Len(t) : u[i] = t[k]
      BY <1>2 DEF Joins
    <2> QED BY <2>1 DEF Bounded
  <1> QED BY <1>1, <1>2

(* Fenced, of any stream *)
LiveLike == {"live", "recovered"}
Guarded(s) ==
    \A i, j \in 1..Len(s) :
        /\ i < j /\ s[i].kind = "loss" /\ s[j].kind = "event"
        /\ s[i].room = s[j].room
        /\ s[j].provenance \in LiveLike
        => \E k \in (i + 1)..(j - 1) : s[k].kind = "complete_full"

(* A loss of r that no completed full state follows *)
Open(s, r) ==
    \E i \in 1..Len(s) :
        /\ s[i].kind = "loss" /\ s[i].room = r
        /\ \A k \in (i + 1)..Len(s) : s[k].kind # "complete_full"

(* t presents nothing as live or recovered whose room has an open loss *)
Careful(t, s) ==
    \A k \in 1..Len(t) :
        t[k].kind = "event" /\ t[k].provenance \in LiveLike =>
            /\ ~Open(s, t[k].room)
            /\ \A h \in 1..Len(t) : h < k => ~(t[h].kind = "loss" /\ t[h].room = t[k].room)

LEMMA JoinGuarded ==
    ASSUME NEW s, NEW t, NEW u, Joins(u, s, t), Guarded(s), Careful(t, s)
    PROVE  Guarded(u)
  <1> SUFFICES ASSUME NEW i \in 1..Len(u), NEW j \in 1..Len(u), i < j,
                      u[i].kind = "loss", u[j].kind = "event", u[i].room = u[j].room,
                      u[j].provenance \in LiveLike
               PROVE  \E k \in (i + 1)..(j - 1) : u[k].kind = "complete_full"
    BY DEF Guarded
  <1>1. Len(s) \in Nat /\ Len(t) \in Nat
    BY DEF Joins
  <1>2. CASE j \in 1..Len(s)
    <2>1. i \in 1..Len(s) /\ u[i] = s[i] /\ u[j] = s[j]
      BY <1>1, <1>2 DEF Joins
    <2>2. PICK k \in (i + 1)..(j - 1) : s[k].kind = "complete_full"
      BY <1>2, <2>1 DEF Guarded
    <2>3. k \in 1..Len(s)
      BY <1>1, <1>2, <2>1
    <2>4. u[k] = s[k]
      BY <2>3 DEF Joins
    <2> QED BY <2>2, <2>4
  <1>3. CASE j \notin 1..Len(s)
    <2>1. PICK k \in 1..Len(t) : j = Len(s) + k /\ u[j] = t[k]
      BY <1>3 DEF Joins
    <2>2. /\ ~Open(s, u[j].room)
          /\ \A h \in 1..Len(t) : h < k => ~(t[h].kind = "loss" /\ t[h].room = u[j].room)
      BY <2>1 DEF Careful
    <2>3. i \in 1..Len(s)
      <3> SUFFICES ASSUME i \notin 1..Len(s) PROVE FALSE
        OBVIOUS
      <3>1. PICK h \in 1..Len(t) : i = Len(s) + h /\ u[i] = t[h]
        BY DEF Joins
      <3>2. h < k
        BY <1>1, <2>1, <3>1
      <3> QED BY <2>2, <3>1, <3>2
    <2>4. u[i] = s[i]
      BY <2>3 DEF Joins
    <2>5. PICK l \in (i + 1)..Len(s) : s[l].kind = "complete_full"
      BY <2>2, <2>3, <2>4 DEF Open
    <2>6. l \in 1..Len(s) /\ l \in (i + 1)..(j - 1)
      BY <1>1, <2>1, <2>3
    <2>7. u[l] = s[l]
      BY <2>6 DEF Joins
    <2> QED BY <2>5, <2>6, <2>7
  <1> QED BY <1>2, <1>3

(* An open loss is an old one or a new one. *)
LEMMA JoinOpen ==
    ASSUME NEW s, NEW t, NEW u, Joins(u, s, t), NEW r, Open(u, r)
    PROVE  Open(s, r) \/ \E k \in 1..Len(t) : t[k].kind = "loss" /\ t[k].room = r
  <1>1. Len(s) \in Nat /\ Len(t) \in Nat /\ Len(u) = Len(s) + Len(t)
    BY DEF Joins
  <1>2. PICK i \in 1..Len(u) : /\ u[i].kind = "loss" /\ u[i].room = r
                               /\ \A k \in (i + 1)..Len(u) : u[k].kind # "complete_full"
    BY DEF Open
  <1>3. CASE i \in 1..Len(s)
    <2>1. u[i] = s[i]
      BY <1>3 DEF Joins
    <2>2. ASSUME NEW k \in (i + 1)..Len(s) PROVE s[k].kind # "complete_full"
      <3>1. k \in 1..Len(s) /\ k \in (i + 1)..Len(u)
        BY <1>1, <1>3
      <3>2. u[k] = s[k]
        BY <3>1 DEF Joins
      <3> QED BY <1>2, <3>1, <3>2
    <2> QED BY <1>2, <1>3, <2>1, <2>2 DEF Open
  <1>4. CASE i \notin 1..Len(s)
    <2>1. PICK k \in 1..Len(t) : u[i] = t[k]
      BY <1>4 DEF Joins
    <2> QED BY <1>2, <2>1
  <1> QED BY <1>3, <1>4

(* The consumer has p, or a loss that covers it. *)
Has(s, lg, p) ==
    \E i \in 1..Len(s) :
        \/ s[i].kind = "event" /\ s[i].upto = p
        \/ /\ s[i].kind = "loss" /\ s[i].room = lg[p]
           /\ s[i].from < p /\ p <= s[i].upto

LEMMA JoinHas ==
    ASSUME NEW s, NEW t, NEW u, Joins(u, s, t), NEW lg, NEW p, Has(s, lg, p) \/ Has(t, lg, p)
    PROVE  Has(u, lg, p)
  <1>1. Len(s) \in Nat /\ Len(t) \in Nat /\ Len(u) = Len(s) + Len(t)
    BY DEF Joins
  <1>2. CASE Has(s, lg, p)
    <2>1. PICK i \in 1..Len(s) :
            \/ s[i].kind = "event" /\ s[i].upto = p
            \/ s[i].kind = "loss" /\ s[i].room = lg[p] /\ s[i].from < p /\ p <= s[i].upto
      BY <1>2 DEF Has
    <2>2. u[i] = s[i] /\ i \in 1..Len(u)
      BY <1>1 DEF Joins
    <2> QED BY <2>1, <2>2 DEF Has
  <1>3. CASE Has(t, lg, p)
    <2>1. PICK i \in 1..Len(t) :
            \/ t[i].kind = "event" /\ t[i].upto = p
            \/ t[i].kind = "loss" /\ t[i].room = lg[p] /\ t[i].from < p /\ p <= t[i].upto
      BY <1>3 DEF Has
    <2>2. u[Len(s) + i] = t[i] /\ Len(s) + i \in 1..Len(u)
      BY <1>1 DEF Joins
    <2> QED BY <2>1, <2>2 DEF Has
  <1> QED BY <1>2, <1>3

-----------------------------------------------------------------------------
(* Records in order *)
LEMMA InOrderIs ==
    ASSUME NEW S \in SUBSET Nat, IsFiniteSet(S)
    PROVE  /\ InOrder(S) \in [1..Cardinality(S) -> S] /\ Cardinality(S) \in Nat
           /\ \A i, j \in 1..Cardinality(S) : i < j => InOrder(S)[i] < InOrder(S)[j]
           /\ \A x \in S : \E i \in 1..Cardinality(S) : InOrder(S)[i] = x
  <1>1. PICK n \in Nat : n = Cardinality(S)
    BY FS_CardinalityType
  <1>2. PICK q \in [1..n -> S] : \A i, j \in 1..n : i < j => q[i] < q[j]
    BY <1>1, IncreasingExists
  <1>3. \A i, j \in DOMAIN q : i < j => q[i] < q[j]
    BY <1>2
  <1>4. PICK o : o = InOrder(S)
    OBVIOUS
  <1>5. o \in [1..n -> S] /\ \A i, j \in DOMAIN o : i < j => o[i] < o[j]
    BY <1>1, <1>3, <1>4 DEF InOrder
  <1>6. \A i, j \in 1..n : i < j => o[i] < o[j]
    BY <1>5
  <1>7. Covers(o, S)
    BY <1>1, <1>5, <1>6, IncreasingCovers
  <1> QED BY <1>1, <1>4, <1>5, <1>6, <1>7 DEF Covers

LEMMA RoomsAre ==
    /\ \A i \in 1..Len(RoomOrder) : RoomOrder[i] \in Rooms
    /\ \A r \in Rooms : \E i \in 1..Len(RoomOrder) : RoomOrder[i] = r
    /\ Len(RoomOrder) \in Nat
  BY RecoveryAssumption DEF Rooms

LEMMA ResponseOrderIs ==
    ASSUME NEW rooms \in SUBSET Rooms
    PROVE  /\ ResponseOrder(rooms) \in Seq(rooms)
           /\ Len(ResponseOrder(rooms)) \in 0..Len(RoomOrder)
           /\ \A r \in rooms : \E k \in 1..Len(ResponseOrder(rooms)) : ResponseOrder(rooms)[k] = r
           /\ \A h, k \in 1..Len(ResponseOrder(rooms)) :
                  ResponseOrder(rooms)[h] = ResponseOrder(rooms)[k] => h = k
  <1>1. PICK P : P = {i \in 1..Len(RoomOrder) : RoomOrder[i] \in rooms}
    OBVIOUS
  <1>2. PICK l \in Nat : l = Len(RoomOrder)
    BY RoomsAre
  <1>3. P \in SUBSET Nat /\ P \in SUBSET (1..l) /\ 1 \in Int /\ l \in Int
    BY <1>1, <1>2
  <1>4. IsFiniteSet(1..l) /\ Cardinality(1..l) = l
    <2>1. IsFiniteSet(1..l) /\ Cardinality(1..l) = IF 1 > l THEN 0 ELSE l - 1 + 1
      BY <1>3, FS_Interval
    <2> QED BY <1>2, <2>1
  <1>5. IsFiniteSet(P) /\ Cardinality(P) <= l
    BY <1>3, <1>4, FS_Subset
  <1>6. PICK n \in Nat : n = Cardinality(P)
    BY <1>5, FS_CardinalityType
  <1>7. PICK q \in [1..n -> P] : /\ q = InOrder(P)
                                 /\ \A i, j \in 1..n : i < j => q[i] < q[j]
                                 /\ \A x \in P : \E i \in 1..n : q[i] = x
    BY <1>3, <1>5, <1>6, InOrderIs
  <1>8. PICK t : t = ResponseOrder(rooms)
    OBVIOUS
  <1>9. t = [k \in 1..n |-> RoomOrder[q[k]]]
    BY <1>1, <1>6, <1>7, <1>8 DEF ResponseOrder
  <1>10. \A k \in 1..n : q[k] \in 1..l /\ RoomOrder[q[k]] \in rooms
    BY <1>1, <1>2, <1>7
  <1>11. t \in [1..n -> rooms]
    BY <1>9, <1>10
  <1>12. t \in Seq(rooms) /\ Len(t) = n
    BY <1>11
  <1>13. ASSUME NEW r \in rooms PROVE \E k \in 1..n : t[k] = r
    <2>1. PICK i \in 1..l : RoomOrder[i] = r
      BY <1>2, RoomsAre
    <2>2. i \in P
      BY <1>1, <1>2, <2>1
    <2>3. PICK k \in 1..n : q[k] = i
      BY <1>7, <2>2
    <2> QED BY <1>9, <2>1, <2>3
  <1>14. ASSUME NEW h \in 1..n, NEW k \in 1..n, t[h] = t[k] PROVE h = k
    <2>1. RoomOrder[q[h]] = RoomOrder[q[k]]
      BY <1>9, <1>14
    <2>2. q[h] = q[k] /\ q[h] \in Nat
      BY <1>2, <1>10, <2>1, RecoveryAssumption
    <2>3. ~(h < k) /\ ~(k < h)
      BY <1>7, <2>2
    <2> QED BY <2>3
  <1>15. n \in 0..l
    BY <1>5, <1>6
  <1> QED BY <1>2, <1>8, <1>12, <1>13, <1>14, <1>15

(* t carries the events S of r, oldest first. *)
Carries(t, r, S, provenance) ==
    /\ \A k \in 1..Len(t) : /\ t[k].kind = "event" /\ t[k].room = r /\ t[k].upto \in S
                            /\ t[k].provenance = provenance
    /\ \A p \in S : \E k \in 1..Len(t) : t[k].kind = "event" /\ t[k].upto = p
    /\ Increasing(t)

LEMMA EventRecordsAre ==
    ASSUME NEW r \in Rooms \cup {Device}, NEW S \in SUBSET (1..MaxLog), NEW v \in Provenances
    PROVE  /\ EventRecords(r, S, v) \in Seq(Record)
           /\ Carries(EventRecords(r, S, v), r, S, v)
  <1>1. MaxLog \in Nat /\ MaxLog \in Int /\ 1 \in Int
    BY RecoveryAssumption
  <1>2. IsFiniteSet(1..MaxLog)
    BY <1>1, FS_Interval
  <1>3. IsFiniteSet(S) /\ S \in SUBSET Nat
    <2>1. IsFiniteSet(S)
      BY <1>2, FS_Subset
    <2> QED BY <1>1, <2>1
  <1>4. PICK n \in Nat : n = Cardinality(S)
    BY <1>3, FS_CardinalityType
  <1>5. PICK q \in [1..n -> S] : /\ q = InOrder(S)
                                 /\ \A i, j \in 1..n : i < j => q[i] < q[j]
                                 /\ \A x \in S : \E i \in 1..n : q[i] = x
    BY <1>3, <1>4, InOrderIs
  <1>6. PICK t : t = EventRecords(r, S, v)
    OBVIOUS
  <1>7. t = [i \in 1..n |-> EventRecord(r, q[i], v)]
    BY <1>4, <1>5, <1>6 DEF EventRecords
  <1>8. ASSUME NEW i \in 1..n PROVE EventRecord(r, q[i], v) \in Record
    <2>1. q[i] \in Positions /\ q[i] - 1 \in Positions
      <3>1. PICK x : x = q[i]
        OBVIOUS
      <3>2. x \in 1..MaxLog
        BY <3>1
      <3>3. x \in 0..MaxLog /\ x - 1 \in 0..MaxLog
        BY <1>1, <3>2
      <3> QED BY <3>1, <3>3 DEF Positions
    <2> QED BY <2>1 DEF EventRecord, Record
  <1>9. t \in [1..n -> Record]
    BY <1>7, <1>8
  <1>10. t \in Seq(Record) /\ Len(t) = n
    BY <1>9
  <1>11. \A k \in 1..n : /\ t[k].kind = "event" /\ t[k].room = r /\ t[k].upto = q[k]
                         /\ t[k].provenance = v
    BY <1>7 DEF EventRecord
  <1>12. Increasing(t)
    BY <1>5, <1>10, <1>11 DEF Increasing
  <1>13. Carries(t, r, S, v)
    <2>1. \A p \in S : \E k \in 1..n : t[k].kind = "event" /\ t[k].upto = p
      BY <1>5, <1>11
    <2>2. \A k \in 1..n : t[k].upto \in S
      BY <1>5, <1>11
    <2> QED BY <1>10, <1>11, <1>12, <2>1, <2>2 DEF Carries
  <1> QED BY <1>6, <1>10, <1>13

-----------------------------------------------------------------------------
(* The inductive invariant, first part: the shape of the state *)
Requests == [since : Positions \cup {None}, full : BOOLEAN]

(* What is awaited: a poll continues the cursor; a page, a walk of a room  *)
(* that has a boundary and pages left.                                     *)
RequestOK ==
    /\ pc = "poll" => input = None /\ request \in Requests /\ request.since = cursor
    /\ pc = "page" => /\ input # None /\ input.phase = "recover" /\ input.pages < MaxPages
                      /\ Room \notin input.unknown /\ ~input.noBoundary

CursorOK ==
    /\ Base(cursor) <= Len(log)
    /\ start = None <=> cursor = None
    /\ start # None => start <= cursor

(* The retained response and how far it is interpreted *)
ResponseOK ==
    input # None =>
        /\ Base(input.since) <= input.upto /\ input.upto <= Len(log)
        /\ input.phase # "prepared" => cursor = input.since
        /\ input.phase = "prepared" => cursor = input.upto
        /\ input.phase = "new" => ~input.prologue /\ input.applied = [r \in Rooms |-> {}]
        /\ input.phase \in {"recover", "tail"} =>
              input.since # None /\ input.prologue /\ input.unknown \subseteq input.history
        /\ input.phase = "recover" =>
              /\ input.index \in 1..Len(Candidates)
              /\ Base(input.since) <= input.from /\ input.from <= Len(log)
              /\ \A x \in input.seen : x <= input.from
        /\ input.phase = "tail" => input.index = Len(Candidates) + 1

Shape == TypeOK /\ RequestOK /\ CursorOK /\ ResponseOK

Given == TypeOK /\ ResponseOK /\ input # None

LEMMA GivenFacts ==
    ASSUME Given
    PROVE  /\ input \in Retained /\ Base(input.since) \in Nat /\ input.upto \in Nat
           /\ Base(input.since) <= input.upto /\ input.upto <= Len(log)
           /\ Len(log) \in Nat /\ Len(log) <= MaxLog /\ MaxLog \in Nat
           /\ Base(input.since) \in Positions
           /\ \A i \in 1..Len(log) : log[i] \in Rooms \cup {Device}
  <1>1. input \in Retained /\ log \in Seq(Rooms \cup {Device}) /\ Len(log) <= MaxLog
    BY DEF Given, TypeOK
  <1>2. input.since \in Positions \cup {None} /\ input.upto \in Positions
    BY <1>1 DEF Retained
  <1>3. Base(input.since) \in Positions /\ MaxLog \in Nat
    BY <1>2, RecoveryAssumption DEF Base, Positions
  <1>4. Base(input.since) <= input.upto /\ input.upto <= Len(log)
    BY DEF Given, ResponseOK
  <1> QED BY <1>1, <1>2, <1>3, <1>4 DEF Positions

LEMMA EventsAre ==
    ASSUME NEW r, NEW a \in Nat, NEW b \in Nat, b <= MaxLog
    PROVE  /\ Events(r, a, b) \in SUBSET (1..MaxLog) /\ Events(r, a, b) \in SUBSET Nat
           /\ IsFiniteSet(Events(r, a, b))
           /\ \A p : p \in Events(r, a, b) <=> p \in Nat /\ a < p /\ p <= b /\ log[p] = r
  <1>1. MaxLog \in Nat /\ MaxLog \in Int /\ 1 \in Int
    BY RecoveryAssumption
  <1>2. IsFiniteSet(1..MaxLog)
    BY <1>1, FS_Interval
  <1>3. Events(r, a, b) \in SUBSET (1..MaxLog)
    BY <1>1 DEF Events
  <1>4. IsFiniteSet(Events(r, a, b))
    BY <1>2, <1>3, FS_Subset
  <1>5. \A p : p \in Events(r, a, b) <=> p \in Nat /\ a < p /\ p <= b /\ log[p] = r
    BY DEF Events
  <1> QED BY <1>1, <1>3, <1>4, <1>5

LEMMA IntervalIs ==
    ASSUME Given, NEW r
    PROVE  /\ Interval(r) \in SUBSET (1..MaxLog) /\ Interval(r) \in SUBSET Nat
           /\ IsFiniteSet(Interval(r))
           /\ \A p : p \in Interval(r) <=>
                p \in Nat /\ Base(input.since) < p /\ p <= input.upto /\ log[p] = r
  <1>1. /\ Base(input.since) \in Nat /\ input.upto \in Nat /\ input.upto <= MaxLog
    BY GivenFacts
  <1> QED BY <1>1, EventsAre DEF Interval

LEMMA SmallestIs ==
    ASSUME NEW S \in SUBSET Nat, S # {}
    PROVE  Smallest(S) \in S /\ \A q \in S : Smallest(S) <= q
  <1>1. \E p \in S : \A q \in S : p <= q
    BY LeastNatural
  <1> QED BY <1>1 DEF Smallest

(* The tail is the end of the interval. *)
LEMMA TailIs ==
    ASSUME Given, NEW r
    PROVE  /\ TailOf(r) \in SUBSET Interval(r)
           /\ \A p \in TailOf(r) : \A q \in Interval(r) : p <= q => q \in TailOf(r)
           /\ TailLimit > 0 /\ Interval(r) # {} => TailOf(r) # {}
  <1>1. PICK I : I = Interval(r)
    OBVIOUS
  <1>2. I \in SUBSET Nat /\ IsFiniteSet(I) /\ \A p \in I : p <= input.upto
    BY <1>1, IntervalIs
  <1>3. TailOf(r) = {p \in I : Cardinality({q \in I : q >= p}) <= TailLimit}
    BY <1>1 DEF TailOf
  <1>4. TailLimit \in Nat /\ input.upto \in Nat
    BY GivenFacts, RecoveryAssumption
  <1>5. ASSUME NEW p \in TailOf(r), NEW q \in I, p <= q PROVE q \in TailOf(r)
    <2>1. PICK A : A = {x \in I : x >= p}
      OBVIOUS
    <2>2. PICK B : B = {x \in I : x >= q}
      OBVIOUS
    <2>3. p \in I /\ p \in Nat /\ q \in Nat /\ Cardinality(A) <= TailLimit
      BY <1>2, <1>3, <2>1
    <2>4. A \in SUBSET I /\ B \in SUBSET A
      <3>1. ASSUME NEW x \in I, x >= q PROVE x >= p
        BY <1>2, <1>5, <2>3, <3>1
      <3>2. A \in SUBSET I
        BY <2>1
      <3> QED BY <2>1, <2>2, <3>1, <3>2
    <2>5. IsFiniteSet(A)
      BY <1>2, <2>4, FS_Subset
    <2>6. Cardinality(B) <= Cardinality(A) /\ IsFiniteSet(B)
      BY <2>4, <2>5, FS_Subset
    <2>7. Cardinality(A) \in Nat /\ Cardinality(B) \in Nat
      BY <2>5, <2>6, FS_CardinalityType
    <2>8. Cardinality(B) <= TailLimit
      BY <1>4, <2>3, <2>6, <2>7
    <2> QED BY <1>3, <2>2, <2>8
  <1>6. ASSUME TailLimit > 0, I # {} PROVE TailOf(r) # {}
    <2>1. PICK m \in I : \A y \in I : y <= m
      BY <1>2, <1>4, <1>6, LargestNatural
    <2>2. {q \in I : q >= m} = {m}
      <3>1. ASSUME NEW y \in I PROVE y >= m <=> y = m
        BY <1>2, <2>1
      <3> QED BY <3>1
    <2>3. Cardinality({m}) = 1
      BY FS_Singleton
    <2>4. m \in TailOf(r)
      BY <1>3, <1>4, <1>6, <2>2, <2>3
    <2> QED BY <2>4
  <1> QED BY <1>1, <1>3, <1>5, <1>6

(* prev_batch separates the tail from what comes before it. *)
LEMMA PrevBatchIs ==
    ASSUME Given, NEW r
    PROVE  /\ PrevBatch(r) \in Nat /\ Base(input.since) <= PrevBatch(r) /\ PrevBatch(r) <= input.upto
           /\ \A p \in Interval(r) : p \in TailOf(r) <=> PrevBatch(r) < p
           /\ TailOf(r) # {} => PrevBatch(r) + 1 \in TailOf(r)
  <1>1. PICK I : I = Interval(r)
    OBVIOUS
  <1>2. PICK T : T = TailOf(r)
    OBVIOUS
  <1>3. PICK a \in Nat : a = Base(input.since)
    BY GivenFacts
  <1>4. PICK b \in Nat : b = input.upto
    BY GivenFacts
  <1>5. /\ a <= b /\ I \in SUBSET Nat /\ \A p \in I : p \in Nat /\ a < p /\ p <= b
    BY <1>1, <1>3, <1>4, GivenFacts, IntervalIs
  <1>6. T \in SUBSET I /\ \A p \in T : \A q \in I : p <= q => q \in T
    BY <1>1, <1>2, TailIs
  <1>7. CASE T = {}
    <2>1. PrevBatch(r) = b
      BY <1>2, <1>4, <1>7 DEF PrevBatch
    <2> QED BY <1>1, <1>2, <1>3, <1>4, <1>5, <1>7, <2>1
  <1>8. CASE T # {}
    <2>1. T \in SUBSET Nat
      BY <1>5, <1>6
    <2>2. PICK m : m = Smallest(T)
      OBVIOUS
    <2>3. m \in T /\ \A q \in T : m <= q
      BY <1>8, <2>1, <2>2, SmallestIs
    <2>4. PrevBatch(r) = m - 1
      BY <1>2, <1>8, <2>2 DEF PrevBatch
    <2>5. m \in Nat /\ a < m /\ m <= b
      BY <1>5, <1>6, <2>3
    <2>6. ASSUME NEW p \in I PROVE p \in T <=> m - 1 < p
      <3>1. p \in Nat
        BY <1>5
      <3>2. p \in T => m <= p
        BY <2>3
      <3>3. m <= p => p \in T
        BY <1>6, <2>3
      <3> QED BY <2>5, <3>1, <3>2, <3>3
    <2>7. (m - 1) + 1 = m /\ m - 1 \in Nat /\ a <= m - 1 /\ m - 1 <= b
      BY <1>5, <2>5
    <2> QED BY <1>1, <1>2, <1>3, <1>4, <2>3, <2>4, <2>6, <2>7
  <1> QED BY <1>7, <1>8

(* The candidates are the listed rooms with missing history. *)
LEMMA CandidatesAre ==
    /\ Candidates \in Seq(Rooms) /\ Len(Candidates) \in 0..Len(RoomOrder)
    /\ \A j \in 1..Len(Candidates) :
          Candidates[j] \in Rooms /\ Listed(Candidates[j]) /\ Limited(Candidates[j])
    /\ \A r \in Rooms : Listed(r) /\ Limited(r) => \E j \in 1..Len(Candidates) : Candidates[j] = r
    /\ \A h, k \in 1..Len(Candidates) : Candidates[h] = Candidates[k] => h = k
  <1>1. PICK C : C = {r \in Rooms : Listed(r) /\ Limited(r)}
    OBVIOUS
  <1>2. C \in SUBSET Rooms /\ Candidates = ResponseOrder(C)
    BY <1>1 DEF Candidates
  <1>3. PICK t : t = ResponseOrder(C)
    OBVIOUS
  <1>4. /\ t \in Seq(C) /\ Len(t) \in 0..Len(RoomOrder)
        /\ \A r \in C : \E k \in 1..Len(t) : t[k] = r
        /\ \A h, k \in 1..Len(t) : t[h] = t[k] => h = k
    BY <1>2, <1>3, ResponseOrderIs
  <1>5. \A k \in 1..Len(t) : t[k] \in C
    BY <1>4
  <1>6. t \in Seq(Rooms)
    BY <1>2, <1>4, SeqMonotonic
  <1> QED BY <1>1, <1>2, <1>3, <1>4, <1>5, <1>6, SMTT(30)

(* t is what a tail brings after what in has applied. *)
TailCarried(t, in) ==
    /\ t \in Seq(Record) /\ Increasing(t)
    /\ \A k \in 1..Len(t) :
          /\ t[k].kind = "event" /\ t[k].room \in Rooms /\ Listed(t[k].room)
          /\ t[k].upto \in TailOf(t[k].room) \ in.applied[t[k].room]
          /\ t[k].room \in in.history => t[k].provenance = "history"
    /\ \A r \in Rooms : Listed(r) =>
          \A p \in TailOf(r) \ in.applied[r] :
              \E k \in 1..Len(t) : t[k].kind = "event" /\ t[k].upto = p

LEMMA TailEventsAre ==
    ASSUME Given, NEW in, in.upto = input.upto
    PROVE  TailCarried(TailEvents(in), in)
  <1>1. PICK S : S = TailPlaces(in)
    OBVIOUS
  <1>2. PICK l \in Nat : l = Len(RoomOrder)
    BY RoomsAre
  <1>3. PICK b \in Nat : b = in.upto /\ b <= MaxLog
    BY GivenFacts
  <1>4. S \in SUBSET ((1..l) \X (1..b))
    BY <1>1, <1>2, <1>3 DEF TailPlaces
  <1>5. IsFiniteSet(S)
    <2>1. 1 \in Int /\ l \in Int /\ b \in Int
      OBVIOUS
    <2>2. IsFiniteSet(1..l) /\ IsFiniteSet(1..b)
      BY <2>1, FS_Interval
    <2>3. PICK A : A = 1..l
      OBVIOUS
    <2>4. PICK B : B = 1..b
      OBVIOUS
    <2>5. IsFiniteSet(A \X B)
      BY <2>2, <2>3, <2>4, FS_Product
    <2> QED BY <1>4, <2>3, <2>4, <2>5, FS_Subset
  <1>6. \A m \in S : /\ m[1] \in 1..l /\ m[2] \in 1..b /\ m = <<m[1], m[2]>>
    BY <1>4
  <1> DEFINE R == {ss \in S \X S : Precedes(ss[1], ss[2])}
  <1>7. \A x, y \in S : <<x, y>> \in R <=> (x[1] < y[1] \/ (x[1] = y[1] /\ x[2] < y[2]))
    BY DEF Precedes
  <1> HIDE DEF R
  <1>8. Linear(S, R)
    <2>1. ASSUME NEW x \in S, NEW y \in S, x # y PROVE <<x, y>> \in R \/ <<y, x>> \in R
      <3>1. x[1] # y[1] \/ x[2] # y[2]
        BY <1>6, <2>1
      <3>2. x[1] \in Nat /\ y[1] \in Nat /\ x[2] \in Nat /\ y[2] \in Nat
        BY <1>6
      <3> QED BY <1>7, <3>1, <3>2
    <2>2. ASSUME NEW x \in S, NEW y \in S, NEW z \in S, <<x, y>> \in R, <<y, z>> \in R
          PROVE  <<x, z>> \in R
      <3>1. /\ x[1] \in Nat /\ y[1] \in Nat /\ z[1] \in Nat
            /\ x[2] \in Nat /\ y[2] \in Nat /\ z[2] \in Nat
        BY <1>6
      <3> QED BY <1>7, <2>2, <3>1
    <2> QED BY <2>1, <2>2 DEF Linear
  <1>9. Irreflexive(S, R)
    <2>1. \A x \in S : x[1] \in Nat /\ x[2] \in Nat
      BY <1>6
    <2> QED BY <1>7, <2>1 DEF Irreflexive
  <1>10. PICK n \in Nat : n = Cardinality(S)
    BY <1>5, FS_CardinalityType
  <1>11. PICK e : Enumerates(e, S, R)
    BY <1>5, <1>8, Enumeration
  <1>12. PICK q : q = CHOOSE x \in [1..Cardinality(S) -> S] :
                        \A i, j \in DOMAIN x : i < j => Precedes(x[i], x[j])
    OBVIOUS
  <1>13. q \in [1..n -> S] /\ \A i, j \in 1..n : i < j => Precedes(q[i], q[j])
    <2>1. e \in [1..n -> S] /\ \A i, j \in 1..n : i < j => <<e[i], e[j]>> \in R
      BY <1>10, <1>11 DEF Enumerates
    <2>2. \A i, j \in DOMAIN e : i < j => Precedes(e[i], e[j])
      <3>1. \A x, y \in S : <<x, y>> \in R => Precedes(x, y)
        BY DEF R
      <3> QED BY <2>1, <3>1
    <2>3. q \in [1..n -> S] /\ \A i, j \in DOMAIN q : i < j => Precedes(q[i], q[j])
      BY <1>10, <1>12, <2>1, <2>2
    <2> QED BY <2>3
  <1>14. Enumerates(q, S, R)
    <2>1. \A x, y \in S : Precedes(x, y) => <<x, y>> \in R
      BY DEF R
    <2> QED BY <1>10, <1>13, <2>1 DEF Enumerates
  <1>15. Covers(q, S)
    BY <1>5, <1>9, <1>14, EnumerationCovers
  <1>16. PICK t : t = TailEvents(in)
    OBVIOUS
  <1>17. t = [k \in 1..n |-> TailEvent(in, q[k])]
    BY <1>1, <1>10, <1>12, <1>16 DEF TailEvents
  <1>18. ASSUME NEW k \in 1..n
         PROVE  /\ t[k] \in Record /\ t[k].kind = "event" /\ t[k].room = RoomOrder[q[k][1]]
                /\ t[k].upto = q[k][2] /\ t[k].room \in Rooms
                /\ t[k].room \in in.history => t[k].provenance = "history"
    <2>1. PICK r : r = RoomOrder[q[k][1]]
      OBVIOUS
    <2>2. PICK p : p = q[k][2]
      OBVIOUS
    <2>3. q[k] \in S
      BY <1>13
    <2>4. r \in Rooms /\ p \in 1..b
      BY <1>2, <1>6, <2>1, <2>2, <2>3, RoomsAre
    <2>5. p \in Positions /\ p - 1 \in Positions
      BY <1>3, <2>4, RecoveryAssumption DEF Positions
    <2>6. PICK v : v = IF r \in in.history THEN "history" ELSE "live"
      OBVIOUS
    <2>7. v \in Provenances
      BY <2>6 DEF Provenances
    <2>8. t[k] = EventRecord(r, p, v)
      BY <1>17, <2>1, <2>2, <2>6 DEF TailEvent
    <2>9. EventRecord(r, p, v) \in Record
      BY <2>4, <2>5, <2>7 DEF EventRecord, Record
    <2>10. t[k].kind = "event" /\ t[k].room = r /\ t[k].upto = p /\ t[k].provenance = v
      BY <2>8 DEF EventRecord
    <2> QED BY <2>1, <2>2, <2>4, <2>6, <2>8, <2>9, <2>10
  <1>19. t \in Seq(Record) /\ Len(t) = n
    <2>1. t \in [1..n -> Record]
      BY <1>17, <1>18
    <2> QED BY <2>1
  <1>20. \A m \in S : /\ Listed(RoomOrder[m[1]])
                      /\ m[2] \in TailOf(RoomOrder[m[1]]) \ in.applied[RoomOrder[m[1]]]
    BY <1>1 DEF TailPlaces
  <1>21. \A k \in 1..n : /\ Listed(t[k].room)
                         /\ t[k].upto \in TailOf(t[k].room) \ in.applied[t[k].room]
    BY <1>13, <1>18, <1>20
  <1>22. Increasing(t)
    <2> SUFFICES ASSUME NEW i \in 1..n, NEW j \in 1..n, i < j, t[i].room = t[j].room
                 PROVE  t[i].upto < t[j].upto
      BY <1>19 DEF Increasing
    <2>1. q[i] \in S /\ q[j] \in S
      BY <1>13
    <2>2. q[i][1] \in 1..l /\ q[j][1] \in 1..l /\ RoomOrder[q[i][1]] = RoomOrder[q[j][1]]
      BY <1>6, <1>18, <2>1
    <2>3. q[i][1] = q[j][1]
      BY <1>2, <2>2, RecoveryAssumption
    <2>4. q[i][1] < q[j][1] \/ (q[i][1] = q[j][1] /\ q[i][2] < q[j][2])
      BY <1>13 DEF Precedes
    <2>5. q[i][2] < q[j][2]
      BY <2>2, <2>3, <2>4
    <2> QED BY <1>18, <2>5
  <1>23. ASSUME NEW r \in Rooms, Listed(r), NEW p \in TailOf(r) \ in.applied[r]
         PROVE  \E k \in 1..n : t[k].kind = "event" /\ t[k].upto = p
    <2>1. PICK i \in 1..l : RoomOrder[i] = r
      BY <1>2, RoomsAre
    <2>2. p \in Interval(r)
      BY <1>23, TailIs
    <2>3. p \in 1..b
      BY <1>3, <2>2, IntervalIs, GivenFacts
    <2>4. PICK m : m = <<i, p>>
      OBVIOUS
    <2>5. m \in (1..l) \X (1..b) /\ m[1] = i /\ m[2] = p
      BY <2>3, <2>4
    <2>6. m \in S
      BY <1>1, <1>2, <1>3, <1>23, <2>1, <2>5 DEF TailPlaces
    <2>7. PICK k \in 1..n : q[k] = m
      BY <1>10, <1>15, <2>6 DEF Covers
    <2> QED BY <1>18, <2>5, <2>7
  <1>24. TailCarried(t, in)
    BY <1>18, <1>19, <1>21, <1>22, <1>23 DEF TailCarried
  <1> QED BY <1>16, <1>24

(* t reports the loss of the rooms R over an interval. *)
Reports(t, R, from, upto) ==
    /\ t \in Seq(Record)
    /\ \A k \in 1..Len(t) : /\ t[k].kind = "loss" /\ t[k].room \in R
                            /\ t[k].from = from /\ t[k].upto = upto
    /\ \A r \in R : \E k \in 1..Len(t) : t[k].room = r

LEMMA LossRecordIs ==
    ASSUME NEW in, Base(in.since) \in Positions, in.upto \in Positions, NEW r \in Rooms
    PROVE  /\ LossRecord(r, in) \in Record
           /\ LossRecord(r, in).kind = "loss" /\ LossRecord(r, in).room = r
           /\ LossRecord(r, in).from = Base(in.since) /\ LossRecord(r, in).upto = in.upto
  BY DEF LossRecord, Record, Provenances

LEMMA LossesAre ==
    ASSUME NEW in, Base(in.since) \in Positions, in.upto \in Positions, in.unknown \in SUBSET Rooms
    PROVE  Reports(Losses(in), in.unknown, Base(in.since), in.upto)
  <1>1. PICK o : o = ResponseOrder(in.unknown)
    OBVIOUS
  <1>2. /\ o \in Seq(in.unknown)
        /\ \A r \in in.unknown : \E k \in 1..Len(o) : o[k] = r
    BY <1>1, ResponseOrderIs
  <1>3. PICK n \in Nat : n = Len(o)
    BY <1>2
  <1>4. \A k \in 1..n : o[k] \in in.unknown /\ o[k] \in Rooms
    BY <1>2, <1>3
  <1>5. PICK t : t = Losses(in)
    OBVIOUS
  <1>6. t = [k \in 1..n |-> LossRecord(o[k], in)]
    BY <1>1, <1>3, <1>5 DEF Losses
  <1>7. \A k \in 1..n : /\ t[k] \in Record /\ t[k].kind = "loss" /\ t[k].room = o[k]
                        /\ t[k].from = Base(in.since) /\ t[k].upto = in.upto
    BY <1>4, <1>6, LossRecordIs
  <1>8. t \in [1..n -> Record]
    BY <1>6, <1>7
  <1>9. t \in Seq(Record) /\ Len(t) = n
    BY <1>8
  <1> QED BY <1>2, <1>3, <1>4, <1>5, <1>7, <1>9 DEF Reports

-----------------------------------------------------------------------------
(* The retained response does not change while it is interpreted, and the  *)
(* server's log only grows.                                                *)
Grows == Len(log) <= Len(log)' /\ \A p \in 1..Len(log) : log'[p] = log[p]

SameInput == input'.since = input.since /\ input'.upto = input.upto /\ input'.full = input.full

KeptOf(r) ==
    /\ Interval(r)' = Interval(r) /\ TailOf(r)' = TailOf(r) /\ Listed(r)' = Listed(r)
    /\ Limited(r)' = Limited(r) /\ PrevBatch(r)' = PrevBatch(r)

LEMMA EventsKept ==
    ASSUME Grows, Len(log) \in Nat, NEW r, NEW a \in Nat, NEW b \in Nat, b <= Len(log)
    PROVE  Events(r, a, b)' = Events(r, a, b)
  <1>1. \A p \in (a + 1)..b : log'[p] = log[p]
    BY DEF Grows
  <1> QED BY <1>1 DEF Events

LEMMA SameResponse ==
    ASSUME Given, Grows, SameInput
    PROVE  (\A r : KeptOf(r)) /\ Candidates' = Candidates
  <1>1. Base(input'.since) = Base(input.since) /\ input'.upto = input.upto
    BY DEF SameInput
  <1>2. ASSUME NEW r PROVE KeptOf(r)
    <2>1. PICK a \in Nat : a = Base(input.since)
      BY GivenFacts
    <2>2. PICK b \in Nat : b = input.upto /\ b <= Len(log) /\ Len(log) \in Nat
      BY GivenFacts
    <2>3. \A p \in (a + 1)..b : log'[p] = log[p]
      BY <2>2 DEF Grows
    <2>4. Interval(r)' = {p \in (a + 1)..b : log'[p] = r}
      BY <1>1, <2>1, <2>2 DEF Interval, Events
    <2>5. Interval(r) = {p \in (a + 1)..b : log[p] = r}
      BY <2>1, <2>2 DEF Interval, Events
    <2>6. Interval(r)' = Interval(r)
      BY <2>3, <2>4, <2>5
    <2>7. TailOf(r)' = TailOf(r)
      BY <2>6 DEF TailOf
    <2>8. Limited(r)' = Limited(r)
      BY <2>6, <2>7 DEF Limited
    <2>9. Listed(r)' = Listed(r)
      BY <2>6 DEF Listed, SameInput
    <2>10. PrevBatch(r)' = PrevBatch(r)
      BY <1>1, <2>7 DEF PrevBatch
    <2> QED BY <2>6, <2>7, <2>8, <2>9, <2>10 DEF KeptOf
  <1>3. \A r : Listed(r)' = Listed(r) /\ Limited(r)' = Limited(r)
    BY <1>2 DEF KeptOf
  <1>4. Candidates' = ResponseOrder({r \in Rooms : Listed(r)' /\ Limited(r)'})
    BY DEF Candidates
  <1>5. {r \in Rooms : Listed(r)' /\ Limited(r)'} = {r \in Rooms : Listed(r) /\ Limited(r)}
    BY <1>3
  <1>6. Candidates' = Candidates
    BY <1>4, <1>5 DEF Candidates
  <1> QED BY <1>2, <1>6

(* Steps that leave the durable state and the server alone *)
Quiet == UNCHANGED <<log, cursor, baseline, known, input, stream, start, excused>>

LEMMA QuietSteps ==
    ASSUME \/ Acknowledge \/ Poll \/ EmptyPoll \/ Decode \/ TailRefused \/ RequestPage
           \/ Crash \/ Reopen \/ UNCHANGED vars
    PROVE  Quiet
  <1>1. ASSUME Acknowledge PROVE Quiet
    BY <1>1 DEF Acknowledge, Quiet, history
  <1>2. ASSUME Poll \/ EmptyPoll \/ Decode \/ TailRefused PROVE Quiet
    BY <1>2 DEF Poll, EmptyPoll, Decode, TailRefused, Quiet, durable, history
  <1>3. ASSUME RequestPage \/ Crash \/ Reopen PROVE Quiet
    BY <1>3 DEF RequestPage, Crash, Reopen, Quiet, durable, history
  <1>4. CASE UNCHANGED vars
    BY <1>4 DEF vars, Quiet, durable, history
  <1> QED BY <1>1, <1>2, <1>3, <1>4

LEMMA QuietResponse ==
    ASSUME Shape, Quiet
    PROVE  /\ CursorOK' /\ ResponseOK'
           /\ input # None => (\A r : KeptOf(r)) /\ Candidates' = Candidates /\ Room' = Room
  <1>1. CursorOK'
    BY DEF Shape, CursorOK, Quiet, Base
  <1>2. CASE input = None
    BY <1>1, <1>2 DEF ResponseOK, Quiet
  <1>3. CASE input # None
    <2>1. Given
      BY <1>3 DEF Given, Shape
    <2>2. Len(log) \in Nat
      BY <2>1, GivenFacts
    <2>3. Grows /\ SameInput
      BY <2>2 DEF Quiet, Grows, SameInput
    <2>4. (\A r : KeptOf(r)) /\ Candidates' = Candidates
      BY <2>1, <2>3, SameResponse
    <2>5. input' = input /\ log' = log /\ cursor' = cursor
      BY DEF Quiet
    <2>6. ResponseOK'
      BY <2>4, <2>5 DEF Shape, ResponseOK
    <2>7. Room' = Room
      BY <2>4, <2>5 DEF Room
    <2> QED BY <1>1, <2>4, <2>6, <2>7
  <1> QED BY <1>2, <1>3

LEMMA QuietShape ==
    ASSUME Shape, \/ Acknowledge \/ Poll \/ EmptyPoll \/ Decode \/ TailRefused \/ RequestPage
                  \/ Crash \/ Reopen \/ UNCHANGED vars
    PROVE  Shape'
  <1>1. Quiet
    BY QuietSteps
  <1>2. CursorOK' /\ ResponseOK' /\ (input # None => Room' = Room)
    BY <1>1, QuietResponse
  <1>3. TypeOK /\ RequestOK /\ ResponseOK
    BY DEF Shape
  <1>4. TypeOK'
    <2>1. /\ (log \in Seq(Rooms \cup {Device}) /\ Len(log) <= MaxLog)'
          /\ (cursor \in Positions \cup {None})' /\ (baseline \subseteq Rooms /\ known \subseteq Rooms)'
          /\ (input \in Retained \cup {None})' /\ (stream \in Seq(Record))'
          /\ (start \in Positions \cup {None})' /\ (excused \subseteq Rooms \X Positions)'
      BY <1>1, <1>3 DEF TypeOK, Quiet
    <2>2. acked' \in 0..Len(stream')
      <3>1. CASE Acknowledge
        <4>1. stream \in Seq(Record) /\ acked \in 0..Len(stream) /\ Len(stream) \in Nat
          BY <1>3 DEF TypeOK
        <4>2. acked' \in (acked + 1)..Len(stream) /\ stream' = stream
          BY <3>1 DEF Acknowledge
        <4> QED BY <4>1, <4>2
      <3>2. CASE ~Acknowledge
        <4>1. acked' = acked /\ stream' = stream
          BY <3>2 DEF Poll, EmptyPoll, Decode, TailRefused, RequestPage, Crash, Reopen, vars, durable
        <4> QED BY <1>3, <4>1 DEF TypeOK
      <3> QED BY <3>1, <3>2
    <2>3. crashes' \in 0..MaxCrashes
      <3>1. CASE Crash
        BY <1>3, <3>1, RecoveryAssumption DEF Crash, TypeOK
      <3>2. CASE ~Crash
        <4>1. crashes' = crashes
          BY <3>2 DEF Acknowledge, Poll, EmptyPoll, Decode, TailRefused, RequestPage, Reopen, vars
        <4> QED BY <1>3, <4>1 DEF TypeOK
      <3> QED BY <3>1, <3>2
    <2>4. pc' \in {"loop", "poll", "page"}
      BY <1>3 DEF TypeOK, Acknowledge, Poll, EmptyPoll, Decode, TailRefused, RequestPage, Crash,
           Reopen, vars, volatile
    <2>5. up' \in BOOLEAN /\ decoded' \in BOOLEAN /\ fullSeen' \in BOOLEAN
      BY <1>3, Zenon DEF TypeOK, Acknowledge, Poll, EmptyPoll, Decode, TailRefused, RequestPage, Crash,
           Reopen, vars, volatile
    <2>6. request' \in Requests \cup {None}
      <3>1. request \in Requests \cup {None}
        BY <1>3 DEF TypeOK, Requests
      <3>2. CASE Poll
        <4>1. cursor \in Positions \cup {None} /\ NeedsFullState \in BOOLEAN
          BY <1>3 DEF TypeOK, NeedsFullState
        <4>2. request' = [since |-> cursor, full |-> NeedsFullState]
          BY <3>2 DEF Poll
        <4> QED BY <4>1, <4>2 DEF Requests
      <3>3. CASE ~Poll
        <4>1. request' = request \/ request' = None
          BY <3>3 DEF Acknowledge, EmptyPoll, Decode, TailRefused, RequestPage, Crash,
             Reopen, vars, volatile
        <4> QED BY <3>1, <4>1
      <3> QED BY <3>2, <3>3
    <2> QED BY <2>1, <2>2, <2>3, <2>4, <2>5, <2>6 DEF TypeOK, Requests
  <1>5. RequestOK'
    <2>1. input' = input /\ cursor' = cursor
      BY <1>1 DEF Quiet
    <2>2. CASE Poll
      <3>1. pc' = "poll" /\ input = None /\ request' = [since |-> cursor, full |-> NeedsFullState]
        BY <2>2 DEF Poll
      <3>2. request'.since = cursor /\ request' \in Requests
        <4>1. cursor \in Positions \cup {None} /\ NeedsFullState \in BOOLEAN
          BY <1>3 DEF TypeOK, NeedsFullState
        <4> QED BY <3>1, <4>1 DEF Requests
      <3> QED BY <2>1, <3>1, <3>2 DEF RequestOK
    <2>3. CASE RequestPage
      <3>1. /\ pc' = "page" /\ input # None /\ input.phase = "recover"
            /\ Room \notin input.unknown /\ ~input.noBoundary /\ input.pages < MaxPages
        BY <2>3 DEF RequestPage, Walking
      <3> QED BY <1>2, <2>1, <3>1 DEF RequestOK
    <2>4. CASE EmptyPoll \/ Crash \/ TailRefused \/ Decode
      <3>1. pc' = "loop"
        BY <2>4 DEF EmptyPoll, Crash, TailRefused, Decode
      <3> QED BY <3>1 DEF RequestOK
    <2>5. CASE Acknowledge \/ Reopen \/ UNCHANGED vars
      <3>1. pc' = pc /\ request' = request
        BY <2>5 DEF Acknowledge, Reopen, vars, volatile
      <3> QED BY <1>2, <1>3, <2>1, <3>1 DEF RequestOK
    <2> QED BY <2>2, <2>3, <2>4, <2>5
  <1> QED BY <1>2, <1>4, <1>5 DEF Shape

LEMMA InitShape ==
    ASSUME Init
    PROVE  Shape
  <1> USE RecoveryAssumption
  <1>1. log \in Seq(Rooms \cup {Device}) /\ Len(log) <= MaxLog
    <2>1. PICK n \in Positions : log \in [1..n -> Rooms \cup {Device}]
      BY DEF Init
    <2>2. n \in Nat /\ n <= MaxLog
      BY DEF Positions
    <2>3. log \in Seq(Rooms \cup {Device}) /\ Len(log) = n
      BY <2>1, <2>2
    <2> QED BY <2>2, <2>3
  <1>2. cursor \in Positions \cup {None} /\ Base(cursor) <= Len(log)
    BY DEF Init
  <1>3. stream \in Seq(Record) /\ acked \in 0..Len(stream)
    BY DEF Init
  <1>4. up \in BOOLEAN /\ decoded \in BOOLEAN /\ fullSeen \in BOOLEAN
    BY Zenon DEF Init
  <1>5. TypeOK
    BY <1>1, <1>2, <1>3, <1>4 DEF Init, TypeOK
  <1>6. CursorOK
    BY <1>2 DEF Init, CursorOK, Positions
  <1>7. RequestOK /\ ResponseOK
    BY DEF Init, RequestOK, ResponseOK
  <1> QED BY <1>5, <1>6, <1>7 DEF Shape

(* The log grows by one event. *)
LEMMA ServerEventIs ==
    ASSUME Shape, NEW r \in Rooms \cup {Device}, ServerEvent(r)
    PROVE  /\ Grows /\ UNCHANGED <<durable, volatile, crashes, history>>
           /\ log' \in Seq(Rooms \cup {Device}) /\ Len(log') <= MaxLog
           /\ input # None => SameInput /\ (\A q : KeptOf(q)) /\ Candidates' = Candidates /\ Room' = Room
  <1>1. log \in Seq(Rooms \cup {Device}) /\ MaxLog \in Nat
    BY RecoveryAssumption DEF Shape, TypeOK
  <1>2. UNCHANGED <<durable, volatile, crashes, history>> /\ log' = Append(log, r) /\ Len(log) < MaxLog
    BY DEF ServerEvent
  <1>3. log' \in Seq(Rooms \cup {Device}) /\ Len(log') = Len(log) + 1
        /\ \A p \in 1..Len(log) : log'[p] = log[p]
    BY <1>1, <1>2
  <1>4. Grows /\ Len(log') <= MaxLog
    BY <1>1, <1>2, <1>3 DEF Grows
  <1>5. input' = input
    BY <1>2 DEF durable
  <1>6. ASSUME input # None
        PROVE  SameInput /\ (\A q : KeptOf(q)) /\ Candidates' = Candidates /\ Room' = Room
    <2>1. Given /\ SameInput
      BY <1>5, <1>6 DEF Given, Shape, SameInput
    <2>2. (\A q : KeptOf(q)) /\ Candidates' = Candidates
      BY <1>4, <2>1, SameResponse
    <2>3. Room' = Room
      BY <1>5, <2>2 DEF Room
    <2> QED BY <2>1, <2>2, <2>3
  <1> QED BY <1>2, <1>3, <1>4, <1>6

LEMMA ServerEventShape ==
    ASSUME Shape, NEW r \in Rooms \cup {Device}, ServerEvent(r)
    PROVE  Shape'
  <1>1. /\ Len(log) <= Len(log') /\ Len(log) \in Nat /\ Len(log') \in Nat
        /\ log' \in Seq(Rooms \cup {Device}) /\ Len(log') <= MaxLog
    BY ServerEventIs DEF Grows, Shape, TypeOK
  <1>2. UNCHANGED <<cursor, baseline, known, input, stream, acked, up, pc, request, decoded, fullSeen,
                    crashes, start, excused>>
    BY ServerEventIs DEF durable, volatile, history
  <1>3. TypeOK'
    BY <1>1, <1>2 DEF Shape, TypeOK
  <1>4. CursorOK'
    <2>1. cursor \in Positions \cup {None} /\ Base(cursor) <= Len(log)
      BY DEF Shape, TypeOK, CursorOK
    <2>2. Base(cursor) \in Nat
      BY <2>1, RecoveryAssumption DEF Base, Positions
    <2>3. Base(cursor) <= Len(log')
      BY <1>1, <2>1, <2>2
    <2>4. start = None <=> cursor = None
      BY DEF Shape, CursorOK
    <2>5. start # None => start <= cursor
      BY DEF Shape, CursorOK
    <2> QED BY <1>2, <2>3, <2>4, <2>5 DEF CursorOK
  <1>5. CASE input = None
    BY <1>2, <1>3, <1>4, <1>5 DEF Shape, RequestOK, ResponseOK
  <1>6. CASE input # None
    <2>1. Candidates' = Candidates /\ Room' = Room
      BY <1>6, ServerEventIs
    <2>2. RequestOK'
      BY <1>2, <2>1 DEF Shape, RequestOK
    <2>3. input.upto <= Len(log') /\ (input.from <= Len(log) => input.from <= Len(log'))
      <3>1. Given
        BY <1>6 DEF Given, Shape
      <3>2. input.upto \in Nat /\ input.upto <= Len(log) /\ input \in Retained /\ MaxLog \in Nat
        BY <3>1, GivenFacts
      <3>3. input.from \in Nat
        BY <3>2 DEF Retained, Positions
      <3> QED BY <1>1, <3>2, <3>3
    <2>4. ResponseOK'
      BY <1>2, <2>1, <2>3 DEF Shape, ResponseOK
    <2> QED BY <1>3, <1>4, <2>2, <2>4 DEF Shape
  <1> QED BY <1>5, <1>6

(* A captured response *)
Untouched(in) ==
    /\ in.phase = "new" /\ ~in.prologue /\ in.history = {} /\ in.unknown = {}
    /\ in.applied = [r \in Rooms |-> {}] /\ in.since = cursor

LEMMA CaptureIs ==
    ASSUME Shape, Capture
    PROVE  /\ UNCHANGED <<log, cursor, baseline, known, stream, acked, start, excused>>
           /\ input = None /\ input' \in Retained /\ input' # None /\ Untouched(input')
           /\ Base(input'.since) <= input'.upto /\ input'.upto <= Len(log)
  <1> USE RecoveryAssumption
  <1>1. /\ pc = "poll" /\ input = None /\ request \in Requests /\ request.since = cursor
    BY DEF Capture, Shape, RequestOK
  <1>2. Len(log) \in Nat /\ Len(log) <= MaxLog
    BY DEF Shape, TypeOK
  <1>3. Base(cursor) \in Nat
    BY DEF Shape, TypeOK, Base, Positions
  <1>4. PICK upto \in Base(request.since)..Len(log), noBoundary \in BOOLEAN :
          input' = [since |-> request.since, full |-> request.full, upto |-> upto,
                     noBoundary |-> noBoundary, phase |-> "new",
                     history |-> {}, unknown |-> {}, prologue |-> FALSE,
                     index |-> 0, from |-> 0, pages |-> 0, limit |-> 0,
                     seen |-> {}, applied |-> [r \in Rooms |-> {}]]
    BY DEF Capture
  <1>5. upto \in Positions /\ Base(cursor) <= upto /\ upto <= Len(log)
    BY <1>1, <1>2, <1>3, <1>4 DEF Positions
  <1>6. request.full \in BOOLEAN /\ request.since \in Positions \cup {None}
    BY <1>1 DEF Requests
  <1>7. input' \in Retained
    <2>1. /\ 0 \in 0..(Len(RoomOrder) + 1) /\ 0 \in Positions /\ 0 \in 0..MaxPages /\ 0 \in 0..PageSize
      BY RoomsAre DEF Positions
    <2>2. FALSE \in BOOLEAN
      OBVIOUS
    <2>3. [r \in Rooms |-> {}] \in [Rooms -> SUBSET Positions]
      OBVIOUS
    <2> QED BY <1>4, <1>5, <1>6, <2>1, <2>2, <2>3 DEF Retained
  <1>8. input' # None
    BY <1>7
  <1>9. Untouched(input') /\ Base(input'.since) <= input'.upto /\ input'.upto <= Len(log)
    BY <1>1, <1>4, <1>5 DEF Untouched
  <1> QED BY <1>1, <1>7, <1>8, <1>9 DEF Capture, history

LEMMA CaptureShape ==
    ASSUME Shape, Capture
    PROVE  Shape'
  <1>1. /\ UNCHANGED <<log, cursor, baseline, known, stream, acked, start, excused>>
        /\ input' \in Retained /\ input' # None /\ Untouched(input')
        /\ Base(input'.since) <= input'.upto /\ input'.upto <= Len(log)
    BY CaptureIs
  <1>2. /\ decoded' = TRUE /\ pc' = "loop" /\ request' = None
        /\ UNCHANGED <<up, fullSeen, crashes>>
    BY DEF Capture
  <1>3. decoded' \in BOOLEAN
    BY <1>2
  <1>4. TypeOK'
    BY <1>1, <1>2, <1>3 DEF Shape, TypeOK
  <1>5. RequestOK'
    BY <1>2 DEF RequestOK
  <1>6. CursorOK'
    BY <1>1 DEF Shape, CursorOK, Base
  <1>7. ResponseOK'
    BY <1>1 DEF ResponseOK, Untouched
  <1> QED BY <1>4, <1>5, <1>6, <1>7 DEF Shape

(* The input is dropped and its completion published. *)
LEMMA CompleteIs ==
    ASSUME Shape, Complete
    PROVE  /\ UNCHANGED <<log, cursor, baseline, known, start, excused>>
           /\ input # None /\ input.phase = "prepared" /\ input' = None /\ cursor = input.upto
           /\ stream' = stream \o <<CompleteRecord(input)>> /\ <<CompleteRecord(input)>> \in Seq(Record)
           /\ CompleteRecord(input).kind = IF input.full THEN "complete_full" ELSE "complete"
           /\ Joins(stream', stream, <<CompleteRecord(input)>>)
  <1>1. input # None /\ input.phase = "prepared" /\ input' = None
        /\ stream' = Append(stream, CompleteRecord(input))
    BY DEF Complete
  <1>2. Given
    BY <1>1 DEF Given, Shape
  <1>3. PICK e : e = CompleteRecord(input)
    OBVIOUS
  <1>4. e \in Record
    <2>1. Base(input.since) \in Positions /\ input.upto \in Positions
      BY <1>2, GivenFacts DEF Retained
    <2> QED BY <1>3, <2>1 DEF CompleteRecord, Record, Provenances
  <1>5. e.kind = IF input.full THEN "complete_full" ELSE "complete"
    BY <1>3 DEF CompleteRecord
  <1>6. stream \in Seq(Record) /\ <<e>> \in Seq(Record)
    BY <1>4 DEF Shape, TypeOK
  <1>7. stream' = stream \o <<e>>
    BY <1>1, <1>3, <1>6, AppendIsConcat
  <1>8. Joins(stream \o <<e>>, stream, <<e>>)
    BY <1>6, Joined
  <1>9. cursor = input.upto
    BY <1>1, <1>2 DEF Given, ResponseOK
  <1> QED BY <1>1, <1>3, <1>5, <1>6, <1>7, <1>8, <1>9 DEF Complete, history

LEMMA CompleteShape ==
    ASSUME Shape, Complete
    PROVE  Shape'
  <1>1. UNCHANGED <<log, cursor, baseline, known, start, excused>> /\ input' = None
        /\ Joins(stream', stream, <<CompleteRecord(input)>>)
    BY CompleteIs
  <1>2. stream' \in Seq(Record) /\ Len(stream) \in Nat /\ Len(stream) <= Len(stream')
    BY <1>1 DEF Joins
  <1>3. pc = "loop" /\ decoded' = FALSE /\ UNCHANGED <<acked, up, pc, request, fullSeen, crashes>>
    BY DEF Complete
  <1>4. decoded' \in BOOLEAN
    BY <1>3
  <1>5. acked' \in 0..Len(stream')
    <2>1. acked \in 0..Len(stream) /\ Len(stream') \in Nat
      BY <1>2 DEF Shape, TypeOK
    <2> QED BY <1>2, <1>3, <2>1
  <1>6. TypeOK'
    BY <1>1, <1>2, <1>3, <1>4, <1>5 DEF Shape, TypeOK
  <1>7. RequestOK' /\ ResponseOK'
    BY <1>1, <1>3 DEF RequestOK, ResponseOK
  <1>8. CursorOK'
    BY <1>1 DEF Shape, CursorOK, Base
  <1> QED BY <1>6, <1>7, <1>8 DEF Shape

-----------------------------------------------------------------------------
(* What a page commits *)
Stops(S) == S \cap Big # {}
Cut(S) == Smallest(S \cap Big)
Whole(S) == IF Stops(S) THEN {p \in S : p < Cut(S)} ELSE S

(* in is the input, up to what a page adds to its continuation *)
PageInput(in) ==
    /\ in \in Retained
    /\ in.since = input.since /\ in.upto = input.upto /\ in.full = input.full
    /\ in.unknown = input.unknown /\ in.prologue = input.prologue
    /\ in.noBoundary = input.noBoundary /\ in.phase = input.phase
    /\ in.index = input.index /\ in.history = input.history
    /\ \A r \in Rooms \ {Room} : in.applied[r] = input.applied[r]

(* The records: the events, then the loss *)
PageStream(S, lost) ==
    \E m, e, l, v :
        /\ Joins(m, stream, e) /\ Joins(stream', m, l)
        /\ Carries(e, Room, Whole(S), v) /\ (Room \in input.history => v = "history")
        /\ Reports(l, IF lost THEN {Room} ELSE {}, Base(input.since), input.upto)

(* The continuation *)
PageNext(in, S, end, done, lost) ==
    /\ input' \in Retained /\ SameInput /\ input'.unknown = input.unknown
    /\ input'.prologue = input.prologue /\ input'.noBoundary = input.noBoundary
    /\ input'.history = IF lost THEN input.history \cup {Room} ELSE input.history
    /\ \A r \in Rooms \ {Room} : input'.applied[r] = input.applied[r]
    /\ input'.applied[Room] = IF Stops(S) THEN in.applied[Room] \ {p \in S : p > Cut(S)}
                              ELSE in.applied[Room]
    /\ done \/ Stops(S) =>
          /\ input'.index = input.index + 1 /\ input'.from = Base(input.since)
          /\ input'.seen = {Base(input.since)}
          /\ input'.phase = IF input.index + 1 > Len(Candidates) THEN "tail" ELSE "recover"
    /\ ~(done \/ Stops(S)) =>
          /\ input'.index = input.index /\ input'.from = end /\ input'.seen = in.seen
          /\ input'.phase = input.phase /\ input'.pages = in.pages

PageDurable(S, lost, excuse) ==
    /\ baseline' = IF lost THEN baseline \ {Room} ELSE baseline
    /\ known' = IF lost THEN known \cup {Room} ELSE known
    /\ excused' = IF excuse \/ Stops(S) THEN excused \cup {<<Room, input.upto>>} ELSE excused
    /\ cursor' = cursor /\ acked' = acked /\ start' = start

LEMMA RoomIs ==
    ASSUME Given, input.phase = "recover"
    PROVE  /\ Room \in Rooms /\ Listed(Room) /\ Limited(Room) /\ Room = Candidates[input.index]
           /\ input.index \in 1..Len(Candidates) /\ Len(Candidates) \in Nat
           /\ Len(Candidates) <= Len(RoomOrder)
  <1>1. input.index \in 1..Len(Candidates)
    BY DEF Given, ResponseOK
  <1>2. Len(RoomOrder) \in Nat
    BY RoomsAre
  <1>3. Len(Candidates) \in 0..Len(RoomOrder)
    BY CandidatesAre
  <1>4. /\ Candidates[input.index] \in Rooms /\ Listed(Candidates[input.index])
        /\ Limited(Candidates[input.index])
    BY <1>1, CandidatesAre
  <1> QED BY <1>1, <1>2, <1>3, <1>4 DEF Room

LEMMA AtRoomIs ==
    ASSUME Given, NEW in \in Retained, NEW i \in 1..(Len(Candidates) + 1)
    PROVE  /\ AtRoom(in, i) \in Retained
           /\ AtRoom(in, i).since = in.since /\ AtRoom(in, i).upto = in.upto
           /\ AtRoom(in, i).full = in.full /\ AtRoom(in, i).unknown = in.unknown
           /\ AtRoom(in, i).prologue = in.prologue /\ AtRoom(in, i).noBoundary = in.noBoundary
           /\ AtRoom(in, i).history = in.history /\ AtRoom(in, i).applied = in.applied
           /\ AtRoom(in, i).index = i /\ AtRoom(in, i).from = Base(in.since)
           /\ AtRoom(in, i).seen = {Base(in.since)}
           /\ AtRoom(in, i).phase = IF i > Len(Candidates) THEN "tail" ELSE "recover"
  <1> USE RecoveryAssumption
  <1>1. i \in 0..(Len(RoomOrder) + 1)
    <2>1. Len(RoomOrder) \in Nat /\ Len(Candidates) \in 0..Len(RoomOrder)
      BY RoomsAre, CandidatesAre
    <2> QED BY <2>1
  <1>2. Base(in.since) \in Positions
    <2>1. in.since \in Positions \cup {None} /\ MaxLog \in Nat
      BY DEF Retained
    <2> QED BY <2>1 DEF Base, Positions
  <1>3. 0 \in 0..MaxPages /\ PageSize \in 0..PageSize
    OBVIOUS
  <1>4. PICK ph : ph = IF i > Len(Candidates) THEN "tail" ELSE "recover"
    OBVIOUS
  <1>5. ph \in {"new", "recover", "tail", "prepared"}
    BY <1>4
  <1>6. PICK b : b = Base(in.since)
    OBVIOUS
  <1>7. AtRoom(in, i) = [in EXCEPT !.index = i, !.from = b, !.pages = 0, !.seen = {b},
                                   !.limit = PageSize, !.phase = ph]
    BY <1>4, <1>6 DEF AtRoom
  <1>8. AtRoom(in, i) \in Retained
    <2> HIDE RecoveryAssumption
    <2>1. b \in Positions /\ {b} \in SUBSET Positions
      BY <1>2, <1>6
    <2> QED BY <1>1, <1>3, <1>5, <1>7, <2>1, ZenonT(40) DEF Retained
  <1> QED BY <1>4, <1>6, <1>7, <1>8 DEF Retained

LEMMA PageStreams ==
    ASSUME Given, input.phase = "recover", NEW in, PageInput(in), NEW S \in SUBSET (1..MaxLog),
           NEW end, NEW done, NEW loss, NEW excuse, CommitPage(in, S, end, done, loss, excuse)
    PROVE  PageStream(S, loss \/ Stops(S))
  <1>1. Room \in Rooms
    BY RoomIs
  <1>2. PICK v : v = IF Room \in in.history THEN "history" ELSE "recovered"
    OBVIOUS
  <1>3. v \in Provenances /\ (Room \in input.history => v = "history")
    BY <1>2 DEF PageInput, Provenances
  <1>4. Whole(S) \in SUBSET (1..MaxLog)
    BY DEF Whole
  <1>5. PICK e : e = EventRecords(Room, Whole(S), v)
    OBVIOUS
  <1>6. e \in Seq(Record) /\ Carries(e, Room, Whole(S), v)
    BY <1>1, <1>3, <1>4, <1>5, EventRecordsAre
  <1>7. PICK l : l = IF loss \/ Stops(S) THEN <<LossRecord(Room, in)>> ELSE <<>>
    OBVIOUS
  <1>8. stream' = stream \o e \o l
    BY <1>2, <1>5, <1>7 DEF CommitPage, Stops, Cut, Whole
  <1>9. Base(in.since) = Base(input.since) /\ in.upto = input.upto
    BY DEF PageInput
  <1>10. Reports(l, IF loss \/ Stops(S) THEN {Room} ELSE {}, Base(input.since), input.upto)
    <2>1. CASE ~(loss \/ Stops(S))
      BY <1>7, <2>1 DEF Reports
    <2>2. CASE loss \/ Stops(S)
      <3>1. PICK x : x = LossRecord(Room, in)
        OBVIOUS
      <3>2. Base(input.since) \in Positions /\ input.upto \in Positions
        BY GivenFacts DEF Retained
      <3>3. x \in Record /\ x.kind = "loss" /\ x.room = Room
            /\ x.from = Base(input.since) /\ x.upto = input.upto
        BY <1>1, <1>9, <3>1, <3>2, LossRecordIs
      <3>4. l = <<x>> /\ Len(l) = 1 /\ l[1] = x /\ l \in Seq(Record)
        BY <1>7, <2>2, <3>1, <3>3
      <3> QED BY <2>2, <3>3, <3>4 DEF Reports
    <2> QED BY <2>1, <2>2
  <1>11. stream \in Seq(Record) /\ l \in Seq(Record)
    BY <1>10 DEF Given, TypeOK, Reports
  <1>12. PICK m : m = stream \o e
    OBVIOUS
  <1>13. Joins(m, stream, e)
    BY <1>6, <1>11, <1>12, Joined
  <1>14. m \in Seq(Record)
    BY <1>13 DEF Joins
  <1>15. Joins(stream', m, l)
    BY <1>8, <1>11, <1>12, <1>14, Joined
  <1> QED BY <1>3, <1>6, <1>10, <1>13, <1>15 DEF PageStream

LEMMA PageContinues ==
    ASSUME Given, input.phase = "recover", NEW in, PageInput(in), NEW S \in SUBSET (1..MaxLog),
           NEW end, NEW done, NEW loss, NEW excuse, CommitPage(in, S, end, done, loss, excuse),
           done \/ end \in Positions
    PROVE  /\ PageNext(in, S, end, done, loss \/ Stops(S))
           /\ PageDurable(S, loss \/ Stops(S), excuse)
  <1>1. Room \in Rooms /\ input.index \in 1..Len(Candidates) /\ Len(Candidates) \in Nat
    BY RoomIs
  <1>2. PICK h : h = IF loss \/ Stops(S) THEN input.history \cup {Room} ELSE input.history
    OBVIOUS
  <1>3. PICK a : a = IF Stops(S) THEN in.applied[Room] \ {p \in S : p > Cut(S)} ELSE in.applied[Room]
    OBVIOUS
  <1>4. in \in Retained /\ in.applied \in [Rooms -> SUBSET Positions] /\ in.history = input.history
        /\ in.history \in SUBSET Rooms
    BY DEF PageInput, Retained
  <1>5. h \in SUBSET Rooms /\ a \in SUBSET Positions
    BY <1>1, <1>2, <1>3, <1>4
  <1>6. PICK next : next = [in EXCEPT !.applied[Room] = a, !.history = h]
    OBVIOUS
  <1>7. next = [in EXCEPT !.applied = [in.applied EXCEPT ![Room] = a], !.history = h]
    BY <1>4, <1>6 DEF Retained
  <1>8. [in.applied EXCEPT ![Room] = a] \in [Rooms -> SUBSET Positions]
    BY <1>4, <1>5
  <1>9. /\ next \in Retained
        /\ next.since = in.since /\ next.upto = in.upto /\ next.full = in.full
        /\ next.unknown = in.unknown /\ next.prologue = in.prologue
        /\ next.noBoundary = in.noBoundary /\ next.phase = in.phase /\ next.index = in.index
        /\ next.seen = in.seen /\ next.pages = in.pages
        /\ next.history = h /\ next.applied = [in.applied EXCEPT ![Room] = a]
    BY <1>4, <1>5, <1>7, <1>8 DEF Retained
  <1>10. input' = IF done \/ Stops(S) THEN AtRoom(next, next.index + 1) ELSE [next EXCEPT !.from = end]
    <2>1. next = [in EXCEPT
                   !.applied[Room] = IF Stops(S) THEN @ \ {p \in S : p > Cut(S)} ELSE @,
                   !.history = IF loss \/ Stops(S) THEN Fence(in) ELSE @]
      BY <1>2, <1>3, <1>4, <1>6 DEF Fence
    <2> QED BY <2>1 DEF CommitPage, Stops, Cut
  <1>11. /\ next.applied[Room] = a /\ \A r \in Rooms \ {Room} : next.applied[r] = input.applied[r]
    BY <1>1, <1>4, <1>9 DEF PageInput
  <1>12. PageDurable(S, loss \/ Stops(S), excuse)
    BY DEF PageDurable, PageInput, CommitPage, Stops
  <1>13. CASE done \/ Stops(S)
    <2>1. PICK i : i = input.index + 1
      OBVIOUS
    <2>2. i \in 1..(Len(Candidates) + 1) /\ next.index + 1 = i
      BY <1>1, <1>9, <2>1 DEF PageInput
    <2>3. input' = AtRoom(next, i)
      BY <1>10, <1>13, <2>2
    <2>4. /\ input' \in Retained
          /\ input'.since = next.since /\ input'.upto = next.upto
          /\ input'.full = next.full /\ input'.unknown = next.unknown
          /\ input'.prologue = next.prologue /\ input'.noBoundary = next.noBoundary
          /\ input'.history = next.history /\ input'.applied = next.applied
          /\ input'.index = i /\ input'.from = Base(next.since)
          /\ input'.seen = {Base(next.since)}
          /\ input'.phase = IF i > Len(Candidates) THEN "tail" ELSE "recover"
      BY <1>9, <2>2, <2>3, AtRoomIs
    <2>5. next.since = input.since
      BY <1>9 DEF PageInput
    <2>6. input'.from = Base(input.since) /\ input'.seen = {Base(input.since)}
      BY <2>4, <2>5
    <2>7. /\ input'.since = input.since /\ input'.upto = input.upto /\ input'.full = input.full
          /\ input'.unknown = input.unknown /\ input'.prologue = input.prologue
          /\ input'.noBoundary = input.noBoundary
      BY <1>9, <2>4 DEF PageInput
    <2>8. /\ input'.history = h /\ input'.applied[Room] = a
          /\ \A r \in Rooms \ {Room} : input'.applied[r] = input.applied[r]
      BY <1>9, <1>11, <2>4
    <2>9. PageNext(in, S, end, done, loss \/ Stops(S))
      BY <1>2, <1>3, <1>13, <2>1, <2>4, <2>6, <2>7, <2>8 DEF PageNext, SameInput
    <2> QED BY <1>12, <2>9
  <1>14. CASE ~(done \/ Stops(S))
    <2>1. end \in Positions /\ input' = [next EXCEPT !.from = end]
      BY <1>10, <1>14
    <2>2. /\ input' \in Retained
          /\ input'.since = next.since /\ input'.upto = next.upto
          /\ input'.full = next.full /\ input'.unknown = next.unknown
          /\ input'.prologue = next.prologue /\ input'.noBoundary = next.noBoundary
          /\ input'.history = next.history /\ input'.applied = next.applied
          /\ input'.index = next.index /\ input'.from = end
          /\ input'.seen = next.seen /\ input'.phase = next.phase /\ input'.pages = next.pages
      BY <1>9, <2>1 DEF Retained
    <2>3. PageNext(in, S, end, done, loss \/ Stops(S))
      BY <1>2, <1>3, <1>9, <1>11, <1>14, <2>2 DEF PageNext, SameInput, PageInput
    <2> QED BY <1>12, <2>3
  <1> QED BY <1>13, <1>14

(* What the steps of a walk have in common: the position they reach, ...   *)
PageReach(in, end, done) ==
    ~done => /\ end \in Positions /\ input.from <= end /\ end <= Len(log)
             /\ \A x \in in.seen : x <= end

(* ... that nothing of the room is skipped, ...                            *)
PageGap(in, S, end, done, loss) ==
    /\ in.applied[Room] = input.applied[Room] \cup S
    /\ \A p \in S : log[p] = Room /\ Base(input.since) < p
    /\ done /\ ~loss =>
          \A p \in Interval(Room) \ TailOf(Room) :
              Room \in input.unknown \/ p <= input.from \/ p \in in.applied[Room]
    /\ ~done => \A p \in Events(Room, Base(input.since), end) :
                    p <= input.from \/ p \in in.applied[Room]

(* ... and that it is short of the tail and has a reason to give up.       *)
PageOrder(S, end, done, loss, excuse) ==
    TailLimit > 0 /\ input.from <= PrevBatch(Room) =>
        /\ \A p \in S : input.from < p /\ p <= PrevBatch(Room)
        /\ ~done => end <= PrevBatch(Room) /\ \A p \in S : p <= end
        /\ loss => excuse

PageStep ==
    \E in, S, end, done, loss, excuse :
        /\ PageInput(in) /\ S \in SUBSET (1..MaxLog)
        /\ done \in BOOLEAN /\ loss \in BOOLEAN /\ excuse \in BOOLEAN
        /\ CommitPage(in, S, end, done, loss, excuse)
        /\ PageReach(in, end, done) /\ PageGap(in, S, end, done, loss)
        /\ PageOrder(S, end, done, loss, excuse)

(* Without a page: the room is settled, or given up. *)
LEMMA NoPageStep ==
    ASSUME Given, input.phase = "recover", NEW loss \in BOOLEAN,
           CommitPage(input, {}, None, TRUE, loss, loss),
           ~loss => Room \in input.unknown \/ input.from = PrevBatch(Room)
    PROVE  PageStep
  <1>1. Room \in Rooms /\ input \in Retained
    BY RoomIs, GivenFacts
  <1>2. PageInput(input)
    BY <1>1 DEF PageInput
  <1>3. PageReach(input, None, TRUE)
    BY DEF PageReach
  <1>4. PageOrder({}, None, TRUE, loss, loss)
    BY DEF PageOrder
  <1>5. PageGap(input, {}, None, TRUE, loss)
    <2>1. input.applied[Room] = input.applied[Room] \cup {}
      OBVIOUS
    <2>2. ASSUME ~loss, NEW p \in Interval(Room) \ TailOf(Room)
          PROVE  Room \in input.unknown \/ p <= input.from
      <3>1. PrevBatch(Room) \in Nat /\ p \in Nat /\ ~(PrevBatch(Room) < p)
        BY PrevBatchIs, IntervalIs
      <3> QED BY <2>2, <3>1
    <2> QED BY <2>1, <2>2 DEF PageGap
  <1>6. {} \in SUBSET (1..MaxLog) /\ TRUE \in BOOLEAN
    OBVIOUS
  <1> QED BY <1>2, <1>3, <1>4, <1>5, <1>6 DEF PageStep

LEMMA PageArrivesStep ==
    ASSUME Shape, PageArrives
    PROVE  PageStep
  <1> USE RecoveryAssumption
  <1>1. input # None /\ input.phase = "recover" /\ pc = "page"
    BY DEF PageArrives, Walking
  <1>2. Given /\ input.pages < MaxPages
    BY <1>1 DEF Given, Shape, RequestOK
  <1>3. PICK last \in input.from..Len(log), absent \in BOOLEAN :
        LET chunk == Events(Room, input.from, last)
            overlap == chunk \cap TailOf(Room)
            end == IF absent THEN None ELSE last
            fresh == Fresh(chunk, overlap)
            done == Arrived(end, overlap)
            stuck == ~done /\ (end = None \/ end \in input.seen)
            in == [input EXCEPT
                     !.pages = @ + 1,
                     !.applied[Room] = @ \cup fresh,
                     !.seen = IF ~done /\ ~stuck THEN @ \cup {end} ELSE @]
        IN /\ absent => Events(Room, last, Len(log)) = {}
           /\ CommitPage(in, fresh, end, done \/ stuck, stuck, last = input.from)
    BY ZenonT(40) DEF PageArrives
  <1>4. PICK chunk : chunk = Events(Room, input.from, last)
    OBVIOUS
  <1>5. PICK overlap : overlap = chunk \cap TailOf(Room)
    OBVIOUS
  <1>6. PICK end : end = IF absent THEN None ELSE last
    OBVIOUS
  <1>7. PICK fresh : fresh = {p \in chunk \ input.applied[Room] : \A q \in overlap : p < q}
    OBVIOUS
  <1>8. PICK done \in BOOLEAN : done = (end = PrevBatch(Room) \/ overlap # {})
    OBVIOUS
  <1>9. PICK stuck \in BOOLEAN : stuck = (~done /\ (end = None \/ end \in input.seen))
    OBVIOUS
  <1>10. PICK sn : sn = IF ~done /\ ~stuck THEN input.seen \cup {end} ELSE input.seen
    OBVIOUS
  <1>11. PICK in : in = [input EXCEPT !.pages = @ + 1, !.applied[Room] = @ \cup fresh, !.seen = sn]
    OBVIOUS
  <1>12. /\ absent => Events(Room, last, Len(log)) = {}
         /\ CommitPage(in, fresh, end, done \/ stuck, stuck, last = input.from)
    BY <1>3, <1>4, <1>5, <1>6, <1>7, <1>8, <1>9, <1>10, <1>11 DEF Fresh, Arrived
  <1>13. /\ input \in Retained /\ Base(input.since) \in Nat /\ input.upto \in Nat
         /\ Base(input.since) <= input.upto /\ input.upto <= Len(log)
         /\ Len(log) \in Nat /\ Len(log) <= MaxLog /\ MaxLog \in Nat
    BY <1>2, GivenFacts
  <1>14. /\ Base(input.since) <= input.from /\ input.from <= Len(log)
         /\ \A x \in input.seen : x <= input.from
    BY <1>1, <1>2 DEF Given, ResponseOK
  <1>15. /\ input.from \in Nat /\ input.seen \in SUBSET Positions /\ input.pages \in 0..MaxPages
         /\ input.applied \in [Rooms -> SUBSET Positions]
    BY <1>13, SMTT(30) DEF Retained, Positions
  <1>16. last \in Nat /\ input.from <= last /\ last <= Len(log) /\ last \in Positions /\ last <= MaxLog
    BY <1>3, <1>13, <1>15 DEF Positions
  <1>17. /\ Room \in Rooms /\ Listed(Room) /\ Limited(Room)
    BY <1>1, <1>2, RoomIs
  <1>18. /\ chunk \in SUBSET (1..MaxLog)
         /\ \A p : p \in chunk <=> p \in Nat /\ input.from < p /\ p <= last /\ log[p] = Room
    BY <1>4, <1>15, <1>16, EventsAre
  <1>19. /\ PrevBatch(Room) \in Nat /\ PrevBatch(Room) <= input.upto
         /\ \A p \in Interval(Room) : p \in TailOf(Room) <=> PrevBatch(Room) < p
         /\ TailOf(Room) # {} => PrevBatch(Room) + 1 \in TailOf(Room)
    BY <1>2, PrevBatchIs
  <1>20. /\ \A p : p \in Interval(Room) <=>
                p \in Nat /\ Base(input.since) < p /\ p <= input.upto /\ log[p] = Room
         /\ TailOf(Room) \in SUBSET Interval(Room)
    BY <1>2, IntervalIs, TailIs
  <1>21. fresh \in SUBSET (1..MaxLog) /\ fresh \in SUBSET Positions
    BY <1>7, <1>13, <1>18 DEF Positions
  <1>22. ~done /\ ~stuck => end = last
    BY <1>6, <1>9
  <1>23. sn \in SUBSET Positions
    BY <1>10, <1>15, <1>16, <1>22
  <1>24. /\ in \in Retained /\ in.applied[Room] = input.applied[Room] \cup fresh /\ in.seen = sn
         /\ \A r \in Rooms \ {Room} : in.applied[r] = input.applied[r]
         /\ in.since = input.since /\ in.upto = input.upto /\ in.full = input.full
         /\ in.unknown = input.unknown /\ in.prologue = input.prologue
         /\ in.noBoundary = input.noBoundary /\ in.phase = input.phase
         /\ in.index = input.index /\ in.history = input.history
    <2> HIDE RecoveryAssumption
    <2>1. PICK pg : pg = input.pages + 1
      OBVIOUS
    <2>2. pg \in 0..MaxPages
      BY <1>2, <1>15, <2>1, RecoveryAssumption
    <2>3. PICK ap : ap = [input.applied EXCEPT ![Room] = @ \cup fresh]
      OBVIOUS
    <2>4. /\ ap \in [Rooms -> SUBSET Positions] /\ ap[Room] = input.applied[Room] \cup fresh
          /\ \A r \in Rooms \ {Room} : ap[r] = input.applied[r]
      BY <1>15, <1>17, <1>21, <2>3
    <2>5. in = [input EXCEPT !.pages = pg, !.applied = ap, !.seen = sn]
      BY <1>11, <1>13, <2>1, <2>3 DEF Retained
    <2> QED BY <1>13, <1>23, <2>2, <2>4, <2>5 DEF Retained
  <1>25. PageInput(in)
    BY <1>24 DEF PageInput
  <1>26. PageReach(in, end, done \/ stuck)
    <2> SUFFICES ASSUME ~(done \/ stuck)
                 PROVE  /\ end \in Positions /\ input.from <= end /\ end <= Len(log)
                        /\ \A x \in in.seen : x <= end
      BY DEF PageReach
    <2>1. end = last /\ sn = input.seen \cup {end}
      BY <1>10, <1>22
    <2>2. ASSUME NEW x \in sn PROVE x <= end
      <3>1. CASE x \in input.seen
        <4>1. x \in Nat /\ x <= input.from
          BY <1>13, <1>14, <1>15, <3>1 DEF Positions
        <4> QED BY <1>15, <1>16, <2>1, <4>1
      <3>2. CASE x = end
        BY <1>16, <2>1, <3>2
      <3> QED BY <2>1, <2>2, <3>1, <3>2
    <2> QED BY <1>16, <1>24, <2>1, <2>2
  <1>27. PageGap(in, fresh, end, done \/ stuck, stuck)
    <2>1. ASSUME done, NEW p \in Interval(Room) \ TailOf(Room)
          PROVE  p <= input.from \/ p \in in.applied[Room]
      <3> SUFFICES ASSUME ~(p <= input.from), p \notin input.applied[Room] PROVE p \in fresh
        BY <1>24
      <3>1. p \in Nat /\ p <= PrevBatch(Room) /\ log[p] = Room /\ input.from < p
        BY <1>15, <1>19, <1>20, <2>1
      <3>2. \A q \in overlap : q \in Nat /\ PrevBatch(Room) < q /\ q <= last
        BY <1>5, <1>18, <1>19, <1>20
      <3>3. p <= last
        <4>1. CASE end = PrevBatch(Room)
          <5>1. end # None
            BY <1>13, <1>19, <4>1 DEF Positions
          <5> QED BY <1>6, <3>1, <4>1, <5>1
        <4>2. CASE overlap # {}
          <5>1. PICK q \in overlap : TRUE
            BY <4>2
          <5>2. q \in Nat /\ PrevBatch(Room) < q /\ q <= last
            BY <3>2, <5>1
          <5> QED BY <1>16, <1>19, <3>1, <5>2
        <4> QED BY <1>8, <2>1, <4>1, <4>2
      <3>4. p \in chunk
        BY <1>18, <3>1, <3>3
      <3>5. \A q \in overlap : p < q
        BY <1>19, <3>1, <3>2
      <3> QED BY <1>7, <3>4, <3>5
    <2>2. ASSUME ~(done \/ stuck), NEW p \in Events(Room, Base(input.since), end)
          PROVE  p <= input.from \/ p \in in.applied[Room]
      <3> SUFFICES ASSUME ~(p <= input.from), p \notin input.applied[Room] PROVE p \in fresh
        BY <1>24
      <3>1. end = last /\ overlap = {}
        BY <1>8, <1>22, <2>2
      <3>2. p \in Nat /\ p <= last /\ log[p] = Room
        BY <1>13, <1>16, <2>2, <3>1, EventsAre
      <3>3. p \in chunk
        BY <1>15, <1>18, <3>2
      <3> QED BY <1>7, <3>1, <3>3
    <2>3. (done \/ stuck) /\ ~stuck => done
      OBVIOUS
    <2>4. ASSUME NEW p \in fresh PROVE log[p] = Room /\ Base(input.since) < p
      <3>1. p \in Nat /\ input.from < p /\ log[p] = Room
        BY <1>7, <1>18
      <3> QED BY <1>13, <1>14, <1>15, <3>1
    <2> QED BY <1>24, <2>1, <2>2, <2>3, <2>4 DEF PageGap
  <1>28. PageOrder(fresh, end, done \/ stuck, stuck, last = input.from)
    <2> SUFFICES ASSUME TailLimit > 0, input.from <= PrevBatch(Room)
                 PROVE  /\ \A p \in fresh : input.from < p /\ p <= PrevBatch(Room)
                        /\ ~(done \/ stuck) =>
                              end <= PrevBatch(Room) /\ \A p \in fresh : p <= end
                        /\ stuck => last = input.from
      BY DEF PageOrder
    <2>1. PICK b \in Nat : b = PrevBatch(Room) + 1
      BY <1>19
    <2>2. b \in TailOf(Room) /\ log[b] = Room /\ b <= input.upto
      <3>1. TailOf(Room) \in SUBSET Interval(Room) /\ TailOf(Room) # Interval(Room)
        BY <1>17, <1>20 DEF Limited
      <3>2. Interval(Room) # {}
        BY <3>1
      <3>3. TailOf(Room) # {}
        BY <1>2, <3>2, TailIs
      <3> QED BY <1>19, <1>20, <2>1, <3>3
    <2>3. b <= last => b \in overlap
      BY <1>5, <1>15, <1>18, <1>19, <2>1, <2>2
    <2>4. ASSUME NEW p \in fresh PROVE input.from < p /\ p <= PrevBatch(Room)
      <3>1. p \in Nat /\ input.from < p /\ p <= last /\ \A q \in overlap : p < q
        BY <1>7, <1>18
      <3>2. CASE b <= last
        <4>1. p < b
          BY <2>3, <3>1, <3>2
        <4> QED BY <1>19, <2>1, <3>1, <4>1
      <3>3. CASE ~(b <= last)
        BY <1>16, <1>19, <2>1, <3>1, <3>3
      <3> QED BY <3>2, <3>3
    <2>5. ~done => last <= PrevBatch(Room)
      <3>1. ~done => overlap = {}
        BY <1>8
      <3> QED BY <1>16, <1>19, <2>1, <2>3, <3>1
    <2>6. ASSUME stuck PROVE last = input.from
      <3>1. ~done /\ (end = None \/ end \in input.seen)
        BY <1>9, <2>6
      <3>2. last < b
        BY <1>16, <1>19, <2>1, <2>5, <3>1
      <3>3. ~absent
        <4> SUFFICES ASSUME absent PROVE FALSE
          OBVIOUS
        <4>1. Events(Room, last, Len(log)) = {}
          BY <1>12
        <4>2. b \in Events(Room, last, Len(log))
          BY <1>13, <1>16, <2>2, <3>2, EventsAre
        <4> QED BY <4>1, <4>2
      <3>4. end = last /\ last \in input.seen
        <4>1. end = last /\ last # None
          BY <1>6, <1>16, <3>3
        <4> QED BY <3>1, <4>1
      <3>5. last <= input.from
        BY <1>14, <3>4
      <3> QED BY <1>15, <1>16, <3>5
    <2>7. \A p \in fresh : p <= last
      BY <1>7, <1>18
    <2> QED BY <1>22, <2>4, <2>5, <2>6, <2>7
  <1>29. (done \/ stuck) \in BOOLEAN /\ (last = input.from) \in BOOLEAN
    OBVIOUS
  <1> QED BY <1>12, <1>21, <1>25, <1>26, <1>27, <1>28, <1>29 DEF PageStep

(* The steps of a walk *)
Walks ==
    /\ Given /\ input.phase = "recover" /\ log' = log /\ pc' = "loop"
    /\ UNCHANGED <<up, request, decoded, fullSeen, crashes>>

Narrows ==
    /\ input.limit > 1 /\ input' = [input EXCEPT !.limit = Narrowed(@)]
    /\ UNCHANGED <<log, cursor, baseline, known, stream, acked, start, excused>>

LEMMA WalkSteps ==
    ASSUME Shape, SkipRoom \/ PageTooLarge \/ PageFails \/ PageArrives
    PROVE  Walks /\ (PageStep \/ Narrows)
  <1>1. /\ input # None /\ input.phase = "recover"
        /\ log' = log /\ pc' = "loop" /\ UNCHANGED <<up, request, decoded, fullSeen, crashes>>
    BY DEF SkipRoom, PageTooLarge, PageFails, PageArrives, Walking, volatile
  <1>2. Given
    BY <1>1 DEF Given, Shape
  <1>3. Walks
    BY <1>1, <1>2 DEF Walks
  <1>4. CASE SkipRoom
    <2>1. CASE CommitPage(input, {}, None, TRUE, TRUE, TRUE)
      BY <1>1, <1>2, <1>3, <2>1, NoPageStep
    <2>2. CASE /\ CommitPage(input, {}, None, TRUE, FALSE, FALSE)
               /\ Room \in input.unknown \/ input.from = PrevBatch(Room)
      BY <1>1, <1>2, <1>3, <2>2, NoPageStep
    <2>3. QED BY <1>3, <1>4, <2>1, <2>2 DEF SkipRoom
  <1>5. CASE PageFails
    <2>1. CommitPage(input, {}, None, TRUE, TRUE, TRUE)
      BY <1>5 DEF PageFails
    <2> QED BY <1>1, <1>2, <1>3, <2>1, NoPageStep
  <1>6. CASE PageTooLarge
    <2>1. CASE CommitPage(input, {}, None, TRUE, TRUE, TRUE)
      BY <1>1, <1>2, <1>3, <2>1, NoPageStep
    <2>2. CASE ~CommitPage(input, {}, None, TRUE, TRUE, TRUE)
      <3>1. Narrows
        BY <1>1, <1>6, <2>2 DEF PageTooLarge, Narrows, history
      <3> QED BY <1>3, <3>1
    <2> QED BY <2>1, <2>2
  <1>7. CASE PageArrives
    BY <1>3, <1>7, PageArrivesStep
  <1> QED BY <1>4, <1>5, <1>6, <1>7

LEMMA NarrowsIs ==
    ASSUME Given, Narrows
    PROVE  /\ input' \in Retained /\ input' # None /\ SameInput
           /\ input'.unknown = input.unknown /\ input'.prologue = input.prologue
           /\ input'.noBoundary = input.noBoundary /\ input'.phase = input.phase
           /\ input'.index = input.index /\ input'.history = input.history
           /\ input'.applied = input.applied /\ input'.from = input.from /\ input'.seen = input.seen
           /\ (\A r : KeptOf(r)) /\ Candidates' = Candidates /\ Room' = Room
  <1>1. input \in Retained /\ Len(log) \in Nat
    BY GivenFacts
  <1>2. PICK n : n = Narrowed(input.limit)
    OBVIOUS
  <1>3. n \in 0..PageSize
    <2>1. input.limit \in 0..PageSize /\ PageSize \in Nat
      BY <1>1, RecoveryAssumption DEF Retained
    <2> QED BY <1>2, <2>1 DEF Narrowed
  <1>4. input' = [input EXCEPT !.limit = n]
    BY <1>1, <1>2 DEF Narrows, Retained
  <1>5. /\ input' \in Retained /\ SameInput
        /\ input'.unknown = input.unknown /\ input'.prologue = input.prologue
        /\ input'.noBoundary = input.noBoundary /\ input'.phase = input.phase
        /\ input'.index = input.index /\ input'.history = input.history
        /\ input'.applied = input.applied /\ input'.from = input.from /\ input'.seen = input.seen
    BY <1>1, <1>3, <1>4 DEF Retained, SameInput
  <1>6. input' # None
    BY <1>5, RecoveryAssumption
  <1>7. Grows
    BY <1>1 DEF Narrows, Grows
  <1>8. (\A r : KeptOf(r)) /\ Candidates' = Candidates
    BY <1>5, <1>7, SameResponse
  <1>9. Room' = Room
    BY <1>5, <1>8 DEF Room
  <1> QED BY <1>5, <1>6, <1>8, <1>9

LEMMA PageKeeps ==
    ASSUME Walks, input' \in Retained, SameInput
    PROVE  /\ input' # None /\ Grows /\ (\A r : KeptOf(r)) /\ Candidates' = Candidates
           /\ input'.index = input.index => Room' = Room
  <1>1. Given /\ log' = log
    BY DEF Walks
  <1>2. input' # None
    BY RecoveryAssumption
  <1>3. Grows
    BY <1>1, GivenFacts DEF Grows
  <1>4. (\A r : KeptOf(r)) /\ Candidates' = Candidates
    BY <1>1, <1>3, SameResponse
  <1> QED BY <1>2, <1>3, <1>4 DEF Room

LEMMA WalkShape ==
    ASSUME Shape, Walks, PageStep \/ Narrows
    PROVE  Shape'
  <1>1. /\ Given /\ input.phase = "recover" /\ log' = log /\ pc' = "loop"
        /\ UNCHANGED <<up, request, decoded, fullSeen, crashes>>
    BY DEF Walks
  <1>2. RequestOK'
    BY <1>1 DEF RequestOK
  <1>3. CASE Narrows
    <2>1. input' \in Retained
      BY <1>1, <1>3, NarrowsIs
    <2>2. UNCHANGED <<log, cursor, baseline, known, stream, acked, start, excused>>
      BY <1>3 DEF Narrows
    <2>3. TypeOK'
      BY <1>1, <2>1, <2>2 DEF Shape, TypeOK
    <2>4. CursorOK'
      BY <2>2 DEF Shape, CursorOK, Base
    <2>5. ResponseOK'
      <3>1. /\ SameInput /\ input'.unknown = input.unknown /\ input'.prologue = input.prologue
            /\ input'.phase = input.phase /\ input'.index = input.index
            /\ input'.history = input.history /\ input'.from = input.from
            /\ input'.seen = input.seen /\ input'.applied = input.applied
            /\ Candidates' = Candidates
        BY <1>1, <1>3, NarrowsIs
      <3>2. input'.since = input.since /\ input'.upto = input.upto
        BY <3>1 DEF SameInput
      <3>3. ResponseOK /\ input # None
        BY <1>1 DEF Given
      <3> QED BY <1>1, <2>2, <3>1, <3>2, <3>3 DEF ResponseOK, Base
    <2> QED BY <1>2, <2>3, <2>4, <2>5 DEF Shape
  <1>4. CASE PageStep
    <2>1. PICK in, S, end, done, loss, excuse :
            /\ PageInput(in) /\ S \in SUBSET (1..MaxLog)
            /\ CommitPage(in, S, end, done, loss, excuse)
            /\ PageReach(in, end, done)
      BY <1>4, ZenonT(40) DEF PageStep
    <2>2. done \/ end \in Positions
      BY <2>1 DEF PageReach
    <2>3. /\ PageNext(in, S, end, done, loss \/ Stops(S))
          /\ PageDurable(S, loss \/ Stops(S), excuse) /\ PageStream(S, loss \/ Stops(S))
      BY <1>1, <2>1, <2>2, PageContinues, PageStreams
    <2>4. input' \in Retained /\ SameInput
      BY <2>3 DEF PageNext
    <2>5. input' # None /\ Candidates' = Candidates
      BY <2>4, PageKeeps
    <2>6. Room \in Rooms /\ input.index \in 1..Len(Candidates) /\ Len(Candidates) \in Nat
      BY <1>1, RoomIs
    <2>7. /\ input \in Retained /\ Base(input.since) \in Nat /\ Len(log) \in Nat
          /\ Base(input.since) <= input.upto /\ input.upto <= Len(log) /\ input.upto \in Positions
      BY <1>1, GivenFacts DEF Retained
    <2>8. TypeOK'
      <3>1. stream' \in Seq(Record) /\ acked' \in 0..Len(stream')
        <4>1. PICK m, e, l : Joins(m, stream, e) /\ Joins(stream', m, l)
          BY <2>3 DEF PageStream
        <4>2. stream' \in Seq(Record) /\ Len(stream) \in Nat /\ Len(stream') \in Nat
              /\ Len(stream) <= Len(stream')
          BY <4>1 DEF Joins
        <4>3. acked \in 0..Len(stream) /\ acked' = acked
          BY <2>3 DEF Shape, TypeOK, PageDurable
        <4> QED BY <4>2, <4>3
      <3>2. /\ baseline' \subseteq Rooms /\ known' \subseteq Rooms
            /\ excused' \subseteq Rooms \X Positions /\ cursor' = cursor /\ start' = start
        <4>1. baseline \subseteq Rooms /\ known \subseteq Rooms /\ excused \subseteq Rooms \X Positions
          BY DEF Shape, TypeOK
        <4>2. <<Room, input.upto>> \in Rooms \X Positions
          BY <2>6, <2>7
        <4> QED BY <2>3, <2>6, <4>1, <4>2 DEF PageDurable
      <3> QED BY <1>1, <2>4, <3>1, <3>2 DEF Shape, TypeOK
    <2>9. CursorOK'
      BY <1>1, <2>3 DEF Shape, CursorOK, Base, PageDurable
    <2>10. ResponseOK'
      <3>1. ResponseOK /\ input # None
        BY <1>1 DEF Given
      <3>2. /\ input'.since = input.since /\ input'.upto = input.upto
            /\ Base(input'.since) = Base(input.since) /\ cursor' = cursor
            /\ input'.unknown = input.unknown /\ input'.prologue = input.prologue
            /\ input.history \subseteq input'.history
        BY <2>3 DEF PageNext, SameInput, PageDurable
      <3>3. /\ cursor = input.since /\ input.since # None /\ input.prologue
            /\ input.unknown \subseteq input.history
        BY <1>1, <3>1 DEF ResponseOK
      <3>4. CASE done \/ Stops(S)
        <4>1. /\ input'.index = input.index + 1 /\ input'.from = Base(input.since)
              /\ input'.seen = {Base(input.since)}
              /\ input'.phase = IF input.index + 1 > Len(Candidates) THEN "tail" ELSE "recover"
          BY <2>3, <3>4 DEF PageNext
        <4>2. CASE input.index + 1 > Len(Candidates)
          <5>1. input'.phase = "tail" /\ input'.index = Len(Candidates') + 1
            BY <2>5, <2>6, <4>1, <4>2
          <5> QED BY <1>1, <2>7, <3>2, <3>3, <5>1 DEF ResponseOK
        <4>3. CASE ~(input.index + 1 > Len(Candidates))
          <5>1. input'.phase = "recover" /\ input'.index \in 1..Len(Candidates')
            BY <2>5, <2>6, <4>1, <4>3
          <5>2. /\ Base(input'.since) <= input'.from /\ input'.from <= Len(log')
                /\ \A x \in input'.seen : x <= input'.from
            BY <1>1, <2>7, <3>2, <4>1, GivenFacts
          <5> QED BY <1>1, <2>7, <3>2, <3>3, <5>1, <5>2 DEF ResponseOK
        <4> QED BY <4>2, <4>3
      <3>5. CASE ~(done \/ Stops(S))
        <4>1. /\ input'.index = input.index /\ input'.from = end /\ input'.seen = in.seen
              /\ input'.phase = "recover"
          BY <1>1, <2>3, <3>5 DEF PageNext
        <4>2. end \in Positions /\ input.from <= end /\ end <= Len(log) /\ \A x \in in.seen : x <= end
          BY <2>1, <3>5 DEF PageReach
        <4>3. Base(input.since) <= input.from /\ input.from \in Positions
          BY <1>1, <2>7, <3>1 DEF ResponseOK, Retained
        <4>4. Base(input.since) <= end
          BY <2>7, <4>2, <4>3, RecoveryAssumption DEF Positions
        <4>5. input'.index \in 1..Len(Candidates')
          BY <2>5, <2>6, <4>1
        <4> QED BY <1>1, <2>7, <3>2, <3>3, <4>1, <4>2, <4>4, <4>5 DEF ResponseOK
      <3> QED BY <3>4, <3>5
    <2> QED BY <1>2, <2>8, <2>9, <2>10 DEF Shape
  <1> QED BY <1>3, <1>4

-----------------------------------------------------------------------------
(* The first transaction of a response *)
Unknown == {r \in Rooms : Listed(r) /\ r \notin baseline}
Messages == Events(Device, Base(input.since), input.upto)

(* in is the input with its unknown rooms *)
Examined(in) ==
    /\ in \in Retained
    /\ in.since = input.since /\ in.upto = input.upto /\ in.full = input.full
    /\ in.prologue = input.prologue /\ in.noBoundary = input.noBoundary
    /\ in.phase = input.phase /\ in.applied = input.applied
    /\ in.history = Unknown /\ in.unknown = Unknown

LEMMA ExaminedIs ==
    ASSUME Given
    PROVE  Examined([input EXCEPT !.history = Unknown, !.unknown = Unknown])
  <1>1. input \in Retained /\ Unknown \in SUBSET Rooms
    BY GivenFacts DEF Unknown
  <1>2. PICK u : u = Unknown
    OBVIOUS
  <1> QED BY <1>1, <1>2 DEF Examined, Retained

LEMMA ToDeviceIs ==
    ASSUME Given, NEW in, in.since = input.since, in.upto = input.upto
    PROVE  ToDevice(in) \in Seq(Record) /\ Carries(ToDevice(in), Device, Messages, "none")
  <1>1. Messages \in SUBSET (1..MaxLog)
    BY GivenFacts, EventsAre DEF Messages
  <1>2. ToDevice(in) = EventRecords(Device, Messages, "none")
    BY DEF ToDevice, Messages
  <1>3. "none" \in Provenances /\ Device \in Rooms \cup {Device}
    BY DEF Provenances
  <1> QED BY <1>1, <1>2, <1>3, EventRecordsAre

(* History is missing: the to-device messages and the losses are committed *)
(* and the walk starts at the first candidate.                             *)
BeginStream ==
    \E m, e, l :
        /\ Joins(m, stream, e) /\ Carries(e, Device, Messages, "none")
        /\ Joins(stream', m, l) /\ Reports(l, Unknown, Base(input.since), input.upto)

Begins ==
    /\ Given /\ input.phase = "new" /\ input.since # None /\ Len(Candidates) >= 1
    /\ BeginStream
    /\ input' \in Retained /\ SameInput /\ input'.prologue
    /\ input'.history = Unknown /\ input'.unknown = Unknown
    /\ input'.applied = [r \in Rooms |-> {}] /\ input'.phase = "recover"
    /\ input'.index = 1 /\ input'.from = Base(input.since) /\ input'.seen = {Base(input.since)}
    /\ known' = known \cup Unknown
    /\ excused' = excused \cup {<<r, input.upto>> : r \in Unknown}
    /\ UNCHANGED <<log, cursor, baseline, start, acked, up, pc, request, decoded, fullSeen, crashes>>
    /\ pc = "loop"

(* The tail after the records of before *)
TailStream(in, R) ==
    \E m, n, b, d, t :
        /\ Joins(m, stream, b) /\ Reports(b, R, Base(input.since), input.upto)
        /\ Joins(n, m, d) /\ Carries(d, Device, IF input.prologue THEN {} ELSE Messages, "none")
        /\ Joins(stream', n, t) /\ TailCarried(t, in)

Ends(in, R) ==
    /\ in \in Retained /\ in.applied = input.applied /\ R \subseteq in.history
    /\ TailStream(in, R)
    /\ input' \in Retained /\ SameInput /\ input'.phase = "prepared"
    /\ cursor' = input.upto /\ log' = log
    /\ start' = IF input.since = None THEN input.upto ELSE start
    /\ known' = known \cup {r \in Rooms : Listed(r)}
    /\ baseline' = IF input.full \/ (input.since = None /\ ~Filtered)
                   THEN baseline \cup {r \in Rooms : Listed(r)} ELSE baseline
    /\ fullSeen' \in BOOLEAN
    /\ UNCHANGED <<acked, up, pc, request, decoded, crashes>> /\ pc = "loop"
    /\ excused' = excused \cup {<<r, input.upto>> : r \in IF input.phase = "new" THEN Unknown ELSE {}}
    /\ \/ input.phase = "tail" /\ in.history = input.history /\ R = {}
       \/ /\ input.phase = "new" /\ in.history = Unknown
          /\ input.since = None \/ \A r \in Rooms : Listed(r) => ~Limited(r)
          /\ R = IF input.since = None THEN {} ELSE Unknown

TailStep == Given /\ \E in, R : Ends(in, R)

LEMMA ApplyTailIs ==
    ASSUME Given, NEW in \in Retained, in.since = input.since, in.upto = input.upto,
           in.full = input.full, in.prologue = input.prologue, in.applied = input.applied,
           NEW R, NEW b, Reports(b, R, Base(input.since), input.upto), ApplyTail(in, b)
    PROVE  /\ TailStream(in, R)
           /\ input' \in Retained /\ SameInput /\ input'.phase = "prepared"
           /\ cursor' = input.upto
           /\ start' = IF input.since = None THEN input.upto ELSE start
           /\ known' = known \cup {r \in Rooms : Listed(r)}
           /\ baseline' = IF input.full \/ (input.since = None /\ ~Filtered)
                          THEN baseline \cup {r \in Rooms : Listed(r)} ELSE baseline
           /\ fullSeen' \in BOOLEAN
  <1>1. PICK d : d = TailToDevice(in)
    OBVIOUS
  <1>2. d \in Seq(Record) /\ Carries(d, Device, IF input.prologue THEN {} ELSE Messages, "none")
    <2>1. CASE input.prologue
      <3>1. d = <<>>
        BY <1>1, <2>1 DEF TailToDevice
      <3> QED BY <2>1, <3>1 DEF Carries, Increasing
    <2>2. CASE ~input.prologue
      <3>1. d = ToDevice(in)
        BY <1>1, <2>2 DEF TailToDevice
      <3> QED BY <2>2, <3>1, ToDeviceIs
    <2> QED BY <2>1, <2>2
  <1>3. PICK t : t = TailEvents(in)
    OBVIOUS
  <1>4. TailCarried(t, in)
    BY <1>3, TailEventsAre
  <1>5. stream' = stream \o b \o d \o t
    BY <1>1, <1>3 DEF ApplyTail
  <1>6. stream \in Seq(Record) /\ b \in Seq(Record) /\ t \in Seq(Record)
    BY <1>4 DEF Given, TypeOK, Reports, TailCarried
  <1>7. PICK m : m = stream \o b
    OBVIOUS
  <1>8. Joins(m, stream, b)
    BY <1>6, <1>7, Joined
  <1>9. m \in Seq(Record)
    BY <1>8 DEF Joins
  <1>10. PICK n : n = m \o d
    OBVIOUS
  <1>11. Joins(n, m, d)
    BY <1>2, <1>9, <1>10, Joined
  <1>12. n \in Seq(Record)
    BY <1>11 DEF Joins
  <1>13. Joins(stream', n, t)
    BY <1>5, <1>6, <1>7, <1>10, <1>12, Joined
  <1>14. TailStream(in, R)
    BY <1>2, <1>4, <1>8, <1>11, <1>13 DEF TailStream
  <1>15. input' = [in EXCEPT !.phase = "prepared"]
    BY DEF ApplyTail
  <1>16. input' \in Retained /\ SameInput /\ input'.phase = "prepared"
    BY <1>15 DEF Retained, SameInput
  <1>17. fullSeen' \in BOOLEAN
    BY DEF ApplyTail
  <1> QED BY <1>14, <1>16, <1>17 DEF ApplyTail

LEMMA NoCandidates ==
    ASSUME Candidates = <<>>
    PROVE  \A r \in Rooms : Listed(r) => ~Limited(r)
  <1>1. Len(Candidates) = 0
    OBVIOUS
  <1> QED BY <1>1, CandidatesAre

LEMMA PrepareIs ==
    ASSUME Shape, Prepare
    PROVE  Begins \/ TailStep
  <1> USE RecoveryAssumption
  <1>1. input # None /\ input.phase = "new" /\ pc = "loop"
        /\ UNCHANGED <<log, acked, up, pc, request, decoded, crashes>>
    BY DEF Prepare
  <1>2. Given /\ cursor = input.since /\ input.applied = [r \in Rooms |-> {}]
    BY <1>1 DEF Given, Shape, ResponseOK
  <1>3. PICK in : in = [input EXCEPT !.history = Unknown, !.unknown = Unknown]
    OBVIOUS
  <1>4. Examined(in)
    BY <1>2, <1>3, ExaminedIs
  <1>5. PICK l : l = IF cursor = None THEN <<>> ELSE Losses(in)
    OBVIOUS
  <1>6. /\ \/ /\ cursor # None /\ Candidates # <<>>
              /\ input' = AtRoom([in EXCEPT !.prologue = TRUE], 1)
              /\ stream' = stream \o ToDevice(in) \o l
              /\ known' = known \cup Unknown
              /\ UNCHANGED <<baseline, cursor, fullSeen, start>>
           \/ /\ cursor = None \/ Candidates = <<>>
              /\ ApplyTail(in, l)
        /\ excused' = excused \cup {<<r, in.upto>> : r \in Unknown}
    BY <1>3, <1>5, ZenonT(40) DEF Prepare, Unknown
  <1>7. Base(input.since) \in Positions /\ input.upto \in Positions
    BY <1>2, GivenFacts DEF Retained
  <1>8. in.unknown = Unknown /\ Unknown \in SUBSET Rooms /\ in.since = input.since /\ in.upto = input.upto
    BY <1>4 DEF Examined, Unknown
  <1>9. cursor # None => Reports(l, Unknown, Base(input.since), input.upto)
    <2>1. Base(in.since) = Base(input.since)
      BY <1>8
    <2> QED BY <1>5, <1>7, <1>8, <2>1, LossesAre
  <1>10. cursor = None => Reports(l, {}, Base(input.since), input.upto)
    BY <1>5 DEF Reports
  <1>11. CASE /\ cursor # None /\ Candidates # <<>>
              /\ input' = AtRoom([in EXCEPT !.prologue = TRUE], 1)
              /\ stream' = stream \o ToDevice(in) \o l
              /\ known' = known \cup Unknown
              /\ UNCHANGED <<baseline, cursor, fullSeen, start>>
    <2>1. PICK e : e = ToDevice(in)
      OBVIOUS
    <2>2. e \in Seq(Record) /\ Carries(e, Device, Messages, "none")
      BY <1>2, <1>8, <2>1, ToDeviceIs
    <2>3. stream \in Seq(Record) /\ l \in Seq(Record)
      BY <1>2, <1>9, <1>11 DEF Given, TypeOK, Reports
    <2>4. PICK m : m = stream \o e
      OBVIOUS
    <2>5. Joins(m, stream, e)
      BY <2>2, <2>3, <2>4, Joined
    <2>6. m \in Seq(Record)
      BY <2>5 DEF Joins
    <2>7. Joins(stream', m, l)
      BY <1>11, <2>1, <2>3, <2>4, <2>6, Joined
    <2>8. Len(Candidates) >= 1 /\ Len(Candidates) \in Nat
      <3>1. Candidates \in Seq(Rooms)
        BY CandidatesAre
      <3> QED BY <1>11, <3>1, EmptySeq
    <2>9. PICK in2 : in2 = [in EXCEPT !.prologue = TRUE]
      OBVIOUS
    <2>10. /\ in2 \in Retained /\ in2.since = in.since /\ in2.upto = in.upto /\ in2.full = in.full
           /\ in2.history = in.history /\ in2.unknown = in.unknown /\ in2.applied = in.applied
           /\ in2.prologue = TRUE
      <3> HIDE RecoveryAssumption
      <3>1. in \in Retained
        BY <1>4 DEF Examined
      <3>2. TRUE \in BOOLEAN
        OBVIOUS
      <3> QED BY <2>9, <3>1, <3>2 DEF Retained
    <2>11. /\ input' \in Retained
           /\ input'.since = in2.since /\ input'.upto = in2.upto
           /\ input'.full = in2.full /\ input'.unknown = in2.unknown
           /\ input'.prologue = in2.prologue /\ input'.history = in2.history
           /\ input'.applied = in2.applied /\ input'.index = 1
           /\ input'.from = Base(in2.since) /\ input'.seen = {Base(in2.since)}
           /\ input'.phase = IF 1 > Len(Candidates) THEN "tail" ELSE "recover"
      <3>1. 1 \in 1..(Len(Candidates) + 1)
        BY <2>8
      <3>2. input' = AtRoom(in2, 1)
        BY <1>11, <2>9
      <3> HIDE RecoveryAssumption
      <3> QED BY <1>2, <2>10, <3>1, <3>2, AtRoomIs
    <2>12. input'.phase = "recover"
      BY <2>8, <2>11
    <2>13. Base(in2.since) = Base(input.since) /\ in2.upto = input.upto
      BY <1>8, <2>10
    <2>14. SameInput /\ input'.prologue /\ input'.history = Unknown /\ input'.unknown = Unknown
           /\ input'.applied = [r \in Rooms |-> {}]
      BY <1>2, <1>4, <2>10, <2>11 DEF SameInput, Examined
    <2>15. BeginStream
      <3>1. Reports(l, Unknown, Base(input.since), input.upto)
        BY <1>9, <1>11
      <3> QED BY <2>2, <2>5, <2>7, <3>1 DEF BeginStream
    <2>16. input'.from = Base(input.since) /\ input'.seen = {Base(input.since)} /\ input'.index = 1
           /\ input' \in Retained
      BY <2>11, <2>13
    <2>17. Begins
      <3> HIDE RecoveryAssumption
      <3>1. excused' = excused \cup {<<r, input.upto>> : r \in Unknown}
        BY <1>6, <1>8
      <3> QED BY <1>1, <1>2, <1>11, <2>8, <2>12, <2>14, <2>15, <2>16, <3>1 DEF Begins
    <2> QED BY <2>17
  <1>12. CASE (cursor = None \/ Candidates = <<>>) /\ ApplyTail(in, l)
    <2>1. PICK R : R = IF input.since = None THEN {} ELSE Unknown
      OBVIOUS
    <2>2. Reports(l, R, Base(input.since), input.upto)
      BY <1>2, <1>9, <1>10, <2>1
    <2>3. /\ in \in Retained /\ in.since = input.since /\ in.upto = input.upto
          /\ in.full = input.full /\ in.prologue = input.prologue /\ in.applied = input.applied
          /\ in.history = Unknown
      BY <1>4 DEF Examined
    <2>4. /\ TailStream(in, R)
          /\ input' \in Retained /\ SameInput /\ input'.phase = "prepared"
          /\ cursor' = input.upto
          /\ start' = IF input.since = None THEN input.upto ELSE start
          /\ known' = known \cup {r \in Rooms : Listed(r)}
          /\ baseline' = IF input.full \/ (input.since = None /\ ~Filtered)
                         THEN baseline \cup {r \in Rooms : Listed(r)} ELSE baseline
          /\ fullSeen' \in BOOLEAN
      <3> HIDE RecoveryAssumption
      <3> QED BY <1>2, <1>12, <2>2, <2>3, ApplyTailIs
    <2>5. input.since = None \/ \A r \in Rooms : Listed(r) => ~Limited(r)
      BY <1>2, <1>12, NoCandidates
    <2>6. excused' = excused \cup {<<r, input.upto>> : r \in IF input.phase = "new" THEN Unknown ELSE {}}
      BY <1>1, <1>6, <1>8
    <2>7. R \subseteq in.history
      BY <2>1, <2>3
    <2>8. Ends(in, R)
      <3> HIDE RecoveryAssumption
      <3> QED BY <1>1, <2>1, <2>3, <2>4, <2>5, <2>6, <2>7 DEF Ends
    <2> QED BY <1>2, <2>8 DEF TailStep
  <1> QED BY <1>6, <1>11, <1>12

LEMMA PrepareTailIs ==
    ASSUME Shape, PrepareTail
    PROVE  TailStep
  <1>1. input # None /\ input.phase = "tail" /\ pc = "loop" /\ ApplyTail(input, <<>>)
        /\ UNCHANGED <<log, acked, up, pc, request, decoded, crashes, excused>>
    BY DEF PrepareTail
  <1>2. Given
    BY <1>1 DEF Given, Shape
  <1>3. input \in Retained
    BY <1>2, GivenFacts
  <1>4. Reports(<<>>, {}, Base(input.since), input.upto)
    BY DEF Reports
  <1>5. PICK R : R = {}
    OBVIOUS
  <1>6. PICK b : b = <<>>
    OBVIOUS
  <1>7. PICK in : in = input
    OBVIOUS
  <1>8. /\ TailStream(in, R)
        /\ input' \in Retained /\ SameInput /\ input'.phase = "prepared"
        /\ cursor' = input.upto
        /\ start' = IF input.since = None THEN input.upto ELSE start
        /\ known' = known \cup {r \in Rooms : Listed(r)}
        /\ baseline' = IF input.full \/ (input.since = None /\ ~Filtered)
                       THEN baseline \cup {r \in Rooms : Listed(r)} ELSE baseline
        /\ fullSeen' \in BOOLEAN
    <2>1. Reports(b, R, Base(input.since), input.upto) /\ ApplyTail(in, b)
      BY <1>1, <1>4, <1>5, <1>6, <1>7
    <2>2. /\ in \in Retained /\ in.since = input.since /\ in.upto = input.upto
          /\ in.full = input.full /\ in.prologue = input.prologue /\ in.applied = input.applied
      BY <1>3, <1>7
    <2> QED BY <1>2, <2>1, <2>2, ApplyTailIs
  <1>9. excused' = excused \cup {<<r, input.upto>> : r \in IF input.phase = "new" THEN Unknown ELSE {}}
    BY <1>1
  <1>10. Ends(in, R)
    BY <1>1, <1>3, <1>5, <1>7, <1>8, <1>9 DEF Ends
  <1> QED BY <1>2, <1>10 DEF TailStep

LEMMA BeginsKeeps ==
    ASSUME Begins
    PROVE  /\ input' # None /\ Grows /\ (\A r : KeptOf(r)) /\ Candidates' = Candidates
           /\ Room' = Candidates[1] /\ Candidates[1] \in Rooms
           /\ Base(input'.since) = Base(input.since) /\ input'.upto = input.upto
  <1>1. Given /\ log' = log /\ input' \in Retained /\ SameInput /\ input'.index = 1
    BY DEF Begins
  <1>2. input' # None
    BY <1>1, RecoveryAssumption
  <1>3. Grows
    BY <1>1, GivenFacts DEF Grows
  <1>4. (\A r : KeptOf(r)) /\ Candidates' = Candidates
    BY <1>1, <1>3, SameResponse
  <1>5. Room' = Candidates[1]
    BY <1>1, <1>4 DEF Room
  <1>6. Candidates[1] \in Rooms
    <2>1. Len(Candidates) >= 1 /\ Len(Candidates) \in 0..Len(RoomOrder) /\ Len(RoomOrder) \in Nat
      BY CandidatesAre, RoomsAre DEF Begins
    <2>2. 1 \in 1..Len(Candidates)
      BY <2>1
    <2> QED BY <2>2, CandidatesAre
  <1> QED BY <1>1, <1>2, <1>3, <1>4, <1>5, <1>6 DEF SameInput

LEMMA BeginsShape ==
    ASSUME Shape, Begins
    PROVE  Shape'
  <1>1. /\ Given /\ input.phase = "new" /\ input.since # None /\ Len(Candidates) >= 1
        /\ input' \in Retained /\ SameInput /\ input'.prologue
        /\ input'.history = Unknown /\ input'.unknown = Unknown
        /\ input'.applied = [r \in Rooms |-> {}] /\ input'.phase = "recover"
        /\ input'.index = 1 /\ input'.from = Base(input.since) /\ input'.seen = {Base(input.since)}
        /\ UNCHANGED <<log, cursor, baseline, start, acked, up, pc, request, decoded, fullSeen, crashes>>
        /\ pc = "loop"
    BY DEF Begins
  <1>2. known' = known \cup Unknown /\ Unknown \in SUBSET Rooms
        /\ excused' = excused \cup {<<r, input.upto>> : r \in Unknown}
    BY DEF Begins, Unknown
  <1>3. stream' \in Seq(Record) /\ Len(stream) \in Nat /\ Len(stream') \in Nat
        /\ Len(stream) <= Len(stream')
    <2>1. PICK m, e, l : Joins(m, stream, e) /\ Joins(stream', m, l)
      BY DEF Begins, BeginStream
    <2> QED BY <2>1 DEF Joins
  <1>4. /\ input \in Retained /\ Base(input.since) \in Nat /\ Len(log) \in Nat
        /\ Base(input.since) <= input.upto /\ input.upto <= Len(log) /\ input.upto \in Nat
        /\ input.upto \in Positions
    BY <1>1, GivenFacts DEF Retained
  <1>5. TypeOK'
    <2>1. TypeOK
      BY DEF Shape
    <2>2. acked' \in 0..Len(stream')
      BY <1>1, <1>3, <2>1 DEF TypeOK
    <2>3. known' \subseteq Rooms
      BY <1>2, <2>1 DEF TypeOK
    <2>4. excused' \subseteq Rooms \X Positions
      BY <1>2, <1>4, <2>1 DEF TypeOK
    <2> QED BY <1>1, <1>3, <2>1, <2>2, <2>3, <2>4 DEF TypeOK
  <1>6. RequestOK'
    BY <1>1 DEF RequestOK
  <1>7. CursorOK'
    BY <1>1 DEF Shape, CursorOK, Base
  <1>8. ResponseOK'
    <2>1. Candidates' = Candidates /\ Base(input'.since) = Base(input.since) /\ input'.upto = input.upto
      BY BeginsKeeps
    <2>2. input'.since = input.since /\ cursor = input.since
      BY <1>1 DEF SameInput, Given, ResponseOK
    <2>3. input'.index \in 1..Len(Candidates')
      <3>1. Len(Candidates) \in 0..Len(RoomOrder) /\ Len(RoomOrder) \in Nat
        BY CandidatesAre, RoomsAre
      <3> QED BY <1>1, <2>1, <3>1
    <2>4. Base(input'.since) <= input'.from /\ input'.from <= Len(log')
          /\ \A x \in input'.seen : x <= input'.from
      BY <1>1, <1>4, <2>1
    <2> QED BY <1>1, <1>4, <2>1, <2>2, <2>3, <2>4 DEF ResponseOK
  <1> QED BY <1>5, <1>6, <1>7, <1>8 DEF Shape

LEMMA TailShape ==
    ASSUME Shape, TailStep
    PROVE  Shape'
  <1>1. PICK in, R : Ends(in, R)
    BY DEF TailStep
  <1>2. Given
    BY DEF TailStep
  <1>3. /\ input' \in Retained /\ SameInput /\ input'.phase = "prepared"
        /\ cursor' = input.upto /\ log' = log
        /\ start' = IF input.since = None THEN input.upto ELSE start
        /\ fullSeen' \in BOOLEAN
        /\ UNCHANGED <<acked, up, pc, request, decoded, crashes>> /\ pc = "loop"
    BY <1>1 DEF Ends
  <1>4. /\ input \in Retained /\ Base(input.since) \in Nat /\ Len(log) \in Nat
        /\ Base(input.since) <= input.upto /\ input.upto <= Len(log) /\ input.upto \in Nat
        /\ input.upto \in Positions
    BY <1>2, GivenFacts DEF Retained
  <1>5. stream' \in Seq(Record) /\ Len(stream) \in Nat /\ Len(stream') \in Nat
        /\ Len(stream) <= Len(stream')
    <2>1. PICK m, n, b, d, t : Joins(m, stream, b) /\ Joins(n, m, d) /\ Joins(stream', n, t)
      BY <1>1 DEF Ends, TailStream
    <2> QED BY <2>1 DEF Joins
  <1>6. TypeOK'
    <2>1. TypeOK
      BY DEF Shape
    <2>2. acked' \in 0..Len(stream')
      BY <1>3, <1>5, <2>1 DEF TypeOK
    <2>3. known' \subseteq Rooms /\ baseline' \subseteq Rooms
      <3>1. PICK L : L = {r \in Rooms : Listed(r)}
        OBVIOUS
      <3>2. L \subseteq Rooms /\ known' = known \cup L
            /\ (baseline' = baseline \cup L \/ baseline' = baseline)
        BY <1>1, <3>1 DEF Ends
      <3> QED BY <2>1, <3>2 DEF TypeOK
    <2>4. excused' \subseteq Rooms \X Positions
      <3>1. PICK V : V = IF input.phase = "new" THEN Unknown ELSE {}
        OBVIOUS
      <3>2. V \subseteq Rooms /\ excused' = excused \cup {<<r, input.upto>> : r \in V}
        BY <1>1, <3>1 DEF Ends, Unknown
      <3> QED BY <1>4, <2>1, <3>2 DEF TypeOK
    <2>5. start' \in Positions \cup {None}
      BY <1>3, <1>4, <2>1 DEF TypeOK
    <2> QED BY <1>3, <1>4, <1>5, <2>1, <2>2, <2>3, <2>4, <2>5 DEF TypeOK
  <1>7. RequestOK'
    BY <1>3 DEF RequestOK
  <1>8. input.upto # None
    BY <1>4, RecoveryAssumption
  <1>9. CursorOK'
    <2>1. Base(cursor') <= Len(log')
      BY <1>3, <1>4, <1>8 DEF Base
    <2>2. cursor = input.since
      <3>1. input.phase # "prepared"
        BY <1>1 DEF Ends
      <3> QED BY <1>2, <3>1 DEF Given, ResponseOK
    <2>3. CASE input.since = None
      BY <1>3, <1>4, <1>8, <2>1, <2>3 DEF CursorOK
    <2>4. CASE input.since # None
      <3>1. start # None /\ start <= cursor
        BY <2>2, <2>4 DEF Shape, CursorOK
      <3>2. start \in Nat /\ cursor \in Nat
        BY <2>2, <2>4, <3>1, RecoveryAssumption DEF Shape, TypeOK, Positions
      <3>3. cursor <= input.upto
        BY <1>4, <2>2, <2>4 DEF Base
      <3> QED BY <1>3, <1>4, <1>8, <2>1, <2>4, <3>1, <3>2, <3>3 DEF CursorOK
    <2> QED BY <2>3, <2>4
  <1>10. ResponseOK'
    <2>1. Base(input'.since) = Base(input.since) /\ input'.upto = input.upto
      BY <1>3 DEF SameInput
    <2> QED BY <1>3, <1>4, <2>1 DEF ResponseOK
  <1> QED BY <1>6, <1>7, <1>9, <1>10 DEF Shape

(* Every step, by what it does to the durable state *)
LEMMA Steps ==
    ASSUME Shape, [Next]_vars
    PROVE  \/ Quiet \/ (\E r \in Rooms \cup {Device} : ServerEvent(r)) \/ Capture \/ Begins
           \/ TailStep \/ (Walks /\ (PageStep \/ Narrows)) \/ Complete
  <1>1. CASE Prepare
    BY <1>1, PrepareIs
  <1>2. CASE PrepareTail
    BY <1>2, PrepareTailIs
  <1>3. CASE SkipRoom \/ PageTooLarge \/ PageFails \/ PageArrives
    BY <1>3, WalkSteps
  <1>4. CASE \/ Acknowledge \/ Poll \/ EmptyPoll \/ Decode \/ TailRefused \/ RequestPage
             \/ Crash \/ Reopen \/ UNCHANGED vars
    BY <1>4, QuietSteps
  <1> QED BY <1>1, <1>2, <1>3, <1>4 DEF Next, SessionStep

LEMMA ShapeStep ==
    ASSUME Shape, [Next]_vars
    PROVE  Shape'
  <1>1. CASE Prepare
    BY <1>1, PrepareIs, BeginsShape, TailShape
  <1>2. CASE PrepareTail
    BY <1>2, PrepareTailIs, TailShape
  <1>3. CASE SkipRoom \/ PageTooLarge \/ PageFails \/ PageArrives
    BY <1>3, WalkSteps, WalkShape
  <1>4. CASE \/ Acknowledge \/ Poll \/ EmptyPoll \/ Decode \/ TailRefused \/ RequestPage
             \/ Crash \/ Reopen \/ UNCHANGED vars
    BY <1>4, QuietShape
  <1>5. CASE Capture \/ Complete
    BY <1>5, CaptureShape, CompleteShape
  <1>6. CASE \E r \in Rooms \cup {Device} : ServerEvent(r)
    BY <1>6, ServerEventShape
  <1> QED BY <1>1, <1>2, <1>3, <1>4, <1>5, <1>6 DEF Next, SessionStep

(* Every variable keeps its type, and the retained continuation its page,  *)
(* window and position bounds, across pages, failures and restarts.        *)
THEOREM RecoveryShape == Spec => []Shape
  BY InitShape, ShapeStep, PTL DEF Spec

-----------------------------------------------------------------------------
(* No gap is silent: what of the response is committed at each stage *)
Had(S) == \A p \in S : Has(stream, log, p)

Working == input # None /\ input.phase \in {"recover", "tail"}
Walked == input # None /\ input.phase = "recover"

HadWorking ==
    /\ Had(Messages)
    /\ \A r \in input.unknown : Had(Interval(r))
    /\ \A r \in Rooms : Had(input.applied[r] \cap (1..input.upto))
    /\ \A j \in 1..Len(Candidates) :
          j < input.index => Had(Interval(Candidates[j]) \ TailOf(Candidates[j]))

HadWalked == Had(Events(Room, Base(input.since), input.from) \cap (1..input.upto))

GapInv ==
    /\ start # None => Had((start + 1)..Base(cursor))
    /\ Working => HadWorking
    /\ Walked => HadWalked

(* What the consumer has is never taken away. *)
Adds == \A p \in 1..Len(log) : Has(stream, log, p) => Has(stream', log', p)

LEMMA AddsBy ==
    ASSUME Grows, NEW u, stream' = u,
           \/ u = stream
           \/ \E t : Joins(u, stream, t)
           \/ \E m, t, l : Joins(m, stream, t) /\ Joins(u, m, l)
           \/ \E m, n, t, l, k : Joins(m, stream, t) /\ Joins(n, m, l) /\ Joins(u, n, k)
    PROVE  Adds
  <1> SUFFICES ASSUME NEW p \in 1..Len(log), Has(stream, log, p) PROVE Has(u, log', p)
    BY DEF Adds
  <1>1. log'[p] = log[p]
    BY DEF Grows
  <1>2. Has(stream, log', p)
    BY <1>1 DEF Has
  <1>3. CASE u = stream
    BY <1>2, <1>3
  <1>4. ASSUME NEW t, Joins(u, stream, t) PROVE Has(u, log', p)
    BY <1>2, <1>4, JoinHas
  <1>5. ASSUME NEW m, NEW t, NEW l, Joins(m, stream, t), Joins(u, m, l) PROVE Has(u, log', p)
    BY <1>2, <1>5, JoinHas
  <1>6. ASSUME NEW m, NEW n, NEW t, NEW l, NEW k,
               Joins(m, stream, t), Joins(n, m, l), Joins(u, n, k)
        PROVE  Has(u, log', p)
    <2>1. Has(m, log', p)
      BY <1>2, <1>6, JoinHas
    <2>2. Has(n, log', p)
      BY <1>6, <2>1, JoinHas
    <2> QED BY <1>6, <2>2, JoinHas
  <1> QED BY <1>3, <1>4, <1>5, <1>6

LEMMA HadKept ==
    ASSUME Adds, NEW S \in SUBSET (1..Len(log)), Had(S)
    PROVE  \A p \in S : Has(stream', log', p)
  BY DEF Adds, Had

LEMMA PositionsOf ==
    ASSUME Given
    PROVE  /\ Messages \in SUBSET (1..Len(log)) /\ (1..input.upto) \in SUBSET (1..Len(log))
           /\ \A r : Interval(r) \in SUBSET (1..Len(log))
  <1>1. /\ Base(input.since) \in Nat /\ input.upto \in Nat /\ Len(log) \in Nat
        /\ input.upto <= Len(log)
    BY GivenFacts
  <1>2. Messages \in SUBSET (1..Len(log))
    BY <1>1 DEF Messages, Events
  <1>3. \A r : Interval(r) \in SUBSET (1..Len(log))
    BY <1>1 DEF Interval, Events
  <1> QED BY <1>1, <1>2, <1>3

LEMMA CursorPositions ==
    ASSUME Shape, start # None
    PROVE  (start + 1)..Base(cursor) \in SUBSET (1..Len(log))
  <1>1. start \in Nat /\ Base(cursor) \in Nat /\ Base(cursor) <= Len(log) /\ Len(log) \in Nat
    BY RecoveryAssumption DEF Shape, TypeOK, CursorOK, Base, Positions
  <1> QED BY <1>1

LEMMA StartHad ==
    ASSUME Shape, GapInv, Adds, start' = start, cursor' = cursor, start # None
    PROVE  Had((start + 1)..Base(cursor))'
  <1>1. (start + 1)..Base(cursor) \in SUBSET (1..Len(log)) /\ Had((start + 1)..Base(cursor))
    BY CursorPositions DEF GapInv
  <1>2. \A p \in (start + 1)..Base(cursor) : Has(stream', log', p)
    BY <1>1, HadKept
  <1> QED BY <1>2 DEF Had, Base

(* The response and its continuation as they were, in a longer log *)
LEMMA GapKept ==
    ASSUME Shape, GapInv, Adds, Grows, start' = start, cursor' = cursor, (input = None) = (input' = None),
           input # None => /\ SameInput /\ input'.unknown = input.unknown /\ input'.applied = input.applied
                           /\ input'.index = input.index /\ input'.from = input.from
                           /\ input'.phase = input.phase
                           /\ (\A r : KeptOf(r)) /\ Candidates' = Candidates /\ Room' = Room
    PROVE  GapInv'
  <1>1. start' # None => Had((start + 1)..Base(cursor))'
    BY StartHad
  <1>2. CASE input = None
    BY <1>1, <1>2 DEF GapInv, Working, Walked
  <1>3. CASE input # None
    <2>1. Given
      BY <1>3 DEF Given, Shape
    <2>2. /\ Messages \in SUBSET (1..Len(log)) /\ (1..input.upto) \in SUBSET (1..Len(log))
          /\ \A r : Interval(r) \in SUBSET (1..Len(log))
      BY <2>1, PositionsOf
    <2>3. \A r : Interval(r)' = Interval(r) /\ TailOf(r)' = TailOf(r)
      BY <1>3 DEF KeptOf
    <2>4. input'.since = input.since /\ input'.upto = input.upto
      BY <1>3 DEF SameInput
    <2>5. /\ Base(input.since) \in Nat /\ input.upto \in Nat /\ Len(log) \in Nat
          /\ input.upto <= Len(log) /\ input \in Retained
      BY <2>1, GivenFacts
    <2>6. Messages' = Messages
      BY <2>4, <2>5, EventsKept DEF Messages
    <2>7. Working' = Working /\ Walked' = Walked
      BY <1>3 DEF Working, Walked
    <2>8. ASSUME Working PROVE HadWorking'
      <3>1. HadWorking
        BY <2>8 DEF GapInv
      <3>2. Had(Messages)'
        <4>1. \A p \in Messages : Has(stream', log', p)
          BY <2>2, <3>1, HadKept DEF HadWorking
        <4> QED BY <2>6, <4>1 DEF Had
      <3>3. ASSUME NEW r \in input.unknown PROVE Had(Interval(r))'
        <4>1. \A p \in Interval(r) : Has(stream', log', p)
          BY <2>2, <3>1, HadKept DEF HadWorking
        <4> QED BY <2>3, <4>1 DEF Had
      <3>4. ASSUME NEW r \in Rooms PROVE Had(input.applied[r] \cap (1..input.upto))'
        <4>1. PICK S : S = input.applied[r] \cap (1..input.upto)
          OBVIOUS
        <4>2. S \in SUBSET (1..Len(log)) /\ Had(S)
          BY <2>2, <3>1, <4>1 DEF HadWorking
        <4>3. \A p \in S : Has(stream', log', p)
          BY <4>2, HadKept
        <4> QED BY <1>3, <2>4, <4>1, <4>3 DEF Had
      <3>5. ASSUME NEW j \in 1..Len(Candidates), j < input.index
            PROVE  Had(Interval(Candidates[j]) \ TailOf(Candidates[j]))'
        <4>1. PICK c : c = Candidates[j]
          OBVIOUS
        <4>2. PICK S : S = Interval(c) \ TailOf(c)
          OBVIOUS
        <4>3. S \in SUBSET (1..Len(log)) /\ Had(S)
          BY <2>2, <3>1, <3>5, <4>1, <4>2 DEF HadWorking
        <4>4. \A p \in S : Has(stream', log', p)
          BY <4>3, HadKept
        <4>5. Candidates'[j] = c /\ Interval(c)' = Interval(c) /\ TailOf(c)' = TailOf(c)
          BY <1>3, <2>3, <4>1
        <4>6. (Interval(Candidates[j]) \ TailOf(Candidates[j]))' = S
          BY <4>2, <4>5 DEF Interval, TailOf
        <4> QED BY <4>4, <4>6 DEF Had
      <3> QED BY <1>3, <3>2, <3>3, <3>4, <3>5 DEF HadWorking
    <2>9. ASSUME Walked PROVE HadWalked'
      <3>1. Given /\ input.phase = "recover"
        BY <2>1, <2>9 DEF Walked
      <3>2. input.from \in Nat /\ input.from <= Len(log)
        BY <2>5, <3>1, RecoveryAssumption DEF Given, ResponseOK, Retained, Positions
      <3>3. PICK S : S = Events(Room, Base(input.since), input.from) \cap (1..input.upto)
        OBVIOUS
      <3>4. S \in SUBSET (1..Len(log)) /\ Had(S)
        BY <2>2, <2>9, <3>3 DEF GapInv, HadWalked
      <3>5. \A p \in S : Has(stream', log', p)
        BY <3>4, HadKept
      <3>6. PICK c : c = Room
        OBVIOUS
      <3>7. Events(c, Base(input.since), input.from)' = Events(c, Base(input.since), input.from)
        BY <1>3, <2>4, <2>5, <3>2, EventsKept
      <3>8. Room' = c
        BY <1>3, <3>6
      <3>9. (Events(Room, Base(input.since), input.from) \cap (1..input.upto))' = S
        BY <2>4, <3>3, <3>6, <3>7, <3>8 DEF Events
      <3> QED BY <3>5, <3>9 DEF HadWalked, Had
    <2> QED BY <1>1, <2>7, <2>8, <2>9 DEF GapInv
  <1> QED BY <1>2, <1>3

LEMMA CarriedHad ==
    ASSUME NEW e, NEW r, NEW S, NEW v, Carries(e, r, S, v), NEW lg
    PROVE  \A p \in S : Has(e, lg, p)
  BY DEF Carries, Has

LEMMA ReportedHad ==
    ASSUME NEW l, NEW R, NEW a, NEW b, Reports(l, R, a, b), NEW lg, NEW p, lg[p] \in R, a < p, p <= b
    PROVE  Has(l, lg, p)
  <1>1. PICK k \in 1..Len(l) : l[k].room = lg[p]
    BY DEF Reports
  <1>2. l[k].kind = "loss" /\ l[k].from = a /\ l[k].upto = b
    BY DEF Reports
  <1> QED BY <1>1, <1>2 DEF Has

LEMMA GapCaptured ==
    ASSUME Shape, GapInv, Capture
    PROVE  GapInv'
  <1>1. /\ UNCHANGED <<log, cursor, stream, start>> /\ Untouched(input')
    BY CaptureIs
  <1>2. Grows
    <2>1. Len(log) \in Nat
      BY DEF Shape, TypeOK
    <2> QED BY <1>1, <2>1 DEF Grows
  <1>3. Adds
    BY <1>1, <1>2, AddsBy
  <1>4. start' # None => Had((start + 1)..Base(cursor))'
    BY <1>1, <1>3, StartHad
  <1>5. ~Working' /\ ~Walked'
    BY <1>1 DEF Untouched, Working, Walked
  <1> QED BY <1>4, <1>5 DEF GapInv

LEMMA GapCompleted ==
    ASSUME Shape, GapInv, Complete
    PROVE  GapInv'
  <1>1. /\ UNCHANGED <<log, cursor, start>> /\ input' = None
        /\ Joins(stream', stream, <<CompleteRecord(input)>>)
    BY CompleteIs
  <1>2. Grows
    <2>1. Len(log) \in Nat
      BY DEF Shape, TypeOK
    <2> QED BY <1>1, <2>1 DEF Grows
  <1>3. Adds
    BY <1>1, <1>2, AddsBy
  <1>4. start' # None => Had((start + 1)..Base(cursor))'
    BY <1>1, <1>3, StartHad
  <1>5. ~Working' /\ ~Walked'
    BY <1>1 DEF Working, Walked
  <1> QED BY <1>4, <1>5 DEF GapInv

LEMMA GapBegun ==
    ASSUME Shape, GapInv, Begins
    PROVE  GapInv'
  <1>1. /\ Given /\ log' = log /\ cursor' = cursor /\ start' = start
        /\ input'.unknown = Unknown /\ input'.applied = [r \in Rooms |-> {}]
        /\ input'.index = 1 /\ input'.from = Base(input.since) /\ input' # None
        /\ Grows /\ (\A r : KeptOf(r)) /\ Candidates' = Candidates
        /\ Base(input'.since) = Base(input.since) /\ input'.upto = input.upto
    BY BeginsKeeps DEF Begins
  <1>2. PICK m, e, l : /\ Joins(m, stream, e) /\ Carries(e, Device, Messages, "none")
                       /\ Joins(stream', m, l) /\ Reports(l, Unknown, Base(input.since), input.upto)
    BY DEF Begins, BeginStream
  <1>3. Adds
    BY <1>1, <1>2, AddsBy
  <1>4. start' # None => Had((start + 1)..Base(cursor))'
    BY <1>1, <1>3, StartHad
  <1>5. Had(Messages)'
    <2>1. ASSUME NEW p \in Messages PROVE Has(stream', log', p)
      <3>1. Has(e, log', p)
        BY <1>2, CarriedHad
      <3>2. Has(m, log', p)
        BY <1>2, <3>1, JoinHas
      <3> QED BY <1>2, <3>2, JoinHas
    <2>2. Messages' = Messages
      BY <1>1 DEF Messages, Events
    <2> QED BY <2>1, <2>2 DEF Had
  <1>6. ASSUME NEW r \in Unknown PROVE Had(Interval(r))'
    <2>1. ASSUME NEW p \in Interval(r) PROVE Has(stream', log', p)
      <3>1. log'[p] = r /\ Base(input.since) < p /\ p <= input.upto
        BY <1>1, IntervalIs
      <3>2. Has(l, log', p)
        BY <1>2, <3>1, ReportedHad
      <3> QED BY <1>2, <3>2, JoinHas
    <2>2. Interval(r)' = Interval(r)
      BY <1>1 DEF KeptOf
    <2> QED BY <2>1, <2>2 DEF Had
  <1>7. ASSUME NEW r \in Rooms PROVE Had(input.applied[r] \cap (1..input.upto))'
    <2>1. input'.applied[r] = {}
      BY <1>1
    <2> QED BY <2>1 DEF Had
  <1>8. \A j \in 1..Len(Candidates') : ~(j < input'.index)
    <2>1. \A j \in 1..Len(Candidates') : j \in Int /\ j >= 1
      OBVIOUS
    <2> QED BY <1>1, <2>1
  <1>9. HadWorking'
    BY <1>1, <1>5, <1>6, <1>7, <1>8 DEF HadWorking
  <1>10. HadWalked'
    <2>1. Base(input.since) \in Nat
      BY <1>1, GivenFacts
    <2>2. Events(Room, Base(input.since), input.from)' = {}
      BY <1>1, <2>1 DEF Events
    <2> QED BY <2>2 DEF HadWalked, Had
  <1> QED BY <1>1, <1>4, <1>9, <1>10 DEF GapInv

LEMMA GapPaged ==
    ASSUME Shape, GapInv, Walks, PageStep
    PROVE  GapInv'
  <1>1. Given /\ input.phase = "recover" /\ log' = log /\ Working /\ Walked
    BY DEF Walks, Given, Working, Walked
  <1>2. PICK in, S, end, done, loss, excuse :
          /\ PageInput(in) /\ S \in SUBSET (1..MaxLog) /\ done \in BOOLEAN /\ loss \in BOOLEAN
          /\ CommitPage(in, S, end, done, loss, excuse)
          /\ PageReach(in, end, done) /\ PageGap(in, S, end, done, loss)
    BY ZenonT(40) DEF PageStep
  <1>3. done \/ end \in Positions
    BY <1>2 DEF PageReach
  <1>4. PICK lost \in BOOLEAN : lost = (loss \/ Stops(S))
    OBVIOUS
  <1>5. PageNext(in, S, end, done, lost) /\ PageDurable(S, lost, excuse) /\ PageStream(S, lost)
    BY <1>1, <1>2, <1>3, <1>4, PageContinues, PageStreams
  <1>6. /\ input' \in Retained /\ SameInput /\ input'.unknown = input.unknown
        /\ cursor' = cursor /\ start' = start
        /\ Base(input'.since) = Base(input.since) /\ input'.upto = input.upto
    BY <1>5 DEF PageNext, PageDurable, SameInput
  <1>7. /\ input' # None /\ Grows /\ (\A r : KeptOf(r)) /\ Candidates' = Candidates
        /\ input'.index = input.index => Room' = Room
    BY <1>6, PageKeeps
  <1>8. PICK m, e, l, v : /\ Joins(m, stream, e) /\ Joins(stream', m, l)
                          /\ Carries(e, Room, Whole(S), v)
                          /\ Reports(l, IF lost THEN {Room} ELSE {}, Base(input.since), input.upto)
    BY <1>5 DEF PageStream
  <1>9. Adds
    BY <1>7, <1>8, AddsBy
  <1>10. HadWorking /\ HadWalked
    BY <1>1 DEF GapInv
  <1>11. /\ Messages \in SUBSET (1..Len(log)) /\ (1..input.upto) \in SUBSET (1..Len(log))
         /\ \A r : Interval(r) \in SUBSET (1..Len(log))
    BY <1>1, PositionsOf
  <1>12. /\ Room \in Rooms /\ Room = Candidates[input.index] /\ input.index \in 1..Len(Candidates)
         /\ Len(Candidates) \in Nat
    BY <1>1, RoomIs
  <1>13. /\ Base(input.since) \in Nat /\ input.upto \in Nat /\ Len(log) \in Nat
         /\ input.upto <= Len(log) /\ input \in Retained /\ MaxLog \in Nat
    BY <1>1, GivenFacts
  <1>14. input.from \in Nat /\ \A r \in Rooms : input.applied[r] \in SUBSET Positions
    BY <1>13 DEF Retained, Positions
  (* a loss covers the whole interval of the room *)
  <1>15. ASSUME lost, NEW p \in Interval(Room) PROVE Has(stream', log', p)
    <2>1. log'[p] = Room /\ Base(input.since) < p /\ p <= input.upto
      BY <1>1, IntervalIs
    <2>2. Has(l, log', p)
      BY <1>8, <1>15, <2>1, ReportedHad
    <2> QED BY <1>8, <2>2, JoinHas
  (* without one every event of the page is there *)
  <1>16. ASSUME NEW p \in Whole(S) PROVE Has(stream', log', p)
    <2>1. Has(e, log', p)
      BY <1>8, CarriedHad
    <2>2. Has(m, log', p)
      BY <1>8, <2>1, JoinHas
    <2> QED BY <1>8, <2>2, JoinHas
  <1>17. ASSUME ~lost PROVE Whole(S) = S /\ ~Stops(S)
    BY <1>4, <1>17 DEF Whole
  <1>18. in.applied[Room] = input.applied[Room] \cup S
    BY <1>2 DEF PageGap
  <1>19. ASSUME ~lost, NEW p \in in.applied[Room], p \in 1..input.upto PROVE Has(stream', log', p)
    <2>1. CASE p \in S
      BY <1>16, <1>17, <1>19, <2>1
    <2>2. CASE p \in input.applied[Room]
      <3>1. Has(stream, log, p)
        BY <1>10, <1>12, <1>19, <2>2 DEF HadWorking, Had
      <3> QED BY <1>9, <1>11, <1>19, <3>1 DEF Adds
    <2> QED BY <1>18, <1>19, <2>1, <2>2
  (* what was applied before the last position *)
  <1>20. ASSUME NEW p \in Interval(Room), p <= input.from PROVE Has(stream', log', p)
    <2>1. /\ p \in Nat /\ Base(input.since) < p /\ p <= input.upto /\ log[p] = Room
      BY <1>1, IntervalIs
    <2>2. p \in Events(Room, Base(input.since), input.from)
      BY <1>13, <1>14, <1>20, <2>1 DEF Events
    <2>3. p \in 1..input.upto
      BY <1>13, <2>1
    <2>4. Has(stream, log, p)
      BY <1>10, <2>2, <2>3 DEF HadWalked, Had
    <2> QED BY <1>9, <1>11, <2>3, <2>4 DEF Adds
  <1>21. start' # None => Had((start + 1)..Base(cursor))'
    BY <1>6, <1>9, StartHad
  <1>22. Had(Messages)'
    <2>1. \A p \in Messages : Has(stream', log', p)
      BY <1>9, <1>10, <1>11, HadKept DEF HadWorking
    <2>2. Messages' = Messages
      BY <1>1, <1>6 DEF Messages, Events
    <2> QED BY <2>1, <2>2 DEF Had
  <1>23. ASSUME NEW r \in input.unknown PROVE Had(Interval(r))'
    <2>1. \A p \in Interval(r) : Has(stream', log', p)
      BY <1>9, <1>10, <1>11, HadKept DEF HadWorking
    <2>2. Interval(r)' = Interval(r)
      BY <1>7 DEF KeptOf
    <2> QED BY <2>1, <2>2 DEF Had
  <1>24. ASSUME NEW r \in Rooms PROVE Had(input.applied[r] \cap (1..input.upto))'
    <2>1. CASE r # Room
      <3>1. input'.applied[r] = input.applied[r]
        BY <1>5, <2>1 DEF PageNext
      <3>2. PICK T : T = input.applied[r] \cap (1..input.upto)
        OBVIOUS
      <3>3. T \in SUBSET (1..Len(log)) /\ Had(T)
        BY <1>10, <1>11, <3>2 DEF HadWorking
      <3>4. \A p \in T : Has(stream', log', p)
        BY <1>9, <3>3, HadKept
      <3> QED BY <1>6, <3>1, <3>2, <3>4 DEF Had
    <2>2. CASE r = Room
      <3>1. PICK A : A = input'.applied[r]
        OBVIOUS
      <3>2. A = IF Stops(S) THEN in.applied[Room] \ {p \in S : p > Cut(S)} ELSE in.applied[Room]
        BY <1>5, <2>2, <3>1 DEF PageNext
      <3>3. ASSUME NEW p \in A, p \in 1..input.upto PROVE Has(stream', log', p)
        <4>1. CASE ~lost
          BY <1>17, <1>19, <3>2, <3>3, <4>1
        <4>2. CASE lost
          <5>1. p \in in.applied[Room] /\ p \in Nat
            BY <3>2, <3>3
          <5>2. CASE p \in input.applied[Room]
            <6>1. Has(stream, log, p)
              BY <1>10, <1>12, <3>3, <5>2 DEF HadWorking, Had
            <6> QED BY <1>9, <1>11, <3>3, <6>1 DEF Adds
          <5>3. CASE p \in S /\ p \in Whole(S)
            BY <1>16, <5>3
          <5>4. CASE p \in S /\ p \notin Whole(S)
            <6>1. p \in Interval(Room)
              <7>1. log[p] = Room /\ Base(input.since) < p
                BY <1>2, <5>4 DEF PageGap
              <7> QED BY <1>1, <1>13, <3>3, <5>1, <7>1, IntervalIs
            <6> QED BY <1>15, <4>2, <6>1
          <5> QED BY <1>18, <5>1, <5>2, <5>3, <5>4
        <4> QED BY <4>1, <4>2
      <3> QED BY <1>6, <3>1, <3>3 DEF Had
    <2> QED BY <2>1, <2>2
  (* the room that is settled, and those before it *)
  <1>25. ASSUME done \/ Stops(S), NEW p \in Interval(Room) \ TailOf(Room) PROVE Has(stream', log', p)
    <2>1. CASE lost
      BY <1>15, <1>25, <2>1
    <2>2. CASE ~lost
      <3>1. done /\ ~loss
        BY <1>4, <1>17, <1>25, <2>2
      <3>2. Room \in input.unknown \/ p <= input.from \/ p \in in.applied[Room]
        BY <1>2, <1>25, <3>1 DEF PageGap
      <3>3. p \in 1..input.upto
        BY <1>1, <1>13, <1>25, IntervalIs
      <3>4. CASE Room \in input.unknown
        <4>1. Had(Interval(Room))
          BY <1>10, <3>4 DEF HadWorking
        <4> QED BY <1>9, <1>11, <1>25, <4>1, HadKept
      <3> QED BY <1>19, <1>20, <1>25, <2>2, <3>2, <3>3, <3>4
    <2> QED BY <2>1, <2>2
  <1>26. ASSUME NEW j \in 1..Len(Candidates), j < input'.index
         PROVE  Had(Interval(Candidates[j]) \ TailOf(Candidates[j]))'
    <2>1. PICK c : c = Candidates[j]
      OBVIOUS
    <2>2. PICK T : T = Interval(c) \ TailOf(c)
      OBVIOUS
    <2>3. ASSUME NEW p \in T PROVE Has(stream', log', p)
      <3>1. CASE j < input.index
        <4>1. Had(T) /\ T \in SUBSET (1..Len(log))
          BY <1>10, <1>11, <2>1, <2>2, <3>1 DEF HadWorking
        <4> QED BY <1>9, <2>3, <4>1, HadKept
      <3>2. CASE ~(j < input.index)
        <4>1. (done \/ Stops(S)) /\ input'.index = input.index + 1
          BY <1>5, <1>26, <3>2 DEF PageNext
        <4>2. j = input.index
          BY <1>12, <1>26, <3>2, <4>1
        <4>3. c = Room
          BY <1>12, <2>1, <4>2
        <4> QED BY <1>25, <2>2, <2>3, <4>1, <4>3
      <3> QED BY <3>1, <3>2
    <2>4. Candidates'[j] = c /\ Interval(c)' = Interval(c) /\ TailOf(c)' = TailOf(c)
      BY <1>7, <2>1 DEF KeptOf
    <2>5. (Interval(Candidates[j]) \ TailOf(Candidates[j]))' = T
      BY <2>2, <2>4 DEF Interval, TailOf
    <2> QED BY <2>3, <2>5 DEF Had
  <1>27. HadWorking'
    BY <1>6, <1>7, <1>22, <1>23, <1>24, <1>26 DEF HadWorking
  <1>28. HadWalked'
    <2>1. PICK b \in Nat : b = Base(input.since)
      BY <1>13
    <2>2. CASE done \/ Stops(S)
      <3>1. input'.from = b
        BY <1>5, <2>1, <2>2 DEF PageNext
      <3>2. Events(Room, Base(input.since), input.from)' = {}
        BY <1>6, <2>1, <3>1 DEF Events
      <3> QED BY <3>2 DEF HadWalked, Had
    <2>3. CASE ~(done \/ Stops(S))
      <3>1. input'.from = end /\ Room' = Room
        BY <1>5, <1>7, <2>3 DEF PageNext
      <3>2. PICK c : c = Room
        OBVIOUS
      <3>3. PICK T : T = Events(c, b, end) \cap (1..input.upto)
        OBVIOUS
      <3>4. ASSUME NEW p \in T PROVE Has(stream', log', p)
        <4>1. p \in Events(Room, Base(input.since), end) /\ p \in 1..input.upto
          BY <2>1, <3>2, <3>3, <3>4
        <4>2. p <= input.from \/ p \in in.applied[Room]
          BY <1>2, <2>3, <4>1 DEF PageGap
        <4>3. p \in Nat /\ Base(input.since) < p /\ log[p] = Room /\ p <= input.upto
          <5>1. end \in Nat
            BY <1>3, <1>13, <2>3 DEF Positions
          <5> QED BY <1>13, <4>1, <5>1 DEF Events
        <4>4. p \in Interval(Room)
          BY <1>1, <4>3, IntervalIs
        <4>5. CASE p <= input.from
          BY <1>20, <4>4, <4>5
        <4>6. CASE p \in in.applied[Room]
          <5>1. CASE lost
            BY <1>15, <4>4, <5>1
          <5>2. CASE ~lost
            BY <1>19, <4>1, <4>6, <5>2
          <5> QED BY <5>1, <5>2
        <4> QED BY <4>2, <4>5, <4>6
      <3>5. (Events(Room, Base(input.since), input.from) \cap (1..input.upto))' = T
        BY <1>1, <1>6, <2>1, <3>1, <3>2, <3>3 DEF Events
      <3> QED BY <3>4, <3>5 DEF HadWalked, Had
    <2> QED BY <2>2, <2>3
  <1> QED BY <1>21, <1>27, <1>28 DEF GapInv

LEMMA GapTailed ==
    ASSUME Shape, GapInv, TailStep
    PROVE  GapInv'
  <1>1. PICK in, R : Ends(in, R)
    BY DEF TailStep
  <1>2. Given
    BY DEF TailStep
  <1>3. /\ in.applied = input.applied /\ input'.phase = "prepared" /\ cursor' = input.upto
        /\ log' = log /\ start' = IF input.since = None THEN input.upto ELSE start
    BY <1>1 DEF Ends
  <1>4. PICK m, n, b, d, t :
          /\ Joins(m, stream, b) /\ Joins(n, m, d) /\ Joins(stream', n, t)
          /\ Carries(d, Device, IF input.prologue THEN {} ELSE Messages, "none")
          /\ TailCarried(t, in)
    BY <1>1 DEF Ends, TailStream
  <1>5. /\ input \in Retained /\ Base(input.since) \in Nat /\ Len(log) \in Nat
        /\ Base(input.since) <= input.upto /\ input.upto <= Len(log) /\ input.upto \in Nat
        /\ input.upto \in Positions /\ \A i \in 1..Len(log) : log[i] \in Rooms \cup {Device}
    BY <1>2, GivenFacts DEF Retained
  <1>6. input.upto # None
    BY <1>5, RecoveryAssumption
  <1>7. Grows
    BY <1>3, <1>5 DEF Grows
  <1>8. Adds
    BY <1>4, <1>7, AddsBy
  <1>9. \/ input.phase = "tail"
        \/ /\ input.phase = "new"
           /\ input.since = None \/ \A r \in Rooms : Listed(r) => ~Limited(r)
    BY <1>1 DEF Ends
  <1>10. input.phase = "tail" \/ input.phase = "new"
    BY <1>1 DEF Ends
  <1>11. cursor = input.since
    BY <1>2, <1>10 DEF Given, ResponseOK
  <1>12. input.phase = "tail" => HadWorking
    BY <1>2 DEF GapInv, Working, Given
  <1>13. /\ Messages \in SUBSET (1..Len(log)) /\ (1..input.upto) \in SUBSET (1..Len(log))
         /\ \A r : Interval(r) \in SUBSET (1..Len(log))
    BY <1>2, PositionsOf
  <1>14. ASSUME NEW p \in 1..Len(log), Has(stream, log, p) PROVE Has(stream', log', p)
    BY <1>8, <1>14 DEF Adds
  <1>15. ASSUME NEW p \in Messages PROVE Has(stream', log', p)
    <2>1. CASE input.phase = "tail"
      <3>1. Had(Messages)
        BY <1>12, <2>1 DEF HadWorking
      <3> QED BY <1>13, <1>14, <3>1 DEF Had
    <2>2. CASE input.phase = "new"
      <3>1. ~input.prologue
        BY <1>2, <2>2 DEF Given, ResponseOK
      <3>2. Carries(d, Device, Messages, "none")
        BY <1>4, <3>1
      <3>3. Has(d, log', p)
        BY <3>2, CarriedHad
      <3>4. Has(n, log', p)
        BY <1>4, <3>3, JoinHas
      <3> QED BY <1>4, <3>4, JoinHas
    <2> QED BY <1>10, <2>1, <2>2
  <1>16. ASSUME input.since # None, NEW r \in Rooms, NEW p \in Interval(r) PROVE Has(stream', log', p)
    <2>1. Listed(r) /\ p \in 1..Len(log) /\ p \in 1..input.upto
      <3>1. Interval(r) # {}
        BY <1>16
      <3>2. p \in Nat /\ Base(input.since) < p /\ p <= input.upto
        BY <1>2, <1>16, IntervalIs
      <3> QED BY <1>5, <3>1, <3>2 DEF Listed
    <2>2. CASE p \in TailOf(r) /\ p \notin input.applied[r]
      <3>1. \E k \in 1..Len(t) : t[k].kind = "event" /\ t[k].upto = p
        BY <1>3, <1>4, <2>1, <2>2 DEF TailCarried
      <3>2. Has(t, log', p)
        BY <3>1 DEF Has
      <3> QED BY <1>4, <3>2, JoinHas
    <2>3. CASE p \in input.applied[r]
      <3>1. input.phase = "tail"
        <4>1. input.phase = "new" => input.applied[r] = {}
          BY <1>2 DEF Given, ResponseOK
        <4> QED BY <1>10, <2>3, <4>1
      <3>2. Had(input.applied[r] \cap (1..input.upto))
        BY <1>12, <3>1 DEF HadWorking
      <3>3. Has(stream, log, p)
        BY <2>1, <2>3, <3>2 DEF Had
      <3> QED BY <1>14, <2>1, <3>3
    <2>4. CASE p \notin TailOf(r)
      <3>1. Limited(r)
        BY <1>16, <2>4 DEF Limited
      <3>2. input.phase = "tail"
        BY <1>9, <1>16, <2>1, <3>1
      <3>3. PICK j \in 1..Len(Candidates) : Candidates[j] = r
        BY <2>1, <3>1, CandidatesAre
      <3>4. j < input.index
        <4>1. input.index = Len(Candidates) + 1
          BY <1>2, <3>2 DEF Given, ResponseOK
        <4>2. Len(Candidates) \in Nat
          BY CandidatesAre
        <4> QED BY <3>3, <4>1, <4>2
      <3>5. Had(Interval(r) \ TailOf(r))
        BY <1>12, <3>2, <3>3, <3>4 DEF HadWorking
      <3>6. Has(stream, log, p)
        BY <1>16, <2>4, <3>5 DEF Had
      <3> QED BY <1>14, <2>1, <3>6
    <2> QED BY <2>2, <2>3, <2>4
  <1>17. ASSUME start' # None, NEW p \in (start' + 1)..input.upto PROVE Has(stream', log', p)
    <2>1. CASE input.since = None
      BY <1>3, <1>5, <1>17, <2>1
    <2>2. CASE input.since # None
      <3>1. start' = start /\ start # None /\ start \in Nat /\ Base(cursor) = input.since
        BY <1>3, <1>11, <1>17, <2>2, RecoveryAssumption DEF Shape, TypeOK, Positions, Base
      <3>2. Base(input.since) = Base(cursor) /\ p \in Nat /\ start < p /\ p <= input.upto /\ 0 < p
        BY <1>5, <1>11, <1>17, <3>1
      <3>3. CASE p <= Base(cursor)
        <4>1. p \in (start + 1)..Base(cursor)
          BY <1>5, <3>1, <3>2, <3>3
        <4>2. Has(stream, log, p) /\ p \in 1..Len(log)
          BY <3>1, <4>1, CursorPositions DEF GapInv, Had
        <4> QED BY <1>14, <4>2
      <3>4. CASE ~(p <= Base(cursor))
        <4>1. p \in 1..Len(log) /\ Base(input.since) < p
          BY <1>5, <3>2, <3>4
        <4>2. CASE log[p] = Device
          <5>1. p \in Messages
            BY <1>5, <3>2, <4>1, <4>2 DEF Messages, Events
          <5> QED BY <1>15, <5>1
        <4>3. CASE log[p] \in Rooms
          <5>1. p \in Interval(log[p])
            BY <1>2, <3>2, <4>1, IntervalIs
          <5> QED BY <1>16, <2>2, <4>3, <5>1
        <4> QED BY <1>5, <4>1, <4>2, <4>3
      <3> QED BY <3>3, <3>4
    <2> QED BY <2>1, <2>2
  <1>18. start' # None => Had((start + 1)..Base(cursor))'
    <2>1. Base(cursor)' = input.upto
      BY <1>3, <1>6 DEF Base
    <2> QED BY <1>17, <2>1 DEF Had
  <1>19. ~Working' /\ ~Walked'
    BY <1>3 DEF Working, Walked
  <1> QED BY <1>18, <1>19 DEF GapInv

LEMMA GapStep ==
    ASSUME Shape, GapInv, [Next]_vars
    PROVE  GapInv'
  <1>0. Len(log) \in Nat
    BY DEF Shape, TypeOK
  <1>1. CASE Quiet
    <2>1. UNCHANGED <<log, cursor, input, stream, start>>
      BY <1>1 DEF Quiet
    <2>2. Grows
      BY <1>0, <2>1 DEF Grows
    <2>3. Adds
      BY <2>1, <2>2, AddsBy
    <2>4. /\ SameInput /\ (\A r : KeptOf(r)) /\ Candidates' = Candidates /\ Room' = Room
      BY <2>1 DEF SameInput, KeptOf, Interval, Events, TailOf, Listed, Limited, PrevBatch,
                  Candidates, Room
    <2> QED BY <2>1, <2>2, <2>3, <2>4, GapKept
  <1>2. ASSUME NEW r \in Rooms \cup {Device}, ServerEvent(r) PROVE GapInv'
    <2>1. UNCHANGED <<cursor, input, stream, start>>
      BY <1>2 DEF ServerEvent, durable, history
    <2>2. /\ Grows
          /\ input # None => /\ SameInput /\ (\A x : KeptOf(x)) /\ Candidates' = Candidates
                             /\ Room' = Room
      BY <1>2, ServerEventIs
    <2>3. Adds
      BY <2>1, <2>2, AddsBy
    <2> QED BY <2>1, <2>2, <2>3, GapKept
  <1>3. CASE Walks /\ Narrows
    <2>1. Given
      BY <1>3 DEF Walks
    <2>2. UNCHANGED <<log, cursor, stream, start>>
      BY <1>3 DEF Narrows
    <2>3. Grows
      BY <1>0, <2>2 DEF Grows
    <2>4. Adds
      BY <2>2, <2>3, AddsBy
    <2>5. /\ input' # None /\ input # None /\ SameInput
          /\ input'.unknown = input.unknown /\ input'.phase = input.phase
          /\ input'.index = input.index /\ input'.applied = input.applied
          /\ input'.from = input.from
          /\ (\A r : KeptOf(r)) /\ Candidates' = Candidates /\ Room' = Room
      BY <1>3, <2>1, NarrowsIs DEF Given
    <2> QED BY <2>2, <2>3, <2>4, <2>5, GapKept
  <1>4. CASE Walks /\ PageStep
    BY <1>4, GapPaged
  <1>5. CASE Capture
    BY <1>5, GapCaptured
  <1>6. CASE Complete
    BY <1>6, GapCompleted
  <1>7. CASE Begins
    BY <1>7, GapBegun
  <1>8. CASE TailStep
    BY <1>8, GapTailed
  <1> QED BY <1>1, <1>2, <1>3, <1>4, <1>5, <1>6, <1>7, <1>8, Steps

LEMMA GapInit ==
    ASSUME Init
    PROVE  GapInv
  <1>1. input = None /\ start = cursor /\ cursor \in Positions \cup {None}
    BY RecoveryAssumption DEF Init
  <1>2. start # None => start \in Nat /\ Base(cursor) = start
    BY <1>1, RecoveryAssumption DEF Base, Positions
  <1>3. start # None => (start + 1)..Base(cursor) = {}
    BY <1>2
  <1> QED BY <1>1, <1>3 DEF GapInv, Working, Walked, Had

(* Whatever the server's pages, their bounds, oversized events, crashes    *)
(* and restarts do, every event behind the committed cursor was committed  *)
(* to the consumer or is covered by a loss reported for its room.          *)
THEOREM NoGapSilent == Spec => []NoSilentGap
  <1>1. Init => Shape /\ GapInv
    BY InitShape, GapInit
  <1>2. Shape /\ GapInv /\ [Next]_vars => (Shape /\ GapInv)'
    BY ShapeStep, GapStep
  <1>3. GapInv => NoSilentGap
    BY DEF GapInv, Had, Has, NoSilentGap, EventAt
  <1> QED BY <1>1, <1>2, <1>3, PTL DEF Spec

-----------------------------------------------------------------------------
(* Losses fence: until full state is completed, a room with a loss has no  *)
(* baseline, and the rest of the response is history for it.               *)
LossOpen(r) ==
    /\ r \in baseline => input # None /\ input.phase = "prepared" /\ input.full
    /\ Working /\ Listed(r) => r \in input.history

NoLoss(t) == \A k \in 1..Len(t) : t[k].kind # "loss"

FenceInv ==
    /\ Guarded(stream)
    /\ cursor = None => NoLoss(stream)
    /\ \A r \in Rooms : Open(stream, r) => LossOpen(r)

LEMMA CarriedOpen ==
    ASSUME NEW s, NEW t, NEW u, Joins(u, s, t), NEW x, NEW S, NEW v, Carries(t, x, S, v),
           NEW r, Open(u, r)
    PROVE  Open(s, r)
  <1>1. \A k \in 1..Len(t) : t[k].kind # "loss"
    BY DEF Carries
  <1> QED BY <1>1, JoinOpen

LEMMA ReportedOpen ==
    ASSUME NEW s, NEW t, NEW u, Joins(u, s, t), NEW R, NEW a, NEW b, Reports(t, R, a, b),
           NEW r, Open(u, r)
    PROVE  Open(s, r) \/ r \in R
  <1>1. \A k \in 1..Len(t) : t[k].room \in R
    BY DEF Reports
  <1> QED BY <1>1, JoinOpen

LEMMA CarriedGuarded ==
    ASSUME NEW s, NEW t, NEW u, Joins(u, s, t), NEW x, NEW S, NEW v, Carries(t, x, S, v),
           Guarded(s), v \in LiveLike => ~Open(s, x)
    PROVE  Guarded(u)
  <1>1. Careful(t, s)
    BY DEF Careful, Carries
  <1> QED BY <1>1, JoinGuarded

LEMMA ReportedGuarded ==
    ASSUME NEW s, NEW t, NEW u, Joins(u, s, t), NEW R, NEW a, NEW b, Reports(t, R, a, b), Guarded(s)
    PROVE  Guarded(u)
  <1>1. Careful(t, s)
    BY DEF Careful, Reports
  <1> QED BY <1>1, JoinGuarded

LEMMA FenceKept ==
    ASSUME FenceInv, stream' = stream, cursor' = cursor, baseline' = baseline,
           (input = None) = (input' = None),
           input # None => /\ SameInput /\ input'.phase = input.phase /\ input'.history = input.history
                           /\ \A r : KeptOf(r)
    PROVE  FenceInv'
  <1>1. ASSUME NEW r \in Rooms, Open(stream, r) PROVE LossOpen(r)'
    <2>1. LossOpen(r)
      BY <1>1 DEF FenceInv
    <2>2. CASE input = None
      BY <2>1, <2>2 DEF LossOpen, Working
    <2>3. CASE input # None
      <3>1. Listed(r)' = Listed(r) /\ input'.full = input.full
        BY <2>3 DEF KeptOf, SameInput
      <3> QED BY <2>1, <2>3, <3>1 DEF LossOpen, Working
    <2> QED BY <2>2, <2>3
  <1> QED BY <1>1 DEF FenceInv, NoLoss

LEMMA FenceCaptured ==
    ASSUME Shape, FenceInv, Capture
    PROVE  FenceInv'
  <1>1. UNCHANGED <<cursor, baseline, stream>> /\ input = None /\ input'.phase = "new"
    BY CaptureIs DEF Untouched
  <1>2. ASSUME NEW r \in Rooms, Open(stream, r) PROVE LossOpen(r)'
    BY <1>1, <1>2 DEF FenceInv, LossOpen, Working
  <1> QED BY <1>1, <1>2 DEF FenceInv, NoLoss

LEMMA FenceCompleted ==
    ASSUME Shape, FenceInv, Complete
    PROVE  FenceInv'
  <1>1. PICK e : e = CompleteRecord(input)
    OBVIOUS
  <1>2. /\ UNCHANGED <<cursor, baseline>> /\ input # None /\ input' = None /\ cursor = input.upto
        /\ e.kind = IF input.full THEN "complete_full" ELSE "complete"
        /\ Joins(stream', stream, <<e>>)
    BY <1>1, CompleteIs
  <1>3. PICK t : t = <<e>>
    OBVIOUS
  <1>4. Len(t) = 1 /\ t[1] = e /\ \A k \in 1..Len(t) : t[k].kind # "event" /\ t[k].kind # "loss"
    <2>1. e.kind # "event" /\ e.kind # "loss"
      BY <1>2
    <2> QED BY <1>3, <2>1
  <1>5. Careful(t, stream)
    BY <1>4 DEF Careful
  <1>6. Guarded(stream')
    BY <1>2, <1>3, <1>5, JoinGuarded DEF FenceInv
  <1>7. cursor' # None
    <2>1. input.upto \in Positions
      BY <1>2 DEF Shape, TypeOK, Retained
    <2> QED BY <1>2, <2>1, RecoveryAssumption
  <1>8. ASSUME NEW r \in Rooms, Open(stream', r) PROVE LossOpen(r)'
    <2>1. Open(stream, r)
      BY <1>2, <1>3, <1>4, <1>8, JoinOpen
    <2>2. r \in baseline => input.full
      BY <2>1 DEF FenceInv, LossOpen
    <2>3. ~input.full
      <3> SUFFICES ASSUME input.full PROVE FALSE
        OBVIOUS
      <3>1. PICK n \in Nat : n = Len(stream')
        BY <1>2 DEF Joins
      <3>2. n = Len(stream) + 1 /\ Len(stream) \in Nat /\ stream'[n].kind = "complete_full"
        <4>1. /\ Len(stream') = Len(stream) + Len(t) /\ stream'[Len(stream) + 1] = t[1]
              /\ Len(stream) \in Nat
          BY <1>2, <1>3, <1>4 DEF Joins
        <4> QED BY <1>2, <1>4, <3>1, <4>1
      <3>3. PICK i \in 1..n : /\ stream'[i].kind = "loss"
                              /\ \A k \in (i + 1)..n : stream'[k].kind # "complete_full"
        BY <1>8, <3>1 DEF Open
      <3>4. i # n
        BY <3>2, <3>3
      <3>5. n \in (i + 1)..n
        BY <3>1, <3>3, <3>4
      <3> QED BY <3>2, <3>3, <3>5
    <2> QED BY <1>2, <2>2, <2>3 DEF LossOpen, Working
  <1> QED BY <1>6, <1>7, <1>8 DEF FenceInv

LEMMA FenceBegun ==
    ASSUME Shape, FenceInv, Begins
    PROVE  FenceInv'
  <1>1. /\ Given /\ input.phase = "new" /\ input.since # None /\ input'.history = Unknown
        /\ cursor' = cursor /\ baseline' = baseline /\ (\A r : KeptOf(r))
    BY BeginsKeeps DEF Begins
  <1>2. PICK m, e, l : /\ Joins(m, stream, e) /\ Carries(e, Device, Messages, "none")
                       /\ Joins(stream', m, l) /\ Reports(l, Unknown, Base(input.since), input.upto)
    BY DEF Begins, BeginStream
  <1>3. "none" \notin LiveLike
    BY DEF LiveLike
  <1>4. Guarded(m)
    BY <1>2, <1>3, CarriedGuarded DEF FenceInv
  <1>5. Guarded(stream')
    BY <1>2, <1>4, ReportedGuarded
  <1>6. cursor' # None
    BY <1>1 DEF Given, ResponseOK
  <1>7. ASSUME NEW r \in Rooms, Open(stream', r) PROVE LossOpen(r)'
    <2>1. Open(m, r) \/ r \in Unknown
      BY <1>2, <1>7, ReportedOpen
    <2>2. Open(stream, r) \/ r \in Unknown
      BY <1>2, <2>1, CarriedOpen
    <2>3. r \notin baseline
      BY <1>1, <2>2 DEF FenceInv, LossOpen, Unknown
    <2>4. Listed(r)' = Listed(r)
      BY <1>1 DEF KeptOf
    <2>5. Listed(r) => r \in input'.history
      BY <1>1, <2>3 DEF Unknown
    <2> QED BY <1>1, <2>3, <2>4, <2>5 DEF LossOpen
  <1> QED BY <1>5, <1>6, <1>7 DEF FenceInv

LEMMA FenceTailed ==
    ASSUME Shape, FenceInv, TailStep
    PROVE  FenceInv'
  <1>1. PICK in, R : Ends(in, R)
    BY DEF TailStep
  <1>2. Given
    BY DEF TailStep
  <1>3. /\ R \subseteq in.history /\ input'.phase = "prepared" /\ cursor' = input.upto
        /\ input' \in Retained /\ SameInput
    BY <1>1 DEF Ends
  <1>4. PICK m, n, b, d, t, D :
          /\ Joins(m, stream, b) /\ Joins(n, m, d) /\ Joins(stream', n, t)
          /\ Reports(b, R, Base(input.since), input.upto)
          /\ Carries(d, Device, D, "none") /\ TailCarried(t, in)
    BY <1>1 DEF Ends, TailStream
  <1>5. \/ input.phase = "tail" /\ in.history = input.history /\ R = {}
        \/ /\ input.phase = "new" /\ in.history = Unknown
           /\ R = IF input.since = None THEN {} ELSE Unknown
    BY <1>1 DEF Ends
  <1>6. cursor' # None /\ input' # None
    <2>1. input.upto \in Positions
      BY <1>2, GivenFacts DEF Retained
    <2> QED BY <1>3, <2>1, RecoveryAssumption
  <1>7. "none" \notin LiveLike /\ "history" \notin LiveLike
    BY DEF LiveLike
  <1>8. Guarded(m)
    BY <1>4, ReportedGuarded DEF FenceInv
  <1>9. Guarded(n)
    BY <1>4, <1>7, <1>8, CarriedGuarded
  (* an open loss is an old one, or just reported *)
  <1>10. ASSUME NEW r, Open(n, r) PROVE Open(stream, r) \/ r \in R
    <2>1. Open(m, r)
      BY <1>4, <1>10, CarriedOpen
    <2> QED BY <1>4, <2>1, ReportedOpen
  <1>11. ASSUME NEW r \in Rooms, Open(stream, r) PROVE r \notin baseline
    BY <1>5, <1>11 DEF FenceInv, LossOpen
  <1>12. ASSUME NEW r \in Rooms, Listed(r), Open(n, r) PROVE r \in in.history
    <2>1. CASE r \in R
      BY <1>3, <2>1
    <2>2. CASE Open(stream, r)
      <3>1. CASE input.phase = "tail"
        <4>1. Working
          BY <1>2, <3>1 DEF Working, Given
        <4> QED BY <1>5, <1>12, <2>2, <3>1, <4>1 DEF FenceInv, LossOpen
      <3>2. CASE input.phase = "new"
        BY <1>5, <1>11, <1>12, <2>2, <3>2 DEF Unknown
      <3> QED BY <1>5, <3>1, <3>2
    <2> QED BY <1>10, <1>12, <2>1, <2>2
  <1>13. Careful(t, n)
    <2> SUFFICES ASSUME NEW k \in 1..Len(t), t[k].provenance \in LiveLike
                 PROVE  /\ ~Open(n, t[k].room)
                        /\ \A h \in 1..Len(t) : ~(t[h].kind = "loss" /\ t[h].room = t[k].room)
      BY DEF Careful
    <2>1. \A h \in 1..Len(t) : t[h].kind # "loss"
      BY <1>4 DEF TailCarried
    <2>2. /\ t[k].room \in Rooms /\ Listed(t[k].room)
          /\ t[k].room \in in.history => t[k].provenance = "history"
      BY <1>4 DEF TailCarried
    <2>3. t[k].room \notin in.history
      BY <1>7, <2>2
    <2> QED BY <1>12, <2>1, <2>2, <2>3
  <1>14. Guarded(stream')
    BY <1>4, <1>9, <1>13, JoinGuarded
  <1>15. ASSUME NEW r \in Rooms, Open(stream', r) PROVE LossOpen(r)'
    <2>1. \A h \in 1..Len(t) : t[h].kind # "loss"
      BY <1>4 DEF TailCarried
    <2>2. Open(n, r)
      BY <1>4, <1>15, <2>1, JoinOpen
    <2>3. Open(stream, r) \/ r \in R
      BY <1>10, <2>2
    <2>4. r \notin baseline
      BY <1>5, <1>11, <2>3 DEF Unknown
    <2>5. input.since # None
      <3> SUFFICES ASSUME input.since = None PROVE FALSE
        OBVIOUS
      <3>1. cursor = None /\ R = {}
        BY <1>2, <1>5 DEF Given, ResponseOK
      <3>2. NoLoss(stream)
        BY <3>1 DEF FenceInv
      <3> QED BY <2>3, <3>1, <3>2 DEF NoLoss, Open
    <2>6. ~input.full => baseline' = baseline
      BY <1>1, <2>5 DEF Ends
    <2>7. input'.full = input.full
      BY <1>3 DEF SameInput
    <2> QED BY <1>3, <1>6, <2>4, <2>6, <2>7 DEF LossOpen, Working
  <1> QED BY <1>6, <1>14, <1>15 DEF FenceInv

LEMMA FencePaged ==
    ASSUME Shape, FenceInv, Walks, PageStep
    PROVE  FenceInv'
  <1>1. Given /\ input.phase = "recover" /\ log' = log /\ Working
    BY DEF Walks, Given, Working
  <1>2. PICK in, S, end, done, loss, excuse :
          /\ PageInput(in) /\ S \in SUBSET (1..MaxLog) /\ done \in BOOLEAN /\ loss \in BOOLEAN
          /\ CommitPage(in, S, end, done, loss, excuse) /\ PageReach(in, end, done)
    BY ZenonT(40) DEF PageStep
  <1>3. done \/ end \in Positions
    BY <1>2 DEF PageReach
  <1>4. PICK lost \in BOOLEAN : lost = (loss \/ Stops(S))
    OBVIOUS
  <1>5. PageNext(in, S, end, done, lost) /\ PageDurable(S, lost, excuse) /\ PageStream(S, lost)
    BY <1>1, <1>2, <1>3, <1>4, PageContinues, PageStreams
  <1>6. /\ input' \in Retained /\ SameInput /\ cursor' = cursor
        /\ input'.history = IF lost THEN input.history \cup {Room} ELSE input.history
        /\ baseline' = IF lost THEN baseline \ {Room} ELSE baseline
    BY <1>5 DEF PageNext, PageDurable
  <1>7. \A r : KeptOf(r)
    BY <1>6, PageKeeps
  <1>8. PICK m, e, l, v : /\ Joins(m, stream, e) /\ Joins(stream', m, l)
                          /\ Carries(e, Room, Whole(S), v) /\ (Room \in input.history => v = "history")
                          /\ Reports(l, IF lost THEN {Room} ELSE {}, Base(input.since), input.upto)
    BY <1>5 DEF PageStream
  <1>9. Room \in Rooms /\ Listed(Room)
    BY <1>1, RoomIs
  <1>10. v \in LiveLike => ~Open(stream, Room)
    <2>1. v \in LiveLike => Room \notin input.history
      BY <1>8 DEF LiveLike
    <2> QED BY <1>1, <1>9, <2>1 DEF FenceInv, LossOpen
  <1>11. Guarded(m)
    BY <1>8, <1>10, CarriedGuarded DEF FenceInv
  <1>12. Guarded(stream')
    BY <1>8, <1>11, ReportedGuarded
  <1>13. cursor' # None
    <2>1. cursor = input.since /\ input.since # None
      BY <1>1 DEF Given, ResponseOK
    <2> QED BY <1>6, <2>1
  <1>14. ASSUME NEW r \in Rooms, Open(stream', r) PROVE LossOpen(r)'
    <2>1. Open(m, r) \/ (lost /\ r = Room)
      BY <1>8, <1>14, ReportedOpen
    <2>2. Open(stream, r) \/ (lost /\ r = Room)
      BY <1>8, <2>1, CarriedOpen
    <2>3. r \notin baseline'
      BY <1>1, <1>6, <2>2 DEF FenceInv, LossOpen
    <2>4. Listed(r)' = Listed(r)
      BY <1>7 DEF KeptOf
    <2>5. Listed(r) => r \in input'.history
      BY <1>1, <1>6, <2>2 DEF FenceInv, LossOpen
    <2> QED BY <2>3, <2>4, <2>5 DEF LossOpen
  <1> QED BY <1>12, <1>13, <1>14 DEF FenceInv

LEMMA FenceStep ==
    ASSUME Shape, FenceInv, [Next]_vars
    PROVE  FenceInv'
  <1>1. CASE Quiet
    <2>1. UNCHANGED <<log, cursor, baseline, input, stream>>
      BY <1>1 DEF Quiet
    <2>2. SameInput /\ \A r : KeptOf(r)
      BY <2>1 DEF SameInput, KeptOf, Interval, Events, TailOf, Listed, Limited, PrevBatch
    <2> QED BY <2>1, <2>2, FenceKept
  <1>2. ASSUME NEW r \in Rooms \cup {Device}, ServerEvent(r) PROVE FenceInv'
    <2>1. /\ UNCHANGED <<cursor, baseline, input, stream>>
          /\ input # None => SameInput /\ \A x : KeptOf(x)
      BY <1>2, ServerEventIs DEF durable
    <2> QED BY <2>1, FenceKept
  <1>3. CASE Walks /\ Narrows
    <2>1. Given
      BY <1>3 DEF Walks
    <2>2. UNCHANGED <<cursor, baseline, stream>>
      BY <1>3 DEF Narrows
    <2>3. /\ input' # None /\ input # None /\ SameInput /\ input'.phase = input.phase
          /\ input'.history = input.history /\ \A r : KeptOf(r)
      BY <1>3, <2>1, NarrowsIs DEF Given
    <2> QED BY <2>2, <2>3, FenceKept
  <1> QED BY <1>1, <1>2, <1>3, Steps, FencePaged, FenceCaptured, FenceCompleted, FenceBegun, FenceTailed

LEMMA FenceInit ==
    ASSUME Init
    PROVE  FenceInv
  <1>1. stream = <<>> /\ Len(stream) = 0
    BY DEF Init
  <1> QED BY <1>1 DEF FenceInv, Guarded, NoLoss, Open

(* After a loss no event of the room is presented as live or recovered     *)
(* before a full-state response is completed, by this response, a later    *)
(* one or a restarted session.                                             *)
THEOREM LossesFence == Spec => []Fenced
  <1>1. Init => Shape /\ FenceInv
    BY InitShape, FenceInit
  <1>2. Shape /\ FenceInv /\ [Next]_vars => (Shape /\ FenceInv)'
    BY ShapeStep, FenceStep
  <1>3. FenceInv => Fenced
    BY DEF FenceInv, Guarded, LiveLike, Fenced
  <1> QED BY <1>1, <1>2, <1>3, PTL DEF Spec

-----------------------------------------------------------------------------
(* Order: how far the stream has got in each room and in the messages *)
Passed(r) == \E j \in 1..Len(Candidates) : j < input.index /\ Candidates[j] = r

Reached(r) ==
    IF ~Working THEN Base(cursor)
    ELSE IF Passed(r) THEN PrevBatch(r)
    ELSE IF Walked /\ r = Room THEN input.from
    ELSE Base(input.since)

MessagesReached == IF Working THEN input.upto ELSE Base(cursor)

OrderInv ==
    /\ Increasing(stream)
    /\ Bounded(stream, Device, MessagesReached)
    /\ \A r \in Rooms : Bounded(stream, r, Reached(r))
    /\ Walked => input.from <= PrevBatch(Room)

NoEvents(t) == \A k \in 1..Len(t) : t[k].kind # "event"

LEMMA SilentOrder ==
    ASSUME NEW s, NEW t, NEW u, Joins(u, s, t), NoEvents(t)
    PROVE  /\ Increasing(s) => Increasing(u)
           /\ \A r, n : Bounded(s, r, n) => Bounded(u, r, n)
  <1>1. Increasing(t) /\ Ahead(t, s)
    BY DEF Increasing, Ahead, NoEvents
  <1>2. \A r, n : Bounded(t, r, n)
    BY DEF Bounded, NoEvents
  <1> QED BY <1>1, <1>2, JoinIncreasing, JoinBounded

LEMMA ReportsSilent ==
    ASSUME NEW t, NEW R, NEW a, NEW b, Reports(t, R, a, b)
    PROVE  NoEvents(t)
  BY DEF NoEvents, Reports

LEMMA BoundedMore ==
    ASSUME NEW s \in Seq(Record), NEW r, NEW n \in Nat, NEW k \in Nat, n <= k, Bounded(s, r, n)
    PROVE  Bounded(s, r, k)
  <1> SUFFICES ASSUME NEW i \in 1..Len(s), s[i].kind = "event", s[i].room = r
               PROVE  s[i].upto <= k
    BY DEF Bounded
  <1>1. s[i] \in Record /\ s[i].upto <= n
    BY DEF Bounded
  <1>2. s[i].upto \in Nat
    BY <1>1, RecoveryAssumption DEF Record, Positions
  <1> QED BY <1>1, <1>2

LEMMA CarriedBounded ==
    ASSUME NEW s, NEW t, NEW u, Joins(u, s, t), NEW x, NEW S, NEW v, Carries(t, x, S, v),
           NEW r, NEW n, Bounded(s, r, n), r = x => \A p \in S : p <= n
    PROVE  Bounded(u, r, n)
  <1>1. Bounded(t, r, n)
    BY DEF Bounded, Carries
  <1> QED BY <1>1, JoinBounded

LEMMA CarriedIncreasing ==
    ASSUME NEW s, NEW t, NEW u, Joins(u, s, t), NEW x, NEW S \in SUBSET Nat, NEW v, Carries(t, x, S, v),
           NEW n \in Nat, Increasing(s), Bounded(s, x, n), \A p \in S : n < p
    PROVE  Increasing(u)
  <1>1. ASSUME NEW i \in 1..Len(s), NEW k \in 1..Len(t), s[i].room = t[k].room, s[i].kind = "event"
        PROVE  s[i].upto < t[k].upto
    <2>1. t[k].room = x /\ t[k].upto \in S
      BY DEF Carries
    <2>2. s[i].upto <= n /\ n < t[k].upto /\ t[k].upto \in Nat
      BY <1>1, <2>1 DEF Bounded
    <2>3. s[i] \in Record
      BY DEF Joins
    <2>4. s[i].upto \in Nat
      BY <2>3, RecoveryAssumption DEF Record, Positions
    <2> QED BY <2>2, <2>4
  <1>2. Ahead(t, s)
    BY <1>1 DEF Ahead
  <1> QED BY <1>2, JoinIncreasing DEF Carries

(* A room is never read past the start of its tail. *)
LEMMA ReachedIs ==
    ASSUME Given, OrderInv, Working, NEW r \in Rooms
    PROVE  Reached(r) \in Nat /\ Reached(r) <= PrevBatch(r)
  <1>1. /\ PrevBatch(r) \in Nat /\ Base(input.since) <= PrevBatch(r) /\ Base(input.since) \in Nat
    BY PrevBatchIs, GivenFacts
  <1>2. CASE Passed(r)
    BY <1>1, <1>2 DEF Reached
  <1>3. CASE ~Passed(r) /\ Walked /\ r = Room
    <2>1. Reached(r) = input.from /\ input.from <= PrevBatch(r)
      BY <1>3 DEF Reached, OrderInv
    <2>2. input.from \in Nat
      BY GivenFacts, RecoveryAssumption DEF Retained, Positions
    <2> QED BY <2>1, <2>2
  <1>4. CASE ~Passed(r) /\ ~(Walked /\ r = Room)
    BY <1>1, <1>4 DEF Reached
  <1> QED BY <1>2, <1>3, <1>4

LEMMA OrderKept ==
    ASSUME Shape, OrderInv, stream' = stream, cursor' = cursor, (input = None) = (input' = None),
           input # None => /\ SameInput /\ input'.index = input.index /\ input'.from = input.from
                           /\ input'.phase = input.phase
                           /\ (\A r : KeptOf(r)) /\ Candidates' = Candidates /\ Room' = Room
    PROVE  OrderInv'
  <1>1. CASE input = None
    <2>1. ~Working /\ ~Working' /\ ~Walked'
      BY <1>1 DEF Working, Walked
    <2>2. MessagesReached' = MessagesReached /\ \A r : Reached(r)' = Reached(r)
      BY <2>1 DEF MessagesReached, Reached, Base
    <2> QED BY <2>1, <2>2 DEF OrderInv
  <1>2. CASE input # None
    <2>1. Working' = Working /\ Walked' = Walked
      BY <1>2 DEF Working, Walked
    <2>2. \A r : PrevBatch(r)' = PrevBatch(r)
      BY <1>2 DEF KeptOf
    <2>3. \A r : Passed(r)' = Passed(r)
      BY <1>2 DEF Passed
    <2>4. MessagesReached' = MessagesReached
      BY <1>2, <2>1 DEF MessagesReached, Base, SameInput
    <2>5. ASSUME NEW r PROVE Reached(r)' = Reached(r)
      <3>1. Base(input.since)' = Base(input.since) /\ Base(cursor)' = Base(cursor)
        BY <1>2 DEF SameInput, Base
      <3> QED BY <1>2, <2>1, <2>2, <2>3, <3>1 DEF Reached
    <2>6. Walked' => input'.from <= PrevBatch(Room)'
      <3>1. PICK c : c = Room
        OBVIOUS
      <3>2. Room' = c /\ PrevBatch(c)' = PrevBatch(c)
        BY <1>2, <2>2, <3>1
      <3>3. PrevBatch(Room)' = PrevBatch(Room)
        BY <3>1, <3>2, ZenonT(40) DEF PrevBatch, TailOf, Interval, Events
      <3> QED BY <1>2, <2>1, <3>3 DEF OrderInv
    <2> QED BY <2>4, <2>5, <2>6 DEF OrderInv
  <1> QED BY <1>1, <1>2

LEMMA OrderCaptured ==
    ASSUME Shape, OrderInv, Capture
    PROVE  OrderInv'
  <1>1. UNCHANGED <<cursor, stream>> /\ input = None /\ input'.phase = "new"
    BY CaptureIs DEF Untouched
  <1>2. ~Working /\ ~Working' /\ ~Walked'
    BY <1>1 DEF Working, Walked
  <1>3. MessagesReached' = MessagesReached /\ \A r : Reached(r)' = Reached(r)
    BY <1>1, <1>2 DEF MessagesReached, Reached, Base
  <1> QED BY <1>1, <1>2, <1>3 DEF OrderInv

LEMMA OrderCompleted ==
    ASSUME Shape, OrderInv, Complete
    PROVE  OrderInv'
  <1>1. PICK e : e = CompleteRecord(input)
    OBVIOUS
  <1>2. /\ UNCHANGED cursor /\ input.phase = "prepared" /\ input' = None
        /\ e.kind = IF input.full THEN "complete_full" ELSE "complete"
        /\ Joins(stream', stream, <<e>>)
    BY <1>1, CompleteIs
  <1>3. PICK t : t = <<e>>
    OBVIOUS
  <1>4. NoEvents(t)
    <2>1. e.kind # "event"
      BY <1>2
    <2> QED BY <1>3, <2>1 DEF NoEvents
  <1>5. ~Working /\ ~Working' /\ ~Walked'
    BY <1>2 DEF Working, Walked
  <1>6. MessagesReached' = MessagesReached /\ \A r : Reached(r)' = Reached(r)
    BY <1>2, <1>5 DEF MessagesReached, Reached, Base
  <1>7. Increasing(stream') /\ \A r, n : Bounded(stream, r, n) => Bounded(stream', r, n)
    BY <1>2, <1>3, <1>4, SilentOrder DEF OrderInv
  <1> QED BY <1>5, <1>6, <1>7 DEF OrderInv

LEMMA OrderBegun ==
    ASSUME Shape, OrderInv, Begins
    PROVE  OrderInv'
  <1>1. /\ Given /\ input.phase = "new" /\ input'.index = 1 /\ input'.from = Base(input.since)
        /\ input' # None /\ input'.phase = "recover" /\ (\A r : KeptOf(r))
        /\ Room' = Candidates[1] /\ Candidates[1] \in Rooms
        /\ Base(input'.since) = Base(input.since) /\ input'.upto = input.upto
    BY BeginsKeeps DEF Begins
  <1>2. PICK m, e, l : /\ Joins(m, stream, e) /\ Carries(e, Device, Messages, "none")
                       /\ Joins(stream', m, l) /\ Reports(l, Unknown, Base(input.since), input.upto)
    BY DEF Begins, BeginStream
  <1>3. PICK a \in Nat : a = Base(input.since)
    BY <1>1, GivenFacts
  <1>4. PICK b \in Nat : b = input.upto /\ a <= b
    BY <1>1, <1>3, GivenFacts
  <1>5. cursor = input.since /\ ~Working
    BY <1>1 DEF Given, ResponseOK, Working
  <1>6. MessagesReached = a /\ \A r : Reached(r) = a
    BY <1>3, <1>5 DEF MessagesReached, Reached
  <1>7. Working' /\ Walked' /\ MessagesReached' = b
    BY <1>1, <1>4 DEF Working, Walked, MessagesReached
  <1>8. ASSUME NEW r PROVE Reached(r)' = a
    <2>1. ~Passed(r)'
      BY <1>1 DEF Passed
    <2> QED BY <1>1, <1>3, <1>7, <2>1 DEF Reached
  <1>9. Messages \in SUBSET Nat /\ \A p \in Messages : a < p /\ p <= b
    BY <1>3, <1>4 DEF Messages, Events
  <1>10. /\ Increasing(stream) /\ Bounded(stream, Device, a) /\ stream \in Seq(Record)
         /\ \A r \in Rooms : Bounded(stream, r, a)
    BY <1>6 DEF OrderInv, Shape, TypeOK
  <1>11. Increasing(m)
    BY <1>2, <1>9, <1>10, CarriedIncreasing
  <1>12. Bounded(m, Device, b)
    <2>1. Bounded(stream, Device, b)
      BY <1>4, <1>10, BoundedMore
    <2> QED BY <1>2, <1>9, <2>1, CarriedBounded
  <1>13. ASSUME NEW r \in Rooms PROVE Bounded(m, r, a)
    <2>1. r # Device
      BY RecoveryAssumption
    <2> QED BY <1>2, <1>10, <2>1, CarriedBounded
  <1>14. NoEvents(l)
    BY <1>2, ReportsSilent
  <1>15. Increasing(stream') /\ Bounded(stream', Device, b) /\ \A r \in Rooms : Bounded(stream', r, a)
    BY <1>2, <1>11, <1>12, <1>13, <1>14, SilentOrder
  <1>16. input'.from <= PrevBatch(Room)'
    <2>1. PICK c : c = Candidates[1]
      OBVIOUS
    <2>2. PrevBatch(c)' = PrevBatch(c) /\ Room' = c
      BY <1>1, <2>1 DEF KeptOf
    <2>3. PrevBatch(Room)' = PrevBatch(c)
      BY <2>2 DEF PrevBatch, TailOf, Interval, Events
    <2>4. a <= PrevBatch(c)
      BY <1>1, <1>3, PrevBatchIs
    <2> QED BY <1>1, <1>3, <2>3, <2>4
  <1> QED BY <1>7, <1>8, <1>15, <1>16 DEF OrderInv

LEMMA OrderTailed ==
    ASSUME Shape, OrderInv, TailStep
    PROVE  OrderInv'
  <1>1. PICK in, R : Ends(in, R)
    BY DEF TailStep
  <1>2. Given
    BY DEF TailStep
  <1>3. input'.phase = "prepared" /\ cursor' = input.upto
    BY <1>1 DEF Ends
  <1>4. input.phase = "tail" \/ input.phase = "new"
    BY <1>1 DEF Ends
  <1>5. PICK D : D = IF input.prologue THEN {} ELSE Messages
    OBVIOUS
  <1>6. PICK m, n, l, d, t :
          /\ Joins(m, stream, l) /\ Joins(n, m, d) /\ Joins(stream', n, t)
          /\ Reports(l, R, Base(input.since), input.upto)
          /\ Carries(d, Device, D, "none") /\ TailCarried(t, in)
    BY <1>1, <1>5 DEF Ends, TailStream
  <1>7. PICK a \in Nat : a = Base(input.since)
    BY <1>2, GivenFacts
  <1>8. PICK b \in Nat : b = input.upto /\ a <= b
    BY <1>2, <1>7, GivenFacts
  <1>9. cursor = input.since
    BY <1>2, <1>4 DEF Given, ResponseOK
  <1>10. ASSUME NEW r \in Rooms PROVE Reached(r) \in Nat /\ Reached(r) <= PrevBatch(r)
    <2>1. CASE Working
      BY <1>2, <2>1, ReachedIs
    <2>2. CASE ~Working
      <3>1. Reached(r) = a /\ a <= PrevBatch(r)
        BY <1>2, <1>7, <1>9, <2>2, PrevBatchIs DEF Reached
      <3> QED BY <3>1
    <2> QED BY <2>1, <2>2
  <1>11. Increasing(stream) /\ stream \in Seq(Record)
    BY DEF OrderInv, Shape, TypeOK
  (* the losses *)
  <1>12. NoEvents(l)
    BY <1>6, ReportsSilent
  <1>13. Increasing(m) /\ \A r, k : Bounded(stream, r, k) => Bounded(m, r, k)
    BY <1>6, <1>11, <1>12, SilentOrder
  <1>14. m \in Seq(Record) /\ n \in Seq(Record)
    BY <1>6 DEF Joins
  (* the messages *)
  <1>15. D \in SUBSET Nat /\ \A p \in D : a < p /\ p <= b
    BY <1>5, <1>7, <1>8 DEF Messages, Events
  <1>16. Increasing(n) /\ Bounded(n, Device, b)
    <2>1. CASE input.phase = "new"
      <3>1. MessagesReached = a
        BY <1>7, <1>9, <2>1 DEF MessagesReached, Working
      <3>2. Bounded(m, Device, a)
        BY <1>13, <3>1 DEF OrderInv
      <3>3. Bounded(m, Device, b)
        BY <1>8, <1>14, <3>2, BoundedMore
      <3>4. Increasing(n)
        BY <1>6, <1>13, <1>15, <3>2, CarriedIncreasing
      <3>5. Bounded(n, Device, b)
        BY <1>6, <1>15, <3>3, CarriedBounded
      <3> QED BY <3>4, <3>5
    <2>2. CASE input.phase = "tail"
      <3>1. MessagesReached = b /\ D = {}
        <4>1. Working /\ input.prologue
          BY <1>2, <2>2 DEF Working, Given, ResponseOK
        <4> QED BY <1>5, <1>8, <4>1 DEF MessagesReached
      <3>2. Bounded(m, Device, b)
        BY <1>13, <3>1 DEF OrderInv
      <3>3. Increasing(n)
        BY <1>6, <1>8, <1>13, <1>15, <3>1, <3>2, CarriedIncreasing
      <3>4. Bounded(n, Device, b)
        BY <1>6, <1>15, <3>2, CarriedBounded
      <3> QED BY <3>3, <3>4
    <2> QED BY <1>4, <2>1, <2>2
  <1>17. ASSUME NEW r \in Rooms PROVE Bounded(n, r, Reached(r))
    <2>1. r # Device /\ Bounded(m, r, Reached(r))
      BY <1>13, RecoveryAssumption DEF OrderInv
    <2> QED BY <1>6, <2>1, CarriedBounded
  (* the tail *)
  <1>18. ASSUME NEW k \in 1..Len(t)
         PROVE  /\ t[k].room \in Rooms /\ t[k].upto \in Nat /\ t[k].upto <= b
                /\ PrevBatch(t[k].room) \in Nat /\ PrevBatch(t[k].room) < t[k].upto
    <2>1. PICK r : r = t[k].room
      OBVIOUS
    <2>2. PICK p : p = t[k].upto
      OBVIOUS
    <2>3. r \in Rooms /\ p \in TailOf(r)
      BY <1>6, <2>1, <2>2 DEF TailCarried
    <2>4. p \in Interval(r)
      BY <1>2, <2>3, TailIs
    <2>5. p \in Nat /\ p <= input.upto
      BY <1>2, <2>4, IntervalIs
    <2>6. PrevBatch(r) \in Nat /\ PrevBatch(r) < p
      BY <1>2, <2>3, <2>4, PrevBatchIs
    <2> QED BY <1>8, <2>1, <2>2, <2>3, <2>5, <2>6
  <1>19. Ahead(t, n)
    <2> SUFFICES ASSUME NEW i \in 1..Len(n), NEW k \in 1..Len(t), n[i].room = t[k].room,
                        n[i].kind = "event"
                 PROVE  n[i].upto < t[k].upto
      BY DEF Ahead
    <2>1. PICK r : r = t[k].room
      OBVIOUS
    <2>2. r \in Rooms /\ t[k].upto \in Nat /\ PrevBatch(r) \in Nat /\ PrevBatch(r) < t[k].upto
      BY <1>18, <2>1
    <2>3. n[i].upto <= Reached(r) /\ Reached(r) \in Nat /\ Reached(r) <= PrevBatch(r)
      BY <1>10, <1>17, <2>1, <2>2 DEF Bounded
    <2>4. n[i] \in Record
      BY <1>14
    <2>5. n[i].upto \in Nat
      BY <2>4, RecoveryAssumption DEF Record, Positions
    <2> QED BY <2>2, <2>3, <2>5
  <1>20. Increasing(stream')
    BY <1>6, <1>16, <1>19, JoinIncreasing DEF TailCarried
  <1>21. \A r : Bounded(t, r, b)
    BY <1>18 DEF Bounded
  <1>22. Bounded(stream', Device, b)
    BY <1>6, <1>16, <1>21, JoinBounded
  <1>23. ASSUME NEW r \in Rooms PROVE Bounded(stream', r, b)
    <2>1. Reached(r) \in Nat /\ Reached(r) <= b
      BY <1>2, <1>8, <1>10, PrevBatchIs
    <2>2. Bounded(n, r, b)
      BY <1>14, <1>17, <2>1, BoundedMore
    <2> QED BY <1>6, <1>21, <2>2, JoinBounded
  <1>24. ~Working' /\ ~Walked' /\ Base(cursor)' = b
    <2>1. input.upto \in Positions
      BY <1>2, GivenFacts DEF Retained
    <2>2. input.upto # None
      BY <2>1, RecoveryAssumption
    <2> QED BY <1>3, <1>8, <2>2 DEF Working, Walked, Base
  <1>25. MessagesReached' = b /\ \A r : Reached(r)' = b
    BY <1>24 DEF MessagesReached, Reached
  <1> QED BY <1>20, <1>22, <1>23, <1>24, <1>25 DEF OrderInv

LEMMA OrderPaged ==
    ASSUME Shape, OrderInv, Walks, PageStep, TailLimit > 0
    PROVE  OrderInv'
  <1>1. Given /\ input.phase = "recover" /\ log' = log /\ Working /\ Walked
    BY DEF Walks, Given, Working, Walked
  <1>2. PICK in, S, end, done, loss, excuse :
          /\ PageInput(in) /\ S \in SUBSET (1..MaxLog) /\ done \in BOOLEAN /\ loss \in BOOLEAN
          /\ CommitPage(in, S, end, done, loss, excuse)
          /\ PageReach(in, end, done) /\ PageOrder(S, end, done, loss, excuse)
    BY ZenonT(40) DEF PageStep
  <1>3. done \/ end \in Positions
    BY <1>2 DEF PageReach
  <1>4. PICK lost \in BOOLEAN : lost = (loss \/ Stops(S))
    OBVIOUS
  <1>5. PageNext(in, S, end, done, lost) /\ PageStream(S, lost)
    BY <1>1, <1>2, <1>3, <1>4, PageContinues, PageStreams
  <1>6. PICK leaves \in BOOLEAN : leaves = (done \/ Stops(S))
    OBVIOUS
  <1>7. /\ input' \in Retained /\ SameInput
        /\ Base(input'.since) = Base(input.since) /\ input'.upto = input.upto
        /\ leaves => /\ input'.index = input.index + 1 /\ input'.from = Base(input.since)
                     /\ input'.phase = IF input.index + 1 > Len(Candidates) THEN "tail" ELSE "recover"
        /\ ~leaves => input'.index = input.index /\ input'.from = end /\ input'.phase = "recover"
    BY <1>1, <1>5, <1>6 DEF PageNext, SameInput
  <1>8. /\ input' # None /\ (\A r : KeptOf(r)) /\ Candidates' = Candidates
        /\ input'.index = input.index => Room' = Room
    BY <1>7, PageKeeps
  <1>9. PICK m, e, l, v : /\ Joins(m, stream, e) /\ Joins(stream', m, l)
                          /\ Carries(e, Room, Whole(S), v)
                          /\ Reports(l, IF lost THEN {Room} ELSE {}, Base(input.since), input.upto)
    BY <1>5 DEF PageStream
  <1>10. PICK c : c = Room
    OBVIOUS
  <1>11. /\ c \in Rooms /\ c = Candidates[input.index] /\ input.index \in 1..Len(Candidates)
         /\ Len(Candidates) \in Nat
         /\ \A j \in 1..Len(Candidates) : Candidates[j] = c => j = input.index
    BY <1>1, <1>10, RoomIs, CandidatesAre
  <1>12. PICK a \in Nat : a = Base(input.since)
    BY <1>1, GivenFacts
  <1>13. PICK f \in Nat : f = input.from
    BY <1>1, GivenFacts, RecoveryAssumption DEF Retained, Positions
  <1>14. PICK q \in Nat : q = PrevBatch(c) /\ f <= q
    BY <1>1, <1>10, <1>13, PrevBatchIs DEF OrderInv
  <1>15. /\ \A p \in S : f < p /\ p <= q
         /\ ~leaves => end <= q /\ \A p \in S : p <= end
    BY <1>2, <1>6, <1>10, <1>13, <1>14 DEF PageOrder
  <1>16. ~leaves => end \in Nat /\ f <= end
    BY <1>2, <1>6, <1>13, RecoveryAssumption DEF PageReach, Positions
  <1>17. ~Passed(c)
    BY <1>11 DEF Passed
  <1>18. Reached(c) = f
    BY <1>1, <1>10, <1>13, <1>17 DEF Reached
  <1>19. Whole(S) \in SUBSET Nat /\ Whole(S) \in SUBSET S
    <2>1. S \in SUBSET Nat
      BY <1>2
    <2>2. Whole(S) \in SUBSET S
      BY DEF Whole
    <2> QED BY <2>1, <2>2
  <1>20. Increasing(stream) /\ stream \in Seq(Record) /\ Bounded(stream, c, f)
    BY <1>11, <1>18 DEF OrderInv, Shape, TypeOK
  <1>21. Carries(e, c, Whole(S), v) /\ \A p \in Whole(S) : f < p /\ p <= q
    BY <1>9, <1>10, <1>15, <1>19
  <1>22. Increasing(m)
    BY <1>9, <1>19, <1>20, <1>21, CarriedIncreasing
  <1>23. NoEvents(l)
    BY <1>9, ReportsSilent
  <1>24. Increasing(stream') /\ \A r, n : Bounded(m, r, n) => Bounded(stream', r, n)
    BY <1>9, <1>22, <1>23, SilentOrder
  <1>25. Working'
    BY <1>7, <1>8 DEF Working
  <1>26. Bounded(stream', Device, MessagesReached')
    <2>1. c # Device /\ MessagesReached' = MessagesReached
      BY <1>1, <1>7, <1>11, <1>25, RecoveryAssumption DEF MessagesReached
    <2>2. Bounded(m, Device, MessagesReached)
      BY <1>9, <1>21, <2>1, CarriedBounded DEF OrderInv
    <2> QED BY <1>24, <2>1, <2>2
  <1>27. \A r : PrevBatch(r)' = PrevBatch(r)
    BY <1>8 DEF KeptOf
  (* the room of the page *)
  <1>28. PICK z : z = IF leaves THEN q ELSE end
    OBVIOUS
  <1>29. z \in Nat /\ f <= z /\ \A p \in Whole(S) : p <= z
    BY <1>14, <1>15, <1>16, <1>19, <1>28
  <1>30. Reached(c)' = z
    <2>1. CASE leaves
      <3>1. Passed(c)'
        <4>1. input.index < input'.index
          BY <1>7, <1>11, <2>1
        <4> QED BY <1>8, <1>11, <4>1 DEF Passed
      <3> QED BY <1>14, <1>25, <1>27, <1>28, <2>1, <3>1 DEF Reached
    <2>2. CASE ~leaves
      <3>1. ~Passed(c)' /\ Room' = c /\ Walked'
        BY <1>7, <1>8, <1>10, <1>17, <2>2 DEF Passed, Walked
      <3> QED BY <1>7, <1>25, <1>28, <2>2, <3>1 DEF Reached
    <2> QED BY <2>1, <2>2
  <1>31. Bounded(stream', c, Reached(c)')
    <2>1. Bounded(stream, c, z)
      BY <1>20, <1>29, BoundedMore
    <2>2. Bounded(m, c, z)
      BY <1>9, <1>21, <1>29, <2>1, CarriedBounded
    <2> QED BY <1>24, <1>30, <2>2
  (* the others *)
  <1>32. ASSUME NEW r \in Rooms, r # c PROVE Bounded(stream', r, Reached(r)')
    <2>1. Passed(r)' = Passed(r)
      <3>1. ASSUME NEW j \in 1..Len(Candidates), Candidates[j] = r
            PROVE  j < input'.index <=> j < input.index
        <4>1. j # input.index
          BY <1>11, <1>32, <3>1
        <4>2. CASE leaves
          BY <1>7, <1>11, <4>1, <4>2
        <4>3. CASE ~leaves
          BY <1>7, <4>3
        <4> QED BY <4>2, <4>3
      <3> QED BY <1>8, <3>1 DEF Passed
    <2>2. Walked' /\ r = Room' => input'.from = a
      <3>1. leaves => input'.from = a
        BY <1>7, <1>12
      <3>2. ~leaves => Room' = c
        BY <1>7, <1>8, <1>10
      <3> QED BY <1>32, <3>1, <3>2
    <2>3. Reached(r)' = Reached(r)
      <3>1. Reached(r) = IF Passed(r) THEN PrevBatch(r) ELSE a
        BY <1>1, <1>10, <1>12, <1>32 DEF Reached
      <3>2. Reached(r)' = IF Passed(r)' THEN PrevBatch(r)' ELSE a
        BY <1>7, <1>12, <1>25, <2>2 DEF Reached
      <3> QED BY <1>27, <2>1, <3>1, <3>2
    <2>4. Bounded(m, r, Reached(r))
      BY <1>9, <1>21, <1>32, CarriedBounded DEF OrderInv
    <2> QED BY <1>24, <2>3, <2>4
  <1>33. Walked' => input'.from <= PrevBatch(Room)'
    <2> SUFFICES ASSUME Walked' PROVE input'.from <= PrevBatch(Room)'
      OBVIOUS
    <2>1. PICK d : d = Room'
      OBVIOUS
    <2>2. PrevBatch(Room)' = PrevBatch(d)
      <3>1. PrevBatch(d)' = PrevBatch(d)
        BY <1>27
      <3> QED BY <2>1, <3>1 DEF PrevBatch, TailOf, Interval, Events
    <2>3. CASE leaves
      BY <1>1, <1>7, <2>2, <2>3, PrevBatchIs
    <2>4. CASE ~leaves
      BY <1>7, <1>8, <1>10, <1>14, <1>15, <2>1, <2>2, <2>4
    <2> QED BY <2>3, <2>4
  <1>34. \A r \in Rooms : Bounded(stream', r, Reached(r)')
    BY <1>31, <1>32
  <1> QED BY <1>24, <1>26, <1>33, <1>34 DEF OrderInv

LEMMA OrderStep ==
    ASSUME Shape, OrderInv, [Next]_vars, TailLimit > 0
    PROVE  OrderInv'
  <1>1. CASE Quiet
    <2>1. UNCHANGED <<log, cursor, input, stream>>
      BY <1>1 DEF Quiet
    <2>2. /\ SameInput /\ (\A r : KeptOf(r)) /\ Candidates' = Candidates /\ Room' = Room
      BY <2>1 DEF SameInput, KeptOf, Interval, Events, TailOf, Listed, Limited, PrevBatch,
                  Candidates, Room
    <2> QED BY <2>1, <2>2, OrderKept
  <1>2. ASSUME NEW r \in Rooms \cup {Device}, ServerEvent(r) PROVE OrderInv'
    <2>1. /\ UNCHANGED <<cursor, input, stream>>
          /\ input # None => /\ SameInput /\ (\A x : KeptOf(x)) /\ Candidates' = Candidates
                             /\ Room' = Room
      BY <1>2, ServerEventIs DEF durable
    <2> QED BY <2>1, OrderKept
  <1>3. CASE Walks /\ Narrows
    <2>1. Given
      BY <1>3 DEF Walks
    <2>2. UNCHANGED <<cursor, stream>>
      BY <1>3 DEF Narrows
    <2>3. /\ input' # None /\ input # None /\ SameInput /\ input'.phase = input.phase
          /\ input'.index = input.index /\ input'.from = input.from
          /\ (\A r : KeptOf(r)) /\ Candidates' = Candidates /\ Room' = Room
      BY <1>3, <2>1, NarrowsIs DEF Given
    <2> QED BY <2>2, <2>3, OrderKept
  <1> QED BY <1>1, <1>2, <1>3, Steps, OrderPaged, OrderCaptured, OrderCompleted, OrderBegun, OrderTailed

LEMMA OrderInit ==
    ASSUME Init
    PROVE  OrderInv
  <1>1. stream = <<>> /\ Len(stream) = 0 /\ input = None
    BY DEF Init
  <1> QED BY <1>1 DEF OrderInv, Increasing, Bounded, Walked

(* If the sync responses carry at least one event of a limited room, the   *)
(* events of a room and the to-device messages are committed in the order  *)
(* of the server's log and never twice: not by two pages, by a page and    *)
(* the tail, by prologue and tail after a restart, or by two responses.    *)
THEOREM OrderPreserved ==
    ASSUME TailLimit > 0
    PROVE  Spec => []Chronological
  <1>1. Init => Shape /\ OrderInv
    BY InitShape, OrderInit
  <1>2. Shape /\ OrderInv /\ [Next]_vars => (Shape /\ OrderInv)'
    BY ShapeStep, OrderStep
  <1>3. OrderInv => Chronological
    BY DEF OrderInv, Increasing, Chronological
  <1> QED BY <1>1, <1>2, <1>3, PTL DEF Spec

(* Under the same condition what was committed belongs to the captured     *)
(* response or an earlier one: pages never bring events past it.           *)
THEOREM InputRespected ==
    ASSUME TailLimit > 0
    PROVE  Spec => []WithinInput
  <1>1. Init => Shape /\ OrderInv
    BY InitShape, OrderInit
  <1>2. Shape /\ OrderInv /\ [Next]_vars => (Shape /\ OrderInv)'
    BY ShapeStep, OrderStep
  <1>3. Shape /\ OrderInv => WithinInput
    <2> SUFFICES ASSUME Shape, OrderInv, NEW i \in 1..Len(stream), stream[i].kind = "event"
                 PROVE  \/ stream[i].upto <= Base(cursor)
                        \/ input # None /\ stream[i].upto <= input.upto
      BY DEF WithinInput
    <2>1. stream[i] \in Record
      BY DEF Shape, TypeOK
    <2>2. stream[i].room \in Rooms \cup {Device} /\ stream[i].upto \in Nat
      BY <2>1, RecoveryAssumption DEF Record, Positions
    <2>3. CASE stream[i].room = Device
      <3>1. stream[i].upto <= MessagesReached
        BY <2>3 DEF OrderInv, Bounded
      <3> QED BY <3>1 DEF MessagesReached, Working
    <2>4. CASE stream[i].room \in Rooms
      <3>1. PICK r \in Rooms : r = stream[i].room
        BY <2>4
      <3>2. stream[i].upto <= Reached(r)
        BY <3>1 DEF OrderInv, Bounded
      <3>3. CASE ~Working
        BY <3>2, <3>3 DEF Reached
      <3>4. CASE Working
        <4>1. Given
          BY <3>4 DEF Given, Working, Shape
        <4>2. Reached(r) \in Nat /\ Reached(r) <= PrevBatch(r)
          BY <3>4, <4>1, ReachedIs
        <4>3. PrevBatch(r) \in Nat /\ PrevBatch(r) <= input.upto /\ input.upto \in Nat
          BY <4>1, PrevBatchIs, GivenFacts
        <4>4. stream[i].upto <= input.upto
          BY <2>2, <3>2, <4>2, <4>3
        <4> QED BY <3>4, <4>4 DEF Working
      <3> QED BY <3>3, <3>4
    <2> QED BY <2>2, <2>3, <2>4
  <1> QED BY <1>1, <1>2, <1>3, PTL DEF Spec

-----------------------------------------------------------------------------
(* Losses have a reason. *)
Excuses(s, x) == \A i \in 1..Len(s) : s[i].kind = "loss" => <<s[i].room, s[i].upto>> \in x

LEMMA JoinExcuses ==
    ASSUME NEW s, NEW t, NEW u, Joins(u, s, t), NEW x, Excuses(s, x), Excuses(t, x)
    PROVE  Excuses(u, x)
  <1> SUFFICES ASSUME NEW i \in 1..Len(u), u[i].kind = "loss" PROVE <<u[i].room, u[i].upto>> \in x
    BY DEF Excuses
  <1>1. CASE i \in 1..Len(s)
    <2>1. u[i] = s[i]
      BY <1>1 DEF Joins
    <2> QED BY <1>1, <2>1 DEF Excuses
  <1>2. CASE i \notin 1..Len(s)
    <2>1. PICK k \in 1..Len(t) : u[i] = t[k]
      BY <1>2 DEF Joins
    <2> QED BY <2>1 DEF Excuses
  <1> QED BY <1>1, <1>2

LEMMA ReportsExcused ==
    ASSUME NEW t, NEW R, NEW a, NEW b, Reports(t, R, a, b), NEW x, \A r \in R : <<r, b>> \in x
    PROVE  Excuses(t, x)
  BY DEF Excuses, Reports

LEMMA CarriesExcused ==
    ASSUME NEW t, NEW r, NEW S, NEW v, Carries(t, r, S, v), NEW x
    PROVE  Excuses(t, x)
  BY DEF Excuses, Carries

LEMMA ExcusesMore ==
    ASSUME NEW s, NEW x, NEW y, x \subseteq y, Excuses(s, x)
    PROVE  Excuses(s, y)
  BY DEF Excuses

LEMMA ExcusedStep ==
    ASSUME Shape, OrderInv, Excuses(stream, excused), [Next]_vars, TailLimit > 0
    PROVE  Excuses(stream', excused')
  <1>1. CASE Quiet \/ Narrows
    BY <1>1 DEF Quiet, Narrows
  <1>2. ASSUME NEW r \in Rooms \cup {Device}, ServerEvent(r) PROVE Excuses(stream', excused')
    <2>1. UNCHANGED <<stream, excused>>
      BY <1>2 DEF ServerEvent, durable, history
    <2> QED BY <2>1
  <1>3. CASE Capture
    BY <1>3, CaptureIs
  <1>4. CASE Complete
    <2>1. PICK e : e = CompleteRecord(input)
      OBVIOUS
    <2>2. /\ excused' = excused /\ Joins(stream', stream, <<e>>)
          /\ e.kind = IF input.full THEN "complete_full" ELSE "complete"
      BY <1>4, <2>1, CompleteIs
    <2>3. PICK t : t = <<e>>
      OBVIOUS
    <2>4. e.kind # "loss"
      BY <2>2
    <2>5. Excuses(t, excused)
      BY <2>3, <2>4 DEF Excuses
    <2> QED BY <2>2, <2>3, <2>5, JoinExcuses
  <1>5. CASE Begins
    <2>1. PICK m, e, l : /\ Joins(m, stream, e) /\ Carries(e, Device, Messages, "none")
                         /\ Joins(stream', m, l)
                         /\ Reports(l, Unknown, Base(input.since), input.upto)
      BY <1>5 DEF Begins, BeginStream
    <2>2. excused' = excused \cup {<<r, input.upto>> : r \in Unknown}
      BY <1>5 DEF Begins
    <2>3. Excuses(stream, excused')
      BY <2>2, ExcusesMore
    <2>4. Excuses(m, excused')
      BY <2>1, <2>3, CarriesExcused, JoinExcuses
    <2>5. \A r \in Unknown : <<r, input.upto>> \in excused'
      BY <2>2
    <2>6. Excuses(l, excused')
      BY <2>1, <2>5, ReportsExcused
    <2> QED BY <2>1, <2>4, <2>6, JoinExcuses
  <1>6. CASE TailStep
    <2>1. PICK in, R : Ends(in, R)
      BY <1>6 DEF TailStep
    <2>2. PICK V : V = IF input.phase = "new" THEN Unknown ELSE {}
      OBVIOUS
    <2>3. /\ excused' = excused \cup {<<r, input.upto>> : r \in V} /\ R \subseteq V
      BY <2>1, <2>2 DEF Ends
    <2>4. PICK m, n, b, d, t, D :
            /\ Joins(m, stream, b) /\ Joins(n, m, d) /\ Joins(stream', n, t)
            /\ Reports(b, R, Base(input.since), input.upto)
            /\ Carries(d, Device, D, "none") /\ TailCarried(t, in)
      BY <2>1 DEF Ends, TailStream
    <2>5. Excuses(stream, excused')
      BY <2>3, ExcusesMore
    <2>6. \A r \in R : <<r, input.upto>> \in excused'
      BY <2>3
    <2>7. Excuses(b, excused')
      BY <2>4, <2>6, ReportsExcused
    <2>8. Excuses(m, excused')
      BY <2>4, <2>5, <2>7, JoinExcuses
    <2>9. Excuses(n, excused')
      BY <2>4, <2>8, CarriesExcused, JoinExcuses
    <2>10. Excuses(t, excused')
      BY <2>4 DEF TailCarried, Excuses
    <2> QED BY <2>4, <2>9, <2>10, JoinExcuses
  <1>7. CASE Walks /\ PageStep
    <2>1. Given /\ input.phase = "recover" /\ Walked
      BY <1>7 DEF Walks, Given, Walked
    <2>2. PICK in, S, end, done, loss, excuse :
            /\ PageInput(in) /\ S \in SUBSET (1..MaxLog) /\ done \in BOOLEAN /\ loss \in BOOLEAN
            /\ CommitPage(in, S, end, done, loss, excuse)
            /\ PageReach(in, end, done) /\ PageOrder(S, end, done, loss, excuse)
      BY <1>7, ZenonT(40) DEF PageStep
    <2>3. done \/ end \in Positions
      BY <2>2 DEF PageReach
    <2>4. PICK lost \in BOOLEAN : lost = (loss \/ Stops(S))
      OBVIOUS
    <2>5. PageDurable(S, lost, excuse) /\ PageStream(S, lost)
      BY <2>1, <2>2, <2>3, <2>4, PageContinues, PageStreams
    <2>6. PICK m, e, l, v : /\ Joins(m, stream, e) /\ Joins(stream', m, l)
                            /\ Carries(e, Room, Whole(S), v)
                            /\ Reports(l, IF lost THEN {Room} ELSE {}, Base(input.since), input.upto)
      BY <2>5 DEF PageStream
    <2>7. loss => excuse
      BY <2>1, <2>2 DEF OrderInv, PageOrder
    <2>8. excused' = IF excuse \/ Stops(S) THEN excused \cup {<<Room, input.upto>>} ELSE excused
      BY <2>5 DEF PageDurable
    <2>9. excused \subseteq excused' /\ (lost => <<Room, input.upto>> \in excused')
      BY <2>4, <2>7, <2>8
    <2>10. Excuses(stream, excused')
      BY <2>9, ExcusesMore
    <2>11. Excuses(m, excused')
      BY <2>6, <2>10, CarriesExcused, JoinExcuses
    <2>12. \A r \in IF lost THEN {Room} ELSE {} : <<r, input.upto>> \in excused'
      BY <2>9
    <2>13. Excuses(l, excused')
      BY <2>6, <2>12, ReportsExcused
    <2> QED BY <2>6, <2>11, <2>13, JoinExcuses
  <1> QED BY <1>1, <1>2, <1>3, <1>4, <1>5, <1>6, <1>7, Steps

(* Under the same condition a loss is reported for a reason only (no       *)
(* baseline, a page the server failed to supply, an exhausted bound or an  *)
(* oversized event), and it fences what follows in its room.               *)
THEOREM LossesHandled ==
    ASSUME TailLimit > 0
    PROVE  Spec => []LossHandled
  <1>1. Init => /\ Shape /\ OrderInv /\ FenceInv
                /\ Excuses(stream, excused)
    <2>1. Init => Excuses(stream, excused)
      BY DEF Init, Excuses
    <2> QED BY <2>1, InitShape, OrderInit, FenceInit
  <1>2. Shape /\ OrderInv /\ FenceInv /\ Excuses(stream, excused) /\ [Next]_vars
          => (Shape /\ OrderInv /\ FenceInv /\ Excuses(stream, excused))'
    BY ShapeStep, OrderStep, FenceStep, ExcusedStep
  <1>3. FenceInv /\ Excuses(stream, excused) => LossHandled
    BY DEF FenceInv, Guarded, LiveLike, Excuses, LossHandled, Fenced, LossExcused
  <1> QED BY <1>1, <1>2, <1>3, PTL DEF Spec

=============================================================================
