------------------------ MODULE LocalMembershipProofs ------------------------
(***************************************************************************)
(* Proofs about LocalMembership, for any rooms, callers and filter, any    *)
(* log and any number of commands, restarts and failures.                  *)
(***************************************************************************)
EXTENDS LocalMembership, SequenceTheorems, Orders

-----------------------------------------------------------------------------
(* The inductive invariant *)

OptPosition == Nat \cup {None}
MetaRecords ==
    [membership : Memberships \cup {None}, epoch : Nat, baseline : BOOLEAN, nonjoined : OptPosition,
     asof : Nat]
PollRecords == [since : OptPosition, newly : Rooms \cup {None}, full : BOOLEAN, upto : OptPosition]
CallerRecords ==
    [at : {"idle", "idle_wait", "lock_wait", "inside"}, command : CommandRecords \cup {None}]
StreamRecords ==
    [room : Rooms \cup {None}, previous : Memberships \cup {None}, epoch : Nat,
     current : Memberships \cup {None}, next : Nat, source : {"local", "sync", "complete"}]

Types ==
    /\ mlog \in Seq(Rooms \X (Memberships \cup {"message"})) /\ cursor \in (0..Len(mlog)) \cup {None}
    /\ meta \in [Rooms -> MetaRecords] /\ intent \in IntentRecords \cup {None}
    /\ input \in InputRecords \cup {None} /\ stream \in Seq(StreamRecords)
    /\ rpc \in {"loop", "source", "woken", "poll", "lock_wait", "decode", "prepare", "apply"}
    /\ lock \in Callers \cup {Run, None} /\ stage \in {"none", "drain", "http", "ok"}
    /\ queue \in Seq(Callers \cup {Run}) /\ caller \in [Callers -> CallerRecords]

(* A change of membership is a change. *)
Alternates ==
    \A i \in 1..Len(mlog) :
        mlog[i][2] # "message" => mlog[i][2] # MembershipAt(mlog[i][1], i - 1)

(* Who waits for the lock, who has it, and for what. *)
RunWaits == \A i \in 1..Len(queue) : queue[i] = Run => rpc = "lock_wait"
CallersWait ==
    \A i \in 1..Len(queue) : queue[i] \in Callers => caller[queue[i]].at = "lock_wait"
NoneTwice == \A i, j \in 1..Len(queue) : queue[i] = queue[j] => i = j
CallersOK ==
    \A c \in Callers : /\ caller[c].at # "idle" => caller[c].command \in CommandRecords
                       /\ caller[c].at = "lock_wait" => \E i \in 1..Len(queue) : queue[i] = c
                       /\ lock = c => caller[c].at = "inside"
QueueOK == RunWaits /\ CallersWait /\ NoneTwice /\ CallersOK
StageOK ==
    /\ stage # "none" => intent # None /\ intent.sequence = None /\ lock # None
    /\ stage \in {"http", "ok"} => input = None /\ Matches(intent)
    /\ intent # None /\ intent.sequence = None => ~intent.observed
    /\ lock = Run <=> rpc \in {"apply", "decode"}
    /\ rpc = "decode" => stage = "none"
    /\ owned => rpc = "poll"

(* A response starts from the cursor and ends no later than the log. *)
Answer(a) ==
    /\ a.since = cursor
    /\ a.newly # None => cursor # None /\ MembershipAt(a.newly, cursor) # "join"
    /\ a.upto # None => a.upto \in Base(cursor)..Len(mlog)
FlowOK ==
    /\ rpc \in {"source", "woken", "poll", "lock_wait", "decode", "apply"} => input = None
    /\ rpc = "prepare" => input # None /\ ~input.prepared
    /\ rpc \in {"poll", "lock_wait", "decode"} => poll \in PollRecords /\ Answer(poll)
    /\ rpc \in {"lock_wait", "decode"} => poll.upto # None
    /\ input # None /\ ~input.prepared => Answer(input)

(* What a response that may still observe an operation was computed after. *)
FreshOK ==
    intent # None /\ ~intent.raced =>
        /\ stage # "none" /\ lock # Run => ~ready /\ ~owned /\ rpc \notin {"woken", "lock_wait"}
        /\ intent.done # None =>
            /\ intent.done <= Len(mlog)
            /\ owned /\ poll.upto # None => poll.upto >= intent.done
            /\ rpc \in {"lock_wait", "decode"} => poll.upto >= intent.done
            /\ input # None /\ ~input.prepared => input.upto >= intent.done
            /\ intent.observed => intent.seen >= intent.done

(* What is retained of a room: where it was not joined, up to where it was *)
(* looked at, that it agrees with the server unless a local operation has  *)
(* not been observed, and that its baseline is of this tenure.             *)
NonJoined ==
    \A r \in Rooms : meta[r].nonjoined # None =>
        meta[r].nonjoined <= Len(mlog) /\ MembershipAt(r, meta[r].nonjoined) # "join"
Agrees ==
    \A r \in Rooms \ Hidden :
        Unobserved(r) \/ Local(meta[r].membership) = Local(MembershipAt(r, Base(cursor)))
BaselineOK ==
    /\ BaselineCurrent
    /\ \A r \in Rooms : /\ meta[r].asof <= Base(cursor)
                        /\ meta[r].baseline => ~Unobserved(r)

MembershipInv ==
    /\ Types /\ Alternates /\ QueueOK /\ StageOK /\ FlowOK /\ FreshOK
    /\ NonJoined /\ Agrees /\ BaselineOK

-----------------------------------------------------------------------------
(* The server's log *)

LEMMA LargestChange ==
    ASSUME mlog \in Seq(Rooms \X (Memberships \cup {"message"})), NEW r, NEW from \in Nat,
           NEW n \in 0..Len(mlog), Changes(r, from, n) # {}
    PROVE  /\ Largest(Changes(r, from, n)) \in Changes(r, from, n)
           /\ \A j \in Changes(r, from, n) : j <= Largest(Changes(r, from, n))
  <1> DEFINE S == Changes(r, from, n)
  <1>1. S \in SUBSET Nat /\ (\A y \in S : y <= n) /\ n \in Nat
    BY DEF Changes
  <1>2. S # {}
    OBVIOUS
  <1> HIDE DEF S
  <1>3. \E x \in S : \A y \in S : y <= x
    BY <1>1, <1>2, LargestNatural
  <1> QED BY <1>3 DEF Largest, S

LEMMA MembershipType ==
    ASSUME mlog \in Seq(Rooms \X (Memberships \cup {"message"})), NEW r, NEW n \in 0..Len(mlog)
    PROVE  MembershipAt(r, n) \in Memberships
  <1>1. CASE Changes(r, 0, n) = {}
    BY <1>1 DEF MembershipAt, Memberships
  <1>2. CASE Changes(r, 0, n) # {}
    <2>1. PICK i : i = Largest(Changes(r, 0, n))
      OBVIOUS
    <2>2. i \in Changes(r, 0, n)
      BY <1>2, <2>1, LargestChange
    <2>3. i \in 1..Len(mlog) /\ mlog[i][2] # "message"
      BY <2>2 DEF Changes
    <2>4. mlog[i] \in Rooms \X (Memberships \cup {"message"})
      BY <2>3
    <2>5. mlog[i][2] \in Memberships
      BY <2>3, <2>4
    <2> QED BY <1>2, <2>1, <2>5 DEF MembershipAt
  <1> QED BY <1>1, <1>2

(* No change, same membership. *)
LEMMA NoChange ==
    ASSUME mlog \in Seq(Rooms \X (Memberships \cup {"message"})), NEW r, NEW n \in 0..Len(mlog),
           NEW from \in 0..n, Changes(r, from, n) = {}
    PROVE  MembershipAt(r, n) = MembershipAt(r, from)
  <1>1. Changes(r, 0, n) = Changes(r, 0, from)
    BY DEF Changes
  <1> QED BY <1>1 DEF MembershipAt

(* What the log says of the past stays when it grows. *)
LEMMA LogGrows ==
    ASSUME mlog \in Seq(Rooms \X (Memberships \cup {"message"})),
           NEW e \in Rooms \X (Memberships \cup {"message"}), mlog' = Append(mlog, e)
    PROVE  /\ mlog' \in Seq(Rooms \X (Memberships \cup {"message"})) /\ Len(mlog') = Len(mlog) + 1
           /\ \A r : \A n \in 0..Len(mlog) :
                /\ MembershipAt(r, n)' = MembershipAt(r, n)
                /\ \A from \in Nat : Changes(r, from, n)' = Changes(r, from, n)
  <1>1. mlog' \in Seq(Rooms \X (Memberships \cup {"message"})) /\ Len(mlog') = Len(mlog) + 1
        /\ \A i \in 1..Len(mlog) : mlog'[i] = mlog[i]
    OBVIOUS
  <1>2. ASSUME NEW r, NEW n \in 0..Len(mlog), NEW from \in Nat
        PROVE  Changes(r, from, n)' = Changes(r, from, n)
    BY <1>1 DEF Changes
  <1>3. ASSUME NEW r, NEW n \in 0..Len(mlog) PROVE MembershipAt(r, n)' = MembershipAt(r, n)
    <2>1. PICK S : S = Changes(r, 0, n)
      OBVIOUS
    <2>2. Changes(r, 0, n)' = S
      BY <1>2, <2>1
    <2>3. CASE S = {}
      BY <2>1, <2>2, <2>3 DEF MembershipAt
    <2>4. CASE S # {}
      <3>1. Largest(S) \in S
        BY <2>1, <2>4, LargestChange
      <3>2. Largest(S) \in 1..Len(mlog)
        BY <2>1, <3>1 DEF Changes
      <3>3. mlog'[Largest(S)] = mlog[Largest(S)]
        BY <1>1, <3>2
      <3>4. MembershipAt(r, n) = mlog[Largest(S)][2]
        BY <2>1, <2>4 DEF MembershipAt
      <3>5. MembershipAt(r, n)' = mlog'[Largest(S)][2]
        BY <2>2, <2>4 DEF MembershipAt
      <3> QED BY <3>3, <3>4, <3>5
    <2> QED BY <2>3, <2>4
  <1> QED BY <1>1, <1>2, <1>3

(* A change is appended only when it is one. *)
LEMMA AlternatesKept ==
    ASSUME mlog \in Seq(Rooms \X (Memberships \cup {"message"})), Alternates,
           NEW r \in Rooms, NEW x \in Memberships \cup {"message"}, mlog' = Append(mlog, <<r, x>>),
           x = "message" \/ x # MembershipAt(r, Len(mlog))
    PROVE  Alternates'
  <1>1. <<r, x>> \in Rooms \X (Memberships \cup {"message"})
    OBVIOUS
  <1>2. /\ Len(mlog') = Len(mlog) + 1
        /\ \A s : \A n \in 0..Len(mlog) : MembershipAt(s, n)' = MembershipAt(s, n)
    BY <1>1, LogGrows
  <1>3. mlog'[Len(mlog) + 1] = <<r, x>> /\ \A i \in 1..Len(mlog) : mlog'[i] = mlog[i]
    OBVIOUS
  <1>4. ASSUME NEW i \in 1..Len(mlog'), NEW w, NEW v, w = mlog'[i][1], v = mlog'[i][2],
               v # "message"
        PROVE  v # MembershipAt(w, i - 1)'
    <2>1. CASE i \in 1..Len(mlog)
      <3>1. i - 1 \in 0..Len(mlog) /\ mlog'[i] = mlog[i]
        BY <1>3, <2>1
      <3>2. MembershipAt(w, i - 1)' = MembershipAt(w, i - 1)
        BY <1>2, <3>1
      <3> QED BY <1>4, <2>1, <3>1, <3>2 DEF Alternates
    <2>2. CASE i = Len(mlog) + 1
      <3>1. PICK n : n = Len(mlog)
        OBVIOUS
      <3>2. i - 1 = n /\ w = r /\ v = x /\ n \in 0..Len(mlog)
        BY <1>3, <1>4, <2>2, <3>1
      <3>3. MembershipAt(r, n)' = MembershipAt(r, n)
        BY <1>2, <3>2
      <3> QED BY <1>4, <3>1, <3>2, <3>3
    <2> QED BY <1>2, <2>1, <2>2
  <1> QED BY <1>4 DEF Alternates

-----------------------------------------------------------------------------
(* What a response says of a room *)

LEMMA ChangesFinite ==
    ASSUME NEW r, NEW from \in Nat, NEW n \in Nat
    PROVE  /\ IsFiniteSet(Changes(r, from, n)) /\ Cardinality(Changes(r, from, n)) \in Nat
           /\ Changes(r, from, n) \in SUBSET Nat
  <1>1. Changes(r, from, n) \in SUBSET ((from + 1)..n)
    BY DEF Changes
  <1>2. IsFiniteSet((from + 1)..n)
    BY FS_Interval
  <1>3. IsFiniteSet(Changes(r, from, n))
    BY <1>1, <1>2, FS_Subset
  <1> QED BY <1>1, <1>3, FS_CardinalityType

LEMMA InOrderShape ==
    ASSUME NEW S \in SUBSET Nat, IsFiniteSet(S)
    PROVE  /\ InOrder(S) \in [1..Cardinality(S) -> S]
           /\ \A i, j \in 1..Cardinality(S) : i < j => InOrder(S)[i] < InOrder(S)[j]
           /\ Covers(InOrder(S), S)
  <1>1. \E q \in [1..Cardinality(S) -> S] : \A i, j \in 1..Cardinality(S) : i < j => q[i] < q[j]
    BY IncreasingExists
  <1>2. /\ InOrder(S) \in [1..Cardinality(S) -> S]
        /\ \A i, j \in 1..Cardinality(S) : i < j => InOrder(S)[i] < InOrder(S)[j]
    BY <1>1 DEF InOrder
  <1> QED BY <1>2, IncreasingCovers

(* The response of an input: its part of the log. *)
ResponseOK(in) ==
    /\ in.since \in OptPosition /\ in.upto \in Nat
    /\ Base(in.since) \in Nat /\ in.upto \in Base(in.since)..Len(mlog)

LEMMA SectionIs ==
    ASSUME mlog \in Seq(Rooms \X (Memberships \cup {"message"})), NEW in, ResponseOK(in), NEW r
    PROVE  /\ Section(in, r) \in Memberships
           /\ Local(Section(in, r)) = Local(MembershipAt(r, in.upto))
           /\ Section(in, r) = "join" <=> MembershipAt(r, in.upto) = "join"
  <1>1. in.upto \in 0..Len(mlog)
    BY DEF ResponseOK
  <1>2. MembershipAt(r, in.upto) \in Memberships
    BY <1>1, MembershipType
  <1>3. Section(in, r) = MembershipAt(r, in.upto)
        \/ (Section(in, r) = "leave" /\ MembershipAt(r, in.upto) # "join")
    BY DEF Section
  <1> QED BY <1>2, <1>3 DEF Local, Memberships

LEMMA ReportedIs ==
    ASSUME mlog \in Seq(Rooms \X (Memberships \cup {"message"})), NEW in, ResponseOK(in), NEW r
    PROVE  /\ Reported(in, r) \in Seq(Memberships) /\ Len(Reported(in, r)) >= 1
           /\ Reported(in, r)[Len(Reported(in, r))] = Section(in, r)
           /\ Section(in, r) # "invite" /\ Changes(r, Base(in.since), in.upto) # {} =>
                Reported(in, r)[1] = mlog[InOrder(Changes(r, Base(in.since), in.upto))[1]][2]
  <1>1. PICK C : C = Changes(r, Base(in.since), in.upto)
    OBVIOUS
  <1>2. IsFiniteSet(C) /\ Cardinality(C) \in Nat /\ C \in SUBSET Nat
    BY <1>1, ChangesFinite DEF ResponseOK
  <1>3. PICK q : q = InOrder(C)
    OBVIOUS
  <1>4. q \in [1..Cardinality(C) -> C]
    BY <1>2, <1>3, InOrderShape
  <1>5. PICK n : n = Cardinality(C)
    OBVIOUS
  <1>6. PICK sec : sec = Section(in, r)
    OBVIOUS
  <1>7. sec \in Memberships
    BY <1>6, SectionIs
  <1>8. CASE sec = "invite"
    <2>1. Reported(in, r) = <<"invite">>
      BY <1>6, <1>8 DEF Reported
    <2>2. <<"invite">> \in Seq(Memberships) /\ Len(<<"invite">>) = 1 /\ <<"invite">>[1] = "invite"
      BY DEF Memberships
    <2> QED BY <1>6, <1>8, <2>1, <2>2
  <1>9. CASE sec # "invite"
    <2> DEFINE t == [k \in 1..n |-> mlog[q[k]][2]]
    <2>1. Reported(in, r) = Append(t, sec)
      BY <1>1, <1>3, <1>5, <1>6, <1>9 DEF Reported
    <2>2. ASSUME NEW k \in 1..n PROVE mlog[q[k]][2] \in Memberships
      <3>1. q[k] \in C
        BY <1>4, <1>5
      <3>2. q[k] \in 1..Len(mlog) /\ mlog[q[k]][2] # "message"
        BY <1>1, <3>1 DEF Changes, ResponseOK
      <3>3. mlog[q[k]] \in Rooms \X (Memberships \cup {"message"})
        BY <3>2
      <3> QED BY <3>2, <3>3
    <2>3. t \in [1..n -> Memberships]
      BY <2>2
    <2>4. n \in Nat
      BY <1>2, <1>5
    <2>5. t \in Seq(Memberships) /\ Len(t) = n
      <3> HIDE DEF t
      <3> QED BY <2>3, <2>4
    <2>6. C # {} => n >= 1
      BY <1>2, <1>5, FS_EmptySet
    <2>7. n >= 1 => t[1] = mlog[q[1]][2]
      BY <2>4
    <2> HIDE DEF t
    <2>8. /\ Append(t, sec) \in Seq(Memberships) /\ Len(Append(t, sec)) = n + 1
          /\ Append(t, sec)[n + 1] = sec /\ (n >= 1 => Append(t, sec)[1] = t[1])
      BY <1>7, <2>4, <2>5
    <2> QED BY <1>1, <1>3, <1>6, <2>1, <2>4, <2>6, <2>7, <2>8
  <1> QED BY <1>8, <1>9

LEMMA PathIs ==
    ASSUME Types, NEW in, ResponseOK(in), NEW r \in Rooms
    PROVE  /\ Path(in, r) \in Seq(Memberships \cup {None}) /\ Len(Path(in, r)) >= 2
           /\ Path(in, r)[1] = meta[r].membership
           /\ Path(in, r)[Len(Path(in, r))] = Section(in, r)
           /\ \A k \in 2..Len(Path(in, r)) : Path(in, r)[k] \in Memberships
           /\ ~Unobserved(r) => Path(in, r)[2] = Reported(in, r)[1]
  <1>1. mlog \in Seq(Rooms \X (Memberships \cup {"message"})) /\ meta[r] \in MetaRecords
    BY DEF Types
  <1>2. PICK t : t = IF Unobserved(r) THEN <<Section(in, r)>> ELSE Reported(in, r)
    OBVIOUS
  <1>3. t \in Seq(Memberships) /\ Len(t) >= 1 /\ t[Len(t)] = Section(in, r)
    <2>1. CASE Unobserved(r)
      <3>1. t = <<Section(in, r)>>
        BY <1>2, <2>1
      <3>2. PICK sec : sec = Section(in, r)
        OBVIOUS
      <3>3. sec \in Memberships
        BY <1>1, <3>2, SectionIs
      <3> QED BY <3>1, <3>2, <3>3
    <2>2. CASE ~Unobserved(r)
      BY <1>1, <1>2, <2>2, ReportedIs
    <2> QED BY <2>1, <2>2
  <1>4. PICK m : m = meta[r].membership
    OBVIOUS
  <1>5. m \in Memberships \cup {None}
    BY <1>1, <1>4 DEF MetaRecords
  <1>6. Path(in, r) = <<m>> \o t
    BY <1>2, <1>4 DEF Path
  <1>7. <<m>> \in Seq(Memberships \cup {None}) /\ Len(<<m>>) = 1 /\ <<m>>[1] = m
    BY <1>5
  <1>8. t \in Seq(Memberships \cup {None})
    BY <1>3
  <1>9. /\ <<m>> \o t \in Seq(Memberships \cup {None}) /\ Len(<<m>> \o t) = 1 + Len(t)
        /\ \A i \in 1..(1 + Len(t)) : (<<m>> \o t)[i] = IF i <= 1 THEN <<m>>[i] ELSE t[i - 1]
    BY <1>7, <1>8, ConcatProperties
  <1>10. PICK p : p = <<m>> \o t
    OBVIOUS
  <1>11. Len(t) \in Nat /\ p[1] = m /\ p[1 + Len(t)] = t[Len(t)]
         /\ \A k \in 2..(1 + Len(t)) : p[k] = t[k - 1] /\ t[k - 1] \in Memberships
    BY <1>3, <1>7, <1>9, <1>10
  <1> QED BY <1>2, <1>3, <1>4, <1>6, <1>9, <1>10, <1>11

LEMMA DeparturesType ==
    ASSUME NEW path, NEW k \in Int
    PROVE  Departures(path, k) \in Nat
  <1> DEFINE S == {j \in 1..k : Departs(path[j], path[j + 1]) = 1}
  <1>1. IsFiniteSet(1..k)
    BY FS_Interval
  <1>2. IsFiniteSet(S)
    BY <1>1, FS_Subset
  <1> QED BY <1>2, FS_CardinalityType DEF Departures

-----------------------------------------------------------------------------
(* The transitions a response adds to the stream *)


LEMMA MovesAre ==
    ASSUME Types, NEW in, ResponseOK(in), NEW r \in Rooms
    PROVE  /\ IsFiniteSet(Moves(in, r))
           /\ \A m \in Moves(in, r) :
                /\ m = <<r, m[2]>> /\ m[1] = r /\ m[2] \in 1..(Len(Path(in, r)) - 1)
                /\ Path(in, r)[m[2]] # Path(in, r)[m[2] + 1]
  <1>1. PICK n : n = Len(Path(in, r))
    OBVIOUS
  <1>2. n \in Nat
    BY <1>1, PathIs
  <1>3. IsFiniteSet({r}) /\ IsFiniteSet(1..(n - 1))
    <2>1. IsFiniteSet({r})
      BY FS_Singleton
    <2>2. 1 \in Int /\ n - 1 \in Int
      BY <1>2
    <2>3. IsFiniteSet(1..(n - 1))
      BY <2>2, FS_Interval
    <2> QED BY <2>1, <2>3
  <1>4. IsFiniteSet({r} \X (1..(n - 1)))
    <2>1. PICK A, B : A = {r} /\ B = 1..(n - 1)
      OBVIOUS
    <2>2. IsFiniteSet(A \X B)
      BY <1>3, <2>1, FS_Product
    <2> QED BY <2>1, <2>2
  <1>5. Moves(in, r) \in SUBSET ({r} \X (1..(n - 1)))
    BY <1>1 DEF Moves
  <1>6. IsFiniteSet(Moves(in, r))
    BY <1>4, <1>5, FS_Subset
  <1> QED BY <1>6 DEF Moves

LEMMA AllMovesAre ==
    ASSUME Types, NEW in, ResponseOK(in), NEW rooms \in SUBSET Rooms
    PROVE  /\ IsFiniteSet(AllMoves(in, rooms))
           /\ \A m \in AllMoves(in, rooms) : m[1] \in rooms /\ m \in Moves(in, m[1])
           /\ \A r \in rooms : \A m \in Moves(in, r) : m \in AllMoves(in, rooms)
  <1> DEFINE T == {Moves(in, r) : r \in rooms}
             f == [r \in rooms |-> Moves(in, r)]
  <1>1. f \in Surjection(rooms, T)
    BY DEF Surjection
  <1>2. IsFiniteSet(rooms)
    BY MembershipAssumption, FS_Subset
  <1>3. IsFiniteSet(T)
    <2> HIDE DEF T, f
    <2> QED BY <1>1, <1>2, FS_Surjection
  <1>4. \A X \in T : IsFiniteSet(X)
    BY MovesAre
  <1>5. IsFiniteSet(UNION T)
    <2> HIDE DEF T
    <2> QED BY <1>3, <1>4, FS_UNION
  <1>6. ASSUME NEW m \in AllMoves(in, rooms) PROVE m[1] \in rooms /\ m \in Moves(in, m[1])
    <2>1. PICK r \in rooms : m \in Moves(in, r)
      BY DEF AllMoves
    <2> QED BY <2>1, MovesAre
  <1> QED BY <1>5, <1>6 DEF AllMoves

LEMMA RoomNumberIs ==
    /\ RoomNumber \in [Rooms -> 1..Cardinality(Rooms)] /\ Cardinality(Rooms) \in Nat
    /\ \A r, s \in Rooms : RoomNumber[r] = RoomNumber[s] => r = s
  <1>1. Cardinality(Rooms) \in Nat /\ ExistsBijection(1..Cardinality(Rooms), Rooms)
    BY MembershipAssumption, FS_CardinalityType
  <1>2. PICK n : n = Cardinality(Rooms)
    OBVIOUS
  <1>3. ExistsBijection(Rooms, 1..n)
    <2>1. IsFiniteSet(1..n) /\ Cardinality(1..n) = n
      BY <1>1, <1>2, FS_Interval
    <2> QED BY <1>2, <2>1, MembershipAssumption, FS_SameCardinalityBij
  <1>4. PICK f : f \in Bijection(Rooms, 1..n)
    BY <1>3 DEF ExistsBijection
  <1>5. f \in [Rooms -> 1..n] /\ \A r, s \in Rooms : f[r] = f[s] => r = s
    BY <1>4 DEF Bijection, Injection, IsInjective
  <1> QED BY <1>1, <1>2, <1>5 DEF RoomNumber

(* The sorted moves: all of them, room after room. *)
Sorted(q, M) ==
    /\ q \in [1..Cardinality(M) -> M]
    /\ \A i, j \in 1..Cardinality(M) : i < j => Precedes(q[i], q[j])

LEMMA MovesSorted ==
    ASSUME Types, NEW in, ResponseOK(in), NEW rooms \in SUBSET Rooms
    PROVE  \E q : /\ Sorted(q, AllMoves(in, rooms)) /\ Covers(q, AllMoves(in, rooms))
                  /\ Records(in, AllMoves(in, rooms)) =
                        [k \in 1..Cardinality(AllMoves(in, rooms)) |-> Transition(in, q[k])]
  <1>1. PICK M : M = AllMoves(in, rooms)
    OBVIOUS
  <1>2. IsFiniteSet(M) /\ \A m \in M : m[1] \in Rooms /\ m[2] \in Nat /\ m = <<m[1], m[2]>>
    <2>1. IsFiniteSet(M) /\ \A m \in M : m[1] \in Rooms /\ m \in Moves(in, m[1])
      BY <1>1, AllMovesAre
    <2>2. ASSUME NEW m \in M PROVE m[1] \in Rooms /\ m[2] \in Nat /\ m = <<m[1], m[2]>>
      <3>1. PICK r : r = m[1]
        OBVIOUS
      <3>2. r \in Rooms /\ m \in Moves(in, r)
        BY <2>1, <3>1
      <3>3. m = <<r, m[2]>> /\ m[2] \in 1..(Len(Path(in, r)) - 1)
        BY <3>2, MovesAre
      <3> QED BY <3>1, <3>2, <3>3
    <2> QED BY <2>1, <2>2
  <1> DEFINE R == {ss \in M \X M : Precedes(ss[1], ss[2])}
  <1>3. \A x, y \in M : <<x, y>> \in R <=> Precedes(x, y)
    OBVIOUS
  <1> HIDE DEF R
  <1>4. PICK f : f = RoomNumber
    OBVIOUS
  <1>5. f \in [Rooms -> Nat] /\ \A r, s \in Rooms : f[r] = f[s] => r = s
    BY <1>4, RoomNumberIs
  <1>6. ASSUME NEW x \in M, NEW y \in M
        PROVE  Precedes(x, y) <=> (f[x[1]] < f[y[1]] \/ (x[1] = y[1] /\ x[2] < y[2]))
    BY <1>4 DEF Precedes
  <1>7. ASSUME NEW x \in M, NEW y \in M, x # y
        PROVE  <<x, y>> \in R \/ <<y, x>> \in R
    <2>1. f[x[1]] \in Nat /\ f[y[1]] \in Nat
      BY <1>2, <1>5
    <2>2. CASE x[1] = y[1]
      <3>1. x[2] # y[2]
        BY <1>2, <1>7, <2>2
      <3>2. x[2] < y[2] \/ y[2] < x[2]
        BY <1>2, <3>1
      <3> QED BY <1>3, <1>6, <2>2, <3>2
    <2>3. CASE x[1] # y[1]
      <3>1. f[x[1]] # f[y[1]]
        BY <1>2, <1>5, <2>3
      <3> QED BY <1>3, <1>6, <2>1, <3>1
    <2> QED BY <2>2, <2>3
  <1>8. ASSUME NEW x \in M, NEW y \in M, NEW z \in M, <<x, y>> \in R, <<y, z>> \in R
        PROVE  <<x, z>> \in R
    <2>1. f[x[1]] \in Nat /\ f[y[1]] \in Nat /\ f[z[1]] \in Nat
          /\ x[2] \in Nat /\ y[2] \in Nat /\ z[2] \in Nat
      BY <1>2, <1>5
    <2>2. /\ f[x[1]] < f[y[1]] \/ (x[1] = y[1] /\ x[2] < y[2])
          /\ f[y[1]] < f[z[1]] \/ (y[1] = z[1] /\ y[2] < z[2])
      BY <1>3, <1>6, <1>8
    <2>3. f[x[1]] < f[z[1]] \/ (x[1] = z[1] /\ x[2] < z[2])
      BY <2>1, <2>2
    <2> QED BY <1>3, <1>6, <2>3
  <1>9. Linear(M, R)
    BY <1>7, <1>8 DEF Linear
  <1>10. PICK p : Enumerates(p, M, R)
    BY <1>2, <1>9, Enumeration
  <1>11. Irreflexive(M, R)
    <2>1. ASSUME NEW x \in M, <<x, x>> \in R PROVE FALSE
      <3>1. f[x[1]] \in Nat /\ x[2] \in Nat
        BY <1>2, <1>5
      <3>2. f[x[1]] < f[x[1]] \/ x[2] < x[2]
        BY <1>3, <1>6, <2>1
      <3> QED BY <3>1, <3>2
    <2> QED BY <2>1 DEF Irreflexive
  <1>12. PICK n \in Nat : n = Cardinality(M)
    BY <1>2, FS_CardinalityType
  <1>13. p \in [1..n -> M] /\ \A i, j \in 1..n : i < j => Precedes(p[i], p[j])
    BY <1>3, <1>10, <1>12 DEF Enumerates
  <1>14. Covers(p, M) /\ \A m \in M : \E i \in 1..n : p[i] = m
    BY <1>2, <1>10, <1>11, <1>12, EnumerationCovers DEF Covers
  <1>15. ASSUME NEW k \in 1..n PROVE Cardinality({m \in M : Precedes(m, p[k])}) = k - 1
    <2>1. {m \in M : Precedes(m, p[k])} = {m \in M : <<m, p[k]>> \in R}
      BY <1>3, <1>13
    <2>2. Cardinality({m \in M : <<m, p[k]>> \in R}) = k - 1
      BY <1>2, <1>9, <1>10, <1>11, <1>12, EnumerationRank
    <2> QED BY <2>1, <2>2
  <1>16. ASSUME NEW k \in 1..n PROVE Place(M, k) = p[k]
    <2>1. PICK m : m = Place(M, k)
      OBVIOUS
    <2>2. p[k] \in M
      BY <1>13
    <2>3. m \in M /\ Cardinality({x \in M : Precedes(x, m)}) = k - 1
      BY <1>15, <2>1, <2>2, Zenon DEF Place
    <2>4. PICK i \in 1..n : p[i] = m
      BY <1>14, <2>3
    <2>5. Cardinality({x \in M : Precedes(x, m)}) = i - 1
      BY <1>15, <2>4
    <2> QED BY <2>1, <2>3, <2>4, <2>5
  <1>17. Sorted(p, M)
    BY <1>12, <1>13 DEF Sorted
  <1>18. Records(in, M) = [k \in 1..Cardinality(M) |-> Transition(in, p[k])]
    BY <1>12, <1>16 DEF Records
  <1> QED BY <1>1, <1>14, <1>17, <1>18

LEMMA TransitionType ==
    ASSUME Types, NEW in, ResponseOK(in), NEW r \in Rooms, NEW m \in Moves(in, r)
    PROVE  Transition(in, m) \in StreamRecords
  <1>1. PICK p : p = Path(in, r)
    OBVIOUS
  <1>2. p \in Seq(Memberships \cup {None}) /\ Len(p) >= 2
    BY <1>1, PathIs
  <1>3. m[1] = r /\ m[2] \in 1..(Len(p) - 1)
    BY <1>1, MovesAre
  <1>4. p[m[2]] \in Memberships \cup {None} /\ p[m[2] + 1] \in Memberships \cup {None}
    BY <1>2, <1>3
  <1>5. PICK e : e = meta[r].epoch + Departures(p, m[2] - 1)
    OBVIOUS
  <1>6. e \in Nat
    <2>1. Departures(p, m[2] - 1) \in Nat
      BY <1>3, DeparturesType
    <2>2. meta[r].epoch \in Nat
      BY DEF Types, MetaRecords
    <2> QED BY <1>5, <2>1, <2>2
  <1>7. Departs(p[m[2]], p[m[2] + 1]) \in Nat
    BY DEF Departs
  <1>8. Transition(in, m) = Lifecycle(r, p[m[2]], e, p[m[2] + 1], "sync")
    BY <1>1, <1>3, <1>5 DEF Transition
  <1> QED BY <1>4, <1>6, <1>7, <1>8 DEF Lifecycle, StreamRecords

LEMMA RecordsType ==
    ASSUME Types, NEW in, ResponseOK(in), NEW rooms \in SUBSET Rooms
    PROVE  Records(in, AllMoves(in, rooms)) \in Seq(StreamRecords)
  <1>1. PICK M : M = AllMoves(in, rooms)
    OBVIOUS
  <1>2. PICK q : Sorted(q, M) /\ Records(in, M) = [k \in 1..Cardinality(M) |-> Transition(in, q[k])]
    BY <1>1, MovesSorted
  <1>3. IsFiniteSet(M) /\ \A m \in M : m[1] \in Rooms /\ m \in Moves(in, m[1])
    BY <1>1, AllMovesAre
  <1>4. PICK n \in Nat : n = Cardinality(M)
    BY <1>3, FS_CardinalityType
  <1>5. ASSUME NEW k \in 1..n PROVE Transition(in, q[k]) \in StreamRecords
    <2>1. q[k] \in M
      BY <1>2, <1>4 DEF Sorted
    <2>2. PICK r : r = q[k][1]
      OBVIOUS
    <2>3. r \in Rooms /\ q[k] \in Moves(in, r)
      BY <1>3, <2>1, <2>2
    <2> QED BY <2>3, TransitionType
  <1>6. PICK t : t = [k \in 1..n |-> Transition(in, q[k])]
    OBVIOUS
  <1>7. t \in [1..n -> StreamRecords]
    BY <1>5, <1>6
  <1>8. t \in Seq(StreamRecords)
    BY <1>7
  <1> QED BY <1>1, <1>2, <1>4, <1>6, <1>8

LEMMA BoundaryType ==
    ASSUME Types, NEW in, ResponseOK(in), NEW r \in Rooms
    PROVE  Boundary(in, r) \in MetaRecords
  <1>1. meta[r] \in MetaRecords
    BY DEF Types
  <1>2. Section(in, r) \in Memberships
    BY SectionIs DEF Types
  <1>3. Len(Path(in, r)) - 1 \in Int
    BY PathIs
  <1>4. Departures(Path(in, r), Len(Path(in, r)) - 1) \in Nat
    BY <1>3, DeparturesType
  <1>5. PICK e : e = meta[r].epoch + Departures(Path(in, r), Len(Path(in, r)) - 1)
    OBVIOUS
  <1>6. e \in Nat
    BY <1>1, <1>4, <1>5 DEF MetaRecords
  <1>7. PICK b \in BOOLEAN : b = (Establishes(in, r) \/ (meta[r].baseline /\ Moves(in, r) = {}))
    OBVIOUS
  <1>8. PICK n \in OptPosition : n = IF Section(in, r) = "join" THEN meta[r].nonjoined ELSE in.upto
    BY <1>1 DEF MetaRecords, ResponseOK, OptPosition
  <1>9. PICK a \in Nat : a = IF Establishes(in, r) THEN in.upto ELSE meta[r].asof
    BY <1>1 DEF MetaRecords, ResponseOK
  <1>10. Boundary(in, r) = [membership |-> Section(in, r), epoch |-> e, baseline |-> b,
                            nonjoined |-> n, asof |-> a]
    BY <1>5, <1>7, <1>8, <1>9 DEF Boundary
  <1> QED BY <1>2, <1>6, <1>10 DEF MetaRecords

-----------------------------------------------------------------------------
(* Every step keeps the types *)

Frame == <<mlog, cursor, meta, intent, input, stream, rpc, lock, stage, queue, caller>>

LEMMA TypesFramed ==
    ASSUME Types, UNCHANGED Frame
    PROVE  Types'
  BY DEF Types, Frame

LEMMA LeaveTypes ==
    ASSUME Types, QueueOK, Leave, lock # None
    PROVE  /\ lock' \in Callers \cup {Run, None} /\ stage' \in {"none", "drain", "http", "ok"}
           /\ rpc' \in {"loop", "source", "woken", "poll", "lock_wait", "decode", "prepare", "apply"}
           /\ caller' \in [Callers -> CallerRecords]
  <1>1. CASE lock = Run
    BY <1>1, MembershipAssumption DEF Types, Leave
  <1>2. CASE lock # Run
    <2>1. lock \in Callers
      BY <1>2 DEF Types
    <2>2. [at |-> "idle", command |-> None] \in CallerRecords
      BY DEF CallerRecords
    <2>3. caller' = [caller EXCEPT ![lock] = [at |-> "idle", command |-> None]]
      BY <1>2 DEF Leave, Return
    <2>4. caller' \in [Callers -> CallerRecords]
      BY <2>1, <2>2, <2>3 DEF Types
    <2>5. rpc' = IF rpc = "source" THEN "woken" ELSE rpc
      BY <1>2 DEF Leave
    <2> QED BY <2>4, <2>5 DEF Leave, Types
  <1> QED BY <1>1, <1>2

LEMMA EnterTypes ==
    ASSUME Types, QueueOK, NEW c \in Callers, caller[c].at # "idle", Enter(c)
    PROVE  /\ intent' \in IntentRecords \cup {None}
           /\ intent' # None => intent'.sequence = None /\ ~intent'.observed /\ intent'.done = None
           /\ lock' \in Callers \cup {Run, None} /\ stage' \in {"none", "drain", "http", "ok"}
           /\ caller' \in [Callers -> CallerRecords]
           /\ Matches(caller[c].command) =>
                intent' \in IntentRecords /\ (~intent'.raced => rpc \notin {"woken", "lock_wait"})
  <1>1. caller \in [Callers -> CallerRecords]
    BY DEF Types
  <1>2. PICK command : command = caller[c].command
    OBVIOUS
  <1>3. command \in CommandRecords
    BY <1>2 DEF QueueOK, RunWaits, CallersWait, NoneTwice, CallersOK
  <1>4. [at |-> "idle", command |-> None] \in CallerRecords
        /\ [at |-> "inside", command |-> command] \in CallerRecords
    BY <1>3 DEF CallerRecords
  <1>5. CASE Matches(command)
    <2>1. PICK raced \in BOOLEAN : raced = (rpc \in {"woken", "lock_wait"})
      <3>1. CASE rpc \in {"woken", "lock_wait"}
        <4>1. (rpc \in {"woken", "lock_wait"}) = TRUE
          BY <3>1
        <4> QED BY <4>1
      <3>2. CASE ~(rpc \in {"woken", "lock_wait"})
        <4>1. (rpc \in {"woken", "lock_wait"}) = FALSE
          BY <3>2
        <4> QED BY <4>1
      <3> QED BY <3>1, <3>2
    <2>2. intent' = [room |-> command.room, previous |-> command.previous,
                     epoch |-> command.epoch, target |-> command.target,
                     proof |-> None, proved |-> FALSE, sequence |-> None, observed |-> FALSE,
                     done |-> None, seen |-> None, raced |-> raced]
      BY <1>2, <1>5, <2>1 DEF Enter
    <2>3. /\ command.room \in Rooms /\ command.previous \in {"join", "leave"}
          /\ command.epoch \in Nat /\ command.target \in {"join", "leave"}
      BY <1>3 DEF CommandRecords
    <2>4. intent' \in IntentRecords
      BY <2>2, <2>3 DEF IntentRecords
    <2>5. ~intent'.observed
      BY <2>2
    <2>6. intent'.sequence = None /\ intent'.done = None
      BY <2>2
    <2>7. caller' = [caller EXCEPT ![c].at = "inside"]
      BY <1>2, <1>5 DEF Enter
    <2>10. caller' \in [Callers -> CallerRecords]
      BY <1>1, <2>7 DEF CallerRecords
    <2>11. ~intent'.raced => rpc \notin {"woken", "lock_wait"}
      <3>1. intent'.raced = raced
        BY <2>2
      <3> QED BY <2>1, <3>1
    <2> QED BY <1>2, <1>5, <2>4, <2>5, <2>6, <2>10, <2>11 DEF Enter
  <1>6. CASE ~Matches(command)
    <2>1. caller' = [caller EXCEPT ![c] = [at |-> "idle", command |-> None]]
      BY <1>2, <1>6 DEF Enter, Return
    <2>2. caller' \in [Callers -> CallerRecords]
      BY <1>1, <1>4, <2>1
    <2> QED BY <1>2, <1>6, <2>2 DEF Enter, Types
  <1> QED BY <1>5, <1>6

LEMMA ResponseOfInput ==
    ASSUME Types, FlowOK, input # None, ~input.prepared
    PROVE  ResponseOK(input) /\ Base(input.since) = Base(cursor) /\ input.upto \in Nat
  <1>1. Answer(input) /\ input \in InputRecords
    BY DEF FlowOK, Types
  <1>2. cursor \in Nat \cup {None} /\ Len(mlog) \in Nat /\ None \notin Nat
    BY MembershipAssumption DEF Types
  <1>3. Base(cursor) \in Nat
    BY <1>2 DEF Base
  <1>4. input.since = cursor /\ input.upto \in Nat
    BY <1>1 DEF Answer, InputRecords
  <1>5. input.upto # None
    BY <1>2, <1>4
  <1>6. input.upto \in Base(cursor)..Len(mlog)
    BY <1>1, <1>5 DEF Answer
  <1> QED BY <1>2, <1>3, <1>4, <1>6 DEF ResponseOK, OptPosition

(* Which rooms a response says something of. *)
Mentioned(in) == Shown(in) \cup Absent(in)

LEMMA MentionedRooms ==
    ASSUME NEW in
    PROVE  Mentioned(in) \in SUBSET Rooms
  <1>1. Shown(in) \in SUBSET Rooms
    BY DEF Shown
  <1> QED BY <1>1 DEF Mentioned, Absent

LEMMA TypesKept ==
    ASSUME MembershipInv, Next
    PROVE  Types'
  <1> USE MembershipAssumption
  <1>0. Types /\ QueueOK /\ StageOK /\ FlowOK
    BY DEF MembershipInv
  <1>1. ASSUME NEW r \in Rooms, NEW e \in {"join", "leave", "invite", "message"}, ServerEvent(r, e)
        PROVE  Types'
    <2>1. <<r, e>> \in Rooms \X (Memberships \cup {"message"}) /\ mlog' = Append(mlog, <<r, e>>)
      BY <1>1 DEF ServerEvent, Memberships
    <2>2. mlog' \in Seq(Rooms \X (Memberships \cup {"message"})) /\ Len(mlog') = Len(mlog) + 1
      BY <1>0, <2>1 DEF Types
    <2>3. cursor' \in (0..Len(mlog')) \cup {None}
      BY <1>0, <1>1, <2>2 DEF Types, ServerEvent, durable
    <2> QED BY <1>0, <1>1, <2>2, <2>3 DEF Types, ServerEvent, durable, volatile
  <1>2. ASSUME NEW c \in Callers, NEW r \in Rooms, NEW t \in {"join", "leave"}, Call(c, r, t)
        PROVE  Types'
    <2>1. meta[r] \in MetaRecords
      BY <1>0 DEF Types
    <2>2. PICK command : command = [room |-> r, previous |-> Local(meta[r].membership),
                                    epoch |-> meta[r].epoch, target |-> t]
      OBVIOUS
    <2>3. command \in CommandRecords
      BY <2>1, <2>2 DEF CommandRecords, MetaRecords, Local
    <2>4. [at |-> "idle_wait", command |-> command] \in CallerRecords
      BY <2>3 DEF CallerRecords
    <2>5. caller' = [caller EXCEPT ![c] = [at |-> "idle_wait", command |-> command]]
      BY <1>2, <2>2 DEF Call
    <2>6. caller' \in [Callers -> CallerRecords]
      BY <1>0, <2>4, <2>5 DEF Types
    <2> QED BY <1>0, <1>2, <2>6 DEF Types, Call, durable
  <1>3. ASSUME NEW c \in Callers, IdleReached(c) PROVE Types'
    <2>1. CASE LockFree
      <3>1. Enter(c) /\ UNCHANGED queue /\ caller[c].at # "idle"
        BY <1>3, <2>1 DEF IdleReached
      <3> QED BY <1>0, <1>3, <3>1, EnterTypes DEF Types, IdleReached
    <2>2. CASE ~LockFree
      <3>1. /\ intent' = None /\ queue' = Append(queue, c)
            /\ caller' = [caller EXCEPT ![c].at = "lock_wait"] /\ UNCHANGED <<lock, stage, ready, owned>>
        BY <1>3, <2>2 DEF IdleReached
      <3>2. caller' \in [Callers -> CallerRecords]
        BY <1>0, <3>1 DEF Types, CallerRecords
      <3>3. queue' \in Seq(Callers \cup {Run})
        BY <1>0, <3>1 DEF Types
      <3> QED BY <1>0, <1>3, <3>1, <3>2, <3>3 DEF Types, IdleReached
    <2> QED BY <2>1, <2>2
  <1>4. ASSUME NEW c \in Callers, LockReached(c) PROVE Types'
    <2>1. queue # <<>> /\ c = Head(queue) /\ queue \in Seq(Callers \cup {Run})
      BY <1>0, <1>4 DEF LockReached, Types
    <2>2. queue' \in Seq(Callers \cup {Run}) /\ c = queue[1] /\ 1 \in 1..Len(queue)
      BY <1>4, <2>1 DEF LockReached
    <2>3. caller[c].at # "idle"
      BY <1>0, <2>2 DEF QueueOK, RunWaits, CallersWait, NoneTwice, CallersOK
    <2>4. CASE intent = None
      BY <1>0, <1>4, <2>2, <2>3, <2>4, EnterTypes DEF Types, LockReached
    <2>5. CASE intent # None
      <3>1. caller' = [caller EXCEPT ![c] = [at |-> "idle", command |-> None]]
        BY <1>4, <2>5 DEF LockReached, Return
      <3>2. caller' \in [Callers -> CallerRecords]
        BY <1>0, <3>1 DEF Types, CallerRecords
      <3> QED BY <1>0, <1>4, <2>2, <2>5, <3>2 DEF Types, LockReached
    <2> QED BY <2>4, <2>5
  <1>5. ASSUME NEW c \in Callers, CancelWait(c) PROVE Types'
    <2>1. caller' = [caller EXCEPT ![c] = [at |-> "idle", command |-> None]]
      BY <1>5 DEF CancelWait, Return
    <2>2. caller' \in [Callers -> CallerRecords]
      BY <1>0, <2>1 DEF Types, CallerRecords
    <2>3. queue' \in Seq(Callers \cup {Run})
      <3>1. CASE caller[c].at = "lock_wait"
        <4>1. PICK i \in 1..Len(queue) : i = (CHOOSE k \in 1..Len(queue) : queue[k] = c)
          BY <1>0, <3>1 DEF QueueOK, RunWaits, CallersWait, NoneTwice, CallersOK
        <4>2. queue' = [j \in 1..(Len(queue) - 1) |-> IF j < i THEN queue[j] ELSE queue[j + 1]]
          BY <1>5, <3>1, <4>1 DEF CancelWait, Without
        <4>3. queue \in Seq(Callers \cup {Run}) /\ Len(queue) - 1 \in Nat
          BY <1>0, <4>1 DEF Types
        <4>4. queue' \in [1..(Len(queue) - 1) -> Callers \cup {Run}]
          BY <4>2, <4>3
        <4> QED BY <4>3, <4>4
      <3>2. CASE caller[c].at # "lock_wait"
        BY <1>0, <1>5, <3>2 DEF Types, CancelWait
      <3> QED BY <3>1, <3>2
    <2> QED BY <1>0, <1>5, <2>2, <2>3 DEF Types, CancelWait, durable
  <1>6. ASSUME ApplyIntent PROVE Types'
    <2>1. intent \in IntentRecords /\ lock # None
      BY <1>0, <1>6 DEF ApplyIntent, StageOK, Types
    <2>2. CASE ~Matches(intent)
      BY <1>0, <1>6, <2>1, <2>2, LeaveTypes DEF Types, ApplyIntent
    <2>3. CASE Matches(intent)
      <3>1. cursor \in Nat \cup {None}
        BY <1>0 DEF Types
      <3>2. intent' \in IntentRecords
        <4>1. PICK x \in Nat \cup {None} :
                 intent' = intent \/ intent' = [intent EXCEPT !.proved = TRUE, !.proof = x]
          <5>1. CASE intent.target = "join" /\ ~intent.proved
            BY <1>6, <2>3, <3>1, <5>1 DEF ApplyIntent
          <5>2. CASE ~(intent.target = "join" /\ ~intent.proved)
            BY <1>6, <2>3, <5>2 DEF ApplyIntent
          <5> QED BY <5>1, <5>2
        <4>2. CASE intent' = intent
          BY <2>1, <4>2
        <4>3. CASE intent' = [intent EXCEPT !.proved = TRUE, !.proof = x]
          BY <2>1, <4>3 DEF IntentRecords
        <4> QED BY <4>1, <4>2, <4>3
      <3> QED BY <1>0, <1>6, <2>3, <3>2 DEF Types, ApplyIntent
    <2> QED BY <2>2, <2>3
  <1>7. ASSUME HttpPerform PROVE Types'
    <2>1. intent \in IntentRecords
      BY <1>0, <1>7 DEF HttpPerform, StageOK, Types
    <2>2. <<intent.room, intent.target>> \in Rooms \X (Memberships \cup {"message"})
      BY <2>1 DEF IntentRecords, Memberships
    <2>3. mlog' \in Seq(Rooms \X (Memberships \cup {"message"})) /\ Len(mlog') >= Len(mlog)
          /\ Len(mlog') \in Nat
      <3>1. mlog \in Seq(Rooms \X (Memberships \cup {"message"}))
        BY <1>0 DEF Types
      <3>2. mlog' = mlog \/ mlog' = Append(mlog, <<intent.room, intent.target>>)
        BY <1>7 DEF HttpPerform
      <3>3. PICK e \in Rooms \X (Memberships \cup {"message"}) : e = <<intent.room, intent.target>>
        BY <2>2
      <3>4. CASE mlog' = mlog
        BY <3>1, <3>4
      <3>5. CASE mlog' = Append(mlog, e)
        BY <3>1, <3>5
      <3> QED BY <3>2, <3>3, <3>4, <3>5
    <2>4. intent' \in IntentRecords
      BY <1>7, <2>1, <2>3 DEF HttpPerform, IntentRecords
    <2>5. cursor' \in (0..Len(mlog')) \cup {None}
      BY <1>0, <1>7, <2>3 DEF HttpPerform, Types
    <2> QED BY <1>0, <1>7, <2>3, <2>4, <2>5 DEF HttpPerform, Types
  <1>8. ASSUME HttpError PROVE Types'
    <2>1. lock # None
      BY <1>0, <1>8 DEF HttpError, StageOK
    <2> QED BY <1>0, <1>8, <2>1, LeaveTypes DEF HttpError, Types
  <1>9. ASSUME CommitLocal PROVE Types'
    <2>1. intent \in IntentRecords /\ lock # None
      BY <1>0, <1>9 DEF CommitLocal, StageOK, Types
    <2>2. PICK change : change =
            Lifecycle(intent.room, intent.previous, intent.epoch, intent.target, "local")
      OBVIOUS
    <2>3. change \in StreamRecords
      BY <2>1, <2>2 DEF Lifecycle, Departs, StreamRecords, IntentRecords, Memberships
    <2>4. stream' = Append(stream, change) /\ intent' = [intent EXCEPT !.sequence = Len(stream')]
          /\ meta' = [meta EXCEPT ![intent.room] = Outcome(@, change)]
      BY <1>9, <2>2 DEF CommitLocal
    <2>5. stream' \in Seq(StreamRecords) /\ Len(stream') \in Nat
      BY <1>0, <2>3, <2>4 DEF Types
    <2>6. intent' \in IntentRecords
      BY <2>1, <2>4, <2>5 DEF IntentRecords
    <2>7. meta[intent.room] \in MetaRecords /\ intent.room \in Rooms
      BY <1>0, <2>1 DEF Types, IntentRecords
    <2>8. change.current \in Memberships /\ change.next \in Nat
      BY <2>1, <2>2 DEF Lifecycle, Departs, IntentRecords, Memberships
    <2>9. Outcome(meta[intent.room], change) \in MetaRecords
      BY <2>7, <2>8 DEF Outcome, MetaRecords
    <2>10. meta' \in [Rooms -> MetaRecords]
      BY <1>0, <2>4, <2>7, <2>9 DEF Types
    <2> QED BY <1>0, <1>9, <2>1, <2>5, <2>6, <2>10, LeaveTypes DEF CommitLocal, Types
  <1>10. ASSUME Abandon PROVE Types'
    <2>1. intent \in IntentRecords /\ lock # None
      BY <1>0, <1>10 DEF Abandon, StageOK, Types
    <2>2. intent' \in IntentRecords
      BY <1>10, <2>1 DEF Abandon, IntentRecords
    <2> QED BY <1>0, <1>10, <2>1, <2>2, LeaveTypes DEF Abandon, Types
  <1>11. ASSUME Acknowledge \/ ServerAnswers \/ RunEmpty \/ RunDiscard PROVE Types'
    BY <1>0, <1>11 DEF Acknowledge, ServerAnswers, RunEmpty, RunDiscard, Types, durable, volatile
  <1>12. ASSUME RunRetry \/ RunAwaitSource \/ RunPoll \/ RunWoken PROVE Types'
    BY <1>0, <1>12 DEF RunRetry, RunAwaitSource, RunPoll, RunWoken, SendPoll, Types, durable
  <1>13. ASSUME RunAccept PROVE Types'
    <2>1. queue' \in Seq(Callers \cup {Run})
      <3>1. queue \in Seq(Callers \cup {Run}) /\ Run \in Callers \cup {Run}
        BY <1>0 DEF Types
      <3>2. queue' = queue \/ queue' = Append(queue, Run)
        BY <1>13 DEF RunAccept
      <3> QED BY <3>1, <3>2
    <2> QED BY <1>0, <1>13, <2>1 DEF RunAccept, Types, durable
  <1>14. ASSUME RunLock PROVE Types'
    <2>1. queue' \in Seq(Callers \cup {Run})
      BY <1>0, <1>14 DEF RunLock, Types
    <2> QED BY <1>0, <1>14, <2>1 DEF RunLock, Types, durable
  <1>15. ASSUME RunCapture PROVE Types'
    <2>1. poll \in PollRecords /\ poll.upto # None
      BY <1>0, <1>15 DEF RunCapture, FlowOK
    <2>2. input' \in InputRecords
      BY <1>15, <2>1 DEF RunCapture, InputRecords, PollRecords, OptPosition
    <2> QED BY <1>0, <1>15, <2>2 DEF RunCapture, Types
  <1>16. ASSUME RunPrepare PROVE Types'
    <2>1. input # None /\ ~input.prepared /\ input \in InputRecords
      BY <1>0, <1>16 DEF RunPrepare, FlowOK, Types
    <2>2. ResponseOK(input) /\ input.upto \in Nat
      BY <1>0, <2>1, ResponseOfInput
    <2>3. PICK rooms : rooms = Mentioned(input)
      OBVIOUS
    <2>4. rooms \in SUBSET Rooms
      BY <2>3, MentionedRooms
    <2>5. /\ meta' = [r \in Rooms |-> IF r \in rooms THEN Boundary(input, r) ELSE meta[r]]
          /\ stream' = stream \o Records(input, AllMoves(input, rooms))
          /\ intent' = IF \E r \in rooms : Unobserved(r)
                       THEN [intent EXCEPT !.observed = TRUE, !.seen = input.upto] ELSE intent
          /\ cursor' = input.upto /\ input' = [input EXCEPT !.prepared = TRUE]
      BY <1>16, <2>3 DEF RunPrepare, Prepare, Mentioned
    <2>6. meta' \in [Rooms -> MetaRecords]
      <3>1. \A r \in Rooms : Boundary(input, r) \in MetaRecords /\ meta[r] \in MetaRecords
        BY <1>0, <2>2, BoundaryType DEF Types
      <3> QED BY <2>5, <3>1
    <2>7. stream' \in Seq(StreamRecords)
      <3>1. PICK new : new = Records(input, AllMoves(input, rooms))
        OBVIOUS
      <3>2. new \in Seq(StreamRecords)
        BY <1>0, <2>2, <2>4, <3>1, RecordsType
      <3> QED BY <1>0, <2>5, <3>1, <3>2 DEF Types
    <2>8. intent' \in IntentRecords \cup {None}
      <3>1. CASE \E r \in rooms : Unobserved(r)
        <4>1. intent \in IntentRecords
          BY <1>0, <3>1 DEF Unobserved, Types
        <4> QED BY <2>2, <2>5, <3>1, <4>1 DEF IntentRecords
      <3>2. CASE ~\E r \in rooms : Unobserved(r)
        BY <1>0, <2>5, <3>2 DEF Types
      <3> QED BY <3>1, <3>2
    <2>9. input' \in InputRecords
      BY <2>1, <2>5 DEF InputRecords
    <2>10. cursor' \in (0..Len(mlog')) \cup {None}
      BY <1>0, <1>16, <2>2, <2>5 DEF ResponseOK, RunPrepare, Types
    <2> QED BY <1>0, <1>16, <2>6, <2>7, <2>8, <2>9, <2>10 DEF RunPrepare, Types
  <1>17. ASSUME RunComplete PROVE Types'
    <2>1. Completion \in StreamRecords
      BY DEF Completion, StreamRecords
    <2>2. stream' \in Seq(StreamRecords)
      BY <1>0, <1>17, <2>1 DEF RunComplete, Types
    <2> QED BY <1>0, <1>17, <2>2 DEF RunComplete, Types, volatile
  <1>18. ASSUME Restart PROVE Types'
    <2>1. caller' \in [Callers -> CallerRecords]
      BY <1>18 DEF Restart, CallerRecords
    <2>2. intent' \in IntentRecords \cup {None}
      <3>1. CASE Unapplied
        <4>1. intent \in IntentRecords
          BY <1>0, <3>1 DEF Unapplied, Types
        <4> QED BY <1>18, <3>1, <4>1 DEF Restart, IntentRecords
      <3>2. CASE ~Unapplied
        BY <1>0, <1>18, <3>2 DEF Restart, Types
      <3> QED BY <3>1, <3>2
    <2>3. queue' \in Seq(Callers \cup {Run})
      BY <1>18 DEF Restart
    <2> QED BY <1>0, <1>18, <2>1, <2>2, <2>3 DEF Restart, Types
  <1> QED
    BY <1>1, <1>2, <1>3, <1>4, <1>5, <1>6, <1>7, <1>8, <1>9, <1>10, <1>11, <1>12, <1>13, <1>14,
       <1>15, <1>16, <1>17, <1>18 DEF Next, Command, Runner

-----------------------------------------------------------------------------
(* Every step keeps the control: the log, the queue and the stages *)

LEMMA LogStep ==
    ASSUME Types, StageOK, Next
    PROVE  \/ mlog' = mlog
           \/ \E r \in Rooms, x \in Memberships \cup {"message"} :
                /\ mlog' = Append(mlog, <<r, x>>)
                /\ x = "message" \/ x # MembershipAt(r, Len(mlog))
  <1>1. ASSUME NEW r \in Rooms, NEW e \in {"join", "leave", "invite", "message"}, ServerEvent(r, e)
        PROVE  /\ e \in Memberships \cup {"message"} /\ mlog' = Append(mlog, <<r, e>>)
               /\ e = "message" \/ e # MembershipAt(r, Len(mlog))
    BY <1>1 DEF ServerEvent, Memberships
  <1>2. ASSUME HttpPerform
        PROVE  /\ intent.room \in Rooms /\ intent.target \in Memberships \cup {"message"}
               /\ \/ mlog' = mlog
                  \/ /\ mlog' = Append(mlog, <<intent.room, intent.target>>)
                     /\ intent.target # MembershipAt(intent.room, Len(mlog))
    <2>1. intent \in IntentRecords
      BY <1>2 DEF HttpPerform, StageOK, Types
    <2> QED BY <1>2, <2>1 DEF HttpPerform, IntentRecords, Memberships
  <1>3. ASSUME NEW c \in Callers,
               (\E r \in Rooms, t \in {"join", "leave"} : Call(c, r, t))
                  \/ IdleReached(c) \/ LockReached(c) \/ CancelWait(c)
        PROVE  mlog' = mlog
    BY <1>3 DEF Call, IdleReached, LockReached, CancelWait
  <1>4. ASSUME ApplyIntent \/ HttpError \/ CommitLocal \/ Abandon \/ Acknowledge \/ ServerAnswers
               \/ Restart
        PROVE  mlog' = mlog
    BY <1>4 DEF ApplyIntent, HttpError, CommitLocal, Abandon, Acknowledge, ServerAnswers, Restart
  <1>5. ASSUME Runner PROVE mlog' = mlog
    BY <1>5 DEF Runner, RunRetry, RunAwaitSource, RunPoll, RunWoken, RunEmpty, RunDiscard,
                RunAccept, RunLock, RunCapture, RunPrepare, RunComplete, SendPoll
  <1> QED
    <2>1. CASE \E r \in Rooms, e \in {"join", "leave", "invite", "message"} : ServerEvent(r, e)
      BY <1>1, <2>1
    <2>2. CASE HttpPerform
      BY <1>2, <2>2
    <2> QED BY <1>3, <1>4, <1>5, <2>1, <2>2 DEF Next, Command

LEMMA AlternatesStep ==
    ASSUME Types, StageOK, Alternates, Next
    PROVE  Alternates'
  <1>1. CASE mlog' = mlog
    BY <1>1 DEF Alternates, MembershipAt, Changes
  <1>2. CASE \E r \in Rooms, x \in Memberships \cup {"message"} :
                /\ mlog' = Append(mlog, <<r, x>>)
                /\ x = "message" \/ x # MembershipAt(r, Len(mlog))
    BY <1>2, AlternatesKept DEF Types
  <1> QED BY <1>1, <1>2, LogStep

LEMMA QueueKept ==
    ASSUME Types, QueueOK, StageOK, Next
    PROVE  QueueOK'
  <1> USE MembershipAssumption
  <1>0. queue \in Seq(Callers \cup {Run}) /\ caller \in [Callers -> CallerRecords]
    BY DEF Types
  <1>1. ASSUME NEW c \in Callers, NEW r \in Rooms, NEW t \in {"join", "leave"}, Call(c, r, t)
        PROVE  QueueOK'
    <2>1. PICK command : command = [room |-> r, previous |-> Local(meta[r].membership),
                                    epoch |-> meta[r].epoch, target |-> t]
      OBVIOUS
    <2>2. command \in CommandRecords
      BY <2>1 DEF CommandRecords, MetaRecords, Local, Types
    <2>3. caller' = [caller EXCEPT ![c] = [at |-> "idle_wait", command |-> command]]
          /\ caller[c].at = "idle" /\ UNCHANGED <<queue, rpc, lock>>
      BY <1>1, <2>1 DEF Call
    <2>4. \A d \in Callers : caller'[d] = IF d = c THEN [at |-> "idle_wait", command |-> command]
                                          ELSE caller[d]
      BY <1>0, <2>3
    <2>5. \A i \in 1..Len(queue) : queue[i] # c
      BY <2>3 DEF QueueOK, RunWaits, CallersWait, NoneTwice, CallersOK
    <2> QED
      <3>1. RunWaits'
        BY <1>0, <2>2, <2>3, <2>4, <2>5 DEF QueueOK, RunWaits, CallersWait, NoneTwice, CallersOK
      <3>2. CallersWait'
        BY <1>0, <2>2, <2>3, <2>4, <2>5 DEF QueueOK, RunWaits, CallersWait, NoneTwice, CallersOK
      <3>3. NoneTwice'
        BY <1>0, <2>2, <2>3, <2>4, <2>5 DEF QueueOK, RunWaits, CallersWait, NoneTwice, CallersOK
      <3>4. CallersOK'
        BY <1>0, <2>2, <2>3, <2>4, <2>5 DEF QueueOK, RunWaits, CallersWait, NoneTwice, CallersOK
      <3> QED BY <3>1, <3>2, <3>3, <3>4 DEF QueueOK
  <1>2. ASSUME NEW c \in Callers, Enter(c), caller[c].at # "idle", UNCHANGED rpc, lock = None,
               \/ queue' = queue /\ queue = <<>>
               \/ queue # <<>> /\ queue[1] = c /\ queue' = Tail(queue)
        PROVE  QueueOK'
    <2>1. \A d \in Callers : d # c => caller'[d] = caller[d]
      BY <1>0, <1>2 DEF Enter, Return
    <2>0. caller[c].command \in CommandRecords
      BY <1>2 DEF QueueOK, CallersOK
    <2>6. \/ caller' = [caller EXCEPT ![c].at = "inside"] /\ lock' = c
          \/ caller' = [caller EXCEPT ![c] = [at |-> "idle", command |-> None]] /\ lock' = None
      BY <1>2 DEF Enter, Return
    <2>2. caller'[c].at # "lock_wait" /\ (caller'[c].at # "idle" => caller'[c].command \in CommandRecords)
      BY <1>0, <2>0, <2>6 DEF CallerRecords
    <2>5. lock' \in {c, None} /\ (lock' = c => caller'[c].at = "inside")
      <3>1. None # c
        OBVIOUS
      <3> QED BY <1>0, <2>6, <3>1 DEF CallerRecords
    <2>3. CASE queue' = queue /\ queue = <<>>
      <3>1. Len(queue') = 0
        BY <2>3
      <3>2. ASSUME NEW d \in Callers PROVE caller'[d].at # "lock_wait"
        BY <2>1, <2>2, <2>3 DEF QueueOK, CallersOK
      <3>3. CallersOK'
        BY <2>1, <2>2, <2>5, <3>2 DEF QueueOK, CallersOK
      <3> QED BY <3>1, <3>3 DEF QueueOK, RunWaits, CallersWait, NoneTwice
    <2>4. CASE queue # <<>> /\ queue[1] = c /\ queue' = Tail(queue)
      <3>1. Len(queue') = Len(queue) - 1 /\ \A i \in 1..Len(queue') : queue'[i] = queue[i + 1]
        BY <1>0, <2>4
      <3>2. \A i \in 1..Len(queue') : queue'[i] # c
        BY <1>0, <2>4, <3>1 DEF QueueOK, RunWaits, CallersWait, NoneTwice, CallersOK
      <3>3. ASSUME NEW d \in Callers, d # c, caller'[d].at = "lock_wait"
            PROVE  \E i \in 1..Len(queue') : queue'[i] = d
        <4>1. PICK i \in 1..Len(queue) : queue[i] = d
          BY <2>1, <3>3 DEF QueueOK, RunWaits, CallersWait, NoneTwice, CallersOK
        <4>2. i # 1 /\ i - 1 \in 1..Len(queue') /\ (i - 1) + 1 = i
          BY <1>0, <2>4, <3>1, <3>3, <4>1
        <4>3. queue'[i - 1] = d
          BY <3>1, <4>1, <4>2
        <4> QED BY <4>2, <4>3
      <3> QED
        <4>1. RunWaits'
          BY <1>0, <1>2, <2>1, <2>2, <2>5, <3>1, <3>2, <3>3 DEF QueueOK, RunWaits, CallersWait, NoneTwice, CallersOK
        <4>2. CallersWait'
          BY <1>0, <1>2, <2>1, <2>2, <2>5, <3>1, <3>2, <3>3 DEF QueueOK, RunWaits, CallersWait, NoneTwice, CallersOK
        <4>3. NoneTwice'
          BY <1>0, <1>2, <2>1, <2>2, <2>5, <3>1, <3>2, <3>3 DEF QueueOK, RunWaits, CallersWait, NoneTwice, CallersOK
        <4>4. CallersOK'
          BY <1>0, <1>2, <2>1, <2>2, <2>5, <3>1, <3>2, <3>3 DEF QueueOK, RunWaits, CallersWait, NoneTwice, CallersOK
        <4> QED BY <4>1, <4>2, <4>3, <4>4 DEF QueueOK
    <2> QED BY <1>2, <2>3, <2>4
  <1>3. ASSUME NEW c \in Callers, IdleReached(c) PROVE QueueOK'
    <2>1. caller[c].at = "idle_wait" /\ UNCHANGED rpc
      BY <1>3 DEF IdleReached
    <2>2. CASE LockFree
      <3>1. Enter(c) /\ lock = None /\ queue' = queue /\ queue = <<>>
        BY <1>3, <2>2 DEF IdleReached, LockFree
      <3>2. caller[c].at # "idle"
        BY <2>1
      <3> QED BY <1>2, <2>1, <3>1, <3>2
    <2>3. CASE ~LockFree
      <3>1. queue' = Append(queue, c) /\ caller' = [caller EXCEPT ![c].at = "lock_wait"]
            /\ UNCHANGED lock
        BY <1>3, <2>3 DEF IdleReached
      <3>2. Len(queue') = Len(queue) + 1 /\ queue'[Len(queue) + 1] = c
            /\ \A i \in 1..Len(queue) : queue'[i] = queue[i] /\ queue[i] # c
        BY <1>0, <2>1, <3>1 DEF QueueOK, RunWaits, CallersWait, NoneTwice, CallersOK
      <3>3. caller'[c].at = "lock_wait" /\ caller'[c].command \in CommandRecords
            /\ \A d \in Callers : d # c => caller'[d] = caller[d]
        BY <1>0, <2>1, <3>1 DEF QueueOK, RunWaits, CallersWait, NoneTwice, CallersOK
      <3> QED
        <4>1. RunWaits'
          BY <1>0, <2>1, <3>1, <3>2, <3>3 DEF QueueOK, RunWaits, CallersWait, NoneTwice, CallersOK
        <4>2. CallersWait'
          BY <1>0, <2>1, <3>1, <3>2, <3>3 DEF QueueOK, RunWaits, CallersWait, NoneTwice, CallersOK
        <4>3. NoneTwice'
          BY <1>0, <2>1, <3>1, <3>2, <3>3 DEF QueueOK, RunWaits, CallersWait, NoneTwice, CallersOK
        <4>4. CallersOK'
          BY <1>0, <2>1, <3>1, <3>2, <3>3 DEF QueueOK, RunWaits, CallersWait, NoneTwice, CallersOK
        <4> QED BY <4>1, <4>2, <4>3, <4>4 DEF QueueOK
    <2> QED BY <2>2, <2>3
  <1>4. ASSUME NEW c \in Callers, LockReached(c) PROVE QueueOK'
    <2>1. queue # <<>> /\ queue[1] = c /\ queue' = Tail(queue) /\ UNCHANGED rpc /\ lock = None /\ 1 \in 1..Len(queue)
      BY <1>0, <1>4 DEF LockReached
    <2>2. caller[c].at # "idle"
      BY <2>1 DEF QueueOK, RunWaits, CallersWait, NoneTwice, CallersOK
    <2>3. CASE intent = None
      BY <1>2, <1>4, <2>1, <2>2, <2>3 DEF LockReached
    <2>4. CASE intent # None
      <3>1. caller' = [caller EXCEPT ![c] = [at |-> "idle", command |-> None]]
        BY <1>4, <2>4 DEF LockReached, Return
      <3>2. Len(queue') = Len(queue) - 1 /\ \A i \in 1..Len(queue') : queue'[i] = queue[i + 1]
        BY <1>0, <2>1
      <3>3. \A i \in 1..Len(queue') : queue'[i] # c
        BY <1>0, <2>1, <3>2 DEF QueueOK, RunWaits, CallersWait, NoneTwice, CallersOK
      <3>4. caller'[c].at = "idle" /\ \A d \in Callers : d # c => caller'[d] = caller[d]
        BY <1>0, <3>1
      <3>6. lock' = None
        BY <1>4, <2>1, <2>4 DEF LockReached
      <3>5. ASSUME NEW d \in Callers, d # c, caller'[d].at = "lock_wait"
            PROVE  \E i \in 1..Len(queue') : queue'[i] = d
        <4>1. PICK i \in 1..Len(queue) : queue[i] = d
          BY <3>4, <3>5 DEF QueueOK, RunWaits, CallersWait, NoneTwice, CallersOK
        <4>2. i # 1 /\ i - 1 \in 1..Len(queue') /\ (i - 1) + 1 = i
          BY <1>0, <2>1, <3>2, <3>5, <4>1
        <4>3. queue'[i - 1] = d
          BY <3>2, <4>1, <4>2
        <4> QED BY <4>2, <4>3
      <3> QED
        <4>1. RunWaits'
          BY <1>0, <2>1, <3>2, <3>3, <3>4, <3>5, <3>6 DEF QueueOK, RunWaits, CallersWait, NoneTwice, CallersOK
        <4>2. CallersWait'
          BY <1>0, <2>1, <3>2, <3>3, <3>4, <3>5, <3>6 DEF QueueOK, RunWaits, CallersWait, NoneTwice, CallersOK
        <4>3. NoneTwice'
          BY <1>0, <2>1, <3>2, <3>3, <3>4, <3>5, <3>6 DEF QueueOK, RunWaits, CallersWait, NoneTwice, CallersOK
        <4>4. CallersOK'
          BY <1>0, <2>1, <3>2, <3>3, <3>4, <3>5, <3>6 DEF QueueOK, RunWaits, CallersWait, NoneTwice, CallersOK
        <4> QED BY <4>1, <4>2, <4>3, <4>4 DEF QueueOK
    <2> QED BY <2>3, <2>4
  <1>5. ASSUME NEW c \in Callers, CancelWait(c) PROVE QueueOK'
    <2>1. caller' = [caller EXCEPT ![c] = [at |-> "idle", command |-> None]] /\ UNCHANGED <<rpc, lock>>
          /\ lock # c
      BY <1>5 DEF CancelWait, Return, QueueOK, CallersOK
    <2>2. caller'[c].at = "idle" /\ \A d \in Callers : d # c => caller'[d] = caller[d]
      BY <1>0, <2>1
    <2>3. CASE caller[c].at = "lock_wait"
      <3>1. PICK i \in 1..Len(queue) : i = (CHOOSE k \in 1..Len(queue) : queue[k] = c) /\ queue[i] = c
        BY <2>3 DEF QueueOK, RunWaits, CallersWait, NoneTwice, CallersOK
      <3>2. queue' = [j \in 1..(Len(queue) - 1) |-> IF j < i THEN queue[j] ELSE queue[j + 1]]
        BY <1>5, <2>3, <3>1 DEF CancelWait, Without
      <3>3. PICK n : n = Len(queue)
        OBVIOUS
      <3>4. n \in Nat /\ i \in 1..n /\ n - 1 \in Nat
        BY <1>0, <3>1, <3>3
      <3>5. queue' = [j \in 1..(n - 1) |-> IF j < i THEN queue[j] ELSE queue[j + 1]]
        BY <3>2, <3>3
      <3>6. Len(queue') = n - 1
        BY <3>4, <3>5
      <3>7. ASSUME NEW j \in 1..(n - 1)
            PROVE  \E k \in 1..n : /\ k # i /\ queue'[j] = queue[k]
                                   /\ (j < i /\ k = j) \/ (j >= i /\ k = j + 1)
        <4>1. PICK k : k = IF j < i THEN j ELSE j + 1
          OBVIOUS
        <4>2. k \in 1..n /\ k # i /\ ((j < i /\ k = j) \/ (j >= i /\ k = j + 1))
          BY <3>4, <4>1
        <4>3. queue'[j] = queue[k]
          BY <3>5, <4>1
        <4> QED BY <4>2, <4>3
      <3>8. \A j \in 1..(n - 1) : queue'[j] # c
        BY <3>1, <3>3, <3>4, <3>7 DEF QueueOK, NoneTwice
      <3>9. \A j, k \in 1..(n - 1) : queue'[j] = queue'[k] => j = k
        <4>1. \A x, y \in 1..n : queue[x] = queue[y] => x = y
          BY <3>3 DEF QueueOK, RunWaits, CallersWait, NoneTwice, CallersOK
        <4>2. ASSUME NEW j \in 1..(n - 1), NEW k \in 1..(n - 1), queue'[j] = queue'[k] PROVE j = k
          <5>1. PICK x \in 1..n : queue'[j] = queue[x] /\ ((j < i /\ x = j) \/ (j >= i /\ x = j + 1))
            BY <3>7
          <5>2. PICK y \in 1..n : queue'[k] = queue[y] /\ ((k < i /\ y = k) \/ (k >= i /\ y = k + 1))
            BY <3>7
          <5>3. x = y
            BY <4>1, <4>2, <5>1, <5>2
          <5> QED BY <3>4, <5>1, <5>2, <5>3
        <4> QED BY <4>2
      <3>10. ASSUME NEW d \in Callers, d # c, caller'[d].at = "lock_wait"
             PROVE  \E j \in 1..(n - 1) : queue'[j] = d
        <4>1. PICK k \in 1..n : queue[k] = d
          BY <2>2, <3>3, <3>10 DEF QueueOK, RunWaits, CallersWait, NoneTwice, CallersOK
        <4>2. PICK j : j = IF k < i THEN k ELSE k - 1
          OBVIOUS
        <4>3. k # i
          BY <3>1, <3>10, <4>1
        <4>4. j \in 1..(n - 1) /\ queue'[j] = queue[k]
          BY <3>4, <3>5, <4>2, <4>3
        <4> QED BY <4>1, <4>4
      <3>11. ASSUME NEW j \in 1..(n - 1)
             PROVE  /\ queue'[j] = Run => rpc' = "lock_wait"
                    /\ queue'[j] \in Callers => caller'[queue'[j]].at = "lock_wait"
        BY <2>1, <2>2, <3>3, <3>7, <3>8 DEF QueueOK, RunWaits, CallersWait, NoneTwice, CallersOK
      <3> QED
        <4>1. RunWaits'
          BY <2>1, <2>2, <3>6, <3>9, <3>10, <3>11 DEF QueueOK, RunWaits, CallersWait, NoneTwice, CallersOK
        <4>2. CallersWait'
          BY <2>1, <2>2, <3>6, <3>9, <3>10, <3>11 DEF QueueOK, RunWaits, CallersWait, NoneTwice, CallersOK
        <4>3. NoneTwice'
          BY <2>1, <2>2, <3>6, <3>9, <3>10, <3>11 DEF QueueOK, RunWaits, CallersWait, NoneTwice, CallersOK
        <4>4. CallersOK'
          BY <2>1, <2>2, <3>6, <3>9, <3>10, <3>11 DEF QueueOK, RunWaits, CallersWait, NoneTwice, CallersOK
        <4> QED BY <4>1, <4>2, <4>3, <4>4 DEF QueueOK
    <2>4. CASE caller[c].at # "lock_wait"
      <3>1. UNCHANGED queue
        BY <1>5, <2>4 DEF CancelWait
      <3> QED
        <4>1. RunWaits'
          BY <1>0, <2>1, <2>2, <2>4, <3>1 DEF QueueOK, RunWaits, CallersWait, NoneTwice, CallersOK
        <4>2. CallersWait'
          BY <1>0, <2>1, <2>2, <2>4, <3>1 DEF QueueOK, RunWaits, CallersWait, NoneTwice, CallersOK
        <4>3. NoneTwice'
          BY <1>0, <2>1, <2>2, <2>4, <3>1 DEF QueueOK, RunWaits, CallersWait, NoneTwice, CallersOK
        <4>4. CallersOK'
          BY <1>0, <2>1, <2>2, <2>4, <3>1 DEF QueueOK, RunWaits, CallersWait, NoneTwice, CallersOK
        <4> QED BY <4>1, <4>2, <4>3, <4>4 DEF QueueOK
    <2> QED BY <2>3, <2>4
  <1>6. ASSUME Leave, lock # None, UNCHANGED queue
        PROVE  QueueOK'
    <2>1. CASE lock = Run
      <3>1. UNCHANGED caller /\ rpc \in {"apply", "decode"} /\ lock' = None
        BY <1>6, <2>1 DEF Leave, StageOK
      <3> QED
        <4>1. RunWaits'
          BY <1>6, <2>1, <3>1 DEF QueueOK, RunWaits, CallersWait, NoneTwice, CallersOK
        <4>2. CallersWait'
          BY <1>6, <2>1, <3>1 DEF QueueOK, RunWaits, CallersWait, NoneTwice, CallersOK
        <4>3. NoneTwice'
          BY <1>6, <2>1, <3>1 DEF QueueOK, RunWaits, CallersWait, NoneTwice, CallersOK
        <4>4. CallersOK'
          BY <1>6, <2>1, <3>1 DEF QueueOK, RunWaits, CallersWait, NoneTwice, CallersOK
        <4> QED BY <4>1, <4>2, <4>3, <4>4 DEF QueueOK
    <2>2. CASE lock # Run
      <3>1. lock \in Callers
        BY <1>6, <2>2 DEF Types
      <3>2. PICK c \in Callers : c = lock
        BY <3>1
      <3>3. caller' = [caller EXCEPT ![c] = [at |-> "idle", command |-> None]]
            /\ rpc' = IF rpc = "source" THEN "woken" ELSE rpc
        BY <1>6, <2>2, <3>2 DEF Leave, Return
      <3>4. caller'[c].at = "idle" /\ \A d \in Callers : d # c => caller'[d] = caller[d]
        BY <1>0, <3>3
      <3>5. \A i \in 1..Len(queue) : queue[i] # c
        BY <3>2 DEF QueueOK, RunWaits, CallersWait, NoneTwice, CallersOK
      <3>6. lock' = None
        BY <1>6 DEF Leave
      <3> QED
        <4>1. RunWaits'
          BY <1>6, <3>6, <3>3, <3>4, <3>5 DEF QueueOK, RunWaits, CallersWait, NoneTwice, CallersOK
        <4>2. CallersWait'
          BY <1>6, <3>6, <3>3, <3>4, <3>5 DEF QueueOK, RunWaits, CallersWait, NoneTwice, CallersOK
        <4>3. NoneTwice'
          BY <1>6, <3>6, <3>3, <3>4, <3>5 DEF QueueOK, RunWaits, CallersWait, NoneTwice, CallersOK
        <4>4. CallersOK'
          BY <1>6, <3>6, <3>3, <3>4, <3>5 DEF QueueOK, RunWaits, CallersWait, NoneTwice, CallersOK
        <4> QED BY <4>1, <4>2, <4>3, <4>4 DEF QueueOK
    <2> QED BY <2>1, <2>2
  <1>7. ASSUME ApplyIntent \/ HttpError \/ CommitLocal \/ Abandon PROVE QueueOK'
    <2>1. stage # "none" /\ UNCHANGED queue
      BY <1>7 DEF ApplyIntent, HttpError, CommitLocal, Abandon
    <2>2. lock # None
      BY <2>1 DEF StageOK
    <2>3. CASE Leave
      BY <1>6, <2>1, <2>2, <2>3
    <2>4. CASE ~Leave
      <3>1. UNCHANGED <<queue, rpc, caller, lock>>
        BY <1>7, <2>4 DEF ApplyIntent, HttpError, CommitLocal, Abandon
      <3> QED
        <4>1. RunWaits'
          BY <3>1 DEF QueueOK, RunWaits, CallersWait, NoneTwice, CallersOK
        <4>2. CallersWait'
          BY <3>1 DEF QueueOK, RunWaits, CallersWait, NoneTwice, CallersOK
        <4>3. NoneTwice'
          BY <3>1 DEF QueueOK, RunWaits, CallersWait, NoneTwice, CallersOK
        <4>4. CallersOK'
          BY <3>1 DEF QueueOK, RunWaits, CallersWait, NoneTwice, CallersOK
        <4> QED BY <4>1, <4>2, <4>3, <4>4 DEF QueueOK
    <2> QED BY <2>3, <2>4
  <1>8. ASSUME UNCHANGED <<queue, caller>>, rpc # "lock_wait" \/ UNCHANGED rpc,
               lock' = lock \/ lock' \in {Run, None}
        PROVE  QueueOK'
    BY <1>8 DEF QueueOK, RunWaits, CallersWait, NoneTwice, CallersOK
  <1>9. ASSUME \/ \E r \in Rooms, e \in {"join", "leave", "invite", "message"} : ServerEvent(r, e)
               \/ HttpPerform \/ Acknowledge \/ ServerAnswers \/ RunRetry \/ RunAwaitSource \/ RunPoll
               \/ RunWoken \/ RunEmpty \/ RunDiscard \/ RunCapture \/ RunPrepare \/ RunComplete
        PROVE  QueueOK'
    <2>1. UNCHANGED <<queue, caller>>
      BY <1>9 DEF ServerEvent, HttpPerform, Acknowledge, ServerAnswers, RunRetry, RunAwaitSource,
            RunPoll, RunWoken, RunEmpty, RunDiscard, RunCapture, RunPrepare, RunComplete, SendPoll,
            volatile
    <2>2. rpc # "lock_wait" \/ UNCHANGED rpc
      BY <1>9 DEF ServerEvent, HttpPerform, Acknowledge, ServerAnswers, RunRetry, RunAwaitSource,
            RunPoll, RunWoken, RunEmpty, RunDiscard, RunCapture, RunPrepare, RunComplete, volatile
    <2>3. lock' = lock \/ lock' \in {Run, None}
      BY <1>9 DEF ServerEvent, HttpPerform, Acknowledge, ServerAnswers, RunRetry, RunAwaitSource,
            RunPoll, RunWoken, RunEmpty, RunDiscard, RunCapture, RunPrepare, RunComplete, SendPoll,
            volatile
    <2> QED BY <1>8, <2>1, <2>2, <2>3
  <1>10. ASSUME RunAccept PROVE QueueOK'
    <2>1. rpc = "poll" /\ UNCHANGED caller
      BY <1>10 DEF RunAccept
    <2>2. CASE LockFree
      BY <1>8, <1>10, <2>1, <2>2 DEF RunAccept
    <2>3. CASE ~LockFree
      <3>1. queue' = Append(queue, Run) /\ rpc' = "lock_wait" /\ UNCHANGED lock
        BY <1>10, <2>3 DEF RunAccept
      <3>2. Len(queue') = Len(queue) + 1 /\ queue'[Len(queue) + 1] = Run
            /\ \A i \in 1..Len(queue) : queue'[i] = queue[i] /\ queue[i] # Run
        BY <1>0, <2>1, <3>1 DEF QueueOK, RunWaits, CallersWait, NoneTwice, CallersOK
      <3> QED
        <4>1. RunWaits'
          BY <1>0, <2>1, <3>1, <3>2 DEF QueueOK, RunWaits, CallersWait, NoneTwice, CallersOK
        <4>2. CallersWait'
          BY <1>0, <2>1, <3>1, <3>2 DEF QueueOK, RunWaits, CallersWait, NoneTwice, CallersOK
        <4>3. NoneTwice'
          BY <1>0, <2>1, <3>1, <3>2 DEF QueueOK, RunWaits, CallersWait, NoneTwice, CallersOK
        <4>4. CallersOK'
          BY <1>0, <2>1, <3>1, <3>2 DEF QueueOK, RunWaits, CallersWait, NoneTwice, CallersOK
        <4> QED BY <4>1, <4>2, <4>3, <4>4 DEF QueueOK
    <2> QED BY <2>2, <2>3
  <1>11. ASSUME RunLock PROVE QueueOK'
    <2>1. queue # <<>> /\ queue[1] = Run /\ queue' = Tail(queue) /\ lock' = Run /\ UNCHANGED caller
      BY <1>0, <1>11 DEF RunLock
    <2>2. Len(queue') = Len(queue) - 1 /\ \A i \in 1..Len(queue') : queue'[i] = queue[i + 1]
      BY <1>0, <2>1
    <2>3. \A i \in 1..Len(queue') : queue'[i] # Run
      BY <1>0, <2>1, <2>2 DEF QueueOK, RunWaits, CallersWait, NoneTwice, CallersOK
    <2>4. ASSUME NEW d \in Callers, caller[d].at = "lock_wait"
          PROVE  \E i \in 1..Len(queue') : queue'[i] = d
      <3>1. PICK i \in 1..Len(queue) : queue[i] = d
        BY <2>4 DEF QueueOK, RunWaits, CallersWait, NoneTwice, CallersOK
      <3>2. i # 1 /\ i - 1 \in 1..Len(queue') /\ (i - 1) + 1 = i
        BY <1>0, <2>1, <2>2, <3>1
      <3>3. queue'[i - 1] = d
        BY <2>2, <3>1, <3>2
      <3> QED BY <3>2, <3>3
    <2> QED
      <3>1. RunWaits'
        BY <1>0, <2>1, <2>2, <2>3, <2>4 DEF QueueOK, RunWaits, CallersWait, NoneTwice, CallersOK
      <3>2. CallersWait'
        BY <1>0, <2>1, <2>2, <2>3, <2>4 DEF QueueOK, RunWaits, CallersWait, NoneTwice, CallersOK
      <3>3. NoneTwice'
        BY <1>0, <2>1, <2>2, <2>3, <2>4 DEF QueueOK, RunWaits, CallersWait, NoneTwice, CallersOK
      <3>4. CallersOK'
        BY <1>0, <2>1, <2>2, <2>3, <2>4 DEF QueueOK, RunWaits, CallersWait, NoneTwice, CallersOK
      <3> QED BY <3>1, <3>2, <3>3, <3>4 DEF QueueOK
  <1>12. ASSUME Restart PROVE QueueOK'
    <2>1. Len(queue') = 0 /\ lock' = None /\ \A c \in Callers : caller'[c].at = "idle"
      BY <1>12 DEF Restart
    <2> QED BY <2>1 DEF QueueOK, RunWaits, CallersWait, NoneTwice, CallersOK
  <1> QED
    <2>1. CASE \E c \in Callers : \/ \E r \in Rooms, t \in {"join", "leave"} : Call(c, r, t)
                                  \/ IdleReached(c) \/ LockReached(c) \/ CancelWait(c)
      BY <1>1, <1>3, <1>4, <1>5, <2>1
    <2> QED BY <1>7, <1>9, <1>10, <1>11, <1>12, <2>1 DEF Next, Command, Runner

LEMMA LeaveStage ==
    ASSUME Types, StageOK, Leave, stage # "none", UNCHANGED owned
    PROVE  /\ stage' = "none" /\ lock' = None /\ rpc' \notin {"apply", "decode"}
           /\ owned' => rpc' = "poll"
  <1> USE MembershipAssumption
  <1>1. lock # None /\ lock \in Callers \cup {Run} /\ (lock = Run <=> rpc \in {"apply", "decode"})
        /\ (owned => rpc = "poll")
    BY DEF StageOK, Types
  <1>2. CASE lock = Run
    BY <1>1, <1>2 DEF Leave
  <1>3. CASE lock # Run
    <2>1. rpc' = IF rpc = "source" THEN "woken" ELSE rpc
      BY <1>3 DEF Leave
    <2> QED BY <1>1, <1>3, <2>1 DEF Leave
  <1> QED BY <1>2, <1>3

LEMMA StageKept ==
    ASSUME Types, QueueOK, StageOK, FlowOK, Types', Next
    PROVE  StageOK'
  <1> USE MembershipAssumption
  <1>1. ASSUME UNCHANGED <<stage, intent, lock, input, meta, rpc, owned>> PROVE StageOK'
    BY <1>1 DEF StageOK, Matches
  <1>2. ASSUME \/ \E r \in Rooms, e \in {"join", "leave", "invite", "message"} : ServerEvent(r, e)
               \/ \E c \in Callers : \/ \E r \in Rooms, t \in {"join", "leave"} : Call(c, r, t)
                                     \/ CancelWait(c)
               \/ Acknowledge \/ ServerAnswers
        PROVE  StageOK'
    <2>1. UNCHANGED <<stage, intent, lock, input, meta, rpc, owned>>
      BY <1>2 DEF ServerEvent, Call, CancelWait, Acknowledge, ServerAnswers, durable, volatile
    <2> QED BY <1>1, <2>1
  <1>3. ASSUME NEW c \in Callers, Enter(c), caller[c].at # "idle", lock = None,
               UNCHANGED <<rpc, input, meta>>
        PROVE  StageOK'
    <2>1. /\ intent' # None => intent'.sequence = None /\ ~intent'.observed
          /\ intent' \in IntentRecords \cup {None}
      BY <1>3, EnterTypes
    <2>2. stage = "none" /\ rpc \notin {"apply", "decode"} /\ (owned => rpc = "poll")
      BY <1>3 DEF StageOK, Types
    <2>3. CASE Matches(caller[c].command)
      <3>1. lock' = c /\ stage' = "drain" /\ ~owned' /\ intent' # None
        <4>1. lock' = c /\ stage' = "drain" /\ owned' = FALSE
          BY <1>3, <2>3 DEF Enter, TakeSource
        <4>2. intent' \in IntentRecords
          BY <1>3, <2>3, EnterTypes
        <4>3. None \notin IntentRecords
          OBVIOUS
        <4> QED BY <4>1, <4>2, <4>3
      <3>2. c # Run /\ c # None
        OBVIOUS
      <3> QED BY <1>3, <2>1, <2>2, <3>1, <3>2 DEF StageOK
    <2>4. CASE ~Matches(caller[c].command)
      <3>1. intent' = None /\ UNCHANGED <<lock, stage, owned>>
        BY <1>3, <2>4 DEF Enter
      <3> QED BY <1>3, <2>2, <3>1 DEF StageOK
    <2> QED BY <2>3, <2>4
  <1>4. ASSUME NEW c \in Callers, IdleReached(c) PROVE StageOK'
    <2>1. caller[c].at # "idle" /\ UNCHANGED <<rpc, input, meta>> /\ MembershipIdle
      BY <1>4 DEF IdleReached
    <2>2. CASE LockFree
      <3>1. Enter(c) /\ lock = None
        BY <1>4, <2>2 DEF IdleReached, LockFree
      <3> QED BY <1>3, <2>1, <3>1
    <2>3. CASE ~LockFree
      <3>1. intent' = None /\ UNCHANGED <<lock, stage, owned>>
        BY <1>4, <2>3 DEF IdleReached
      <3>2. stage = "none"
        <4>1. intent = None \/ intent.sequence # None
          BY <2>1 DEF MembershipIdle
        <4> QED BY <4>1 DEF StageOK, Types
      <3> QED BY <2>1, <3>1, <3>2 DEF StageOK
    <2> QED BY <2>2, <2>3
  <1>5. ASSUME NEW c \in Callers, LockReached(c) PROVE StageOK'
    <2>1. queue # <<>> /\ c = Head(queue) /\ queue \in Seq(Callers \cup {Run}) /\ lock = None
          /\ UNCHANGED <<rpc, input, meta>>
      BY <1>5 DEF LockReached, Types
    <2>2. c = queue[1] /\ 1 \in 1..Len(queue)
      BY <2>1
    <2>3. caller[c].at # "idle"
      BY <2>2 DEF QueueOK, CallersWait
    <2>4. CASE intent = None
      <3>1. Enter(c)
        BY <1>5, <2>4 DEF LockReached
      <3> QED BY <1>3, <2>1, <2>3, <3>1
    <2>5. CASE intent # None
      <3>1. UNCHANGED <<intent, lock, stage, owned>>
        BY <1>5, <2>5 DEF LockReached
      <3> QED BY <1>1, <2>1, <3>1
    <2> QED BY <2>4, <2>5
  <1>6. ASSUME ApplyIntent PROVE StageOK'
    <2>1. intent \in IntentRecords /\ intent.sequence = None /\ lock # None /\ stage # "none"
          /\ ~intent.observed /\ input = None /\ UNCHANGED <<meta, input, owned>>
      BY <1>6 DEF ApplyIntent, StageOK, Types
    <2>2. CASE ~Matches(intent)
      <3>1. intent' = None /\ Leave
        BY <1>6, <2>2 DEF ApplyIntent
      <3> QED BY <2>1, <3>1, LeaveStage DEF StageOK
    <2>3. CASE Matches(intent)
      <3>1. stage' = "http" /\ UNCHANGED <<rpc, lock>>
        BY <1>6, <2>3 DEF ApplyIntent
      <3>2. cursor \in Nat \cup {None}
        BY DEF Types
      <3>3. /\ intent' \in IntentRecords /\ intent'.sequence = None
            /\ intent'.observed = intent.observed /\ intent'.room = intent.room
            /\ intent'.previous = intent.previous /\ intent'.epoch = intent.epoch
        <4>1. PICK x \in Nat \cup {None} :
                 intent' = intent \/ intent' = [intent EXCEPT !.proved = TRUE, !.proof = x]
          <5>1. CASE intent.target = "join" /\ ~intent.proved
            BY <1>6, <2>3, <3>2, <5>1 DEF ApplyIntent
          <5>2. CASE ~(intent.target = "join" /\ ~intent.proved)
            BY <1>6, <2>3, <5>2 DEF ApplyIntent
          <5> QED BY <5>1, <5>2
        <4>2. CASE intent' = intent
          BY <2>1, <4>2
        <4>3. CASE intent' = [intent EXCEPT !.proved = TRUE, !.proof = x]
          BY <2>1, <4>3 DEF IntentRecords
        <4> QED BY <4>1, <4>2, <4>3
      <3>4. Matches(intent)'
        BY <2>1, <2>3, <3>3 DEF Matches
      <3>5. intent' # None /\ ~intent'.observed
        BY <2>1, <3>3
      <3>6. rpc # "decode"
        BY <2>1 DEF StageOK
      <3> QED BY <2>1, <3>1, <3>3, <3>4, <3>5, <3>6 DEF StageOK
    <2> QED BY <2>2, <2>3
  <1>7. ASSUME HttpPerform PROVE StageOK'
    <2>1. intent \in IntentRecords /\ intent.sequence = None /\ lock # None /\ Matches(intent)
          /\ ~intent.observed /\ input = None /\ UNCHANGED <<meta, input, owned, rpc, lock>>
          /\ stage' = "ok" /\ rpc # "decode"
      BY <1>7 DEF HttpPerform, StageOK, Types
    <2>2. intent' = [intent EXCEPT !.done = Len(mlog')]
      BY <1>7 DEF HttpPerform
    <2>3. /\ intent'.sequence = None /\ intent'.observed = intent.observed
          /\ intent'.room = intent.room /\ intent'.previous = intent.previous
          /\ intent'.epoch = intent.epoch
      BY <2>1, <2>2 DEF IntentRecords
    <2>4. intent' # None
      <3>1. Len(mlog') \in Nat
        BY DEF Types
      <3>2. intent' \in IntentRecords
        BY <2>1, <2>2, <3>1 DEF IntentRecords
      <3> QED BY <3>2
    <2>5. Matches(intent)'
      BY <2>1, <2>3 DEF Matches
    <2> QED BY <2>1, <2>3, <2>4, <2>5 DEF StageOK
  <1>8. ASSUME HttpError \/ CommitLocal \/ Abandon PROVE StageOK'
    <2>1. Leave /\ stage # "none" /\ UNCHANGED <<owned, input>>
      BY <1>8 DEF HttpError, CommitLocal, Abandon
    <2>2. intent \in IntentRecords /\ intent.sequence = None /\ ~intent.observed
      BY <2>1 DEF StageOK, Types
    <2>3. intent' # None /\ intent'.sequence = None => ~intent'.observed
      <3>1. CASE HttpError
        BY <3>1 DEF HttpError
      <3>2. CASE CommitLocal
        <4>1. intent' = [intent EXCEPT !.sequence = Len(stream')]
          BY <3>2 DEF CommitLocal
        <4>2. intent'.observed = intent.observed
          BY <2>2, <4>1 DEF IntentRecords
        <4> QED BY <2>2, <4>2
      <3>3. CASE Abandon
        <4>1. intent' = [intent EXCEPT !.done = None]
          BY <3>3 DEF Abandon
        <4>2. intent'.observed = intent.observed
          BY <2>2, <4>1 DEF IntentRecords
        <4> QED BY <2>2, <4>2
      <3> QED BY <1>8, <3>1, <3>2, <3>3
    <2>4. /\ stage' = "none" /\ lock' = None /\ rpc' \notin {"apply", "decode"}
          /\ owned' => rpc' = "poll"
      BY <2>1, LeaveStage
    <2> QED BY <2>3, <2>4 DEF StageOK
  <1>9. ASSUME RunRetry \/ RunAwaitSource \/ RunPoll \/ RunWoken \/ RunEmpty \/ RunDiscard
        PROVE  StageOK'
    <2>1. UNCHANGED <<intent, input, meta>>
      BY <1>9 DEF RunRetry, RunAwaitSource, RunPoll, RunWoken, RunEmpty, RunDiscard, SendPoll, durable
    <2>2. CASE RunRetry
      <3>1. lock = None /\ intent # None /\ intent.sequence = None /\ rpc' = "apply" /\ lock' = Run
            /\ stage' = "drain" /\ rpc = "loop" /\ UNCHANGED owned
        BY <2>2 DEF RunRetry, LockFree, Unapplied
      <3> QED BY <2>1, <3>1 DEF StageOK
    <2>3. CASE ~RunRetry
      <3>1. /\ UNCHANGED <<stage, lock>> /\ rpc \notin {"apply", "decode"}
            /\ rpc' \notin {"apply", "decode"} /\ (owned' => rpc' = "poll")
        BY <1>9, <2>3 DEF RunAwaitSource, RunPoll, RunWoken, RunEmpty, RunDiscard, SendPoll, StageOK
      <3> QED BY <2>1, <3>1 DEF StageOK, Matches
    <2> QED BY <2>2, <2>3
  <1>10. ASSUME RunAccept \/ RunLock PROVE StageOK'
    <2>1. UNCHANGED <<intent, input, meta, stage>> /\ ~owned'
      <3>1. CASE RunAccept
        BY <3>1 DEF RunAccept, durable
      <3>2. CASE RunLock
        <4>1. queue \in Seq(Callers \cup {Run}) /\ queue # <<>> /\ Head(queue) = Run
          BY <3>2 DEF RunLock, Types
        <4>2. 1 \in 1..Len(queue) /\ queue[1] = Run
          BY <4>1
        <4>3. rpc = "lock_wait"
          BY <4>2 DEF QueueOK, RunWaits
        <4> QED BY <3>2, <4>3 DEF RunLock, durable, StageOK
      <3> QED BY <1>10, <3>1, <3>2
    <2>2. \/ lock = None /\ lock' = Run /\ rpc' = "decode"
          \/ lock' = lock /\ rpc' = "lock_wait" /\ rpc = "poll"
      BY <1>10 DEF RunAccept, RunLock, LockFree
    <2> QED BY <2>1, <2>2 DEF StageOK, Matches
  <1>11. ASSUME RunCapture PROVE StageOK'
    <2>1. rpc = "decode" /\ lock' = None /\ rpc' = "prepare" /\ UNCHANGED <<intent, stage, owned>>
      BY <1>11 DEF RunCapture
    <2>2. stage = "none" /\ ~owned
      BY <2>1 DEF StageOK
    <2> QED BY <2>1, <2>2 DEF StageOK
  <1>12. ASSUME RunPrepare PROVE StageOK'
    <2>1. input # None /\ ~input.prepared /\ rpc \in {"prepare", "loop"} /\ rpc' = "loop"
          /\ UNCHANGED <<stage, lock, owned>>
      BY <1>12 DEF RunPrepare, FlowOK
    <2>2. stage \notin {"http", "ok"} /\ lock # Run /\ ~owned
      BY <2>1 DEF StageOK
    <2>3. \/ intent' = intent
          \/ /\ intent # None /\ intent.sequence # None /\ intent \in IntentRecords
             /\ intent' = [intent EXCEPT !.observed = TRUE, !.seen = input.upto]
      BY <1>12 DEF RunPrepare, Prepare, Unobserved, Types
    <2>4. (intent' # None /\ intent'.sequence = None) =>
            (intent # None /\ intent.sequence = None /\ intent' = intent)
      BY <2>3 DEF IntentRecords
    <2>5. stage' # "none" => intent' # None /\ intent'.sequence = None /\ lock' # None
      <3>1. stage # "none" => intent # None /\ intent.sequence = None /\ lock # None
        BY DEF StageOK
      <3> QED BY <2>1, <2>3, <3>1
    <2> QED BY <2>1, <2>2, <2>4, <2>5 DEF StageOK
  <1>13. ASSUME RunComplete PROVE StageOK'
    BY <1>13 DEF RunComplete, StageOK, Matches, volatile
  <1>14. ASSUME Restart PROVE StageOK'
    <2>1. stage' = "none" /\ lock' = None /\ rpc' = "loop" /\ owned' = FALSE
          /\ intent' = IF Unapplied THEN [intent EXCEPT !.done = None] ELSE intent
      BY <1>14 DEF Restart
    <2>2. intent' # None /\ intent'.sequence = None => ~intent'.observed
      <3>1. CASE Unapplied
        <4>1. intent \in IntentRecords /\ ~intent.observed
          BY <3>1 DEF Unapplied, Types, StageOK
        <4>2. intent'.observed = intent.observed
          BY <2>1, <3>1, <4>1 DEF IntentRecords
        <4> QED BY <4>1, <4>2
      <3>2. CASE ~Unapplied
        BY <2>1, <3>2 DEF StageOK
      <3> QED BY <3>1, <3>2
    <2> QED BY <2>1, <2>2 DEF StageOK
  <1> QED
    BY <1>2, <1>4, <1>5, <1>6, <1>7, <1>8, <1>9, <1>10, <1>11, <1>12, <1>13, <1>14
       DEF Next, Command, Runner

LEMMA AnswerKept ==
    ASSUME Types, StageOK, Next, UNCHANGED cursor, NEW a, Answer(a)
    PROVE  Answer(a)'
  <1> USE MembershipAssumption
  <1>1. CASE mlog' = mlog
    BY <1>1 DEF Answer, MembershipAt, Changes, Base
  <1>2. CASE mlog' # mlog
    <2>1. PICK e \in Rooms \X (Memberships \cup {"message"}) : mlog' = Append(mlog, e)
      BY <1>2, LogStep
    <2>2. mlog \in Seq(Rooms \X (Memberships \cup {"message"})) /\ cursor \in (0..Len(mlog)) \cup {None}
      BY DEF Types
    <2>3. Len(mlog') = Len(mlog) + 1
          /\ \A r : \A n \in 0..Len(mlog) : MembershipAt(r, n)' = MembershipAt(r, n)
      BY <2>1, <2>2, LogGrows
    <2>4. PICK k : k = cursor
      OBVIOUS
    <2>5. a.newly # None => cursor # None /\ MembershipAt(a.newly, cursor)' # "join"
      <3> SUFFICES ASSUME a.newly # None
                   PROVE  cursor # None /\ MembershipAt(a.newly, cursor)' # "join"
        OBVIOUS
      <3>1. k # None /\ MembershipAt(a.newly, k) # "join"
        BY <2>4 DEF Answer
      <3>2. k \in 0..Len(mlog)
        BY <2>2, <2>4, <3>1
      <3>3. MembershipAt(a.newly, k)' = MembershipAt(a.newly, k)
        BY <2>3, <3>2
      <3>4. MembershipAt(a.newly, cursor)' = MembershipAt(a.newly, k)'
        BY <2>4 DEF MembershipAt, Changes
      <3> QED BY <2>4, <3>1, <3>3, <3>4
    <2>6. a.upto # None => a.upto \in Base(cursor)..Len(mlog')
      <3>1. Base(cursor) \in Nat /\ Len(mlog) \in Nat
        BY <2>2 DEF Base
      <3> QED BY <2>3, <3>1 DEF Answer
    <2> QED BY <2>5, <2>6 DEF Answer, Base
  <1> QED BY <1>1, <1>2

LEMMA LeaveFlow ==
    ASSUME Types, Leave, lock # None
    PROVE  rpc' = rpc \/ rpc' = "loop" \/ (rpc = "source" /\ rpc' = "woken")
  BY DEF Leave

LEMMA FlowKept ==
    ASSUME Types, QueueOK, StageOK, FlowOK, NonJoined, Types', Next
    PROVE  FlowOK'
  <1> USE MembershipAssumption
  <1>1. ASSUME UNCHANGED <<poll, input, cursor>>,
               \/ rpc' = rpc \/ rpc' = "loop" \/ (input = None /\ rpc' \in {"source", "woken", "apply"})
               \/ rpc \in {"poll", "lock_wait"} /\ poll.upto # None /\ rpc' \in {"lock_wait", "decode"}
        PROVE  FlowOK'
    <2>1. rpc' \in {"source", "woken", "poll", "lock_wait", "decode", "apply"} => input' = None
      BY <1>1 DEF FlowOK
    <2>2. rpc' = "prepare" => input' # None /\ ~input'.prepared
      BY <1>1 DEF FlowOK
    <2>3. rpc' \in {"poll", "lock_wait", "decode"} => poll' \in PollRecords /\ Answer(poll)'
      <3> SUFFICES ASSUME rpc' \in {"poll", "lock_wait", "decode"}
                   PROVE  poll' \in PollRecords /\ Answer(poll)'
        OBVIOUS
      <3>1. PICK a : a = poll
        OBVIOUS
      <3>2. a \in PollRecords /\ Answer(a)
        BY <1>1, <3>1 DEF FlowOK
      <3>3. Answer(a)'
        BY <1>1, <3>2, AnswerKept
      <3>4. poll' = a
        BY <1>1, <3>1
      <3> QED BY <3>2, <3>3, <3>4 DEF Answer
    <2>4. rpc' \in {"lock_wait", "decode"} => poll'.upto # None
      BY <1>1 DEF FlowOK
    <2>5. input' # None /\ ~input'.prepared => Answer(input)'
      <3> SUFFICES ASSUME input' # None, ~input'.prepared PROVE Answer(input)'
        OBVIOUS
      <3>1. PICK a : a = input
        OBVIOUS
      <3>2. Answer(a)
        BY <1>1, <3>1 DEF FlowOK
      <3>3. Answer(a)'
        BY <1>1, <3>2, AnswerKept
      <3>4. input' = a
        BY <1>1, <3>1
      <3> QED BY <3>3, <3>4 DEF Answer
    <2> QED BY <2>1, <2>2, <2>3, <2>4, <2>5 DEF FlowOK
  <1>2. ASSUME \/ \E r \in Rooms, e \in {"join", "leave", "invite", "message"} : ServerEvent(r, e)
               \/ \E c \in Callers : \/ \E r \in Rooms, t \in {"join", "leave"} : Call(c, r, t)
                                     \/ IdleReached(c) \/ LockReached(c) \/ CancelWait(c)
               \/ HttpPerform \/ Acknowledge
        PROVE  FlowOK'
    <2>1. UNCHANGED <<poll, input, cursor, rpc>>
      BY <1>2 DEF ServerEvent, Call, IdleReached, LockReached, CancelWait, HttpPerform, Acknowledge,
                  durable, volatile
    <2> QED BY <1>1, <2>1
  <1>3. ASSUME ApplyIntent \/ HttpError \/ CommitLocal \/ Abandon PROVE FlowOK'
    <2>1. UNCHANGED <<poll, input, cursor>> /\ stage # "none" /\ (Leave \/ UNCHANGED rpc)
      BY <1>3 DEF ApplyIntent, HttpError, CommitLocal, Abandon
    <2>2. lock # None
      BY <2>1 DEF StageOK
    <2>3. rpc' = rpc \/ rpc' = "loop" \/ (rpc = "source" /\ rpc' = "woken")
      BY <2>1, <2>2, LeaveFlow
    <2>4. rpc = "source" => input = None
      BY DEF FlowOK
    <2> QED BY <1>1, <2>1, <2>3, <2>4
  <1>4. ASSUME RunRetry \/ RunAwaitSource PROVE FlowOK'
    <2>1. UNCHANGED <<poll, input, cursor>> /\ input = None /\ rpc' \in {"source", "apply"}
      BY <1>4 DEF RunRetry, RunAwaitSource, Idle, durable
    <2> QED BY <1>1, <2>1
  <1>5. ASSUME SendPoll, input = None PROVE FlowOK'
    <2>1. PICK newly : newly = NewlyJoined
      OBVIOUS
    <2>2. PICK full : full = (newly = None /\ NeedsFullState(None))
      OBVIOUS
    <2>3. full \in BOOLEAN
      <3>1. CASE newly = None /\ NeedsFullState(None)
        <4>1. full = TRUE
          BY <2>2, <3>1
        <4> QED BY <4>1
      <3>2. CASE ~(newly = None /\ NeedsFullState(None))
        <4>1. full = FALSE
          BY <2>2, <3>2
        <4> QED BY <4>1
      <3> QED BY <3>1, <3>2
    <2>4. /\ poll' = [since |-> cursor, newly |-> newly, full |-> full, upto |-> None]
          /\ rpc' = "poll" /\ UNCHANGED <<mlog, cursor, input>>
      BY <1>5, <2>1, <2>2 DEF SendPoll, durable
    <2>5. newly # None => /\ cursor # None /\ newly \in Rooms /\ MembershipAt(newly, cursor) # "join"
      <3> SUFFICES ASSUME newly # None
                   PROVE  cursor # None /\ newly \in Rooms /\ MembershipAt(newly, cursor) # "join"
        OBVIOUS
      <3>1. /\ cursor # None /\ intent # None /\ newly = intent.room
            /\ meta[intent.room].nonjoined = cursor
        BY <2>1 DEF NewlyJoined
      <3>2. newly \in Rooms
        BY <3>1 DEF Types, IntentRecords
      <3> QED BY <3>1, <3>2 DEF NonJoined
    <2>6. poll' \in PollRecords
      <3>1. newly \in Rooms \cup {None} /\ cursor \in OptPosition /\ None \in OptPosition
        BY <2>5 DEF OptPosition, Types
      <3> QED BY <2>3, <2>4, <3>1 DEF PollRecords
    <2>7. Answer(poll)'
      <3>1. poll'.since = cursor /\ poll'.newly = newly /\ poll'.upto = None
        BY <2>4
      <3>2. newly # None => MembershipAt(newly, cursor)' = MembershipAt(newly, cursor)
        BY <2>4 DEF MembershipAt, Changes
      <3>3. poll'.newly # None => cursor' # None /\ MembershipAt(poll.newly, cursor)' # "join"
        BY <2>4, <2>5, <3>1 DEF MembershipAt, Changes
      <3> QED BY <2>4, <3>1, <3>3 DEF Answer
    <2> QED BY <1>5, <2>4, <2>6, <2>7 DEF FlowOK
  <1>6. ASSUME RunPoll \/ RunWoken PROVE FlowOK'
    <2>1. input = None
      BY <1>6 DEF RunPoll, RunWoken, Idle, FlowOK
    <2>2. CASE SendPoll
      BY <1>5, <2>1, <2>2
    <2>3. CASE ~SendPoll
      <3>1. rpc' = "loop" /\ UNCHANGED <<poll, input, cursor>>
        BY <1>6, <2>3 DEF RunPoll, RunWoken, durable
      <3> QED BY <1>1, <3>1
    <2> QED BY <2>2, <2>3
  <1>7. ASSUME ServerAnswers PROVE FlowOK'
    <2>1. /\ rpc = "poll" /\ UNCHANGED <<mlog, cursor, input, rpc>>
          /\ poll' = [poll EXCEPT !.upto = Len(mlog)]
      BY <1>7 DEF ServerAnswers, durable
    <2>2. poll \in PollRecords /\ Answer(poll) /\ input = None /\ Len(mlog) \in Nat
          /\ Base(cursor) \in 0..Len(mlog)
      BY <2>1 DEF FlowOK, Types, Base
    <2>3. /\ poll' \in PollRecords /\ poll'.since = poll.since /\ poll'.newly = poll.newly
          /\ poll'.upto = Len(mlog)
      BY <2>1, <2>2 DEF PollRecords, OptPosition
    <2>4. Answer(poll)'
      <3>1. poll'.upto # None => poll'.upto \in Base(cursor)..Len(mlog)
        BY <2>2, <2>3
      <3>2. poll'.newly # None => cursor' # None /\ MembershipAt(poll.newly, cursor)' # "join"
        <4>1. poll.newly # None => cursor # None /\ MembershipAt(poll.newly, cursor) # "join"
          BY <2>2 DEF Answer
        <4> QED BY <2>1, <2>3, <4>1 DEF MembershipAt, Changes
      <3>3. poll'.since = cursor'
        BY <2>1, <2>2, <2>3 DEF Answer
      <3> QED BY <2>1, <3>1, <3>2, <3>3 DEF Answer, Base
    <2> QED BY <2>1, <2>2, <2>3, <2>4 DEF FlowOK
  <1>8. ASSUME RunEmpty \/ RunDiscard PROVE FlowOK'
    <2>1. rpc = "poll" /\ rpc' = "loop" /\ UNCHANGED <<input, cursor>>
      BY <1>8 DEF RunEmpty, RunDiscard, durable
    <2>2. input = None
      BY <2>1 DEF FlowOK
    <2> QED BY <2>1, <2>2 DEF FlowOK
  <1>9. ASSUME RunAccept PROVE FlowOK'
    <2>1. /\ rpc = "poll" /\ poll.upto # None /\ UNCHANGED <<poll, input, cursor>>
          /\ rpc' \in {"lock_wait", "decode"}
      BY <1>9 DEF RunAccept, durable
    <2> QED BY <1>1, <2>1
  <1>10. ASSUME RunLock PROVE FlowOK'
    <2>1. queue \in Seq(Callers \cup {Run}) /\ queue # <<>> /\ Head(queue) = Run
      BY <1>10 DEF RunLock, Types
    <2>2. 1 \in 1..Len(queue) /\ queue[1] = Run
      BY <2>1
    <2>3. rpc = "lock_wait"
      BY <2>2 DEF QueueOK, RunWaits
    <2>4. poll.upto # None
      BY <2>3 DEF FlowOK
    <2>5. UNCHANGED <<poll, input, cursor>> /\ rpc' = "decode"
      BY <1>10 DEF RunLock, durable
    <2> QED BY <1>1, <2>3, <2>4, <2>5
  <1>11. ASSUME RunCapture PROVE FlowOK'
    <2>1. poll \in PollRecords /\ Answer(poll) /\ poll.upto # None
      BY <1>11 DEF RunCapture, FlowOK
    <2>2. PICK a : a = [since |-> poll.since, full |-> poll.full, newly |-> poll.newly,
                        upto |-> poll.upto, prepared |-> FALSE]
      OBVIOUS
    <2>3. Answer(a)
      BY <2>1, <2>2 DEF Answer
    <2>4. Answer(a)' /\ input' = a
      BY <1>11, <2>2, <2>3, AnswerKept DEF RunCapture
    <2>5. Answer(input)'
      BY <2>4 DEF Answer
    <2>6. input' # None
      <3>1. input' \in InputRecords \cup {None} /\ input' = a
        BY <2>4 DEF Types
      <3>2. a \in InputRecords
        BY <2>1, <2>2 DEF PollRecords, InputRecords, OptPosition
      <3> QED BY <3>1, <3>2
    <2>7. ~input'.prepared
      BY <2>2, <2>4
    <2>8. rpc' = "prepare"
      BY <1>11 DEF RunCapture
    <2> QED BY <2>5, <2>6, <2>7, <2>8 DEF FlowOK
  <1>12. ASSUME RunPrepare PROVE FlowOK'
    <2>1. input # None /\ input \in InputRecords /\ rpc' = "loop"
      BY <1>12 DEF RunPrepare, FlowOK, Types
    <2>2. input' = [input EXCEPT !.prepared = TRUE]
      BY <1>12 DEF RunPrepare, Prepare
    <2>3. input'.prepared
      BY <2>1, <2>2 DEF InputRecords
    <2> QED BY <2>1, <2>3 DEF FlowOK
  <1>13. ASSUME RunComplete PROVE FlowOK'
    BY <1>13 DEF RunComplete, FlowOK, volatile
  <1>14. ASSUME Restart PROVE FlowOK'
    <2>1. rpc' = "loop" /\ UNCHANGED <<input, cursor>>
      BY <1>14 DEF Restart
    <2>2. input' # None /\ ~input'.prepared => Answer(input)'
      <3> SUFFICES ASSUME input' # None, ~input'.prepared PROVE Answer(input)'
        OBVIOUS
      <3>1. PICK a : a = input
        OBVIOUS
      <3>2. Answer(a)
        BY <2>1, <3>1 DEF FlowOK
      <3>3. Answer(a)'
        BY <2>1, <3>2, AnswerKept
      <3>4. input' = a
        BY <2>1, <3>1
      <3> QED BY <3>3, <3>4 DEF Answer
    <2> QED BY <2>1, <2>2 DEF FlowOK
  <1> QED
    BY <1>2, <1>3, <1>4, <1>6, <1>7, <1>8, <1>9, <1>10, <1>11, <1>12, <1>13, <1>14
       DEF Next, Command, Runner

-----------------------------------------------------------------------------
(* A response that observes an operation was computed after it *)

(* What a step may do without a new operation or a new answer. *)
SameCommand ==
    \/ intent' = None
    \/ /\ intent # None /\ intent'.raced = intent.raced
       /\ \/ intent'.done = None
          \/ /\ intent'.done = intent.done /\ intent'.observed = intent.observed
             /\ intent'.seen = intent.seen
SameSource ==
    stage' # "none" /\ lock' # Run =>
        /\ stage # "none" /\ lock # Run
        /\ (ready' => ready) /\ (owned' => owned)
        /\ rpc' \in {"woken", "lock_wait"} => rpc \in {"woken", "lock_wait"} \/ owned
SameAnswers ==
    /\ owned' /\ poll'.upto # None => owned /\ poll' = poll
    /\ rpc' \in {"lock_wait", "decode"} =>
        /\ poll' = poll
        /\ rpc \in {"lock_wait", "decode"} \/ (owned /\ poll.upto # None)
    /\ input' # None /\ ~input'.prepared => input' = input

LEMMA FreshQuiet ==
    ASSUME Types, FreshOK, Len(mlog') \in Nat, Len(mlog') >= Len(mlog), SameCommand, SameSource,
           SameAnswers
    PROVE  FreshOK'
  <1> USE MembershipAssumption
  <1> SUFFICES ASSUME intent' # None, ~intent'.raced
               PROVE  /\ stage' # "none" /\ lock' # Run =>
                            ~ready' /\ ~owned' /\ rpc' \notin {"woken", "lock_wait"}
                      /\ intent'.done # None =>
                            /\ intent'.done <= Len(mlog')
                            /\ owned' /\ poll'.upto # None => poll'.upto >= intent'.done
                            /\ rpc' \in {"lock_wait", "decode"} => poll'.upto >= intent'.done
                            /\ input' # None /\ ~input'.prepared => input'.upto >= intent'.done
                            /\ intent'.observed => intent'.seen >= intent'.done
    BY DEF FreshOK
  <1>1. intent # None /\ ~intent.raced
    BY DEF SameCommand
  <1>2. stage # "none" /\ lock # Run => ~ready /\ ~owned /\ rpc \notin {"woken", "lock_wait"}
    BY <1>1 DEF FreshOK
  <1>3. stage' # "none" /\ lock' # Run => ~ready' /\ ~owned' /\ rpc' \notin {"woken", "lock_wait"}
    BY <1>2 DEF SameSource
  <1>4. ASSUME intent'.done # None
        PROVE  /\ intent'.done <= Len(mlog')
               /\ owned' /\ poll'.upto # None => poll'.upto >= intent'.done
               /\ rpc' \in {"lock_wait", "decode"} => poll'.upto >= intent'.done
               /\ input' # None /\ ~input'.prepared => input'.upto >= intent'.done
               /\ intent'.observed => intent'.seen >= intent'.done
    <2>1. PICK d : d = intent.done
      OBVIOUS
    <2>2. /\ intent'.done = d /\ intent'.observed = intent.observed
          /\ intent'.seen = intent.seen /\ d # None /\ d \in Nat
      BY <1>1, <1>4, <2>1 DEF SameCommand, Types, IntentRecords
    <2>3. /\ d <= Len(mlog)
          /\ owned /\ poll.upto # None => poll.upto >= d
          /\ rpc \in {"lock_wait", "decode"} => poll.upto >= d
          /\ input # None /\ ~input.prepared => input.upto >= d
          /\ intent.observed => intent.seen >= d
      BY <1>1, <2>1, <2>2 DEF FreshOK
    <2>4. d <= Len(mlog')
      BY <2>2, <2>3 DEF Types
    <2>5. owned' /\ poll'.upto # None => poll'.upto >= d
      BY <2>3 DEF SameAnswers
    <2>6. rpc' \in {"lock_wait", "decode"} => poll'.upto >= d
      BY <2>3 DEF SameAnswers
    <2>7. input' # None /\ ~input'.prepared => input'.upto >= d
      BY <2>3 DEF SameAnswers
    <2> QED BY <2>2, <2>3, <2>4, <2>5, <2>6, <2>7
  <1> QED BY <1>3, <1>4

LEMMA FreshKept ==
    ASSUME Types, QueueOK, StageOK, FlowOK, FreshOK, Types', Next
    PROVE  FreshOK'
  <1> USE MembershipAssumption
  <1>0. Len(mlog') \in Nat /\ Len(mlog') >= Len(mlog) /\ Len(mlog) \in Nat
    <2>1. mlog \in Seq(Rooms \X (Memberships \cup {"message"}))
      BY DEF Types
    <2>2. CASE mlog' = mlog
      BY <2>1, <2>2
    <2>3. CASE mlog' # mlog
      <3>1. PICK e : e \in Rooms \X (Memberships \cup {"message"}) /\ mlog' = Append(mlog, e)
        BY <2>3, LogStep
      <3> QED BY <2>1, <3>1
    <2> QED BY <2>2, <2>3
  <1>1. ASSUME UNCHANGED <<intent, stage, lock, ready, owned, poll, input, rpc>> PROVE FreshOK'
    BY <1>0, <1>1, FreshQuiet DEF SameCommand, SameSource, SameAnswers
  <1>2. ASSUME \/ \E r \in Rooms, e \in {"join", "leave", "invite", "message"} : ServerEvent(r, e)
               \/ \E c \in Callers : \/ \E r \in Rooms, t \in {"join", "leave"} : Call(c, r, t)
                                     \/ CancelWait(c)
               \/ Acknowledge
        PROVE  FreshOK'
    <2>1. UNCHANGED <<intent, stage, lock, ready, owned, poll, input, rpc>>
      BY <1>2 DEF ServerEvent, Call, CancelWait, Acknowledge, durable, volatile
    <2> QED BY <1>1, <2>1
  <1>3. ASSUME NEW c \in Callers, Enter(c), caller[c].at # "idle", UNCHANGED <<rpc>>
        PROVE  FreshOK'
    <2>1. CASE Matches(caller[c].command)
      <3>1. intent'.done = None /\ (~intent'.raced => rpc \notin {"woken", "lock_wait"})
        BY <1>3, <2>1, EnterTypes
      <3>2. ready' = FALSE /\ owned' = FALSE
        BY <1>3, <2>1 DEF Enter, TakeSource
      <3> QED BY <1>3, <3>1, <3>2 DEF FreshOK
    <2>2. CASE ~Matches(caller[c].command)
      <3>1. intent' = None
        BY <1>3, <2>2 DEF Enter
      <3> QED BY <3>1 DEF FreshOK
    <2> QED BY <2>1, <2>2
  <1>4. ASSUME NEW c \in Callers, IdleReached(c) PROVE FreshOK'
    <2>1. caller[c].at # "idle" /\ UNCHANGED rpc
      BY <1>4 DEF IdleReached
    <2>2. CASE LockFree
      <3>1. Enter(c)
        BY <1>4, <2>2 DEF IdleReached
      <3> QED BY <1>3, <2>1, <3>1
    <2>3. CASE ~LockFree
      <3>1. intent' = None
        BY <1>4, <2>3 DEF IdleReached
      <3> QED BY <3>1 DEF FreshOK
    <2> QED BY <2>2, <2>3
  <1>5. ASSUME NEW c \in Callers, LockReached(c) PROVE FreshOK'
    <2>1. queue # <<>> /\ c = Head(queue) /\ queue \in Seq(Callers \cup {Run})
          /\ UNCHANGED <<rpc, input, poll>>
      BY <1>5 DEF LockReached, Types
    <2>2. c = queue[1] /\ 1 \in 1..Len(queue)
      BY <2>1
    <2>3. caller[c].at # "idle"
      BY <2>2 DEF QueueOK, CallersWait
    <2>4. CASE intent = None
      <3>1. Enter(c)
        BY <1>5, <2>4 DEF LockReached
      <3> QED BY <1>3, <2>1, <2>3, <3>1
    <2>5. CASE intent # None
      <3>1. UNCHANGED <<intent, lock, stage, owned, ready>>
        BY <1>5, <2>5 DEF LockReached
      <3> QED BY <1>1, <2>1, <3>1
    <2> QED BY <2>4, <2>5
  <1>6. ASSUME Leave, stage # "none", UNCHANGED <<owned, poll, input>>, SameCommand
        PROVE  FreshOK'
    <2>1. stage' = "none" /\ rpc' \notin {"apply", "decode"}
      BY <1>6, LeaveStage
    <2>2. rpc' = rpc \/ rpc' = "loop" \/ (rpc = "source" /\ rpc' = "woken")
      BY <1>6, LeaveFlow DEF StageOK
    <2>3. SameAnswers /\ SameSource
      BY <1>6, <2>1, <2>2 DEF SameAnswers, SameSource
    <2> QED BY <1>0, <1>6, <2>3, FreshQuiet
  <1>7. ASSUME ApplyIntent PROVE FreshOK'
    <2>1. intent \in IntentRecords /\ stage # "none" /\ UNCHANGED <<owned, poll, input>>
      BY <1>7 DEF ApplyIntent, StageOK, Types
    <2>2. CASE ~Matches(intent)
      BY <1>6, <1>7, <2>1, <2>2 DEF ApplyIntent, SameCommand
    <2>3. CASE Matches(intent)
      <3>1. PICK x : intent' = intent \/ intent' = [intent EXCEPT !.proved = TRUE, !.proof = x]
        <4>1. CASE intent.target = "join" /\ ~intent.proved
          BY <1>7, <2>3, <4>1 DEF ApplyIntent
        <4>2. CASE ~(intent.target = "join" /\ ~intent.proved)
          BY <1>7, <2>3, <4>2 DEF ApplyIntent
        <4> QED BY <4>1, <4>2
      <3>2. /\ intent'.raced = intent.raced /\ intent'.done = intent.done
            /\ intent'.observed = intent.observed /\ intent'.seen = intent.seen
        <4>1. CASE intent' = intent
          BY <4>1
        <4>2. CASE intent' = [intent EXCEPT !.proved = TRUE, !.proof = x]
          BY <2>1, <4>2 DEF IntentRecords
        <4> QED BY <3>1, <4>1, <4>2
      <3>3. intent # None
        BY <2>1
      <3>4. UNCHANGED <<rpc, ready, lock>>
        BY <1>7, <2>3 DEF ApplyIntent
      <3> QED BY <1>0, <2>1, <3>2, <3>3, <3>4, FreshQuiet DEF SameCommand, SameSource, SameAnswers
    <2> QED BY <2>2, <2>3
  <1>8. ASSUME HttpPerform PROVE FreshOK'
    <2>1. /\ stage = "http" /\ intent' = [intent EXCEPT !.done = Len(mlog')]
          /\ UNCHANGED <<input, rpc, poll, owned, ready, lock>>
      BY <1>8 DEF HttpPerform
    <2>2. /\ intent \in IntentRecords /\ input = None /\ ~intent.observed /\ lock # None
          /\ (lock = Run <=> rpc \in {"apply", "decode"}) /\ rpc # "decode" /\ (owned => rpc = "poll")
      BY <2>1 DEF StageOK, Types
    <2>3. /\ intent'.raced = intent.raced /\ intent'.done = Len(mlog')
          /\ intent'.observed = intent.observed
      BY <2>1, <2>2 DEF IntentRecords
    <2>4. intent # None
      BY <2>2
    <2>5. ~intent.raced /\ lock # Run => ~ready /\ ~owned /\ rpc \notin {"woken", "lock_wait"}
      BY <2>1, <2>4 DEF FreshOK
    <2>6. ~intent.raced => ~owned /\ rpc \notin {"lock_wait", "decode"}
      BY <2>2, <2>5
    <2> QED BY <1>0, <2>1, <2>2, <2>3, <2>5, <2>6 DEF FreshOK
  <1>9. ASSUME HttpError \/ CommitLocal \/ Abandon PROVE FreshOK'
    <2>1. Leave /\ stage # "none" /\ UNCHANGED <<owned, poll, input>>
      BY <1>9 DEF HttpError, CommitLocal, Abandon
    <2>2. intent \in IntentRecords
      BY <2>1 DEF StageOK, Types
    <2>3. intent # None
      BY <2>2
    <2>4. SameCommand
      <3>1. CASE HttpError
        BY <3>1 DEF HttpError, SameCommand
      <3>2. CASE CommitLocal
        <4>1. intent' = [intent EXCEPT !.sequence = Len(stream')]
          BY <3>2 DEF CommitLocal
        <4>2. /\ intent'.raced = intent.raced /\ intent'.done = intent.done
              /\ intent'.observed = intent.observed /\ intent'.seen = intent.seen
          BY <2>2, <4>1 DEF IntentRecords
        <4> QED BY <2>3, <4>2 DEF SameCommand
      <3>3. CASE Abandon
        <4>1. intent' = [intent EXCEPT !.done = None]
          BY <3>3 DEF Abandon
        <4>2. intent'.raced = intent.raced /\ intent'.done = None
          BY <2>2, <4>1 DEF IntentRecords
        <4> QED BY <2>3, <4>2 DEF SameCommand
      <3> QED BY <1>9, <3>1, <3>2, <3>3
    <2> QED BY <1>6, <2>1, <2>4
  <1>10. ASSUME RunRetry \/ RunAwaitSource \/ RunEmpty \/ RunDiscard PROVE FreshOK'
    <2>1. UNCHANGED <<intent, input, ready>> /\ rpc' \notin {"woken", "lock_wait", "decode"}
          /\ (owned' => owned /\ poll' = poll)
      BY <1>10 DEF RunRetry, RunAwaitSource, RunEmpty, RunDiscard, durable
    <2>2. lock' = Run \/ UNCHANGED <<stage, lock>>
      BY <1>10 DEF RunRetry, RunAwaitSource, RunEmpty, RunDiscard
    <2>3. SameCommand
      BY <2>1 DEF SameCommand
    <2>4. SameSource /\ SameAnswers
      BY <2>1, <2>2 DEF SameSource, SameAnswers
    <2> QED BY <1>0, <2>3, <2>4, FreshQuiet
  <1>11. ASSUME RunPoll \/ RunWoken PROVE FreshOK'
    <2>1. UNCHANGED <<intent, input, ready, lock, stage>> /\ input = None
      BY <1>11 DEF RunPoll, RunWoken, SendPoll, durable, Idle, FlowOK
    <2>2. ready \/ rpc = "woken"
      BY <1>11 DEF RunPoll, RunWoken
    <2>3. CASE SendPoll
      <3>1. rpc' = "poll" /\ poll'.upto = None
        BY <2>3 DEF SendPoll
      <3>2. ASSUME intent # None, ~intent.raced PROVE ~(stage # "none" /\ lock # Run)
        BY <2>2, <3>2 DEF FreshOK
      <3>3. ASSUME intent # None, ~intent.raced, intent.done # None
            PROVE  intent.done <= Len(mlog) /\ (intent.observed => intent.seen >= intent.done)
        BY <3>3 DEF FreshOK
      <3>4. UNCHANGED mlog
        BY <2>3 DEF SendPoll
      <3> QED BY <2>1, <3>1, <3>2, <3>3, <3>4 DEF FreshOK
    <2>4. CASE ~SendPoll
      <3>1. rpc' = "loop" /\ UNCHANGED <<poll, owned>>
        BY <1>11, <2>4 DEF RunPoll, RunWoken
      <3>2. SameCommand /\ SameSource /\ SameAnswers
        BY <2>1, <3>1 DEF SameCommand, SameSource, SameAnswers
      <3> QED BY <1>0, <3>2, FreshQuiet
    <2> QED BY <2>3, <2>4
  <1>12. ASSUME ServerAnswers PROVE FreshOK'
    <2>1. /\ rpc = "poll" /\ UNCHANGED <<mlog, intent, input, rpc, owned, ready, lock, stage>>
          /\ poll' = [poll EXCEPT !.upto = Len(mlog)]
      BY <1>12 DEF ServerAnswers, durable
    <2>2. poll \in PollRecords
      BY <2>1 DEF FlowOK
    <2>3. poll'.upto = Len(mlog)
      BY <2>1, <2>2 DEF PollRecords
    <2>4. ASSUME intent # None, ~intent.raced, intent.done # None PROVE poll'.upto >= intent.done
      <3>1. intent.done <= Len(mlog) /\ intent.done \in Nat
        BY <2>4 DEF FreshOK, Types, IntentRecords
      <3> QED BY <1>0, <2>3, <3>1
    <2> QED BY <2>1, <2>4 DEF FreshOK
  <1>13. ASSUME RunAccept PROVE FreshOK'
    <2>1. /\ UNCHANGED <<intent, input, ready, poll, stage>> /\ owned' = FALSE
          /\ owned /\ poll.upto # None /\ (lock' = Run \/ lock' = lock)
      BY <1>13 DEF RunAccept, durable
    <2>2. SameCommand /\ SameSource /\ SameAnswers
      BY <2>1 DEF SameCommand, SameSource, SameAnswers
    <2> QED BY <1>0, <2>2, FreshQuiet
  <1>14. ASSUME RunLock PROVE FreshOK'
    <2>1. queue \in Seq(Callers \cup {Run}) /\ queue # <<>> /\ Head(queue) = Run
      BY <1>14 DEF RunLock, Types
    <2>2. 1 \in 1..Len(queue) /\ queue[1] = Run
      BY <2>1
    <2>3. rpc = "lock_wait"
      BY <2>2 DEF QueueOK, RunWaits
    <2>4. UNCHANGED <<intent, input, ready, poll, stage, owned>> /\ lock' = Run
      BY <1>14 DEF RunLock, durable
    <2>5. SameCommand /\ SameSource /\ SameAnswers
      BY <2>3, <2>4 DEF SameCommand, SameSource, SameAnswers
    <2> QED BY <1>0, <2>5, FreshQuiet
  <1>15. ASSUME RunCapture PROVE FreshOK'
    <2>1. /\ rpc = "decode" /\ lock' = None /\ rpc' = "prepare" /\ UNCHANGED <<intent, stage, owned, mlog>>
          /\ input'.upto = poll.upto
      BY <1>15 DEF RunCapture
    <2>2. stage = "none" /\ ~owned
      BY <2>1 DEF StageOK
    <2> QED BY <2>1, <2>2 DEF FreshOK
  <1>16. ASSUME RunPrepare PROVE FreshOK'
    <2>1. /\ input # None /\ ~input.prepared /\ input \in InputRecords /\ rpc' = "loop"
          /\ UNCHANGED <<mlog, poll, owned, ready, lock, stage>> /\ ~owned /\ rpc \in {"prepare", "loop"}
      BY <1>16 DEF RunPrepare, FlowOK, Types, StageOK
    <2>2. input' = [input EXCEPT !.prepared = TRUE]
      BY <1>16 DEF RunPrepare, Prepare
    <2>3. input'.prepared
      BY <2>1, <2>2 DEF InputRecords
    <2>4. SameAnswers /\ SameSource
      BY <2>1, <2>3 DEF SameAnswers, SameSource
    <2>5. CASE intent' = intent
      <3>1. SameCommand
        BY <2>5 DEF SameCommand
      <3> QED BY <1>0, <2>4, <3>1, FreshQuiet
    <2>6. CASE intent # None /\ intent' = [intent EXCEPT !.observed = TRUE, !.seen = input.upto]
      <3>1. intent \in IntentRecords
        BY <2>6 DEF Types
      <3>2. /\ intent'.raced = intent.raced /\ intent'.done = intent.done
            /\ intent'.seen = input.upto
        BY <2>6, <3>1 DEF IntentRecords
      <3>3. ASSUME ~intent.raced, intent.done # None
            PROVE  intent.done <= Len(mlog) /\ input.upto >= intent.done
        BY <2>1, <2>6, <3>3 DEF FreshOK
      <3>4. ASSUME ~intent.raced, stage # "none", lock # Run
            PROVE  ~ready /\ ~owned /\ rpc \notin {"woken", "lock_wait"}
        BY <2>6, <3>4 DEF FreshOK
      <3> QED BY <2>1, <2>3, <3>2, <3>3, <3>4 DEF FreshOK
    <2>7. intent' = intent \/ (intent # None /\ intent' = [intent EXCEPT !.observed = TRUE, !.seen = input.upto])
      BY <1>16 DEF RunPrepare, Prepare, Unobserved
    <2> QED BY <2>5, <2>6, <2>7
  <1>17. ASSUME RunComplete PROVE FreshOK'
    <2>1. input' = None /\ UNCHANGED <<intent, stage, lock, ready, owned, poll, rpc>>
      BY <1>17 DEF RunComplete, volatile
    <2>2. SameCommand /\ SameSource /\ SameAnswers
      BY <2>1 DEF SameCommand, SameSource, SameAnswers
    <2> QED BY <1>0, <2>2, FreshQuiet
  <1>18. ASSUME Restart PROVE FreshOK'
    <2>1. /\ rpc' = "loop" /\ owned' = FALSE /\ stage' = "none" /\ UNCHANGED input
          /\ intent' = IF Unapplied THEN [intent EXCEPT !.done = None] ELSE intent
      BY <1>18 DEF Restart
    <2>2. SameSource /\ SameAnswers
      BY <2>1 DEF SameSource, SameAnswers
    <2>3. SameCommand
      <3>1. CASE Unapplied
        <4>1. intent \in IntentRecords /\ intent # None
          BY <3>1 DEF Unapplied, Types
        <4>2. intent'.raced = intent.raced /\ intent'.done = None
          BY <2>1, <3>1, <4>1 DEF IntentRecords
        <4> QED BY <4>1, <4>2 DEF SameCommand
      <3>2. CASE ~Unapplied
        BY <2>1, <3>2 DEF SameCommand
      <3> QED BY <3>1, <3>2
    <2> QED BY <1>0, <2>2, <2>3, FreshQuiet
  <1> QED
    BY <1>2, <1>4, <1>5, <1>7, <1>8, <1>9, <1>10, <1>11, <1>12, <1>13, <1>14, <1>15, <1>16, <1>17,
       <1>18 DEF Next, Command, Runner

-----------------------------------------------------------------------------
(* What is retained of a room *)

LEMMA UnobservedStep ==
    ASSUME Types, QueueOK, StageOK, FlowOK, Next, ~CommitLocal, ~RunPrepare
    PROVE  UNCHANGED <<cursor, meta>> /\ \A r : Unobserved(r)' <=> Unobserved(r)
  <1> USE MembershipAssumption
  <1>1. ASSUME UNCHANGED <<cursor, meta, intent>>
        PROVE  UNCHANGED <<cursor, meta>> /\ \A r : Unobserved(r)' <=> Unobserved(r)
    BY <1>1 DEF Unobserved
  <1>2. ASSUME intent = None \/ intent.sequence = None \/ intent.observed,
               intent' = None \/ intent'.sequence = None, UNCHANGED <<cursor, meta>>
        PROVE  UNCHANGED <<cursor, meta>> /\ \A r : Unobserved(r)' <=> Unobserved(r)
    BY <1>2 DEF Unobserved
  <1>3. ASSUME NEW c \in Callers, IdleReached(c)
        PROVE  UNCHANGED <<cursor, meta>> /\ \A r : Unobserved(r)' <=> Unobserved(r)
    <2>1. caller[c].at # "idle" /\ UNCHANGED <<cursor, meta>> /\ (intent = None \/ intent.observed)
      BY <1>3 DEF IdleReached, MembershipIdle
    <2>2. intent' = None \/ intent'.sequence = None
      <3>1. CASE Enter(c)
        BY <2>1, <3>1, EnterTypes
      <3>2. CASE ~Enter(c)
        BY <1>3, <3>2 DEF IdleReached
      <3> QED BY <3>1, <3>2
    <2> QED BY <1>2, <2>1, <2>2
  <1>4. ASSUME NEW c \in Callers, LockReached(c)
        PROVE  UNCHANGED <<cursor, meta>> /\ \A r : Unobserved(r)' <=> Unobserved(r)
    <2>1. queue # <<>> /\ c = Head(queue) /\ queue \in Seq(Callers \cup {Run})
          /\ UNCHANGED <<cursor, meta>>
      BY <1>4 DEF LockReached, Types
    <2>2. c = queue[1] /\ 1 \in 1..Len(queue)
      BY <2>1
    <2>3. caller[c].at # "idle"
      BY <2>2 DEF QueueOK, CallersWait
    <2>4. CASE intent = None
      <3>1. Enter(c)
        BY <1>4, <2>4 DEF LockReached
      <3>2. intent' = None \/ intent'.sequence = None
        BY <2>3, <3>1, EnterTypes
      <3> QED BY <1>2, <2>1, <2>4, <3>2
    <2>5. CASE intent # None
      <3>1. UNCHANGED intent
        BY <1>4, <2>5 DEF LockReached
      <3> QED BY <1>1, <2>1, <3>1
    <2> QED BY <2>4, <2>5
  <1>5. ASSUME ApplyIntent \/ HttpPerform \/ HttpError \/ Abandon
        PROVE  UNCHANGED <<cursor, meta>> /\ \A r : Unobserved(r)' <=> Unobserved(r)
    <2>1. stage # "none" /\ UNCHANGED <<cursor, meta>>
      BY <1>5 DEF ApplyIntent, HttpPerform, HttpError, Abandon
    <2>2. intent \in IntentRecords /\ intent.sequence = None
      BY <2>1 DEF StageOK, Types
    <2>3. intent' = None \/ intent'.sequence = None
      <3>1. CASE ApplyIntent
        <4>1. PICK x : \/ intent' = None \/ intent' = intent
                       \/ intent' = [intent EXCEPT !.proved = TRUE, !.proof = x]
          <5>1. CASE intent.target = "join" /\ ~intent.proved
            BY <3>1, <5>1 DEF ApplyIntent
          <5>2. CASE ~(intent.target = "join" /\ ~intent.proved)
            BY <3>1, <5>2 DEF ApplyIntent
          <5> QED BY <5>1, <5>2
        <4>2. CASE intent' = [intent EXCEPT !.proved = TRUE, !.proof = x]
          BY <2>2, <4>2 DEF IntentRecords
        <4> QED BY <2>2, <4>1, <4>2
      <3>2. CASE HttpPerform
        <4>1. intent' = [intent EXCEPT !.done = Len(mlog')]
          BY <3>2 DEF HttpPerform
        <4> QED BY <2>2, <4>1 DEF IntentRecords
      <3>3. CASE HttpError
        BY <3>3 DEF HttpError
      <3>4. CASE Abandon
        <4>1. intent' = [intent EXCEPT !.done = None]
          BY <3>4 DEF Abandon
        <4> QED BY <2>2, <4>1 DEF IntentRecords
      <3> QED BY <1>5, <3>1, <3>2, <3>3, <3>4
    <2> QED BY <1>2, <2>1, <2>2, <2>3
  <1>6. ASSUME Restart
        PROVE  UNCHANGED <<cursor, meta>> /\ \A r : Unobserved(r)' <=> Unobserved(r)
    <2>1. /\ UNCHANGED <<cursor, meta>>
          /\ intent' = IF Unapplied THEN [intent EXCEPT !.done = None] ELSE intent
      BY <1>6 DEF Restart
    <2>2. CASE Unapplied
      <3>1. intent \in IntentRecords /\ intent.sequence = None
        BY <2>2 DEF Unapplied, Types
      <3>2. intent'.sequence = None
        BY <2>1, <2>2, <3>1 DEF IntentRecords
      <3> QED BY <1>2, <2>1, <3>1, <3>2
    <2>3. CASE ~Unapplied
      BY <1>1, <2>1, <2>3
    <2> QED BY <2>2, <2>3
  <1>7. ASSUME \/ \E r \in Rooms, e \in {"join", "leave", "invite", "message"} : ServerEvent(r, e)
               \/ \E c \in Callers : \/ \E r \in Rooms, t \in {"join", "leave"} : Call(c, r, t)
                                     \/ CancelWait(c)
               \/ Acknowledge \/ ServerAnswers
        PROVE  UNCHANGED <<cursor, meta, intent>>
    BY <1>7 DEF ServerEvent, Call, CancelWait, Acknowledge, ServerAnswers, durable
  <1>8. ASSUME Runner PROVE UNCHANGED <<cursor, meta, intent>>
    BY <1>8 DEF Runner, RunRetry, RunAwaitSource, RunPoll, RunWoken, RunEmpty, RunDiscard, RunAccept,
                RunLock, RunCapture, RunComplete, SendPoll, durable
  <1> QED
    <2>1. CASE \/ \E r \in Rooms, e \in {"join", "leave", "invite", "message"} : ServerEvent(r, e)
               \/ \E c \in Callers : \/ \E r \in Rooms, t \in {"join", "leave"} : Call(c, r, t)
                                     \/ CancelWait(c)
               \/ Acknowledge \/ ServerAnswers \/ Runner
      BY <1>1, <1>7, <1>8, <2>1
    <2>2. CASE (\E c \in Callers : IdleReached(c) \/ LockReached(c))
               \/ ApplyIntent \/ HttpPerform \/ HttpError \/ Abandon \/ Restart
      BY <1>3, <1>4, <1>5, <1>6, <2>2
    <2> QED BY <2>1, <2>2 DEF Next, Command

(* The retained facts about a room, in one piece. *)
Retained == NonJoined /\ Agrees /\ BaselineOK

LEMMA PastKept ==
    ASSUME Types, StageOK, Next
    PROVE  /\ Len(mlog) \in Nat /\ Len(mlog') \in Nat /\ Len(mlog') >= Len(mlog)
           /\ \A r : \A n \in 0..Len(mlog) :
                /\ MembershipAt(r, n)' = MembershipAt(r, n)
                /\ \A from \in Nat : Changes(r, from, n)' = Changes(r, from, n)
  <1>1. mlog \in Seq(Rooms \X (Memberships \cup {"message"}))
    BY DEF Types
  <1>2. CASE mlog' = mlog
    BY <1>1, <1>2 DEF MembershipAt, Changes
  <1>3. CASE mlog' # mlog
    <2>1. PICK e : e \in Rooms \X (Memberships \cup {"message"}) /\ mlog' = Append(mlog, e)
      BY <1>3, LogStep
    <2>2. mlog' \in Seq(Rooms \X (Memberships \cup {"message"})) /\ Len(mlog') = Len(mlog) + 1
          /\ \A r : \A n \in 0..Len(mlog) :
                /\ MembershipAt(r, n)' = MembershipAt(r, n)
                /\ \A from \in Nat : Changes(r, from, n)' = Changes(r, from, n)
      BY <1>1, <2>1, LogGrows
    <2> QED BY <1>1, <2>2
  <1> QED BY <1>2, <1>3

LEMMA RetainedQuiet ==
    ASSUME Types, QueueOK, StageOK, FlowOK, Retained, Next, ~CommitLocal, ~RunPrepare
    PROVE  Retained'
  <1> USE MembershipAssumption
  <1>1. UNCHANGED <<cursor, meta>> /\ \A r : Unobserved(r)' <=> Unobserved(r)
    BY UnobservedStep
  <1>2. PICK b : b = Base(cursor)
    OBVIOUS
  <1>3. b \in 0..Len(mlog) /\ Base(cursor)' = b
    BY <1>1, <1>2 DEF Base, Types
  <1>4. /\ Len(mlog) \in Nat /\ Len(mlog') \in Nat /\ Len(mlog') >= Len(mlog)
        /\ \A r : \A n \in 0..Len(mlog) :
            /\ MembershipAt(r, n)' = MembershipAt(r, n)
            /\ \A from \in Nat : Changes(r, from, n)' = Changes(r, from, n)
    BY PastKept
  <1>5. ASSUME NEW r \in Rooms, NEW k, k = meta[r].nonjoined, k # None
        PROVE  k <= Len(mlog') /\ MembershipAt(r, k)' # "join"
    <2>1. k \in Nat /\ k <= Len(mlog) /\ MembershipAt(r, k) # "join"
      BY <1>5 DEF Types, MetaRecords, OptPosition, Retained, NonJoined
    <2>2. k \in 0..Len(mlog)
      BY <1>4, <2>1
    <2> QED BY <1>4, <2>1, <2>2
  <1>6. NonJoined'
    <2> SUFFICES ASSUME NEW r \in Rooms, meta'[r].nonjoined # None
                 PROVE  meta'[r].nonjoined <= Len(mlog') /\ MembershipAt(r, meta[r].nonjoined)' # "join"
      BY DEF NonJoined
    <2>1. PICK k : k = meta[r].nonjoined
      OBVIOUS
    <2>2. meta'[r].nonjoined = k /\ k # None
      BY <1>1, <2>1
    <2>3. k <= Len(mlog') /\ MembershipAt(r, k)' # "join"
      BY <1>5, <2>1, <2>2
    <2> QED BY <2>2, <2>3 DEF MembershipAt, Changes
  <1>7. Agrees'
    <2> SUFFICES ASSUME NEW r \in Rooms \ Hidden, ~Unobserved(r)'
                 PROVE  Local(meta[r].membership)' = Local(MembershipAt(r, Base(cursor)))'
      BY DEF Agrees
    <2>1. Local(meta[r].membership) = Local(MembershipAt(r, b))
      BY <1>1, <1>2 DEF Retained, Agrees
    <2>2. MembershipAt(r, b)' = MembershipAt(r, b)
      BY <1>3, <1>4
    <2>3. MembershipAt(r, Base(cursor))' = MembershipAt(r, b)'
      BY <1>3 DEF MembershipAt, Changes
    <2> QED BY <1>1, <2>1, <2>2, <2>3 DEF Local
  <1>8. BaselineOK'
    <2>1. ASSUME NEW r \in Rooms PROVE meta'[r].asof <= Base(cursor)' /\ (meta'[r].baseline => ~Unobserved(r)')
      BY <1>1, <1>2, <1>3 DEF Retained, BaselineOK
    <2>2. ASSUME NEW r \in Rooms \ Hidden, meta'[r].baseline
          PROVE  /\ meta'[r].membership = "join"
                 /\ MembershipAt(r, meta[r].asof)' = "join"
                 /\ Changes(r, meta[r].asof, Base(cursor))' = {}
      <3>1. PICK a : a = meta[r].asof
        OBVIOUS
      <3>2. meta'[r].asof = a /\ meta[r].membership = "join" /\ MembershipAt(r, a) = "join"
            /\ Changes(r, a, b) = {} /\ a \in Nat /\ a <= b
        BY <1>1, <1>2, <2>2, <3>1 DEF Retained, BaselineOK, BaselineCurrent, Types, MetaRecords
      <3>3. a \in 0..Len(mlog)
        BY <1>3, <1>4, <3>2
      <3>4. MembershipAt(r, a)' = "join" /\ Changes(r, a, b)' = {}
        BY <1>3, <1>4, <3>2, <3>3
      <3> QED BY <1>1, <1>3, <3>2, <3>4 DEF MembershipAt, Changes
    <2> QED BY <2>1, <2>2 DEF BaselineOK, BaselineCurrent
  <1> QED BY <1>6, <1>7, <1>8 DEF Retained

LEMMA RetainedLocal ==
    ASSUME Types, StageOK, Retained, Types', CommitLocal
    PROVE  Retained'
  <1> USE MembershipAssumption
  <1>1. /\ intent \in IntentRecords /\ intent.sequence = None /\ ~intent.observed
        /\ UNCHANGED <<mlog, cursor>>
    BY DEF CommitLocal, StageOK, Types
  <1>2. PICK change : change =
            Lifecycle(intent.room, intent.previous, intent.epoch, intent.target, "local")
    OBVIOUS
  <1>3. PICK room \in Rooms : room = intent.room
    BY <1>1 DEF IntentRecords
  <1>4. /\ meta' = [meta EXCEPT ![room] = Outcome(@, change)]
        /\ intent' = [intent EXCEPT !.sequence = Len(stream')]
    BY <1>2, <1>3 DEF CommitLocal
  <1>5. /\ \A r \in Rooms : r # room => meta'[r] = meta[r]
        /\ meta'[room].nonjoined = meta[room].nonjoined /\ meta'[room].asof = meta[room].asof
        /\ meta'[room].baseline = FALSE
    <2>1. meta \in [Rooms -> MetaRecords] /\ meta[room] \in MetaRecords
      BY DEF Types
    <2>2. meta'[room] = Outcome(meta[room], change) /\ \A r \in Rooms : r # room => meta'[r] = meta[r]
      BY <1>4, <2>1
    <2> QED BY <2>1, <2>2 DEF Outcome, MetaRecords
  <1>6. Len(stream') \in Nat
    BY DEF Types
  <1>7. /\ intent'.sequence = Len(stream') /\ intent'.observed = intent.observed
        /\ intent'.room = room /\ intent' \in IntentRecords
    BY <1>1, <1>3, <1>4, <1>6 DEF IntentRecords
  <1>8. /\ Unobserved(room)'
        /\ \A r \in Rooms : ~Unobserved(r) /\ (r # room => ~Unobserved(r)')
    BY <1>1, <1>6, <1>7 DEF Unobserved
  <1>9. \A r : \A n : MembershipAt(r, n)' = MembershipAt(r, n)
    BY <1>1 DEF MembershipAt, Changes
  <1>10. \A r \in Rooms : meta'[r].nonjoined = meta[r].nonjoined /\ meta'[r].asof = meta[r].asof
    BY <1>5
  <1>11. NonJoined'
    BY <1>1, <1>10 DEF Retained, NonJoined, MembershipAt, Changes
  <1>12. Agrees'
    <2>1. ASSUME NEW r \in Rooms \ Hidden, r # room
          PROVE  Local(meta[r].membership)' = Local(MembershipAt(r, Base(cursor)))'
      <3>1. Local(meta[r].membership) = Local(MembershipAt(r, Base(cursor)))
        BY <1>8 DEF Retained, Agrees
      <3>2. meta'[r] = meta[r]
        BY <1>5, <2>1
      <3> QED BY <1>1, <3>1, <3>2 DEF Local, MembershipAt, Changes, Base
    <2> QED BY <1>8, <2>1 DEF Agrees
  <1>13. BaselineOK'
    <2>1. ASSUME NEW r \in Rooms
          PROVE  meta'[r].asof <= Base(cursor)' /\ (meta'[r].baseline => ~Unobserved(r)')
      BY <1>1, <1>5, <1>8, <1>10 DEF Retained, BaselineOK, Base
    <2>2. ASSUME NEW r \in Rooms \ Hidden, meta'[r].baseline
          PROVE  /\ meta'[r].membership = "join"
                 /\ MembershipAt(r, meta[r].asof)' = "join"
                 /\ Changes(r, meta[r].asof, Base(cursor))' = {}
      <3>1. meta'[r] = meta[r]
        BY <1>5, <2>2
      <3>2. /\ meta[r].membership = "join" /\ MembershipAt(r, meta[r].asof) = "join"
            /\ Changes(r, meta[r].asof, Base(cursor)) = {}
        BY <2>2, <3>1 DEF Retained, BaselineOK, BaselineCurrent
      <3> QED BY <1>1, <3>1, <3>2 DEF MembershipAt, Changes, Base
    <2> QED BY <2>1, <2>2 DEF BaselineOK, BaselineCurrent
  <1> QED BY <1>11, <1>12, <1>13 DEF Retained

(* A room the response does not mention has no change in it. *)
LEMMA Unmentioned ==
    ASSUME NEW in, NEW r \in Rooms \ Hidden, r \notin Mentioned(in)
    PROVE  Changes(r, Base(in.since), in.upto) = {}
  <1>1. r \notin Shown(in)
    BY DEF Mentioned
  <1> QED BY <1>1 DEF Shown

(* A room that stays joined through a response without a transition has    *)
(* had no change: a first one would have been a leave.                     *)
LEMMA StillJoined ==
    ASSUME Types, Alternates, NEW in, ResponseOK(in), NEW r \in Rooms, ~Unobserved(r),
           meta[r].membership = "join", MembershipAt(r, Base(in.since)) = "join",
           Moves(in, r) = {}
    PROVE  Changes(r, Base(in.since), in.upto) = {} /\ Section(in, r) = "join"
  <1>1. mlog \in Seq(Rooms \X (Memberships \cup {"message"}))
    BY DEF Types
  <1>2. PICK b \in Nat : b = Base(in.since)
    BY DEF ResponseOK
  <1>3. in.upto \in b..Len(mlog) /\ in.upto \in Nat /\ Len(mlog) \in Nat
    BY <1>1, <1>2 DEF ResponseOK
  <1>4. Path(in, r)[2] = "join"
    <2>1. Path(in, r)[1] = "join" /\ Len(Path(in, r)) >= 2 /\ Len(Path(in, r)) \in Nat
      BY PathIs
    <2>2. <<r, 1>> \in {r} \X (1..(Len(Path(in, r)) - 1)) /\ <<r, 1>>[2] = 1
      BY <2>1
    <2>3. Path(in, r)[1] = Path(in, r)[1 + 1]
      BY <2>2 DEF Moves
    <2> QED BY <2>1, <2>3
  <1>5. Reported(in, r)[1] = "join"
    BY <1>4, PathIs
  <1>6. Section(in, r) # "invite"
    <2> SUFFICES ASSUME Section(in, r) = "invite" PROVE FALSE
      OBVIOUS
    <2>1. Reported(in, r) = <<"invite">>
      BY DEF Reported
    <2> QED BY <1>5, <2>1
  <1>7. PICK C : C = Changes(r, b, in.upto)
    OBVIOUS
  <1>8. C = {}
    <2> SUFFICES ASSUME C # {} PROVE FALSE
      OBVIOUS
    <2>1. IsFiniteSet(C) /\ Cardinality(C) \in Nat /\ C \in SUBSET Nat
      BY <1>2, <1>3, <1>7, ChangesFinite
    <2>2. Cardinality(C) >= 1
      BY <2>1, FS_EmptySet
    <2>3. PICK q : q = InOrder(C)
      OBVIOUS
    <2>4. /\ q \in [1..Cardinality(C) -> C] /\ Covers(q, C)
          /\ \A i, j \in 1..Cardinality(C) : i < j => q[i] < q[j]
      BY <2>1, <2>3, InOrderShape
    <2>5. PICK m : m = q[1]
      OBVIOUS
    <2>6. m \in C /\ \A j \in C : m <= j
      <3>1. m \in C /\ 1 \in 1..Cardinality(C)
        BY <2>1, <2>2, <2>4, <2>5
      <3>2. ASSUME NEW j \in C PROVE m <= j
        <4>1. PICK i \in 1..Cardinality(C) : q[i] = j
          BY <2>4 DEF Covers
        <4>2. i = 1 \/ 1 < i
          BY <2>1, <4>1
        <4>3. i = 1 => m = j
          BY <2>5, <4>1
        <4>4. 1 < i => m < j
          BY <2>4, <2>5, <3>1, <4>1
        <4>5. m \in Nat /\ j \in Nat
          BY <2>1, <3>1
        <4> QED BY <4>2, <4>3, <4>4, <4>5
      <3> QED BY <3>1, <3>2
    <2>7. mlog[m][2] = "join"
      BY <1>2, <1>5, <1>6, <1>7, <1>1, <2>3, <2>5, ReportedIs
    <2>8. m \in (b + 1)..in.upto /\ mlog[m][1] = r
      BY <1>7, <2>6 DEF Changes
    <2>9. m \in 1..Len(mlog) /\ m - 1 \in 0..Len(mlog) /\ b \in 0..(m - 1)
      BY <1>2, <1>3, <2>8
    <2>10. Changes(r, b, m - 1) = {}
      <3>1. ASSUME NEW i \in Changes(r, b, m - 1) PROVE FALSE
        <4>1. i \in (b + 1)..(m - 1) /\ mlog[i][1] = r /\ mlog[i][2] # "message"
          BY <3>1 DEF Changes
        <4>2. i \in (b + 1)..in.upto /\ i < m /\ i \in Nat /\ m \in Nat
          BY <1>2, <1>3, <2>8, <4>1
        <4>3. i \in C
          BY <1>7, <4>1, <4>2 DEF Changes
        <4> QED BY <2>6, <4>2, <4>3
      <3> QED BY <3>1
    <2>11. MembershipAt(r, m - 1) = MembershipAt(r, b)
      BY <1>1, <2>9, <2>10, NoChange
    <2>12. mlog[m][2] # MembershipAt(r, m - 1)
      BY <2>7, <2>8, <2>9 DEF Alternates
    <2> QED BY <1>2, <2>7, <2>11, <2>12
  <1>9. MembershipAt(r, in.upto) = MembershipAt(r, b)
    <2>1. PICK u : u = in.upto
      OBVIOUS
    <2>2. u \in 0..Len(mlog) /\ b \in 0..u
      BY <1>2, <1>3, <2>1
    <2>3. Changes(r, b, u) = {}
      BY <1>7, <1>8, <2>1
    <2> QED BY <1>1, <2>1, <2>2, <2>3, NoChange
  <1> QED BY <1>2, <1>7, <1>8, <1>9 DEF Section

LEMMA RetainedPrepare ==
    ASSUME Types, Alternates, FlowOK, Retained, RunPrepare
    PROVE  Retained'
  <1> USE MembershipAssumption
  <1>1. input # None /\ ~input.prepared
    BY DEF RunPrepare, FlowOK
  <1>2. ResponseOK(input) /\ Base(input.since) = Base(cursor) /\ input.upto \in Nat
    BY <1>1, ResponseOfInput
  <1>3. PICK in : in = input
    OBVIOUS
  <1>4. PICK b : b = Base(cursor)
    OBVIOUS
  <1>5. PICK u : u = in.upto
    OBVIOUS
  <1>6. /\ mlog \in Seq(Rooms \X (Memberships \cup {"message"})) /\ Len(mlog) \in Nat
        /\ b \in Nat /\ u \in Nat /\ u \in b..Len(mlog) /\ b \in 0..u /\ u \in 0..Len(mlog)
        /\ b \in 0..Len(mlog) /\ Base(in.since) = b /\ u # None
    BY <1>2, <1>3, <1>4, <1>5 DEF ResponseOK, Types, Base
  <1>7. PICK rooms : rooms = Mentioned(in)
    OBVIOUS
  <1>8. /\ meta' = [r \in Rooms |-> IF r \in rooms THEN Boundary(in, r) ELSE meta[r]]
        /\ intent' = IF \E r \in rooms : Unobserved(r)
                     THEN [intent EXCEPT !.observed = TRUE, !.seen = in.upto] ELSE intent
        /\ cursor' = u /\ UNCHANGED mlog
    BY <1>3, <1>5, <1>7 DEF RunPrepare, Prepare, Mentioned
  <1>9. Base(cursor)' = u
    BY <1>6, <1>8 DEF Base
  <1>10. /\ \A r, n : MembershipAt(r, n)' = MembershipAt(r, n)
         /\ \A r, x, y : Changes(r, x, y)' = Changes(r, x, y)
    BY <1>8 DEF MembershipAt, Changes
  <1>11. ASSUME NEW r \in Rooms, Unobserved(r)' PROVE Unobserved(r) /\ r \notin rooms
    <2>1. CASE \E s \in rooms : Unobserved(s)
      <3>1. intent \in IntentRecords
        BY <2>1 DEF Unobserved, Types
      <3>2. intent'.observed
        BY <1>8, <2>1, <3>1 DEF IntentRecords
      <3> QED BY <1>11, <3>2 DEF Unobserved
    <2>2. CASE ~\E s \in rooms : Unobserved(s)
      <3>1. intent' = intent
        BY <1>8, <2>2
      <3> QED BY <1>11, <2>2, <3>1 DEF Unobserved
    <2> QED BY <2>1, <2>2
  <1>12. ASSUME NEW r \in Rooms, Unobserved(r), r \notin rooms PROVE Unobserved(r)'
    <2>1. ~\E s \in rooms : Unobserved(s)
      BY <1>12 DEF Unobserved
    <2>2. intent' = intent
      BY <1>8, <2>1
    <2> QED BY <1>12, <2>2 DEF Unobserved
  <1>13. ASSUME NEW r \in Rooms
         PROVE  /\ Section(in, r) \in Memberships
                /\ Local(Section(in, r)) = Local(MembershipAt(r, u))
                /\ Section(in, r) = "join" <=> MembershipAt(r, u) = "join"
    BY <1>2, <1>3, <1>5, <1>6, SectionIs
  <1>14. ASSUME NEW r \in Rooms \ Hidden, r \notin rooms
         PROVE  Changes(r, b, u) = {} /\ MembershipAt(r, u) = MembershipAt(r, b)
    <2>1. Changes(r, b, u) = {}
      <3>1. r \notin Mentioned(in)
        BY <1>7, <1>14
      <3>2. Changes(r, Base(in.since), in.upto) = {}
        BY <3>1, Unmentioned
      <3> QED BY <1>5, <1>6, <3>2
    <2> QED BY <1>6, <2>1, NoChange
  <1>15. NonJoined'
    <2>1. ASSUME NEW r \in Rooms, NEW k, k = meta'[r].nonjoined, k # None
          PROVE  k <= Len(mlog) /\ MembershipAt(r, k) # "join"
      <3>1. CASE r \in rooms /\ Section(in, r) # "join"
        <4>1. meta'[r].nonjoined = u
          BY <1>5, <1>8, <3>1 DEF Boundary
        <4> QED BY <1>6, <1>13, <2>1, <3>1, <4>1
      <3>2. CASE ~(r \in rooms /\ Section(in, r) # "join")
        <4>1. meta'[r].nonjoined = meta[r].nonjoined
          BY <1>8, <3>2 DEF Boundary
        <4> QED BY <2>1, <4>1 DEF Retained, NonJoined
      <3> QED BY <3>1, <3>2
    <2>2. ASSUME NEW r \in Rooms, meta'[r].nonjoined # None
          PROVE  meta'[r].nonjoined <= Len(mlog') /\ MembershipAt(r, meta[r].nonjoined)' # "join"
      <3>1. PICK k : k = meta'[r].nonjoined
        OBVIOUS
      <3>2. k <= Len(mlog) /\ MembershipAt(r, k) # "join"
        BY <2>1, <2>2, <3>1
      <3>3. MembershipAt(r, k)' # "join"
        BY <1>10, <3>2
      <3> QED BY <1>8, <3>1, <3>2, <3>3 DEF MembershipAt, Changes
    <2> QED BY <2>2 DEF NonJoined
  <1>16. Agrees'
    <2> SUFFICES ASSUME NEW r \in Rooms \ Hidden, ~Unobserved(r)'
                 PROVE  Local(meta'[r].membership) = Local(MembershipAt(r, u))
      BY <1>8, <1>9 DEF Agrees, MembershipAt, Changes, Local
    <2>1. CASE r \in rooms
      <3>1. meta'[r].membership = Section(in, r)
        BY <1>8, <2>1 DEF Boundary
      <3> QED BY <1>13, <3>1
    <2>2. CASE r \notin rooms
      <3>1. meta'[r] = meta[r] /\ ~Unobserved(r)
        BY <1>8, <1>12, <2>2
      <3>2. Local(meta[r].membership) = Local(MembershipAt(r, b))
        BY <1>4, <3>1 DEF Retained, Agrees
      <3> QED BY <1>14, <2>2, <3>1, <3>2
    <2> QED BY <2>1, <2>2
  <1>17. ASSUME NEW r \in Rooms
         PROVE  /\ meta'[r].asof <= u /\ meta'[r].asof \in Nat
                /\ meta'[r].baseline => ~Unobserved(r)'
    <2>1. meta[r].asof \in Nat /\ meta[r].asof <= b /\ (meta[r].baseline => ~Unobserved(r))
      BY <1>4 DEF Retained, BaselineOK, Types, MetaRecords
    <2>2. CASE r \in rooms
      <3>1. meta'[r].asof = IF Establishes(in, r) THEN u ELSE meta[r].asof
        BY <1>5, <1>8, <2>2 DEF Boundary
      <3>2. ~Unobserved(r)'
        BY <1>11, <2>2
      <3> QED BY <1>6, <2>1, <3>1, <3>2
    <2>3. CASE r \notin rooms
      <3>1. meta'[r] = meta[r]
        BY <1>8, <2>3
      <3> QED BY <1>6, <1>11, <2>1, <3>1
    <2> QED BY <2>2, <2>3
  <1>18. ASSUME NEW r \in Rooms \ Hidden, meta'[r].baseline, NEW a, a = meta'[r].asof
         PROVE  meta'[r].membership = "join" /\ MembershipAt(r, a) = "join" /\ Changes(r, a, u) = {}
    <2>1. meta[r].baseline => /\ meta[r].membership = "join" /\ MembershipAt(r, meta[r].asof) = "join"
                              /\ Changes(r, meta[r].asof, b) = {} /\ ~Unobserved(r)
                              /\ meta[r].asof \in Nat /\ meta[r].asof <= b
      BY <1>4 DEF Retained, BaselineOK, BaselineCurrent, Types, MetaRecords
    <2>2. ASSUME NEW x \in Nat, x <= b, Changes(r, x, b) = {}, Changes(r, b, u) = {}
          PROVE  Changes(r, x, u) = {}
      <3>1. ASSUME NEW i \in Changes(r, x, u) PROVE FALSE
        <4>1. i \in (x + 1)..u /\ mlog[i][1] = r /\ mlog[i][2] # "message"
          BY <3>1 DEF Changes
        <4>2. i \in (x + 1)..b \/ i \in (b + 1)..u
          BY <1>6, <2>2, <4>1
        <4> QED BY <2>2, <4>1, <4>2 DEF Changes
      <3> QED BY <3>1
    <2>3. CASE r \in rooms /\ Establishes(in, r)
      <3>1. meta'[r].membership = Section(in, r) /\ a = u /\ Section(in, r) = "join"
        BY <1>5, <1>8, <1>18, <2>3 DEF Boundary, Establishes
      <3>2. Changes(r, u, u) = {}
        BY <1>6 DEF Changes
      <3> QED BY <1>13, <3>1, <3>2
    <2>4. CASE r \in rooms /\ ~Establishes(in, r)
      <3>1. /\ meta'[r].membership = Section(in, r) /\ a = meta[r].asof
            /\ meta[r].baseline /\ Moves(in, r) = {}
        <4>1. meta'[r] = Boundary(in, r)
          BY <1>8, <2>4
        <4>2. meta'[r].baseline = (Establishes(in, r) \/ (meta[r].baseline /\ Moves(in, r) = {}))
          BY <4>1 DEF Boundary
        <4>3. meta'[r].membership = Section(in, r)
          BY <4>1 DEF Boundary
        <4>4. a = meta[r].asof
          BY <1>18, <2>4, <4>1 DEF Boundary
        <4>5. meta[r].baseline /\ Moves(in, r) = {}
          BY <1>18, <2>4, <4>2
        <4> QED BY <4>3, <4>4, <4>5
      <3>2. MembershipAt(r, b) = "join"
        <4>1. a \in 0..b
          BY <1>6, <2>1, <3>1
        <4> QED BY <1>6, <2>1, <3>1, <4>1, NoChange
      <3>3. Changes(r, b, u) = {} /\ Section(in, r) = "join"
        BY <1>2, <1>3, <1>5, <1>6, <2>1, <3>1, <3>2, StillJoined
      <3> QED BY <2>1, <2>2, <3>1, <3>3
    <2>5. CASE r \notin rooms
      <3>1. meta'[r] = meta[r]
        BY <1>8, <2>5
      <3>2. Changes(r, b, u) = {}
        BY <1>14, <2>5
      <3> QED BY <1>18, <2>1, <2>2, <3>1, <3>2
    <2> QED BY <2>3, <2>4, <2>5
  <1>19. BaselineOK'
    <2>1. ASSUME NEW r \in Rooms \ Hidden, meta'[r].baseline
          PROVE  /\ meta'[r].membership = "join"
                 /\ MembershipAt(r, meta[r].asof)' = "join"
                 /\ Changes(r, meta[r].asof, Base(cursor))' = {}
      <3>1. PICK a : a = meta'[r].asof
        OBVIOUS
      <3>2. meta'[r].membership = "join" /\ MembershipAt(r, a) = "join" /\ Changes(r, a, u) = {}
        BY <1>18, <2>1, <3>1
      <3> QED BY <1>8, <1>9, <3>1, <3>2 DEF MembershipAt, Changes
    <2> QED BY <1>9, <1>17, <2>1 DEF BaselineOK, BaselineCurrent
  <1> QED BY <1>15, <1>16, <1>19 DEF Retained

-----------------------------------------------------------------------------
(* The theorems *)

LEMMA MembershipInit ==
    ASSUME Init
    PROVE  MembershipInv
  <1> USE MembershipAssumption
  <1>1. mlog \in Seq(Rooms \X (Memberships \cup {"message"})) /\ Len(mlog) \in Nat
    <2>1. CASE mlog = <<>>
      BY <2>1
    <2>2. CASE \E r \in Rooms : mlog = <<<<r, "join">>>>
      <3>1. PICK e : e \in Rooms \X (Memberships \cup {"message"}) /\ mlog = <<e>>
        BY <2>2 DEF Memberships
      <3> QED BY <3>1
    <2> QED BY <2>1, <2>2 DEF Init
  <1>2. Types
    BY <1>1 DEF Init, Types, MetaRecords, CallerRecords, OptPosition
  <1>3. Alternates
    <2>1. ASSUME NEW i \in 1..Len(mlog) PROVE i = 1 /\ mlog[i][2] = "join"
      BY <2>1 DEF Init
    <2>2. \A r : MembershipAt(r, 0) = "leave"
      BY DEF MembershipAt, Changes
    <2> QED BY <2>1, <2>2 DEF Alternates
  <1>4. QueueOK
    BY DEF Init, QueueOK, RunWaits, CallersWait, NoneTwice, CallersOK
  <1>5. StageOK /\ FlowOK /\ FreshOK
    BY DEF Init, StageOK, FlowOK, FreshOK
  <1>6. NonJoined
    BY DEF Init, NonJoined
  <1>7. Agrees
    <2>1. \A r : MembershipAt(r, 0) = "leave"
      BY DEF MembershipAt, Changes
    <2> QED BY <2>1 DEF Init, Agrees, Local, Base
  <1>8. BaselineOK
    BY DEF Init, BaselineOK, BaselineCurrent, Base
  <1> QED BY <1>2, <1>3, <1>4, <1>5, <1>6, <1>7, <1>8 DEF MembershipInv

LEMMA MembershipStep ==
    ASSUME MembershipInv, [Next]_vars
    PROVE  MembershipInv'
  <1>1. CASE Next
    <2>0. Types /\ Alternates /\ QueueOK /\ StageOK /\ FlowOK /\ FreshOK /\ Retained /\ NonJoined
      BY DEF MembershipInv, Retained
    <2>1. Types'
      BY <1>1, TypesKept
    <2>2. Alternates'
      BY <1>1, <2>0, AlternatesStep
    <2>3. QueueOK'
      BY <1>1, <2>0, QueueKept
    <2>4. StageOK'
      BY <1>1, <2>0, <2>1, StageKept
    <2>5. FlowOK'
      BY <1>1, <2>0, <2>1, FlowKept
    <2>6. FreshOK'
      BY <1>1, <2>0, <2>1, FreshKept
    <2>7. Retained'
      BY <1>1, <2>0, <2>1, RetainedQuiet, RetainedLocal, RetainedPrepare
    <2> QED BY <2>1, <2>2, <2>3, <2>4, <2>5, <2>6, <2>7 DEF MembershipInv, Retained
  <1>2. CASE UNCHANGED vars
    <2>1. /\ UNCHANGED <<mlog, cursor, meta, intent, input, stream, rpc, poll, owned, ready>>
          /\ UNCHANGED <<lock, queue, stage, caller>>
      BY <1>2 DEF vars, durable, volatile
    <2>2. Types' /\ QueueOK'
      BY <2>1 DEF MembershipInv, Types, QueueOK, RunWaits, CallersWait, NoneTwice, CallersOK
    <2>3. Alternates'
      BY <2>1 DEF MembershipInv, Alternates, MembershipAt, Changes
    <2>4. StageOK'
      BY <2>1 DEF MembershipInv, StageOK, Matches
    <2>5. FlowOK'
      BY <2>1 DEF MembershipInv, FlowOK, Answer, MembershipAt, Changes, Base
    <2>6. FreshOK'
      BY <2>1 DEF MembershipInv, FreshOK
    <2>7. NonJoined' /\ Agrees'
      BY <2>1, ZenonT(40) DEF MembershipInv, NonJoined, Agrees, Unobserved, MembershipAt, Changes, Base, Local
    <2>8. BaselineOK'
      BY <2>1 DEF MembershipInv, BaselineOK, BaselineCurrent, Unobserved, MembershipAt, Changes, Base
    <2> QED BY <2>2, <2>3, <2>4, <2>5, <2>6, <2>7, <2>8 DEF MembershipInv
  <1> QED BY <1>1, <1>2

(* In every reachable state what is retained of the rooms, the retained    *)
(* intent, the running poll and the pending response fit each other and    *)
(* the server's log.                                                       *)
THEOREM MembershipInvariant == Spec => []MembershipInv
  BY MembershipInit, MembershipStep, PTL DEF Spec

(* No interleaving of local commands, their failures, restarts and the     *)
(* sync loop loses a change of membership for good: once the cursor has    *)
(* caught up and nothing is pending, client.py and the server agree.       *)
THEOREM MembershipAgrees == Spec => []Agreement
  <1>1. MembershipInv => Agreement
    <2> SUFFICES ASSUME MembershipInv, cursor = Len(mlog), intent = None \/ intent.observed,
                        NEW r \in Rooms \ Hidden
                 PROVE  Local(meta[r].membership) = Local(MembershipAt(r, cursor))
      BY DEF Agreement
    <2>1. ~Unobserved(r)
      BY DEF Unobserved
    <2>2. cursor # None
      BY MembershipAssumption DEF MembershipInv, Types
    <2>3. Base(cursor) = cursor
      BY <2>2 DEF Base
    <2> QED BY <2>1, <2>3 DEF MembershipInv, Agrees
  <1> QED BY <1>1, MembershipInvariant, PTL

(* A complete baseline belongs to the present tenure: the membership has   *)
(* not changed since the response it was taken from.                       *)
THEOREM BaselinesCurrent == Spec => []BaselineCurrent
  <1>1. MembershipInv => BaselineCurrent
    BY DEF MembershipInv, BaselineOK
  <1> QED BY <1>1, MembershipInvariant, PTL

(* The response that settles a local operation was computed after the      *)
(* operation, for every command that did not start while the runner was    *)
(* between the source gate and its poll (the race of the violated run).    *)
THEOREM ObservationsFollowHttp == Spec => []ObservationFollowsHttpUnraced
  <1>1. MembershipInv => ObservationFollowsHttpUnraced
    BY DEF MembershipInv, FreshOK, ObservationFollowsHttpUnraced, ObservationFollowsHttp
  <1> QED BY <1>1, MembershipInvariant, PTL

(* A response taken to hold the whole state of a room the user has just    *)
(* joined starts from a token at which the user was not joined.            *)
THEOREM NewlyJoinedProved == Spec => []NewlyJoinedProof
  <1>1. MembershipInv => NewlyJoinedProof
    <2> SUFFICES ASSUME MembershipInv, input # None, ~input.prepared, input.newly # None
                 PROVE  MembershipAt(input.newly, input.since) # "join"
      BY DEF NewlyJoinedProof
    <2>1. Answer(input)
      BY DEF MembershipInv, FlowOK
    <2> QED BY <2>1 DEF Answer
  <1> QED BY <1>1, MembershipInvariant, PTL

-----------------------------------------------------------------------------
(* The chain of transitions *)

(* The membership and epoch that the first n records of s leave r in, that *)
(* the transitions of r continue each other, and that the metadata is what *)
(* the last one left.                                                      *)
WithinOf(s, r, n) == {i \in 1..n : s[i].room = r}
Before(s, r, n) ==
    IF WithinOf(s, r, n) = {} THEN <<None, 0>>
    ELSE <<s[Largest(WithinOf(s, r, n))].current, s[Largest(WithinOf(s, r, n))].next>>
Continues(s, r, i) ==
    Local(s[i].previous) = Local(Before(s, r, i - 1)[1]) /\ s[i].epoch = Before(s, r, i - 1)[2]
Chained(s, r) == \A i \in WithinOf(s, r, Len(s)) : Continues(s, r, i)
ChainInv ==
    \A r \in Rooms : /\ Chained(stream, r)
                     /\ <<meta[r].membership, meta[r].epoch>> = Before(stream, r, Len(stream))

LEMMA LargestIs ==
    ASSUME NEW S \in SUBSET Nat, NEW x \in S, \A y \in S : y <= x
    PROVE  Largest(S) = x
  <1>1. Largest(S) \in S /\ \A y \in S : y <= Largest(S)
    BY DEF Largest
  <1>2. Largest(S) <= x /\ x <= Largest(S) /\ Largest(S) \in Nat /\ x \in Nat
    BY <1>1
  <1> QED BY <1>2

LEMMA ChainMeansEpochChain ==
    ASSUME Types, ChainInv
    PROVE  EpochChain
  <1> USE MembershipAssumption
  <1>1. \A r, n : Within(r, n) = WithinOf(stream, r, n)
    BY DEF Within, WithinOf
  <1>2. Len(stream) \in Nat
    BY DEF Types
  <1>3. ASSUME NEW r \in Rooms, NEW i \in Within(r, Len(stream))
        PROVE  IF Within(r, i - 1) = {}
               THEN Local(stream[i].previous) = "leave" /\ stream[i].epoch = 0
               ELSE /\ Local(stream[i].previous) = Local(stream[Largest(Within(r, i - 1))].current)
                    /\ stream[i].epoch = stream[Largest(Within(r, i - 1))].next
    <2>1. Continues(stream, r, i)
      BY <1>1 DEF ChainInv, Chained
    <2>2. PICK W : W = Within(r, i - 1)
      OBVIOUS
    <2>3. W = WithinOf(stream, r, i - 1)
      BY <1>1, <2>2
    <2>4. CASE W = {}
      <3>1. Before(stream, r, i - 1) = <<None, 0>>
        BY <2>3, <2>4 DEF Before
      <3> QED BY <2>1, <2>2, <2>4, <3>1 DEF Continues, Local
    <2>5. CASE W # {}
      <3>1. Before(stream, r, i - 1) = <<stream[Largest(W)].current, stream[Largest(W)].next>>
        BY <2>3, <2>5 DEF Before
      <3> QED BY <2>1, <2>2, <2>5, <3>1 DEF Continues
    <2> QED BY <2>4, <2>5
  <1>4. ASSUME NEW r \in Rooms
        PROVE  IF Within(r, Len(stream)) = {} THEN meta[r].membership = None
               ELSE <<meta[r].membership, meta[r].epoch>> =
                    <<stream[Largest(Within(r, Len(stream)))].current,
                      stream[Largest(Within(r, Len(stream)))].next>>
    <2>1. <<meta[r].membership, meta[r].epoch>> = Before(stream, r, Len(stream))
      BY DEF ChainInv
    <2>2. PICK W : W = Within(r, Len(stream))
      OBVIOUS
    <2>3. W = WithinOf(stream, r, Len(stream))
      BY <1>1, <2>2
    <2>4. CASE W = {}
      <3>1. Before(stream, r, Len(stream)) = <<None, 0>>
        BY <2>3, <2>4 DEF Before
      <3> QED BY <2>1, <2>2, <2>4, <3>1
    <2>5. CASE W # {}
      <3>1. Before(stream, r, Len(stream)) = <<stream[Largest(W)].current, stream[Largest(W)].next>>
        BY <2>3, <2>5 DEF Before
      <3> QED BY <2>1, <2>2, <2>5, <3>1
    <2> QED BY <2>4, <2>5
  <1> QED BY <1>3, <1>4 DEF EpochChain

(* Records that are added leave the earlier ones as they were. *)
Extends(u, s) ==
    /\ s \in Seq(StreamRecords) /\ u \in Seq(StreamRecords) /\ Len(s) <= Len(u)
    /\ \A i \in 1..Len(s) : u[i] = s[i]

LEMMA BeforeKept ==
    ASSUME NEW s, NEW u, Extends(u, s), NEW r, NEW n \in 0..Len(s)
    PROVE  Before(u, r, n) = Before(s, r, n)
  <1>1. s \in Seq(StreamRecords) /\ Len(s) \in Nat /\ \A i \in 1..n : u[i] = s[i]
    BY DEF Extends
  <1>2. PICK W : W = WithinOf(s, r, n)
    OBVIOUS
  <1>3. WithinOf(u, r, n) = W
    BY <1>1, <1>2 DEF WithinOf
  <1>4. CASE W = {}
    BY <1>2, <1>3, <1>4 DEF Before
  <1>5. CASE W # {}
    <2>1. W \in SUBSET Nat /\ (\A y \in W : y <= n) /\ n \in Nat /\ W \in SUBSET (1..n)
      BY <1>1, <1>2 DEF WithinOf
    <2>2. PICK x \in W : \A y \in W : y <= x
      BY <1>5, <2>1, LargestNatural
    <2>3. Largest(W) = x
      BY <2>1, <2>2, LargestIs
    <2>4. u[x] = s[x]
      BY <1>1, <2>1, <2>2
    <2> QED BY <1>2, <1>3, <1>5, <2>3, <2>4 DEF Before
  <1> QED BY <1>4, <1>5

(* Without a record of r the room stays where it was. *)
LEMMA BeforeUntouched ==
    ASSUME NEW s, NEW u, Extends(u, s), NEW r, NEW n \in Len(s)..Len(u),
           \A i \in (Len(s) + 1)..n : u[i].room # r
    PROVE  Before(u, r, n) = Before(s, r, Len(s))
  <1>1. s \in Seq(StreamRecords) /\ u \in Seq(StreamRecords) /\ Len(s) \in Nat /\ Len(u) \in Nat
    BY DEF Extends
  <1>2. Before(u, r, Len(s)) = Before(s, r, Len(s))
    BY <1>1, BeforeKept
  <1>3. WithinOf(u, r, n) = WithinOf(u, r, Len(s))
    BY <1>1 DEF WithinOf
  <1> QED BY <1>2, <1>3 DEF Before

(* The last record of r decides. *)
LastOf(u, r, n, j) ==
    /\ n \in Nat /\ j \in 1..n /\ u[j].room = r
    /\ \A i \in (j + 1)..n : u[i].room # r

LEMMA BeforeLast ==
    ASSUME NEW u, NEW r, NEW n, NEW j, LastOf(u, r, n, j)
    PROVE  Before(u, r, n) = <<u[j].current, u[j].next>>
  <1>1. PICK W : W = WithinOf(u, r, n)
    OBVIOUS
  <1>2. W \in SUBSET Nat /\ j \in W /\ \A y \in W : y <= j
    BY <1>1 DEF WithinOf, LastOf
  <1>3. Largest(W) = j
    BY <1>2, LargestIs
  <1> QED BY <1>1, <1>2, <1>3 DEF Before

(* The chain of the longer stream, from that of the shorter one and of the *)
(* records added.                                                          *)
LEMMA ChainedExtends ==
    ASSUME NEW s, NEW u, Extends(u, s), NEW r, Chained(s, r),
           \A i \in (Len(s) + 1)..Len(u) : u[i].room = r => Continues(u, r, i)
    PROVE  Chained(u, r)
  <1>1. s \in Seq(StreamRecords) /\ u \in Seq(StreamRecords) /\ Len(s) \in Nat /\ Len(u) \in Nat
        /\ \A i \in 1..Len(s) : u[i] = s[i]
    BY DEF Extends
  <1>2. ASSUME NEW i \in WithinOf(u, r, Len(u)) PROVE Continues(u, r, i)
    <2>1. i \in 1..Len(u) /\ u[i].room = r
      BY DEF WithinOf
    <2>2. CASE i \in 1..Len(s)
      <3>1. i - 1 \in 0..Len(s) /\ u[i] = s[i]
        BY <1>1, <2>2
      <3>2. Before(u, r, i - 1) = Before(s, r, i - 1)
        BY <3>1, BeforeKept
      <3>3. i \in WithinOf(s, r, Len(s))
        BY <2>1, <2>2, <3>1 DEF WithinOf
      <3>4. Continues(s, r, i)
        BY <3>3 DEF Chained
      <3> QED BY <3>1, <3>2, <3>4 DEF Continues
    <2>3. CASE i \in (Len(s) + 1)..Len(u)
      BY <2>1, <2>3
    <2> QED BY <1>1, <2>1, <2>2, <2>3
  <1> QED BY <1>2 DEF Chained

(* The path does not change between two moves. *)
LEMMA Constant ==
    ASSUME NEW p, NEW a \in Nat, NEW b \in Nat, a <= b,
           \A j \in a..(b - 1) : p[j] = p[j + 1]
    PROVE  p[a] = p[b]
  <1> DEFINE T == {n \in Nat : a <= n /\ n <= b /\ p[n] # p[a]}
  <1> SUFFICES ASSUME T # {} PROVE FALSE
    OBVIOUS
  <1>1. PICK n \in T : \A k \in T : n <= k
    BY LeastNatural
  <1>2. n \in Nat /\ a <= n /\ n <= b /\ p[n] # p[a]
    BY <1>1
  <1>3. n # a
    BY <1>2
  <1>4. n - 1 \in Nat /\ a <= n - 1 /\ n - 1 <= b /\ n - 1 \in a..(b - 1) /\ ~(n <= n - 1)
    BY <1>2, <1>3
  <1>5. n - 1 \notin T
    BY <1>1, <1>4
  <1>6. p[n - 1] = p[a]
    BY <1>4, <1>5
  <1>7. p[n - 1] = p[(n - 1) + 1] /\ (n - 1) + 1 = n
    BY <1>2, <1>4
  <1> QED BY <1>2, <1>6, <1>7

LEMMA DeparturesConstant ==
    ASSUME NEW p, NEW a \in Nat, NEW b \in Nat, a <= b,
           \A j \in (a + 1)..b : p[j] = p[j + 1]
    PROVE  Departures(p, b) = Departures(p, a)
  <1>1. {j \in 1..b : Departs(p[j], p[j + 1]) = 1} = {j \in 1..a : Departs(p[j], p[j + 1]) = 1}
    BY DEF Departs
  <1> QED BY <1>1 DEF Departures

LEMMA DeparturesNext ==
    ASSUME NEW p, NEW a \in Nat, a >= 1
    PROVE  Departures(p, a) = Departures(p, a - 1) + Departs(p[a], p[a + 1])
  <1> DEFINE S(n) == {j \in 1..n : Departs(p[j], p[j + 1]) = 1}
  <1>1. IsFiniteSet(S(a - 1)) /\ Cardinality(S(a - 1)) \in Nat /\ a \notin S(a - 1)
    <2>1. a - 1 \in Int /\ 1 \in Int /\ S(a - 1) \in SUBSET (1..(a - 1))
      OBVIOUS
    <2>2. IsFiniteSet(1..(a - 1))
      BY <2>1, FS_Interval
    <2>3. IsFiniteSet(S(a - 1))
      BY <2>1, <2>2, FS_Subset
    <2>4. a \notin S(a - 1)
      OBVIOUS
    <2> QED BY <2>3, <2>4, FS_CardinalityType
  <1>2. CASE Departs(p[a], p[a + 1]) = 1
    <2>1. S(a) = S(a - 1) \cup {a}
      BY <1>2
    <2>2. Cardinality(S(a - 1) \cup {a}) = Cardinality(S(a - 1)) + 1
      <3> HIDE DEF S
      <3> QED BY <1>1, FS_AddElement
    <2> QED BY <1>2, <2>1, <2>2 DEF Departures
  <1>3. CASE Departs(p[a], p[a + 1]) # 1
    <2>1. Departs(p[a], p[a + 1]) = 0
      BY <1>3 DEF Departs
    <2>2. S(a) = S(a - 1)
      BY <1>3
    <2> QED BY <1>1, <2>1, <2>2 DEF Departures
  <1> QED BY <1>2, <1>3

LEMMA NoDepartures ==
    ASSUME NEW p
    PROVE  Departures(p, 0) = 0
  <1>1. {j \in 1..0 : Departs(p[j], p[j + 1]) = 1} = {}
    OBVIOUS
  <1> QED BY <1>1, FS_EmptySet DEF Departures

(* The records of a response leave a room of it where the path ends. *)
LEMMA ResponseChained ==
    ASSUME Types, ChainInv, NEW in, ResponseOK(in), NEW rooms \in SUBSET Rooms, NEW u,
           u = stream \o Records(in, AllMoves(in, rooms)), NEW r \in Rooms
    PROVE  /\ Chained(u, r)
           /\ r \notin rooms => Before(u, r, Len(u)) = <<meta[r].membership, meta[r].epoch>>
           /\ r \in rooms => Before(u, r, Len(u)) =
                <<Section(in, r), meta[r].epoch + Departures(Path(in, r), Len(Path(in, r)) - 1)>>
  <1>1. PICK M : M = AllMoves(in, rooms)
    OBVIOUS
  <1>2. PICK q : /\ Sorted(q, M) /\ Covers(q, M)
                 /\ Records(in, M) = [k \in 1..Cardinality(M) |-> Transition(in, q[k])]
    BY <1>1, MovesSorted
  <1>3. /\ IsFiniteSet(M) /\ \A m \in M : m[1] \in rooms /\ m \in Moves(in, m[1])
        /\ \A w \in rooms : \A m \in Moves(in, w) : m \in M
    BY <1>1, AllMovesAre
  <1>4. PICK n \in Nat : n = Cardinality(M)
    BY <1>3, FS_CardinalityType
  <1>5. PICK s : s = stream
    OBVIOUS
  <1>6. PICK l \in Nat : l = Len(s) /\ s \in Seq(StreamRecords)
    BY <1>5 DEF Types
  <1>7. PICK t : t = Records(in, M)
    OBVIOUS
  <1>8. t \in Seq(StreamRecords)
    BY <1>1, <1>7, RecordsType
  <1>9. Len(t) = n /\ \A k \in 1..n : t[k] = Transition(in, q[k])
    BY <1>2, <1>4, <1>7, <1>8
  <1>10. u = s \o t
    BY <1>1, <1>5, <1>7
  <1>11. /\ u \in Seq(StreamRecords) /\ Len(u) = l + n
         /\ \A i \in 1..l : u[i] = s[i]
         /\ \A k \in 1..n : u[l + k] = t[k]
    <2>1. /\ s \o t \in Seq(StreamRecords) /\ Len(s \o t) = Len(s) + Len(t)
          /\ \A i \in 1..(Len(s) + Len(t)) :
                (s \o t)[i] = IF i <= Len(s) THEN s[i] ELSE t[i - Len(s)]
      BY <1>6, <1>8, ConcatProperties
    <2>2. u \in Seq(StreamRecords) /\ Len(u) = l + n
      BY <1>6, <1>9, <1>10, <2>1
    <2>3. \A i \in 1..(l + n) : u[i] = IF i <= l THEN s[i] ELSE t[i - l]
      BY <1>6, <1>9, <1>10, <2>1
    <2>4. ASSUME NEW i \in 1..l PROVE u[i] = s[i]
      <3>1. i \in 1..(l + n) /\ i <= l
        OBVIOUS
      <3> QED BY <2>3, <3>1
    <2>5. ASSUME NEW k \in 1..n PROVE u[l + k] = t[k]
      <3>1. l + k \in 1..(l + n) /\ ~(l + k <= l) /\ (l + k) - l = k
        OBVIOUS
      <3> QED BY <2>3, <3>1
    <2> QED BY <2>2, <2>4, <2>5
  <1>12. Extends(u, s)
    BY <1>6, <1>11 DEF Extends
  <1>13. Chained(s, r) /\ <<meta[r].membership, meta[r].epoch>> = Before(s, r, l)
    BY <1>5, <1>6 DEF ChainInv
  <1>14. \A k \in 1..n : q[k] \in M
    BY <1>2, <1>4 DEF Sorted
  <1>15. \A k \in 1..n : u[l + k] = Transition(in, q[k]) /\ u[l + k].room = q[k][1]
    <2> SUFFICES ASSUME NEW k \in 1..n
                 PROVE  u[l + k] = Transition(in, q[k]) /\ u[l + k].room = q[k][1]
      OBVIOUS
    <2>1. u[l + k] = Transition(in, q[k])
      BY <1>9, <1>11
    <2>2. Transition(in, q[k]).room = q[k][1]
      BY DEF Transition, Lifecycle
    <2> QED BY <2>1, <2>2
  <1>16. CASE r \notin rooms
    <2>1. \A k \in 1..n : u[l + k].room # r
      BY <1>3, <1>14, <1>15, <1>16
    <2>2. ASSUME NEW i \in (l + 1)..(l + n) PROVE u[i].room # r
      <3>1. i - l \in 1..n /\ l + (i - l) = i
        OBVIOUS
      <3> QED BY <2>1, <3>1
    <2>3. Chained(u, r)
      <3>1. Len(s) = l /\ Len(u) = l + n
        BY <1>6, <1>11
      <3>2. \A i \in (Len(s) + 1)..Len(u) : u[i].room = r => Continues(u, r, i)
        BY <2>2, <3>1
      <3> QED BY <1>12, <1>13, <3>2, ChainedExtends
    <2>4. l + n \in Len(s)..Len(u)
      BY <1>6, <1>11
    <2>5. Before(u, r, l + n) = Before(s, r, l)
      BY <1>6, <1>12, <2>2, <2>4, BeforeUntouched
    <2> QED BY <1>11, <1>13, <1>16, <2>3, <2>5
  <1>17. CASE r \in rooms
    <2>1. PICK p : p = Path(in, r)
      OBVIOUS
    <2>2. PICK e : e = meta[r].epoch
      OBVIOUS
    <2>3. PICK z \in Nat : z = Len(p) - 1
      <3>1. p \in Seq(Memberships \cup {None}) /\ Len(p) >= 2
        BY <2>1, PathIs
      <3>2. Len(p) \in Nat /\ Len(p) - 1 \in Nat
        BY <3>1
      <3> QED BY <3>2
    <2>4. /\ p[1] = meta[r].membership /\ z >= 1 /\ p[z + 1] = Section(in, r) /\ e \in Nat
      BY <2>1, <2>2, <2>3, PathIs DEF Types, MetaRecords
    <2>5. ASSUME NEW m \in M, m[1] = r
          PROVE  m = <<r, m[2]>> /\ m[2] \in 1..z /\ m[2] \in Nat
      <3>1. m \in Moves(in, r)
        BY <1>3, <2>5
      <3> QED BY <2>1, <2>3, <3>1, MovesAre
    <2>6. ASSUME NEW y \in 1..z, p[y] # p[y + 1] PROVE <<r, y>> \in M
      <3>1. <<r, y>> \in {r} \X (1..(Len(p) - 1)) /\ <<r, y>>[2] = y
        BY <2>3
      <3>2. <<r, y>> \in Moves(in, r)
        BY <2>1, <2>6, <3>1 DEF Moves
      <3> QED BY <1>3, <1>17, <3>2
    <2>7. ASSUME NEW i \in 1..n, NEW j \in 1..n, q[i][1] = r, q[j][1] = r, q[i][2] < q[j][2]
          PROVE  i < j
      <3>1. q[i][2] \in Nat /\ q[j][2] \in Nat
        BY <1>14, <2>5, <2>7
      <3>2. i # j
        BY <2>7, <3>1
      <3>3. ~(j < i)
        <4>1. j < i => Precedes(q[j], q[i])
          BY <1>2, <1>4 DEF Sorted
        <4>2. RoomNumber[r] \in Nat
          BY RoomNumberIs
        <4>3. ~Precedes(q[j], q[i])
          BY <2>7, <3>1, <4>2 DEF Precedes
        <4> QED BY <4>1, <4>3
      <3> QED BY <3>2, <3>3
    <2>8. ASSUME NEW k \in 0..n
          PROVE  \E x \in 0..z :
                    /\ Before(u, r, l + k) = <<p[x + 1], e + Departures(p, x)>>
                    /\ \A j \in 1..k : q[j][1] = r => q[j][2] <= x
                    /\ x = 0 \/ \E j \in 1..k : q[j] = <<r, x>>
      <3> DEFINE J == {j \in 1..k : q[j][1] = r}
      <3>1. CASE J = {}
        <4>1. ASSUME NEW i \in (l + 1)..(l + k) PROVE u[i].room # r
          <5>1. i - l \in 1..k /\ i - l \in 1..n /\ l + (i - l) = i
            OBVIOUS
          <5> QED BY <1>15, <3>1, <5>1
        <4>2. l + k \in Len(s)..Len(u)
          BY <1>6, <1>11
        <4>3. Before(u, r, l + k) = Before(s, r, l)
          BY <1>6, <1>12, <4>1, <4>2, BeforeUntouched
        <4>4. Departures(p, 0) = 0
          BY NoDepartures
        <4>5. Before(u, r, l + k) = <<p[0 + 1], e + Departures(p, 0)>>
          BY <1>13, <2>2, <2>4, <4>3, <4>4
        <4>6. 0 \in 0..z /\ \A j \in 1..k : q[j][1] = r => q[j][2] <= 0
          BY <2>3, <3>1
        <4> QED BY <4>5, <4>6
      <3>2. CASE J # {}
        <4>1. J \in SUBSET Nat /\ (\A y \in J : y <= k) /\ k \in Nat
          OBVIOUS
        <4>2. PICK j \in J : \A y \in J : y <= j
          <5> HIDE DEF J
          <5> QED BY <3>2, <4>1, LargestNatural
        <4>3. j \in 1..n /\ j \in 1..k /\ q[j][1] = r /\ \A y \in 1..k : q[y][1] = r => y <= j
          BY <4>2
        <4>4. PICK x \in 1..z : x = q[j][2] /\ q[j] = <<r, x>>
          BY <1>14, <2>5, <4>3
        <4>5. ASSUME NEW i \in (l + j + 1)..(l + k) PROVE u[i].room # r
          <5>1. i - l \in 1..k /\ i - l \in 1..n /\ l + (i - l) = i /\ ~(i - l <= j)
            BY <4>3
          <5> QED BY <1>15, <4>3, <5>1
        <4>6. l + j \in 1..(l + k) /\ u[l + j].room = r /\ (l + k) \in Nat
          <5>1. u[l + j].room = q[j][1]
            BY <1>15, <4>3
          <5>2. l + j \in 1..(l + k) /\ (l + k) \in Nat
            BY <4>3
          <5> QED BY <4>3, <5>1, <5>2
        <4>7. Before(u, r, l + k) = <<u[l + j].current, u[l + j].next>>
          <5>1. LastOf(u, r, l + k, l + j)
            BY <4>5, <4>6 DEF LastOf
          <5> QED BY <5>1, BeforeLast
        <4>8. u[l + j] = Lifecycle(r, p[x], e + Departures(p, x - 1), p[x + 1], "sync")
          BY <1>15, <2>1, <2>2, <4>3, <4>4 DEF Transition
        <4>9. u[l + j].current = p[x + 1]
              /\ u[l + j].next = (e + Departures(p, x - 1)) + Departs(p[x], p[x + 1])
          BY <4>8 DEF Lifecycle
        <4>10. Departures(p, x) = Departures(p, x - 1) + Departs(p[x], p[x + 1])
          BY DeparturesNext
        <4>11. Departures(p, x - 1) \in Nat /\ Departs(p[x], p[x + 1]) \in Nat
          BY DeparturesType DEF Departs
        <4>12. Before(u, r, l + k) = <<p[x + 1], e + Departures(p, x)>>
          BY <2>4, <4>7, <4>9, <4>10, <4>11
        <4>13. ASSUME NEW i \in 1..k, q[i][1] = r PROVE q[i][2] <= x
          <5>1. i \in 1..n /\ i <= j
            BY <4>3, <4>13
          <5>2. q[i][2] \in Nat
            BY <1>14, <2>5, <4>13, <5>1
          <5>3. ~(x < q[i][2])
            BY <2>7, <4>3, <4>4, <4>13, <5>1
          <5> QED BY <5>2, <5>3
        <4>14. x \in 0..z
          BY <2>3
        <4> QED BY <4>3, <4>4, <4>12, <4>13, <4>14
      <3> QED BY <3>1, <3>2
    <2>9. ASSUME NEW i \in (l + 1)..(l + n), u[i].room = r PROVE Continues(u, r, i)
      <3>1. PICK k \in 1..n : i = l + k
        <4>1. i - l \in 1..n /\ i = l + (i - l)
          OBVIOUS
        <4> QED BY <4>1
      <3>2. q[k] \in M /\ q[k][1] = r
        BY <1>14, <1>15, <2>9, <3>1
      <3>3. PICK y \in 1..z : y = q[k][2]
        BY <2>5, <3>2
      <3>4. PICK x \in 0..z : /\ Before(u, r, l + (k - 1)) = <<p[x + 1], e + Departures(p, x)>>
                              /\ \A j \in 1..(k - 1) : q[j][1] = r => q[j][2] <= x
                              /\ x = 0 \/ \E j \in 1..(k - 1) : q[j] = <<r, x>>
        <4>1. k - 1 \in 0..n
          OBVIOUS
        <4> QED BY <2>8, <4>1
      <3>5. ASSUME NEW w \in (x + 1)..(y - 1) PROVE p[w] = p[w + 1]
        <4> SUFFICES ASSUME p[w] # p[w + 1] PROVE FALSE
          OBVIOUS
        <4>1. w \in 1..z
          BY <2>3, <3>3, <3>4
        <4>2. <<r, w>> \in M
          BY <2>6, <4>1
        <4>3. PICK j \in 1..n : q[j] = <<r, w>>
          BY <1>2, <1>4, <4>2 DEF Covers
        <4>4. q[j][1] = r /\ q[j][2] = w /\ w < y
          BY <3>3, <3>4, <4>3
        <4>5. j < k
          BY <2>7, <3>2, <3>3, <4>4
        <4>6. j \in 1..(k - 1)
          BY <4>5
        <4>7. w <= x
          BY <3>4, <4>4, <4>6
        <4> QED BY <3>4, <4>7
      <3>6. x < y
        <4>1. CASE x = 0
          BY <3>3, <4>1
        <4>2. CASE x # 0
          <5>1. PICK j \in 1..(k - 1) : q[j] = <<r, x>>
            BY <3>4, <4>2
          <5>2. j \in 1..n /\ j < k /\ q[j][1] = r /\ q[j][2] = x
            BY <5>1
          <5>3. Precedes(q[j], q[k])
            BY <1>2, <1>4, <5>2 DEF Sorted
          <5>4. RoomNumber[r] \in Nat
            BY RoomNumberIs
          <5> QED BY <3>2, <3>3, <5>2, <5>3, <5>4 DEF Precedes
        <4> QED BY <4>1, <4>2
      <3>7. p[x + 1] = p[y]
        <4>1. x \in Nat /\ y \in Nat
          BY <2>3
        <4>2. x + 1 \in Nat /\ y \in Nat /\ x + 1 <= y
          BY <3>6, <4>1
        <4> QED BY <3>5, <4>2, Constant
      <3>8. Departures(p, y - 1) = Departures(p, x)
        <4>1. x \in Nat /\ y - 1 \in Nat /\ x <= y - 1
          BY <3>3, <3>4, <3>6, SMTT(30)
        <4> QED BY <3>5, <4>1, DeparturesConstant
      <3>9. u[i] = Lifecycle(r, p[y], e + Departures(p, y - 1), p[y + 1], "sync")
        BY <1>15, <2>1, <2>2, <3>1, <3>2, <3>3 DEF Transition
      <3>10. u[i].previous = p[y] /\ u[i].epoch = e + Departures(p, y - 1)
        BY <3>9 DEF Lifecycle
      <3>11. i - 1 = l + (k - 1)
        BY <3>1
      <3> QED BY <3>4, <3>7, <3>8, <3>10, <3>11 DEF Continues
    <2>10. Chained(u, r)
      BY <1>6, <1>11, <1>12, <1>13, <2>9, ChainedExtends
    <2>11. PICK x \in 0..z : /\ Before(u, r, l + n) = <<p[x + 1], e + Departures(p, x)>>
                             /\ \A j \in 1..n : q[j][1] = r => q[j][2] <= x
      <3>1. n \in 0..n
        OBVIOUS
      <3> QED BY <2>8, <3>1
    <2>12. ASSUME NEW w \in (x + 1)..z PROVE p[w] = p[w + 1]
      <3> SUFFICES ASSUME p[w] # p[w + 1] PROVE FALSE
        OBVIOUS
      <3>1. w \in 1..z
        BY <2>3, <2>11
      <3>2. <<r, w>> \in M
        BY <2>6, <3>1
      <3>3. PICK j \in 1..n : q[j] = <<r, w>>
        BY <1>2, <1>4, <3>2 DEF Covers
      <3>4. q[j][1] = r /\ q[j][2] = w
        BY <3>3
      <3>5. w <= x
        BY <2>11, <3>4
      <3> QED BY <2>11, <3>5
    <2>13. p[x + 1] = p[z + 1]
      <3>1. x + 1 \in Nat /\ z + 1 \in Nat /\ x + 1 <= z + 1 /\ (z + 1) - 1 = z
        BY <2>3, <2>11
      <3> QED BY <2>12, <3>1, Constant, ZenonT(40)
    <2>14. Departures(p, z) = Departures(p, x)
      <3>1. x \in Nat /\ x <= z
        BY <2>3, <2>11
      <3> QED BY <2>12, <3>1, DeparturesConstant
    <2> QED BY <1>11, <1>17, <2>1, <2>2, <2>3, <2>4, <2>10, <2>11, <2>13, <2>14
  <1> QED BY <1>16, <1>17

LEMMA ChainInit ==
    ASSUME Init
    PROVE  ChainInv
  <1>1. stream = <<>> /\ Len(stream) = 0
    BY DEF Init
  <1>2. \A r : WithinOf(stream, r, Len(stream)) = {}
    BY <1>1 DEF WithinOf
  <1>3. \A r \in Rooms : meta[r].membership = None /\ meta[r].epoch = 0
    BY DEF Init
  <1> QED BY <1>2, <1>3 DEF ChainInv, Chained, Before

LEMMA ChainStep ==
    ASSUME MembershipInv, Types', ChainInv, [Next]_vars
    PROVE  ChainInv'
  <1> USE MembershipAssumption
  <1>0. Types /\ QueueOK /\ StageOK /\ FlowOK
    BY DEF MembershipInv
  <1>1. CASE UNCHANGED <<stream, meta>>
    BY <1>1 DEF ChainInv
  <1>2. PICK s : s = stream
    OBVIOUS
  <1>3. PICK u : u = stream'
    OBVIOUS
  <1>4. s \in Seq(StreamRecords) /\ u \in Seq(StreamRecords) /\ Len(s) \in Nat
    BY <1>0, <1>2, <1>3 DEF Types
  <1>5. ASSUME \A r \in Rooms : /\ Chained(u, r)
                               /\ <<meta'[r].membership, meta'[r].epoch>> = Before(u, r, Len(u))
        PROVE  ChainInv'
    BY <1>3, <1>5 DEF ChainInv
  <1>6. ASSUME NEW e, u = Append(s, e)
        PROVE  /\ Extends(u, s) /\ Len(u) = Len(s) + 1 /\ u[Len(s) + 1] = e
               /\ \A r : e.room # r /\ Chained(s, r) =>
                        Chained(u, r) /\ Before(u, r, Len(u)) = Before(s, r, Len(s))
    <2>1. e \in StreamRecords
      <3>1. u[Len(s) + 1] = e /\ Len(s) + 1 \in 1..Len(u)
        BY <1>4, <1>6
      <3> QED BY <1>4, <3>1
    <2>2. Len(u) = Len(s) + 1 /\ u[Len(s) + 1] = e /\ \A i \in 1..Len(s) : u[i] = s[i]
      BY <1>4, <1>6, <2>1
    <2>3. Extends(u, s)
      BY <1>4, <2>2 DEF Extends
    <2>4. ASSUME NEW r, e.room # r, Chained(s, r)
          PROVE  Chained(u, r) /\ Before(u, r, Len(u)) = Before(s, r, Len(s))
      <3>1. \A i \in (Len(s) + 1)..Len(u) : u[i].room # r
        BY <1>4, <2>2, <2>4
      <3>2. Chained(u, r)
        BY <2>3, <2>4, <3>1, ChainedExtends
      <3>3. Len(u) \in Len(s)..Len(u)
        BY <1>4, <2>2
      <3> QED BY <2>3, <3>1, <3>2, <3>3, BeforeUntouched
    <2> QED BY <2>2, <2>3, <2>4
  <1>7. \A r \in Rooms : /\ Chained(s, r)
                        /\ <<meta[r].membership, meta[r].epoch>> = Before(s, r, Len(s))
    BY <1>2 DEF ChainInv
  <1>8. ASSUME RunComplete PROVE ChainInv'
    <2>1. u = Append(s, Completion) /\ UNCHANGED meta
      BY <1>2, <1>3, <1>8 DEF RunComplete
    <2>2. \A r \in Rooms : Completion.room # r
      BY DEF Completion
    <2> QED BY <1>5, <1>6, <1>7, <2>1, <2>2
  <1>9. ASSUME CommitLocal PROVE ChainInv'
    <2>1. intent \in IntentRecords /\ Matches(intent)
      BY <1>0, <1>9 DEF CommitLocal, StageOK, Types
    <2>2. PICK room \in Rooms : room = intent.room
      BY <2>1 DEF IntentRecords
    <2>3. PICK change : change =
            Lifecycle(intent.room, intent.previous, intent.epoch, intent.target, "local")
      OBVIOUS
    <2>4. u = Append(s, change) /\ meta' = [meta EXCEPT ![room] = Outcome(@, change)]
      BY <1>2, <1>3, <1>9, <2>2, <2>3 DEF CommitLocal
    <2>5. /\ change.room = room /\ change.previous = intent.previous /\ change.epoch = intent.epoch
      BY <2>2, <2>3 DEF Lifecycle
    <2>6. Local(meta[room].membership) = intent.previous /\ meta[room].epoch = intent.epoch
          /\ intent.previous \in {"join", "leave"}
      BY <2>1, <2>2 DEF Matches, IntentRecords
    <2>7. /\ Extends(u, s) /\ Len(u) = Len(s) + 1 /\ u[Len(s) + 1] = change
          /\ \A r : change.room # r /\ Chained(s, r) =>
                Chained(u, r) /\ Before(u, r, Len(u)) = Before(s, r, Len(s))
      BY <1>6, <2>4
    <2>8. ASSUME NEW r \in Rooms, r # room
          PROVE  Chained(u, r) /\ <<meta'[r].membership, meta'[r].epoch>> = Before(u, r, Len(u))
      <3>1. meta'[r] = meta[r]
        BY <1>0, <2>4, <2>8 DEF Types
      <3> QED BY <1>7, <2>5, <2>7, <2>8, <3>1
    <2>9. Continues(u, room, Len(s) + 1)
      <3>1. Before(u, room, Len(s)) = Before(s, room, Len(s))
        BY <1>4, <2>7, BeforeKept
      <3>2. Before(u, room, Len(s)) = <<meta[room].membership, meta[room].epoch>>
        BY <1>7, <3>1
      <3>3. (Len(s) + 1) - 1 = Len(s)
        BY <1>4
      <3>4. Local(intent.previous) = intent.previous
        BY <2>6 DEF Local
      <3> QED BY <2>5, <2>6, <2>7, <3>2, <3>3, <3>4 DEF Continues
    <2>10. Chained(u, room)
      <3>1. \A i \in (Len(s) + 1)..Len(u) : Continues(u, room, i)
        BY <1>4, <2>7, <2>9
      <3> QED BY <1>7, <2>7, <3>1, ChainedExtends
    <2>11. <<meta'[room].membership, meta'[room].epoch>> = Before(u, room, Len(u))
      <3>1. Len(u) \in Nat /\ Len(s) + 1 \in 1..Len(u) /\ u[Len(s) + 1].room = room
            /\ \A i \in ((Len(s) + 1) + 1)..Len(u) : u[i].room # room
        BY <1>4, <2>5, <2>7
      <3>2. Before(u, room, Len(u)) = <<u[Len(s) + 1].current, u[Len(s) + 1].next>>
        <4>1. LastOf(u, room, Len(u), Len(s) + 1)
          BY <3>1 DEF LastOf
        <4> QED BY <4>1, BeforeLast
      <3>3. meta[room] \in MetaRecords /\ meta'[room] = Outcome(meta[room], change)
        BY <1>0, <2>4 DEF Types
      <3>4. meta'[room].membership = change.current /\ meta'[room].epoch = change.next
        BY <3>3 DEF Outcome, MetaRecords
      <3> QED BY <2>7, <3>2, <3>4
    <2> QED BY <1>5, <2>8, <2>10, <2>11
  <1>10. ASSUME RunPrepare PROVE ChainInv'
    <2>1. input # None /\ ~input.prepared
      BY <1>0, <1>10 DEF RunPrepare, FlowOK
    <2>2. PICK in : in = input
      OBVIOUS
    <2>3. ResponseOK(in)
      BY <1>0, <2>1, <2>2, ResponseOfInput
    <2>4. PICK rooms : rooms = Mentioned(in)
      OBVIOUS
    <2>5. rooms \in SUBSET Rooms
      BY <2>4, MentionedRooms
    <2>6. /\ meta' = [r \in Rooms |-> IF r \in rooms THEN Boundary(in, r) ELSE meta[r]]
          /\ u = stream \o Records(in, AllMoves(in, rooms))
      BY <1>3, <1>10, <2>2, <2>4 DEF RunPrepare, Prepare, Mentioned
    <2>7. ASSUME NEW r \in Rooms
          PROVE  /\ Chained(u, r)
                 /\ r \notin rooms => Before(u, r, Len(u)) = <<meta[r].membership, meta[r].epoch>>
                 /\ r \in rooms => Before(u, r, Len(u)) =
                     <<Section(in, r), meta[r].epoch + Departures(Path(in, r), Len(Path(in, r)) - 1)>>
      <3> HIDE MembershipAssumption
      <3> QED BY <1>0, <2>3, <2>5, <2>6, ResponseChained
    <2>8. ASSUME NEW r \in Rooms
          PROVE  <<meta'[r].membership, meta'[r].epoch>> = Before(u, r, Len(u))
      <3>1. CASE r \in rooms
        <4>1. meta'[r] = Boundary(in, r)
          BY <2>6, <3>1
        <4>2. /\ meta'[r].membership = Section(in, r)
              /\ meta'[r].epoch = meta[r].epoch + Departures(Path(in, r), Len(Path(in, r)) - 1)
          BY <4>1 DEF Boundary
        <4> QED BY <2>7, <3>1, <4>2
      <3>2. CASE r \notin rooms
        <4>1. meta'[r] = meta[r]
          BY <2>6, <3>2
        <4> QED BY <2>7, <3>2, <4>1
      <3> QED BY <3>1, <3>2
    <2> QED BY <1>5, <2>7, <2>8
  <1>11. CASE UNCHANGED vars
    BY <1>1, <1>11 DEF vars, durable
  <1>12. CASE Next /\ ~RunComplete /\ ~CommitLocal /\ ~RunPrepare
    <2>1. UNCHANGED meta
      BY <1>0, <1>12, UnobservedStep
    <2>2. UNCHANGED stream
      <3>1. ASSUME NEW c \in Callers,
                   (\E r \in Rooms, t \in {"join", "leave"} : Call(c, r, t))
                      \/ IdleReached(c) \/ LockReached(c) \/ CancelWait(c)
            PROVE  UNCHANGED stream
        BY <3>1 DEF Call, IdleReached, LockReached, CancelWait, durable
      <3>2. ASSUME \/ \E r \in Rooms, e \in {"join", "leave", "invite", "message"} : ServerEvent(r, e)
                   \/ ApplyIntent \/ HttpPerform \/ HttpError \/ Abandon \/ Acknowledge
                   \/ ServerAnswers \/ Restart
            PROVE  UNCHANGED stream
        BY <3>2 DEF ServerEvent, ApplyIntent, HttpPerform, HttpError, Abandon, Acknowledge,
                    ServerAnswers, Restart, durable
      <3>3. ASSUME Runner PROVE UNCHANGED stream
        BY <1>12, <3>3 DEF Runner, RunRetry, RunAwaitSource, RunPoll, RunWoken, RunEmpty, RunDiscard,
              RunAccept, RunLock, RunCapture, SendPoll, durable
      <3> QED BY <1>12, <3>1, <3>2, <3>3 DEF Next, Command
    <2> QED BY <1>1, <2>1, <2>2
  <1> QED BY <1>8, <1>9, <1>10, <1>11, <1>12

(* The membership transitions a consumer receives for a room, local and    *)
(* synchronised, continue each other without a gap or a repeated epoch and *)
(* end in the retained metadata, whatever commands, responses and failures *)
(* interleave.                                                             *)
THEOREM TransitionsChain == Spec => []EpochChain
  <1>1. MembershipInv => Types
    BY DEF MembershipInv
  <1>2. MembershipInv' => Types'
    BY DEF MembershipInv
  <1>3. MembershipInv /\ ChainInv => EpochChain
    BY <1>1, ChainMeansEpochChain
  <1>4. MembershipInv /\ MembershipInv' /\ ChainInv /\ [Next]_vars => ChainInv'
    BY <1>2, ChainStep
  <1> QED BY <1>3, <1>4, ChainInit, MembershipInvariant, PTL DEF Spec

=============================================================================
