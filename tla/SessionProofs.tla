---------------------------- MODULE SessionProofs ----------------------------
(***************************************************************************)
(* Proofs about three parts of a durable session.  GroupSession, for any   *)
(* people, any senders and any number of membership versions: a message is *)
(* encrypted for those it should be.  SessionLifecycle, for any number of  *)
(* closing tasks and any bounds: closing stops everything cleanly.         *)
(* SlidingSource, for any windows, resets and bounds: delivery is exact.   *)
(***************************************************************************)
EXTENDS GroupSession, SessionLifecycle, SlidingSource, Orders, FiniteSetTheorems, SequenceTheorems,
        TLAPS

-----------------------------------------------------------------------------
(* The life cycle                                                          *)

LifecycleTypeOK ==
    /\ captured \in {"none", "captured", "prepared"} /\ waitingBatches \in Nat
    /\ runner \in {"off", "loop", "batches", "work", "gate", "past_gate", "poll", "polled",
                   "cancelled"}
    /\ owner \in {"idle", "drain", "http"}
    /\ consumer \in {"idle", "blocked", "woken", "work"}
    /\ closer \in [Closers -> {"idle", "waiting", "returned"}]

(* Past the source gate nothing is captured: only the runner captures, and *)
(* it asks for more only when it is through with what it has.              *)
NothingCaptured == runner \in {"gate", "past_gate", "poll", "polled"} => captured = "none"

(* Only the consumer acknowledges: what it was shown is still waiting. *)
ConsumerHolds == consumer = "work" => waitingBatches > 0

(* The gate is open only while no command owns the source. *)
GateFollowsOwner == sourceReady => owner = "idle"

(* close() leaves no runner that could go on. *)
ClosedStops == closed => runner \in {"off", "cancelled"}

LifecycleInv ==
    /\ LifecycleTypeOK /\ NothingCaptured /\ ConsumerHolds /\ GateFollowsOwner /\ ClosedStops
    /\ StopsClean

LEMMA LifecycleInitial == LifecycleInit => LifecycleInv
  <1> SUFFICES ASSUME LifecycleInit PROVE LifecycleInv
    OBVIOUS
  <1> USE DEF LifecycleInit
  <1>1. LifecycleTypeOK
    BY DEF LifecycleTypeOK
  <1>2. NothingCaptured /\ ConsumerHolds /\ GateFollowsOwner /\ ClosedStops /\ StopsClean
    BY DEF NothingCaptured, ConsumerHolds, GateFollowsOwner, ClosedStops, StopsClean
  <1> QED BY <1>1, <1>2 DEF LifecycleInv

LEMMA LifecycleStep == LifecycleInv /\ [LifecycleNext]_lifecycleVars => LifecycleInv'
  <1> SUFFICES ASSUME LifecycleInv, [LifecycleNext]_lifecycleVars PROVE LifecycleInv'
    OBVIOUS
  <1> USE DEF LifecycleInv, LifecycleTypeOK, NothingCaptured, ConsumerHolds, GateFollowsOwner,
              ClosedStops, StopsClean, SetChanged, Quiet, Woken, EndRun, Active, Trouble, work,
              gate, flags, result
  <1>1. CASE Run
    BY <1>1 DEF Run
  <1>2. CASE RunLoop
    <2>1. left' \in {left, [captured |-> "none", batches |-> 0, owned |-> FALSE]}
      <3>1. left' = left \/ (captured = "none" /\ waitingBatches = 0 /\ owner = "idle")
        BY <1>2 DEF RunLoop, AtSource
      <3>2. ~closed
        BY <1>2 DEF RunLoop
      <3> QED BY <1>2, <3>1, <3>2, Zenon DEF RunLoop, AtSource
    <2>2. left' # None => left'.captured = "none" /\ left'.batches = 0 /\ ~left'.owned
      BY <2>1
    <2>3. LifecycleTypeOK' /\ NothingCaptured' /\ ConsumerHolds' /\ GateFollowsOwner' /\ ClosedStops'
      BY <1>2 DEF RunLoop, AtSource
    <2>4. ~closed'
      BY <1>2 DEF RunLoop
    <2> QED BY <2>2, <2>3, <2>4
  <1>3. CASE PastGate
    <2>1. left' \in {left, [captured |-> "none", batches |-> 0, owned |-> FALSE]}
      <3>1. left' = left \/ (captured = "none" /\ waitingBatches = 0)
        BY <1>3 DEF PastGate, AtSource
      <3>2. ~closed
        BY <1>3 DEF PastGate
      <3> QED BY <1>3, <3>1, <3>2, Zenon DEF PastGate, AtSource
    <2>2. left' # None => left'.captured = "none" /\ left'.batches = 0 /\ ~left'.owned
      BY <2>1
    <2>3. LifecycleTypeOK' /\ NothingCaptured' /\ ConsumerHolds' /\ GateFollowsOwner' /\ ClosedStops'
      BY <1>3 DEF PastGate, AtSource
    <2>4. ~closed'
      BY <1>3 DEF PastGate
    <2> QED BY <2>2, <2>3, <2>4
  <1>4. CASE Advance
    BY <1>4 DEF Advance
  <1>5. CASE AdvanceFails \/ AdvanceRaises
    <2>1. EndRun("raised") /\ left' = left /\ closed' = closed /\ ~closed
      BY <1>5 DEF AdvanceFails, AdvanceRaises
    <2>2. UNCHANGED <<captured, waitingBatches, sourceReady, owner, closer>>
      BY <1>5 DEF AdvanceFails, AdvanceRaises
    <2> QED BY <2>1, <2>2
  <1>6. CASE PollEnds \/ Accept \/ PollFails
    BY <1>6 DEF PollEnds, Accept, PollFails
  <1>7. CASE Cancelled
    BY <1>7 DEF Cancelled
  <1>8. CASE WaitForWork \/ AckBatch \/ WaitForRoomReady
    BY <1>8 DEF WaitForWork, AckBatch, WaitForRoomReady
  <1>9. CASE TakeSource \/ Drained
    BY <1>9 DEF TakeSource, Drained, AfterCancel
  <1>10. CASE LeaveSource \/ CommandFails
    BY <1>10 DEF LeaveSource, CommandFails
  <1>11. CASE Quiesce
    BY <1>11 DEF Quiesce, AfterCancel
  <1>12. ASSUME NEW c \in Closers, Close(c) PROVE LifecycleInv'
    BY <1>12 DEF Close, FinishClose
  <1>13. ASSUME NEW c \in Closers, CloseEnds(c) PROVE LifecycleInv'
    BY <1>13 DEF CloseEnds, FinishClose
  <1>14. CASE UNCHANGED lifecycleVars
    BY <1>14 DEF lifecycleVars
  <1> QED
    BY <1>1, <1>2, <1>3, <1>4, <1>5, <1>6, <1>7, <1>8, <1>9, <1>10, <1>11, <1>12, <1>13, <1>14
    DEF LifecycleNext, RunnerSteps

(* A session that quiesces stops with nothing unfinished, and a session    *)
(* that close() has closed has no runner (run, quiesce, close).            *)
THEOREM SessionStopsClean == LifecycleSpec => []StopsClean
  <1>1. LifecycleInv => StopsClean
    BY DEF LifecycleInv
  <1> QED BY <1>1, LifecycleInitial, LifecycleStep, PTL DEF LifecycleSpec

-----------------------------------------------------------------------------
(* Room encryption: the inductive invariant *)

Working == {"chunks", "chunk", "acked"}
Lookups == {"lookup", "listed"}
SenderRecords ==
    [pc : {"idle", "decide", "waiting", "share", "claim"} \cup Lookups \cup Working,
     why : {"none", "members", "send", "share"}, previous : Nat, version : Nat, list : Nat,
     users : SUBSET People, id : SessionIds \cup {0}, todo : SUBSET People]
CacheRecords == [state : {"absent", "looking", "known"}, list : Nat, version : Nat]
GroupRecords == [id : SessionIds, shared : BOOLEAN, with : SUBSET People]

GroupTypes ==
    /\ roster \in Seq(SUBSET People) /\ seen \in 1..Now
    /\ cache \in CacheRecords /\ (cache.state = "known" => cache.version \in seen..Now)
    /\ cache.state = "known" <=> cache.list # 0
    /\ group = NoGroup \/ group \in GroupRecords
    /\ keyed \in [SessionIds -> SUBSET People]
    /\ retained = None \/ retained \in RetainedChunks
    /\ holder \in Senders \cup {None} /\ sender \in [Senders -> SenderRecords]
    /\ mail.id \in SessionIds \cup {0} /\ mail.seen \in 1..Now

(* What a sender remembers goes with where it is. *)
IsHolder(r) == r.pc \in Lookups \cup Working
IsSharer(r) == r.why = "share" \/ r.pc \in {"share", "claim"} \cup Working
SenderOK(r) ==
    /\ r.id # 0 <=> r.pc \in Working
    /\ r.list # 0 => r.pc \in {"claim"} \cup Working
    /\ r.why # "none" <=> r.pc \in Lookups

(* The lock and the sharing event have exactly one owner. *)
Owners ==
    /\ \A s \in Senders : SenderOK(sender[s])
    /\ \A s \in Senders : IsHolder(sender[s]) <=> holder = s
    /\ \A s \in Senders : IsSharer(sender[s]) => sharing
    /\ \A s, t \in Senders : IsSharer(sender[s]) /\ IsSharer(sender[t]) => s = t
    /\ sharing => \E s \in Senders : IsSharer(sender[s])

(* The list is marked as looked up only while the lock is held for that;   *)
(* what was listed meanwhile is no older than sync.                        *)
LookupOK ==
    cache.state = "looking" =>
        /\ holder \in Senders /\ sender[holder].pc \in Lookups
        /\ sender[holder].previous # 0 => sender[holder].previous \in seen..Now
        /\ sender[holder].pc = "listed" => sender[holder].version \in seen..Now

(* A working sender's chunk is the retained one. *)
ChunkOK ==
    \A s \in Senders :
        /\ sender[s].pc = "chunks" => retained = None
        /\ sender[s].pc \in {"chunk", "acked"} => retained # None /\ retained.id = sender[s].id
        /\ sender[s].pc = "acked" => retained.users \subseteq keyed[retained.id]

(* A recipient list is an object: who holds the list in the cache has its  *)
(* users.                                                                  *)
ListMeans ==
    \A s \in Senders :
        /\ sender[s].pc = "claim" /\ ~membersSynced => sender[s].list # 0
        /\ sender[s].pc = "claim" /\ ~membersSynced /\ cache.state = "known"
                /\ cache.list = sender[s].list =>
            sender[s].users = roster[cache.version]

(* The membership an existing session belongs to: the synced one, or the   *)
(* list in the cache, also while that list is looked up anew.  A session   *)
(* whose list was forgotten is dropped by the next lookup.                 *)
Usable ==
    \/ membersSynced \/ cache.state = "known"
    \/ cache.state = "looking" /\ sender[holder].previous # 0
Current ==
    IF membersSynced THEN seen
    ELSE IF cache.state = "known" THEN cache.version ELSE sender[holder].previous

(* Who has the key of a session, or is about to be sent it. *)
Reached(i) ==
    {u \in People :
        \/ u \in keyed[i]
        \/ retained # None /\ retained.id = i /\ u \in retained.users
        \/ \E s \in Senders : sender[s].id = i /\ u \in sender[s].todo}

(* The key of the room's session goes to the members alone, and no blocked *)
(* one; once it is shared, all the others have it.                         *)
SessionOK ==
    group # NoGroup =>
        /\ group.with \subseteq keyed[group.id]
        /\ Usable => /\ Reached(group.id) \subseteq roster[Current]
                     /\ Reached(group.id) \cap (blocked \ raced) = {}
        /\ Usable /\ group.shared => roster[Current] \ blocked \subseteq keyed[group.id]
        /\ ~group.shared => group.id # mail.id
        /\ \A s \in Senders : sender[s].pc \in Working =>
            /\ group.id = sender[s].id /\ ~group.shared
            /\ membersSynced \/ cache.state = "known"
            /\ sender[s].users = roster[Current]
            /\ \A u \in sender[s].users \ blocked :
                \/ u \in group.with \/ u \in sender[s].todo
                \/ sender[s].pc # "chunks" /\ u \in retained.users
        /\ retained # None => retained.id = group.id /\ ~group.shared

(* The session of the last message gets no new recipient. *)
MailKept ==
    /\ retained # None => retained.id # mail.id
    /\ \A s \in Senders : sender[s].pc \in Working => sender[s].id # mail.id
    /\ DepartedExcluded /\ MembersReached /\ BlockedExcludedUnraced

GroupInv == GroupTypes /\ Owners /\ LookupOK /\ ChunkOK /\ ListMeans /\ SessionOK /\ MailKept

-----------------------------------------------------------------------------
(* Steps of one sender *)

LEMMA IdleShape ==
    /\ Idle \in SenderRecords /\ Idle.pc = "idle" /\ Idle.why = "none" /\ Idle.id = 0
    /\ Idle.list = 0
  BY DEF Idle, SenderRecords, Lookups, Working

LEMMA NoGroupShape == NoGroup.id = 0 /\ NoGroup.with = {} /\ ~NoGroup.shared
  BY DEF NoGroup

(* A sender outside the lock and the sharing. *)
AtRest(r) == r.pc \in {"idle", "decide", "waiting"} /\ SenderOK(r)

LEMMA AtRestShape ==
    ASSUME NEW r, AtRest(r)
    PROVE  ~IsHolder(r) /\ ~IsSharer(r) /\ r.id = 0 /\ r.list = 0 /\ r.pc \notin Working /\ r.pc # "claim"
  BY DEF AtRest, SenderOK, IsHolder, IsSharer, Lookups, Working

LEMMA DecideShape ==
    [Idle EXCEPT !.pc = "decide"] \in SenderRecords /\ AtRest([Idle EXCEPT !.pc = "decide"])
    /\ AtRest(Idle) /\ [Idle EXCEPT !.pc = "decide"].pc = "decide"
  BY IdleShape DEF AtRest, SenderOK, SenderRecords, Lookups, Working

(* The others stay as they are, but for those who waited. *)
OthersKept(s) ==
    /\ sender' \in [Senders -> SenderRecords]
    /\ \A t \in Senders \ {s} :
        sender'[t] = sender[t] \/ (AtRest(sender[t]) /\ AtRest(sender'[t]))

LEMMA OneSet ==
    ASSUME sender \in [Senders -> SenderRecords], NEW s \in Senders, NEW r \in SenderRecords,
           sender' = [sender EXCEPT ![s] = r]
    PROVE  OthersKept(s) /\ sender'[s] = r
  BY DEF OthersKept

LEMMA ReleaseShape ==
    ASSUME sender \in [Senders -> SenderRecords], Owners, NEW s \in Senders, NEW r \in SenderRecords,
           Release(s, r)
    PROVE  OthersKept(s) /\ sender'[s] = r /\ ~sharing'
  <1> DEFINE d == [Idle EXCEPT !.pc = "decide"]
  <1>1. d \in SenderRecords /\ AtRest(d)
    BY DecideShape
  <1> HIDE DEF d
  <1>2. ~sharing' /\ sender' = [t \in Senders |->
                IF t = s THEN r ELSE IF sender[t].pc = "waiting" THEN d ELSE sender[t]]
    BY DEF Release, d
  <1>3. sender' \in [Senders -> SenderRecords] /\ sender'[s] = r
    BY <1>1, <1>2
  <1>4. ASSUME NEW t \in Senders \ {s}
        PROVE  sender'[t] = sender[t] \/ (AtRest(sender[t]) /\ AtRest(sender'[t]))
    <2>1. CASE sender[t].pc = "waiting"
      <3>1. sender'[t] = d
        BY <1>2, <2>1
      <3>2. AtRest(sender[t])
        BY <2>1 DEF Owners, AtRest
      <3> QED BY <1>1, <3>1, <3>2
    <2>2. CASE sender[t].pc # "waiting"
      BY <1>2, <2>2
    <2> QED BY <2>1, <2>2
  <1> QED BY <1>2, <1>3, <1>4 DEF OthersKept

(* The owners after a step of one sender. *)
LEMMA OwnersFrame ==
    ASSUME Owners, NEW s \in Senders, OthersKept(s), SenderOK(sender'[s]), None \notin Senders,
           IsHolder(sender'[s]) <=> holder' = s,
           holder' = holder \/ (holder = s /\ holder' = None) \/ (holder = None /\ holder' = s),
           IsSharer(sender'[s]) => sharing',
           IsSharer(sender'[s]) => IsSharer(sender[s]) \/ ~sharing,
           sharing' => IsSharer(sender'[s]) \/ (sharing /\ ~IsSharer(sender[s])),
           sharing /\ ~IsSharer(sender[s]) => sharing'
    PROVE  Owners'
  <1>1. ASSUME NEW t \in Senders, t # s
        PROVE  /\ SenderOK(sender'[t]) /\ (IsHolder(sender'[t]) <=> IsHolder(sender[t]))
               /\ (IsSharer(sender'[t]) <=> IsSharer(sender[t]))
    <2>1. CASE sender'[t] = sender[t]
      BY <2>1 DEF Owners
    <2>2. CASE AtRest(sender[t]) /\ AtRest(sender'[t])
      <3>1. SenderOK(sender'[t])
        BY <2>2 DEF AtRest
      <3> QED BY <2>2, <3>1, AtRestShape
    <2> QED BY <1>1, <2>1, <2>2 DEF OthersKept
  <1>2. \A t \in Senders : SenderOK(sender'[t])
    BY <1>1
  <1>3. ASSUME NEW t \in Senders PROVE IsHolder(sender'[t]) <=> holder' = t
    BY <1>1 DEF Owners
  <1>4. ASSUME NEW t \in Senders, IsSharer(sender'[t]) PROVE sharing'
    <2>1. CASE t = s
      BY <1>4, <2>1
    <2>2. CASE t # s
      <3>1. IsSharer(sender[t]) /\ sharing
        BY <1>1, <1>4, <2>2 DEF Owners
      <3>2. ~IsSharer(sender[s])
        BY <2>2, <3>1 DEF Owners
      <3> QED BY <3>1, <3>2
    <2> QED BY <2>1, <2>2
  <1>5. ASSUME NEW t \in Senders, NEW w \in Senders, IsSharer(sender'[t]), IsSharer(sender'[w])
        PROVE  t = w
    <2>1. CASE t # s /\ w # s
      BY <1>1, <1>5, <2>1 DEF Owners
    <2>2. CASE t = s /\ w # s
      <3>1. IsSharer(sender[w]) /\ sharing
        BY <1>1, <1>5, <2>2 DEF Owners
      <3> QED BY <1>5, <2>2, <3>1 DEF Owners
    <2>3. CASE t # s /\ w = s
      <3>1. IsSharer(sender[t]) /\ sharing
        BY <1>1, <1>5, <2>3 DEF Owners
      <3> QED BY <1>5, <2>3, <3>1 DEF Owners
    <2> QED BY <2>1, <2>2, <2>3
  <1>6. ASSUME sharing' PROVE \E t \in Senders : IsSharer(sender'[t])
    <2>1. CASE IsSharer(sender'[s])
      BY <2>1
    <2>2. CASE sharing /\ ~IsSharer(sender[s])
      <3>1. PICK t \in Senders : IsSharer(sender[t])
        BY <2>2 DEF Owners
      <3> QED BY <1>1, <2>2, <3>1
    <2> QED BY <1>6, <2>1, <2>2
  <1> QED BY <1>2, <1>3, <1>4, <1>5, <1>6 DEF Owners, SenderOK, IsHolder, IsSharer

-----------------------------------------------------------------------------
(* Frames *)

(* A step of a sender that does not hold the lock leaves the lookup alone. *)
LEMMA LookupFrame ==
    ASSUME LookupOK, Owners, NEW s \in Senders, OthersKept(s), cache' = cache, holder' = holder,
           holder # s, UNCHANGED <<roster, seen, membersSynced>>
    PROVE  LookupOK' /\ (Usable' <=> Usable) /\ (Usable => Current' = Current)
  <1>1. CASE cache.state = "looking"
    <2>1. holder \in Senders \ {s} /\ IsHolder(sender[holder])
      BY <1>1 DEF LookupOK, Owners
    <2>2. ~AtRest(sender[holder])
      BY <2>1, AtRestShape
    <2>3. sender'[holder] = sender[holder]
      BY <2>1, <2>2 DEF OthersKept
    <2>4. sender'[holder'] = sender[holder]
      BY <2>3
    <2>5. LookupOK'
      BY <2>1, <2>4, <1>1 DEF LookupOK, Now
    <2> QED BY <2>4, <2>5 DEF Usable, Current
  <1>2. CASE cache.state # "looking"
    BY <1>2 DEF LookupOK, Usable, Current
  <1> QED BY <1>1, <1>2

(* The other senders keep what they work on. *)
LEMMA OtherFrame ==
    ASSUME Owners, Owners', NEW s \in Senders, OthersKept(s), NEW t \in Senders \ {s}
    PROVE  \/ sender'[t] = sender[t]
           \/ /\ sender'[t].id = 0 /\ sender[t].id = 0
              /\ sender'[t].pc \notin Working /\ sender[t].pc \notin Working
              /\ sender'[t].pc # "claim" /\ sender[t].pc # "claim"
  BY AtRestShape DEF OthersKept

(* A sender that is not sharing a key afterwards: nothing is sent, the     *)
(* room's session is kept or dropped, and if it is kept, it still belongs  *)
(* to the same members.                                                    *)
LeavesSession(s) ==
    /\ OthersKept(s) /\ Owners' /\ LookupOK'
    /\ UNCHANGED <<roster, seen, membersSynced, keyed, blocked, raced, retained>>
    /\ group' = group \/ group' = NoGroup
    /\ mail' = mail \/ (group.shared /\ mail'.id = group.id /\ mail'.seen = seen)
    /\ sender'[s].pc \notin Working /\ holder' \in Senders \cup {None}
    /\ cache' \in CacheRecords
    /\ cache'.state = "known" => cache'.version \in seen..Now
    /\ cache'.state = "known" <=> cache'.list # 0
    /\ sender'[s].pc = "claim" /\ ~membersSynced =>
        /\ sender'[s].list # 0
        /\ cache'.state = "known" /\ cache'.list = sender'[s].list =>
            sender'[s].users = roster[cache'.version]
    /\ \A t \in Senders \ {s} :
        /\ sender[t].pc \in Working => cache' = cache
        /\ sender[t].pc = "claim" =>
            \/ cache' = cache \/ cache'.state # "known" \/ cache'.list # sender[t].list
    /\ group' = group /\ group # NoGroup /\ Usable' => Usable /\ roster[Current'] = roster[Current]

LEMMA LeavesSessionOK ==
    ASSUME GroupInv, NEW s \in Senders, LeavesSession(s)
    PROVE  GroupTypes' /\ ChunkOK' /\ ListMeans' /\ SessionOK'
  <1> USE DEF LeavesSession
  <1>1. \A t \in Senders : sender'[t].id # 0 <=> sender'[t].pc \in Working
    BY DEF Owners, SenderOK
  <1>2. \A t \in Senders : sender'[t].pc \in Working => t # s /\ sender'[t] = sender[t]
    BY OtherFrame DEF GroupInv
  <1>3. \A t \in Senders \ {s} : sender'[t].pc = "claim" => sender'[t] = sender[t]
    BY OtherFrame DEF GroupInv
  <1>4. GroupTypes'
    <2>1. mail'.id \in SessionIds \cup {0} /\ mail'.seen \in 1..Now
      BY NoGroupShape DEF GroupInv, GroupTypes, GroupRecords
    <2>2. group' = NoGroup \/ group' \in GroupRecords
      BY DEF GroupInv, GroupTypes
    <2>3. cache' \in CacheRecords /\ (cache'.state = "known" => cache'.version \in seen'..Now')
            /\ (cache'.state = "known" <=> cache'.list # 0)
      BY DEF Now
    <2>4. sender' \in [Senders -> SenderRecords]
      BY DEF OthersKept
    <2>5. /\ roster' \in Seq(SUBSET People) /\ seen' \in 1..Now'
          /\ keyed' \in [SessionIds -> SUBSET People]
          /\ retained' = None \/ retained' \in RetainedChunks
      BY DEF GroupInv, GroupTypes, Now
    <2>6. mail'.id \in SessionIds \cup {0} /\ mail'.seen \in 1..Now'
      BY <2>1 DEF Now
    <2> QED BY <2>2, <2>3, <2>4, <2>5, <2>6 DEF GroupTypes
  <1>5. ChunkOK'
    BY <1>2 DEF GroupInv, ChunkOK, Working
  <1>6. ListMeans'
    <2> SUFFICES ASSUME NEW t \in Senders, sender'[t].pc = "claim", ~membersSynced
                 PROVE  /\ sender'[t].list # 0
                        /\ cache'.state = "known" /\ cache'.list = sender'[t].list =>
                            sender'[t].users = roster'[cache'.version]
      BY DEF ListMeans
    <2>1. CASE t = s
      BY <2>1
    <2>2. CASE t # s
      BY <2>2, <1>3 DEF GroupInv, ListMeans
    <2> QED BY <2>1, <2>2
  <1>7. SessionOK'
    <2> SUFFICES ASSUME group' # NoGroup PROVE SessionOK'
      BY DEF SessionOK
    <2>1. group' = group /\ group # NoGroup /\ SessionOK
      BY DEF GroupInv
    <2> DEFINE g == group.id
    <2>2. g # 0 /\ g \in SessionIds
      BY <2>1 DEF GroupInv, GroupTypes, GroupRecords, SessionIds
    <2>3. Reached(g)' \subseteq Reached(g)
      <3> SUFFICES ASSUME NEW u \in People, u \in Reached(g)' PROVE u \in Reached(g)
        BY DEF Reached
      <3>1. ASSUME NEW t \in Senders, sender'[t].id = g, u \in sender'[t].todo
            PROVE  sender[t].id = g /\ u \in sender[t].todo
        BY <1>1, <1>2, <2>1, <2>2, <3>1
      <3> QED BY <3>1, <2>1 DEF Reached
    <2>4. Usable' => Usable /\ roster'[Current'] = roster[Current]
      BY <2>1
    <2>5. group'.with \subseteq keyed'[group'.id]
      BY <2>1 DEF SessionOK
    <2>6. Usable' => /\ Reached(g)' \subseteq roster'[Current']
                     /\ Reached(g)' \cap (blocked' \ raced') = {}
      BY <2>1, <2>3, <2>4 DEF SessionOK
    <2>7. Usable' /\ group'.shared => roster'[Current'] \ blocked' \subseteq keyed'[group'.id]
      BY <2>1, <2>4 DEF SessionOK
    <2>8. ~group'.shared => group'.id # mail'.id
      BY <2>1 DEF SessionOK
    <2>9. ASSUME NEW t \in Senders, sender'[t].pc \in Working
          PROVE  /\ group'.id = sender'[t].id /\ ~group'.shared
                 /\ membersSynced' \/ cache'.state = "known"
                 /\ sender'[t].users = roster'[Current']
                 /\ \A u \in sender'[t].users \ blocked' :
                    \/ u \in group'.with \/ u \in sender'[t].todo
                    \/ sender'[t].pc # "chunks" /\ u \in retained'.users
      <3>1. t # s /\ sender'[t] = sender[t] /\ cache' = cache /\ sender[t].pc \in Working
        BY <1>2, <2>9
      <3>2. membersSynced' \/ cache'.state = "known"
        BY <3>1, <2>1 DEF SessionOK
      <3>3. Usable' /\ roster'[Current'] = roster[Current]
        BY <3>2, <2>4 DEF Usable
      <3> QED BY <3>1, <3>2, <3>3, <2>1 DEF SessionOK
    <2>10. retained' # None => retained'.id = group'.id /\ ~group'.shared
      BY <2>1 DEF SessionOK
    <2> QED BY <2>1, <2>5, <2>6, <2>7, <2>8, <2>9, <2>10 DEF SessionOK
  <1> QED BY <1>4, <1>5, <1>6, <1>7

(* The last message, when nothing is sent. *)
LEMMA MailFrame ==
    ASSUME GroupInv, mail' = mail, UNCHANGED <<roster, raced>>,
           mail.id # 0 => keyed'[mail.id] = keyed[mail.id],
           retained' # None => retained'.id # mail.id,
           \A t \in Senders : sender'[t].pc \in Working => sender'[t].id # mail.id
    PROVE  MailKept'
  BY DEF GroupInv, MailKept, DepartedExcluded, MembersReached, BlockedExcludedUnraced, Now

LEMMA LeavesMail ==
    ASSUME GroupInv, NEW s \in Senders, LeavesSession(s), mail' = mail
    PROVE  GroupInv'
  <1>1. \A t \in Senders : sender'[t].pc \in Working => sender'[t] = sender[t]
    BY OtherFrame DEF GroupInv, LeavesSession
  <1>2. MailKept'
    BY <1>1, MailFrame DEF LeavesSession, GroupInv, MailKept
  <1> QED BY <1>2, LeavesSessionOK DEF GroupInv, LeavesSession

-----------------------------------------------------------------------------
(* Lookups, and the steps of a sender outside the lock *)

LEMMA StartLookupKept ==
    ASSUME GroupInv, None \notin Senders, NEW s \in Senders, NEW why \in {"members", "send", "share"},
           sender[s].pc \in {"idle", "share"}, why = "share" <=> sender[s].pc = "share",
           StartLookup(s, why),
           UNCHANGED <<roster, seen, membersSynced, group, keyed, sharing, retained, blocked, raced,
                       mail>>
    PROVE  GroupInv'
  <1> DEFINE p == IF cache.state = "known" THEN cache.version ELSE 0
             r == [sender[s] EXCEPT !.pc = "lookup", !.why = why, !.version = 0, !.previous = p]
  <1>1. sender[s] \in SenderRecords /\ cache \in CacheRecords /\ SenderOK(sender[s])
    BY DEF GroupInv, GroupTypes, Owners
  <1>2. p \in Nat
    BY <1>1 DEF CacheRecords
  <1>3. r \in SenderRecords /\ r.pc = "lookup" /\ r.why = why /\ r.previous = p /\ r.id = sender[s].id
        /\ r.list = sender[s].list
    <2> HIDE DEF p
    <2> QED BY <1>1, <1>2 DEF SenderRecords, Lookups
  <1>4. sender' = [sender EXCEPT ![s] = r] /\ cache' = Looking /\ holder = None /\ holder' = s
    BY DEF StartLookup, Lock
  <1> HIDE DEF r
  <1>5. OthersKept(s) /\ sender'[s] = r
    BY <1>3, <1>4, OneSet DEF GroupInv, GroupTypes
  <1>6. r.id = 0 /\ r.list = 0
    BY <1>1, <1>3 DEF SenderOK, Working
  <1>7. SenderOK(r) /\ IsHolder(r)
    BY <1>3, <1>6 DEF SenderOK, Lookups, Working, IsHolder
  <1>8. IsSharer(r) <=> IsSharer(sender[s])
    BY <1>1, <1>3 DEF IsSharer, SenderOK, Lookups, Working
  <1>9. IsSharer(sender[s]) => sharing
    BY DEF GroupInv, Owners
  <1>10. Owners'
    BY <1>4, <1>5, <1>7, <1>8, <1>9, OwnersFrame DEF GroupInv
  <1>11. Looking \in CacheRecords /\ Looking.state = "looking" /\ Looking.list = 0
    BY DEF Looking, CacheRecords
  <1>12. p # 0 => cache.state = "known" /\ p = cache.version /\ p \in seen..Now
    BY DEF GroupInv, GroupTypes
  <1>13. LookupOK'
    BY <1>3, <1>4, <1>5, <1>11, <1>12 DEF LookupOK, Now, Lookups
  <1>14. \A t \in Senders : sender[t].pc \notin Working
    BY <1>4 DEF GroupInv, Owners, IsHolder
  <1>15. Usable' => Usable /\ roster[Current'] = roster[Current]
    BY <1>3, <1>4, <1>5, <1>11, <1>12 DEF Usable, Current
  <1>16. LeavesSession(s)
    BY <1>3, <1>4, <1>5, <1>10, <1>11, <1>13, <1>14, <1>15 DEF LeavesSession, Working
  <1> QED BY <1>16, LeavesMail

LEMMA JoinedMembersCallKept ==
    ASSUME GroupInv, None \notin Senders, NEW s \in Senders, JoinedMembersCall(s)
    PROVE  GroupInv'
  BY StartLookupKept DEF JoinedMembersCall

(* A step of a sender that leaves everything but itself and the sharing. *)
LEMMA OutsideKept ==
    ASSUME GroupInv, None \notin Senders, NEW s \in Senders, NEW r \in SenderRecords,
           sender' = [sender EXCEPT ![s] = r], SenderOK(r), ~IsHolder(r), ~IsHolder(sender[s]),
           IsSharer(r) => sharing' /\ (IsSharer(sender[s]) \/ ~sharing),
           sharing' => IsSharer(r) \/ (sharing /\ ~IsSharer(sender[s])),
           sharing /\ ~IsSharer(sender[s]) => sharing',
           r.pc = "claim" /\ ~membersSynced =>
                /\ r.list # 0
                /\ cache.state = "known" /\ cache.list = r.list => r.users = roster[cache.version],
           mail' = mail \/ (group.shared /\ mail'.id = group.id /\ mail'.seen = seen),
           UNCHANGED <<roster, seen, membersSynced, cache, group, keyed, retained, holder, blocked,
                       raced>>
    PROVE  LeavesSession(s)
  <1>1. OthersKept(s) /\ sender'[s] = r
    BY OneSet DEF GroupInv, GroupTypes
  <1>2. holder # s
    BY DEF GroupInv, Owners
  <1>3. Owners'
    BY <1>1, <1>2, OwnersFrame DEF GroupInv
  <1>4. LookupOK' /\ (Usable' <=> Usable) /\ (Usable => Current' = Current)
    BY <1>1, <1>2, LookupFrame DEF GroupInv
  <1>5. r.pc \notin Working
    BY DEF IsHolder
  <1>6. holder' \in Senders \cup {None} /\ cache' \in CacheRecords
        /\ (cache'.state = "known" => cache'.version \in seen..Now)
        /\ (cache'.state = "known" <=> cache'.list # 0)
    BY DEF GroupInv, GroupTypes
  <1>7. Usable' => Usable /\ roster[Current'] = roster[Current]
    BY <1>4
  <1> QED BY <1>1, <1>3, <1>4, <1>5, <1>6, <1>7 DEF LeavesSession

LEMMA RoomSendKept ==
    ASSUME GroupInv, None \notin Senders, NEW s \in Senders, RoomSend(s)
    PROVE  GroupInv'
  <1>1. CASE HasMembers /\ Go(s, "decide") /\ UNCHANGED <<cache, holder>>
    <2> DEFINE r == [sender[s] EXCEPT !.pc = "decide"]
    <2>1. sender[s] \in SenderRecords /\ SenderOK(sender[s]) /\ sender[s].pc = "idle"
      BY DEF GroupInv, GroupTypes, Owners, RoomSend
    <2>2. r \in SenderRecords /\ r.pc = "decide" /\ r.id = sender[s].id /\ r.list = sender[s].list
            /\ r.why = sender[s].why
      BY <2>1 DEF SenderRecords
    <2>3. sender' = [sender EXCEPT ![s] = r]
      BY <1>1 DEF Go
    <2> HIDE DEF r
    <2>4. SenderOK(r) /\ ~IsHolder(r) /\ ~IsHolder(sender[s]) /\ ~IsSharer(r) /\ ~IsSharer(sender[s])
      BY <2>1, <2>2 DEF SenderOK, IsHolder, IsSharer, Lookups, Working
    <2>5. LeavesSession(s)
      BY <2>2, <2>3, <2>4, <1>1, OutsideKept DEF RoomSend
    <2> QED BY <2>5, LeavesMail DEF RoomSend
  <1>2. CASE StartLookup(s, "send")
    BY <1>2, StartLookupKept DEF RoomSend
  <1> QED BY <1>1, <1>2 DEF RoomSend

LEMMA DecideKept ==
    ASSUME GroupInv, None \notin Senders, NEW s \in Senders, Decide(s)
    PROVE  GroupInv'
  <1> DEFINE r(pc) == [sender[s] EXCEPT !.pc = pc]
  <1>1. sender[s] \in SenderRecords /\ SenderOK(sender[s]) /\ sender[s].pc = "decide"
    BY DEF GroupInv, GroupTypes, Owners, Decide
  <1>2. ~IsHolder(sender[s]) /\ ~IsSharer(sender[s])
    BY <1>1 DEF SenderOK, IsHolder, IsSharer, Lookups, Working
  <1>3. ASSUME NEW pc \in {"waiting", "share"}
        PROVE  r(pc) \in SenderRecords /\ r(pc).pc = pc /\ r(pc).id = sender[s].id
                /\ r(pc).list = sender[s].list /\ r(pc).why = sender[s].why
    BY <1>1 DEF SenderRecords
  <1>4. CASE sharing /\ Go(s, "waiting") /\ UNCHANGED sharing
    <2> DEFINE w == r("waiting")
    <2>1. sender' = [sender EXCEPT ![s] = w]
      BY <1>4 DEF Go
    <2>2. w \in SenderRecords /\ w.pc = "waiting" /\ w.id = sender[s].id /\ w.list = sender[s].list
            /\ w.why = sender[s].why
      BY <1>3
    <2> HIDE DEF w, r
    <2>3. SenderOK(w) /\ ~IsHolder(w) /\ ~IsSharer(w)
      BY <2>2, <1>1 DEF SenderOK, IsHolder, IsSharer, Lookups, Working
    <2>4. LeavesSession(s)
      BY <2>1, <2>2, <2>3, <1>2, <1>4, OutsideKept DEF Decide
    <2> QED BY <2>4, LeavesMail DEF Decide
  <1>5. CASE ~sharing /\ Go(s, "share") /\ sharing' = TRUE
    <2> DEFINE w == r("share")
    <2>1. sender' = [sender EXCEPT ![s] = w]
      BY <1>5 DEF Go
    <2>2. w \in SenderRecords /\ w.pc = "share" /\ w.id = sender[s].id /\ w.list = sender[s].list
            /\ w.why = sender[s].why
      BY <1>3
    <2> HIDE DEF w, r
    <2>3. SenderOK(w) /\ ~IsHolder(w) /\ IsSharer(w)
      BY <2>2, <1>1 DEF SenderOK, IsHolder, IsSharer, Lookups, Working
    <2>4. LeavesSession(s)
      BY <2>1, <2>2, <2>3, <1>2, <1>5, OutsideKept DEF Decide
    <2> QED BY <2>4, LeavesMail DEF Decide
  <1> QED BY <1>4, <1>5 DEF Decide

LEMMA ShareMembersKept ==
    ASSUME GroupInv, None \notin Senders, NEW s \in Senders, ShareMembers(s)
    PROVE  GroupInv'
  <1>1. sender[s] \in SenderRecords /\ SenderOK(sender[s]) /\ sender[s].pc = "share"
    BY DEF GroupInv, GroupTypes, Owners, ShareMembers
  <1>2. CASE StartLookup(s, "share")
    BY <1>1, <1>2, StartLookupKept DEF ShareMembers
  <1> DEFINE l == IF membersSynced THEN 0 ELSE cache.list
             us == IF membersSynced THEN roster[seen] ELSE roster[cache.version]
             r == [Idle EXCEPT !.pc = "claim", !.list = l, !.users = us]
  <1>3. CASE HasMembers /\ sender' = [sender EXCEPT ![s] = r] /\ UNCHANGED <<cache, holder>>
    <2>1. cache \in CacheRecords /\ roster \in Seq(SUBSET People) /\ seen \in 1..Len(roster)
            /\ (~membersSynced => cache.version \in seen..Len(roster))
      BY <1>3 DEF GroupInv, GroupTypes, HasMembers, Now
    <2>2. l \in Nat /\ us \subseteq People
      BY <2>1 DEF CacheRecords
    <2>3. r \in SenderRecords /\ r.pc = "claim" /\ r.list = l /\ r.users = us /\ r.id = 0
            /\ r.why = "none"
      <3> HIDE DEF l, us
      <3> QED BY <2>2, IdleShape DEF SenderRecords
    <2>4. ~membersSynced => l # 0
      BY <1>3 DEF HasMembers, GroupInv, GroupTypes
    <2>5. ~membersSynced => us = roster[cache.version]
      OBVIOUS
    <2> HIDE DEF l, us, r
    <2>6. SenderOK(r) /\ ~IsHolder(r) /\ ~IsHolder(sender[s]) /\ IsSharer(r) /\ IsSharer(sender[s])
      BY <1>1, <2>3 DEF SenderOK, IsHolder, IsSharer, Lookups, Working
    <2>7. sharing /\ sharing' = sharing
      BY <2>6 DEF GroupInv, Owners, ShareMembers
    <2>8. UNCHANGED <<roster, seen, membersSynced, cache, group, keyed, retained, holder, blocked,
                      raced, mail>>
      BY <1>3 DEF ShareMembers
    <2>9. LeavesSession(s)
      BY <1>3, <2>3, <2>4, <2>5, <2>6, <2>7, <2>8, OutsideKept
    <2> QED BY <2>8, <2>9, LeavesMail
  <1> QED BY <1>2, <1>3 DEF ShareMembers

(* Encrypting: the shared session's key is where it should be. *)
LEMMA EncryptKept ==
    ASSUME GroupInv, None \notin Senders, NEW s \in Senders, Encrypt(s)
    PROVE  GroupInv'
  <1>1. sender[s] \in SenderRecords /\ SenderOK(sender[s]) /\ sender[s].pc = "decide" /\ group.shared
    BY DEF GroupInv, GroupTypes, Owners, Encrypt, ShouldShare
  <1>2. ~IsHolder(sender[s]) /\ ~IsSharer(sender[s]) /\ ~IsHolder(Idle) /\ ~IsSharer(Idle) /\ SenderOK(Idle)
    BY <1>1, IdleShape DEF SenderOK, IsHolder, IsSharer, Lookups, Working
  <1>3. /\ UNCHANGED <<roster, seen, membersSynced, cache, group, keyed, retained, holder, blocked,
                        raced, sharing>>
        /\ sender' = [sender EXCEPT ![s] = Idle]
    BY DEF Encrypt
  <1>4. ASSUME mail' = mail \/ (group.shared /\ mail'.id = group.id /\ mail'.seen = seen)
        PROVE  LeavesSession(s)
    BY <1>2, <1>3, <1>4, IdleShape, OutsideKept
  <1>5. CASE mail' = mail
    BY <1>4, <1>5, LeavesMail
  <1>6. CASE /\ membersSynced \/ cache.state = "known"
             /\ mail' = [id |-> group.id, seen |-> seen, blocked |-> blocked]
    <2>1. LeavesSession(s)
      BY <1>1, <1>4, <1>6
    <2>2. group # NoGroup /\ SessionOK /\ Usable
      BY <1>1, <1>6, NoGroupShape DEF GroupInv, Usable
    <2> DEFINE g == group.id
               c == Current
    <2>3. c \in seen..Now
      BY <1>6 DEF Current, GroupInv, GroupTypes
    <2>4. /\ \A u \in keyed[g] : u \in roster[c] /\ u \notin (blocked \ raced)
          /\ roster[c] \ blocked \subseteq keyed[g]
      <3>1. keyed[g] \subseteq Reached(g)
        BY <2>2 DEF Reached, GroupInv, GroupTypes, GroupRecords
      <3> QED BY <1>1, <2>2, <3>1 DEF SessionOK
    <2>5. retained = None /\ \A t \in Senders : sender[t].pc \notin Working
      BY <1>1, <2>2 DEF SessionOK
    <2>6. \A t \in Senders : sender'[t].pc \notin Working
      BY <2>1, <2>5, OtherFrame DEF GroupInv, LeavesSession
    <2>7. UNCHANGED <<roster, keyed, raced, retained>>
      BY DEF Encrypt
    <2>8. mail'.id = g /\ mail'.seen = seen /\ mail'.blocked = blocked
      BY <1>6
    <2> HIDE DEF g, c
    <2>9. DepartedExcluded'
      BY <2>3, <2>4, <2>7, <2>8 DEF DepartedExcluded, Now
    <2>10. MembersReached'
      BY <2>3, <2>4, <2>7, <2>8 DEF MembersReached, Now
    <2>11. BlockedExcludedUnraced'
      BY <2>4, <2>7, <2>8 DEF BlockedExcludedUnraced
    <2>12. MailKept'
      BY <2>5, <2>6, <2>7, <2>9, <2>10, <2>11 DEF MailKept
    <2> QED BY <2>1, <2>12, LeavesSessionOK DEF GroupInv, LeavesSession
  <1> QED BY <1>5, <1>6 DEF Encrypt

LEMMA MembersListedKept ==
    ASSUME GroupInv, None \notin Senders, NEW s \in Senders, MembersListed(s)
    PROVE  GroupInv'
  <1> DEFINE r == [sender[s] EXCEPT !.pc = "listed", !.version = Now]
  <1>1. sender[s] \in SenderRecords /\ SenderOK(sender[s]) /\ sender[s].pc = "lookup"
        /\ Now \in Nat /\ seen \in 1..Now /\ holder = s
    BY DEF GroupInv, GroupTypes, Owners, MembersListed, IsHolder, Lookups, Now
  <1>2. r \in SenderRecords /\ r.pc = "listed" /\ r.id = sender[s].id /\ r.list = sender[s].list
        /\ r.why = sender[s].why /\ r.previous = sender[s].previous /\ r.version = Now
    BY <1>1 DEF SenderRecords, Lookups
  <1>3. sender' = [sender EXCEPT ![s] = r]
    BY DEF MembersListed
  <1> HIDE DEF r
  <1>4. OthersKept(s) /\ sender'[s] = r
    BY <1>2, <1>3, OneSet DEF GroupInv, GroupTypes
  <1>5. SenderOK(r) /\ IsHolder(r) /\ (IsSharer(r) <=> IsSharer(sender[s]))
    BY <1>1, <1>2 DEF SenderOK, IsHolder, IsSharer, Lookups, Working
  <1>6. IsSharer(sender[s]) => sharing
    BY DEF GroupInv, Owners
  <1>7. Owners'
    BY <1>1, <1>4, <1>5, <1>6, OwnersFrame DEF GroupInv, MembersListed
  <1>8. UNCHANGED <<roster, seen, membersSynced, cache, group, keyed, retained, holder, blocked, raced,
                    mail>>
    BY DEF MembersListed
  <1>9. LookupOK'
    BY <1>1, <1>2, <1>4, <1>8 DEF GroupInv, LookupOK, Now, Lookups
  <1>10. Usable' => Usable /\ roster[Current'] = roster[Current]
    BY <1>1, <1>2, <1>4, <1>8 DEF Usable, Current
  <1>11. holder' \in Senders \cup {None} /\ cache' \in CacheRecords
        /\ (cache'.state = "known" => cache'.version \in seen..Now)
        /\ (cache'.state = "known" <=> cache'.list # 0)
    BY <1>8 DEF GroupInv, GroupTypes
  <1>12. LeavesSession(s)
    BY <1>2, <1>4, <1>7, <1>8, <1>9, <1>10, <1>11 DEF LeavesSession, Working
  <1> QED BY <1>8, <1>12, LeavesMail

(* One sender at most has a list: a name for another one is free. *)
LEMMA NewListFree ==
    ASSUME GroupInv, IsFiniteSet(Senders), cache.state # "known"
    PROVE  NewList \in Nat \ {0} /\ \A t \in Senders : sender[t].list # NewList
  <1>1. Cardinality(Senders) \in Nat
    BY FS_CardinalityType
  <1>2. cache.list = 0
    BY DEF GroupInv, GroupTypes
  <1>3. \A t \in Senders : sender[t].list # 0 => IsSharer(sender[t])
    BY DEF GroupInv, Owners, SenderOK, IsSharer
  <1>4. ~(1 \in ListsInUse /\ 2 \in ListsInUse)
    BY <1>2, <1>3 DEF ListsInUse, GroupInv, Owners
  <1>5. 1 \in 1..(Cardinality(Senders) + 2) /\ 2 \in 1..(Cardinality(Senders) + 2)
    BY <1>1
  <1>6. \E n \in 1..(Cardinality(Senders) + 2) : n \notin ListsInUse
    BY <1>4, <1>5
  <1>7. NewList \in 1..(Cardinality(Senders) + 2) /\ NewList \notin ListsInUse
    BY <1>6 DEF NewList
  <1> QED BY <1>1, <1>7 DEF ListsInUse

LEMMA LookupUsedKept ==
    ASSUME GroupInv, None \notin Senders, IsFiniteSet(Senders), NEW s \in Senders, LookupAnswered(s),
           LookupCurrent
    PROVE  GroupInv'
  <1> DEFINE v == sender[s].version
             n == NewList
             d == [Idle EXCEPT !.pc = "decide"]
             c == [Idle EXCEPT !.pc = "claim", !.list = n, !.users = roster[v]]
             r == CASE sender[s].why = "members" -> Idle
                    [] sender[s].why = "send" -> d
                    [] sender[s].why = "share" -> c
  <1>1. sender[s] \in SenderRecords /\ SenderOK(sender[s]) /\ sender[s].pc = "listed" /\ holder = s
        /\ cache.state = "looking" /\ holder' = None
    BY DEF GroupInv, GroupTypes, Owners, LookupAnswered, LookupCurrent, Unlock
  <1>2. v \in seen..Now /\ (sender[s].previous # 0 => sender[s].previous \in seen..Now)
    BY <1>1 DEF GroupInv, LookupOK
  <1>3. n \in Nat \ {0} /\ \A t \in Senders : sender[t].list # n
    BY <1>1, NewListFree
  <1>4. roster[v] \subseteq People /\ v \in Nat
    BY <1>2 DEF GroupInv, GroupTypes, Now
  <1>5. c \in SenderRecords /\ c.pc = "claim" /\ c.list = n /\ c.users = roster[v] /\ c.id = 0
        /\ c.why = "none"
    <2> HIDE DEF n, v
    <2> QED BY <1>3, <1>4, IdleShape DEF SenderRecords
  <1>6. d \in SenderRecords /\ AtRest(d) /\ AtRest(Idle)
    BY DecideShape
  <1> HIDE DEF c, d
  <1>7. sender[s].why \in {"members", "send", "share"}
    BY <1>1 DEF SenderOK, Lookups, SenderRecords
  <1>8. /\ r = Idle \/ r = d \/ r = c
        /\ r = c <=> sender[s].why = "share"
    BY <1>5, <1>6, <1>7 DEF AtRest
  <1>9. r \in SenderRecords /\ SenderOK(r) /\ ~IsHolder(r) /\ r.pc \notin Working
        /\ (r.pc = "claim" => r = c)
    <2>1. CASE r = c
      BY <2>1, <1>3, <1>5 DEF SenderOK, IsHolder, Lookups, Working
    <2>2. CASE r = Idle \/ r = d
      BY <2>2, <1>6, IdleShape, AtRestShape DEF AtRest
    <2> QED BY <1>8, <2>1, <2>2
  <1>10. IsSharer(r) <=> IsSharer(sender[s])
    <2>1. IsSharer(sender[s]) <=> sender[s].why = "share"
      BY <1>1 DEF IsSharer, Working
    <2>2. IsSharer(c)
      BY <1>5 DEF IsSharer
    <2>3. ~IsSharer(d) /\ ~IsSharer(Idle)
      BY <1>6, AtRestShape
    <2> QED BY <1>8, <2>1, <2>2, <2>3
  <1>11. /\ sender' = [sender EXCEPT ![s] = r]
         /\ cache' = [state |-> "known", list |-> n, version |-> v]
         /\ group' = IF Unchanged(s) THEN group ELSE NoGroup
         /\ UNCHANGED <<roster, seen, membersSynced, keyed, retained, blocked, raced, mail, sharing>>
    BY DEF LookupAnswered, c, d
  <1> HIDE DEF r
  <1>12. OthersKept(s) /\ sender'[s] = r
    BY <1>9, <1>11, OneSet DEF GroupInv, GroupTypes
  <1>13. IsSharer(sender[s]) => sharing
    BY DEF GroupInv, Owners
  <1>14. Owners'
    BY <1>1, <1>9, <1>10, <1>11, <1>12, <1>13, OwnersFrame DEF GroupInv
  <1>15. cache' \in CacheRecords /\ cache'.state = "known" /\ cache'.list = n /\ cache'.version = v
    BY <1>3, <1>4, <1>11 DEF CacheRecords
  <1>16. LookupOK'
    BY <1>15 DEF LookupOK
  <1>17. \A t \in Senders \ {s} : sender[t].pc \notin Working
    BY <1>1 DEF GroupInv, Owners, IsHolder
  <1>18. Unchanged(s) => Usable /\ roster[Current'] = roster[Current]
    BY <1>1, <1>11, <1>15 DEF Unchanged, Usable, Current
  <1>19. group' = group /\ group # NoGroup => Unchanged(s)
    BY <1>11
  <1>20. r.pc = "claim" => r.list = n /\ r.users = roster[v]
    BY <1>5, <1>9
  <1>21. LeavesSession(s)
    BY <1>1, <1>2, <1>3, <1>9, <1>11, <1>12, <1>14, <1>15, <1>16, <1>17, <1>18, <1>19, <1>20
       DEF LeavesSession
  <1> QED BY <1>11, <1>21, LeavesMail

(* A sender that gives up gives back what it owns. *)
LEMMA GivenUpKept ==
    ASSUME GroupInv, None \notin Senders, NEW s \in Senders, NEW r, AtRest(r), OthersKept(s),
           sender'[s] = r,
           holder = s => holder' = None, holder # s => holder' = holder,
           IsSharer(sender[s]) => ~sharing', ~IsSharer(sender[s]) => sharing' = sharing,
           cache' = IF holder = s /\ cache.state = "looking" THEN Absent ELSE cache,
           UNCHANGED <<roster, seen, membersSynced, group, keyed, retained, blocked, raced, mail>>
    PROVE  GroupInv'
  <1>1. SenderOK(r) /\ ~IsHolder(r) /\ ~IsSharer(r) /\ r.pc \notin Working /\ r.pc # "claim"
    BY AtRestShape DEF AtRest
  <1>2. holder' # s /\ holder' \in Senders \cup {None}
    BY DEF GroupInv, GroupTypes
  <1>3. Owners'
    BY <1>1, <1>2, OwnersFrame DEF GroupInv
  <1>4. Absent \in CacheRecords /\ Absent.state = "absent" /\ Absent.list = 0
    BY DEF Absent, CacheRecords
  <1>5. cache' \in CacheRecords /\ (cache'.state = "known" => cache'.version \in seen..Now)
        /\ (cache'.state = "known" <=> cache'.list # 0)
    BY <1>4 DEF GroupInv, GroupTypes
  <1>6. LookupOK' /\ (Usable' => Usable /\ roster[Current'] = roster[Current])
    <2>1. CASE holder = s
      <3>1. cache'.state # "looking" /\ (cache'.state = "known" => cache' = cache)
        BY <1>4, <2>1
      <3> QED BY <3>1 DEF LookupOK, Usable, Current
    <2>2. CASE holder # s
      BY <2>2, LookupFrame DEF GroupInv
    <2> QED BY <2>1, <2>2
  <1>7. \A t \in Senders \ {s} : sender[t].pc \in Working => cache' = cache
    BY DEF GroupInv, Owners, IsHolder
  <1>8. cache' = cache \/ cache'.state # "known"
    BY <1>4
  <1>9. LeavesSession(s)
    BY <1>1, <1>2, <1>3, <1>5, <1>6, <1>7, <1>8 DEF LeavesSession
  <1> QED BY <1>9, LeavesMail

LEMMA LookupRefusedKept ==
    ASSUME GroupInv, None \notin Senders, NEW s \in Senders, LookupAnswered(s), ~LookupCurrent
    PROVE  GroupInv'
  <1>1. sender[s] \in SenderRecords /\ SenderOK(sender[s]) /\ sender[s].pc = "listed" /\ holder = s
        /\ cache.state # "looking" /\ holder' = None
    BY DEF GroupInv, GroupTypes, Owners, LookupAnswered, LookupCurrent, Unlock
  <1>2. IsSharer(sender[s]) <=> sender[s].why = "share"
    BY <1>1 DEF IsSharer, Working
  <1>3. UNCHANGED <<roster, seen, membersSynced, cache, group, keyed, retained, blocked, raced, mail>>
    BY DEF LookupAnswered
  <1>4. CASE sender[s].why = "share" /\ Release(s, Idle)
    <2>1. OthersKept(s) /\ sender'[s] = Idle /\ ~sharing'
      BY <1>4, ReleaseShape, IdleShape DEF GroupInv, GroupTypes
    <2> QED BY <1>1, <1>2, <1>3, <1>4, <2>1, DecideShape, GivenUpKept
  <1>5. CASE sender[s].why # "share" /\ sender' = [sender EXCEPT ![s] = Idle] /\ UNCHANGED sharing
    <2>1. OthersKept(s) /\ sender'[s] = Idle
      BY <1>5, OneSet, IdleShape DEF GroupInv, GroupTypes
    <2> QED BY <1>1, <1>2, <1>3, <1>5, <2>1, DecideShape, GivenUpKept
  <1> QED BY <1>4, <1>5 DEF LookupAnswered

LEMMA SharersAre == \A s \in Senders : s \in Sharers <=> IsSharer(sender[s])
  BY DEF Sharers, IsSharer, Working

LEMMA StopKept ==
    ASSUME GroupInv, None \notin Senders, NEW s \in Senders, Stop(s)
    PROVE  GroupInv'
  <1>1. UNCHANGED <<roster, seen, membersSynced, group, keyed, retained, blocked, raced, mail>>
        /\ cache' = (IF holder = s /\ cache.state = "looking" THEN Absent ELSE cache)
        /\ (holder = s => holder' = None) /\ (holder # s => holder' = holder)
    BY DEF Stop
  <1>2. CASE s \in Sharers /\ Release(s, Idle)
    <2>1. OthersKept(s) /\ sender'[s] = Idle /\ ~sharing'
      BY <1>2, ReleaseShape, IdleShape DEF GroupInv, GroupTypes
    <2> QED BY <1>1, <1>2, <2>1, DecideShape, SharersAre, GivenUpKept
  <1>3. CASE s \notin Sharers /\ sender' = [sender EXCEPT ![s] = Idle] /\ UNCHANGED sharing
    <2>1. OthersKept(s) /\ sender'[s] = Idle
      BY <1>3, OneSet, IdleShape DEF GroupInv, GroupTypes
    <2> QED BY <1>1, <1>3, <2>1, DecideShape, SharersAre, GivenUpKept
  <1> QED BY <1>2, <1>3 DEF Stop

-----------------------------------------------------------------------------
(* The server, sync, trust and maintenance *)

LEMMA RosterChangeKept ==
    ASSUME GroupInv, NEW u \in People, RosterChange(u)
    PROVE  GroupInv'
  <1> DEFINE m == IF u \in roster[Now] THEN roster[Now] \ {u} ELSE roster[Now] \cup {u}
  <1>1. roster' = Append(roster, m)
    BY DEF RosterChange
  <1>2. roster \in Seq(SUBSET People) /\ seen \in 1..Now
    BY DEF GroupInv, GroupTypes
  <1>3. m \in SUBSET People
    BY <1>2 DEF Now
  <1> HIDE DEF m
  <1>4. roster' \in Seq(SUBSET People) /\ Now' = Now + 1 /\ \A i \in 1..Now : roster'[i] = roster[i]
    BY <1>1, <1>2, <1>3 DEF Now
  <1>5. UNCHANGED <<seen, membersSynced, cache, group, keyed, sharing, retained, holder, sender,
                    blocked, raced, mail>>
    BY DEF RosterChange
  <1>6. Now \in Nat
    BY <1>2 DEF Now
  <1>7. GroupTypes'
    BY <1>2, <1>4, <1>5, <1>6 DEF GroupInv, GroupTypes
  <1>8. Owners'
    BY <1>5 DEF GroupInv, Owners
  <1>9. LookupOK'
    BY <1>2, <1>4, <1>5, <1>6 DEF GroupInv, LookupOK
  <1>10. ChunkOK'
    BY <1>5 DEF GroupInv, ChunkOK
  <1>11. ListMeans'
    BY <1>2, <1>4, <1>5, <1>6 DEF GroupInv, ListMeans, GroupTypes
  <1>12. (Usable' <=> Usable) /\ Current' = Current
    BY <1>5 DEF Usable, Current
  <1>13. Usable => roster'[Current'] = roster[Current]
    <2>1. Usable => Current \in 1..Now
      BY <1>2, <1>6 DEF Usable, Current, GroupInv, GroupTypes, LookupOK
    <2> QED BY <2>1, <1>4, <1>12
  <1>14. SessionOK'
    <2> SUFFICES ASSUME group # NoGroup PROVE SessionOK'
      BY <1>5 DEF SessionOK
    <2>1. \A i \in SessionIds : Reached(i)' = Reached(i)
      BY <1>5 DEF Reached
    <2>2. group.id \in SessionIds
      BY DEF GroupInv, GroupTypes, GroupRecords
    <2>3. \A s \in Senders : sender[s].pc \in Working => Usable
      BY DEF GroupInv, SessionOK, Usable
    <2> QED BY <1>5, <1>12, <1>13, <2>1, <2>2, <2>3 DEF GroupInv, SessionOK
  <1>15. MailKept'
    <2>1. mail.seen \in 1..Now
      BY DEF GroupInv, GroupTypes
    <2>2. DepartedExcluded'
      BY <1>4, <1>5, <1>6, <2>1 DEF GroupInv, MailKept, DepartedExcluded
    <2>3. MembersReached'
      BY <1>4, <1>5, <1>6, <2>1 DEF GroupInv, MailKept, MembersReached
    <2>4. BlockedExcludedUnraced'
      BY <1>5 DEF GroupInv, MailKept, BlockedExcludedUnraced
    <2> QED BY <1>5, <2>2, <2>3, <2>4 DEF GroupInv, MailKept
  <1> QED BY <1>7, <1>8, <1>9, <1>10, <1>11, <1>14, <1>15 DEF GroupInv

(* Sync moves on: the list and the session are dropped. *)
LEMMA SyncMemberKept ==
    ASSUME GroupInv, SyncMember
    PROVE  GroupInv'
  <1>1. UNCHANGED <<roster, membersSynced, keyed, sharing, retained, holder, sender, blocked, raced,
                    mail>> /\ cache' = Absent /\ group' = NoGroup
    BY DEF SyncMember, Forgotten
  <1>2. Absent \in CacheRecords /\ Absent.state = "absent" /\ Absent.list = 0
    BY DEF Absent, CacheRecords
  <1>3. seen' \in 1..Now
    BY DEF SyncMember, GroupInv, GroupTypes, Now
  <1>4. GroupTypes'
    BY <1>1, <1>2, <1>3 DEF GroupInv, GroupTypes, Now
  <1>5. Owners' /\ ChunkOK'
    BY <1>1 DEF GroupInv, Owners, ChunkOK
  <1>6. LookupOK' /\ ListMeans' /\ SessionOK'
    BY <1>1, <1>2 DEF GroupInv, LookupOK, ListMeans, SessionOK
  <1>7. MailKept'
    BY <1>1, MailFrame DEF GroupInv, MailKept
  <1> QED BY <1>4, <1>5, <1>6, <1>7 DEF GroupInv

LEMMA BlacklistDeviceKept ==
    ASSUME GroupInv, NEW u \in People, BlacklistDevice(u)
    PROVE  GroupInv'
  <1>1. UNCHANGED <<roster, seen, membersSynced, cache, keyed, sharing, retained, holder, sender, mail>>
        /\ blocked' = blocked \cup {u} /\ group' = (IF Affected(u) THEN NoGroup ELSE group)
        /\ raced' = (IF cache.state = "looking" THEN raced \cup {u} ELSE raced)
    BY DEF BlacklistDevice
  <1>2. GroupTypes'
    BY <1>1 DEF GroupInv, GroupTypes, Now
  <1>3. Owners' /\ ChunkOK'
    BY <1>1 DEF GroupInv, Owners, ChunkOK
  <1>4. LookupOK' /\ ListMeans'
    BY <1>1 DEF GroupInv, LookupOK, ListMeans, Now
  <1>5. SessionOK'
    <2> SUFFICES ASSUME group' # NoGroup PROVE SessionOK'
      BY DEF SessionOK
    <2>1. group' = group /\ group # NoGroup /\ SessionOK /\ ~Affected(u)
      BY <1>1 DEF GroupInv
    <2>2. group.id \in SessionIds /\ \A i \in SessionIds : Reached(i)' = Reached(i)
      BY <1>1, <2>1 DEF Reached, GroupInv, GroupTypes, GroupRecords
    <2>3. (Usable' <=> Usable) /\ Current' = Current
      BY <1>1 DEF Usable, Current
    <2>4. Usable => u \in raced' \/ u \notin roster[Current]
      BY <1>1, <2>1 DEF Usable, Current, Affected
    <2>5. Usable => Reached(group.id) \cap (blocked' \ raced') = {}
      BY <1>1, <2>1, <2>4 DEF SessionOK
    <2>6. Usable /\ group.shared => roster[Current] \ blocked' \subseteq keyed[group.id]
      BY <1>1, <2>1 DEF SessionOK
    <2>7. \A s \in Senders : sender[s].pc \in Working =>
            \A w \in sender[s].users \ blocked' :
                \/ w \in group.with \/ w \in sender[s].todo
                \/ sender[s].pc # "chunks" /\ w \in retained.users
      BY <1>1, <2>1 DEF SessionOK
    <2> QED BY <1>1, <2>1, <2>2, <2>3, <2>5, <2>6, <2>7 DEF SessionOK
  <1>6. MailKept'
    <2>1. raced \subseteq raced'
      BY <1>1
    <2>2. DepartedExcluded' /\ MembersReached'
      BY <1>1 DEF GroupInv, MailKept, DepartedExcluded, MembersReached, Now
    <2>3. BlockedExcludedUnraced'
      BY <1>1, <2>1 DEF GroupInv, MailKept, BlockedExcludedUnraced
    <2> QED BY <1>1, <2>2, <2>3 DEF GroupInv, MailKept
  <1> QED BY <1>2, <1>3, <1>4, <1>5, <1>6 DEF GroupInv

(* The key sent: who was about to be sent it, has it. *)
LEMMA FinishPending2Kept ==
    ASSUME GroupInv, None \notin Senders, FinishPending2
    PROVE  GroupInv'
  <1>0. PICK i : i = retained.id
    OBVIOUS
  <1>1. UNCHANGED <<roster, seen, membersSynced, cache, group, sharing, holder, sender, blocked, raced,
                    mail>> /\ retained' = None /\ retained # None /\ holder = None
        /\ keyed' = [keyed EXCEPT ![i] = @ \cup retained.users]
    BY <1>0 DEF FinishPending2
  <1>2. i \in SessionIds /\ retained.users \subseteq People /\ keyed \in [SessionIds -> SUBSET People]
    BY <1>0, <1>1 DEF GroupInv, GroupTypes, RetainedChunks
  <1>3. /\ keyed' \in [SessionIds -> SUBSET People] /\ keyed'[i] = keyed[i] \cup retained.users
        /\ \A j \in SessionIds : keyed[j] \subseteq keyed'[j] /\ (j # i => keyed'[j] = keyed[j])
    BY <1>1, <1>2
  <1>4. \A s \in Senders : sender[s].pc \notin Working
    BY <1>1 DEF GroupInv, Owners, IsHolder
  <1>5. GroupTypes'
    BY <1>1, <1>3 DEF GroupInv, GroupTypes, Now
  <1>6. Owners' /\ ChunkOK'
    BY <1>1, <1>4 DEF GroupInv, Owners, ChunkOK, Working
  <1>7. LookupOK' /\ ListMeans'
    BY <1>1 DEF GroupInv, LookupOK, ListMeans, Now
  <1>8. SessionOK'
    <2> SUFFICES ASSUME group # NoGroup PROVE SessionOK'
      BY <1>1 DEF SessionOK
    <2>1. SessionOK /\ group.id = i /\ ~group.shared
      BY <1>0, <1>1 DEF GroupInv, SessionOK
    <2>2. Reached(i)' \subseteq Reached(i)
      BY <1>0, <1>1, <1>3 DEF Reached
    <2>3. (Usable' <=> Usable) /\ Current' = Current
      BY <1>1 DEF Usable, Current
    <2> QED BY <1>1, <1>2, <1>3, <1>4, <2>1, <2>2, <2>3 DEF SessionOK
  <1>9. MailKept'
    BY <1>0, <1>1, <1>2, <1>3, <1>4, MailFrame DEF GroupInv, MailKept, GroupTypes
  <1> QED BY <1>5, <1>6, <1>7, <1>8, <1>9 DEF GroupInv

-----------------------------------------------------------------------------
(* Sharing the key *)

(* A step under the lock that works on the session. *)
Works(s) ==
    /\ OthersKept(s) /\ Owners' /\ sender'[s].pc \in Working
    /\ holder \in {s, None} /\ cache.state # "looking" /\ holder' \in Senders \cup {None}
    /\ UNCHANGED <<roster, seen, membersSynced, cache, blocked, raced, mail>>

LEMMA WorksFrame ==
    ASSUME GroupInv, None \notin Senders, NEW s \in Senders, Works(s)
    PROVE  /\ LookupOK' /\ ListMeans' /\ (Usable' <=> Usable) /\ (Usable => Current' = Current)
           /\ \A t \in Senders \ {s} : sender'[t].pc \notin Working /\ sender'[t].id = 0
           /\ sender' \in [Senders -> SenderRecords]
  <1> USE DEF Works
  <1>1. \A t \in Senders \ {s} : sender[t].pc \notin Working
    BY DEF GroupInv, Owners, IsHolder
  <1>2. \A t \in Senders \ {s} : sender'[t].pc \notin Working
    BY <1>1, OtherFrame DEF GroupInv
  <1>3. \A t \in Senders \ {s} : sender'[t].id = 0
    BY <1>2 DEF Owners, SenderOK
  <1>4. LookupOK' /\ (Usable' <=> Usable) /\ (Usable => Current' = Current)
    BY DEF LookupOK, Usable, Current
  <1>5. ListMeans'
    <2>1. \A t \in Senders : sender'[t].pc = "claim" => t # s /\ sender'[t] = sender[t]
      BY OtherFrame DEF GroupInv, Working
    <2> QED BY <2>1 DEF GroupInv, ListMeans
  <1>6. sender' \in [Senders -> SenderRecords]
    BY DEF OthersKept
  <1> QED BY <1>2, <1>3, <1>4, <1>5, <1>6

(* At most two sessions are in use when nobody shares: a name is free. *)
LEMMA NewSessionFree ==
    ASSUME GroupInv, None \notin Senders, IsFiniteSet(Senders), holder = None, retained = None
    PROVE  NewSession \in SessionIds /\ NewSession \notin SessionsInUse
  <1>1. Cardinality(Senders) \in Nat
    BY FS_CardinalityType
  <1>2. 1 \in SessionIds /\ 2 \in SessionIds /\ 3 \in SessionIds
    BY <1>1 DEF SessionIds
  <1>3. \A s \in Senders : sender[s].id = 0
    BY DEF GroupInv, Owners, SenderOK, IsHolder
  <1>4. SessionsInUse \subseteq {group.id, mail.id, 0}
    BY <1>3 DEF SessionsInUse
  <1>5. ~(1 \in {group.id, mail.id, 0} /\ 2 \in {group.id, mail.id, 0} /\ 3 \in {group.id, mail.id, 0})
    OBVIOUS
  <1>6. \E n \in SessionIds : n \notin SessionsInUse
    BY <1>2, <1>4, <1>5
  <1> QED BY <1>6 DEF NewSession

LEMMA ShareStartKept ==
    ASSUME GroupInv, None \notin Senders, IsFiniteSet(Senders), NEW s \in Senders, ShareStart(s)
    PROVE  GroupInv'
  <1>1. sender[s] \in SenderRecords /\ SenderOK(sender[s]) /\ sender[s].pc = "claim" /\ holder = None
        /\ retained = None /\ retained' = None
        /\ UNCHANGED <<roster, seen, membersSynced, cache, blocked, raced, mail>>
    BY DEF GroupInv, GroupTypes, Owners, ShareStart
  <1>2. IsSharer(sender[s]) /\ sharing /\ cache.state # "looking"
    BY <1>1 DEF IsSharer, GroupInv, Owners, LookupOK
  <1>3. CASE ~SameRecipients(s)
    <2>1. Release(s, Idle) /\ UNCHANGED <<group, keyed, holder>>
      BY <1>3 DEF ShareStart
    <2>2. OthersKept(s) /\ sender'[s] = Idle /\ ~sharing'
      BY <2>1, ReleaseShape, IdleShape DEF GroupInv, GroupTypes
    <2> QED BY <1>1, <1>2, <2>1, <2>2, DecideShape, GivenUpKept
  <1>4. CASE SameRecipients(s)
    <2> DEFINE kept == group # NoGroup /\ ~group.shared
    <2>1. PICK g : g = group'.id
      OBVIOUS
    <2>2. PICK todo : todo = sender[s].users \ (group'.with \cup blocked)
      OBVIOUS
    <2>3. /\ sender' = [sender EXCEPT ![s].pc = "chunks", ![s].id = g, ![s].todo = todo]
          /\ holder' = s /\ sharing' = sharing
      BY <1>4, <2>1, <2>2 DEF ShareStart
    <2>4. /\ membersSynced \/ cache.state = "known" 
          /\ sender[s].users = roster[Current] /\ Usable
      BY <1>1, <1>4 DEF SameRecipients, GroupInv, ListMeans, Current, Usable
    (* the session: kept while it is not shared, else a new one *)
    <2>5. /\ group' \in GroupRecords /\ ~group'.shared /\ g \in SessionIds
          /\ keyed' \in [SessionIds -> SUBSET People] /\ group'.with \subseteq keyed'[g]
          /\ keyed'[g] \subseteq roster[Current] /\ keyed'[g] \cap (blocked \ raced) = {}
          /\ g # mail.id /\ (mail.id # 0 => keyed'[mail.id] = keyed[mail.id])
      <3>1. CASE kept
        <4>1. group' = group /\ keyed' = keyed /\ g = group.id
          BY <1>4, <2>1, <3>1 DEF ShareStart
        <4>2. group \in GroupRecords /\ keyed \in [SessionIds -> SUBSET People] /\ SessionOK
          BY <3>1 DEF GroupInv, GroupTypes
        <4>3. g \in SessionIds
          BY <4>1, <4>2 DEF GroupRecords
        <4>4. keyed[g] \subseteq Reached(g)
          BY <4>2, <4>3 DEF Reached
        <4>5. Reached(g) \subseteq roster[Current] /\ Reached(g) \cap (blocked \ raced) = {}
              /\ group.with \subseteq keyed[g] /\ g # mail.id
          BY <2>4, <3>1, <4>1, <4>2 DEF SessionOK
        <4> QED BY <3>1, <4>1, <4>2, <4>3, <4>4, <4>5
      <3>2. CASE ~kept
        <4>1. /\ group' = [NoGroup EXCEPT !.id = NewSession]
              /\ keyed' = [n \in SessionIds |-> IF n \in SessionsInUse THEN keyed[n] ELSE {}]
          BY <1>4, <3>2 DEF ShareStart
        <4>2. NewSession \in SessionIds /\ NewSession \notin SessionsInUse
          BY <1>1, NewSessionFree
        <4>3. group' \in GroupRecords /\ ~group'.shared /\ group'.with = {} /\ g = NewSession
          BY <2>1, <4>1, <4>2 DEF NoGroup, GroupRecords
        <4>4. keyed \in [SessionIds -> SUBSET People] /\ mail.id \in SessionIds \cup {0}
          BY DEF GroupInv, GroupTypes
        <4>5. keyed' \in [SessionIds -> SUBSET People]
          BY <4>1, <4>4
        <4>6. keyed'[g] = {}
          BY <4>1, <4>2, <4>3
        <4>7. mail.id \in SessionsInUse
          BY DEF SessionsInUse
        <4>8. mail.id # 0 => keyed'[mail.id] = keyed[mail.id]
          BY <4>1, <4>4, <4>7
        <4> QED BY <4>2, <4>3, <4>5, <4>6, <4>7, <4>8
      <3> QED BY <3>1, <3>2
    <2> DEFINE r == [sender[s] EXCEPT !.pc = "chunks", !.id = g, !.todo = todo]
    <2>6. todo \subseteq People
      BY <1>1, <2>2 DEF SenderRecords
    <2>7. r \in SenderRecords /\ r.pc = "chunks" /\ r.id = g /\ r.todo = todo
            /\ r.users = sender[s].users /\ r.why = sender[s].why /\ r.list = sender[s].list
      BY <1>1, <2>5, <2>6 DEF SenderRecords, Working
    <2>8. sender' = [sender EXCEPT ![s] = r]
      BY <2>3
    <2> HIDE DEF r
    <2>9. OthersKept(s) /\ sender'[s] = r
      BY <2>7, <2>8, OneSet DEF GroupInv, GroupTypes
    <2>10. SenderOK(r) /\ IsHolder(r) /\ IsSharer(r)
      <3>1. g # 0
        BY <2>5 DEF SessionIds
      <3> QED BY <1>1, <2>7, <3>1 DEF SenderOK, IsHolder, IsSharer, Lookups, Working
    <2>11. Owners'
      BY <1>1, <1>2, <2>3, <2>9, <2>10, OwnersFrame DEF GroupInv
    <2>12. Works(s)
      BY <1>1, <1>2, <2>3, <2>7, <2>9, <2>11 DEF Works, Working
    <2>13. /\ LookupOK' /\ ListMeans' /\ (Usable' <=> Usable) /\ (Usable => Current' = Current)
           /\ \A t \in Senders \ {s} : sender'[t].pc \notin Working /\ sender'[t].id = 0
           /\ sender' \in [Senders -> SenderRecords]
      BY <2>12, WorksFrame
    <2>14. GroupTypes'
      BY <1>1, <2>3, <2>5, <2>13 DEF GroupInv, GroupTypes, Now
    <2>15. ChunkOK'
      BY <1>1, <2>7, <2>9, <2>13 DEF ChunkOK, Working
    <2>16. SessionOK'
      <3>1. g # 0
        BY <2>5 DEF SessionIds
      <3>2. \A u \in People : u \in Reached(g)' => u \in keyed'[g] \/ u \in todo
        BY <1>1, <2>7, <2>9, <2>13, <3>1 DEF Reached
      <3>3. Reached(g)' \subseteq People
        BY DEF Reached
      <3>4. Reached(g)' \subseteq roster[Current] /\ Reached(g)' \cap (blocked \ raced) = {}
        BY <2>2, <2>4, <2>5, <3>2, <3>3
      <3>5. \A u \in r.users \ blocked : u \in group'.with \/ u \in r.todo
        BY <2>2, <2>7
      <3>6. Current' = Current /\ roster'[Current'] = roster[Current]
        BY <1>1, <2>4, <2>13
      <3>7. ASSUME NEW t \in Senders, sender'[t].pc \in Working
            PROVE  /\ group'.id = sender'[t].id /\ ~group'.shared
                   /\ membersSynced' \/ cache'.state = "known"
                   /\ sender'[t].users = roster'[Current']
                   /\ \A u \in sender'[t].users \ blocked' :
                        \/ u \in group'.with \/ u \in sender'[t].todo
                        \/ sender'[t].pc # "chunks" /\ u \in retained'.users
        <4>1. t = s
          BY <2>13, <3>7
        <4> QED BY <1>1, <2>1, <2>4, <2>5, <2>7, <2>9, <3>5, <3>6, <4>1
      <3> QED BY <1>1, <2>1, <2>5, <3>4, <3>6, <3>7 DEF SessionOK
    <2>17. MailKept'
      BY <1>1, <2>5, <2>7, <2>9, <2>13, MailFrame DEF Working
    <2> QED BY <2>11, <2>13, <2>14, <2>15, <2>16, <2>17 DEF GroupInv
  <1> QED BY <1>3, <1>4

(* What holds when a sender works. *)
LEMMA WorkingFacts ==
    ASSUME GroupInv, None \notin Senders, NEW s \in Senders, sender[s].pc \in Working
    PROVE  /\ sender[s] \in SenderRecords /\ SenderOK(sender[s]) /\ holder = s
           /\ IsSharer(sender[s]) /\ sharing /\ cache.state # "looking"
           /\ sender[s].id # 0 /\ sender[s].id \in SessionIds
           /\ group # NoGroup => group.id = sender[s].id
           /\ \A t \in Senders \ {s} : sender[t].pc \notin Working /\ sender[t].id = 0
  <1>1. sender[s] \in SenderRecords /\ SenderOK(sender[s]) /\ holder = s
    BY DEF GroupInv, GroupTypes, Owners, IsHolder
  <1>2. IsSharer(sender[s]) /\ sharing
    BY DEF IsSharer, GroupInv, Owners
  <1>3. cache.state # "looking"
    BY <1>1 DEF GroupInv, LookupOK, Lookups, Working
  <1>4. sender[s].id # 0 /\ sender[s].id \in SessionIds
    BY <1>1 DEF SenderOK, SenderRecords
  <1>5. group # NoGroup => group.id = sender[s].id
    BY DEF GroupInv, SessionOK
  <1>6. \A t \in Senders \ {s} : sender[t].pc \notin Working
    BY <1>1 DEF GroupInv, Owners, IsHolder
  <1>7. \A t \in Senders \ {s} : sender[t].id = 0
    BY <1>6 DEF GroupInv, Owners, SenderOK
  <1> QED BY <1>1, <1>2, <1>3, <1>4, <1>5, <1>6, <1>7

(* A working sender that goes on working. *)
LEMMA WorkGoesOn ==
    ASSUME GroupInv, None \notin Senders, NEW s \in Senders, sender[s].pc \in Working,
           NEW r \in SenderRecords, sender' = [sender EXCEPT ![s] = r], r.pc \in Working,
           r.id = sender[s].id, r.why = sender[s].why, r.list = sender[s].list, holder' = holder,
           sharing' = sharing, UNCHANGED <<roster, seen, membersSynced, cache, blocked, raced, mail>>
    PROVE  Works(s) /\ sender'[s] = r
  <1>1. OthersKept(s) /\ sender'[s] = r
    BY OneSet DEF GroupInv, GroupTypes
  <1>2. SenderOK(r) /\ IsHolder(r) /\ IsSharer(r)
    <2>1. SenderOK(sender[s]) /\ sender[s].id # 0
      BY WorkingFacts
    <2> QED BY <2>1 DEF SenderOK, IsHolder, IsSharer, Lookups, Working
  <1>3. Owners'
    BY <1>1, <1>2, WorkingFacts, OwnersFrame DEF GroupInv
  <1> QED BY <1>1, <1>3, WorkingFacts DEF Works

LEMMA SendChunkKept ==
    ASSUME GroupInv, None \notin Senders, None \notin RetainedChunks, NEW s \in Senders,
           NEW u \in People, SendChunk(s, u)
    PROVE  GroupInv'
  <1>1. PICK i : i = sender[s].id
    OBVIOUS
  <1>2. PICK todo : todo = sender[s].todo \ {u}
    OBVIOUS
  <1> DEFINE r == [sender[s] EXCEPT !.pc = "chunk", !.todo = todo]
  <1>3. sender[s].pc = "chunks" /\ u \in sender[s].todo /\ retained' = [id |-> i, users |-> {u}]
        /\ sender' = [sender EXCEPT ![s] = r] /\ sender[s].pc \in Working
        /\ UNCHANGED <<roster, seen, membersSynced, cache, group, keyed, sharing, holder, blocked, raced,
                       mail>>
    BY <1>1, <1>2 DEF SendChunk, Working
  <1>4. /\ sender[s] \in SenderRecords /\ i # 0 /\ i \in SessionIds /\ retained = None
        /\ group # NoGroup => group.id = i
    BY <1>1, <1>3, WorkingFacts DEF GroupInv, ChunkOK
  <1>5. r \in SenderRecords /\ r.pc = "chunk" /\ r.id = i /\ r.todo = todo
        /\ r.users = sender[s].users /\ r.why = sender[s].why /\ r.list = sender[s].list
    <2>1. todo \subseteq People
      BY <1>2, <1>4 DEF SenderRecords
    <2> QED BY <1>1, <1>4, <2>1 DEF SenderRecords, Working
  <1> HIDE DEF r
  <1>6. Works(s) /\ sender'[s] = r
    <2>1. r.pc \in Working
      BY <1>5 DEF Working
    <2> QED BY <1>1, <1>3, <1>5, <2>1, WorkGoesOn, ZenonT(40)
  <1>7. /\ LookupOK' /\ ListMeans' /\ (Usable' <=> Usable) /\ (Usable => Current' = Current)
        /\ \A t \in Senders \ {s} : sender'[t].pc \notin Working /\ sender'[t].id = 0
        /\ sender' \in [Senders -> SenderRecords]
    BY <1>6, WorksFrame
  <1>8. retained' \in RetainedChunks /\ retained' # None /\ retained'.id = i /\ retained'.users = {u}
    <2>1. retained' \in RetainedChunks
      BY <1>3, <1>4 DEF RetainedChunks
    <2> QED BY <1>3, <2>1
  <1>9. GroupTypes'
    BY <1>3, <1>7, <1>8 DEF GroupInv, GroupTypes, Now
  <1>10. ChunkOK'
    BY <1>5, <1>6, <1>7, <1>8 DEF ChunkOK, Working
  <1>11. SessionOK'
    <2> SUFFICES ASSUME group # NoGroup PROVE SessionOK'
      BY <1>3 DEF SessionOK
    <2>1. SessionOK /\ group.id = i /\ ~group.shared /\ (membersSynced \/ cache.state = "known")
          /\ sender[s].users = roster[Current] /\ Usable
      BY <1>3, <1>4 DEF GroupInv, SessionOK, Usable
    <2>2. Reached(i)' \subseteq Reached(i)
      <3> SUFFICES ASSUME NEW w \in People, w \in Reached(i)' PROVE w \in Reached(i)
        BY DEF Reached
      <3>1. w \in keyed[i] \/ w = u \/ w \in todo
        BY <1>3, <1>4, <1>5, <1>6, <1>7, <1>8 DEF Reached
      <3>2. w \in keyed[i] \/ w \in sender[s].todo
        BY <1>2, <1>3, <3>1
      <3> QED BY <1>1, <3>2 DEF Reached
    <2>3. Current' = Current /\ roster'[Current'] = roster[Current]
      BY <1>3, <1>7, <2>1
    <2>4. Reached(i) \subseteq roster[Current] /\ Reached(i) \cap (blocked \ raced) = {}
          /\ group.with \subseteq keyed[i] /\ i # mail.id
          /\ \A w \in sender[s].users \ blocked : w \in group.with \/ w \in sender[s].todo
      BY <1>3, <2>1 DEF SessionOK
    <2>5. \A w \in r.users \ blocked : w \in group.with \/ w \in r.todo \/ w \in retained'.users
      BY <1>2, <1>5, <1>8, <2>4
    <2>6. ASSUME NEW t \in Senders, sender'[t].pc \in Working
          PROVE  /\ group'.id = sender'[t].id /\ ~group'.shared
                 /\ membersSynced' \/ cache'.state = "known"
                 /\ sender'[t].users = roster'[Current']
                 /\ \A w \in sender'[t].users \ blocked' :
                    \/ w \in group'.with \/ w \in sender'[t].todo
                    \/ sender'[t].pc # "chunks" /\ w \in retained'.users
      <3>1. t = s
        BY <1>7, <2>6
      <3> QED BY <1>3, <1>5, <1>6, <2>1, <2>3, <2>5, <3>1
    <2> QED BY <1>3, <1>8, <2>1, <2>2, <2>3, <2>4, <2>6 DEF SessionOK
  <1>12. MailKept'
    <2>1. i # mail.id
      BY <1>1, <1>3 DEF GroupInv, MailKept
    <2> QED BY <1>3, <1>5, <1>6, <1>7, <1>8, <2>1, MailFrame
  <1> QED BY <1>6, <1>7, <1>9, <1>10, <1>11, <1>12 DEF GroupInv, Works

LEMMA ChunkDeliveredKept ==
    ASSUME GroupInv, None \notin Senders, NEW s \in Senders, ChunkDelivered(s)
    PROVE  GroupInv'
  <1>1. PICK i : i = sender[s].id
    OBVIOUS
  <1> DEFINE r == [sender[s] EXCEPT !.pc = "acked"]
  <1>2. sender[s].pc = "chunk" /\ sender' = [sender EXCEPT ![s] = r] /\ sender[s].pc \in Working
        /\ UNCHANGED <<roster, seen, membersSynced, cache, group, sharing, retained, holder, blocked,
                       raced, mail>>
    BY DEF ChunkDelivered, Working, Go
  <1>3. /\ sender[s] \in SenderRecords /\ i # 0 /\ i \in SessionIds /\ retained # None /\ retained.id = i
        /\ group # NoGroup => group.id = i
    BY <1>1, <1>2, WorkingFacts DEF GroupInv, ChunkOK
  <1>4. retained.users \subseteq People /\ keyed \in [SessionIds -> SUBSET People]
    BY <1>3 DEF GroupInv, GroupTypes, RetainedChunks
  <1>5. keyed' = [keyed EXCEPT ![i] = @ \cup retained.users]
    BY <1>3 DEF ChunkDelivered
  <1>6. /\ keyed' \in [SessionIds -> SUBSET People] /\ keyed'[i] = keyed[i] \cup retained.users
        /\ \A j \in SessionIds : j # i => keyed'[j] = keyed[j]
    BY <1>3, <1>4, <1>5
  <1>7. r \in SenderRecords /\ r.pc = "acked" /\ r.id = i /\ r.todo = sender[s].todo
        /\ r.users = sender[s].users /\ r.why = sender[s].why /\ r.list = sender[s].list
    BY <1>1, <1>3 DEF SenderRecords, Working
  <1> HIDE DEF r
  <1>8. Works(s) /\ sender'[s] = r
    <2>1. r.pc \in Working
      BY <1>7 DEF Working
    <2> QED BY <1>1, <1>2, <1>7, <2>1, WorkGoesOn, ZenonT(40)
  <1>9. /\ LookupOK' /\ ListMeans' /\ (Usable' <=> Usable) /\ (Usable => Current' = Current)
        /\ \A t \in Senders \ {s} : sender'[t].pc \notin Working /\ sender'[t].id = 0
        /\ sender' \in [Senders -> SenderRecords]
    BY <1>8, WorksFrame
  <1>10. GroupTypes'
    BY <1>2, <1>6, <1>9 DEF GroupInv, GroupTypes, Now
  <1>11. ChunkOK'
    BY <1>2, <1>3, <1>6, <1>7, <1>8, <1>9 DEF ChunkOK, Working
  <1>12. SessionOK'
    <2> SUFFICES ASSUME group # NoGroup PROVE SessionOK'
      BY <1>2 DEF SessionOK
    <2>1. SessionOK /\ group.id = i /\ ~group.shared /\ (membersSynced \/ cache.state = "known")
          /\ sender[s].users = roster[Current] /\ Usable
      BY <1>2, <1>3 DEF GroupInv, SessionOK, Usable
    <2>2. Reached(i)' \subseteq Reached(i)
      <3> SUFFICES ASSUME NEW w \in People, w \in Reached(i)' PROVE w \in Reached(i)
        BY DEF Reached
      <3>1. w \in keyed[i] \/ w \in retained.users \/ w \in sender[s].todo
        BY <1>2, <1>3, <1>6, <1>7, <1>8, <1>9 DEF Reached
      <3> QED BY <1>1, <1>3, <3>1 DEF Reached
    <2>3. Current' = Current /\ roster'[Current'] = roster[Current]
      BY <1>2, <1>9, <2>1
    <2>4. Reached(i) \subseteq roster[Current] /\ Reached(i) \cap (blocked \ raced) = {}
          /\ group.with \subseteq keyed[i] /\ i # mail.id
          /\ \A w \in sender[s].users \ blocked :
                w \in group.with \/ w \in sender[s].todo \/ w \in retained.users
      BY <1>2, <2>1 DEF SessionOK
    <2>5. ASSUME NEW t \in Senders, sender'[t].pc \in Working
          PROVE  /\ group'.id = sender'[t].id /\ ~group'.shared
                 /\ membersSynced' \/ cache'.state = "known"
                 /\ sender'[t].users = roster'[Current']
                 /\ \A w \in sender'[t].users \ blocked' :
                    \/ w \in group'.with \/ w \in sender'[t].todo
                    \/ sender'[t].pc # "chunks" /\ w \in retained'.users
      <3>1. t = s
        BY <1>9, <2>5
      <3> QED BY <1>2, <1>7, <1>8, <2>1, <2>3, <2>4, <3>1
    <2> QED BY <1>2, <1>3, <1>6, <2>1, <2>2, <2>3, <2>4, <2>5 DEF SessionOK
  <1>13. MailKept'
    <2>1. i # mail.id /\ mail.id \in SessionIds \cup {0}
      BY <1>1, <1>2 DEF GroupInv, MailKept, GroupTypes
    <2> QED BY <1>2, <1>3, <1>6, <1>7, <1>8, <1>9, <2>1, MailFrame
  <1> QED BY <1>8, <1>9, <1>10, <1>11, <1>12, <1>13 DEF GroupInv, Works

(* The session was dropped meanwhile: the sharing is given up. *)
LEMMA DroppedKept ==
    ASSUME GroupInv, None \notin Senders, NEW s \in Senders, sender[s].pc \in Working, ~SameGroup(s),
           Release(s, Idle), Unlock(s), retained' = None,
           UNCHANGED <<roster, seen, membersSynced, cache, group, keyed, blocked, raced, mail>>
    PROVE  GroupInv'
  <1>1. OthersKept(s) /\ sender'[s] = Idle /\ ~sharing'
    BY ReleaseShape, IdleShape DEF GroupInv, GroupTypes
  <1>2. group = NoGroup /\ holder = s /\ holder' = None
    BY WorkingFacts DEF SameGroup, Unlock
  <1>3. SenderOK(Idle) /\ ~IsHolder(Idle) /\ ~IsSharer(Idle)
    BY DecideShape, AtRestShape DEF AtRest
  <1>4. Owners'
    BY <1>1, <1>2, <1>3, WorkingFacts, OwnersFrame DEF GroupInv
  <1>5. \A t \in Senders : sender'[t].pc \notin Working
    <2>1. \A t \in Senders : ~IsHolder(sender'[t])
      BY <1>2, <1>4 DEF Owners
    <2> QED BY <2>1 DEF IsHolder
  <1>6. GroupTypes'
    BY <1>1, <1>2 DEF GroupInv, GroupTypes, OthersKept, Now
  <1>7. LookupOK' /\ SessionOK'
    BY <1>2, WorkingFacts DEF LookupOK, SessionOK
  <1>8. ChunkOK'
    BY <1>5 DEF ChunkOK, Working
  <1>9. ListMeans'
    <2>1. \A t \in Senders : sender'[t].pc = "claim" => sender'[t] = sender[t]
      BY <1>1, <1>4, IdleShape, OtherFrame DEF GroupInv
    <2> QED BY <2>1 DEF GroupInv, ListMeans
  <1>10. MailKept'
    BY <1>5, MailFrame
  <1> QED BY <1>4, <1>6, <1>7, <1>8, <1>9, <1>10 DEF GroupInv

LEMMA ChunkAckedKept ==
    ASSUME GroupInv, None \notin Senders, NEW s \in Senders, ChunkAcked(s)
    PROVE  GroupInv'
  <1>1. sender[s].pc = "acked" /\ sender[s].pc \in Working /\ retained' = None
        /\ UNCHANGED <<roster, seen, membersSynced, cache, keyed, blocked, raced, mail>>
    BY DEF ChunkAcked, Working
  <1>2. CASE ~SameGroup(s)
    BY <1>1, <1>2, DroppedKept DEF ChunkAcked
  <1>3. CASE SameGroup(s)
    <2>1. PICK i : i = sender[s].id
      OBVIOUS
    <2> DEFINE r == [sender[s] EXCEPT !.pc = "chunks"]
    <2>2. sender' = [sender EXCEPT ![s] = r] /\ group' = [group EXCEPT !.with = @ \cup retained.users]
          /\ sharing' = sharing /\ holder' = holder
      BY <1>3 DEF ChunkAcked, Go
    <2>3. /\ sender[s] \in SenderRecords /\ i # 0 /\ i \in SessionIds /\ retained # None
          /\ retained.id = i /\ group.id = i /\ group # NoGroup /\ retained.users \subseteq keyed[i]
      BY <1>1, <1>3, <2>1, WorkingFacts, NoGroupShape DEF GroupInv, ChunkOK, SameGroup
    <2>4. retained.users \subseteq People /\ group \in GroupRecords
      BY <2>3 DEF GroupInv, GroupTypes, RetainedChunks
    <2>5. SessionOK /\ ~group.shared /\ (membersSynced \/ cache.state = "known")
          /\ sender[s].users = roster[Current] /\ Usable
      BY <1>1, <2>3 DEF GroupInv, SessionOK, Usable
    <2>6. group' \in GroupRecords /\ group'.id = i /\ group'.with = group.with \cup retained.users
      BY <2>2, <2>3, <2>4 DEF GroupRecords
    <2>7. ~group'.shared
      BY <2>2, <2>4, <2>5, Zenon DEF GroupRecords
    <2>8. r \in SenderRecords /\ r.pc = "chunks" /\ r.id = i /\ r.todo = sender[s].todo
          /\ r.users = sender[s].users /\ r.why = sender[s].why /\ r.list = sender[s].list
      BY <2>1, <2>3 DEF SenderRecords, Working
    <2> HIDE DEF r
    <2>9. Works(s) /\ sender'[s] = r
      <3>1. r.pc \in Working
        BY <2>8 DEF Working
      <3> QED BY <1>1, <2>1, <2>2, <2>8, <3>1, WorkGoesOn, ZenonT(40)
    <2>10. /\ LookupOK' /\ ListMeans' /\ (Usable' <=> Usable) /\ (Usable => Current' = Current)
           /\ \A t \in Senders \ {s} : sender'[t].pc \notin Working /\ sender'[t].id = 0
           /\ sender' \in [Senders -> SenderRecords]
      BY <2>9, WorksFrame
    <2>11. GroupTypes'
      BY <1>1, <2>2, <2>6, <2>10 DEF GroupInv, GroupTypes, Now
    <2>12. ChunkOK'
      BY <1>1, <2>8, <2>9, <2>10 DEF ChunkOK, Working
    <2>13. SessionOK'
      <3>1. Reached(i)' \subseteq Reached(i)
        <4> SUFFICES ASSUME NEW w \in People, w \in Reached(i)' PROVE w \in Reached(i)
          BY DEF Reached
        <4>1. w \in keyed[i] \/ w \in sender[s].todo
          BY <1>1, <2>3, <2>8, <2>9, <2>10 DEF Reached
        <4> QED BY <2>1, <4>1 DEF Reached
      <3>2. Current' = Current /\ roster'[Current'] = roster[Current]
        BY <1>1, <2>5, <2>10
      <3>3. Reached(i) \subseteq roster[Current] /\ Reached(i) \cap (blocked \ raced) = {}
            /\ group.with \subseteq keyed[i] /\ i # mail.id
            /\ \A w \in sender[s].users \ blocked :
                w \in group.with \/ w \in sender[s].todo \/ w \in retained.users
        BY <1>1, <2>3, <2>5 DEF SessionOK
      <3>4. \A w \in r.users \ blocked : w \in group'.with \/ w \in r.todo
        BY <2>6, <2>8, <3>3
      <3>5. ASSUME NEW t \in Senders, sender'[t].pc \in Working
            PROVE  /\ group'.id = sender'[t].id /\ ~group'.shared
                   /\ membersSynced' \/ cache'.state = "known"
                   /\ sender'[t].users = roster'[Current']
                   /\ \A w \in sender'[t].users \ blocked' :
                    \/ w \in group'.with \/ w \in sender'[t].todo
                    \/ sender'[t].pc # "chunks" /\ w \in retained'.users
        <4>1. t = s
          BY <2>10, <3>5
        <4> QED BY <1>1, <2>5, <2>6, <2>7, <2>8, <2>9, <3>2, <3>4, <4>1
      <3> QED BY <1>1, <2>3, <2>6, <2>7, <3>1, <3>2, <3>3, <3>5 DEF SessionOK
    <2>14. MailKept'
      <3>1. i # mail.id
        BY <1>1, <2>1 DEF GroupInv, MailKept
      <3> QED BY <1>1, <2>8, <2>9, <2>10, <3>1, MailFrame
    <2> QED BY <2>9, <2>10, <2>11, <2>12, <2>13, <2>14 DEF GroupInv, Works
  <1> QED BY <1>2, <1>3

(* Everybody was sent the key: the session is marked as shared. *)
LEMMA SharedKept ==
    ASSUME GroupInv, None \notin Senders, NEW s \in Senders, Shared(s)
    PROVE  GroupInv'
  <1>1. sender[s].pc = "chunks" /\ sender[s].pc \in Working /\ sender[s].todo = {} /\ Unlock(s)
        /\ UNCHANGED <<roster, seen, membersSynced, cache, keyed, retained, blocked, raced, mail>>
    BY DEF Shared, Working
  <1>2. retained = None
    BY <1>1 DEF GroupInv, ChunkOK
  <1>3. CASE ~SameGroup(s)
    BY <1>1, <1>2, <1>3, DroppedKept DEF Shared
  <1>4. CASE SameGroup(s)
    <2>1. PICK i : i = sender[s].id
      OBVIOUS
    <2> DEFINE d == [Idle EXCEPT !.pc = "decide"]
    <2>2. Release(s, d) /\ group' = [group EXCEPT !.shared = TRUE]
      BY <1>4 DEF Shared
    <2>3. d \in SenderRecords /\ AtRest(d)
      BY DecideShape
    <2> HIDE DEF d
    <2>4. OthersKept(s) /\ sender'[s] = d /\ ~sharing'
      BY <2>2, <2>3, ReleaseShape DEF GroupInv, GroupTypes
    <2>5. /\ i # 0 /\ i \in SessionIds /\ group.id = i /\ group # NoGroup
          /\ holder = s /\ holder' = None /\ cache.state # "looking"
      BY <1>1, <1>4, <2>1, WorkingFacts, NoGroupShape DEF SameGroup, Unlock
    <2>6. group \in GroupRecords
      BY <2>5 DEF GroupInv, GroupTypes
    <2>7. SessionOK /\ (membersSynced \/ cache.state = "known")
          /\ sender[s].users = roster[Current] /\ Usable
      BY <1>1, <2>5 DEF GroupInv, SessionOK, Usable
    <2>8. group' \in GroupRecords /\ group'.id = i /\ group'.with = group.with
      BY <2>2, <2>5, <2>6 DEF GroupRecords
    <2>9. group'.shared
      BY <2>2, <2>6, Zenon DEF GroupRecords
    <2>10. SenderOK(d) /\ ~IsHolder(d) /\ ~IsSharer(d)
      BY <2>3, AtRestShape DEF AtRest
    <2>11. Owners'
      BY <1>1, <2>4, <2>5, <2>10, WorkingFacts, OwnersFrame DEF GroupInv
    <2>12. \A t \in Senders : sender'[t].pc \notin Working /\ sender'[t].id = 0
      <3>1. \A t \in Senders : ~IsHolder(sender'[t])
        BY <2>5, <2>11 DEF Owners
      <3>2. \A t \in Senders : sender'[t].pc \notin Working
        BY <3>1 DEF IsHolder
      <3> QED BY <2>11, <3>2 DEF Owners, SenderOK
    <2>13. GroupTypes'
      BY <1>1, <2>4, <2>5, <2>8 DEF GroupInv, GroupTypes, OthersKept, Now
    <2>14. LookupOK' /\ (Usable' <=> Usable) /\ (Usable => Current' = Current)
      BY <1>1, <2>5, <2>7 DEF LookupOK, Usable, Current
    <2>15. ChunkOK'
      BY <2>12 DEF ChunkOK, Working
    <2>16. ListMeans'
      <3>1. \A t \in Senders : sender'[t].pc = "claim" => sender'[t] = sender[t]
        BY <2>3, <2>4, <2>11, AtRestShape, OtherFrame DEF GroupInv
      <3> QED BY <1>1, <3>1 DEF GroupInv, ListMeans
    <2>17. SessionOK'
      <3>1. Reached(i)' \subseteq Reached(i)
        BY <1>1, <1>2, <2>5, <2>12 DEF Reached
      <3>2. Current' = Current /\ roster'[Current'] = roster[Current]
        BY <1>1, <2>7, <2>14
      <3>3. Reached(i) \subseteq roster[Current] /\ Reached(i) \cap (blocked \ raced) = {}
            /\ group.with \subseteq keyed[i]
            /\ \A w \in sender[s].users \ blocked : w \in group.with \/ w \in sender[s].todo
        BY <1>1, <2>5, <2>7 DEF SessionOK
      <3>4. roster[Current] \ blocked \subseteq keyed[i]
        BY <1>1, <2>7, <3>3
      <3> QED BY <1>1, <1>2, <2>8, <2>9, <2>12, <3>1, <3>2, <3>3, <3>4 DEF SessionOK
    <2>18. MailKept'
      BY <1>1, <1>2, <2>12, MailFrame
    <2> QED BY <2>11, <2>13, <2>14, <2>15, <2>16, <2>17, <2>18 DEF GroupInv
  <1> QED BY <1>3, <1>4

-----------------------------------------------------------------------------
(* The theorem *)

LEMMA GroupInitial == ASSUME GroupAssumption, GroupInit PROVE GroupInv
  <1>1. PICK r \in SUBSET People : roster = <<r>>
    BY DEF GroupInit
  <1>2. roster \in Seq(SUBSET People) /\ Len(roster) = 1
    BY <1>1
  <1>3. seen = 1 /\ cache = Absent /\ group = NoGroup /\ keyed = [n \in SessionIds |-> {}] /\ ~sharing
        /\ retained = None /\ holder = None /\ sender = [s \in Senders |-> Idle]
        /\ mail = [id |-> 0, seen |-> 1, blocked |-> {}]
    BY DEF GroupInit
  <1>4. Absent \in CacheRecords /\ Absent.state = "absent" /\ Absent.list = 0
    BY DEF Absent, CacheRecords
  <1>5. \A s \in Senders : sender[s] = Idle
    BY <1>3
  <1>6. SenderOK(Idle) /\ ~IsHolder(Idle) /\ ~IsSharer(Idle) /\ Idle.pc \notin Working /\ Idle.pc # "claim"
    BY DecideShape, AtRestShape DEF AtRest
  <1>7. GroupTypes
    BY <1>2, <1>3, <1>4, IdleShape DEF GroupTypes, Now
  <1>8. Owners
    BY <1>3, <1>5, <1>6 DEF Owners, GroupAssumption
  <1>9. LookupOK /\ ListMeans /\ SessionOK
    BY <1>3, <1>4, <1>5, <1>6 DEF LookupOK, ListMeans, SessionOK
  <1>10. ChunkOK
    BY <1>5, <1>6 DEF ChunkOK, Working
  <1>11. MailKept
    BY <1>3, <1>5, <1>6 DEF MailKept, DepartedExcluded, MembersReached, BlockedExcludedUnraced
  <1> QED BY <1>7, <1>8, <1>9, <1>10, <1>11 DEF GroupInv

LEMMA GroupStep ==
    ASSUME GroupAssumption, GroupInv, [GroupNext]_groupVars
    PROVE  GroupInv'
  <1>1. None \notin Senders /\ None \notin RetainedChunks /\ IsFiniteSet(Senders)
    BY DEF GroupAssumption
  <1>2. CASE UNCHANGED groupVars
    <2>1. GroupTypes' /\ Owners' /\ LookupOK'
      BY <1>2 DEF groupVars, GroupInv, GroupTypes, Owners, LookupOK, Now
    <2>2. ChunkOK' /\ ListMeans'
      BY <1>2 DEF groupVars, GroupInv, ChunkOK, ListMeans
    <2>3. (Usable' <=> Usable) /\ Current' = Current /\ Reached(group.id)' = Reached(group.id)
      BY <1>2 DEF groupVars, Usable, Current, Reached
    <2>4. SessionOK'
      BY <1>2, <2>3 DEF groupVars, GroupInv, SessionOK
    <2>5. MailKept'
      BY <1>2, MailFrame DEF groupVars, GroupInv, MailKept
    <2> QED BY <2>1, <2>2, <2>4, <2>5 DEF GroupInv
  <1>3. ASSUME NEW u \in People, RosterChange(u) \/ BlacklistDevice(u)
        PROVE  GroupInv'
    BY <1>3, RosterChangeKept, BlacklistDeviceKept
  <1>4. CASE SyncMember \/ FinishPending2
    BY <1>1, <1>4, SyncMemberKept, FinishPending2Kept
  <1>5. ASSUME NEW s \in Senders,
               JoinedMembersCall(s) \/ MembersListed(s) \/ LookupAnswered(s) \/ RoomSend(s)
        PROVE  GroupInv'
    BY <1>1, <1>5, JoinedMembersCallKept, MembersListedKept, LookupUsedKept, LookupRefusedKept,
       RoomSendKept
  <1>6. ASSUME NEW s \in Senders,
               Decide(s) \/ ShareMembers(s) \/ ShareStart(s) \/ \E u \in People : SendChunk(s, u)
        PROVE  GroupInv'
    BY <1>1, <1>6, DecideKept, ShareMembersKept, ShareStartKept, SendChunkKept
  <1>7. ASSUME NEW s \in Senders,
               ChunkDelivered(s) \/ ChunkAcked(s) \/ Shared(s) \/ Encrypt(s) \/ Stop(s)
        PROVE  GroupInv'
    BY <1>1, <1>7, ChunkDeliveredKept, ChunkAckedKept, SharedKept, EncryptKept, StopKept
  <1> QED BY <1>2, <1>3, <1>4, <1>5, <1>6, <1>7 DEF GroupNext

LEMMA GroupInvRight == ASSUME GroupAssumption, GroupInv PROVE RecipientsRight
  <1>1. Cardinality(Sharers) = IF sharing THEN 1 ELSE 0
    <2>1. CASE sharing
      <3>1. PICK s \in Senders : IsSharer(sender[s])
        BY <2>1 DEF GroupInv, Owners
      <3>2. Sharers = {s}
        BY <3>1, SharersAre DEF GroupInv, Owners, Sharers
      <3> QED BY <2>1, <3>2, FS_Singleton
    <2>2. CASE ~sharing
      <3>1. Sharers = {}
        BY <2>2, SharersAre DEF GroupInv, Owners, Sharers
      <3> QED BY <2>2, <3>1, FS_EmptySet
    <2> QED BY <2>1, <2>2
  <1>2. /\ seen \in 1..Now /\ \A i \in 1..Now : roster[i] \subseteq People
        /\ group.id \in SessionIds \cup {0} /\ group.with \subseteq People
        /\ keyed \in [SessionIds -> SUBSET People]
    BY NoGroupShape DEF GroupInv, GroupTypes, GroupRecords, Now
  <1>3. cache.state = "looking" => holder # None
    BY DEF GroupInv, LookupOK, GroupAssumption
  <1>4. holder # None => sender[holder].pc \in {"lookup", "listed", "chunks", "chunk", "acked"}
    BY DEF GroupInv, GroupTypes, Owners, IsHolder, Lookups, Working
  <1>5. ListCurrent
    BY DEF GroupInv, GroupTypes, ListCurrent
  <1> QED BY <1>1, <1>2, <1>3, <1>4, <1>5 DEF RecipientsRight, GroupTypeOK, GroupInv, MailKept

(* Whoever shares, looks up, leaves, joins, is blocked or is cancelled     *)
(* meanwhile: a message is readable by those it should be and by nobody    *)
(* else, and the lock, the sharing event and the lookup mark have their    *)
(* owner (room_send, share_group_session, invalidate_outbound_session).    *)
THEOREM MessagesReach == GroupSpec => []RecipientsRight
  <1>1. GroupInit => GroupInv
    BY GroupInitial, GroupAssumption
  <1>2. GroupInv /\ [GroupNext]_groupVars => GroupInv'
    BY GroupStep, GroupAssumption
  <1>3. GroupInv => RecipientsRight
    BY GroupInvRight, GroupAssumption
  <1> QED BY <1>1, <1>2, <1>3, PTL DEF GroupSpec

-----------------------------------------------------------------------------
(* The Sliding Sync source *)

Outs == [event : Nat, how : {"loss", "history", "live", "recovered"}, plain : BOOLEAN]

-----------------------------------------------------------------------------
(* Records in order *)

(* Ordered lists a finite set of naturals from the least to the largest.   *)
LEMMA OrderedRight ==
    ASSUME NEW S \in SUBSET Nat, IsFiniteSet(S)
    PROVE  /\ Ordered(S) \in [1..Cardinality(S) -> S]
           /\ \A i, j \in 1..Cardinality(S) : i < j => Ordered(S)[i] < Ordered(S)[j]
           /\ Covers(Ordered(S), S)
<1>1. PICK n \in Nat : n = Cardinality(S)
  BY FS_CardinalityType
<1>2. PICK q \in [1..n -> S] : \A i, j \in 1..n : i < j => q[i] < q[j]
  BY <1>1, IncreasingExists
<1>3. Covers(q, S)
  BY <1>1, <1>2, IncreasingCovers
<1> DEFINE R == {ss \in S \X S : ss[1] < ss[2]}
<1>4. \A x, y \in S : <<x, y>> \in R <=> x < y
  OBVIOUS
<1> HIDE DEF R
<1>5. Linear(S, R) /\ Irreflexive(S, R) /\ Enumerates(q, S, R)
  <2>1. Linear(S, R)
    BY <1>4 DEF Linear
  <2>2. Irreflexive(S, R)
    BY <1>4 DEF Irreflexive
  <2>3. Enumerates(q, S, R)
    BY <1>1, <1>2, <1>4 DEF Enumerates
  <2> QED BY <2>1, <2>2, <2>3
<1>6. ASSUME NEW i \in 1..n PROVE Cardinality({x \in S : x <= q[i]}) = i
  <2>1. PICK c \in S : c = q[i]
    BY <1>2
  <2>2. Cardinality({x \in S : <<x, c>> \in R}) = i - 1
    BY <1>1, <1>5, <2>1, EnumerationRank
  <2> DEFINE B == {x \in S : x < c}
  <2>3. B = {x \in S : <<x, c>> \in R}
    BY <1>4
  <2>4. {x \in S : x <= c} = B \cup {c}
    <3>1. \A x \in S : x <= c <=> x < c \/ x = c
      OBVIOUS
    <3> QED BY <3>1
  <2>5. IsFiniteSet(B) /\ c \notin B
    BY FS_Subset
  <2>6. PICK m \in Nat : m = i - 1
    OBVIOUS
  <2> HIDE DEF B
  <2>7. Cardinality(B \cup {c}) = Cardinality(B) + 1
    BY <2>5, FS_AddElement
  <2>8. Cardinality({x \in S : x <= c}) = m + 1
    BY <2>2, <2>3, <2>4, <2>6, <2>7
  <2> QED BY <2>1, <2>6, <2>8
<1>7. ASSUME NEW i \in 1..n
      PROVE  (CHOOSE e \in S : Cardinality({x \in S : x <= e}) = i) = q[i]
  <2>1. q[i] \in S
    BY <1>2
  <2>2. ASSUME NEW e \in S, Cardinality({x \in S : x <= e}) = i PROVE e = q[i]
    <3>1. PICK j \in 1..n : q[j] = e
      BY <1>1, <1>3 DEF Covers
    <3>2. j = i
      BY <1>6, <2>2, <3>1
    <3> QED BY <3>1, <3>2
  <2>3. Cardinality({x \in S : x <= q[i]}) = i
    BY <1>6
  <2> QED BY <2>1, <2>2, <2>3
<1>8. Ordered(S) = q
  BY <1>1, <1>2, <1>7 DEF Ordered
<1> QED BY <1>1, <1>2, <1>3, <1>8

Ascending(rs) == \A i, j \in 1..Len(rs) : i < j => rs[i].event < rs[j].event
Lists(rs, how) ==
    /\ \A i \in 1..Len(rs) : \E e \in DOMAIN how : rs[i] = Record(e, how[e])
    /\ \A e \in DOMAIN how : \E i \in 1..Len(rs) : rs[i] = Record(e, how[e])

(* One record of each event, in order. *)
LEMMA RecordsRight ==
    ASSUME NEW S \in SUBSET Nat, IsFiniteSet(S),
           NEW how \in [S -> {"loss", "history", "live", "recovered"}]
    PROVE  Records(how) \in Seq(Outs) /\ Ascending(Records(how)) /\ Lists(Records(how), how)
<1>1. PICK n \in Nat : n = Cardinality(S)
  BY FS_CardinalityType
<1>2. PICK q : q = Ordered(S)
  OBVIOUS
<1>3. /\ q \in [1..n -> S] /\ \A i, j \in 1..n : i < j => q[i] < q[j]
      /\ \A e \in S : \E i \in 1..n : q[i] = e
  BY <1>1, <1>2, OrderedRight DEF Covers
<1>4. Records(how) = [i \in 1..n |-> Record(q[i], how[q[i]])]
  BY <1>2, <1>3 DEF Records
<1>5. ASSUME NEW e \in S PROVE Record(e, how[e]) \in Outs /\ Record(e, how[e]).event = e
  BY DEF Record, Outs, Readable
<1>6. PICK rs : rs = Records(how)
  OBVIOUS
<1>7. \A i \in 1..n : q[i] \in S /\ rs[i] = Record(q[i], how[q[i]])
  BY <1>3, <1>4, <1>6
<1>8. rs \in Seq(Outs) /\ Len(rs) = n
  <2>1. rs = [i \in 1..n |-> rs[i]] /\ \A i \in 1..n : rs[i] \in Outs
    BY <1>4, <1>5, <1>6, <1>7
  <2>2. rs \in [1..n -> Outs]
    BY <2>1
  <2> QED BY <1>1, <2>2
<1>9. Ascending(rs)
  <2>1. \A i \in 1..n : rs[i].event = q[i]
    BY <1>5, <1>7
  <2> QED BY <1>3, <1>8, <2>1 DEF Ascending
<1>10. Lists(rs, how)
  BY <1>3, <1>7, <1>8 DEF Lists
<1> QED BY <1>6, <1>8, <1>9, <1>10

(* SlidingOnce of any publications *)
Once(q) ==
    \A i, j \in DOMAIN q :
        i < j /\ q[j].how \in News /\ q[i].event >= q[j].event
            => \E k \in 1..(j - 1) : q[k].event = q[j].event /\ ~q[k].plain

LEMMA OnceAppended ==
    ASSUME NEW q \in Seq(Outs), NEW rs \in Seq(Outs), Once(q), Ascending(rs),
           \A j \in 1..Len(rs) : rs[j].how \in News =>
                \/ \E k \in DOMAIN q : q[k].event = rs[j].event /\ ~q[k].plain
                \/ \A k \in DOMAIN q : q[k].event < rs[j].event
    PROVE  Once(q \o rs)
<1> DEFINE p == q \o rs
<1>1. /\ Len(q) \in Nat /\ Len(rs) \in Nat /\ p \in Seq(Outs) /\ Len(p) = Len(q) + Len(rs)
      /\ \A i \in 1..Len(q) : p[i] = q[i]
      /\ \A i \in 1..Len(rs) : p[Len(q) + i] = rs[i]
      /\ DOMAIN q = 1..Len(q) /\ DOMAIN p = 1..Len(p)
  OBVIOUS
<1>2. \A i \in 1..Len(q) : q[i].event \in Nat
  <2>1. \A i \in 1..Len(q) : q[i] \in Outs
    BY ElementOfSeq
  <2> QED BY <2>1 DEF Outs
<1>3. \A i \in 1..Len(rs) : rs[i].event \in Nat
  <2>1. \A i \in 1..Len(rs) : rs[i] \in Outs
    BY ElementOfSeq
  <2> QED BY <2>1 DEF Outs
<1> HIDE DEF p
<1> SUFFICES ASSUME NEW i \in 1..Len(p), NEW j \in 1..Len(p), i < j, p[j].how \in News,
                    p[i].event >= p[j].event
             PROVE  \E k \in 1..(j - 1) : p[k].event = p[j].event /\ ~p[k].plain
  BY <1>1 DEF Once, p
<1>4. CASE j \in 1..Len(q)
  <2>1. i \in 1..Len(q) /\ p[i] = q[i] /\ p[j] = q[j]
    BY <1>1, <1>4
  <2>2. PICK k \in 1..(j - 1) : q[k].event = q[j].event /\ ~q[k].plain
    BY <1>1, <1>4, <2>1 DEF Once
  <2>3. k \in 1..Len(q)
    BY <1>1, <1>4
  <2> QED BY <1>1, <2>1, <2>2, <2>3
<1>5. CASE j \notin 1..Len(q)
  <2>1. PICK n \in 1..Len(rs) : j = Len(q) + n
    <3>1. PICK a \in Nat : a = Len(q)
      BY <1>1
    <3>2. PICK b \in Nat : b = Len(rs)
      BY <1>1
    <3>3. j \in 1..(a + b) /\ j \notin 1..a
      BY <1>1, <1>5, <3>1, <3>2
    <3>4. j - a \in 1..b /\ j = a + (j - a)
      BY <3>3
    <3> QED BY <3>1, <3>2, <3>4
  <2>2. p[j] = rs[n]
    BY <1>1, <2>1
  <2>3. CASE \E k \in DOMAIN q : q[k].event = rs[n].event /\ ~q[k].plain
    BY <1>1, <2>1, <2>2, <2>3, SMTT(30)
  <2>4. CASE \A k \in DOMAIN q : q[k].event < rs[n].event
    <3>1. CASE i \in 1..Len(q)
      <4>1. p[i].event = q[i].event /\ q[i].event \in Nat /\ rs[n].event \in Nat
        BY <1>1, <1>2, <1>3, <3>1
      <4>2. q[i].event < rs[n].event
        BY <1>1, <2>4, <3>1
      <4> QED BY <2>2, <4>1, <4>2
    <3>2. CASE i \notin 1..Len(q)
      <4>1. PICK m \in 1..Len(rs) : i = Len(q) + m
        <5>1. PICK a \in Nat : a = Len(q)
          BY <1>1
        <5>2. PICK b \in Nat : b = Len(rs)
          BY <1>1
        <5>3. i \in 1..(a + b) /\ i \notin 1..a
          BY <1>1, <3>2, <5>1, <5>2
        <5>4. i - a \in 1..b /\ i = a + (i - a)
          BY <5>3
        <5> QED BY <5>1, <5>2, <5>4
      <4>2. p[i] = rs[m] /\ m < n
        BY <1>1, <2>1, <4>1
      <4> QED BY <1>3, <2>2, <4>2 DEF Ascending
    <3> QED BY <3>1, <3>2
  <2> QED BY <2>2, <2>3, <2>4
<1> QED BY <1>4, <1>5

Lost == [event |-> 0, how |-> "loss", plain |-> TRUE]

LEMMA LossAppended ==
    ASSUME NEW q \in Seq(Outs), Once(q)
    PROVE  Once(q \o <<Lost>>) /\ Append(q, Lost) = q \o <<Lost>> /\ <<Lost>> \in Seq(Outs)
<1>1. Lost \in Outs /\ Lost.how \notin News
  BY DEF Lost, Outs, News
<1>2. PICK rs : rs = <<Lost>>
  OBVIOUS
<1>3. rs \in Seq(Outs) /\ Len(rs) = 1 /\ rs[1] = Lost
  BY <1>1, <1>2
<1>4. Ascending(rs)
  BY <1>3 DEF Ascending
<1>5. \A j \in 1..Len(rs) : rs[j].how \notin News
  BY <1>1, <1>3
<1>6. Once(q \o rs)
  BY <1>3, <1>4, <1>5, OnceAppended
<1> QED BY <1>1, <1>2, <1>3, <1>6

-----------------------------------------------------------------------------
(* Largest and least events *)

LEMMA MaxRight ==
    ASSUME NEW S \in SUBSET Nat, NEW n \in Nat, S # {}, \A x \in S : x <= n
    PROVE  Max(S) \in S /\ \A x \in S : x <= Max(S)
<1>1. \E x \in S : \A y \in S : x >= y
  BY LargestNatural
<1> QED BY <1>1 DEF Max

LEMMA MinRight ==
    ASSUME NEW S \in SUBSET Nat, S # {}
    PROVE  Min(S) \in S /\ \A x \in S : Min(S) <= x
<1>1. \E x \in S : \A y \in S : x <= y
  BY LeastNatural
<1> QED BY <1>1 DEF Min

LEMMA ProofType ==
    ASSUME NEW n \in Nat
    PROVE  ProofAt(n) \in Nat
<1>1. PICK S : S = {0} \cup Profiles(1..n)
  OBVIOUS
<1>2. S \in SUBSET Nat /\ S # {} /\ \A x \in S : x <= n
  BY <1>1 DEF Profiles
<1>3. Max(S) \in S
  BY <1>2, MaxRight
<1> QED BY <1>1, <1>2, <1>3 DEF ProofAt

-----------------------------------------------------------------------------
(* The invariant *)

Shown(e) == \E k \in DOMAIN out : out[k].event = e
ShownUnread(e) == \E k \in DOMAIN out : out[k].event = e /\ ~out[k].plain
AsNews(e) == \E k \in DOMAIN out : out[k].event = e /\ out[k].how \in News

Captured == input # None /\ input.phase = "captured"
Planned == input # None /\ input.phase \in {"recover", "tail"}

SlidingTypes ==
    /\ timeline \in Seq(EventKinds) /\ handled \in 0..Size /\ promised \in Nat
    /\ windowSize \in WindowSizes /\ out \in Seq(Outs) /\ keyHere \in BOOLEAN
    /\ input # None => input \in Inputs

(* Recovery is ahead of what was handled. *)
Reach == IF Planned /\ input.recovered /\ input.from > handled THEN input.from ELSE handled

(* Only events of the room so far are published; what was published in     *)
(* full is readable.                                                       *)
OutOK ==
    \A k \in DOMAIN out :
        /\ out[k].event \in 0..Reach
        /\ out[k].event # 0 /\ out[k].plain => Readable(out[k].event)

(* What is held names published events; after its token everything that    *)
(* was handled is named or was published unreadable, and its window starts *)
(* after the token.                                                        *)
HeldOK ==
    held # None =>
        /\ held.ids \subseteq 1..handled /\ held.window \subseteq 1..handled
        /\ \A e \in held.ids : Shown(e)
        /\ held.token # None =>
            /\ held.token \in 0..handled
            /\ \A e \in (held.token + 1)..handled : e \in held.ids \/ ShownUnread(e)
            /\ \A e \in held.window : held.token < e
            /\ held.window = {} => held.token = 0

(* The connection stands where the source does, or starts anew. *)
PosOK ==
    /\ pos # None => pos = handled
    /\ requesting => input = None
    /\ ~Planned /\ baseline # TRUE => pos = None
    /\ (Captured \/ Planned) /\ acceptedGeneration # generation => pos = None

WindowOK ==
    Captured \/ Planned =>
        LET room == input.room
        IN  /\ room.first \in 1..(room.last + 1) /\ room.last \in handled..Size
            /\ room.last < room.first => room.last = 0
            /\ room.prev # None => room.prev = room.first - 1
            /\ room.live = IF room.initial THEN 0 ELSE room.last - room.first + 1
            /\ ~room.initial => handled < room.first
            /\ ~Gap(room) => room.first = handled + 1
            /\ Captured /\ baseline # TRUE => room.initial

(* What is planned continues what is held, and recovery has published all  *)
(* it has passed.                                                          *)
PlanOK ==
    Planned =>
        LET room == input.room
        IN  /\ HeldIds \subseteq input.applied
            /\ \A e \in input.applied : e \in room.first..room.last => e \in HeldIds
            /\ input.prefix = HistoryPrefix(room)
            /\ input.recovered => /\ held # None /\ held.token # None /\ room.prev # None
                                  /\ Gap(room) /\ input.from \in Nat
                                  /\ input.from <= handled \/ input.from < room.first
            /\ ~input.recovered /\ ~input.history => ~Gap(room)
            /\ input.phase = "tail" /\ input.history => room.last <= promised
            /\ input.phase = "tail" /\ ~input.history =>
                    \A e \in (handled + 1)..(room.first - 1) : AsNews(e)
            /\ input.phase = "recover" =>
                    /\ ~input.history /\ input.recovered /\ held.token <= input.from
                    /\ \A e \in (handled + 1)..input.from : AsNews(e)
                    /\ \A e \in input.applied : e <= handled \/ e <= input.from

SlidingInv ==
    SlidingTypes /\ OutOK /\ HeldOK /\ PosOK /\ WindowOK /\ PlanOK /\ SlidingExact

LEMMA SlidingStart == SlidingInit => SlidingInv
<1> SUFFICES ASSUME SlidingInit PROVE SlidingInv
  OBVIOUS
<1> USE DEF SlidingInit
<1>1. SlidingTypes
  <2>1. windowSize \in WindowSizes
    <3>1. WindowSizes \in SUBSET Nat /\ WindowSizes # {}
      BY SlidingAssumption
    <3> QED BY <3>1, MinRight
  <2>2. timeline \in Seq(EventKinds) /\ out \in Seq(Outs) /\ Len(timeline) = 0
    OBVIOUS
  <2>3. handled \in 0..0 /\ promised \in Nat
    OBVIOUS
  <2>4. keyHere \in BOOLEAN /\ input = None
    BY Zenon
  <2> QED BY <2>1, <2>2, <2>3, <2>4 DEF SlidingTypes, Size
<1>2. DOMAIN out = {}
  OBVIOUS
<1>3. OutOK /\ HeldOK /\ PosOK /\ WindowOK /\ PlanOK
  BY <1>2 DEF OutOK, HeldOK, PosOK, WindowOK, PlanOK, Captured, Planned
<1>4. SlidingExact
  BY <1>2 DEF SlidingExact, SlidingOnce, SlidingNoSilentGap
<1> QED BY <1>1, <1>3, <1>4 DEF SlidingInv

LEMMA ExactKept ==
    ASSUME SlidingExact, UNCHANGED <<out, handled, promised>>
    PROVE  SlidingExact'
  BY DEF SlidingExact, SlidingOnce, SlidingNoSilentGap

(* A step that moves the connection only. *)
LEMMA ConnectionKeeps ==
    ASSUME SlidingInv, UNCHANGED <<timeline, keyHere, input, held, baseline, out, handled, promised>>,
           windowSize' \in WindowSizes, pos' \in {pos, None}, requesting' => input = None,
           pos' = None \/ UNCHANGED <<generation, acceptedGeneration>>
    PROVE  SlidingInv'
<1> USE DEF SlidingInv
<1>1. SlidingTypes' /\ OutOK'
  BY DEF SlidingTypes, Size, OutOK, Reach, Planned, Readable
<1>2. HeldOK'
  BY DEF HeldOK, Shown, ShownUnread
<1>3. PosOK'
  BY DEF PosOK, Captured, Planned
<1>4. WindowOK'
  BY DEF WindowOK, Captured, Planned, Size, Gap
<1>5. PlanOK'
  BY DEF PlanOK, Planned, HeldIds, HistoryPrefix, Gap, AsNews
<1> QED BY <1>1, <1>2, <1>3, <1>4, <1>5, ExactKept

LEMMA ReachBounded ==
    ASSUME SlidingTypes, WindowOK, PlanOK
    PROVE  Reach \in handled..Size
<1>1. handled \in Nat /\ Size \in Nat /\ handled <= Size
  BY DEF SlidingTypes, Size
<1>2. CASE Planned /\ input.recovered /\ input.from > handled
  <2>1. /\ input.room.first \in 1..(input.room.last + 1) /\ input.room.last \in handled..Size
        /\ input.from \in Nat /\ input.from < input.room.first
    BY <1>1, <1>2 DEF PlanOK, WindowOK
  <2>2. PICK n \in Nat : n = input.from
    BY <2>1
  <2>3. PICK m \in handled..Size : m = input.room.last
    BY <2>1
  <2>4. n \in handled..Size
    BY <1>1, <1>2, <2>1, <2>2, <2>3
  <2> QED BY <1>2, <2>2, <2>4 DEF Reach
<1>3. CASE ~(Planned /\ input.recovered /\ input.from > handled)
  BY <1>1, <1>3 DEF Reach
<1> QED BY <1>2, <1>3

(* Later events and the key leave what was published as it is. *)
LEMMA RoomGrows ==
    ASSUME SlidingInv, UNCHANGED <<sourceState, input, held, baseline, out, handled, promised>>,
           timeline' \in Seq(EventKinds), Size <= Size', keyHere' \in BOOLEAN,
           \A e \in 1..Size : Readable(e) => Readable(e)'
    PROVE  SlidingInv'
<1> USE DEF SlidingInv
<1>1. Size \in Nat /\ Size' \in Nat /\ handled \in 0..Size
  BY DEF SlidingTypes, Size
<1>2. SlidingTypes'
  BY <1>1 DEF SlidingTypes, sourceState
<1>3. Reach' = Reach
  BY DEF Reach, Planned
<1>4. OutOK'
  <2>1. Reach <= Size /\ Reach \in Nat
    BY <1>1, ReachBounded
  <2>2. ASSUME NEW k \in DOMAIN out
        PROVE  /\ out[k].event \in 0..Reach
               /\ out[k].event # 0 /\ out[k].plain => Readable(out[k].event)'
    <3>1. /\ out[k].event \in 0..Reach
          /\ out[k].event # 0 /\ out[k].plain => Readable(out[k].event)
      BY DEF OutOK
    <3>2. out[k].event # 0 => out[k].event \in 1..Size
      BY <1>1, <2>1, <3>1
    <3> QED BY <3>1, <3>2
  <2> QED BY <1>3, <2>2 DEF OutOK
<1>5. HeldOK'
  BY DEF HeldOK, Shown, ShownUnread
<1>6. PosOK'
  BY DEF PosOK, Captured, Planned, sourceState
<1>7. WindowOK'
  <2>1. ASSUME NEW n \in handled..Size PROVE n \in handled'..Size'
    BY <1>1
  <2>2. CASE Captured \/ Planned
    <3>1. input.room.last \in handled'..Size'
      BY <2>1, <2>2 DEF WindowOK
    <3> QED BY <2>2, <3>1 DEF WindowOK, Captured, Planned, Gap
  <2>3. CASE ~(Captured \/ Planned)
    BY <2>3 DEF WindowOK, Captured, Planned
  <2> QED BY <2>2, <2>3
<1>8. PlanOK'
  BY DEF PlanOK, Planned, HeldIds, HistoryPrefix, Gap, AsNews
<1> QED BY <1>2, <1>4, <1>5, <1>6, <1>7, <1>8, ExactKept

LEMMA QuietStepsKeep ==
    ASSUME SlidingInv,
           \/ \E k \in EventKinds : EventSent(k)
           \/ \E n \in WindowSizes : UpdateSlidingSubscriptions(n)
           \/ KeyReceived \/ Poll \/ UnknownPosition \/ RestartSession
           \/ UNCHANGED slidingVars
    PROVE  SlidingInv'
<1>1. CASE \E k \in EventKinds : EventSent(k)
  <2>1. PICK k \in EventKinds : EventSent(k)
    BY <1>1
  <2>2. /\ timeline \in Seq(EventKinds) /\ timeline' = Append(timeline, k)
        /\ keyHere' = keyHere /\ keyHere \in BOOLEAN
    BY <2>1 DEF EventSent, SlidingInv, SlidingTypes
  <2>3. timeline' \in Seq(EventKinds) /\ Size <= Size' /\ \A e \in 1..Size : timeline'[e] = timeline[e]
    BY <2>2 DEF Size
  <2>4. ASSUME NEW e \in 1..Size, Readable(e) PROVE Readable(e)'
    BY <2>2, <2>3, <2>4 DEF Readable
  <2>5. UNCHANGED <<sourceState, input, held, baseline, out, handled, promised>>
    BY <2>1 DEF EventSent, roomState
  <2> QED BY <2>2, <2>3, <2>4, <2>5, RoomGrows
<1>2. CASE KeyReceived
  BY <1>2, RoomGrows DEF KeyReceived, SlidingInv, SlidingTypes, Readable, Size, roomState
<1>3. CASE Poll
  BY <1>3, ConnectionKeeps DEF Poll, roomState, SlidingInv, SlidingTypes
<1>4. CASE \E n \in WindowSizes : UpdateSlidingSubscriptions(n)
  BY <1>4, ConnectionKeeps DEF UpdateSlidingSubscriptions, roomState
<1>5. CASE UnknownPosition
  BY <1>5, ConnectionKeeps DEF UnknownPosition, roomState, SlidingInv, SlidingTypes
<1>6. CASE RestartSession
  BY <1>6, ConnectionKeeps DEF RestartSession, roomState, SlidingInv, SlidingTypes
<1>7. CASE UNCHANGED slidingVars
  BY <1>7, ConnectionKeeps DEF slidingVars, SlidingInv, SlidingTypes, PosOK
<1> QED BY <1>1, <1>2, <1>3, <1>4, <1>5, <1>6, <1>7

LEMMA FinishKeeps ==
    ASSUME SlidingInv, FinishInput
    PROVE  SlidingInv'
<1> USE DEF SlidingInv, FinishInput, sourceState, roomState
<1>1. ~Planned /\ ~Captured /\ input' = None /\ ~Planned' /\ ~Captured'
  BY DEF Planned, Captured
<1>2. SlidingTypes' /\ OutOK'
  BY <1>1 DEF SlidingTypes, Size, OutOK, Reach, Readable
<1>3. HeldOK'
  BY DEF HeldOK, Shown, ShownUnread
<1>4. PosOK' /\ WindowOK' /\ PlanOK'
  BY <1>1 DEF PosOK, WindowOK, PlanOK
<1> QED BY <1>2, <1>3, <1>4, ExactKept

LEMMA WindowStarts ==
    ASSUME SlidingInv, pos # None => Size > pos /\ pos = handled
    PROVE  /\ WindowStart \in 1..(Size + 1)
           /\ Size < WindowStart => Size = 0
           /\ pos # None => WindowStart \in (handled + 1)..Size
<1>1. PICK n \in Nat : n = Size
  BY DEF SlidingInv, SlidingTypes, Size
<1>2. PICK h \in Nat : h = handled /\ h <= n
  BY <1>1 DEF SlidingInv, SlidingTypes
<1>3. PICK w \in Nat : w = windowSize /\ w # 0
  BY SlidingAssumption DEF SlidingInv, SlidingTypes
<1>4. PICK a \in Nat : a = IF pos = None THEN 1 ELSE pos + 1
  BY <1>2
<1>5. a >= 1 /\ (pos = None => a = 1) /\ (pos # None => a = h + 1 /\ h < n)
  BY <1>1, <1>2, <1>4
<1>6. PICK b \in Nat : b = (IF n < w THEN 1 ELSE n - w + 1) /\ b >= 1 /\ (b <= n \/ b = 1)
  <2>1. CASE n < w
    BY <2>1
  <2>2. CASE ~(n < w)
    <3>1. n - w + 1 \in Nat /\ n - w + 1 >= 1 /\ n - w + 1 <= n
      BY <1>3, <2>2
    <3> QED BY <2>2, <3>1
  <2> QED BY <2>1, <2>2
<1>7. {a, b} \in SUBSET Nat /\ {a, b} # {} /\ \A x \in {a, b} : x <= n + 1
  BY <1>5, <1>6
<1>8. Max({a, b}) \in {a, b} /\ \A x \in {a, b} : x <= Max({a, b})
  BY <1>7, MaxRight
<1>9. WindowStart = Max({a, b})
  BY <1>1, <1>3, <1>4, <1>6 DEF WindowStart
<1>10. PICK m \in Nat : m = WindowStart /\ (m = a \/ m = b) /\ a <= m /\ b <= m
  BY <1>8, <1>9
<1>11. m \in 1..(n + 1) /\ (n < m => n = 0) /\ (pos # None => m \in (h + 1)..n)
  BY <1>5, <1>6, <1>10
<1> QED BY <1>1, <1>2, <1>10, <1>11

LEMMA ReceiveKeeps ==
    ASSUME SlidingInv, NEW previous, ReceiveWindow(previous)
    PROVE  SlidingInv'
<1> USE DEF SlidingInv, ReceiveWindow, roomState
<1>1. input = None /\ ~Planned /\ ~Captured /\ ~Planned'
  BY DEF PosOK, Captured, Planned
<1>2. (pos # None => Size > pos /\ pos = handled) /\ (baseline # TRUE => pos = None)
  BY <1>1 DEF PosOK
<1>3. PICK n \in Nat : n = Size /\ n = Size'
  BY DEF SlidingTypes, Size
<1>4. PICK f \in Nat : /\ f = WindowStart /\ f \in 1..(n + 1) /\ (n < f => n = 0)
                       /\ pos # None => f \in (handled + 1)..n
  <2>1. /\ WindowStart \in 1..(Size + 1)
        /\ Size < WindowStart => Size = 0
        /\ pos # None => WindowStart \in (handled + 1)..Size
    BY <1>2, WindowStarts
  <2>2. WindowStart \in Nat
    BY <1>3, <2>1
  <2> QED BY <1>3, <2>1, <2>2
<1>5. PICK room : room = Window(f, previous)
  OBVIOUS
<1>6. handled \in 0..n /\ previous \in {None, f - 1}
  BY <1>3, <1>4 DEF SlidingTypes
<1>7. /\ room.first = f /\ room.last = n /\ room.prev = previous
      /\ room.initial = (pos = None)
      /\ room.limited = (IF pos = None THEN f > 1 ELSE f > pos + 1)
      /\ room.live = (IF pos = None THEN 0 ELSE n - f + 1)
      /\ room.state = (IF pos = None THEN {ProofAt(n)} ELSE Profiles((pos + 1)..n))
      /\ room = [first |-> room.first, last |-> room.last, initial |-> room.initial,
                 limited |-> room.limited, live |-> room.live, prev |-> room.prev, state |-> room.state]
  BY <1>3, <1>5 DEF Window
<1>8. room \in Windows
  <2>1. room.first \in Nat /\ room.last \in Nat /\ room.prev \in Nat \cup {None}
    BY <1>4, <1>6, <1>7
  <2>2. room.initial \in BOOLEAN /\ room.limited \in BOOLEAN
    <3>1. room.initial \in BOOLEAN
      BY <1>7
    <3>2. CASE pos = None
      BY <1>7, <3>1, <3>2
    <3>3. CASE pos # None
      BY <1>7, <3>1, <3>3
    <3> QED BY <3>2, <3>3
  <2>3. room.live \in Nat
    BY <1>4, <1>7
  <2>4. room.state \in SUBSET Nat
    <3>1. CASE pos = None
      BY <1>7, <3>1, ProofType
    <3>2. CASE pos # None
      BY <1>2, <1>6, <1>7, <3>2 DEF Profiles
    <3> QED BY <3>1, <3>2
  <2> QED BY <1>7, <2>1, <2>2, <2>3, <2>4 DEF Windows
<1>9. /\ input' = [room |-> room, phase |-> "captured", from |-> None, recovered |-> FALSE,
                   history |-> FALSE, prefix |-> 0, applied |-> {}]
      /\ input'.room = room
  BY <1>4, <1>5
<1>10. input' \in Inputs
  BY <1>8, <1>9 DEF Inputs
<1>11. SlidingTypes'
  BY <1>10 DEF SlidingTypes, Size
<1>12. OutOK' /\ HeldOK'
  BY <1>1 DEF OutOK, Reach, Readable, HeldOK, Shown, ShownUnread
<1>13. PosOK'
  BY <1>1, <1>2 DEF PosOK, Captured
<1>14. WindowOK'
  <2>1. /\ room.first \in 1..(room.last + 1) /\ room.last \in handled'..Size'
        /\ room.last < room.first => room.last = 0
        /\ room.prev # None => room.prev = room.first - 1
    BY <1>3, <1>4, <1>6, <1>7
  <2>2. /\ room.live = IF room.initial THEN 0 ELSE room.last - room.first + 1
        /\ baseline' # TRUE => room.initial
    BY <1>2, <1>7
  <2>3. /\ ~room.initial => handled' < room.first
        /\ ~Gap(room) => room.first = handled' + 1
    <3>1. CASE pos = None
      BY <1>7, <3>1 DEF Gap
    <3>2. CASE pos # None
      <4>1. pos = handled /\ f \in (handled + 1)..n /\ (room.limited <=> f > pos + 1)
        BY <1>2, <1>4, <1>7, <3>2
      <4>2. f # handled + 1 => room.limited
        BY <1>6, <4>1
      <4> QED BY <1>6, <1>7, <4>1, <4>2 DEF Gap
    <3> QED BY <3>1, <3>2
  <2> QED BY <1>9, <2>1, <2>2, <2>3 DEF WindowOK
<1>15. PlanOK'
  BY <1>1 DEF PlanOK
<1> QED BY <1>11, <1>12, <1>13, <1>14, <1>15, ExactKept

Stays ==
    \A e \in Nat :
        /\ Shown(e) => Shown(e)'
        /\ ShownUnread(e) => ShownUnread(e)'
        /\ AsNews(e) => AsNews(e)'

(* What is published stays published. *)
LEMMA PublishedStays ==
    ASSUME out \in Seq(Outs), NEW rs \in Seq(Outs), out' = out \o rs
    PROVE  /\ out' \in Seq(Outs)
           /\ \A k \in DOMAIN out : k \in DOMAIN out' /\ out'[k] = out[k]
           /\ \A k \in 1..Len(rs) : \E j \in DOMAIN out' : out'[j] = rs[k]
           /\ \A j \in DOMAIN out' :
                  (j \in DOMAIN out /\ out'[j] = out[j]) \/ \E k \in 1..Len(rs) : out'[j] = rs[k]
           /\ Stays
<1>1. PICK n \in Nat : n = Len(out)
  OBVIOUS
<1>2. PICK m \in Nat : m = Len(rs)
  OBVIOUS
<1>3. /\ out' \in Seq(Outs) /\ DOMAIN out = 1..n /\ DOMAIN out' = 1..(n + m)
      /\ \A k \in 1..n : out'[k] = out[k]
      /\ \A k \in 1..m : out'[n + k] = rs[k]
  BY <1>1, <1>2
<1>4. \A k \in DOMAIN out : k \in DOMAIN out' /\ out'[k] = out[k]
  BY <1>3
<1>5. ASSUME NEW k \in 1..Len(rs) PROVE \E j \in DOMAIN out' : out'[j] = rs[k]
  <2>1. n + k \in DOMAIN out'
    BY <1>2, <1>3
  <2> QED BY <1>2, <1>3, <2>1
<1>6. ASSUME NEW j \in DOMAIN out', j \notin DOMAIN out PROVE \E k \in 1..Len(rs) : out'[j] = rs[k]
  <2>1. j - n \in 1..m /\ j = n + (j - n)
    BY <1>3, <1>6
  <2> QED BY <1>2, <1>3, <2>1
<1>7. ASSUME NEW e \in Nat
      PROVE  /\ Shown(e) => Shown(e)'
             /\ ShownUnread(e) => ShownUnread(e)'
             /\ AsNews(e) => AsNews(e)'
  BY <1>4 DEF Shown, ShownUnread, AsNews
<1>8. \A j \in DOMAIN out' :
          (j \in DOMAIN out /\ out'[j] = out[j]) \/ \E k \in 1..Len(rs) : out'[j] = rs[k]
  BY <1>4, <1>6
<1>9. Stays
  BY <1>7 DEF Stays
<1> QED BY <1>3, <1>4, <1>5, <1>8, <1>9

LEMMA HeldKept ==
    ASSUME HeldOK, UNCHANGED <<held, handled>>, handled \in Nat, Stays
    PROVE  HeldOK'
<1>1. CASE held # None
  <2>1. ASSUME NEW e \in held.ids PROVE Shown(e)'
    <3>1. e \in Nat /\ Shown(e)
      BY <1>1 DEF HeldOK
    <3> QED BY <3>1 DEF Stays
  <2>2. ASSUME held.token # None, NEW e \in (held.token + 1)..handled
        PROVE  e \in held.ids \/ ShownUnread(e)'
    <3>1. held.token \in Nat /\ (e \in held.ids \/ ShownUnread(e))
      BY <1>1, <2>2 DEF HeldOK
    <3>2. e \in Nat
      BY <3>1
    <3> QED BY <3>1, <3>2 DEF Stays
  <2> QED BY <1>1, <2>1, <2>2 DEF HeldOK
<1>2. CASE held = None
  BY <1>2 DEF HeldOK
<1> QED BY <1>1, <1>2

(* A loss promises nothing before the window. *)
LEMMA NoGapKept ==
    ASSUME handled \in Nat, promised \in Nat, promised' \in Nat,
           SlidingNoSilentGap, handled' = handled, promised' = promised \/ promised' >= handled,
           Stays
    PROVE  SlidingNoSilentGap'
<1>1. CASE promised' = promised
  <2>1. ASSUME NEW e \in (promised + 1)..handled PROVE AsNews(e)'
    <3>1. e \in Nat /\ AsNews(e)
      BY DEF SlidingNoSilentGap, AsNews
    <3> QED BY <3>1 DEF Stays
  <2> QED BY <1>1, <2>1 DEF SlidingNoSilentGap, AsNews
<1>2. CASE promised' >= handled
  <2>1. PICK p \in Nat : p = promised' /\ p >= handled
    BY <1>2
  <2>2. PICK h \in Nat : h = handled' /\ h <= p
    BY <2>1
  <2>3. ASSUME NEW e \in (p + 1)..h PROVE FALSE
    BY <2>2
  <2> QED BY <2>1, <2>2, <2>3 DEF SlidingNoSilentGap
<1> QED BY <1>1, <1>2

LEMMA OnceIs == (SlidingOnce <=> Once(out)) /\ (SlidingOnce' <=> Once(out'))
  BY DEF SlidingOnce, Once

(* how many events come before the window that was known *)
LEMMA PrefixRight ==
    ASSUME NEW room \in Windows, HeldOK, handled \in Nat
    PROVE  /\ HistoryPrefix(room) \in Nat
           /\ \A w \in room.first..room.last :
                  held # None /\ w \in held.window => room.first + HistoryPrefix(room) \in held.window
           /\ HistoryPrefix(room) # 0 =>
                  held # None /\ room.first + HistoryPrefix(room) \in held.window \cap room.first..room.last
<1> DEFINE observed == {e \in room.first..room.last : held # None /\ e \in held.window}
<1>1. PICK f \in Nat : f = room.first
  BY DEF Windows
<1>2. PICK l \in Nat : l = room.last
  BY DEF Windows
<1>3. observed \in SUBSET Nat
  BY <1>1, <1>2
<1>4. CASE observed = {}
  <2>1. HistoryPrefix(room) = 0
    BY <1>4 DEF HistoryPrefix
  <2> QED BY <1>4, <2>1
<1>5. CASE observed # {}
  <2>1. Min(observed) \in observed /\ \A x \in observed : Min(observed) <= x
    BY <1>3, <1>5, MinRight
  <2>2. PICK m \in Nat : m = Min(observed) /\ f <= m
    <3>1. \A x \in observed : x \in Nat /\ f <= x
      BY <1>1, <1>2
    <3> QED BY <2>1, <3>1
  <2>3. HistoryPrefix(room) = m - f
    BY <1>1, <1>5, <2>2 DEF HistoryPrefix
  <2>4. HistoryPrefix(room) \in Nat /\ room.first + HistoryPrefix(room) = m
    BY <1>1, <2>2, <2>3
  <2>5. \A w \in room.first..room.last : held # None /\ w \in held.window => w \in observed
    OBVIOUS
  <2>6. m \in room.first..room.last /\ held # None /\ m \in held.window
    BY <2>1, <2>2
  <2> HIDE DEF observed
  <2> QED BY <2>1, <2>2, <2>4, <2>5, <2>6
<1> QED BY <1>4, <1>5

LEMMA PlanKeeps ==
    ASSUME SlidingInv, Plan
    PROVE  SlidingInv'
<1> USE DEF SlidingInv
<1>1. Captured /\ ~Planned /\ input \in Inputs /\ input.phase = "captured"
  BY DEF Plan, Captured, Planned, SlidingTypes
<1>2. PICK room \in Windows : room = input.room
  BY <1>1 DEF Inputs
<1>3. PICK history : history = (IF Gap(room) THEN ~Recoverable(room) ELSE baseline # TRUE)
  OBVIOUS
<1>4. PICK loss : loss = (Gap(room) /\ history /\ baseline # None)
  OBVIOUS
<1>5. /\ input' = [input EXCEPT
              !.phase = IF Recoverable(room) THEN "recover" ELSE "tail",
              !.from = IF Recoverable(room) THEN held.token ELSE None,
              !.recovered = Recoverable(room), !.history = history,
              !.prefix = HistoryPrefix(room), !.applied = HeldIds]
      /\ out' = IF loss THEN Append(out, Lost) ELSE out
      /\ promised' = IF loss \/ (history /\ baseline = None) THEN room.last ELSE promised
      /\ UNCHANGED <<timeline, keyHere, sourceState, held, handled>>
  BY <1>2, <1>3, <1>4 DEF Plan, Lost
<1>6. /\ handled \in Nat /\ Size \in Nat /\ handled <= Size /\ promised \in Nat
      /\ out \in Seq(Outs)
  BY DEF SlidingTypes, Size
<1>7. /\ room.first \in 1..(room.last + 1) /\ room.last \in handled..Size
      /\ ~Gap(room) => room.first = handled + 1
      /\ baseline # TRUE => room.initial
  BY <1>1, <1>2 DEF WindowOK
<1>8. HistoryPrefix(room) \in Nat
  BY <1>6, PrefixRight
<1>9. HeldIds \in SUBSET Nat /\ \A e \in HeldIds : e <= handled
  BY <1>6 DEF HeldIds, HeldOK
<1>10. Recoverable(room) => /\ held # None /\ held.token # None /\ room.prev # None
                            /\ Gap(room) /\ held.token \in Nat /\ held.token <= handled
  BY <1>6 DEF Recoverable, Continues, HeldOK
<1>11. /\ input'.room = room /\ input'.recovered = Recoverable(room) /\ input'.history = history
       /\ input'.prefix = HistoryPrefix(room) /\ input'.applied = HeldIds
       /\ input'.phase = (IF Recoverable(room) THEN "recover" ELSE "tail")
       /\ input'.from = (IF Recoverable(room) THEN held.token ELSE None)
       /\ input' = [room |-> room, phase |-> input'.phase, from |-> input'.from,
                    recovered |-> input'.recovered, history |-> input'.history,
                    prefix |-> input'.prefix, applied |-> input'.applied]
  BY <1>1, <1>2, <1>5 DEF Inputs
<1>12. input' \in Inputs
  <2>1. history \in BOOLEAN /\ Recoverable(room) \in BOOLEAN
    BY <1>3 DEF Recoverable
  <2>2. input'.from \in Nat \cup {None}
    BY <1>10, <1>11
  <2>3. input'.phase \in {"captured", "recover", "tail", "prepared"}
    BY <1>11
  <2>4. input'.recovered \in BOOLEAN /\ input'.history \in BOOLEAN
    BY <1>11, <2>1, Zenon
  <2> QED BY <1>8, <1>9, <1>11, <2>2, <2>3, <2>4 DEF Inputs
<1>13. input' # None /\ ~Captured' /\ Planned'
  BY <1>11, <1>12, SlidingAssumption DEF Captured, Planned
<1>14. Reach' = handled /\ Reach = handled
  <2>1. CASE Recoverable(room)
    BY <1>1, <1>5, <1>6, <1>10, <1>11, <2>1 DEF Reach
  <2>2. CASE ~Recoverable(room)
    BY <1>1, <1>5, <1>11, <2>2 DEF Reach
  <2> QED BY <2>1, <2>2
<1>15. PICK rs \in Seq(Outs) : /\ out' = out \o rs /\ Once(out \o rs)
                              /\ \A k \in 1..Len(rs) : rs[k].event = 0
  <2>1. Once(out)
    BY OnceIs DEF SlidingExact
  <2>2. CASE loss
    <3>1. PICK rs \in Seq(Outs) : /\ rs = <<Lost>> /\ Append(out, Lost) = out \o rs /\ Once(out \o rs)
      BY <1>6, <2>1, LossAppended
    <3>2. Len(rs) = 1 /\ rs[1].event = 0
      BY <3>1 DEF Lost
    <3>3. \A k \in 1..Len(rs) : rs[k].event = 0
      BY <3>2
    <3> QED BY <1>5, <2>2, <3>1, <3>3
  <2>3. CASE ~loss
    <3>1. PICK rs : rs = <<>>
      OBVIOUS
    <3>2. rs \in Seq(Outs)
      BY <3>1
    <3>3. out \o rs = out
      BY <1>6, <3>1
    <3>4. \A k \in 1..Len(rs) : rs[k].event = 0
      BY <3>1
    <3> QED BY <1>5, <2>1, <2>3, <3>2, <3>3, <3>4
  <2> QED BY <2>2, <2>3
<1>16. /\ out' \in Seq(Outs)
       /\ \A j \in DOMAIN out' : (j \in DOMAIN out /\ out'[j] = out[j]) \/ out'[j].event = 0
       /\ Stays
  <2>1. /\ out' \in Seq(Outs) /\ Stays
        /\ \A j \in DOMAIN out' :
               (j \in DOMAIN out /\ out'[j] = out[j]) \/ \E k \in 1..Len(rs) : out'[j] = rs[k]
    BY <1>6, <1>15, PublishedStays
  <2> QED BY <1>15, <2>1
<1>17. promised' \in Nat /\ (promised' = promised \/ promised' >= handled)
       /\ (loss \/ (history /\ baseline = None) => promised' = room.last)
  BY <1>5, <1>6, <1>7
<1>18. SlidingTypes'
  BY <1>5, <1>12, <1>16, <1>17 DEF SlidingTypes, Size, sourceState, Plan
<1>19. OutOK'
  BY <1>5, <1>6, <1>14, <1>16 DEF OutOK, Readable
<1>20. HeldOK'
  BY <1>5, <1>6, <1>16, HeldKept
<1>21. PosOK'
  <2>1. ~requesting
    BY <1>1 DEF PosOK, Captured
  <2> QED BY <1>1, <1>5, <1>13, <2>1 DEF PosOK, sourceState
<1>22. WindowOK'
  BY <1>1, <1>2, <1>5, <1>11, <1>13 DEF WindowOK, Gap, Size
<1>23. PlanOK'
  <2>1. HeldIds' = HeldIds /\ HistoryPrefix(room)' = HistoryPrefix(room) /\ handled' = handled /\ held' = held
    BY <1>5 DEF HeldIds, HistoryPrefix
  <2>2. Gap(room) => history = ~Recoverable(room)
    BY <1>3
  <2>3. input'.recovered <=> Recoverable(room)
    BY <1>11
  <2>4. input'.history <=> history
    BY <1>11
  <2>5. CASE Recoverable(room)
    <3>1. input'.recovered /\ ~input'.history /\ input'.phase = "recover" /\ input'.from = held.token
      BY <1>10, <1>11, <2>2, <2>3, <2>4, <2>5
    <3>2. PICK t \in Nat : t = held.token /\ t <= handled
      BY <1>10, <2>5
    <3>3. \A e \in (handled + 1)..t : FALSE
      BY <1>6, <3>2
    <3> QED BY <1>9, <1>10, <1>11, <2>1, <2>5, <3>1, <3>2, <3>3 DEF PlanOK
  <2>6. CASE ~Recoverable(room)
    <3>1. ~input'.recovered /\ input'.phase = "tail"
      BY <1>11, <2>3, <2>6
    <3>2. ~input'.history => ~Gap(room)
      BY <2>2, <2>4, <2>6
    <3>3. input'.history => room.last <= promised'
      <4>1. history => Gap(room)
        BY <1>3, <1>7 DEF Gap
      <4>2. history => promised' = room.last
        BY <1>4, <1>17, <4>1
      <4> QED BY <1>6, <1>7, <2>4, <4>2
    <3>4. ~input'.history => \A e \in (handled + 1)..(room.first - 1) : FALSE
      BY <1>6, <1>7, <3>2
    <3> QED BY <1>11, <2>1, <3>1, <3>2, <3>3, <3>4 DEF PlanOK
  <2> QED BY <2>5, <2>6
<1>24. SlidingExact'
  <2>1. SlidingOnce'
    BY <1>15, OnceIs
  <2>2. SlidingNoSilentGap'
    BY <1>5, <1>6, <1>16, <1>17, NoGapKept DEF SlidingExact
  <2> QED BY <2>1, <2>2 DEF SlidingExact
<1> QED BY <1>18, <1>19, <1>20, <1>21, <1>22, <1>23, <1>24

(* Records of new events are appended. *)
LEMMA Publishing ==
    ASSUME out \in Seq(Outs), Once(out), NEW S \in SUBSET Nat, IsFiniteSet(S),
           NEW how \in [S -> {"loss", "history", "live", "recovered"}], out' = out \o Records(how),
           \A e \in S : how[e] \in News => ShownUnread(e) \/ \A k \in DOMAIN out : out[k].event < e
    PROVE  /\ out' \in Seq(Outs) /\ Once(out') /\ Stays
           /\ \A e \in S : \E j \in DOMAIN out' : out'[j] = Record(e, how[e])
           /\ \A j \in DOMAIN out' :
                  (j \in DOMAIN out /\ out'[j] = out[j]) \/ \E e \in S : out'[j] = Record(e, how[e])
<1>1. PICK rs \in Seq(Outs) : rs = Records(how)
  BY RecordsRight
<1>2. Ascending(rs) /\ Lists(rs, how) /\ DOMAIN how = S
  BY <1>1, RecordsRight
<1>3. \A j \in 1..Len(rs) : \E e \in S : rs[j] = Record(e, how[e])
  BY <1>2 DEF Lists
<1>4. \A e \in S : Record(e, how[e]).event = e /\ Record(e, how[e]).how = how[e]
  BY DEF Record
<1>5. ASSUME NEW j \in 1..Len(rs), rs[j].how \in News
      PROVE  \/ \E k \in DOMAIN out : out[k].event = rs[j].event /\ ~out[k].plain
             \/ \A k \in DOMAIN out : out[k].event < rs[j].event
  <2>1. PICK e \in S : rs[j] = Record(e, how[e])
    BY <1>3
  <2>2. rs[j].event = e /\ how[e] \in News
    BY <1>4, <1>5, <2>1
  <2> QED BY <2>2 DEF ShownUnread
<1>6. Once(out \o rs)
  BY <1>2, <1>5, OnceAppended
<1>7. /\ out' \in Seq(Outs) /\ Stays
      /\ \A k \in 1..Len(rs) : \E j \in DOMAIN out' : out'[j] = rs[k]
      /\ \A j \in DOMAIN out' :
             (j \in DOMAIN out /\ out'[j] = out[j]) \/ \E k \in 1..Len(rs) : out'[j] = rs[k]
  BY <1>1, PublishedStays
<1>8. ASSUME NEW e \in S PROVE \E j \in DOMAIN out' : out'[j] = Record(e, how[e])
  <2>1. PICK k \in 1..Len(rs) : rs[k] = Record(e, how[e])
    BY <1>2 DEF Lists
  <2> QED BY <1>7, <2>1
<1>9. ASSUME NEW j \in DOMAIN out', ~(j \in DOMAIN out /\ out'[j] = out[j])
      PROVE  \E e \in S : out'[j] = Record(e, how[e])
  BY <1>3, <1>7, <1>9
<1> QED BY <1>1, <1>6, <1>7, <1>8, <1>9

LEMMA RecoverPageKeeps ==
    ASSUME SlidingInv, NEW end, RecoverPage(end)
    PROVE  SlidingInv'
<1> USE DEF SlidingInv
<1>1. Planned /\ ~Captured /\ input \in Inputs /\ input.phase = "recover"
  BY DEF RecoverPage, Captured, Planned, SlidingTypes
<1>2. PICK room \in Windows : room = input.room
  BY <1>1 DEF Inputs
<1>3. PICK h \in Nat : h = handled
  BY DEF SlidingTypes, Size
<1>4. PICK p \in Nat : p = room.prev /\ p = room.first - 1
  BY <1>1, <1>2 DEF PlanOK, WindowOK, Windows
<1>5. PICK a \in Nat : a = input.from /\ (a <= h \/ a < room.first)
  BY <1>1, <1>2, <1>3 DEF PlanOK
<1>6. PICK t \in Nat : t = held.token /\ held # None /\ held.token # None /\ t <= h /\ t <= a
  BY <1>1, <1>3, <1>5 DEF PlanOK, HeldOK
<1>7. PICK n \in Nat : n = end /\ n <= p /\ (a < p => n \in (a + 1)..p) /\ (p <= a => n = p)
  BY <1>2, <1>4, <1>5 DEF RecoverPage
<1>8. PICK f \in Nat : f = room.first /\ f = p + 1
  BY <1>4 DEF Windows
<1>9. PICK page \in SUBSET Nat : page = IF a >= p THEN {} ELSE (a + 1)..n
  <2>1. (a + 1)..n \in SUBSET Nat /\ {} \in SUBSET Nat
    OBVIOUS
  <2> QED BY <2>1
<1>10. PICK S \in SUBSET Nat : S = page \ (input.applied \cup (room.first..room.last))
  OBVIOUS
<1>11. IsFiniteSet(S)
  <2>1. IsFiniteSet((a + 1)..n)
    BY FS_Interval
  <2>2. IsFiniteSet(page)
    BY <1>9, <2>1, FS_EmptySet
  <2> QED BY <1>10, <2>2, FS_Subset
<1>12. PICK how \in [S -> {"loss", "history", "live", "recovered"}] : how = [e \in S |-> "recovered"]
  OBVIOUS
<1>13. /\ out' = out \o Records(how)
       /\ input' = [input EXCEPT !.phase = IF end = room.prev THEN "tail" ELSE "recover",
                                 !.from = end, !.applied = @ \cup S]
       /\ UNCHANGED <<timeline, keyHere, sourceState, held, baseline, handled, promised>>
  <2>1. page = IF input.from >= room.prev THEN {} ELSE (input.from + 1)..end
    BY <1>4, <1>5, <1>7, <1>9
  <2> QED BY <1>2, <1>10, <1>12, <2>1 DEF RecoverPage
<1>14. /\ input'.room = room /\ input'.recovered = input.recovered /\ input'.history = input.history
       /\ input'.prefix = input.prefix /\ input'.applied = input.applied \cup S
       /\ input'.phase = (IF n = p THEN "tail" ELSE "recover")
       /\ input'.from = n
       /\ input' = [room |-> room, phase |-> input'.phase, from |-> input'.from,
                    recovered |-> input'.recovered, history |-> input'.history,
                    prefix |-> input'.prefix, applied |-> input'.applied]
  BY <1>1, <1>2, <1>4, <1>7, <1>13 DEF Inputs
<1>15. /\ input.recovered /\ ~input.history /\ Gap(room)
       /\ HeldIds \subseteq input.applied
       /\ input.prefix = HistoryPrefix(room)
       /\ \A e \in (h + 1)..a : AsNews(e)
       /\ \A e \in input.applied : e <= h \/ e <= a
       /\ \A e \in input.applied : e \in room.first..room.last => e \in HeldIds
  BY <1>1, <1>2, <1>3, <1>5 DEF PlanOK
<1>16. /\ input.applied \in SUBSET Nat /\ input.recovered \in BOOLEAN /\ input.history \in BOOLEAN
       /\ input.prefix \in Nat
  BY <1>1 DEF Inputs
<1>17. input' \in Inputs
  <2>1. input'.phase \in {"captured", "recover", "tail", "prepared"}
    BY <1>14
  <2>2. input'.recovered \in BOOLEAN /\ input'.history \in BOOLEAN
    BY <1>14, <1>16
  <2>3. input'.applied \in SUBSET Nat /\ input'.from \in Nat /\ input'.prefix \in Nat
    BY <1>14, <1>16
  <2> QED BY <1>14, <2>1, <2>2, <2>3 DEF Inputs
<1>18. input' # None /\ ~Captured' /\ Planned'
  BY <1>14, <1>17, SlidingAssumption DEF Captured, Planned
<1>19. /\ Reach = (IF a > h THEN a ELSE h)
       /\ Reach' = (IF n > h THEN n ELSE h)
  <2>1. input'.recovered /\ handled' = handled
    BY <1>13, <1>14, <1>15
  <2> QED BY <1>1, <1>3, <1>5, <1>14, <1>15, <1>18, <2>1 DEF Reach
<1>20. Reach \in Nat /\ Reach' \in Nat /\ Reach <= Reach' /\ n <= Reach'
  BY <1>3, <1>5, <1>7, <1>8, <1>19
<1>21. \A e \in S : a < e /\ e <= n /\ e \notin input.applied
  BY <1>9, <1>10
<1>22. ASSUME NEW e \in S
       PROVE  ShownUnread(e) \/ \A k \in DOMAIN out : out[k].event < e
  <2>1. CASE e <= h
    <3>1. e \in (held.token + 1)..handled /\ e \notin held.ids
      BY <1>3, <1>6, <1>15, <1>21, <2>1 DEF HeldIds
    <3> QED BY <1>6, <3>1 DEF HeldOK
  <2>2. CASE ~(e <= h)
    <3>1. e \in Nat /\ a < e /\ h < e
      <4>1. e \in Nat
        OBVIOUS
      <4> QED BY <1>21, <2>2, <4>1
    <3>2. PICK r \in Nat : r = Reach /\ r < e
      BY <1>19, <3>1
    <3>3. ASSUME NEW k \in DOMAIN out PROVE out[k].event < e
      <4>1. out[k].event \in 0..r
        BY <3>2 DEF OutOK
      <4> QED BY <3>1, <3>2, <4>1
    <3> QED BY <3>3
  <2> QED BY <2>1, <2>2
<1>23. /\ out' \in Seq(Outs) /\ Once(out') /\ Stays
       /\ \A e \in S : \E j \in DOMAIN out' : out'[j] = Record(e, how[e])
       /\ \A j \in DOMAIN out' :
              (j \in DOMAIN out /\ out'[j] = out[j]) \/ \E e \in S : out'[j] = Record(e, how[e])
  <2>1. out \in Seq(Outs) /\ Once(out)
    BY OnceIs DEF SlidingTypes, SlidingExact
  <2> QED BY <1>11, <1>13, <1>22, <2>1, Publishing
<1>24. SlidingTypes'
  BY <1>13, <1>17, <1>23 DEF SlidingTypes, Size, sourceState, RecoverPage
<1>25. OutOK'
  <2>1. ASSUME NEW j \in DOMAIN out'
        PROVE  (/\ out[j].event \in 0..Reach
                /\ out[j].event # 0 /\ out[j].plain => Readable(out[j].event))'
    <3>1. CASE j \in DOMAIN out /\ out'[j] = out[j]
      <4>1. /\ out[j].event \in 0..Reach
            /\ out[j].event # 0 /\ out[j].plain => Readable(out[j].event)
        BY <3>1 DEF OutOK
      <4>2. out[j].event \in 0..Reach'
        <5>1. PICK r \in Nat : r = Reach
          BY <1>20
        <5>2. PICK q \in Nat : q = Reach' /\ r <= q
          BY <1>20, <5>1
        <5>3. out[j].event \in 0..q
          BY <4>1, <5>1, <5>2
        <5> QED BY <5>2, <5>3
      <4> QED BY <1>13, <3>1, <4>1, <4>2 DEF Readable
    <3>2. CASE \E e \in S : out'[j] = Record(e, how[e])
      <4>1. PICK e \in S : out'[j] = Record(e, how[e])
        BY <3>2
      <4>2. out'[j].event = e /\ out'[j].plain = Readable(e)
        BY <4>1 DEF Record
      <4>3. e \in 0..Reach'
        <5>1. PICK q \in Nat : q = Reach' /\ n <= q
          BY <1>20
        <5>2. e \in Nat /\ e <= n
          BY <1>21
        <5> QED BY <5>1, <5>2
      <4> QED BY <1>13, <4>2, <4>3 DEF Readable
    <3> QED BY <1>23, <3>1, <3>2
  <2> QED BY <2>1 DEF OutOK
<1>26. HeldOK'
  BY <1>3, <1>13, <1>23, HeldKept
<1>27. PosOK'
  <2>1. ~requesting
    BY <1>1 DEF PosOK, Planned
  <2> QED BY <1>1, <1>13, <1>18, <2>1 DEF PosOK, sourceState
<1>28. WindowOK'
  BY <1>1, <1>2, <1>13, <1>14, <1>18 DEF WindowOK, Gap, Size
<1>29. PlanOK'
  <2>1. HeldIds' = HeldIds /\ HistoryPrefix(room)' = HistoryPrefix(room) /\ handled' = h /\ held' = held
    BY <1>3, <1>13 DEF HeldIds, HistoryPrefix
  <2>2. input'.recovered /\ ~input'.history
    BY <1>14, <1>15
  <2>3. HeldIds' \subseteq input'.applied
    BY <1>14, <1>15, <2>1
  <2>4. \A e \in input'.applied : e \in room.first..room.last => e \in HeldIds'
    BY <1>10, <1>14, <1>15, <2>1
  <2>5. input'.prefix = HistoryPrefix(room)'
    BY <1>14, <1>15, <2>1
  <2>6. input'.from \in Nat /\ input'.from < room.first
    BY <1>7, <1>8, <1>14
  <2>7. ASSUME NEW e \in (h + 1)..n PROVE AsNews(e)'
    <3>1. e \in Nat
      OBVIOUS
    <3>2. CASE e <= a
      <4>1. AsNews(e)
        BY <1>15, <3>1, <3>2
      <4> QED BY <1>23, <3>1, <4>1 DEF Stays
    <3>3. CASE ~(e <= a)
      <4>1. a < p /\ e \in page
        BY <1>7, <1>9, <3>1, <3>3
      <4>2. e \notin input.applied /\ e \notin room.first..room.last
        <5>1. e > h /\ e > a /\ e < f
          BY <1>7, <1>8, <3>1, <3>3
        <5>2. e \notin input.applied
          BY <1>3, <1>5, <1>15, <5>1
        <5>3. \A x \in room.first..room.last : f <= x
          BY <1>8
        <5> QED BY <5>1, <5>2, <5>3
      <4>3. e \in S
        BY <1>10, <4>1, <4>2
      <4>4. PICK j \in DOMAIN out' : out'[j] = Record(e, how[e])
        BY <1>23, <4>3
      <4>5. out'[j].event = e /\ out'[j].how \in News
        BY <1>12, <4>3, <4>4 DEF Record, News
      <4> QED BY <4>5 DEF AsNews
    <3> QED BY <3>2, <3>3
  <2>8. input'.phase = "tail" => \A e \in (h + 1)..(room.first - 1) : AsNews(e)'
    <3>1. input'.phase = "tail" => room.first - 1 = n
      BY <1>4, <1>14
    <3> QED BY <2>7, <3>1
  <2>9. input'.phase = "recover" =>
            /\ held.token <= input'.from
            /\ \A e \in (h + 1)..input'.from : AsNews(e)'
            /\ \A e \in input'.applied : e <= h \/ e <= input'.from
    <3> SUFFICES ASSUME input'.phase = "recover"
                 PROVE  /\ held.token <= input'.from
                        /\ \A e \in (h + 1)..input'.from : AsNews(e)'
                        /\ \A e \in input'.applied : e <= h \/ e <= input'.from
      OBVIOUS
    <3>1. a < n
      BY <1>7, <1>14
    <3>2. ASSUME NEW e \in input'.applied PROVE e <= h \/ e <= n
      <4>1. e \in Nat
        BY <1>14, <1>16
      <4>2. CASE e \in S
        BY <1>21, <4>2
      <4>3. CASE e \notin S
        <5>1. e <= h \/ e <= a
          BY <1>14, <1>15, <4>3
        <5> QED BY <3>1, <4>1, <5>1
      <4> QED BY <4>2, <4>3
    <3>3. held.token <= n
      BY <1>6, <3>1
    <3> QED BY <1>14, <2>7, <3>2, <3>3
  <2>10. held' # None /\ held'.token # None /\ room.prev # None /\ Gap(room)
    BY <1>1, <1>2, <1>6, <1>15, <2>1 DEF PlanOK
  <2> QED BY <1>14, <1>15, <2>1, <2>2, <2>3, <2>4, <2>5, <2>6, <2>8, <2>9, <2>10 DEF PlanOK
<1>30. SlidingExact'
  <2>1. SlidingNoSilentGap'
    <3>1. promised \in Nat /\ promised' = promised /\ handled' = handled /\ handled \in Nat
      BY <1>3, <1>13 DEF SlidingTypes
    <3> QED BY <1>23, <3>1, NoGapKept DEF SlidingExact
  <2> QED BY <1>23, <2>1, OnceIs DEF SlidingExact
<1> QED BY <1>24, <1>25, <1>26, <1>27, <1>28, <1>29, <1>30

LEMMA RecoverFailsKeeps ==
    ASSUME SlidingInv, RecoverFails
    PROVE  SlidingInv'
<1> USE DEF SlidingInv
<1>1. Planned /\ ~Captured /\ input \in Inputs /\ input.phase = "recover" /\ input.recovered
  BY DEF RecoverFails, Captured, Planned, SlidingTypes, PlanOK
<1>2. PICK room \in Windows : room = input.room
  BY <1>1 DEF Inputs
<1>3. PICK h \in Nat : h = handled
  BY DEF SlidingTypes, Size
<1>4. /\ out' = Append(out, Lost) /\ promised' = room.last
      /\ input' = [input EXCEPT !.phase = "tail", !.history = TRUE]
      /\ UNCHANGED <<timeline, keyHere, sourceState, held, handled>>
  BY <1>2 DEF RecoverFails, Lost
<1>5. room.last \in Nat /\ h <= room.last
  BY <1>1, <1>2, <1>3 DEF WindowOK, Windows, SlidingTypes, Size
<1>6. input'.history
  BY <1>1, <1>4, Zenon DEF Inputs
<1>7. /\ input'.room = room /\ input'.recovered = input.recovered
      /\ input'.prefix = input.prefix /\ input'.applied = input.applied
      /\ input'.phase = "tail" /\ input'.from = input.from
      /\ input' = [room |-> room, phase |-> input'.phase, from |-> input'.from,
                   recovered |-> input'.recovered, history |-> input'.history,
                   prefix |-> input'.prefix, applied |-> input'.applied]
  BY <1>1, <1>2, <1>4 DEF Inputs
<1>8. input' \in Inputs
  <2>1. input'.history \in BOOLEAN
    BY <1>1, <1>4, Zenon DEF Inputs
  <2>2. /\ input'.recovered \in BOOLEAN /\ input'.applied \in SUBSET Nat
        /\ input'.from \in Nat \cup {None} /\ input'.prefix \in Nat
        /\ input'.phase \in {"captured", "recover", "tail", "prepared"}
    BY <1>1, <1>7 DEF Inputs
  <2> QED BY <1>7, <2>1, <2>2 DEF Inputs
<1>9. input' # None /\ ~Captured' /\ Planned'
  BY <1>7, <1>8, SlidingAssumption DEF Captured, Planned
<1>10. Reach' = Reach
  BY <1>1, <1>4, <1>7, <1>9 DEF Reach
<1>11. /\ Append(out, Lost) = out \o <<Lost>> /\ Once(out \o <<Lost>>) /\ <<Lost>> \in Seq(Outs)
       /\ out \in Seq(Outs)
  <2>1. out \in Seq(Outs) /\ Once(out)
    BY OnceIs DEF SlidingTypes, SlidingExact
  <2> QED BY <2>1, LossAppended
<1>12. PICK rs \in Seq(Outs) : rs = <<Lost>> /\ out' = out \o rs /\ Once(out')
  BY <1>4, <1>11
<1>13. /\ out' \in Seq(Outs) /\ Stays
       /\ \A j \in DOMAIN out' : (j \in DOMAIN out /\ out'[j] = out[j]) \/ out'[j].event = 0
  <2>1. /\ out' \in Seq(Outs) /\ Stays
        /\ \A j \in DOMAIN out' :
               (j \in DOMAIN out /\ out'[j] = out[j]) \/ \E k \in 1..Len(rs) : out'[j] = rs[k]
    BY <1>11, <1>12, PublishedStays
  <2>2. \A k \in 1..Len(rs) : rs[k].event = 0
    BY <1>12 DEF Lost
  <2> QED BY <2>1, <2>2
<1>14. SlidingTypes'
  BY <1>4, <1>5, <1>8, <1>13 DEF SlidingTypes, Size, sourceState, RecoverFails
<1>15. OutOK'
  <2>1. Reach \in Nat
    <3>1. input.from \in Nat
      BY <1>1 DEF PlanOK
    <3> QED BY <1>3, <3>1 DEF Reach
  <2> QED BY <1>4, <1>10, <1>13, <2>1 DEF OutOK, Readable
<1>16. HeldOK'
  BY <1>3, <1>4, <1>13, HeldKept
<1>17. PosOK'
  <2>1. ~requesting
    BY <1>1 DEF PosOK, Planned
  <2> QED BY <1>1, <1>4, <1>9, <2>1 DEF PosOK, sourceState
<1>18. WindowOK'
  BY <1>1, <1>2, <1>4, <1>7, <1>9 DEF WindowOK, Gap, Size
<1>19. PlanOK'
  <2>1. HeldIds' = HeldIds /\ HistoryPrefix(room)' = HistoryPrefix(room) /\ handled' = handled /\ held' = held
    BY <1>4 DEF HeldIds, HistoryPrefix
  <2>2. room.last <= promised'
    BY <1>4, <1>5
  <2> QED BY <1>1, <1>2, <1>6, <1>7, <2>1, <2>2 DEF PlanOK
<1>20. SlidingExact'
  <2>1. SlidingNoSilentGap'
    <3>1. promised \in Nat /\ promised' \in Nat /\ promised' >= handled /\ handled' = handled /\ handled \in Nat
      BY <1>3, <1>4, <1>5 DEF SlidingTypes
    <3> QED BY <1>13, <3>1, NoGapKept DEF SlidingExact
  <2> QED BY <1>12, <2>1, OnceIs DEF SlidingExact
<1> QED BY <1>14, <1>15, <1>16, <1>17, <1>18, <1>19, <1>20

(* The part of the window that was handled before is history, is held, or  *)
(* was published unreadable.                                               *)
LEMMA WindowNews ==
    ASSUME SlidingInv, Planned, ~input.history,
           NEW e \in input.room.first..input.room.last, e <= handled
    PROVE  \/ e \in HeldIds \/ ShownUnread(e)
           \/ e - input.room.first < input.prefix
<1> USE DEF SlidingInv
<1>1. PICK room \in Windows : room = input.room
  BY DEF Planned, SlidingTypes, Inputs
<1>2. PICK h \in Nat : h = handled
  BY DEF SlidingTypes, Size
<1>3. PICK f \in Nat : f = room.first /\ 1 <= f
  BY <1>1 DEF WindowOK, Windows
<1>4. PICK l \in Nat : l = room.last /\ h <= l
  BY <1>1, <1>2 DEF WindowOK, Windows, SlidingTypes, Size
<1>5. e \in Nat /\ f <= e /\ e <= h /\ e <= l
  BY <1>1, <1>2, <1>3, <1>4
<1>6. Gap(room)
  BY <1>1, <1>2, <1>3, <1>5 DEF WindowOK
<1>7. input.recovered
  BY <1>1, <1>6 DEF PlanOK
<1>8. PICK t \in Nat : t = held.token /\ held # None /\ held.token # None /\ t <= h
  BY <1>2, <1>7 DEF PlanOK, HeldOK
<1>9. CASE t < e
  <2>1. e \in (held.token + 1)..handled
    BY <1>2, <1>5, <1>8, <1>9
  <2> QED BY <1>8, <2>1 DEF HeldOK, HeldIds
<1>10. CASE ~(t < e)
  <2>1. t # 0
    BY <1>3, <1>5, <1>10
  <2>2. PICK w \in held.window : TRUE
    BY <1>8, <2>1 DEF HeldOK
  <2>3. w \in Nat /\ t < w /\ w <= h
    BY <1>2, <1>8 DEF HeldOK
  <2>4. w \in room.first..room.last
    BY <1>3, <1>4, <1>5, <1>10, <2>3
  <2>5. PICK p \in Nat : p = input.prefix /\ p = HistoryPrefix(room)
    BY <1>1, <1>2, PrefixRight DEF PlanOK
  <2>6. f + p \in held.window
    BY <1>2, <1>3, <1>8, <2>4, <2>5, PrefixRight
  <2>7. t < f + p
    BY <1>8, <2>6 DEF HeldOK
  <2>8. e - f < p
    BY <1>3, <1>5, <1>10, <2>5, <2>7
  <2> QED BY <1>1, <1>3, <2>5, <2>8
<1> QED BY <1>9, <1>10

(* What is planned for a window that is about to be published *)
LEMMA TailFacts ==
    ASSUME SlidingInv, SlidingTail
    PROVE  /\ Planned /\ ~Captured /\ input \in Inputs /\ input.room \in Windows /\ input.phase = "tail"
           /\ handled \in 0..input.room.last /\ input.room.last \in 0..Size
           /\ input.room.first \in 1..(input.room.last + 1)
           /\ Reach \in 0..input.room.last /\ (Reach = handled \/ Reach < input.room.first)
<1> USE DEF SlidingInv
<1>1. Planned /\ ~Captured /\ input \in Inputs /\ input.phase = "tail"
  BY DEF SlidingTail, Captured, Planned, SlidingTypes
<1>2. PICK room \in Windows : room = input.room
  BY <1>1 DEF Inputs
<1>3. PICK h \in Nat : h = handled
  BY DEF SlidingTypes, Size
<1>4. PICK f \in Nat : f = room.first
  BY DEF Windows
<1>5. PICK l \in Nat : l = room.last
  BY DEF Windows
<1>6. h <= l /\ l \in 0..Size /\ f \in 1..(l + 1)
  BY <1>1, <1>2, <1>3, <1>4, <1>5 DEF WindowOK, SlidingTypes, Size
<1>7. CASE input.recovered /\ input.from > handled
  <2>1. PICK a \in Nat : a = input.from /\ (a <= h \/ a < f)
    BY <1>1, <1>2, <1>3, <1>4, <1>7 DEF PlanOK
  <2>2. Reach = a /\ a < f /\ a \in 0..l
    BY <1>1, <1>3, <1>6, <1>7, <2>1 DEF Reach
  <2> QED BY <1>1, <1>2, <1>3, <1>4, <1>5, <1>6, <2>2
<1>8. CASE ~(input.recovered /\ input.from > handled)
  <2>1. Reach = h
    BY <1>1, <1>3, <1>8 DEF Reach
  <2> QED BY <1>1, <1>2, <1>3, <1>4, <1>5, <1>6, <2>1
<1> QED BY <1>7, <1>8

LEMMA TailPublishes ==
    ASSUME SlidingInv, SlidingTail
    PROVE  /\ out' \in Seq(Outs) /\ Once(out') /\ Stays
           /\ \A e \in (input.room.first..input.room.last) \ input.applied :
                  \E j \in DOMAIN out' : out'[j] = Record(e, Provenance(e))
           /\ \A j \in DOMAIN out' :
                  \/ j \in DOMAIN out /\ out'[j] = out[j]
                  \/ \E e \in input.room.first..input.room.last : out'[j] = Record(e, Provenance(e))
<1> USE DEF SlidingInv
<1>1. /\ Planned /\ ~Captured /\ input \in Inputs /\ input.room \in Windows /\ input.phase = "tail"
      /\ handled \in 0..input.room.last /\ input.room.last \in 0..Size
      /\ input.room.first \in 1..(input.room.last + 1)
      /\ Reach \in 0..input.room.last /\ (Reach = handled \/ Reach < input.room.first)
  BY TailFacts
<1>2. PICK f \in Nat : f = input.room.first
  BY <1>1 DEF Windows
<1>3. PICK l \in Nat : l = input.room.last
  BY <1>1 DEF Windows
<1>4. PICK S \in SUBSET Nat : S = (f..l) \ input.applied
  <2>1. (f..l) \ input.applied \in SUBSET Nat
    OBVIOUS
  <2> QED BY <2>1
<1>5. IsFiniteSet(S)
  <2>1. IsFiniteSet(f..l)
    BY FS_Interval
  <2> QED BY <1>4, <2>1, FS_Subset
<1>6. \A e \in S : Provenance(e) \in {"loss", "history", "live", "recovered"}
  BY DEF Provenance
<1>7. PICK how \in [S -> {"loss", "history", "live", "recovered"}] : how = [e \in S |-> Provenance(e)]
  BY <1>6
<1>8. out' = out \o Records(how)
  BY <1>2, <1>3, <1>4, <1>7 DEF SlidingTail
<1>9. ASSUME NEW e \in S, how[e] \in News
      PROVE  ShownUnread(e) \/ \A k \in DOMAIN out : out[k].event < e
  <2>1. e \in Nat /\ e \in input.room.first..input.room.last /\ e \notin input.applied /\ f <= e
    BY <1>2, <1>3, <1>4
  <2>2. Provenance(e) # "history"
    BY <1>7, <1>9 DEF News
  <2>3. ~input.history /\ ~(e - input.room.first < input.prefix)
    BY <2>2 DEF Provenance
  <2>4. CASE e <= handled
    <3>1. e \notin HeldIds
      BY <1>1, <2>1 DEF PlanOK
    <3> QED BY <1>1, <2>1, <2>3, <2>4, <3>1, WindowNews
  <2>5. CASE ~(e <= handled)
    <3>1. PICK h \in Nat : h = handled /\ h < e
      BY <1>1, <2>1, <2>5
    <3>2. PICK r \in Nat : r = Reach /\ r < e
      BY <1>1, <1>2, <2>1, <3>1
    <3>3. ASSUME NEW k \in DOMAIN out PROVE out[k].event < e
      <4>1. out[k].event \in 0..r
        BY <3>2 DEF OutOK
      <4> QED BY <2>1, <3>2, <4>1
    <3> QED BY <3>3
  <2> QED BY <2>4, <2>5
<1>10. /\ out' \in Seq(Outs) /\ Once(out') /\ Stays
       /\ \A e \in S : \E j \in DOMAIN out' : out'[j] = Record(e, how[e])
       /\ \A j \in DOMAIN out' :
              (j \in DOMAIN out /\ out'[j] = out[j]) \/ \E e \in S : out'[j] = Record(e, how[e])
  <2>1. out \in Seq(Outs) /\ Once(out)
    BY OnceIs DEF SlidingTypes, SlidingExact
  <2> QED BY <1>5, <1>8, <1>9, <2>1, Publishing
<1>11. \A e \in S : how[e] = Provenance(e) /\ e \in input.room.first..input.room.last
  BY <1>2, <1>3, <1>4, <1>7
<1>12. \A e \in (input.room.first..input.room.last) \ input.applied : e \in S
  BY <1>2, <1>3, <1>4
<1>13. ASSUME NEW j \in DOMAIN out', ~(j \in DOMAIN out /\ out'[j] = out[j])
       PROVE  \E e \in input.room.first..input.room.last : out'[j] = Record(e, Provenance(e))
  <2>1. PICK e \in S : out'[j] = Record(e, how[e])
    BY <1>10, <1>13
  <2> QED BY <1>11, <2>1
<1>14. ASSUME NEW e \in (input.room.first..input.room.last) \ input.applied
       PROVE  \E j \in DOMAIN out' : out'[j] = Record(e, Provenance(e))
  <2>1. e \in S /\ how[e] = Provenance(e)
    BY <1>11, <1>12
  <2> QED BY <1>10, <2>1
<1> QED BY <1>10, <1>13, <1>14

(* A window closes the gap between what was handled and its end. *)
LEMMA TailLeavesNoGap ==
    ASSUME SlidingInv, SlidingTail
    PROVE  SlidingNoSilentGap'
<1> USE DEF SlidingInv
<1>1. /\ Planned /\ input \in Inputs /\ input.room \in Windows /\ input.phase = "tail"
      /\ handled \in 0..input.room.last /\ input.room.first \in 1..(input.room.last + 1)
  BY TailFacts
<1>2. PICK f \in Nat : f = input.room.first /\ 1 <= f
  BY <1>1 DEF Windows
<1>3. PICK l \in Nat : l = input.room.last
  BY <1>1 DEF Windows
<1>4. PICK h \in Nat : h = handled /\ h <= l
  BY <1>1, <1>3
<1>5. PICK p \in Nat : p = promised
  BY DEF SlidingTypes
<1>6. promised' = p /\ handled' = l
  BY <1>3, <1>5 DEF SlidingTail
<1>7. ASSUME NEW e \in (p + 1)..l PROVE AsNews(e)'
  <2>1. e \in Nat /\ p < e /\ e <= l
    OBVIOUS
  <2>2. ~input.history
    <3>1. input.history => l <= p
      BY <1>1, <1>3, <1>5 DEF PlanOK
    <3> QED BY <2>1, <3>1
  <2>3. CASE e <= h
    <3>1. AsNews(e)
      BY <1>4, <1>5, <2>1, <2>3 DEF SlidingExact, SlidingNoSilentGap, AsNews
    <3> QED BY <2>1, <3>1, TailPublishes DEF Stays
  <2>4. CASE h < e /\ e < f
    <3>1. AsNews(e)
      BY <1>1, <1>2, <1>4, <2>1, <2>2, <2>4 DEF PlanOK
    <3> QED BY <2>1, <3>1, TailPublishes DEF Stays
  <2>5. CASE h < e /\ f <= e
    <3>1. e \in input.room.first..input.room.last
      BY <1>2, <1>3, <2>1, <2>5
    <3>2. e \notin HeldIds
      BY <1>4, <2>1, <2>5 DEF HeldIds, HeldOK
    <3>3. e \notin input.applied
      BY <1>1, <3>1, <3>2 DEF PlanOK
    <3>4. PICK j \in DOMAIN out' : out'[j] = Record(e, Provenance(e))
      BY <3>1, <3>3, TailPublishes
    <3>5. ~(e - input.room.first < input.prefix)
      <4>1. PICK q \in Nat : q = input.prefix /\ q = HistoryPrefix(input.room)
        BY <1>1, <1>4, PrefixRight DEF PlanOK
      <4>2. q # 0 => held # None /\ f + q \in held.window
        BY <1>1, <1>2, <1>4, <4>1, PrefixRight
      <4>3. q # 0 => f + q <= h
        BY <1>4, <4>2 DEF HeldOK
      <4> QED BY <1>2, <2>1, <2>5, <4>1, <4>3
    <3>6. Provenance(e) \in News
      <4>1. CASE input.recovered
        BY <2>2, <3>5, <4>1 DEF Provenance, News
      <4>2. CASE ~input.recovered
        <5>1. ~Gap(input.room)
          BY <1>1, <2>2, <4>2 DEF PlanOK
        <5>2. input.room.live = l - f + 1
          BY <1>1, <1>2, <1>3, <5>1 DEF WindowOK, Gap
        <5>3. e \in LiveEvents(input.room)
          BY <1>2, <1>3, <2>1, <2>5, <5>2 DEF LiveEvents
        <5> QED BY <2>2, <3>5, <5>3 DEF Provenance, News
      <4> QED BY <4>1, <4>2
    <3>7. out'[j].event = e /\ out'[j].how \in News
      BY <3>4, <3>6 DEF Record
    <3> QED BY <3>7 DEF AsNews
  <2> QED BY <1>2, <1>4, <2>1, <2>3, <2>4, <2>5
<1> QED BY <1>6, <1>7 DEF SlidingNoSilentGap, AsNews

(* Every event of the window is settled, was held or was published         *)
(* unreadable.                                                             *)
LEMMA TailSettles ==
    ASSUME SlidingInv, SlidingTail, NEW e \in input.room.first..input.room.last
    PROVE  /\ e \in Settled(input.room) => Shown(e)'
           /\ e \in Settled(input.room) \/ ShownUnread(e)'
<1> USE DEF SlidingInv
<1>1. /\ Planned /\ input.room \in Windows /\ input.room.first \in 1..(input.room.last + 1)
  BY TailFacts
<1>2. e \in Nat /\ e # 0
  <2>1. PICK f \in Nat : f = input.room.first /\ 1 <= f
    BY <1>1 DEF Windows
  <2>2. PICK l \in Nat : l = input.room.last
    BY <1>1 DEF Windows
  <2> QED BY <2>1, <2>2
<1>3. CASE e \in input.applied
  <2>1. Shown(e)
    BY <1>1, <1>3 DEF PlanOK, HeldIds, HeldOK
  <2>2. Shown(e)'
    BY <1>2, <2>1, TailPublishes DEF Stays
  <2>3. CASE Readable(e)
    BY <2>2, <2>3 DEF Settled
  <2>4. CASE ~Readable(e)
    <3>1. PICK k \in DOMAIN out : out[k].event = e
      BY <2>1 DEF Shown
    <3>2. ~out[k].plain
      BY <1>2, <2>4, <3>1 DEF OutOK
    <3>3. ShownUnread(e)
      BY <3>1, <3>2 DEF ShownUnread
    <3> QED BY <1>2, <2>2, <3>3, TailPublishes DEF Stays
  <2> QED BY <2>3, <2>4
<1>4. CASE e \notin input.applied
  <2>1. PICK j \in DOMAIN out' : out'[j] = Record(e, Provenance(e))
    BY <1>4, TailPublishes
  <2>2. out'[j].event = e /\ (out'[j].plain <=> Readable(e))
    BY <2>1 DEF Record
  <2>3. Shown(e)'
    BY <2>2 DEF Shown
  <2>4. CASE Readable(e)
    BY <2>3, <2>4 DEF Settled
  <2>5. CASE ~Readable(e)
    BY <2>2, <2>3, <2>5 DEF ShownUnread
  <2> QED BY <2>4, <2>5
<1> QED BY <1>3, <1>4

(* What the checkpoint's token stands before is named by the checkpoint or *)
(* was published unreadable.                                               *)
LEMMA TailHolds ==
    ASSUME SlidingInv, SlidingTail, held' # None
    PROVE  HeldOK'
<1> USE DEF SlidingInv
<1>1. /\ Planned /\ input \in Inputs /\ input.room \in Windows /\ input.phase = "tail"
      /\ handled \in 0..input.room.last /\ input.room.last \in 0..Size
      /\ input.room.first \in 1..(input.room.last + 1)
  BY TailFacts
<1>2. PICK room \in Windows : room = input.room
  BY <1>1
<1>3. PICK f \in Nat : f = room.first /\ 1 <= f
  BY <1>1, <1>2 DEF Windows
<1>4. PICK l \in Nat : l = room.last /\ f <= l + 1
  BY <1>1, <1>2, <1>3 DEF Windows
<1>5. PICK h \in Nat : h = handled /\ h <= l
  BY <1>1, <1>2, <1>4
<1>6. PICK p \in Nat : p = input.prefix /\ p = HistoryPrefix(room)
  BY <1>1, <1>2, <1>5, PrefixRight DEF PlanOK
<1>7. /\ held' = Checkpoint(room) /\ handled' = l
  BY <1>2, <1>4 DEF SlidingTail
<1>8. PICK token : token = NewToken(room)
  OBVIOUS
<1>9. PICK window : window = (f + p)..l
  OBVIOUS
<1>10. /\ held'.token = token
       /\ held'.ids = (IF held # None /\ token = held.token THEN held.ids \cup Settled(room) ELSE Settled(room))
       /\ held'.window = (IF held # None /\ token = held.token THEN held.window \cup window ELSE window)
  BY <1>3, <1>4, <1>6, <1>7, <1>8, <1>9 DEF Checkpoint
<1>11. ASSUME NEW e \in f..l
       PROVE  (e \in Settled(room) => Shown(e)') /\ (e \in Settled(room) \/ ShownUnread(e)')
  BY <1>2, <1>3, <1>4, TailSettles
<1>12. Settled(room) \subseteq f..l
  BY <1>3, <1>4 DEF Settled
<1>13. \A e \in f..l : e \in 1..l
  BY <1>3
<1>14. held # None => /\ held.ids \subseteq 1..h /\ held.window \subseteq 1..h
                      /\ \A e \in held.ids : Shown(e)
  BY <1>5 DEF HeldOK
<1>15. \A e \in window : e \in f..l
  BY <1>3, <1>6, <1>9
<1>16. held'.ids \subseteq 1..l /\ held'.window \subseteq 1..l
  <2>1. \A e \in 1..h : e \in 1..l
    BY <1>5
  <2> QED BY <1>10, <1>12, <1>13, <1>14, <1>15, <2>1
<1>17. ASSUME NEW e \in held'.ids PROVE Shown(e)'
  <2>1. CASE e \in Settled(room)
    BY <1>11, <1>12, <2>1
  <2>2. CASE held # None /\ e \in held.ids
    <3>1. Shown(e) /\ e \in Nat
      BY <1>14, <2>2
    <3> QED BY <3>1, TailPublishes DEF Stays
  <2> QED BY <1>10, <2>1, <2>2
<1>18. \/ /\ token = held.token /\ held # None /\ token # None /\ p # 0 
       \/ token = room.prev
       \/ token = held.token /\ held # None /\ ~Gap(room)
  BY <1>1, <1>2, <1>6, <1>8 DEF NewToken, PlanOK
<1>19. room.prev # None => room.prev = f - 1
  BY <1>1, <1>2, <1>3 DEF WindowOK
<1>20. p # 0 => /\ held # None /\ f + p \in held.window /\ f + p \in f..l
  BY <1>3, <1>4, <1>5, <1>6, PrefixRight
<1>21. ASSUME token # None
       PROVE  /\ token \in 0..l
              /\ \A e \in (token + 1)..l : e \in held'.ids \/ ShownUnread(e)'
              /\ \A e \in held'.window : token < e
              /\ held'.window = {} => token = 0
  <2>1. ASSUME held # None, token = held.token, \A e \in (h + 1)..l : e \in f..l, token < f + p
        PROVE  /\ token \in 0..l
               /\ \A e \in (token + 1)..l : e \in held'.ids \/ ShownUnread(e)'
               /\ \A e \in held'.window : token < e
               /\ held'.window = {} => token = 0
    <3>1. PICK t \in Nat : t = token /\ t <= h
      BY <1>5, <1>21, <2>1 DEF HeldOK
    <3>2. held'.ids = held.ids \cup Settled(room) /\ held'.window = held.window \cup window
      BY <1>10, <2>1
    <3>3. ASSUME NEW e \in (t + 1)..l PROVE e \in held'.ids \/ ShownUnread(e)'
      <4>1. e \in Nat
        OBVIOUS
      <4>2. CASE e <= h
        <5>1. e \in held.ids \/ ShownUnread(e)
          BY <1>5, <1>21, <2>1, <3>1, <4>1, <4>2 DEF HeldOK
        <5> QED BY <3>2, <4>1, <5>1, TailPublishes DEF Stays
      <4>3. CASE ~(e <= h)
        <5>1. e \in f..l
          BY <2>1, <4>1, <4>3
        <5> QED BY <1>11, <3>2, <5>1
      <4> QED BY <4>2, <4>3
    <3>4. \A e \in held.window : t < e
      BY <1>21, <2>1, <3>1 DEF HeldOK
    <3>5. \A e \in window : t < e
      BY <1>3, <1>6, <1>9, <2>1, <3>1
    <3>6. held.window = {} => t = 0
      BY <1>21, <2>1, <3>1 DEF HeldOK
    <3>7. t \in 0..l
      BY <1>5, <3>1
    <3> QED BY <3>1, <3>2, <3>3, <3>4, <3>5, <3>6, <3>7
  <2>2. CASE token = held.token /\ held # None /\ p # 0
    <3>1. f + p \in held.window /\ f + p <= h
      BY <1>14, <1>20, <2>2
    <3>2. \A e \in (h + 1)..l : e \in f..l
      BY <1>3, <1>5, <1>6, <3>1
    <3>3. token < f + p
      BY <1>21, <2>2, <3>1 DEF HeldOK
    <3> QED BY <2>1, <2>2, <3>2, <3>3
  <2>3. CASE token = room.prev
    <3>1. token = f - 1
      BY <1>19, <1>21, <2>3
    <3>2. PICK t \in Nat : t = token /\ t = f - 1
      BY <1>3, <3>1
    <3>3. t \in 0..l
      BY <1>4, <3>2
    <3>4. ASSUME NEW e \in (t + 1)..l PROVE e \in held'.ids \/ ShownUnread(e)'
      <4>1. e \in f..l
        BY <1>3, <3>2
      <4> QED BY <1>10, <1>11, <4>1
    <3>5. ASSUME NEW e \in held'.window PROVE t < e
      <4>1. CASE e \in window
        BY <1>3, <1>15, <3>2, <4>1
      <4>2. CASE held # None /\ token = held.token /\ e \in held.window
        BY <1>21, <3>2, <4>2 DEF HeldOK
      <4> QED BY <1>10, <4>1, <4>2
    <3>6. ASSUME held'.window = {} PROVE t = 0
      <4>1. window = {}
        BY <1>10, <3>6
      <4>2. l < f + p
        BY <1>3, <1>4, <1>6, <1>9, <4>1
      <4>3. p = 0
        BY <1>3, <1>4, <1>6, <1>20, <4>2
      <4>4. l = 0
        BY <1>1, <1>2, <1>3, <1>4, <4>2, <4>3 DEF WindowOK
      <4> QED BY <1>3, <1>4, <3>2, <4>4
    <3> QED BY <3>2, <3>3, <3>4, <3>5, <3>6
  <2>4. CASE token = held.token /\ held # None /\ ~Gap(room)
    <3>1. f = h + 1
      BY <1>1, <1>2, <1>3, <1>5, <2>4 DEF WindowOK
    <3>2. token < f + p
      <4>1. PICK t \in Nat : t = token /\ t <= h
        BY <1>5, <1>21, <2>4 DEF HeldOK
      <4> QED BY <1>5, <1>6, <3>1, <4>1
    <3>3. \A e \in (h + 1)..l : e \in f..l
      BY <3>1
    <3> QED BY <2>1, <2>4, <3>2, <3>3
  <2> QED BY <1>18, <2>2, <2>3, <2>4
<1> QED BY <1>7, <1>10, <1>16, <1>17, <1>21 DEF HeldOK

LEMMA SlidingTailKeeps ==
    ASSUME SlidingInv, SlidingTail
    PROVE  SlidingInv'
<1> USE DEF SlidingInv
<1>1. /\ Planned /\ ~Captured /\ input \in Inputs /\ input.room \in Windows
      /\ handled \in 0..input.room.last /\ input.room.last \in 0..Size
      /\ input.room.first \in 1..(input.room.last + 1)
      /\ Reach \in 0..input.room.last
  BY TailFacts
<1>2. PICK l \in Nat : l = input.room.last
  BY <1>1 DEF Windows
<1>3. PICK ready \in BOOLEAN :
          /\ ready = (Proof(input.room) # None /\ (input.room.initial \/ baseline = TRUE))
  OBVIOUS
<1>4. /\ baseline' = ready /\ handled' = l /\ promised' = promised
      /\ held' = (IF ready THEN Checkpoint(input.room) ELSE None)
      /\ pos' = IF ready THEN IF acceptedGeneration = generation THEN l ELSE pos ELSE None
      /\ input' = [input EXCEPT !.phase = "prepared"]
      /\ UNCHANGED <<timeline, keyHere, windowSize, requesting>>
  BY <1>2, <1>3 DEF SlidingTail, Forget
<1>5. input' \in Inputs /\ input'.phase = "prepared" /\ ~Planned' /\ ~Captured'
  BY <1>1, <1>4 DEF Inputs, Planned, Captured
<1>6. SlidingTypes'
  BY <1>1, <1>2, <1>4, <1>5, TailPublishes DEF SlidingTypes, Size
<1>7. Reach' = l
  BY <1>4, <1>5 DEF Reach
<1>8. OutOK'
  <2>1. ASSUME NEW j \in DOMAIN out'
        PROVE  (/\ out[j].event \in 0..Reach
                /\ out[j].event # 0 /\ out[j].plain => Readable(out[j].event))'
    <3>1. CASE j \in DOMAIN out /\ out'[j] = out[j]
      <4>1. /\ out[j].event \in 0..Reach
            /\ out[j].event # 0 /\ out[j].plain => Readable(out[j].event)
        BY <3>1 DEF OutOK
      <4>2. out[j].event \in 0..l
        <5>1. PICK r \in Nat : r = Reach /\ r <= l
          BY <1>1, <1>2
        <5>2. out[j].event \in 0..r
          BY <4>1, <5>1
        <5> QED BY <5>1, <5>2
      <4> QED BY <1>4, <1>7, <3>1, <4>1, <4>2 DEF Readable
    <3>2. CASE \E e \in input.room.first..input.room.last : out'[j] = Record(e, Provenance(e))
      <4>1. PICK e \in input.room.first..input.room.last : out'[j] = Record(e, Provenance(e))
        BY <3>2
      <4>2. out'[j].event = e /\ out'[j].plain = Readable(e)
        BY <4>1 DEF Record
      <4>3. e \in 0..l
        BY <1>1, <1>2 DEF Windows
      <4> QED BY <1>4, <1>7, <4>2, <4>3 DEF Readable
    <3> QED BY <3>1, <3>2, TailPublishes
  <2> QED BY <2>1 DEF OutOK
<1>9. HeldOK'
  <2>1. CASE held' = None
    BY <2>1 DEF HeldOK
  <2>2. CASE held' # None
    BY <2>2, TailHolds
  <2> QED BY <2>1, <2>2
<1>10. PosOK'
  <2>1. ~requesting
    BY <1>1 DEF PosOK, Planned
  <2>2. acceptedGeneration # generation => pos = None
    BY <1>1 DEF PosOK
  <2>3. CASE ready
    <3>1. baseline' = TRUE
      BY <1>4, <2>3
    <3> QED BY <1>4, <1>5, <2>1, <2>2, <2>3, <3>1 DEF PosOK
  <2>4. CASE ~ready
    BY <1>4, <1>5, <2>1, <2>4 DEF PosOK
  <2> QED BY <2>3, <2>4
<1>11. WindowOK' /\ PlanOK'
  BY <1>5 DEF WindowOK, PlanOK
<1>12. SlidingExact'
  BY TailPublishes, TailLeavesNoGap, OnceIs DEF SlidingExact
<1> QED BY <1>6, <1>8, <1>9, <1>10, <1>11, <1>12

LEMMA SlidingStepKeeps ==
    ASSUME SlidingInv, [SlidingNext]_slidingVars
    PROVE  SlidingInv'
<1>1. CASE Plan
  BY <1>1, PlanKeeps
<1>2. CASE \E n \in {None} \cup 0..MaxTimeline : ReceiveWindow(n)
  BY <1>2, ReceiveKeeps
<1>3. CASE \E n \in 0..MaxTimeline : RecoverPage(n)
  BY <1>3, RecoverPageKeeps
<1>4. CASE RecoverFails
  BY <1>4, RecoverFailsKeeps
<1>5. CASE SlidingTail
  BY <1>5, SlidingTailKeeps
<1>6. CASE FinishInput
  BY <1>6, FinishKeeps
<1> QED BY <1>1, <1>2, <1>3, <1>4, <1>5, <1>6, QuietStepsKeep DEF SlidingNext

(* Through lost positions, new subscriptions, restarts and history that    *)
(* cannot be had, the source publishes every event it promised as news     *)
(* exactly once and in order (a cipher again when it was not readable),    *)
(* never after it was published as history.                                *)
THEOREM SlidingDelivery == SlidingSpec => []SlidingExact
<1>1. SlidingInit => SlidingInv
  BY SlidingStart
<1>2. SlidingInv /\ [SlidingNext]_slidingVars => SlidingInv'
  BY SlidingStepKeeps
<1>3. SlidingInv => SlidingExact
  BY DEF SlidingInv
<1> QED BY <1>1, <1>2, <1>3, PTL DEF SlidingSpec

=============================================================================
