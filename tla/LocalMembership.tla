--------------------------- MODULE LocalMembership ---------------------------
(***************************************************************************)
(* Local join and leave commands beside the sync loop: the retained intent,*)
(* source ownership, the HTTP operation, and reconciliation with the sync  *)
(* response that observes it (src/nio/durable/client.py change_membership, *)
(* _apply_local_intent, run; src/nio/durable/recovery.py                   *)
(* _reconcile_membership_boundary).                                        *)
(*                                                                         *)
(* The server keeps a log of this user's membership changes, its own and   *)
(* other people's, and of messages; a sync token is a position in the log. *)
(* The event loop runs one task at a time, so a step is what a task does   *)
(* between two awaits.  Waking a waiter of an asyncio.Event and clearing   *)
(* the event are different things: a woken task runs on ("woken").         *)
(***************************************************************************)
EXTENDS Integers, Sequences, FiniteSets

CONSTANTS
    Rooms, Callers,
    Run,            \* the runner task, as an owner of the local lock
    None,
    Hidden,         \* rooms the configured sync filter leaves out
    MaxLog,         \* bound: entries of the server's log
    MaxCommands,    \* bound: change_membership calls
    MaxFailures     \* bound: restarts and commands without an outcome

CommandRecords ==
    [room : Rooms, previous : {"join", "leave"}, epoch : Nat, target : {"join", "leave"}]
IntentRecords ==
    [room : Rooms, previous : {"join", "leave"}, epoch : Nat, target : {"join", "leave"},
     proof : Nat \cup {None}, proved : BOOLEAN, sequence : Nat \cup {None}, observed : BOOLEAN,
     done : Nat \cup {None}, seen : Nat \cup {None}, raced : BOOLEAN]
InputRecords ==
    [since : Nat \cup {None}, full : BOOLEAN, newly : Rooms \cup {None}, upto : Nat,
     prepared : BOOLEAN]

ASSUME MembershipAssumption ==
    /\ Run \notin Callers /\ None \notin Callers \cup {Run} \cup Rooms
    /\ None \notin {"join", "leave", "invite"}
    /\ None \notin Nat \cup CommandRecords \cup IntentRecords \cup InputRecords
    /\ Hidden \subseteq Rooms /\ IsFiniteSet(Rooms)
    /\ MaxLog \in Nat /\ MaxCommands \in Nat /\ MaxFailures \in Nat

VARIABLES
    mlog,       \* server: <<room, entry>>, an own membership or "message"
    cursor, meta, intent, input, stream, acked,             \* durable
    rpc, poll, owned, ready, lock, queue, stage, caller, fullSeen,  \* volatile
    commands, failures

durable == <<cursor, meta, intent, input, stream, acked>>
volatile == <<rpc, poll, owned, ready, lock, queue, stage, caller, fullSeen>>
vars == <<mlog, durable, volatile, commands, failures>>

Position == 0..MaxLog
Base(since) == IF since = None THEN 0 ELSE since
HasBatches == acked < Len(stream)

-----------------------------------------------------------------------------
(* The server *)
Changes(r, from, upto) ==
    {i \in (from + 1)..upto : mlog[i][1] = r /\ mlog[i][2] # "message"}

Largest(S) == CHOOSE i \in S : \A j \in S : j <= i

MembershipAt(r, n) ==
    IF Changes(r, 0, n) = {} THEN "leave" ELSE mlog[Largest(Changes(r, 0, n))][2]

Unfiltered(in) == in.full \/ in.newly # None

(* Rooms in some section of the response to a poll *)
Shown(in) ==
    {r \in IF Unfiltered(in) THEN Rooms ELSE Rooms \ Hidden :
        \/ Changes(r, Base(in.since), in.upto) # {}
        \/ /\ MembershipAt(r, in.upto) = "join"
           /\ \/ in.full \/ in.since = None
              \/ \E i \in (Base(in.since) + 1)..in.upto : mlog[i][1] = r}

(* Another client or user acts *)
ServerEvent(r, e) ==
    /\ Len(mlog) < MaxLog
    /\ IF e = "message" THEN MembershipAt(r, Len(mlog)) = "join"
       ELSE e # MembershipAt(r, Len(mlog)) /\ ~(e = "invite" /\ MembershipAt(r, Len(mlog)) = "join")
    /\ mlog' = Append(mlog, <<r, e>>)
    /\ UNCHANGED <<durable, volatile, commands, failures>>

-----------------------------------------------------------------------------
(* Membership positions *)
Local(m) == IF m = "join" THEN "join" ELSE "leave"

(* Mutant: the epoch is not compared. *)
MatchesMembershipOnly(it) == Local(meta[it.room].membership) = it.previous

Matches(it) ==     \* _local_position_matches
    <<Local(meta[it.room].membership), meta[it.room].epoch>> = <<it.previous, it.epoch>>

Unapplied == intent # None /\ intent.sequence = None
Unobserved(r) ==
    intent # None /\ intent.sequence # None /\ intent.room = r /\ ~intent.observed

Departs(from, to) == IF from = "join" /\ to # "join" THEN 1 ELSE 0

Lifecycle(r, from, epoch, to, source) ==
    [room |-> r, previous |-> from, epoch |-> epoch, current |-> to,
     next |-> epoch + Departs(from, to), source |-> source]

Completion == [room |-> None, previous |-> None, epoch |-> 0, current |-> None,
               next |-> 0, source |-> "complete"]

(* needs_full_state(), newly_joined_room() *)
NeedsFullState(excluding) ==
    /\ cursor # None
    /\ \/ (\A r \in Rooms : meta[r].membership = None) /\ ~fullSeen
       \/ \E r \in Rooms \ {excluding} : meta[r].membership = "join" /\ ~meta[r].baseline

(* Mutant: any unobserved local join counts as a proof. *)
NewlyJoinedUnproved ==
    IF /\ cursor # None /\ intent # None /\ intent.sequence # None /\ ~intent.observed
       /\ intent.target = "join" /\ ~NeedsFullState(intent.room)
    THEN intent.room ELSE None

NewlyJoined ==
    IF /\ cursor # None /\ intent # None /\ intent.sequence # None /\ ~intent.observed
       /\ intent.target = "join" /\ intent.proof = cursor
       /\ meta[intent.room].nonjoined = cursor
       /\ ~NeedsFullState(intent.room)
    THEN intent.room ELSE None

-----------------------------------------------------------------------------
Init ==
    /\ mlog \in {<<>>} \cup {<<<<r, "join">>>> : r \in Rooms}
    /\ cursor = None /\ intent = None /\ input = None
    /\ meta = [r \in Rooms |-> [membership |-> None, epoch |-> 0,
                                baseline |-> FALSE, nonjoined |-> None, asof |-> 0]]
    /\ stream = <<>> /\ acked = 0
    /\ rpc = "loop" /\ poll = None /\ owned = FALSE /\ ready = TRUE
    /\ lock = None /\ queue = <<>> /\ stage = "none" /\ fullSeen = FALSE
    /\ caller = [c \in Callers |-> [at |-> "idle", command |-> None]]
    /\ commands = 0 /\ failures = 0

Acknowledge ==
    /\ HasBatches
    /\ acked' = acked + 1
    /\ UNCHANGED <<mlog, cursor, meta, intent, input, stream, volatile, commands, failures>>

-----------------------------------------------------------------------------
(* change_membership() *)
Call(c, r, target) ==
    /\ caller[c].at = "idle" /\ commands < MaxCommands
    /\ commands' = commands + 1
    /\ caller' = [caller EXCEPT ![c] =
          [at |-> "idle_wait",
           command |-> [room |-> r, previous |-> Local(meta[r].membership),
                        epoch |-> meta[r].epoch, target |-> target]]]
    /\ UNCHANGED <<mlog, durable, rpc, poll, owned, ready, lock, queue, stage, fullSeen, failures>>

Return(c) == caller' = [caller EXCEPT ![c] = [at |-> "idle", command |-> None]]

(* Mutant: the poll is cancelled but keeps its claim on the session. *)
TakeSourceKeepsPoll == ready' = FALSE /\ UNCHANGED owned

TakeSource == ready' = FALSE /\ owned' = FALSE

(* With the lock: check the position, retain the intent, take the source   *)
(* and discard the poll.                                                   *)
Enter(c) ==
    IF Matches(caller[c].command)
    THEN /\ intent' = [room |-> caller[c].command.room,
                       previous |-> caller[c].command.previous,
                       epoch |-> caller[c].command.epoch,
                       target |-> caller[c].command.target,
                       proof |-> None, proved |-> FALSE, sequence |-> None, observed |-> FALSE,
                       done |-> None, seen |-> None, raced |-> rpc \in {"woken", "lock_wait"}]
         /\ lock' = c /\ stage' = "drain"
         /\ TakeSource
         /\ caller' = [caller EXCEPT ![c].at = "inside"]
    ELSE /\ intent' = None
         /\ Return(c)
         /\ UNCHANGED <<lock, stage, ready, owned>>

MembershipIdle ==
    intent # None => intent.sequence # None /\ intent.sequence <= acked /\ intent.observed

(* asyncio.Lock: nobody overtakes a waiter *)
LockFree == lock = None /\ queue = <<>>

(* wait_for_membership_idle() ends, deleting a settled intent, and the     *)
(* lock is taken at once if it is free.                                    *)
IdleReached(c) ==
    /\ caller[c].at = "idle_wait" /\ MembershipIdle
    /\ \/ /\ LockFree
          /\ Enter(c)
          /\ UNCHANGED queue
       \/ /\ ~LockFree
          /\ intent' = None
          /\ queue' = Append(queue, c)
          /\ caller' = [caller EXCEPT ![c].at = "lock_wait"]
          /\ UNCHANGED <<lock, stage, ready, owned>>
    /\ UNCHANGED <<mlog, cursor, meta, input, stream, acked, rpc, poll, fullSeen,
                   commands, failures>>

(* The release wakes this waiter after the runner the same task woke.      *)
(* Another command may have retained its intent meanwhile.                 *)
LockReached(c) ==
    /\ lock = None /\ queue # <<>> /\ c = Head(queue) /\ rpc # "woken"
    /\ queue' = Tail(queue)
    /\ IF intent = None THEN Enter(c)
       ELSE Return(c) /\ UNCHANGED <<intent, lock, stage, ready, owned>>
    /\ UNCHANGED <<mlog, cursor, meta, input, stream, acked, rpc, poll, fullSeen,
                   commands, failures>>

(* a waiter of the lock takes itself out of the queue *)
Without(q, c) ==
    LET i == CHOOSE i \in 1..Len(q) : q[i] = c
    IN [j \in 1..(Len(q) - 1) |-> IF j < i THEN q[j] ELSE q[j + 1]]

(* Cancelled by the application while waiting *)
CancelWait(c) ==
    /\ caller[c].at \in {"idle_wait", "lock_wait"}
    /\ Return(c)
    /\ queue' = IF caller[c].at = "lock_wait" THEN Without(queue, c) ELSE queue
    /\ UNCHANGED <<mlog, durable, rpc, poll, owned, ready, lock, stage, fullSeen,
                   commands, failures>>

(* The holder leaves: a caller's finally wakes the source, the runner goes *)
(* back to its loop.                                                       *)
Leave ==
    /\ lock' = None /\ stage' = "none"
    /\ IF lock = Run
       THEN rpc' = "loop" /\ UNCHANGED <<ready, caller>>
       ELSE /\ Return(lock)
            /\ ready' = TRUE
            /\ rpc' = IF rpc = "source" THEN "woken" ELSE rpc

(* _apply_local_intent() up to the HTTP request *)
ApplyIntent ==
    /\ stage = "drain" /\ input = None
    /\ \/ /\ ~Matches(intent)
          /\ intent' = None
          /\ Leave
       \/ /\ Matches(intent)
          /\ intent' = IF intent.target = "join" /\ ~intent.proved
                       THEN [intent EXCEPT !.proved = TRUE, !.proof =
                               IF /\ meta[intent.room].membership \in {"invite", "leave"}
                                  /\ meta[intent.room].nonjoined = cursor
                               THEN cursor ELSE None]
                       ELSE intent
          /\ stage' = "http"
          /\ UNCHANGED <<rpc, ready, lock, caller>>
    /\ UNCHANGED <<mlog, cursor, meta, input, stream, acked, poll, owned, queue, fullSeen,
                   commands, failures>>

(* The server performs the operation and answers 200 ... *)
HttpPerform ==
    /\ stage = "http"
    /\ \/ MembershipAt(intent.room, Len(mlog)) = intent.target /\ UNCHANGED mlog
       \/ /\ MembershipAt(intent.room, Len(mlog)) # intent.target
          /\ Len(mlog) < MaxLog
          /\ mlog' = Append(mlog, <<intent.room, intent.target>>)
    /\ stage' = "ok"
    /\ intent' = [intent EXCEPT !.done = Len(mlog')]
    /\ UNCHANGED <<cursor, meta, input, stream, acked, rpc, poll, owned, ready, lock, queue,
                   caller, fullSeen, commands, failures>>

(* ... or refuses it; a gateway may also fail after it was performed *)
HttpError ==
    /\ stage \in {"http", "ok"}
    /\ intent' = None
    /\ Leave
    /\ UNCHANGED <<mlog, cursor, meta, input, stream, acked, poll, owned, queue, fullSeen,
                   commands, failures>>

(* Retries exhausted or the caller cancelled: the outcome is unknown and   *)
(* the intent stays.                                                       *)
Abandon ==
    /\ stage \in {"drain", "http", "ok"} /\ failures < MaxFailures
    /\ failures' = failures + 1
    /\ intent' = [intent EXCEPT !.done = None]
    /\ Leave
    /\ UNCHANGED <<mlog, cursor, meta, input, stream, acked, poll, owned, queue, fullSeen,
                   commands>>

(* Mutant: the old tenure's baseline survives a local operation. *)
OutcomeKeepsBaseline(m, change) ==
    [m EXCEPT !.membership = change.current, !.epoch = change.next]

Outcome(m, change) ==
    [m EXCEPT !.membership = change.current, !.epoch = change.next, !.baseline = FALSE]

(* The success transaction: metadata, lifecycle batch, intent sequence *)
CommitLocal ==
    /\ stage = "ok"
    /\ LET change == Lifecycle(intent.room, intent.previous, intent.epoch, intent.target, "local")
       IN /\ stream' = Append(stream, change)
          /\ meta' = [meta EXCEPT ![intent.room] = Outcome(@, change)]
          /\ intent' = [intent EXCEPT !.sequence = Len(stream')]
    /\ Leave
    /\ UNCHANGED <<mlog, cursor, input, acked, poll, owned, queue, fullSeen, commands, failures>>

-----------------------------------------------------------------------------
(* run() *)
Idle == ~HasBatches /\ input = None

(* An intent without outcome is retried unless a caller is at work *)
RunRetry ==
    /\ rpc = "loop" /\ Idle /\ Unapplied /\ LockFree
    /\ lock' = Run /\ stage' = "drain" /\ rpc' = "apply"
    /\ UNCHANGED <<mlog, durable, poll, owned, ready, queue, caller, fullSeen, commands, failures>>

RunAwaitSource ==
    /\ rpc = "loop" /\ Idle /\ ~(Unapplied /\ lock = None)
    /\ ~ready
    /\ rpc' = "source"
    /\ UNCHANGED <<mlog, durable, poll, owned, ready, lock, queue, stage, caller, fullSeen,
                   commands, failures>>

SendPoll ==
    /\ rpc' = "poll" /\ owned' = TRUE
    /\ LET newly == NewlyJoined
       IN poll' = [since |-> cursor, newly |-> newly,
                   full |-> newly = None /\ NeedsFullState(None), upto |-> None]
    /\ UNCHANGED <<mlog, durable, ready, lock, queue, stage, caller, fullSeen, commands, failures>>

RunPoll ==
    /\ rpc = "loop" /\ Idle /\ ~(Unapplied /\ lock = None) /\ ready
    /\ SendPoll

(* source_ready.wait() returns once woken, whatever happened since *)
RunWoken ==
    /\ rpc = "woken"
    /\ \/ ~HasBatches /\ SendPoll
       \/ /\ HasBatches /\ rpc' = "loop"
          /\ UNCHANGED <<mlog, durable, poll, owned, ready, lock, queue, stage, caller, fullSeen,
                         commands, failures>>

(* The server computes its answer; it may take long to arrive.  A task     *)
(* woken to take the lock runs before a network round trip.                *)
Reportable ==
    Len(mlog) > Base(poll.since) \/ poll.full \/ poll.since = None \/ poll.newly # None

ServerAnswers ==
    /\ rpc = "poll" /\ poll.upto = None /\ (lock # None \/ queue = <<>>)
    /\ Reportable
    /\ poll' = [poll EXCEPT !.upto = Len(mlog)]
    /\ UNCHANGED <<mlog, durable, rpc, owned, ready, lock, queue, stage, caller, fullSeen,
                   commands, failures>>

(* The long poll times out; an empty response is captured, prepared and    *)
(* completed without changing a membership or the cursor.                  *)
RunEmpty ==
    /\ rpc = "poll" /\ poll.upto = None /\ owned /\ ~Reportable /\ lock = None
    /\ rpc' = "loop" /\ poll' = None /\ owned' = FALSE
    /\ UNCHANGED <<mlog, durable, ready, lock, queue, stage, caller, fullSeen, commands, failures>>

(* Mutant: the discarded response still moves the cursor. *)
RunDiscardAdvances ==
    /\ rpc = "poll" /\ ~owned
    /\ cursor' = IF poll.upto = None THEN cursor ELSE poll.upto
    /\ rpc' = "loop" /\ poll' = None
    /\ UNCHANGED <<mlog, meta, intent, input, stream, acked, owned, ready, lock, queue,
                   stage, caller, fullSeen, commands, failures>>

(* A poll cancelled, or completed after it was disowned, is discarded *)
RunDiscard ==
    /\ rpc = "poll" /\ ~owned
    /\ rpc' = "loop" /\ poll' = None
    /\ UNCHANGED <<mlog, durable, owned, ready, lock, queue, stage, caller, fullSeen, commands, failures>>

(* A body that is still owned goes to _capture_response, which takes the   *)
(* lock first and then decodes in a worker thread.                         *)
RunAccept ==
    /\ rpc = "poll" /\ owned /\ poll.upto # None
    /\ owned' = FALSE
    /\ IF LockFree
       THEN lock' = Run /\ rpc' = "decode" /\ UNCHANGED queue
       ELSE queue' = Append(queue, Run) /\ rpc' = "lock_wait" /\ UNCHANGED lock
    /\ UNCHANGED <<mlog, durable, poll, ready, stage, caller, fullSeen, commands, failures>>

RunLock ==
    /\ lock = None /\ queue # <<>> /\ Head(queue) = Run
    /\ queue' = Tail(queue)
    /\ lock' = Run /\ rpc' = "decode"
    /\ UNCHANGED <<mlog, durable, poll, owned, ready, stage, caller, fullSeen, commands, failures>>

RunCapture ==
    /\ rpc = "decode"
    /\ input' = [since |-> poll.since, full |-> poll.full, newly |-> poll.newly,
                 upto |-> poll.upto, prepared |-> FALSE]
    /\ lock' = None /\ poll' = None /\ rpc' = "prepare"
    /\ UNCHANGED <<mlog, cursor, meta, intent, stream, acked, owned, ready, queue, stage, caller,
                   fullSeen, commands, failures>>

-----------------------------------------------------------------------------
(* prepare(), _tail(): one transaction for the whole response *)

Complete(in) == in.full \/ (in.since = None /\ Hidden = {})

(* A complete sync also shows that a room is gone *)
Absent(in) ==
    {r \in Rooms : in.full /\ meta[r].membership = "join" /\ r \notin Shown(in)}

Section(in, r) ==
    IF Changes(r, Base(in.since), in.upto) = {} /\ MembershipAt(r, in.upto) # "join"
    THEN "leave" ELSE MembershipAt(r, in.upto)

InOrder(S) ==
    CHOOSE q \in [1..Cardinality(S) -> S] : \A i, j \in 1..Cardinality(S) : i < j => q[i] < q[j]

(* The own memberships the response reports for r, in order.  An invite    *)
(* comes without the timeline, a join or leave section ends with itself.   *)
Reported(in, r) ==
    LET changes == Changes(r, Base(in.since), in.upto)
    IN IF Section(in, r) = "invite" THEN <<"invite">>
       ELSE Append([k \in 1..Cardinality(changes) |-> mlog[InOrder(changes)[k]][2]], Section(in, r))

(* The memberships r goes through when the response is applied.  While a   *)
(* local outcome is unobserved, reported events are history, and only the  *)
(* boundary counts (_change_membership, _reconcile_membership_boundary).   *)
Path(in, r) ==
    <<meta[r].membership>> \o
    IF Unobserved(r) THEN <<Section(in, r)>> ELSE Reported(in, r)

Departures(path, k) ==
    Cardinality({j \in 1..k : Departs(path[j], path[j + 1]) = 1})

(* The steps of the path that are transitions: <<room, position>> *)
Moves(in, r) ==
    {m \in {r} \X (1..(Len(Path(in, r)) - 1)) : Path(in, r)[m[2]] # Path(in, r)[m[2] + 1]}

Transition(in, m) ==
    Lifecycle(m[1], Path(in, m[1])[m[2]],
              meta[m[1]].epoch + Departures(Path(in, m[1]), m[2] - 1),
              Path(in, m[1])[m[2] + 1], "sync")

(* room after room, in the order of the response *)
RoomNumber ==
    CHOOSE f \in [Rooms -> 1..Cardinality(Rooms)] : \A r, s \in Rooms : f[r] = f[s] => r = s

Precedes(m, n) ==
    \/ RoomNumber[m[1]] < RoomNumber[n[1]]
    \/ m[1] = n[1] /\ m[2] < n[2]

AllMoves(in, rooms) == UNION {Moves(in, r) : r \in rooms}

(* the k-th of them *)
Place(moves, k) == CHOOSE m \in moves : Cardinality({n \in moves : Precedes(n, m)}) = k - 1

Records(in, moves) == [k \in 1..Cardinality(moves) |-> Transition(in, Place(moves, k))]

(* A rejoin discards the room's state for this response (_timeline_room) *)
Rejoined(path) ==
    \E k \in 1..(Len(path) - 1) : path[k] \notin {None, "join"} /\ path[k + 1] = "join"

Establishes(in, r) ==
    /\ Section(in, r) = "join" /\ ~Rejoined(Path(in, r))
    /\ Complete(in) \/ in.newly = r

Boundary(in, r) ==
    [membership |-> Section(in, r),
     epoch |-> meta[r].epoch + Departures(Path(in, r), Len(Path(in, r)) - 1),
     baseline |-> Establishes(in, r) \/ (meta[r].baseline /\ Moves(in, r) = {}),
     nonjoined |-> IF Section(in, r) = "join" THEN meta[r].nonjoined ELSE in.upto,
     asof |-> IF Establishes(in, r) THEN in.upto ELSE meta[r].asof]

Prepare ==
    \E rooms \in {Shown(input) \cup Absent(input)} : \E moves \in {AllMoves(input, rooms)} :
       /\ meta' = [r \in Rooms |-> IF r \in rooms THEN Boundary(input, r) ELSE meta[r]]
       /\ stream' = stream \o Records(input, moves)
       /\ intent' = IF \E r \in rooms : Unobserved(r)
                    THEN [intent EXCEPT !.observed = TRUE, !.seen = input.upto]
                    ELSE intent
       /\ cursor' = input.upto
       /\ input' = [input EXCEPT !.prepared = TRUE]
       /\ fullSeen' = (fullSeen \/ Complete(input))

(* At once after the capture, or by advance() after a restart *)
RunPrepare ==
    /\ \/ rpc = "prepare"
       \/ rpc = "loop" /\ ~HasBatches /\ input # None /\ ~input.prepared
    /\ Prepare
    /\ rpc' = "loop"
    /\ UNCHANGED <<mlog, acked, poll, owned, ready, lock, queue, stage, caller, commands, failures>>

(* Mutant: finishing the input waits for the local command's lock. *)
RunCompleteLocked ==
    /\ rpc = "loop" /\ ~HasBatches /\ input # None /\ input.prepared /\ lock = None
    /\ input' = None
    /\ stream' = Append(stream, Completion)
    /\ UNCHANGED <<mlog, cursor, meta, intent, acked, volatile, commands, failures>>

RunComplete ==
    /\ rpc = "loop" /\ ~HasBatches /\ input # None /\ input.prepared
    /\ input' = None
    /\ stream' = Append(stream, Completion)
    /\ UNCHANGED <<mlog, cursor, meta, intent, acked, volatile, commands, failures>>

(* The process dies and the session is opened again *)
Restart ==
    /\ failures < MaxFailures
    /\ failures' = failures + 1
    /\ rpc' = "loop" /\ poll' = None /\ owned' = FALSE /\ ready' = TRUE
    /\ lock' = None /\ queue' = <<>> /\ stage' = "none" /\ fullSeen' = FALSE
    /\ caller' = [c \in Callers |-> [at |-> "idle", command |-> None]]
    /\ intent' = IF Unapplied THEN [intent EXCEPT !.done = None] ELSE intent
    /\ UNCHANGED <<mlog, cursor, meta, input, stream, acked, commands>>

Runner ==
    \/ RunRetry \/ RunAwaitSource \/ RunPoll \/ RunWoken \/ RunEmpty \/ RunDiscard
    \/ RunAccept \/ RunLock \/ RunCapture \/ RunPrepare \/ RunComplete

(* The holder of the lock at work on the retained intent *)
Command == ApplyIntent \/ HttpPerform \/ HttpError \/ CommitLocal

Next ==
    \/ \E r \in Rooms, e \in {"join", "leave", "invite", "message"} : ServerEvent(r, e)
    \/ \E c \in Callers :
          \/ \E r \in Rooms, t \in {"join", "leave"} : Call(c, r, t)
          \/ IdleReached(c) \/ LockReached(c) \/ CancelWait(c)
    \/ Command \/ Abandon
    \/ Acknowledge \/ ServerAnswers \/ Runner \/ Restart

Spec == Init /\ [][Next]_vars

(* The event loop resumes a task that can run, the application acknowledges*)
(* batches, and the server answers requests.                               *)
Fairness ==
    /\ WF_vars(Runner) /\ WF_vars(Command)
    /\ WF_vars(Acknowledge) /\ WF_vars(ServerAnswers)
    /\ \A c \in Callers : WF_vars(IdleReached(c) \/ LockReached(c))

FairSpec == Spec /\ Fairness

-----------------------------------------------------------------------------
(* Properties *)

Memberships == {"join", "leave", "invite"}

(* Every variable holds what the code can put there: the outcome of a      *)
(* command names a published batch, the lock is held exactly while its     *)
(* holder is in a locked section, and a caller is inside only with the     *)
(* lock.                                                                   *)
TypeOK ==
    /\ mlog \in Seq(Rooms \X (Memberships \cup {"message"})) /\ Len(mlog) <= MaxLog
    /\ cursor \in Position \cup {None}
    /\ \A r \in Rooms :
          /\ meta[r].membership \in Memberships \cup {None}
          /\ meta[r].epoch \in Nat /\ meta[r].baseline \in BOOLEAN
          /\ meta[r].nonjoined \in Position \cup {None} /\ meta[r].asof \in Position
    /\ acked \in 0..Len(stream)
    /\ intent # None =>
          /\ intent.room \in Rooms /\ intent.target \in {"join", "leave"}
          /\ intent.sequence \in 1..Len(stream) \cup {None}
          /\ intent.observed => intent.sequence # None
    /\ input # None => input.upto \in Position
    /\ stage \in {"none", "drain", "http", "ok"}
    /\ stage # "none" => intent # None /\ intent.sequence = None /\ lock # None
    /\ \A c \in Callers : caller[c].at = "inside" <=> lock = c
    /\ lock = Run <=> rpc \in {"apply", "decode"}
    /\ owned => rpc = "poll"
    /\ \A c \in Callers : caller[c].at = "lock_wait" <=> \E i \in 1..Len(queue) : queue[i] = c

(* The membership transitions a consumer receives for one room continue    *)
(* each other, local and synchronised ones alike: each starts in the tenure*)
(* the one before ended in, no epoch is skipped or repeated, and the last  *)
(* one is the retained metadata.  (previous_membership is normalised to    *)
(* join or leave, as change_membership does.)                              *)
Within(r, n) == {i \in 1..n : stream[i].room = r}

EpochChain ==
    \A r \in Rooms :
        /\ \A i \in Within(r, Len(stream)) :
              IF Within(r, i - 1) = {}
              THEN Local(stream[i].previous) = "leave" /\ stream[i].epoch = 0
              ELSE LET before == stream[Largest(Within(r, i - 1))]
                   IN /\ Local(stream[i].previous) = Local(before.current)
                      /\ stream[i].epoch = before.next
        /\ IF Within(r, Len(stream)) = {} THEN meta[r].membership = None
           ELSE LET last == stream[Largest(Within(r, Len(stream)))]
                IN <<meta[r].membership, meta[r].epoch>> = <<last.current, last.next>>

(* Once the cursor has caught up and nothing is pending, the retained      *)
(* membership is the server's: no interleaving of commands, failures and   *)
(* responses loses a change for good.                                      *)
Agreement ==
    /\ cursor = Len(mlog) /\ input = None
    /\ intent = None \/ intent.observed
    => \A r \in Rooms \ Hidden : Local(meta[r].membership) = Local(MembershipAt(r, cursor))

(* An incremental response is taken to hold a room's complete state only if*)
(* the server has not yet counted the user as joined at the token it starts*)
(* from.                                                                   *)
NewlyJoinedProof ==
    input # None /\ ~input.prepared /\ input.newly # None
    => MembershipAt(input.newly, input.since) # "join"

(* A baseline belongs to the present tenure: the user was joined when the  *)
(* complete state was taken and the membership has not changed since.      *)
BaselineCurrent ==
    \A r \in Rooms \ Hidden : meta[r].baseline =>
        /\ meta[r].membership = "join"
        /\ MembershipAt(r, meta[r].asof) = "join"
        /\ Changes(r, meta[r].asof, Base(cursor)) = {}

(* The boundary that settles a local operation is a response the server    *)
(* computed after it performed the operation ("a response that predates    *)
(* local HTTP cannot serve as the operation's authoritative observation"). *)
ObservationFollowsHttp ==
    intent # None /\ intent.observed /\ intent.done # None => intent.seen >= intent.done

(* The same for every command that did not start while the runner was      *)
(* already on its way from the source gate to its poll.                    *)
ObservationFollowsHttpUnraced ==
    intent # None /\ ~intent.raced => ObservationFollowsHttp

(* A caller inside the lock is never stuck there. *)
CommandEnds ==
    \A c \in Callers : caller[c].at = "inside" ~> caller[c].at # "inside"

(* A retained operation is refused, or performed and observed, so that the *)
(* next command can start; only a leave that no later response reports     *)
(* (already out of the room, or the filter hides it) stays.                *)
Unreported ==
    /\ intent # None /\ intent.target = "leave"
    /\ intent.room \in Hidden \/ Changes(intent.room, Base(cursor), Len(mlog)) = {}

Settles == (intent # None) ~> (intent = None \/ intent.observed \/ Unreported)

(* Commands end, for their caller and for the retained operation. *)
CommandsEnd == CommandEnds /\ Settles
=============================================================================
