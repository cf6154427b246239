-------------------------- MODULE SessionLifecycle --------------------------
(***************************************************************************)
(* The tasks of a durable session and how it ends                          *)
(* (src/nio/durable/client.py run, quiesce, close, wait_for_work,          *)
(* wait_for_room_ready, ack and the section of change_membership that      *)
(* owns the source).                                                       *)
(*                                                                         *)
(* A task runs from one await to the next.  A task that waits for _changed *)
(* clears it and blocks in the same step, so only a later set() wakes it;  *)
(* being woken and running again are two steps.  What a response holds is  *)
(* left to Recovery: it is captured, prepared with one batch, finished     *)
(* with another.  What a command does is left to LocalMembership.          *)
(***************************************************************************)
EXTENDS Common, Naturals, FiniteSets

CONSTANTS
    Closers,        \* tasks that call close()
    MaxPolls,       \* bound: responses accepted
    MaxTroubles,    \* bound: failed requests and transactions
    MaxOwners       \* bound: membership commands

ASSUME LifecycleAssumption == {MaxPolls, MaxTroubles, MaxOwners} \subseteq Nat

VARIABLES
    captured,       \* the retained input: "none", "captured" or "prepared"
    waitingBatches, \* unacknowledged batches
    runner,         \* where run() is; "off" when no task runs it
    ownsPoll,       \* _poll is set
    sourceReady,    \* _source_ready
    owner,          \* the command that owns the source: "idle", "drain", "http"
    consumer,       \* wait_for_work: "idle", "blocked", "woken", "work"
    roomWaiter,     \* wait_for_room_ready: "idle", "blocked", "woken"
    roomReady,      \* _room_ready of its room
    quiescing,      \* _quiescing
    quiescer,       \* quiesce(): "idle", "waiting", "returned", "raised"
    closed,         \* _closed
    closer,         \* by closer: "idle", "waiting", "returned"
    disposed,       \* the store is closed and the client disposed
    left,           \* history: what was left when run() returned
    bounds          \* responses, troubles and commands so far

lifecycleVars == <<captured, waitingBatches, runner, ownsPoll, sourceReady, owner, consumer,
                   roomWaiter, roomReady, quiescing, quiescer, closed, closer, disposed, left,
                   bounds>>
work == <<captured, waitingBatches>>
gate == <<sourceReady, owner>>
flags == <<quiescing, closed, disposed>>
result == <<left, quiescer>>

Active == ~closed /\ ~disposed

Woken(at) == IF at = "blocked" THEN "woken" ELSE at

(* _changed.set() wakes the consumer, whoever waits for the room and the   *)
(* runner; at is where the runner is otherwise.                            *)
SetChanged(at) ==
    /\ consumer' = Woken(consumer) /\ roomWaiter' = Woken(roomWaiter)
    /\ runner' = IF at = "batches" THEN "loop" ELSE at
Quiet(at) == runner' = at /\ UNCHANGED <<consumer, roomWaiter>>

Trouble == bounds.troubles < MaxTroubles /\ bounds' = [bounds EXCEPT !.troubles = @ + 1]

-----------------------------------------------------------------------------
(* run() *)

(* The end of run(): _running is cleared, everybody is woken, and whoever  *)
(* quiesces gets its result, error or cancellation.  A command that took   *)
(* the source after the gate let the runner through is not waited for.     *)
EndRun(how) ==
    /\ quiescer' = IF quiescer = "waiting" THEN how ELSE quiescer
    /\ left' = IF how = "returned"
               THEN [captured |-> captured, batches |-> waitingBatches,
                     owned |-> owner # "idle" /\ runner # "past_gate"]
               ELSE left
    /\ SetChanged("off")

Run ==
    /\ runner = "off" /\ Active
    /\ Quiet("loop")
    /\ UNCHANGED <<work, ownsPoll, gate, roomReady, flags, closer, result, bounds>>

(* Mutant: the batches that came while it waited are not looked for. *)
AtSourceUnchecked ==
    IF quiescing \/ closed THEN EndRun("returned") /\ UNCHANGED ownsPoll
    ELSE Quiet("poll") /\ ownsPoll' = TRUE /\ UNCHANGED result

(* The source is open: batches first, then the end of a quiesced session,  *)
(* then a poll.                                                            *)
AtSource ==
    IF waitingBatches > 0 THEN Quiet("loop") /\ UNCHANGED <<ownsPoll, result>>
    ELSE IF quiescing \/ closed THEN EndRun("returned") /\ UNCHANGED ownsPoll
    ELSE Quiet("poll") /\ ownsPoll' = TRUE /\ UNCHANGED result

(* One round of the loop, to its first await. *)
RunLoop ==
    /\ runner = "loop"
    /\ IF closed THEN EndRun("returned") /\ UNCHANGED ownsPoll
       ELSE IF disposed THEN EndRun("raised") /\ UNCHANGED ownsPoll
       ELSE IF waitingBatches > 0 THEN Quiet("batches") /\ UNCHANGED <<ownsPoll, result>>
       ELSE IF captured # "none" THEN Quiet("work") /\ UNCHANGED <<ownsPoll, result>>
       ELSE IF sourceReady THEN AtSource
       ELSE Quiet("gate") /\ UNCHANGED <<ownsPoll, result>>
    /\ UNCHANGED <<work, gate, roomReady, flags, closer, bounds>>

(* Woken from _source_ready.wait(), which does not look again. *)
PastGate ==
    /\ runner = "past_gate" /\ AtSource
    /\ UNCHANGED <<work, gate, roomReady, flags, closer, bounds>>

(* The captured input is prepared, or maintenance over and the completion  *)
(* published.                                                              *)
Advance ==
    /\ runner = "work" /\ Active
    /\ captured' = IF captured = "captured" THEN "prepared" ELSE "none"
    /\ waitingBatches' = waitingBatches + 1
    /\ roomReady' \in {roomReady, TRUE}
    /\ SetChanged("loop")
    /\ UNCHANGED <<ownsPoll, gate, flags, closer, result, bounds>>

(* A transaction fails, which closes the store; or a request of            *)
(* maintenance does, which only ends run().                                *)
AdvanceFails ==
    /\ runner = "work" /\ Trouble /\ EndRun("raised")
    /\ disposed' \in {disposed, TRUE}
    /\ UNCHANGED <<work, ownsPoll, gate, roomReady, quiescing, closed, closer>>

(* A command has closed the store meanwhile: the next transaction raises. *)
AdvanceRaises ==
    /\ runner = "work" /\ disposed /\ EndRun("raised")
    /\ UNCHANGED <<work, ownsPoll, gate, roomReady, flags, closer, bounds>>

(* The poll is answered; its response is dropped if it is not owned now.   *)
PollEnds ==
    /\ runner = "poll"
    /\ Quiet("polled") /\ UNCHANGED <<work, ownsPoll, gate, roomReady, flags, closer, result, bounds>>

Accept ==
    /\ runner = "polled"
    /\ IF ownsPoll /\ Active
       THEN /\ bounds.polls < MaxPolls /\ bounds' = [bounds EXCEPT !.polls = @ + 1]
            /\ captured' = "captured" /\ SetChanged("loop")
       ELSE Quiet("loop") /\ UNCHANGED <<captured, bounds>>
    /\ ownsPoll' = FALSE
    /\ UNCHANGED <<waitingBatches, gate, roomReady, flags, closer, result>>

(* The request fails, or the response cannot be captured. *)
PollFails ==
    /\ runner = "poll" \/ (runner = "polled" /\ ownsPoll)
    /\ Trouble /\ EndRun("raised") /\ ownsPoll' = FALSE
    /\ disposed' \in {disposed, disposed \/ runner = "polled"}
    /\ UNCHANGED <<work, gate, roomReady, quiescing, closed, closer>>

(* close() cancels the task, wherever it waits. *)
Cancelled ==
    /\ runner = "cancelled" /\ EndRun("raised") /\ ownsPoll' = FALSE
    /\ UNCHANGED <<work, gate, roomReady, flags, closer, bounds>>

-----------------------------------------------------------------------------
(* Other tasks *)

(* wait_for_work, called or woken. *)
WaitForWork ==
    /\ consumer \in {"idle", "woken"} /\ (consumer = "idle" => Active)
    /\ consumer' = IF ~Active THEN "idle" ELSE IF waitingBatches > 0 THEN "work" ELSE "blocked"
    /\ UNCHANGED <<work, runner, ownsPoll, gate, roomWaiter, roomReady, flags, closer, result, bounds>>

(* ack, which raises when the session is gone. *)
AckBatch ==
    /\ consumer = "work"
    /\ IF Active
       THEN /\ waitingBatches' = waitingBatches - 1
            /\ roomWaiter' = Woken(roomWaiter)
            /\ runner' = IF runner = "batches" THEN "loop" ELSE runner
       ELSE UNCHANGED <<waitingBatches, roomWaiter, runner>>
    /\ consumer' = "idle"
    /\ UNCHANGED <<captured, ownsPoll, gate, roomReady, flags, closer, result, bounds>>

WaitForRoomReady ==
    /\ roomWaiter \in {"idle", "woken"} /\ (roomWaiter = "idle" => Active)
    /\ roomWaiter' = IF Active /\ ~roomReady THEN "blocked" ELSE "idle"
    /\ UNCHANGED <<work, runner, ownsPoll, gate, consumer, roomReady, flags, closer, result, bounds>>

(* A poll that is taken away is cancelled; one that is over is dropped. *)
AfterCancel == IF runner = "poll" /\ ownsPoll THEN "polled" ELSE runner

(* change_membership takes the source and its poll. *)
TakeSource ==
    /\ owner = "idle" /\ Active /\ bounds.owners < MaxOwners
    /\ bounds' = [bounds EXCEPT !.owners = @ + 1]
    /\ owner' = IF captured # "none" THEN "drain" ELSE "http"
    /\ sourceReady' = FALSE /\ ownsPoll' = FALSE /\ Quiet(AfterCancel)
    /\ UNCHANGED <<work, roomReady, flags, closer, result>>

(* It waits for the captured input to be finished, waking at every change. *)
Drained ==
    /\ owner = "drain" /\ Active /\ captured = "none" /\ owner' = "http"
    /\ UNCHANGED <<work, runner, ownsPoll, sourceReady, consumer, roomWaiter, roomReady, flags,
                   closer, result, bounds>>

(* It ends with its outcome in a batch, with a refusal, or because the     *)
(* session is gone; the source is open again.                              *)
LeaveSource ==
    /\ owner = "http" \/ (owner = "drain" /\ ~Active)
    /\ owner' = "idle" /\ sourceReady' = TRUE
    /\ \/ owner = "http" /\ Active /\ waitingBatches' = waitingBatches + 1
       \/ UNCHANGED waitingBatches
    /\ SetChanged(IF runner = "gate" THEN "past_gate" ELSE runner)
    /\ UNCHANGED <<captured, ownsPoll, roomReady, flags, closer, result, bounds>>

(* Its outcome cannot be recorded, which closes the store. *)
CommandFails ==
    /\ owner = "http" /\ Active /\ Trouble
    /\ owner' = "idle" /\ sourceReady' = TRUE /\ disposed' = TRUE
    /\ SetChanged(IF runner = "gate" THEN "past_gate" ELSE runner)
    /\ UNCHANGED <<work, ownsPoll, roomReady, quiescing, closed, closer, result>>

-----------------------------------------------------------------------------
(* The end of a session *)

Quiesce ==
    /\ quiescer = "idle"
    /\ quiescing' = TRUE /\ ownsPoll' = FALSE
    /\ SetChanged(AfterCancel)
    /\ quiescer' = IF runner # "off" THEN "waiting" ELSE "returned"
    /\ UNCHANGED <<work, gate, roomReady, closed, disposed, closer, left, bounds>>

(* Mutant: nobody is told. *)
FinishCloseSilently == disposed' = TRUE /\ Quiet(runner)
FinishClose == disposed' = TRUE /\ SetChanged(runner)

(* The first close() cancels the runner and waits for it, or ends at once  *)
(* without one; a later one returns at once.                               *)
Close(c) ==
    /\ closer[c] = "idle"
    /\ closed' = TRUE
    /\ closer' = [closer EXCEPT ![c] = IF ~closed /\ runner # "off" THEN "waiting" ELSE "returned"]
    /\ IF closed THEN Quiet(runner) /\ UNCHANGED disposed
       ELSE IF runner = "off" THEN FinishClose
       ELSE Quiet("cancelled") /\ UNCHANGED disposed
    /\ UNCHANGED <<work, ownsPoll, gate, roomReady, quiescing, result, bounds>>

CloseEnds(c) ==
    /\ closer[c] = "waiting" /\ runner = "off"
    /\ FinishClose
    /\ closer' = [closer EXCEPT ![c] = "returned"]
    /\ UNCHANGED <<work, ownsPoll, gate, roomReady, quiescing, closed, result, bounds>>

LifecycleInit ==
    /\ captured \in {"none", "captured", "prepared"} /\ waitingBatches \in 0..1
    /\ runner = "off" /\ ownsPoll = FALSE /\ sourceReady = TRUE /\ owner = "idle"
    /\ consumer = "idle" /\ roomWaiter = "idle" /\ roomReady = FALSE
    /\ quiescing = FALSE /\ quiescer = "idle" /\ closed = FALSE
    /\ closer = [c \in Closers |-> "idle"] /\ disposed = FALSE
    /\ left = None /\ bounds = [polls |-> 0, troubles |-> 0, owners |-> 0]

RunnerSteps == RunLoop \/ PastGate \/ Advance \/ AdvanceRaises \/ PollEnds \/ Accept \/ Cancelled

LifecycleNext ==
    \/ Run \/ RunnerSteps \/ AdvanceFails \/ PollFails
    \/ WaitForWork \/ AckBatch \/ WaitForRoomReady
    \/ TakeSource \/ Drained \/ LeaveSource \/ CommandFails \/ Quiesce
    \/ \E c \in Closers : Close(c) \/ CloseEnds(c)

LifecycleSpec == LifecycleInit /\ [][LifecycleNext]_lifecycleVars

-----------------------------------------------------------------------------
(* Properties. *)

(* A runner that returns from a quiesced session leaves no captured input, *)
(* no batch and no command in the middle of its work; once the close()     *)
(* that closed the session is over, the session is gone and nobody runs it.*)
StopsClean ==
    /\ left # None =>
        left.captured = "none" /\ left.batches = 0 /\ ~left.owned
    /\ closed /\ (\A c \in Closers : closer[c] # "waiting") => disposed /\ runner = "off"

(* Quiescing and closing end, and a session that is gone keeps nobody      *)
(* waiting, whatever its tasks were waiting for.                           *)
Ending == quiescer = "waiting" \/ closed \/ disposed
Over ==
    /\ quiescer # "waiting" /\ \A c \in Closers : closer[c] # "waiting"
    /\ ~Active => disposed /\ consumer = "idle" /\ roomWaiter = "idle"
SessionEnds == Ending ~> Over
=============================================================================
