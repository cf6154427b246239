--------------------------- MODULE SlidingSource ---------------------------
(***************************************************************************)
(* The Sliding Sync source of a durable session                            *)
(* (src/nio/durable/sliding.py; the sliding branches of                    *)
(* src/nio/durable/recovery.py and client.py; timeline_provenance and      *)
(* iter_sliding_sync of src/nio/client/sliding_sync.py).                   *)
(*                                                                         *)
(* One room whose user stays joined.  Its events are 1, 2, ...; the token  *)
(* n stands after event n.  A "cipher" event cannot be read until its key  *)
(* arrived, a "profile" event replaces the user's own member event, which  *)
(* is the proof that the membership continued (0: the join before the      *)
(* stream).  The connection's position lives in memory; what was accepted  *)
(* of the room is held in the store.  A response is retained and survives  *)
(* a restart until it is handled.                                          *)
(***************************************************************************)
EXTENDS Common, Naturals, Sequences, FiniteSets, FiniteSetsExt

CONSTANTS
    EventKinds,          \* kinds of events: "msg", "cipher", "profile"
    WindowSizes,    \* timeline limits a subscription may ask for
    MaxTimeline,    \* bound: events of the room
    MaxResets,      \* bound: lost positions, new subscriptions, restarts
    MaxErrors       \* bound: history pages that cannot be had

(* A response, and what is planned for it *)
Windows == [first : Nat, last : Nat, initial : BOOLEAN, limited : BOOLEAN, live : Nat,
            prev : Nat \cup {None}, state : SUBSET Nat]
Inputs == [room : Windows, phase : {"captured", "recover", "tail", "prepared"},
           from : Nat \cup {None}, recovered : BOOLEAN, history : BOOLEAN, prefix : Nat,
           applied : SUBSET Nat]

(* A window holds at least one of the room's events, if there is one. *)
ASSUME SlidingAssumption ==
    /\ MaxTimeline \in Nat /\ MaxResets \in Nat /\ MaxErrors \in Nat
    /\ WindowSizes \subseteq Nat \ {0} /\ WindowSizes # {} /\ None \notin Inputs

VARIABLES
    timeline,       \* the room's events on the server, by kind
    keyHere,        \* the key of the ciphers has arrived
    pos,            \* the position, or None: the next answer is initial
    windowSize,     \* the subscription's timeline limit
    generation, acceptedGeneration,
    requesting,        \* a request is out
    input,          \* the retained response and what is planned for it, or None
    held,           \* baselines[room]: token, proof, event_ids, window_ids; or None
    baseline,       \* metadata["baseline"]; None: no metadata of the room
    out,            \* history: records published, with their provenance
    handled,        \* history: the last event of the latest handled response
    promised,       \* history: events after this one must be published as news
    resets, errors

slidingVars == <<timeline, keyHere, pos, windowSize, generation, acceptedGeneration, requesting, input,
                 held, baseline, out, handled, promised, resets, errors>>
sourceState == <<pos, windowSize, generation, acceptedGeneration, requesting>>
roomState == <<held, baseline, out, handled, promised>>

Size == Len(timeline)
Profiles(S) == {e \in S : timeline[e] = "profile"}
(* the own member event that was current after event n *)
ProofAt(n) == Max({0} \cup Profiles(1..n))
Replaces(e) == ProofAt(e - 1)

-----------------------------------------------------------------------------
(* The server and the connection.                                          *)

EventSent(kind) ==
    /\ Size < MaxTimeline /\ timeline' = Append(timeline, kind)
    /\ UNCHANGED <<keyHere, sourceState, input, roomState, resets, errors>>

KeyReceived ==
    /\ ~keyHere /\ keyHere' = TRUE
    /\ UNCHANGED <<timeline, sourceState, input, roomState, resets, errors>>

Poll ==
    /\ input = None /\ ~requesting /\ requesting' = TRUE
    /\ UNCHANGED <<timeline, keyHere, pos, windowSize, generation, acceptedGeneration, input, roomState,
                   resets, errors>>

(* external: a window of the latest events; num_live counts the ones since *)
(* pos, the own member event is in required_state if it is new             *)
Window(first, previous) ==
    [first |-> first, last |-> Size, initial |-> pos = None,
     limited |-> IF pos = None THEN first > 1 ELSE first > pos + 1,
     live |-> IF pos = None THEN 0 ELSE Size - first + 1,
     prev |-> previous,
     state |-> IF pos = None THEN {ProofAt(Size)} ELSE Profiles((pos + 1)..Size)]
WindowStart ==
    Max({IF pos = None THEN 1 ELSE pos + 1, IF Size < windowSize THEN 1 ELSE Size - windowSize + 1})

(* _capture_response: the answer is retained as it is. *)
ReceiveWindow(previous) ==
    /\ requesting /\ requesting' = FALSE
    /\ pos # None => Size > pos
    /\ previous \in {None, WindowStart - 1}
    /\ input' = [room |-> Window(WindowStart, previous), phase |-> "captured", from |-> None,
                 recovered |-> FALSE, history |-> FALSE, prefix |-> 0, applied |-> {}]
    /\ acceptedGeneration' = generation
    /\ UNCHANGED <<timeline, keyHere, pos, windowSize, generation, roomState, resets, errors>>

(* M_UNKNOWN_POS: the server has forgotten the connection. *)
UnknownPosition ==
    /\ requesting /\ requesting' = FALSE /\ pos # None /\ pos' = None
    /\ resets < MaxResets /\ resets' = resets + 1
    /\ UNCHANGED <<timeline, keyHere, windowSize, generation, acceptedGeneration, input, roomState,
                   errors>>

(* The poll is cancelled; a response being handled must not set pos. *)
UpdateSlidingSubscriptions(n) ==
    /\ n # windowSize /\ windowSize' = n
    /\ resets < MaxResets /\ resets' = resets + 1
    /\ pos' = None /\ generation' = generation + 1 /\ requesting' = FALSE
    /\ UNCHANGED <<timeline, keyHere, acceptedGeneration, input, roomState, errors>>

(* What is retained and held stays; the connection starts anew. *)
RestartSession ==
    /\ resets < MaxResets /\ resets' = resets + 1
    /\ pos' = None /\ generation' = 0 /\ acceptedGeneration' = None /\ requesting' = FALSE
    /\ UNCHANGED <<timeline, keyHere, windowSize, input, roomState, errors>>

-----------------------------------------------------------------------------
(* Planning.                                                               *)

HeldProof == IF held = None THEN None ELSE held.proof
HeldIds == IF held = None THEN {} ELSE held.ids
LiveEvents(room) == (room.last - room.live + 1)..room.last

(* SlidingSource.membership: the proof, and whether it continues the held  *)
(* one: through the live member events, each of which must replace the one *)
(* before, or by replacing the held one itself.                            *)
NewProofs(room) == Profiles(LiveEvents(room)) \ (HeldIds \cup {HeldProof})
NewJoin(room) == NewProofs(room) # {} /\ Replaces(Min(NewProofs(room))) # HeldProof
OwnEvents(room) == room.state \cup Profiles(LiveEvents(room))
Proof(room) == IF OwnEvents(room) # {} THEN Max(OwnEvents(room)) ELSE HeldProof
Continues(room) ==
    /\ held # None
    /\ OwnEvents(room) # {} =>
        /\ ~NewJoin(room)
        /\ LET proof == Proof(room)
           IN  \/ proof = HeldProof \/ proof \in NewProofs(room)
               \/ proof # 0 /\ Replaces(proof) = HeldProof

(* Mutant: the events before the known window are not told apart. *)
HistoryPrefixNone(room) == 0

(* how many events of the window come before those seen in an earlier one *)
HistoryPrefix(room) ==
    LET observed == {e \in room.first..room.last : held # None /\ e \in held.window}
    IN  IF observed = {} THEN 0 ELSE Min(observed) - room.first

Gap(room) == room.initial \/ room.limited

Recoverable(room) == Gap(room) /\ Continues(room) /\ held.token # None /\ room.prev # None

(* A window that does not continue what is held is history; if the room    *)
(* was known that is a loss.                                               *)
Plan ==
    /\ input # None /\ input.phase = "captured"
    /\ LET room == input.room
           history == IF Gap(room) THEN ~Recoverable(room) ELSE baseline # TRUE
           loss == Gap(room) /\ history /\ baseline # None
       IN  /\ input' = [input EXCEPT
                !.phase = IF Recoverable(room) THEN "recover" ELSE "tail",
                !.from = IF Recoverable(room) THEN held.token ELSE None,
                !.recovered = Recoverable(room), !.history = history,
                !.prefix = HistoryPrefix(room), !.applied = HeldIds]
           /\ out' = IF loss THEN Append(out, [event |-> 0, how |-> "loss", plain |-> TRUE]) ELSE out
           /\ baseline' = IF loss THEN FALSE ELSE baseline
           /\ promised' = IF loss \/ (history /\ baseline = None) THEN room.last ELSE promised
    /\ UNCHANGED <<timeline, keyHere, sourceState, held, handled, resets, errors>>

-----------------------------------------------------------------------------
(* Recovering the gap between the held token and the window.               *)

Readable(e) == timeline[e] # "cipher" \/ keyHere
Record(e, how) == [event |-> e, how |-> how, plain |-> Readable(e)]

(* the elements of S in order, and records of the events how is about *)
Ordered(S) == [i \in 1..Cardinality(S) |-> CHOOSE e \in S : Cardinality({x \in S : x <= e}) = i]
Records(how) ==
    LET order == Ordered(DOMAIN how)
    IN  [i \in DOMAIN order |-> Record(order[i], how[order[i]])]

(* A page of the history; what the window or an earlier one has is left.   *)
RecoverPage(end) ==
    /\ input # None /\ input.phase = "recover"
    /\ LET room == input.room
           page == IF input.from >= room.prev THEN {} ELSE (input.from + 1)..end
           fresh == page \ (input.applied \cup (room.first..room.last))
       IN  /\ input.from < room.prev => end \in (input.from + 1)..room.prev
           /\ input.from >= room.prev => end = room.prev
           /\ out' = out \o Records([e \in fresh |-> "recovered"])
           /\ input' = [input EXCEPT !.phase = IF end = room.prev THEN "tail" ELSE "recover",
                                     !.from = end, !.applied = @ \cup fresh]
    /\ UNCHANGED <<timeline, keyHere, sourceState, held, baseline, handled, promised, resets, errors>>

(* The history cannot be had: a loss, and the window becomes history. *)
RecoverFails ==
    /\ input # None /\ input.phase = "recover" /\ input.from # input.room.prev
    /\ errors < MaxErrors /\ errors' = errors + 1
    /\ out' = Append(out, [event |-> 0, how |-> "loss", plain |-> TRUE])
    /\ baseline' = FALSE /\ promised' = input.room.last
    /\ input' = [input EXCEPT !.phase = "tail", !.history = TRUE]
    /\ UNCHANGED <<timeline, keyHere, sourceState, held, handled, resets>>

-----------------------------------------------------------------------------
(* The window itself.                                                      *)

Provenance(e) ==
    LET room == input.room
    IN  IF input.history \/ e - room.first < input.prefix THEN "history"
        ELSE IF e \in LiveEvents(room) THEN "live"
        ELSE IF input.recovered THEN "recovered" ELSE "history"

(* events that will not be shown again: read, or history *)
Settled(room) == {e \in room.first..room.last : Readable(e) \/ Provenance(e) = "history"}

NewToken(room) ==
    IF input.prefix # 0 /\ input.recovered /\ ~input.history THEN held.token
    ELSE IF Gap(room) \/ room.prev # None \/ held = None THEN room.prev
    ELSE held.token

Checkpoint(room) ==
    LET token == NewToken(room)
        same == held # None /\ token = held.token
        window == (room.first + input.prefix)..room.last
    IN  [token |-> token, proof |-> Proof(room),
         ids |-> IF same THEN held.ids \cup Settled(room) ELSE Settled(room),
         window |-> IF same THEN held.window \cup window ELSE window]

(* Mutant: a forgotten room leaves the connection where it is. *)
ForgottenPos(p) == p

(* forget_room: the connection starts anew *)
Forget(p) == None

(* _sliding_tail: the window's events that were not applied before, the    *)
(* checkpoint, the position.  Without a baseline the room is forgotten.    *)
SlidingTail ==
    /\ input # None /\ input.phase = "tail"
    /\ LET room == input.room
           fresh == (room.first..room.last) \ input.applied
           ready == Proof(room) # None /\ (room.initial \/ baseline = TRUE)
           reached == IF acceptedGeneration = generation THEN room.last ELSE pos
       IN  /\ out' = out \o Records([e \in fresh |-> Provenance(e)])
           /\ handled' = room.last
           /\ baseline' = ready
           /\ held' = IF ready THEN Checkpoint(room) ELSE None
           /\ pos' = IF ready THEN reached ELSE Forget(reached)
           /\ generation' = IF ready THEN generation ELSE generation + 1
    /\ input' = [input EXCEPT !.phase = "prepared"]
    /\ UNCHANGED <<timeline, keyHere, windowSize, acceptedGeneration, requesting, promised, resets, errors>>

FinishInput ==
    /\ input # None /\ input.phase = "prepared" /\ input' = None
    /\ UNCHANGED <<timeline, keyHere, sourceState, roomState, resets, errors>>

SlidingInit ==
    /\ timeline = <<>> /\ keyHere = FALSE /\ pos = None /\ windowSize = Min(WindowSizes)
    /\ generation = 0 /\ acceptedGeneration = None /\ requesting = FALSE /\ input = None
    /\ held = None /\ baseline = None /\ out = <<>> /\ handled = 0 /\ promised = 0
    /\ resets = 0 /\ errors = 0

SlidingNext ==
    \/ \E k \in EventKinds : EventSent(k)
    \/ \E n \in WindowSizes : UpdateSlidingSubscriptions(n)
    \/ KeyReceived \/ Poll \/ UnknownPosition \/ RestartSession \/ Plan
    \/ \E n \in {None} \cup 0..MaxTimeline : ReceiveWindow(n)
    \/ (\E n \in 0..MaxTimeline : RecoverPage(n)) \/ RecoverFails \/ SlidingTail \/ FinishInput

SlidingSpec == SlidingInit /\ [][SlidingNext]_slidingVars

(* a retained response is handled to its end *)
HandleInput ==
    Plan \/ (\E n \in 0..MaxTimeline : RecoverPage(n)) \/ RecoverFails \/ SlidingTail \/ FinishInput

-----------------------------------------------------------------------------
(* Properties.                                                             *)

News == {"live", "recovered"}

(* Through lost positions, changed windows and restarts an event is        *)
(* published as news at most once and in order, and never after it was     *)
(* published as history: only a cipher is published again, when it was not *)
(* readable.                                                               *)
SlidingOnce ==
    \A i, j \in DOMAIN out :
        i < j /\ out[j].how \in News /\ out[i].event >= out[j].event
            => \E k \in 1..(j - 1) : out[k].event = out[j].event /\ ~out[k].plain

(* Every event between the first contact, or the last loss the application *)
(* was told of, and the latest handled window was published as news.       *)
SlidingNoSilentGap ==
    \A e \in (promised + 1)..handled :
        \E i \in DOMAIN out : out[i].event = e /\ out[i].how \in News

(* The source catches up with the room and ends with a baseline, whatever  *)
(* was lost on the way.                                                    *)
SlidingCatchesUp == Size > 0 ~> [](handled = Size /\ baseline = TRUE)

(* Sliding delivery is exact: nothing twice, nothing missing silently. *)
SlidingExact == SlidingOnce /\ SlidingNoSilentGap

=============================================================================
