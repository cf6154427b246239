------------------------------ MODULE Recovery ------------------------------
(***************************************************************************)
(* The Classic sync source of a durable session: poll, capture, prepare,   *)
(* page through missed history, apply the tail, complete                   *)
(* (src/nio/durable/client.py run and _accept_response,                    *)
(* src/nio/durable/recovery.py).                                           *)
(*                                                                         *)
(* The server is a log of events, each in one room or addressed to this    *)
(* device; sync and history tokens are positions in the log.  A sync       *)
(* response carries, per room, at most TailLimit newest events after the   *)
(* request's position; older ones are fetched page by page from /messages. *)
(* Each transaction of the code is one step (module DurableStore shows why *)
(* that is sound); a crash or a failed transaction may come between any    *)
(* two of them.  stream is everything ever committed to the consumer, of   *)
(* which the first acked records are acknowledged.                         *)
(***************************************************************************)
EXTENDS Integers, Sequences, FiniteSets

CONSTANTS
    RoomOrder,      \* the joined rooms, in the order a response lists them
    Device,         \* the "room" of to-device messages
    None,
    MaxLog,         \* bound: events the server ever has
    TailLimit,      \* newest events of a room a sync response carries
    PageSize,       \* config.recovery_page_size
    MaxPages,       \* config.max_recovery_pages
    Big,            \* positions of events too large for one batch
    Filtered,       \* config.sync_filter is set
    Adopted,        \* cursors the session may start from
    MaxCrashes      \* bound: crashes and failed transactions

Rooms == {RoomOrder[i] : i \in 1..Len(RoomOrder)}
Positions == 0..MaxLog

(* A retained response and its continuation *)
Retained ==
    [since : Positions \cup {None}, full : BOOLEAN, upto : Positions,
     noBoundary : BOOLEAN, phase : {"new", "recover", "tail", "prepared"},
     history : SUBSET Rooms, unknown : SUBSET Rooms, prologue : BOOLEAN,
     index : 0..(Len(RoomOrder) + 1), from : Positions, pages : 0..MaxPages,
     limit : 0..PageSize, seen : SUBSET Positions,
     applied : [Rooms -> SUBSET Positions]]

ASSUME RecoveryAssumption ==
    /\ MaxLog \in Nat /\ TailLimit \in Nat /\ PageSize \in Nat \ {0}
    /\ MaxPages \in Nat /\ MaxCrashes \in Nat
    /\ Filtered \in BOOLEAN /\ Big \subseteq 1..MaxLog
    /\ RoomOrder \in Seq(Rooms)
    /\ \A i, j \in 1..Len(RoomOrder) : RoomOrder[i] = RoomOrder[j] => i = j
    /\ Device \notin Rooms /\ None \notin Rooms \cup Positions \cup Retained
    /\ Adopted \subseteq Positions \cup {None}

VARIABLES
    log,        \* server: room of each event
    cursor,     \* durable: NioDurableMeta.cursor
    baseline,   \* durable: rooms with an authorization baseline
    known,      \* durable: rooms with metadata
    input,      \* durable: the retained response and its continuation
    stream, acked,
    up,         \* volatile: the session is open
    pc,         \* volatile: the await the run loop is in
    request,    \* volatile: the poll in flight
    decoded,    \* volatile: recovery.response is set
    fullSeen,   \* volatile: recovery._complete_state_seen
    crashes,
    start,      \* history: position from which observation is promised
    excused     \* history: <<room, response>> pairs with a reason for a loss

durable == <<cursor, baseline, known, input, stream, acked>>
volatile == <<up, pc, request, decoded, fullSeen>>
history == <<start, excused>>
vars == <<log, durable, volatile, crashes, history>>

Base(since) == IF since = None THEN 0 ELSE since

-----------------------------------------------------------------------------
(* The retained response: what the server put in it *)
Events(r, from, upto) == {p \in (from + 1)..upto : log[p] = r}

Interval(r) == Events(r, Base(input.since), input.upto)

TailOf(r) ==
    {p \in Interval(r) : Cardinality({q \in Interval(r) : q >= p}) <= TailLimit}

(* Mutant: the limited flag is ignored. *)
LimitedIgnored(r) == FALSE

Limited(r) == TailOf(r) # Interval(r)

Smallest(S) == CHOOSE p \in S : \A q \in S : p <= q

PrevBatch(r) == IF TailOf(r) = {} THEN input.upto ELSE Smallest(TailOf(r)) - 1

Listed(r) == input.full \/ input.since = None \/ Interval(r) # {}

InOrder(S) ==
    CHOOSE q \in [1..Cardinality(S) -> S] : \A i, j \in DOMAIN q : i < j => q[i] < q[j]

(* A set of rooms, in the order of the response *)
ResponseOrder(rooms) ==
    LET places == {i \in 1..Len(RoomOrder) : RoomOrder[i] \in rooms}
    IN [k \in 1..Cardinality(places) |-> RoomOrder[InOrder(places)[k]]]

Candidates == ResponseOrder({r \in Rooms : Listed(r) /\ Limited(r)})

(* Records *)

EventRecord(r, p, provenance) ==
    [kind |-> "event", room |-> r, from |-> p - 1, upto |-> p, provenance |-> provenance]

LossRecord(r, in) ==
    [kind |-> "loss", room |-> r, from |-> Base(in.since), upto |-> in.upto,
     provenance |-> "none"]

CompleteRecord(in) ==
    [kind |-> IF in.full THEN "complete_full" ELSE "complete", room |-> Device,
     from |-> Base(in.since), upto |-> in.upto, provenance |-> "none"]

(* Mutant: newest first, as a backward page lists them. *)
EventRecordsBackward(r, S, provenance) ==
    [i \in 1..Cardinality(S) |-> EventRecord(r, InOrder(S)[Cardinality(S) + 1 - i], provenance)]

EventRecords(r, S, provenance) ==
    [i \in 1..Cardinality(S) |-> EventRecord(r, InOrder(S)[i], provenance)]

HasBatches == acked < Len(stream)

(* needs_full_state() *)
NeedsFullState ==
    /\ cursor # None
    /\ (known = {} /\ ~fullSeen) \/ ~(known \subseteq baseline)

-----------------------------------------------------------------------------
Init ==
    /\ log \in UNION {[1..n -> Rooms \cup {Device}] : n \in Positions}
    /\ cursor \in {c \in Adopted : Base(c) <= Len(log)}
    /\ baseline = {} /\ known = {}
    /\ input = None
    /\ stream = <<>> /\ acked = 0
    /\ up = TRUE /\ pc = "loop" /\ request = None
    /\ decoded = FALSE /\ fullSeen = FALSE
    /\ crashes = 0
    /\ start = cursor /\ excused = {}

(* Another event reaches the server *)
ServerEvent(r) ==
    /\ Len(log) < MaxLog
    /\ log' = Append(log, r)
    /\ UNCHANGED <<durable, volatile, crashes, history>>

(* The consumer acknowledges some of what it was shown, oldest first *)
Acknowledge ==
    /\ up /\ HasBatches
    /\ \E n \in (acked + 1)..Len(stream) : acked' = n
    /\ UNCHANGED <<log, cursor, baseline, known, input, stream, volatile, crashes, history>>

(* run(): the request of a poll is fixed when it is sent *)
Poll ==
    /\ up /\ pc = "loop" /\ ~HasBatches /\ input = None
    /\ pc' = "poll"
    /\ request' = [since |-> cursor, full |-> NeedsFullState]
    /\ UNCHANGED <<log, durable, up, decoded, fullSeen, crashes, history>>

(* Mutant: a response with news may be dropped like an empty one. *)
EmptyPollDrops ==
    /\ up /\ pc = "poll" /\ ~request.full
    /\ pc' = "loop" /\ request' = None
    /\ UNCHANGED <<log, durable, up, decoded, fullSeen, crashes, history>>

(* A long poll that finds nothing new; its empty completion is left out *)
EmptyPoll ==
    /\ up /\ pc = "poll" /\ ~request.full
    /\ request.since = Len(log)
    /\ pc' = "loop" /\ request' = None
    /\ UNCHANGED <<log, durable, up, decoded, fullSeen, crashes, history>>

(* The response: decoded, then captured with its request flags in one      *)
(* transaction.                                                            *)
Capture ==
    /\ up /\ pc = "poll"
    /\ \E upto \in Base(request.since)..Len(log), noBoundary \in BOOLEAN :
        /\ upto > Base(request.since) \/ request.full \/ request.since = None
        /\ input' = [since |-> request.since, full |-> request.full, upto |-> upto,
                     noBoundary |-> noBoundary, phase |-> "new",
                     history |-> {}, unknown |-> {}, prologue |-> FALSE,
                     index |-> 0, from |-> 0, pages |-> 0, limit |-> 0,
                     seen |-> {}, applied |-> [r \in Rooms |-> {}]]
    /\ decoded' = TRUE /\ pc' = "loop" /\ request' = None
    /\ UNCHANGED <<log, cursor, baseline, known, stream, acked, up, fullSeen, crashes, history>>

(* prepare() after a restart decodes the retained body again *)
Decode ==
    /\ up /\ pc = "loop" /\ ~HasBatches /\ input # None /\ ~decoded
    /\ input.phase # "prepared"
    /\ decoded' = TRUE
    /\ UNCHANGED <<log, durable, up, pc, request, fullSeen, crashes, history>>

-----------------------------------------------------------------------------
ToDevice(in) == EventRecords(Device, Events(Device, Base(in.since), in.upto), "none")

(* _next_room(): the history walk of a candidate starts at the old cursor *)
AtRoom(in, i) ==
    [in EXCEPT !.index = i, !.from = Base(in.since), !.pages = 0,
               !.seen = {Base(in.since)}, !.limit = PageSize,
               !.phase = IF i > Len(Candidates) THEN "tail" ELSE "recover"]

(* A committed recovery prologue must never decrypt its Olm input twice *)
TailToDevice(in) == IF in.prologue THEN <<>> ELSE ToDevice(in)

(* The events of the tail no page has brought: <<place of the room, position>>, *)
(* room after room                                                              *)
TailPlaces(in) ==
    {m \in (1..Len(RoomOrder)) \X (1..in.upto) :
        Listed(RoomOrder[m[1]]) /\ m[2] \in TailOf(RoomOrder[m[1]]) \ in.applied[RoomOrder[m[1]]]}

Precedes(m, n) == m[1] < n[1] \/ (m[1] = n[1] /\ m[2] < n[2])

TailEvent(in, m) ==
    EventRecord(RoomOrder[m[1]], m[2], IF RoomOrder[m[1]] \in in.history THEN "history" ELSE "live")

TailEvents(in) ==
    LET S == TailPlaces(in)
        q == CHOOSE q \in [1..Cardinality(S) -> S] :
                \A i, j \in DOMAIN q : i < j => Precedes(q[i], q[j])
    IN [k \in 1..Cardinality(S) |-> TailEvent(in, q[k])]

(* _tail() after the records in before: the new durable rows *)
ApplyTail(in, before) ==
    LET listed == {r \in Rooms : Listed(r)}
        complete == in.full \/ (in.since = None /\ ~Filtered)
    IN /\ \A r \in listed : (TailOf(r) \ in.applied[r]) \cap Big = {}
       /\ stream' = stream \o before \o TailToDevice(in) \o TailEvents(in)
       /\ baseline' = IF complete THEN baseline \cup listed ELSE baseline
       /\ known' = known \cup listed
       /\ cursor' = in.upto
       /\ input' = [in EXCEPT !.phase = "prepared"]
       /\ fullSeen' = (fullSeen \/ complete)
       /\ start' = IF in.since = None THEN in.upto ELSE start

(* The losses of the rooms without a baseline *)
Losses(in) ==
    LET rooms == ResponseOrder(in.unknown)
    IN [k \in 1..Len(rooms) |-> LossRecord(rooms[k], in)]

(* prepare() of a new response: report rooms without a baseline, then      *)
(* commit the to-device prologue if history is missing, or the tail.       *)
Prepare ==
    /\ up /\ pc = "loop" /\ ~HasBatches /\ input # None /\ decoded
    /\ input.phase = "new"
    /\ LET unknown == {r \in Rooms : Listed(r) /\ r \notin baseline}
           in == [input EXCEPT !.history = unknown, !.unknown = unknown]
           losses == IF cursor = None THEN <<>> ELSE Losses(in)
       IN /\ \/ /\ cursor # None /\ Candidates # <<>>
                /\ input' = AtRoom([in EXCEPT !.prologue = TRUE], 1)
                /\ stream' = stream \o ToDevice(in) \o losses
                /\ known' = known \cup unknown
                /\ UNCHANGED <<baseline, cursor, fullSeen, start>>
             \/ /\ cursor = None \/ Candidates = <<>>
                /\ ApplyTail(in, losses)
          /\ excused' = excused \cup {<<r, in.upto>> : r \in unknown}
    /\ UNCHANGED <<log, acked, up, pc, request, decoded, crashes>>

(* the retained tail holds an event no batch can carry *)
TailOversized ==
    \E r \in Rooms : Listed(r) /\ (TailOf(r) \ input.applied[r]) \cap Big # {}

(* _publish_records() refuses an oversized event of the tail, and the      *)
(* failed transaction poisons the session.                                 *)
TailRefused ==
    /\ up /\ pc = "loop" /\ ~HasBatches /\ input # None /\ decoded
    /\ \/ input.phase = "tail"
       \/ input.phase = "new" /\ (cursor = None \/ Candidates = <<>>)
    /\ TailOversized
    /\ up' = FALSE /\ decoded' = FALSE /\ fullSeen' = FALSE
    /\ UNCHANGED <<log, durable, pc, request, crashes, history>>

PrepareTail ==
    /\ up /\ pc = "loop" /\ ~HasBatches /\ input # None /\ decoded
    /\ input.phase = "tail"
    /\ ApplyTail(input, <<>>)
    /\ UNCHANGED <<log, acked, up, pc, request, decoded, crashes, excused>>

-----------------------------------------------------------------------------
Room == Candidates[input.index]

(* Mutant: a loss leaves the rest of the response live. *)
FenceMissing(in) == in.history

(* _loss(): the room's events are history for the rest of the response *)
Fence(in) == in.history \cup {Room}

(* _commit_page(): the events of a page up to the first oversized one, the *)
(* loss if there is one, and the next position, in one transaction.        *)
CommitPage(in, S, end, done, loss, excuse) ==
    LET stop == S \cap Big # {}
        cut == Smallest(S \cap Big)
        kept == IF stop THEN {p \in S : p < cut} ELSE S
        lost == loss \/ stop
        next == [in EXCEPT
                   !.applied[Room] = IF stop THEN @ \ {p \in S : p > cut} ELSE @,
                   !.history = IF lost THEN Fence(in) ELSE @]
        provenance == IF Room \in in.history THEN "history" ELSE "recovered"
    IN /\ stream' = stream \o EventRecords(Room, kept, provenance)
                      \o (IF lost THEN <<LossRecord(Room, in)>> ELSE <<>>)
       /\ baseline' = IF lost THEN baseline \ {Room} ELSE baseline
       /\ known' = IF lost THEN known \cup {Room} ELSE known
       /\ input' = IF done \/ stop THEN AtRoom(next, next.index + 1)
                   ELSE [next EXCEPT !.from = end]
       /\ excused' = IF excuse \/ stop THEN excused \cup {<<Room, in.upto>>} ELSE excused
       /\ UNCHANGED <<cursor, acked, start>>

Walking == up /\ ~HasBatches /\ input # None /\ decoded /\ input.phase = "recover"

(* advance() without a request: reported before, arrived, or given up *)
SkipRoom ==
    /\ Walking /\ pc = "loop"
    /\ \/ /\ Room \in input.unknown
          /\ CommitPage(input, {}, None, TRUE, FALSE, FALSE)
       \/ /\ Room \notin input.unknown /\ ~input.noBoundary
          /\ input.from = PrevBatch(Room)
          /\ CommitPage(input, {}, None, TRUE, FALSE, FALSE)
       \/ /\ Room \notin input.unknown
          /\ \/ input.noBoundary
             \/ input.from # PrevBatch(Room) /\ input.pages >= MaxPages
          /\ CommitPage(input, {}, None, TRUE, TRUE, TRUE)
    /\ UNCHANGED <<log, volatile, crashes>>

RequestPage ==
    /\ Walking /\ pc = "loop"
    /\ Room \notin input.unknown /\ ~input.noBoundary
    /\ input.from # PrevBatch(Room) /\ input.pages < MaxPages
    /\ pc' = "page"
    /\ UNCHANGED <<log, durable, up, request, decoded, fullSeen, crashes, history>>

Narrowed(limit) == limit \div 2

(* A page over its byte or event limit halves the window; at one event it  *)
(* is a loss.                                                              *)
PageTooLarge ==
    /\ Walking /\ pc = "page" /\ pc' = "loop"
    /\ \/ /\ input.limit > 1
          /\ input' = [input EXCEPT !.limit = Narrowed(@)]
          /\ UNCHANGED <<cursor, baseline, known, stream, acked, history>>
       \/ /\ input.limit <= 1
          /\ CommitPage(input, {}, None, TRUE, TRUE, TRUE)
    /\ UNCHANGED <<log, up, request, decoded, fullSeen, crashes>>

(* Unavailable or malformed history, or a page whose identities would take*)
(* the continuation over CONTROL_BYTES and is therefore not applied.       *)
PageFails ==
    /\ Walking /\ pc = "page" /\ pc' = "loop"
    /\ CommitPage(input, {}, None, TRUE, TRUE, TRUE)
    /\ UNCHANGED <<log, up, request, decoded, fullSeen, crashes>>

(* Mutant: everything in the page but the tail itself is applied. *)
FreshPastOverlap(chunk, overlap) == chunk \ (input.applied[Room] \cup overlap)

(* New events of a page before the first one the tail also carries *)
Fresh(chunk, overlap) ==
    {p \in chunk \ input.applied[Room] : \A q \in overlap : p < q}

Arrived(end, overlap) == end = PrevBatch(Room) \/ overlap # {}

(* A page of the room's events after from, up to some position end of the  *)
(* server's choosing; end is absent when the log has no more of them.      *)
PageArrives ==
    /\ Walking /\ pc = "page" /\ pc' = "loop"
    /\ \E last \in input.from..Len(log), absent \in BOOLEAN :
        LET chunk == Events(Room, input.from, last)
            overlap == chunk \cap TailOf(Room)
            end == IF absent THEN None ELSE last
            fresh == Fresh(chunk, overlap)
            done == Arrived(end, overlap)
            stuck == ~done /\ (end = None \/ end \in input.seen)
            in == [input EXCEPT
                     !.pages = @ + 1,
                     !.applied[Room] = @ \cup fresh,
                     !.seen = IF ~done /\ ~stuck THEN @ \cup {end} ELSE @]
        IN /\ Cardinality(chunk) <= input.limit
           /\ absent => Events(Room, last, Len(log)) = {}
           /\ CommitPage(in, fresh, end, done \/ stuck, stuck, last = input.from)
    /\ UNCHANGED <<log, up, request, decoded, fullSeen, crashes>>

-----------------------------------------------------------------------------
(* run(): after crypto maintenance the input is dropped and its completion *)
(* published in one transaction.                                           *)
Complete ==
    /\ up /\ pc = "loop" /\ ~HasBatches /\ input # None
    /\ input.phase = "prepared"
    /\ input' = None /\ decoded' = FALSE
    /\ stream' = Append(stream, CompleteRecord(input))
    /\ UNCHANGED <<log, cursor, baseline, known, acked, up, pc, request, fullSeen, crashes, history>>

(* A crash, or a failed transaction: the session is disposed of *)
Crash ==
    /\ up /\ crashes < MaxCrashes
    /\ crashes' = crashes + 1
    /\ up' = FALSE /\ pc' = "loop" /\ request' = None
    /\ decoded' = FALSE /\ fullSeen' = FALSE
    /\ UNCHANGED <<log, durable, history>>

Reopen ==
    /\ ~up
    /\ up' = TRUE
    /\ UNCHANGED <<log, durable, pc, request, decoded, fullSeen, crashes, history>>

SessionStep ==
    \/ Poll \/ EmptyPoll \/ Capture \/ Decode \/ Prepare \/ PrepareTail \/ TailRefused
    \/ SkipRoom \/ RequestPage \/ PageTooLarge \/ PageFails \/ PageArrives
    \/ Complete \/ Reopen

Next ==
    \/ \E r \in Rooms \cup {Device} : ServerEvent(r)
    \/ Acknowledge
    \/ SessionStep
    \/ Crash

Spec == Init /\ [][Next]_vars

(* The event loop keeps running the session, the server answers every      *)
(* request in some way, the consumer acknowledges, and a closed session is *)
(* reopened.                                                               *)
FairSpec == Spec /\ WF_vars(SessionStep) /\ WF_vars(Acknowledge)
-----------------------------------------------------------------------------
Provenances == {"live", "recovered", "history", "none"}

Record == [kind : {"event", "loss", "complete", "complete_full"},
           room : Rooms \cup {Device}, from : Positions, upto : Positions,
           provenance : Provenances]

(* Every variable holds what the code can put there; in particular the     *)
(* retained continuation keeps its page and window bounds across restarts. *)
TypeOK ==
    /\ log \in Seq(Rooms \cup {Device}) /\ Len(log) <= MaxLog
    /\ cursor \in Positions \cup {None}
    /\ baseline \subseteq Rooms /\ known \subseteq Rooms
    /\ input \in Retained \cup {None}
    /\ stream \in Seq(Record) /\ acked \in 0..Len(stream)
    /\ up \in BOOLEAN /\ pc \in {"loop", "poll", "page"}
    /\ request \in [since : Positions \cup {None}, full : BOOLEAN] \cup {None}
    /\ decoded \in BOOLEAN /\ fullSeen \in BOOLEAN
    /\ crashes \in 0..MaxCrashes
    /\ start \in Positions \cup {None}
    /\ excused \subseteq Rooms \X Positions

EventAt(i, p) == stream[i].kind = "event" /\ stream[i].upto = p

(* Every event behind the committed cursor was committed to the consumer,  *)
(* or a loss for its room covers it: crashes, page limits and malformed    *)
(* pages never open a silent gap.                                          *)
NoSilentGap ==
    start # None =>
        \A p \in (start + 1)..Base(cursor) : \E i \in 1..Len(stream) :
            \/ EventAt(i, p)
            \/ /\ stream[i].kind = "loss" /\ stream[i].room = log[p]
               /\ stream[i].from < p /\ p <= stream[i].upto

(* The events of a room, and the to-device messages, are committed in the  *)
(* order of the server's log and never twice: not by two pages, by a page  *)
(* and the tail, by prologue and tail after a restart, or by two responses.*)
Chronological ==
    \A i, j \in 1..Len(stream) :
        /\ i < j /\ stream[i].room = stream[j].room
        /\ stream[i].kind = "event" /\ stream[j].kind = "event"
        => stream[i].upto < stream[j].upto

(* After a loss, no event of the room is presented as live or recovered    *)
(* before a full-state response has been completed.                        *)
Fenced ==
    \A i, j \in 1..Len(stream) :
        /\ i < j /\ stream[i].kind = "loss" /\ stream[j].kind = "event"
        /\ stream[i].room = stream[j].room
        /\ stream[j].provenance \in {"live", "recovered"}
        => \E k \in (i + 1)..(j - 1) : stream[k].kind = "complete_full"

(* Losses have a reason: no baseline, a page the server failed to supply,  *)
(* an exhausted bound or an oversized event; restarts are not a reason.    *)
LossExcused ==
    \A i \in 1..Len(stream) :
        stream[i].kind = "loss" => <<stream[i].room, stream[i].upto>> \in excused

(* Both at once: a loss is reported for a reason only, and what follows it *)
(* in its room stays history until full state has been completed.          *)
LossHandled == Fenced /\ LossExcused

(* What was interpreted belongs to the captured response: later events of  *)
(* a page stay outside its interval.                                       *)
WithinInput ==
    \A i \in 1..Len(stream) : stream[i].kind = "event" =>
        \/ stream[i].upto <= Base(cursor)
        \/ input # None /\ stream[i].upto <= input.upto

(* Whatever pages, page sizes, failures and restarts happen, captured      *)
(* responses are completed and the session catches up with the server;     *)
(* only an oversized event of a tail stops it, and then every reopened     *)
(* session meets the same input.                                           *)
CatchesUp == <>[](cursor = Len(log) \/ (input # None /\ TailOversized))
=============================================================================
