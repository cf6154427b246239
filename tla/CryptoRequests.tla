--------------------------- MODULE CryptoRequests ---------------------------
(***************************************************************************)
(* Crypto work of a durable session: one retained HTTP request shared by   *)
(* maintenance and the public calls (src/nio/durable/crypto.py,            *)
(* src/nio/durable/outbound.py, src/nio/crypto/to_device.py).              *)
(*                                                                         *)
(* Every transaction is one step and ends with capture(), which copies the *)
(* work of the live Olm machine to the database; a crash loses the live    *)
(* copy and what is in flight.  Sync runs while a request is on the wire.  *)
(* A device list is a version number on the server (0: no device of the    *)
(* user is stored here); the peer of Olm messages is one own device.       *)
(* A message is its content (numbered as made), its transaction id, and    *)
(* whether the application still holds that very object.                   *)
(***************************************************************************)
EXTENDS Common, Naturals, Sequences, FiniteSets

CONSTANTS
    Users,          \* users whose device lists may change
    Resident,       \* users the client knows as members of encrypted rooms
    Peer,           \* the user whose device Olm messages go to
    MessageId,      \* transaction ids a caller may choose for a message
    SealedId,       \* and for an encrypted operation
    MaxVersion,     \* bound: versions of a device list
    MaxMade,        \* bound: to-device messages ever made
    MaxCalls,       \* bound: calls of the application
    MaxFaults,      \* bound: failed, partial or repeated exchanges
    MaxCrashes      \* bound: crashes

Kinds == {"upload", "query", "claim", "to_device"}
TransactionIds == Nat \cup {MessageId, SealedId}
RequestRecords == [kind : Kinds, users : SUBSET Users, txn : TransactionIds \cup {None},
                   op : {None, "sealed"}]

ASSUME CryptoRequestsAssumption ==
    /\ Resident \subseteq Users /\ Peer \in Users
    /\ MessageId # SealedId /\ None \notin TransactionIds /\ None \notin RequestRecords
    /\ MaxVersion \in Nat \ {0} /\ {MaxMade, MaxCalls, MaxFaults, MaxCrashes} \subseteq Nat

VARIABLES
    server,         \* the newest version of each user's device list
    unannounced,    \* users whose change the next sync answer lists
    syncInput,      \* captured sync input: what it says of devices, and phase
    olm,            \* the live machine's pending work
    facts,          \* the captured copy of it (NioDurableCrypto, "facts")
    request,        \* the retained request (NioDurableCrypto, "request")
    known,          \* stored version of each user's device list
    session,        \* an Olm session with the peer is stored
    tracked,        \* Olm.tracked_users, not stored
    task,           \* who holds _crypto_lock, and how far it is
    due,            \* maintenance_due
    wire,           \* "idle", "sent" or "answered"
    reply,         \* what the server answered
    sent,           \* <<transaction id, content>> pairs the server was sent
    minted, produced,   \* transaction ids and messages handed out so far
    missed,         \* history: changes dropped while an answer was in flight
    polling,        \* a poll of the sync source is in flight
    calls, faults, crashes, alive

requestVars == <<server, unannounced, syncInput, olm, facts, request, known, session,
                 tracked, task, due, wire, reply, sent, minted, produced, missed,
                 polling, calls, faults, crashes, alive>>

NoInput == [phase |-> "none", changed |-> {}, news |-> "nothing"]
NoAnswer == [versions |-> <<>>, ok |-> TRUE]
NoWork == [dirty |-> {}, messages |-> <<>>, wedged |-> FALSE, rerequest |-> FALSE,
          asked |-> "no", low |-> FALSE]
NoTask == [plan |-> "none", step |-> "start", last |-> "none", ok |-> TRUE,
           completed |-> {}, users |-> {}, tx |-> None]

-----------------------------------------------------------------------------
(* Retained messages and capture.                                          *)

Unretained(o) == {i \in DOMAIN o.messages : o.messages[i].txn = None}

(* Mutant: every capture hands out new transaction ids. *)
RetainMessagesAgain(o) ==
    [o EXCEPT !.messages = [i \in DOMAIN @ |-> [@[i] EXCEPT !.txn = minted + i]]]

(* A message keeps the id it was first retained under. *)
RetainMessages(o) ==
    [o EXCEPT !.messages =
        [i \in DOMAIN @ |->
            IF @[i].txn # None THEN @[i]
            ELSE [@[i] EXCEPT !.txn = minted + Cardinality({j \in Unretained(o) : j <= i})]]]

Capture(o) ==
    /\ olm' = RetainMessages(o)
    /\ facts' = RetainMessages(o)
    /\ minted' = minted + Cardinality(Unretained(o))

Message(kind, n, mine) == [kind |-> kind, content |-> n, txn |-> None, mine |-> mine]
Queue(o, kind, n) == [o EXCEPT !.messages = Append(@, Message(kind, n, FALSE))]

-----------------------------------------------------------------------------
(* The requests.                                                           *)

(* a request refers to its message by transaction id; op is the encrypted  *)
(* operation it carries                                                    *)
Request(kind, users, txn, op) == [kind |-> kind, users |-> users, txn |-> txn, op |-> op]

ShouldClaim == olm.wedged \/ olm.asked = "waiting"

(* The queried users stop being dirty when the request is made, so that    *)
(* one that changes meanwhile is dirty again.                              *)
EnqueueQuery(users) ==
    /\ request' = Request("query", users, None, None)
    /\ Capture([olm EXCEPT !.dirty = @ \ users])

EnqueueUpload == request' = Request("upload", {}, None, None) /\ Capture(olm)
EnqueueClaim == request' = Request("claim", {}, None, None) /\ Capture(olm)

(* A message the machine already queued keeps its place; another one is    *)
(* appended and retained under the caller's id or a new one.               *)
EnqueueOwn(m, tx, op) ==
    LET o == [olm EXCEPT !.messages =
                Append(@, [m EXCEPT !.txn = IF tx = None THEN minted + 1 ELSE tx])]
    IN /\ request' = Request("to_device", {}, IF tx = None THEN minted + 1 ELSE tx, op)
       /\ olm' = o /\ facts' = o
       /\ minted' = IF tx = None THEN minted + 1 ELSE minted

EnqueueQueued ==
    /\ request' = Request("to_device", {}, RetainMessages(olm).messages[1].txn, None)
    /\ Capture(olm)

(* next_request: what maintenance sends next, each kind but messages once. *)
NextRequest(completed) ==
    \/ olm.messages # <<>> /\ EnqueueQueued
    \/ olm.messages = <<>> /\ olm.low /\ "upload" \notin completed /\ EnqueueUpload
    \/ /\ olm.messages = <<>> /\ (olm.low => "upload" \in completed)
       /\ olm.dirty # {} /\ "query" \notin completed /\ EnqueueQuery(olm.dirty)
    \/ /\ olm.messages = <<>> /\ (olm.low => "upload" \in completed)
       /\ (olm.dirty # {} => "query" \in completed)
       /\ ShouldClaim /\ "claim" \notin completed /\ EnqueueClaim

NothingLeft(completed) ==
    /\ olm.messages = <<>>
    /\ olm.low => "upload" \in completed
    /\ olm.dirty # {} => "query" \in completed
    /\ ShouldClaim => "claim" \in completed

-----------------------------------------------------------------------------
(* The lock holder.  A call first finishes a pending request.              *)

Free == alive /\ task = NoTask
Ready(plan) == alive /\ task.plan = plan /\ wire = "idle"
SendAs(step) == wire' = "sent" /\ task' = [task EXCEPT !.step = step]

(* the runner: captured input first, then what keeps maintenance due *)
NeedsMaintenance == due \/ request # None \/ olm.messages # <<>>
StartMaintain ==
    /\ Free /\ ~polling
    /\ IF syncInput.phase = "none" THEN NeedsMaintenance ELSE syncInput.phase = "applied"
    /\ task' = [NoTask EXCEPT !.plan = "maintain"] /\ due' = FALSE
    /\ UNCHANGED <<server, unannounced, syncInput, olm, facts, request, known, session, tracked,
                   wire, reply, sent, minted, produced, missed, polling, calls, faults, crashes, alive>>

MaintainNext ==
    /\ Ready("maintain")
    /\ IF request # None THEN UNCHANGED <<request, olm, facts, minted>>
       ELSE NextRequest(task.completed)
    /\ SendAs("own")
    /\ UNCHANGED <<server, unannounced, syncInput, known, session, tracked, due, reply, sent,
                   produced, missed, polling, calls, faults, crashes, alive>>

(* Mutant: the captured input is not marked as finished. *)
MaintainEndsUnfinished ==
    /\ Ready("maintain") /\ request = None /\ NothingLeft(task.completed)
    /\ Capture(olm)
    /\ task' = NoTask /\ syncInput' = syncInput
    /\ UNCHANGED <<server, unannounced, request, known, session, tracked, due, wire, reply,
                   sent, produced, missed, polling, calls, faults, crashes, alive>>

(* Nothing is left to send: the captured input, if any, is finished. *)
MaintainEnds ==
    /\ Ready("maintain") /\ request = None /\ NothingLeft(task.completed)
    /\ Capture(olm)
    /\ task' = NoTask /\ syncInput' = NoInput
    /\ UNCHANGED <<server, unannounced, request, known, session, tracked, due, wire, reply,
                   sent, produced, missed, polling, calls, faults, crashes, alive>>

ClientCall(plan, users, tx) ==
    /\ Free /\ calls < MaxCalls
    /\ task' = [NoTask EXCEPT !.plan = plan, !.users = users, !.tx = tx]
    /\ calls' = calls + 1
    /\ UNCHANGED <<server, unannounced, syncInput, olm, facts, request, known, session, tracked,
                   due, wire, reply, sent, minted, produced, missed, polling, faults, crashes, alive>>

Calling == task.plan \notin {"none", "maintain"} /\ Ready(task.plan)

(* The pending request is the caller's own: the same object, or the same   *)
(* transaction id, or the same encrypted operation asked for without one.  *)
IsOwn ==
    \/ /\ task.plan = "message"
       /\ \/ task.tx # None /\ request.txn = task.tx
          \/ \E i \in DOMAIN olm.messages : olm.messages[i].mine /\ olm.messages[i].txn = request.txn
    \/ task.plan = "sealed" /\ request.op = "sealed" /\ task.tx \in {None, request.txn}

FinishPending ==
    /\ Calling /\ task.step = "start" /\ request # None
    /\ SendAs(IF IsOwn THEN "own" ELSE "pending")
    /\ UNCHANGED <<server, unannounced, syncInput, olm, facts, request, known, session, tracked,
                   due, reply, sent, minted, produced, missed, polling, calls, faults, crashes, alive>>

(* the pending request answered the call: an upload, or a query of no      *)
(* particular users                                                        *)
Answered ==
    /\ task.step = "pending" /\ task.last = task.plan
    /\ task.plan = "upload" \/ (task.plan = "query" /\ task.users = {})
Fresh == \/ task.step = "start" /\ request = None
         \/ task.step = "pending" /\ ~Answered

ToQuery == IF task.users = {} THEN olm.dirty ELSE task.users
Encrypts == task.step \in {"query", "claim"} /\ task.ok /\ session

CallStep ==
    /\ Calling
    /\ \/ Fresh /\ task.plan = "query" /\ ToQuery # {} /\ EnqueueQuery(ToQuery)
          /\ SendAs("own") /\ produced' = produced
       \/ Fresh /\ task.plan = "upload" /\ olm.low /\ EnqueueUpload
          /\ SendAs("own") /\ produced' = produced
       \/ Fresh /\ task.plan = "claim" /\ EnqueueClaim /\ SendAs("own") /\ produced' = produced
       \/ Fresh /\ task.plan = "message" /\ produced < MaxMade /\ produced' = produced + 1
          /\ EnqueueOwn(Message("own", produced + 1, TRUE), task.tx, None) /\ SendAs("own")
       \/ Fresh /\ task.plan = "sealed" /\ EnqueueQuery({Peer}) /\ SendAs("query") /\ produced' = produced
       \/ task.step = "query" /\ task.ok /\ ~session /\ EnqueueClaim
          /\ SendAs("claim") /\ produced' = produced
       \/ Encrypts /\ produced < MaxMade /\ produced' = produced + 1
          /\ EnqueueOwn(Message("own", produced + 1, FALSE), task.tx, "sealed") /\ SendAs("own")
    /\ UNCHANGED <<server, unannounced, syncInput, known, session, tracked, due, reply, sent,
                   missed, polling, calls, faults, crashes, alive>>

(* The call returns: answered, nothing to do, or the encrypted operation's *)
(* recipient cannot be resolved or has no session.                         *)
CallEnds ==
    /\ Calling
    /\ \/ task.step = "own" \/ Answered
       \/ Fresh /\ task.plan = "query" /\ ToQuery = {}
       \/ Fresh /\ task.plan = "upload" /\ ~olm.low
       \/ task.step \in {"query", "claim"} /\ ~Encrypts
       \/ task.plan \in {"message", "sealed"} /\ produced >= MaxMade
    /\ task' = NoTask
    /\ UNCHANGED <<server, unannounced, syncInput, olm, facts, request, known, session, tracked,
                   due, wire, reply, sent, minted, produced, missed, polling, calls, faults, crashes, alive>>

(* A list of joined members arrives for an encrypted room. *)
LookUpMembers(users) ==
    /\ Free /\ calls < MaxCalls /\ calls' = calls + 1
    /\ Capture([olm EXCEPT !.dirty = @ \cup (users \ tracked)])
    /\ UNCHANGED <<server, unannounced, syncInput, request, known, session, tracked, task, due,
                   wire, reply, sent, produced, missed, polling, faults, crashes, alive>>

(* Continuing a request of an unverified own device shares the key, or     *)
(* waits for a session; cancelling forgets it.                             *)
ChangeKeyShare(cancel) ==
    /\ alive /\ olm.asked = "untrusted" /\ produced < MaxMade /\ calls < MaxCalls /\ calls' = calls + 1
    /\ IF cancel THEN Capture([olm EXCEPT !.asked = "no"]) /\ produced' = produced
       ELSE IF session THEN /\ Capture([Queue(olm, "share", produced + 1) EXCEPT !.asked = "no"])
                            /\ produced' = produced + 1
       ELSE Capture([olm EXCEPT !.asked = "waiting"]) /\ produced' = produced
    /\ due' = TRUE /\ polling' = FALSE
    /\ UNCHANGED <<server, unannounced, syncInput, request, known, session, tracked, task, wire,
                   reply, sent, missed, faults, crashes, alive>>

-----------------------------------------------------------------------------
(* The wire and the server.                                                *)

ServerChange(u) ==
    /\ server[u] < MaxVersion
    /\ server' = [server EXCEPT ![u] = @ + 1] /\ unannounced' = unannounced \cup {u}
    /\ UNCHANGED <<syncInput, olm, facts, request, known, session, tracked, task, due, wire,
                   reply, sent, minted, produced, missed, polling, calls, faults, crashes, alive>>

(* A key query may leave users out, a key claim may bring no key. *)
ServerAnswers(users, ok) ==
    /\ wire = "sent" /\ wire' = "answered"
    /\ users \subseteq request.users
    /\ request.kind # "claim" => ok
    /\ faults' = IF users = request.users /\ ok THEN faults ELSE faults + 1
    /\ faults' <= MaxFaults
    /\ reply' = [versions |-> [u \in users |-> server[u]], ok |-> ok]
    /\ sent' = IF request.kind # "to_device" THEN sent
               ELSE sent \cup {<<request.txn, olm.messages[i].content>> :
                        i \in {j \in DOMAIN olm.messages : olm.messages[j].txn = request.txn}}
    /\ UNCHANGED <<server, unannounced, syncInput, olm, facts, request, known, session, tracked,
                   task, due, minted, produced, missed, polling, calls, crashes, alive>>

(* The transport sends the same body again after a lost answer. *)
SendAgain ==
    /\ wire = "answered" /\ faults < MaxFaults /\ faults' = faults + 1
    /\ wire' = "sent" /\ reply' = NoAnswer
    /\ UNCHANGED <<server, unannounced, syncInput, olm, facts, request, known, session, tracked,
                   task, due, sent, minted, produced, missed, polling, calls, crashes, alive>>

(* The transport gives up, or the task is cancelled: the request stays. *)
Abandon ==
    /\ wire # "idle" /\ faults < MaxFaults /\ faults' = faults + 1
    /\ wire' = "idle" /\ reply' = NoAnswer /\ task' = NoTask
    /\ UNCHANGED <<server, unannounced, syncInput, olm, facts, request, known, session, tracked,
                   due, sent, minted, produced, missed, polling, calls, crashes, alive>>

-----------------------------------------------------------------------------
(* apply: the answer changes the machine, the request is deleted, and the *)
(* new work is captured, in one transaction.                               *)

QueryApplied == [olm EXCEPT !.dirty = @ \cup (request.users \ DOMAIN reply.versions)]

(* a key unwedges the device, which is told so, and lets the waiting key   *)
(* request go on                                                           *)
Unwedged == IF olm.wedged THEN [Queue(olm, "dummy", produced + 1) EXCEPT !.wedged = FALSE] ELSE olm
ClaimApplied ==
    IF ~reply.ok THEN olm
    ELSE IF olm.asked # "waiting" THEN Unwedged
    ELSE [Queue(Unwedged, "share", produced + (IF olm.wedged THEN 2 ELSE 1)) EXCEPT !.asked = "no"]

(* the message that is retained under the request's id *)
SentAt == CHOOSE i \in DOMAIN olm.messages : olm.messages[i].txn = request.txn

(* the sent message leaves the queue; a dummy one releases the key         *)
(* requests its wedged session held back                                   *)
MessageApplied ==
    LET rest == [olm EXCEPT !.messages =
                    [i \in 1..(Len(@) - 1) |-> IF i < SentAt THEN @[i] ELSE @[i + 1]]]
    IN IF olm.messages[SentAt].kind = "dummy" /\ olm.rerequest
       THEN [Queue(rest, "rekey", produced + 1) EXCEPT !.rerequest = FALSE]
       ELSE rest

Applied ==
    CASE request.kind = "query" -> QueryApplied
      [] request.kind = "claim" -> ClaimApplied
      [] request.kind = "to_device" -> MessageApplied
      [] request.kind = "upload" -> [olm EXCEPT !.low = FALSE]

(* the messages that were made: what the queue gained, but for the sent one *)
NewlyMade ==
    Len(Applied.messages) + (IF request.kind = "to_device" THEN 1 ELSE 0) - Len(olm.messages)

Receive ==
    /\ alive /\ wire = "answered"
    /\ Capture(Applied) /\ produced' = produced + NewlyMade
    /\ known' = [u \in Users |->
                    IF request.kind = "query" /\ u \in DOMAIN reply.versions
                    THEN reply.versions[u] ELSE known[u]]
    /\ tracked' = IF request.kind = "query" THEN tracked \cup DOMAIN reply.versions ELSE tracked
    /\ session' = (session \/ (request.kind = "claim" /\ reply.ok))
    /\ request' = None /\ wire' = "idle" /\ reply' = NoAnswer
    /\ task' = [task EXCEPT
                    !.completed = IF task.plan = "maintain" THEN @ \cup {request.kind} ELSE @,
                    !.last = IF task.step = "pending" THEN request.kind ELSE @,
                    !.ok = IF task.step = "query" THEN Peer \in DOMAIN reply.versions ELSE @]
    /\ UNCHANGED <<server, unannounced, syncInput, due, sent, missed, polling, calls, faults, crashes, alive>>

-----------------------------------------------------------------------------
(* The sync source.                                                        *)

(* With nothing captured and no work due, the runner asks for more. *)
StartPoll ==
    /\ alive /\ ~polling /\ syncInput.phase = "none" /\ ~NeedsMaintenance
    /\ task.plan # "maintain"
    /\ polling' = TRUE
    /\ UNCHANGED <<server, unannounced, syncInput, olm, facts, request, known, session, tracked,
                   task, due, wire, reply, sent, minted, produced, missed, calls, faults, crashes, alive>>

(* The poll answers, whatever was called meanwhile; the input is captured  *)
(* before it is applied.  It may bring an undecryptable Olm message, a key *)
(* request of an unverified own device, or a low count of one-time keys.   *)
Captured(news) ==
    /\ polling /\ polling' = FALSE
    /\ news # "nothing" => produced < MaxMade
    /\ syncInput' = [phase |-> "captured", changed |-> unannounced, news |-> news]
    /\ unannounced' = {}
    /\ UNCHANGED <<server, olm, facts, request, known, session, tracked, task, due, wire, reply,
                   sent, minted, produced, missed, calls, faults, crashes, alive>>

(* Mutant: only members of rooms matter, not the users already tracked. *)
RelevantResident(u) == u \in Resident

(* _update_olm_sync_state: whose announced change makes them dirty *)
Relevant(u) == u \in Resident \/ u \in tracked \/ known[u] > 0

Prepare ==
    /\ alive /\ syncInput.phase = "captured"
    /\ Capture([olm EXCEPT
            !.dirty = @ \cup {u \in syncInput.changed : Relevant(u)},
            !.wedged = @ \/ syncInput.news = "wedged", !.rerequest = @ \/ syncInput.news = "wedged",
            !.asked = IF syncInput.news = "asked" /\ @ = "no" THEN "untrusted" ELSE @,
            !.low = @ \/ syncInput.news = "low"])
    /\ missed' = (missed \ {u \in syncInput.changed : Relevant(u)})
                    \cup {u \in syncInput.changed \cap DOMAIN reply.versions : ~Relevant(u)}
    /\ syncInput' = [NoInput EXCEPT !.phase = "applied"]
    /\ UNCHANGED <<server, unannounced, request, known, session, tracked, task, due, wire, reply,
                   sent, produced, polling, calls, faults, crashes, alive>>

(* The process dies, or a transaction fails and the session is discarded. *)
CryptoCrash ==
    /\ alive /\ crashes < MaxCrashes /\ crashes' = crashes + 1
    /\ alive' = FALSE /\ olm' = NoWork /\ tracked' = {} /\ due' = FALSE
    /\ task' = NoTask /\ wire' = "idle" /\ reply' = NoAnswer /\ polling' = FALSE
    /\ UNCHANGED <<server, unannounced, syncInput, facts, request, known, session, sent, minted,
                   produced, missed, calls, faults>>

(* restore: the facts; no restored message is an object a caller holds. *)
Restore ==
    /\ ~alive /\ alive' = TRUE
    /\ olm' = [facts EXCEPT !.messages = [i \in DOMAIN @ |-> [@[i] EXCEPT !.mine = FALSE]]]
    /\ due' = (facts.wedged \/ facts.asked = "waiting")
    /\ UNCHANGED <<server, unannounced, syncInput, facts, request, known, session, tracked, task,
                   wire, reply, sent, minted, produced, missed, polling, calls, faults, crashes>>

RequestsInit ==
    /\ server = [u \in Users |-> 1] /\ known = [u \in Users |-> 0]
    /\ unannounced = {} /\ syncInput = NoInput
    /\ olm = NoWork /\ facts = NoWork /\ request = None /\ session = FALSE /\ tracked = {}
    /\ task = NoTask /\ due = FALSE /\ wire = "idle" /\ reply = NoAnswer
    /\ sent = {} /\ minted = 0 /\ produced = 0 /\ missed = {} /\ polling = FALSE
    /\ calls = 0 /\ faults = 0 /\ crashes = 0 /\ alive = TRUE

RequestsNext ==
    \/ \E u \in Users : ServerChange(u)
    \/ StartPoll \/ \E news \in {"nothing", "wedged", "asked", "low"} : Captured(news)
    \/ Prepare \/ StartMaintain \/ MaintainNext \/ MaintainEnds
    \/ \E users \in {{}} \cup {{u} : u \in Users} : ClientCall("query", users, None)
    \/ \E plan \in {"upload", "claim"} : ClientCall(plan, {}, None)
    \/ \E tx \in {None, MessageId} : ClientCall("message", {}, tx)
    \/ \E tx \in {None, SealedId} : ClientCall("sealed", {}, tx)
    \/ FinishPending \/ CallStep \/ CallEnds
    \/ \E users \in SUBSET Users : LookUpMembers(users)
    \/ \E cancel \in BOOLEAN : ChangeKeyShare(cancel)
    \/ \E users \in SUBSET Users, ok \in BOOLEAN : ServerAnswers(users, ok)
    \/ SendAgain \/ Abandon \/ Receive \/ CryptoCrash \/ Restore

RequestsSpec == RequestsInit /\ [][RequestsNext]_requestVars

(* The event loop runs what is ready, the server answers polls and         *)
(* requests, and the owner runs a session that stopped again.              *)
RequestsProgress ==
    \/ Prepare \/ StartMaintain \/ MaintainNext \/ MaintainEnds
    \/ FinishPending \/ CallStep \/ CallEnds
    \/ (wire = "sent" /\ ServerAnswers(request.users, TRUE)) \/ Receive \/ Restore

-----------------------------------------------------------------------------
(* Properties.                                                             *)

MessageRecords == [kind : {"dummy", "share", "rekey", "own"}, content : Nat \ {0},
                   txn : TransactionIds \cup {None}, mine : BOOLEAN]
WorkRecords == [dirty : SUBSET Users, messages : Seq(MessageRecords), wedged : BOOLEAN,
                rerequest : BOOLEAN, asked : {"no", "untrusted", "waiting"}, low : BOOLEAN]

(* The state of the crypto requests is well formed; what is captured has   *)
(* no message without a transaction id, so that a restart finds one for    *)
(* each (_retain_messages before every write).                             *)
RequestsTypeOK ==
    /\ olm \in WorkRecords /\ facts \in WorkRecords /\ Unretained(facts) = {}
    /\ request \in RequestRecords \cup {None}
    /\ server \in [Users -> 1..MaxVersion] /\ known \in [Users -> 0..MaxVersion]
    /\ tracked \subseteq Users /\ unannounced \subseteq Users /\ missed \subseteq Users
    /\ wire \in {"idle", "sent", "answered"} /\ (wire # "idle" => request # None)
    /\ {session, due, polling, alive} \subseteq BOOLEAN

(* A stored device list older than the server's is going to be renewed:    *)
(* its change is still to be announced, captured, marked dirty (in the     *)
(* database too), or asked for in the retained request and not yet         *)
(* answered with an older list.                                            *)
Renewed(u) ==
    \/ u \in unannounced
    \/ syncInput.phase = "captured" /\ u \in syncInput.changed
    \/ u \in facts.dirty
    \/ /\ request # None /\ u \in request.users
       /\ u \in DOMAIN reply.versions => reply.versions[u] = server[u]
NoLostChange == \A u \in Users : known[u] \in 1..(server[u] - 1) => Renewed(u)

(* The same, but for the changes sync drops because their user is not      *)
(* tracked yet, while the first answer about that user is on its way.     *)
NoLostChangeTracked ==
    \A u \in Users \ missed : known[u] \in 1..(server[u] - 1) => Renewed(u)

(* A to-device message is sent under one transaction id, however often it  *)
(* is repeated, by whomever, across failures and restarts: the server      *)
(* recognises a repetition.                                                *)
OneTransaction == \A a, b \in sent : a[2] = b[2] => a[1] = b[1]

(* The retained request never refers to a message that is not retained     *)
(* with it (_pending refuses to open such a store).                        *)
RequestHasMessage ==
    request # None /\ request.kind = "to_device" =>
        \E i \in DOMAIN facts.messages : facts.messages[i].txn = request.txn

(* Every retained request and every queued message is answered in the end. *)
WorkDrains == []<>(alive /\ request = None /\ olm.messages = <<>>)

(* A known device list becomes current, but for the changes sync drops. *)
ListsRenewed ==
    \A u \in Users : []<>(u \in missed \/ known[u] \in {0, server[u]})

(* What is retained is consistent at every moment a crash may come: well   *)
(* formed, one transaction id for a message, its message with a request.   *)
RequestsConsistent == RequestsTypeOK /\ OneTransaction /\ RequestHasMessage

(* Crypto maintenance comes to an end, and renews what it is about. *)
MaintenanceEnds == WorkDrains /\ ListsRenewed

=============================================================================
