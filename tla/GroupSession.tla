---------------------------- MODULE GroupSession ----------------------------
(***************************************************************************)
(* Encrypting to a room: the recipient list, the outbound Megolm session   *)
(* and its sharing, with senders, sync and trust changes interleaved       *)
(* (src/nio/durable/outbound.py, src/nio/client/async_client.py room_send, *)
(* src/nio/client/base_client.py invalidate_outbound_session,              *)
(* src/nio/crypto/olm_machine.py share_group_session_parallel), for a      *)
(* client attached to a durable session.                                   *)
(*                                                                         *)
(* One encrypted room.  roster is the room's membership at each version on *)
(* the server; sync has processed versions up to seen, and a member lookup *)
(* answers with the version of that moment.  A user stands for its device. *)
(* keyed records which users were sent the key of each session.            *)
(***************************************************************************)
EXTENDS Common, Naturals, Sequences, FiniteSets

CONSTANTS
    People,         \* users that may be in the room
    Senders,        \* concurrent room_send calls
    MaxRoster,      \* bound: membership versions
    MaxStops        \* bound: cancelled or failed calls

SessionIds == 1..(Cardinality(Senders) + 4)
RetainedChunks == [id : SessionIds, users : SUBSET People]

ASSUME GroupAssumption ==
    /\ MaxRoster \in Nat /\ MaxStops \in Nat /\ IsFiniteSet(Senders)
    /\ None \notin Senders /\ None \notin RetainedChunks

VARIABLES
    roster,         \* sequence of member sets
    seen,           \* the newest version sync has processed
    membersSynced,  \* room.members_synced
    cache,          \* member_cache[room]
    group,          \* outbound_group_sessions[room]
    keyed,          \* by session: the users who were sent its key
    sharing,        \* sharing_session[room] is an unset event
    retained,       \* a to-device chunk not yet acknowledged
    holder,         \* the sender in _crypto_lock, or None
    sender,         \* by sender: program counter, recipient list, session
    blocked,        \* blacklisted users
    raced,          \* history: those blacklisted while the list was looked up
    mail,           \* what was encrypted last: session, and what was known then
    stops

groupVars == <<roster, seen, membersSynced, cache, group, keyed, sharing, retained, holder,
               sender, blocked, raced, mail, stops>>

Absent == [state |-> "absent", list |-> 0, version |-> 0]
Looking == [state |-> "looking", list |-> 0, version |-> 0]
Idle == [pc |-> "idle", why |-> "none", previous |-> 0, version |-> 0, list |-> 0, users |-> {},
         id |-> 0, todo |-> {}]
NoGroup == [id |-> 0, shared |-> FALSE, with |-> {}]

(* Lists and sessions are objects; a number names one while it is in use. *)
ListsInUse == {cache.list} \cup {sender[s].list : s \in Senders}
NewList == CHOOSE n \in 1..(Cardinality(Senders) + 2) : n \notin ListsInUse
SessionsInUse ==
    {group.id, mail.id} \cup {sender[s].id : s \in Senders}
        \cup (IF retained = None THEN {} ELSE {retained.id})
NewSession == CHOOSE n \in SessionIds : n \notin SessionsInUse

Now == Len(roster)
Go(s, pc) == sender' = [sender EXCEPT ![s].pc = pc]

(* Mutant: the event is taken out but not set. *)
ReleaseUnset(s, next) == sharing' = FALSE /\ sender' = [sender EXCEPT ![s] = next]

(* The sharer takes the room's event out and sets it: who waited for it    *)
(* looks at the session again.                                             *)
Release(s, next) ==
    /\ sharing' = FALSE
    /\ sender' = [t \in Senders |->
                    IF t = s THEN next
                    ELSE IF sender[t].pc = "waiting" THEN [Idle EXCEPT !.pc = "decide"]
                    ELSE sender[t]]

-----------------------------------------------------------------------------
(* Sync and trust.                                                         *)

(* a user joins, or leaves *)
RosterChange(u) ==
    /\ Now < MaxRoster
    /\ roster' = Append(roster, IF u \in roster[Now] THEN roster[Now] \ {u} ELSE roster[Now] \cup {u})
    /\ UNCHANGED <<seen, membersSynced, cache, group, keyed, sharing, retained, holder, sender,
                   blocked, raced, mail, stops>>

(* member_cache.pop: a list being looked up is forgotten as well *)
Forgotten == Absent

(* A member event: the recipient list and the session are dropped. *)
SyncMember ==
    /\ seen < Now /\ seen' = seen + 1
    /\ cache' = Forgotten /\ group' = NoGroup
    /\ UNCHANGED <<roster, membersSynced, keyed, sharing, retained, holder, sender, blocked, raced,
                   mail, stops>>

(* invalidate_users: a session is affected if the user is in the room, on  *)
(* the recipient list, or was sent the key                                 *)
Affected(u) ==
    \/ membersSynced /\ u \in roster[seen]
    \/ cache.state = "known" /\ u \in roster[cache.version]
    \/ u \in group.with

BlacklistDevice(u) ==
    /\ u \notin blocked /\ blocked' = blocked \cup {u}
    /\ group' = IF Affected(u) THEN NoGroup ELSE group
    /\ raced' = IF cache.state = "looking" THEN raced \cup {u} ELSE raced
    /\ UNCHANGED <<roster, seen, membersSynced, cache, keyed, sharing, retained, holder, sender,
                   mail, stops>>

-----------------------------------------------------------------------------
(* The crypto lock; a holder first finishes a retained chunk.              *)

Lock(s) == holder = None /\ holder' = s
Unlock(s) == holder = s /\ holder' = None

(* A retained chunk that no sender waits for is sent by maintenance. *)
FinishPending2 ==
    /\ retained # None /\ holder = None
    /\ keyed' = [keyed EXCEPT ![retained.id] = @ \cup retained.users]
    /\ retained' = None
    /\ UNCHANGED <<roster, seen, membersSynced, cache, group, sharing, holder, sender, blocked, raced,
                   mail, stops>>

(* _joined_members: the list is marked as being looked up, under the lock; *)
(* the sender remembers what it was before (0: nothing).                   *)
StartLookup(s, why) ==
    /\ Lock(s)
    /\ sender' = [sender EXCEPT ![s].pc = "lookup", ![s].why = why, ![s].version = 0,
                    ![s].previous = IF cache.state = "known" THEN cache.version ELSE 0]
    /\ cache' = Looking

(* external: the server makes up the list, which then travels back *)
MembersListed(s) ==
    /\ sender[s].pc = "lookup"
    /\ sender' = [sender EXCEPT ![s].pc = "listed", ![s].version = Now]
    /\ UNCHANGED <<roster, seen, membersSynced, cache, group, keyed, sharing, retained, holder,
                   blocked, raced, mail, stops>>

(* Mutant: an answer fills the list although it was forgotten meanwhile. *)
LookupCurrentAlways == TRUE

LookupCurrent == cache.state = "looking"

Unchanged(s) == sender[s].previous # 0 /\ roster[sender[s].previous] = roster[sender[s].version]

(* The answer is used, or refused because membership changed meanwhile.    *)
LookupAnswered(s) ==
    /\ sender[s].pc = "listed" /\ Unlock(s)
    /\ IF LookupCurrent
       THEN /\ cache' = [state |-> "known", list |-> NewList, version |-> sender[s].version]
            /\ group' = IF Unchanged(s) THEN group ELSE NoGroup
            /\ sender' = [sender EXCEPT ![s] =
                    CASE sender[s].why = "members" -> Idle
                      [] sender[s].why = "send" -> [Idle EXCEPT !.pc = "decide"]
                      [] sender[s].why = "share" ->
                            [Idle EXCEPT !.pc = "claim", !.list = NewList,
                                         !.users = roster[sender[s].version]]]
            /\ UNCHANGED sharing
       ELSE /\ IF sender[s].why = "share" THEN Release(s, Idle)
               ELSE sender' = [sender EXCEPT ![s] = Idle] /\ UNCHANGED sharing
            /\ UNCHANGED <<cache, group>>
    /\ UNCHANGED <<roster, seen, membersSynced, keyed, retained, blocked, raced, mail, stops>>

(* The application asks for the member list itself. *)
JoinedMembersCall(s) ==
    /\ sender[s].pc = "idle" /\ StartLookup(s, "members")
    /\ UNCHANGED <<roster, seen, membersSynced, group, keyed, sharing, retained, blocked, raced, mail,
                   stops>>

-----------------------------------------------------------------------------
(* room_send: members, then sharing until a shared session is there.       *)

HasMembers == membersSynced \/ (holder = None /\ cache.state = "known")

RoomSend(s) ==
    /\ sender[s].pc = "idle"
    /\ \/ HasMembers /\ Go(s, "decide") /\ UNCHANGED <<cache, holder>>
       \/ ~membersSynced /\ cache.state = "absent" /\ StartLookup(s, "send")
    /\ UNCHANGED <<roster, seen, membersSynced, group, keyed, sharing, retained, blocked, raced, mail,
                   stops>>

ShouldShare == ~group.shared

(* Wait for another sender's sharing, or start one. *)
Decide(s) ==
    /\ sender[s].pc = "decide" /\ ShouldShare
    /\ IF sharing THEN Go(s, "waiting") /\ UNCHANGED sharing
       ELSE Go(s, "share") /\ sharing' = TRUE
    /\ UNCHANGED <<roster, seen, membersSynced, cache, group, keyed, retained, holder, blocked, raced,
                   mail, stops>>

(* The recipients: the room's users, or the very list that was looked up. *)
ShareMembers(s) ==
    /\ sender[s].pc = "share"
    /\ \/ /\ HasMembers
          /\ sender' = [sender EXCEPT ![s] =
                [Idle EXCEPT !.pc = "claim",
                    !.list = IF membersSynced THEN 0 ELSE cache.list,
                    !.users = IF membersSynced THEN roster[seen] ELSE roster[cache.version]]]
          /\ UNCHANGED <<cache, holder>>
       \/ ~membersSynced /\ cache.state = "absent" /\ StartLookup(s, "share")
    /\ UNCHANGED <<roster, seen, membersSynced, group, keyed, sharing, retained, blocked, raced, mail,
                   stops>>

SameRecipients(s) ==
    IF membersSynced THEN sender[s].users = roster[seen]
    ELSE cache.state = "known" /\ cache.list = sender[s].list

(* Missing Olm sessions were claimed; under the lock, with nothing         *)
(* retained, the recipients must still be the same.  An unshared session   *)
(* is kept, a shared one is replaced.                                      *)
ShareStart(s) ==
    /\ sender[s].pc = "claim" /\ holder = None /\ retained = None
    /\ IF ~SameRecipients(s)
       THEN Release(s, Idle) /\ UNCHANGED <<group, keyed, holder>>
       ELSE /\ holder' = s
            /\ IF group # NoGroup /\ ~group.shared THEN UNCHANGED <<group, keyed>>
               ELSE /\ group' = [NoGroup EXCEPT !.id = NewSession]
                    /\ keyed' = [n \in SessionIds |-> IF n \in SessionsInUse THEN keyed[n] ELSE {}]
            /\ sender' = [sender EXCEPT ![s].pc = "chunks", ![s].id = group'.id,
                            ![s].todo = sender[s].users \ (group'.with \cup blocked)]
            /\ UNCHANGED sharing
    /\ UNCHANGED <<roster, seen, membersSynced, cache, retained, blocked, raced, mail, stops>>

SendChunk(s, u) ==
    /\ sender[s].pc = "chunks" /\ u \in sender[s].todo
    /\ retained' = [id |-> sender[s].id, users |-> {u}]
    /\ sender' = [sender EXCEPT ![s].pc = "chunk", ![s].todo = @ \ {u}]
    /\ UNCHANGED <<roster, seen, membersSynced, cache, group, keyed, sharing, holder, blocked, raced,
                   mail, stops>>

ChunkDelivered(s) ==
    /\ sender[s].pc = "chunk"
    /\ keyed' = [keyed EXCEPT ![retained.id] = @ \cup retained.users]
    /\ Go(s, "acked")
    /\ UNCHANGED <<roster, seen, membersSynced, cache, group, sharing, retained, holder, blocked, raced,
                   mail, stops>>

SameGroup(s) == group.id = sender[s].id

ChunkAcked(s) ==
    /\ sender[s].pc = "acked" /\ retained' = None
    /\ IF SameGroup(s)
       THEN /\ group' = [group EXCEPT !.with = @ \cup retained.users]
            /\ Go(s, "chunks") /\ UNCHANGED <<sharing, holder>>
       ELSE Release(s, Idle) /\ Unlock(s) /\ UNCHANGED group
    /\ UNCHANGED <<roster, seen, membersSynced, cache, keyed, blocked, raced, mail, stops>>

Shared(s) ==
    /\ sender[s].pc = "chunks" /\ sender[s].todo = {} /\ Unlock(s)
    /\ IF SameGroup(s)
       THEN group' = [group EXCEPT !.shared = TRUE] /\ Release(s, [Idle EXCEPT !.pc = "decide"])
       ELSE Release(s, Idle) /\ UNCHANGED group
    /\ UNCHANGED <<roster, seen, membersSynced, cache, keyed, retained, blocked, raced, mail,
                   stops>>

(* encrypt refuses a room without a member list. *)
Encrypt(s) ==
    /\ sender[s].pc = "decide" /\ ~ShouldShare
    /\ sender' = [sender EXCEPT ![s] = Idle]
    /\ mail' = IF (membersSynced \/ cache.state = "known")
               THEN [id |-> group.id, seen |-> seen, blocked |-> blocked] ELSE mail
    /\ UNCHANGED <<roster, seen, membersSynced, cache, group, keyed, sharing, retained, holder,
                   blocked, raced, stops>>

(* the call inside share_group_session *)
Sharers == {s \in Senders : \/ sender[s].why = "share"
                              \/ sender[s].pc \in {"share", "claim", "chunks", "chunk", "acked"}}

(* A call is cancelled or fails while it waits: it gives back the lock,    *)
(* the sharing event and the mark of its lookup.                           *)
Stop(s) ==
    /\ sender[s].pc \in {"lookup", "listed", "waiting", "claim", "chunk", "acked"}
    /\ stops < MaxStops /\ stops' = stops + 1
    /\ holder' = IF holder = s THEN None ELSE holder
    /\ IF s \in Sharers THEN Release(s, Idle)
       ELSE sender' = [sender EXCEPT ![s] = Idle] /\ UNCHANGED sharing
    /\ cache' = IF holder = s /\ cache.state = "looking" THEN Absent ELSE cache
    /\ UNCHANGED <<roster, seen, membersSynced, group, keyed, retained, blocked, raced, mail>>

GroupInit ==
    /\ roster \in {<<r>> : r \in SUBSET People} /\ seen = 1 /\ membersSynced \in BOOLEAN
    /\ cache = Absent /\ group = NoGroup /\ keyed = [n \in SessionIds |-> {}] /\ sharing = FALSE /\ retained = None
    /\ holder = None /\ sender = [s \in Senders |-> Idle] /\ blocked = {} /\ raced = {} /\ stops = 0
    /\ mail = [id |-> 0, seen |-> 1, blocked |-> {}]

GroupNext ==
    \/ \E u \in People : RosterChange(u)
    \/ SyncMember \/ FinishPending2 \/ \E u \in People : BlacklistDevice(u)
    \/ \E s \in Senders :
        \/ JoinedMembersCall(s) \/ MembersListed(s) \/ LookupAnswered(s)
        \/ RoomSend(s) \/ Decide(s) \/ ShareMembers(s) \/ ShareStart(s)
        \/ (\E u \in People : SendChunk(s, u)) \/ ChunkDelivered(s) \/ ChunkAcked(s)
        \/ Shared(s) \/ Encrypt(s) \/ Stop(s)

GroupSpec == GroupInit /\ [][GroupNext]_groupVars

(* the steps of a sender that need nothing another sender may take *)
SenderProgress(s) ==
    \/ MembersListed(s) \/ LookupAnswered(s) \/ Decide(s) \/ ChunkDelivered(s) \/ ChunkAcked(s)
    \/ Shared(s) \/ Encrypt(s) \/ \E u \in People : SendChunk(s, u)

-----------------------------------------------------------------------------
(* Properties.                                                             *)

(* The room's sessions, senders and lists are well formed, and the lock,   *)
(* the sharing event and the lookup mark always have the one sender that   *)
(* gives them back (the finally clauses).                                  *)
GroupTypeOK ==
    /\ seen \in 1..Now /\ \A i \in 1..Now : roster[i] \subseteq People
    /\ group.id \in SessionIds \cup {0} /\ keyed \in [SessionIds -> SUBSET People] /\ group.with \subseteq People
    /\ Cardinality(Sharers) = IF sharing THEN 1 ELSE 0
    /\ cache.state = "looking" => holder # None
    /\ holder # None => sender[holder].pc \in {"lookup", "listed", "chunks", "chunk", "acked"}

(* A recipient list in use is never older than the membership that sync    *)
(* has processed, however late its answer came.                            *)
ListCurrent == cache.state = "known" => cache.version >= seen

(* Nobody who left the room, in what sync had processed, was sent the key  *)
(* of a session that a message is then encrypted with.                     *)
DepartedExcluded ==
    mail.id # 0 => \A u \in keyed[mail.id] : \E v \in mail.seen..Now : u \in roster[v]

(* Everybody who was in the room then, and has not left since, has the     *)
(* key, unless blocked.                                                    *)
MembersReached ==
    mail.id # 0 => \A u \in People \ mail.blocked :
        (\A v \in mail.seen..Now : u \in roster[v]) => u \in keyed[mail.id]

(* A blocked device has no key of a message sent after.  The code keeps    *)
(* this only for devices that are not blocked during a member lookup.      *)
BlockedExcluded == mail.id # 0 => keyed[mail.id] \cap mail.blocked = {}

(* The same, but for one blocked while the recipient list was looked up. *)
BlockedExcludedUnraced == mail.id # 0 => keyed[mail.id] \cap (mail.blocked \ raced) = {}

(* Every send ends: nobody waits for ever for a sharing that was given up. *)
SendsEnd == \A s \in Senders : sender[s].pc # "idle" ~> sender[s].pc = "idle"

(* Whoever shares, looks up, leaves, joins or is blocked meanwhile, the    *)
(* lock, event and lookup have their owner, and a message is readable by   *)
(* those it should be and by nobody else.                                  *)
RecipientsRight ==
    GroupTypeOK /\ ListCurrent /\ DepartedExcluded /\ MembersReached /\ BlockedExcludedUnraced

=============================================================================
