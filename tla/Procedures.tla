----------------------------- MODULE Procedures -----------------------------
(***************************************************************************)
(* The procedures of the asynchronous client that make several requests:   *)
(* room_update_aliases, room_upgrade and has_event_permission              *)
(* (src/nio/client/async_client.py).  The server may refuse any request in *)
(* between.  Whether a refusal is seen is what Responses says of the       *)
(* class: deleting and adding an alias never fails, and a refused state    *)
(* event is taken for its content, in which the alias is then missing.     *)
(***************************************************************************)
EXTENDS Common, Naturals, Sequences, FiniteSets, Uploads

CONSTANTS Aliases, OldRoom, NewRoom

ASSUME RoomsDistinct == OldRoom # NewRoom /\ None # NewRoom

VARIABLES
    registered,     \* the server's directory: alias -> room, or None
    canonical,      \* m.room.canonical_alias of each room, or None
    made,           \* the new room exists
    tombstone,      \* the old room points to the new one
    step,           \* room_upgrade: the request it waits for
    wanted,         \* the aliases the upgrade moves, or None
    job,            \* room_update_aliases: room, what was asked, what is left to do, or None
    finished,       \* how room_update_aliases ended
    refusals        \* history: the server refused something

procedureVars == <<registered, canonical, made, tombstone, step, wanted, job, finished, refusals>>
serverState == <<registered, canonical, made, tombstone>>

Rooms == {OldRoom, NewRoom}
Names(event) == {event.alias} \cup event.alts

-----------------------------------------------------------------------------
(* room_update_aliases.                                                    *)

AliasJob(room, alias, alts) ==
    [room |-> room, pc |-> "read", alias |-> alias, asked |-> alts, alts |-> alts,
     new |-> IF alias = None THEN {} ELSE alts \cup {alias}, delete |-> {}, put |-> {}]

Ended(result) ==
    /\ job' = None
    /\ finished' = [result |-> result, room |-> job.room, alias |-> job.alias, asked |-> job.asked]

(* The current aliases; alt_aliases is overwritten with theirs. *)
ReadAliases(refused) ==
    /\ job # None /\ job.pc = "read"
    /\ IF refused THEN Ended("raised")
       ELSE /\ job' = IF canonical[job.room] = None
                      THEN [job EXCEPT !.pc = "change", !.put = job.new]
                      ELSE [job EXCEPT !.pc = "change", !.put = job.new,
                                       !.alts = canonical[job.room].alts,
                                       !.delete = Names(canonical[job.room]) \ job.new]
            /\ UNCHANGED finished
    /\ refusals' = (refusals \/ refused)
    /\ UNCHANGED <<serverState, step, wanted>>

(* room_delete_alias and room_put_alias, whose answers are not seen. *)
DeleteAlias(a, refused) ==
    /\ job # None /\ job.pc = "change" /\ a \in job.delete
    /\ registered' = IF refused THEN registered ELSE [registered EXCEPT ![a] = None]
    /\ job' = [job EXCEPT !.delete = @ \ {a}]
    /\ refusals' = (refusals \/ refused)
    /\ UNCHANGED <<canonical, made, tombstone, step, wanted, finished>>

(* An alias that another room has is refused. *)
PutAlias(a, refused) ==
    /\ job # None /\ job.pc = "change" /\ job.delete = {} /\ a \in job.put
    /\ registered[a] \notin {None, job.room} => refused
    /\ registered' = IF refused THEN registered ELSE [registered EXCEPT ![a] = job.room]
    /\ job' = [job EXCEPT !.put = @ \ {a}]
    /\ refusals' = (refusals \/ refused)
    /\ UNCHANGED <<canonical, made, tombstone, step, wanted, finished>>

PutCanonical(refused) ==
    /\ job # None /\ job.pc = "change" /\ job.delete = {} /\ job.put = {}
    /\ IF refused THEN canonical' = canonical /\ Ended("error")
       ELSE /\ canonical' = [canonical EXCEPT ![job.room] = [alias |-> job.alias, alts |-> job.alts]]
            /\ Ended("response")
    /\ refusals' = (refusals \/ refused)
    /\ UNCHANGED <<registered, made, tombstone, step, wanted>>

-----------------------------------------------------------------------------
(* room_upgrade: permission, state, predecessor, the new room, the         *)
(* tombstone, then the aliases.                                            *)

Upgrade ==
    /\ step = "idle" /\ job = None /\ ~made /\ step' = "permission"
    /\ UNCHANGED <<serverState, wanted, job, finished, refusals>>

Look(from, to, refused) ==
    /\ step = from /\ step' = IF refused THEN "failed" ELSE to
    /\ refusals' = (refusals \/ refused)
    /\ UNCHANGED <<serverState, wanted, job, finished>>

(* has_event_permission: whoami, the creators, then the power levels *)
HasEventPermission(refused) == Look("permission", "state", refused)

ReadOldState(refused) == Look("state", "predecessor", refused)

(* whoami for the room versions from 12 on, the last event before *)
FindPredecessor(refused) == Look("predecessor", "create", refused)

(* not isinstance(new_room, RoomCreateError) *)
Created(refused) == ~refused

CreateRoom(refused) ==
    /\ step = "create" /\ made' = ~refused
    /\ step' = IF Created(refused) THEN "tombstone" ELSE "failed"
    /\ refusals' = (refusals \/ refused)
    /\ UNCHANGED <<registered, canonical, tombstone, wanted, job, finished>>

PutTombstone(refused) ==
    /\ step = "tombstone" /\ tombstone' = ~refused
    /\ step' = IF refused THEN "failed" ELSE "aliases"
    /\ refusals' = (refusals \/ refused)
    /\ UNCHANGED <<registered, canonical, made, wanted, job, finished>>

(* The old room's aliases: none is the end, refused raises. *)
ReadOldAliases(refused) ==
    /\ step = "aliases" /\ job = None
    /\ IF refused THEN step' = "failed" /\ UNCHANGED <<wanted, job>>
       ELSE IF canonical[OldRoom] = None THEN step' = "upgraded" /\ UNCHANGED <<wanted, job>>
       ELSE /\ wanted' = canonical[OldRoom] /\ step' = "remove"
            /\ job' = AliasJob(OldRoom, None, {})
    /\ refusals' = (refusals \/ refused)
    /\ UNCHANGED <<serverState, finished>>

(* An error of room_update_aliases is no RoomDeleteAliasError: it goes on. *)
AssignAliases ==
    /\ step = "remove" /\ job = None
    /\ IF finished.result = "raised" THEN step' = "failed" /\ UNCHANGED job
       ELSE step' = "assign" /\ job' = AliasJob(NewRoom, wanted.alias, wanted.alts)
    /\ UNCHANGED <<serverState, wanted, finished, refusals>>

UpgradeEnds ==
    /\ step = "assign" /\ job = None
    /\ step' = IF finished.result = "raised" THEN "failed" ELSE "upgraded"
    /\ UNCHANGED <<serverState, wanted, job, finished, refusals>>

(* The application changes the aliases of the old room itself. *)
UpdateAliases(alias, alts) ==
    /\ step = "idle" /\ job = None /\ finished = None
    /\ job' = AliasJob(OldRoom, alias, alts)
    /\ UNCHANGED <<serverState, step, wanted, finished, refusals>>

ProcedureInit ==
    /\ \E event \in {None} \cup [alias : Aliases, alts : SUBSET Aliases] :
        /\ canonical = [r \in Rooms |-> IF r = OldRoom THEN event ELSE None]
        /\ registered = [a \in Aliases |->
                            IF event # None /\ a \in Names(event) THEN OldRoom ELSE None]
    /\ made = FALSE /\ tombstone = FALSE /\ step = "idle" /\ wanted = None /\ job = None
    /\ finished = None /\ refusals = FALSE

ProcedureNext ==
    \/ \E alias \in Aliases \cup {None}, alts \in SUBSET Aliases : UpdateAliases(alias, alts)
    \/ Upgrade \/ AssignAliases \/ UpgradeEnds
    \/ \E refused \in BOOLEAN :
        \/ HasEventPermission(refused) \/ ReadOldState(refused) \/ FindPredecessor(refused)
        \/ CreateRoom(refused) \/ PutTombstone(refused)
        \/ ReadOldAliases(refused) \/ ReadAliases(refused) \/ PutCanonical(refused)
        \/ \E a \in Aliases : DeleteAlias(a, refused) \/ PutAlias(a, refused)

ProcedureSpec == ProcedureInit /\ [][ProcedureNext]_procedureVars

-----------------------------------------------------------------------------
(* Properties.                                                             *)

(* The old room is only closed, and only loses its aliases to an upgrade,  *)
(* once its replacement exists, whichever request fails; and the upgrade   *)
(* reports success only when the old room points to the new one.           *)
UpgradeOrdered ==
    /\ tombstone => made
    /\ step \in {"remove", "assign"} => made /\ tombstone
    /\ step = "upgraded" => made /\ tombstone
    /\ \A a \in Aliases : registered[a] = NewRoom => tombstone

(* An operation made of several requests, or of one that is started over,  *)
(* does no damage when it fails on the way: uploads and upgrades.          *)
StepwiseSafe == UploadIntact /\ UpgradeOrdered

(* After an update of a room's aliases that succeeded without a refusal,   *)
(* the room's event and the directory name exactly the aliases asked for,  *)
(* as the doc comment of room_update_aliases says.  The code does not keep *)
(* this: the README describes where it fails.                              *)
AliasesAsAsked ==
    \A room \in Rooms :
        /\ finished # None /\ ~refusals
        /\ finished.result = "response" /\ finished.room = room
        => /\ canonical[room].alias = finished.alias
           /\ canonical[room].alts = IF finished.alias = None THEN {} ELSE finished.asked

=============================================================================
