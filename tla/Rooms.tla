------------------------------- MODULE Rooms -------------------------------
(***************************************************************************)
(* The client's picture of a room (src/nio/rooms.py; the room handlers of  *)
(* src/nio/client/base_client.py; PowerLevels of                           *)
(* src/nio/events/room_events.py): members, invitations, the index from    *)
(* display names to users and power levels, built from sync events and     *)
(* from joined_members answers, by a client without a durable session.     *)
(*                                                                         *)
(* One room.  history is the server's sequence of state events, of which   *)
(* sync has delivered the first "delivered"; a member lookup reads the     *)
(* server at one moment and is applied at a later one.  Under lazy loading *)
(* the client starts without the members that were there before.           *)
(***************************************************************************)
EXTENDS Common, Naturals, Sequences

CONSTANTS
    Members,        \* users of the room
    DisplayNames,   \* display names
    MaxHistory      \* bound: state events

ASSUME RoomsAssumption == MaxHistory \in Nat

VARIABLES
    founders,       \* the users joined before the first event
    history,        \* the server's state events
    delivered,      \* how many of them sync has handled
    users,          \* by user: None, or name, invited and power_level
    invitedUsers,   \* invited_users
    names,          \* by name and user: how often the user is listed under it
    powerLevels,    \* power_levels.users: by user, a level or None
    fields,         \* the other state, by kind: the event it was last set by
    present,        \* the room is in client.rooms
    roomSynced,     \* room.members_synced
    lookup,         \* a joined_members call: None, or when it was listed
    overtaken       \* history: membership was synced while the list travelled

roomsVars == <<founders, history, delivered, users, invitedUsers, names, powerLevels, fields,
               present, roomSynced, lookup, overtaken>>

FieldKinds == {"other"}

(* An event's "displayname": a name, None (null), or not in the content. *)
Missing == "missing"
Given == DisplayNames \cup {None, Missing}

MemberEvents ==
    [kind : {"member"}, user : Members, membership : {"join", "invite"}, name : Given]
        \cup [kind : {"member"}, user : Members, membership : {"leave"}, name : {Missing}]
LevelEvents == [kind : {"levels"}, user : Members, level : {50}]
FieldEvents == [kind : FieldKinds]

(* the server's membership and names after the first n events *)
MembershipAt(n) ==
    [u \in Members |->
        LET of == {i \in 1..n : history[i].kind = "member" /\ history[i].user = u}
            last == history[CHOOSE i \in of : \A j \in of : j <= i]
        IN  IF of = {} THEN [state |-> IF u \in founders THEN "join" ELSE "leave", name |-> None]
            ELSE [state |-> last.membership, name |-> IF last.name = Missing THEN None ELSE last.name]]
JoinedAt(n) == {u \in Members : MembershipAt(n)[u].state = "join"}

-----------------------------------------------------------------------------
(* MatrixRoom.                                                             *)

(* MatrixUser *)
UserRecords == [name : DisplayNames \cup {None}, invited : BOOLEAN, level : {0, 50}]

ASSUME UsersAssumption == None \notin UserRecords

(* MatrixUser.name: the display name, or the user id *)
NameOf(u, display) == IF display = None THEN u ELSE display

LevelOf(u) == IF powerLevels[u] = None THEN 0 ELSE powerLevels[u]

(* the room as one value: what add_member and remove_member change *)
Room == [users |-> users, invited |-> invitedUsers, names |-> names]

(* names[name].append, and .remove, which takes one entry out *)
Listed(list, u, display) == [list EXCEPT ![NameOf(u, display)][u] = @ + 1]
Unlisted(list, u, display) ==
    [list EXCEPT ![NameOf(u, display)][u] = IF @ = 0 THEN 0 ELSE @ - 1]

AddMember(room, u, display, invited) ==
    IF room.users[u] # None THEN room
    ELSE [users |-> [room.users EXCEPT ![u] =
                        [name |-> display, invited |-> invited, level |-> LevelOf(u)]],
          invited |-> IF invited THEN room.invited \cup {u} ELSE room.invited,
          names |-> Listed(room.names, u, display)]

(* Who was invited is taken out a second time, should it still be listed. *)
RemoveMember(room, u) ==
    IF room.users[u] = None THEN [room EXCEPT !.invited = @ \ {u}]
    ELSE LET display == room.users[u].name
             once == Unlisted(room.names, u, display)
         IN  [users |-> [room.users EXCEPT ![u] = None],
              invited |-> room.invited \ {u},
              names |-> IF u \in room.invited THEN Unlisted(once, u, display) ELSE once]

(* Mutant: a changed display name is listed, the old one not taken out. *)
RenamedKept(list, u, old, new) == Listed(list, u, new)

Renamed(list, u, old, new) == Listed(Unlisted(list, u, old), u, new)

(* A member already listed: the invitation may end, the name may change. *)
UpdateMember(room, e) ==
    LET u == e.user
        user == room.users[u]
        invited == e.membership = "invite"
    IN  [users |-> [room.users EXCEPT ![u] =
                        [user EXCEPT !.invited = invited,
                                     !.name = IF e.name = Missing THEN @ ELSE e.name]],
         invited |-> IF invited THEN room.invited ELSE room.invited \ {u},
         names |-> IF e.name = Missing THEN room.names
                   ELSE Renamed(room.names, u, user.name, e.name)]

HandleMembership(room, e) ==
    CASE e.membership = "leave" -> RemoveMember(room, e.user)
      [] e.membership # "leave"
            /\ (room.users[e.user] = None \/ (e.membership = "invite" /\ e.user \notin room.invited)) ->
            AddMember(room, e.user, IF e.name = Missing THEN None ELSE e.name, e.membership = "invite")
      [] OTHER -> UpdateMember(room, e)

Become(room) == users' = room.users /\ invitedUsers' = room.invited /\ names' = room.names

-----------------------------------------------------------------------------
(* Sync.                                                                   *)

(* external: a state event of the room; nobody joined is invited, and only *)
(* who is joined or invited leaves                                         *)
ServerEvent(e) ==
    /\ Len(history) < MaxHistory
    /\ e.kind = "member" =>
        CASE e.membership = "invite" -> MembershipAt(Len(history))[e.user].state # "join"
          [] e.membership = "leave" -> MembershipAt(Len(history))[e.user].state # "leave"
          [] OTHER -> TRUE
    /\ history' = Append(history, e)
    /\ UNCHANGED <<founders, delivered, users, invitedUsers, names, powerLevels, fields, present,
                   roomSynced, lookup, overtaken>>

(* _handle_joined_state_event, _handle_timeline_event *)
HandleEvent ==
    /\ delivered < Len(history) /\ delivered' = delivered + 1 /\ present' = TRUE
    /\ LET e == history[delivered']
       IN  /\ IF e.kind = "member" THEN Become(HandleMembership(Room, e))
              ELSE IF e.kind = "levels"
              THEN /\ users' = IF users[e.user] = None THEN users
                               ELSE [users EXCEPT ![e.user].level = e.level]
                   /\ UNCHANGED <<invitedUsers, names>>
              ELSE UNCHANGED <<users, invitedUsers, names>>
           /\ powerLevels' = IF e.kind = "levels" THEN [powerLevels EXCEPT ![e.user] = e.level]
                             ELSE powerLevels
           /\ fields' = IF e.kind \in FieldKinds THEN [fields EXCEPT ![e.kind] = delivered'] ELSE fields
           /\ overtaken' = (overtaken \/ (e.kind = "member" /\ lookup # None /\ lookup.listed))
    /\ UNCHANGED <<founders, history, roomSynced, lookup>>

(* Forgetting a room drops it with all it holds. *)
RoomForget ==
    /\ present /\ present' = FALSE
    /\ Become([users |-> [u \in Members |-> None], invited |-> {}, 
               names |-> [x \in DOMAIN names |-> [u \in Members |-> 0]]])
    /\ powerLevels' = [u \in Members |-> None] /\ fields' = [f \in FieldKinds |-> 0]
    /\ roomSynced' = FALSE
    /\ UNCHANGED <<founders, history, delivered, lookup, overtaken>>

-----------------------------------------------------------------------------
(* joined_members.                                                         *)

Asked == [at |-> 0, listed |-> FALSE]

JoinedMembers ==
    /\ lookup = None /\ lookup' = Asked
    /\ UNCHANGED <<founders, history, delivered, users, invitedUsers, names, powerLevels, fields,
                   present, roomSynced, overtaken>>

(* external: the server lists the joined members *)
MembersReplied ==
    /\ lookup # None /\ ~lookup.listed
    /\ lookup' = [at |-> Len(history), listed |-> TRUE]
    /\ UNCHANGED <<founders, history, delivered, users, invitedUsers, names, powerLevels, fields,
                   present, roomSynced, overtaken>>

(* who is not invited and not listed *)
Gone(n) == {u \in Members : users[u] # None /\ ~users[u].invited /\ u \notin JoinedAt(n)}

(* what the loops over the room's and the list's members make of one user: *)
(* a user's part of the room is only touched on its own turn               *)
Corrected(u, n) ==
    IF u \in Gone(n) THEN RemoveMember(Room, u)
    ELSE IF u \in JoinedAt(n) THEN AddMember(Room, u, MembershipAt(n)[u].name, FALSE)
    ELSE Room

(* _handle_joined_members: the list is applied as it is, whenever it       *)
(* arrives, if the room is there.                                          *)
HandleJoinedMembers ==
    /\ lookup # None /\ lookup.listed /\ present
    /\ LET corrected == [u \in Members |-> Corrected(u, lookup.at)]
       IN  /\ users' = [u \in Members |-> corrected[u].users[u]]
           /\ invitedUsers' = {u \in Members : u \in corrected[u].invited}
           /\ names' = [x \in DOMAIN names |->
                            [u \in Members |-> corrected[u].names[x][u]]]
    /\ roomSynced' = TRUE /\ lookup' = None
    /\ UNCHANGED <<founders, history, delivered, powerLevels, fields, present, overtaken>>

JoinedMembersIgnored ==
    /\ lookup # None /\ lookup.listed /\ ~present /\ lookup' = None
    /\ UNCHANGED <<founders, history, delivered, users, invitedUsers, names, powerLevels, fields,
                   present, roomSynced, overtaken>>

RoomsInit ==
    /\ founders \in SUBSET Members /\ history = <<>> /\ delivered = 0
    /\ users = [u \in Members |-> None] /\ invitedUsers = {}
    /\ names = [x \in Members \cup DisplayNames |-> [u \in Members |-> 0]]
    /\ powerLevels = [u \in Members |-> None] /\ fields = [f \in FieldKinds |-> 0]
    /\ present = FALSE /\ roomSynced = FALSE /\ lookup = None /\ overtaken = FALSE

RoomsNext ==
    \/ \E e \in MemberEvents \cup LevelEvents \cup FieldEvents : ServerEvent(e)
    \/ HandleEvent \/ RoomForget \/ JoinedMembers \/ MembersReplied
    \/ HandleJoinedMembers \/ JoinedMembersIgnored

RoomsSpec == RoomsInit /\ [][RoomsNext]_roomsVars

-----------------------------------------------------------------------------
(* Properties.                                                             *)

Known == {u \in Members : users[u] # None}

(* The index from names to users lists every known user once, under the    *)
(* name it has now, and nobody else, through joins, invitations, renames,  *)
(* departures and member lists: display names are disambiguated by it.     *)
NamesIndexed ==
    \A x \in DOMAIN names, u \in Members :
        names[x][u] = IF u \in Known /\ NameOf(u, users[u].name) = x THEN 1 ELSE 0

(* The invitations are the members marked as invited, and a member has the *)
(* level the latest power levels name for it, in whatever order levels and *)
(* membership arrived.                                                     *)
MembersConsistent ==
    /\ invitedUsers = {u \in Known : users[u].invited}
    /\ \A u \in Known : powerLevels[u] # None => users[u].level = powerLevels[u]

(* Once a member list was applied and sync has caught up, the joined       *)
(* members are the server's, unless membership was synced while a list was *)
(* on its way (the late list is applied over it).                          *)
MembersCurrentUnraced ==
    roomSynced /\ delivered = Len(history) /\ ~overtaken =>
        {u \in Known : ~users[u].invited} = JoinedAt(delivered)

(* The client's picture of the room agrees with itself and, unless a late  *)
(* list was applied, with the server's.                                    *)
RoomConsistent == NamesIndexed /\ MembersConsistent /\ MembersCurrentUnraced

=============================================================================
