------------------------------ MODULE Endpoints ------------------------------
(***************************************************************************)
(* The homeserver's endpoints as src/nio/api.py builds them: the verb, and *)
(* what an endpoint knows a repeated request by.  Paths, query parameters  *)
(* and bodies are left out.                                                *)
(***************************************************************************)
EXTENDS Common

(* the access token goes into the request: always, if there is one, never *)
Auth == {"token", "optional", "none"}

Endpoint(verb, auth, known) == [verb |-> verb, auth |-> auth, known |-> known]

Get(auth) == Endpoint("GET", auth, "nothing")       \* changes nothing
Put(auth) == Endpoint("PUT", auth, "target")        \* the path names what is set
PutOnce(auth) == Endpoint("PUT", auth, "transaction")   \* the path holds a transaction id
Post(auth) == Endpoint("POST", auth, "nothing")
Delete(auth) == Endpoint("DELETE", auth, "target")

LoginEndpoints ==
    [discovery_info |-> Get("none"), login_info |-> Get("none"), register |-> Post("none"),
     login |-> Post("none")]

LogoutEndpoints ==
    [login_raw |-> Post("none"), logout |-> Post("token"), change_password |-> Post("token")]

SyncEndpoints == [sync |-> Get("token"), sliding_sync |-> Post("token")]

SendEndpoints ==
    [room_send |-> PutOnce("token"), space_get_hierarchy |-> Get("token"),
     direct_room_list |-> Get("token"), room_get_event |-> Get("token")]

RelationEndpoints ==
    [room_get_event_relations |-> Get("token"), room_get_threads |-> Get("token")]

StateEndpoints ==
    [room_put_state |-> Put("token"), room_get_state_event |-> Get("token"),
     room_get_state |-> Get("token"), room_redact |-> PutOnce("token")]

ModerationEndpoints ==
    [room_kick |-> Post("token"), room_ban |-> Post("token"), room_unban |-> Post("token"),
     room_knock |-> Post("token"), room_invite |-> Post("token")]

CreateEndpoints == [room_create |-> Post("token")]

MembershipEndpoints ==
    [join |-> Post("token"), room_leave |-> Post("token"), room_forget |-> Post("token"),
     room_messages |-> Get("token")]

KeyEndpoints ==
    [keys_upload |-> Post("token"), keys_query |-> Post("token"), keys_claim |-> Post("token"),
     to_device |-> PutOnce("token")]

DeviceEndpoints ==
    [devices |-> Get("token"), update_device |-> Put("token"), delete_devices |-> Post("token"),
     joined_members |-> Get("token"), joined_rooms |-> Get("token")]

AliasEndpoints ==
    [room_resolve_alias |-> Get("none"), room_delete_alias |-> Delete("token"),
     room_put_alias |-> Put("token"), room_get_visibility |-> Get("none")]

MarkerEndpoints ==
    [room_typing |-> Put("token"), room_send_ephemeral |-> PutOnce("token"),
     update_receipt_marker |-> Post("token"), room_read_markers |-> Post("token")]

MediaEndpoints ==
    [content_repository_config |-> Get("token"), upload |-> Post("token"),
     download |-> Get("token"), thumbnail |-> Get("token")]

ProfileEndpoints ==
    [profile_get |-> Get("optional"), profile_get_displayname |-> Get("optional"),
     profile_set_displayname |-> Put("token"), profile_get_avatar |-> Get("optional"),
     profile_set_avatar |-> Put("token"), get_presence |-> Get("token"),
     set_presence |-> Put("token")]

(* public_rooms is a GET unless a filter is given; neither changes anything *)
DirectoryEndpoints ==
    [whoami |-> Get("token"), public_rooms |-> Get("optional"), room_context |-> Get("token")]

FilterEndpoints == [upload_filter |-> Post("token"), get_openid_token |-> Post("token")]

PushRuleEndpoints == [set_pushrule |-> Put("token")]

PushRuleChanges ==
    [delete_pushrule |-> Delete("token"), enable_pushrule |-> Put("token"),
     set_pushrule_actions |-> Put("token")]

Endpoints ==
    Merged({LoginEndpoints, LogoutEndpoints, SyncEndpoints, SendEndpoints, RelationEndpoints,
            StateEndpoints, ModerationEndpoints, CreateEndpoints, MembershipEndpoints,
            KeyEndpoints, DeviceEndpoints, AliasEndpoints, MarkerEndpoints, MediaEndpoints,
            ProfileEndpoints, DirectoryEndpoints, FilterEndpoints, PushRuleEndpoints,
            PushRuleChanges})

=============================================================================
