------------------------------ MODULE Requests ------------------------------
(***************************************************************************)
(* The calls of the asynchronous client (src/nio/client/async_client.py):  *)
(* each operation's endpoint and response class, and _send, which repeats  *)
(* a request through rate limits and connection errors, parses the answer  *)
(* and lets the client take it in.  The client is not attached to a        *)
(* durable session, which sends by itself (DurableStore, CryptoRequests).  *)
(*                                                                         *)
(* One call runs at a time.  An effect is what a server did for a request, *)
(* named by what it knows the request by.                                  *)
(***************************************************************************)
EXTENDS Naturals, FiniteSets, Endpoints, Responses

CONSTANTS
    Offered,        \* the operations to check
    Max429,         \* config.max_limit_exceeded
    MaxTimeouts     \* config.max_timeouts

ASSUME RequestsAssumption == Max429 \in Nat /\ MaxTimeouts \in Nat

VARIABLES
    token,          \* access_token is set
    loaded,         \* store and olm are there
    call,           \* the operation in _send and its counters, or None
    effects,        \* what the server did for the call
    answer,         \* the answer that ended the last call: "done", a body, or None
    outcome         \* how the last call ended

sendVars == <<token, loaded, call, effects, answer, outcome>>

-----------------------------------------------------------------------------
(* The operations.  needs: login (logged_in_async), store (store_loaded),  *)
(* token (checked in the body).  ends: what becomes of the response: it is *)
(* returned; its HTTP status is checked once more; an error is raised; it  *)
(* is taken for a response with a next page; it is not looked at.          *)

Op(endpoint, class, needs) ==
    [endpoint |-> endpoint, class |-> class, needs |-> needs, ends |-> "returned"]
Ending(op, ends) == [op EXCEPT !.ends = ends]
Member(endpoint, class) == Op(endpoint, class, {"login"})
Public(endpoint, class) == Op(endpoint, class, {})
Crypto(endpoint, class) == Op(endpoint, class, {"login", "store"})

RegisterOps ==
    [login_raw |-> Public("login_raw", "LoginResponse"),
     register_interactive |-> Public("register", "RegisterInteractiveResponse")]

LoginOps ==
    [register |-> Public("register", "RegisterResponse"),
     discovery_info |-> Public("discovery_info", "DiscoveryInfoResponse"),
     login_info |-> Public("login_info", "LoginInfoResponse"),
     login |-> Public("login", "LoginResponse"), logout |-> Member("logout", "LogoutResponse"),
     change_password |-> Member("change_password", "ChangePasswordResponse")]

SyncOps ==
    [sync |-> Member("sync", "SyncResponse"),
     sliding_sync |-> Member("sliding_sync", "SlidingSyncResponse")]

ToDeviceOps == [to_device |-> Member("to_device", "ToDeviceResponse")]

(* keys_upload needs keys to upload, keys_query users to ask for *)
KeyOps ==
    [keys_upload |-> Crypto("keys_upload", "KeysUploadResponse"),
     keys_query |-> Crypto("keys_query", "KeysQueryResponse"),
     devices |-> Member("devices", "DevicesResponse"),
     update_device |-> Member("update_device", "UpdateDeviceResponse"),
     delete_devices |-> Member("delete_devices", "DeleteDevicesResponse")]

ListOps ==
    [space_get_hierarchy |-> Member("space_get_hierarchy", "SpaceGetHierarchyResponse"),
     joined_members |-> Member("joined_members", "JoinedMembersResponse"),
     joined_rooms |-> Member("joined_rooms", "JoinedRoomsResponse")]

RoomSendOps == [room_send |-> Member("room_send", "RoomSendResponse")]

EventOps ==
    [list_direct_rooms |-> Member("direct_room_list", "DirectRoomsResponse"),
     room_get_event |-> Member("room_get_event", "RoomGetEventResponse"),
     room_get_event_relations |->
        Ending(Member("room_get_event_relations", "RoomEventRelationsResponse"), "raised")]

StateOps ==
    [room_get_threads |-> Ending(Member("room_get_threads", "RoomThreadsResponse"), "paged"),
     room_put_state |-> Member("room_put_state", "RoomPutStateResponse"),
     room_get_state |-> Member("room_get_state", "RoomGetStateResponse"),
     room_get_state_event |-> Member("room_get_state_event", "RoomGetStateEventResponse")]

AliasOps ==
    [room_redact |-> Member("room_redact", "RoomRedactResponse"),
     room_resolve_alias |-> Public("room_resolve_alias", "RoomResolveAliasResponse"),
     room_delete_alias |-> Member("room_delete_alias", "RoomDeleteAliasResponse"),
     room_put_alias |-> Member("room_put_alias", "RoomPutAliasResponse"),
     room_get_visibility |-> Public("room_get_visibility", "RoomGetVisibilityResponse")]

(* share_group_session asks whether each send succeeded, and returns a     *)
(* response for those that did                                             *)
ShareOps ==
    [keys_claim |-> Crypto("keys_claim", "KeysClaimResponse"),
     share_group_session |->
        Ending(Crypto("to_device", "ShareGroupSessionResponse"), "gathered")]

RoomKeyOps == [request_room_key |-> Crypto("to_device", "RoomKeyRequestResponse")]

CreateOps == [room_create |-> Member("room_create", "RoomCreateResponse")]

JoinOps ==
    [join |-> Member("join", "JoinResponse"), room_knock |-> Member("room_knock", "RoomKnockResponse"),
     room_enable_knocking |-> Member("room_put_state", "RoomPutStateResponse"),
     room_invite |-> Member("room_invite", "RoomInviteResponse"),
     room_leave |-> Member("room_leave", "RoomLeaveResponse"),
     room_forget |-> Member("room_forget", "RoomForgetResponse")]

KickOps ==
    [room_kick |-> Member("room_kick", "RoomKickResponse"),
     room_ban |-> Member("room_ban", "RoomBanResponse"),
     room_unban |-> Member("room_unban", "RoomUnbanResponse")]

MessageOps ==
    [room_context |-> Member("room_context", "RoomContextResponse"),
     room_messages |-> Member("room_messages", "RoomMessagesResponse"),
     room_typing |-> Member("room_typing", "RoomTypingResponse")]

MarkerOps ==
    [room_send_ephemeral |->
        Ending(Member("room_send_ephemeral", "RoomSendEphemeralResponse"), "checked"),
     update_receipt_marker |-> Member("update_receipt_marker", "UpdateReceiptMarkerResponse"),
     room_read_markers |-> Member("room_read_markers", "RoomReadMarkersResponse")]

RepositoryOps ==
    [content_repository_config |->
        Member("content_repository_config", "ContentRepositoryConfigResponse")]

UploadOps == [upload |-> Member("upload", "UploadResponse")]

FileOps ==
    [download |-> Public("download", "DownloadResponse"),
     thumbnail |-> Public("thumbnail", "ThumbnailResponse")]

ProfileOps ==
    [get_profile |-> Public("profile_get", "ProfileGetResponse"),
     get_presence |-> Public("get_presence", "PresenceGetResponse"),
     set_presence |-> Public("set_presence", "PresenceSetResponse"),
     get_displayname |-> Public("profile_get_displayname", "ProfileGetDisplayNameResponse"),
     set_displayname |-> Member("profile_set_displayname", "ProfileSetDisplayNameResponse")]

AvatarOps ==
    [get_avatar |-> Public("profile_get_avatar", "ProfileGetAvatarResponse"),
     set_avatar |-> Member("profile_set_avatar", "ProfileSetAvatarResponse"),
     get_openid_token |-> Member("get_openid_token", "GetOpenIDTokenResponse")]

FilterOps ==
    [upload_filter |-> Member("upload_filter", "UploadFilterResponse"),
     whoami |-> Op("whoami", "WhoamiResponse", {"token"}),
     list_public_rooms |-> Public("public_rooms", "PublicRoomsResponse")]

RuleOps ==
    [set_pushrule |-> Member("set_pushrule", "SetPushRuleResponse"),
     delete_pushrule |-> Member("delete_pushrule", "DeletePushRuleResponse")]

RuleChangeOps ==
    [enable_pushrule |-> Member("enable_pushrule", "EnablePushRuleResponse"),
     set_pushrule_actions |-> Member("set_pushrule_actions", "SetPushRuleActionsResponse")]

TopicOps == [update_room_topic |-> Member("room_put_state", "RoomPutStateResponse")]

Ops ==
    Merged({RegisterOps, LoginOps, SyncOps, ToDeviceOps, KeyOps, ListOps, RoomSendOps,
            EventOps, StateOps, AliasOps, ShareOps, RoomKeyOps, CreateOps, JoinOps, KickOps,
            MessageOps, MarkerOps, RepositoryOps, UploadOps, FileOps, ProfileOps, AvatarOps,
            FilterOps, RuleOps, RuleChangeOps, TopicOps})

ASSUME OfferedAssumption == Offered \subseteq DOMAIN Ops
ASSUME NoAnswerAssumption == None \notin Bodies

ClassOf(op) == Classes[Ops[op].class]
EndpointOf(op) == Endpoints[Ops[op].endpoint]

-----------------------------------------------------------------------------
(* _send.                                                                  *)

(* Mutant: each attempt has a transaction id of its own. *)
RequestIdFresh(c) == c.attempt

(* What the server knows the request by: the transaction id that was made  *)
(* before the first attempt, the path, or nothing but the attempt itself.  *)
RequestId(c) == IF EndpointOf(c.op).known = "nothing" THEN c.attempt ELSE 0

Effect(c) == IF EndpointOf(c.op).verb = "GET" THEN {} ELSE {RequestId(c)}

Met(need) == IF need = "store" THEN loaded ELSE token

(* The operation, refused by its decorators or handed to _send. *)
Call(op) ==
    /\ call = None
    /\ IF \A need \in Ops[op].needs : Met(need)
       THEN /\ call' = [op |-> op, attempt |-> 1, got429 |-> 0, timeouts |-> 0]
            /\ outcome' = None
       ELSE /\ outcome' = [op |-> op, result |-> "refused", token |-> token]
            /\ UNCHANGED call
    /\ effects' = {} /\ answer' = None
    /\ UNCHANGED <<token, loaded>>

(* What the operation makes of its response. *)
Returned(op, result, body) ==
    CASE Ops[op].ends = "checked" -> IF body \in Bodies THEN "error" ELSE result
      [] Ops[op].ends = "raised" -> result
      [] Ops[op].ends = "paged" -> IF result = "error" THEN "raised" ELSE result
      [] Ops[op].ends = "gathered" -> "response"
      [] Ops[op].ends = "returned" -> result

(* receive_response: a login sets the token, a logout or an error with     *)
(* soft_logout clears it.                                                  *)
ReceiveResponse(op, result, body) ==
    LET class == Ops[op].class
        login == result = "response" /\ class \in {"LoginResponse", "RegisterResponse"}
        logout == \/ result = "response" /\ class = "LogoutResponse"
                  \/ result = "error" /\ body \in ClassOf(op).logsOut
    IN /\ token' = (login \/ (token /\ ~logout))
       /\ loaded' \in (IF login THEN {loaded, TRUE} ELSE {loaded})

End(result, body) ==
    /\ call' = None /\ answer' = body
    /\ outcome' = [op |-> call.op, result |-> Returned(call.op, result, body), token |-> token]

Again(counters) == call' = [counters EXCEPT !.attempt = @ + 1] /\ UNCHANGED <<answer, outcome>>

(* A connection error or a time-out, before or after the server acted. *)
ConnectionFails(arrived) ==
    /\ call # None
    /\ effects' = IF arrived THEN effects \cup Effect(call) ELSE effects
    /\ IF call.timeouts + 1 > MaxTimeouts THEN End("raised", None)
       ELSE Again([call EXCEPT !.timeouts = @ + 1])
    /\ UNCHANGED <<token, loaded>>

Succeeds ==
    /\ call # None
    /\ effects' = effects \cup Effect(call)
    /\ End("response", "done") /\ ReceiveResponse(call.op, "response", "done")

Refused429 == {"error", "blank"}

(* The server refuses: the answer is parsed and the call is over. *)
IsRefused(body) ==
    /\ call # None
    /\ LET result == Verify(ClassOf(call.op), body)
       IN End(result, body) /\ ReceiveResponse(call.op, result, body)
    /\ UNCHANGED effects

(* The server is busy: wait and repeat, up to max_limit_exceeded times; an *)
(* error whose retry_after_ms is no number cannot be waited for.           *)
IsLimited(body) ==
    /\ call # None
    /\ LET result == Verify(ClassOf(call.op), body)
       IN \/ /\ result = "raised" \/ call.got429 + 1 > Max429
             /\ End(result, body) /\ ReceiveResponse(call.op, result, body)
          \/ /\ result # "raised" /\ call.got429 + 1 <= Max429
             /\ IF result = "error" /\ ~ClassOf(call.op).waits THEN End("raised", body)
                ELSE Again([call EXCEPT !.got429 = @ + 1])
             /\ UNCHANGED <<token, loaded>>
    /\ UNCHANGED effects

SendInit ==
    /\ token \in BOOLEAN /\ loaded \in BOOLEAN /\ call = None /\ effects = {} /\ answer = None
    /\ outcome = None

SendNext ==
    \/ \E op \in Offered : Call(op)
    \/ \E arrived \in BOOLEAN : ConnectionFails(arrived)
    \/ Succeeds
    \/ \E body \in Bodies : IsRefused(body)
    \/ \E body \in Refused429 : IsLimited(body)

SendSpec == SendInit /\ [][SendNext]_sendVars

-----------------------------------------------------------------------------
(* Properties.                                                             *)

(* A request that sets something or carries a transaction id takes effect  *)
(* once, however often connection errors and rate limits make _send repeat *)
(* it after the server acted.                                              *)
OneEffect ==
    \A op \in Offered :
        /\ \/ call # None /\ call.op = op
           \/ outcome # None /\ outcome.op = op
        /\ EndpointOf(op).known # "nothing"
        => Cardinality(effects) <= 1

(* The call ended with an answer that did nothing: the caller is given an  *)
(* error, and the login is only lost if the server said so.                *)
Reported(body) ==
    outcome.result = "error" /\ token = (outcome.token /\ body # "soft")

(* A refused request is reported as an error, as every operation's doc     *)
(* comment says.                                                           *)
RefusalReported ==
    outcome # None /\ answer \in Bodies => Reported(answer)

(* The operations that do not look at what was refused, cannot build their *)
(* error or build it from the wrong fields.                                *)
Unreported ==
    {"room_delete_alias", "room_put_alias", "room_get_state_event", "room_get_threads",
     "content_repository_config", "keys_query", "keys_claim", "to_device", "share_group_session",
     "delete_devices", "thumbnail"}

(* All the others report a Matrix error, through all retries, and lose the *)
(* login by a soft logout only.                                            *)
RefusalReportedElsewhere ==
    outcome # None /\ answer \in Errors /\ outcome.op \notin Unreported => Reported(answer)

=============================================================================
