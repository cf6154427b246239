------------------------------ MODULE Responses ------------------------------
(***************************************************************************)
(* The response classes of src/nio/responses.py, by what each makes of a   *)
(* body that is not the answer it stands for.  from_dict validates a body  *)
(* with a JSON schema (src/nio/schemas.py) and builds the class or its     *)
(* error; the fields that only carry data are left out.                    *)
(***************************************************************************)
EXTENDS Common

(* What a server that does nothing sends back: a Matrix error, one for     *)
(* something that is not there, one that ends the login but not the device *)
(* (soft_logout), or a body that is no JSON (a proxy's page), which        *)
(* parse_body turns into {}.                                               *)
Errors == {"error", "missing", "soft"}
Bodies == Errors \cup {"blank"}

(* accepts: the bodies that pass for the answer; raises: those the class   *)
(* cannot be built from; logsOut: those whose error has soft_logout set;   *)
(* waits: an error's retry_after_ms is a number, or absent.                *)
Class(accepts) == [accepts |-> accepts, raises |-> {}, logsOut |-> {"soft"}, waits |-> TRUE]

(* The body's required fields are checked. *)
Strict == Class({})

(* Schemas.empty: an object without fields *)
Empty == Class({"blank"})

(* Nothing is required. *)
Open == Class(Bodies)

RegisterResponses ==
    [DiscoveryInfoResponse |-> Strict, RegisterResponse |-> Strict,
     RegisterInteractiveResponse |-> Strict]

LoginResponses ==
    [LoginInfoResponse |-> Strict, LoginResponse |-> Strict, LogoutResponse |-> Empty,
     ChangePasswordResponse |-> Empty]

ListResponses ==
    [JoinedMembersResponse |-> Strict, JoinedRoomsResponse |-> Strict,
     ContentRepositoryConfigResponse |-> Open, UploadResponse |-> Strict]

(* A body that is no JSON is the file; a thumbnail must be an image, and   *)
(* its error forgets the body.                                             *)
FileResponses ==
    [DownloadResponse |-> Class({"blank"}), ThumbnailResponse |-> [Strict EXCEPT !.logsOut = {}]]

SendResponses == [RoomSendResponse |-> Strict, DirectRoomsResponse |-> Class({"blank"})]

(* The content of a state event is anything; create_matrix_response makes  *)
(* an error of a 404.                                                      *)
StateResponses ==
    [RoomGetStateResponse |-> Strict, RoomGetStateEventResponse |-> Class(Bodies \ {"missing"}),
     RoomGetEventResponse |-> Strict, RoomPutStateResponse |-> Strict,
     RoomRedactResponse |-> Strict]

(* Deleting and adding an alias looks at no body at all. *)
AliasResponses ==
    [RoomResolveAliasResponse |-> Strict, RoomDeleteAliasResponse |-> Open,
     RoomPutAliasResponse |-> Open, RoomGetVisibilityResponse |-> Strict,
     RoomEventRelationsResponse |-> Strict, RoomThreadsResponse |-> Strict,
     SpaceGetHierarchyResponse |-> Strict]

ModerationResponses ==
    [RoomKickResponse |-> Empty, RoomBanResponse |-> Empty, RoomUnbanResponse |-> Empty,
     RoomInviteResponse |-> Empty]

(* ShareGroupSessionError takes the room for retry_after_ms and the users  *)
(* for soft_logout; a 401 of delete_devices is read as a request to        *)
(* authenticate, whose session an ordinary error lacks.                    *)
MarkerResponses ==
    [ShareGroupSessionResponse |-> [Empty EXCEPT !.logsOut = Errors, !.waits = FALSE],
     RoomTypingResponse |-> Empty, RoomSendEphemeralResponse |-> Class({"blank"}),
     UpdateReceiptMarkerResponse |-> Empty, RoomReadMarkersResponse |-> Empty,
     DeleteDevicesResponse |-> [Empty EXCEPT !.raises = {"soft"}]]

RoomResponses ==
    [RoomMessagesResponse |-> Strict, RoomCreateResponse |-> Strict, JoinResponse |-> Strict,
     RoomKnockResponse |-> Strict, RoomLeaveResponse |-> Empty, RoomForgetResponse |-> Empty,
     GetOpenIDTokenResponse |-> Strict]

(* KeysClaimError wants a room id that keys_claim does not give. *)
KeyResponses ==
    [KeysUploadResponse |-> Strict, KeysQueryResponse |-> Open,
     KeysClaimResponse |-> [Strict EXCEPT !.raises = Bodies], DevicesResponse |-> Strict,
     RoomKeyRequestResponse |-> Empty, UpdateDeviceResponse |-> Empty]

ProfileResponses ==
    [ProfileGetResponse |-> Class({"blank"}), ProfileGetDisplayNameResponse |-> Strict,
     ProfileSetDisplayNameResponse |-> Empty, ProfileGetAvatarResponse |-> Strict,
     ProfileSetAvatarResponse |-> Empty, PresenceGetResponse |-> Strict]

(* ToDeviceError takes the message for retry_after_ms. *)
DeviceResponses ==
    [PublicRoomsResponse |-> Strict, PresenceSetResponse |-> Empty,
     ToDeviceResponse |-> [Empty EXCEPT !.logsOut = {}, !.waits = FALSE]]

ContextResponses == [RoomContextResponse |-> Strict]

SyncResponses == [SyncResponse |-> Strict]

SlidingSyncResponses == [SlidingSyncResponse |-> Strict]

RuleResponses ==
    [UploadFilterResponse |-> Strict, WhoamiResponse |-> Strict, SetPushRuleResponse |-> Empty,
     DeletePushRuleResponse |-> Empty, EnablePushRuleResponse |-> Empty,
     SetPushRuleActionsResponse |-> Empty]

Classes ==
    Merged({RegisterResponses, LoginResponses, ListResponses, FileResponses, SendResponses,
            StateResponses, AliasResponses, ModerationResponses, MarkerResponses,
            RoomResponses, KeyResponses, ProfileResponses, DeviceResponses, ContextResponses,
            SyncResponses, SlidingSyncResponses, RuleResponses})

(* Mutant: a body that fails its schema is taken all the same. *)
VerifyAlways(c, body) == "response"

(* verify: the class, its error, or neither can be built *)
Verify(c, body) ==
    IF body \in c.accepts THEN "response" ELSE IF body \in c.raises THEN "raised" ELSE "error"

=============================================================================
