----------------------------- MODULE OlmMachine -----------------------------
(***************************************************************************)
(* The Olm machine's bookkeeping (src/nio/crypto/olm_machine.py): room key *)
(* requests and forwarded keys, and Olm session unwedging.                 *)
(*                                                                         *)
(* Own are the user's other devices, the rest belong to other users; a     *)
(* device has at most one request of its own outstanding, named by the     *)
(* device.  An Olm session is none, recent (within the unwedging interval) *)
(* or old.  The ciphers are external: an event decrypts or it does not.    *)
(***************************************************************************)
EXTENDS Common, FiniteSets

CONSTANTS
    Devices,        \* devices other than this one
    Own,            \* those of the same user
    Megolm          \* Megolm sessions

ASSUME OlmMachineAssumption == Own \subseteq Devices

VARIABLES
    received,       \* received_key_requests: "none", "request" or "cancel"
    waiting,        \* key_requests_waiting_for_session
    noSession,      \* key_request_devices_no_session
    untrusted,      \* key_request_from_untrusted
    wedged,         \* wedged_devices
    age,            \* newest Olm session of each device
    verified,       \* devices marked as verified
    outgoing,       \* outgoing_key_requests, by Megolm session
    inbound,        \* inbound_group_store: "none", "shared" or "forwarded"
    rerequests,     \* key_re_requests_events
    queue,          \* outgoing_to_device_messages
    forwards,       \* history: the devices keys were shared with, verified or not
    withdrawn       \* history: devices that took their request back

machineVars == <<received, waiting, noSession, untrusted, wedged, age, verified, outgoing,
                 inbound, rerequests, queue, forwards, withdrawn>>
requestState == <<received, waiting, noSession, untrusted, forwards, withdrawn>>
sessionState == <<wedged, age, rerequests>>
keyState == <<outgoing, inbound>>

MachineMessage(kind, d, s) == [kind |-> kind, device |-> d, session |-> s]

-----------------------------------------------------------------------------
(* Key requests of other devices.                                          *)

HandleKeyRequest(d) ==
    /\ received[d] # "request"
    /\ received' = [received EXCEPT ![d] = "request"]
    /\ withdrawn' = withdrawn \ {d}
    /\ UNCHANGED <<waiting, noSession, untrusted, forwards, sessionState, keyState, verified, queue>>

(* Mutant: a request that waits for a session is not taken back. *)
StillWaitingKept(d) == waiting

StillWaiting(d) == waiting \ {d}

(* A cancellation removes the request wherever it is, and is shown to the  *)
(* user if the request was.                                                *)
HandleCancellation(d) ==
    /\ received' = [received EXCEPT ![d] = IF d \in untrusted THEN "cancel"
                                           ELSE IF @ = "request" THEN "none" ELSE @]
    /\ waiting' = StillWaiting(d)
    /\ noSession' = IF d \in waiting' THEN noSession ELSE noSession \ {d}
    /\ untrusted' = untrusted \ {d} /\ withdrawn' = withdrawn \cup {d}
    /\ UNCHANGED <<forwards, sessionState, keyState, verified, queue>>

(* what share_with_ourselves refuses for lack of trust *)
Refused(d) == d \notin verified

HasKey == \E s \in Megolm : inbound[s] # "none"

(* The requests of own devices that are to be shared now, that wait for a  *)
(* session, that wait for the user; the others are dropped.                *)
Asking == {d \in Own : received[d] = "request" /\ HasKey}
Shareable(asking) == {d \in asking : ~Refused(d) /\ age[d] # "none"}
Claimable(asking) == {d \in asking : ~Refused(d) /\ age[d] = "none"}
Share(asking) ==
    /\ noSession' = noSession \cup Claimable(asking)
    /\ waiting' = waiting \cup Claimable(asking)
    /\ queue' = queue \cup {MachineMessage("forward", d, None) : d \in Shareable(asking)}
    /\ forwards' = forwards \cup
        {[trusted |-> d \in verified, asked |-> d \notin withdrawn] : d \in Shareable(asking)}

CollectKeyRequests ==
    /\ \E d \in Devices : received[d] # "none"
    /\ received' = [d \in Devices |-> "none"]
    /\ untrusted' = untrusted \cup {d \in Asking : Refused(d)}
    /\ Share(Asking)
    /\ UNCHANGED <<withdrawn, sessionState, keyState, verified>>

ContinueKeyShare(d) ==
    /\ d \in untrusted
    /\ IF HasKey /\ Refused(d) THEN UNCHANGED <<requestState, queue>>
       ELSE /\ untrusted' = untrusted \ {d}
            /\ Share(IF HasKey THEN {d} ELSE {}) /\ UNCHANGED <<received, withdrawn>>
    /\ UNCHANGED <<sessionState, keyState, verified>>

CancelKeyShare(d) ==
    /\ d \in untrusted /\ untrusted' = untrusted \ {d}
    /\ UNCHANGED <<received, waiting, noSession, forwards, withdrawn, sessionState, keyState,
                   verified, queue>>

ChangeTrust(d) ==
    /\ verified' = IF d \in verified THEN verified \ {d} ELSE verified \cup {d}
    /\ UNCHANGED <<requestState, sessionState, keyState, queue>>

-----------------------------------------------------------------------------
(* Olm sessions: claimed keys, failures, unwedging.                        *)

(* A one-time key arrived: a wedged device is sent a dummy message, a      *)
(* request that waited is handled again.                                   *)
HandleKeyClaiming(d) ==
    /\ d \in wedged \cup noSession
    /\ age' = [age EXCEPT ![d] = "recent"]
    /\ wedged' = wedged \ {d}
    /\ queue' = IF d \in wedged THEN queue \cup {MachineMessage("dummy", d, None)} ELSE queue
    /\ noSession' = noSession \ {d} /\ waiting' = waiting \ {d}
    /\ received' = IF d \in noSession /\ d \in waiting
                   THEN [received EXCEPT ![d] = "request"] ELSE received
    /\ UNCHANGED <<untrusted, forwards, withdrawn, rerequests, keyState, verified>>

(* An Olm message of no session that fits creates one (a prekey message)   *)
(* or marks its device as wedged, unless its session is recent.            *)
DecryptOlm(d) ==
    /\ age' = [age EXCEPT ![d] = "recent"]
    /\ UNCHANGED <<wedged, rerequests, requestState, keyState, verified, queue>>

DecryptOlmFails(d) ==
    /\ age[d] # "recent" /\ wedged' = wedged \cup {d}
    /\ UNCHANGED <<age, rerequests, requestState, keyState, verified, queue>>

(* external: the unwedging interval passes *)
HourPasses ==
    /\ age' = [d \in Devices |-> IF age[d] = "recent" THEN "old" ELSE age[d]]
    /\ UNCHANGED <<wedged, rerequests, requestState, keyState, verified, queue>>

(* A Megolm event without its key, from a device with a recent session:    *)
(* ask for the key; from a wedged one: ask once it is unwedged.            *)
CheckIfWedged(d, s) ==
    /\ inbound[s] = "none" /\ age[d] # "none"
    /\ queue' = IF age[d] = "recent" /\ s \notin outgoing
                THEN queue \cup {MachineMessage("ask", d, s)} ELSE queue
    /\ rerequests' = IF d \in wedged THEN [rerequests EXCEPT ![d] = @ \cup {s}] ELSE rerequests
    /\ UNCHANGED <<wedged, age, requestState, keyState, verified>>

Released(m) == IF m.kind = "dummy" THEN {MachineMessage("ask", m.device, s) : s \in rerequests[m.device]} ELSE {}

(* A queued message was sent. *)
MarkAsSent(m) ==
    /\ m \in queue
    /\ queue' = (queue \ {m}) \cup Released(m)
    /\ rerequests' = IF m.kind = "dummy" THEN [rerequests EXCEPT ![m.device] = {}] ELSE rerequests
    /\ outgoing' = IF m.kind = "ask" THEN outgoing \cup {m.session} ELSE outgoing
    /\ UNCHANGED <<wedged, age, inbound, requestState, verified>>

-----------------------------------------------------------------------------
(* Room keys and Megolm events.                                            *)

HandleRoomKey(s) ==
    /\ inbound' = [inbound EXCEPT ![s] = "shared"]
    /\ UNCHANGED <<outgoing, requestState, sessionState, verified, queue>>

ShouldAcceptForward(d, s) == s \in outgoing /\ d \in Own /\ d \in verified

(* The key is stored, the request closed, its cancellation queued. *)
HandleForwardedKey(d, s) ==
    /\ ShouldAcceptForward(d, s)
    /\ inbound' = [inbound EXCEPT ![s] = "forwarded"]
    /\ outgoing' = outgoing \ {s}
    /\ queue' = queue \cup {MachineMessage("unask", None, s)}
    /\ UNCHANGED <<requestState, sessionState, verified>>

MachineInit ==
    /\ received = [d \in Devices |-> "none"] /\ waiting = {} /\ noSession = {} /\ untrusted = {}
    /\ wedged = {} /\ age = [d \in Devices |-> "none"] /\ verified = {}
    /\ outgoing = {} /\ inbound = [s \in Megolm |-> "none"]
    /\ rerequests = [d \in Devices |-> {}] /\ queue = {}
    /\ forwards = {} /\ withdrawn = {}

MachineNext ==
    \/ \E d \in Devices :
        \/ HandleKeyRequest(d) \/ HandleCancellation(d) \/ ContinueKeyShare(d)
        \/ CancelKeyShare(d) \/ ChangeTrust(d) \/ HandleKeyClaiming(d)
        \/ DecryptOlm(d) \/ DecryptOlmFails(d)
        \/ \E s \in Megolm : CheckIfWedged(d, s) \/ HandleForwardedKey(d, s)
    \/ CollectKeyRequests \/ HourPasses
    \/ \E m \in queue : MarkAsSent(m)
    \/ \E s \in Megolm : HandleRoomKey(s)

MachineSpec == MachineInit /\ [][MachineNext]_machineVars

-----------------------------------------------------------------------------
(* Properties.                                                             *)

(* The machine's books agree with each other: requests waiting for a       *)
(* session are those a key will be claimed for, and no device is recorded  *)
(* as both.                                                                *)
MachineTypeOK ==
    /\ received \in [Devices -> {"none", "request", "cancel"}]
    /\ waiting \cup noSession \cup untrusted \cup wedged \cup verified \subseteq Devices
    /\ age \in [Devices -> {"none", "old", "recent"}]
    /\ inbound \in [Megolm -> {"none", "shared", "forwarded"}] /\ outgoing \subseteq Megolm
    /\ waiting = noSession

(* A room key is only ever forwarded to an own device that is verified at  *)
(* that moment, whatever its request waited for, and that has not taken    *)
(* its request back.                                                       *)
ForwardsAllowed == \A f \in forwards : f.trusted /\ f.asked

(* Key requests held back for a wedged device are released: the device is  *)
(* still wedged, or the dummy message that releases them is queued.        *)
HeldBackReleased ==
    \A d \in Devices : rerequests[d] # {} => d \in wedged \/ MachineMessage("dummy", d, None) \in queue

(* The machine's books agree, so that key requests are forwarded to whom   *)
(* they may be and those held back are not forgotten.                      *)
KeyRequestsHandled == MachineTypeOK /\ ForwardsAllowed /\ HeldBackReleased

=============================================================================
