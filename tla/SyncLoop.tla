------------------------------ MODULE SyncLoop ------------------------------
(***************************************************************************)
(* Ordinary syncing, without a durable session                             *)
(* (src/nio/client/async_client.py sync, sync_forever and _handle_sync;    *)
(* src/nio/client/base_client.py _claim_sync_poll, _iter_sync and          *)
(* _iter_joined_rooms): the token, the callbacks, the stored token and the *)
(* stored set of encrypted rooms, with two callers of sync, callbacks that *)
(* raise, cancelled calls and restarts.                                    *)
(*                                                                         *)
(* The server's events are 1, 2, ...; the token n stands after event n.    *)
(* Secret is the event that turns encryption on.                           *)
(***************************************************************************)
EXTENDS Common, Naturals, Sequences, FiniteSets

CONSTANTS
    Pollers,        \* callers of sync: sync_forever and the application
    Secret,         \* the event that makes the room encrypted
    MaxStream,      \* bound: events on the server
    MaxBreaks       \* bound: raising callbacks, cancelled calls, restarts

ASSUME SyncLoopAssumption == MaxStream \in Nat /\ MaxBreaks \in Nat

VARIABLES
    stream,         \* how many events the server has
    nextBatch,      \* client.next_batch; 0: none
    loadedToken,    \* client.loaded_sync_token
    savedToken,     \* the token in the store
    inFlight,       \* _ordinary_sync_in_flight
    poller,         \* by caller: program counter, the request's token, what is left
    secretKnown,    \* the room is in client.encrypted_rooms
    secretSaved,    \* ... and in the store
    shown,          \* history: the events given to callbacks, in order
    dropped,        \* history: events of a response that was not finished
    breaks

syncLoopVars == <<stream, nextBatch, loadedToken, savedToken, inFlight, poller, secretKnown,
                  secretSaved, shown, dropped, breaks>>

Resting == [pc |-> "resting", since |-> 0, left |-> <<>>, secret |-> FALSE]

Since == IF nextBatch # 0 THEN nextBatch ELSE loadedToken

(* external: something happens in the room *)
StreamGrows ==
    /\ stream < MaxStream /\ stream' = stream + 1
    /\ UNCHANGED <<nextBatch, loadedToken, savedToken, inFlight, poller, secretKnown, secretSaved,
                   shown, dropped, breaks>>

(* Mutant: a request may start while another is in flight. *)
MayPollAlways == TRUE

(* _claim_sync_poll *)
MayPoll == ~inFlight

Sync(p) ==
    /\ poller[p].pc = "resting" /\ MayPoll
    /\ inFlight' = TRUE
    /\ poller' = [poller EXCEPT ![p] = [Resting EXCEPT !.pc = "asked", !.since = Since]]
    /\ UNCHANGED <<stream, nextBatch, loadedToken, savedToken, secretKnown, secretSaved, shown,
                   dropped, breaks>>

(* external: the answer is made up; it may be lost, and the request is     *)
(* then sent again by _send                                                *)
SyncAnswered(p) ==
    /\ poller[p].pc = "asked"
    /\ poller' = [poller EXCEPT ![p].pc = "answered",
                    ![p].left = [i \in 1..(stream - poller[p].since) |-> poller[p].since + i]]
    /\ UNCHANGED <<stream, nextBatch, loadedToken, savedToken, inFlight, secretKnown, secretSaved,
                   shown, dropped, breaks>>

AnswerMissing(p) ==
    /\ poller[p].pc = "answered" /\ breaks < MaxBreaks /\ breaks' = breaks + 1
    /\ poller' = [poller EXCEPT ![p].pc = "asked", ![p].left = <<>>]
    /\ UNCHANGED <<stream, nextBatch, loadedToken, savedToken, inFlight, secretKnown, secretSaved,
                   shown, dropped>>

Token(p) == poller[p].since + Len(poller[p].left)

(* the token is stored before anything of the response is handled *)
SavedAtOnce(p) == Token(p)

(* _handle_sync: a response with the token the client has is skipped. *)
HandleSync(p) ==
    /\ poller[p].pc = "answered"
    /\ IF nextBatch = Token(p)
       THEN /\ poller' = [poller EXCEPT ![p] = Resting] /\ inFlight' = FALSE
            /\ UNCHANGED <<nextBatch, savedToken>>
       ELSE /\ nextBatch' = Token(p) /\ savedToken' = SavedAtOnce(p)
            /\ poller' = [poller EXCEPT ![p].pc = "handling"] /\ UNCHANGED inFlight
    /\ UNCHANGED <<stream, loadedToken, secretKnown, secretSaved, shown, dropped, breaks>>

(* One event: its state is applied, its callbacks run and return. *)
Dispatch(p) ==
    /\ poller[p].pc = "handling" /\ poller[p].left # <<>>
    /\ shown' = Append(shown, Head(poller[p].left))
    /\ poller' = [poller EXCEPT ![p].left = Tail(@),
                    ![p].secret = @ \/ Head(poller[p].left) = Secret]
    /\ UNCHANGED <<stream, nextBatch, loadedToken, savedToken, inFlight, secretKnown, secretSaved,
                   dropped, breaks>>

SecretStored(p) == secretSaved \/ poller[p].secret

(* The joined rooms are done: encrypted rooms are remembered and stored. *)
Finish(p) ==
    /\ poller[p].pc = "handling" /\ poller[p].left = <<>>
    /\ secretKnown' = (secretKnown \/ poller[p].secret) /\ secretSaved' = SecretStored(p)
    /\ poller' = [poller EXCEPT ![p] = Resting] /\ inFlight' = FALSE
    /\ UNCHANGED <<stream, nextBatch, loadedToken, savedToken, shown, dropped, breaks>>

(* A callback raises or the call is cancelled (a failing task of           *)
(* sync_forever cancels it): the response is not finished, the event       *)
(* whose callback it was has been shown.                                   *)
Break(p) ==
    /\ poller[p].pc \in {"asked", "answered", "handling"}
    /\ breaks < MaxBreaks /\ breaks' = breaks + 1
    /\ LET begun == poller[p].pc = "handling" /\ poller[p].left # <<>>
       IN  \E during \in IF begun THEN BOOLEAN ELSE {FALSE} :
            /\ shown' = IF during THEN Append(shown, Head(poller[p].left)) ELSE shown
            /\ dropped' = IF poller[p].pc = "handling"
                          THEN dropped \cup {poller[p].left[i] : i \in DOMAIN poller[p].left}
                                       \cup (IF poller[p].secret THEN {Secret} ELSE {})
                          ELSE dropped
    /\ poller' = [poller EXCEPT ![p] = Resting] /\ inFlight' = FALSE
    /\ UNCHANGED <<stream, nextBatch, loadedToken, savedToken, secretKnown, secretSaved>>

(* The process ends, and another one loads the store. *)
RestartClient ==
    /\ breaks < MaxBreaks /\ breaks' = breaks + 1
    /\ nextBatch' = 0 /\ loadedToken' = savedToken /\ inFlight' = FALSE
    /\ poller' = [p \in Pollers |-> Resting] /\ secretKnown' = secretSaved
    /\ dropped' = dropped \cup
        UNION {{poller[p].left[i] : i \in DOMAIN poller[p].left}
                    \cup (IF poller[p].secret THEN {Secret} ELSE {})
                 : p \in {q \in Pollers : poller[q].pc = "handling"}}
    /\ UNCHANGED <<stream, savedToken, secretSaved, shown>>

SyncLoopInit ==
    /\ stream = 0 /\ nextBatch = 0 /\ loadedToken = 0 /\ savedToken = 0 /\ inFlight = FALSE
    /\ poller = [p \in Pollers |-> Resting] /\ secretKnown = FALSE /\ secretSaved = FALSE
    /\ shown = <<>> /\ dropped = {} /\ breaks = 0

SyncLoopNext ==
    \/ StreamGrows \/ RestartClient
    \/ \E p \in Pollers :
        \/ Sync(p) \/ SyncAnswered(p) \/ AnswerMissing(p) \/ HandleSync(p)
        \/ Dispatch(p) \/ Finish(p) \/ Break(p)

SyncLoopSpec == SyncLoopInit /\ [][SyncLoopNext]_syncLoopVars

-----------------------------------------------------------------------------
(* Properties.                                                             *)

Handling == {p \in Pollers : poller[p].pc = "handling"}

(* Without a durable session an event reaches the callbacks at most once   *)
(* and in the server's order, also across restarts: the token is stored    *)
(* before the response is handled, and two sync calls never overlap.       *)
OrdinaryAtMostOnce == \A i, j \in DOMAIN shown : i < j => shown[i] < shown[j]

(* What lies before the stored token reached the callbacks, is about to,   *)
(* or was part of a response that a raising callback, a cancellation or    *)
(* the end of the process cut short.                                       *)
OrdinaryLossExcused ==
    \A e \in 1..savedToken :
        \/ \E i \in DOMAIN shown : shown[i] = e
        \/ e \in dropped
        \/ \E p \in Handling : \E i \in DOMAIN poller[p].left : poller[p].left[i] = e

(* A room that turned encrypted is still known to be so after a restart,   *)
(* unless the response that said so was cut short.                         *)
EncryptionRemembered ==
    (\E i \in DOMAIN shown : shown[i] = Secret)
        => secretKnown \/ Secret \in dropped \/ \E p \in Handling : poller[p].secret

(* Ordinary delivery: at most once, lost for a reason only, and what makes *)
(* a room encrypted is not forgotten.                                      *)
OrdinaryDelivery == OrdinaryAtMostOnce /\ OrdinaryLossExcused /\ EncryptionRemembered

=============================================================================
