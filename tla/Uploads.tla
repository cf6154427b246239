------------------------------- MODULE Uploads -------------------------------
(***************************************************************************)
(* upload (src/nio/client/async_client.py): a file object is sent chunk by *)
(* chunk, encrypted or not, and started over when _send repeats the        *)
(* request.  The file may have been read up to some place before.          *)
(***************************************************************************)
EXTENDS Common, Naturals

CONSTANTS
    FileSize,       \* chunks of the file
    MaxUploads      \* bound: attempts

(* What the server acknowledged. *)
Receipts == [attempt : 0..MaxUploads, from : 0..FileSize, to : 0..FileSize]

ASSUME UploadsAssumption ==
    /\ FileSize \in Nat /\ MaxUploads \in Nat
    /\ None \notin 0..MaxUploads /\ None \notin Receipts

VARIABLES
    place,          \* the file object's position
    initial,        \* initial_file_pos
    attempt,        \* got_429 + got_timeouts, or None when no upload runs
    first,          \* where this attempt started
    keysOf,         \* decryption_dict: the attempt whose keys it holds, or None
    transferred,    \* monitor.transferred
    stored          \* what the server acknowledged: attempt and range, or None

uploadVars == <<place, initial, attempt, first, keysOf, transferred, stored>>

Upload ==
    /\ attempt = None /\ stored = None
    /\ initial' = place /\ first' = place /\ attempt' = 0 /\ transferred' = 0
    /\ UNCHANGED <<place, keysOf, stored>>

SendPiece ==
    /\ attempt # None /\ place < FileSize
    /\ place' = place + 1 /\ transferred' = transferred + 1
    /\ UNCHANGED <<initial, attempt, first, keysOf, stored>>

(* the generator's last value: the keys that decrypt what it produced *)
EncryptionDone ==
    /\ attempt # None /\ place = FileSize /\ keysOf # attempt /\ keysOf' = attempt
    /\ UNCHANGED <<place, initial, attempt, first, transferred, stored>>

(* Mutant: a repeated upload goes on where the last one stopped. *)
SeekNone == place

Seek == initial

(* A time-out or a rate limit, in the middle or after the last chunk: the  *)
(* provider starts over.                                                   *)
UploadAgain ==
    /\ attempt # None /\ attempt < MaxUploads
    /\ place' = Seek /\ first' = Seek /\ attempt' = attempt + 1 /\ transferred' = 0
    /\ UNCHANGED <<initial, keysOf, stored>>

Uploaded ==
    /\ attempt # None /\ keysOf = attempt
    /\ stored' = [attempt |-> attempt, from |-> first, to |-> place]
    /\ attempt' = None
    /\ UNCHANGED <<place, initial, first, keysOf, transferred>>

UploadInit ==
    /\ place \in 0..FileSize /\ initial = 0 /\ attempt = None /\ first = 0 /\ keysOf = None
    /\ transferred = 0 /\ stored = None

UploadNext == Upload \/ SendPiece \/ EncryptionDone \/ UploadAgain \/ Uploaded

UploadSpec == UploadInit /\ [][UploadNext]_uploadVars

(* What the server acknowledged is the file from the place it was given    *)
(* at, the returned keys are those of that very attempt, and the monitor   *)
(* counts its chunks, however often the upload was repeated and wherever   *)
(* it broke off.                                                           *)
UploadIntact ==
    stored # None =>
        /\ stored.from = initial /\ stored.to = FileSize /\ keysOf = stored.attempt
        /\ transferred = FileSize - initial

=============================================================================
