---------------------------- MODULE CrossSigning ----------------------------
(***************************************************************************)
(* ensure_cross_signing (src/nio/client/async_client.py) and the sidecar   *)
(* file that holds the account's signing seeds                             *)
(* (src/nio/crypto/cross_signing.py), for devices that share a store path. *)
(*                                                                         *)
(* An identity is the number of its seeds, with what it remembers of its   *)
(* uploads.  save truncates the file and then writes it: a crash in        *)
(* between leaves a file that cannot be read.  Any request may fail before *)
(* or after the server acted, and a call ends with the error.              *)
(***************************************************************************)
EXTENDS Common, Naturals, FiniteSets

CONSTANTS
    Broken,         \* a file that cannot be read
    Signers,        \* devices of the account that call ensure_cross_signing
    MaxSeeds,       \* bound: identities ever generated
    MaxMishaps      \* bound: failed requests and crashes

(* What the file holds when it can be read. *)
SavedIdentities == [seed : 1..MaxSeeds, uploaded : BOOLEAN, signed : SUBSET Signers]

ASSUME CrossSigningAssumption ==
    /\ Broken # None /\ {Broken, None} \cap SavedIdentities = {}
    /\ MaxSeeds \in Nat /\ MaxMishaps \in Nat

VARIABLES
    sidecar,        \* None, Broken, or an identity
    uploader,       \* by device: the step its call waits in, and its copy of the identity
    hasKeys,        \* devices whose own keys the server has
    masterKeys,     \* history: identities the server took as master keys
    signatures,     \* <<identity, device>> the server accepted
    seeds,          \* identities generated so far
    mishaps         \* failures so far

crossSigningVars == <<sidecar, uploader, hasKeys, masterKeys, signatures, seeds, mishaps>>
serverKeys == <<hasKeys, masterKeys, signatures>>

Waiting(d, at) == uploader[d].at = at
Goto(d, at, identity) == uploader' = [uploader EXCEPT ![d] = [at |-> at, identity |-> identity]]

(* After the upload: sign the device unless it was, with its own keys at   *)
(* the server first.                                                       *)
SignNext(d, identity) ==
    IF d \in identity.signed THEN Goto(d, "idle", None)
    ELSE Goto(d, IF d \in hasKeys THEN "sign" ELSE "keys", identity)

Generate == [seed |-> seeds + 1, uploaded |-> FALSE, signed |-> {}]

LoadAnyway == IF sidecar \in {None, Broken} THEN None ELSE sidecar

(* load: None only when the file is absent; a broken file raises. *)
Load == sidecar

(* Loading, generating and the first save happen without an await. *)
EnsureCrossSigning(d) ==
    /\ Waiting(d, "idle") /\ Load # Broken
    /\ LET identity == IF Load = None THEN Generate ELSE Load IN
        /\ seeds' = IF Load = None THEN seeds + 1 ELSE seeds
        /\ seeds' <= MaxSeeds
        /\ sidecar' = identity
        /\ IF identity.uploaded THEN SignNext(d, identity) ELSE Goto(d, "upload", identity)
    /\ UNCHANGED <<serverKeys, mishaps>>

(* The keys are accepted, at once or after password authentication; the    *)
(* identity is marked and saved.                                           *)
UploadCrossSigningKeys(d) ==
    LET identity == [uploader[d].identity EXCEPT !.uploaded = TRUE] IN
    /\ Waiting(d, "upload") \/ Waiting(d, "auth")
    /\ masterKeys' = masterKeys \cup {identity.seed}
    /\ sidecar' = identity /\ SignNext(d, identity)
    /\ UNCHANGED <<hasKeys, signatures, seeds, mishaps>>

(* 401: once more with the password. *)
AuthenticationAsked(d) ==
    /\ Waiting(d, "upload") /\ Goto(d, "auth", uploader[d].identity)
    /\ UNCHANGED <<sidecar, serverKeys, seeds, mishaps>>

(* The result of keys_upload is not looked at. *)
KeysUpload(d) ==
    /\ Waiting(d, "keys") /\ Goto(d, "sign", uploader[d].identity)
    /\ \/ hasKeys' = hasKeys \cup {d} /\ UNCHANGED mishaps
       \/ mishaps < MaxMishaps /\ mishaps' = mishaps + 1 /\ UNCHANGED hasKeys
    /\ UNCHANGED <<sidecar, masterKeys, signatures, seeds>>

(* The server signs a device whose keys it has, with a master key it has.  *)
UploadOwnDeviceSignature(d) ==
    LET identity == [uploader[d].identity EXCEPT !.signed = @ \cup {d}] IN
    /\ Waiting(d, "sign") /\ d \in hasKeys /\ identity.seed \in masterKeys
    /\ signatures' = signatures \cup {<<identity.seed, d>>}
    /\ sidecar' = identity /\ Goto(d, "idle", None)
    /\ UNCHANGED <<hasKeys, masterKeys, seeds, mishaps>>

(* A request is refused or its answer lost: the call raises. *)
RequestFails(d) ==
    /\ ~Waiting(d, "idle") /\ ~Waiting(d, "keys")
    /\ mishaps' = mishaps + 1 /\ mishaps < MaxMishaps
    /\ \/ UNCHANGED <<masterKeys, signatures>>
       \/ /\ ~Waiting(d, "sign") /\ masterKeys' = masterKeys \cup {uploader[d].identity.seed}
          /\ UNCHANGED signatures
       \/ /\ Waiting(d, "sign") /\ d \in hasKeys /\ uploader[d].identity.seed \in masterKeys
          /\ signatures' = signatures \cup {<<uploader[d].identity.seed, d>>}
          /\ UNCHANGED masterKeys
    /\ Goto(d, "idle", None)
    /\ UNCHANGED <<sidecar, hasKeys, seeds>>

Idle == [d \in Signers |-> [at |-> "idle", identity |-> None]]

(* The process ends and takes every call with it, possibly inside the save *)
(* that a step of d begins.                                                *)
CrashSigning ==
    /\ mishaps < MaxMishaps /\ mishaps' = mishaps + 1 /\ uploader' = Idle
    /\ UNCHANGED <<sidecar, serverKeys, seeds>>

CrashInSave(d) ==
    /\ mishaps < MaxMishaps /\ mishaps' = mishaps + 1 /\ uploader' = Idle
    /\ sidecar' = Broken /\ UNCHANGED hasKeys
    /\ \/ /\ Waiting(d, "idle") /\ Load = None /\ seeds < MaxSeeds
          /\ seeds' = seeds + 1 /\ UNCHANGED <<masterKeys, signatures>>
       \/ /\ Waiting(d, "upload") \/ Waiting(d, "auth")
          /\ masterKeys' = masterKeys \cup {uploader[d].identity.seed}
          /\ UNCHANGED <<signatures, seeds>>
       \/ /\ Waiting(d, "sign") /\ d \in hasKeys /\ uploader[d].identity.seed \in masterKeys
          /\ signatures' = signatures \cup {<<uploader[d].identity.seed, d>>}
          /\ UNCHANGED <<masterKeys, seeds>>

CrossSigningInit ==
    /\ sidecar = None /\ uploader = Idle /\ hasKeys \in SUBSET Signers
    /\ masterKeys = {} /\ signatures = {} /\ seeds = 0 /\ mishaps = 0

CrossSigningNext ==
    \/ CrashSigning
    \/ \E d \in Signers :
        \/ EnsureCrossSigning(d) \/ UploadCrossSigningKeys(d) \/ AuthenticationAsked(d)
        \/ KeysUpload(d) \/ UploadOwnDeviceSignature(d)
        \/ RequestFails(d) \/ CrashInSave(d)

CrossSigningSpec == CrossSigningInit /\ [][CrossSigningNext]_crossSigningVars

(* Whatever fails and wherever the process ends, the account keeps one     *)
(* master key, the file holds its seeds unless it was torn, and what the   *)
(* file says was uploaded and signed the server has.  Calls of two devices *)
(* overwrite each other's copy, but only to forget a signature.            *)
IdentityKept ==
    /\ Cardinality(masterKeys) <= 1
    /\ sidecar # Broken /\ sidecar # None =>
        /\ masterKeys \subseteq {sidecar.seed}
        /\ sidecar.uploaded => sidecar.seed \in masterKeys
        /\ \A d \in sidecar.signed : <<sidecar.seed, d>> \in signatures
    /\ sidecar = None => masterKeys = {}
=============================================================================
