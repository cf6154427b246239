---------------------------- MODULE ClientProofs ----------------------------
(***************************************************************************)
(* Proofs about the parts of the asynchronous client: uploads, procedures  *)
(* of several requests, cross-signing, the decryption of Megolm events,    *)
(* the machine's room-key requests, one request and its retries, the       *)
(* picture of a room and the loop of sync, for any files, aliases,         *)
(* devices, identities, members, pollers, indexes and bounds.              *)
(***************************************************************************)
EXTENDS Procedures, CrossSigning, MegolmEvents, OlmMachine, Requests, Rooms, SyncLoop, Orders,
        FiniteSetTheorems, SequenceTheorems, TLAPS

-----------------------------------------------------------------------------
(* Uploads *)

UploadTypeOK ==
    /\ place \in 0..FileSize /\ initial \in 0..FileSize /\ first \in 0..FileSize
    /\ attempt \in 0..MaxUploads \cup {None} /\ keysOf \in 0..MaxUploads \cup {None}
    /\ transferred \in Int /\ stored \in Receipts \cup {None}

(* While an attempt runs it started at the remembered place, the monitor   *)
(* counts what it sent, and the keys at hand are from it only when it has  *)
(* reached the end of the file.                                            *)
Attempting ==
    attempt # None =>
        /\ stored = None /\ first = initial /\ initial <= place
        /\ transferred = place - initial
        /\ keysOf # None => keysOf <= attempt
        /\ keysOf = attempt => place = FileSize

UploadInv ==
    /\ UploadTypeOK /\ Attempting /\ UploadIntact
    /\ attempt = None /\ stored = None => keysOf = None

(* What the server acknowledged is the whole rest of the file, under the   *)
(* keys of the last attempt (upload with the retries of _send).            *)
THEOREM UploadsIntact == UploadSpec => []UploadIntact
  <1> USE UploadsAssumption DEF UploadInv, UploadTypeOK, Attempting, UploadIntact, Receipts
  <1>1. UploadInit => UploadInv
    BY DEF UploadInit
  <1>2. UploadInv /\ [UploadNext]_uploadVars => UploadInv'
    <2> SUFFICES ASSUME UploadInv, [UploadNext]_uploadVars PROVE UploadInv'
      OBVIOUS
    <2>1. CASE Upload
      BY <2>1 DEF Upload
    <2>2. CASE SendPiece
      BY <2>2 DEF SendPiece
    <2>3. CASE EncryptionDone
      BY <2>3 DEF EncryptionDone
    <2>4. CASE UploadAgain
      BY <2>4 DEF UploadAgain, Seek
    <2>5. CASE Uploaded
      BY <2>5 DEF Uploaded
    <2>6. CASE UNCHANGED uploadVars
      BY <2>6 DEF uploadVars
    <2> QED BY <2>1, <2>2, <2>3, <2>4, <2>5, <2>6 DEF UploadNext
  <1>3. UploadInv => UploadIntact
    OBVIOUS
  <1> QED BY <1>1, <1>2, <1>3, PTL DEF UploadSpec

-----------------------------------------------------------------------------
(* room_upgrade and room_update_aliases *)

Before == {"idle", "permission", "state", "predecessor", "create"}
Steps == Before \cup {"tombstone", "aliases", "remove", "assign", "upgraded", "failed"}

AliasEvents == [alias : Aliases \cup {None}, alts : SUBSET Aliases]
Jobs == [room : Rooms, pc : {"read", "change"}, alias : Aliases \cup {None},
         asked : SUBSET Aliases, alts : SUBSET Aliases, new : SUBSET (Aliases \cup {None}),
         delete : SUBSET (Aliases \cup {None}), put : SUBSET (Aliases \cup {None})]

ProcedureTypeOK ==
    /\ step \in Steps /\ registered \in [Aliases -> {None, OldRoom, NewRoom}]
    /\ canonical \in [Rooms -> AliasEvents \cup {None}]
    /\ step = "remove" => wanted \in AliasEvents
    /\ job \in Jobs \cup {None}

(* The steps of an upgrade in order: nothing is made before the room is,   *)
(* nothing points to it before the tombstone, and only then does a job     *)
(* work on the new room's aliases.                                         *)
UpgradeInv ==
    /\ ProcedureTypeOK
    /\ step \in Before \cup {"tombstone"} => ~tombstone
    /\ step = "tombstone" => made
    /\ step = "aliases" => made /\ tombstone
    /\ job # None /\ job.room = NewRoom => tombstone
    /\ UpgradeOrdered

(* Whichever request of an upgrade the server refuses, the old room is     *)
(* closed and loses aliases only for a room that exists (room_upgrade,     *)
(* room_update_aliases).                                                   *)
THEOREM UpgradesOrdered == ProcedureSpec => []UpgradeOrdered
  <1> USE RoomsDistinct DEF UpgradeInv, Steps, Before, UpgradeOrdered, serverState, Rooms,
      ProcedureTypeOK, AliasEvents, Jobs
  <1>1. ProcedureInit => UpgradeInv
    BY DEF ProcedureInit
  <1>2. UpgradeInv /\ [ProcedureNext]_procedureVars => UpgradeInv'
    <2> SUFFICES ASSUME UpgradeInv, [ProcedureNext]_procedureVars PROVE UpgradeInv'
      OBVIOUS
    <2>1. ASSUME NEW alias \in Aliases \cup {None}, NEW alts \in SUBSET Aliases,
                 UpdateAliases(alias, alts)
          PROVE UpgradeInv'
      BY <2>1 DEF UpdateAliases, AliasJob
    <2>2. CASE Upgrade \/ UpgradeEnds
      BY <2>2 DEF Upgrade, UpgradeEnds
    <2>3. CASE AssignAliases
      BY <2>3 DEF AssignAliases, AliasJob
    <2>4. ASSUME NEW refused \in BOOLEAN,
                 \/ HasEventPermission(refused) \/ ReadOldState(refused)
                 \/ FindPredecessor(refused)
          PROVE  UpgradeInv'
      BY <2>4 DEF HasEventPermission, ReadOldState, FindPredecessor, Look
    <2>5. ASSUME NEW refused \in BOOLEAN, CreateRoom(refused) PROVE UpgradeInv'
      BY <2>5 DEF CreateRoom, Created
    <2>6. ASSUME NEW refused \in BOOLEAN, PutTombstone(refused) PROVE UpgradeInv'
      BY <2>6 DEF PutTombstone
    <2>7. ASSUME NEW refused \in BOOLEAN, ReadOldAliases(refused) PROVE UpgradeInv'
      BY <2>7 DEF ReadOldAliases, AliasJob
    <2>8. ASSUME NEW refused \in BOOLEAN, ReadAliases(refused) PROVE UpgradeInv'
      <3>1. UNCHANGED <<registered, canonical, made, tombstone, step, wanted>>
        BY <2>8 DEF ReadAliases
      <3>2. job \in Jobs /\ canonical[job.room] \in AliasEvents \cup {None}
        BY <2>8 DEF ReadAliases
      <3>3. CASE refused
        BY <2>8, <3>1, <3>3 DEF ReadAliases, Ended
      <3>4. CASE ~refused /\ canonical[job.room] = None
        <4>1. job' = [job EXCEPT !.pc = "change", !.put = job.new]
          BY <2>8, <3>4 DEF ReadAliases
        <4>2. job' \in Jobs /\ job'.room = job.room
          BY <3>2, <4>1
        <4> QED BY <2>8, <3>1, <4>2 DEF ReadAliases
      <3>5. CASE ~refused /\ canonical[job.room] # None
        <4>1. job' = [job EXCEPT !.pc = "change", !.put = job.new,
                                 !.alts = canonical[job.room].alts,
                                 !.delete = Names(canonical[job.room]) \ job.new]
          BY <2>8, <3>5 DEF ReadAliases
        <4>2. Names(canonical[job.room]) \subseteq Aliases \cup {None}
          BY <3>2, <3>5 DEF Names
        <4>3. job' \in Jobs /\ job'.room = job.room
          BY <3>2, <3>5, <4>1, <4>2
        <4> QED BY <2>8, <3>1, <4>3 DEF ReadAliases
      <3> QED BY <3>3, <3>4, <3>5
    <2>9. ASSUME NEW refused \in BOOLEAN, PutCanonical(refused) PROVE UpgradeInv'
      BY <2>9 DEF PutCanonical, Ended
    <2>10. ASSUME NEW refused \in BOOLEAN, NEW a \in Aliases, DeleteAlias(a, refused)
           PROVE  UpgradeInv'
      BY <2>10 DEF DeleteAlias
    <2>11. ASSUME NEW refused \in BOOLEAN, NEW a \in Aliases, PutAlias(a, refused)
           PROVE  UpgradeInv'
      BY <2>11 DEF PutAlias
    <2>12. CASE UNCHANGED procedureVars
      BY <2>12 DEF procedureVars
    <2> QED
      BY <2>1, <2>2, <2>3, <2>4, <2>5, <2>6, <2>7, <2>8, <2>9, <2>10, <2>11, <2>12
      DEF ProcedureNext
  <1>3. UpgradeInv => UpgradeOrdered
    OBVIOUS
  <1> QED BY <1>1, <1>2, <1>3, PTL DEF ProcedureSpec

(* Taken together, a process that runs uploads and upgrades side by side   *)
(* keeps every procedure of several requests safe at each of its steps.    *)
THEOREM ProceduresStepwiseSafe == UploadSpec /\ ProcedureSpec => []StepwiseSafe
  <1>1. UploadIntact /\ UpgradeOrdered => StepwiseSafe
    BY DEF StepwiseSafe
  <1> QED BY <1>1, UploadsIntact, UpgradesOrdered, PTL

-----------------------------------------------------------------------------
(* Cross-signing *)

Busy(d) == uploader[d].at # "idle"

SigningTypeOK ==
    /\ sidecar \in SavedIdentities \cup {None, Broken} /\ seeds \in 0..MaxSeeds
    /\ uploader \in [Signers -> [at : {"idle", "upload", "auth", "keys", "sign"},
                                 identity : SavedIdentities \cup {None}]]
    /\ \A d \in Signers : Busy(d) => uploader[d].identity \in SavedIdentities

(* What a copy of the identity says the server has, it has. *)
Backed(copy) ==
    /\ copy.seed = seeds
    /\ copy.uploaded => seeds \in masterKeys
    /\ \A d \in copy.signed : <<seeds, d>> \in signatures

(* Every copy in use is of the last identity ever generated, and the next  *)
(* one is only generated while there is none.                              *)
SigningInv ==
    /\ SigningTypeOK
    /\ masterKeys \subseteq {seeds}
    /\ sidecar = None => masterKeys = {}
    /\ sidecar \in {None, Broken} => \A d \in Signers : ~Busy(d)
    /\ sidecar \in SavedIdentities => Backed(sidecar)
    /\ \A d \in Signers : Busy(d) => Backed(uploader[d].identity)

LEMMA SigningInitial == CrossSigningInit => SigningInv
  BY CrossSigningAssumption
  DEF CrossSigningInit, Idle, SigningInv, SigningTypeOK, Busy, Backed

(* A step that only adds to what the server has, and takes calls to idle,  *)
(* keeps the invariant.                                                    *)
LEMMA SigningStep == SigningInv /\ [CrossSigningNext]_crossSigningVars => SigningInv'
  <1> SUFFICES ASSUME SigningInv, [CrossSigningNext]_crossSigningVars PROVE SigningInv'
    OBVIOUS
  <1> USE CrossSigningAssumption DEF SigningInv, SigningTypeOK, Busy, Backed, Waiting, serverKeys
  <1>1. CASE CrashSigning
    BY <1>1 DEF CrashSigning, Idle
  <1>2. ASSUME NEW d \in Signers, EnsureCrossSigning(d) PROVE SigningInv'
    <2> DEFINE saved == IF sidecar = None THEN Generate ELSE sidecar
    <2>1. /\ seeds' = (IF sidecar = None THEN seeds + 1 ELSE seeds) /\ seeds' <= MaxSeeds
          /\ sidecar # Broken /\ sidecar' = saved /\ UNCHANGED <<masterKeys, signatures>>
      BY <1>2 DEF EnsureCrossSigning, Load
    <2>2. saved \in SavedIdentities /\ seeds' \in 0..MaxSeeds
      <3>1. CASE sidecar = None
        BY <2>1, <3>1 DEF Generate, SavedIdentities
      <3>2. CASE sidecar # None
        BY <2>1, <3>2
      <3> QED BY <3>1, <3>2
    <2>3. saved.seed = seeds' /\ (saved.uploaded => seeds' \in masterKeys)
          /\ \A e \in saved.signed : <<seeds', e>> \in signatures
      <3>1. CASE sidecar = None
        BY <2>1, <3>1 DEF Generate
      <3>2. CASE sidecar # None
        BY <2>1, <3>2
      <3> QED BY <3>1, <3>2
    <2>4. PICK at \in {"idle", "upload", "keys", "sign"}, kept \in {saved, None} :
            Goto(d, at, kept) /\ (at # "idle" => kept = saved)
      BY <1>2 DEF EnsureCrossSigning, Load, SignNext
    <2>5. uploader' = [uploader EXCEPT ![d] = [at |-> at, identity |-> kept]]
      BY <2>4 DEF Goto
    <2>6. \A e \in Signers : e # d /\ Busy(e) => seeds' = seeds
      BY <2>1
    <2> HIDE DEF saved
    <2>7. SigningTypeOK'
      BY <2>1, <2>2, <2>4, <2>5
    <2>8. \A e \in Signers : Busy(e)' => Backed(uploader[e].identity)'
      BY <2>1, <2>3, <2>4, <2>5, <2>6
    <2>9. sidecar' \notin {None, Broken} /\ Backed(sidecar)'
      BY <2>1, <2>2, <2>3
    <2>10. masterKeys' \subseteq {seeds'}
      BY <2>1
    <2> QED BY <2>7, <2>8, <2>9, <2>10
  <1>3. ASSUME NEW d \in Signers, UploadCrossSigningKeys(d) PROVE SigningInv'
    <2> DEFINE saved == [uploader[d].identity EXCEPT !.uploaded = TRUE]
    <2>1. Busy(d) /\ uploader[d].identity \in SavedIdentities /\ Backed(uploader[d].identity)
      BY <1>3 DEF UploadCrossSigningKeys
    <2>2. /\ saved \in SavedIdentities /\ saved.seed = seeds
          /\ saved.signed = uploader[d].identity.signed
      BY <2>1 DEF SavedIdentities
    <2>3. /\ masterKeys' = masterKeys \cup {seeds} /\ sidecar' = saved
          /\ UNCHANGED <<signatures, seeds>>
      BY <1>3, <2>2 DEF UploadCrossSigningKeys
    <2>4. PICK at \in {"idle", "keys", "sign"}, kept \in {saved, None} :
            Goto(d, at, kept) /\ (at # "idle" => kept = saved)
      BY <1>3 DEF UploadCrossSigningKeys, SignNext
    <2>5. uploader' = [uploader EXCEPT ![d] = [at |-> at, identity |-> kept]]
      BY <2>4 DEF Goto
    <2> HIDE DEF saved
    <2>6. SigningTypeOK'
      BY <2>2, <2>3, <2>4, <2>5
    <2>7. \A e \in Signers : Busy(e)' => Backed(uploader[e].identity)'
      BY <2>1, <2>2, <2>3, <2>4, <2>5
    <2> QED BY <2>1, <2>2, <2>3, <2>6, <2>7
  <1>4. ASSUME NEW d \in Signers, AuthenticationAsked(d) PROVE SigningInv'
    BY <1>4 DEF AuthenticationAsked, Goto
  <1>5. ASSUME NEW d \in Signers, KeysUpload(d) PROVE SigningInv'
    BY <1>5 DEF KeysUpload, Goto
  <1>6. ASSUME NEW d \in Signers, UploadOwnDeviceSignature(d) PROVE SigningInv'
    BY <1>6 DEF UploadOwnDeviceSignature, Goto, SavedIdentities
  <1>7. ASSUME NEW d \in Signers, RequestFails(d) PROVE SigningInv'
    BY <1>7 DEF RequestFails, Goto, SavedIdentities
  <1>8. ASSUME NEW d \in Signers, CrashInSave(d) PROVE SigningInv'
    <2>1. sidecar' = Broken /\ seeds' \in 0..MaxSeeds /\ masterKeys' \subseteq {seeds'}
      <3>1. CASE Waiting(d, "idle") /\ Load = None /\ seeds' = seeds + 1 /\ masterKeys' = masterKeys
                 /\ seeds < MaxSeeds
        BY <1>8, <3>1 DEF CrashInSave, Load
      <3>2. CASE seeds' = seeds /\ Busy(d) /\ masterKeys' = masterKeys \cup {uploader[d].identity.seed}
        BY <1>8, <3>2 DEF CrashInSave
      <3>3. CASE seeds' = seeds /\ masterKeys' = masterKeys
        BY <1>8, <3>3 DEF CrashInSave
      <3> QED BY <1>8, <3>1, <3>2, <3>3 DEF CrashInSave
    <2>2. uploader' = [e \in Signers |-> [at |-> "idle", identity |-> None]]
      BY <1>8 DEF CrashInSave, Idle
    <2> QED BY <2>1, <2>2
  <1>9. CASE UNCHANGED crossSigningVars
    BY <1>9 DEF crossSigningVars
  <1> QED BY <1>1, <1>2, <1>3, <1>4, <1>5, <1>6, <1>7, <1>8, <1>9 DEF CrossSigningNext

(* Whatever fails and wherever the process ends, the account has one       *)
(* master key, and the file is no further than the server                  *)
(* (ensure_cross_signing, load, save).                                     *)
THEOREM MasterKeyKept == CrossSigningSpec => []IdentityKept
  <1>1. SigningInv => IdentityKept
    <2> SUFFICES ASSUME SigningInv PROVE IdentityKept
      OBVIOUS
    <2>1. Cardinality(masterKeys) <= 1
      <3>1. IsFiniteSet({seeds}) /\ Cardinality({seeds}) = 1
        BY FS_Singleton
      <3> QED BY <3>1, FS_Subset DEF SigningInv
    <2> QED
      BY <2>1 DEF SigningInv, SigningTypeOK, Backed, IdentityKept
  <1> QED BY <1>1, SigningInitial, SigningStep, PTL DEF CrossSigningSpec

-----------------------------------------------------------------------------
(* Decrypting Megolm events *)

Entries == Indexes \X Events

ReplayTypeOK ==
    /\ replays \in Seq(Entries) /\ Len(replays) <= ReplaySize
    /\ \A a, b \in 1..Len(replays) : replays[a][1] = replays[b][1] => a = b
    /\ passed \subseteq Entries
    /\ since \in [Indexes -> SUBSET Indexes] /\ \A i \in Indexes : IsFiniteSet(since[i])

(* The store holds what passed, in the order of its last use; an index     *)
(* that passed and is no longer there was evicted from a full store, by    *)
(* entries that were all looked up after it.                               *)
ReplayOrder ==
    /\ \A k \in 1..Len(replays) : replays[k] \in passed
    /\ \A j, k \in 1..Len(replays) : j < k => replays[k][1] \in since[replays[j][1]]
    /\ \A p \in passed :
        (\A k \in 1..Len(replays) : replays[k][1] # p[1]) =>
            /\ Len(replays) = ReplaySize
            /\ \A k \in 1..Len(replays) : replays[k][1] \in since[p[1]]

ReplayInv == ReplayTypeOK /\ ReplayOrder

(* Looking up an index that is stored moves its entry to the end. *)
LEMMA RefreshShape ==
    ASSUME ReplayTypeOK, NEW i \in Indexes, NEW e, Places(i) # {}
    PROVE  \E k \in 1..Len(replays) :
            /\ Places(i) = {k} /\ replays[k][1] = i
            /\ Remembered(i, e) \in Seq(Entries)
            /\ Len(Remembered(i, e)) = Len(replays)
            /\ \A n \in 1..Len(replays) :
                    Remembered(i, e)[n] = IF n < k THEN replays[n]
                                          ELSE IF n < Len(replays) THEN replays[n + 1]
                                          ELSE replays[k]
  <1>1. PICK k \in Places(i) : k = CHOOSE m \in Places(i) : TRUE
    OBVIOUS
  <1>2. DOMAIN replays = 1..Len(replays) /\ Len(replays) \in Nat
        /\ \A n \in 1..Len(replays) : replays[n] \in Entries
    BY DEF ReplayTypeOK
  <1>3. k \in 1..Len(replays) /\ replays[k][1] = i /\ Places(i) = {k}
    BY <1>2 DEF Places, ReplayTypeOK
  <1>4. Remembered(i, e) = Refreshed(k)
    BY <1>1 DEF Remembered
  <1>5. Refreshed(k) = [n \in 1..Len(replays) |->
                            IF n < k THEN replays[n] ELSE IF n < Len(replays) THEN replays[n + 1]
                            ELSE replays[k]]
    BY <1>2 DEF Refreshed
  <1>6. Refreshed(k) \in [1..Len(replays) -> Entries]
    BY <1>2, <1>3, <1>5
  <1>7. Refreshed(k) \in Seq(Entries) /\ Len(Refreshed(k)) = Len(replays)
    BY <1>2, <1>6
  <1> QED BY <1>3, <1>4, <1>5, <1>7

(* A new entry goes to the end, and the first one is dropped when full. *)
LEMMA AddShape ==
    ASSUME ReplayTypeOK, NEW i \in Indexes, NEW e \in Events, Places(i) = {}
    PROVE  \E drop \in {0, 1} :
            /\ drop = 1 <=> Len(replays) = ReplaySize
            /\ Remembered(i, e) \in Seq(Entries)
            /\ Len(Remembered(i, e)) = Len(replays) + 1 - drop
            /\ \A n \in 1..(Len(replays) - drop) : Remembered(i, e)[n] = replays[n + drop]
            /\ Remembered(i, e)[Len(replays) + 1 - drop] = <<i, e>>
  <1>1. Len(replays) \in Nat /\ Len(replays) <= ReplaySize /\ ReplaySize \in Nat \ {0}
        /\ replays \in Seq(Entries) /\ <<i, e>> \in Entries
    BY MegolmAssumption DEF ReplayTypeOK, Entries
  <1>2. Remembered(i, e) = Added(i, e)
    BY DEF Remembered
  <1>3. CASE Len(replays) < ReplaySize
    <2>1. Added(i, e) = Append(replays, <<i, e>>)
      BY <1>3 DEF Added
    <2> QED BY <1>1, <1>2, <1>3, <2>1
  <1>4. CASE Len(replays) = ReplaySize
    <2>1. Added(i, e) = Append(Tail(replays), <<i, e>>)
      BY <1>1, <1>4 DEF Added
    <2>2. /\ Tail(replays) \in Seq(Entries) /\ Len(Tail(replays)) = Len(replays) - 1
          /\ \A n \in 1..(Len(replays) - 1) : Tail(replays)[n] = replays[n + 1]
      BY <1>1, <1>4
    <2> QED BY <1>1, <1>2, <1>4, <2>1, <2>2
  <1> QED BY <1>1, <1>3, <1>4

LEMMA SinceKept ==
    ASSUME ReplayTypeOK, NEW i \in Indexes, NEW e \in Events, DecryptMegolmEvent(i, e)
    PROVE  /\ since' \in [Indexes -> SUBSET Indexes] /\ since'[i] = {}
           /\ \A j \in Indexes \ {i} : since'[j] = since[j] \cup {i}
           /\ \A j \in Indexes : IsFiniteSet(since'[j])
  <1>1. /\ since' \in [Indexes -> SUBSET Indexes] /\ since'[i] = {}
        /\ \A j \in Indexes \ {i} : since'[j] = since[j] \cup {i}
    BY DEF ReplayTypeOK, DecryptMegolmEvent
  <1>2. ASSUME NEW j \in Indexes PROVE IsFiniteSet(since'[j])
    <2>1. CASE j = i
      BY <1>1, <2>1, FS_EmptySet
    <2>2. CASE j # i
      <3>1. IsFiniteSet(since[j])
        BY DEF ReplayTypeOK
      <3>2. IsFiniteSet(since[j] \cup {i})
        BY <3>1, FS_AddElement
      <3> QED BY <1>1, <2>2, <3>2
    <2> QED BY <2>1, <2>2
  <1> QED BY <1>1, <1>2

LEMMA DecryptKeepsReplays ==
    ASSUME ReplayInv, NEW i \in Indexes, NEW e \in Events, DecryptMegolmEvent(i, e)
    PROVE  ReplayInv'
  <1>1. /\ replays' = Remembered(i, e) /\ passed \subseteq passed'
        /\ passed' \subseteq passed \cup {<<i, e>>}
        /\ (MessageIndexOk(i, e) => <<i, e>> \in passed')
    BY DEF DecryptMegolmEvent
  <1>2. Len(replays) \in Nat /\ replays \in Seq(Entries)
        /\ \A n \in 1..Len(replays) : replays[n] \in Entries /\ replays[n][1] \in Indexes
    BY DEF ReplayInv, ReplayTypeOK, Entries
  <1>3. passed' \subseteq Entries
    BY <1>1 DEF ReplayInv, ReplayTypeOK, Entries
  <1>4. \A p \in Entries : p[1] \in Indexes
    BY DEF Entries
  <1>5. \A p \in passed : p[1] \in Indexes
    BY <1>4 DEF ReplayInv, ReplayTypeOK
  <1>6. CASE Places(i) # {}
    <2>1. PICK k \in 1..Len(replays) :
            /\ Places(i) = {k} /\ replays[k][1] = i
            /\ replays' \in Seq(Entries)
            /\ Len(replays') = Len(replays)
            /\ \A n \in 1..Len(replays) :
                    replays'[n] = IF n < k THEN replays[n]
                                  ELSE IF n < Len(replays) THEN replays[n + 1]
                                  ELSE replays[k]
      BY <1>1, <1>6, RefreshShape DEF ReplayInv
    <2>2. \A a, b \in 1..Len(replays') : replays'[a][1] = replays'[b][1] => a = b
      BY <1>2, <2>1 DEF ReplayInv, ReplayTypeOK
    <2>3. ReplayTypeOK'
      BY <1>3, <2>1, <2>2, SinceKept DEF ReplayInv, ReplayTypeOK
    <2>4. \A n \in 1..Len(replays') : replays'[n] \in passed'
      BY <1>1, <1>2, <2>1 DEF ReplayInv, ReplayOrder
    <2>5. ASSUME NEW a \in 1..Len(replays'), NEW b \in 1..Len(replays'), a < b
          PROVE  replays'[b][1] \in since'[replays'[a][1]]
      <3>1. PICK a0 \in 1..Len(replays) :
                replays'[a] = replays[a0] /\ a0 = IF a < k THEN a ELSE a + 1
        BY <1>2, <2>1, <2>5
      <3>2. a0 # k /\ replays[a0][1] # i /\ replays[a0][1] \in Indexes
        BY <1>2, <2>1, <3>1, SMTT(30) DEF ReplayInv, ReplayTypeOK
      <3>3. since'[replays[a0][1]] = since[replays[a0][1]] \cup {i}
        BY <3>2, SinceKept DEF ReplayInv
      <3>4. CASE b = Len(replays)
        BY <1>2, <2>1, <3>1, <3>3, <3>4
      <3>5. CASE b # Len(replays)
        <4>1. PICK b0 \in 1..Len(replays) : replays'[b] = replays[b0] /\ a0 < b0
          BY <1>2, <2>1, <2>5, <3>1, <3>5
        <4> QED BY <3>1, <3>3, <4>1 DEF ReplayInv, ReplayOrder
      <3> QED BY <3>4, <3>5
    <2>6. ASSUME NEW p \in passed', \A n \in 1..Len(replays') : replays'[n][1] # p[1]
          PROVE  /\ Len(replays') = ReplaySize
                 /\ \A n \in 1..Len(replays') : replays'[n][1] \in since'[p[1]]
      <3>1. replays'[Len(replays)][1] = i
        BY <1>2, <2>1
      <3>2. p[1] # i /\ p \in passed /\ p[1] \in Indexes
        BY <1>1, <1>2, <1>5, <2>1, <2>6, <3>1
      <3>3. ASSUME NEW n \in 1..Len(replays) PROVE replays[n][1] # p[1]
        <4>1. CASE n = k
          BY <2>1, <3>2, <4>1
        <4>2. CASE n < k
          BY <1>2, <2>1, <2>6, <4>2
        <4>3. CASE n > k
          <5>1. n - 1 \in 1..Len(replays) /\ ~(n - 1 < k) /\ n - 1 < Len(replays) /\ (n - 1) + 1 = n
            BY <1>2, <4>3
          <5>2. replays'[n - 1] = replays[n]
            BY <2>1, <5>1
          <5> QED BY <2>1, <2>6, <5>1, <5>2
        <4> QED BY <1>2, <4>1, <4>2, <4>3
      <3>4. since'[p[1]] = since[p[1]] \cup {i}
        BY <3>2, SinceKept DEF ReplayInv
      <3>5. Len(replays) = ReplaySize /\ \A n \in 1..Len(replays) : replays[n][1] \in since[p[1]]
        BY <3>2, <3>3 DEF ReplayInv, ReplayOrder
      <3> QED BY <1>2, <2>1, <3>4, <3>5
    <2> QED BY <2>3, <2>4, <2>5, <2>6 DEF ReplayInv, ReplayOrder
  <1>7. CASE Places(i) = {}
    <2>1. PICK drop \in {0, 1} :
            /\ drop = 1 <=> Len(replays) = ReplaySize
            /\ replays' \in Seq(Entries)
            /\ Len(replays') = Len(replays) + 1 - drop
            /\ \A n \in 1..(Len(replays) - drop) : replays'[n] = replays[n + drop]
            /\ replays'[Len(replays) + 1 - drop] = <<i, e>>
      BY <1>1, <1>7, AddShape DEF ReplayInv
    <2>2. \A n \in 1..Len(replays) : replays[n][1] # i
      BY <1>2, <1>7 DEF Places
    <2>3. Len(replays) <= ReplaySize /\ ReplaySize \in Nat \ {0}
      BY MegolmAssumption DEF ReplayInv, ReplayTypeOK
    <2>4. \A n \in 1..Len(replays') :
            \/ n = Len(replays') /\ replays'[n] = <<i, e>>
            \/ n < Len(replays') /\ n + drop \in 1..Len(replays) /\ replays'[n] = replays[n + drop]
      BY <1>2, <2>1, SMTT(30)
    <2>5. ASSUME NEW a \in 1..Len(replays'), NEW b \in 1..Len(replays'),
                 replays'[a][1] = replays'[b][1]
          PROVE  a = b
      <3>1. <<i, e>>[1] = i
        OBVIOUS
      <3>2. CASE a = Len(replays')
        BY <2>2, <2>4, <2>5, <3>1, <3>2
      <3>3. CASE b = Len(replays')
        BY <2>2, <2>4, <2>5, <3>1, <3>3
      <3>4. CASE a # Len(replays') /\ b # Len(replays')
        <4>1. a + drop \in 1..Len(replays) /\ replays'[a] = replays[a + drop]
          BY <2>4, <3>4
        <4>2. b + drop \in 1..Len(replays) /\ replays'[b] = replays[b + drop]
          BY <2>4, <3>4
        <4>3. a + drop = b + drop
          BY <2>5, <4>1, <4>2 DEF ReplayInv, ReplayTypeOK
        <4> QED BY <1>2, <2>1, <4>3
      <3> QED BY <3>2, <3>3, <3>4
    <2>6. Len(replays') <= ReplaySize
      BY <1>2, <2>1, <2>3
    <2>7. ReplayTypeOK'
      BY <1>3, <2>1, <2>5, <2>6, SinceKept DEF ReplayInv, ReplayTypeOK
    <2>8. <<i, e>> \in passed'
      BY <1>1, <1>7 DEF MessageIndexOk
    <2>9. \A n \in 1..Len(replays') : replays'[n] \in passed'
      BY <1>1, <2>4, <2>8 DEF ReplayInv, ReplayOrder
    <2>10. ASSUME NEW a \in 1..Len(replays'), NEW b \in 1..Len(replays'), a < b
           PROVE  replays'[b][1] \in since'[replays'[a][1]]
      <3>1. a + drop \in 1..Len(replays) /\ replays'[a] = replays[a + drop]
        BY <1>2, <2>1, <2>4, <2>10
      <3>2. since'[replays'[a][1]] = since[replays'[a][1]] \cup {i}
        BY <1>2, <2>2, <3>1, SinceKept DEF ReplayInv
      <3>3. CASE b = Len(replays')
        BY <2>1, <3>2, <3>3
      <3>4. CASE b # Len(replays')
        <4>1. b + drop \in 1..Len(replays) /\ replays'[b] = replays[b + drop] /\ a + drop < b + drop
          BY <1>2, <2>1, <2>4, <2>10, <3>4
        <4> QED BY <3>1, <3>2, <4>1 DEF ReplayInv, ReplayOrder
      <3> QED BY <3>3, <3>4
    <2>11. ASSUME NEW p \in passed', \A n \in 1..Len(replays') : replays'[n][1] # p[1]
           PROVE  /\ Len(replays') = ReplaySize
                  /\ \A n \in 1..Len(replays') : replays'[n][1] \in since'[p[1]]
      <3>1. p[1] # i
        <4>1. Len(replays') \in 1..Len(replays') /\ Len(replays') = Len(replays) + 1 - drop
          BY <1>2, <2>1, <2>3
        <4>2. replays'[Len(replays')] = <<i, e>>
          BY <2>1, <4>1
        <4> QED BY <2>11, <4>1, <4>2
      <3>2. p \in passed /\ p[1] \in Indexes /\ since'[p[1]] = since[p[1]] \cup {i}
        BY <1>1, <1>5, <3>1, SinceKept DEF ReplayInv
      <3>3. CASE \A n \in 1..Len(replays) : replays[n][1] # p[1]
        <4>1. Len(replays) = ReplaySize /\ \A n \in 1..Len(replays) : replays[n][1] \in since[p[1]]
          BY <3>2, <3>3 DEF ReplayInv, ReplayOrder
        <4> QED BY <1>2, <2>1, <2>4, <3>2, <4>1
      <3>4. CASE \E n \in 1..Len(replays) : replays[n][1] = p[1]
        <4>1. PICK n \in 1..Len(replays) : replays[n][1] = p[1]
          BY <3>4
        <4>2. n = 1 /\ drop = 1
          <5>1. ~(n - drop \in 1..(Len(replays) - drop))
            <6> SUFFICES ASSUME n - drop \in 1..(Len(replays) - drop) PROVE FALSE
              OBVIOUS
            <6>1. n - drop \in 1..Len(replays') /\ (n - drop) + drop = n
              BY <1>2, <2>1
            <6>2. replays'[n - drop] = replays[n]
              BY <2>1, <6>1
            <6> QED BY <2>11, <4>1, <6>1, <6>2
          <5> QED BY <1>2, <2>1, <4>1, <5>1
        <4>3. \A m \in 1..Len(replays) : 1 < m => replays[m][1] \in since[p[1]]
          BY <1>2, <4>1, <4>2 DEF ReplayInv, ReplayOrder
        <4> QED BY <1>2, <2>1, <2>3, <2>4, <3>2, <4>2, <4>3
      <3> QED BY <3>3, <3>4
    <2> QED BY <2>7, <2>9, <2>10, <2>11 DEF ReplayInv, ReplayOrder
  <1> QED BY <1>6, <1>7

LEMMA ReplayStep == ReplayInv /\ [MegolmNext]_megolmVars => ReplayInv'
  <1> SUFFICES ASSUME ReplayInv, [MegolmNext]_megolmVars PROVE ReplayInv'
    OBVIOUS
  <1>1. CASE \E i \in Indexes, e \in Events : DecryptMegolmEvent(i, e)
    BY <1>1, DecryptKeepsReplays
  <1>2. CASE UNCHANGED <<replays, passed, since>>
    BY <1>2 DEF ReplayInv, ReplayTypeOK, ReplayOrder
  <1> QED
    BY <1>1, <1>2 DEF MegolmNext, DeviceQueried, DeviceTrusted, KeyArrives, megolmVars

LEMMA ReplayInitial == MegolmInit => ReplayInv
  BY FS_EmptySet, MegolmAssumption DEF MegolmInit, ReplayInv, ReplayTypeOK, ReplayOrder

(* An index whose entry was evicted has a full store of others after it. *)
LEMMA EvictedByOthers ==
    ASSUME ReplayInv, NEW y \in passed, \A k \in 1..Len(replays) : replays[k][1] # y[1]
    PROVE  Cardinality(since[y[1]]) >= ReplaySize
  <1>1. /\ Len(replays) = ReplaySize /\ ReplaySize \in Nat /\ y[1] \in Indexes
        /\ \A k \in 1..ReplaySize : replays[k][1] \in since[y[1]]
    BY MegolmAssumption DEF ReplayInv, ReplayTypeOK, ReplayOrder, Entries
  <1> DEFINE index == [k \in 1..ReplaySize |-> replays[k][1]]
  <1>2. index \in [1..ReplaySize -> since[y[1]]]
    BY <1>1
  <1>3. \A a, b \in 1..ReplaySize : index[a] = index[b] => a = b
    BY <1>1 DEF ReplayInv, ReplayTypeOK
  <1>4. index \in Injection(1..ReplaySize, since[y[1]])
    BY <1>2, <1>3 DEF Injection, IsInjective
  <1>5. IsFiniteSet(since[y[1]])
    BY <1>1 DEF ReplayInv, ReplayTypeOK
  <1>6. Cardinality(1..ReplaySize) = ReplaySize
    BY <1>1, FS_Interval
  <1>7. Cardinality(1..ReplaySize) <= Cardinality(since[y[1]])
    BY <1>4, <1>5, FS_Injection
  <1>8. Cardinality(since[y[1]]) \in Nat
    BY <1>5, FS_CardinalityType
  <1> QED BY <1>1, <1>6, <1>7, <1>8

(* A replayed index passes only when ReplaySize others were looked up      *)
(* since: every use refreshes the entry it finds (message_index_ok).       *)
THEOREM NoReplays == MegolmSpec => NoReplay
  <1>1. ASSUME ReplayInv, [MegolmNext]_megolmVars, NEW x \in passed' \ passed, NEW y \in passed,
               x[1] = y[1]
        PROVE  Cardinality(since[x[1]]) >= ReplaySize
    <2>1. PICK i \in Indexes, e \in Events : DecryptMegolmEvent(i, e)
      BY <1>1 DEF MegolmNext, DeviceQueried, DeviceTrusted, KeyArrives, megolmVars
    <2>2. x = <<i, e>> /\ MessageIndexOk(i, e)
      BY <1>1, <2>1 DEF DecryptMegolmEvent
    <2>3. ASSUME NEW k \in 1..Len(replays), replays[k][1] = y[1] PROVE FALSE
      <3>1. DOMAIN replays = 1..Len(replays) /\ replays[k] \in Entries
        BY <1>1 DEF ReplayInv, ReplayTypeOK
      <3>2. replays[k][1] = i /\ replays[k][2] = e
        BY <1>1, <2>2, <2>3, <3>1 DEF MessageIndexOk, Places
      <3>3. replays[k] = <<i, e>>
        BY <3>1, <3>2 DEF Entries
      <3> QED BY <1>1, <2>2, <3>3 DEF ReplayInv, ReplayOrder
    <2> QED BY <1>1, <2>3, EvictedByOthers
  <1>2. ReplayInv /\ [MegolmNext]_megolmVars
        => [\A x \in passed' \ passed, y \in passed :
                x[1] = y[1] => Cardinality(since[x[1]]) >= ReplaySize]_megolmVars
    BY <1>1
  <1> QED BY <1>2, ReplayInitial, ReplayStep, PTL DEF MegolmSpec, NoReplay

(* The device's stored identity, its trust and the marks.  A user is due   *)
(* for a key query only while no identity is stored.                       *)
MarkInv ==
    /\ identity \in Identities \cup {None} /\ trust \in BOOLEAN /\ chain \in BOOLEAN
    /\ toQuery => identity = None
    /\ \A m \in marked : m.key = Signer /\ ~m.chain

LEMMA MarkStep == MarkInv /\ [MegolmNext]_megolmVars => MarkInv'
  <1> SUFFICES ASSUME MarkInv, [MegolmNext]_megolmVars PROVE MarkInv'
    OBVIOUS
  <1>1. ASSUME NEW i \in Indexes, NEW e \in Events, DecryptMegolmEvent(i, e) PROVE MarkInv'
    <2>1. identity' = identity /\ (trust' <=> trust) /\ (chain' <=> chain)
          /\ trust' \in BOOLEAN /\ chain' \in BOOLEAN
      BY <1>1, Zenon DEF DecryptMegolmEvent, MarkInv
    <2>2. toQuery' => identity' = None
      BY <1>1, <2>1, Zenon DEF DecryptMegolmEvent, MarkInv
    <2>3. ASSUME NEW m \in marked' PROVE m.key = Signer /\ ~m.chain
      <3>1. CASE m \in marked
        BY <3>1, Zenon DEF MarkInv
      <3>2. CASE m \notin marked
        <4>1. identity = Signer /\ ~chain /\ m = [key |-> identity, chain |-> chain]
          BY <1>1, <2>3, <3>2, Zenon DEF DecryptMegolmEvent, KeysMatch
        <4>2. m.key = identity /\ m.chain = chain
          BY <4>1
        <4> QED BY <4>1, <4>2, Zenon
      <3> QED BY <3>1, <3>2
    <2> QED BY <2>1, <2>2, <2>3, Zenon DEF MarkInv
  <1>2. ASSUME NEW k \in Identities, DeviceQueried(k) PROVE MarkInv'
    BY <1>2, Zenon DEF DeviceQueried, MarkInv
  <1>3. CASE DeviceTrusted
    BY <1>3, Zenon DEF DeviceTrusted, MarkInv
  <1>4. CASE KeyArrives
    BY <1>4, Zenon DEF KeyArrives, MarkInv
  <1>5. CASE UNCHANGED megolmVars
    BY <1>5, Zenon DEF megolmVars, MarkInv
  <1> QED BY <1>1, <1>2, <1>3, <1>4, <1>5 DEF MegolmNext

(* The verified mark is given under the identity that announced the        *)
(* session alone, with a key that was not forwarded, however identities    *)
(* rotate (decrypt_megolm_event); the replay store keeps its form.         *)
THEOREM MarkedRightly == MegolmSpec => []MarkedBySigner
  <1>1. MegolmInit => MarkInv
    BY Zenon DEF MegolmInit, MarkInv
  <1>2. ReplayInv /\ MarkInv => MarkedBySigner
    <2> SUFFICES ASSUME ReplayInv, MarkInv PROVE MarkedBySigner
      OBVIOUS
    <2>1. Len(replays) <= ReplaySize
          /\ \A a, b \in DOMAIN replays : replays[a][1] = replays[b][1] => a = b
      <3>1. DOMAIN replays = 1..Len(replays)
        BY DEF ReplayInv, ReplayTypeOK
      <3> QED BY <3>1 DEF ReplayInv, ReplayTypeOK
    <2> QED BY <2>1, Zenon DEF MarkInv, MarkedBySigner, MegolmTypeOK
  <1> QED BY <1>1, <1>2, ReplayInitial, ReplayStep, MarkStep, PTL DEF MegolmSpec

-----------------------------------------------------------------------------
(* Room-key requests *)

(* A queued request for a key names a session, a dummy message a device.   *)
QueueOK(q) ==
    \A m \in q : /\ m.kind = "ask" => m.session \in Megolm
                 /\ m.kind = "dummy" => m.device \in Devices

(* A request that is noted anywhere was not taken back; only an own device *)
(* waits for the user.                                                     *)
NotedAsked ==
    /\ untrusted \subseteq Own
    /\ \A d \in Devices : received[d] = "request" \/ d \in untrusted \cup waiting => d \notin withdrawn

MachineInv ==
    /\ MachineTypeOK /\ ForwardsAllowed /\ HeldBackReleased
    /\ rerequests \in [Devices -> SUBSET Megolm] /\ QueueOK(queue) /\ NotedAsked

LEMMA MachineMessages ==
    ASSUME NEW k, NEW d, NEW s
    PROVE  /\ MachineMessage(k, d, s).kind = k /\ MachineMessage(k, d, s).device = d
           /\ MachineMessage(k, d, s).session = s
  BY DEF MachineMessage

(* What is left alone stays right. *)
LEMMA QueueGrows ==
    ASSUME MachineInv, NEW S, queue' = queue \cup S, QueueOK(S), UNCHANGED rerequests, wedged \subseteq wedged'
    PROVE  HeldBackReleased' /\ QueueOK(queue)'
  BY DEF MachineInv, HeldBackReleased, QueueOK

LEMMA Shares ==
    ASSUME MachineInv, NEW asking \in SUBSET Own, Share(asking),
           \A d \in asking : d \notin withdrawn
    PROVE  /\ waiting' = noSession' /\ waiting' \subseteq waiting \cup asking
           /\ ForwardsAllowed'
           /\ \E S : queue' = queue \cup S /\ QueueOK(S)
<1>1. waiting' = noSession' /\ waiting' \subseteq waiting \cup asking
  BY DEF Share, MachineInv, MachineTypeOK, Claimable
<1>2. ForwardsAllowed'
  <2> SUFFICES ASSUME NEW f \in forwards' PROVE f.trusted /\ f.asked
    BY DEF ForwardsAllowed
  <2>1. CASE f \in forwards
    BY <2>1 DEF MachineInv, ForwardsAllowed
  <2>2. CASE f \notin forwards
    <3>1. PICK d \in Shareable(asking) : f = [trusted |-> d \in verified, asked |-> d \notin withdrawn]
      BY <2>2 DEF Share
    <3>2. d \in verified /\ d \notin withdrawn
      BY <3>1 DEF Shareable, Refused
    <3>3. f.trusted = (d \in verified) /\ f.asked = (d \notin withdrawn)
      BY <3>1
    <3> QED BY <3>2, <3>3
  <2> QED BY <2>1, <2>2
<1>3. QueueOK({MachineMessage("forward", d, None) : d \in Shareable(asking)})
  BY MachineMessages DEF QueueOK
<1> QED BY <1>1, <1>2, <1>3 DEF Share

LEMMA KeepHandleKeyRequest ==
    ASSUME MachineInv, NEW d \in Devices, HandleKeyRequest(d)
    PROVE  MachineInv'
<1>1. /\ received' = [received EXCEPT ![d] = "request"] /\ withdrawn' = withdrawn \ {d}
      /\ UNCHANGED <<waiting, noSession, untrusted, forwards, wedged, age, rerequests, outgoing,
                     inbound, verified, queue>>
  BY DEF HandleKeyRequest, sessionState, keyState
<1>2. MachineTypeOK'
  BY <1>1 DEF MachineInv, MachineTypeOK
<1>3. ForwardsAllowed' /\ HeldBackReleased' /\ rerequests' \in [Devices -> SUBSET Megolm]
  BY <1>1 DEF MachineInv, ForwardsAllowed, HeldBackReleased
<1>4. QueueOK(queue)'
  BY <1>1 DEF MachineInv, QueueOK
<1>5. NotedAsked'
  BY <1>1 DEF MachineInv, NotedAsked, MachineTypeOK
<1> QED BY <1>2, <1>3, <1>4, <1>5 DEF MachineInv

LEMMA KeepHandleCancellation ==
    ASSUME MachineInv, NEW d \in Devices, HandleCancellation(d)
    PROVE  MachineInv'
<1>1. /\ received' = [received EXCEPT ![d] = IF d \in untrusted THEN "cancel"
                                             ELSE IF @ = "request" THEN "none" ELSE @]
      /\ waiting' = waiting \ {d} /\ noSession' = noSession \ {d}
      /\ untrusted' = untrusted \ {d} /\ withdrawn' = withdrawn \cup {d}
      /\ UNCHANGED <<forwards, wedged, age, rerequests, outgoing, inbound, verified, queue>>
  BY DEF HandleCancellation, StillWaiting, sessionState, keyState
<1>2. received[d] \in {"none", "request", "cancel"}
  BY DEF MachineInv, MachineTypeOK
<1>3. MachineTypeOK'
  BY <1>1, <1>2 DEF MachineInv, MachineTypeOK
<1>4. ForwardsAllowed' /\ HeldBackReleased' /\ rerequests' \in [Devices -> SUBSET Megolm]
  BY <1>1 DEF MachineInv, ForwardsAllowed, HeldBackReleased
<1>5. QueueOK(queue)'
  BY <1>1 DEF MachineInv, QueueOK
<1>6. NotedAsked'
  <2> SUFFICES ASSUME NEW e \in Devices, (received[e] = "request")' \/ (e \in untrusted \cup waiting)'
               PROVE  e \notin withdrawn'
    BY <1>1 DEF MachineInv, NotedAsked
  <2>1. e # d
    BY <1>1, <1>2 DEF MachineInv, MachineTypeOK
  <2>2. received'[e] = received[e]
    BY <1>1, <2>1 DEF MachineInv, MachineTypeOK
  <2> QED BY <1>1, <2>1, <2>2 DEF MachineInv, NotedAsked
<1> QED BY <1>3, <1>4, <1>5, <1>6 DEF MachineInv

LEMMA KeepCollectKeyRequests ==
    ASSUME MachineInv, CollectKeyRequests
    PROVE  MachineInv'
<1>1. /\ received' = [d \in Devices |-> "none"]
      /\ untrusted' = untrusted \cup {d \in Asking : Refused(d)} /\ Share(Asking)
      /\ UNCHANGED <<withdrawn, wedged, age, rerequests, outgoing, inbound, verified>>
  BY DEF CollectKeyRequests, sessionState, keyState
<1>2. Asking \in SUBSET Own /\ Asking \subseteq Devices /\ \A d \in Asking : d \notin withdrawn
  BY OlmMachineAssumption DEF Asking, MachineInv, NotedAsked
<1>3. /\ waiting' = noSession' /\ waiting' \subseteq waiting \cup Asking
      /\ ForwardsAllowed'
      /\ \E S : queue' = queue \cup S /\ QueueOK(S)
  BY <1>1, <1>2, Shares
<1>4. MachineTypeOK'
  BY <1>1, <1>2, <1>3 DEF MachineInv, MachineTypeOK
<1>5. HeldBackReleased' /\ QueueOK(queue)'
  BY <1>1, <1>3, QueueGrows
<1>6. NotedAsked'
  <2>1. \A d \in Devices : received'[d] = "none"
    BY <1>1
  <2> QED BY <1>1, <1>2, <1>3, <2>1 DEF MachineInv, NotedAsked
<1> QED BY <1>1, <1>3, <1>4, <1>5, <1>6 DEF MachineInv

LEMMA KeepContinueKeyShare ==
    ASSUME MachineInv, NEW d \in Devices, ContinueKeyShare(d)
    PROVE  MachineInv'
<1>1. CASE HasKey /\ Refused(d)
  <2>1. UNCHANGED <<received, waiting, noSession, untrusted, forwards, withdrawn, queue, wedged, age,
                    rerequests, outgoing, inbound, verified>>
    BY <1>1 DEF ContinueKeyShare, requestState, sessionState, keyState
  <2> QED BY <2>1 DEF MachineInv, MachineTypeOK, ForwardsAllowed, HeldBackReleased, QueueOK, NotedAsked
<1>2. CASE ~(HasKey /\ Refused(d))
  <2>1. PICK asking : asking = IF HasKey THEN {d} ELSE {}
    OBVIOUS
  <2>2. /\ d \in untrusted /\ untrusted' = untrusted \ {d} /\ Share(asking)
        /\ UNCHANGED <<received, withdrawn, wedged, age, rerequests, outgoing, inbound, verified>>
    BY <1>2, <2>1 DEF ContinueKeyShare, sessionState, keyState
  <2>3. asking \in SUBSET Own /\ asking \subseteq Devices /\ \A e \in asking : e \notin withdrawn
    BY <2>1, <2>2 DEF MachineInv, NotedAsked
  <2>4. /\ waiting' = noSession' /\ waiting' \subseteq waiting \cup asking
        /\ ForwardsAllowed'
        /\ \E S : queue' = queue \cup S /\ QueueOK(S)
    BY <2>2, <2>3, Shares
  <2>5. MachineTypeOK'
    BY <2>2, <2>3, <2>4 DEF MachineInv, MachineTypeOK
  <2>6. HeldBackReleased' /\ QueueOK(queue)'
    BY <2>2, <2>4, QueueGrows
  <2>7. NotedAsked'
    BY <2>2, <2>3, <2>4 DEF MachineInv, NotedAsked
  <2> QED BY <2>2, <2>4, <2>5, <2>6, <2>7 DEF MachineInv
<1> QED BY <1>1, <1>2

LEMMA KeepHandleKeyClaiming ==
    ASSUME MachineInv, NEW d \in Devices, HandleKeyClaiming(d)
    PROVE  MachineInv'
<1>1. /\ age' = [age EXCEPT ![d] = "recent"] /\ wedged' = wedged \ {d}
      /\ queue' = IF d \in wedged THEN queue \cup {MachineMessage("dummy", d, None)} ELSE queue
      /\ noSession' = noSession \ {d} /\ waiting' = waiting \ {d}
      /\ received' = IF d \in noSession /\ d \in waiting
                     THEN [received EXCEPT ![d] = "request"] ELSE received
      /\ UNCHANGED <<untrusted, forwards, withdrawn, rerequests, outgoing, inbound, verified>>
  BY DEF HandleKeyClaiming, keyState
<1>2. MachineTypeOK'
  BY <1>1 DEF MachineInv, MachineTypeOK
<1>3. ForwardsAllowed' /\ rerequests' \in [Devices -> SUBSET Megolm]
  BY <1>1 DEF MachineInv, ForwardsAllowed
<1>4. HeldBackReleased'
  BY <1>1 DEF MachineInv, HeldBackReleased
<1>5. QueueOK(queue)'
  BY <1>1, MachineMessages DEF MachineInv, QueueOK
<1>6. NotedAsked'
  <2>1. received \in [Devices -> {"none", "request", "cancel"}]
    BY DEF MachineInv, MachineTypeOK
  <2> QED BY <1>1, <2>1 DEF MachineInv, NotedAsked
<1> QED BY <1>2, <1>3, <1>4, <1>5, <1>6 DEF MachineInv

(* Steps that leave the requests of other devices alone. *)
LEMMA RequestsStay ==
    ASSUME MachineInv, UNCHANGED <<received, waiting, untrusted, forwards, withdrawn>>
    PROVE  ForwardsAllowed' /\ NotedAsked'
  BY DEF MachineInv, ForwardsAllowed, NotedAsked

LEMMA KeepOthers ==
    ASSUME MachineInv, NEW d \in Devices,
           CancelKeyShare(d) \/ ChangeTrust(d) \/ DecryptOlm(d) \/ DecryptOlmFails(d)
    PROVE  MachineInv'
<1>1. /\ UNCHANGED <<received, waiting, noSession, forwards, withdrawn, rerequests, outgoing, inbound,
                     queue>>
      /\ wedged \subseteq wedged' /\ wedged' \subseteq wedged \cup {d}
      /\ untrusted' \subseteq untrusted
      /\ verified' \subseteq verified \cup {d}
      /\ age' \in {age, [age EXCEPT ![d] = "recent"]}
  BY DEF CancelKeyShare, ChangeTrust, DecryptOlm, DecryptOlmFails, requestState, sessionState, keyState
<1>2. MachineTypeOK'
  BY <1>1 DEF MachineInv, MachineTypeOK
<1>3. ForwardsAllowed' /\ HeldBackReleased' /\ rerequests' \in [Devices -> SUBSET Megolm]
  BY <1>1 DEF MachineInv, ForwardsAllowed, HeldBackReleased
<1>4. QueueOK(queue)' /\ NotedAsked'
  BY <1>1 DEF MachineInv, QueueOK, NotedAsked
<1> QED BY <1>2, <1>3, <1>4 DEF MachineInv

LEMMA KeepHourPasses ==
    ASSUME MachineInv, HourPasses
    PROVE  MachineInv'
<1>1. /\ age' = [d \in Devices |-> IF age[d] = "recent" THEN "old" ELSE age[d]]
      /\ UNCHANGED <<received, waiting, noSession, untrusted, forwards, withdrawn, wedged, rerequests,
                     outgoing, inbound, verified, queue>>
  BY DEF HourPasses, requestState, keyState
<1>2. age' \in [Devices -> {"none", "old", "recent"}]
  BY <1>1 DEF MachineInv, MachineTypeOK
<1>3. MachineTypeOK'
  BY <1>1, <1>2 DEF MachineInv, MachineTypeOK
<1> QED BY <1>1, <1>3 DEF MachineInv, ForwardsAllowed, HeldBackReleased, QueueOK, NotedAsked

LEMMA KeepCheckIfWedged ==
    ASSUME MachineInv, NEW d \in Devices, NEW s \in Megolm, CheckIfWedged(d, s)
    PROVE  MachineInv'
<1>1. /\ queue' = IF age[d] = "recent" /\ s \notin outgoing
                  THEN queue \cup {MachineMessage("ask", d, s)} ELSE queue
      /\ rerequests' = IF d \in wedged THEN [rerequests EXCEPT ![d] = @ \cup {s}] ELSE rerequests
      /\ UNCHANGED <<received, waiting, noSession, untrusted, forwards, withdrawn, wedged, age,
                     outgoing, inbound, verified>>
  BY DEF CheckIfWedged, requestState, keyState
<1>2. MachineTypeOK'
  BY <1>1 DEF MachineInv, MachineTypeOK
<1>3. rerequests' \in [Devices -> SUBSET Megolm]
  BY <1>1 DEF MachineInv
<1>4. QueueOK(queue)'
  BY <1>1, MachineMessages DEF MachineInv, QueueOK
<1>5. HeldBackReleased'
  <2>1. queue \subseteq queue'
    BY <1>1
  <2>2. \A e \in Devices : e # d => rerequests'[e] = rerequests[e]
    BY <1>1 DEF MachineInv
  <2>3. d \notin wedged => rerequests'[d] = rerequests[d]
    BY <1>1
  <2> QED BY <1>1, <2>1, <2>2, <2>3 DEF MachineInv, HeldBackReleased
<1> QED BY <1>1, <1>2, <1>3, <1>4, <1>5, RequestsStay DEF MachineInv

LEMMA KeepHandleRoomKeys ==
    ASSUME MachineInv, NEW s \in Megolm,
           HandleRoomKey(s) \/ \E d \in Devices : HandleForwardedKey(d, s)
    PROVE  MachineInv'
<1>1. /\ UNCHANGED <<received, waiting, noSession, untrusted, forwards, withdrawn, wedged, age,
                     rerequests, verified>>
      /\ outgoing' \subseteq outgoing
      /\ inbound' \in {[inbound EXCEPT ![s] = "shared"], [inbound EXCEPT ![s] = "forwarded"]}
      /\ queue' \in {queue, queue \cup {MachineMessage("unask", None, s)}}
  BY DEF HandleRoomKey, HandleForwardedKey, requestState, sessionState
<1>2. MachineTypeOK'
  BY <1>1 DEF MachineInv, MachineTypeOK
<1>3. QueueOK(queue)'
  BY <1>1, MachineMessages DEF MachineInv, QueueOK
<1>4. HeldBackReleased' /\ rerequests' \in [Devices -> SUBSET Megolm]
  BY <1>1 DEF MachineInv, HeldBackReleased
<1> QED BY <1>1, <1>2, <1>3, <1>4, RequestsStay DEF MachineInv

LEMMA KeepMarkAsSent ==
    ASSUME MachineInv, NEW m \in queue, MarkAsSent(m)
    PROVE  MachineInv'
<1>1. /\ queue' = (queue \ {m}) \cup Released(m)
      /\ rerequests' = IF m.kind = "dummy" THEN [rerequests EXCEPT ![m.device] = {}] ELSE rerequests
      /\ outgoing' = IF m.kind = "ask" THEN outgoing \cup {m.session} ELSE outgoing
      /\ UNCHANGED <<received, waiting, noSession, untrusted, forwards, withdrawn, wedged, age,
                     inbound, verified>>
  BY DEF MarkAsSent, requestState
<1>2. /\ m.kind = "ask" => m.session \in Megolm
      /\ m.kind = "dummy" => m.device \in Devices
  BY DEF MachineInv, QueueOK
<1>3. MachineTypeOK'
  BY <1>1, <1>2 DEF MachineInv, MachineTypeOK
<1>4. rerequests' \in [Devices -> SUBSET Megolm]
  BY <1>1 DEF MachineInv
<1>5. QueueOK(Released(m))
  <2>1. CASE m.kind = "dummy"
    <3>1. rerequests[m.device] \subseteq Megolm
      BY <1>2, <2>1 DEF MachineInv
    <3> QED BY <2>1, <3>1, MachineMessages DEF QueueOK, Released
  <2>2. CASE m.kind # "dummy"
    BY <2>2 DEF QueueOK, Released
  <2> QED BY <2>1, <2>2
<1>6. QueueOK(queue)'
  BY <1>1, <1>5 DEF MachineInv, QueueOK
<1>7. HeldBackReleased'
  <2> SUFFICES ASSUME NEW d \in Devices, rerequests'[d] # {}
               PROVE  d \in wedged' \/ MachineMessage("dummy", d, None) \in queue'
    BY DEF HeldBackReleased
  <2>1. rerequests'[d] = rerequests[d] /\ (m.kind = "dummy" => d # m.device)
    BY <1>1 DEF MachineInv
  <2>2. m # MachineMessage("dummy", d, None)
    BY <2>1, MachineMessages
  <2> QED BY <1>1, <2>1, <2>2 DEF MachineInv, HeldBackReleased
<1> QED BY <1>1, <1>3, <1>4, <1>6, <1>7, RequestsStay DEF MachineInv

(* A room key is forwarded to own, verified devices that still ask for it, *)
(* and a request held back for a wedged device is released, whatever       *)
(* arrives, is confirmed or fails in between.                              *)
THEOREM KeyRequestsHandledRight == MachineSpec => []KeyRequestsHandled
<1>1. MachineInit => MachineInv
  BY DEF MachineInit, MachineInv, MachineTypeOK, ForwardsAllowed, HeldBackReleased, QueueOK, NotedAsked
<1>2. MachineInv /\ [MachineNext]_machineVars => MachineInv'
  <2> SUFFICES ASSUME MachineInv, [MachineNext]_machineVars PROVE MachineInv'
    OBVIOUS
  <2>1. CASE UNCHANGED machineVars
    BY <2>1 DEF machineVars, MachineInv, MachineTypeOK, ForwardsAllowed, HeldBackReleased, QueueOK,
        NotedAsked
  <2> QED
    BY <2>1, KeepHandleKeyRequest, KeepHandleCancellation, KeepCollectKeyRequests,
       KeepContinueKeyShare, KeepHandleKeyClaiming, KeepOthers, KeepHourPasses, KeepCheckIfWedged,
       KeepHandleRoomKeys, KeepMarkAsSent DEF MachineNext
<1>3. MachineInv => KeyRequestsHandled
  BY DEF MachineInv, KeyRequestsHandled
<1> QED BY <1>1, <1>2, <1>3, PTL DEF MachineSpec

-----------------------------------------------------------------------------
(* One request and its retries *)

(* The tables *)

(* Classes that do not look at an error, cannot be built from one or take  *)
(* it for something else.                                                  *)
Irregular ==
    {"KeysQueryResponse", "ContentRepositoryConfigResponse", "RoomGetStateEventResponse",
     "RoomDeleteAliasResponse", "RoomPutAliasResponse", "ShareGroupSessionResponse",
     "DeleteDevicesResponse", "KeysClaimResponse", "ThumbnailResponse",
     "ToDeviceResponse"}

RegularClass(c) ==
    /\ c.accepts \cap Errors = {} /\ c.raises \cap Errors = {}
    /\ c.logsOut \cap Errors = {"soft"} /\ c.waits

RegularClasses(f) == \A name \in DOMAIN f \ Irregular : RegularClass(f[name])

RegularOps(f) ==
    \A op \in DOMAIN f \ Unreported :
        /\ f[op].class \in DOMAIN Classes \ Irregular
        /\ f[op].ends \in {"returned", "checked", "raised"}

LEMMA MergedTable ==
    ASSUME NEW tables
    PROVE  /\ DOMAIN Merged(tables) = UNION {DOMAIN table : table \in tables}
           /\ \A name \in DOMAIN Merged(tables) : \E table \in tables :
                name \in DOMAIN table /\ Merged(tables)[name] = table[name]
<1>1. ASSUME NEW name \in UNION {DOMAIN table : table \in tables}
      PROVE  \E table \in tables : name \in DOMAIN table /\ Merged(tables)[name] = table[name]
  <2>1. \E table \in tables : name \in DOMAIN table
    OBVIOUS
  <2>2. PICK t : t = CHOOSE table \in tables : name \in DOMAIN table
    OBVIOUS
  <2>3. t \in tables /\ name \in DOMAIN t
    BY <2>1, <2>2
  <2>4. Merged(tables)[name] = t[name]
    BY <2>2 DEF Merged
  <2> QED BY <2>3, <2>4
<1>2. DOMAIN Merged(tables) = UNION {DOMAIN table : table \in tables}
  BY DEF Merged
<1> QED BY <1>1, <1>2

LEMMA MergedRegular ==
    ASSUME NEW tables
    PROVE  /\ (\A table \in tables : RegularClasses(table)) => RegularClasses(Merged(tables))
           /\ (\A table \in tables : RegularOps(table)) => RegularOps(Merged(tables))
<1> DEFINE H == Merged(tables)
<1>1. \A name \in DOMAIN H : \E table \in tables : name \in DOMAIN table /\ H[name] = table[name]
  BY MergedTable
<1> HIDE DEF H
<1>2. (\A table \in tables : RegularClasses(table)) => RegularClasses(H)
  BY <1>1 DEF RegularClasses
<1>3. (\A table \in tables : RegularOps(table)) => RegularOps(H)
  BY <1>1 DEF RegularOps
<1> QED BY <1>2, <1>3 DEF H

LEMMA ClassMakers ==
    /\ \A accepts : /\ Class(accepts).accepts = accepts /\ Class(accepts).raises = {}
                    /\ Class(accepts).logsOut = {"soft"} /\ Class(accepts).waits = TRUE
    /\ RegularClass(Strict) /\ RegularClass(Empty)
<1>1. \A accepts : /\ Class(accepts).accepts = accepts /\ Class(accepts).raises = {}
                  /\ Class(accepts).logsOut = {"soft"} /\ Class(accepts).waits = TRUE
  BY DEF Class
<1> QED BY <1>1 DEF Strict, Empty, RegularClass, Errors

LEMMA ClassesRegular == RegularClasses(Classes)
<1>1. RegularClasses(RegisterResponses)
  BY ClassMakers DEF RegisterResponses, RegularClasses, RegularClass, Irregular, Errors, Bodies
<1>2. RegularClasses(LoginResponses)
  BY ClassMakers DEF LoginResponses, RegularClasses, RegularClass, Irregular, Errors, Bodies
<1>3. RegularClasses(ListResponses)
  BY ClassMakers DEF ListResponses, RegularClasses, RegularClass, Irregular, Errors, Bodies
<1>4. RegularClasses(FileResponses)
  BY ClassMakers DEF FileResponses, RegularClasses, RegularClass, Irregular, Errors, Bodies
<1>5. RegularClasses(SendResponses)
  BY ClassMakers DEF SendResponses, RegularClasses, RegularClass, Irregular, Errors, Bodies
<1>6. RegularClasses(StateResponses)
  BY ClassMakers DEF StateResponses, RegularClasses, RegularClass, Irregular, Errors, Bodies
<1>7. RegularClasses(AliasResponses)
  BY ClassMakers DEF AliasResponses, RegularClasses, RegularClass, Irregular, Errors, Bodies
<1>8. RegularClasses(ModerationResponses)
  BY ClassMakers DEF ModerationResponses, RegularClasses, RegularClass, Irregular, Errors, Bodies
<1>9. RegularClasses(MarkerResponses)
  BY ClassMakers DEF MarkerResponses, RegularClasses, RegularClass, Irregular, Errors, Bodies
<1>10. RegularClasses(RoomResponses)
  BY ClassMakers DEF RoomResponses, RegularClasses, RegularClass, Irregular, Errors, Bodies
<1>11. RegularClasses(KeyResponses)
  BY ClassMakers DEF KeyResponses, RegularClasses, RegularClass, Irregular, Errors, Bodies
<1>12. RegularClasses(ProfileResponses)
  BY ClassMakers DEF ProfileResponses, RegularClasses, RegularClass, Irregular, Errors, Bodies
<1>13. RegularClasses(DeviceResponses)
  BY ClassMakers DEF DeviceResponses, RegularClasses, RegularClass, Irregular, Errors, Bodies
<1>14. RegularClasses(ContextResponses)
  BY ClassMakers DEF ContextResponses, RegularClasses, RegularClass, Irregular, Errors, Bodies
<1>15. RegularClasses(SyncResponses)
  BY ClassMakers DEF SyncResponses, RegularClasses, RegularClass, Irregular, Errors, Bodies
<1>16. RegularClasses(SlidingSyncResponses)
  BY ClassMakers DEF SlidingSyncResponses, RegularClasses, RegularClass, Irregular, Errors, Bodies
<1>17. RegularClasses(RuleResponses)
  BY ClassMakers DEF RuleResponses, RegularClasses, RegularClass, Irregular, Errors, Bodies
<1> DEFINE tables ==
                {RegisterResponses, LoginResponses, ListResponses, FileResponses, SendResponses,
                 StateResponses, AliasResponses, ModerationResponses, MarkerResponses,
                 RoomResponses, KeyResponses, ProfileResponses, DeviceResponses, ContextResponses,
                 SyncResponses, SlidingSyncResponses, RuleResponses}
<1>18. \A table \in tables : RegularClasses(table)
  BY <1>1, <1>2, <1>3, <1>4, <1>5, <1>6, <1>7, <1>8, <1>9, <1>10, <1>11, <1>12, <1>13,
     <1>14, <1>15, <1>16, <1>17
<1> HIDE DEF tables
<1>19. RegularClasses(Merged(tables))
  BY <1>18, MergedRegular
<1> QED BY <1>19 DEF Classes, tables

LEMMA ClassNames ==
    DOMAIN Classes =
        DOMAIN RegisterResponses \cup DOMAIN LoginResponses \cup DOMAIN ListResponses \cup
        DOMAIN FileResponses \cup DOMAIN SendResponses \cup DOMAIN StateResponses \cup
        DOMAIN AliasResponses \cup DOMAIN ModerationResponses \cup DOMAIN MarkerResponses \cup
        DOMAIN RoomResponses \cup DOMAIN KeyResponses \cup DOMAIN ProfileResponses \cup
        DOMAIN DeviceResponses \cup DOMAIN ContextResponses \cup DOMAIN SyncResponses \cup
        DOMAIN SlidingSyncResponses \cup DOMAIN RuleResponses
<1> DEFINE tables ==
                {RegisterResponses, LoginResponses, ListResponses, FileResponses, SendResponses,
                 StateResponses, AliasResponses, ModerationResponses, MarkerResponses,
                 RoomResponses, KeyResponses, ProfileResponses, DeviceResponses, ContextResponses,
                 SyncResponses, SlidingSyncResponses, RuleResponses}
<1>1. Classes = Merged(tables)
  BY DEF Classes
<1>2. DOMAIN Merged(tables) = UNION {DOMAIN table : table \in tables}
  BY MergedTable
<1> QED BY <1>1, <1>2, SMTT(30)

LEMMA OpMakers ==
    \A endpoint, class, needs, ends :
        /\ Op(endpoint, class, needs).class = class
        /\ Op(endpoint, class, needs).ends = "returned"
        /\ Ending(Op(endpoint, class, needs), ends).class = class
        /\ Ending(Op(endpoint, class, needs), ends).ends = ends
  BY DEF Op, Ending

LEMMA OpsRegular == RegularOps(Ops)
<1>1. RegularOps(RegisterOps)
  BY ClassNames, OpMakers DEF RegisterOps, Public, RegisterResponses, LoginResponses, RegularOps, Irregular, Unreported
<1>2. RegularOps(LoginOps)
  BY ClassNames, OpMakers DEF LoginOps, Member, Public, RegisterResponses, LoginResponses, RegularOps, Irregular, Unreported
<1>3. RegularOps(SyncOps)
  BY ClassNames, OpMakers DEF SyncOps, Member, SyncResponses, SlidingSyncResponses, RegularOps, Irregular, Unreported
<1>4. RegularOps(ToDeviceOps)
  BY ClassNames, OpMakers DEF ToDeviceOps, Member, RegularOps, Irregular, Unreported
<1>5. RegularOps(KeyOps)
  BY ClassNames, OpMakers DEF KeyOps, Member, Crypto, KeyResponses, RegularOps, Irregular, Unreported
<1>6. RegularOps(ListOps)
  BY ClassNames, OpMakers DEF ListOps, Member, ListResponses, AliasResponses, RegularOps, Irregular, Unreported
<1>7. RegularOps(RoomSendOps)
  BY ClassNames, OpMakers DEF RoomSendOps, Member, SendResponses, RegularOps, Irregular, Unreported
<1>8. RegularOps(EventOps)
  BY ClassNames, OpMakers DEF EventOps, Member, SendResponses, StateResponses, AliasResponses, RegularOps, Irregular, Unreported
<1>9. RegularOps(StateOps)
  BY ClassNames, OpMakers DEF StateOps, Member, StateResponses, AliasResponses, RegularOps, Irregular, Unreported
<1>10. RegularOps(AliasOps)
  BY ClassNames, OpMakers DEF AliasOps, Member, Public, StateResponses, AliasResponses, RegularOps, Irregular, Unreported
<1>11. RegularOps(ShareOps)
  BY ClassNames, OpMakers DEF ShareOps, Crypto, RegularOps, Irregular, Unreported
<1>12. RegularOps(RoomKeyOps)
  BY ClassNames, OpMakers DEF RoomKeyOps, Crypto, KeyResponses, RegularOps, Irregular, Unreported
<1>13. RegularOps(CreateOps)
  BY ClassNames, OpMakers DEF CreateOps, Member, RoomResponses, RegularOps, Irregular, Unreported
<1>14. RegularOps(JoinOps)
  BY ClassNames, OpMakers DEF JoinOps, Member, StateResponses, ModerationResponses, RoomResponses, RegularOps, Irregular, Unreported
<1>15. RegularOps(KickOps)
  BY ClassNames, OpMakers DEF KickOps, Member, ModerationResponses, RegularOps, Irregular, Unreported
<1>16. RegularOps(MessageOps)
  BY ClassNames, OpMakers DEF MessageOps, Member, MarkerResponses, RoomResponses, ContextResponses, RegularOps, Irregular, Unreported
<1>17. RegularOps(MarkerOps)
  BY ClassNames, OpMakers DEF MarkerOps, Member, MarkerResponses, RegularOps, Irregular, Unreported
<1>18. RegularOps(RepositoryOps)
  BY ClassNames, OpMakers DEF RepositoryOps, Member, RegularOps, Irregular, Unreported
<1>19. RegularOps(UploadOps)
  BY ClassNames, OpMakers DEF UploadOps, Member, ListResponses, RegularOps, Irregular, Unreported
<1>20. RegularOps(FileOps)
  BY ClassNames, OpMakers DEF FileOps, Public, FileResponses, RegularOps, Irregular, Unreported
<1>21. RegularOps(ProfileOps)
  BY ClassNames, OpMakers DEF ProfileOps, Member, Public, ProfileResponses, DeviceResponses, RegularOps, Irregular, Unreported
<1>22. RegularOps(AvatarOps)
  BY ClassNames, OpMakers DEF AvatarOps, Member, Public, RoomResponses, ProfileResponses, RegularOps, Irregular, Unreported
<1>23. RegularOps(FilterOps)
  BY ClassNames, OpMakers DEF FilterOps, Member, Public, DeviceResponses, RuleResponses, RegularOps, Irregular, Unreported
<1>24. RegularOps(RuleOps)
  BY ClassNames, OpMakers DEF RuleOps, Member, RuleResponses, RegularOps, Irregular, Unreported
<1>25. RegularOps(RuleChangeOps)
  BY ClassNames, OpMakers DEF RuleChangeOps, Member, RuleResponses, RegularOps, Irregular, Unreported
<1>26. RegularOps(TopicOps)
  BY ClassNames, OpMakers DEF TopicOps, Member, StateResponses, RegularOps, Irregular, Unreported
<1> DEFINE tables ==
                {RegisterOps, LoginOps, SyncOps, ToDeviceOps, KeyOps, ListOps, RoomSendOps,
                 EventOps, StateOps, AliasOps, ShareOps, RoomKeyOps, CreateOps, JoinOps, KickOps,
                 MessageOps, MarkerOps, RepositoryOps, UploadOps, FileOps, ProfileOps, AvatarOps,
                 FilterOps, RuleOps, RuleChangeOps, TopicOps}
<1>27. \A table \in tables : RegularOps(table)
  BY <1>1, <1>2, <1>3, <1>4, <1>5, <1>6, <1>7, <1>8, <1>9, <1>10, <1>11, <1>12, <1>13,
     <1>14, <1>15, <1>16, <1>17, <1>18, <1>19, <1>20, <1>21, <1>22, <1>23, <1>24, <1>25,
     <1>26
<1> HIDE DEF tables
<1>28. RegularOps(Merged(tables))
  BY <1>27, MergedRegular
<1> QED BY <1>28 DEF Ops, tables

-----------------------------------------------------------------------------
(* The calls *)

CallRecords == [op : Offered, attempt : Nat, got429 : Nat, timeouts : Nat]

(* A call under way has no outcome yet. *)
CallOK == call # None => outcome = None /\ call \in CallRecords

Continues == call' \in CallRecords /\ call'.op = call.op /\ outcome' = None

LEMMA Repeated ==
    ASSUME NEW c \in CallRecords
    PROVE  /\ [c EXCEPT !.timeouts = @ + 1] \in CallRecords
           /\ [c EXCEPT !.timeouts = @ + 1].op = c.op
           /\ [c EXCEPT !.got429 = @ + 1] \in CallRecords
           /\ [c EXCEPT !.got429 = @ + 1].op = c.op
           /\ [c EXCEPT !.attempt = @ + 1] \in CallRecords
           /\ [c EXCEPT !.attempt = @ + 1].op = c.op
  BY DEF CallRecords

LEMMA AgainContinues ==
    ASSUME CallOK, call # None, NEW c \in CallRecords, c.op = call.op, Again(c)
    PROVE  Continues
  BY Repeated DEF CallOK, Again, Continues

(* Whatever becomes of a request, it is repeated or over. *)
LEMMA CallProceeds ==
    ASSUME CallOK, SendNext, call # None
    PROVE  /\ effects' \in {effects, effects \cup Effect(call)}
           /\ Continues \/ \E result, body : End(result, body)
<1> USE DEF CallOK
<1>1. CASE \E op \in Offered : Call(op)
  BY <1>1 DEF Call
<1>2. ASSUME NEW arrived \in BOOLEAN, ConnectionFails(arrived)
      PROVE  /\ effects' \in {effects, effects \cup Effect(call)}
             /\ Continues \/ \E result, body : End(result, body)
  <2>1. effects' \in {effects, effects \cup Effect(call)}
    BY <1>2 DEF ConnectionFails
  <2>2. CASE End("raised", None)
    BY <2>1, <2>2
  <2>3. CASE Again([call EXCEPT !.timeouts = @ + 1])
    BY <2>1, <2>3, Repeated, AgainContinues
  <2> QED BY <1>2, <2>2, <2>3 DEF ConnectionFails
<1>3. CASE Succeeds
  BY <1>3 DEF Succeeds
<1>4. ASSUME NEW body \in Bodies, IsRefused(body)
      PROVE  effects' = effects /\ \E result : End(result, body)
  BY <1>4 DEF IsRefused
<1>5. ASSUME NEW body \in Refused429, IsLimited(body)
      PROVE  effects' = effects /\ (Continues \/ \E result, b : End(result, b))
  <2>1. effects' = effects
    BY <1>5 DEF IsLimited
  <2>2. \/ \E result : End(result, body)
        \/ Again([call EXCEPT !.got429 = @ + 1])
    BY <1>5 DEF IsLimited
  <2>3. CASE \E result : End(result, body)
    BY <2>1, <2>3
  <2>4. CASE Again([call EXCEPT !.got429 = @ + 1])
    BY <2>1, <2>4, Repeated, AgainContinues
  <2> QED BY <2>2, <2>3, <2>4
<1> QED BY <1>1, <1>2, <1>3, <1>4, <1>5 DEF SendNext

LEMMA CallBegins ==
    ASSUME SendNext, call = None
    PROVE  \E op \in Offered : Call(op)
  BY DEF SendNext, ConnectionFails, Succeeds, IsRefused, IsLimited

About(op) ==
    \/ call # None /\ call.op = op
    \/ outcome # None /\ outcome.op = op

EffectsNamed ==
    \A op \in Offered : About(op) /\ EndpointOf(op).known # "nothing" => effects \subseteq {0}

EffectInv == CallOK /\ EffectsNamed

LEMMA CallKeeps ==
    ASSUME CallOK, [SendNext]_sendVars
    PROVE  CallOK'
<1> USE DEF CallOK
<1>1. CASE UNCHANGED sendVars
  BY <1>1 DEF sendVars
<1>2. CASE SendNext /\ call = None
  <2>1. PICK op \in Offered : Call(op)
    BY <1>2, CallBegins
  <2> QED BY <1>2, <2>1 DEF Call, CallRecords
<1>3. CASE SendNext /\ call # None
  BY <1>3, CallProceeds DEF Continues, End
<1> QED BY <1>1, <1>2, <1>3

(* A request that sets something or carries a transaction id takes effect  *)
(* once, however often _send repeats it.                                   *)
THEOREM EffectsOnce == SendSpec => []OneEffect
<1>1. SendInit => EffectInv
  BY DEF SendInit, EffectInv, CallOK, EffectsNamed, About
<1>2. EffectInv /\ [SendNext]_sendVars => EffectInv'
  <2> SUFFICES ASSUME EffectInv, [SendNext]_sendVars PROVE EffectsNamed'
    BY CallKeeps DEF EffectInv
  <2> USE DEF EffectInv
  <2>1. CASE UNCHANGED sendVars
    BY <2>1 DEF sendVars, EffectsNamed, About, EndpointOf
  <2>2. CASE SendNext /\ call = None
    <3>1. effects' = {}
      BY <2>2, CallBegins DEF Call
    <3> QED BY <3>1 DEF EffectsNamed
  <2>3. CASE SendNext /\ call # None
    <3> SUFFICES ASSUME NEW op \in Offered, About(op)', EndpointOf(op).known # "nothing"
                 PROVE  effects' \subseteq {0}
      BY DEF EffectsNamed, EndpointOf
    <3>1. op = call.op
      BY <2>3, CallProceeds DEF About, Continues, End, CallOK
    <3>2. Effect(call) \subseteq {0}
      BY <3>1 DEF Effect, RequestId
    <3>3. effects \subseteq {0}
      BY <2>3, <3>1 DEF EffectsNamed, About
    <3> QED BY <2>3, <3>2, <3>3, CallProceeds
  <2> QED BY <2>1, <2>2, <2>3
<1>3. EffectInv => OneEffect
  <2> SUFFICES ASSUME EffectInv, NEW op \in Offered, About(op), EndpointOf(op).known # "nothing"
               PROVE  Cardinality(effects) <= 1
    BY DEF OneEffect, About
  <2>1. effects = {} \/ effects = {0}
    BY DEF EffectInv, EffectsNamed
  <2> QED BY <2>1, FS_EmptySet, FS_Singleton, SMTT(30)
<1> QED BY <1>1, <1>2, <1>3, PTL DEF SendSpec

-----------------------------------------------------------------------------
(* Refusals *)

ReportInv == token \in BOOLEAN /\ CallOK /\ RefusalReportedElsewhere

(* A regular class turns every error into its error.                       *)
LEMMA ErrorsVerified ==
    ASSUME NEW op \in Offered, op \notin Unreported, NEW body \in Errors
    PROVE  /\ Verify(ClassOf(op), body) = "error" /\ ClassOf(op).waits
           /\ body \in ClassOf(op).logsOut <=> body = "soft"
           /\ Returned(op, "error", body) = "error"
<1>1. /\ Ops[op].class \in DOMAIN Classes \ Irregular
      /\ Ops[op].ends \in {"returned", "checked", "raised"}
  BY OpsRegular, OfferedAssumption DEF RegularOps
<1>2. RegularClass(ClassOf(op))
  BY <1>1, ClassesRegular DEF RegularClasses, ClassOf
<1>3. Verify(ClassOf(op), body) = "error" /\ ClassOf(op).waits
  BY <1>2 DEF RegularClass, Verify
<1>4. body \in ClassOf(op).logsOut <=> body = "soft"
  BY <1>2 DEF RegularClass, Errors
<1>5. Returned(op, "error", body) = "error"
  BY <1>1 DEF Returned
<1> QED BY <1>3, <1>4, <1>5

(* The end of a refused call. *)
LEMMA RefusalEnds ==
    ASSUME token \in BOOLEAN, NEW op \in Offered, call.op = op, call # None, NEW body \in Bodies,
           End(Verify(ClassOf(op), body), body), ReceiveResponse(op, Verify(ClassOf(op), body), body)
    PROVE  token' \in BOOLEAN /\ RefusalReportedElsewhere'
<1>1. token' \in BOOLEAN
  BY DEF ReceiveResponse
<1>2. ASSUME body \in Errors, op \notin Unreported PROVE Reported(body)'
  <2>1. /\ Verify(ClassOf(op), body) = "error"
        /\ body \in ClassOf(op).logsOut <=> body = "soft"
        /\ Returned(op, "error", body) = "error"
    BY <1>2, ErrorsVerified
  <2>2. outcome' = [op |-> op, result |-> "error", token |-> token]
    BY <2>1 DEF End
  <2>3. token' = (token /\ body # "soft")
    BY <2>1 DEF ReceiveResponse
  <2> QED BY <2>2, <2>3 DEF Reported
<1>3. answer' = body /\ outcome'.op = op
  BY DEF End
<1> QED BY <1>1, <1>2, <1>3 DEF RefusalReportedElsewhere

(* All operations but the Unreported report a Matrix error, through all    *)
(* retries, and lose the login by a soft logout only.                      *)
THEOREM RefusalsReported == SendSpec => []RefusalReportedElsewhere
<1>1. SendInit => ReportInv
  BY DEF SendInit, ReportInv, CallOK, RefusalReportedElsewhere
<1>2. ReportInv /\ [SendNext]_sendVars => ReportInv'
  <2> SUFFICES ASSUME ReportInv, [SendNext]_sendVars
               PROVE  token' \in BOOLEAN /\ RefusalReportedElsewhere'
    BY CallKeeps DEF ReportInv
  <2> USE DEF ReportInv
  <2>1. CASE UNCHANGED sendVars
    BY <2>1 DEF sendVars, RefusalReportedElsewhere, Reported
  <2>2. CASE SendNext /\ call = None
    <3>1. answer' = None /\ token' = token
      BY <2>2, CallBegins DEF Call
    <3> QED BY <3>1, NoAnswerAssumption DEF RefusalReportedElsewhere, Bodies
  <2>3. ASSUME SendNext, call # None PROVE token' \in BOOLEAN /\ RefusalReportedElsewhere'
    <3>1. PICK op \in Offered : op = call.op
      BY <2>3 DEF CallOK, CallRecords
    <3>2. ASSUME NEW arrived \in BOOLEAN, ConnectionFails(arrived)
          PROVE  token' \in BOOLEAN /\ RefusalReportedElsewhere'
      <4>1. token' = token
        BY <3>2 DEF ConnectionFails
      <4>2. answer' = None \/ outcome' = None
        BY <2>3, <3>2, AgainContinues, Repeated DEF ConnectionFails, End, Again, CallOK
      <4> QED BY <4>1, <4>2, NoAnswerAssumption DEF RefusalReportedElsewhere, Bodies
    <3>3. CASE Succeeds
      <4>1. answer' = "done" /\ token' \in BOOLEAN
        BY <3>3 DEF Succeeds, End, ReceiveResponse
      <4> QED BY <4>1 DEF RefusalReportedElsewhere, Errors
    <3>4. ASSUME NEW body \in Bodies, IsRefused(body)
          PROVE  token' \in BOOLEAN /\ RefusalReportedElsewhere'
      BY <2>3, <3>1, <3>4, RefusalEnds DEF IsRefused
    <3>5. ASSUME NEW body \in Refused429, IsLimited(body)
          PROVE  token' \in BOOLEAN /\ RefusalReportedElsewhere'
      <4>1. body \in Bodies
        BY DEF Refused429, Bodies, Errors
      <4>2. CASE /\ End(Verify(ClassOf(op), body), body)
                 /\ ReceiveResponse(op, Verify(ClassOf(op), body), body)
        BY <2>3, <3>1, <4>1, <4>2, RefusalEnds
      <4>3. CASE /\ Verify(ClassOf(op), body) = "error" /\ ~ClassOf(op).waits
                 /\ End("raised", body) /\ token' = token
        <5>1. answer' = body /\ outcome'.op = op
          BY <3>1, <4>3 DEF End
        <5> QED BY <4>3, <5>1, ErrorsVerified DEF RefusalReportedElsewhere
      <4>4. CASE Again([call EXCEPT !.got429 = @ + 1]) /\ token' = token
        BY <2>3, <4>4 DEF Again, CallOK, RefusalReportedElsewhere
      <4> QED BY <3>1, <3>5, <4>2, <4>3, <4>4 DEF IsLimited
    <3> QED BY <2>3, <3>2, <3>3, <3>4, <3>5 DEF SendNext, Call
  <2> QED BY <2>1, <2>2, <2>3
<1>3. ReportInv => RefusalReportedElsewhere
  BY DEF ReportInv
<1> QED BY <1>1, <1>2, <1>3, PTL DEF SendSpec

-----------------------------------------------------------------------------
(* The picture of a room *)

NameTables == [Members \cup DisplayNames -> [Members -> Nat]]

RoomRecords ==
    [users : [Members -> UserRecords \cup {None}], invited : SUBSET Members,
     names : NameTables]

Displays == DisplayNames \cup {None}

(* The room lists every user it knows once, under the name it has, has its *)
(* invitations and the levels named for its members.                       *)
IndexOK(room) ==
    \A x \in Members \cup DisplayNames, v \in Members :
        room.names[x][v] = IF room.users[v] # None /\ NameOf(v, room.users[v].name) = x THEN 1 ELSE 0
InvitedOK(room) == \A v \in Members : v \in room.invited <=> room.users[v] # None /\ room.users[v].invited
LevelsOK(room) ==
    \A v \in Members : room.users[v] # None /\ powerLevels[v] # None => room.users[v].level = powerLevels[v]
RoomOK(room) == room \in RoomRecords /\ IndexOK(room) /\ InvitedOK(room) /\ LevelsOK(room)

LEMMA NamesListed ==
    ASSUME NEW v \in Members, NEW display \in Displays
    PROVE  NameOf(v, display) \in Members \cup DisplayNames
  BY DEF NameOf, Displays

LEMMA ListedCounts ==
    ASSUME NEW list \in NameTables, NEW u \in Members,
           NEW display \in Displays
    PROVE  /\ Listed(list, u, display) \in NameTables
           /\ \A x \in Members \cup DisplayNames, v \in Members :
                Listed(list, u, display)[x][v] =
                    IF x = NameOf(u, display) /\ v = u THEN list[x][v] + 1 ELSE list[x][v]
           /\ Unlisted(list, u, display) \in NameTables
           /\ \A x \in Members \cup DisplayNames, v \in Members :
                Unlisted(list, u, display)[x][v] =
                    IF x = NameOf(u, display) /\ v = u /\ list[x][v] # 0 THEN list[x][v] - 1 ELSE list[x][v]
<1>1. PICK d \in Members \cup DisplayNames : d = NameOf(u, display)
  BY NamesListed
<1>2. /\ list[d] \in [Members -> Nat] /\ list[d][u] \in Nat
      /\ list[d][u] # 0 => list[d][u] - 1 \in Nat
  BY <1>1 DEF NameTables
<1>3. Listed(list, u, display) = [list EXCEPT ![d][u] = list[d][u] + 1]
  BY <1>1 DEF Listed
<1>4. Unlisted(list, u, display) = [list EXCEPT ![d][u] = IF list[d][u] = 0 THEN 0 ELSE list[d][u] - 1]
  BY <1>1 DEF Unlisted
<1> QED BY <1>1, <1>2, <1>3, <1>4 DEF NameTables

LEMMA MemberAdded ==
    ASSUME powerLevels \in [Members -> {50, None}], NEW room, RoomOK(room), NEW u \in Members,
           NEW display \in Displays, NEW invited \in BOOLEAN
    PROVE  LET after == AddMember(room, u, display, invited)
           IN  /\ RoomOK(after)
               /\ \A v \in Members \ {u} : after.users[v] = room.users[v]
               /\ room.users[u] # None => after = room
               /\ room.users[u] = None => after.users[u] # None /\ after.users[u].invited = invited
<1> DEFINE after == AddMember(room, u, display, invited)
           user == [name |-> display, invited |-> invited, level |-> LevelOf(u)]
<1>1. CASE room.users[u] # None
  BY <1>1 DEF AddMember
<1>2. CASE room.users[u] = None
  <2>1. user \in UserRecords /\ user # None
    BY UsersAssumption DEF UserRecords, LevelOf, Displays
  <2>2. /\ user.name = display /\ user.invited = invited
        /\ powerLevels[u] # None => user.level = powerLevels[u]
    BY DEF LevelOf
  <2> HIDE DEF user
  <2>3. /\ after.users = [room.users EXCEPT ![u] = user]
        /\ after.invited = IF invited THEN room.invited \cup {u} ELSE room.invited
        /\ after.names = Listed(room.names, u, display)
        /\ after = [users |-> after.users, invited |-> after.invited, names |-> after.names]
    BY <1>2 DEF AddMember, user
  <2> HIDE DEF after
  <2>4. room \in RoomRecords
    BY DEF RoomOK
  <2>5. after.users \in [Members -> UserRecords \cup {None}] /\ after.users[u] = user
        /\ \A v \in Members \ {u} : after.users[v] = room.users[v]
    BY <2>1, <2>3, <2>4 DEF RoomRecords
  <2>6. room.names \in NameTables
    BY <2>4 DEF RoomRecords
  <2>7. after \in RoomRecords
    <3>1. after.names \in NameTables
      BY <2>3, <2>6, ListedCounts
    <3>2. after.invited \in SUBSET Members
      BY <2>3, <2>4 DEF RoomRecords
    <3> QED BY <2>3, <2>5, <3>1, <3>2 DEF RoomRecords
  <2>8. IndexOK(after)
    <3> SUFFICES ASSUME NEW x \in Members \cup DisplayNames, NEW v \in Members
                 PROVE  after.names[x][v] =
                            IF after.users[v] # None /\ NameOf(v, after.users[v].name) = x THEN 1 ELSE 0
      BY DEF IndexOK
    <3>1. room.names[x][v] = IF room.users[v] # None /\ NameOf(v, room.users[v].name) = x THEN 1 ELSE 0
      BY DEF RoomOK, IndexOK
    <3>2. after.names[x][v] = IF x = NameOf(u, display) /\ v = u THEN room.names[x][v] + 1 ELSE room.names[x][v]
      BY <2>3, <2>6, ListedCounts
    <3>3. CASE v = u
      BY <1>2, <2>1, <2>2, <2>5, <3>1, <3>2, <3>3
    <3>4. CASE v # u
      BY <2>5, <3>1, <3>2, <3>4
    <3> QED BY <3>3, <3>4
  <2>9. InvitedOK(after)
    BY <1>2, <2>1, <2>2, <2>3, <2>5 DEF RoomOK, InvitedOK
  <2>10. LevelsOK(after)
    BY <2>1, <2>2, <2>5 DEF RoomOK, LevelsOK
  <2> QED BY <1>2, <2>1, <2>2, <2>5, <2>7, <2>8, <2>9, <2>10 DEF RoomOK, after
<1> QED BY <1>1, <1>2

LEMMA AddedJoined ==
    ASSUME powerLevels \in [Members -> {50, None}], NEW room, RoomOK(room), NEW u \in Members,
           NEW display \in Displays, NEW after, after = AddMember(room, u, display, FALSE)
    PROVE  /\ RoomOK(after)
           /\ room.users[u] # None => after = room
           /\ room.users[u] = None => after.users[u] # None /\ ~after.users[u].invited
<1>1. PICK invited \in BOOLEAN : ~invited
  OBVIOUS
<1>2. after = AddMember(room, u, display, invited)
  BY <1>1
<1>3. /\ RoomOK(AddMember(room, u, display, invited))
      /\ room.users[u] # None => AddMember(room, u, display, invited) = room
      /\ room.users[u] = None =>
             /\ AddMember(room, u, display, invited).users[u] # None
             /\ AddMember(room, u, display, invited).users[u].invited = invited
  BY MemberAdded
<1> QED BY <1>1, <1>2, <1>3

LEMMA Removed ==
    ASSUME NEW room, RoomOK(room), NEW u \in Members
    PROVE  LET after == RemoveMember(room, u)
           IN  /\ RoomOK(after)
               /\ after.users = [room.users EXCEPT ![u] = None]
<1> DEFINE after == RemoveMember(room, u)
<1>1. room \in RoomRecords
  BY DEF RoomOK
<1>2. /\ room.users \in [Members -> UserRecords \cup {None}]
      /\ room.names \in NameTables
      /\ room.invited \subseteq Members
      /\ room = [users |-> room.users, invited |-> room.invited, names |-> room.names]
  BY <1>1 DEF RoomRecords
<1>3. CASE room.users[u] = None
  <2>1. u \notin room.invited
    BY <1>3 DEF RoomOK, InvitedOK
  <2>2. after = [room EXCEPT !.invited = room.invited]
    BY <1>3, <2>1 DEF RemoveMember
  <2>3. after = room
    BY <1>2, <2>2
  <2>4. room.users = [room.users EXCEPT ![u] = None]
    BY <1>2, <1>3
  <2> QED BY <2>3, <2>4
<1>4. CASE room.users[u] # None
  <2>1. PICK display \in Displays : display = room.users[u].name
    BY <1>2, <1>4 DEF Displays, UserRecords
  <2> DEFINE once == Unlisted(room.names, u, display)
  <2>2. /\ after.users = [room.users EXCEPT ![u] = None]
        /\ after.invited = room.invited \ {u}
        /\ after.names = IF u \in room.invited THEN Unlisted(once, u, display) ELSE once
        /\ after = [users |-> after.users, invited |-> after.invited, names |-> after.names]
    BY <1>4, <2>1 DEF RemoveMember
  <2> HIDE DEF after
  <2>3. /\ after.users \in [Members -> UserRecords \cup {None}] /\ after.users[u] = None
        /\ \A v \in Members \ {u} : after.users[v] = room.users[v]
    BY <1>2, <2>2
  <2>4. /\ once \in NameTables
        /\ \A x \in Members \cup DisplayNames, v \in Members :
            once[x][v] = IF x = NameOf(u, display) /\ v = u /\ room.names[x][v] # 0
                         THEN room.names[x][v] - 1 ELSE room.names[x][v]
    BY <1>2, ListedCounts
  <2> HIDE DEF once
  <2>5. /\ after.names \in NameTables
        /\ \A x \in Members \cup DisplayNames, v \in Members :
            \/ after.names[x][v] = once[x][v]
            \/ /\ x = NameOf(u, display) /\ v = u /\ once[x][v] # 0
               /\ after.names[x][v] = once[x][v] - 1
    <3>1. CASE u \in room.invited
      BY <2>2, <2>4, <3>1, ListedCounts
    <3>2. CASE u \notin room.invited
      BY <2>2, <2>4, <3>2
    <3> QED BY <3>1, <3>2
  <2>6. after \in RoomRecords
    BY <1>2, <2>2, <2>3, <2>5 DEF RoomRecords
  <2>7. IndexOK(after)
    <3> SUFFICES ASSUME NEW x \in Members \cup DisplayNames, NEW v \in Members
                 PROVE  after.names[x][v] =
                            IF after.users[v] # None /\ NameOf(v, after.users[v].name) = x THEN 1 ELSE 0
      BY DEF IndexOK
    <3>1. room.names[x][v] = IF room.users[v] # None /\ NameOf(v, room.users[v].name) = x THEN 1 ELSE 0
      BY DEF RoomOK, IndexOK
    <3>2. once[x][v] = IF x = NameOf(u, display) /\ v = u /\ room.names[x][v] # 0
                       THEN room.names[x][v] - 1 ELSE room.names[x][v]
      BY <2>4
    <3>3. CASE v = u
      <4>1. once[x][v] = 0
        BY <1>4, <2>1, <3>1, <3>2, <3>3
      <4> QED BY <2>3, <2>5, <3>3, <4>1
    <3>4. CASE v # u
      BY <2>3, <2>5, <3>1, <3>2, <3>4
    <3> QED BY <3>3, <3>4
  <2>8. InvitedOK(after)
    BY <2>2, <2>3 DEF RoomOK, InvitedOK
  <2>9. LevelsOK(after)
    BY <2>3 DEF RoomOK, LevelsOK
  <2> QED BY <2>2, <2>6, <2>7, <2>8, <2>9 DEF RoomOK, after
<1> QED BY <1>3, <1>4

LEMMA Updated ==
    ASSUME NEW room, RoomOK(room), NEW e \in MemberEvents, e.membership # "leave",
           room.users[e.user] # None, e.membership = "invite" => e.user \in room.invited
    PROVE  LET after == UpdateMember(room, e)
           IN  /\ RoomOK(after)
               /\ \A v \in Members \ {e.user} : after.users[v] = room.users[v]
               /\ after.users[e.user] # None
               /\ after.users[e.user].invited <=> e.membership = "invite"
<1> DEFINE after == UpdateMember(room, e)
           u == e.user
           old == room.users[u].name
           new == IF e.name = Missing THEN old ELSE e.name
           invited == e.membership = "invite"
           user == [room.users[u] EXCEPT !.invited = invited, !.name = new]
<1>1. /\ u \in Members /\ e.name \in Displays \cup {Missing} /\ e.membership \in {"join", "invite", "leave"}
  BY DEF MemberEvents, Given, Displays
<1>2. room \in RoomRecords
  BY DEF RoomOK
<1>3. /\ room.users \in [Members -> UserRecords \cup {None}]
      /\ room.names \in NameTables
      /\ room.invited \subseteq Members
      /\ room.users[u] \in UserRecords
  BY <1>1, <1>2 DEF RoomRecords
<1>4. old \in Displays /\ new \in Displays
  BY <1>1, <1>3 DEF UserRecords, Displays
<1>5. /\ user \in UserRecords /\ user # None /\ user.name = new /\ user.invited = invited
      /\ user.level = room.users[u].level
  <2> HIDE DEF new
  <2> QED BY <1>3, <1>4, UsersAssumption DEF UserRecords, Displays
<1>6. /\ after.users = [room.users EXCEPT ![u] = user]
      /\ after.invited = IF invited THEN room.invited ELSE room.invited \ {u}
      /\ after.names = IF e.name = Missing THEN room.names
                       ELSE Listed(Unlisted(room.names, u, old), u, e.name)
      /\ after = [users |-> after.users, invited |-> after.invited, names |-> after.names]
  BY DEF UpdateMember, Renamed
<1> HIDE DEF after, user
<1>7. /\ after.users \in [Members -> UserRecords \cup {None}] /\ after.users[u] = user
      /\ \A v \in Members \ {u} : after.users[v] = room.users[v]
  BY <1>1, <1>3, <1>5, <1>6
<1>8. /\ after.names \in NameTables
      /\ \A x \in Members \cup DisplayNames, v \in Members :
            after.names[x][v] = IF v = u THEN IF x = NameOf(u, new) THEN 1 ELSE 0 ELSE room.names[x][v]
  <2>1. \A x \in Members \cup DisplayNames :
            room.names[x][u] = IF x = NameOf(u, old) THEN 1 ELSE 0
    BY <1>1 DEF RoomOK, IndexOK
  <2>2. CASE e.name = Missing
    BY <1>3, <1>6, <2>1, <2>2
  <2>3. CASE e.name # Missing
    <3> DEFINE once == Unlisted(room.names, u, old)
    <3>1. /\ once \in NameTables
          /\ \A x \in Members \cup DisplayNames, v \in Members :
                once[x][v] = IF x = NameOf(u, old) /\ v = u /\ room.names[x][v] # 0
                             THEN room.names[x][v] - 1 ELSE room.names[x][v]
      BY <1>1, <1>3, <1>4, ListedCounts
    <3> HIDE DEF once
    <3>2. /\ Listed(once, u, e.name) \in NameTables
          /\ \A x \in Members \cup DisplayNames, v \in Members :
                Listed(once, u, e.name)[x][v] =
                    IF x = NameOf(u, e.name) /\ v = u THEN once[x][v] + 1 ELSE once[x][v]
      BY <1>1, <1>4, <2>3, <3>1, ListedCounts
    <3>3. after.names = Listed(once, u, e.name)
      BY <1>6, <2>3 DEF once
    <3>4. new = e.name
      BY <2>3
    <3> HIDE DEF new, old, u
    <3> SUFFICES ASSUME NEW x \in Members \cup DisplayNames, NEW v \in Members
                 PROVE  after.names[x][v] = IF v = u THEN IF x = NameOf(u, new) THEN 1 ELSE 0
                                            ELSE room.names[x][v]
      BY <3>2, <3>3
    <3>5. CASE v # u
      BY <3>1, <3>2, <3>3, <3>5
    <3>6. CASE v = u
      <4>1. once[x][u] = 0
        BY <1>1, <2>1, <3>1
      <4> QED BY <3>2, <3>3, <3>4, <3>6, <4>1
    <3> QED BY <3>5, <3>6
  <2> QED BY <2>2, <2>3
<1> HIDE DEF new, invited
<1>9. after \in RoomRecords
  <2>1. after.invited \in SUBSET Members
    BY <1>3, <1>6
  <2> QED BY <1>6, <1>7, <1>8, <2>1 DEF RoomRecords
<1>10. IndexOK(after)
  <2> SUFFICES ASSUME NEW x \in Members \cup DisplayNames, NEW v \in Members
               PROVE  after.names[x][v] =
                        IF after.users[v] # None /\ NameOf(v, after.users[v].name) = x THEN 1 ELSE 0
    BY DEF IndexOK
  <2>1. room.names[x][v] = IF room.users[v] # None /\ NameOf(v, room.users[v].name) = x THEN 1 ELSE 0
    BY DEF RoomOK, IndexOK
  <2>2. CASE v = u
    BY <1>5, <1>7, <1>8, <2>2
  <2>3. CASE v # u
    BY <1>7, <1>8, <2>1, <2>3
  <2> QED BY <2>2, <2>3
<1>11. InvitedOK(after)
  <2> SUFFICES ASSUME NEW v \in Members
               PROVE  v \in after.invited <=> after.users[v] # None /\ after.users[v].invited
    BY DEF InvitedOK
  <2>1. v \in room.invited <=> room.users[v] # None /\ room.users[v].invited
    BY DEF RoomOK, InvitedOK
  <2>2. CASE v = u
    BY <1>5, <1>6, <1>7, <2>2 DEF invited
  <2>3. CASE v # u
    BY <1>6, <1>7, <2>1, <2>3
  <2> QED BY <2>2, <2>3
<1>12. LevelsOK(after)
  BY <1>5, <1>7 DEF RoomOK, LevelsOK
<1> QED BY <1>5, <1>7, <1>9, <1>10, <1>11, <1>12 DEF RoomOK, after, invited

-----------------------------------------------------------------------------
(* The server's membership *)

IsAbout(e, u) == e.kind = "member" /\ e.user = u

EventsAbout(log, n, u) == {i \in 1..n : IsAbout(log[i], u)}
StateBy(log, of, u) ==
    IF of = {} THEN IF u \in founders THEN "join" ELSE "leave"
    ELSE log[CHOOSE i \in of : \A j \in of : j <= i].membership
StateIn(log, n, u) == StateBy(log, EventsAbout(log, n, u), u)

LEMMA ServerState ==
    ASSUME NEW n, NEW u \in Members
    PROVE  MembershipAt(n)[u].state = StateIn(history, n, u)
  BY DEF MembershipAt, StateIn, StateBy, EventsAbout, IsAbout

LEMMA StateKept ==
    ASSUME NEW log, NEW n \in Nat, NEW u, ~IsAbout(log[n + 1], u)
    PROVE  StateIn(log, n + 1, u) = StateIn(log, n, u)
<1>1. \A i : i \in 1..(n + 1) <=> i \in 1..n \/ i = n + 1
  OBVIOUS
<1>2. EventsAbout(log, n + 1, u) = EventsAbout(log, n, u)
  BY <1>1 DEF EventsAbout
<1> QED BY <1>2 DEF StateIn

LEMMA StateSet ==
    ASSUME NEW log, NEW n \in Nat, NEW u, IsAbout(log[n + 1], u)
    PROVE  StateIn(log, n + 1, u) = log[n + 1].membership
<1>1. PICK of : of = EventsAbout(log, n + 1, u)
  OBVIOUS
<1> DEFINE last == CHOOSE i \in of : \A j \in of : j <= i
<1>2. n + 1 \in of /\ of \subseteq 1..(n + 1)
  BY <1>1 DEF EventsAbout
<1>3. last \in of /\ \A j \in of : j <= last
  <2>1. \A j \in of : j <= n + 1
    BY <1>2
  <2>2. \E i \in of : \A j \in of : j <= i
    BY <1>2, <2>1
  <2> QED BY <2>2
<1>4. last = n + 1
  <2>1. last \in 1..(n + 1) /\ n + 1 <= last
    BY <1>2, <1>3
  <2> HIDE DEF last
  <2> QED BY <2>1
<1>5. of # {} => StateIn(log, n + 1, u) = log[last].membership
  BY <1>1 DEF StateIn, StateBy
<1> HIDE DEF last
<1> QED BY <1>2, <1>4, <1>5

(* Later events do not change what was. *)
LEMMA StatePast ==
    ASSUME NEW log, NEW later, NEW n \in Nat, NEW u, \A i \in 1..n : later[i] = log[i]
    PROVE  StateIn(later, n, u) = StateIn(log, n, u)
<1>1. PICK of : of = EventsAbout(log, n, u)
  OBVIOUS
<1>2. EventsAbout(later, n, u) = of /\ of \subseteq 1..n
  BY <1>1 DEF EventsAbout
<1> DEFINE last == CHOOSE i \in of : \A j \in of : j <= i
<1>3. of # {} => later[last] = log[last]
  <2> SUFFICES ASSUME of # {} PROVE last \in 1..n
    OBVIOUS
  <2>1. of \in SUBSET Nat /\ \A y \in of : y <= n
    BY <1>2
  <2>2. \E x \in of : \A y \in of : y <= x
    BY <2>1, LargestNatural
  <2> QED BY <1>2, <2>2
<1>4. \A l : StateBy(l, of, u) = IF of = {} THEN IF u \in founders THEN "join" ELSE "leave"
                                ELSE l[last].membership
  BY DEF StateBy
<1> HIDE DEF last
<1> QED BY <1>1, <1>2, <1>3, <1>4 DEF StateIn

(* Between two moments nothing about u happens: its state stays. *)
LEMMA StateSame ==
    ASSUME NEW log, NEW m \in Nat, NEW n \in Nat, m <= n, NEW u,
           \A i \in (m + 1)..n : ~IsAbout(log[i], u)
    PROVE  StateIn(log, n, u) = StateIn(log, m, u)
<1>1. \A i : i \in 1..n <=> i \in 1..m \/ i \in (m + 1)..n
  OBVIOUS
<1>2. EventsAbout(log, n, u) = EventsAbout(log, m, u)
  BY <1>1 DEF EventsAbout
<1> QED BY <1>2 DEF StateIn

(* A name the server lists. *)
LEMMA ServerName ==
    ASSUME history \in Seq(MemberEvents \cup LevelEvents \cup FieldEvents),
           NEW n \in 0..Len(history), NEW u \in Members
    PROVE  MembershipAt(n)[u].name \in Displays
<1>1. PICK of : of = {i \in 1..n : history[i].kind = "member" /\ history[i].user = u}
  OBVIOUS
<1>2. PICK last : last = history[CHOOSE i \in of : \A j \in of : j <= i]
  OBVIOUS
<1>3. MembershipAt(n)[u] =
        IF of = {} THEN [state |-> IF u \in founders THEN "join" ELSE "leave", name |-> None]
        ELSE [state |-> last.membership, name |-> IF last.name = Missing THEN None ELSE last.name]
  BY <1>1, <1>2 DEF MembershipAt
<1>4. CASE of = {}
  BY <1>3, <1>4 DEF Displays
<1>5. CASE of # {}
  <2>1. of \in SUBSET Nat /\ n \in Nat /\ \A y \in of : y <= n
    BY <1>1
  <2>2. \E x \in of : \A y \in of : y <= x
    BY <1>5, <2>1, LargestNatural
  <2>3. PICK i \in of : last = history[i]
    BY <1>2, <2>2
  <2>4. i \in 1..Len(history) /\ last.kind = "member"
    BY <1>1, <2>3
  <2>5. last \in MemberEvents
    BY <2>3, <2>4, ElementOfSeq DEF LevelEvents, FieldEvents, FieldKinds
  <2>6. last.name \in Displays \cup {Missing}
    BY <2>5 DEF MemberEvents, Given, Displays
  <2> QED BY <1>3, <1>5, <2>6 DEF Displays
<1> QED BY <1>4, <1>5

-----------------------------------------------------------------------------
(* A room follows the server *)

Joins(room, u) == room.users[u] # None /\ ~room.users[u].invited
Invites(room, u) == room.users[u] # None /\ room.users[u].invited

LEMMA MembershipHandled ==
    ASSUME powerLevels \in [Members -> {50, None}], NEW room, RoomOK(room), NEW e \in MemberEvents
    PROVE  LET after == HandleMembership(room, e)
           IN  /\ RoomOK(after)
               /\ \A v \in Members \ {e.user} : after.users[v] = room.users[v]
               /\ e.membership = "leave" => after.users[e.user] = None
               /\ e.membership = "join" => Joins(after, e.user)
               /\ e.membership = "invite" =>
                    \/ Invites(after, e.user)
                    \/ Joins(room, e.user) /\ after = room
<1> DEFINE after == HandleMembership(room, e)
           u == e.user
<1>1. /\ u \in Members /\ e.membership \in {"join", "invite", "leave"}
      /\ e.name \in Displays \cup {Missing}
  BY DEF MemberEvents, Given, Displays
<1>2. u \in room.invited <=> room.users[u] # None /\ room.users[u].invited
  BY <1>1 DEF RoomOK, InvitedOK
<1>3. CASE e.membership = "leave"
  <2>1. after = RemoveMember(room, u)
    BY <1>3 DEF HandleMembership
  <2>2. room.users \in [Members -> UserRecords \cup {None}]
    BY DEF RoomOK, RoomRecords
  <2>3. RoomOK(RemoveMember(room, u)) /\ RemoveMember(room, u).users = [room.users EXCEPT ![u] = None]
    BY <1>1, Removed
  <2> QED BY <1>1, <1>3, <2>1, <2>2, <2>3
<1>4. CASE /\ e.membership # "leave"
           /\ room.users[u] = None \/ (e.membership = "invite" /\ u \notin room.invited)
  <2>1. PICK display \in Displays : display = IF e.name = Missing THEN None ELSE e.name
    BY <1>1 DEF Displays
  <2>2. PICK invited \in BOOLEAN : invited = (e.membership = "invite")
    OBVIOUS
  <2>3. after = AddMember(room, u, display, invited)
    BY <1>4, <2>1, <2>2 DEF HandleMembership
  <2>4. /\ RoomOK(after)
        /\ \A v \in Members \ {u} : after.users[v] = room.users[v]
        /\ room.users[u] # None => after = room
        /\ room.users[u] = None => after.users[u] # None /\ after.users[u].invited = invited
    BY <1>1, <2>3, MemberAdded
  <2>5. CASE room.users[u] = None
    BY <1>4, <2>2, <2>4, <2>5 DEF Joins, Invites
  <2>6. CASE room.users[u] # None
    BY <1>2, <1>4, <2>4, <2>6 DEF Joins, Invites
  <2> QED BY <2>5, <2>6
<1>5. CASE /\ e.membership # "leave" /\ room.users[u] # None
           /\ e.membership = "invite" => u \in room.invited
  <2>1. after = UpdateMember(room, e)
    BY <1>5 DEF HandleMembership
  <2>2. /\ RoomOK(after)
        /\ \A v \in Members \ {u} : after.users[v] = room.users[v]
        /\ after.users[u] # None
        /\ after.users[u].invited <=> e.membership = "invite"
    BY <1>5, <2>1, Updated
  <2> QED BY <1>5, <2>2 DEF Joins, Invites
<1> QED BY <1>3, <1>4, <1>5

ServerEvents == MemberEvents \cup LevelEvents \cup FieldEvents

RoomsTypes ==
    /\ history \in Seq(ServerEvents) /\ delivered \in 0..Len(history)
    /\ powerLevels \in [Members -> {50, None}]
    /\ roomSynced \in BOOLEAN /\ overtaken \in BOOLEAN
    /\ lookup # None => lookup \in [at : 0..Len(history), listed : BOOLEAN]

(* Nobody joined is invited. *)
ServerOK ==
    \A i \in 1..Len(history), u \in Members :
        IsAbout(history[i], u) /\ history[i].membership = "invite" =>
            StateIn(history, i - 1, u) # "join"

(* Who the client has as invited was invited by the latest event handled. *)
InvitationsCurrent ==
    \A u \in Members : Invites(Room, u) => StateIn(history, delivered, u) = "invite"

(* Since the list on its way was made, no membership was handled. *)
ListCurrent ==
    lookup # None /\ lookup.listed /\ ~overtaken =>
        \A i \in (lookup.at + 1)..delivered : history[i].kind # "member"

(* The client has each member as the server had it at some moment from the *)
(* latest handled event on: a list may be ahead of sync.                   *)
StandsAt(m, u) == Joins(Room, u) <=> StateIn(history, m, u) = "join"
AtLeastCurrent ==
    roomSynced /\ ~overtaken => \A u \in Members : \E m \in delivered..Len(history) : StandsAt(m, u)

RoomsInv ==
    RoomsTypes /\ RoomOK(Room) /\ ServerOK /\ InvitationsCurrent /\ ListCurrent /\ AtLeastCurrent

LEMMA RoomsStart == RoomsInit => RoomsInv
<1> SUFFICES ASSUME RoomsInit PROVE RoomsInv
  OBVIOUS
<1> USE DEF RoomsInit
<1>1. RoomsTypes
  <2>1. history \in Seq(ServerEvents) /\ delivered \in 0..Len(history)
    OBVIOUS
  <2>2. powerLevels \in [Members -> {50, None}]
    OBVIOUS
  <2> QED BY <2>1, <2>2 DEF RoomsTypes
<1>2. Room \in RoomRecords
  BY DEF Room, RoomRecords, NameTables
<1>3. IndexOK(Room)
  BY DEF IndexOK, Room
<1>4. InvitedOK(Room) /\ LevelsOK(Room)
  BY DEF InvitedOK, LevelsOK, Room
<1>5. ServerOK
  BY DEF ServerOK
<1>6. InvitationsCurrent /\ ListCurrent /\ AtLeastCurrent
  BY DEF InvitationsCurrent, ListCurrent, AtLeastCurrent, Room, Invites
<1> QED BY <1>1, <1>2, <1>3, <1>4, <1>5, <1>6 DEF RoomsInv, RoomOK

LEMMA RoomsRight == RoomsInv => RoomConsistent
<1> SUFFICES ASSUME RoomsInv PROVE RoomConsistent
  OBVIOUS
<1>1. /\ Room \in RoomRecords /\ Room.users = users /\ Room.names = names /\ Room.invited = invitedUsers
      /\ IndexOK(Room) /\ InvitedOK(Room) /\ LevelsOK(Room)
  BY DEF RoomsInv, RoomOK, Room
<1>2. names \in NameTables /\ invitedUsers \subseteq Members
  BY <1>1 DEF RoomRecords
<1>3. NamesIndexed
  BY <1>1, <1>2 DEF NamesIndexed, IndexOK, NameTables, Known
<1>4. MembersConsistent
  <2>1. invitedUsers = {u \in Known : users[u].invited}
    BY <1>1, <1>2 DEF InvitedOK, Known
  <2>2. \A u \in Known : powerLevels[u] # None => users[u].level = powerLevels[u]
    BY <1>1 DEF LevelsOK, Known
  <2> QED BY <2>1, <2>2 DEF MembersConsistent
<1>5. MembersCurrentUnraced
  <2> SUFFICES ASSUME roomSynced, delivered = Len(history), ~overtaken
               PROVE  {u \in Known : ~users[u].invited} = JoinedAt(delivered)
    BY DEF MembersCurrentUnraced
  <2>1. ASSUME NEW u \in Members PROVE Joins(Room, u) <=> MembershipAt(delivered)[u].state = "join"
    <3>1. PICK m \in delivered..Len(history) : StandsAt(m, u)
      BY DEF RoomsInv, AtLeastCurrent
    <3>2. m = delivered
      BY <3>1 DEF RoomsInv, RoomsTypes
    <3> QED BY <3>1, <3>2, ServerState DEF StandsAt
  <2> QED BY <1>1, <2>1 DEF Known, JoinedAt, Joins
<1> QED BY <1>3, <1>4, <1>5 DEF RoomConsistent

(* A step that leaves the room, its levels and what was handled alone. *)
LEMMA RoomStays ==
    ASSUME RoomsInv, UNCHANGED <<users, invitedUsers, names, powerLevels>>
    PROVE  RoomOK(Room)' /\ \A u \in Members : /\ Joins(Room, u)' <=> Joins(Room, u)
                                               /\ Invites(Room, u)' <=> Invites(Room, u)
  BY DEF RoomsInv, RoomOK, Room, IndexOK, InvitedOK, LevelsOK, Joins, Invites

LEMMA StatePrimed ==
    ASSUME founders' = founders
    PROVE  /\ \A n, u : StateIn(history, n, u)' = StateIn(history', n, u)
           /\ \A u : StateIn(history, delivered, u)' = StateIn(history', delivered', u)
  BY DEF StateIn, StateBy, EventsAbout

LEMMA ServerEventKeeps ==
    ASSUME RoomsInv, NEW e \in ServerEvents, ServerEvent(e)
    PROVE  RoomsInv'
<1>1. /\ history \in Seq(ServerEvents) /\ Len(history) \in Nat /\ delivered \in 0..Len(history)
      /\ history' = Append(history, e) /\ founders' = founders /\ delivered' = delivered
      /\ UNCHANGED <<users, invitedUsers, names, powerLevels, roomSynced, lookup, overtaken>>
  BY DEF RoomsInv, RoomsTypes, ServerEvent
<1>2. /\ history' \in Seq(ServerEvents) /\ Len(history') = Len(history) + 1
      /\ \A i \in 1..Len(history) : history'[i] = history[i]
      /\ history'[Len(history) + 1] = e
  BY <1>1
<1>3. \A n \in 0..Len(history) : \A u : StateIn(history', n, u) = StateIn(history, n, u)
  <2> SUFFICES ASSUME NEW n \in 0..Len(history), NEW u
               PROVE  StateIn(history', n, u) = StateIn(history, n, u)
    OBVIOUS
  <2> QED BY <1>2, StatePast
<1>4. RoomsTypes'
  <2>1. delivered' \in 0..Len(history')
    BY <1>1, <1>2
  <2>2. lookup' # None => lookup' \in [at : 0..Len(history'), listed : BOOLEAN]
    BY <1>1, <1>2 DEF RoomsInv, RoomsTypes
  <2> QED BY <1>1, <1>2, <2>1, <2>2 DEF RoomsInv, RoomsTypes
<1>5. ServerOK'
  <2> SUFFICES ASSUME NEW i \in 1..Len(history'), NEW u \in Members, IsAbout(history'[i], u),
                      history'[i].membership = "invite"
               PROVE  StateIn(history', i - 1, u) # "join"
    BY <1>1, StatePrimed DEF ServerOK, IsAbout
  <2>1. i - 1 \in 0..Len(history)
    BY <1>1, <1>2
  <2>2. StateIn(history', i - 1, u) = StateIn(history, i - 1, u)
    BY <1>3, <2>1
  <2>3. CASE i \in 1..Len(history)
    BY <1>2, <2>2, <2>3 DEF RoomsInv, ServerOK
  <2>4. CASE i = Len(history) + 1
    <3>1. e.kind = "member" /\ e.membership = "invite" /\ e.user = u
      BY <1>2, <2>4 DEF IsAbout
    <3>2. MembershipAt(Len(history))[u].state # "join"
      BY <3>1 DEF ServerEvent
    <3> QED BY <1>1, <2>2, <2>4, <3>2, ServerState
  <2> QED BY <1>2, <1>1, <2>3, <2>4
<1>6. InvitationsCurrent'
  BY <1>1, <1>3, RoomStays, StatePrimed DEF RoomsInv, InvitationsCurrent
<1>7. ListCurrent'
  <2> SUFFICES ASSUME lookup # None, lookup.listed, ~overtaken, NEW i \in (lookup.at + 1)..delivered
               PROVE  history'[i].kind # "member"
    BY <1>1 DEF ListCurrent
  <2>1. history[i].kind # "member" /\ i \in 1..Len(history)
    BY <1>1 DEF RoomsInv, ListCurrent, RoomsTypes
  <2> QED BY <1>2, <2>1
<1>8. AtLeastCurrent'
  <2> SUFFICES ASSUME roomSynced, ~overtaken, NEW u \in Members
               PROVE  \E m \in delivered..Len(history') : StandsAt(m, u)'
    BY <1>1 DEF AtLeastCurrent
  <2>1. PICK m \in delivered..Len(history) : StandsAt(m, u)
    BY DEF RoomsInv, AtLeastCurrent
  <2>2. m \in 0..Len(history) /\ m \in delivered..Len(history')
    BY <1>1, <1>2
  <2>3. Joins(Room, u)' <=> Joins(Room, u)
    BY <1>1, RoomStays
  <2>4. StateIn(history, m, u)' = StateIn(history, m, u)
    BY <1>1, <1>3, <2>2, StatePrimed
  <2>5. StandsAt(m, u)'
    BY <2>1, <2>3, <2>4 DEF StandsAt
  <2> QED BY <2>2, <2>5
<1> QED BY <1>1, <1>4, <1>5, <1>6, <1>7, <1>8, RoomStays DEF RoomsInv

(* The state read at a moment of an unchanged log. *)
LEMMA LogStays ==
    ASSUME UNCHANGED <<founders, history>>
    PROVE  /\ \A n, u : StateIn(history, n, u)' = StateIn(history, n, u)
           /\ \A u : StateIn(history, delivered, u)' = StateIn(history, delivered', u)
  BY DEF StateIn, StateBy, EventsAbout

LEMMA ServerStays ==
    ASSUME RoomsInv, UNCHANGED <<founders, history>>
    PROVE  ServerOK'
  BY LogStays DEF RoomsInv, ServerOK, IsAbout

(* Only the call changes. *)
LEMMA LookupChanges ==
    ASSUME RoomsInv,
           UNCHANGED <<founders, history, delivered, users, invitedUsers, names, powerLevels,
                       roomSynced, overtaken>>,
           lookup' # None => lookup' \in [at : 0..Len(history), listed : BOOLEAN],
           ListCurrent'
    PROVE  RoomsInv'
<1>1. RoomsTypes'
  BY DEF RoomsInv, RoomsTypes
<1>2. InvitationsCurrent'
  BY RoomStays, LogStays DEF RoomsInv, InvitationsCurrent
<1>3. AtLeastCurrent'
  <2> SUFFICES ASSUME roomSynced, ~overtaken, NEW u \in Members
               PROVE  \E m \in delivered..Len(history) : StandsAt(m, u)'
    BY DEF AtLeastCurrent
  <2>1. PICK m \in delivered..Len(history) : StandsAt(m, u)
    BY DEF RoomsInv, AtLeastCurrent
  <2>2. StandsAt(m, u)'
    BY <2>1, RoomStays, LogStays DEF StandsAt
  <2> QED BY <2>2
<1> QED BY <1>1, <1>2, <1>3, RoomStays, ServerStays DEF RoomsInv

LEMMA LookupsKeep ==
    ASSUME RoomsInv, JoinedMembers \/ MembersReplied \/ JoinedMembersIgnored \/ UNCHANGED roomsVars
    PROVE  RoomsInv'
<1> USE DEF RoomsInv
<1>0. delivered \in 0..Len(history) /\ Len(history) \in Nat
  BY DEF RoomsTypes
<1>1. CASE JoinedMembers
  <2>1. lookup' = Asked /\ Asked \in [at : 0..Len(history), listed : BOOLEAN] /\ ~Asked.listed
    BY <1>0, <1>1 DEF JoinedMembers, Asked
  <2> QED BY <1>1, <2>1, LookupChanges DEF JoinedMembers, ListCurrent
<1>2. CASE MembersReplied
  <2>1. /\ lookup' \in [at : 0..Len(history), listed : BOOLEAN]
        /\ lookup'.at = Len(history)
    BY <1>0, <1>2 DEF MembersReplied
  <2>2. ListCurrent'
    BY <1>0, <1>2, <2>1 DEF MembersReplied, ListCurrent
  <2> QED BY <1>2, <2>1, <2>2, LookupChanges DEF MembersReplied
<1>3. CASE JoinedMembersIgnored
  BY <1>3, LookupChanges DEF JoinedMembersIgnored, ListCurrent
<1>4. CASE UNCHANGED roomsVars
  <2>1. ListCurrent'
    BY <1>4 DEF roomsVars, ListCurrent
  <2> QED BY <1>4, <2>1, LookupChanges DEF roomsVars, RoomsTypes
<1> QED BY <1>1, <1>2, <1>3, <1>4

LEMMA ForgetKeeps ==
    ASSUME RoomsInv, RoomForget
    PROVE  RoomsInv'
<1>1. names \in NameTables
  BY DEF RoomsInv, RoomOK, Room, RoomRecords
<1>2. /\ users' = [u \in Members |-> None] /\ invitedUsers' = {}
      /\ names' = [x \in Members \cup DisplayNames |-> [u \in Members |-> 0]]
      /\ powerLevels' = [u \in Members |-> None] /\ roomSynced' = FALSE
      /\ UNCHANGED <<founders, history, delivered, lookup, overtaken>>
  BY <1>1 DEF RoomForget, Become, NameTables
<1>3. (Room \in RoomRecords)'
  BY <1>2 DEF Room, RoomRecords, NameTables
<1>4. IndexOK(Room)'
  BY <1>2 DEF Room, IndexOK
<1>5. InvitedOK(Room)' /\ LevelsOK(Room)'
  BY <1>2 DEF Room, InvitedOK, LevelsOK
<1>6. RoomsTypes'
  BY <1>2 DEF RoomsInv, RoomsTypes
<1>7. InvitationsCurrent' /\ AtLeastCurrent'
  BY <1>2 DEF InvitationsCurrent, AtLeastCurrent, Invites, Room
<1>8. ListCurrent'
  BY <1>2 DEF RoomsInv, ListCurrent
<1> QED BY <1>2, <1>3, <1>4, <1>5, <1>6, <1>7, <1>8, ServerStays DEF RoomsInv, RoomOK

(* What the membership of u becomes by a member event. *)
Moves(e, u) ==
    /\ e.membership = "leave" => ~Joins(Room, u)' /\ ~Invites(Room, u)'
    /\ e.membership = "join" => Joins(Room, u)' /\ ~Invites(Room, u)'
    /\ e.membership = "invite" =>
        \/ Invites(Room, u)' /\ ~Joins(Room, u)'
        \/ Joins(Room, u) /\ Joins(Room, u)' /\ ~Invites(Room, u)'

LEMMA Advances ==
    ASSUME RoomsInv, HandleEvent, RoomOK(Room)', powerLevels' \in [Members -> {50, None}],
           \A u \in Members :
                IF IsAbout(history[delivered + 1], u) THEN Moves(history[delivered + 1], u)
                ELSE (Joins(Room, u)' <=> Joins(Room, u)) /\ (Invites(Room, u)' <=> Invites(Room, u))
    PROVE  RoomsInv'
<1> DEFINE next == delivered + 1
           e == history[next]
<1>1. /\ delivered \in 0..Len(history) /\ Len(history) \in Nat /\ delivered < Len(history)
      /\ delivered' = next /\ delivered \in Nat /\ next \in 1..Len(history)
      /\ UNCHANGED <<founders, history, roomSynced, lookup>>
      /\ overtaken' = (overtaken \/ (e.kind = "member" /\ lookup # None /\ lookup.listed))
  BY DEF RoomsInv, RoomsTypes, HandleEvent
<1>2. e \in ServerEvents
  BY <1>1, ElementOfSeq DEF RoomsInv, RoomsTypes
<1>3. \A u \in Members : IsAbout(e, u) => e.membership \in {"join", "invite", "leave"}
  BY <1>2 DEF ServerEvents, MemberEvents, LevelEvents, FieldEvents, FieldKinds, IsAbout
<1>4. \A u : IF IsAbout(e, u) THEN StateIn(history, next, u) = e.membership
             ELSE StateIn(history, next, u) = StateIn(history, delivered, u)
  BY <1>1, StateSet, StateKept
<1>5. RoomsTypes'
  <2>1. overtaken' \in BOOLEAN
    BY <1>1 DEF RoomsInv, RoomsTypes
  <2> QED BY <1>1, <2>1 DEF RoomsInv, RoomsTypes
<1>6. InvitationsCurrent'
  <2> SUFFICES ASSUME NEW u \in Members, Invites(Room, u)' PROVE StateIn(history, next, u) = "invite"
    BY <1>1, LogStays DEF InvitationsCurrent
  <2>1. CASE IsAbout(e, u)
    BY <1>3, <1>4, <2>1 DEF Moves
  <2>2. CASE ~IsAbout(e, u)
    BY <1>4, <2>2 DEF RoomsInv, InvitationsCurrent
  <2> QED BY <2>1, <2>2
<1>7. ListCurrent'
  <2> SUFFICES ASSUME lookup # None, lookup.listed, ~overtaken', NEW i \in (lookup.at + 1)..next
               PROVE  history[i].kind # "member"
    BY <1>1 DEF ListCurrent
  <2>1. ~overtaken /\ e.kind # "member"
    BY <1>1
  <2>2. lookup.at \in Nat
    BY DEF RoomsInv, RoomsTypes
  <2>3. i \in (lookup.at + 1)..delivered \/ i = next
    BY <1>1, <2>2
  <2> QED BY <2>1, <2>3 DEF RoomsInv, ListCurrent
<1>8. AtLeastCurrent'
  <2> SUFFICES ASSUME roomSynced, ~overtaken, NEW u \in Members
               PROVE  \E m \in next..Len(history) : Joins(Room, u)' <=> StateIn(history, m, u) = "join"
    <3>1. \A u \in Members : \A m : StandsAt(m, u)' <=> (Joins(Room, u)' <=> StateIn(history, m, u) = "join")
      BY <1>1, LogStays DEF StandsAt
    <3> QED BY <1>1, <3>1 DEF AtLeastCurrent
  <2>1. PICK m \in delivered..Len(history) : Joins(Room, u) <=> StateIn(history, m, u) = "join"
    BY DEF RoomsInv, AtLeastCurrent, StandsAt
  <2>2. next \in next..Len(history) /\ (m # delivered => m \in next..Len(history))
    BY <1>1
  <2>3. CASE ~IsAbout(e, u)
    BY <1>4, <2>1, <2>2, <2>3
  <2>4. CASE IsAbout(e, u) /\ Joins(Room, u)' /\ e.membership = "invite"
    <3>1. Joins(Room, u)
      BY <2>4 DEF Moves
    <3>2. StateIn(history, delivered, u) # "join"
      BY <1>1, <2>4 DEF RoomsInv, ServerOK
    <3> QED BY <2>1, <2>2, <2>4, <3>1, <3>2
  <2>5. CASE IsAbout(e, u) /\ ~(Joins(Room, u)' /\ e.membership = "invite")
    BY <1>3, <1>4, <2>2, <2>5 DEF Moves
  <2> QED BY <2>3, <2>4, <2>5
<1> QED BY <1>1, <1>5, <1>6, <1>7, <1>8, ServerStays DEF RoomsInv

LEMMA HandleEventKeeps ==
    ASSUME RoomsInv, HandleEvent
    PROVE  RoomsInv'
<1> DEFINE e == history[delivered + 1]
<1>1. /\ delivered \in 0..Len(history) /\ delivered < Len(history) /\ delivered' = delivered + 1
      /\ history \in Seq(ServerEvents)
      /\ powerLevels \in [Members -> {50, None}] /\ RoomOK(Room) /\ Room \in RoomRecords
  BY DEF RoomsInv, RoomsTypes, HandleEvent, RoomOK
<1>2. e \in ServerEvents
  BY <1>1, ElementOfSeq
<1>3. /\ IF e.kind = "member" THEN Become(HandleMembership(Room, e))
         ELSE IF e.kind = "levels"
         THEN /\ users' = IF users[e.user] = None THEN users ELSE [users EXCEPT ![e.user].level = e.level]
              /\ UNCHANGED <<invitedUsers, names>>
         ELSE UNCHANGED <<users, invitedUsers, names>>
      /\ powerLevels' = IF e.kind = "levels" THEN [powerLevels EXCEPT ![e.user] = e.level] ELSE powerLevels
  BY <1>1 DEF HandleEvent
<1> HIDE DEF e
<1>4. CASE e.kind = "member"
  <2>1. e \in MemberEvents
    BY <1>2, <1>4 DEF ServerEvents, LevelEvents, FieldEvents, FieldKinds
  <2>2. PICK after : after = HandleMembership(Room, e)
    OBVIOUS
  <2>3. /\ RoomOK(after)
        /\ \A v \in Members \ {e.user} : after.users[v] = Room.users[v]
        /\ e.membership = "leave" => after.users[e.user] = None
        /\ e.membership = "join" => Joins(after, e.user)
        /\ e.membership = "invite" => Invites(after, e.user) \/ (Joins(Room, e.user) /\ after = Room)
    BY <1>1, <2>1, <2>2, MembershipHandled
  <2>4. Room' = after
    <3>1. after = [users |-> after.users, invited |-> after.invited, names |-> after.names]
      BY <2>3 DEF RoomOK, RoomRecords
    <3>2. users' = after.users /\ invitedUsers' = after.invited /\ names' = after.names
      BY <1>3, <1>4, <2>2 DEF Become
    <3> QED BY <3>1, <3>2 DEF Room
  <2>5. powerLevels' = powerLevels
    BY <1>3, <1>4
  <2>6. RoomOK(Room)'
    BY <2>3, <2>4, <2>5 DEF RoomOK, IndexOK, InvitedOK, LevelsOK
  <2>7. ASSUME NEW u \in Members
        PROVE  IF IsAbout(e, u) THEN Moves(e, u)
               ELSE (Joins(Room, u)' <=> Joins(Room, u)) /\ (Invites(Room, u)' <=> Invites(Room, u))
    <3>1. (Joins(Room, u)' <=> Joins(after, u)) /\ (Invites(Room, u)' <=> Invites(after, u))
      BY <2>4 DEF Joins, Invites
    <3>2. CASE ~IsAbout(e, u)
      BY <1>4, <2>3, <3>1, <3>2 DEF IsAbout, Joins, Invites
    <3>3. CASE IsAbout(e, u)
      BY <2>3, <3>1, <3>3 DEF IsAbout, Joins, Invites, Moves
    <3> QED BY <3>2, <3>3
  <2> QED BY <1>1, <2>5, <2>6, <2>7, Advances DEF e
<1>5. CASE e.kind # "member"
  <2>1. \A u \in Members : ~IsAbout(e, u)
    BY <1>5 DEF IsAbout
  <2>2. /\ users \in [Members -> UserRecords \cup {None}]
        /\ Room.users = users /\ Room.names = names /\ Room.invited = invitedUsers
        /\ Room'.users = users' /\ Room'.names = names' /\ Room'.invited = invitedUsers'
    BY <1>1 DEF Room, RoomRecords
  <2>3. e.kind = "levels" => e.user \in Members /\ e.level = 50
    BY <1>2 DEF ServerEvents, MemberEvents, LevelEvents, FieldEvents, FieldKinds
  <2>4. powerLevels' \in [Members -> {50, None}]
    BY <1>1, <1>3, <2>3
  <2>5. invitedUsers' = invitedUsers /\ names' = names
    BY <1>3, <1>5
  <2>6. /\ users' \in [Members -> UserRecords \cup {None}]
        /\ \A u \in Members :
            /\ users'[u] = None <=> users[u] = None
            /\ users[u] # None => users'[u].name = users[u].name /\ users'[u].invited = users[u].invited
            /\ users'[u] # None /\ powerLevels'[u] # None => users'[u].level = powerLevels'[u]
    <3>1. \A u \in Members : users[u] # None /\ powerLevels[u] # None => users[u].level = powerLevels[u]
      BY <1>1, <2>2 DEF RoomOK, LevelsOK
    <3>2. CASE e.kind = "levels" /\ users[e.user] # None
      <4>1. users[e.user] \in UserRecords
        BY <2>2, <2>3, <3>2
      <4>2. PICK user : user = [users[e.user] EXCEPT !.level = 50]
        OBVIOUS
      <4>3. user \in UserRecords /\ user # None /\ user.level = 50
            /\ user.name = users[e.user].name /\ user.invited = users[e.user].invited
        BY <4>1, <4>2, UsersAssumption DEF UserRecords
      <4>4. users' = [users EXCEPT ![e.user] = user]
        BY <1>3, <1>5, <2>3, <3>2, <4>2
      <4>5. powerLevels' = [powerLevels EXCEPT ![e.user] = 50]
        BY <1>3, <2>3, <3>2
      <4> QED BY <1>1, <2>2, <2>3, <3>1, <3>2, <4>3, <4>4, <4>5
    <3>3. CASE e.kind = "levels" /\ users[e.user] = None
      BY <1>1, <1>3, <1>5, <2>2, <2>3, <3>1, <3>3, ZenonT(40)
    <3>4. CASE e.kind # "levels"
      BY <1>3, <1>5, <2>2, <3>1, <3>4
    <3> QED BY <3>2, <3>3, <3>4
  <2>7. (Room \in RoomRecords)'
    BY <1>1, <2>2, <2>5, <2>6 DEF Room, RoomRecords
  <2>8. IndexOK(Room)'
    BY <1>1, <2>2, <2>5, <2>6 DEF RoomOK, IndexOK
  <2>9. InvitedOK(Room)'
    BY <1>1, <2>2, <2>5, <2>6 DEF RoomOK, InvitedOK
  <2>10. LevelsOK(Room)'
    BY <2>2, <2>6 DEF LevelsOK
  <2>11. ASSUME NEW u \in Members
         PROVE  (Joins(Room, u)' <=> Joins(Room, u)) /\ (Invites(Room, u)' <=> Invites(Room, u))
    BY <2>2, <2>6 DEF Joins, Invites
  <2> QED BY <2>1, <2>4, <2>7, <2>8, <2>9, <2>10, <2>11, Advances DEF e, RoomOK
<1> QED BY <1>4, <1>5

LEMMA JoinedMembersKeep ==
    ASSUME RoomsInv, HandleJoinedMembers
    PROVE  RoomsInv'
<1> DEFINE n == lookup.at
           corrected == [u \in Members |-> Corrected(u, n)]
<1>1. /\ delivered \in 0..Len(history) /\ Len(history) \in Nat /\ delivered \in Nat
      /\ powerLevels \in [Members -> {50, None}] /\ RoomOK(Room) /\ Room \in RoomRecords
      /\ n \in 0..Len(history)
  BY DEF RoomsInv, RoomsTypes, RoomOK, HandleJoinedMembers
<1>2. /\ users' = [u \in Members |-> corrected[u].users[u]]
      /\ invitedUsers' = {u \in Members : u \in corrected[u].invited}
      /\ names' = [x \in DOMAIN names |-> [u \in Members |-> corrected[u].names[x][u]]]
      /\ UNCHANGED <<founders, history, delivered, powerLevels, overtaken>>
      /\ roomSynced' = TRUE /\ lookup' = None
  BY DEF HandleJoinedMembers
<1>3. /\ Room.users = users /\ Room.names = names /\ Room.invited = invitedUsers
      /\ Room'.users = users' /\ Room'.names = names' /\ Room'.invited = invitedUsers'
      /\ names \in NameTables /\ users \in [Members -> UserRecords \cup {None}]
  BY <1>1 DEF Room, RoomRecords
<1>4. ASSUME NEW u \in Members
      PROVE  /\ RoomOK(Corrected(u, n))
             /\ Joins(Corrected(u, n), u) <=>
                    MembershipAt(n)[u].state = "join" /\ ~Invites(Room, u)
             /\ Invites(Corrected(u, n), u) <=> Invites(Room, u)
  <2>1. u \in Gone(n) <=> Joins(Room, u) /\ MembershipAt(n)[u].state # "join"
    BY <1>3 DEF Gone, JoinedAt, Joins
  <2>2. u \in JoinedAt(n) <=> MembershipAt(n)[u].state = "join"
    BY DEF JoinedAt
  <2>3. CASE u \in Gone(n)
    <3>1. Corrected(u, n) = RemoveMember(Room, u)
      BY <2>3 DEF Corrected
    <3>2. PICK after : after = RemoveMember(Room, u)
      OBVIOUS
    <3>3. RoomOK(after) /\ after.users = [Room.users EXCEPT ![u] = None]
      BY <1>1, <3>2, Removed
    <3>4. after.users[u] = None
      BY <1>3, <3>3
    <3> QED BY <2>1, <2>3, <3>1, <3>2, <3>3, <3>4 DEF Joins, Invites
  <2>4. CASE u \notin Gone(n) /\ u \in JoinedAt(n)
    <3>1. PICK display \in Displays : display = MembershipAt(n)[u].name
      <4>1. MembershipAt(n)[u].name \in Displays
        <5>1. history \in Seq(MemberEvents \cup LevelEvents \cup FieldEvents)
          BY DEF RoomsInv, RoomsTypes, ServerEvents
        <5> QED BY <1>1, <5>1, ServerName
      <4> QED BY <4>1
    <3>2. Corrected(u, n) = AddMember(Room, u, display, FALSE)
      BY <2>4, <3>1 DEF Corrected
    <3>3. PICK after : after = AddMember(Room, u, display, FALSE)
      OBVIOUS
    <3>4. /\ RoomOK(after)
          /\ Room.users[u] # None => after = Room
          /\ Room.users[u] = None => after.users[u] # None /\ ~after.users[u].invited
      BY <1>1, <3>3, AddedJoined, ZenonT(40)
    <3> QED BY <2>1, <2>2, <2>4, <3>2, <3>3, <3>4 DEF Joins, Invites
  <2>5. CASE u \notin Gone(n) /\ u \notin JoinedAt(n)
    <3>1. Corrected(u, n) = Room
      BY <2>5 DEF Corrected
    <3> QED BY <1>1, <2>1, <2>2, <2>5, <3>1 DEF Joins, Invites
  <2> QED BY <2>3, <2>4, <2>5
<1>5. \A u \in Members :
        /\ RoomOK(corrected[u]) /\ corrected[u] \in RoomRecords
        /\ Joins(corrected[u], u) <=> MembershipAt(n)[u].state = "join" /\ ~Invites(Room, u)
        /\ Invites(corrected[u], u) <=> Invites(Room, u)
  BY <1>4 DEF RoomOK
<1> HIDE DEF corrected
<1>6. /\ users' \in [Members -> UserRecords \cup {None}] /\ invitedUsers' \in SUBSET Members
      /\ names' \in NameTables
      /\ \A u \in Members :
            /\ users'[u] = corrected[u].users[u]
            /\ u \in invitedUsers' <=> u \in corrected[u].invited
            /\ \A x \in Members \cup DisplayNames : names'[x][u] = corrected[u].names[x][u]
  BY <1>2, <1>3, <1>5 DEF RoomRecords, NameTables
<1>7. (Room \in RoomRecords)'
  BY <1>6 DEF Room, RoomRecords
<1>8. IndexOK(Room)'
  BY <1>3, <1>5, <1>6 DEF RoomOK, IndexOK
<1>9. InvitedOK(Room)'
  BY <1>3, <1>5, <1>6 DEF RoomOK, InvitedOK
<1>10. LevelsOK(Room)'
  BY <1>2, <1>3, <1>5, <1>6 DEF RoomOK, LevelsOK
<1>11. \A u \in Members :
        /\ Joins(Room, u)' <=> StateIn(history, n, u) = "join" /\ ~Invites(Room, u)
        /\ Invites(Room, u)' <=> Invites(Room, u)
  BY <1>3, <1>5, <1>6, ServerState DEF Joins, Invites
<1>12. RoomsTypes'
  BY <1>2 DEF RoomsInv, RoomsTypes
<1>13. InvitationsCurrent'
  BY <1>2, <1>11, LogStays DEF RoomsInv, InvitationsCurrent
<1>14. ListCurrent'
  BY <1>2 DEF ListCurrent
<1>15. AtLeastCurrent'
  <2> SUFFICES ASSUME ~overtaken, NEW u \in Members
               PROVE  \E m \in delivered..Len(history) : Joins(Room, u)' <=> StateIn(history, m, u) = "join"
    <3>1. \A v \in Members : \A m : StandsAt(m, v)' <=> (Joins(Room, v)' <=> StateIn(history, m, v) = "join")
      BY <1>2, LogStays DEF StandsAt
    <3> QED BY <1>2, <3>1 DEF AtLeastCurrent
  <2>1. CASE Invites(Room, u)
    <3>1. StateIn(history, delivered, u) = "invite"
      BY <2>1 DEF RoomsInv, InvitationsCurrent
    <3> QED BY <1>1, <1>11, <2>1, <3>1
  <2>2. CASE ~Invites(Room, u) /\ delivered <= n
    BY <1>1, <1>11, <2>2
  <2>3. CASE ~Invites(Room, u) /\ n < delivered
    <3>1. \A i \in (n + 1)..delivered : ~IsAbout(history[i], u)
      BY DEF RoomsInv, ListCurrent, HandleJoinedMembers, IsAbout
    <3>2. StateIn(history, delivered, u) = StateIn(history, n, u)
      BY <1>1, <2>3, <3>1, StateSame
    <3> QED BY <1>1, <1>11, <2>3, <3>2
  <2> QED BY <1>1, <2>1, <2>2, <2>3
<1> QED BY <1>2, <1>7, <1>8, <1>9, <1>10, <1>12, <1>13, <1>14, <1>15, ServerStays DEF RoomsInv, RoomOK

(* The client's picture of the room agrees with itself through joins,      *)
(* invitations, renames, departures and member lists, and with the         *)
(* server's once a list was applied and sync has caught up, unless the     *)
(* list was overtaken by a membership event.                               *)
THEOREM RoomsConsistent == RoomsSpec => []RoomConsistent
<1>1. RoomsInv /\ [RoomsNext]_roomsVars => RoomsInv'
  BY ServerEventKeeps, HandleEventKeeps, ForgetKeeps, LookupsKeep, JoinedMembersKeep
  DEF RoomsNext, ServerEvents
<1> QED BY <1>1, RoomsStart, RoomsRight, PTL DEF RoomsSpec

-----------------------------------------------------------------------------
(* The loop of sync *)

PollerStates == {"resting", "asked", "answered", "handling"}

PollerRecords == [pc : PollerStates, since : Nat, left : Seq(Nat), secret : BOOLEAN]

SyncTypes ==
    /\ stream \in Nat /\ nextBatch \in Nat /\ loadedToken \in Nat /\ savedToken \in Nat
    /\ inFlight \in BOOLEAN /\ secretKnown \in BOOLEAN /\ secretSaved \in BOOLEAN
    /\ poller \in [Pollers -> PollerRecords]
    /\ shown \in Seq(Nat)

(* One request at a time, and only while it is claimed. *)
OnePoll ==
    \A p \in Pollers : poller[p].pc # "resting" =>
        inFlight /\ \A q \in Pollers : poller[q].pc # "resting" => q = p

(* The client goes on from the stored token. *)
TokensAgree ==
    /\ Since = savedToken /\ savedToken <= stream
    /\ secretKnown = secretSaved

(* A request asks from the stored token, its answer goes on from there; a  *)
(* response at work still has the last events before the stored token.     *)
LeftOK(p) ==
    LET left == poller[p].left
    IN  /\ poller[p].pc \in {"asked", "answered"} => poller[p].since = savedToken
        /\ poller[p].pc = "answered" => \A i \in DOMAIN left : left[i] = savedToken + i
        /\ poller[p].pc = "answered" => savedToken + Len(left) <= stream
        /\ poller[p].pc = "handling" =>
            /\ Len(left) <= savedToken
            /\ \A i \in DOMAIN left : left[i] = savedToken - Len(left) + i
            /\ \A j \in DOMAIN shown : shown[j] <= savedToken - Len(left)

ShownOK == \A j \in DOMAIN shown : shown[j] <= savedToken

SyncInv ==
    /\ SyncTypes /\ OnePoll /\ TokensAgree /\ ShownOK
    /\ \A p \in Pollers : LeftOK(p)
    /\ OrdinaryDelivery

LEMMA Appended ==
    ASSUME NEW s \in Seq(Nat), NEW e \in Nat
    PROVE  /\ Append(s, e) \in Seq(Nat) /\ DOMAIN Append(s, e) = 1..(Len(s) + 1)
           /\ DOMAIN s = 1..Len(s) /\ Len(s) \in Nat
           /\ \A i \in 1..Len(s) : Append(s, e)[i] = s[i]
           /\ Append(s, e)[Len(s) + 1] = e
  OBVIOUS

LEMMA Rest ==
    ASSUME NEW s \in Seq(Nat), s # <<>>
    PROVE  /\ Tail(s) \in Seq(Nat) /\ Len(Tail(s)) = Len(s) - 1 /\ Len(s) \in Nat \ {0}
           /\ DOMAIN Tail(s) = 1..(Len(s) - 1) /\ DOMAIN s = 1..Len(s)
           /\ \A i \in 1..(Len(s) - 1) : Tail(s)[i] = s[i + 1]
           /\ Head(s) = s[1] /\ Head(s) \in Nat
  OBVIOUS

LEMMA PollerUpdates ==
    ASSUME NEW r \in PollerRecords
    PROVE  /\ r.pc \in PollerStates /\ r.since \in Nat /\ r.left \in Seq(Nat) /\ r.secret \in BOOLEAN
           /\ \A pc \in PollerStates, left \in Seq(Nat), secret \in BOOLEAN :
                /\ [r EXCEPT !.pc = pc] \in PollerRecords
                /\ [r EXCEPT !.pc = pc, !.left = left] \in PollerRecords
                /\ [r EXCEPT !.left = left, !.secret = secret] \in PollerRecords
  BY DEF PollerRecords

LEMMA RestingType ==
    /\ Resting \in PollerRecords /\ Resting.pc = "resting" /\ Resting.left = <<>>
    /\ \A n \in Nat : [Resting EXCEPT !.pc = "asked", !.since = n] \in PollerRecords
<1>1. <<>> \in Seq(Nat)
  OBVIOUS
<1> QED BY <1>1 DEF Resting, PollerRecords, PollerStates

Alone(p) == \A q \in Pollers : q # p => poller[q].pc = "resting"

(* Whoever takes a step is the only one that does not rest. *)
LEMMA PollerAlone ==
    ASSUME OnePoll, NEW p \in Pollers, poller[p].pc # "resting" \/ ~inFlight
    PROVE  Alone(p)
  BY DEF OnePoll, Alone

(* The step of one poller. *)
LEMMA PollerStep ==
    ASSUME SyncTypes, NEW p \in Pollers, NEW r \in PollerRecords, Alone(p),
           poller' = [poller EXCEPT ![p] = r], inFlight' = (r.pc # "resting")
    PROVE  /\ poller' \in [Pollers -> PollerRecords] /\ poller'[p] = r
           /\ OnePoll' /\ \A q \in Pollers : q # p => LeftOK(q)'
           /\ Handling = IF poller[p].pc = "handling" THEN {p} ELSE {}
           /\ Handling' = IF r.pc = "handling" THEN {p} ELSE {}
<1>1. poller' \in [Pollers -> PollerRecords] /\ poller'[p] = r
      /\ \A q \in Pollers : q # p => poller'[q] = poller[q]
  BY DEF SyncTypes
<1>2. \A q \in Pollers : q # p => poller'[q].pc = "resting"
  BY <1>1 DEF Alone
<1>3. OnePoll'
  BY <1>1, <1>2 DEF OnePoll
<1>4. \A q \in Pollers : q # p => LeftOK(q)'
  BY <1>2 DEF LeftOK
<1> QED BY <1>1, <1>2, <1>3, <1>4 DEF Handling, Alone

LEMMA DeliveryKept ==
    ASSUME OrdinaryDelivery, UNCHANGED <<savedToken, shown, dropped, secretKnown>>,
           Handling' = Handling, \A q \in Handling : poller'[q] = poller[q]
    PROVE  OrdinaryDelivery'
<1>1. OrdinaryAtMostOnce'
  BY DEF OrdinaryDelivery, OrdinaryAtMostOnce
<1>2. OrdinaryLossExcused'
  BY DEF OrdinaryDelivery, OrdinaryLossExcused
<1>3. EncryptionRemembered'
  BY DEF OrdinaryDelivery, EncryptionRemembered
<1> QED BY <1>1, <1>2, <1>3 DEF OrdinaryDelivery

LEMMA SyncInitially == SyncLoopInit => SyncInv
<1> SUFFICES ASSUME SyncLoopInit PROVE SyncInv
  OBVIOUS
<1>1. \A p \in Pollers : poller[p] = Resting /\ poller[p].pc = "resting"
  BY RestingType DEF SyncLoopInit
<1>2. SyncTypes
  <2>1. shown \in Seq(Nat)
    BY DEF SyncLoopInit
  <2> QED BY <2>1, RestingType DEF SyncLoopInit, SyncTypes
<1>3. OnePoll /\ \A p \in Pollers : LeftOK(p)
  BY <1>1 DEF OnePoll, LeftOK
<1>4. TokensAgree /\ ShownOK /\ OrdinaryDelivery
  <2>1. DOMAIN shown = {}
    BY DOMAIN <<>> = {} DEF SyncLoopInit
  <2>2. \A e \in 1..savedToken : FALSE
    <3>1. savedToken = 0
      BY DEF SyncLoopInit
    <3> QED BY <3>1
  <2>3. TokensAgree
    <3>1. Since = savedToken /\ savedToken <= stream
      BY DEF SyncLoopInit, Since
    <3>2. secretKnown = secretSaved
      BY Zenon DEF SyncLoopInit
    <3> QED BY <3>1, <3>2 DEF TokensAgree
  <2>4. ShownOK /\ OrdinaryAtMostOnce /\ OrdinaryLossExcused /\ EncryptionRemembered
    <3>1. ShownOK
      BY <2>1 DEF ShownOK
    <3>2. OrdinaryAtMostOnce
      BY <2>1 DEF OrdinaryAtMostOnce
    <3>3. OrdinaryLossExcused
      BY <2>2 DEF OrdinaryLossExcused
    <3>4. EncryptionRemembered
      BY <2>1 DEF EncryptionRemembered
    <3> QED BY <3>1, <3>2, <3>3, <3>4
  <2> QED BY <2>3, <2>4 DEF OrdinaryDelivery
<1> QED BY <1>2, <1>3, <1>4 DEF SyncInv

LEMMA KeepGrows == SyncInv /\ StreamGrows => SyncInv'
<1> SUFFICES ASSUME SyncInv, StreamGrows PROVE SyncInv'
  OBVIOUS
<1>1. /\ stream \in Nat /\ stream' = stream + 1
      /\ UNCHANGED <<nextBatch, loadedToken, savedToken, inFlight, poller, secretKnown, secretSaved,
                     shown, dropped, breaks>>
  BY DEF SyncInv, SyncTypes, StreamGrows
<1>2. SyncTypes' /\ OnePoll' /\ ShownOK'
  BY <1>1 DEF SyncInv, SyncTypes, OnePoll, ShownOK
<1>3. TokensAgree'
  BY <1>1 DEF SyncInv, SyncTypes, TokensAgree, Since
<1>4. ASSUME NEW p \in Pollers PROVE LeftOK(p)'
  <2>1. LeftOK(p) /\ poller[p] \in PollerRecords
    BY DEF SyncInv, SyncTypes
  <2>2. savedToken \in Nat /\ Len(poller[p].left) \in Nat
    <3>1. poller[p].left \in Seq(Nat)
      BY <2>1, PollerUpdates
    <3> QED BY <3>1 DEF SyncInv, SyncTypes
  <2> QED BY <1>1, <2>1, <2>2 DEF LeftOK
<1>5. OrdinaryDelivery'
  BY <1>1, DeliveryKept DEF SyncInv, Handling
<1> QED BY <1>2, <1>3, <1>4, <1>5 DEF SyncInv

LEMMA KeepRestart == SyncInv /\ RestartClient => SyncInv'
<1> SUFFICES ASSUME SyncInv, RestartClient PROVE SyncInv'
  OBVIOUS
<1>1. /\ nextBatch' = 0 /\ loadedToken' = savedToken /\ inFlight' = FALSE
      /\ poller' = [p \in Pollers |-> Resting] /\ secretKnown' = secretSaved
      /\ UNCHANGED <<stream, savedToken, secretSaved, shown>>
  BY DEF RestartClient
<1>2. /\ dropped \subseteq dropped'
      /\ \A p \in Handling : /\ \A i \in DOMAIN poller[p].left : poller[p].left[i] \in dropped'
                             /\ poller[p].secret => Secret \in dropped'
  BY DEF RestartClient, Handling
<1>3. \A p \in Pollers : poller'[p] = Resting /\ poller'[p].pc = "resting"
  BY <1>1, RestingType
<1>4. SyncTypes'
  BY <1>1, RestingType DEF SyncInv, SyncTypes
<1>5. OnePoll' /\ \A p \in Pollers : LeftOK(p)'
  BY <1>3 DEF OnePoll, LeftOK
<1>6. TokensAgree' /\ ShownOK'
  BY <1>1 DEF SyncInv, SyncTypes, TokensAgree, ShownOK, Since
<1>7. OrdinaryAtMostOnce'
  BY <1>1 DEF SyncInv, OrdinaryDelivery, OrdinaryAtMostOnce
<1>8. OrdinaryLossExcused'
  BY <1>1, <1>2 DEF SyncInv, OrdinaryDelivery, OrdinaryLossExcused
<1>9. EncryptionRemembered'
  <2>1. secretKnown = secretSaved
    BY DEF SyncInv, TokensAgree
  <2>2. EncryptionRemembered
    BY DEF SyncInv, OrdinaryDelivery
  <2> QED BY <1>1, <1>2, <2>1, <2>2, Zenon DEF EncryptionRemembered
<1> QED BY <1>4, <1>5, <1>6, <1>7, <1>8, <1>9 DEF SyncInv, OrdinaryDelivery

LEMMA KeepSync == \A p \in Pollers : SyncInv /\ Sync(p) => SyncInv'
<1> SUFFICES ASSUME NEW p \in Pollers, SyncInv, Sync(p) PROVE SyncInv'
  OBVIOUS
<1> DEFINE r == [Resting EXCEPT !.pc = "asked", !.since = Since]
<1>1. /\ ~inFlight /\ inFlight' = TRUE /\ poller' = [poller EXCEPT ![p] = r]
      /\ poller[p].pc = "resting"
      /\ UNCHANGED <<stream, nextBatch, loadedToken, savedToken, secretKnown, secretSaved, shown,
                     dropped, breaks>>
  BY DEF Sync, MayPoll
<1>2. Since = savedToken /\ savedToken \in Nat
  BY DEF SyncInv, SyncTypes, TokensAgree
<1>3. r \in PollerRecords /\ r.pc = "asked" /\ r.since = savedToken
  BY <1>2, RestingType DEF Resting
<1> HIDE DEF r
<1>4. /\ poller' \in [Pollers -> PollerRecords] /\ poller'[p] = r
      /\ OnePoll' /\ \A q \in Pollers : q # p => LeftOK(q)'
      /\ Handling = {} /\ Handling' = {}
  BY <1>1, <1>3, PollerAlone, PollerStep DEF SyncInv
<1>5. SyncTypes'
  BY <1>1, <1>4 DEF SyncInv, SyncTypes
<1>6. TokensAgree' /\ ShownOK'
  BY <1>1 DEF SyncInv, TokensAgree, ShownOK, Since
<1>7. LeftOK(p)'
  BY <1>1, <1>3, <1>4 DEF LeftOK
<1>8. OrdinaryDelivery'
  BY <1>1, <1>4, DeliveryKept DEF SyncInv
<1> QED BY <1>4, <1>5, <1>6, <1>7, <1>8 DEF SyncInv

LEMMA KeepAnswered == \A p \in Pollers : SyncInv /\ SyncAnswered(p) => SyncInv'
<1> SUFFICES ASSUME NEW p \in Pollers, SyncInv, SyncAnswered(p) PROVE SyncInv'
  OBVIOUS
<1>1. /\ poller[p].pc = "asked" /\ inFlight
      /\ UNCHANGED <<stream, nextBatch, loadedToken, savedToken, inFlight, secretKnown, secretSaved,
                     shown, dropped, breaks>>
  BY DEF SyncAnswered, SyncInv, OnePoll
<1>2. /\ poller[p].since = savedToken /\ savedToken <= stream /\ savedToken \in Nat
      /\ stream \in Nat /\ poller[p] \in PollerRecords
  BY <1>1 DEF SyncInv, SyncTypes, LeftOK, TokensAgree
<1>3. PICK left : left = [i \in 1..(stream - savedToken) |-> savedToken + i]
  OBVIOUS
<1>4. left \in Seq(Nat) /\ Len(left) = stream - savedToken /\ DOMAIN left = 1..(stream - savedToken)
  <2>1. stream - savedToken \in Nat
    BY <1>2
  <2> QED BY <1>2, <1>3, <2>1
<1>5. PICK r : r = [poller[p] EXCEPT !.pc = "answered", !.left = left]
  OBVIOUS
<1>6. poller' = [poller EXCEPT ![p] = r]
  BY <1>2, <1>3, <1>5 DEF SyncAnswered, SyncInv, SyncTypes
<1>7. r \in PollerRecords /\ r.pc = "answered" /\ r.left = left
  BY <1>2, <1>4, <1>5 DEF PollerRecords, PollerStates
<1>8. /\ poller' \in [Pollers -> PollerRecords] /\ poller'[p] = r
      /\ OnePoll' /\ \A q \in Pollers : q # p => LeftOK(q)'
      /\ Handling = {} /\ Handling' = {}
  BY <1>1, <1>6, <1>7, PollerAlone, PollerStep DEF SyncInv
<1>9. SyncTypes'
  BY <1>1, <1>8 DEF SyncInv, SyncTypes
<1>10. TokensAgree' /\ ShownOK'
  BY <1>1 DEF SyncInv, TokensAgree, ShownOK, Since
<1>11. poller[p].since = r.since
  BY <1>2, <1>5 DEF PollerRecords
<1>12. LeftOK(p)'
  BY <1>1, <1>2, <1>3, <1>4, <1>7, <1>8, <1>11 DEF LeftOK
<1>13. OrdinaryDelivery'
  BY <1>1, <1>8, DeliveryKept DEF SyncInv
<1> QED BY <1>8, <1>9, <1>10, <1>12, <1>13 DEF SyncInv

LEMMA KeepMissing == \A p \in Pollers : SyncInv /\ AnswerMissing(p) => SyncInv'
<1> SUFFICES ASSUME NEW p \in Pollers, SyncInv, AnswerMissing(p) PROVE SyncInv'
  OBVIOUS
<1>1. /\ poller[p].pc = "answered" /\ inFlight
      /\ UNCHANGED <<stream, nextBatch, loadedToken, savedToken, inFlight, secretKnown, secretSaved,
                     shown, dropped>>
  BY DEF AnswerMissing, SyncInv, OnePoll
<1>2. poller[p].since = savedToken /\ poller[p] \in PollerRecords
  BY <1>1 DEF SyncInv, SyncTypes, LeftOK
<1>3. PICK r : r = [poller[p] EXCEPT !.pc = "asked", !.left = <<>>]
  OBVIOUS
<1>4. poller' = [poller EXCEPT ![p] = r]
  BY <1>3 DEF AnswerMissing, SyncInv, SyncTypes
<1>5. <<>> \in Seq(Nat)
  OBVIOUS
<1>6. r \in PollerRecords /\ r.pc = "asked" /\ r.since = savedToken
  BY <1>2, <1>3, <1>5 DEF PollerRecords, PollerStates
<1>7. /\ poller' \in [Pollers -> PollerRecords] /\ poller'[p] = r
      /\ OnePoll' /\ \A q \in Pollers : q # p => LeftOK(q)'
      /\ Handling = {} /\ Handling' = {}
  BY <1>1, <1>4, <1>6, PollerAlone, PollerStep DEF SyncInv
<1>8. SyncTypes'
  BY <1>1, <1>7 DEF SyncInv, SyncTypes
<1>9. TokensAgree' /\ ShownOK'
  BY <1>1 DEF SyncInv, TokensAgree, ShownOK, Since
<1>10. LeftOK(p)'
  BY <1>1, <1>6, <1>7 DEF LeftOK
<1>11. OrdinaryDelivery'
  BY <1>1, <1>7, DeliveryKept DEF SyncInv
<1> QED BY <1>7, <1>8, <1>9, <1>10, <1>11 DEF SyncInv

LEMMA KeepHandle == \A p \in Pollers : SyncInv /\ HandleSync(p) => SyncInv'
<1> SUFFICES ASSUME NEW p \in Pollers, SyncInv, HandleSync(p) PROVE SyncInv'
  OBVIOUS
<1> DEFINE left == poller[p].left
           n == Len(left)
<1>1. /\ poller[p].pc = "answered" /\ inFlight /\ Alone(p)
      /\ UNCHANGED <<stream, loadedToken, secretKnown, secretSaved, shown, dropped, breaks>>
  BY PollerAlone DEF HandleSync, SyncInv, OnePoll
<1>2. /\ poller[p].since = savedToken /\ poller[p] \in PollerRecords
      /\ \A i \in DOMAIN left : left[i] = savedToken + i
      /\ savedToken + Len(left) <= stream
  BY <1>1 DEF SyncInv, SyncTypes, LeftOK
<1>3. left \in Seq(Nat) /\ n \in Nat /\ DOMAIN left = 1..n
  <2>1. left \in Seq(Nat)
    BY <1>2, PollerUpdates
  <2> QED BY <2>1
<1>4. CASE nextBatch = Token(p)
  <2>1. /\ poller' = [poller EXCEPT ![p] = Resting] /\ inFlight' = FALSE
        /\ UNCHANGED <<nextBatch, savedToken>>
    BY <1>4 DEF HandleSync
  <2>2. /\ poller' \in [Pollers -> PollerRecords] /\ poller'[p] = Resting
        /\ OnePoll' /\ \A q \in Pollers : q # p => LeftOK(q)'
        /\ Handling = {} /\ Handling' = {}
    BY <1>1, <2>1, RestingType, PollerStep DEF SyncInv
  <2>3. SyncTypes'
    BY <1>1, <2>1, <2>2 DEF SyncInv, SyncTypes
  <2>4. TokensAgree' /\ ShownOK'
    BY <1>1, <2>1 DEF SyncInv, TokensAgree, ShownOK, Since
  <2>5. LeftOK(p)'
    BY <2>2, RestingType DEF LeftOK
  <2>6. OrdinaryDelivery'
    BY <1>1, <2>1, <2>2, DeliveryKept DEF SyncInv
  <2> QED BY <2>2, <2>3, <2>4, <2>5, <2>6 DEF SyncInv
<1>5. CASE nextBatch # Token(p)
  <2>1. PICK r : r = [poller[p] EXCEPT !.pc = "handling"]
    OBVIOUS
  <2>2. /\ poller' = [poller EXCEPT ![p] = r] /\ UNCHANGED inFlight
        /\ nextBatch' = savedToken + n /\ savedToken' = savedToken + n
    BY <1>2, <1>5, <2>1 DEF HandleSync, SavedAtOnce, Token, SyncInv, SyncTypes
  <2>3. r \in PollerRecords /\ r.pc = "handling" /\ r.left = left
    BY <1>2, <2>1 DEF PollerRecords, PollerStates
  <2>4. /\ poller' \in [Pollers -> PollerRecords] /\ poller'[p] = r
        /\ OnePoll' /\ \A q \in Pollers : q # p => LeftOK(q)'
        /\ Handling = {} /\ Handling' = {p}
    BY <1>1, <2>2, <2>3, PollerStep DEF SyncInv
  <2>5. /\ savedToken \in Nat /\ stream \in Nat /\ Since = savedToken
        /\ nextBatch \in Nat /\ loadedToken \in Nat
    BY DEF SyncInv, SyncTypes, TokensAgree
  <2>6. savedToken + n # 0
    <3>1. CASE nextBatch = 0
      BY <3>1, <1>2, <1>5 DEF Token
    <3>2. CASE nextBatch # 0
      BY <3>2, <1>3, <2>5 DEF Since
    <3> QED BY <3>1, <3>2
  <2> HIDE DEF left, n
  <2>7. SyncTypes'
    BY <1>1, <1>3, <2>2, <2>4, <2>5 DEF SyncInv, SyncTypes
  <2>8. TokensAgree'
    BY <1>1, <1>2, <1>3, <2>2, <2>5, <2>6 DEF SyncInv, TokensAgree, Since, n
  <2>9. \A j \in DOMAIN shown : shown[j] \in Nat /\ shown[j] <= savedToken
    BY DEF SyncInv, SyncTypes, ShownOK
  <2>10. ShownOK'
    BY <1>1, <1>3, <2>2, <2>5, <2>9 DEF ShownOK
  <2>11. LeftOK(p)'
    <3>1. \A i \in DOMAIN left : left[i] = savedToken' - n + i
      BY <1>2, <1>3, <2>2, <2>5
    <3>2. \A j \in DOMAIN shown : shown[j] <= savedToken' - n
      BY <1>3, <2>2, <2>5, <2>9
    <3>3. n <= savedToken'
      BY <1>3, <2>2, <2>5
    <3> QED BY <1>1, <2>3, <2>4, <3>1, <3>2, <3>3 DEF LeftOK, n
  <2>12. ASSUME NEW e \in 1..savedToken'
         PROVE  \/ \E i \in DOMAIN shown : shown[i] = e
                \/ e \in dropped
                \/ \E i \in DOMAIN left : left[i] = e
    <3>1. CASE e <= savedToken
      <4>1. e \in 1..savedToken
        BY <3>1, <2>5, <1>3, <2>2
      <4> QED BY <4>1, <2>4 DEF SyncInv, OrdinaryDelivery, OrdinaryLossExcused
    <3>2. CASE ~(e <= savedToken)
      <4>1. e - savedToken \in 1..n /\ e = savedToken + (e - savedToken)
        BY <2>2, <2>5, <1>3, <3>2
      <4> QED BY <1>2, <1>3, <4>1
    <3> QED BY <3>1, <3>2
  <2>13. OrdinaryLossExcused'
    BY <1>1, <2>3, <2>4, <2>12 DEF OrdinaryLossExcused
  <2>14. OrdinaryAtMostOnce'
    BY <1>1 DEF SyncInv, OrdinaryDelivery, OrdinaryAtMostOnce
  <2>15. EncryptionRemembered'
    BY <1>1, <2>4 DEF SyncInv, OrdinaryDelivery, EncryptionRemembered
  <2> QED BY <2>4, <2>7, <2>8, <2>10, <2>11, <2>13, <2>14, <2>15 DEF SyncInv, OrdinaryDelivery
<1> QED BY <1>4, <1>5

LEMMA KeepDispatch == \A p \in Pollers : SyncInv /\ Dispatch(p) => SyncInv'
<1> SUFFICES ASSUME NEW p \in Pollers, SyncInv, Dispatch(p) PROVE SyncInv'
  OBVIOUS
<1>1. PICK left : left = poller[p].left
  OBVIOUS
<1>2. PICK n : n = Len(left)
  OBVIOUS
<1>3. PICK k : k = Len(shown)
  OBVIOUS
<1>4. PICK e0 : e0 = Head(left)
  OBVIOUS
<1>5. /\ poller[p].pc = "handling" /\ left # <<>> /\ Alone(p) /\ inFlight
      /\ poller[p] \in PollerRecords /\ left \in Seq(Nat)
  BY <1>1, PollerAlone, PollerUpdates DEF Dispatch, SyncInv, SyncTypes, OnePoll
<1>6. /\ n \in Nat \ {0} /\ DOMAIN left = 1..n /\ e0 \in Nat /\ e0 = left[1]
      /\ Tail(left) \in Seq(Nat) /\ Len(Tail(left)) = n - 1 /\ DOMAIN Tail(left) = 1..(n - 1)
      /\ \A i \in 1..(n - 1) : Tail(left)[i] = left[i + 1]
  BY <1>2, <1>4, <1>5, Rest
<1>7. /\ savedToken \in Nat /\ n <= savedToken /\ \A i \in 1..n : left[i] = savedToken - n + i
      /\ \A j \in DOMAIN shown : shown[j] <= savedToken - n
  BY <1>1, <1>2, <1>5, <1>6 DEF SyncInv, SyncTypes, LeftOK
<1>8. e0 = savedToken - n + 1
  BY <1>6, <1>7
<1>9. /\ shown' = Append(shown, e0)
      /\ UNCHANGED <<stream, nextBatch, loadedToken, savedToken, inFlight, secretKnown,
                     secretSaved, dropped, breaks>>
  BY <1>1, <1>4 DEF Dispatch
<1>10. /\ shown' \in Seq(Nat) /\ DOMAIN shown' = 1..(k + 1) /\ DOMAIN shown = 1..k /\ k \in Nat
       /\ \A i \in 1..k : shown'[i] = shown[i]
       /\ shown'[k + 1] = e0 /\ \A i \in 1..k : shown[i] \in Nat
  BY <1>3, <1>6, <1>9, Appended, SMTT(30) DEF SyncInv, SyncTypes
<1>11. PICK b \in BOOLEAN : b <=> (poller[p].secret \/ e0 = Secret)
  BY <1>5
<1>12. PICK r : r = [poller[p] EXCEPT !.left = Tail(left), !.secret = b]
  OBVIOUS
<1>13. poller' = [poller EXCEPT ![p] = r]
  <2>1. (poller[p].secret \/ e0 = Secret) = b
    BY <1>11
  <2>2. poller[p].secret \in BOOLEAN
    BY <1>5, PollerUpdates
  <2> QED BY <1>1, <1>4, <1>12, <2>1, <2>2 DEF Dispatch, SyncInv, SyncTypes
<1>14. r \in PollerRecords /\ r.pc = "handling" /\ r.left = Tail(left) /\ r.secret = b
  BY <1>5, <1>6, <1>12, PollerUpdates DEF PollerRecords
<1>15. /\ poller' \in [Pollers -> PollerRecords] /\ poller'[p] = r
       /\ OnePoll' /\ \A q \in Pollers : q # p => LeftOK(q)'
       /\ Handling = {p} /\ Handling' = {p}
  BY <1>5, <1>9, <1>13, <1>14, PollerStep DEF SyncInv, SyncTypes
<1>16. SyncTypes'
  BY <1>9, <1>10, <1>15 DEF SyncInv, SyncTypes
<1>17. TokensAgree'
  BY <1>9 DEF SyncInv, TokensAgree, Since
<1>18. \A j \in 1..(k + 1) : shown'[j] <= savedToken - (n - 1) /\ shown'[j] <= savedToken
  <2>1. ASSUME NEW j \in 1..k PROVE shown'[j] \in Nat /\ shown'[j] <= savedToken - n
    BY <1>7, <1>10
  <2>2. n \in Nat /\ savedToken \in Nat /\ n <= savedToken
    BY <1>6, <1>7
  <2>3. \A j \in 1..k : shown'[j] <= savedToken - (n - 1) /\ shown'[j] <= savedToken
    BY <2>1, <2>2
  <2>4. e0 <= savedToken - (n - 1) /\ e0 <= savedToken
    BY <1>6, <1>8, <2>2
  <2> QED BY <1>10, <2>3, <2>4
<1>19. ShownOK'
  BY <1>9, <1>10, <1>18 DEF ShownOK
<1>20. LeftOK(p)'
  <2>1. \A i \in 1..(n - 1) : Tail(left)[i] = savedToken - (n - 1) + i
    BY <1>6, <1>7
  <2>2. n - 1 <= savedToken
    BY <1>6, <1>7
  <2> QED BY <1>6, <1>9, <1>10, <1>14, <1>15, <1>18, <2>1, <2>2 DEF LeftOK
<1>21. OrdinaryAtMostOnce'
  <2>1. \A i, j \in 1..k : i < j => shown[i] < shown[j]
    BY <1>10 DEF SyncInv, OrdinaryDelivery, OrdinaryAtMostOnce
  <2>2. \A i \in 1..k : shown[i] < e0
    <3>1. \A i \in 1..k : shown[i] \in Nat /\ shown[i] <= savedToken - n
      BY <1>7, <1>10
    <3>2. n \in Nat /\ savedToken \in Nat /\ n <= savedToken
      BY <1>6, <1>7
    <3> QED BY <1>8, <3>1, <3>2
  <2> QED BY <1>10, <2>1, <2>2 DEF OrdinaryAtMostOnce
<1>22. ASSUME NEW e \in 1..savedToken
       PROVE  \/ \E i \in DOMAIN shown' : shown'[i] = e
              \/ e \in dropped
              \/ \E i \in DOMAIN Tail(left) : Tail(left)[i] = e
  <2>1. CASE \E i \in DOMAIN shown : shown[i] = e
    BY <2>1, <1>10
  <2>2. CASE \E i \in DOMAIN left : left[i] = e
    <3>1. PICK i \in 1..n : left[i] = e
      BY <2>2, <1>6
    <3>2. CASE i = 1
      <4>1. shown'[k + 1] = e /\ k + 1 \in 1..(k + 1)
        BY <3>1, <3>2, <1>6, <1>10
      <4> QED BY <4>1, <1>10
    <3>3. CASE i # 1
      <4>1. i - 1 \in 1..(n - 1) /\ Tail(left)[i - 1] = left[i]
        <5>1. i - 1 \in 1..(n - 1) /\ (i - 1) + 1 = i
          BY <3>3, <1>6
        <5> QED BY <5>1, <1>6
      <4> QED BY <3>1, <4>1, <1>6
    <3> QED BY <3>2, <3>3
  <2> QED BY <1>1, <1>15, <2>1, <2>2 DEF SyncInv, OrdinaryDelivery, OrdinaryLossExcused
<1>23. OrdinaryLossExcused'
  BY <1>9, <1>14, <1>15, <1>22 DEF OrdinaryLossExcused
<1>24. EncryptionRemembered'
  <2>1. ASSUME NEW i \in DOMAIN shown', shown'[i] = Secret
        PROVE  secretKnown \/ Secret \in dropped \/ b
    <3>1. CASE i = k + 1
      BY <2>1, <3>1, <1>10, <1>11
    <3>2. CASE i # k + 1
      <4>1. i \in 1..k /\ shown[i] = Secret
        BY <2>1, <3>2, <1>10
      <4> QED BY <4>1, <1>10, <1>11, <1>15 DEF SyncInv, OrdinaryDelivery, EncryptionRemembered
    <3> QED BY <3>1, <3>2
  <2> QED BY <1>9, <1>14, <1>15, <2>1 DEF EncryptionRemembered
<1> QED BY <1>15, <1>16, <1>17, <1>19, <1>20, <1>21, <1>23, <1>24 DEF SyncInv, OrdinaryDelivery

LEMMA KeepFinish == \A p \in Pollers : SyncInv /\ Finish(p) => SyncInv'
<1> SUFFICES ASSUME NEW p \in Pollers, SyncInv, Finish(p) PROVE SyncInv'
  OBVIOUS
<1>1. /\ poller[p].pc = "handling" /\ poller[p].left = <<>> /\ Alone(p)
      /\ poller' = [poller EXCEPT ![p] = Resting] /\ inFlight' = FALSE
      /\ secretKnown' = (secretKnown \/ poller[p].secret)
      /\ secretSaved' = (secretSaved \/ poller[p].secret)
      /\ UNCHANGED <<stream, nextBatch, loadedToken, savedToken, shown, dropped, breaks>>
      /\ poller[p] \in PollerRecords
  BY PollerAlone DEF Finish, SecretStored, SyncInv, SyncTypes
<1>2. /\ poller' \in [Pollers -> PollerRecords] /\ poller'[p] = Resting
      /\ OnePoll' /\ \A q \in Pollers : q # p => LeftOK(q)'
      /\ Handling = {p} /\ Handling' = {}
  BY <1>1, RestingType, PollerStep DEF SyncInv
<1>3. poller[p].secret \in BOOLEAN /\ secretKnown' \in BOOLEAN /\ secretSaved' \in BOOLEAN
  BY <1>1, PollerUpdates
<1>4. SyncTypes'
  BY <1>1, <1>2, <1>3 DEF SyncInv, SyncTypes
<1>5. TokensAgree' /\ ShownOK'
  BY <1>1 DEF SyncInv, TokensAgree, ShownOK, Since
<1>6. LeftOK(p)'
  BY <1>2, RestingType DEF LeftOK
<1>7. OrdinaryLossExcused'
  <2>1. DOMAIN poller[p].left = {}
    BY <1>1
  <2> QED BY <1>1, <1>2, <2>1 DEF SyncInv, OrdinaryDelivery, OrdinaryLossExcused
<1>8. OrdinaryAtMostOnce'
  BY <1>1 DEF SyncInv, OrdinaryDelivery, OrdinaryAtMostOnce
<1>9. EncryptionRemembered'
  BY <1>1, <1>2 DEF SyncInv, OrdinaryDelivery, EncryptionRemembered
<1> QED BY <1>2, <1>4, <1>5, <1>6, <1>7, <1>8, <1>9 DEF SyncInv, OrdinaryDelivery

LEMMA KeepBreak == \A p \in Pollers : SyncInv /\ Break(p) => SyncInv'
<1> SUFFICES ASSUME NEW p \in Pollers, SyncInv, Break(p) PROVE SyncInv'
  OBVIOUS
<1>1. PICK left : left = poller[p].left
  OBVIOUS
<1> DEFINE begun == poller[p].pc = "handling" /\ left # <<>>
<1>2. PICK during \in IF begun THEN BOOLEAN ELSE {FALSE} :
        /\ shown' = IF during THEN Append(shown, Head(left)) ELSE shown
        /\ dropped' = IF poller[p].pc = "handling"
                      THEN dropped \cup {left[i] : i \in DOMAIN left}
                                   \cup (IF poller[p].secret THEN {Secret} ELSE {})
                      ELSE dropped
  BY <1>1 DEF Break
<1>3. /\ poller' = [poller EXCEPT ![p] = Resting] /\ inFlight' = FALSE
      /\ UNCHANGED <<stream, nextBatch, loadedToken, savedToken, secretKnown, secretSaved>>
      /\ poller[p].pc # "resting"
  BY DEF Break
<1>4. /\ poller' \in [Pollers -> PollerRecords] /\ poller'[p] = Resting
      /\ OnePoll' /\ \A q \in Pollers : q # p => LeftOK(q)'
      /\ Handling = (IF poller[p].pc = "handling" THEN {p} ELSE {}) /\ Handling' = {}
  BY <1>3, RestingType, PollerAlone, PollerStep DEF SyncInv
<1>5. TokensAgree' /\ LeftOK(p)'
  BY <1>3, <1>4, RestingType DEF SyncInv, TokensAgree, Since, LeftOK
<1>6. /\ dropped \subseteq dropped'
      /\ \A q \in Handling : /\ \A i \in DOMAIN poller[q].left : poller[q].left[i] \in dropped'
                             /\ poller[q].secret => Secret \in dropped'
  BY <1>1, <1>2, <1>4
<1>7. CASE during
  <2>1. PICK n : n = Len(left)
    OBVIOUS
  <2>2. PICK k : k = Len(shown)
    OBVIOUS
  <2>3. poller[p].pc = "handling" /\ left # <<>> /\ left \in Seq(Nat)
    BY <1>1, <1>2, <1>7, PollerUpdates DEF SyncInv, SyncTypes
  <2>4. /\ n \in Nat \ {0} /\ DOMAIN left = 1..n /\ Head(left) \in Nat /\ Head(left) = left[1]
    BY <2>1, <2>3, Rest
  <2>5. /\ savedToken \in Nat /\ n <= savedToken /\ \A i \in 1..n : left[i] = savedToken - n + i
        /\ \A j \in DOMAIN shown : shown[j] <= savedToken - n
    BY <1>1, <2>1, <2>3, <2>4 DEF SyncInv, SyncTypes, LeftOK
  <2>6. PICK e0 \in Nat : e0 = Head(left)
    BY <2>4
  <2>7. e0 = savedToken - n + 1 /\ e0 \in dropped'
    BY <1>1, <1>4, <1>6, <2>3, <2>4, <2>5, <2>6
  <2>8. /\ shown' \in Seq(Nat) /\ DOMAIN shown' = 1..(k + 1) /\ DOMAIN shown = 1..k /\ k \in Nat
        /\ \A i \in 1..k : shown'[i] = shown[i]
        /\ shown'[k + 1] = e0 /\ \A i \in 1..k : shown[i] \in Nat
    BY <1>2, <1>7, <2>2, <2>6, Appended DEF SyncInv, SyncTypes
  <2>9. SyncTypes'
    BY <1>3, <1>4, <2>8 DEF SyncInv, SyncTypes
  <2>10. ShownOK'
    <3>1. e0 <= savedToken
      BY <2>4, <2>5, <2>7
    <3>2. \A j \in 1..k : shown[j] <= savedToken
      <4>1. \A j \in 1..k : shown[j] \in Nat /\ shown[j] <= savedToken - n
        BY <2>5, <2>8
      <4>2. n \in Nat /\ savedToken \in Nat
        BY <2>4, <2>5
      <4> QED BY <4>1, <4>2
    <3>3. \A j \in 1..(k + 1) : shown'[j] <= savedToken
      <4>1. \A j \in 1..(k + 1) : j \in 1..k \/ j = k + 1
        BY <2>8
      <4> QED BY <2>8, <3>1, <3>2, <4>1
    <3> QED BY <1>3, <2>8, <3>3 DEF ShownOK
  <2>11. OrdinaryAtMostOnce'
    <3>1. \A i, j \in 1..k : i < j => shown[i] < shown[j]
      BY <2>8 DEF SyncInv, OrdinaryDelivery, OrdinaryAtMostOnce
    <3>2. \A i \in 1..k : shown[i] < e0
      <4>1. \A i \in 1..k : shown[i] \in Nat /\ shown[i] <= savedToken - n
        BY <2>5, <2>8
      <4>2. n \in Nat /\ savedToken \in Nat
        BY <2>4, <2>5
      <4> QED BY <2>7, <4>1, <4>2
    <3>3. ASSUME NEW i \in 1..(k + 1), NEW j \in 1..(k + 1), i < j
          PROVE  shown'[i] < shown'[j]
      <4>1. i \in 1..k /\ (j \in 1..k \/ j = k + 1)
        BY <2>8, <3>3
      <4>2. CASE j \in 1..k
        BY <2>8, <3>1, <3>3, <4>1, <4>2
      <4>3. CASE j = k + 1
        BY <2>8, <3>2, <4>1, <4>3
      <4> QED BY <4>1, <4>2, <4>3
    <3>4. DOMAIN shown' = 1..(k + 1)
      BY <2>8
    <3> QED BY <3>3, <3>4 DEF OrdinaryAtMostOnce
  <2>12. OrdinaryLossExcused'
    <3>1. \A i \in DOMAIN shown : i \in DOMAIN shown' /\ shown'[i] = shown[i]
      BY <2>8
    <3> QED BY <1>3, <1>6, <3>1 DEF SyncInv, OrdinaryDelivery, OrdinaryLossExcused
  <2>13. EncryptionRemembered'
    <3>1. ASSUME NEW i \in DOMAIN shown', shown'[i] = Secret
          PROVE  secretKnown \/ Secret \in dropped'
      <4>1. CASE i = k + 1
        BY <3>1, <4>1, <2>7, <2>8
      <4>2. CASE i # k + 1
        <5>1. i \in 1..k /\ shown[i] = Secret
          BY <3>1, <4>2, <2>8
        <5> QED BY <5>1, <1>6, <2>8 DEF SyncInv, OrdinaryDelivery, EncryptionRemembered
      <4> QED BY <4>1, <4>2
    <3> QED BY <1>3, <3>1 DEF EncryptionRemembered
  <2> QED BY <1>4, <1>5, <2>9, <2>10, <2>11, <2>12, <2>13 DEF SyncInv, OrdinaryDelivery
<1>8. CASE ~during
  <2>1. UNCHANGED shown
    BY <1>2, <1>8
  <2>2. SyncTypes' /\ ShownOK'
    BY <1>3, <1>4, <2>1 DEF SyncInv, SyncTypes, ShownOK
  <2>3. OrdinaryAtMostOnce'
    BY <2>1 DEF SyncInv, OrdinaryDelivery, OrdinaryAtMostOnce
  <2>4. OrdinaryLossExcused'
    BY <1>3, <1>6, <2>1 DEF SyncInv, OrdinaryDelivery, OrdinaryLossExcused
  <2>5. EncryptionRemembered'
    BY <1>3, <1>6, <2>1 DEF SyncInv, OrdinaryDelivery, EncryptionRemembered
  <2> QED BY <1>4, <1>5, <2>2, <2>3, <2>4, <2>5 DEF SyncInv, OrdinaryDelivery
<1> QED BY <1>2, <1>7, <1>8

LEMMA KeepStill == SyncInv /\ UNCHANGED syncLoopVars => SyncInv'
<1> SUFFICES ASSUME SyncInv, UNCHANGED syncLoopVars PROVE SyncInv'
  OBVIOUS
<1>1. UNCHANGED <<stream, nextBatch, loadedToken, savedToken, inFlight, poller, secretKnown,
                  secretSaved, shown, dropped>>
  BY DEF syncLoopVars
<1>2. SyncTypes' /\ OnePoll' /\ TokensAgree' /\ ShownOK'
  BY <1>1 DEF SyncInv, SyncTypes, OnePoll, TokensAgree, ShownOK, Since
<1>3. \A p \in Pollers : LeftOK(p)'
  BY <1>1 DEF SyncInv, LeftOK
<1>4. OrdinaryDelivery'
  BY <1>1, DeliveryKept DEF SyncInv, Handling
<1> QED BY <1>2, <1>3, <1>4 DEF SyncInv

(* Whatever the two readers of the sync, failures, restarts and callbacks  *)
(* that stop do, a response is handled by one of them, in order and never  *)
(* passed over by a token that was saved or sent.                          *)
THEOREM OrdinaryDelivered == SyncLoopSpec => []OrdinaryDelivery
<1>1. SyncLoopInit => SyncInv
  BY SyncInitially
<1>2. SyncInv /\ [SyncLoopNext]_syncLoopVars => SyncInv'
  BY KeepGrows, KeepRestart, KeepSync, KeepAnswered, KeepMissing, KeepHandle, KeepDispatch,
     KeepFinish, KeepBreak, KeepStill DEF SyncLoopNext
<1>3. SyncInv => OrdinaryDelivery
  BY DEF SyncInv
<1> QED BY <1>1, <1>2, <1>3, PTL DEF SyncLoopSpec

=============================================================================
