---------------------------- MODULE MegolmEvents ----------------------------
(***************************************************************************)
(* Decrypting Megolm events (src/nio/crypto/olm_machine.py,                *)
(* decrypt_megolm_event and message_index_ok): the bounded store of seen   *)
(* message indexes, and the verified mark, while the sending device's      *)
(* identity and trust change.                                              *)
(*                                                                         *)
(* One Megolm session of one device; Signer is the identity key its room   *)
(* key claimed.  The store keeps the ReplaySize most recently used         *)
(* indexes (a cachetools.LRUCache), most recent last.                      *)
(***************************************************************************)
EXTENDS Common, Naturals, Sequences, FiniteSets

CONSTANTS
    Indexes,        \* message indexes
    Events,         \* event ids a message may arrive under
    Identities,     \* identity keys of the device
    Signer,         \* the one the session was announced with
    ReplaySize      \* Olm._message_index_store_size

ASSUME MegolmAssumption == Signer \in Identities /\ ReplaySize \in Nat \ {0}

VARIABLES
    replays,        \* message_index_store
    identity,       \* the stored identity of the sending device, or None
    trust,          \* that identity is marked as verified
    chain,          \* the key was forwarded
    toQuery,        \* the sender is in users_for_key_query
    passed,         \* history: <<index, event>> that passed the replay check
    since,          \* history: by index, the other ones looked up after it
    marked          \* history: what was marked as verified

megolmVars == <<replays, identity, trust, chain, toQuery, passed, since, marked>>

(* The place of an index in the store, if it is there. *)
Places(i) == {k \in DOMAIN replays : replays[k][1] = i}

MessageIndexOk(i, e) == \A k \in Places(i) : replays[k][2] = e

(* A new entry evicts the least recent one when the store is full. *)
Added(i, e) ==
    IF Len(replays) < ReplaySize THEN Append(replays, <<i, e>>) ELSE Append(Tail(replays), <<i, e>>)

(* Mutant: looking an index up does not make it recent. *)
RememberedInOrder(i, e) == IF Places(i) # {} THEN replays ELSE Added(i, e)

(* Looking an entry up makes it the most recent. *)
Refreshed(k) ==
    [n \in DOMAIN replays |->
        IF n < k THEN replays[n] ELSE IF n < Len(replays) THEN replays[n + 1] ELSE replays[k]]

Remembered(i, e) ==
    IF Places(i) # {} THEN Refreshed(CHOOSE k \in Places(i) : TRUE) ELSE Added(i, e)

(* Mutant: the verified mark goes by the device alone. *)
KeysMatchAlways == TRUE

KeysMatch == identity = Signer

(* The event is handed out unless its index is a replay or the verified    *)
(* device's keys are not the session's; it is marked as verified if the    *)
(* device is, and the key was not forwarded.                               *)
DecryptMegolmEvent(i, e) ==
    /\ replays' = Remembered(i, e)
    /\ since' = [j \in Indexes |-> IF j = i THEN {} ELSE since[j] \cup {i}]
    /\ passed' = IF MessageIndexOk(i, e) THEN passed \cup {<<i, e>>} ELSE passed
    /\ marked' = IF MessageIndexOk(i, e) /\ identity # None /\ trust /\ ~chain /\ KeysMatch
                 THEN marked \cup {[key |-> identity, chain |-> chain]} ELSE marked
    /\ toQuery' = (toQuery \/ (MessageIndexOk(i, e) /\ identity = None))
    /\ UNCHANGED <<identity, trust, chain>>

(* A key query stores or rotates the identity, which loses its trust. *)
DeviceQueried(k) ==
    /\ k # identity /\ identity' = k /\ trust' = FALSE /\ toQuery' = FALSE
    /\ UNCHANGED <<replays, chain, passed, since, marked>>

DeviceTrusted ==
    /\ identity # None /\ trust' = ~trust
    /\ UNCHANGED <<replays, identity, chain, toQuery, passed, since, marked>>

(* The room key arrives again: forwarded, or from the device itself. *)
KeyArrives == chain' = ~chain /\ UNCHANGED <<replays, identity, trust, toQuery, passed, since, marked>>

MegolmInit ==
    /\ replays = <<>> /\ identity = None /\ trust = FALSE /\ chain \in BOOLEAN /\ toQuery = FALSE
    /\ passed = {} /\ since = [i \in Indexes |-> {}] /\ marked = {}

MegolmNext ==
    \/ \E i \in Indexes, e \in Events : DecryptMegolmEvent(i, e)
    \/ \E k \in Identities : DeviceQueried(k)
    \/ DeviceTrusted \/ KeyArrives

MegolmSpec == MegolmInit /\ [][MegolmNext]_megolmVars

-----------------------------------------------------------------------------
(* Properties.                                                             *)

(* The replay store holds each index once and never more than its size. *)
MegolmTypeOK ==
    /\ Len(replays) <= ReplaySize
    /\ \A a, b \in DOMAIN replays : replays[a][1] = replays[b][1] => a = b
    /\ identity \in Identities \cup {None} /\ trust \in BOOLEAN /\ chain \in BOOLEAN
    /\ toQuery => identity = None

(* A message index passes under a second event id only after ReplaySize    *)
(* other indexes were looked up since it last was: the recently used ones  *)
(* are remembered, also when others come and go (action property).         *)
NoReplay ==
    [][\A x \in passed' \ passed, y \in passed :
            x[1] = y[1] => Cardinality(since[x[1]]) >= ReplaySize]_megolmVars

(* An event is marked as verified only under the identity that announced   *)
(* the session, never with a forwarded key, through rotations of the       *)
(* device's identity and changes of its trust; the replay store keeps its  *)
(* form.                                                                   *)
MarkedBySigner == MegolmTypeOK /\ \A m \in marked : m.key = Signer /\ ~m.chain

=============================================================================
