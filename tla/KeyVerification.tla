--------------------------- MODULE KeyVerification ---------------------------
(***************************************************************************)
(* Interactive device verification between two devices: crypto/sas.py, the *)
(* verification part of crypto/olm_machine.py and the calls of the client  *)
(* that the two users make.  To-device messages wait in the outgoing queue *)
(* or at the server, arrive in any order, may be lost, and may come again  *)
(* (a send whose answer was lost is repeated, a sync response that was not *)
(* acknowledged is served again).                                          *)
(*                                                                         *)
(* Every Sas object draws a fresh key pair; its public key <<d, n>> is the *)
(* n-th of device d, which also orders the objects by creation time.  A    *)
(* transaction is named after the key of the object that started it.       *)
(* Cancellation codes and reasons are wording and left out.                *)
(***************************************************************************)
EXTENDS Naturals, FiniteSets

CONSTANTS
    Devices,        \* the two devices
    None,
    MaxStarts,      \* a device starts no verification once it has this many objects
    Offers,         \* key agreement protocols a starting device may offer
    MacKeys,        \* which keys a device's MAC message may cover
    Records,        \* what a device may have on record about the other one
    MaxSas,         \* bound on the Sas objects of each device
    MaxRepeats      \* bound on repeated deliveries

ASSUME DevicesAssumption ==
    /\ IsFiniteSet(Devices) /\ Cardinality(Devices) = 2
    /\ MaxStarts \in [Devices -> Nat]
    /\ \A d \in Devices : MaxStarts[d] <= MaxSas[d]
    /\ MaxSas \in [Devices -> Nat]
    /\ MaxRepeats \in Nat
    /\ Offers \subseteq SUBSET {"v1", "v2"}
    /\ MacKeys \subseteq SUBSET {"device", "other", "unknown"}
    /\ Records \subseteq {"unknown", "right", "stale"}

VARIABLES
    sas,        \* key_verifications of each device, None where there is none
    made,       \* Sas objects created so far by each device
    record,     \* device_store: what each device knows of the other
    trusted,    \* devices that have the other one marked as verified
    net,        \* messages in an outgoing queue or at the server
    repeats,    \* repeated deliveries so far
    confirmed,  \* history: <<device, string>> of every MAC message made
    agreed      \* history: <<device, string>> whenever a device is marked

vars == <<sas, made, record, trusted, net, repeats, confirmed, agreed>>

Other(d) == CHOOSE e \in Devices : e # d

Keys == UNION {{d} \X (1..MaxSas[d]) : d \in Devices}
Txns == Keys
States == {"created", "started", "accepted", "key_received", "mac_received", "canceled"}
Protocols == {"v1", "v2"}
Ages == {"young", "timed_out", "dead"}

ASSUME NoneAssumption ==
    /\ None \notin Protocols
    /\ None \notin Keys
    /\ None \notin Keys \X SUBSET Protocols

(* A Sas object.  chosen_mac_method and chosen_key_agreement are always    *)
(* set together: "agreement" is both.  creation_time and _last_event_time   *)
(* are never moved apart, so one age stands for both: past the event       *)
(* timeout ("timed_out") and past _max_sas_life ("dead").                  *)
SasObjects ==
    [state : States, we_started_it : BOOLEAN, offer : SUBSET Protocols,
     agreement : Protocols \cup {None},
     commitment : (Keys \X SUBSET Protocols) \cup {None},
     key : Keys, theirs : Keys \cup {None},
     sas_accepted : BOOLEAN, age : Ages]

Known(d, t) == sas[d][t] # None
Canceled(s) == s.state = "canceled"
Verified(s) == s.state = "mac_received" /\ s.sas_accepted
Cancel(s) == [s EXCEPT !.state = "canceled"]
Secret(s) == {s.key, s.theirs}

(* Mutant: each device names itself first. *)
ExtraInfoSelfFirst(d, t, s) ==
    [agreement |-> s.agreement, txn |-> t, roles |-> <<d, Other(d)>>,
     keys |-> IF s.agreement = "v1" THEN <<>> ELSE <<s.key, s.theirs>>]

(* The device that started it comes first; only v2 names the public keys.  *)
ExtraInfo(d, t, s) ==
    [agreement |-> s.agreement,
     txn |-> t,
     roles |-> IF s.we_started_it THEN <<d, Other(d)>> ELSE <<Other(d), d>>,
     keys |-> IF s.agreement = "v1" THEN <<>>
              ELSE IF s.we_started_it THEN <<s.key, s.theirs>> ELSE <<s.theirs, s.key>>]

(* The emoji or decimals a device shows. *)
ShortString(d, t, s) == <<Secret(s), ExtraInfo(d, t, s)>>

-----------------------------------------------------------------------------
(* The contents of the messages *)
StartMessage(d, t, s) ==
    [type |-> "start", to |-> Other(d), txn |-> t, offer |-> s.offer]
AcceptMessage(d, t, s) ==
    [type |-> "accept", to |-> Other(d), txn |-> t,
     agreement |-> s.agreement, commitment |-> s.commitment]
KeyMessage(d, t, s) ==
    [type |-> "key", to |-> Other(d), txn |-> t, key |-> s.key]
MacMessage(d, t, s, keys) ==
    [type |-> "mac", to |-> Other(d), txn |-> t, secret |-> Secret(s), keys |-> keys]
Cancellation(d, t) == [type |-> "cancel", to |-> Other(d), txn |-> t]

NewSas(d, offer) ==
    [state |-> "created", we_started_it |-> TRUE, offer |-> offer,
     agreement |-> None, commitment |-> None, key |-> <<d, made[d] + 1>>,
     theirs |-> None, sas_accepted |-> FALSE, age |-> "young"]

(* from_key_verification_start; the commitment covers our key and what the *)
(* start message says                                                      *)
SasFromStart(d, offer) ==
    LET s == [NewSas(d, offer) EXCEPT !.we_started_it = FALSE, !.state = "started",
                                      !.commitment = <<<<d, made[d] + 1>>, offer>>]
    IN  IF offer = {} THEN Cancel(s) ELSE s

(* The newest verification that is not canceled, if any (as a set).        *)
ActiveSas(d) ==
    LET live == {t \in Txns : Known(d, t) /\ ~Canceled(sas[d][t])}
    IN  {t \in live : \A u \in live : sas[d][u].key[2] <= sas[d][t].key[2]}

-----------------------------------------------------------------------------
(* How a Sas object takes an event *)
ReceiveAccept(s, m) ==
    IF s.state # "created" \/ m.agreement \notin Protocols
    THEN Cancel(s)
    ELSE [s EXCEPT !.agreement = m.agreement, !.commitment = m.commitment,
                   !.state = "accepted"]

CommitmentOk(s, key) == s.we_started_it => s.commitment = <<key, s.offer>>

ReceiveKey(s, m) ==
    IF s.theirs # None \/ s.state \notin {"started", "accepted"} \/ ~CommitmentOk(s, m.key)
    THEN Cancel(s)
    ELSE [s EXCEPT !.theirs = m.key, !.state = "key_received"]

(* Mutant: only the key identifiers are compared, not the keys. *)
MacOkIdsOnly(d, s, m) == m.secret = Secret(s) /\ "unknown" \notin m.keys

(* Identifiers of a known type, MACed under the common secret, and for the *)
(* other device the key that is on record; other keys are skipped.         *)
MacOk(d, s, m) ==
    /\ m.secret = Secret(s)
    /\ "unknown" \notin m.keys
    /\ "device" \in m.keys => record[d] = "right"

(* Without an agreed method the code's assertion fails and nothing has     *)
(* changed.  A MAC that covers no key of the device falls through to       *)
(* mac_received: the cancellation the code sets is overwritten.            *)
ReceiveMac(d, s, m) ==
    CASE Verified(s) -> s
      [] ~Verified(s) /\ s.state # "key_received" -> Cancel(s)
      [] s.state = "key_received" /\ s.agreement = None -> s
      [] OTHER -> IF MacOk(d, s, m)
                  THEN [s EXCEPT !.state = "mac_received"]
                  ELSE Cancel(s)

-----------------------------------------------------------------------------
Put(d, t, s) == sas' = [sas EXCEPT ![d][t] = s]
Send(messages) == net' = net \cup messages

(* Mutant: the MAC alone marks the device. *)
MarkOnMac(d, t, s) ==
    IF s.state = "mac_received"
    THEN trusted' = trusted \cup {d} /\ agreed' = agreed \cup {<<d, ShortString(d, t, s)>>}
    ELSE UNCHANGED <<trusted, agreed>>

(* verify_device() when the exchange is complete on this side *)
MarkIfVerified(d, t, s) ==
    IF Verified(s)
    THEN /\ trusted' = trusted \cup {d}
         /\ agreed' = agreed \cup {<<d, ShortString(d, t, s)>>}
    ELSE UNCHANGED <<trusted, agreed>>

(* start_key_verification *)
StartKeyVerification(d, offer) ==
    /\ record[d] \in {"right", "stale"}
    /\ made[d] < MaxStarts[d]
    /\ \E s \in {NewSas(d, offer)} : \E t \in {s.key} :
        Put(d, t, s) /\ Send({StartMessage(d, t, s)})
    /\ made' = [made EXCEPT ![d] = @ + 1]
    /\ UNCHANGED <<record, trusted, repeats, confirmed, agreed>>

(* accept_key_verification: possible in any state but a canceled one *)
AcceptKeyVerification(d, t) ==
    /\ Known(d, t)
    /\ ~sas[d][t].we_started_it
    /\ ~Canceled(sas[d][t])
    /\ \E s \in {[sas[d][t] EXCEPT !.agreement =
                    IF "v2" \in sas[d][t].offer THEN "v2" ELSE "v1"]} :
        Put(d, t, s) /\ Send({AcceptMessage(d, t, s)})
    /\ UNCHANGED <<made, record, trusted, repeats, confirmed, agreed>>

(* Mutant: the device is marked only when the MAC arrives second. *)
ConfirmShortAuthStringNoMark(d, t, keys) ==
    /\ Known(d, t) /\ ~Canceled(sas[d][t]) /\ sas[d][t].theirs # None
    /\ sas[d][t].agreement # None
    /\ \E s \in {[sas[d][t] EXCEPT !.sas_accepted = TRUE]} :
        /\ Put(d, t, s) /\ Send({MacMessage(d, t, s, keys)})
        /\ confirmed' = confirmed \cup {<<d, ShortString(d, t, s)>>}
    /\ UNCHANGED <<made, record, trusted, repeats, agreed>>

(* confirm_short_auth_string: accept_sas, get_mac, verify_device.  Without *)
(* an agreed method the assertion in get_mac fails after accept_sas.       *)
ConfirmShortAuthString(d, t, keys) ==
    /\ Known(d, t)
    /\ ~Canceled(sas[d][t])
    /\ sas[d][t].theirs # None
    /\ \E s \in {[sas[d][t] EXCEPT !.sas_accepted = TRUE]} :
        /\ Put(d, t, s)
        /\ IF s.agreement = None
           THEN UNCHANGED <<net, trusted, confirmed, agreed>>
           ELSE /\ Send({MacMessage(d, t, s, keys)})
                /\ confirmed' = confirmed \cup {<<d, ShortString(d, t, s)>>}
                /\ MarkIfVerified(d, t, s)
    /\ UNCHANGED <<made, record, repeats>>

(* cancel_key_verification, with or without reject *)
CancelKeyVerification(d, t) ==
    /\ Known(d, t)
    /\ Put(d, t, Cancel(sas[d][t])) /\ Send({Cancellation(d, t)})
    /\ UNCHANGED <<made, record, trusted, repeats, confirmed, agreed>>

-----------------------------------------------------------------------------
(* The message is taken, or will come again; the answers are queued.       *)
Take(m, answers) ==
    \/ net' = (net \ {m}) \cup answers /\ UNCHANGED repeats
    \/ /\ repeats < MaxRepeats
       /\ repeats' = repeats + 1
       /\ net' = net \cup answers

(* A start from a device that is not on record only asks for its keys.     *)
StartFromUnknownDevice(m) ==
    /\ m.type = "start" /\ record[m.to] \in {"unknown", "querying"}
    /\ record' = [record EXCEPT ![m.to] = "querying"]
    /\ Take(m, {})
    /\ UNCHANGED <<sas, made, trusted, confirmed, agreed>>

(* A malformed offer is refused; a good one replaces the active exchange   *)
(* with the same device.                                                   *)
HandleStart(m) ==
    LET d == m.to
        new == SasFromStart(d, m.offer)
        old == ActiveSas(d)
    IN  /\ m.type = "start" /\ record[d] \in {"right", "stale"}
        /\ IF Canceled(new)
           THEN Take(m, {Cancellation(d, m.txn)}) /\ UNCHANGED <<sas, made>>
           ELSE /\ made[d] < MaxSas[d]
                /\ made' = [made EXCEPT ![d] = @ + 1]
                /\ sas' = [sas EXCEPT ![d] =
                            [t \in Txns |-> IF t = m.txn THEN new
                                            ELSE IF t \in old THEN Cancel(@[t]) ELSE @[t]]]
                /\ Take(m, {Cancellation(d, t) : t \in old})
        /\ UNCHANGED <<record, trusted, confirmed, agreed>>

(* Mutant: an unknown transaction is answered with a cancellation. *)
AnswerUnknownTransaction(m) ==
    /\ m.type # "start" /\ ~Known(m.to, m.txn)
    /\ Take(m, {Cancellation(m.to, m.txn)})
    /\ UNCHANGED <<sas, made, record, trusted, confirmed, agreed>>

HandleUnknownTransaction(m) ==
    /\ m.type # "start" /\ ~Known(m.to, m.txn)
    /\ Take(m, {})
    /\ UNCHANGED <<sas, made, record, trusted, confirmed, agreed>>

HandleAccept(m) ==
    /\ m.type = "accept" /\ Known(m.to, m.txn)
    /\ \E s \in {ReceiveAccept(sas[m.to][m.txn], m)} :
        /\ Put(m.to, m.txn, s)
        /\ Take(m, {IF Canceled(s) THEN Cancellation(m.to, m.txn)
                                   ELSE KeyMessage(m.to, m.txn, s)})
    /\ UNCHANGED <<made, record, trusted, confirmed, agreed>>

HandleCancel(m) ==
    /\ m.type = "cancel" /\ Known(m.to, m.txn)
    /\ Put(m.to, m.txn, None)
    /\ Take(m, {})
    /\ UNCHANGED <<made, record, trusted, confirmed, agreed>>

HandleKey(m) ==
    /\ m.type = "key" /\ Known(m.to, m.txn)
    /\ \E s \in {ReceiveKey(sas[m.to][m.txn], m)} :
        /\ Put(m.to, m.txn, s)
        /\ Take(m, CASE Canceled(s) -> {Cancellation(m.to, m.txn)}
                     [] s.we_started_it /\ ~Canceled(s) -> {}
                     [] OTHER -> {KeyMessage(m.to, m.txn, s)})
    /\ UNCHANGED <<made, record, trusted, confirmed, agreed>>

HandleMac(m) ==
    /\ m.type = "mac" /\ Known(m.to, m.txn)
    /\ \E s \in {ReceiveMac(m.to, sas[m.to][m.txn], m)} :
        /\ Put(m.to, m.txn, s)
        /\ Take(m, IF Canceled(s) THEN {Cancellation(m.to, m.txn)} ELSE {})
        /\ MarkIfVerified(m.to, m.txn, s)
    /\ UNCHANGED <<made, record, confirmed>>

(* handle_key_verification *)
HandleKeyVerification ==
    \E m \in net :
        \/ StartFromUnknownDevice(m) \/ HandleStart(m) \/ HandleUnknownTransaction(m)
        \/ HandleAccept(m) \/ HandleCancel(m) \/ HandleKey(m) \/ HandleMac(m)

-----------------------------------------------------------------------------
TimedOut(s) == ~Verified(s) /\ ~Canceled(s) /\ s.age # "young"

(* clear_verifications, after every sync response *)
ClearVerifications(d) ==
    LET expired == {t \in Txns : Known(d, t) /\ TimedOut(sas[d][t])}
        old == {t \in Txns : Known(d, t) /\ sas[d][t].age = "dead"
                             /\ (Canceled(sas[d][t]) \/ Verified(sas[d][t]))}
    IN  /\ expired \cup old # {}
        /\ sas' = [sas EXCEPT ![d] =
                    [t \in Txns |-> IF t \in expired \cup old THEN None ELSE @[t]]]
        /\ Send({Cancellation(d, t) : t \in expired})
        /\ UNCHANGED <<made, record, trusted, repeats, confirmed, agreed>>

(* Time passes on a device: an older object is never younger.              *)
Rank == [a \in Ages |-> CASE a = "young" -> 0 [] a = "timed_out" -> 1 [] OTHER -> 2]

Age(d, t) ==
    /\ Known(d, t) /\ sas[d][t].age # "dead"
    /\ \A u \in Txns : (Known(d, u) /\ sas[d][u].key[2] < sas[d][t].key[2])
                        => Rank[sas[d][u].age] > Rank[sas[d][t].age]
    /\ Put(d, t, [sas[d][t] EXCEPT !.age = IF @ = "young" THEN "timed_out" ELSE "dead"])
    /\ UNCHANGED <<made, record, trusted, net, repeats, confirmed, agreed>>

(* The key query for an unknown device is answered. *)
LearnDevice(d) ==
    /\ record[d] = "querying"
    /\ record' = [record EXCEPT ![d] = "right"]
    /\ UNCHANGED <<sas, made, trusted, net, repeats, confirmed, agreed>>

(* A send fails for good, or the server drops the message. *)
Lose(m) ==
    /\ net' = net \ {m}
    /\ UNCHANGED <<sas, made, record, trusted, repeats, confirmed, agreed>>

(* Verifications live in memory only; marks are in the store. *)
Restart(d) ==
    /\ \E t \in Txns : Known(d, t)
    /\ sas' = [sas EXCEPT ![d] = [t \in Txns |-> None]]
    /\ UNCHANGED <<made, record, trusted, net, repeats, confirmed, agreed>>

-----------------------------------------------------------------------------
Init ==
    /\ sas = [d \in Devices |-> [t \in Txns |-> None]]
    /\ made = [d \in Devices |-> 0]
    /\ record \in [Devices -> Records]
    /\ trusted = {} /\ net = {} /\ repeats = 0 /\ confirmed = {} /\ agreed = {}

UserStep(d) ==
    \/ \E offer \in Offers : StartKeyVerification(d, offer)
    \/ \E t \in Txns :
        \/ AcceptKeyVerification(d, t) \/ CancelKeyVerification(d, t)
        \/ \E keys \in MacKeys : ConfirmShortAuthString(d, t, keys)

Next ==
    \/ HandleKeyVerification
    \/ \E d \in Devices :
        \/ UserStep(d) \/ ClearVerifications(d) \/ LearnDevice(d) \/ Restart(d)
        \/ \E t \in Txns : Age(d, t)
    \/ \E m \in net : Lose(m)

Spec == Init /\ [][Next]_vars

(* Time passes, every device keeps syncing and messages are delivered.     *)
Fairness ==
    /\ WF_vars(HandleKeyVerification)
    /\ \A d \in Devices :
        /\ WF_vars(ClearVerifications(d))
        /\ \A t \in Txns : WF_vars(Age(d, t))

LiveSpec == Spec /\ Fairness

-----------------------------------------------------------------------------
Messages ==
    [type : {"start"}, to : Devices, txn : Txns, offer : SUBSET Protocols]
    \cup [type : {"accept"}, to : Devices, txn : Txns, agreement : Protocols,
          commitment : Keys \X SUBSET Protocols]
    \cup [type : {"key"}, to : Devices, txn : Txns, key : Keys]
    \cup [type : {"mac"}, to : Devices, txn : Txns, secret : SUBSET Keys,
          keys : SUBSET {"device", "other", "unknown"}]
    \cup [type : {"cancel"}, to : Devices, txn : Txns]

TypeOK ==
    /\ sas \in [Devices -> [Txns -> SasObjects \cup {None}]]
    /\ made \in [Devices -> Nat]
    /\ record \in [Devices -> {"unknown", "querying", "right", "stale"}]
    /\ trusted \subseteq Devices
    /\ net \subseteq Messages
    /\ repeats \in 0..MaxRepeats

(* Two devices that hold each other's key for a transaction and agreed on  *)
(* a method show the same short authentication string.                     *)
StringsMatch ==
    \A d \in Devices, t \in Txns :
        (Known(d, t) /\ Known(Other(d), t)) =>
            LET a == sas[d][t]
                b == sas[Other(d)][t]
            IN  (/\ a.theirs = b.key /\ b.theirs = a.key
                 /\ None \notin {a.agreement, b.agreement})
                => ShortString(d, t, a) = ShortString(Other(d), t, b)

(* A device is marked as verified only when both users confirmed the same  *)
(* string, whatever was repeated, reordered, replaced or restarted in      *)
(* between.                                                                *)
MarkedAgrees == \A p \in agreed : {p, <<Other(p[1]), p[2]>>} \subseteq confirmed

(* A device whose key on record is not its key is never marked.            *)
MarkedKeyIsRight == \A d \in trusted : record[d] = "right"

(* An exchange that reports itself verified has marked the device, in      *)
(* whichever order confirmation and MAC came.                              *)
VerifiedIsMarked ==
    \A d \in Devices, t \in Txns :
        Known(d, t) => (Verified(sas[d][t]) => d \in trusted)

(* Every exchange ends: verified, canceled or forgotten on each side.      *)
Pending(d, t) == Known(d, t) /\ ~Canceled(sas[d][t]) /\ ~Verified(sas[d][t])

Finishes == \A d \in Devices, t \in Txns : Pending(d, t) ~> ~Pending(d, t)

(* The two devices fall silent: cancellations are not answered forever.    *)
FallsSilent == <>[](net = {})

(* No exchange hangs and none keeps the devices talking. *)
ExchangesEnd == Finishes /\ FallsSilent

=============================================================================
