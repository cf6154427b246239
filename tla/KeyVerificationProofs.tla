----------------------- MODULE KeyVerificationProofs -----------------------
(***************************************************************************)
(* Proofs about KeyVerification for any offers, any records, any bounds    *)
(* and any number of repeated deliveries: first what each device knows by  *)
(* itself (TrustInv), then what the two sides of an exchange have in       *)
(* common (AgreeInv).                                                      *)
(***************************************************************************)
EXTENDS KeyVerification, FiniteSetTheorems, TLAPS

(* nio's own MAC message always covers the key of the sending device.      *)
CoversDevice == \A keys \in MacKeys : "device" \in keys

(* What is true of every message in flight and of every object.            *)
MessageOk(m) == m \in Messages /\ (m.type = "mac" => m.keys \in MacKeys)

ObjectOk(d, s) ==
    /\ s \in SasObjects
    /\ ~s.we_started_it => s.commitment # None
    /\ s.state = "mac_received" => s.agreement # None
    /\ s.state = "mac_received" => (CoversDevice => record[d] = "right")
    /\ Verified(s) => d \in trusted

Others ==
    /\ sas \in [Devices -> [Txns -> SasObjects \cup {None}]]
    /\ made \in [Devices -> Nat]
    /\ record \in [Devices -> {"unknown", "querying", "right", "stale"}]
    /\ trusted \subseteq Devices
    /\ repeats \in 0..MaxRepeats
    /\ CoversDevice => MarkedKeyIsRight

TrustInv ==
    /\ Others
    /\ \A m \in net : MessageOk(m)
    /\ \A d \in Devices, t \in Txns : Known(d, t) => ObjectOk(d, sas[d][t])

-----------------------------------------------------------------------------
LEMMA OtherDevice ==
    ASSUME NEW d \in Devices
    PROVE  Other(d) \in Devices /\ Other(d) # d
<1>1. PICK e \in Devices : e # d
  <2>1. SUFFICES ASSUME \A e \in Devices : e = d PROVE FALSE
    OBVIOUS
  <2>2. Devices = {d}
    BY <2>1
  <2>3. Cardinality({d}) = 1
    BY FS_Singleton, Zenon
  <2> QED
    BY <2>2, <2>3, DevicesAssumption
<1> QED
  BY <1>1 DEF Other

LEMMA SasUpdates ==
    ASSUME NEW s \in SasObjects
    PROVE  /\ Cancel(s) \in SasObjects
           /\ \A p \in Protocols : [s EXCEPT !.agreement = p] \in SasObjects
           /\ [s EXCEPT !.sas_accepted = TRUE] \in SasObjects
           /\ \A a \in Ages : [s EXCEPT !.age = a] \in SasObjects
  BY DEF SasObjects, Cancel, States

LEMMA ReceiveTypes ==
    ASSUME NEW s \in SasObjects, NEW d \in Devices, NEW m \in Messages
    PROVE  /\ m.type = "accept" => ReceiveAccept(s, m) \in SasObjects
           /\ m.type = "key" => ReceiveKey(s, m) \in SasObjects
           /\ m.type = "mac" => ReceiveMac(d, s, m) \in SasObjects
<1>1. ASSUME m.type = "accept" PROVE ReceiveAccept(s, m) \in SasObjects
  <2>1. m.agreement \in Protocols /\ m.commitment \in Keys \X SUBSET Protocols
    BY <1>1 DEF Messages
  <2> QED
    BY <1>1, <2>1 DEF ReceiveAccept, Cancel, SasObjects, States
<1>2. ASSUME m.type = "key" PROVE ReceiveKey(s, m) \in SasObjects
  <2>1. m.key \in Keys
    BY <1>2 DEF Messages
  <2> QED
    BY <1>2, <2>1 DEF ReceiveKey, Cancel, SasObjects, States
<1>3. ASSUME m.type = "mac" PROVE ReceiveMac(d, s, m) \in SasObjects
  <2>1. ReceiveMac(d, s, m) \in {s, Cancel(s), [s EXCEPT !.state = "mac_received"]}
    BY DEF ReceiveMac
  <2>2. Cancel(s) \in SasObjects /\ [s EXCEPT !.state = "mac_received"] \in SasObjects
    BY SasUpdates, ZenonT(40) DEF SasObjects, States
  <2> QED
    BY <2>1, <2>2
<1> QED
  BY <1>1, <1>2, <1>3

LEMMA NewSasTypes ==
    ASSUME TypeOK, NEW d \in Devices, made[d] < MaxSas[d], NEW offer \in SUBSET Protocols
    PROVE  /\ <<d, made[d] + 1>> \in Keys
           /\ NewSas(d, offer) \in SasObjects
           /\ SasFromStart(d, offer) \in SasObjects
<1>1. made[d] \in Nat /\ MaxSas[d] \in Nat
  BY DevicesAssumption DEF TypeOK
<1>2. <<d, made[d] + 1>> \in {d} \X (1..MaxSas[d])
  BY <1>1
<1>3. <<d, made[d] + 1>> \in Keys
  BY <1>2 DEF Keys
<1>4. NewSas(d, offer) \in SasObjects
  BY <1>3 DEF NewSas, SasObjects, States, Ages
<1>5. SasFromStart(d, offer) \in SasObjects
  BY <1>3, <1>4 DEF SasFromStart, SasObjects, States, Cancel
<1> QED
  BY <1>3, <1>4, <1>5

LEMMA MessageTypes ==
    ASSUME NEW d \in Devices, NEW t \in Txns
    PROVE  /\ Cancellation(d, t) \in Messages
           /\ \A s \in SasObjects :
                /\ StartMessage(d, t, s) \in Messages
                /\ KeyMessage(d, t, s) \in Messages
                /\ (s.agreement # None /\ s.commitment # None) =>
                        AcceptMessage(d, t, s) \in Messages
                /\ \A keys \in MacKeys : s.theirs # None =>
                        MacMessage(d, t, s, keys) \in Messages
<1>1. Other(d) \in Devices
  BY OtherDevice
<1>2. Cancellation(d, t) \in Messages
  BY <1>1 DEF Cancellation, Messages
<1>3. ASSUME NEW s \in SasObjects
      PROVE  StartMessage(d, t, s) \in Messages /\ KeyMessage(d, t, s) \in Messages
  BY <1>1, <1>3 DEF StartMessage, KeyMessage, Messages, SasObjects
<1>4. ASSUME NEW s \in SasObjects, s.agreement # None, s.commitment # None
      PROVE  AcceptMessage(d, t, s) \in Messages
  BY <1>1, <1>4 DEF AcceptMessage, Messages, SasObjects
<1>5. ASSUME NEW s \in SasObjects, NEW keys \in MacKeys, s.theirs # None
      PROVE  MacMessage(d, t, s, keys) \in Messages
  BY <1>1, <1>5, DevicesAssumption DEF MacMessage, Secret, Messages, SasObjects
<1> QED
  BY <1>2, <1>3, <1>4, <1>5

(* Marks and right records are never taken back, so an object that is left *)
(* alone stays as good as it was.                                          *)
LEMMA ObjectStays ==
    ASSUME NEW d \in Devices, NEW s,
           trusted \subseteq trusted', record[d] = "right" => record'[d] = "right",
           ObjectOk(d, s)
    PROVE  ObjectOk(d, s)'
  BY DEF ObjectOk, Verified

(* The common shape of the steps: one object changes on one device, marks  *)
(* only grow, records stay, messages are taken and good ones queued.       *)
LEMMA PutKeeps ==
    ASSUME TrustInv, NEW d \in Devices, NEW t \in Txns, NEW s,
           Put(d, t, s), s # None => ObjectOk(d, s)',
           s \in SasObjects \cup {None},
           trusted' \in {trusted, trusted \cup {d}},
           CoversDevice => (d \in trusted' => record[d] = "right"),
           UNCHANGED record, made' \in [Devices -> Nat], repeats' \in 0..MaxRepeats,
           \A m \in net' : MessageOk(m)
    PROVE  TrustInv'
<1>1. \A e \in Devices, u \in Txns :
        sas'[e][u] = IF e = d /\ u = t THEN s ELSE sas[e][u]
  BY DEF TrustInv, Others, Put
<1>2. Others'
  BY <1>1 DEF TrustInv, Others, Put, MarkedKeyIsRight
<1>3. ASSUME NEW e \in Devices, NEW u \in Txns, Known(e, u)'
      PROVE  ObjectOk(e, sas[e][u])'
  <2>1. CASE e = d /\ u = t
    BY <1>1, <1>3, <2>1 DEF Known
  <2>2. CASE ~(e = d /\ u = t)
    <3>1. sas'[e][u] = sas[e][u] /\ Known(e, u)
      BY <1>1, <1>3, <2>2 DEF Known
    <3>2. ObjectOk(e, sas[e][u])
      BY <3>1 DEF TrustInv
    <3> QED
      BY <3>1, <3>2 DEF ObjectOk, Verified
  <2> QED
    BY <2>1, <2>2
<1> QED
  BY <1>2, <1>3 DEF TrustInv, MessageOk

LEMMA TrustTypes ==
    ASSUME TrustInv
    PROVE  TypeOK
  BY DEF TrustInv, Others, MessageOk, TypeOK

LEMMA TakeKeeps ==
    ASSUME TrustInv, NEW m, NEW answers, Take(m, answers),
           \A a \in answers : MessageOk(a)
    PROVE  repeats' \in 0..MaxRepeats /\ \A n \in net' : MessageOk(n)
  BY DevicesAssumption DEF TrustInv, Others, Take

LEMMA CancellationOk ==
    ASSUME NEW d \in Devices, NEW t \in Txns
    PROVE  MessageOk(Cancellation(d, t))
  BY MessageTypes DEF MessageOk, Cancellation

LEMMA KeepStart ==
    ASSUME TrustInv, NEW d \in Devices, NEW offer \in Offers, StartKeyVerification(d, offer)
    PROVE  TrustInv'
<1>1. /\ TypeOK /\ offer \in SUBSET Protocols
      /\ made[d] \in Nat /\ made[d] < MaxSas[d]
  <2>1. TypeOK
    BY TrustTypes
  <2>2. made[d] \in Nat /\ MaxStarts[d] \in Nat /\ MaxSas[d] \in Nat /\ MaxStarts[d] <= MaxSas[d]
    BY <2>1, DevicesAssumption DEF TypeOK
  <2> QED
    BY <2>1, <2>2, DevicesAssumption DEF StartKeyVerification, Protocols
<1>2. PICK s \in {NewSas(d, offer)} : \E t \in {s.key} :
        Put(d, t, s) /\ Send({StartMessage(d, t, s)})
  BY DEF StartKeyVerification
<1>3. s \in SasObjects /\ s.key \in Txns
  BY <1>1, <1>2, NewSasTypes DEF NewSas, Txns
<1>4. MessageOk(StartMessage(d, s.key, s))
  BY <1>3, MessageTypes DEF MessageOk, StartMessage
<1>5. ObjectOk(d, s)'
  BY <1>2, <1>3 DEF ObjectOk, NewSas, Verified
<1>6. /\ made' \in [Devices -> Nat] /\ UNCHANGED <<record, trusted>>
      /\ repeats' \in 0..MaxRepeats
      /\ \A m \in net' : MessageOk(m)
  BY <1>1, <1>2, <1>4 DEF StartKeyVerification, Send, TrustInv, Others
<1>7. CoversDevice => (d \in trusted' => record[d] = "right")
  BY <1>6 DEF TrustInv, Others, MarkedKeyIsRight
<1>8. Put(d, s.key, s)
  BY <1>2
<1> QED
  BY <1>3, <1>5, <1>6, <1>7, <1>8, PutKeeps

LEMMA KeepAccept ==
    ASSUME TrustInv, NEW d \in Devices, NEW t \in Txns, AcceptKeyVerification(d, t)
    PROVE  TrustInv'
<1>1. ObjectOk(d, sas[d][t]) /\ Known(d, t)
  BY DEF TrustInv, AcceptKeyVerification
<1>2. PICK p \in Protocols : \E s \in {[sas[d][t] EXCEPT !.agreement = p]} :
        Put(d, t, s) /\ Send({AcceptMessage(d, t, s)})
  BY DEF AcceptKeyVerification, Protocols
<1>3. PICK s \in {[sas[d][t] EXCEPT !.agreement = p]} :
        Put(d, t, s) /\ Send({AcceptMessage(d, t, s)})
  BY <1>2
<1>4. s \in SasObjects
  BY <1>1, <1>3, SasUpdates DEF ObjectOk
<1>5. s.agreement = p /\ s.commitment = sas[d][t].commitment
  BY <1>1, <1>3 DEF ObjectOk, SasObjects
<1>6. /\ UNCHANGED <<made, record, trusted, repeats>>
      /\ ~sas[d][t].we_started_it
  BY DEF AcceptKeyVerification
<1>7. ASSUME None \in Protocols PROVE FALSE
  BY <1>7, NoneAssumption DEF Protocols
<1>8. MessageOk(AcceptMessage(d, t, s))
  BY <1>1, <1>4, <1>5, <1>6, <1>7, MessageTypes DEF MessageOk, AcceptMessage, ObjectOk
<1>9. ObjectOk(d, s)'
  BY <1>1, <1>3, <1>4, <1>5, <1>6, <1>7 DEF ObjectOk, Verified, SasObjects
<1>10. \A m \in net' : MessageOk(m)
  BY <1>3, <1>8 DEF Send, TrustInv
<1>11. made' \in [Devices -> Nat] /\ repeats' \in 0..MaxRepeats /\ (CoversDevice => (d \in trusted' => record[d] = "right"))
  BY <1>6 DEF TrustInv, Others, MarkedKeyIsRight
<1> QED
  BY <1>3, <1>4, <1>6, <1>9, <1>10, <1>11, PutKeeps

LEMMA KeepConfirm ==
    ASSUME TrustInv, NEW d \in Devices, NEW t \in Txns, NEW keys \in MacKeys,
           ConfirmShortAuthString(d, t, keys)
    PROVE  TrustInv'
<1>1. ObjectOk(d, sas[d][t]) /\ Known(d, t)
  BY DEF TrustInv, ConfirmShortAuthString
<1>2. PICK s \in {[sas[d][t] EXCEPT !.sas_accepted = TRUE]} :
        /\ Put(d, t, s)
        /\ IF s.agreement = None
           THEN UNCHANGED <<net, trusted, confirmed, agreed>>
           ELSE /\ Send({MacMessage(d, t, s, keys)})
                /\ confirmed' = confirmed \cup {<<d, ShortString(d, t, s)>>}
                /\ MarkIfVerified(d, t, s)
  BY DEF ConfirmShortAuthString
<1>3. s \in SasObjects
  BY <1>1, <1>2, SasUpdates DEF ObjectOk
<1>4. /\ UNCHANGED <<made, record, repeats>>
      /\ s.theirs # None /\ s.state = sas[d][t].state
      /\ s.we_started_it = sas[d][t].we_started_it /\ s.commitment = sas[d][t].commitment
  BY <1>1, <1>2 DEF ConfirmShortAuthString, ObjectOk, SasObjects
<1>5. MessageOk(MacMessage(d, t, s, keys))
  BY <1>3, <1>4, MessageTypes DEF MessageOk, MacMessage
<1>6. /\ trusted' \in {trusted, trusted \cup {d}}
      /\ s.agreement # None => (Verified(s) => d \in trusted')
      /\ s.agreement = None => UNCHANGED trusted
      /\ d \in trusted' => (d \in trusted \/ Verified(s))
  BY <1>2 DEF MarkIfVerified
<1>7. CoversDevice => (d \in trusted' => record[d] = "right")
  BY <1>1, <1>4, <1>6 DEF TrustInv, Others, MarkedKeyIsRight, ObjectOk, Verified
<1>8. s.state = "mac_received" => s.agreement # None
  BY <1>1, <1>2, <1>4 DEF ObjectOk, SasObjects
<1>9. ObjectOk(d, s)'
  BY <1>1, <1>3, <1>4, <1>6, <1>8 DEF ObjectOk, Verified
<1>10. \A m \in net' : MessageOk(m)
  BY <1>2, <1>5 DEF Send, TrustInv
<1>11. made' \in [Devices -> Nat] /\ repeats' \in 0..MaxRepeats
  BY <1>4 DEF TrustInv, Others
<1> QED
  BY <1>2, <1>3, <1>4, <1>6, <1>7, <1>9, <1>10, <1>11, PutKeeps

LEMMA KeepCancel ==
    ASSUME TrustInv, NEW d \in Devices, NEW t \in Txns, CancelKeyVerification(d, t)
    PROVE  TrustInv'
<1>1. ObjectOk(d, sas[d][t]) /\ Known(d, t)
  BY DEF TrustInv, CancelKeyVerification
<1>2. PICK s : s = Cancel(sas[d][t])
  OBVIOUS
<1>3. s \in SasObjects /\ Put(d, t, s) /\ Send({Cancellation(d, t)})
  BY <1>1, <1>2, SasUpdates DEF ObjectOk, CancelKeyVerification
<1>4. /\ UNCHANGED <<made, record, repeats, trusted>>
      /\ s.state = "canceled"
      /\ s.we_started_it = sas[d][t].we_started_it /\ s.commitment = sas[d][t].commitment
  BY <1>1, <1>2 DEF CancelKeyVerification, ObjectOk, SasObjects, Cancel
<1>5. ObjectOk(d, s)'
  BY <1>1, <1>3, <1>4 DEF ObjectOk, Verified
<1>6. \A m \in net' : MessageOk(m)
  BY <1>3, CancellationOk DEF Send, TrustInv
<1>7. made' \in [Devices -> Nat] /\ repeats' \in 0..MaxRepeats /\ (CoversDevice => (d \in trusted' => record[d] = "right"))
  BY <1>4 DEF TrustInv, Others, MarkedKeyIsRight
<1> QED
  BY <1>3, <1>4, <1>5, <1>6, <1>7, PutKeeps

LEMMA KeepHandleAccept ==
    ASSUME TrustInv, NEW m \in net, HandleAccept(m)
    PROVE  TrustInv'
<1>1. /\ MessageOk(m) /\ m.to \in Devices /\ m.txn \in Txns /\ m.type = "accept"
      /\ m \in Messages
  BY DEF TrustInv, MessageOk, Messages, HandleAccept
<1>2. ObjectOk(m.to, sas[m.to][m.txn])
  BY <1>1 DEF TrustInv, HandleAccept
<1>3. PICK s \in {ReceiveAccept(sas[m.to][m.txn], m)} :
        /\ Put(m.to, m.txn, s)
        /\ Take(m, {IF Canceled(s) THEN Cancellation(m.to, m.txn)
                                   ELSE KeyMessage(m.to, m.txn, s)})
  BY DEF HandleAccept
<1>4. s \in SasObjects
  BY <1>1, <1>2, <1>3, ReceiveTypes DEF ObjectOk
<1>5. s.state \in {"canceled", "accepted"} /\ (~s.we_started_it => s.commitment # None)
  <2>1. m.commitment \in Keys \X SUBSET Protocols
    BY <1>1 DEF Messages
  <2>2. m.commitment # None
    BY <2>1, NoneAssumption
  <2> DEFINE o == sas[m.to][m.txn]
  <2>3. CASE s = Cancel(o)
    BY <1>2, <2>3 DEF Cancel, ObjectOk, SasObjects
  <2>4. CASE s = [o EXCEPT !.agreement = m.agreement, !.commitment = m.commitment,
                           !.state = "accepted"]
    BY <1>2, <2>2, <2>4 DEF ObjectOk, SasObjects
  <2> QED
    BY <1>3, <2>3, <2>4 DEF ReceiveAccept
<1>6. MessageOk(Cancellation(m.to, m.txn)) /\ MessageOk(KeyMessage(m.to, m.txn, s))
  BY <1>1, <1>4, MessageTypes, CancellationOk DEF MessageOk, KeyMessage
<1>7. repeats' \in 0..MaxRepeats /\ \A n \in net' : MessageOk(n)
  BY <1>3, <1>6, TakeKeeps
<1>8. UNCHANGED <<made, record, trusted>>
  BY DEF HandleAccept
<1>9. ObjectOk(m.to, s)'
  BY <1>4, <1>5 DEF ObjectOk, Verified
<1>10. made' \in [Devices -> Nat] /\ (CoversDevice => (m.to \in trusted' => record[m.to] = "right"))
  BY <1>8 DEF TrustInv, Others, MarkedKeyIsRight
<1> QED
  BY <1>1, <1>3, <1>4, <1>7, <1>8, <1>9, <1>10, PutKeeps

LEMMA KeepHandleKey ==
    ASSUME TrustInv, NEW m \in net, HandleKey(m)
    PROVE  TrustInv'
<1>1. /\ MessageOk(m) /\ m.to \in Devices /\ m.txn \in Txns /\ m.type = "key"
      /\ m \in Messages
  BY DEF TrustInv, MessageOk, Messages, HandleKey
<1>2. ObjectOk(m.to, sas[m.to][m.txn])
  BY <1>1 DEF TrustInv, HandleKey
<1>3. PICK s \in {ReceiveKey(sas[m.to][m.txn], m)} :
        /\ Put(m.to, m.txn, s)
        /\ Take(m, CASE Canceled(s) -> {Cancellation(m.to, m.txn)}
                     [] s.we_started_it /\ ~Canceled(s) -> {}
                     [] OTHER -> {KeyMessage(m.to, m.txn, s)})
  BY DEF HandleKey
<1>4. s \in SasObjects
  BY <1>1, <1>2, <1>3, ReceiveTypes DEF ObjectOk
<1>5. s.state \in {"canceled", "key_received"} /\ (~s.we_started_it => s.commitment # None)
  BY <1>2, <1>3 DEF ReceiveKey, Cancel, ObjectOk, SasObjects
<1>6. MessageOk(Cancellation(m.to, m.txn)) /\ MessageOk(KeyMessage(m.to, m.txn, s))
  BY <1>1, <1>4, MessageTypes, CancellationOk DEF MessageOk, KeyMessage
<1>7. repeats' \in 0..MaxRepeats /\ \A n \in net' : MessageOk(n)
  <2>1. PICK answers \in {{Cancellation(m.to, m.txn)}, {}, {KeyMessage(m.to, m.txn, s)}} :
            Take(m, answers)
    BY <1>3
  <2> QED
    BY <1>6, <2>1, TakeKeeps
<1>8. UNCHANGED <<made, record, trusted>>
  BY DEF HandleKey
<1>9. ObjectOk(m.to, s)'
  BY <1>4, <1>5 DEF ObjectOk, Verified
<1>10. made' \in [Devices -> Nat] /\ (CoversDevice => (m.to \in trusted' => record[m.to] = "right"))
  BY <1>8 DEF TrustInv, Others, MarkedKeyIsRight
<1> QED
  BY <1>1, <1>3, <1>4, <1>7, <1>8, <1>9, <1>10, PutKeeps

LEMMA KeepHandleMac ==
    ASSUME TrustInv, NEW m \in net, HandleMac(m)
    PROVE  TrustInv'
<1>1. /\ MessageOk(m) /\ m.to \in Devices /\ m.txn \in Txns /\ m.type = "mac"
      /\ m \in Messages /\ (CoversDevice => "device" \in m.keys)
  BY DEF TrustInv, MessageOk, Messages, HandleMac, CoversDevice
<1>2. ObjectOk(m.to, sas[m.to][m.txn])
  BY <1>1 DEF TrustInv, HandleMac
<1>3. PICK s \in {ReceiveMac(m.to, sas[m.to][m.txn], m)} :
        /\ Put(m.to, m.txn, s)
        /\ Take(m, IF Canceled(s) THEN {Cancellation(m.to, m.txn)} ELSE {})
        /\ MarkIfVerified(m.to, m.txn, s)
  BY DEF HandleMac
<1>4. s \in SasObjects
  BY <1>1, <1>2, <1>3, ReceiveTypes DEF ObjectOk
<1>5. /\ ~s.we_started_it => s.commitment # None
      /\ s.state = "mac_received" => s.agreement # None
      /\ s.state = "mac_received" => (CoversDevice => record[m.to] = "right")
  <2> DEFINE o == sas[m.to][m.txn]
             r == [o EXCEPT !.state = "mac_received"]
  <2>1. \/ s = o
        \/ s = Cancel(o)
        \/ s = r /\ MacOk(m.to, o, m) /\ o.agreement # None
    BY <1>3 DEF ReceiveMac
  <2>2. CASE s = o
    BY <1>2, <2>2 DEF ObjectOk
  <2>3. CASE s = Cancel(o)
    BY <1>2, <2>3 DEF ObjectOk, Cancel, SasObjects
  <2>4. CASE s = r /\ MacOk(m.to, o, m) /\ o.agreement # None
    <3>1. s.we_started_it = o.we_started_it /\ s.commitment = o.commitment /\ s.agreement = o.agreement
      BY <1>2, <2>4 DEF ObjectOk, SasObjects
    <3> QED
      BY <1>1, <1>2, <2>4, <3>1 DEF ObjectOk, MacOk
  <2> QED
    BY <2>1, <2>2, <2>3, <2>4
<1>6. repeats' \in 0..MaxRepeats /\ \A n \in net' : MessageOk(n)
  <2>1. PICK answers \in {{Cancellation(m.to, m.txn)}, {}} : Take(m, answers)
    BY <1>3
  <2> QED
    BY <1>1, <2>1, TakeKeeps, CancellationOk
<1>7. /\ trusted' \in {trusted, trusted \cup {m.to}}
      /\ Verified(s) => m.to \in trusted'
      /\ m.to \in trusted' => (m.to \in trusted \/ Verified(s))
  BY <1>3 DEF MarkIfVerified
<1>8. UNCHANGED <<made, record>>
  BY DEF HandleMac
<1>9. ObjectOk(m.to, s)'
  BY <1>4, <1>5, <1>7, <1>8 DEF ObjectOk, Verified
<1>10. made' \in [Devices -> Nat] /\ (CoversDevice => (m.to \in trusted' => record[m.to] = "right"))
  BY <1>5, <1>7, <1>8 DEF TrustInv, Others, MarkedKeyIsRight, Verified
<1> QED
  BY <1>1, <1>3, <1>4, <1>6, <1>7, <1>8, <1>9, <1>10, PutKeeps

LEMMA KeepHandleCancel ==
    ASSUME TrustInv, NEW m \in net, HandleCancel(m)
    PROVE  TrustInv'
<1>1. m.to \in Devices /\ m.txn \in Txns
  BY DEF TrustInv, MessageOk, Messages, HandleCancel
<1>2. repeats' \in 0..MaxRepeats /\ \A n \in net' : MessageOk(n)
  BY TakeKeeps DEF HandleCancel
<1>3. UNCHANGED <<made, record, trusted>> /\ Put(m.to, m.txn, None)
  BY DEF HandleCancel
<1>4. made' \in [Devices -> Nat] /\ (CoversDevice => (m.to \in trusted' => record[m.to] = "right"))
  BY <1>3 DEF TrustInv, Others, MarkedKeyIsRight
<1> QED
  BY <1>1, <1>2, <1>3, <1>4, PutKeeps

(* A step that leaves the objects and the marks alone.                     *)
LEMMA IdleKeeps ==
    ASSUME TrustInv, UNCHANGED <<sas, trusted>>,
           made' \in [Devices -> Nat], repeats' \in 0..MaxRepeats,
           record' \in [Devices -> {"unknown", "querying", "right", "stale"}],
           \A d \in Devices : record[d] = "right" => record'[d] = "right",
           \A m \in net' : MessageOk(m)
    PROVE  TrustInv'
<1>1. Others'
  BY DEF TrustInv, Others, MarkedKeyIsRight
<1>2. ASSUME NEW d \in Devices, NEW t \in Txns, Known(d, t)'
      PROVE  ObjectOk(d, sas[d][t])'
  <2>1. ObjectOk(d, sas[d][t])
    BY <1>2 DEF TrustInv, Known
  <2> QED
    BY <2>1 DEF ObjectOk, Verified
<1> QED
  BY <1>1, <1>2 DEF TrustInv, MessageOk

LEMMA KeepIdle ==
    ASSUME TrustInv, NEW m \in net,
           StartFromUnknownDevice(m) \/ HandleUnknownTransaction(m) \/ Lose(m)
    PROVE  TrustInv'
<1>1. m.to \in Devices
  BY DEF TrustInv, MessageOk, Messages
<1>2. CASE StartFromUnknownDevice(m)
  <2>1. repeats' \in 0..MaxRepeats /\ \A n \in net' : MessageOk(n)
    BY <1>2, TakeKeeps DEF StartFromUnknownDevice
  <2>2. /\ record' \in [Devices -> {"unknown", "querying", "right", "stale"}]
        /\ \A d \in Devices : record[d] = "right" => record'[d] = "right"
    BY <1>1, <1>2 DEF StartFromUnknownDevice, TrustInv, Others
  <2>3. UNCHANGED <<sas, trusted>> /\ made' \in [Devices -> Nat]
    BY <1>2 DEF StartFromUnknownDevice, TrustInv, Others
  <2> QED
    BY <2>1, <2>2, <2>3, IdleKeeps
<1>3. CASE HandleUnknownTransaction(m)
  <2>1. repeats' \in 0..MaxRepeats /\ \A n \in net' : MessageOk(n)
    BY <1>3, TakeKeeps DEF HandleUnknownTransaction
  <2>2. UNCHANGED <<sas, trusted, made, record>>
    BY <1>3 DEF HandleUnknownTransaction
  <2> QED
    BY <2>1, <2>2, IdleKeeps DEF TrustInv, Others
<1>4. CASE Lose(m)
  BY <1>4, IdleKeeps DEF Lose, TrustInv, Others
<1> QED
  BY <1>2, <1>3, <1>4

LEMMA KeepLearn ==
    ASSUME TrustInv, NEW d \in Devices, LearnDevice(d)
    PROVE  TrustInv'
<1>1. /\ record' \in [Devices -> {"unknown", "querying", "right", "stale"}]
      /\ \A e \in Devices : record[e] = "right" => record'[e] = "right"
  BY DEF LearnDevice, TrustInv, Others
<1> QED
  BY <1>1, IdleKeeps DEF LearnDevice, TrustInv, Others

(* A step that replaces the objects of one device by good ones.            *)
LEMMA DeviceKeeps ==
    ASSUME TrustInv, NEW d \in Devices, NEW f,
           sas' = [sas EXCEPT ![d] = f],
           f \in [Txns -> SasObjects \cup {None}],
           \A t \in Txns : f[t] # None => ObjectOk(d, f[t]),
           UNCHANGED <<record, trusted>>,
           made' \in [Devices -> Nat], repeats' \in 0..MaxRepeats,
           \A m \in net' : MessageOk(m)
    PROVE  TrustInv'
<1>1. \A e \in Devices : sas'[e] = IF e = d THEN f ELSE sas[e]
  BY DEF TrustInv, Others
<1>2. Others'
  BY DEF TrustInv, Others, MarkedKeyIsRight
<1>3. ASSUME NEW e \in Devices, NEW t \in Txns, Known(e, t)'
      PROVE  ObjectOk(e, sas[e][t])'
  <2>1. ObjectOk(e, sas'[e][t])
    BY <1>1, <1>3 DEF TrustInv, Known
  <2> QED
    BY <2>1 DEF ObjectOk, Verified
<1> QED
  BY <1>2, <1>3 DEF TrustInv, MessageOk

LEMMA KeepRestart ==
    ASSUME TrustInv, NEW d \in Devices, Restart(d)
    PROVE  TrustInv'
<1>1. PICK f : f = [t \in Txns |-> None]
  OBVIOUS
<1>2. f \in [Txns -> SasObjects \cup {None}] /\ \A t \in Txns : f[t] = None
  BY <1>1
<1>3. sas' = [sas EXCEPT ![d] = f] /\ UNCHANGED <<made, record, trusted, net, repeats>>
  BY <1>1 DEF Restart
<1>4. /\ made' \in [Devices -> Nat] /\ repeats' \in 0..MaxRepeats
      /\ \A m \in net' : MessageOk(m)
  BY <1>3 DEF TrustInv, Others
<1>5. \A t \in Txns : f[t] # None => ObjectOk(d, f[t])
  BY <1>2
<1> QED
  BY <1>2, <1>3, <1>4, <1>5, DeviceKeeps

LEMMA KeepClear ==
    ASSUME TrustInv, NEW d \in Devices, ClearVerifications(d)
    PROVE  TrustInv'
<1> DEFINE expired == {t \in Txns : Known(d, t) /\ TimedOut(sas[d][t])}
           old == {t \in Txns : Known(d, t) /\ sas[d][t].age = "dead"
                                /\ (Canceled(sas[d][t]) \/ Verified(sas[d][t]))}
<1>1. PICK gone : gone = expired \cup old
  OBVIOUS
<1>2. PICK f : f = [t \in Txns |-> IF t \in gone THEN None ELSE sas[d][t]]
  OBVIOUS
<1>3. /\ sas' = [sas EXCEPT ![d] = f]
      /\ Send({Cancellation(d, t) : t \in expired})
      /\ UNCHANGED <<made, record, trusted, repeats>>
  BY <1>1, <1>2 DEF ClearVerifications, TrustInv, Others
<1>4. /\ f \in [Txns -> SasObjects \cup {None}]
      /\ \A t \in Txns : f[t] # None => ObjectOk(d, f[t])
  BY <1>2 DEF TrustInv, Others, Known
<1>5. \A m \in net' : MessageOk(m)
  BY <1>3, CancellationOk DEF Send, TrustInv
<1> QED
  BY <1>3, <1>4, <1>5, DeviceKeeps DEF TrustInv, Others

LEMMA KeepAge ==
    ASSUME TrustInv, NEW d \in Devices, NEW t \in Txns, Age(d, t)
    PROVE  TrustInv'
<1>1. ObjectOk(d, sas[d][t]) /\ Known(d, t)
  BY DEF TrustInv, Age
<1>2. PICK a \in Ages : Put(d, t, [sas[d][t] EXCEPT !.age = a])
  BY <1>1 DEF Age, Ages, ObjectOk, SasObjects
<1>3. PICK s : s = [sas[d][t] EXCEPT !.age = a]
  OBVIOUS
<1>4. s \in SasObjects /\ Put(d, t, s)
  BY <1>1, <1>2, <1>3, SasUpdates DEF ObjectOk
<1>5. ObjectOk(d, s)
  BY <1>1, <1>3, <1>4 DEF ObjectOk, SasObjects, Verified
<1>6. UNCHANGED <<made, record, trusted, net, repeats>>
  BY DEF Age
<1>7. ObjectOk(d, s)'
  BY <1>5, <1>6 DEF ObjectOk
<1> QED
  BY <1>4, <1>6, <1>7, PutKeeps DEF TrustInv, Others, MarkedKeyIsRight

LEMMA KeepHandleStart ==
    ASSUME TrustInv, NEW m \in net, HandleStart(m)
    PROVE  TrustInv'
<1> DEFINE d == m.to
<1>1. /\ m \in Messages /\ d \in Devices /\ m.txn \in Txns /\ m.type = "start"
      /\ m.offer \in SUBSET Protocols
  BY DEF TrustInv, MessageOk, Messages, HandleStart
<1>2. TypeOK /\ UNCHANGED <<record, trusted>>
  BY TrustTypes DEF HandleStart
<1>3. CASE Canceled(SasFromStart(d, m.offer))
  <2>1. Take(m, {Cancellation(d, m.txn)}) /\ UNCHANGED <<sas, made>>
    BY <1>3 DEF HandleStart
  <2>2. repeats' \in 0..MaxRepeats /\ \A n \in net' : MessageOk(n)
    BY <1>1, <2>1, CancellationOk, TakeKeeps
  <2> QED
    BY <1>2, <2>1, <2>2, IdleKeeps DEF TrustInv, Others
<1>4. CASE ~Canceled(SasFromStart(d, m.offer))
  <2>1. PICK new : new = SasFromStart(d, m.offer)
    OBVIOUS
  <2>2. PICK old : old = ActiveSas(d)
    OBVIOUS
  <2>3. PICK f : f = [t \in Txns |-> IF t = m.txn THEN new
                                     ELSE IF t \in old THEN Cancel(sas[d][t]) ELSE sas[d][t]]
    OBVIOUS
  <2>4. /\ made[d] < MaxSas[d]
        /\ made' = [made EXCEPT ![d] = @ + 1]
        /\ sas' = [sas EXCEPT ![d] = f]
        /\ Take(m, {Cancellation(d, t) : t \in old})
    BY <1>1, <1>4, <2>1, <2>2, <2>3 DEF HandleStart, TrustInv, Others
  <2>5. new \in SasObjects /\ ObjectOk(d, new)
    <3>1. new \in SasObjects /\ <<d, made[d] + 1>> \in Keys
      BY <1>1, <1>2, <2>1, <2>4, NewSasTypes
    <3>2. <<<<d, made[d] + 1>>, m.offer>> # None
      BY <1>1, <3>1, NoneAssumption
    <3>3. new.state = "started" /\ new.commitment # None
      BY <1>4, <2>1, <3>2 DEF SasFromStart, NewSas, Cancel, Canceled
    <3> QED
      BY <3>1, <3>3 DEF ObjectOk, Verified
  <2>6. \A t \in old : t \in Txns /\ Known(d, t)
    BY <2>2 DEF ActiveSas
  <2>7. ASSUME NEW t \in Txns, f[t] # None
        PROVE  ObjectOk(d, f[t])
    <3>1. CASE t = m.txn
      BY <2>3, <2>5, <3>1
    <3>2. CASE t # m.txn /\ t \in old
      <4>1. ObjectOk(d, sas[d][t]) /\ f[t] = Cancel(sas[d][t])
        BY <1>1, <2>3, <2>6, <3>2 DEF TrustInv
      <4>2. f[t] \in SasObjects
        BY <4>1, SasUpdates DEF ObjectOk
      <4>3. /\ f[t].state = "canceled"
            /\ f[t].we_started_it = sas[d][t].we_started_it
            /\ f[t].commitment = sas[d][t].commitment
        BY <4>1 DEF ObjectOk, Cancel, SasObjects
      <4> QED
        BY <4>1, <4>2, <4>3 DEF ObjectOk, Verified
    <3>3. CASE t # m.txn /\ t \notin old
      BY <1>1, <2>3, <2>7, <3>3 DEF TrustInv, Known
    <3> QED
      BY <3>1, <3>2, <3>3
  <2>8. f \in [Txns -> SasObjects \cup {None}]
    BY <2>3, <2>7 DEF ObjectOk
  <2>9. repeats' \in 0..MaxRepeats /\ \A n \in net' : MessageOk(n)
    <3>1. \A a \in {Cancellation(d, t) : t \in old} : MessageOk(a)
      BY <1>1, <2>6, CancellationOk
    <3> QED
      BY <2>4, <3>1, TakeKeeps
  <2>10. made' \in [Devices -> Nat]
    BY <1>1, <1>2, <2>4 DEF TypeOK
  <2> QED
    BY <1>1, <1>2, <2>4, <2>7, <2>8, <2>9, <2>10, DeviceKeeps
<1> QED
  BY <1>3, <1>4

-----------------------------------------------------------------------------
LEMMA TrustStep ==
    ASSUME TrustInv, [Next]_vars
    PROVE  TrustInv'
<1>1. CASE HandleKeyVerification
  BY <1>1, KeepIdle, KeepHandleStart, KeepHandleAccept, KeepHandleCancel, KeepHandleKey,
     KeepHandleMac DEF HandleKeyVerification
<1>2. ASSUME NEW d \in Devices, UserStep(d)
      PROVE  TrustInv'
  BY <1>2, KeepStart, KeepAccept, KeepConfirm, KeepCancel DEF UserStep
<1>3. ASSUME NEW d \in Devices,
             \/ ClearVerifications(d) \/ LearnDevice(d) \/ Restart(d)
             \/ \E t \in Txns : Age(d, t)
      PROVE  TrustInv'
  BY <1>3, KeepClear, KeepLearn, KeepRestart, KeepAge
<1>4. ASSUME NEW m \in net, Lose(m)
      PROVE  TrustInv'
  BY <1>4, KeepIdle
<1>5. CASE UNCHANGED vars
  BY <1>5, IdleKeeps DEF vars, TrustInv, Others
<1> QED
  BY <1>1, <1>2, <1>3, <1>4, <1>5 DEF Next

LEMMA TrustInit ==
    ASSUME Init
    PROVE  TrustInv
<1>1. \A d \in Devices, t \in Txns : ~Known(d, t)
  BY DEF Init, Known
<1>2. record \in [Devices -> {"unknown", "querying", "right", "stale"}]
  <2>1. record \in [Devices -> Records]
    BY DEF Init
  <2>2. Records \subseteq {"unknown", "right", "stale"}
    BY DevicesAssumption
  <2> QED
    BY <2>1, <2>2
<1>3. sas \in [Devices -> [Txns -> SasObjects \cup {None}]]
  BY DEF Init
<1>4. Others
  <2>1. MaxRepeats \in Nat
    BY DevicesAssumption
  <2> QED
    BY <1>2, <1>3, <2>1 DEF Init, Others, MarkedKeyIsRight
<1> QED
  BY <1>1, <1>4 DEF TrustInv, Init

(* The inductive invariant behind the theorems below: what handle_key_     *)
(* verification and the calls of the users keep true of every object and   *)
(* message.                                                                *)
THEOREM TrustInvariant == Spec => []TrustInv
  BY TrustInit, TrustStep, PTL DEF Spec

(* The state of sas.py and of the verification part of olm_machine.py      *)
(* keeps its types.                                                        *)
THEOREM TypeCorrect == Spec => []TypeOK
  BY TrustInvariant, TrustTypes, PTL

(* Whichever of the user's confirmation and the MAC comes first            *)
(* (confirm_key_verification, handle_key_verification), an exchange that   *)
(* is verified has marked the device in the store.                         *)
THEOREM VerifiedMarks == Spec => []VerifiedIsMarked
<1>1. TrustInv => VerifiedIsMarked
  BY DEF TrustInv, ObjectOk, VerifiedIsMarked
<1> QED
  BY <1>1, TrustInvariant, PTL

(* receive_mac_event compares the key on record: when MAC messages cover   *)
(* the device's own key, as get_mac does, a device with another key on     *)
(* record is never marked.                                                 *)
THEOREM MarkedRight == CoversDevice => (Spec => []MarkedKeyIsRight)
<1>1. SUFFICES ASSUME CoversDevice PROVE Spec => []MarkedKeyIsRight
  OBVIOUS
<1>2. TrustInv => MarkedKeyIsRight
  BY <1>1 DEF TrustInv, Others
<1> QED
  BY <1>2, TrustInvariant, PTL

-----------------------------------------------------------------------------
(* Both sides of an exchange                                               *)

(* the string of transaction t, offered as "offer", when the device that   *)
(* did not start it has key k                                              *)
Picked(offer) == IF "v2" \in offer THEN "v2" ELSE "v1"
TheString(offer, t, k) ==
    <<{t, k}, [agreement |-> Picked(offer), txn |-> t, roles |-> <<t[1], Other(t[1])>>,
               keys |-> IF Picked(offer) = "v1" THEN <<>> ELSE <<t, k>>]>>
Peer(d, t, s) == IF d = t[1] THEN s.theirs ELSE s.key

Drawn(k) == k[2] <= made[k[1]]

MacFor(t, k) == \E m \in net : m.type = "mac" /\ m.to # t[1] /\ m.txn = t /\ m.secret = {t, k}

(* The device that started t is not committed to k, nor about to be.       *)
Uncommitted(t, k) ==
    /\ Known(t[1], t) => sas[t[1]][t].commitment = None \/ sas[t[1]][t].commitment[1] # k
    /\ \A m \in net : m.type = "accept" /\ m.txn = t => m.commitment[1] # k
    /\ ~MacFor(t, k)

(* It will never take k.                                                   *)
Doomed(t, k) ==
    /\ Known(t[1], t) /\ ~Canceled(sas[t[1]][t]) =>
           sas[t[1]][t].state # "created" /\ sas[t[1]][t].commitment[1] # k
    /\ ~MacFor(t, k)

StarterOK(offer, d, t, s) ==
    /\ s.we_started_it /\ s.key = t
    /\ s.theirs # None => /\ s.theirs[1] = Other(d) /\ s.agreement # None
                          /\ s.commitment # None /\ s.commitment[1] = s.theirs
    /\ s.state = "created" => s.theirs = None /\ s.commitment = None
    /\ s.state \notin {"created", "canceled"} => s.commitment # None /\ s.agreement # None
    /\ s.commitment # None => Drawn(s.commitment[1])
    /\ s.sas_accepted => <<d, TheString(offer, t, s.theirs)>> \in confirmed

ResponderOK(offer, d, t, s) ==
    /\ ~s.we_started_it /\ s.key[1] = d /\ Drawn(s.key) /\ s.theirs \in {None, t}
    /\ s.state # "created"
    /\ s.agreement = None => Uncommitted(t, s.key) /\ (s.theirs # None => Doomed(t, s.key))
    /\ s.commitment = <<s.key, offer>>
    /\ s.sas_accepted => <<d, TheString(offer, t, s.key)>> \in confirmed \/ Doomed(t, s.key)

(* what of it does not change with the rest of the state                   *)
Sided(offer, d, t, s) ==
    /\ s.agreement \in {None, Picked(offer)}
    /\ d = t[1] => s.we_started_it /\ s.key = t
    /\ d # t[1] => ~s.we_started_it /\ s.theirs \in {None, t}

ExchangeOK(offer, d, t, s) ==
    /\ Drawn(t) /\ s.offer = offer /\ s.agreement \in {None, Picked(offer)}
    /\ d = t[1] => StarterOK(offer, d, t, s)
    /\ d # t[1] => ResponderOK(offer, d, t, s)
    /\ s.sas_accepted \/ s.state \in {"key_received", "mac_received"} => s.theirs # None
    /\ s.state = "mac_received" =>
            s.agreement # None /\ <<Other(d), TheString(offer, t, Peer(d, t, s))>> \in confirmed
    /\ Verified(s) => <<d, TheString(offer, t, Peer(d, t, s))>> \in confirmed

(* What a message says was so when it was sent, and still matters.         *)
KeyAnnounced(m) ==
    /\ m.to = m.txn[1] => m.key[1] = Other(m.txn[1])
    /\ m.to # m.txn[1] =>
            m.key = m.txn /\ (Known(m.txn[1], m.txn) => sas[m.txn[1]][m.txn].state # "created")
MacAnnounced(offer, m) ==
    \E k \in Keys : /\ k[1] = Other(m.txn[1]) /\ Drawn(k) /\ m.secret = {m.txn, k}
                    /\ <<Other(m.to), TheString(offer, m.txn, k)>> \in confirmed
Announced(offer, m) ==
    /\ Drawn(m.txn)
    /\ m.type = "start" => m.to # m.txn[1] /\ m.offer = offer
    /\ m.type = "accept" => m.agreement = Picked(offer) /\ Drawn(m.commitment[1])
    /\ m.type = "key" => KeyAnnounced(m)
    /\ m.type = "mac" => MacAnnounced(offer, m)

Agreeing(O) ==
    /\ \A d \in Devices, t \in Txns : Known(d, t) => ExchangeOK(O[t], d, t, sas[d][t])
    /\ \A m \in net : Announced(O[m.txn], m)

-----------------------------------------------------------------------------
(* Devices, keys and strings                                               *)

LEMMA TwoDevices ==
    ASSUME NEW d \in Devices
    PROVE  /\ Other(d) \in Devices /\ Other(d) # d /\ Other(Other(d)) = d
           /\ \A e \in Devices : e = d \/ e = Other(d)
<1>1. Other(d) \in Devices /\ Other(d) # d
  BY OtherDevice
<1>2. ASSUME NEW e \in Devices, e # d, e # Other(d) PROVE FALSE
  <2>1. PICK c \in Devices : c = Other(d)
    BY <1>1
  <2>2. PICK one : one = {d}
    OBVIOUS
  <2>3. IsFiniteSet(one) /\ Cardinality(one) = 1
    BY <2>2, FS_Singleton, Zenon
  <2>4. PICK two : two = one \cup {c}
    OBVIOUS
  <2>5. IsFiniteSet(two) /\ Cardinality(two) = 2
    <3>1. c \notin one
      BY <1>1, <2>1, <2>2
    <3>2. IsFiniteSet(two) /\ Cardinality(two) = Cardinality(one) + 1
      BY <2>3, <2>4, <3>1, FS_AddElement
    <3> QED BY <2>3, <3>2
  <2>6. PICK three : three = two \cup {e}
    OBVIOUS
  <2>7. Cardinality(three) = 3
    <3>1. e \notin two
      BY <1>2, <2>1, <2>2, <2>4
    <3>2. Cardinality(three) = Cardinality(two) + 1
      BY <2>5, <2>6, <3>1, FS_AddElement
    <3> QED BY <2>5, <3>2
  <2>8. three \in SUBSET Devices
    BY <1>2, <2>1, <2>2, <2>4, <2>6
  <2>9. Cardinality(three) <= Cardinality(Devices)
    BY <2>8, DevicesAssumption, FS_Subset
  <2> QED BY <2>7, <2>9, DevicesAssumption
<1>3. Other(Other(d)) = d
  <2>1. Other(Other(d)) \in Devices /\ Other(Other(d)) # Other(d)
    BY <1>1, OtherDevice
  <2> QED BY <1>2, <2>1
<1> QED BY <1>1, <1>2, <1>3

LEMMA KeyParts ==
    ASSUME NEW k \in Keys
    PROVE  k[1] \in Devices /\ k[2] \in Nat /\ k = <<k[1], k[2]>>
<1>1. PICK d \in Devices : k \in {d} \X (1..MaxSas[d])
  BY DEF Keys
<1>2. MaxSas[d] \in Nat
  BY DevicesAssumption
<1> QED BY <1>1, <1>2

(* Two keys that make the same secret with t are the same.                 *)
LEMMA SecretsDiffer ==
    ASSUME NEW t, NEW k, NEW n, {t, k} = {t, n}
    PROVE  k = n
  OBVIOUS

(* The string an object shows is that of its transaction.                  *)
LEMMA StringIs ==
    ASSUME NEW offer, NEW d \in Devices, NEW t \in Txns, NEW s \in SasObjects,
           Sided(offer, d, t, s), s.theirs # None, s.agreement # None
    PROVE  /\ ShortString(d, t, s) = TheString(offer, t, Peer(d, t, s))
           /\ Secret(s) = {t, Peer(d, t, s)}
<1>1. t[1] \in Devices
  BY KeyParts DEF Txns
<1>2. s.agreement = Picked(offer) /\ Picked(offer) \in {"v1", "v2"}
  BY DEF Sided, Picked
<1>3. PICK k : k = Peer(d, t, s)
  OBVIOUS
<1>4. /\ Secret(s) = {t, k}
      /\ (IF s.we_started_it THEN <<d, Other(d)>> ELSE <<Other(d), d>>) = <<t[1], Other(t[1])>>
      /\ (IF s.agreement = "v1" THEN <<>>
          ELSE IF s.we_started_it THEN <<s.key, s.theirs>> ELSE <<s.theirs, s.key>>) =
            (IF Picked(offer) = "v1" THEN <<>> ELSE <<t, k>>)
  <2>1. CASE d = t[1]
    <3>1. s.we_started_it /\ s.key = t /\ k = s.theirs
      BY <1>3, <2>1 DEF Sided, Peer
    <3>2. Secret(s) = {t, k}
      BY <3>1 DEF Secret
    <3>3. <<d, Other(d)>> = <<t[1], Other(t[1])>>
      BY <2>1
    <3>4. CASE Picked(offer) = "v1"
      <4>1. s.agreement = "v1"
        BY <1>2, <3>4
      <4> QED BY <3>1, <3>2, <3>3, <3>4, <4>1
    <3>5. CASE Picked(offer) # "v1"
      BY <1>2, <3>1, <3>2, <3>3, <3>5
    <3> QED BY <3>4, <3>5
  <2>2. CASE d # t[1]
    <3>1. ~s.we_started_it /\ s.theirs = t /\ k = s.key
      BY <1>3, <2>2 DEF Sided, Peer
    <3>2. d = Other(t[1]) /\ Other(d) = t[1]
      BY <1>1, <2>2, TwoDevices
    <3>3. Secret(s) = {t, k}
      BY <3>1 DEF Secret
    <3>4. CASE Picked(offer) = "v1"
      <4>1. s.agreement = "v1"
        BY <1>2, <3>4
      <4> QED BY <3>1, <3>2, <3>3, <3>4, <4>1
    <3>5. CASE Picked(offer) # "v1"
      BY <1>2, <3>1, <3>2, <3>3, <3>5
    <3> QED BY <3>4, <3>5
  <2> QED BY <2>1, <2>2
<1> QED BY <1>2, <1>3, <1>4 DEF ShortString, ExtraInfo, TheString

-----------------------------------------------------------------------------
(* What a step may do to the other exchanges                               *)

(* The object that started t goes from old to new.                         *)
MoveOK(t, old, new) ==
    new # None =>
        /\ old # None
        /\ Canceled(old) => Canceled(new)
        /\ old.state # "created" =>
               new.state # "created" /\ (Canceled(new) \/ new.commitment = old.commitment)
        /\ \/ new.commitment = old.commitment
           \/ \E m \in net : m.type = "accept" /\ m.txn = t /\ new.commitment = m.commitment

(* The device that started t may send this MAC.                            *)
MayConfirm(t, m) ==
    /\ Known(t[1], t) /\ ~Canceled(sas[t[1]][t]) /\ sas[t[1]][t].theirs # None
    /\ m.secret = {t, sas[t[1]][t].theirs}

SentOK(m) ==
    /\ m.type = "mac" /\ m.to # m.txn[1] => MayConfirm(m.txn, m)
    /\ m.type = "accept" =>
           \E d \in Devices : d # m.txn[1] /\ sas'[d][m.txn].agreement # None

StepOK ==
    /\ \A d \in Devices : made[d] \in Nat /\ made'[d] \in Nat /\ made[d] <= made'[d]
    /\ confirmed \subseteq confirmed'
    /\ \A t \in Txns : Drawn(t) => MoveOK(t, sas[t[1]][t], sas'[t[1]][t])
    /\ \A m \in net' : m \in net \/ SentOK(m)

NoAccept(t) == \A m \in net' : m.type = "accept" /\ m.txn = t => m \in net

LEMMA DrawnStays ==
    ASSUME StepOK, NEW k \in Keys, Drawn(k)
    PROVE  Drawn(k)'
<1>1. k[1] \in Devices /\ k[2] \in Nat
  BY KeyParts
<1>2. made[k[1]] \in Nat /\ made'[k[1]] \in Nat /\ made[k[1]] <= made'[k[1]]
  BY <1>1 DEF StepOK
<1> QED BY <1>1, <1>2 DEF Drawn

(* A device that will not take k sends no MAC made with it.                *)
LEMMA MacForStays ==
    ASSUME StepOK, NEW offer, NEW t \in Txns, NEW k, ~MacFor(t, k),
           Known(t[1], t) => StarterOK(offer, t[1], t, sas[t[1]][t]),
           Known(t[1], t) /\ ~Canceled(sas[t[1]][t]) =>
               sas[t[1]][t].commitment = None \/ sas[t[1]][t].commitment[1] # k
    PROVE  ~MacFor(t, k)'
<1>1. SUFFICES ASSUME NEW m \in net', m.type = "mac", m.to # t[1], m.txn = t, m.secret = {t, k}
               PROVE  FALSE
  BY DEF MacFor
<1>2. CASE m \in net
  BY <1>1, <1>2 DEF MacFor
<1>3. CASE MayConfirm(t, m)
  <2>1. PICK s : s = sas[t[1]][t]
    OBVIOUS
  <2>2. /\ Known(t[1], t) /\ ~Canceled(s) /\ s.theirs # None /\ m.secret = {t, s.theirs}
        /\ s.commitment = None \/ s.commitment[1] # k
    BY <1>3, <2>1 DEF MayConfirm
  <2>3. s.commitment # None /\ s.commitment[1] = s.theirs
    BY <2>1, <2>2 DEF StarterOK
  <2>4. s.theirs = k
    BY <1>1, <2>2, SecretsDiffer
  <2> QED BY <2>2, <2>3, <2>4
<1> QED BY <1>1, <1>2, <1>3 DEF StepOK, SentOK

LEMMA DoomedStays ==
    ASSUME StepOK, NEW offer, NEW t \in Txns, NEW k, Drawn(t), Doomed(t, k),
           Known(t[1], t) => StarterOK(offer, t[1], t, sas[t[1]][t])
    PROVE  Doomed(t, k)'
<1>1. ~MacFor(t, k)'
  BY MacForStays DEF Doomed
<1>2. PICK old : old = sas[t[1]][t]
  OBVIOUS
<1>3. PICK new : new = sas'[t[1]][t]
  OBVIOUS
<1>4. MoveOK(t, old, new)
  BY <1>2, <1>3 DEF StepOK
<1>5. new # None /\ ~Canceled(new) => new.state # "created" /\ new.commitment[1] # k
  BY <1>2, <1>4 DEF MoveOK, Doomed, Known
<1> QED BY <1>1, <1>3, <1>5 DEF Doomed, Known

LEMMA UncommittedStays ==
    ASSUME StepOK, NEW offer, NEW t \in Txns, NEW k, Drawn(t), Uncommitted(t, k), NoAccept(t),
           Known(t[1], t) => StarterOK(offer, t[1], t, sas[t[1]][t])
    PROVE  Uncommitted(t, k)'
<1>1. ~MacFor(t, k)'
  BY MacForStays DEF Uncommitted
<1>2. PICK old : old = sas[t[1]][t]
  OBVIOUS
<1>3. PICK new : new = sas'[t[1]][t]
  OBVIOUS
<1>4. MoveOK(t, old, new)
  BY <1>2, <1>3 DEF StepOK
<1>5. new # None => new.commitment = None \/ new.commitment[1] # k
  BY <1>2, <1>4 DEF MoveOK, Uncommitted, Known
<1>6. \A m \in net' : m.type = "accept" /\ m.txn = t => m.commitment[1] # k
  BY DEF Uncommitted, NoAccept
<1> QED BY <1>1, <1>3, <1>5, <1>6 DEF Uncommitted, Known

(* An object stays right while others change.                              *)
LEMMA ExchangeStays ==
    ASSUME StepOK, NEW offer, NEW d \in Devices, NEW t \in Txns, NEW s \in SasObjects,
           ExchangeOK(offer, d, t, s),
           d # t[1] /\ s.agreement = None => NoAccept(t),
           Known(t[1], t) => StarterOK(offer, t[1], t, sas[t[1]][t])
    PROVE  ExchangeOK(offer, d, t, s)'
<1>1. Drawn(t) /\ Drawn(t)'
  BY DrawnStays DEF Txns, ExchangeOK
<1>2. confirmed \subseteq confirmed'
  BY DEF StepOK
<1>3. ASSUME d = t[1] PROVE StarterOK(offer, d, t, s)'
  <2>1. StarterOK(offer, d, t, s)
    BY <1>3 DEF ExchangeOK
  <2>2. s.commitment # None => Drawn(s.commitment[1])'
    <3>1. s.commitment # None => s.commitment[1] \in Keys /\ Drawn(s.commitment[1])
      BY <2>1 DEF StarterOK, SasObjects
    <3> QED BY <3>1, DrawnStays
  <2> QED BY <1>2, <2>1, <2>2 DEF StarterOK
<1>4. ASSUME d # t[1] PROVE ResponderOK(offer, d, t, s)'
  <2>1. PICK k \in Keys : k = s.key
    BY DEF SasObjects
  <2>2. ResponderOK(offer, d, t, s)
    BY <1>4 DEF ExchangeOK
  <2>3. Drawn(k)'
    BY <2>1, <2>2, DrawnStays DEF ResponderOK
  <2>4. Doomed(t, k) => Doomed(t, k)'
    BY <1>1, DoomedStays
  <2>5. s.agreement = None => Uncommitted(t, k)'
    BY <1>1, <1>4, <2>1, <2>2, UncommittedStays DEF ResponderOK
  <2> QED BY <1>2, <2>1, <2>2, <2>3, <2>4, <2>5 DEF ResponderOK
<1> QED BY <1>1, <1>2, <1>3, <1>4 DEF ExchangeOK

LEMMA AnnouncedStays ==
    ASSUME StepOK, NEW offer, NEW m \in Messages, Announced(offer, m)
    PROVE  Announced(offer, m)'
<1>1. PICK t \in Txns : t = m.txn
  BY DEF Messages
<1>2. Drawn(t) /\ Drawn(t)'
  BY <1>1, DrawnStays DEF Txns, Announced
<1>3. m.type = "accept" => Drawn(m.commitment[1])'
  <2>1. m.type = "accept" => m.commitment[1] \in Keys
    BY DEF Messages
  <2> QED BY <2>1, DrawnStays DEF Announced
<1>4. m.type = "key" => KeyAnnounced(m)'
  <2>1. SUFFICES ASSUME m.type = "key" PROVE KeyAnnounced(m)'
    OBVIOUS
  <2>2. KeyAnnounced(m)
    BY <2>1 DEF Announced
  <2>3. PICK old : old = sas[t[1]][t]
    OBVIOUS
  <2>4. PICK new : new = sas'[t[1]][t]
    OBVIOUS
  <2>5. MoveOK(t, old, new)
    BY <1>2, <2>3, <2>4 DEF StepOK
  <2>6. m.to # t[1] /\ new # None => new.state # "created"
    BY <1>1, <2>2, <2>3, <2>5 DEF MoveOK, KeyAnnounced, Known
  <2> QED BY <1>1, <2>2, <2>4, <2>6 DEF KeyAnnounced, Known
<1>5. m.type = "mac" => MacAnnounced(offer, m)'
  <2>1. SUFFICES ASSUME m.type = "mac" PROVE MacAnnounced(offer, m)'
    OBVIOUS
  <2>2. PICK k \in Keys : /\ k[1] = Other(m.txn[1]) /\ Drawn(k) /\ m.secret = {m.txn, k}
                          /\ <<Other(m.to), TheString(offer, m.txn, k)>> \in confirmed
    BY <2>1 DEF Announced, MacAnnounced
  <2>3. Drawn(k)' /\ confirmed \subseteq confirmed'
    BY <2>2, DrawnStays DEF StepOK
  <2> QED BY <2>2, <2>3 DEF MacAnnounced
<1> QED BY <1>1, <1>2, <1>3, <1>4, <1>5 DEF Announced

-----------------------------------------------------------------------------
(* The shapes a step can have                                              *)

ChangedOK(O) ==
    \A d \in Devices, t \in Txns :
        sas'[d][t] # None /\ sas'[d][t] # sas[d][t] => ExchangeOK(O[t], d, t, sas[d][t])'
SentAnnounced(O) == \A m \in net' : m \in net \/ Announced(O[m.txn], m)'

LEMMA StarterIs ==
    ASSUME NEW O, Agreeing(O), NEW t \in Txns
    PROVE  Known(t[1], t) => StarterOK(O[t], t[1], t, sas[t[1]][t])
  BY KeyParts DEF Txns, Agreeing, ExchangeOK

(* The device that answers t sends an accept only when it has agreed.      *)
LEMMA QuietUntilAgreed ==
    ASSUME StepOK, NEW d \in Devices, NEW t \in Txns, d # t[1],
           sas'[d][t].agreement = None
    PROVE  NoAccept(t)
<1>1. SUFFICES ASSUME NEW m \in net', m.type = "accept", m.txn = t, m \notin net PROVE FALSE
  BY DEF NoAccept
<1>2. SentOK(m)
  BY <1>1 DEF StepOK
<1>3. PICK e \in Devices : e # t[1] /\ sas'[e][t].agreement # None
  BY <1>1, <1>2 DEF SentOK
<1>4. e = d
  BY <1>3, KeyParts, TwoDevices DEF Txns
<1> QED BY <1>3, <1>4

LEMMA Frame ==
    ASSUME TrustInv, NEW O, Agreeing(O), StepOK, ChangedOK(O), SentAnnounced(O)
    PROVE  Agreeing(O)'
<1>1. ASSUME NEW d \in Devices, NEW t \in Txns, Known(d, t)'
      PROVE  ExchangeOK(O[t], d, t, sas[d][t])'
  <2>1. PICK new : new = sas'[d][t]
    OBVIOUS
  <2>2. new # None
    BY <1>1, <2>1 DEF Known
  <2>3. CASE new # sas[d][t]
    BY <2>1, <2>2, <2>3 DEF ChangedOK
  <2>4. CASE new = sas[d][t]
    <3>1. ExchangeOK(O[t], d, t, new) /\ new \in SasObjects
      BY <2>2, <2>4 DEF Agreeing, Known, TrustInv, ObjectOk
    <3>2. d # t[1] /\ new.agreement = None => NoAccept(t)
      BY <2>1, QuietUntilAgreed
    <3>3. ExchangeOK(O[t], d, t, new)'
      <4>1. PICK offer : offer = O[t]
        OBVIOUS
      <4>2. ExchangeOK(offer, d, t, new)'
        BY <3>1, <3>2, <4>1, StarterIs, ExchangeStays
      <4> QED BY <4>1, <4>2
    <3> QED BY <2>1, <3>3
  <2> QED BY <2>3, <2>4
<1>2. ASSUME NEW m \in net' PROVE Announced(O[m.txn], m)'
  <2>1. CASE m \in net
    <3>1. m \in Messages /\ Announced(O[m.txn], m)
      BY <2>1 DEF Agreeing, TrustInv, MessageOk
    <3>2. PICK offer : offer = O[m.txn]
      OBVIOUS
    <3>3. Announced(offer, m)'
      BY <3>1, <3>2, AnnouncedStays
    <3> QED BY <3>2, <3>3
  <2>2. CASE m \notin net
    BY <1>2, <2>2 DEF SentAnnounced
  <2> QED BY <2>1, <2>2
<1> QED BY <1>1, <1>2 DEF Agreeing

LEMMA PutSteps ==
    ASSUME TrustInv, NEW d \in Devices, NEW t \in Txns, NEW s, Put(d, t, s),
           UNCHANGED made, confirmed \subseteq confirmed',
           d = t[1] => MoveOK(t, sas[d][t], s),
           \A m \in net' : m \in net \/ SentOK(m)
    PROVE  /\ StepOK
           /\ \A e \in Devices, u \in Txns :
                  sas'[e][u] = IF e = d /\ u = t THEN s ELSE sas[e][u]
<1>1. \A e \in Devices, u \in Txns : sas'[e][u] = IF e = d /\ u = t THEN s ELSE sas[e][u]
  BY DEF TrustInv, Others, Put
<1>2. ASSUME NEW u \in Txns PROVE MoveOK(u, sas[u[1]][u], sas'[u[1]][u])
  <2>1. u[1] \in Devices
    BY KeyParts DEF Txns
  <2>2. CASE u[1] = d /\ u = t
    BY <1>1, <2>1, <2>2
  <2>3. CASE ~(u[1] = d /\ u = t)
    BY <1>1, <2>1, <2>3 DEF MoveOK
  <2> QED BY <2>2, <2>3
<1>3. \A e \in Devices : made[e] \in Nat /\ made'[e] \in Nat /\ made[e] <= made'[e]
  BY DEF TrustInv, Others
<1> QED BY <1>1, <1>2, <1>3 DEF StepOK

(* One object changes.                                                     *)
LEMMA PutAgrees ==
    ASSUME TrustInv, NEW O, Agreeing(O), NEW d \in Devices, NEW t \in Txns, NEW s, Put(d, t, s),
           s \in SasObjects \cup {None},
           UNCHANGED <<made, confirmed>>,
           d = t[1] => MoveOK(t, sas[d][t], s),
           \A m \in net' : m \in net \/ SentOK(m),
           SentAnnounced(O),
           s # None => ExchangeOK(O[t], d, t, s)
    PROVE  Agreeing(O)'
<1>1. /\ StepOK
      /\ \A e \in Devices, u \in Txns :
             sas'[e][u] = IF e = d /\ u = t THEN s ELSE sas[e][u]
  BY PutSteps
<1>2. ASSUME s # None PROVE ExchangeOK(O[t], d, t, s)'
  <2>1. PICK offer : offer = O[t]
    OBVIOUS
  <2>2. d # t[1] /\ s.agreement = None => NoAccept(t)
    BY <1>1, QuietUntilAgreed
  <2>3. ExchangeOK(offer, d, t, s)'
    BY <1>1, <1>2, <2>1, <2>2, StarterIs, ExchangeStays
  <2> QED BY <2>1, <2>3
<1>3. ChangedOK(O)
  <2>1. SUFFICES ASSUME NEW e \in Devices, NEW u \in Txns, sas'[e][u] # None, sas'[e][u] # sas[e][u]
                 PROVE  ExchangeOK(O[u], e, u, sas[e][u])'
    BY DEF ChangedOK
  <2>2. e = d /\ u = t /\ sas'[e][u] = s
    BY <1>1, <2>1
  <2> QED BY <1>2, <2>1, <2>2
<1> QED BY <1>1, <1>3, Frame

LEMMA CancellationQuiet ==
    ASSUME StepOK, NEW offer, NEW d, NEW t \in Txns, Drawn(t)
    PROVE  SentOK(Cancellation(d, t)) /\ Announced(offer, Cancellation(d, t))'
<1>1. PICK m : m = Cancellation(d, t)
  OBVIOUS
<1>2. m.type = "cancel" /\ m.txn = t
  BY <1>1 DEF Cancellation
<1>3. Drawn(t)'
  BY DrawnStays DEF Txns
<1>4. SentOK(m) /\ Announced(offer, m)'
  BY <1>2, <1>3 DEF SentOK, Announced
<1> QED BY <1>1, <1>4

OnlyCancels ==
    \A m \in net' : m \in net \/ \E d \in Devices, t \in Txns : Drawn(t) /\ m = Cancellation(d, t)

LEMMA CancelsQuiet ==
    ASSUME OnlyCancels, UNCHANGED made
    PROVE  \A m \in net' : m \in net \/ SentOK(m)
<1>1. ASSUME NEW d, NEW t PROVE SentOK(Cancellation(d, t))
  <2>1. PICK m : m = Cancellation(d, t)
    OBVIOUS
  <2>2. m.type = "cancel"
    BY <2>1 DEF Cancellation
  <2> QED BY <2>1, <2>2 DEF SentOK
<1> QED BY <1>1 DEF OnlyCancels

LEMMA CancelsAnnounced ==
    ASSUME OnlyCancels, StepOK, NEW O
    PROVE  SentAnnounced(O)
<1>1. SUFFICES ASSUME NEW m \in net', m \notin net PROVE Announced(O[m.txn], m)'
  BY DEF SentAnnounced
<1>2. PICK d \in Devices, t \in Txns : Drawn(t) /\ m = Cancellation(d, t)
  BY <1>1 DEF OnlyCancels
<1>3. PICK offer : offer = O[m.txn]
  OBVIOUS
<1>4. Announced(offer, m)'
  BY <1>2, CancellationQuiet
<1> QED BY <1>3, <1>4

(* Objects are forgotten, or stay.                                         *)
LEMMA RemovalAgrees ==
    ASSUME TrustInv, NEW O, Agreeing(O), UNCHANGED <<made, confirmed>>, OnlyCancels,
           \A d \in Devices, t \in Txns : sas'[d][t] \in {None, sas[d][t]}
    PROVE  Agreeing(O)'
<1>1. \A t \in Txns : MoveOK(t, sas[t[1]][t], sas'[t[1]][t])
  BY KeyParts DEF Txns, MoveOK
<1>2. \A e \in Devices : made[e] \in Nat /\ made'[e] \in Nat /\ made[e] <= made'[e]
  BY DEF TrustInv, Others
<1>3. StepOK
  BY <1>1, <1>2, CancelsQuiet DEF StepOK
<1>4. ChangedOK(O)
  BY DEF ChangedOK
<1> QED BY <1>3, <1>4, CancelsAnnounced, Frame

LEMMA TakeAdds ==
    ASSUME NEW m, NEW answers, Take(m, answers)
    PROVE  \A n \in net' : n \in net \/ n \in answers
  BY DEF Take

(* Only the state and the age of an object change.                         *)
LEMMA StateChanges ==
    ASSUME NEW offer, NEW d \in Devices, NEW t \in Txns, NEW s \in SasObjects, NEW c \in SasObjects,
           ExchangeOK(offer, d, t, s),
           c.offer = s.offer, c.agreement = s.agreement, c.commitment = s.commitment,
           c.key = s.key, c.theirs = s.theirs, c.we_started_it <=> s.we_started_it,
           c.sas_accepted <=> s.sas_accepted,
           c.state \in {s.state, "canceled"}, s # None
    PROVE  ExchangeOK(offer, d, t, c) /\ (d = t[1] => MoveOK(t, s, c))
<1>1. d = t[1] => StarterOK(offer, d, t, c)
  BY DEF ExchangeOK, StarterOK
<1>2. d # t[1] => ResponderOK(offer, d, t, c)
  BY DEF ExchangeOK, ResponderOK
<1>3. PICK k : k = Peer(d, t, s)
  OBVIOUS
<1>4. Peer(d, t, c) = k
  BY <1>3 DEF Peer
<1>5. ExchangeOK(offer, d, t, c)
  BY <1>1, <1>2, <1>3, <1>4 DEF ExchangeOK, Verified
<1>6. MoveOK(t, s, c)
  BY DEF MoveOK, Canceled
<1> QED BY <1>5, <1>6

LEMMA CanceledObject ==
    ASSUME NEW offer, NEW d \in Devices, NEW t \in Txns, NEW s \in SasObjects, s # None,
           ExchangeOK(offer, d, t, s)
    PROVE  ExchangeOK(offer, d, t, Cancel(s)) /\ (d = t[1] => MoveOK(t, s, Cancel(s)))
<1>1. PICK c \in SasObjects : c = Cancel(s)
  BY SasUpdates
<1>2. /\ c.offer = s.offer /\ c.agreement = s.agreement /\ c.commitment = s.commitment
      /\ c.key = s.key /\ c.theirs = s.theirs /\ c.state = "canceled"
  BY <1>1 DEF Cancel, SasObjects
<1>3. (c.we_started_it <=> s.we_started_it) /\ (c.sas_accepted <=> s.sas_accepted)
  BY <1>1 DEF Cancel, SasObjects
<1> QED BY <1>1, <1>2, <1>3, StateChanges

-----------------------------------------------------------------------------
(* The steps                                                               *)

(* the object of a transaction *)
LEMMA ObjectIs ==
    ASSUME TrustInv, NEW O, Agreeing(O), NEW d \in Devices, NEW t \in Txns, Known(d, t)
    PROVE  /\ sas[d][t] \in SasObjects /\ sas[d][t] # None
           /\ ExchangeOK(O[t], d, t, sas[d][t]) /\ Drawn(t)
  BY DEF TrustInv, ObjectOk, Agreeing, Known, ExchangeOK

LEMMA AgreeCancel ==
    ASSUME TrustInv, NEW O, Agreeing(O), NEW d \in Devices, NEW t \in Txns,
           CancelKeyVerification(d, t)
    PROVE  Agreeing(O)'
<1>1. PICK old : old = sas[d][t]
  OBVIOUS
<1>2. PICK offer : offer = O[t]
  OBVIOUS
<1>3. old \in SasObjects /\ old # None /\ ExchangeOK(offer, d, t, old) /\ Drawn(t)
  BY <1>1, <1>2, ObjectIs DEF CancelKeyVerification
<1>4. PICK s \in SasObjects : s = Cancel(old)
  BY <1>3, SasUpdates
<1>5. ExchangeOK(offer, d, t, s) /\ (d = t[1] => MoveOK(t, old, s))
  BY <1>3, <1>4, CanceledObject
<1>6. Put(d, t, s) /\ UNCHANGED <<made, confirmed>> /\ OnlyCancels
  BY <1>1, <1>3, <1>4 DEF CancelKeyVerification, Send, OnlyCancels
<1>7. \A m \in net' : m \in net \/ SentOK(m)
  BY <1>6, CancelsQuiet
<1>8. StepOK
  BY <1>1, <1>5, <1>6, <1>7, PutSteps
<1>9. SentAnnounced(O)
  BY <1>6, <1>8, CancelsAnnounced
<1> QED BY <1>1, <1>2, <1>4, <1>5, <1>6, <1>7, <1>9, PutAgrees

LEMMA AgreeAge ==
    ASSUME TrustInv, NEW O, Agreeing(O), NEW d \in Devices, NEW t \in Txns, Age(d, t)
    PROVE  Agreeing(O)'
<1>1. PICK old : old = sas[d][t]
  OBVIOUS
<1>2. PICK offer : offer = O[t]
  OBVIOUS
<1>3. old \in SasObjects /\ old # None /\ ExchangeOK(offer, d, t, old)
  BY <1>1, <1>2, ObjectIs DEF Age
<1>4. PICK a \in Ages : Put(d, t, [old EXCEPT !.age = a])
  BY <1>1, <1>3 DEF Age, Ages, SasObjects
<1>5. PICK s \in SasObjects : s = [old EXCEPT !.age = a]
  BY <1>3, SasUpdates
<1>6. /\ s.offer = old.offer /\ s.agreement = old.agreement /\ s.commitment = old.commitment
      /\ s.key = old.key /\ s.theirs = old.theirs /\ s.state = old.state
  BY <1>3, <1>5 DEF SasObjects
<1>7. (s.we_started_it <=> old.we_started_it) /\ (s.sas_accepted <=> old.sas_accepted)
  BY <1>3, <1>5 DEF SasObjects
<1>8. ExchangeOK(offer, d, t, s) /\ (d = t[1] => MoveOK(t, old, s))
  BY <1>3, <1>6, <1>7, StateChanges
<1>9. /\ Put(d, t, s) /\ UNCHANGED <<made, confirmed>>
      /\ \A m \in net' : m \in net \/ SentOK(m)
      /\ SentAnnounced(O)
  BY <1>4, <1>5 DEF Age, SentAnnounced
<1> QED BY <1>1, <1>2, <1>5, <1>8, <1>9, PutAgrees

LEMMA AgreeAccept ==
    ASSUME TrustInv, NEW O, Agreeing(O), NEW d \in Devices, NEW t \in Txns,
           AcceptKeyVerification(d, t)
    PROVE  Agreeing(O)'
<1>1. PICK old : old = sas[d][t]
  OBVIOUS
<1>2. PICK offer : offer = O[t]
  OBVIOUS
<1>3. /\ old \in SasObjects /\ old # None /\ ExchangeOK(offer, d, t, old) /\ Drawn(t)
      /\ ~old.we_started_it
  BY <1>1, <1>2, ObjectIs DEF AcceptKeyVerification
<1>4. d # t[1] /\ old.offer = offer /\ ResponderOK(offer, d, t, old)
  BY <1>3 DEF ExchangeOK, StarterOK
<1>5. PICK p \in Protocols : p = Picked(offer)
  BY DEF Picked, Protocols
<1>6. PICK s \in SasObjects : s = [old EXCEPT !.agreement = p]
  BY <1>3, SasUpdates
<1>7. Put(d, t, s) /\ Send({AcceptMessage(d, t, s)}) /\ UNCHANGED <<made, confirmed>>
  BY <1>1, <1>4, <1>5, <1>6 DEF AcceptKeyVerification, Picked
<1>8. /\ s.offer = old.offer /\ s.agreement = p /\ s.commitment = old.commitment
      /\ s.key = old.key /\ s.theirs = old.theirs /\ s.state = old.state
  BY <1>3, <1>6 DEF SasObjects
<1>9. (s.we_started_it <=> old.we_started_it) /\ (s.sas_accepted <=> old.sas_accepted)
  BY <1>3, <1>6 DEF SasObjects
<1>10. p # None
  BY <1>5, NoneAssumption
<1>11. ExchangeOK(offer, d, t, s)
  <2>1. ResponderOK(offer, d, t, s)
    BY <1>4, <1>8, <1>9, <1>10 DEF ResponderOK
  <2>2. Peer(d, t, s) = Peer(d, t, old)
    BY <1>8 DEF Peer
  <2> QED BY <1>3, <1>4, <1>5, <1>8, <1>9, <1>10, <2>1, <2>2 DEF ExchangeOK, Verified
<1>12. PICK m : m = AcceptMessage(d, t, s)
  OBVIOUS
<1>13. /\ m.type = "accept" /\ m.txn = t /\ m.agreement = p /\ m.commitment[1] = s.key
       /\ \A n \in net' : n \in net \/ n = m
  BY <1>4, <1>7, <1>8, <1>12 DEF AcceptMessage, Send, ResponderOK
<1>14. sas'[d][t] = s
  BY <1>7 DEF Put, TrustInv, Others
<1>15. SentOK(m)
  BY <1>4, <1>8, <1>10, <1>13, <1>14 DEF SentOK
<1>16. \A n \in net' : n \in net \/ SentOK(n)
  BY <1>13, <1>15
<1>17. StepOK
  BY <1>4, <1>7, <1>16, PutSteps
<1>18. SentAnnounced(O)
  <2>1. Drawn(t)' /\ Drawn(s.key)'
    BY <1>3, <1>4, <1>8, <1>17, DrawnStays DEF Txns, SasObjects, ResponderOK
  <2>2. Announced(offer, m)'
    BY <1>5, <1>13, <2>1 DEF Announced
  <2> QED BY <1>2, <1>13, <2>2 DEF SentAnnounced
<1> QED BY <1>1, <1>2, <1>4, <1>7, <1>11, <1>16, <1>18, PutAgrees

LEMMA AgreeHandleAccept ==
    ASSUME TrustInv, NEW O, Agreeing(O), NEW m \in net, HandleAccept(m)
    PROVE  Agreeing(O)'
<1>1. PICK d \in Devices, t \in Txns : d = m.to /\ t = m.txn
  BY DEF TrustInv, MessageOk, Messages
<1>2. PICK old : old = sas[d][t]
  OBVIOUS
<1>3. PICK offer : offer = O[t]
  OBVIOUS
<1>4. m.type = "accept" /\ m \in Messages /\ Announced(offer, m)
  BY <1>1, <1>3 DEF HandleAccept, Agreeing, TrustInv, MessageOk
<1>5. old \in SasObjects /\ old # None /\ ExchangeOK(offer, d, t, old) /\ Drawn(t)
  BY <1>1, <1>2, <1>3, ObjectIs DEF HandleAccept
<1>6. PICK s : s = ReceiveAccept(old, m)
  OBVIOUS
<1>7. PICK answer : answer = IF Canceled(s) THEN Cancellation(d, t) ELSE KeyMessage(d, t, s)
  OBVIOUS
<1>8. Put(d, t, s) /\ Take(m, {answer}) /\ UNCHANGED <<made, confirmed>>
  BY <1>1, <1>2, <1>6, <1>7 DEF HandleAccept
<1>9. \A n \in net' : n \in net \/ n = answer
  BY <1>8, TakeAdds
<1>10. CASE old.state # "created"
  <2>1. s = Cancel(old)
    BY <1>6, <1>10 DEF ReceiveAccept
  <2>2. s \in SasObjects /\ Canceled(s)
    BY <1>5, <2>1, SasUpdates DEF Cancel, Canceled, SasObjects
  <2>3. ExchangeOK(offer, d, t, s) /\ (d = t[1] => MoveOK(t, old, s))
    BY <1>5, <2>1, CanceledObject
  <2>4. OnlyCancels
    BY <1>5, <1>7, <1>9, <2>2 DEF OnlyCancels
  <2>5. \A n \in net' : n \in net \/ SentOK(n)
    BY <1>8, <2>4, CancelsQuiet
  <2>6. StepOK
    BY <1>2, <1>8, <2>3, <2>5, PutSteps
  <2> QED BY <1>2, <1>3, <1>8, <2>2, <2>3, <2>4, <2>5, <2>6, CancelsAnnounced, PutAgrees
<1>11. CASE old.state = "created"
  <2>1. d = t[1] /\ StarterOK(offer, d, t, old) /\ old.theirs = None /\ ~old.sas_accepted
    BY <1>5, <1>11 DEF ExchangeOK, ResponderOK, StarterOK
  <2>2. /\ m.agreement = Picked(offer) /\ m.agreement \in Protocols
        /\ m.commitment \in Keys \X SUBSET Protocols /\ Drawn(m.commitment[1])
    BY <1>4 DEF Announced, Messages
  <2>3. s = [old EXCEPT !.agreement = m.agreement, !.commitment = m.commitment,
                        !.state = "accepted"]
    BY <1>6, <1>11, <2>2 DEF ReceiveAccept
  <2>4. /\ s.offer = old.offer /\ s.agreement = m.agreement /\ s.commitment = m.commitment
        /\ s.key = old.key /\ s.theirs = None /\ s.state = "accepted"
    BY <1>5, <2>1, <2>3 DEF SasObjects
  <2>5. s.we_started_it /\ ~s.sas_accepted
    BY <1>5, <2>1, <2>3 DEF SasObjects, StarterOK
  <2>6. s \in SasObjects
    BY <1>4, <1>5, <1>6, <1>1, ReceiveTypes
  <2>7. m.agreement # None /\ m.commitment # None
    BY <2>2, NoneAssumption
  <2>8. StarterOK(offer, d, t, s)
    BY <2>1, <2>2, <2>4, <2>5, <2>7 DEF StarterOK
  <2>9. ExchangeOK(offer, d, t, s)
    BY <1>5, <2>1, <2>2, <2>4, <2>5, <2>8 DEF ExchangeOK, Verified
  <2>10. MoveOK(t, old, s)
    BY <1>1, <1>4, <1>5, <1>11, <2>4 DEF MoveOK, Canceled
  <2>11. answer.type = "key" /\ answer.to = Other(d) /\ answer.txn = t /\ answer.key = t
    BY <1>7, <2>1, <2>4 DEF KeyMessage, Canceled, StarterOK
  <2>12. \A n \in net' : n \in net \/ SentOK(n)
    BY <1>9, <2>11 DEF SentOK
  <2>13. StepOK /\ sas'[d][t] = s
    BY <1>2, <1>8, <2>10, <2>12, PutSteps
  <2>14. Announced(offer, answer)'
    <3>1. Drawn(t)'
      BY <1>5, <2>13, DrawnStays DEF Txns
    <3>2. KeyAnnounced(answer)'
      BY <2>1, <2>4, <2>11, <2>13, TwoDevices DEF KeyAnnounced
    <3> QED BY <2>11, <3>1, <3>2 DEF Announced
  <2>15. SentAnnounced(O)
    BY <1>3, <1>9, <2>11, <2>14 DEF SentAnnounced
  <2> QED BY <1>2, <1>3, <1>8, <2>6, <2>9, <2>10, <2>12, <2>15, PutAgrees
<1> QED BY <1>10, <1>11

LEMMA AgreeHandleCancel ==
    ASSUME TrustInv, NEW O, Agreeing(O), NEW m \in net, HandleCancel(m)
    PROVE  Agreeing(O)'
<1>1. PICK d \in Devices, t \in Txns : d = m.to /\ t = m.txn
  BY DEF TrustInv, MessageOk, Messages
<1>2. Put(d, t, None) /\ UNCHANGED <<made, confirmed>> /\ OnlyCancels
  BY <1>1, TakeAdds DEF HandleCancel, OnlyCancels
<1>3. \A e \in Devices, u \in Txns : sas'[e][u] \in {None, sas[e][u]}
  BY <1>2 DEF Put, TrustInv, Others
<1> QED BY <1>2, <1>3, RemovalAgrees

LEMMA AgreeClear ==
    ASSUME TrustInv, NEW O, Agreeing(O), NEW d \in Devices,
           ClearVerifications(d) \/ Restart(d)
    PROVE  Agreeing(O)'
<1>1. UNCHANGED <<made, confirmed>>
  BY DEF ClearVerifications, Restart
<1>2. OnlyCancels
  <2>1. CASE ClearVerifications(d)
    <3> DEFINE expired == {t \in Txns : Known(d, t) /\ TimedOut(sas[d][t])}
    <3>1. Send({Cancellation(d, t) : t \in expired})
      BY <2>1 DEF ClearVerifications
    <3>2. \A t \in expired : Drawn(t)
      BY <3>1, ObjectIs
    <3> QED BY <3>1, <3>2 DEF Send, OnlyCancels
  <2>2. CASE Restart(d)
    BY <2>2 DEF Restart, OnlyCancels
  <2> QED BY <2>1, <2>2
<1>3. \A e \in Devices, u \in Txns : sas'[e][u] \in {None, sas[e][u]}
  <2>1. PICK gone : sas' = [sas EXCEPT ![d] = [t \in Txns |-> IF t \in gone THEN None ELSE sas[d][t]]]
    <3>1. CASE ClearVerifications(d)
      BY <3>1 DEF ClearVerifications, TrustInv, Others
    <3>2. CASE Restart(d)
      <4>1. [t \in Txns |-> IF t \in Txns THEN None ELSE sas[d][t]] = [t \in Txns |-> None]
        OBVIOUS
      <4> QED BY <3>2, <4>1 DEF Restart
    <3> QED BY <3>1, <3>2
  <2> QED BY <2>1 DEF TrustInv, Others
<1> QED BY <1>1, <1>2, <1>3, RemovalAgrees

LEMMA AgreeIdle ==
    ASSUME TrustInv, NEW O, Agreeing(O), UNCHANGED <<sas, made, confirmed>>,
           \A m \in net' : m \in net
    PROVE  Agreeing(O)'
<1>1. \A d \in Devices, t \in Txns : sas'[d][t] \in {None, sas[d][t]}
  OBVIOUS
<1>2. OnlyCancels
  BY DEF OnlyCancels
<1> QED BY <1>1, <1>2, RemovalAgrees

LEMMA AgreeHandleKey ==
    ASSUME TrustInv, NEW O, Agreeing(O), NEW m \in net, HandleKey(m)
    PROVE  Agreeing(O)'
<1>1. PICK d \in Devices, t \in Txns : d = m.to /\ t = m.txn
  BY DEF TrustInv, MessageOk, Messages
<1>2. PICK old : old = sas[d][t]
  OBVIOUS
<1>3. PICK offer : offer = O[t]
  OBVIOUS
<1>4. m.type = "key" /\ m \in Messages /\ KeyAnnounced(m) /\ m.key \in Keys
  <2>1. m.type = "key" /\ m \in Messages /\ Announced(offer, m)
    BY <1>1, <1>3 DEF HandleKey, Agreeing, TrustInv, MessageOk
  <2> QED BY <2>1 DEF Announced, Messages
<1>5. old \in SasObjects /\ old # None /\ ExchangeOK(offer, d, t, old) /\ Drawn(t)
  BY <1>1, <1>2, <1>3, ObjectIs DEF HandleKey
<1>6. PICK s : s = ReceiveKey(old, m)
  OBVIOUS
<1>7. PICK answers : answers = (CASE Canceled(s) -> {Cancellation(d, t)}
                                  [] s.we_started_it /\ ~Canceled(s) -> {}
                                  [] OTHER -> {KeyMessage(d, t, s)})
  OBVIOUS
<1>8. Put(d, t, s) /\ Take(m, answers) /\ UNCHANGED <<made, confirmed>>
  BY <1>1, <1>2, <1>6, <1>7 DEF HandleKey
<1>9. \A n \in net' : n \in net \/ n \in answers
  BY <1>8, TakeAdds
<1>10. s \in SasObjects
  BY <1>1, <1>4, <1>5, <1>6, ReceiveTypes
<1>11. CASE old.theirs # None \/ old.state \notin {"started", "accepted"} \/ ~CommitmentOk(old, m.key)
  <2>1. s = Cancel(old)
    BY <1>6, <1>11 DEF ReceiveKey
  <2>2. Canceled(s)
    BY <1>5, <2>1 DEF Cancel, Canceled, SasObjects
  <2>3. ExchangeOK(offer, d, t, s) /\ (d = t[1] => MoveOK(t, old, s))
    BY <1>5, <2>1, CanceledObject
  <2>4. OnlyCancels
    BY <1>5, <1>7, <1>9, <2>2 DEF OnlyCancels
  <2>5. \A n \in net' : n \in net \/ SentOK(n)
    BY <1>8, <2>4, CancelsQuiet
  <2>6. StepOK
    BY <1>2, <1>8, <2>3, <2>5, PutSteps
  <2> QED BY <1>2, <1>3, <1>8, <1>10, <2>3, <2>4, <2>5, <2>6, CancelsAnnounced, PutAgrees
<1>12. CASE ~(old.theirs # None \/ old.state \notin {"started", "accepted"} \/ ~CommitmentOk(old, m.key))
  <2>1. s = [old EXCEPT !.theirs = m.key, !.state = "key_received"]
    BY <1>6, <1>12 DEF ReceiveKey
  <2>2. /\ s.offer = old.offer /\ s.agreement = old.agreement /\ s.commitment = old.commitment
        /\ s.key = old.key /\ s.theirs = m.key /\ s.state = "key_received" /\ ~Canceled(s)
    BY <1>5, <2>1 DEF SasObjects, Canceled
  <2>3. ~old.sas_accepted /\ ~s.sas_accepted /\ (s.we_started_it <=> old.we_started_it)
    <3>1. ~old.sas_accepted
      BY <1>5, <1>12 DEF ExchangeOK
    <3>2. (s.sas_accepted <=> old.sas_accepted) /\ (s.we_started_it <=> old.we_started_it)
      BY <1>5, <2>1 DEF SasObjects
    <3> QED BY <3>1, <3>2
  <2>4. m.key # None
    BY <1>4, NoneAssumption
  <2>5. ASSUME d = t[1] PROVE StarterOK(offer, d, t, s)
    <3>1. StarterOK(offer, d, t, old) /\ old.state \notin {"created", "canceled"}
      BY <1>5, <1>12, <2>5 DEF ExchangeOK
    <3>2. old.commitment = <<m.key, old.offer>>
      BY <1>12, <3>1 DEF CommitmentOk, StarterOK
    <3>3. m.key[1] = Other(d)
      BY <1>1, <1>4, <2>5 DEF KeyAnnounced
    <3> QED BY <2>2, <2>3, <3>1, <3>2, <3>3 DEF StarterOK
  <2>6. ASSUME d # t[1] PROVE ResponderOK(offer, d, t, s)
    <3>1. ResponderOK(offer, d, t, old)
      BY <1>5, <2>6 DEF ExchangeOK
    <3>2. m.key = t /\ (Known(t[1], t) => sas[t[1]][t].state # "created")
      BY <1>1, <1>4, <2>6 DEF KeyAnnounced
    <3>3. old.agreement = None => Doomed(t, old.key)
      <4>1. SUFFICES ASSUME old.agreement = None PROVE Doomed(t, old.key)
        OBVIOUS
      <4>2. Uncommitted(t, old.key)
        BY <3>1, <4>1 DEF ResponderOK
      <4>3. PICK other : other = sas[t[1]][t]
        OBVIOUS
      <4>4. Known(t[1], t) => StarterOK(offer, t[1], t, other)
        BY <1>3, <4>3, StarterIs
      <4>5. Known(t[1], t) /\ ~Canceled(other) => other.state # "created" /\ other.commitment[1] # old.key
        BY <3>2, <4>2, <4>3, <4>4 DEF StarterOK, Uncommitted, Canceled
      <4> QED BY <4>2, <4>3, <4>5 DEF Doomed, Uncommitted
    <3> QED BY <2>2, <2>3, <3>1, <3>2, <3>3 DEF ResponderOK
  <2>7. ExchangeOK(offer, d, t, s)
    BY <1>5, <2>2, <2>3, <2>4, <2>5, <2>6 DEF ExchangeOK, Verified
  <2>8. MoveOK(t, old, s)
    BY <1>5, <1>12, <2>2 DEF MoveOK, Canceled
  <2>9. CASE d = t[1]
    <3>1. s.we_started_it
      BY <2>5, <2>9 DEF StarterOK
    <3>2. \A n \in net' : n \in net
      BY <1>7, <1>9, <2>2, <3>1
    <3>3. (\A n \in net' : n \in net \/ SentOK(n)) /\ SentAnnounced(O)
      BY <3>2 DEF SentAnnounced
    <3> QED BY <1>2, <1>3, <1>8, <1>10, <2>7, <2>8, <3>3, PutAgrees
  <2>10. CASE d # t[1]
    <3>1. ~s.we_started_it /\ s.key[1] = d
      BY <2>6, <2>10 DEF ResponderOK
    <3>2. PICK answer : answer = KeyMessage(d, t, s)
      OBVIOUS
    <3>3. \A n \in net' : n \in net \/ n = answer
      BY <1>7, <1>9, <2>2, <3>1, <3>2
    <3>4. Other(d) = t[1] /\ d = Other(t[1])
      BY <2>10, KeyParts, TwoDevices DEF Txns
    <3>5. answer.type = "key" /\ answer.to = t[1] /\ answer.txn = t /\ answer.key[1] = Other(t[1])
      BY <3>1, <3>2, <3>4 DEF KeyMessage
    <3>6. \A n \in net' : n \in net \/ SentOK(n)
      BY <3>3, <3>5 DEF SentOK
    <3>7. StepOK
      BY <1>2, <1>8, <2>8, <3>6, PutSteps
    <3>8. Announced(offer, answer)'
      <4>1. Drawn(t)'
        BY <1>5, <3>7, DrawnStays DEF Txns
      <4>2. KeyAnnounced(answer)'
        BY <3>5 DEF KeyAnnounced
      <4> QED BY <3>5, <4>1, <4>2 DEF Announced
    <3>9. SentAnnounced(O)
      BY <1>3, <3>3, <3>5, <3>8 DEF SentAnnounced
    <3> QED BY <1>2, <1>3, <1>8, <1>10, <2>7, <2>8, <3>6, <3>9, PutAgrees
  <2> QED BY <2>9, <2>10
<1> QED BY <1>11, <1>12

(* A mark follows the exchange.                                            *)
LEMMA MarkAgrees ==
    ASSUME MarkedAgrees, confirmed \subseteq confirmed', NEW offer,
           NEW d \in Devices, NEW t \in Txns, NEW s \in SasObjects, MarkIfVerified(d, t, s),
           Sided(offer, d, t, s), s.theirs # None,
           Verified(s) => /\ s.agreement # None
                          /\ <<d, TheString(offer, t, Peer(d, t, s))>> \in confirmed'
                          /\ <<Other(d), TheString(offer, t, Peer(d, t, s))>> \in confirmed'
    PROVE  MarkedAgrees'
<1>1. CASE Verified(s)
  <2>1. PICK string : string = TheString(offer, t, Peer(d, t, s))
    OBVIOUS
  <2>2. agreed' = agreed \cup {<<d, string>>}
    BY <1>1, <2>1, StringIs DEF MarkIfVerified
  <2>3. <<d, string>> \in confirmed' /\ <<Other(d), string>> \in confirmed'
    BY <1>1, <2>1
  <2>4. SUFFICES ASSUME NEW p \in agreed' PROVE {p, <<Other(p[1]), p[2]>>} \subseteq confirmed'
    BY DEF MarkedAgrees
  <2>5. CASE p \in agreed
    BY <2>5 DEF MarkedAgrees
  <2>6. CASE p = <<d, string>>
    <3>1. p[1] = d /\ p[2] = string
      BY <2>6
    <3> QED BY <2>3, <2>6, <3>1
  <2> QED BY <2>2, <2>4, <2>5, <2>6
<1>2. CASE ~Verified(s)
  <2>1. agreed' = agreed
    BY <1>2 DEF MarkIfVerified
  <2> QED BY <2>1 DEF MarkedAgrees
<1> QED BY <1>1, <1>2

LEMMA SidedObject ==
    ASSUME NEW offer, NEW d, NEW t, NEW s, ExchangeOK(offer, d, t, s)
    PROVE  Sided(offer, d, t, s)
  BY DEF ExchangeOK, StarterOK, ResponderOK, Sided

LEMMA AgreeHandleMac ==
    ASSUME TrustInv, NEW O, Agreeing(O), NEW m \in net, HandleMac(m), MarkedAgrees
    PROVE  Agreeing(O)' /\ MarkedAgrees'
<1>1. PICK d \in Devices, t \in Txns : d = m.to /\ t = m.txn
  BY DEF TrustInv, MessageOk, Messages
<1>2. PICK old : old = sas[d][t]
  OBVIOUS
<1>3. PICK offer : offer = O[t]
  OBVIOUS
<1>4. m.type = "mac" /\ m \in Messages /\ MacAnnounced(offer, m)
  <2>1. m.type = "mac" /\ m \in Messages /\ Announced(offer, m)
    BY <1>1, <1>3 DEF HandleMac, Agreeing, TrustInv, MessageOk
  <2> QED BY <2>1 DEF Announced
<1>5. old \in SasObjects /\ old # None /\ ExchangeOK(offer, d, t, old) /\ Drawn(t)
  BY <1>1, <1>2, <1>3, ObjectIs DEF HandleMac
<1>6. PICK s : s = ReceiveMac(d, old, m)
  OBVIOUS
<1>7. /\ Put(d, t, s) /\ Take(m, IF Canceled(s) THEN {Cancellation(d, t)} ELSE {})
      /\ MarkIfVerified(d, t, s) /\ UNCHANGED <<made, confirmed>>
  BY <1>1, <1>2, <1>6 DEF HandleMac
<1>8. OnlyCancels
  <2>1. \A n \in net' : n \in net \/ n = Cancellation(d, t)
    BY <1>7, TakeAdds
  <2> QED BY <1>5, <2>1 DEF OnlyCancels
<1>9. s \in SasObjects
  BY <1>1, <1>4, <1>5, <1>6, ReceiveTypes
<1>10. /\ ExchangeOK(offer, d, t, s) /\ (d = t[1] => MoveOK(t, old, s))
       /\ Verified(s) => s.theirs # None
  <2>1. CASE s = Cancel(old)
    <3>1. s.state = "canceled"
      BY <1>5, <2>1 DEF Cancel, SasObjects
    <3> QED BY <1>5, <2>1, <3>1, CanceledObject DEF Verified
  <2>2. CASE s = old
    BY <1>5, <2>2 DEF MoveOK, ExchangeOK, Verified
  <2>3. CASE /\ old.state = "key_received" /\ old.agreement # None /\ MacOk(d, old, m)
             /\ s = [old EXCEPT !.state = "mac_received"]
    <3>1. /\ s.offer = old.offer /\ s.agreement = old.agreement /\ s.commitment = old.commitment
          /\ s.key = old.key /\ s.theirs = old.theirs /\ s.state = "mac_received"
      BY <1>5, <2>3 DEF SasObjects
    <3>2. (s.we_started_it <=> old.we_started_it) /\ (s.sas_accepted <=> old.sas_accepted)
      BY <1>5, <2>3 DEF SasObjects
    <3>3. old.theirs # None /\ m.secret = Secret(old)
      BY <1>5, <2>3 DEF ExchangeOK, MacOk
    <3>4. PICK peer : peer = Peer(d, t, old)
      OBVIOUS
    <3>5. Peer(d, t, s) = peer
      BY <3>1, <3>4 DEF Peer
    <3>6. m.secret = {t, peer}
      BY <1>5, <2>3, <3>3, <3>4, SidedObject, StringIs
    <3>7. <<Other(d), TheString(offer, t, peer)>> \in confirmed
      <4>1. PICK k \in Keys : m.secret = {t, k} /\ <<Other(d), TheString(offer, t, k)>> \in confirmed
        BY <1>1, <1>4 DEF MacAnnounced
      <4>2. k = peer
        BY <3>6, <4>1, SecretsDiffer
      <4> QED BY <4>1, <4>2
    <3>8. s.sas_accepted => <<d, TheString(offer, t, peer)>> \in confirmed
      <4>1. CASE d = t[1]
        BY <1>5, <3>2, <3>4, <4>1 DEF ExchangeOK, StarterOK, Peer
      <4>2. CASE d # t[1]
        <5>1. peer = old.key /\ ResponderOK(offer, d, t, old)
          BY <1>5, <3>4, <4>2 DEF ExchangeOK, Peer
        <5>2. MacFor(t, peer)
          BY <1>1, <1>4, <3>6, <4>2 DEF MacFor
        <5>3. ~Doomed(t, peer)
          BY <5>2 DEF Doomed
        <5> QED BY <3>2, <5>1, <5>3 DEF ResponderOK
      <4> QED BY <4>1, <4>2
    <3>9. d = t[1] => StarterOK(offer, d, t, s)
      <4>1. SUFFICES ASSUME d = t[1] PROVE StarterOK(offer, d, t, s)
        OBVIOUS
      <4>2. StarterOK(offer, d, t, old)
        BY <1>5, <4>1 DEF ExchangeOK
      <4> QED BY <2>3, <3>1, <3>2, <4>2 DEF StarterOK
    <3>10. d # t[1] => ResponderOK(offer, d, t, s)
      <4>1. SUFFICES ASSUME d # t[1] PROVE ResponderOK(offer, d, t, s)
        OBVIOUS
      <4>2. ResponderOK(offer, d, t, old)
        BY <1>5, <4>1 DEF ExchangeOK
      <4> QED BY <2>3, <3>1, <3>2, <4>2 DEF ResponderOK
    <3>11. ExchangeOK(offer, d, t, s)
      BY <1>5, <2>3, <3>1, <3>2, <3>3, <3>5, <3>7, <3>8, <3>9, <3>10 DEF ExchangeOK, Verified
    <3>12. MoveOK(t, old, s)
      BY <1>5, <2>3, <3>1 DEF MoveOK, Canceled
    <3> QED BY <3>1, <3>3, <3>11, <3>12
  <2> QED BY <1>6, <2>1, <2>2, <2>3 DEF ReceiveMac
<1>11. \A n \in net' : n \in net \/ SentOK(n)
  BY <1>7, <1>8, CancelsQuiet
<1>12. StepOK
  BY <1>2, <1>7, <1>10, <1>11, PutSteps
<1>13. Agreeing(O)'
  BY <1>2, <1>3, <1>7, <1>8, <1>9, <1>10, <1>11, <1>12, CancelsAnnounced, PutAgrees
<1>14. MarkedAgrees'
  <2>1. CASE Verified(s)
    BY <1>7, <1>9, <1>10, <2>1, SidedObject, MarkAgrees DEF ExchangeOK, Verified
  <2>2. CASE ~Verified(s)
    <3>1. agreed' = agreed /\ confirmed' = confirmed
      BY <1>7, <2>2 DEF MarkIfVerified
    <3> QED BY <3>1 DEF MarkedAgrees
  <2> QED BY <2>1, <2>2
<1> QED BY <1>13, <1>14

LEMMA AgreeConfirm ==
    ASSUME TrustInv, NEW O, Agreeing(O), NEW d \in Devices, NEW t \in Txns, NEW keys,
           ConfirmShortAuthString(d, t, keys), MarkedAgrees
    PROVE  Agreeing(O)' /\ MarkedAgrees'
<1>1. PICK old : old = sas[d][t]
  OBVIOUS
<1>2. PICK offer : offer = O[t]
  OBVIOUS
<1>3. /\ old \in SasObjects /\ old # None /\ ExchangeOK(offer, d, t, old) /\ Drawn(t)
      /\ Known(d, t) /\ ~Canceled(old) /\ old.theirs # None
  BY <1>1, <1>2, ObjectIs DEF ConfirmShortAuthString
<1>4. PICK s \in SasObjects : s = [old EXCEPT !.sas_accepted = TRUE]
  BY <1>3, SasUpdates
<1>5. /\ s.offer = old.offer /\ s.agreement = old.agreement /\ s.commitment = old.commitment
      /\ s.key = old.key /\ s.theirs = old.theirs /\ s.state = old.state /\ s.sas_accepted
  BY <1>3, <1>4 DEF SasObjects
<1>6. s.we_started_it <=> old.we_started_it
  BY <1>3, <1>4 DEF SasObjects
<1>7. Put(d, t, s) /\ UNCHANGED made
  BY <1>1, <1>4 DEF ConfirmShortAuthString
<1>8. MoveOK(t, old, s)
  BY <1>3, <1>5 DEF MoveOK, Canceled
<1>9. PICK peer : peer = Peer(d, t, old)
  OBVIOUS
<1>10. Peer(d, t, s) = peer
  BY <1>5, <1>9 DEF Peer
<1>11. CASE s.agreement = None
  <2>1. UNCHANGED <<net, confirmed, agreed>>
    BY <1>1, <1>4, <1>11 DEF ConfirmShortAuthString
  <2>2. d # t[1]
    BY <1>3, <1>5, <1>11 DEF ExchangeOK, StarterOK
  <2>3. ResponderOK(offer, d, t, old)
    BY <1>3, <2>2 DEF ExchangeOK
  <2>4. ResponderOK(offer, d, t, s)
    BY <1>3, <1>5, <1>6, <1>11, <2>3 DEF ResponderOK
  <2>5. ExchangeOK(offer, d, t, s)
    BY <1>3, <1>5, <1>11, <2>2, <2>4 DEF ExchangeOK, Verified
  <2>6. (\A m \in net' : m \in net \/ SentOK(m)) /\ SentAnnounced(O)
    BY <2>1 DEF SentAnnounced
  <2>7. Agreeing(O)'
    BY <1>1, <1>2, <1>7, <1>8, <2>1, <2>5, <2>6, PutAgrees
  <2> QED BY <2>1, <2>7 DEF MarkedAgrees
<1>12. CASE s.agreement # None
  <2>1. PICK m : m = MacMessage(d, t, s, keys)
    OBVIOUS
  <2>2. /\ Send({m}) /\ confirmed' = confirmed \cup {<<d, ShortString(d, t, s)>>}
        /\ MarkIfVerified(d, t, s)
    BY <1>1, <1>4, <1>12, <2>1 DEF ConfirmShortAuthString
  <2>3. Sided(offer, d, t, s)
    BY <1>3, <1>5, <1>6, SidedObject DEF Sided
  <2>4. ShortString(d, t, s) = TheString(offer, t, peer) /\ Secret(s) = {t, peer}
    BY <1>3, <1>5, <1>10, <1>12, <2>3, StringIs
  <2>5. /\ m.type = "mac" /\ m.to = Other(d) /\ m.txn = t /\ m.secret = {t, peer}
        /\ \A n \in net' : n \in net \/ n = m
    BY <2>1, <2>2, <2>4 DEF MacMessage, Send
  <2>6. t[1] \in Devices
    BY KeyParts DEF Txns
  <2>7. SentOK(m)
    <3>1. SUFFICES ASSUME m.to # t[1] PROVE MayConfirm(t, m)
      BY <2>5 DEF SentOK
    <3>2. d = t[1]
      BY <2>5, <2>6, <3>1, TwoDevices
    <3> QED BY <1>1, <1>3, <1>9, <2>5, <3>2 DEF MayConfirm, Peer
  <2>8. \A n \in net' : n \in net \/ SentOK(n)
    BY <2>5, <2>7
  <2>9. confirmed \subseteq confirmed' /\ <<d, TheString(offer, t, peer)>> \in confirmed'
    BY <2>2, <2>4
  <2>10. /\ StepOK
         /\ \A e \in Devices, u \in Txns : sas'[e][u] = IF e = d /\ u = t THEN s ELSE sas[e][u]
    BY <1>1, <1>7, <1>8, <2>8, <2>9, PutSteps
  <2>11. ExchangeOK(offer, d, t, old)'
    BY <1>2, <1>3, <1>5, <1>12, <2>10, StarterIs, ExchangeStays
  <2>12. d = t[1] => StarterOK(offer, d, t, s)'
    <3>1. SUFFICES ASSUME d = t[1] PROVE StarterOK(offer, d, t, s)'
      OBVIOUS
    <3>2. StarterOK(offer, d, t, old)'
      BY <2>11, <3>1 DEF ExchangeOK
    <3>3. peer = s.theirs
      BY <1>5, <1>9, <3>1 DEF Peer
    <3> QED BY <1>5, <1>6, <2>9, <3>2, <3>3 DEF StarterOK
  <2>13. d # t[1] => ResponderOK(offer, d, t, s)'
    <3>1. SUFFICES ASSUME d # t[1] PROVE ResponderOK(offer, d, t, s)'
      OBVIOUS
    <3>2. ResponderOK(offer, d, t, old)'
      BY <2>11, <3>1 DEF ExchangeOK
    <3>3. peer = s.key
      BY <1>5, <1>9, <3>1 DEF Peer
    <3> QED BY <1>5, <1>6, <2>9, <3>2, <3>3 DEF ResponderOK
  <2>14. ExchangeOK(offer, d, t, s)'
    BY <1>3, <1>5, <1>9, <1>10, <2>9, <2>11, <2>12, <2>13 DEF ExchangeOK, Verified
  <2>15. ChangedOK(O)
    <3>1. SUFFICES ASSUME NEW e \in Devices, NEW u \in Txns, sas'[e][u] # None, sas'[e][u] # sas[e][u]
                   PROVE  ExchangeOK(O[u], e, u, sas[e][u])'
      BY DEF ChangedOK
    <3>2. e = d /\ u = t /\ sas'[e][u] = s
      BY <2>10, <3>1
    <3> QED BY <1>2, <2>14, <3>2
  <2>16. MacAnnounced(offer, m)'
    <3>1. peer \in Keys /\ peer[1] = Other(t[1]) /\ Drawn(peer)
      <4>1. CASE d = t[1]
        <5>1. peer = old.theirs /\ StarterOK(offer, d, t, old)
          BY <1>3, <1>9, <4>1 DEF ExchangeOK, Peer
        <5> QED BY <1>3, <4>1, <5>1 DEF StarterOK, SasObjects
      <4>2. CASE d # t[1]
        <5>1. peer = old.key /\ ResponderOK(offer, d, t, old)
          BY <1>3, <1>9, <4>2 DEF ExchangeOK, Peer
        <5>2. d = Other(t[1])
          BY <2>6, <4>2, TwoDevices
        <5> QED BY <1>3, <5>1, <5>2 DEF ResponderOK, SasObjects
      <4> QED BY <4>1, <4>2
    <3>2. Drawn(peer)'
      BY <2>10, <3>1, DrawnStays
    <3>3. Other(m.to) = d
      BY <2>5, TwoDevices
    <3> QED BY <2>5, <2>9, <3>1, <3>2, <3>3 DEF MacAnnounced
  <2>17. SentAnnounced(O)
    <3>1. Drawn(t)'
      BY <1>3, <2>10, DrawnStays DEF Txns
    <3>2. Announced(offer, m)'
      BY <2>5, <2>16, <3>1 DEF Announced
    <3> QED BY <1>2, <2>5, <3>2 DEF SentAnnounced
  <2>18. Agreeing(O)'
    BY <2>10, <2>15, <2>17, Frame
  <2>19. Verified(s) => <<Other(d), TheString(offer, t, peer)>> \in confirmed'
    BY <1>3, <1>5, <1>9, <2>9 DEF ExchangeOK, Verified
  <2>20. MarkedAgrees'
    BY <1>3, <1>5, <1>10, <1>12, <2>2, <2>3, <2>9, <2>19, MarkAgrees
  <2> QED BY <2>18, <2>20
<1> QED BY <1>11, <1>12

(* The transaction of a key that was not drawn yet has no object and no    *)
(* message, so it may be said what it will offer.                          *)
LEMMA FreshOffer ==
    ASSUME NEW O \in [Txns -> SUBSET Protocols], Agreeing(O), TrustInv,
           NEW t \in Txns, ~Drawn(t), NEW offer
    PROVE  Agreeing([O EXCEPT ![t] = offer])
<1>1. PICK P : P = [O EXCEPT ![t] = offer]
  OBVIOUS
<1>2. \A u \in Txns : u # t => P[u] = O[u]
  BY <1>1
<1>3. ASSUME NEW d \in Devices, NEW u \in Txns, Known(d, u)
      PROVE  ExchangeOK(P[u], d, u, sas[d][u])
  <2>1. ExchangeOK(O[u], d, u, sas[d][u])
    BY <1>3 DEF Agreeing
  <2>2. u # t
    BY <2>1 DEF ExchangeOK
  <2> QED BY <1>2, <2>1, <2>2
<1>4. ASSUME NEW m \in net PROVE Announced(P[m.txn], m)
  <2>1. Announced(O[m.txn], m) /\ m.txn \in Txns
    BY DEF Agreeing, TrustInv, MessageOk, Messages
  <2>2. m.txn # t
    BY <2>1 DEF Announced
  <2> QED BY <1>2, <2>1, <2>2
<1>5. Agreeing(P)
  BY <1>3, <1>4 DEF Agreeing
<1> QED BY <1>1, <1>5

LEMMA FreshUncommitted ==
    ASSUME NEW O, Agreeing(O), TrustInv, NEW t \in Txns, NEW k, ~Drawn(k)
    PROVE  Uncommitted(t, k)
<1>1. Known(t[1], t) => sas[t[1]][t].commitment = None \/ sas[t[1]][t].commitment[1] # k
  BY StarterIs DEF StarterOK
<1>2. \A m \in net : m.type = "accept" => m.commitment[1] # k
  BY DEF Agreeing, Announced
<1>3. ~MacFor(t, k)
  <2>1. SUFFICES ASSUME NEW m \in net, m.type = "mac", m.txn = t, m.secret = {t, k} PROVE FALSE
    BY DEF MacFor
  <2>2. Announced(O[t], m)
    BY <2>1 DEF Agreeing
  <2>3. PICK n \in Keys : Drawn(n) /\ m.secret = {t, n}
    BY <2>1, <2>2 DEF Announced, MacAnnounced
  <2>4. n = k
    BY <2>1, <2>3, SecretsDiffer
  <2> QED BY <2>3, <2>4
<1> QED BY <1>1, <1>2, <1>3 DEF Uncommitted

LEMMA DrawnNext ==
    ASSUME TrustInv, NEW d \in Devices, NEW k, k = <<d, made[d] + 1>>,
           made' = [made EXCEPT ![d] = @ + 1]
    PROVE  /\ ~Drawn(k) /\ Drawn(k)'
           /\ \A e \in Devices : made[e] \in Nat /\ made'[e] \in Nat /\ made[e] <= made'[e]
<1>1. made \in [Devices -> Nat]
  BY DEF TrustInv, Others
<1>2. PICK n \in Nat : n = made[d]
  BY <1>1
<1>3. made'[d] = n + 1
  BY <1>1, <1>2
<1>4. \A e \in Devices : made[e] \in Nat /\ made'[e] \in Nat /\ made[e] <= made'[e]
  <2>1. \A e \in Devices \ {d} : made'[e] = made[e]
    BY <1>1
  <2> QED BY <1>1, <1>2, <1>3, <2>1
<1>5. k[1] = d /\ k[2] = n + 1
  BY <1>2
<1>6. ~Drawn(k)
  BY <1>2, <1>5 DEF Drawn
<1>7. Drawn(k)'
  BY <1>3, <1>5 DEF Drawn
<1> QED BY <1>4, <1>6, <1>7

LEMMA AgreeStart ==
    ASSUME TrustInv, NEW O \in [Txns -> SUBSET Protocols], Agreeing(O), NEW d \in Devices,
           NEW offer \in Offers, StartKeyVerification(d, offer)
    PROVE  \E P \in [Txns -> SUBSET Protocols] : Agreeing(P)'
<1>1. PICK s : s = NewSas(d, offer)
  OBVIOUS
<1>2. PICK t : t = <<d, made[d] + 1>>
  OBVIOUS
<1>3. /\ s.we_started_it /\ s.key = t /\ s.offer = offer /\ s.state = "created" /\ s.agreement = None
      /\ s.commitment = None /\ s.theirs = None /\ ~s.sas_accepted
  BY <1>1, <1>2 DEF NewSas
<1>4. made[d] \in Nat /\ made[d] < MaxSas[d] /\ offer \in SUBSET Protocols
  <2>1. made[d] \in Nat /\ MaxStarts[d] \in Nat /\ MaxSas[d] \in Nat /\ MaxStarts[d] <= MaxSas[d]
    BY DevicesAssumption DEF TrustInv, Others
  <2> QED BY <2>1, DevicesAssumption DEF StartKeyVerification, Protocols
<1>5. t \in Txns /\ s \in SasObjects
  BY <1>1, <1>2, <1>4, TrustTypes, NewSasTypes DEF Txns
<1>6. PICK m : m = StartMessage(d, t, s)
  OBVIOUS
<1>7. Put(d, t, s) /\ Send({m}) /\ made' = [made EXCEPT ![d] = @ + 1] /\ UNCHANGED confirmed
  BY <1>1, <1>3, <1>6 DEF StartKeyVerification
<1>8. /\ ~Drawn(t) /\ Drawn(t)'
      /\ \A e \in Devices : made[e] \in Nat /\ made'[e] \in Nat /\ made[e] <= made'[e]
  BY <1>2, <1>7, DrawnNext
<1>9. \A e \in Devices, u \in Txns : sas'[e][u] = IF e = d /\ u = t THEN s ELSE sas[e][u]
  BY <1>5, <1>7 DEF TrustInv, Others, Put
<1>10. PICK P : P = [O EXCEPT ![t] = offer]
  OBVIOUS
<1>11. P \in [Txns -> SUBSET Protocols] /\ P[t] = offer
  BY <1>4, <1>5, <1>10
<1>12. Agreeing(P)
  BY <1>5, <1>8, <1>10, FreshOffer
<1>13. /\ m.type = "start" /\ m.txn = t /\ m.to = Other(d) /\ m.offer = offer
       /\ \A n \in net' : n \in net \/ n = m
  BY <1>3, <1>6, <1>7 DEF StartMessage, Send
<1>14. t[1] = d /\ Other(d) # d
  BY <1>2, TwoDevices
<1>15. StepOK
  <2>1. ASSUME NEW u \in Txns, Drawn(u) PROVE MoveOK(u, sas[u[1]][u], sas'[u[1]][u])
    <3>1. u[1] \in Devices /\ u # t
      BY <1>8, <2>1, KeyParts DEF Txns
    <3> QED BY <1>9, <3>1 DEF MoveOK
  <2>2. \A n \in net' : n \in net \/ SentOK(n)
    BY <1>13 DEF SentOK
  <2> QED BY <1>7, <1>8, <2>1, <2>2 DEF StepOK
<1>16. ExchangeOK(offer, d, t, s)'
  <2>1. StarterOK(offer, d, t, s)'
    BY <1>3 DEF StarterOK
  <2> QED BY <1>3, <1>8, <1>14, <2>1 DEF ExchangeOK, Verified
<1>17. ChangedOK(P)
  <2>1. SUFFICES ASSUME NEW e \in Devices, NEW u \in Txns, sas'[e][u] # None, sas'[e][u] # sas[e][u]
                 PROVE  ExchangeOK(P[u], e, u, sas[e][u])'
    BY DEF ChangedOK
  <2>2. e = d /\ u = t /\ sas'[e][u] = s
    BY <1>9, <2>1
  <2> QED BY <1>11, <1>16, <2>2
<1>18. SentAnnounced(P)
  <2>1. Announced(offer, m)'
    BY <1>8, <1>13, <1>14 DEF Announced
  <2> QED BY <1>11, <1>13, <2>1 DEF SentAnnounced
<1>19. Agreeing(P)'
  BY <1>12, <1>15, <1>17, <1>18, Frame
<1> QED BY <1>11, <1>19

LEMMA AgreeHandleStart ==
    ASSUME TrustInv, NEW O, Agreeing(O), NEW m \in net, HandleStart(m)
    PROVE  Agreeing(O)'
<1>1. PICK d \in Devices, t \in Txns : d = m.to /\ t = m.txn
  BY DEF TrustInv, MessageOk, Messages
<1>2. PICK offer : offer = O[t]
  OBVIOUS
<1>3. m.type = "start" /\ m \in Messages /\ Announced(offer, m)
  BY <1>1, <1>2 DEF HandleStart, Agreeing, TrustInv, MessageOk
<1>4. Drawn(t) /\ d # t[1] /\ m.offer = offer /\ offer \in SUBSET Protocols
  BY <1>1, <1>3 DEF Announced, Messages
<1>5. PICK new : new = SasFromStart(d, offer)
  OBVIOUS
<1>6. PICK active \in SUBSET Txns : active = ActiveSas(d)
  BY DEF ActiveSas
<1>7. CASE Canceled(new)
  <2>1. Take(m, {Cancellation(d, t)}) /\ UNCHANGED <<sas, made, confirmed>>
    BY <1>1, <1>4, <1>5, <1>7 DEF HandleStart
  <2>2. OnlyCancels
    BY <1>4, <2>1, TakeAdds DEF OnlyCancels
  <2>3. \A e \in Devices, u \in Txns : sas'[e][u] \in {None, sas[e][u]}
    BY <2>1
  <2> QED BY <2>1, <2>2, <2>3, RemovalAgrees
<1>8. CASE ~Canceled(new)
  <2>1. /\ made[d] < MaxSas[d] /\ made' = [made EXCEPT ![d] = @ + 1] /\ UNCHANGED confirmed
        /\ sas' = [sas EXCEPT ![d] =
                    [u \in Txns |-> IF u = t THEN new
                                    ELSE IF u \in active THEN Cancel(@[u]) ELSE @[u]]]
        /\ Take(m, {Cancellation(d, u) : u \in active})
    BY <1>1, <1>4, <1>5, <1>6, <1>8 DEF HandleStart
  <2>2. \A e \in Devices, u \in Txns :
            sas'[e][u] = IF e # d THEN sas[e][u]
                         ELSE IF u = t THEN new
                         ELSE IF u \in active THEN Cancel(sas[d][u]) ELSE sas[d][u]
    BY <2>1 DEF TrustInv, Others
  <2>3. PICK k : k = <<d, made[d] + 1>>
    OBVIOUS
  <2>4. k \in Keys /\ new \in SasObjects
    BY <1>4, <1>5, <2>1, <2>3, TrustTypes, NewSasTypes
  <2>5. /\ ~new.we_started_it /\ new.key = k /\ new.offer = offer /\ new.state = "started"
        /\ new.agreement = None /\ new.commitment = <<k, offer>> /\ new.theirs = None
        /\ ~new.sas_accepted
    BY <1>5, <1>8, <2>3 DEF SasFromStart, NewSas, Canceled, Cancel
  <2>6. /\ ~Drawn(k) /\ Drawn(k)'
        /\ \A e \in Devices : made[e] \in Nat /\ made'[e] \in Nat /\ made[e] <= made'[e]
    BY <2>1, <2>3, DrawnNext
  <2>7. \A u \in active : Known(d, u) /\ Drawn(u)
    <3>1. \A u \in active : Known(d, u)
      BY <1>6 DEF ActiveSas
    <3> QED BY <3>1, ObjectIs
  <2>8. \A n \in net' : n \in net \/ \E u \in active : n = Cancellation(d, u)
    BY <2>1, TakeAdds
  <2>9. OnlyCancels
    BY <2>7, <2>8 DEF OnlyCancels
  <2>10. \A n \in net' : n \in net \/ SentOK(n)
    <3>1. ASSUME NEW u PROVE SentOK(Cancellation(d, u))
      <4>1. PICK c : c = Cancellation(d, u)
        OBVIOUS
      <4>2. c.type = "cancel"
        BY <4>1 DEF Cancellation
      <4> QED BY <4>1, <4>2 DEF SentOK
    <3> QED BY <2>8, <3>1
  <2>11. ASSUME NEW u \in active
         PROVE  /\ Cancel(sas[d][u]) \in SasObjects /\ sas[d][u] # None
                /\ ExchangeOK(O[u], d, u, Cancel(sas[d][u]))
                /\ d = u[1] => MoveOK(u, sas[d][u], Cancel(sas[d][u]))
    <3>1. PICK old : old = sas[d][u]
      OBVIOUS
    <3>2. PICK o : o = O[u]
      OBVIOUS
    <3>3. old \in SasObjects /\ old # None /\ ExchangeOK(o, d, u, old)
      BY <2>7, <3>1, <3>2, ObjectIs
    <3>4. Cancel(old) \in SasObjects
      BY <3>3, SasUpdates
    <3>5. ExchangeOK(o, d, u, Cancel(old)) /\ (d = u[1] => MoveOK(u, old, Cancel(old)))
      BY <3>3, CanceledObject
    <3> QED BY <3>1, <3>2, <3>3, <3>4, <3>5
  <2>12. StepOK
    <3>1. ASSUME NEW u \in Txns PROVE MoveOK(u, sas[u[1]][u], sas'[u[1]][u])
      <4>1. u[1] \in Devices
        BY KeyParts DEF Txns
      <4>2. CASE u[1] = d /\ u \in active
        <5>1. sas'[d][u] = Cancel(sas[d][u])
          BY <1>4, <2>2, <4>2
        <5> QED BY <2>11, <4>2, <5>1
      <4>3. CASE ~(u[1] = d /\ u \in active)
        <5>1. sas'[u[1]][u] = sas[u[1]][u]
          BY <1>4, <2>2, <4>1, <4>3
        <5> QED BY <5>1 DEF MoveOK
      <4> QED BY <4>2, <4>3
    <3> QED BY <2>1, <2>6, <2>10, <3>1 DEF StepOK
  <2>13. \A u \in Txns : NoAccept(u)
    <3>1. SUFFICES ASSUME NEW n \in net', n.type = "accept", n \notin net PROVE FALSE
      BY DEF NoAccept
    <3>2. PICK u \in active : n = Cancellation(d, u)
      BY <2>8, <3>1
    <3> QED BY <3>1, <3>2 DEF Cancellation
  <2>14. ExchangeOK(offer, d, t, new)'
    <3>1. Uncommitted(t, k)'
      <4>1. Uncommitted(t, k)
        BY <2>6, FreshUncommitted
      <4>2. Known(t[1], t) => StarterOK(offer, t[1], t, sas[t[1]][t])
        BY <1>2, StarterIs
      <4> QED BY <1>4, <2>12, <2>13, <4>1, <4>2, UncommittedStays
    <3>2. ResponderOK(offer, d, t, new)'
      BY <2>3, <2>5, <2>6, <3>1 DEF ResponderOK
    <3>3. Drawn(t)'
      BY <1>4, <2>12, DrawnStays DEF Txns
    <3> QED BY <1>4, <2>5, <3>2, <3>3 DEF ExchangeOK, Verified
  <2>15. ASSUME NEW u \in active, NEW c, c = Cancel(sas[d][u])
         PROVE  ExchangeOK(O[u], d, u, c)'
    <3>2. PICK o : o = O[u]
      OBVIOUS
    <3>3. c \in SasObjects /\ ExchangeOK(o, d, u, c)
      BY <2>11, <2>15, <3>2
    <3>4. Known(u[1], u) => StarterOK(o, u[1], u, sas[u[1]][u])
      BY <3>2, StarterIs
    <3>5. ExchangeOK(o, d, u, c)'
      BY <2>12, <2>13, <3>3, <3>4, ExchangeStays
    <3> QED BY <3>2, <3>5
  <2>16. ChangedOK(O)
    <3>1. SUFFICES ASSUME NEW e \in Devices, NEW u \in Txns, sas'[e][u] # None, sas'[e][u] # sas[e][u]
                   PROVE  ExchangeOK(O[u], e, u, sas[e][u])'
      BY DEF ChangedOK
    <3>2. e = d /\ (u = t \/ u \in active)
      BY <2>2, <3>1
    <3>3. CASE u = t
      BY <1>2, <2>2, <2>14, <3>2, <3>3
    <3>4. CASE u # t
      <4>1. PICK c : c = sas'[e][u]
        OBVIOUS
      <4>2. c = Cancel(sas[d][u]) /\ u \in active
        BY <2>2, <3>2, <3>4, <4>1
      <4>3. ExchangeOK(O[u], d, u, c)'
        BY <2>15, <4>2
      <4> QED BY <3>2, <4>1, <4>3
    <3> QED BY <3>3, <3>4
  <2> QED BY <2>9, <2>12, <2>16, CancelsAnnounced, Frame
<1> QED BY <1>7, <1>8

-----------------------------------------------------------------------------
(* Every step                                                              *)

AgreeInv ==
    /\ TrustInv
    /\ MarkedAgrees
    /\ \E O \in [Txns -> SUBSET Protocols] : Agreeing(O)

LEMMA MarksStayAgreed ==
    ASSUME MarkedAgrees, confirmed \subseteq confirmed', UNCHANGED agreed
    PROVE  MarkedAgrees'
  BY DEF MarkedAgrees

LEMMA AgreeReceives ==
    ASSUME TrustInv, MarkedAgrees, NEW O, Agreeing(O), HandleKeyVerification
    PROVE  Agreeing(O)' /\ MarkedAgrees'
<1>1. PICK m \in net :
        \/ StartFromUnknownDevice(m) \/ HandleStart(m) \/ HandleUnknownTransaction(m)
        \/ HandleAccept(m) \/ HandleCancel(m) \/ HandleKey(m) \/ HandleMac(m)
  BY DEF HandleKeyVerification
<1>2. CASE StartFromUnknownDevice(m) \/ HandleUnknownTransaction(m)
  <2>1. Take(m, {}) /\ UNCHANGED <<sas, made, confirmed, agreed>>
    BY <1>2 DEF StartFromUnknownDevice, HandleUnknownTransaction
  <2>2. \A n \in net' : n \in net
    BY <2>1, TakeAdds
  <2> QED BY <2>1, <2>2, AgreeIdle, MarksStayAgreed
<1>3. CASE HandleStart(m)
  <2>1. UNCHANGED <<confirmed, agreed>>
    BY <1>3 DEF HandleStart
  <2> QED BY <1>3, <2>1, AgreeHandleStart, MarksStayAgreed
<1>4. CASE HandleAccept(m)
  <2>1. UNCHANGED <<confirmed, agreed>>
    BY <1>4 DEF HandleAccept
  <2> QED BY <1>4, <2>1, AgreeHandleAccept, MarksStayAgreed
<1>5. CASE HandleCancel(m)
  <2>1. UNCHANGED <<confirmed, agreed>>
    BY <1>5 DEF HandleCancel
  <2> QED BY <1>5, <2>1, AgreeHandleCancel, MarksStayAgreed
<1>6. CASE HandleKey(m)
  <2>1. UNCHANGED <<confirmed, agreed>>
    BY <1>6 DEF HandleKey
  <2> QED BY <1>6, <2>1, AgreeHandleKey, MarksStayAgreed
<1>7. CASE HandleMac(m)
  BY <1>7, AgreeHandleMac
<1> QED BY <1>1, <1>2, <1>3, <1>4, <1>5, <1>6, <1>7

LEMMA AgreeActs ==
    ASSUME TrustInv, MarkedAgrees, NEW O \in [Txns -> SUBSET Protocols], Agreeing(O),
           NEW d \in Devices, UserStep(d)
    PROVE  MarkedAgrees' /\ \E P \in [Txns -> SUBSET Protocols] : Agreeing(P)'
<1>1. CASE \E offer \in Offers : StartKeyVerification(d, offer)
  <2>1. PICK offer \in Offers : StartKeyVerification(d, offer)
    BY <1>1
  <2>2. UNCHANGED <<confirmed, agreed>>
    BY <2>1 DEF StartKeyVerification
  <2> QED BY <2>1, <2>2, AgreeStart, MarksStayAgreed
<1>2. ASSUME NEW t \in Txns, AcceptKeyVerification(d, t)
      PROVE  Agreeing(O)' /\ MarkedAgrees'
  <2>1. UNCHANGED <<confirmed, agreed>>
    BY <1>2 DEF AcceptKeyVerification
  <2> QED BY <1>2, <2>1, AgreeAccept, MarksStayAgreed
<1>3. ASSUME NEW t \in Txns, CancelKeyVerification(d, t)
      PROVE  Agreeing(O)' /\ MarkedAgrees'
  <2>1. UNCHANGED <<confirmed, agreed>>
    BY <1>3 DEF CancelKeyVerification
  <2> QED BY <1>3, <2>1, AgreeCancel, MarksStayAgreed
<1>4. ASSUME NEW t \in Txns, NEW keys \in MacKeys, ConfirmShortAuthString(d, t, keys)
      PROVE  Agreeing(O)' /\ MarkedAgrees'
  BY <1>4, AgreeConfirm
<1> QED BY <1>1, <1>2, <1>3, <1>4 DEF UserStep

LEMMA AgreePasses ==
    ASSUME TrustInv, MarkedAgrees, NEW O, Agreeing(O), NEW d \in Devices,
           \/ ClearVerifications(d) \/ LearnDevice(d) \/ Restart(d)
           \/ \E t \in Txns : Age(d, t)
    PROVE  Agreeing(O)' /\ MarkedAgrees'
<1>1. UNCHANGED <<confirmed, agreed>>
  BY DEF ClearVerifications, LearnDevice, Restart, Age
<1>2. MarkedAgrees'
  BY <1>1, MarksStayAgreed
<1>3. CASE ClearVerifications(d) \/ Restart(d)
  BY <1>2, <1>3, AgreeClear
<1>4. CASE LearnDevice(d)
  BY <1>2, <1>4, AgreeIdle DEF LearnDevice
<1>5. CASE \E t \in Txns : Age(d, t)
  BY <1>2, <1>5, AgreeAge
<1> QED BY <1>3, <1>4, <1>5

LEMMA AgreeStep ==
    ASSUME AgreeInv, [Next]_vars
    PROVE  AgreeInv'
<1>1. PICK O \in [Txns -> SUBSET Protocols] : Agreeing(O)
  BY DEF AgreeInv
<1>2. TrustInv /\ MarkedAgrees /\ TrustInv'
  BY TrustStep DEF AgreeInv
<1>3. MarkedAgrees' /\ \E P \in [Txns -> SUBSET Protocols] : Agreeing(P)'
  <2>1. CASE HandleKeyVerification
    BY <1>1, <1>2, <2>1, AgreeReceives
  <2>2. CASE \E d \in Devices : UserStep(d)
    BY <1>1, <1>2, <2>2, AgreeActs
  <2>3. CASE \E d \in Devices :
                \/ ClearVerifications(d) \/ LearnDevice(d) \/ Restart(d)
                \/ \E t \in Txns : Age(d, t)
    BY <1>1, <1>2, <2>3, AgreePasses
  <2>4. CASE (\E m \in net : Lose(m)) \/ UNCHANGED vars
    <3>1. UNCHANGED <<sas, made, confirmed, agreed>> /\ \A m \in net' : m \in net
      BY <2>4 DEF Lose, vars
    <3> QED BY <1>1, <1>2, <3>1, AgreeIdle, MarksStayAgreed
  <2> QED BY <2>1, <2>2, <2>3, <2>4 DEF Next
<1> QED BY <1>2, <1>3 DEF AgreeInv

LEMMA AgreeInit ==
    ASSUME Init
    PROVE  AgreeInv
<1>1. \A d \in Devices, t \in Txns : ~Known(d, t)
  BY DEF Init, Known
<1>2. MarkedAgrees
  BY DEF Init, MarkedAgrees
<1>3. PICK O \in [Txns -> SUBSET Protocols] : O = [t \in Txns |-> {}]
  OBVIOUS
<1>4. Agreeing(O)
  BY <1>1 DEF Init, Agreeing
<1> QED BY <1>2, <1>4, TrustInit DEF AgreeInv

LEMMA SameString ==
    ASSUME AgreeInv
    PROVE  StringsMatch
<1>1. PICK O \in [Txns -> SUBSET Protocols] : Agreeing(O)
  BY DEF AgreeInv
<1>2. SUFFICES ASSUME NEW d \in Devices, NEW t \in Txns, NEW e \in Devices, e = Other(d),
                      NEW a, NEW b, a = sas[d][t], b = sas[e][t], Known(d, t), Known(e, t),
                      a.theirs = b.key, b.theirs = a.key,
                      a.agreement # None, b.agreement # None
               PROVE  ShortString(d, t, a) = ShortString(e, t, b)
  BY TwoDevices DEF StringsMatch
<1>3. PICK offer : offer = O[t]
  OBVIOUS
<1>4. /\ a \in SasObjects /\ Sided(offer, d, t, a)
      /\ b \in SasObjects /\ Sided(offer, e, t, b)
  <2>1. a \in SasObjects /\ ExchangeOK(offer, d, t, a)
    BY <1>1, <1>2, <1>3, ObjectIs DEF AgreeInv
  <2>2. b \in SasObjects /\ ExchangeOK(offer, e, t, b)
    BY <1>1, <1>2, <1>3, ObjectIs DEF AgreeInv
  <2> QED BY <2>1, <2>2, SidedObject
<1>5. a.theirs # None /\ b.theirs # None
  BY <1>2, <1>4, NoneAssumption DEF SasObjects
<1>6. Peer(d, t, a) = Peer(e, t, b)
  <2>1. t[1] \in Devices /\ e # d /\ (t[1] = d \/ t[1] = e)
    BY <1>2, KeyParts, TwoDevices DEF Txns
  <2> QED BY <1>2, <2>1 DEF Peer
<1>7. PICK k : k = Peer(d, t, a)
  OBVIOUS
<1>8. ShortString(d, t, a) = TheString(offer, t, k)
  BY <1>2, <1>4, <1>5, <1>7, StringIs
<1>9. ShortString(e, t, b) = TheString(offer, t, k)
  BY <1>2, <1>4, <1>5, <1>6, <1>7, StringIs
<1> QED BY <1>8, <1>9

(* What both sides of every exchange have in common, whatever arrives      *)
(* late, twice or after a cancellation, is kept by every handler of        *)
(* handle_key_verification and every call of the users.                    *)
THEOREM AgreeInvariant == Spec => []AgreeInv
  BY AgreeInit, AgreeStep, PTL DEF Spec

(* Two devices that hold each other's key and agreed on a method derive    *)
(* the same short authentication string (_extra_info, get_emoji).          *)
THEOREM StringsAgree == Spec => []StringsMatch
  BY AgreeInvariant, SameString, PTL

(* verify_device is reached only when both users confirmed the same        *)
(* string: of confirm_short_auth_string and receive_mac_event, the second  *)
(* marks, and the MAC was made with the string the other user saw.         *)
THEOREM MarksAgree == Spec => []MarkedAgrees
<1>1. AgreeInv => MarkedAgrees
  BY DEF AgreeInv
<1> QED
  BY <1>1, AgreeInvariant, PTL

=============================================================================
