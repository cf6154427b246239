------------------------ MODULE CryptoRequestsProofs ------------------------
(***************************************************************************)
(* Proofs about CryptoRequests, for any users and any bounds: no change of *)
(* a tracked device list is lost, and what is retained is consistent       *)
(* whenever the process may die.                                           *)
(***************************************************************************)
EXTENDS CryptoRequests, FiniteSetTheorems, TLAPS

-----------------------------------------------------------------------------
(* Retaining messages *)

(* Retaining gives the messages without a transaction id a new one, and    *)
(* leaves the rest of the work as it is (_retain_messages).                *)
LEMMA RetainShape ==
    ASSUME NEW o \in WorkRecords, minted \in Nat
    PROVE  /\ RetainMessages(o) \in WorkRecords
           /\ RetainMessages(o).dirty = o.dirty
           /\ Len(RetainMessages(o).messages) = Len(o.messages)
           /\ \A i \in 1..Len(o.messages) :
                /\ RetainMessages(o).messages[i].content = o.messages[i].content
                /\ RetainMessages(o).messages[i].txn # None
                /\ o.messages[i].txn # None =>
                        RetainMessages(o).messages[i].txn = o.messages[i].txn
           /\ minted + Cardinality(Unretained(o)) \in Nat
  <1> DEFINE n == Len(o.messages)
             earlier(i) == {j \in Unretained(o) : j <= i}
             kept(i) == IF o.messages[i].txn # None THEN o.messages[i]
                        ELSE [o.messages[i] EXCEPT !.txn = minted + Cardinality(earlier(i))]
             messages == [i \in 1..n |-> kept(i)]
  <1>1. n \in Nat /\ DOMAIN o.messages = 1..n /\ o.messages \in Seq(MessageRecords)
        /\ \A i \in 1..n : o.messages[i] \in MessageRecords
    BY DEF WorkRecords
  <1>2. IsFiniteSet(1..n)
    BY <1>1, FS_Interval
  <1>3. \A S \in SUBSET (1..n) : Cardinality(S) \in Nat
    BY <1>2, FS_Subset, FS_CardinalityType
  <1>4. Unretained(o) \subseteq 1..n
    BY <1>1 DEF Unretained
  <1>5. \A i : earlier(i) \subseteq 1..n
    BY <1>4
  <1>6. \A i : minted + Cardinality(earlier(i)) \in Nat
    BY <1>3, <1>5
  <1>7. None \notin Nat
    BY CryptoRequestsAssumption DEF TransactionIds
  <1>8. ASSUME NEW i \in 1..n
        PROVE  /\ kept(i) \in MessageRecords /\ kept(i).content = o.messages[i].content
               /\ kept(i).txn # None /\ (o.messages[i].txn # None => kept(i) = o.messages[i])
    <2>1. minted + Cardinality(earlier(i)) \in Nat
      BY <1>6
    <2> HIDE DEF earlier
    <2>2. o.messages[i] \in MessageRecords
      BY <1>1
    <2> QED BY <1>7, <2>1, <2>2 DEF MessageRecords, TransactionIds
  <1>9. RetainMessages(o) = [o EXCEPT !.messages = messages]
    BY <1>1 DEF RetainMessages
  <1> HIDE DEF kept
  <1>10. messages \in Seq(MessageRecords) /\ Len(messages) = n
    BY <1>1, <1>8
  <1>11. [o EXCEPT !.messages = messages] \in WorkRecords
         /\ [o EXCEPT !.messages = messages].dirty = o.dirty
         /\ [o EXCEPT !.messages = messages].messages = messages
    <2> HIDE DEF messages
    <2> QED BY <1>10 DEF WorkRecords
  <1>12. minted + Cardinality(Unretained(o)) \in Nat
    BY <1>3, <1>4
  <1> QED BY <1>8, <1>9, <1>10, <1>11, <1>12

-----------------------------------------------------------------------------
(* The inductive invariant *)

TaskRecords == [plan : {"none", "maintain", "query", "upload", "claim", "message", "sealed"},
                step : {"start", "own", "pending", "query", "claim"}, last : Kinds \cup {"none"},
                ok : BOOLEAN, completed : SUBSET Kinds, users : SUBSET Users,
                tx : TransactionIds \cup {None}]
InputRecords == [phase : {"none", "captured", "applied"}, changed : SUBSET Users,
                 news : {"nothing", "wedged", "asked", "low"}]

TypesOK ==
    /\ olm \in WorkRecords /\ facts \in WorkRecords /\ request \in RequestRecords \cup {None}
    /\ server \in [Users -> 1..MaxVersion] /\ known \in [Users -> 0..MaxVersion]
    /\ tracked \subseteq Users /\ unannounced \subseteq Users /\ missed \subseteq Users
    /\ syncInput \in InputRecords /\ task \in TaskRecords
    /\ wire \in {"idle", "sent", "answered"} /\ minted \in Nat /\ produced \in Nat
    /\ DOMAIN reply.versions \subseteq Users
    /\ \A u \in DOMAIN reply.versions : reply.versions[u] \in 1..MaxVersion

(* A request is on the wire for a live lock holder, which has no other     *)
(* one; only a query names users, and only an answer to it does; a poll is *)
(* open only while nothing is captured, and never during maintenance.      *)
ControlOK ==
    /\ wire # "idle" => alive /\ request # None
    /\ wire # "answered" => DOMAIN reply.versions = {}
    /\ wire = "answered" => DOMAIN reply.versions \subseteq request.users
    /\ wire = "idle" /\ task.step # "start" => request = None
    /\ request # None /\ request.kind # "query" => request.users = {}
    /\ polling => syncInput.phase = "none"
    /\ task.plan = "maintain" => ~polling /\ syncInput.phase # "captured"

(* A change that is announced, captured or marked dirty. *)
Noted(u) ==
    \/ u \in unannounced
    \/ syncInput.phase = "captured" /\ u \in syncInput.changed
    \/ u \in facts.dirty

(* The live marks are the captured ones, and an answer on its way that is  *)
(* older than the server is known to be, unless sync dropped the change.   *)
ChangesOK ==
    /\ alive => olm.dirty = facts.dirty
    /\ \A u \in DOMAIN reply.versions \ missed : reply.versions[u] # server[u] => Noted(u)
    /\ NoLostChangeTracked

(* Work whose messages are distinct, among the n made so far, and keep the *)
(* transaction id under which they were sent.                              *)
WorkOK(o, n, s) ==
    /\ o \in WorkRecords
    /\ \A i, j \in 1..Len(o.messages) : o.messages[i].content = o.messages[j].content => i = j
    /\ \A i \in 1..Len(o.messages) : o.messages[i].content <= n
    /\ \A i \in 1..Len(o.messages), p \in s : o.messages[i].content = p[2] => o.messages[i].txn = p[1]

AllRetained(o) == \A i \in 1..Len(o.messages) : o.messages[i].txn # None
Holds(o, t) == \E i \in 1..Len(o.messages) : o.messages[i].txn = t

SentOK == sent \subseteq TransactionIds \X Nat /\ (\A p \in sent : p[2] <= produced) /\ OneTransaction

MessagesOK ==
    /\ SentOK
    /\ WorkOK(olm, produced, sent) /\ AllRetained(olm)
    /\ WorkOK(facts, produced, sent) /\ AllRetained(facts)
    /\ alive => \A i \in 1..Len(olm.messages), j \in 1..Len(facts.messages) :
                    olm.messages[i].content = facts.messages[j].content =>
                        olm.messages[i].txn = facts.messages[j].txn
    /\ request # None /\ request.kind = "to_device" =>
            Holds(facts, request.txn) /\ (alive => Holds(olm, request.txn))

-----------------------------------------------------------------------------
(* Building new work *)

(* What a capture leaves in the live copy and in the database. *)
LEMMA CaptureKeeps ==
    ASSUME minted \in Nat, NEW n \in Nat, WorkOK(olm, produced, sent), NEW o, WorkOK(o, n, sent),
           sent \subseteq TransactionIds \X Nat, Capture(o)
    PROVE  /\ WorkOK(olm', n, sent) /\ AllRetained(olm') /\ facts' = olm' /\ olm'.dirty = o.dirty
           /\ minted' \in Nat
           /\ \A t \in TransactionIds : Holds(o, t) => Holds(olm', t)
  <1>1. /\ o \in WorkRecords /\ olm' = RetainMessages(o) /\ facts' = olm'
        /\ minted' = minted + Cardinality(Unretained(o))
    BY DEF WorkOK, Capture
  <1>2. /\ olm' \in WorkRecords /\ olm'.dirty = o.dirty /\ minted' \in Nat
        /\ Len(olm'.messages) = Len(o.messages)
        /\ \A i \in 1..Len(o.messages) :
                /\ olm'.messages[i].content = o.messages[i].content
                /\ olm'.messages[i].txn # None
                /\ o.messages[i].txn # None => olm'.messages[i].txn = o.messages[i].txn
    BY <1>1, RetainShape
  <1>3. None \notin TransactionIds /\ \A p \in sent : p[1] # None
    BY CryptoRequestsAssumption
  <1>4. WorkOK(olm', n, sent)
    BY <1>2, <1>3, SMTT(30) DEF WorkOK
  <1>5. ASSUME NEW t \in TransactionIds, Holds(o, t) PROVE Holds(olm', t)
    BY <1>2, <1>3, <1>5 DEF Holds
  <1> QED BY <1>1, <1>2, <1>4, <1>5 DEF AllRetained

(* Work with the same messages. *)
LEMMA SameMessages ==
    ASSUME NEW o, NEW w, NEW n, NEW s, WorkOK(w, n, s), o \in WorkRecords, o.messages = w.messages
    PROVE  WorkOK(o, n, s) /\ (\A t : Holds(w, t) => Holds(o, t)) /\ (AllRetained(w) => AllRetained(o))
  BY DEF WorkOK, Holds, AllRetained

(* A message made just now is none that was sent. *)
LEMMA AppendKeeps ==
    ASSUME NEW w, NEW n \in Nat, NEW s, s \subseteq TransactionIds \X Nat, \A p \in s : p[2] <= n,
           WorkOK(w, n, s), NEW m \in MessageRecords, m.content = n + 1,
           NEW o \in WorkRecords, o.messages = Append(w.messages, m)
    PROVE  /\ WorkOK(o, n + 1, s) /\ Holds(o, m.txn) /\ (\A t : Holds(w, t) => Holds(o, t))
           /\ AllRetained(w) /\ m.txn # None => AllRetained(o)
  <1> DEFINE k == Len(w.messages)
  <1>1. /\ w.messages \in Seq(MessageRecords) /\ k \in Nat /\ Len(o.messages) = k + 1
        /\ \A i \in 1..k : o.messages[i] = w.messages[i] /\ w.messages[i].content \in Nat
        /\ o.messages[k + 1] = m
    <2>1. w.messages \in Seq(MessageRecords) /\ k \in Nat
      BY DEF WorkOK, WorkRecords
    <2>2. ASSUME NEW i \in 1..k PROVE w.messages[i].content \in Nat
      <3>1. w.messages[i] \in MessageRecords
        BY <2>1
      <3> QED BY <3>1 DEF MessageRecords
    <2>3. /\ Len(o.messages) = k + 1 /\ o.messages[k + 1] = m
          /\ \A i \in 1..k : o.messages[i] = w.messages[i]
      BY <2>1
    <2> QED BY <2>1, <2>2, <2>3
  <1>2. \A i \in 1..(k + 1) : i \in 1..k \/ i = k + 1
    BY <1>1
  <1>3. \A i \in 1..k : o.messages[i].content <= n
    BY <1>1 DEF WorkOK
  <1>4. ASSUME NEW p \in s PROVE p[2] # n + 1
    <2>1. p \in TransactionIds \X Nat /\ p[2] <= n
      OBVIOUS
    <2>2. p[2] \in Nat
      BY <2>1
    <2> QED BY <2>1, <2>2
  <1>5. ASSUME NEW i \in 1..(k + 1), NEW j \in 1..(k + 1), o.messages[i].content = o.messages[j].content
        PROVE  i = j
    BY <1>1, <1>2, <1>3, <1>5 DEF WorkOK
  <1>6. ASSUME NEW i \in 1..(k + 1) PROVE o.messages[i].content <= n + 1
    BY <1>1, <1>2, <1>3
  <1>7. ASSUME NEW i \in 1..(k + 1), NEW p \in s, o.messages[i].content = p[2]
        PROVE  o.messages[i].txn = p[1]
    BY <1>1, <1>2, <1>4, <1>7 DEF WorkOK
  <1>8. WorkOK(o, n + 1, s)
    BY <1>1, <1>5, <1>6, <1>7 DEF WorkOK
  <1>9. Holds(o, m.txn)
    <2>1. k + 1 \in 1..Len(o.messages)
      BY <1>1
    <2> QED BY <1>1, <2>1 DEF Holds
  <1>10. ASSUME NEW t, Holds(w, t) PROVE Holds(o, t)
    <2>1. PICK i \in 1..k : w.messages[i].txn = t
      BY <1>10 DEF Holds
    <2>2. i \in 1..Len(o.messages) /\ o.messages[i].txn = t
      BY <1>1, <2>1
    <2> QED BY <2>2 DEF Holds
  <1>11. AllRetained(w) /\ m.txn # None => AllRetained(o)
    BY <1>1, <1>2 DEF AllRetained
  <1> QED BY <1>8, <1>9, <1>10, <1>11

(* The message that was sent leaves the queue. *)
LEMMA RemoveKeeps ==
    ASSUME NEW w, NEW n \in Nat, NEW s, WorkOK(w, n, s), NEW k \in 1..Len(w.messages), NEW o \in WorkRecords,
           o.messages = [i \in 1..(Len(w.messages) - 1) |->
                            IF i < k THEN w.messages[i] ELSE w.messages[i + 1]]
    PROVE  WorkOK(o, n, s)
  <1> DEFINE from(i) == IF i < k THEN i ELSE i + 1
  <1>1. Len(w.messages) \in Nat /\ Len(o.messages) = Len(w.messages) - 1
    BY DEF WorkOK, WorkRecords
  <1>2. \A i \in 1..Len(o.messages) :
            from(i) \in 1..Len(w.messages) /\ o.messages[i] = w.messages[from(i)]
    BY <1>1
  <1>3. \A i, j \in 1..Len(o.messages) : from(i) = from(j) => i = j
    BY <1>1
  <1> HIDE DEF from
  <1>4. \A i, j \in 1..Len(o.messages) : o.messages[i].content = o.messages[j].content => i = j
    BY <1>2, <1>3 DEF WorkOK
  <1>5. ASSUME NEW i \in 1..Len(o.messages) PROVE o.messages[i].content <= n
    BY <1>2 DEF WorkOK
  <1>6. ASSUME NEW i \in 1..Len(o.messages), NEW p \in s, o.messages[i].content = p[2]
        PROVE  o.messages[i].txn = p[1]
    BY <1>2, <1>6 DEF WorkOK
  <1> QED BY <1>4, <1>5, <1>6 DEF WorkOK

(* Queueing a message changes nothing else. *)
LEMMA QueueShape ==
    ASSUME NEW w \in WorkRecords, NEW kind \in {"dummy", "share", "rekey"}, NEW n \in Nat \ {0}
    PROVE  /\ Queue(w, kind, n) \in WorkRecords /\ Queue(w, kind, n).dirty = w.dirty
           /\ Len(Queue(w, kind, n).messages) = Len(w.messages) + 1
           /\ \E m \in MessageRecords :
                m.content = n /\ Queue(w, kind, n).messages = Append(w.messages, m)
  <1> DEFINE m == Message(kind, n, FALSE)
  <1>1. m \in MessageRecords /\ m.content = n
    BY DEF Message, MessageRecords
  <1>2. w.messages \in Seq(MessageRecords)
    BY DEF WorkRecords
  <1>3. Queue(w, kind, n) = [w EXCEPT !.messages = Append(w.messages, m)]
    BY DEF Queue
  <1> HIDE DEF m
  <1>4. Append(w.messages, m) \in Seq(MessageRecords) /\ Len(Append(w.messages, m)) = Len(w.messages) + 1
    BY <1>1, <1>2
  <1>5. /\ Queue(w, kind, n) \in WorkRecords /\ Queue(w, kind, n).dirty = w.dirty
        /\ Queue(w, kind, n).messages = Append(w.messages, m)
    BY <1>3, <1>4 DEF WorkRecords
  <1> QED BY <1>1, <1>4, <1>5

(* Changing the rest of the work leaves the messages alone. *)
LEMMA ChangeShape ==
    ASSUME NEW w \in WorkRecords
    PROVE  /\ [w EXCEPT !.wedged = FALSE] \in WorkRecords
           /\ [w EXCEPT !.wedged = FALSE].messages = w.messages
           /\ [w EXCEPT !.wedged = FALSE].dirty = w.dirty
           /\ [w EXCEPT !.rerequest = FALSE] \in WorkRecords
           /\ [w EXCEPT !.rerequest = FALSE].messages = w.messages
           /\ [w EXCEPT !.rerequest = FALSE].dirty = w.dirty
           /\ [w EXCEPT !.low = FALSE] \in WorkRecords
           /\ [w EXCEPT !.low = FALSE].messages = w.messages
           /\ [w EXCEPT !.low = FALSE].dirty = w.dirty
           /\ \A a \in {"no", "untrusted", "waiting"} :
                /\ [w EXCEPT !.asked = a] \in WorkRecords
                /\ [w EXCEPT !.asked = a].messages = w.messages
                /\ [w EXCEPT !.asked = a].dirty = w.dirty
           /\ \A d \in SUBSET Users :
                /\ [w EXCEPT !.dirty = d] \in WorkRecords
                /\ [w EXCEPT !.dirty = d].messages = w.messages
                /\ [w EXCEPT !.dirty = d].dirty = d
  BY DEF WorkRecords

(* Queueing the next message on good work gives good work. *)
LEMMA QueueKeeps ==
    ASSUME NEW w, NEW n \in Nat, NEW s, s \subseteq TransactionIds \X Nat, \A p \in s : p[2] <= n,
           WorkOK(w, n, s), NEW kind \in {"dummy", "share", "rekey"}
    PROVE  /\ Queue(w, kind, n + 1) \in WorkRecords /\ Queue(w, kind, n + 1).dirty = w.dirty
           /\ WorkOK(Queue(w, kind, n + 1), n + 1, s)
           /\ Len(Queue(w, kind, n + 1).messages) = Len(w.messages) + 1
           /\ \A t : Holds(w, t) => Holds(Queue(w, kind, n + 1), t)
  <1> DEFINE o == Queue(w, kind, n + 1)
  <1>1. w \in WorkRecords /\ n + 1 \in Nat \ {0}
    BY DEF WorkOK
  <1>2. PICK m \in MessageRecords :
            /\ o \in WorkRecords /\ o.dirty = w.dirty /\ o.messages = Append(w.messages, m)
            /\ m.content = n + 1 /\ Len(o.messages) = Len(w.messages) + 1
    <2> DEFINE k == n + 1
    <2>1. k \in Nat \ {0}
      BY <1>1
    <2> HIDE DEF k
    <2>2. \E m \in MessageRecords :
            /\ Queue(w, kind, k) \in WorkRecords /\ Queue(w, kind, k).dirty = w.dirty
            /\ Queue(w, kind, k).messages = Append(w.messages, m)
            /\ m.content = k /\ Len(Queue(w, kind, k).messages) = Len(w.messages) + 1
      BY <1>1, <2>1, QueueShape, SMTT(30)
    <2> QED BY <2>2 DEF k
  <1> HIDE DEF o
  <1>3. WorkOK(o, n + 1, s) /\ \A t : Holds(w, t) => Holds(o, t)
    BY <1>2, AppendKeeps
  <1> QED BY <1>2, <1>3 DEF o

(* Applying an answer gives good work, with the messages that were made    *)
(* for it; only a query changes the dirty users (apply).                   *)
LEMMA AppliedKeeps ==
    ASSUME TypesOK, MessagesOK, alive, request # None
    PROVE  /\ NewlyMade \in Nat /\ WorkOK(Applied, produced + NewlyMade, sent)
           /\ Applied.dirty = IF request.kind = "query"
                              THEN olm.dirty \cup (request.users \ DOMAIN reply.versions) ELSE olm.dirty
  <1>1. /\ olm \in WorkRecords /\ WorkOK(olm, produced, sent) /\ produced \in Nat
        /\ sent \subseteq TransactionIds \X Nat /\ \A p \in sent : p[2] <= produced
    BY DEF TypesOK, MessagesOK, SentOK
  <1>2. request \in RequestRecords /\ request.kind \in Kinds /\ request.users \in SUBSET Users
    BY DEF TypesOK, RequestRecords
  <1>3. olm.messages \in Seq(MessageRecords) /\ Len(olm.messages) \in Nat /\ olm.dirty \in SUBSET Users
    BY <1>1 DEF WorkRecords
  <1>4. CASE request.kind = "query"
    <2> DEFINE d == olm.dirty \cup (request.users \ DOMAIN reply.versions)
    <2>1. Applied = [olm EXCEPT !.dirty = d]
      BY <1>4 DEF Applied, QueryApplied
    <2>2. d \in SUBSET Users
      BY <1>2, <1>3
    <2> HIDE DEF d
    <2>3. Applied \in WorkRecords /\ Applied.messages = olm.messages /\ Applied.dirty = d
      BY <1>1, <2>1, <2>2, ChangeShape
    <2>4. NewlyMade = 0
      BY <1>3, <1>4, <2>3 DEF NewlyMade
    <2>5. WorkOK(Applied, produced, sent)
      BY <1>1, <2>3, SameMessages
    <2> QED BY <1>1, <1>4, <2>3, <2>4, <2>5 DEF d
  <1>5. CASE request.kind = "upload"
    <2>1. Applied = [olm EXCEPT !.low = FALSE]
      BY <1>5 DEF Applied
    <2>2. Applied \in WorkRecords /\ Applied.messages = olm.messages /\ Applied.dirty = olm.dirty
      BY <1>1, <2>1, ChangeShape
    <2>3. NewlyMade = 0
      BY <1>3, <1>5, <2>2 DEF NewlyMade
    <2>4. WorkOK(Applied, produced, sent)
      BY <1>1, <2>2, SameMessages
    <2> QED BY <1>1, <1>5, <2>2, <2>3, <2>4
  <1>6. CASE request.kind = "claim"
    <2>1. Applied = ClaimApplied
      BY <1>6 DEF Applied
    <2>2. ASSUME NEW d \in Nat, Len(Applied.messages) = Len(olm.messages) + d,
                 WorkOK(Applied, produced + d, sent), Applied.dirty = olm.dirty
          PROVE  /\ NewlyMade \in Nat /\ WorkOK(Applied, produced + NewlyMade, sent)
                 /\ Applied.dirty = olm.dirty
      <3>1. NewlyMade = d
        BY <1>3, <1>6, <2>2 DEF NewlyMade
      <3> QED BY <2>2, <3>1
    <2>3. CASE ~reply.ok
      <3>1. Applied = olm
        BY <2>1, <2>3 DEF ClaimApplied
      <3>2. NewlyMade = 0
        BY <1>3, <1>6, <3>1 DEF NewlyMade
      <3> QED BY <1>1, <1>6, <3>1, <3>2
    <2>4. PICK d \in {0, 1} :
            /\ d = IF olm.wedged THEN 1 ELSE 0
            /\ WorkOK(Unwedged, produced + d, sent) /\ Unwedged.dirty = olm.dirty
            /\ Unwedged \in WorkRecords /\ Len(Unwedged.messages) = Len(olm.messages) + d
      <3>1. CASE ~olm.wedged
        <4>1. Unwedged = olm
          BY <3>1 DEF Unwedged
        <4> QED BY <1>1, <1>3, <3>1, <4>1
      <3>2. CASE olm.wedged
        <4> DEFINE q == Queue(olm, "dummy", produced + 1)
        <4>1. Unwedged = [q EXCEPT !.wedged = FALSE]
          BY <3>2 DEF Unwedged
        <4>2. /\ q \in WorkRecords /\ q.dirty = olm.dirty /\ WorkOK(q, produced + 1, sent)
              /\ Len(q.messages) = Len(olm.messages) + 1
          BY <1>1, QueueKeeps
        <4> HIDE DEF q
        <4>3. Unwedged \in WorkRecords /\ Unwedged.messages = q.messages /\ Unwedged.dirty = q.dirty
          BY <4>1, <4>2, ChangeShape
        <4>4. WorkOK(Unwedged, produced + 1, sent)
          BY <4>2, <4>3, SameMessages
        <4> QED BY <3>2, <4>2, <4>3, <4>4
      <3> QED BY <3>1, <3>2
    <2>5. CASE reply.ok /\ olm.asked # "waiting"
      <3>1. Applied = Unwedged
        BY <2>1, <2>5 DEF ClaimApplied
      <3> QED BY <1>6, <2>2, <2>4, <3>1
    <2>6. CASE reply.ok /\ olm.asked = "waiting"
      <3> DEFINE n == produced + d
                 q == Queue(Unwedged, "share", n + 1)
      <3>1. Applied = [Queue(Unwedged, "share", produced + (IF olm.wedged THEN 2 ELSE 1)) EXCEPT !.asked = "no"]
        BY <2>1, <2>6 DEF ClaimApplied
      <3>2. produced + (IF olm.wedged THEN 2 ELSE 1) = n + 1
        BY <1>1, <2>4
      <3>3. Applied = [q EXCEPT !.asked = "no"]
        BY <3>1, <3>2
      <3>4. n \in Nat /\ WorkOK(Unwedged, n, sent) /\ \A p \in sent : p[2] <= n
        <4>1. \A p \in sent : p[2] \in Nat /\ p[2] <= produced
          BY <1>1
        <4> QED BY <1>1, <2>4, <4>1
      <3> HIDE DEF n
      <3>5. /\ q \in WorkRecords /\ q.dirty = Unwedged.dirty /\ WorkOK(q, n + 1, sent)
            /\ Len(q.messages) = Len(Unwedged.messages) + 1
        BY <1>1, <3>4, QueueKeeps
      <3> HIDE DEF q
      <3>6. Applied \in WorkRecords /\ Applied.messages = q.messages /\ Applied.dirty = q.dirty
        BY <3>3, <3>5, ChangeShape
      <3>7. WorkOK(Applied, n + 1, sent)
        BY <3>5, <3>6, SameMessages
      <3>8. n + 1 = produced + (d + 1) /\ d + 1 \in Nat
            /\ Len(Applied.messages) = Len(olm.messages) + (d + 1)
        <4>1. d \in Nat /\ n + 1 = produced + (d + 1)
          BY <1>1 DEF n
        <4>2. Len(Applied.messages) = Len(Unwedged.messages) + 1
              /\ Len(Unwedged.messages) = Len(olm.messages) + d
          BY <2>4, <3>5, <3>6
        <4>3. Len(Applied.messages) = (Len(olm.messages) + d) + 1
          BY <4>2
        <4>4. (Len(olm.messages) + d) + 1 = Len(olm.messages) + (d + 1) /\ d + 1 \in Nat
          <5>1. PICK l \in Nat : l = Len(olm.messages)
            BY <1>3
          <5>2. (l + d) + 1 = l + (d + 1) /\ d + 1 \in Nat
            BY <4>1
          <5> QED BY <5>1, <5>2
        <4> QED BY <4>1, <4>3, <4>4
      <3> QED BY <1>6, <2>2, <2>4, <3>5, <3>6, <3>7, <3>8
    <2> QED BY <1>6, <2>3, <2>5, <2>6
  <1>7. CASE request.kind = "to_device"
    <2> DEFINE moved == [i \in 1..(Len(olm.messages) - 1) |->
                            IF i < SentAt THEN olm.messages[i] ELSE olm.messages[i + 1]]
               rest == [olm EXCEPT !.messages = moved]
    <2>1. SentAt \in 1..Len(olm.messages)
      <3>1. PICK i \in 1..Len(olm.messages) : olm.messages[i].txn = request.txn
        BY <1>7 DEF MessagesOK, Holds
      <3>2. i \in DOMAIN olm.messages
        BY <1>3, <3>1
      <3>3. SentAt \in DOMAIN olm.messages
        BY <3>1, <3>2 DEF SentAt
      <3> QED BY <1>3, <3>3
    <2>2. moved \in Seq(MessageRecords) /\ Len(moved) = Len(olm.messages) - 1
      <3>1. Len(olm.messages) - 1 \in Nat
        BY <1>3, <2>1
      <3>2. \A i \in 1..(Len(olm.messages) - 1) :
                olm.messages[i] \in MessageRecords /\ olm.messages[i + 1] \in MessageRecords
        BY <1>3
      <3>3. moved \in [1..(Len(olm.messages) - 1) -> MessageRecords]
        BY <3>2
      <3> QED BY <3>1, <3>3
    <2>3. rest \in WorkRecords /\ rest.messages = moved /\ rest.dirty = olm.dirty
      <3> HIDE DEF moved
      <3> QED BY <1>1, <2>2 DEF WorkRecords
    <2>4. WorkOK(rest, produced, sent)
      <3> HIDE DEF rest
      <3> QED BY <1>1, <2>1, <2>3, RemoveKeeps
    <2>5. CASE ~(olm.messages[SentAt].kind = "dummy" /\ olm.rerequest)
      <3>1. Applied = rest
        BY <1>7, <2>5 DEF Applied, MessageApplied
      <3> HIDE DEF rest, moved
      <3>2. NewlyMade = 0
        BY <1>3, <1>7, <2>2, <2>3, <3>1 DEF NewlyMade
      <3> QED BY <1>1, <1>7, <2>3, <2>4, <3>1, <3>2
    <2>6. CASE olm.messages[SentAt].kind = "dummy" /\ olm.rerequest
      <3> DEFINE q == Queue(rest, "rekey", produced + 1)
      <3>1. Applied = [q EXCEPT !.rerequest = FALSE]
        BY <1>7, <2>6 DEF Applied, MessageApplied
      <3> HIDE DEF rest, moved
      <3>2. /\ q \in WorkRecords /\ q.dirty = rest.dirty /\ WorkOK(q, produced + 1, sent)
            /\ Len(q.messages) = Len(rest.messages) + 1
        BY <1>1, <2>4, QueueKeeps
      <3> HIDE DEF q
      <3>3. Applied \in WorkRecords /\ Applied.messages = q.messages /\ Applied.dirty = q.dirty
        BY <3>1, <3>2, ChangeShape
      <3>4. WorkOK(Applied, produced + 1, sent)
        BY <3>2, <3>3, SameMessages
      <3>5. NewlyMade = 1
        BY <1>3, <1>7, <2>2, <2>3, <3>2, <3>3 DEF NewlyMade
      <3> QED BY <1>1, <1>7, <2>3, <3>2, <3>3, <3>4, <3>5
    <2> QED BY <2>5, <2>6
  <1> QED BY <1>2, <1>4, <1>5, <1>6, <1>7 DEF Kinds

-----------------------------------------------------------------------------
(* The steps *)

RequestsInv == TypesOK /\ ControlOK /\ ChangesOK /\ MessagesOK

(* What every captured transaction keeps, as long as a request for a       *)
(* message finds it in the new work.                                       *)
LEMMA CapturedWork ==
    ASSUME RequestsInv, UNCHANGED <<sent, alive>>, NEW o, produced' \in Nat, produced <= produced',
           WorkOK(o, produced', sent), Capture(o),
           request' # None /\ request'.kind = "to_device" =>
                request'.txn \in TransactionIds /\ Holds(o, request'.txn)
    PROVE  /\ olm' \in WorkRecords /\ facts' \in WorkRecords /\ minted' \in Nat
           /\ olm'.dirty = o.dirty /\ facts'.dirty = o.dirty /\ MessagesOK'
  <1>1. /\ minted \in Nat /\ WorkOK(olm, produced, sent) /\ sent \subseteq TransactionIds \X Nat
        /\ produced \in Nat /\ \A p \in sent : p[2] <= produced
    BY DEF RequestsInv, TypesOK, MessagesOK, SentOK
  <1> DEFINE n == produced'
  <1>2. n \in Nat /\ WorkOK(o, n, sent)
    OBVIOUS
  <1> HIDE DEF n
  <1>3. /\ WorkOK(olm', n, sent) /\ AllRetained(olm') /\ facts' = olm' /\ olm'.dirty = o.dirty
        /\ minted' \in Nat /\ \A t \in TransactionIds : Holds(o, t) => Holds(olm', t)
    BY <1>1, <1>2, CaptureKeeps
  <1>4. \A i, j \in 1..Len(olm'.messages) :
            olm'.messages[i].content = olm'.messages[j].content =>
                olm'.messages[i].txn = olm'.messages[j].txn
    BY <1>3 DEF WorkOK
  <1>5. SentOK'
    <2>1. \A p \in sent : p[2] \in Nat /\ p[2] <= produced
      BY <1>1
    <2>2. \A p \in sent : p[2] <= produced'
      BY <1>1, <2>1
    <2> QED BY <1>1, <2>2 DEF RequestsInv, MessagesOK, SentOK, OneTransaction
  <1>6. WorkOK(olm', produced', sent')
    BY <1>3 DEF n
  <1>7. request' # None /\ request'.kind = "to_device" => Holds(olm', request'.txn)
    BY <1>3
  <1>8. MessagesOK'
    BY <1>3, <1>4, <1>5, <1>6, <1>7 DEF MessagesOK, WorkOK, AllRetained, Holds
  <1> QED BY <1>3, <1>8 DEF WorkOK

(* A new request is retained with the work it leaves. *)
NewRequest ==
    /\ olm' \in WorkRecords /\ facts' \in WorkRecords /\ minted' \in Nat /\ produced' \in Nat
    /\ request' \in RequestRecords /\ request' # None
    /\ request'.kind # "query" => request'.users = {}
    /\ facts'.dirty = olm.dirty \ request'.users /\ olm'.dirty = facts'.dirty
    /\ MessagesOK'

LEMMA RequestShape ==
    ASSUME NEW kind \in Kinds, NEW users \in SUBSET Users, NEW t \in TransactionIds \cup {None},
           NEW op \in {None, "sealed"}
    PROVE  /\ Request(kind, users, t, op) \in RequestRecords /\ Request(kind, users, t, op) # None
           /\ Request(kind, users, t, op).kind = kind /\ Request(kind, users, t, op).users = users
           /\ Request(kind, users, t, op).txn = t
  <1>1. Request(kind, users, t, op) \in RequestRecords
    BY DEF Request, RequestRecords
  <1>2. None \notin RequestRecords
    BY CryptoRequestsAssumption
  <1> QED BY <1>1, <1>2 DEF Request

LEMMA QueryEnqueued ==
    ASSUME RequestsInv, UNCHANGED <<sent, alive, produced>>, NEW users \in SUBSET Users,
           EnqueueQuery(users)
    PROVE  NewRequest
  <1> DEFINE d == olm.dirty \ users
             o == [olm EXCEPT !.dirty = d]
  <1>1. olm \in WorkRecords /\ WorkOK(olm, produced, sent) /\ produced \in Nat
    BY DEF RequestsInv, TypesOK, MessagesOK
  <1>2. d \in SUBSET Users
    BY <1>1 DEF WorkRecords
  <1>3. request' = Request("query", users, None, None) /\ Capture(o)
    BY <1>1 DEF EnqueueQuery, WorkRecords
  <1>4. /\ request' \in RequestRecords /\ request' # None
        /\ request'.kind = "query" /\ request'.users = users
    BY <1>3, RequestShape DEF Kinds
  <1>5. o \in WorkRecords /\ o.messages = olm.messages /\ o.dirty = d
    <2> HIDE DEF d
    <2> QED BY <1>1, <1>2, ChangeShape
  <1> HIDE DEF o
  <1>6. WorkOK(o, produced, sent)
    BY <1>1, <1>5, SameMessages
  <1>7. produced' \in Nat /\ produced <= produced' /\ WorkOK(o, produced', sent)
    BY <1>1, <1>6
  <1>8. /\ olm' \in WorkRecords /\ facts' \in WorkRecords /\ minted' \in Nat
        /\ olm'.dirty = o.dirty /\ facts'.dirty = o.dirty /\ MessagesOK'
    BY <1>3, <1>4, <1>7, CapturedWork
  <1> QED BY <1>4, <1>5, <1>7, <1>8 DEF NewRequest

LEMMA PlainEnqueued ==
    ASSUME RequestsInv, UNCHANGED <<sent, alive, produced>>, EnqueueUpload \/ EnqueueClaim
    PROVE  NewRequest
  <1>1. olm \in WorkRecords /\ WorkOK(olm, produced, sent) /\ produced \in Nat
    BY DEF RequestsInv, TypesOK, MessagesOK
  <1>2. PICK kind \in {"upload", "claim"} : request' = Request(kind, {}, None, None) /\ Capture(olm)
    BY DEF EnqueueUpload, EnqueueClaim
  <1>3. /\ request' \in RequestRecords /\ request' # None
        /\ request'.kind = kind /\ request'.users = {}
    BY <1>2, RequestShape DEF Kinds
  <1>4. produced' \in Nat /\ produced <= produced' /\ WorkOK(olm, produced', sent)
    BY <1>1
  <1>5. /\ olm' \in WorkRecords /\ facts' \in WorkRecords /\ minted' \in Nat
        /\ olm'.dirty = olm.dirty /\ facts'.dirty = olm.dirty /\ MessagesOK'
    BY <1>2, <1>3, <1>4, CapturedWork
  <1> QED BY <1>3, <1>4, <1>5 DEF NewRequest

(* The first queued message already has its id. *)
LEMMA QueuedEnqueued ==
    ASSUME RequestsInv, UNCHANGED <<sent, alive, produced>>, olm.messages # <<>>, EnqueueQueued
    PROVE  NewRequest
  <1>1. olm \in WorkRecords /\ WorkOK(olm, produced, sent) /\ produced \in Nat /\ minted \in Nat
        /\ AllRetained(olm)
    BY DEF RequestsInv, TypesOK, MessagesOK
  <1> DEFINE t == olm.messages[1].txn
  <1>2. 1 \in 1..Len(olm.messages) /\ olm.messages[1] \in MessageRecords
    <2>1. olm.messages \in Seq(MessageRecords)
      BY <1>1 DEF WorkRecords
    <2> QED BY <2>1
  <1>3. t \in TransactionIds /\ Holds(olm, t)
    BY <1>1, <1>2 DEF AllRetained, MessageRecords, Holds
  <1>4. RetainMessages(olm).messages[1].txn = t
    BY <1>1, <1>2, RetainShape DEF AllRetained
  <1>5. request' = Request("to_device", {}, t, None) /\ Capture(olm)
    BY <1>4 DEF EnqueueQueued
  <1> HIDE DEF t
  <1>6. /\ request' \in RequestRecords /\ request' # None
        /\ request'.kind = "to_device" /\ request'.users = {} /\ request'.txn = t
    BY <1>3, <1>5, RequestShape DEF Kinds
  <1>7. produced' \in Nat /\ produced <= produced' /\ WorkOK(olm, produced', sent)
    BY <1>1
  <1>8. /\ olm' \in WorkRecords /\ facts' \in WorkRecords /\ minted' \in Nat
        /\ olm'.dirty = olm.dirty /\ facts'.dirty = olm.dirty /\ MessagesOK'
    BY <1>3, <1>5, <1>6, <1>7, CapturedWork
  <1> QED BY <1>6, <1>7, <1>8 DEF NewRequest

(* A message of the caller's own gets the caller's id or a new one. *)
LEMMA OwnEnqueued ==
    ASSUME RequestsInv, UNCHANGED <<sent, alive>>, produced' = produced + 1,
           NEW m \in MessageRecords, m.content = produced + 1,
           NEW tx \in TransactionIds \cup {None}, NEW op \in {None, "sealed"}, EnqueueOwn(m, tx, op)
    PROVE  NewRequest
  <1> DEFINE t == IF tx = None THEN minted + 1 ELSE tx
             own == [m EXCEPT !.txn = t]
             o == [olm EXCEPT !.messages = Append(olm.messages, own)]
  <1>1. /\ olm \in WorkRecords /\ WorkOK(olm, produced, sent) /\ produced \in Nat /\ minted \in Nat
        /\ AllRetained(olm) /\ SentOK
    BY DEF RequestsInv, TypesOK, MessagesOK
  <1>2. t \in TransactionIds /\ t # None
    BY <1>1, CryptoRequestsAssumption DEF TransactionIds
  <1>3. /\ request' = Request("to_device", {}, t, op) /\ olm' = o /\ facts' = o
        /\ minted' = IF tx = None THEN minted + 1 ELSE minted
    BY DEF EnqueueOwn
  <1> HIDE DEF t
  <1>4. own \in MessageRecords /\ own.txn = t /\ own.content = produced + 1
    BY <1>2 DEF MessageRecords
  <1> HIDE DEF own
  <1>5. o \in WorkRecords /\ o.messages = Append(olm.messages, own) /\ o.dirty = olm.dirty
    <2>1. olm.messages \in Seq(MessageRecords)
      BY <1>1 DEF WorkRecords
    <2>2. Append(olm.messages, own) \in Seq(MessageRecords)
      BY <1>4, <2>1
    <2> QED BY <1>1, <2>2 DEF WorkRecords
  <1> HIDE DEF o
  <1>6. sent \subseteq TransactionIds \X Nat /\ \A p \in sent : p[2] <= produced
    BY <1>1 DEF SentOK
  <1>7. WorkOK(o, produced + 1, sent) /\ Holds(o, own.txn) /\ AllRetained(o)
    BY <1>1, <1>2, <1>4, <1>5, <1>6, AppendKeeps
  <1>8. WorkOK(o, produced', sent') /\ Holds(o, t)
    BY <1>4, <1>7
  <1>9. /\ request' \in RequestRecords /\ request' # None
        /\ request'.kind = "to_device" /\ request'.users = {} /\ request'.txn = t
    BY <1>2, <1>3, RequestShape DEF Kinds
  <1>10. minted' \in Nat /\ produced' \in Nat
    BY <1>1, <1>3
  <1>11. SentOK'
    <2>1. \A p \in sent : p[2] \in Nat /\ p[2] <= produced
      BY <1>6
    <2>2. \A p \in sent : p[2] <= produced'
      BY <1>1, <2>1
    <2> QED BY <1>1, <2>2 DEF SentOK, OneTransaction
  <1>12. \A i, j \in 1..Len(o.messages) :
            o.messages[i].content = o.messages[j].content => o.messages[i].txn = o.messages[j].txn
    BY <1>7 DEF WorkOK
  <1>13. MessagesOK'
    BY <1>3, <1>7, <1>8, <1>9, <1>11, <1>12 DEF MessagesOK, WorkOK, AllRetained, Holds
  <1> QED BY <1>3, <1>5, <1>9, <1>10, <1>13 DEF NewRequest

(* The lock holder sends the request it just retained: a queried user is   *)
(* no longer dirty, but asked for.                                         *)
LEMMA SentNext ==
    ASSUME RequestsInv, NewRequest, request = None, wire = "idle", alive,
           NEW step \in {"own", "query", "claim", "pending"}, SendAs(step),
           UNCHANGED <<server, unannounced, syncInput, known, tracked, reply, sent, missed, polling,
                       alive>>
    PROVE  RequestsInv'
  <1>1. wire' = "sent" /\ task' = [task EXCEPT !.step = step]
    BY DEF SendAs
  <1>2. task' \in TaskRecords
    BY <1>1 DEF RequestsInv, TypesOK, TaskRecords
  <1>3. TypesOK'
    BY <1>1, <1>2 DEF RequestsInv, TypesOK, NewRequest
  <1>4. ControlOK'
    BY <1>1 DEF RequestsInv, ControlOK, NewRequest
  <1>5. DOMAIN reply.versions = {}
    BY DEF RequestsInv, ControlOK
  <1>6. olm.dirty = facts.dirty
    BY DEF RequestsInv, ChangesOK
  <1>7. ASSUME NEW u \in Users \ missed, known[u] \in 1..(server[u] - 1) PROVE Renewed(u)'
    <2>1. Renewed(u)
      BY <1>7 DEF RequestsInv, ChangesOK, NoLostChangeTracked
    <2>2. u \in unannounced \/ (syncInput.phase = "captured" /\ u \in syncInput.changed)
          \/ u \in facts'.dirty \/ u \in request'.users
      BY <1>6, <2>1 DEF Renewed, NewRequest
    <2> QED BY <1>5, <2>2 DEF Renewed, NewRequest
  <1>8. ChangesOK'
    BY <1>5, <1>7 DEF ChangesOK, NoLostChangeTracked, NewRequest
  <1> QED BY <1>3, <1>4, <1>8 DEF RequestsInv, NewRequest

LEMMA MaintainNextKeeps == ASSUME RequestsInv, MaintainNext PROVE RequestsInv'
  <1>1. alive /\ wire = "idle"
    BY DEF MaintainNext, Ready
  <1>2. CASE request # None
    <2>1. UNCHANGED <<request, olm, facts, minted, produced, sent, alive>>
      BY <1>2 DEF MaintainNext
    <2>2. wire' = "sent" /\ task' = [task EXCEPT !.step = "own"]
      BY DEF MaintainNext, SendAs
    <2>3. TypesOK'
      BY <2>1, <2>2 DEF RequestsInv, TypesOK, TaskRecords, MaintainNext
    <2>4. ControlOK'
      BY <1>1, <1>2, <2>1, <2>2 DEF RequestsInv, ControlOK, MaintainNext
    <2>5. ChangesOK'
      BY <2>1 DEF RequestsInv, ChangesOK, NoLostChangeTracked, Renewed, Noted, MaintainNext
    <2>6. MessagesOK'
      <3>1. SentOK' /\ WorkOK(olm, produced, sent)' /\ WorkOK(facts, produced, sent)'
        BY <2>1 DEF RequestsInv, MessagesOK, SentOK, OneTransaction, WorkOK
      <3>2. AllRetained(olm)' /\ AllRetained(facts)'
        BY <2>1 DEF RequestsInv, MessagesOK, AllRetained
      <3> QED BY <2>1, <3>1, <3>2 DEF RequestsInv, MessagesOK, Holds
    <2> QED BY <2>3, <2>4, <2>5, <2>6 DEF RequestsInv
  <1>3. CASE request = None
    <2>1. UNCHANGED <<sent, alive, produced>> /\ SendAs("own") /\ NextRequest(task.completed)
      BY <1>3 DEF MaintainNext
    <2>2. olm.dirty \in SUBSET Users
      BY DEF RequestsInv, TypesOK, WorkRecords
    <2>3. NewRequest
      BY <2>1, <2>2, QueryEnqueued, PlainEnqueued, QueuedEnqueued DEF NextRequest
    <2> QED BY <1>1, <1>3, <2>1, <2>3, SentNext DEF MaintainNext
  <1> QED BY <1>2, <1>3

LEMMA CallStepKeeps == ASSUME RequestsInv, CallStep PROVE RequestsInv'
  <1>1. alive /\ wire = "idle" /\ task \in TaskRecords /\ task.tx \in TransactionIds \cup {None}
        /\ produced \in Nat /\ UNCHANGED <<sent, alive>>
    BY DEF CallStep, Calling, Ready, RequestsInv, TypesOK, TaskRecords
  <1>2. ToQuery \in SUBSET Users /\ {Peer} \in SUBSET Users
    BY CryptoRequestsAssumption DEF ToQuery, RequestsInv, TypesOK, TaskRecords, WorkRecords
  <1>3. request = None
    BY <1>1 DEF CallStep, Fresh, Encrypts, RequestsInv, ControlOK
  <1>4. \A mine \in BOOLEAN :
            /\ Message("own", produced + 1, mine) \in MessageRecords
            /\ Message("own", produced + 1, mine).content = produced + 1
    <2>1. produced + 1 \in Nat \ {0}
      BY <1>1
    <2> QED BY <2>1 DEF Message, MessageRecords
  <1>5. \E step \in {"own", "query", "claim"} : NewRequest /\ SendAs(step)
    <2>1. CASE produced' = produced /\ (\E step \in {"own", "query", "claim"} : SendAs(step))
               /\ (EnqueueQuery(ToQuery) \/ EnqueueQuery({Peer}) \/ EnqueueUpload \/ EnqueueClaim)
      BY <1>1, <1>2, <2>1, QueryEnqueued, PlainEnqueued
    <2>2. CASE \E mine \in BOOLEAN, op \in {None, "sealed"} :
                    /\ EnqueueOwn(Message("own", produced + 1, mine), task.tx, op)
                    /\ produced' = produced + 1 /\ SendAs("own")
      BY <1>1, <1>4, <2>2, OwnEnqueued
    <2> QED BY <2>1, <2>2 DEF CallStep
  <1> QED BY <1>1, <1>3, <1>5, SentNext DEF CallStep

(* A transaction without a new request: the dirty users only grow, and     *)
(* the pending request still finds its message.                            *)
LEMMA CapturedMore ==
    ASSUME RequestsInv, alive, UNCHANGED <<request, sent, alive>>, NEW o, produced' \in Nat,
           produced <= produced', WorkOK(o, produced', sent), Capture(o),
           \A t : Holds(olm, t) => Holds(o, t)
    PROVE  /\ olm' \in WorkRecords /\ facts' \in WorkRecords /\ minted' \in Nat
           /\ olm'.dirty = o.dirty /\ facts'.dirty = o.dirty /\ MessagesOK'
  <1>1. ASSUME request' # None, request'.kind = "to_device"
        PROVE  request'.txn \in TransactionIds /\ Holds(o, request'.txn)
    <2>1. Holds(olm, request.txn) /\ AllRetained(olm)
      BY <1>1 DEF RequestsInv, MessagesOK
    <2>2. request.txn # None
      BY <2>1 DEF Holds, AllRetained
    <2>3. request.txn \in TransactionIds
      BY <1>1, <2>2 DEF RequestsInv, TypesOK, RequestRecords
    <2> QED BY <2>1, <2>3
  <1> QED BY <1>1, CapturedWork

LEMMA LookUpKeeps ==
    ASSUME RequestsInv, NEW users \in SUBSET Users, LookUpMembers(users) PROVE RequestsInv'
  <1> DEFINE d == olm.dirty \cup (users \ tracked)
             o == [olm EXCEPT !.dirty = d]
  <1>1. /\ olm \in WorkRecords /\ WorkOK(olm, produced, sent) /\ produced \in Nat /\ alive
        /\ UNCHANGED <<request, sent, alive, produced>>
    BY DEF RequestsInv, TypesOK, MessagesOK, LookUpMembers, Free
  <1>2. d \in SUBSET Users
    BY <1>1 DEF WorkRecords
  <1>3. Capture(o)
    BY <1>1 DEF LookUpMembers
  <1>4. o \in WorkRecords /\ o.messages = olm.messages /\ o.dirty = d
    <2> HIDE DEF d
    <2> QED BY <1>1, <1>2, ChangeShape
  <1> HIDE DEF o
  <1>5. WorkOK(o, produced, sent) /\ \A t : Holds(olm, t) => Holds(o, t)
    BY <1>1, <1>4, SameMessages
  <1>6. produced' \in Nat /\ produced <= produced' /\ WorkOK(o, produced', sent)
    BY <1>1, <1>5
  <1>7. /\ olm' \in WorkRecords /\ facts' \in WorkRecords /\ minted' \in Nat
        /\ olm'.dirty = d /\ facts'.dirty = d /\ MessagesOK'
    BY <1>1, <1>3, <1>4, <1>5, <1>6, CapturedMore
  <1>8. TypesOK' /\ ControlOK'
    BY <1>7 DEF RequestsInv, TypesOK, ControlOK, LookUpMembers
  <1>9. facts.dirty \subseteq facts'.dirty
    BY <1>1, <1>7 DEF RequestsInv, ChangesOK
  <1>10. ChangesOK'
    BY <1>7, <1>9 DEF RequestsInv, ChangesOK, NoLostChangeTracked, Renewed, Noted, LookUpMembers
  <1> QED BY <1>7, <1>8, <1>10 DEF RequestsInv

LEMMA KeyShareKeeps ==
    ASSUME RequestsInv, NEW cancel \in BOOLEAN, ChangeKeyShare(cancel) PROVE RequestsInv'
  <1>1. /\ olm \in WorkRecords /\ WorkOK(olm, produced, sent) /\ produced \in Nat /\ alive
        /\ UNCHANGED <<request, sent, alive>> /\ sent \subseteq TransactionIds \X Nat
        /\ \A p \in sent : p[2] <= produced
    BY DEF RequestsInv, TypesOK, MessagesOK, SentOK, ChangeKeyShare
  <1>2. PICK o : /\ Capture(o) /\ produced' \in {produced, produced + 1}
                 /\ WorkOK(o, produced', sent) /\ o.dirty = olm.dirty
                 /\ \A t : Holds(olm, t) => Holds(o, t)
    <2>1. CASE produced' = produced /\ \E a \in {"no", "waiting"} : Capture([olm EXCEPT !.asked = a])
      <3>1. PICK a \in {"no", "waiting"} : Capture([olm EXCEPT !.asked = a])
        BY <2>1
      <3> DEFINE o == [olm EXCEPT !.asked = a]
      <3>2. o \in WorkRecords /\ o.messages = olm.messages /\ o.dirty = olm.dirty
        BY <1>1, ChangeShape
      <3> HIDE DEF o
      <3>3. WorkOK(o, produced, sent) /\ \A t : Holds(olm, t) => Holds(o, t)
        BY <1>1, <3>2, SameMessages
      <3>4. WorkOK(o, produced', sent)
        BY <2>1, <3>3
      <3> QED BY <2>1, <3>1, <3>2, <3>3, <3>4 DEF o
    <2>2. CASE produced' = produced + 1
               /\ Capture([Queue(olm, "share", produced + 1) EXCEPT !.asked = "no"])
      <3> DEFINE q == Queue(olm, "share", produced + 1)
                 o == [q EXCEPT !.asked = "no"]
      <3>1. /\ q \in WorkRecords /\ q.dirty = olm.dirty /\ WorkOK(q, produced + 1, sent)
            /\ \A t : Holds(olm, t) => Holds(q, t)
        BY <1>1, QueueKeeps
      <3>2. Capture(o)
        BY <2>2
      <3> HIDE DEF q
      <3>3. o \in WorkRecords /\ o.messages = q.messages /\ o.dirty = q.dirty
        BY <3>1, ChangeShape
      <3> HIDE DEF o
      <3>4. WorkOK(o, produced + 1, sent) /\ \A t : Holds(q, t) => Holds(o, t)
        BY <3>1, <3>3, SameMessages
      <3>5. WorkOK(o, produced', sent)
        BY <2>2, <3>4
      <3> QED BY <2>2, <3>1, <3>2, <3>3, <3>4, <3>5
    <2> QED BY <2>1, <2>2 DEF ChangeKeyShare
  <1>3. produced' \in Nat /\ produced <= produced'
    BY <1>1, <1>2
  <1>4. /\ olm' \in WorkRecords /\ facts' \in WorkRecords /\ minted' \in Nat
        /\ olm'.dirty = olm.dirty /\ facts'.dirty = olm.dirty /\ MessagesOK'
    BY <1>1, <1>2, <1>3, CapturedMore
  <1>5. TypesOK' /\ ControlOK'
    BY <1>3, <1>4 DEF RequestsInv, TypesOK, ControlOK, ChangeKeyShare
  <1>6. facts.dirty = facts'.dirty
    BY <1>1, <1>4 DEF RequestsInv, ChangesOK
  <1>7. ChangesOK'
    BY <1>4, <1>6 DEF RequestsInv, ChangesOK, NoLostChangeTracked, Renewed, Noted, ChangeKeyShare
  <1> QED BY <1>4, <1>5, <1>7 DEF RequestsInv

LEMMA MaintainEndsKeeps == ASSUME RequestsInv, MaintainEnds PROVE RequestsInv'
  <1>1. /\ olm \in WorkRecords /\ WorkOK(olm, produced, sent) /\ produced \in Nat /\ alive
        /\ UNCHANGED <<request, sent, alive, produced>> /\ Capture(olm)
    BY DEF RequestsInv, TypesOK, MessagesOK, MaintainEnds, Ready
  <1>2. produced' \in Nat /\ produced <= produced' /\ WorkOK(olm, produced', sent)
    BY <1>1
  <1>3. /\ olm' \in WorkRecords /\ facts' \in WorkRecords /\ minted' \in Nat
        /\ olm'.dirty = olm.dirty /\ facts'.dirty = olm.dirty /\ MessagesOK'
    BY <1>1, <1>2, CapturedMore
  <1>4. task' = NoTask /\ syncInput' = NoInput /\ syncInput.phase # "captured"
    BY DEF MaintainEnds, Ready, RequestsInv, ControlOK
  <1>5. task' \in TaskRecords /\ syncInput' \in InputRecords /\ task'.step = "start"
        /\ task'.plan = "none" /\ syncInput'.phase = "none"
    BY <1>4 DEF NoTask, TaskRecords, NoInput, InputRecords
  <1>6. TypesOK'
    BY <1>2, <1>3, <1>5 DEF RequestsInv, TypesOK, MaintainEnds
  <1>7. ControlOK'
    BY <1>5 DEF RequestsInv, ControlOK, MaintainEnds
  <1>8. facts.dirty = facts'.dirty
    BY <1>1, <1>3 DEF RequestsInv, ChangesOK
  <1>9. ChangesOK'
    BY <1>3, <1>4, <1>8 DEF RequestsInv, ChangesOK, NoLostChangeTracked, Renewed, Noted, MaintainEnds
  <1> QED BY <1>3, <1>6, <1>7, <1>9 DEF RequestsInv

LEMMA PrepareKeeps == ASSUME RequestsInv, Prepare PROVE RequestsInv'
  <1> DEFINE d == olm.dirty \cup {u \in syncInput.changed : Relevant(u)}
             o == [olm EXCEPT
                    !.dirty = d,
                    !.wedged = @ \/ syncInput.news = "wedged",
                    !.rerequest = @ \/ syncInput.news = "wedged",
                    !.asked = IF syncInput.news = "asked" /\ @ = "no" THEN "untrusted" ELSE @,
                    !.low = @ \/ syncInput.news = "low"]
  <1>1. /\ olm \in WorkRecords /\ WorkOK(olm, produced, sent) /\ produced \in Nat /\ alive
        /\ UNCHANGED <<request, sent, alive, produced>> /\ Capture(o)
    BY DEF RequestsInv, TypesOK, MessagesOK, Prepare
  <1>2. d \in SUBSET Users
    BY <1>1 DEF WorkRecords, RequestsInv, TypesOK, InputRecords
  <1>3. o \in WorkRecords /\ o.messages = olm.messages /\ o.dirty = d
    <2> HIDE DEF d
    <2> QED BY <1>1, <1>2 DEF WorkRecords
  <1> HIDE DEF o
  <1>4. WorkOK(o, produced, sent) /\ \A t : Holds(olm, t) => Holds(o, t)
    BY <1>1, <1>3, SameMessages
  <1>5. produced' \in Nat /\ produced <= produced' /\ WorkOK(o, produced', sent)
    BY <1>1, <1>4
  <1>6. /\ olm' \in WorkRecords /\ facts' \in WorkRecords /\ minted' \in Nat
        /\ olm'.dirty = d /\ facts'.dirty = d /\ MessagesOK'
    BY <1>1, <1>3, <1>4, <1>5, CapturedMore
  <1>7. syncInput' \in InputRecords /\ syncInput'.phase = "applied"
    BY DEF Prepare, NoInput, InputRecords
  <1>8. TypesOK' /\ ControlOK'
    BY <1>5, <1>6, <1>7 DEF RequestsInv, TypesOK, ControlOK, Prepare, InputRecords
  <1>9. facts.dirty \subseteq facts'.dirty /\ olm.dirty = facts.dirty
        /\ \A u \in syncInput.changed : Relevant(u) => u \in facts'.dirty
    BY <1>1, <1>6 DEF RequestsInv, ChangesOK
  <1>10. ASSUME NEW u \in DOMAIN reply.versions \ missed', reply.versions[u] # server[u]
         PROVE  Noted(u)'
    <2>1. CASE u \in missed
      BY <1>9, <1>10, <2>1 DEF Prepare, Noted
    <2>2. CASE u \notin missed
      <3>1. Noted(u)
        BY <1>10, <2>2 DEF RequestsInv, ChangesOK
      <3> QED BY <1>9, <1>10, <3>1 DEF Prepare, Noted
    <2> QED BY <2>1, <2>2
  <1>11. ASSUME NEW u \in Users \ missed', known[u] \in 1..(server[u] - 1)
         PROVE  Renewed(u)'
    <2>1. u \in syncInput.changed => u \in facts'.dirty
      BY <1>9, <1>11 DEF Relevant
    <2>2. CASE u \in missed
      BY <1>9, <1>11, <2>2 DEF Prepare, Renewed
    <2>3. CASE u \notin missed
      <3>1. Renewed(u)
        BY <1>11, <2>3 DEF RequestsInv, ChangesOK, NoLostChangeTracked
      <3> QED BY <1>9, <2>1, <3>1 DEF Prepare, Renewed
    <2> QED BY <2>2, <2>3
  <1>12. ChangesOK'
    BY <1>6, <1>10, <1>11 DEF ChangesOK, NoLostChangeTracked, Prepare
  <1> QED BY <1>6, <1>8, <1>12 DEF RequestsInv

(* Applying an answer: what it did not answer is dirty again, what it      *)
(* answered is stored, and a list that changed since is noted elsewhere.   *)
LEMMA ReceiveKeeps == ASSUME RequestsInv, Receive PROVE RequestsInv'
  <1>1. /\ alive /\ wire = "answered" /\ request # None /\ produced \in Nat
        /\ request' = None /\ wire' = "idle" /\ UNCHANGED <<sent, alive>>
        /\ Capture(Applied) /\ produced' = produced + NewlyMade
    BY DEF Receive, RequestsInv, ControlOK, TypesOK
  <1>2. /\ NewlyMade \in Nat /\ WorkOK(Applied, produced + NewlyMade, sent)
        /\ Applied.dirty = IF request.kind = "query"
                           THEN olm.dirty \cup (request.users \ DOMAIN reply.versions) ELSE olm.dirty
    BY <1>1, AppliedKeeps DEF RequestsInv
  <1>3. produced' \in Nat /\ produced <= produced' /\ WorkOK(Applied, produced', sent)
    BY <1>1, <1>2
  <1>4. /\ olm' \in WorkRecords /\ facts' \in WorkRecords /\ minted' \in Nat
        /\ olm'.dirty = Applied.dirty /\ facts'.dirty = Applied.dirty /\ MessagesOK'
    BY <1>1, <1>3, CapturedWork
  <1>5. request.kind \in Kinds /\ DOMAIN reply.versions \subseteq request.users
        /\ (request.kind # "query" => request.users = {})
    BY <1>1 DEF RequestsInv, TypesOK, RequestRecords, ControlOK
  <1>6. DOMAIN reply'.versions = {}
    BY DEF Receive, NoAnswer
  <1>7. known' \in [Users -> 0..MaxVersion]
    <2>1. ASSUME NEW u \in Users
          PROVE  (IF request.kind = "query" /\ u \in DOMAIN reply.versions
                  THEN reply.versions[u] ELSE known[u]) \in 0..MaxVersion
      BY CryptoRequestsAssumption DEF RequestsInv, TypesOK
    <2> QED BY <2>1 DEF Receive
  <1>8. task' \in TaskRecords /\ task'.plan = task.plan
    <2> DEFINE c == IF task.plan = "maintain" THEN task.completed \cup {request.kind} ELSE task.completed
               l == IF task.step = "pending" THEN request.kind ELSE task.last
               k == IF task.step = "query" THEN Peer \in DOMAIN reply.versions ELSE task.ok
    <2>1. task \in TaskRecords
      BY DEF RequestsInv, TypesOK
    <2>2. c \in SUBSET Kinds /\ l \in Kinds \cup {"none"}
      BY <1>5, <2>1 DEF TaskRecords
    <2>3. k \in BOOLEAN
      <3>1. task.ok \in BOOLEAN
        BY <2>1 DEF TaskRecords
      <3>2. (Peer \in DOMAIN reply.versions) \in BOOLEAN
        OBVIOUS
      <3>3. k = (Peer \in DOMAIN reply.versions) \/ k = task.ok
        BY Zenon
      <3> QED BY <3>1, <3>2, <3>3, Zenon
    <2>4. task' = [task EXCEPT !.completed = c, !.last = l, !.ok = k]
      BY <2>1, Zenon DEF Receive
    <2> HIDE DEF c, l, k
    <2> QED BY <2>1, <2>2, <2>3, <2>4 DEF TaskRecords
  <1>9. tracked' \subseteq Users
    BY DEF Receive, RequestsInv, TypesOK
  <1>10. TypesOK'
    BY <1>1, <1>3, <1>4, <1>6, <1>7, <1>8, <1>9 DEF RequestsInv, TypesOK, Receive
  <1>11. ControlOK'
    BY <1>1, <1>6, <1>8 DEF RequestsInv, ControlOK, Receive
  <1>12. facts.dirty \subseteq facts'.dirty /\ olm'.dirty = facts'.dirty
    BY <1>1, <1>2, <1>4 DEF RequestsInv, ChangesOK
  <1>13. ASSUME NEW u \in Users \ missed, known'[u] \in 1..(server[u] - 1)
         PROVE  Noted(u)'
    <2>1. CASE u \in DOMAIN reply.versions
      <3>1. known'[u] = reply.versions[u]
        BY <1>5, <2>1 DEF Receive
      <3>2. server[u] \in Int
        BY DEF RequestsInv, TypesOK
      <3>3. reply.versions[u] # server[u]
        BY <1>13, <3>1, <3>2
      <3>4. Noted(u)
        BY <1>13, <2>1, <3>3 DEF RequestsInv, ChangesOK
      <3> QED BY <1>12, <3>4 DEF Noted, Receive
    <2>2. CASE u \notin DOMAIN reply.versions
      <3>1. known'[u] = known[u]
        BY <2>2 DEF Receive
      <3>2. Renewed(u)
        BY <1>13, <3>1 DEF RequestsInv, ChangesOK, NoLostChangeTracked
      <3>3. u \in request.users => u \in facts'.dirty
        BY <1>2, <1>4, <1>5, <2>2
      <3> QED BY <1>12, <3>2, <3>3 DEF Renewed, Noted, Receive
    <2> QED BY <2>1, <2>2
  <1>14. ChangesOK'
    BY <1>6, <1>12, <1>13 DEF ChangesOK, NoLostChangeTracked, Renewed, Noted, Receive
  <1> QED BY <1>4, <1>10, <1>11, <1>14 DEF RequestsInv

(* The server answers what it was sent: a message under the id it is       *)
(* retained with, in memory as in the database.                            *)
LEMMA AnswerKeeps ==
    ASSUME RequestsInv, NEW users \in SUBSET Users, NEW ok \in BOOLEAN, ServerAnswers(users, ok)
    PROVE  RequestsInv'
  <1>1. /\ wire = "sent" /\ wire' = "answered" /\ alive /\ request # None
        /\ users \subseteq request.users /\ reply' = [versions |-> [u \in users |-> server[u]], ok |-> ok]
        /\ UNCHANGED <<server, unannounced, syncInput, olm, facts, request, known, tracked, task,
                       minted, produced, missed, polling, alive>>
    BY DEF ServerAnswers, RequestsInv, ControlOK
  <1>2. DOMAIN reply'.versions = users /\ \A u \in users : reply'.versions[u] = server[u]
    BY <1>1
  <1>3. TypesOK'
    BY <1>1, <1>2 DEF RequestsInv, TypesOK
  <1>4. ControlOK'
    BY <1>1, <1>2 DEF RequestsInv, ControlOK
  <1>5. ChangesOK'
    BY <1>1, <1>2 DEF RequestsInv, ChangesOK, NoLostChangeTracked, Renewed, Noted
  <1>6. /\ olm \in WorkRecords /\ WorkOK(olm, produced, sent) /\ WorkOK(facts, produced, sent)
        /\ AllRetained(olm) /\ AllRetained(facts) /\ SentOK /\ produced \in Nat
    BY DEF RequestsInv, TypesOK, MessagesOK
  <1>7. ASSUME NEW p \in sent', p \notin sent
        PROVE  \E i \in 1..Len(olm.messages) :
                    olm.messages[i].txn = p[1] /\ olm.messages[i].content = p[2]
                    /\ p \in TransactionIds \X Nat
    <2>1. PICK i \in DOMAIN olm.messages :
            olm.messages[i].txn = request.txn /\ p = <<request.txn, olm.messages[i].content>>
      BY <1>7 DEF ServerAnswers
    <2>2. i \in 1..Len(olm.messages) /\ olm.messages[i] \in MessageRecords
      BY <1>6, <2>1 DEF WorkRecords
    <2>3. olm.messages[i].txn \in TransactionIds /\ olm.messages[i].content \in Nat
      BY <1>6, <2>2 DEF MessageRecords, AllRetained
    <2> QED BY <2>1, <2>2, <2>3
  <1>8. sent \subseteq sent'
    BY DEF ServerAnswers
  <1>9. sent' \subseteq TransactionIds \X Nat /\ \A p \in sent' : p[2] <= produced
    BY <1>6, <1>7 DEF SentOK, WorkOK
  <1>10. ASSUME NEW i \in 1..Len(olm.messages), NEW p \in sent', olm.messages[i].content = p[2]
         PROVE  olm.messages[i].txn = p[1]
    BY <1>6, <1>7, <1>10 DEF WorkOK
  <1>11. ASSUME NEW j \in 1..Len(facts.messages), NEW p \in sent', facts.messages[j].content = p[2]
         PROVE  facts.messages[j].txn = p[1]
    <2>1. CASE p \in sent
      BY <1>6, <1>11, <2>1 DEF WorkOK
    <2>2. CASE p \notin sent
      <3>1. PICK i \in 1..Len(olm.messages) :
                olm.messages[i].txn = p[1] /\ olm.messages[i].content = p[2]
        BY <1>7, <2>2
      <3>2. olm.messages[i].txn = facts.messages[j].txn
        BY <1>1, <1>11, <3>1 DEF RequestsInv, MessagesOK
      <3> QED BY <3>1, <3>2
    <2> QED BY <2>1, <2>2
  <1>12. ASSUME NEW a \in sent', NEW b \in sent', a[2] = b[2] PROVE a[1] = b[1]
    <2>1. CASE a \in sent /\ b \in sent
      BY <1>6, <1>12, <2>1 DEF SentOK, OneTransaction
    <2>2. CASE a \notin sent
      BY <1>7, <1>10, <1>12, <2>2
    <2>3. CASE b \notin sent
      BY <1>7, <1>10, <1>12, <2>3
    <2> QED BY <2>1, <2>2, <2>3
  <1>13. SentOK'
    BY <1>1, <1>9, <1>12 DEF SentOK, OneTransaction
  <1>14. WorkOK(olm, produced, sent') /\ WorkOK(facts, produced, sent')
    BY <1>6, <1>10, <1>11 DEF WorkOK
  <1>15. WorkOK(olm', produced', sent') /\ WorkOK(facts', produced', sent')
    BY <1>1, <1>14
  <1>16. MessagesOK'
    BY <1>1, <1>6, <1>13, <1>15 DEF RequestsInv, MessagesOK, AllRetained, Holds, WorkOK
  <1> QED BY <1>3, <1>4, <1>5, <1>16 DEF RequestsInv

(* A crash leaves what was captured. *)
LEMMA CrashKeeps == ASSUME RequestsInv, CryptoCrash PROVE RequestsInv'
  <1>1. /\ olm' = NoWork /\ task' = NoTask /\ tracked' = {} /\ reply' = NoAnswer /\ wire' = "idle"
        /\ UNCHANGED <<server, unannounced, syncInput, facts, request, known, sent, minted,
                       produced, missed>>
    BY DEF CryptoCrash
  <1>2. ~alive' /\ ~polling'
    BY DEF CryptoCrash
  <1>3. NoWork \in WorkRecords /\ NoWork.messages = <<>>
    <2>1. <<>> \in Seq(MessageRecords)
      OBVIOUS
    <2> QED BY <2>1 DEF NoWork, WorkRecords
  <1>4. task' \in TaskRecords /\ task'.step = "start" /\ task'.plan = "none"
    BY <1>1 DEF NoTask, TaskRecords
  <1>5. DOMAIN reply'.versions = {}
    BY <1>1 DEF NoAnswer
  <1>6. TypesOK'
    BY <1>1, <1>3, <1>4, <1>5 DEF RequestsInv, TypesOK
  <1>7. ControlOK'
    BY <1>1, <1>2, <1>4, <1>5 DEF RequestsInv, ControlOK
  <1>8. ChangesOK'
    BY <1>1, <1>2, <1>5 DEF RequestsInv, ChangesOK, NoLostChangeTracked, Renewed, Noted
  <1>9. WorkOK(NoWork, produced, sent) /\ AllRetained(NoWork)
    BY <1>3 DEF WorkOK, AllRetained
  <1>10. WorkOK(olm', produced', sent') /\ AllRetained(olm')
    BY <1>1, <1>9
  <1>11. MessagesOK'
    BY <1>1, <1>2, <1>10 DEF RequestsInv, MessagesOK, SentOK, OneTransaction, WorkOK, AllRetained, Holds
  <1> QED BY <1>6, <1>7, <1>8, <1>11 DEF RequestsInv

(* A restart finds the retained messages under their ids. *)
LEMMA RestoreKeeps == ASSUME RequestsInv, Restore PROVE RequestsInv'
  <1> DEFINE n == Len(facts.messages)
             unheld == [i \in 1..n |-> [facts.messages[i] EXCEPT !.mine = FALSE]]
  <1>1. /\ facts \in WorkRecords /\ WorkOK(facts, produced, sent) /\ AllRetained(facts)
        /\ facts.messages \in Seq(MessageRecords) /\ n \in Nat /\ DOMAIN facts.messages = 1..n
    BY DEF RequestsInv, TypesOK, MessagesOK, WorkRecords
  <1>2. /\ olm' = [facts EXCEPT !.messages = unheld]
        /\ UNCHANGED <<server, unannounced, syncInput, facts, request, known, tracked, task, wire,
                       reply, sent, minted, produced, missed, polling>>
    BY <1>1 DEF Restore
  <1>3. ASSUME NEW i \in 1..n
        PROVE  /\ unheld[i] \in MessageRecords /\ unheld[i].content = facts.messages[i].content
               /\ unheld[i].txn = facts.messages[i].txn
    <2>1. facts.messages[i] \in MessageRecords
      BY <1>1
    <2> QED BY <2>1 DEF MessageRecords
  <1>4. unheld \in Seq(MessageRecords) /\ Len(unheld) = n
    <2>1. DOMAIN unheld = 1..n /\ unheld = [i \in 1..n |-> unheld[i]]
      BY Zenon
    <2> HIDE DEF unheld, n
    <2>2. unheld \in [1..n -> MessageRecords]
      BY <1>3, <2>1
    <2>3. n \in Nat
      BY <1>1
    <2> QED BY <2>2, <2>3
  <1> HIDE DEF unheld
  <1>5. olm' \in WorkRecords /\ olm'.messages = unheld /\ olm'.dirty = facts.dirty
    BY <1>1, <1>2, <1>4 DEF WorkRecords
  <1>6. wire = "idle"
    BY DEF Restore, RequestsInv, ControlOK, TypesOK
  <1>7. TypesOK'
    BY <1>2, <1>5 DEF RequestsInv, TypesOK
  <1>8. ControlOK'
    BY <1>2, <1>6 DEF RequestsInv, ControlOK
  <1>9. ChangesOK'
    BY <1>2, <1>5 DEF RequestsInv, ChangesOK, NoLostChangeTracked, Renewed, Noted
  <1>10. WorkOK(olm', produced, sent) /\ AllRetained(olm')
    BY <1>1, <1>3, <1>4, <1>5 DEF WorkOK, AllRetained
  <1>11. \A i \in 1..Len(olm'.messages), j \in 1..Len(facts.messages) :
            olm'.messages[i].content = facts.messages[j].content =>
                olm'.messages[i].txn = facts.messages[j].txn
    BY <1>1, <1>3, <1>4, <1>5 DEF WorkOK
  <1>12. \A t : Holds(facts, t) => Holds(olm', t)
    BY <1>3, <1>4, <1>5 DEF Holds
  <1>13. WorkOK(olm', produced', sent')
    BY <1>2, <1>10
  <1>14. MessagesOK'
    BY <1>2, <1>10, <1>11, <1>12, <1>13, SMTT(30)
    DEF RequestsInv, MessagesOK, SentOK, OneTransaction, WorkOK, AllRetained, Holds
  <1> QED BY <1>7, <1>8, <1>9, <1>14 DEF RequestsInv

(* The other steps leave the work and the request alone. *)
LEMMA SameWork ==
    ASSUME RequestsInv, UNCHANGED <<olm, facts, request, sent, produced, alive>>
    PROVE  MessagesOK'
  BY DEF RequestsInv, MessagesOK, SentOK, OneTransaction, WorkOK, AllRetained, Holds

LEMMA NoTaskShape == NoTask \in TaskRecords /\ NoTask.step = "start" /\ NoTask.plan = "none"
  BY DEF NoTask, TaskRecords

LEMMA ServerChangeKeeps ==
    ASSUME RequestsInv, NEW u \in Users, ServerChange(u) PROVE RequestsInv'
  <1>1. server' = [server EXCEPT ![u] = @ + 1] /\ unannounced' = unannounced \cup {u}
        /\ server[u] < MaxVersion
    BY DEF ServerChange
  <1>2. server' \in [Users -> 1..MaxVersion]
    BY <1>1, CryptoRequestsAssumption DEF RequestsInv, TypesOK
  <1>3. TypesOK'
    BY <1>1, <1>2 DEF RequestsInv, TypesOK, ServerChange
  <1>4. ControlOK'
    BY DEF RequestsInv, ControlOK, ServerChange
  <1>5. \A v \in Users \ {u} : server'[v] = server[v]
    BY <1>1 DEF RequestsInv, TypesOK
  <1>6. ASSUME NEW v \in DOMAIN reply.versions \ missed, reply.versions[v] # server'[v]
        PROVE  Noted(v)'
    <2>1. v \in Users
      BY DEF RequestsInv, TypesOK
    <2>2. CASE v = u
      BY <1>1, <2>2 DEF Noted
    <2>3. CASE v # u
      <3>1. Noted(v)
        BY <1>5, <1>6, <2>1, <2>3 DEF RequestsInv, ChangesOK
      <3> QED BY <1>1, <3>1 DEF Noted, ServerChange
    <2> QED BY <2>2, <2>3
  <1>7. ASSUME NEW v \in Users \ missed, known[v] \in 1..(server'[v] - 1) PROVE Renewed(v)'
    <2>1. CASE v = u
      BY <1>1, <2>1 DEF Renewed
    <2>2. CASE v # u
      <3>1. Renewed(v) /\ server'[v] = server[v]
        BY <1>5, <1>7, <2>2 DEF RequestsInv, ChangesOK, NoLostChangeTracked
      <3> QED BY <1>1, <3>1 DEF Renewed, ServerChange
    <2> QED BY <2>1, <2>2
  <1>8. ChangesOK'
    BY <1>6, <1>7 DEF RequestsInv, ChangesOK, NoLostChangeTracked, ServerChange
  <1> QED BY <1>3, <1>4, <1>8, SameWork DEF RequestsInv, ServerChange

LEMMA CapturedKeeps ==
    ASSUME RequestsInv, NEW news \in {"nothing", "wedged", "asked", "low"}, Captured(news)
    PROVE  RequestsInv'
  <1>1. syncInput' = [phase |-> "captured", changed |-> unannounced, news |-> news]
        /\ syncInput.phase = "none" /\ task.plan # "maintain"
    BY DEF Captured, RequestsInv, ControlOK
  <1>2. TypesOK'
    BY <1>1 DEF RequestsInv, TypesOK, Captured, InputRecords
  <1>3. ControlOK'
    BY <1>1 DEF RequestsInv, ControlOK, Captured
  <1>4. ChangesOK'
    BY <1>1 DEF RequestsInv, ChangesOK, NoLostChangeTracked, Renewed, Noted, Captured
  <1> QED BY <1>2, <1>3, <1>4, SameWork DEF RequestsInv, Captured

(* Losing the answer, or giving up, keeps the request. *)
LEMMA UnansweredKeeps == ASSUME RequestsInv, SendAgain \/ Abandon PROVE RequestsInv'
  <1>1. /\ reply' = NoAnswer /\ wire' \in {"sent", "idle"}
        /\ (wire' = "sent" => wire = "answered") /\ (task' = task \/ task' = NoTask)
        /\ (wire' = "idle" => task' = NoTask)
        /\ UNCHANGED <<server, unannounced, syncInput, olm, facts, request, known, tracked, sent,
                       minted, produced, missed, polling, alive>>
    BY DEF SendAgain, Abandon
  <1>2. DOMAIN reply'.versions = {}
    BY <1>1 DEF NoAnswer
  <1>3. TypesOK'
    BY <1>1, <1>2, NoTaskShape DEF RequestsInv, TypesOK
  <1>4. ControlOK'
    BY <1>1, <1>2, NoTaskShape DEF RequestsInv, ControlOK
  <1>5. ChangesOK'
    BY <1>1, <1>2 DEF RequestsInv, ChangesOK, NoLostChangeTracked, Renewed, Noted
  <1> QED BY <1>1, <1>3, <1>4, <1>5, SameWork DEF RequestsInv

(* Steps of the lock holder and of the runner that only move them on. *)
LEMMA MovingKeeps ==
    ASSUME RequestsInv, task' \in TaskRecords, ControlOK', wire' \in {"idle", "sent", "answered"},
           UNCHANGED <<server, unannounced, syncInput, olm, facts, request, known, tracked, reply,
                       sent, minted, produced, missed, alive>>
    PROVE  RequestsInv'
  <1>1. TypesOK'
    BY DEF RequestsInv, TypesOK
  <1>2. ChangesOK'
    BY DEF RequestsInv, ChangesOK, NoLostChangeTracked, Renewed, Noted
  <1> QED BY <1>1, <1>2, SameWork DEF RequestsInv

LEMMA RequestsStep == RequestsInv /\ [RequestsNext]_requestVars => RequestsInv'
  <1> SUFFICES ASSUME RequestsInv, [RequestsNext]_requestVars PROVE RequestsInv'
    OBVIOUS
  <1>1. CASE StartPoll
    <2>1. ControlOK'
      BY <1>1 DEF StartPoll, RequestsInv, ControlOK
    <2>2. task' \in TaskRecords /\ wire' \in {"idle", "sent", "answered"}
      BY <1>1 DEF StartPoll, RequestsInv, TypesOK
    <2> QED BY <1>1, <2>1, <2>2, MovingKeeps DEF StartPoll
  <1>2. CASE StartMaintain
    <2>1. task' \in TaskRecords /\ task'.step = "start" /\ task'.plan = "maintain"
      BY <1>2 DEF StartMaintain, NoTask, TaskRecords
    <2>2. syncInput.phase # "captured" /\ ~polling
      BY <1>2 DEF StartMaintain
    <2>3. ControlOK'
      BY <1>2, <2>1, <2>2 DEF StartMaintain, RequestsInv, ControlOK
    <2>4. wire' \in {"idle", "sent", "answered"}
      BY <1>2 DEF StartMaintain, RequestsInv, TypesOK
    <2> QED BY <1>2, <2>1, <2>3, <2>4, MovingKeeps DEF StartMaintain
  <1>3. ASSUME NEW plan \in {"query", "upload", "claim", "message", "sealed"}, NEW users \in SUBSET Users,
               NEW tx \in TransactionIds \cup {None}, ClientCall(plan, users, tx)
        PROVE  RequestsInv'
    <2>1. task' \in TaskRecords /\ task'.step = "start" /\ task'.plan = plan
      BY <1>3 DEF ClientCall, NoTask, TaskRecords
    <2>2. ControlOK'
      BY <1>3, <2>1 DEF ClientCall, RequestsInv, ControlOK
    <2>3. wire' \in {"idle", "sent", "answered"}
      BY <1>3 DEF ClientCall, RequestsInv, TypesOK
    <2> QED BY <1>3, <2>1, <2>2, <2>3, MovingKeeps DEF ClientCall
  <1>4. CASE FinishPending
    <2>1. PICK step \in {"own", "pending"} : wire' = "sent" /\ task' = [task EXCEPT !.step = step]
      BY <1>4 DEF FinishPending, SendAs
    <2>2. task' \in TaskRecords /\ task'.plan = task.plan
      BY <2>1 DEF RequestsInv, TypesOK, TaskRecords
    <2>3. alive /\ request # None /\ wire = "idle"
      BY <1>4 DEF FinishPending, Calling, Ready
    <2>4. ControlOK'
      BY <1>4, <2>1, <2>2, <2>3 DEF FinishPending, RequestsInv, ControlOK
    <2> QED BY <1>4, <2>1, <2>2, <2>4, MovingKeeps DEF FinishPending
  <1>5. CASE CallEnds
    <2>1. task' \in TaskRecords /\ task'.step = "start" /\ task'.plan = "none"
      BY <1>5, NoTaskShape DEF CallEnds
    <2>2. ControlOK'
      BY <1>5, <2>1 DEF CallEnds, RequestsInv, ControlOK
    <2>3. wire' \in {"idle", "sent", "answered"}
      BY <1>5 DEF CallEnds, RequestsInv, TypesOK
    <2> QED BY <1>5, <2>1, <2>2, <2>3, MovingKeeps DEF CallEnds
  <1>6. CASE UNCHANGED requestVars
    BY <1>6, MovingKeeps DEF requestVars, RequestsInv, TypesOK, ControlOK
  <1>7. ASSUME NEW users \in {{}} \cup {{u} : u \in Users}, ClientCall("query", users, None)
        PROVE  RequestsInv'
    <2>1. users \in SUBSET Users
      BY <1>7
    <2> QED BY <1>3, <1>7, <2>1
  <1>8. ASSUME NEW plan \in {"upload", "claim"}, ClientCall(plan, {}, None) PROVE RequestsInv'
    BY <1>3, <1>8
  <1>9. ASSUME NEW tx \in {None, MessageId}, ClientCall("message", {}, tx) PROVE RequestsInv'
    BY <1>3, <1>9 DEF TransactionIds
  <1>10. ASSUME NEW tx \in {None, SealedId}, ClientCall("sealed", {}, tx) PROVE RequestsInv'
    BY <1>3, <1>10 DEF TransactionIds
  <1> QED
    BY <1>1, <1>2, <1>4, <1>5, <1>6, <1>7, <1>8, <1>9, <1>10, ServerChangeKeeps, CapturedKeeps,
       PrepareKeeps, MaintainNextKeeps, MaintainEndsKeeps, CallStepKeeps, LookUpKeeps,
       KeyShareKeeps, AnswerKeeps, UnansweredKeeps, ReceiveKeeps, CrashKeeps, RestoreKeeps
    DEF RequestsNext

LEMMA RequestsInitial == RequestsInit => RequestsInv
  <1> SUFFICES ASSUME RequestsInit PROVE RequestsInv
    OBVIOUS
  <1>1. NoWork \in WorkRecords /\ NoWork.messages = <<>> /\ NoWork.dirty = {}
    <2>1. <<>> \in Seq(MessageRecords)
      OBVIOUS
    <2> QED BY <2>1 DEF NoWork, WorkRecords
  <1>2. NoInput \in InputRecords /\ NoInput.phase = "none" /\ DOMAIN NoAnswer.versions = {}
    BY DEF NoInput, InputRecords, NoAnswer
  <1>3. TypesOK
    BY <1>1, <1>2, NoTaskShape, CryptoRequestsAssumption DEF RequestsInit, TypesOK
  <1>4. ControlOK
    BY <1>2, NoTaskShape DEF RequestsInit, ControlOK
  <1>5. ChangesOK
    <2>1. \A u \in Users : ~(known[u] \in 1..(server[u] - 1))
      BY DEF RequestsInit
    <2> QED BY <1>2, <2>1 DEF RequestsInit, ChangesOK, NoLostChangeTracked
  <1>6. WorkOK(NoWork, 0, {}) /\ AllRetained(NoWork)
    BY <1>1 DEF WorkOK, AllRetained
  <1>7. MessagesOK
    BY <1>1, <1>6 DEF RequestsInit, MessagesOK, SentOK, OneTransaction
  <1> QED BY <1>3, <1>4, <1>5, <1>7 DEF RequestsInv

FlagsOK == session \in BOOLEAN /\ due \in BOOLEAN /\ polling \in BOOLEAN /\ alive \in BOOLEAN

LEMMA FlagsStep == FlagsOK /\ [RequestsNext]_requestVars => FlagsOK'
  <1> SUFFICES ASSUME FlagsOK, [RequestsNext]_requestVars PROVE FlagsOK'
    OBVIOUS
  <1>1. CASE Receive
    <2>1. session' = (session \/ (request.kind = "claim" /\ reply.ok))
      BY <1>1, Zenon DEF Receive
    <2>2. session' \in BOOLEAN
      BY <2>1, Zenon
    <2> QED BY <1>1, <2>2, Zenon DEF Receive, FlagsOK
  <1>2. CASE Restore
    <2>1. due' = (facts.wedged \/ facts.asked = "waiting")
      BY <1>2, Zenon DEF Restore
    <2>2. due' \in BOOLEAN
      BY <2>1, Zenon
    <2> QED BY <1>2, <2>2, Zenon DEF Restore, FlagsOK
  <1>3. CASE UNCHANGED <<session, due, polling, alive>>
    BY <1>3, Zenon DEF FlagsOK
  <1>4. CASE StartPoll \/ StartMaintain \/ CryptoCrash
    BY <1>4, Zenon DEF StartPoll, StartMaintain, CryptoCrash, FlagsOK
  <1>5. ASSUME NEW cancel \in BOOLEAN, ChangeKeyShare(cancel) PROVE FlagsOK'
    BY <1>5, Zenon DEF ChangeKeyShare, FlagsOK
  <1>6. ASSUME NEW news \in {"nothing", "wedged", "asked", "low"}, Captured(news) PROVE FlagsOK'
    BY <1>6, Zenon DEF Captured, FlagsOK
  <1>7. CASE Prepare \/ MaintainNext \/ MaintainEnds \/ FinishPending \/ CallStep \/ CallEnds
             \/ SendAgain \/ Abandon
    BY <1>3, <1>7
    DEF Prepare, MaintainNext, MaintainEnds, FinishPending, CallStep, CallEnds, SendAgain, Abandon
  <1>8. CASE \E u \in Users : ServerChange(u)
    BY <1>3, <1>8 DEF ServerChange
  <1>9. ASSUME NEW plan, NEW users, NEW tx, ClientCall(plan, users, tx) PROVE FlagsOK'
    BY <1>3, <1>9 DEF ClientCall
  <1>10. ASSUME NEW users, LookUpMembers(users) PROVE FlagsOK'
    BY <1>3, <1>10 DEF LookUpMembers
  <1>11. ASSUME NEW users, NEW ok, ServerAnswers(users, ok) PROVE FlagsOK'
    BY <1>3, <1>11 DEF ServerAnswers
  <1>12. CASE UNCHANGED requestVars
    BY <1>3, <1>12 DEF requestVars
  <1> QED
    BY <1>1, <1>2, <1>4, <1>5, <1>6, <1>7, <1>8, <1>9, <1>10, <1>11, <1>12, Zenon DEF RequestsNext

-----------------------------------------------------------------------------
(* The results *)

(* A change of a stored device list is always on its way to be fetched: no *)
(* interleaving of sync, queries, lost answers and crashes drops it, but   *)
(* for users sync did not track yet (_update_olm_sync_state, enqueue_query, *)
(* apply, capture).                                                        *)
THEOREM ChangesFetched == RequestsSpec => []NoLostChangeTracked
  <1>1. RequestsInv => NoLostChangeTracked
    BY DEF RequestsInv, ChangesOK
  <1> QED BY <1>1, RequestsInitial, RequestsStep, PTL DEF RequestsSpec

(* What is retained is consistent wherever the process dies: a message is  *)
(* sent under one transaction id for good, and a retained request finds    *)
(* its message (_retain_messages, enqueue_message, apply, restore).        *)
THEOREM RetainedConsistent == RequestsSpec => []RequestsConsistent
  <1>1. RequestsInv /\ FlagsOK => RequestsConsistent
    <2> SUFFICES ASSUME RequestsInv, FlagsOK PROVE RequestsConsistent
      OBVIOUS
    <2>1. DOMAIN facts.messages = 1..Len(facts.messages)
      BY DEF RequestsInv, TypesOK, WorkRecords
    <2>2. OneTransaction /\ RequestHasMessage
      BY <2>1 DEF RequestsInv, MessagesOK, SentOK, Holds, RequestHasMessage
    <2>3. Unretained(facts) = {}
      BY <2>1 DEF RequestsInv, MessagesOK, AllRetained, Unretained
    <2>4. {session, due, polling, alive} \subseteq BOOLEAN
      BY Zenon DEF FlagsOK
    <2>5. RequestsTypeOK
      BY <2>3, <2>4 DEF RequestsInv, TypesOK, ControlOK, RequestsTypeOK
    <2> QED BY <2>2, <2>5 DEF RequestsConsistent
  <1>2. RequestsInit => FlagsOK
    BY Zenon DEF RequestsInit, FlagsOK
  <1> QED BY <1>1, <1>2, RequestsInitial, RequestsStep, FlagsStep, PTL DEF RequestsSpec

=============================================================================
