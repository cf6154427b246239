---------------------------- MODULE Publication ----------------------------
(***************************************************************************)
(* How observations become batches of bounded size                         *)
(* (src/nio/durable/processor.py consume; src/nio/durable/client.py        *)
(* _publish_records; its call in src/nio/durable/outbound.py _send):       *)
(* buffering, flushing before and after a membership record, splitting by  *)
(* count and by bytes, and the bound on what waits for the consumer.       *)
(*                                                                         *)
(* A record is its encoded size, whether it is a barrier (a membership     *)
(* change or member event) and its place among the items.                  *)
(***************************************************************************)
EXTENDS Common, Naturals, Sequences, SequencesExt

CONSTANTS
    RecordSizes,        \* encoded sizes of single records
    MaxBatchRecords,    \* config.max_batch_records
    MaxBatchBytes,      \* config.max_batch_bytes
    MaxPendingBytes,    \* config.max_pending_bytes
    MaxItems            \* bound: items of one consume

ASSUME PublicationAssumption ==
    /\ RecordSizes \subseteq Nat \ {0}
    /\ {MaxBatchRecords, MaxBatchBytes, MaxPendingBytes} \subseteq Nat \ {0}
    /\ MaxItems \in Nat

VARIABLES
    queued,             \* encoded sizes of the unacknowledged batches
    consumed            \* the consume of the running transaction: its items, whether
                        \* it may stop at an oversized record, the result; or None

publicationVars == <<queued, consumed>>

SumOf(sizes) == FoldLeft(LAMBDA total, n : total + n, 0, sizes)

(* encode_records: the records and the brackets around them. *)
Encoded(records) == 1 + FoldLeft(LAMBDA total, r : total + r.size, 0, records)

(* An error ends the publication for good, so nothing follows it. *)
RECURSIVE PublishRecords(_, _)
PublishRecords(records, out) ==
    LET size == Encoded(records)
        many == Len(records) > MaxBatchRecords
        middle == IF many THEN MaxBatchRecords ELSE Len(records) \div 2
    IN  IF out.refused THEN out
        ELSE IF many \/ (size > MaxBatchBytes /\ Len(records) > 1)
        THEN PublishRecords(SubSeq(records, middle + 1, Len(records)),
                            PublishRecords(SubSeq(records, 1, middle), out))
        ELSE IF size > MaxBatchBytes \/ out.bytes + size > MaxPendingBytes
        THEN [out EXCEPT !.refused = TRUE]
        ELSE [out EXCEPT !.bytes = @ + size, !.batches = Append(@, records)]

(* flush, with the count of bytes carried from one flush to the next. *)
FlushUncounted(acc) ==
    IF acc.records = <<>> THEN acc
    ELSE [acc EXCEPT !.records = <<>>,
                     !.out = [PublishRecords(acc.records, acc.out) EXCEPT !.bytes = acc.out.bytes]]
Flush(acc) ==
    IF acc.records = <<>> THEN acc
    ELSE [acc EXCEPT !.records = <<>>, !.out = PublishRecords(acc.records, acc.out)]

(* One item of the loop of consume. *)
ConsumeItem(acc, r, stop) ==
    LET flushed == IF r.barrier THEN Flush(acc) ELSE acc
        added == [flushed EXCEPT !.records = Append(@, r)]
    IN  IF acc.stopped \/ acc.out.refused THEN acc
        ELSE IF stop /\ Encoded(<<r>>) > MaxBatchBytes THEN [acc EXCEPT !.stopped = TRUE]
        ELSE IF r.barrier \/ Len(added.records) >= MaxBatchRecords THEN Flush(added)
        ELSE added

StartCount == [refused |-> FALSE, bytes |-> SumOf(queued), batches |-> <<>>]

(* A transaction that publishes: an error undoes all of it. *)
Published(items, stop, out) ==
    /\ consumed = None
    /\ consumed' = [items |-> items, stop |-> stop, before |-> SumOf(queued),
                    refused |-> out.refused,
                    batches |-> IF out.refused THEN <<>> ELSE out.batches]
    /\ queued' = IF out.refused THEN queued
                 ELSE queued \o [i \in DOMAIN out.batches |-> Encoded(out.batches[i])]

Consume(items, stop) ==
    LET start == [records |-> <<>>, stopped |-> FALSE, out |-> StartCount]
        end == Flush(FoldLeft(LAMBDA acc, r : ConsumeItem(acc, r, stop), start, items))
    IN  Published(items, stop, end.out)

(* The to-device events of a crypto response, published in one call. *)
PublishObservations(items) ==
    /\ items # <<>> /\ \A i \in DOMAIN items : ~items[i].barrier
    /\ Published(items, FALSE, PublishRecords(items, StartCount))

EndTransaction == consumed # None /\ consumed' = None /\ UNCHANGED queued

(* The consumer acknowledges the oldest batch. *)
AckOldest ==
    /\ consumed = None /\ queued # <<>>
    /\ queued' = Tail(queued) /\ UNCHANGED consumed

PublicationInit == queued = <<>> /\ consumed = None

PublicationNext ==
    \/ AckOldest \/ EndTransaction
    \/ \E n \in 0..MaxItems :
       \E sizes \in [1..n -> RecordSizes], barriers \in SUBSET (1..n) :
            LET items == [i \in 1..n |-> [size |-> sizes[i], barrier |-> i \in barriers, at |-> i]]
            IN  \/ \E stop \in BOOLEAN : Consume(items, stop)
                \/ PublishObservations(items)

Oversized(r) == Encoded(<<r>>) > MaxBatchBytes

(* The records before the first oversized one. *)
Prefix(items) ==
    SelectSeq(items, LAMBDA r : \A i \in 1..r.at : ~Oversized(items[i]))

(* Every record is published, in order, or none is; where the consumer of  *)
(* a page allows it, exactly those before an oversized one are.            *)
PublishedInOrder ==
    consumed # None /\ ~consumed.refused =>
        FlattenSeq(consumed.batches)
            = IF consumed.stop THEN Prefix(consumed.items) ELSE consumed.items

(* Every batch has records and keeps to the limits, alone or with what     *)
(* still waits, and a membership record has a batch of its own.            *)
BatchesBounded ==
    /\ SumOf(queued) <= MaxPendingBytes
    /\ consumed # None =>
        \A i \in DOMAIN consumed.batches : LET b == consumed.batches[i] IN
            /\ Len(b) \in 1..MaxBatchRecords /\ Encoded(b) <= MaxBatchBytes
            /\ (\E j \in DOMAIN b : b[j].barrier) => Len(b) = 1

(* An oversized record, or too much waiting if each record took a batch of *)
(* its own, is the only reason to refuse.                                  *)
RefusedForSize ==
    consumed # None /\ consumed.refused =>
        \/ ~consumed.stop /\ \E i \in DOMAIN consumed.items : Oversized(consumed.items[i])
        \/ consumed.before + SumOf([i \in DOMAIN consumed.items |-> consumed.items[i].size + 1])
            > MaxPendingBytes

(* Publication splits and bounds without losing, reordering or needlessly  *)
(* refusing anything.                                                      *)
PublicationRight == PublishedInOrder /\ BatchesBounded /\ RefusedForSize
=============================================================================
