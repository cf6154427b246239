---------------------------- MODULE BatchStream ----------------------------
(***************************************************************************)
(* What a durable store promises its two users, with no transaction, cache *)
(* or crash in sight: the session adds batches together with every other   *)
(* row it changes, in one step, under numbers never issued before; the     *)
(* consumer is shown the oldest batch until it acknowledges exactly that   *)
(* batch, and an acknowledgement changes nothing else.                     *)
(***************************************************************************)
EXTENDS Integers

CONSTANT NoRows     \* the rows of a store no session has adopted

VARIABLES queue,    \* sequence number -> batch, not yet acknowledged
          acked,    \* highest acknowledged number
          issued,   \* highest number ever issued
          rows,     \* every other durable row, as one value
          handed    \* history: every <<number, batch>> shown to the consumer

vars == <<queue, acked, issued, rows, handed>>

Oldest(n) == n \in DOMAIN queue /\ \A m \in DOMAIN queue : n <= m

Init ==
    /\ DOMAIN queue = {}
    /\ acked = 0 /\ issued = 0
    /\ rows = NoRows
    /\ handed = {}

Transact ==
    /\ \A n \in DOMAIN queue : n \in DOMAIN queue' /\ queue'[n] = queue[n]
    /\ \A n \in DOMAIN queue' \ DOMAIN queue : issued < n /\ n <= issued'
    /\ issued <= issued'
    /\ UNCHANGED <<acked, handed>>

Deliver ==
    /\ \E n \in DOMAIN queue : Oldest(n) /\ handed' = handed \cup {<<n, queue[n]>>}
    /\ UNCHANGED <<queue, acked, issued, rows>>

Acknowledge ==
    /\ \E n \in DOMAIN queue :
        /\ Oldest(n)
        /\ queue' = [m \in DOMAIN queue \ {n} |-> queue[m]]
        /\ acked' = n
    /\ UNCHANGED <<issued, rows, handed>>

Next == Transact \/ Deliver \/ Acknowledge

Spec == Init /\ [][Next]_vars
=============================================================================
