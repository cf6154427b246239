------------------------------ MODULE MCClient ------------------------------
(***************************************************************************)
(* The parts of a client that do not share state, each on a small instance *)
(* of its own: a behaviour runs the part chosen at the start.              *)
(***************************************************************************)
EXTENDS OlmMachine, MegolmEvents, Requests, Uploads, Procedures, Rooms, SyncLoop,
        SlidingSource, CrossSigning

CONSTANTS
    own1, own2, megolm1, key1, key2, x, y, m1, m2, n1, loop, app,
    Parts           \* the parts this run looks at

VARIABLE part

clientVars == <<part, machineVars, megolmVars, sendVars, uploadVars,
                procedureVars, roomsVars, syncLoopVars, slidingVars,
                crossSigningVars>>

AllOps == DOMAIN Ops

(* A part that is not looked at stays in one of its initial states. *)
ClientInit ==
    /\ part \in Parts
    /\ MachineInit /\ MegolmInit /\ SendInit /\ UploadInit
    /\ ProcedureInit /\ RoomsInit /\ SyncLoopInit /\ SlidingInit /\ CrossSigningInit
    /\ part # "megolm" => chain
    /\ part # "requests" => token /\ loaded
    /\ part # "uploads" => place = 0
    /\ part # "procedures" => canonical[OldRoom] = None
    /\ part # "rooms" => founders = {}
    /\ part # "signing" => hasKeys = {}

ClientNext ==
    /\ UNCHANGED part
    /\ \/ part = "machine" /\ MachineNext
       \/ part = "megolm" /\ MegolmNext
       \/ part = "requests" /\ SendNext
       \/ part = "uploads" /\ UploadNext
       \/ part = "procedures" /\ ProcedureNext
       \/ part = "rooms" /\ RoomsNext
       \/ part = "syncing" /\ SyncLoopNext
       \/ part = "sliding" /\ SlidingNext
       \/ part = "signing" /\ CrossSigningNext
    /\ part # "machine" => UNCHANGED machineVars
    /\ part # "megolm" => UNCHANGED megolmVars
    /\ part # "requests" => UNCHANGED sendVars
    /\ part # "uploads" => UNCHANGED uploadVars
    /\ part # "procedures" => UNCHANGED procedureVars
    /\ part # "rooms" => UNCHANGED roomsVars
    /\ part # "syncing" => UNCHANGED syncLoopVars
    /\ part # "sliding" => UNCHANGED slidingVars
    /\ part # "signing" => UNCHANGED crossSigningVars

(* Polls are answered, and a retained response is handled. *)
SlidingFairness ==
    /\ WF_slidingVars(part = "sliding" /\ Poll)
    /\ WF_slidingVars(part = "sliding" /\ \E n \in {None} \cup 0..MaxTimeline : ReceiveWindow(n))
    /\ WF_slidingVars(part = "sliding" /\ HandleInput)

ClientSpec == ClientInit /\ [][ClientNext]_clientVars /\ SlidingFairness

=============================================================================
