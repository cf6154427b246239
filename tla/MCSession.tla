----------------------------- MODULE MCSession -----------------------------
(***************************************************************************)
(* Crypto requests, room encryption, publication and the life cycle of a   *)
(* durable session, each on a small instance of its own: a behaviour runs  *)
(* the part chosen at the start.                                           *)
(***************************************************************************)
EXTENDS CryptoRequests, GroupSession, Publication, SessionLifecycle

CONSTANTS
    u1, ann, sender1, sender2, closer1,
    Parts           \* the parts this run looks at

VARIABLE part

sessionVars == <<part, requestVars, groupVars, publicationVars, lifecycleVars>>

(* A part that is not looked at stays in one of its initial states. *)
SessionInit ==
    /\ part \in Parts
    /\ RequestsInit /\ GroupInit /\ PublicationInit /\ LifecycleInit
    /\ part # "group" => roster = <<{}>> /\ membersSynced
    /\ part # "lifecycle" => captured = "none" /\ waitingBatches = 0

SessionNext ==
    /\ UNCHANGED part
    /\ \/ part = "crypto" /\ RequestsNext
       \/ part = "group" /\ GroupNext
       \/ part = "publication" /\ PublicationNext
       \/ part = "lifecycle" /\ LifecycleNext
    /\ part # "crypto" => UNCHANGED requestVars
    /\ part # "group" => UNCHANGED groupVars
    /\ part # "publication" => UNCHANGED publicationVars
    /\ part # "lifecycle" => UNCHANGED lifecycleVars

(* Requests are answered or fail, and the session's tasks run; a lock that *)
(* others may take in between is fair in the strong sense.                 *)
CryptoFairness ==
    /\ WF_requestVars(part = "crypto" /\ RequestsProgress)
    /\ WF_requestVars(part = "crypto" /\ StartPoll)
    /\ WF_requestVars(part = "crypto" /\ Captured("nothing"))

GroupFairness ==
    /\ SF_groupVars(part = "group" /\ FinishPending2)
    /\ \A s \in Senders :
        /\ WF_groupVars(part = "group" /\ SenderProgress(s))
        /\ SF_groupVars(part = "group" /\ (ShareMembers(s) \/ ShareStart(s)))

(* The tasks of a session run, the consumer drains and requests end. *)
LifecycleFairness ==
    /\ WF_lifecycleVars(part = "lifecycle" /\ (RunnerSteps \/ (\E c \in Closers : CloseEnds(c))))
    /\ WF_lifecycleVars(part = "lifecycle" /\ (WaitForWork \/ AckBatch))
    /\ WF_lifecycleVars(part = "lifecycle" /\ WaitForRoomReady)
    /\ WF_lifecycleVars(part = "lifecycle" /\ (Drained \/ LeaveSource))

SessionSpec ==
    /\ SessionInit /\ [][SessionNext]_sessionVars
    /\ CryptoFairness /\ GroupFairness /\ LifecycleFairness

=============================================================================
