------------------------- MODULE MCKeyVerification -------------------------
(***************************************************************************)
(* Small instances of KeyVerification.                                     *)
(***************************************************************************)
EXTENDS KeyVerification

CONSTANTS alice, bob

BothDevices == {alice, bob}

(* only alice starts a verification, or each of them may *)
AliceOnly == [d \in BothDevices |-> IF d = alice THEN 1 ELSE 0]
Each == [d \in BothDevices |-> 1]

(* the second object of bob is for a repeated start *)
OneAndTwo == [d \in BothDevices |-> IF d = alice THEN 1 ELSE 2]

Current == {{"v1", "v2"}}
OldAndCurrent == {{}, {"v1"}, {"v1", "v2"}}

DeviceKey == {{"device"}}
DeviceAndOthers == {{"device", "other"}}

=============================================================================
