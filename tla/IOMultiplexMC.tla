---------------------------- MODULE IOMultiplexMC ----------------------------
(* Instances of IOMultiplex for TLC.                                       *)
EXTENDS IOMultiplex

Plan(kinds) == [k \in FaultKinds |-> IF k \in kinds THEN 1 ELSE 0]

\* Any one fault; there is no accept mutex, and no value of tcpmain is a fault here.
OneFault == {Plan({k}) : k \in FaultKinds \ {"semop", "tcpmain"}}

\* Only the death of a worker, once.
OneWorkerDies == {Plan({"worker"})}
=============================================================================
