-------------------------- MODULE LeaderFollowerMC --------------------------
(* Instances of LeaderFollower for TLC.                                    *)
EXTENDS LeaderFollower

Plan(kinds) == [k \in FaultKinds |-> IF k \in kinds THEN 1 ELSE 0]

\* Any one fault.
OneFault == {Plan({k}) : k \in FaultKinds}

\* Or a release of what is not held, for either reason, and a fault that it may make worse.
OneFaultOrTwo == OneFault \cup {Plan({"semop", "fork"}), Plan({"tcpmain", "worker"})}

\* Only tcpmain returning another value than CLOSE, once.
OneErrorReturn == {Plan({"tcpmain"})}

\* Only the manager being killed, once.
ManagerKilledOnce == {Plan({"manager"})}
=============================================================================
