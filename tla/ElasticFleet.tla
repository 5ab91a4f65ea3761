---------------------------- MODULE ElasticFleet ----------------------------
(***************************************************************************)
(* What an autoscaled cluster promises, without clocks, calls, snapshots   *)
(* or decisions: servers are added in steps of at most LargestStep and     *)
(* become active one by one, only an active server above the minimum is    *)
(* ever taken away, one at a time, and it drains before it is gone.        *)
(***************************************************************************)
EXTENDS Integers

CONSTANTS
    MinServers,     \* the cluster never has fewer active servers
    LargestStep     \* the most servers a single scaling adds

VARIABLES active, provisioning, draining

vars == <<active, provisioning, draining>>

Init ==
    /\ active \in Nat /\ active >= MinServers
    /\ provisioning = 0
    /\ draining = 0

Grow ==
    /\ \E n \in 1..LargestStep : provisioning' = provisioning + n
    /\ UNCHANGED <<active, draining>>

Activate ==
    /\ provisioning > 0
    /\ provisioning' = provisioning - 1
    /\ active' = active + 1
    /\ UNCHANGED draining

Shrink ==
    /\ active > MinServers
    /\ active' = active - 1
    /\ draining' = draining + 1
    /\ UNCHANGED provisioning

Terminate ==
    /\ draining > 0
    /\ draining' = draining - 1
    /\ UNCHANGED <<active, provisioning>>

Next == Grow \/ Activate \/ Shrink \/ Terminate

(* What has been started is carried through. *)
Fairness == WF_vars(Activate) /\ WF_vars(Terminate)

Spec == Init /\ [][Next]_vars

FairSpec == Spec /\ Fairness
=============================================================================
