---------------------------- MODULE ManagedResource ----------------------------
(***************************************************************************)
(* What a controller promises about each CR and the S3 resource it names,  *)
(* whatever the cache, the conflicts, the failures and the restarts: the   *)
(* resource is made only under the finalizer, it is removed only for a CR  *)
(* being deleted, or to be made again, and the CR goes away only after it  *)
(* was removed.                                                            *)
(***************************************************************************)
CONSTANTS
    Keys,
    DeletionEnabled,  \* the CR takes its resource with it
    Recreates         \* a resource the CR cannot use is removed and made again

VARIABLES
    stage,   \* stage[k]: of the CR k
    present  \* present[k]: its S3 resource exists

Init ==
    /\ stage = [k \in Keys |-> "absent"]
    /\ present = [k \in Keys |-> FALSE]

Move(k, from, to) ==
    /\ stage[k] = from
    /\ stage' = [stage EXCEPT ![k] = to]
    /\ UNCHANGED present

Declare(k) == Move(k, "absent", "declared")

Withdraw(k) == Move(k, "declared", "absent")

Hold(k) == Move(k, "declared", "held")

Terminate(k) == Move(k, "held", "terminating")

\* A reconciliation that started before the deletion may still provision.
Provision(k) ==
    /\ stage[k] \in {"held", "terminating"}
    /\ present' = [present EXCEPT ![k] = TRUE]
    /\ UNCHANGED stage

Deprovision(k) ==
    /\ \/ DeletionEnabled /\ stage[k] = "terminating"
       \/ Recreates /\ stage[k] \in {"held", "terminating"}
    /\ present' = [present EXCEPT ![k] = FALSE]
    /\ UNCHANGED stage

Release(k) ==
    /\ DeletionEnabled => ~present[k]
    /\ Move(k, "terminating", "absent")

Next ==
    \E k \in Keys : \/ Declare(k) \/ Withdraw(k) \/ Hold(k) \/ Terminate(k)
                    \/ Provision(k) \/ Deprovision(k) \/ Release(k)

Spec == Init /\ [][Next]_<<stage, present>>

\* What the protocol is for: with deletion enabled, an S3 resource never
\* outlives the CR that made it.
NoOrphan ==
    DeletionEnabled =>
        \A k \in Keys : present[k] => stage[k] \in {"held", "terminating"}

=============================================================================
