---------------------------- MODULE PoliciesAtWork ----------------------------
(***************************************************************************)
(* The Policy controller at work: its CRs, one worker per CR, the          *)
(* informer, the users, the canned policies and the other clients of S3.   *)
(***************************************************************************)
EXTENDS PolicyController, LoopInvariant

WorkerStep(k) == PolicyStep(k) \/ (LoopStep(k) /\ UNCHANGED policyVars)

EnvironmentStep(k) == (Deliver(k) \/ UserStep(k)) /\ UNCHANGED policyVars

Restart == Crash /\ UNCHANGED policyVars

Next ==
    \/ \E k \in Keys : WorkerStep(k) \/ EnvironmentStep(k)
    \/ \E n \in PolicyNames : Tamper(n)
    \/ Restart

Spec == PolicyInit /\ [][Next]_vars

\* As for buckets: the workers and the watch keep running.
Fairness == \A k \in Keys : /\ WF_vars(WorkerStep(k))
                            /\ WF_vars(Deliver(k) /\ UNCHANGED policyVars)

FairSpec == Spec /\ Fairness

-----------------------------------------------------------------------------
(* Properties *)

Untouched == tampers = MaxTampers

PolicyApplied(k) ==
    LET p == policies[Stored(k).spec.name]
    IN  p # None /\ p.content = Stored(k).spec.content

\* As long as nobody else changes a policy, a Policy CR that says "Reconciled"
\* of its current generation has its content on S3, although the policy is read
\* twice, compared as bytes, and written with the spec of a cached copy.
PolicyIsAsReconciled ==
    Untouched => \A k \in Keys : ReconciledNow(k) => PolicyApplied(k)

\* With policyDeletionEnabled, a policy only CRs write does not outlive them,
\* whatever fails between DeletePolicy and the finalizer removal.
NoOrphanPolicy ==
    Untouched =>
        \A n \in PolicyNames :
            policies[n] # None => \E k \in Keys : Held(k) /\ Stored(k).spec.name = n

\* The controller writes a policy only for a CR that is stored with the
\* finalizer at that moment.
PolicyOnlyWhileHeld ==
    [][\A n \in PolicyNames :
         (policies'[n] # policies[n] /\ policies'[n] # None /\ tampers' = tampers)
           => \E k \in Keys : pc[k] # "Idle" /\ Wanted(k).name = n /\ Held(k)]_vars

\* The CR k and its policy, seen as a ManagedResource (one policy name per CR).
NameOf(k) == (CHOOSE s \in Specs[k] : TRUE).name

Protocol == INSTANCE ManagedResource
              WITH DeletionEnabled <- PolicyDeletionEnabled,
                   Recreates       <- FALSE,
                   stage   <- [k \in Keys |-> Stage(k)],
                   present <- [k \in Keys |-> policies[NameOf(k)] # None]

\* The Policy controller implements that protocol for each of its CRs.
ImplementsManagedResource == Protocol!Spec

\* It does so in each step up to the first change of a policy by somebody else.
ManagedWhileUntouched ==
    /\ Protocol!Init
    /\ [][Untouched' => [Protocol!Next]_<<[k \in Keys |-> Stage(k)],
                                         [k \in Keys |-> policies[NameOf(k)] # None]>>]_vars

\* With a reconcile period a Policy CR with a valid content ends up with it on
\* S3 and saying so, even if its policy vanished between the two reads of a
\* reconciliation, which makes the worker panic.
PolicyConverges ==
    \A k \in Keys :
        <>[](\/ Terminating(k)
             \/ Stored(k).spec.content = NotJson
             \/ ReconciledNow(k) /\ PolicyApplied(k))

\* A Policy CR that is being deleted goes away unless its policy stays attached:
\* DeletePolicy, unlike DeleteBucket, can be retried after it succeeded.
PolicyDeletionCompletes ==
    \A k \in Keys :
        \/ (Stored(k) # None /\ Stored(k).del) ~> (Stored(k) = None)
        \/ \E n \in PolicyNames : <>[](policies[n] # None /\ policies[n].attached)

-----------------------------------------------------------------------------
(* The inductive invariants behind these properties *)

ProvisionLabels == {"Handle"} \cup PolicyLabels

DeletingLabels == {"Finalize", "RemoveFinalizer"}

IInv ==
    /\ LoopIInv(Labels, ProvisionLabels, DeletingLabels)
    /\ PolicyTypeOK

\* Every Policy CR has a policy of its own, although it may be renamed.
OnePolicyEach ==
    \A k, l \in Keys : \A s \in Specs[k], t \in Specs[l] : s.name = t.name => k = l

\* No user renames the policy of a CR.
PolicyNamesAreKept == \A k \in Keys : \A s, t \in Specs[k] : s.name = t.name

\* What the worker is about to call reconciled is on S3.
AppliedInv ==
    Untouched =>
        /\ PolicyIsAsReconciled
        /\ \A k \in Keys : pc[k] = "SetStatus" /\ out[k].reason = "Reconciled" =>
             Effective(k) # None /\ Effective(k).content = Wanted(k).content

\* A policy has a CR whose worker has not deleted it.
OrphanPolicyInv ==
    Untouched =>
        \A n \in PolicyNames :
            policies[n] # None => \E k \in Keys : /\ Held(k) /\ Stored(k).spec.name = n
                                                /\ pc[k] # "RemoveFinalizer"

PoliciesInv == AppliedInv /\ OrphanPolicyInv

=============================================================================
