---------------------------- MODULE InstancesAtWork ----------------------------
(***************************************************************************)
(* S3Instances and the CRs that depend on them at work: one worker per CR, *)
(* one informer per kind, the people who write the CRs and the secrets of  *)
(* the S3Instances.                                                        *)
(***************************************************************************)
EXTENDS InstanceController, LoopInvariant

WorkerStep(k) == InstanceStep(k) \/ (LoopStep(k) /\ UNCHANGED instanceVars)

DeliverCR(k) == Deliver(k) /\ UNCHANGED instanceVars

Next ==
    \/ \E k \in Keys : WorkerStep(k) \/ DeliverCR(k) \/ (UserStep(k) /\ UNCHANGED instanceVars)
    \/ \E i \in InstanceKeys : SecretAppears(i) \/ SecretDisappears(i)
    \/ Restart

Spec == InstanceInit /\ [][Next]_vars

\* The workers and the watches keep running.
Fairness == \A k \in Keys : WF_vars(WorkerStep(k)) /\ WF_vars(DeliverCR(k))

FairSpec == Spec /\ Fairness

-----------------------------------------------------------------------------
(* Properties *)

\* S3InstanceRef of a stored CR d is i.
Uses(d, i) == Stored(d) # None /\ RefersTo(d, Stored(d), i)

\* Some way to fill in the stars at the ends of p gives ns.
Matches(p, ns) ==
    \E m, n \in 0..Len(ns) : \* ns from m + 1 to n stands in p as it is
        LET literal == SubSeq(ns, m + 1, n)
        IN  \/ m = 0 /\ n = Len(ns) /\ p = literal
            \/ m = 0 /\ p = literal \o <<Star>>
            \/ n = Len(ns) /\ p = <<Star>> \o literal
            \/ p = <<Star>> \o literal \o <<Star>>

\* README.md:160: "Wildcard prefix/suffix allowed. If empty only the same
\* namespace as s3instance is allowed".
Open(i, o, ns) ==
    IF o.spec.allowed = <<>> THEN ns = Id[i].namespace
    ELSE \E n \in DOMAIN o.spec.allowed : Matches(o.spec.allowed[n], ns)

\* A CR comes to "Reconciled", and its finalizer to its end, only through an
\* S3Instance that is in the cache, open to its namespace, and was found to
\* work, whatever its owner changes of it at that time.
OnlyThroughOpenInstances ==
    [][\A d \in Dependents :
         (/\ pc[d] \in {"Handle", "Finalize"}
          /\ \/ pc'[d] = "RemoveFinalizer"
             \/ out'[d].reason = "Reconciled")
           => \E i \in InstanceKeys : /\ RefersTo(d, res[d], i)
                                      /\ Cached(i) # None
                                      /\ Open(i, Cached(i), Id[d].namespace)
                                      /\ Cached(i).cond.status = "True"]_vars

\* The count of references before an S3Instance is let go finds each CR with a
\* finalizer that needs it, though it counts in caches: a finalizer is only there
\* when the operator has seen the CR.  (One that gets its finalizer after its
\* kind is counted is not found.)
CountSeesEveryHolder ==
    [][\A i \in InstanceKeys : \A kind \in Kinds :
         (/\ pc[i] = "Finalize"
          /\ kind \in unlisted[i]
          /\ \/ pc'[i] = "RemoveFinalizer"
             \/ kind \notin unlisted'[i])
           => ~\E d \in Dependents : KindOf[d] = kind /\ Held(d) /\ Uses(d, i)]_vars

\* An S3Instance that does not say "Reconciled", and never will: it is deleted, so that
\* its connection is not tried again, or a retry found an older copy that said so and
\* wrote nothing (FailureIsRetried is false, as the run BucketRetry shows of a Bucket).
LeftUnready(i) ==
    /\ Stored(i).cond.reason # "Reconciled"
    /\ Stored(i).del \/ (Stored(i).cond.status = "False" /\ ~Pending(i))

\* A CR waits for others: a dependent as long as its S3Instance is not there, not
\* open to its namespace, without secrets or left unready; an S3Instance as long as
\* it has no secrets, or is deleted while CRs refer to it.
Blocked(k) ==
    IF k \in Dependents
    THEN ~\E i \in InstanceKeys : /\ Uses(k, i)
                                 /\ Stored(i) # None
                                 /\ i \in access
                                 /\ ~LeftUnready(i)
                                 /\ Open(i, Stored(i), Id[k].namespace)
    ELSE IF Stored(k).del THEN \E d \in Dependents : Uses(d, k) ELSE k \notin access

\* Whatever order CRs, S3Instances and secrets are made and deleted in, and with
\* no reconcile period, every CR that is not blocked for ever goes away if it is
\* deleted and otherwise comes to rest, which it does only when it is reconciled
\* without error.
ComesToRest ==
    <>[](\A k \in Keys : \/ Stored(k) = None
                         \/ ~Stored(k).del /\ ~Pending(k)
                         \/ Blocked(k))

-----------------------------------------------------------------------------
(* The inductive invariant behind the safety properties *)

ProvisionLabels == {"Handle"} \cup InstanceLabels

DeletingLabels == {"Finalize", "RemoveFinalizer"}

IInv ==
    /\ InstanceTypeOK
    /\ \A k \in Keys : LoopInv(k, ProvisionLabels, DeletingLabels) /\ ReportInv(k)

=============================================================================
