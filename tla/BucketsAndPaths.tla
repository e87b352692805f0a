---------------------------- MODULE BucketsAndPaths ----------------------------
(***************************************************************************)
(* The Bucket and the Path controllers at work together: their CRs, one    *)
(* worker per CR, the informer, the users, the S3 server they share.       *)
(***************************************************************************)
EXTENDS BucketController, PathController, LoopInvariant

ASSUME KeysAreOfOneKind ==
    Keys = BucketKeys \cup PathKeys /\ BucketKeys \cap PathKeys = {}

Labels == LoopLabels \cup S3Labels \cup BucketLabels \cup PathLabels

TypeOK == LoopTypeOK(Labels) /\ S3TypeOK

Init == LoopInit /\ S3Init

WorkerStep(k) == \/ BucketStep(k)
                 \/ PathStep(k)
                 \/ LoopStep(k) /\ UNCHANGED s3Vars

EnvironmentStep(k) == (Deliver(k) \/ UserStep(k)) /\ UNCHANGED s3Vars

Next ==
    \/ \E k \in Keys : WorkerStep(k) \/ EnvironmentStep(k)
    \/ \E b \in BucketNames : Tamper(b)
    \/ Restart

Spec == Init /\ [][Next]_vars

\* The workers and the watch keep running; users, faults and others need not.
Fairness == \A k \in Keys : /\ WF_vars(WorkerStep(k))
                            /\ WF_vars(Deliver(k) /\ UNCHANGED s3Vars)

FairSpec == Spec /\ Fairness

-----------------------------------------------------------------------------
(* Properties *)

\* The bucket a spec names exists with its paths and, if the CR is a Bucket, with
\* one of these quotas.
SpecApplied(k, spec, quotas) ==
    LET b == buckets[spec.name]
    IN  /\ b # None
        /\ Elements(spec.paths) \subseteq b.objects
        /\ k \in BucketKeys => b.quota \in quotas

\* The stored spec is on S3, with the quota in effect: the override unless it is 0.
Applied(k) == SpecApplied(k, Stored(k).spec, {EffectiveQuota(Stored(k).spec)})

\* A condition that says "Reconciled" of the current generation is true: the
\* bucket exists with every path and the quota in effect.  The S3 calls are made
\* with the spec of a cached, possibly stale, copy, one by one, and any of them
\* may fail halfway; a Path CR relies on DeleteBucket refusing the bucket it put
\* its paths in.  Of a Bucket that is created with an override it is false until
\* something wakes up its CR: the run QuotaOverride shows it, the others and the
\* theorem leave overrides out.
ReconciledMeansApplied == \A k \in Keys : ReconciledNow(k) => Applied(k)

\* What S3 gains in a step: a bucket, objects or another quota.
Provisioned(b) ==
    /\ buckets'[b] # None
    /\ \/ buckets[b] = None
       \/ ~(buckets'[b].objects \subseteq buckets[b].objects)
       \/ buckets'[b].quota # buckets[b].quota

\* The operator provisions only for a CR that is stored with the finalizer at
\* that very moment, so that its deletion goes through handleDeletion: stale
\* reads after the finalizer write and renamed or shared buckets included.
ProvisionOnlyWhileHeld ==
    [][\A b \in BucketNames :
         (Provisioned(b) /\ tampers' = tampers)
           => \E k \in Keys : /\ pc[k] # "Idle"
                              /\ Wanted(k).name = b
                              /\ Held(k)]_vars

\* With bucketDeletionEnabled, a bucket only its CR writes to does not outlive
\* that CR, whatever fails between DeleteBucket and the finalizer removal.
NoOrphanBucket ==
    \A b \in BucketNames :
        buckets[b] # None => \E k \in BucketKeys : Held(k) /\ Stored(k).spec.name = b

\* With pathDeletionEnabled, the objects of a Path CR do not outlive it.
NoOrphanPath ==
    \A b \in BucketNames : buckets[b] # None =>
        \A p \in buckets[b].objects :
            \E k \in Keys : /\ Held(k)
                           /\ Stored(k).spec.name = b
                           /\ p \in Elements(Stored(k).spec.paths)

\* The CR k and its bucket, seen as a ManagedResource (one bucket name per CR).
NameOf(k) == (CHOOSE s \in Specs[k] : TRUE).name

Protocol == INSTANCE ManagedResource
              WITH Keys            <- BucketKeys,
                   DeletionEnabled <- BucketDeletionEnabled,
                   Recreates       <- FALSE,
                   stage   <- [k \in BucketKeys |-> Stage(k)],
                   present <- [k \in BucketKeys |-> buckets[NameOf(k)] # None]

\* The Bucket controller implements that protocol for each of its CRs.
ImplementsManagedResource == Protocol!Spec

\* The CR k and the objects of its paths, seen as one ManagedResource.
PathsExist(k) ==
    LET s == CHOOSE t \in Specs[k] : TRUE
    IN  /\ buckets[s.name] # None
        /\ Elements(s.paths) \cap buckets[s.name].objects # {}

PathProtocol == INSTANCE ManagedResource
                  WITH Keys            <- PathKeys,
                       DeletionEnabled <- PathDeletionEnabled,
                       Recreates       <- FALSE,
                       stage   <- [k \in PathKeys |-> Stage(k)],
                       present <- [k \in PathKeys |-> PathsExist(k)]

\* So does the Path controller, as long as reads of S3 do not fail: the first of
\* its paths is put under the finalizer, the last is gone before the CR.
PathsImplementManagedResource == PathProtocol!Spec

\* The quota to set, or the default one, is no int64.
Unconvertible(k) ==
    /\ k \in BucketKeys
    /\ \E q \in {Stored(k).spec.default, EffectiveQuota(Stored(k).spec)} : ~Convertible(q)

\* Once users and faults stop, S3 ends up with what every CR asks for that is not
\* being deleted, and stays so, with or without a reconcile period.  Overrides are
\* left out without a period.
Converges ==
    \A k \in Keys : <>[](Terminating(k) \/ Unconvertible(k) \/ Applied(k))

\* With a reconcile period the CRs then say so, the quota is the one in effect with
\* an override too, even if others changed S3 meanwhile, and a Path CR created
\* before its bucket gets its paths.
ConvergesAndSaysSo ==
    \A k \in Keys :
        <>[](\/ Terminating(k)
             \/ k \in PathKeys /\ buckets[Stored(k).spec.name] = None
             \/ ReconciledNow(k) /\ Applied(k))

-----------------------------------------------------------------------------
(* The inductive invariant behind these properties *)

ProvisionLabels == {"Handle"} \cup S3Labels \cup BucketLabels

DeletingLabels == {"Finalize", "RemoveFinalizer"} \cup PathLabels

\* A handler is at a label of its kind of CR, calls S3 with a quota that was
\* converted, and its loops have a path at hand.
HandlerInv(k) ==
    /\ pc[k] \in BucketLabels => k \in BucketKeys
    /\ pc[k] \in PathLabels => k \in PathKeys
    /\ pc[k] = "SetDefaultQuota" => Convertible(res[k].spec.default)
    /\ pc[k] = "ResetQuota" => Convertible(EffectiveQuota(res[k].spec))
    /\ pc[k] \in {"CreatePath"} \cup S3Labels \cup PathLabels => todo[k] # <<>>

IInv ==
    /\ LoopIInv(Labels, ProvisionLabels, DeletingLabels)
    /\ S3TypeOK
    /\ \A k \in Keys : HandlerInv(k)

-----------------------------------------------------------------------------
(* The inductive invariants of what S3 holds: they need CRs that do not write
   over each other, and nobody else who does *)

\* Every Bucket CR has a bucket of its own.
OneBucketEach ==
    \A k, l \in BucketKeys : \A s \in Specs[k], t \in Specs[l] :
        s.name = t.name <=> k = l

\* No user renames the bucket of a CR.
BucketNamesAreKept == \A k \in BucketKeys : \A s, t \in Specs[k] : s.name = t.name

\* No administrator gives a bucket another quota than its default one.
NoOverrides == \A k \in BucketKeys : \A s \in Specs[k] : s.override = 0

\* No path of a bucket is listed by two CRs.
OnePathEach ==
    \A k, l \in Keys : k # l =>
        \A s \in Specs[k], t \in Specs[l] :
            s.name = t.name => Elements(s.paths) \cap Elements(t.paths) = {}

\* A Path CR lists at least a path.
PathCRsListPaths == \A k \in PathKeys : \A s \in Specs[k] : s.paths # <<>>

\* No user removes a path from a spec or moves it to another bucket.
PathsAreKept ==
    \A k \in Keys : \A s, t \in Specs[k] :
        s.name = t.name /\ Elements(s.paths) = Elements(t.paths)

\* A bucket has a CR whose worker has not deleted it.
OrphanBucketInv ==
    /\ tampers = 0
    /\ \A b \in BucketNames :
          buckets[b] # None => \E k \in BucketKeys : /\ Held(k) /\ Stored(k).spec.name = b
                                                   /\ pc[k] # "RemoveFinalizer"

OverPaths == {"CreatePath"} \cup S3Labels

\* Creation sets the default quota, updates the one in effect.
QuotasOf(k, spec) == IF k \in BucketKeys THEN {spec.default, EffectiveQuota(spec)} ELSE {}

InPlace(k) == SpecApplied(k, Stored(k).spec, QuotasOf(k, Stored(k).spec))

\* Through each loop over the paths, a path is there or still to do; at its end
\* the spec is applied, with either quota.
ProgressInv(k) ==
    LET spec == Wanted(k)
    IN  /\ pc[k] \in OverPaths \cup PathLabels =>
              Elements(todo[k]) \subseteq Elements(spec.paths)
        /\ pc[k] \in OverPaths =>
              \A p \in Elements(spec.paths) : HasObject(k, p) \/ p \in Elements(todo[k])
        /\ k \in BucketKeys /\ pc[k] \in ProvisionLabels \ {"Handle", "Create"} =>
              Bucket(k) # None
        /\ k \in BucketKeys /\ pc[k] \in OverPaths =>
              Bucket(k).quota \in QuotasOf(k, spec)
        /\ pc[k] = "SetStatus" /\ out[k].reason = "Reconciled" =>
              SpecApplied(k, spec, QuotasOf(k, spec))

AppliedInv ==
    /\ tampers = 0
    /\ \A k \in Keys : ProgressInv(k) /\ (ReconciledNow(k) => InPlace(k))

\* Through the loop of finalizePath a path is gone, still to do, or a failure is
\* recorded; after it the paths are gone.
RemovalInv(k) ==
    /\ pc[k] \in PathLabels =>
          \A p \in Elements(Wanted(k).paths) :
              HasObject(k, p) => p \in Elements(todo[k]) \/ failed[k]
    /\ pc[k] = "RemoveFinalizer" =>
          \A p \in Elements(Wanted(k).paths) : ~HasObject(k, p)

OrphanPathInv ==
    /\ budget.reads = 0
    /\ NoOrphanPath
    /\ \A k \in PathKeys : RemovalInv(k)

\* All of it, for a system where the hypotheses hold.
S3Inv == OrphanBucketInv /\ AppliedInv /\ OrphanPathInv

=============================================================================
