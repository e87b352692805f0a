--------------------------- MODULE BucketController ---------------------------
(***************************************************************************)
(* The handlers of internal/controller/bucket, one action per call to S3,  *)
(* for the keys of Bucket CRs.                                             *)
(***************************************************************************)
EXTENDS S3Server

CONSTANTS
    BucketKeys,            \* the Bucket CRs
    NotInt64,              \* a Quantity AsInt64 cannot convert (1.5, 1e30)
    BucketDeletionEnabled  \* of the S3Instance

Quantities == Amounts \cup {NotInt64}

BucketSpecs == [name     : BucketNames,
                paths    : Seq(Paths),
                default  : Quantities,
                override : Quantities]

ASSUME BucketKeysAssumption ==
    BucketKeys \subseteq Keys /\ \A k \in BucketKeys : Specs[k] \subseteq BucketSpecs

ASSUME NotInt64Assumption == NotInt64 \notin Amounts

ASSUME BucketDeletionIsBoolean == BucketDeletionEnabled \in BOOLEAN

BucketLabels == {"Create", "SetDefaultQuota", "CreatePath", "GetQuota", "ResetQuota"}

\* AsInt64 succeeds.
ConvertibleAlways(q) == TRUE \* mutant: convertionSucceed ignored
Convertible(q) == q # NotInt64

\* quotaToResetTo: the override unless it is 0.
EffectiveQuota(spec) == IF spec.override = 0 THEN spec.default ELSE spec.override

-----------------------------------------------------------------------------
(* handleReconciliation and handleCreation *)

\* GetS3ClientForRessource, then BucketExists.
HandleBucket(k) ==
    /\ At(k, "Handle")
    /\ \/ /\ Reads
          /\ Goto(k, IF Bucket(k) = None THEN "Create" ELSE "GetQuota")
          /\ UNCHANGED todo
       \/ ReadFails /\ Abort(k, "Unreachable", TRUE)

\* MakeBucket fails on a bucket that exists; without error the default quota
\* is then converted, a failure of which is reported with the nil err of the
\* call that succeeded.
CreateBucket(k) ==
    LET possible == Bucket(k) = None
    IN  /\ At(k, "Create")
        /\ \/ /\ CallWorks(k, possible, NewBucket)
              /\ IF Convertible(Wanted(k).default)
                 THEN Goto(k, "SetDefaultQuota") /\ UNCHANGED todo
                 ELSE Abort(k, "CreationFailure", FALSE)
           \/ /\ CallFails(k, possible, NewBucket)
              /\ Abort(k, "CreationFailure", TRUE)
           \/ /\ ReadFails \* of GetS3ClientForRessource
              /\ Abort(k, "Unreachable", TRUE)

\* Only the default quota is set on a new bucket.
SetDefaultQuota(k) ==
    LET possible == Bucket(k) # None
        b == [Bucket(k) EXCEPT !.quota = Wanted(k).default]
    IN  /\ At(k, "SetDefaultQuota")
        /\ \/ CallWorks(k, possible, b) /\ Loop(k, Wanted(k).paths, "CreatePath")
           \/ CallFails(k, possible, b) /\ Abort(k, "Unreachable", TRUE)

CreatePath(k) ==
    LET possible == Bucket(k) # None
    IN  /\ At(k, "CreatePath")
        /\ \/ /\ CallWorks(k, possible, PutObject(k))
              /\ Loop(k, Tail(todo[k]), "CreatePath")
           \/ /\ CallFails(k, possible, PutObject(k))
              /\ Abort(k, "Unreachable", TRUE)

-----------------------------------------------------------------------------
(* handleUpdate *)

\* GetQuota, the choice and conversion of quotaToResetTo, the comparison.
GetQuota(k) ==
    LET target == EffectiveQuota(Wanted(k))
    IN  /\ At(k, "GetQuota")
        /\ \/ /\ Reads
              /\ Bucket(k) # None
              /\ \/ ~Convertible(target) /\ Abort(k, "Unreachable", FALSE)
                 \/ /\ Convertible(target)
                    /\ Bucket(k).quota # target
                    /\ Goto(k, "ResetQuota")
                    /\ UNCHANGED todo
                 \/ /\ Bucket(k).quota = target
                    /\ Loop(k, Wanted(k).paths, "CheckPath")
           \/ Reads /\ Bucket(k) = None /\ Abort(k, "Unreachable", TRUE)
           \/ ReadFails /\ Abort(k, "Unreachable", TRUE)

ResetQuota(k) ==
    LET possible == Bucket(k) # None
        b == [Bucket(k) EXCEPT !.quota = EffectiveQuota(Wanted(k))]
    IN  /\ At(k, "ResetQuota")
        /\ \/ CallWorks(k, possible, b) /\ Loop(k, Wanted(k).paths, "CheckPath")
           \/ CallFails(k, possible, b) /\ Abort(k, "Unreachable", TRUE)

-----------------------------------------------------------------------------
(* handleDeletion *)

\* finalizeBucket: RemoveBucket refuses a bucket with objects, its own .keep
\* objects included, and one that does not exist.
Deletable(k) == Bucket(k) # None /\ Bucket(k).objects = {}

\* Mutant: the error of finalizeBucket is ignored.
FinalizeBucketAnyway(k) ==
    /\ At(k, "Finalize")
    /\ \/ CallWorks(k, Deletable(k), None)
       \/ CallFails(k, Deletable(k), None)
    /\ Goto(k, "RemoveFinalizer")
    /\ UNCHANGED todo

FinalizeBucket(k) ==
    /\ At(k, "Finalize")
    /\ \/ /\ IF BucketDeletionEnabled THEN CallWorks(k, Deletable(k), None) ELSE Reads
          /\ Goto(k, "RemoveFinalizer")
          /\ UNCHANGED todo
       \/ /\ IF BucketDeletionEnabled THEN CallFails(k, Deletable(k), None)
                                ELSE ReadFails
          /\ Abort(k, "DeletionFailure", TRUE)

BucketStep(k) ==
    /\ k \in BucketKeys
    /\ UNCHANGED failed
    /\ \/ HandleBucket(k)
       \/ CreateBucket(k) \/ SetDefaultQuota(k) \/ CreatePath(k)
       \/ GetQuota(k) \/ ResetQuota(k) \/ CheckPath(k) \/ AddPath(k)
       \/ FinalizeBucket(k)

=============================================================================
