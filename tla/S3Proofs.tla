------------------------------- MODULE S3Proofs -------------------------------
(***************************************************************************)
(* Proofs about what S3 holds: when the CRs do not write over each other   *)
(* and nobody else does, no bucket and no path outlives its CR, a CR that  *)
(* says "Reconciled" says the truth, and the Bucket controller and the     *)
(* Path controller implement ManagedResource.                              *)
(***************************************************************************)
EXTENDS BucketsAndPathsProofs

-----------------------------------------------------------------------------
(* One step, seen from the CR it is about and from the others *)

\* A step of k leaves the other CRs and their workers alone.
Apart(k) ==
    \A j \in Keys \ {k} : /\ LeftAlone(j)
                          /\ Stored(j)' = Stored(j)
                          /\ todo'[j] = todo[j]
                          /\ failed'[j] = failed[j]

\* What a call of worker k does to its bucket.
Creates(k) ==
    /\ k \in BucketKeys /\ pc[k] = "Create"
    /\ Bucket(k) = None
    /\ SetBucket(k, NewBucket)

SetsQuota(k) ==
    /\ k \in BucketKeys /\ pc[k] \in {"SetDefaultQuota", "ResetQuota"}
    /\ Bucket(k) # None
    /\ \E q \in QuotasOf(k, Wanted(k)) \cap Amounts :
         SetBucket(k, [Bucket(k) EXCEPT !.quota = q])

Puts(k) ==
    /\ pc[k] \in {"CreatePath", "AddPath"}
    /\ Bucket(k) # None
    /\ SetBucket(k, PutObject(k))

Removes(k) ==
    /\ k \in BucketKeys /\ pc[k] = "Finalize"
    /\ BucketDeletionEnabled
    /\ Deletable(k)
    /\ SetBucket(k, None)

Takes(k) ==
    /\ k \in PathKeys /\ pc[k] = "DeletePath"
    /\ Bucket(k) # None
    /\ SetBucket(k, [Bucket(k) EXCEPT !.objects = @ \ {Head(todo[k])}])

Change(k) ==
    \/ UNCHANGED buckets
    \/ Creates(k) \/ SetsQuota(k) \/ Puts(k) \/ Removes(k) \/ Takes(k)

\* A step of the operator changes the bucket of one worker, in one of these ways.
LEMMA WorkerChanges ==
    ASSUME IInv, NEW k \in Keys, WorkerStep(k)
    PROVE  Change(k)
<1>1. ASSUME NEW possible \in BOOLEAN, NEW v, CallWorks(k, possible, v) \/ CallFails(k, possible, v)
      PROVE  UNCHANGED buckets \/ (possible /\ SetBucket(k, v))
  BY <1>1 DEF CallWorks, CallFails
<1>2. Reads \/ ReadFails => UNCHANGED buckets
  BY DEF Reads, ReadFails
<1>3. CreateBucket(k) /\ k \in BucketKeys => Change(k)
  BY <1>1, <1>2 DEF CreateBucket, At, Change, Creates
<1>4. (SetDefaultQuota(k) \/ ResetQuota(k)) /\ k \in BucketKeys => Change(k)
  <2>1. k \in BucketKeys => /\ Wanted(k).default \in QuotasOf(k, Wanted(k))
                            /\ EffectiveQuota(Wanted(k)) \in QuotasOf(k, Wanted(k))
    BY DEF QuotasOf
  <2>2. k \in BucketKeys =>
          /\ pc[k] = "SetDefaultQuota" => Wanted(k).default \in Amounts
          /\ pc[k] = "ResetQuota" => EffectiveQuota(Wanted(k)) \in Amounts
    BY HandlerData
    DEF IInv, HandlerInv, Convertible, EffectiveQuota, Quantities, Wanted
  <2> QED
    BY <1>1, <2>1, <2>2 DEF SetDefaultQuota, ResetQuota, At, Change, SetsQuota
<1>5. CreatePath(k) \/ AddPath(k) => Change(k)
  BY <1>1 DEF CreatePath, AddPath, At, Change, Puts
<1>6. FinalizeBucket(k) /\ k \in BucketKeys => Change(k)
  <2>1. Deletable(k) \in BOOLEAN
    BY DEF Deletable
  <2> QED
    BY <1>1, <1>2, <2>1 DEF FinalizeBucket, At, Change, Removes
<1>7. DeletePath(k) /\ k \in PathKeys => Change(k)
  BY <1>1 DEF DeletePath, At, Change, Takes
<1>8. HandleBucket(k) \/ GetQuota(k) \/ CheckPath(k) \/ HandlePath(k) \/ FinalizePath(k)
        \/ StatPath(k) => UNCHANGED buckets
  BY <1>2 DEF HandleBucket, GetQuota, CheckPath, HandlePath, FinalizePath, StatPath
<1> QED
  BY <1>3, <1>4, <1>5, <1>6, <1>7, <1>8
  DEF WorkerStep, BucketStep, PathStep, s3Vars, Change

\* The others are left alone.
LEMMA StepsAreApart ==
    ASSUME IInv, NEW k \in Keys, WorkerStep(k) \/ EnvironmentStep(k)
    PROVE  Apart(k) /\ IInv' /\ UNCHANGED tampers
<1>1. StepInv(k)
  BY BucketStepKeeps, PathStepKeeps, LoopKeeps DEF WorkerStep, EnvironmentStep
<1>2. \A j \in Keys \ {k} : failed'[j] = failed[j]
  <2>1. \A paths, bad : RemoveLoop(k, paths, bad)
                          => \A j \in Keys \ {k} : failed'[j] = failed[j]
    BY DEF RemoveLoop, IInv, S3TypeOK
  <2> QED
    BY <2>1 DEF WorkerStep, EnvironmentStep, BucketStep, PathStep, HandlePath,
           FinalizePath, StatPath, DeletePath, s3Vars
<1>3. UNCHANGED tampers
  BY DEF WorkerStep, EnvironmentStep, BucketStep, PathStep, HandlePath, FinalizePath,
         StatPath, DeletePath, HandleBucket, CreateBucket, SetDefaultQuota, CreatePath,
         GetQuota, ResetQuota, CheckPath, AddPath, FinalizeBucket, At, s3Vars
<1> QED
  BY <1>1, <1>2, <1>3, WhoWrites, StepKeepsIInv DEF Apart, StepInv, Keeps

-----------------------------------------------------------------------------
(* What a worker does to the buckets and paths of the other CRs: nothing *)

LEMMA ElementsOfASequence ==
    ASSUME NEW S, NEW s \in Seq(S)
    PROVE  /\ s = <<>> => Elements(s) = {}
           /\ s # <<>> => Elements(s) = {Head(s)} \cup Elements(Tail(s))
<1>1. s = <<>> => Elements(s) = {}
  BY DEF Elements
<1>2. ASSUME s # <<>> PROVE Elements(s) = {Head(s)} \cup Elements(Tail(s))
  <2>1. Head(s) = s[1] /\ Len(s) >= 1
    BY <1>2
  <2>2. /\ Tail(s) \in Seq(S) /\ Len(Tail(s)) = Len(s) - 1
        /\ \A i \in 1..(Len(s) - 1) : Tail(s)[i] = s[i + 1]
    BY <1>2
  <2>3. DOMAIN s = 1..Len(s) /\ DOMAIN Tail(s) = 1..(Len(s) - 1)
    BY <2>2
  <2>4. ASSUME NEW i \in 1..Len(s) PROVE s[i] \in {Head(s)} \cup Elements(Tail(s))
    <3>1. CASE i = 1
      BY <2>1, <3>1
    <3>2. CASE i # 1
      <4>1. i - 1 \in 1..(Len(s) - 1) /\ s[i] = Tail(s)[i - 1]
        BY <2>1, <2>2, <3>2
      <4> QED
        BY <2>3, <4>1 DEF Elements
    <3> QED
      BY <3>1, <3>2
  <2>5. ASSUME NEW i \in 1..(Len(s) - 1) PROVE Tail(s)[i] \in Elements(s)
    <3>1. i + 1 \in 1..Len(s) /\ Tail(s)[i] = s[i + 1]
      BY <2>1, <2>2
    <3> QED
      BY <2>3, <3>1 DEF Elements
  <2>6. Head(s) \in Elements(s)
    BY <2>1, <2>3 DEF Elements
  <2> QED
    BY <2>3, <2>4, <2>5, <2>6 DEF Elements
<1> QED
  BY <1>1, <1>2

\* The paths in work are paths of the spec in work.
OwnPaths(k) ==
    pc[k] \in OverPaths \cup PathLabels => Elements(todo[k]) \subseteq Elements(Wanted(k).paths)

\* A call that puts or takes a path.
LEMMA PathCalls ==
    ASSUME IInv, NEW k \in Keys, Puts(k) \/ Takes(k)
    PROVE  /\ Bucket(k) \in Buckets /\ Wanted(k).name \in BucketNames
           /\ todo[k] # <<>> /\ todo[k] \in Seq(Paths)
           /\ \E b \in Buckets :
                /\ SetBucket(k, b)
                /\ b.quota = Bucket(k).quota
                /\ Puts(k) => b.objects = Bucket(k).objects \cup {Head(todo[k])}
                /\ Takes(k) => b.objects = Bucket(k).objects \ {Head(todo[k])}
<1>1. /\ Bucket(k) \in Buckets /\ Wanted(k).name \in BucketNames
      /\ todo[k] \in Seq(Paths)
  BY HandlerData DEF Puts, Takes
<1>2. todo[k] # <<>> /\ pc[k] # "Idle"
  BY DEF Puts, Takes, IInv, HandlerInv, S3Labels, PathLabels
<1>3. CASE Puts(k)
  <2>1. PutObject(k) \in Buckets
    BY <1>2, <1>3, PutObjectTypes DEF Puts
  <2>2. /\ PutObject(k).quota = Bucket(k).quota
        /\ PutObject(k).objects = Bucket(k).objects \cup {Head(todo[k])}
    BY <1>1 DEF PutObject, Buckets
  <2> QED
    BY <1>1, <1>2, <1>3, <2>1, <2>2 DEF Puts, Takes
<1>4. CASE Takes(k)
  <2> DEFINE b == [Bucket(k) EXCEPT !.objects = @ \ {Head(todo[k])}]
  <2>1. /\ b \in Buckets /\ b.quota = Bucket(k).quota
        /\ b.objects = Bucket(k).objects \ {Head(todo[k])}
    BY <1>1 DEF Buckets
  <2>2. SetBucket(k, b)
    BY <1>4 DEF Takes
  <2> HIDE DEF b
  <2> QED
    BY <1>1, <1>2, <1>4, <2>1, <2>2 DEF Puts, Takes
<1> QED
  BY <1>3, <1>4

\* No other call makes a bucket come or go.
LEMMA OthersExist ==
    ASSUME IInv, NEW k \in Keys, Change(k), ~Creates(k), ~Removes(k),
           NEW name \in BucketNames
    PROVE  buckets[name] = None <=> buckets'[name] = None
<1>1. buckets \in [BucketNames -> Buckets \cup {None}]
  BY DEF IInv, S3TypeOK
<1>2. CASE SetsQuota(k)
  <2>1. PICK q \in Amounts : SetBucket(k, [Bucket(k) EXCEPT !.quota = q])
    BY <1>2 DEF SetsQuota
  <2>2. Bucket(k) \in Buckets
    BY <1>2, HandlerData DEF SetsQuota
  <2>3. [Bucket(k) EXCEPT !.quota = q] \in Buckets
    BY <2>2 DEF Buckets
  <2> QED
    BY <1>1, <2>1, <2>2, <2>3, NoneIsNoBucket DEF Bucket, SetBucket
<1>3. CASE Puts(k) \/ Takes(k)
  <2>1. Bucket(k) \in Buckets /\ \E b \in Buckets : SetBucket(k, b)
    BY <1>3, PathCalls
  <2> QED
    BY <1>1, <2>1, NoneIsNoBucket DEF Bucket, SetBucket
<1> QED
  BY <1>2, <1>3 DEF Change

\* The bucket of a Bucket CR comes and goes with its own worker only.
LEMMA OthersKeepBucket ==
    ASSUME OneBucketEach, IInv, NEW k \in Keys, Change(k),
           NEW j \in BucketKeys \ {k}, NEW s \in Specs[j]
    PROVE  /\ buckets[s.name] = None <=> buckets'[s.name] = None
           /\ buckets[s.name] # None => buckets'[s.name].quota = buckets[s.name].quota
<1>1. s.name \in BucketNames
  BY BucketKeysAssumption DEF BucketSpecs
<1>2. buckets \in [BucketNames -> Buckets \cup {None}]
  BY DEF IInv, S3TypeOK
<1>3. CASE UNCHANGED buckets
  BY <1>3
<1>4. CASE Creates(k) \/ SetsQuota(k) \/ Removes(k)
  <2>1. k \in BucketKeys /\ Wanted(k) \in Specs[k]
    BY <1>4, HandlerData DEF Creates, SetsQuota, Removes
  <2>2. s.name # Wanted(k).name
    BY <2>1 DEF OneBucketEach
  <2> QED
    BY <1>1, <1>2, <1>4, <2>2 DEF Creates, SetsQuota, Removes, SetBucket
<1>5. CASE Puts(k) \/ Takes(k)
  <2>1. /\ Bucket(k) \in Buckets /\ Wanted(k).name \in BucketNames
        /\ \E b \in Buckets : SetBucket(k, b) /\ b.quota = Bucket(k).quota
    BY <1>5, PathCalls
  <2> QED
    BY <1>1, <1>2, <2>1, NoneIsNoBucket DEF Bucket, SetBucket
<1> QED
  BY <1>3, <1>4, <1>5 DEF Change

\* The object of a path is in a bucket.
Has(name, p) == buckets[name] # None /\ p \in buckets[name].objects

\* The paths of a CR come and go with its own worker only.
LEMMA OthersKeepPaths ==
    ASSUME OneBucketEach, OnePathEach, IInv, NEW k \in Keys, Change(k), OwnPaths(k),
           NEW j \in Keys \ {k}, NEW s \in Specs[j], NEW p \in Elements(s.paths)
    PROVE  Has(s.name, p) <=> Has(s.name, p)'
<1>1. s.name \in BucketNames
  BY BucketKeysAssumption, PathKeysAssumption, KeysAreOfOneKind DEF BucketSpecs, PathSpecs
<1>2. buckets \in [BucketNames -> Buckets \cup {None}]
  BY DEF IInv, S3TypeOK
<1>3. CASE UNCHANGED buckets
  BY <1>3 DEF Has
<1>4. CASE ~UNCHANGED buckets
  <2>1. pc[k] \in {"Create", "SetDefaultQuota", "ResetQuota", "CreatePath", "AddPath",
                   "Finalize", "DeletePath"}
    BY <1>4 DEF Change, Creates, SetsQuota, Puts, Removes, Takes
  <2>2. /\ Wanted(k) \in Specs[k] /\ Wanted(k).name \in BucketNames
        /\ Bucket(k) \in Buckets \cup {None} /\ todo[k] \in Seq(Paths)
    BY <2>1, HandlerData
  <2>3. s.name = Wanted(k).name => Elements(s.paths) \cap Elements(Wanted(k).paths) = {}
    BY <2>2 DEF OnePathEach
  <2>4. PICK b : SetBucket(k, b)
    BY <1>4 DEF Change, Creates, SetsQuota, Puts, Removes, Takes
  <2>5. s.name # Wanted(k).name => buckets'[s.name] = buckets[s.name]
    BY <1>1, <1>2, <2>4 DEF SetBucket
  <2>6. ASSUME NEW v, SetBucket(k, v) PROVE buckets'[Wanted(k).name] = v
    BY <1>2, <2>2, <2>6 DEF SetBucket
  <2>7. Has(Wanted(k).name, p) <=> Bucket(k) # None /\ p \in Bucket(k).objects
    BY DEF Has, Bucket
  <2>8. CASE Creates(k)
    BY <2>5, <2>6, <2>7, <2>8, NoneIsNoBucket DEF Creates, NewBucket, Has
  <2>9. CASE SetsQuota(k)
    <3>1. PICK q \in Amounts : SetBucket(k, [Bucket(k) EXCEPT !.quota = q])
      BY <2>9 DEF SetsQuota
    <3> DEFINE v == [Bucket(k) EXCEPT !.quota = q]
    <3>2. v \in Buckets /\ v.objects = Bucket(k).objects /\ Bucket(k) # None
      BY <2>2, <2>9 DEF SetsQuota, Buckets
    <3> HIDE DEF v
    <3>3. buckets'[Wanted(k).name] = v
      BY <2>6, <3>1 DEF v
    <3> QED
      BY <2>5, <2>7, <3>2, <3>3, NoneIsNoBucket DEF Has
  <2>10. CASE Removes(k)
    BY <2>5, <2>6, <2>7, <2>10 DEF Removes, Deletable, Has
  <2>11. CASE Puts(k) \/ Takes(k)
    <3>1. PICK o \in Buckets :
            /\ SetBucket(k, o) /\ Bucket(k) \in Buckets /\ todo[k] # <<>>
            /\ \/ o.objects = Bucket(k).objects \cup {Head(todo[k])}
               \/ o.objects = Bucket(k).objects \ {Head(todo[k])}
      BY <2>11, PathCalls
    <3>2. Head(todo[k]) \in Elements(Wanted(k).paths)
      BY <2>2, <2>11, <3>1, ElementsOfASequence
      DEF OwnPaths, OverPaths, S3Labels, PathLabels, Puts, Takes
    <3>3. buckets'[Wanted(k).name] = o
      BY <2>6, <3>1
    <3> QED
      BY <2>3, <2>5, <2>7, <3>1, <3>2, <3>3, NoneIsNoBucket DEF Has
  <2> QED
    BY <1>4, <2>8, <2>9, <2>10, <2>11 DEF Change
<1> QED
  BY <1>3, <1>4

-----------------------------------------------------------------------------
(* The steps when nobody else changes S3 *)

LEMMA Steps ==
    ASSUME IInv, tampers = 0, [Next]_vars
    PROVE  /\ IInv' /\ tampers' = 0
           /\ \/ \E k \in Keys : WorkerStep(k) /\ Apart(k) /\ Change(k)
              \/ \E k \in Keys : EnvironmentStep(k) /\ Apart(k) /\ UNCHANGED s3Vars
              \/ Restart
              \/ UNCHANGED vars
<1>1. \A b \in BucketNames : ~Tamper(b)
  BY DEF Tamper
<1>2. ASSUME NEW k \in Keys, WorkerStep(k) \/ EnvironmentStep(k)
      PROVE  /\ Apart(k) /\ tampers' = 0
             /\ WorkerStep(k) => Change(k)
             /\ EnvironmentStep(k) => UNCHANGED s3Vars
  BY <1>2, StepsAreApart, WorkerChanges DEF EnvironmentStep
<1>3. IInv'
  BY NextKeepsIInv
<1> QED
  BY <1>1, <1>2, <1>3 DEF Next, Restart, vars, s3Vars

\* A restart, or no step at all, changes neither S3 nor what is stored.
LEMMA RestartFacts ==
    ASSUME IInv, Restart \/ UNCHANGED vars
    PROVE  /\ UNCHANGED buckets
           /\ \A k \in Keys : Stored(k)' = Stored(k)
           /\ \A k \in Keys : \/ pc'[k] = "Idle"
                              \/ UNCHANGED <<pc, res, out, todo, failed>>
<1>1. UNCHANGED buckets /\ (UNCHANGED versions \/ Crash)
  BY DEF Restart, vars, loopVars, s3Vars
<1>2. \A k \in Keys : \/ pc'[k] = "Idle"
                      \/ UNCHANGED <<pc, res, out, todo, failed>>
  BY DEF Restart, Crash, vars, loopVars, s3Vars
<1> QED
  BY <1>1, <1>2, WatchStoresNothing DEF IInv

\* A CR is stored with one of its specs, before and after the step.
SpecsStored == \A k \in Keys : Stored(k) # None => Stored(k).spec \in Specs[k]

LEMMA StoredSpecs == IInv => SpecsStored
  BY StoredFacts DEF IInv, SpecsStored

LEMMA StoredSpecsNext == IInv' => SpecsStored'
  BY StoredSpecs, PTL

-----------------------------------------------------------------------------
(* No bucket outlives its CR *)

\* CR j asks for bucket b and its worker has not deleted it.
Responsible(j, b) ==
    Held(j) /\ Stored(j).spec.name = b /\ pc[j] # "RemoveFinalizer"

LEMMA NamesAreKept == OneBucketEach => BucketNamesAreKept
  BY DEF OneBucketEach, BucketNamesAreKept

\* Worker k comes to the finalizer removal of a Bucket CR by deleting its bucket.
LEMMA RemovalStartsWithoutBucket ==
    ASSUME BucketDeletionEnabled, IInv, NEW k \in BucketKeys,
           WorkerStep(k) \/ EnvironmentStep(k),
           pc[k] # "RemoveFinalizer", pc'[k] = "RemoveFinalizer"
    PROVE  Wanted(k) \in Specs[k] /\ buckets'[Wanted(k).name] = None
<1>0. k \in Keys /\ k \notin PathKeys
  BY BucketKeysAssumption, KeysAreOfOneKind
<1>1. pc \in [Keys -> Labels] /\ buckets \in [BucketNames -> Buckets \cup {None}]
  BY DEF IInv, LoopIInv, LoopTypeOK, S3TypeOK
<1>2. ~((UserStep(k) \/ Deliver(k)) /\ UNCHANGED s3Vars)
  BY DEF UserStep, UserCreate, UserEdit, UserTouch, UserDelete, UserWrites, Deliver
<1>3. ~LoopStep(k)
  BY <1>0, LoopMoves DEF IInv, LoopIInv
<1>4. CASE BucketStep(k)
  <2>1. ~(\E l \in {"Create", "GetQuota", "SetDefaultQuota", "ResetQuota", "AddPath",
                    "CheckPath", "CreatePath"} : Goto(k, l))
    BY <1>0, <1>1 DEF Goto
  <2>2. ~(\E reason, err : Conclude(k, reason, err))
    BY <1>0, <1>1 DEF Conclude
  <2>3. FinalizeBucket(k)
    BY <1>4, <2>1, <2>2 DEF BucketStep, HandleBucket, CreateBucket, SetDefaultQuota,
       CreatePath, GetQuota, ResetQuota, CheckPath, AddPath, Abort, Loop
  <2>4. SetBucket(k, None) /\ pc[k] = "Finalize"
    BY <2>2, <2>3 DEF FinalizeBucket, CallWorks, Abort, At
  <2>5. Wanted(k) \in Specs[k] /\ Wanted(k).name \in BucketNames
    BY <1>0, <2>4, HandlerData
  <2> QED
    BY <1>1, <2>4, <2>5 DEF SetBucket
<1> QED
  BY <1>0, <1>2, <1>3, <1>4 DEF WorkerStep, EnvironmentStep, PathStep

\* A CR whose worker has not deleted its bucket is not released.
LEMMA HolderStays ==
    ASSUME BucketNamesAreKept, IInv, NEW k \in Keys,
           WorkerStep(k) \/ EnvironmentStep(k),
           NEW j \in BucketKeys, NEW b, Responsible(j, b)
    PROVE  Held(j)' /\ Stored(j)'.spec.name = b
<1>1. j \in Keys
  BY BucketKeysAssumption
<1>2. CASE Stored(j)' = Stored(j)
  BY <1>2 DEF Responsible, Held
<1>3. CASE EditedByUser(j)
  <2>1. Stored(j)' # None /\ Stored(j)'.fin /\ Stored(j) # None
    BY <1>3 DEF EditedByUser, Responsible, Held
  <2>2. IInv'
    BY StepsAreApart
  <2>3. Stored(j)'.spec \in Specs[j] /\ Stored(j).spec \in Specs[j]
    BY <1>1, <2>1, <2>2, StoredSpecs, StoredSpecsNext DEF SpecsStored
  <2> QED
    BY <2>1, <2>3 DEF Responsible, Held, BucketNamesAreKept
<1>4. CASE WrittenByWorker(j)
  BY <1>4 DEF WrittenByWorker, SameGeneration, Responsible, Held
<1> QED
  BY <1>1, <1>2, <1>3, <1>4, WhoWrites

\* A bucket that was there keeps a CR that asks for it.
LEMMA ResponsibleStays ==
    ASSUME BucketDeletionEnabled, BucketNamesAreKept, IInv, NEW k \in Keys,
           WorkerStep(k) \/ EnvironmentStep(k), Apart(k),
           NEW b, buckets'[b] # None, NEW j \in BucketKeys, Responsible(j, b)
    PROVE  Responsible(j, b)'
<1>1. j \in Keys
  BY BucketKeysAssumption
<1>2. CASE j # k
  BY <1>1, <1>2, HolderStays DEF Apart, LeftAlone, Responsible
<1>3. ASSUME j = k, pc'[k] = "RemoveFinalizer" PROVE FALSE
  <2>1. Wanted(k) \in Specs[k] /\ buckets'[Wanted(k).name] = None
    BY <1>3, RemovalStartsWithoutBucket DEF Responsible
  <2>2. Stored(k).spec \in Specs[k]
    BY <1>3, StoredSpecs DEF SpecsStored, Responsible, Held
  <2> QED
    BY <1>3, <2>1, <2>2 DEF BucketNamesAreKept, Responsible
<1> QED
  BY <1>2, <1>3, HolderStays DEF Responsible

\* A bucket that was not there is made for a CR that asks for it.
LEMMA ResponsibleAppears ==
    ASSUME BucketDeletionEnabled, BucketNamesAreKept, IInv, NEW k \in Keys,
           WorkerStep(k) \/ EnvironmentStep(k), Apart(k), Change(k),
           NEW b \in BucketNames, buckets[b] = None, buckets'[b] # None
    PROVE  k \in BucketKeys /\ Responsible(k, b)'
<1>1. Provisioned(b) /\ ~UNCHANGED buckets
  BY DEF Provisioned
<1>2. WorkerStep(k)
  BY <1>1 DEF EnvironmentStep, s3Vars
<1>3. pc[k] \in ProvisionLabels /\ Wanted(k).name = b
  BY <1>1, <1>2, ProvisionerIsAtWork
<1>4. k \in BucketKeys
  BY <1>1, <1>3 DEF Change, Creates, SetsQuota, Puts, Takes, Removes, Bucket
<1>5. Held(k) /\ Stored(k)' = Stored(k)
  BY <1>1, <1>2, <1>3, WhoWrites, LabelFacts
  DEF IInv, LoopIInv, LoopInv, WorkerInv, EditedByUser, s3Vars
<1>6. Wanted(k) \in Specs[k] /\ Stored(k).spec \in Specs[k]
  BY <1>3, <1>5, HandlerData, LabelFacts, StoredSpecs DEF SpecsStored, Held
<1>7. pc'[k] # "RemoveFinalizer"
  BY <1>3, <1>4, RemovalStartsWithoutBucket, LabelFacts
<1> QED
  BY <1>3, <1>4, <1>5, <1>6, <1>7 DEF BucketNamesAreKept, Held, Responsible

LEMMA OrphanBucketInductive ==
    ASSUME BucketDeletionEnabled, BucketNamesAreKept, IInv, OrphanBucketInv, [Next]_vars
    PROVE  OrphanBucketInv'
<1>1. tampers = 0
  BY DEF OrphanBucketInv
<1>2. tampers' = 0
  BY <1>1, Steps
<1> SUFFICES ASSUME NEW b \in BucketNames, buckets'[b] # None
             PROVE  \E j \in BucketKeys : Responsible(j, b)'
  BY <1>2 DEF OrphanBucketInv, Responsible
<1>3. ASSUME buckets[b] # None PROVE \E j \in BucketKeys : Responsible(j, b)
  BY <1>3 DEF OrphanBucketInv, Responsible
<1>4. CASE Restart \/ UNCHANGED vars
  <2>1. PICK j \in BucketKeys : Responsible(j, b)
    BY <1>3, <1>4, RestartFacts
  <2>2. Stored(j)' = Stored(j) /\ pc'[j] # "RemoveFinalizer"
    BY <1>4, <2>1, RestartFacts, BucketKeysAssumption DEF Responsible
  <2> QED
    BY <2>1, <2>2 DEF Responsible, Held
<1>5. ASSUME NEW k \in Keys, WorkerStep(k) \/ EnvironmentStep(k), Apart(k), Change(k)
      PROVE  \E j \in BucketKeys : Responsible(j, b)'
  BY <1>3, <1>5, ResponsibleStays, ResponsibleAppears
<1>6. ASSUME NEW k \in Keys, EnvironmentStep(k) PROVE Change(k)
  BY <1>6 DEF EnvironmentStep, Change, s3Vars
<1> QED
  BY <1>1, <1>4, <1>5, <1>6, Steps

\* When every Bucket CR has a bucket of its own, it is gone before the finalizer is.
LEMMA GoneBeforeRemoval ==
    ASSUME OneBucketEach, IInv, OrphanBucketInv,
           NEW k \in BucketKeys, pc[k] = "RemoveFinalizer"
    PROVE  Bucket(k) = None
<1>1. Wanted(k) \in Specs[k] /\ Wanted(k).name \in BucketNames
  BY HandlerData, BucketKeysAssumption
<1>2. SUFFICES ASSUME Bucket(k) # None PROVE FALSE
  OBVIOUS
<1>3. PICK j \in BucketKeys : /\ Held(j) /\ Stored(j).spec.name = Wanted(k).name
                              /\ pc[j] # "RemoveFinalizer"
  BY <1>1, <1>2 DEF OrphanBucketInv, Bucket
<1>4. Stored(j).spec \in Specs[j]
  BY <1>3, StoredSpecs, BucketKeysAssumption DEF SpecsStored, Held
<1> QED
  BY <1>1, <1>3, <1>4 DEF OneBucketEach

\* With bucketDeletionEnabled, when no CR is renamed and only the operator changes S3,
\* a bucket never outlives the CRs that ask for it, whatever is stale, refused, lost,
\* retried or restarted between DeleteBucket and the removal of the finalizer, and
\* however many CRs share it.
THEOREM NoBucketIsOrphaned ==
    ASSUME BucketDeletionEnabled, BucketNamesAreKept, MaxTampers = 0
    PROVE  Spec => []NoOrphanBucket
<1>1. Init => OrphanBucketInv
  BY DEF Init, S3Init, OrphanBucketInv
<1>2. IInv /\ OrphanBucketInv /\ [Next]_vars => OrphanBucketInv'
  BY OrphanBucketInductive
<1>3. OrphanBucketInv => NoOrphanBucket
  BY DEF OrphanBucketInv, NoOrphanBucket
<1> QED
  BY <1>1, <1>2, <1>3, InductiveInvariant, PTL DEF Spec

-----------------------------------------------------------------------------
(* The Bucket controller implements ManagedResource *)

BucketCRsHaveSpecs == \A k \in BucketKeys : Specs[k] # {}

\* What the steps of the protocol need to know.
ManagedInv == tampers = 0 /\ (BucketDeletionEnabled => OrphanBucketInv)

Stages == [k \in BucketKeys |-> Stage(k)]
Present == [k \in BucketKeys |-> buckets[NameOf(k)] # None]

LEMMA NamesOfBuckets ==
    ASSUME OneBucketEach, BucketCRsHaveSpecs, NEW k \in BucketKeys
    PROVE  /\ NameOf(k) \in BucketNames
           /\ \A s \in Specs[k] : s.name = NameOf(k)
<1>1. (CHOOSE s \in Specs[k] : TRUE) \in Specs[k]
  BY DEF BucketCRsHaveSpecs
<1> QED
  BY <1>1, BucketKeysAssumption DEF NameOf, OneBucketEach, BucketSpecs

\* A step of the operator or of a user is a step of the protocol, or none.
LEMMA StepsAreManaged ==
    ASSUME OneBucketEach, BucketCRsHaveSpecs, IInv, ManagedInv,
           NEW k \in Keys, WorkerStep(k) \/ EnvironmentStep(k), Apart(k), Change(k)
    PROVE  Protocol!Next \/ (Stages' = Stages /\ Present' = Present)
<1>1. ASSUME NEW j \in BucketKeys \ {k}
      PROVE  /\ Stage(j)' = Stage(j)
             /\ buckets[NameOf(j)] = None <=> buckets'[NameOf(j)] = None
  <2>1. (CHOOSE s \in Specs[j] : TRUE) \in Specs[j]
    BY DEF BucketCRsHaveSpecs
  <2>2. Stored(j)' = Stored(j)
    BY BucketKeysAssumption DEF Apart
  <2> QED
    BY <2>1, <2>2, OthersKeepBucket DEF NameOf, Stage
<1>2. CASE k \notin BucketKeys
  BY <1>1, <1>2 DEF Stages, Present
<1>3. CASE k \in BucketKeys
  <2>1. /\ Stages' = [Stages EXCEPT ![k] = Stage(k)']
        /\ Present' = [Present EXCEPT ![k] = (buckets'[NameOf(k)] # None)]
        /\ Stages[k] = Stage(k) /\ Present[k] = (buckets[NameOf(k)] # None)
    BY <1>1, <1>3 DEF Stages, Present
  <2>2. ASSUME Stage(k)' = Stage(k) PROVE Stages' = Stages
    BY <2>1, <2>2 DEF Stages
  <2>3. ASSUME buckets'[NameOf(k)] = buckets[NameOf(k)] PROVE Present' = Present
    BY <2>1, <2>3 DEF Present
  <2>4. CASE Stored(k)' # Stored(k)
    <3>1. UNCHANGED s3Vars /\ (EditedByUser(k) \/ WrittenByWorker(k))
      BY <2>4, WhoWrites
    <3>2. Present' = Present
      BY <2>3, <3>1 DEF s3Vars
    <3>3. \/ Stage(k)' = Stage(k)
          \/ Stage(k) = "absent" /\ Stage(k)' = "declared"
          \/ Stage(k) = "declared" /\ Stage(k)' = "absent"
          \/ Stage(k) = "held" /\ Stage(k)' = "terminating"
          \/ Stage(k) = "declared" /\ Stage(k)' = "held"
          \/ /\ Stage(k) = "terminating" /\ Stage(k)' = "absent"
             /\ pc[k] = "RemoveFinalizer"
      BY <3>1, LabelsOfTheLoop, StageMoves DEF IInv
    <3>4. pc[k] = "RemoveFinalizer" /\ BucketDeletionEnabled => buckets[NameOf(k)] = None
      BY <1>3, HandlerData, NamesOfBuckets, GoneBeforeRemoval DEF ManagedInv, Bucket
    <3> QED
      BY <1>3, <2>1, <2>2, <3>2, <3>3, <3>4
      DEF Stages, Present, Protocol!Next, Protocol!Declare, Protocol!Withdraw,
          Protocol!Hold, Protocol!Terminate, Protocol!Release, Protocol!Move
  <2>5. CASE Stored(k)' = Stored(k)
    <3>1. Stages' = Stages
      BY <2>2, <2>5 DEF Stage
    <3>2. CASE Creates(k)
      <4>1. Held(k) /\ Wanted(k).name = NameOf(k) /\ NameOf(k) \in BucketNames
        BY <1>3, <3>2, HandlerData, NamesOfBuckets, LabelFacts
        DEF Creates, IInv, LoopIInv, LoopInv, WorkerInv
      <4>2. buckets'[NameOf(k)] # None
        BY <3>2, <4>1, NoneIsNoBucket, AmountsAssumption
        DEF Creates, SetBucket, NewBucket, Buckets, IInv, S3TypeOK
      <4>3. Stage(k) \in {"held", "terminating"}
        BY <4>1 DEF Held, Stage
      <4> QED
        BY <1>3, <2>1, <3>1, <4>2, <4>3
        DEF Stages, Present, Protocol!Next, Protocol!Provision
    <3>3. CASE Removes(k)
      <4>1. /\ Wanted(k).name = NameOf(k) /\ NameOf(k) \in BucketNames /\ res[k].del
            /\ buckets[NameOf(k)] # None /\ buckets'[NameOf(k)] = None
        BY <1>3, <3>3, HandlerData, NamesOfBuckets, LabelFacts
        DEF Removes, Deletable, SetBucket, Bucket, IInv, S3TypeOK, LoopIInv, LoopInv, WorkerInv
      <4>2. PICK j \in BucketKeys : Held(j) /\ Stored(j).spec.name = NameOf(k)
        BY <3>3, <4>1 DEF Removes, ManagedInv, OrphanBucketInv
      <4>3. j = k
        <5>1. Stored(j).spec \in Specs[j] /\ Wanted(k) \in Specs[k]
          BY <3>3, <4>2, HandlerData, StoredSpecs, BucketKeysAssumption
          DEF Removes, SpecsStored, Held
        <5> QED
          BY <1>3, <4>1, <4>2, <5>1 DEF OneBucketEach
      <4>4. Stored(k).del
        BY <4>1, <4>2, <4>3, <3>3 DEF Removes, IInv, LoopIInv, LoopInv, WorkerInv
      <4>5. Stage(k) = "terminating"
        BY <4>2, <4>3, <4>4 DEF Held, Stage
      <4> QED
        BY <1>3, <2>1, <3>1, <3>3, <4>1, <4>5
        DEF Removes, Stages, Present, Protocol!Next, Protocol!Deprovision
    <3>4. CASE ~Creates(k) /\ ~Removes(k)
      <4>1. buckets[NameOf(k)] = None <=> buckets'[NameOf(k)] = None
        BY <1>3, <3>4, NamesOfBuckets, OthersExist
      <4> QED
        BY <2>1, <3>1, <4>1 DEF Present
    <3> QED
      BY <3>2, <3>3, <3>4
  <2> QED
    BY <2>4, <2>5
<1> QED
  BY <1>2, <1>3

\* Each Bucket CR and its bucket go through the protocol of ManagedResource: the
\* finalizer before the bucket, the bucket before the end of the CR, and nothing in
\* between, for any number of CRs and any bound.
THEOREM BucketsAreManaged ==
    ASSUME OneBucketEach, BucketCRsHaveSpecs, MaxTampers = 0
    PROVE  Spec => ImplementsManagedResource
<1>1. Init => ManagedInv /\ Protocol!Init
  <2> SUFFICES ASSUME Init PROVE ManagedInv /\ Protocol!Init
    OBVIOUS
  <2>1. \A k \in Keys : Stored(k) = None /\ pc[k] = "Idle"
    BY DEF Init, LoopInit, Stored
  <2>2. \A k \in BucketKeys : Stage(k) = "absent" /\ buckets[NameOf(k)] = None
    BY <2>1, NamesOfBuckets, BucketKeysAssumption DEF Init, S3Init, Stage
  <2>3. ManagedInv
    BY DEF Init, S3Init, ManagedInv, OrphanBucketInv
  <2> QED
    BY <2>2, <2>3 DEF Protocol!Init
<1>2. IInv /\ ManagedInv /\ [Next]_vars
        => ManagedInv' /\ [Protocol!Next]_<<Stages, Present>>
  <2> SUFFICES ASSUME IInv, ManagedInv, [Next]_vars
               PROVE  ManagedInv' /\ [Protocol!Next]_<<Stages, Present>>
    OBVIOUS
  <2>1. ManagedInv'
    BY Steps, NamesAreKept, OrphanBucketInductive DEF ManagedInv
  <2>2. CASE Restart \/ UNCHANGED vars
    <3>1. Stages' = Stages /\ Present' = Present
      BY <2>2, RestartFacts, BucketKeysAssumption DEF Stages, Present, Stage
    <3> QED
      BY <2>1, <3>1
  <2>3. ASSUME NEW k \in Keys, EnvironmentStep(k) PROVE Change(k)
    BY <2>3 DEF EnvironmentStep, Change, s3Vars
  <2> QED
    BY <2>1, <2>2, <2>3, Steps, StepsAreManaged DEF ManagedInv
<1>3. IInv /\ ManagedInv /\ [Next]_vars
        => [Protocol!Next]_<<[k \in BucketKeys |-> Stage(k)],
                             [k \in BucketKeys |-> buckets[NameOf(k)] # None]>>
  BY <1>2 DEF Stages, Present
<1> QED
  BY <1>1, <1>2, <1>3, InductiveInvariant, PTL
  DEF Spec, ImplementsManagedResource, Protocol!Spec

\* What the protocol is for follows from it alone, whatever the controller does:
\* with deletion enabled no bucket is left when its CR is gone.
THEOREM ManagedBucketsAreNotOrphaned ==
    ASSUME OneBucketEach, BucketCRsHaveSpecs, MaxTampers = 0
    PROVE  Spec => []Protocol!NoOrphan
<1>1. Protocol!Init => Protocol!NoOrphan
  BY DEF Protocol!Init, Protocol!NoOrphan
<1>2. Protocol!NoOrphan /\ [Protocol!Next]_<<Stages, Present>> => Protocol!NoOrphan'
  BY DEF Protocol!NoOrphan, Protocol!Next, Protocol!Declare, Protocol!Withdraw,
         Protocol!Hold, Protocol!Terminate, Protocol!Provision, Protocol!Deprovision,
         Protocol!Release, Protocol!Move, Stages, Present
<1>3. Protocol!NoOrphan /\ [Protocol!Next]_<<[k \in BucketKeys |-> Stage(k)],
                                            [k \in BucketKeys |-> buckets[NameOf(k)] # None]>>
        => Protocol!NoOrphan'
  BY <1>2 DEF Stages, Present
<1>4. Protocol!Spec => []Protocol!NoOrphan
  BY <1>1, <1>3, PTL DEF Protocol!Spec
<1> QED
  BY <1>4, BucketsAreManaged, PTL DEF ImplementsManagedResource

-----------------------------------------------------------------------------
(* A condition that says "Reconciled" is true: the progress of a worker *)

\* The bucket of worker k after its step.
After(k) == buckets'[Wanted(k).name]

\* Nothing is claimed at the other labels.
LEMMA NothingClaimed ==
    ASSUME NEW k \in Keys,
           pc'[k] \notin OverPaths \cup PathLabels,
           k \in BucketKeys /\ pc'[k] \in ProvisionLabels \ {"Handle", "Create"} =>
             After(k) # None /\ UNCHANGED res,
           ~(pc'[k] = "SetStatus" /\ out'[k].reason = "Reconciled")
    PROVE  ProgressInv(k)'
  BY DEF ProgressInv, After, Bucket, Wanted

LEMMA AbortProgress ==
    ASSUME IInv, NEW k \in Keys, Aborts(k)
    PROVE  ProgressInv(k)'
<1>1. pc'[k] = "SetStatus" /\ out'[k].reason # "Reconciled"
  BY DEF Aborts, Abort, Conclude, IInv, LoopIInv, LoopTypeOK
<1> QED
  BY <1>1, NothingClaimed, LabelFacts
  DEF OverPaths, S3Labels, PathLabels, ProvisionLabels, BucketLabels

LEMMA JumpProgress ==
    ASSUME IInv, NEW k \in Keys, UNCHANGED res,
           NEW l \in {"Create", "GetQuota", "SetDefaultQuota", "ResetQuota", "RemoveFinalizer"},
           Goto(k, l), k \in BucketKeys => l \in {"Create", "RemoveFinalizer"} \/ After(k) # None
    PROVE  ProgressInv(k)'
<1>1. pc'[k] = l
  BY DEF Goto, IInv, LoopIInv, LoopTypeOK
<1> QED
  BY <1>1, NothingClaimed, LabelFacts
  DEF OverPaths, S3Labels, PathLabels, ProvisionLabels, BucketLabels

\* Every path is there or still to do, in a bucket with the right quota.
OnTheWay(k, paths) ==
    /\ Elements(paths) \subseteq Elements(Wanted(k).paths)
    /\ \A p \in Elements(Wanted(k).paths) :
         (After(k) # None /\ p \in After(k).objects) \/ p \in Elements(paths)
    /\ k \in BucketKeys => After(k) # None /\ After(k).quota \in QuotasOf(k, Wanted(k))

LEMMA LoopProgress ==
    ASSUME PathCRsListPaths, IInv, NEW k \in Keys, pc[k] # "Idle", UNCHANGED res,
           NEW paths \in Seq(Paths), NEW label \in {"CreatePath", "CheckPath"},
           Loop(k, paths, label), OnTheWay(k, paths)
    PROVE  ProgressInv(k)'
<1>1. todo'[k] = paths
  BY DEF Loop, IInv, S3TypeOK
<1>2. CASE paths # <<>>
  <2>1. pc'[k] = label
    BY <1>2 DEF Loop, Goto, IInv, LoopIInv, LoopTypeOK
  <2> QED
    BY <1>1, <2>1 DEF ProgressInv, OnTheWay, After, Bucket, Wanted, HasObject
<1>3. CASE paths = <<>>
  <2>1. pc'[k] = "SetStatus"
    BY <1>3 DEF Loop, Conclude, IInv, LoopIInv, LoopTypeOK
  <2>2. \A p \in Elements(Wanted(k).paths) : After(k) # None /\ p \in After(k).objects
    BY <1>3, ElementsOfASequence DEF OnTheWay
  <2>3. After(k) # None
    <3>1. CASE k \in BucketKeys
      BY <3>1 DEF OnTheWay
    <3>2. CASE k \in PathKeys
      <4>1. Wanted(k).paths # <<>> /\ Wanted(k).paths \in Seq(Paths)
        BY <3>2, HandlerData DEF PathCRsListPaths
      <4> QED
        BY <2>2, <4>1, ElementsOfASequence
    <3> QED
      BY <3>1, <3>2, KeysAreOfOneKind
  <2>4. SpecApplied(k, Wanted(k), QuotasOf(k, Wanted(k)))'
    BY <2>2, <2>3 DEF SpecApplied, OnTheWay, After, Wanted
  <2> QED
    BY <2>1, <2>4, LabelFacts
    DEF ProgressInv, OverPaths, S3Labels, PathLabels, ProvisionLabels, BucketLabels
<1> QED
  BY <1>2, <1>3

LEMMA RemoveLoopProgress ==
    ASSUME IInv, NEW k \in PathKeys, UNCHANGED res, NEW paths, NEW bad \in BOOLEAN,
           RemoveLoop(k, paths, bad), Elements(paths) \subseteq Elements(Wanted(k).paths)
    PROVE  ProgressInv(k)'
<1>0. k \in Keys /\ k \notin BucketKeys
  BY PathKeysAssumption, KeysAreOfOneKind
<1>1. todo'[k] = paths
  BY <1>0 DEF RemoveLoop, IInv, S3TypeOK
<1>2. \/ pc'[k] \in {"StatPath", "RemoveFinalizer"}
      \/ pc'[k] = "SetStatus" /\ out'[k].reason = "DeletionFailure"
  <2>1. \/ Goto(k, "StatPath") \/ Goto(k, "RemoveFinalizer")
        \/ Conclude(k, "DeletionFailure", TRUE)
    <3>1. paths # <<>> => Goto(k, "StatPath")
      BY DEF RemoveLoop
    <3>2. paths = <<>> /\ bad => Conclude(k, "DeletionFailure", TRUE)
      BY DEF RemoveLoop
    <3>3. paths = <<>> /\ ~bad => Goto(k, "RemoveFinalizer")
      BY DEF RemoveLoop
    <3> QED
      BY <3>1, <3>2, <3>3
  <2> QED
    BY <1>0, <2>1 DEF Goto, Conclude, IInv, LoopIInv, LoopTypeOK
<1> QED
  BY <1>0, <1>1, <1>2 DEF ProgressInv, OverPaths, S3Labels, PathLabels, Wanted

\* A turn of a loop over the paths: one path less to do, and it is there.
LEMMA TurnProgress ==
    ASSUME PathCRsListPaths, IInv, NEW k \in Keys, ProgressInv(k), UNCHANGED res,
           pc[k] \in OverPaths, NEW label \in {"CreatePath", "CheckPath"},
           Loop(k, Tail(todo[k]), label),
           \/ UNCHANGED buckets /\ HasObject(k, Head(todo[k]))
           \/ Bucket(k) # None /\ SetBucket(k, PutObject(k))
    PROVE  ProgressInv(k)'
<1>1. pc[k] # "Idle" /\ todo[k] # <<>>
  BY DEF OverPaths, S3Labels, IInv, HandlerInv
<1>2. /\ Wanted(k).name \in BucketNames /\ todo[k] \in Seq(Paths)
      /\ Tail(todo[k]) \in Seq(Paths)
      /\ buckets \in [BucketNames -> Buckets \cup {None}]
  BY <1>1, HandlerData, HeadAndTail DEF IInv, S3TypeOK
<1>3. Elements(todo[k]) = {Head(todo[k])} \cup Elements(Tail(todo[k]))
  BY <1>1, <1>2, ElementsOfASequence
<1>4. /\ k \in BucketKeys => Bucket(k) # None /\ Bucket(k).quota \in QuotasOf(k, Wanted(k))
      /\ Elements(todo[k]) \subseteq Elements(Wanted(k).paths)
      /\ \A p \in Elements(Wanted(k).paths) : HasObject(k, p) \/ p \in Elements(todo[k])
  BY DEF ProgressInv, OverPaths, ProvisionLabels, S3Labels, BucketLabels
<1>5. CASE UNCHANGED buckets /\ HasObject(k, Head(todo[k]))
  <2>1. After(k) = Bucket(k)
    BY <1>5 DEF After, Bucket
  <2>2. OnTheWay(k, Tail(todo[k]))
    BY <1>3, <1>4, <1>5, <2>1 DEF OnTheWay, HasObject
  <2> QED
    BY <1>1, <1>2, <2>2, LoopProgress
<1>6. CASE Bucket(k) # None /\ SetBucket(k, PutObject(k))
  <2>1. Bucket(k) \in Buckets /\ PutObject(k) \in Buckets
    BY <1>1, <1>2, <1>6, PutObjectTypes DEF Bucket
  <2>2. /\ PutObject(k).quota = Bucket(k).quota
        /\ PutObject(k).objects = Bucket(k).objects \cup {Head(todo[k])}
    BY <2>1 DEF PutObject, Buckets
  <2>3. After(k) = PutObject(k)
    BY <1>2, <1>6 DEF After, SetBucket
  <2>4. OnTheWay(k, Tail(todo[k]))
    BY <1>3, <1>4, <2>1, <2>2, <2>3, NoneIsNoBucket DEF OnTheWay, HasObject
  <2> QED
    BY <1>1, <1>2, <2>4, LoopProgress
<1> QED
  BY <1>5, <1>6

\* The loop both controllers make.
LEMMA PathLoopProgress ==
    ASSUME PathCRsListPaths, IInv, NEW k \in Keys, ProgressInv(k),
           CheckPath(k) \/ AddPath(k) \/ CreatePath(k)
    PROVE  ProgressInv(k)'
<1>1. UNCHANGED res /\ pc[k] \in OverPaths
  BY DEF CheckPath, AddPath, CreatePath, At, OverPaths, S3Labels
<1>2. Aborts(k) => ProgressInv(k)'
  BY AbortProgress
<1>3. CASE CheckPath(k)
  <2>1. ASSUME Goto(k, "AddPath"), UNCHANGED todo, Reads PROVE ProgressInv(k)'
    <3>1. pc'[k] = "AddPath" /\ pc[k] = "CheckPath" /\ buckets' = buckets
      BY <1>3, <2>1 DEF Goto, IInv, LoopIInv, LoopTypeOK, CheckPath, At, Reads
    <3> QED
      BY <1>1, <2>1, <3>1
      DEF ProgressInv, OverPaths, S3Labels, PathLabels, ProvisionLabels, Bucket, Wanted,
          HasObject
  <2>2. ASSUME Loop(k, Tail(todo[k]), "CheckPath"), HasObject(k, Head(todo[k])), Reads
        PROVE  ProgressInv(k)'
    BY <1>1, <2>2, TurnProgress DEF Reads
  <2> QED
    BY <1>2, <1>3, <2>1, <2>2 DEF CheckPath, Aborts, Reasons
<1>4. CASE AddPath(k) \/ CreatePath(k)
  <2>1. ASSUME NEW label \in {"CreatePath", "CheckPath"}, Loop(k, Tail(todo[k]), label),
               CallWorks(k, Bucket(k) # None, PutObject(k))
        PROVE  ProgressInv(k)'
    BY <1>1, <2>1, TurnProgress DEF CallWorks
  <2> QED
    BY <1>2, <1>4, <2>1 DEF AddPath, CreatePath, Aborts, Reasons
<1> QED
  BY <1>3, <1>4

\* The handlers of a Bucket CR.
LEMMA BucketProgress ==
    ASSUME PathCRsListPaths, IInv, NEW k \in Keys, ProgressInv(k), BucketStep(k)
    PROVE  ProgressInv(k)'
<1>1. k \in BucketKeys /\ pc[k] # "Idle" /\ UNCHANGED res
  BY DEF BucketStep, HandleBucket, CreateBucket, SetDefaultQuota, CreatePath, GetQuota,
         ResetQuota, CheckPath, AddPath, FinalizeBucket, At
<1>2. /\ Wanted(k) \in Specs[k] /\ Wanted(k).name \in BucketNames
      /\ Wanted(k).paths \in Seq(Paths) /\ todo[k] \in Seq(Paths)
      /\ Bucket(k) \in Buckets \cup {None}
      /\ buckets \in [BucketNames -> Buckets \cup {None}]
  BY <1>1, HandlerData DEF IInv, S3TypeOK
<1>3. Aborts(k) => ProgressInv(k)'
  BY AbortProgress
<1>4. ASSUME NEW l \in {"Create", "GetQuota", "SetDefaultQuota", "ResetQuota",
                       "RemoveFinalizer"},
             Goto(k, l), l \in {"Create", "RemoveFinalizer"} \/ After(k) # None
      PROVE  ProgressInv(k)'
  BY <1>1, <1>4, JumpProgress
<1>5. ASSUME NEW paths \in Seq(Paths), NEW l \in {"CreatePath", "CheckPath"},
             Loop(k, paths, l), OnTheWay(k, paths)
      PROVE  ProgressInv(k)'
  BY <1>1, <1>5, LoopProgress
<1>6. ASSUME NEW v, SetBucket(k, v) PROVE After(k) = v
  BY <1>2, <1>6 DEF SetBucket, After
<1>7. Reads => After(k) = Bucket(k)
  BY DEF Reads, After, Bucket
<1>8. CASE HandleBucket(k)
  BY <1>3, <1>4, <1>7, <1>8 DEF HandleBucket, Aborts, Reasons
<1>9. CASE CreateBucket(k)
  <2>1. NewBucket # None
    BY NoneIsNoBucket, AmountsAssumption DEF NewBucket, Buckets
  <2>2. CallWorks(k, Bucket(k) = None, NewBucket) => After(k) # None
    BY <1>6, <2>1 DEF CallWorks
  <2> QED
    BY <1>3, <1>4, <1>9, <2>2 DEF CreateBucket, Aborts, Reasons
<1>10. CASE SetDefaultQuota(k) \/ ResetQuota(k)
  <2>1. PICK q \in Amounts \cap QuotasOf(k, Wanted(k)),
             label \in {"CreatePath", "CheckPath"} :
          LET b == [Bucket(k) EXCEPT !.quota = q] IN
            \/ CallWorks(k, Bucket(k) # None, b) /\ Loop(k, Wanted(k).paths, label)
            \/ Aborts(k)
    <3>1. /\ Wanted(k).default \in QuotasOf(k, Wanted(k))
          /\ EffectiveQuota(Wanted(k)) \in QuotasOf(k, Wanted(k))
      BY <1>1 DEF QuotasOf
    <3>2. /\ pc[k] = "SetDefaultQuota" => Wanted(k).default \in Amounts
          /\ pc[k] = "ResetQuota" => EffectiveQuota(Wanted(k)) \in Amounts
      BY <1>1, HandlerData
      DEF IInv, HandlerInv, Convertible, EffectiveQuota, Quantities, Wanted
    <3>3. CASE SetDefaultQuota(k)
      BY <3>1, <3>2, <3>3 DEF SetDefaultQuota, At, Aborts, Reasons
    <3>4. CASE ResetQuota(k)
      BY <3>1, <3>2, <3>4 DEF ResetQuota, At, Aborts, Reasons
    <3> QED
      BY <1>10, <3>3, <3>4
  <2> DEFINE b == [Bucket(k) EXCEPT !.quota = q]
  <2>2. CASE CallWorks(k, Bucket(k) # None, b) /\ Loop(k, Wanted(k).paths, label)
    <3>1. Bucket(k) # None /\ SetBucket(k, b)
      BY <2>2 DEF CallWorks
    <3>2. b \in Buckets /\ b.quota = q
      BY <1>2, <3>1 DEF Buckets
    <3>3. After(k) = b
      BY <1>6, <3>1
    <3> HIDE DEF b
    <3>4. OnTheWay(k, Wanted(k).paths)
      BY <3>2, <3>3, NoneIsNoBucket DEF OnTheWay
    <3> QED
      BY <1>2, <1>5, <2>2, <3>4
  <2> QED
    BY <1>3, <2>1, <2>2
<1>11. CASE CheckPath(k) \/ AddPath(k) \/ CreatePath(k)
  BY <1>11, PathLoopProgress
<1>12. CASE GetQuota(k)
  <2>1. EffectiveQuota(Wanted(k)) \in QuotasOf(k, Wanted(k))
    BY <1>1 DEF QuotasOf
  <2>2. Reads /\ Bucket(k) # None /\ Bucket(k).quota = EffectiveQuota(Wanted(k))
          => OnTheWay(k, Wanted(k).paths)
    BY <1>7, <2>1 DEF OnTheWay
  <2> QED
    BY <1>2, <1>3, <1>4, <1>5, <1>7, <1>12, <2>2 DEF GetQuota, Aborts, Reasons
<1>13. CASE FinalizeBucket(k)
  BY <1>3, <1>4, <1>13 DEF FinalizeBucket, Aborts, Reasons
<1> QED
  BY <1>8, <1>9, <1>10, <1>11, <1>12, <1>13 DEF BucketStep

\* The handlers of a Path CR.
LEMMA PathProgress ==
    ASSUME PathCRsListPaths, IInv, NEW k \in Keys, ProgressInv(k), PathStep(k)
    PROVE  ProgressInv(k)'
<1>1. k \in PathKeys /\ pc[k] # "Idle" /\ UNCHANGED res
  BY DEF PathStep, HandlePath, FinalizePath, StatPath, DeletePath, CheckPath, AddPath, At
<1>2. /\ Wanted(k).paths \in Seq(Paths) /\ todo[k] \in Seq(Paths)
      /\ failed[k] \in BOOLEAN
  BY <1>1, HandlerData
<1>3. Aborts(k) => ProgressInv(k)'
  BY AbortProgress
<1>4. ASSUME NEW paths, NEW bad \in BOOLEAN, RemoveLoop(k, paths, bad),
             Elements(paths) \subseteq Elements(Wanted(k).paths)
      PROVE  ProgressInv(k)'
  BY <1>1, <1>4, RemoveLoopProgress
<1>5. ASSUME pc[k] \in PathLabels
      PROVE  Elements(Tail(todo[k])) \subseteq Elements(Wanted(k).paths)
  <2>1. todo[k] # <<>>
    BY <1>5 DEF IInv, HandlerInv
  <2> QED
    BY <1>2, <1>5, <2>1, ElementsOfASequence DEF ProgressInv
<1>6. k \notin BucketKeys
  BY <1>1, KeysAreOfOneKind
<1>7. CASE HandlePath(k)
  <2>1. ASSUME Bucket(k) # None, Reads, Loop(k, Wanted(k).paths, "CheckPath")
        PROVE  ProgressInv(k)'
    <3>1. OnTheWay(k, Wanted(k).paths)
      BY <1>6 DEF OnTheWay
    <3> QED
      BY <1>1, <1>2, <2>1, <3>1, LoopProgress
  <2> QED
    BY <1>3, <1>7, <2>1 DEF HandlePath, Aborts, Reasons
<1>8. CASE CheckPath(k) \/ AddPath(k)
  BY <1>8, PathLoopProgress
<1>9. CASE FinalizePath(k)
  <2>1. Goto(k, "RemoveFinalizer") => ProgressInv(k)'
    BY <1>1, <1>6, JumpProgress
  <2> QED
    BY <1>3, <1>4, <1>9, <2>1 DEF FinalizePath, Aborts, Reasons
<1>10. CASE StatPath(k)
  <2>1. pc[k] \in PathLabels
    BY <1>10 DEF StatPath, At, PathLabels
  <2>2. ASSUME Goto(k, "DeletePath"), UNCHANGED todo PROVE ProgressInv(k)'
    <3>1. pc'[k] = "DeletePath"
      BY <2>2 DEF Goto, IInv, LoopIInv, LoopTypeOK
    <3> QED
      BY <1>1, <1>6, <2>1, <2>2, <3>1
      DEF ProgressInv, OverPaths, S3Labels, PathLabels, Wanted
  <2> QED
    BY <1>2, <1>4, <1>5, <1>10, <2>1, <2>2 DEF StatPath
<1>11. CASE DeletePath(k)
  <2>1. pc[k] \in PathLabels
    BY <1>11 DEF DeletePath, At, PathLabels
  <2> QED
    BY <1>2, <1>4, <1>5, <1>11, <2>1 DEF DeletePath, FailureRecorded
<1> QED
  BY <1>7, <1>8, <1>9, <1>10, <1>11 DEF PathStep

\* The common part of Reconcile, the users and the watch.
LEMMA LoopProgresses ==
    ASSUME IInv, NEW k \in Keys, ProgressInv(k), UNCHANGED s3Vars,
           LoopStep(k) \/ UserStep(k) \/ Deliver(k)
    PROVE  ProgressInv(k)'
<1>1. UserStep(k) \/ Deliver(k) => UNCHANGED <<pc, res, out>>
  BY DEF UserStep, UserCreate, UserEdit, UserTouch, UserDelete, UserWrites, Deliver
<1>2. CASE UNCHANGED <<pc, res, out>>
  BY <1>2 DEF s3Vars, ProgressInv, SpecApplied, Bucket, Wanted, HasObject
<1>3. CASE pc'[k] \in LoopLabels \ {"SetStatus", "RemoveFinalizer"}
  BY <1>3, NothingClaimed
  DEF LoopLabels, OverPaths, S3Labels, PathLabels, ProvisionLabels, BucketLabels
<1> QED
  BY <1>1, <1>2, <1>3, LoopMoves DEF IInv, LoopIInv

\* What was applied for a CR stays so, whatever the worker of another does.
LEMMA OthersApplied ==
    ASSUME OneBucketEach, OnePathEach, PathCRsListPaths, IInv,
           NEW k \in Keys, Apart(k), Change(k), OwnPaths(k),
           NEW j \in Keys \ {k}, NEW s \in Specs[j],
           SpecApplied(j, s, QuotasOf(j, s))
    PROVE  SpecApplied(j, s, QuotasOf(j, s))'
<1>1. \A p \in Elements(s.paths) : Has(s.name, p) <=> Has(s.name, p)'
  BY OthersKeepPaths
<1>2. \A p \in Elements(s.paths) : Has(s.name, p)'
  BY <1>1 DEF SpecApplied, Has
<1>3. CASE j \in BucketKeys
  <2>1. buckets'[s.name] # None /\ buckets'[s.name].quota = buckets[s.name].quota
    BY <1>3, OthersKeepBucket DEF SpecApplied
  <2> QED
    BY <1>2, <1>3, <2>1 DEF SpecApplied, Has
<1>4. CASE j \in PathKeys
  <2>1. s.paths \in Seq(Paths) /\ s.paths # <<>>
    BY <1>4, PathKeysAssumption DEF PathSpecs, PathCRsListPaths
  <2>2. Head(s.paths) \in Elements(s.paths)
    BY <2>1, ElementsOfASequence
  <2> QED
    BY <1>2, <1>4, <2>2, KeysAreOfOneKind DEF SpecApplied, Has
<1> QED
  BY <1>3, <1>4, KeysAreOfOneKind

\* The worker of another CR takes nothing away.
LEMMA OthersProgress ==
    ASSUME OneBucketEach, OnePathEach, PathCRsListPaths, IInv, NEW k \in Keys, Apart(k), Change(k),
           OwnPaths(k), NEW j \in Keys \ {k}, ProgressInv(j)
    PROVE  ProgressInv(j)'
<1>1. /\ pc'[j] = pc[j] /\ res'[j] = res[j] /\ out'[j] = out[j]
      /\ todo'[j] = todo[j] /\ failed'[j] = failed[j]
  BY DEF Apart, LeftAlone
<1>2. CASE pc[j] = "Idle"
  BY <1>1, <1>2
  DEF ProgressInv, OverPaths, S3Labels, PathLabels, ProvisionLabels, BucketLabels
<1>3. CASE pc[j] # "Idle"
  <2>1. Wanted(j) \in Specs[j] /\ Wanted(j)' = Wanted(j)
    BY <1>1, <1>3, HandlerData DEF Wanted
  <2>2. \A p \in Elements(Wanted(j).paths) :
          Has(Wanted(j).name, p) <=> Has(Wanted(j).name, p)'
    BY <2>1, OthersKeepPaths
  <2>3. \A p \in Elements(Wanted(j).paths) : HasObject(j, p) <=> HasObject(j, p)'
    BY <2>1, <2>2 DEF Has, HasObject, Bucket
  <2>4. j \in BucketKeys => /\ Bucket(j) = None <=> Bucket(j)' = None
                            /\ Bucket(j) # None => Bucket(j)'.quota = Bucket(j).quota
    BY <2>1, OthersKeepBucket DEF Bucket
  <2>5. SpecApplied(j, Wanted(j), QuotasOf(j, Wanted(j)))
          => SpecApplied(j, Wanted(j), QuotasOf(j, Wanted(j)))'
    BY <1>3, <2>1, OthersApplied DEF Wanted
  <2> QED
    BY <1>1, <2>1, <2>3, <2>4, <2>5
    DEF ProgressInv, QuotasOf, EffectiveQuota
<1> QED
  BY <1>2, <1>3

\* A worker does not undo what the condition of its own CR says.
LEMMA OwnApplied ==
    ASSUME IInv, NEW k \in Keys, ReconciledNow(k), InPlace(k), Change(k)
    PROVE  LET spec == Stored(k).spec
               b == buckets'[spec.name]
           IN  /\ b # None
               /\ Elements(spec.paths) \subseteq b.objects
               /\ k \in BucketKeys => b.quota \in QuotasOf(k, spec)
<1> DEFINE spec == Stored(k).spec
           b == buckets'[spec.name]
<1>1. SpecApplied(k, spec, QuotasOf(k, spec))
  BY DEF InPlace
<1>2. /\ buckets[spec.name] # None /\ Elements(spec.paths) \subseteq buckets[spec.name].objects
      /\ k \in BucketKeys => buckets[spec.name].quota \in QuotasOf(k, spec)
  BY <1>1 DEF SpecApplied
<1>3. ConditionInv(k) /\ WorkerInv(k, ProvisionLabels, DeletingLabels)
  BY DEF IInv, LoopIInv, LoopInv
<1>4. CASE UNCHANGED buckets
  BY <1>1, <1>2, <1>4
<1>5. CASE pc[k] # "Idle"
  <2>1. Wanted(k) = spec /\ ~res[k].del
    BY <1>3, <1>5 DEF ConditionInv, ReconciledNow, SameGeneration, Wanted
  <2>2. pc[k] \notin {"Finalize", "DeletePath"}
    BY <1>3, <2>1, LabelFacts DEF WorkerInv
  <2>3. Bucket(k) = buckets[spec.name] /\ spec.name \in BucketNames
    BY <1>5, <2>1, HandlerData DEF Bucket
  <2>4. buckets \in [BucketNames -> Buckets \cup {None}]
    BY DEF IInv, S3TypeOK
  <2>5. CASE SetsQuota(k)
    <3>1. PICK q \in Amounts \cap QuotasOf(k, spec) :
            SetBucket(k, [Bucket(k) EXCEPT !.quota = q])
      BY <2>1, <2>5 DEF SetsQuota
    <3>2. /\ [Bucket(k) EXCEPT !.quota = q] \in Buckets
          /\ [Bucket(k) EXCEPT !.quota = q].quota = q
          /\ [Bucket(k) EXCEPT !.quota = q].objects = Bucket(k).objects
      BY <1>2, <2>3, <2>4 DEF Buckets
    <3>3. b = [Bucket(k) EXCEPT !.quota = q]
      BY <2>1, <2>3, <2>4, <3>1 DEF SetBucket
    <3> QED
      BY <1>1, <1>2, <2>3, <3>2, <3>3, NoneIsNoBucket
  <2>6. CASE Puts(k)
    <3>1. PICK c \in Buckets :
            /\ SetBucket(k, c)
            /\ c.quota = Bucket(k).quota
            /\ c.objects = Bucket(k).objects \cup {Head(todo[k])}
      BY <2>6, PathCalls
    <3>2. b = c
      BY <2>1, <2>3, <2>4, <3>1 DEF SetBucket
    <3> QED
      BY <1>1, <1>2, <2>3, <3>1, <3>2, NoneIsNoBucket
  <2> QED
    BY <1>2, <1>4, <2>2, <2>3, <2>5, <2>6 DEF Change, Creates, Removes, Takes
<1>6. pc[k] = "Idle" => UNCHANGED buckets
  BY DEF Change, Creates, SetsQuota, Puts, Removes, Takes
<1> QED
  BY <1>4, <1>5, <1>6

\* A condition that comes to say, or still says, "Reconciled" is true.
LEMMA ReconciledStaysApplied ==
    ASSUME OneBucketEach, OnePathEach, PathCRsListPaths, IInv, AppliedInv,
           NEW k \in Keys, WorkerStep(k) \/ EnvironmentStep(k), Apart(k), Change(k),
           NEW j \in Keys, ReconciledNow(j)'
    PROVE  InPlace(j)'
<1>1. OwnPaths(k) /\ ProgressInv(k) /\ (ReconciledNow(j) => InPlace(j))
  BY DEF AppliedInv, ProgressInv, OwnPaths
<1>2. CASE j # k
  <2>1. Stored(j)' = Stored(j)
    BY <1>2 DEF Apart
  <2>2. ReconciledNow(j)
    BY <2>1 DEF ReconciledNow
  <2>3. Stored(j).spec \in Specs[j]
    BY <2>2, StoredSpecs DEF SpecsStored, ReconciledNow
  <2>4. SpecApplied(j, Stored(j).spec, QuotasOf(j, Stored(j).spec))
    BY <1>1, <2>2 DEF InPlace
  <2>5. SpecApplied(j, Stored(j).spec, QuotasOf(j, Stored(j).spec))'
    BY <1>1, <1>2, <2>1, <2>3, <2>4, OthersApplied
  <2> QED
    BY <2>5 DEF InPlace
<1>3. CASE j = k /\ Stored(k)' = Stored(k)
  <2>1. ReconciledNow(k) /\ InPlace(k)
    BY <1>1, <1>3 DEF ReconciledNow
  <2> QED
    BY <1>3, <2>1, OwnApplied
    DEF InPlace, SpecApplied, QuotasOf, EffectiveQuota
<1>4. CASE j = k /\ Stored(k)' # Stored(k)
  <2>1. /\ UNCHANGED s3Vars
        /\ EditedByUser(k) \/ WrittenByWorker(k)
    BY <1>4, WhoWrites
  <2>2. ~EditedByUser(k)
    <3>1. Stored(k) # None => /\ Stored(k).cond.obs <= Stored(k).gen
                              /\ Stored(k).gen \in Nat /\ Stored(k).cond.obs \in Nat
      BY StoredFacts DEF IInv
    <3> QED
      BY <1>4, <3>1 DEF EditedByUser, ReconciledNow, NoCondition
  <2>3. /\ cur[k] /\ SameGeneration(Stored(k), Stored(k)')
        /\ \/ Stored(k)'.cond = Stored(k).cond
           \/ pc[k] = "SetStatus" /\ Stored(k)'.cond = ConditionOf(res[k], out[k])
    BY <1>4, <2>1, <2>2 DEF WrittenByWorker, ReconciledNow
  <2>4. res[k] = Stored(k)
    BY <2>3 DEF IInv, LoopIInv, LoopInv, WorkerInv
  <2>5. SpecApplied(k, Stored(k).spec, QuotasOf(k, Stored(k).spec))
    <3>1. CASE Stored(k)'.cond = Stored(k).cond
      <4>1. ReconciledNow(k)
        BY <1>4, <2>3, <3>1 DEF ReconciledNow, SameGeneration
      <4> QED
        BY <1>1, <1>4, <4>1 DEF InPlace
    <3>2. CASE pc[k] = "SetStatus" /\ Stored(k)'.cond = ConditionOf(res[k], out[k])
      <4>1. out[k].reason = "Reconciled"
        BY <1>4, <3>2 DEF ReconciledNow, ConditionOf
      <4> QED
        BY <1>1, <2>4, <3>2, <4>1 DEF ProgressInv, Wanted
    <3> QED
      BY <2>3, <3>1, <3>2
  <2>6. Stored(k)'.spec = Stored(k).spec
    BY <2>3 DEF SameGeneration
  <2> QED
    BY <1>4, <2>1, <2>5, <2>6
    DEF InPlace, SpecApplied, QuotasOf, EffectiveQuota, s3Vars
<1> QED
  BY <1>2, <1>3, <1>4

LEMMA AppliedInductive ==
    ASSUME OneBucketEach, OnePathEach, PathCRsListPaths, IInv, AppliedInv, [Next]_vars
    PROVE  AppliedInv'
<1>1. tampers = 0
  BY DEF AppliedInv
<1>2. CASE Restart \/ UNCHANGED vars
  <2>1. (\A j \in Keys : ReconciledNow(j) => InPlace(j))'
    BY <1>2, RestartFacts
    DEF AppliedInv, ReconciledNow, InPlace,
        SpecApplied, QuotasOf, EffectiveQuota
  <2>2. ASSUME NEW k \in Keys PROVE ProgressInv(k)'
    <3>1. CASE pc'[k] = "Idle"
      BY <3>1 DEF ProgressInv, OverPaths, S3Labels, PathLabels, ProvisionLabels, BucketLabels
    <3>2. CASE UNCHANGED <<pc, res, out, todo, failed>>
      BY <1>2, <3>2, RestartFacts
      DEF AppliedInv, ProgressInv, Bucket, Wanted, HasObject, SpecApplied,
          QuotasOf, EffectiveQuota
    <3> QED
      BY <1>2, <3>1, <3>2, RestartFacts
  <2> QED
    BY <1>1, <2>1, <2>2, Steps DEF AppliedInv
<1>3. ASSUME NEW k \in Keys, WorkerStep(k) \/ EnvironmentStep(k), Apart(k), Change(k)
      PROVE  AppliedInv'
  <2>1. OwnPaths(k) /\ \A j \in Keys : ProgressInv(j)
    BY DEF AppliedInv, ProgressInv, OwnPaths
  <2>2. ProgressInv(k)'
    BY <1>3, <2>1, BucketProgress, PathProgress, LoopProgresses
    DEF WorkerStep, EnvironmentStep
  <2>3. \A j \in Keys \ {k} : ProgressInv(j)'
    BY <1>3, <2>1, OthersProgress
  <2>4. (\A j \in Keys : ReconciledNow(j) => InPlace(j))'
    BY <1>3, ReconciledStaysApplied
  <2> QED
    BY <1>1, <2>2, <2>3, <2>4, Steps DEF AppliedInv
<1>4. ASSUME NEW k \in Keys, EnvironmentStep(k) PROVE Change(k)
  BY <1>4 DEF EnvironmentStep, Change, s3Vars
<1> QED
  BY <1>1, <1>2, <1>3, <1>4, Steps

\* When every Bucket CR has a bucket of its own, no path is listed by two CRs, every
\* Path CR lists one, no bucket has an override and only the operator changes S3, a
\* condition that says "Reconciled" of the current generation is true, however stale
\* the copy it was written from and whatever the other workers do meanwhile.  Of a
\* bucket made with an override it is not (the run QuotaOverride).
THEOREM ReconciledIsApplied ==
    ASSUME OneBucketEach, OnePathEach, PathCRsListPaths, NoOverrides, MaxTampers = 0
    PROVE  Spec => []ReconciledMeansApplied
<1>1. Init => AppliedInv
  <2> SUFFICES ASSUME Init PROVE AppliedInv
    OBVIOUS
  <2>1. \A k \in Keys : Stored(k) = None /\ pc[k] = "Idle"
    BY DEF Init, LoopInit, Stored
  <2> QED
    BY <2>1
    DEF Init, S3Init, AppliedInv, ReconciledNow, ProgressInv,
        OverPaths, S3Labels, PathLabels, ProvisionLabels, BucketLabels
<1>2. IInv /\ AppliedInv /\ [Next]_vars => AppliedInv'
  BY AppliedInductive
<1>3. IInv /\ AppliedInv => ReconciledMeansApplied
  <2> SUFFICES ASSUME IInv, AppliedInv, NEW k \in Keys, ReconciledNow(k)
               PROVE  Applied(k)
    BY DEF ReconciledMeansApplied
  <2>1. InPlace(k)
    BY DEF AppliedInv
  <2>2. Stored(k).spec \in Specs[k]
    BY StoredSpecs DEF SpecsStored, ReconciledNow
  <2>3. k \in BucketKeys =>
          QuotasOf(k, Stored(k).spec) = {EffectiveQuota(Stored(k).spec)}
    BY <2>2 DEF NoOverrides, QuotasOf, EffectiveQuota
  <2> QED
    BY <2>1, <2>3 DEF InPlace, Applied, SpecApplied
<1> QED
  BY <1>1, <1>2, <1>3, InductiveInvariant, PTL DEF Spec

-----------------------------------------------------------------------------
(* No path outlives its CR *)

\* When no read of S3 fails at first, none ever does.
LEMMA ReadsStayReliable ==
    ASSUME IInv, budget.reads = 0, [Next]_vars
    PROVE  budget'.reads = 0
<1>1. budget \in [user : Nat, faults : Nat, reads : Nat]
  BY DEF IInv, LoopIInv, LoopTypeOK
<1>2. Fault => budget'.reads = 0
  BY <1>1 DEF Fault
<1>3. UserWrites => budget'.reads = 0
  BY <1>1 DEF UserWrites
<1>4. ~ReadFails
  BY DEF ReadFails
<1>5. ASSUME NEW k \in Keys, NEW possible, NEW v,
             \/ CallWorks(k, possible, v) \/ CallFails(k, possible, v)
             \/ WriteWorks(k, v) \/ WriteFails(k, v)
      PROVE  budget'.reads = 0
  BY <1>2, <1>5 DEF CallWorks, CallFails, WriteWorks, WriteFails
<1>6. Reads => budget'.reads = 0
  BY DEF Reads
<1>7. ASSUME NEW k \in Keys, BucketStep(k) PROVE budget'.reads = 0
  BY <1>4, <1>5, <1>6, <1>7
  DEF BucketStep, HandleBucket, CreateBucket, SetDefaultQuota, CreatePath, GetQuota,
      ResetQuota, CheckPath, AddPath, FinalizeBucket
<1>8. ASSUME NEW k \in Keys, PathStep(k) PROVE budget'.reads = 0
  BY <1>4, <1>5, <1>6, <1>8
  DEF PathStep, HandlePath, FinalizePath, StatPath, DeletePath, CheckPath, AddPath
<1>9. ASSUME NEW k \in Keys, LoopStep(k) PROVE budget'.reads = 0
  BY <1>5, <1>9
  DEF LoopStep, StartGone, Start, InitStatus, RefetchStatus, AddFinalizer,
      RefetchFinalizer, SetStatus, RemoveFinalizer, Refetch, Update
<1>10. ASSUME NEW k \in Keys, UserStep(k) \/ Deliver(k) PROVE budget'.reads = 0
  BY <1>3, <1>10
  DEF UserStep, UserCreate, UserEdit, UserTouch, UserDelete, Deliver
<1>11. Restart => budget'.reads = 0
  BY <1>2 DEF Restart, Crash
<1>12. (\E b \in BucketNames : Tamper(b)) \/ UNCHANGED vars => budget'.reads = 0
  BY DEF Tamper, vars, loopVars
<1> QED
  BY <1>7, <1>8, <1>9, <1>10, <1>11, <1>12 DEF Next, WorkerStep, EnvironmentStep

\* The loop of finalizePath accounts for every path of the CR.
LEMMA RemoveLoopAccounts ==
    ASSUME IInv, NEW k \in PathKeys, UNCHANGED res, NEW paths \in Seq(Paths),
           NEW bad \in BOOLEAN, RemoveLoop(k, paths, bad),
           \A p \in Elements(Wanted(k).paths) :
             (After(k) # None /\ p \in After(k).objects) => (p \in Elements(paths) \/ bad)
    PROVE  RemovalInv(k)'
<1>0. k \in Keys
  BY PathKeysAssumption
<1>1. /\ todo'[k] = paths
      /\ failed'[k] = (bad /\ paths # <<>>)
  BY <1>0 DEF RemoveLoop, IInv, S3TypeOK
<1>2. CASE paths # <<>>
  <2>1. Goto(k, "StatPath")
    BY <1>2 DEF RemoveLoop
  <2>2. pc'[k] = "StatPath"
    BY <1>0, <2>1 DEF Goto, IInv, LoopIInv, LoopTypeOK
  <2> QED
    BY <1>1, <1>2, <2>2 DEF RemovalInv, After, HasObject, Bucket, Wanted
<1>3. CASE paths = <<>> /\ bad
  <2>1. Conclude(k, "DeletionFailure", TRUE)
    BY <1>3 DEF RemoveLoop
  <2>2. pc'[k] = "SetStatus"
    BY <1>0, <2>1 DEF Conclude, IInv, LoopIInv, LoopTypeOK
  <2> QED
    BY <2>2 DEF RemovalInv, PathLabels
<1>4. CASE paths = <<>> /\ ~bad
  <2>1. Goto(k, "RemoveFinalizer")
    BY <1>4 DEF RemoveLoop
  <2>2. pc'[k] = "RemoveFinalizer"
    BY <1>0, <2>1 DEF Goto, IInv, LoopIInv, LoopTypeOK
  <2>3. Elements(paths) = {}
    BY <1>4, ElementsOfASequence
  <2> QED
    BY <1>4, <2>2, <2>3
    DEF RemovalInv, PathLabels, After, HasObject, Bucket, Wanted
<1> QED
  BY <1>2, <1>3, <1>4

\* The worker of a Path CR being deleted.
LEMMA OwnRemoval ==
    ASSUME PathDeletionEnabled, IInv, NEW k \in PathKeys, RemovalInv(k), budget.reads = 0,
           WorkerStep(k) \/ EnvironmentStep(k)
    PROVE  RemovalInv(k)'
<1>0. k \in Keys /\ k \notin BucketKeys
  BY PathKeysAssumption, KeysAreOfOneKind
<1>1. ASSUME pc'[k] \notin PathLabels \cup {"RemoveFinalizer"} PROVE RemovalInv(k)'
  BY <1>1 DEF RemovalInv
<1>2. CASE (LoopStep(k) \/ UserStep(k) \/ Deliver(k)) /\ UNCHANGED s3Vars
  <2>1. UserStep(k) \/ Deliver(k) => UNCHANGED <<pc, res>>
    BY DEF UserStep, UserCreate, UserEdit, UserTouch, UserDelete, UserWrites, Deliver
  <2>2. CASE UNCHANGED <<pc, res>>
    BY <1>2, <2>2 DEF RemovalInv, HasObject, Bucket, Wanted, s3Vars
  <2>3. CASE pc'[k] \in LoopLabels \ {"SetStatus", "RemoveFinalizer"}
    BY <1>1, <2>3 DEF LoopLabels, PathLabels
  <2> QED
    BY <1>0, <1>2, <2>1, <2>2, <2>3, LoopMoves DEF IInv, LoopIInv
<1>3. CASE PathStep(k)
  <2>1. pc[k] # "Idle" /\ UNCHANGED res
    BY <1>3
    DEF PathStep, HandlePath, FinalizePath, StatPath, DeletePath, CheckPath, AddPath, At
  <2>2. /\ Wanted(k).paths \in Seq(Paths) /\ todo[k] \in Seq(Paths)
        /\ Wanted(k).name \in BucketNames
        /\ failed[k] \in BOOLEAN
    BY <1>0, <2>1, HandlerData
  <2>3. pc \in [Keys -> Labels] /\ ~ReadFails
    BY DEF IInv, LoopIInv, LoopTypeOK, ReadFails
  <2>4. Reads => After(k) = Bucket(k)
    BY DEF Reads, After, Bucket
  <2>5. ASSUME NEW paths \in Seq(Paths), NEW bad \in BOOLEAN, RemoveLoop(k, paths, bad),
               \A p \in Elements(Wanted(k).paths) :
                 (After(k) # None /\ p \in After(k).objects)
                   => (p \in Elements(paths) \/ bad)
        PROVE  RemovalInv(k)'
    BY <2>1, <2>5, RemoveLoopAccounts
  <2>6. ASSUME pc[k] \in PathLabels
        PROVE  /\ todo[k] # <<>> /\ Tail(todo[k]) \in Seq(Paths)
               /\ Elements(todo[k]) = {Head(todo[k])} \cup Elements(Tail(todo[k]))
               /\ \A p \in Elements(Wanted(k).paths) :
                    (Bucket(k) # None /\ p \in Bucket(k).objects)
                      => (p \in Elements(todo[k]) \/ failed[k])
    <3>1. todo[k] # <<>>
      BY <1>0, <2>6 DEF IInv, HandlerInv
    <3> QED
      BY <2>2, <2>6, <3>1, HeadAndTail, ElementsOfASequence DEF RemovalInv, HasObject
  <2>7. CASE HandlePath(k) \/ CheckPath(k) \/ AddPath(k)
    <3>1. pc'[k] \in {"SetStatus", "CheckPath", "AddPath"}
      BY <1>0, <2>3, <2>7
      DEF HandlePath, CheckPath, AddPath, Loop, Abort, Goto, Conclude
    <3> QED
      BY <1>1, <3>1 DEF PathLabels
  <2>8. CASE FinalizePath(k)
    <3>1. Reads /\ RemoveLoop(k, Wanted(k).paths, FALSE)
      BY <2>3, <2>8 DEF FinalizePath
    <3> QED
      BY <2>2, <2>5, <3>1
  <2>9. CASE StatPath(k)
    <3>1. pc[k] = "StatPath" /\ Reads
      BY <2>3, <2>9 DEF StatPath, At
    <3>2. ASSUME Goto(k, "DeletePath"), UNCHANGED <<todo, failed>> PROVE RemovalInv(k)'
      <4>1. pc'[k] = "DeletePath"
        BY <1>0, <2>3, <3>2 DEF Goto
      <4> QED
        BY <2>1, <3>1, <3>2, <4>1
        DEF RemovalInv, PathLabels, HasObject, Bucket, Wanted, Reads
    <3>3. ASSUME ~HasObject(k, Head(todo[k])), RemoveLoop(k, Tail(todo[k]), failed[k])
          PROVE  RemovalInv(k)'
      <4>1. \A p \in Elements(Wanted(k).paths) :
              (After(k) # None /\ p \in After(k).objects)
                => (p \in Elements(Tail(todo[k])) \/ failed[k])
        BY <2>4, <2>6, <3>1, <3>3 DEF PathLabels, HasObject
      <4> QED
        BY <2>2, <2>5, <2>6, <3>1, <3>3, <4>1 DEF PathLabels
    <3> QED
      BY <2>3, <2>9, <3>2, <3>3 DEF StatPath
  <2>10. CASE DeletePath(k)
    <3>1. pc[k] = "DeletePath"
      BY <2>10 DEF DeletePath, At
    <3> DEFINE b == [Bucket(k) EXCEPT !.objects = @ \ {Head(todo[k])}]
    <3>2. ASSUME CallWorks(k, Bucket(k) # None, b), RemoveLoop(k, Tail(todo[k]), failed[k])
          PROVE  RemovalInv(k)'
      <4>1. Bucket(k) \in Buckets /\ SetBucket(k, b)
        BY <1>0, <2>1, <3>2, HandlerData DEF CallWorks
      <4>2. b.objects = Bucket(k).objects \ {Head(todo[k])}
        BY <4>1 DEF Buckets
      <4>3. After(k) = b
        BY <2>2, <4>1 DEF SetBucket, After, IInv, S3TypeOK
      <4> HIDE DEF b
      <4>4. \A p \in Elements(Wanted(k).paths) :
              (After(k) # None /\ p \in After(k).objects)
                => (p \in Elements(Tail(todo[k])) \/ failed[k])
        BY <2>6, <3>1, <3>2, <4>2, <4>3 DEF PathLabels, CallWorks
      <4> QED
        BY <2>2, <2>5, <2>6, <3>1, <3>2, <4>4 DEF PathLabels
    <3>3. ASSUME RemoveLoop(k, Tail(todo[k]), TRUE) PROVE RemovalInv(k)'
      BY <2>5, <2>6, <3>1, <3>3 DEF PathLabels
    <3> QED
      BY <2>10, <3>2, <3>3 DEF DeletePath, FailureRecorded
  <2> QED
    BY <1>3, <2>7, <2>8, <2>9, <2>10 DEF PathStep
<1> QED
  BY <1>0, <1>2, <1>3 DEF WorkerStep, EnvironmentStep, BucketStep

LEMMA RemovalInductive ==
    ASSUME PathDeletionEnabled, OneBucketEach, OnePathEach, IInv, OrphanPathInv,
           NEW k \in Keys, WorkerStep(k) \/ EnvironmentStep(k), Apart(k), Change(k),
           OwnPaths(k), NEW j \in PathKeys
    PROVE  RemovalInv(j)'
<1>1. RemovalInv(j) /\ j \in Keys
  BY PathKeysAssumption DEF OrphanPathInv
<1>2. CASE j = k
  BY <1>1, <1>2, OwnRemoval DEF OrphanPathInv
<1>3. CASE j # k
  <2>1. pc'[j] = pc[j] /\ res'[j] = res[j] /\ todo'[j] = todo[j] /\ failed'[j] = failed[j]
    BY <1>1, <1>3 DEF Apart, LeftAlone
  <2>2. CASE pc[j] = "Idle"
    BY <2>1, <2>2 DEF RemovalInv, PathLabels
  <2>3. CASE pc[j] # "Idle"
    <3>1. Wanted(j) \in Specs[j] /\ Wanted(j)' = Wanted(j)
      BY <1>1, <2>1, <2>3, HandlerData DEF Wanted
    <3>2. \A p \in Elements(Wanted(j).paths) : HasObject(j, p) <=> HasObject(j, p)'
      BY <1>1, <1>3, <3>1, OthersKeepPaths DEF Has, HasObject, Bucket
    <3> QED
      BY <1>1, <2>1, <3>1, <3>2 DEF RemovalInv
  <2> QED
    BY <2>2, <2>3
<1> QED
  BY <1>2, <1>3

\* CR j is there for path p of bucket b.
Answers(j, b, p) ==
    Held(j) /\ Stored(j).spec.name = b /\ p \in Elements(Stored(j).spec.paths)

\* A CR one of whose paths is there is not released.
LEMMA PathHolderStays ==
    ASSUME OneBucketEach, PathsAreKept, IInv, OrphanBucketInv, OrphanPathInv,
           NEW k \in Keys, WorkerStep(k) \/ EnvironmentStep(k),
           NEW b, NEW p, Has(b, p), NEW j \in Keys, Answers(j, b, p)
    PROVE  Answers(j, b, p)'
<1>1. CASE Stored(j)' = Stored(j)
  BY <1>1 DEF Answers, Held
<1>2. CASE EditedByUser(j)
  <2>1. Stored(j)' # None /\ Stored(j)'.fin /\ Stored(j) # None
    BY <1>2 DEF EditedByUser, Answers, Held
  <2>2. IInv'
    BY StepsAreApart
  <2>3. Stored(j)'.spec \in Specs[j] /\ Stored(j).spec \in Specs[j]
    BY <2>1, <2>2, StoredSpecs, StoredSpecsNext DEF SpecsStored
  <2> QED
    BY <2>1, <2>3 DEF Answers, Held, PathsAreKept
<1>3. CASE WrittenByWorker(j)
  <2>1. ~(cur[j] /\ pc[j] = "RemoveFinalizer")
    <3>1. SUFFICES ASSUME cur[j], pc[j] = "RemoveFinalizer" PROVE FALSE
      OBVIOUS
    <3>2. res[j] = Stored(j)
      BY <3>1 DEF IInv, LoopIInv, LoopInv, WorkerInv
    <3>3. j \notin BucketKeys
      BY <3>1, <3>2, GoneBeforeRemoval DEF Answers, Has, Bucket, Wanted
    <3>4. j \notin PathKeys
      BY <3>1, <3>2 DEF OrphanPathInv, RemovalInv, Answers, Has, HasObject, Bucket, Wanted
    <3> QED
      BY <3>3, <3>4, KeysAreOfOneKind
  <2> QED
    BY <1>3, <2>1 DEF WrittenByWorker, SameGeneration, Answers, Held
<1> QED
  BY <1>1, <1>2, <1>3, WhoWrites

\* A path appears for the CR whose worker puts it.
LEMMA PathAppears ==
    ASSUME PathsAreKept, IInv, NEW k \in Keys, WorkerStep(k) \/ EnvironmentStep(k),
           Change(k), OwnPaths(k),
           NEW b \in BucketNames, NEW p, ~Has(b, p), Has(b, p)'
    PROVE  Answers(k, b, p)'
<1>1. ~UNCHANGED buckets /\ buckets \in [BucketNames -> Buckets \cup {None}]
  BY DEF Has, IInv, S3TypeOK
<1>2. Puts(k)
  <2>1. ASSUME NEW v, SetBucket(k, v), Wanted(k).name \in BucketNames
        PROVE  b = Wanted(k).name /\ buckets'[b] = v /\ buckets[b] = Bucket(k)
    BY <1>1, <2>1 DEF SetBucket, Has, Bucket
  <2>2. ~Creates(k)
    BY <2>1, HandlerData DEF Creates, NewBucket, Has
  <2>3. ~SetsQuota(k)
    <3>1. SUFFICES ASSUME SetsQuota(k) PROVE FALSE
      OBVIOUS
    <3>2. PICK q \in Amounts : SetBucket(k, [Bucket(k) EXCEPT !.quota = q])
      BY <3>1 DEF SetsQuota
    <3>3. Bucket(k) \in Buckets /\ Wanted(k).name \in BucketNames
      BY <3>1, HandlerData DEF SetsQuota
    <3>4. [Bucket(k) EXCEPT !.quota = q].objects = Bucket(k).objects
      BY <3>3 DEF Buckets
    <3> QED
      BY <2>1, <3>2, <3>3, <3>4, NoneIsNoBucket DEF Has
  <2>4. ~Removes(k)
    BY <2>1, HandlerData DEF Removes, Has
  <2>5. ~Takes(k)
    <3>1. SUFFICES ASSUME Takes(k) PROVE FALSE
      OBVIOUS
    <3>2. ~Puts(k) /\ Wanted(k).name \in BucketNames /\ Bucket(k) \in Buckets
      BY <3>1, PathCalls DEF Puts, Takes
    <3>3. PICK c \in Buckets :
            SetBucket(k, c) /\ c.objects = Bucket(k).objects \ {Head(todo[k])}
      BY <3>1, PathCalls
    <3> QED
      BY <2>1, <3>2, <3>3, NoneIsNoBucket DEF Has
  <2> QED
    BY <1>1, <2>2, <2>3, <2>4, <2>5 DEF Change
<1>3. PICK c \in Buckets :
        SetBucket(k, c) /\ c.objects = Bucket(k).objects \cup {Head(todo[k])}
  BY <1>2, PathCalls
<1>4. /\ Wanted(k).name \in BucketNames /\ Bucket(k) \in Buckets
      /\ todo[k] # <<>> /\ todo[k] \in Seq(Paths)
  BY <1>2, PathCalls
<1>5. b = Wanted(k).name /\ p = Head(todo[k])
  BY <1>1, <1>3, <1>4, NoneIsNoBucket DEF SetBucket, Has, Bucket
<1>6. p \in Elements(Wanted(k).paths)
  BY <1>2, <1>4, <1>5, ElementsOfASequence
  DEF OwnPaths, OverPaths, S3Labels, Puts
<1>7. Held(k) /\ pc[k] # "Idle"
  BY <1>2, LabelFacts DEF Puts, IInv, LoopIInv, LoopInv, WorkerInv
<1>8. Stored(k)' = Stored(k)
  BY <1>1, WhoWrites DEF s3Vars
<1>9. Wanted(k) \in Specs[k] /\ Stored(k).spec \in Specs[k]
  BY <1>7, HandlerData, StoredSpecs DEF SpecsStored, Held
<1> QED
  BY <1>5, <1>6, <1>7, <1>8, <1>9 DEF Answers, Held, PathsAreKept

LEMMA OrphanPathInductive ==
    ASSUME PathDeletionEnabled, OneBucketEach, OnePathEach, PathsAreKept,
           IInv, OrphanBucketInv, AppliedInv, OrphanPathInv, [Next]_vars
    PROVE  OrphanPathInv'
<1>1. budget'.reads = 0
  BY ReadsStayReliable DEF OrphanPathInv
<1>2. CASE Restart \/ UNCHANGED vars
  <2>1. NoOrphanPath'
    BY <1>2, RestartFacts DEF OrphanPathInv, NoOrphanPath, Held
  <2>2. ASSUME NEW k \in PathKeys PROVE RemovalInv(k)'
    <3>1. CASE pc'[k] = "Idle"
      BY <3>1 DEF RemovalInv, PathLabels
    <3>2. CASE UNCHANGED <<pc, res, out, todo, failed>>
      BY <1>2, <3>2, RestartFacts DEF OrphanPathInv, RemovalInv, HasObject, Bucket, Wanted
    <3> QED
      BY <1>2, <3>1, <3>2, RestartFacts, PathKeysAssumption
  <2> QED
    BY <1>1, <2>1, <2>2 DEF OrphanPathInv
<1>3. ASSUME NEW k \in Keys, WorkerStep(k) \/ EnvironmentStep(k), Apart(k), Change(k)
      PROVE  OrphanPathInv'
  <2>1. OwnPaths(k)
    BY DEF AppliedInv, ProgressInv, OwnPaths
  <2>2. ASSUME NEW b \in BucketNames, NEW p, Has(b, p)'
        PROVE  \E j \in Keys : Answers(j, b, p)'
    <3>1. CASE Has(b, p)
      <4>1. PICK j \in Keys : Answers(j, b, p)
        BY <3>1 DEF OrphanPathInv, NoOrphanPath, Has, Answers
      <4> QED
        BY <1>3, <3>1, <4>1, PathHolderStays
    <3>2. CASE ~Has(b, p)
      BY <1>3, <2>1, <2>2, <3>2, PathAppears
    <3> QED
      BY <3>1, <3>2
  <2>3. NoOrphanPath'
    BY <2>2 DEF NoOrphanPath, Has, Answers
  <2>4. \A j \in PathKeys : RemovalInv(j)'
    BY <1>3, <2>1, RemovalInductive
  <2> QED
    BY <1>1, <2>3, <2>4 DEF OrphanPathInv
<1>4. ASSUME NEW k \in Keys, EnvironmentStep(k) PROVE Change(k)
  BY <1>4 DEF EnvironmentStep, Change, s3Vars
<1>5. tampers = 0
  BY DEF AppliedInv
<1> QED
  BY <1>2, <1>3, <1>4, <1>5, Steps

\* With both deletions enabled, CRs that do not write over each other, specs whose
\* paths are never dropped, a server that answers every read and no other client, what
\* S3 holds, what each worker has done of its handler and what it is about to delete
\* agree in every reachable state.
THEOREM S3InductiveInvariant ==
    ASSUME BucketDeletionEnabled, PathDeletionEnabled, OneBucketEach, OnePathEach,
           PathCRsListPaths, PathsAreKept, MaxTampers = 0, MaxReadFaults = 0
    PROVE  Spec => []S3Inv
<1>1. Init => S3Inv
  <2> SUFFICES ASSUME Init PROVE S3Inv
    OBVIOUS
  <2>1. \A k \in Keys : Stored(k) = None /\ pc[k] = "Idle"
    BY DEF Init, LoopInit, Stored
  <2>2. \A b \in BucketNames : buckets[b] = None
    BY DEF Init, S3Init
  <2>3. tampers = 0 /\ budget.reads = 0
    BY DEF Init, S3Init, LoopInit
  <2>4. OrphanBucketInv
    BY <2>2, <2>3 DEF OrphanBucketInv
  <2>5. AppliedInv
    BY <2>1, <2>3
    DEF AppliedInv, ReconciledNow, ProgressInv, OverPaths,
        S3Labels, PathLabels, ProvisionLabels, BucketLabels
  <2>6. OrphanPathInv
    BY <2>1, <2>2, <2>3, PathKeysAssumption
    DEF OrphanPathInv, NoOrphanPath, RemovalInv, PathLabels
  <2> QED
    BY <2>4, <2>5, <2>6 DEF S3Inv
<1>2. IInv /\ S3Inv /\ [Next]_vars => S3Inv'
  BY NamesAreKept, OrphanBucketInductive, AppliedInductive, OrphanPathInductive DEF S3Inv
<1> QED
  BY <1>1, <1>2, InductiveInvariant, PTL DEF Spec

\* Under the same conditions no path outlives its CR.
THEOREM NoPathIsOrphaned ==
    ASSUME BucketDeletionEnabled, PathDeletionEnabled, OneBucketEach, OnePathEach,
           PathCRsListPaths, PathsAreKept, MaxTampers = 0, MaxReadFaults = 0
    PROVE  Spec => []NoOrphanPath
<1>1. S3Inv => NoOrphanPath
  BY DEF S3Inv, OrphanPathInv
<1> QED
  BY <1>1, S3InductiveInvariant, PTL

-----------------------------------------------------------------------------
(* The Path controller implements ManagedResource *)

PathCRsHaveSpecs == \A k \in PathKeys : Specs[k] # {}

PathStages == [k \in PathKeys |-> Stage(k)]
PathPresent == [k \in PathKeys |-> PathsExist(k)]

\* Some path of each of the specs of k exists.
LEMMA PathsOfACR ==
    ASSUME PathsAreKept, PathCRsHaveSpecs, NEW k \in PathKeys, NEW s \in Specs[k]
    PROVE  /\ PathsExist(k) <=> \E p \in Elements(s.paths) : Has(s.name, p)
           /\ PathsExist(k)' <=> \E p \in Elements(s.paths) : Has(s.name, p)'
<1> DEFINE t == CHOOSE t \in Specs[k] : TRUE
<1>1. t \in Specs[k]
  BY DEF PathCRsHaveSpecs
<1>2. t.name = s.name /\ Elements(t.paths) = Elements(s.paths)
  BY <1>1, PathKeysAssumption DEF PathsAreKept
<1>3. /\ PathsExist(k) <=> /\ buckets[t.name] # None
                           /\ Elements(t.paths) \cap buckets[t.name].objects # {}
      /\ PathsExist(k)' <=> /\ buckets'[t.name] # None
                            /\ Elements(t.paths) \cap buckets'[t.name].objects # {}
  BY DEF PathsExist
<1> HIDE DEF t
<1> QED
  BY <1>2, <1>3 DEF Has

\* Where a path of a CR exists, the CR is held.
LEMMA PathHasItsCR ==
    ASSUME OnePathEach, PathsAreKept, IInv, OrphanPathInv,
           NEW k \in PathKeys, NEW s \in Specs[k], NEW p \in Elements(s.paths),
           Has(s.name, p)
    PROVE  Held(k)
<1>1. s.name \in BucketNames
  BY PathKeysAssumption DEF PathSpecs
<1>2. PICK j \in Keys : Answers(j, s.name, p)
  BY <1>1 DEF OrphanPathInv, NoOrphanPath, Has, Answers
<1>3. Stored(j).spec \in Specs[j]
  BY <1>2, StoredSpecs DEF SpecsStored, Answers, Held
<1> QED
  BY <1>2, <1>3, PathKeysAssumption DEF OnePathEach, Answers

\* What the handlers do to the paths of their CR, in terms of the protocol.
LEMMA PathChangesAreManaged ==
    ASSUME PathDeletionEnabled, OneBucketEach, OnePathEach, PathsAreKept,
           PathCRsHaveSpecs, IInv, AppliedInv, OrphanPathInv,
           NEW k \in PathKeys, WorkerStep(k), Change(k),
           PathsExist(k)' # PathsExist(k)
    PROVE  \/ PathsExist(k)' /\ Stage(k) \in {"held", "terminating"}
           \/ ~PathsExist(k)' /\ Stage(k) = "terminating"
<1>1. PICK s \in Specs[k] : TRUE
  BY DEF PathCRsHaveSpecs
<1>2. k \in Keys /\ OwnPaths(k) /\ s.name \in BucketNames
  BY <1>1, PathKeysAssumption DEF AppliedInv, ProgressInv, OwnPaths, PathSpecs
<1>3. /\ PathsExist(k) <=> \E p \in Elements(s.paths) : Has(s.name, p)
      /\ PathsExist(k)' <=> \E p \in Elements(s.paths) : Has(s.name, p)'
  BY <1>1, PathsOfACR
<1>4. CASE PathsExist(k)'
  <2>1. PICK p \in Elements(s.paths) : ~Has(s.name, p) /\ Has(s.name, p)'
    BY <1>3, <1>4
  <2>2. Answers(k, s.name, p)'
    BY <1>2, <2>1, PathAppears
  <2>3. Stored(k)' = Stored(k)
    BY <1>2, <2>1, WhoWrites DEF Has, s3Vars
  <2> QED
    BY <1>4, <2>2, <2>3 DEF Answers, Held, Stage
<1>5. CASE PathsExist(k) /\ ~PathsExist(k)'
  <2>1. Held(k)
    BY <1>1, <1>3, <1>5, PathHasItsCR
  <2>2. PICK p \in Elements(s.paths) : Has(s.name, p) /\ ~Has(s.name, p)'
    BY <1>3, <1>5
  <2>3. Takes(k)
    <3>1. ~UNCHANGED buckets
      BY <2>2 DEF Has
    <3>2. ~Creates(k) /\ ~SetsQuota(k) /\ ~Removes(k)
      BY KeysAreOfOneKind DEF Creates, SetsQuota, Removes
    <3>3. ~Puts(k)
      <4>1. SUFFICES ASSUME Puts(k) PROVE FALSE
        OBVIOUS
      <4>2. PICK c \in Buckets :
              SetBucket(k, c) /\ c.objects = Bucket(k).objects \cup {Head(todo[k])}
        BY <1>2, <4>1, PathCalls
      <4>3. buckets \in [BucketNames -> Buckets \cup {None}]
        BY DEF IInv, S3TypeOK
      <4> QED
        BY <1>2, <2>2, <4>2, <4>3, NoneIsNoBucket DEF SetBucket, Has, Bucket
    <3> QED
      BY <3>1, <3>2, <3>3 DEF Change
  <2>4. res[k].del /\ res[k] # None
    BY <1>2, <2>3, LabelFacts DEF Takes, PathLabels, DeletingLabels, IInv, LoopIInv, LoopInv, WorkerInv
  <2>5. Stored(k).del
    BY <1>2, <2>1, <2>4 DEF IInv, LoopIInv, LoopInv, WorkerInv
  <2> QED
    BY <1>5, <2>1, <2>5 DEF Held, Stage
<1>6. PathsExist(k) \in BOOLEAN /\ PathsExist(k)' \in BOOLEAN
  BY DEF PathsExist
<1> QED
  BY <1>4, <1>5, <1>6

\* A step of the operator or of a user is a step of the protocol, or none.
LEMMA PathStepsAreManaged ==
    ASSUME PathDeletionEnabled, OneBucketEach, OnePathEach, PathsAreKept,
           PathCRsHaveSpecs, IInv, AppliedInv, OrphanPathInv,
           NEW k \in Keys, WorkerStep(k) \/ EnvironmentStep(k), Apart(k),
           Change(k), WorkerStep(k) \/ UNCHANGED buckets
    PROVE  PathProtocol!Next \/ (PathStages' = PathStages /\ PathPresent' = PathPresent)
<1>1. ASSUME NEW j \in PathKeys \ {k}
      PROVE  Stage(j)' = Stage(j) /\ (PathsExist(j)' = PathsExist(j))
  <2>1. Stored(j)' = Stored(j)
    BY PathKeysAssumption DEF Apart
  <2>2. PICK s \in Specs[j] : TRUE
    BY DEF PathCRsHaveSpecs
  <2>3. OwnPaths(k)
    BY DEF AppliedInv, ProgressInv, OwnPaths
  <2>4. \A p \in Elements(s.paths) : Has(s.name, p) <=> Has(s.name, p)'
    BY <2>2, <2>3, PathKeysAssumption, OthersKeepPaths
  <2>5. PathsExist(j) \in BOOLEAN /\ PathsExist(j)' \in BOOLEAN
    BY DEF PathsExist
  <2>6. /\ PathsExist(j) <=> \E p \in Elements(s.paths) : Has(s.name, p)
        /\ PathsExist(j)' <=> \E p \in Elements(s.paths) : Has(s.name, p)'
    BY <2>2, PathsOfACR
  <2> QED
    BY <2>1, <2>4, <2>5, <2>6 DEF Stage
<1>2. CASE k \notin PathKeys
  BY <1>1, <1>2 DEF PathStages, PathPresent
<1>3. CASE k \in PathKeys
  <2>1. /\ PathStages' = [PathStages EXCEPT ![k] = Stage(k)']
        /\ PathPresent' = [PathPresent EXCEPT ![k] = PathsExist(k)']
        /\ PathStages[k] = Stage(k) /\ PathPresent[k] = PathsExist(k)
    BY <1>1, <1>3 DEF PathStages, PathPresent
  <2>2. ASSUME Stage(k)' = Stage(k) PROVE PathStages' = PathStages
    BY <2>1, <2>2 DEF PathStages
  <2>3. ASSUME PathsExist(k)' = PathsExist(k) PROVE PathPresent' = PathPresent
    BY <2>1, <2>3 DEF PathPresent
  <2>4. PathsExist(k) \in BOOLEAN /\ PathsExist(k)' \in BOOLEAN
    BY DEF PathsExist
  <2>5. CASE Stored(k)' # Stored(k)
    <3>1. UNCHANGED buckets /\ (EditedByUser(k) \/ WrittenByWorker(k))
      BY <2>5, WhoWrites DEF s3Vars
    <3>2. PathPresent' = PathPresent
      BY <2>3, <3>1 DEF PathsExist
    <3>3. \/ Stage(k)' = Stage(k)
          \/ Stage(k) = "absent" /\ Stage(k)' = "declared"
          \/ Stage(k) = "declared" /\ Stage(k)' = "absent"
          \/ Stage(k) = "held" /\ Stage(k)' = "terminating"
          \/ Stage(k) = "declared" /\ Stage(k)' = "held"
          \/ /\ Stage(k) = "terminating" /\ Stage(k)' = "absent"
             /\ pc[k] = "RemoveFinalizer"
      BY <3>1, LabelsOfTheLoop, StageMoves DEF IInv
    <3>4. pc[k] = "RemoveFinalizer" => ~PathsExist(k)
      <4>1. SUFFICES ASSUME pc[k] = "RemoveFinalizer" PROVE ~PathsExist(k)
        OBVIOUS
      <4>2. Wanted(k) \in Specs[k]
        BY <4>1, HandlerData
      <4>3. \A p \in Elements(Wanted(k).paths) : ~Has(Wanted(k).name, p)
        BY <1>3, <4>1 DEF OrphanPathInv, RemovalInv, HasObject, Bucket, Has
      <4> QED
        BY <1>3, <4>2, <4>3, PathsOfACR
    <3> QED
      BY <1>3, <2>1, <2>2, <3>2, <3>3, <3>4
      DEF PathStages, PathPresent, PathProtocol!Next, PathProtocol!Declare,
          PathProtocol!Withdraw, PathProtocol!Hold, PathProtocol!Terminate,
          PathProtocol!Release, PathProtocol!Move
  <2>6. CASE Stored(k)' = Stored(k)
    <3>1. PathStages' = PathStages
      BY <2>2, <2>6 DEF Stage
    <3>2. CASE PathsExist(k)' = PathsExist(k)
      BY <2>3, <3>1, <3>2
    <3>3. CASE PathsExist(k)' # PathsExist(k)
      <4>1. WorkerStep(k)
        BY <3>3 DEF PathsExist
      <4>2. CASE PathsExist(k)' /\ Stage(k) \in {"held", "terminating"}
        BY <1>3, <2>1, <2>4, <3>1, <4>2
        DEF PathStages, PathPresent, PathProtocol!Next, PathProtocol!Provision
      <4>3. CASE ~PathsExist(k)' /\ Stage(k) = "terminating"
        BY <1>3, <2>1, <2>4, <3>1, <4>3
        DEF PathStages, PathPresent, PathProtocol!Next, PathProtocol!Deprovision
      <4> QED
        BY <1>3, <3>3, <4>1, <4>2, <4>3, PathChangesAreManaged
    <3> QED
      BY <3>2, <3>3
  <2> QED
    BY <2>5, <2>6
<1> QED
  BY <1>2, <1>3

\* Under the conditions of S3InductiveInvariant each Path CR and its paths go through
\* the protocol of ManagedResource too: the first path is put under the finalizer, the
\* last is gone before the CR, whichever of them could not be removed at first.
THEOREM PathsAreManaged ==
    ASSUME BucketDeletionEnabled, PathDeletionEnabled, OneBucketEach, OnePathEach,
           PathCRsListPaths, PathsAreKept, MaxTampers = 0, MaxReadFaults = 0,
           PathCRsHaveSpecs
    PROVE  Spec => PathsImplementManagedResource
<1>1. Init => PathProtocol!Init
  <2> SUFFICES ASSUME Init PROVE PathProtocol!Init
    OBVIOUS
  <2>1. ASSUME NEW k \in PathKeys PROVE Stage(k) = "absent" /\ PathsExist(k) = FALSE
    <3>1. PICK s \in Specs[k] : TRUE
      BY DEF PathCRsHaveSpecs
    <3>2. s.name \in BucketNames
      BY <3>1, PathKeysAssumption DEF PathSpecs
    <3>3. \A p : ~Has(s.name, p)
      BY <3>2 DEF Init, S3Init, Has
    <3>4. ~PathsExist(k)
      BY <3>1, <3>3, PathsOfACR
    <3>5. PathsExist(k) \in BOOLEAN
      BY DEF PathsExist
    <3>6. Stored(k) = None
      BY PathKeysAssumption DEF Init, LoopInit, Stored
    <3> QED
      BY <3>4, <3>5, <3>6 DEF Stage
  <2> QED
    BY <2>1 DEF PathProtocol!Init
<1>2. IInv /\ S3Inv /\ [Next]_vars => [PathProtocol!Next]_<<PathStages, PathPresent>>
  <2> SUFFICES ASSUME IInv, S3Inv, [Next]_vars
               PROVE  [PathProtocol!Next]_<<PathStages, PathPresent>>
    OBVIOUS
  <2>1. CASE Restart \/ UNCHANGED vars
    <3>1. PathStages' = PathStages /\ PathPresent' = PathPresent
      BY <2>1, RestartFacts, PathKeysAssumption
      DEF PathStages, PathPresent, Stage, PathsExist
    <3> QED
      BY <3>1
  <2>2. ASSUME NEW k \in Keys, EnvironmentStep(k) PROVE Change(k) /\ UNCHANGED buckets
    BY <2>2 DEF EnvironmentStep, Change, s3Vars
  <2>3. tampers = 0
    BY DEF S3Inv, AppliedInv
  <2> QED
    BY <2>1, <2>2, <2>3, Steps, PathStepsAreManaged DEF S3Inv
<1>3. IInv /\ S3Inv /\ [Next]_vars
        => [PathProtocol!Next]_<<[k \in PathKeys |-> Stage(k)],
                                 [k \in PathKeys |-> PathsExist(k)]>>
  BY <1>2 DEF PathStages, PathPresent
<1> QED
  BY <1>1, <1>3, InductiveInvariant, S3InductiveInvariant, PTL
  DEF Spec, PathsImplementManagedResource, PathProtocol!Spec

=============================================================================
