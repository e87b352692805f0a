------------------------- MODULE BucketsAndPathsProofs -------------------------
(***************************************************************************)
(* Proofs about BucketsAndPaths: IInv is inductive, so the types are       *)
(* correct, the operator provisions only under the finalizer, no wake-up   *)
(* is lost and no condition goes back, for any set of CRs, specs, buckets  *)
(* and paths and any bound.                                                *)
(***************************************************************************)
EXTENDS BucketsAndPaths, LoopProofs

-----------------------------------------------------------------------------
(* The labels, and what one step must show *)

\* The labels of the handlers.
LEMMA LabelFacts ==
    /\ {"Handle", "CheckPath", "AddPath", "Create", "SetDefaultQuota", "CreatePath",
        "GetQuota", "ResetQuota"} = ProvisionLabels
    /\ {"Finalize", "RemoveFinalizer", "StatPath", "DeletePath"} = DeletingLabels
    /\ ProvisionLabels \cup DeletingLabels \subseteq Labels
    /\ "Idle" \notin ProvisionLabels \cup DeletingLabels
    /\ ProvisionLabels \cap DeletingLabels = {}
  BY DEF ProvisionLabels, DeletingLabels, S3Labels, BucketLabels, PathLabels, Labels,
         LoopLabels

\* They are what the lemmas about the loop ask for.
LEMMA LabelsOfTheLoop == LabelSets(Labels, ProvisionLabels, DeletingLabels)
  BY DEF LabelSets, ProvisionLabels, DeletingLabels, S3Labels, BucketLabels, PathLabels,
         Labels, LoopLabels

\* A step of CR k keeps the invariant of the loop, the types of S3 and what is
\* said of the handler, and leaves the handlers of the others alone.
StepInv(k) ==
    /\ Keeps(k, Labels, ProvisionLabels, DeletingLabels)
    /\ S3TypeOK'
    /\ HandlerInv(k)'
    /\ \A j \in Keys \ {k} : todo'[j] = todo[j]

\* To prove that a step keeps IInv it is enough to look at the CR it is about.
LEMMA StepKeepsIInv ==
    ASSUME IInv, NEW k \in Keys, StepInv(k) PROVE IInv'
<1>1. LoopIInv(Labels, ProvisionLabels, DeletingLabels)'
  BY KeepsLoopIInv DEF IInv, StepInv
<1>2. ASSUME NEW j \in Keys, j # k PROVE HandlerInv(j)'
  <2>1. /\ pc'[j] = pc[j] /\ res'[j] = res[j] /\ todo'[j] = todo[j]
        /\ HandlerInv(j)
    BY <1>2 DEF IInv, StepInv, Keeps, LeftAlone
  <2> QED
    BY <2>1 DEF HandlerInv
<1>3. \A j \in Keys : HandlerInv(j)'
  BY <1>2 DEF StepInv
<1> QED
  BY <1>1, <1>3 DEF IInv, StepInv

\* The users, the watch and the common part of Reconcile keep it.
LEMMA LoopKeeps ==
    ASSUME IInv, NEW k \in Keys, UserStep(k) \/ Deliver(k) \/ LoopStep(k),
           UNCHANGED s3Vars
    PROVE  StepInv(k)
<1>1. LoopIInv(Labels, ProvisionLabels, DeletingLabels)
  BY DEF IInv
<1>2. Keeps(k, Labels, ProvisionLabels, DeletingLabels)
  BY <1>1, LabelsOfTheLoop, UserStepKeeps, DeliverKeeps, LoopStepKeeps
<1>3. S3TypeOK' /\ todo' = todo
  BY DEF IInv, S3TypeOK, s3Vars
<1>4. HandlerInv(k)'
  <2>1. HandlerInv(k) /\ LoopTypeOK(Labels)
    BY DEF IInv, LoopIInv
  <2>2. CASE UserStep(k) \/ Deliver(k)
    <3>1. pc' = pc /\ res' = res
      BY <2>2 DEF UserStep, UserCreate, UserEdit, UserTouch, UserDelete, UserWrites,
                  Deliver
    <3> QED
      BY <1>3, <2>1, <3>1 DEF HandlerInv
  <2>3. CASE LoopStep(k)
    <3>1. pc'[k] \in LoopLabels
      BY <2>1, <2>3, LoopMoves DEF LoopLabels
    <3> QED
      BY <3>1 DEF HandlerInv, LoopLabels, BucketLabels, PathLabels, S3Labels
  <2> QED
    BY <2>2, <2>3
<1> QED
  BY <1>2, <1>3, <1>4 DEF StepInv

-----------------------------------------------------------------------------
(* The worker and the S3 server *)

\* The data a handler works with.
LEMMA HandlerData ==
    ASSUME IInv, NEW k \in Keys, pc[k] # "Idle"
    PROVE  /\ Wanted(k) \in Specs[k]
           /\ Wanted(k).name \in BucketNames
           /\ Wanted(k).paths \in Seq(Paths)
           /\ k \in BucketKeys => /\ Wanted(k).default \in Quantities
                                  /\ Wanted(k).override \in Quantities
           /\ Bucket(k) \in Buckets \cup {None}
           /\ todo[k] \in Seq(Paths)
           /\ failed[k] \in BOOLEAN
<1>1. Wanted(k) \in Specs[k]
  BY StoredFacts DEF IInv, Wanted
<1>2. Wanted(k).name \in BucketNames /\ Wanted(k).paths \in Seq(Paths)
  <2>1. CASE k \in BucketKeys
    BY <1>1, <2>1, BucketKeysAssumption DEF BucketSpecs
  <2>2. CASE k \notin BucketKeys
    BY <1>1, <2>2, PathKeysAssumption, KeysAreOfOneKind DEF PathSpecs
  <2> QED
    BY <2>1, <2>2
<1>3. k \in BucketKeys => /\ Wanted(k).default \in Quantities
                          /\ Wanted(k).override \in Quantities
  BY <1>1, BucketKeysAssumption DEF BucketSpecs
<1> QED
  BY <1>1, <1>2, <1>3 DEF Bucket, IInv, S3TypeOK

\* A list of paths that is not empty has a first path and a rest.
LEMMA HeadAndTail ==
    ASSUME NEW S, NEW s \in Seq(S), s # <<>>
    PROVE  Head(s) \in S /\ Tail(s) \in Seq(S)
  OBVIOUS

\* The handler goes on as the loop allows, to a label its data is ready for.
Goes(k) ==
    /\ Proceeds(k, ProvisionLabels, DeletingLabels)
    /\ pc'[k] # "Idle"
    /\ todo' \in [Keys -> Seq(Paths)]
    /\ \A j \in Keys \ {k} : todo'[j] = todo[j]
    /\ HandlerInv(k)'

\* It reports a failure.
Aborts(k) ==
    \E reason \in Reasons \ {"Reconciled"}, err \in BOOLEAN : Abort(k, reason, err)

\* Worker k is in a handler.
InHandler(k) == pc[k] \in ProvisionLabels \cup DeletingLabels

\* Concluding asks nothing of the data.
LEMMA AbortsGoes ==
    ASSUME IInv, NEW k \in Keys, InHandler(k), Aborts(k)
    PROVE  Goes(k)
<1>1. /\ Proceeds(k, ProvisionLabels, DeletingLabels)
      /\ pc' = [pc EXCEPT ![k] = "SetStatus"]
      /\ todo' = [todo EXCEPT ![k] = <<>>]
  BY DEF Aborts, Abort, Proceeds, Conclude, InHandler
<1>2. pc \in [Keys -> Labels] /\ todo \in [Keys -> Seq(Paths)] /\ <<>> \in Seq(Paths)
  BY DEF IInv, LoopIInv, LoopTypeOK, S3TypeOK
<1>3. pc'[k] = "SetStatus"
  BY <1>1, <1>2
<1>4. HandlerInv(k)'
  BY <1>3 DEF HandlerInv, BucketLabels, PathLabels, S3Labels
<1> QED
  BY <1>1, <1>2, <1>3, <1>4 DEF Goes

\* Where a handler may jump to, having todo' to do.
MayGoto(k, label) ==
    /\ \/ label \in ProvisionLabels /\ pc[k] \in ProvisionLabels
       \/ label \in DeletingLabels /\ pc[k] \in DeletingLabels
    /\ label \in BucketLabels => k \in BucketKeys
    /\ label \in PathLabels => k \in PathKeys
    /\ label = "SetDefaultQuota" => Convertible(Wanted(k).default)
    /\ label = "ResetQuota" => Convertible(EffectiveQuota(Wanted(k)))
    /\ label \in {"CreatePath"} \cup S3Labels \cup PathLabels => todo'[k] # <<>>

LEMMA GotoGoes ==
    ASSUME IInv, NEW k \in Keys, NEW label, Goto(k, label), MayGoto(k, label),
           UNCHANGED res, todo' \in [Keys -> Seq(Paths)],
           \A j \in Keys \ {k} : todo'[j] = todo[j]
    PROVE  Goes(k)
<1>1. pc'[k] = label
  BY DEF Goto, IInv, LoopIInv, LoopTypeOK
<1>2. HandlerInv(k)'
  BY <1>1 DEF MayGoto, HandlerInv, Wanted
<1>3. Proceeds(k, ProvisionLabels, DeletingLabels)
  BY DEF MayGoto, Proceeds
<1> QED
  BY <1>1, <1>2, <1>3, LabelFacts DEF Goes, MayGoto

\* Without anything new to do.
LEMMA JumpGoes ==
    ASSUME IInv, NEW k \in Keys, NEW label, Goto(k, label), MayGoto(k, label),
           UNCHANGED <<res, todo>>
    PROVE  Goes(k)
  BY GotoGoes DEF IInv, S3TypeOK

\* The loop over paths: its label with a path at hand, or the end.
LEMMA LoopGoes ==
    ASSUME IInv, NEW k \in Keys, NEW paths \in Seq(Paths),
           NEW label \in {"CreatePath", "CheckPath"},
           label = "CreatePath" => k \in BucketKeys,
           Loop(k, paths, label), pc[k] \in ProvisionLabels, UNCHANGED res
    PROVE  Goes(k)
<1>1. todo' = [todo EXCEPT ![k] = paths] /\ todo \in [Keys -> Seq(Paths)]
  BY DEF Loop, IInv, S3TypeOK
<1>2. /\ todo' \in [Keys -> Seq(Paths)] /\ todo'[k] = paths
      /\ \A j \in Keys \ {k} : todo'[j] = todo[j]
  BY <1>1
<1>3. CASE paths = <<>>
  <2>1. Conclude(k, "Reconciled", FALSE)
    BY <1>3 DEF Loop
  <2>2. pc'[k] = "SetStatus"
    BY <2>1 DEF Conclude, IInv, LoopIInv, LoopTypeOK
  <2>3. HandlerInv(k)'
    BY <2>2 DEF HandlerInv, BucketLabels, PathLabels, S3Labels
  <2>4. Proceeds(k, ProvisionLabels, DeletingLabels)
    BY <2>1 DEF Proceeds, Reasons
  <2> QED
    BY <1>2, <2>2, <2>3, <2>4 DEF Goes
<1>4. CASE paths # <<>>
  <2>1. Goto(k, label)
    BY <1>4 DEF Loop
  <2>2. MayGoto(k, label)
    BY <1>2, <1>4, LabelFacts DEF MayGoto, BucketLabels, PathLabels
  <2> QED
    BY <1>2, <2>1, <2>2, GotoGoes
<1> QED
  BY <1>3, <1>4

\* The loop of finalizePath, likewise.
LEMMA RemoveLoopGoes ==
    ASSUME IInv, NEW k \in PathKeys, NEW paths \in Seq(Paths), NEW bad \in BOOLEAN,
           RemoveLoop(k, paths, bad), pc[k] \in DeletingLabels, UNCHANGED res
    PROVE  Goes(k) /\ failed' \in [Keys -> BOOLEAN]
<1>0. k \in Keys
  BY PathKeysAssumption
<1>1. /\ todo' = [todo EXCEPT ![k] = paths] /\ todo \in [Keys -> Seq(Paths)]
      /\ failed' \in [Keys -> BOOLEAN]
  BY DEF RemoveLoop, IInv, S3TypeOK
<1>2. /\ todo' \in [Keys -> Seq(Paths)] /\ todo'[k] = paths
      /\ \A j \in Keys \ {k} : todo'[j] = todo[j]
  BY <1>0, <1>1
<1>3. CASE paths = <<>> /\ bad
  <2>1. Abort(k, "DeletionFailure", TRUE)
    BY <1>1, <1>3 DEF RemoveLoop, Abort
  <2>2. Aborts(k) /\ InHandler(k)
    BY <2>1 DEF Aborts, Reasons, InHandler
  <2> QED
    BY <1>0, <1>1, <2>2, AbortsGoes
<1>4. CASE paths = <<>> /\ ~bad
  <2>1. Goto(k, "RemoveFinalizer")
    BY <1>4 DEF RemoveLoop
  <2>2. MayGoto(k, "RemoveFinalizer")
    BY LabelFacts DEF MayGoto, BucketLabels, PathLabels, S3Labels
  <2> QED
    BY <1>0, <1>1, <1>2, <2>1, <2>2, GotoGoes
<1>5. CASE paths # <<>>
  <2>1. Goto(k, "StatPath")
    BY <1>5 DEF RemoveLoop
  <2>2. MayGoto(k, "StatPath")
    BY <1>2, <1>5, LabelFacts DEF MayGoto, BucketLabels, PathLabels
  <2> QED
    BY <1>0, <1>1, <1>2, <2>1, <2>2, GotoGoes
<1> QED
  BY <1>3, <1>4, <1>5

\* What a call does to S3 and to the bounds.
Effect == /\ buckets' \in [BucketNames -> Buckets \cup {None}]
          /\ budget' \in Budgets

\* The bounds stay naturals when a call or a read fails.
LEMMA BudgetsStay ==
    ASSUME IInv, Fault \/ ReadFails \/ UNCHANGED budget
    PROVE  budget' \in Budgets
<1>1. CASE ReadFails
  <2>1. /\ budget.reads > 0 /\ budget' = [budget EXCEPT !.reads = @ - 1]
        /\ budget \in Budgets
    BY <1>1 DEF ReadFails, IInv, LoopIInv, LoopTypeOK, Budgets
  <2> QED
    BY <2>1 DEF Budgets
<1> QED
  BY <1>1, FaultKeepsBudgets DEF IInv

\* A call to S3, accepted or not, leaves buckets of the right type.
LEMMA CallEffect ==
    ASSUME IInv, NEW k \in Keys, NEW possible, NEW b,
           possible => b \in Buckets \cup {None},
           CallWorks(k, possible, b) \/ CallFails(k, possible, b)
    PROVE  Effect
<1>1. budget' \in Budgets
  BY BudgetsStay DEF CallWorks, CallFails
<1>2. buckets' \in [BucketNames -> Buckets \cup {None}]
  BY DEF CallWorks, CallFails, SetBucket, IInv, S3TypeOK
<1> QED
  BY <1>1, <1>2 DEF Effect

\* A read of S3, answered or not, leaves the buckets alone.
LEMMA ReadEffect ==
    ASSUME IInv, Reads \/ ReadFails PROVE Effect
<1>1. budget' \in Budgets
  BY BudgetsStay DEF Reads
<1>2. buckets' = buckets
  BY DEF Reads, ReadFails
<1> QED
  BY <1>1, <1>2 DEF Effect, IInv, S3TypeOK

\* An action of a handler, seen from what its calls and its control do.
LEMMA ActionKeeps ==
    ASSUME IInv, NEW k \in Keys, NEW label, At(k, label),
           Effect, Goes(k), failed' \in [Keys -> BOOLEAN]
    PROVE  StepInv(k)
<1>1. Keeps(k, Labels, ProvisionLabels, DeletingLabels)
  BY LabelsOfTheLoop, ProceedsKeeps DEF At, Effect, Goes, IInv
<1>2. S3TypeOK'
  BY DEF At, Effect, Goes, IInv, S3TypeOK
<1> QED
  BY <1>1, <1>2 DEF StepInv, Goes

\* The object is put in a bucket that exists, for a path at hand.
LEMMA PutObjectTypes ==
    ASSUME IInv, NEW k \in Keys, pc[k] # "Idle", todo[k] # <<>>, Bucket(k) # None
    PROVE  PutObject(k) \in Buckets
<1>1. Bucket(k) \in Buckets /\ Head(todo[k]) \in Paths
  BY HandlerData, HeadAndTail
<1> QED
  BY <1>1 DEF PutObject, Buckets

\* The loop both controllers make over the paths of the CR.
LEMMA PathLoopKeeps ==
    ASSUME IInv, NEW k \in Keys, CheckPath(k) \/ AddPath(k), UNCHANGED failed
    PROVE  StepInv(k)
<1>1. pc[k] \in {"CheckPath", "AddPath"} /\ UNCHANGED res
  BY DEF CheckPath, AddPath, At
<1>2. todo[k] # <<>> /\ pc[k] \in ProvisionLabels /\ InHandler(k) /\ pc[k] # "Idle"
  BY <1>1, LabelFacts DEF IInv, HandlerInv, S3Labels, InHandler
<1>3. Tail(todo[k]) \in Seq(Paths)
  BY <1>2, HandlerData, HeadAndTail
<1>4. Aborts(k) => Goes(k)
  BY <1>2, AbortsGoes
<1>5. ASSUME Loop(k, Tail(todo[k]), "CheckPath") PROVE Goes(k)
  BY <1>1, <1>2, <1>3, <1>5, LoopGoes
<1>6. failed' \in [Keys -> BOOLEAN]
  BY DEF IInv, S3TypeOK
<1>7. CASE CheckPath(k)
  <2>1. At(k, "CheckPath") /\ Effect
    BY <1>7, ReadEffect DEF CheckPath
  <2>2. ASSUME Goto(k, "AddPath"), UNCHANGED todo PROVE Goes(k)
    <3>1. MayGoto(k, "AddPath")
      BY <1>2, <2>2, LabelFacts DEF MayGoto, BucketLabels, PathLabels
    <3> QED
      BY <1>1, <2>2, <3>1, JumpGoes
  <2>3. Goes(k)
    BY <1>4, <1>5, <1>7, <2>2 DEF CheckPath, Aborts, Reasons
  <2> QED
    BY <1>6, <2>1, <2>3, ActionKeeps
<1>8. CASE AddPath(k)
  <2>1. At(k, "AddPath") /\ Effect
    BY <1>2, <1>8, CallEffect, PutObjectTypes DEF AddPath
  <2>2. Goes(k)
    BY <1>4, <1>5, <1>8 DEF AddPath, Aborts, Reasons
  <2> QED
    BY <1>6, <2>1, <2>2, ActionKeeps
<1> QED
  BY <1>7, <1>8

\* Every step of the Bucket handlers keeps the invariant.
LEMMA BucketStepKeeps ==
    ASSUME IInv, NEW k \in Keys, BucketStep(k) PROVE StepInv(k)
<1>1. k \in BucketKeys /\ UNCHANGED failed /\ failed' \in [Keys -> BOOLEAN]
  BY DEF BucketStep, IInv, S3TypeOK
<1>2. CASE CheckPath(k) \/ AddPath(k)
  BY <1>1, <1>2, PathLoopKeeps
<1>3. PICK label \in {"Handle", "Create", "SetDefaultQuota", "CreatePath", "GetQuota",
                     "ResetQuota", "Finalize"} \cup S3Labels : At(k, label)
  BY DEF BucketStep, HandleBucket, CreateBucket, SetDefaultQuota, CreatePath, GetQuota,
         ResetQuota, CheckPath, AddPath, FinalizeBucket, S3Labels
<1>4. pc[k] = label /\ UNCHANGED res /\ InHandler(k) /\ pc[k] # "Idle" /\ HandlerInv(k)
  BY <1>3, LabelFacts DEF At, InHandler, IInv, S3Labels
<1>5. label # "Finalize" => pc[k] \in ProvisionLabels
  BY <1>3, <1>4, LabelFacts DEF S3Labels
<1>6. Aborts(k) => Goes(k)
  BY <1>4, AbortsGoes
<1>7. /\ Wanted(k).paths \in Seq(Paths) /\ todo[k] \in Seq(Paths)
      /\ Bucket(k) \in Buckets \cup {None}
      /\ Wanted(k).default \in Quantities /\ Wanted(k).override \in Quantities
  BY <1>1, <1>4, HandlerData
<1>8. ASSUME NEW paths \in Seq(Paths), NEW l \in {"CreatePath", "CheckPath"},
             Loop(k, paths, l), label # "Finalize"
      PROVE  Goes(k)
  BY <1>1, <1>4, <1>5, <1>8, LoopGoes
<1>9. ASSUME NEW l \in {"Create", "SetDefaultQuota", "GetQuota", "ResetQuota"},
             Goto(k, l), UNCHANGED todo, label # "Finalize",
             l = "SetDefaultQuota" => Convertible(Wanted(k).default),
             l = "ResetQuota" => Convertible(EffectiveQuota(Wanted(k)))
      PROVE  Goes(k)
  <2>1. MayGoto(k, l)
    BY <1>1, <1>5, <1>9, LabelFacts DEF MayGoto, S3Labels, PathLabels
  <2> QED
    BY <1>4, <1>9, <2>1, JumpGoes
<1>10. CASE HandleBucket(k)
  <2>1. pc[k] = "Handle" /\ label = pc[k]
    BY <1>3, <1>4, <1>10 DEF HandleBucket, At
  <2>2. Effect
    BY <1>10, <2>1, ReadEffect DEF HandleBucket
  <2>3. Goes(k)
    BY <1>6, <1>9, <1>10, <2>1 DEF HandleBucket, Aborts, Reasons
  <2> QED
    BY <1>1, <1>3, <2>2, <2>3, ActionKeeps
<1>11. CASE CreateBucket(k)
  <2>1. pc[k] = "Create" /\ label = pc[k]
    BY <1>3, <1>4, <1>11 DEF CreateBucket, At
  <2>2. NewBucket \in Buckets
    BY AmountsAssumption DEF NewBucket, Buckets
  <2>3. Effect
    BY <1>11, <2>1, <2>2, CallEffect, ReadEffect DEF CreateBucket
  <2>4. Goes(k)
    BY <1>6, <1>9, <1>11, <2>1 DEF CreateBucket, Aborts, Reasons
  <2> QED
    BY <1>1, <1>3, <2>3, <2>4, ActionKeeps
<1>12. CASE SetDefaultQuota(k)
  <2>1. pc[k] = "SetDefaultQuota" /\ label = pc[k]
    BY <1>3, <1>4, <1>12 DEF SetDefaultQuota, At
  <2>2. Wanted(k).default \in Amounts
    BY <1>4, <1>7, <2>1 DEF HandlerInv, Convertible, Quantities, Wanted
  <2>3. Bucket(k) # None => [Bucket(k) EXCEPT !.quota = Wanted(k).default] \in Buckets
    BY <1>7, <2>2 DEF Buckets
  <2>4. Effect
    BY <1>12, <2>1, <2>3, CallEffect DEF SetDefaultQuota
  <2>5. Goes(k)
    BY <1>6, <1>7, <1>8, <1>12, <2>1 DEF SetDefaultQuota, Aborts, Reasons
  <2> QED
    BY <1>1, <1>3, <2>4, <2>5, ActionKeeps
<1>13. CASE CreatePath(k)
  <2>1. pc[k] = "CreatePath" /\ label = pc[k]
    BY <1>3, <1>4, <1>13 DEF CreatePath, At
  <2>2. todo[k] # <<>> /\ Tail(todo[k]) \in Seq(Paths)
    BY <1>4, <1>7, <2>1, HeadAndTail DEF HandlerInv
  <2>3. Effect
    BY <1>4, <1>13, <2>1, <2>2, CallEffect, PutObjectTypes DEF CreatePath
  <2>4. Goes(k)
    BY <1>6, <1>8, <1>13, <2>1, <2>2 DEF CreatePath, Aborts, Reasons
  <2> QED
    BY <1>1, <1>3, <2>3, <2>4, ActionKeeps
<1>14. CASE GetQuota(k)
  <2>1. pc[k] = "GetQuota" /\ label = pc[k]
    BY <1>3, <1>4, <1>14 DEF GetQuota, At
  <2>2. Effect
    BY <1>14, <2>1, ReadEffect DEF GetQuota
  <2>3. Goes(k)
    BY <1>6, <1>7, <1>8, <1>9, <1>14, <2>1 DEF GetQuota, Aborts, Reasons
  <2> QED
    BY <1>1, <1>3, <2>2, <2>3, ActionKeeps
<1>15. CASE ResetQuota(k)
  <2>1. pc[k] = "ResetQuota" /\ label = pc[k]
    BY <1>3, <1>4, <1>15 DEF ResetQuota, At
  <2>2. EffectiveQuota(Wanted(k)) \in Amounts
    BY <1>4, <1>7, <2>1 DEF HandlerInv, Convertible, EffectiveQuota, Quantities, Wanted
  <2>3. Bucket(k) # None => [Bucket(k) EXCEPT !.quota = EffectiveQuota(Wanted(k))] \in Buckets
    BY <1>7, <2>2 DEF Buckets
  <2>4. Effect
    BY <1>15, <2>1, <2>3, CallEffect DEF ResetQuota
  <2>5. Goes(k)
    BY <1>6, <1>7, <1>8, <1>15, <2>1 DEF ResetQuota, Aborts, Reasons
  <2> QED
    BY <1>1, <1>3, <2>4, <2>5, ActionKeeps
<1>16. CASE FinalizeBucket(k)
  <2>1. pc[k] = "Finalize" /\ label = pc[k]
    BY <1>3, <1>4, <1>16 DEF FinalizeBucket, At
  <2>2. Effect
    BY <1>16, <2>1, CallEffect, ReadEffect DEF FinalizeBucket
  <2>3. ASSUME Goto(k, "RemoveFinalizer"), UNCHANGED todo PROVE Goes(k)
    <3>1. MayGoto(k, "RemoveFinalizer")
      BY <1>4, <2>1, LabelFacts DEF MayGoto, BucketLabels, S3Labels, PathLabels
    <3> QED
      BY <2>1, <1>4, <2>3, <3>1, JumpGoes
  <2>4. Goes(k)
    BY <1>6, <1>16, <2>1, <2>3 DEF FinalizeBucket, Aborts, Reasons
  <2> QED
    BY <1>1, <1>3, <2>2, <2>4, ActionKeeps
<1> QED
  BY <1>1, <1>2, <1>10, <1>11, <1>12, <1>13, <1>14, <1>15, <1>16 DEF BucketStep

\* Every step of the Path handlers keeps the invariant.
LEMMA PathStepKeeps ==
    ASSUME IInv, NEW k \in Keys, PathStep(k) PROVE StepInv(k)
<1>1. k \in PathKeys
  BY DEF PathStep
<1>2. CASE (CheckPath(k) \/ AddPath(k)) /\ UNCHANGED failed
  BY <1>2, PathLoopKeeps
<1>3. PICK label \in {"Handle", "Finalize", "StatPath", "DeletePath"} \cup S3Labels :
             At(k, label)
  BY DEF PathStep, HandlePath, FinalizePath, StatPath, DeletePath, CheckPath, AddPath,
         S3Labels
<1>4. pc[k] = label /\ UNCHANGED res /\ InHandler(k) /\ pc[k] # "Idle" /\ HandlerInv(k)
  BY <1>3, LabelFacts DEF At, InHandler, IInv, S3Labels
<1>5. Aborts(k) => Goes(k)
  BY <1>4, AbortsGoes
<1>6. /\ Wanted(k).paths \in Seq(Paths) /\ todo[k] \in Seq(Paths)
      /\ Bucket(k) \in Buckets \cup {None} /\ failed[k] \in BOOLEAN
      /\ failed \in [Keys -> BOOLEAN]
  BY <1>4, HandlerData DEF IInv, S3TypeOK
<1>7. ASSUME NEW paths \in Seq(Paths), NEW bad \in BOOLEAN, RemoveLoop(k, paths, bad),
             label \in {"Finalize", "StatPath", "DeletePath"}
      PROVE  Goes(k) /\ failed' \in [Keys -> BOOLEAN]
  BY <1>1, <1>4, <1>7, RemoveLoopGoes, LabelFacts
<1>8. label \in {"StatPath", "DeletePath"} => todo[k] # <<>> /\ Tail(todo[k]) \in Seq(Paths)
  BY <1>4, <1>6, HeadAndTail DEF HandlerInv, PathLabels
<1>9. ASSUME NEW l \in {"DeletePath", "RemoveFinalizer"},
             Goto(k, l), UNCHANGED todo, l = "DeletePath" => todo[k] # <<>>,
             label \in {"Finalize", "StatPath", "DeletePath"}
      PROVE  Goes(k)
  <2>1. MayGoto(k, l)
    BY <1>1, <1>4, <1>9, LabelFacts DEF MayGoto, BucketLabels, S3Labels, PathLabels
  <2> QED
    BY <1>4, <1>9, <2>1, JumpGoes
<1>10. CASE HandlePath(k)
  <2>1. pc[k] = "Handle" /\ label = pc[k]
    BY <1>3, <1>4, <1>10 DEF HandlePath, At
  <2>2. Effect
    BY <1>10, <2>1, ReadEffect DEF HandlePath
  <2>3. ASSUME Loop(k, Wanted(k).paths, "CheckPath") PROVE Goes(k)
    BY <1>4, <1>6, <2>1, <2>3, LoopGoes, LabelFacts
  <2>4. Goes(k) /\ failed' \in [Keys -> BOOLEAN]
    BY <1>5, <1>6, <1>10, <2>1, <2>3 DEF HandlePath, Aborts, Reasons
  <2> QED
    BY <1>3, <2>2, <2>4, ActionKeeps
<1>11. CASE FinalizePath(k)
  <2>1. pc[k] = "Finalize" /\ label = pc[k]
    BY <1>3, <1>4, <1>11 DEF FinalizePath, At
  <2>2. Effect
    BY <1>11, <2>1, ReadEffect DEF FinalizePath
  <2>3. Goes(k) /\ failed' \in [Keys -> BOOLEAN]
    BY <1>5, <1>6, <1>7, <1>9, <1>11, <2>1 DEF FinalizePath, Aborts, Reasons
  <2> QED
    BY <1>3, <2>2, <2>3, ActionKeeps
<1>12. CASE StatPath(k)
  <2>1. pc[k] = "StatPath" /\ label = pc[k]
    BY <1>3, <1>4, <1>12 DEF StatPath, At
  <2>2. Effect
    BY <1>12, <2>1, ReadEffect DEF StatPath
  <2>3. Goes(k) /\ failed' \in [Keys -> BOOLEAN]
    BY <1>6, <1>7, <1>8, <1>9, <1>12, <2>1 DEF StatPath
  <2> QED
    BY <1>3, <2>2, <2>3, ActionKeeps
<1>13. CASE DeletePath(k)
  <2>1. pc[k] = "DeletePath" /\ label = pc[k]
    BY <1>3, <1>4, <1>13 DEF DeletePath, At
  <2>2. Bucket(k) # None => [Bucket(k) EXCEPT !.objects = @ \ {Head(todo[k])}] \in Buckets
    BY <1>6 DEF Buckets
  <2>3. Effect
    BY <1>13, <2>1, <2>2, CallEffect DEF DeletePath
  <2>4. FailureRecorded(k) \in BOOLEAN
    BY DEF FailureRecorded
  <2>5. Goes(k) /\ failed' \in [Keys -> BOOLEAN]
    BY <1>6, <1>7, <1>8, <1>13, <2>1, <2>4 DEF DeletePath
  <2> QED
    BY <1>3, <2>3, <2>5, ActionKeeps
<1> QED
  BY <1>2, <1>10, <1>11, <1>12, <1>13 DEF PathStep

-----------------------------------------------------------------------------
(* Others, restarts, and the induction *)

\* Other clients of S3 keep the invariant.
LEMMA TamperKeeps ==
    ASSUME IInv, NEW b \in BucketNames, Tamper(b) PROVE IInv'
<1>1. /\ UNCHANGED <<versions, queue, pc, res, cur, out, budget, todo, failed>>
      /\ tampers > 0 /\ tampers' = tampers - 1
      /\ \E v \in Buckets \cup {None} : buckets' = [buckets EXCEPT ![b] = v]
  BY DEF Tamper, loopVars
<1>2. S3TypeOK'
  BY <1>1 DEF IInv, S3TypeOK
<1>3. LoopIInv(Labels, ProvisionLabels, DeletingLabels)'
  BY <1>1, QuietKeeps DEF IInv, LoopIInv, LoopTypeOK, Budgets
<1>4. \A j \in Keys : HandlerInv(j)'
  BY <1>1 DEF IInv, HandlerInv
<1> QED
  BY <1>2, <1>3, <1>4 DEF IInv

\* A restart of the operator keeps the invariant.
LEMMA RestartKeeps ==
    ASSUME IInv, Restart PROVE IInv'
<1>1. LoopIInv(Labels, ProvisionLabels, DeletingLabels)'
  BY LabelsOfTheLoop, CrashKeeps DEF IInv, Restart
<1>2. S3TypeOK'
  BY DEF Restart, IInv, S3TypeOK
<1>3. \A j \in Keys : pc'[j] = "Idle"
  BY DEF Restart, Crash
<1>4. \A j \in Keys : HandlerInv(j)'
  BY <1>3 DEF HandlerInv, S3Labels, BucketLabels, PathLabels
<1> QED
  BY <1>1, <1>2, <1>4 DEF IInv

\* The invariant holds at the start.
LEMMA InitImpliesIInv == Init => IInv
<1> SUFFICES ASSUME Init PROVE IInv
  OBVIOUS
<1>1. LoopIInv(Labels, ProvisionLabels, DeletingLabels)
  BY LabelsOfTheLoop, InitKeeps DEF Init
<1>2. S3TypeOK
  BY MaxTampersIsNatural DEF Init, S3Init, S3TypeOK
<1>3. \A j \in Keys : pc[j] = "Idle"
  BY DEF Init, LoopInit
<1>4. \A j \in Keys : HandlerInv(j)
  BY <1>3 DEF HandlerInv, S3Labels, BucketLabels, PathLabels
<1> QED
  BY <1>1, <1>2, <1>4 DEF IInv

\* Every step, stuttering included, keeps the invariant.
LEMMA NextKeepsIInv == IInv /\ [Next]_vars => IInv'
<1> SUFFICES ASSUME IInv, [Next]_vars PROVE IInv'
  OBVIOUS
<1>1. ASSUME NEW k \in Keys, WorkerStep(k) PROVE IInv'
  BY <1>1, BucketStepKeeps, PathStepKeeps, LoopKeeps, StepKeepsIInv DEF WorkerStep
<1>2. ASSUME NEW k \in Keys, EnvironmentStep(k) PROVE IInv'
  BY <1>2, LoopKeeps, StepKeepsIInv DEF EnvironmentStep
<1>3. CASE UNCHANGED vars
  <2>1. UNCHANGED <<versions, queue, pc, res, cur, out, budget, buckets, todo, failed,
                    tampers>>
    BY <1>3 DEF vars, loopVars, s3Vars
  <2>2. LoopIInv(Labels, ProvisionLabels, DeletingLabels)'
    BY <2>1, QuietKeeps DEF IInv, LoopIInv, LoopTypeOK, Budgets
  <2>3. S3TypeOK' /\ \A j \in Keys : HandlerInv(j)'
    BY <2>1 DEF IInv, S3TypeOK, HandlerInv
  <2> QED
    BY <2>2, <2>3 DEF IInv
<1> QED
  BY <1>1, <1>2, <1>3, TamperKeeps, RestartKeeps DEF Next

\* The strengthened invariant holds of the two controllers, whatever the users,
\* the informer, the failures, the restarts and the other users of S3 do.
THEOREM InductiveInvariant == Spec => []IInv
  BY InitImpliesIInv, NextKeepsIInv, PTL DEF Spec

\* Every variable keeps its type: no call is made with a quota AsInt64 could not
\* convert, on a CR that is gone or on a path that is not there.
THEOREM TypeCorrect == Spec => []TypeOK
<1>1. IInv => TypeOK
  BY DEF IInv, LoopIInv, TypeOK
<1> QED
  BY <1>1, InductiveInvariant, PTL

\* A CR whose current generation was not judged yet has work pending, whatever
\* the event filter ignores, the cache does not know and the writes that are
\* refused, lost or answered too late.
THEOREM NoWakeupIsLost == Spec => []NoLostWakeup
<1>1. IInv => NoLostWakeup
  BY IInvImpliesNoLostWakeup DEF IInv
<1> QED
  BY <1>1, InductiveInvariant, PTL

-----------------------------------------------------------------------------
(* What a step does to the CRs *)

\* Only the users and the common part of Reconcile write a CR; the handlers and the
\* watch do not.
LEMMA WhoWrites ==
    ASSUME IInv, NEW k \in Keys, WorkerStep(k) \/ EnvironmentStep(k)
    PROVE  /\ \A j \in Keys \ {k} : Stored(j)' = Stored(j)
           /\ \/ Stored(k)' = Stored(k)
              \/ EditedByUser(k) /\ UNCHANGED <<s3Vars, pc, res, out>>
              \/ WrittenByWorker(k) /\ LoopStep(k) /\ UNCHANGED s3Vars
<1>1. LoopIInv(Labels, ProvisionLabels, DeletingLabels)
  BY DEF IInv
<1>2. ASSUME UserStep(k), UNCHANGED s3Vars
      PROVE  /\ \A j \in Keys \ {k} : Stored(j)' = Stored(j)
             /\ EditedByUser(k) /\ UNCHANGED <<s3Vars, pc, res, out>>
  <2>1. UNCHANGED <<pc, res, out>>
    BY <1>2 DEF UserStep, UserCreate, UserEdit, UserTouch, UserDelete, UserWrites
  <2> QED
    BY <1>1, <1>2, <2>1, UserStepEdits
<1>3. LoopStep(k) => WrittenByWorker(k) /\ \A j \in Keys \ {k} : Stored(j)' = Stored(j)
  BY <1>1, LoopStepWrites
<1>4. BucketStep(k) \/ PathStep(k) => UNCHANGED versions
  BY DEF BucketStep, HandleBucket, CreateBucket, SetDefaultQuota, CreatePath, GetQuota,
         ResetQuota, CheckPath, AddPath, FinalizeBucket, PathStep, HandlePath,
         FinalizePath, StatPath, DeletePath, At
<1>5. (UNCHANGED versions) \/ Deliver(k) => \A j \in Keys : Stored(j)' = Stored(j)
  BY <1>1, WatchStoresNothing
<1> QED
  BY <1>2, <1>3, <1>4, <1>5 DEF WorkerStep, EnvironmentStep

\* A status write, however late, never takes a CR back to an older
\* observedGeneration.
THEOREM ConditionsGoForward == Spec => StatusNeverGoesBack
<1>1. ASSUME IInv, [Next]_vars, NEW k \in Keys PROVE StatusGoesForward(k)
  <2>1. CASE Stored(k)' = Stored(k)
    <3>1. Stored(k) # None => Stored(k).cond.obs \in Nat
      BY <1>1, StoredFacts DEF IInv
    <3> QED
      BY <2>1, <3>1 DEF StatusGoesForward
  <2>2. CASE EditedByUser(k) \/ WrittenByWorker(k)
    BY <1>1, <2>2, WritesGoForward DEF IInv
  <2>3. ASSUME NEW j \in Keys, WorkerStep(j) \/ EnvironmentStep(j)
        PROVE  Stored(k)' = Stored(k) \/ EditedByUser(k) \/ WrittenByWorker(k)
    BY <1>1, <2>3, WhoWrites
  <2>4. CASE Restart \/ UNCHANGED vars \/ \E b \in BucketNames : Tamper(b)
    <3>1. UNCHANGED versions \/ Crash
      BY <2>4 DEF Restart, vars, loopVars, Tamper
    <3> QED
      BY <1>1, <2>1, <3>1, WatchStoresNothing DEF IInv
  <2> QED
    BY <1>1, <2>1, <2>2, <2>3, <2>4 DEF Next
<1>2. IInv /\ [Next]_vars
        => [\A k \in Keys : (Stored(k) # None /\ Stored(k)' # None)
              => Stored(k)'.cond.obs >= Stored(k).cond.obs]_loopVars
  BY <1>1 DEF StatusGoesForward
<1> QED
  BY <1>2, InductiveInvariant, PTL DEF Spec, StatusNeverGoesBack

-----------------------------------------------------------------------------
(* Provisioning *)

\* Only a worker that is on its way to provision its own bucket adds to S3.
LEMMA ProvisionerIsAtWork ==
    ASSUME IInv, NEW k \in Keys, WorkerStep(k), NEW b \in BucketNames, Provisioned(b)
    PROVE  pc[k] \in ProvisionLabels /\ Wanted(k).name = b
<1>1. buckets \in [BucketNames -> Buckets \cup {None}]
  BY DEF IInv, S3TypeOK
<1>2. buckets'[b] # buckets[b] /\ buckets'[b] # None
  BY DEF Provisioned
<1>3. ASSUME NEW possible, NEW v, CallWorks(k, possible, v) \/ CallFails(k, possible, v)
      PROVE  possible /\ Wanted(k).name = b /\ buckets'[b] = v
  BY <1>1, <1>2, <1>3 DEF CallWorks, CallFails, SetBucket
<1>4. ~Reads /\ ~ReadFails
  BY <1>2 DEF Reads, ReadFails
<1>5. CASE BucketStep(k)
  <2>1. ~FinalizeBucket(k)
    BY <1>2, <1>3, <1>4 DEF FinalizeBucket
  <2>2. /\ CreateBucket(k) => pc[k] = "Create"
        /\ SetDefaultQuota(k) => pc[k] = "SetDefaultQuota"
        /\ CreatePath(k) => pc[k] = "CreatePath"
        /\ ResetQuota(k) => pc[k] = "ResetQuota"
        /\ AddPath(k) => pc[k] = "AddPath"
    BY DEF CreateBucket, SetDefaultQuota, CreatePath, ResetQuota, AddPath, At
  <2>3. CreateBucket(k) \/ SetDefaultQuota(k) \/ CreatePath(k) \/ ResetQuota(k) \/ AddPath(k)
    BY <1>4, <1>5, <2>1 DEF BucketStep, HandleBucket, GetQuota, CheckPath
  <2>4. Wanted(k).name = b
    BY <1>3, <1>4, <2>3
    DEF CreateBucket, SetDefaultQuota, CreatePath, ResetQuota, AddPath
  <2> QED
    BY <2>2, <2>3, <2>4, LabelFacts
<1>6. CASE PathStep(k)
  <2>1. ~DeletePath(k)
    <3>1. SUFFICES ASSUME DeletePath(k) PROVE FALSE
      OBVIOUS
    <3>2. /\ Bucket(k) # None /\ Wanted(k).name = b
          /\ buckets'[b] = [Bucket(k) EXCEPT !.objects = @ \ {Head(todo[k])}]
      BY <1>3, <3>1 DEF DeletePath
    <3>3. buckets[b] \in Buckets
      BY <1>1, <3>2 DEF Bucket
    <3> QED
      BY <3>2, <3>3 DEF Bucket, Buckets, Provisioned
  <2>2. AddPath(k)
    BY <1>4, <1>6, <2>1 DEF PathStep, HandlePath, CheckPath, FinalizePath, StatPath
  <2>3. pc[k] = "AddPath" /\ Wanted(k).name = b
    BY <1>3, <2>2 DEF AddPath, At
  <2> QED
    BY <2>3, LabelFacts
<1>7. CASE LoopStep(k) /\ UNCHANGED s3Vars
  BY <1>2, <1>7 DEF s3Vars
<1> QED
  BY <1>5, <1>6, <1>7 DEF WorkerStep

\* What S3 gains from the operator, it gains for a CR that is stored with the
\* finalizer at that moment, so that it is not left behind unnoticed.
THEOREM ProvisionsWhileHeld == Spec => ProvisionOnlyWhileHeld
<1> DEFINE Safe == \A b \in BucketNames :
                     (Provisioned(b) /\ tampers' = tampers)
                       => \E k \in Keys : /\ pc[k] # "Idle"
                                          /\ Wanted(k).name = b
                                          /\ Held(k)
<1>1. ASSUME IInv, Next PROVE Safe
  <2>1. ASSUME NEW b \in BucketNames, Provisioned(b), tampers' = tampers
        PROVE  \E k \in Keys : pc[k] # "Idle" /\ Wanted(k).name = b /\ Held(k)
    <3>1. buckets' # buckets
      BY <2>1 DEF Provisioned
    <3>2. \A k \in Keys : ~EnvironmentStep(k)
      BY <3>1 DEF EnvironmentStep, s3Vars
    <3>3. \A c \in BucketNames : ~Tamper(c)
      BY <1>1, <2>1 DEF Tamper, IInv, S3TypeOK
    <3>4. ~Restart
      BY <3>1 DEF Restart
    <3>5. PICK k \in Keys : WorkerStep(k)
      BY <1>1, <3>2, <3>3, <3>4 DEF Next
    <3>6. pc[k] \in ProvisionLabels /\ Wanted(k).name = b
      BY <1>1, <2>1, <3>5, ProvisionerIsAtWork
    <3>7. pc[k] # "Idle" /\ Held(k)
      BY <1>1, <3>6, LabelFacts DEF IInv, LoopIInv, LoopInv, WorkerInv
    <3> QED
      BY <3>6, <3>7
  <2> QED
    BY <2>1
<1>2. IInv /\ [Next]_vars => [Safe]_vars
  BY <1>1
<1>3. Spec => [][Safe]_vars
  BY <1>2, InductiveInvariant, PTL DEF Spec
<1> QED
  BY <1>3 DEF ProvisionOnlyWhileHeld

=============================================================================
