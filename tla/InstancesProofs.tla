---------------------------- MODULE InstancesProofs ----------------------------
(***************************************************************************)
(* Proofs about InstancesAtWork, for any number of S3Instances, of kinds,  *)
(* of CRs that depend on them, any patterns and any bounds: its IInv is    *)
(* inductive, no reference that is held is overlooked when an S3Instance   *)
(* is deleted, and no CR gets through an S3Instance that is closed to it.  *)
(***************************************************************************)
EXTENDS PatternProofs, LoopProofs
LOCAL INSTANCE SequencesExt

-----------------------------------------------------------------------------
(* The handlers *)

\* The labels are what the lemmas about the loop ask for.
LEMMA LabelsOfTheLoop == LabelSets(Labels, ProvisionLabels, DeletingLabels)
  BY DEF LabelSets, ProvisionLabels, DeletingLabels, InstanceLabels, Labels, LoopLabels

LEMMA LoopPart == IInv => LoopIInv(Labels, ProvisionLabels, DeletingLabels)
  BY DEF IInv, InstanceTypeOK, LoopIInv

\* How a handler goes on: on the way the loop allows, or back to the queue.
Goes(k) ==
    \/ Proceeds(k, ProvisionLabels, DeletingLabels) /\ Continue
    \/ Return(k, TRUE)

\* What it then reports: nothing, or a reason, which is "Reconciled" without error.
Reports(k) ==
    \/ pc'[k] # "SetStatus" /\ (out' = out \/ out'[k] = NoOutcome)
    \/ /\ pc'[k] = "SetStatus"
       /\ out'[k].reason # "None"
       /\ out'[k].reason = "Reconciled" => ~out'[k].err

\* A step of a handler.
Handles(k) ==
    /\ pc[k] \in ProvisionLabels \cup DeletingLabels
    /\ UNCHANGED <<versions, access>>
    /\ unlisted' \in [InstanceKeys -> (SUBSET Kinds) \ {{}}]
    /\ budget' \in Budgets
    /\ Goes(k) /\ Reports(k)

LEMMA BudgetsStay ==
    ASSUME IInv, Fault \/ UNCHANGED budget
    PROVE  budget' \in Budgets
  BY LoopPart, FaultKeepsBudgets

\* Where a worker goes, and what it then reports.
LEMMA WhereItGoes ==
    ASSUME IInv, NEW k \in Keys
    PROVE  /\ \A label : Goto(k, label) => pc'[k] = label /\ out' = out
           /\ \A reason, err : Conclude(k, reason, err)
                => /\ pc'[k] = "SetStatus"
                   /\ out'[k].reason = reason /\ out'[k].err = err
           /\ \A retry : Return(k, retry) => pc'[k] = "Idle" /\ out'[k] = NoOutcome
  BY DEF IInv, InstanceTypeOK, LoopTypeOK, Goto, Conclude, Return

\* A failure, or the finalizer to remove.
LEMMA FailureGoes ==
    ASSUME IInv, NEW k \in Keys, pc[k] \in ProvisionLabels \cup DeletingLabels,
           NEW reason \in Reasons \ {"Reconciled"}, Conclude(k, reason, TRUE), Continue
    PROVE  Goes(k) /\ Reports(k)
<1>1. Proceeds(k, ProvisionLabels, DeletingLabels)
  BY DEF Proceeds
<1>2. Reports(k)
  BY WhereItGoes DEF Reports, Reasons
<1> QED
  BY <1>1, <1>2 DEF Goes

LEMMA SuccessGoes ==
    ASSUME IInv, NEW k \in Keys, pc[k] \in ProvisionLabels,
           Conclude(k, "Reconciled", FALSE), Continue
    PROVE  Goes(k) /\ Reports(k)
<1>1. Proceeds(k, ProvisionLabels, DeletingLabels)
  BY DEF Proceeds, Reasons
<1>2. pc'[k] = "SetStatus" /\ out'[k] = [reason |-> "Reconciled", err |-> FALSE]
  BY DEF Conclude, IInv, InstanceTypeOK, LoopTypeOK
<1>3. Reports(k)
  BY <1>2 DEF Reports
<1> QED
  BY <1>1, <1>3 DEF Goes

LEMMA JumpGoes ==
    ASSUME IInv, NEW k \in Keys, NEW label, Goto(k, label), Continue,
           \/ pc[k] \in ProvisionLabels /\ label \in ProvisionLabels
           \/ pc[k] \in DeletingLabels /\ label \in DeletingLabels
    PROVE  Goes(k) /\ Reports(k)
<1>1. Proceeds(k, ProvisionLabels, DeletingLabels)
  BY DEF Proceeds
<1>2. Reports(k)
  BY WhereItGoes DEF Reports, ProvisionLabels, InstanceLabels, DeletingLabels
<1> QED
  BY <1>1, <1>2 DEF Goes

LEMMA ReturnGoes ==
    ASSUME IInv, NEW k \in Keys, Return(k, TRUE)
    PROVE  Goes(k) /\ Reports(k)
  BY WhereItGoes DEF Goes, Reports

\* A CR that depends on an S3Instance, whatever its lookup says.
LEMMA DependentHandles ==
    ASSUME IInv, NEW k \in Keys, HandleDependent(k) \/ FinalizeDependent(k)
    PROVE  Handles(k)
<1>1. /\ pc[k] \in {"Handle", "Finalize"}
      /\ pc[k] \in ProvisionLabels \cup DeletingLabels
      /\ UNCHANGED <<versions, access, unlisted>>
      /\ budget' \in Budgets
  BY BudgetsStay
  DEF HandleDependent, FinalizeDependent, DependentStep, At, Reads, ReadFails,
      ProvisionLabels, DeletingLabels
<1>2. unlisted' \in [InstanceKeys -> (SUBSET Kinds) \ {{}}]
  BY <1>1 DEF IInv, InstanceTypeOK
<1>3. ASSUME NEW reason \in {"Unreachable", "DeletionFailure"}, Continue,
             Conclude(k, reason, TRUE)
      PROVE  Goes(k) /\ Reports(k)
  BY <1>1, <1>3, FailureGoes DEF Reasons
<1>4. CASE HandleDependent(k)
  <2>1. pc[k] \in ProvisionLabels
    BY <1>4 DEF HandleDependent, DependentStep, At, ProvisionLabels
  <2>2. \/ Continue /\ Conclude(k, "Reconciled", FALSE)
        \/ Continue /\ Conclude(k, "Unreachable", TRUE)
        \/ Return(k, TRUE)
    BY <1>4 DEF HandleDependent, DependentStep
  <2> QED
    BY <1>1, <1>2, <1>3, <2>1, <2>2, SuccessGoes, ReturnGoes DEF Handles
<1>5. CASE FinalizeDependent(k)
  <2>1. pc[k] \in DeletingLabels /\ "RemoveFinalizer" \in DeletingLabels
    BY <1>5 DEF FinalizeDependent, DependentStep, At, DeletingLabels
  <2>2. \/ Continue /\ Goto(k, "RemoveFinalizer")
        \/ Continue /\ Conclude(k, "DeletionFailure", TRUE)
        \/ Return(k, TRUE)
    BY <1>5 DEF FinalizeDependent, DependentStep
  <2> QED
    BY <1>1, <1>2, <1>3, <2>1, <2>2, JumpGoes, ReturnGoes DEF Handles
<1> QED
  BY <1>4, <1>5

\* An S3Instance.
LEMMA InstanceHandles ==
    ASSUME IInv, NEW k \in Keys, HandleInstance(k) \/ ListBuckets(k)
    PROVE  Handles(k)
<1>1. /\ pc[k] \in ProvisionLabels /\ "ListBuckets" \in ProvisionLabels
      /\ UNCHANGED <<versions, access, unlisted>> /\ Continue
      /\ budget' \in Budgets
  BY BudgetsStay
  DEF HandleInstance, ListBuckets, At, Reads, ReadFails, ProvisionLabels, InstanceLabels
<1>2. unlisted' \in [InstanceKeys -> (SUBSET Kinds) \ {{}}]
  BY <1>1 DEF IInv, InstanceTypeOK
<1>3. \/ Goto(k, "ListBuckets")
      \/ Conclude(k, "Reconciled", FALSE)
      \/ Conclude(k, "Unreachable", TRUE)
      \/ Conclude(k, "CreationFailure", TRUE)
  BY DEF HandleInstance, ListBuckets
<1>4. Goes(k) /\ Reports(k)
  BY <1>1, <1>3, JumpGoes, SuccessGoes, FailureGoes DEF Reasons
<1> QED
  BY <1>1, <1>2, <1>4 DEF Handles

LEMMA FinalizeInstanceHandles ==
    ASSUME IInv, NEW k \in Keys, FinalizeInstance(k)
    PROVE  Handles(k)
<1>1. /\ pc[k] = "Finalize" /\ pc[k] \in DeletingLabels
      /\ "RemoveFinalizer" \in DeletingLabels
      /\ k \in InstanceKeys /\ UNCHANGED <<versions, access>>
      /\ budget' \in Budgets
  BY BudgetsStay DEF FinalizeInstance, At, Reads, DeletingLabels
<1>2. PICK kind \in unlisted[k] :
        LET left == unlisted[k] \ {kind}
            more == References(k, kind) = {} /\ left # {}
        IN  /\ unlisted' = [unlisted EXCEPT ![k] = IF more THEN left ELSE Kinds]
            /\ \/ References(k, kind) # {} /\ InUse(k)
               \/ more /\ Continue /\ UNCHANGED <<pc, out>>
               \/ /\ References(k, kind) = {} /\ left = {}
                  /\ Continue /\ Goto(k, "RemoveFinalizer")
  BY DEF FinalizeInstance
<1>3. unlisted' \in [InstanceKeys -> (SUBSET Kinds) \ {{}}]
  <2> DEFINE left == unlisted[k] \ {kind}
             next == IF References(k, kind) = {} /\ left # {} THEN left ELSE Kinds
  <2>1. unlisted' = [unlisted EXCEPT ![k] = next]
    BY <1>2
  <2>2. unlisted[k] \in SUBSET Kinds
    BY <1>1 DEF IInv, InstanceTypeOK
  <2>3. left \subseteq Kinds /\ Kinds # {}
    BY <2>2, InstanceConstants
  <2> HIDE DEF left
  <2>4. next \in (SUBSET Kinds) \ {{}}
    BY <2>3
  <2> HIDE DEF next
  <2> QED
    BY <1>1, <2>1, <2>4 DEF IInv, InstanceTypeOK
<1>4. CASE InUse(k)
  BY <1>1, <1>3, <1>4, ReturnGoes DEF InUse, Handles
<1>5. CASE Continue /\ UNCHANGED <<pc, out>>
  BY <1>1, <1>3, <1>5 DEF Handles, Goes, Proceeds, Reports
<1>6. CASE Continue /\ Goto(k, "RemoveFinalizer")
  BY <1>1, <1>3, <1>6, JumpGoes DEF Handles
<1> QED
  BY <1>2, <1>4, <1>5, <1>6

LEMMA InstanceStepHandles ==
    ASSUME IInv, NEW k \in Keys, InstanceStep(k)
    PROVE  Handles(k)
  BY DependentHandles, InstanceHandles, FinalizeInstanceHandles DEF InstanceStep

-----------------------------------------------------------------------------
(* The inductive invariant *)

DataTypeOK ==
    /\ access \subseteq InstanceKeys
    /\ unlisted \in [InstanceKeys -> (SUBSET Kinds) \ {{}}]

\* What a step of CR k must show.
StepInv(k) ==
    /\ Keeps(k, Labels, ProvisionLabels, DeletingLabels)
    /\ ReportInv(k)'
    /\ DataTypeOK'

LEMMA StepKeepsIInv ==
    ASSUME IInv, NEW k \in Keys, StepInv(k)
    PROVE  IInv'
<1>1. LoopIInv(Labels, ProvisionLabels, DeletingLabels)'
  BY LoopPart, KeepsLoopIInv DEF StepInv
<1>2. ASSUME NEW j \in Keys, j # k PROVE ReportInv(j)'
  BY <1>2 DEF StepInv, Keeps, LeftAlone, ReportInv, IInv
<1> QED
  BY <1>1, <1>2 DEF StepInv, IInv, InstanceTypeOK, DataTypeOK, LoopIInv

LEMMA HandlesKeeps ==
    ASSUME IInv, NEW k \in Keys, Handles(k)
    PROVE  StepInv(k)
<1>1. Keeps(k, Labels, ProvisionLabels, DeletingLabels)
  BY LoopPart, LabelsOfTheLoop, ProceedsKeeps, RetryKeeps DEF Handles, Goes, Continue
<1>2. pc[k] # "SetStatus"
  BY LabelsOfTheLoop DEF Handles, LabelSets
<1>3. ReportInv(k)'
  BY <1>2 DEF Handles, Reports, ReportInv, IInv
<1> QED
  BY <1>1, <1>3 DEF Handles, StepInv, DataTypeOK, IInv, InstanceTypeOK

LEMMA LoopKeeps ==
    ASSUME IInv, NEW k \in Keys, UserStep(k) \/ Deliver(k) \/ LoopStep(k),
           UNCHANGED instanceVars
    PROVE  StepInv(k)
<1>1. Keeps(k, Labels, ProvisionLabels, DeletingLabels)
  BY LoopPart, LabelsOfTheLoop, UserStepKeeps, DeliverKeeps, LoopStepKeeps
<1>2. ReportInv(k)'
  BY LoopPart, ReportKept DEF IInv
<1>3. DataTypeOK'
  BY DEF instanceVars, DataTypeOK, IInv, InstanceTypeOK
<1> QED
  BY <1>1, <1>2, <1>3 DEF StepInv

\* Others, who leave the CRs alone.
LEMMA QuietlyKeeps ==
    ASSUME IInv, UNCHANGED <<versions, queue, pc, res, cur, out>>, budget' \in Budgets,
           DataTypeOK'
    PROVE  IInv'
<1>1. LoopIInv(Labels, ProvisionLabels, DeletingLabels)'
  <2>1. queue' = queue /\ queue \subseteq Keys
    BY DEF IInv, InstanceTypeOK, LoopTypeOK
  <2> QED
    BY <2>1, LoopPart, QuietKeeps
<1>2. \A j \in Keys : ReportInv(j)'
  BY DEF IInv, ReportInv
<1> QED
  BY <1>1, <1>2 DEF IInv, InstanceTypeOK, DataTypeOK, LoopIInv

LEMMA NextKeepsIInv ==
    ASSUME IInv, [Next]_vars PROVE IInv'
<1>1. DataTypeOK /\ budget \in Budgets
  BY DEF IInv, InstanceTypeOK, DataTypeOK, LoopTypeOK, Budgets
<1>2. ASSUME NEW k \in Keys,
             \/ WorkerStep(k) \/ DeliverCR(k)
             \/ UserStep(k) /\ UNCHANGED instanceVars
      PROVE  IInv'
  BY <1>2, InstanceStepHandles, HandlesKeeps, LoopKeeps, StepKeepsIInv
  DEF WorkerStep, DeliverCR
<1>3. ASSUME NEW i \in InstanceKeys, SecretAppears(i) \/ SecretDisappears(i)
      PROVE  IInv'
  <2>1. budget' \in Budgets
    BY <1>1, <1>3, BudgetsStay DEF SecretAppears, SecretDisappears, loopVars
  <2>2. DataTypeOK'
    BY <1>1, <1>3 DEF SecretAppears, SecretDisappears, DataTypeOK
  <2> QED
    BY <1>3, <2>1, <2>2, QuietlyKeeps DEF SecretAppears, SecretDisappears, loopVars
<1>4. CASE Restart
  <2>1. LoopIInv(Labels, ProvisionLabels, DeletingLabels)'
    BY <1>4, LoopPart, LabelsOfTheLoop, CrashKeeps DEF Restart
  <2>2. DataTypeOK'
    BY <1>1, <1>4, InstanceConstants DEF Restart, DataTypeOK
  <2>3. \A j \in Keys : ReportInv(j)'
    BY <1>4, LoopPart, ReportKept DEF Restart, IInv
  <2> QED
    BY <2>1, <2>2, <2>3 DEF IInv, InstanceTypeOK, DataTypeOK, LoopIInv
<1>5. CASE UNCHANGED vars
  BY <1>1, <1>5, QuietlyKeeps DEF vars, loopVars, instanceVars, DataTypeOK
<1> QED
  BY <1>2, <1>3, <1>4, <1>5 DEF Next

\* The invariant of the loop holds for S3Instances and their dependents, who read
\* each other from caches; and each condition comes from a reconciliation.
THEOREM InductiveInvariant == Spec => []IInv
<1>1. InstanceInit => IInv
  <2> SUFFICES ASSUME InstanceInit PROVE IInv
    OBVIOUS
  <2>1. LoopIInv(Labels, ProvisionLabels, DeletingLabels)
    BY LabelsOfTheLoop, InitKeeps DEF InstanceInit
  <2>2. DataTypeOK
    BY InstanceConstants DEF InstanceInit, DataTypeOK
  <2>3. ASSUME NEW k \in Keys PROVE ReportInv(k)
    <3>1. versions[k] = <<None>> /\ pc[k] = "Idle" /\ out[k] = NoOutcome
      BY DEF InstanceInit, LoopInit
    <3>2. \A n \in 1..Len(versions[k]) : versions[k][n] = None
      BY <3>1
    <3> QED
      BY <3>1, <3>2 DEF ReportInv
  <2> QED
    BY <2>1, <2>2, <2>3 DEF IInv, InstanceTypeOK, DataTypeOK, LoopIInv
<1>2. IInv /\ [Next]_vars => IInv'
  BY NextKeepsIInv
<1> QED
  BY <1>1, <1>2, PTL DEF Spec

\* Every variable keeps its type.
THEOREM TypeCorrect == Spec => []InstanceTypeOK
<1>1. IInv => InstanceTypeOK
  BY DEF IInv
<1> QED
  BY <1>1, InductiveInvariant, PTL

\* An S3Instance or a dependent whose current generation was not judged yet has
\* work pending, also when what it waits for is not there.
THEOREM NoWakeupIsLost == Spec => []NoLostWakeup
<1>1. IInv => NoLostWakeup
  BY LoopPart, IInvImpliesNoLostWakeup
<1> QED
  BY <1>1, InductiveInvariant, PTL

\* No status write takes the condition of an S3Instance or of a dependent back to
\* an older generation.
THEOREM ConditionsGoForward == Spec => StatusNeverGoesBack
<1>1. ASSUME IInv, [Next]_vars PROVE \A k \in Keys : StatusGoesForward(k)
  <2>1. \/ \E k \in Keys : LoopStep(k) \/ UserStep(k) \/ Deliver(k)
        \/ Crash \/ UNCHANGED versions
    <3>1. ASSUME NEW k \in Keys, WorkerStep(k) \/ DeliverCR(k)
                                  \/ (UserStep(k) /\ UNCHANGED instanceVars)
          PROVE  LoopStep(k) \/ UserStep(k) \/ Deliver(k) \/ UNCHANGED versions
      BY <1>1, <3>1, InstanceStepHandles DEF WorkerStep, DeliverCR, Handles
    <3>2. \/ \E i \in InstanceKeys : SecretAppears(i) \/ SecretDisappears(i)
          \/ UNCHANGED vars
          => UNCHANGED versions
      BY DEF SecretAppears, SecretDisappears, vars, loopVars
    <3> QED
      BY <1>1, <3>1, <3>2 DEF Next, Restart
  <2> QED
    BY <1>1, <2>1, LoopPart, ConditionsStay
<1>2. IInv /\ [Next]_vars
        => [\A k \in Keys : (Stored(k) # None /\ Stored(k)' # None)
              => Stored(k)'.cond.obs >= Stored(k).cond.obs]_loopVars
  BY <1>1 DEF StatusGoesForward
<1> QED
  BY <1>2, InductiveInvariant, PTL DEF Spec, StatusNeverGoesBack

-----------------------------------------------------------------------------
(* The references to an S3Instance *)

\* A CR with a finalizer is in the cache, with the reference it has.
LEMMA HoldersAreCached ==
    ASSUME IInv, NEW d \in Dependents, NEW i \in InstanceKeys, Held(d), Uses(d, i)
    PROVE  Cached(d) # None /\ RefersTo(d, Cached(d), i)
<1>1. d \in Keys
  BY DEF Dependents
<1>2. Cached(d) # None /\ Cached(d).spec \in Specs[d] /\ Stored(d).spec \in Specs[d]
  BY <1>1, LoopPart, StoredFacts, Facts DEF Held, Cached
<1> QED
  BY <1>2, InstanceSpecsAssumption DEF Uses, RefersTo

\* A kind is done with, or the finalizer is to go, only when no cached CR of that
\* kind refers to the S3Instance.
LEMMA CountsKind ==
    ASSUME IInv, [Next]_vars, NEW i \in InstanceKeys, NEW kind \in Kinds,
           pc[i] = "Finalize", kind \in unlisted[i],
           pc'[i] = "RemoveFinalizer" \/ kind \notin unlisted'[i]
    PROVE  References(i, kind) = {}
<1>1. i \in Keys /\ pc \in [Keys -> Labels]
  BY InstanceConstants DEF IInv, InstanceTypeOK, LoopTypeOK
<1>2. unlisted' # unlisted \/ pc' # pc
  BY <1>1
<1>3. ~UNCHANGED vars /\ ~Restart
  BY <1>1, <1>2, InstanceConstants DEF vars, loopVars, instanceVars, Restart, Crash
<1>4. \A j \in InstanceKeys : ~SecretAppears(j) /\ ~SecretDisappears(j)
  BY <1>2 DEF SecretAppears, SecretDisappears, loopVars
<1>5. \A k \in Keys : ~DeliverCR(k) /\ ~(UserStep(k) /\ UNCHANGED instanceVars)
  BY <1>2 DEF DeliverCR, Deliver, UserStep, UserCreate, UserEdit, UserTouch, UserDelete,
              UserWrites, instanceVars
<1>6. PICK k \in Keys : WorkerStep(k)
  BY <1>3, <1>4, <1>5 DEF Next
<1>7. k = i
  <2>1. ASSUME k # i PROVE FALSE
    <3>1. StepInv(k)
      BY <1>6, InstanceStepHandles, HandlesKeeps, LoopKeeps DEF WorkerStep
    <3>2. pc'[i] = pc[i]
      BY <1>1, <2>1, <3>1 DEF StepInv, Keeps, LeftAlone
    <3>3. kind \notin unlisted'[i]
      BY <3>2
    <3>4. FinalizeInstance(k)
      BY <1>6, <3>3 DEF WorkerStep, InstanceStep, HandleDependent, FinalizeDependent,
                        DependentStep, HandleInstance, ListBuckets, instanceVars
    <3>5. unlisted'[i] = unlisted[i]
      BY <2>1, <3>4 DEF FinalizeInstance, IInv, InstanceTypeOK
    <3> QED
      BY <3>3, <3>5
  <2> QED
    BY <2>1
<1>8. ~LoopStep(i)
  BY DEF LoopStep, StartGone, Start, InitStatus, RefetchStatus, AddFinalizer,
         RefetchFinalizer, SetStatus, RemoveFinalizer, Refetch
<1>9. FinalizeInstance(i)
  BY <1>6, <1>7, <1>8 DEF WorkerStep, InstanceStep, HandleDependent, FinalizeDependent,
     DependentStep, HandleInstance, ListBuckets, At, Dependents
<1>10. PICK counted \in unlisted[i] :
         LET left == unlisted[i] \ {counted}
             more == References(i, counted) = {} /\ left # {}
         IN  /\ unlisted' = [unlisted EXCEPT ![i] = IF more THEN left ELSE Kinds]
             /\ \/ References(i, counted) # {} /\ InUse(i)
                \/ more /\ Continue /\ UNCHANGED <<pc, out>>
                \/ /\ References(i, counted) = {} /\ left = {}
                   /\ Continue /\ Goto(i, "RemoveFinalizer")
  BY <1>9 DEF FinalizeInstance
<1>11. CASE InUse(i) /\ References(i, counted) # {}
  <2>1. pc'[i] = "Idle"
    BY <1>1, <1>11, WhereItGoes DEF InUse
  <2>2. unlisted'[i] = Kinds
    BY <1>10, <1>11 DEF IInv, InstanceTypeOK
  <2> QED
    BY <2>1, <2>2
<1>12. CASE References(i, counted) = {}
  <2>1. CASE unlisted[i] \ {counted} = {}
    BY <1>12, <2>1
  <2>2. CASE unlisted[i] \ {counted} # {}
    <3>1. unlisted'[i] = unlisted[i] \ {counted}
      BY <1>10, <1>12, <2>2 DEF IInv, InstanceTypeOK
    <3>2. pc'[i] = pc[i]
      BY <1>10, <1>12, <2>2
    <3> QED
      BY <1>12, <3>1, <3>2
  <2> QED
    BY <2>1, <2>2
<1> QED
  BY <1>10, <1>11, <1>12

\* Whatever the caches lack, the count made before an S3Instance is let go, kind
\* after kind, misses no CR that has its finalizer and needs the S3Instance when
\* its kind is counted.
THEOREM NoHolderIsMissed == Spec => CountSeesEveryHolder
<1> DEFINE Safe == \A i \in InstanceKeys : \A kind \in Kinds :
                     (/\ pc[i] = "Finalize"
                      /\ kind \in unlisted[i]
                      /\ \/ pc'[i] = "RemoveFinalizer"
                         \/ kind \notin unlisted'[i])
                       => ~\E d \in Dependents :
                              KindOf[d] = kind /\ Held(d) /\ Uses(d, i)
<1>1. ASSUME IInv, [Next]_vars PROVE Safe
  BY <1>1, CountsKind, HoldersAreCached DEF References
<1>2. IInv /\ [Next]_vars => [Safe]_vars
  BY <1>1
<1>3. Spec => [][Safe]_vars
  BY <1>2, InductiveInvariant, PTL DEF Spec
<1> QED
  BY <1>3 DEF CountSeesEveryHolder

-----------------------------------------------------------------------------
(* The way through an S3Instance *)

\* The lookup finds nothing wrong only with an S3Instance that is known, open and
\* found to work: a condition that says "Reconciled" says "True".
LEMMA FoundIsOpen ==
    ASSUME IInv, NEW d \in Dependents, Lookup(d) = "none"
    PROVE  \E i \in InstanceKeys : /\ RefersTo(d, res[d], i)
                                   /\ Cached(i) # None
                                   /\ Open(i, Cached(i), Id[d].namespace)
                                   /\ Cached(i).cond.status = "True"
<1> DEFINE found == {i \in InstanceKeys : Cached(i) # None /\ RefersTo(d, res[d], i)}
           allowing == {i \in found : IsAllowedNamespaces(Id[d].namespace, i, Cached(i))}
           i == CHOOSE j \in allowing : TRUE
           c == Cached(i).cond
           answer == CASE c = NoCondition -> "panic"
                       [] c.reason \notin {"None", "Reconciled"} -> "not ready"
                       [] c.reason = "Reconciled" ->
                            IF i \in access THEN "none" ELSE "no secret"
<1>1. Lookup(d) = IF allowing = {} THEN "not found" ELSE answer
  BY DEF Lookup
<1> HIDE DEF answer
<1>2. allowing # {} /\ answer = "none"
  BY <1>1
<1>3. i \in allowing
  BY <1>2
<1>4. /\ i \in InstanceKeys /\ i \in Keys /\ Cached(i) # None /\ RefersTo(d, res[d], i)
      /\ IsAllowedNamespaces(Id[d].namespace, i, Cached(i))
  BY <1>3, InstanceConstants
<1> HIDE DEF i
<1>5. Open(i, Cached(i), Id[d].namespace)
  <2>1. Cached(i).spec \in InstanceSpecs
    BY <1>4, LoopPart, StoredFacts, InstanceSpecsAssumption
  <2>2. Id[d].namespace \in Namespaces
    BY InstanceConstants DEF Dependents
  <2> QED
    BY <1>4, <2>1, <2>2, NamespacesAllowedAsDocumented
<1>6. TruthfulCondition(c)
  <2>1. 1 \in 1..Len(versions[i]) /\ ReportInv(i)
    BY <1>4, LoopPart, Facts DEF IInv
  <2> QED
    BY <1>4, <2>1 DEF ReportInv, Cached
<1> HIDE DEF c
<1>7. c.reason = "Reconciled"
  <2>1. ASSUME c.reason # "Reconciled" PROVE FALSE
    <3>1. CASE c = NoCondition
      <4>1. c.reason = "None"
        BY <3>1 DEF NoCondition
      <4>2. answer = "panic"
        BY <3>1, <4>1 DEF answer
      <4> QED
        BY <1>2, <4>2
    <3>2. CASE c # NoCondition
      <4>1. c.reason \notin {"None", "Reconciled"}
        BY <1>6, <2>1, <3>2 DEF TruthfulCondition
      <4>2. answer = "not ready"
        BY <3>2, <4>1 DEF answer
      <4> QED
        BY <1>2, <4>2
    <3> QED
      BY <3>1, <3>2
  <2> QED
    BY <2>1
<1>8. Cached(i).cond.status = "True"
  BY <1>6, <1>7 DEF TruthfulCondition, c
<1> QED
  BY <1>4, <1>5, <1>8

\* Only a lookup that found nothing wrong leads on.
LEMMA DependentAdvances ==
    ASSUME IInv, NEW d \in Dependents,
           HandleDependent(d) \/ FinalizeDependent(d),
           pc'[d] = "RemoveFinalizer" \/ out'[d].reason = "Reconciled"
    PROVE  Lookup(d) = "none"
<1>1. d \in Keys
  BY DEF Dependents
<1>2. ASSUME NEW reason \in {"Unreachable", "DeletionFailure"}, Conclude(d, reason, TRUE)
      PROVE  FALSE
  <2>1. pc'[d] = "SetStatus" /\ out'[d].reason = reason
    BY <1>1, <1>2, WhereItGoes
  <2> QED
    BY <1>2, <2>1
<1>3. ASSUME Return(d, TRUE) PROVE FALSE
  <2>1. pc'[d] = "Idle" /\ out'[d] = NoOutcome
    BY <1>1, <1>3, WhereItGoes
  <2> QED
    BY <2>1 DEF NoOutcome
<1>4. ~Conclude(d, "Unreachable", TRUE) /\ ~Conclude(d, "DeletionFailure", TRUE)
  BY <1>2
<1> QED
  BY <1>3, <1>4 DEF HandleDependent, FinalizeDependent, DependentStep

\* A worker moves by itself, or all are stopped.
LEMMA WhoMoves ==
    ASSUME IInv, [Next]_vars, NEW k \in Keys, pc'[k] # pc[k] \/ out'[k] # out[k]
    PROVE  WorkerStep(k) \/ Restart
<1>1. ASSUME NEW j \in Keys, WorkerStep(j), j # k PROVE FALSE
  <2>1. StepInv(j)
    BY <1>1, InstanceStepHandles, HandlesKeeps, LoopKeeps DEF WorkerStep
  <2> QED
    BY <1>1, <2>1 DEF StepInv, Keeps, LeftAlone
<1>2. ASSUME NEW j \in Keys PROVE ~DeliverCR(j) /\ ~(UserStep(j) /\ UNCHANGED instanceVars)
  BY DEF DeliverCR, Deliver, UserStep, UserCreate, UserEdit, UserTouch, UserDelete, UserWrites
<1>3. ASSUME NEW i \in InstanceKeys PROVE ~SecretAppears(i) /\ ~SecretDisappears(i)
  BY DEF SecretAppears, SecretDisappears, loopVars
<1>4. ~UNCHANGED vars
  BY DEF vars, loopVars
<1> QED
  BY <1>1, <1>2, <1>3, <1>4 DEF Next

\* A Bucket, Path, Policy or S3User CR is provisioned, or loses its finalizer,
\* only by way of an S3Instance that exists for the operator, that the
\* documentation calls open to its namespace and whose condition says "True".
THEOREM ClosedInstancesAreNotUsed == Spec => OnlyThroughOpenInstances
<1> DEFINE Safe == \A d \in Dependents :
         (/\ pc[d] \in {"Handle", "Finalize"}
          /\ \/ pc'[d] = "RemoveFinalizer"
             \/ out'[d].reason = "Reconciled")
           => \E i \in InstanceKeys : /\ RefersTo(d, res[d], i)
                                      /\ Cached(i) # None
                                      /\ Open(i, Cached(i), Id[d].namespace)
                                      /\ Cached(i).cond.status = "True"
<1>1. ASSUME IInv, [Next]_vars, NEW d \in Dependents, pc[d] \in {"Handle", "Finalize"},
             pc'[d] = "RemoveFinalizer" \/ out'[d].reason = "Reconciled"
      PROVE  Lookup(d) = "none"
  <2>1. d \in Keys /\ d \notin InstanceKeys
    BY DEF Dependents
  <2>2. out[d] = NoOutcome
    BY <1>1, <2>1 DEF IInv, ReportInv
  <2>3. WorkerStep(d)
    <3>1. pc'[d] # pc[d] \/ out'[d] # out[d]
      BY <1>1, <2>2 DEF NoOutcome
    <3>2. ~Restart
      BY <1>1, <2>1 DEF Restart, Crash, NoOutcome
    <3> QED
      BY <1>1, <2>1, <3>1, <3>2, WhoMoves
  <2>4. ~LoopStep(d)
    BY <1>1 DEF LoopStep, StartGone, Start, InitStatus, RefetchStatus, AddFinalizer,
                RefetchFinalizer, SetStatus, RemoveFinalizer, Refetch
  <2>5. HandleDependent(d) \/ FinalizeDependent(d)
    BY <1>1, <2>1, <2>3, <2>4
    DEF WorkerStep, InstanceStep, HandleInstance, ListBuckets, FinalizeInstance, At
  <2> QED
    BY <1>1, <2>5, DependentAdvances
<1>2. IInv /\ [Next]_vars => [Safe]_vars
  BY <1>1, FoundIsOpen
<1>3. Spec => [][Safe]_vars
  BY <1>2, InductiveInvariant, PTL DEF Spec
<1> QED
  BY <1>3 DEF OnlyThroughOpenInstances

=============================================================================
