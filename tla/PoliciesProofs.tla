---------------------------- MODULE PoliciesProofs ----------------------------
(***************************************************************************)
(* Proofs about PoliciesAtWork, for any set of CRs, policies, contents and *)
(* bounds: its IInv is inductive, and so are, as long as nobody else       *)
(* changes a policy, what ties a Policy CR to the content on S3 and the    *)
(* policy to its CR.                                                       *)
(***************************************************************************)
EXTENDS PoliciesAtWork, LoopProofs

-----------------------------------------------------------------------------
(* The handlers *)

\* The labels are what the lemmas about the loop ask for.
LEMMA LabelsOfTheLoop == LabelSets(Labels, ProvisionLabels, DeletingLabels)
  BY DEF LabelSets, ProvisionLabels, DeletingLabels, PolicyLabels, Labels, LoopLabels

\* The data a handler works with.
LEMMA HandlerData ==
    ASSUME IInv, NEW k \in Keys, pc[k] # "Idle"
    PROVE  /\ Wanted(k) \in Specs[k]
           /\ Wanted(k).name \in PolicyNames
           /\ Wanted(k).content \in Contents \cup {NotJson}
           /\ Effective(k) \in Policies \cup {None}
<1>1. Wanted(k) \in Specs[k]
  BY StoredFacts DEF IInv, Wanted
<1>2. Wanted(k).name \in PolicyNames /\ Wanted(k).content \in Contents \cup {NotJson}
  BY <1>1, PolicySpecsAssumption DEF PolicySpecs
<1> QED
  BY <1>1, <1>2 DEF Effective, IInv, PolicyTypeOK

\* What a handler may do to the policies: nothing, put the content of its copy, or
\* remove the policy.
Puts(k) ==
    /\ pc[k] \in {"CreatePolicy", "UpdatePolicy"}
    /\ \E p \in Policies : p.content = Wanted(k).content /\ SetPolicy(k, p)

Removes(k) == PolicyDeletionEnabled /\ pc[k] = "Finalize" /\ SetPolicy(k, None)

Change(k) == (UNCHANGED policies) \/ Puts(k) \/ Removes(k)

\* How it goes on: on the way the loop allows, or back to the queue.
Goes(k) ==
    \/ Proceeds(k, ProvisionLabels, DeletingLabels) /\ Continue
    \/ Return(k, TRUE)

\* What it then claims is true: the content it wants is on S3 when it reports
\* success, and the policy is gone when it comes to the finalizer.
Claims(k) ==
    /\ pc'[k] = "SetStatus" /\ out'[k].reason = "Reconciled" =>
         /\ policies'[Wanted(k).name] # None
         /\ policies'[Wanted(k).name].content = Wanted(k).content
    /\ pc'[k] = "RemoveFinalizer" /\ PolicyDeletionEnabled =>
         policies'[Wanted(k).name] = None

\* A step of a handler.
Handles(k) ==
    /\ pc[k] \in ProvisionLabels \cup DeletingLabels
    /\ UNCHANGED <<versions, tampers>>
    /\ budget' \in Budgets
    /\ Change(k) /\ Goes(k) /\ Claims(k)

\* The bounds stay naturals when a call or a read fails.
LEMMA BudgetsStay ==
    ASSUME IInv, Fault \/ ReadFails \/ UNCHANGED budget
    PROVE  budget' \in Budgets
<1>1. CASE ReadFails
  <2>1. /\ budget.reads > 0 /\ budget' = [budget EXCEPT !.reads = @ - 1]
        /\ budget \in Budgets
    BY <1>1 DEF ReadFails, IInv, LoopIInv, LoopTypeOK, Budgets
  <2> QED
    BY <2>1 DEF Budgets
<1> QED
  BY <1>1, FaultKeepsBudgets DEF IInv

\* Where a worker goes, and what it then claims.
LEMMA WhereItGoes ==
    ASSUME IInv, NEW k \in Keys
    PROVE  /\ \A label : Goto(k, label) => pc'[k] = label
           /\ \A reason, err : Conclude(k, reason, err)
                => pc'[k] = "SetStatus" /\ out'[k].reason = reason
           /\ \A retry : Return(k, retry) => pc'[k] = "Idle"
  BY DEF IInv, LoopIInv, LoopTypeOK, Goto, Conclude, Return

\* A failure claims nothing.
LEMMA FailureGoes ==
    ASSUME IInv, NEW k \in Keys, pc[k] \in ProvisionLabels \cup DeletingLabels,
           NEW reason \in Reasons \ {"Reconciled"}, Conclude(k, reason, TRUE), Continue
    PROVE  Goes(k) /\ Claims(k)
<1>1. Proceeds(k, ProvisionLabels, DeletingLabels)
  BY DEF Proceeds
<1>2. pc'[k] = "SetStatus" /\ out'[k].reason # "Reconciled"
  BY WhereItGoes
<1> QED
  BY <1>1, <1>2 DEF Goes, Claims

\* A label between the start of the reconciliation and its end claims nothing.
LEMMA JumpGoes ==
    ASSUME IInv, NEW k \in Keys, pc[k] \in ProvisionLabels,
           NEW label \in ProvisionLabels, Goto(k, label), Continue
    PROVE  Goes(k) /\ Claims(k)
<1>1. Proceeds(k, ProvisionLabels, DeletingLabels)
  BY DEF Proceeds
<1>2. pc'[k] \notin {"SetStatus", "RemoveFinalizer"}
  BY WhereItGoes DEF ProvisionLabels, PolicyLabels
<1> QED
  BY <1>1, <1>2 DEF Goes, Claims

\* Success claims the content.
LEMMA SuccessGoes ==
    ASSUME IInv, NEW k \in Keys, pc[k] \in ProvisionLabels,
           Conclude(k, "Reconciled", FALSE), Continue,
           policies'[Wanted(k).name] # None,
           policies'[Wanted(k).name].content = Wanted(k).content
    PROVE  Goes(k) /\ Claims(k)
<1>1. Proceeds(k, ProvisionLabels, DeletingLabels)
  BY DEF Proceeds, Reasons
<1>2. pc'[k] = "SetStatus"
  BY WhereItGoes
<1> QED
  BY <1>1, <1>2 DEF Goes, Claims

\* AddCannedPolicy.
LEMMA PutPolicyHandles ==
    ASSUME IInv, NEW k \in Keys, pc[k] \in {"CreatePolicy", "UpdatePolicy"},
           UNCHANGED <<versions, tampers>>, PutPolicy(k)
    PROVE  Handles(k)
<1> DEFINE put == [content  |-> Wanted(k).content,
                   attached |-> Effective(k) # None /\ Effective(k).attached]
           possible == Wanted(k).content \in Contents
<1>1. pc[k] \in ProvisionLabels /\ pc[k] # "Idle"
  BY DEF ProvisionLabels, PolicyLabels
<1>2. possible => put \in Policies
  BY <1>1, HandlerData DEF Policies
<1>3. put.content = Wanted(k).content
  OBVIOUS
<1>4. /\ Continue
      /\ \/ CallWorks(k, possible, put) /\ Conclude(k, "Reconciled", FALSE)
         \/ CallFails(k, possible, put) /\ Conclude(k, "Unreachable", TRUE)
  BY DEF PutPolicy
<1> HIDE DEF put, possible
<1>5. Change(k)
  BY <1>2, <1>3, <1>4 DEF CallWorks, CallFails, Change, Puts
<1>6. budget' \in Budgets
  BY <1>4, BudgetsStay DEF CallWorks, CallFails
<1>7. CASE CallWorks(k, possible, put) /\ Conclude(k, "Reconciled", FALSE)
  <2>1. policies' = [policies EXCEPT ![Wanted(k).name] = put] /\ put \in Policies
    BY <1>2, <1>7 DEF CallWorks, SetPolicy
  <2>2. policies'[Wanted(k).name] = put
    BY <1>1, <2>1, HandlerData DEF IInv, PolicyTypeOK
  <2>3. put # None
    BY <2>1, NoneIsNoPolicy
  <2>4. Goes(k) /\ Claims(k)
    BY <1>1, <1>3, <1>4, <1>7, <2>2, <2>3, SuccessGoes
  <2> QED
    BY <1>1, <1>5, <1>6, <2>4 DEF Handles
<1>8. CASE Conclude(k, "Unreachable", TRUE)
  BY <1>1, <1>4, <1>5, <1>6, <1>8, FailureGoes DEF Handles, Reasons
<1> QED
  BY <1>4, <1>7, <1>8

\* handleReconciliation, once more.
LEMMA ProvisionHandles ==
    ASSUME IInv, NEW k \in Keys,
           HandlePolicy(k) \/ CreatePolicy(k) \/ ComparePolicy(k) \/ UpdatePolicy(k)
    PROVE  Handles(k)
<1>1. PICK label \in ProvisionLabels : At(k, label)
  BY DEF HandlePolicy, CreatePolicy, ComparePolicy, UpdatePolicy, ProvisionLabels,
         PolicyLabels
<1>2. /\ pc[k] \in ProvisionLabels /\ pc[k] # "Idle"
      /\ UNCHANGED <<versions, tampers>>
  BY <1>1 DEF At, ProvisionLabels, PolicyLabels
<1>3. (Reads \/ ReadFails) => Change(k) /\ budget' \in Budgets
  BY BudgetsStay DEF Reads, ReadFails, Change
<1>4. ASSUME Reads \/ ReadFails, Goes(k), Claims(k) PROVE Handles(k)
  BY <1>2, <1>3, <1>4 DEF Handles
<1>5. ASSUME Continue, Conclude(k, "Unreachable", TRUE) PROVE Goes(k) /\ Claims(k)
  BY <1>2, <1>5, FailureGoes DEF Reasons
<1>6. CASE HandlePolicy(k)
  <2>1. ASSUME NEW l \in {"CreatePolicy", "ComparePolicy"}, Continue, Goto(k, l)
        PROVE  Goes(k) /\ Claims(k)
    BY <1>2, <2>1, JumpGoes DEF ProvisionLabels, PolicyLabels
  <2> QED
    BY <1>4, <1>5, <1>6, <2>1 DEF HandlePolicy
<1>7. CASE CreatePolicy(k)
  <2>1. CASE At(k, "CreatePolicy") /\ PutPolicy(k)
    BY <1>2, <2>1, PutPolicyHandles DEF At
  <2> QED
    BY <1>4, <1>5, <1>7, <2>1 DEF CreatePolicy
<1>8. CASE UpdatePolicy(k)
  BY <1>2, <1>8, PutPolicyHandles DEF At, UpdatePolicy
<1>9. CASE ComparePolicy(k)
  <2>1. CASE Panic(k) /\ Reads
    <3>1. pc'[k] = "Idle" /\ Goes(k)
      BY <2>1, WhereItGoes DEF Panic, Goes
    <3> QED
      BY <1>4, <2>1, <3>1 DEF Claims
  <2>2. CASE Reads /\ Effective(k) # None /\ Continue /\ Matching(k)
             /\ Conclude(k, "Reconciled", FALSE)
    <3>1. policies'[Wanted(k).name] = Effective(k)
      BY <2>2 DEF Reads, Effective
    <3>2. Goes(k) /\ Claims(k)
      BY <1>2, <2>2, <3>1, SuccessGoes DEF Matching
    <3> QED
      BY <1>4, <2>2, <3>2
  <2>3. CASE Reads /\ Continue /\ Goto(k, "UpdatePolicy")
    <3>1. Goes(k) /\ Claims(k)
      BY <1>2, <2>3, JumpGoes DEF ProvisionLabels, PolicyLabels
    <3> QED
      BY <1>4, <2>3, <3>1
  <2>4. CASE (Reads \/ ReadFails) /\ Continue /\ Conclude(k, "Unreachable", TRUE)
    BY <1>4, <1>5, <2>4
  <2> QED
    BY <1>9, <2>1, <2>2, <2>3, <2>4 DEF ComparePolicy
<1> QED
  BY <1>6, <1>7, <1>8, <1>9

\* handleDeletion.
LEMMA FinalizeHandles ==
    ASSUME IInv, NEW k \in Keys, FinalizePolicy(k)
    PROVE  Handles(k)
<1>1. /\ pc[k] = "Finalize" /\ pc[k] \in DeletingLabels /\ pc[k] # "Idle"
      /\ UNCHANGED <<versions, tampers>> /\ Continue
  BY DEF FinalizePolicy, At, DeletingLabels
<1>2. Change(k) /\ budget' \in Budgets
  BY <1>1, BudgetsStay DEF FinalizePolicy, CallWorks, CallFails, Reads, ReadFails, Change,
                           Removes
<1>3. CASE Goto(k, "RemoveFinalizer")
  <2>1. Proceeds(k, ProvisionLabels, DeletingLabels)
    BY <1>1, <1>3 DEF Proceeds, DeletingLabels
  <2>2. pc'[k] = "RemoveFinalizer"
    BY <1>3, WhereItGoes
  <2>3. ASSUME PolicyDeletionEnabled PROVE policies'[Wanted(k).name] = None
    <3>1. CallWorks(k, Removable(k), None)
      BY <1>3, <2>2, <2>3, WhereItGoes DEF FinalizePolicy
    <3> QED
      BY <1>1, <3>1, HandlerData DEF CallWorks, SetPolicy, IInv, PolicyTypeOK
  <2> QED
    BY <1>1, <1>2, <2>1, <2>2, <2>3 DEF Handles, Goes, Claims
<1>4. CASE Conclude(k, "DeletionFailure", TRUE)
  BY <1>1, <1>2, <1>4, FailureGoes DEF Handles, Reasons
<1> QED
  BY <1>3, <1>4 DEF FinalizePolicy

LEMMA PolicyStepHandles ==
    ASSUME IInv, NEW k \in Keys, PolicyStep(k)
    PROVE  Handles(k)
  BY ProvisionHandles, FinalizeHandles DEF PolicyStep

-----------------------------------------------------------------------------
(* The inductive invariant *)

\* A step leaves the other CRs and, unless a handler makes it, the policies alone.
Apart(k) == /\ Keeps(k, Labels, ProvisionLabels, DeletingLabels)
            /\ tampers' = tampers

LEMMA HandlesKeeps ==
    ASSUME IInv, NEW k \in Keys, Handles(k)
    PROVE  Apart(k)
<1>1. LoopIInv(Labels, ProvisionLabels, DeletingLabels)
  BY DEF IInv
<1> QED
  BY <1>1, LabelsOfTheLoop, ProceedsKeeps, RetryKeeps
  DEF Handles, Goes, Apart, Continue

LEMMA StepsAreApart ==
    ASSUME IInv, NEW k \in Keys, WorkerStep(k) \/ EnvironmentStep(k)
    PROVE  /\ Apart(k)
           /\ WorkerStep(k) => Handles(k) \/ (LoopStep(k) /\ UNCHANGED policies)
           /\ EnvironmentStep(k) => UNCHANGED policies
<1>1. LoopIInv(Labels, ProvisionLabels, DeletingLabels)
  BY DEF IInv
<1>2. ASSUME UserStep(k) \/ Deliver(k) \/ LoopStep(k), UNCHANGED policyVars
      PROVE  Apart(k)
  <2>1. UNCHANGED policies /\ tampers' = tampers
    BY <1>2 DEF policyVars
  <2>2. Keeps(k, Labels, ProvisionLabels, DeletingLabels)
    BY <1>1, <1>2, LabelsOfTheLoop, UserStepKeeps, DeliverKeeps, LoopStepKeeps
  <2> QED
    BY <2>1, <2>2 DEF Apart
<1>3. ASSUME PolicyStep(k) PROVE Apart(k) /\ Handles(k)
  BY <1>3, PolicyStepHandles, HandlesKeeps
<1>4. /\ WorkerStep(k) => PolicyStep(k) \/ (LoopStep(k) /\ UNCHANGED policyVars)
      /\ EnvironmentStep(k) => (UserStep(k) \/ Deliver(k)) /\ UNCHANGED policyVars
  BY DEF WorkerStep, EnvironmentStep
<1>5. UNCHANGED policyVars => UNCHANGED policies
  BY DEF policyVars
<1> QED
  BY <1>2, <1>3, <1>4, <1>5

\* A handler leaves well-formed policies.
LEMMA ChangeKeepsTypes ==
    ASSUME IInv, NEW k \in Keys, Change(k)
    PROVE  policies' \in [PolicyNames -> Policies \cup {None}]
  BY DEF IInv, PolicyTypeOK, Change, Puts, Removes, SetPolicy

LEMMA NextKeepsIInv ==
    ASSUME IInv, [Next]_vars PROVE IInv'
<1>1. LoopIInv(Labels, ProvisionLabels, DeletingLabels) /\ PolicyTypeOK
  BY DEF IInv
<1>2. ASSUME NEW k \in Keys, WorkerStep(k) \/ EnvironmentStep(k) PROVE IInv'
  <2>1. LoopIInv(Labels, ProvisionLabels, DeletingLabels)' /\ tampers' = tampers
    BY <1>1, <1>2, StepsAreApart, KeepsLoopIInv DEF Apart
  <2>2. Change(k)
    BY <1>2, StepsAreApart DEF Handles, Change
  <2> QED
    BY <1>1, <2>1, <2>2, ChangeKeepsTypes DEF IInv, PolicyTypeOK, LoopIInv
<1>3. ASSUME NEW n \in PolicyNames, Tamper(n) PROVE IInv'
  <2>1. UNCHANGED loopVars /\ tampers > 0 /\ tampers' = tampers - 1
    BY <1>3 DEF Tamper
  <2>2. LoopIInv(Labels, ProvisionLabels, DeletingLabels)'
    <3>1. /\ UNCHANGED <<versions, pc, res, cur, out>> /\ queue' = queue
          /\ budget' = budget /\ queue \subseteq Keys /\ budget \in Budgets
      BY <1>1, <2>1 DEF loopVars, LoopIInv, LoopTypeOK, Budgets
    <3> QED
      BY <1>1, <3>1, QuietKeeps
  <2>3. policies' \in [PolicyNames -> Policies \cup {None}]
    BY <1>1, <1>3 DEF Tamper, PolicyTypeOK
  <2>4. tampers' \in 0..MaxTampers
    BY <1>1, <2>1, PolicyFlags DEF PolicyTypeOK
  <2> QED
    BY <2>2, <2>3, <2>4 DEF IInv, PolicyTypeOK, LoopIInv
<1>4. CASE Restart
  <2>1. LoopIInv(Labels, ProvisionLabels, DeletingLabels)' /\ UNCHANGED policyVars
    BY <1>1, <1>4, LabelsOfTheLoop, CrashKeeps DEF Restart
  <2> QED
    BY <1>1, <2>1 DEF IInv, PolicyTypeOK, LoopIInv, policyVars
<1>5. CASE UNCHANGED vars
  <2>1. /\ UNCHANGED <<versions, pc, res, cur, out>> /\ queue' = queue
        /\ budget' = budget /\ queue \subseteq Keys /\ budget \in Budgets
        /\ UNCHANGED policyVars
    BY <1>1, <1>5 DEF vars, loopVars, LoopIInv, LoopTypeOK, Budgets
  <2>2. LoopIInv(Labels, ProvisionLabels, DeletingLabels)'
    BY <1>1, <2>1, QuietKeeps
  <2> QED
    BY <1>1, <2>1, <2>2 DEF IInv, PolicyTypeOK, LoopIInv, policyVars
<1> QED
  BY <1>2, <1>3, <1>4, <1>5 DEF Next

\* The invariant of the loop holds for the Policy controller too, the worker that
\* panics and the policies others change included.
THEOREM InductiveInvariant == Spec => []IInv
<1>1. PolicyInit => IInv
  <2>1. PolicyInit => LoopIInv(Labels, ProvisionLabels, DeletingLabels)
    BY LabelsOfTheLoop, InitKeeps DEF PolicyInit
  <2> QED
    BY <2>1, PolicyFlags DEF PolicyInit, IInv, PolicyTypeOK, LoopIInv
<1>2. IInv /\ [Next]_vars => IInv'
  BY NextKeepsIInv
<1> QED
  BY <1>1, <1>2, PTL DEF Spec

\* Every variable keeps its type: what the server stores parses, whatever a CR has.
THEOREM TypeCorrect == Spec => []PolicyTypeOK
<1>1. IInv => PolicyTypeOK
  BY DEF IInv
<1> QED
  BY <1>1, InductiveInvariant, PTL

\* A Policy CR whose current generation was not judged yet has work pending, even
\* after a panic.
THEOREM NoWakeupIsLost == Spec => []NoLostWakeup
<1>1. IInv => NoLostWakeup
  BY IInvImpliesNoLostWakeup DEF IInv
<1> QED
  BY <1>1, InductiveInvariant, PTL

-----------------------------------------------------------------------------
(* Who writes what *)

\* Only the users and the common part of Reconcile write a CR.
LEMMA WhoWrites ==
    ASSUME IInv, NEW k \in Keys, WorkerStep(k) \/ EnvironmentStep(k)
    PROVE  /\ \A j \in Keys \ {k} : Stored(j)' = Stored(j)
           /\ \/ Stored(k)' = Stored(k)
              \/ EditedByUser(k) /\ UNCHANGED <<policies, pc, res, out>>
              \/ WrittenByWorker(k) /\ LoopStep(k) /\ UNCHANGED policies
<1>1. LoopIInv(Labels, ProvisionLabels, DeletingLabels)
  BY DEF IInv
<1>2. ASSUME UserStep(k)
      PROVE  /\ \A j \in Keys \ {k} : Stored(j)' = Stored(j)
             /\ EditedByUser(k) /\ UNCHANGED <<pc, res, out>>
  <2>1. UNCHANGED <<pc, res, out>>
    BY <1>2 DEF UserStep, UserCreate, UserEdit, UserTouch, UserDelete, UserWrites
  <2> QED
    BY <1>1, <1>2, <2>1, UserStepEdits
<1>3. LoopStep(k) => WrittenByWorker(k) /\ \A j \in Keys \ {k} : Stored(j)' = Stored(j)
  BY <1>1, LoopStepWrites
<1>4. (UNCHANGED versions) \/ Deliver(k) => \A j \in Keys : Stored(j)' = Stored(j)
  BY <1>1, WatchStoresNothing
<1>5. Handles(k) => UNCHANGED versions
  BY DEF Handles
<1>6. EnvironmentStep(k) => (UserStep(k) \/ Deliver(k)) /\ UNCHANGED policies
  BY DEF EnvironmentStep, policyVars
<1> QED
  BY <1>2, <1>3, <1>4, <1>5, <1>6, StepsAreApart

\* No status write takes the condition of a Policy CR back to an older
\* generation, however late it comes.
THEOREM ConditionsGoForward == Spec => StatusNeverGoesBack
<1>1. ASSUME IInv, [Next]_vars PROVE \A k \in Keys : StatusGoesForward(k)
  <2>1. LoopIInv(Labels, ProvisionLabels, DeletingLabels)
    BY <1>1 DEF IInv
  <2>2. \/ \E k \in Keys : LoopStep(k) \/ UserStep(k) \/ Deliver(k)
        \/ Crash \/ UNCHANGED versions
    <3>1. ASSUME NEW k \in Keys, WorkerStep(k) \/ EnvironmentStep(k)
          PROVE  LoopStep(k) \/ UserStep(k) \/ Deliver(k) \/ UNCHANGED versions
      BY <1>1, <3>1, StepsAreApart DEF EnvironmentStep, Handles
    <3>2. (\E n \in PolicyNames : Tamper(n)) \/ UNCHANGED vars => UNCHANGED versions
      BY DEF Tamper, vars, loopVars
    <3> QED
      BY <1>1, <3>1, <3>2 DEF Next, Restart
  <2> QED
    BY <2>1, <2>2, ConditionsStay
<1>2. IInv /\ [Next]_vars
        => [\A k \in Keys : (Stored(k) # None /\ Stored(k)' # None)
              => Stored(k)'.cond.obs >= Stored(k).cond.obs]_loopVars
  BY <1>1 DEF StatusGoesForward
<1> QED
  BY <1>2, InductiveInvariant, PTL DEF Spec, StatusNeverGoesBack

\* A policy is written by the worker that wants it, on its way to provision it.
LEMMA ProvisionerIsAtWork ==
    ASSUME IInv, NEW k \in Keys, WorkerStep(k), NEW n \in PolicyNames,
           policies'[n] # policies[n], policies'[n] # None
    PROVE  pc[k] \in ProvisionLabels /\ Wanted(k).name = n
<1>1. Handles(k) /\ ~UNCHANGED policies
  BY StepsAreApart
<1>2. policies \in [PolicyNames -> Policies \cup {None}]
  BY DEF IInv, PolicyTypeOK
<1>3. PICK p : SetPolicy(k, p) /\ (p = None \/ Puts(k))
  BY <1>1 DEF Handles, Change, Puts, Removes
<1>4. Wanted(k).name = n /\ p # None
  BY <1>2, <1>3 DEF SetPolicy
<1> QED
  BY <1>3, <1>4 DEF Puts, ProvisionLabels, PolicyLabels

\* A policy is made or replaced by the operator only for a CR that is stored with
\* the finalizer at that moment, renamed, shared and outdated CRs included.
THEOREM ProvisionsWhileHeld == Spec => PolicyOnlyWhileHeld
<1> DEFINE Safe == \A n \in PolicyNames :
                     (policies'[n] # policies[n] /\ policies'[n] # None
                        /\ tampers' = tampers)
                       => \E k \in Keys : pc[k] # "Idle" /\ Wanted(k).name = n /\ Held(k)
<1>1. ASSUME IInv, Next PROVE Safe
  <2>1. ASSUME NEW n \in PolicyNames, policies'[n] # policies[n], policies'[n] # None,
               tampers' = tampers
        PROVE  \E k \in Keys : pc[k] # "Idle" /\ Wanted(k).name = n /\ Held(k)
    <3>1. \A k \in Keys : ~EnvironmentStep(k)
      BY <2>1 DEF EnvironmentStep, policyVars
    <3>2. \A m \in PolicyNames : ~Tamper(m)
      BY <1>1, <2>1 DEF Tamper, IInv, PolicyTypeOK
    <3>3. ~Restart
      BY <2>1 DEF Restart, policyVars
    <3>4. PICK k \in Keys : WorkerStep(k)
      BY <1>1, <3>1, <3>2, <3>3 DEF Next
    <3>5. pc[k] \in ProvisionLabels /\ Wanted(k).name = n
      BY <1>1, <2>1, <3>4, ProvisionerIsAtWork
    <3>6. pc[k] # "Idle" /\ Held(k)
      BY <1>1, <3>5, LabelsOfTheLoop DEF IInv, LoopIInv, LoopInv, WorkerInv, LabelSets
    <3> QED
      BY <3>5, <3>6
  <2> QED
    BY <2>1
<1>2. IInv /\ [Next]_vars => [Safe]_vars
  BY <1>1
<1>3. Spec => [][Safe]_vars
  BY <1>2, InductiveInvariant, PTL DEF Spec
<1> QED
  BY <1>3 DEF PolicyOnlyWhileHeld

-----------------------------------------------------------------------------
(* As long as nobody else changes a policy *)

LEMMA Steps ==
    ASSUME IInv, [Next]_vars, Untouched'
    PROVE  /\ IInv' /\ Untouched
           /\ \/ \E k \in Keys : WorkerStep(k) /\ Apart(k) /\ Handles(k)
              \/ \E k \in Keys : /\ WorkerStep(k) \/ EnvironmentStep(k)
                                 /\ Apart(k) /\ UNCHANGED policies
              \/ (Restart \/ UNCHANGED vars) /\ UNCHANGED policies
<1>1. \A n \in PolicyNames : ~Tamper(n)
  BY PolicyFlags DEF Tamper, Untouched, IInv, PolicyTypeOK
<1>2. ASSUME NEW k \in Keys, WorkerStep(k) \/ EnvironmentStep(k)
      PROVE  /\ Apart(k) /\ tampers' = tampers
             /\ WorkerStep(k) => Handles(k) \/ UNCHANGED policies
             /\ EnvironmentStep(k) => UNCHANGED policies
  BY <1>2, StepsAreApart DEF Apart
<1>3. Restart \/ UNCHANGED vars => UNCHANGED policies /\ tampers' = tampers
  BY DEF Restart, vars, policyVars
<1>4. IInv'
  BY NextKeepsIInv
<1> QED
  BY <1>1, <1>2, <1>3, <1>4 DEF Next, Untouched

\* A restart, or no step at all, stores nothing.
LEMMA RestartFacts ==
    ASSUME IInv, Restart \/ UNCHANGED vars
    PROVE  \A k \in Keys : /\ Stored(k)' = Stored(k)
                           /\ pc'[k] = "Idle" \/ UNCHANGED <<pc, res, out>>
<1>1. UNCHANGED versions \/ Crash
  BY DEF Restart, vars, loopVars
<1>2. \A k \in Keys : pc'[k] = "Idle" \/ UNCHANGED <<pc, res, out>>
  BY DEF Restart, Crash, vars, loopVars
<1> QED
  BY <1>1, <1>2, WatchStoresNothing DEF IInv

\* A CR is stored with one of its specs, before and after the step.
SpecsStored == \A k \in Keys : Stored(k) # None => Stored(k).spec \in Specs[k]

LEMMA StoredSpecs == IInv => SpecsStored
  BY StoredFacts DEF IInv, SpecsStored

LEMMA StoredSpecsNext == IInv' => SpecsStored'
  BY StoredSpecs, PTL

\* A handler changes no policy but the one its copy names.
LEMMA OthersKeepPolicy ==
    ASSUME OnePolicyEach, IInv, NEW k \in Keys, Handles(k),
           NEW j \in Keys \ {k}, NEW s \in Specs[j]
    PROVE  policies'[s.name] = policies[s.name]
<1>1. pc[k] # "Idle" /\ Change(k)
  BY LabelsOfTheLoop DEF Handles, LabelSets
<1>2. Wanted(k).name # s.name
  BY <1>1, HandlerData DEF OnePolicyEach
<1>3. s.name \in PolicyNames
  BY PolicySpecsAssumption DEF PolicySpecs
<1> QED
  BY <1>1, <1>2, <1>3 DEF Change, Puts, Removes, SetPolicy, IInv, PolicyTypeOK

\* Where a worker that changes no policy has been.
LEMMA WorkerMoves ==
    ASSUME IInv, NEW k \in Keys, WorkerStep(k) \/ EnvironmentStep(k), ~Handles(k)
    PROVE  \/ UNCHANGED <<pc, res, out>>
           \/ pc'[k] \notin {"SetStatus", "RemoveFinalizer"}
<1>1. WorkerStep(k) => LoopStep(k)
  BY StepsAreApart
<1>2. EnvironmentStep(k) => UNCHANGED <<pc, res, out>>
  BY DEF EnvironmentStep, UserStep, UserCreate, UserEdit, UserTouch, UserDelete,
         UserWrites, Deliver
<1> QED
  BY <1>1, <1>2, LoopMoves DEF IInv, LoopIInv

-----------------------------------------------------------------------------
(* A Policy CR that says "Reconciled" has its content on S3 *)

\* The worker that has seen or put the content it wants says so truthfully.
Truthful(k) ==
    pc[k] = "SetStatus" /\ out[k].reason = "Reconciled" =>
        Effective(k) # None /\ Effective(k).content = Wanted(k).content

LEMMA OwnTruth ==
    ASSUME IInv, NEW k \in Keys, Truthful(k),
           \/ Handles(k)
           \/ (WorkerStep(k) \/ EnvironmentStep(k)) /\ UNCHANGED policies
    PROVE  Truthful(k)'
<1>1. CASE Handles(k)
  <2>1. CASE Return(k, TRUE)
    BY <2>1, WhereItGoes DEF Truthful
  <2>2. CASE Continue
    BY <1>1, <2>2 DEF Handles, Claims, Continue, Truthful, Effective, Wanted
  <2> QED
    BY <1>1, <2>1, <2>2 DEF Handles, Goes
<1>2. CASE ~Handles(k) /\ UNCHANGED policies
  BY <1>2, WorkerMoves DEF Truthful, Effective, Wanted
<1> QED
  BY <1>1, <1>2

\* What becomes of a CR that says "Reconciled", or comes to say it.
LEMMA OwnPolicy ==
    ASSUME IInv, NEW k \in Keys, ReconciledNow(k) => PolicyApplied(k), Truthful(k),
           \/ WorkerStep(k) /\ Handles(k)
           \/ (WorkerStep(k) \/ EnvironmentStep(k)) /\ UNCHANGED policies,
           ReconciledNow(k)'
    PROVE  PolicyApplied(k)'
<1>1. CASE UNCHANGED policies
  <2>1. CASE Stored(k)' = Stored(k)
    BY <1>1, <2>1 DEF ReconciledNow, PolicyApplied
  <2>2. CASE EditedByUser(k)
    <3>1. /\ Stored(k) # None /\ Stored(k)'.cond = Stored(k).cond
          /\ Stored(k)' = Stored(k) \/ Stored(k)'.gen = Stored(k).gen + 1
      BY <2>2 DEF EditedByUser, ReconciledNow, NoCondition
    <3>2. /\ Stored(k).cond.obs <= Stored(k).gen
          /\ Stored(k).gen \in Nat /\ Stored(k).cond.obs \in Nat
      BY <3>1, StoredFacts DEF IInv
    <3>3. Stored(k)' = Stored(k)
      BY <3>1, <3>2 DEF ReconciledNow
    <3> QED
      BY <2>1, <3>3
  <2>3. CASE WrittenByWorker(k) /\ Stored(k)' # Stored(k)
    <3>1. SameGeneration(Stored(k), Stored(k)') /\ cur[k]
      BY <2>3 DEF WrittenByWorker, ReconciledNow
    <3>2. CASE Stored(k)'.cond = Stored(k).cond
      BY <1>1, <3>1, <3>2 DEF ReconciledNow, PolicyApplied, SameGeneration
    <3>3. CASE pc[k] = "SetStatus" /\ Stored(k)'.cond = ConditionOf(res[k], out[k])
      <4>1. res[k] = Stored(k)
        BY <3>1 DEF IInv, LoopIInv, LoopInv, WorkerInv
      <4>2. out[k].reason = "Reconciled"
        BY <3>3 DEF ReconciledNow, ConditionOf
      <4> QED
        BY <1>1, <3>1, <3>3, <4>1, <4>2
        DEF Truthful, Effective, Wanted, PolicyApplied, SameGeneration
    <3> QED
      BY <2>3, <3>2, <3>3 DEF WrittenByWorker, ReconciledNow
  <2> QED
    BY <2>1, <2>2, <2>3, WhoWrites
<1>2. CASE Handles(k) /\ ~UNCHANGED policies
  <2>1. Stored(k)' = Stored(k)
    BY <1>2, WatchStoresNothing DEF Handles, IInv
  <2>2. ReconciledNow(k)
    BY <2>1 DEF ReconciledNow
  <2>3. pc[k] # "Idle" /\ Change(k)
    BY <1>2, LabelsOfTheLoop DEF Handles, LabelSets
  <2>4. SameGeneration(res[k], Stored(k)) /\ ~Stored(k).del
    BY <2>2, <2>3 DEF IInv, LoopIInv, LoopInv, ConditionInv, ReconciledNow
  <2>5. pc[k] # "Finalize"
    BY <2>4 DEF IInv, LoopIInv, LoopInv, WorkerInv, SameGeneration, DeletingLabels
  <2>6. PICK p \in Policies : p.content = Wanted(k).content /\ SetPolicy(k, p)
    BY <1>2, <2>3, <2>5 DEF Change, Puts, Removes
  <2>7. policies'[Wanted(k).name] = p /\ p # None
    BY <2>3, <2>6, HandlerData, NoneIsNoPolicy DEF SetPolicy, IInv, PolicyTypeOK
  <2> QED
    BY <2>1, <2>4, <2>6, <2>7 DEF PolicyApplied, Wanted, SameGeneration
<1> QED
  BY <1>1, <1>2

LEMMA AppliedInductive ==
    ASSUME OnePolicyEach, IInv, AppliedInv, [Next]_vars
    PROVE  AppliedInv'
<1> SUFFICES ASSUME Untouched'
             PROVE  \A j \in Keys : Truthful(j)' /\ (ReconciledNow(j)' => PolicyApplied(j)')
  BY DEF AppliedInv, PolicyIsAsReconciled, Truthful
<1>1. \A j \in Keys : Truthful(j) /\ (ReconciledNow(j) => PolicyApplied(j))
  BY Steps DEF AppliedInv, PolicyIsAsReconciled, Truthful
<1>2. CASE (Restart \/ UNCHANGED vars) /\ UNCHANGED policies
  BY <1>1, <1>2, RestartFacts
  DEF Truthful, Effective, Wanted, ReconciledNow, PolicyApplied
<1>3. ASSUME NEW k \in Keys, WorkerStep(k) \/ EnvironmentStep(k), Apart(k),
             \/ WorkerStep(k) /\ Handles(k)
             \/ UNCHANGED policies,
             NEW j \in Keys
      PROVE  Truthful(j)' /\ (ReconciledNow(j)' => PolicyApplied(j)')
  <2>1. CASE j = k
    BY <1>1, <1>3, <2>1, OwnTruth, OwnPolicy
  <2>2. CASE j # k
    <3>1. /\ Stored(j)' = Stored(j)
          /\ pc'[j] = pc[j] /\ res'[j] = res[j] /\ out'[j] = out[j]
      BY <1>3, <2>2, WhoWrites DEF Apart, Keeps, LeftAlone
    <3>2. \A s \in Specs[j] : policies'[s.name] = policies[s.name]
      BY <1>3, <2>2, OthersKeepPolicy
    <3>3. pc[j] # "Idle" => Wanted(j) \in Specs[j]
      BY HandlerData
    <3>4. Stored(j) # None => Stored(j).spec \in Specs[j]
      BY StoredSpecs DEF SpecsStored
    <3>5. Truthful(j)'
      BY <1>1, <3>1, <3>2, <3>3 DEF Truthful, Effective, Wanted
    <3>6. ReconciledNow(j)' => PolicyApplied(j)'
      BY <1>1, <3>1, <3>2, <3>4 DEF ReconciledNow, PolicyApplied
    <3> QED
      BY <3>5, <3>6
  <2> QED
    BY <2>1, <2>2
<1> QED
  BY <1>2, <1>3, Steps

\* When every Policy CR has a policy of its own and nobody else has changed a policy,
\* a CR that says "Reconciled" of its current generation has its content on S3,
\* whatever the cache, the two reads of the policy and the faults did meanwhile.
THEOREM ReconciledIsApplied ==
    ASSUME OnePolicyEach
    PROVE  Spec => []PolicyIsAsReconciled
<1>1. PolicyInit => AppliedInv
  <2> SUFFICES ASSUME PolicyInit PROVE AppliedInv
    OBVIOUS
  <2>1. \A k \in Keys : Stored(k) = None /\ pc[k] = "Idle"
    BY DEF PolicyInit, LoopInit, Stored
  <2> QED
    BY <2>1 DEF AppliedInv, PolicyIsAsReconciled, ReconciledNow
<1>2. IInv /\ AppliedInv /\ [Next]_vars => AppliedInv'
  BY AppliedInductive
<1>3. AppliedInv => PolicyIsAsReconciled
  BY DEF AppliedInv, PolicyIsAsReconciled
<1> QED
  BY <1>1, <1>2, <1>3, InductiveInvariant, PTL DEF Spec

-----------------------------------------------------------------------------
(* No policy outlives its CRs *)

\* k has not deleted the policy n yet.
Responsible(k, n) ==
    /\ Held(k)
    /\ Stored(k).spec.name = n
    /\ pc[k] # "RemoveFinalizer"

\* A handler comes to the finalizer removal only when the policy is gone.
LEMMA HandlerStaysResponsible ==
    ASSUME PolicyDeletionEnabled, PolicyNamesAreKept, IInv,
           NEW k \in Keys, Handles(k), Apart(k), WorkerStep(k) \/ UNCHANGED policies,
           NEW n \in PolicyNames, policies'[n] # None,
           policies[n] # None => \E j \in Keys : Responsible(j, n)
    PROVE  \E j \in Keys : Responsible(j, n)'
<1>1. pc[k] # "Idle"
  BY LabelsOfTheLoop DEF Handles, LabelSets
<1>2. \A j \in Keys : Stored(j)' = Stored(j)
  BY WatchStoresNothing DEF Handles, IInv
<1>3. Held(k) => Stored(k).spec.name = Wanted(k).name
  BY <1>1, StoredSpecs, HandlerData DEF SpecsStored, Held, PolicyNamesAreKept
<1>4. Wanted(k).name = n => pc'[k] # "RemoveFinalizer"
  BY DEF Handles, Claims
<1>5. CASE policies'[n] # policies[n]
  <2>1. pc[k] \in ProvisionLabels /\ Wanted(k).name = n
    BY <1>5, ProvisionerIsAtWork
  <2>2. Held(k)
    BY <2>1 DEF IInv, LoopIInv, LoopInv, WorkerInv
  <2> QED
    BY <1>2, <1>3, <1>4, <2>1, <2>2 DEF Responsible, Held
<1>6. CASE policies'[n] = policies[n]
  <2>1. PICK j \in Keys : Responsible(j, n)
    BY <1>6
  <2>2. pc'[j] # "RemoveFinalizer"
    <3>1. CASE j # k
      BY <2>1, <3>1 DEF Apart, Keeps, LeftAlone, Responsible
    <3>2. CASE j = k
      BY <1>3, <1>4, <2>1, <3>2 DEF Responsible
    <3> QED
      BY <3>1, <3>2
  <2> QED
    BY <1>2, <2>1, <2>2 DEF Responsible, Held
<1> QED
  BY <1>5, <1>6

\* Neither the users who write CRs nor the common part of Reconcile release such a CR.
LEMMA StaysResponsible ==
    ASSUME PolicyNamesAreKept, IInv, NEW k \in Keys,
           WorkerStep(k) \/ EnvironmentStep(k), Apart(k), ~Handles(k),
           NEW j \in Keys, NEW n, Responsible(j, n)
    PROVE  Responsible(j, n)'
<1>1. pc'[j] # "RemoveFinalizer"
  <2>1. CASE j = k
    BY <2>1, WorkerMoves DEF Responsible
  <2>2. CASE j # k
    BY <2>2 DEF Apart, Keeps, LeftAlone, Responsible
  <2> QED
    BY <2>1, <2>2
<1>2. CASE Stored(j)' = Stored(j)
  BY <1>1, <1>2 DEF Responsible, Held
<1>3. CASE EditedByUser(j)
  <2>1. Stored(j)' # None /\ Stored(j)'.fin /\ Stored(j) # None
    BY <1>3 DEF EditedByUser, Responsible, Held
  <2>2. [Next]_vars
    BY DEF Next
  <2>3. Stored(j)'.spec \in Specs[j] /\ Stored(j).spec \in Specs[j]
    BY <2>1, <2>2, NextKeepsIInv, StoredSpecs, StoredSpecsNext DEF SpecsStored
  <2> QED
    BY <1>1, <2>1, <2>3 DEF Responsible, Held, PolicyNamesAreKept
<1>4. CASE WrittenByWorker(j)
  BY <1>1, <1>4 DEF WrittenByWorker, SameGeneration, Responsible, Held
<1> QED
  BY <1>2, <1>3, <1>4, WhoWrites

LEMMA OrphanPolicyInductive ==
    ASSUME PolicyDeletionEnabled, PolicyNamesAreKept, IInv, OrphanPolicyInv, [Next]_vars
    PROVE  OrphanPolicyInv'
<1> SUFFICES ASSUME Untouched', NEW n \in PolicyNames, policies'[n] # None
             PROVE  \E j \in Keys : Responsible(j, n)'
  BY DEF OrphanPolicyInv, Responsible
<1>1. policies[n] # None => \E j \in Keys : Responsible(j, n)
  BY Steps DEF OrphanPolicyInv, Responsible
<1>2. CASE \E k \in Keys : Handles(k) /\ Apart(k) /\ (WorkerStep(k) \/ UNCHANGED policies)
  BY <1>1, <1>2, HandlerStaysResponsible
<1>3. CASE \E k \in Keys : /\ WorkerStep(k) \/ EnvironmentStep(k)
                           /\ Apart(k) /\ UNCHANGED policies /\ ~Handles(k)
  BY <1>1, <1>3, StaysResponsible
<1>4. CASE (Restart \/ UNCHANGED vars) /\ UNCHANGED policies
  <2>1. PICK j \in Keys : Responsible(j, n)
    BY <1>1, <1>4
  <2>2. Stored(j)' = Stored(j) /\ pc'[j] # "RemoveFinalizer"
    BY <1>4, <2>1, RestartFacts DEF Responsible
  <2> QED
    BY <2>1, <2>2 DEF Responsible, Held
<1> QED
  BY <1>2, <1>3, <1>4, Steps

\* With policyDeletionEnabled, as long as no CR is renamed, a policy nobody else has
\* changed does not outlive the CRs that ask for it, whatever fails between
\* DeletePolicy and the removal of the finalizer and however many CRs share it.
THEOREM NoPolicyIsOrphaned ==
    ASSUME PolicyDeletionEnabled, PolicyNamesAreKept
    PROVE  Spec => []NoOrphanPolicy
<1>1. PolicyInit => OrphanPolicyInv
  BY DEF PolicyInit, OrphanPolicyInv
<1>2. IInv /\ OrphanPolicyInv /\ [Next]_vars => OrphanPolicyInv'
  BY OrphanPolicyInductive
<1>3. OrphanPolicyInv => NoOrphanPolicy
  BY DEF OrphanPolicyInv, NoOrphanPolicy
<1> QED
  BY <1>1, <1>2, <1>3, InductiveInvariant, PTL DEF Spec

\* Under the same conditions and with CRs that do not share a policy, what S3 holds is
\* what the workers are about to report and what CRs not yet released ask for.
THEOREM PoliciesInductiveInvariant ==
    ASSUME OnePolicyEach, PolicyDeletionEnabled, PolicyNamesAreKept
    PROVE  Spec => []PoliciesInv
<1>1. PolicyInit => PoliciesInv
  <2> SUFFICES ASSUME PolicyInit PROVE PoliciesInv
    OBVIOUS
  <2>1. \A k \in Keys : Stored(k) = None /\ pc[k] = "Idle"
    BY DEF PolicyInit, LoopInit, Stored
  <2>2. AppliedInv
    BY <2>1 DEF AppliedInv, PolicyIsAsReconciled, ReconciledNow
  <2>3. OrphanPolicyInv
    BY DEF PolicyInit, OrphanPolicyInv
  <2> QED
    BY <2>2, <2>3 DEF PoliciesInv
<1>2. IInv /\ PoliciesInv /\ [Next]_vars => PoliciesInv'
  BY AppliedInductive, OrphanPolicyInductive DEF PoliciesInv
<1> QED
  BY <1>1, <1>2, InductiveInvariant, PTL DEF Spec

-----------------------------------------------------------------------------
(* The Policy controller implements ManagedResource *)

PolicyCRsHaveSpecs == \A k \in Keys : Specs[k] # {}

\* What the steps of the protocol need to know.
ManagedInv == Untouched /\ (PolicyDeletionEnabled => OrphanPolicyInv)

Stages == [k \in Keys |-> Stage(k)]
Present == [k \in Keys |-> policies[NameOf(k)] # None]

LEMMA NamesOfPolicies ==
    ASSUME PolicyNamesAreKept, PolicyCRsHaveSpecs, NEW k \in Keys
    PROVE  /\ NameOf(k) \in PolicyNames
           /\ \E s \in Specs[k] : s.name = NameOf(k)
           /\ \A s \in Specs[k] : s.name = NameOf(k)
<1>1. (CHOOSE s \in Specs[k] : TRUE) \in Specs[k]
  BY DEF PolicyCRsHaveSpecs
<1> QED
  BY <1>1, PolicySpecsAssumption DEF NameOf, PolicyNamesAreKept, PolicySpecs

\* The policy of a CR that has one of its own is gone, or the CR is held and its
\* worker has not deleted the policy.
LEMMA PolicyHasItsCR ==
    ASSUME OnePolicyEach, PolicyNamesAreKept, PolicyCRsHaveSpecs,
           PolicyDeletionEnabled, IInv, ManagedInv,
           NEW k \in Keys, policies[NameOf(k)] # None
    PROVE  Held(k) /\ pc[k] # "RemoveFinalizer"
<1>1. PICK j \in Keys : /\ Held(j) /\ Stored(j).spec.name = NameOf(k)
                        /\ pc[j] # "RemoveFinalizer"
  BY NamesOfPolicies DEF ManagedInv, OrphanPolicyInv
<1>2. Stored(j).spec \in Specs[j]
  BY <1>1, StoredSpecs DEF SpecsStored, Held
<1> QED
  BY <1>1, <1>2, NamesOfPolicies DEF OnePolicyEach

\* What the handlers do to the policy of their CR, in terms of the protocol.
LEMMA ChangesAreManaged ==
    ASSUME OnePolicyEach, PolicyNamesAreKept, PolicyCRsHaveSpecs, IInv, ManagedInv,
           NEW k \in Keys, Handles(k)
    PROVE  \/ policies'[NameOf(k)] = policies[NameOf(k)]
           \/ policies'[NameOf(k)] # None /\ Stage(k) \in {"held", "terminating"}
           \/ /\ policies[NameOf(k)] # None /\ policies'[NameOf(k)] = None
              /\ PolicyDeletionEnabled /\ Stage(k) = "terminating"
<1>1. pc[k] # "Idle" /\ Change(k) /\ Wanted(k).name = NameOf(k)
  BY LabelsOfTheLoop, HandlerData, NamesOfPolicies DEF Handles, LabelSets
<1>2. NameOf(k) \in PolicyNames /\ policies \in [PolicyNames -> Policies \cup {None}]
  BY NamesOfPolicies DEF IInv, PolicyTypeOK
<1>3. CASE Puts(k)
  <2>1. policies'[NameOf(k)] # None
    BY <1>1, <1>2, <1>3, NoneIsNoPolicy DEF Puts, SetPolicy
  <2>2. Held(k)
    BY <1>3 DEF Puts, ProvisionLabels, PolicyLabels, IInv, LoopIInv, LoopInv, WorkerInv
  <2> QED
    BY <2>1, <2>2 DEF Held, Stage
<1>4. CASE Removes(k) /\ policies[NameOf(k)] # None
  <2>1. Held(k)
    BY <1>4, PolicyHasItsCR DEF Removes
  <2>2. pc[k] \in DeletingLabels /\ pc[k] # "Idle"
    BY <1>4 DEF Removes, DeletingLabels
  <2>3. res[k].del /\ res[k] # None
    BY <2>2 DEF IInv, LoopIInv, LoopInv, WorkerInv
  <2>4. Stored(k).del
    BY <2>1, <2>3 DEF IInv, LoopIInv, LoopInv, WorkerInv
  <2> QED
    BY <1>1, <1>2, <1>4, <2>1, <2>4 DEF Removes, SetPolicy, Held, Stage
<1>5. CASE Removes(k) /\ policies[NameOf(k)] = None
  BY <1>1, <1>2, <1>5 DEF Removes, SetPolicy
<1> QED
  BY <1>1, <1>3, <1>4, <1>5 DEF Change

\* A step of the operator or of a user is a step of the protocol, or none.
LEMMA StepsAreManaged ==
    ASSUME OnePolicyEach, PolicyNamesAreKept, PolicyCRsHaveSpecs, IInv, ManagedInv,
           NEW k \in Keys, WorkerStep(k) \/ EnvironmentStep(k),
           (WorkerStep(k) /\ Handles(k)) \/ UNCHANGED policies
    PROVE  Protocol!Next \/ (Stages' = Stages /\ Present' = Present)
<1>1. ASSUME NEW j \in Keys \ {k}
      PROVE  Stage(j)' = Stage(j) /\ policies'[NameOf(j)] = policies[NameOf(j)]
  <2>1. PICK s \in Specs[j] : s.name = NameOf(j)
    BY NamesOfPolicies
  <2>2. Stored(j)' = Stored(j)
    BY WhoWrites
  <2>3. policies'[NameOf(j)] = policies[NameOf(j)]
    BY <2>1, OthersKeepPolicy
  <2> QED
    BY <2>2, <2>3 DEF Stage
<1>2. /\ Stages' = [Stages EXCEPT ![k] = Stage(k)']
      /\ Present' = [Present EXCEPT ![k] = (policies'[NameOf(k)] # None)]
      /\ Stages[k] = Stage(k) /\ Present[k] = (policies[NameOf(k)] # None)
  <2>1. NameOf(k)' = NameOf(k) /\ \A j \in Keys : NameOf(j)' = NameOf(j)
    BY DEF NameOf
  <2> QED
    BY <1>1, <2>1 DEF Stages, Present
<1>3. ASSUME Stage(k)' = Stage(k) PROVE Stages' = Stages
  BY <1>2, <1>3 DEF Stages
<1>4. ASSUME policies'[NameOf(k)] = policies[NameOf(k)] PROVE Present' = Present
  BY <1>2, <1>4 DEF Present
<1>5. CASE Stored(k)' # Stored(k)
  <2>1. UNCHANGED policies /\ (EditedByUser(k) \/ WrittenByWorker(k))
    BY <1>5, WhoWrites
  <2>2. Present' = Present
    BY <1>4, <2>1
  <2>3. \/ Stage(k)' = Stage(k)
        \/ Stage(k) = "absent" /\ Stage(k)' = "declared"
        \/ Stage(k) = "declared" /\ Stage(k)' = "absent"
        \/ Stage(k) = "held" /\ Stage(k)' = "terminating"
        \/ Stage(k) = "declared" /\ Stage(k)' = "held"
        \/ /\ Stage(k) = "terminating" /\ Stage(k)' = "absent"
           /\ pc[k] = "RemoveFinalizer"
    BY <2>1, LabelsOfTheLoop, StageMoves DEF IInv
  <2>4. pc[k] = "RemoveFinalizer" /\ PolicyDeletionEnabled => policies[NameOf(k)] = None
    BY PolicyHasItsCR
  <2> QED
    BY <1>2, <1>3, <2>2, <2>3, <2>4
    DEF Stages, Present, Protocol!Next, Protocol!Declare, Protocol!Withdraw,
        Protocol!Hold, Protocol!Terminate, Protocol!Release, Protocol!Move
<1>6. CASE Stored(k)' = Stored(k)
  <2>1. Stages' = Stages
    BY <1>3, <1>6 DEF Stage
  <2>2. CASE policies'[NameOf(k)] = policies[NameOf(k)]
    BY <1>4, <2>1, <2>2
  <2>3. CASE policies'[NameOf(k)] # None /\ Stage(k) \in {"held", "terminating"}
    BY <1>2, <2>1, <2>3 DEF Stages, Present, Protocol!Next, Protocol!Provision
  <2>4. CASE /\ policies'[NameOf(k)] = None
             /\ PolicyDeletionEnabled /\ Stage(k) = "terminating"
    BY <1>2, <2>1, <2>4 DEF Stages, Present, Protocol!Next, Protocol!Deprovision
  <2> QED
    BY <2>2, <2>3, <2>4, ChangesAreManaged
<1> QED
  BY <1>5, <1>6

\* As long as the policies are untouched a step of the system is one of the protocol.
LEMMA NextIsManaged ==
    ASSUME OnePolicyEach, PolicyNamesAreKept, PolicyCRsHaveSpecs, IInv,
           Untouched => ManagedInv, [Next]_vars
    PROVE  Untouched' => ManagedInv' /\ [Protocol!Next]_<<Stages, Present>>
<1> SUFFICES ASSUME Untouched'
             PROVE  ManagedInv' /\ [Protocol!Next]_<<Stages, Present>>
  OBVIOUS
<1>1. Untouched
  BY Steps
<1>2. ManagedInv'
  BY <1>1, OrphanPolicyInductive DEF ManagedInv
<1>3. CASE (Restart \/ UNCHANGED vars) /\ UNCHANGED policies
  <2>1. Stages' = Stages /\ Present' = Present
    BY <1>3, RestartFacts DEF Stages, Present, Stage
  <2> QED
    BY <1>2, <2>1
<1> QED
  BY <1>1, <1>2, <1>3, Steps, StepsAreManaged

LEMMA InitIsManaged ==
    ASSUME PolicyNamesAreKept, PolicyCRsHaveSpecs, PolicyInit
    PROVE  ManagedInv /\ Protocol!Init
<1>1. \A k \in Keys : Stored(k) = None
  BY DEF PolicyInit, LoopInit, Stored
<1>2. \A k \in Keys : Stage(k) = "absent" /\ policies[NameOf(k)] = None
  BY <1>1, NamesOfPolicies DEF PolicyInit, Stage
<1>3. ManagedInv
  BY DEF PolicyInit, ManagedInv, Untouched, OrphanPolicyInv
<1> QED
  BY <1>2, <1>3 DEF Protocol!Init

\* Up to the first change by somebody else, and when every Policy CR has a policy of
\* its own, each CR and its policy go through the protocol of ManagedResource: the
\* finalizer before the policy, the policy before the end of the CR.
THEOREM PoliciesAreManagedWhileUntouched ==
    ASSUME OnePolicyEach, PolicyNamesAreKept, PolicyCRsHaveSpecs
    PROVE  Spec => ManagedWhileUntouched
<1> DEFINE Managed == Untouched => ManagedInv
           Safe == Untouched' => [Protocol!Next]_<<[k \in Keys |-> Stage(k)],
                                                  [k \in Keys |-> policies[NameOf(k)] # None]>>
<1>1. PolicyInit => Managed /\ Protocol!Init
  BY InitIsManaged
<1>2. IInv /\ Managed /\ [Next]_vars => Managed' /\ [Safe]_vars
  BY NextIsManaged DEF Stages, Present
<1> HIDE DEF Managed
<1>3. Spec => [][Safe]_vars /\ Protocol!Init
  BY <1>1, <1>2, InductiveInvariant, PTL DEF Spec
<1> QED
  BY <1>3, PTL DEF ManagedWhileUntouched

\* When only the operator changes policies they do so for ever: a refinement.
THEOREM PoliciesAreManaged ==
    ASSUME OnePolicyEach, PolicyNamesAreKept, PolicyCRsHaveSpecs, MaxTampers = 0
    PROVE  Spec => ImplementsManagedResource
<1>1. PolicyInit => ManagedInv /\ Protocol!Init
  BY InitIsManaged
<1>2. IInv /\ ManagedInv /\ [Next]_vars
        => ManagedInv' /\ [Protocol!Next]_<<Stages, Present>>
  <2> SUFFICES ASSUME IInv, ManagedInv, [Next]_vars
               PROVE  ManagedInv' /\ [Protocol!Next]_<<Stages, Present>>
    OBVIOUS
  <2>1. IInv'
    BY NextKeepsIInv
  <2>2. Untouched'
    BY <2>1 DEF IInv, PolicyTypeOK, Untouched
  <2> QED
    BY <2>2, NextIsManaged
<1>3. IInv /\ ManagedInv /\ [Next]_vars
        => [Protocol!Next]_<<[k \in Keys |-> Stage(k)],
                             [k \in Keys |-> policies[NameOf(k)] # None]>>
  BY <1>2 DEF Stages, Present
<1> QED
  BY <1>1, <1>2, <1>3, InductiveInvariant, PTL
  DEF Spec, ImplementsManagedResource, Protocol!Spec

\* What the protocol is for follows from it alone, whatever the controller does:
\* with deletion enabled no policy is left when its CR is gone.
THEOREM ManagedPoliciesAreNotOrphaned ==
    ASSUME OnePolicyEach, PolicyNamesAreKept, PolicyCRsHaveSpecs, MaxTampers = 0
    PROVE  Spec => []Protocol!NoOrphan
<1>1. Protocol!Init => Protocol!NoOrphan
  BY DEF Protocol!Init, Protocol!NoOrphan
<1>2. Protocol!NoOrphan /\ [Protocol!Next]_<<Stages, Present>> => Protocol!NoOrphan'
  BY DEF Protocol!NoOrphan, Protocol!Next, Protocol!Declare, Protocol!Withdraw,
         Protocol!Hold, Protocol!Terminate, Protocol!Provision, Protocol!Deprovision,
         Protocol!Release, Protocol!Move, Stages, Present
<1>3. Protocol!NoOrphan /\ [Protocol!Next]_<<[k \in Keys |-> Stage(k)],
                                            [k \in Keys |-> policies[NameOf(k)] # None]>>
        => Protocol!NoOrphan'
  BY <1>2 DEF Stages, Present
<1>4. Protocol!Spec => []Protocol!NoOrphan
  BY <1>1, <1>3, PTL DEF Protocol!Spec
<1> QED
  BY <1>4, PoliciesAreManaged, PTL DEF ImplementsManagedResource

=============================================================================
