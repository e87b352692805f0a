--------------------------- MODULE PolicyController ---------------------------
(***************************************************************************)
(* The handlers of internal/controller/policy, one action per call to the  *)
(* admin API of the S3 server, and the canned policies they work on.  As   *)
(* in S3Server, getting the S3 client is part of the call that follows it. *)
(***************************************************************************)
EXTENDS Reconciler

CONSTANTS
    PolicyNames,
    Contents,               \* policies, whatever the layout of their JSON
    Verbatim,               \* those the server gives back as the CR has them,
                            \* once both are compacted: the others come back
                            \* with members reordered or characters escaped
    NotJson,                \* a policyContent json.Compact refuses
    PolicyDeletionEnabled,  \* of the S3Instance
    MaxTampers              \* bound: changes made to S3 by others in a behaviour

VARIABLES
    policies,  \* policies[n]: the canned policy n of the server, or None
    tampers    \* changes by others that may still happen

policyVars == <<policies, tampers>>
vars == <<loopVars, policyVars>>

Policies == [content : Contents, attached : BOOLEAN]

PolicySpecs == [name : PolicyNames, content : Contents \cup {NotJson}]

ASSUME PolicySpecsAssumption == \A k \in Keys : Specs[k] \subseteq PolicySpecs

ASSUME ContentsAssumption == Verbatim \subseteq Contents /\ NotJson \notin Contents

ASSUME NoneIsNoPolicy == None \notin Policies

ASSUME PolicyFlags == PolicyDeletionEnabled \in BOOLEAN /\ MaxTampers \in Nat

PolicyLabels == {"CreatePolicy", "ComparePolicy", "UpdatePolicy"}

Labels == LoopLabels \cup PolicyLabels

PolicyTypeOK ==
    /\ LoopTypeOK(Labels)
    /\ policies \in [PolicyNames -> Policies \cup {None}]
    /\ tampers \in 0..MaxTampers

PolicyInit ==
    /\ LoopInit
    /\ policies = [n \in PolicyNames |-> None]
    /\ tampers = MaxTampers

-----------------------------------------------------------------------------
(* Calls *)

Wanted(k) == res[k].spec
Effective(k) == policies[Wanted(k).name]

\* Worker k is at label and its next call is not one to the API server.
At(k, label) == pc[k] = label /\ UNCHANGED <<versions, tampers>>

\* The worker goes on with its copy.
Continue == UNCHANGED <<queue, res, cur>>

Reads == UNCHANGED <<policies, budget>>

ReadFails ==
    /\ budget.reads > 0
    /\ budget' = [budget EXCEPT !.reads = @ - 1]
    /\ UNCHANGED policies

SetPolicy(k, p) == policies' = [policies EXCEPT ![Wanted(k).name] = p]

CallWorks(k, possible, p) == possible /\ SetPolicy(k, p) /\ UNCHANGED budget

\* The server refuses it, or it fails before or after its effect.
CallFails(k, possible, p) ==
    \/ ~possible /\ UNCHANGED <<policies, budget>>
    \/ Fault /\ UNCHANGED policies
    \/ Fault /\ possible /\ SetPolicy(k, p)

-----------------------------------------------------------------------------
(* handleReconciliation *)

\* GetPolicyInfo answers nil, without error, for a policy that does not exist.
HandlePolicy(k) ==
    /\ At(k, "Handle")
    /\ Continue
    /\ \/ Reads /\ Goto(k, IF Effective(k) = None THEN "CreatePolicy"
                                                  ELSE "ComparePolicy")
       \/ ReadFails /\ Conclude(k, "Unreachable", TRUE)

\* AddCannedPolicy, which makes or replaces the policy; the users it is attached
\* to keep it.  The server refuses what it cannot parse.
PutPolicy(k) ==
    LET wanted == Wanted(k).content
        put == [content  |-> wanted,
                attached |-> Effective(k) # None /\ Effective(k).attached]
    IN  /\ Continue
        /\ \/ CallWorks(k, wanted \in Contents, put) /\ Conclude(k, "Reconciled", FALSE)
           \/ CallFails(k, wanted \in Contents, put) /\ Conclude(k, "Unreachable", TRUE)

CreatePolicy(k) ==
    \/ At(k, "CreatePolicy") /\ PutPolicy(k)
    \/ /\ At(k, "CreatePolicy") \* GetS3ClientForRessource
       /\ Continue
       /\ ReadFails
       /\ Conclude(k, "Unreachable", TRUE)

UpdatePolicy(k) == At(k, "UpdatePolicy") /\ PutPolicy(k)

\* isPolicyMatchingWithCustomResource compares bytes.
MatchingAlways(k) == TRUE \* mutant
Matching(k) ==
    Wanted(k).content \in Verbatim /\ Effective(k).content = Wanted(k).content

\* The effective policy is nil: the worker panics, which controller-runtime
\* recovers and treats as an error.
PanicUnrecovered(k) == ReturnNoRetry(k, TRUE) \* mutant
Panic(k) == Return(k, TRUE)

\* handleUpdate reads the policy again and compares: first it compacts what the
\* CR has, which fails on anything but JSON.
ComparePolicy(k) ==
    /\ At(k, "ComparePolicy")
    /\ \/ /\ Reads
          /\ Wanted(k).content = NotJson
          /\ Continue
          /\ Conclude(k, "Unreachable", TRUE)
       \/ /\ Reads
          /\ Wanted(k).content # NotJson
          /\ Effective(k) = None
          /\ Panic(k)
       \/ /\ Reads
          /\ Wanted(k).content # NotJson
          /\ Effective(k) # None
          /\ Continue
          /\ IF Matching(k) THEN Conclude(k, "Reconciled", FALSE)
                            ELSE Goto(k, "UpdatePolicy")
       \/ ReadFails /\ Continue /\ Conclude(k, "Unreachable", TRUE)

-----------------------------------------------------------------------------
(* handleDeletion *)

\* RemoveCannedPolicy refuses a policy attached to a user or a group, and
\* accepts one that is gone.
Removable(k) == Effective(k) # None => ~Effective(k).attached

\* Mutant: the error of finalizePolicy is ignored.
FinalizePolicyAnyway(k) ==
    /\ At(k, "Finalize")
    /\ Continue
    /\ CallWorks(k, Removable(k), None) \/ CallFails(k, Removable(k), None)
    /\ Goto(k, "RemoveFinalizer")

FinalizePolicy(k) ==
    /\ At(k, "Finalize")
    /\ Continue
    /\ \/ /\ IF PolicyDeletionEnabled THEN CallWorks(k, Removable(k), None) ELSE Reads
          /\ Goto(k, "RemoveFinalizer")
       \/ /\ IF PolicyDeletionEnabled THEN CallFails(k, Removable(k), None) ELSE ReadFails
          /\ Conclude(k, "DeletionFailure", TRUE)

PolicyStep(k) ==
    \/ HandlePolicy(k)
    \/ CreatePolicy(k) \/ ComparePolicy(k) \/ UpdatePolicy(k)
    \/ FinalizePolicy(k)

-----------------------------------------------------------------------------
(* Others: another client changes a policy, or attaches it to a user. *)

Tamper(n) ==
    /\ tampers > 0
    /\ tampers' = tampers - 1
    /\ \E p \in (Policies \cup {None}) \ {policies[n]} :
         policies' = [policies EXCEPT ![n] = p]
    /\ UNCHANGED loopVars

=============================================================================
