-------------------------- MODULE InstanceController --------------------------
(***************************************************************************)
(* The handlers of internal/controller/s3instance, and the lookup of an    *)
(* S3Instance by the CRs that depend on it (internal/helpers/s3instance):  *)
(* Bucket, Path, Policy and S3User CRs, whose own calls to S3 are one step *)
(* here.  Their workers share the caches of the operator.                  *)
(***************************************************************************)
EXTENDS Reconciler
LOCAL INSTANCE SequencesExt

CONSTANTS
    InstanceKeys,  \* the S3Instance CRs
    Id,            \* Id[k] : metadata.namespace and metadata.name
    Kinds,         \* the kinds of the CRs that depend on an S3Instance
    KindOf,        \* KindOf[d]: the kind of the dependent d
    Characters,
    Star,          \* the character *
    Namespaces,    \* names of namespaces, as sequences of characters
    Patterns       \* what stands in allowedNamespaces

VARIABLES
    access,   \* the S3Instances whose secrets exist
    unlisted  \* unlisted[i]: kinds checkS3InstanceReferences has still to list

instanceVars == <<access, unlisted>>
vars == <<loopVars, instanceVars>>

Dependents == Keys \ InstanceKeys

InstanceSpecs == [allowed : Seq(Patterns)]

\* s3InstanceRef: "name", or "namespace/name".
DependentSpecs == [namespace : Namespaces \cup {None},
                   name      : {Id[k].name : k \in Keys}]

ASSUME InstanceConstants ==
    /\ InstanceKeys \subseteq Keys
    /\ KindOf \in [Dependents -> Kinds]
    /\ Kinds # {}
    /\ \A k \in Keys : Id[k].namespace \in Namespaces
    /\ None \notin Namespaces
    /\ Namespaces \cup Patterns \subseteq Seq(Characters)

\* s3InstanceRef is immutable.
ASSUME InstanceSpecsAssumption ==
    /\ \A i \in InstanceKeys : Specs[i] \subseteq InstanceSpecs
    /\ \A d \in Dependents : /\ Specs[d] \subseteq DependentSpecs
                             /\ \A s, t \in Specs[d] : s = t

InstanceLabels == {"ListBuckets"}

Labels == LoopLabels \cup InstanceLabels

InstanceTypeOK ==
    /\ LoopTypeOK(Labels)
    /\ access \subseteq InstanceKeys
    /\ unlisted \in [InstanceKeys -> (SUBSET Kinds) \ {{}}]

InstanceInit ==
    /\ LoopInit
    /\ access \in SUBSET InstanceKeys
    /\ unlisted = [i \in InstanceKeys |-> Kinds]

-----------------------------------------------------------------------------
(* helpers/s3instance.go *)

\* GetS3InstanceRefInfo
RefInfo(ref, namespace) ==
    [namespace |-> IF ref.namespace = None THEN namespace ELSE ref.namespace,
     name      |-> ref.name]

RefersTo(d, o, i) == RefInfo(o.spec, Id[d].namespace) = Id[i]

Leads(p) == p # <<>> /\ Head(p) = Star
Trails(p) == p # <<>> /\ Last(p) = Star

TrimPrefix(p) == IF Leads(p) THEN Tail(p) ELSE p
TrimSuffix(p) == IF Trails(p) THEN Front(p) ELSE p

Infix(s, t) == \E u \in Suffixes(t) : IsPrefix(s, u)

AllowsAnywhere(p, ns) == Infix(TrimSuffix(TrimPrefix(p)), ns) \* mutant

Allows(p, ns) ==
    \/ Leads(p) /\ Trails(p) /\ Infix(TrimSuffix(TrimPrefix(p)), ns)
    \/ Leads(p) /\ IsSuffix(TrimPrefix(p), ns)
    \/ Trails(p) /\ IsPrefix(TrimSuffix(p), ns)
    \/ ns = p

IsAllowedNamespaces(ns, i, o) ==
    IF o.spec.allowed = <<>> THEN ns = Id[i].namespace
    ELSE \E n \in DOMAIN o.spec.allowed : Allows(o.spec.allowed[n], ns)

\* GetS3ClientForRessource, on the cached S3Instance: the error, if any.
Lookup(d) ==
    LET found == {i \in InstanceKeys : Cached(i) # None /\ RefersTo(d, res[d], i)}
        allowing == {i \in found : IsAllowedNamespaces(Id[d].namespace, i, Cached(i))}
    IN  IF allowing = {} THEN "not found"
        ELSE LET i == CHOOSE j \in allowing : TRUE
             IN  CASE Cached(i).cond = NoCondition -> "panic" \* Conditions[0]
                   [] Cached(i).cond.reason \notin {"None", "Reconciled"} -> "not ready"
                   [] Cached(i).cond.reason = "Reconciled" ->
                        IF i \in access THEN "none" ELSE "no secret"

-----------------------------------------------------------------------------
(* Calls *)

\* Worker k is at label and its next call is not a write of a CR.
At(k, label) == pc[k] = label /\ UNCHANGED <<versions, access>>

Continue == UNCHANGED <<queue, res, cur>>

Reads == UNCHANGED budget

\* S3 fails, whatever the S3Instance says.
ReadFails == Fault

\* A panic is recovered by controller-runtime and treated as an error.
DependentStep(k, label, success, reason) ==
    /\ At(k, label)
    /\ k \in Dependents
    /\ UNCHANGED unlisted
    /\ LET answer == Lookup(k)
       IN  \/ Reads /\ Continue /\ answer = "none" /\ success
           \/ Reads /\ Continue /\ answer \notin {"none", "panic"} /\ Conclude(k, reason, TRUE)
           \/ Reads /\ answer = "panic" /\ Return(k, TRUE)
           \/ ReadFails /\ Continue /\ Conclude(k, reason, TRUE)

\* handleReconciliation, and the finalizer, of a dependent.
HandleDependent(k) ==
    DependentStep(k, "Handle", Conclude(k, "Reconciled", FALSE), "Unreachable")

FinalizeDependent(k) ==
    DependentStep(k, "Finalize", Goto(k, "RemoveFinalizer"), "DeletionFailure")

-----------------------------------------------------------------------------
(* S3Instances *)

\* GetS3ClientFromS3Instance
HandleInstance(i) ==
    /\ At(i, "Handle")
    /\ i \in InstanceKeys
    /\ Reads /\ Continue /\ UNCHANGED unlisted
    /\ IF i \in access THEN Goto(i, "ListBuckets") ELSE Conclude(i, "Unreachable", TRUE)

ListBuckets(i) ==
    /\ At(i, "ListBuckets")
    /\ Continue /\ UNCHANGED unlisted
    /\ \/ Reads /\ Conclude(i, "Reconciled", FALSE)
       \/ ReadFails /\ Conclude(i, "CreationFailure", TRUE)

ReferencesAlive(i, kind) == \* mutant: those being deleted are left out
    {d \in Dependents : /\ KindOf[d] = kind
                        /\ Cached(d) # None
                        /\ ~Cached(d).del
                        /\ RefersTo(d, Cached(d), i)}

\* countReferences, in the cached list of a kind.
References(i, kind) ==
    {d \in Dependents : /\ KindOf[d] = kind
                        /\ Cached(d) # None
                        /\ RefersTo(d, Cached(d), i)}

\* checkS3InstanceReferences lists the kinds one by one, in any order.  While
\* there is a reference the deletion is retried, and no status says so.
InUse(i) == Return(i, TRUE)

FinalizeInstance(i) ==
    /\ At(i, "Finalize")
    /\ i \in InstanceKeys
    /\ Reads
    /\ \E kind \in unlisted[i] :
         LET left == unlisted[i] \ {kind}
             more == References(i, kind) = {} /\ left # {}
         IN  /\ unlisted' = [unlisted EXCEPT ![i] = IF more THEN left ELSE Kinds]
             /\ \/ References(i, kind) # {} /\ InUse(i)
                \/ more /\ Continue /\ UNCHANGED <<pc, out>>
                \/ /\ References(i, kind) = {} /\ left = {}
                   /\ Continue /\ Goto(i, "RemoveFinalizer")

InstanceStep(k) ==
    \/ HandleDependent(k) \/ FinalizeDependent(k)
    \/ HandleInstance(k) \/ ListBuckets(k) \/ FinalizeInstance(k)

-----------------------------------------------------------------------------
(* Others *)

\* Somebody makes the secrets of an S3Instance; nothing watches them.
SecretAppears(i) ==
    /\ i \notin access
    /\ access' = access \cup {i}
    /\ UNCHANGED <<loopVars, unlisted>>

\* Somebody deletes a secret of an S3Instance; one fault more.
SecretDisappears(i) ==
    /\ i \in access
    /\ Fault
    /\ access' = access \ {i}
    /\ UNCHANGED <<versions, queue, pc, res, cur, out, unlisted>>

Restart == Crash /\ unlisted' = [i \in InstanceKeys |-> Kinds] /\ UNCHANGED access

=============================================================================
