------------------------------ MODULE Reconciler ------------------------------
(***************************************************************************)
(* What the controllers of the operator have in common: custom resources   *)
(* (CRs) in the API server, the informer cache the operator reads them     *)
(* from, the work queue, the prologue of Reconcile (first status, then     *)
(* finalizer), the status write that ends it and the finalizer removal     *)
(* that ends a deletion.  A controller module EXTENDS this one and adds    *)
(* its calls to S3 between the labels "Handle" (handleReconciliation),     *)
(* "Finalize" (handleDeletion) and the labels that end a reconciliation.   *)
(***************************************************************************)
EXTENDS Naturals, Sequences

CONSTANTS
    Keys,           \* namespaced names of the CRs of one kind
    Specs,          \* Specs[k]: the .spec values users may write for k
    None,           \* "no such object" (API server, cache, worker's copy)
    PeriodicResync, \* --reconcile-period is not 0
    MaxUser,        \* bound: user writes in a behaviour
    MaxFaults,      \* bound: crashes and failed writes in a behaviour
    MaxReadFaults   \* bound: failed reads of S3 in a behaviour

VARIABLES
    versions,  \* versions[k]: what the API server stored for k, from the
               \* version the informer holds (first) to the current one (last)
    queue,     \* keys waiting for a worker
    pc,        \* pc[k]: where the worker that reconciles k is
    res,       \* res[k]: that worker's copy of the CR
    cur,       \* cur[k]: res[k] has the stored resourceVersion
    out,       \* out[k]: arguments of the pending SetReconciledCondition
    budget     \* user writes and faults that may still happen

loopVars == <<versions, queue, pc, res, cur, out, budget>>

-----------------------------------------------------------------------------
(* Objects *)

Reasons == {"Reconciling", "Reconciled", "Unreachable", "CreationFailure",
            "DeletionFailure"}

NoCondition == [status |-> "None", reason |-> "None", obs |-> 0]

Conditions == [status : {"None", "Unknown", "True", "False"},
               reason : Reasons \cup {"None"},
               obs    : Nat]

AllSpecs == UNION {Specs[k] : k \in Keys}

Objects == [gen  : Nat,         \* metadata.generation
            fin  : BOOLEAN,     \* the operator's finalizer is there
            del  : BOOLEAN,     \* deletionTimestamp is set
            spec : AllSpecs,
            cond : Conditions]  \* the "Reconciled" condition

Versions == Objects \cup {None}

NewObject(s) == [gen |-> 1, fin |-> FALSE, del |-> FALSE, spec |-> s,
                 cond |-> NoCondition]

Outcomes == [reason : Reasons \cup {"None"}, err : BOOLEAN]

NoOutcome == [reason |-> "None", err |-> FALSE]

ASSUME NoneIsNoObject == None \notin Objects

ASSUME BoundsAreNaturals == {MaxUser, MaxFaults, MaxReadFaults} \subseteq Nat

ASSUME PeriodicResyncIsBoolean == PeriodicResync \in BOOLEAN

\* The object in the API server, and the one r.Get returns.
Stored(k) == versions[k][Len(versions[k])]
Cached(k) == versions[k][1]
CacheIsCurrent(k) == Len(versions[k]) = 1

\* The API server stores v as the next version of k.
Store(k, v) == versions' = [versions EXCEPT ![k] = Append(@, v)]

LoopLabels == {"Idle", "InitStatus", "RefetchStatus", "AddFinalizer",
               "RefetchFinalizer", "Handle", "Finalize", "SetStatus",
               "RemoveFinalizer"}

LoopTypeOK(labels) ==
    /\ versions \in [Keys -> Seq(Versions) \ {<<>>}]
    /\ queue \subseteq Keys
    /\ pc \in [Keys -> labels]
    /\ res \in [Keys -> Versions]
    /\ cur \in [Keys -> BOOLEAN]
    /\ out \in [Keys -> Outcomes]
    /\ budget \in [user : Nat, faults : Nat, reads : Nat]

LoopInit ==
    /\ versions = [k \in Keys |-> <<None>>]
    /\ queue = {}
    /\ pc = [k \in Keys |-> "Idle"]
    /\ res = [k \in Keys |-> None]
    /\ cur = [k \in Keys |-> FALSE]
    /\ out = [k \in Keys |-> NoOutcome]
    /\ budget = [user |-> MaxUser, faults |-> MaxFaults, reads |-> MaxReadFaults]

-----------------------------------------------------------------------------
(* Users, through the API server *)

UserWrites ==
    /\ budget.user > 0
    /\ budget' = [budget EXCEPT !.user = @ - 1]
    /\ UNCHANGED <<queue, pc, res, out>>

\* The resourceVersion of the worker's copy is no longer the stored one.
Outdate(k) == cur' = [cur EXCEPT ![k] = FALSE]

UserCreate(k) ==
    /\ UserWrites
    /\ Stored(k) = None
    /\ \E s \in Specs[k] : Store(k, NewObject(s))
    /\ Outdate(k)

\* A change of spec bumps the generation; a terminating CR may still change.
UserEdit(k) ==
    /\ UserWrites
    /\ Stored(k) # None
    /\ \E s \in Specs[k] \ {Stored(k).spec} :
         Store(k, [Stored(k) EXCEPT !.spec = s, !.gen = @ + 1])
    /\ Outdate(k)

\* A label or an annotation: a new resourceVersion, the same generation.
UserTouch(k) ==
    /\ UserWrites
    /\ Stored(k) # None
    /\ Store(k, Stored(k))
    /\ Outdate(k)

\* Deletion is immediate without finalizer; with one the CR is only marked,
\* and the mark bumps the generation.
UserDelete(k) ==
    /\ UserWrites
    /\ Stored(k) # None
    /\ ~Stored(k).del
    /\ Store(k, IF Stored(k).fin
                THEN [Stored(k) EXCEPT !.del = TRUE, !.gen = @ + 1]
                ELSE None)
    /\ Outdate(k)

UserStep(k) == UserCreate(k) \/ UserEdit(k) \/ UserTouch(k) \/ UserDelete(k)

-----------------------------------------------------------------------------
(* The informer *)

\* The event filter of SetupWithManager, old and new being two successive
\* versions: an update matters when the generation changed.
RelevantIfCreatedOrDeleted(old, new) == old = None \/ new = None \* mutant

Relevant(old, new) ==
    IF old = None \/ new = None THEN TRUE ELSE old.gen # new.gen

Deliver(k) ==
    /\ Len(versions[k]) > 1
    /\ versions' = [versions EXCEPT ![k] = Tail(@)]
    /\ queue' = IF Relevant(versions[k][1], versions[k][2])
                THEN queue \cup {k} ELSE queue
    /\ UNCHANGED <<pc, res, cur, out, budget>>

-----------------------------------------------------------------------------
(* The worker *)

\* A call fails, or the operator stops, for a reason outside the model.
Fault ==
    /\ budget.faults > 0
    /\ budget' = [budget EXCEPT !.faults = @ - 1]

Goto(k, label) == pc' = [pc EXCEPT ![k] = label] /\ UNCHANGED out

\* return r.SetReconciledCondition(..., reason, ..., err)
Conclude(k, reason, err) ==
    /\ pc' = [pc EXCEPT ![k] = "SetStatus"]
    /\ out' = [out EXCEPT ![k] = [reason |-> reason, err |-> err]]

\* Mutant: the error is logged and not returned.
ReturnNoRetry(k, retry) ==
    /\ pc' = [pc EXCEPT ![k] = "Idle"]
    /\ res' = [res EXCEPT ![k] = None]
    /\ cur' = [cur EXCEPT ![k] = FALSE]
    /\ out' = [out EXCEPT ![k] = NoOutcome]
    /\ UNCHANGED queue

\* The worker returns; an error makes the queue retry the key.
Return(k, retry) ==
    /\ pc' = [pc EXCEPT ![k] = "Idle"]
    /\ res' = [res EXCEPT ![k] = None]
    /\ cur' = [cur EXCEPT ![k] = FALSE]
    /\ out' = [out EXCEPT ![k] = NoOutcome]
    /\ queue' = IF retry THEN queue \cup {k} ELSE queue

\* r.Get(ctx, req.NamespacedName, resource)
Fetch(k) ==
    /\ res' = [res EXCEPT ![k] = Cached(k)]
    /\ cur' = [cur EXCEPT ![k] = CacheIsCurrent(k)]

\* The three tests of the prologue, each from where the code makes it.
\* A CR marked for deletion has the finalizer: it would be gone without.
AfterFinalizer(o) == IF o.del THEN "Finalize" ELSE "Handle"
AfterStatusNoFinalizer(o) == AfterFinalizer(o) \* mutant: AddFinalizer forgotten
AfterStatus(o) == IF ~o.fin THEN "AddFinalizer" ELSE AfterFinalizer(o)
AfterGet(o) == IF o.cond = NoCondition THEN "InitStatus" ELSE AfterStatus(o)

\* The CR is not in the cache: the controller is NOOP.
StartGone(k) ==
    /\ pc[k] = "Idle"
    /\ k \in queue
    /\ Cached(k) = None
    /\ queue' = queue \ {k}
    /\ UNCHANGED <<versions, pc, res, cur, out, budget>>

Start(k) ==
    /\ pc[k] = "Idle"
    /\ k \in queue
    /\ Cached(k) # None
    /\ queue' = queue \ {k}
    /\ Fetch(k)
    /\ Goto(k, AfterGet(Cached(k)))
    /\ UNCHANGED <<versions, budget>>

\* A write of the whole object: the API server refuses it (409, or 404 when the
\* CR is gone) unless the resourceVersion sent is the stored one.  The answer
\* carries the new resourceVersion.
MayWriteAnyVersion(k) == Stored(k) # None \* mutant: no optimistic lock
MayWrite(k) == cur[k]

WriteWorks(k, v) == MayWrite(k) /\ Store(k, v) /\ UNCHANGED budget

\* Refused, failed before it had any effect, or done but the answer is lost.
WriteFails(k, v) ==
    \/ ~MayWrite(k) /\ UNCHANGED <<versions, budget>>
    \/ Fault /\ UNCHANGED versions
    \/ Fault /\ MayWrite(k) /\ Store(k, v)

\* The two writes of the prologue.
Update(k, v, label) ==
    \/ /\ WriteWorks(k, v)
       /\ res' = [res EXCEPT ![k] = v]
       /\ Goto(k, label)
       /\ UNCHANGED <<queue, cur>>
    \/ WriteFails(k, v) /\ Return(k, TRUE)

InitStatus(k) ==
    /\ pc[k] = "InitStatus"
    /\ Update(k, [res[k] EXCEPT !.cond = [status |-> "Unknown",
                                          reason |-> "Reconciling",
                                          obs    |-> res[k].gen]],
              "RefetchStatus")

AddFinalizer(k) ==
    /\ pc[k] = "AddFinalizer"
    /\ Update(k, [res[k] EXCEPT !.fin = TRUE], "RefetchFinalizer")

\* The re-fetch after a write reads the cache, which may not have that write.
Refetch(k, label) ==
    /\ pc[k] = label
    /\ \/ Cached(k) = None /\ Return(k, TRUE)
       \/ Cached(k) # None /\ Fetch(k) /\ UNCHANGED queue
    /\ UNCHANGED <<versions, budget>>

RefetchStatus(k) ==
    /\ Refetch(k, "RefetchStatus")
    /\ Cached(k) # None => Goto(k, AfterStatus(Cached(k)))

RefetchFinalizer(k) ==
    /\ Refetch(k, "RefetchFinalizer")
    /\ Cached(k) # None => Goto(k, AfterFinalizer(Cached(k)))

\* SetReconciledCondition: the condition is written only if it changed, an
\* error is returned (and retried) and the period, if any, ends in a new run.
\* The message of an error is abstracted: two errors of one reason may differ.
ConditionOf(o, outcome) ==
    [status |-> IF outcome.err THEN "False" ELSE "True",
     reason |-> outcome.reason,
     obs    |-> o.gen]

RequeuedOnErrorOnly(outcome) == outcome.err \* mutant: RequeueAfter forgotten
Requeued(outcome) == outcome.err \/ PeriodicResync

SetStatus(k) ==
    LET v == [res[k] EXCEPT !.cond = ConditionOf(res[k], out[k])]
        maySkip == v = res[k]
        mayWrite == v # res[k] \/ out[k].err
    IN  /\ pc[k] = "SetStatus"
        /\ \/ /\ maySkip
              /\ UNCHANGED <<versions, budget>>
              /\ Return(k, Requeued(out[k]))
           \/ mayWrite /\ WriteWorks(k, v) /\ Return(k, Requeued(out[k]))
           \/ mayWrite /\ WriteFails(k, v) /\ Return(k, TRUE)

\* The operator's finalizer is the only one: without it the CR is gone.
RemoveFinalizer(k) ==
    /\ pc[k] = "RemoveFinalizer"
    /\ \/ WriteWorks(k, None) /\ Return(k, FALSE)
       \/ WriteFails(k, None) /\ Return(k, TRUE)

LoopStep(k) ==
    \/ StartGone(k) \/ Start(k)
    \/ InitStatus(k) \/ RefetchStatus(k)
    \/ AddFinalizer(k) \/ RefetchFinalizer(k)
    \/ SetStatus(k) \/ RemoveFinalizer(k)

\* The operator stops and starts again: the caches are listed anew and every
\* CR found is an event.
Crash ==
    /\ Fault
    /\ versions' = [k \in Keys |-> <<Stored(k)>>]
    /\ queue' = {k \in Keys : Stored(k) # None}
    /\ pc' = [k \in Keys |-> "Idle"]
    /\ res' = [k \in Keys |-> None]
    /\ cur' = [k \in Keys |-> FALSE]
    /\ out' = [k \in Keys |-> NoOutcome]

-----------------------------------------------------------------------------
(* What is expected of every controller *)

Held(k) == Stored(k) # None /\ Stored(k).fin

\* The CR says "Reconciled" of its current generation.
ReconciledNow(k) ==
    /\ Stored(k) # None
    /\ Stored(k).cond.reason = "Reconciled"
    /\ Stored(k).cond.obs = Stored(k).gen

\* How far the CR is in its life.
Stage(k) == IF Stored(k) = None THEN "absent"
            ELSE IF ~Stored(k).fin THEN "declared"
            ELSE IF ~Stored(k).del THEN "held" ELSE "terminating"

Terminating(k) == Stored(k) = None \/ Stored(k).del

\* Work on key k is going on or will be: a worker has it, it is queued, or the
\* watch will deliver a change the event filter lets through.
Pending(k) ==
    \/ pc[k] # "Idle"
    \/ k \in queue
    \/ \E i \in 1..(Len(versions[k]) - 1) :
         Relevant(versions[k][i], versions[k][i + 1])

\* No wake-up is lost between the event filter, the stale cache, conflicts,
\* failures and restarts: a CR whose current generation has not been judged
\* yet has work pending.
NoLostWakeup ==
    \A k \in Keys :
        (/\ Stored(k) # None
         /\ \/ Stored(k).cond.status \in {"None", "Unknown"}
            \/ Stored(k).cond.obs # Stored(k).gen) => Pending(k)

\* SetReconciledCondition: a CR that says it failed has a retry pending, so its
\* condition follows what the last reconciliation found.
FailureIsRetried ==
    \A k \in Keys :
        (Stored(k) # None /\ Stored(k).cond.status = "False") => Pending(k)

\* A late status write never brings a CR back to an older observedGeneration.
StatusNeverGoesBack ==
    [][\A k \in Keys :
         (Stored(k) # None /\ Stored(k)' # None)
           => Stored(k)'.cond.obs >= Stored(k).cond.obs]_loopVars

\* A CR that is being deleted goes away.
DeletionCompletes ==
    \A k \in Keys :
        (Stored(k) # None /\ Stored(k).del) ~> (Stored(k) = None)

\* A CR whose resource was deleted, so that its worker came to the removal of the
\* finalizer, goes away, whatever happens to that write.
ReleasedOnceFinalized ==
    \A k \in Keys : (pc[k] = "RemoveFinalizer") ~> (Stored(k) = None)

=============================================================================
