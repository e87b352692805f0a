---------------------------- MODULE LoopInvariant ----------------------------
(***************************************************************************)
(* What every controller keeps true of the versions of its CRs, of the     *)
(* copy a worker holds, of the condition and of the wake-ups, strong       *)
(* enough to be inductive.  The labels at which a controller provisions    *)
(* and those at which it deletes are parameters: each controller has its   *)
(* own.                                                                    *)
(***************************************************************************)
EXTENDS Reconciler

-----------------------------------------------------------------------------
(* Versions of a CR, from the one the informer holds to the stored one *)

\* A CR being deleted has the finalizer; after a version that has it and is not
\* being deleted come only versions that have it, so that the informer cannot
\* hold a version that looks ready for provisioning of a CR that lost its
\* finalizer; before a version that has it come only versions of the same CR, and
\* it is being deleted if one of them was: the informer knows every CR with a
\* finalizer, and takes none for one that is being deleted.
Ordered(vs) ==
    /\ \A i \in 1..Len(vs) : vs[i] # None /\ vs[i].del => vs[i].fin
    /\ \A i, j \in 1..Len(vs) :
         (i <= j /\ vs[i] # None /\ vs[i].fin /\ ~vs[i].del)
           => vs[j] # None /\ vs[j].fin
    /\ \A i, j \in 1..Len(vs) :
         i <= j /\ vs[j] # None /\ vs[j].fin
           => vs[i] # None /\ (vs[i].del => vs[j].del)

\* No version left says "ready for provisioning".
NoneIsReady(vs) ==
    \A i \in 1..Len(vs) : vs[i] # None /\ vs[i].fin => vs[i].del

\* A reconciliation came to an end, for the current generation.
Judged(o) == o.cond.status \in {"True", "False"}
Settled(o) == Judged(o) /\ o.cond.obs = o.gen

\* What may become of an object without the event filter letting it through.
Follows(old, new) ==
    /\ old # None /\ new # None
    /\ old.gen = new.gen
    /\ old.cond.obs <= new.cond.obs
    /\ Judged(old) => Judged(new)

NoneIsRelevant(vs, i, j) == \A m \in i..(j - 1) : ~Relevant(vs[m], vs[m + 1])

\* No condition is ahead of its object, and what the event filter ignores is
\* only more of the same.
Traceable(vs) ==
    /\ \A i \in 1..Len(vs) : vs[i] # None => vs[i].cond.obs <= vs[i].gen
    /\ \A i, j \in 1..Len(vs) :
         i < j /\ NoneIsRelevant(vs, i, j) => Follows(vs[i], vs[j])

\* What the event filter would let through is still to be delivered.
Ahead(vs) == \E i \in 1..(Len(vs) - 1) : Relevant(vs[i], vs[i + 1])

\* Two versions with one spec and one deletion mark.
SameGeneration(o, p) ==
    /\ o # None /\ p # None
    /\ o.gen = p.gen
    /\ o.spec = p.spec
    /\ o.del = p.del

\* The informer has seen the generation of o, and nothing else is to come.
Known(vs, o) == \A i \in 1..Len(vs) : SameGeneration(vs[i], o)

-----------------------------------------------------------------------------
(* The invariant of a CR *)

VersionsInv(k) ==
    /\ Ordered(versions[k])
    /\ Traceable(versions[k])
    /\ \A i \in 1..Len(versions[k]) :
         versions[k][i] # None => versions[k][i].spec \in Specs[k]

\* A copy with the stored resourceVersion is the stored object; the worker
\* provisions for a CR that is held, on a copy that is not being deleted.
WorkerInv(k, provision, deleting) ==
    /\ pc[k] = "Idle" => ~cur[k]
    /\ pc[k] # "Idle" => res[k] # None
    /\ res[k] # None => res[k].spec \in Specs[k]
    /\ cur[k] => res[k] = Stored(k) /\ Known(versions[k], res[k])
    /\ res[k] # None /\ res[k].del /\ Held(k) => Stored(k).del
    /\ pc[k] = "InitStatus" => res[k].cond = NoCondition
    /\ pc[k] \in provision \cup {"RefetchFinalizer"} => Held(k)
    /\ pc[k] \in provision => ~res[k].del
    /\ pc[k] \in deleting => res[k].del
    /\ pc[k] = "SetStatus" /\ out[k].reason = "Reconciled" => ~res[k].del

\* Once a generation has a condition, neither the informer nor the worker holds
\* an earlier one.
ConditionInv(k) ==
    Stored(k) # None /\ Stored(k).cond.obs = Stored(k).gen =>
        /\ Known(versions[k], Stored(k))
        /\ pc[k] # "Idle" => SameGeneration(res[k], Stored(k))
        /\ Stored(k).cond.reason = "Reconciled" => ~Stored(k).del

\* Without a wake-up to come, a worker has a copy that differs from the stored
\* object in its finalizer and a later condition only, and a CR without worker
\* is settled.
WakeInv(k) ==
    \/ k \in queue
    \/ Ahead(versions[k])
    \/ pc[k] # "Idle" /\ Follows(res[k], Stored(k))
    \/ pc[k] = "Idle" /\ (Stored(k) # None => Settled(Stored(k)))

LoopInv(k, provision, deleting) ==
    /\ VersionsInv(k)
    /\ WorkerInv(k, provision, deleting)
    /\ ConditionInv(k)
    /\ WakeInv(k)

LoopIInv(labels, provision, deleting) ==
    /\ LoopTypeOK(labels)
    /\ \A k \in Keys : LoopInv(k, provision, deleting)

\* The arguments of SetReconciledCondition are there while it is pending, and a
\* condition that says "Reconciled" comes without error.  (Not so for the Path
\* controller, which reports some failures with an err that is nil.)
TruthfulCondition(c) ==
    /\ c.reason = "None" => c = NoCondition
    /\ c.reason = "Reconciled" => c.status = "True"

ReportInv(k) ==
    /\ pc[k] # "SetStatus" => out[k] = NoOutcome
    /\ pc[k] = "SetStatus" => /\ out[k].reason # "None"
                              /\ out[k].reason = "Reconciled" => ~out[k].err
    /\ \A i \in 1..Len(versions[k]) :
         versions[k][i] # None => TruthfulCondition(versions[k][i].cond)

=============================================================================
