---------------------------- MODULE PathController ----------------------------
(***************************************************************************)
(* The handlers of internal/controller/path, one action per call to S3,    *)
(* for the keys of Path CRs.  spec.name stands for spec.bucketName.        *)
(***************************************************************************)
EXTENDS S3Server

CONSTANTS
    PathKeys,            \* the Path CRs
    PathDeletionEnabled  \* of the S3Instance

PathSpecs == [name : BucketNames, paths : Seq(Paths)]

ASSUME PathKeysAssumption ==
    PathKeys \subseteq Keys /\ \A k \in PathKeys : Specs[k] \subseteq PathSpecs

ASSUME PathDeletionIsBoolean == PathDeletionEnabled \in BOOLEAN

PathLabels == {"StatPath", "DeletePath"}

-----------------------------------------------------------------------------
(* handleReconciliation *)

\* A bucket that does not exist is reported with the nil err of BucketExists.
HandlePath(k) ==
    /\ At(k, "Handle")
    /\ UNCHANGED failed
    /\ \/ /\ Reads
          /\ IF Bucket(k) = None THEN Abort(k, "CreationFailure", FALSE)
                                 ELSE Loop(k, Wanted(k).paths, "CheckPath")
       \/ ReadFails /\ Abort(k, "Unreachable", TRUE)

-----------------------------------------------------------------------------
(* handleDeletion *)

\* for _, path := range pathResource.Spec.Paths in finalizePath
RemoveLoop(k, paths, bad) ==
    /\ todo' = [todo EXCEPT ![k] = paths]
    /\ failed' = [failed EXCEPT ![k] = bad /\ paths # <<>>]
    /\ CASE paths # <<>>          -> Goto(k, "StatPath")
         [] paths = <<>> /\ bad   -> Conclude(k, "DeletionFailure", TRUE)
         [] paths = <<>> /\ ~bad  -> Goto(k, "RemoveFinalizer")

FinalizePath(k) ==
    /\ At(k, "Finalize")
    /\ \/ /\ Reads
          /\ IF PathDeletionEnabled
             THEN RemoveLoop(k, Wanted(k).paths, FALSE)
             ELSE Goto(k, "RemoveFinalizer") /\ UNCHANGED <<todo, failed>>
       \/ ReadFails /\ Abort(k, "DeletionFailure", TRUE) /\ UNCHANGED failed

\* The error of PathExists is only logged: the path counts as absent.
StatPath(k) ==
    /\ At(k, "StatPath")
    /\ \/ /\ Reads
          /\ IF HasObject(k, Head(todo[k]))
             THEN Goto(k, "DeletePath") /\ UNCHANGED <<todo, failed>>
             ELSE RemoveLoop(k, Tail(todo[k]), failed[k])
       \/ ReadFails /\ RemoveLoop(k, Tail(todo[k]), failed[k])

\* Mutant: the error of DeletePath is only logged too.
FailureRecordedNever(k) == failed[k]
FailureRecorded(k) == TRUE

DeletePath(k) ==
    LET possible == Bucket(k) # None
        b == [Bucket(k) EXCEPT !.objects = @ \ {Head(todo[k])}]
    IN  /\ At(k, "DeletePath")
        /\ \/ CallWorks(k, possible, b) /\ RemoveLoop(k, Tail(todo[k]), failed[k])
           \/ /\ CallFails(k, possible, b)
              /\ RemoveLoop(k, Tail(todo[k]), FailureRecorded(k))

PathStep(k) ==
    /\ k \in PathKeys
    /\ \/ HandlePath(k)
       \/ (CheckPath(k) \/ AddPath(k)) /\ UNCHANGED failed
       \/ FinalizePath(k) \/ StatPath(k) \/ DeletePath(k)

=============================================================================
