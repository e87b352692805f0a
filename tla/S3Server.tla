------------------------------- MODULE S3Server -------------------------------
(***************************************************************************)
(* The buckets of the S3 server, and the calls the controllers make to it  *)
(* through internal/s3/client, one action each.  Getting the S3 client     *)
(* (cached reads) is part of the call that follows it; a failure of either *)
(* has the same effect unless an action says otherwise.                    *)
(***************************************************************************)
EXTENDS Reconciler

CONSTANTS
    BucketNames,
    Paths,       \* keys of objects: the .keep objects of the paths in Specs,
                 \* and the tenants' own objects
    Amounts,     \* int64 quotas; 0 is "no quota"
    MaxTampers   \* bound: changes made to S3 by others in a behaviour

VARIABLES
    buckets,  \* buckets[b]: quota and objects of bucket b, or None
    todo,     \* todo[k]: the paths the loop of the worker has still to do
    failed,   \* failed[k]: failedPaths of finalizePath is not empty
    tampers   \* changes by others that may still happen

s3Vars == <<buckets, todo, failed, tampers>>
vars == <<loopVars, s3Vars>>

-----------------------------------------------------------------------------
(* Data *)

Buckets == [quota : Amounts, objects : SUBSET Paths]

NewBucket == [quota |-> 0, objects |-> {}]

ASSUME AmountsAssumption == Amounts \subseteq Nat /\ 0 \in Amounts

S3Labels == {"CheckPath", "AddPath"}

ASSUME NoneIsNoBucket == None \notin Buckets

ASSUME MaxTampersIsNatural == MaxTampers \in Nat

S3TypeOK ==
    /\ buckets \in [BucketNames -> Buckets \cup {None}]
    /\ todo \in [Keys -> Seq(Paths)]
    /\ failed \in [Keys -> BOOLEAN]
    /\ tampers \in Nat

S3Init ==
    /\ buckets = [b \in BucketNames |-> None]
    /\ todo = [k \in Keys |-> <<>>]
    /\ failed = [k \in Keys |-> FALSE]
    /\ tampers = MaxTampers

-----------------------------------------------------------------------------
(* Calls *)

\* The spec the worker acts on, and the bucket it names (spec.name of a
\* Bucket, spec.bucketName of a Path).
Wanted(k) == res[k].spec
Bucket(k) == buckets[Wanted(k).name]

\* Worker k is at label and its next call is not one to the API server.
At(k, label) ==
    /\ pc[k] = label
    /\ UNCHANGED <<versions, queue, res, cur, tampers>>

Elements(paths) == {paths[i] : i \in DOMAIN paths}

HasObject(k, p) == Bucket(k) # None /\ p \in Bucket(k).objects

SetBucket(k, b) == buckets' = [buckets EXCEPT ![Wanted(k).name] = b]

\* A call the server accepts when possible holds, and that makes the bucket b.
CallWorks(k, possible, b) ==
    /\ possible
    /\ SetBucket(k, b)
    /\ UNCHANGED budget

\* The server refuses it, or it fails before or after its effect.
CallFails(k, possible, b) ==
    \/ ~possible /\ UNCHANGED <<buckets, budget>>
    \/ Fault /\ UNCHANGED buckets
    \/ Fault /\ possible /\ SetBucket(k, b)

Reads == UNCHANGED <<buckets, budget>>

\* A read of S3, or the S3 client it needs, is not to be had.
ReadFails ==
    /\ budget.reads > 0
    /\ budget' = [budget EXCEPT !.reads = @ - 1]
    /\ UNCHANGED buckets

\* return r.SetReconciledCondition(..., reason, ..., err), leaving any loop
Abort(k, reason, err) ==
    /\ Conclude(k, reason, err)
    /\ todo' = [todo EXCEPT ![k] = <<>>]

\* Mutant: the last path of the list is skipped.
LoopButLast(k, paths, label) ==
    IF Len(paths) > 1
    THEN Goto(k, label) /\ todo' = [todo EXCEPT ![k] = paths]
    ELSE Abort(k, "Reconciled", FALSE)

\* for _, pathInCr := range paths: the next path, or the end of the handler
Loop(k, paths, label) ==
    /\ todo' = [todo EXCEPT ![k] = paths]
    /\ IF paths = <<>> THEN Conclude(k, "Reconciled", FALSE) ELSE Goto(k, label)

PutObject(k) == [Bucket(k) EXCEPT !.objects = @ \cup {Head(todo[k])}]

-----------------------------------------------------------------------------
(* The loop that both handleUpdate of Bucket and handleReconciliation of Path
   make over the paths of the CR *)

\* PathExists answers false, without error, for a bucket that is gone too.
CheckPath(k) ==
    /\ At(k, "CheckPath")
    /\ \/ /\ Reads
          /\ IF HasObject(k, Head(todo[k]))
             THEN Loop(k, Tail(todo[k]), "CheckPath")
             ELSE Goto(k, "AddPath") /\ UNCHANGED todo
       \/ ReadFails /\ Abort(k, "Unreachable", TRUE)

AddPath(k) ==
    LET possible == Bucket(k) # None
    IN  /\ At(k, "AddPath")
        /\ \/ /\ CallWorks(k, possible, PutObject(k))
              /\ Loop(k, Tail(todo[k]), "CheckPath")
           \/ /\ CallFails(k, possible, PutObject(k))
              /\ Abort(k, "Unreachable", TRUE)

-----------------------------------------------------------------------------
(* Others *)

\* Somebody else changes bucket b: a tenant or an administrator of S3.
Tamper(b) ==
    /\ tampers > 0
    /\ tampers' = tampers - 1
    /\ \E v \in (Buckets \cup {None}) \ {buckets[b]} :
         buckets' = [buckets EXCEPT ![b] = v]
    /\ UNCHANGED <<loopVars, todo, failed>>

Restart ==
    /\ Crash
    /\ todo' = [k \in Keys |-> <<>>]
    /\ failed' = [k \in Keys |-> FALSE]
    /\ UNCHANGED <<buckets, tampers>>

=============================================================================
