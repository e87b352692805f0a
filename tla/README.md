# A TLA+ model of s3-operator

s3-operator is a Kubernetes operator: users declare S3 buckets, paths, policies
and users as custom resources (CRs) in the Kubernetes API server, and one
controller per kind makes a MinIO server agree with them. This directory holds a
model of it in TLA+, the TLC runs that check the model on small instances and
the proofs, checked by TLAPS, of what holds for any number of CRs, buckets and
paths. Paths below are relative to the repository, `src/` being its root.

## 1. Inventory

### 1.1 The components

| Component | Code | State it keeps | Operations |
|---|---|---|---|
| Reconcile loop common to the controllers | `internal/controller/*/reconcile.go` (`Reconcile`), `controller.go` (event filter), `status.go`, `internal/helpers/controller.go` | none of its own: the CRs in the API server (spec, generation, finalizer, deletion mark, condition), the informer cache, the work queue, the worker's copy | read the cached CR, first status, finalizer, dispatch, status at the end, finalizer removal |
| Bucket controller | `internal/controller/bucket` | S3: bucket, quota, `.keep` objects of its paths | create (bucket, quota, paths), update (quota, missing paths), finalize |
| Path controller | `internal/controller/path` | S3: `.keep` objects in a bucket of somebody else | create missing paths, finalize |
| Policy controller | `internal/controller/policy` | S3: canned policies | create, compare and update, finalize |
| S3User controller | `internal/controller/user` | S3: users and the policies attached to them; in Kubernetes: the secrets with their keys, owned by the CR | create user and secret, recreate both when the secret is gone or does not open the user, use a secret of others (flags), attach and detach policies, finalize |
| S3Instance controller | `internal/controller/s3instance` | the condition of an S3Instance | test the connection, refuse deletion while a CR refers to it |
| S3Instance lookup | `internal/helpers/s3instance.go` | none | resolve the reference, check the namespace and readiness, read the secrets, make a client |
| S3 client | `internal/s3/client` | the S3 server | one method per call |
| S3 client factory | `internal/s3/factory` | none | choose the provider |
| Password generator | `internal/helpers/password_generator.go` | none | random passwords |
| Operator process | `cmd/main.go` | flags: reconcile period, leader election, ... | start and stop |

### 1.2 How they interact

* Users write CRs in the API server; the informer's watch delivers each stored
  version to the cache, later. The event filter queues the CR's key on creation,
  deletion and change of generation, and drops the rest, the controllers' own
  status and finalizer writes among it.
* A worker (ten per controller, never two on one key) reads the CR **from the
  cache**, decides on that copy, calls S3 several times, and writes the copy back.
  The API server refuses a write whose resourceVersion is not the stored one.
* An error of `Reconcile`, a conflict included, makes the queue retry the key; a
  reconcile period, when there is one, queues it again after a success.
* Controllers share the S3 server without a lock: the Path controller needs the
  bucket a Bucket CR makes, and both add and remove objects in it. Other clients
  (tenants, administrators) change it too.
* Every controller but S3Instance's reads the S3Instance and its secret before
  it can call S3. The S3Instance controller lists the CRs that refer to it.
* The S3User controller owns secrets. It reads them from a cache with a watch of
  its own; updates and deletions of an owned secret queue the owner's key. The
  garbage collector removes a secret whose owner is gone, people edit secrets.

### 1.3 What is hard, and what makes each component correct

* *Loop.* Cached copies may be stale, the re-fetch after a write included. Events
  are filtered. Writes conflict, fail, or succeed with the answer lost. The
  operator may stop between any two calls. Correct: no wake-up is lost
  (`NoLostWakeup`), the status never goes back to an older generation
  (`StatusNeverGoesBack`), a failure is retried (`FailureIsRetried`).
* *Bucket.* Several S3 calls with one spec, any of which may fail; the retry goes
  through the update path, not the creation path, and the two choose the quota
  in different ways. `spec.quota` may be no int64. Correct: "Reconciled" is true of
  S3, the override of the quota included
  (`ReconciledMeansApplied`), S3 ends up as the CR asks (`Converges`,
  `ConvergesAndSaysSo`), nothing is made but under the finalizer
  (`ProvisionOnlyWhileHeld`), nothing outlives its CR when deletion is enabled
  (`NoOrphanBucket`), a deletion completes (`DeletionCompletes`) once the bucket
  is gone whatever fails then (`ReleasedOnceFinalized`), and all of it
  follows one protocol per CR (`ImplementsManagedResource`).
* *Path.* Works inside a bucket that may not exist yet, or any more. One of
  several paths may fail to be removed. Correct: the same, `NoOrphanPath`, and the
  protocol with the paths of a CR as its resource (`PathsImplementManagedResource`).
* *Policy.* Existence is read twice and the second answer is dereferenced; the
  content is compared as bytes with what the server gives back. Correct:
  `PolicyIsAsReconciled`, `NoOrphanPolicy`, `PolicyOnlyWhileHeld`,
  `PolicyConverges`, `PolicyDeletionCompletes`, `ManagedWhileUntouched`, the
  counterparts of the above.
* *S3User.* The S3 user is made before the secret with its key, and the key is in
  no other place: whatever fails in between, the controller can only delete both
  and start again. Secrets come from a cache that may lack the worker's own
  writes, and its updates and deletions wake it up again. The credentials are in
  the fields of the secret that the spec names, where others may have put
  something else or nothing. Correct: "Reconciled" means
  that the secret opens the user (`CredentialsDelivered`), an existing secret
  gives the user its key (`KeyIsRetrieved`), every S3User gets
  there and stays there, and a deleted one goes away (`UserConverges`), no user
  outlives its CR (`NoOrphanUser`) or is made without one (`UserOnlyWhileHeld`), and
  it is removed only with the CR or to be made again (`ImplementsManagedResource`).
* *S3Instance.* References are counted in caches, kind by kind. CRs that need an
  instance and the instance wait for each other, and nothing wakes them up but
  the backoff of their errors. Correct: the count misses no CR that holds a
  finalizer (`CountSeesEveryHolder`); only an instance that is ready and open to
  the namespace is used, wherever the stars stand in its patterns
  (`OnlyThroughOpenInstances`); everything that is not blocked for a reason comes
  to rest (`ComesToRest`).

`PROJECT.json` lists each hazard at its line with the properties that cover it.

## 2. The modules

| Module | Models | State |
|---|---|---|
| `Reconciler` | the loop: API server versions, watch, cache, queue, workers, users, restarts | `versions`, `queue`, `pc`, `res`, `cur`, `out`, `budget` |
| `S3Server` (EXTENDS `Reconciler`) | buckets, how a call succeeds or fails, the loop over paths that Bucket and Path share, other clients | `buckets`, `todo`, `failed`, `tampers` |
| `BucketController` (EXTENDS `S3Server`) | the handlers of `internal/controller/bucket`, one action per S3 call | |
| `PathController` (EXTENDS `S3Server`) | the handlers of `internal/controller/path` | |
| `BucketsAndPaths` (EXTENDS both) | both controllers at work on one S3 server: `Next`, fairness, properties, the inductive invariants | |
| `ManagedResource` | the abstract protocol: one CR and its S3 resource as a life cycle; the Bucket, Path, Policy and S3User controllers implement it | `stage`, `present` |
| `PolicyController` (EXTENDS `Reconciler`) | the handlers of `internal/controller/policy` and the canned policies of the server | `policies`, `tampers` |
| `PoliciesAtWork` (EXTENDS it) | `Next`, fairness and properties of the Policy controller | |
| `UserController` (EXTENDS `Reconciler`) | the handlers of `internal/controller/user`, the S3 users, the secrets with their cache and watch, UIDs and garbage collection | `users`, `canned`, `secrets`, `uids`, `flags`, `work` |
| `UsersAtWork` (EXTENDS it) | `Next`, fairness and properties of the S3User controller | |
| `InstanceController` (EXTENDS `Reconciler`) | the handlers of `internal/controller/s3instance` and the lookup of `internal/helpers/s3instance.go` by the CRs of the other controllers | `access`, `unlisted` |
| `InstancesAtWork` (EXTENDS it) | `Next`, fairness and properties of S3Instances and their dependents | |
| `MCBucketsAndPaths`, `MCPolicies`, `MCUsers`, `MCInstances` | values of the constants for TLC; the last two also smaller initial states | |
| `LoopInvariant` (EXTENDS `Reconciler`) | what every controller keeps true of versions, copies, conditions and wake-ups | |
| `LoopProofs` | that the steps of the loop keep it | |
| `BucketsAndPathsProofs`, `S3Proofs` | the theorems about Buckets and Paths: of `IInv`, and of what S3 holds | |
| `PoliciesProofs`, `UsersProofs`, `InstancesProofs` | the theorems about the other controllers | |
| `CredentialsProofs` (EXTENDS `UsersProofs`) | that an S3User that says "Reconciled" has its credentials | |
| `PatternProofs` | that `IsAllowedNamespaces` decides what patterns mean | |

### 2.1 State and code

* `versions[k]` is the sequence of what the API server stored for CR `k`, from the
  one the informer holds to the current one. Its head is what `r.Get` returns
  (`Cached`), its last element the stored CR (`Stored`), and `Deliver` is one event
  of the watch, with the `UpdateFunc` filter of `SetupWithManager` (`Relevant`).
  `None` in the sequence is a CR that is gone; a CR may be created again after it.
* A CR is a record of `metadata.generation`, the operator's finalizer, the
  deletion mark, the spec and the one condition (status, reason,
  observedGeneration).
* `pc[k]`, `res[k]`, `cur[k]`, `out[k]`, `todo[k]`, `failed[k]`: where the worker
  on `k` is, its copy `bucketResource` or `pathResource`, whether that copy has
  the stored resourceVersion, the arguments of the `SetReconciledCondition` it is
  about to make, the paths its loop has left, and whether `failedPaths` is not
  empty. The queue never gives one key to two workers, so one `pc` per key is
  enough.
* Between two labels there is one call, to the API server or to S3; everything
  the code does between two calls is in the action of the earlier one. The prologue
  of `Reconcile` is `Start`, `InitStatus`, `RefetchStatus`, `AddFinalizer`,
  `RefetchFinalizer`; `SetStatus` is `helpers.SetReconciledCondition`;
  `RemoveFinalizer` ends `handleDeletion`. The Bucket handlers are `HandleBucket`,
  `CreateBucket`, `SetDefaultQuota`, `CreatePath` (creation), `GetQuota`,
  `ResetQuota`, `CheckPath`, `AddPath` (update), `FinalizeBucket`; the Path ones
  `HandlePath`, `CheckPath`, `AddPath`, `FinalizePath`, `StatPath`, `DeletePath`;
  the Policy ones `HandlePolicy`, `CreatePolicy`, `ComparePolicy`,
  `UpdatePolicy`, `FinalizePolicy`. Policies share nothing with buckets and
  paths but the loop, so the Policy controller is composed on its own.
* `users[a]` is the S3 user of an access key, its secret key and the policies
  attached to it. `secrets[n]` is for a secret what `versions[k]` is for a CR:
  the versions from the cached to the stored one; `DeliverSecret` is its watch
  with `Owns` and the filter of `SetupWithManager` (`Woken`). `uids[k]` is the UID
  of CR `k`: a secret owned by an earlier CR of that name is another's. `work[k]`
  holds the local variables of the user handlers. They are `HandleUser`
  (`UserExist`, then the choice of a secret in `SelectSecret`, the beginning of
  `handleUpdate`), `DeleteUnused`, `GetPolicies`, `RemovePolicies`, `AddPolicies`,
  `CheckCredentials`, `DeleteSecret`, `DropUser` (update), `Create`,
  `CreateSecret`, `UpdateSecret`, `AttachPolicies` (creation), `FinalizeUser`,
  `DeleteOwned` (deletion). `Create` has one operator for each case of
  `handleCreate`: `CreateWithNewKey`, `CreateOnExisting` (3.2), `Refuse` (3.1 and
  3.3). The `data` of a secret maps the names of fields to an access key, a secret key,
  the empty value (`Empty`) or nothing (`None`); `AccessIn` and `KeyIn` are what it
  holds under the names in a spec. `CreateOnExisting` takes the secret key from
  there only if the field is among the data, even when its value is empty
  (`KeyToGive`); `CheckCredentials` has something to try only when both values are
  `Given`, and otherwise gets an error that is not that of an invalid key.
* `access` is the set of S3Instances whose secrets exist, `unlisted[i]` the kinds
  `checkS3InstanceReferences` has still to list (a Go map: in any order). `Lookup`
  is `GetS3ClientForRessource` with its four kinds of error and its panic;
  `HandleInstance`, `ListBuckets`, `FinalizeInstance` are the S3Instance handlers.
* A write or an S3 call succeeds, is refused for a reason of the state (conflict,
  bucket missing, bucket not empty: this costs nothing from the bounds), fails
  without effect, or takes effect and loses its answer. A read may fail, and so
  may getting the S3 client before it.
* `Restart` empties workers and queue, refreshes the cache and queues every CR.
* `ManagedResource` sees of a CR its `Stage`: not there, there without the
  finalizer, held, being deleted. Its resource is the bucket (`Protocol` of
  `BucketsAndPaths`), any of the paths (`PathProtocol`), the policy or the S3
  user. A policy, a bucket or a path is only removed for a CR that is being
  deleted, an S3 user also for a CR that is held, because a user without a
  secret is made anew (`Recreates`, one of the constants).

### 2.2 Abstractions

* Names, paths and quotas are members of small sets. A quota is a natural number,
  0 for none, or `NotInt64`: a Quantity that `AsInt64` refuses. A negative one,
  which becomes a very large quota by `uint64(quota)`
  (`internal/s3/client/impl/minioS3Client.go:313`), is not modelled.
  `Path.spec.bucketName` is called `name` as in a Bucket.
* A policy content is what the policy says, not its layout. `json.Compact` refuses
  `NotJson`. The server gives a content in `Verbatim` back as the CR has it, up to
  white space; others come back reordered or escaped (`json.Marshal` escapes `<`,
  `>` and `&`), never compare equal and are written at every reconciliation.
  A nil dereference is a panic, which controller-runtime recovers
  (`RecoverPanic` is on by default in v0.21) and retries as an error.
* The message of a condition is left out. Two errors with one reason may have
  different messages, so `SetStatus` may write or not write a failed condition
  that is otherwise the same.
* The operator's finalizer is the only one on a CR: removing it removes the CR.
  Users delete CRs but do not edit finalizers or status.
* `GetS3ClientForRessource` (cached reads, no effect) is part of the S3 call that
  follows it. Its failure is `ReadFails`; `CreateBucket`, whose own failure has
  another reason, keeps the two apart. What it depends on is the subject of
  `InstanceController`, where in turn a whole handler of a dependent is one
  step: lookup, then success or failure.
* Cached reads and lists of a running operator do not fail. They are part of the
  call next to them, which matters for secrets: `SelectSecret` lists them when
  `UserExist` answers, `Create` gets one when `CreateUser` is called.
* All S3User CRs and secrets are in one namespace. A secret has one owner. Its
  fields other than the credentials (URL, region, user name) are left out, and so
  is a spec that gives two fields one name. `NewKey` is the least secret key that
  occurs nowhere: generated keys
  are never the same. A key that nobody holds any more may come back, which no
  part of the code can tell.
* `Tamper` is what people do to a secret that a CR owns: they delete it, put another
  key, the empty value or nothing in a field, but not the access key of another S3User.
  Secrets that belong to nobody
  exist from the start (`Foreign`) and are not touched by people afterwards: they
  wake up nobody, so that nothing could be promised of them.
* An access key of an S3User is not edited in the runs (see the hazards), its
  secret name and policies are.
* `s3InstanceRef` is "name" or "namespace/name" and immutable, as the CRD
  validates. Namespaces and patterns are sequences of characters, for once, since
  `IsAllowedNamespaces` takes them apart.
* Whether an S3Instance works is its secrets (access key and CA certificate, one
  Boolean) and `ListBuckets`, which may fail.
* `RequeueAfter` and the backoff of a retry are an immediate requeue: time is not
  modelled, so a retry may come at any later moment.
* The watch delivers every version. A relist after a lost watch, which may skip
  versions, happens only at a restart (see the hazards).
* One replica of the operator, as the chart deploys it; leader election is not
  modelled.
* Deletion with a finalizer, generations and optimistic locking are the API server's and modelled from
  how the code relies on them (`external` in the map), as are MinIO's answers.

## 3. The runs

They use the modules `MCBucketsAndPaths`, `MCPolicies`, `MCUsers` and
`MCInstances`, and switch the deadlock check off: when
users are done, all CRs are reconciled and no period is set, the operator
rightly does nothing.

| Run | Instance | Checks |
|---|---|---|
| `Bucket` | one Bucket CR, specs from no path to two paths, without an override, one quota that is no int64, deletion disabled, no period, 4 user writes, 1 fault, 1 failed read, fairness | `TypeOK`, `ReconciledMeansApplied`, `NoLostWakeup`, `StatusNeverGoesBack`, `Converges`, `DeletionCompletes` |
| `BucketAndPath` | a Bucket CR without an override and a Path CR with two paths in one bucket, both deletions enabled, 4 user writes, 1 fault | `ReconciledMeansApplied`, `NoOrphanBucket`, `NoOrphanPath`, `IInv`, `S3Inv`, `ProvisionOnlyWhileHeld`, `ImplementsManagedResource`, `PathsImplementManagedResource` |
| `Resync` | a Bucket CR with an override and a Path CR, a reconcile period, 1 change by another client, 1 fault, 1 failed read, fairness | `ConvergesAndSaysSo` |
| `Policies` | one Policy CR with two contents, one of them verbatim, and one that is no JSON, deletion enabled, a reconcile period, 3 user writes, 1 fault, 1 failed read, 1 change by another client, fairness | `PolicyIsAsReconciled`, `NoOrphanPolicy`, `IInv`, `PoliciesInv`, `PolicyOnlyWhileHeld`, `ManagedWhileUntouched`, `PolicyConverges`, `PolicyDeletionCompletes` |
| `Users` | one S3User CR whose secret or key field is renamed or whose policy is removed and added, two secret names, one perhaps taken by others with a key or without one, the four choices of flags, deletion enabled, no period, 2 user writes, 1 fault, fairness | `UserTypeOK`, `CredentialsDelivered`, `CredentialsInv`, `NoOrphanUser`, `UserOnlyWhileHeld`, `ImplementsManagedResource`, `UserConverges` |
| `Instances` | an S3Instance that is opened and closed to the namespace of a CR that names it, two kinds to count, secrets that appear and disappear, no period, 2 user writes, 1 fault, fairness | `IInv`, `OnlyThroughOpenInstances`, `CountSeesEveryHolder`, `ComesToRest` |

What they show:

* `Bucket`: a condition "Reconciled" of the current generation is true of S3
  (the bucket is there with every path and the effective quota)
  although it was decided on a stale copy, call by call; a CR whose generation was
  not judged yet always has work pending; the observedGeneration never decreases.
  Once users and faults stop, S3 is as the CR asks, and a CR being deleted goes
  away, without any periodic reconciliation. All this is said of specs without an
  override: with one it is false (`QuotaOverride`).
* `BucketAndPath`: the same truth with two controllers that delete under each
  other on one bucket. A bucket never exists without a CR that holds it with the
  finalizer, nor does an object. A Path CR can rely on `DeleteBucket` refusing a bucket that
  holds its objects. Both controllers implement `ManagedResource`: made only under
  the finalizer, removed only for a CR being deleted, released only after removal;
  a Path CR is released only when none of its paths is left.
* `Resync`: with a reconcile period the CRs come to *say* Reconciled with the
  *effective* quota, a Path CR made before its bucket gets its paths, and a change
  by another client is repaired.
* `Policies`: the same questions for policies. The two safety invariants are
  about behaviours in which nobody else changed S3 yet, the others about all.
  A policy removed between the two reads only costs a retry, and a deletion
  can be retried after it succeeded, unlike that of a bucket; it completes
  unless the policy stays attached to a user. Up to the first change by somebody
  else, of whom the protocol knows nothing, CR and policy keep `ManagedResource`.
* `Users`: an S3User that says Reconciled, with no event on its way to it, has a
  secret that opens its user, with just its policies, although user, secret and
  policies are made by separate calls and read from two caches. With one or both of
  the flags for existing secrets every S3User gets there and stays there, through
  an edit or the loss of its secret, without a period, and no user outlives its
  CR. `CredentialsInv` is why the first holds: what the worker remembers from its
  caches is right, or outdated by a change that is still to wake it up.
  `ManagedResource` is kept although the controller also deletes users of CRs
  that are held, to make them again. The properties name the cases the code does
  not handle and leave out just these: a secret of
  others with the default name when another name is configured (`Hidden`); the
  read flag alone with an existing secret without the key, or not with the access key
  (`CannotRead`, of which the missing key is the finding of `KeylessSecret`); and, for `UserConverges`,
  a secret in which a value stays missing or empty, with which the CR stays
  Unreachable (`Lacks`), and policies that do not exist or do not let the user list
  buckets (`Unusable`).
* `Instances`: a CR is reconciled and finalized only through an S3Instance that
  was found to work and is open to its namespace, checked against the meaning
  of the patterns (`Matches`); the count of references sees every CR that has
  a finalizer, because the operator adds a finalizer only to what it has in its
  cache; and every CR goes away or comes to rest unless what it waits for is gone
  or waits for it. `Blocked` says so in terms of what is stored, not of the condition alone: no
  S3Instance of that name that has its secrets and is open to the CR; one deleted while CRs
  refer to it, or before it was reconciled, which then never is; and, the one
  excuse that is a defect of the code, one left at False with nothing pending by
  the retry that `BucketRetry` shows of a Bucket (`LeftUnready`). An S3Instance whose
  condition is merely not there yet, or False with a retry to come, excuses
  nobody. The panic on an instance without a condition only costs a retry.

Six more runs check a statement of the repository that the code does not keep,
and find it violated (`findings` in `PROJECT.json` quotes each):

| Run | Statement | What the code does |
|---|---|---|
| `PathStatFails` | path deletion removes the `.keep` files | `finalizePath` only logs a failed `PathExists` and counts the path as absent: one failure leaves the object behind for ever |
| `BucketRetry` | a success after a failure changes the status | the retry compares with a cached copy older than the failed condition, writes nothing, and the CR says False for good |
| `BucketDeletion` | a failed finalization is retried until it succeeds | another write makes the finalizer removal conflict after `DeleteBucket` succeeded; the retry calls `DeleteBucket` on a bucket that is gone, fails, and fails for ever |
| `QuotaOverride` | "override" takes precedence over the default quota | `handleCreation` applies the default and says Reconciled; only a later reconciliation looks at the override, and without a period there may be none |
| `KeylessSecret` | the read flag retrieves the secret key from an existing secret | if the field is not there, the user keeps the key just generated, which is stored nowhere, and the CR says Reconciled |
| `UserStuck` | a user without a secret is deleted and "recreated with a secret" | a retry (after a conflict on the status write) lists secrets before the cache has the one just made, deletes the user, then meets that secret and refuses it for ever, both flags being off; no call has to fail |

A missing bucket (`internal/controller/path/reconcile.go:222`) and a quota that
is no int64 (`internal/controller/bucket/reconcile.go:293`, `313`, `481`) are reported
with the `nil` error of an earlier call, so with status True and without a retry.
The model does the same; it takes one step to see, so no run is spent on it, and
it is why `ReconciledMeansApplied` and its like go by the reason of the condition.

### 3.1 Bounds

`MaxUser` bounds the writes of users, `MaxFaults` the failed or lost writes and
the restarts, `MaxReadFaults` the failed reads of S3, `MaxTampers` the changes by
other clients. Four writes are enough for create, edit, delete, create again, or
for the creation and deletion of two CRs; versions the informer has not seen
pile up to any length they and the worker's writes allow. One fault suffices for
each partial failure or restart, and conflicts are not bounded at all: they
follow from stale copies. Read failures are kept apart from write failures since
`NoOrphanPath` does not survive one (`PathStatFails`). Two paths make a loop that
can be interrupted in the middle. Quotas are 0, 1 and 2, of which `Resync` and
`QuotaOverride` use 2 as the override.

In `Users` and `Instances` the faults include a failed read, a change of a secret
by people and the loss of an instance's secrets. Two user writes are a creation
and an edit or a deletion, or a deletion and a new creation of what the
operator found when it started. `MaxLag` bounds the versions of one secret its
cache has not seen, `MaxVersions` those of a CR: one, which is enough for any
read to be stale, and the next change waits for the watch. All four choices of
flags are in `Users`, but `MCUsers` lets each variation meet only those that make a
difference to it, or one of them: a policy made late and a renamed key field the
read flag alone; an existing secret without a key the read flag, alone or not; a
renamed secret both flags; a CR without policies, and people who edit a field
rather than delete the secret, the override flag alone. `MCInstances` starts with
some of the CRs made but not yet seen by a worker, which saves the user writes that
made them; when all were made nothing fails. The namespaces `x` and `xy` and the
patterns `*x`, `y*` and `*y*` tell prefix, suffix, equality and containment apart.

### 3.2 Fairness

`Fairness` is weak fairness of each CR's worker and of each CR's watch: a worker
that has a key makes its next call and the queue hands out keys
(controller-runtime never stops a worker; a call that hangs has a timeout and is a
fault), and the API server's watch delivers. No fairness is assumed of
users, other clients, faults or restarts, which the bounds stop. Because of
these the liveness properties are of the form "once they stop". `UsersAtWork` adds
the watch of secrets and the garbage collector. `UserConverges` and
`RecreatedWithASecret` also assume `CacheKeepsUp`: from some time on the cache
of secrets is current when a worker reads it. Without it the deletion of a secret,
which wakes up the worker, may be read late every time, and the code would delete
and make user and secret for ever. It is an assumption on the speed of
a watch against that of several S3 calls, not something the code ensures.
`DeletionCompletes` is checked with bucket deletion disabled: enabled it fails
for a bucket that is not empty, or that was never made, by design
(`README.md:40`). What should hold even then, that a CR goes away once its bucket
was deleted, is `ReleasedOnceFinalized`, which `BucketDeletion` finds violated.

## 4. What is proved

Every theorem holds for any set of CRs, specs, names, paths and patterns, finite
or not, for any number of CRs on one bucket, policy or access key unless a
hypothesis says otherwise, and for every bound, flag and reconcile period.

| Module | Theorem | States |
|---|---|---|
| `BucketsAndPathsProofs` | `InductiveInvariant` | `Spec => []IInv` |
| | `TypeCorrect` | `TypeOK`: in particular no quota that is no int64 reaches S3 |
| | `NoWakeupIsLost` | `NoLostWakeup` |
| | `ConditionsGoForward` | `StatusNeverGoesBack` |
| | `ProvisionsWhileHeld` | `ProvisionOnlyWhileHeld` |
| `S3Proofs` | `NoBucketIsOrphaned` | `NoOrphanBucket`, if deletion is enabled, `BucketNamesAreKept` and nobody else writes to S3 |
| | `BucketsAreManaged` | `ImplementsManagedResource`, if `OneBucketEach`, `BucketCRsHaveSpecs` and nobody else writes to S3; with deletion enabled or not |
| | `ManagedBucketsAreNotOrphaned` | `NoOrphan` of the protocol under the same hypotheses |
| | `ReconciledIsApplied` | `ReconciledMeansApplied`, if `OneBucketEach`, `OnePathEach`, `PathCRsListPaths`, `NoOverrides` and nobody else writes to S3 |
| | `NoPathIsOrphaned` | `NoOrphanPath`, if `OneBucketEach`, `OnePathEach`, `PathCRsListPaths`, `PathsAreKept`, both deletions are enabled, nobody else writes to S3 and S3 answers every read |
| | `S3InductiveInvariant` | `S3Inv`, under the hypotheses of `NoPathIsOrphaned` |
| | `PathsAreManaged` | `PathsImplementManagedResource`, under the same and `PathCRsHaveSpecs` |
| `PoliciesProofs` | `InductiveInvariant`, `TypeCorrect`, `NoWakeupIsLost`, `ConditionsGoForward` | as above, for the Policy controller |
| | `ProvisionsWhileHeld` | `PolicyOnlyWhileHeld` |
| | `ReconciledIsApplied` | `PolicyIsAsReconciled`, if `OnePolicyEach`; CRs may be renamed |
| | `NoPolicyIsOrphaned` | `NoOrphanPolicy`, if deletion is enabled and `PolicyNamesAreKept` |
| | `PoliciesInductiveInvariant` | `PoliciesInv`, under the hypotheses of the last two |
| | `PoliciesAreManagedWhileUntouched` | `ManagedWhileUntouched`, if `OnePolicyEach`, `PolicyNamesAreKept` and `PolicyCRsHaveSpecs`; with deletion enabled or not |
| | `PoliciesAreManaged` | `ImplementsManagedResource`, if moreover nobody else writes to S3 |
| | `ManagedPoliciesAreNotOrphaned` | `NoOrphan` of the protocol under the same hypotheses |
| `UsersProofs` | `InductiveInvariant`, `TypeCorrect`, `NoWakeupIsLost`, `ConditionsGoForward` | as above, for the S3User controller, if `KeysNeverRunOut` |
| | `ProvisionsWhileHeld` | `UserOnlyWhileHeld`, if `KeysNeverRunOut` |
| | `NoUserIsOrphaned` | `NoOrphanUser`, if `KeysNeverRunOut`, deletion is enabled and `AccessKeysAreKept` |
| | `UsersAreManaged` | `ImplementsManagedResource`, if `KeysNeverRunOut`, `OneUserEach`, `AccessKeysAreKept` and `UserCRsHaveSpecs`; with deletion enabled or not |
| | `ManagedUsersAreNotOrphaned` | `NoOrphan` of the protocol under the same hypotheses |
| `CredentialsProofs` | `CredentialsInductiveInvariant` | `CredentialsInv`, if `KeysNeverRunOut`, `OneUserEach`, `SecretsAreApart`, `ForeignSecretsFit` and `AccessKeysAreKept` |
| | `ReconciledIsDelivered` | `CredentialsDelivered`, under the same hypotheses, for every choice of the flags and whatever a secret holds; the two cases in which it need not be (`Hidden`, `CannotRead`) are in the property |
| `InstancesProofs` | `InductiveInvariant`, `TypeCorrect`, `NoWakeupIsLost`, `ConditionsGoForward` | as above, for S3Instances and their dependents |
| | `NoHolderIsMissed` | `CountSeesEveryHolder` |
| | `ClosedInstancesAreNotUsed` | `OnlyThroughOpenInstances` |
| `PatternProofs` | `NamespacesAllowedAsDocumented` | `IsAllowedNamespaces` accepts the namespaces the patterns mean, whatever their length |

`LoopProofs` and the lemmas of each module are what they rest on.

### 4.1 Assumptions

The assumptions on the constants are named in the modules that declare them:
`None` is not a CR, a bucket, a policy or a key, specs are of their kind, each CR
is of one kind, quotas are naturals with 0, `NotInt64` is not one, the bounds are
naturals, the flags Booleans. The hypotheses of single theorems are

* the deletion flag of an S3Instance that the property is about: without it
  nothing is deleted, by design;
* `MaxTampers = 0`, that no other client writes to S3 (for policies the property
  itself is about behaviours in which nobody did so yet), and `MaxReadFaults = 0`
  for `NoPathIsOrphaned`, since one failed read breaks it (`PathStatFails`);
* `BucketNamesAreKept`, `PathsAreKept`, `PolicyNamesAreKept`, `AccessKeysAreKept`:
  the CRDs let users edit the name, the paths or the access key in a spec, but the
  controllers know only the current one, so that an object under an old name
  stays. A hazard is listed; the theorems say that this is the only way;
* `OneBucketEach`, `OnePathEach`, `OnePolicyEach`, `OneUserEach`: CRs that ask for different
  quotas or contents of one object overwrite each other, so that only one of
  them can say the truth; and a CR that finds its bucket deleted by another CR
  was not told. `PathCRsListPaths` excludes a Path CR without a path, which is
  reconciled even when there is no bucket;
* `NoOverrides`: no Bucket CR has an override that differs from its default quota,
  since creation applies the default (`QuotaOverride`). The other theorems about
  S3 hold with overrides as well;
* `SecretsAreApart`, `ForeignSecretsFit`: two CRs that want one secret name
  refuse or overwrite each other's secret, and a secret of others with the access key
  of another S3User would be used with just its secret key
  (case 3.2a of `handleCreate`, `internal/controller/user/reconcile.go:801-820`) but
  tested with that access key. Any other value, or none, may be in it. TLC finds `CredentialsDelivered` violated when two
  S3Users share an access key;
* `BucketCRsHaveSpecs`, `PathCRsHaveSpecs`, `PolicyCRsHaveSpecs`,
  `UserCRsHaveSpecs`: for each CR there is some spec a user may write, so that it has
  a resource for the protocol to speak of;
* `KeysNeverRunOut`: there are infinitely many generated keys and finitely many
  users, secrets and names of fields, so that the generator can always give a key
  that is new. The run has eight keys and never needs more.

All of them are satisfied by the instances of the runs, but for the infinite set
of keys.

### 4.2 The loop

`LoopInvariant` states, and `LoopProofs` proves, what all controllers have in
common; the labels at which a controller provisions and deletes are parameters.
The properties are not inductive: a worker acts on the word of a cached copy. The
invariant of a CR, `LoopInv(k)`, has what is missing.

* `VersionsInv`: in the versions the informer has still to learn (`Ordered`), a
  CR being deleted has the finalizer; after a version with the finalizer and
  without deletion mark no later one lacks it, so that the cache cannot hold a
  version that looks ready while the stored CR has lost its finalizer; before a
  version with it come only versions of the same CR, so that the informer knows
  every CR with a finalizer. And what the event filter drops (`Traceable`) is
  only more of the same: same generation, later condition.
* `WorkerInv` ties labels to the store: at a provisioning label the stored CR is
  held and the copy is not being deleted; on the way of deletion it is. A copy
  with the stored resourceVersion is the stored object, and the informer knows
  its generation. So only a worker past its handler removes a finalizer.
* `ConditionInv`: once a generation has its condition, neither the informer nor
  the worker holds an earlier one, hence no write takes a condition back.
* `WakeInv`: a CR is queued, or has an event ahead that the filter lets through,
  or a worker whose copy differs from the stored object in its finalizer and a
  later condition only, or is settled. This is what makes `NoLostWakeup` true
  although status and finalizer writes wake up nobody.

`ReportInv`, used for S3Instances, adds that a stored "Reconciled" has status True.
It does not hold of Path CRs (`internal/controller/path/reconcile.go:222`).

A step of the loop keeps `LoopInv` (`LoopStepKeeps`, `UserStepKeeps`,
`DeliverKeeps`, `CrashKeeps`), by one lemma for each way to store a version
(`StoreKeeps`, `AppendKeeps`); a step of a handler does so if it only moves the
worker along (`ProceedsKeeps`), comes back with an error (`RetryKeeps`) or leaves
the loop alone (`QuietKeeps`). Each controller's proofs classify its actions so
and add their own part to `IInv`. `LoopStepWrites`, `UserStepEdits`, `StageMoves` and
`VersionsGrow` say what a step may do to the stored CR.

### 4.3 What S3 holds

* *Provisioning.* From `IInv`: a step that adds to S3 is one of a worker at a
  provisioning label with the name of its copy, and there the CR is held.
* *No orphans.* `OrphanBucketInv`, `OrphanPolicyInv` and `OrphanUserInv` say that
  what exists has a CR that is held and whose worker is not past the deletion. A
  worker comes past it only by a deletion that succeeded; a CR is let go only by
  such a worker; and what is made anew is made for a CR that is held.
  For paths, `OrphanPathInv` follows `finalizePath` through its loop: a path is
  gone, still to do, or a failure is recorded, and a recorded failure keeps the
  finalizer. A Bucket CR's paths go with the bucket, which must be empty.
* *Reconciled means applied.* `AppliedInv` follows each handler: in the loop over
  the paths a path is there or still to do, before it the quota is set; at the
  end the spec of the *copy* is applied. That the condition is about the stored
  spec is `LoopInv`: the write succeeds only with a current copy. Others keep it
  true because a bucket with objects cannot be deleted and nobody else's specs
  list the path. For policies the comparison of bytes is only trusted when equal.
* *Credentials.* `CredentialsInv` follows an S3User through its handlers. The worker
  chooses a secret from one cache for a CR from another, so what it remembers
  may be outdated at any time; what is invariant is that it is right *when the
  CR is quiet*, neither queued nor about to be woken by the watch of secrets
  (`Quiet`). `SecretsInv` is why: in the versions of a secret the cache has not
  seen, each change of a secret that was there wakes up the CR that asks for it,
  and only a creation does not (`Woken`); but the worker that made a secret
  did so for a user it had just made. Secrets are compared whole, so what their fields
  hold under the names in the CR's spec follows. `MemoryInv` says that the secret the
  worker took is the stored one when quiet, `HandlerInv` what is done of user and
  policies at each label (the policies it has, less those to remove, and those
  to add, are those of its copy), `OutcomeInv` that "Reconciled" is reported of
  what is delivered. A step of another CR changes none of it since users and
  secrets are apart, a deletion by the garbage collector or an edit by people
  only by a version that wakes up the CR, and a status write only succeeds with a
  current copy (`LoopInv`).
* *Refinement.* The life of a CR is `Stage(k)`, of which each step makes at most
  one move, and its resource is made when held, removed when terminating and gone
  when released: every step of `Next` is a step of `ManagedResource` or none. For
  buckets, policies and users the resource is the one its specs name, which no
  other CR names; users are removed for a CR that is held, too. The paths of a
  Path CR are a resource that is there when one of them is: adding one to others
  is a stutter, and so is removing any but the last, which only a worker that
  finalizes the CR does; by `OrphanPathInv` none is left when it is released.
  Bucket CRs neither make these paths (`OnePathEach`) nor remove them, as
  `DeleteBucket` refuses. `NoOrphan` of the protocol is inductive as it stands, so
  that `ManagedBucketsAreNotOrphaned`, `ManagedPoliciesAreNotOrphaned` and
  `ManagedUsersAreNotOrphaned` need nothing of the controllers but the refinement.
* *References.* A CR that holds a finalizer and names the instance is stored with
  the same reference in every version the cache may hold, so that a list made
  from the cache has it. What lookup finds in the cache is an instance whose
  condition is True, and open by the meaning of its patterns, which
  `PatternProofs` reduces `IsAllowedNamespaces` to.

The runs check `IInv` (`BucketAndPath`, `Policies`, `Instances`), `S3Inv`,
`PoliciesInv` and `CredentialsInv` on small instances as well. `IInv` and
`OrphanUserInv` of `UsersAtWork` hold in the instance of `Users` too, where they are
left out for its size.

### 4.4 Model-checked only

* Everything temporal under fairness: `Converges`, `ConvergesAndSaysSo`,
  `DeletionCompletes`, `PolicyConverges`, `PolicyDeletionCompletes`,
  `UserConverges`, `ComesToRest`. It is out of the prover's reach.
* What the hypotheses of 4.1 exclude: another client that changes S3 is in `Resync`
  and `Policies`, and failed reads of S3 are in all passing runs but `BucketAndPath`.
* The six violations.

## 5. What is not modelled, and the plan

Done: the loop and all five controllers, the lookup of an S3Instance, the
compositions above, the abstract protocol, and the theorems of section 4. Next:

* a relist that skips versions, in `Reconciler`: the one hazard of the loop without a
  property. `Ordered` and `Traceable` of `LoopInvariant` are what it would change.

Left out on purpose: which of two CRs with one policy name or one access key gets
what it asks for, which neither code nor docs say; an access key that is edited; a
stranger who makes a secret while the controller deletes one of that name;
S3Users in several namespaces, which share nothing but access keys; and the
composition of all controllers in one run, since what they share is a bucket
(`BucketAndPath`), the existence of policies (`PolicyAppears`) and the S3Instance
(`Instances`).

Not to be modelled: the password generator (a property of a distribution), the
client factory and the scheme registration (no state), flags, logging, metrics, probes,
the deployment manifests and the mocks.
