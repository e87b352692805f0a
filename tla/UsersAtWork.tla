----------------------------- MODULE UsersAtWork -----------------------------
(***************************************************************************)
(* The S3User controller at work: its CRs, one worker per CR, the watches  *)
(* of CRs and secrets, the garbage collector, and the people who write     *)
(* CRs, secrets and policies.                                              *)
(***************************************************************************)
EXTENDS UserController, LoopInvariant

WorkerStep(k) ==
    \/ S3UserStep(k)
    \/ LoopStep(k) /\ UidsFollow /\ UNCHANGED <<users, canned, secrets, flags, work>>

DeliverUser(k) == Deliver(k) /\ UNCHANGED userVars

EditUser(k) ==
    UserStep(k) /\ UidsFollow /\ UNCHANGED <<users, canned, secrets, flags, work>>

Next ==
    \/ \E k \in Keys : WorkerStep(k) \/ DeliverUser(k) \/ EditUser(k)
    \/ \E n \in SecretNames : DeliverSecret(n) \/ Collect(n) \/ Tamper(n)
    \/ \E p \in PolicyNames : PolicyAppears(p)
    \/ Restart

Spec == UserInit /\ [][Next]_vars

\* The workers, the two watches and the garbage collector keep running.
Fairness ==
    /\ \A k \in Keys : WF_vars(WorkerStep(k)) /\ WF_vars(DeliverUser(k))
    /\ \A n \in SecretNames : WF_vars(DeliverSecret(n)) /\ WF_vars(Collect(n))

FairSpec == Spec /\ Fairness

-----------------------------------------------------------------------------
(* Properties *)

\* The secret that spec, of the CR k, asks for.
SecretOf(k, spec) ==
    StoredSecret(IF spec.secret = None THEN DefaultName[k] ELSE spec.secret)

\* It opens the S3 user spec asks for, with its policies, by the values under the
\* names that spec has for them.
Delivers(k, spec) ==
    LET s == SecretOf(k, spec)
        u == users[spec.access]
    IN  /\ s # None
        /\ u # None
        /\ AccessIn(s, spec) = spec.access
        /\ KeyIn(s, spec) = u.key
        /\ u.policies = spec.policies

Delivered(k) == Delivers(k, Stored(k).spec)

\* A change of a secret that is still to be delivered wakes up k.
WillBeWoken(k) ==
    \E n \in SecretNames : \E i \in 1..(Len(secrets[n]) - 1) :
        k \in Woken(secrets[n][i], secrets[n][i + 1])

\* Some secret others made has the default name of k, though spec gives another.
Hides(k, spec) ==
    /\ spec.secret \notin {None, DefaultName[k]}
    /\ LET s == StoredSecret(DefaultName[k])
       IN  s # None /\ s.owner # [cr |-> k, uid |-> uids[k]]

Hidden(k) == Hides(k, Stored(k).spec)

\* The operator reads existing secrets and overrides none, and the one spec asks for
\* has no secret key, or not the access key, under the names of spec.
CannotRead(k, spec) ==
    /\ flags.read /\ ~flags.override
    /\ LET s == SecretOf(k, spec)
       IN  s # None /\ (AccessIn(s, spec) # spec.access \/ KeyIn(s, spec) = None)

\* When an S3User CR says "Reconciled" of its current generation and nothing is
\* going to wake up its worker, its secret opens its S3 user and that user has
\* just its policies: whatever was read from two stale caches, whoever owns the
\* secret, under whatever names it holds the credentials, and whatever failed
\* between the user, its secret and its policies.
CredentialsDelivered ==
    \A k \in Keys :
        (ReconciledNow(k) /\ ~Pending(k) /\ ~WillBeWoken(k))
          => Delivered(k) \/ Hidden(k) \/ CannotRead(k, Stored(k).spec)

\* deploy/charts/s3-operator/README.md:28, of the read flag: "When creating an S3User,
\* read existing secret to retrieve the secret key".  So an S3User that was created on
\* an existing secret, and says "Reconciled" with nothing to come, has its key from it.
KeyIsRetrieved ==
    \A k \in Keys :
        (ReconciledNow(k) /\ ~Pending(k) /\ ~WillBeWoken(k)) => Delivered(k) \/ Hidden(k)

\* With s3UserDeletionEnabled, an S3 user does not outlive the CR it was made
\* for, whatever fails between DeleteUser and the finalizer removal.
NoOrphanUser ==
    \A a \in AccessKeys :
        users[a] # None => \E k \in Keys : Held(k) /\ Stored(k).spec.access = a

\* The operator makes an S3 user or changes its key or policies only for a CR
\* that is stored with the finalizer at that moment, so that handleDeletion will
\* remove it: AddFinalizer comes first, and with the optimistic lock.
UserOnlyWhileHeld ==
    [][\A a \in AccessKeys :
         (users'[a] # users[a] /\ users'[a] # None)
           => \E k \in Keys : pc[k] # "Idle" /\ Wanted(k).access = a /\ Held(k)]_vars

\* The CR k and its S3 user, seen as a ManagedResource (one access key per CR).
AccessOf(k) == (CHOOSE s \in Specs[k] : TRUE).access

Protocol == INSTANCE ManagedResource
              WITH DeletionEnabled <- S3UserDeletionEnabled,
                   Recreates       <- TRUE,
                   stage   <- [k \in Keys |-> Stage(k)],
                   present <- [k \in Keys |-> users[AccessOf(k)] # None]

\* The S3User controller implements that protocol for each of its CRs, though it
\* deletes users whose credentials it cannot find, and makes them again.
ImplementsManagedResource == Protocol!Spec

Default == [override |-> FALSE, read |-> FALSE]

\* The stored secret has no value, or an empty one, under a name its CR has for the
\* credentials: they cannot be tried, and neither secret nor user is made again.
Lacks(k) ==
    LET spec == Stored(k).spec
        s    == SecretOf(k, spec)
    IN  s # None /\ ~Given(AccessIn(s, spec), KeyIn(s, spec))

\* The S3User asks for what it cannot be given: a policy that does not exist, policies
\* that do not let it list buckets, which is how credentials are tried, or a secret
\* that is not read as its own.
Unusable(k) ==
    \/ ~(Stored(k).spec.policies \subseteq canned)
    \/ Stored(k).spec.policies \cap Listing = {}
    \/ Hidden(k)
    \/ CannotRead(k, Stored(k).spec)
    \/ Lacks(k)

\* From some time on, workers read secrets from a cache that is up to date: its
\* watch is faster than the calls to S3.
CacheKeepsUp ==
    <>[](\A k \in Keys : pc[k] \in {"Handle", "Create"}
           => \A n \in SecretNames : Len(secrets[n]) = 1)

\* An S3User that is deleted goes away with its user and secrets.  With either of
\* the flags for existing secrets, or both, every other one that can be given what it
\* asks for comes to have its credentials and keeps them, without a reconcile period,
\* though others edit and delete its secret: changes of an owned secret wake up its CR.
UserConverges ==
    CacheKeepsUp =>
        \A k \in Keys :
            <>[](\/ Stored(k) = None
                 \/ /\ ~Stored(k).del
                    /\ flags = Default \/ Unusable(k) \/ Delivered(k))

\* user/reconcile.go:291, on a user without a secret: it "will be deleted from
\* the S3 backend, then recreated with a secret".
RecreatedWithASecret ==
    CacheKeepsUp => \A k \in Keys : <>[](Terminating(k) \/ Unusable(k) \/ Delivered(k))

-----------------------------------------------------------------------------
(* The inductive invariants behind these properties *)

ProvisionLabels == {"Handle"} \cup (UserLabels \ {"DeleteOwned"})

\* finalizeS3User came to its end.
UserGoneLabels == {"DeleteOwned", "RemoveFinalizer"}

DeletingLabels == {"Finalize"} \cup UserGoneLabels

\* A key is at hand where a secret is about to be written.
KeyInv ==
    \A k \in Keys : pc[k] \in {"CreateSecret", "UpdateSecret"} => work[k].key # None

IInv ==
    /\ LoopIInv(Labels, ProvisionLabels, DeletingLabels)
    /\ UserTypeOK
    /\ KeyInv

\* No user changes the access key of a CR, or makes another CR of that name with
\* another access key.
AccessKeysAreKept == \A k \in Keys : \A s, t \in Specs[k] : s.access = t.access

\* An S3 user has a CR that is not past the deletion of its user.
OrphanUserInv ==
    \A a \in AccessKeys :
        users[a] # None => \E k \in Keys : /\ Held(k) /\ Stored(k).spec.access = a
                                           /\ pc[k] \notin UserGoneLabels

-----------------------------------------------------------------------------
(* The inductive invariant behind CredentialsDelivered *)

\* The names under which k may ask for its secret.
NamesOf(k) == ({DefaultName[k]} \cup {s.secret : s \in Specs[k]}) \ {None}

\* What a secret holds as the access key of spec is no other S3User's.
IsOf(s, spec) == AccessIn(s, spec) \in AccessKeys => AccessIn(s, spec) = spec.access

\* CRs do not share S3 users or secrets, and what others made of a secret a CR asks
\* for does not hold the access key of another.
OneUserEach ==
    \A k, l \in Keys : \A s \in Specs[k], t \in Specs[l] : s.access = t.access => k = l

SecretsAreApart == \A k, l \in Keys : k # l => NamesOf(k) \cap NamesOf(l) = {}

ForeignSecretsFit ==
    \A k \in Keys : \A n \in NamesOf(k) :
        \A f \in Foreign[n], s \in Specs[k] : IsOf(f, s)

\* What a secret of the name n may be.
SecretFits(n, s) ==
    s # None => /\ s.owner # None => n \in NamesOf(s.owner.cr)
                /\ \A k \in Keys : n \in NamesOf(k) =>
                     \A t \in Specs[k] : IsOf(s, t)

\* The operator makes no secret without owner, and every change of a secret that
\* is there wakes up the CR that asks for it.
SecretsInv ==
    \A n \in SecretNames : \A i \in 1..Len(secrets[n]) :
        /\ SecretFits(n, secrets[n][i])
        /\ i > 1 => secrets[n][i] = None \/ secrets[n][i].owner # None
        /\ i > 1 /\ secrets[n][i - 1] # None =>
             \A k \in Keys : n \in NamesOf(k) =>
               k \in Woken(secrets[n][i - 1], secrets[n][i])

\* No secret of that name is anything but owned.
OnceOwned(n) == StoredSecret(n) = None \/ StoredSecret(n).owner # None

\* Neither the queue nor the watch of the secrets is about to start the worker of k.
Quiet(k) == k \notin queue /\ ~WillBeWoken(k)

UpdateLabels == {"GetPolicies", "RemovePolicies", "AddPolicies", "CheckCredentials"}

\* The secret a worker took from the cache is the stored one, unless a change of it
\* will wake up the worker again; it deletes owned secrets only.
MemoryInv(k) ==
    /\ \A n \in work[k].delete : OnceOwned(n)
    /\ pc[k] \in UpdateLabels => work[k].secret # None
    /\ pc[k] \in UpdateLabels \cup {"DeleteUnused"} /\ work[k].secret # None =>
         /\ IsOf(work[k].secret, Wanted(k))
         /\ work[k].owned => OnceOwned(SecretName(k))
         /\ Quiet(k) => work[k].secret = StoredSecret(SecretName(k)) \/ Hides(k, Wanted(k))
    /\ pc[k] = "DeleteSecret" => OnceOwned(SecretName(k))

\* What a handler has done so far of the S3 user and its policies.
HandlerInv(k) ==
    /\ pc[k] \in UpdateLabels \ {"GetPolicies"} =>
         /\ S3User(k) # None
         /\ (S3User(k).policies \ work[k].remove) \cup work[k].add = Wanted(k).policies
    /\ pc[k] \in {"AddPolicies", "CheckCredentials"} => work[k].remove = {}
    /\ pc[k] = "CheckCredentials" => work[k].add = {}
    /\ pc[k] = "Create" => S3User(k) = None
    /\ pc[k] = "CreateSecret" => S3User(k) = [key |-> work[k].key, policies |-> {}]
    /\ pc[k] \in {"UpdateSecret", "AttachPolicies"} =>
         S3User(k) # None /\ S3User(k).policies = {}
    /\ pc[k] = "AttachPolicies" /\ Quiet(k) =>
         \/ CannotRead(k, Wanted(k))
         \/ LET s == StoredSecret(SecretName(k))
            IN  /\ s # None
                /\ AccessIn(s, Wanted(k)) = Wanted(k).access
                /\ KeyIn(s, Wanted(k)) = S3User(k).key

\* A worker reports "Reconciled" of what is delivered, and everything else as an error.
OutcomeInv(k) ==
    pc[k] = "SetStatus" =>
        \/ out[k].err
        \/ /\ out[k].reason = "Reconciled"
           /\ Held(k)
           /\ Quiet(k) => \/ Delivers(k, Wanted(k))
                          \/ Hides(k, Wanted(k))
                          \/ CannotRead(k, Wanted(k))

CredentialsInv ==
    /\ SecretsInv
    /\ \A k \in Keys : MemoryInv(k) /\ HandlerInv(k) /\ OutcomeInv(k)
    /\ CredentialsDelivered

=============================================================================
