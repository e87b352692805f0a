---------------------------- MODULE UserController ----------------------------
(***************************************************************************)
(* The handlers of internal/controller/user, one action per call, the S3   *)
(* users they make and the Kubernetes secrets that hold the users' keys.   *)
(* Secrets live in the API server: handlers write the stored ones, read    *)
(* them from a cache of its own delay, and changes of a secret wake up the *)
(* CR that owns it.  A secret holds values under names that the spec of    *)
(* the CR gives and may change.  All CRs and secrets are in one namespace. *)
(***************************************************************************)
EXTENDS Integers, Reconciler

CONSTANTS
    AccessKeys,
    SecretNames,
    DefaultName,           \* DefaultName[k]: the name of k, its default secret
    FieldNames,            \* names under which secrets hold values
    Empty,                 \* the value ""
    PolicyNames,
    Listing,               \* policies that allow s3:ListAllMyBuckets
    Passwords,             \* bound: as many secret keys as exist at once
    Flags,                 \* the choices of --override-existing-secret, --read-...
    Foreign,               \* Foreign[n]: what others may have made of secret n
    S3UserDeletionEnabled, \* of the S3Instance
    MaxLag                 \* bound: changes of a secret its cache has not seen

VARIABLES
    users,    \* users[a]: the S3 user with access key a, or None
    canned,   \* the policies that exist on S3
    secrets,  \* secrets[n]: as versions, for the secret n
    uids,     \* uids[k]: UID of the CR k, or of the next one of that name
    flags,    \* the flags the operator runs with
    work      \* work[k]: what worker k remembers from one call to the next

userVars == <<users, canned, secrets, uids, flags, work>>
vars == <<loopVars, userVars>>

\* A user may be given whatever an existing secret holds as its secret key.
Users == [key : AccessKeys \cup Passwords, policies : SUBSET PolicyNames]

Owners == [cr : Keys, uid : Nat]

Values == AccessKeys \cup Passwords \cup {Empty}

Data == [FieldNames -> Values \cup {None}]  \* None: no field of that name

Secrets == [owner : Owners \cup {None}, data : Data]

UserSpecs == {s \in [access      : AccessKeys,
                     secret      : SecretNames \cup {None}, \* None: secretName is empty
                     policies    : SUBSET PolicyNames,
                     accessField : FieldNames,        \* secretFieldNameAccessKey
                     keyField    : FieldNames] :      \* secretFieldNameSecretKey
                s.accessField # s.keyField}

Memories ==
         [secret : Secrets \cup {None},   \* currentUserSecret
          owned  : BOOLEAN,               \* ownedSecret
          delete : SUBSET SecretNames,    \* secrets the loop has still to delete
          remove : SUBSET PolicyNames,    \* policyToDelete
          add    : SUBSET PolicyNames,    \* policyToAdd
          key    : Passwords \cup {None}] \* secretKey of the secret to write

NoWork == [secret |-> None, owned |-> FALSE, delete |-> {}, remove |-> {},
           add |-> {}, key |-> None]

ASSUME UserSpecsAssumption == \A k \in Keys : Specs[k] \subseteq UserSpecs

ASSUME DefaultNameAssumption == DefaultName \in [Keys -> SecretNames]

ASSUME UserConstants ==
    /\ Flags \subseteq [override : BOOLEAN, read : BOOLEAN]
    /\ Foreign \in [SecretNames -> SUBSET {s \in Secrets : s.owner = None}]
    /\ S3UserDeletionEnabled \in BOOLEAN
    /\ MaxLag \in Nat
    /\ None \notin Users \cup Secrets \cup [cr : Keys, uid : Int]
    /\ None \notin Values \cup SecretNames
    /\ Empty \notin AccessKeys \cup Passwords
    /\ AccessKeys \cap Passwords = {}

UserLabels == {"DeleteUnused", "GetPolicies", "RemovePolicies", "AddPolicies",
               "CheckCredentials", "DeleteSecret", "DropUser", "Create",
               "CreateSecret", "UpdateSecret", "AttachPolicies", "DeleteOwned"}

Labels == LoopLabels \cup UserLabels

UserTypeOK ==
    /\ LoopTypeOK(Labels)
    /\ users \in [AccessKeys -> Users \cup {None}]
    /\ canned \subseteq PolicyNames
    /\ secrets \in [SecretNames -> Seq(Secrets \cup {None}) \ {<<>>}]
    /\ uids \in [Keys -> Nat]
    /\ flags \in Flags
    /\ work \in [Keys -> Memories]

UserInit ==
    /\ LoopInit
    /\ users = [a \in AccessKeys |-> None]
    /\ canned \in SUBSET PolicyNames
    /\ \E made \in [SecretNames -> UNION {Foreign[n] : n \in SecretNames} \cup {None}] :
         /\ \A n \in SecretNames : made[n] \in Foreign[n] \cup {None}
         /\ secrets = [n \in SecretNames |-> <<made[n]>>]
    /\ uids = [k \in Keys |-> 0]
    /\ flags \in Flags
    /\ work = [k \in Keys |-> NoWork]

-----------------------------------------------------------------------------
(* Secrets *)

StoredSecret(n) == secrets[n][Len(secrets[n])]
CachedSecret(n) == secrets[n][1]

StoreSecret(n, s) ==
    /\ Len(secrets[n]) <= MaxLag
    /\ secrets' = [secrets EXCEPT ![n] = Append(@, s)]

\* CRs and secrets are not made with UIDs that were used before.
IsDead(owner) == owner.uid # uids[owner.cr]

\* When a step removes a CR, the next one of that name has another UID.
UidsFollow ==
    uids' = [k \in Keys |-> IF Stored(k) # None /\ Stored(k)' = None
                            THEN uids[k] + 1 ELSE uids[k]]

\* The CRs a change of a secret wakes up: Owns, and the event filter, which
\* ignores the creation of secrets.
OwnersIn(s) == IF s = None \/ s.owner = None THEN {} ELSE {s.owner.cr}

WokenByNoDeletion(old, new) == \* mutant: only updates are let through
    IF old = None \/ new = None THEN {} ELSE OwnersIn(old) \cup OwnersIn(new)

Woken(old, new) == IF old = None THEN {} ELSE OwnersIn(old) \cup OwnersIn(new)

DeliverSecret(n) ==
    /\ Len(secrets[n]) > 1
    /\ secrets' = [secrets EXCEPT ![n] = Tail(@)]
    /\ queue' = queue \cup Woken(secrets[n][1], secrets[n][2])
    /\ UNCHANGED <<versions, pc, res, cur, out, budget,
                   users, canned, uids, flags, work>>

-----------------------------------------------------------------------------
(* Calls *)

Wanted(k) == res[k].spec
S3User(k) == users[Wanted(k).access]

\* The copy of a worker outlives its CR only on the way of deletion.
Uid(k) == IF res[k].del /\ ~(Stored(k) # None /\ Stored(k).del)
          THEN uids[k] - 1 ELSE uids[k]

Self(k) == [cr |-> k, uid |-> Uid(k)]

\* cmp.Or(userResource.Spec.SecretName, userResource.Name)
SecretName(k) == IF Wanted(k).secret = None THEN DefaultName[k] ELSE Wanted(k).secret

\* What a secret holds as the access key and as the secret key of spec.
AccessIn(s, spec) == s.data[spec.accessField]
KeyIn(s, spec) == s.data[spec.keyField]

InUse ==
    LET seen == {work[k].secret : k \in Keys}
                  \cup UNION {{secrets[n][i] : i \in DOMAIN secrets[n]} : n \in SecretNames}
    IN  {u.key : u \in {users[a] : a \in AccessKeys} \ {None}}
          \cup {s.data[f] : s \in seen \ {None}, f \in FieldNames}
          \cup {work[k].key : k \in Keys}

\* PasswordGenerator.Generate: no secret key is generated twice.
NewKey == CHOOSE p \in Passwords \ InUse : TRUE

\* Worker k is at label and does not change its CR in the API server.
At(k, label) ==
    pc[k] = label /\ UNCHANGED <<versions, queue, res, cur, canned, uids, flags>>

Continue(k, label, w) == Goto(k, label) /\ work' = [work EXCEPT ![k] = w]

\* return r.SetReconciledCondition(..., reason, ..., err)
Finish(k, reason, err) ==
    Conclude(k, reason, err) /\ work' = [work EXCEPT ![k] = NoWork]

Reads == UNCHANGED <<users, secrets, budget>>

\* S3, or the S3 client, is not to be had.
ReadFails == Fault /\ UNCHANGED <<users, secrets>>

SetUser(k, u) ==
    users' = [users EXCEPT ![Wanted(k).access] = u] /\ UNCHANGED secrets

SetSecret(n, s) == StoreSecret(n, s) /\ UNCHANGED users

CallWorks(possible, effect) == possible /\ effect /\ UNCHANGED budget

\* The call is refused, or it fails before or after its effect.
CallFails(possible, effect) ==
    \/ ~possible /\ Reads
    \/ ReadFails
    \/ Fault /\ possible /\ effect

\* The steps of a handler are calls after which it goes on to a label, or
\* says that S3 or the API server is unreachable.
Call(k, possible, effect, label, memory) ==
    \/ CallWorks(possible, effect) /\ Continue(k, label, memory)
    \/ CallFails(possible, effect) /\ Finish(k, "Unreachable", TRUE)

-----------------------------------------------------------------------------
(* handleReconciliation *)

\* getUserLinkedSecrets: in the cached secrets of the namespace, those the CR
\* owns, and another one with the configured name or else the default name.
Owned(k) ==
    {n \in SecretNames : CachedSecret(n) # None /\ CachedSecret(n).owner = Self(k)}

Unlinked(k) ==
    {n \in {Wanted(k).secret, DefaultName[k]} \ (Owned(k) \cup {None}) :
        CachedSecret(n) # None}

UnlinkedName(k) ==
    IF Wanted(k).secret \in Unlinked(k) THEN Wanted(k).secret ELSE DefaultName[k]

\* The beginning of handleUpdate, after its call to get the S3 client.
SelectSecret(k) ==
    LET name   == SecretName(k)
        unused == Owned(k) \ {name}
        found  == IF name \in Owned(k) THEN CachedSecret(name) ELSE None
    IN  IF Unlinked(k) # {}
        THEN Continue(k, "GetPolicies",
                      [NoWork EXCEPT !.secret = CachedSecret(UnlinkedName(k))])
        ELSE Continue(k, CASE unused # {} -> "DeleteUnused"
                           [] unused = {} /\ found # None -> "GetPolicies"
                           [] unused = {} /\ found = None -> "DropUser",
                      [NoWork EXCEPT !.secret = found, !.owned = TRUE,
                                     !.delete = unused])

\* UserExist
HandleUser(k) ==
    /\ At(k, "Handle")
    /\ \/ /\ Reads
          /\ IF S3User(k) = None THEN Continue(k, "Create", NoWork) ELSE SelectSecret(k)
       \/ ReadFails /\ Finish(k, "Unreachable", TRUE)

\* Delete of a secret that is gone is an error; nothing but the name is sent.
DeleteSecretNamed(k, n, label, memory) ==
    Call(k, StoredSecret(n) # None, SetSecret(n, None), label, memory)

DeleteUnused(k) ==
    /\ At(k, "DeleteUnused")
    /\ \E n \in work[k].delete :
         LET left == work[k].delete \ {n}
         IN  DeleteSecretNamed(k, n,
               CASE left # {} -> "DeleteUnused"
                 [] left = {} /\ work[k].secret # None -> "GetPolicies"
                 [] left = {} /\ work[k].secret = None -> "DropUser",
               [work[k] EXCEPT !.delete = left])

\* Unlike UserExist, GetUserPolicies fails on a user that is gone.
GetPolicies(k) ==
    /\ At(k, "GetPolicies")
    /\ \/ /\ Reads
          /\ S3User(k) # None
          /\ LET remove == S3User(k).policies \ Wanted(k).policies
                 add    == Wanted(k).policies \ S3User(k).policies
             IN  Continue(k, CASE remove # {} -> "RemovePolicies"
                               [] remove = {} /\ add # {} -> "AddPolicies"
                               [] remove = {} /\ add = {} -> "CheckCredentials",
                          [work[k] EXCEPT !.remove = remove, !.add = add])
       \/ /\ (Reads /\ S3User(k) = None) \/ ReadFails
          /\ Finish(k, "Unreachable", TRUE)

\* DetachPolicy; "no net effect" is no error.
RemovePolicies(k) ==
    /\ At(k, "RemovePolicies")
    /\ Call(k, S3User(k) # None,
            SetUser(k, [S3User(k) EXCEPT !.policies = @ \ work[k].remove]),
            IF work[k].add # {} THEN "AddPolicies" ELSE "CheckCredentials",
            [work[k] EXCEPT !.remove = {}])

Attachable(k, ps) == S3User(k) # None /\ ps \subseteq canned

Attach(k, ps) == SetUser(k, [S3User(k) EXCEPT !.policies = @ \cup ps])

\* AttachPolicy refuses a policy that does not exist.
AddPolicies(k) ==
    /\ At(k, "AddPolicies")
    /\ Call(k, Attachable(k, work[k].add), Attach(k, work[k].add),
            "CheckCredentials", [work[k] EXCEPT !.add = {}])

\* CheckUserCredentialsValid lists buckets with the credentials in the secret: the
\* wrong ones are invalid, those that may not list are an error, and so is a value
\* that is missing or empty, with which the client signs nothing.
Given(access, key) == {access, key} \cap {None, Empty} = {}

Opens(access, key) ==
    access \in AccessKeys /\ users[access] # None /\ users[access].key = key

MayList(access) == users[access].policies \cap Listing # {}

CheckCredentials(k) ==
    LET access == AccessIn(work[k].secret, Wanted(k))
        key    == KeyIn(work[k].secret, Wanted(k))
        valid  == Given(access, key) /\ Opens(access, key)
    IN  /\ At(k, "CheckCredentials")
        /\ \/ Reads /\ valid /\ MayList(access) /\ Finish(k, "Reconciled", FALSE)
           \/ Reads /\ valid /\ ~MayList(access) /\ Finish(k, "Unreachable", TRUE)
           \/ Reads /\ ~Given(access, key) /\ Finish(k, "Unreachable", TRUE)
           \/ /\ Reads
              /\ Given(access, key) /\ ~Opens(access, key)
              /\ Continue(k, IF work[k].owned THEN "DeleteSecret" ELSE "DropUser", NoWork)
           \/ ReadFails /\ Finish(k, "Unreachable", TRUE)

DeleteSecret(k) ==
    /\ At(k, "DeleteSecret")
    /\ DeleteSecretNamed(k, SecretName(k), "DropUser", NoWork)

\* DeleteUser is content with a user that is gone.
DropUser(k) ==
    /\ At(k, "DropUser")
    /\ Call(k, TRUE, SetUser(k, None), "Create", NoWork)

-----------------------------------------------------------------------------
(* handleCreate *)

PutUserWithEarlierKey(k, key) == \* mutant: the key in the worker's memory
    SetUser(k, [key |-> work[k].key, policies |-> {}])

\* AddUser makes the user or gives it another key; it keeps its policies.
PutUser(k, key) ==
    SetUser(k, [key      |-> key,
                policies |-> IF S3User(k) = None THEN {} ELSE S3User(k).policies])

Existing(k) == CachedSecret(SecretName(k))

\* Of another S3User, dead or alive.
AnotherOwns(k) == Existing(k) # None /\ Existing(k).owner \notin {None, Self(k)}

\* No secret of that name: first the user, then the secret.
CreateWithNewKey(k) ==
    /\ Existing(k) = None
    /\ Call(k, TRUE, PutUser(k, NewKey), "CreateSecret", [NoWork EXCEPT !.key = NewKey])

\* With the read flag the user gets the key the secret holds under the name the CR
\* has for it, and the generated one when there is no such field.
KeyToGive(k) ==
    IF flags.read /\ KeyIn(Existing(k), Wanted(k)) # None
    THEN KeyIn(Existing(k), Wanted(k)) ELSE NewKey

\* Case 3.2: with the override flag the secret is written, with the generated key
\* whatever the user got.  AddUser refuses an empty key.
CreateOnExisting(k) ==
    /\ Existing(k) # None /\ ~AnotherOwns(k)
    /\ flags.override \/ flags.read
    /\ Call(k, KeyToGive(k) # Empty, PutUser(k, KeyToGive(k)),
            IF flags.override THEN "UpdateSecret" ELSE "AttachPolicies",
            [NoWork EXCEPT !.key = IF flags.override THEN NewKey ELSE None])

\* Cases 3.1 and 3.3.
Refuse(k) ==
    /\ Existing(k) # None
    /\ AnotherOwns(k) \/ ~(flags.override \/ flags.read)
    /\ Reads /\ Finish(k, "CreationFailure", TRUE)

Create(k) ==
    /\ At(k, "Create")
    /\ \/ CreateWithNewKey(k) \/ CreateOnExisting(k) \/ Refuse(k)
       \/ ReadFails /\ Finish(k, "Unreachable", TRUE)

NewData(k) == [f \in FieldNames |-> CASE f = Wanted(k).accessField -> Wanted(k).access
                                     [] f = Wanted(k).keyField    -> work[k].key
                                     [] OTHER                     -> None]

NewSecret(k) == [owner |-> Self(k), data |-> NewData(k)]

CreateSecret(k) ==
    /\ At(k, "CreateSecret")
    /\ Call(k, StoredSecret(SecretName(k)) = None, SetSecret(SecretName(k), NewSecret(k)),
            "AttachPolicies", NoWork)

\* An update without resourceVersion: whatever is stored is overwritten.
UpdateSecret(k) ==
    /\ At(k, "UpdateSecret")
    /\ Call(k, StoredSecret(SecretName(k)) # None, SetSecret(SecretName(k), NewSecret(k)),
            "AttachPolicies", NoWork)

\* addPoliciesToUser calls nothing if the CR has no policies.
AttachPolicies(k) ==
    LET ps == Wanted(k).policies
        possible == ps = {} \/ Attachable(k, ps)
        effect == IF ps = {} THEN UNCHANGED <<users, secrets>> ELSE Attach(k, ps)
    IN  /\ At(k, "AttachPolicies")
        /\ \/ CallWorks(possible, effect) /\ Finish(k, "Reconciled", FALSE)
           \/ CallFails(possible, effect) /\ Finish(k, "Unreachable", TRUE)

-----------------------------------------------------------------------------
(* handleDeletion *)

AfterUser(k) ==
    IF Owned(k) = {} THEN Continue(k, "RemoveFinalizer", NoWork)
    ELSE Continue(k, "DeleteOwned", [NoWork EXCEPT !.delete = Owned(k)])

FinalizeUserAnyway(k) == \* mutant: a failed DeleteUser is only logged
    LET effect == SetUser(k, None)
    IN  /\ At(k, "Finalize")
        /\ CallWorks(TRUE, effect) \/ CallFails(TRUE, effect)
        /\ AfterUser(k)

\* finalizeS3User, then the list of the secrets to delete.
FinalizeUser(k) ==
    LET effect == IF S3UserDeletionEnabled THEN SetUser(k, None)
                                           ELSE UNCHANGED <<users, secrets>>
    IN  /\ At(k, "Finalize")
        /\ \/ CallWorks(TRUE, effect) /\ AfterUser(k)
           \/ CallFails(TRUE, effect) /\ Finish(k, "DeletionFailure", TRUE)

DeleteOwned(k) ==
    /\ At(k, "DeleteOwned")
    /\ \E n \in work[k].delete :
         LET left == work[k].delete \ {n}
             possible == StoredSecret(n) # None
         IN  \/ /\ CallWorks(possible, SetSecret(n, None))
                /\ IF left = {} THEN Continue(k, "RemoveFinalizer", NoWork)
                   ELSE Continue(k, "DeleteOwned", [NoWork EXCEPT !.delete = left])
             \/ /\ CallFails(possible, SetSecret(n, None))
                /\ Finish(k, "DeletionFailure", TRUE)

S3UserStep(k) ==
    \/ HandleUser(k)
    \/ DeleteUnused(k) \/ GetPolicies(k) \/ RemovePolicies(k) \/ AddPolicies(k)
    \/ CheckCredentials(k) \/ DeleteSecret(k) \/ DropUser(k)
    \/ Create(k) \/ CreateSecret(k) \/ UpdateSecret(k) \/ AttachPolicies(k)
    \/ FinalizeUser(k) \/ DeleteOwned(k)

-----------------------------------------------------------------------------
(* Others *)

\* The garbage collector removes a secret whose owner is gone.
Collect(n) ==
    /\ StoredSecret(n) # None
    /\ StoredSecret(n).owner # None
    /\ IsDead(StoredSecret(n).owner)
    /\ StoreSecret(n, None)
    /\ UNCHANGED <<loopVars, users, canned, uids, flags, work>>

\* Somebody changes, empties or removes a field of a secret that a CR owns, or deletes
\* the secret; one fault more.
Tampered(s) ==
    {[s EXCEPT !.data[f] = v] : f \in FieldNames, v \in {NewKey, Empty, None}}

Tamper(n) ==
    /\ Fault
    /\ OwnersIn(StoredSecret(n)) # {}
    /\ \E s \in Tampered(StoredSecret(n)) \cup {None} : StoreSecret(n, s)
    /\ UNCHANGED <<versions, queue, pc, res, cur, out,
                   users, canned, uids, flags, work>>

\* A policy is made, by a Policy CR or otherwise.
PolicyAppears(p) ==
    /\ p \notin canned
    /\ canned' = canned \cup {p}
    /\ UNCHANGED <<loopVars, users, secrets, uids, flags, work>>

Restart ==
    /\ Crash
    /\ secrets' = [n \in SecretNames |-> <<StoredSecret(n)>>]
    /\ work' = [k \in Keys |-> NoWork]
    /\ UNCHANGED <<users, canned, uids, flags>>

=============================================================================
