------------------------------ MODULE UsersProofs ------------------------------
(***************************************************************************)
(* Proofs about UsersAtWork, for any set of S3User CRs, access keys,       *)
(* secrets, policies, flags and bounds: its IInv is inductive, S3 users    *)
(* are written only for CRs that are held, none outlives its CRs, and the  *)
(* S3User controller implements ManagedResource.                           *)
(***************************************************************************)
EXTENDS UsersAtWork, LoopProofs, FiniteSetTheorems

-----------------------------------------------------------------------------
(* New secret keys *)

\* The generator never runs out of secret keys.
KeysNeverRunOut ==
    /\ ~IsFiniteSet(Passwords)
    /\ IsFiniteSet(AccessKeys) /\ IsFiniteSet(Keys)
    /\ IsFiniteSet(SecretNames) /\ IsFiniteSet(FieldNames)

\* The images of a finite set are finitely many.
LEMMA Images ==
    ASSUME NEW S, IsFiniteSet(S), NEW f, f = [x \in S |-> f[x]]
    PROVE  IsFiniteSet({f[x] : x \in S})
<1> DEFINE images == {f[x] : x \in S}
<1>1. f \in [S -> images]
  OBVIOUS
<1>2. \A y \in images : \E x \in S : f[x] = y
  OBVIOUS
<1> HIDE DEF images
<1>3. f \in Surjection(S, images)
  BY <1>1, <1>2 DEF Surjection
<1>4. IsFiniteSet(images)
  BY <1>3, FS_Surjection
<1> QED
  BY <1>4 DEF images

\* As many are in use as there are users, fields of secrets and workers.
LEMMA NewKeyIsNew ==
    ASSUME KeysNeverRunOut, UserTypeOK
    PROVE  NewKey \in Passwords
<1> DEFINE stored == {users[a] : a \in AccessKeys}
           remembered == {work[k].secret : k \in Keys}
           seen(n) == {secrets[n][i] : i \in DOMAIN secrets[n]}
           families == {seen(n) : n \in SecretNames}
           held == (remembered \cup UNION families) \ {None}
           given == {u.key : u \in stored \ {None}}
           kept == {s.data[f] : s \in held, f \in FieldNames}
           pending == {work[k].key : k \in Keys}
<1>0. /\ IsFiniteSet(AccessKeys) /\ IsFiniteSet(Keys)
      /\ IsFiniteSet(SecretNames) /\ IsFiniteSet(FieldNames)
  BY DEF KeysNeverRunOut
<1>1. IsFiniteSet(given)
  <2> DEFINE U == stored \ {None}  f == [u \in U |-> u.key]
  <2>1. users = [a \in AccessKeys |-> users[a]]
    BY DEF UserTypeOK
  <2>2. IsFiniteSet(stored)
    BY <1>0, <2>1, Images
  <2> HIDE DEF stored
  <2>3. IsFiniteSet(U)
    BY <2>2, FS_Difference
  <2>4. given = {f[u] : u \in U}
    OBVIOUS
  <2> HIDE DEF U
  <2>5. f = [u \in U |-> f[u]]
    OBVIOUS
  <2> HIDE DEF f, given
  <2> QED
    BY <2>3, <2>4, <2>5, Images
<1>2. IsFiniteSet(remembered) /\ IsFiniteSet(pending)
  <2> DEFINE f == [k \in Keys |-> work[k].secret]  g == [k \in Keys |-> work[k].key]
  <2>1. remembered = {f[k] : k \in Keys} /\ pending = {g[k] : k \in Keys}
    OBVIOUS
  <2>2. f = [k \in Keys |-> f[k]] /\ g = [k \in Keys |-> g[k]]
    OBVIOUS
  <2> HIDE DEF f, g
  <2>3. IsFiniteSet({f[k] : k \in Keys}) /\ IsFiniteSet({g[k] : k \in Keys})
    BY <1>0, <2>2, Images
  <2> QED
    BY <2>1, <2>3
<1>3. ASSUME NEW n \in SecretNames PROVE IsFiniteSet(seen(n))
  <2> DEFINE s == secrets[n]
  <2>1. s \in Seq(Secrets \cup {None})
    BY DEF UserTypeOK
  <2>2. DOMAIN s = 1..Len(s) /\ Len(s) \in Nat
    BY <2>1
  <2>3. IsFiniteSet(DOMAIN s)
    BY <2>2, FS_Interval
  <2>4. s = [i \in DOMAIN s |-> s[i]]
    BY <2>1
  <2> HIDE DEF s
  <2>5. IsFiniteSet({s[i] : i \in DOMAIN s})
    BY <2>3, <2>4, Images
  <2> QED
    BY <2>5 DEF s
<1>4. IsFiniteSet(families) /\ \A S \in families : IsFiniteSet(S)
  <2> DEFINE f == [n \in SecretNames |-> seen(n)]
  <2>1. families = {f[n] : n \in SecretNames}
    OBVIOUS
  <2>2. f = [n \in SecretNames |-> f[n]]
    OBVIOUS
  <2> HIDE DEF f
  <2>3. IsFiniteSet({f[n] : n \in SecretNames})
    BY <1>0, <2>2, Images
  <2>4. \A S \in families : IsFiniteSet(S)
    BY <1>3
  <2> QED
    BY <2>1, <2>3, <2>4
<1>5. IsFiniteSet(UNION families)
  <2> HIDE DEF families
  <2> QED
    BY <1>4, FS_UNION
<1>6. IsFiniteSet(held)
  <2> HIDE DEF remembered, families
  <2>1. IsFiniteSet(remembered \cup UNION families)
    BY <1>2, <1>5, FS_Union
  <2> QED
    BY <2>1, FS_Difference
<1>7. IsFiniteSet(kept)
  <2> HIDE DEF held
  <2> DEFINE P == held \X FieldNames  g == [x \in P |-> x[1].data[x[2]]]
  <2>1. IsFiniteSet(P)
    BY <1>0, <1>6, FS_Product
  <2>2. kept = {g[x] : x \in P}
    <3>1. \A s \in held, f \in FieldNames : <<s, f>> \in P /\ g[<<s, f>>] = s.data[f]
      OBVIOUS
    <3>2. \A x \in P : x[1] \in held /\ x[2] \in FieldNames /\ g[x] = x[1].data[x[2]]
      OBVIOUS
    <3> HIDE DEF P, g
    <3>3. ASSUME NEW v \in kept PROVE \E x \in P : v = g[x]
      <4>1. PICK s \in held, f \in FieldNames : v = s.data[f]
        BY <3>3
      <4>2. <<s, f>> \in P /\ v = g[<<s, f>>]
        BY <3>1, <4>1
      <4> QED
        BY <4>2
    <3>4. ASSUME NEW x \in P PROVE g[x] \in kept
      BY <3>2, <3>4
    <3> HIDE DEF kept
    <3> QED
      BY <3>3, <3>4, Zenon
  <2> HIDE DEF P
  <2>3. g = [x \in P |-> g[x]]
    OBVIOUS
  <2> HIDE DEF g, kept
  <2> QED
    BY <2>1, <2>2, <2>3, Images
<1>8. InUse = given \cup kept \cup pending
  BY DEF InUse
<1> HIDE DEF given, kept, pending
<1>9. IsFiniteSet(InUse)
  <2>1. IsFiniteSet(given \cup kept)
    BY <1>1, <1>7, FS_Union
  <2> QED
    BY <1>2, <1>8, <2>1, FS_Union
<1>10. Passwords \ InUse # {}
  <2>1. ASSUME Passwords \subseteq InUse PROVE FALSE
    BY <1>9, <2>1, FS_Subset DEF KeysNeverRunOut
  <2> QED
    BY <2>1
<1> QED
  BY <1>10 DEF NewKey

-----------------------------------------------------------------------------
(* The handlers *)

\* The labels are what the lemmas about the loop ask for.
LEMMA LabelsOfTheLoop == LabelSets(Labels, ProvisionLabels, DeletingLabels)
  BY DEF LabelSets, ProvisionLabels, DeletingLabels, UserGoneLabels, UserLabels, Labels,
         LoopLabels

\* The copy a worker holds.
LEMMA HandlerData ==
    ASSUME IInv, NEW k \in Keys, pc[k] # "Idle"
    PROVE  Wanted(k) \in Specs[k] /\ Wanted(k) \in UserSpecs
<1>1. Wanted(k) \in Specs[k]
  BY StoredFacts DEF IInv, Wanted
<1> QED
  BY <1>1, UserSpecsAssumption

\* The users after another one of Wanted(k).access.
LEMMA Replaced ==
    ASSUME IInv, NEW k \in Keys, pc[k] # "Idle", NEW u,
           users' = [users EXCEPT ![Wanted(k).access] = u]
    PROVE  /\ users'[Wanted(k).access] = u
           /\ \A a \in AccessKeys \ {Wanted(k).access} : users'[a] = users[a]
           /\ users' = [a \in AccessKeys |-> users'[a]]
<1> DEFINE b == Wanted(k).access
<1>1. b \in AccessKeys
  BY HandlerData DEF UserSpecs
<1>2. users = [a \in AccessKeys |-> users[a]]
  BY DEF IInv, UserTypeOK
<1> HIDE DEF b
<1>3. users' = [a \in AccessKeys |-> IF a = b THEN u ELSE users[a]]
  BY <1>1, <1>2 DEF b
<1> QED
  BY <1>1, <1>3 DEF b

\* What a handler may do to the S3 users: nothing, write the one its copy names on
\* its way to provision, or remove it.
Change(k) ==
    \/ UNCHANGED users
    \/ /\ pc[k] \notin UserGoneLabels
       /\ \E u : /\ users' = [users EXCEPT ![Wanted(k).access] = u]
                 /\ u = None \/ pc[k] \in ProvisionLabels

\* Where it gets past the deletion of its user, that user is gone.
Claims(k) ==
    (S3UserDeletionEnabled /\ pc[k] \notin UserGoneLabels /\ pc'[k] \in UserGoneLabels)
      => users'[Wanted(k).access] = None

\* A step of a handler.
Handles(k) ==
    /\ pc[k] \in ProvisionLabels \cup DeletingLabels
    /\ UNCHANGED <<versions, queue, res, cur, canned, uids, flags>>
    /\ budget' \in Budgets
    /\ Proceeds(k, ProvisionLabels, DeletingLabels)
    /\ Change(k) /\ Claims(k)

LEMMA BudgetsStay ==
    ASSUME IInv, Fault \/ UNCHANGED budget
    PROVE  budget' \in Budgets
  BY FaultKeepsBudgets DEF IInv

\* A call, with what it does to the S3 users.
LEMMA CallsChange ==
    ASSUME IInv, NEW k \in Keys, pc[k] \notin UserGoneLabels, NEW u,
           u = None \/ pc[k] \in ProvisionLabels, NEW possible,
           \/ CallWorks(possible, SetUser(k, u))
           \/ CallFails(possible, SetUser(k, u))
    PROVE  Change(k) /\ budget' \in Budgets
  BY BudgetsStay DEF CallWorks, CallFails, SetUser, Reads, ReadFails, Change

LEMMA SecretCallsChange ==
    ASSUME IInv, NEW k \in Keys, NEW n, NEW s, NEW possible,
           \/ CallWorks(possible, SetSecret(n, s))
           \/ CallFails(possible, SetSecret(n, s))
    PROVE  UNCHANGED users /\ budget' \in Budgets
  BY BudgetsStay DEF CallWorks, CallFails, SetSecret, Reads, ReadFails

LEMMA ReadsChange ==
    ASSUME IInv, Reads \/ ReadFails
    PROVE  UNCHANGED users /\ budget' \in Budgets
  BY BudgetsStay DEF Reads, ReadFails

\* What handleReconciliation leads to.
Ends(k) ==
    \/ \E label \in ProvisionLabels : Goto(k, label)
    \/ Conclude(k, "Reconciled", FALSE)
    \/ \E reason \in {"Unreachable", "CreationFailure"} : Conclude(k, reason, TRUE)

LEMMA EndsHandles ==
    ASSUME IInv, NEW k \in Keys, NEW label \in ProvisionLabels, At(k, label),
           budget' \in Budgets, Change(k), Ends(k)
    PROVE  Handles(k)
<1>1. pc[k] \in ProvisionLabels
      /\ UNCHANGED <<versions, queue, res, cur, canned, uids, flags>>
  BY DEF At
<1>2. Proceeds(k, ProvisionLabels, DeletingLabels)
  BY <1>1 DEF Proceeds, Ends, Reasons
<1>3. pc'[k] \notin UserGoneLabels
  <2>1. pc \in [Keys -> Labels]
    BY DEF IInv, LoopIInv, LoopTypeOK
  <2>2. \A l : Goto(k, l) => pc'[k] = l
    BY <2>1 DEF Goto
  <2>3. \A reason, err : Conclude(k, reason, err) => pc'[k] = "SetStatus"
    BY <2>1 DEF Conclude
  <2> QED
    BY <2>2, <2>3 DEF Ends, ProvisionLabels, UserLabels, UserGoneLabels
<1> QED
  BY <1>1, <1>2, <1>3 DEF Handles, Claims

\* The calls that leave the S3 users alone.
LEMMA SecretStepsHandle ==
    ASSUME IInv, NEW k \in Keys,
           \/ HandleUser(k) \/ DeleteUnused(k) \/ GetPolicies(k) \/ CheckCredentials(k)
           \/ DeleteSecret(k) \/ CreateSecret(k) \/ UpdateSecret(k)
    PROVE  Handles(k)
<1>1. PICK label \in ProvisionLabels : At(k, label)
  BY DEF HandleUser, DeleteUnused, GetPolicies, CheckCredentials, DeleteSecret,
         CreateSecret, UpdateSecret, ProvisionLabels, UserLabels
<1>2. Ends(k)
  <2>1. CASE HandleUser(k)
    BY <2>1 DEF HandleUser, SelectSecret, Continue, Finish, Ends, ProvisionLabels, UserLabels
  <2>2. CASE DeleteUnused(k)
    BY <2>2 DEF DeleteUnused, DeleteSecretNamed, Call, Continue, Finish, Ends,
                ProvisionLabels, UserLabels
  <2>3. CASE GetPolicies(k)
    BY <2>3 DEF GetPolicies, Continue, Finish, Ends, ProvisionLabels, UserLabels
  <2>4. CASE CheckCredentials(k)
    BY <2>4 DEF CheckCredentials, Continue, Finish, Ends, ProvisionLabels, UserLabels
  <2>5. CASE DeleteSecret(k)
    BY <2>5 DEF DeleteSecret, DeleteSecretNamed, Call, Continue, Finish, Ends,
                ProvisionLabels, UserLabels
  <2>6. CASE CreateSecret(k) \/ UpdateSecret(k)
    BY <2>6 DEF CreateSecret, UpdateSecret, Call, Continue, Finish, Ends,
                ProvisionLabels, UserLabels
  <2> QED
    BY <2>1, <2>2, <2>3, <2>4, <2>5, <2>6
<1>3. UNCHANGED users /\ budget' \in Budgets
  <2>1. CASE HandleUser(k) \/ GetPolicies(k) \/ CheckCredentials(k)
    BY <2>1, ReadsChange DEF HandleUser, GetPolicies, CheckCredentials
  <2>2. CASE DeleteUnused(k) \/ DeleteSecret(k)
    BY <2>2, SecretCallsChange DEF DeleteUnused, DeleteSecret, DeleteSecretNamed, Call
  <2>3. CASE CreateSecret(k) \/ UpdateSecret(k)
    BY <2>3, SecretCallsChange DEF CreateSecret, UpdateSecret, Call
  <2> QED
    BY <2>1, <2>2, <2>3
<1> QED
  BY <1>1, <1>2, <1>3, EndsHandles DEF Change

\* The calls that write or remove one.
LEMMA UserStepsHandle ==
    ASSUME IInv, NEW k \in Keys,
           \/ RemovePolicies(k) \/ AddPolicies(k) \/ DropUser(k) \/ Create(k)
           \/ AttachPolicies(k)
    PROVE  Handles(k)
<1>1. PICK label \in ProvisionLabels : At(k, label)
  BY DEF RemovePolicies, AddPolicies, DropUser, Create, AttachPolicies, ProvisionLabels,
         UserLabels
<1>2. pc[k] \in ProvisionLabels /\ pc[k] \notin UserGoneLabels
  BY <1>1 DEF At, ProvisionLabels, UserLabels, UserGoneLabels
<1>3. Ends(k)
  <2>1. CASE RemovePolicies(k)
    BY <2>1 DEF RemovePolicies, Call, Continue, Finish, Ends, ProvisionLabels, UserLabels
  <2>2. CASE AddPolicies(k) \/ DropUser(k)
    BY <2>2 DEF AddPolicies, DropUser, Call, Continue, Finish, Ends, ProvisionLabels,
                UserLabels
  <2>3. CASE Create(k)
    BY <2>3 DEF Create, CreateWithNewKey, CreateOnExisting, Refuse, Call, Continue, Finish,
                Ends, ProvisionLabels, UserLabels
  <2>4. CASE AttachPolicies(k)
    BY <2>4 DEF AttachPolicies, Finish, Ends
  <2> QED
    BY <2>1, <2>2, <2>3, <2>4
<1>4. Change(k) /\ budget' \in Budgets
  <2>1. CASE RemovePolicies(k)
    BY <1>2, <2>1, CallsChange DEF RemovePolicies, Call
  <2>2. CASE AddPolicies(k)
    BY <1>2, <2>2, CallsChange DEF AddPolicies, Call, Attach
  <2>3. CASE DropUser(k)
    BY <1>2, <2>3, CallsChange DEF DropUser, Call
  <2>4. CASE Create(k)
    BY <1>2, <2>4, CallsChange, ReadsChange
    DEF Create, CreateWithNewKey, CreateOnExisting, Refuse, Call, PutUser, Change
  <2>5. CASE AttachPolicies(k)
    <3>1. CASE Wanted(k).policies = {}
      BY <2>5, <3>1, BudgetsStay
      DEF AttachPolicies, CallWorks, CallFails, Reads, ReadFails, Change
    <3>2. CASE Wanted(k).policies # {}
      BY <1>2, <2>5, <3>2, CallsChange DEF AttachPolicies, Attach
    <3> QED
      BY <3>1, <3>2
  <2> QED
    BY <2>1, <2>2, <2>3, <2>4, <2>5
<1> QED
  BY <1>1, <1>3, <1>4, EndsHandles

\* handleDeletion.
LEMMA DeletionHandles ==
    ASSUME IInv, NEW k \in Keys, FinalizeUser(k) \/ DeleteOwned(k)
    PROVE  Handles(k)
<1>1. /\ pc[k] \in DeletingLabels /\ pc[k] # "Idle"
      /\ UNCHANGED <<versions, queue, res, cur, canned, uids, flags>>
  BY DEF FinalizeUser, DeleteOwned, At, DeletingLabels, UserGoneLabels
<1>2. \/ \E label \in UserGoneLabels : Goto(k, label)
      \/ Conclude(k, "DeletionFailure", TRUE)
  BY DEF FinalizeUser, DeleteOwned, AfterUser, Continue, Finish, UserGoneLabels
<1>3. Proceeds(k, ProvisionLabels, DeletingLabels)
  BY <1>1, <1>2 DEF Proceeds, Reasons, DeletingLabels
<1>4. CASE FinalizeUser(k)
  <2>1. pc[k] \notin UserGoneLabels
    BY <1>4 DEF FinalizeUser, At, UserGoneLabels
  <2>2. CASE S3UserDeletionEnabled
    <3>1. Change(k) /\ budget' \in Budgets
      BY <1>4, <2>1, <2>2, CallsChange DEF FinalizeUser
    <3>2. ASSUME pc'[k] \in UserGoneLabels PROVE users'[Wanted(k).access] = None
      <4>1. pc \in [Keys -> Labels]
        BY DEF IInv, LoopIInv, LoopTypeOK
      <4>2. ~Conclude(k, "DeletionFailure", TRUE)
        BY <3>2, <4>1 DEF Conclude, UserGoneLabels
      <4>3. SetUser(k, None)
        BY <1>4, <2>2, <4>2 DEF FinalizeUser, CallWorks, Finish
      <4> QED
        BY <1>1, <4>3, Replaced DEF SetUser
    <3> QED
      BY <1>1, <1>3, <3>1, <3>2 DEF Handles, Claims
  <2>3. CASE ~S3UserDeletionEnabled
    <3>1. Change(k) /\ budget' \in Budgets
      BY <1>4, <2>3, BudgetsStay
      DEF FinalizeUser, CallWorks, CallFails, Reads, ReadFails, Change
    <3> QED
      BY <1>1, <1>3, <2>3, <3>1 DEF Handles, Claims
  <2> QED
    BY <2>2, <2>3
<1>5. CASE DeleteOwned(k)
  <2>1. pc[k] \in UserGoneLabels
    BY <1>5 DEF DeleteOwned, At, UserGoneLabels
  <2>2. UNCHANGED users /\ budget' \in Budgets
    BY <1>5, SecretCallsChange DEF DeleteOwned
  <2> QED
    BY <1>1, <1>3, <2>1, <2>2 DEF Handles, Change, Claims
<1> QED
  BY <1>4, <1>5

LEMMA S3UserStepHandles ==
    ASSUME IInv, NEW k \in Keys, S3UserStep(k)
    PROVE  Handles(k)
  BY SecretStepsHandle, UserStepsHandle, DeletionHandles DEF S3UserStep

-----------------------------------------------------------------------------
(* Types *)

\* What a handler finds.
LEMMA Typed ==
    ASSUME IInv
    PROVE  /\ users \in [AccessKeys -> Users \cup {None}]
           /\ secrets \in [SecretNames -> Seq(Secrets \cup {None}) \ {<<>>}]
           /\ work \in [Keys -> Memories]
           /\ uids \in [Keys -> Nat]
           /\ pc \in [Keys -> Labels]
           /\ \A n \in SecretNames : /\ CachedSecret(n) \in Secrets \cup {None}
                                     /\ StoredSecret(n) \in Secrets \cup {None}
<1>1. /\ users \in [AccessKeys -> Users \cup {None}]
      /\ secrets \in [SecretNames -> Seq(Secrets \cup {None}) \ {<<>>}]
      /\ work \in [Keys -> Memories]
      /\ uids \in [Keys -> Nat]
      /\ pc \in [Keys -> Labels]
  BY DEF IInv, UserTypeOK, LoopTypeOK
<1>2. ASSUME NEW n \in SecretNames
      PROVE  secrets[n][1] \in Secrets \cup {None}
             /\ secrets[n][Len(secrets[n])] \in Secrets \cup {None}
  <2> DEFINE s == secrets[n]
  <2>1. s \in Seq(Secrets \cup {None}) /\ s # <<>>
    BY <1>1
  <2> HIDE DEF s
  <2>2. Len(s) \in Nat \ {0}
    BY <2>1
  <2>3. s[1] \in Secrets \cup {None} /\ s[Len(s)] \in Secrets \cup {None}
    BY <2>1, <2>2
  <2> QED
    BY <2>3 DEF s
<1> QED
  BY <1>1, <1>2 DEF CachedSecret, StoredSecret

\* What its copy asks for.
LEMMA Asked ==
    ASSUME IInv, NEW k \in Keys, pc[k] # "Idle"
    PROVE  /\ Wanted(k).access \in AccessKeys
           /\ Wanted(k).policies \subseteq PolicyNames
           /\ S3User(k) \in Users \cup {None}
           /\ SecretName(k) \in SecretNames
           /\ Wanted(k).accessField \in FieldNames /\ Wanted(k).keyField \in FieldNames
<1>1. Wanted(k) \in UserSpecs
  BY HandlerData
<1>2. /\ Wanted(k).access \in AccessKeys
      /\ Wanted(k).policies \subseteq PolicyNames
      /\ Wanted(k).secret \in SecretNames \cup {None}
      /\ Wanted(k).accessField \in FieldNames /\ Wanted(k).keyField \in FieldNames
  BY <1>1 DEF UserSpecs
<1> QED
  BY <1>2, Typed, DefaultNameAssumption DEF S3User, SecretName

\* What it may remember.
LEMMA MemoryFields ==
    ASSUME NEW m \in Memories
    PROVE  /\ m.secret \in Secrets \cup {None} /\ m.delete \subseteq SecretNames
           /\ m.remove \subseteq PolicyNames /\ m.add \subseteq PolicyNames
           /\ m.key \in Passwords \cup {None}
           /\ \A d \in SUBSET SecretNames : [m EXCEPT !.delete = d] \in Memories
           /\ \A p, q \in SUBSET PolicyNames :
                [m EXCEPT !.remove = p, !.add = q] \in Memories
           /\ \A p \in SUBSET PolicyNames : /\ [m EXCEPT !.remove = p] \in Memories
                                            /\ [m EXCEPT !.add = p] \in Memories
           /\ \A s \in Secrets \cup {None} : [m EXCEPT !.secret = s] \in Memories
           /\ \A p \in Passwords \cup {None} : [m EXCEPT !.key = p] \in Memories
           /\ \A s \in Secrets \cup {None}, d \in SUBSET SecretNames :
                [m EXCEPT !.secret = s, !.owned = TRUE, !.delete = d] \in Memories
  BY DEF Memories

LEMMA NoWorkIsMemory == NoWork \in Memories
  BY DEF NoWork, Memories

\* The memories after a step, with a key where a secret is about to be written.
Remembered(k) ==
    /\ work' \in [Keys -> Memories]
    /\ \A j \in Keys \ {k} : work'[j] = work[j]
    /\ pc'[k] \in {"CreateSecret", "UpdateSecret"} => work'[k].key # None

LEMMA ContinueRemembers ==
    ASSUME IInv, NEW k \in Keys, NEW label, NEW m \in Memories, Continue(k, label, m),
           label \in {"CreateSecret", "UpdateSecret"} => m.key # None
    PROVE  Remembered(k)
<1>1. pc'[k] = label /\ work' = [work EXCEPT ![k] = m]
  BY Typed DEF Continue, Goto
<1> QED
  BY <1>1, Typed DEF Remembered

LEMMA FinishRemembers ==
    ASSUME IInv, NEW k \in Keys, NEW reason, NEW err, Finish(k, reason, err)
    PROVE  Remembered(k)
<1>1. pc'[k] = "SetStatus" /\ work' = [work EXCEPT ![k] = NoWork]
  BY Typed DEF Finish, Conclude
<1> QED
  BY <1>1, Typed, NoWorkIsMemory DEF Remembered

LEMMA CallRemembers ==
    ASSUME IInv, NEW k \in Keys, NEW possible, NEW effect, NEW label, NEW m \in Memories,
           label \in {"CreateSecret", "UpdateSecret"} => m.key # None,
           Call(k, possible, effect, label, m)
    PROVE  Remembered(k)
<1>1. Continue(k, label, m) \/ Finish(k, "Unreachable", TRUE)
  BY DEF Call
<1> QED
  BY <1>1, ContinueRemembers, FinishRemembers

\* S3 users and secrets after a step.
DataTyped ==
    /\ users' \in [AccessKeys -> Users \cup {None}]
    /\ secrets' \in [SecretNames -> Seq(Secrets \cup {None}) \ {<<>>}]

LEMMA UserCallTyped ==
    ASSUME IInv, NEW k \in Keys, NEW u, NEW possible, possible => u \in Users \cup {None},
           \/ CallWorks(possible, SetUser(k, u))
           \/ CallFails(possible, SetUser(k, u))
    PROVE  DataTyped
<1>1. \/ UNCHANGED <<users, secrets>>
      \/ /\ u \in Users \cup {None}
         /\ users' = [users EXCEPT ![Wanted(k).access] = u] /\ UNCHANGED secrets
  BY DEF CallWorks, CallFails, SetUser, Reads, ReadFails
<1> QED
  BY <1>1, Typed DEF DataTyped

LEMMA StoreSecretTyped ==
    ASSUME IInv, NEW n \in SecretNames, NEW s \in Secrets \cup {None}, StoreSecret(n, s)
    PROVE  secrets' \in [SecretNames -> Seq(Secrets \cup {None}) \ {<<>>}]
<1> DEFINE S == Secrets \cup {None}  old == secrets[n]
<1>1. secrets \in [SecretNames -> Seq(S) \ {<<>>}]
  BY Typed
<1>2. old \in Seq(S) \ {<<>>} /\ s \in S
  BY <1>1
<1>3. secrets' = [secrets EXCEPT ![n] = Append(old, s)]
  BY DEF StoreSecret
<1> HIDE DEF S, old
<1>4. Append(old, s) \in Seq(S) \ {<<>>}
  BY <1>2, Appended
<1>5. secrets' \in [SecretNames -> Seq(S) \ {<<>>}]
  BY <1>1, <1>3, <1>4
<1> QED
  BY <1>5 DEF S

LEMMA SecretCallTyped ==
    ASSUME IInv, NEW n \in SecretNames, NEW s, NEW possible,
           possible => s \in Secrets \cup {None},
           \/ CallWorks(possible, SetSecret(n, s))
           \/ CallFails(possible, SetSecret(n, s))
    PROVE  DataTyped
<1>1. CASE UNCHANGED <<users, secrets>>
  BY <1>1, Typed DEF DataTyped
<1>2. CASE possible /\ StoreSecret(n, s) /\ UNCHANGED users
  BY <1>2, StoreSecretTyped, Typed DEF DataTyped
<1> QED
  BY <1>1, <1>2 DEF CallWorks, CallFails, SetSecret, Reads, ReadFails

LEMMA ReadTyped ==
    ASSUME IInv, Reads \/ ReadFails
    PROVE  DataTyped
  BY Typed DEF Reads, ReadFails, DataTyped

\* The secret a worker writes.
LEMMA NewSecretTyped ==
    ASSUME IInv, NEW k \in Keys, pc[k] \in {"CreateSecret", "UpdateSecret"}
    PROVE  NewSecret(k) \in Secrets
<1>1. pc[k] # "Idle" /\ pc[k] \in ProvisionLabels
  BY DEF ProvisionLabels, UserLabels
<1>2. Uid(k) = uids[k]
  BY <1>1 DEF Uid, IInv, LoopIInv, LoopInv, WorkerInv
<1>3. Self(k) \in Owners
  BY <1>2, Typed DEF Self, Owners
<1>4. work[k].key \in Passwords
  <2>1. work[k] \in Memories
    BY Typed
  <2>2. work[k].key # None
    BY DEF IInv, KeyInv
  <2> QED
    BY <2>1, <2>2, MemoryFields
<1>5. NewData(k) \in Data
  BY <1>1, <1>4, Asked DEF NewData, Data, Values
<1> QED
  BY <1>3, <1>5 DEF NewSecret, Secrets

\* What a worker remembers of the secrets to delete.
LEMMA FewerSecrets ==
    ASSUME IInv, NEW k \in Keys
    PROVE  /\ work[k] \in Memories
           /\ work[k].delete \subseteq SecretNames
           /\ Owned(k) \subseteq SecretNames
           /\ \A n : [work[k] EXCEPT !.delete = work[k].delete \ {n}] \in Memories
<1>1. work[k] \in Memories
  BY Typed
<1>2. work[k].delete \subseteq SecretNames
  BY <1>1, MemoryFields
<1>3. \A n : work[k].delete \ {n} \in SUBSET SecretNames
  BY <1>2
<1> QED
  BY <1>1, <1>2, <1>3, MemoryFields DEF Owned

\* getUserLinkedSecrets, then the beginning of handleUpdate.
LEMMA SelectSecretRemembers ==
    ASSUME IInv, NEW k \in Keys, pc[k] # "Idle", SelectSecret(k)
    PROVE  Remembered(k)
<1> DEFINE name == SecretName(k)
           unused == Owned(k) \ {name}
           found == IF name \in Owned(k) THEN CachedSecret(name) ELSE None
<1>1. Owned(k) \subseteq SecretNames
  BY FewerSecrets
<1>2. unused \in SUBSET SecretNames /\ found \in Secrets \cup {None}
  BY <1>1, Typed
<1>3. CASE Unlinked(k) # {}
  <2>1. UnlinkedName(k) \in SecretNames
    <3>1. Wanted(k).secret \in SecretNames \cup {None}
      BY HandlerData DEF UserSpecs
    <3> QED
      BY <3>1, DefaultNameAssumption DEF UnlinkedName, Unlinked
  <2>2. [NoWork EXCEPT !.secret = CachedSecret(UnlinkedName(k))] \in Memories
    BY <2>1, Typed, NoWorkIsMemory, MemoryFields
  <2>3. Continue(k, "GetPolicies",
                 [NoWork EXCEPT !.secret = CachedSecret(UnlinkedName(k))])
    BY <1>3 DEF SelectSecret
  <2> QED
    BY <2>2, <2>3, ContinueRemembers
<1>4. CASE Unlinked(k) = {}
  <2> DEFINE m == [NoWork EXCEPT !.secret = found, !.owned = TRUE, !.delete = unused]
             label == CASE unused # {} -> "DeleteUnused"
                        [] unused = {} /\ found # None -> "GetPolicies"
                        [] unused = {} /\ found = None -> "DropUser"
  <2>1. m \in Memories
    BY <1>2, NoWorkIsMemory, MemoryFields
  <2>2. Continue(k, label, m)
    BY <1>4 DEF SelectSecret
  <2>3. label \notin {"CreateSecret", "UpdateSecret"}
    <3> HIDE DEF unused, found
    <3> QED
      OBVIOUS
  <2> HIDE DEF m, label
  <2> QED
    BY <2>1, <2>2, <2>3, ContinueRemembers
<1> QED
  BY <1>3, <1>4

\* What a handler leaves behind is typed.
LeavesTyped(k) == Remembered(k) /\ DataTyped

LEMMA SecretStepsTyped ==
    ASSUME IInv, NEW k \in Keys,
           \/ HandleUser(k) \/ DeleteUnused(k) \/ DeleteSecret(k)
           \/ CreateSecret(k) \/ UpdateSecret(k) \/ DeleteOwned(k)
    PROVE  LeavesTyped(k)
<1>1. pc[k] # "Idle"
  BY DEF HandleUser, DeleteUnused, DeleteSecret, CreateSecret, UpdateSecret, DeleteOwned, At
<1>2. SecretName(k) \in SecretNames
  BY <1>1, Asked
<1>3. CASE HandleUser(k)
  <2>1. Remembered(k)
    BY <1>1, <1>3, SelectSecretRemembers, ContinueRemembers, FinishRemembers, NoWorkIsMemory
    DEF HandleUser
  <2> QED
    BY <1>3, <2>1, ReadTyped DEF HandleUser, LeavesTyped
<1>4. CASE DeleteUnused(k)
  <2>1. PICK n \in work[k].delete :
          LET left == work[k].delete \ {n}
          IN  DeleteSecretNamed(k, n,
                CASE left # {} -> "DeleteUnused"
                  [] left = {} /\ work[k].secret # None -> "GetPolicies"
                  [] left = {} /\ work[k].secret = None -> "DropUser",
                [work[k] EXCEPT !.delete = left])
    BY <1>4 DEF DeleteUnused
  <2> DEFINE left == work[k].delete \ {n}
             label == CASE left # {} -> "DeleteUnused"
                        [] left = {} /\ work[k].secret # None -> "GetPolicies"
                        [] left = {} /\ work[k].secret = None -> "DropUser"
             m == [work[k] EXCEPT !.delete = left]
  <2>2. label \notin {"CreateSecret", "UpdateSecret"}
    <3> HIDE DEF left
    <3> QED
      OBVIOUS
  <2>3. m \in Memories /\ n \in SecretNames
    BY FewerSecrets
  <2>4. Call(k, StoredSecret(n) # None, SetSecret(n, None), label, m)
    BY <2>1 DEF DeleteSecretNamed
  <2> HIDE DEF label, m
  <2>5. Remembered(k)
    BY <2>2, <2>3, <2>4, CallRemembers
  <2>6. DataTyped
    BY <2>3, <2>4, SecretCallTyped DEF Call
  <2> QED
    BY <2>5, <2>6 DEF LeavesTyped
<1>5. CASE DeleteSecret(k)
  <2>1. Call(k, StoredSecret(SecretName(k)) # None, SetSecret(SecretName(k), None),
             "DropUser", NoWork)
    BY <1>5 DEF DeleteSecret, DeleteSecretNamed
  <2>2. Remembered(k)
    BY <2>1, CallRemembers, NoWorkIsMemory
  <2>3. DataTyped
    BY <1>2, <2>1, SecretCallTyped DEF Call
  <2> QED
    BY <2>2, <2>3 DEF LeavesTyped
<1>6. CASE CreateSecret(k) \/ UpdateSecret(k)
  <2>1. NewSecret(k) \in Secrets
    BY <1>6, NewSecretTyped DEF CreateSecret, UpdateSecret, At
  <2>2. PICK possible \in BOOLEAN :
          Call(k, possible, SetSecret(SecretName(k), NewSecret(k)), "AttachPolicies", NoWork)
    BY <1>6 DEF CreateSecret, UpdateSecret
  <2>3. Remembered(k)
    BY <2>2, CallRemembers, NoWorkIsMemory
  <2>4. DataTyped
    BY <1>2, <2>1, <2>2, SecretCallTyped DEF Call
  <2> QED
    BY <2>3, <2>4 DEF LeavesTyped
<1>7. CASE DeleteOwned(k)
  <2>1. PICK n \in work[k].delete :
          LET left == work[k].delete \ {n}
              possible == StoredSecret(n) # None
          IN  \/ /\ CallWorks(possible, SetSecret(n, None))
                 /\ IF left = {} THEN Continue(k, "RemoveFinalizer", NoWork)
                    ELSE Continue(k, "DeleteOwned", [NoWork EXCEPT !.delete = left])
              \/ /\ CallFails(possible, SetSecret(n, None))
                 /\ Finish(k, "DeletionFailure", TRUE)
    BY <1>7 DEF DeleteOwned
  <2> DEFINE left == work[k].delete \ {n}
             m == [NoWork EXCEPT !.delete = left]
  <2>2. m \in Memories /\ n \in SecretNames
    BY FewerSecrets, NoWorkIsMemory, MemoryFields
  <2>3. \/ Continue(k, "RemoveFinalizer", NoWork) \/ Continue(k, "DeleteOwned", m)
        \/ Finish(k, "DeletionFailure", TRUE)
    BY <2>1
  <2> HIDE DEF m
  <2>4. Remembered(k)
    BY <2>2, <2>3, NoWorkIsMemory, ContinueRemembers, FinishRemembers
  <2>5. DataTyped
    BY <2>1, <2>2, SecretCallTyped
  <2> QED
    BY <2>4, <2>5 DEF LeavesTyped
<1> QED
  BY <1>3, <1>4, <1>5, <1>6, <1>7

\* A user is well-formed with a part of the policies, or with others.
LEMMA UserFields ==
    ASSUME NEW u \in Users, NEW p \in SUBSET PolicyNames
    PROVE  /\ u.policies \subseteq PolicyNames
           /\ [u EXCEPT !.policies = u.policies \ p] \in Users
           /\ [u EXCEPT !.policies = u.policies \cup p] \in Users
  BY DEF Users

LEMMA PolicyStepsTyped ==
    ASSUME IInv, NEW k \in Keys,
           GetPolicies(k) \/ CheckCredentials(k) \/ RemovePolicies(k) \/ AddPolicies(k)
    PROVE  LeavesTyped(k)
<1>1. pc[k] # "Idle"
  BY DEF GetPolicies, CheckCredentials, RemovePolicies, AddPolicies, At
<1>2. /\ work[k] \in Memories /\ work[k].remove \in SUBSET PolicyNames
      /\ work[k].add \in SUBSET PolicyNames
  BY Typed, MemoryFields
<1>3. S3User(k) # None => S3User(k) \in Users
  BY <1>1, Asked
<1>4. CASE GetPolicies(k)
  <2> DEFINE remove == S3User(k).policies \ Wanted(k).policies
             add == Wanted(k).policies \ S3User(k).policies
             label == CASE remove # {} -> "RemovePolicies"
                        [] remove = {} /\ add # {} -> "AddPolicies"
                        [] remove = {} /\ add = {} -> "CheckCredentials"
             m == [work[k] EXCEPT !.remove = remove, !.add = add]
  <2>1. Reads \/ ReadFails
    BY <1>4 DEF GetPolicies
  <2>2. \/ S3User(k) # None /\ Continue(k, label, m)
        \/ Finish(k, "Unreachable", TRUE)
    BY <1>4 DEF GetPolicies
  <2>3. S3User(k) # None => m \in Memories
    <3>1. S3User(k) # None =>
            remove \in SUBSET PolicyNames /\ add \in SUBSET PolicyNames
      BY <1>1, <1>3, Asked, UserFields
    <3> HIDE DEF remove, add
    <3> QED
      BY <1>2, <3>1, MemoryFields
  <2>4. label \notin {"CreateSecret", "UpdateSecret"}
    <3> HIDE DEF remove, add
    <3> QED
      OBVIOUS
  <2> HIDE DEF label, m
  <2>5. Remembered(k)
    BY <2>2, <2>3, <2>4, ContinueRemembers, FinishRemembers
  <2> QED
    BY <2>1, <2>5, ReadTyped DEF LeavesTyped
<1>5. CASE CheckCredentials(k)
  <2>1. Reads \/ ReadFails
    BY <1>5 DEF CheckCredentials
  <2>2. \/ \E label \in {"DeleteSecret", "DropUser"} : Continue(k, label, NoWork)
        \/ Finish(k, "Reconciled", FALSE) \/ Finish(k, "Unreachable", TRUE)
    BY <1>5 DEF CheckCredentials
  <2>3. Remembered(k)
    BY <2>2, ContinueRemembers, FinishRemembers, NoWorkIsMemory
  <2> QED
    BY <2>1, <2>3, ReadTyped DEF LeavesTyped
<1>6. CASE RemovePolicies(k)
  <2> DEFINE u == [S3User(k) EXCEPT !.policies = @ \ work[k].remove]
             m == [work[k] EXCEPT !.remove = {}]
  <2>1. S3User(k) # None => u \in Users
    BY <1>2, <1>3, UserFields
  <2>2. m \in Memories
    BY <1>2, MemoryFields
  <2>3. PICK label \in {"AddPolicies", "CheckCredentials"} :
          Call(k, S3User(k) # None, SetUser(k, u), label, m)
    BY <1>6 DEF RemovePolicies
  <2> HIDE DEF u, m
  <2>4. Remembered(k)
    BY <2>2, <2>3, CallRemembers
  <2>5. DataTyped
    BY <1>1, <2>1, <2>3, UserCallTyped DEF Call
  <2> QED
    BY <2>4, <2>5 DEF LeavesTyped
<1>7. CASE AddPolicies(k)
  <2> DEFINE u == [S3User(k) EXCEPT !.policies = @ \cup work[k].add]
             m == [work[k] EXCEPT !.add = {}]
             possible == Attachable(k, work[k].add)
  <2>1. possible => u \in Users
    BY <1>2, <1>3, UserFields DEF Attachable
  <2>2. m \in Memories
    BY <1>2, MemoryFields
  <2>3. Call(k, possible, SetUser(k, u), "CheckCredentials", m)
    BY <1>7 DEF AddPolicies, Attach
  <2> HIDE DEF u, m, possible
  <2>4. Remembered(k)
    BY <2>2, <2>3, CallRemembers
  <2>5. CallWorks(possible, SetUser(k, u)) \/ CallFails(possible, SetUser(k, u))
    BY <2>3 DEF Call
  <2>6. DataTyped
    BY <1>1, <2>1, <2>5, UserCallTyped
  <2> QED
    BY <2>4, <2>6 DEF LeavesTyped
<1> QED
  BY <1>4, <1>5, <1>6, <1>7

\* AddUser, with a secret key.
LEMMA PutUserTyped ==
    ASSUME IInv, NEW k \in Keys, pc[k] # "Idle", NEW key \in AccessKeys \cup Passwords
    PROVE  [key |-> key, policies |-> IF S3User(k) = None THEN {} ELSE S3User(k).policies]
             \in Users
  BY Asked DEF Users

LEMMA CreateTyped ==
    ASSUME KeysNeverRunOut, IInv, NEW k \in Keys, Create(k)
    PROVE  LeavesTyped(k)
<1>1. pc[k] # "Idle"
  BY DEF Create, At
<1>2. NewKey \in Passwords /\ NewKey # None
  BY NewKeyIsNew, UserConstants DEF IInv, Values
<1>3. ASSUME NEW possible, NEW key, possible => key \in AccessKeys \cup Passwords,
             NEW label, NEW p \in Passwords \cup {None},
             label = "AttachPolicies" \/ p # None,
             Call(k, possible, PutUser(k, key), label, [NoWork EXCEPT !.key = p])
      PROVE  LeavesTyped(k)
  <2> DEFINE m == [NoWork EXCEPT !.key = p]
  <2>1. m \in Memories /\ m.key = p
    BY <1>3, NoWorkIsMemory, MemoryFields DEF NoWork
  <2>2. Call(k, possible, PutUser(k, key), label, m)
    BY <1>3
  <2> HIDE DEF m
  <2>3. Remembered(k)
    BY <1>3, <2>1, <2>2, CallRemembers
  <2> DEFINE u == [key      |-> key,
                   policies |-> IF S3User(k) = None THEN {} ELSE S3User(k).policies]
  <2>4. possible => u \in Users \cup {None}
    BY <1>1, <1>3, PutUserTyped
  <2>5. PutUser(k, key) <=> SetUser(k, u)
    BY DEF PutUser
  <2> HIDE DEF u
  <2>6. \/ CallWorks(possible, SetUser(k, u))
        \/ CallFails(possible, SetUser(k, u))
    BY <2>2, <2>5 DEF Call, CallWorks, CallFails
  <2>7. DataTyped
    BY <2>4, <2>6, UserCallTyped
  <2> QED
    BY <2>3, <2>7 DEF LeavesTyped
<1>4. CASE CreateWithNewKey(k)
  BY <1>2, <1>3, <1>4 DEF CreateWithNewKey
<1>5. CASE CreateOnExisting(k)
  <2> DEFINE key == KeyToGive(k)
             p == IF flags.override THEN NewKey ELSE None
             label == IF flags.override THEN "UpdateSecret" ELSE "AttachPolicies"
  <2>1. key # Empty => key \in AccessKeys \cup Passwords
    <3>1. Existing(k) \in Secrets
      BY <1>1, <1>5, Typed, Asked DEF CreateOnExisting, Existing
    <3>2. KeyIn(Existing(k), Wanted(k)) \in AccessKeys \cup Passwords \cup {Empty, None}
      BY <1>1, <3>1, Asked DEF KeyIn, Secrets, Data, Values
    <3> QED
      BY <1>2, <3>2 DEF KeyToGive
  <2>2. p \in Passwords \cup {None} /\ (label = "AttachPolicies" \/ p # None)
    BY <1>2
  <2>3. Call(k, key # Empty, PutUser(k, key), label, [NoWork EXCEPT !.key = p])
    BY <1>5 DEF CreateOnExisting
  <2> HIDE DEF key, p, label
  <2> QED
    BY <1>3, <2>1, <2>2, <2>3
<1>6. CASE (Reads \/ ReadFails)
             /\ (Finish(k, "CreationFailure", TRUE) \/ Finish(k, "Unreachable", TRUE))
  BY <1>6, ReadTyped, FinishRemembers DEF LeavesTyped
<1> QED
  BY <1>4, <1>5, <1>6 DEF Create, Refuse

LEMMA UserStepsTyped ==
    ASSUME IInv, NEW k \in Keys, DropUser(k) \/ AttachPolicies(k) \/ FinalizeUser(k)
    PROVE  LeavesTyped(k)
<1>1. pc[k] # "Idle"
  BY DEF DropUser, AttachPolicies, FinalizeUser, At
<1>2. CASE DropUser(k)
  <2>1. Call(k, TRUE, SetUser(k, None), "Create", NoWork)
    BY <1>2 DEF DropUser
  <2>2. Remembered(k)
    BY <2>1, CallRemembers, NoWorkIsMemory
  <2>3. DataTyped
    BY <1>1, <2>1, UserCallTyped DEF Call
  <2> QED
    BY <2>2, <2>3 DEF LeavesTyped
<1>3. CASE AttachPolicies(k)
  <2> DEFINE ps == Wanted(k).policies
             u == [S3User(k) EXCEPT !.policies = @ \cup ps]
             possible == Attachable(k, ps)
  <2>1. Remembered(k)
    BY <1>3, FinishRemembers DEF AttachPolicies
  <2>2. CASE ps = {}
    <3>1. UNCHANGED <<users, secrets>>
      BY <1>3, <2>2 DEF AttachPolicies, CallWorks, CallFails, Reads, ReadFails
    <3> QED
      BY <2>1, <3>1, Typed DEF LeavesTyped, DataTyped
  <2>3. CASE ps # {}
    <3>1. possible => u \in Users
      BY <1>1, Asked, UserFields DEF Attachable
    <3>2. CallWorks(possible, SetUser(k, u)) \/ CallFails(possible, SetUser(k, u))
      BY <1>3, <2>3 DEF AttachPolicies, Attach, CallWorks, CallFails
    <3> HIDE DEF u, possible
    <3>3. DataTyped
      BY <1>1, <3>1, <3>2, UserCallTyped
    <3> QED
      BY <2>1, <3>3 DEF LeavesTyped
  <2> QED
    BY <2>2, <2>3
<1>4. CASE FinalizeUser(k)
  <2>1. Remembered(k)
    <3>1. /\ NoWork \in Memories
          /\ [NoWork EXCEPT !.delete = Owned(k)] \in Memories
      BY NoWorkIsMemory, MemoryFields, FewerSecrets
    <3>2. \/ Continue(k, "RemoveFinalizer", NoWork)
          \/ Continue(k, "DeleteOwned", [NoWork EXCEPT !.delete = Owned(k)])
          \/ Finish(k, "DeletionFailure", TRUE)
      BY <1>4 DEF FinalizeUser, AfterUser
    <3> QED
      BY <3>1, <3>2, ContinueRemembers, FinishRemembers
  <2>2. CASE S3UserDeletionEnabled
    BY <1>1, <1>4, <2>1, <2>2, UserCallTyped DEF FinalizeUser, LeavesTyped
  <2>3. CASE ~S3UserDeletionEnabled
    <3>1. UNCHANGED <<users, secrets>>
      BY <1>4, <2>3 DEF FinalizeUser, CallWorks, CallFails, Reads, ReadFails
    <3> QED
      BY <2>1, <3>1, Typed DEF LeavesTyped, DataTyped
  <2> QED
    BY <2>2, <2>3
<1> QED
  BY <1>2, <1>3, <1>4

LEMMA S3UserStepTyped ==
    ASSUME KeysNeverRunOut, IInv, NEW k \in Keys, S3UserStep(k)
    PROVE  LeavesTyped(k)
  BY SecretStepsTyped, PolicyStepsTyped, CreateTyped, UserStepsTyped DEF S3UserStep

-----------------------------------------------------------------------------
(* The inductive invariant *)

\* A step of the worker of k, of its watch, or of a user who writes k.
StepOn(k) == WorkerStep(k) \/ DeliverUser(k) \/ EditUser(k)

\* The UIDs stay naturals.
LEMMA UidsStayTyped ==
    ASSUME IInv, UidsFollow \/ uids' = uids
    PROVE  uids' \in [Keys -> Nat]
<1>1. \A k \in Keys : uids[k] \in Nat /\ uids[k] + 1 \in Nat
  BY Typed
<1> QED
  BY <1>1, Typed DEF UidsFollow

\* Such a step leaves the other CRs alone, and the S3 users unless a handler makes it.
LEMMA StepsAreApart ==
    ASSUME IInv, NEW k \in Keys, StepOn(k)
    PROVE  /\ Keeps(k, Labels, ProvisionLabels, DeletingLabels)
           /\ \/ WorkerStep(k) /\ Handles(k) /\ S3UserStep(k)
              \/ /\ LoopStep(k) \/ Deliver(k) \/ UserStep(k)
                 /\ UNCHANGED <<users, canned, secrets, flags, work>>
                 /\ UidsFollow \/ uids' = uids
<1>1. LoopIInv(Labels, ProvisionLabels, DeletingLabels)
  BY DEF IInv
<1>2. CASE S3UserStep(k)
  <2>1. Handles(k)
    BY <1>2, S3UserStepHandles
  <2>2. Keeps(k, Labels, ProvisionLabels, DeletingLabels)
    BY <1>1, <2>1, LabelsOfTheLoop, ProceedsKeeps DEF Handles
  <2> QED
    BY <1>2, <2>1, <2>2 DEF WorkerStep
<1>3. CASE /\ LoopStep(k) \/ Deliver(k) \/ UserStep(k)
           /\ UNCHANGED <<users, canned, secrets, flags, work>>
           /\ UidsFollow \/ uids' = uids
  BY <1>1, <1>3, LabelsOfTheLoop, UserStepKeeps, DeliverKeeps, LoopStepKeeps
<1>4. WorkerStep(k) => \/ S3UserStep(k)
                       \/ /\ LoopStep(k) /\ UidsFollow
                          /\ UNCHANGED <<users, canned, secrets, flags, work>>
  BY DEF WorkerStep
<1>5. DeliverUser(k) => Deliver(k) /\ UNCHANGED <<users, canned, secrets, flags, work>>
                        /\ uids' = uids
  BY DEF DeliverUser, userVars
<1>6. EditUser(k) => UserStep(k) /\ UidsFollow
                     /\ UNCHANGED <<users, canned, secrets, flags, work>>
  BY DEF EditUser
<1> QED
  BY <1>2, <1>3, <1>4, <1>5, <1>6 DEF StepOn

\* Where a worker goes when no handler makes the step.
LEMMA WorkerMoves ==
    ASSUME IInv, NEW k \in Keys, LoopStep(k) \/ Deliver(k) \/ UserStep(k)
    PROVE  \/ UNCHANGED <<pc, res>>
           \/ pc'[k] \in LoopLabels \ {"SetStatus", "RemoveFinalizer"}
<1>1. Deliver(k) \/ UserStep(k) => UNCHANGED <<pc, res>>
  BY DEF UserStep, UserCreate, UserEdit, UserTouch, UserDelete, UserWrites, Deliver
<1> QED
  BY <1>1, LoopMoves DEF IInv, LoopIInv

LEMMA StepOnKeepsIInv ==
    ASSUME KeysNeverRunOut, IInv, NEW k \in Keys, StepOn(k)
    PROVE  IInv'
<1>1. Keeps(k, Labels, ProvisionLabels, DeletingLabels)
  BY StepsAreApart
<1>2. LoopIInv(Labels, ProvisionLabels, DeletingLabels)'
  BY <1>1, KeepsLoopIInv DEF IInv
<1>3. \A j \in Keys \ {k} : pc'[j] = pc[j]
  BY <1>1 DEF Keeps, LeftAlone
<1>4. CASE S3UserStep(k) /\ Handles(k)
  <2>1. LeavesTyped(k)
    BY <1>4, S3UserStepTyped
  <2>2. UNCHANGED <<canned, uids, flags>>
    BY <1>4 DEF Handles
  <2>3. UserTypeOK'
    BY <1>2, <2>1, <2>2 DEF IInv, UserTypeOK, LoopIInv, LeavesTyped, DataTyped, Remembered
  <2>4. KeyInv'
    BY <1>3, <2>1 DEF IInv, KeyInv, LeavesTyped, Remembered
  <2> QED
    BY <1>2, <2>3, <2>4 DEF IInv
<1>5. CASE /\ LoopStep(k) \/ Deliver(k) \/ UserStep(k)
           /\ UNCHANGED <<users, canned, secrets, flags, work>>
           /\ UidsFollow \/ uids' = uids
  <2>1. uids' \in [Keys -> Nat]
    BY <1>5, UidsStayTyped
  <2>2. UserTypeOK'
    BY <1>2, <1>5, <2>1 DEF IInv, UserTypeOK, LoopIInv
  <2>3. KeyInv'
    <3>1. UNCHANGED pc \/ pc'[k] \in LoopLabels
      BY <1>5, WorkerMoves
    <3> QED
      BY <1>3, <1>5, <3>1 DEF IInv, KeyInv, LoopLabels
  <2> QED
    BY <1>2, <2>2, <2>3 DEF IInv
<1> QED
  BY <1>4, <1>5, StepsAreApart

\* The watch of the secrets wakes up CRs only.
LEMMA DeliverSecretKeepsIInv ==
    ASSUME IInv, NEW n \in SecretNames, DeliverSecret(n)
    PROVE  IInv'
<1> DEFINE S == Secrets \cup {None}  s == secrets[n]
<1>1. s \in Seq(S) /\ Len(s) > 1
  BY Typed DEF DeliverSecret
<1>2. s[1] \in S /\ s[2] \in S
  <2> HIDE DEF s, S
  <2> QED
    BY <1>1
<1>3. Tail(s) \in Seq(S) \ {<<>>}
  <2> HIDE DEF s, S
  <2> DEFINE rest == Tail(s)
  <2>1. rest \in Seq(S) /\ Len(rest) = Len(s) - 1 /\ Len(s) \in Nat
    BY <1>1
  <2> HIDE DEF rest
  <2>2. rest # <<>>
    BY <1>1, <2>1
  <2> QED
    BY <2>1, <2>2 DEF rest
<1>4. secrets' = [secrets EXCEPT ![n] = Tail(s)]
  BY DEF DeliverSecret
<1>5. secrets' \in [SecretNames -> Seq(S) \ {<<>>}]
  <2>1. secrets \in [SecretNames -> Seq(S) \ {<<>>}]
    BY Typed
  <2> HIDE DEF s, S
  <2> QED
    BY <1>3, <1>4, <2>1
<1>6. Woken(s[1], s[2]) \subseteq Keys
  BY <1>2 DEF Woken, OwnersIn, Secrets, Owners
<1>7. LoopIInv(Labels, ProvisionLabels, DeletingLabels)'
  <2>1. /\ UNCHANGED <<versions, pc, res, cur, out>> /\ budget' = budget
        /\ queue' = queue \cup Woken(s[1], s[2])
        /\ queue \subseteq Keys /\ budget \in Budgets
    BY DEF DeliverSecret, IInv, LoopIInv, LoopTypeOK, Budgets
  <2>2. queue \subseteq queue' /\ queue' \subseteq Keys /\ budget' \in Budgets
    BY <1>6, <2>1
  <2> QED
    BY <2>1, <2>2, QuietKeeps DEF IInv
<1> QED
  BY <1>5, <1>7 DEF DeliverSecret, IInv, UserTypeOK, LoopIInv, KeyInv

\* The garbage collector and those who change a secret or make a policy.
LEMMA OthersKeepIInv ==
    ASSUME KeysNeverRunOut, IInv,
           \/ \E n \in SecretNames : Collect(n) \/ Tamper(n)
           \/ \E p \in PolicyNames : PolicyAppears(p)
           \/ UNCHANGED vars
    PROVE  IInv'
<1>1. /\ UNCHANGED <<versions, queue, pc, res, cur, out, users, uids, flags, work>>
      /\ Fault \/ UNCHANGED budget
      /\ canned' \subseteq PolicyNames
  BY DEF Collect, Tamper, PolicyAppears, vars, loopVars, userVars, IInv, UserTypeOK
<1>2. secrets' \in [SecretNames -> Seq(Secrets \cup {None}) \ {<<>>}]
  <2>1. ASSUME NEW n \in SecretNames, Collect(n) PROVE StoreSecret(n, None)
    BY <2>1 DEF Collect
  <2>2. ASSUME NEW n \in SecretNames, Tamper(n)
        PROVE  \E s \in Secrets \cup {None} : StoreSecret(n, s)
    <3>1. StoredSecret(n) \in Secrets
      <4>1. StoredSecret(n) # None
        BY <2>2 DEF Tamper, OwnersIn
      <4> QED
        BY <4>1, Typed
    <3>2. NewKey \in Passwords
      BY NewKeyIsNew DEF IInv
    <3>3. Tampered(StoredSecret(n)) \subseteq Secrets
      <4> DEFINE s == StoredSecret(n)
      <4>1. s \in Secrets
        BY <3>1
      <4> HIDE DEF s
      <4>2. ASSUME NEW f \in FieldNames, NEW v \in {NewKey, Empty, None}
            PROVE  [s EXCEPT !.data[f] = v] \in Secrets
        <5>1. v \in Values \cup {None} /\ s.data \in Data
          BY <3>2, <4>1 DEF Values, Secrets
        <5>2. [s.data EXCEPT ![f] = v] \in Data
          BY <5>1 DEF Data
        <5>3. [s EXCEPT !.data[f] = v] = [s EXCEPT !.data = [s.data EXCEPT ![f] = v]]
          BY <4>1 DEF Secrets
        <5> QED
          BY <4>1, <5>2, <5>3 DEF Secrets
      <4>3. ASSUME NEW t \in Tampered(s) PROVE t \in Secrets
        <5>1. t \in {[s EXCEPT !.data[f] = v] : f \in FieldNames, v \in {NewKey, Empty, None}}
          BY <4>3 DEF Tampered
        <5>2. PICK f \in FieldNames, v \in {NewKey, Empty, None} :
                t = [s EXCEPT !.data[f] = v]
          BY <5>1
        <5> QED
          BY <4>2, <5>2
      <4> QED
        BY <4>3 DEF s
    <3> QED
      BY <2>2, <3>3 DEF Tamper
  <2>3. (\E p \in PolicyNames : PolicyAppears(p)) \/ UNCHANGED vars => UNCHANGED secrets
    BY DEF PolicyAppears, vars, userVars
  <2> QED
    BY <2>1, <2>2, <2>3, StoreSecretTyped, Typed
<1>3. LoopIInv(Labels, ProvisionLabels, DeletingLabels)'
  <2>1. budget' \in Budgets
    BY <1>1, BudgetsStay
  <2>2. queue' = queue /\ queue \subseteq Keys
    BY <1>1 DEF IInv, LoopIInv, LoopTypeOK
  <2> QED
    BY <1>1, <2>1, <2>2, QuietKeeps DEF IInv
<1> QED
  BY <1>1, <1>2, <1>3 DEF IInv, UserTypeOK, LoopIInv, KeyInv

LEMMA RestartKeepsIInv ==
    ASSUME IInv, Restart
    PROVE  IInv'
<1>1. LoopIInv(Labels, ProvisionLabels, DeletingLabels)'
  BY LabelsOfTheLoop, CrashKeeps DEF Restart, IInv
<1>2. secrets' \in [SecretNames -> Seq(Secrets \cup {None}) \ {<<>>}]
  <2> DEFINE S == Secrets \cup {None}
  <2>1. \A n \in SecretNames : StoredSecret(n) \in S
    BY Typed
  <2>2. secrets' = [n \in SecretNames |-> <<StoredSecret(n)>>]
    BY DEF Restart
  <2> HIDE DEF S
  <2>3. \A x \in S : <<x>> \in Seq(S) \ {<<>>}
    OBVIOUS
  <2>4. secrets' \in [SecretNames -> Seq(S) \ {<<>>}]
    BY <2>1, <2>2, <2>3
  <2> QED
    BY <2>4 DEF S
<1>3. work' \in [Keys -> Memories]
  BY NoWorkIsMemory DEF Restart
<1>4. KeyInv'
  BY DEF Restart, Crash, KeyInv
<1> QED
  BY <1>1, <1>2, <1>3, <1>4 DEF Restart, IInv, UserTypeOK, LoopIInv

LEMMA NextKeepsIInv ==
    ASSUME KeysNeverRunOut, IInv, [Next]_vars
    PROVE  IInv'
  BY StepOnKeepsIInv, DeliverSecretKeepsIInv, OthersKeepIInv, RestartKeepsIInv
  DEF Next, StepOn

LEMMA InitKeepsIInv ==
    ASSUME UserInit
    PROVE  IInv
<1>1. LoopIInv(Labels, ProvisionLabels, DeletingLabels)
  BY LabelsOfTheLoop, InitKeeps DEF UserInit
<1>2. secrets \in [SecretNames -> Seq(Secrets \cup {None}) \ {<<>>}]
  <2> DEFINE S == Secrets \cup {None}
  <2>1. PICK made : /\ \A n \in SecretNames : made[n] \in Foreign[n] \cup {None}
                    /\ secrets = [n \in SecretNames |-> <<made[n]>>]
    BY DEF UserInit
  <2>2. \A n \in SecretNames : made[n] \in S
    BY <2>1, UserConstants
  <2> HIDE DEF S
  <2>3. \A x \in S : <<x>> \in Seq(S) \ {<<>>}
    OBVIOUS
  <2>4. secrets \in [SecretNames -> Seq(S) \ {<<>>}]
    BY <2>1, <2>2, <2>3
  <2> QED
    BY <2>4 DEF S
<1>3. KeyInv
  BY DEF UserInit, LoopInit, KeyInv
<1> QED
  BY <1>1, <1>2, <1>3, NoWorkIsMemory DEF UserInit, IInv, UserTypeOK, LoopIInv

\* The invariant of the loop holds for the S3User controller too, and a worker that
\* is about to write a secret has the key of the S3 user it has just made.
THEOREM InductiveInvariant ==
    ASSUME KeysNeverRunOut
    PROVE  Spec => []IInv
<1>1. UserInit => IInv
  BY InitKeepsIInv
<1>2. IInv /\ [Next]_vars => IInv'
  BY NextKeepsIInv
<1> QED
  BY <1>1, <1>2, PTL DEF Spec

\* Every variable keeps its type: no S3 user, no secret and no worker's memory is
\* ever without what the handlers take from it, and the watch of the secrets wakes
\* up CRs only.
THEOREM TypeCorrect ==
    ASSUME KeysNeverRunOut
    PROVE  Spec => []UserTypeOK
<1>1. IInv => UserTypeOK
  BY DEF IInv
<1> QED
  BY <1>1, InductiveInvariant, PTL

\* An S3User CR whose current generation was not judged yet has work pending.
THEOREM NoWakeupIsLost ==
    ASSUME KeysNeverRunOut
    PROVE  Spec => []NoLostWakeup
<1>1. IInv => NoLostWakeup
  BY IInvImpliesNoLostWakeup DEF IInv
<1> QED
  BY <1>1, InductiveInvariant, PTL

-----------------------------------------------------------------------------
(* Who writes what *)

\* The S3 users are changed by handlers only.
LEMMA WhoChangesUsers ==
    ASSUME IInv, [Next]_vars
    PROVE  \/ \E k \in Keys : StepOn(k) /\ Handles(k)
           \/ \E k \in Keys : StepOn(k) /\ UNCHANGED users
                              /\ (LoopStep(k) \/ Deliver(k) \/ UserStep(k))
           \/ /\ UNCHANGED users
              /\ UNCHANGED <<versions, pc, res>> \/ Crash
<1>1. ASSUME NEW k \in Keys, StepOn(k)
      PROVE  \/ Handles(k)
             \/ (LoopStep(k) \/ Deliver(k) \/ UserStep(k)) /\ UNCHANGED users
  BY <1>1, StepsAreApart
<1>2. ASSUME NEW n \in SecretNames, DeliverSecret(n) \/ Collect(n) \/ Tamper(n)
      PROVE  UNCHANGED <<users, versions, pc, res>>
  BY <1>2 DEF DeliverSecret, Collect, Tamper, loopVars
<1>3. ASSUME NEW p \in PolicyNames, PolicyAppears(p)
      PROVE  UNCHANGED <<users, versions, pc, res>>
  BY <1>3 DEF PolicyAppears, loopVars
<1>4. Restart => Crash /\ UNCHANGED users
  BY DEF Restart
<1>5. UNCHANGED vars => UNCHANGED <<users, versions, pc, res>>
  BY DEF vars, loopVars, userVars
<1> QED
  BY <1>1, <1>2, <1>3, <1>4, <1>5 DEF Next, StepOn

\* No status write takes the condition of an S3User back to an older
\* generation, however many secrets its worker went through.
THEOREM ConditionsGoForward ==
    ASSUME KeysNeverRunOut
    PROVE  Spec => StatusNeverGoesBack
<1>1. ASSUME IInv, [Next]_vars PROVE \A k \in Keys : StatusGoesForward(k)
  <2>1. LoopIInv(Labels, ProvisionLabels, DeletingLabels)
    BY <1>1 DEF IInv
  <2>2. \/ \E k \in Keys : LoopStep(k) \/ UserStep(k) \/ Deliver(k)
        \/ Crash \/ UNCHANGED versions
    BY <1>1, WhoChangesUsers DEF Handles
  <2> QED
    BY <2>1, <2>2, ConditionsStay
<1>2. IInv /\ [Next]_vars
        => [\A k \in Keys : (Stored(k) # None /\ Stored(k)' # None)
              => Stored(k)'.cond.obs >= Stored(k).cond.obs]_loopVars
  BY <1>1 DEF StatusGoesForward
<1> QED
  BY <1>2, InductiveInvariant, PTL DEF Spec, StatusNeverGoesBack

\* An S3 user that is written is the one the copy of a worker on its way to provision
\* it names.
LEMMA WriterIsAtWork ==
    ASSUME IInv, NEW k \in Keys, Handles(k), NEW a \in AccessKeys,
           users'[a] # users[a], users'[a] # None
    PROVE  pc[k] # "Idle" /\ pc[k] \in ProvisionLabels /\ Wanted(k).access = a /\ Held(k)
<1>1. pc[k] # "Idle" /\ ~UNCHANGED users
  BY LabelsOfTheLoop DEF Handles, LabelSets
<1>2. PICK u : /\ users' = [users EXCEPT ![Wanted(k).access] = u]
               /\ u = None \/ pc[k] \in ProvisionLabels
  BY <1>1 DEF Handles, Change
<1>3. Wanted(k).access = a /\ u = users'[a]
  BY <1>1, <1>2, Replaced
<1>4. pc[k] \in ProvisionLabels
  BY <1>2, <1>3
<1> QED
  BY <1>1, <1>3, <1>4 DEF IInv, LoopIInv, LoopInv, WorkerInv

\* The operator makes an S3 user or changes its key or policies only for a CR that is
\* stored with the finalizer at that moment, renamed, shared and outdated CRs included.
THEOREM ProvisionsWhileHeld ==
    ASSUME KeysNeverRunOut
    PROVE  Spec => UserOnlyWhileHeld
<1> DEFINE Safe == \A a \in AccessKeys :
                     (users'[a] # users[a] /\ users'[a] # None)
                       => \E k \in Keys : pc[k] # "Idle" /\ Wanted(k).access = a /\ Held(k)
<1>1. ASSUME IInv, [Next]_vars PROVE Safe
  BY <1>1, WhoChangesUsers, WriterIsAtWork
<1>2. IInv /\ [Next]_vars => [Safe]_vars
  BY <1>1
<1>3. Spec => [][Safe]_vars
  BY <1>2, InductiveInvariant, PTL DEF Spec
<1> QED
  BY <1>3 DEF UserOnlyWhileHeld

-----------------------------------------------------------------------------
(* No S3 user outlives its CRs *)

\* k has not deleted the S3 user a yet.
Responsible(k, a) ==
    /\ Held(k)
    /\ Stored(k).spec.access = a
    /\ pc[k] \notin UserGoneLabels

\* A CR is stored with one of its specs, before and after a step.
SpecsStored == \A k \in Keys : Stored(k) # None => Stored(k).spec \in Specs[k]

LEMMA StoredSpecs == IInv => SpecsStored
  BY StoredFacts DEF IInv, SpecsStored

LEMMA StoredSpecsNext == IInv' => SpecsStored'
  BY StoredSpecs, PTL

\* A handler gets past the deletion of its user only when the user is gone.
LEMMA HandlerStaysResponsible ==
    ASSUME S3UserDeletionEnabled, AccessKeysAreKept, IInv, NEW k \in Keys, Handles(k),
           NEW a \in AccessKeys, users'[a] # None,
           users[a] # None => \E j \in Keys : Responsible(j, a)
    PROVE  \E j \in Keys : Responsible(j, a)'
<1>1. pc[k] # "Idle"
  BY LabelsOfTheLoop DEF Handles, LabelSets
<1>2. \A j \in Keys : Stored(j)' = Stored(j)
  BY WatchStoresNothing DEF Handles, IInv
<1>3. Keeps(k, Labels, ProvisionLabels, DeletingLabels)
  BY LabelsOfTheLoop, ProceedsKeeps DEF Handles, IInv
<1>4. Held(k) => Stored(k).spec.access = Wanted(k).access
  BY <1>1, StoredSpecs, HandlerData DEF SpecsStored, Held, AccessKeysAreKept
<1>5. CASE users'[a] # users[a]
  <2>1. pc[k] \in ProvisionLabels /\ Wanted(k).access = a /\ Held(k)
    BY <1>5, WriterIsAtWork
  <2>2. pc[k] \notin UserGoneLabels
    BY <2>1 DEF ProvisionLabels, UserLabels, UserGoneLabels
  <2>3. pc'[k] \notin UserGoneLabels
    BY <2>1, <2>2 DEF Handles, Claims
  <2> QED
    BY <1>2, <1>4, <2>1, <2>3 DEF Responsible, Held
<1>6. CASE users'[a] = users[a]
  <2>1. PICK j \in Keys : Responsible(j, a)
    BY <1>6
  <2>2. pc'[j] \notin UserGoneLabels
    <3>1. CASE j # k
      BY <1>3, <2>1, <3>1 DEF Keeps, LeftAlone, Responsible
    <3>2. CASE j = k
      BY <1>4, <2>1, <3>2 DEF Responsible, Handles, Claims
    <3> QED
      BY <3>1, <3>2
  <2> QED
    BY <1>2, <2>1, <2>2 DEF Responsible, Held
<1> QED
  BY <1>5, <1>6

\* Neither the users who write CRs nor the common part of Reconcile release such a CR.
LEMMA StaysResponsible ==
    ASSUME KeysNeverRunOut, AccessKeysAreKept, IInv, NEW k \in Keys, StepOn(k),
           LoopStep(k) \/ Deliver(k) \/ UserStep(k),
           NEW j \in Keys, NEW a, Responsible(j, a)
    PROVE  Responsible(j, a)'
<1>1. LoopIInv(Labels, ProvisionLabels, DeletingLabels)
  BY DEF IInv
<1>2. CASE j # k
  <2>1. LeftAlone(j)
    BY <1>2, StepsAreApart DEF Keeps
  <2> QED
    BY <2>1 DEF LeftAlone, Responsible, Held, Stored
<1>3. CASE j = k
  <2>1. pc'[k] \notin UserGoneLabels
    BY <1>3, WorkerMoves DEF Responsible, UserGoneLabels, LoopLabels
  <2>2. CASE Deliver(k)
    <3>1. Stored(k)' = Stored(k)
      BY <1>1, <2>2, WatchStoresNothing
    <3> QED
      BY <1>3, <2>1, <3>1 DEF Responsible, Held
  <2>3. CASE UserStep(k)
    <3>1. EditedByUser(k)
      BY <1>1, <2>3, UserStepEdits
    <3>2. Stored(k)' # None /\ Stored(k)'.fin /\ Stored(k) # None
      BY <1>3, <3>1 DEF EditedByUser, Responsible, Held
    <3>3. Stored(k)'.spec \in Specs[k] /\ Stored(k).spec \in Specs[k]
      BY <3>2, StepOnKeepsIInv, StoredSpecs, StoredSpecsNext DEF SpecsStored
    <3> QED
      BY <1>3, <2>1, <3>2, <3>3 DEF Responsible, Held, AccessKeysAreKept
  <2>4. CASE LoopStep(k)
    <3>1. WrittenByWorker(k) /\ pc[k] # "RemoveFinalizer"
      BY <1>1, <1>3, <2>4, LoopStepWrites DEF Responsible, UserGoneLabels
    <3> QED
      BY <1>3, <2>1, <3>1 DEF WrittenByWorker, SameGeneration, Responsible, Held
  <2> QED
    BY <2>2, <2>3, <2>4
<1> QED
  BY <1>2, <1>3

LEMMA OrphanUserInductive ==
    ASSUME KeysNeverRunOut, S3UserDeletionEnabled, AccessKeysAreKept,
           IInv, OrphanUserInv, [Next]_vars
    PROVE  OrphanUserInv'
<1> SUFFICES ASSUME NEW a \in AccessKeys, users'[a] # None
             PROVE  \E j \in Keys : Responsible(j, a)'
  BY DEF OrphanUserInv, Responsible
<1>1. users[a] # None => \E j \in Keys : Responsible(j, a)
  BY DEF OrphanUserInv, Responsible
<1>2. CASE \E k \in Keys : StepOn(k) /\ Handles(k)
  BY <1>1, <1>2, HandlerStaysResponsible
<1>3. CASE \E k \in Keys : StepOn(k) /\ UNCHANGED users
                           /\ (LoopStep(k) \/ Deliver(k) \/ UserStep(k))
  BY <1>1, <1>3, StaysResponsible
<1>4. CASE UNCHANGED users /\ (UNCHANGED <<versions, pc, res>> \/ Crash)
  <2>1. PICK j \in Keys : Responsible(j, a)
    BY <1>1, <1>4
  <2>2. Stored(j)' = Stored(j)
    BY <1>4, WatchStoresNothing DEF IInv
  <2>3. pc'[j] = pc[j] \/ pc'[j] = "Idle"
    BY <1>4 DEF Crash
  <2> QED
    BY <2>1, <2>2, <2>3 DEF Responsible, Held, UserGoneLabels
<1> QED
  BY <1>2, <1>3, <1>4, WhoChangesUsers

\* With s3UserDeletionEnabled, as long as no CR is given another access key, an S3 user
\* does not outlive the CRs that ask for it: the last of them is not released before
\* DeleteUser was done, whatever fails in between and however many CRs share the user.
THEOREM NoUserIsOrphaned ==
    ASSUME KeysNeverRunOut, S3UserDeletionEnabled, AccessKeysAreKept
    PROVE  Spec => []NoOrphanUser
<1>1. UserInit => OrphanUserInv
  BY DEF UserInit, OrphanUserInv
<1>2. IInv /\ OrphanUserInv /\ [Next]_vars => OrphanUserInv'
  BY OrphanUserInductive
<1>3. OrphanUserInv => NoOrphanUser
  BY DEF OrphanUserInv, NoOrphanUser
<1> QED
  BY <1>1, <1>2, <1>3, InductiveInvariant, PTL DEF Spec

-----------------------------------------------------------------------------
(* The S3User controller implements ManagedResource *)

UserCRsHaveSpecs == \A k \in Keys : Specs[k] # {}

\* What the steps of the protocol need to know.
ManagedInv == S3UserDeletionEnabled => OrphanUserInv

Stages == [k \in Keys |-> Stage(k)]
Present == [k \in Keys |-> users[AccessOf(k)] # None]

LEMMA AccessKeysOfUsers ==
    ASSUME AccessKeysAreKept, UserCRsHaveSpecs, NEW k \in Keys
    PROVE  /\ AccessOf(k) \in AccessKeys
           /\ \E s \in Specs[k] : s.access = AccessOf(k)
           /\ \A s \in Specs[k] : s.access = AccessOf(k)
<1>1. (CHOOSE s \in Specs[k] : TRUE) \in Specs[k]
  BY DEF UserCRsHaveSpecs
<1> QED
  BY <1>1, UserSpecsAssumption DEF AccessOf, AccessKeysAreKept, UserSpecs

\* The S3 user of a CR that has one of its own is gone, or the CR is held and its
\* worker has not deleted the user.
LEMMA UserHasItsCR ==
    ASSUME OneUserEach, AccessKeysAreKept, UserCRsHaveSpecs, S3UserDeletionEnabled,
           IInv, ManagedInv, NEW k \in Keys, users[AccessOf(k)] # None
    PROVE  Held(k) /\ pc[k] \notin UserGoneLabels
<1>1. PICK j \in Keys : /\ Held(j) /\ Stored(j).spec.access = AccessOf(k)
                        /\ pc[j] \notin UserGoneLabels
  BY AccessKeysOfUsers DEF ManagedInv, OrphanUserInv
<1>2. Stored(j).spec \in Specs[j]
  BY <1>1, StoredSpecs DEF SpecsStored, Held
<1> QED
  BY <1>1, <1>2, AccessKeysOfUsers DEF OneUserEach

\* handleDeletion leaves the user alone unless deletion is enabled.
LEMMA DeletesOnlyIfEnabled ==
    ASSUME NEW k \in Keys, S3UserStep(k), pc[k] = "Finalize", ~S3UserDeletionEnabled
    PROVE  UNCHANGED users
<1>1. FinalizeUser(k)
  BY DEF S3UserStep, HandleUser, DeleteUnused, GetPolicies, RemovePolicies, AddPolicies,
         CheckCredentials, DeleteSecret, DropUser, Create, CreateSecret, UpdateSecret,
         AttachPolicies, DeleteOwned, At
<1> QED
  BY <1>1 DEF FinalizeUser, CallWorks, CallFails, Reads, ReadFails

\* The handlers make and remove the S3 user of their CR while it is held.
LEMMA ChangesAreManaged ==
    ASSUME OneUserEach, AccessKeysAreKept, UserCRsHaveSpecs, IInv, ManagedInv,
           NEW k \in Keys, Handles(k), S3UserStep(k),
           users'[AccessOf(k)] # users[AccessOf(k)]
    PROVE  Held(k)
<1>1. pc[k] # "Idle" /\ pc[k] \notin UserGoneLabels /\ ~UNCHANGED users
  BY LabelsOfTheLoop DEF Handles, Change, LabelSets
<1>2. CASE pc[k] \in ProvisionLabels
  BY <1>2 DEF IInv, LoopIInv, LoopInv, WorkerInv
<1>3. CASE pc[k] \notin ProvisionLabels
  <2>1. pc[k] = "Finalize"
    BY <1>1, <1>3 DEF Handles, DeletingLabels
  <2>2. S3UserDeletionEnabled
    BY <1>1, <2>1, DeletesOnlyIfEnabled
  <2>3. PICK u : users' = [users EXCEPT ![Wanted(k).access] = u] /\ u = None
    BY <1>1, <1>3 DEF Handles, Change
  <2>4. Wanted(k).access = AccessOf(k)
    BY <1>1, HandlerData, AccessKeysOfUsers
  <2>5. users[AccessOf(k)] # None
    BY <1>1, <2>3, <2>4, Replaced
  <2> QED
    BY <2>2, <2>5, UserHasItsCR
<1> QED
  BY <1>2, <1>3

\* Nor do they touch the user of another CR.
LEMMA OthersKeepUser ==
    ASSUME OneUserEach, AccessKeysAreKept, UserCRsHaveSpecs, IInv,
           NEW k \in Keys, Handles(k), NEW j \in Keys \ {k}
    PROVE  users'[AccessOf(j)] = users[AccessOf(j)]
<1>1. pc[k] # "Idle"
  BY LabelsOfTheLoop DEF Handles, LabelSets
<1>2. CASE \E u : users' = [users EXCEPT ![Wanted(k).access] = u]
  <2>1. \A a \in AccessKeys \ {Wanted(k).access} : users'[a] = users[a]
    BY <1>1, <1>2, Replaced
  <2>2. AccessOf(j) # Wanted(k).access
    BY <1>1, HandlerData, AccessKeysOfUsers DEF OneUserEach
  <2> QED
    BY <2>1, <2>2, AccessKeysOfUsers
<1> QED
  BY <1>2 DEF Handles, Change

\* A step of the operator or of a user is a step of the protocol, or none.
LEMMA StepsAreManaged ==
    ASSUME KeysNeverRunOut, OneUserEach, AccessKeysAreKept, UserCRsHaveSpecs,
           IInv, ManagedInv, NEW k \in Keys, StepOn(k)
    PROVE  Protocol!Next \/ (Stages' = Stages /\ Present' = Present)
<1>0. LoopIInv(Labels, ProvisionLabels, DeletingLabels)
  BY DEF IInv
<1>1. ASSUME NEW j \in Keys \ {k}
      PROVE  Stage(j)' = Stage(j) /\ users'[AccessOf(j)] = users[AccessOf(j)]
  <2>1. LeftAlone(j)
    BY StepsAreApart DEF Keeps
  <2>2. Stored(j)' = Stored(j)
    BY <2>1 DEF LeftAlone, Stored
  <2>3. users'[AccessOf(j)] = users[AccessOf(j)]
    BY StepsAreApart, OthersKeepUser
  <2> QED
    BY <2>2, <2>3 DEF Stage
<1>2. /\ Stages' = [Stages EXCEPT ![k] = Stage(k)']
      /\ Present' = [Present EXCEPT ![k] = (users'[AccessOf(k)] # None)]
      /\ Stages[k] = Stage(k) /\ Present[k] = (users[AccessOf(k)] # None)
  <2>1. \A j \in Keys : AccessOf(j)' = AccessOf(j)
    BY DEF AccessOf
  <2> QED
    BY <1>1, <2>1 DEF Stages, Present
<1>3. ASSUME Stage(k)' = Stage(k) PROVE Stages' = Stages
  BY <1>2, <1>3 DEF Stages
<1>4. ASSUME users'[AccessOf(k)] = users[AccessOf(k)] PROVE Present' = Present
  BY <1>2, <1>4 DEF Present
<1>5. CASE Handles(k) /\ S3UserStep(k)
  <2>1. Stages' = Stages
    <3>1. UNCHANGED versions
      BY <1>5 DEF Handles
    <3>2. Stored(k)' = Stored(k)
      BY <1>0, <3>1, WatchStoresNothing
    <3> QED
      BY <1>3, <3>2 DEF Stage
  <2>2. CASE users'[AccessOf(k)] = users[AccessOf(k)]
    BY <1>4, <2>1, <2>2
  <2>3. CASE users'[AccessOf(k)] # users[AccessOf(k)]
    <3>1. Stage(k) \in {"held", "terminating"}
      BY <1>5, <2>3, ChangesAreManaged DEF Held, Stage
    <3>2. users'[AccessOf(k)] # None \/ users'[AccessOf(k)] = None
      OBVIOUS
    <3> QED
      BY <1>2, <2>1, <3>1, <3>2
      DEF Stages, Present, Protocol!Next, Protocol!Provision, Protocol!Deprovision
  <2> QED
    BY <2>2, <2>3
<1>6. CASE UNCHANGED users /\ (LoopStep(k) \/ Deliver(k) \/ UserStep(k))
  <2>1. Present' = Present
    BY <1>4, <1>6
  <2>2. EditedByUser(k) \/ WrittenByWorker(k) \/ Stored(k)' = Stored(k)
    BY <1>0, <1>6, UserStepEdits, LoopStepWrites, WatchStoresNothing
  <2>3. \/ Stage(k)' = Stage(k)
        \/ Stage(k) = "absent" /\ Stage(k)' = "declared"
        \/ Stage(k) = "declared" /\ Stage(k)' = "absent"
        \/ Stage(k) = "held" /\ Stage(k)' = "terminating"
        \/ Stage(k) = "declared" /\ Stage(k)' = "held"
        \/ /\ Stage(k) = "terminating" /\ Stage(k)' = "absent"
           /\ pc[k] = "RemoveFinalizer"
    <3>1. Stored(k)' = Stored(k) => Stage(k)' = Stage(k)
      BY DEF Stage
    <3> QED
      BY <1>0, <2>2, <3>1, LabelsOfTheLoop, StageMoves
  <2>4. pc[k] = "RemoveFinalizer" /\ S3UserDeletionEnabled => users[AccessOf(k)] = None
    BY UserHasItsCR DEF UserGoneLabels
  <2> QED
    BY <1>2, <1>3, <2>1, <2>3, <2>4
    DEF Stages, Present, Protocol!Next, Protocol!Declare, Protocol!Withdraw,
        Protocol!Hold, Protocol!Terminate, Protocol!Release, Protocol!Move
<1> QED
  BY <1>5, <1>6, StepsAreApart

\* When every S3User CR has an access key of its own, each CR and its S3 user go
\* through the protocol of ManagedResource, though users are also deleted to be made
\* again: nothing is done to the user before the finalizer is there, and with
\* s3UserDeletionEnabled it is gone before the CR is.
THEOREM UsersAreManaged ==
    ASSUME KeysNeverRunOut, OneUserEach, AccessKeysAreKept, UserCRsHaveSpecs
    PROVE  Spec => ImplementsManagedResource
<1>1. UserInit => ManagedInv /\ Protocol!Init
  <2> SUFFICES ASSUME UserInit PROVE ManagedInv /\ Protocol!Init
    OBVIOUS
  <2>1. \A k \in Keys : Stored(k) = None
    BY DEF UserInit, LoopInit, Stored
  <2>2. \A k \in Keys : Stage(k) = "absent" /\ users[AccessOf(k)] = None
    BY <2>1, AccessKeysOfUsers DEF UserInit, Stage
  <2>3. ManagedInv
    BY DEF UserInit, ManagedInv, OrphanUserInv
  <2> QED
    BY <2>2, <2>3 DEF Protocol!Init
<1>2. IInv /\ ManagedInv /\ [Next]_vars
        => ManagedInv' /\ [Protocol!Next]_<<Stages, Present>>
  <2> SUFFICES ASSUME IInv, ManagedInv, [Next]_vars
               PROVE  ManagedInv' /\ [Protocol!Next]_<<Stages, Present>>
    OBVIOUS
  <2>1. ManagedInv'
    BY OrphanUserInductive DEF ManagedInv
  <2>2. CASE UNCHANGED users /\ (UNCHANGED <<versions, pc, res>> \/ Crash)
    <3>1. \A j \in Keys : Stored(j)' = Stored(j)
      BY <2>2, WatchStoresNothing DEF IInv
    <3>2. Stages' = Stages
      BY <3>1 DEF Stages, Stage
    <3>3. Present' = Present
      BY <2>2 DEF Present
    <3> QED
      BY <2>1, <3>2, <3>3
  <2> QED
    BY <2>1, <2>2, StepsAreManaged, WhoChangesUsers
<1>3. IInv /\ ManagedInv /\ [Next]_vars
        => [Protocol!Next]_<<[k \in Keys |-> Stage(k)],
                             [k \in Keys |-> users[AccessOf(k)] # None]>>
  BY <1>2 DEF Stages, Present
<1> QED
  BY <1>1, <1>2, <1>3, InductiveInvariant, PTL
  DEF Spec, ImplementsManagedResource, Protocol!Spec

\* What the protocol is for follows from it alone, whatever the controller does:
\* with deletion enabled no S3 user is left when its CR is gone.
THEOREM ManagedUsersAreNotOrphaned ==
    ASSUME KeysNeverRunOut, OneUserEach, AccessKeysAreKept, UserCRsHaveSpecs
    PROVE  Spec => []Protocol!NoOrphan
<1>1. Protocol!Init => Protocol!NoOrphan
  BY DEF Protocol!Init, Protocol!NoOrphan
<1>2. Protocol!NoOrphan /\ [Protocol!Next]_<<Stages, Present>> => Protocol!NoOrphan'
  BY DEF Protocol!NoOrphan, Protocol!Next, Protocol!Declare, Protocol!Withdraw,
         Protocol!Hold, Protocol!Terminate, Protocol!Provision, Protocol!Deprovision,
         Protocol!Release, Protocol!Move, Stages, Present
<1>3. Protocol!NoOrphan /\ [Protocol!Next]_<<[k \in Keys |-> Stage(k)],
                                            [k \in Keys |-> users[AccessOf(k)] # None]>>
        => Protocol!NoOrphan'
  BY <1>2 DEF Stages, Present
<1>4. Protocol!Spec => []Protocol!NoOrphan
  BY <1>1, <1>3, PTL DEF Protocol!Spec
<1> QED
  BY <1>4, UsersAreManaged, PTL DEF ImplementsManagedResource

=============================================================================
