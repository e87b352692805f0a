--------------------------- MODULE CredentialsProofs ---------------------------
(***************************************************************************)
(* Proof of CredentialsDelivered, for any set of S3User CRs that do not    *)
(* share S3 users or secrets: an S3User that says "Reconciled" and that    *)
(* nothing is going to wake up has a secret that opens its S3 user, and    *)
(* that user has its policies, unless the operator looked at a secret of   *)
(* another name, or could not read the credentials in an existing one.     *)
(***************************************************************************)
EXTENDS UsersProofs

-----------------------------------------------------------------------------
(* Names *)

\* The CRs do not get in the way of each other, and secrets made by others fit them.
Separate == OneUserEach /\ SecretsAreApart /\ ForeignSecretsFit /\ AccessKeysAreKept

\* A CR asks for its secret under one of its names.
LEMMA Names ==
    ASSUME NEW k \in Keys
    PROVE  /\ NamesOf(k) \subseteq SecretNames
           /\ DefaultName[k] \in NamesOf(k)
           /\ \A spec \in Specs[k] :
                /\ spec.access \in AccessKeys
                /\ spec.secret # None => spec.secret \in NamesOf(k)
                /\ (IF spec.secret = None THEN DefaultName[k] ELSE spec.secret) \in NamesOf(k)
<1>1. DefaultName[k] \in SecretNames /\ DefaultName[k] # None
  BY DefaultNameAssumption, UserConstants
<1>2. \A spec \in Specs[k] : spec.secret \in SecretNames \cup {None} /\ spec.access \in AccessKeys
  <2> SUFFICES ASSUME NEW spec \in Specs[k]
               PROVE  spec.secret \in SecretNames \cup {None} /\ spec.access \in AccessKeys
    OBVIOUS
  <2>1. spec \in UserSpecs
    BY UserSpecsAssumption
  <2> QED
    BY <2>1 DEF UserSpecs
<1>3. DefaultName[k] \in NamesOf(k)
  BY <1>1 DEF NamesOf
<1>4. \A spec \in Specs[k] : spec.secret # None => spec.secret \in NamesOf(k)
  BY DEF NamesOf
<1>5. NamesOf(k) \subseteq SecretNames
  BY <1>1, <1>2 DEF NamesOf
<1> QED
  BY <1>2, <1>3, <1>4, <1>5

LEMMA SpecFields ==
    ASSUME NEW k \in Keys, NEW spec \in Specs[k]
    PROVE  spec.accessField \in FieldNames /\ spec.keyField \in FieldNames
<1>1. spec \in UserSpecs
  BY UserSpecsAssumption
<1> QED
  BY <1>1 DEF UserSpecs

\* An owner is not None.
LEMMA OwnersAreSome == None \notin Owners
<1>1. None \notin [cr : Keys, uid : Int]
  BY UserConstants
<1>2. Owners \subseteq [cr : Keys, uid : Int]
  BY DEF Owners
<1> QED
  BY <1>1, <1>2

\* So does a worker.
LEMMA SecretNameIsItsOwn ==
    ASSUME IInv, NEW k \in Keys, pc[k] # "Idle"
    PROVE  SecretName(k) \in NamesOf(k) /\ SecretName(k) \in SecretNames
<1>1. Wanted(k) \in Specs[k]
  BY HandlerData
<1> QED
  BY <1>1, Names DEF SecretName

-----------------------------------------------------------------------------
(* What becomes of a secret *)

\* The versions of a secret.
LEMMA SecretVersions ==
    ASSUME IInv, NEW n \in SecretNames
    PROVE  /\ secrets[n] \in Seq(Secrets \cup {None}) \ {<<>>}
           /\ Len(secrets[n]) \in Nat \ {0}
           /\ Len(secrets[n]) \in 1..Len(secrets[n])
           /\ 1 \in 1..Len(secrets[n])
           /\ \A i \in 1..Len(secrets[n]) : secrets[n][i] \in Secrets \cup {None}
<1> DEFINE S == Secrets \cup {None}  vs == secrets[n]
<1>1. vs \in Seq(S) \ {<<>>}
  BY Typed
<1> HIDE DEF S, vs
<1>2. Len(vs) \in Nat \ {0} /\ \A i \in 1..Len(vs) : vs[i] \in S
  BY <1>1
<1> QED
  BY <1>1, <1>2 DEF S, vs

\* What the operator, the garbage collector and others may store after that.
MayStore(n, s) ==
    /\ s \in Secrets \cup {None}
    /\ SecretFits(n, s)
    /\ s = None \/ s.owner # None
    /\ s = None /\ StoredSecret(n) # None => StoredSecret(n).owner # None

\* It wakes up the CR that asks for the secret, if there was one.
LEMMA ChangeWakes ==
    ASSUME Separate, IInv, SecretsInv, NEW n \in SecretNames, NEW s, MayStore(n, s),
           StoredSecret(n) # None, NEW k \in Keys, n \in NamesOf(k)
    PROVE  k \in Woken(StoredSecret(n), s)
<1> DEFINE old == StoredSecret(n)
<1>1. old \in Secrets \cup {None} /\ SecretFits(n, old)
  BY Typed, SecretVersions DEF SecretsInv, StoredSecret
<1>2. ASSUME NEW v \in Secrets, SecretFits(n, v), v.owner # None
      PROVE  v.owner.cr = k
  <2>1. v # None
    BY UserConstants
  <2>2. v.owner \in Owners
    BY <1>2 DEF Secrets
  <2>3. v.owner.cr \in Keys /\ n \in NamesOf(v.owner.cr)
    BY <1>2, <2>1, <2>2 DEF SecretFits, Owners
  <2> QED
    BY <2>3 DEF Separate, SecretsAreApart
<1> HIDE DEF old
<1>3. \/ old \in Secrets /\ old.owner # None
      \/ s \in Secrets /\ s # None /\ s.owner # None
  BY <1>1, UserConstants DEF MayStore, old
<1>4. CASE old \in Secrets /\ old.owner # None
  BY <1>1, <1>2, <1>4 DEF Woken, OwnersIn, old
<1>5. CASE s \in Secrets /\ s # None /\ s.owner # None
  BY <1>2, <1>5 DEF Woken, OwnersIn, MayStore
<1> QED
  BY <1>3, <1>4, <1>5

\* A step adds a version to the secrets, or none.
SecretsGrow ==
    \/ UNCHANGED secrets
    \/ \E n \in SecretNames : \E s : MayStore(n, s) /\ StoreSecret(n, s)

\* No change of a secret is forgotten, no secret is disowned, and a secret stays as it
\* is as long as no change of it is to be delivered.
Stays(k) ==
    /\ Quiet(k)' => Quiet(k)
    /\ \A n \in SecretNames : OnceOwned(n) => OnceOwned(n)'
    /\ Quiet(k)' => \A n \in NamesOf(k) : StoredSecret(n) # None
                                            => StoredSecret(n)' = StoredSecret(n)

\* What one more version does to the versions of a secret.
LEMMA StoredVersions ==
    ASSUME IInv, NEW n \in SecretNames, NEW s \in Secrets \cup {None}, StoreSecret(n, s)
    PROVE  /\ \A m \in SecretNames \ {n} : secrets'[m] = secrets[m]
           /\ Len(secrets'[n]) = Len(secrets[n]) + 1
           /\ \A i \in 1..Len(secrets[n]) : secrets'[n][i] = secrets[n][i]
           /\ secrets'[n][Len(secrets[n]) + 1] = s
           /\ StoredSecret(n)' = s
           /\ \A m \in SecretNames \ {n} : StoredSecret(m)' = StoredSecret(m)
<1> DEFINE S == Secrets \cup {None}  vs == secrets[n]  ws == Append(vs, s)
<1>1. vs \in Seq(S) \ {<<>>}
  BY SecretVersions
<1>2. secrets' = [secrets EXCEPT ![n] = ws] /\ secrets = [m \in SecretNames |-> secrets[m]]
  BY Typed DEF StoreSecret
<1> HIDE DEF S
<1>3. /\ Len(ws) = Len(vs) + 1
      /\ \A i \in 1..Len(vs) : ws[i] = vs[i]
      /\ ws[Len(vs) + 1] = s
  <2>1. s \in S
    BY DEF S
  <2> HIDE DEF vs
  <2> QED
    BY <1>1, <2>1, Appended
<1> HIDE DEF vs, ws
<1>4. secrets'[n] = ws /\ \A m \in SecretNames \ {n} : secrets'[m] = secrets[m]
  BY <1>2
<1> QED
  BY <1>3, <1>4 DEF StoredSecret, vs

\* The watch has then a change to deliver that wakes up the CR.
LEMMA ChangeIsPending ==
    ASSUME Separate, IInv, SecretsInv, NEW n \in SecretNames, NEW s, MayStore(n, s),
           StoreSecret(n, s), StoredSecret(n) # None, NEW k \in Keys, n \in NamesOf(k)
    PROVE  WillBeWoken(k)'
<1> DEFINE len == Len(secrets[n])
<1>1. /\ Len(secrets'[n]) = len + 1
      /\ \A i \in 1..len : secrets'[n][i] = secrets[n][i]
      /\ secrets'[n][len + 1] = s
  BY StoredVersions DEF MayStore
<1>2. len \in Nat \ {0} /\ secrets[n][len] = StoredSecret(n)
  BY SecretVersions DEF StoredSecret
<1> HIDE DEF len
<1>3. k \in Woken(StoredSecret(n), s)
  BY ChangeWakes
<1>4. len \in 1..(Len(secrets'[n]) - 1) /\ len \in 1..len
  BY <1>1, <1>2
<1>5. k \in Woken(secrets'[n][len], secrets'[n][len + 1])
  BY <1>1, <1>2, <1>3, <1>4
<1> QED
  BY <1>4, <1>5 DEF WillBeWoken, Woken, OwnersIn

LEMMA GrowingStays ==
    ASSUME Separate, IInv, SecretsInv, SecretsGrow, NEW k \in Keys,
           k \in queue => k \in queue'
    PROVE  Stays(k)
<1>1. CASE UNCHANGED secrets
  BY <1>1 DEF Stays, Quiet, WillBeWoken, OnceOwned, StoredSecret
<1>2. ASSUME NEW n \in SecretNames, NEW s, MayStore(n, s), StoreSecret(n, s)
      PROVE  Stays(k)
  <2> DEFINE len == Len(secrets[n])
  <2>1. /\ \A m \in SecretNames \ {n} : secrets'[m] = secrets[m]
        /\ Len(secrets'[n]) = len + 1
        /\ \A i \in 1..len : secrets'[n][i] = secrets[n][i]
        /\ secrets'[n][len + 1] = s
        /\ StoredSecret(n)' = s
        /\ \A m \in SecretNames \ {n} : StoredSecret(m)' = StoredSecret(m)
    BY <1>2, StoredVersions DEF MayStore
  <2>2. len \in Nat \ {0} /\ secrets[n][len] = StoredSecret(n)
    BY SecretVersions DEF StoredSecret
  <2> HIDE DEF len
  <2>3. WillBeWoken(k) => WillBeWoken(k)'
    <3> SUFFICES ASSUME NEW m \in SecretNames, NEW i \in 1..(Len(secrets[m]) - 1),
                        k \in Woken(secrets[m][i], secrets[m][i + 1])
                 PROVE  \E j \in 1..(Len(secrets'[m]) - 1) :
                          k \in Woken(secrets'[m][j], secrets'[m][j + 1])
      BY DEF WillBeWoken, Woken, OwnersIn
    <3>1. CASE m # n
      BY <2>1, <3>1
    <3>2. CASE m = n
      <4>1. i \in 1..len /\ i + 1 \in 1..len /\ i \in 1..(Len(secrets'[n]) - 1)
        BY <2>1, <2>2, <3>2 DEF len
      <4> QED
        BY <2>1, <3>2, <4>1
    <3> QED
      BY <3>1, <3>2
  <2>4. ASSUME n \in NamesOf(k), StoredSecret(n) # None PROVE WillBeWoken(k)'
    BY <1>2, <2>4, ChangeIsPending
  <2>5. \A m \in SecretNames : OnceOwned(m) => OnceOwned(m)'
    BY <1>2, <2>1 DEF OnceOwned, MayStore
  <2>6. Quiet(k)' => Quiet(k)
    BY <2>3 DEF Quiet
  <2>7. ASSUME Quiet(k)', NEW m \in NamesOf(k), StoredSecret(m) # None
        PROVE  StoredSecret(m)' = StoredSecret(m)
    <3>1. ~WillBeWoken(k)' /\ m \in SecretNames
      BY <2>7, Names DEF Quiet
    <3>2. m # n
      BY <2>4, <2>7, <3>1
    <3> QED
      BY <2>1, <3>1, <3>2
  <2> QED
    BY <2>5, <2>6, <2>7 DEF Stays
<1> QED
  BY <1>1, <1>2 DEF SecretsGrow

LEMMA GrowingKeepsSecretsInv ==
    ASSUME Separate, IInv, SecretsInv, SecretsGrow
    PROVE  SecretsInv'
<1>1. CASE UNCHANGED secrets
  BY <1>1 DEF SecretsInv, SecretFits, Woken, OwnersIn
<1>2. ASSUME NEW n \in SecretNames, NEW s, MayStore(n, s), StoreSecret(n, s)
      PROVE  SecretsInv'
  <2> DEFINE len == Len(secrets[n])
  <2>1. /\ \A m \in SecretNames \ {n} : secrets'[m] = secrets[m]
        /\ Len(secrets'[n]) = len + 1
        /\ \A i \in 1..len : secrets'[n][i] = secrets[n][i]
        /\ secrets'[n][len + 1] = s
    BY <1>2, StoredVersions DEF MayStore
  <2>2. len \in Nat \ {0} /\ secrets[n][len] = StoredSecret(n)
    BY SecretVersions DEF StoredSecret
  <2>3. SecretFits(n, s) /\ (s = None \/ s.owner # None)
    BY <1>2 DEF MayStore
  <2>4. StoredSecret(n) # None =>
          \A k \in Keys : n \in NamesOf(k) => k \in Woken(StoredSecret(n), s)
    BY <1>2, ChangeWakes
  <2>5. \A i \in 1..len :
          /\ SecretFits(n, secrets[n][i])
          /\ i > 1 => secrets[n][i] = None \/ secrets[n][i].owner # None
          /\ i > 1 /\ secrets[n][i - 1] # None =>
               \A k \in Keys : n \in NamesOf(k) =>
                 k \in Woken(secrets[n][i - 1], secrets[n][i])
    BY DEF SecretsInv
  <2> HIDE DEF len
  <2> SUFFICES ASSUME NEW m \in SecretNames, NEW i \in 1..Len(secrets'[m])
               PROVE  /\ SecretFits(m, secrets'[m][i])
                      /\ i > 1 => secrets'[m][i] = None \/ secrets'[m][i].owner # None
                      /\ i > 1 /\ secrets'[m][i - 1] # None =>
                           \A k \in Keys : m \in NamesOf(k) =>
                             k \in Woken(secrets'[m][i - 1], secrets'[m][i])
    BY DEF SecretsInv, SecretFits, Woken, OwnersIn
  <2>6. CASE m # n
    BY <2>1, <2>6 DEF SecretsInv
  <2>7. CASE m = n /\ i \in 1..len
    <3>1. i > 1 => i - 1 \in 1..len
      BY <2>2, <2>7
    <3>2. secrets'[m][i] = secrets[n][i]
          /\ (i > 1 => secrets'[m][i - 1] = secrets[n][i - 1])
      BY <2>1, <2>7, <3>1
    <3> QED
      BY <2>5, <2>7, <3>2
  <2>8. CASE m = n /\ i = len + 1
    <3>1. i - 1 = len /\ len \in 1..len
      BY <2>2, <2>8
    <3>2. secrets'[m][i] = s /\ secrets'[m][i - 1] = StoredSecret(n)
      BY <2>1, <2>2, <2>8, <3>1
    <3> QED
      BY <2>3, <2>4, <2>8, <3>2
  <2> QED
    BY <2>1, <2>2, <2>6, <2>7, <2>8
<1> QED
  BY <1>1, <1>2 DEF SecretsGrow

\* The watch forgets the first version of a secret.
LEMMA DeliveredVersions ==
    ASSUME IInv, NEW n \in SecretNames, DeliverSecret(n)
    PROVE  /\ \A m \in SecretNames \ {n} : secrets'[m] = secrets[m]
           /\ Len(secrets'[n]) = Len(secrets[n]) - 1
           /\ \A i \in 1..(Len(secrets[n]) - 1) : secrets'[n][i] = secrets[n][i + 1]
           /\ \A m \in SecretNames : StoredSecret(m)' = StoredSecret(m)
           /\ Len(secrets[n]) > 1
<1> DEFINE S == Secrets \cup {None}  vs == secrets[n]  ws == Tail(vs)
<1>1. vs \in Seq(S) \ {<<>>} /\ Len(vs) > 1
  BY SecretVersions DEF DeliverSecret
<1>2. secrets' = [secrets EXCEPT ![n] = ws] /\ secrets = [m \in SecretNames |-> secrets[m]]
  BY Typed DEF DeliverSecret
<1> HIDE DEF S
<1>3. /\ Len(ws) = Len(vs) - 1 /\ Len(vs) \in Nat
      /\ \A i \in 1..(Len(vs) - 1) : ws[i] = vs[i + 1]
  <2> HIDE DEF vs
  <2> QED
    BY <1>1
<1> HIDE DEF vs, ws
<1>4. secrets'[n] = ws /\ \A m \in SecretNames \ {n} : secrets'[m] = secrets[m]
  BY <1>2
<1>5. ws[Len(ws)] = vs[Len(vs)]
  BY <1>1, <1>3
<1> QED
  BY <1>1, <1>3, <1>4, <1>5 DEF StoredSecret, vs

LEMMA DeliveringStays ==
    ASSUME IInv, NEW n \in SecretNames, DeliverSecret(n), NEW k \in Keys
    PROVE  Stays(k)
<1> DEFINE len == Len(secrets[n])
<1>1. /\ \A m \in SecretNames \ {n} : secrets'[m] = secrets[m]
      /\ Len(secrets'[n]) = len - 1
      /\ \A i \in 1..(len - 1) : secrets'[n][i] = secrets[n][i + 1]
      /\ \A m \in SecretNames : StoredSecret(m)' = StoredSecret(m)
      /\ len \in Nat
  BY DeliveredVersions, SecretVersions
<1> HIDE DEF len
<1>2. queue' = queue \cup Woken(secrets[n][1], secrets[n][2])
  BY DEF DeliverSecret
<1>3. ASSUME WillBeWoken(k) PROVE WillBeWoken(k)' \/ k \in queue'
  <2>1. PICK m \in SecretNames : \E i \in 1..(Len(secrets[m]) - 1) :
                                   k \in Woken(secrets[m][i], secrets[m][i + 1])
    BY <1>3 DEF WillBeWoken
  <2>2. PICK i \in 1..(Len(secrets[m]) - 1) : k \in Woken(secrets[m][i], secrets[m][i + 1])
    BY <2>1
  <2>3. CASE m # n
    <3>1. i \in 1..(Len(secrets'[m]) - 1)
          /\ k \in Woken(secrets'[m][i], secrets'[m][i + 1])
      BY <1>1, <2>2, <2>3
    <3> QED
      BY <3>1 DEF WillBeWoken, Woken, OwnersIn
  <2>4. CASE m = n /\ i = 1
    BY <1>2, <2>2, <2>4
  <2>5. CASE m = n /\ i # 1
    <3>1. /\ i - 1 \in 1..(Len(secrets'[n]) - 1)
          /\ i - 1 \in 1..(len - 1) /\ i \in 1..(len - 1) /\ (i - 1) + 1 = i
      BY <1>1, <2>2, <2>5 DEF len
    <3>2. k \in Woken(secrets'[n][i - 1], secrets'[n][(i - 1) + 1])
      BY <1>1, <2>2, <2>5, <3>1
    <3> QED
      BY <3>1, <3>2 DEF WillBeWoken, Woken, OwnersIn
  <2> QED
    BY <2>3, <2>4, <2>5
<1>4. Quiet(k)' => Quiet(k)
  BY <1>2, <1>3 DEF Quiet
<1>5. \A m \in SecretNames : OnceOwned(m) => OnceOwned(m)'
  BY <1>1 DEF OnceOwned
<1> QED
  BY <1>1, <1>4, <1>5, Names DEF Stays

LEMMA DeliveringKeepsSecretsInv ==
    ASSUME IInv, SecretsInv, NEW n \in SecretNames, DeliverSecret(n)
    PROVE  SecretsInv'
<1>1. /\ \A m \in SecretNames \ {n} : secrets'[m] = secrets[m]
      /\ Len(secrets'[n]) = Len(secrets[n]) - 1
      /\ \A i \in 1..(Len(secrets[n]) - 1) : secrets'[n][i] = secrets[n][i + 1]
      /\ Len(secrets[n]) \in Nat
  BY DeliveredVersions, SecretVersions
<1> SUFFICES ASSUME NEW m \in SecretNames, NEW i \in 1..Len(secrets'[m])
             PROVE  /\ SecretFits(m, secrets'[m][i])
                    /\ i > 1 => secrets'[m][i] = None \/ secrets'[m][i].owner # None
                    /\ i > 1 /\ secrets'[m][i - 1] # None =>
                         \A k \in Keys : m \in NamesOf(k) =>
                           k \in Woken(secrets'[m][i - 1], secrets'[m][i])
  BY DEF SecretsInv, SecretFits, Woken, OwnersIn
<1>2. CASE m # n
  BY <1>1, <1>2 DEF SecretsInv
<1>3. CASE m = n
  <2>1. /\ i + 1 \in 1..Len(secrets[n]) /\ i + 1 > 1 /\ (i + 1) - 1 = i
        /\ i \in 1..(Len(secrets[n]) - 1)
        /\ i > 1 => i - 1 \in 1..(Len(secrets[n]) - 1) /\ (i - 1) + 1 = i
    BY <1>1, <1>3
  <2>2. secrets'[n][i] = secrets[n][i + 1]
        /\ (i > 1 => secrets'[n][i - 1] = secrets[n][i])
    BY <1>1, <2>1
  <2>3. /\ SecretFits(n, secrets[n][i + 1])
        /\ i + 1 > 1 => secrets[n][i + 1] = None \/ secrets[n][i + 1].owner # None
        /\ i + 1 > 1 /\ secrets[n][(i + 1) - 1] # None =>
             \A k \in Keys : n \in NamesOf(k) =>
               k \in Woken(secrets[n][(i + 1) - 1], secrets[n][i + 1])
    BY <2>1 DEF SecretsInv
  <2> QED
    BY <1>3, <2>1, <2>2, <2>3
<1> QED
  BY <1>2, <1>3

\* A secret in the cache that the CR may ask for is the stored one, if no change of it
\* is to be delivered, and it is owned only if the stored one is not disowned.
LEMMA CachedIsStored ==
    ASSUME IInv, SecretsInv, NEW n \in SecretNames, CachedSecret(n) # None
    PROVE  /\ CachedSecret(n).owner # None => OnceOwned(n)
           /\ SecretFits(n, CachedSecret(n))
           /\ \A k \in Keys : n \in NamesOf(k) /\ Quiet(k)
                                => StoredSecret(n) = CachedSecret(n)
<1>1. Len(secrets[n]) \in Nat \ {0} /\ 1 \in 1..Len(secrets[n])
  BY SecretVersions
<1>2. CASE Len(secrets[n]) = 1
  BY <1>1, <1>2 DEF CachedSecret, StoredSecret, OnceOwned, SecretsInv
<1>3. CASE Len(secrets[n]) > 1
  <2>1. OnceOwned(n) /\ SecretFits(n, CachedSecret(n))
    BY <1>1, <1>3 DEF SecretsInv, OnceOwned, StoredSecret, CachedSecret
  <2>2. ASSUME NEW k \in Keys, n \in NamesOf(k) PROVE WillBeWoken(k)
    <3>1. 2 \in 1..Len(secrets[n]) /\ 1 \in 1..(Len(secrets[n]) - 1) /\ 2 > 1 /\ 2 - 1 = 1
          /\ 1 + 1 = 2
      BY <1>1, <1>3
    <3>2. k \in Woken(secrets[n][1], secrets[n][2])
      BY <2>2, <3>1 DEF SecretsInv, CachedSecret
    <3> QED
      BY <3>1, <3>2 DEF WillBeWoken
  <2> QED
    BY <2>1, <2>2 DEF Quiet
<1>4. Len(secrets[n]) = 1 \/ Len(secrets[n]) > 1
  <2> DEFINE len == Len(secrets[n])
  <2>1. len \in Nat \ {0}
    BY <1>1
  <2> HIDE DEF len
  <2>2. len = 1 \/ len > 1
    BY <2>1
  <2> QED
    BY <2>2 DEF len
<1> QED
  BY <1>2, <1>3, <1>4

-----------------------------------------------------------------------------
(* What the handlers do to the secrets *)

\* A worker on its way to provision is its CR's, and the CR is held.
LEMMA ProvisionIsHeld ==
    ASSUME IInv, NEW k \in Keys, pc[k] \in ProvisionLabels
    PROVE  Held(k) /\ Uid(k) = uids[k] /\ pc[k] # "Idle"
<1>1. pc[k] # "Idle"
  BY DEF ProvisionLabels, UserLabels
<1> QED
  BY <1>1 DEF Uid, IInv, LoopIInv, LoopInv, WorkerInv

\* A call that writes a secret, or fails.
LEMMA CallGrows ==
    ASSUME NEW n \in SecretNames, NEW s, NEW possible, possible => MayStore(n, s),
           \/ CallWorks(possible, SetSecret(n, s))
           \/ CallFails(possible, SetSecret(n, s))
    PROVE  SecretsGrow
  BY DEF CallWorks, CallFails, SetSecret, Reads, ReadFails, SecretsGrow

\* The deletion of a secret that is there and that has an owner.
LEMMA MayStoreNone ==
    ASSUME NEW n \in SecretNames, OnceOwned(n)
    PROVE  MayStore(n, None)
  BY DEF MayStore, SecretFits, OnceOwned

\* The secret of a CR.
LEMMA MayStoreOwn ==
    ASSUME Separate, IInv, NEW k \in Keys, pc[k] \in {"CreateSecret", "UpdateSecret"}
    PROVE  MayStore(SecretName(k), NewSecret(k)) /\ NewSecret(k).owner.cr = k
<1>1. pc[k] # "Idle"
  OBVIOUS
<1>2. NewSecret(k) \in Secrets /\ NewSecret(k) # None
  BY NewSecretTyped, UserConstants
<1>3. /\ NewSecret(k).owner = [cr |-> k, uid |-> Uid(k)]
      /\ NewSecret(k).data = NewData(k)
  BY DEF NewSecret, Self
<1>4. NewSecret(k).owner # None /\ NewSecret(k).owner.cr = k
  <2>1. Uid(k) \in Nat
    BY ProvisionIsHeld, Typed DEF ProvisionLabels, UserLabels
  <2>2. NewSecret(k).owner \in Owners
    BY <1>3, <2>1 DEF Owners
  <2> QED
    BY <1>3, <2>2, OwnersAreSome
<1>5. SecretFits(SecretName(k), NewSecret(k))
  <2>1. SecretName(k) \in NamesOf(k) /\ Wanted(k) \in Specs[k]
    BY <1>1, SecretNameIsItsOwn, HandlerData
  <2>2. \A l \in Keys : SecretName(k) \in NamesOf(l) => l = k
    BY <2>1 DEF Separate, SecretsAreApart
  <2>3. ASSUME NEW t \in Specs[k] PROVE IsOf(NewSecret(k), t)
    <3>1. t.accessField \in FieldNames /\ t.access = Wanted(k).access
      BY <2>1, <2>3, SpecFields DEF Separate, AccessKeysAreKept
    <3>2. work[k].key \in Passwords \cup {None}
      BY Typed, MemoryFields
    <3>3. work[k].key \notin AccessKeys /\ None \notin AccessKeys
      BY <3>2, UserConstants DEF Values
    <3>4. AccessIn(NewSecret(k), t) = NewData(k)[t.accessField]
      BY <1>3 DEF AccessIn
    <3>5. NewData(k)[t.accessField] \in {t.access, work[k].key, None}
      BY <3>1 DEF NewData
    <3> QED
      BY <3>3, <3>4, <3>5 DEF IsOf
  <2> QED
    BY <1>4, <2>1, <2>2, <2>3 DEF SecretFits
<1> QED
  BY <1>2, <1>4, <1>5 DEF MayStore

\* Whatever a handler does to a secret wakes up its CR.
LEMMA HandlersGrow ==
    ASSUME Separate, IInv, NEW k \in Keys, MemoryInv(k), S3UserStep(k)
    PROVE  SecretsGrow
<1>1. pc[k] # "Idle" => SecretName(k) \in SecretNames
  BY SecretNameIsItsOwn
<1>2. work[k].delete \subseteq SecretNames
  BY FewerSecrets
<1>3. CASE DeleteUnused(k)
  <2>1. PICK n \in work[k].delete :
          \/ CallWorks(StoredSecret(n) # None, SetSecret(n, None))
          \/ CallFails(StoredSecret(n) # None, SetSecret(n, None))
    BY <1>3 DEF DeleteUnused, DeleteSecretNamed, Call
  <2>2. n \in SecretNames /\ MayStore(n, None)
    BY <1>2, MayStoreNone DEF MemoryInv
  <2> QED
    BY <2>1, <2>2, CallGrows
<1>4. CASE DeleteSecret(k)
  <2>1. \/ CallWorks(StoredSecret(SecretName(k)) # None, SetSecret(SecretName(k), None))
        \/ CallFails(StoredSecret(SecretName(k)) # None, SetSecret(SecretName(k), None))
    BY <1>4 DEF DeleteSecret, DeleteSecretNamed, Call
  <2>2. pc[k] = "DeleteSecret"
    BY <1>4 DEF DeleteSecret, At
  <2>3. SecretName(k) \in SecretNames /\ MayStore(SecretName(k), None)
    BY <1>1, <2>2, MayStoreNone DEF MemoryInv
  <2> QED
    BY <2>1, <2>3, CallGrows
<1>5. CASE CreateSecret(k) \/ UpdateSecret(k)
  <2>1. pc[k] \in {"CreateSecret", "UpdateSecret"}
    BY <1>5 DEF CreateSecret, UpdateSecret, At
  <2>2. PICK possible \in BOOLEAN :
          \/ CallWorks(possible, SetSecret(SecretName(k), NewSecret(k)))
          \/ CallFails(possible, SetSecret(SecretName(k), NewSecret(k)))
    BY <1>5 DEF CreateSecret, UpdateSecret, Call
  <2>3. SecretName(k) \in SecretNames
    BY <1>1, <2>1
  <2>4. MayStore(SecretName(k), NewSecret(k))
    BY <2>1, MayStoreOwn
  <2> QED
    BY <2>2, <2>3, <2>4, CallGrows
<1>6. CASE DeleteOwned(k)
  <2>1. PICK n \in work[k].delete :
          \/ CallWorks(StoredSecret(n) # None, SetSecret(n, None))
          \/ CallFails(StoredSecret(n) # None, SetSecret(n, None))
    BY <1>6 DEF DeleteOwned
  <2>2. n \in SecretNames /\ MayStore(n, None)
    BY <1>2, MayStoreNone DEF MemoryInv
  <2> QED
    BY <2>1, <2>2, CallGrows
<1>7. CASE HandleUser(k) \/ GetPolicies(k) \/ CheckCredentials(k)
  BY <1>7 DEF HandleUser, GetPolicies, CheckCredentials, Reads, ReadFails, SecretsGrow
<1>8. CASE RemovePolicies(k) \/ AddPolicies(k) \/ DropUser(k)
  BY <1>8 DEF RemovePolicies, AddPolicies, DropUser, Call, CallWorks, CallFails, Attach,
              SetUser, Reads, ReadFails, SecretsGrow
<1>9. CASE Create(k)
  BY <1>9 DEF Create, CreateWithNewKey, CreateOnExisting, Refuse, Call, CallWorks,
              CallFails, PutUser, SetUser, Reads, ReadFails, SecretsGrow
<1>10. CASE AttachPolicies(k) \/ FinalizeUser(k)
  BY <1>10 DEF AttachPolicies, FinalizeUser, CallWorks, CallFails, Attach, SetUser, Reads,
               ReadFails, SecretsGrow
<1> QED
  BY <1>3, <1>4, <1>5, <1>6, <1>7, <1>8, <1>9, <1>10 DEF S3UserStep

\* A secret with another value in a field.
LEMMA FieldOf ==
    ASSUME NEW s \in Secrets, NEW f \in FieldNames, NEW v, v \in Values \cup {None}
    PROVE  /\ [s EXCEPT !.data[f] = v] \in Secrets
           /\ [s EXCEPT !.data[f] = v].owner = s.owner
           /\ \A g \in FieldNames : [s EXCEPT !.data[f] = v].data[g] \in {s.data[g], v}
<1> DEFINE d == [s.data EXCEPT ![f] = v]
<1>1. s.data \in Data
  BY DEF Secrets
<1>2. d \in Data /\ \A g \in FieldNames : d[g] \in {s.data[g], v}
  BY <1>1 DEF Data
<1>3. [s EXCEPT !.data[f] = v] = [s EXCEPT !.data = d]
  BY DEF Secrets
<1> HIDE DEF d
<1>4. [s EXCEPT !.data = d] \in Secrets /\ [s EXCEPT !.data = d].owner = s.owner
      /\ [s EXCEPT !.data = d].data = d
  BY <1>2 DEF Secrets
<1> QED
  BY <1>2, <1>3, <1>4

\* The garbage collector deletes secrets that have an owner, and others leave it.
LEMMA OthersGrow ==
    ASSUME Separate, KeysNeverRunOut, IInv, SecretsInv,
           NEW n \in SecretNames, Collect(n) \/ Tamper(n)
    PROVE  SecretsGrow
<1> DEFINE old == StoredSecret(n)
<1>1. old \in Secrets /\ old # None /\ old.owner # None
  BY Typed DEF Collect, Tamper, OwnersIn
<1>2. SecretFits(n, old)
  BY SecretVersions DEF SecretsInv, StoredSecret
<1>3. MayStore(n, None)
  BY <1>1, MayStoreNone DEF OnceOwned
<1>4. ASSUME NEW s \in Tampered(old) PROVE MayStore(n, s)
  <2>1. NewKey \in Passwords
    BY NewKeyIsNew DEF IInv
  <2> HIDE DEF old
  <2>2. s \in {[old EXCEPT !.data[f] = v] : f \in FieldNames, v \in {NewKey, Empty, None}}
    BY <1>4 DEF Tampered
  <2>3. PICK f \in FieldNames, v \in {NewKey, Empty, None} : s = [old EXCEPT !.data[f] = v]
    BY <2>2
  <2>4. /\ s \in Secrets /\ s.owner = old.owner
        /\ \A g \in FieldNames : s.data[g] \in {old.data[g], v}
    BY <1>1, <2>1, <2>3, FieldOf DEF Values
  <2>5. s # None
    BY <2>4, UserConstants
  <2>6. v \notin AccessKeys
    BY <2>1, UserConstants DEF Values
  <2>7. ASSUME NEW k \in Keys, n \in NamesOf(k), NEW t \in Specs[k] PROVE IsOf(s, t)
    <3>1. IsOf(old, t)
      BY <1>1, <1>2, <2>7 DEF SecretFits
    <3>2. AccessIn(s, t) \in {AccessIn(old, t), v}
      BY <2>4, SpecFields DEF AccessIn
    <3> QED
      BY <2>6, <3>1, <3>2 DEF IsOf
  <2>8. SecretFits(n, s)
    BY <1>1, <1>2, <2>4, <2>7 DEF SecretFits
  <2> QED
    BY <1>1, <2>4, <2>5, <2>8 DEF MayStore
<1>5. StoreSecret(n, None) \/ \E s \in Tampered(old) : StoreSecret(n, s)
  BY DEF Collect, Tamper
<1> QED
  BY <1>3, <1>4, <1>5 DEF SecretsGrow

-----------------------------------------------------------------------------
(* Steps that leave a worker and its S3 user alone *)

\* The S3 user k asks for is as it was.
UserStays(k) == \A spec \in Specs[k] : users'[spec.access] = users[spec.access]

\* What a CR was promised is still true.
LEMMA PromisesStay ==
    ASSUME NEW k \in Keys, Stays(k), Quiet(k)', uids'[k] = uids[k], flags' = flags,
           NEW spec \in Specs[k]
    PROVE  /\ users'[spec.access] = users[spec.access] /\ Delivers(k, spec)
                => Delivers(k, spec)'
           /\ Hides(k, spec) => Hides(k, spec)'
           /\ CannotRead(k, spec) => CannotRead(k, spec)'
<1> DEFINE n == IF spec.secret = None THEN DefaultName[k] ELSE spec.secret
<1>1. n \in NamesOf(k) /\ DefaultName[k] \in NamesOf(k)
  BY Names
<1>2. \A m \in NamesOf(k) : StoredSecret(m) # None => StoredSecret(m)' = StoredSecret(m)
  BY DEF Stays
<1>3. StoredSecret(n) # None => StoredSecret(n)' = StoredSecret(n)
  BY <1>1, <1>2
<1>4. /\ StoredSecret(DefaultName[k]) # None
        => StoredSecret(DefaultName[k])' = StoredSecret(DefaultName[k])
  BY <1>1, <1>2
<1>5. users'[spec.access] = users[spec.access] /\ Delivers(k, spec) => Delivers(k, spec)'
  BY <1>3 DEF Delivers, SecretOf, AccessIn, KeyIn
<1>6. Hides(k, spec) => Hides(k, spec)'
  BY <1>4 DEF Hides
<1>7. CannotRead(k, spec) => CannotRead(k, spec)'
  BY <1>3 DEF CannotRead, SecretOf, AccessIn, KeyIn
<1> QED
  BY <1>5, <1>6, <1>7

\* What a worker knows is still true.
LEMMA WorkStays ==
    ASSUME IInv, NEW k \in Keys, Stays(k), UserStays(k),
           pc'[k] = pc[k], res'[k] = res[k], out'[k] = out[k], work'[k] = work[k],
           Held(k) => Held(k)' /\ uids'[k] = uids[k], flags' = flags,
           MemoryInv(k), HandlerInv(k), OutcomeInv(k)
    PROVE  MemoryInv(k)' /\ HandlerInv(k)' /\ OutcomeInv(k)'
<1> DEFINE n == SecretName(k)  spec == Wanted(k)
<1>1. work[k].delete \subseteq SecretNames
  BY FewerSecrets
<1>2. Wanted(k)' = Wanted(k) /\ SecretName(k)' = SecretName(k)
  BY DEF Wanted, SecretName
<1>3. pc[k] # "Idle" => /\ spec \in Specs[k]
                        /\ n \in NamesOf(k) /\ n \in SecretNames
                        /\ S3User(k)' = S3User(k)
  BY <1>2, HandlerData, SecretNameIsItsOwn DEF UserStays, S3User
<1>4. pc[k] # "Idle" /\ Quiet(k)' =>
        /\ Quiet(k)
        /\ StoredSecret(n) # None => StoredSecret(n)' = StoredSecret(n)
        /\ Held(k) /\ Delivers(k, spec) => Delivers(k, spec)'
        /\ Held(k) /\ Hides(k, spec) => Hides(k, spec)'
        /\ Held(k) /\ CannotRead(k, spec) => CannotRead(k, spec)'
  <2> SUFFICES ASSUME pc[k] # "Idle", Quiet(k)'
               PROVE  /\ Quiet(k)
                      /\ StoredSecret(n) # None => StoredSecret(n)' = StoredSecret(n)
                      /\ Held(k) /\ Delivers(k, spec) => Delivers(k, spec)'
                      /\ Held(k) /\ Hides(k, spec) => Hides(k, spec)'
                      /\ Held(k) /\ CannotRead(k, spec) => CannotRead(k, spec)'
    BY <1>2
  <2>1. Quiet(k) /\ (StoredSecret(n) # None => StoredSecret(n)' = StoredSecret(n))
    BY <1>2, <1>3 DEF Stays
  <2>2. \A t \in Specs[k] : Held(k) =>
          /\ users'[t.access] = users[t.access]
          /\ Delivers(k, t) => Delivers(k, t)'
          /\ Hides(k, t) => Hides(k, t)'
          /\ CannotRead(k, t) => CannotRead(k, t)'
    BY PromisesStay DEF UserStays
  <2> QED
    BY <1>2, <1>3, <2>1, <2>2
<1>5. MemoryInv(k)'
  <2>1. \A m \in work'[k].delete : OnceOwned(m)'
    BY <1>1 DEF MemoryInv, Stays
  <2>2. pc'[k] \in UpdateLabels => work'[k].secret # None
    BY DEF MemoryInv
  <2>3. ASSUME pc'[k] \in UpdateLabels \cup {"DeleteUnused"}, work'[k].secret # None
        PROVE  /\ IsOf(work[k].secret, Wanted(k))'
               /\ work'[k].owned => OnceOwned(SecretName(k))'
               /\ Quiet(k)' => \/ work'[k].secret = StoredSecret(SecretName(k))'
                               \/ Hides(k, Wanted(k))'
    <3>1. pc[k] \in ProvisionLabels
      BY <2>3 DEF UpdateLabels, ProvisionLabels, UserLabels
    <3>2. Held(k) /\ pc[k] # "Idle"
      BY <3>1, ProvisionIsHeld
    <3>3. /\ IsOf(work[k].secret, Wanted(k))
          /\ work[k].owned => OnceOwned(n)
          /\ Quiet(k) => work[k].secret = StoredSecret(n) \/ Hides(k, spec)
      BY <2>3 DEF MemoryInv
    <3>4. OnceOwned(n) => OnceOwned(SecretName(k))'
      BY <1>2, <1>3, <3>2 DEF Stays
    <3>5. IsOf(work[k].secret, Wanted(k))'
      BY <1>2, <3>3 DEF IsOf, AccessIn
    <3> QED
      BY <1>2, <1>4, <2>3, <3>2, <3>3, <3>4, <3>5
  <2>4. pc'[k] = "DeleteSecret" => OnceOwned(SecretName(k))'
    BY <1>2, <1>3 DEF MemoryInv, Stays
  <2> QED
    BY <1>2, <2>1, <2>2, <2>3, <2>4 DEF MemoryInv
<1>6. HandlerInv(k)'
  <2>1. CASE pc[k] = "Idle"
    BY <2>1 DEF HandlerInv, UpdateLabels
  <2>2. CASE pc[k] # "Idle"
    <3>1. S3User(k)' = S3User(k)
      BY <1>3, <2>2
    <3>2. CASE pc[k] = "AttachPolicies"
      <4>1. Held(k)
        BY <3>2, ProvisionIsHeld DEF ProvisionLabels, UserLabels
      <4>2. S3User(k) # None /\ S3User(k).policies = {}
        BY <3>2 DEF HandlerInv
      <4>3. ASSUME Quiet(k)'
            PROVE  \/ CannotRead(k, Wanted(k))'
                   \/ LET s == StoredSecret(SecretName(k))'
                      IN  /\ s # None
                          /\ AccessIn(s, Wanted(k)') = Wanted(k)'.access
                          /\ KeyIn(s, Wanted(k)') = S3User(k)'.key
        BY <1>2, <1>4, <2>2, <3>1, <3>2, <4>1, <4>3 DEF HandlerInv
      <4> QED
        BY <3>1, <3>2, <4>2, <4>3 DEF HandlerInv, UpdateLabels, AccessIn, KeyIn
    <3>3. CASE pc[k] # "AttachPolicies"
      BY <1>2, <3>1, <3>3 DEF HandlerInv
    <3> QED
      BY <3>2, <3>3
  <2> QED
    BY <2>1, <2>2
<1>7. OutcomeInv(k)'
  BY <1>2, <1>4 DEF OutcomeInv
<1> QED
  BY <1>5, <1>6, <1>7

\* What CredentialsDelivered says of k.
Promise(k) ==
    (ReconciledNow(k) /\ ~Pending(k) /\ ~WillBeWoken(k))
      => Delivered(k) \/ Hidden(k) \/ CannotRead(k, Stored(k).spec)

\* So is what a CR without work says, unless work is to come.
LEMMA PromiseStays ==
    ASSUME IInv, NEW k \in Keys, Stays(k), UserStays(k), Promise(k), pc'[k] = pc[k],
           ReconciledNow(k)' /\ ~Pending(k)' =>
             Stored(k)' = Stored(k) /\ uids'[k] = uids[k] /\ ~Ahead(versions[k]),
           flags' = flags
    PROVE  Promise(k)'
<1> SUFFICES ASSUME ReconciledNow(k)', ~Pending(k)', ~WillBeWoken(k)'
             PROVE  (Delivered(k) \/ Hidden(k) \/ CannotRead(k, Stored(k).spec))'
  BY DEF Promise
<1>1. Stored(k)' = Stored(k) /\ uids'[k] = uids[k] /\ ~Ahead(versions[k])
  OBVIOUS
<1>2. Quiet(k)' /\ Quiet(k) /\ pc[k] = "Idle"
  BY DEF Stays, Quiet, Pending
<1>3. ReconciledNow(k) /\ ~Pending(k) /\ ~WillBeWoken(k)
  BY <1>1, <1>2 DEF ReconciledNow, Pending, Ahead, Quiet
<1>4. Stored(k).spec \in Specs[k]
  BY <1>3, StoredSpecs DEF SpecsStored, ReconciledNow
<1>5. \/ Delivers(k, Stored(k).spec) \/ Hides(k, Stored(k).spec)
      \/ CannotRead(k, Stored(k).spec)
  BY <1>3 DEF Promise, Delivered, Hidden
<1>6. \A spec \in Specs[k] : /\ Delivers(k, spec) => Delivers(k, spec)'
                             /\ Hides(k, spec) => Hides(k, spec)'
                             /\ CannotRead(k, spec) => CannotRead(k, spec)'
  BY <1>1, <1>2, PromisesStay DEF UserStays
<1> QED
  BY <1>1, <1>4, <1>5, <1>6 DEF Delivered, Hidden

\* What the invariant says of k.
CredentialsOf(k) == MemoryInv(k) /\ HandlerInv(k) /\ OutcomeInv(k) /\ Promise(k)

\* A step about another CR, or about none.
Elsewhere(k) ==
    /\ flags' = flags
    /\ UNCHANGED <<versions, pc, res, out, uids, work>> \/ \E j \in Keys \ {k} : StepOn(j)
    /\ k \in queue => k \in queue'

LEMMA ElsewhereKeeps ==
    ASSUME Separate, KeysNeverRunOut, IInv, NEW k \in Keys, Elsewhere(k), UserStays(k),
           Stays(k), CredentialsOf(k)
    PROVE  CredentialsOf(k)'
<1>1. /\ versions'[k] = versions[k] /\ pc'[k] = pc[k] /\ res'[k] = res[k]
      /\ out'[k] = out[k] /\ work'[k] = work[k]
      /\ Stored(k) # None => uids'[k] = uids[k]
  <2>1. CASE UNCHANGED <<versions, pc, res, out, uids, work>>
    BY <2>1
  <2>2. ASSUME NEW j \in Keys \ {k}, StepOn(j)
        PROVE  /\ versions'[k] = versions[k] /\ pc'[k] = pc[k] /\ res'[k] = res[k]
               /\ out'[k] = out[k] /\ work'[k] = work[k]
               /\ Stored(k) # None => uids'[k] = uids[k]
    <3>1. LeftAlone(k)
      BY <2>2, StepsAreApart DEF Keeps
    <3>2. work'[k] = work[k]
      <4>1. CASE S3UserStep(j)
        BY <2>2, <4>1, S3UserStepTyped DEF LeavesTyped, Remembered
      <4> QED
        BY <2>2, <4>1, StepsAreApart
    <3>3. Stored(k) # None => uids'[k] = uids[k]
      <4>1. Stored(k)' = Stored(k)
        BY <3>1 DEF LeftAlone, Stored
      <4>2. UidsFollow \/ uids' = uids
        BY <2>2, StepsAreApart DEF Handles
      <4> QED
        BY <4>1, <4>2 DEF UidsFollow
    <3> QED
      BY <3>1, <3>2, <3>3 DEF LeftAlone
  <2> QED
    BY <2>1, <2>2 DEF Elsewhere
<1>2. Stored(k)' = Stored(k)
  BY <1>1 DEF Stored
<1>3. MemoryInv(k)' /\ HandlerInv(k)' /\ OutcomeInv(k)'
  <2>1. Held(k) => Held(k)' /\ uids'[k] = uids[k]
    BY <1>1, <1>2 DEF Held
  <2> QED
    BY <1>1, <2>1, WorkStays DEF CredentialsOf, Elsewhere
<1>4. Promise(k)'
  <2>1. ReconciledNow(k)' /\ ~Pending(k)' =>
          Stored(k)' = Stored(k) /\ uids'[k] = uids[k] /\ ~Ahead(versions[k])
    BY <1>1, <1>2 DEF ReconciledNow, Pending, Ahead
  <2> QED
    BY <1>1, <2>1, PromiseStays DEF CredentialsOf, Elsewhere
<1> QED
  BY <1>3, <1>4 DEF CredentialsOf

\* A version that is added after those the watch has to deliver.
LEMMA StoringStaysAhead ==
    ASSUME IInv, NEW k \in Keys, UserStep(k), Ahead(versions[k])
    PROVE  Ahead(versions[k])'
<1> DEFINE vs == versions[k]  ws == versions'[k]
<1>1. versions \in [Keys -> Seq(Versions) \ {<<>>}] /\ vs \in Seq(Versions) \ {<<>>}
  BY Facts DEF IInv
<1>2. PICK v : versions' = [versions EXCEPT ![k] = Append(vs, v)]
  BY DEF UserStep, UserCreate, UserEdit, UserTouch, UserDelete, Store
<1>3. ws = Append(vs, v)
  BY <1>1, <1>2
<1>4. PICK i \in 1..(Len(vs) - 1) : Relevant(vs[i], vs[i + 1])
  BY DEF Ahead
<1> HIDE DEF vs, ws
<1>5. Len(ws) = Len(vs) + 1 /\ Len(vs) \in Nat /\ \A j \in 1..Len(vs) : ws[j] = vs[j]
  BY <1>1, <1>3
<1>6. i \in 1..(Len(ws) - 1) /\ ws[i] = vs[i] /\ ws[i + 1] = vs[i + 1]
  BY <1>4, <1>5
<1>7. Relevant(ws[i], ws[i + 1])
  BY <1>4, <1>6
<1> QED
  BY <1>6, <1>7 DEF Ahead, ws

\* The users who write a CR, and its watch.
LEMMA WritersKeep ==
    ASSUME Separate, KeysNeverRunOut, IInv, NEW k \in Keys, UserStep(k) \/ Deliver(k),
           UidsFollow \/ uids' = uids,
           UNCHANGED <<users, secrets, flags, work>>, CredentialsOf(k)
    PROVE  CredentialsOf(k)'
<1>1. /\ UNCHANGED <<pc, res, out>> /\ queue \subseteq queue'
  BY DEF UserStep, UserCreate, UserEdit, UserTouch, UserDelete, UserWrites, Deliver
<1>2. Stays(k) /\ UserStays(k)
  BY <1>1 DEF Stays, UserStays, Quiet, WillBeWoken, OnceOwned, StoredSecret
<1>3. Stored(k) # None /\ Stored(k)' # None => uids'[k] = uids[k]
  BY DEF UidsFollow
<1>4. Deliver(k) => Stored(k)' = Stored(k)
  BY WatchStoresNothing DEF IInv
<1>5. UserStep(k) => EditedByUser(k)
  BY UserStepEdits DEF IInv
<1>6. MemoryInv(k)' /\ HandlerInv(k)' /\ OutcomeInv(k)'
  <2>1. Held(k) => Held(k)' /\ uids'[k] = uids[k]
    BY <1>3, <1>4, <1>5 DEF Held, EditedByUser
  <2> QED
    BY <1>1, <1>2, <2>1, WorkStays DEF CredentialsOf
<1>7. Promise(k)'
  <2> SUFFICES ASSUME ReconciledNow(k)', ~Pending(k)'
               PROVE  Stored(k)' = Stored(k) /\ uids'[k] = uids[k] /\ ~Ahead(versions[k])
    BY <1>1, <1>2, PromiseStays DEF CredentialsOf
  <2>1. CASE Deliver(k)
    <3>1. Stored(k)' = Stored(k) /\ uids'[k] = uids[k]
      BY <1>3, <1>4, <2>1 DEF ReconciledNow
    <3>2. ~Ahead(versions[k])
      <4> DEFINE vs == versions[k]
      <4>1. vs \in Seq(Versions) /\ Len(vs) > 1 /\ Ordered(vs) /\ Traceable(vs)
        BY <2>1, Facts DEF IInv, Deliver, LoopInv, VersionsInv
      <4>2. versions'[k] = Tail(vs)
        BY <2>1, Facts DEF IInv, Deliver
      <4>3. k \notin queue' /\ ~Ahead(versions'[k])
        BY DEF Pending, Ahead
      <4>4. ~Relevant(vs[1], vs[2])
        BY <2>1, <4>3 DEF Deliver
      <4> HIDE DEF vs
      <4>5. Ahead(vs) => Relevant(vs[1], vs[2]) \/ Ahead(Tail(vs))
        BY <4>1, TailKeeps
      <4> QED
        BY <4>2, <4>3, <4>4, <4>5 DEF vs
    <3> QED
      BY <3>1, <3>2
  <2>2. CASE UserStep(k)
    <3>1. ~Ahead(versions[k])
      BY <2>2, StoringStaysAhead DEF Pending, Ahead
    <3>2. Stored(k)' = Stored(k)
      <4>1. Stored(k)' # None /\ Stored(k)'.cond.reason = "Reconciled"
            /\ Stored(k)'.cond.obs = Stored(k)'.gen
        BY DEF ReconciledNow
      <4>2. Stored(k) # None => /\ Stored(k).cond.obs <= Stored(k).gen
                                /\ Stored(k).gen \in Nat /\ Stored(k).cond.obs \in Nat
        BY StoredFacts DEF IInv
      <4> QED
        BY <1>5, <2>2, <4>1, <4>2 DEF EditedByUser, NoCondition
    <3> QED
      BY <1>3, <3>1, <3>2 DEF ReconciledNow
  <2> QED
    BY <2>1, <2>2
<1> QED
  BY <1>6, <1>7 DEF CredentialsOf

-----------------------------------------------------------------------------
(* The common part of Reconcile *)

\* Where it leaves a CR without work: the CR was gone, or a handler has come to its
\* end without error and its outcome is stored.
LEMMA WhereWorkEnds ==
    ASSUME IInv, NEW k \in Keys, LoopStep(k), pc'[k] = "Idle", k \notin queue'
    PROVE  \/ StartGone(k)
           \/ RemoveFinalizer(k) /\ WriteWorks(k, None)
           \/ SetStatus(k) /\ ~out[k].err /\ queue' = queue
<1>1. pc \in [Keys -> Labels]
  BY Typed
<1>2. ~Return(k, TRUE)
  BY DEF Return
<1>3. \A label : label # "Idle" => ~Goto(k, label)
  BY <1>1 DEF Goto
<1>4. ~Start(k)
  <2>1. AfterGet(Cached(k)) # "Idle"
    BY DEF AfterGet, AfterStatus, AfterFinalizer
  <2> QED
    BY <1>3, <2>1 DEF Start
<1>5. ~InitStatus(k) /\ ~AddFinalizer(k)
  BY <1>2, <1>3 DEF InitStatus, AddFinalizer, Update
<1>6. ~RefetchStatus(k) /\ ~RefetchFinalizer(k)
  <2>1. AfterStatus(Cached(k)) # "Idle" /\ AfterFinalizer(Cached(k)) # "Idle"
    BY DEF AfterStatus, AfterFinalizer
  <2> QED
    BY <1>2, <1>3, <2>1 DEF RefetchStatus, RefetchFinalizer, Refetch
<1>7. RemoveFinalizer(k) => WriteWorks(k, None)
  BY <1>2 DEF RemoveFinalizer
<1>8. SetStatus(k) => ~out[k].err /\ queue' = queue
  <2> SUFFICES ASSUME SetStatus(k) PROVE ~out[k].err /\ queue' = queue
    OBVIOUS
  <2>1. Return(k, Requeued(out[k]))
    BY <1>2 DEF SetStatus
  <2>2. Requeued(out[k]) => k \in queue'
    BY <2>1 DEF Return
  <2>3. ~out[k].err
    BY <2>2 DEF Requeued
  <2>4. queue' = queue
    BY <2>1, <2>2 DEF Return
  <2> QED
    BY <2>3, <2>4
<1> QED
  BY <1>4, <1>5, <1>6, <1>7, <1>8 DEF LoopStep

\* What it stores as reconciled is what the copy of the worker asks for.
LEMMA StatusIsOfTheCopy ==
    ASSUME IInv, NEW k \in Keys, SetStatus(k), k \notin queue', ReconciledNow(k)'
    PROVE  Stored(k)'.spec = Wanted(k) /\ Stored(k) # None
<1>1. LoopIInv(Labels, ProvisionLabels, DeletingLabels)
  BY DEF IInv
<1>2. pc[k] = "SetStatus" /\ LoopInv(k, ProvisionLabels, DeletingLabels)
  BY <1>1 DEF SetStatus, LoopIInv
<1>3. WrittenByWorker(k)
  BY <1>1, LoopStepWrites DEF LoopStep
<1>4. cur[k] => res[k] = Stored(k)
  BY <1>2 DEF LoopInv, WorkerInv
<1>5. Stored(k)' # None /\ Stored(k)'.cond.obs = Stored(k)'.gen
  BY DEF ReconciledNow
<1>6. CASE cur[k]
  BY <1>2, <1>3, <1>4, <1>5, <1>6 DEF WrittenByWorker, SameGeneration, Wanted
<1>7. CASE ~cur[k]
  <2>1. Stored(k)' = Stored(k)
    BY <1>3, <1>7 DEF WrittenByWorker
  <2>2. SameGeneration(res[k], Stored(k))
    BY <1>2, <1>5, <2>1 DEF LoopInv, ConditionInv
  <2> QED
    BY <1>5, <2>1, <2>2 DEF SameGeneration, Wanted
<1> QED
  BY <1>6, <1>7

LEMMA LoopKeepsCredentials ==
    ASSUME Separate, IInv, NEW k \in Keys, LoopStep(k), UidsFollow,
           UNCHANGED <<users, secrets, flags, work>>, CredentialsOf(k)
    PROVE  CredentialsOf(k)'
<1>1. pc'[k] \in LoopLabels \ {"SetStatus"}
  <2>1. pc \in [Keys -> Labels] /\ LoopTypeOK(Labels)
    BY DEF IInv, LoopIInv, LoopTypeOK
  <2>2. \/ UNCHANGED <<pc, res, out>> /\ pc[k] \in LoopLabels
        \/ pc'[k] \in LoopLabels \ {"SetStatus", "RemoveFinalizer"}
    BY <2>1, LoopMoves
  <2>3. pc[k] = "SetStatus" => SetStatus(k)
    BY DEF LoopStep, StartGone, Start, InitStatus, RefetchStatus, AddFinalizer,
           RefetchFinalizer, Refetch, RemoveFinalizer
  <2>4. SetStatus(k) => pc'[k] = "Idle"
    BY <2>1 DEF SetStatus, Return
  <2> QED
    BY <2>2, <2>3, <2>4 DEF LoopLabels
<1>2. MemoryInv(k)' /\ HandlerInv(k)' /\ OutcomeInv(k)'
  <2>1. pc'[k] \notin UpdateLabels \cup {"DeleteUnused", "DeleteSecret", "Create",
                                         "CreateSecret", "UpdateSecret",
                                         "AttachPolicies", "SetStatus"}
    BY <1>1 DEF LoopLabels, UpdateLabels
  <2>2. \A n \in work'[k].delete : OnceOwned(n)'
    BY DEF CredentialsOf, MemoryInv, OnceOwned, StoredSecret
  <2>3. MemoryInv(k)'
    BY <2>1, <2>2 DEF MemoryInv
  <2>4. HandlerInv(k)'
    BY <2>1 DEF HandlerInv, UpdateLabels
  <2> QED
    BY <2>1, <2>3, <2>4 DEF OutcomeInv
<1>3. ASSUME ReconciledNow(k)', ~Pending(k)', ~WillBeWoken(k)'
      PROVE  (Delivered(k) \/ Hidden(k) \/ CannotRead(k, Stored(k).spec))'
  <2>1. pc'[k] = "Idle" /\ k \notin queue' /\ ~Ahead(versions[k])'
    BY <1>3 DEF Pending, Ahead
  <2>2. Stored(k)' # None
    BY <1>3 DEF ReconciledNow
  <2>3. ~StartGone(k)
    <3> SUFFICES ASSUME StartGone(k) PROVE FALSE
      OBVIOUS
    <3>1. versions' = versions /\ Cached(k) = None
      BY DEF StartGone
    <3>2. versions[k] \in Seq(Versions) \ {<<>>} /\ Traceable(versions[k])
      BY Facts DEF IInv, LoopInv, VersionsInv
    <3>3. versions[k][Len(versions[k])] # None /\ ~Ahead(versions[k])
      BY <2>1, <2>2, <3>1 DEF Stored, Ahead
    <3>4. Follows(versions[k][1], versions[k][Len(versions[k])])
      BY <3>2, <3>3, CachedFollows
    <3> QED
      BY <3>1, <3>4 DEF Follows, Cached
  <2>4. ~(RemoveFinalizer(k) /\ WriteWorks(k, None))
    <3>1. WriteWorks(k, None) => Stored(k)' = None
      BY StoreStores DEF WriteWorks, IInv, Versions
    <3> QED
      BY <2>2, <3>1
  <2>5. SetStatus(k) /\ ~out[k].err /\ queue' = queue
    BY <2>1, <2>3, <2>4, WhereWorkEnds
  <2>6. Stored(k)'.spec = Wanted(k) /\ Stored(k) # None
    BY <1>3, <2>1, <2>5, StatusIsOfTheCopy
  <2>7. uids'[k] = uids[k]
    BY <2>2 DEF UidsFollow
  <2>8. Quiet(k)
    BY <1>3, <2>1, <2>5 DEF Quiet, WillBeWoken
  <2>9. Delivers(k, Wanted(k)) \/ Hides(k, Wanted(k)) \/ CannotRead(k, Wanted(k))
    <3>1. pc[k] = "SetStatus"
      BY <2>5 DEF SetStatus
    <3> QED
      BY <2>5, <2>8, <3>1 DEF CredentialsOf, OutcomeInv
  <2>10. /\ Delivers(k, Wanted(k)) => Delivers(k, Stored(k).spec)'
         /\ Hides(k, Wanted(k)) => Hides(k, Stored(k).spec)'
         /\ CannotRead(k, Wanted(k)) => CannotRead(k, Stored(k).spec)'
    BY <2>6, <2>7 DEF Delivers, Hides, CannotRead, SecretOf, AccessIn, KeyIn, StoredSecret
  <2> QED
    BY <2>9, <2>10 DEF Delivered, Hidden
<1>4. Promise(k)'
  BY <1>3 DEF Promise
<1> QED
  BY <1>2, <1>4 DEF CredentialsOf

-----------------------------------------------------------------------------
(* The handlers: what they have in common *)

\* What a handler knows and has done.
WorkInv(k) == MemoryInv(k) /\ HandlerInv(k) /\ OutcomeInv(k)

\* While a handler is at work its CR and what it asks for stay the same.
Handling(k) ==
    /\ UNCHANGED <<versions, queue, res, uids, flags>>
    /\ pc[k] # "Idle" /\ pc'[k] # "Idle"
    /\ Wanted(k) \in Specs[k]
    /\ Wanted(k)' = Wanted(k)
    /\ SecretName(k)' = SecretName(k)
    /\ SecretName(k) \in NamesOf(k) /\ SecretName(k) \in SecretNames
    /\ Stays(k)

LEMMA HandlersHandle ==
    ASSUME Separate, IInv, SecretsInv, NEW k \in Keys, S3UserStep(k), MemoryInv(k)
    PROVE  Handling(k)
<1>1. /\ UNCHANGED <<versions, queue, res, uids, flags>>
      /\ pc[k] \in ProvisionLabels \cup DeletingLabels
      /\ Proceeds(k, ProvisionLabels, DeletingLabels)
  BY S3UserStepHandles DEF Handles
<1>2. pc[k] # "Idle"
  BY <1>1, LabelsOfTheLoop DEF LabelSets
<1>3. pc'[k] # "Idle"
  <2>1. pc \in [Keys -> Labels] /\ "Idle" \notin ProvisionLabels \cup DeletingLabels
    BY Typed, LabelsOfTheLoop DEF LabelSets
  <2> QED
    BY <1>1, <1>2, <2>1 DEF Proceeds, Goto, Conclude
<1>4. Wanted(k)' = Wanted(k) /\ SecretName(k)' = SecretName(k)
  BY <1>1 DEF Wanted, SecretName
<1>5. Stays(k)
  BY <1>1, HandlersGrow, GrowingStays
<1> QED
  BY <1>1, <1>2, <1>3, <1>4, <1>5, HandlerData, SecretNameIsItsOwn DEF Handling

\* Where it goes on to, and what it remembers there.
LEMMA GoesOn ==
    ASSUME IInv, NEW k \in Keys, NEW label, NEW w, Continue(k, label, w)
    PROVE  pc'[k] = label /\ work'[k] = w
  BY Typed DEF Continue, Goto

\* It reports an error.
LEMMA ErrsWell ==
    ASSUME IInv, NEW k \in Keys, NEW reason, Finish(k, reason, TRUE)
    PROVE  WorkInv(k)'
<1>1. /\ pc'[k] = "SetStatus" /\ out'[k] = [reason |-> reason, err |-> TRUE]
      /\ work'[k] = NoWork
  <2>1. pc = [j \in Keys |-> pc[j]] /\ work = [j \in Keys |-> work[j]]
        /\ out = [j \in Keys |-> out[j]]
    BY Typed DEF IInv, LoopIInv, LoopTypeOK
  <2> QED
    BY <2>1 DEF Finish, Conclude
<1> QED
  BY <1>1 DEF WorkInv, MemoryInv, HandlerInv, OutcomeInv, UpdateLabels, NoWork

\* It goes on without anything to remember.
LEMMA ForgetsWell ==
    ASSUME NEW k \in Keys, work'[k] = NoWork, pc'[k] \in {"DropUser", "RemoveFinalizer"}
    PROVE  WorkInv(k)'
  BY DEF WorkInv, MemoryInv, HandlerInv, OutcomeInv, UpdateLabels, NoWork

\* A call that succeeds, or else reports an error.
LEMMA CallsWell ==
    ASSUME IInv, NEW k \in Keys, NEW possible, NEW effect, NEW label, NEW w,
           Call(k, possible, effect, label, w)
    PROVE  \/ WorkInv(k)'
           \/ possible /\ effect /\ pc'[k] = label /\ work'[k] = w
  BY ErrsWell, GoesOn DEF Call, CallWorks

-----------------------------------------------------------------------------
(* handleReconciliation, up to the choice of a secret *)

\* A secret in the cache that is linked to the CR.
LEMMA LinkedSecret ==
    ASSUME Separate, IInv, SecretsInv, NEW k \in Keys, Wanted(k) \in Specs[k],
           NEW n \in NamesOf(k), CachedSecret(n) # None
    PROVE  /\ IsOf(CachedSecret(n), Wanted(k))
           /\ CachedSecret(n).owner # None => OnceOwned(n)
           /\ Quiet(k) => StoredSecret(n) = CachedSecret(n)
<1>1. n \in SecretNames
  BY Names
<1> QED
  BY <1>1, CachedIsStored DEF SecretFits

\* The one the CR does not own.
LEMMA UnlinkedSecret ==
    ASSUME Separate, IInv, SecretsInv, NEW k \in Keys, Wanted(k) \in Specs[k],
           Unlinked(k) # {}
    PROVE  LET n == UnlinkedName(k)
           IN  /\ n \in NamesOf(k) /\ CachedSecret(n) # None
               /\ CachedSecret(n).owner # Self(k)
               /\ \/ n = SecretName(k)
                  \/ n = DefaultName[k] /\ Wanted(k).secret \notin {None, DefaultName[k]}
<1> DEFINE n == UnlinkedName(k)
<1>1. n \in Unlinked(k)
  BY DEF UnlinkedName, Unlinked
<1>2. n \in NamesOf(k) /\ n \in SecretNames
  <2>1. n \in {Wanted(k).secret, DefaultName[k]} /\ n # None
    BY <1>1 DEF Unlinked
  <2> QED
    BY <2>1, Names
<1>3. CachedSecret(n) # None /\ n \notin Owned(k)
  BY <1>1 DEF Unlinked
<1>4. CachedSecret(n).owner # Self(k)
  BY <1>2, <1>3 DEF Owned
<1>5. \/ n = SecretName(k)
      \/ n = DefaultName[k] /\ Wanted(k).secret \notin {None, DefaultName[k]}
  BY <1>1 DEF UnlinkedName, Unlinked, SecretName
<1> QED
  BY <1>2, <1>3, <1>4, <1>5

LEMMA SelectsWell ==
    ASSUME Separate, IInv, SecretsInv, NEW k \in Keys, Handling(k),
           pc[k] \in ProvisionLabels, UNCHANGED secrets, SelectSecret(k)
    PROVE  WorkInv(k)'
<1>1. Self(k) = [cr |-> k, uid |-> uids[k]] /\ Self(k) # None
  <2>1. Uid(k) = uids[k]
    BY ProvisionIsHeld
  <2>2. Self(k) \in Owners
    BY <2>1, Typed DEF Self, Owners
  <2> QED
    BY <2>1, <2>2, OwnersAreSome DEF Self
<1>2. /\ Quiet(k)' => Quiet(k)
      /\ \A n \in SecretNames : /\ StoredSecret(n)' = StoredSecret(n)
                                /\ OnceOwned(n) => OnceOwned(n)'
  BY DEF Handling, Stays, StoredSecret
<1>3. Wanted(k) \in Specs[k] /\ Wanted(k)' = Wanted(k) /\ SecretName(k)' = SecretName(k)
      /\ SecretName(k) \in NamesOf(k) /\ SecretName(k) \in SecretNames
  BY DEF Handling
<1>4. CASE Unlinked(k) # {}
  <2>0. PICK n, s : n = UnlinkedName(k) /\ s = CachedSecret(n)
    OBVIOUS
  <2>1. /\ n \in NamesOf(k) /\ s # None /\ s.owner # Self(k)
        /\ \/ n = SecretName(k)
           \/ n = DefaultName[k] /\ Wanted(k).secret \notin {None, DefaultName[k]}
    BY <1>3, <1>4, <2>0, UnlinkedSecret
  <2>2. IsOf(s, Wanted(k)) /\ (Quiet(k) => StoredSecret(n) = s)
    BY <1>3, <2>0, <2>1, LinkedSecret
  <2>3. n \in SecretNames
    BY <2>1, Names
  <2>4. pc'[k] = "GetPolicies" /\ work'[k] = [NoWork EXCEPT !.secret = s]
    BY <1>4, <2>0, GoesOn DEF SelectSecret
  <2>5. work'[k].secret = s /\ work'[k].owned = FALSE /\ work'[k].delete = {}
    BY <2>4 DEF NoWork
  <2>6. ASSUME Quiet(k)', n # SecretName(k) PROVE Hides(k, Wanted(k))'
    <3>1. /\ n = DefaultName[k] /\ Wanted(k).secret \notin {None, DefaultName[k]}
          /\ StoredSecret(n)' = s /\ uids' = uids
      BY <1>2, <2>1, <2>2, <2>3, <2>6 DEF Handling
    <3> QED
      BY <1>1, <1>3, <2>1, <3>1 DEF Hides
  <2>7. Quiet(k)' => s = StoredSecret(SecretName(k))' \/ Hides(k, Wanted(k))'
    BY <1>2, <1>3, <2>2, <2>3, <2>6
  <2>8. MemoryInv(k)'
    BY <1>3, <2>1, <2>2, <2>4, <2>5, <2>7 DEF MemoryInv, UpdateLabels, IsOf, AccessIn
  <2> QED
    BY <2>4, <2>8 DEF WorkInv, HandlerInv, OutcomeInv, UpdateLabels
<1>5. CASE Unlinked(k) = {}
  <2> DEFINE n == SecretName(k)
             unused == Owned(k) \ {n}
             found == IF n \in Owned(k) THEN CachedSecret(n) ELSE None
             label == CASE unused # {} -> "DeleteUnused"
                        [] unused = {} /\ found # None -> "GetPolicies"
                        [] unused = {} /\ found = None -> "DropUser"
             m == [NoWork EXCEPT !.secret = found, !.owned = TRUE, !.delete = unused]
  <2>1. \A o \in Owned(k) : o \in SecretNames /\ CachedSecret(o) # None
                            /\ CachedSecret(o).owner # None
    BY <1>1 DEF Owned
  <2>2. \A o \in unused : OnceOwned(o)'
    BY <1>2, <2>1, CachedIsStored
  <2>3. found # None => /\ IsOf(found, Wanted(k))
                        /\ OnceOwned(n)
                        /\ Quiet(k) => StoredSecret(n) = found
    BY <1>3, <2>1, LinkedSecret
  <2>4. Continue(k, label, m)
    BY <1>5 DEF SelectSecret
  <2>5. m.secret = found /\ m.delete = unused
    BY DEF NoWork
  <2>6. /\ label \in {"DeleteUnused", "GetPolicies", "DropUser"}
        /\ label = "GetPolicies" => found # None
    <3> HIDE DEF unused, found
    <3> QED
      OBVIOUS
  <2> HIDE DEF label, m
  <2>7. pc'[k] = label /\ work'[k] = m
    BY <2>4, GoesOn
  <2> HIDE DEF unused, found
  <2>8. found # None => OnceOwned(SecretName(k))'
                        /\ (Quiet(k)' => found = StoredSecret(SecretName(k))')
    BY <1>2, <1>3, <2>3
  <2>9. MemoryInv(k)'
    BY <1>3, <2>2, <2>3, <2>5, <2>6, <2>7, <2>8 DEF MemoryInv, UpdateLabels, IsOf, AccessIn
  <2> QED
    BY <2>6, <2>7, <2>9 DEF WorkInv, HandlerInv, OutcomeInv, UpdateLabels
<1> QED
  BY <1>4, <1>5

-----------------------------------------------------------------------------
(* handleReconciliation: the user is updated *)

\* What it remembers of the secrets is still true.
LEMMA RemembersWell ==
    ASSUME IInv, NEW k \in Keys, Handling(k), MemoryInv(k),
           pc[k] \in UpdateLabels \cup {"DeleteUnused"}, pc'[k] # "DeleteSecret",
           pc'[k] \in UpdateLabels => work[k].secret # None,
           work'[k].secret = work[k].secret, work'[k].owned = work[k].owned,
           work'[k].delete \subseteq work[k].delete
    PROVE  MemoryInv(k)'
<1>1. /\ Wanted(k) \in Specs[k] /\ Wanted(k)' = Wanted(k) /\ SecretName(k)' = SecretName(k)
      /\ SecretName(k) \in NamesOf(k) /\ SecretName(k) \in SecretNames
      /\ uids' = uids /\ flags' = flags /\ Stays(k)
  BY DEF Handling
<1>2. work[k].delete \subseteq SecretNames
  BY FewerSecrets
<1>3. \A n \in work'[k].delete : OnceOwned(n)'
  BY <1>1, <1>2 DEF MemoryInv, Stays
<1>4. OnceOwned(SecretName(k)) => OnceOwned(SecretName(k))'
  BY <1>1 DEF Stays
<1>5. ASSUME Quiet(k)', work[k].secret # None
      PROVE  work[k].secret = StoredSecret(SecretName(k))' \/ Hides(k, Wanted(k))'
  <2>1. Quiet(k)
    BY <1>1, <1>5 DEF Stays
  <2>2. work[k].secret = StoredSecret(SecretName(k)) \/ Hides(k, Wanted(k))
    BY <1>5, <2>1 DEF MemoryInv
  <2>3. StoredSecret(SecretName(k)) # None
          => StoredSecret(SecretName(k))' = StoredSecret(SecretName(k))
    BY <1>1, <1>5 DEF Stays
  <2>4. \A spec \in Specs[k] : Hides(k, spec) => Hides(k, spec)'
    BY <1>1, <1>5, PromisesStay
  <2> QED
    BY <1>1, <1>5, <2>2, <2>3, <2>4
<1> QED
  BY <1>1, <1>3, <1>4, <1>5 DEF MemoryInv, IsOf, AccessIn

\* The S3 user it writes.
LEMMA WritesUser ==
    ASSUME IInv, NEW k \in Keys, Handling(k), NEW u, SetUser(k, u)
    PROVE  S3User(k)' = u
<1>1. users'[Wanted(k).access] = u
  BY Replaced DEF SetUser, Handling
<1> QED
  BY <1>1 DEF S3User, Handling

LEMMA HandlesUserWell ==
    ASSUME Separate, IInv, SecretsInv, NEW k \in Keys, HandleUser(k), Handling(k)
    PROVE  WorkInv(k)'
<1>1. CASE Finish(k, "Unreachable", TRUE)
  BY <1>1, ErrsWell
<1>2. CASE Reads /\ S3User(k) = None /\ Continue(k, "Create", NoWork)
  <2>1. pc'[k] = "Create" /\ work'[k] = NoWork
    BY <1>2, GoesOn
  <2>2. S3User(k)' = None
    BY <1>2 DEF Reads, S3User, Handling
  <2> QED
    BY <2>1, <2>2 DEF WorkInv, MemoryInv, HandlerInv, OutcomeInv, UpdateLabels, NoWork
<1>3. CASE Reads /\ SelectSecret(k)
  BY <1>3, SelectsWell DEF HandleUser, At, Reads, ProvisionLabels
<1> QED
  BY <1>1, <1>2, <1>3 DEF HandleUser

LEMMA DeletesUnusedWell ==
    ASSUME IInv, NEW k \in Keys, DeleteUnused(k), Handling(k), MemoryInv(k)
    PROVE  WorkInv(k)'
<1>1. PICK n \in work[k].delete :
        LET left == work[k].delete \ {n}
        IN  DeleteSecretNamed(k, n,
              CASE left # {} -> "DeleteUnused"
                [] left = {} /\ work[k].secret # None -> "GetPolicies"
                [] left = {} /\ work[k].secret = None -> "DropUser",
              [work[k] EXCEPT !.delete = left])
  BY DEF DeleteUnused
<1> DEFINE left == work[k].delete \ {n}
           label == CASE left # {} -> "DeleteUnused"
                      [] left = {} /\ work[k].secret # None -> "GetPolicies"
                      [] left = {} /\ work[k].secret = None -> "DropUser"
           m == [work[k] EXCEPT !.delete = left]
           possible == StoredSecret(n) # None
           effect == SetSecret(n, None)
<1>2. Call(k, possible, effect, label, m)
  BY <1>1 DEF DeleteSecretNamed
<1>3. /\ label \in {"DeleteUnused", "GetPolicies", "DropUser"}
      /\ label = "GetPolicies" => work[k].secret # None
  <2> HIDE DEF left
  <2> QED
    OBVIOUS
<1>4. m.secret = work[k].secret /\ m.owned = work[k].owned /\ m.delete = left
  <2>1. work[k] \in Memories
    BY Typed
  <2> QED
    BY <2>1 DEF Memories
<1>5. pc[k] = "DeleteUnused"
  BY DEF DeleteUnused, At
<1> HIDE DEF label, m, possible, effect
<1>6. WorkInv(k)' \/ (pc'[k] = label /\ work'[k] = m)
  BY <1>2, CallsWell
<1>7. CASE pc'[k] = label /\ work'[k] = m
  <2>1. MemoryInv(k)'
    BY <1>3, <1>4, <1>5, <1>7, RemembersWell DEF UpdateLabels
  <2> QED
    BY <1>3, <1>7, <2>1 DEF WorkInv, HandlerInv, OutcomeInv, UpdateLabels
<1> QED
  BY <1>6, <1>7

LEMMA GetsPoliciesWell ==
    ASSUME IInv, NEW k \in Keys, GetPolicies(k), Handling(k), MemoryInv(k)
    PROVE  WorkInv(k)'
<1>1. CASE Finish(k, "Unreachable", TRUE)
  BY <1>1, ErrsWell
<1>2. CASE ~Finish(k, "Unreachable", TRUE)
  <2> DEFINE remove == S3User(k).policies \ Wanted(k).policies
             add == Wanted(k).policies \ S3User(k).policies
             label == CASE remove # {} -> "RemovePolicies"
                        [] remove = {} /\ add # {} -> "AddPolicies"
                        [] remove = {} /\ add = {} -> "CheckCredentials"
             m == [work[k] EXCEPT !.remove = remove, !.add = add]
  <2>1. Reads /\ S3User(k) # None /\ Continue(k, label, m)
    BY <1>2 DEF GetPolicies
  <2>2. pc[k] = "GetPolicies" /\ work[k].secret # None
    BY DEF GetPolicies, At, MemoryInv, UpdateLabels
  <2>3. /\ m.secret = work[k].secret /\ m.owned = work[k].owned
        /\ m.delete = work[k].delete /\ m.remove = remove /\ m.add = add
    <3>1. work[k] \in Memories
      BY Typed
    <3> QED
      BY <3>1 DEF Memories
  <2>4. (S3User(k).policies \ remove) \cup add = Wanted(k).policies
    OBVIOUS
  <2> HIDE DEF remove, add
  <2>5. /\ label \in UpdateLabels \ {"GetPolicies"}
        /\ label \in {"AddPolicies", "CheckCredentials"} => remove = {}
        /\ label = "CheckCredentials" => add = {}
    BY DEF UpdateLabels
  <2>6. S3User(k)' = S3User(k) /\ Wanted(k)' = Wanted(k)
    BY <2>1 DEF Reads, S3User, Handling
  <2> HIDE DEF label, m
  <2>7. pc'[k] = label /\ work'[k] = m
    BY <2>1, GoesOn
  <2>8. MemoryInv(k)'
    BY <2>2, <2>3, <2>5, <2>7, RemembersWell DEF UpdateLabels
  <2>9. HandlerInv(k)'
    BY <2>1, <2>3, <2>4, <2>5, <2>6, <2>7 DEF HandlerInv, UpdateLabels
  <2> QED
    BY <2>5, <2>7, <2>8, <2>9 DEF WorkInv, OutcomeInv, UpdateLabels
<1> QED
  BY <1>1, <1>2

LEMMA RemovesPoliciesWell ==
    ASSUME IInv, NEW k \in Keys, RemovePolicies(k), Handling(k), MemoryInv(k), HandlerInv(k)
    PROVE  WorkInv(k)'
<1> DEFINE u == [S3User(k) EXCEPT !.policies = @ \ work[k].remove]
           m == [work[k] EXCEPT !.remove = {}]
           label == IF work[k].add # {} THEN "AddPolicies" ELSE "CheckCredentials"
<1>1. pc[k] = "RemovePolicies" /\ work[k].secret # None
  BY DEF RemovePolicies, At, MemoryInv, UpdateLabels
<1>2. Call(k, S3User(k) # None, SetUser(k, u), label, m)
  BY DEF RemovePolicies
<1>3. /\ m.secret = work[k].secret /\ m.owned = work[k].owned
      /\ m.delete = work[k].delete /\ m.remove = {} /\ m.add = work[k].add
  <2>1. work[k] \in Memories
    BY Typed
  <2> QED
    BY <2>1 DEF Memories
<1>4. /\ label \in {"AddPolicies", "CheckCredentials"}
      /\ label = "CheckCredentials" => work[k].add = {}
  OBVIOUS
<1>5. /\ S3User(k) # None
      /\ (S3User(k).policies \ work[k].remove) \cup work[k].add = Wanted(k).policies
  BY <1>1 DEF HandlerInv, UpdateLabels
<1>6. u # None /\ u.policies = S3User(k).policies \ work[k].remove
  <2>1. S3User(k) \in Users /\ work[k].remove \in SUBSET PolicyNames
    BY <1>5, Asked, Typed, MemoryFields DEF Handling
  <2>2. u \in Users /\ u.policies = S3User(k).policies \ work[k].remove
    BY <2>1, UserFields DEF Users
  <2> QED
    BY <2>2, UserConstants
<1> HIDE DEF u, m, label
<1>7. WorkInv(k)' \/ (SetUser(k, u) /\ pc'[k] = label /\ work'[k] = m)
  BY <1>2, CallsWell
<1>8. CASE SetUser(k, u) /\ pc'[k] = label /\ work'[k] = m
  <2>1. S3User(k)' = u /\ Wanted(k)' = Wanted(k)
    BY <1>8, WritesUser DEF Handling
  <2>2. MemoryInv(k)'
    BY <1>1, <1>3, <1>4, <1>8, RemembersWell DEF UpdateLabels
  <2>3. HandlerInv(k)'
    BY <1>3, <1>4, <1>5, <1>6, <1>8, <2>1 DEF HandlerInv, UpdateLabels
  <2> QED
    BY <1>4, <1>8, <2>2, <2>3 DEF WorkInv, OutcomeInv, UpdateLabels
<1> QED
  BY <1>7, <1>8

LEMMA AddsPoliciesWell ==
    ASSUME IInv, NEW k \in Keys, AddPolicies(k), Handling(k), MemoryInv(k), HandlerInv(k)
    PROVE  WorkInv(k)'
<1> DEFINE u == [S3User(k) EXCEPT !.policies = @ \cup work[k].add]
           m == [work[k] EXCEPT !.add = {}]
           possible == Attachable(k, work[k].add)
<1>1. pc[k] = "AddPolicies" /\ work[k].secret # None
  BY DEF AddPolicies, At, MemoryInv, UpdateLabels
<1>2. Call(k, possible, SetUser(k, u), "CheckCredentials", m)
  BY DEF AddPolicies, Attach
<1>3. /\ m.secret = work[k].secret /\ m.owned = work[k].owned
      /\ m.delete = work[k].delete /\ m.remove = work[k].remove /\ m.add = {}
  <2>1. work[k] \in Memories
    BY Typed
  <2> QED
    BY <2>1 DEF Memories
<1>4. /\ S3User(k) # None /\ work[k].remove = {}
      /\ (S3User(k).policies \ work[k].remove) \cup work[k].add = Wanted(k).policies
  BY <1>1 DEF HandlerInv, UpdateLabels
<1>5. u # None /\ u.policies = Wanted(k).policies
  <2>1. S3User(k) \in Users /\ work[k].add \in SUBSET PolicyNames
    BY <1>4, Asked, Typed, MemoryFields DEF Handling
  <2>2. u \in Users /\ u.policies = S3User(k).policies \cup work[k].add
    BY <2>1, UserFields DEF Users
  <2> QED
    BY <1>4, <2>2, UserConstants
<1> HIDE DEF u, m, possible
<1>6. WorkInv(k)' \/ (SetUser(k, u) /\ pc'[k] = "CheckCredentials" /\ work'[k] = m)
  BY <1>2, CallsWell
<1>7. CASE SetUser(k, u) /\ pc'[k] = "CheckCredentials" /\ work'[k] = m
  <2>1. S3User(k)' = u /\ Wanted(k)' = Wanted(k)
    BY <1>7, WritesUser DEF Handling
  <2>2. MemoryInv(k)'
    BY <1>1, <1>3, <1>7, RemembersWell DEF UpdateLabels
  <2>3. HandlerInv(k)'
    BY <1>3, <1>4, <1>5, <1>7, <2>1 DEF HandlerInv, UpdateLabels
  <2> QED
    BY <1>7, <2>2, <2>3 DEF WorkInv, OutcomeInv, UpdateLabels
<1> QED
  BY <1>6, <1>7

-----------------------------------------------------------------------------
(* handleReconciliation: the credentials are checked, or made again *)

\* It reports that the CR is reconciled.
LEMMA ReportsWell ==
    ASSUME IInv, NEW k \in Keys, Handling(k), pc[k] \in ProvisionLabels,
           Finish(k, "Reconciled", FALSE),
           Quiet(k)' => \/ Delivers(k, Wanted(k))' \/ Hides(k, Wanted(k))'
                        \/ CannotRead(k, Wanted(k))'
    PROVE  WorkInv(k)'
<1>1. /\ pc'[k] = "SetStatus" /\ out'[k] = [reason |-> "Reconciled", err |-> FALSE]
      /\ work'[k] = NoWork
  <2>1. pc = [j \in Keys |-> pc[j]] /\ work = [j \in Keys |-> work[j]]
        /\ out = [j \in Keys |-> out[j]]
    BY Typed DEF IInv, LoopIInv, LoopTypeOK
  <2> QED
    BY <2>1 DEF Finish, Conclude
<1>2. Held(k)'
  BY ProvisionIsHeld DEF Handling, Held, Stored
<1> QED
  BY <1>1, <1>2 DEF WorkInv, MemoryInv, HandlerInv, OutcomeInv, UpdateLabels, NoWork

LEMMA ChecksWell ==
    ASSUME IInv, NEW k \in Keys, CheckCredentials(k), Handling(k), MemoryInv(k), HandlerInv(k)
    PROVE  WorkInv(k)'
<1>1. pc[k] = "CheckCredentials" /\ work[k].secret # None
  BY DEF CheckCredentials, At, MemoryInv, UpdateLabels
<1>2. CASE Finish(k, "Unreachable", TRUE)
  BY <1>2, ErrsWell
<1> DEFINE access == AccessIn(work[k].secret, Wanted(k))
           key == KeyIn(work[k].secret, Wanted(k))
<1>3. CASE Reads /\ Opens(access, key) /\ Finish(k, "Reconciled", FALSE)
  <2>1. S3User(k) # None /\ S3User(k).policies = Wanted(k).policies
    BY <1>1 DEF HandlerInv, UpdateLabels
  <2>2. access = Wanted(k).access /\ key = S3User(k).key
    BY <1>1, <1>3 DEF MemoryInv, UpdateLabels, Opens, S3User, IsOf
  <2>3. /\ users' = users /\ uids' = uids /\ Wanted(k)' = Wanted(k)
        /\ SecretName(k)' = SecretName(k) /\ (Quiet(k)' => Quiet(k))
        /\ \A n : StoredSecret(n)' = StoredSecret(n)
    BY <1>3 DEF Handling, Stays, Reads, StoredSecret
  <2>4. ASSUME Quiet(k)' PROVE Delivers(k, Wanted(k))' \/ Hides(k, Wanted(k))'
    <3>1. work[k].secret = StoredSecret(SecretName(k)) \/ Hides(k, Wanted(k))
      BY <1>1, <2>3, <2>4 DEF MemoryInv, UpdateLabels
    <3>2. CASE Hides(k, Wanted(k))
      BY <2>3, <3>2 DEF Hides
    <3>3. CASE work[k].secret = StoredSecret(SecretName(k))
      <4>1. Delivers(k, Wanted(k))
        BY <1>1, <2>1, <2>2, <3>3 DEF Delivers, SecretOf, SecretName, S3User
      <4> QED
        BY <2>3, <4>1 DEF Delivers, SecretOf, AccessIn, KeyIn
    <3> QED
      BY <3>1, <3>2, <3>3
  <2> QED
    BY <1>1, <1>3, <2>4, ReportsWell DEF ProvisionLabels, UserLabels
<1>4. CASE Reads /\ Continue(k, IF work[k].owned THEN "DeleteSecret" ELSE "DropUser", NoWork)
  <2>1. pc'[k] = (IF work[k].owned THEN "DeleteSecret" ELSE "DropUser") /\ work'[k] = NoWork
    BY <1>4, GoesOn
  <2>2. work[k].owned => OnceOwned(SecretName(k))'
    BY <1>1, <1>4 DEF MemoryInv, UpdateLabels, Reads, Handling, Stays
  <2> QED
    BY <2>1, <2>2 DEF WorkInv, MemoryInv, HandlerInv, OutcomeInv, UpdateLabels, NoWork
<1> QED
  BY <1>2, <1>3, <1>4 DEF CheckCredentials

LEMMA DeletesSecretWell ==
    ASSUME IInv, NEW k \in Keys, DeleteSecret(k)
    PROVE  WorkInv(k)'
<1> DEFINE n == SecretName(k)
<1>1. Call(k, StoredSecret(n) # None, SetSecret(n, None), "DropUser", NoWork)
  BY DEF DeleteSecret, DeleteSecretNamed
<1>2. WorkInv(k)' \/ (pc'[k] = "DropUser" /\ work'[k] = NoWork)
  BY <1>1, CallsWell
<1> QED
  BY <1>2, ForgetsWell

LEMMA DropsUserWell ==
    ASSUME IInv, NEW k \in Keys, DropUser(k), Handling(k)
    PROVE  WorkInv(k)'
<1>1. Call(k, TRUE, SetUser(k, None), "Create", NoWork)
  BY DEF DropUser
<1>2. WorkInv(k)' \/ (SetUser(k, None) /\ pc'[k] = "Create" /\ work'[k] = NoWork)
  BY <1>1, CallsWell
<1>3. CASE SetUser(k, None) /\ pc'[k] = "Create" /\ work'[k] = NoWork
  <2>1. S3User(k)' = None
    BY <1>3, WritesUser
  <2> QED
    BY <1>3, <2>1 DEF WorkInv, MemoryInv, HandlerInv, OutcomeInv, UpdateLabels, NoWork
<1> QED
  BY <1>2, <1>3

-----------------------------------------------------------------------------
(* handleCreate *)

\* The S3 user that AddUser makes.
LEMMA PutsUser ==
    ASSUME IInv, NEW k \in Keys, Handling(k), HandlerInv(k), pc[k] = "Create",
           NEW key, PutUser(k, key)
    PROVE  S3User(k)' = [key |-> key, policies |-> {}]
<1>1. SetUser(k, [key |-> key, policies |-> {}])
  BY DEF PutUser, HandlerInv
<1> QED
  BY <1>1, WritesUser

LEMMA CreatesWell ==
    ASSUME Separate, KeysNeverRunOut, IInv, SecretsInv,
           NEW k \in Keys, Create(k), Handling(k), HandlerInv(k)
    PROVE  WorkInv(k)'
<1>1. pc[k] = "Create"
  BY DEF Create, At
<1>2. NewKey # None
  BY NewKeyIsNew, UserConstants DEF IInv, Values
<1>3. [key |-> NewKey, policies |-> {}] # None
      /\ \A key \in AccessKeys \cup Passwords : [key |-> key, policies |-> {}] # None
  <2>1. \A key \in AccessKeys \cup Passwords : [key |-> key, policies |-> {}] \in Users
    BY DEF Users
  <2> QED
    BY <2>1, NewKeyIsNew, UserConstants DEF IInv
<1>4. CASE CreateWithNewKey(k)
  <2> DEFINE m == [NoWork EXCEPT !.key = NewKey]
             effect == PutUser(k, NewKey)
  <2>1. Call(k, TRUE, effect, "CreateSecret", m)
    BY <1>4 DEF CreateWithNewKey
  <2>2. m.key = NewKey /\ m.delete = {}
    BY DEF NoWork
  <2> HIDE DEF m, effect
  <2>3. WorkInv(k)' \/ (effect /\ pc'[k] = "CreateSecret" /\ work'[k] = m)
    BY <2>1, CallsWell
  <2>4. CASE effect /\ pc'[k] = "CreateSecret" /\ work'[k] = m
    <3>1. S3User(k)' = [key |-> NewKey, policies |-> {}]
      BY <1>1, <2>4, PutsUser DEF effect
    <3> QED
      BY <2>2, <2>4, <3>1 DEF WorkInv, MemoryInv, HandlerInv, OutcomeInv, UpdateLabels
  <2> QED
    BY <2>3, <2>4
<1>5. CASE CreateOnExisting(k)
  <2> DEFINE s == CachedSecret(SecretName(k))
             label == IF flags.override THEN "UpdateSecret" ELSE "AttachPolicies"
             p == IF flags.override THEN NewKey ELSE None
             m == [NoWork EXCEPT !.key = p]
             key == KeyToGive(k)
             possible == key # Empty
             effect == PutUser(k, key)
  <2>1. /\ Call(k, possible, effect, label, m)
        /\ s # None
        /\ label = "AttachPolicies" => flags.read /\ ~flags.override
    BY <1>5 DEF CreateOnExisting, Existing
  <2>2. m.delete = {}
    BY DEF NoWork
  <2>3. label \in {"UpdateSecret", "AttachPolicies"}
    OBVIOUS
  <2>4. s \in Secrets /\ (possible => key \in AccessKeys \cup Passwords)
    <3>1. s \in Secrets /\ Wanted(k).keyField \in FieldNames
      BY <2>1, Typed, SpecFields DEF Handling
    <3>2. KeyIn(s, Wanted(k)) \in Values \cup {None} /\ NewKey \in Passwords
      BY <3>1, NewKeyIsNew DEF Secrets, Data, KeyIn, IInv
    <3> QED
      BY <3>1, <3>2 DEF KeyToGive, Existing, Values
  <2>5. /\ flags.read => key = KeyIn(s, Wanted(k)) \/ KeyIn(s, Wanted(k)) = None
        /\ Quiet(k) => StoredSecret(SecretName(k)) = s
    BY <2>1, LinkedSecret DEF Handling, KeyToGive, Existing
  <2> HIDE DEF label, m, key, possible, effect
  <2>6. WorkInv(k)' \/ (possible /\ effect /\ pc'[k] = label /\ work'[k] = m)
    BY <2>1, CallsWell
  <2>7. CASE possible /\ effect /\ pc'[k] = label /\ work'[k] = m
    <3>1. S3User(k)' = [key |-> key, policies |-> {}]
      BY <1>1, <2>7, PutsUser DEF effect
    <3>2. S3User(k)' # None /\ S3User(k)'.policies = {} /\ S3User(k)'.key = key
      <4>1. [key |-> key, policies |-> {}] # None
        BY <1>3, <2>4, <2>7
      <4> QED
        BY <3>1, <4>1
    <3>3. ASSUME Quiet(k)', label = "AttachPolicies"
          PROVE  \/ CannotRead(k, Wanted(k))'
                 \/ LET t == StoredSecret(SecretName(k))'
                    IN  /\ t # None
                        /\ AccessIn(t, Wanted(k)') = Wanted(k)'.access
                        /\ KeyIn(t, Wanted(k)') = S3User(k)'.key
      <4>1. StoredSecret(SecretName(k))' = s
        <5>1. StoredSecret(SecretName(k)) = s /\ s # None
          BY <2>1, <2>5, <3>3 DEF Handling, Stays
        <5>2. \A n \in NamesOf(k) : StoredSecret(n) # None
                                      => StoredSecret(n)' = StoredSecret(n)
          BY <3>3 DEF Handling, Stays
        <5> QED
          BY <5>1, <5>2 DEF Handling
      <4>2. /\ Wanted(k)' = Wanted(k) /\ SecretName(k)' = SecretName(k) /\ flags' = flags
            /\ SecretOf(k, Wanted(k))' = s
        BY <4>1 DEF Handling, SecretOf, SecretName, Wanted
      <4>3. CASE AccessIn(s, Wanted(k)) = Wanted(k).access /\ KeyIn(s, Wanted(k)) # None
        BY <2>1, <2>5, <3>2, <3>3, <4>1, <4>2, <4>3
      <4>4. CASE AccessIn(s, Wanted(k)) # Wanted(k).access \/ KeyIn(s, Wanted(k)) = None
        <5>1. CannotRead(k, Wanted(k))'
          BY <2>1, <3>3, <4>2, <4>4 DEF CannotRead, AccessIn, KeyIn
        <5> QED
          BY <5>1
      <4> QED
        BY <4>3, <4>4
    <3>4. MemoryInv(k)'
      BY <2>2, <2>3, <2>7 DEF MemoryInv, UpdateLabels
    <3>5. HandlerInv(k)'
      BY <2>3, <2>7, <3>2, <3>3 DEF HandlerInv, UpdateLabels, AccessIn, KeyIn
    <3> QED
      BY <2>3, <2>7, <3>4, <3>5 DEF WorkInv, OutcomeInv
  <2> QED
    BY <2>6, <2>7
<1>6. CASE Finish(k, "CreationFailure", TRUE) \/ Finish(k, "Unreachable", TRUE)
  BY <1>6, ErrsWell
<1> QED
  BY <1>4, <1>5, <1>6 DEF Create, Refuse

\* The secret it writes.
LEMMA WritesSecret ==
    ASSUME Separate, IInv, NEW k \in Keys, Handling(k),
           pc[k] \in {"CreateSecret", "UpdateSecret"}, SetSecret(SecretName(k), NewSecret(k))
    PROVE  LET s == StoredSecret(SecretName(k))'
           IN  /\ s # None
               /\ AccessIn(s, Wanted(k)') = Wanted(k)'.access
               /\ KeyIn(s, Wanted(k)') = work[k].key
               /\ S3User(k)' = S3User(k)
<1>1. SecretName(k) \in SecretNames /\ StoreSecret(SecretName(k), NewSecret(k))
      /\ UNCHANGED users /\ Wanted(k)' = Wanted(k) /\ SecretName(k)' = SecretName(k)
  BY DEF Handling, SetSecret
<1>2. NewSecret(k) \in Secrets /\ NewSecret(k) # None
  BY NewSecretTyped, UserConstants
<1> DEFINE n == SecretName(k)  s == NewSecret(k)
<1>3. AccessIn(s, Wanted(k)) = Wanted(k).access /\ KeyIn(s, Wanted(k)) = work[k].key
  <2>1. Wanted(k).accessField \in FieldNames /\ Wanted(k).keyField \in FieldNames
        /\ Wanted(k).accessField # Wanted(k).keyField
    BY HandlerData DEF UserSpecs
  <2>2. s.data = NewData(k)
    BY DEF NewSecret
  <2> QED
    BY <2>1, <2>2 DEF NewData, AccessIn, KeyIn
<1> HIDE DEF n, s
<1>4. StoredSecret(n)' = s
  BY <1>1, <1>2, StoredVersions DEF n, s
<1> QED
  BY <1>1, <1>2, <1>3, <1>4 DEF S3User, n, s, StoredSecret, AccessIn, KeyIn

LEMMA CreatesSecretWell ==
    ASSUME Separate, IInv, NEW k \in Keys, CreateSecret(k), Handling(k), HandlerInv(k)
    PROVE  WorkInv(k)'
<1> DEFINE possible == StoredSecret(SecretName(k)) = None
           effect == SetSecret(SecretName(k), NewSecret(k))
<1>1. pc[k] = "CreateSecret" /\ Call(k, possible, effect, "AttachPolicies", NoWork)
  BY DEF CreateSecret, At
<1>2. S3User(k) = [key |-> work[k].key, policies |-> {}]
  BY <1>1 DEF HandlerInv
<1>3. S3User(k) # None /\ S3User(k).policies = {} /\ S3User(k).key = work[k].key
  <2>1. work[k].key \in Passwords
    BY <1>1, Typed, MemoryFields DEF IInv, KeyInv
  <2>2. S3User(k) \in Users
    BY <1>2, <2>1 DEF Users
  <2>3. S3User(k) # None
    BY <2>2, UserConstants
  <2> QED
    BY <1>2, <2>3
<1> HIDE DEF possible
<1>4. WorkInv(k)' \/ (effect /\ pc'[k] = "AttachPolicies" /\ work'[k] = NoWork)
  BY <1>1, CallsWell
<1>5. CASE effect /\ pc'[k] = "AttachPolicies" /\ work'[k] = NoWork
  <2> DEFINE s == StoredSecret(SecretName(k))'
  <2>1. /\ s # None
        /\ AccessIn(s, Wanted(k)') = Wanted(k)'.access
        /\ KeyIn(s, Wanted(k)') = work[k].key
        /\ S3User(k)' = S3User(k)
    BY <1>1, <1>5, WritesSecret
  <2>2. HandlerInv(k)'
    BY <1>3, <1>5, <2>1 DEF HandlerInv, UpdateLabels, AccessIn, KeyIn
  <2> QED
    BY <1>5, <2>2 DEF WorkInv, MemoryInv, OutcomeInv, UpdateLabels, NoWork
<1> QED
  BY <1>4, <1>5

LEMMA UpdatesSecretWell ==
    ASSUME Separate, IInv, SecretsInv, NEW k \in Keys, UpdateSecret(k), Handling(k),
           HandlerInv(k)
    PROVE  WorkInv(k)'
<1> DEFINE possible == StoredSecret(SecretName(k)) # None
           effect == SetSecret(SecretName(k), NewSecret(k))
<1>1. pc[k] = "UpdateSecret" /\ Call(k, possible, effect, "AttachPolicies", NoWork)
  BY DEF UpdateSecret, At
<1>2. S3User(k) # None /\ S3User(k).policies = {}
  BY <1>1 DEF HandlerInv
<1>3. WorkInv(k)' \/ (possible /\ effect /\ pc'[k] = "AttachPolicies" /\ work'[k] = NoWork)
  BY <1>1, CallsWell
<1>4. CASE possible /\ effect /\ pc'[k] = "AttachPolicies" /\ work'[k] = NoWork
  <2>1. SecretName(k) \in SecretNames /\ SecretName(k) \in NamesOf(k)
        /\ StoreSecret(SecretName(k), NewSecret(k)) /\ UNCHANGED users
        /\ Wanted(k)' = Wanted(k)
    BY <1>4 DEF Handling, SetSecret
  <2>2. MayStore(SecretName(k), NewSecret(k))
    BY <1>1, MayStoreOwn
  <2>3. ~Quiet(k)'
    BY <1>4, <2>1, <2>2, ChangeIsPending DEF Quiet
  <2>4. S3User(k)' = S3User(k)
    BY <2>1 DEF S3User
  <2>5. HandlerInv(k)'
    BY <1>2, <1>4, <2>3, <2>4 DEF HandlerInv, UpdateLabels
  <2> QED
    BY <1>4, <2>5 DEF WorkInv, MemoryInv, OutcomeInv, UpdateLabels, NoWork
<1> QED
  BY <1>3, <1>4

LEMMA AttachesWell ==
    ASSUME IInv, NEW k \in Keys, AttachPolicies(k), Handling(k), HandlerInv(k)
    PROVE  WorkInv(k)'
<1> DEFINE ps == Wanted(k).policies
           u == [S3User(k) EXCEPT !.policies = @ \cup ps]
<1>1. pc[k] = "AttachPolicies"
  BY DEF AttachPolicies, At
<1>2. /\ S3User(k) # None /\ S3User(k).policies = {}
      /\ Quiet(k) => \/ CannotRead(k, Wanted(k))
                     \/ LET s == StoredSecret(SecretName(k))
                        IN  /\ s # None
                            /\ AccessIn(s, Wanted(k)) = Wanted(k).access
                            /\ KeyIn(s, Wanted(k)) = S3User(k).key
  BY <1>1 DEF HandlerInv
<1>3. CASE Finish(k, "Unreachable", TRUE)
  BY <1>3, ErrsWell
<1>4. CASE /\ IF ps = {} THEN UNCHANGED <<users, secrets>> ELSE Attach(k, ps)
           /\ Finish(k, "Reconciled", FALSE)
  <2>1. UNCHANGED secrets /\ (users' = users \/ SetUser(k, u))
    BY <1>4 DEF Attach, SetUser
  <2>2. u # None /\ u.policies = ps /\ u.key = S3User(k).key
    <3>1. S3User(k) \in Users /\ ps \in SUBSET PolicyNames
      BY <1>2, Asked DEF Handling
    <3>2. u \in Users /\ u.policies = S3User(k).policies \cup ps /\ u.key = S3User(k).key
      BY <3>1, UserFields DEF Users
    <3> QED
      BY <1>2, <3>2, UserConstants
  <2>3. S3User(k)' # None /\ S3User(k)'.policies = ps /\ S3User(k)'.key = S3User(k).key
    <3>1. CASE ps = {}
      BY <1>2, <1>4, <3>1 DEF S3User, Handling
    <3>2. CASE ps # {}
      <4>1. SetUser(k, u)
        BY <1>4, <3>2 DEF Attach
      <4> HIDE DEF u
      <4> QED
        BY <2>2, <4>1, WritesUser
    <3> QED
      BY <3>1, <3>2
  <2>4. /\ Wanted(k)' = Wanted(k) /\ SecretName(k)' = SecretName(k)
        /\ (Quiet(k)' => Quiet(k))
        /\ \A n : StoredSecret(n)' = StoredSecret(n)
    BY <2>1 DEF Handling, Stays, StoredSecret
  <2>5. ASSUME Quiet(k)' PROVE Delivers(k, Wanted(k))' \/ CannotRead(k, Wanted(k))'
    <3> DEFINE s == StoredSecret(SecretName(k))
    <3>1. SecretOf(k, Wanted(k)) = s /\ SecretOf(k, Wanted(k))' = s /\ flags' = flags
      BY <2>4 DEF SecretOf, SecretName, Handling, Wanted
    <3>2. CASE CannotRead(k, Wanted(k))
      BY <2>4, <3>1, <3>2 DEF CannotRead, AccessIn, KeyIn
    <3>3. CASE ~CannotRead(k, Wanted(k))
      <4>1. /\ s # None /\ AccessIn(s, Wanted(k)) = Wanted(k).access
            /\ KeyIn(s, Wanted(k)) = S3User(k).key
        BY <1>2, <2>4, <2>5, <3>3
      <4> QED
        BY <2>3, <2>4, <3>1, <4>1 DEF Delivers, S3User, AccessIn, KeyIn
    <3> QED
      BY <3>2, <3>3
  <2> QED
    BY <1>1, <1>4, <2>5, ReportsWell DEF ProvisionLabels, UserLabels
<1> QED
  BY <1>3, <1>4 DEF AttachPolicies, CallWorks

-----------------------------------------------------------------------------
(* handleDeletion *)

\* It deletes secrets that the CR owns.
LEMMA DeletesOnly ==
    ASSUME NEW k \in Keys, pc'[k] = "DeleteOwned", \A n \in work'[k].delete : OnceOwned(n)'
    PROVE  WorkInv(k)'
  BY DEF WorkInv, MemoryInv, HandlerInv, OutcomeInv, UpdateLabels

LEMMA FinalizesWell ==
    ASSUME IInv, SecretsInv, NEW k \in Keys, FinalizeUser(k), Handling(k)
    PROVE  WorkInv(k)'
<1>1. CASE Finish(k, "DeletionFailure", TRUE)
  BY <1>1, ErrsWell
<1>2. CASE AfterUser(k)
  <2> DEFINE owned == Owned(k)  m == [NoWork EXCEPT !.delete = owned]
  <2>1. \A n \in owned : n \in SecretNames /\ OnceOwned(n)
    <3> SUFFICES ASSUME NEW n \in owned PROVE n \in SecretNames /\ OnceOwned(n)
      OBVIOUS
    <3>1. n \in SecretNames /\ CachedSecret(n) # None /\ CachedSecret(n).owner = Self(k)
      BY DEF Owned
    <3>2. CachedSecret(n) \in Secrets
      BY <3>1, SecretVersions DEF CachedSecret
    <3>3. CachedSecret(n).owner # None
      <4>1. Uid(k) \in Int
        BY Typed DEF Uid
      <4>2. Self(k) \in [cr : Keys, uid : Int]
        BY <4>1 DEF Self
      <4> QED
        BY <3>1, <4>2, UserConstants
    <3> QED
      BY <3>1, <3>3, CachedIsStored
  <2>2. \A n \in owned : OnceOwned(n)'
    BY <2>1 DEF Handling, Stays
  <2>3. m.delete = owned
    BY DEF NoWork
  <2>4. Continue(k, "RemoveFinalizer", NoWork) \/ Continue(k, "DeleteOwned", m)
    BY <1>2 DEF AfterUser
  <2> HIDE DEF owned, m
  <2>5. \/ pc'[k] = "RemoveFinalizer" /\ work'[k] = NoWork
        \/ pc'[k] = "DeleteOwned" /\ work'[k] = m
    BY <2>4, GoesOn
  <2> QED
    BY <2>2, <2>3, <2>5, ForgetsWell, DeletesOnly
<1> QED
  BY <1>1, <1>2 DEF FinalizeUser

LEMMA DeletesOwnedWell ==
    ASSUME IInv, NEW k \in Keys, DeleteOwned(k), Handling(k), MemoryInv(k)
    PROVE  WorkInv(k)'
<1>1. PICK n \in work[k].delete :
        LET left == work[k].delete \ {n}
        IN  \/ Continue(k, "RemoveFinalizer", NoWork)
            \/ Continue(k, "DeleteOwned", [NoWork EXCEPT !.delete = left])
            \/ Finish(k, "DeletionFailure", TRUE)
  BY DEF DeleteOwned
<1> DEFINE left == work[k].delete \ {n}  m == [NoWork EXCEPT !.delete = left]
<1>2. \A o \in left : OnceOwned(o)'
  BY FewerSecrets DEF MemoryInv, Handling, Stays
<1>3. m.delete = left
  BY DEF NoWork
<1>4. \/ Continue(k, "RemoveFinalizer", NoWork) \/ Continue(k, "DeleteOwned", m)
      \/ Finish(k, "DeletionFailure", TRUE)
  BY <1>1
<1> HIDE DEF left, m
<1>5. \/ pc'[k] = "RemoveFinalizer" /\ work'[k] = NoWork
      \/ pc'[k] = "DeleteOwned" /\ work'[k] = m
      \/ WorkInv(k)'
  BY <1>4, GoesOn, ErrsWell
<1> QED
  BY <1>2, <1>3, <1>5, ForgetsWell, DeletesOnly

LEMMA HandlersWell ==
    ASSUME Separate, KeysNeverRunOut, IInv, SecretsInv, NEW k \in Keys, S3UserStep(k),
           CredentialsOf(k)
    PROVE  CredentialsOf(k)'
<1>1. Handling(k) /\ MemoryInv(k) /\ HandlerInv(k)
  BY HandlersHandle DEF CredentialsOf
<1>2. WorkInv(k)'
  BY <1>1, HandlesUserWell, DeletesUnusedWell, GetsPoliciesWell, RemovesPoliciesWell,
     AddsPoliciesWell, ChecksWell, DeletesSecretWell, DropsUserWell, CreatesWell,
     CreatesSecretWell, UpdatesSecretWell, AttachesWell, FinalizesWell, DeletesOwnedWell
  DEF S3UserStep
<1>3. Promise(k)'
  BY <1>1 DEF Handling, Promise, Pending
<1> QED
  BY <1>2, <1>3 DEF WorkInv, CredentialsOf

-----------------------------------------------------------------------------
(* Every step keeps the invariant *)

\* The S3 users the other CRs ask for stay as they are.
LEMMA OtherUsersStay ==
    ASSUME Separate, IInv, NEW j \in Keys, StepOn(j), NEW k \in Keys \ {j}
    PROVE  UserStays(k)
<1>1. CASE UNCHANGED users
  BY <1>1 DEF UserStays
<1>2. CASE Handles(j) /\ ~UNCHANGED users
  <2>1. pc[j] # "Idle"
    BY <1>2, LabelsOfTheLoop DEF Handles, LabelSets
  <2>2. PICK u : users' = [users EXCEPT ![Wanted(j).access] = u]
    BY <1>2 DEF Handles, Change
  <2>3. \A a \in AccessKeys \ {Wanted(j).access} : users'[a] = users[a]
    BY <2>1, <2>2, Replaced
  <2>4. Wanted(j) \in Specs[j]
    BY <2>1, HandlerData
  <2>5. \A spec \in Specs[k] : spec.access \in AccessKeys /\ spec.access # Wanted(j).access
    BY <2>4, Names DEF Separate, OneUserEach
  <2> QED
    BY <2>3, <2>5 DEF UserStays
<1> QED
  BY <1>1, <1>2, StepsAreApart

\* The invariant without its last conjunct, which says the same as the promises.
Credentials == SecretsInv /\ \A k \in Keys : CredentialsOf(k)

LEMMA PromisesOfAll == Credentials <=> CredentialsInv
  BY DEF Credentials, CredentialsOf, CredentialsInv, CredentialsDelivered, Promise

LEMMA StepOnKeepsCredentials ==
    ASSUME Separate, KeysNeverRunOut, IInv, Credentials, NEW j \in Keys, StepOn(j)
    PROVE  Credentials'
<1>1. SecretsInv /\ \A k \in Keys : CredentialsOf(k) /\ MemoryInv(k)
  BY DEF Credentials, CredentialsOf
<1>2. \/ S3UserStep(j)
      \/ LoopStep(j) /\ UidsFollow /\ UNCHANGED <<users, secrets, flags, work>>
      \/ /\ UserStep(j) \/ Deliver(j)
         /\ UidsFollow \/ uids' = uids
         /\ UNCHANGED <<users, secrets, flags, work>>
  <2>1. WorkerStep(j) => \/ S3UserStep(j)
                         \/ LoopStep(j) /\ UidsFollow /\ UNCHANGED <<users, secrets, flags, work>>
    BY DEF WorkerStep
  <2>2. DeliverUser(j) => Deliver(j) /\ uids' = uids /\ UNCHANGED <<users, secrets, flags, work>>
    BY DEF DeliverUser, userVars
  <2>3. EditUser(j) => UserStep(j) /\ UidsFollow /\ UNCHANGED <<users, secrets, flags, work>>
    BY DEF EditUser
  <2> QED
    BY <2>1, <2>2, <2>3 DEF StepOn
<1>3. SecretsGrow
  <2>1. S3UserStep(j) => SecretsGrow
    BY <1>1, HandlersGrow
  <2> QED
    BY <1>2, <2>1 DEF SecretsGrow
<1>4. SecretsInv'
  BY <1>1, <1>3, GrowingKeepsSecretsInv
<1>5. CredentialsOf(j)'
  <2>1. CASE S3UserStep(j)
    BY <1>1, <2>1, HandlersWell
  <2>2. CASE LoopStep(j) /\ UidsFollow /\ UNCHANGED <<users, secrets, flags, work>>
    BY <1>1, <2>2, LoopKeepsCredentials
  <2>3. CASE /\ UserStep(j) \/ Deliver(j)
             /\ UidsFollow \/ uids' = uids
             /\ UNCHANGED <<users, secrets, flags, work>>
    BY <1>1, <2>3, WritersKeep
  <2> QED
    BY <1>2, <2>1, <2>2, <2>3
<1>6. ASSUME NEW k \in Keys \ {j} PROVE CredentialsOf(k)'
  <2>1. k \in queue => k \in queue'
    BY StepsAreApart DEF Keeps, LeftAlone
  <2>2. Elsewhere(k)
    BY <1>6, <2>1, StepsAreApart DEF Elsewhere, Handles
  <2>3. UserStays(k)
    BY OtherUsersStay
  <2>4. Stays(k)
    BY <1>1, <1>3, <2>1, GrowingStays
  <2> QED
    BY <1>1, <2>2, <2>3, <2>4, ElsewhereKeeps
<1> QED
  BY <1>4, <1>5, <1>6 DEF Credentials

\* The watch of the secrets, the garbage collector, and people who write secrets and
\* policies.
LEMMA OthersKeepCredentials ==
    ASSUME Separate, KeysNeverRunOut, IInv, Credentials,
           \/ \E n \in SecretNames : DeliverSecret(n) \/ Collect(n) \/ Tamper(n)
           \/ \E p \in PolicyNames : PolicyAppears(p)
           \/ UNCHANGED vars
    PROVE  Credentials'
<1>1. SecretsInv /\ \A k \in Keys : CredentialsOf(k)
  BY DEF Credentials
<1>2. /\ UNCHANGED <<versions, pc, res, out, uids, work, users, flags>>
      /\ queue \subseteq queue'
  <2>1. ASSUME NEW n \in SecretNames, DeliverSecret(n)
        PROVE  UNCHANGED <<versions, pc, res, out, uids, work, users, flags>> /\ queue \subseteq queue'
    BY <2>1 DEF DeliverSecret
  <2>2. ASSUME NEW n \in SecretNames, Collect(n) \/ Tamper(n)
        PROVE  UNCHANGED <<versions, queue, pc, res, out, uids, work, users, flags>>
    BY <2>2 DEF Collect, Tamper, loopVars
  <2>3. ASSUME NEW p \in PolicyNames, PolicyAppears(p)
        PROVE  UNCHANGED <<versions, queue, pc, res, out, uids, work, users, flags>>
    BY <2>3 DEF PolicyAppears, loopVars
  <2>4. UNCHANGED vars => UNCHANGED <<versions, queue, pc, res, out, uids, work, users, flags>>
    BY DEF vars, loopVars, userVars
  <2> QED
    BY <2>1, <2>2, <2>3, <2>4
<1>3. SecretsInv' /\ \A k \in Keys : Stays(k)
  <2>1. ASSUME NEW n \in SecretNames, DeliverSecret(n)
        PROVE  SecretsInv' /\ \A k \in Keys : Stays(k)
    BY <1>1, <2>1, DeliveringKeepsSecretsInv, DeliveringStays
  <2>2. CASE SecretsGrow
    BY <1>1, <1>2, <2>2, GrowingKeepsSecretsInv, GrowingStays
  <2>3. ASSUME NEW n \in SecretNames, Collect(n) \/ Tamper(n)
        PROVE  SecretsGrow
    BY <1>1, <2>3, OthersGrow
  <2>4. ASSUME NEW p \in PolicyNames, PolicyAppears(p)
        PROVE  SecretsGrow
    BY <2>4 DEF PolicyAppears, SecretsGrow
  <2>5. UNCHANGED vars => SecretsGrow
    BY DEF vars, userVars, SecretsGrow
  <2> QED
    BY <2>1, <2>2, <2>3, <2>4, <2>5
<1>4. ASSUME NEW k \in Keys PROVE CredentialsOf(k)'
  BY <1>1, <1>2, <1>3, ElsewhereKeeps DEF Elsewhere, UserStays
<1> QED
  BY <1>3, <1>4 DEF Credentials

\* After a restart every CR that is stored is queued.
LEMMA RestartKeepsCredentials ==
    ASSUME IInv, Credentials, Restart
    PROVE  Credentials'
<1>1. SecretsInv
  BY DEF Credentials
<1>2. \A n \in SecretNames : secrets'[n] = <<StoredSecret(n)>>
  BY DEF Restart
<1>3. SecretsInv'
  <2> SUFFICES ASSUME NEW n \in SecretNames, NEW i \in 1..Len(secrets'[n])
               PROVE  i = 1 /\ SecretFits(n, secrets'[n][i])
    BY DEF SecretsInv, SecretFits, Woken, OwnersIn
  <2>1. i = 1 /\ secrets'[n][i] = StoredSecret(n)
    BY <1>2
  <2> QED
    BY <1>1, <2>1, SecretVersions DEF SecretsInv, StoredSecret
<1>4. ASSUME NEW k \in Keys PROVE CredentialsOf(k)'
  <2>1. pc'[k] = "Idle" /\ work'[k] = NoWork
    BY DEF Restart, Crash
  <2>2. Stored(k)' = Stored(k)
    BY WatchStoresNothing DEF Restart, IInv
  <2>3. Stored(k)' # None => k \in queue'
    BY <2>2 DEF Restart, Crash
  <2>4. Promise(k)'
    BY <2>3 DEF Promise, ReconciledNow, Pending
  <2> QED
    BY <2>1, <2>4 DEF CredentialsOf, MemoryInv, HandlerInv, OutcomeInv, UpdateLabels, NoWork
<1> QED
  BY <1>3, <1>4 DEF Credentials

LEMMA NextKeepsCredentials ==
    ASSUME Separate, KeysNeverRunOut, IInv, CredentialsInv, [Next]_vars
    PROVE  CredentialsInv'
<1>1. Credentials
  BY PromisesOfAll
<1>2. Credentials'
  BY <1>1, StepOnKeepsCredentials, OthersKeepCredentials, RestartKeepsCredentials
  DEF Next, StepOn
<1>3. Credentials' => CredentialsInv'
  BY DEF Credentials, CredentialsOf, CredentialsInv, CredentialsDelivered, Promise
<1> QED
  BY <1>2, <1>3

\* To begin with, nothing is stored but what others made of the secrets.
LEMMA InitKeepsCredentials ==
    ASSUME Separate, UserInit
    PROVE  CredentialsInv
<1>1. SecretsInv
  <2>1. PICK made : /\ \A n \in SecretNames : made[n] \in Foreign[n] \cup {None}
                    /\ secrets = [n \in SecretNames |-> <<made[n]>>]
    BY DEF UserInit
  <2> SUFFICES ASSUME NEW n \in SecretNames, NEW i \in 1..Len(secrets[n])
               PROVE  i = 1 /\ SecretFits(n, secrets[n][i])
    BY DEF SecretsInv
  <2>2. secrets[n] = <<made[n]>> /\ made[n] \in Foreign[n] \cup {None}
    BY <2>1
  <2>3. i = 1 /\ secrets[n][i] = made[n]
    BY <2>2
  <2>4. made[n] # None => made[n].owner = None
    BY <2>2, UserConstants
  <2>5. made[n] # None => \A k \in Keys : n \in NamesOf(k) =>
                            \A t \in Specs[k] : IsOf(made[n], t)
    BY <2>2 DEF Separate, ForeignSecretsFit
  <2> QED
    BY <2>3, <2>4, <2>5 DEF SecretFits
<1>2. \A k \in Keys : pc[k] = "Idle" /\ work[k] = NoWork /\ Stored(k) = None
  BY DEF UserInit, LoopInit, Stored
<1>3. \A k \in Keys : MemoryInv(k) /\ HandlerInv(k) /\ OutcomeInv(k)
  <2> SUFFICES ASSUME NEW k \in Keys
               PROVE  MemoryInv(k) /\ HandlerInv(k) /\ OutcomeInv(k)
    OBVIOUS
  <2>1. pc[k] = "Idle" /\ work[k].delete = {}
    BY <1>2 DEF NoWork
  <2> QED
    BY <2>1 DEF MemoryInv, HandlerInv, OutcomeInv, UpdateLabels
<1>4. CredentialsDelivered
  BY <1>2 DEF CredentialsDelivered, ReconciledNow
<1> QED
  BY <1>1, <1>3, <1>4 DEF CredentialsInv

\* As long as CRs do not share S3 users or secrets and keep their access keys, what
\* handlers remember from their stale caches is outdated only where a change of a
\* secret is still to wake up the CR, and the key they have given a user is the one in
\* its secret unless an existing secret has none (CannotRead), in every reachable state.
THEOREM CredentialsInductiveInvariant ==
    ASSUME KeysNeverRunOut, OneUserEach, SecretsAreApart, ForeignSecretsFit,
           AccessKeysAreKept
    PROVE  Spec => []CredentialsInv
<1> Separate
  BY DEF Separate
<1>1. UserInit => CredentialsInv
  BY InitKeepsCredentials
<1>2. IInv /\ CredentialsInv /\ [Next]_vars => CredentialsInv'
  BY NextKeepsCredentials
<1> QED
  BY <1>1, <1>2, InductiveInvariant, PTL DEF Spec

\* An S3User that says "Reconciled" of its current generation, with nothing to come
\* that wakes up its worker, has a secret that opens its S3 user with just its policies:
\* for any CRs, names of fields, faults and delays of the two caches, and any flags.
\* The exceptions: others' secret under its default name hides its own (Hidden), or the
\* read flag was given alone and the existing secret lacks its credentials (CannotRead).
THEOREM ReconciledIsDelivered ==
    ASSUME KeysNeverRunOut, OneUserEach, SecretsAreApart, ForeignSecretsFit,
           AccessKeysAreKept
    PROVE  Spec => []CredentialsDelivered
<1>1. CredentialsInv => CredentialsDelivered
  BY DEF CredentialsInv
<1> QED
  BY <1>1, CredentialsInductiveInvariant, PTL

=============================================================================
