------------------------------ MODULE LoopProofs ------------------------------
(***************************************************************************)
(* LoopInvariant is inductive for the steps all controllers share, and for *)
(* the steps of a handler as long as it goes from label to label the way   *)
(* Proceeds says.  Each controller's proofs cite the lemmas of this        *)
(* module, for its own labels.                                             *)
(***************************************************************************)
EXTENDS LoopInvariant, TLAPS

-----------------------------------------------------------------------------
(* Sequences of versions *)

\* What may be stored after the versions vs.
MayFollow(vs, v) ==
    /\ v \in Versions
    /\ v # None /\ v.del => v.fin
    /\ ~NoneIsReady(vs) => v # None /\ v.fin
    /\ v # None /\ v.fin
         => \A i \in 1..Len(vs) : vs[i] # None /\ (vs[i].del => v.del)
    /\ v # None => v.cond.obs <= v.gen
    /\ Relevant(vs[Len(vs)], v) \/ Follows(vs[Len(vs)], v)

\* The indices of a sequence to which v is appended.
LEMMA Appended ==
    ASSUME NEW V, NEW vs \in Seq(V) \ {<<>>}, NEW v \in V
    PROVE  LET ws == Append(vs, v)
           IN  /\ ws \in Seq(V) \ {<<>>}
               /\ Len(vs) \in Nat \ {0}
               /\ Len(ws) = Len(vs) + 1
               /\ \A i \in 1..Len(vs) : ws[i] = vs[i]
               /\ ws[Len(vs) + 1] = v
  OBVIOUS

\* The numbers of an object are naturals, so that Follows is transitive.
LEMMA FollowsIsTransitive ==
    ASSUME NEW a \in Versions, NEW b \in Versions, NEW c \in Versions,
           Follows(a, b), Follows(b, c)
    PROVE  Follows(a, c)
<1>1. a \in Objects /\ b \in Objects /\ c \in Objects
  BY DEF Follows, Versions
<1>2. a.cond.obs \in Nat /\ b.cond.obs \in Nat /\ c.cond.obs \in Nat
  BY <1>1 DEF Objects, Conditions
<1> QED
  BY <1>2 DEF Follows

\* A stored version keeps the order and can be traced.
LEMMA AppendKeeps ==
    ASSUME NEW vs \in Seq(Versions) \ {<<>>}, NEW v,
           Ordered(vs), Traceable(vs), MayFollow(vs, v)
    PROVE  LET ws == Append(vs, v)
           IN  /\ Ordered(ws) /\ Traceable(ws)
               /\ ws \in Seq(Versions) \ {<<>>}
               /\ ws[Len(ws)] = v
               /\ Ahead(vs) \/ Relevant(vs[Len(vs)], v) => Ahead(ws)
               /\ \A o : Known(vs, o) /\ SameGeneration(v, o) => Known(ws, o)
               /\ \A S : (\A i \in 1..Len(vs) : vs[i] # None => vs[i].spec \in S)
                           /\ (v # None => v.spec \in S)
                         => \A i \in 1..Len(ws) : ws[i] # None => ws[i].spec \in S
<1> DEFINE ws == Append(vs, v)
<1>1. /\ ws \in Seq(Versions) \ {<<>>}
      /\ Len(ws) = Len(vs) + 1
      /\ \A i \in 1..Len(vs) : ws[i] = vs[i] /\ vs[i] \in Versions
      /\ ws[Len(vs) + 1] = v
      /\ Len(vs) \in Nat \ {0}
      /\ v \in Versions
  BY Appended DEF MayFollow
<1> HIDE DEF ws
<1>2. Ordered(ws)
  <2>1. ASSUME NEW i \in 1..Len(ws) PROVE ws[i] # None /\ ws[i].del => ws[i].fin
    BY <1>1 DEF Ordered, MayFollow
  <2>2. ASSUME NEW i \in 1..Len(ws), NEW j \in 1..Len(ws), i <= j,
               ws[i] # None, ws[i].fin, ~ws[i].del
        PROVE  ws[j] # None /\ ws[j].fin
    <3>1. CASE j <= Len(vs)
      BY <3>1, <1>1, <2>2 DEF Ordered
    <3>2. CASE j = Len(vs) + 1 /\ i <= Len(vs)
      BY <3>2, <1>1, <2>2 DEF NoneIsReady, MayFollow
    <3>3. CASE i = Len(vs) + 1
      BY <3>3, <1>1, <2>2
    <3> QED
      BY <3>1, <3>2, <3>3, <1>1
  <2>3. ASSUME NEW i \in 1..Len(ws), NEW j \in 1..Len(ws), i <= j,
               ws[j] # None, ws[j].fin
        PROVE  ws[i] # None /\ (ws[i].del => ws[j].del)
    <3>1. CASE j <= Len(vs)
      BY <3>1, <1>1, <2>3 DEF Ordered
    <3>2. CASE j = Len(vs) + 1
      BY <3>2, <1>1, <2>3 DEF MayFollow
    <3> QED
      BY <3>1, <3>2, <1>1
  <2> QED
    BY <2>1, <2>2, <2>3 DEF Ordered
<1>3. Traceable(ws)
  <2>1. ASSUME NEW i \in 1..Len(ws), ws[i] # None PROVE ws[i].cond.obs <= ws[i].gen
    BY <1>1, <2>1 DEF Traceable, MayFollow
  <2>2. ASSUME NEW i \in 1..Len(ws), NEW j \in 1..Len(ws), i < j,
               NoneIsRelevant(ws, i, j)
        PROVE  Follows(ws[i], ws[j])
    <3>1. CASE j <= Len(vs)
      <4>1. NoneIsRelevant(vs, i, j)
        BY <3>1, <1>1, <2>2 DEF NoneIsRelevant
      <4> QED
        BY <3>1, <4>1, <1>1, <2>2 DEF Traceable
    <3>2. CASE j = Len(vs) + 1
      <4>1. ~Relevant(vs[Len(vs)], v)
        BY <3>2, <1>1, <2>2 DEF NoneIsRelevant
      <4>2. Follows(vs[Len(vs)], v)
        BY <4>1 DEF MayFollow
      <4>3. CASE i = Len(vs)
        BY <3>2, <4>2, <4>3, <1>1
      <4>4. CASE i < Len(vs)
        <5>1. NoneIsRelevant(vs, i, Len(vs))
          BY <3>2, <4>4, <1>1, <2>2 DEF NoneIsRelevant
        <5>2. Follows(vs[i], vs[Len(vs)])
          BY <4>4, <5>1, <1>1 DEF Traceable
        <5> QED
          BY <3>2, <4>2, <4>4, <5>2, <1>1, FollowsIsTransitive
      <4> QED
        BY <3>2, <4>3, <4>4, <1>1, <2>2
    <3> QED
      BY <3>1, <3>2, <1>1
  <2> QED
    BY <2>1, <2>2 DEF Traceable
<1>4. Ahead(vs) \/ Relevant(vs[Len(vs)], v) => Ahead(ws)
  <2>1. ASSUME NEW i \in 1..(Len(vs) - 1), Relevant(vs[i], vs[i + 1]) PROVE Ahead(ws)
    BY <2>1, <1>1 DEF Ahead
  <2>2. ASSUME Relevant(vs[Len(vs)], v) PROVE Ahead(ws)
    <3>1. Len(vs) \in 1..(Len(ws) - 1) /\ Relevant(ws[Len(vs)], ws[Len(vs) + 1])
      BY <2>2, <1>1
    <3> QED
      BY <3>1 DEF Ahead
  <2> QED
    BY <2>1, <2>2 DEF Ahead
<1>5. \A o : Known(vs, o) /\ SameGeneration(v, o) => Known(ws, o)
  BY <1>1 DEF Known
<1>6. \A S : (\A i \in 1..Len(vs) : vs[i] # None => vs[i].spec \in S)
               /\ (v # None => v.spec \in S)
             => \A i \in 1..Len(ws) : ws[i] # None => ws[i].spec \in S
  BY <1>1
<1> QED
  BY <1>1, <1>2, <1>3, <1>4, <1>5, <1>6 DEF ws

\* The informer learns a version: the others stay.
LEMMA TailKeeps ==
    ASSUME NEW vs \in Seq(Versions), Len(vs) > 1, Ordered(vs), Traceable(vs)
    PROVE  LET ws == Tail(vs)
           IN  /\ Ordered(ws) /\ Traceable(ws)
               /\ ws \in Seq(Versions) \ {<<>>}
               /\ ws[Len(ws)] = vs[Len(vs)]
               /\ Ahead(vs) => Relevant(vs[1], vs[2]) \/ Ahead(ws)
               /\ \A o : Known(vs, o) => Known(ws, o)
               /\ \A i \in 1..Len(ws) : i + 1 \in 1..Len(vs) /\ ws[i] = vs[i + 1]
<1> DEFINE ws == Tail(vs)
<1>1. /\ ws \in Seq(Versions)
      /\ Len(ws) = Len(vs) - 1
      /\ Len(vs) \in Nat
      /\ \A i \in 1..Len(ws) : ws[i] = vs[i + 1]
  OBVIOUS
<1> HIDE DEF ws
<1>2. \A i \in 1..Len(ws) : i + 1 \in 1..Len(vs) /\ ws[i] = vs[i + 1]
  BY <1>1
<1>3. Ordered(ws)
  <2>1. ASSUME NEW i \in 1..Len(ws) PROVE ws[i] # None /\ ws[i].del => ws[i].fin
    BY <1>2 DEF Ordered
  <2>2. ASSUME NEW i \in 1..Len(ws), NEW j \in 1..Len(ws), i <= j,
               ws[i] # None, ws[i].fin, ~ws[i].del
        PROVE  ws[j] # None /\ ws[j].fin
    <3>1. i + 1 <= j + 1 /\ i + 1 \in 1..Len(vs) /\ j + 1 \in 1..Len(vs)
      BY <2>2, <1>2
    <3> QED
      BY <3>1, <2>2, <1>2 DEF Ordered
  <2>3. ASSUME NEW i \in 1..Len(ws), NEW j \in 1..Len(ws), i <= j,
               ws[j] # None, ws[j].fin
        PROVE  ws[i] # None /\ (ws[i].del => ws[j].del)
    <3>1. i + 1 <= j + 1 /\ i + 1 \in 1..Len(vs) /\ j + 1 \in 1..Len(vs)
      BY <2>3, <1>2
    <3> QED
      BY <3>1, <2>3, <1>2 DEF Ordered
  <2> QED
    BY <2>1, <2>2, <2>3 DEF Ordered
<1>4. Traceable(ws)
  <2>1. ASSUME NEW i \in 1..Len(ws), ws[i] # None PROVE ws[i].cond.obs <= ws[i].gen
    BY <1>2, <2>1 DEF Traceable
  <2>2. ASSUME NEW i \in 1..Len(ws), NEW j \in 1..Len(ws), i < j,
               NoneIsRelevant(ws, i, j)
        PROVE  Follows(ws[i], ws[j])
    <3>1. i + 1 < j + 1 /\ i + 1 \in 1..Len(vs) /\ j + 1 \in 1..Len(vs)
      BY <2>2, <1>2
    <3>2. ASSUME NEW m \in (i + 1)..j PROVE ~Relevant(vs[m], vs[m + 1])
      <4>1. m - 1 \in i..(j - 1) /\ m - 1 \in 1..Len(ws) /\ m \in 1..Len(ws)
        BY <1>1, <2>2
      <4>2. ws[m - 1] = vs[m] /\ ws[m] = vs[m + 1]
        BY <4>1, <1>1
      <4>3. ~Relevant(ws[m - 1], ws[(m - 1) + 1])
        BY <4>1, <2>2 DEF NoneIsRelevant
      <4> QED
        BY <4>2, <4>3
    <3>3. NoneIsRelevant(vs, i + 1, j + 1)
      BY <3>2 DEF NoneIsRelevant
    <3> QED
      BY <3>1, <3>3, <1>2 DEF Traceable
  <2> QED
    BY <2>1, <2>2 DEF Traceable
<1>5. Ahead(vs) => Relevant(vs[1], vs[2]) \/ Ahead(ws)
  <2>1. ASSUME NEW i \in 1..(Len(vs) - 1), Relevant(vs[i], vs[i + 1]), i # 1
        PROVE  Ahead(ws)
    <3>1. i - 1 \in 1..(Len(ws) - 1) /\ ws[i - 1] = vs[i] /\ ws[(i - 1) + 1] = vs[i + 1]
      BY <2>1, <1>1
    <3> QED
      BY <2>1, <3>1 DEF Ahead
  <2> QED
    BY <2>1 DEF Ahead
<1>6. \A o : Known(vs, o) => Known(ws, o)
  BY <1>2 DEF Known
<1>7. ws # <<>> /\ ws[Len(ws)] = vs[Len(vs)]
  BY <1>1
<1> QED
  BY <1>1, <1>2, <1>3, <1>4, <1>5, <1>6, <1>7 DEF ws

\* If nothing relevant is to be delivered, what the informer holds became what
\* is stored without a change of generation.
LEMMA CachedFollows ==
    ASSUME NEW vs \in Seq(Versions) \ {<<>>}, Traceable(vs), ~Ahead(vs),
           vs[1] # None \/ vs[Len(vs)] # None
    PROVE  Follows(vs[1], vs[Len(vs)])
<1>0. Len(vs) \in Nat /\ Len(vs) # 0
  OBVIOUS
<1>1. vs[1] \in Versions
  BY <1>0
<1>2. CASE Len(vs) = 1
  <2>1. vs[1] \in Objects
    BY <1>1, <1>2 DEF Versions
  <2>2. vs[1].cond.obs \in Nat
    BY <2>1 DEF Objects, Conditions
  <2> QED
    BY <1>2, <2>2 DEF Follows
<1>3. CASE Len(vs) > 1
  BY <1>0, <1>3 DEF Traceable, Ahead, NoneIsRelevant
<1>4. \A n \in Nat : n = 0 \/ n = 1 \/ n > 1
  OBVIOUS
<1> QED
  BY <1>0, <1>2, <1>3, <1>4


-----------------------------------------------------------------------------
(* What one step must show: the types, the invariant of the CR it is about,
   and that it leaves the other CRs alone *)

Budgets == [user : Nat, faults : Nat, reads : Nat]

\* The labels of a controller: those of the loop, those at which it provisions
\* and those at which it deletes.
LabelSets(labels, provision, deleting) ==
    /\ LoopLabels \cup provision \cup deleting \subseteq labels
    /\ "Handle" \in provision
    /\ {"Finalize", "RemoveFinalizer"} \subseteq deleting
    /\ provision \cap deleting = {}
    /\ {"Idle", "InitStatus", "RefetchStatus", "AddFinalizer", "RefetchFinalizer",
        "SetStatus"} \cap (provision \cup deleting) = {}

LeftAlone(j) ==
    /\ versions'[j] = versions[j]
    /\ pc'[j] = pc[j]
    /\ res'[j] = res[j]
    /\ cur'[j] = cur[j]
    /\ out'[j] = out[j]
    /\ j \in queue => j \in queue'

Keeps(k, labels, provision, deleting) ==
    /\ LoopTypeOK(labels)'
    /\ LoopInv(k, provision, deleting)'
    /\ \A j \in Keys \ {k} : LeftAlone(j)

\* What an action keeps of a CR it does not touch: the invariant of that CR.
LEMMA LeftAloneKeeps ==
    ASSUME NEW provision, NEW deleting, NEW j \in Keys,
           LoopInv(j, provision, deleting), LeftAlone(j)
    PROVE  LoopInv(j, provision, deleting)'
<1>1. Stored(j)' = Stored(j) /\ Held(j)' = Held(j)
  BY DEF LeftAlone, Stored, Held
<1>2. VersionsInv(j)'
  BY DEF LeftAlone, LoopInv, VersionsInv
<1>3. WorkerInv(j, provision, deleting)'
  BY <1>1 DEF LeftAlone, LoopInv, WorkerInv
<1>4. ConditionInv(j)'
  BY <1>1 DEF LeftAlone, LoopInv, ConditionInv
<1>5. WakeInv(j)'
  BY <1>1 DEF LeftAlone, LoopInv, WakeInv
<1> QED
  BY <1>2, <1>3, <1>4, <1>5 DEF LoopInv

\* To prove that a step keeps the invariant it is enough to look at the CR it
\* is about.
LEMMA KeepsLoopIInv ==
    ASSUME NEW labels, NEW provision, NEW deleting,
           LoopIInv(labels, provision, deleting),
           NEW k \in Keys, Keeps(k, labels, provision, deleting)
    PROVE  LoopIInv(labels, provision, deleting)'
<1>1. \A j \in Keys : LoopInv(j, provision, deleting)'
  <2> TAKE j \in Keys
  <2>1. CASE j = k
    BY <2>1 DEF Keeps
  <2>2. CASE j # k
    BY <2>2, LeftAloneKeeps DEF LoopIInv, Keeps
  <2> QED
    BY <2>1, <2>2
<1> QED
  BY <1>1 DEF LoopIInv, Keeps

\* The parts of the invariant a CR has.
LEMMA Facts ==
    ASSUME NEW labels, NEW provision, NEW deleting,
           LoopIInv(labels, provision, deleting), NEW k \in Keys
    PROVE  /\ versions \in [Keys -> Seq(Versions) \ {<<>>}]
           /\ versions[k] \in Seq(Versions) \ {<<>>}
           /\ Len(versions[k]) \in Nat \ {0}
           /\ Len(versions[k]) \in 1..Len(versions[k])
           /\ 1 \in 1..Len(versions[k])
           /\ Stored(k) \in Versions
           /\ Cached(k) \in Versions
           /\ res[k] \in Versions
           /\ out[k] \in Outcomes
           /\ pc[k] \in labels
           /\ LoopInv(k, provision, deleting)
           /\ budget \in Budgets
<1>1. /\ versions[k] \in Seq(Versions) \ {<<>>} /\ res[k] \in Versions /\ out[k] \in Outcomes
      /\ pc[k] \in labels
      /\ budget \in Budgets
      /\ versions \in [Keys -> Seq(Versions) \ {<<>>}]
      /\ LoopInv(k, provision, deleting)
  BY DEF LoopIInv, LoopTypeOK, Budgets
<1>2. Len(versions[k]) \in Nat \ {0}
  BY <1>1
<1>3. Len(versions[k]) \in 1..Len(versions[k]) /\ 1 \in 1..Len(versions[k])
  BY <1>2
<1> QED
  BY <1>1, <1>2, <1>3 DEF Stored, Cached

\* What is stored, and what is cached, of a CR.
LEMMA StoredFacts ==
    ASSUME NEW labels, NEW provision, NEW deleting,
           LoopIInv(labels, provision, deleting), NEW k \in Keys
    PROVE  /\ Stored(k) # None => /\ Stored(k) \in Objects
                                  /\ Stored(k).spec \in Specs[k]
                                  /\ Stored(k).del => Stored(k).fin
                                  /\ Stored(k).cond.obs <= Stored(k).gen
                                  /\ Stored(k).gen \in Nat
                                  /\ Stored(k).cond.obs \in Nat
           /\ Cached(k) # None => Cached(k) \in Objects /\ Cached(k).spec \in Specs[k]
           /\ pc[k] # "Idle" => res[k] \in Objects /\ res[k].spec \in Specs[k]
           /\ ~NoneIsReady(versions[k]) => Held(k)
           /\ Held(k) => \A i \in 1..Len(versions[k]) :
                           /\ versions[k][i] # None
                           /\ versions[k][i].del => Stored(k).del
<1>1. /\ Len(versions[k]) \in 1..Len(versions[k]) /\ 1 \in 1..Len(versions[k])
      /\ Stored(k) \in Versions /\ Cached(k) \in Versions /\ res[k] \in Versions
      /\ LoopInv(k, provision, deleting)
  BY Facts
<1>2. Stored(k) # None => /\ Stored(k).spec \in Specs[k]
                          /\ Stored(k).del => Stored(k).fin
                          /\ Stored(k).cond.obs <= Stored(k).gen
  BY <1>1 DEF LoopInv, VersionsInv, Ordered, Traceable, Stored
<1>3. Cached(k) # None => Cached(k).spec \in Specs[k]
  BY <1>1 DEF LoopInv, VersionsInv, Cached
<1>4. pc[k] # "Idle" => res[k] # None /\ res[k].spec \in Specs[k]
  BY <1>1 DEF LoopInv, WorkerInv
<1>5. ~NoneIsReady(versions[k]) => Held(k)
  <2> SUFFICES ASSUME ~NoneIsReady(versions[k]) PROVE Held(k)
    OBVIOUS
  <2>1. PICK i \in 1..Len(versions[k]) :
               versions[k][i] # None /\ versions[k][i].fin /\ ~versions[k][i].del
    BY DEF NoneIsReady
  <2>2. i <= Len(versions[k]) /\ Ordered(versions[k])
    BY <1>1 DEF LoopInv, VersionsInv
  <2> QED
    BY <1>1, <2>1, <2>2 DEF Ordered, Held, Stored
<1>6. Stored(k) # None => /\ Stored(k) \in Objects
                          /\ Stored(k).gen \in Nat
                          /\ Stored(k).cond.obs \in Nat
  BY <1>1 DEF Versions, Objects, Conditions
<1>7. Held(k) => \A i \in 1..Len(versions[k]) :
                   versions[k][i] # None /\ (versions[k][i].del => Stored(k).del)
  BY <1>1 DEF LoopInv, VersionsInv, Ordered, Held, Stored
<1> QED
  BY <1>1, <1>2, <1>3, <1>4, <1>5, <1>6, <1>7 DEF Versions


-----------------------------------------------------------------------------
(* Users and the informer *)

\* The API server stores v: what remains to be said of the worker.
LEMMA StoreKeeps ==
    ASSUME NEW labels, NEW provision, NEW deleting,
           LoopIInv(labels, provision, deleting), NEW k \in Keys, NEW v,
           Store(k, v), MayFollow(versions[k], v), v # None => v.spec \in Specs[k]
    PROVE  /\ versions' \in [Keys -> Seq(Versions) \ {<<>>}]
           /\ \A j \in Keys \ {k} : versions'[j] = versions[j]
           /\ VersionsInv(k)'
           /\ Stored(k)' = v
           /\ Ahead(versions[k]) \/ Relevant(Stored(k), v) => Ahead(versions[k])'
           /\ \A o : Known(versions[k], o) /\ SameGeneration(v, o)
                       => Known(versions'[k], o)
<1> DEFINE vs == versions[k]
<1>1. /\ vs \in Seq(Versions) \ {<<>>} /\ Ordered(vs) /\ Traceable(vs)
      /\ \A i \in 1..Len(vs) : vs[i] # None => vs[i].spec \in Specs[k]
      /\ versions \in [Keys -> Seq(Versions) \ {<<>>}]
  BY Facts DEF LoopInv, VersionsInv
<1>2. /\ versions'[k] = Append(vs, v)
      /\ \A j \in Keys \ {k} : versions'[j] = versions[j]
  BY <1>1 DEF Store
<1>3. LET ws == Append(vs, v)
      IN  /\ Ordered(ws) /\ Traceable(ws)
          /\ ws \in Seq(Versions) \ {<<>>}
          /\ ws[Len(ws)] = v
          /\ Ahead(vs) \/ Relevant(vs[Len(vs)], v) => Ahead(ws)
          /\ \A o : Known(vs, o) /\ SameGeneration(v, o) => Known(ws, o)
          /\ \A S : (\A i \in 1..Len(vs) : vs[i] # None => vs[i].spec \in S)
                      /\ (v # None => v.spec \in S)
                    => \A i \in 1..Len(ws) : ws[i] # None => ws[i].spec \in S
  <2> HIDE DEF vs
  <2> QED
    BY <1>1, AppendKeeps DEF vs
<1>4. versions' \in [Keys -> Seq(Versions) \ {<<>>}]
  BY <1>1, <1>2, <1>3 DEF Store
<1>5. VersionsInv(k)'
  BY <1>1, <1>2, <1>3 DEF VersionsInv
<1>6. Stored(k)' = v
  BY <1>2, <1>3 DEF Stored
<1>7. Ahead(vs) \/ Relevant(Stored(k), v) => Ahead(vs)'
  BY <1>2, <1>3 DEF Stored
<1>8. \A o : Known(vs, o) /\ SameGeneration(v, o) => Known(versions'[k], o)
  BY <1>2, <1>3
<1> QED
  BY <1>2, <1>4, <1>5, <1>6, <1>7, <1>8

\* A write of a user either changes nothing the operator looks at, or it is one
\* the event filter lets through.
LEMMA UserStores ==
    ASSUME NEW labels, NEW provision, NEW deleting,
           LoopIInv(labels, provision, deleting), NEW k \in Keys, NEW v \in Versions,
           UserWrites, Store(k, v), Outdate(k),
           v # None => v.spec \in Specs[k],
           v # None /\ v.del => v.fin,
           Held(k) <=> v # None /\ v.fin,
           Held(k) /\ Stored(k).del => v.del,
           v # None => v.cond.obs <= v.gen,
           \/ v # None /\ v = Stored(k)
           \/ Relevant(Stored(k), v) /\ (v # None => v.cond.obs # v.gen)
    PROVE  Keeps(k, labels, provision, deleting)
<1>1. /\ LoopInv(k, provision, deleting) /\ LoopTypeOK(labels)
      /\ budget \in Budgets /\ Stored(k) \in Versions
  BY Facts DEF LoopIInv
<1>2. MayFollow(versions[k], v)
  <2>1. /\ ~NoneIsReady(versions[k]) => Held(k)
        /\ Held(k) => \A i \in 1..Len(versions[k]) :
                        versions[k][i] # None /\ (versions[k][i].del => Stored(k).del)
    BY StoredFacts
  <2>2. v # None /\ v = Stored(k) => Follows(Stored(k), v)
    BY StoredFacts DEF Follows
  <2> QED
    BY <2>1, <2>2 DEF MayFollow, Stored
<1>3. /\ versions' \in [Keys -> Seq(Versions) \ {<<>>}]
      /\ \A j \in Keys \ {k} : versions'[j] = versions[j]
      /\ VersionsInv(k)'
      /\ Stored(k)' = v
      /\ Ahead(versions[k]) \/ Relevant(Stored(k), v) => Ahead(versions[k])'
      /\ \A o : Known(versions[k], o) /\ SameGeneration(v, o) => Known(versions'[k], o)
  BY <1>2, StoreKeeps
<1>4. /\ cur' = [cur EXCEPT ![k] = FALSE]
      /\ UNCHANGED <<queue, pc, res, out>>
      /\ budget' \in Budgets
  BY <1>1 DEF UserWrites, Outdate, Budgets
<1>5. LoopTypeOK(labels)'
  BY <1>1, <1>3, <1>4 DEF LoopTypeOK, Budgets
<1>6. cur'[k] = FALSE /\ \A j \in Keys \ {k} : cur'[j] = cur[j]
  BY <1>1, <1>4 DEF LoopTypeOK
<1>7. WorkerInv(k, provision, deleting)'
  <2>1. /\ Held(k)' <=> Held(k)
        /\ Held(k) /\ Stored(k).del => Stored(k)'.del
    BY <1>3 DEF Held
  <2> QED
    BY <1>1, <1>4, <1>6, <2>1 DEF LoopInv, WorkerInv
<1>8. ConditionInv(k)'
  <2> SUFFICES ASSUME v # None, v.cond.obs = v.gen
               PROVE  /\ Known(versions'[k], v)
                      /\ pc[k] # "Idle" => SameGeneration(res[k], v)
                      /\ v.cond.reason = "Reconciled" => ~v.del
    BY <1>3, <1>4 DEF ConditionInv
  <2>1. v = Stored(k)
    OBVIOUS
  <2>2. SameGeneration(v, v)
    BY DEF SameGeneration
  <2> QED
    BY <1>1, <1>3, <2>1, <2>2 DEF LoopInv, ConditionInv
<1>9. WakeInv(k)'
  <2>1. WakeInv(k)
    BY <1>1 DEF LoopInv
  <2>2. CASE Relevant(Stored(k), v)
    BY <1>3, <2>2 DEF WakeInv
  <2>3. CASE v = Stored(k)
    BY <1>3, <1>4, <2>1, <2>3 DEF WakeInv
  <2> QED
    BY <2>2, <2>3
<1> QED
  BY <1>3, <1>4, <1>5, <1>6, <1>7, <1>8, <1>9 DEF Keeps, LoopInv, LeftAlone

\* Users keep the invariant.
LEMMA UserStepKeeps ==
    ASSUME NEW labels, NEW provision, NEW deleting,
           LoopIInv(labels, provision, deleting), NEW k \in Keys, UserStep(k)
    PROVE  Keeps(k, labels, provision, deleting)
<1>1. Stored(k) # None => /\ Stored(k) \in Objects
                          /\ Stored(k).spec \in Specs[k]
                          /\ Stored(k).del => Stored(k).fin
                          /\ Stored(k).cond.obs <= Stored(k).gen
                          /\ Stored(k).gen \in Nat
                          /\ Stored(k).cond.obs \in Nat
  BY StoredFacts
<1>2. CASE UserCreate(k)
  <2>1. PICK s \in Specs[k] : Store(k, NewObject(s))
    BY <1>2 DEF UserCreate
  <2> DEFINE v == NewObject(s)
  <2>2. v \in Objects /\ v # None
    <3>1. s \in AllSpecs
      BY DEF AllSpecs
    <3>2. NoCondition \in Conditions
      BY DEF NoCondition, Conditions
    <3>3. v \in Objects
      BY <3>1, <3>2 DEF NewObject, Objects
    <3> QED
      BY <3>3, NoneIsNoObject
  <2>3. v.spec = s /\ ~v.del /\ v.cond.obs = 0 /\ v.gen = 1
    BY DEF NewObject, NoCondition
  <2>4. UserWrites /\ Outdate(k) /\ Stored(k) = None
    BY <1>2 DEF UserCreate
  <2>5. Relevant(Stored(k), v) /\ ~Held(k) /\ ~v.fin
    BY <2>4 DEF Relevant, Held, NewObject
  <2> HIDE DEF v
  <2>6. v \in Versions
    BY <2>2 DEF Versions
  <2>7. Store(k, v)
    BY <2>1 DEF v
  <2> QED
    BY <2>3, <2>4, <2>5, <2>6, <2>7, UserStores
<1>3. CASE UserEdit(k)
  <2>1. UserWrites /\ Outdate(k) /\ Stored(k) # None
    BY <1>3 DEF UserEdit
  <2>2. PICK s \in Specs[k] :
          Store(k, [Stored(k) EXCEPT !.spec = s, !.gen = @ + 1])
    BY <1>3 DEF UserEdit
  <2> DEFINE v == [Stored(k) EXCEPT !.spec = s, !.gen = @ + 1]
  <2>3. /\ v \in Objects
        /\ v.spec = s /\ v.del = Stored(k).del /\ v.fin = Stored(k).fin
        /\ v.gen = Stored(k).gen + 1 /\ v.cond = Stored(k).cond
    <3>1. s \in AllSpecs
      BY DEF AllSpecs
    <3>2. Stored(k) \in Objects /\ Stored(k).gen + 1 \in Nat
      BY <1>1, <2>1
    <3> QED
      BY <3>1, <3>2 DEF Objects
  <2> HIDE DEF v
  <2>4. v # None /\ v \in Versions /\ Store(k, v)
    BY <2>2, <2>3, NoneIsNoObject DEF Versions, v
  <2>5. Held(k) <=> v.fin
    BY <2>1, <2>3 DEF Held
  <2>6. Relevant(Stored(k), v) /\ v.cond.obs <= v.gen /\ v.cond.obs # v.gen
    BY <1>1, <2>1, <2>3 DEF Relevant
  <2> QED
    BY <1>1, <2>1, <2>3, <2>4, <2>5, <2>6, UserStores
<1>4. CASE UserTouch(k)
  <2>1. UserWrites /\ Outdate(k) /\ Stored(k) # None /\ Store(k, Stored(k))
    BY <1>4 DEF UserTouch
  <2>2. Stored(k) \in Versions
    BY <1>1, <2>1 DEF Versions
  <2>3. Held(k) <=> Stored(k).fin
    BY <2>1 DEF Held
  <2> QED
    BY <1>1, <2>1, <2>2, <2>3, UserStores
<1>5. CASE UserDelete(k)
  <2>1. UserWrites /\ Outdate(k) /\ Stored(k) # None
    BY <1>5 DEF UserDelete
  <2>2. CASE Stored(k).fin
    <3> DEFINE v == [Stored(k) EXCEPT !.del = TRUE, !.gen = @ + 1]
    <3>1. /\ v \in Objects /\ v.spec = Stored(k).spec /\ v.fin = Stored(k).fin /\ v.del
          /\ v.gen = Stored(k).gen + 1 /\ v.cond = Stored(k).cond
      <4>1. Stored(k) \in Objects /\ Stored(k).gen + 1 \in Nat
        BY <1>1, <2>1
      <4> QED
        BY <4>1 DEF Objects
    <3>2. Store(k, v)
      BY <1>5, <2>2 DEF UserDelete
    <3> HIDE DEF v
    <3>3. v # None /\ v \in Versions
      BY <3>1, NoneIsNoObject DEF Versions
    <3>4. Relevant(Stored(k), v) /\ v.cond.obs <= v.gen /\ v.cond.obs # v.gen
      BY <1>1, <2>1, <3>1 DEF Relevant
    <3>5. Held(k) <=> v.fin
      BY <2>1, <2>2, <3>1 DEF Held
    <3> QED
      BY <1>1, <2>1, <2>2, <3>1, <3>2, <3>3, <3>4, <3>5, UserStores
  <2>3. CASE ~Stored(k).fin
    <3>1. Store(k, None) /\ ~Held(k) /\ Relevant(Stored(k), None) /\ None \in Versions
      BY <1>5, <2>3 DEF UserDelete, Held, Relevant, Versions
    <3> QED
      BY <2>1, <3>1, UserStores
  <2> QED
    BY <2>2, <2>3
<1> QED
  BY <1>2, <1>3, <1>4, <1>5 DEF UserStep

\* The watch keeps the invariant: what it delivers is in the queue or was more
\* of the same.
LEMMA DeliverKeeps ==
    ASSUME NEW labels, NEW provision, NEW deleting,
           LoopIInv(labels, provision, deleting), NEW k \in Keys, Deliver(k)
    PROVE  Keeps(k, labels, provision, deleting)
<1> DEFINE vs == versions[k]
<1>1. /\ vs \in Seq(Versions) /\ Len(vs) > 1 /\ Ordered(vs) /\ Traceable(vs)
      /\ LoopInv(k, provision, deleting) /\ LoopTypeOK(labels)
      /\ versions \in [Keys -> Seq(Versions) \ {<<>>}]
  BY Facts DEF Deliver, LoopInv, VersionsInv, LoopIInv
<1>2. LET ws == Tail(vs)
      IN  /\ Ordered(ws) /\ Traceable(ws)
          /\ ws \in Seq(Versions) \ {<<>>}
          /\ ws[Len(ws)] = vs[Len(vs)]
          /\ Ahead(vs) => Relevant(vs[1], vs[2]) \/ Ahead(ws)
          /\ \A o : Known(vs, o) => Known(ws, o)
          /\ \A i \in 1..Len(ws) : i + 1 \in 1..Len(vs) /\ ws[i] = vs[i + 1]
  <2> HIDE DEF vs
  <2> QED
    BY <1>1, TailKeeps
<1>3. /\ versions'[k] = Tail(vs)
      /\ versions' \in [Keys -> Seq(Versions) \ {<<>>}]
      /\ \A j \in Keys \ {k} : versions'[j] = versions[j]
  BY <1>1, <1>2 DEF Deliver
<1>4. /\ queue \subseteq queue' /\ queue' \subseteq Keys
      /\ Relevant(vs[1], vs[2]) => k \in queue'
      /\ UNCHANGED <<pc, res, cur, out, budget>>
  BY <1>1 DEF Deliver, LoopTypeOK
<1>5. LoopTypeOK(labels)'
  BY <1>1, <1>3, <1>4 DEF LoopTypeOK
<1>6. Stored(k)' = Stored(k) /\ Held(k)' = Held(k)
  BY <1>2, <1>3 DEF Stored, Held
<1>7. VersionsInv(k)'
  BY <1>1, <1>2, <1>3 DEF LoopInv, VersionsInv
<1>8. WorkerInv(k, provision, deleting)'
  BY <1>1, <1>2, <1>3, <1>4, <1>6 DEF LoopInv, WorkerInv
<1>9. ConditionInv(k)'
  BY <1>1, <1>2, <1>3, <1>4, <1>6 DEF LoopInv, ConditionInv
<1>10. WakeInv(k)'
  BY <1>1, <1>2, <1>3, <1>4, <1>6 DEF LoopInv, WakeInv
<1> QED
  BY <1>3, <1>4, <1>5, <1>7, <1>8, <1>9, <1>10 DEF Keeps, LoopInv, LeftAlone


-----------------------------------------------------------------------------
(* The worker and the API server *)

\* The bounds on faults stay naturals.
LEMMA FaultKeepsBudgets ==
    ASSUME NEW labels, NEW provision, NEW deleting,
           LoopIInv(labels, provision, deleting), Fault \/ UNCHANGED budget
    PROVE  budget' \in Budgets
<1>1. budget \in Budgets
  BY DEF LoopIInv, LoopTypeOK, Budgets
<1>2. CASE Fault
  <2>1. budget.faults > 0 /\ budget' = [budget EXCEPT !.faults = @ - 1]
    BY <1>2 DEF Fault
  <2> QED
    BY <1>1, <2>1 DEF Budgets
<1> QED
  BY <1>1, <1>2

\* What the worker may write.
Storable(k, v) ==
    /\ MayFollow(versions[k], v)
    /\ v # None => v.spec \in Specs[k]
    /\ v # None /\ v.cond.obs = v.gen => /\ Known(versions[k], v)
                                         /\ v.cond.reason = "Reconciled" => ~v.del

\* A worker may leave k without a retry.
MayRest(k) ==
    \/ k \in queue
    \/ Ahead(versions[k])
    \/ Stored(k) # None => Settled(Stored(k))

\* A reconciliation that ends keeps the invariant if what it leaves is settled,
\* will be retried, or something else is to come.
LEMMA ReturnKeeps ==
    ASSUME NEW labels, NEW provision, NEW deleting,
           LabelSets(labels, provision, deleting),
           LoopIInv(labels, provision, deleting),
           NEW k \in Keys, NEW retry, NEW v,
           Return(k, retry), budget' \in Budgets,
           \/ UNCHANGED versions /\ (retry \/ MayRest(k))
           \/ Storable(k, v) /\ Store(k, v) /\ (retry \/ v = None \/ Settled(v))
    PROVE  Keeps(k, labels, provision, deleting)
<1>1. LoopTypeOK(labels) /\ LoopInv(k, provision, deleting)
  BY DEF LoopIInv
<1>2. /\ pc' = [pc EXCEPT ![k] = "Idle"]
      /\ res' = [res EXCEPT ![k] = None]
      /\ cur' = [cur EXCEPT ![k] = FALSE]
      /\ out' = [out EXCEPT ![k] = NoOutcome]
      /\ queue \subseteq queue' /\ queue' \subseteq Keys
      /\ retry => k \in queue'
  BY <1>1 DEF Return, LoopTypeOK
<1>3. "Idle" \in labels /\ NoOutcome \in Outcomes /\ None \in Versions
  BY DEF LabelSets, LoopLabels, NoOutcome, Outcomes, Versions
<1>4. /\ pc'[k] = "Idle" /\ res'[k] = None /\ cur'[k] = FALSE
      /\ \A j \in Keys \ {k} : pc'[j] = pc[j] /\ res'[j] = res[j]
                               /\ cur'[j] = cur[j] /\ out'[j] = out[j]
  BY <1>1, <1>2 DEF LoopTypeOK
<1>5. /\ versions' \in [Keys -> Seq(Versions) \ {<<>>}]
      /\ \A j \in Keys \ {k} : versions'[j] = versions[j]
      /\ VersionsInv(k)'
      /\ ConditionInv(k)'
      /\ WakeInv(k)'
  <2>1. CASE UNCHANGED versions /\ (retry \/ MayRest(k))
    <3>1. Stored(k)' = Stored(k)
      BY <2>1 DEF Stored
    <3>2. versions' \in [Keys -> Seq(Versions) \ {<<>>}] /\ VersionsInv(k)'
      BY <1>1, <2>1 DEF LoopTypeOK, LoopInv, VersionsInv
    <3>3. ConditionInv(k)'
      BY <1>1, <1>4, <2>1, <3>1 DEF LoopInv, ConditionInv
    <3>4. WakeInv(k)'
      BY <1>2, <1>4, <2>1, <3>1 DEF WakeInv, MayRest
    <3> QED
      BY <2>1, <3>2, <3>3, <3>4
  <2>2. CASE Storable(k, v) /\ Store(k, v) /\ (retry \/ v = None \/ Settled(v))
    <3>1. /\ versions' \in [Keys -> Seq(Versions) \ {<<>>}]
          /\ \A j \in Keys \ {k} : versions'[j] = versions[j]
          /\ VersionsInv(k)'
          /\ Stored(k)' = v
          /\ \A o : Known(versions[k], o) /\ SameGeneration(v, o)
                      => Known(versions'[k], o)
      BY <2>2, StoreKeeps DEF Storable
    <3>2. ConditionInv(k)'
      BY <1>4, <2>2, <3>1 DEF ConditionInv, Storable, SameGeneration
    <3>3. WakeInv(k)'
      BY <1>2, <1>4, <2>2, <3>1 DEF WakeInv
    <3> QED
      BY <3>1, <3>2, <3>3
  <2> QED
    BY <2>1, <2>2
<1>6. LoopTypeOK(labels)'
  BY <1>1, <1>2, <1>3, <1>5 DEF LoopTypeOK, Budgets
<1>7. WorkerInv(k, provision, deleting)'
  BY <1>4 DEF WorkerInv, LabelSets
<1> QED
  BY <1>2, <1>4, <1>5, <1>6, <1>7 DEF Keeps, LoopInv, LeftAlone

\* A write, done or failed, that ends a reconciliation keeps the invariant.
LEMMA WriteAndReturnKeeps ==
    ASSUME NEW labels, NEW provision, NEW deleting,
           LabelSets(labels, provision, deleting),
           LoopIInv(labels, provision, deleting),
           NEW k \in Keys, NEW retry, NEW v,
           cur[k] => Storable(k, v), Return(k, retry),
           \/ WriteWorks(k, v) /\ (retry \/ v = None \/ Settled(v))
           \/ WriteFails(k, v) /\ retry
    PROVE  Keeps(k, labels, provision, deleting)
<1>1. budget' \in Budgets
  BY FaultKeepsBudgets DEF WriteWorks, WriteFails
<1>2. \/ UNCHANGED versions /\ retry
      \/ Storable(k, v) /\ Store(k, v) /\ (retry \/ v = None \/ Settled(v))
  BY DEF WriteWorks, WriteFails, MayWrite
<1> QED
  BY <1>1, <1>2, ReturnKeeps

\* A current copy with another condition, no less advanced, or with the finalizer
\* may be written.
LEMMA CopyIsStorable ==
    ASSUME NEW labels, NEW provision, NEW deleting,
           LoopIInv(labels, provision, deleting),
           NEW k \in Keys, NEW v \in Objects, cur[k],
           SameGeneration(v, res[k]), res[k].fin => v.fin,
           v.cond.obs <= v.gen, Follows(res[k], v),
           v.cond = res[k].cond \/ (v.cond.reason = "Reconciled" => ~v.del)
    PROVE  Storable(k, v) /\ Known(versions[k], v)
<1>1. LoopInv(k, provision, deleting) /\ res[k] = Stored(k) /\ Known(versions[k], res[k])
  BY Facts DEF LoopInv, WorkerInv
<1>2. v # None /\ v.spec \in Specs[k] /\ (v.del => v.fin)
  BY <1>1, StoredFacts DEF SameGeneration
<1>3. /\ ~NoneIsReady(versions[k]) => v.fin
      /\ \A i \in 1..Len(versions[k]) :
           versions[k][i] # None /\ (versions[k][i].del => v.del)
  BY <1>1, StoredFacts DEF Held, Known, SameGeneration
<1>4. MayFollow(versions[k], v)
  BY <1>1, <1>2, <1>3 DEF MayFollow, Stored, Versions
<1>5. Known(versions[k], v)
  BY <1>1 DEF Known, SameGeneration
<1>6. v.cond.obs = v.gen /\ v.cond.reason = "Reconciled" => ~v.del
  BY <1>1 DEF LoopInv, ConditionInv, SameGeneration
<1> QED
  BY <1>2, <1>4, <1>5, <1>6 DEF Storable

\* The two writes of the prologue of Reconcile keep the invariant.
LEMMA UpdateKeeps ==
    ASSUME NEW labels, NEW provision, NEW deleting,
           LabelSets(labels, provision, deleting),
           LoopIInv(labels, provision, deleting),
           NEW k \in Keys, NEW v \in Objects, NEW label, Update(k, v, label),
           cur[k] => Storable(k, v) /\ Known(versions[k], v) /\ Follows(v, v),
           label = "RefetchStatus" \/ (label = "RefetchFinalizer" /\ v.fin)
    PROVE  Keeps(k, labels, provision, deleting)
<1>1. CASE WriteFails(k, v) /\ Return(k, TRUE)
  BY <1>1, WriteAndReturnKeeps
<1>2. CASE /\ WriteWorks(k, v)
           /\ res' = [res EXCEPT ![k] = v]
           /\ Goto(k, label)
           /\ UNCHANGED <<queue, cur>>
  <2>1. /\ cur[k] /\ Store(k, v) /\ UNCHANGED budget
        /\ Storable(k, v) /\ Known(versions[k], v) /\ Follows(v, v)
        /\ LoopTypeOK(labels)
    BY <1>2 DEF WriteWorks, MayWrite, LoopIInv
  <2>2. /\ versions' \in [Keys -> Seq(Versions) \ {<<>>}]
        /\ \A j \in Keys \ {k} : versions'[j] = versions[j]
        /\ VersionsInv(k)'
        /\ Stored(k)' = v
        /\ \A o : Known(versions[k], o) /\ SameGeneration(v, o)
                    => Known(versions'[k], o)
    BY <2>1, StoreKeeps DEF Storable
  <2>3. SameGeneration(v, v) /\ v # None /\ v \in Versions /\ v.spec \in Specs[k]
    BY <2>1 DEF SameGeneration, Follows, Versions, Storable
  <2>4. pc' = [pc EXCEPT ![k] = label] /\ UNCHANGED <<out, queue, cur, budget>>
    BY <1>2, <2>1 DEF Goto
  <2>5. label \in labels
    BY DEF LabelSets, LoopLabels
  <2>6. LoopTypeOK(labels)'
    BY <1>2, <2>1, <2>2, <2>3, <2>4, <2>5 DEF LoopTypeOK
  <2>7. /\ pc'[k] = label /\ res'[k] = v /\ cur'[k]
        /\ \A j \in Keys \ {k} : pc'[j] = pc[j] /\ res'[j] = res[j]
    BY <1>2, <2>1, <2>4 DEF LoopTypeOK
  <2>8. Known(versions'[k], v)
    BY <2>1, <2>2, <2>3
  <2>9. WorkerInv(k, provision, deleting)'
    BY <2>2, <2>3, <2>7, <2>8 DEF WorkerInv, Held, LabelSets
  <2>10. ConditionInv(k)'
    BY <2>1, <2>2, <2>3, <2>7, <2>8 DEF ConditionInv, Storable
  <2>11. WakeInv(k)'
    BY <2>1, <2>2, <2>7 DEF WakeInv
  <2> QED
    BY <2>2, <2>4, <2>6, <2>7, <2>9, <2>10, <2>11 DEF Keeps, LoopInv, LeftAlone
<1> QED
  BY <1>1, <1>2 DEF Update

\* Reading the cache: what the worker goes on to do is justified by its copy or
\* by what it wrote before, and what the cache does not have yet will come.
LEMMA FetchKeeps ==
    ASSUME NEW labels, NEW provision, NEW deleting,
           LabelSets(labels, provision, deleting),
           LoopIInv(labels, provision, deleting),
           NEW k \in Keys, NEW label \in {"InitStatus", "AddFinalizer", "Handle", "Finalize"},
           Cached(k) # None, Fetch(k), Goto(k, label),
           label = "InitStatus" => Cached(k).cond = NoCondition,
           label = "Handle" => Held(k) /\ ~Cached(k).del,
           label = "Finalize" => Cached(k).del,
           queue' \subseteq Keys, queue \subseteq queue' \cup {k},
           UNCHANGED <<versions, budget>>
    PROVE  Keeps(k, labels, provision, deleting)
<1>1. /\ pc' = [pc EXCEPT ![k] = label]
      /\ res' = [res EXCEPT ![k] = Cached(k)]
      /\ cur' = [cur EXCEPT ![k] = CacheIsCurrent(k)]
      /\ UNCHANGED <<versions, out, budget>>
      /\ Stored(k)' = Stored(k)
  BY DEF Fetch, Goto, Stored
<1>2. /\ LoopTypeOK(labels) /\ LoopInv(k, provision, deleting)
      /\ versions[k] \in Seq(Versions) \ {<<>>}
      /\ Cached(k) \in Versions /\ label \in labels
      /\ CacheIsCurrent(k) \in BOOLEAN
      /\ 1 \in 1..Len(versions[k])
  BY Facts DEF LabelSets, LoopLabels, CacheIsCurrent, LoopIInv
<1>3. LoopTypeOK(labels)'
  BY <1>1, <1>2 DEF LoopTypeOK
<1>4. /\ pc'[k] = label /\ res'[k] = Cached(k) /\ cur'[k] = CacheIsCurrent(k)
      /\ \A j \in Keys \ {k} : pc'[j] = pc[j] /\ res'[j] = res[j] /\ cur'[j] = cur[j]
  BY <1>1, <1>2 DEF LoopTypeOK
<1>5. CacheIsCurrent(k) => Cached(k) = Stored(k) /\ Known(versions[k], Cached(k))
  BY DEF CacheIsCurrent, Cached, Stored, Known, SameGeneration
<1>6. WorkerInv(k, provision, deleting)'
  <2>1. Held(k)' = Held(k)
    BY <1>1 DEF Held
  <2>2. Cached(k).spec \in Specs[k] /\ (Held(k) /\ Cached(k).del => Stored(k).del)
    BY <1>2, StoredFacts DEF Cached
  <2> QED
    BY <1>1, <1>4, <1>5, <2>1, <2>2 DEF WorkerInv, LabelSets
<1>7. ConditionInv(k)'
  BY <1>1, <1>2, <1>4 DEF LoopInv, ConditionInv, Known, Cached
<1>8. WakeInv(k)'
  <2>1. Traceable(versions[k])
    BY <1>2 DEF LoopInv, VersionsInv
  <2>2. ~Ahead(versions[k]) => Follows(Cached(k), Stored(k))
    BY <1>2, <2>1, CachedFollows DEF Cached, Stored
  <2> QED
    BY <1>1, <1>4, <2>2 DEF WakeInv
<1>9. VersionsInv(k)'
  BY <1>1, <1>2 DEF LoopInv, VersionsInv
<1> QED
  BY <1>1, <1>3, <1>4, <1>6, <1>7, <1>8, <1>9 DEF Keeps, LoopInv, LeftAlone


\* The object with another condition is an object.
LEMMA WithCondition ==
    ASSUME NEW o \in Objects, NEW c \in Conditions
    PROVE  LET v == [o EXCEPT !.cond = c]
           IN  /\ v \in Objects
               /\ v.spec = o.spec /\ v.del = o.del /\ v.fin = o.fin /\ v.gen = o.gen
               /\ v.cond = c
               /\ v # None
<1> DEFINE v == [o EXCEPT !.cond = c]
<1>1. v \in Objects
  BY DEF Objects
<1>2. v.spec = o.spec /\ v.del = o.del /\ v.fin = o.fin /\ v.gen = o.gen /\ v.cond = c
  BY DEF Objects
<1> QED
  BY <1>1, <1>2, NoneIsNoObject

\* The worker takes a key whose CR is gone: either it is, or the cache will say
\* that there is a new one.
LEMMA StartGoneKeeps ==
    ASSUME NEW labels, NEW provision, NEW deleting,
           LoopIInv(labels, provision, deleting), NEW k \in Keys, StartGone(k)
    PROVE  Keeps(k, labels, provision, deleting)
<1>1. /\ pc[k] = "Idle" /\ Cached(k) = None
      /\ queue' = queue \ {k}
      /\ UNCHANGED <<versions, pc, res, cur, out, budget>>
  BY DEF StartGone
<1>2. /\ LoopTypeOK(labels) /\ LoopInv(k, provision, deleting)
      /\ versions[k] \in Seq(Versions) \ {<<>>}
  BY Facts DEF LoopIInv
<1>3. LoopTypeOK(labels)'
  BY <1>1, <1>2 DEF LoopTypeOK
<1>4. Stored(k)' = Stored(k) /\ Held(k)' = Held(k)
  BY <1>1 DEF Stored, Held
<1>5. VersionsInv(k)' /\ WorkerInv(k, provision, deleting)' /\ ConditionInv(k)'
  BY <1>1, <1>2, <1>4 DEF LoopInv, VersionsInv, WorkerInv, ConditionInv
<1>6. WakeInv(k)'
  <2>1. Traceable(versions[k])
    BY <1>2 DEF LoopInv, VersionsInv
  <2>2. Ahead(versions[k]) \/ Stored(k) = None
    BY <1>1, <1>2, <2>1, CachedFollows DEF Cached, Stored, Follows
  <2> QED
    BY <1>1, <1>4, <2>2 DEF WakeInv
<1> QED
  BY <1>1, <1>3, <1>5, <1>6 DEF Keeps, LoopInv, LeftAlone

\* A new status or the finalizer, written on a copy that is current.
LEMMA PrologueKeeps ==
    ASSUME NEW labels, NEW provision, NEW deleting,
           LabelSets(labels, provision, deleting),
           LoopIInv(labels, provision, deleting),
           NEW k \in Keys, InitStatus(k) \/ AddFinalizer(k)
    PROVE  Keeps(k, labels, provision, deleting)
<1>1. /\ LoopInv(k, provision, deleting)
      /\ res[k] \in Objects /\ res[k].gen \in Nat /\ res[k].cond.obs \in Nat
  BY Facts, StoredFacts DEF InitStatus, AddFinalizer, Objects, Conditions
<1>2. cur[k] => res[k].cond.obs <= res[k].gen
  BY <1>1, StoredFacts, NoneIsNoObject DEF LoopInv, WorkerInv
<1>3. CASE InitStatus(k)
  <2> DEFINE c == [status |-> "Unknown", reason |-> "Reconciling", obs |-> res[k].gen]
             v == [res[k] EXCEPT !.cond = c]
  <2>1. c \in Conditions
    BY <1>1 DEF Conditions, Reasons
  <2>2. /\ v \in Objects /\ v # None /\ v.cond = c
        /\ v.spec = res[k].spec /\ v.del = res[k].del /\ v.fin = res[k].fin
        /\ v.gen = res[k].gen
    BY <1>1, <2>1, WithCondition
  <2>3. Update(k, v, "RefetchStatus") /\ res[k].cond = NoCondition
    BY <1>1, <1>3 DEF InitStatus, LoopInv, WorkerInv
  <2> HIDE DEF v
  <2>4. v.cond.obs = v.gen /\ v.cond.reason # "Reconciled" /\ v.gen \in Nat
    BY <1>1, <2>2
  <2>5. ~Judged(res[k])
    BY <2>3 DEF Judged, NoCondition
  <2>6. cur[k] => Follows(res[k], v)
    BY <1>1, <1>2, <2>2, <2>4, <2>5, NoneIsNoObject DEF Follows
  <2>7. SameGeneration(v, res[k]) /\ Follows(v, v) /\ v.cond.obs <= v.gen
    BY <1>1, <2>2, <2>4, NoneIsNoObject DEF SameGeneration, Follows
  <2>8. cur[k] => Storable(k, v) /\ Known(versions[k], v)
    BY <2>2, <2>4, <2>6, <2>7, CopyIsStorable
  <2> QED
    BY <2>2, <2>3, <2>7, <2>8, UpdateKeeps
<1>4. CASE AddFinalizer(k)
  <2> DEFINE v == [res[k] EXCEPT !.fin = TRUE]
  <2>1. /\ v \in Objects /\ v.cond = res[k].cond
        /\ v.spec = res[k].spec /\ v.del = res[k].del /\ v.fin
        /\ v.gen = res[k].gen
    BY <1>1 DEF Objects
  <2>2. Update(k, v, "RefetchFinalizer") /\ v # None
    BY <1>4, <2>1, NoneIsNoObject DEF AddFinalizer
  <2> HIDE DEF v
  <2>3. Follows(res[k], v) /\ SameGeneration(v, res[k]) /\ Follows(v, v)
    BY <1>1, <2>1, <2>2, NoneIsNoObject DEF Follows, SameGeneration, Judged
  <2>4. cur[k] => Storable(k, v) /\ Known(versions[k], v)
    BY <1>2, <2>1, <2>3, CopyIsStorable
  <2> QED
    BY <2>1, <2>2, <2>3, <2>4, UpdateKeeps
<1> QED
  BY <1>3, <1>4

\* The condition that ends a reconciliation: without retry, what is stored then
\* is settled, or a wake-up is to come.
LEMMA SetStatusKeeps ==
    ASSUME NEW labels, NEW provision, NEW deleting,
           LabelSets(labels, provision, deleting),
           LoopIInv(labels, provision, deleting),
           NEW k \in Keys, SetStatus(k)
    PROVE  Keeps(k, labels, provision, deleting)
<1> DEFINE c == ConditionOf(res[k], out[k])
           v == [res[k] EXCEPT !.cond = c]
<1>1. /\ LoopInv(k, provision, deleting) /\ pc[k] = "SetStatus"
      /\ res[k] \in Objects /\ out[k] \in Outcomes
      /\ res[k].gen \in Nat /\ res[k].cond.obs \in Nat
  BY Facts, StoredFacts DEF SetStatus, Objects, Conditions
<1>2. c \in Conditions
  BY <1>1 DEF ConditionOf, Conditions, Outcomes, Objects
<1>3. /\ v \in Objects /\ v # None /\ v.cond = c
      /\ v.spec = res[k].spec /\ v.del = res[k].del /\ v.fin = res[k].fin
      /\ v.gen = res[k].gen
  BY <1>1, <1>2, WithCondition
<1>4. \/ v = res[k] /\ UNCHANGED <<versions, budget>> /\ Return(k, Requeued(out[k]))
      \/ WriteWorks(k, v) /\ Return(k, Requeued(out[k]))
      \/ WriteFails(k, v) /\ Return(k, TRUE)
  BY DEF SetStatus
<1> HIDE DEF v
<1>5. /\ c.obs = res[k].gen /\ c.reason = out[k].reason
      /\ c.status \in {"True", "False"}
  BY DEF ConditionOf
<1> HIDE DEF c
<1>6. Settled(v) /\ Judged(v) /\ v.cond.obs <= v.gen
  BY <1>1, <1>3, <1>5 DEF Settled, Judged
<1>7. cur[k] => Storable(k, v)
  <2> SUFFICES ASSUME cur[k] PROVE Storable(k, v)
    OBVIOUS
  <2>1. res[k].cond.obs <= res[k].gen
    BY <1>1, StoredFacts, NoneIsNoObject DEF LoopInv, WorkerInv
  <2>2. Follows(res[k], v) /\ SameGeneration(v, res[k])
    BY <1>1, <1>3, <1>5, <1>6, <2>1, NoneIsNoObject DEF Follows, SameGeneration
  <2>3. v.cond.reason = "Reconciled" => ~v.del
    BY <1>1, <1>3, <1>5 DEF LoopInv, WorkerInv
  <2> QED
    BY <1>3, <1>6, <2>2, <2>3, CopyIsStorable
<1>8. v = res[k] => MayRest(k)
  <2> SUFFICES ASSUME v = res[k], Follows(res[k], Stored(k)) PROVE MayRest(k)
    BY <1>1 DEF LoopInv, WakeInv, MayRest
  <2>1. /\ Stored(k).cond.obs <= Stored(k).gen
        /\ Stored(k).gen \in Nat /\ Stored(k).cond.obs \in Nat
    BY StoredFacts DEF Follows
  <2> QED
    BY <1>1, <1>6, <2>1 DEF Follows, Settled, MayRest
<1>9. CASE v = res[k] /\ UNCHANGED <<versions, budget>> /\ Return(k, Requeued(out[k]))
  BY <1>8, <1>9, ReturnKeeps, FaultKeepsBudgets
<1>10. CASE WriteWorks(k, v) /\ Return(k, Requeued(out[k]))
  BY <1>6, <1>7, <1>10, WriteAndReturnKeeps
<1>11. CASE WriteFails(k, v) /\ Return(k, TRUE)
  BY <1>7, <1>11, WriteAndReturnKeeps
<1> QED
  BY <1>4, <1>9, <1>10, <1>11

\* The finalizer goes, and the CR with it: a worker that may write it has a copy
\* that is being deleted, and the informer knows.
LEMMA RemoveFinalizerKeeps ==
    ASSUME NEW labels, NEW provision, NEW deleting,
           LabelSets(labels, provision, deleting),
           LoopIInv(labels, provision, deleting),
           NEW k \in Keys, RemoveFinalizer(k)
    PROVE  Keeps(k, labels, provision, deleting)
<1>1. LoopInv(k, provision, deleting) /\ pc[k] \in deleting
  BY Facts DEF RemoveFinalizer, LabelSets
<1>2. cur[k] => NoneIsReady(versions[k])
  BY <1>1 DEF LoopInv, WorkerInv, Known, SameGeneration, NoneIsReady
<1>3. cur[k] => Storable(k, None)
  BY <1>2 DEF Storable, MayFollow, Relevant, Versions
<1> QED
  BY <1>3, WriteAndReturnKeeps DEF RemoveFinalizer

\* Every step of the prologue and of the end of Reconcile keeps the invariant.
LEMMA LoopStepKeeps ==
    ASSUME NEW labels, NEW provision, NEW deleting,
           LabelSets(labels, provision, deleting),
           LoopIInv(labels, provision, deleting),
           NEW k \in Keys, LoopStep(k)
    PROVE  Keeps(k, labels, provision, deleting)
<1>1. /\ LoopInv(k, provision, deleting) /\ queue \subseteq Keys
      /\ Len(versions[k]) \in 1..Len(versions[k]) /\ 1 \in 1..Len(versions[k])
  BY Facts DEF LoopIInv, LoopTypeOK
<1>2. Cached(k) # None /\ Cached(k).fin /\ ~Cached(k).del => Held(k)
  BY <1>1 DEF LoopInv, VersionsInv, Ordered, Held, Stored, Cached
<1>3. CASE Start(k)
  <2>1. AfterGet(Cached(k)) \in {"InitStatus", "AddFinalizer", "Handle", "Finalize"}
    BY DEF AfterGet, AfterStatus, AfterFinalizer
  <2>2. /\ AfterGet(Cached(k)) = "InitStatus" => Cached(k).cond = NoCondition
        /\ AfterGet(Cached(k)) = "Handle" => Cached(k).fin /\ ~Cached(k).del
        /\ AfterGet(Cached(k)) = "Finalize" => Cached(k).del
    BY DEF AfterGet, AfterStatus, AfterFinalizer
  <2>3. /\ Cached(k) # None /\ Fetch(k) /\ Goto(k, AfterGet(Cached(k)))
        /\ queue' \subseteq Keys /\ queue \subseteq queue' \cup {k}
        /\ UNCHANGED <<versions, budget>>
    BY <1>1, <1>3 DEF Start
  <2> QED
    BY <1>2, <2>1, <2>2, <2>3, FetchKeeps
<1>4. CASE RefetchStatus(k) \/ RefetchFinalizer(k)
  <2>1. UNCHANGED <<versions, budget>>
    BY <1>4 DEF RefetchStatus, RefetchFinalizer, Refetch
  <2>2. CASE Cached(k) = None
    <3>1. Return(k, TRUE)
      BY <1>4, <2>2 DEF RefetchStatus, RefetchFinalizer, Refetch
    <3> QED
      BY <2>1, <3>1, ReturnKeeps, FaultKeepsBudgets
  <2>3. CASE Cached(k) # None /\ RefetchStatus(k)
    <3>1. AfterStatus(Cached(k)) \in {"AddFinalizer", "Handle", "Finalize"}
      BY DEF AfterStatus, AfterFinalizer
    <3>2. /\ AfterStatus(Cached(k)) = "Handle" => Cached(k).fin /\ ~Cached(k).del
          /\ AfterStatus(Cached(k)) = "Finalize" => Cached(k).del
      BY DEF AfterStatus, AfterFinalizer
    <3>3. Fetch(k) /\ Goto(k, AfterStatus(Cached(k))) /\ UNCHANGED queue
      BY <2>3 DEF RefetchStatus, Refetch
    <3> QED
      BY <1>1, <1>2, <2>1, <2>3, <3>1, <3>2, <3>3, FetchKeeps
  <2>4. CASE Cached(k) # None /\ RefetchFinalizer(k)
    <3>1. Held(k)
      BY <1>1, <2>4 DEF RefetchFinalizer, Refetch, LoopInv, WorkerInv
    <3>2. AfterFinalizer(Cached(k)) \in {"Handle", "Finalize"}
      BY DEF AfterFinalizer
    <3>3. /\ AfterFinalizer(Cached(k)) = "Handle" => ~Cached(k).del
          /\ AfterFinalizer(Cached(k)) = "Finalize" => Cached(k).del
      BY DEF AfterFinalizer
    <3>4. Fetch(k) /\ Goto(k, AfterFinalizer(Cached(k))) /\ UNCHANGED queue
      BY <2>4 DEF RefetchFinalizer, Refetch
    <3> QED
      BY <1>1, <2>1, <2>4, <3>1, <3>2, <3>3, <3>4, FetchKeeps
  <2> QED
    BY <1>4, <2>2, <2>3, <2>4
<1> QED
  BY <1>3, <1>4, StartGoneKeeps, PrologueKeeps, SetStatusKeeps, RemoveFinalizerKeeps
  DEF LoopStep

-----------------------------------------------------------------------------
(* Handlers, others, crashes *)

\* Where a handler may go without writing the CR: on to a label of its kind, or
\* to the condition it found, which is "Reconciled" only at the end of what
\* provisions.
Proceeds(k, provision, deleting) ==
    \/ UNCHANGED <<pc, out>>
    \/ pc[k] \in provision /\ \E label \in provision : Goto(k, label)
    \/ pc[k] \in deleting /\ \E label \in deleting : Goto(k, label)
    \/ /\ pc[k] \in provision
       /\ \E reason \in Reasons, err \in BOOLEAN : Conclude(k, reason, err)
    \/ /\ pc[k] \in deleting
       /\ \E reason \in Reasons \ {"Reconciled"}, err \in BOOLEAN :
            Conclude(k, reason, err)

\* A call of a handler to S3.
LEMMA ProceedsKeeps ==
    ASSUME NEW labels, NEW provision, NEW deleting,
           LabelSets(labels, provision, deleting),
           LoopIInv(labels, provision, deleting),
           NEW k \in Keys, Proceeds(k, provision, deleting),
           UNCHANGED <<versions, queue, res, cur>>, budget' \in Budgets
    PROVE  Keeps(k, labels, provision, deleting)
<1>1. LoopTypeOK(labels) /\ LoopInv(k, provision, deleting)
  BY DEF LoopIInv
<1>2. /\ \A j \in Keys \ {k} : pc'[j] = pc[j] /\ out'[j] = out[j]
      /\ pc' \in [Keys -> labels] /\ out' \in [Keys -> Outcomes]
  <2>1. {"SetStatus"} \cup provision \cup deleting \subseteq labels
    BY DEF LabelSets, LoopLabels
  <2>2. /\ pc' = pc \/ \E label \in labels : pc' = [pc EXCEPT ![k] = label]
        /\ out' = out \/ \E o \in Outcomes : out' = [out EXCEPT ![k] = o]
    <3>1. \A reason \in Reasons, err \in BOOLEAN :
            [reason |-> reason, err |-> err] \in Outcomes
      BY DEF Outcomes
    <3> QED
      BY <2>1, <3>1 DEF Proceeds, Goto, Conclude
  <2> QED
    BY <1>1, <2>2 DEF LoopTypeOK
<1>3. \/ pc'[k] = pc[k] /\ out'[k] = out[k]
      \/ pc[k] \in provision /\ pc'[k] \in provision
      \/ pc[k] \in deleting /\ pc'[k] \in deleting
      \/ pc[k] \in provision /\ pc'[k] = "SetStatus"
      \/ /\ pc[k] \in deleting /\ pc'[k] = "SetStatus"
         /\ out'[k].reason # "Reconciled"
  BY <1>1 DEF Proceeds, Goto, Conclude, LoopTypeOK
<1>4. Stored(k)' = Stored(k) /\ Held(k)' = Held(k)
  BY DEF Stored, Held
<1>5. LoopTypeOK(labels)'
  BY <1>1, <1>2 DEF LoopTypeOK, Budgets
<1>6. pc[k] = "Idle" <=> pc'[k] = "Idle"
  BY <1>3 DEF LabelSets
<1>7. VersionsInv(k)' /\ ConditionInv(k)' /\ WakeInv(k)'
  BY <1>1, <1>4, <1>6 DEF LoopInv, VersionsInv, ConditionInv, WakeInv
<1>8. WorkerInv(k, provision, deleting)'
  BY <1>1, <1>3, <1>4, <1>6 DEF LoopInv, WorkerInv, LabelSets
<1> QED
  BY <1>2, <1>5, <1>7, <1>8 DEF Keeps, LoopInv, LeftAlone

\* A handler that returns an error without any condition.
LEMMA RetryKeeps ==
    ASSUME NEW labels, NEW provision, NEW deleting,
           LabelSets(labels, provision, deleting),
           LoopIInv(labels, provision, deleting),
           NEW k \in Keys, Return(k, TRUE),
           UNCHANGED versions, budget' \in Budgets
    PROVE  Keeps(k, labels, provision, deleting)
  BY ReturnKeeps

\* What others do that is not to the CRs: it may wake some up.
LEMMA QuietKeeps ==
    ASSUME NEW labels, NEW provision, NEW deleting,
           LoopIInv(labels, provision, deleting),
           UNCHANGED <<versions, pc, res, cur, out>>,
           queue \subseteq queue', queue' \subseteq Keys, budget' \in Budgets
    PROVE  LoopIInv(labels, provision, deleting)'
<1>1. LoopTypeOK(labels)'
  BY DEF LoopIInv, LoopTypeOK, Budgets
<1>2. \A j \in Keys : LoopInv(j, provision, deleting)'
  <2> TAKE j \in Keys
  <2>1. LoopInv(j, provision, deleting) /\ LeftAlone(j)
    BY DEF LoopIInv, LeftAlone
  <2> QED
    BY <2>1, LeftAloneKeeps
<1> QED
  BY <1>1, <1>2 DEF LoopIInv

\* A restart: the informer lists what is stored.
LEMMA CrashKeeps ==
    ASSUME NEW labels, NEW provision, NEW deleting,
           LabelSets(labels, provision, deleting),
           LoopIInv(labels, provision, deleting), Crash
    PROVE  LoopIInv(labels, provision, deleting)'
<1>1. /\ versions' = [k \in Keys |-> <<Stored(k)>>]
      /\ queue' = {k \in Keys : Stored(k) # None}
      /\ pc' = [k \in Keys |-> "Idle"]
      /\ res' = [k \in Keys |-> None]
      /\ cur' = [k \in Keys |-> FALSE]
      /\ out' = [k \in Keys |-> NoOutcome]
      /\ budget' \in Budgets
  BY FaultKeepsBudgets DEF Crash
<1>2. "Idle" \in labels /\ NoOutcome \in Outcomes /\ None \in Versions
  BY DEF LabelSets, LoopLabels, NoOutcome, Outcomes, Versions
<1>3. \A k \in Keys : Stored(k) \in Versions
  BY Facts
<1>4. versions' \in [Keys -> Seq(Versions) \ {<<>>}]
  <2>1. \A v \in Versions : <<v>> \in Seq(Versions) \ {<<>>}
    OBVIOUS
  <2> QED
    BY <1>1, <1>3, <2>1
<1>5. LoopTypeOK(labels)'
  BY <1>1, <1>2, <1>4 DEF LoopTypeOK, Budgets
<1>6. ASSUME NEW k \in Keys PROVE LoopInv(k, provision, deleting)'
  <2>1. /\ versions'[k] = <<Stored(k)>>
        /\ Len(versions'[k]) = 1 /\ versions'[k][1] = Stored(k)
    BY <1>1
  <2>2. /\ pc'[k] = "Idle" /\ res'[k] = None /\ cur'[k] = FALSE
        /\ Stored(k) # None => k \in queue'
    BY <1>1
  <2>3. Stored(k)' = Stored(k)
    BY <2>1 DEF Stored
  <2>4. Stored(k) # None => /\ Stored(k).spec \in Specs[k]
                            /\ Stored(k).del => Stored(k).fin
                            /\ Stored(k).cond.obs <= Stored(k).gen
    BY StoredFacts
  <2>5. VersionsInv(k)'
    BY <2>1, <2>4 DEF VersionsInv, Ordered, Traceable
  <2>6. WorkerInv(k, provision, deleting)'
    BY <2>2 DEF WorkerInv, LabelSets
  <2>7. ConditionInv(k)'
    <3>1. LoopInv(k, provision, deleting)
      BY DEF LoopIInv
    <3> QED
      BY <2>1, <2>2, <2>3, <3>1
      DEF LoopInv, ConditionInv, Known, SameGeneration
  <2>8. WakeInv(k)'
    BY <2>2, <2>3 DEF WakeInv
  <2> QED
    BY <2>5, <2>6, <2>7, <2>8 DEF LoopInv
<1> QED
  BY <1>5, <1>6 DEF LoopIInv

\* There is no CR at first.
LEMMA InitKeeps ==
    ASSUME NEW labels, NEW provision, NEW deleting,
           LabelSets(labels, provision, deleting), LoopInit
    PROVE  LoopIInv(labels, provision, deleting)
<1>1. "Idle" \in labels /\ NoOutcome \in Outcomes /\ None \in Versions
  BY DEF LabelSets, LoopLabels, NoOutcome, Outcomes, Versions
<1>2. LoopTypeOK(labels)
  <2>1. <<None>> \in Seq(Versions) \ {<<>>}
    BY <1>1
  <2>2. budget \in Budgets
    BY BoundsAreNaturals DEF LoopInit, Budgets
  <2> QED
    BY <1>1, <2>1, <2>2 DEF LoopTypeOK, LoopInit, Budgets
<1>3. ASSUME NEW k \in Keys PROVE LoopInv(k, provision, deleting)
  <2>1. /\ versions[k] = <<None>> /\ pc[k] = "Idle"
        /\ res[k] = None /\ cur[k] = FALSE
        /\ Len(versions[k]) = 1 /\ versions[k][1] = None /\ Stored(k) = None
    BY DEF LoopInit, Stored
  <2>2. VersionsInv(k)
    BY <2>1 DEF VersionsInv, Ordered, Traceable
  <2> QED
    BY <2>1, <2>2 DEF LoopInv, WorkerInv, ConditionInv, WakeInv, LabelSets
<1> QED
  BY <1>2, <1>3 DEF LoopIInv

\* Where the common part of Reconcile goes: never into a handler but to its start.
LEMMA LoopMoves ==
    ASSUME NEW k \in Keys, NEW labels, LoopTypeOK(labels), LoopStep(k)
    PROVE  /\ \/ UNCHANGED <<pc, res, out>>
              \/ pc'[k] \in LoopLabels \ {"SetStatus", "RemoveFinalizer"}
           /\ pc[k] \in LoopLabels
  BY DEF LoopStep, StartGone, Start, InitStatus, RefetchStatus, AddFinalizer,
         RefetchFinalizer, SetStatus, RemoveFinalizer, Update, Refetch, Goto,
         Return, AfterGet, AfterStatus, AfterFinalizer, LoopLabels, LoopTypeOK

-----------------------------------------------------------------------------
(* What a step does to the stored CR *)

\* By a user: a new CR, a change, the removal of one without finalizer.
EditedByUser(k) ==
    \/ /\ Stored(k) = None /\ Stored(k)' # None
       /\ ~Stored(k)'.fin /\ ~Stored(k)'.del
       /\ Stored(k)'.cond = NoCondition /\ Stored(k)'.gen = 1
    \/ /\ Stored(k) # None /\ Stored(k)' # None
       /\ Stored(k)'.fin = Stored(k).fin
       /\ Stored(k).del => Stored(k)'.del
       /\ Stored(k)'.del /\ ~Stored(k).del => Stored(k).fin
       /\ Stored(k)'.cond = Stored(k).cond
       /\ Stored(k)' = Stored(k) \/ Stored(k)'.gen = Stored(k).gen + 1
    \/ Stored(k) # None /\ ~Stored(k).fin /\ Stored(k)' = None

\* By the worker: the finalizer, a condition, and the end of a CR.
WrittenByWorker(k) ==
    \/ Stored(k)' = Stored(k)
    \/ /\ cur[k] /\ Stored(k)' # None
       /\ SameGeneration(Stored(k), Stored(k)')
       /\ \/ Stored(k)'.fin /\ Stored(k)'.cond = Stored(k).cond
          \/ /\ Stored(k)'.fin = Stored(k).fin
             /\ Stored(k)'.cond.obs = Stored(k).gen
             /\ \/ Stored(k)'.cond.reason = "Reconciling"
                \/ /\ pc[k] = "SetStatus"
                   /\ Stored(k)'.cond = ConditionOf(res[k], out[k])
    \/ cur[k] /\ pc[k] = "RemoveFinalizer" /\ Stored(k)' = None

\* Storing v.
LEMMA StoreStores ==
    ASSUME NEW labels, NEW provision, NEW deleting,
           LoopIInv(labels, provision, deleting),
           NEW k \in Keys, NEW v \in Versions, Store(k, v)
    PROVE  /\ Stored(k)' = v
           /\ \A j \in Keys \ {k} : Stored(j)' = Stored(j)
<1>1. /\ versions \in [Keys -> Seq(Versions) \ {<<>>}]
      /\ versions[k] \in Seq(Versions) \ {<<>>}
  BY Facts
<1>2. versions' = [versions EXCEPT ![k] = Append(versions[k], v)]
  BY DEF Store
<1>3. versions'[k] = Append(versions[k], v)
  BY <1>1, <1>2
<1>4. LET ws == Append(versions[k], v) IN ws[Len(ws)] = v
  BY <1>1, Appended
<1> QED
  BY <1>1, <1>2, <1>3, <1>4 DEF Stored

LEMMA UserStepEdits ==
    ASSUME NEW labels, NEW provision, NEW deleting,
           LoopIInv(labels, provision, deleting), NEW k \in Keys, UserStep(k)
    PROVE  EditedByUser(k) /\ \A j \in Keys \ {k} : Stored(j)' = Stored(j)
<1>1. Stored(k) # None => Stored(k) \in Objects /\ Stored(k).gen + 1 \in Nat
  BY StoredFacts
<1>2. CASE UserCreate(k)
  <2>1. PICK s \in Specs[k] : Store(k, NewObject(s)) /\ Stored(k) = None
    BY <1>2 DEF UserCreate
  <2> DEFINE v == NewObject(s)
  <2>2. v \in Objects
    BY DEF NewObject, Objects, AllSpecs, NoCondition, Conditions
  <2>3. ~v.fin /\ ~v.del /\ v.cond = NoCondition /\ v.gen = 1
    BY DEF NewObject
  <2> HIDE DEF v
  <2>4. Stored(k)' = v /\ \A j \in Keys \ {k} : Stored(j)' = Stored(j)
    BY <2>1, <2>2, StoreStores DEF Versions, v
  <2> QED
    BY <2>1, <2>2, <2>3, <2>4, NoneIsNoObject DEF EditedByUser
<1>3. CASE UserEdit(k)
  <2>1. PICK s \in Specs[k] :
          Store(k, [Stored(k) EXCEPT !.spec = s, !.gen = @ + 1])
    BY <1>3 DEF UserEdit
  <2> DEFINE v == [Stored(k) EXCEPT !.spec = s, !.gen = @ + 1]
  <2>2. Stored(k) # None /\ s \in AllSpecs
    BY <1>3 DEF UserEdit, AllSpecs
  <2>3. /\ v \in Objects /\ v.del = Stored(k).del /\ v.fin = Stored(k).fin
        /\ v.gen = Stored(k).gen + 1 /\ v.cond = Stored(k).cond
    BY <1>1, <2>2 DEF Objects
  <2>4. Store(k, v)
    BY <2>1
  <2> HIDE DEF v
  <2>5. Stored(k)' = v /\ \A j \in Keys \ {k} : Stored(j)' = Stored(j)
    BY <2>3, <2>4, StoreStores DEF Versions
  <2> QED
    BY <2>2, <2>3, <2>5, NoneIsNoObject DEF EditedByUser
<1>4. CASE UserTouch(k)
  <2>1. /\ Stored(k)' = Stored(k) /\ Stored(k) # None
        /\ \A j \in Keys \ {k} : Stored(j)' = Stored(j)
    BY <1>1, <1>4, StoreStores DEF UserTouch, Versions
  <2> QED
    BY <2>1 DEF EditedByUser
<1>5. CASE UserDelete(k)
  <2>1. Stored(k) # None /\ ~Stored(k).del
    BY <1>5 DEF UserDelete
  <2>2. CASE Stored(k).fin
    <3> DEFINE v == [Stored(k) EXCEPT !.del = TRUE, !.gen = @ + 1]
    <3>1. /\ v \in Objects /\ v.del /\ v.fin = Stored(k).fin
          /\ v.gen = Stored(k).gen + 1 /\ v.cond = Stored(k).cond
      BY <1>1, <2>1 DEF Objects
    <3>2. Store(k, v)
      BY <1>5, <2>2 DEF UserDelete
    <3> HIDE DEF v
    <3>3. Stored(k)' = v /\ \A j \in Keys \ {k} : Stored(j)' = Stored(j)
      BY <3>1, <3>2, StoreStores DEF Versions
    <3> QED
      BY <2>1, <2>2, <3>1, <3>3, NoneIsNoObject DEF EditedByUser
  <2>3. CASE ~Stored(k).fin
    <3>1. Store(k, None) /\ None \in Versions
      BY <1>5, <2>3 DEF UserDelete, Versions
    <3>2. Stored(k)' = None /\ \A j \in Keys \ {k} : Stored(j)' = Stored(j)
      BY <3>1, StoreStores
    <3> QED
      BY <2>1, <2>3, <3>2 DEF EditedByUser
  <2> QED
    BY <2>2, <2>3
<1> QED
  BY <1>2, <1>3, <1>4, <1>5 DEF UserStep

LEMMA LoopStepWrites ==
    ASSUME NEW labels, NEW provision, NEW deleting,
           LoopIInv(labels, provision, deleting), NEW k \in Keys, LoopStep(k)
    PROVE  WrittenByWorker(k) /\ \A j \in Keys \ {k} : Stored(j)' = Stored(j)
<1>1. cur[k] => res[k] = Stored(k)
  BY DEF LoopIInv, LoopInv, WorkerInv
<1>2. pc[k] # "Idle" => res[k] \in Objects /\ out[k] \in Outcomes
  BY Facts, StoredFacts
<1>3. CASE UNCHANGED versions
  BY <1>3 DEF WrittenByWorker, Stored
<1>4. ASSUME NEW v \in Versions, cur[k], Store(k, v)
      PROVE  Stored(k)' = v /\ \A j \in Keys \ {k} : Stored(j)' = Stored(j)
  BY <1>4, StoreStores
<1>5. CASE ~UNCHANGED versions /\ InitStatus(k)
  <2> DEFINE c == [status |-> "Unknown", reason |-> "Reconciling", obs |-> res[k].gen]
             v == [res[k] EXCEPT !.cond = c]
  <2>1. c \in Conditions /\ res[k] \in Objects
    BY <1>2, <1>5 DEF InitStatus, Conditions, Reasons, Objects
  <2>2. /\ v \in Objects /\ v # None /\ v.cond = c
        /\ v.spec = res[k].spec /\ v.del = res[k].del /\ v.fin = res[k].fin
        /\ v.gen = res[k].gen
    BY <2>1, WithCondition
  <2>3. cur[k] /\ Store(k, v)
    BY <1>5 DEF InitStatus, Update, WriteWorks, WriteFails, MayWrite
  <2> HIDE DEF v
  <2> QED
    BY <1>1, <1>4, <2>1, <2>2, <2>3, NoneIsNoObject
    DEF WrittenByWorker, SameGeneration, Versions
<1>6. CASE ~UNCHANGED versions /\ AddFinalizer(k)
  <2> DEFINE v == [res[k] EXCEPT !.fin = TRUE]
  <2>1. res[k] \in Objects
    BY <1>2, <1>6 DEF AddFinalizer
  <2>2. /\ v \in Objects /\ v.cond = res[k].cond
        /\ v.spec = res[k].spec /\ v.del = res[k].del /\ v.fin
        /\ v.gen = res[k].gen
    BY <2>1 DEF Objects
  <2>3. cur[k] /\ Store(k, v)
    BY <1>6 DEF AddFinalizer, Update, WriteWorks, WriteFails, MayWrite
  <2> HIDE DEF v
  <2> QED
    BY <1>1, <1>4, <2>1, <2>2, <2>3, NoneIsNoObject
    DEF WrittenByWorker, SameGeneration, Versions
<1>7. CASE ~UNCHANGED versions /\ SetStatus(k)
  <2> DEFINE c == ConditionOf(res[k], out[k])
             v == [res[k] EXCEPT !.cond = c]
  <2>1. c \in Conditions /\ res[k] \in Objects /\ pc[k] = "SetStatus"
    BY <1>2, <1>7 DEF SetStatus, ConditionOf, Conditions, Outcomes, Objects
  <2>2. /\ v \in Objects /\ v # None /\ v.cond = c
        /\ v.spec = res[k].spec /\ v.del = res[k].del /\ v.fin = res[k].fin
        /\ v.gen = res[k].gen
    BY <2>1, WithCondition
  <2>3. cur[k] /\ Store(k, v)
    BY <1>7 DEF SetStatus, WriteWorks, WriteFails, MayWrite
  <2>4. c.obs = res[k].gen
    BY DEF ConditionOf
  <2> HIDE DEF v
  <2> QED
    BY <1>1, <1>4, <2>1, <2>2, <2>3, <2>4, NoneIsNoObject
    DEF WrittenByWorker, SameGeneration, Versions
<1>8. CASE ~UNCHANGED versions /\ RemoveFinalizer(k)
  <2>1. cur[k] /\ Store(k, None) /\ pc[k] = "RemoveFinalizer"
    BY <1>8 DEF RemoveFinalizer, WriteWorks, WriteFails, MayWrite
  <2> QED
    BY <1>4, <2>1 DEF WrittenByWorker, Versions
<1>9. \A j \in Keys : UNCHANGED versions => Stored(j)' = Stored(j)
  BY DEF Stored
<1>10. \/ UNCHANGED versions
       \/ InitStatus(k) \/ AddFinalizer(k) \/ SetStatus(k) \/ RemoveFinalizer(k)
  BY DEF LoopStep, StartGone, Start, RefetchStatus, RefetchFinalizer, Refetch
<1> QED
  BY <1>3, <1>5, <1>6, <1>7, <1>8, <1>9, <1>10

\* The watch and a restart leave it alone.
LEMMA WatchStoresNothing ==
    ASSUME NEW labels, NEW provision, NEW deleting,
           LoopIInv(labels, provision, deleting),
           (\E k \in Keys : Deliver(k)) \/ Crash \/ UNCHANGED versions
    PROVE  \A j \in Keys : Stored(j)' = Stored(j)
<1>1. ASSUME NEW k \in Keys, Deliver(k) PROVE \A j \in Keys : Stored(j)' = Stored(j)
  <2>1. /\ versions \in [Keys -> Seq(Versions) \ {<<>>}]
        /\ versions[k] \in Seq(Versions) /\ Len(versions[k]) > 1
        /\ Ordered(versions[k]) /\ Traceable(versions[k])
    BY <1>1, Facts DEF Deliver, LoopInv, VersionsInv
  <2>2. /\ versions'[k] = Tail(versions[k])
        /\ \A j \in Keys \ {k} : versions'[j] = versions[j]
    BY <1>1, <2>1 DEF Deliver
  <2>3. LET ws == Tail(versions[k]) IN ws[Len(ws)] = versions[k][Len(versions[k])]
    BY <2>1, TailKeeps
  <2> QED
    BY <2>2, <2>3 DEF Stored
<1>2. CASE Crash
  BY <1>2 DEF Crash, Stored
<1>3. CASE UNCHANGED versions
  BY <1>3 DEF Stored
<1> QED
  BY <1>1, <1>2, <1>3

\* How far a CR gets in its life.
LEMMA StageMoves ==
    ASSUME NEW labels, NEW provision, NEW deleting,
           LabelSets(labels, provision, deleting),
           LoopIInv(labels, provision, deleting), NEW k \in Keys
    PROVE  /\ EditedByUser(k) => \/ Stage(k)' = Stage(k)
                                 \/ Stage(k) = "absent" /\ Stage(k)' = "declared"
                                 \/ Stage(k) = "declared" /\ Stage(k)' = "absent"
                                 \/ Stage(k) = "held" /\ Stage(k)' = "terminating"
           /\ WrittenByWorker(k) => \/ Stage(k)' = Stage(k)
                                    \/ Stage(k) = "declared" /\ Stage(k)' = "held"
                                    \/ /\ Stage(k) = "terminating"
                                       /\ Stage(k)' = "absent"
                                       /\ pc[k] = "RemoveFinalizer"
                                       /\ res[k] = Stored(k)
<1>1. Stored(k) # None => (Stored(k).del => Stored(k).fin)
  BY StoredFacts
<1>2. pc[k] = "RemoveFinalizer" /\ cur[k]
        => res[k] = Stored(k) /\ Stored(k) # None /\ Stored(k).del
  BY DEF LabelSets, LoopIInv, LoopInv, WorkerInv
<1>3. Stored(k) # None => Stored(k).fin \in BOOLEAN /\ Stored(k).del \in BOOLEAN
  BY StoredFacts DEF Objects
<1>4. EditedByUser(k) => \/ Stage(k)' = Stage(k)
                         \/ Stage(k) = "absent" /\ Stage(k)' = "declared"
                         \/ Stage(k) = "declared" /\ Stage(k)' = "absent"
                         \/ Stage(k) = "held" /\ Stage(k)' = "terminating"
  BY <1>1, <1>3 DEF EditedByUser, Stage
<1> QED
  BY <1>1, <1>2, <1>3, <1>4 DEF WrittenByWorker, SameGeneration, Stage

-----------------------------------------------------------------------------
(* What follows from the invariant *)

\* A CR that is not settled has work pending.
LEMMA IInvImpliesNoLostWakeup ==
    ASSUME NEW labels, NEW provision, NEW deleting,
           LoopIInv(labels, provision, deleting)
    PROVE  NoLostWakeup
<1> SUFFICES ASSUME NEW k \in Keys, Stored(k) # None, ~Settled(Stored(k))
             PROVE  Pending(k)
  BY Facts, StoredFacts DEF NoLostWakeup, Settled, Judged
<1>1. WakeInv(k)
  BY DEF LoopIInv, LoopInv
<1> QED
  BY <1>1 DEF WakeInv, Pending, Ahead

\* The observed generation only grows.
StatusGoesForward(k) ==
    Stored(k) # None /\ Stored(k)' # None => Stored(k)'.cond.obs >= Stored(k).cond.obs

LEMMA WritesGoForward ==
    ASSUME NEW labels, NEW provision, NEW deleting,
           LoopIInv(labels, provision, deleting), NEW k \in Keys,
           EditedByUser(k) \/ WrittenByWorker(k)
    PROVE  StatusGoesForward(k)
<1>1. Stored(k) # None => /\ Stored(k).cond.obs <= Stored(k).gen
                          /\ Stored(k).gen \in Nat /\ Stored(k).cond.obs \in Nat
  BY StoredFacts
<1> QED
  BY <1>1 DEF EditedByUser, WrittenByWorker, StatusGoesForward

\* So does that of every other CR, whoever makes the step.
LEMMA ConditionsStay ==
    ASSUME NEW labels, NEW provision, NEW deleting,
           LoopIInv(labels, provision, deleting),
           \/ \E k \in Keys : LoopStep(k) \/ UserStep(k) \/ Deliver(k)
           \/ Crash \/ UNCHANGED versions
    PROVE  \A j \in Keys : StatusGoesForward(j)
<1>1. ASSUME NEW j \in Keys, Stored(j)' = Stored(j) PROVE StatusGoesForward(j)
  <2>1. Stored(j) # None => Stored(j).cond.obs \in Nat
    BY StoredFacts
  <2> QED
    BY <1>1, <2>1 DEF StatusGoesForward
<1>2. ASSUME NEW k \in Keys, LoopStep(k) \/ UserStep(k)
      PROVE  \A j \in Keys : StatusGoesForward(j)
  <2>1. EditedByUser(k) \/ WrittenByWorker(k)
    BY <1>2, UserStepEdits, LoopStepWrites
  <2>2. \A j \in Keys \ {k} : Stored(j)' = Stored(j)
    BY <1>2, UserStepEdits, LoopStepWrites
  <2> QED
    BY <1>1, <2>1, <2>2, WritesGoForward
<1>3. ASSUME (\E k \in Keys : Deliver(k)) \/ Crash \/ UNCHANGED versions
      PROVE  \A j \in Keys : StatusGoesForward(j)
  BY <1>1, <1>3, WatchStoresNothing
<1> QED
  BY <1>2, <1>3

-----------------------------------------------------------------------------
(* What the conditions say *)

\* A version is one that was there, or the stored one.
LEMMA VersionsGrow ==
    ASSUME NEW labels, NEW provision, NEW deleting,
           LoopIInv(labels, provision, deleting), NEW k \in Keys,
           UserStep(k) \/ Deliver(k) \/ LoopStep(k) \/ Crash \/ UNCHANGED versions,
           NEW i \in 1..Len(versions'[k])
    PROVE  \/ versions'[k][i] = Stored(k)'
           \/ \E m \in 1..Len(versions[k]) : versions'[k][i] = versions[k][m]
<1>1. /\ versions \in [Keys -> Seq(Versions) \ {<<>>}]
      /\ versions[k] \in Seq(Versions) /\ Len(versions[k]) \in Nat
  BY Facts
<1>2. ASSUME NEW v, Store(k, v)
      PROVE  \/ versions'[k][i] = Stored(k)'
             \/ \E m \in 1..Len(versions[k]) : versions'[k][i] = versions[k][m]
  <2>1. versions'[k] = Append(versions[k], v)
    BY <1>1, <1>2 DEF Store
  <2>2. /\ Len(versions'[k]) = Len(versions[k]) + 1
        /\ versions'[k][Len(versions[k]) + 1] = v
        /\ \A m \in 1..Len(versions[k]) : versions'[k][m] = versions[k][m]
    BY <1>1, <2>1
  <2>3. Stored(k)' = v
    BY <2>2 DEF Stored
  <2> QED
    BY <1>1, <2>2, <2>3
<1>3. CASE Deliver(k)
  <2>1. versions'[k] = Tail(versions[k]) /\ Len(versions[k]) > 1
    BY <1>1, <1>3 DEF Deliver
  <2>2. i + 1 \in 1..Len(versions[k]) /\ versions'[k][i] = versions[k][i + 1]
    BY <1>1, <2>1
  <2> QED
    BY <2>2
<1>4. CASE Crash
  <2>1. versions'[k] = <<Stored(k)>>
    BY <1>4 DEF Crash
  <2> QED
    BY <2>1 DEF Stored
<1>5. CASE UNCHANGED versions
  BY <1>1, <1>5
<1>6. UserStep(k) => \E v : Store(k, v)
  BY DEF UserStep, UserCreate, UserEdit, UserTouch, UserDelete
<1>7. LoopStep(k) => UNCHANGED versions \/ \E v : Store(k, v)
  BY DEF LoopStep, StartGone, Start, InitStatus, RefetchStatus, AddFinalizer,
         RefetchFinalizer, SetStatus, RemoveFinalizer, Update, Refetch,
         WriteWorks, WriteFails
<1> QED
  BY <1>2, <1>3, <1>4, <1>5, <1>6, <1>7

\* If the stored condition is truthful afterwards, so are all versions.
LEMMA VersionsStayTruthful ==
    ASSUME NEW labels, NEW provision, NEW deleting,
           LoopIInv(labels, provision, deleting), NEW k \in Keys, ReportInv(k),
           \/ UserStep(k) \/ LoopStep(k)
           \/ Deliver(k) \/ Crash \/ UNCHANGED versions,
           NEW i \in 1..Len(versions'[k]), versions'[k][i] # None
    PROVE  TruthfulCondition(versions'[k][i].cond)
<1>1. Stored(k) # None => TruthfulCondition(Stored(k).cond)
  BY Facts DEF ReportInv, Stored
<1>2. Stored(k)' # None => TruthfulCondition(Stored(k)'.cond)
  <2>1. CASE Stored(k)' = Stored(k)
    BY <1>1, <2>1
  <2>2. CASE EditedByUser(k)
    BY <1>1, <2>2 DEF EditedByUser, TruthfulCondition, NoCondition
  <2>3. CASE WrittenByWorker(k)
    <3>1. ASSUME pc[k] = "SetStatus" PROVE TruthfulCondition(ConditionOf(res[k], out[k]))
      BY <3>1 DEF ReportInv, TruthfulCondition, ConditionOf
    <3> QED
      BY <1>1, <2>3, <3>1 DEF WrittenByWorker, TruthfulCondition, SameGeneration
  <2> QED
    BY <2>1, <2>2, <2>3, UserStepEdits, LoopStepWrites, WatchStoresNothing
<1>3. ASSUME NEW m \in 1..Len(versions[k]), versions'[k][i] = versions[k][m]
      PROVE  TruthfulCondition(versions'[k][i].cond)
  BY <1>3 DEF ReportInv
<1> QED
  BY <1>2, <1>3, VersionsGrow

\* The common part of Reconcile, the users and the watch report nothing new.
LEMMA ReportKept ==
    ASSUME NEW labels, NEW provision, NEW deleting,
           LoopIInv(labels, provision, deleting), NEW k \in Keys, ReportInv(k),
           UserStep(k) \/ Deliver(k) \/ LoopStep(k) \/ Crash
    PROVE  ReportInv(k)'
<1>1. pc \in [Keys -> labels] /\ out \in [Keys -> Outcomes]
  BY DEF LoopIInv, LoopTypeOK
<1>2. \/ UNCHANGED <<pc, out>>
      \/ pc'[k] # "SetStatus" /\ out' = out /\ pc[k] # "SetStatus"
      \/ pc'[k] # "SetStatus" /\ out'[k] = NoOutcome
  BY <1>1 DEF UserStep, UserCreate, UserEdit, UserTouch, UserDelete, UserWrites, Deliver,
         LoopStep, StartGone, Start, InitStatus, RefetchStatus, AddFinalizer,
         RefetchFinalizer, SetStatus, RemoveFinalizer, Update, Refetch, Goto,
         Return, AfterGet, AfterStatus, AfterFinalizer, Crash
<1>3. \A i \in 1..Len(versions'[k]) :
        versions'[k][i] # None => TruthfulCondition(versions'[k][i].cond)
  BY VersionsStayTruthful
<1> QED
  BY <1>2, <1>3 DEF ReportInv

=============================================================================
