----------------------------- MODULE MCInstances -----------------------------
(* A small instance of InstancesAtWork. *)
EXTENDS InstancesAtWork, TLC

CONSTANTS i1, d1, bucket, path, inst

X == <<"x">>
XY == <<"x", "y">>

\* The CR d1 is in another namespace than the S3Instance i1 it names.
Names == (i1 :> [namespace |-> X, name |-> inst])
         @@ (d1 :> [namespace |-> XY, name |-> inst])

OneBucket == [d \in {d1} |-> bucket]

TwoNamespaces == {X, XY}

\* *x, y*, *y*
SomePatterns == {<<"*", "x">>, <<"y", "*">>, <<"*", "y", "*">>}

\* Open to the namespace of d1, or only to that of i1.
First == (i1 :> [allowed |-> <<<<"y", "*">>, <<"*", "y", "*">>>>]) @@ (d1 :> [namespace |-> X, name |-> inst])

InstanceAndDependent ==
    (i1 :> {First[i1], [allowed |-> <<<<"*", "x">>>>]}) @@ (d1 :> {First[d1]})

\* The operator starts when some of the CRs have been made, and perhaps without
\* the secrets of the S3Instance: a behaviour of InstancesAtWork after its first
\* steps, which saves those user writes.  When all were made nothing fails.
Init ==
    /\ \E made \in {{i1, d1}, {i1}, {d1}} :
         /\ versions = [k \in Keys |-> IF k \in made THEN <<NewObject(First[k])>>
                                                     ELSE <<None>>]
         /\ queue = made
         /\ access \in IF made = {i1} THEN {{}, {i1}} ELSE {{i1}}
         /\ budget = [user   |-> MaxUser,
                      faults |-> IF made = Keys THEN 0 ELSE MaxFaults,
                      reads  |-> MaxReadFaults]
    /\ pc = [k \in Keys |-> "Idle"]
    /\ res = [k \in Keys |-> None]
    /\ cur = [k \in Keys |-> FALSE]
    /\ out = [k \in Keys |-> NoOutcome]
    /\ unlisted = [i \in InstanceKeys |-> Kinds]

\* bound: a cache is at most one version behind.
MaxVersions == 2

SmallNext == Next /\ \A k \in Keys : Len(versions'[k]) <= MaxVersions

SmallSpec == Init /\ [][SmallNext]_vars /\ Fairness

=============================================================================
