-------------------------- MODULE MCBucketsAndPaths --------------------------
(* Small instances of BucketsAndPaths. *)
EXTENDS BucketsAndPaths, TLC

CONSTANTS k1, k2, b1, p1, p2

Quota(d, o) == [default |-> d, override |-> o]

BucketSpec(b, ps, q) ==
    [name |-> b, paths |-> ps, default |-> q.default, override |-> q.override]

ForAll(specs) == [k \in Keys |-> specs]

\* A user adds paths, raises the quota or writes one that is no int64.
EvolvingSpecs ==
    ForAll({BucketSpec(b1, <<>>, Quota(1, 0)),
            BucketSpec(b1, <<p1, p2>>, Quota(2, 0)),
            BucketSpec(b1, <<>>, Quota(NotInt64, 0))})

\* An administrator sets an override from the start.
OverrideSpecs == ForAll({BucketSpec(b1, <<>>, Quota(1, 2))})

\* No path: the bucket is empty and can be deleted.
PlainSpecs == ForAll({BucketSpec(b1, <<>>, Quota(1, 0))})

PathSpec(b, ps) == [name |-> b, paths |-> ps]

\* A Bucket CR and a Path CR that adds two paths to its bucket.
BucketAndPathSpecs == (k1 :> {BucketSpec(b1, <<>>, Quota(1, 0))})
                      @@ (k2 :> {PathSpec(b1, <<p1, p2>>)})

\* The same with one path, and an override on the bucket.
OverrideAndPathSpecs == (k1 :> {BucketSpec(b1, <<>>, Quota(1, 2))})
                        @@ (k2 :> {PathSpec(b1, <<p1>>)})

=============================================================================
