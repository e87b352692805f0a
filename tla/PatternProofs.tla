---------------------------- MODULE PatternProofs ----------------------------
(***************************************************************************)
(* The patterns of allowedNamespaces, for any alphabet and any patterns:   *)
(* the prefix, suffix and substring tests of GetS3ClientForRessource give  *)
(* what README.md says of the wildcards, no more and no less.              *)
(***************************************************************************)
EXTENDS InstancesAtWork
LOCAL INSTANCE SequencesExt

-----------------------------------------------------------------------------
(* Sequences *)

\* A part of a sequence.
LEMMA Part ==
    ASSUME NEW C, NEW s \in Seq(C), NEW m \in 1..Len(s) + 1, NEW n \in 0..Len(s)
    PROVE  LET part == SubSeq(s, m, n)
           IN  /\ part \in Seq(C)
               /\ Len(part) = IF m <= n THEN n - m + 1 ELSE 0
               /\ \A i \in 1..Len(part) : part[i] = s[m + i - 1]
  OBVIOUS

\* Sequences with the same elements are the same.
LEMMA SameSequence ==
  ASSUME NEW C, NEW s \in Seq(C), NEW t \in Seq(C),
         Len(s) = Len(t), \A i \in 1 .. Len(s) : s[i] = t[i]
  PROVE  s = t
  OBVIOUS

\* One after the other.
LEMMA Joined ==
  ASSUME NEW C, NEW s \in Seq(C), NEW t \in Seq(C)
  PROVE  /\ s \o t \in Seq(C)
         /\ Len(s \o t) = Len(s) + Len(t)
         /\ \A i \in 1 .. Len(s) + Len(t) : (s \o t)[i] =
                     IF i <= Len(s) THEN s[i] ELSE t[i - Len(s)]
  OBVIOUS
-----------------------------------------------------------------------------
(* Stars at the ends *)

\* A star added at an end.
LEMMA StarAfter ==
    ASSUME NEW C, NEW s \in Seq(C), Star \in C
    PROVE  /\ s \o <<Star>> \in Seq(C)
           /\ Len(s \o <<Star>>) = Len(s) + 1
           /\ \A i \in 1..Len(s) : (s \o <<Star>>)[i] = s[i]
           /\ (s \o <<Star>>)[Len(s) + 1] = Star
<1>1. /\ <<Star>> \in Seq(C) /\ Len(<<Star>>) = 1 /\ <<Star>>[1] = Star
      /\ Len(s) \in Nat
  OBVIOUS
<1> DEFINE t == <<Star>>
<1> HIDE DEF t
<1>2. /\ s \o t \in Seq(C)
      /\ Len(s \o t) = Len(s) + 1
      /\ \A i \in 1..Len(s) + 1 : (s \o t)[i] = IF i <= Len(s) THEN s[i] ELSE t[i - Len(s)]
  BY <1>1, Joined DEF t
<1> QED
  BY <1>1, <1>2 DEF t

LEMMA StarBefore ==
    ASSUME NEW C, NEW s \in Seq(C), Star \in C
    PROVE  /\ <<Star>> \o s \in Seq(C)
           /\ Len(<<Star>> \o s) = Len(s) + 1
           /\ \A i \in 2..Len(s) + 1 : (<<Star>> \o s)[i] = s[i - 1]
           /\ (<<Star>> \o s)[1] = Star
<1>1. /\ <<Star>> \in Seq(C) /\ Len(<<Star>>) = 1 /\ <<Star>>[1] = Star
      /\ Len(s) \in Nat
  OBVIOUS
<1> DEFINE t == <<Star>>
<1> HIDE DEF t
<1>2. /\ t \o s \in Seq(C)
      /\ Len(t \o s) = 1 + Len(s)
      /\ \A i \in 1..1 + Len(s) : (t \o s)[i] = IF i <= 1 THEN t[i] ELSE s[i - 1]
  BY <1>1, Joined DEF t
<1> QED
  BY <1>1, <1>2 DEF t

\* Prefixes and suffixes, element by element.
LEMMA PrefixIsPart ==
    ASSUME NEW C, NEW s \in Seq(C), NEW t \in Seq(C), IsPrefix(s, t)
    PROVE  Len(s) <= Len(t) /\ \A i \in 1..Len(s) : s[i] = t[i]
<1>1. Len(s) \in Nat /\ Len(t) \in Nat /\ Len(s) <= Len(t)
  BY DEF IsPrefix
<1>2. /\ \A i \in 1..Len(s) : SubSeq(s, 1, Len(s))[i] = s[i]
      /\ \A i \in 1..Len(s) : SubSeq(t, 1, Len(s))[i] = t[i]
  BY <1>1
<1> QED
  BY <1>1, <1>2 DEF IsPrefix

LEMMA SuffixIsPart ==
    ASSUME NEW C, NEW s \in Seq(C), NEW t \in Seq(C), IsSuffix(s, t)
    PROVE  /\ Len(s) <= Len(t)
           /\ \A i \in 1..Len(s) : s[i] = t[Len(t) - Len(s) + i]
<1>1. /\ Reverse(s) \in Seq(C) /\ Len(Reverse(s)) = Len(s)
      /\ Reverse(t) \in Seq(C) /\ Len(Reverse(t)) = Len(t)
      /\ Len(s) \in Nat /\ Len(t) \in Nat
  BY DEF Reverse
<1>2. Len(s) <= Len(t) /\ \A i \in 1..Len(s) : Reverse(s)[i] = Reverse(t)[i]
  BY <1>1, PrefixIsPart DEF IsSuffix
<1>3. ASSUME NEW i \in 1..Len(s) PROVE s[i] = t[Len(t) - Len(s) + i]
  <2> DEFINE j == Len(s) - i + 1
  <2>1. j \in 1..Len(s) /\ j \in 1..Len(t)
    BY <1>1, <1>2
  <2>2. Reverse(s)[j] = s[Len(s) - j + 1] /\ Reverse(t)[j] = t[Len(t) - j + 1]
    BY <2>1 DEF Reverse
  <2>3. Len(s) - j + 1 = i /\ Len(t) - j + 1 = Len(t) - Len(s) + i
    BY <1>1
  <2> QED
    BY <1>2, <2>1, <2>2, <2>3
<1> QED
  BY <1>2, <1>3

\* What is left of a pattern without the star at an end.
LEMMA Trimmed ==
    ASSUME NEW p \in Seq(Characters)
    PROVE  /\ Leads(p) => /\ Len(p) > 0 /\ p[1] = Star /\ Star \in Characters
                          /\ Tail(p) \in Seq(Characters) /\ Len(Tail(p)) = Len(p) - 1
                          /\ \A i \in 1..Len(p) - 1 : Tail(p)[i] = p[i + 1]
           /\ Trails(p) => /\ Len(p) > 0 /\ p[Len(p)] = Star /\ Star \in Characters
                           /\ Front(p) \in Seq(Characters) /\ Len(Front(p)) = Len(p) - 1
                           /\ \A i \in 1..Len(p) - 1 : Front(p)[i] = p[i]
<1>1. p # <<>> => Len(p) \in Nat \ {0}
  OBVIOUS
<1>2. ASSUME Leads(p)
      PROVE  /\ Len(p) > 0 /\ p[1] = Star /\ Star \in Characters
             /\ Tail(p) \in Seq(Characters) /\ Len(Tail(p)) = Len(p) - 1
             /\ \A i \in 1..Len(p) - 1 : Tail(p)[i] = p[i + 1]
  BY <1>1, <1>2 DEF Leads
<1>3. ASSUME Trails(p)
      PROVE  /\ Len(p) > 0 /\ p[Len(p)] = Star /\ Star \in Characters
             /\ Front(p) \in Seq(Characters) /\ Len(Front(p)) = Len(p) - 1
             /\ \A i \in 1..Len(p) - 1 : Front(p)[i] = p[i]
  <2>1. Len(p) \in Nat \ {0} /\ p[Len(p)] = Star /\ p[Len(p)] \in Characters
    BY <1>1, <1>3 DEF Trails, Last
  <2>2. 1 \in 1..Len(p) + 1 /\ Len(p) - 1 \in 0..Len(p)
    BY <2>1
  <2>3. /\ Front(p) \in Seq(Characters)
        /\ Len(Front(p)) = IF 1 <= Len(p) - 1 THEN (Len(p) - 1) - 1 + 1 ELSE 0
        /\ \A i \in 1..Len(Front(p)) : Front(p)[i] = p[1 + i - 1]
    BY <2>2, Part DEF Front
  <2> DEFINE len == Len(Front(p))
  <2> HIDE DEF len
  <2>4. len = Len(p) - 1
    <3>1. len = IF 1 <= Len(p) - 1 THEN (Len(p) - 1) - 1 + 1 ELSE 0
      BY <2>3 DEF len
    <3> DEFINE n == Len(p)
    <3>2. n \in Nat /\ n # 0
      BY <2>1
    <3> HIDE DEF n
    <3>3. len = IF 1 <= n - 1 THEN (n - 1) - 1 + 1 ELSE 0
      BY <3>1 DEF n
    <3>4. len = n - 1
      BY <3>2, <3>3
    <3> QED
      BY <3>4 DEF n
  <2>5. \A i \in 1..Len(p) - 1 : Front(p)[i] = p[i]
    BY <2>1, <2>3, <2>4 DEF len
  <2> QED
    BY <2>1, <2>3, <2>4, <2>5 DEF len
<1> QED
  BY <1>2, <1>3

\* The two trims of GetS3ClientForRessource undo nothing but stars: a pattern that
\* the code takes for one of ns gives ns when its stars are filled in.
LEMMA AllowsMatches ==
    ASSUME NEW p \in Seq(Characters), NEW ns \in Seq(Characters), Allows(p, ns)
    PROVE  Matches(p, ns)
<1>1. Len(p) \in Nat /\ Len(ns) \in Nat
  OBVIOUS
<1>2. CASE ns = p
  <2>1. 0 + 1 \in 1..Len(ns) + 1 /\ 0 \in 0..Len(ns) /\ Len(ns) \in 0..Len(ns)
    BY <1>1
  <2> DEFINE literal == SubSeq(ns, 0 + 1, Len(ns))
  <2>2. /\ literal \in Seq(Characters) /\ Len(literal) = Len(ns)
        /\ \A i \in 1..Len(ns) : literal[i] = ns[i]
    BY <1>1, <2>1, Part
  <2> HIDE DEF literal
  <2>3. ns = literal
    BY <2>2, SameSequence
  <2> QED
    <3>1. p = SubSeq(ns, 0 + 1, Len(ns))
      BY <1>2, <2>3 DEF literal
    <3> QED
      BY <2>1, <3>1 DEF Matches
<1>3. CASE Trails(p) /\ IsPrefix(TrimSuffix(p), ns)
  <2> DEFINE q == Front(p)  n == Len(p) - 1  literal == SubSeq(ns, 0 + 1, n)
  <2>1. /\ Len(p) > 0 /\ p[Len(p)] = Star /\ Star \in Characters
        /\ q \in Seq(Characters) /\ Len(q) = n
        /\ \A i \in 1..n : q[i] = p[i]
    BY <1>3, Trimmed
  <2>2. n <= Len(ns) /\ \A i \in 1..n : q[i] = ns[i]
    BY <1>3, <2>1, PrefixIsPart DEF TrimSuffix
  <2>3. n \in 0..Len(ns) /\ 0 \in 0..Len(ns) /\ n = Len(p) - 1
    BY <1>1, <2>1, <2>2
  <2> HIDE DEF q, n
  <2>4. /\ literal \in Seq(Characters) /\ Len(literal) = n
        /\ \A i \in 1..n : literal[i] = ns[i]
    BY <1>1, <2>3, Part
  <2> HIDE DEF literal
  <2>5. /\ literal \o <<Star>> \in Seq(Characters)
        /\ Len(literal \o <<Star>>) = n + 1
        /\ \A i \in 1..n : (literal \o <<Star>>)[i] = literal[i]
        /\ (literal \o <<Star>>)[n + 1] = Star
    BY <2>1, <2>4, StarAfter
  <2> DEFINE filled == literal \o <<Star>>
  <2> HIDE DEF filled
  <2>6. ASSUME NEW i \in 1..Len(p) PROVE p[i] = filled[i]
    <3>1. CASE i = Len(p)
      BY <1>1, <2>1, <2>3, <2>5, <3>1 DEF filled
    <3>2. CASE i # Len(p)
      <4>1. i \in 1..n
        BY <1>1, <2>3, <3>2
      <4> QED
        BY <2>1, <2>2, <2>4, <2>5, <4>1 DEF filled
    <3> QED
      BY <3>1, <3>2
  <2>7. p = filled
    <3>1. filled \in Seq(Characters) /\ Len(filled) = Len(p)
      BY <1>1, <2>3, <2>5 DEF filled
    <3> QED
      BY <2>6, <3>1, SameSequence
  <2> QED
    BY <2>3, <2>7 DEF filled, Matches, literal
<1>4. CASE Leads(p) /\ IsSuffix(TrimPrefix(p), ns)
  <2> DEFINE q == Tail(p)  m == Len(ns) - Len(p) + 1  literal == SubSeq(ns, m + 1, Len(ns))
  <2>1. /\ Len(p) > 0 /\ p[1] = Star /\ Star \in Characters
        /\ q \in Seq(Characters) /\ Len(q) = Len(p) - 1
        /\ \A i \in 1..Len(p) - 1 : q[i] = p[i + 1]
    BY <1>4, Trimmed
  <2>2. Len(p) - 1 <= Len(ns) /\ \A i \in 1..Len(p) - 1 : q[i] = ns[m + i]
    <3>1. IsSuffix(q, ns)
      BY <1>4 DEF TrimPrefix
    <3>2. Len(q) <= Len(ns) /\ \A i \in 1..Len(q) : q[i] = ns[Len(ns) - Len(q) + i]
      BY <2>1, <3>1, SuffixIsPart
    <3>3. Len(ns) - Len(q) = m
      BY <1>1, <2>1
    <3> QED
      BY <2>1, <3>2, <3>3
  <2>3. m \in 0..Len(ns) /\ Len(ns) \in 0..Len(ns) /\ m = Len(ns) - Len(p) + 1
    BY <1>1, <2>1, <2>2
  <2> HIDE DEF q, m
  <2>4. /\ literal \in Seq(Characters) /\ Len(literal) = Len(p) - 1
        /\ \A i \in 1..Len(p) - 1 : literal[i] = ns[m + i]
    BY <1>1, <2>1, <2>3, Part
  <2> HIDE DEF literal
  <2>5. /\ <<Star>> \o literal \in Seq(Characters)
        /\ Len(<<Star>> \o literal) = Len(p)
        /\ \A i \in 2..Len(p) : (<<Star>> \o literal)[i] = literal[i - 1]
        /\ (<<Star>> \o literal)[1] = Star
    <3>1. Len(literal) + 1 = Len(p)
      BY <1>1, <2>1, <2>4
    <3> QED
      BY <2>1, <2>4, <3>1, StarBefore
  <2>6. ASSUME NEW i \in 1..Len(p) PROVE p[i] = (<<Star>> \o literal)[i]
    <3>1. CASE i = 1
      BY <2>1, <2>5, <3>1
    <3>2. CASE i # 1
      <4>1. i - 1 \in 1..Len(p) - 1 /\ i \in 2..Len(p) /\ (i - 1) + 1 = i
        BY <1>1, <3>2
      <4>2. p[i] = q[i - 1] /\ q[i - 1] = ns[m + (i - 1)] /\ literal[i - 1] = ns[m + (i - 1)]
        BY <2>1, <2>2, <2>4, <4>1
      <4> QED
        BY <2>5, <4>1, <4>2
    <3> QED
      BY <3>1, <3>2
  <2>7. p = <<Star>> \o literal
    BY <1>1, <2>5, <2>6, SameSequence
  <2> QED
    BY <2>3, <2>7 DEF Matches, literal
<1>5. CASE Leads(p) /\ Trails(p) /\ Infix(TrimSuffix(TrimPrefix(p)), ns)
  <2>1. /\ Len(p) > 0 /\ p[1] = Star /\ Star \in Characters /\ p[Len(p)] = Star
        /\ Tail(p) \in Seq(Characters) /\ Len(Tail(p)) = Len(p) - 1
        /\ \A i \in 1..Len(p) - 1 : Tail(p)[i] = p[i + 1]
    BY <1>5, Trimmed
  <2>2. CASE Len(p) = 1
    <3>1. /\ SubSeq(ns, 0 + 1, 0) \in Seq(Characters)
          /\ Len(SubSeq(ns, 0 + 1, 0)) = 0
      BY <1>1, Part
    <3> DEFINE literal == SubSeq(ns, 0 + 1, 0)
    <3> HIDE DEF literal
    <3>2. /\ literal \o <<Star>> \in Seq(Characters)
          /\ Len(literal \o <<Star>>) = 1 /\ (literal \o <<Star>>)[1] = Star
      BY <2>1, <3>1 DEF literal
    <3>3. p = literal \o <<Star>>
      BY <2>1, <2>2, <3>2, SameSequence
    <3> QED
      BY <1>1, <3>3 DEF Matches, literal
  <2>3. CASE Len(p) # 1
    <3> DEFINE q == Front(Tail(p))
    <3>1. Trails(Tail(p)) /\ TrimSuffix(TrimPrefix(p)) = q
      <4>1. Len(Tail(p)) \in 1..Len(p) - 1 /\ Len(Tail(p)) + 1 = Len(p)
        BY <1>1, <2>1, <2>3
      <4>2. Tail(p) # <<>>
        <5> DEFINE t == Tail(p)
        <5>1. t \in Seq(Characters) /\ Len(t) \in 1..Len(p) - 1
          BY <2>1, <4>1
        <5> HIDE DEF t
        <5>2. t # <<>>
          BY <5>1
        <5> QED
          BY <5>2 DEF t
      <4>3. Tail(p)[Len(Tail(p))] = Star
        <5> DEFINE t == Tail(p)  l == Len(t)
        <5>1. \A i \in 1..Len(p) - 1 : t[i] = p[i + 1]
          BY <2>1
        <5>2. l \in 1..Len(p) - 1 /\ p[l + 1] = Star
          BY <2>1, <4>1
        <5> HIDE DEF t, l
        <5>3. t[l] = Star
          BY <5>1, <5>2
        <5> QED
          BY <5>3 DEF t, l
      <4> QED
        BY <1>5, <4>2, <4>3 DEF Trails, Last, TrimPrefix, TrimSuffix
    <3>2. /\ q \in Seq(Characters) /\ Len(q) = Len(p) - 2
          /\ \A i \in 1..Len(p) - 2 : q[i] = Tail(p)[i]
      <4>1. Len(Tail(p)) - 1 = Len(p) - 2
        BY <1>1, <2>1
      <4> QED
        BY <2>1, <3>1, <4>1, Trimmed
    <3>3. \A i \in 1..Len(p) - 2 : q[i] = p[i + 1]
      BY <1>1, <2>1, <3>2
    <3> HIDE DEF q
    <3>4. PICK u \in Suffixes(ns) : IsPrefix(q, u)
      BY <1>5, <3>1 DEF Infix
    <3>5. PICK m \in 0..Len(ns) : /\ m + Len(q) <= Len(ns)
                                  /\ \A i \in 1..Len(q) : q[i] = ns[m + i]
      <4>1. CASE u = <<>>
        <5>1. u \in Seq(Characters) /\ Len(u) = 0
          BY <4>1
        <5>2. Len(q) <= 0
          BY <3>2, <3>4, <5>1, PrefixIsPart
        <5> QED
          BY <1>1, <3>2, <5>2
      <4>2. ASSUME NEW l \in 1..Len(ns), u = SubSeq(ns, l, Len(ns))
            PROVE  \E m \in 0..Len(ns) : /\ m + Len(q) <= Len(ns)
                                         /\ \A i \in 1..Len(q) : q[i] = ns[m + i]
        <5>1. /\ u \in Seq(Characters) /\ Len(u) = Len(ns) - l + 1
              /\ \A i \in 1..Len(u) : u[i] = ns[l + i - 1]
          BY <1>1, <4>2, Part
        <5>2. Len(q) <= Len(u) /\ \A i \in 1..Len(q) : q[i] = u[i]
          BY <3>2, <3>4, <5>1, PrefixIsPart
        <5>3. ASSUME NEW i \in 1..Len(q) PROVE q[i] = ns[(l - 1) + i]
          <6>1. i \in 1..Len(u) /\ l + i - 1 = (l - 1) + i
            BY <1>1, <3>2, <5>1, <5>2
          <6> QED
            BY <5>1, <5>2, <6>1
        <5>4. l - 1 \in 0..Len(ns) /\ (l - 1) + Len(q) <= Len(ns)
          BY <1>1, <3>2, <5>1, <5>2
        <5> QED
          BY <5>3, <5>4
      <4> QED
        BY <3>4, <4>1, <4>2 DEF Suffixes
    <3> DEFINE n == m + Len(q)  literal == SubSeq(ns, m + 1, n)
    <3>6. n \in 0..Len(ns) /\ n = m + Len(q) /\ Len(q) \in Nat
      BY <1>1, <3>2, <3>5
    <3> HIDE DEF n
    <3>7. /\ literal \in Seq(Characters) /\ Len(literal) = Len(p) - 2
          /\ \A i \in 1..Len(p) - 2 : literal[i] = ns[m + i]
      BY <1>1, <3>2, <3>5, <3>6, Part
    <3> HIDE DEF literal
    <3> DEFINE filled == <<Star>> \o literal \o <<Star>>
    <3>8. /\ filled \in Seq(Characters) /\ Len(filled) = Len(p)
          /\ filled[1] = Star /\ filled[Len(p)] = Star
          /\ \A i \in 2..Len(p) - 1 : filled[i] = literal[i - 1]
      <4> DEFINE head == <<Star>> \o literal
      <4>1. /\ head \in Seq(Characters) /\ Len(head) = Len(literal) + 1 /\ head[1] = Star
            /\ \A i \in 2..Len(literal) + 1 : head[i] = literal[i - 1]
        BY <2>1, <3>7, StarBefore
      <4> HIDE DEF head
      <4>2. Len(head) = Len(p) - 1 /\ Len(literal) + 1 = Len(p) - 1
        BY <1>1, <3>7, <4>1
      <4>3. /\ head \o <<Star>> \in Seq(Characters)
            /\ Len(head \o <<Star>>) = Len(head) + 1
            /\ \A i \in 1..Len(head) : (head \o <<Star>>)[i] = head[i]
            /\ (head \o <<Star>>)[Len(head) + 1] = Star
        BY <2>1, <4>1, StarAfter
      <4>4. filled = head \o <<Star>>
        BY DEF head
      <4> HIDE DEF filled
      <4>5. Len(filled) = Len(p) /\ filled[Len(p)] = Star
        BY <1>1, <4>2, <4>3, <4>4
      <4>6. \A i \in 1..Len(p) - 1 : filled[i] = head[i]
        BY <4>2, <4>3, <4>4
      <4>7. 1 \in 1..Len(p) - 1
        BY <1>1, <2>1, <2>3
      <4>8. \A i \in 2..Len(p) - 1 : filled[i] = literal[i - 1]
        BY <1>1, <4>1, <4>2, <4>6
      <4> QED
        BY <4>1, <4>3, <4>4, <4>5, <4>6, <4>7, <4>8
    <3> HIDE DEF filled
    <3>9. ASSUME NEW i \in 1..Len(p) PROVE p[i] = filled[i]
      <4>1. CASE i = 1 \/ i = Len(p)
        BY <2>1, <3>8, <4>1
      <4>2. CASE i # 1 /\ i # Len(p)
        <5>1. i - 1 \in 1..Len(p) - 2 /\ i \in 2..Len(p) - 1 /\ (i - 1) + 1 = i
          BY <1>1, <4>2
        <5>2. /\ p[i] = q[i - 1] /\ q[i - 1] = ns[m + (i - 1)]
              /\ literal[i - 1] = ns[m + (i - 1)]
          BY <3>2, <3>3, <3>5, <3>7, <5>1
        <5> QED
          BY <3>8, <5>1, <5>2
      <4> QED
        BY <4>1, <4>2
    <3>10. p = filled
      BY <1>1, <3>8, <3>9, SameSequence
    <3> QED
      BY <3>5, <3>6, <3>10 DEF Matches, literal, filled
  <2> QED
    BY <2>2, <2>3
<1> QED
  BY <1>2, <1>3, <1>4, <1>5 DEF Allows

LEMMA PartIsPrefix ==
    ASSUME NEW C, NEW s \in Seq(C), NEW t \in Seq(C),
           Len(s) <= Len(t), \A i \in 1..Len(s) : s[i] = t[i]
    PROVE  IsPrefix(s, t)
<1> DEFINE u == SubSeq(s, 1, Len(s))  v == SubSeq(t, 1, Len(s))
<1>1. Len(s) \in Nat /\ Len(t) \in Nat
  OBVIOUS
<1>2. /\ u \in Seq(C) /\ Len(u) = Len(s) /\ \A i \in 1..Len(u) : u[i] = s[i]
      /\ v \in Seq(C) /\ Len(v) = Len(s) /\ \A i \in 1..Len(v) : v[i] = t[i]
  BY <1>1
<1> HIDE DEF u, v
<1>3. u = v
  BY <1>2, SameSequence
<1> QED
  BY <1>3 DEF IsPrefix, u, v

LEMMA PartIsSuffix ==
    ASSUME NEW C, NEW s \in Seq(C), NEW t \in Seq(C),
           Len(s) <= Len(t), \A i \in 1..Len(s) : s[i] = t[Len(t) - Len(s) + i]
    PROVE  IsSuffix(s, t)
<1>1. /\ Reverse(s) \in Seq(C) /\ Len(Reverse(s)) = Len(s)
      /\ Reverse(t) \in Seq(C) /\ Len(Reverse(t)) = Len(t)
      /\ Len(s) \in Nat /\ Len(t) \in Nat
  BY DEF Reverse
<1>2. ASSUME NEW j \in 1..Len(s) PROVE Reverse(s)[j] = Reverse(t)[j]
  <2> DEFINE i == Len(s) - j + 1
  <2>1. i \in 1..Len(s) /\ j \in 1..Len(t) /\ Len(t) - Len(s) + i = Len(t) - j + 1
    BY <1>1
  <2>2. Reverse(s)[j] = s[i] /\ Reverse(t)[j] = t[Len(t) - j + 1]
    BY <2>1 DEF Reverse
  <2> HIDE DEF i
  <2> QED
    BY <2>1, <2>2
<1>3. IsPrefix(Reverse(s), Reverse(t))
  <2> DEFINE u == Reverse(s)  v == Reverse(t)
  <2>1. /\ u \in Seq(C) /\ v \in Seq(C) /\ Len(u) <= Len(v)
        /\ \A j \in 1..Len(u) : u[j] = v[j]
    BY <1>1, <1>2
  <2> HIDE DEF u, v
  <2>2. IsPrefix(u, v)
    BY <2>1, PartIsPrefix
  <2> QED
    BY <2>2 DEF u, v
<1> QED
  BY <1>3 DEF IsSuffix

\* A pattern with a star at an end: the star is found, and the rest left.
LEMMA StarAtEnd ==
    ASSUME NEW C, NEW s \in Seq(C), Star \in C
    PROVE  Trails(s \o <<Star>>) /\ Front(s \o <<Star>>) = s
<1> DEFINE p == s \o <<Star>>
<1>1. /\ p \in Seq(C) /\ Len(p) = Len(s) + 1 /\ Len(s) \in Nat
      /\ \A i \in 1..Len(s) : p[i] = s[i]
      /\ p[Len(s) + 1] = Star
  BY StarAfter
<1> HIDE DEF p
<1>2. p # <<>> /\ p[Len(p)] = Star
  BY <1>1
<1>3. Front(p) = s
  <2> DEFINE u == SubSeq(p, 1, Len(s))
  <2>1. u \in Seq(C) /\ Len(u) = Len(s) /\ \A i \in 1..Len(u) : u[i] = p[i]
    BY <1>1
  <2>2. Front(p) = u
    <3>1. Len(p) - 1 = Len(s)
      BY <1>1
    <3> QED
      BY <3>1 DEF Front
  <2> HIDE DEF u
  <2>3. u = s
    BY <1>1, <2>1, SameSequence
  <2> QED
    BY <2>2, <2>3
<1> QED
  BY <1>2, <1>3 DEF Trails, Last, p

LEMMA StarAtStart ==
    ASSUME NEW C, NEW s \in Seq(C), Star \in C
    PROVE  Leads(<<Star>> \o s) /\ Tail(<<Star>> \o s) = s
<1> DEFINE p == <<Star>> \o s
<1>1. /\ p \in Seq(C) /\ Len(p) = Len(s) + 1 /\ Len(s) \in Nat
      /\ \A i \in 2..Len(s) + 1 : p[i] = s[i - 1]
      /\ p[1] = Star
  BY StarBefore
<1> HIDE DEF p
<1>2. p # <<>> /\ Head(p) = Star
  BY <1>1
<1>3. Tail(p) = s
  <2> DEFINE u == Tail(p)
  <2>1. u \in Seq(C) /\ Len(u) = Len(s) /\ \A i \in 1..Len(u) : u[i] = p[i + 1]
    BY <1>1, <1>2
  <2> HIDE DEF u
  <2>2. ASSUME NEW i \in 1..Len(u) PROVE u[i] = s[i]
    <3>1. i + 1 \in 2..Len(s) + 1 /\ (i + 1) - 1 = i
      BY <1>1, <2>1
    <3> QED
      BY <1>1, <2>1, <3>1
  <2>3. u = s
    BY <2>1, <2>2, SameSequence
  <2> QED
    BY <2>3 DEF u
<1> QED
  BY <1>2, <1>3 DEF Leads, p

\* And the other way round.
LEMMA MatchesAllows ==
    ASSUME NEW p \in Seq(Characters), NEW ns \in Seq(Characters), Matches(p, ns)
    PROVE  Allows(p, ns)
<1> DEFINE C == Characters \cup {Star}
<1>1. /\ p \in Seq(C) /\ ns \in Seq(C) /\ Star \in C /\ Len(ns) \in Nat
  <2>1. Characters \subseteq C
    OBVIOUS
  <2> HIDE DEF C
  <2>2. p \in Seq(C) /\ ns \in Seq(C)
    BY <2>1
  <2> QED
    BY <2>2 DEF C
<1> HIDE DEF C
<1>2. PICK m \in 0..Len(ns), n \in 0..Len(ns) :
        LET literal == SubSeq(ns, m + 1, n)
        IN  \/ m = 0 /\ n = Len(ns) /\ p = literal
            \/ m = 0 /\ p = literal \o <<Star>>
            \/ n = Len(ns) /\ p = <<Star>> \o literal
            \/ p = <<Star>> \o literal \o <<Star>>
  BY DEF Matches
<1> DEFINE q == SubSeq(ns, m + 1, n)
<1>3. /\ q \in Seq(C)
      /\ Len(q) = IF m + 1 <= n THEN n - m ELSE 0
      /\ \A i \in 1..Len(q) : q[i] = ns[m + i]
  BY <1>1, Part
<1>4. \/ m = 0 /\ n = Len(ns) /\ p = q
      \/ m = 0 /\ p = q \o <<Star>>
      \/ n = Len(ns) /\ p = <<Star>> \o q
      \/ p = <<Star>> \o q \o <<Star>>
  BY <1>2
<1> HIDE DEF q
<1>5. Len(q) \in Nat /\ m + Len(q) <= Len(ns)
  BY <1>1, <1>3
<1>6. CASE m = 0 /\ n = Len(ns) /\ p = q
  <2>1. Len(q) = Len(ns) /\ \A i \in 1..Len(q) : q[i] = ns[i]
    BY <1>1, <1>3, <1>6
  <2>2. q = ns
    BY <1>1, <1>3, <2>1, SameSequence
  <2> QED
    BY <1>6, <2>2 DEF Allows
<1>7. CASE m = 0 /\ p = q \o <<Star>>
  <2>1. Trails(p) /\ Front(p) = q
    BY <1>1, <1>3, <1>7, StarAtEnd
  <2>2. \A i \in 1..Len(q) : q[i] = ns[i]
    BY <1>3, <1>5, <1>7
  <2>3. IsPrefix(q, ns)
    BY <1>1, <1>3, <1>5, <1>7, <2>2, PartIsPrefix
  <2> QED
    BY <2>1, <2>3 DEF Allows, TrimSuffix
<1>8. CASE n = Len(ns) /\ p = <<Star>> \o q
  <2>1. Leads(p) /\ Tail(p) = q
    BY <1>1, <1>3, <1>8, StarAtStart
  <2>2. Len(ns) - Len(q) = m
    BY <1>1, <1>3, <1>8
  <2>3. ASSUME NEW i \in 1..Len(q) PROVE q[i] = ns[Len(ns) - Len(q) + i]
    BY <1>3, <2>2
  <2>4. IsSuffix(q, ns)
    <3>1. Len(q) <= Len(ns)
      BY <1>1, <1>5
    <3> QED
      BY <1>1, <1>3, <2>3, <3>1, PartIsSuffix
  <2> QED
    BY <2>1, <2>4 DEF Allows, TrimPrefix
<1>9. CASE p = <<Star>> \o q \o <<Star>>
  <2> DEFINE head == <<Star>> \o q  tail == q \o <<Star>>
  <2>1. head \in Seq(C) /\ tail \in Seq(C)
    BY <1>1, <1>3, StarBefore, StarAfter
  <2>2. p = head \o <<Star>>
    BY <1>9
  <2>3. p = <<Star>> \o tail
    <3>1. /\ p \in Seq(C) /\ Len(p) = Len(head) + 1
          /\ \A i \in 1..Len(head) : p[i] = head[i]
          /\ p[Len(head) + 1] = Star
      <4> HIDE DEF head
      <4> QED
        BY <1>1, <2>1, <2>2, StarAfter
    <3>2. /\ Len(head) = Len(q) + 1 /\ head[1] = Star
          /\ \A i \in 2..Len(q) + 1 : head[i] = q[i - 1]
      BY <1>1, <1>3, StarBefore
    <3>3. /\ Len(tail) = Len(q) + 1 /\ tail[Len(q) + 1] = Star
          /\ \A i \in 1..Len(q) : tail[i] = q[i]
      BY <1>1, <1>3, StarAfter
    <3> HIDE DEF head, tail
    <3> DEFINE w == <<Star>> \o tail
    <3>4. /\ w \in Seq(C) /\ Len(w) = Len(tail) + 1 /\ w[1] = Star
          /\ \A i \in 2..Len(tail) + 1 : w[i] = tail[i - 1]
      BY <1>1, <2>1, StarBefore
    <3> HIDE DEF w
    <3>5. Len(p) = Len(q) + 2 /\ Len(w) = Len(q) + 2
      BY <1>5, <3>1, <3>2, <3>3, <3>4
    <3>6. ASSUME NEW i \in 1..Len(p) PROVE p[i] = w[i]
      <4>1. CASE i = 1
        BY <1>5, <3>1, <3>2, <3>4, <4>1
      <4>2. CASE i = Len(q) + 2
        <5>1. p[i] = Star
          BY <1>5, <3>1, <3>2, <4>2
        <5>2. i \in 2..Len(tail) + 1 /\ i - 1 = Len(q) + 1
          BY <1>5, <3>3, <4>2
        <5> QED
          BY <3>3, <3>4, <5>1, <5>2
      <4>3. CASE i # 1 /\ i # Len(q) + 2
        <5>1. /\ i \in 1..Len(head) /\ i \in 2..Len(q) + 1
              /\ i \in 2..Len(tail) + 1 /\ i - 1 \in 1..Len(q)
          BY <1>5, <3>2, <3>3, <3>5, <4>3
        <5>2. p[i] = q[i - 1] /\ w[i] = q[i - 1]
          BY <3>1, <3>2, <3>3, <3>4, <5>1
        <5> QED
          BY <5>2
      <4> QED
        BY <4>1, <4>2, <4>3
    <3>7. p = w
      BY <1>1, <3>4, <3>5, <3>6, SameSequence
    <3> QED
      BY <3>7 DEF w
  <2>4. Trails(p)
    <3> HIDE DEF head, tail
    <3> QED
      BY <1>1, <2>1, <2>2, StarAtEnd
  <2>5. Leads(p) /\ Tail(p) = tail
    <3> HIDE DEF head, tail
    <3> QED
      BY <1>1, <2>1, <2>3, StarAtStart
  <2>6. TrimSuffix(TrimPrefix(p)) = q
    <3>1. Trails(tail) /\ Front(tail) = q
      BY <1>1, <1>3, StarAtEnd
    <3> HIDE DEF head, tail
    <3> QED
      BY <2>5, <3>1 DEF TrimPrefix, TrimSuffix
  <2>7. Infix(q, ns)
    <3>1. CASE m = Len(ns)
      <4>1. Len(q) = 0
        BY <1>1, <1>3, <3>1
      <4> DEFINE e == <<>>
      <4>2. e \in Seq(C) /\ Len(e) = 0 /\ e \in Suffixes(ns)
        BY DEF Suffixes
      <4> HIDE DEF e
      <4>3. Len(q) <= Len(e) /\ \A i \in 1..Len(q) : q[i] = e[i]
        BY <4>1, <4>2
      <4>4. IsPrefix(q, e)
        BY <1>3, <4>2, <4>3, PartIsPrefix
      <4> QED
        BY <4>2, <4>4 DEF Infix
    <3>2. CASE m # Len(ns)
      <4> DEFINE u == SubSeq(ns, m + 1, Len(ns))
      <4>1. m + 1 \in 1..Len(ns)
        BY <1>1, <3>2
      <4>2. u \in Suffixes(ns)
        BY <4>1 DEF Suffixes
      <4>3. /\ u \in Seq(C) /\ Len(u) = Len(ns) - m
            /\ \A i \in 1..Len(u) : u[i] = ns[m + i]
        BY <1>1, <4>1, Part
      <4> HIDE DEF u
      <4>4. Len(q) <= Len(u) /\ \A i \in 1..Len(q) : q[i] = u[i]
        BY <1>1, <1>3, <1>5, <4>3
      <4>5. IsPrefix(q, u)
        BY <1>3, <4>3, <4>4, PartIsPrefix
      <4> QED
        BY <4>2, <4>5 DEF Infix
    <3> QED
      BY <3>1, <3>2
  <2> HIDE DEF head, tail
  <2> QED
    BY <2>4, <2>5, <2>6, <2>7 DEF Allows
<1> QED
  BY <1>4, <1>6, <1>7, <1>8, <1>9

\* Whatever stands in allowedNamespaces, an S3Instance is open to a namespace for
\* the operator exactly when the documentation says it is.
THEOREM NamespacesAllowedAsDocumented ==
    \A i \in InstanceKeys, ns \in Namespaces : \A o :
      o.spec \in InstanceSpecs => (IsAllowedNamespaces(ns, i, o) <=> Open(i, o, ns))
<1> SUFFICES ASSUME NEW i \in InstanceKeys, NEW ns \in Namespaces, NEW o,
                    o.spec \in InstanceSpecs
             PROVE  IsAllowedNamespaces(ns, i, o) <=> Open(i, o, ns)
  OBVIOUS
<1> DEFINE allowed == o.spec.allowed
<1>1. allowed \in Seq(Patterns)
  BY DEF InstanceSpecs
<1>2. ns \in Seq(Characters)
  BY InstanceConstants
<1>3. \A n \in DOMAIN allowed : allowed[n] \in Seq(Characters)
  <2> HIDE DEF allowed
  <2>1. \A n \in DOMAIN allowed : allowed[n] \in Patterns
    BY <1>1
  <2> QED
    BY <2>1, InstanceConstants
<1>4. \A n \in DOMAIN allowed : Allows(allowed[n], ns) <=> Matches(allowed[n], ns)
  <2> HIDE DEF allowed
  <2> QED
    BY <1>2, <1>3, AllowsMatches, MatchesAllows
<1> QED
  BY <1>4 DEF IsAllowedNamespaces, Open

=============================================================================
