--------------------------- MODULE ValidatorProofs ---------------------------
(***************************************************************************)
(* Theorems about Validator, for any keys, any expectations of any depth,  *)
(* any documents received and any filters: the issues of a validation are  *)
(* the wrong positions, each once, and the verdict is theirs.              *)
(*                                                                         *)
(* Both what is at a path of a document and the order of an object's       *)
(* members are recursive functions.  That they are what their equations    *)
(* say is shown by induction, with the set of the numbers for which a      *)
(* claim holds in the place of a predicate.                                *)
(***************************************************************************)
EXTENDS Validator, TLAPS, WellFoundedInduction, SequenceTheorems

-----------------------------------------------------------------------------
\* Induction over the natural numbers, for a set.

LEMMA Induction ==
    ASSUME NEW T, 0 \in T, \A n \in Nat : n \in T => n + 1 \in T
    PROVE  Nat \subseteq T
<1> SUFFICES ASSUME Nat \ T # {} PROVE FALSE  OBVIOUS
<1> DEFINE R == OpToRel(<, Nat)
<1>1. IsWellFoundedOn(R, Nat)  BY NatLessThanWellFounded
<1>2. \A m, n \in Nat : m < n => <<m, n>> \in R  BY DEF OpToRel
<1> HIDE DEF R
<1>3. PICK m \in Nat \ T : \A n \in Nat \ T : ~(<<n, m>> \in R)  BY <1>1, WFMin
<1>4. m # 0 /\ m - 1 \in Nat /\ m - 1 < m  BY <1>3
<1>5. m - 1 \in T  BY <1>2, <1>3, <1>4
<1> QED  BY <1>4, <1>5

Walk(doc, path, n, g) == g = [m \in 0 .. n |-> IF m = 0 THEN doc ELSE Member(g[m - 1], path[m])]

\* The walk along a path, down to its n-th key, as a function of the number of keys.
LEMMA WalkExists ==
    ASSUME NEW doc, NEW path, NEW len \in Nat
    PROVE  \E g : Walk(doc, path, len, g)
<1> DEFINE T == {n \in Nat : \E g : Walk(doc, path, n, g)}
<1>1. 0 \in T
  <2>1. Walk(doc, path, 0, [m \in 0 .. 0 |-> doc])  BY DEF Walk
  <2> QED  BY <2>1
<1>2. ASSUME NEW n \in Nat, n \in T  PROVE n + 1 \in T
  <2>1. PICK g : Walk(doc, path, n, g)  BY <1>2
  <2> DEFINE h == [m \in 0 .. n + 1 |-> IF m = n + 1 THEN Member(g[n], path[n + 1]) ELSE g[m]]
  <2>2. \A m \in 0 .. n : g[m] = IF m = 0 THEN doc ELSE Member(g[m - 1], path[m])
    BY <2>1 DEF Walk
  <2>3. \A m \in 0 .. n + 1 : h[m] = IF m = 0 THEN doc ELSE Member(h[m - 1], path[m])
    <3>1. h[n + 1] = Member(h[n], path[n + 1]) /\ n + 1 # 0 OBVIOUS
    <3>2. ASSUME NEW m \in 0 .. n PROVE h[m] = IF m = 0 THEN doc ELSE Member(h[m - 1], path[m])
      BY <2>2
    <3> QED BY <3>1, <3>2
  <2>4. Walk(doc, path, n + 1, h)
    <3> DEFINE k == [m \in 0 .. n + 1 |-> IF m = 0 THEN doc ELSE Member(h[m - 1], path[m])]
    <3>1. h = k  BY <2>3
    <3> QED  BY <3>1 DEF Walk
  <2> QED  BY <2>4
<1> HIDE DEF T
<1>3. Nat \subseteq T  BY <1>1, <1>2, Induction
<1> QED  BY <1>3 DEF T

LEMMA WalkIsOne ==
    ASSUME NEW doc, NEW path, NEW other, NEW n \in Nat, NEW len \in Nat, n <= len,
           NEW g, NEW h, Walk(doc, path, n, g), Walk(doc, other, len, h),
           \A m \in 1 .. n : path[m] = other[m]
    PROVE  g[n] = h[n]
<1> DEFINE T == {m \in Nat : m <= n => g[m] = h[m]}
<1>1. \A m \in 0 .. n : g[m] = IF m = 0 THEN doc ELSE Member(g[m - 1], path[m])  BY DEF Walk
<1>2. \A m \in 0 .. len : h[m] = IF m = 0 THEN doc ELSE Member(h[m - 1], other[m])  BY DEF Walk
<1>3. 0 \in T  BY <1>1, <1>2
<1>4. ASSUME NEW m \in Nat, m \in T  PROVE m + 1 \in T
  <2> SUFFICES ASSUME m + 1 <= n  PROVE g[m + 1] = h[m + 1]  OBVIOUS
  <2>1. g[m] = h[m] /\ m + 1 \in 1 .. n /\ m + 1 \in 0 .. len /\ m + 1 - 1 = m /\ m + 1 # 0  BY <1>4
  <2> QED  BY <1>1, <1>2, <2>1
<1> HIDE DEF T
<1>5. n \in T  BY <1>3, <1>4, Induction
<1> QED  BY <1>5 DEF T

LEMMA AtWalks ==
    ASSUME NEW doc, NEW path, Len(path) \in Nat
    PROVE  \E g : Walk(doc, path, Len(path), g) /\ At(doc, path) = g[Len(path)]
<1> DEFINE g == CHOOSE g : Walk(doc, path, Len(path), g)
<1>1. Walk(doc, path, Len(path), g)  BY WalkExists
<1>2. At(doc, path) = g[Len(path)]  BY DEF At, Walk
<1> QED  BY <1>1, <1>2

LEMMA AtRoot == ASSUME NEW doc  PROVE At(doc, <<>>) = doc
<1>1. Len(<<>>) = 0  OBVIOUS
<1>2. PICK g : Walk(doc, <<>>, 0, g) /\ At(doc, <<>>) = g[0]  BY <1>1, AtWalks
<1> QED  BY <1>2 DEF Walk

LEMMA AtStep ==
    ASSUME NEW doc, NEW S, NEW path \in Seq(S), NEW key \in S
    PROVE  At(doc, Append(path, key)) = Member(At(doc, path), key)
<1> DEFINE n == Len(path)
           next == Append(path, key)
<1>1. /\ n \in Nat /\ Len(next) = n + 1 /\ Len(next) \in Nat /\ next[n + 1] = key
      /\ \A m \in 1 .. n : path[m] = next[m]
  OBVIOUS
<1>2. PICK g : Walk(doc, path, n, g) /\ At(doc, path) = g[n]  BY <1>1, AtWalks
<1> HIDE DEF n, next
<1>3. PICK h : Walk(doc, next, n + 1, h) /\ At(doc, next) = h[n + 1]  BY <1>1, AtWalks
<1>4. g[n] = h[n]  BY <1>1, <1>2, <1>3, WalkIsOne
<1>5. h[n + 1] = Member(h[n], key)
  <2>1. \A m \in 0 .. n + 1 : h[m] = IF m = 0 THEN doc ELSE Member(h[m - 1], next[m])
    BY <1>3 DEF Walk
  <2>2. n + 1 \in 0 .. n + 1 /\ n + 1 # 0 /\ n + 1 - 1 = n  BY <1>1
  <2> QED  BY <1>1, <2>1, <2>2
<1> QED  BY <1>2, <1>3, <1>4, <1>5 DEF n, next

-----------------------------------------------------------------------------
\* Paths and their prefixes.

LEMMA PrefixIs ==
    ASSUME NEW S, NEW s \in Seq(S), NEW t \in Seq(S)
    PROVE  IsPrefix(s, t) <=> Len(s) <= Len(t) /\ \A i \in 1 .. Len(s) : s[i] = t[i]
<1>1. ASSUME Len(s) <= Len(t)
      PROVE  /\ Len(SubSeq(s, 1, Len(s))) = Len(s) /\ Len(SubSeq(t, 1, Len(s))) = Len(s)
             /\ \A i \in 1 .. Len(s) : /\ SubSeq(s, 1, Len(s))[i] = s[i]
                                       /\ SubSeq(t, 1, Len(s))[i] = t[i]
             /\ SubSeq(s, 1, Len(s)) \in Seq(S) /\ SubSeq(t, 1, Len(s)) \in Seq(S)
      BY <1>1
<1>2. ASSUME Len(s) <= Len(t), \A i \in 1 .. Len(s) : s[i] = t[i]
      PROVE  SubSeq(s, 1, Len(s)) = SubSeq(t, 1, Len(s))
      BY <1>1, <1>2
<1> QED  BY <1>1, <1>2 DEF IsPrefix

LEMMA BeginningIs ==
    ASSUME NEW S, NEW s \in Seq(S), NEW n \in 0 .. Len(s)
    PROVE  /\ SubSeq(s, 1, n) \in Seq(S) /\ Len(SubSeq(s, 1, n)) = n
           /\ \A i \in 1 .. n : SubSeq(s, 1, n)[i] = s[i]
<1>1. \A i \in 1 .. n : s[i] \in S  OBVIOUS
<1>2. /\ SubSeq(s, 1, n) \in Seq(S)
      /\ Len(SubSeq(s, 1, n)) = IF 1 <= n THEN n - 1 + 1 ELSE 0
      /\ \A i \in 1 .. n - 1 + 1 : SubSeq(s, 1, n)[i] = s[1 + i - 1]
      BY <1>1, SubSeqProperties
<1>3. n - 1 + 1 = n /\ \A i \in 1 .. n : 1 + i - 1 = i  OBVIOUS
<1>4. \A i \in 1 .. n : SubSeq(s, 1, n)[i] = s[i]  BY <1>2, <1>3
<1> QED  BY <1>2, <1>3, <1>4

LEMMA FrontIs ==
    ASSUME NEW S, NEW s \in Seq(S), s # <<>>
    PROVE  /\ Front(s) \in Seq(S) /\ Len(Front(s)) = Len(s) - 1 /\ Len(s) \in Nat \ {0}
           /\ \A i \in 1 .. Len(s) - 1 : Front(s)[i] = s[i]
<1>1. Len(s) - 1 \in 0 .. Len(s) /\ Len(s) \in Nat \ {0}  OBVIOUS
<1> DEFINE n == Len(s) - 1
<1>2. n \in 0 .. Len(s) /\ Front(s) = SubSeq(s, 1, n)  BY <1>1 DEF Front
<1> HIDE DEF n
<1>3. /\ Front(s) \in Seq(S) /\ Len(Front(s)) = n /\ \A i \in 1 .. n : Front(s)[i] = s[i]
      BY <1>2, BeginningIs
<1> QED  BY <1>1, <1>3 DEF n

LEMMA SameSequence ==
    ASSUME NEW S, NEW s \in Seq(S), NEW t \in Seq(S), Len(s) = Len(t),
           \A i \in 1 .. Len(s) : s[i] = t[i]
    PROVE  s = t
OBVIOUS

LEMMA PathFacts ==
    ASSUME NEW p \in Seq(Keys), NEW q \in Seq(Keys), NEW k \in Keys, NEW l \in Keys
    PROVE  /\ IsPrefix(q, q) /\ Append(q, k) \in Seq(Keys)
           /\ ~IsPrefix(Append(q, k), q)
           /\ IsPrefix(Append(q, k), p) => IsPrefix(q, p)
           /\ IsPrefix(p, Append(q, k)) => IsPrefix(p, q) \/ p = Append(q, k)
           /\ IsPrefix(Append(q, k), Append(q, l)) => k = l
           /\ IsPrefix(p, q) /\ IsPrefix(q, p) => p = q
           /\ Append(q, k) # <<>> /\ Front(Append(q, k)) = q
<1> DEFINE a == Append(q, k)
           b == Append(q, l)
<1>1. /\ a \in Seq(Keys) /\ Len(a) = Len(q) + 1 /\ a[Len(q) + 1] = k
      /\ \A i \in 1 .. Len(q) : a[i] = q[i]
      /\ b \in Seq(Keys) /\ Len(b) = Len(q) + 1 /\ b[Len(q) + 1] = l
      /\ Len(q) \in Nat /\ Len(p) \in Nat
      OBVIOUS
<1>2. /\ a # <<>> /\ Front(a) = q
  <2> HIDE DEF a
  <2>1. a # <<>>  BY <1>1
  <2>2. /\ Front(a) \in Seq(Keys) /\ Len(Front(a)) = Len(q)
        /\ \A i \in 1 .. Len(q) : Front(a)[i] = q[i]
        BY <1>1, <2>1, FrontIs
  <2> QED  BY <2>1, <2>2, SameSequence
<1> HIDE DEF a, b
<1>3. IsPrefix(q, q) /\ ~IsPrefix(a, q)  BY <1>1, PrefixIs
<1>4. IsPrefix(a, p) => IsPrefix(q, p)
      BY <1>1, PrefixIs
<1>5. ASSUME IsPrefix(p, a)  PROVE IsPrefix(p, q) \/ p = a
  <2>1. Len(p) <= Len(q) + 1 /\ \A i \in 1 .. Len(p) : p[i] = a[i]  BY <1>1, <1>5, PrefixIs
  <2>2. CASE Len(p) <= Len(q)  BY <1>1, <2>1, <2>2, PrefixIs
  <2>3. CASE Len(p) = Len(q) + 1  BY <1>1, <2>1, <2>3
  <2> QED  BY <1>1, <2>1, <2>2, <2>3
<1>6. IsPrefix(a, b) => k = l  BY <1>1, PrefixIs
<1>7. IsPrefix(p, q) /\ IsPrefix(q, p) => p = q  BY <1>1, PrefixIs
<1> QED  BY <1>1, <1>2, <1>3, <1>4, <1>5, <1>6, <1>7 DEF a, b

\* The first key by which a path goes beyond another.
LEMMA NextKey ==
    ASSUME NEW p \in Seq(Keys), NEW q \in Seq(Keys), IsPrefix(q, p), p # q
    PROVE  /\ p[Len(q) + 1] \in Keys /\ IsPrefix(Append(q, p[Len(q) + 1]), p)
           /\ p # <<>> /\ Front(p) \in Seq(Keys) /\ IsPrefix(q, Front(p))
<1> DEFINE n == Len(q)
           a == Append(q, p[n + 1])
<1>1. n \in Nat /\ Len(p) \in Nat /\ n <= Len(p) /\ \A i \in 1 .. n : q[i] = p[i]
      BY PrefixIs
<1>2. n < Len(p)  BY <1>1
<1>3. p[n + 1] \in Keys  BY <1>1, <1>2
<1>4. /\ a \in Seq(Keys) /\ Len(a) = n + 1 /\ a[n + 1] = p[n + 1]
      /\ \A i \in 1 .. n : a[i] = q[i]
      BY <1>3
<1>5. /\ p # <<>> /\ Front(p) \in Seq(Keys) /\ Len(Front(p)) = Len(p) - 1
      /\ \A i \in 1 .. Len(p) - 1 : Front(p)[i] = p[i]
  <2>1. p # <<>>  BY <1>1, <1>2
  <2> QED  BY <2>1, FrontIs
<1> HIDE DEF a, n
<1>6. IsPrefix(a, p)
  <2>1. \A i \in 1 .. n + 1 : a[i] = p[i]  BY <1>1, <1>4
  <2> QED  BY <1>1, <1>2, <1>4, <2>1, PrefixIs
<1>7. IsPrefix(q, Front(p))  BY <1>1, <1>2, <1>5, PrefixIs DEF n
<1> QED  BY <1>3, <1>5, <1>6, <1>7 DEF a, n

\* Nothing is below a position where nothing is.
LEMMA AtPast ==
    ASSUME NEW doc, NEW q \in Seq(Keys), At(doc, q) = Missing,
           NEW p \in Seq(Keys), IsPrefix(q, p)
    PROVE  At(doc, p) = Missing
<1> DEFINE T == {n \in Nat : \A r \in Seq(Keys) :
                     IsPrefix(q, r) /\ Len(r) = Len(q) + n => At(doc, r) = Missing}
<1>1. 0 \in T
  <2> SUFFICES ASSUME NEW r \in Seq(Keys), IsPrefix(q, r), Len(r) = Len(q) + 0
               PROVE  At(doc, r) = Missing
      OBVIOUS
  <2>1. r = q
    <3>1. Len(r) = Len(q) /\ \A i \in 1 .. Len(q) : q[i] = r[i]  BY PrefixIs
    <3> QED  BY <3>1
  <2> QED  BY <2>1
<1>2. ASSUME NEW n \in Nat, n \in T  PROVE n + 1 \in T
  <2> SUFFICES ASSUME NEW r \in Seq(Keys), IsPrefix(q, r), Len(r) = Len(q) + (n + 1)
               PROVE  At(doc, r) = Missing
      OBVIOUS
  <2>1. r # q /\ Len(r) \in Nat \ {0}  OBVIOUS
  <2>2. IsPrefix(q, Front(r)) /\ Front(r) \in Seq(Keys)  BY <2>1, NextKey
  <2>3. Len(Front(r)) = Len(q) + n /\ r = Append(Front(r), r[Len(r)]) /\ r[Len(r)] \in Keys
        BY <2>1 DEF Front
  <2>4. At(doc, Front(r)) = Missing  BY <1>2, <2>2, <2>3
  <2>5. At(doc, r) = Member(Missing, r[Len(r)])
    <3> DEFINE f == Front(r)
               l == r[Len(r)]
    <3>1. At(doc, f) = Missing /\ f \in Seq(Keys) /\ l \in Keys /\ r = Append(f, l)
          BY <2>2, <2>3, <2>4
    <3> HIDE DEF f, l
    <3>2. At(doc, r) = Member(Missing, l)  BY <3>1, AtStep
    <3> QED  BY <3>2 DEF l
  <2> QED  BY <2>5 DEF Member, Missing
<1> HIDE DEF T
<1>3. Len(p) - Len(q) \in Nat  BY PrefixIs
<1>4. Len(p) - Len(q) \in T  BY <1>1, <1>2, <1>3, Induction
<1>5. Len(p) = Len(q) + (Len(p) - Len(q))  BY <1>3
<1> QED  BY <1>4, <1>5 DEF T

LEMMA PositionsArePaths == \A p : p \in Positions <=> p \in Seq(Keys) /\ Len(p) <= Depth
<1> USE ValidatorAssumption
<1>1. ASSUME NEW p \in Positions  PROVE p \in Seq(Keys) /\ Len(p) <= Depth
  <2>1. PICK n \in 0 .. Depth : p \in [1 .. n -> Keys]  BY DEF Positions
  <2> QED  BY <2>1
<1>2. ASSUME NEW p \in Seq(Keys), Len(p) <= Depth  PROVE p \in Positions
  <2>1. p \in [1 .. Len(p) -> Keys] /\ Len(p) \in 0 .. Depth  BY <1>2
  <2> QED  BY <2>1 DEF Positions
<1> QED  BY <1>1, <1>2

\* What an expectation has is among the positions.
LEMMA ExpectedAtPositions ==
    ASSUME NEW e \in Expectations, NEW p \in Seq(Keys), At(e, p) # Missing
    PROVE  p \in Positions
<1> USE ValidatorAssumption
<1> SUFFICES ASSUME Len(p) > Depth  PROVE FALSE  BY PositionsArePaths
<1> DEFINE q == SubSeq(p, 1, Depth + 1)
<1>1. /\ q \in Seq(Keys) /\ Len(q) = Depth + 1 /\ q \in [1 .. Depth + 1 -> Keys]
      /\ \A i \in 1 .. Len(q) : q[i] = p[i]
  <2>1. Depth + 1 \in 0 .. Len(p)  OBVIOUS
  <2>2. q \in Seq(Keys) /\ Len(q) = Depth + 1 /\ \A i \in 1 .. Depth + 1 : q[i] = p[i]
        BY <2>1, BeginningIs
  <2> HIDE DEF q
  <2> QED  BY <2>2
<1> HIDE DEF q
<1>2. At(e, q) = Missing  BY <1>1 DEF IsDocument
<1>3. IsPrefix(q, p)  BY <1>1, PrefixIs
<1> QED  BY <1>1, <1>2, <1>3, AtPast

-----------------------------------------------------------------------------
\* The members of an object, in the order of the keys.

Chosen(D, n, g) ==
    g = [m \in 0 .. n |-> IF m = 0 THEN <<>>
                          ELSE IF KeyOrder[m] \in D THEN Append(g[m - 1], KeyOrder[m]) ELSE g[m - 1]]

\* A sequence without repetitions of those among the first m keys that are in D.
Picks(D, m, ks) ==
    /\ ks \in Seq(Keys)
    /\ \A i, j \in 1 .. Len(ks) : ks[i] = ks[j] => i = j
    /\ {ks[i] : i \in 1 .. Len(ks)} = {KeyOrder[i] : i \in 1 .. m} \cap D

LEMMA OneMoreKey ==
    ASSUME NEW D, NEW m \in Nat, m + 1 <= Len(KeyOrder), NEW ks, Picks(D, m, ks)
    PROVE  Picks(D, m + 1, IF KeyOrder[m + 1] \in D THEN Append(ks, KeyOrder[m + 1]) ELSE ks)
<1> USE ValidatorAssumption
<1> DEFINE k == KeyOrder[m + 1]
           a == Append(ks, k)
<1>1. k \in Keys /\ \A i \in 1 .. m : KeyOrder[i] # k
      BY DEF IsInjective
<1>2. {KeyOrder[i] : i \in 1 .. m + 1} = {KeyOrder[i] : i \in 1 .. m} \cup {k}  OBVIOUS
<1>3. ks \in Seq(Keys) /\ Len(ks) \in Nat  BY DEF Picks
<1>4. /\ a \in Seq(Keys) /\ Len(a) = Len(ks) + 1 /\ a[Len(ks) + 1] = k
      /\ \A i \in 1 .. Len(ks) : a[i] = ks[i]
      BY <1>1, <1>3
<1>5. k \notin {KeyOrder[i] : i \in 1 .. m}  BY <1>1
<1> HIDE DEF k, a
<1>6. CASE k \notin D
  <2>1. {KeyOrder[i] : i \in 1 .. m + 1} \cap D = {KeyOrder[i] : i \in 1 .. m} \cap D
        BY <1>2, <1>6
  <2>2. Picks(D, m + 1, ks)  BY <2>1 DEF Picks
  <2> QED  BY <1>6, <2>2 DEF k
<1>7. CASE k \in D
  <2>1. {a[i] : i \in 1 .. Len(a)} = {ks[i] : i \in 1 .. Len(ks)} \cup {k}  BY <1>3, <1>4
  <2>2. {a[i] : i \in 1 .. Len(a)} = {KeyOrder[i] : i \in 1 .. m + 1} \cap D
        BY <1>2, <1>7, <2>1 DEF Picks
  <2>3. \A i \in 1 .. Len(ks) : ks[i] # k  BY <1>5 DEF Picks
  <2>4. \A i, j \in 1 .. Len(a) : a[i] = a[j] => i = j
    <3>1. \A i \in 1 .. Len(a) : i \in 1 .. Len(ks) \/ i = Len(ks) + 1  BY <1>3, <1>4
    <3> QED  BY <1>4, <2>3, <3>1 DEF Picks
  <2>5. Picks(D, m + 1, a)  BY <1>4, <2>2, <2>4 DEF Picks
  <2> QED  BY <1>7, <2>5 DEF k, a
<1> QED  BY <1>6, <1>7

LEMMA ChosenExists == ASSUME NEW D, NEW len \in Nat  PROVE \E g : Chosen(D, len, g)
<1> DEFINE T == {n \in Nat : \E g : Chosen(D, n, g)}
<1>1. 0 \in T
  <2>1. Chosen(D, 0, [m \in 0 .. 0 |-> <<>>])  BY DEF Chosen
  <2> QED  BY <2>1
<1>2. ASSUME NEW n \in Nat, n \in T  PROVE n + 1 \in T
  <2>1. PICK g : Chosen(D, n, g)  BY <1>2
  <2> DEFINE next == IF KeyOrder[n + 1] \in D THEN Append(g[n], KeyOrder[n + 1]) ELSE g[n]
             h == [m \in 0 .. n + 1 |-> IF m = n + 1 THEN next ELSE g[m]]
             F(m) == IF m = 0 THEN <<>>
                     ELSE IF KeyOrder[m] \in D THEN Append(h[m - 1], KeyOrder[m]) ELSE h[m - 1]
             k == [m \in 0 .. n + 1 |-> F(m)]
  <2>2. \A m \in 0 .. n : g[m] = IF m = 0 THEN <<>>
                                 ELSE IF KeyOrder[m] \in D THEN Append(g[m - 1], KeyOrder[m])
                                 ELSE g[m - 1]
        BY <2>1 DEF Chosen
  <2>3. h[n + 1] = F(n + 1)  OBVIOUS
  <2>4. ASSUME NEW m \in 0 .. n  PROVE h[m] = F(m)  BY <2>2
  <2>5. h = k
    <3> HIDE DEF F
    <3>1. \A m \in 0 .. n + 1 : m = n + 1 \/ m \in 0 .. n  OBVIOUS
    <3>2. \A m \in 0 .. n + 1 : h[m] = F(m)  BY <2>3, <2>4, <3>1
    <3> QED  BY <3>2
  <2>6. Chosen(D, n + 1, h)
    <3>1. h = [m \in 0 .. n + 1 |-> F(m)]  BY <2>5
    <3> HIDE DEF h
    <3> QED  BY <3>1 DEF Chosen
  <2> HIDE DEF h
  <2> QED  BY <2>6
<1> HIDE DEF T
<1>3. len \in T  BY <1>1, <1>2, Induction
<1> QED  BY <1>3 DEF T

LEMMA InOrderPicks == ASSUME NEW D, D \subseteq Keys  PROVE Picks(D, Len(KeyOrder), InOrder(D))
<1> USE ValidatorAssumption
<1> DEFINE len == Len(KeyOrder)
           f == CHOOSE g : Chosen(D, len, g)
           T == {n \in Nat : n <= len => Picks(D, n, f[n])}
<1>1. Chosen(D, len, f)  BY ChosenExists
<1>2. InOrder(D) = f[len]  BY DEF InOrder, Chosen
<1> HIDE DEF f
<1>3. \A m \in 0 .. len : f[m] = IF m = 0 THEN <<>>
                                 ELSE IF KeyOrder[m] \in D THEN Append(f[m - 1], KeyOrder[m])
                                 ELSE f[m - 1]
      BY <1>1 DEF Chosen
<1>4. 0 \in T
  <2>1. f[0] = <<>>  BY <1>3
  <2>2. Picks(D, 0, <<>>)
    <3>1. {KeyOrder[i] : i \in 1 .. 0} = {} /\ {<<>>[i] : i \in 1 .. 0} = {}  OBVIOUS
    <3>2. Len(<<>>) = 0 /\ <<>> \in Seq(Keys)  OBVIOUS
    <3> QED  BY <3>1, <3>2 DEF Picks
  <2> QED  BY <2>1, <2>2
<1>5. ASSUME NEW n \in Nat, n \in T  PROVE n + 1 \in T
  <2> SUFFICES ASSUME n + 1 <= len  PROVE Picks(D, n + 1, f[n + 1])  OBVIOUS
  <2>1. Picks(D, n, f[n])  BY <1>5
  <2>2. f[n + 1] = IF KeyOrder[n + 1] \in D THEN Append(f[n], KeyOrder[n + 1]) ELSE f[n]
    <3>1. n + 1 \in 0 .. len /\ n + 1 # 0 /\ n + 1 - 1 = n  OBVIOUS
    <3> QED  BY <1>3, <3>1
  <2> QED  BY <2>1, <2>2, OneMoreKey
<1> HIDE DEF T
<1>6. len \in Nat /\ len \in T  BY <1>4, <1>5, Induction
<1> QED  BY <1>2, <1>6 DEF T

-----------------------------------------------------------------------------
\* The invariant of a validation.

CallAt(p) == Call(p, At(expected, p), At(incoming, p))
Calls     == {CallAt(p) : p \in Seq(Keys)}

\* Every call is about a position, with what the two documents have there; the
\* expectations have it, and the response has what is above it.
Pending == todo \in Seq(Calls)
Reached(p) == At(expected, p) # Missing /\ (p # <<>> => At(incoming, Front(p)) # Missing)
AllReached == \A i \in 1 .. Len(todo) : Reached(todo[i].path)

\* No position is visited twice: no call is about a position at or below that of
\* another call, and no issue is there yet.
Apart == \A i, j \in 1 .. Len(todo) : IsPrefix(todo[i].path, todo[j].path) => i = j
Fresh == \A i \in 1 .. Len(todo), n \in 1 .. Len(issues) :
             ~IsPrefix(todo[i].path, issues[n].path)
Once  == \A m, n \in 1 .. Len(issues) : issues[m].path = issues[n].path => m = n

\* The issues are mismatches, and a mismatch that is none of them is at or below
\* the position of a call to come.
Right == \A n \in 1 .. Len(issues) : Mismatch(issues[n].path)
NoneMissed == pc # "idle" => \A p \in Seq(Keys) : Mismatch(p) =>
                  \/ \E n \in 1 .. Len(issues) : issues[n].path = p
                  \/ \E i \in 1 .. Len(todo) : IsPrefix(todo[i].path, p)

Verdict == isValid <=> issues = <<>>
OnlyWhileValidating == pc # "validating" => todo = <<>>

Typed  == TypeOK /\ Pending
Places == AllReached /\ Apart /\ Fresh
Found  == Once /\ Right /\ NoneMissed /\ Verdict /\ OnlyWhileValidating
IInv   == Typed /\ Places /\ Found

Issue == [type : Types, path : Seq(Keys)]

LEMMA IssueFacts ==
    ASSUME Typed
    PROVE  /\ issues \in Seq(Issue) /\ Len(issues) \in Nat
           /\ \A n \in 1 .. Len(issues) : issues[n].path \in Seq(Keys)
<1>1. issues \in Seq(Issue)  BY DEF Typed, TypeOK, Issue
<1>2. Len(issues) \in Nat /\ \A n \in 1 .. Len(issues) : issues[n] \in Issue  BY <1>1
<1>3. \A r \in Issue : r.path \in Seq(Keys)  BY DEF Issue
<1> QED  BY <1>1, <1>2, <1>3

LEMMA IssueAdded ==
    ASSUME Typed, Now.path \in Seq(Keys), NEW t \in Types,
           issues' = Append(issues, [type |-> t, path |-> Now.path])
    PROVE  /\ issues' \in Seq(Issue)
           /\ Len(issues') = Len(issues) + 1 /\ issues'[Len(issues) + 1].path = Now.path
           /\ \A n \in 1 .. Len(issues) : issues'[n] = issues[n]
<1> DEFINE r == [type |-> t, path |-> Now.path]
<1>1. r \in Issue /\ r.path = Now.path  BY DEF Issue
<1>2. issues \in Seq(Issue) /\ issues' = Append(issues, r)  BY IssueFacts
<1> HIDE DEF r
<1> QED  BY <1>1, <1>2

LEMMA CallFacts ==
    ASSUME Typed
    PROVE  /\ todo \in Seq(Calls) /\ Len(todo) \in Nat
           /\ \A i \in 1 .. Len(todo) : /\ todo[i].path \in Seq(Keys)
                                        /\ todo[i].exp = At(expected, todo[i].path)
                                        /\ todo[i].inc = At(incoming, todo[i].path)
           /\ Len(issues) \in Nat /\ \A n \in 1 .. Len(issues) : issues[n].path \in Seq(Keys)
<1>1. \A i \in 1 .. Len(todo) : todo[i] \in Calls  BY DEF Typed, Pending
<1>2. \A c \in Calls : /\ c.path \in Seq(Keys) /\ c.exp = At(expected, c.path)
                       /\ c.inc = At(incoming, c.path)
      BY DEF Calls, CallAt, Call
<1>4. Len(issues) \in Nat /\ \A n \in 1 .. Len(issues) : issues[n].path \in Seq(Keys)
      BY IssueFacts
<1>5. todo \in Seq(Calls) /\ Len(todo) \in Nat  BY DEF Typed, Pending
<1> QED  BY <1>1, <1>2, <1>4, <1>5

\* The call that is next, and what it leaves.
LEMMA NowFacts ==
    ASSUME Typed, todo # <<>>
    PROVE  /\ 1 \in 1 .. Len(todo) /\ Now = todo[1] /\ Now.path \in Seq(Keys)
           /\ Now.exp = At(expected, Now.path) /\ Now.inc = At(incoming, Now.path)
           /\ Tail(todo) \in Seq(Calls) /\ Len(Tail(todo)) = Len(todo) - 1
           /\ \A i \in 1 .. Len(todo) - 1 : Tail(todo)[i] = todo[i + 1] /\ i + 1 \in 1 .. Len(todo)
<1>1. todo \in Seq(Calls)  BY DEF Typed, Pending
<1>2. 1 \in 1 .. Len(todo) /\ Now = todo[1]  BY <1>1 DEF Now
<1>3. /\ Tail(todo) \in Seq(Calls) /\ Len(Tail(todo)) = Len(todo) - 1
      /\ \A i \in 1 .. Len(todo) - 1 : Tail(todo)[i] = todo[i + 1] /\ i + 1 \in 1 .. Len(todo)
      BY <1>1
<1> QED  BY <1>2, <1>3, CallFacts

\* What is wrong below a position is below a member that is expected there, and
\* the response has something at the position.
LEMMA MismatchBelow ==
    ASSUME NEW q \in Seq(Keys), NEW p \in Seq(Keys), IsPrefix(q, p), p # q, Mismatch(p)
    PROVE  /\ At(incoming, q) # Missing
           /\ At(expected, q).kind = "object"
           /\ \E k \in Keys : /\ k \in DOMAIN At(expected, q).members
                              /\ IsPrefix(Append(q, k), p)
<1> DEFINE k == p[Len(q) + 1]
           a == Append(q, k)
<1>1. /\ k \in Keys /\ IsPrefix(a, p)
      /\ p # <<>> /\ Front(p) \in Seq(Keys) /\ IsPrefix(q, Front(p))
      BY NextKey
<1>2. At(expected, p) # Missing /\ At(incoming, Front(p)) # Missing
      BY <1>1 DEF Mismatch
<1>3. a \in Seq(Keys)  BY <1>1
<1>4. At(incoming, q) # Missing  BY <1>1, <1>2, AtPast
<1> HIDE DEF k
<1>5. At(expected, a) = Member(At(expected, q), k)  BY <1>1, AtStep
<1> HIDE DEF a
<1>6. Member(At(expected, q), k) # Missing  BY <1>1, <1>2, <1>3, <1>5, AtPast
<1>7. At(expected, q).kind = "object" /\ k \in DOMAIN At(expected, q).members
      BY <1>6 DEF Member
<1> QED  BY <1>1, <1>4, <1>7 DEF a

LEMMA SameDocuments ==
    ASSUME UNCHANGED <<expected, incoming>>
    PROVE  /\ Calls' = Calls
           /\ \A p : (Mismatch(p)' <=> Mismatch(p)) /\ (Reached(p)' <=> Reached(p))
BY DEF Calls, CallAt, Mismatch, Reached

LEMMA TailPlaced ==
    ASSUME IInv, todo # <<>>, todo' = Tail(todo), UNCHANGED <<expected, incoming>>,
           \/ UNCHANGED issues
           \/ \E t \in Types : issues' = Append(issues, [type |-> t, path |-> Now.path])
    PROVE  Places'
<1> USE DEF IInv
<1>1. /\ Len(todo) \in Nat \ {0} /\ Len(todo') = Len(todo) - 1
      /\ \A i \in 1 .. Len(todo') : todo'[i] = todo[i + 1] /\ i + 1 \in 1 .. Len(todo)
      /\ 1 \in 1 .. Len(todo) /\ Now = todo[1]
      BY NowFacts, CallFacts
<1>2. AllReached'  BY <1>1, SameDocuments DEF Places, AllReached
<1>3. Apart'
  <2> SUFFICES ASSUME NEW i \in 1 .. Len(todo'), NEW j \in 1 .. Len(todo'),
                      IsPrefix(todo'[i].path, todo'[j].path)
               PROVE  i = j
      BY DEF Apart
  <2>1. i + 1 = j + 1  BY <1>1 DEF Places, Apart
  <2> QED  BY <1>1, <2>1
<1>4. Fresh'
  <2> SUFFICES ASSUME NEW i \in 1 .. Len(todo'), NEW n \in 1 .. Len(issues')
               PROVE  ~IsPrefix(todo'[i].path, issues'[n].path)
      BY DEF Fresh
  <2>1. todo'[i] = todo[i + 1] /\ i + 1 \in 1 .. Len(todo) /\ i + 1 # 1  BY <1>1
  <2>2. \/ n \in 1 .. Len(issues) /\ issues'[n] = issues[n]
        \/ issues'[n].path = Now.path
    <3>1. CASE UNCHANGED issues  BY <3>1
    <3>2. ASSUME NEW t \in Types, issues' = Append(issues, [type |-> t, path |-> Now.path])
          PROVE  \/ n \in 1 .. Len(issues) /\ issues'[n] = issues[n]
                 \/ issues'[n].path = Now.path
      <4>1. /\ Len(issues') = Len(issues) + 1 /\ issues'[Len(issues) + 1].path = Now.path
            /\ \A m \in 1 .. Len(issues) : issues'[m] = issues[m]
            BY <3>2, NowFacts, IssueAdded
      <4>2. Len(issues) \in Nat  BY IssueFacts
      <4>3. n \in 1 .. Len(issues) \/ n = Len(issues) + 1  BY <4>1, <4>2
      <4> QED  BY <4>1, <4>3
    <3> QED  BY <3>1, <3>2
  <2>3. ~IsPrefix(todo[i + 1].path, Now.path)  BY <1>1, <2>1 DEF Places, Apart
  <2> QED  BY <2>1, <2>2, <2>3 DEF Places, Fresh
<1> QED  BY <1>2, <1>3, <1>4 DEF Places

\* A call that does not descend: it adds an issue or not.
LEMMA LeafFound ==
    ASSUME IInv, pc = "validating", todo # <<>>, todo' = Tail(todo),
           UNCHANGED <<expected, incoming, pc>>,
           \A p \in Seq(Keys) : IsPrefix(Now.path, p) /\ Mismatch(p) => p = Now.path,
           \/ Mismatch(Now.path) /\ \E t \in Types : AddIssue(t)
           \/ ~Mismatch(Now.path) /\ UNCHANGED <<issues, isValid>>
    PROVE  IInv'
<1> USE DEF IInv
<1>1. /\ 1 \in 1 .. Len(todo) /\ Now = todo[1] /\ Now.path \in Seq(Keys)
      /\ todo' \in Seq(Calls) /\ Len(todo') = Len(todo) - 1
      /\ \A i \in 1 .. Len(todo) - 1 : todo'[i] = todo[i + 1] /\ i + 1 \in 1 .. Len(todo)
      /\ Len(todo) \in Nat
      BY NowFacts, CallFacts
<1>2. issues \in Seq(Issue) /\ Len(issues) \in Nat  BY IssueFacts
<1>3. \A p : Mismatch(p)' <=> Mismatch(p)  BY SameDocuments
<1>4. \/ /\ Mismatch(Now.path) /\ isValid' = FALSE
         /\ issues' \in Seq(Issue)
         /\ Len(issues') = Len(issues) + 1 /\ issues'[Len(issues) + 1].path = Now.path
         /\ \A n \in 1 .. Len(issues) : issues'[n] = issues[n]
      \/ ~Mismatch(Now.path) /\ UNCHANGED <<issues, isValid>>
      BY <1>1, IssueAdded DEF AddIssue
<1>5. Typed'
  <2>1. TypeOK'
    <3>1. \A i \in DOMAIN todo' : todo'[i].path \in Seq(Keys)
      <4>1. DOMAIN todo' = 1 .. Len(todo) - 1  BY <1>1
      <4> QED  BY <1>1, <4>1, CallFacts
    <3>2. issues' \in Seq([type : Types, path : Seq(Keys)])  BY <1>2, <1>4 DEF Issue
    <3> QED  BY <1>4, <3>1, <3>2 DEF Typed, TypeOK
  <2>2. Pending'  BY <1>1, SameDocuments DEF Pending
  <2> QED  BY <2>1, <2>2 DEF Typed
<1>6. Places'  BY TailPlaced DEF AddIssue
<1>7. Once'
  <2>1. \A n \in 1 .. Len(issues) : issues[n].path # Now.path
    <3>1. IsPrefix(Now.path, Now.path)  BY <1>1, PrefixIs
    <3> QED  BY <1>1, <3>1 DEF Places, Fresh
  <2>2. \A n \in 1 .. Len(issues) + 1 : n \in 1 .. Len(issues) \/ n = Len(issues) + 1  BY <1>2
  <2> QED  BY <1>2, <1>4, <2>1, <2>2 DEF Found, Once
<1>8. Right'
  <2>1. \A n \in 1 .. Len(issues) + 1 : n \in 1 .. Len(issues) \/ n = Len(issues) + 1  BY <1>2
  <2> QED  BY <1>3, <1>4, <2>1 DEF Found, Right
<1>9. NoneMissed'
  <2> SUFFICES ASSUME NEW p \in Seq(Keys), Mismatch(p)
               PROVE  \/ \E n \in 1 .. Len(issues') : issues'[n].path = p
                      \/ \E i \in 1 .. Len(todo') : IsPrefix(todo'[i].path, p)
      BY <1>3 DEF NoneMissed
  <2>1. CASE \E n \in 1 .. Len(issues) : issues[n].path = p
    <3>1. \A n \in 1 .. Len(issues) : n \in 1 .. Len(issues') /\ issues'[n] = issues[n]
          BY <1>2, <1>4
    <3> QED  BY <2>1, <3>1
  <2>2. CASE \E i \in 1 .. Len(todo) : IsPrefix(todo[i].path, p)
    <3>1. PICK i \in 1 .. Len(todo) : IsPrefix(todo[i].path, p)  BY <2>2
    <3>2. CASE i = 1
      <4>1. p = Now.path  BY <1>1, <3>1, <3>2
      <4>2. Len(issues) + 1 \in 1 .. Len(issues')  /\ issues'[Len(issues) + 1].path = p
            BY <1>2, <1>4, <4>1
      <4> QED  BY <4>2
    <3>3. CASE i # 1
      <4>1. i - 1 \in 1 .. Len(todo) - 1 /\ i - 1 + 1 = i  BY <1>1, <3>3
      <4>2. i - 1 \in 1 .. Len(todo') /\ todo'[i - 1] = todo[i]  BY <1>1, <4>1
      <4> QED  BY <3>1, <4>2
    <3> QED  BY <3>2, <3>3
  <2> QED  BY <2>1, <2>2 DEF Found, NoneMissed
<1>10. Verdict'
  <2>1. Len(issues) + 1 # 0 /\ Len(<<>>) = 0  BY <1>2
  <2> QED  BY <1>4, <2>1 DEF Found, Verdict
<1>11. OnlyWhileValidating'  BY DEF OnlyWhileValidating
<1> QED  BY <1>5, <1>6, <1>7, <1>8, <1>9, <1>10, <1>11 DEF Found

\* Whether the position of the next call is wrong, by what the call is given.
LEMMA NowIsWrong ==
    ASSUME IInv, todo # <<>>
    PROVE  /\ Mismatch(Now.path) <=> Now.inc = Missing \/ ~Accepts(Now.exp, Now.inc)
           /\ \A p \in Seq(Keys) : IsPrefix(Now.path, p) /\ Mismatch(p) /\ p # Now.path =>
                  /\ Now.inc # Missing /\ Now.exp.kind = "object"
                  /\ \E k \in Keys : k \in DOMAIN Now.exp.members /\ IsPrefix(Append(Now.path, k), p)
<1>1. /\ 1 \in 1 .. Len(todo) /\ Now = todo[1] /\ Now.path \in Seq(Keys)
      /\ Now.exp = At(expected, Now.path) /\ Now.inc = At(incoming, Now.path)
      BY NowFacts DEF IInv
<1>2. Reached(Now.path)  BY <1>1 DEF IInv, Places, AllReached
<1>3. Mismatch(Now.path) <=> Now.inc = Missing \/ ~Accepts(Now.exp, Now.inc)
      BY <1>1, <1>2 DEF Mismatch, Reached
<1> QED  BY <1>1, <1>3, MismatchBelow

LEMMA NotPresentStep == ASSUME IInv, NotPresent  PROVE IInv'
<1>1. /\ pc = "validating" /\ todo # <<>> /\ todo' = Tail(todo) /\ Now.inc = Missing
      /\ AddIssue("NO_MATCH") /\ "NO_MATCH" \in Types /\ UNCHANGED <<expected, incoming, pc>>
      BY DEF NotPresent, InCall, Rest, Keep, Types
<1> QED  BY <1>1, NowIsWrong, LeafFound

LEMMA AnythingGoesStep == ASSUME IInv, AnythingGoes  PROVE IInv'
<1>1. /\ pc = "validating" /\ todo # <<>> /\ todo' = Tail(todo) /\ Now.inc # Missing
      /\ Unconstrained(Now.exp) /\ UNCHANGED <<expected, incoming, pc>>
      /\ UNCHANGED <<issues, isValid>>
      BY DEF AnythingGoes, InCall, Rest, Keep
<1>2. ~Mismatch(Now.path)  BY <1>1, NowIsWrong DEF Accepts
<1>3. Now.exp.kind = "object" => DOMAIN Now.exp.members = {}
      BY <1>1 DEF Unconstrained, Null
<1>4. \A p \in Seq(Keys) : IsPrefix(Now.path, p) /\ Mismatch(p) => p = Now.path
      BY <1>1, <1>3, NowIsWrong
<1> QED  BY <1>1, <1>2, <1>4, LeafFound

LEMMA FilterStep == ASSUME IInv, Filter  PROVE IInv'
<1>1. /\ pc = "validating" /\ todo # <<>> /\ todo' = Tail(todo) /\ Now.inc # Missing
      /\ IsFilter(Now.exp) /\ UNCHANGED <<expected, incoming, pc>>
      /\ Judge(Passes(Now.exp.text, Now.inc), "TYPE_CHECK") /\ "TYPE_CHECK" \in Types
      BY DEF Filter, InCall, Rest, Keep, Types
<1>2. Now.exp.kind = "string"  BY <1>1 DEF IsFilter
<1>3. ~Unconstrained(Now.exp)  BY <1>2 DEF Unconstrained, Null
<1>4. Mismatch(Now.path) <=> ~Passes(Now.exp.text, Now.inc)
      BY <1>1, <1>2, <1>3, NowIsWrong DEF Accepts
<1>5. \A p \in Seq(Keys) : IsPrefix(Now.path, p) /\ Mismatch(p) => p = Now.path
      BY <1>1, <1>2, NowIsWrong
<1> QED  BY <1>1, <1>4, <1>5, LeafFound DEF Judge

LEMMA CompareStep == ASSUME IInv, Compare  PROVE IInv'
<1>1. /\ pc = "validating" /\ todo # <<>> /\ todo' = Tail(todo) /\ Now.inc # Missing
      /\ ~Unconstrained(Now.exp) /\ Now.exp.kind # "object" /\ ~IsFilter(Now.exp)
      /\ UNCHANGED <<expected, incoming, pc>>
      /\ Judge(Equal(Now.exp, Now.inc), "NOT_EQUAL") /\ "NOT_EQUAL" \in Types
      BY DEF Compare, InCall, Rest, Keep, Types
<1>2. Mismatch(Now.path) <=> ~Equal(Now.exp, Now.inc)
      BY <1>1, NowIsWrong DEF Accepts
<1>3. \A p \in Seq(Keys) : IsPrefix(Now.path, p) /\ Mismatch(p) => p = Now.path
      BY <1>1, NowIsWrong
<1> QED  BY <1>1, <1>2, <1>3, LeafFound DEF Judge

-----------------------------------------------------------------------------
\* A call on an object: its members' calls take its place.

\* The expectations are documents: what an object of theirs has, they have.
LEMMA MembersOfExpected ==
    ASSUME Typed, NEW q \in Seq(Keys), At(expected, q) # Missing,
           At(expected, q).kind = "object"
    PROVE  \A k \in DOMAIN At(expected, q).members :
               k \in Keys /\ At(expected, q).members[k] # Missing
<1>1. expected \in Expectations  BY DEF Typed, TypeOK
<1>2. q \in Positions  BY <1>1, ExpectedAtPositions
<1>3. IsDocument(expected)  BY <1>1, ValidatorAssumption
<1> QED  BY <1>2, <1>3 DEF IsDocument

\* The calls are about the members of the two documents, each once.
LEMMA MembersAre ==
    ASSUME IInv, todo # <<>>, Now.inc # Missing, Now.exp.kind = "object"
    PROVE  LET ks == InOrder(DOMAIN Now.exp.members)
               cs == MemberCalls(Now)
           IN  /\ cs \in Seq(Calls) /\ Len(cs) \in Nat /\ Len(cs) = Len(ks)
               /\ \A i \in 1 .. Len(cs) : /\ ks[i] \in Keys /\ ks[i] \in DOMAIN Now.exp.members
                                          /\ cs[i].path = Append(Now.path, ks[i])
                                          /\ Reached(cs[i].path)
               /\ \A i, j \in 1 .. Len(cs) : ks[i] = ks[j] => i = j
               /\ \A k \in DOMAIN Now.exp.members : \E i \in 1 .. Len(cs) : ks[i] = k
<1> DEFINE D  == DOMAIN Now.exp.members
           q  == Now.path
           ks == InOrder(D)
           cs == MemberCalls(Now)
<1>1. /\ q \in Seq(Keys) /\ Now.exp = At(expected, q) /\ Now.inc = At(incoming, q)
      /\ 1 \in 1 .. Len(todo) /\ Now = todo[1]
      BY NowFacts DEF IInv
<1>2. At(expected, q) # Missing
      BY <1>1 DEF IInv, Places, AllReached, Reached
<1>3. \A k \in D : k \in Keys /\ Now.exp.members[k] # Missing
      BY <1>1, <1>2, MembersOfExpected DEF IInv
<1>4. Picks(D, Len(KeyOrder), ks)  BY <1>3, InOrderPicks
<1>5. {KeyOrder[i] : i \in 1 .. Len(KeyOrder)} = Keys
  <2>1. KeyOrder \in Seq(Keys)  BY ValidatorAssumption
  <2> QED  BY <2>1 DEF Keys, ToSet
<1> HIDE DEF ks
<1>6. /\ ks \in Seq(Keys) /\ Len(ks) \in Nat /\ DOMAIN ks = 1 .. Len(ks)
      /\ \A i, j \in 1 .. Len(ks) : ks[i] = ks[j] => i = j
      /\ \A i \in 1 .. Len(ks) : ks[i] \in Keys
      BY <1>4 DEF Picks
<1>7. \A i \in 1 .. Len(ks) : ks[i] \in D
      BY <1>4 DEF Picks
<1>8. \A k \in D : \E i \in 1 .. Len(ks) : ks[i] = k
      BY <1>3, <1>4, <1>5 DEF Picks
<1>9. cs = [n \in 1 .. Len(ks) |-> Call(Append(q, ks[n]), Now.exp.members[ks[n]], Member(Now.inc, ks[n]))]
      BY <1>6 DEF MemberCalls, ks
<1> HIDE DEF cs, q
<1>10. ASSUME NEW i \in 1 .. Len(ks)
       PROVE  /\ Append(q, ks[i]) \in Seq(Keys)
              /\ cs[i] = CallAt(Append(q, ks[i])) /\ cs[i].path = Append(q, ks[i])
              /\ Reached(cs[i].path)
  <2> DEFINE a == Append(q, ks[i])
  <2>1. ks[i] \in Keys /\ ks[i] \in D /\ Now.exp.members[ks[i]] # Missing  BY <1>3, <1>6, <1>7
  <2>2. a \in Seq(Keys) /\ a # <<>> /\ Front(a) = q  BY <1>1, <2>1, PathFacts
  <2>3. At(expected, a) = Member(Now.exp, ks[i]) /\ At(incoming, a) = Member(Now.inc, ks[i])
        BY <1>1, <2>1, AtStep
  <2>4. Member(Now.exp, ks[i]) = Now.exp.members[ks[i]]  BY <2>1 DEF Member
  <2>5. cs[i] = Call(a, Now.exp.members[ks[i]], Member(Now.inc, ks[i]))  BY <1>9
  <2> HIDE DEF a
  <2>6. cs[i] = CallAt(a) /\ cs[i].path = a  BY <2>3, <2>4, <2>5 DEF CallAt, Call
  <2>7. Reached(a)  BY <1>1, <2>1, <2>2, <2>3, <2>4 DEF Reached
  <2> QED  BY <2>2, <2>6, <2>7 DEF a
<1>11. cs \in Seq(Calls) /\ Len(cs) = Len(ks)
  <2>1. \A i \in 1 .. Len(ks) : cs[i] \in Calls  BY <1>10 DEF Calls
  <2>2. cs \in [1 .. Len(ks) -> Calls]  BY <1>9, <2>1
  <2> QED  BY <1>6, <2>2
<1> QED  BY <1>6, <1>7, <1>8, <1>10, <1>11 DEF cs, ks, q

LEMMA MembersStep == ASSUME IInv, Members  PROVE IInv'
<1> USE DEF IInv
<1> DEFINE q  == Now.path
           cs == MemberCalls(Now)
           ks == InOrder(DOMAIN Now.exp.members)
           m  == Len(cs)
           tl == Tail(todo)
<1>1. /\ pc = "validating" /\ todo # <<>> /\ Now.inc # Missing /\ Now.exp.kind = "object"
      /\ ~Unconstrained(Now.exp) /\ todo' = cs \o tl
      /\ UNCHANGED <<expected, incoming, pc, issues, isValid>>
      BY DEF Members, InCall, Keep, Descended
<1>2. /\ 1 \in 1 .. Len(todo) /\ Now = todo[1] /\ q \in Seq(Keys) /\ Len(todo) \in Nat
      /\ tl \in Seq(Calls) /\ Len(tl) = Len(todo) - 1
      /\ \A i \in 1 .. Len(todo) - 1 : tl[i] = todo[i + 1] /\ i + 1 \in 1 .. Len(todo)
      BY <1>1, NowFacts, CallFacts
<1>3. /\ cs \in Seq(Calls) /\ m \in Nat
      /\ \A i \in 1 .. m : /\ ks[i] \in Keys /\ ks[i] \in DOMAIN Now.exp.members
                           /\ cs[i].path = Append(q, ks[i]) /\ Reached(cs[i].path)
      /\ \A i, j \in 1 .. m : ks[i] = ks[j] => i = j
      /\ \A k \in DOMAIN Now.exp.members : \E i \in 1 .. m : ks[i] = k
      BY <1>1, MembersAre
<1>4. ~Mismatch(q)  BY <1>1, NowIsWrong DEF Accepts
<1>5. \A p \in Seq(Keys) : IsPrefix(q, p) /\ Mismatch(p) =>
          \E k \in Keys : k \in DOMAIN Now.exp.members /\ IsPrefix(Append(q, k), p)
      BY <1>1, <1>4, NowIsWrong
<1> HIDE DEF q, cs, ks, tl
<1>6. /\ todo' \in Seq(Calls) /\ Len(todo') = m + Len(todo) - 1
      /\ \A i \in 1 .. m : todo'[i] = cs[i]
      /\ \A i \in 1 .. Len(todo) - 1 : todo'[m + i] = todo[i + 1] /\ m + i \in 1 .. Len(todo')
  <2>1. /\ todo' \in Seq(Calls) /\ Len(todo') = m + Len(tl)
        /\ \A i \in 1 .. m : todo'[i] = cs[i]
        BY <1>1, <1>2, <1>3
  <2>2. \A i \in 1 .. Len(tl) : todo'[m + i] = tl[i] /\ m + i \in 1 .. m + Len(tl)
        BY <1>1, <1>2, <1>3
  <2> QED  BY <1>2, <1>3, <2>1, <2>2
<1> DEFINE New(i) == i \in 1 .. m /\ todo'[i] = cs[i]
           Old(i) == i - m + 1 \in 1 .. Len(todo) /\ i - m + 1 # 1 /\ todo'[i] = todo[i - m + 1]
<1>7. \A i \in 1 .. Len(todo') : New(i) \/ Old(i)
  <2> SUFFICES ASSUME NEW i \in 1 .. Len(todo'), i > m  PROVE Old(i)
      BY <1>3, <1>6
  <2>1. i - m \in 1 .. Len(todo) - 1 /\ m + (i - m) = i  BY <1>2, <1>3, <1>6
  <2> QED  BY <1>2, <1>6, <2>1
<1>8. \A i \in 1 .. Len(todo) : i # 1 => todo[i].path \in Seq(Keys) /\ ~IsPrefix(q, todo[i].path)
                                         /\ ~IsPrefix(todo[i].path, q)
      BY <1>2, CallFacts DEF Places, Apart, q
<1>9. Typed'
  <2>1. \A i \in 1 .. Len(todo') : todo'[i].path \in Seq(Keys)
    <3>1. \A i \in 1 .. Len(todo') : todo'[i] \in Calls  BY <1>6
    <3> QED  BY <3>1 DEF Calls, CallAt, Call
  <2>2. DOMAIN todo' = 1 .. Len(todo')  BY <1>6
  <2>3. TypeOK'  BY <1>1, <2>1, <2>2 DEF Typed, TypeOK
  <2>4. Pending'  BY <1>1, <1>6, SameDocuments DEF Pending
  <2> QED  BY <2>3, <2>4 DEF Typed
<1>10. AllReached'
  <2> SUFFICES ASSUME NEW i \in 1 .. Len(todo')  PROVE Reached(todo'[i].path)
      BY <1>1, SameDocuments DEF AllReached
  <2>1. CASE New(i)  BY <1>3, <2>1
  <2>2. CASE Old(i)  BY <2>2 DEF Places, AllReached
  <2> QED  BY <1>7, <2>1, <2>2
<1>11. Apart'
  <2> SUFFICES ASSUME NEW i \in 1 .. Len(todo'), NEW j \in 1 .. Len(todo'),
                      IsPrefix(todo'[i].path, todo'[j].path)
               PROVE  i = j
      BY DEF Apart
  <2>1. CASE New(i) /\ New(j)
    <3>1. IsPrefix(Append(q, ks[i]), Append(q, ks[j])) /\ ks[i] \in Keys /\ ks[j] \in Keys
          BY <1>3, <2>1
    <3>2. ks[i] = ks[j]  BY <1>2, <3>1, PathFacts
    <3> QED  BY <1>3, <2>1, <3>2
  <2>2. CASE New(i) /\ Old(j)
    <3>1. /\ IsPrefix(Append(q, ks[i]), todo[j - m + 1].path) /\ ks[i] \in Keys
          /\ todo[j - m + 1].path \in Seq(Keys)
          BY <1>3, <1>8, <2>2
    <3>2. IsPrefix(q, todo[j - m + 1].path)  BY <1>2, <3>1, PathFacts
    <3> QED  BY <1>8, <2>2, <3>2
  <2>3. CASE Old(i) /\ New(j)
    <3>1. /\ IsPrefix(todo[i - m + 1].path, Append(q, ks[j])) /\ ks[j] \in Keys
          /\ todo[i - m + 1].path \in Seq(Keys)
          BY <1>3, <1>8, <2>3
    <3>2. todo[i - m + 1].path = Append(q, ks[j])  BY <1>2, <1>8, <2>3, <3>1, PathFacts
    <3>3. IsPrefix(q, Append(q, ks[j]))
      <4>1. Append(q, ks[j]) \in Seq(Keys) /\ IsPrefix(Append(q, ks[j]), Append(q, ks[j]))
            BY <1>2, <3>1, PathFacts
      <4> QED  BY <1>2, <3>1, <4>1, PathFacts
    <3> QED  BY <1>8, <2>3, <3>2, <3>3
  <2>4. CASE Old(i) /\ Old(j)
    <3>1. i - m + 1 = j - m + 1  BY <2>4 DEF Places, Apart
    <3> QED  BY <1>3, <3>1
  <2> QED  BY <1>7, <2>1, <2>2, <2>3, <2>4
<1>12. Fresh'
  <2> SUFFICES ASSUME NEW i \in 1 .. Len(todo'), NEW n \in 1 .. Len(issues)
               PROVE  ~IsPrefix(todo'[i].path, issues[n].path)
      BY <1>1 DEF Fresh
  <2>1. CASE New(i)
    <3>1. todo'[i].path = Append(q, ks[i]) /\ ks[i] \in Keys  BY <1>3, <2>1
    <3>2. issues[n].path \in Seq(Keys) /\ ~IsPrefix(q, issues[n].path)
          BY <1>2, CallFacts DEF Places, Fresh, q
    <3> QED  BY <1>2, <3>1, <3>2, PathFacts
  <2>2. CASE Old(i)  BY <2>2 DEF Places, Fresh
  <2> QED  BY <1>7, <2>1, <2>2
<1>13. NoneMissed'
  <2> SUFFICES ASSUME NEW p \in Seq(Keys), Mismatch(p), \A n \in 1 .. Len(issues) : issues[n].path # p
               PROVE  \E i \in 1 .. Len(todo') : IsPrefix(todo'[i].path, p)
      BY <1>1, SameDocuments DEF NoneMissed
  <2>1. PICK i \in 1 .. Len(todo) : IsPrefix(todo[i].path, p)
        BY <1>1 DEF Found, NoneMissed
  <2>2. CASE i = 1
    <3>1. PICK k \in Keys : k \in DOMAIN Now.exp.members /\ IsPrefix(Append(q, k), p)
          BY <1>2, <1>5, <2>1, <2>2 DEF q
    <3>2. PICK j \in 1 .. m : ks[j] = k  BY <1>3, <3>1
    <3>3. todo'[j].path = Append(q, k)  BY <1>3, <1>6, <3>2
    <3>4. j \in 1 .. Len(todo')  BY <1>2, <1>3, <1>6
    <3> QED  BY <3>1, <3>3, <3>4
  <2>3. CASE i # 1
    <3>1. i - 1 \in 1 .. Len(todo) - 1 /\ i - 1 + 1 = i  BY <1>2, <2>3
    <3>2. todo'[m + (i - 1)] = todo[i] /\ m + (i - 1) \in 1 .. Len(todo')  BY <1>6, <3>1
    <3> QED  BY <2>1, <3>2
  <2> QED  BY <2>2, <2>3
<1>14. Once' /\ Right' /\ Verdict' /\ OnlyWhileValidating'
       BY <1>1, SameDocuments DEF Found, Once, Right, Verdict, OnlyWhileValidating
<1> QED  BY <1>9, <1>10, <1>11, <1>12, <1>13, <1>14 DEF Places, Found

-----------------------------------------------------------------------------
\* Before the first call and after the last.

LEMMA InitHolds == ASSUME Init  PROVE IInv
<1>1. todo = <<>> /\ issues = <<>> /\ Len(<<>>) = 0 /\ 1 .. 0 = {} /\ DOMAIN <<>> = {}
      BY DEF Init
<1>2. Typed
  <2>1. issues \in Seq([type : Types, path : Seq(Keys)]) /\ todo \in Seq(Calls)  BY <1>1
  <2> QED  BY <1>1, <2>1 DEF Init, Typed, TypeOK, Pending
<1>3. Places  BY <1>1 DEF Places, AllReached, Apart, Fresh
<1>4. Found
      BY <1>1 DEF Init, Found, Once, Right, NoneMissed, Verdict, OnlyWhileValidating
<1> QED  BY <1>2, <1>3, <1>4 DEF IInv

LEMMA StartStep == ASSUME IInv, NEW i \in Incomings, Start(i)  PROVE IInv'
<1> USE DEF IInv
<1>1. /\ issues' = <<>> /\ isValid' = TRUE /\ pc' = "validating" /\ expected' = expected
      /\ incoming' = i /\ todo' = <<Call(<<>>, expected, i)>>
      BY DEF Start, FreshCopy
<1>2. expected \in Expectations /\ expected # Missing
  <2>1. expected \in Expectations  BY DEF Typed, TypeOK
  <2> QED  BY <2>1, ValidatorAssumption DEF IsDocument
<1> DEFINE c == Call(<<>>, expected, i)
<1>3. c \in Calls' /\ c.path = <<>> /\ <<>> \in Seq(Keys)
  <2>1. c = CallAt(<<>>)'  BY <1>1, AtRoot DEF CallAt
  <2>2. c.path = <<>> /\ <<>> \in Seq(Keys)  BY DEF Call
  <2>3. c \in Calls'  BY <2>1, <2>2 DEF Calls
  <2> QED  BY <2>2, <2>3
<1> HIDE DEF c
<1>4. /\ todo' = <<c>> /\ Len(todo') = 1 /\ todo'[1] = c /\ 1 .. Len(todo') = {1}
      /\ DOMAIN todo' = {1} /\ todo' \in Seq(Calls')
      BY <1>1, <1>3 DEF c
<1>5. Len(issues') = 0 /\ 1 .. Len(issues') = {}
      /\ issues' \in Seq([type : Types, path : Seq(Keys)])
      BY <1>1
<1>6. Typed'
      BY <1>1, <1>2, <1>3, <1>4, <1>5 DEF Typed, TypeOK, Pending
<1>7. Places'
  <2>1. Reached(<<>>)'  BY <1>1, <1>2, AtRoot DEF Reached
  <2> QED  BY <1>3, <1>4, <1>5, <2>1 DEF Places, AllReached, Apart, Fresh
<1>8. NoneMissed'
  <2>1. ASSUME NEW p \in Seq(Keys)  PROVE IsPrefix(<<>>, p)
    <3>1. Len(<<>>) = 0 /\ 1 .. Len(<<>>) = {} /\ Len(<<>>) <= Len(p)  OBVIOUS
    <3> QED  BY <1>3, <3>1, PrefixIs
  <2> QED  BY <1>3, <1>4, <2>1 DEF NoneMissed
<1>9. Once' /\ Right' /\ Verdict' /\ OnlyWhileValidating'
      BY <1>1, <1>5 DEF Once, Right, Verdict, OnlyWhileValidating
<1> QED  BY <1>6, <1>7, <1>8, <1>9 DEF Found

\* What stays when only the program counter moves.
LEMMA SameState ==
    ASSUME IInv, UNCHANGED <<expected, incoming, todo, issues, isValid>>,
           pc' \in {"idle", "validating", "done"}, pc' = "idle" => pc = "idle",
           pc = "idle" => pc' = "idle", pc' # "validating" => todo = <<>>
    PROVE  IInv'
<1>1. Typed'
      BY SameDocuments DEF IInv, Typed, TypeOK, Pending
<1>2. Places'  BY SameDocuments DEF IInv, Places, AllReached, Apart, Fresh
<1>3. Found'
      BY SameDocuments DEF IInv, Found, Once, Right, NoneMissed, Verdict, OnlyWhileValidating
<1> QED  BY <1>1, <1>2, <1>3 DEF IInv

LEMMA ReturnStep == ASSUME IInv, Return  PROVE IInv'
BY SameState DEF Return

LEMMA StutterStep == ASSUME IInv, UNCHANGED vars  PROVE IInv'
BY SameState DEF vars, IInv, Typed, TypeOK, Found, OnlyWhileValidating

THEOREM Invariance == Spec => []IInv
<1>1. Init => IInv  BY InitHolds
<1>2. IInv /\ [Next]_vars => IInv'
  <2> SUFFICES ASSUME IInv, [Next]_vars  PROVE IInv'  OBVIOUS
  <2>1. CASE NotPresent    BY <2>1, NotPresentStep
  <2>2. CASE AnythingGoes  BY <2>2, AnythingGoesStep
  <2>3. CASE Members       BY <2>3, MembersStep
  <2>4. CASE Filter        BY <2>4, FilterStep
  <2>5. CASE Compare       BY <2>5, CompareStep
  <2>6. CASE Return        BY <2>6, ReturnStep
  <2>7. ASSUME NEW i \in Incomings, Start(i)  PROVE IInv'  BY <2>7, StartStep
  <2>8. CASE UNCHANGED vars  BY <2>8, StutterStep
  <2> QED  BY <2>1, <2>2, <2>3, <2>4, <2>5, <2>6, <2>7, <2>8 DEF Next, Visit
<1> QED  BY <1>1, <1>2, PTL DEF Spec

-----------------------------------------------------------------------------
\* A validation holds documents of its expectations and its incoming values, its
\* pending calls have paths of keys, and its issues are of the three types.
THEOREM TypeCorrect == Spec => []TypeOK
<1>1. IInv => TypeOK  BY DEF IInv, Typed
<1> QED  BY <1>1, Invariance, PTL

\* A wrong position is one of those that the expectations have.
LEMMA WrongAtPositions ==
    ASSUME Typed, NEW p
    PROVE  Mismatch(p) /\ p \in Seq(Keys) <=> Mismatch(p) /\ p \in Positions
<1>1. expected \in Expectations  BY DEF Typed, TypeOK
<1> QED  BY <1>1, PositionsArePaths, ExpectedAtPositions DEF Mismatch

\* When validate() is done, nothing is to be visited: the issues' positions are
\* those of the mismatches.
LEMMA AtTheEnd ==
    ASSUME IInv, pc = "done"
    PROVE  \A p \in Positions : Mismatch(p) <=> \E n \in 1 .. Len(issues) : issues[n].path = p
<1>1. todo = <<>> /\ Len(todo) = 0 /\ 1 .. Len(todo) = {}
  <2>1. todo = <<>>  BY DEF IInv, Found, OnlyWhileValidating
  <2> QED  BY <2>1
<1> QED  BY <1>1, PositionsArePaths DEF IInv, Found, Right, NoneMissed

\* The issues of a validation are exactly the wrong positions, each once: no
\* member is skipped, none is visited twice, and nothing of an earlier validation
\* by the same step is left (validator.cpp, do_validate; response.hpp).
THEOREM IssuesAlways == Spec => []IssuesAreTheMismatches
<1>1. IInv => IssuesAreTheMismatches
  <2> SUFFICES ASSUME IInv, pc = "done"
               PROVE  /\ {issues[n].path : n \in DOMAIN issues} = {p \in Positions : Mismatch(p)}
                      /\ \A m, n \in DOMAIN issues : issues[m].path = issues[n].path => m = n
      BY DEF IssuesAreTheMismatches
  <2>1. DOMAIN issues = 1 .. Len(issues)  BY IssueFacts DEF IInv
  <2>2. \A n \in 1 .. Len(issues) : Mismatch(issues[n].path) /\ issues[n].path \in Seq(Keys)
        BY IssueFacts DEF IInv, Found, Right
  <2>3. \A n \in 1 .. Len(issues) : issues[n].path \in Positions
        BY <2>2, WrongAtPositions DEF IInv
  <2>4. {issues[n].path : n \in DOMAIN issues} = {p \in Positions : Mismatch(p)}
        BY <2>1, <2>2, <2>3, AtTheEnd
  <2> QED  BY <2>1, <2>4 DEF IInv, Found, Once
<1> QED  BY <1>1, Invariance, PTL

\* The verdict the step acts on is right: a response is valid exactly when no
\* position of the expectations is wrong in it.
THEOREM VerdictAlways == Spec => []VerdictIsRight
<1>1. IInv => VerdictIsRight
  <2> SUFFICES ASSUME IInv, pc = "done"
               PROVE  isValid <=> \A p \in Positions : ~Mismatch(p)
      BY DEF VerdictIsRight
  <2>1. issues \in Seq(Issue) /\ Len(issues) \in Nat  BY IssueFacts DEF IInv
  <2>2. isValid <=> issues = <<>>  BY DEF IInv, Found, Verdict
  <2>3. ASSUME issues = <<>>, NEW p \in Positions  PROVE ~Mismatch(p)
    <3>1. Len(issues) = 0 /\ 1 .. Len(issues) = {}  BY <2>3
    <3> QED  BY <3>1, AtTheEnd
  <2>4. ASSUME issues # <<>>  PROVE \E p \in Positions : Mismatch(p)
    <3>1. 1 \in 1 .. Len(issues)  BY <2>1, <2>4
    <3>2. Mismatch(issues[1].path) /\ issues[1].path \in Seq(Keys)
          BY <3>1, IssueFacts DEF IInv, Found, Right
    <3> QED  BY <3>2, WrongAtPositions DEF IInv
  <2> QED  BY <2>2, <2>3, <2>4
<1> QED  BY <1>1, Invariance, PTL
\* A document without a wrong position in it is complete: what is expected
\* somewhere is there, because what is expected above it is.
LEMMA CompleteWhenRight ==
    ASSUME Typed, \A p \in Positions : ~Mismatch(p),
           NEW q \in Seq(Keys), At(expected, q) # Missing
    PROVE  At(incoming, q) # Missing
<1> DEFINE T == {n \in Nat : \A p \in Seq(Keys) :
                     Len(p) = n /\ At(expected, p) # Missing => At(incoming, p) # Missing}
<1>1. \A p \in Seq(Keys) : At(expected, p) # Missing => ~Mismatch(p)
      BY ExpectedAtPositions DEF Typed, TypeOK
<1>2. 0 \in T
  <2>1. \A p \in Seq(Keys) : Len(p) = 0 => p = <<>>  OBVIOUS
  <2> QED  BY <1>1, <2>1 DEF Mismatch
<1>3. ASSUME NEW n \in Nat, n \in T  PROVE n + 1 \in T
  <2> SUFFICES ASSUME NEW p \in Seq(Keys), Len(p) = n + 1, At(expected, p) # Missing
               PROVE  At(incoming, p) # Missing
      OBVIOUS
  <2> DEFINE f == Front(p)
  <2>1. /\ p # <<>> /\ f \in Seq(Keys) /\ Len(f) = n
        /\ \A i \in 1 .. n : f[i] = p[i]
    <3>1. p # <<>>  OBVIOUS
    <3>2. /\ f \in Seq(Keys) /\ Len(f) = Len(p) - 1 /\ \A i \in 1 .. Len(p) - 1 : f[i] = p[i]
          BY <3>1, FrontIs
    <3>3. Len(p) - 1 = n  OBVIOUS
    <3> QED  BY <3>1, <3>2, <3>3
  <2> HIDE DEF f
  <2>2. IsPrefix(f, p)  BY <2>1, PrefixIs
  <2>3. At(expected, f) # Missing  BY <2>1, <2>2, AtPast
  <2>4. At(incoming, f) # Missing  BY <1>3, <2>1, <2>3
  <2> QED  BY <1>1, <2>1, <2>4 DEF Mismatch, f
<1> HIDE DEF T
<1>4. Len(q) \in T  BY <1>2, <1>3, Induction
<1> QED  BY <1>4 DEF T

\* A response that passes has all that the expectations have, at any depth, and
\* every value of theirs accepts what is there (do_validate descends into every
\* member of every object).
THEOREM SpecifiedAlways == Spec => []SpecifiedIsReceived
<1>1. IInv /\ VerdictIsRight => SpecifiedIsReceived
  <2> SUFFICES ASSUME IInv, VerdictIsRight, pc = "done", isValid,
                      NEW p \in Positions, At(expected, p) # Missing
               PROVE  At(incoming, p) # Missing /\ Accepts(At(expected, p), At(incoming, p))
      BY DEF SpecifiedIsReceived
  <2>1. \A q \in Positions : ~Mismatch(q)  BY DEF VerdictIsRight
  <2>2. p \in Seq(Keys)  BY PositionsArePaths
  <2>3. At(incoming, p) # Missing  BY <2>1, <2>2, CompleteWhenRight DEF IInv
  <2>4. p # <<>> => At(incoming, Front(p)) # Missing
    <3> SUFFICES ASSUME p # <<>>  PROVE At(incoming, Front(p)) # Missing  OBVIOUS
    <3> DEFINE f == Front(p)
    <3>1. f \in Seq(Keys) /\ IsPrefix(f, p)
      <4>1. /\ f \in Seq(Keys) /\ Len(f) = Len(p) - 1 /\ Len(p) \in Nat \ {0}
            /\ \A i \in 1 .. Len(p) - 1 : f[i] = p[i]
            BY <2>2, FrontIs
      <4> HIDE DEF f
      <4> QED  BY <2>2, <4>1, PrefixIs
    <3> HIDE DEF f
    <3>2. At(incoming, f) # Missing  BY <2>2, <2>3, <3>1, AtPast
    <3> QED  BY <3>2 DEF f
  <2> QED  BY <2>1, <2>3, <2>4 DEF Mismatch
<1> QED  BY <1>1, Invariance, VerdictAlways, PTL
=============================================================================
