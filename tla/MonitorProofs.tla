---------------------------- MODULE MonitorProofs ----------------------------
(***************************************************************************)
(* Proofs about the admin panel, for any zones, tallies and thresholds and *)
(* any number of changes during a request.  The first two sections are     *)
(* about the folds and sequences an answer is built with.                  *)
(***************************************************************************)
EXTENDS Monitor, FiniteSetTheorems, TLAPS

-----------------------------------------------------------------------------
(* Induction over a finite set, and folds.                                 *)

\* Numbers are reached by counting: what is left out has no least member.
LEMMA CountingUp ==
    ASSUME NEW T, 0 \in T, \A n \in Nat : n \in T => n + 1 \in T
    PROVE  Nat \subseteq T
<1>1. IsWellFoundedOn(OpToRel(<, Nat), Nat)
  BY NatLessThanWellFounded
<1>. SUFFICES ASSUME Nat \ T # {} PROVE FALSE
  OBVIOUS
<1>2. PICK n \in Nat \ T : \A m \in Nat \ T : <<m, n>> \notin OpToRel(<, Nat)
  BY <1>1, WFMin
<1>3. n - 1 \in Nat \ T
  <2>1. n # 0 /\ n \in Nat /\ n \notin T
    BY <1>2
  <2>2. n - 1 \in Nat /\ n = (n - 1) + 1
    BY <2>1
  <2>3. n - 1 \in T => (n - 1) + 1 \in T
    BY <2>2
  <2>. QED  BY <2>1, <2>2, <2>3
<1>4. <<n - 1, n>> \in OpToRel(<, Nat)
  BY <1>2, <1>3 DEF OpToRel
<1>. QED  BY <1>2, <1>3, <1>4

\* A set of subsets that has the empty one, and each one whose members can be taken
\* away, has them all.
LEMMA GrowingSets ==
    ASSUME NEW S, IsFiniteSet(S), NEW T, {} \in T,
           \A s \in SUBSET S : s # {} /\ (\A x \in s : s \ {x} \in T) => s \in T
    PROVE  \A s \in SUBSET S : s \in T
<1>. DEFINE W == {n \in Nat : \A s \in SUBSET S : Cardinality(s) = n => s \in T}
<1>1. 0 \in W
  BY FS_Subset, FS_EmptySet
<1>2. ASSUME NEW n \in Nat, n \in W PROVE n + 1 \in W
  <2>. SUFFICES ASSUME NEW s \in SUBSET S, Cardinality(s) = n + 1 PROVE s \in T
    OBVIOUS
  <2>1. IsFiniteSet(s) /\ s # {}
    BY FS_Subset, FS_EmptySet
  <2>2. ASSUME NEW x \in s PROVE s \ {x} \in T
    <3>1. Cardinality(s \ {x}) = Cardinality(s) - 1
      BY <2>1, FS_RemoveElement
    <3>2. Cardinality(s \ {x}) = n /\ s \ {x} \in SUBSET S
      BY <3>1
    <3>. QED  BY <1>2, <3>2
  <2>. QED  BY <2>1, <2>2
<1>3. Nat \subseteq W
  <2>. HIDE DEF W
  <2>. QED  BY <1>1, <1>2, CountingUp
<1>4. \A s \in SUBSET S : Cardinality(s) \in Nat
  BY FS_Subset, FS_CardinalityType
<1>. QED  BY <1>3, <1>4

\* c chooses a member of each subset of S; h[x][v] is v folded with the member x; i[s] is
\* b folded with the members of s.
Picks(c, S)          == \A s \in SUBSET S : s # {} => c[s] \in s
Closed(h, S, V)      == \A x \in S, v \in V : h[x][v] \in V
Folds(i, S, b, c, h) ==
    i = [s \in SUBSET S |-> IF s = {} THEN b ELSE h[c[s]][i[s \ {c[s]}]]]

\* There is such a function: one that is right up to n members is extended to n + 1.
LEMMA FoldExists ==
    ASSUME NEW S, IsFiniteSet(S), NEW V, NEW b \in V, NEW c, NEW h,
           Picks(c, S), Closed(h, S, V)
    PROVE  \E i : Folds(i, S, b, c, h)
<1>. DEFINE Longer(g) == [s \in SUBSET S |-> IF s = {} THEN b ELSE h[c[s]][g[s \ {c[s]}]]]
<1>. DEFINE Good(g, n) == \A s \in SUBSET S : Cardinality(s) <= n => g[s] = Longer(g)[s]
<1>. DEFINE W == {n \in Nat : \E g \in [SUBSET S -> V] : Good(g, n)}
<1>p. /\ \A s \in SUBSET S : s # {} => c[s] \in s
      /\ \A x \in S, v \in V : h[x][v] \in V
  BY DEF Picks, Closed
<1>0. ASSUME NEW g \in [SUBSET S -> V] PROVE Longer(g) \in [SUBSET S -> V]
  BY <1>p
<1>1. 0 \in W
  <2>1. [s \in SUBSET S |-> b] \in [SUBSET S -> V]
    OBVIOUS
  <2>2. \A s \in SUBSET S : Cardinality(s) <= 0 => s = {}
    BY FS_Subset, FS_EmptySet, FS_CardinalityType
  <2>3. Good([s \in SUBSET S |-> b], 0)
    BY <2>2
  <2>. QED  BY <2>1, <2>3
<1>2. ASSUME NEW n \in Nat, n \in W PROVE n + 1 \in W
  <2>1. PICK g \in [SUBSET S -> V] : Good(g, n)
    BY <1>2
  <2>. DEFINE k == Longer(g)
  <2>2. k \in [SUBSET S -> V]
    BY <1>0
  <2>3. ASSUME NEW s \in SUBSET S, Cardinality(s) <= n + 1 PROVE k[s] = Longer(k)[s]
    <3>1. CASE s = {}
      BY <3>1
    <3>2. CASE s # {}
      <4>1. c[s] \in s
        BY <1>p, <3>2
      <4>. DEFINE r == s \ {c[s]}
      <4>2. r \in SUBSET S /\ Cardinality(r) <= n
        <5>1. IsFiniteSet(s) /\ Cardinality(s) \in Nat
          BY FS_Subset, FS_CardinalityType
        <5>2. Cardinality(r) = Cardinality(s) - 1
          BY <4>1, <5>1, FS_RemoveElement
        <5>. QED  BY <2>3, <5>1, <5>2
      <4>3. g[r] = k[r]
        BY <2>1, <4>2
      <4>4. k[s] = h[c[s]][g[r]] /\ Longer(k)[s] = h[c[s]][k[r]]
        BY <3>2
      <4>. QED  BY <4>3, <4>4
    <3>. QED  BY <3>1, <3>2
  <2>4. Good(k, n + 1)
    BY <2>3
  <2>. HIDE DEF k, Good
  <2>. QED  BY <2>2, <2>4
<1>3. Nat \subseteq W
  <2>. HIDE DEF W
  <2>. QED  BY <1>1, <1>2, CountingUp
<1>4. Cardinality(S) \in Nat
  BY FS_CardinalityType
<1>5. PICK g \in [SUBSET S -> V] : Good(g, Cardinality(S))
  BY <1>3, <1>4
<1>6. \A s \in SUBSET S : Cardinality(s) <= Cardinality(S)
  BY FS_Subset
<1>7. \A s \in SUBSET S : g[s] = Longer(g)[s]
  BY <1>5, <1>6
<1>8. g = Longer(g)
  BY <1>5, <1>7
<1>. QED  BY <1>8 DEF Folds

\* Whatever it is, its values are what the steps give.
LEMMA FoldTyped ==
    ASSUME NEW S, IsFiniteSet(S), NEW V, NEW b \in V, NEW c, NEW h,
           Picks(c, S), Closed(h, S, V), NEW i, Folds(i, S, b, c, h)
    PROVE  /\ i \in [SUBSET S -> V] /\ i[{}] = b
           /\ \A s \in SUBSET S : s # {} => c[s] \in s /\ i[s] = h[c[s]][i[s \ {c[s]}]]
<1>. DEFINE T == {s \in SUBSET S : i[s] \in V}
<1>1. /\ i = [s \in SUBSET S |-> i[s]] /\ i[{}] = b
      /\ \A s \in SUBSET S : s # {} => c[s] \in s /\ i[s] = h[c[s]][i[s \ {c[s]}]]
  BY DEF Folds, Picks
<1>2. {} \in T
  BY <1>1
<1>3. ASSUME NEW s \in SUBSET S, s # {}, \A x \in s : s \ {x} \in T PROVE s \in T
  <2>1. c[s] \in s /\ i[s] = h[c[s]][i[s \ {c[s]}]] /\ i[s \ {c[s]}] \in V
    BY <1>1, <1>3
  <2>. QED  BY <2>1 DEF Closed
<1>4. \A s \in SUBSET S : s \in T
  <2>. HIDE DEF T
  <2>. QED  BY <1>2, <1>3, GrowingSets
<1>. QED  BY <1>1, <1>4

-----------------------------------------------------------------------------
(* Sums.                                                                   *)

\* Some member of s, always the same.
Some(s) == CHOOSE x \in s : TRUE

\* i[s] is the sum of f over s, member by member.
Adds(i, B, f) ==
    /\ i[{}] = 0
    /\ \A s \in SUBSET B : s # {} => Some(s) \in s /\ i[s] = f[Some(s)] + i[s \ {Some(s)}]

LEMMA SumUnfolds ==
    ASSUME NEW B, IsFiniteSet(B), NEW f \in [B -> Nat]
    PROVE  \E i \in [SUBSET B -> Nat] : SumOf(f) = i[B] /\ Adds(i, B, f)
<1>. DEFINE c == [s \in SUBSET B |-> CHOOSE x \in s : TRUE]
<1>. DEFINE h == [x \in B |-> [v \in Nat |-> f[x] + v]]
<1>. DEFINE Eq(i) == i = [s \in SUBSET B |-> IF s = {} THEN 0
                       ELSE f[CHOOSE x \in s : TRUE] + i[s \ {CHOOSE x \in s : TRUE}]]
<1>1. Picks(c, B) /\ Closed(h, B, Nat) /\ 0 \in Nat
  BY DEF Picks, Closed
<1>2. ASSUME NEW s \in SUBSET B, s # {}, NEW v \in Nat PROVE h[c[s]][v] = f[CHOOSE x \in s : TRUE] + v
  BY <1>1, <1>2 DEF Picks
<1>3. PICK k : Folds(k, B, 0, c, h)
  <2>. HIDE DEF c, h
  <2>. QED  BY <1>1, FoldExists
<1>4. k \in [SUBSET B -> Nat]
  <2>. HIDE DEF c, h
  <2>. QED  BY <1>1, <1>3, FoldTyped
<1>5. Eq(k)
  <2>1. ASSUME NEW s \in SUBSET B, s # {}
        PROVE  h[c[s]][k[s \ {c[s]}]]
                 = f[CHOOSE x \in s : TRUE] + k[s \ {CHOOSE x \in s : TRUE}]
    BY <1>2, <1>4, <2>1
  <2>. QED  BY <1>3, <2>1 DEF Folds
<1>. DEFINE i == CHOOSE j : Eq(j)
<1>6. SumOf(f) = i[B]
  BY DEF SumOf, FoldSet, MapThenFoldSet
<1>7. Eq(i)
  BY <1>5
<1>. HIDE DEF i
<1>8. i = [s \in SUBSET B |-> i[s]] /\ i[{}] = 0
  BY <1>7
<1>9. ASSUME NEW s \in SUBSET B, s # {}
      PROVE  Some(s) \in s /\ i[s] = f[Some(s)] + i[s \ {Some(s)}]
  BY <1>7, <1>9 DEF Some
<1>. DEFINE T == {s \in SUBSET B : i[s] \in Nat}
<1>10. \A s \in SUBSET B : s \in T
  <2>1. {} \in T
    BY <1>8
  <2>2. ASSUME NEW s \in SUBSET B, s # {}, \A x \in s : s \ {x} \in T PROVE s \in T
    <3>1. i[s \ {Some(s)}] \in Nat /\ f[Some(s)] \in Nat
      BY <1>9, <2>2
    <3>2. f[Some(s)] + i[s \ {Some(s)}] \in Nat
      BY <3>1
    <3>. QED  BY <1>9, <2>2, <3>2
  <2>. HIDE DEF T
  <2>. QED  BY <2>1, <2>2, GrowingSets
<1>11. i \in [SUBSET B -> Nat]
  BY <1>8, <1>10
<1>. QED  BY <1>6, <1>8, <1>9, <1>11 DEF Adds

\* Summing two things of each is summing one, then the other.
LEMMA SumsAdd ==
    ASSUME NEW B, IsFiniteSet(B), NEW f \in [B -> Nat], NEW g \in [B -> Nat],
           NEW k \in [B -> Nat], \A x \in B : k[x] = f[x] + g[x]
    PROVE  SumOf(f) \in Nat /\ SumOf(g) \in Nat /\ SumOf(k) = SumOf(f) + SumOf(g)
<1>1. PICK i \in [SUBSET B -> Nat] : SumOf(f) = i[B] /\ Adds(i, B, f)
  BY SumUnfolds
<1>2. PICK j \in [SUBSET B -> Nat] : SumOf(g) = j[B] /\ Adds(j, B, g)
  BY SumUnfolds
<1>3. PICK m \in [SUBSET B -> Nat] : SumOf(k) = m[B] /\ Adds(m, B, k)
  BY SumUnfolds
<1>. DEFINE T == {s \in SUBSET B : m[s] = i[s] + j[s]}
<1>4. {} \in T
  BY <1>1, <1>2, <1>3 DEF Adds
<1>5. ASSUME NEW s \in SUBSET B, s # {}, \A x \in s : s \ {x} \in T PROVE s \in T
  <2>. DEFINE x == Some(s)
  <2>. DEFINE r == s \ {x}
  <2>1. x \in B /\ r \in SUBSET B /\ m[r] = i[r] + j[r]
    BY <1>1, <1>5 DEF Adds
  <2>2. k[x] = f[x] + g[x] /\ f[x] \in Nat /\ g[x] \in Nat /\ i[r] \in Nat /\ j[r] \in Nat
    BY <2>1
  <2>3. i[s] = f[x] + i[r] /\ j[s] = g[x] + j[r] /\ m[s] = k[x] + m[r]
    BY <1>1, <1>2, <1>3, <1>5 DEF Adds
  <2>. HIDE DEF x, r
  <2>4. m[s] = i[s] + j[s]
    BY <2>1, <2>2, <2>3
  <2>. QED  BY <2>4
<1>6. B \in T
  <2>. HIDE DEF T
  <2>. QED  BY <1>4, <1>5, GrowingSets
<1>. QED  BY <1>1, <1>2, <1>3, <1>6

-----------------------------------------------------------------------------
(* Sequences.                                                              *)

LEMMA MaxIsThere ==
    ASSUME NEW n \in Nat, NEW D \in SUBSET (1..n), D # {}
    PROVE  Max(D) \in D
<1>. DEFINE T == {d \in SUBSET (1..n) : d = {} \/ \E x \in d : \A y \in d : x >= y}
<1>1. IsFiniteSet(1..n)
  BY FS_Interval
<1>2. ASSUME NEW s \in SUBSET (1..n), s # {}, \A x \in s : s \ {x} \in T PROVE s \in T
  <2>1. PICK x \in s : TRUE
    BY <1>2
  <2>2. CASE s \ {x} = {}
    <3>1. x >= x /\ \A y \in s : y = x
      BY <2>2
    <3>. QED  BY <3>1
  <2>3. CASE s \ {x} # {}
    <3>1. PICK z \in s \ {x} : \A y \in s \ {x} : z >= y
      BY <1>2, <2>3
    <3>2. x \in Nat /\ z \in Nat /\ s \subseteq Nat
      OBVIOUS
    <3>3. CASE z >= x
      <4>1. \A y \in s : z >= y
        BY <3>1, <3>3
      <4>. QED  BY <4>1
    <3>4. CASE x >= z
      <4>1. \A y \in s : x >= y
        BY <3>1, <3>2, <3>4
      <4>. QED  BY <4>1
    <3>. QED  BY <3>2, <3>3, <3>4
  <2>. QED  BY <2>2, <2>3
<1>3. D \in T
  <2>1. {} \in T
    OBVIOUS
  <2>. HIDE DEF T
  <2>. QED  BY <1>1, <1>2, <2>1, GrowingSets
<1>. QED  BY <1>3 DEF Max

LEMMA AppendedSet ==
    ASSUME NEW A, NEW v \in Seq(A), NEW e
    PROVE  ToSet(Append(v, e)) = ToSet(v) \cup {e}
<1>1. /\ DOMAIN v = 1..Len(v) /\ Len(v) \in Nat
      /\ DOMAIN Append(v, e) = 1..(Len(v) + 1)
      /\ \A k \in 1..Len(v) : Append(v, e)[k] = v[k]
      /\ Append(v, e)[Len(v) + 1] = e
  OBVIOUS
<1>2. 1..(Len(v) + 1) = 1..Len(v) \cup {Len(v) + 1}
  BY <1>1
<1>. QED  BY <1>1, <1>2 DEF ToSet

\* What is filtered has its level, comes from the sequence, and none is missing.
LEMMA Filtered ==
    ASSUME NEW A, NEW q \in Seq(A), NEW level
    PROVE  /\ OfLevel(level, q) \in Seq(A)
           /\ ToSet(OfLevel(level, q)) = {a \in ToSet(q) : a.level = level}
<1>. DEFINE B == DOMAIN q
<1>. DEFINE c == [D \in SUBSET B |-> Max(D)]
<1>. DEFINE h == [x \in B |-> [v \in Seq(A) |-> IF q[x].level = level THEN Append(v, q[x]) ELSE v]]
<1>. DEFINE Eq(i) == i = [D \in SUBSET B |-> IF D = {} THEN <<>>
                       ELSE IF q[Max(D)].level = level THEN Append(i[D \ {Max(D)}], q[Max(D)])
                                                       ELSE i[D \ {Max(D)}]]
<1>0. /\ B = 1..Len(q) /\ Len(q) \in Nat /\ IsFiniteSet(B) /\ <<>> \in Seq(A)
      /\ \A x \in B : q[x] \in A
  BY FS_Interval
<1>1. Picks(c, B)
  BY <1>0, MaxIsThere DEF Picks
<1>2. Closed(h, B, Seq(A))
  BY <1>0 DEF Closed
<1>3. PICK k : Folds(k, B, <<>>, c, h)
  <2>. HIDE DEF B, c, h
  <2>. QED  BY <1>0, <1>1, <1>2, FoldExists
<1>4. k \in [SUBSET B -> Seq(A)]
  <2>. HIDE DEF B, c, h
  <2>. QED  BY <1>0, <1>1, <1>2, <1>3, FoldTyped
<1>5. ASSUME NEW i \in [SUBSET B -> Seq(A)], NEW D \in SUBSET B, D # {}
      PROVE  /\ c[D] = Max(D) /\ Max(D) \in D /\ i[D \ {Max(D)}] \in Seq(A)
             /\ h[c[D]][i[D \ {c[D]}]] = IF q[Max(D)].level = level
                                          THEN Append(i[D \ {Max(D)}], q[Max(D)])
                                          ELSE i[D \ {Max(D)}]
  <2>1. c[D] = Max(D) /\ Max(D) \in D
    BY <1>1, <1>5 DEF Picks
  <2>. QED  BY <2>1, <1>0
<1>6. Eq(k)
  BY <1>3, <1>4, <1>5 DEF Folds
<1>. DEFINE i == CHOOSE j : Eq(j)
<1>7. OfLevel(level, q) = i[B]
  BY DEF OfLevel, FoldLeft, MapThenFoldSet
<1>8. Eq(i)
  BY <1>6
<1>. HIDE DEF i
<1>9. i = [D \in SUBSET B |-> i[D]] /\ i[{}] = <<>>
  BY <1>8
<1>10. ASSUME NEW D \in SUBSET B, D # {}
       PROVE  /\ Max(D) \in D
              /\ i[D] = IF q[Max(D)].level = level THEN Append(i[D \ {Max(D)}], q[Max(D)])
                                                   ELSE i[D \ {Max(D)}]
  BY <1>0, <1>8, <1>10, MaxIsThere
<1>. DEFINE At(D) == {x \in D : q[x].level = level}
<1>. DEFINE T == {D \in SUBSET B : /\ i[D] \in Seq(A)
                                  /\ ToSet(i[D]) = {q[x] : x \in At(D)}}
<1>11. {} \in T
  <2>1. ToSet(<<>>) = {} /\ {q[x] : x \in At({})} = {}
    BY DEF ToSet
  <2>. HIDE DEF At
  <2>. QED  BY <1>0, <1>9, <2>1
<1>12. ASSUME NEW D \in SUBSET B, D # {}, \A x \in D : D \ {x} \in T PROVE D \in T
  <2>. DEFINE x == Max(D)
  <2>. DEFINE r == D \ {x}
  <2>1. x \in D /\ q[x] \in A
    BY <1>0, <1>10, <1>12
  <2>2. i[r] \in Seq(A) /\ ToSet(i[r]) = {q[y] : y \in At(r)}
    BY <1>12, <2>1
  <2>3. CASE q[x].level = level
    <3>1. i[D] = Append(i[r], q[x]) /\ At(D) = At(r) \cup {x}
      BY <1>10, <1>12, <2>1, <2>3
    <3>2. Append(i[r], q[x]) \in Seq(A)
      BY <2>1, <2>2
    <3>3. ToSet(i[D]) = ToSet(i[r]) \cup {q[x]}
      BY <2>2, <3>1, AppendedSet
    <3>4. {q[y] : y \in At(D)} = {q[y] : y \in At(r)} \cup {q[x]}
      <4>. HIDE DEF At, r, x
      <4>. QED  BY <3>1
    <3>. HIDE DEF At, r, x
    <3>. QED  BY <2>2, <3>1, <3>2, <3>3, <3>4
  <2>4. CASE q[x].level # level
    <3>1. i[D] = i[r] /\ At(D) = At(r)
      BY <1>10, <1>12, <2>1, <2>4
    <3>. HIDE DEF At, r, x
    <3>. QED  BY <2>2, <3>1
  <2>. QED  BY <2>3, <2>4
<1>13. B \in T
  <2>1. IsFiniteSet(B)
    BY <1>0
  <2>. HIDE DEF T, B
  <2>2. \A D \in SUBSET B : D \in T
    BY <1>11, <1>12, <2>1, GrowingSets
  <2>. QED  BY <2>2
<1>. QED  BY <1>7, <1>13 DEF ToSet

LEMMA Joined ==
    ASSUME NEW A, NEW p \in Seq(A), NEW q \in Seq(A)
    PROVE  p \o q \in Seq(A) /\ ToSet(p \o q) = ToSet(p) \cup ToSet(q)
<1>1. /\ DOMAIN p = 1..Len(p) /\ Len(p) \in Nat /\ DOMAIN q = 1..Len(q) /\ Len(q) \in Nat
      /\ DOMAIN (p \o q) = 1..(Len(p) + Len(q))
      /\ \A k \in 1..Len(p) : (p \o q)[k] = p[k]
      /\ \A k \in 1..Len(q) : (p \o q)[Len(p) + k] = q[k]
  OBVIOUS
<1>2. ASSUME NEW k \in 1..(Len(p) + Len(q)) PROVE (p \o q)[k] \in ToSet(p) \cup ToSet(q)
  <2>1. CASE k <= Len(p)
    BY <1>1, <2>1 DEF ToSet
  <2>2. CASE k > Len(p)
    <3>1. k - Len(p) \in 1..Len(q) /\ k = Len(p) + (k - Len(p))
      BY <1>1, <2>2
    <3>. QED  BY <1>1, <3>1 DEF ToSet
  <2>. QED  BY <1>1, <2>1, <2>2
<1>3. ToSet(p) \subseteq ToSet(p \o q)
  BY <1>1 DEF ToSet
<1>4. ToSet(q) \subseteq ToSet(p \o q)
  <2>1. \A k \in 1..Len(q) : Len(p) + k \in 1..(Len(p) + Len(q))
    BY <1>1
  <2>. QED  BY <1>1, <2>1 DEF ToSet
<1>5. ToSet(p \o q) \subseteq ToSet(p) \cup ToSet(q)
  BY <1>1, <1>2 DEF ToSet
<1>. QED  BY <1>3, <1>4, <1>5

\* A finite set is listed whole, once each.
LEMMA Listed ==
    ASSUME NEW S, IsFiniteSet(S)
    PROVE  SetToSeq(S) \in Seq(S) /\ ToSet(SetToSeq(S)) = S
<1>. DEFINE n == Cardinality(S)
<1>. DEFINE f == SetToSeq(S)
<1>1. n \in Nat /\ ExistsBijection(1..n, S)
  BY FS_CardinalityType
<1>2. \E g \in [1..n -> S] : IsInjective(g)
  BY <1>1 DEF ExistsBijection, Bijection, Injection
<1>3. f \in [1..n -> S] /\ IsInjective(f)
  BY <1>2 DEF SetToSeq
<1>. HIDE DEF f
<1>4. f \in Injection(1..n, S)
  BY <1>3 DEF Injection
<1>5. Cardinality(1..n) = n
  BY <1>1, FS_Interval
<1>6. f \in Surjection(1..n, S)
  BY <1>4, <1>5, FS_Injection
<1>7. f \in Seq(S) /\ DOMAIN f = 1..n
  BY <1>1, <1>3
<1>8. ToSet(f) = S
  BY <1>3, <1>6, <1>7 DEF ToSet, Surjection
<1>. QED  BY <1>7, <1>8 DEF f

-----------------------------------------------------------------------------
(* The order of an answer.                                                 *)

Rank == [critical |-> 0, warning |-> 1, info |-> 2]
InOrder(q) == \A i, j \in DOMAIN q : i < j => Rank[q[i].level] <= Rank[q[j].level]

LEMMA RankNat == \A a \in Alerts : Rank[a.level] \in 0..2
  BY DEF Alerts, Rank

LEMMA JoinedInOrder ==
    ASSUME NEW p \in Seq(Alerts), NEW q \in Seq(Alerts), InOrder(p), InOrder(q),
           \A a \in ToSet(p), b \in ToSet(q) : Rank[a.level] <= Rank[b.level]
    PROVE  InOrder(p \o q)
<1>1. /\ DOMAIN p = 1..Len(p) /\ Len(p) \in Nat /\ DOMAIN q = 1..Len(q) /\ Len(q) \in Nat
      /\ DOMAIN (p \o q) = 1..(Len(p) + Len(q))
      /\ \A k \in 1..Len(p) : (p \o q)[k] = p[k]
      /\ \A k \in 1..Len(q) : (p \o q)[Len(p) + k] = q[k]
  OBVIOUS
<1>2. SUFFICES ASSUME NEW i \in 1..(Len(p) + Len(q)), NEW j \in 1..(Len(p) + Len(q)), i < j
               PROVE  Rank[(p \o q)[i].level] <= Rank[(p \o q)[j].level]
  BY <1>1 DEF InOrder
<1>3. CASE j <= Len(p)
  BY <1>1, <1>2, <1>3 DEF InOrder
<1>4. CASE i <= Len(p) /\ j > Len(p)
  <2>1. j - Len(p) \in 1..Len(q) /\ j = Len(p) + (j - Len(p)) /\ i \in 1..Len(p)
    BY <1>1, <1>2, <1>4
  <2>2. p[i] \in ToSet(p) /\ q[j - Len(p)] \in ToSet(q)
    BY <1>1, <2>1 DEF ToSet
  <2>3. (p \o q)[i] = p[i] /\ (p \o q)[j] = q[j - Len(p)]
    BY <1>1, <2>1
  <2>. QED  BY <2>2, <2>3
<1>5. CASE i > Len(p)
  <2>1. /\ j - Len(p) \in 1..Len(q) /\ j = Len(p) + (j - Len(p))
        /\ i - Len(p) \in 1..Len(q) /\ i = Len(p) + (i - Len(p))
        /\ i - Len(p) < j - Len(p)
    BY <1>1, <1>2, <1>5
  <2>2. (p \o q)[i] = q[i - Len(p)] /\ (p \o q)[j] = q[j - Len(p)]
    BY <1>1, <2>1
  <2>. QED  BY <1>1, <2>1, <2>2 DEF InOrder
<1>. QED  BY <1>1, <1>2, <1>3, <1>4, <1>5

\* Sorting loses nothing, adds nothing, and puts the graver first.
LEMMA SortedByLevel ==
    ASSUME NEW q \in Seq(Alerts)
    PROVE  ByLevel(q) \in Seq(Alerts) /\ ToSet(ByLevel(q)) = ToSet(q) /\ InOrder(ByLevel(q))
<1>. DEFINE c == OfLevel("critical", q)
<1>. DEFINE w == OfLevel("warning", q)
<1>. DEFINE n == OfLevel("info", q)
<1>1. /\ c \in Seq(Alerts) /\ ToSet(c) = {a \in ToSet(q) : a.level = "critical"}
      /\ w \in Seq(Alerts) /\ ToSet(w) = {a \in ToSet(q) : a.level = "warning"}
      /\ n \in Seq(Alerts) /\ ToSet(n) = {a \in ToSet(q) : a.level = "info"}
  BY Filtered
<1>2. ByLevel(q) = (c \o w) \o n
  BY DEF ByLevel
<1>. HIDE DEF c, w, n
<1>3. /\ c \o w \in Seq(Alerts) /\ ToSet(c \o w) = ToSet(c) \cup ToSet(w)
      /\ (c \o w) \o n \in Seq(Alerts) /\ ToSet((c \o w) \o n) = ToSet(c \o w) \cup ToSet(n)
  <2>1. c \o w \in Seq(Alerts) /\ ToSet(c \o w) = ToSet(c) \cup ToSet(w)
    BY <1>1, Joined
  <2>. DEFINE d == c \o w
  <2>2. d \in Seq(Alerts)
    BY <2>1
  <2>. HIDE DEF d
  <2>3. d \o n \in Seq(Alerts) /\ ToSet(d \o n) = ToSet(d) \cup ToSet(n)
    BY <1>1, <2>2, Joined
  <2>. QED  BY <2>1, <2>3 DEF d
<1>4. \A a \in ToSet(q) : a \in Alerts /\ a.level \in {"critical", "warning", "info"}
  <2>1. \A a \in ToSet(q) : a \in Alerts
    BY DEF ToSet
  <2>2. \A a \in Alerts : a.level \in {"critical", "warning", "info"}
    BY DEF Alerts
  <2>. QED  BY <2>1, <2>2
<1>5. ToSet((c \o w) \o n) = ToSet(q)
  BY <1>1, <1>3, <1>4
<1>6. ASSUME NEW p \in Seq(Alerts), NEW level \in {"critical", "warning", "info"},
             \A a \in ToSet(p) : a.level = level
      PROVE  InOrder(p)
  <2>1. \A k \in DOMAIN p : p[k].level = level
    BY <1>6 DEF ToSet
  <2>2. Rank[level] \in 0..2
    BY DEF Rank
  <2>. QED  BY <2>1, <2>2 DEF InOrder
<1>7. InOrder(c) /\ InOrder(w) /\ InOrder(n)
  BY <1>1, <1>6
<1>8. Rank["critical"] = 0 /\ Rank["warning"] = 1 /\ Rank["info"] = 2
  BY DEF Rank
<1>9. InOrder(c \o w)
  <2>1. \A a \in ToSet(c), b \in ToSet(w) : Rank[a.level] <= Rank[b.level]
    BY <1>1, <1>8
  <2>. QED  BY <1>1, <1>7, <2>1, JoinedInOrder
<1>10. InOrder((c \o w) \o n)
  <2>1. \A a \in ToSet(c \o w), b \in ToSet(n) : Rank[a.level] <= Rank[b.level]
    BY <1>1, <1>3, <1>8
  <2>. QED  BY <1>1, <1>3, <1>7, <1>9, <2>1, JoinedInOrder
<1>. QED  BY <1>2, <1>3, <1>5, <1>10

-----------------------------------------------------------------------------
(* The alerts of a request.                                                *)

\* What a request that has read r has to report.
Reported(r) ==
    {a \in Alerts :
       \/ a.about \in Blocks /\ OccupancyDue(a.about, r.groups, a.level)
       \/ a.about \in r.down /\ a.level = "critical"
       \/ a.about = "reservations" /\ r.booked /\ a.level = "info"}

\* The thresholds leave no gap and do not overlap.
LEMMA OneLevel ==
    ASSUME NEW g \in Worlds, NEW z \in Blocks
    PROVE  /\ Level(g[z]) \in {"critical", "warning", "none"} /\ Size(g[z]) \in Nat
           /\ \A level \in {"critical", "warning", "info"} :
                OccupancyDue(z, g, level) <=> Size(g[z]) >= MinSpots /\ Level(g[z]) = level
<1>. DEFINE t == g[z]
<1>. DEFINE rate == t.occupied * 100
<1>. DEFINE top == Critical * Size(t)
<1>. DEFINE mid == Warning * Size(t)
<1>1. t.occupied \in Nat /\ t.others \in Nat /\ Size(t) \in Nat
  BY TalliesType DEF Worlds, Size
<1>2. rate \in Int /\ top \in Int /\ mid \in Int
  BY <1>1, LevelsType
<1>3. Level(t) = CASE rate >= top -> "critical"
                   [] rate >= mid /\ rate < top -> "warning"
                   [] OTHER -> "none"
  BY DEF Level
<1>4. \A level : OccupancyDue(z, g, level) <=>
                   /\ Size(t) >= MinSpots
                   /\ CASE level = "critical" -> rate >= top
                        [] level = "warning"  -> rate >= mid /\ rate < top
                        [] level = "info"     -> FALSE
  BY DEF OccupancyDue
<1>. HIDE DEF rate, top, mid
<1>5. /\ OccupancyDue(z, g, "critical") <=> Size(t) >= MinSpots /\ rate >= top
      /\ OccupancyDue(z, g, "warning") <=> Size(t) >= MinSpots /\ rate >= mid /\ rate < top
      /\ ~OccupancyDue(z, g, "info")
  BY <1>4
<1>6. /\ rate >= top => Level(t) = "critical"
      /\ rate >= mid /\ rate < top => Level(t) = "warning"
      /\ ~(rate >= mid) /\ ~(rate >= top) => Level(t) = "none"
  BY <1>2, <1>3
<1>7. rate < top <=> ~(rate >= top)
  BY <1>2
<1>. QED  BY <1>1, <1>5, <1>6, <1>7

\* What is pushed is what there is to report.
LEMMA PushedIsReported ==
    ASSUME NEW r, r.groups \in Worlds, r.down \subseteq {"db", "redis"}, r.booked \in BOOLEAN
    PROVE  Pushed(r) \in Seq(Alerts) /\ ToSet(Pushed(r)) = Reported(r)
<1>. DEFINE one(level, about) == [level |-> level, about |-> about]
<1>. DEFINE S == {z \in Blocks : Size(r.groups[z]) >= MinSpots /\ Level(r.groups[z]) # "none"}
<1>. DEFINE zones == SetToSeq(S)
<1>. DEFINE p1 == [k \in DOMAIN zones |-> one(Level(r.groups[zones[k]]), zones[k])]
<1>. DEFINE p2 == IF "db" \in r.down THEN <<one("critical", "db")>> ELSE <<>>
<1>. DEFINE p3 == IF "redis" \in r.down THEN <<one("critical", "redis")>> ELSE <<>>
<1>. DEFINE p4 == IF r.booked THEN <<one("info", "reservations")>> ELSE <<>>
<1>1. /\ one("critical", "db") \in Alerts /\ one("critical", "redis") \in Alerts
      /\ one("info", "reservations") \in Alerts
  BY DEF Alerts
<1>2. zones \in Seq(S) /\ ToSet(zones) = S
  <2>1. IsFiniteSet(S)
    BY BlocksType, FS_Subset
  <2>. HIDE DEF S
  <2>. QED  BY <2>1, Listed
<1>3. \A z \in S : one(Level(r.groups[z]), z) \in Alerts
  BY OneLevel DEF Alerts
<1>4. /\ p1 \in Seq(Alerts)
      /\ ToSet(p1) = {one(Level(r.groups[z]), z) : z \in S}
  <2>1. /\ DOMAIN zones = 1..Len(zones) /\ Len(zones) \in Nat
        /\ \A k \in DOMAIN zones : zones[k] \in S
    <3>. HIDE DEF zones, S
    <3>. QED  BY <1>2
  <2>2. \A k \in DOMAIN zones : p1[k] \in Alerts
    BY <1>3, <2>1
  <2>3. p1 \in Seq(Alerts)
    <3>1. p1 \in [1..Len(zones) -> Alerts]
      BY <2>1, <2>2
    <3>. HIDE DEF p1
    <3>. QED  BY <2>1, <3>1
  <2>4. ToSet(p1) \subseteq {one(Level(r.groups[z]), z) : z \in S}
    BY <2>1 DEF ToSet
  <2>5. ASSUME NEW z \in S PROVE one(Level(r.groups[z]), z) \in ToSet(p1)
    <3>1. PICK k \in DOMAIN zones : zones[k] = z
      BY <1>2 DEF ToSet
    <3>. QED  BY <3>1 DEF ToSet
  <2>. QED  BY <2>3, <2>4, <2>5
<1>5. /\ p2 \in Seq(Alerts) /\ ToSet(p2) = {one("critical", s) : s \in r.down \cap {"db"}}
      /\ p3 \in Seq(Alerts) /\ ToSet(p3) = {one("critical", s) : s \in r.down \cap {"redis"}}
      /\ p4 \in Seq(Alerts) /\ ToSet(p4) = IF r.booked THEN {one("info", "reservations")} ELSE {}
  BY <1>1 DEF ToSet
<1>6. Pushed(r) = ((p1 \o p2) \o p3) \o p4
  BY DEF Pushed
<1>. HIDE DEF p1, p2, p3, p4
<1>7. /\ Pushed(r) \in Seq(Alerts)
      /\ ToSet(Pushed(r)) = ToSet(p1) \cup ToSet(p2) \cup ToSet(p3) \cup ToSet(p4)
  <2>1. p1 \o p2 \in Seq(Alerts) /\ ToSet(p1 \o p2) = ToSet(p1) \cup ToSet(p2)
    BY <1>4, <1>5, Joined
  <2>. DEFINE q2 == p1 \o p2
  <2>2. q2 \in Seq(Alerts)
    BY <2>1
  <2>. HIDE DEF q2
  <2>3. q2 \o p3 \in Seq(Alerts) /\ ToSet(q2 \o p3) = ToSet(q2) \cup ToSet(p3)
    BY <1>5, <2>2, Joined
  <2>. DEFINE q3 == q2 \o p3
  <2>4. q3 \in Seq(Alerts)
    BY <2>3
  <2>. HIDE DEF q3
  <2>5. q3 \o p4 \in Seq(Alerts) /\ ToSet(q3 \o p4) = ToSet(q3) \cup ToSet(p4)
    BY <1>5, <2>4, Joined
  <2>. QED  BY <1>6, <2>1, <2>3, <2>5 DEF q2, q3
<1>8. ASSUME NEW a \in Alerts
      PROVE  a \in ToSet(p1) <=> a.about \in Blocks /\ OccupancyDue(a.about, r.groups, a.level)
  <2>1. a = one(a.level, a.about) /\ a.level \in {"critical", "warning", "info"}
    BY DEF Alerts
  <2>2. ASSUME NEW z \in S, a = one(Level(r.groups[z]), z)
        PROVE  a.about \in Blocks /\ OccupancyDue(a.about, r.groups, a.level)
    BY <2>1, <2>2, OneLevel
  <2>3. ASSUME a.about \in Blocks, OccupancyDue(a.about, r.groups, a.level)
        PROVE  a.about \in S /\ a = one(Level(r.groups[a.about]), a.about)
    BY <2>1, <2>3, OneLevel
  <2>. QED  BY <1>4, <2>2, <2>3
<1>9. ASSUME NEW a \in Alerts
      PROVE  a \in ToSet(p2) \cup ToSet(p3) <=> a.about \in r.down /\ a.level = "critical"
  <2>1. a = one(a.level, a.about)
    BY DEF Alerts
  <2>. QED  BY <1>5, <2>1
<1>10. ASSUME NEW a \in Alerts
       PROVE  a \in ToSet(p4) <=> a.about = "reservations" /\ r.booked /\ a.level = "info"
  <2>1. a = one(a.level, a.about)
    BY DEF Alerts
  <2>. QED  BY <1>5, <2>1
<1>11. ToSet(Pushed(r)) \subseteq Alerts
  BY <1>7 DEF ToSet
<1>. QED  BY <1>7, <1>8, <1>9, <1>10, <1>11 DEF Reported

-----------------------------------------------------------------------------
(* The inductive invariant.                                                *)

\* Only what a request has begun to ask is under way, and what it has read has its shape.
ReadShape ==
    /\ ask.what = "none" => ask.todo = {}
    /\ ask.what = "alerts" => ask.todo \subseteq AlertReads
    /\ ask.what = "stats" => ask.todo \subseteq StatsReads
    /\ ask.what # "none" => answer.what = "none"
    /\ ask.what # "none" /\ "groups" \notin ask.todo => ask.groups \in Worlds
    /\ ask.down \cap ask.todo = {}

\* What is due at this moment was due at one, and what was due all the time is due now.
DueTrue ==
    ask.what = "alerts" =>
        /\ DueNow(tally, booked, services) \subseteq ever
        /\ always \subseteq DueNow(tally, booked, services)

\* What each query has read gives no alert that was never due, and lacks none that was
\* due all the time.
BlocksTrue ==
    ask.what = "alerts" /\ "groups" \notin ask.todo =>
        \A a \in Alerts : a.about \in Blocks =>
            /\ OccupancyDue(a.about, ask.groups, a.level) => a \in ever
            /\ a \in always => OccupancyDue(a.about, ask.groups, a.level)
BookedTrue ==
    ask.what = "alerts" /\ "booked" \notin ask.todo =>
        \A a \in Alerts : a.about = "reservations" =>
            /\ ask.booked /\ a.level = "info" => a \in ever
            /\ a \in always => ask.booked /\ a.level = "info"
DownTrue ==
    ask.what = "alerts" =>
        \A a \in Alerts : a.about \in {"db", "redis"} \ ask.todo =>
            /\ a.about \in ask.down /\ a.level = "critical" => a \in ever
            /\ a \in always => a.about \in ask.down /\ a.level = "critical"

\* As long as no spot came or went, the total is that of now, and so are the zones' sizes.
Spots     == SumOf([z \in Blocks |-> Size(tally[z])])
TotalTrue ==
    ask.what = "stats" /\ ~resized /\ "total" \notin ask.todo => ask.total = Spots
SizesTrue ==
    ask.what = "stats" /\ ~resized /\ "groups" \notin ask.todo =>
        \A z \in Blocks : Size(ask.groups[z]) = Size(tally[z])

ReadsTrue  == BlocksTrue /\ BookedTrue /\ DownTrue /\ TotalTrue /\ SizesTrue
MonitorInv == MonitorTypeOK /\ ReadShape /\ DueTrue /\ ReadsTrue /\ AlertsWereTrue /\ StatsAddUp

-----------------------------------------------------------------------------
LEMMA SizesNat ==
    ASSUME NEW g \in Worlds
    PROVE  /\ [z \in Blocks |-> Size(g[z])] \in [Blocks -> Nat]
           /\ [z \in Blocks |-> g[z].occupied] \in [Blocks -> Nat]
           /\ [z \in Blocks |-> g[z].others] \in [Blocks -> Nat]
           /\ \A z \in Blocks : Size(g[z]) = g[z].others + g[z].occupied
<1>1. \A z \in Blocks : g[z].occupied \in Nat /\ g[z].others \in Nat
  BY TalliesType DEF Worlds
<1>. QED  BY <1>1 DEF Size

\* What is occupied and what is not are all there is.
LEMMA SplitAddsUp ==
    ASSUME NEW g \in Worlds
    PROVE  /\ ByStatus(g).free \in Nat /\ ByStatus(g).taken \in Nat
           /\ SumOf([z \in Blocks |-> Size(g[z])]) \in Nat
           /\ ByStatus(g).free + ByStatus(g).taken = SumOf([z \in Blocks |-> Size(g[z])])
<1>. DEFINE k == [z \in Blocks |-> Size(g[z])]
<1>. DEFINE f == [z \in Blocks |-> g[z].others]
<1>. DEFINE o == [z \in Blocks |-> g[z].occupied]
<1>1. /\ k \in [Blocks -> Nat] /\ f \in [Blocks -> Nat] /\ o \in [Blocks -> Nat]
      /\ \A z \in Blocks : k[z] = f[z] + o[z]
  BY SizesNat
<1>2. ByStatus(g).free = SumOf(f) /\ ByStatus(g).taken = SumOf(o)
  BY DEF ByStatus
<1>. HIDE DEF k, f, o
<1>3. SumOf(f) \in Nat /\ SumOf(o) \in Nat /\ SumOf(k) = SumOf(f) + SumOf(o)
  BY <1>1, BlocksType, SumsAdd
<1>. QED  BY <1>2, <1>3 DEF k

\* DueNow, by what an alert is about.
LEMMA DueByAbout ==
    ASSUME NEW t, NEW b \in BOOLEAN, NEW up, NEW a \in Alerts
    PROVE  /\ a.about \in Blocks =>
                (a \in DueNow(t, b, up) <=> OccupancyDue(a.about, t, a.level))
           /\ a.about \in {"db", "redis"} =>
                (a \in DueNow(t, b, up) <=> a.about \notin up /\ a.level = "critical")
           /\ a.about = "reservations" =>
                (a \in DueNow(t, b, up) <=> b /\ a.level = "info")
BY BlocksType DEF DueNow

LEMMA MonitorStart == MonitorInit => MonitorInv
<1>. SUFFICES ASSUME MonitorInit PROVE MonitorInv
  OBVIOUS
<1>1. NoAsk \in AskRows
  BY DEF NoAsk, AskRows
<1>2. MonitorTypeOK
  <2>1. NoAnswer \in Answers
    <3>1. <<>> \in Seq(Alerts)
      OBVIOUS
    <3>. QED  BY <3>1 DEF NoAnswer, Answers
  <2>2. 0 \in 0..MaxChanges
    BY ChangesType
  <2>. QED  BY <1>1, <2>1, <2>2 DEF MonitorInit, MonitorTypeOK
<1>. QED
  BY <1>2
  DEF MonitorInit, MonitorInv, ReadShape, DueTrue, ReadsTrue, BlocksTrue, BookedTrue, DownTrue,
      TotalTrue, SizesTrue, AlertsWereTrue, StatsAddUp, NoAsk, NoAnswer

\* A step that keeps the answer keeps what is said of it, if the histories stay too.
LEMMA AnswerKept ==
    ASSUME AlertsWereTrue, StatsAddUp, UNCHANGED <<answer, ever, always, resized>>
    PROVE  AlertsWereTrue' /\ StatsAddUp'
BY DEF AlertsWereTrue, StatsAddUp

\* ... and where a request is under way there is none.
LEMMA NoAnswerYet ==
    ASSUME answer'.what = "none" PROVE AlertsWereTrue' /\ StatsAddUp'
BY DEF AlertsWereTrue, StatsAddUp

LEMMA WorldStep ==
    ASSUME MonitorInv, NEW t \in Worlds, NEW b \in BOOLEAN, NEW up \in SUBSET {"db", "redis"},
           World(t, b, up)
    PROVE  MonitorInv'
<1>1. /\ tally' = t /\ booked' = b /\ services' = up /\ changes' = changes + 1
      /\ ask' = ask /\ answer' = answer /\ ask.what # "none" /\ changes < MaxChanges
  BY DEF World
<1>2. DueNow(t, b, up) \subseteq Alerts
  BY DEF DueNow
<1>3. MonitorTypeOK'
  <2>1. changes' \in 0..MaxChanges
    BY <1>1, ChangesType DEF MonitorInv, MonitorTypeOK
  <2>2. ever' \subseteq Alerts /\ always' \subseteq Alerts /\ resized' \in BOOLEAN
    BY <1>2 DEF World, MonitorInv, MonitorTypeOK
  <2>. QED  BY <1>1, <2>1, <2>2 DEF MonitorInv, MonitorTypeOK
<1>4. ReadShape'
  BY <1>1 DEF MonitorInv, ReadShape
<1>5. AlertsWereTrue' /\ StatsAddUp'
  BY <1>1, NoAnswerYet DEF MonitorInv, ReadShape
<1>6. CASE ask.what = "alerts"
  <2>1. ever' = ever \cup DueNow(t, b, up) /\ always' = always \cap DueNow(t, b, up)
    BY <1>6 DEF World
  <2>2. DueTrue'
    BY <1>1, <2>1 DEF DueTrue
  <2>3. BlocksTrue' /\ BookedTrue' /\ DownTrue'
    BY <1>1, <2>1 DEF MonitorInv, ReadsTrue, BlocksTrue, BookedTrue, DownTrue
  <2>4. TotalTrue' /\ SizesTrue'
    BY <1>1, <1>6 DEF TotalTrue, SizesTrue
  <2>. QED  BY <1>3, <1>4, <1>5, <2>2, <2>3, <2>4 DEF MonitorInv, ReadsTrue
<1>7. CASE ask.what # "alerts"
  <2>1. DueTrue' /\ BlocksTrue' /\ BookedTrue' /\ DownTrue'
    BY <1>1, <1>7 DEF DueTrue, BlocksTrue, BookedTrue, DownTrue
  <2>2. resized' = (resized \/ \E z \in Blocks : Size(t[z]) # Size(tally[z]))
    BY <1>7 DEF World
  <2>3. ~resized' => ~resized /\ \A z \in Blocks : Size(t[z]) = Size(tally[z])
    BY <2>2
  <2>4. SizesTrue'
    BY <1>1, <2>3 DEF MonitorInv, ReadsTrue, SizesTrue
  <2>5. ~resized' => Spots' = Spots
    <3>1. ~resized' => [z \in Blocks |-> Size(t[z])] = [z \in Blocks |-> Size(tally[z])]
      BY <2>3
    <3>2. Spots' = SumOf([z \in Blocks |-> Size(t[z])])
      BY <1>1 DEF Spots
    <3>. QED  BY <3>1, <3>2 DEF Spots
  <2>6. TotalTrue'
    BY <1>1, <2>3, <2>5 DEF MonitorInv, ReadsTrue, TotalTrue
  <2>. QED  BY <1>3, <1>4, <1>5, <2>1, <2>4, <2>6 DEF MonitorInv, ReadsTrue
<1>. QED  BY <1>6, <1>7

LEMMA PollStep ==
    ASSUME MonitorInv, NEW what \in {"alerts", "stats"}, Poll(what)
    PROVE  MonitorInv'
<1>1. /\ ask'.what = what /\ ask'.down = {}
      /\ ask'.todo = IF what = "alerts" THEN AlertReads ELSE StatsReads
      /\ ask' \in AskRows
  BY DEF Poll, NoAsk, AskRows
<1>2. answer'.what = "none" /\ answer' \in Answers
  <2>1. answer' = [answer EXCEPT !.what = "none", !.alerts = <<>>] /\ answer \in Answers
    BY DEF Poll, MonitorInv, MonitorTypeOK
  <2>2. <<>> \in Seq(Alerts)
    OBVIOUS
  <2>. QED  BY <2>1, <2>2 DEF Answers
<1>3. /\ ever' = IF what = "alerts" THEN DueNow(tally, booked, services) ELSE {}
      /\ always' = ever' /\ changes' = 0 /\ resized' = FALSE
      /\ UNCHANGED <<tally, booked, services>>
  BY DEF Poll
<1>4. DueNow(tally, booked, services) \subseteq Alerts
  BY DEF DueNow
<1>5. MonitorTypeOK'
  <2>1. ever' \subseteq Alerts /\ always' \subseteq Alerts
    <3>1. CASE what = "alerts"
      BY <1>3, <1>4, <3>1
    <3>2. CASE what # "alerts"
      BY <1>3, <3>2
    <3>. QED  BY <3>1, <3>2
  <2>2. changes' \in 0..MaxChanges
    BY <1>3, ChangesType
  <2>3. resized' \in BOOLEAN
    BY <1>3
  <2>4. tally' \in Worlds /\ booked' \in BOOLEAN /\ services' \subseteq {"db", "redis"}
    BY <1>3 DEF MonitorInv, MonitorTypeOK
  <2>. QED  BY <1>1, <1>2, <2>1, <2>2, <2>3, <2>4 DEF MonitorTypeOK
<1>6. ReadShape'
  BY <1>1, <1>2, <1>3 DEF ReadShape, AlertReads, StatsReads
<1>7. DueTrue'
  BY <1>1, <1>3 DEF DueTrue
<1>8. BlocksTrue' /\ BookedTrue' /\ DownTrue' /\ TotalTrue' /\ SizesTrue'
  BY <1>1 DEF BlocksTrue, BookedTrue, DownTrue, TotalTrue, SizesTrue, AlertReads, StatsReads
<1>. QED  BY <1>2, <1>5, <1>6, <1>7, <1>8, NoAnswerYet DEF MonitorInv, ReadsTrue

LEMMA QueryStep ==
    ASSUME MonitorInv, NEW q \in AlertReads \cup StatsReads, Query(q)
    PROVE  MonitorInv'
<1>1. /\ q \in ask.todo /\ q \notin {"db", "redis"}
      /\ UNCHANGED <<tally, booked, services, answer, ever, always, changes, resized>>
      /\ ask \in AskRows
  BY DEF Query, MonitorInv, MonitorTypeOK
<1>2. /\ ask'.what = ask.what /\ ask'.todo = ask.todo \ {q} /\ ask'.down = ask.down
      /\ ask'.groups = IF q = "groups" THEN tally ELSE ask.groups
      /\ ask'.total = IF q = "total" THEN Spots ELSE ask.total
      /\ ask'.booked = IF q = "booked" THEN booked ELSE ask.booked
  BY <1>1 DEF Query, AskRows, Spots
<1>3. ask' \in AskRows
  <2>1. Spots \in Nat /\ tally \in Worlds /\ booked \in BOOLEAN
    BY SplitAddsUp DEF MonitorInv, MonitorTypeOK, Spots
  <2>2. ask' = [ask EXCEPT !.todo = ask.todo \ {q},
                           !.groups = IF q = "groups" THEN tally ELSE ask.groups,
                           !.total = IF q = "total" THEN Spots ELSE ask.total,
                           !.booked = IF q = "booked" THEN booked ELSE ask.booked]
    BY <1>1 DEF Query, AskRows, Spots
  <2>3. /\ ask.todo \ {q} \in SUBSET (AlertReads \cup StatsReads)
        /\ (IF q = "groups" THEN tally ELSE ask.groups) \in Worlds \cup {None}
        /\ (IF q = "total" THEN Spots ELSE ask.total) \in Nat
        /\ (IF q = "booked" THEN booked ELSE ask.booked) \in BOOLEAN
    BY <1>1, <2>1 DEF AskRows
  <2>. QED  BY <1>1, <2>2, <2>3 DEF AskRows
<1>4. MonitorTypeOK'
  BY <1>1, <1>3 DEF MonitorInv, MonitorTypeOK
<1>5. ReadShape'
  BY <1>1, <1>2 DEF MonitorInv, ReadShape, MonitorTypeOK
<1>6. DueTrue'
  BY <1>1, <1>2 DEF MonitorInv, DueTrue
<1>7. BlocksTrue'
  <2>1. CASE q = "groups"
    <3>1. \A a \in Alerts : a.about \in Blocks =>
             (a \in DueNow(tally, booked, services) <=> OccupancyDue(a.about, tally, a.level))
      BY DueByAbout DEF MonitorInv, MonitorTypeOK
    <3>. QED  BY <1>1, <1>2, <2>1, <3>1 DEF MonitorInv, DueTrue, BlocksTrue
  <2>2. CASE q # "groups"
    BY <1>1, <1>2, <2>2 DEF MonitorInv, ReadsTrue, BlocksTrue
  <2>. QED  BY <2>1, <2>2
<1>8. BookedTrue'
  <2>1. CASE q = "booked"
    <3>1. \A a \in Alerts : a.about = "reservations" =>
             (a \in DueNow(tally, booked, services) <=> booked /\ a.level = "info")
      BY DueByAbout DEF MonitorInv, MonitorTypeOK
    <3>. QED  BY <1>1, <1>2, <2>1, <3>1 DEF MonitorInv, DueTrue, BookedTrue
  <2>2. CASE q # "booked"
    BY <1>1, <1>2, <2>2 DEF MonitorInv, ReadsTrue, BookedTrue
  <2>. QED  BY <2>1, <2>2
<1>9. DownTrue'
  BY <1>1, <1>2 DEF MonitorInv, ReadsTrue, DownTrue
<1>10. TotalTrue' /\ SizesTrue'
  <2>1. Spots' = Spots
    BY <1>1 DEF Spots
  <2>2. TotalTrue'
    BY <1>1, <1>2, <2>1 DEF MonitorInv, ReadsTrue, TotalTrue
  <2>3. SizesTrue'
    BY <1>1, <1>2 DEF MonitorInv, ReadsTrue, SizesTrue
  <2>. QED  BY <2>2, <2>3
<1>11. AlertsWereTrue' /\ StatsAddUp'
  BY <1>1, AnswerKept DEF MonitorInv
<1>. QED  BY <1>4, <1>5, <1>6, <1>7, <1>8, <1>9, <1>10, <1>11 DEF MonitorInv, ReadsTrue

LEMMA CheckServiceStep ==
    ASSUME MonitorInv, NEW s \in {"db", "redis"}, CheckService(s)
    PROVE  MonitorInv'
<1>1. /\ s \in ask.todo
      /\ UNCHANGED <<tally, booked, services, answer, ever, always, changes, resized>>
      /\ ask \in AskRows
  BY DEF CheckService, MonitorInv, MonitorTypeOK
<1>2. /\ ask'.what = ask.what /\ ask'.todo = ask.todo \ {s}
      /\ ask'.down = ask.down \cup ({s} \ services)
      /\ ask'.groups = ask.groups /\ ask'.total = ask.total /\ ask'.booked = ask.booked
      /\ ask' \in AskRows
  BY <1>1 DEF CheckService, AskRows
<1>3. MonitorTypeOK'
  BY <1>1, <1>2 DEF MonitorInv, MonitorTypeOK
<1>4. ReadShape'
  BY <1>1, <1>2 DEF MonitorInv, ReadShape, StatsReads
<1>5. DueTrue' /\ BlocksTrue' /\ BookedTrue'
  BY <1>1, <1>2 DEF MonitorInv, DueTrue, ReadsTrue, BlocksTrue, BookedTrue
<1>6. DownTrue'
  <2>. SUFFICES ASSUME ask.what = "alerts", NEW a \in Alerts,
                       a.about \in {"db", "redis"} \ ask'.todo
                PROVE  /\ a.about \in ask'.down /\ a.level = "critical" => a \in ever
                       /\ a \in always => a.about \in ask'.down /\ a.level = "critical"
    BY <1>1, <1>2 DEF DownTrue
  <2>1. CASE a.about = s
    <3>1. a \in DueNow(tally, booked, services) <=> s \notin services /\ a.level = "critical"
      BY <2>1, DueByAbout DEF MonitorInv, MonitorTypeOK
    <3>2. s \in ask'.down <=> s \notin services
      BY <1>1, <1>2 DEF MonitorInv, ReadShape
    <3>. QED  BY <2>1, <3>1, <3>2 DEF MonitorInv, DueTrue
  <2>2. CASE a.about # s
    BY <1>1, <1>2, <2>2 DEF MonitorInv, ReadsTrue, DownTrue
  <2>. QED  BY <2>1, <2>2
<1>7. TotalTrue' /\ SizesTrue'
  BY <1>1, <1>2 DEF MonitorInv, ReadsTrue, TotalTrue, SizesTrue, Spots
<1>8. AlertsWereTrue' /\ StatsAddUp'
  BY <1>1, AnswerKept DEF MonitorInv
<1>. QED  BY <1>3, <1>4, <1>5, <1>6, <1>7, <1>8 DEF MonitorInv, ReadsTrue

\* The end of a request leaves nothing to be true of it.
LEMMA RequestEnds ==
    ASSUME MonitorInv, ask' = NoAsk, answer' \in Answers,
           UNCHANGED <<tally, booked, services, ever, always, changes, resized>>
    PROVE  /\ MonitorTypeOK' /\ ReadShape' /\ DueTrue' /\ ReadsTrue'
<1>1. ask' \in AskRows /\ ask'.what = "none" /\ ask'.todo = {} /\ ask'.down = {}
  BY DEF NoAsk, AskRows
<1>2. MonitorTypeOK'
  BY <1>1 DEF MonitorInv, MonitorTypeOK
<1>. QED
  BY <1>1, <1>2
  DEF ReadShape, DueTrue, ReadsTrue, BlocksTrue, BookedTrue, DownTrue, TotalTrue, SizesTrue

LEMMA AnswerAlertsStep == ASSUME MonitorInv, AnswerAlerts PROVE MonitorInv'
<1>. DEFINE q == Pushed(ask)
<1>1. /\ ask.what = "alerts" /\ ask.todo = {} /\ ask' = NoAsk
      /\ answer' = [answer EXCEPT !.what = "alerts", !.alerts = ByLevel(q)]
      /\ UNCHANGED <<tally, booked, services, ever, always, changes, resized>>
      /\ answer \in Answers /\ ask \in AskRows /\ ask.groups \in Worlds
  BY DEF AnswerAlerts, MonitorInv, MonitorTypeOK, ReadShape
<1>2. ask.down \subseteq {"db", "redis"} /\ ask.booked \in BOOLEAN
  BY <1>1 DEF AskRows
<1>3. q \in Seq(Alerts) /\ ToSet(q) = Reported(ask)
  BY <1>1, <1>2, PushedIsReported
<1>. HIDE DEF q
<1>4. ByLevel(q) \in Seq(Alerts) /\ ToSet(ByLevel(q)) = Reported(ask) /\ InOrder(ByLevel(q))
  BY <1>3, SortedByLevel
<1>5. answer' \in Answers /\ answer'.what = "alerts" /\ answer'.alerts = ByLevel(q)
  BY <1>1, <1>4 DEF Answers
<1>6. \A a \in Alerts : a.about \in Blocks \cup {"db", "redis", "reservations"}
  BY DEF Alerts
<1>7. ASSUME NEW a \in Reported(ask) PROVE a \in ever
  BY <1>1, <1>2 DEF Reported, MonitorInv, ReadsTrue, BlocksTrue, BookedTrue, DownTrue
<1>8. ASSUME NEW a \in always PROVE a \in Reported(ask)
  <2>1. a \in Alerts
    BY DEF MonitorInv, MonitorTypeOK
  <2>. QED  BY <1>1, <1>6, <2>1
    DEF Reported, MonitorInv, ReadsTrue, BlocksTrue, BookedTrue, DownTrue
<1>9. AlertsWereTrue' /\ StatsAddUp'
  BY <1>1, <1>4, <1>5, <1>7, <1>8 DEF AlertsWereTrue, StatsAddUp, InOrder, Rank
<1>. QED  BY <1>1, <1>5, <1>9, RequestEnds DEF MonitorInv

LEMMA AnswerStatsStep == ASSUME MonitorInv, AnswerStats PROVE MonitorInv'
<1>1. /\ ask.what = "stats" /\ ask.todo = {} /\ ask' = NoAsk
      /\ answer' = [answer EXCEPT !.what = "stats", !.total = ask.total,
                       !.free = ByStatus(ask.groups).free, !.taken = ByStatus(ask.groups).taken]
      /\ UNCHANGED <<tally, booked, services, ever, always, changes, resized>>
      /\ answer \in Answers /\ ask.total \in Nat /\ ask.groups \in Worlds
  BY DEF AnswerStats, MonitorInv, MonitorTypeOK, ReadShape, AskRows
<1>. DEFINE k == [z \in Blocks |-> Size(ask.groups[z])]
<1>2. /\ ByStatus(ask.groups).free \in Nat /\ ByStatus(ask.groups).taken \in Nat
      /\ ByStatus(ask.groups).free + ByStatus(ask.groups).taken = SumOf(k)
  BY <1>1, SplitAddsUp
<1>3. /\ answer' \in Answers /\ answer'.what = "stats" /\ answer'.total = ask.total
      /\ answer'.free = ByStatus(ask.groups).free /\ answer'.taken = ByStatus(ask.groups).taken
  BY <1>1, <1>2 DEF Answers
<1>4. ~resized => SumOf(k) = ask.total
  <2>1. ~resized => k = [z \in Blocks |-> Size(tally[z])]
    BY <1>1 DEF MonitorInv, ReadsTrue, SizesTrue
  <2>2. ~resized => ask.total = SumOf([z \in Blocks |-> Size(tally[z])])
    BY <1>1 DEF MonitorInv, ReadsTrue, TotalTrue, Spots
  <2>. QED  BY <2>1, <2>2
<1>5. AlertsWereTrue' /\ StatsAddUp'
  BY <1>1, <1>2, <1>3, <1>4 DEF AlertsWereTrue, StatsAddUp
<1>. QED  BY <1>1, <1>3, <1>5, RequestEnds DEF MonitorInv

LEMMA MonitorStep == MonitorInv /\ [MonitorNext]_ovars => MonitorInv'
<1>. SUFFICES ASSUME MonitorInv, [MonitorNext]_ovars PROVE MonitorInv'
  OBVIOUS
<1>t. tally \in Worlds /\ booked \in BOOLEAN /\ services \in SUBSET {"db", "redis"}
  BY DEF MonitorInv, MonitorTypeOK
<1>1. ASSUME NEW z \in Blocks, NEW c \in Tallies, SpotsChange(z, c) PROVE MonitorInv'
  <2>1. [tally EXCEPT ![z] = c] \in Worlds
    BY <1>t DEF Worlds
  <2>. QED  BY <1>1, <1>t, <2>1, WorldStep DEF SpotsChange
<1>2. CASE BookingsChange
  <2>1. (~booked) \in BOOLEAN
    BY <1>t
  <2>. QED  BY <1>2, <1>t, <2>1, WorldStep DEF BookingsChange
<1>3. ASSUME NEW s \in {"db", "redis"}, ServiceChange(s) PROVE MonitorInv'
  <2>. DEFINE up == IF s \in services THEN services \ {s} ELSE services \cup {s}
  <2>1. up \in SUBSET {"db", "redis"}
    BY <1>t
  <2>2. World(tally, booked, up)
    BY <1>3 DEF ServiceChange
  <2>. HIDE DEF up
  <2>. QED  BY <1>t, <2>1, <2>2, WorldStep
<1>4. ASSUME NEW s \in {"db", "redis"}, CheckService(s) PROVE MonitorInv'
  BY <1>4, CheckServiceStep
<1>5. ASSUME NEW what \in {"alerts", "stats"}, Poll(what) PROVE MonitorInv'
  BY <1>5, PollStep
<1>6. ASSUME NEW q \in AlertReads \cup StatsReads, Query(q) PROVE MonitorInv'
  BY <1>6, QueryStep
<1>7. CASE QueryFails
  <2>1. /\ ask' = NoAsk
        /\ UNCHANGED <<tally, booked, services, answer, ever, always, changes, resized>>
        /\ answer \in Answers
    BY <1>7 DEF QueryFails, MonitorInv, MonitorTypeOK
  <2>2. AlertsWereTrue' /\ StatsAddUp'
    BY <2>1, AnswerKept DEF MonitorInv
  <2>. QED  BY <2>1, <2>2, RequestEnds DEF MonitorInv
<1>8. CASE AnswerAlerts
  BY <1>8, AnswerAlertsStep
<1>9. CASE AnswerStats
  BY <1>9, AnswerStatsStep
<1>10. CASE UNCHANGED ovars
  BY <1>10
  DEF ovars, MonitorInv, MonitorTypeOK, ReadShape, DueTrue, ReadsTrue, BlocksTrue, BookedTrue,
      DownTrue, TotalTrue, SizesTrue, Spots, AlertsWereTrue, StatsAddUp
<1>. QED
  BY <1>1, <1>2, <1>3, <1>4, <1>5, <1>6, <1>7, <1>8, <1>9, <1>10 DEF MonitorNext

-----------------------------------------------------------------------------
THEOREM MonitorInvariant == MonitorSpec => []MonitorInv
<1>. QED  BY MonitorStart, MonitorStep, PTL DEF MonitorSpec

\* Each variable of the panel keeps its type, the answers included.
THEOREM MonitorTyped == MonitorSpec => []MonitorTypeOK
<1>1. MonitorInv => MonitorTypeOK
  BY DEF MonitorInv
<1>. QED  BY <1>1, MonitorInvariant, PTL

\* Every alert was due while it was being made, none that was due all the time is missing,
\* and the graver come first: whatever the order of the queries and the changes between.
THEOREM AlertsAlwaysTrue == MonitorSpec => []AlertsWereTrue
<1>1. MonitorInv => AlertsWereTrue
  BY DEF MonitorInv
<1>. QED  BY <1>1, MonitorInvariant, PTL

\* The figures of the overview add up to the total, over any number of zones, unless spots
\* come or go between the queries.
THEOREM FiguresAlwaysAddUp == MonitorSpec => []StatsAddUp
<1>1. MonitorInv => StatsAddUp
  BY DEF MonitorInv
<1>. QED  BY <1>1, MonitorInvariant, PTL
=============================================================================
