--------------------------- MODULE OperatorLemmas ---------------------------
(***************************************************************************)
(* Facts about the operators that ConfigLoading, Rendering and SinkRouting *)
(* are built from: the least of a set of numbers, induction over a set of  *)
(* numbers, texts as sequences, and FlattenSeq, which is recursive.        *)
(***************************************************************************)
EXTENDS Integers, SequencesExt, FiniteSetTheorems, SequenceTheorems,
        WellFoundedInduction, TLAPS

-----------------------------------------------------------------------------
(* The least of a set of numbers.                                          *)

Less == {p \in Nat \X Nat : p[1] < p[2]}

\* The order of the natural numbers is well-founded.
LEMMA LessIsWellFounded == IsWellFoundedOn(Less, Nat)
<1>1. OpToRel(<, Nat) = Less
  BY DEF OpToRel, Less
<1> QED
  BY <1>1, NatLessThanWellFounded

\* A set of numbers that is not empty has a least element, and Min is it.
LEMMA MinIsLeast ==
    ASSUME NEW S, S \subseteq Nat, S # {}
    PROVE  Min(S) \in S /\ \A k \in S : Min(S) <= k
<1>1. \A m, k \in Nat : k < m => <<k, m>> \in Less
  BY DEF Less
<1>2. PICK m \in S : \A k \in S : ~(<<k, m>> \in Less)
  BY LessIsWellFounded, WFMin
<1>3. \A k \in S : m <= k
  <2> TAKE k \in S
  <2>1. ~(k < m)
    BY <1>1, <1>2
  <2> QED
    BY <2>1
<1> QED
  BY <1>3 DEF Min

\* Induction, for a set of numbers in place of a formula.
LEMMA SetInduction ==
    ASSUME NEW T, 0 \in T, \A n \in Nat : n \in T => n + 1 \in T
    PROVE  Nat \subseteq T
<1> SUFFICES ASSUME Nat \ T # {} PROVE FALSE
  OBVIOUS
<1> DEFINE m == Min(Nat \ T)
<1>1. m \in Nat \ T /\ \A k \in Nat \ T : m <= k
  BY MinIsLeast
<1> HIDE DEF m
<1>2. m # 0 /\ m - 1 \in Nat
  BY <1>1
<1>3. m - 1 \in T
  BY <1>1, <1>2
<1>4. (m - 1) + 1 \in T
  BY <1>2, <1>3
<1> QED
  BY <1>1, <1>4

\* A bounded set of numbers that is not empty has a greatest element, and Max is it.
LEMMA MaxIsGreatest ==
    ASSUME NEW S, S \subseteq Nat, S # {}, NEW n \in Nat, \A k \in S : k <= n
    PROVE  Max(S) \in S /\ \A k \in S : k <= Max(S)
<1> DEFINE Bounds == {b \in Nat : \A k \in S : k <= b}
           m == Min(Bounds)
<1>1. m \in Bounds /\ \A b \in Bounds : m <= b
  <2>1. Bounds \subseteq Nat /\ n \in Bounds
    OBVIOUS
  <2> HIDE DEF Bounds
  <2> QED
    BY <2>1, MinIsLeast
<1> HIDE DEF m
<1>2. m \in S
  <2> SUFFICES ASSUME m \notin S PROVE FALSE
    OBVIOUS
  <2>1. \A k \in S : k < m
    BY <1>1
  <2>2. m \in Nat /\ \A k \in S : k \in Nat
    BY <1>1
  <2>3. m # 0
    <3>1. PICK k \in S : TRUE
      OBVIOUS
    <3>2. k < m /\ k \in Nat
      BY <2>1, <2>2
    <3> QED
      BY <2>2, <3>2
  <2>4. m - 1 \in Nat /\ \A k \in S : k <= m - 1
    BY <2>1, <2>2, <2>3
  <2> HIDE DEF Bounds
  <2>5. m - 1 \in Bounds
    BY <2>4 DEF Bounds
  <2> QED
    BY <1>1, <2>2, <2>5
<1>3. m \in S /\ \A k \in S : m >= k
  BY <1>1, <1>2
<1>4. Max(S) \in S /\ \A k \in S : Max(S) >= k
  BY <1>3 DEF Max
<1> QED
  BY <1>4

-----------------------------------------------------------------------------
(* Sequences, whatever their elements are.                                 *)

IsSeq(t) == \E S : t \in Seq(S)

\* part stands somewhere in text.
PartOf(part, text) == \E p, q : IsSeq(p) /\ IsSeq(q) /\ text = (p \o part) \o q

\* A sequence is a function on the numbers up to its length.
LEMMA SeqShape ==
    ASSUME NEW t, IsSeq(t)
    PROVE  Len(t) \in Nat /\ DOMAIN t = 1 .. Len(t)
BY DEF IsSeq

\* Three sequences have a common set of elements.
LEMMA CommonElements ==
    ASSUME NEW s, NEW t, NEW u, IsSeq(s), IsSeq(t), IsSeq(u)
    PROVE  \E S : s \in Seq(S) /\ t \in Seq(S) /\ u \in Seq(S)
<1>1. PICK A : s \in Seq(A)
  BY DEF IsSeq
<1>2. PICK B : t \in Seq(B)
  BY DEF IsSeq
<1>3. PICK C : u \in Seq(C)
  BY DEF IsSeq
<1>4. s \in Seq(A \cup B \cup C)
  BY <1>1, SeqMonotonic
<1>5. t \in Seq(A \cup B \cup C)
  BY <1>2, SeqMonotonic
<1>6. u \in Seq(A \cup B \cup C)
  BY <1>3, SeqMonotonic
<1> QED
  BY <1>4, <1>5, <1>6

\* Sequences are closed under concatenation, which adds their lengths.
LEMMA Concat ==
    ASSUME NEW s, NEW t, IsSeq(s), IsSeq(t)
    PROVE  /\ IsSeq(s \o t)
           /\ Len(s \o t) = Len(s) + Len(t)
           /\ \A i \in 1 .. Len(s) : (s \o t)[i] = s[i]
           /\ \A i \in 1 .. Len(t) : (s \o t)[Len(s) + i] = t[i]
           /\ s \o <<>> = s /\ <<>> \o s = s
<1>1. PICK S : s \in Seq(S) /\ t \in Seq(S)
  BY CommonElements
<1> QED
  BY <1>1, ConcatProperties, ConcatEmptySeq DEF IsSeq

\* Concatenation is associative.
LEMMA ConcatAssoc ==
    ASSUME NEW s, NEW t, NEW u, IsSeq(s), IsSeq(t), IsSeq(u)
    PROVE  (s \o t) \o u = s \o (t \o u)
<1>1. PICK S : s \in Seq(S) /\ t \in Seq(S) /\ u \in Seq(S)
  BY CommonElements
<1> QED
  BY <1>1, ConcatAssociative

\* A short tuple is a sequence.
LEMMA TuplesAreSeqs ==
    /\ IsSeq(<<>>) /\ Len(<<>>) = 0
    /\ \A x : IsSeq(<<x>>) /\ Len(<<x>>) = 1 /\ <<x>>[1] = x
    /\ \A x, y : IsSeq(<<x, y>>) /\ Len(<<x, y>>) = 2 /\ <<x, y>>[1] = x
<1>1. <<>> \in Seq({})
  OBVIOUS
<1>2. \A x : <<x>> \in Seq({x})
  OBVIOUS
<1>3. \A x, y : <<x, y>> \in Seq({x, y})
  OBVIOUS
<1> QED
  BY <1>1, <1>2, <1>3 DEF IsSeq

\* A function on the numbers up to n is a sequence of length n.
LEMMA FunctionIsSeq ==
    ASSUME NEW n \in Nat, NEW S, NEW f \in [1 .. n -> S]
    PROVE  IsSeq(f) /\ Len(f) = n
<1>1. f \in Seq(S)
  BY SeqDef
<1>2. Len(f) \in Nat /\ 1 .. Len(f) = 1 .. n
  BY <1>1, LenProperties
<1>3. Len(f) = n
  <2>1. Len(f) # 0 => Len(f) <= n
    BY <1>2
  <2>2. n # 0 => n <= Len(f)
    BY <1>2
  <2> QED
    BY <1>2, <2>1, <2>2
<1> QED
  BY <1>1, <1>3 DEF IsSeq

\* Two tuples of one make a pair.
LEMMA ConcatSingletons ==
    ASSUME NEW x, NEW y
    PROVE  <<x>> \o <<y>> = <<x, y>>
<1> DEFINE S == {x, y}
           s == <<x>>
           t == <<y>>
<1>1. /\ s \in Seq(S) /\ Len(s) = 1 /\ s[1] = x
      /\ t \in Seq(S) /\ Len(t) = 1 /\ t[1] = y
  OBVIOUS
<1>2. <<x, y>> \in Seq(S) /\ Len(<<x, y>>) = 2 /\ <<x, y>>[1] = x /\ <<x, y>>[2] = y
  OBVIOUS
<1> HIDE DEF s, t, S
<1>3. /\ s \o t \in Seq(S) /\ Len(s \o t) = 2
      /\ (s \o t)[1] = x /\ (s \o t)[2] = y
  BY <1>1, ConcatProperties
<1>4. \A i \in 1 .. Len(s \o t) : (s \o t)[i] = <<x, y>>[i]
  BY <1>2, <1>3
<1>5. s \o t = <<x, y>>
  BY <1>2, <1>3, <1>4, SeqEqual
<1> QED
  BY <1>5 DEF s, t

\* What comes after s, and between s and the end of t.
LEMMA SubSeqOfConcat ==
    ASSUME NEW s, NEW t, NEW u, IsSeq(s), IsSeq(t), IsSeq(u)
    PROVE  SubSeq((s \o t) \o u, Len(s) + 1, Len(s) + Len(t)) = t
<1>1. PICK S : s \in Seq(S) /\ t \in Seq(S) /\ u \in Seq(S)
  BY CommonElements
<1> DEFINE st == s \o t
           all == st \o u
           low == Len(s) + 1
           high == Len(s) + Len(t)
           r == SubSeq(all, low, high)
<1>2. /\ st \in Seq(S) /\ Len(st) = Len(s) + Len(t)
      /\ \A i \in 1 .. Len(t) : st[Len(s) + i] = t[i]
      /\ Len(s) \in Nat /\ Len(t) \in Nat
  BY <1>1, ConcatProperties
<1> HIDE DEF st
<1>3. \A i \in 1 .. Len(st) : all[i] = st[i] /\ st[i] \in S
  BY <1>1, <1>2, ConcatProperties
<1> HIDE DEF all
<1>4. low \in Int /\ high \in Int /\ high - low + 1 = Len(t)
  BY <1>2
<1>5. \A i \in low .. high : all[i] \in S
  BY <1>2, <1>3
<1> HIDE DEF low, high
<1>6. /\ r \in Seq(S)
      /\ Len(r) = IF low <= high THEN high - low + 1 ELSE 0
      /\ \A i \in 1 .. high - low + 1 : r[i] = all[low + i - 1]
  BY <1>4, <1>5, SubSeqProperties
<1> HIDE DEF r
<1>7. Len(r) = Len(t)
  BY <1>2, <1>4, <1>6
<1>8. \A i \in 1 .. Len(t) : r[i] = t[i]
  <2> TAKE i \in 1 .. Len(t)
  <2>1. r[i] = all[low + i - 1]
    BY <1>4, <1>6
  <2>2. low + i - 1 = Len(s) + i /\ Len(s) + i \in 1 .. Len(st)
    BY <1>2 DEF low
  <2> QED
    BY <1>2, <1>3, <2>1, <2>2
<1>9. r = t
  BY <1>1, <1>6, <1>7, <1>8, SeqEqual
<1> QED
  BY <1>9 DEF r, all, st, low, high

\* A part of a part is a part.
LEMMA PartOfConcat ==
    ASSUME NEW a, NEW x, NEW p, NEW q, IsSeq(a), IsSeq(p), IsSeq(q), PartOf(a, x)
    PROVE  PartOf(a, (p \o x) \o q)
<1>1. PICK l, r : IsSeq(l) /\ IsSeq(r) /\ x = (l \o a) \o r
  BY DEF PartOf
<1>2. IsSeq(p \o l) /\ IsSeq(r \o q) /\ IsSeq(l \o a) /\ IsSeq((l \o a) \o r)
  BY <1>1, Concat
<1>3. p \o x = (p \o (l \o a)) \o r
  <2> DEFINE la == l \o a
  <2>1. IsSeq(la)
    BY <1>2
  <2> HIDE DEF la
  <2>2. (p \o la) \o r = p \o (la \o r)
    BY <1>1, <2>1, ConcatAssoc, SMTT(30)
  <2> QED
    BY <1>1, <2>2, Zenon DEF la
<1>4. p \o (l \o a) = (p \o l) \o a
  BY <1>1, ConcatAssoc, SMTT(30)
<1>5. IsSeq((p \o l) \o a)
  BY <1>2, Concat
<1>6. (p \o x) \o q = ((p \o l) \o a) \o (r \o q)
  <2> DEFINE pla == (p \o l) \o a
  <2>1. IsSeq(pla)
    BY <1>5
  <2>2. p \o x = pla \o r
    BY <1>3, <1>4, Zenon
  <2> HIDE DEF pla
  <2>3. (pla \o r) \o q = pla \o (r \o q)
    <3>1. IsSeq(r)
      BY <1>1
    <3> QED
      BY <2>1, <3>1, ConcatAssoc, SMTT(30)
  <2>4. (p \o x) \o q = pla \o (r \o q)
    BY <2>2, <2>3, Zenon
  <2> QED
    BY <2>4 DEF pla
<1> QED
  BY <1>2, <1>6 DEF PartOf

\* A sequence is a part of itself with others around it.
LEMMA PartOfItself ==
    ASSUME NEW a, NEW p, NEW q, IsSeq(a), IsSeq(p), IsSeq(q)
    PROVE  PartOf(a, (p \o a) \o q) /\ PartOf(a, a \o q) /\ PartOf(a, p \o a) /\ PartOf(a, a)
<1>1. <<>> \o a = a /\ (<<>> \o a) \o <<>> = a /\ (p \o a) \o <<>> = p \o a /\ IsSeq(<<>>)
  BY Concat, TuplesAreSeqs
<1>2. PartOf(a, (p \o a) \o q)
  BY DEF PartOf
<1>3. a \o q = (<<>> \o a) \o q
  BY <1>1
<1>4. PartOf(a, a \o q)
  BY <1>1, <1>3 DEF PartOf
<1>5. p \o a = (p \o a) \o <<>> /\ a = (<<>> \o a) \o <<>>
  BY <1>1
<1> QED
  BY <1>1, <1>2, <1>4, <1>5 DEF PartOf

\* A part stays one when the sequence grows at either end.
LEMMA PartOfLonger ==
    ASSUME NEW a, NEW x, NEW y, IsSeq(a), IsSeq(x), IsSeq(y), PartOf(a, x)
    PROVE  PartOf(a, x \o y) /\ PartOf(a, y \o x)
<1>1. IsSeq(<<>>)
  BY TuplesAreSeqs
<1>2. PartOf(a, (<<>> \o x) \o y) /\ PartOf(a, (y \o x) \o <<>>)
  BY <1>1, PartOfConcat
<1>3. <<>> \o x = x
  BY Concat
<1>4. IsSeq(y \o x)
  BY Concat
<1> DEFINE yx == y \o x
<1>5. yx \o <<>> = yx
  <2> HIDE DEF yx
  <2>1. IsSeq(yx)
    BY <1>4 DEF yx
  <2> QED
    BY <2>1, Concat
<1> QED
  BY <1>2, <1>3, <1>5, Zenon

StartsWith(x, first) == IsSeq(x) /\ Len(x) # 0 /\ x[1] = first

\* A pair starts with its first element.
LEMMA StartOfPair ==
    ASSUME NEW x, NEW y
    PROVE  StartsWith(<<x, y>>, x)
BY TuplesAreSeqs DEF StartsWith

\* A sequence that grows at its end starts as before, and keeps its parts.
LEMMA StartOfConcat ==
    ASSUME NEW x, NEW y, NEW first, StartsWith(x, first), IsSeq(y)
    PROVE  /\ StartsWith(x \o y, first)
           /\ PartOf(y, x \o y)
           /\ \A a : IsSeq(a) /\ PartOf(a, x) => PartOf(a, x \o y)
<1>1. IsSeq(x) /\ Len(x) \in Nat /\ Len(y) \in Nat /\ Len(x) # 0 /\ x[1] = first
  BY SeqShape DEF StartsWith
<1>2. IsSeq(x)
  BY <1>1
<1>3. IsSeq(x \o y) /\ Len(x \o y) = Len(x) + Len(y) /\ \A i \in 1 .. Len(x) : (x \o y)[i] = x[i]
  BY <1>2, Concat
<1>4. StartsWith(x \o y, first)
  BY <1>1, <1>3 DEF StartsWith
<1>5. PartOf(y, x \o y)
  BY <1>2, PartOfItself
<1>6. \A a : IsSeq(a) /\ PartOf(a, x) => PartOf(a, x \o y)
  BY <1>2, PartOfLonger
<1> QED
  BY <1>4, <1>5, <1>6

\* SetToSeq lists every element of a finite set.
LEMMA SetToSeqLists ==
    ASSUME NEW S, IsFiniteSet(S), NEW s, s = SetToSeq(S)
    PROVE  /\ IsSeq(s)
           /\ \A i \in 1 .. Len(s) : s[i] \in S
           /\ \A x \in S : \E i \in 1 .. Len(s) : s[i] = x
<1> DEFINE n == Cardinality(S)
<1>1. n \in Nat /\ ExistsBijection(1 .. n, S)
  BY FS_CardinalityType
<1>2. \E f \in [1 .. n -> S] : IsInjective(f)
  BY <1>1 DEF ExistsBijection, Bijection, Injection
<1>3. s \in [1 .. n -> S] /\ IsInjective(s)
  BY <1>2 DEF SetToSeq
<1>4. s \in Injection(1 .. n, S)
  BY <1>3 DEF Injection
<1>5. Cardinality(1 .. n) = n
  <2> HIDE DEF n
  <2>1. n \in Int /\ 1 \in Int /\ (1 > n => n = 0)
    BY <1>1
  <2>2. Cardinality(1 .. n) = IF 1 > n THEN 0 ELSE n - 1 + 1
    BY <2>1, FS_Interval
  <2> QED
    BY <2>1, <2>2
<1>6. s \in Surjection(1 .. n, S)
  BY <1>4, <1>5, FS_Injection
<1>7. IsSeq(s) /\ Len(s) = n
  BY <1>1, <1>3, FunctionIsSeq
<1> QED
  BY <1>3, <1>6, <1>7 DEF Surjection

-----------------------------------------------------------------------------
(* FlattenSeq.                                                             *)

\* The partial results of FlattenSeq.
Flattens(f, s) ==
    f = [i \in 1 .. Len(s) |-> IF i = 1 THEN s[i] ELSE f[i - 1] \o s[i]]

\* Partial results exist: each is the one before and one sequence more.
LEMMA FlattensExists ==
    ASSUME NEW s, Len(s) \in Nat
    PROVE  \E f : Flattens(f, s)
<1> DEFINE Partial(f, k) == \A i \in 1 .. k : f[i] = IF i = 1 THEN s[i] ELSE f[i - 1] \o s[i]
           T == {k \in Nat : \E f : f = [i \in 1 .. k |-> f[i]] /\ Partial(f, k)}
<1>1. 0 \in T
  <2>1. \E f : f = [i \in 1 .. 0 |-> f[i]] /\ Partial(f, 0)
    <3> DEFINE f == [i \in 1 .. 0 |-> 0]
    <3>1. f = [i \in 1 .. 0 |-> f[i]] /\ Partial(f, 0)
      OBVIOUS
    <3> QED
      BY <3>1
  <2> QED
    BY <2>1
<1>2. ASSUME NEW k \in Nat, k \in T PROVE k + 1 \in T
  <2>1. PICK f : f = [i \in 1 .. k |-> f[i]] /\ Partial(f, k)
    BY <1>2
  <2> DEFINE last == IF k = 0 THEN s[1] ELSE f[k] \o s[k + 1]
             g == [i \in 1 .. k + 1 |-> IF i = k + 1 THEN last ELSE f[i]]
  <2>2. g = [i \in 1 .. k + 1 |-> g[i]]
    OBVIOUS
  <2>3. Partial(g, k + 1)
    <3> SUFFICES ASSUME NEW i \in 1 .. k + 1
                 PROVE  g[i] = IF i = 1 THEN s[i] ELSE g[i - 1] \o s[i]
      OBVIOUS
    <3>1. CASE i = k + 1
      <4>1. g[i] = last
        BY <3>1
      <4>2. CASE k = 0
        BY <3>1, <4>1, <4>2
      <4>3. CASE k # 0
        <5>1. i - 1 = k /\ k \in 1 .. k + 1 /\ k # k + 1
          BY <3>1, <4>3
        <5>2. g[i - 1] = f[k]
          BY <5>1
        <5>3. g[i - 1] \o s[i] = f[k] \o s[k + 1]
          BY <3>1, <5>2, Zenon
        <5>4. last = f[k] \o s[k + 1]
          BY <4>3
        <5>5. i # 1
          BY <3>1, <4>3
        <5> HIDE DEF g, last
        <5> QED
          BY <4>1, <5>3, <5>4, <5>5, Zenon
      <4> QED
        BY <4>2, <4>3
    <3>2. CASE i # k + 1
      <4>1. i \in 1 .. k /\ g[i] = f[i]
        BY <3>2
      <4>2. i # 1 => i - 1 \in 1 .. k + 1 /\ i - 1 # k + 1
        BY <4>1
      <4>3. i # 1 => g[i - 1] = f[i - 1]
        BY <4>2
      <4> QED
        BY <2>1, <4>1, <4>3
    <3> QED
      BY <3>1, <3>2
  <2> HIDE DEF g
  <2>4. \E h : h = [i \in 1 .. k + 1 |-> h[i]] /\ Partial(h, k + 1)
    BY <2>2, <2>3
  <2>5. k + 1 \in Nat
    OBVIOUS
  <2> QED
    BY <2>4, <2>5, Zenon
<1>3. Len(s) \in T
  <2> HIDE DEF T
  <2> QED
    BY <1>1, <1>2, SetInduction
<1>4. PICK f : f = [i \in 1 .. Len(s) |-> f[i]] /\ Partial(f, Len(s))
  BY <1>3
<1> QED
  BY <1>4, ZenonT(30) DEF Flattens

\* FlattenSeq is the last of the partial results.
LEMMA FlattenSeqIsLast ==
    ASSUME NEW s, Len(s) \in Nat, Len(s) # 0
    PROVE  \E f : Flattens(f, s) /\ FlattenSeq(s) = f[Len(s)]
<1> DEFINE f == CHOOSE f : Flattens(f, s)
<1>1. Flattens(f, s)
  BY FlattensExists, Zenon
<1>2. FlattenSeq(s) = f[Len(s)]
  BY DEF FlattenSeq, Flattens
<1> HIDE DEF f
<1> QED
  BY <1>1, <1>2

\* What a partial result is, position by position.
LEMMA PartialResults ==
    ASSUME NEW s, NEW f, Len(s) \in Nat, Flattens(f, s)
    PROVE  /\ Len(s) # 0 => f[1] = s[1]
           /\ \A k \in Nat : k # 0 /\ k + 1 <= Len(s) => f[k + 1] = f[k] \o s[k + 1]
<1>1. \A i \in 1 .. Len(s) : f[i] = IF i = 1 THEN s[i] ELSE f[i - 1] \o s[i]
  <2> DEFINE g == [i \in 1 .. Len(s) |-> IF i = 1 THEN s[i] ELSE f[i - 1] \o s[i]]
  <2>1. f = g
    BY DEF Flattens
  <2>2. \A i \in 1 .. Len(s) : g[i] = IF i = 1 THEN s[i] ELSE f[i - 1] \o s[i]
    OBVIOUS
  <2> HIDE DEF g
  <2> QED
    BY <2>1, <2>2, Zenon
<1>2. Len(s) # 0 => f[1] = s[1]
  BY <1>1
<1>3. ASSUME NEW k \in Nat, k # 0, k + 1 <= Len(s) PROVE f[k + 1] = f[k] \o s[k + 1]
  <2>1. k + 1 \in 1 .. Len(s) /\ k + 1 # 1 /\ (k + 1) - 1 = k
    BY <1>3
  <2> QED
    BY <1>1, <2>1
<1> QED
  BY <1>2, <1>3

\* Sequences are flattened to a sequence, which holds each of them.
LEMMA FlattenSeqHolds ==
    ASSUME NEW s, IsSeq(s), \A i \in 1 .. Len(s) : IsSeq(s[i])
    PROVE  /\ IsSeq(FlattenSeq(s))
           /\ \A i \in 1 .. Len(s) : PartOf(s[i], FlattenSeq(s))
<1>1. Len(s) \in Nat
  BY SeqShape
<1>2. CASE Len(s) = 0
  <2>1. FlattenSeq(s) = s
    BY <1>2 DEF FlattenSeq
  <2> QED
    BY <1>2, <2>1
<1>3. CASE Len(s) # 0
  <2>1. PICK f : Flattens(f, s) /\ FlattenSeq(s) = f[Len(s)]
    BY <1>1, <1>3, FlattenSeqIsLast
  <2>2. f[1] = s[1]
    BY <1>1, <1>3, <2>1, PartialResults, Zenon
  <2>3. \A k \in Nat : k # 0 /\ k + 1 <= Len(s) => f[k + 1] = f[k] \o s[k + 1]
    BY <1>1, <2>1, PartialResults
  <2> DEFINE T == {k \in Nat : k # 0 /\ k <= Len(s) =>
                       IsSeq(f[k]) /\ \A i \in 1 .. k : PartOf(s[i], f[k])}
  <2>4. 0 \in T
    OBVIOUS
  <2>5. ASSUME NEW k \in Nat, k \in T PROVE k + 1 \in T
    <3>1. SUFFICES ASSUME k + 1 <= Len(s)
                   PROVE  IsSeq(f[k + 1]) /\ \A i \in 1 .. k + 1 : PartOf(s[i], f[k + 1])
      OBVIOUS
    <3>2. CASE k = 0
      <4>1. IsSeq(s[1]) /\ PartOf(s[1], s[1])
        <5> DEFINE a == s[1]
        <5>1. IsSeq(a)
          BY <1>1, <1>3
        <5> HIDE DEF a
        <5>2. IsSeq(a) /\ PartOf(a, a)
          BY <5>1, PartOfItself, TuplesAreSeqs
        <5> QED
          BY <5>2 DEF a
      <4>2. k + 1 = 1 /\ \A i \in 1 .. k + 1 : i = 1
        BY <3>2
      <4>3. IsSeq(f[1]) /\ PartOf(s[1], f[1])
        BY <2>2, <4>1
      <4> HIDE DEF T
      <4> QED
        BY <4>2, <4>3
    <3>3. CASE k # 0
      <4>1. IsSeq(f[k]) /\ \A i \in 1 .. k : PartOf(s[i], f[k])
        BY <1>1, <2>5, <3>1, <3>3
      <4>2. f[k + 1] = f[k] \o s[k + 1]
        BY <2>3, <3>1, <3>3
      <4>3. IsSeq(s[k + 1])
        BY <1>1, <3>1
      <4> HIDE DEF T
      <4> DEFINE new == s[k + 1]
                 old == f[k]
      <4>4. IsSeq(old \o new) /\ PartOf(new, old \o new)
        <5>1. IsSeq(old) /\ IsSeq(new)
          BY <4>1, <4>3
        <5> HIDE DEF old, new
        <5> QED
          BY <5>1, Concat, PartOfItself
      <4>5. \A i \in 1 .. k : PartOf(s[i], old \o new)
        <5> TAKE i \in 1 .. k
        <5> DEFINE a == s[i]
        <5>1. IsSeq(a) /\ PartOf(a, old) /\ IsSeq(old) /\ IsSeq(new) /\ IsSeq(<<>>)
          BY <1>1, <3>1, <4>1, <4>3, TuplesAreSeqs
        <5> HIDE DEF a, old, new
        <5>2. PartOf(a, (<<>> \o old) \o new)
          BY <5>1, PartOfConcat
        <5>3. <<>> \o old = old
          BY <5>1, Concat
        <5> QED
          BY <5>2, <5>3, Zenon DEF a
      <4>6. \A i \in 1 .. k + 1 : i \in 1 .. k \/ i = k + 1
        OBVIOUS
      <4>7. \A i \in 1 .. k + 1 : PartOf(s[i], old \o new)
        <5> HIDE DEF old
        <5> QED
          BY <4>4, <4>5, <4>6
      <4> QED
        BY <4>2, <4>4, <4>7, Zenon
    <3> QED
      BY <3>2, <3>3
  <2>6. Len(s) \in T
    <3> HIDE DEF T
    <3> QED
      BY <1>1, <2>4, <2>5, SetInduction
  <2> QED
    BY <1>1, <1>3, <2>1, <2>6
<1> QED
  BY <1>2, <1>3

-----------------------------------------------------------------------------
(* FoldLeft.                                                               *)

\* The largest number of an interval.
LEMMA MaxOfInterval ==
    ASSUME NEW S, NEW k \in Nat, k \in S, S \subseteq Nat, \A i \in S : i <= k
    PROVE  Max(S) = k
<1> DEFINE m == Max(S)
<1>1. m \in S /\ \A i \in S : i <= m
  BY MaxIsGreatest
<1> HIDE DEF m
<1>2. m = k
  BY <1>1
<1> QED
  BY <1>2 DEF m

\* The results of a fold from the left, by the sets of positions that are done.
FoldResults(f, k, p, X, x0, step) ==
    /\ f \in [SUBSET (1 .. k) -> X]
    /\ \A s \in SUBSET (1 .. k) :
          f[s] = IF s = {} THEN x0 ELSE step[<<f[s \ {Max(s)}], p[Max(s)]>>]

\* They exist, for every step that is a function.
LEMMA FoldExists ==
    ASSUME NEW S, NEW p \in Seq(S), NEW X, NEW x0 \in X, NEW step \in [X \X S -> X]
    PROVE  \E f : FoldResults(f, Len(p), p, X, x0, step)
<1> DEFINE n == Len(p)
           T == {k \in Nat : k <= n => \E f : FoldResults(f, k, p, X, x0, step)}
<1>0. n \in Nat /\ \A i \in 1 .. n : p[i] \in S
  OBVIOUS
<1> HIDE DEF n
<1>1. 0 \in T
  <2> DEFINE f == [s \in SUBSET (1 .. 0) |-> x0]
  <2>1. \A s \in SUBSET (1 .. 0) : s = {}
    OBVIOUS
  <2>2. FoldResults(f, 0, p, X, x0, step)
    BY <2>1 DEF FoldResults
  <2> QED
    BY <2>2
<1>2. ASSUME NEW k \in Nat, k \in T PROVE k + 1 \in T
  <2>0. SUFFICES ASSUME k + 1 <= n PROVE \E f : FoldResults(f, k + 1, p, X, x0, step)
    <3>1. k + 1 \in Nat
      OBVIOUS
    <3> QED
      BY <3>1
  <2>1. PICK f : FoldResults(f, k, p, X, x0, step)
    <3>1. k <= n
      BY <1>0, <2>0
    <3> QED
      BY <1>2, <3>1
  <2> DEFINE g == [s \in SUBSET (1 .. k + 1) |->
                     IF k + 1 \in s THEN step[<<f[s \ {k + 1}], p[k + 1]>>] ELSE f[s]]
  <2>2. \A s \in SUBSET (1 .. k + 1) : k + 1 \notin s => s \in SUBSET (1 .. k)
    OBVIOUS
  <2>3. \A s \in SUBSET (1 .. k + 1) : s \ {k + 1} \in SUBSET (1 .. k)
    OBVIOUS
  <2>4. p[k + 1] \in S /\ ~(k + 1 \in 1 .. k)
    <3>1. k + 1 \in 1 .. n
      BY <1>0, <2>0
    <3> QED
      BY <1>0, <3>1
  <2>5. \A s \in SUBSET (1 .. k) : s \in SUBSET (1 .. k + 1) /\ g[s] = f[s] /\ f[s] \in X
    BY <2>1, <2>4 DEF FoldResults
  <2>6. g \in [SUBSET (1 .. k + 1) -> X]
    <3> SUFFICES ASSUME NEW s \in SUBSET (1 .. k + 1)
                 PROVE  (IF k + 1 \in s THEN step[<<f[s \ {k + 1}], p[k + 1]>>] ELSE f[s]) \in X
      BY Zenon
    <3>1. CASE k + 1 \in s
      <4>1. f[s \ {k + 1}] \in X
        BY <2>3, <2>5
      <4>2. <<f[s \ {k + 1}], p[k + 1]>> \in X \X S
        BY <2>4, <4>1
      <4> QED
        BY <3>1, <4>2
    <3>2. CASE k + 1 \notin s
      BY <2>2, <2>5, <3>2
    <3> QED
      BY <3>1, <3>2
  <2>7. ASSUME NEW s \in SUBSET (1 .. k + 1)
        PROVE  g[s] = IF s = {} THEN x0 ELSE step[<<g[s \ {Max(s)}], p[Max(s)]>>]
    <3>1. CASE k + 1 \in s
      <4>1. Max(s) = k + 1
        <5>1. \A i \in s : i <= k + 1
          OBVIOUS
        <5>2. s \subseteq Nat /\ k + 1 \in Nat
          OBVIOUS
        <5> QED
          BY <3>1, <5>1, <5>2, MaxOfInterval
      <4>2. g[s \ {k + 1}] = f[s \ {k + 1}]
        BY <2>3, <2>5
      <4>3. g[s] = step[<<f[s \ {k + 1}], p[k + 1]>>]
        BY <3>1
      <4> HIDE DEF g
      <4> QED
        BY <3>1, <4>1, <4>2, <4>3
    <3>2. CASE k + 1 \notin s
      <4>1. s \in SUBSET (1 .. k) /\ g[s] = f[s]
        BY <2>2, <2>5, <3>2
      <4>2. f[s] = IF s = {} THEN x0 ELSE step[<<f[s \ {Max(s)}], p[Max(s)]>>]
        BY <2>1, <4>1 DEF FoldResults
      <4>3. s \ {Max(s)} \in SUBSET (1 .. k)
        BY <4>1
      <4>4. g[s \ {Max(s)}] = f[s \ {Max(s)}]
        BY <2>5, <4>3
      <4> HIDE DEF g
      <4> QED
        BY <4>1, <4>2, <4>4
    <3> QED
      BY <3>1, <3>2
  <2> HIDE DEF g
  <2> QED
    BY <2>6, <2>7 DEF FoldResults
<1>3. n \in T
  <2> HIDE DEF T
  <2> QED
    BY <1>0, <1>1, <1>2, SetInduction
<1>4. n <= n
  BY <1>0
<1> QED
  BY <1>3, <1>4 DEF n

\* The positions up to k, as MapThenFoldSet takes them off from the right.
LEMMA Positions ==
    ASSUME NEW n \in Nat
    PROVE  /\ \A s \in SUBSET (1 .. n) : s # {} =>
                Max(s) \in s /\ Max(s) \in 1 .. n /\ s \ {Max(s)} \in SUBSET (1 .. n)
           /\ 1 .. 0 = {}
           /\ \A k \in 1 .. n : /\ 1 .. k \in SUBSET (1 .. n) /\ 1 .. k # {}
                                /\ Max(1 .. k) = k /\ (1 .. k) \ {k} = 1 .. k - 1
<1>1. ASSUME NEW s \in SUBSET (1 .. n), s # {}
      PROVE  Max(s) \in s /\ Max(s) \in 1 .. n /\ s \ {Max(s)} \in SUBSET (1 .. n)
  <2>1. s \subseteq Nat /\ \A i \in s : i <= n
    OBVIOUS
  <2>2. Max(s) \in s
    BY <1>1, <2>1, MaxIsGreatest
  <2> QED
    BY <2>2
<1>2. ASSUME NEW k \in 1 .. n
      PROVE  /\ 1 .. k \in SUBSET (1 .. n) /\ 1 .. k # {}
             /\ Max(1 .. k) = k /\ (1 .. k) \ {k} = 1 .. k - 1
  <2>1. k \in 1 .. k /\ 1 .. k \subseteq Nat /\ k \in Nat /\ \A i \in 1 .. k : i <= k
    OBVIOUS
  <2>2. Max(1 .. k) = k
    BY <2>1, MaxOfInterval
  <2>3. (1 .. k) \ {k} = 1 .. k - 1
    OBVIOUS
  <2> QED
    BY <2>1, <2>2, <2>3
<1> QED
  BY <1>1, <1>2
\* Results that start alike and never part are alike.
LEMMA SameResults ==
    ASSUME NEW n \in Nat, NEW f, NEW g, f[{}] = g[{}],
           \A k \in 1 .. n : f[1 .. k - 1] = g[1 .. k - 1] => f[1 .. k] = g[1 .. k]
    PROVE  f[1 .. n] = g[1 .. n]
<1> DEFINE T == {k \in Nat : k <= n => f[1 .. k] = g[1 .. k]}
<1>1. 0 \in T
  <2>1. 1 .. 0 = {}
    OBVIOUS
  <2> QED
    BY <2>1
<1>2. ASSUME NEW k \in Nat, k \in T PROVE k + 1 \in T
  <2> SUFFICES ASSUME k + 1 <= n PROVE f[1 .. k + 1] = g[1 .. k + 1]
    OBVIOUS
  <2>1. f[1 .. k] = g[1 .. k]
    BY <1>2
  <2>2. k + 1 \in 1 .. n /\ (k + 1) - 1 = k
    OBVIOUS
  <2>3. f[1 .. (k + 1) - 1] = g[1 .. (k + 1) - 1] => f[1 .. k + 1] = g[1 .. k + 1]
    BY <2>2
  <2> QED
    BY <2>1, <2>2, <2>3
<1>3. n \in T
  <2> HIDE DEF T
  <2> QED
    BY <1>1, <1>2, SetInduction
<1> QED
  BY <1>3

\* The results position by position.
StepByStep(f, n, p, x0, step) ==
    f[{}] = x0 /\ \A k \in 1 .. n : f[1 .. k] = step[<<f[1 .. k - 1], p[k]>>]

\* Each result is one step from the one before.
LEMMA FoldSteps ==
    ASSUME NEW n \in Nat, NEW p, NEW X, NEW x0, NEW step,
           NEW f, FoldResults(f, n, p, X, x0, step)
    PROVE  StepByStep(f, n, p, x0, step)
<1>1. \A s \in SUBSET (1 .. n) :
          f[s] = IF s = {} THEN x0 ELSE step[<<f[s \ {Max(s)}], p[Max(s)]>>]
  BY DEF FoldResults
<1>2. f[{}] = x0
  BY <1>1
<1>3. ASSUME NEW k \in 1 .. n PROVE f[1 .. k] = step[<<f[1 .. k - 1], p[k]>>]
  <2> DEFINE s == 1 .. k
  <2>1. s \in SUBSET (1 .. n) /\ s # {} /\ Max(s) = k /\ s \ {k} = 1 .. k - 1
    BY Positions
  <2> HIDE DEF s
  <2>2. f[s] = step[<<f[s \ {k}], p[k]>>]
    BY <1>1, <2>1
  <2> QED
    BY <2>1, <2>2, Zenon DEF s
<1> QED
  BY <1>2, <1>3 DEF StepByStep

\* One position more is one step more.
OneMore(g, q, f, p, x, step) == g[1 .. Len(q)] = step[<<f[1 .. Len(p)], x>>]

\* So it is for the results of a sequence with one element more.
LEMMA FoldAppend ==
    ASSUME NEW S, NEW p \in Seq(S), NEW x \in S, NEW X, NEW x0, NEW step,
           NEW f, FoldResults(f, Len(p), p, X, x0, step),
           NEW q, q = Append(p, x),
           NEW g, FoldResults(g, Len(q), q, X, x0, step)
    PROVE  OneMore(g, q, f, p, x, step)
<1> DEFINE n == Len(p)
<1>1. n \in Nat /\ Len(q) = n + 1 /\ q[n + 1] = x /\ \A i \in 1 .. n : q[i] = p[i]
  OBVIOUS
<1> HIDE DEF n
<1>2. n + 1 \in Nat
  BY <1>1
<1>3. f[{}] = x0 /\ \A k \in 1 .. n : f[1 .. k] = step[<<f[1 .. k - 1], p[k]>>]
  BY <1>1, FoldSteps DEF n, StepByStep
<1>4. g[{}] = x0 /\ \A k \in 1 .. n + 1 : g[1 .. k] = step[<<g[1 .. k - 1], q[k]>>]
  <2>1. FoldResults(g, n + 1, q, X, x0, step)
    BY <1>1, Zenon
  <2>2. StepByStep(g, n + 1, q, x0, step)
    BY <1>2, <2>1, FoldSteps
  <2> QED
    BY <2>2 DEF StepByStep
<1>5. ASSUME NEW k \in 1 .. n, g[1 .. k - 1] = f[1 .. k - 1] PROVE g[1 .. k] = f[1 .. k]
  <2>1. k \in 1 .. n + 1
    BY <1>1
  <2>2. g[1 .. k] = step[<<g[1 .. k - 1], q[k]>>]
    BY <1>4, <2>1
  <2> QED
    BY <1>1, <1>3, <1>5, <2>2
<1>6. g[1 .. n] = f[1 .. n]
  <2>1. g[{}] = f[{}]
    BY <1>3, <1>4
  <2>2. n \in Nat
    BY <1>1
  <2> QED
    BY <1>5, <2>1, <2>2, SameResults
<1>7. n + 1 \in 1 .. n + 1 /\ (n + 1) - 1 = n
  BY <1>1
<1>8. g[1 .. n + 1] = step[<<g[1 .. n], x>>]
  BY <1>1, <1>4, <1>7
<1> QED
  BY <1>1, <1>6, <1>8 DEF n, OneMore

\* Induction on the length of a sequence, for a set of sequences.
LEMMA SeqInduction ==
    ASSUME NEW S, NEW T, <<>> \in T,
           \A p \in Seq(S), x \in S : p \in T => Append(p, x) \in T
    PROVE  Seq(S) \subseteq T
<1> DEFINE K == {k \in Nat : \A p \in Seq(S) : Len(p) = k => p \in T}
<1>1. 0 \in K
  <2>1. \A p \in Seq(S) : Len(p) = 0 => p = <<>>
    OBVIOUS
  <2> QED
    BY <2>1
<1>2. ASSUME NEW k \in Nat, k \in K PROVE k + 1 \in K
  <2> SUFFICES ASSUME NEW p \in Seq(S), Len(p) = k + 1 PROVE p \in T
    OBVIOUS
  <2> DEFINE q == SubSeq(p, 1, k)
             x == p[k + 1]
  <2>1. q \in Seq(S) /\ Len(q) = k /\ x \in S
    OBVIOUS
  <2>2. p = Append(q, x)
    OBVIOUS
  <2> HIDE DEF q, x
  <2>3. q \in T
    BY <1>2, <2>1
  <2> QED
    BY <2>1, <2>2, <2>3
<1>3. Nat \subseteq K
  <2> HIDE DEF K
  <2> QED
    BY <1>1, <1>2, SetInduction
<1> QED
  <2> SUFFICES ASSUME NEW p \in Seq(S) PROVE p \in T
    OBVIOUS
  <2>1. Len(p) \in Nat
    OBVIOUS
  <2> QED
    BY <1>3, <2>1
=============================================================================
