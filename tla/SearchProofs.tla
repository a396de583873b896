--------------------------- MODULE SearchProofs ---------------------------
(***************************************************************************)
(* Proofs about Search and Advisor.  A page is a stretch of an order of    *)
(* the hits, and what is in the stretches up to page n is given without    *)
(* the order: the hits with fewer than n * size hits before them           *)
(* (FirstOf).  Hence what a visit has seen does not depend on which of the *)
(* orders each statement used.                                             *)
(***************************************************************************)
EXTENDS Advisor, FiniteSetTheorems, SequenceTheorems, WellFoundedInduction, TLAPS

-----------------------------------------------------------------------------
(***************************************************************************)
(* Orders and pages.                                                       *)
(***************************************************************************)

\* s goes through all of S once.
Enumerates(s, S) ==
  /\ s \in Seq(S) /\ Len(s) = Cardinality(S)
  /\ \A i, j \in 1..Len(s) : i # j => s[i] # s[j]
  /\ \A x \in S : \E i \in 1..Len(s) : s[i] = x

LEMMA Enumerated ==
  ASSUME NEW S, IsFiniteSet(S), NEW s \in SetToSeqs(S)
  PROVE  Enumerates(s, S) /\ DOMAIN s = 1..Cardinality(S) /\ Cardinality(S) \in Nat
<1> DEFINE D == 1..Cardinality(S)
<1>1. Cardinality(S) \in Nat /\ IsFiniteSet(D) /\ Cardinality(D) = Cardinality(S)
  BY FS_CardinalityType, FS_Interval
<1>2. s \in [D -> S] /\ \A i, j \in D : i # j => s[i] # s[j]
  BY DEF SetToSeqs
<1>3. s \in Seq(S) /\ Len(s) = Cardinality(S) /\ DOMAIN s = D
  BY <1>1, <1>2, SeqDef, LenProperties
<1>4. s \in Injection(D, S)
  BY <1>2 DEF Injection, IsInjective
<1>5. s \in Surjection(D, S)
  BY <1>1, <1>4, FS_Injection
<1>6. \A x \in S : \E i \in D : s[i] = x
  BY <1>5 DEF Surjection
<1> QED
  BY <1>1, <1>2, <1>3, <1>6 DEF Enumerates

\* The least of two numbers.
LEMMA MinOfTwo ==
  ASSUME NEW a \in Nat, NEW b \in Nat
  PROVE  Min({a, b}) = IF a <= b THEN a ELSE b
<1>1. \E x \in {a, b} : \A y \in {a, b} : x <= y
  OBVIOUS
<1>2. Min({a, b}) \in {a, b} /\ \A y \in {a, b} : Min({a, b}) <= y
  BY <1>1 DEF Min
<1> QED
  BY <1>2

\* How many of S have a greater key than p, and the first n of S by their keys.
Above(S, key, p) == Cardinality({r \in S : key[r] > key[p]})
FirstOf(S, key, n) == {p \in S : Above(S, key, p) < n}
\* s goes through S from the greatest key to the least.
Descends(s, S, key) ==
  /\ Enumerates(s, S) /\ \A i, j \in 1..Len(s) : i < j => key[s[i]] > key[s[j]]

LEMMA Position ==
  ASSUME NEW S, IsFiniteSet(S), NEW key, \A p \in S : key[p] \in Nat,
         NEW s, Descends(s, S, key), NEW i \in 1..Len(s)
  PROVE  Above(S, key, s[i]) = i - 1
<1> DEFINE T == {r \in S : key[r] > key[s[i]]}
           f == [j \in 1..(i - 1) |-> s[j]]
<1>1. /\ Len(s) \in Nat /\ \A j \in 1..Len(s) : s[j] \in S /\ key[s[j]] \in Nat
      /\ \A j, k \in 1..Len(s) : (j < k => key[s[j]] > key[s[k]]) /\ (j # k => s[j] # s[k])
      /\ \A x \in S : \E j \in 1..Len(s) : s[j] = x
  BY LenProperties, ElementOfSeq DEF Descends, Enumerates
<1>2. f \in [1..(i - 1) -> T]
  BY <1>1
<1>3. f \in Injection(1..(i - 1), T)
  <2>1. \A a, b \in 1..(i - 1) : f[a] = f[b] => a = b
    BY <1>1
  <2> QED
    BY <1>2, <2>1 DEF Injection, IsInjective
<1>4. \A x \in T : \E j \in 1..(i - 1) : f[j] = x
  <2> SUFFICES ASSUME NEW x \in T PROVE \E j \in 1..(i - 1) : f[j] = x
    OBVIOUS
  <2>1. PICK j \in 1..Len(s) : s[j] = x
    BY <1>1
  <2>2. ~(i < j) /\ j # i
    BY <1>1, <2>1
  <2> QED
    BY <1>1, <2>1, <2>2
<1>5. f \in Surjection(1..(i - 1), T)
  BY <1>2, <1>4 DEF Surjection
<1>6. f \in Bijection(1..(i - 1), T)
  BY <1>3, <1>5 DEF Bijection
<1>7. ExistsBijection(1..(i - 1), T)
  BY <1>6 DEF ExistsBijection
<1>8. IsFiniteSet(1..(i - 1)) /\ Cardinality(1..(i - 1)) = i - 1
  <2>1. i \in Nat /\ i >= 1
    BY <1>1
  <2> QED
    BY <2>1, FS_Interval
<1>9. Cardinality(T) = i - 1
  BY <1>7, <1>8, FS_Bijection
<1> QED
  BY <1>9 DEF Above

\* A page holds what comes after the pages before it and not after itself.
PageCut(ids, S, key, q, page) ==
  /\ \A i, j \in 1..Len(ids) : i # j => ids[i] # ids[j]
  /\ FirstOf(S, key, page * q.size) =
       FirstOf(S, key, (page - 1) * q.size) \cup {ids[i] : i \in 1..Len(ids)}
  /\ \A i \in 1..Len(ids) : ids[i] \notin FirstOf(S, key, (page - 1) * q.size)

LEMMA PageHolds ==
  ASSUME NEW S, IsFiniteSet(S), NEW key, \A p \in S : key[p] \in Nat, NEW s, Descends(s, S, key),
         NEW q, q.size \in Nat \ {0}, NEW page \in Nat \ {0}
  PROVE  PageCut(PageOf(s, q, page), S, key, q, page)
<1> DEFINE ids == PageOf(s, q, page)
           a == (page - 1) * q.size
           b == page * q.size
           n == Min({b, Len(s)})
<1>1. /\ s \in Seq(S) /\ Len(s) \in Nat /\ \A j \in 1..Len(s) : s[j] \in S
      /\ \A j, k \in 1..Len(s) : j # k => s[j] # s[k]
      /\ \A x \in S : \E j \in 1..Len(s) : s[j] = x
  BY LenProperties, ElementOfSeq DEF Descends, Enumerates
<1>0. Len(s) \in Nat
  BY <1>1
<1>2. a \in Nat /\ b \in Nat /\ a <= b
  OBVIOUS
<1>3. n = (IF b <= Len(s) THEN b ELSE Len(s)) /\ n \in Nat
  BY <1>1, <1>2, MinOfTwo
<1>4. ids = SubSeq(s, a + 1, n)
  BY DEF PageOf
<1> HIDE DEF a, b, n, ids
<1>5. \A i \in (a + 1)..n : s[i] \in S
  <2>1. \A i \in (a + 1)..n : i \in 1..Len(s)
    <3>1. a \in Nat /\ n \in Nat /\ Len(s) \in Nat /\ n <= Len(s)
      BY <1>0, <1>2, <1>3
    <3> QED
      BY <3>1
  <2> QED
    BY <1>1, <2>1
<1>6. /\ ids \in Seq(S) /\ Len(ids) = (IF a + 1 <= n THEN n - (a + 1) + 1 ELSE 0)
      /\ \A i \in 1..(n - (a + 1) + 1) : ids[i] = s[(a + 1) + i - 1]
  BY <1>2, <1>3, <1>4, <1>5, SubSeqProperties
<1>7. Len(ids) \in Nat /\ \A i \in 1..Len(ids) : ids[i] = s[a + i] /\ a + i \in 1..Len(s) /\ a + i <= n
  <2>1. Len(ids) = (IF a + 1 <= n THEN n - a ELSE 0) /\ Len(ids) \in Nat
    BY <1>2, <1>3, <1>6
  <2>2. ASSUME NEW i \in 1..Len(ids)
        PROVE  ids[i] = s[a + i] /\ a + i \in 1..Len(s) /\ a + i <= n
    <3>0. i \in Nat /\ 1 <= i /\ a + i <= n
      BY <1>2, <1>3, <2>1
    <3>1. /\ i \in 1..(n - (a + 1) + 1) /\ (a + 1) + i - 1 = a + i /\ a + i \in 1..Len(s)
          /\ a + i <= n
      <4>1. n <= Len(s)
        BY <1>0, <1>2, <1>3
      <4> QED
        BY <1>0, <1>2, <1>3, <3>0, <4>1
    <3> QED
      BY <1>6, <3>1
  <2> QED
    BY <2>1, <2>2
<1>8. \A i, j \in 1..Len(ids) : i # j => ids[i] # ids[j]
  <2> SUFFICES ASSUME NEW i \in 1..Len(ids), NEW j \in 1..Len(ids), i # j PROVE ids[i] # ids[j]
    OBVIOUS
  <2> DEFINE x == a + i
             y == a + j
  <2>1. x # y
    BY <1>2, <1>7
  <2>2. ids[i] = s[x] /\ ids[j] = s[y] /\ x \in 1..Len(s) /\ y \in 1..Len(s)
    BY <1>7
  <2> HIDE DEF x, y
  <2> QED
    BY <1>1, <2>1, <2>2
<1>9. \A j \in 1..Len(s) : Above(S, key, s[j]) = j - 1
  BY Position
<1>10. \A i \in 1..Len(ids) : ids[i] \notin FirstOf(S, key, a) /\ ids[i] \in FirstOf(S, key, b)
  <2> SUFFICES ASSUME NEW i \in 1..Len(ids)
               PROVE  ids[i] \notin FirstOf(S, key, a) /\ ids[i] \in FirstOf(S, key, b)
    OBVIOUS
  <2> DEFINE x == a + i
  <2>1. ids[i] = s[x] /\ x \in 1..Len(s)
    BY <1>7
  <2>2. ~(x - 1 < a) /\ x - 1 < b
    BY <1>0, <1>2, <1>3, <1>7
  <2> HIDE DEF x
  <2>3. s[x] \in S /\ Above(S, key, s[x]) = x - 1
    BY <1>1, <1>9, <2>1
  <2> QED
    BY <2>1, <2>2, <2>3 DEF FirstOf
<1>11. ASSUME NEW p \in S
       PROVE  p \in FirstOf(S, key, b) <=> p \in FirstOf(S, key, a) \/ \E i \in 1..Len(ids) : ids[i] = p
  <2>1. PICK j \in 1..Len(s) : s[j] = p
    BY <1>1
  <2>2. Above(S, key, p) = j - 1
    BY <1>9, <2>1
  <2>3. p \in FirstOf(S, key, a) => p \in FirstOf(S, key, b)
    BY <1>1, <1>2, <2>2 DEF FirstOf
  <2>4. ASSUME p \in FirstOf(S, key, b), p \notin FirstOf(S, key, a)
        PROVE  \E i \in 1..Len(ids) : ids[i] = p
    <3>1. j - a \in 1..Len(ids)
      <4>1. j - 1 < b /\ ~(j - 1 < a) /\ j \in 1..Len(s)
        BY <1>0, <2>2, <2>4 DEF FirstOf
      <4> QED
        BY <1>0, <1>2, <1>3, <1>6, <4>1
    <3>2. ids[j - a] = s[a + (j - a)]
      BY <1>7, <3>1
    <3>3. a + (j - a) = j
      BY <1>1, <1>2
    <3> QED
      BY <2>1, <3>1, <3>2, <3>3
  <2> QED
    BY <1>10, <2>3, <2>4
<1>12. FirstOf(S, key, b) = FirstOf(S, key, a) \cup {ids[i] : i \in 1..Len(ids)}
  <2>1. \A i \in 1..Len(ids) : ids[i] \in S
    BY <1>1, <1>7
  <2>2. FirstOf(S, key, b) \subseteq S /\ FirstOf(S, key, a) \subseteq S
    BY DEF FirstOf
  <2> QED
    BY <1>11, <2>1, <2>2
<1> QED
  BY <1>8, <1>10, <1>12 DEF a, b, ids, PageCut

-----------------------------------------------------------------------------
(***************************************************************************)
(* Items and visits.                                                       *)
(***************************************************************************)

IsSeq(s) == \E S : s \in Seq(S)
IdsOf(s) == {s[i].id : i \in 1..Len(s)}
Distinct(s) == \A i, j \in 1..Len(s) : s[i].id = s[j].id => i = j

LEMMA Joins ==
  ASSUME NEW s, NEW t, IsSeq(s), IsSeq(t)
  PROVE  /\ IsSeq(s \o t) /\ IdsOf(s \o t) = IdsOf(s) \cup IdsOf(t)
         /\ Distinct(s) /\ Distinct(t) /\ IdsOf(s) \cap IdsOf(t) = {} => Distinct(s \o t)
<1>1. PICK S : s \in Seq(S)
  BY DEF IsSeq
<1>2. PICK T : t \in Seq(T)
  BY DEF IsSeq
<1>3. s \in Seq(S \cup T) /\ t \in Seq(S \cup T)
  <2>1. s \in [1..Len(s) -> S] /\ t \in [1..Len(t) -> T] /\ Len(s) \in Nat /\ Len(t) \in Nat
    BY <1>1, <1>2, LenProperties, ElementOfSeq
  <2>2. s \in [1..Len(s) -> S \cup T] /\ t \in [1..Len(t) -> S \cup T]
    BY <2>1
  <2> QED
    BY <2>1, <2>2, SeqDef
<1> DEFINE u == s \o t
<1>4. /\ u \in Seq(S \cup T) /\ Len(u) = Len(s) + Len(t)
      /\ \A i \in 1..(Len(s) + Len(t)) : u[i] = IF i <= Len(s) THEN s[i] ELSE t[i - Len(s)]
  BY <1>3, ConcatProperties
<1>5. Len(s) \in Nat /\ Len(t) \in Nat
  BY <1>1, <1>2, LenProperties
<1> HIDE DEF u
<1>6. \A i \in 1..Len(s) : i \in 1..Len(u) /\ u[i] = s[i]
  BY <1>4, <1>5
<1>7. ASSUME NEW i \in 1..Len(t) PROVE Len(s) + i \in 1..Len(u) /\ u[Len(s) + i] = t[i]
  <2> DEFINE k == Len(s) + i
  <2>1. k \in 1..(Len(s) + Len(t)) /\ ~(k <= Len(s)) /\ k - Len(s) = i
    BY <1>5
  <2> HIDE DEF k
  <2>2. k \in 1..Len(u) /\ u[k] = t[i]
    BY <1>4, <2>1
  <2> QED
    BY <2>2 DEF k
<1>8. ASSUME NEW i \in 1..Len(u)
      PROVE  i \in 1..Len(s) \/ (i - Len(s) \in 1..Len(t) /\ u[i] = t[i - Len(s)])
  BY <1>4, <1>5
<1>9. IdsOf(u) = IdsOf(s) \cup IdsOf(t)
  <2>1. ASSUME NEW x \in IdsOf(u) PROVE x \in IdsOf(s) \cup IdsOf(t)
    <3>1. PICK i \in 1..Len(u) : x = u[i].id
      BY DEF IdsOf
    <3>2. CASE i \in 1..Len(s)
      BY <1>6, <3>1, <3>2 DEF IdsOf
    <3>3. CASE i - Len(s) \in 1..Len(t) /\ u[i] = t[i - Len(s)]
      BY <3>1, <3>3 DEF IdsOf
    <3> QED
      BY <1>8, <3>2, <3>3
  <2>2. ASSUME NEW x \in IdsOf(s) PROVE x \in IdsOf(u)
    BY <1>6 DEF IdsOf
  <2>3. ASSUME NEW x \in IdsOf(t) PROVE x \in IdsOf(u)
    <3>1. PICK i \in 1..Len(t) : x = t[i].id
      BY DEF IdsOf
    <3> QED
      BY <1>7, <3>1 DEF IdsOf
  <2> QED
    BY <2>1, <2>2, <2>3
<1>10. ASSUME Distinct(s), Distinct(t), IdsOf(s) \cap IdsOf(t) = {} PROVE Distinct(u)
  <2> SUFFICES ASSUME NEW i \in 1..Len(u), NEW j \in 1..Len(u), u[i].id = u[j].id PROVE i = j
    BY DEF Distinct
  <2>1. CASE i \in 1..Len(s) /\ j \in 1..Len(s)
    BY <1>6, <1>10, <2>1 DEF Distinct
  <2>2. CASE i \in 1..Len(s) /\ j \notin 1..Len(s)
    <3>1. u[i].id \in IdsOf(s)
      BY <1>6, <2>2 DEF IdsOf
    <3>2. u[j].id \in IdsOf(t)
      BY <1>8, <2>2 DEF IdsOf
    <3> QED
      BY <1>10, <3>1, <3>2
  <2>3. CASE i \notin 1..Len(s) /\ j \in 1..Len(s)
    <3>1. u[j].id \in IdsOf(s)
      BY <1>6, <2>3 DEF IdsOf
    <3>2. u[i].id \in IdsOf(t)
      BY <1>8, <2>3 DEF IdsOf
    <3> QED
      BY <1>10, <3>1, <3>2
  <2>4. CASE i \notin 1..Len(s) /\ j \notin 1..Len(s)
    <3>1. /\ i - Len(s) \in 1..Len(t) /\ u[i] = t[i - Len(s)]
          /\ j - Len(s) \in 1..Len(t) /\ u[j] = t[j - Len(s)]
      BY <1>8, <2>4
    <3>2. i - Len(s) = j - Len(s)
      BY <1>10, <3>1 DEF Distinct
    <3> QED
      BY <1>4, <1>5, <3>2
  <2> QED
    BY <2>1, <2>2, <2>3, <2>4
<1>11. IsSeq(u)
  BY <1>4 DEF IsSeq
<1> QED
  BY <1>9, <1>10, <1>11 DEF u

LEMMA EmptyJoins == IsSeq(<<>>) /\ IdsOf(<<>>) = {} /\ Distinct(<<>>)
<1>1. <<>> \in Seq({}) /\ Len(<<>>) = 0
  OBVIOUS
<1>2. IsSeq(<<>>)
  BY <1>1 DEF IsSeq
<1> QED
  BY <1>1, <1>2 DEF IdsOf, Distinct

\* The items of an answer are those of the positions that were kept, in some order.
LEMMA Answered ==
  ASSUME NEW ids \in Seq(Products), NEW kept \in SUBSET (1..Len(ids)), NEW fetched, NEW pc,
         Answer(ids, kept, fetched, pc)
  PROVE  \E items :
           /\ visit' = [visit EXCEPT !.items = items, !.fetched = fetched, !.pc = pc]
           /\ seen' = seen \o items /\ IsSeq(items) /\ IdsOf(items) = {ids[i] : i \in kept}
           /\ (\A i, j \in 1..Len(ids) : i # j => ids[i] # ids[j]) => Distinct(items)
<1>1. PICK s \in Sorted(kept, ids, visit.query) :
        LET items == [k \in DOMAIN s |-> Item(ids[s[k]])] IN
        /\ visit' = [visit EXCEPT !.items = items, !.fetched = fetched, !.pc = pc]
        /\ seen' = seen \o items
  BY DEF Answer
<1>2. Len(ids) \in Nat /\ IsFiniteSet(1..Len(ids)) /\ IsFiniteSet(kept)
  <2>1. Len(ids) \in Nat
    BY LenProperties
  <2>2. IsFiniteSet(1..Len(ids))
    BY <2>1, FS_Interval
  <2> QED
    BY <2>1, <2>2, FS_Subset
<1>3. s \in SetToSeqs(kept)
  BY DEF Sorted, InOrder
<1>4. Enumerates(s, kept) /\ DOMAIN s = 1..Cardinality(kept) /\ Cardinality(kept) \in Nat
  BY <1>2, <1>3, Enumerated
<1> DEFINE items == [k \in DOMAIN s |-> Item(ids[s[k]])]
           n == Cardinality(kept)
           T == {items[k] : k \in 1..n}
<1>5. items \in [1..n -> T]
  BY <1>4
<1>6. items \in Seq(T)
  BY <1>4, <1>5, SeqDef
<1>7. Len(items) = n
  BY <1>4, <1>5, <1>6, LenProperties
<1>8. \A k \in 1..n : s[k] \in kept /\ s[k] \in 1..Len(ids) /\ items[k].id = ids[s[k]]
  <2>1. \A k \in 1..n : s[k] \in kept
    BY <1>4, ElementOfSeq DEF Enumerates
  <2>2. \A k \in 1..n : items[k].id = ids[s[k]]
    BY <1>4 DEF Item
  <2> QED
    BY <2>1, <2>2
<1>9. visit' = [visit EXCEPT !.items = items, !.fetched = fetched, !.pc = pc] /\ seen' = seen \o items
  BY <1>1
<1> HIDE DEF items, n
<1>10. IdsOf(items) = {ids[i] : i \in kept}
  <2>1. \A i \in kept : \E k \in 1..n : s[k] = i
    BY <1>4 DEF Enumerates, n
  <2>2. ASSUME NEW i \in kept PROVE \E k \in 1..n : items[k].id = ids[i]
    BY <1>8, <2>1
  <2>3. ASSUME NEW k \in 1..n PROVE \E i \in kept : items[k].id = ids[i]
    BY <1>8
  <2>4. Len(items) = n
    BY <1>7
  <2> DEFINE K == {ids[i] : i \in kept}
  <2>5. ASSUME NEW x \in IdsOf(items) PROVE x \in K
    <3>1. PICK k \in 1..n : items[k].id = x
      BY <2>4 DEF IdsOf
    <3> QED
      BY <2>3, <3>1
  <2>6. ASSUME NEW x \in K PROVE x \in IdsOf(items)
    <3>1. PICK i \in kept : ids[i] = x
      OBVIOUS
    <3>2. PICK k \in 1..n : items[k].id = x
      BY <2>2, <3>1
    <3> QED
      BY <2>4, <3>2 DEF IdsOf
  <2> HIDE DEF K
  <2>7. IdsOf(items) = K
    BY <2>5, <2>6
  <2> QED
    BY <2>7 DEF K
<1>11. ASSUME \A i, j \in 1..Len(ids) : i # j => ids[i] # ids[j]
       PROVE  Distinct(items)
  <2> SUFFICES ASSUME NEW i \in 1..n, NEW j \in 1..n, items[i].id = items[j].id PROVE i = j
    BY <1>7 DEF Distinct
  <2>1. s[i] = s[j]
    BY <1>8, <1>11
  <2>2. i \in 1..Len(s) /\ j \in 1..Len(s)
    BY <1>4 DEF Enumerates, n
  <2> QED
    BY <1>4, <2>1, <2>2 DEF Enumerates
<1>12. IsSeq(items)
  BY <1>6 DEF IsSeq
<1> QED
  BY <1>9, <1>10, <1>11, <1>12

-----------------------------------------------------------------------------
(***************************************************************************)
(* The state.                                                              *)
(***************************************************************************)

VisitPCs == {"idle", "category", "children", "read", "match", "load", "answered"}
Visits(Q, A, I) ==
  [pc : VisitPCs, query : Q, page : Nat, among : A, counted : BOOLEAN, total : Nat,
   ids : Seq(Products), fetched : BOOLEAN, items : I]
Goods(W, V) ==
  [active : BOOLEAN, category : Categories \cup {Unset}, words : W, variants : V]
VisitShaped == \E Q, A, I : visit \in Visits(Q, A, I)
ShopShaped == \E W, V : shop \in [Products -> Goods(W, V)]
Shape == VisitShaped /\ ShopShaped /\ IsSeq(seen) /\ IsSeq(visit.items)

\* What is shown was on sale while it was looked for.
SaleInv ==
  /\ onSale \subseteq Products /\ IdsOf(visit.items) \subseteq onSale
  /\ visit.pc # "idle" => Active \subseteq onSale
  /\ \A i \in 1..Len(visit.ids) : visit.ids[i] \in onSale

\* Where a visit is in its query.
Phase ==
  LET q == visit.query IN
  visit.pc # "idle" =>
    /\ q.size \in Nat \ {0} /\ q.category \in Categories \cup {Unset} /\ visit.page >= 1
    /\ visit.pc \in {"category", "children", "read"} => q.words = {}
    /\ visit.pc \in {"match", "load"} => q.words # {}
    /\ visit.pc \in {"category", "children"} => q.category # Unset
    /\ visit.pc = "category" => q.how = "slug"
    /\ visit.pc \notin {"read", "answered"} => ~visit.fetched /\ ~visit.counted
    /\ q.category = Unset => visit.among = Categories \cup {Unset}

\* The products a query is about, the key that orders them, and those of them it shows.
Around(q) == IF q.category = Unset THEN Categories \cup {Unset} ELSE Scope(q.category)
Hits(q) == IF q.words = {} THEN Listed(q, Around(q)) ELSE Matching(q)
Key(q) == IF q.words = {} THEN [p \in Products |-> p] ELSE Rank
Stays(q, p) == IF q.words = {} THEN InStock(q, shop[p]) ELSE Matches(q, shop[p])
Shown(q, n) == {p \in FirstOf(Hits(q), Key(q), n * q.size) : Stays(q, p)}
Pages == IF visit.pc = "answered" \/ visit.fetched THEN visit.page ELSE visit.page - 1

\* What a visit that nothing disturbs has seen.
CoverInv ==
  LET q == visit.query IN
  visit.pc # "idle" /\ steady /\ Faithful(q) =>
    /\ Distinct(seen) /\ IdsOf(seen) = Shown(q, Pages)
    /\ visit.pc = "read" => visit.among = Around(q)
    /\ visit.counted => visit.total = Cardinality(Hits(q))
    /\ visit.pc = "answered" /\ q.words = {} => visit.counted
    /\ visit.pc = "load" => PageCut(visit.ids, Hits(q), Key(q), q, visit.page)

SearchInv == Shape /\ SaleInv /\ Phase /\ CoverInv

-----------------------------------------------------------------------------
LEMMA UnreadShaped == Unread \in Visits({NoQuery}, {{}}, {<<>>})
<1>1. <<>> \in Seq(Products)
  OBVIOUS
<1> QED
  BY <1>1 DEF Unread, Visits, VisitPCs

LEMMA ShopStarts == SearchInit => ShopShaped
<1> SUFFICES ASSUME SearchInit PROVE ShopShaped
  OBVIOUS
<1> DEFINE W == {shop[p].words : p \in Products}
           V == {shop[p].variants : p \in Products}
<1>1. shop \in [Products -> Goods(W, V)]
  BY SearchConstants DEF SearchInit, Goods
<1> QED
  BY <1>1 DEF ShopShaped

LEMMA ShopEdited == ASSUME ShopShaped, Edit PROVE ShopShaped'
<1>1. PICK W, V : shop \in [Products -> Goods(W, V)]
  BY DEF ShopShaped
<1>2. ASSUME NEW p \in Products, SetStatus(p) PROVE ShopShaped'
  <2>1. shop' \in [Products -> Goods(W, V)]
    BY <1>1, <1>2 DEF SetStatus, Goods
  <2> QED
    BY <2>1 DEF ShopShaped
<1>3. ASSUME NEW p \in Products, NEW c \in Categories, MoveTo(p, c) PROVE ShopShaped'
  <2>1. shop' \in [Products -> Goods(W, V)]
    BY <1>1, <1>3 DEF MoveTo, Goods
  <2> QED
    BY <2>1 DEF ShopShaped
<1>4. ASSUME NEW p \in Products, NEW x, shop' = [shop EXCEPT ![p].variants = x] PROVE ShopShaped'
  <2>1. shop' \in [Products -> Goods(W, V \cup {x})]
    BY <1>1, <1>4 DEF Goods
  <2> QED
    BY <2>1 DEF ShopShaped
<1>5. ASSUME NEW p \in Products, NEW price, Reprice(p, price) PROVE ShopShaped'
  <2>1. shop' = [shop EXCEPT ![p].variants = [shop[p].variants EXCEPT ![1].offers[1].price = price]]
    BY <1>5 DEF Reprice
  <2> QED
    BY <1>4, <2>1
<1>6. ASSUME NEW p \in Products, Reserve(p) PROVE ShopShaped'
  <2>1. PICK i : shop' = [shop EXCEPT ![p].variants[1].balances[i].reserved = @ + 1]
    BY <1>6 DEF Reserve
  <2>2. shop' = [shop EXCEPT ![p].variants = [shop[p].variants EXCEPT ![1].balances[i].reserved = @ + 1]]
    BY <2>1
  <2> QED
    BY <1>4, <2>2
<1>7. ASSUME UNCHANGED shop PROVE ShopShaped'
  BY <1>1, <1>7 DEF ShopShaped
<1> QED
  BY <1>2, <1>3, <1>5, <1>6, <1>7 DEF Edit, SetActive, Archive, SetParent

LEMMA Facts ==
  ASSUME Shape
  PROVE  /\ \A p \in Products : shop[p].category \in Categories \cup {Unset}
         /\ visit.pc \in VisitPCs /\ visit.page \in Nat /\ visit.counted \in BOOLEAN
         /\ visit.fetched \in BOOLEAN /\ visit.total \in Nat /\ visit.ids \in Seq(Products)
         /\ Len(visit.ids) \in Nat /\ DOMAIN visit.ids = 1..Len(visit.ids)
<1>1. PICK W, V : shop \in [Products -> Goods(W, V)]
  BY DEF Shape, ShopShaped
<1>2. PICK Q, A, I : visit \in Visits(Q, A, I)
  BY DEF Shape, VisitShaped
<1>3. visit.ids \in Seq(Products)
  BY <1>2 DEF Visits
<1>4. \A p \in Products : shop[p].category \in Categories \cup {Unset}
  BY <1>1 DEF Goods
<1> QED
  BY <1>2, <1>3, <1>4, LenProperties DEF Visits

\* Nothing a visitor does changes the shop.
LEMMA SameShop ==
  ASSUME UNCHANGED <<shop, tree>>
  PROVE  /\ Active' = Active
         /\ \A q : Faithful(q)' = Faithful(q) /\ Hits(q)' = Hits(q) /\ Around(q)' = Around(q)
         /\ \A q, n : Shown(q, n)' = Shown(q, n)
BY DEF Active, Faithful, Hits, Around, Shown, Stays, Listed, Matching, Scope, Matches

-----------------------------------------------------------------------------
(***************************************************************************)
(* The steps of visitors.                                                  *)
(***************************************************************************)

\* What a visit v that has seen s must satisfy.
CoverOK(v, s) ==
  LET q == v.query
      n == IF v.pc = "answered" \/ v.fetched THEN v.page ELSE v.page - 1 IN
  v.pc # "idle" /\ Faithful(q) =>
    /\ Distinct(s) /\ IdsOf(s) = Shown(q, n)
    /\ v.pc = "read" => v.among = Around(q)
    /\ v.counted => v.total = Cardinality(Hits(q))
    /\ v.pc = "answered" /\ q.words = {} => v.counted
    /\ v.pc = "load" => PageCut(v.ids, Hits(q), Key(q), q, v.page)

LEMMA CoverNow ==
  CoverInv <=> (steady => CoverOK(visit, seen))
BY DEF CoverInv, CoverOK, Pages

LEMMA CoverNext ==
  ASSUME UNCHANGED <<shop, tree>>, NEW v, NEW s, v = visit', s = seen', steady' => CoverOK(v, s)
  PROVE  CoverInv'
<1>1. \A q : Faithful(q)' = Faithful(q) /\ Hits(q)' = Hits(q) /\ Around(q)' = Around(q)
  BY SameShop
<1>2. \A q, n : Shown(q, n)' = Shown(q, n)
  BY SameShop
<1> QED
  BY <1>1, <1>2 DEF CoverInv, CoverOK, Pages

LEMMA PhaseNext ==
  ASSUME NEW v, v = visit',
         LET q == v.query IN
         v.pc # "idle" =>
           /\ q.size \in Nat \ {0} /\ q.category \in Categories \cup {Unset} /\ v.page >= 1
           /\ v.pc \in {"category", "children", "read"} => q.words = {}
           /\ v.pc \in {"match", "load"} => q.words # {}
           /\ v.pc \in {"category", "children"} => q.category # Unset
           /\ v.pc = "category" => q.how = "slug"
           /\ v.pc \notin {"read", "answered"} => ~v.fetched /\ ~v.counted
           /\ q.category = Unset => v.among = Categories \cup {Unset}
  PROVE  Phase'
BY DEF Phase

LEMMA HitsFinite ==
  ASSUME NEW q
  PROVE  /\ Hits(q) \subseteq Products /\ IsFiniteSet(Hits(q)) /\ Cardinality(Hits(q)) \in Nat
         /\ Cardinality(Hits(q)) <= Cardinality(Products)
         /\ \A p \in Hits(q) : Key(q)[p] \in Nat
<1>1. Hits(q) \subseteq Products
  BY DEF Hits, Listed, Matching
<1>2. IsFiniteSet(Hits(q)) /\ Cardinality(Hits(q)) <= Cardinality(Products)
  BY <1>1, SearchConstants, FS_Subset
<1>3. \A p \in Hits(q) : Key(q)[p] \in Nat
  BY <1>1, SearchConstants DEF Key
<1> QED
  BY <1>1, <1>2, <1>3, FS_CardinalityType

LEMMA AboveTyped ==
  ASSUME NEW S, IsFiniteSet(S), NEW key, NEW p \in S, \A r \in S : key[r] \in Nat
  PROVE  Above(S, key, p) \in Nat /\ Above(S, key, p) < Cardinality(S)
<1> DEFINE T == {r \in S : key[r] > key[p]}
<1>1. T \in SUBSET S /\ T # S
  <2>1. p \notin T
    OBVIOUS
  <2> QED
    BY <2>1
<1>2. IsFiniteSet(T) /\ Cardinality(T) <= Cardinality(S) /\ Cardinality(T) # Cardinality(S)
  <2> HIDE DEF T
  <2> QED
    BY <1>1, FS_Subset
<1>3. Cardinality(T) \in Nat /\ Cardinality(S) \in Nat
  BY <1>2, FS_CardinalityType
<1> QED
  BY <1>2, <1>3 DEF Above

LEMMA NothingFirst ==
  ASSUME NEW q, q.size \in Nat
  PROVE  Shown(q, 0) = {}
<1>1. 0 * q.size = 0
  OBVIOUS
<1>2. \A p \in Hits(q) : ~(Above(Hits(q), Key(q), p) < 0)
  BY HitsFinite, AboveTyped
<1>3. FirstOf(Hits(q), Key(q), 0) = {}
  BY <1>2 DEF FirstOf
<1> QED
  BY <1>1, <1>3 DEF Shown

LEMMA Opened ==
  ASSUME NEW q, Open(q)
  PROVE  /\ visit' \in Visits({q}, {Categories \cup {Unset}, {}}, {<<>>})
         /\ visit'.pc = FirstStatement(q) /\ visit'.query = q /\ visit'.page = 1
         /\ visit'.ids = <<>> /\ visit'.items = <<>> /\ ~visit'.counted /\ ~visit'.fetched
         /\ q.category = Unset => visit'.among = Categories \cup {Unset}
         /\ visit'.pc \in VisitPCs \ {"idle"}
<1>1. FirstStatement(q) \in VisitPCs \ {"idle"}
  BY DEF FirstStatement, VisitPCs
<1>2. <<>> \in Seq(Products)
  OBVIOUS
<1> QED
  BY <1>1, <1>2 DEF Open, Unread, Visits

\* A visit that begins.
LEMMA OpenKeeps ==
  ASSUME SearchInv, NEW q, q.size \in Nat \ {0}, q.category \in Categories \cup {Unset}, Open(q),
         UNCHANGED <<shop, tree>>, seen' = <<>>, onSale' = Active
  PROVE  SearchInv'
<1>1. /\ visit' \in Visits({q}, {Categories \cup {Unset}, {}}, {<<>>})
      /\ visit'.pc = FirstStatement(q) /\ visit'.query = q /\ visit'.page = 1
      /\ visit'.ids = <<>> /\ visit'.items = <<>> /\ ~visit'.counted /\ ~visit'.fetched
      /\ q.category = Unset => visit'.among = Categories \cup {Unset}
      /\ visit'.pc \in VisitPCs \ {"idle"}
  BY Opened
<1>2. UNCHANGED <<shop, tree>> /\ seen' = <<>> /\ onSale' = Active
  OBVIOUS
<1>3. q.size \in Nat \ {0} /\ q.category \in Categories \cup {Unset}
  OBVIOUS
<1>4. Shape'
  BY <1>1, <1>2, EmptyJoins DEF SearchInv, Shape, VisitShaped, ShopShaped
<1>5. SaleInv'
  <2>1. Active' = Active /\ Active \subseteq Products
    BY <1>2, SameShop DEF Active
  <2>2. Len(<<>>) = 0
    OBVIOUS
  <2> QED
    BY <1>1, <1>2, <2>1, <2>2, EmptyJoins DEF SaleInv
<1>6. Phase'
  <2> DEFINE v == visit'
  <2>1. /\ v.pc \in {"category", "children", "read"} => q.words = {}
        /\ v.pc \in {"match", "load"} => q.words # {}
        /\ v.pc \in {"category", "children"} => q.category # Unset
        /\ v.pc = "category" => q.how = "slug"
    BY <1>1 DEF FirstStatement
  <2> QED
    BY <1>1, <1>3, <2>1, PhaseNext
<1>7. CoverInv'
  <2> DEFINE v == visit'
  <2>1. v.pc \notin {"answered", "load"} /\ (v.pc = "read" => q.category = Unset)
    BY <1>1 DEF FirstStatement
  <2>2. v.pc = "read" => v.among = Around(q)
    BY <1>1, <2>1 DEF Around
  <2>3. CoverOK(v, <<>>)
    <3>1. v.page - 1 = 0 /\ Shown(q, 0) = {}
      BY <1>1, <1>3, NothingFirst
    <3> QED
      BY <1>1, <2>1, <2>2, <3>1, EmptyJoins DEF CoverOK
  <2> QED
    BY <1>2, <2>3, CoverNext
<1> QED
  BY <1>4, <1>5, <1>6, <1>7 DEF SearchInv

LEMMA AskKeeps ==
  ASSUME SearchInv, NEW q \in Queries, Ask(q)
  PROVE  SearchInv'
<1>1. q.size \in Nat \ {0} /\ q.category \in Categories \cup {Unset}
  BY SearchConstants
<1>2. Open(q) /\ UNCHANGED <<shop, tree>> /\ seen' = <<>> /\ onSale' = Active
  BY DEF Ask, Shop
<1> QED
  BY <1>1, <1>2, OpenKeeps

\* A step that writes some fields of the visit.
LEMMA FieldsKeep ==
  ASSUME Shape, NEW v, v = visit', UNCHANGED <<shop, seen>>, v.items = visit.items \/ v.items = <<>>,
         NEW Q, NEW A, NEW I, v \in Visits(Q, A, I)
  PROVE  Shape'
BY EmptyJoins DEF Shape, VisitShaped, ShopShaped

LEMMA VisitFields ==
  ASSUME VisitShaped
  PROVE  \E Q, A, I : visit \in Visits(Q, A, I)
BY DEF VisitShaped

\* A step of one visit between its statements that looks at no product.
LEMMA QuietSale ==
  ASSUME SaleInv, UNCHANGED <<shop, onSale>>, visit'.items = visit.items,
         visit'.ids = visit.ids, visit.pc # "idle"
  PROVE  SaleInv'
BY DEF SaleInv, Active

LEMMA FindCategoryKeeps ==
  ASSUME SearchInv, FindCategory
  PROVE  SearchInv'
<1> DEFINE q == visit.query
           pc == IF tree[q.category].there /\ tree[q.category].active THEN "children" ELSE "answered"
<1>1. visit.pc = "category" /\ visit' = [visit EXCEPT !.pc = pc] /\ UNCHANGED <<shop, tree, seen, steady, onSale>>
  BY DEF FindCategory, VisitAt, VisitTo, Shop, Trace
<1>2. PICK Q, A, I : visit \in Visits(Q, A, I)
  BY VisitFields DEF SearchInv, Shape
<1>3. /\ visit' \in Visits(Q, A, I) /\ visit'.pc = pc /\ visit'.query = q /\ visit'.page = visit.page
      /\ visit'.among = visit.among /\ visit'.counted = visit.counted /\ visit'.total = visit.total
      /\ visit'.ids = visit.ids /\ visit'.fetched = visit.fetched /\ visit'.items = visit.items
  BY <1>1, <1>2 DEF Visits, VisitPCs
<1>4. Shape'
  BY <1>1, <1>3, FieldsKeep DEF SearchInv
<1>5. SaleInv'
  BY <1>1, <1>3, QuietSale DEF SearchInv
<1>6. /\ q.size \in Nat \ {0} /\ q.category \in Categories \cup {Unset} /\ visit.page >= 1
      /\ q.words = {} /\ q.category # Unset /\ q.how = "slug" /\ ~visit.fetched /\ ~visit.counted
  BY <1>1 DEF SearchInv, Phase
<1>7. Phase'
  BY <1>3, <1>6, PhaseNext
<1>8. CoverInv'
  <2>1. steady => CoverOK(visit, seen)
    BY CoverNow DEF SearchInv
  <2>2. pc = "answered" => ~Faithful(q)
    BY <1>6 DEF Faithful
  <2>3. steady => CoverOK(visit', seen)
    BY <1>1, <1>3, <1>6, <2>1, <2>2 DEF CoverOK
  <2> QED
    BY <1>1, <2>3, CoverNext
<1> QED
  BY <1>4, <1>5, <1>7, <1>8 DEF SearchInv

LEMMA FindChildrenKeeps ==
  ASSUME SearchInv, FindChildren
  PROVE  SearchInv'
<1> DEFINE q == visit.query
<1>1. /\ visit.pc = "children" /\ visit' = [visit EXCEPT !.pc = "read", !.among = Scope(q.category)]
      /\ UNCHANGED <<shop, tree, seen, steady, onSale>>
  BY DEF FindChildren, VisitAt, Shop, Trace
<1>2. PICK Q, A, I : visit \in Visits(Q, A, I)
  BY VisitFields DEF SearchInv, Shape
<1>3. /\ visit' \in Visits(Q, A \cup {Scope(q.category)}, I)
      /\ visit'.pc = "read" /\ visit'.query = q /\ visit'.page = visit.page
      /\ visit'.among = Scope(q.category) /\ visit'.counted = visit.counted /\ visit'.total = visit.total
      /\ visit'.ids = visit.ids /\ visit'.fetched = visit.fetched /\ visit'.items = visit.items
  BY <1>1, <1>2 DEF Visits, VisitPCs
<1>4. Shape'
  BY <1>1, <1>3, FieldsKeep DEF SearchInv
<1>5. SaleInv'
  BY <1>1, <1>3, QuietSale DEF SearchInv
<1>6. /\ q.size \in Nat \ {0} /\ q.category \in Categories \cup {Unset} /\ visit.page >= 1
      /\ q.words = {} /\ q.category # Unset /\ ~visit.fetched /\ ~visit.counted
  BY <1>1 DEF SearchInv, Phase
<1>7. Phase'
  BY <1>3, <1>6, PhaseNext
<1>8. CoverInv'
  <2>1. steady => CoverOK(visit, seen)
    BY CoverNow DEF SearchInv
  <2>2. Around(q) = Scope(q.category)
    BY <1>6 DEF Around
  <2>3. steady => CoverOK(visit', seen)
    BY <1>1, <1>3, <1>6, <2>1, <2>2 DEF CoverOK
  <2> QED
    BY <1>1, <2>3, CoverNext
<1> QED
  BY <1>4, <1>5, <1>7, <1>8 DEF SearchInv

LEMMA CountKeeps ==
  ASSUME SearchInv, Count
  PROVE  SearchInv'
<1> DEFINE q == visit.query
           total == Cardinality(Listed(q, visit.among))
           pc == IF visit.fetched THEN "answered" ELSE "read"
<1>1. /\ visit.pc = "read" /\ ~visit.counted
      /\ visit' = [visit EXCEPT !.counted = TRUE, !.pc = pc, !.total = total]
      /\ UNCHANGED <<shop, tree, seen, steady, onSale>>
  BY DEF Count, VisitAt, Shop, Trace
<1>2. PICK Q, A, I : visit \in Visits(Q, A, I)
  BY VisitFields DEF SearchInv, Shape
<1>3. total \in Nat
  <2>1. Listed(q, visit.among) \subseteq Products
    BY DEF Listed
  <2> QED
    BY <2>1, SearchConstants, FS_Subset, FS_CardinalityType
<1>4. /\ visit' \in Visits(Q, A, I)
      /\ visit'.pc = pc /\ visit'.query = q /\ visit'.page = visit.page
      /\ visit'.among = visit.among /\ visit'.counted /\ visit'.total = total
      /\ visit'.ids = visit.ids /\ visit'.fetched = visit.fetched /\ visit'.items = visit.items
  <2> HIDE DEF total
  <2> QED
    BY <1>1, <1>2, <1>3 DEF Visits, VisitPCs
<1>5. Shape'
  BY <1>1, <1>4, FieldsKeep DEF SearchInv
<1>6. SaleInv'
  BY <1>1, <1>4, QuietSale DEF SearchInv
<1>7. /\ q.size \in Nat \ {0} /\ q.category \in Categories \cup {Unset} /\ visit.page >= 1
      /\ q.words = {} /\ (q.category = Unset => visit.among = Categories \cup {Unset})
  BY <1>1 DEF SearchInv, Phase
<1>8. Phase'
  BY <1>4, <1>7, PhaseNext
<1>9. CoverInv'
  <2>1. steady => CoverOK(visit, seen)
    BY CoverNow DEF SearchInv
  <2>2. visit.among = Around(q) => total = Cardinality(Hits(q))
    BY <1>7 DEF Hits
  <2> HIDE DEF total
  <2>3. steady => CoverOK(visit', seen)
    BY <1>1, <1>4, <1>7, <2>1, <2>2 DEF CoverOK
  <2> QED
    BY <1>1, <2>3, CoverNext
<1> QED
  BY <1>5, <1>6, <1>8, <1>9 DEF SearchInv

\* A page of products is a sequence of them.
LEMMA PageTyped ==
  ASSUME NEW S, NEW s \in Seq(S), NEW q, q.size \in Nat \ {0}, NEW page \in Nat \ {0}
  PROVE  /\ PageOf(s, q, page) \in Seq(S) /\ Len(PageOf(s, q, page)) \in Nat
         /\ \A i \in 1..Len(PageOf(s, q, page)) : PageOf(s, q, page)[i] \in S
<1> DEFINE a == (page - 1) * q.size
           b == page * q.size
           n == Min({b, Len(s)})
<1>1. Len(s) \in Nat /\ \A j \in 1..Len(s) : s[j] \in S
  BY LenProperties, ElementOfSeq
<1>2. a \in Nat /\ b \in Nat /\ a <= b
  OBVIOUS
<1>3. n \in Nat /\ n <= Len(s)
  BY <1>1, <1>2, MinOfTwo
<1>4. PageOf(s, q, page) = SubSeq(s, a + 1, n)
  BY DEF PageOf
<1> HIDE DEF a, b, n
<1>5. \A i \in (a + 1)..n : s[i] \in S
  <2>1. \A i \in (a + 1)..n : i \in 1..Len(s)
    BY <1>1, <1>2, <1>3
  <2> QED
    BY <1>1, <2>1
<1>6. PageOf(s, q, page) \in Seq(S)
  BY <1>2, <1>3, <1>4, <1>5, SubSeqProperties
<1> QED
  BY <1>6, LenProperties, ElementOfSeq

\* The items of one more page.
KeptOf(ids, q) == {i \in 1..Len(ids) : Stays(q, ids[i])}
ShownBefore(q, page) == Shown(q, page - 1)
LEMMA PageShown ==
  ASSUME NEW q, NEW page, NEW ids, NEW items, NEW kept, kept = KeptOf(ids, q),
         IsSeq(seen), IsSeq(items), Distinct(seen), IdsOf(seen) = ShownBefore(q, page), Distinct(items),
         IdsOf(items) = {ids[i] : i \in kept}, PageCut(ids, Hits(q), Key(q), q, page)
  PROVE  Distinct(seen \o items) /\ IdsOf(seen \o items) = Shown(q, page)
<1>1. Shown(q, page) = Shown(q, page - 1) \cup IdsOf(items)
  BY DEF Shown, PageCut, KeptOf
<1>2. IdsOf(seen) \cap IdsOf(items) = {}
  BY DEF Shown, PageCut, KeptOf, ShownBefore
<1>3. IdsOf(seen) = Shown(q, page - 1)
  BY DEF ShownBefore
<1>4. /\ IdsOf(seen \o items) = IdsOf(seen) \cup IdsOf(items)
      /\ Distinct(seen \o items)
  BY <1>2, Joins
<1> QED
  BY <1>1, <1>3, <1>4

\* The orders in which pages are cut.
LEMMA NewestDescends ==
  ASSUME NEW q, q.words = {}, NEW S, S \subseteq Products, NEW s \in NewestFirst(S)
  PROVE  Descends(s, S, Key(q)) /\ s \in Seq(S) /\ IsFiniteSet(S)
<1>1. IsFiniteSet(S) /\ s \in SetToSeqs(S) /\ \A i, j \in DOMAIN s : i < j => s[i] > s[j]
  BY SearchConstants, FS_Subset DEF NewestFirst, InOrder
<1>2. Enumerates(s, S) /\ DOMAIN s = 1..Cardinality(S)
  BY <1>1, Enumerated
<1>3. \A i \in 1..Len(s) : s[i] \in S
  BY <1>2, ElementOfSeq DEF Enumerates
<1>4. \A i, j \in 1..Len(s) : i < j => s[i] > s[j]
  BY <1>1, <1>2 DEF Enumerates
<1>5. \A p \in S : Key(q)[p] = p
  BY DEF Key
<1> QED
  BY <1>1, <1>2, <1>3, <1>4, <1>5 DEF Descends, Enumerates

LEMMA RankedDescends ==
  ASSUME NEW q, q.words # {}, NEW S, S \subseteq Products, NEW s \in Ranked(S)
  PROVE  /\ s \in Seq(S) /\ IsFiniteSet(S)
         /\ (\A p, r \in Products : Rank[p] = Rank[r] => p = r) => Descends(s, S, Key(q))
<1>1. IsFiniteSet(S) /\ s \in SetToSeqs(S) /\ \A i, j \in DOMAIN s : i < j => Rank[s[i]] >= Rank[s[j]]
  BY SearchConstants, FS_Subset DEF Ranked, InOrder
<1>2. Enumerates(s, S) /\ DOMAIN s = 1..Cardinality(S)
  BY <1>1, Enumerated
<1>3. \A i \in 1..Len(s) : s[i] \in S /\ s[i] \in Products /\ Rank[s[i]] \in Nat
  BY <1>2, SearchConstants, ElementOfSeq DEF Enumerates
<1>4. \A i, j \in 1..Len(s) : i < j => Rank[s[i]] >= Rank[s[j]]
  BY <1>1, <1>2 DEF Enumerates
<1>5. ASSUME \A p, r \in Products : Rank[p] = Rank[r] => p = r
      PROVE  Descends(s, S, Key(q))
  <2>1. ASSUME NEW i \in 1..Len(s), NEW j \in 1..Len(s), i < j
        PROVE  Rank[s[i]] > Rank[s[j]]
    <3>1. Len(s) \in Nat
      BY <1>2, LenProperties DEF Enumerates
    <3>2. i # j
      BY <2>1, <3>1
    <3>3. s[i] # s[j]
      BY <1>2, <3>2 DEF Enumerates
    <3>4. Rank[s[i]] # Rank[s[j]]
      BY <1>3, <1>5, <3>3
    <3> QED
      BY <1>3, <1>4, <2>1, <3>4
  <2> QED
    BY <1>2, <2>1 DEF Descends, Key
<1> QED
  BY <1>1, <1>2, <1>5 DEF Enumerates

LEMMA FetchKeeps ==
  ASSUME SearchInv, Fetch
  PROVE  SearchInv'
<1> DEFINE q == visit.query
           S == Listed(q, visit.among)
           pc == IF visit.counted THEN "answered" ELSE "read"
<1>1. /\ visit.pc = "read" /\ ~visit.fetched /\ UNCHANGED <<shop, tree, steady, onSale>>
      /\ \E s \in NewestFirst(S) :
           Answer(PageOf(s, q, visit.page),
                  {i \in DOMAIN PageOf(s, q, visit.page) : InStock(q, shop[PageOf(s, q, visit.page)[i]])},
                  TRUE, pc)
  BY DEF Fetch, VisitAt, Shop, Trace
<1>2. PICK s \in NewestFirst(S) :
        Answer(PageOf(s, q, visit.page),
               {i \in DOMAIN PageOf(s, q, visit.page) : InStock(q, shop[PageOf(s, q, visit.page)[i]])},
               TRUE, pc)
  BY <1>1
<1> DEFINE ids == PageOf(s, q, visit.page)
           kept == {i \in DOMAIN ids : InStock(q, shop[ids[i]])}
<1>3. /\ q.size \in Nat \ {0} /\ q.category \in Categories \cup {Unset} /\ visit.page \in Nat \ {0}
      /\ q.words = {} /\ (q.category = Unset => visit.among = Categories \cup {Unset})
  BY <1>1, Facts DEF SearchInv, Phase
<1>4. S \subseteq Products /\ S \subseteq Active
  BY DEF Listed, Active
<1>5. Descends(s, S, Key(q)) /\ s \in Seq(S) /\ IsFiniteSet(S) /\ \A p \in S : Key(q)[p] \in Nat
  <2>1. \A p \in S : Key(q)[p] \in Nat
    BY <1>3, <1>4, SearchConstants DEF Key
  <2> HIDE DEF S, q
  <2> QED
    BY <1>2, <1>3, <1>4, <2>1, NewestDescends
<1>6. ids \in Seq(S) /\ Len(ids) \in Nat /\ \A i \in 1..Len(ids) : ids[i] \in S
  <2> HIDE DEF S, q
  <2> QED
    BY <1>3, <1>5, PageTyped
<1>7. Answer(ids, kept, TRUE, pc)
  BY <1>2
<1> HIDE DEF ids
<1>8. ids \in Seq(Products) /\ DOMAIN ids = 1..Len(ids)
  <2>1. \A i \in 1..Len(ids) : ids[i] \in Products
    BY <1>4, <1>6
  <2>2. ids \in [1..Len(ids) -> S]
    BY <1>6, LenProperties, ElementOfSeq
  <2>3. ids \in [1..Len(ids) -> Products]
    BY <2>1, <2>2
  <2> QED
    BY <1>6, <2>2, <2>3, SeqDef
<1>9. kept = {i \in 1..Len(ids) : Stays(q, ids[i])}
  BY <1>3, <1>8 DEF Stays
<1> HIDE DEF kept
<1>10. PICK items : /\ visit' = [visit EXCEPT !.items = items, !.fetched = TRUE, !.pc = pc]
                    /\ seen' = seen \o items /\ IsSeq(items) /\ IdsOf(items) = {ids[i] : i \in kept}
                    /\ (\A i, j \in 1..Len(ids) : i # j => ids[i] # ids[j]) => Distinct(items)
  <2>1. kept \in SUBSET (1..Len(ids))
    BY <1>9
  <2> HIDE DEF pc
  <2> QED
    BY <1>7, <1>8, <2>1, Answered
<1>11. PICK Q, A, I : visit \in Visits(Q, A, I)
  BY VisitFields DEF SearchInv, Shape
<1>12. /\ visit' \in Visits(Q, A, I \cup {items})
       /\ visit'.pc = pc /\ visit'.query = q /\ visit'.page = visit.page
       /\ visit'.among = visit.among /\ visit'.counted = visit.counted /\ visit'.total = visit.total
       /\ visit'.ids = visit.ids /\ visit'.fetched /\ visit'.items = items
  BY <1>10, <1>11 DEF Visits, VisitPCs
<1>13. Shape'
  <2>1. IsSeq(seen')
    BY <1>10, Joins DEF SearchInv, Shape
  <2>2. IsSeq(visit'.items)
    BY <1>10, <1>12
  <2> QED
    BY <1>1, <1>12, <2>1, <2>2 DEF SearchInv, Shape, VisitShaped, ShopShaped
<1>14. SaleInv'
  <2>1. Active \subseteq onSale /\ Active' = Active
    BY <1>1, SameShop DEF SearchInv, SaleInv
  <2>2. IdsOf(items) \subseteq onSale
    BY <1>4, <1>6, <1>9, <1>10, <2>1
  <2> QED
    BY <1>1, <1>12, <2>1, <2>2 DEF SearchInv, SaleInv
<1>15. Phase'
  BY <1>3, <1>12, PhaseNext
<1>16. CoverInv'
  <2> SUFFICES ASSUME steady, Faithful(q) PROVE CoverOK(visit', seen')
    BY <1>1, <1>12, CoverNext DEF CoverOK
  <2>1. CoverOK(visit, seen)
    BY CoverNow DEF SearchInv
  <2>2. /\ Distinct(seen) /\ IdsOf(seen) = Shown(q, visit.page - 1) /\ visit.among = Around(q)
        /\ visit.counted => visit.total = Cardinality(Hits(q))
    BY <1>1, <2>1 DEF CoverOK
  <2>3. S = Hits(q)
    BY <1>3, <2>2 DEF Hits
  <2>4. PageCut(ids, Hits(q), Key(q), q, visit.page)
    <3> DEFINE page == visit.page
               key == Key(q)
    <3>1. page \in Nat \ {0} /\ q.size \in Nat \ {0} /\ IsFiniteSet(S) /\ Descends(s, S, key)
          /\ (\A p \in S : key[p] \in Nat) /\ ids = PageOf(s, q, page)
      BY <1>3, <1>5 DEF ids
    <3> HIDE DEF S, q, page, key
    <3>2. PageCut(PageOf(s, q, page), S, key, q, page)
      BY <3>1, PageHolds
    <3> QED
      BY <2>3, <3>1, <3>2 DEF page, key
  <2>5. Distinct(seen') /\ IdsOf(seen') = Shown(q, visit.page)
    <3>1. IsSeq(seen) /\ Distinct(items)
      BY <1>10, <2>4 DEF SearchInv, Shape, PageCut
    <3>2. /\ IdsOf(seen) = ShownBefore(q, visit.page) /\ IsSeq(items) /\ Distinct(seen)
          /\ IdsOf(items) = {ids[i] : i \in kept} /\ kept = KeptOf(ids, q)
      BY <1>9, <1>10, <2>2 DEF ShownBefore, KeptOf
    <3>3. seen' = seen \o items
      BY <1>10
    <3> HIDE DEF S, q
    <3>4. Distinct(seen \o items) /\ IdsOf(seen \o items) = Shown(q, visit.page)
      BY <2>4, <3>1, <3>2, PageShown
    <3> QED
      BY <3>3, <3>4
  <2> QED
    BY <1>1, <1>12, <2>2, <2>5 DEF CoverOK
<1> QED
  BY <1>13, <1>14, <1>15, <1>16 DEF SearchInv

LEMMA MatchKeeps ==
  ASSUME SearchInv, Match
  PROVE  SearchInv'
<1> DEFINE q == visit.query
           S == Matching(q)
<1>1. /\ visit.pc = "match" /\ UNCHANGED <<shop, tree, seen, steady, onSale>>
      /\ \E s \in Ranked(S) :
           LET ids == PageOf(s, q, visit.page) IN
           visit' = [visit EXCEPT !.ids = ids, !.pc = IF ids = <<>> THEN "answered" ELSE "load"]
  BY DEF Match, VisitAt, Shop, Trace
<1>2. PICK s \in Ranked(S) :
        LET ids == PageOf(s, q, visit.page) IN
        visit' = [visit EXCEPT !.ids = ids, !.pc = IF ids = <<>> THEN "answered" ELSE "load"]
  BY <1>1
<1> DEFINE ids == PageOf(s, q, visit.page)
           pc == IF ids = <<>> THEN "answered" ELSE "load"
<1>3. /\ q.size \in Nat \ {0} /\ q.category \in Categories \cup {Unset} /\ visit.page \in Nat \ {0}
      /\ q.words # {} /\ ~visit.counted /\ ~visit.fetched
      /\ (q.category = Unset => visit.among = Categories \cup {Unset})
  BY <1>1, Facts DEF SearchInv, Phase
<1>4. S \subseteq Products /\ S \subseteq Active
  BY DEF Matching, Active
<1>5. /\ s \in Seq(S) /\ IsFiniteSet(S) /\ \A p \in S : Key(q)[p] \in Nat
      /\ (\A p, r \in Products : Rank[p] = Rank[r] => p = r) => Descends(s, S, Key(q))
  <2>1. \A p \in S : Key(q)[p] \in Nat
    BY <1>3, <1>4, SearchConstants DEF Key
  <2> HIDE DEF S, q
  <2> QED
    BY <1>2, <1>3, <1>4, <2>1, RankedDescends
<1>6. ids \in Seq(S) /\ Len(ids) \in Nat /\ \A i \in 1..Len(ids) : ids[i] \in S
  <2> HIDE DEF S, q
  <2> QED
    BY <1>3, <1>5, PageTyped
<1>7. visit' = [visit EXCEPT !.ids = ids, !.pc = pc]
  BY <1>2
<1> HIDE DEF ids
<1>8. ids \in Seq(Products)
  <2>1. \A i \in 1..Len(ids) : ids[i] \in Products
    BY <1>4, <1>6
  <2>2. ids \in [1..Len(ids) -> S]
    BY <1>6, LenProperties, ElementOfSeq
  <2>3. ids \in [1..Len(ids) -> Products]
    BY <2>1, <2>2
  <2> QED
    BY <1>6, <2>3, SeqDef
<1>9. PICK Q, A, I : visit \in Visits(Q, A, I)
  BY VisitFields DEF SearchInv, Shape
<1>10. /\ visit' \in Visits(Q, A, I)
       /\ visit'.pc = pc /\ visit'.query = q /\ visit'.page = visit.page
       /\ visit'.among = visit.among /\ visit'.counted = visit.counted /\ visit'.total = visit.total
       /\ visit'.ids = ids /\ visit'.fetched = visit.fetched /\ visit'.items = visit.items
  BY <1>7, <1>8, <1>9 DEF Visits, VisitPCs
<1>11. Shape'
  BY <1>1, <1>10, FieldsKeep DEF SearchInv
<1>12. SaleInv'
  <2>1. Active \subseteq onSale /\ Active' = Active
    BY <1>1, SameShop DEF SearchInv, SaleInv
  <2>2. \A i \in 1..Len(ids) : ids[i] \in onSale
    BY <1>4, <1>6, <2>1
  <2> QED
    BY <1>1, <1>10, <2>1, <2>2 DEF SearchInv, SaleInv
<1>13. Phase'
  BY <1>3, <1>10, PhaseNext
<1>14. CoverInv'
  <2> SUFFICES ASSUME steady, Faithful(q) PROVE CoverOK(visit', seen')
    BY <1>1, <1>10, CoverNext DEF CoverOK
  <2>1. CoverOK(visit, seen)
    BY CoverNow DEF SearchInv
  <2>2. Distinct(seen) /\ IdsOf(seen) = Shown(q, visit.page - 1)
    BY <1>1, <1>3, <2>1 DEF CoverOK
  <2>3. S = Hits(q)
    BY <1>3 DEF Hits
  <2>4. PageCut(ids, Hits(q), Key(q), q, visit.page)
    <3>1. \A p, r \in Products : Rank[p] = Rank[r] => p = r
      BY <1>3 DEF Faithful
    <3> DEFINE page == visit.page
               key == Key(q)
    <3>2. page \in Nat \ {0} /\ q.size \in Nat \ {0} /\ IsFiniteSet(S) /\ Descends(s, S, key)
          /\ (\A p \in S : key[p] \in Nat) /\ ids = PageOf(s, q, page)
      BY <1>3, <1>5, <3>1 DEF ids
    <3> HIDE DEF S, q, page, key
    <3>3. PageCut(PageOf(s, q, page), S, key, q, page)
      BY <3>2, PageHolds
    <3> QED
      BY <2>3, <3>2, <3>3 DEF page, key
  <2>5. ids = <<>> => Shown(q, visit.page) = Shown(q, visit.page - 1)
    <3>1. Len(<<>>) = 0
      OBVIOUS
    <3> QED
      BY <2>4, <3>1 DEF PageCut, Shown
  <2> QED
    BY <1>1, <1>3, <1>10, <2>2, <2>4, <2>5 DEF CoverOK
<1> QED
  BY <1>11, <1>12, <1>13, <1>14 DEF SearchInv

LEMMA LoadRowsKeeps ==
  ASSUME SearchInv, LoadRows
  PROVE  SearchInv'
<1> DEFINE q == visit.query
           ids == visit.ids
           kept == {i \in DOMAIN ids : Matches(q, shop[ids[i]])}
<1>1. /\ visit.pc = "load" /\ UNCHANGED <<shop, tree, steady, onSale>>
      /\ Answer(ids, kept, visit.fetched, "answered")
  BY DEF LoadRows, VisitAt, Shop, Trace
<1>2. /\ q.size \in Nat \ {0} /\ q.category \in Categories \cup {Unset} /\ visit.page \in Nat \ {0}
      /\ q.words # {} /\ ~visit.counted /\ ~visit.fetched
      /\ (q.category = Unset => visit.among = Categories \cup {Unset})
  BY <1>1, Facts DEF SearchInv, Phase
<1>3. ids \in Seq(Products) /\ DOMAIN ids = 1..Len(ids)
  BY Facts DEF SearchInv
<1>4. kept = KeptOf(ids, q) /\ kept \in SUBSET (1..Len(ids))
  BY <1>2, <1>3 DEF KeptOf, Stays
<1> HIDE DEF kept
<1>5. PICK items : /\ visit' = [visit EXCEPT !.items = items, !.fetched = visit.fetched, !.pc = "answered"]
                   /\ seen' = seen \o items /\ IsSeq(items) /\ IdsOf(items) = {ids[i] : i \in kept}
                   /\ (\A i, j \in 1..Len(ids) : i # j => ids[i] # ids[j]) => Distinct(items)
  <2> HIDE DEF ids
  <2> QED
    BY <1>1, <1>3, <1>4, Answered
<1>6. PICK Q, A, I : visit \in Visits(Q, A, I)
  BY VisitFields DEF SearchInv, Shape
<1>7. /\ visit' \in Visits(Q, A, I \cup {items})
      /\ visit'.pc = "answered" /\ visit'.query = q /\ visit'.page = visit.page
      /\ visit'.among = visit.among /\ visit'.counted = visit.counted /\ visit'.total = visit.total
      /\ visit'.ids = visit.ids /\ visit'.fetched = visit.fetched /\ visit'.items = items
  BY <1>5, <1>6 DEF Visits, VisitPCs
<1>8. Shape'
  <2>1. IsSeq(seen')
    BY <1>5, Joins DEF SearchInv, Shape
  <2>2. IsSeq(visit'.items)
    BY <1>5, <1>7
  <2> QED
    BY <1>1, <1>7, <2>1, <2>2 DEF SearchInv, Shape, VisitShaped, ShopShaped
<1>9. SaleInv'
  <2>1. Active \subseteq onSale /\ Active' = Active /\ \A i \in 1..Len(ids) : ids[i] \in onSale
    BY <1>1, SameShop DEF SearchInv, SaleInv
  <2>2. IdsOf(items) \subseteq onSale
    BY <1>4, <1>5, <2>1
  <2> QED
    BY <1>1, <1>7, <2>1, <2>2 DEF SearchInv, SaleInv
<1>10. Phase'
  BY <1>2, <1>7, PhaseNext
<1>11. CoverInv'
  <2> SUFFICES ASSUME steady, Faithful(q) PROVE CoverOK(visit', seen')
    BY <1>1, <1>7, CoverNext DEF CoverOK
  <2>1. CoverOK(visit, seen)
    BY CoverNow DEF SearchInv
  <2>2. /\ Distinct(seen) /\ IdsOf(seen) = Shown(q, visit.page - 1)
        /\ PageCut(ids, Hits(q), Key(q), q, visit.page)
    BY <1>1, <1>2, <2>1 DEF CoverOK
  <2>3. Distinct(seen') /\ IdsOf(seen') = Shown(q, visit.page)
    <3>1. IsSeq(seen) /\ Distinct(items) /\ seen' = seen \o items
      BY <1>5, <2>2 DEF SearchInv, Shape, PageCut
    <3>2. IdsOf(seen) = ShownBefore(q, visit.page)
      BY <2>2 DEF ShownBefore
    <3> HIDE DEF q, ids
    <3>3. Distinct(seen \o items) /\ IdsOf(seen \o items) = Shown(q, visit.page)
      BY <1>4, <1>5, <2>2, <3>1, <3>2, PageShown
    <3> QED
      BY <3>1, <3>3
  <2> QED
    BY <1>1, <1>2, <1>7, <2>3 DEF CoverOK
<1> QED
  BY <1>8, <1>9, <1>10, <1>11 DEF SearchInv

LEMMA NextPageKeeps ==
  ASSUME SearchInv, NextPage
  PROVE  SearchInv'
<1> DEFINE q == visit.query
           pc == FirstStatement(q)
<1>1. /\ visit.pc = "answered" /\ UNCHANGED <<shop, tree, seen, steady>> /\ onSale' = Active
      /\ visit' = [visit EXCEPT !.pc = pc, !.page = visit.page + 1,
                                !.counted = FALSE, !.fetched = FALSE, !.ids = <<>>, !.items = <<>>]
  BY DEF NextPage, VisitAt, Shop
<1>2. /\ q.size \in Nat \ {0} /\ q.category \in Categories \cup {Unset} /\ visit.page \in Nat \ {0}
      /\ (q.category = Unset => visit.among = Categories \cup {Unset})
  BY <1>1, Facts DEF SearchInv, Phase
<1>3. /\ pc \in VisitPCs \ {"idle", "answered", "load"} /\ (pc = "read" => q.category = Unset)
      /\ (pc \in {"category", "children", "read"} => q.words = {}) /\ (pc = "match" => q.words # {})
      /\ (pc \in {"category", "children"} => q.category # Unset) /\ (pc = "category" => q.how = "slug")
  BY DEF FirstStatement, VisitPCs
<1> HIDE DEF pc
<1>4. PICK Q, A, I : visit \in Visits(Q, A, I)
  BY VisitFields DEF SearchInv, Shape
<1>5. /\ visit' \in Visits(Q, A, I \cup {<<>>})
      /\ visit'.pc = pc /\ visit'.query = q /\ visit'.page = visit.page + 1
      /\ visit'.among = visit.among /\ ~visit'.counted /\ ~visit'.fetched
      /\ visit'.ids = <<>> /\ visit'.items = <<>>
  <2>1. <<>> \in Seq(Products)
    OBVIOUS
  <2>2. pc \in VisitPCs /\ visit.page + 1 \in Nat
    BY <1>2, <1>3
  <2> DEFINE next == visit.page + 1
  <2>3. visit' = [visit EXCEPT !.pc = pc, !.page = next, !.counted = FALSE, !.fetched = FALSE,
                               !.ids = <<>>, !.items = <<>>]
    BY <1>1
  <2>4. next \in Nat
    BY <2>2
  <2> HIDE DEF next
  <2>5. visit' \in Visits(Q, A, I \cup {<<>>}) /\ visit'.page = next
    BY <1>4, <2>1, <2>2, <2>3, <2>4 DEF Visits
  <2> QED
    BY <1>1, <1>4, <2>5 DEF next, Visits
<1>6. Shape'
  BY <1>1, <1>5, FieldsKeep DEF SearchInv
<1>7. SaleInv'
  <2>1. Active' = Active /\ Active \subseteq Products
    BY <1>1, SameShop DEF Active
  <2>2. Len(<<>>) = 0
    OBVIOUS
  <2> QED
    BY <1>1, <1>5, <2>1, <2>2, EmptyJoins DEF SaleInv
<1>8. Phase'
  <2>1. visit'.page >= 1
    BY <1>2, <1>5
  <2> QED
    BY <1>2, <1>3, <1>5, <2>1, PhaseNext
<1>9. CoverInv'
  <2>1. steady => CoverOK(visit, seen)
    BY CoverNow DEF SearchInv
  <2>2. pc = "read" => visit.among = Around(q)
    BY <1>2, <1>3 DEF Around
  <2>3. visit'.page - 1 = visit.page
    BY <1>2, <1>5
  <2>4. steady => CoverOK(visit', seen)
    BY <1>1, <1>3, <1>5, <2>1, <2>2, <2>3 DEF CoverOK
  <2> QED
    BY <1>1, <2>4, CoverNext
<1> QED
  BY <1>6, <1>7, <1>8, <1>9 DEF SearchInv

LEMMA CloseKeeps ==
  ASSUME SearchInv, visit' = Unread, UNCHANGED <<shop, tree, seen, steady, onSale>>
  PROVE  SearchInv'
<1>1. UNCHANGED <<shop, tree, seen, steady, onSale>> /\ visit' = Unread
  OBVIOUS
<1>2. visit'.pc = "idle" /\ visit'.ids = <<>> /\ visit'.items = <<>> /\ Len(<<>>) = 0
  BY <1>1 DEF Unread
<1>3. Shape'
  <2>1. visit' \in Visits({NoQuery}, {{}}, {<<>>})
    BY <1>1, UnreadShaped
  <2> QED
    BY <1>1, <1>2, <2>1, FieldsKeep DEF SearchInv
<1>4. SaleInv'
  BY <1>1, <1>2, EmptyJoins DEF SearchInv, SaleInv
<1>5. Phase' /\ CoverInv'
  BY <1>2 DEF Phase, CoverInv
<1> QED
  BY <1>3, <1>4, <1>5 DEF SearchInv

LEMMA LeaveKeeps ==
  ASSUME SearchInv, Leave
  PROVE  SearchInv'
<1>1. visit' = Unread /\ UNCHANGED <<shop, tree, seen, steady, onSale>>
  BY DEF Leave, Shop, Trace
<1> QED
  BY <1>1, CloseKeeps

\* A change of the shop ends what a visit can promise of the whole query, and adds to what was on
\* sale.
LEMMA EditKeeps ==
  ASSUME SearchInv, Edit
  PROVE  SearchInv'
<1>1. UNCHANGED <<visit, seen>> /\ ~steady' /\ onSale' = onSale \cup {p \in Products : shop'[p].active}
  BY DEF Edit, Edited
<1>2. Shape'
  BY <1>1, ShopEdited DEF SearchInv, Shape, VisitShaped
<1>3. SaleInv'
  BY <1>1 DEF SearchInv, SaleInv, Active
<1>4. Phase' /\ CoverInv'
  BY <1>1 DEF SearchInv, Phase, CoverInv
<1> QED
  BY <1>2, <1>3, <1>4 DEF SearchInv

LEMMA SearchStarts == SearchInit => SearchInv
<1> SUFFICES ASSUME SearchInit PROVE SearchInv
  OBVIOUS
<1>1. visit = Unread /\ seen = <<>> /\ onSale = {}
  BY DEF SearchInit
<1>2. visit.pc = "idle" /\ visit.ids = <<>> /\ visit.items = <<>> /\ Len(<<>>) = 0
  BY <1>1 DEF Unread
<1>3. Shape
  BY <1>1, <1>2, UnreadShaped, ShopStarts, EmptyJoins DEF Shape, VisitShaped
<1>4. SaleInv
  BY <1>1, <1>2, EmptyJoins DEF SaleInv
<1>5. Phase /\ CoverInv
  BY <1>2 DEF Phase, CoverInv
<1> QED
  BY <1>3, <1>4, <1>5 DEF SearchInv

LEMMA SearchSteps == SearchInv /\ [SearchNext]_searchVars => SearchInv'
<1> SUFFICES ASSUME SearchInv, [SearchNext]_searchVars PROVE SearchInv'
  OBVIOUS
<1>1. CASE Edit
  BY <1>1, EditKeeps
<1>2. CASE FindCategory \/ FindChildren \/ Count
  BY <1>2, FindCategoryKeeps, FindChildrenKeeps, CountKeeps
<1>3. CASE Fetch \/ Match \/ LoadRows
  BY <1>3, FetchKeeps, MatchKeeps, LoadRowsKeeps
<1>4. CASE NextPage \/ Leave
  BY <1>4, NextPageKeeps, LeaveKeeps
<1>5. CASE \E q \in Queries : Ask(q)
  BY <1>5, AskKeeps
<1>6. CASE UNCHANGED searchVars
  <2>1. UNCHANGED <<shop, tree, visit, seen, steady, onSale>>
    BY <1>6 DEF searchVars
  <2>2. Shape' /\ SaleInv' /\ Phase'
    BY <2>1 DEF SearchInv, Shape, VisitShaped, ShopShaped, SaleInv, Active, Phase
  <2>3. CoverInv'
    <3>1. steady => CoverOK(visit, seen)
      BY CoverNow DEF SearchInv
    <3> QED
      BY <2>1, <3>1, CoverNext
  <2> QED
    BY <2>2, <2>3 DEF SearchInv
<1> QED
  BY <1>1, <1>2, <1>3, <1>4, <1>5, <1>6 DEF SearchNext, Read

-----------------------------------------------------------------------------
\* An answer shows no product that was off sale during all of its request: the ids a search has
\* matched were active at that moment, and the request lasts until they are loaded
\* (searchProducts).
THEOREM ShowsWhatSells == SearchSpec => []ShownWasOnSale
<1>1. SearchInv => ShownWasOnSale
  <2> SUFFICES ASSUME SearchInv PROVE ShownWasOnSale
    OBVIOUS
  <2>1. IsSeq(visit.items) /\ IdsOf(visit.items) \subseteq onSale
    BY DEF SearchInv, Shape, SaleInv
  <2>2. DOMAIN visit.items = 1..Len(visit.items)
    BY <2>1, LenProperties, ElementOfSeq DEF IsSeq
  <2> QED
    BY <2>1, <2>2 DEF ShownWasOnSale, IdsOf
<1> QED
  BY <1>1, SearchStarts, SearchSteps, PTL DEF SearchSpec

\* Once its pages could hold all products, a visit that nothing disturbed has met exactly what the
\* query asks for, each once, and its total counts them (listProducts, searchProducts).
THEOREM PagesMeetAll == SearchSpec => []PagesCoverTheQuery
<1>1. SearchInv => PagesCoverTheQuery
  <2> DEFINE q == visit.query
  <2> SUFFICES ASSUME SearchInv, visit.pc = "answered", steady, Faithful(q),
                      visit.page * q.size >= Cardinality(Products)
               PROVE  /\ {seen[i].id : i \in DOMAIN seen} = Wanted(q)
                      /\ \A i, j \in DOMAIN seen : seen[i].id = seen[j].id => i = j
                      /\ q.words = {} /\ ~q.inStock => visit.total = Cardinality(Wanted(q))
    BY DEF PagesCoverTheQuery, VisitAt
  <2>1. CoverOK(visit, seen)
    BY CoverNow DEF SearchInv
  <2>2. /\ Distinct(seen) /\ IdsOf(seen) = Shown(q, visit.page)
        /\ q.words = {} => visit.total = Cardinality(Hits(q))
    BY <2>1 DEF CoverOK
  <2>3. DOMAIN seen = 1..Len(seen)
    BY LenProperties, ElementOfSeq DEF SearchInv, Shape, IsSeq
  <2>4. FirstOf(Hits(q), Key(q), visit.page * q.size) = Hits(q)
    <3> DEFINE S == Hits(q)
               key == Key(q)
               n == visit.page * q.size
    <3>1. /\ IsFiniteSet(S) /\ Cardinality(S) \in Nat /\ Cardinality(S) <= Cardinality(Products)
          /\ \A p \in S : key[p] \in Nat
      BY HitsFinite
    <3>2. n \in Nat /\ Cardinality(Products) \in Nat /\ n >= Cardinality(Products)
      BY Facts, SearchConstants, FS_CardinalityType DEF SearchInv, Phase
    <3> HIDE DEF S, key, n
    <3>3. \A p \in S : Above(S, key, p) \in Nat /\ Above(S, key, p) < Cardinality(S)
      BY <3>1, AboveTyped
    <3>4. \A p \in S : Above(S, key, p) < n
      BY <3>1, <3>2, <3>3
    <3>5. FirstOf(S, key, n) = S
      BY <3>4 DEF FirstOf
    <3> QED
      BY <3>5 DEF S, key, n
  <2>5. Shown(q, visit.page) = {p \in Hits(q) : Stays(q, p)}
    BY <2>4 DEF Shown
  <2>6. \A p \in Products : shop[p].category \in Categories \cup {Unset}
    BY Facts DEF SearchInv
  <2>7. q.category \in Categories \cup {Unset}
    BY DEF SearchInv, Phase
  <2>8. CASE q.words = {}
    <3>1. \A p \in Products : shop[p].category \in Around(q) <=>
            (q.category # Unset =>
               \/ shop[p].category = q.category
               \/ /\ shop[p].category # Unset /\ tree[shop[p].category].there
                  /\ tree[shop[p].category].parent = q.category)
      BY <2>6, <2>7, SearchConstants DEF Around, Scope
    <3>2. \A p \in Products : PricedForList(q, shop[p]) <=>
            (q.min # Unset \/ q.max # Unset => \E o \in OffersOf(shop[p]) :
               (q.min = Unset \/ o.price >= q.min) /\ (q.max = Unset \/ o.price <= q.max))
      BY <2>8 DEF Faithful, PricedForList
    <3>3. \A p \in Products : InStock(q, shop[p]) <=> (q.inStock => AvailableUnits(shop[p]) > 0)
      BY DEF InStock
    <3>4. {p \in Hits(q) : Stays(q, p)} = Wanted(q)
      BY <2>8, <3>1, <3>2, <3>3 DEF Hits, Listed, Stays, Wanted
    <3>5. ~q.inStock => Hits(q) = Wanted(q)
      BY <2>8, <3>1, <3>2 DEF Hits, Listed, Wanted
    <3> QED
      BY <2>2, <2>3, <2>5, <2>8, <3>4, <3>5 DEF IdsOf, Distinct
  <2>9. CASE q.words # {}
    <3>1. q.category = Unset
      BY <2>9 DEF Faithful
    <3>2. \A p \in Products : PricedForSearch(q, shop[p]) <=>
            (q.min # Unset \/ q.max # Unset => \E o \in OffersOf(shop[p]) :
               (q.min = Unset \/ o.price >= q.min) /\ (q.max = Unset \/ o.price <= q.max))
      BY DEF PricedForSearch
    <3>3. \A p \in Products : InStock(q, shop[p]) <=> (q.inStock => AvailableUnits(shop[p]) > 0)
      BY DEF InStock
    <3>4. {p \in Hits(q) : Stays(q, p)} = Wanted(q)
      BY <2>9, <3>1, <3>2, <3>3 DEF Hits, Matching, Stays, Matches, Word, Wanted
    <3> QED
      BY <2>2, <2>3, <2>5, <2>9, <3>4 DEF IdsOf, Distinct
  <2> QED
    BY <2>8, <2>9
<1> QED
  BY <1>1, SearchStarts, SearchSteps, PTL DEF SearchSpec

-----------------------------------------------------------------------------
(***************************************************************************)
(* The last of the limits a customer named.                                *)
(***************************************************************************)
LEMMA LeastNumber ==
  ASSUME NEW S, S \subseteq Nat, S # {}
  PROVE  \E n \in S : \A m \in S : n <= m
<1> DEFINE R == OpToRel(<, Nat)
<1>1. IsWellFoundedOn(R, Nat)
  BY NatLessThanWellFounded
<1>2. \E n \in S : \A m \in S : <<m, n>> \notin R
  <2> HIDE DEF R
  <2> QED
    BY <1>1, WFMin, Zenon
<1>3. PICK n \in S : \A m \in S : <<m, n>> \notin R
  BY <1>2
<1>4. \A m \in S : ~(m < n)
  BY <1>3 DEF OpToRel
<1> QED
  BY <1>4

\* A property that passes from each number to the next holds of all of them.
LEMMA Induction ==
  ASSUME NEW S, 0 \in S, \A n \in Nat : n \in S => n + 1 \in S
  PROVE  Nat \subseteq S
<1> DEFINE T == {n \in Nat : n \notin S}
<1> SUFFICES ASSUME T # {} PROVE FALSE
  OBVIOUS
<1>1. PICK n \in T : \A m \in T : n <= m
  BY LeastNumber
<1>2. n # 0 /\ n - 1 \in Nat /\ n - 1 \notin T
  BY <1>1
<1> QED
  BY <1>2

LEMMA GreatestOf ==
  ASSUME NEW n \in Nat, NEW S, S \subseteq 1..n, S # {}
  PROVE  Max(S) \in S /\ \A x \in S : x <= Max(S)
<1> DEFINE T == {n - x : x \in S}
<1>1. T \subseteq Nat /\ T # {}
  <2>1. \A x \in S : x \in 1..n /\ n - x \in Nat
    OBVIOUS
  <2> QED
    BY <2>1
<1>2. PICK t \in T : \A u \in T : t <= u
  BY <1>1, LeastNumber
<1>3. PICK m \in S : t = n - m
  BY <1>2
<1>4. \A x \in S : x <= m
  <2> SUFFICES ASSUME NEW x \in S PROVE x <= m
    OBVIOUS
  <2>1. n - x \in T
    OBVIOUS
  <2> QED
    BY <1>2, <1>3, <2>1
<1>5. \E x \in S : \A y \in S : x >= y
  BY <1>4
<1>6. Max(S) \in S /\ \A y \in S : Max(S) >= y
  BY <1>5 DEF Max
<1> QED
  BY <1>6

\* The value of b at the last number up to n at which it has one.
SetAt(b, n) == {i \in 1..n : b[i] # Unset}
LastNamed(b, n) == IF SetAt(b, n) = {} THEN Unset ELSE b[Max(SetAt(b, n))]

LEMMA LastStarts == ASSUME NEW b PROVE LastNamed(b, 0) = Unset
BY DEF LastNamed, SetAt

LEMMA LastGrows ==
  ASSUME NEW b, NEW n \in Nat \ {0}
  PROVE  LastNamed(b, n) = Over(b[n], LastNamed(b, n - 1))
<1> DEFINE S == SetAt(b, n)
           T == SetAt(b, n - 1)
<1>1. CASE b[n] # Unset
  <2>1. n \in S /\ S \subseteq 1..n
    BY <1>1 DEF SetAt
  <2>2. Max(S) \in S /\ \A x \in S : x <= Max(S)
    BY <2>1, GreatestOf
  <2>3. Max(S) = n
    BY <2>1, <2>2
  <2> QED
    BY <1>1, <2>1, <2>3 DEF LastNamed, Over
<1>2. CASE b[n] = Unset
  <2>1. S = T
    BY <1>2 DEF SetAt
  <2> QED
    BY <1>2, <2>1 DEF LastNamed, Over
<1> QED
  BY <1>1, <1>2

MinsOf(m) == [i \in 1..Len(m) |-> Budget(m[i]).min]
MaxsOf(m) == [i \in 1..Len(m) |-> Budget(m[i]).max]

\* mergeBudgets over a conversation keeps the last limit of each kind.
LEMMA MergedIsLast ==
  ASSUME NEW m, IsSeq(m)
  PROVE  Merged(m).min = LastNamed(MinsOf(m), Len(m)) /\ Merged(m).max = LastNamed(MaxsOf(m), Len(m))
<1> DEFINE N == Len(m)
           Of(g) == [n \in 0..N |-> IF n = 0 THEN NoBudget ELSE Merge(g[n - 1], Budget(m[n]))]
           g == CHOOSE h : h = Of(h)
           sorts == [i \in 1..N |-> Budget(m[i]).sort]
           any == [n \in 0..N |-> \E i \in 1..n : Budget(m[i]).vague]
           w == [n \in 0..N |-> [min |-> LastNamed(MinsOf(m), n), max |-> LastNamed(MaxsOf(m), n),
                                 sort |-> LastNamed(sorts, n), vague |-> any[n]]]
<1>1. N \in Nat
  BY LenProperties DEF IsSeq
<1>2. \E h : h = Of(h)
  <2>1. w[0] = NoBudget
    <3>1. any[0] = FALSE
      BY <1>1
    <3>2. w[0] = [min |-> LastNamed(MinsOf(m), 0), max |-> LastNamed(MaxsOf(m), 0), sort |-> LastNamed(sorts, 0),
                  vague |-> any[0]]
      <4> HIDE DEF any, sorts
      <4> QED
        BY <1>1
    <3> HIDE DEF w, sorts, any
    <3>3. /\ LastNamed(MinsOf(m), 0) = Unset /\ LastNamed(MaxsOf(m), 0) = Unset /\ LastNamed(sorts, 0) = Unset
      BY LastStarts
    <3> QED
      BY <3>1, <3>2, <3>3 DEF NoBudget
  <2>2. ASSUME NEW n \in 1..N
        PROVE  w[n] = Merge(w[n - 1], Budget(m[n]))
    <3> DEFINE u == Budget(m[n])
    <3>1. n \in Nat \ {0} /\ n \in 0..N /\ n - 1 \in 0..N
      BY <1>1
    <3>2. /\ LastNamed(MinsOf(m), n) = Over(u.min, LastNamed(MinsOf(m), n - 1))
          /\ LastNamed(MaxsOf(m), n) = Over(u.max, LastNamed(MaxsOf(m), n - 1))
          /\ LastNamed(sorts, n) = Over(u.sort, LastNamed(sorts, n - 1))
      <4>1. MinsOf(m)[n] = u.min /\ MaxsOf(m)[n] = u.max /\ sorts[n] = u.sort
        BY DEF MinsOf, MaxsOf
      <4> HIDE DEF u, sorts
      <4> QED
        BY <3>1, <4>1, LastGrows
    <3>3. any[n] = (u.vague \/ any[n - 1])
      <4>1. (\E i \in 1..n : Budget(m[i]).vague) <=> (u.vague \/ \E i \in 1..(n - 1) : Budget(m[i]).vague)
        BY <3>1
      <4> QED
        BY <3>1, <4>1
    <3> DEFINE a == w[n]
               b == w[n - 1]
    <3>4. /\ a = [min |-> LastNamed(MinsOf(m), n), max |-> LastNamed(MaxsOf(m), n), sort |-> LastNamed(sorts, n),
                  vague |-> any[n]]
          /\ b = [min |-> LastNamed(MinsOf(m), n - 1), max |-> LastNamed(MaxsOf(m), n - 1),
                  sort |-> LastNamed(sorts, n - 1), vague |-> any[n - 1]]
      <4> HIDE DEF any, sorts
      <4> QED
        BY <3>1
    <3> HIDE DEF a, b, w, u, sorts, any
    <3>5. a = Merge(b, u)
      BY <3>2, <3>3, <3>4 DEF Merge
    <3> QED
      BY <3>5 DEF a, b, u
  <2> HIDE DEF w
  <2>3. w = [n \in 0..N |-> w[n]]
    BY DEF w
  <2>4. \A n \in 0..N : w[n] = IF n = 0 THEN NoBudget ELSE Merge(w[n - 1], Budget(m[n]))
    BY <1>1, <2>1, <2>2
  <2>5. w = Of(w)
    BY <2>3, <2>4
  <2> QED
    BY <2>5
<1>3. g = Of(g)
  BY <1>2
<1>4. Merged(m) = g[N]
  BY DEF Merged
<1> HIDE DEF g
<1>5. g[0] = NoBudget /\ \A n \in 1..N : g[n] = Merge(g[n - 1], Budget(m[n]))
  BY <1>1, <1>3
<1> DEFINE S == {n \in Nat : n > N \/ (g[n].min = LastNamed(MinsOf(m), n) /\ g[n].max = LastNamed(MaxsOf(m), n))}
<1>6. 0 \in S
  BY <1>5, LastStarts DEF NoBudget
<1>7. ASSUME NEW k \in Nat, k \in S PROVE k + 1 \in S
  <2>1. CASE k + 1 > N
    BY <2>1
  <2>2. CASE ~(k + 1 > N)
    <3> DEFINE n == k + 1
               u == Budget(m[n])
    <3>1. n \in 1..N /\ n - 1 = k /\ n \in Nat \ {0} /\ ~(k > N)
      BY <1>1, <2>2
    <3>2. g[k].min = LastNamed(MinsOf(m), k) /\ g[k].max = LastNamed(MaxsOf(m), k)
      BY <1>7, <3>1
    <3>3. MinsOf(m)[n] = u.min /\ MaxsOf(m)[n] = u.max
      BY <3>1 DEF MinsOf, MaxsOf
    <3> HIDE DEF n, u
    <3>4. g[n] = Merge(g[k], Budget(m[n]))
      BY <1>5, <3>1
    <3>5. g[n].min = Over(u.min, g[k].min) /\ g[n].max = Over(u.max, g[k].max)
      BY <3>4 DEF Merge, u
    <3>6. g[n].min = LastNamed(MinsOf(m), n) /\ g[n].max = LastNamed(MaxsOf(m), n)
      BY <3>1, <3>2, <3>3, <3>5, LastGrows
    <3>7. n \in S
      BY <3>1, <3>6
    <3> QED
      BY <3>7 DEF n
  <2> QED
    BY <2>1, <2>2
<1>8. N \in S
  <2> HIDE DEF S
  <2> QED
    BY <1>1, <1>6, <1>7, Induction
<1> QED
  BY <1>1, <1>4, <1>8

LEMMA NamedIsLast ==
  ASSUME IsSeq(said)
  PROVE  /\ Named("min") = LastNamed(MinsOf(said), Len(said)) /\ Named("max") = LastNamed(MaxsOf(said), Len(said))
         /\ ~ZeroLimit => /\ Named("min") = 0 => Named("min") = Unset
                          /\ Named("max") = 0 => Named("max") = Unset
<1> DEFINE N == Len(said)
           A == {i \in DOMAIN said : Budget(said[i]).min # Unset}
           B == {i \in DOMAIN said : Budget(said[i]).max # Unset}
<1>1. DOMAIN said = 1..N /\ N \in Nat
  BY LenProperties, ElementOfSeq DEF IsSeq
<1>2. A = SetAt(MinsOf(said), N) /\ B = SetAt(MaxsOf(said), N)
  BY <1>1 DEF SetAt, MinsOf, MaxsOf
<1>3. /\ A # {} => Max(A) \in A
      /\ B # {} => Max(B) \in B
  <2>1. A \subseteq 1..N /\ B \subseteq 1..N
    BY <1>1
  <2> HIDE DEF A, B, N
  <2> QED
    BY <1>1, <2>1, GreatestOf
<1>4. /\ Named("min") = IF A = {} THEN Unset ELSE Budget(said[Max(A)]).min
      /\ Named("max") = IF B = {} THEN Unset ELSE Budget(said[Max(B)]).max
  BY DEF Named
<1>5. /\ A # {} => Budget(said[Max(A)]).min = MinsOf(said)[Max(A)]
      /\ B # {} => Budget(said[Max(B)]).max = MaxsOf(said)[Max(B)]
  BY <1>1, <1>3 DEF MinsOf, MaxsOf
<1>6. ~ZeroLimit => /\ A # {} => Budget(said[Max(A)]).min # 0
                    /\ B # {} => Budget(said[Max(B)]).max # 0
  BY <1>1, <1>3 DEF ZeroLimit
<1> HIDE DEF A, B, N
<1> QED
  BY <1>2, <1>4, <1>5, <1>6 DEF LastNamed, N

-----------------------------------------------------------------------------
(***************************************************************************)
(* The cards.                                                              *)
(***************************************************************************)
LEMMA CountOfIds ==
  ASSUME NEW s, IsSeq(s), Distinct(s)
  PROVE  Cardinality(IdsOf(s)) = Len(s)
<1> DEFINE n == Len(s)
           f == [i \in 1..n |-> s[i].id]
<1>1. n \in Nat
  BY LenProperties DEF IsSeq
<1>2. f \in [1..n -> IdsOf(s)] /\ \A i, j \in 1..n : f[i] = f[j] => i = j
  BY DEF IdsOf, Distinct
<1>3. \A x \in IdsOf(s) : \E i \in 1..n : f[i] = x
  BY DEF IdsOf
<1>4. f \in Bijection(1..n, IdsOf(s))
  BY <1>2, <1>3 DEF Bijection, Injection, Surjection, IsInjective
<1>5. ExistsBijection(1..n, IdsOf(s))
  BY <1>4 DEF ExistsBijection
<1>6. IsFiniteSet(1..n) /\ Cardinality(1..n) = n
  <2> HIDE DEF n
  <2>1. 1 \in Int /\ n \in Int /\ n - 1 + 1 = n /\ (1 > n => n = 0)
    BY <1>1
  <2> QED
    BY <2>1, FS_Interval
<1> QED
  BY <1>5, <1>6, FS_Bijection

\* What cards must be beside what was found.
CardsOK(cards, f) ==
  /\ IsSeq(cards) /\ Distinct(cards) /\ IdsOf(cards) \subseteq Products /\ Len(cards) <= MaxCards
  /\ \A i \in 1..Len(cards) : cards[i] = f[cards[i].id]
  /\ \A p \in Products : f[p] # Unset /\ p \notin IdsOf(cards) => Len(cards) = MaxCards
\* What is found after the items.
At(items, p) == {i \in 1..Len(items) : items[i].id = p}
FindsOf(items, old, new) ==
  \A p \in Products : new[p] = IF At(items, p) = {} THEN old[p] ELSE items[Max(At(items, p))]

LEMMA CardsMade ==
  ASSUME NEW cards, NEW items, NEW old, NEW new, NEW next \in Cards(cards, items),
         CardsOK(cards, old), FindsOf(items, old, new), IsSeq(items), IdsOf(items) \subseteq Products
  PROVE  CardsOK(next, new)
<1> DEFINE a == Len(cards)
           b == Len(items)
           all == cards \o items
           N == Len(all)
           firsts == {i \in DOMAIN all : \A j \in 1..(i - 1) : all[j].id # all[i].id}
           last(i) == all[Max({j \in DOMAIN all : all[j].id = all[i].id})]
<1>1. /\ a \in Nat /\ b \in Nat /\ a <= MaxCards /\ IsSeq(cards) /\ Distinct(cards) /\ MaxCards \in Nat
      /\ IdsOf(cards) \subseteq Products /\ \A i \in 1..a : cards[i] = old[cards[i].id]
  BY LenProperties, AdvisorConstants DEF CardsOK, IsSeq
<1>20. DOMAIN all = 1..N
  <2>1. IsSeq(all)
    BY <1>1, Joins
  <2> HIDE DEF all
  <2> QED
    BY <2>1, LenProperties, ElementOfSeq DEF IsSeq
<1>2. /\ N = a + b /\ IsSeq(all)
      /\ \A i \in 1..(a + b) : all[i] = IF i <= a THEN cards[i] ELSE items[i - a]
  <2>1. PICK S : cards \in Seq(S)
    BY <1>1 DEF IsSeq
  <2>2. PICK T : items \in Seq(T)
    BY DEF IsSeq
  <2>3. cards \in Seq(S \cup T) /\ items \in Seq(S \cup T)
    <3>1. cards \in [1..Len(cards) -> S] /\ items \in [1..Len(items) -> T]
      BY <2>1, <2>2, LenProperties, ElementOfSeq
    <3>2. cards \in [1..Len(cards) -> S \cup T] /\ items \in [1..Len(items) -> S \cup T]
      BY <3>1
    <3> QED
      BY <1>1, <3>2, SeqDef
  <2> HIDE DEF all
  <2>4. /\ all \in Seq(S \cup T) /\ Len(all) = a + b
        /\ \A i \in 1..(a + b) : all[i] = IF i <= a THEN cards[i] ELSE items[i - a]
    BY <2>3, ConcatProperties DEF all
  <2> QED
    BY <2>4 DEF IsSeq
<1>3. PICK ids \in SetToSeqs(firsts) : next = [k \in 1..Min({MaxCards, Len(ids)}) |-> last(ids[k])]
  BY DEF Cards, InOrder
<1>4. IdsOf(all) \subseteq Products
  BY <1>1, Joins
<1> HIDE DEF a, b, all
<1>5. firsts = {i \in 1..N : \A j \in 1..(i - 1) : all[j].id # all[i].id}
  BY <1>20
<1> DEFINE c == Cardinality(firsts)
           n == Min({MaxCards, Len(ids)})
<1>6. ids \in SetToSeqs(firsts)
  BY <1>3
<1> HIDE DEF firsts, N
<1>7. firsts \subseteq 1..N /\ IsFiniteSet(firsts) /\ N \in Nat
  <2>1. N \in Nat
    BY <1>1, <1>2
  <2>2. IsFiniteSet(1..N)
    BY <2>1, FS_Interval
  <2> QED
    BY <1>5, <2>1, <2>2, FS_Subset
<1>8. Enumerates(ids, firsts) /\ c \in Nat /\ Len(ids) = c
  BY <1>6, <1>7, Enumerated DEF Enumerates
<1>9. n = (IF MaxCards <= c THEN MaxCards ELSE c) /\ n \in Nat
  BY <1>1, <1>8, MinOfTwo
<1>10. next = [k \in 1..n |-> last(ids[k])]
  BY <1>3
<1> HIDE DEF n, c
<1>11. ASSUME NEW i \in 1..N
       PROVE  last(i).id = all[i].id /\ last(i) = new[all[i].id] /\ all[i].id \in Products
  <2> DEFINE p == all[i].id
             J == {j \in DOMAIN all : all[j].id = p}
             m == Max(J)
             of == At(items, p)
  <2>1. p \in IdsOf(all) /\ p \in Products
    BY <1>4 DEF IdsOf, N
  <2>2. J = {j \in 1..N : all[j].id = p}
    BY <1>20
  <2> HIDE DEF p
  <2>3. i \in J
    BY <2>2 DEF p
  <2> HIDE DEF J
  <2>4. m \in J /\ \A j \in J : j <= m
    <3>1. J \subseteq 1..N /\ J # {}
      BY <2>2, <2>3
    <3> QED
      BY <1>7, <3>1, GreatestOf
  <2>5. last(i) = all[m]
    BY DEF J, p
  <2> HIDE DEF m, last
  <2>6. m \in 1..N /\ all[m].id = p
    BY <2>2, <2>4
  <2>7. new[p] = IF of = {} THEN old[p] ELSE items[Max(of)]
    BY <2>1 DEF FindsOf
  <2>8. CASE of = {}
    <3>1. m <= a
      <4> SUFFICES ASSUME ~(m <= a) PROVE FALSE
        OBVIOUS
      <4> DEFINE k == m - a
      <4>1. k \in 1..b /\ m \in 1..(a + b)
        BY <1>1, <1>2, <2>6
      <4>2. all[m] = items[k]
        BY <1>2, <4>1
      <4> HIDE DEF k
      <4>3. k \in of
        BY <2>6, <4>1, <4>2 DEF At, b
      <4> QED
        BY <2>8, <4>3
    <3>2. m \in 1..a /\ m \in 1..(a + b)
      BY <1>1, <1>2, <2>6, <3>1
    <3>3. all[m] = cards[m] /\ cards[m] = old[cards[m].id]
      BY <1>1, <1>2, <3>1, <3>2
    <3> QED
      BY <2>1, <2>5, <2>6, <2>7, <2>8, <3>3 DEF p
  <2>9. CASE of # {}
    <3> DEFINE x == Max(of)
               y == a + x
               z == m - a
    <3>1. x \in of /\ \A k \in of : k <= x
      <4>1. of \subseteq 1..b
        BY DEF At, b
      <4> HIDE DEF of
      <4> QED
        BY <1>1, <2>9, <4>1, GreatestOf
    <3> HIDE DEF x
    <3>2. x \in 1..b /\ items[x].id = p
      BY <3>1 DEF At, b
    <3>3. y \in 1..(a + b) /\ ~(y <= a) /\ y - a = x
      BY <1>1, <3>2
    <3> HIDE DEF y
    <3>4. y \in J
      <4>1. all[y] = items[x]
        BY <1>2, <3>3
      <4> QED
        BY <1>2, <2>2, <3>2, <3>3, <4>1
    <3>5. y <= m
      BY <2>4, <3>4
    <3>6. ~(m <= a) /\ m \in 1..(a + b) /\ z \in 1..b
      BY <1>1, <1>2, <2>6, <3>2, <3>5 DEF y
    <3>7. all[m] = items[z]
      BY <1>2, <3>6
    <3> HIDE DEF z
    <3>8. z \in of
      BY <2>6, <3>6, <3>7 DEF At, b
    <3>9. z <= x
      BY <3>1, <3>8
    <3>10. z = x
      BY <1>1, <2>6, <3>2, <3>5, <3>9 DEF y, z
    <3> QED
      BY <2>1, <2>5, <2>6, <2>7, <2>9, <3>7, <3>10 DEF p, x
  <2> QED
    BY <2>8, <2>9
<1> HIDE DEF last
<1>12. ASSUME NEW i \in firsts, NEW j \in firsts, all[i].id = all[j].id
       PROVE  i = j
  BY <1>5, <1>7, <1>12
<1>13. ASSUME NEW p \in IdsOf(all)
       PROVE  \E i \in firsts : all[i].id = p
  <2> DEFINE J == {j \in 1..N : all[j].id = p}
  <2>1. J \subseteq Nat /\ J # {}
    BY <1>7 DEF IdsOf, N
  <2>2. PICK i \in J : \A j \in J : i <= j
    BY <2>1, LeastNumber
  <2>3. \A j \in 1..(i - 1) : all[j].id # all[i].id
    BY <1>7, <2>2
  <2> QED
    BY <1>5, <2>2, <2>3
<1>14. /\ IsSeq(next) /\ Len(next) = n
  <2> DEFINE T == {next[k] : k \in 1..n}
  <2>1. next \in [1..n -> T]
    BY <1>10
  <2>2. next \in Seq(T)
    BY <1>9, <2>1, SeqDef
  <2> HIDE DEF T
  <2>3. Len(next) = n
    BY <1>9, <2>1, <2>2, LenProperties
  <2> QED
    BY <2>2, <2>3 DEF IsSeq
<1>15. \A k \in 1..n : /\ ids[k] \in firsts /\ ids[k] \in 1..N /\ k \in 1..c
                       /\ next[k].id = all[ids[k]].id /\ next[k] = new[all[ids[k]].id]
                       /\ all[ids[k]].id \in Products
  <2> SUFFICES ASSUME NEW k \in 1..n
               PROVE  /\ ids[k] \in firsts /\ ids[k] \in 1..N /\ k \in 1..c
                      /\ next[k].id = all[ids[k]].id /\ next[k] = new[all[ids[k]].id]
                      /\ all[ids[k]].id \in Products
    OBVIOUS
  <2>1. k \in 1..c
    BY <1>1, <1>8, <1>9
  <2>2. ids[k] \in firsts
    BY <1>8, <2>1, ElementOfSeq DEF Enumerates
  <2>3. next[k] = last(ids[k])
    BY <1>10
  <2> QED
    BY <1>7, <1>11, <2>1, <2>2, <2>3
<1>16. Distinct(next)
  <2> SUFFICES ASSUME NEW i \in 1..n, NEW j \in 1..n, next[i].id = next[j].id PROVE i = j
    BY <1>14 DEF Distinct
  <2>1. ids[i] = ids[j] /\ i \in 1..Len(ids) /\ j \in 1..Len(ids)
    BY <1>8, <1>12, <1>15
  <2> QED
    BY <1>8, <2>1 DEF Enumerates
<1>17. IdsOf(next) \subseteq Products /\ \A i \in 1..Len(next) : next[i] = new[next[i].id]
  BY <1>14, <1>15 DEF IdsOf
<1>18. ASSUME NEW p \in Products, new[p] # Unset, p \notin IdsOf(next)
       PROVE  Len(next) = MaxCards
  <2>1. CASE p \in IdsOf(all)
    <3>1. PICK i \in firsts : all[i].id = p
      BY <1>13, <2>1
    <3>2. PICK k \in 1..c : ids[k] = i
      BY <1>8 DEF Enumerates
    <3>3. k \notin 1..n
      BY <1>14, <1>15, <1>18, <3>1, <3>2 DEF IdsOf
    <3> QED
      BY <1>1, <1>8, <1>9, <1>14, <3>3
  <2>2. CASE p \notin IdsOf(all)
    <3>1. IdsOf(all) = IdsOf(cards) \cup IdsOf(items)
      BY <1>1, Joins DEF all
    <3>2. At(items, p) = {}
      BY <2>2, <3>1 DEF At, IdsOf
    <3>3. new[p] = old[p] /\ p \notin IdsOf(cards)
      BY <2>2, <3>1, <3>2 DEF FindsOf
    <3>4. a = MaxCards
      BY <1>18, <3>3 DEF CardsOK, a
    <3>5. 1..a \subseteq firsts
      <4> SUFFICES ASSUME NEW i \in 1..a PROVE i \in firsts
        OBVIOUS
      <4>1. i \in 1..N /\ i \in 1..(a + b) /\ i <= a
        BY <1>1, <1>2
      <4>2. all[i] = cards[i]
        BY <1>2, <4>1
      <4>3. ASSUME NEW j \in 1..(i - 1) PROVE all[j].id # all[i].id
        <5>1. j \in 1..a /\ j \in 1..(a + b) /\ j <= a /\ j # i
          BY <1>1, <4>1
        <5>2. all[j] = cards[j]
          BY <1>2, <5>1
        <5> QED
          BY <1>1, <4>2, <5>1, <5>2 DEF Distinct, a
      <4> QED
        BY <1>5, <4>1, <4>3
    <3>6. a <= c
      <4>1. Cardinality(1..a) = a
        BY <1>1, FS_Interval
      <4>2. Cardinality(1..a) <= Cardinality(firsts)
        BY <1>7, <3>5, FS_Subset
      <4> QED
        BY <4>1, <4>2 DEF c
    <3> QED
      BY <1>1, <1>8, <1>9, <1>14, <3>4, <3>6
  <2> QED
    BY <2>1, <2>2
<1>19. Len(next) <= MaxCards
  BY <1>1, <1>8, <1>9, <1>14
<1> QED
  BY <1>14, <1>16, <1>17, <1>18, <1>19 DEF CardsOK

-----------------------------------------------------------------------------
(***************************************************************************)
(* The turns of the assistant.                                             *)
(***************************************************************************)
ArgsShaped(a) ==
  a \in [tool : {a.tool}, words : {a.words}, min : {a.min}, max : {a.max}, sort : {a.sort}]
TurnShaped ==
  turn \in [pc : {"idle", "complete", "call", "search"}, by : {turn.by}, calls : {turn.calls},
            own : {turn.own}, args : {turn.args}, tries : {turn.tries}, cards : {turn.cards},
            reply : {turn.reply}]

\* Whether the whole conversation is read, and what limits a search must then keep to.
AllRead == 2 * Len(said) <= MaxMessages + 1 /\ ~ZeroLimit
SameLimits(x, y) ==
  /\ Over(x.min, Named("min")) = Over(y.min, Named("min"))
  /\ Over(x.max, Named("max")) = Over(y.max, Named("max"))
KeepsLimits(q, args) ==
  /\ q.min = Over(args.min, Named("min")) /\ q.max = Over(args.max, Named("max"))

LimitsInv ==
  AllRead => /\ turn.pc \in {"call", "search"} => SameLimits(turn.args, turn.own)
             /\ turn.pc = "search" => KeepsLimits(visit.query, turn.args)
TurnInv ==
  /\ IsSeq(said) /\ TurnShaped /\ ArgsShaped(turn.own) /\ ArgsShaped(turn.args)
AdvisorInv == SearchInv /\ TurnInv /\ LimitsInv /\ CardsOK(turn.cards, found)

\* What is said is all read while it is short.
LEMMA FirstIsAll ==
  ASSUME IsSeq(said), NEW n \in Nat, Len(said) <= n
  PROVE  First(n) = said
<1>1. PICK S : said \in Seq(S)
  BY DEF IsSeq
<1> DEFINE N == Len(said)
<1>2. N \in Nat /\ N <= n /\ said \in [1..N -> S]
  BY <1>1, LenProperties
<1>3. Min({N, n}) = N
  BY <1>2, MinOfTwo
<1>4. \A i \in 1..N : said[i] \in S
  BY <1>2
<1> DEFINE t == SubSeq(said, 1, N)
<1>5. First(n) = t
  BY <1>3 DEF First
<1> HIDE DEF N
<1>6. /\ t \in Seq(S) /\ Len(t) = (IF 1 <= N THEN N - 1 + 1 ELSE 0)
      /\ \A i \in 1..(N - 1 + 1) : t[i] = said[1 + i - 1]
  BY <1>2, <1>4, SubSeqProperties
<1> HIDE DEF t
<1>7. Len(t) = N
  BY <1>2, <1>6
<1>8. \A i \in 1..N : t[i] = said[i]
  <2> SUFFICES ASSUME NEW i \in 1..N PROVE t[i] = said[i]
    OBVIOUS
  <2>1. i \in 1..(N - 1 + 1) /\ 1 + i - 1 = i
    BY <1>2
  <2> QED
    BY <1>6, <2>1
<1>9. t \in [1..N -> S]
  BY <1>6, <1>7, LenProperties
<1>10. t = said
  BY <1>2, <1>8, <1>9
<1> QED
  BY <1>5, <1>10

\* enrichSearchToolArgs keeps what is there and adds the last limits.
LEMMA EnrichedKeeps ==
  ASSUME NEW args, ArgsShaped(args), NEW m
  PROVE  ArgsShaped(Enriched(args, m))
<1> DEFINE b == Merged(m)
<1> HIDE DEF b
<1>1. Enriched(args, m) = IF OnlyVague(b) THEN args
        ELSE [args EXCEPT !.min = Over(args.min, b.min), !.max = Over(args.max, b.max),
                          !.sort = Over(args.sort, b.sort)]
  BY DEF Enriched, b
<1> QED
  BY <1>1 DEF ArgsShaped

LEMMA EnrichedLimits ==
  ASSUME NEW args, ArgsShaped(args), IsSeq(said), ~ZeroLimit
  PROVE  KeepsLimits(Enriched(args, said), args)
<1> DEFINE b == Merged(said)
           e == Enriched(args, said)
<1>1. /\ b.min = Named("min") /\ b.max = Named("max")
      /\ b.min = 0 => b.min = Unset
      /\ b.max = 0 => b.max = Unset
  BY MergedIsLast, NamedIsLast
<1>2. e = IF OnlyVague(b) THEN args
          ELSE [args EXCEPT !.min = Over(args.min, b.min), !.max = Over(args.max, b.max),
                            !.sort = Over(args.sort, b.sort)]
  BY DEF Enriched
<1> HIDE DEF b, e
<1>3. CASE OnlyVague(b)
  <2>1. b.min = Unset /\ b.max = Unset
    BY <1>1, <1>3 DEF OnlyVague
  <2> QED
    BY <1>1, <1>2, <1>3, <2>1 DEF KeepsLimits, Over, e
<1>4. CASE ~OnlyVague(b)
  <2>1. e.min = Over(args.min, b.min) /\ e.max = Over(args.max, b.max)
    BY <1>2, <1>4 DEF ArgsShaped
  <2> QED
    BY <1>1, <2>1 DEF KeepsLimits, e
<1> QED
  BY <1>3, <1>4

LEMMA SaidRead ==
  ASSUME IsSeq(said), AllRead
  PROVE  Loaded = said /\ Given = said /\ ~ZeroLimit
<1> DEFINE N == Len(said)
<1>1. N \in Nat /\ 2 * N <= MaxMessages + 1 /\ MaxMessages \in Nat \ {0}
  BY LenProperties, AdvisorConstants DEF IsSeq, AllRead
<1>2. (MaxMessages + 1) \div 2 \in Nat /\ N <= (MaxMessages + 1) \div 2 /\ N <= MaxMessages
  BY <1>1
<1> QED
  BY <1>1, <1>2, FirstIsAll DEF Loaded, Given, AllRead

\* The steps that do not touch the visit's query or what is said.
LEMMA SameLimitsKept ==
  ASSUME UNCHANGED said
  PROVE  /\ AllRead' <=> AllRead
         /\ \A x, y : SameLimits(x, y)' <=> SameLimits(x, y)
         /\ \A q, y : KeepsLimits(q, y)' <=> KeepsLimits(q, y)
BY DEF AllRead, SameLimits, KeepsLimits, Named, ZeroLimit

LEMMA ReadKeepsQuery ==
  ASSUME SearchInv, Read
  PROVE  visit'.query = visit.query
<1>1. PICK Q, A, I : visit \in Visits(Q, A, I)
  BY VisitFields DEF SearchInv, Shape
<1>2. CASE FindCategory
  BY <1>1, <1>2 DEF FindCategory, VisitTo, Visits
<1>3. CASE FindChildren
  BY <1>1, <1>3 DEF FindChildren, Visits
<1>4. CASE Count
  <2>1. \E x, y : visit' = [visit EXCEPT !.counted = TRUE, !.pc = x, !.total = y]
    BY <1>4 DEF Count
  <2> QED
    BY <1>1, <2>1 DEF Visits
<1>5. ASSUME \E x, y, z : visit' = [visit EXCEPT !.items = x, !.fetched = y, !.pc = z]
      PROVE  visit'.query = visit.query
  BY <1>1, <1>5 DEF Visits
<1>6. CASE Fetch
  <2>1. \E ids, kept, y, z : Answer(ids, kept, y, z)
    BY <1>6 DEF Fetch
  <2> QED
    BY <1>5, <2>1 DEF Answer
<1>7. CASE LoadRows
  <2>1. \E ids, kept, y, z : Answer(ids, kept, y, z)
    BY <1>7 DEF LoadRows
  <2> QED
    BY <1>5, <2>1 DEF Answer
<1>8. CASE Match
  <2>1. \E x, y : visit' = [visit EXCEPT !.ids = x, !.pc = y]
    BY <1>8 DEF Match
  <2> QED
    BY <1>1, <2>1 DEF Visits
<1> QED
  BY <1>2, <1>3, <1>4, <1>6, <1>7, <1>8 DEF Read

LEMMA AppendIsSeq == ASSUME NEW s, IsSeq(s), NEW x PROVE IsSeq(Append(s, x))
<1>1. PICK S : s \in Seq(S)
  BY DEF IsSeq
<1>2. s \in [1..Len(s) -> S] /\ Len(s) \in Nat
  BY <1>1, LenProperties
<1>3. s \in [1..Len(s) -> S \cup {x}]
  BY <1>2
<1>4. s \in Seq(S \cup {x})
  BY <1>2, <1>3, SeqDef
<1>5. Append(s, x) \in Seq(S \cup {x})
  BY <1>4, AppendProperties
<1> QED
  BY <1>5 DEF IsSeq

LEMMA SayKeeps ==
  ASSUME AdvisorInv, NEW u \in Utterances, Say(u)
  PROVE  AdvisorInv'
<1>1. PICK p \in Providers : turn' = [NoTurn EXCEPT !.pc = "complete", !.by = p]
  BY DEF Say
<1>2. said' = Append(said, u) /\ found' = Nothing /\ UNCHANGED searchVars
  BY DEF Say
<1>3. SearchInv'
  BY <1>2, SearchSteps DEF AdvisorInv
<1>4. /\ turn'.pc = "complete" /\ turn'.cards = <<>> /\ turn'.own = NoArgs /\ turn'.args = NoArgs
      /\ TurnShaped'
  BY <1>1 DEF NoTurn, TurnShaped
<1>5. ArgsShaped(NoArgs)
  BY DEF ArgsShaped, NoArgs
<1>6. IsSeq(said')
  BY <1>2, AppendIsSeq DEF AdvisorInv, TurnInv
<1>7. CardsOK(<<>>, found')
  <2>1. Len(<<>>) = 0 /\ 0 <= MaxCards
    BY AdvisorConstants
  <2>2. \A q \in Products : found'[q] = Unset
    BY <1>2 DEF Nothing
  <2> QED
    BY <2>1, <2>2, EmptyJoins DEF CardsOK
<1>8. TurnInv'
  BY <1>4, <1>5, <1>6 DEF TurnInv
<1>9. LimitsInv'
  BY <1>4 DEF LimitsInv
<1> QED
  BY <1>3, <1>4, <1>7, <1>8, <1>9 DEF AdvisorInv

\* A step of the turn that leaves what is said and what was found.
LEMMA TurnKeeps ==
  ASSUME AdvisorInv, UNCHANGED <<said, found>>, TurnShaped', turn'.cards = turn.cards,
         ArgsShaped(turn'.own), ArgsShaped(turn'.args), SearchInv',
         AllRead /\ turn'.pc \in {"call", "search"} => SameLimits(turn'.args, turn'.own),
         AllRead /\ turn'.pc = "search" => KeepsLimits(visit'.query, turn'.args)
  PROVE  AdvisorInv'
<1>1. TurnInv'
  BY DEF AdvisorInv, TurnInv
<1>2. LimitsInv'
  BY SameLimitsKept DEF LimitsInv
<1>3. CardsOK(turn'.cards, found')
  BY DEF AdvisorInv
<1> QED
  BY <1>1, <1>2, <1>3 DEF AdvisorInv

LEMMA ReplyKeeps ==
  ASSUME AdvisorInv, UNCHANGED <<said, found>>, SearchInv', NEW reply, Reply(reply)
  PROVE  AdvisorInv'
<1>1. /\ TurnShaped' /\ turn'.cards = turn.cards /\ turn'.own = turn.own /\ turn'.args = turn.args
      /\ turn'.pc = "idle"
  BY DEF AdvisorInv, TurnInv, TurnShaped, Reply
<1> QED
  BY <1>1, TurnKeeps DEF AdvisorInv, TurnInv

LEMMA CallKeeps ==
  ASSUME AdvisorInv, UNCHANGED <<said, found>>, SearchInv', NEW own, NEW args, ArgsShaped(own),
         ArgsShaped(args), AllRead => SameLimits(args, own), Call(own, args)
  PROVE  AdvisorInv'
<1>1. /\ TurnShaped' /\ turn'.cards = turn.cards /\ turn'.own = own /\ turn'.args = args
      /\ turn'.pc = "call"
  <2> DEFINE calls == turn.calls + 1
  <2>1. turn' = [turn EXCEPT !.pc = "call", !.calls = calls, !.own = own, !.args = args, !.tries = 0]
    BY DEF Call
  <2> HIDE DEF calls
  <2> QED
    BY <2>1 DEF AdvisorInv, TurnInv, TurnShaped
<1> QED
  BY <1>1, TurnKeeps

LEMMA CompleteKeeps ==
  ASSUME AdvisorInv, Complete
  PROVE  AdvisorInv'
<1>1. UNCHANGED <<said, found>> /\ visit' = Unread /\ UNCHANGED <<shop, tree, seen, steady, onSale>>
  BY DEF Complete, Trace
<1>2. SearchInv'
  BY <1>1, CloseKeeps DEF AdvisorInv
<1>3. ASSUME NEW reply, Reply(reply) PROVE AdvisorInv'
  BY <1>1, <1>2, <1>3, ReplyKeeps
<1>4. ASSUME NEW args \in ModelArgs, Call(args, args) PROVE AdvisorInv'
  <2>1. ArgsShaped(args)
    BY AdvisorConstants DEF ArgsShaped
  <2>2. SameLimits(args, args)
    BY DEF SameLimits
  <2> QED
    BY <1>1, <1>2, <1>4, <2>1, <2>2, CallKeeps
<1>5. ASSUME Call(NoArgs, Enriched([NoArgs EXCEPT !.words = Derived(Given)], Given))
      PROVE  AdvisorInv'
  <2> DEFINE asked == [NoArgs EXCEPT !.words = Derived(Given)]
             args == Enriched(asked, Given)
  <2>1. ArgsShaped(asked) /\ asked.min = Unset /\ asked.max = Unset /\ ArgsShaped(NoArgs)
    BY DEF ArgsShaped, NoArgs
  <2> HIDE DEF asked
  <2>2. ArgsShaped(args)
    BY <2>1, EnrichedKeeps
  <2>3. AllRead => SameLimits(args, NoArgs)
    <3> SUFFICES ASSUME AllRead PROVE SameLimits(args, NoArgs)
      OBVIOUS
    <3>1. Given = said /\ ~ZeroLimit /\ IsSeq(said)
      BY SaidRead DEF AdvisorInv, TurnInv
    <3>2. KeepsLimits(Enriched(asked, said), asked)
      BY <2>1, <3>1, EnrichedLimits
    <3>3. args.min = Named("min") /\ args.max = Named("max")
      BY <2>1, <3>1, <3>2 DEF KeepsLimits, Over
    <3>4. NoArgs.min = Unset /\ NoArgs.max = Unset
      BY DEF NoArgs
    <3> HIDE DEF args
    <3> QED
      BY <3>3, <3>4 DEF SameLimits, Over
  <2>4. Call(NoArgs, args)
    BY <1>5 DEF asked
  <2> HIDE DEF args
  <2> QED
    BY <1>1, <1>2, <2>1, <2>2, <2>3, <2>4, CallKeeps
<1> QED
  BY <1>3, <1>4, <1>5 DEF Complete, Deterministic

LEMMA RanKeeps ==
  ASSUME AdvisorInv, turn.pc \in {"call", "search"}, NEW words, Ran(words)
  PROVE  AdvisorInv'
<1> DEFINE e == Enriched(turn.args, Loaded)
           q == Query(e, words)
           tries == turn.tries + 1
<1>1. /\ Open(q) /\ UNCHANGED <<shop, tree, said, found>> /\ seen' = <<>> /\ onSale' = Active
      /\ turn' = [turn EXCEPT !.pc = "search", !.tries = tries]
  BY DEF Ran, Shop
<1> HIDE DEF tries, e
<1>2. q.size = ToolSize /\ q.category = Unset /\ q.min = e.min /\ q.max = e.max
  BY DEF Query, NoQuery
<1> HIDE DEF q
<1>3. SearchInv'
  BY <1>1, <1>2, AdvisorConstants, OpenKeeps DEF AdvisorInv
<1>4. visit'.query = q
  BY <1>1, Opened
<1>5. /\ TurnShaped' /\ turn'.cards = turn.cards /\ turn'.own = turn.own /\ turn'.args = turn.args
      /\ turn'.pc = "search"
  BY <1>1 DEF AdvisorInv, TurnInv, TurnShaped
<1>6. ArgsShaped(turn.own) /\ ArgsShaped(turn.args) /\ IsSeq(said)
  BY DEF AdvisorInv, TurnInv
<1>7. AllRead => KeepsLimits(q, turn.args)
  <2> SUFFICES ASSUME AllRead PROVE KeepsLimits(q, turn.args)
    OBVIOUS
  <2>1. KeepsLimits(e, turn.args)
    BY <1>6, SaidRead, EnrichedLimits DEF e
  <2> QED
    BY <1>2, <2>1 DEF KeepsLimits
<1>8. AllRead => SameLimits(turn.args, turn.own)
  BY DEF AdvisorInv, LimitsInv
<1> QED
  BY <1>1, <1>3, <1>4, <1>5, <1>6, <1>7, <1>8, TurnKeeps

LEMMA RunToolKeeps ==
  ASSUME AdvisorInv, RunTool
  PROVE  AdvisorInv'
<1>1. turn.pc = "call"
  BY DEF RunTool, Is
<1>2. CASE turn' = [turn EXCEPT !.pc = "complete"] /\ UNCHANGED <<searchVars, said, found>>
  <2>1. SearchInv'
    BY <1>2, SearchSteps DEF AdvisorInv
  <2>2. /\ TurnShaped' /\ turn'.cards = turn.cards /\ turn'.own = turn.own /\ turn'.args = turn.args
        /\ turn'.pc = "complete"
    BY <1>2 DEF AdvisorInv, TurnInv, TurnShaped
  <2> QED
    BY <1>2, <2>1, <2>2, TurnKeeps DEF AdvisorInv, TurnInv
<1>3. CASE Ran(turn.args.words)
  BY <1>1, <1>3, RanKeeps
<1> QED
  BY <1>2, <1>3 DEF RunTool

LEMMA TakeKeeps ==
  ASSUME AdvisorInv, Take
  PROVE  AdvisorInv'
<1> DEFINE items == visit.items
<1>1. UNCHANGED said /\ UNCHANGED searchVars
  BY DEF Take
<1>2. SearchInv'
  BY <1>1, SearchSteps DEF AdvisorInv
<1>3. PICK cards \in Cards(turn.cards, items) : turn' = [turn EXCEPT !.pc = "complete", !.cards = cards]
  BY DEF Take
<1>4. /\ IsSeq(items) /\ IdsOf(items) \subseteq Products /\ CardsOK(turn.cards, found)
  BY DEF AdvisorInv, SearchInv, Shape, SaleInv
<1>5. DOMAIN items = 1..Len(items)
  BY <1>4, LenProperties, ElementOfSeq DEF IsSeq
<1>6. FindsOf(items, found, found')
  <2>1. found' = [p \in Products |-> LET of == {i \in DOMAIN visit.items : visit.items[i].id = p} IN
                    IF of = {} THEN found[p] ELSE visit.items[Max(of)]]
    BY DEF Take
  <2>2. \A p : {i \in DOMAIN visit.items : visit.items[i].id = p} = At(items, p)
    BY <1>5 DEF At
  <2> QED
    BY <2>1, <2>2 DEF FindsOf
<1>7. CardsOK(cards, found')
  <2> HIDE DEF items
  <2> QED
    BY <1>3, <1>4, <1>6, CardsMade
<1>8. /\ TurnShaped' /\ turn'.cards = cards /\ turn'.own = turn.own /\ turn'.args = turn.args
      /\ turn'.pc = "complete"
  BY <1>3 DEF AdvisorInv, TurnInv, TurnShaped
<1>9. TurnInv' /\ LimitsInv'
  BY <1>1, <1>8 DEF AdvisorInv, TurnInv, LimitsInv
<1> QED
  BY <1>2, <1>7, <1>8, <1>9 DEF AdvisorInv

LEMMA AdvisorStarts == AdvisorInit => AdvisorInv
<1> SUFFICES ASSUME AdvisorInit PROVE AdvisorInv
  OBVIOUS
<1>1. SearchInv /\ said = <<>> /\ turn = NoTurn /\ found = Nothing
  BY SearchStarts DEF AdvisorInit
<1>2. turn.pc = "idle" /\ turn.cards = <<>> /\ turn.own = NoArgs /\ turn.args = NoArgs /\ TurnShaped
  BY <1>1 DEF NoTurn, TurnShaped
<1>3. ArgsShaped(NoArgs)
  BY DEF ArgsShaped, NoArgs
<1>4. CardsOK(<<>>, found)
  <2>1. Len(<<>>) = 0 /\ 0 <= MaxCards
    BY AdvisorConstants
  <2>2. \A p \in Products : found[p] = Unset
    BY <1>1 DEF Nothing
  <2> QED
    BY <2>1, <2>2, EmptyJoins DEF CardsOK
<1>5. TurnInv /\ LimitsInv
  BY <1>1, <1>2, <1>3, EmptyJoins DEF TurnInv, LimitsInv
<1> QED
  BY <1>1, <1>2, <1>4, <1>5 DEF AdvisorInv

LEMMA AdvisorSteps == AdvisorInv /\ [AdvisorNext]_advisorVars => AdvisorInv'
<1> SUFFICES ASSUME AdvisorInv, [AdvisorNext]_advisorVars PROVE AdvisorInv'
  OBVIOUS
<1>1. CASE \E u \in Utterances : Say(u)
  BY <1>1, SayKeeps
<1>2. CASE Complete \/ RunTool \/ Take
  BY <1>2, CompleteKeeps, RunToolKeeps, TakeKeeps
<1>3. CASE Fallback
  BY <1>3, RanKeeps DEF Fallback, Is
<1>4. ASSUME SearchInv', UNCHANGED <<said, turn, found>>, visit'.query = visit.query
      PROVE  AdvisorInv'
  BY <1>4, TurnKeeps DEF AdvisorInv, TurnInv, TurnShaped, LimitsInv
<1>5. CASE (Read \/ Edit) /\ UNCHANGED <<said, turn, found>>
  <2>1. SearchInv'
    BY <1>5, SearchSteps DEF AdvisorInv, SearchNext
  <2>2. visit'.query = visit.query
    BY <1>5, ReadKeepsQuery DEF AdvisorInv, Edit, Edited
  <2> QED
    BY <1>4, <1>5, <2>1, <2>2
<1>6. CASE UNCHANGED advisorVars
  <2>1. UNCHANGED searchVars /\ UNCHANGED <<said, turn, found>>
    BY <1>6 DEF advisorVars
  <2>2. SearchInv' /\ visit'.query = visit.query
    BY <2>1, SearchSteps DEF AdvisorInv, searchVars
  <2> QED
    BY <1>4, <2>1, <2>2
<1> QED
  BY <1>1, <1>2, <1>3, <1>5, <1>6 DEF AdvisorNext

-----------------------------------------------------------------------------
\* A search of the assistant keeps to the limit of each kind the customer named last, unless the
\* model gave its own (enrichSearchToolArgs, extractBudgetFromConversation).
THEOREM SearchesKeepLimits == AdvisorSpec => []LastLimitHolds
<1>1. AdvisorInv => LastLimitHolds
  BY DEF AdvisorInv, LimitsInv, AllRead, SameLimits, KeepsLimits, LastLimitHolds, Is
<1> QED
  BY <1>1, AdvisorStarts, AdvisorSteps, PTL DEF AdvisorSpec

\* The cards of a turn show what its searches found last, each product once, and none is left out
\* before there are MaxCards of them (mergeProductResults).
THEOREM CardsShowTheLatest == AdvisorSpec => []CardsAreTheLatest
<1>1. AdvisorInv => CardsAreTheLatest
  <2> SUFFICES ASSUME AdvisorInv PROVE CardsAreTheLatest
    OBVIOUS
  <2> DEFINE cards == turn.cards
  <2>1. CardsOK(cards, found)
    BY DEF AdvisorInv
  <2>2. DOMAIN cards = 1..Len(cards)
    BY <2>1, LenProperties, ElementOfSeq DEF CardsOK, IsSeq
  <2>3. {cards[i].id : i \in DOMAIN cards} = IdsOf(cards) /\ Cardinality(IdsOf(cards)) = Len(cards)
    BY <2>1, <2>2, CountOfIds DEF CardsOK, IdsOf
  <2> QED
    BY <2>1, <2>2, <2>3 DEF CardsOK, CardsAreTheLatest
<1> QED
  BY <1>1, AdvisorStarts, AdvisorSteps, PTL DEF AdvisorSpec

\* What the assistant's searches show was on sale while they ran, too.
THEOREM AdviceIsOnSale == AdvisorSpec => []ShownWasOnSale
<1>1. AdvisorInv => ShownWasOnSale
  <2> SUFFICES ASSUME AdvisorInv PROVE ShownWasOnSale
    OBVIOUS
  <2>1. IsSeq(visit.items) /\ IdsOf(visit.items) \subseteq onSale
    BY DEF AdvisorInv, SearchInv, Shape, SaleInv
  <2>2. DOMAIN visit.items = 1..Len(visit.items)
    BY <2>1, LenProperties, ElementOfSeq DEF IsSeq
  <2> QED
    BY <2>1, <2>2 DEF ShownWasOnSale, IdsOf
<1> QED
  BY <1>1, AdvisorStarts, AdvisorSteps, PTL DEF AdvisorSpec
===============================================================================
