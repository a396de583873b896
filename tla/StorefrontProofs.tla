---------------------------- MODULE StorefrontProofs ----------------------------
(***************************************************************************)
(* Proofs about five components of the storefront.  Assistant: its types,  *)
(* that stored answers are whole, and that a page whose turns ran smoothly *)
(* shows what its conversation holds.  Knowledge: that chunkText keeps     *)
(* every character of any text in chunks of at most MaxChars, and that a   *)
(* READY document is whole.  Pricing: that the numbers of a quote explain  *)
(* each other.  Cart: that the ACTIVE carts hold what their owners are     *)
(* owed.  Checkout: that an order has its reservations, and that a request *)
(* which reads its record after an order leads to no other.  chunkText and *)
(* the sums are loops; what they compute is shown by induction, stated as  *)
(* "the numbers for which it fails have a least one".                      *)
(***************************************************************************)
EXTENDS Assistant, Knowledge, Pricing, Cart, Checkout, FiniteSetTheorems, SequenceTheorems,
        WellFoundedInduction, TLAPS
-----------------------------------------------------------------------------
(***************************************************************************)
(* Induction over the numbers, as the least one for which a property fails.*)
(***************************************************************************)
LEMMA LeastNumber ==
  ASSUME NEW S, S \subseteq Nat, S # {}
  PROVE  \E n \in S : \A m \in S : n <= m
<1> DEFINE R == OpToRel(<, Nat)
<1>1. IsWellFoundedOn(R, Nat)
  BY NatLessThanWellFounded
<1>2. \E n \in S : \A m \in S : <<m, n>> \notin R
  <2> HIDE DEF R
  <2> QED
    BY <1>1, WFMin, Zenon
<1>3. PICK n \in S : \A m \in S : <<m, n>> \notin R
  BY <1>2
<1>4. \A m \in S : ~(m < n)
  BY <1>3 DEF OpToRel
<1> QED
  BY <1>4

LEMMA Induction ==
  ASSUME NEW S, 0 \in S, \A n \in Nat : n \in S => n + 1 \in S
  PROVE  Nat \subseteq S
<1> DEFINE T == {n \in Nat : n \notin S}
<1> SUFFICES ASSUME T # {} PROVE FALSE
  OBVIOUS
<1>1. PICK n \in T : \A m \in T : n <= m
  BY LeastNumber
<1>2. n # 0 /\ n - 1 \in Nat /\ n - 1 \notin T
  BY <1>1
<1> QED
  BY <1>2

IsRun(f, N, A, base, step) ==
  f \in [0..N -> A] /\ f[0] = base /\ \A n \in 1..N : f[n] = step[n][f[n - 1]]

\* A loop over 1..N whose body is the function step has a history.
LEMMA LoopExists ==
  ASSUME NEW N \in Nat, NEW A, NEW base \in A, NEW step \in [1..N -> [A -> A]]
  PROVE  \E f : IsRun(f, N, A, base, step)
<1> DEFINE Run(f, n) == f \in [0..n -> A] /\ f[0] = base /\ \A k \in 1..n : f[k] = step[k][f[k - 1]]
           S == {n \in Nat : n > N \/ \E f : Run(f, n)}
<1>1. 0 \in S
  <2> DEFINE f == [n \in 0..0 |-> base]
  <2>1. Run(f, 0)
    OBVIOUS
  <2> QED
    BY <2>1
<1>2. ASSUME NEW n \in Nat, n \in S
      PROVE  n + 1 \in S
  <2>1. CASE n + 1 > N
    BY <2>1
  <2>2. CASE ~(n + 1 > N)
    <3>1. PICK f : Run(f, n)
      BY <1>2, <2>2
    <3>2. f[n] \in A /\ n + 1 \in 1..N
      BY <2>2, <3>1
    <3>3. step[n + 1][f[n]] \in A
      BY <3>2
    <3> DEFINE g == [k \in 0..(n + 1) |-> IF k = n + 1 THEN step[n + 1][f[n]] ELSE f[k]]
    <3>4. g \in [0..(n + 1) -> A]
      BY <3>1, <3>3
    <3>5. \A k \in 0..n : g[k] = f[k]
      OBVIOUS
    <3>6. g[n + 1] = step[n + 1][g[n]]
      <4>1. g[n] = f[n]
        BY <3>5
      <4>2. g[n + 1] = step[n + 1][f[n]]
        OBVIOUS
      <4> QED
        BY <4>1, <4>2
    <3>7. \A k \in 1..(n + 1) : g[k] = step[k][g[k - 1]]
      <4> HIDE DEF g
      <4> SUFFICES ASSUME NEW k \in 1..(n + 1) PROVE g[k] = step[k][g[k - 1]]
        OBVIOUS
      <4>1. CASE k = n + 1
        BY <3>6, <4>1
      <4>2. CASE k # n + 1
        BY <3>1, <3>5, <4>2
      <4> QED
        BY <4>1, <4>2
    <3>8. Run(g, n + 1)
      <4> HIDE DEF g
      <4> QED
        BY <3>1, <3>4, <3>5, <3>7
    <3>9. \E h : Run(h, n + 1)
      <4> HIDE DEF g, Run
      <4> QED
        BY <3>8
    <3> QED
      BY <3>9
  <2> QED
    BY <2>1, <2>2
<1>3. N \in S
  <2> HIDE DEF S
  <2> QED
    BY <1>1, <1>2, Induction
<1> QED
  BY <1>3 DEF IsRun

-----------------------------------------------------------------------------
(***************************************************************************)
(* chunkText, for any text and limits.                                     *)
(***************************************************************************)
ChunkLimits == MaxChars \in Nat /\ OverlapChars \in Nat /\ OverlapChars < MaxChars

Characters == Nat \X Nat
Pieces == Seq(Seq(Characters))
\* Chunks as they may be stored, and what they hold.
WellSized(cs) == cs \in Pieces /\ \A k \in 1..Len(cs) : Len(cs[k]) \in 1..MaxChars
Content(cs) == UNION {Range(cs[k]) : k \in 1..Len(cs)}

Loops ==
  {a \in [chunks : Pieces, buffer : Seq(Characters)] :
     WellSized(a.chunks) /\ Len(a.buffer) <= MaxChars}
Held(a) == Content(a.chunks) \cup Range(a.buffer)

LEMMA RangeElements ==
  ASSUME NEW S, NEW s \in Seq(S)
  PROVE  /\ \A i \in 1..Len(s) : s[i] \in Range(s)
         /\ \A x \in Range(s) : \E i \in 1..Len(s) : x = s[i]
  BY LenProperties DEF Range

LEMMA AppendChunk ==
  ASSUME NEW cs, WellSized(cs), NEW b \in Seq(Characters), Len(b) \in 1..MaxChars
  PROVE  /\ WellSized(Append(cs, b))
         /\ Content(cs) \cup Range(b) \subseteq Content(Append(cs, b))
<1>1. /\ Append(cs, b) \in Pieces /\ Len(Append(cs, b)) = Len(cs) + 1 /\ Len(cs) \in Nat
      /\ \A k \in 1..Len(cs) : Append(cs, b)[k] = cs[k]
      /\ Append(cs, b)[Len(cs) + 1] = b
  BY AppendProperties, LenProperties DEF WellSized, Pieces
<1>2. WellSized(Append(cs, b))
  BY <1>1 DEF WellSized
<1>3. Content(cs) \subseteq Content(Append(cs, b))
  BY <1>1 DEF Content
<1>4. Range(b) \subseteq Content(Append(cs, b))
  BY <1>1 DEF Content
<1> QED
  BY <1>2, <1>3, <1>4

LEMMA ConcatChunks ==
  ASSUME NEW cs, WellSized(cs), NEW ds, WellSized(ds)
  PROVE  /\ WellSized(cs \o ds)
         /\ Content(cs) \cup Content(ds) \subseteq Content(cs \o ds)
<1>1. /\ cs \o ds \in Pieces /\ Len(cs \o ds) = Len(cs) + Len(ds) /\ Len(cs) \in Nat /\ Len(ds) \in Nat
      /\ \A k \in 1..Len(cs) + Len(ds) : (cs \o ds)[k] = IF k <= Len(cs) THEN cs[k] ELSE ds[k - Len(cs)]
  BY ConcatProperties, LenProperties DEF WellSized, Pieces
<1>2. WellSized(cs \o ds)
  BY <1>1 DEF WellSized
<1>3. \A k \in 1..Len(cs) : k \in 1..Len(cs \o ds) /\ (cs \o ds)[k] = cs[k]
  BY <1>1
<1>4. \A k \in 1..Len(ds) : k + Len(cs) \in 1..Len(cs \o ds) /\ (cs \o ds)[k + Len(cs)] = ds[k]
  BY <1>1
<1>5. Content(cs) \subseteq Content(cs \o ds)
  BY <1>3 DEF Content
<1>6. Content(ds) \subseteq Content(cs \o ds)
  BY <1>4 DEF Content
<1> QED
  BY <1>2, <1>5, <1>6

LEMMA FlushedHolds ==
  ASSUME NEW a \in Loops
  PROVE  WellSized(Flushed(a)) /\ Held(a) \subseteq Content(Flushed(a))
<1>1. CASE a.buffer = <<>>
  <2>1. Range(a.buffer) = {}
    BY <1>1 DEF Range
  <2> QED
    BY <1>1, <2>1 DEF Flushed, Held, Loops
<1>2. CASE a.buffer # <<>>
  <2>1. Len(a.buffer) \in 1..MaxChars
    BY <1>2, EmptySeq, LenProperties DEF Loops
  <2> QED
    BY <1>2, <2>1, AppendChunk DEF Flushed, Held, Loops
<1> QED
  BY <1>1, <1>2

\* Division, for a slice's number.
LEMMA DivBounds ==
  ASSUME NEW a \in Nat, NEW b \in Nat \ {0}
  PROVE  a \div b \in Nat /\ (a \div b) * b <= a /\ a < (a \div b) * b + b
  OBVIOUS

LEMMA DivLeast ==
  ASSUME NEW a \in Nat, NEW b \in Nat \ {0}, NEW q \in Nat, q * b <= a
  PROVE  q <= a \div b
<1>1. a \div b \in Nat /\ a < (a \div b) * b + b
  BY DivBounds
<1> DEFINE d == a \div b
<1> HIDE DEF d
<1>2. d \in Nat /\ a < d * b + b
  BY <1>1 DEF d
<1>3. ASSUME q > d PROVE FALSE
  <2>1. q - (d + 1) \in Nat
    BY <1>2, <1>3
  <2>2. (q - (d + 1)) * b >= 0
    BY <2>1
  <2>3. (q - (d + 1)) * b = q * b - (d * b + b)
    BY <1>2
  <2> QED
    BY <1>2, <2>2, <2>3
<1> QED
  BY <1>2, <1>3 DEF d

LEMMA TimesMonotone ==
  ASSUME NEW a \in Nat, NEW b \in Nat, NEW c \in Nat, a <= b
  PROVE  a * c \in Nat /\ a * c <= b * c
<1>1. b - a \in Nat /\ (b - a) * c >= 0
  OBVIOUS
<1>2. (b - a) * c = b * c - a * c
  OBVIOUS
<1> QED
  BY <1>1, <1>2

LEMMA SlicesHold ==
  ASSUME ChunkLimits, NEW p \in Seq(Characters)
  PROVE  WellSized(Slices(p)) /\ Range(p) \subseteq Content(Slices(p))
<1> PICK n, w : n = Len(p) /\ w = Stride
  OBVIOUS
<1>0. n \in Nat /\ w \in Nat \ {0} /\ w <= MaxChars /\ MaxChars \in Nat
  BY LenProperties DEF ChunkLimits, Stride
<1> PICK K : K = (n + w - 1) \div w
  OBVIOUS
<1> DEFINE last(k) == Min({n, (k - 1) * w + MaxChars})
<1>1. Slices(p) = [k \in 1..K |-> SubSeq(p, (k - 1) * w + 1, last(k))]
  BY DEF Slices
<1>2. K \in Nat /\ K * w <= n + w - 1
  BY <1>0, DivBounds
<1>3. ASSUME NEW k \in 1..K
      PROVE  /\ (k - 1) * w \in Nat /\ (k - 1) * w < n
             /\ last(k) \in Int /\ (k - 1) * w < last(k) /\ last(k) <= n
             /\ last(k) <= (k - 1) * w + MaxChars
             /\ last(k) = n \/ last(k) = (k - 1) * w + MaxChars
  <2>1. k * w <= K * w /\ (k - 1) * w \in Nat
    BY <1>0, <1>2, TimesMonotone
  <2>2. (k - 1) * w = k * w - w
    BY <1>0
  <2>3. (k - 1) * w < n
    BY <1>0, <1>2, <2>1, <2>2
  <2> PICK d : d = (k - 1) * w
    OBVIOUS
  <2>4. d \in Nat /\ d < n
    BY <2>1, <2>3
  <2>5. /\ Min({n, d + MaxChars}) \in {n, d + MaxChars}
        /\ Min({n, d + MaxChars}) <= n /\ Min({n, d + MaxChars}) <= d + MaxChars
    BY <1>0, <2>4 DEF Min
  <2>6. d < d + MaxChars
    BY <1>0, <2>4
  <2> QED
    BY <1>0, <2>4, <2>5, <2>6
<1> HIDE DEF last
<1>4. ASSUME NEW k \in 1..K
      PROVE  /\ Slices(p)[k] \in Seq(Characters)
             /\ Len(Slices(p)[k]) \in 1..MaxChars
             /\ Len(Slices(p)[k]) = last(k) - (k - 1) * w
             /\ \A j \in 1..Len(Slices(p)[k]) : Slices(p)[k][j] = p[(k - 1) * w + j]
  <2> PICK d : d = (k - 1) * w
    OBVIOUS
  <2>1. d \in Nat /\ d < last(k) /\ last(k) \in Int /\ last(k) <= n /\ last(k) <= d + MaxChars
    BY <1>3
  <2>2. \A i \in (d + 1)..last(k) : p[i] \in Characters
    BY <2>1, ElementOfSeq
  <2>3. Slices(p)[k] = SubSeq(p, d + 1, last(k))
    BY <1>1
  <2>4. d + 1 \in Int
    BY <2>1
  <2>5. /\ SubSeq(p, d + 1, last(k)) \in Seq(Characters)
        /\ Len(SubSeq(p, d + 1, last(k))) = last(k) - (d + 1) + 1
        /\ \A i \in 1..(last(k) - (d + 1) + 1) : SubSeq(p, d + 1, last(k))[i] = p[(d + 1) + i - 1]
    BY <2>1, <2>2, <2>4, SubSeqProperties, SMTT(30)
  <2>6. \A i \in 1..(last(k) - d) : Slices(p)[k][i] = p[d + i]
    <3> SUFFICES ASSUME NEW i \in 1..(last(k) - d) PROVE Slices(p)[k][i] = p[d + i]
      OBVIOUS
    <3>1. i \in 1..(last(k) - (d + 1) + 1) /\ (d + 1) + i - 1 = d + i
      BY <2>1
    <3> QED
      BY <2>3, <2>5, <3>1
  <2>7. Len(Slices(p)[k]) = last(k) - d /\ last(k) - d \in 1..MaxChars
    <3>1. last(k) - (d + 1) + 1 = last(k) - d /\ last(k) - d \in 1..MaxChars
      BY <1>0, <2>1
    <3> QED
      BY <2>3, <2>5, <3>1
  <2>8. Slices(p)[k] \in Seq(Characters)
    BY <2>3, <2>5
  <2> QED
    BY <2>6, <2>7, <2>8
<1>5. WellSized(Slices(p))
  <2>1. \A k \in 1..K : SubSeq(p, (k - 1) * w + 1, last(k)) \in Seq(Characters)
    BY <1>1, <1>4, ZenonT(40)
  <2>2. Slices(p) \in [1..K -> Seq(Characters)]
    BY <1>1, <2>1, Zenon
  <2>3. Slices(p) \in Pieces /\ Len(Slices(p)) = K
    BY <1>2, <2>2 DEF Pieces
  <2> QED
    BY <1>4, <2>3 DEF WellSized
<1>6. ASSUME NEW i \in 1..n
      PROVE  \E k \in 1..K : \E j \in 1..Len(Slices(p)[k]) : Slices(p)[k][j] = p[i]
  <2> PICK q : q = (i - 1) \div w
    OBVIOUS
  <2>1. q \in Nat /\ q * w <= i - 1 /\ i - 1 < q * w + w
    BY <1>0, DivBounds
  <2>2. (q + 1) * w = q * w + w
    BY <1>0, <2>1
  <2>3. (q + 1) * w <= n + w - 1
    BY <1>0, <2>1, <2>2
  <2>4. n + w - 1 \in Nat /\ q + 1 \in Nat
    BY <1>0, <2>1
  <2>5. q + 1 \in 1..K
    <3>1. q + 1 <= (n + w - 1) \div w
      BY <1>0, <2>3, <2>4, DivLeast
    <3> QED
      BY <1>2, <2>1, <3>1
  <2> PICK d : d = q * w
    OBVIOUS
  <2>6. ((q + 1) - 1) * w = d /\ d \in Nat /\ d <= i - 1 /\ i - 1 < d + w
    BY <1>0, <2>1
  <2>7. last(q + 1) = n \/ last(q + 1) = d + MaxChars
    BY <1>3, <2>5, <2>6
  <2>8. i - d \in 1..(last(q + 1) - d)
    BY <1>0, <2>6, <2>7
  <2>9. Slices(p)[q + 1][i - d] = p[d + (i - d)] /\ i - d \in 1..Len(Slices(p)[q + 1])
    <3>1. /\ Len(Slices(p)[q + 1]) = last(q + 1) - ((q + 1) - 1) * w
          /\ \A j \in 1..Len(Slices(p)[q + 1]) : Slices(p)[q + 1][j] = p[((q + 1) - 1) * w + j]
      BY <1>4, <2>5
    <3>2. /\ Len(Slices(p)[q + 1]) = last(q + 1) - d
          /\ \A j \in 1..Len(Slices(p)[q + 1]) : Slices(p)[q + 1][j] = p[d + j]
      BY <2>6, <3>1, Zenon
    <3> QED
      BY <2>8, <3>2
  <2>10. d + (i - d) = i
    BY <2>6
  <2> QED
    BY <2>5, <2>9, <2>10
<1>7. Len(Slices(p)) = K
  BY <1>1, <1>2
<1>8. Range(p) \subseteq Content(Slices(p))
  <2> SUFFICES ASSUME NEW x \in Range(p) PROVE x \in Content(Slices(p))
    OBVIOUS
  <2>1. PICK i \in 1..n : x = p[i]
    BY RangeElements
  <2>2. PICK k \in 1..K : \E j \in 1..Len(Slices(p)[k]) : Slices(p)[k][j] = p[i]
    BY <1>6
  <2>3. x \in Range(Slices(p)[k])
    BY <1>4, <2>1, <2>2, RangeElements
  <2> QED
    BY <1>7, <2>2, <2>3 DEF Content
<1> QED
  BY <1>5, <1>8

\* One paragraph more: nothing that was there is lost, and the paragraph is there.
LEMMA AddHolds ==
  ASSUME ChunkLimits, NEW a \in Loops, NEW p \in Seq(Characters)
  PROVE  /\ AddParagraph(a, p) \in Loops
         /\ Held(a) \cup Range(p) \subseteq Held(AddParagraph(a, p))
<1> DEFINE b == AddParagraph(a, p)
           joined == a.buffer \o Break \o p
           candidate == IF a.buffer = <<>> THEN p ELSE joined
<1>0. /\ a.chunks \in Pieces /\ a.buffer \in Seq(Characters) /\ WellSized(a.chunks)
      /\ Len(a.buffer) <= MaxChars /\ Len(p) \in Nat /\ MaxChars \in Nat
  BY LenProperties DEF Loops, ChunkLimits
<1>1. WellSized(Flushed(a)) /\ Held(a) \subseteq Content(Flushed(a))
  BY FlushedHolds
<1>2. <<>> \in Seq(Characters) /\ Len(<<>>) = 0 /\ Range(<<>>) = {}
  BY DEF Range
<1>3. CASE Len(p) > MaxChars
  <2>1. WellSized(Slices(p)) /\ Range(p) \subseteq Content(Slices(p))
    BY SlicesHold
  <2>2. /\ WellSized(Flushed(a) \o Slices(p))
        /\ Content(Flushed(a)) \cup Content(Slices(p)) \subseteq Content(Flushed(a) \o Slices(p))
    BY <1>1, <2>1, ConcatChunks
  <2>3. b = [chunks |-> Flushed(a) \o Slices(p), buffer |-> <<>>]
    BY <1>3 DEF AddParagraph
  <2>4. b \in Loops
    <3>1. Flushed(a) \o Slices(p) \in Pieces
      BY <2>2 DEF WellSized
    <3> QED
      <4> HIDE DEF b
      <4>1. /\ b \in [chunks : Pieces, buffer : Seq(Characters)]
            /\ b.chunks = Flushed(a) \o Slices(p) /\ b.buffer = <<>>
        BY <1>2, <2>3, <3>1
      <4> QED
        <5>1. WellSized(b.chunks)
          BY <2>2, <4>1
        <5>2. Len(b.buffer) <= MaxChars
          BY <1>0, <1>2, <4>1
        <5> QED
          BY <4>1, <5>1, <5>2 DEF Loops
  <2> QED
    BY <1>1, <2>1, <2>2, <2>3, <2>4 DEF Held
<1>4. CASE ~(Len(p) > MaxChars) /\ Len(candidate) > MaxChars
  <2>1. b = [chunks |-> Flushed(a), buffer |-> p]
    BY <1>4 DEF AddParagraph
  <2>2. b \in Loops
    BY <1>0, <1>1, <1>4, <2>1 DEF Loops, WellSized
  <2> QED
    BY <1>1, <2>1, <2>2 DEF Held
<1>5. CASE ~(Len(p) > MaxChars) /\ ~(Len(candidate) > MaxChars)
  <2>1. Break \in Seq(Characters)
    BY DEF Break, Characters
  <2>2. joined \in Seq(Characters) /\ Range(a.buffer) \cup Range(p) \subseteq Range(joined)
    <3>1. a.buffer \o Break \in Seq(Characters)
          /\ Range(a.buffer \o Break) = Range(a.buffer) \cup Range(Break)
      BY <1>0, <2>1, ConcatProperties, RangeConcatenation
    <3>2. (a.buffer \o Break) \o p \in Seq(Characters)
          /\ Range((a.buffer \o Break) \o p) = Range(a.buffer \o Break) \cup Range(p)
      <4> PICK ab : ab = a.buffer \o Break
        OBVIOUS
      <4>1. ab \in Seq(Characters) /\ p \in Seq(Characters)
        BY <3>1
      <4>2. ab \o p \in Seq(Characters)
        BY <4>1, ConcatProperties
      <4>3. Range(ab \o p) = Range(ab) \cup Range(p)
        BY <4>1, RangeConcatenation
      <4> QED
        BY <4>2, <4>3
    <3> QED
      BY <3>1, <3>2
  <2> HIDE DEF joined
  <2>3. candidate \in Seq(Characters) /\ Range(a.buffer) \cup Range(p) \subseteq Range(candidate)
    BY <1>2, <2>2
  <2> HIDE DEF candidate
  <2>4. b = [a EXCEPT !.buffer = candidate]
    BY <1>5 DEF AddParagraph, candidate, joined
  <2>5. b.chunks = a.chunks /\ b.buffer = candidate /\ b \in [chunks : Pieces, buffer : Seq(Characters)]
    BY <1>0, <2>3, <2>4 DEF Loops
  <2>6. Len(candidate) \in Nat
    BY <2>3, LenProperties
  <2>7. b \in Loops
    BY <1>0, <1>5, <2>5, <2>6 DEF Loops
  <2> QED
    BY <2>3, <2>5, <2>7 DEF Held
<1> QED
  BY <1>3, <1>4, <1>5

\* chunkText loses no character and makes no chunk that is empty or too long.
LEMMA ChunkedHolds ==
  ASSUME ChunkLimits, NEW ps \in Seq(Seq(Characters))
  PROVE  /\ WellSized(Chunked(ps))
         /\ \A m \in 1..Len(ps) : Range(ps[m]) \subseteq Content(Chunked(ps))
<1> DEFINE base == [chunks |-> <<>>, buffer |-> <<>>]
           step == [n \in 1..Len(ps) |-> [a \in Loops |-> AddParagraph(a, ps[n])]]
           Acc == CHOOSE acc : acc = [n \in 0..Len(ps) |->
                     IF n = 0 THEN base ELSE AddParagraph(acc[n - 1], ps[n])]
<1>0. Len(ps) \in Nat /\ \A n \in 1..Len(ps) : ps[n] \in Seq(Characters)
  BY LenProperties, ElementOfSeq
<1>1. base \in Loops
  <2>1. <<>> \in Pieces /\ <<>> \in Seq(Characters) /\ Len(<<>>) = 0
    BY DEF Pieces
  <2>2. WellSized(<<>>)
    BY <2>1 DEF WellSized
  <2> QED
    BY <2>1, <2>2 DEF Loops, ChunkLimits
<1>2. step \in [1..Len(ps) -> [Loops -> Loops]]
  BY <1>0, AddHolds
<1>3. \E f : f = [n \in 0..Len(ps) |-> IF n = 0 THEN base ELSE AddParagraph(f[n - 1], ps[n])]
  <2> HIDE DEF base, step
  <2> PICK N : N = Len(ps)
    OBVIOUS
  <2>1. N \in Nat /\ step \in [1..N -> [Loops -> Loops]]
    BY <1>0, <1>2
  <2>2. PICK f : IsRun(f, N, Loops, base, step)
    BY <1>1, <2>1, LoopExists
  <2>3. f \in [0..N -> Loops] /\ f[0] = base /\ \A n \in 1..N : f[n] = step[n][f[n - 1]]
    BY <2>2 DEF IsRun
  <2>4. \A n \in 1..N : f[n] = AddParagraph(f[n - 1], ps[n])
    <3> SUFFICES ASSUME NEW n \in 1..N
                 PROVE  f[n] = AddParagraph(f[n - 1], ps[n])
      OBVIOUS
    <3>1. n - 1 \in 0..N
      BY <2>1
    <3>2. f[n - 1] \in Loops /\ n \in 1..Len(ps)
      BY <2>3, <3>1
    <3>3. step[n][f[n - 1]] = AddParagraph(f[n - 1], ps[n])
      BY <3>2 DEF step
    <3> QED
      BY <2>3, <3>3
  <2>5. \A n \in 0..N : f[n] = IF n = 0 THEN base ELSE AddParagraph(f[n - 1], ps[n])
    BY <2>1, <2>3, <2>4
  <2>6. f = [n \in 0..N |-> IF n = 0 THEN base ELSE AddParagraph(f[n - 1], ps[n])]
    BY <2>3, <2>5
  <2> QED
    BY <2>6
<1>5. Acc = [n \in 0..Len(ps) |-> IF n = 0 THEN base ELSE AddParagraph(Acc[n - 1], ps[n])]
  <2> HIDE DEF base
  <2> QED
    BY <1>3
<1>6. Chunked(ps) = Flushed(Acc[Len(ps)])
  BY DEF Chunked
<1> HIDE DEF Acc, base
<1> DEFINE S == {n \in Nat : n <= Len(ps) =>
                   /\ Acc[n] \in Loops
                   /\ \A m \in 1..n : Range(ps[m]) \subseteq Held(Acc[n])}
<1>7. 0 \in S
  BY <1>0, <1>1, <1>5
<1>8. ASSUME NEW n \in Nat, n \in S
      PROVE  n + 1 \in S
  <2> SUFFICES ASSUME n + 1 <= Len(ps)
               PROVE  /\ Acc[n + 1] \in Loops
                      /\ \A m \in 1..(n + 1) : Range(ps[m]) \subseteq Held(Acc[n + 1])
    OBVIOUS
  <2>1. Acc[n] \in Loops /\ \A m \in 1..n : Range(ps[m]) \subseteq Held(Acc[n])
    BY <1>0, <1>8
  <2>3. Acc[n + 1] = AddParagraph(Acc[n], ps[n + 1])
    BY <1>0, <1>5
  <2>4. ps[n + 1] \in Seq(Characters)
    BY <1>0
  <2>5. /\ Acc[n + 1] \in Loops
        /\ Held(Acc[n]) \cup Range(ps[n + 1]) \subseteq Held(Acc[n + 1])
    BY <2>1, <2>3, <2>4, AddHolds
  <2> QED
    BY <2>1, <2>5
<1>9. Len(ps) \in S
  <2> HIDE DEF S
  <2> QED
    BY <1>0, <1>7, <1>8, Induction
<1>10. Acc[Len(ps)] \in Loops /\ \A m \in 1..Len(ps) : Range(ps[m]) \subseteq Held(Acc[Len(ps)])
  BY <1>0, <1>9
<1> QED
  BY <1>6, <1>10, FlushedHolds

-----------------------------------------------------------------------------
(***************************************************************************)
(* The ingest, for any documents, deliveries, failures and crashes.        *)
(***************************************************************************)
Parts == Chunked(text)
\* The rows of the first n parts, as delivery d writes them.
RowsOf(d, n) == {[ordinal |-> k, content |-> Parts[k + 1], by |-> d] : k \in 0..(n - 1)}

\* What is left to a delivery is the end of what it began with.
IsEnd(s, ps) ==
  Len(s) <= Len(ps) /\ \A i \in 1..Len(s) : s[i] = ps[(Len(ps) - Len(s)) + i]
Follows(s, ps) ==
  /\ Len(ps) - Len(s) \in Nat /\ Len(ps) - Len(Tail(s)) = (Len(ps) - Len(s)) + 1
  /\ s[1] = ps[(Len(ps) - Len(s)) + 1]
Left(d) == ingest[d].parts \in Seq(Seq(Characters)) /\ IsEnd(ingest[d].parts, Parts)

\* While deliveries have not overlapped, the one that runs has written its first parts and nothing
\* else is there; after the last of them the document is READY.
Alone ==
  /\ \A d, e \in Ingests : Busy(d) /\ Busy(e) => d = e
  /\ \A d \in Ingests : Busy(d) => document = "PROCESSING"
  /\ \A d \in Ingests : At(d, "create") =>
       Left(d) /\ chunks = RowsOf(d, Ordinal(d)) /\ embeddings = RowsOf(d, Ordinal(d))
  /\ \A d \in Ingests : At(d, "embed") =>
       /\ Left(d) /\ ingest[d].parts # <<>>
       /\ chunks = RowsOf(d, Ordinal(d)) \cup {Row(d)} /\ embeddings = RowsOf(d, Ordinal(d))
  /\ document = "READY" =>
       \E d \in Ingests : chunks = RowsOf(d, Len(Parts)) /\ embeddings = RowsOf(d, Len(Parts))

IngestPcs == {"waiting", "clear", "create", "embed", "failed", "done"}
KnowledgeTyped == text \in Pieces /\ ingest \in [Ingests -> [pc : IngestPcs, parts : Pieces]]
KnowledgeInv == KnowledgeTyped /\ (~overlapped => Alone)

LEMMA PartsType ==
  ASSUME ChunkLimits, KnowledgeTyped
  PROVE  Parts \in Pieces /\ Len(Parts) \in Nat
  BY ChunkedHolds, LenProperties DEF KnowledgeTyped, Parts, Pieces, WellSized

LEMMA IsSeq ==
  ASSUME NEW S, NEW n \in Nat, NEW s \in [1..n -> S]
  PROVE  s \in Seq(S)
  BY SeqDef

\* A sequence that is the end of another: so is its tail.
LEMMA Ending ==
  ASSUME NEW S, NEW ps \in Seq(S), NEW s \in Seq(S), s # <<>>, IsEnd(s, ps)
  PROVE  Tail(s) \in Seq(S) /\ Follows(s, ps) /\ IsEnd(Tail(s), ps)
<1>1. /\ Tail(s) \in Seq(S) /\ Len(Tail(s)) = Len(s) - 1
      /\ \A i \in 1..Len(Tail(s)) : Tail(s)[i] = s[i + 1]
  BY HeadTailProperties
<1>2. Len(s) \in Nat /\ Len(ps) \in Nat /\ Len(s) # 0
  BY EmptySeq, LenProperties
<1>3. ASSUME NEW i \in 1..Len(Tail(s))
      PROVE  Tail(s)[i] = ps[(Len(ps) - Len(Tail(s))) + i]
  <2>1. i + 1 \in 1..Len(s) /\ (Len(ps) - Len(s)) + (i + 1) = (Len(ps) - Len(Tail(s))) + i
    BY <1>1, <1>2
  <2> QED
    BY <1>1, <2>1 DEF IsEnd
<1>4. s[1] = ps[(Len(ps) - Len(s)) + 1]
  BY <1>2 DEF IsEnd
<1> QED
  BY <1>1, <1>2, <1>3, <1>4 DEF IsEnd, Follows

LEMMA TextsType ==
  ASSUME NEW t \in Seq(Nat)
  PROVE  Paragraphs(t) \in Pieces
<1>1. DOMAIN t = 1..Len(t) /\ Len(t) \in Nat /\ \A p \in 1..Len(t) : t[p] \in Nat
  BY LenProperties, ElementOfSeq
<1>2. ASSUME NEW p \in 1..Len(t)
      PROVE  [i \in 1..t[p] |-> <<p, i>>] \in Seq(Characters)
  <2>1. t[p] \in Nat /\ p \in Nat
    BY <1>1
  <2>2. [i \in 1..t[p] |-> <<p, i>>] \in [1..t[p] -> Characters]
    BY <2>1 DEF Characters
  <2> QED
    BY <2>1, <2>2, IsSeq
<1>3. Paragraphs(t) \in [1..Len(t) -> Seq(Characters)]
  BY <1>1, <1>2 DEF Paragraphs
<1> QED
  BY <1>1, <1>3 DEF Pieces

LEMMA KnowledgeStart ==
  ASSUME Texts \subseteq Seq(Nat), KnowledgeInit
  PROVE  KnowledgeInv
<1>1. text \in Pieces
  BY TextsType DEF KnowledgeInit
<1>2. <<>> \in Pieces
  BY DEF Pieces
<1>3. ingest \in [Ingests -> [pc : IngestPcs, parts : Pieces]] /\ \A d \in Ingests : At(d, "waiting")
  BY <1>2 DEF KnowledgeInit, IngestPcs, At
<1>4. overlapped = FALSE /\ document = "none"
  BY DEF KnowledgeInit
<1>5. Alone
  BY <1>3, <1>4 DEF Alone, Busy, At
<1> QED
  BY <1>1, <1>3, <1>4, <1>5 DEF KnowledgeInv, KnowledgeTyped

LEMMA RowsGrow ==
  ASSUME NEW d \in Ingests, NEW n \in Nat
  PROVE  /\ RowsOf(d, 0) = {}
         /\ RowsOf(d, n + 1) = RowsOf(d, n) \cup {[ordinal |-> n, content |-> Parts[n + 1], by |-> d]}
<1>1. 0..(0 - 1) = {} /\ 0..((n + 1) - 1) = (0..(n - 1)) \cup {n}
  OBVIOUS
<1> QED
  BY <1>1 DEF RowsOf

LEMMA KnowledgeTypesStep ==
  ASSUME ChunkLimits, KnowledgeTyped, [KnowledgeNext]_knowledgeVars
  PROVE  KnowledgeTyped' /\ UNCHANGED text
<1>0. Parts \in Pieces
  BY PartsType
<1>1. UNCHANGED text
  BY DEF KnowledgeNext, knowledgeVars, Upload, Ingest, Begin, Clear, CreateChunk, Embed, Fail, End,
         Ready, Failed, Crash
<1>2. ASSUME NEW d \in Ingests, NEW pc \in IngestPcs, MoveTo(d, pc)
      PROVE  KnowledgeTyped'
  BY <1>1, <1>2 DEF KnowledgeTyped, MoveTo
<1>3. CASE UNCHANGED ingest
  BY <1>1, <1>3 DEF KnowledgeTyped
<1>4. ASSUME NEW d \in Ingests, Ingest(d)
      PROVE  KnowledgeTyped'
  <2>1. CASE Clear(d)
    BY <1>0, <1>1, <2>1 DEF Clear, KnowledgeTyped, IngestPcs, Parts
  <2>2. CASE Embed(d)
    <3>1. CASE ingest[d].parts = <<>>
      <4>1. Tail(ingest[d].parts) \in Pieces
        BY <3>1 DEF Pieces
      <4> QED
        BY <1>1, <2>2, <4>1 DEF Embed, KnowledgeTyped, IngestPcs
    <3>2. CASE ingest[d].parts # <<>>
      <4>1. Tail(ingest[d].parts) \in Pieces
        BY <3>2, HeadTailProperties DEF Pieces, KnowledgeTyped
      <4> QED
        BY <1>1, <2>2, <4>1 DEF Embed, KnowledgeTyped, IngestPcs
    <3> QED
      BY <3>1, <3>2
  <2>3. CASE ~Clear(d) /\ ~Embed(d)
    <3>1. \E pc \in IngestPcs : MoveTo(d, pc)
      BY <1>4, <2>3 DEF Ingest, Begin, CreateChunk, Fail, End, Ready, Failed, Crash, IngestPcs
    <3> QED
      BY <1>2, <3>1
  <2> QED
    BY <2>1, <2>2, <2>3
<1>5. UNCHANGED ingest \/ \E d \in Ingests : Ingest(d)
  BY DEF KnowledgeNext, knowledgeVars, Upload
<1> QED
  BY <1>1, <1>3, <1>4, <1>5

\* The delivery at hand moves, and is no longer at work on the rows: that the document is not READY
\* is enough.
LEMMA Leaves ==
  ASSUME KnowledgeTyped, KnowledgeTyped', Alone, NEW d \in Ingests, NEW pc \in {"clear", "failed", "done"},
         ingest' = [ingest EXCEPT ![d].pc = pc], \A e \in Ingests \ {d} : ~Busy(e),
         document' # "READY", pc \in {"clear", "failed"} => document' = "PROCESSING"
  PROVE  Alone'
<1>1. ingest'[d].pc = pc /\ \A e \in Ingests \ {d} : ingest'[e] = ingest[e]
  BY DEF KnowledgeTyped
<1>2. \A e \in Ingests : Busy(e)' => e = d /\ pc # "done"
  BY <1>1 DEF Busy
<1>3. \A e \in Ingests : ~At(e, "create")' /\ ~At(e, "embed")'
  BY <1>1, <1>2 DEF Busy, At
<1> QED
  BY <1>2, <1>3 DEF Alone

\* The steps of a delivery that is the only one that runs.
LEMMA OnlyDelivery ==
  ASSUME ChunkLimits, KnowledgeTyped, KnowledgeTyped', Alone, NEW d \in Ingests, Busy(d), UNCHANGED text,
         Clear(d) \/ CreateChunk(d) \/ Embed(d) \/ Fail(d) \/ Ready(d) \/ Failed(d) \/ Crash(d)
  PROVE  Alone'
<1>0. /\ document = "PROCESSING" /\ \A e \in Ingests \ {d} : ~Busy(e)
      /\ Parts \in Pieces /\ Len(Parts) \in Nat /\ Parts' = Parts
      /\ ingest \in [Ingests -> [pc : IngestPcs, parts : Pieces]]
      /\ ingest' \in [Ingests -> [pc : IngestPcs, parts : Pieces]]
  BY PartsType DEF Alone, KnowledgeTyped, Parts
<1>1. ASSUME NEW pc \in {"create", "embed"}, ingest'[d].pc = pc,
             \A e \in Ingests \ {d} : ingest'[e] = ingest[e], UNCHANGED document,
             Left(d)',
             pc = "create" => chunks' = RowsOf(d, Ordinal(d))' /\ embeddings' = RowsOf(d, Ordinal(d))',
             pc = "embed" => /\ ingest'[d].parts # <<>> /\ chunks' = (RowsOf(d, Ordinal(d)) \cup {Row(d)})'
                             /\ embeddings' = RowsOf(d, Ordinal(d))'
      PROVE  Alone'
  <2>1. \A e \in Ingests : Busy(e)' => e = d
    BY <1>0, <1>1 DEF Busy
  <2>2. \A e \in Ingests : At(e, "create")' \/ At(e, "embed")' => e = d
    BY <2>1 DEF Busy, At
  <2>3. document' = "PROCESSING"
    BY <1>0, <1>1
  <2>4. \A e \in Ingests : At(e, "create")' =>
          Left(e)' /\ chunks' = RowsOf(e, Ordinal(e))' /\ embeddings' = RowsOf(e, Ordinal(e))'
    BY <1>1, <2>2 DEF At
  <2>5. \A e \in Ingests : At(e, "embed")' =>
          /\ Left(e)' /\ ingest'[e].parts # <<>>
          /\ chunks' = (RowsOf(e, Ordinal(e)) \cup {Row(e)})' /\ embeddings' = RowsOf(e, Ordinal(e))'
    BY <1>1, <2>2 DEF At
  <2> QED
    BY <2>1, <2>3, <2>4, <2>5 DEF Alone
<1>2. CASE Clear(d)
  <2>1. ingest'[d] = [pc |-> "create", parts |-> Parts] /\ \A e \in Ingests \ {d} : ingest'[e] = ingest[e]
    BY <1>0, <1>2 DEF Clear, Parts
  <2>2. Ordinal(d)' = 0
    BY <1>0, <2>1 DEF Ordinal, Parts
  <2>3. Left(d)'
    <3>1. IsEnd(Parts, Parts)
      BY <1>0 DEF IsEnd
    <3> QED
      BY <1>0, <2>1, <3>1 DEF Left, Pieces
  <2>4. RowsOf(d, Ordinal(d))' = {}
    BY <1>0, <2>2, RowsGrow DEF RowsOf
  <2> QED
    BY <1>1, <1>2, <2>1, <2>3, <2>4 DEF Clear
<1>3. CASE CreateChunk(d)
  <2>1. /\ At(d, "create") /\ ingest[d].parts # <<>> /\ UNCHANGED <<document, embeddings>>
        /\ Left(d) /\ chunks = RowsOf(d, Ordinal(d)) /\ embeddings = RowsOf(d, Ordinal(d))
    BY <1>3 DEF CreateChunk, Alone
  <2>2. CASE MoveTo(d, "failed")
    BY <1>0, <2>1, <2>2, Leaves DEF MoveTo
  <2>3. CASE chunks' = chunks \cup {Row(d)} /\ MoveTo(d, "embed")
    <3>1. /\ ingest'[d].pc = "embed" /\ ingest'[d].parts = ingest[d].parts
          /\ \A e \in Ingests \ {d} : ingest'[e] = ingest[e]
      BY <1>0, <2>3 DEF MoveTo
    <3>2. Ordinal(d)' = Ordinal(d) /\ Row(d)' = Row(d) /\ RowsOf(d, Ordinal(d))' = RowsOf(d, Ordinal(d))
      BY <1>0, <3>1 DEF Ordinal, Row, RowsOf, Parts
    <3>3. Left(d)'
      BY <1>0, <2>1, <3>1, <3>2 DEF Left
    <3> QED
      BY <1>1, <2>1, <2>3, <3>1, <3>2, <3>3
  <2> QED
    BY <1>3, <2>2, <2>3 DEF CreateChunk
<1>4. CASE Embed(d)
  <2>1. /\ At(d, "embed") /\ ingest[d].parts # <<>> /\ UNCHANGED <<document, chunks>>
        /\ embeddings' = embeddings \cup {Row(d)}
        /\ Left(d) /\ chunks = RowsOf(d, Ordinal(d)) \cup {Row(d)} /\ embeddings = RowsOf(d, Ordinal(d))
    BY <1>4 DEF Embed, Alone
  <2>2. /\ ingest'[d].pc = "create" /\ ingest'[d].parts = Tail(ingest[d].parts)
        /\ \A e \in Ingests \ {d} : ingest'[e] = ingest[e]
    BY <1>0, <1>4 DEF Embed
  <2>3. /\ ingest[d].parts \in Seq(Seq(Characters)) /\ Parts \in Seq(Seq(Characters))
        /\ IsEnd(ingest[d].parts, Parts) /\ Ordinal(d) = Len(Parts) - Len(ingest[d].parts)
    BY <1>0, <2>1 DEF Left, Ordinal, Parts, Pieces
  <2>4. /\ Ordinal(d) \in Nat /\ Ordinal(d) + 1 = Len(Parts) - Len(Tail(ingest[d].parts))
        /\ ingest[d].parts[1] = Parts[Ordinal(d) + 1]
    <3>1. Follows(ingest[d].parts, Parts)
      BY <2>1, <2>3, Ending
    <3> QED
      BY <2>3, <3>1 DEF Follows
  <2>5. Tail(ingest[d].parts) \in Seq(Seq(Characters)) /\ IsEnd(Tail(ingest[d].parts), Parts)
    BY <2>1, <2>3, Ending
  <2>6. Ordinal(d)' = Len(Parts) - Len(Tail(ingest[d].parts))
    BY <1>0, <2>2 DEF Ordinal, Parts
  <2>7. Left(d)'
    BY <1>0, <2>2, <2>5, <2>6 DEF Left
  <2>8. RowsOf(d, Ordinal(d) + 1) = RowsOf(d, Ordinal(d)) \cup {Row(d)}
    BY <2>4, RowsGrow DEF Row
  <2>9. RowsOf(d, Ordinal(d))' = RowsOf(d, Ordinal(d) + 1)
    BY <1>0, <2>4, <2>6 DEF RowsOf
  <2> QED
    BY <1>1, <2>1, <2>2, <2>7, <2>8, <2>9
<1>5. CASE Fail(d)
  BY <1>0, <1>5, Leaves DEF Fail, MoveTo
<1>6. CASE Failed(d)
  BY <1>0, <1>6, Leaves DEF Failed, End, MoveTo
<1>7. CASE Crash(d)
  BY <1>0, <1>7, Leaves DEF Crash, MoveTo
<1>8. CASE Ready(d)
  <2>1. /\ ingest[d].parts = <<>> /\ Left(d) /\ UNCHANGED <<chunks, embeddings>>
        /\ chunks = RowsOf(d, Ordinal(d)) /\ embeddings = RowsOf(d, Ordinal(d))
    BY <1>8 DEF Ready, End, Alone
  <2>2. Ordinal(d) = Len(Parts)
    BY <1>0, <2>1 DEF Ordinal, Parts
  <2>3. chunks' = RowsOf(d, Len(Parts))' /\ embeddings' = RowsOf(d, Len(Parts))'
    BY <1>0, <2>1, <2>2 DEF RowsOf
  <2>4. ingest'[d].pc = "done" /\ \A e \in Ingests \ {d} : ingest'[e] = ingest[e]
    BY <1>0, <1>8 DEF Ready, End, MoveTo
  <2>5. \A e \in Ingests : ~Busy(e)'
    BY <1>0, <2>4 DEF Busy
  <2>6. \A e \in Ingests : ~At(e, "create")' /\ ~At(e, "embed")'
    BY <2>5 DEF Busy, At
  <2> QED
    BY <2>3, <2>5, <2>6 DEF Alone
<1> QED
  BY <1>2, <1>3, <1>4, <1>5, <1>6, <1>7, <1>8

LEMMA KnowledgeStep ==
  ASSUME ChunkLimits, KnowledgeInv, [KnowledgeNext]_knowledgeVars
  PROVE  KnowledgeInv'
<1>1. KnowledgeTyped /\ KnowledgeTyped' /\ UNCHANGED text
  BY KnowledgeTypesStep DEF KnowledgeInv
<1> SUFFICES ASSUME ~overlapped' PROVE Alone'
  BY <1>1 DEF KnowledgeInv
<1>2. CASE Upload
  <2>1. Alone
    BY <1>2 DEF Upload, KnowledgeInv
  <2>2. \A d \in Ingests : ~Busy(d)
    BY <1>2, <2>1 DEF Upload, Alone
  <2> QED
    BY <1>2, <2>1, <2>2 DEF Upload, Alone, Busy, At
<1>3. ASSUME NEW d \in Ingests, Ingest(d)
      PROVE  Alone'
  <2>1. CASE Begin(d)
    <3>1. overlapped' = (overlapped \/ \E e \in Ingests : Busy(e))
      BY <2>1 DEF Begin
    <3>2. ~overlapped /\ \A e \in Ingests : ~Busy(e)
      BY <3>1, Zenon
    <3> QED
      BY <1>1, <2>1, <3>2, Leaves DEF Begin, MoveTo, KnowledgeInv
  <2>2. CASE ~Begin(d)
    <3>1. Busy(d) /\ ~overlapped
      BY <1>3, <2>2 DEF Ingest, Clear, CreateChunk, Embed, Fail, End, Ready, Failed, Crash, Busy, At
    <3> QED
      BY <1>1, <1>3, <2>2, <3>1, OnlyDelivery DEF Ingest, KnowledgeInv
  <2> QED
    BY <2>1, <2>2
<1>4. CASE UNCHANGED knowledgeVars
  <2>1. Alone
    BY <1>4 DEF knowledgeVars, KnowledgeInv
  <2>2. \A d \in Ingests : /\ Busy(d)' = Busy(d) /\ Left(d)' = Left(d) /\ Row(d)' = Row(d)
                            /\ At(d, "create")' = At(d, "create") /\ At(d, "embed")' = At(d, "embed")
    BY <1>4 DEF knowledgeVars, Busy, At, Left, Row, Ordinal, Parts
  <2>3. \A d \in Ingests : /\ RowsOf(d, Ordinal(d))' = RowsOf(d, Ordinal(d))
                            /\ RowsOf(d, Len(Parts))' = RowsOf(d, Len(Parts))
    BY <1>4 DEF knowledgeVars, RowsOf, Ordinal, Parts
  <2> QED
    BY <1>4, <2>1, <2>2, <2>3 DEF knowledgeVars, Alone
<1> QED
  BY <1>2, <1>3, <1>4 DEF KnowledgeNext

LEMMA ReadyRows ==
  ASSUME ChunkLimits, KnowledgeInv
  PROVE  ReadyIsWhole
<1> SUFFICES ASSUME document = "READY", ~overlapped
             PROVE  Whole
  BY DEF ReadyIsWhole
<1>1. PICK d \in Ingests : chunks = RowsOf(d, Len(Parts)) /\ embeddings = RowsOf(d, Len(Parts))
  BY DEF KnowledgeInv, Alone
<1>2. text \in Pieces
  BY DEF KnowledgeInv, KnowledgeTyped
<1>3. /\ WellSized(Parts) /\ Len(Parts) \in Nat
      /\ \A m \in 1..Len(text) : Range(text[m]) \subseteq Content(Parts)
  BY <1>2, ChunkedHolds, LenProperties DEF Parts, Pieces, WellSized
<1>4. DOMAIN text = 1..Len(text)
  BY <1>2, LenProperties DEF Pieces
<1>5. \A k \in 1..Len(Parts) : [ordinal |-> k - 1, content |-> Parts[k], by |-> d] \in chunks
  <2> SUFFICES ASSUME NEW k \in 1..Len(Parts)
               PROVE  [ordinal |-> k - 1, content |-> Parts[k], by |-> d] \in chunks
    OBVIOUS
  <2>1. k - 1 \in 0..(Len(Parts) - 1) /\ (k - 1) + 1 = k
    BY <1>3
  <2> QED
    BY <1>1, <2>1 DEF RowsOf
<1>6. \A c \in chunks : \E k \in 1..Len(Parts) : c.content = Parts[k]
  BY <1>1, <1>3 DEF RowsOf
<1>7. Content(Parts) \subseteq UNION {Range(c.content) : c \in chunks}
  <2> SUFFICES ASSUME NEW k \in 1..Len(Parts), NEW x \in Range(Parts[k])
               PROVE  \E c \in chunks : x \in Range(c.content)
    BY DEF Content
  <2> DEFINE c == [ordinal |-> k - 1, content |-> Parts[k], by |-> d]
  <2>1. c \in chunks /\ c.content = Parts[k]
    BY <1>5
  <2> QED
    BY <2>1
<1>8. \A c \in chunks : Len(c.content) \in 1..MaxChars
  BY <1>3, <1>6 DEF WellSized
<1> QED
  BY <1>1, <1>3, <1>4, <1>7, <1>8 DEF Whole

\* For any text, any limits with an overlap below the size of a chunk, and any deliveries, failures
\* and crashes: unless deliveries overlapped, a READY document is all there, embedded, in chunks of
\* at most MaxChars.
THEOREM ReadyDocuments ==
  ASSUME MaxChars \in Nat, OverlapChars \in Nat, OverlapChars < MaxChars, Texts \subseteq Seq(Nat)
  PROVE  KnowledgeSpec => []ReadyIsWhole
<1>1. ChunkLimits
  BY DEF ChunkLimits
<1>2. KnowledgeInit => KnowledgeInv
  BY KnowledgeStart
<1>3. KnowledgeInv /\ [KnowledgeNext]_knowledgeVars => KnowledgeInv'
  BY <1>1, KnowledgeStep
<1>4. KnowledgeInv => ReadyIsWhole
  BY <1>1, ReadyRows
<1> QED
  BY <1>2, <1>3, <1>4, PTL DEF KnowledgeSpec

-----------------------------------------------------------------------------
(***************************************************************************)
(* Assistant, for any number of turns, rounds and messages of history.     *)
(***************************************************************************)
AssistantSpec == AssistantInit /\ [][AssistantNext]_assistantVars

Messages == [role : {"user", "assistant"}, turn : Turns]
Gots == {"none", "part", "whole", "error"}
ApiPcs == {"idle", "persist", "append", "load", "call", "proxy", "store", "closed"}
AgentPcs == {"idle", "check", "model", "tool", "record", "emit", "end", "failed", "done"}

\* A tool is run only while rounds are left and its completion has called it.
AgentStates ==
  {a \in [pc : AgentPcs, seen : SUBSET Messages, round : 0..MaxRounds, calls : 0..MaxCalls, ok : BOOLEAN] :
     a.pc \in {"tool", "record"} => a.round < MaxRounds /\ a.calls > 0}

AssistantTyped ==
  /\ page \in [conv : Nat, busy : {0} \cup Turns, got : Gots, shown : Seq(Messages)]
  /\ page.conv \in 0..Len(convs)
  /\ asked \in 0..MaxTurns
  /\ convs \in Seq(Seq(Messages))
  /\ api \in [Turns -> [pc : ApiPcs, conv : Nat, got : Gots]]
  /\ \A t \in Turns : api[t].conv \in 0..Len(convs)
  /\ agent \in [Turns -> AgentStates]
  /\ cart \in Nat /\ executions \in Nat

\* How far a turn has come: one that was not asked has not begun; the agent is called last; from the
\* second statement on the conversation is known; what is to be stored came to its end.
TurnsInOrder ==
  /\ \A t \in Turns : t > asked => ApiAt(t, "idle")
  /\ \A t \in Turns : api[t].pc \in {"idle", "persist", "append", "load", "call"} => AgentAt(t, "idle")
  /\ \A t \in Turns : api[t].pc \in {"append", "load", "call", "proxy", "store"} => api[t].conv # 0
  /\ \A t \in Turns : ApiAt(t, "store") => api[t].got = "whole"

\* A question is in its conversation before the agent hears of it, and an answer is there only when
\* its turn is over.
QuestionsStored ==
  \A t \in Turns :
    api[t].pc \in {"load", "call", "proxy", "store"} =>
      \E j \in 1..Len(convs[api[t].conv]) : convs[api[t].conv][j] = Message("user", t)
AnswersClosed ==
  \A c \in DOMAIN convs : \A i \in DOMAIN convs[c] :
    convs[c][i].role = "assistant" => ApiAt(convs[c][i].turn, "closed")

AssistantInv ==
  AssistantTyped /\ TurnsInOrder /\ QuestionsStored /\ AnswersClosed /\ StoredAnswersAreWhole

Limits == MaxTurns \in Nat /\ MaxHistory \in Nat /\ MaxRounds \in Nat /\ MaxCalls \in Nat

LEMMA HistoryType ==
  ASSUME Limits, NEW s \in Seq(Messages)
  PROVE  History(s) \in Seq(Messages) /\ Range(History(s)) \subseteq Messages
<1>1. Min({Len(s), MaxHistory}) \in 0..Len(s)
  BY DEF Min, Limits
<1>2. \A i \in 1..Min({Len(s), MaxHistory}) : s[i] \in Messages
  BY <1>1, ElementOfSeq
<1>3. History(s) \in Seq(Messages)
  <2>1. 1 \in Int /\ Min({Len(s), MaxHistory}) \in Int
    BY <1>1
  <2> QED
    BY <1>2, <2>1, SubSeqProperties DEF History
<1> QED
  BY <1>3, RangeOfSeq

LEMMA AssistantStart ==
  ASSUME Limits, AssistantInit
  PROVE  AssistantInv
<1> USE DEF AssistantInit, NewPage, Limits
<1>1. AssistantTyped
  BY DEF AssistantTyped, Gots, ApiPcs, AgentPcs, AgentStates
<1>2. TurnsInOrder
  BY DEF TurnsInOrder, ApiAt, AgentAt
<1>3. QuestionsStored
  BY DEF QuestionsStored
<1>4. AnswersClosed /\ StoredAnswersAreWhole
  BY DEF AnswersClosed, StoredAnswersAreWhole
<1> QED
  BY <1>1, <1>2, <1>3, <1>4 DEF AssistantInv

\* The page's own steps leave the conversations and the agents alone, and begin a turn that nobody
\* has heard of.
LEMMA PageSteps ==
  ASSUME Limits, AssistantInv, Page
  PROVE  AssistantInv'
<1> USE DEF AssistantInv, Limits, Turns
<1>1. CASE Submit
  <2> DEFINE n == asked + 1
  <2>1. n \in Turns /\ ApiAt(n, "idle") /\ AgentAt(n, "idle")
    BY <1>1 DEF Submit, AssistantTyped, TurnsInOrder, ApiAt
  <2>2. Message("user", n) \in Messages
    BY <2>1 DEF Message, Messages
  <2>3. AssistantTyped'
    <3>1. Append(page.shown, Message("user", n)) \in Seq(Messages)
      BY <2>2, AppendProperties DEF AssistantTyped
    <3>2. page' = [page EXCEPT !.busy = n, !.got = "none", !.shown = Append(page.shown, Message("user", n))]
      BY <1>1 DEF Submit
    <3>3. /\ page' \in [conv : Nat, busy : {0} \cup Turns, got : Gots, shown : Seq(Messages)]
          /\ page'.conv = page.conv
      BY <2>1, <3>1, <3>2 DEF AssistantTyped, Gots
    <3>4. api' \in [Turns -> [pc : ApiPcs, conv : Nat, got : Gots]] /\ \A t \in Turns : api'[t].conv \in 0..Len(convs)
      BY <1>1, <2>1 DEF Submit, AssistantTyped, Gots, ApiPcs
    <3> QED
      <4>1. asked' \in 0..MaxTurns /\ UNCHANGED <<convs, agent, cart, executions>>
        BY <1>1 DEF Submit, AssistantTyped, Effects
      <4> QED
        BY <3>3, <3>4, <4>1 DEF AssistantTyped
  <2>4. \A t \in Turns : t # n => api'[t] = api[t]
    BY <1>1 DEF Submit, AssistantTyped
  <2>5. api'[n].pc = "persist" /\ asked' = n /\ UNCHANGED <<agent, convs>>
    BY <1>1, <2>1 DEF Submit, AssistantTyped
  <2>6. asked \in Nat
    BY DEF AssistantTyped
  <2>7. TurnsInOrder'
    BY <2>1, <2>4, <2>5, <2>6 DEF TurnsInOrder, ApiAt, AgentAt
  <2>8. QuestionsStored'
    BY <2>4, <2>5 DEF QuestionsStored
  <2>9. \A c \in DOMAIN convs : \A i \in DOMAIN convs[c] :
          convs[c][i].role = "assistant" => convs[c][i].turn \in Turns \ {n}
    <3> SUFFICES ASSUME NEW c \in DOMAIN convs, NEW i \in DOMAIN convs[c],
                        convs[c][i].role = "assistant"
                 PROVE  convs[c][i].turn \in Turns /\ convs[c][i].turn # n
      OBVIOUS
    <3>1. convs[c][i] \in Messages
      BY ElementOfSeq, LenProperties DEF AssistantTyped
    <3> QED
      BY <2>1, <3>1 DEF AnswersClosed, Messages, ApiAt
  <2>10. AnswersClosed' /\ StoredAnswersAreWhole'
    BY <2>4, <2>5, <2>9 DEF AnswersClosed, StoredAnswersAreWhole, ApiAt
  <2> QED
    BY <2>3, <2>7, <2>8, <2>10
<1>2. ASSUME UNCHANGED <<asked, convs, api, agent, Effects>>, page' \in [conv : Nat, busy : {0} \cup Turns, got : Gots, shown : Seq(Messages)],
             page'.conv \in 0..Len(convs)
      PROVE  AssistantInv'
  <2>1. UNCHANGED <<asked, convs, api, agent, cart, executions>>
    BY <1>2 DEF Effects
  <2>2. AssistantTyped'
    BY <1>2, <2>1 DEF AssistantTyped
  <2>3. TurnsInOrder' /\ QuestionsStored' /\ AnswersClosed' /\ StoredAnswersAreWhole'
    BY <2>1 DEF TurnsInOrder, QuestionsStored, AnswersClosed, StoredAnswersAreWhole, ApiAt, AgentAt
  <2> QED
    BY <2>2, <2>3
<1>3. CASE Receive
  BY <1>2, <1>3 DEF Receive, AssistantTyped
<1>4. CASE Finish \/ StopWaiting
  <2>1. page.busy # 0 /\ page.busy \in Turns
    BY <1>4 DEF Finish, StopWaiting, AssistantTyped
  <2>2. Answered \in Seq(Messages)
    <3>1. Message("assistant", page.busy) \in Messages
      BY <2>1 DEF Message, Messages
    <3> QED
      BY <3>1, AppendProperties DEF Answered, AssistantTyped
  <2> QED
    BY <1>2, <1>4, <2>2 DEF Finish, StopWaiting, AssistantTyped
<1>5. CASE NewConversation
  BY <1>2, <1>5 DEF NewConversation, NewPage, AssistantTyped, Gots
<1>6. CASE Reload
  <2> DEFINE stored == IF page.conv = 0 THEN <<>> ELSE convs[page.conv]
  <2>1. stored \in Seq(Messages)
    BY DEF AssistantTyped
  <2>2. History(stored) \in Seq(Messages)
    BY <2>1, HistoryType
  <2>3. page' = [NewPage EXCEPT !.conv = page.conv, !.shown = History(stored)]
    BY <1>6 DEF Reload
  <2>4. page' \in [conv : Nat, busy : {0} \cup Turns, got : Gots, shown : Seq(Messages)] /\ page'.conv \in 0..Len(convs)
    <3> HIDE DEF stored
    <3> QED BY <2>2, <2>3 DEF NewPage, AssistantTyped, Gots
  <2> QED
    BY <1>2, <1>6, <2>4 DEF Reload
<1> QED
  BY <1>1, <1>3, <1>4, <1>5, <1>6 DEF Page

\* While a turn is under way nothing in the conversations is an answer to it, so its own steps do
\* not touch what is said of the answers.
LEMMA AnswersKept ==
  ASSUME AssistantInv, NEW t \in Turns, ~ApiAt(t, "closed"), UNCHANGED convs,
         \A v \in Turns \ {t} : api'[v] = api[v]
  PROVE  AnswersClosed' /\ StoredAnswersAreWhole'
<1>1. \A c \in DOMAIN convs : \A i \in DOMAIN convs[c] :
        convs[c][i].role = "assistant" => convs[c][i].turn \in Turns \ {t}
  <2> SUFFICES ASSUME NEW c \in DOMAIN convs, NEW i \in DOMAIN convs[c],
                      convs[c][i].role = "assistant"
               PROVE  convs[c][i].turn \in Turns /\ convs[c][i].turn # t
    OBVIOUS
  <2>1. convs[c][i] \in Messages
    BY ElementOfSeq, LenProperties DEF AssistantInv, AssistantTyped
  <2> QED
    BY <2>1 DEF AssistantInv, AnswersClosed, Messages, ApiAt
<1> QED
  BY <1>1 DEF AssistantInv, AnswersClosed, StoredAnswersAreWhole, ApiAt

\* The turn at hand moves in the API, and perhaps in the agent, and nothing else does.
LEMMA ApiMoves ==
  ASSUME AssistantInv, NEW t \in Turns, NEW pc \in {"call", "proxy", "store", "closed"},
         NEW got \in Gots,
         api[t].pc \notin {"idle", "closed"},
         api' = [api EXCEPT ![t].pc = pc, ![t].got = got],
         agent' \in [Turns -> AgentStates], \A v \in Turns \ {t} : agent'[v] = agent[v],
         UNCHANGED <<page, asked, convs, Effects>>,
         pc = "call" => ApiAt(t, "load") /\ AgentAt(t, "idle")',
         pc = "proxy" => ApiAt(t, "call"),
         pc = "store" => ApiAt(t, "proxy") /\ got = "whole"
  PROVE  AssistantInv'
<1>0. AssistantTyped /\ TurnsInOrder /\ QuestionsStored
  BY DEF AssistantInv
<1>1. /\ api'[t].pc = pc /\ api'[t].conv = api[t].conv /\ api'[t].got = got
      /\ \A v \in Turns \ {t} : api'[v] = api[v]
  BY <1>0 DEF AssistantTyped
<1>2. AssistantTyped'
  <2>1. api \in [Turns -> [pc : ApiPcs, conv : Nat, got : Gots]] /\ pc \in ApiPcs
    BY <1>0 DEF AssistantTyped, ApiPcs
  <2>2. api' \in [Turns -> [pc : ApiPcs, conv : Nat, got : Gots]]
    BY <2>1
  <2>3. \A v \in Turns : api'[v].conv = api[v].conv
    BY <2>1
  <2> QED
    BY <1>0, <2>2, <2>3 DEF AssistantTyped, Effects
<1>3. \A v \in Turns : /\ v > asked => v # t
                       /\ pc # "closed" => api[t].conv # 0
  BY <1>0 DEF TurnsInOrder, ApiAt
<1>4. TurnsInOrder'
  <2> SUFFICES ASSUME NEW v \in Turns
               PROVE  /\ v > asked => ApiAt(v, "idle")'
                      /\ api'[v].pc \in {"idle", "persist", "append", "load", "call"} => AgentAt(v, "idle")'
                      /\ api'[v].pc \in {"append", "load", "call", "proxy", "store"} => api'[v].conv # 0
                      /\ ApiAt(v, "store")' => api'[v].got = "whole"
    BY DEF TurnsInOrder
  <2>1. CASE v = t
    BY <1>1, <1>3, <2>1 DEF ApiAt, AgentAt
  <2>2. CASE v # t
    <3>1. api'[v] = api[v] /\ agent'[v] = agent[v] /\ asked' = asked
      BY <1>1, <2>2
    <3> QED
      BY <1>0, <3>1 DEF TurnsInOrder, ApiAt, AgentAt
  <2> QED
    BY <2>1, <2>2
<1>5. \A v \in Turns : api'[v].pc \in {"load", "call", "proxy", "store"} =>
        api[v].pc \in {"load", "call", "proxy", "store"} /\ api'[v].conv = api[v].conv
  BY <1>1 DEF ApiAt
<1>6. QuestionsStored'
  BY <1>0, <1>5, ZenonT(40) DEF QuestionsStored
<1> QED
  BY <1>1, <1>2, <1>4, <1>6, AnswersKept DEF ApiAt, AssistantInv

\* The statement opens a conversation when there is none; it is empty, and nothing else is touched.
LEMMA PersistSteps ==
  ASSUME AssistantInv, NEW t \in Turns, PersistUser(t)
  PROVE  AssistantInv'
<1>0. AssistantTyped /\ TurnsInOrder /\ QuestionsStored /\ AnswersClosed /\ StoredAnswersAreWhole
  BY DEF AssistantInv
<1>0a. /\ api \in [Turns -> [pc : ApiPcs, conv : Nat, got : Gots]]
       /\ \A v \in Turns : api[v].conv \in 0..Len(convs)
  BY <1>0 DEF AssistantTyped
<1> DEFINE c == IF api[t].conv = 0 THEN Len(convs) + 1 ELSE api[t].conv
<1>1. /\ ApiAt(t, "persist")
      /\ convs' = (IF c > Len(convs) THEN Append(convs, <<>>) ELSE convs)
      /\ api' = [api EXCEPT ![t].pc = "append", ![t].conv = c]
      /\ UNCHANGED <<page, asked, agent, cart, executions>>
  BY DEF PersistUser, Effects
<1>2. Len(convs) \in Nat /\ c \in 1..(Len(convs) + 1)
  BY <1>0, LenProperties DEF AssistantTyped
<1>3. /\ convs' \in Seq(Seq(Messages))
      /\ Len(convs') \in Nat /\ Len(convs) <= Len(convs') /\ c <= Len(convs')
      /\ \A k \in 1..Len(convs) : convs'[k] = convs[k]
      /\ \A k \in 1..Len(convs') : k \notin 1..Len(convs) => convs'[k] = <<>>
  <2>1. CASE c > Len(convs)
    <3>1. <<>> \in Seq(Messages)
      OBVIOUS
    <3> HIDE DEF c
    <3>2. convs' = Append(convs, <<>>)
      BY <1>1, <2>1
    <3>3. /\ convs' \in Seq(Seq(Messages)) /\ Len(convs') = Len(convs) + 1
          /\ \A k \in 1..Len(convs) : convs'[k] = convs[k]
          /\ convs'[Len(convs) + 1] = <<>>
      BY <1>0, <3>1, <3>2, AppendProperties DEF AssistantTyped
    <3> QED
      BY <1>2, <3>3
  <2>2. CASE ~(c > Len(convs))
    <3> HIDE DEF c
    <3> QED
      BY <1>0, <1>1, <1>2, <2>2 DEF AssistantTyped
  <2> QED
    BY <2>1, <2>2
<1> HIDE DEF c
<1>4. /\ api'[t].pc = "append" /\ api'[t].conv = c /\ api'[t].got = api[t].got
      /\ \A v \in Turns \ {t} : api'[v] = api[v]
      /\ api' \in [Turns -> [pc : ApiPcs, conv : Nat, got : Gots]]
  <2>1. "append" \in ApiPcs /\ c \in Nat
    BY <1>2 DEF ApiPcs
  <2>2. api' = [api EXCEPT ![t].pc = "append", ![t].conv = c]
    BY <1>1
  <2> QED
    BY <1>0a, <2>1, <2>2
<1>5. AssistantTyped'
  <2>1. \A v \in Turns : api'[v].conv \in 0..Len(convs')
    <3> SUFFICES ASSUME NEW v \in Turns PROVE api'[v].conv \in 0..Len(convs')
      OBVIOUS
    <3>1. CASE v = t
      BY <1>2, <1>3, <1>4, <3>1
    <3>2. CASE v # t
      BY <1>0a, <1>2, <1>3, <1>4, <3>2
    <3> QED
      BY <3>1, <3>2
  <2>2. page.conv \in 0..Len(convs')
    BY <1>0, <1>2, <1>3 DEF AssistantTyped
  <2> QED
    BY <1>0, <1>1, <1>3, <1>4, <2>1, <2>2 DEF AssistantTyped
<1>6. TurnsInOrder'
  <2> SUFFICES ASSUME NEW v \in Turns
               PROVE  /\ v > asked => ApiAt(v, "idle")'
                      /\ api'[v].pc \in {"idle", "persist", "append", "load", "call"} => AgentAt(v, "idle")
                      /\ api'[v].pc \in {"append", "load", "call", "proxy", "store"} => api'[v].conv # 0
                      /\ ApiAt(v, "store")' => api'[v].got = "whole"
    BY <1>1 DEF TurnsInOrder, AgentAt
  <2>1. CASE v = t
    BY <1>0, <1>1, <1>2, <1>4, <2>1 DEF TurnsInOrder, ApiAt
  <2>2. CASE v # t
    BY <1>0, <1>4, <2>2 DEF TurnsInOrder, ApiAt
  <2> QED
    BY <2>1, <2>2
<1>7. QuestionsStored'
  <2> SUFFICES ASSUME NEW v \in Turns, api'[v].pc \in {"load", "call", "proxy", "store"}
               PROVE  \E j \in 1..Len(convs'[api'[v].conv]) : convs'[api'[v].conv][j] = Message("user", v)
    BY DEF QuestionsStored
  <2>1. v # t /\ api'[v] = api[v]
    BY <1>4
  <2>2. api[v].conv \in 1..Len(convs) /\ convs'[api[v].conv] = convs[api[v].conv]
    BY <1>0, <1>0a, <1>2, <1>3, <2>1 DEF TurnsInOrder
  <2> QED
    BY <1>0, <2>1, <2>2 DEF QuestionsStored
<1>8. AnswersClosed' /\ StoredAnswersAreWhole'
  <2>1. DOMAIN convs = 1..Len(convs) /\ DOMAIN convs' = 1..Len(convs')
    BY <1>0, <1>3, LenProperties DEF AssistantTyped
  <2>2. \A k \in DOMAIN convs' : \A i \in DOMAIN convs'[k] : k \in DOMAIN convs /\ convs'[k] = convs[k]
    BY <1>3, <2>1
  <2>3. \A k \in DOMAIN convs : \A i \in DOMAIN convs[k] :
          convs[k][i].role = "assistant" => convs[k][i].turn \in Turns \ {t}
    <3> SUFFICES ASSUME NEW k \in DOMAIN convs, NEW i \in DOMAIN convs[k],
                        convs[k][i].role = "assistant"
                 PROVE  convs[k][i].turn \in Turns /\ convs[k][i].turn # t
      OBVIOUS
    <3>1. convs[k][i] \in Messages
      BY <1>0, <2>1, ElementOfSeq, LenProperties DEF AssistantTyped
    <3> QED
      BY <1>0, <1>1, <3>1 DEF AnswersClosed, Messages, ApiAt
  <2> QED
    BY <1>0, <1>4, <2>2, <2>3 DEF AnswersClosed, StoredAnswersAreWhole, ApiAt
<1> QED
  BY <1>5, <1>6, <1>7, <1>8 DEF AssistantInv

\* Conversation c gets one message at its end, and the others none.
Appended(c, role, t, next) ==
  /\ c \in 1..Len(convs) /\ Len(convs[c]) \in Nat
  /\ convs' \in Seq(Seq(Messages)) /\ Len(convs') = Len(convs)
  /\ \A k \in 1..Len(convs) : k # c => convs'[k] = convs[k]
  /\ Len(convs'[c]) = Len(convs[c]) + 1
  /\ convs'[c][Len(convs[c]) + 1] = Message(role, t)
  /\ \A i \in 1..Len(convs[c]) : convs'[c][i] = convs[c][i]
  /\ api'[t].pc = next /\ api'[t].conv = c /\ api'[t].got = api[t].got
  /\ \A v \in Turns \ {t} : api'[v] = api[v]
  /\ api' \in [Turns -> [pc : ApiPcs, conv : Nat, got : Gots]]
  /\ \A v \in Turns : api'[v].conv \in 0..Len(convs')

\* A message goes to the end of its turn's conversation.
LEMMA Appending ==
  ASSUME AssistantTyped, NEW t \in Turns, NEW role \in {"user", "assistant"}, NEW c, NEW next \in ApiPcs,
         c = api[t].conv, c # 0, AppendMessage(t, role, next)
  PROVE  Appended(c, role, t, next)
<1>1. c \in 1..Len(convs) /\ convs \in Seq(Seq(Messages)) /\ convs[c] \in Seq(Messages)
  BY ElementOfSeq DEF AssistantTyped
<1>2. Message(role, t) \in Messages
  BY DEF Message, Messages
<1>3. convs' = [convs EXCEPT ![c] = Append(convs[c], Message(role, t))]
  BY DEF AppendMessage
<1>4. /\ Append(convs[c], Message(role, t)) \in Seq(Messages)
      /\ Len(convs[c]) \in Nat
      /\ Len(Append(convs[c], Message(role, t))) = Len(convs[c]) + 1
      /\ \A i \in 1..Len(convs[c]) : Append(convs[c], Message(role, t))[i] = convs[c][i]
      /\ Append(convs[c], Message(role, t))[Len(convs[c]) + 1] = Message(role, t)
  BY <1>1, <1>2, AppendProperties, LenProperties
<1>5. /\ convs' \in Seq(Seq(Messages)) /\ Len(convs') = Len(convs)
      /\ \A k \in 1..Len(convs) : convs'[k] = IF k = c THEN Append(convs[c], Message(role, t)) ELSE convs[k]
  BY <1>1, <1>3, <1>4, ExceptSeq
<1>6. /\ api \in [Turns -> [pc : ApiPcs, conv : Nat, got : Gots]]
      /\ \A v \in Turns : api[v].conv \in 0..Len(convs)
  BY DEF AssistantTyped
<1>7. api' = [api EXCEPT ![t].pc = next]
  BY DEF AppendMessage, ApiGoto
<1>8. /\ api'[t].pc = next /\ api'[t].conv = c /\ api'[t].got = api[t].got
      /\ \A v \in Turns \ {t} : api'[v] = api[v]
      /\ api' \in [Turns -> [pc : ApiPcs, conv : Nat, got : Gots]]
  BY <1>6, <1>7
<1>9. \A v \in Turns : api'[v].conv \in 0..Len(convs')
  BY <1>1, <1>5, <1>6, <1>8
<1> QED
  BY <1>1, <1>4, <1>5, <1>8, <1>9 DEF Appended

\* A question goes in after its conversation is known, an answer after its question.
LEMMA AppendSteps ==
  ASSUME AssistantInv, NEW t \in Turns, NEW role, NEW next,
         \/ role = "user" /\ next = "load" /\ ApiAt(t, "append")
         \/ role = "assistant" /\ next = "closed" /\ ApiAt(t, "store"),
         AppendMessage(t, role, next),
         UNCHANGED <<page, asked, agent, Effects>>
  PROVE  AssistantInv'
<1>0. AssistantTyped /\ TurnsInOrder /\ QuestionsStored /\ AnswersClosed /\ StoredAnswersAreWhole
  BY DEF AssistantInv
<1> PICK c : c = api[t].conv
  OBVIOUS
<1> DEFINE n == Len(convs[c]) + 1
<1>1. role \in {"user", "assistant"} /\ next \in ApiPcs /\ c # 0 /\ api[t].pc \in {"append", "store"}
  BY <1>0 DEF ApiPcs, TurnsInOrder, ApiAt
<1>1a. Appended(c, role, t, next)
  BY <1>0, <1>1, Appending
<1>2. /\ c \in 1..Len(convs) /\ Len(convs[c]) \in Nat
      /\ convs' \in Seq(Seq(Messages)) /\ Len(convs') = Len(convs)
      /\ \A k \in 1..Len(convs) : k # c => convs'[k] = convs[k]
      /\ Len(convs'[c]) = n
      /\ convs'[c][n] = Message(role, t)
      /\ \A i \in 1..Len(convs[c]) : convs'[c][i] = convs[c][i]
  BY <1>1a DEF Appended
<1>3. /\ api'[t].pc = next /\ api'[t].conv = c /\ api'[t].got = api[t].got
      /\ \A v \in Turns \ {t} : api'[v] = api[v]
      /\ api' \in [Turns -> [pc : ApiPcs, conv : Nat, got : Gots]]
      /\ \A v \in Turns : api'[v].conv \in 0..Len(convs')
  BY <1>1a DEF Appended
<1>4. AssistantTyped'
  <2>1. page.conv \in 0..Len(convs') /\ UNCHANGED <<page, asked, agent, cart, executions>>
    BY <1>0, <1>2 DEF AssistantTyped, Effects
  <2> QED
    BY <1>0, <1>2, <1>3, <2>1 DEF AssistantTyped
<1>5. TurnsInOrder'
  <2> SUFFICES ASSUME NEW v \in Turns
               PROVE  /\ v > asked => ApiAt(v, "idle")'
                      /\ api'[v].pc \in {"idle", "persist", "append", "load", "call"} => AgentAt(v, "idle")
                      /\ api'[v].pc \in {"append", "load", "call", "proxy", "store"} => api'[v].conv # 0
                      /\ ApiAt(v, "store")' => api'[v].got = "whole"
    BY DEF TurnsInOrder, AgentAt
  <2>1. CASE v = t
    BY <1>0, <1>1, <1>3, <2>1 DEF TurnsInOrder, ApiAt
  <2>2. CASE v # t
    BY <1>0, <1>3, <2>2 DEF TurnsInOrder, ApiAt
  <2> QED
    BY <2>1, <2>2
\* What was there is where it was.
<1>6. \A k \in 1..Len(convs) : /\ Len(convs[k]) \in Nat /\ Len(convs'[k]) \in Nat
                               /\ Len(convs[k]) <= Len(convs'[k])
                               /\ \A i \in 1..Len(convs[k]) : convs'[k][i] = convs[k][i]
  <2> SUFFICES ASSUME NEW k \in 1..Len(convs)
               PROVE  /\ Len(convs[k]) \in Nat /\ Len(convs'[k]) \in Nat
                      /\ Len(convs[k]) <= Len(convs'[k])
                      /\ \A i \in 1..Len(convs[k]) : convs'[k][i] = convs[k][i]
    OBVIOUS
  <2>1. Len(convs[k]) \in Nat
    BY <1>0, ElementOfSeq, LenProperties DEF AssistantTyped
  <2>2. CASE k = c
    <3>1. /\ Len(convs[c]) \in Nat /\ Len(convs'[c]) \in Nat /\ Len(convs[c]) <= Len(convs'[c])
          /\ \A i \in 1..Len(convs[c]) : convs'[c][i] = convs[c][i]
      BY <1>2
    <3> QED
      BY <2>2, <3>1
  <2>3. CASE k # c
    BY <1>2, <2>1, <2>3
  <2> QED
    BY <2>1, <2>2, <2>3
<1>7. QuestionsStored'
  <2> SUFFICES ASSUME NEW v \in Turns, api'[v].pc \in {"load", "call", "proxy", "store"}
               PROVE  \E j \in 1..Len(convs'[api'[v].conv]) : convs'[api'[v].conv][j] = Message("user", v)
    BY DEF QuestionsStored
  <2>1. CASE v = t
    <3>1. role = "user"
      BY <1>3, <2>1
    <3>2. n \in 1..Len(convs'[c]) /\ convs'[c][n] = Message("user", v)
      BY <1>2, <2>1, <3>1
    <3> QED
      BY <1>3, <2>1, <3>2
  <2>2. CASE v # t
    <3>1. api'[v] = api[v]
      BY <1>3, <2>2
    <3>2. api[v].conv \in 1..Len(convs)
      BY <1>0, <3>1 DEF AssistantTyped, TurnsInOrder
    <3>3. PICK j \in 1..Len(convs[api[v].conv]) : convs[api[v].conv][j] = Message("user", v)
      BY <1>0, <3>1 DEF QuestionsStored
    <3>4. convs'[api[v].conv][j] = convs[api[v].conv][j] /\ j \in 1..Len(convs'[api[v].conv])
      <4>1. /\ Len(convs[api[v].conv]) \in Nat /\ Len(convs'[api[v].conv]) \in Nat
            /\ Len(convs[api[v].conv]) <= Len(convs'[api[v].conv])
            /\ \A i \in 1..Len(convs[api[v].conv]) : convs'[api[v].conv][i] = convs[api[v].conv][i]
        BY <1>6, <3>2, Zenon
      <4> QED
        BY <3>3, <4>1
    <3> QED
      BY <3>1, <3>3, <3>4, Zenon
  <2> QED
    BY <2>1, <2>2
<1>8. ASSUME NEW k \in DOMAIN convs', NEW i \in DOMAIN convs'[k], convs'[k][i].role = "assistant"
      PROVE  /\ api'[convs'[k][i].turn].pc = "closed" /\ api'[convs'[k][i].turn].got = "whole"
             /\ \E j \in 1..(i - 1) : convs'[k][j] = Message("user", convs'[k][i].turn)
  <2>1. k \in 1..Len(convs) /\ convs'[k] \in Seq(Messages) /\ convs[k] \in Seq(Messages)
    <3>1. convs' \in Seq(Seq(Messages)) /\ Len(convs') = Len(convs) /\ convs \in Seq(Seq(Messages))
      BY <1>0, <1>2 DEF AssistantTyped
    <3>2. DOMAIN convs' = 1..Len(convs)
      BY <3>1, LenProperties
    <3>3. k \in 1..Len(convs)
      BY <1>8, <3>2, Zenon
    <3> QED
      BY <3>1, <3>3, ElementOfSeq
  <2>2. i \in 1..Len(convs'[k])
    BY <1>8, <2>1, LenProperties
  <2>3. CASE i \in 1..Len(convs[k])
    <3>1. convs'[k][i] = convs[k][i] /\ convs[k][i] \in Messages
      BY <1>6, <2>1, <2>3, ElementOfSeq
    <3>2. k \in DOMAIN convs /\ i \in DOMAIN convs[k]
      BY <1>0, <2>1, <2>3, LenProperties DEF AssistantTyped
    <3>3. /\ api[convs[k][i].turn].pc = "closed" /\ api[convs[k][i].turn].got = "whole"
          /\ convs[k][i].turn \in Turns
      BY <1>0, <1>8, <3>1, <3>2 DEF AnswersClosed, StoredAnswersAreWhole, ApiAt, Messages
    <3>4. PICK j \in 1..(i - 1) : convs[k][j] = Message("user", convs[k][i].turn)
      BY <1>0, <1>8, <3>1, <3>2 DEF StoredAnswersAreWhole
    <3>5. j \in 1..Len(convs[k])
      BY <1>6, <2>1, <2>3, <3>4
    <3>6. convs'[k][j] = convs[k][j]
      BY <1>6, <2>1, <3>5
    <3>7. api'[convs[k][i].turn] = api[convs[k][i].turn]
      BY <1>1, <1>3, <3>3
    <3> QED
      BY <3>1, <3>3, <3>4, <3>6, <3>7
  <2>4. CASE i \notin 1..Len(convs[k])
    <3>1. k = c /\ i = n
      <4>1. k = c
        BY <1>2, <2>1, <2>2, <2>4
      <4> QED
        BY <1>2, <2>2, <2>4, <4>1
    <3>2. convs'[k][i] = Message(role, t)
      BY <1>2, <3>1
    <3>3. role = "assistant" /\ convs'[k][i].turn = t
      BY <1>8, <3>2 DEF Message
    <3>4. api'[t].pc = "closed" /\ ApiAt(t, "store") /\ api'[t].got = "whole"
      BY <1>0, <1>3, <3>3 DEF TurnsInOrder
    <3>5. PICK j \in 1..Len(convs[c]) : convs[c][j] = Message("user", t)
      BY <1>0, <3>4 DEF QuestionsStored, ApiAt
    <3>6. j \in 1..(i - 1) /\ convs'[k][j] = Message("user", t)
      BY <1>2, <3>1, <3>5
    <3> QED
      BY <3>3, <3>4, <3>6
  <2> QED
    BY <2>3, <2>4
<1>9. AnswersClosed' /\ StoredAnswersAreWhole'
  BY <1>8 DEF AnswersClosed, StoredAnswersAreWhole, ApiAt
<1> QED
  BY <1>4, <1>5, <1>7, <1>9 DEF AssistantInv

\* The agent moves on with a turn that it has: the API may read what it writes while it proxies it.
LEMMA AgentMoves ==
  ASSUME AssistantInv, NEW t \in Turns, ~AgentAt(t, "idle"),
         agent' \in [Turns -> AgentStates], \A v \in Turns \ {t} : agent'[v] = agent[v],
         \/ UNCHANGED api
         \/ ApiAt(t, "proxy") /\ \E got \in Gots : api' = [api EXCEPT ![t].got = got],
         cart' \in Nat, executions' \in Nat,
         UNCHANGED <<page, asked, convs>>
  PROVE  AssistantInv'
<1>0. AssistantTyped /\ TurnsInOrder /\ QuestionsStored /\ AnswersClosed /\ StoredAnswersAreWhole
  BY DEF AssistantInv
<1>1. /\ api \in [Turns -> [pc : ApiPcs, conv : Nat, got : Gots]]
      /\ \A v \in Turns : api[v].conv \in 0..Len(convs)
  BY <1>0 DEF AssistantTyped
<1>2. /\ api' \in [Turns -> [pc : ApiPcs, conv : Nat, got : Gots]]
      /\ \A v \in Turns : api'[v].pc = api[v].pc /\ api'[v].conv = api[v].conv
      /\ \A v \in Turns : api'[v] = api[v] \/ (v = t /\ ApiAt(t, "proxy"))
  <2>1. CASE UNCHANGED api
    BY <1>1, <2>1
  <2>2. CASE ApiAt(t, "proxy") /\ \E got \in Gots : api' = [api EXCEPT ![t].got = got]
    <3>1. PICK got \in Gots : api' = [api EXCEPT ![t].got = got]
      BY <2>2
    <3>2. /\ api' \in [Turns -> [pc : ApiPcs, conv : Nat, got : Gots]]
          /\ \A v \in Turns : api'[v].pc = api[v].pc /\ api'[v].conv = api[v].conv
          /\ \A v \in Turns : v # t => api'[v] = api[v]
      BY <1>1, <3>1
    <3> QED
      BY <2>2, <3>2
  <2> QED
    BY <2>1, <2>2
<1>3. AssistantTyped'
  <2>1. \A v \in Turns : api'[v].conv \in 0..Len(convs')
    BY <1>1, <1>2
  <2> QED
    BY <1>0, <1>2, <2>1 DEF AssistantTyped, AgentStates
<1>4. \A v \in Turns : api[v].pc \in {"idle", "persist", "append", "load", "call"} => v # t
  BY <1>0 DEF TurnsInOrder
<1>5. TurnsInOrder'
  <2> SUFFICES ASSUME NEW v \in Turns
               PROVE  /\ v > asked => ApiAt(v, "idle")'
                      /\ api'[v].pc \in {"idle", "persist", "append", "load", "call"} => AgentAt(v, "idle")'
                      /\ api'[v].pc \in {"append", "load", "call", "proxy", "store"} => api'[v].conv # 0
                      /\ ApiAt(v, "store")' => api'[v].got = "whole"
    BY DEF TurnsInOrder
  <2> QED
    BY <1>0, <1>2, <1>4, SMTT(30) DEF TurnsInOrder, ApiAt, AgentAt
<1>6. QuestionsStored'
  BY <1>0, <1>2 DEF QuestionsStored
<1>7. AnswersClosed' /\ StoredAnswersAreWhole'
  <2>1. CASE UNCHANGED api
    BY <1>0, <2>1 DEF AnswersClosed, StoredAnswersAreWhole, ApiAt
  <2>2. CASE ~UNCHANGED api
    <3>1. ~ApiAt(t, "closed") /\ UNCHANGED convs /\ \A v \in Turns \ {t} : api'[v] = api[v]
      BY <1>2, <2>2 DEF ApiAt
    <3> QED
      BY <3>1, AnswersKept
  <2> QED
    BY <2>1, <2>2
<1> QED
  BY <1>3, <1>5, <1>6, <1>7 DEF AssistantInv

LEMMA ThinkSteps ==
  ASSUME Limits, AssistantInv, NEW t \in Turns, Think(t)
  PROVE  AssistantInv'
<1>0. /\ agent \in [Turns -> AgentStates] /\ cart \in Nat
      /\ executions \in Nat
  BY DEF AssistantInv, AssistantTyped, AgentStates
<1>1. agent[t].round < MaxRounds => agent[t].round + 1 \in 0..MaxRounds
  BY <1>0 DEF AgentStates, Limits
<1>2. CASE Check(t)
  <2>1. AgentAt(t, "check") /\ UNCHANGED <<page, asked, convs, api, cart, executions>>
    BY <1>2 DEF Check, Effects
  <2>2. agent' \in [Turns -> AgentStates] /\ \A v \in Turns \ {t} : agent'[v] = agent[v]
    BY <1>0, <1>2, <2>1, ZenonT(40) DEF Check, AgentGoto, AgentStates, AgentPcs
  <2> QED
    BY <1>0, <2>1, <2>2, AgentMoves DEF AgentAt
<1>3. CASE Complete(t)
  <2>1. /\ AgentAt(t, "model") /\ UNCHANGED <<page, asked, convs, api, cart, executions>>
        /\ agent' \in [Turns -> AgentStates] /\ \A v \in Turns \ {t} : agent'[v] = agent[v]
    <3>1. AgentAt(t, "model") /\ UNCHANGED <<page, asked, convs, api, cart, executions>>
      BY <1>3 DEF Complete, Effects
    <3>2. CASE AgentGoto(t, "emit") \/ AgentGoto(t, "failed")
      BY <1>0, <3>1, <3>2, SMTT(30) DEF AgentGoto, AgentStates, AgentPcs
    <3>3. ASSUME NEW n \in 1..MaxCalls, agent[t].round < MaxRounds,
                 agent' = [agent EXCEPT ![t].pc = "tool", ![t].calls = n]
          PROVE  agent' \in [Turns -> AgentStates] /\ \A v \in Turns \ {t} : agent'[v] = agent[v]
      <4>1. "tool" \in AgentPcs /\ n \in 0..MaxCalls /\ n > 0
        BY DEF AgentPcs, Limits
      <4> QED
        <5> DEFINE a == [agent[t] EXCEPT !.pc = "tool", !.calls = n]
        <5>1. agent[t] \in AgentStates /\ agent' = [agent EXCEPT ![t] = a]
          BY <1>0, <3>3
        <5>2. a \in [pc : AgentPcs, seen : SUBSET Messages, round : 0..MaxRounds, calls : 0..MaxCalls, ok : BOOLEAN]
          BY <4>1, <5>1 DEF AgentStates
        <5>3. a.round = agent[t].round /\ a.calls = n
          BY <5>1 DEF AgentStates
        <5>4. a \in AgentStates
          BY <3>3, <4>1, <5>2, <5>3 DEF AgentStates
        <5> HIDE DEF a
        <5> QED
          BY <1>0, <5>1, <5>4
    <3> QED
      BY <1>3, <3>1, <3>2, <3>3 DEF Complete
  <2> QED
    BY <1>0, <2>1, AgentMoves DEF AgentAt
<1>4. ASSUME NextCall(t), agent[t].pc \in {"tool", "record"}
      PROVE  agent' \in [Turns -> AgentStates] /\ \A v \in Turns \ {t} : agent'[v] = agent[v]
  <2>1. /\ agent[t] \in AgentStates /\ agent[t].round + 1 \in 0..MaxRounds
        /\ agent[t].calls \in 0..MaxCalls /\ agent[t].calls > 0
    BY <1>0, <1>1, <1>4 DEF AgentStates
  <2>2. [agent[t] EXCEPT !.pc = "model", !.round = agent[t].round + 1, !.calls = 0, !.ok = FALSE] \in AgentStates
    <3> DEFINE a == [agent[t] EXCEPT !.pc = "model", !.round = agent[t].round + 1, !.calls = 0, !.ok = FALSE]
    <3>1. 0 \in 0..MaxCalls
      BY DEF Limits
    <3>2. a \in [pc : AgentPcs, seen : SUBSET Messages, round : 0..MaxRounds, calls : 0..MaxCalls, ok : BOOLEAN]
      BY <2>1, <3>1 DEF AgentStates, AgentPcs
    <3>3. a.pc = "model"
      BY <2>1 DEF AgentStates
    <3> QED
      BY <3>2, <3>3 DEF AgentStates
  <2>3. agent[t].calls > 1 =>
          [agent[t] EXCEPT !.pc = "tool", !.calls = agent[t].calls - 1, !.ok = FALSE] \in AgentStates
    <3> SUFFICES ASSUME agent[t].calls > 1
                 PROVE  [agent[t] EXCEPT !.pc = "tool", !.calls = agent[t].calls - 1, !.ok = FALSE] \in AgentStates
      OBVIOUS
    <3>1. agent[t].calls - 1 \in 0..MaxCalls /\ agent[t].calls - 1 > 0 /\ agent[t].round < MaxRounds
      BY <1>4, <2>1 DEF AgentStates, Limits
    <3> QED
      BY <2>1, <3>1 DEF AgentStates, AgentPcs
  <2>4. PICK a \in AgentStates : agent' = [agent EXCEPT ![t] = a]
    <3>1. CASE agent[t].calls > 1
      BY <1>4, <2>3, <3>1 DEF NextCall
    <3>2. CASE ~(agent[t].calls > 1)
      BY <1>4, <2>2, <3>2 DEF NextCall
    <3> QED
      BY <3>1, <3>2
  <2> QED
    BY <1>0, <2>4
<1>5. CASE RunTool(t)
  <2>1. AgentAt(t, "tool") /\ UNCHANGED <<page, asked, convs, api, executions>>
    BY <1>5 DEF RunTool
  <2>2. CASE NextCall(t) /\ UNCHANGED cart
    BY <1>0, <1>4, <2>1, <2>2, AgentMoves DEF AgentAt
  <2>3. ASSUME NEW added \in BOOLEAN, NEW ok \in BOOLEAN,
               cart' = IF added THEN cart + 1 ELSE cart,
               agent' = [agent EXCEPT ![t].pc = "record", ![t].ok = ok]
        PROVE  AssistantInv'
    <3>1. cart' \in Nat
      BY <1>0, <2>3
    <3>2. agent' \in [Turns -> AgentStates] /\ \A v \in Turns \ {t} : agent'[v] = agent[v]
      <4>1. agent[t].pc = "tool"
        BY <2>1 DEF AgentAt
      <4> QED
        BY <1>0, <2>3, <4>1, ZenonT(40) DEF AgentStates, AgentPcs
    <3> QED
      BY <1>0, <2>1, <3>1, <3>2, AgentMoves DEF AgentAt
  <2> QED
    BY <1>5, <2>2, <2>3 DEF RunTool
<1>5a. CASE RecordTool(t)
  <2>1. AgentAt(t, "record") /\ NextCall(t) /\ UNCHANGED <<page, asked, convs, api, cart>>
    BY <1>5a DEF RecordTool
  <2>2. executions' \in Nat
    BY <1>0, <1>5a DEF RecordTool
  <2> QED
    BY <1>0, <1>4, <2>1, <2>2, AgentMoves DEF AgentAt
<1>6. CASE EmitDelta(t) \/ EmitDone(t) \/ EmitError(t)
  <2>1. PICK got \in Gots, next \in {"end", "done"} : ~AgentAt(t, "idle") /\ Write(t, got, next)
    BY <1>6 DEF EmitDelta, EmitDone, EmitError, Gots, AgentPcs, AgentAt
  <2>2. /\ \/ UNCHANGED api
           \/ ApiAt(t, "proxy") /\ \E g \in Gots : api' = [api EXCEPT ![t].got = g]
        /\ UNCHANGED <<page, asked, convs, cart, executions>>
        /\ agent' = [agent EXCEPT ![t].pc = next]
    BY <2>1 DEF Write, Effects, AgentGoto
  <2>3. agent' \in [Turns -> AgentStates] /\ \A v \in Turns \ {t} : agent'[v] = agent[v]
    <3>1. agent \in [Turns -> AgentStates] /\ next \in AgentPcs /\ agent' = [agent EXCEPT ![t].pc = next]
      BY <1>0, <2>2 DEF AgentPcs
    <3> QED
      BY <3>1 DEF AgentStates
  <2> QED
    BY <1>0, <2>1, <2>2, <2>3, AgentMoves
<1> QED
  BY <1>2, <1>3, <1>5, <1>5a, <1>6 DEF Think

LEMMA ServeSteps ==
  ASSUME Limits, AssistantInv, NEW t \in Turns, Serve(t) \/ Die(t)
  PROVE  AssistantInv'
<1>0. /\ api \in [Turns -> [pc : ApiPcs, conv : Nat, got : Gots]]
      /\ api[t].got \in Gots
      /\ agent \in [Turns -> AgentStates] /\ cart \in Nat
      /\ executions \in Nat
  BY DEF AssistantInv, AssistantTyped
<1> DEFINE Moves(pc, got) ==
      /\ pc \in {"call", "proxy", "store", "closed"} /\ got \in Gots
      /\ api[t].pc \notin {"idle", "closed"}
      /\ api' = [api EXCEPT ![t].pc = pc, ![t].got = got]
      /\ agent' \in [Turns -> AgentStates] /\ \A v \in Turns \ {t} : agent'[v] = agent[v]
      /\ UNCHANGED <<page, asked, convs, Effects>>
      /\ pc = "call" => ApiAt(t, "load") /\ AgentAt(t, "idle")'
      /\ pc = "proxy" => ApiAt(t, "call")
      /\ pc = "store" => ApiAt(t, "proxy") /\ got = "whole"
<1>1. ASSUME NEW pc, NEW got, Moves(pc, got)
      PROVE  AssistantInv'
  BY <1>1, ApiMoves
<1> HIDE DEF Moves
<1>2. ASSUME NEW pc, ApiGoto(t, pc)
      PROVE  api' = [api EXCEPT ![t].pc = pc, ![t].got = api[t].got]
  BY <1>0, <1>2 DEF ApiGoto
<1>3. CASE PersistUser(t)
  BY <1>3, PersistSteps
<1>4. CASE AppendUser(t)
  BY <1>4, AppendSteps DEF AppendUser
<1>5. CASE EndOfStream(t)
  <2>1. Moves("store", api[t].got) \/ Moves("closed", api[t].got)
    BY <1>0, <1>2, <1>5 DEF EndOfStream, Moves, ApiAt
  <2> QED
    BY <1>1, <2>1
<1>6. CASE TimeOut(t) \/ Die(t)
  <2>1. Moves("closed", api[t].got)
    BY <1>0, <1>2, <1>6 DEF TimeOut, Die, Moves, ApiAt
  <2> QED
    BY <1>1, <2>1
<1>7. CASE Store(t)
  <2>1. CASE AppendMessage(t, "assistant", "closed")
    BY <1>7, <2>1, AppendSteps DEF Store
  <2>2. CASE ~AppendMessage(t, "assistant", "closed")
    <3>1. Moves("closed", api[t].got)
      BY <1>0, <1>2, <1>7, <2>2 DEF Store, Moves, ApiAt
    <3> QED
      BY <1>1, <3>1
  <2> QED
    BY <2>1, <2>2
<1>8. CASE LoadHistory(t)
  <2>1. ApiAt(t, "load") /\ ApiGoto(t, "call") /\ UNCHANGED <<page, asked, convs, Effects>>
    BY <1>8 DEF LoadHistory
  <2>2. AgentAt(t, "idle") /\ api[t].conv \in 1..Len(convs) /\ convs \in Seq(Seq(Messages))
    BY <2>1 DEF AssistantInv, AssistantTyped, TurnsInOrder, ApiAt
  <2>3. Range(History(convs[api[t].conv])) \in SUBSET Messages
    BY <2>2, ElementOfSeq, HistoryType
  <2>4. agent' = [agent EXCEPT ![t].seen = Range(History(convs[api[t].conv]))]
    BY <1>8 DEF LoadHistory
  <2>5. /\ agent' \in [Turns -> AgentStates] /\ AgentAt(t, "idle")'
        /\ \A v \in Turns \ {t} : agent'[v] = agent[v]
    BY <1>0, <2>2, <2>3, <2>4 DEF AgentStates, AgentAt
  <2>6. Moves("call", api[t].got)
    BY <1>0, <1>2, <2>1, <2>5 DEF Moves, ApiAt
  <2> QED
    BY <1>1, <2>6
<1>9. CASE CallAgent(t)
  <2>1. ApiAt(t, "call") /\ UNCHANGED <<page, asked, convs, Effects>>
    BY <1>9 DEF CallAgent
  <2>2. CASE ApiGoto(t, "proxy") /\ AgentGoto(t, "check")
    <3>1. agent' \in [Turns -> AgentStates] /\ \A v \in Turns \ {t} : agent'[v] = agent[v]
      BY <1>0, <2>2, ZenonT(40) DEF AgentGoto, AgentStates, AgentPcs
    <3>2. Moves("proxy", api[t].got)
      BY <1>0, <1>2, <2>1, <2>2, <3>1 DEF Moves, ApiAt
    <3> QED
      BY <1>1, <3>2
  <2>3. CASE ~(ApiGoto(t, "proxy") /\ AgentGoto(t, "check"))
    <3>1. api' = [api EXCEPT ![t].pc = "closed", ![t].got = "error"] /\ UNCHANGED agent
      BY <1>9, <2>3 DEF CallAgent
    <3>2. Moves("closed", "error")
      BY <1>0, <2>1, <3>1 DEF Moves, ApiAt, Gots
    <3> QED
      BY <1>1, <3>2
  <2> QED
    BY <2>2, <2>3
<1> QED
  BY <1>3, <1>4, <1>5, <1>6, <1>7, <1>8, <1>9 DEF Serve

LEMMA AssistantInvariance ==
  ASSUME Limits
  PROVE  AssistantSpec => []AssistantInv
<1>1. AssistantInv /\ [AssistantNext]_assistantVars => AssistantInv'
  <2> SUFFICES ASSUME AssistantInv, [AssistantNext]_assistantVars
               PROVE  AssistantInv'
    OBVIOUS
  <2>1. CASE Page
    BY <2>1, PageSteps
  <2>2. CASE \E t \in Turns : Serve(t) \/ Think(t) \/ Die(t)
    BY <2>2, ServeSteps, ThinkSteps
  <2>3. CASE UNCHANGED assistantVars
    <3>1. AssistantTyped'
      BY <2>3 DEF assistantVars, AssistantInv, AssistantTyped
    <3>2. TurnsInOrder' /\ QuestionsStored'
      BY <2>3 DEF assistantVars, AssistantInv, TurnsInOrder, QuestionsStored, ApiAt, AgentAt
    <3>3. AnswersClosed' /\ StoredAnswersAreWhole'
      BY <2>3 DEF assistantVars, AssistantInv, AnswersClosed, StoredAnswersAreWhole, ApiAt
    <3> QED
      BY <3>1, <3>2, <3>3 DEF AssistantInv
  <2> QED
    BY <2>1, <2>2, <2>3 DEF AssistantNext
<1>2. AssistantInit => AssistantInv
  BY AssistantStart
<1> QED
  BY <1>1, <1>2, PTL DEF AssistantSpec

\* The page, the conversations and the turns keep their types.
THEOREM AssistantTypes ==
  ASSUME MaxTurns \in Nat, MaxHistory \in Nat, MaxRounds \in Nat, MaxCalls \in Nat
  PROVE  AssistantSpec => []AssistantTypeOK
<1>1. AssistantInv => AssistantTypeOK
  BY DEF AssistantInv, AssistantTyped, AssistantTypeOK, AgentStates
<1>2. AssistantSpec => []AssistantInv
  BY AssistantInvariance DEF Limits
<1> QED
  BY <1>1, <1>2, PTL

\* For any number of turns, stops, failures and reloads: every answer in the history is one the
\* agent finished, in the conversation of its question and after it.
THEOREM WholeAnswers ==
  ASSUME MaxTurns \in Nat, MaxHistory \in Nat, MaxRounds \in Nat, MaxCalls \in Nat
  PROVE  AssistantSpec => []StoredAnswersAreWhole
<1>1. AssistantInv => StoredAnswersAreWhole
  BY DEF AssistantInv
<1>2. AssistantSpec => []AssistantInv
  BY AssistantInvariance DEF Limits
<1> QED
  BY <1>1, <1>2, PTL


(***************************************************************************)
(* What the page shows and what is stored.  While nothing goes wrong, one  *)
(* turn at a time is under way, that of the page, and of the others only   *)
(* the answer may still have to be stored.                                 *)
(***************************************************************************)
MessagesOf(role, S) == {Message(role, t) : t \in S}
TurnsOf(c) == {v \in Turns : api[v].conv = c}
TurnsAt(c, pcs) == {v \in TurnsOf(c) : api[v].pc \in pcs}
Written == {"load", "call", "proxy", "store", "closed"}

\* The question is stored before the history is read, the answer when the turn is over.
ConvsHold ==
  \A c \in 1..Len(convs) :
    Range(convs[c]) = MessagesOf("user", TurnsAt(c, Written)) \cup MessagesOf("assistant", TurnsAt(c, {"closed"}))
\* A page that knows its conversation shows all its questions, and all answers but the one it waits
\* for; one that does not know it yet shows the question it has asked.
PageHolds ==
  Range(page.shown) =
    IF page.conv = 0 THEN (IF page.busy = 0 THEN {} ELSE {Message("user", page.busy)})
    ELSE MessagesOf("user", TurnsOf(page.conv)) \cup MessagesOf("assistant", TurnsOf(page.conv) \ {page.busy})
\* The conversation of the question the page waits for is the page's, or nobody else's.
OwnConv ==
  page.busy # 0 =>
    /\ page.conv # 0 => api[page.busy].conv = page.conv
    /\ page.conv = 0 => \A v \in Turns \ {page.busy} : api[v].conv # 0 => api[v].conv # api[page.busy].conv
    /\ page.got = "whole" => page.conv # 0
OneUnderWay ==
  \A t \in Turns :
    /\ api[t].got # "error"
    /\ api[t].got # "none" => api[t].conv # 0
    /\ ApiAt(t, "idle") => api[t].conv = 0
    /\ api[t].pc \notin {"idle", "store", "closed"} => t = page.busy
    /\ ApiAt(t, "closed") => api[t].got = "whole"
Smooth == page.got # "error" /\ OneUnderWay /\ OwnConv /\ ConvsHold /\ PageHolds

LEMMA RangeAppended ==
  ASSUME NEW S, NEW s \in Seq(S), NEW e \in S
  PROVE  Range(Append(s, e)) = Range(s) \cup {e}
<1>1. /\ Append(s, e) \in Seq(S) /\ Len(s) \in Nat /\ Len(Append(s, e)) = Len(s) + 1
      /\ \A i \in 1..Len(s) : Append(s, e)[i] = s[i]
      /\ Append(s, e)[Len(s) + 1] = e
  BY AppendProperties, LenProperties
<1>2. Range(s) = {s[i] : i \in 1..Len(s)}
  BY LenProperties DEF Range
<1>3. Range(Append(s, e)) = {Append(s, e)[i] : i \in 1..(Len(s) + 1)}
  BY <1>1, LenProperties DEF Range
<1> QED
  BY <1>1, <1>2, <1>3

LEMMA RangeNothing == Range(<<>>) = {}
  BY DEF Range

\* When no turn is under way, every question of a conversation is stored with its answer.
LEMMA AllStored ==
  ASSUME AssistantInv, OneUnderWay, NEW c, c # 0, \A t \in Turns : api[t].pc \in {"idle", "closed"}
  PROVE  TurnsAt(c, Written) = TurnsOf(c) /\ TurnsAt(c, {"closed"}) = TurnsOf(c)
  BY DEF TurnsAt, TurnsOf, Written, OneUnderWay, ApiAt

\* The conversations hold what they should when none is written and no turn moves out of a class.
LEMMA ConvsStay ==
  ASSUME ConvsHold, UNCHANGED convs, \A v \in Turns : api'[v].conv = api[v].conv,
         \A v \in Turns : (api'[v].pc \in Written <=> api[v].pc \in Written)
                          /\ (api'[v].pc = "closed" <=> api[v].pc = "closed")
  PROVE  ConvsHold'
<1>1. \A c : TurnsAt(c, Written)' = TurnsAt(c, Written) /\ TurnsAt(c, {"closed"})' = TurnsAt(c, {"closed"})
  BY DEF TurnsAt, TurnsOf
<1>2. ConvsHold' <=> \A c \in 1..Len(convs') :
    Range(convs'[c]) = MessagesOf("user", TurnsAt(c, Written)') \cup MessagesOf("assistant", TurnsAt(c, {"closed"})')
  BY DEF ConvsHold, MessagesOf, Message
<1> QED
  BY <1>1, <1>2 DEF ConvsHold

LEMMA PageStays ==
  ASSUME PageHolds, UNCHANGED page, \A v \in Turns : api'[v].conv = api[v].conv
  PROVE  PageHolds'
<1>1. {v \in Turns : api'[v].conv = page'.conv} = {v \in Turns : api[v].conv = page.conv}
  OBVIOUS
<1> QED
  BY <1>1 DEF PageHolds, TurnsOf, MessagesOf, Message

\* A page that no longer waits, or takes up what came, without a turn moving.
LEMMA PageMoves ==
  ASSUME AssistantInv, Smooth, UNCHANGED <<convs, api>>,
         page'.got # "error", page'.busy \in {0, page.busy},
         page'.busy # page.busy => api[page.busy].pc \in {"idle", "store", "closed"},
         OwnConv', PageHolds'
  PROVE  Smooth'
<1>1. ConvsHold'
  BY ConvsStay DEF Smooth
<1>2. OneUnderWay'
  BY DEF Smooth, OneUnderWay, ApiAt
<1> QED
  BY <1>1, <1>2 DEF Smooth

LEMMA SmoothPage ==
  ASSUME Limits, AssistantInv, Smooth, Page, ~rough'
  PROVE  Smooth'
<1> USE DEF Turns, Limits
<1>0. /\ OneUnderWay /\ OwnConv /\ ConvsHold /\ PageHolds /\ page.got # "error"
      /\ page \in [conv : Nat, busy : {0} \cup Turns, got : Gots, shown : Seq(Messages)]
      /\ api \in [Turns -> [pc : ApiPcs, conv : Nat, got : Gots]]
      /\ asked \in 0..MaxTurns /\ 0 \notin Turns
  BY DEF Smooth, AssistantInv, AssistantTyped
<1>1. CASE Submit
  <2> DEFINE n == asked + 1
  <2>1. n \in Turns /\ ApiAt(n, "idle") /\ page.busy = 0 /\ api[n].conv = 0 /\ n # 0
    BY <1>0, <1>1 DEF Submit, AssistantInv, TurnsInOrder, OneUnderWay
  <2>2. /\ page'.busy = n /\ page'.got = "none" /\ page'.conv = page.conv
        /\ page'.shown = Append(page.shown, Message("user", n))
        /\ api' = [api EXCEPT ![n] = [pc |-> "persist", conv |-> page.conv, got |-> "none"]]
        /\ UNCHANGED convs
    BY <1>0, <1>1 DEF Submit
  <2>3. /\ api'[n].pc = "persist" /\ api'[n].conv = page.conv /\ api'[n].got = "none"
        /\ \A v \in Turns \ {n} : api'[v] = api[v]
    BY <1>0, <2>1, <2>2
  <2> HIDE DEF n
  <2>4. OneUnderWay'
    <3>1. \A v \in Turns : api[v].pc \in {"idle", "store", "closed"}
      BY <1>0, <2>1 DEF OneUnderWay
    <3> QED
      BY <1>0, <2>2, <2>3, <3>1 DEF OneUnderWay, ApiAt
  <2>5. OwnConv'
    BY <2>2, <2>3 DEF OwnConv
  <2>6. ConvsHold'
    <3>1. ASSUME NEW c \in 1..Len(convs), NEW pcs \in {Written, {"closed"}}
          PROVE  TurnsAt(c, pcs)' = TurnsAt(c, pcs)
      <4>1. api[n].pc \notin pcs /\ api'[n].pc \notin pcs
        BY <2>1, <2>3, <3>1 DEF ApiAt, Written
      <4> QED
        BY <2>3, <4>1 DEF TurnsAt, TurnsOf
    <3> QED
      BY <1>0, <2>2, <3>1 DEF ConvsHold, MessagesOf, Message
  <2>7. PageHolds'
    <3>1. Range(page'.shown) = Range(page.shown) \cup {Message("user", n)}
      <4>1. Message("user", n) \in Messages
        BY <2>1 DEF Message, Messages
      <4> QED
        BY <1>0, <2>2, <4>1, RangeAppended
    <3>2. CASE page.conv = 0
      BY <1>0, <2>1, <2>2, <3>1, <3>2 DEF PageHolds, Message
    <3>3. CASE page.conv # 0
      <4> DEFINE before == {v \in Turns : api[v].conv = page.conv}
                 after == {v \in Turns : api'[v].conv = page'.conv}
      <4>1. n \notin before /\ after = before \cup {n} /\ 0 \notin before
        BY <1>0, <2>1, <2>2, <2>3, <3>3
      <4>2. Range(page.shown) = {Message("user", v) : v \in before} \cup {Message("assistant", v) : v \in before}
        <5>1. before \ {0} = before
          BY <4>1
        <5> HIDE DEF before
        <5>2. Range(page.shown) = {Message("user", v) : v \in before} \cup {Message("assistant", v) : v \in before \ {0}}
          BY <1>0, <2>1, <3>3 DEF PageHolds, TurnsOf, MessagesOf, before
        <5> QED
          BY <5>1, <5>2
      <4>3. PageHolds' <=> Range(page'.shown) = {Message("user", v) : v \in after} \cup {Message("assistant", v) : v \in after \ {n}}
        BY <2>2, <3>3 DEF PageHolds, TurnsOf, MessagesOf, Message
      <4> HIDE DEF before, after
      <4>4. after \ {n} = before
        BY <4>1
      <4>5. {Message("user", v) : v \in after} = {Message("user", v) : v \in before} \cup {Message("user", n)}
        BY <4>1
      <4> QED
        BY <3>1, <4>2, <4>3, <4>4, <4>5
    <3> QED
      BY <3>2, <3>3
  <2> QED
    BY <2>2, <2>4, <2>5, <2>6, <2>7 DEF Smooth
<1>2. CASE Receive
  <2> PICK b : b = page.busy
    OBVIOUS
  <2>1. /\ b \in Turns /\ UNCHANGED <<convs, api>>
        /\ page'.busy = b /\ page'.shown = page.shown /\ page'.got = api[b].got
        /\ page'.conv = IF api[b].got = "whole" THEN api[b].conv ELSE page.conv
    BY <1>0, <1>2 DEF Receive
  <2>2. api[b].got = "whole" => api[b].conv # 0
    BY <1>0, <2>1 DEF OneUnderWay
  <2>3. OwnConv'
    BY <1>0, <2>1, <2>2 DEF OwnConv
  <2>4. PageHolds'
    <3>1. CASE page'.conv = page.conv
      BY <1>0, <2>1, <3>1 DEF PageHolds, TurnsOf, MessagesOf, Message
    <3>2. CASE page'.conv # page.conv
      <4>1. page.conv = 0 /\ page'.conv = api[b].conv /\ api[b].conv # 0
        BY <1>0, <2>1, <2>2, <3>2 DEF OwnConv
      <4>2. {v \in Turns : api'[v].conv = page'.conv} = {b}
        BY <1>0, <2>1, <4>1 DEF OwnConv
      <4>3. Range(page.shown) = {Message("user", b)}
        BY <1>0, <2>1, <4>1 DEF PageHolds
      <4> DEFINE T == {v \in Turns : api'[v].conv = page'.conv}
      <4>4. PageHolds' <=> Range(page'.shown) = {Message("user", v) : v \in T} \cup {Message("assistant", v) : v \in T \ {b}}
        BY <2>1, <4>1 DEF PageHolds, TurnsOf, MessagesOf, Message
      <4>5. T = {b}
        BY <4>2
      <4> HIDE DEF T
      <4> QED
        BY <2>1, <4>3, <4>4, <4>5
    <3> QED
      BY <3>1, <3>2
  <2>5. page'.got # "error"
    BY <1>0, <2>1 DEF OneUnderWay
  <2> QED
    BY <2>1, <2>3, <2>4, <2>5, PageMoves
<1>3. CASE Finish
  <2> PICK b : b = page.busy
    OBVIOUS
  <2>1. /\ b \in Turns /\ api[b].pc \in {"store", "closed"} /\ api[b].got = page.got
        /\ page' = [page EXCEPT !.busy = 0, !.shown = Answered] /\ UNCHANGED <<convs, api>>
    BY <1>0, <1>3 DEF Finish, OneUnderWay
  <2>2. page.got = "whole"
    BY <1>0, <2>1 DEF OneUnderWay, ApiAt, AssistantInv, TurnsInOrder
  <2>3. page.conv # 0 /\ api[b].conv = page.conv
    BY <1>0, <2>1, <2>2 DEF OwnConv
  <2>4. /\ page'.busy = 0 /\ page'.conv = page.conv /\ page'.got = page.got
        /\ page'.shown = Append(page.shown, Message("assistant", b))
    BY <1>0, <2>1, <2>2 DEF Answered
  <2>5. Range(page'.shown) = Range(page.shown) \cup {Message("assistant", b)}
    <3>1. Message("assistant", b) \in Messages
      BY <2>1 DEF Message, Messages
    <3> QED
      BY <1>0, <2>4, <3>1, RangeAppended
  <2>6. PageHolds'
    <3> DEFINE T == {v \in Turns : api[v].conv = page.conv}
    <3>1. b \in T /\ 0 \notin T
      BY <1>0, <2>1, <2>3
    <3>2. Range(page.shown) = {Message("user", v) : v \in T} \cup {Message("assistant", v) : v \in T \ {b}}
      BY <1>0, <2>1, <2>3 DEF PageHolds, TurnsOf, MessagesOf
    <3>3. PageHolds' <=> Range(page'.shown) = {Message("user", v) : v \in T} \cup {Message("assistant", v) : v \in T \ {0}}
      BY <2>1, <2>3, <2>4 DEF PageHolds, TurnsOf, MessagesOf, Message
    <3> HIDE DEF T
    <3>4. T \ {0} = T /\ {Message("assistant", v) : v \in T} = {Message("assistant", v) : v \in T \ {b}} \cup {Message("assistant", b)}
      BY <3>1
    <3> QED
      BY <2>5, <3>2, <3>3, <3>4
  <2>7. OwnConv'
    BY <2>4 DEF OwnConv
  <2> QED
    BY <1>0, <2>1, <2>4, <2>6, <2>7, PageMoves
<1>4. CASE StopWaiting
  BY <1>4 DEF StopWaiting
<1>5. CASE NewConversation
  <2>1. /\ page'.busy = 0 /\ page.busy = 0 /\ page'.conv = 0 /\ page'.got = "none" /\ page'.shown = <<>>
        /\ UNCHANGED <<convs, api>>
    BY <1>0, <1>5 DEF NewConversation, NewPage
  <2>2. OwnConv' /\ PageHolds'
    BY <2>1, RangeNothing DEF OwnConv, PageHolds
  <2> QED
    BY <2>1, <2>2, PageMoves
<1>6. CASE Reload
  <2> DEFINE stored == IF page.conv = 0 THEN <<>> ELSE convs[page.conv]
  <2>1. /\ Quiet /\ History(stored) = stored
        /\ page' = [NewPage EXCEPT !.conv = page.conv, !.shown = History(stored)]
        /\ UNCHANGED <<convs, api>>
    BY <1>6 DEF Reload
  <2>2. /\ page'.busy = 0 /\ page.busy = 0 /\ page'.conv = page.conv /\ page'.got = "none"
        /\ page'.shown = stored
    BY <1>0, <2>1 DEF NewPage, Quiet
  <2>3. PageHolds'
    <3>1. CASE page.conv = 0
      BY <2>2, <3>1, RangeNothing DEF PageHolds
    <3>2. CASE page.conv # 0
      <4> DEFINE T == {v \in Turns : api[v].conv = page.conv}
      <4>1. page.conv \in 1..Len(convs)
        BY <1>0, <3>2 DEF AssistantInv, AssistantTyped
      <4>2. TurnsAt(page.conv, Written) = T /\ TurnsAt(page.conv, {"closed"}) = T
        BY <1>0, <2>1, <3>2, AllStored DEF Quiet, TurnsOf
      <4>3. Range(convs[page.conv]) = {Message("user", v) : v \in T} \cup {Message("assistant", v) : v \in T}
        <5>1. Range(convs[page.conv]) = MessagesOf("user", TurnsAt(page.conv, Written)) \cup MessagesOf("assistant", TurnsAt(page.conv, {"closed"}))
          BY <1>0, <4>1 DEF ConvsHold
        <5> QED
          BY <4>2, <5>1 DEF MessagesOf
      <4>4. PageHolds' <=> Range(page'.shown) = {Message("user", v) : v \in T} \cup {Message("assistant", v) : v \in T \ {0}}
        BY <2>1, <2>2, <3>2 DEF PageHolds, TurnsOf, MessagesOf, Message
      <4>5. T \ {0} = T
        BY <1>0
      <4>6. page'.shown = convs[page.conv]
        BY <2>2, <3>2
      <4> HIDE DEF T
      <4> QED
        BY <4>3, <4>4, <4>5, <4>6
    <3> QED
      BY <3>1, <3>2
  <2>4. OwnConv'
    BY <2>2 DEF OwnConv
  <2> HIDE DEF stored
  <2> QED
    BY <2>1, <2>2, <2>3, <2>4, PageMoves
<1> QED
  BY <1>1, <1>2, <1>3, <1>4, <1>5, <1>6 DEF Page

\* A turn that moves within what the conversations hold of it.
LEMMA TurnMoves ==
  ASSUME AssistantInv, Smooth, NEW t \in Turns, NEW pc \in {"call", "proxy", "store"},
         api[t].pc \in {"load", "call", "proxy"}, api' = [api EXCEPT ![t].pc = pc],
         UNCHANGED <<page, convs>>
  PROVE  Smooth'
<1>1. /\ api'[t].pc = pc /\ api'[t].conv = api[t].conv /\ api'[t].got = api[t].got
      /\ \A v \in Turns \ {t} : api'[v] = api[v]
  BY DEF AssistantInv, AssistantTyped
<1>2. ConvsHold'
  <2>1. \A v \in Turns : (api'[v].pc \in Written <=> api[v].pc \in Written)
                         /\ (api'[v].pc = "closed" <=> api[v].pc = "closed")
    BY <1>1 DEF Written
  <2> QED
    BY <1>1, <2>1, ConvsStay DEF Smooth
<1>3. PageHolds'
  BY <1>1, PageStays DEF Smooth
<1>4. OneUnderWay' /\ OwnConv' /\ page'.got # "error"
  BY <1>1 DEF Smooth, OneUnderWay, OwnConv, ApiAt
<1> QED
  BY <1>2, <1>3, <1>4 DEF Smooth

\* One more message in a conversation, of a turn that counts from now on.
LEMMA OneMore ==
  ASSUME AssistantInv, Smooth, NEW t \in Turns, NEW role, NEW next,
         \/ role = "user" /\ next = "load" /\ ApiAt(t, "append")
         \/ role = "assistant" /\ next = "closed" /\ ApiAt(t, "store"),
         AppendMessage(t, role, next), UNCHANGED page
  PROVE  Smooth'
<1> PICK c : c = api[t].conv
  OBVIOUS
<1>1. /\ role \in {"user", "assistant"} /\ next \in ApiPcs /\ c # 0
      /\ AssistantTyped /\ convs \in Seq(Seq(Messages)) /\ c \in 1..Len(convs)
  BY DEF ApiPcs, AssistantInv, AssistantTyped, TurnsInOrder, ApiAt
<1>2. Appended(c, role, t, next)
  BY <1>1, Appending
<1>3. /\ Len(convs') = Len(convs) /\ \A k \in 1..Len(convs) : k # c => convs'[k] = convs[k]
      /\ api'[t].pc = next /\ api'[t].conv = c /\ api'[t].got = api[t].got
      /\ \A v \in Turns \ {t} : api'[v] = api[v]
  BY <1>2 DEF Appended
<1>4. Range(convs'[c]) = Range(convs[c]) \cup {Message(role, t)}
  <2>1. convs' = [convs EXCEPT ![c] = Append(convs[c], Message(role, t))]
    BY DEF AppendMessage
  <2>2. convs'[c] = Append(convs[c], Message(role, t)) /\ convs[c] \in Seq(Messages)
    BY <1>1, <2>1, ElementOfSeq
  <2>3. Message(role, t) \in Messages
    BY <1>1 DEF Message, Messages
  <2> QED
    BY <2>2, <2>3, RangeAppended
<1>5. ConvsHold'
  <2> SUFFICES ASSUME NEW k \in 1..Len(convs')
               PROVE  Range(convs'[k]) = MessagesOf("user", TurnsAt(k, Written)') \cup MessagesOf("assistant", TurnsAt(k, {"closed"})')
    BY DEF ConvsHold, MessagesOf, Message
  <2>1. k \in 1..Len(convs)
    BY <1>3
  <2>2. Range(convs[k]) = MessagesOf("user", TurnsAt(k, Written)) \cup MessagesOf("assistant", TurnsAt(k, {"closed"}))
    BY <2>1 DEF Smooth, ConvsHold
  <2>3. CASE k # c
    <3>1. TurnsAt(k, Written)' = TurnsAt(k, Written) /\ TurnsAt(k, {"closed"})' = TurnsAt(k, {"closed"})
      BY <1>3, <2>3 DEF TurnsAt, TurnsOf
    <3> QED
      BY <1>3, <2>1, <2>2, <2>3, <3>1
  <2>4. CASE k = c /\ role = "user"
    <3>1. next = "load" /\ ApiAt(t, "append")
      BY <2>4
    <3>2. TurnsAt(c, Written)' = TurnsAt(c, Written) \cup {t} /\ TurnsAt(c, {"closed"})' = TurnsAt(c, {"closed"})
      BY <1>3, <3>1 DEF TurnsAt, TurnsOf, Written, ApiAt
    <3>3. MessagesOf("user", TurnsAt(c, Written) \cup {t}) = MessagesOf("user", TurnsAt(c, Written)) \cup {Message("user", t)}
      BY DEF MessagesOf
    <3> QED
      BY <1>4, <2>2, <2>4, <3>2, <3>3
  <2>5. CASE k = c /\ role = "assistant"
    <3>1. next = "closed" /\ ApiAt(t, "store")
      BY <2>5
    <3>2. TurnsAt(c, Written)' = TurnsAt(c, Written) /\ TurnsAt(c, {"closed"})' = TurnsAt(c, {"closed"}) \cup {t}
      BY <1>3, <3>1 DEF TurnsAt, TurnsOf, Written, ApiAt
    <3>3. MessagesOf("assistant", TurnsAt(c, {"closed"}) \cup {t})
            = MessagesOf("assistant", TurnsAt(c, {"closed"})) \cup {Message("assistant", t)}
      BY DEF MessagesOf
    <3> QED
      BY <1>4, <2>2, <2>5, <3>2, <3>3
  <2> QED
    BY <1>1, <2>3, <2>4, <2>5
<1>6. PageHolds'
  BY <1>3, PageStays DEF Smooth
<1>7. OneUnderWay' /\ OwnConv' /\ page'.got # "error"
  <2>1. next = "closed" => api[t].got = "whole"
    BY DEF AssistantInv, TurnsInOrder
  <2>2. next = "load" => t = page.busy
    BY DEF Smooth, OneUnderWay, ApiAt
  <2>3. \A v \in Turns : api'[v].conv = api[v].conv /\ api'[v].got = api[v].got
    BY <1>3
  <2>4. next # "idle" /\ (next = "load" \/ next = "closed")
    OBVIOUS
  <2>5. OneUnderWay'
    <3> SUFFICES ASSUME NEW v \in Turns
                 PROVE  /\ api'[v].got # "error"
                        /\ api'[v].got # "none" => api'[v].conv # 0
                        /\ api'[v].pc = "idle" => api'[v].conv = 0
                        /\ api'[v].pc \notin {"idle", "store", "closed"} => v = page.busy
                        /\ api'[v].pc = "closed" => api'[v].got = "whole"
      BY DEF OneUnderWay, ApiAt
    <3>1. CASE v = t
      BY <1>3, <2>1, <2>2, <2>3, <2>4, <3>1 DEF Smooth, OneUnderWay
    <3>2. CASE v # t
      BY <1>3, <2>3, <3>2 DEF Smooth, OneUnderWay, ApiAt
    <3> QED
      BY <3>1, <3>2
  <2>6. OwnConv'
    <3>1. CASE page.busy = 0
      BY <3>1 DEF OwnConv
    <3>2. CASE page.busy # 0
      <4>1. page.busy \in Turns
        BY <3>2 DEF AssistantInv, AssistantTyped
      <4> QED
        BY <2>3, <4>1 DEF Smooth, OwnConv
    <3> QED
      BY <3>1, <3>2
  <2> QED
    BY <2>5, <2>6 DEF Smooth
<1> QED
  BY <1>5, <1>6, <1>7 DEF Smooth

LEMMA SmoothPersist ==
  ASSUME AssistantInv, Smooth, NEW t \in Turns, PersistUser(t)
  PROVE  Smooth'
<1> DEFINE c == IF api[t].conv = 0 THEN Len(convs) + 1 ELSE api[t].conv
<1>1. /\ ApiAt(t, "persist") /\ convs' = (IF c > Len(convs) THEN Append(convs, <<>>) ELSE convs)
      /\ api' = [api EXCEPT ![t].pc = "append", ![t].conv = c] /\ UNCHANGED page
  BY DEF PersistUser
<1>2. /\ convs \in Seq(Seq(Messages)) /\ Len(convs) \in Nat /\ \A v \in Turns : api[v].conv \in 0..Len(convs)
      /\ page.conv \in 0..Len(convs) /\ api \in [Turns -> [pc : ApiPcs, conv : Nat, got : Gots]]
  BY LenProperties DEF AssistantInv, AssistantTyped
<1>3. c \in 1..(Len(convs) + 1) /\ (api[t].conv # 0 => c = api[t].conv)
      /\ (api[t].conv = 0 => c = Len(convs) + 1)
  BY <1>2
<1>4. t = page.busy /\ t # 0
  BY <1>1 DEF Smooth, OneUnderWay, ApiAt, Turns
<1> HIDE DEF c
<1>5. /\ api'[t].pc = "append" /\ api'[t].conv = c /\ api'[t].got = api[t].got
      /\ \A v \in Turns \ {t} : api'[v] = api[v]
  BY <1>1, <1>2
<1>6. /\ \A k \in 1..Len(convs) : convs'[k] = convs[k]
      /\ \A k \in 1..Len(convs') : k \in 1..Len(convs) \/ (k = c /\ api[t].conv = 0 /\ convs'[k] = <<>>)
  <2>1. CASE api[t].conv = 0
    <3>1. <<>> \in Seq(Messages) /\ convs' = Append(convs, <<>>)
      BY <1>1, <1>2, <1>3, <2>1
    <3> QED
      BY <1>2, <1>3, <2>1, <3>1, AppendProperties
  <2>2. CASE api[t].conv # 0
    BY <1>1, <1>2, <1>3, <2>2
  <2> QED
    BY <2>1, <2>2
<1>7. ConvsHold'
  <2> SUFFICES ASSUME NEW k \in 1..Len(convs')
               PROVE  Range(convs'[k]) = MessagesOf("user", TurnsAt(k, Written)') \cup MessagesOf("assistant", TurnsAt(k, {"closed"})')
    BY DEF ConvsHold, MessagesOf, Message
  <2>0. ASSUME NEW pcs \in {Written, {"closed"}}
        PROVE  TurnsAt(k, pcs)' = TurnsAt(k, pcs)
    <3>1. api[t].pc \notin pcs /\ api'[t].pc \notin pcs
      BY <1>1, <1>5 DEF ApiAt, Written
    <3> QED
      BY <1>5, <3>1 DEF TurnsAt, TurnsOf
  <2>1. CASE k \in 1..Len(convs)
    BY <1>6, <2>0, <2>1 DEF Smooth, ConvsHold
  <2>2. CASE k \notin 1..Len(convs)
    <3>1. k = Len(convs) + 1 /\ convs'[k] = <<>>
      BY <1>3, <1>6, <2>2
    <3>2. TurnsOf(k) = {}
      BY <1>2, <3>1 DEF TurnsOf
    <3>3. TurnsAt(k, Written) = {} /\ TurnsAt(k, {"closed"}) = {}
      BY <3>2 DEF TurnsAt
    <3> QED
      BY <2>0, <3>1, <3>3, RangeNothing DEF MessagesOf
  <2> QED
    BY <2>1, <2>2
<1>8. page.conv # 0 => api'[t].conv = api[t].conv
  BY <1>3, <1>4, <1>5 DEF Smooth, OwnConv
<1>9. PageHolds'
  <2>1. CASE page.conv = 0
    BY <1>1, <2>1 DEF Smooth, PageHolds, Message
  <2>2. CASE page.conv # 0
    <3>1. \A v \in Turns : api'[v].conv = api[v].conv
      BY <1>5, <1>8, <2>2
    <3> QED
      BY <1>1, <3>1, PageStays DEF Smooth
  <2> QED
    BY <2>1, <2>2
<1>10. OwnConv'
  <2>1. page.conv # 0 => api'[t].conv = page.conv
    BY <1>4, <1>8 DEF Smooth, OwnConv
  <2>2. ASSUME page.conv = 0, NEW v \in Turns \ {t}, api'[v].conv # 0
        PROVE  api'[v].conv # api'[t].conv
    <3>1. api'[v] = api[v] /\ api[v].conv \in 0..Len(convs)
      BY <1>2, <1>5
    <3>2. CASE api[t].conv = 0
      BY <1>2, <1>3, <1>5, <3>1, <3>2
    <3>3. CASE api[t].conv # 0
      BY <1>3, <1>4, <1>5, <2>2, <3>1, <3>3 DEF Smooth, OwnConv
    <3> QED
      BY <3>2, <3>3
  <2>3. page.got = "whole" => page.conv # 0
    BY <1>4 DEF Smooth, OwnConv
  <2> QED
    BY <1>1, <1>4, <2>1, <2>2, <2>3 DEF OwnConv
<1>11. OneUnderWay'
  <2>1. c # 0
    BY <1>2, <1>3
  <2>2. OneUnderWay
    BY DEF Smooth
  <2>3. /\ api'[t].got # "error" /\ (api'[t].got # "none" => api'[t].conv # 0)
        /\ api'[t].pc = "append" /\ t = page'.busy
    BY <1>1, <1>4, <1>5, <2>1, <2>2 DEF OneUnderWay
  <2>4. ASSUME NEW v \in Turns, v # t
        PROVE  /\ api'[v].got # "error" /\ (api'[v].got # "none" => api'[v].conv # 0)
               /\ ApiAt(v, "idle")' => api'[v].conv = 0
               /\ api'[v].pc \notin {"idle", "store", "closed"} => v = page'.busy
               /\ ApiAt(v, "closed")' => api'[v].got = "whole"
    <3>1. api'[v] = api[v] /\ page'.busy = page.busy
      BY <1>1, <1>5, <2>4
    <3> QED
      BY <2>2, <3>1 DEF OneUnderWay, ApiAt
  <2> QED
    BY <2>3, <2>4 DEF OneUnderWay, ApiAt
<1> QED
  BY <1>1, <1>7, <1>9, <1>10, <1>11 DEF Smooth

LEMMA SmoothServe ==
  ASSUME Limits, AssistantInv, Smooth, NEW t \in Turns, Serve(t) \/ Die(t), ~rough'
  PROVE  Smooth'
<1>1. CASE PersistUser(t)
  BY <1>1, SmoothPersist
<1>2. CASE AppendUser(t)
  BY <1>2, OneMore DEF AppendUser
<1>3. CASE LoadHistory(t) \/ CallAgent(t)
  <2>1. /\ UNCHANGED <<page, convs>> /\ api[t].pc \in {"load", "call"}
        /\ ApiGoto(t, "call") \/ ApiGoto(t, "proxy")
    BY <1>3 DEF LoadHistory, CallAgent, ApiAt
  <2> QED
    BY <2>1, TurnMoves DEF ApiGoto
<1>4. CASE EndOfStream(t)
  <2>1. api[t].got = "whole" /\ api[t].pc = "proxy" /\ ApiGoto(t, "store") /\ UNCHANGED <<page, convs>>
    BY <1>4 DEF EndOfStream, ApiAt, Smooth, OneUnderWay
  <2> QED
    BY <2>1, TurnMoves DEF ApiGoto
<1>5. CASE Store(t)
  BY <1>5, OneMore DEF Store
<1>6. CASE TimeOut(t) \/ Die(t)
  BY <1>6 DEF TimeOut, Die
<1> QED
  BY <1>1, <1>2, <1>3, <1>4, <1>5, <1>6 DEF Serve

LEMMA SmoothThink ==
  ASSUME AssistantInv, Smooth, NEW t \in Turns, Think(t), ~rough'
  PROVE  Smooth'
<1>1. UNCHANGED <<page, convs>>
  BY DEF Think, Check, Complete, RunTool, RecordTool, EmitDelta, EmitDone, EmitError, Write
<1>2. \/ UNCHANGED api
      \/ ApiAt(t, "proxy") /\ \E got \in {"part", "whole"} : api' = [api EXCEPT ![t].got = got]
  BY DEF Think, Check, Complete, RunTool, RecordTool, EmitDelta, EmitDone, EmitError, Write
<1>3. /\ \A v \in Turns : api'[v].pc = api[v].pc /\ api'[v].conv = api[v].conv
      /\ \A v \in Turns : api'[v].got = api[v].got \/ (v = t /\ ApiAt(t, "proxy") /\ api'[v].got \in {"part", "whole"})
  <2>1. CASE UNCHANGED api
    BY <2>1
  <2>2. CASE ~UNCHANGED api
    <3>1. PICK got \in {"part", "whole"} : api' = [api EXCEPT ![t].got = got]
      BY <1>2, <2>2
    <3>2. ApiAt(t, "proxy") /\ api \in [Turns -> [pc : ApiPcs, conv : Nat, got : Gots]]
      BY <1>2, <2>2 DEF AssistantInv, AssistantTyped
    <3> QED
      BY <3>1, <3>2
  <2> QED
    BY <2>1, <2>2
<1>4. ConvsHold'
  BY <1>1, <1>3, ConvsStay DEF Smooth
<1>5. PageHolds'
  BY <1>1, <1>3, PageStays DEF Smooth
<1>6. OwnConv'
  <2>1. page.busy # 0 => page.busy \in Turns
    BY DEF AssistantInv, AssistantTyped
  <2> QED
    BY <1>1, <1>3, <2>1 DEF Smooth, OwnConv
<1>7. OneUnderWay'
  <2>1. ApiAt(t, "proxy") => api[t].conv # 0
    BY DEF AssistantInv, TurnsInOrder, ApiAt
  <2> QED
    BY <1>1, <1>3, <2>1 DEF Smooth, OneUnderWay, ApiAt
<1> QED
  BY <1>1, <1>4, <1>5, <1>6, <1>7 DEF Smooth

\* What goes wrong stays noted.
LEMMA RoughStays ==
  ASSUME [AssistantNext]_assistantVars, rough
  PROVE  rough'
<1>1. CASE Page
  BY <1>1 DEF Page, Submit, Receive, Finish, StopWaiting, NewConversation, Reload
<1>2. ASSUME NEW t \in Turns, Serve(t) \/ Die(t)
      PROVE  rough'
  BY <1>2 DEF Serve, PersistUser, AppendUser, LoadHistory, CallAgent, EndOfStream, Store, TimeOut, Die
<1>3. ASSUME NEW t \in Turns, Think(t)
      PROVE  rough'
  BY <1>3 DEF Think, Check, Complete, RunTool, RecordTool, EmitDelta, EmitDone, EmitError
<1> QED
  BY <1>1, <1>2, <1>3 DEF AssistantNext, assistantVars

\* For any number of turns, questions and pages: while nothing is stopped, lost or cut short, the page
\* at rest shows the messages of its conversation, whenever their answers are stored.
THEOREM ShownIsStored ==
  ASSUME MaxTurns \in Nat, MaxHistory \in Nat, MaxRounds \in Nat, MaxCalls \in Nat
  PROVE  AssistantSpec => []ShownIsTheConversation
<1>1. AssistantInit => (~rough => Smooth)
  <2> SUFFICES ASSUME AssistantInit PROVE Smooth
    OBVIOUS
  <2>1. page.busy = 0 /\ page.conv = 0 /\ page.got = "none" /\ page.shown = <<>> /\ convs = <<>>
    BY DEF AssistantInit, NewPage
  <2>2. OneUnderWay
    BY DEF AssistantInit, OneUnderWay, ApiAt
  <2> QED
    BY <2>1, <2>2, RangeNothing DEF Smooth, OwnConv, ConvsHold, PageHolds
<1>2. AssistantInv /\ (~rough => Smooth) /\ [AssistantNext]_assistantVars => (~rough => Smooth)'
  <2> SUFFICES ASSUME AssistantInv, ~rough => Smooth, [AssistantNext]_assistantVars, ~rough'
               PROVE  Smooth'
    OBVIOUS
  <2>0. Smooth /\ Limits
    BY RoughStays DEF Limits
  <2>1. CASE Page
    BY <2>0, <2>1, SmoothPage
  <2>2. CASE \E t \in Turns : Serve(t) \/ Think(t) \/ Die(t)
    BY <2>0, <2>2, SmoothServe, SmoothThink
  <2>3. CASE UNCHANGED assistantVars
    <3>1. UNCHANGED <<page, convs, api>>
      BY <2>3 DEF assistantVars
    <3>2. ConvsHold' /\ PageHolds'
      BY <2>0, <3>1, ConvsStay, PageStays DEF Smooth
    <3>3. OneUnderWay' /\ OwnConv'
      BY <2>0, <3>1 DEF Smooth, OneUnderWay, OwnConv, ApiAt
    <3> QED
      BY <2>0, <3>1, <3>2, <3>3 DEF Smooth
  <2> QED
    BY <2>1, <2>2, <2>3 DEF AssistantNext
<1>3. AssistantInv /\ (~rough => Smooth) => ShownIsTheConversation
  <2> SUFFICES ASSUME AssistantInv, Smooth, Quiet
               PROVE  Range(page.shown) = IF page.conv = 0 THEN {} ELSE Range(convs[page.conv])
    BY DEF ShownIsTheConversation
  <2>1. CASE page.conv = 0
    BY <2>1 DEF Smooth, PageHolds, Quiet
  <2>2. CASE page.conv # 0
    <3>1. page.conv \in 1..Len(convs) /\ page.busy = 0 /\ page.busy \notin TurnsOf(page.conv)
      BY <2>2 DEF AssistantInv, AssistantTyped, Quiet, TurnsOf, Turns
    <3>2. /\ TurnsAt(page.conv, Written) = TurnsOf(page.conv)
          /\ TurnsAt(page.conv, {"closed"}) = TurnsOf(page.conv)
      BY <2>2, AllStored DEF Smooth, Quiet
    <3>3. TurnsOf(page.conv) \ {page.busy} = TurnsOf(page.conv)
      BY <3>1
    <3>4. Range(page.shown) = MessagesOf("user", TurnsOf(page.conv)) \cup MessagesOf("assistant", TurnsOf(page.conv) \ {page.busy})
      BY <2>2 DEF Smooth, PageHolds
    <3>5. Range(convs[page.conv]) = MessagesOf("user", TurnsAt(page.conv, Written)) \cup MessagesOf("assistant", TurnsAt(page.conv, {"closed"}))
      BY <3>1 DEF Smooth, ConvsHold
    <3> QED
      BY <2>2, <3>2, <3>3, <3>4, <3>5
  <2> QED
    BY <2>1, <2>2
<1>4. AssistantSpec => []AssistantInv
  BY AssistantInvariance DEF Limits
<1> QED
  BY <1>1, <1>2, <1>3, <1>4, PTL DEF AssistantSpec

-----------------------------------------------------------------------------
(***************************************************************************)
(* Sums of columns.                                                        *)
(***************************************************************************)
Adds(s, f) ==
  f \in [0..Len(s) -> Int] /\ f[0] = 0 /\ \A n \in 1..Len(s) : f[n] = f[n - 1] + s[n]

LEMMA Column ==
  ASSUME NEW N \in Nat, NEW S, NEW s \in [1..N -> S]
  PROVE  s \in Seq(S) /\ Len(s) = N
  OBVIOUS

\* The loop of reduce has a history, which ends in the sum.
LEMMA SumAdds ==
  ASSUME NEW N \in Nat, NEW s \in [1..N -> Int]
  PROVE  \E f : Adds(s, f) /\ SumOf(s) = f[N]
<1> DEFINE step == [n \in 1..N |-> [x \in Int |-> x + s[n]]]
           upTo == CHOOSE g : g = [n \in 0..Len(s) |-> IF n = 0 THEN 0 ELSE g[n - 1] + s[n]]
<1>1. s \in Seq(Int) /\ Len(s) = N /\ \A n \in 1..N : s[n] \in Int
  BY Column
<1>2. step \in [1..N -> [Int -> Int]]
  BY <1>1
<1>3. PICK f : IsRun(f, N, Int, 0, step)
  <2> HIDE DEF step
  <2>1. 0 \in Int
    OBVIOUS
  <2> QED
    BY <1>2, <2>1, LoopExists
<1>4. f \in [0..N -> Int] /\ f[0] = 0 /\ \A n \in 1..N : f[n] = step[n][f[n - 1]]
  BY <1>3 DEF IsRun
<1>5. \A n \in 1..N : f[n] = f[n - 1] + s[n]
  <2> SUFFICES ASSUME NEW n \in 1..N PROVE f[n] = f[n - 1] + s[n]
    OBVIOUS
  <2>1. f[n - 1] \in Int
    BY <1>4
  <2> QED
    BY <1>4, <2>1
<1> HIDE DEF step
<1>6. f = [n \in 0..N |-> IF n = 0 THEN 0 ELSE f[n - 1] + s[n]]
  <2>1. \A n \in 0..N : f[n] = IF n = 0 THEN 0 ELSE f[n - 1] + s[n]
    BY <1>4, <1>5
  <2> QED
    BY <1>4, <2>1
<1>7. \E g : g = [n \in 0..Len(s) |-> IF n = 0 THEN 0 ELSE g[n - 1] + s[n]]
  BY <1>1, <1>6
<1>8. upTo = [n \in 0..Len(s) |-> IF n = 0 THEN 0 ELSE upTo[n - 1] + s[n]]
  BY <1>7
<1>9. SumOf(s) = upTo[N]
  BY <1>1 DEF SumOf
<1> HIDE DEF upTo
<1>10. \A n \in 0..N : upTo[n] = IF n = 0 THEN 0 ELSE upTo[n - 1] + s[n]
  BY <1>1, <1>8
<1> DEFINE S == {n \in Nat : n <= N => upTo[n] = f[n]}
<1>11. 0 \in S
  BY <1>4, <1>10
<1>12. ASSUME NEW n \in Nat, n \in S
       PROVE  n + 1 \in S
  <2> SUFFICES ASSUME n + 1 <= N PROVE upTo[n + 1] = f[n + 1]
    OBVIOUS
  <2>1. upTo[n] = f[n]
    BY <1>12
  <2>2. n + 1 \in 1..N /\ n + 1 \in 0..N /\ n + 1 # 0 /\ (n + 1) - 1 = n
    OBVIOUS
  <2>3. upTo[n + 1] = upTo[(n + 1) - 1] + s[n + 1]
    BY <1>10, <2>2
  <2>4. f[n + 1] = f[(n + 1) - 1] + s[n + 1]
    BY <1>5, <2>2
  <2> QED
    BY <2>1, <2>2, <2>3, <2>4
<1>13. Nat \subseteq S
  <2> HIDE DEF S
  <2> QED
    BY <1>11, <1>12, Induction
<1>14. upTo[N] = f[N]
  BY <1>13
<1> QED
  BY <1>1, <1>4, <1>5, <1>9, <1>14 DEF Adds

LEMMA SumInt ==
  ASSUME NEW N \in Nat, NEW s \in [1..N -> Int]
  PROVE  SumOf(s) \in Int
<1>1. PICK f : Adds(s, f) /\ SumOf(s) = f[N]
  BY SumAdds
<1> QED
  BY <1>1, Column DEF Adds

\* The sum of a difference is the difference of the sums.
LEMMA SumMinus ==
  ASSUME NEW N \in Nat, NEW a \in [1..N -> Int], NEW b \in [1..N -> Int], NEW c \in [1..N -> Int],
         \A i \in 1..N : c[i] = a[i] - b[i]
  PROVE  SumOf(c) = SumOf(a) - SumOf(b)
<1>1. PICK f : Adds(a, f) /\ SumOf(a) = f[N]
  BY SumAdds
<1>2. PICK g : Adds(b, g) /\ SumOf(b) = g[N]
  BY SumAdds
<1>3. PICK h : Adds(c, h) /\ SumOf(c) = h[N]
  BY SumAdds
<1>4. Len(a) = N /\ Len(b) = N /\ Len(c) = N
  BY Column
<1> DEFINE S == {n \in Nat : n <= N => h[n] = f[n] - g[n]}
<1>5. 0 \in S
  BY <1>1, <1>2, <1>3 DEF Adds
<1>6. ASSUME NEW n \in Nat, n \in S
      PROVE  n + 1 \in S
  <2> SUFFICES ASSUME n + 1 <= N PROVE h[n + 1] = f[n + 1] - g[n + 1]
    OBVIOUS
  <2> DEFINE m == n + 1
  <2>1. m \in 1..N /\ m - 1 = n
    OBVIOUS
  <2>2. f[m] = f[n] + a[m] /\ g[m] = g[n] + b[m] /\ h[m] = h[n] + c[m]
    <3> HIDE DEF m
    <3> QED
      BY <1>1, <1>2, <1>3, <1>4, <2>1 DEF Adds
  <2>3. n \in 0..N /\ h[n] = f[n] - g[n]
    BY <1>6
  <2>4. f[n] \in Int /\ g[n] \in Int /\ a[m] \in Int /\ b[m] \in Int
    BY <1>1, <1>2, <1>4, <2>1, <2>3 DEF Adds
  <2>5. c[m] = a[m] - b[m]
    BY <2>1
  <2> HIDE DEF m
  <2> QED
    BY <2>2, <2>3, <2>4, <2>5 DEF m
<1>7. Nat \subseteq S
  <2> HIDE DEF S
  <2> QED
    BY <1>5, <1>6, Induction
<1>8. h[N] = f[N] - g[N]
  BY <1>7
<1> QED
  BY <1>1, <1>2, <1>3, <1>8

LEMMA SumPlus ==
  ASSUME NEW N \in Nat, NEW a \in [1..N -> Int], NEW b \in [1..N -> Int], NEW c \in [1..N -> Int],
         \A i \in 1..N : c[i] = a[i] + b[i]
  PROVE  SumOf(c) = SumOf(a) + SumOf(b)
<1>1. \A i \in 1..N : a[i] = c[i] - b[i]
  OBVIOUS
<1>2. SumOf(a) = SumOf(c) - SumOf(b)
  BY <1>1, SumMinus
<1>3. SumOf(a) \in Int /\ SumOf(b) \in Int /\ SumOf(c) \in Int
  BY SumInt
<1> QED
  BY <1>2, <1>3

LEMMA SumZero ==
  ASSUME NEW N \in Nat, NEW a \in [1..N -> Int], \A i \in 1..N : a[i] = 0
  PROVE  SumOf(a) = 0
<1>1. \A i \in 1..N : a[i] = a[i] - a[i]
  OBVIOUS
<1>2. SumOf(a) = SumOf(a) - SumOf(a)
  BY <1>1, SumMinus
<1>3. SumOf(a) \in Int
  BY SumInt
<1> QED
  BY <1>2, <1>3

LEMMA SumNatural ==
  ASSUME NEW N \in Nat, NEW a \in [1..N -> Int], \A i \in 1..N : a[i] >= 0
  PROVE  SumOf(a) \in Nat
<1>1. PICK f : Adds(a, f) /\ SumOf(a) = f[N]
  BY SumAdds
<1>2. Len(a) = N
  BY Column
<1> DEFINE S == {n \in Nat : n <= N => f[n] \in Nat}
<1>3. 0 \in S
  BY <1>1 DEF Adds
<1>4. ASSUME NEW n \in Nat, n \in S
      PROVE  n + 1 \in S
  <2> SUFFICES ASSUME n + 1 <= N PROVE f[n + 1] \in Nat
    OBVIOUS
  <2> DEFINE m == n + 1
  <2>1. m \in 1..N /\ m - 1 = n /\ f[n] \in Nat
    BY <1>4
  <2>2. a[m] \in Int /\ a[m] >= 0
    BY <2>1
  <2>3. f[m] = f[n] + a[m]
    <3> HIDE DEF m
    <3> QED
      BY <1>1, <1>2, <2>1 DEF Adds
  <2> QED
    BY <2>1, <2>2, <2>3
<1>5. Nat \subseteq S
  <2> HIDE DEF S
  <2> QED
    BY <1>3, <1>4, Induction
<1> QED
  BY <1>1, <1>5

\* The last entry is what the sum adds to that of the others.
LEMMA SumLast ==
  ASSUME NEW N \in Nat, N > 0, NEW a \in [1..N -> Int], NEW b \in [1..(N - 1) -> Int],
         \A i \in 1..(N - 1) : b[i] = a[i]
  PROVE  SumOf(a) = SumOf(b) + a[N]
<1>1. PICK f : Adds(a, f) /\ SumOf(a) = f[N]
  BY SumAdds
<1>2. PICK g : Adds(b, g) /\ SumOf(b) = g[N - 1]
  BY SumAdds
<1>3. Len(a) = N /\ Len(b) = N - 1
  <2>1. N - 1 \in Nat
    OBVIOUS
  <2> QED
    BY <2>1, Column
<1> DEFINE S == {n \in Nat : n <= N - 1 => f[n] = g[n]}
<1>4. 0 \in S
  BY <1>1, <1>2 DEF Adds
<1>5. ASSUME NEW n \in Nat, n \in S
      PROVE  n + 1 \in S
  <2> SUFFICES ASSUME n + 1 <= N - 1 PROVE f[n + 1] = g[n + 1]
    OBVIOUS
  <2> DEFINE m == n + 1
  <2>1. m \in 1..N /\ m \in 1..(N - 1) /\ m - 1 = n /\ f[n] = g[n]
    BY <1>5
  <2>2. f[m] = f[n] + a[m] /\ g[m] = g[n] + b[m]
    <3> HIDE DEF m
    <3> QED
      BY <1>1, <1>2, <1>3, <2>1 DEF Adds
  <2>3. b[m] = a[m]
    BY <2>1
  <2> QED
    BY <2>1, <2>2, <2>3
<1>6. Nat \subseteq S
  <2> HIDE DEF S
  <2> QED
    BY <1>4, <1>5, Induction
<1>7. f[N - 1] = g[N - 1]
  BY <1>6
<1>8. N \in 1..N /\ f[N] = f[N - 1] + a[N]
  BY <1>1, <1>3 DEF Adds
<1> QED
  BY <1>1, <1>2, <1>7, <1>8

\* What a sum of columns has when all but one are empty.
LEMMA SumSingle ==
  ASSUME NEW N \in Nat, NEW a \in [1..N -> Int], NEW k \in 1..N, \A i \in 1..N : i # k => a[i] = 0
  PROVE  SumOf(a) = a[k]
<1>1. PICK f : Adds(a, f) /\ SumOf(a) = f[N]
  BY SumAdds
<1>2. Len(a) = N
  BY Column
<1> DEFINE S == {n \in Nat : n <= N => f[n] = IF n < k THEN 0 ELSE a[k]}
<1>3. 0 \in S
  BY <1>1 DEF Adds
<1>4. ASSUME NEW n \in Nat, n \in S
      PROVE  n + 1 \in S
  <2> SUFFICES ASSUME n + 1 <= N PROVE f[n + 1] = IF n + 1 < k THEN 0 ELSE a[k]
    OBVIOUS
  <2> DEFINE m == n + 1
  <2>1. m \in 1..N /\ m - 1 = n /\ f[n] = IF n < k THEN 0 ELSE a[k]
    BY <1>4
  <2>2. f[m] = f[n] + a[m]
    <3> HIDE DEF m
    <3> QED
      BY <1>1, <1>2, <2>1 DEF Adds
  <2>3. a[m] \in Int /\ a[k] \in Int /\ (m # k => a[m] = 0)
    BY <2>1
  <2>4. CASE m < k
    BY <2>1, <2>2, <2>3, <2>4
  <2>5. CASE m = k
    BY <2>1, <2>2, <2>3, <2>5
  <2>6. CASE m > k
    BY <2>1, <2>2, <2>3, <2>6
  <2> QED
    BY <2>4, <2>5, <2>6
<1>5. Nat \subseteq S
  <2> HIDE DEF S
  <2> QED
    BY <1>3, <1>4, Induction
<1>6. f[N] = a[k]
  BY <1>5
<1> QED
  BY <1>1, <1>6

\* A sum follows the one column that changes.
LEMMA SumChange ==
  ASSUME NEW N \in Nat, NEW a \in [1..N -> Int], NEW b \in [1..N -> Int], NEW k \in 1..N,
         \A i \in 1..N : i # k => b[i] = a[i]
  PROVE  SumOf(b) = SumOf(a) + b[k] - a[k]
<1>1. PICK c \in [1..N -> Int] : \A i \in 1..N : c[i] = b[i] - a[i]
  <2> DEFINE d == [i \in 1..N |-> b[i] - a[i]]
  <2>1. d \in [1..N -> Int] /\ \A i \in 1..N : d[i] = b[i] - a[i]
    OBVIOUS
  <2> HIDE DEF d
  <2> QED
    BY <2>1
<1>2. \A i \in 1..N : i # k => c[i] = 0
  BY <1>1
<1>3. SumOf(c) = c[k]
  BY <1>1, <1>2, SumSingle
<1>4. SumOf(c) = SumOf(b) - SumOf(a)
  BY <1>1, SumMinus
<1>5. SumOf(a) \in Int /\ SumOf(b) \in Int /\ a[k] \in Int /\ b[k] \in Int
  BY SumInt
<1>6. SumOf(c) = b[k] - a[k]
  BY <1>1, <1>3
<1>7. \A x, y, u, v \in Int : x - y = u - v => x = y + u - v
  OBVIOUS
<1> QED
  BY <1>4, <1>5, <1>6, <1>7

-----------------------------------------------------------------------------
(***************************************************************************)
(* Pricing: rows, and the arithmetic of one rule.                          *)
(***************************************************************************)
WorkingRow == [unit : Int, qty : Int, total : Int, discount : Int,
            currency : STRING, inclusive : BOOLEAN]
AppliedRow == [id : {p.id : p \in Promotions}, amount : Int]
RuleRow == [promotion : Promotions, stage : {"item", "coupon", "cart"}]

TotalOf(lines) == [i \in 1..Len(lines) |-> lines[i].total]
DiscountOf(lines) == [i \in 1..Len(lines) |-> lines[i].discount]
AmountOf(rows) == [i \in 1..Len(rows) |-> rows[i].amount]

LEMMA Columns ==
  ASSUME NEW lines \in Seq(WorkingRow)
  PROVE  /\ Len(lines) \in Nat /\ \A i \in 1..Len(lines) : lines[i] \in WorkingRow
         /\ TotalOf(lines) \in [1..Len(lines) -> Int] /\ DiscountOf(lines) \in [1..Len(lines) -> Int]
         /\ Totals(lines) = SumOf(TotalOf(lines)) /\ Totals(lines) \in Int
<1>1. Len(lines) \in Nat /\ \A i \in 1..Len(lines) : lines[i] \in WorkingRow
  OBVIOUS
<1>2. TotalOf(lines) \in [1..Len(lines) -> Int] /\ DiscountOf(lines) \in [1..Len(lines) -> Int]
  BY <1>1 DEF TotalOf, DiscountOf, WorkingRow
<1>3. Totals(lines) = SumOf(TotalOf(lines))
  BY DEF Totals, TotalOf
<1> QED
  BY <1>1, <1>2, <1>3, SumInt

LEMMA AmountsAppended ==
  ASSUME NEW rows \in Seq(AppliedRow), NEW x \in AppliedRow
  PROVE  /\ SumOf(AmountOf(rows)) \in Int
         /\ SumOf(AmountOf(Append(rows, x))) = SumOf(AmountOf(rows)) + x.amount
<1> DEFINE longer == Append(rows, x)  N == Len(rows) + 1
<1>1. Len(rows) \in Nat /\ \A i \in 1..Len(rows) : rows[i] \in AppliedRow
  OBVIOUS
<1>2. /\ longer \in Seq(AppliedRow) /\ Len(longer) = N /\ longer[N] = x
      /\ \A i \in 1..Len(rows) : longer[i] = rows[i]
  OBVIOUS
<1>3. N \in Nat /\ N > 0 /\ N - 1 = Len(rows) /\ \A i \in 1..N : longer[i] \in AppliedRow
  BY <1>1, <1>2
<1> HIDE DEF longer, N
<1>4. AmountOf(rows) \in [1..(N - 1) -> Int]
  BY <1>1, <1>3 DEF AmountOf, AppliedRow
<1>5. AmountOf(longer) \in [1..N -> Int]
  BY <1>2, <1>3 DEF AmountOf, AppliedRow
<1>6. \A i \in 1..(N - 1) : AmountOf(rows)[i] = AmountOf(longer)[i]
  BY <1>2, <1>3 DEF AmountOf
<1>7. SumOf(AmountOf(longer)) = SumOf(AmountOf(rows)) + AmountOf(longer)[N]
  BY <1>3, <1>4, <1>5, <1>6, SumLast
<1>8. AmountOf(longer)[N] = x.amount
  BY <1>2, <1>3 DEF AmountOf
<1>9. SumOf(AmountOf(rows)) \in Int
  BY <1>3, <1>4, SumInt
<1> QED
  BY <1>7, <1>8, <1>9 DEF longer

LEMMA LineLess ==
  ASSUME NEW line \in WorkingRow, NEW x \in Int
  PROVE  /\ Less(line, x) \in WorkingRow
         /\ Less(line, x).total = line.total - x /\ Less(line, x).discount = line.discount + x
<1> PICK d, e : d = line.discount + x /\ e = line.total - x
  OBVIOUS
<1>1. d \in Int /\ e \in Int
  BY DEF WorkingRow
<1>2. Less(line, x) = [line EXCEPT !.discount = d, !.total = e]
  BY Zenon DEF Less
<1>3. /\ [line EXCEPT !.discount = d, !.total = e].total = e
      /\ [line EXCEPT !.discount = d, !.total = e].discount = d
  BY <1>1 DEF WorkingRow
<1>4. [line EXCEPT !.discount = d, !.total = e] \in WorkingRow
  BY <1>1 DEF WorkingRow
<1> QED
  BY <1>2, <1>3, <1>4

\* Lines bear what is taken off them.
LEMMA OffTaken ==
  ASSUME NEW lines \in Seq(WorkingRow), NEW amounts \in [1..Len(lines) -> Int]
  PROVE  /\ Off(lines, amounts) \in Seq(WorkingRow) /\ Len(Off(lines, amounts)) = Len(lines)
         /\ Totals(Off(lines, amounts)) = Totals(lines) - SumOf(amounts)
         /\ SumOf(DiscountOf(Off(lines, amounts))) = SumOf(DiscountOf(lines)) + SumOf(amounts)
         /\ \A i \in 1..Len(lines) : Off(lines, amounts)[i].total = lines[i].total - amounts[i]
<1>1. PICK N : N = Len(lines)
  OBVIOUS
<1>2. PICK new : new = Off(lines, amounts)
  OBVIOUS
<1>3. /\ N \in Nat /\ (\A i \in 1..N : lines[i] \in WorkingRow /\ amounts[i] \in Int)
  BY <1>1, Columns
<1>4. \A i \in 1..N : /\ new[i] \in WorkingRow
                      /\ new[i].total = lines[i].total - amounts[i]
                      /\ new[i].discount = lines[i].discount + amounts[i]
  BY <1>1, <1>2, <1>3, LineLess DEF Off
<1>5. new \in [1..N -> WorkingRow]
  BY <1>1, <1>2, <1>4 DEF Off
<1>6. new \in Seq(WorkingRow) /\ Len(new) = N
  BY <1>3, <1>5, Column
<1>7. PICK b : b = amounts
  OBVIOUS
<1>8. b \in [1..N -> Int]
  BY <1>1, <1>7
<1>9. SumOf(TotalOf(new)) = SumOf(TotalOf(lines)) - SumOf(amounts)
  <2>1. PICK a, c : a = TotalOf(lines) /\ c = TotalOf(new)
    OBVIOUS
  <2>2. a \in [1..N -> Int] /\ c \in [1..N -> Int]
    BY <1>1, <1>6, <2>1, Columns
  <2>3. \A i \in 1..N : c[i] = a[i] - b[i]
    BY <1>1, <1>4, <1>6, <1>7, <2>1 DEF TotalOf
  <2>4. SumOf(c) = SumOf(a) - SumOf(b)
    BY <1>3, <1>8, <2>2, <2>3, SumMinus
  <2> QED
    BY <1>7, <2>1, <2>4
<1>10. SumOf(DiscountOf(new)) = SumOf(DiscountOf(lines)) + SumOf(amounts)
  <2>1. PICK a, c : a = DiscountOf(lines) /\ c = DiscountOf(new)
    OBVIOUS
  <2>2. a \in [1..N -> Int] /\ c \in [1..N -> Int]
    BY <1>1, <1>6, <2>1, Columns
  <2>3. \A i \in 1..N : c[i] = a[i] + b[i]
    BY <1>1, <1>4, <1>6, <1>7, <2>1 DEF DiscountOf
  <2>4. SumOf(c) = SumOf(a) + SumOf(b)
    BY <1>3, <1>8, <2>2, <2>3, SumPlus
  <2> QED
    BY <1>7, <2>1, <2>4
<1>11. Totals(new) = Totals(lines) - SumOf(amounts)
  BY <1>6, <1>9, Columns
<1> QED
  BY <1>1, <1>2, <1>4, <1>6, <1>10, <1>11

\* The shares of a cart's discount add up to it: the last line takes what rounding left.
LEMMA SharesAddUp ==
  ASSUME NEW lines \in Seq(WorkingRow), lines # <<>>, Totals(lines) > 0, NEW amount \in Int
  PROVE  Shares(lines, amount) \in [1..Len(lines) -> Int] /\ SumOf(Shares(lines, amount)) = amount
<1> PICK N : N = Len(lines)
  OBVIOUS
<1> PICK M : M = N - 1
  OBVIOUS
<1> PICK T : T = Totals(lines)
  OBVIOUS
<1> DEFINE floored == [i \in 1..M |-> Share(lines, amount, i)]
           rest == amount - SumOf(floored)
           shares == Append(floored, rest)
<1>1. N \in Nat /\ N > 0 /\ M \in Nat /\ M + 1 = N /\ T \in Int /\ T > 0
  BY Columns
<1>2. \A i \in 1..M : Share(lines, amount, i) \in Int
  <2> SUFFICES ASSUME NEW i \in 1..M PROVE Share(lines, amount, i) \in Int
    OBVIOUS
  <2>1. lines[i].total \in Int
    <3>1. i \in 1..Len(lines)
      BY <1>1
    <3>2. lines[i] \in WorkingRow
      BY <3>1, Columns
    <3> QED
      BY <3>2 DEF WorkingRow
  <2>2. amount * lines[i].total \in Int
    BY <2>1
  <2>3. (amount * lines[i].total) \div T \in Int
    <3> PICK x : x = amount * lines[i].total
      OBVIOUS
    <3>1. x \in Int
      BY <2>2
    <3>2. x \div T \in Int
      BY <1>1, <3>1
    <3> QED
      BY <3>2
  <2> QED
    BY <2>1, <2>3 DEF Share, Smaller
<1>3. floored \in [1..M -> Int]
  BY <1>2
<1> HIDE DEF floored
<1>4. floored \in Seq(Int) /\ Len(floored) = M /\ SumOf(floored) \in Int
  BY <1>1, <1>3, Column, SumInt
<1>5. rest \in Int
  BY <1>4
<1> HIDE DEF rest
<1>6. shares \in Seq(Int) /\ Len(shares) = N /\ shares[N] = rest /\ \A i \in 1..M : shares[i] = floored[i]
  BY <1>1, <1>4, <1>5
<1> HIDE DEF shares
<1>7. shares \in [1..N -> Int]
  BY <1>6
<1>8. SumOf(shares) = SumOf(floored) + shares[N]
  <2>1. floored \in [1..(N - 1) -> Int] /\ \A i \in 1..(N - 1) : floored[i] = shares[i]
    BY <1>1, <1>3, <1>6
  <2> QED
    BY <1>1, <1>7, <2>1, SumLast
<1>9. SumOf(shares) = amount
  BY <1>4, <1>6, <1>8 DEF rest
<1>10. Shares(lines, amount) = shares
  BY DEF Shares, shares, rest, floored
<1> QED
  BY <1>7, <1>9, <1>10

LEMMA PercentWithin ==
  ASSUME NEW amount \in Nat, NEW bps \in Nat, bps <= 10000
  PROVE  Percent(amount, bps) \in Nat /\ Percent(amount, bps) <= amount
<1> PICK x : x = amount * bps
  OBVIOUS
<1>1. x \in Nat /\ x <= 10000 * amount
  <2>1. x \in Nat
    OBVIOUS
  <2>2. amount * (10000 - bps) \in Nat
    OBVIOUS
  <2>3. amount * (10000 - bps) = 10000 * amount - x
    OBVIOUS
  <2> QED
    BY <2>1, <2>2, <2>3
<1>2. (x + 5000) \div 10000 \in Nat /\ (x + 5000) \div 10000 <= amount
  BY <1>1
<1> QED
  BY <1>1, <1>2 DEF Percent

LEMMA RowsOfPromotions ==
  ASSUME NEW p \in Promotions
  PROVE  OrZero(p.bps) \in Nat /\ OrZero(p.amount) \in Nat
  BY PricingAssumption DEF OrZero

\* What a rule takes off an amount has the amount's sign, and with at most 100% is no more.
PartOf(x, total, bps) ==
  /\ x \in Int /\ (total >= 0 => x >= 0) /\ (x > 0 => total > 0)
  /\ total >= 0 /\ bps <= 10000 => x <= total

LEMMA PercentPart ==
  ASSUME NEW amount \in Int, NEW bps \in Nat
  PROVE  PartOf(Percent(amount, bps), amount, bps)
<1> PICK x : x = amount * bps
  OBVIOUS
<1>1. x \in Int /\ (amount >= 0 => x >= 0) /\ (amount <= 0 => x <= 0)
  <2>1. amount >= 0 => amount * bps >= 0
    OBVIOUS
  <2>2. amount <= 0 => amount * bps <= 0
    <3>1. -amount >= 0 => (-amount) * bps >= 0
      OBVIOUS
    <3>2. (-amount) * bps = -(amount * bps)
      OBVIOUS
    <3> QED
      BY <3>1, <3>2
  <2> QED
    BY <2>1, <2>2
<1>2. Percent(amount, bps) = IF x >= 0 THEN (x + 5000) \div 10000 ELSE -((5000 - x) \div 10000)
  BY DEF Percent
<1>3. CASE x >= 0
  <2>1. Percent(amount, bps) \in Nat /\ (x = 0 => Percent(amount, bps) = 0)
    BY <1>1, <1>2, <1>3
  <2>2. amount >= 0 /\ bps <= 10000 => Percent(amount, bps) <= amount
    BY PercentWithin
  <2>3. amount <= 0 => x = 0
    BY <1>1, <1>3
  <2> QED
    BY <2>1, <2>2, <2>3 DEF PartOf
<1>4. CASE x < 0
  <2>1. Percent(amount, bps) \in Int /\ Percent(amount, bps) <= 0
    BY <1>1, <1>2, <1>4
  <2> QED
    BY <1>1, <1>4, <2>1 DEF PartOf
<1> QED
  BY <1>1, <1>3, <1>4

LEMMA OffWithin ==
  ASSUME NEW p \in Promotions, NEW total \in Int
  PROVE  /\ PartOf(Percent(total, OrZero(p.bps)), total, OrZero(p.bps))
         /\ PartOf(Smaller(total, OrZero(p.amount)), total, OrZero(p.bps))
<1>1. OrZero(p.bps) \in Nat /\ OrZero(p.amount) \in Nat
  BY RowsOfPromotions
<1>2. PartOf(Percent(total, OrZero(p.bps)), total, OrZero(p.bps))
  BY <1>1, PercentPart
<1>3. PartOf(Smaller(total, OrZero(p.amount)), total, OrZero(p.bps))
  BY <1>1 DEF PartOf, Smaller
<1> QED
  BY <1>2, <1>3

LEMMA ItemOffWithin ==
  ASSUME NEW p \in Promotions, NEW line \in WorkingRow
  PROVE  PartOf(ItemOff(p, line), line.total, OrZero(p.bps))
<1>1. line.total \in Int
  BY DEF WorkingRow
<1> QED
  BY <1>1, OffWithin DEF ItemOff

LEMMA CartOffWithin ==
  ASSUME NEW p \in Promotions, NEW lines \in Seq(WorkingRow)
  PROVE  PartOf(CartOff(p, lines), Totals(lines), OrZero(p.bps))
<1>1. Totals(lines) \in Int
  BY Columns
<1> QED
  BY <1>1, OffWithin DEF CartOff

\* Numbers that are not negative are no more than their sum.
LEMMA PartOfSum ==
  ASSUME NEW N \in Nat, NEW a \in [1..N -> Int], \A i \in 1..N : a[i] >= 0, NEW k \in 1..N
  PROVE  a[k] <= SumOf(a)
<1> DEFINE b == [a EXCEPT ![k] = 0]
<1>1. b \in [1..N -> Int] /\ (\A i \in 1..N : b[i] >= 0) /\ b[k] = 0
      /\ \A i \in 1..N : i # k => b[i] = a[i]
  OBVIOUS
<1> HIDE DEF b
<1>2. SumOf(b) \in Nat /\ SumOf(a) \in Int /\ a[k] \in Int
  BY <1>1, SumNatural, SumInt
<1>3. SumOf(b) = SumOf(a) + b[k] - a[k]
  BY <1>1, SumChange
<1> QED
  BY <1>1, <1>2, <1>3

LEMMA BeatsOrders ==
  ASSUME NEW u \in PriceWindow, NEW v \in PriceWindow, NEW w \in PriceWindow
  PROVE  /\ Beats(u, v) \/ Beats(v, u)
         /\ Beats(u, v) /\ Beats(v, w) => Beats(u, w)
<1> USE DEF PriceWindow, Beats
<1>1. Beats(u, v) \/ Beats(v, u)
  OBVIOUS
<1>2. Beats(u, v) /\ Beats(v, w) => Beats(u, w)
  OBVIOUS
<1> QED
  BY <1>1, <1>2

LEMMA BestWindow ==
  ASSUME NEW W, W \subseteq PriceWindow, IsFiniteSet(W), W # {}
  PROVE  \E w \in W : \A v \in W : Beats(w, v)
<1> DEFINE Holds(n) == \A T : /\ T \subseteq PriceWindow /\ IsFiniteSet(T) /\ Cardinality(T) = n + 1
                            => \E w \in T : \A v \in T : Beats(w, v)
           S == {n \in Nat : Holds(n)}
<1>1. 0 \in S
  <2> SUFFICES ASSUME NEW T, T \subseteq PriceWindow, IsFiniteSet(T), Cardinality(T) = 1
               PROVE  \E w \in T : \A v \in T : Beats(w, v)
    OBVIOUS
  <2>1. PICK w : T = {w}
    BY FS_Singleton
  <2>2. Beats(w, w)
    BY <2>1, BeatsOrders
  <2> QED
    BY <2>1, <2>2
<1>2. ASSUME NEW n \in Nat, n \in S
      PROVE  n + 1 \in S
  <2> SUFFICES ASSUME NEW T, T \subseteq PriceWindow, IsFiniteSet(T), Cardinality(T) = n + 1 + 1
               PROVE  \E w \in T : \A v \in T : Beats(w, v)
    OBVIOUS
  <2>1. T # {}
    BY FS_EmptySet
  <2>2. PICK x \in T : TRUE
    BY <2>1
  <2>3. IsFiniteSet(T \ {x}) /\ Cardinality(T \ {x}) = n + 1
    BY <2>2, FS_RemoveElement
  <2>4. T \ {x} \subseteq PriceWindow
    OBVIOUS
  <2>5. Holds(n)
    BY <1>2
  <2>6. PICK w \in T \ {x} : \A v \in T \ {x} : Beats(w, v)
    BY <2>3, <2>4, <2>5
  <2>7. w \in PriceWindow /\ x \in PriceWindow /\ Beats(x, x)
    BY <2>2, <2>6, BeatsOrders
  <2>8. CASE Beats(w, x)
    BY <2>6, <2>8
  <2>9. CASE Beats(x, w)
    <3>1. \A v \in T \ {x} : Beats(x, v)
      <4> SUFFICES ASSUME NEW v \in T \ {x} PROVE Beats(x, v)
        OBVIOUS
      <4>1. Beats(w, v) /\ v \in PriceWindow
        BY <2>6
      <4> QED
        BY <2>7, <2>9, <4>1, BeatsOrders
    <3> QED
      BY <2>2, <2>7, <3>1
  <2> QED
    BY <2>7, <2>8, <2>9, BeatsOrders
<1>3. Nat \subseteq S
  <2> HIDE DEF S
  <2> QED
    BY <1>1, <1>2, Induction
<1>4. Cardinality(W) \in Nat /\ Cardinality(W) # 0
  BY FS_CardinalityType, FS_EmptySet
<1>5. Cardinality(W) - 1 \in S
  BY <1>3, <1>4
<1>6. Holds(Cardinality(W) - 1) /\ (Cardinality(W) - 1) + 1 = Cardinality(W)
  BY <1>4, <1>5
<1> QED
  BY <1>6

LEMMA LineOfBasket ==
  ASSUME NEW l \in [offer : OfferRow, qty : Int], IsFiniteSet(l.offer.windows)
  PROVE  /\ Line(l) \in WorkingRow /\ Line(l).discount = 0
         /\ Line(l).total = Line(l).unit * Line(l).qty
<1> DEFINE open == {w \in l.offer.windows : w.window = "open"}
           best == CHOOSE w \in open : \A v \in open : Beats(w, v)
<1>1. l.offer \in OfferRow /\ l.qty \in Int
  OBVIOUS
<1>2. IsFiniteSet(open) /\ open \subseteq PriceWindow
  BY <1>1, FS_Subset DEF OfferRow
<1>3. open # {} => best.price \in Int
  <2> SUFFICES ASSUME open # {} PROVE best.price \in Int
    OBVIOUS
  <2> HIDE DEF open
  <2>1. best \in open
    BY <1>2, BestWindow
  <2> QED
    BY <1>2, <2>1 DEF PriceWindow
<1>4. UnitPrice(l.offer) = IF open = {} THEN l.offer.list ELSE best.price
  BY DEF UnitPrice
<1> HIDE DEF open, best
<1>5. UnitPrice(l.offer) \in Int
  BY <1>1, <1>3, <1>4 DEF OfferRow
<1>6. UnitPrice(l.offer) * l.qty \in Int
  BY <1>1, <1>5
<1> QED
  BY <1>1, <1>5, <1>6 DEF Line, WorkingRow, OfferRow

-----------------------------------------------------------------------------
(***************************************************************************)
(* Pricing: the invariant.  Before the calculation the lines are as the    *)
(* basket says and nothing is counted; from then on lines, stages and      *)
(* adjustments agree: the lines bear no more than was counted.  While all  *)
(* that was counted is of at most 100%, they bear exactly that, and no     *)
(* line is negative while rules are left that look at single lines: those  *)
(* of the first stage and the one coupon.  Only the shares of a cart's     *)
(* discount can make one negative.                                         *)
(***************************************************************************)
PricingTyped ==
  /\ promotions \subseteq Promotions /\ working \in Seq(WorkingRow) /\ goods \in Int
  /\ rules \subseteq RuleRow /\ stage \in 1..4
  /\ discount \in [1..3 -> Int] /\ applied \in Seq(AppliedRow)

Loading == phase \in {"load item", "load cart", "coupon"}
Blank == stage = 1 /\ discount = NoDiscount /\ applied = <<>>
Untouched ==
  /\ goods = Totals(working)
  /\ \A i \in 1..Len(working) :
       working[i].discount = 0 /\ working[i].total = working[i].unit * working[i].qty
OneCoupon == \A r, s \in rules : r.stage = "coupon" /\ s.stage = "coupon" => r = s
NoCoupon == \A r \in rules : r.stage # "coupon"
Fits(r) ==
  /\ r.stage = "cart" => r.promotion.type \notin ItemTypes
  /\ r.stage = "item" => r.promotion.type \in ItemTypes
RuleTypes == \A r \in rules : Fits(r)
LinesMatter == phase = "rules" /\ (stage = 1 \/ (stage = 2 /\ ~NoCoupon))
Balanced ==
  /\ working # <<>> /\ Discounts \in Nat
  /\ Totals(working) = goods - SumOf(DiscountOf(working))
  /\ SumOf(DiscountOf(working)) <= Discounts
  /\ SumOf(AmountOf(applied)) = Discounts
Exact == SumOf(DiscountOf(working)) = Discounts /\ Totals(working) >= 0
Billed == bill.payable - bill.shipping - Totals(working) \in {0, bill.tax}

PricingInv ==
  /\ PricingTyped
  /\ (phase = "new" \/ Loading) => Blank /\ NoCoupon
  /\ phase = "new" => rules = {}
  /\ Loading => Untouched
  /\ OneCoupon /\ RuleTypes
  /\ LinesMatter /\ Modest => \A i \in 1..Len(working) : working[i].total >= 0
  /\ phase \in {"rules", "quoted"} => Balanced /\ (Modest => Exact)
  /\ phase = "quoted" => Billed

LEMMA DiscountsSum ==
  ASSUME PricingTyped
  PROVE  Discounts \in Int
  BY DEF PricingTyped, Discounts

\* A row created meanwhile disturbs no calculation.
LEMMA RowsMove ==
  ASSUME PricingInv, promotions' \subseteq Promotions,
         UNCHANGED <<phase, Basket, rules, used, Stacking>>
  PROVE  PricingInv'
<1> USE DEF Basket, Stacking
<1>1. PricingTyped'
  BY DEF PricingInv, PricingTyped
<1>2. Discounts' = Discounts /\ Totals(working)' = Totals(working)
  BY DEF Discounts
<1>3. (Balanced => Balanced') /\ (Exact => Exact') /\ (Billed => Billed') /\ Modest' = Modest
  BY <1>2 DEF Balanced, Exact, Billed, Modest
<1>4. (Blank => Blank') /\ (Untouched => Untouched') /\ NoCoupon' = NoCoupon
  BY <1>2 DEF Blank, Untouched, NoCoupon
<1>5. OneCoupon' /\ RuleTypes'
  BY DEF PricingInv, OneCoupon, RuleTypes
<1>6. Loading' = Loading /\ LinesMatter' = LinesMatter
  BY <1>4 DEF Loading, LinesMatter
<1> QED
  BY <1>1, <1>3, <1>4, <1>5, <1>6 DEF PricingInv

LEMMA CreatePromotionInv ==
  ASSUME PricingInv, NEW p \in Promotions, CreatePromotion(p)
  PROVE  PricingInv'
<1>1. promotions' \subseteq Promotions
  BY DEF CreatePromotion, PricingInv, PricingTyped
<1> QED
  BY <1>1, RowsMove DEF CreatePromotion

LEMMA CreateCouponInv ==
  ASSUME PricingInv, NEW c \in Coupons, CreateCoupon(c)
  PROVE  PricingInv'
<1>1. promotions' \subseteq Promotions
  BY DEF CreateCoupon, PricingInv, PricingTyped
<1> QED
  BY <1>1, RowsMove DEF CreateCoupon

LEMMA StartInv ==
  ASSUME PricingInv, NEW b \in Baskets, Start(b)
  PROVE  PricingInv'
<1>1. b \in Seq([offer : OfferRow, qty : Int])
  BY PricingAssumption
<1>2. Len(b) \in Nat /\ \A i \in 1..Len(b) : b[i] \in [offer : OfferRow, qty : Int]
  BY <1>1, LenProperties, ElementOfSeq
<1>3. \A i \in 1..Len(b) : IsFiniteSet(b[i].offer.windows)
  BY PricingAssumption
<1>4. \A i \in 1..Len(b) : /\ Line(b[i]) \in WorkingRow /\ Line(b[i]).discount = 0
                           /\ Line(b[i]).total = Line(b[i]).unit * Line(b[i]).qty
  BY <1>2, <1>3, LineOfBasket
<1>5. working' = [i \in 1..Len(b) |-> Line(b[i])]
  BY DEF Start
<1>6. working' \in [1..Len(b) -> WorkingRow]
  BY <1>4, <1>5
<1>7. working' \in Seq(WorkingRow) /\ Len(working') = Len(b)
  BY <1>2, <1>6, Column
<1>8. goods' = Totals(working') /\ goods' \in Int
  BY <1>7, Columns DEF Start
<1>9. \A i \in 1..Len(working') :
        working'[i].discount = 0 /\ working'[i].total = working'[i].unit * working'[i].qty
  BY <1>4, <1>5, <1>7
<1>10. Untouched'
  BY <1>8, <1>9 DEF Untouched
<1>11. phase = "new" /\ phase' = "load item"
  BY DEF Start
<1>12. UNCHANGED <<rules, stage, discount, applied>> /\ promotions' = promotions
  BY DEF Start, Stacking, Rows
<1>13. PricingTyped'
  BY <1>7, <1>8, <1>12 DEF PricingInv, PricingTyped
<1>14. Blank' /\ NoCoupon'
  BY <1>11, <1>12 DEF PricingInv, Blank, NoCoupon
<1>15. OneCoupon' /\ RuleTypes'
  BY <1>12 DEF PricingInv, OneCoupon, RuleTypes
<1>16. ~LinesMatter'
  BY <1>11 DEF LinesMatter
<1> QED
  BY <1>10, <1>11, <1>13, <1>14, <1>15, <1>16 DEF PricingInv

\* The queries find rules, and change nothing else.
LEMMA Loaded ==
  ASSUME PricingInv, Loading, Loading', UNCHANGED <<Rows, Basket, used, Stacking>>,
         rules' \subseteq RuleRow, NoCoupon', RuleTypes'
  PROVE  PricingInv'
<1> USE DEF Rows, Basket, Stacking
<1>1. PricingTyped'
  BY DEF PricingInv, PricingTyped
<1>2. Blank'
  BY DEF PricingInv, Blank
<1>3. Untouched'
  BY DEF PricingInv, Untouched
<1>4. OneCoupon'
  BY DEF NoCoupon, OneCoupon
<1>5. ~LinesMatter' /\ phase' \notin {"new", "rules", "quoted"}
  BY DEF Loading, LinesMatter
<1> QED
  BY <1>1, <1>2, <1>3, <1>4, <1>5 DEF PricingInv

LEMMA LoadItemInv ==
  ASSUME PricingInv, LoadItem
  PROVE  PricingInv'
<1>1. rules' = {Rule(p, "item") : p \in InForce(ItemTypes)}
  BY DEF LoadItem
<1>2. \A p \in InForce(ItemTypes) : /\ Rule(p, "item") \in RuleRow /\ Rule(p, "item").stage = "item"
                                    /\ Rule(p, "item").promotion.type \in ItemTypes
  BY DEF PricingInv, PricingTyped, InForce, Rule, RuleRow
<1>3. rules' \subseteq RuleRow
  BY <1>1, <1>2
<1>4. NoCoupon' /\ RuleTypes'
  BY <1>1, <1>2 DEF NoCoupon, RuleTypes, Fits
<1>5. Loading /\ Loading'
  BY DEF LoadItem, Loading
<1> QED
  BY <1>3, <1>4, <1>5, Loaded DEF LoadItem

LEMMA LoadCartInv ==
  ASSUME PricingInv, LoadCart
  PROVE  PricingInv'
<1>1. rules' = rules \cup {Rule(p, "cart") : p \in Uncoded}
  BY DEF LoadCart
<1>2. \A p \in Uncoded : /\ Rule(p, "cart") \in RuleRow /\ Rule(p, "cart").stage = "cart"
                         /\ Rule(p, "cart").promotion.type \notin ItemTypes
  BY DEF PricingInv, PricingTyped, Uncoded, InForce, Rule, RuleRow, ItemTypes
<1>3. Loading /\ Loading'
  BY DEF LoadCart, Loading
<1>4. rules' \subseteq RuleRow
  BY <1>1, <1>2 DEF PricingInv, PricingTyped
<1>5. NoCoupon'
  BY <1>1, <1>2, <1>3 DEF PricingInv, NoCoupon
<1>6. RuleTypes'
  BY <1>1, <1>2 DEF PricingInv, RuleTypes, Fits
<1> QED
  BY <1>3, <1>4, <1>5, <1>6, Loaded DEF LoadCart

\* A sound basket is balanced before any rule is applied.
LEMMA SoundIsBalanced ==
  ASSUME PricingTyped, Blank, Untouched, Sound(working)
  PROVE  Balanced /\ Exact /\ \A i \in 1..Len(working) : working[i].total >= 0
<1> PICK N : N = Len(working)
  OBVIOUS
<1>1. /\ N \in Nat /\ \A i \in 1..N : working[i] \in WorkingRow
      /\ TotalOf(working) \in [1..N -> Int] /\ DiscountOf(working) \in [1..N -> Int]
      /\ Totals(working) = SumOf(TotalOf(working))
  BY Columns DEF PricingTyped
<1>2. \A i \in 1..N : working[i].total >= 0
  <2> SUFFICES ASSUME NEW i \in 1..N PROVE working[i].total >= 0
    OBVIOUS
  <2> PICK u, q : u = working[i].unit /\ q = working[i].qty
    OBVIOUS
  <2>1. u \in Int /\ q \in Int
    BY <1>1 DEF WorkingRow
  <2>2. u >= 0 /\ q >= 1
    BY DEF Sound
  <2>3. u * q >= 0
    BY <2>1, <2>2
  <2>4. working[i].total = u * q
    BY DEF Untouched
  <2> QED
    BY <2>3, <2>4
<1>3. \A i \in 1..N : TotalOf(working)[i] >= 0
  BY <1>2 DEF TotalOf
<1>4. SumOf(TotalOf(working)) \in Nat
  BY <1>1, <1>3, SumNatural
<1>5. \A i \in 1..N : DiscountOf(working)[i] = 0
  BY DEF DiscountOf, Untouched
<1>6. SumOf(DiscountOf(working)) = 0
  BY <1>1, <1>5, SumZero
<1>7. Discounts = 0
  BY DEF Blank, NoDiscount, Discounts
<1>8. SumOf(AmountOf(applied)) = 0
  <2>1. AmountOf(<<>>) \in [1..0 -> Int] /\ \A i \in 1..0 : AmountOf(<<>>)[i] = 0
    BY DEF AmountOf
  <2>2. SumOf(AmountOf(<<>>)) = 0
    BY <2>1, SumZero
  <2> QED
    BY <2>2 DEF Blank
<1>9. goods = Totals(working) - 0
  BY <1>1, <1>4 DEF Untouched
<1>10. working # <<>>
  BY DEF Sound
<1>11. Totals(working) = goods - 0 /\ Totals(working) >= 0 /\ Discounts \in Nat
  BY <1>1, <1>4, <1>7, <1>9 DEF Untouched
<1> QED
  BY <1>2, <1>6, <1>7, <1>8, <1>10, <1>11 DEF Balanced, Exact

LEMMA CalculateInv ==
  ASSUME PricingInv, phase = "coupon", NEW loaded, NEW coupon, Calculate(loaded, coupon),
         UNCHANGED <<Rows, Basket, Stacking>>, loaded \subseteq RuleRow,
         \A r, s \in loaded : r.stage = "coupon" /\ s.stage = "coupon" => r = s,
         \A r \in loaded : Fits(r)
  PROVE  PricingInv'
<1> USE DEF Rows, Basket, Stacking
<1>1. PricingTyped /\ Blank /\ Untouched
  BY DEF PricingInv, Loading
<1>2. rules' = loaded /\ phase' = IF Sound(working) THEN "rules" ELSE "failed"
  BY DEF Calculate
<1>3. PricingTyped'
  BY <1>1, <1>2 DEF PricingTyped
<1>4. OneCoupon' /\ RuleTypes'
  BY <1>2 DEF OneCoupon, RuleTypes
<1>5. phase' \notin {"new", "quoted"} /\ ~Loading'
  BY <1>2 DEF Loading
<1>6. CASE Sound(working)
  <2>1. Balanced /\ Exact /\ \A i \in 1..Len(working) : working[i].total >= 0
    BY <1>1, <1>6, SoundIsBalanced
  <2>2. Discounts' = Discounts
    BY DEF Discounts
  <2>3. Balanced' /\ Exact'
    BY <2>1, <2>2 DEF Balanced, Exact
  <2> QED
    BY <1>3, <1>4, <1>5, <2>1, <2>3 DEF PricingInv
<1>7. CASE ~Sound(working)
  <2>1. phase' = "failed"
    BY <1>2, <1>7
  <2>2. ~LinesMatter'
    BY <2>1 DEF LinesMatter
  <2> QED
    BY <1>3, <1>4, <1>5, <2>1, <2>2 DEF PricingInv
<1> QED
  BY <1>6, <1>7

LEMMA UseCouponInv ==
  ASSUME PricingInv, UseCoupon
  PROVE  PricingInv'
<1>1. /\ phase = "coupon" /\ UNCHANGED <<Rows, Basket, Stacking>> /\ Loading
  BY DEF UseCoupon, Loading
<1>2. /\ rules \subseteq RuleRow /\ NoCoupon /\ RuleTypes /\ promotions \subseteq Promotions
  BY <1>1 DEF PricingInv, PricingTyped
<1>3. CASE Calculate(rules, None)
  BY <1>1, <1>2, <1>3, CalculateInv DEF NoCoupon, RuleTypes
<1>4. ASSUME NEW c \in coupons, NEW p \in promotions, Calculate(rules \cup {Rule(p, "coupon")}, c.id)
      PROVE  PricingInv'
  <2> PICK new : new = Rule(p, "coupon")
    OBVIOUS
  <2> PICK loaded : loaded = rules \cup {new}
    OBVIOUS
  <2>1. new \in RuleRow /\ new.stage = "coupon"
    BY <1>2 DEF Rule, RuleRow
  <2>2. loaded \subseteq RuleRow
    BY <1>2, <2>1
  <2>3. \A r, s \in loaded : r.stage = "coupon" /\ s.stage = "coupon" => r = s
    BY <1>2 DEF NoCoupon
  <2>4. \A r \in loaded : Fits(r)
    BY <1>2, <2>1 DEF RuleTypes, Fits
  <2>5. Calculate(loaded, c.id)
    BY <1>4
  <2> QED
    BY <1>1, <2>2, <2>3, <2>4, <2>5, CalculateInv
<1>5. CASE phase' = "failed" /\ UNCHANGED <<rules, used>>
  <2> USE DEF Rows, Basket, Stacking
  <2>1. PricingTyped'
    BY <1>1, <1>5 DEF PricingInv, PricingTyped
  <2>2. OneCoupon' /\ RuleTypes'
    BY <1>5 DEF PricingInv, OneCoupon, RuleTypes
  <2>3. ~Loading' /\ ~LinesMatter'
    BY <1>5 DEF Loading, LinesMatter
  <2> QED
    BY <1>5, <2>1, <2>2, <2>3 DEF PricingInv
<1>6. \/ Calculate(rules, None)
      \/ \E c \in coupons, p \in promotions : Calculate(rules \cup {Rule(p, "coupon")}, c.id)
      \/ phase' = "failed" /\ UNCHANGED <<rules, used>>
  BY DEF UseCoupon
<1> QED
  BY <1>3, <1>4, <1>5, <1>6

\* A rule that takes an amount off the lines, and counts it if it is positive, keeps the balance;
\* and exactly so if it takes no more than is left.
LEMMA PricedBalanced ==
  ASSUME PricingTyped, Balanced, stage \in 1..3, goods' = goods,
         NEW lines \in Seq(WorkingRow), NEW amount \in Int, NEW taken \in Int, NEW p \in Promotions,
         Priced(lines, amount, p), Len(lines) = Len(working),
         amount > 0 => taken = amount, amount <= 0 => taken <= 0,
         Totals(lines) = Totals(working) - taken,
         SumOf(DiscountOf(lines)) = SumOf(DiscountOf(working)) + taken
  PROVE  /\ Balanced' /\ discount' \in [1..3 -> Int] /\ applied' \in Seq(AppliedRow)
         /\ Exact /\ 0 <= taken /\ taken <= Totals(working) => Exact'
         /\ Modest' => Modest /\ (amount > 0 => OrZero(p.bps) <= 10000)
<1>1. working' = lines
  BY DEF Priced
<1>2. /\ Totals(working) \in Int /\ Totals(lines) \in Int /\ goods \in Int
      /\ Discounts \in Nat /\ SumOf(DiscountOf(working)) \in Int
      /\ Totals(working) = goods - SumOf(DiscountOf(working))
      /\ SumOf(DiscountOf(working)) <= Discounts /\ SumOf(AmountOf(applied)) = Discounts
  <2>1. DiscountOf(working) \in [1..Len(working) -> Int] /\ Len(working) \in Nat
    BY Columns DEF PricingTyped
  <2> QED
    BY <2>1, Columns, SumInt DEF PricingTyped, Balanced
<1>3. working' # <<>>
  <2>1. Len(working) \in Nat /\ Len(working) # 0
    BY DEF PricingTyped, Balanced
  <2> QED
    BY <1>1, <2>1
<1>5. /\ discount' \in [1..3 -> Int] /\ applied' \in Seq(AppliedRow)
      /\ Discounts' = Discounts + (IF amount > 0 THEN amount ELSE 0)
      /\ SumOf(AmountOf(applied')) = SumOf(AmountOf(applied)) + (IF amount > 0 THEN amount ELSE 0)
      /\ Modest' => Modest /\ (amount > 0 => OrZero(p.bps) <= 10000)
  <2>1. CASE amount > 0
    <3>1. /\ discount' = [discount EXCEPT ![stage] = discount[stage] + amount]
          /\ applied' = Append(applied, [id |-> p.id, amount |-> amount])
      BY <2>1 DEF Priced
    <3>2. discount \in [1..3 -> Int] /\ applied \in Seq(AppliedRow)
      BY DEF PricingTyped
    <3>3. discount' \in [1..3 -> Int]
      BY <3>1, <3>2
    <3>4. Discounts' = Discounts + amount
      <4>1. discount[1] \in Int /\ discount[2] \in Int /\ discount[3] \in Int
        BY <3>2
      <4>2. \A s \in 1..3 : discount'[s] = IF s = stage THEN discount[s] + amount ELSE discount[s]
        BY <3>1, <3>2
      <4>3. stage = 1 \/ stage = 2 \/ stage = 3
        OBVIOUS
      <4>4. /\ discount'[1] = IF 1 = stage THEN discount[1] + amount ELSE discount[1]
            /\ discount'[2] = IF 2 = stage THEN discount[2] + amount ELSE discount[2]
            /\ discount'[3] = IF 3 = stage THEN discount[3] + amount ELSE discount[3]
        BY <4>2
      <4>5. discount'[1] + discount'[2] + discount'[3] = (discount[1] + discount[2] + discount[3]) + amount
        <5>1. CASE stage = 1
          BY <4>1, <4>4, <5>1
        <5>2. CASE stage = 2
          BY <4>1, <4>4, <5>2
        <5>3. CASE stage = 3
          BY <4>1, <4>4, <5>3
        <5> QED
          BY <4>3, <5>1, <5>2, <5>3
      <4> QED
        BY <4>5 DEF Discounts
    <3> PICK x : x = [id |-> p.id, amount |-> amount]
      OBVIOUS
    <3>5. x \in AppliedRow /\ x.amount = amount /\ x.id = p.id
      BY DEF AppliedRow
    <3>6. applied' = Append(applied, x)
      BY <3>1
    <3>7. applied' \in Seq(AppliedRow)
      BY <3>2, <3>5, <3>6
    <3>8. SumOf(AmountOf(Append(applied, x))) = SumOf(AmountOf(applied)) + x.amount
      BY <3>2, <3>5, AmountsAppended
    <3>9. /\ Len(applied) \in Nat /\ Len(applied') = Len(applied) + 1
          /\ applied'[Len(applied) + 1] = x /\ \A i \in 1..Len(applied) : applied'[i] = applied[i]
      BY <3>2, <3>5, <3>6, AppendProperties, LenProperties
    <3>10. 1..Len(applied) \subseteq 1..Len(applied') /\ Len(applied) + 1 \in 1..Len(applied')
      BY <3>9
    <3>11. Modest' => Modest /\ OrZero(p.bps) <= 10000
      BY <3>5, <3>9, <3>10 DEF Modest
    <3> QED
      BY <2>1, <3>3, <3>4, <3>5, <3>6, <3>7, <3>8, <3>11
  <2>2. CASE ~(amount > 0)
    <3>1. discount' = discount /\ applied' = applied
      BY <2>2 DEF Priced
    <3>2. Discounts' = Discounts /\ Modest' = Modest
      BY <3>1 DEF Discounts, Modest
    <3> QED
      BY <1>2, <2>2, <3>1, <3>2 DEF PricingTyped
  <2> QED
    BY <2>1, <2>2
<1>6. /\ Totals(working') = Totals(working) - taken
      /\ SumOf(DiscountOf(working')) = SumOf(DiscountOf(working)) + taken
  BY <1>1
<1>7. Discounts' \in Nat /\ Totals(working') = goods' - SumOf(DiscountOf(working'))
  BY <1>2, <1>5, <1>6, SMTT(40)
<1>8. SumOf(DiscountOf(working')) <= Discounts' /\ SumOf(AmountOf(applied')) = Discounts'
  <2>1. CASE amount > 0
    BY <1>2, <1>5, <1>6, <2>1
  <2>2. CASE amount <= 0
    <3>1. ~(amount > 0) /\ taken <= 0
      BY <2>2
    <3>2. Discounts' = Discounts + 0 /\ SumOf(AmountOf(applied')) = SumOf(AmountOf(applied)) + 0
      BY <1>5, <3>1
    <3> QED
      BY <1>2, <1>6, <3>1, <3>2
  <2> QED
    BY <2>1, <2>2
<1>9. Exact /\ 0 <= taken /\ taken <= Totals(working) => Exact'
  BY <1>2, <1>5, <1>6 DEF Exact
<1> QED
  BY <1>3, <1>5, <1>7, <1>8, <1>9 DEF Balanced

LEMMA PriceItemsBalanced ==
  ASSUME PricingTyped, Balanced, stage \in 1..3, goods' = goods, Modest => Exact,
         NEW p \in Promotions, PriceItems(p),
         Modest => \A i \in 1..Len(working) : working[i].total >= 0
  PROVE  /\ Balanced' /\ discount' \in [1..3 -> Int] /\ applied' \in Seq(AppliedRow)
         /\ working' \in Seq(WorkingRow) /\ Len(working') = Len(working) /\ phase' = phase
         /\ Modest' => Modest /\ Exact' /\ \A i \in 1..Len(working) : working'[i].total >= 0
<1> DEFINE offs == [i \in 1..Len(working) |-> ItemOff(p, working[i])]
           lines == Off(working, offs)
<1> PICK N : N = Len(working)
  OBVIOUS
<1>1. /\ N \in Nat /\ \A i \in 1..N : working[i] \in WorkingRow
      /\ TotalOf(working) \in [1..N -> Int] /\ Totals(working) = SumOf(TotalOf(working))
      /\ working \in Seq(WorkingRow)
  BY Columns DEF PricingTyped
<1>2. \A i \in 1..N : PartOf(ItemOff(p, working[i]), working[i].total, OrZero(p.bps))
  BY <1>1, ItemOffWithin
<1>3. Priced(lines, SumOf(offs), p)
  BY DEF PriceItems
<1>4. /\ offs \in [1..N -> Int]
      /\ \A i \in 1..N : working[i].total >= 0 =>
           offs[i] >= 0 /\ (OrZero(p.bps) <= 10000 => offs[i] <= working[i].total)
  BY <1>2 DEF PartOf
<1> HIDE DEF offs
<1>5. SumOf(offs) \in Int
  BY <1>1, <1>4, SumInt
<1>6. /\ lines \in Seq(WorkingRow) /\ Len(lines) = N
      /\ Totals(lines) = Totals(working) - SumOf(offs)
      /\ SumOf(DiscountOf(lines)) = SumOf(DiscountOf(working)) + SumOf(offs)
      /\ \A i \in 1..N : lines[i].total = working[i].total - offs[i]
  BY <1>1, <1>4, OffTaken
<1> HIDE DEF lines
<1> PICK amount : amount = SumOf(offs)
  OBVIOUS
<1>7. /\ Balanced' /\ discount' \in [1..3 -> Int] /\ applied' \in Seq(AppliedRow)
      /\ Exact /\ 0 <= amount /\ amount <= Totals(working) => Exact'
      /\ Modest' => Modest /\ (amount > 0 => OrZero(p.bps) <= 10000)
  BY <1>3, <1>5, <1>6, PricedBalanced
<1>8. working' = lines /\ phase' = phase
  BY <1>3 DEF Priced
<1>9. ASSUME Modest'
      PROVE  Exact' /\ \A i \in 1..N : lines[i].total >= 0
  <2>1. Modest /\ Exact /\ \A i \in 1..N : working[i].total >= 0
    BY <1>7, <1>9
  <2>2. \A i \in 1..N : offs[i] >= 0
    BY <1>4, <2>1
  <2>3. amount \in Nat
    BY <1>1, <1>4, <2>2, SumNatural, SMTT(30)
  <2>4. \A i \in 1..N : offs[i] <= working[i].total
    <3> SUFFICES ASSUME NEW i \in 1..N PROVE offs[i] <= working[i].total
      OBVIOUS
    <3>1. CASE amount > 0
      BY <1>4, <1>7, <1>9, <2>1, <3>1
    <3>2. CASE amount = 0
      <4>1. offs \in [1..N -> Int] /\ working[i] \in WorkingRow
        BY <1>1, <1>4
      <4>2. offs[i] <= SumOf(offs)
        BY <1>1, <2>2, <4>1, PartOfSum
      <4>3. offs[i] <= 0 /\ offs[i] \in Int /\ working[i].total \in Int
        BY <3>2, <4>1, <4>2 DEF WorkingRow
      <4> QED
        BY <2>1, <4>3
    <3> QED
      BY <2>3, <3>1, <3>2
  <2>5. \A i \in 1..N : lines[i].total >= 0
    <3> SUFFICES ASSUME NEW i \in 1..N PROVE lines[i].total >= 0
      OBVIOUS
    <3>1. working[i] \in WorkingRow /\ offs \in [1..N -> Int]
      BY <1>1, <1>4
    <3>2. working[i].total \in Int /\ offs[i] \in Int
      BY <3>1 DEF WorkingRow
    <3>3. offs[i] <= working[i].total /\ lines[i].total = working[i].total - offs[i]
      BY <1>6, <2>4
    <3> QED
      BY <3>2, <3>3
  <2>6. Totals(lines) \in Nat
    <3>1. TotalOf(lines) \in [1..N -> Int] /\ Totals(lines) = SumOf(TotalOf(lines))
      BY <1>6, Columns
    <3>2. \A i \in 1..N : TotalOf(lines)[i] >= 0
      BY <1>6, <2>5 DEF TotalOf
    <3> QED
      BY <1>1, <3>1, <3>2, SumNatural
  <2>7. amount <= Totals(working)
    <3>1. Totals(working) \in Int
      BY <1>1, Columns
    <3> QED
      BY <1>5, <1>6, <2>6, <3>1
  <2> QED
    BY <1>7, <2>1, <2>3, <2>5, <2>7
<1> QED
  BY <1>6, <1>7, <1>8, <1>9

LEMMA AllocatedBalanced ==
  ASSUME PricingTyped, Balanced, stage \in 1..3, goods' = goods, Modest => Exact, NEW p \in Promotions,
         Priced(Allocated(working, CartOff(p, working)), CartOff(p, working), p)
  PROVE  /\ Balanced' /\ discount' \in [1..3 -> Int] /\ applied' \in Seq(AppliedRow)
         /\ working' \in Seq(WorkingRow) /\ phase' = phase
         /\ Modest' => Modest /\ Exact'
<1> PICK amount : amount = CartOff(p, working)
  OBVIOUS
<1> PICK lines : lines = Allocated(working, amount)
  OBVIOUS
<1> PICK taken : taken = IF amount > 0 THEN amount ELSE 0
  OBVIOUS
<1>1. Priced(lines, amount, p)
  OBVIOUS
<1>2. /\ working \in Seq(WorkingRow) /\ working # <<>> /\ Totals(working) \in Int
      /\ SumOf(DiscountOf(working)) \in Int
  BY Columns, SumInt DEF PricingTyped, Balanced
<1>3. PartOf(amount, Totals(working), OrZero(p.bps))
  BY <1>2, CartOffWithin
<1>4. amount \in Int /\ taken \in Int /\ (amount > 0 => taken = amount) /\ (amount <= 0 => taken <= 0)
  BY <1>3 DEF PartOf
<1>5. /\ lines \in Seq(WorkingRow) /\ Len(lines) = Len(working)
      /\ Totals(lines) = Totals(working) - taken
      /\ SumOf(DiscountOf(lines)) = SumOf(DiscountOf(working)) + taken
  <2>1. CASE amount <= 0
    <3>1. lines = working /\ taken = 0
      BY <1>4, <2>1 DEF Allocated
    <3> QED
      BY <1>2, <3>1
  <2>2. CASE amount > 0
    <3> PICK shares : shares = Shares(working, amount)
      OBVIOUS
    <3>1. Totals(working) > 0 /\ taken = amount
      BY <1>3, <2>2 DEF PartOf
    <3>2. shares \in [1..Len(working) -> Int] /\ SumOf(shares) = amount
      BY <1>2, <1>4, <3>1, SharesAddUp
    <3>3. lines = Off(working, shares)
      BY <1>2, <1>4, <2>2, <3>1 DEF Allocated
    <3> QED
      BY <1>2, <3>1, <3>2, <3>3, OffTaken
  <2> QED
    BY <1>4, <2>1, <2>2
<1>6. /\ Balanced' /\ discount' \in [1..3 -> Int] /\ applied' \in Seq(AppliedRow)
      /\ Exact /\ 0 <= taken /\ taken <= Totals(working) => Exact'
      /\ Modest' => Modest /\ (amount > 0 => OrZero(p.bps) <= 10000)
  BY <1>1, <1>4, <1>5, PricedBalanced
<1>7. Modest' => Exact'
  <2>1. Exact => Totals(working) >= 0
    BY DEF Exact
  <2> QED
    BY <1>2, <1>3, <1>4, <1>6, <2>1 DEF PartOf
<1>8. working' = lines /\ phase' = phase
  BY <1>1 DEF Priced
<1> QED
  BY <1>5, <1>6, <1>7, <1>8

LEMMA ApplyRuleInv ==
  ASSUME PricingInv, ApplyRule
  PROVE  PricingInv'
<1>1. /\ phase = "rules" /\ stage <= 3
      /\ UNCHANGED <<promotions, goods, stage, bill>>
  BY DEF ApplyRule, Rows
<1>2. PICK r \in OfStage :
        /\ rules' = rules \ {r}
        /\ \/ Skipped(r.promotion) /\ Skip
           \/ ~Skipped(r.promotion) /\ r.promotion.type \in ItemTypes /\ PriceItems(r.promotion)
           \/ ~Skipped(r.promotion) /\ r.promotion.type \notin ItemTypes /\ PriceCart(r.promotion)
  BY DEF ApplyRule
<1>3. PricingTyped /\ Balanced /\ (Modest => Exact) /\ OneCoupon /\ RuleTypes /\ stage \in 1..3
  BY <1>1 DEF PricingInv, PricingTyped
<1>4. r \in rules /\ r.stage = Stages[stage] /\ r \in RuleRow /\ r.promotion \in Promotions
  BY <1>2, <1>3 DEF OfStage, PricingTyped, RuleRow
<1>5. OneCoupon' /\ RuleTypes' /\ rules' \subseteq RuleRow
  BY <1>2, <1>3 DEF OneCoupon, RuleTypes, PricingTyped
<1>6. LinesMatter' => LinesMatter /\ phase' = "rules"
  BY <1>1, <1>2 DEF LinesMatter, NoCoupon
<1>7. CASE Skip
  <2>1. UNCHANGED <<phase, working, blocked, discount, applied>>
    BY <1>7 DEF Skip
  <2>2. Discounts' = Discounts
    BY <2>1 DEF Discounts
  <2>3. Balanced' /\ Modest' = Modest /\ (Exact => Exact')
    BY <1>1, <1>3, <2>1, <2>2 DEF Balanced, Exact, Modest
  <2>4. PricingTyped'
    BY <1>1, <1>3, <1>5, <2>1 DEF PricingTyped
  <2>5. LinesMatter' /\ Modest' => \A i \in 1..Len(working') : working'[i].total >= 0
    BY <1>6, <2>1, <2>3 DEF PricingInv
  <2>6. phase' = "rules" /\ ~Loading'
    BY <1>1, <2>1 DEF Loading
  <2> QED
    BY <1>3, <1>5, <2>3, <2>4, <2>5, <2>6 DEF PricingInv
<1>8. CASE r.promotion.type \in ItemTypes /\ PriceItems(r.promotion)
  <2>1. r.stage # "cart"
    BY <1>3, <1>4, <1>8 DEF RuleTypes, Fits
  <2>2. LinesMatter
    <3>1. stage = 1 \/ stage = 2 \/ stage = 3
      BY <1>3
    <3>2. stage # 3
      BY <1>4, <2>1 DEF Stages
    <3>3. stage = 2 => r.stage = "coupon"
      BY <1>4 DEF Stages
    <3> QED
      BY <1>1, <1>4, <3>1, <3>2, <3>3 DEF LinesMatter, NoCoupon
  <2>3. Modest => \A i \in 1..Len(working) : working[i].total >= 0
    BY <2>2 DEF PricingInv
  <2>4. /\ Balanced' /\ discount' \in [1..3 -> Int] /\ applied' \in Seq(AppliedRow)
        /\ working' \in Seq(WorkingRow) /\ Len(working') = Len(working) /\ phase' = phase
        /\ Modest' => Modest /\ Exact' /\ \A i \in 1..Len(working) : working'[i].total >= 0
    BY <1>1, <1>3, <1>4, <1>8, <2>3, PriceItemsBalanced
  <2>5. PricingTyped'
    BY <1>1, <1>3, <1>5, <2>4 DEF PricingTyped
  <2>6. phase' = "rules" /\ ~Loading'
    BY <1>1, <2>4 DEF Loading
  <2> QED
    BY <1>5, <2>4, <2>5, <2>6 DEF PricingInv
<1>10. CASE r.promotion.type \notin ItemTypes /\ PriceCart(r.promotion)
  <2>1. CASE phase' = "failed" /\ UNCHANGED <<working, blocked, discount, applied>>
    <3>1. PricingTyped'
      BY <1>1, <1>3, <1>5, <2>1 DEF PricingTyped
    <3>2. ~Loading' /\ ~LinesMatter'
      BY <2>1 DEF Loading, LinesMatter
    <3> QED
      BY <1>5, <2>1, <3>1, <3>2 DEF PricingInv
  <2>2. CASE Priced(Allocated(working, CartOff(r.promotion, working)), CartOff(r.promotion, working),
                    r.promotion)
    <3>1. /\ Balanced' /\ discount' \in [1..3 -> Int] /\ applied' \in Seq(AppliedRow)
          /\ working' \in Seq(WorkingRow) /\ phase' = phase /\ (Modest' => Modest /\ Exact')
      BY <1>1, <1>3, <1>4, <2>2, AllocatedBalanced
    <3>2. PricingTyped'
      BY <1>1, <1>3, <1>5, <3>1 DEF PricingTyped
    <3>3. phase' = "rules" /\ ~Loading'
      BY <1>1, <3>1 DEF Loading
    <3>4. ~LinesMatter'
      <4>1. CASE stage = 1
        BY <1>3, <1>4, <1>10, <4>1 DEF Stages, RuleTypes, Fits
      <4>2. CASE stage = 2
        <5>1. r.stage = "coupon"
          BY <1>4, <4>2 DEF Stages
        <5>2. NoCoupon'
          BY <1>2, <1>3, <1>4, <5>1 DEF OneCoupon, NoCoupon
        <5> QED
          BY <1>1, <4>2, <5>2 DEF LinesMatter
      <4>3. CASE stage = 3
        BY <1>1, <4>3 DEF LinesMatter
      <4> QED
        BY <1>3, <4>1, <4>2, <4>3
    <3> QED
      BY <1>5, <3>1, <3>2, <3>3, <3>4 DEF PricingInv
  <2> QED
    BY <1>10, <2>1, <2>2 DEF PriceCart
<1> QED
  BY <1>2, <1>7, <1>8, <1>10

LEMMA NextStageInv ==
  ASSUME PricingInv, NextStage
  PROVE  PricingInv'
<1>1. /\ phase = "rules" /\ stage <= 3 /\ OfStage = {} /\ stage' = stage + 1
      /\ UNCHANGED <<promotions, phase, working, goods, rules, discount, applied, bill>>
  BY DEF NextStage, Rows, Basket
<1>2. PricingTyped /\ Balanced /\ (Modest => Exact) /\ stage \in 1..3
  BY <1>1 DEF PricingInv, PricingTyped
<1>3. PricingTyped'
  BY <1>1, <1>2 DEF PricingTyped
<1>4. Discounts' = Discounts
  BY <1>1 DEF Discounts
<1>5. Balanced' /\ Modest' = Modest /\ (Exact => Exact')
  BY <1>1, <1>2, <1>4 DEF Balanced, Modest, Exact
<1>6. OneCoupon' /\ RuleTypes'
  BY <1>1 DEF PricingInv, OneCoupon, RuleTypes
<1>7. LinesMatter' => LinesMatter
  <2> SUFFICES ASSUME LinesMatter' PROVE LinesMatter
    OBVIOUS
  <2>1. stage' = 2
    BY <1>1, <1>2 DEF LinesMatter
  <2>2. stage = 1
    BY <1>1, <1>2, <2>1
  <2> QED
    BY <1>1, <2>2 DEF LinesMatter
<1>8. LinesMatter' /\ Modest' => \A i \in 1..Len(working') : working'[i].total >= 0
  BY <1>1, <1>5, <1>7 DEF PricingInv
<1>9. phase' = "rules" /\ ~Loading'
  BY <1>1 DEF Loading
<1> QED
  BY <1>2, <1>3, <1>5, <1>6, <1>8, <1>9 DEF PricingInv

LEMMA TaxInt ==
  ASSUME NEW x \in Int, NEW inclusive
  PROVE  Tax(x, inclusive) \in Int
<1>1. CASE TaxBps = None
  BY <1>1 DEF Tax
<1>2. CASE TaxBps # None
  <2>1. TaxBps \in Nat
    BY <1>2, PricingAssumption
  <2>2. Percent(x, TaxBps) \in Int
    <3> PICK y : y = x * TaxBps
      OBVIOUS
    <3>1. y \in Int
      BY <2>1
    <3>2. (y + 5000) \div 10000 \in Int /\ -((5000 - y) \div 10000) \in Int
      BY <3>1
    <3> QED
      BY <3>2 DEF Percent
  <2>3. x - (x * 10000) \div (10000 + TaxBps) \in Int
    <3> PICK y, z : y = x * 10000 /\ z = 10000 + TaxBps
      OBVIOUS
    <3>1. y \in Int /\ z \in Int /\ z > 0
      BY <2>1
    <3>2. y \div z \in Int
      BY <3>1
    <3>3. x - y \div z \in Int
      BY <3>2
    <3> QED
      BY <3>3
  <2> QED
    BY <2>2, <2>3 DEF Tax
<1> QED
  BY <1>1, <1>2

LEMMA SettleInv ==
  ASSUME PricingInv, Settle
  PROVE  PricingInv'
<1>1. /\ phase = "rules" /\ stage > 3 /\ phase' \in {"failed", "quoted"}
      /\ UNCHANGED <<promotions, working, goods, rules, stage, discount, applied>>
  BY DEF Settle, Rows, Basket
<1>2. PricingTyped /\ Balanced /\ (Modest => Exact)
  BY <1>1 DEF PricingInv
<1>3. PricingTyped'
  BY <1>1, <1>2 DEF PricingTyped
<1>4. Discounts' = Discounts
  BY <1>1 DEF Discounts
<1>5. Balanced' /\ (Modest' => Exact')
  BY <1>1, <1>2, <1>4 DEF Balanced, Modest, Exact
<1>6. OneCoupon' /\ RuleTypes'
  BY <1>1 DEF PricingInv, OneCoupon, RuleTypes
<1>7. ~Loading' /\ ~LinesMatter'
  BY <1>1 DEF Loading, LinesMatter
<1>8. phase' = "quoted" => Billed'
  <2> SUFFICES ASSUME phase' = "quoted" PROVE Billed'
    OBVIOUS
  <2> PICK left : left = Totals(working)
    OBVIOUS
  <2> PICK ship : ship = Shipping(left)
    OBVIOUS
  <2> DEFINE inclusive == \A i \in 1..Len(working) : working[i].inclusive
  <2> PICK tax : tax = Tax(left + ship, inclusive)
    OBVIOUS
  <2>1. left \in Int /\ ship \in Int
    <3>1. ship \in Int
      BY PricingAssumption DEF Shipping
    <3> QED
      BY <1>2, <3>1, Columns DEF PricingTyped
  <2>2. tax \in Int
    <3> HIDE DEF inclusive
    <3>1. left + ship \in Int
      BY <2>1
    <3>2. \A x \in Int : Tax(x, inclusive) \in Int
      BY TaxInt
    <3> QED
      BY <3>1, <3>2
  <2>3. bill' = [shipping |-> ship, tax |-> tax,
                 payable |-> left + ship + (IF inclusive THEN 0 ELSE tax)]
    BY <1>1 DEF Settle
  <2> HIDE DEF inclusive
  <2>4. CASE inclusive
    <3>1. bill'.shipping = ship /\ bill'.tax = tax /\ bill'.payable = left + ship + 0
      BY <2>3, <2>4
    <3> QED
      BY <1>1, <2>1, <3>1 DEF Billed
  <2>5. CASE ~inclusive
    <3>1. bill'.shipping = ship /\ bill'.tax = tax /\ bill'.payable = left + ship + tax
      BY <2>3, <2>5
    <3>2. bill'.payable - bill'.shipping - left = tax
      BY <2>1, <2>2, <3>1
    <3> QED
      BY <1>1, <3>1, <3>2 DEF Billed
  <2> QED
    BY <2>4, <2>5
<1> QED
  BY <1>1, <1>3, <1>5, <1>6, <1>7, <1>8 DEF PricingInv

LEMMA RedeemInv ==
  ASSUME PricingInv, Redeem
  PROVE  PricingInv'
<1>1. /\ phase' = "new" /\ working' = <<>> /\ goods' = 0 /\ rules' = {} /\ stage' = 1
      /\ discount' = NoDiscount /\ applied' = <<>> /\ promotions' = promotions
  BY DEF Redeem
<1>2. PricingTyped'
  BY <1>1 DEF PricingInv, PricingTyped, NoDiscount
<1>3. Blank' /\ NoCoupon' /\ OneCoupon' /\ RuleTypes'
  BY <1>1 DEF Blank, NoCoupon, OneCoupon, RuleTypes
<1>4. ~Loading' /\ ~LinesMatter'
  BY <1>1 DEF Loading, LinesMatter
<1> QED
  BY <1>1, <1>2, <1>3, <1>4 DEF PricingInv

-----------------------------------------------------------------------------
\* The engine and the loaders of PricingService keep PricingInv: the lines bear no more than what the
\* stages took off, all of it while no adjustment is of more than 100%, and then no line that an item
\* rule meets is negative and no stage takes more than is left.
THEOREM PricingInvariant ==
  PricingSpec => []PricingInv
<1>1. PricingInit => PricingInv
  <2> SUFFICES ASSUME PricingInit PROVE PricingInv
    OBVIOUS
  <2>1. /\ phase = "new" /\ working = <<>> /\ goods = 0 /\ rules = {} /\ stage = 1
        /\ discount = NoDiscount /\ applied = <<>> /\ promotions = {}
    BY DEF PricingInit
  <2>2. PricingTyped
    BY <2>1 DEF PricingTyped, NoDiscount
  <2>3. Blank /\ NoCoupon /\ OneCoupon /\ RuleTypes
    BY <2>1 DEF Blank, NoCoupon, OneCoupon, RuleTypes
  <2>4. ~Loading /\ ~LinesMatter
    BY <2>1 DEF Loading, LinesMatter
  <2> QED
    BY <2>1, <2>2, <2>3, <2>4 DEF PricingInv
<1>2. PricingInv /\ [PricingNext]_pricingVars => PricingInv'
  <2> SUFFICES ASSUME PricingInv, [PricingNext]_pricingVars PROVE PricingInv'
    OBVIOUS
  <2>1. CASE UNCHANGED pricingVars
    <3>1. promotions' \subseteq Promotions
      BY <2>1 DEF pricingVars, Rows, PricingInv, PricingTyped
    <3> QED
      BY <2>1, <3>1, RowsMove DEF pricingVars
  <2>2. ASSUME NEW p \in Promotions, CreatePromotion(p) PROVE PricingInv'
    BY <2>2, CreatePromotionInv
  <2>3. ASSUME NEW c \in Coupons, CreateCoupon(c) PROVE PricingInv'
    BY <2>3, CreateCouponInv
  <2>4. ASSUME NEW b \in Baskets, Start(b) PROVE PricingInv'
    BY <2>4, StartInv
  <2>5. CASE LoadItem
    BY <2>5, LoadItemInv
  <2>6. CASE LoadCart
    BY <2>6, LoadCartInv
  <2>7. CASE UseCoupon
    BY <2>7, UseCouponInv
  <2>8. CASE ApplyRule
    BY <2>8, ApplyRuleInv
  <2>9. CASE NextStage
    BY <2>9, NextStageInv
  <2>10. CASE Settle
    BY <2>10, SettleInv
  <2>11. CASE Redeem
    BY <2>11, RedeemInv
  <2> QED
    BY <2>1, <2>2, <2>3, <2>4, <2>5, <2>6, <2>7, <2>8, <2>9, <2>10, <2>11 DEF PricingNext
<1> QED
  BY <1>1, <1>2, PTL DEF PricingSpec

\* The numbers of every quote explain each other: calculate() loses nothing between lines, stages,
\* adjustments and the amount to be paid, whichever promotions stack and whatever the roundings and
\* the allocation leave over; only after one of more than 100 % may the lines bear less than was
\* counted.
THEOREM QuotesAddUp == PricingSpec => []QuoteAddsUp
<1>1. PricingInv => QuoteAddsUp
  <2> SUFFICES ASSUME PricingInv, Quoted PROVE QuoteAddsUp
    BY DEF QuoteAddsUp
  <2>1. Balanced /\ Billed /\ (Modest => Exact) /\ goods \in Int
    BY DEF PricingInv, PricingTyped, Quoted
  <2>2. /\ Borne = SumOf(DiscountOf(working))
        /\ SumOf([i \in 1..Len(applied) |-> applied[i].amount]) = SumOf(AmountOf(applied))
    BY DEF DiscountOf, AmountOf, Borne
  <2>3. Modest => Discounts <= goods
    BY <2>1 DEF Balanced, Exact
  <2> QED
    BY <2>1, <2>2, <2>3 DEF QuoteAddsUp, Balanced, Exact, Billed
<1> QED
  BY <1>1, PricingInvariant, PTL

-----------------------------------------------------------------------------
(***************************************************************************)
(* Cart: the rows of cart_lines, and what a cart has of an offer.          *)
(***************************************************************************)
Live(s, c, o) == {l \in 1..Len(s) : s[l].cart = c /\ s[l].offer = o /\ s[l].qty > 0}
AnyOf(S) == CHOOSE x \in S : TRUE
Qty(s, c, o) == IF Live(s, c, o) = {} THEN 0 ELSE s[AnyOf(Live(s, c, o))].qty
Unique(s) ==
  \A k, l \in 1..Len(s) :
    s[k].cart = s[l].cart /\ s[k].offer = s[l].offer /\ s[k].qty > 0 /\ s[l].qty > 0 => k = l
Total(rows, s, o) ==
  SumOf([c \in 1..Len(rows) |-> IF rows[c].status = "ACTIVE" THEN Qty(s, c, o) ELSE 0])

LEMMA LineNow ==
  ASSUME NEW c, NEW o
  PROVE  /\ LineOf(c, o) = 0 <=> Live(cartLines, c, o) = {}
         /\ LineOf(c, o) # 0 => LineOf(c, o) \in Live(cartLines, c, o)
         /\ QtyOf(c, o) = Qty(cartLines, c, o)
<1>1. LinesOf(c, o) = Live(cartLines, c, o)
  BY DEF LinesOf, Live
<1>2. 0 \notin Live(cartLines, c, o)
  BY DEF Live
<1>3. CASE Live(cartLines, c, o) = {}
  BY <1>1, <1>3 DEF LineOf, QtyOf, Qty
<1>4. CASE Live(cartLines, c, o) # {}
  <2>1. LineOf(c, o) = AnyOf(Live(cartLines, c, o))
    BY <1>1, <1>4 DEF LineOf, AnyOf
  <2>2. LineOf(c, o) \in Live(cartLines, c, o)
    BY <1>4, <2>1 DEF AnyOf
  <2> QED
    BY <1>2, <1>4, <2>1, <2>2 DEF QtyOf, Qty
<1> QED
  BY <1>3, <1>4

LEMMA LineNext ==
  ASSUME NEW CONSTANT c, NEW CONSTANT o
  PROVE  QtyOf(c, o)' = Qty(cartLines', c, o)
<1>1. LinesOf(c, o)' = Live(cartLines', c, o)
  BY DEF LinesOf, Live
<1>2. 0 \notin Live(cartLines', c, o)
  BY DEF Live
<1>3. CASE Live(cartLines', c, o) = {}
  BY <1>1, <1>3 DEF LineOf, QtyOf, Qty
<1>4. CASE Live(cartLines', c, o) # {}
  <2>1. LineOf(c, o)' = AnyOf(Live(cartLines', c, o))
    BY <1>1, <1>4 DEF LineOf, AnyOf
  <2>2. LineOf(c, o)' \in Live(cartLines', c, o)
    BY <1>4, <2>1 DEF AnyOf
  <2> QED
    BY <1>2, <1>4, <2>1, <2>2 DEF QtyOf, Qty
<1> QED
  BY <1>3, <1>4

LEMMA InCartsNow ==
  ASSUME NEW o PROVE InCarts(o) = Total(cartRows, cartLines, o)
<1>1. \A c \in 1..Len(cartRows) : QtyOf(c, o) = Qty(cartLines, c, o)
  BY LineNow
<1>2. [c \in Carts |-> IF IsActive(c) THEN QtyOf(c, o) ELSE 0]
        = [c \in 1..Len(cartRows) |->
             IF cartRows[c].status = "ACTIVE" THEN Qty(cartLines, c, o) ELSE 0]
  BY <1>1 DEF Carts, IsActive
<1> QED
  BY <1>2 DEF InCarts, Total

LEMMA InCartsNext ==
  ASSUME NEW CONSTANT o PROVE InCarts(o)' = Total(cartRows', cartLines', o)
<1>1. ASSUME NEW CONSTANT c \in 1..Len(cartRows') PROVE QtyOf(c, o)' = Qty(cartLines', c, o)
  BY LineNext
<1>2. \A c \in 1..Len(cartRows') : QtyOf(c, o)' = Qty(cartLines', c, o)
  BY <1>1
<1>3. [c \in Carts |-> IF IsActive(c) THEN QtyOf(c, o) ELSE 0]'
        = [c \in 1..Len(cartRows') |->
             IF cartRows'[c].status = "ACTIVE" THEN Qty(cartLines', c, o) ELSE 0]
  BY <1>2 DEF Carts, IsActive
<1> QED
  BY <1>3 DEF InCarts, Total

\* Rows keep the cart and the offer they were made for.
Grown(s, t) ==
  /\ Len(s) <= Len(t)
  /\ \A l \in 1..Len(s) : t[l].cart = s[l].cart /\ t[l].offer = s[l].offer

LEMMA QtyIs ==
  ASSUME NEW s \in Seq(LineRow), Unique(s), NEW l \in 1..Len(s), s[l].qty > 0
  PROVE  Qty(s, s[l].cart, s[l].offer) = s[l].qty
<1>1. l \in Live(s, s[l].cart, s[l].offer)
  BY DEF Live
<1>2. \A k \in Live(s, s[l].cart, s[l].offer) : k = l
  BY <1>1 DEF Live, Unique
<1> QED
  BY <1>1, <1>2 DEF Qty, AnyOf

LEMMA QtyNat ==
  ASSUME NEW s \in Seq(LineRow), NEW c, NEW o
  PROVE  Qty(s, c, o) \in Nat
<1>1. ASSUME NEW l \in Live(s, c, o) PROVE s[l].qty \in Nat
  <2>1. s[l] \in LineRow
    BY <1>1 DEF Live
  <2> QED
    BY <2>1 DEF LineRow
<1> QED
  BY <1>1 DEF Qty, AnyOf

RowIs(s, t, l, row) == t = [s EXCEPT ![l] = row]
RowAdded(s, t, row) == t = Append(s, row)

\* A live row gets another quantity.
LEMMA Rewritten ==
  ASSUME NEW s \in Seq(LineRow), Unique(s), NEW l \in 1..Len(s), s[l].qty > 0, NEW q \in Nat,
         NEW t, RowIs(s, t, l, [s[l] EXCEPT !.qty = q])
  PROVE  /\ t \in Seq(LineRow) /\ Grown(s, t) /\ Unique(t) /\ Len(t) = Len(s)
         /\ Qty(t, s[l].cart, s[l].offer) = q
         /\ \A c, o : <<c, o>> # <<s[l].cart, s[l].offer>> => Qty(t, c, o) = Qty(s, c, o)
<1>1. s[l] \in LineRow /\ DOMAIN s = 1..Len(s)
  OBVIOUS
<1> DEFINE row == [s[l] EXCEPT !.qty = q]
<1>2. row \in LineRow /\ row.cart = s[l].cart /\ row.offer = s[l].offer /\ row.qty = q
  BY <1>1 DEF LineRow
<1> HIDE DEF row
<1>3. t = [s EXCEPT ![l] = row]
  BY DEF row, RowIs
<1>4. t \in Seq(LineRow) /\ Len(t) = Len(s) /\ t[l] = row /\ \A k \in 1..Len(s) : k # l => t[k] = s[k]
  BY <1>1, <1>2, <1>3
<1>5. Grown(s, t)
  BY <1>2, <1>4 DEF Grown
<1>6. Unique(t)
  <2> SUFFICES ASSUME NEW j \in 1..Len(t), NEW k \in 1..Len(t), t[j].cart = t[k].cart,
                      t[j].offer = t[k].offer, t[j].qty > 0, t[k].qty > 0
               PROVE  j = k
    BY DEF Unique
  <2>1. s[j].cart = s[k].cart /\ s[j].offer = s[k].offer /\ s[j].qty > 0 /\ s[k].qty > 0
    BY <1>2, <1>4
  <2> QED
    BY <1>4, <2>1 DEF Unique
<1>7. Qty(t, s[l].cart, s[l].offer) = q
  <2>1. CASE q > 0
    <3>1. t[l].qty > 0 /\ l \in 1..Len(t)
      BY <1>2, <1>4, <2>1
    <3>2. Qty(t, t[l].cart, t[l].offer) = t[l].qty
      BY <1>4, <1>6, <3>1, QtyIs
    <3> QED
      BY <1>2, <1>4, <3>2
  <2>2. CASE q = 0
    <3>1. ASSUME NEW k \in Live(t, s[l].cart, s[l].offer) PROVE FALSE
      <4>1. k # l
        BY <1>2, <1>4, <2>2, <3>1 DEF Live
      <4>2. k \in 1..Len(s) /\ s[k].cart = s[l].cart /\ s[k].offer = s[l].offer /\ s[k].qty > 0
        BY <1>4, <3>1, <4>1 DEF Live
      <4> QED
        BY <4>1, <4>2 DEF Unique
    <3>2. Live(t, s[l].cart, s[l].offer) = {}
      BY <3>1
    <3> QED
      BY <2>2, <3>2 DEF Qty
  <2> QED
    BY <2>1, <2>2
<1>8. ASSUME NEW c, NEW o, <<c, o>> # <<s[l].cart, s[l].offer>>
      PROVE  Qty(t, c, o) = Qty(s, c, o)
  <2>1. ~(c = s[l].cart /\ o = s[l].offer)
    BY <1>8
  <2>2. l \notin Live(s, c, o) /\ l \notin Live(t, c, o)
    BY <1>2, <1>4, <2>1 DEF Live
  <2>3. Live(s, c, o) = Live(t, c, o)
    BY <1>4, <2>2 DEF Live
  <2>4. \A k \in Live(s, c, o) : t[k] = s[k]
    BY <1>4, <2>2 DEF Live
  <2>5. Live(s, c, o) # {} => AnyOf(Live(s, c, o)) \in Live(s, c, o)
    BY DEF AnyOf
  <2> QED
    BY <2>3, <2>4, <2>5 DEF Qty
<1> QED
  BY <1>4, <1>5, <1>6, <1>7, <1>8

\* A pair without a live row gets one.
LEMMA LineAdded ==
  ASSUME NEW s \in Seq(LineRow), Unique(s), NEW c \in Nat, NEW o \in Wares, NEW q \in Nat,
         Live(s, c, o) = {}, NEW t, RowAdded(s, t, NewLine(c, o, q))
  PROVE  /\ t \in Seq(LineRow) /\ Grown(s, t) /\ Unique(t) /\ Len(t) = Len(s) + 1
         /\ t[Len(s) + 1] = NewLine(c, o, q) /\ \A k \in 1..Len(s) : t[k] = s[k]
         /\ Qty(t, c, o) = q
         /\ \A d, p : <<d, p>> # <<c, o>> => Qty(t, d, p) = Qty(s, d, p)
<1> DEFINE row == NewLine(c, o, q)  N == Len(s)
<1>1. row \in LineRow /\ row.cart = c /\ row.offer = o /\ row.qty = q
  BY DEF LineRow, NewLine
<1> HIDE DEF row
<1>2. t = Append(s, row)
  BY DEF row, RowAdded
<1>3. /\ t \in Seq(LineRow) /\ Len(t) = N + 1 /\ N \in Nat /\ t[N + 1] = row
      /\ \A k \in 1..N : t[k] = s[k]
  BY <1>1, <1>2
<1> HIDE DEF N
<1>4. Grown(s, t)
  BY <1>3 DEF Grown, N
<1>5. \A k \in 1..N : s[k].cart = c /\ s[k].offer = o => ~(s[k].qty > 0)
  BY DEF Live, N
<1>6. Unique(t)
  <2> SUFFICES ASSUME NEW j \in 1..Len(t), NEW k \in 1..Len(t), t[j].cart = t[k].cart,
                      t[j].offer = t[k].offer, t[j].qty > 0, t[k].qty > 0
               PROVE  j = k
    BY DEF Unique
  <2>1. CASE j = N + 1 /\ k = N + 1
    BY <2>1
  <2>2. CASE j = N + 1 /\ k # N + 1
    <3>1. k \in 1..N /\ s[k].cart = c /\ s[k].offer = o /\ s[k].qty > 0
      BY <1>1, <1>3, <2>2
    <3> QED
      BY <1>5, <3>1
  <2>3. CASE j # N + 1 /\ k = N + 1
    <3>1. j \in 1..N /\ s[j].cart = c /\ s[j].offer = o /\ s[j].qty > 0
      BY <1>1, <1>3, <2>3
    <3> QED
      BY <1>5, <3>1
  <2>4. CASE j # N + 1 /\ k # N + 1
    <3>1. j \in 1..N /\ k \in 1..N
      BY <1>3, <2>4
    <3> QED
      BY <1>3, <3>1 DEF Unique, N
  <2> QED
    BY <2>1, <2>2, <2>3, <2>4
<1>7. Qty(t, c, o) = q
  <2>1. CASE q > 0
    <3>1. N + 1 \in 1..Len(t) /\ t[N + 1].qty > 0
      BY <1>1, <1>3, <2>1
    <3>2. Qty(t, t[N + 1].cart, t[N + 1].offer) = t[N + 1].qty
      BY <1>3, <1>6, <3>1, QtyIs
    <3> QED
      BY <1>1, <1>3, <3>2
  <2>2. CASE q = 0
    <3>1. ASSUME NEW k \in Live(t, c, o) PROVE FALSE
      <4>1. k # N + 1 /\ k \in 1..Len(t) /\ t[k].cart = c /\ t[k].offer = o /\ t[k].qty > 0
        BY <1>1, <1>3, <2>2, <3>1 DEF Live
      <4>2. k \in 1..N
        BY <1>3, <4>1
      <4> QED
        BY <1>3, <1>5, <4>1, <4>2
    <3>2. Live(t, c, o) = {}
      BY <3>1
    <3> QED
      BY <2>2, <3>2 DEF Qty
  <2> QED
    BY <2>1, <2>2
<1>8. ASSUME NEW d, NEW p, <<d, p>> # <<c, o>>
      PROVE  Qty(t, d, p) = Qty(s, d, p)
  <2>1. ~(d = c /\ p = o)
    BY <1>8
  <2>2. N + 1 \notin Live(t, d, p)
    BY <1>1, <1>3, <2>1 DEF Live
  <2>3. Live(s, d, p) = Live(t, d, p)
    <3>1. ASSUME NEW k \in Live(s, d, p) PROVE k \in Live(t, d, p)
      <4>1. k \in 1..N /\ k \in 1..Len(t)
        BY <1>3, <3>1 DEF Live, N
      <4> QED
        BY <1>3, <3>1, <4>1 DEF Live
    <3>2. ASSUME NEW k \in Live(t, d, p) PROVE k \in Live(s, d, p)
      <4>1. k \in 1..Len(t) /\ k # N + 1
        BY <2>2, <3>2 DEF Live
      <4>2. k \in 1..N
        BY <1>3, <4>1
      <4> QED
        BY <1>3, <3>2, <4>2 DEF Live, N
    <3> QED
      BY <3>1, <3>2
  <2>4. \A k \in Live(s, d, p) : t[k] = s[k]
    BY <1>3 DEF Live, N
  <2>5. Live(s, d, p) # {} => AnyOf(Live(s, d, p)) \in Live(s, d, p)
    BY DEF AnyOf
  <2> QED
    BY <2>3, <2>4, <2>5 DEF Qty
<1> QED
  BY <1>3, <1>4, <1>6, <1>7, <1>8 DEF row, N

LEMMA SetInOrder ==
  ASSUME NEW S, IsFiniteSet(S)
  PROVE  /\ SetToSeq(S) \in [1..Cardinality(S) -> S] /\ Cardinality(S) \in Nat
         /\ Len(SetToSeq(S)) = Cardinality(S)
         /\ \A i, j \in 1..Cardinality(S) : SetToSeq(S)[i] = SetToSeq(S)[j] => i = j
         /\ \A x \in S : \E i \in 1..Cardinality(S) : SetToSeq(S)[i] = x
<1> DEFINE D == 1..Cardinality(S)
<1>1. Cardinality(S) \in Nat /\ IsFiniteSet(D) /\ Cardinality(D) = Cardinality(S)
  BY FS_CardinalityType, FS_Interval
<1>2. \E f \in [D -> S] : IsInjective(f)
  <2>1. ExistsBijection(D, S)
    BY <1>1, FS_NatBijection, FS_CountingElements
  <2>2. PICK f \in Bijection(D, S) : TRUE
    BY <2>1 DEF ExistsBijection
  <2> QED
    BY <2>2 DEF Bijection, Injection
<1>3. SetToSeq(S) \in [D -> S] /\ IsInjective(SetToSeq(S))
  BY <1>2 DEF SetToSeq
<1>4. SetToSeq(S) \in Injection(D, S)
  BY <1>3 DEF Injection
<1>5. SetToSeq(S) \in Surjection(D, S)
  BY <1>1, <1>4, FS_Injection
<1>6. Len(SetToSeq(S)) = Cardinality(S)
  BY <1>1, <1>3, Column
<1>7. \A i, j \in D : SetToSeq(S)[i] = SetToSeq(S)[j] => i = j
  BY <1>3 DEF IsInjective
<1>8. \A x \in S : \E i \in D : SetToSeq(S)[i] = x
  BY <1>5 DEF Surjection
<1> QED
  BY <1>1, <1>3, <1>6, <1>7, <1>8

\* What the merge of w into cart c makes of the rows s: u updates, the others are inserted.
Into(w) == {o \in Wares : w[o] > 0}
Missing(s, c, w) == {o \in Into(w) : Live(s, c, o) = {}}
MergedRows(s, c, w) ==
  [l \in 1..Len(s) |-> IF s[l].cart = c /\ s[l].qty > 0 /\ s[l].offer \in Into(w)
                       THEN [s[l] EXCEPT !.qty = w[s[l].offer]] ELSE s[l]]
AddedRows(c, w, offers) == [k \in 1..Len(offers) |-> NewLine(c, offers[k], w[offers[k]])]
IsMerged(s, t, c, w) ==
  t = MergedRows(s, c, w) \o AddedRows(c, w, SetToSeq(Missing(s, c, w)))

Places(s, t, c, w, names, m) ==
  /\ m \in Nat /\ names \in [1..m -> Missing(s, c, w)]
  /\ t \in Seq(LineRow) /\ Len(t) = Len(s) + m
  /\ \A i, j \in 1..m : names[i] = names[j] => i = j
  /\ \A o \in Missing(s, c, w) : \E i \in 1..m : names[i] = o
  /\ \A l \in 1..Len(s) :
       /\ t[l].cart = s[l].cart /\ t[l].offer = s[l].offer
       /\ IF s[l].cart = c /\ s[l].qty > 0 /\ s[l].offer \in Into(w)
          THEN t[l].qty = w[s[l].offer] ELSE t[l] = s[l]
  /\ \A k \in 1..m : t[Len(s) + k] = NewLine(c, names[k], w[names[k]])

LEMMA MergedPlaces ==
  ASSUME NEW s \in Seq(LineRow), NEW c \in Nat, NEW w \in [Wares -> Nat],
         NEW t, IsMerged(s, t, c, w)
  PROVE  \E names, m : Places(s, t, c, w, names, m)
<1> DEFINE I == Missing(s, c, w)  names == SetToSeq(I)  m == Cardinality(I)  N == Len(s)
           u == MergedRows(s, c, w)  v == AddedRows(c, w, names)
<1>1. IsFiniteSet(I)
  <2>1. I \subseteq Wares
    BY DEF Missing, Into
  <2> QED
    BY <2>1, CartAssumption, FS_Subset
<1>2. /\ names \in [1..m -> I] /\ m \in Nat /\ Len(names) = m
      /\ \A i, j \in 1..m : names[i] = names[j] => i = j
      /\ \A o \in I : \E i \in 1..m : names[i] = o
  <2> HIDE DEF I
  <2> QED
    BY <1>1, SetInOrder
<1>3. t = u \o v
  BY DEF IsMerged
<1>4. N \in Nat /\ \A l \in 1..N : s[l] \in LineRow
  OBVIOUS
<1>5. ASSUME NEW l \in 1..N
      PROVE  /\ u[l] \in LineRow /\ u[l].cart = s[l].cart /\ u[l].offer = s[l].offer
             /\ IF s[l].cart = c /\ s[l].qty > 0 /\ s[l].offer \in Into(w)
                THEN u[l].qty = w[s[l].offer] ELSE u[l] = s[l]
  <2>1. s[l] \in LineRow
    BY <1>4
  <2>2. u[l] = IF s[l].cart = c /\ s[l].qty > 0 /\ s[l].offer \in Into(w)
               THEN [s[l] EXCEPT !.qty = w[s[l].offer]] ELSE s[l]
    BY DEF MergedRows
  <2>3. w[s[l].offer] \in Nat
    BY <2>1 DEF LineRow
  <2> HIDE DEF u, N
  <2> QED
    BY <2>1, <2>2, <2>3 DEF LineRow
<1>6. \A l \in 1..N :
        /\ u[l] \in LineRow /\ u[l].cart = s[l].cart /\ u[l].offer = s[l].offer
        /\ IF s[l].cart = c /\ s[l].qty > 0 /\ s[l].offer \in Into(w)
           THEN u[l].qty = w[s[l].offer] ELSE u[l] = s[l]
  <2> HIDE DEF u, N
  <2> QED
    BY <1>5
<1>7. u \in Seq(LineRow) /\ Len(u) = N
  <2>1. u = [l \in 1..N |-> u[l]]
    BY DEF MergedRows
  <2> HIDE DEF u, N
  <2>2. u \in [1..N -> LineRow]
    BY <1>6, <2>1
  <2> QED
    BY <1>4, <2>2, Column
<1>8. \A k \in 1..m : v[k] = NewLine(c, names[k], w[names[k]]) /\ v[k] \in LineRow
  <2> SUFFICES ASSUME NEW k \in 1..m
               PROVE  v[k] = NewLine(c, names[k], w[names[k]]) /\ v[k] \in LineRow
    OBVIOUS
  <2>1. v[k] = NewLine(c, names[k], w[names[k]])
    <3> HIDE DEF names, m
    <3> QED
      BY <1>2 DEF AddedRows
  <2>2. names[k] \in Wares
    <3>1. names[k] \in I
      <4> HIDE DEF names, m, I
      <4> QED
        BY <1>2
    <3> HIDE DEF names
    <3> QED
      BY <3>1 DEF Missing, Into
  <2> HIDE DEF v, names, m
  <2> QED
    BY <2>1, <2>2 DEF NewLine, LineRow
<1>9. v \in Seq(LineRow) /\ Len(v) = m
  <2>1. v = [k \in 1..m |-> v[k]]
    <3> HIDE DEF names, m
    <3> QED
      BY <1>2 DEF AddedRows
  <2> HIDE DEF v, names, m
  <2>2. v \in [1..m -> LineRow]
    BY <1>8, <2>1
  <2> QED
    BY <1>2, <2>2, Column
<1> HIDE DEF u, v, N, m, names, I
<1>10. /\ t \in Seq(LineRow) /\ Len(t) = N + m
       /\ \A l \in 1..N : t[l] = u[l]
       /\ \A k \in 1..m : t[N + k] = v[k]
  <2>1. t \in Seq(LineRow) /\ Len(t) = N + m
    <3>1. u \o v \in Seq(LineRow) /\ Len(u \o v) = Len(u) + Len(v)
      BY <1>7, <1>9, ConcatProperties
    <3> QED
      BY <1>3, <1>7, <1>9, <3>1
  <2>2. \A i \in 1..(N + m) : t[i] = IF i <= N THEN u[i] ELSE v[i - N]
    <3>1. \A i \in 1..(Len(u) + Len(v)) :
            (u \o v)[i] = IF i <= Len(u) THEN u[i] ELSE v[i - Len(u)]
      BY <1>7, <1>9, ConcatProperties
    <3> QED
      BY <1>3, <1>7, <1>9, <3>1
  <2>3. \A k \in 1..m : N + k \in 1..(N + m) /\ ~(N + k <= N) /\ (N + k) - N = k
    BY <1>2, <1>4
  <2>4. \A l \in 1..N : l \in 1..(N + m)
    BY <1>2, <1>4
  <2> QED
    BY <2>1, <2>2, <2>3, <2>4
<1>11. /\ \A l \in 1..N :
             /\ t[l].cart = s[l].cart /\ t[l].offer = s[l].offer
             /\ IF s[l].cart = c /\ s[l].qty > 0 /\ s[l].offer \in Into(w)
                THEN t[l].qty = w[s[l].offer] ELSE t[l] = s[l]
       /\ \A k \in 1..m : t[N + k] = NewLine(c, names[k], w[names[k]])
  BY <1>6, <1>8, <1>10
<1>12. Places(s, t, c, w, names, m)
  BY <1>2, <1>10, <1>11 DEF N, I, Places
<1> QED
  BY <1>12

LEMMA Merged ==
  ASSUME NEW s \in Seq(LineRow), Unique(s), NEW c \in Nat, NEW w \in [Wares -> Nat],
         NEW t, IsMerged(s, t, c, w)
  PROVE  /\ t \in Seq(LineRow) /\ Grown(s, t) /\ Unique(t)
         /\ \A l \in 1..Len(t) : t[l].cart = c \/ (l \in 1..Len(s) /\ t[l].cart = s[l].cart)
         /\ \A o \in Into(w) : Qty(t, c, o) = w[o]
         /\ \A d, o : ~(d = c /\ o \in Into(w)) => Qty(t, d, o) = Qty(s, d, o)
<1> DEFINE N == Len(s)
<1>1. PICK names, m : Places(s, t, c, w, names, m)
  BY MergedPlaces
<1>2. N \in Nat /\ m \in Nat /\ Len(t) = N + m /\ t \in Seq(LineRow)
  BY <1>1 DEF Places
<1>3. \A l \in 1..N : s[l] \in LineRow /\ s[l].qty \in Nat /\ s[l].offer \in Wares
  <2>1. \A l \in 1..N : s[l] \in LineRow
    OBVIOUS
  <2> HIDE DEF N
  <2> QED
    BY <2>1 DEF LineRow
<1>4. ASSUME NEW l \in 1..N
      PROVE  /\ t[l].cart = s[l].cart /\ t[l].offer = s[l].offer
             /\ s[l].cart = c /\ s[l].qty > 0 /\ s[l].offer \in Into(w)
                => t[l].qty = w[s[l].offer]
             /\ ~(s[l].cart = c /\ s[l].offer \in Into(w)) => t[l] = s[l]
             /\ t[l].qty > 0 <=> s[l].qty > 0
  <2>1. /\ t[l].cart = s[l].cart /\ t[l].offer = s[l].offer
        /\ IF s[l].cart = c /\ s[l].qty > 0 /\ s[l].offer \in Into(w)
           THEN t[l].qty = w[s[l].offer] ELSE t[l] = s[l]
    BY <1>1 DEF Places
  <2>2. s[l].offer \in Into(w) => w[s[l].offer] > 0
    BY DEF Into
  <2> HIDE DEF N
  <2> QED
    BY <2>1, <2>2
<1>5. ASSUME NEW k \in 1..m
      PROVE  /\ N + k \in 1..Len(t) /\ t[N + k].cart = c /\ t[N + k].offer = names[k]
             /\ names[k] \in Missing(s, c, w) /\ t[N + k].qty = w[names[k]]
  <2>1. t[N + k] = NewLine(c, names[k], w[names[k]]) /\ names[k] \in Missing(s, c, w)
    BY <1>1 DEF Places
  <2>2. N + k \in 1..Len(t)
    BY <1>2
  <2> HIDE DEF N
  <2> QED
    BY <2>1, <2>2 DEF NewLine
<1>6. \A i \in 1..Len(t) : i \in 1..N \/ \E k \in 1..m : i = N + k
  <2> SUFFICES ASSUME NEW i \in 1..Len(t), i \notin 1..N PROVE \E k \in 1..m : i = N + k
    OBVIOUS
  <2>1. i - N \in 1..m /\ i = N + (i - N)
    BY <1>2
  <2> QED
    BY <2>1
<1>7. \A o \in Missing(s, c, w), l \in 1..N :
        ~(s[l].cart = c /\ s[l].offer = o /\ s[l].qty > 0)
  BY DEF Missing, Live
<1>8. \A l \in 1..N : l \in 1..Len(t)
  BY <1>2
<1> HIDE DEF N
<1>9. Grown(s, t)
  BY <1>2, <1>4 DEF Grown, N
<1>10. Unique(t)
  <2> SUFFICES ASSUME NEW i \in 1..Len(t), NEW j \in 1..Len(t), t[i].cart = t[j].cart,
                      t[i].offer = t[j].offer, t[i].qty > 0, t[j].qty > 0
               PROVE  i = j
    BY DEF Unique
  <2>1. CASE i \in 1..N /\ j \in 1..N
    BY <1>4, <2>1 DEF Unique, N
  <2>2. CASE i \in 1..N /\ j \notin 1..N
    <3>1. PICK k \in 1..m : j = N + k
      BY <1>6, <2>2
    <3> QED
      BY <1>4, <1>5, <1>7, <2>2, <3>1
  <2>3. CASE i \notin 1..N /\ j \in 1..N
    <3>1. PICK k \in 1..m : i = N + k
      BY <1>6, <2>3
    <3> QED
      BY <1>4, <1>5, <1>7, <2>3, <3>1
  <2>4. CASE i \notin 1..N /\ j \notin 1..N
    <3>1. PICK k \in 1..m : i = N + k
      BY <1>6, <2>4
    <3>2. PICK h \in 1..m : j = N + h
      BY <1>6, <2>4
    <3>3. names[k] = names[h]
      BY <1>5, <3>1, <3>2
    <3>4. k = h
      BY <1>1, <3>3 DEF Places
    <3> QED
      BY <3>1, <3>2, <3>4
  <2> QED
    BY <2>1, <2>2, <2>3, <2>4
<1>11. \A l \in 1..Len(t) : t[l].cart = c \/ (l \in 1..N /\ t[l].cart = s[l].cart)
  BY <1>4, <1>5, <1>6
<1>12. ASSUME NEW o \in Into(w) PROVE Qty(t, c, o) = w[o]
  <2>1. w[o] > 0
    BY DEF Into
  <2>2. \E i \in 1..Len(t) : t[i].cart = c /\ t[i].offer = o /\ t[i].qty = w[o]
    <3>1. CASE o \in Missing(s, c, w)
      <4>1. PICK k \in 1..m : names[k] = o
        BY <1>1, <3>1 DEF Places
      <4> QED
        BY <1>5, <4>1
    <3>2. CASE o \notin Missing(s, c, w)
      <4>1. PICK l \in 1..N : s[l].cart = c /\ s[l].offer = o /\ s[l].qty > 0
        BY <3>2 DEF Missing, Live, N
      <4> QED
        BY <1>4, <1>8, <4>1
    <3> QED
      BY <3>1, <3>2
  <2>3. PICK i \in 1..Len(t) : t[i].cart = c /\ t[i].offer = o /\ t[i].qty = w[o]
    BY <2>2
  <2>4. Qty(t, t[i].cart, t[i].offer) = t[i].qty
    BY <1>2, <1>10, <2>1, <2>3, QtyIs
  <2> QED
    BY <2>3, <2>4
<1>13. ASSUME NEW d, NEW o, ~(d = c /\ o \in Into(w)) PROVE Qty(t, d, o) = Qty(s, d, o)
  <2>1. ASSUME NEW k \in Live(s, d, o) PROVE k \in Live(t, d, o) /\ t[k] = s[k]
    <3>1. k \in 1..N /\ s[k].cart = d /\ s[k].offer = o /\ s[k].qty > 0
      BY <2>1 DEF Live, N
    <3> QED
      BY <1>4, <1>8, <1>13, <3>1 DEF Live
  <2>2. ASSUME NEW k \in Live(t, d, o) PROVE k \in Live(s, d, o)
    <3>1. k \in 1..Len(t) /\ t[k].cart = d /\ t[k].offer = o /\ t[k].qty > 0
      BY <2>2 DEF Live
    <3>2. k \in 1..N
      <4> SUFFICES ASSUME k \notin 1..N PROVE FALSE
        OBVIOUS
      <4>1. PICK h \in 1..m : k = N + h
        BY <1>6, <3>1
      <4> QED
        BY <1>5, <1>13, <3>1, <4>1 DEF Missing
    <3> QED
      BY <1>4, <3>1, <3>2 DEF Live, N
  <2>3. Live(s, d, o) = Live(t, d, o)
    BY <2>1, <2>2
  <2>4. Live(s, d, o) # {} => AnyOf(Live(s, d, o)) \in Live(s, d, o)
    BY DEF AnyOf
  <2> QED
    BY <2>1, <2>3, <2>4 DEF Qty
<1> QED
  BY <1>2, <1>9, <1>10, <1>11, <1>12, <1>13 DEF N

-----------------------------------------------------------------------------
(***************************************************************************)
(* Cart: how the sum over the carts moves.                                 *)
(***************************************************************************)
Part(rows, s, c, o) == IF rows[c].status = "ACTIVE" THEN Qty(s, c, o) ELSE 0
Column1(rows, s, o) == [c \in 1..Len(rows) |-> Part(rows, s, c, o)]

LEMMA TotalIs ==
  ASSUME NEW rows \in Seq(CartRow), NEW s \in Seq(LineRow), NEW o
  PROVE  /\ Len(rows) \in Nat /\ Column1(rows, s, o) \in [1..Len(rows) -> Int]
         /\ \A c \in 1..Len(rows) : Column1(rows, s, o)[c] = Part(rows, s, c, o)
         /\ Total(rows, s, o) = SumOf(Column1(rows, s, o))
         /\ Total(rows, s, o) \in Int
<1>1. Len(rows) \in Nat
  OBVIOUS
<1>2. \A c \in 1..Len(rows) : Part(rows, s, c, o) \in Int
  <2>1. \A c : Qty(s, c, o) \in Nat
    BY QtyNat
  <2> QED
    BY <2>1 DEF Part
<1>3. Column1(rows, s, o) \in [1..Len(rows) -> Int]
  BY <1>2 DEF Column1
<1>4. \A c \in 1..Len(rows) : Column1(rows, s, o)[c] = Part(rows, s, c, o)
  BY DEF Column1
<1>5. Total(rows, s, o) = SumOf(Column1(rows, s, o))
  BY DEF Total, Column1, Part
<1>6. SumOf(Column1(rows, s, o)) \in Int
  BY <1>1, <1>3, SumInt
<1> QED
  BY <1>1, <1>3, <1>4, <1>5, <1>6

LEMMA TotalMoves ==
  ASSUME NEW rows \in Seq(CartRow), NEW new \in Seq(CartRow), Len(new) = Len(rows),
         NEW s \in Seq(LineRow), NEW t \in Seq(LineRow), NEW o, NEW k \in 1..Len(rows),
         \A c \in 1..Len(rows) : c # k => Part(new, t, c, o) = Part(rows, s, c, o)
  PROVE  Total(new, t, o) = Total(rows, s, o) + Part(new, t, k, o) - Part(rows, s, k, o)
<1>1. /\ Len(rows) \in Nat /\ Column1(rows, s, o) \in [1..Len(rows) -> Int]
      /\ Column1(new, t, o) \in [1..Len(rows) -> Int]
  BY TotalIs
<1>2. \A c \in 1..Len(rows) : c # k => Column1(new, t, o)[c] = Column1(rows, s, o)[c]
  BY TotalIs
<1>3. SumOf(Column1(new, t, o))
        = SumOf(Column1(rows, s, o)) + Column1(new, t, o)[k] - Column1(rows, s, o)[k]
  BY <1>1, <1>2, SumChange
<1> QED
  BY <1>3, TotalIs

LEMMA LinesMove ==
  ASSUME NEW rows \in Seq(CartRow), NEW s \in Seq(LineRow), NEW t \in Seq(LineRow), NEW o,
         NEW k \in 1..Len(rows),
         \A c \in 1..Len(rows) : c # k => Part(rows, t, c, o) = Part(rows, s, c, o)
  PROVE  Total(rows, t, o) = Total(rows, s, o) + Part(rows, t, k, o) - Part(rows, s, k, o)
  BY TotalMoves

LEMMA TotalStays ==
  ASSUME NEW rows \in Seq(CartRow), NEW s \in Seq(LineRow), NEW t \in Seq(LineRow), NEW o,
         \A c \in 1..Len(rows) : Part(rows, t, c, o) = Part(rows, s, c, o)
  PROVE  Total(rows, t, o) = Total(rows, s, o)
<1>1. Column1(rows, t, o) = Column1(rows, s, o)
  BY DEF Column1
<1> QED
  BY <1>1, TotalIs

\* A new cart is empty.
LEMMA TotalAppended ==
  ASSUME NEW rows \in Seq(CartRow), NEW row \in CartRow, NEW s \in Seq(LineRow), NEW o,
         \A l \in 1..Len(s) : s[l].cart \in 1..Len(rows)
  PROVE  Total(Append(rows, row), s, o) = Total(rows, s, o)
<1> DEFINE new == Append(rows, row)  N == Len(rows)
<1>1. N \in Nat /\ new \in Seq(CartRow) /\ Len(new) = N + 1 /\ \A c \in 1..N : new[c] = rows[c]
  OBVIOUS
<1>2. Live(s, N + 1, o) = {}
  BY <1>1 DEF Live
<1> HIDE DEF new, N
<1>3. Part(new, s, N + 1, o) = 0
  BY <1>2 DEF Part, Qty
<1>4. \A c \in 1..N : Part(new, s, c, o) = Part(rows, s, c, o)
  BY <1>1 DEF Part
<1>5. /\ Column1(new, s, o) \in [1..(N + 1) -> Int] /\ Column1(rows, s, o) \in [1..N -> Int]
      /\ Total(new, s, o) = SumOf(Column1(new, s, o))
      /\ Total(rows, s, o) = SumOf(Column1(rows, s, o)) /\ Total(rows, s, o) \in Int
  BY <1>1, TotalIs DEF N
<1>6. Column1(new, s, o)[N + 1] = 0
  BY <1>1, <1>3, TotalIs
<1>7. \A c \in 1..N : Column1(rows, s, o)[c] = Column1(new, s, o)[c]
  BY <1>1, <1>4 DEF Column1, N
<1>8. SumOf(Column1(new, s, o)) = SumOf(Column1(rows, s, o)) + Column1(new, s, o)[N + 1]
  <2> DEFINE M == N + 1
  <2>1. M \in Nat /\ M > 0 /\ M - 1 = N
    BY <1>1
  <2> HIDE DEF M
  <2>2. /\ Column1(new, s, o) \in [1..M -> Int] /\ Column1(rows, s, o) \in [1..(M - 1) -> Int]
        /\ \A c \in 1..(M - 1) : Column1(rows, s, o)[c] = Column1(new, s, o)[c]
    BY <1>5, <1>7, <2>1 DEF M
  <2>3. SumOf(Column1(new, s, o)) = SumOf(Column1(rows, s, o)) + Column1(new, s, o)[M]
    BY <2>1, <2>2, SumLast
  <2> QED
    BY <2>3 DEF M
<1> QED
  BY <1>5, <1>6, <1>8 DEF new

-----------------------------------------------------------------------------
(***************************************************************************)
(* Cart: the inductive invariant.  A request that has a cart has one of    *)
(* the rows, the line that an update found is of that cart and offer, and  *)
(* a merge has two carts; rows never move.                                 *)
(***************************************************************************)
Pcs == {"new", "find", "create", "offer", "upsert", "line", "set", "delete", "guest", "merge",
        "write", "view"} \cup Final
HasCart == {"offer", "upsert", "line", "set", "delete", "guest", "merge", "write", "view"}
ReqRow == [pc : Pcs, call : CartCalls \cup {NoCall}, cart : Nat, line : Nat, guest : Nat,
           offer : Wares \cup {NoGuest}, left : SUBSET Wares, units : [Wares -> Nat],
           wrote : [Wares -> Nat]]
ReqOK(q, n, s) ==
  /\ q \in ReqRow
  /\ q.pc \notin {"new"} \cup Final => q.call \in CartCalls
  /\ q.pc \in HasCart => q.cart \in 1..n
  /\ q.pc = "set" => /\ q.line \in 1..Len(s)
                     /\ s[q.line].cart = q.cart /\ s[q.line].offer = q.call.offer
  /\ q.pc \in {"merge", "write"} => q.guest \in 1..n /\ q.guest # q.cart
  /\ q.pc = "write" => q.offer \in Wares

RowsOK ==
  /\ cartRows \in Seq(CartRow) /\ cartLines \in Seq(LineRow) /\ Unique(cartLines)
  /\ \A l \in 1..Len(cartLines) : cartLines[l].cart \in 1..Len(cartRows)
  /\ sellable \subseteq Wares
ReqsOK ==
  /\ cartReq \in [CartRequests -> ReqRow]
  /\ \A r \in CartRequests : ReqOK(cartReq[r], Len(cartRows), cartLines)
SumOK ==
  /\ owed \in [Wares -> Int] /\ raced \in BOOLEAN
  /\ ~raced => \A o \in Wares : Total(cartRows, cartLines, o) = owed[o]
CartInv == RowsOK /\ ReqsOK /\ SumOK

ReqIs(r, q) == cartReq' = [cartReq EXCEPT ![r] = q]
Went(q, pc) == IF pc \in Final THEN [Idle EXCEPT !.pc = pc] ELSE [q EXCEPT !.pc = pc]

LEMMA IdleTyped ==
  ASSUME NEW pc \in Final PROVE [Idle EXCEPT !.pc = pc] \in ReqRow
<1>1. NoneOf \in [Wares -> Nat]
  BY DEF NoneOf
<1>2. Idle \in ReqRow
  BY <1>1 DEF Idle, ReqRow, Pcs
<1>3. pc \in Pcs
  BY DEF Pcs
<1> QED
  BY <1>2, <1>3 DEF ReqRow

LEMMA WentOK ==
  ASSUME NEW q, NEW pc, NEW n, NEW s, ReqOK(q, n, s), pc \in Pcs,
         \/ pc \in Final
         \/ /\ q.pc \notin {"new"} \cup Final /\ pc \notin {"set", "merge", "write"}
            /\ pc \in HasCart => q.pc \in HasCart
  PROVE  ReqOK(Went(q, pc), n, s)
<1>1. CASE pc \in Final
  <2>1. Went(q, pc) \in ReqRow /\ Went(q, pc).pc = pc
    <3>1. Went(q, pc) = [Idle EXCEPT !.pc = pc]
      BY <1>1 DEF Went
    <3>2. Went(q, pc) \in ReqRow
      BY <1>1, <3>1, IdleTyped
    <3>3. Went(q, pc).pc = pc
      BY <3>1 DEF Idle
    <3> QED
      BY <3>2, <3>3
  <2> QED
    BY <1>1, <2>1 DEF ReqOK, Final, HasCart
<1>2. CASE pc \notin Final
  <2>1. q \in ReqRow /\ Went(q, pc) = [q EXCEPT !.pc = pc]
    BY <1>2 DEF Went, ReqOK
  <2>2. /\ Went(q, pc) \in ReqRow /\ Went(q, pc).pc = pc /\ Went(q, pc).call = q.call
        /\ Went(q, pc).cart = q.cart
    BY <2>1 DEF ReqRow
  <2> QED
    BY <1>2, <2>2 DEF ReqOK
<1> QED
  BY <1>1, <1>2

LEMMA ReqGrows ==
  ASSUME NEW q, NEW n \in Nat, NEW m \in Nat, n <= m, NEW s \in Seq(LineRow),
         NEW t \in Seq(LineRow), Grown(s, t), ReqOK(q, n, s)
  PROVE  ReqOK(q, m, t)
<1>1. 1..n \subseteq 1..m /\ 1..Len(s) \subseteq 1..Len(t)
  BY DEF Grown
<1>2. q.pc = "set" => /\ q.line \in 1..Len(t)
                      /\ t[q.line].cart = q.cart /\ t[q.line].offer = q.call.offer
  BY <1>1 DEF Grown, ReqOK
<1> QED
  BY <1>1, <1>2 DEF ReqOK

\* One request moves; the rows grow.
LEMMA ReqMoves ==
  ASSUME ReqsOK, RowsOK, RowsOK', NEW r \in CartRequests, NEW q, ReqIs(r, q),
         Len(cartRows) <= Len(cartRows'), Grown(cartLines, cartLines'),
         ReqOK(q, Len(cartRows'), cartLines')
  PROVE  ReqsOK'
<1>1. q \in ReqRow
  BY DEF ReqOK
<1>2. /\ cartReq' \in [CartRequests -> ReqRow] /\ cartReq'[r] = q
      /\ \A p \in CartRequests : p # r => cartReq'[p] = cartReq[p]
  BY <1>1 DEF ReqsOK, ReqIs
<1>3. /\ Len(cartRows) \in Nat /\ Len(cartRows') \in Nat /\ cartLines \in Seq(LineRow)
      /\ cartLines' \in Seq(LineRow)
  BY DEF RowsOK
<1>4. ASSUME NEW p \in CartRequests PROVE ReqOK(cartReq'[p], Len(cartRows'), cartLines')
  <2>1. CASE p = r
    BY <1>2, <2>1
  <2>2. CASE p # r
    <3>1. ReqOK(cartReq[p], Len(cartRows), cartLines)
      BY DEF ReqsOK
    <3>2. ReqOK(cartReq[p], Len(cartRows'), cartLines')
      BY <1>3, <3>1, ReqGrows
    <3> QED
      BY <1>2, <2>2, <3>2
  <2> QED
    BY <2>1, <2>2
<1> QED
  BY <1>2, <1>4 DEF ReqsOK

LEMMA GrownSame ==
  ASSUME NEW s \in Seq(LineRow) PROVE Grown(s, s)
<1>1. Len(s) \in Nat
  OBVIOUS
<1> QED
  BY <1>1 DEF Grown

\* A step that leaves carts and lines alone.
LEMMA QuietStep ==
  ASSUME CartInv, NEW r \in CartRequests, NEW q, ReqIs(r, q),
         ReqOK(q, Len(cartRows), cartLines),
         UNCHANGED <<cartRows, cartLines, sellable, Tallies>>
  PROVE  CartInv'
<1>1. cartRows' = cartRows /\ cartLines' = cartLines /\ sellable' = sellable
      /\ owed' = owed /\ raced' = raced
  BY DEF Tallies
<1>2. RowsOK'
  BY <1>1 DEF CartInv, RowsOK
<1>3. SumOK'
  BY <1>1 DEF CartInv, SumOK
<1>4. Grown(cartLines, cartLines') /\ Len(cartRows) <= Len(cartRows')
  <2>1. cartLines \in Seq(LineRow) /\ Len(cartRows) \in Nat
    BY DEF CartInv, RowsOK
  <2> QED
    BY <1>1, <2>1, GrownSame
<1>5. ReqOK(q, Len(cartRows'), cartLines')
  BY <1>1
<1>6. ReqsOK'
  BY <1>2, <1>4, <1>5, ReqMoves DEF CartInv
<1> QED
  BY <1>2, <1>3, <1>6 DEF CartInv

LEMMA GotoIs ==
  ASSUME NEW r, NEW pc, CartGoto(r, pc) PROVE ReqIs(r, Went(cartReq[r], pc))
  BY DEF CartGoto, ReqIs, Went

LEMMA QuietGoto ==
  ASSUME CartInv, NEW r \in CartRequests, NEW pc \in Pcs, CartGoto(r, pc),
         \/ pc \in Final
         \/ /\ cartReq[r].pc \notin {"new"} \cup Final /\ pc \notin {"set", "merge", "write"}
            /\ pc \in HasCart => cartReq[r].pc \in HasCart,
         UNCHANGED <<cartRows, cartLines, sellable, Tallies>>
  PROVE  CartInv'
<1>1. ReqOK(cartReq[r], Len(cartRows), cartLines)
  BY DEF CartInv, ReqsOK
<1>2. ReqOK(Went(cartReq[r], pc), Len(cartRows), cartLines)
  BY <1>1, WentOK
<1>3. ReqIs(r, Went(cartReq[r], pc))
  BY GotoIs
<1> QED
  BY <1>2, <1>3, QuietStep

\* The quantity of one pair changes as its owner asked.
LEMMA AskedFor ==
  ASSUME RowsOK, SumOK, NEW c \in 1..Len(cartRows), NEW o \in Wares, NEW old \in Nat,
         NEW new \in Nat, AsksFor(c, o, old, new), cartRows' = cartRows,
         cartLines' \in Seq(LineRow),
         Qty(cartLines', c, o) + old = Qty(cartLines, c, o) + new,
         \A d, p : <<d, p>> # <<c, o>> => Qty(cartLines', d, p) = Qty(cartLines, d, p)
  PROVE  SumOK'
<1>1. raced' = raced
  BY DEF AsksFor
<1>2. owed \in [Wares -> Int] /\ raced \in BOOLEAN /\ cartRows \in Seq(CartRow)
      /\ cartLines \in Seq(LineRow)
  BY DEF SumOK, RowsOK
<1>3. Qty(cartLines', c, o) \in Nat /\ Qty(cartLines, c, o) \in Nat
  BY <1>2, QtyNat
<1>4. \A p \in Wares : p # o => Total(cartRows, cartLines', p) = Total(cartRows, cartLines, p)
  <2> SUFFICES ASSUME NEW p \in Wares, p # o
               PROVE  Total(cartRows, cartLines', p) = Total(cartRows, cartLines, p)
    OBVIOUS
  <2>1. \A d \in 1..Len(cartRows) : Part(cartRows, cartLines', d, p) = Part(cartRows, cartLines, d, p)
    BY DEF Part
  <2> QED
    BY <1>2, <2>1, TotalStays
<1>5. CASE IsActive(c)
  <2>1. owed' = [owed EXCEPT ![o] = (owed[o] + new) - old]
    BY <1>5 DEF AsksFor
  <2>2. /\ owed' \in [Wares -> Int] /\ owed'[o] = (owed[o] + new) - old
        /\ \A p \in Wares : p # o => owed'[p] = owed[p]
    <3>1. (owed[o] + new) - old \in Int
      BY <1>2
    <3> QED
      BY <1>2, <2>1, <3>1
  <2>3. /\ Part(cartRows, cartLines', c, o) = Qty(cartLines', c, o)
        /\ Part(cartRows, cartLines, c, o) = Qty(cartLines, c, o)
    BY <1>5 DEF IsActive, Part
  <2>4. \A d \in 1..Len(cartRows) :
          d # c => Part(cartRows, cartLines', d, o) = Part(cartRows, cartLines, d, o)
    BY DEF Part
  <2>5. Total(cartRows, cartLines', o)
          = Total(cartRows, cartLines, o) + Part(cartRows, cartLines', c, o)
              - Part(cartRows, cartLines, c, o)
    BY <1>2, <2>4, LinesMove
  <2>6. /\ Total(cartRows, cartLines, o) \in Int /\ owed[o] \in Int
        /\ Total(cartRows, cartLines', o) \in Int
    BY <1>2, TotalIs
  <2>7. \A u, v, w, a, b \in Int :
          u = v + a - b /\ a + old = b + new /\ v = w => u = (w + new) - old
    OBVIOUS
  <2>8. Total(cartRows, cartLines, o) = owed[o]
          => Total(cartRows, cartLines', o) = (owed[o] + new) - old
    <3>1. Total(cartRows, cartLines', o)
            = Total(cartRows, cartLines, o) + Qty(cartLines', c, o) - Qty(cartLines, c, o)
      BY <2>3, <2>5
    <3>2. Qty(cartLines', c, o) \in Int /\ Qty(cartLines, c, o) \in Int
      BY <1>3
    <3> QED
      BY <2>6, <2>7, <3>1, <3>2
  <2>9. ~raced => \A p \in Wares : Total(cartRows', cartLines', p) = owed'[p]
    BY <1>4, <2>2, <2>8 DEF SumOK
  <2> QED
    BY <1>1, <1>2, <2>2, <2>9 DEF SumOK
<1>6. CASE ~IsActive(c)
  <2>1. owed' = owed
    BY <1>6 DEF AsksFor
  <2>2. \A d \in 1..Len(cartRows) : Part(cartRows, cartLines', d, o) = Part(cartRows, cartLines, d, o)
    BY <1>6 DEF IsActive, Part
  <2>3. Total(cartRows, cartLines', o) = Total(cartRows, cartLines, o)
    BY <1>2, <2>2, TotalStays
  <2>4. ~raced => \A p \in Wares : Total(cartRows', cartLines', p) = owed'[p]
    BY <1>4, <2>1, <2>3 DEF SumOK
  <2> QED
    BY <1>1, <1>2, <2>1, <2>4 DEF SumOK
<1> QED
  BY <1>5, <1>6

-----------------------------------------------------------------------------
(***************************************************************************)
(* Cart: the steps.                                                        *)
(***************************************************************************)
LEMMA CallInv ==
  ASSUME CartInv, NEW r \in CartRequests, NEW call \in CartCalls, Call(r, call)
  PROVE  CartInv'
<1> DEFINE q == [Idle EXCEPT !.pc = "find", !.call = call]
<1>1. ReqIs(r, q)
  BY DEF Call, ReqIs
<1>2. NoneOf \in [Wares -> Nat]
  BY DEF NoneOf
<1>3. q \in ReqRow /\ q.pc = "find" /\ q.call = call
  BY <1>2 DEF Idle, ReqRow, Pcs
<1> HIDE DEF q
<1>4. ReqOK(q, Len(cartRows), cartLines)
  BY <1>3 DEF ReqOK, HasCart
<1> QED
  BY <1>1, <1>4, QuietStep DEF Call

LEMMA CallOfReq ==
  ASSUME CartInv, NEW r \in CartRequests, cartReq[r].pc \notin {"new"} \cup Final
  PROVE  /\ cartReq[r].call \in CartCalls /\ cartReq[r].call.who \in Owners
         /\ cartReq[r].call.offer \in Wares /\ cartReq[r].call.qty \in Nat
         /\ cartReq[r].call.op \in Ops
<1>1. cartReq[r].call \in CartCalls
  BY DEF CartInv, ReqsOK, ReqOK
<1> QED
  BY <1>1, CartAssumption DEF Owners

\* The request has a cart among the first n.
LEMMA HasOK ==
  ASSUME CartInv, NEW r \in CartRequests, NEW c, NEW n \in Nat, c \in 1..n,
         Len(cartRows) <= n, cartReq[r].pc \notin {"new"} \cup Final
  PROVE  ReqOK([cartReq[r] EXCEPT !.cart = c, !.pc = After(cartReq[r].call)], n, cartLines)
<1> DEFINE p == After(cartReq[r].call)  q == [cartReq[r] EXCEPT !.cart = c, !.pc = p]
<1>1. p \in {"offer", "line", "delete", "guest", "view"}
  BY DEF After
<1>2. cartReq[r] \in ReqRow /\ cartReq[r].call \in CartCalls
  BY CallOfReq DEF CartInv, ReqsOK
<1> HIDE DEF p
<1>3. q \in ReqRow /\ q.pc = p /\ q.cart = c /\ q.call = cartReq[r].call
  <2>1. p \in Pcs /\ c \in Nat
    BY <1>1 DEF Pcs
  <2>2. ASSUME NEW row \in ReqRow
        PROVE  LET new == [row EXCEPT !.cart = c, !.pc = p] IN
               new \in ReqRow /\ new.pc = p /\ new.cart = c /\ new.call = row.call
    BY <2>1 DEF ReqRow
  <2> QED
    BY <1>2, <2>2
<1> HIDE DEF q
<1>4. ReqOK(q, n, cartLines)
  BY <1>1, <1>2, <1>3 DEF ReqOK, HasCart
<1> QED
  BY <1>4 DEF p, q

LEMMA FindInv ==
  ASSUME CartInv, NEW r \in CartRequests, Find(r)
  PROVE  CartInv'
<1>1. cartReq[r].pc = "find" /\ UNCHANGED <<cartRows, cartLines, sellable, Tallies>>
  BY DEF Find
<1>2. CASE \E c \in ActiveOf(cartReq[r].call.who) : Has(r, c)
  <2>1. PICK c \in Carts : Has(r, c)
    BY <1>2 DEF ActiveOf
  <2>2. Len(cartRows) \in Nat /\ c \in 1..Len(cartRows) /\ Len(cartRows) <= Len(cartRows)
    BY DEF Carts, CartInv, RowsOK
  <2>3. cartReq[r].pc \notin {"new"} \cup Final
    BY <1>1 DEF Final
  <2>4. ReqOK([cartReq[r] EXCEPT !.cart = c, !.pc = After(cartReq[r].call)], Len(cartRows), cartLines)
    BY <2>2, <2>3, HasOK
  <2>5. ReqIs(r, [cartReq[r] EXCEPT !.cart = c, !.pc = After(cartReq[r].call)])
    BY <2>1 DEF Has, ReqIs
  <2> QED
    BY <1>1, <2>4, <2>5, QuietStep
<1>3. CASE CartGoto(r, "create")
  <2>1. "create" \in Pcs /\ "create" \notin HasCart /\ cartReq[r].pc \notin {"new"} \cup Final
    BY <1>1 DEF Pcs, HasCart, Final
  <2> QED
    BY <1>1, <1>3, <2>1, QuietGoto
<1> QED
  BY <1>2, <1>3 DEF Find

LEMMA CreateInv ==
  ASSUME CartInv, NEW r \in CartRequests, Create(r)
  PROVE  CartInv'
<1> DEFINE row == [who |-> cartReq[r].call.who, status |-> "ACTIVE"]  N == Len(cartRows)
<1>1. /\ cartReq[r].pc = "create" /\ cartRows' = Append(cartRows, row) /\ cartLines' = cartLines
      /\ sellable' = sellable /\ owed' = owed /\ raced' = raced /\ Has(r, Len(cartRows'))
  BY DEF Create, Tallies
<1>2. cartRows \in Seq(CartRow) /\ cartLines \in Seq(LineRow) /\ N \in Nat
  BY DEF CartInv, RowsOK
<1>3. row \in CartRow
  BY <1>1, CallOfReq DEF CartRow, Final
<1> HIDE DEF row
<1>4. cartRows' \in Seq(CartRow) /\ Len(cartRows') = N + 1
  BY <1>1, <1>2, <1>3
<1>5. \A l \in 1..Len(cartLines) : cartLines[l].cart \in 1..Len(cartRows)
  BY DEF CartInv, RowsOK
<1>6. RowsOK'
  <2>1. \A l \in 1..Len(cartLines') : cartLines'[l].cart \in 1..Len(cartRows')
    <3>1. 1..N \subseteq 1..Len(cartRows')
      BY <1>2, <1>4
    <3> HIDE DEF N
    <3> QED
      BY <1>1, <1>5, <3>1 DEF N
  <2> QED
    BY <1>1, <1>4, <2>1 DEF CartInv, RowsOK
<1>7. SumOK'
  <2>1. \A o \in Wares : Total(cartRows', cartLines', o) = Total(cartRows, cartLines, o)
    BY <1>1, <1>2, <1>3, <1>5, TotalAppended
  <2> QED
    BY <1>1, <2>1 DEF CartInv, SumOK
<1>8. ReqsOK'
  <2> DEFINE q == [cartReq[r] EXCEPT !.cart = Len(cartRows'), !.pc = After(cartReq[r].call)]
  <2>1. ReqIs(r, q)
    BY <1>1 DEF Has, ReqIs
  <2>2. Len(cartRows') \in Nat /\ Len(cartRows') \in 1..Len(cartRows') /\ N <= Len(cartRows')
    BY <1>2, <1>4
  <2>3. ReqOK(q, Len(cartRows'), cartLines)
    BY <1>1, <2>2, HasOK DEF Final
  <2>4. Grown(cartLines, cartLines')
    BY <1>1, <1>2, GrownSame
  <2> HIDE DEF q
  <2>5. ReqOK(q, Len(cartRows'), cartLines')
    BY <1>1, <2>3
  <2> QED
    BY <1>6, <2>1, <2>2, <2>4, <2>5, ReqMoves DEF CartInv
<1> QED
  BY <1>6, <1>7, <1>8 DEF CartInv

LEMMA ReadOfferInv ==
  ASSUME CartInv, NEW r \in CartRequests, ReadOffer(r)
  PROVE  CartInv'
<1>1. /\ cartReq[r].pc = "offer" /\ UNCHANGED <<cartRows, cartLines, sellable, Tallies>>
      /\ CartGoto(r, "upsert") \/ CartGoto(r, "refused")
  BY DEF ReadOffer
<1>2. /\ "upsert" \in Pcs /\ "refused" \in Pcs /\ "refused" \in Final
      /\ cartReq[r].pc \notin {"new"} \cup Final /\ cartReq[r].pc \in HasCart
      /\ "upsert" \notin {"set", "merge", "write"}
  BY <1>1 DEF Pcs, Final, HasCart
<1> QED
  BY <1>1, <1>2, QuietGoto

LEMMA ShowCartInv ==
  ASSUME CartInv, NEW r \in CartRequests, ShowCart(r)
  PROVE  CartInv'
<1>1. /\ UNCHANGED <<cartRows, cartLines, sellable, Tallies>>
      /\ CartGoto(r, "answered") \/ CartGoto(r, "refused")
  BY DEF ShowCart
<1>2. {"answered", "refused"} \subseteq Pcs \cap Final
  BY DEF Pcs, Final
<1> QED
  BY <1>1, <1>2, QuietGoto

LEMMA MergeFailsInv ==
  ASSUME CartInv, NEW r \in CartRequests, MergeFails(r)
  PROVE  CartInv'
<1>1. "refused" \in Pcs /\ "refused" \in Final
  BY DEF Pcs, Final
<1> QED
  BY <1>1, QuietGoto DEF MergeFails

\* A step that writes lines and keeps the carts.
LEMMA Writes ==
  ASSUME CartInv, NEW r \in CartRequests, cartReq[r].pc \in HasCart, CartGoto(r, "view"),
         cartRows' = cartRows, sellable' = sellable,
         cartLines' \in Seq(LineRow), Unique(cartLines'), Grown(cartLines, cartLines'),
         \A l \in 1..Len(cartLines') : cartLines'[l].cart \in 1..Len(cartRows), SumOK'
  PROVE  CartInv'
<1>1. RowsOK'
  BY DEF CartInv, RowsOK
<1>2. cartRows \in Seq(CartRow) /\ Len(cartRows) \in Nat /\ cartLines \in Seq(LineRow)
  BY DEF CartInv, RowsOK
<1>3. ReqOK(cartReq[r], Len(cartRows), cartLines)
  BY DEF CartInv, ReqsOK
<1>4. ReqOK(cartReq[r], Len(cartRows), cartLines')
  BY <1>2, <1>3, ReqGrows
<1>5. /\ "view" \in Pcs /\ cartReq[r].pc \notin {"new"} \cup Final
      /\ "view" \notin {"set", "merge", "write"}
  BY DEF Pcs, Final, HasCart
<1>6. ReqOK(Went(cartReq[r], "view"), Len(cartRows'), cartLines')
  BY <1>4, <1>5, WentOK
<1>7. ReqIs(r, Went(cartReq[r], "view"))
  BY GotoIs
<1>8. ReqsOK'
  BY <1>1, <1>2, <1>6, <1>7, ReqMoves DEF CartInv
<1> QED
  BY <1>1, <1>8 DEF CartInv

LEMMA UpsertInv ==
  ASSUME CartInv, NEW r \in CartRequests, Upsert(r)
  PROVE  CartInv'
<1> DEFINE c == cartReq[r].cart  o == cartReq[r].call.offer  qty == cartReq[r].call.qty
           l == LineOf(c, o)
<1>1. /\ cartReq[r].pc = "upsert" /\ AsksFor(c, o, 0, qty) /\ CartGoto(r, "view")
      /\ cartRows' = cartRows /\ sellable' = sellable
      /\ l = 0 => cartLines' = Append(cartLines, NewLine(c, o, qty))
      /\ l # 0 => cartLines' = WithQty(l, Upserted(cartLines[l].qty, qty))
  BY DEF Upsert
<1>2. cartReq[r].pc \in HasCart /\ cartReq[r].pc \notin {"new"} \cup Final
  BY <1>1 DEF HasCart, Final
<1>3. c \in 1..Len(cartRows) /\ o \in Wares /\ qty \in Nat
  BY <1>2, CallOfReq DEF CartInv, ReqsOK, ReqOK
<1> HIDE DEF c, o, qty
<1>4. /\ cartLines \in Seq(LineRow) /\ Unique(cartLines) /\ Len(cartRows) \in Nat /\ c \in Nat
      /\ \A k \in 1..Len(cartLines) : cartLines[k].cart \in 1..Len(cartRows)
  BY <1>3 DEF CartInv, RowsOK
<1>5. /\ cartLines' \in Seq(LineRow) /\ Unique(cartLines') /\ Grown(cartLines, cartLines')
      /\ \A k \in 1..Len(cartLines') : cartLines'[k].cart \in 1..Len(cartRows)
      /\ Qty(cartLines', c, o) + 0 = Qty(cartLines, c, o) + qty
      /\ \A d, p : <<d, p>> # <<c, o>> => Qty(cartLines', d, p) = Qty(cartLines, d, p)
  <2>1. CASE l = 0
    <3>1. Live(cartLines, c, o) = {}
      BY <2>1, LineNow
    <3>2. RowAdded(cartLines, cartLines', NewLine(c, o, qty))
      BY <1>1, <2>1 DEF RowAdded
    <3>3. /\ cartLines' \in Seq(LineRow) /\ Unique(cartLines') /\ Grown(cartLines, cartLines')
          /\ Len(cartLines') = Len(cartLines) + 1
          /\ cartLines'[Len(cartLines) + 1] = NewLine(c, o, qty)
          /\ \A k \in 1..Len(cartLines) : cartLines'[k] = cartLines[k]
          /\ Qty(cartLines', c, o) = qty
          /\ \A d, p : <<d, p>> # <<c, o>> => Qty(cartLines', d, p) = Qty(cartLines, d, p)
      BY <1>3, <1>4, <3>1, <3>2, LineAdded
    <3>4. \A k \in 1..Len(cartLines') : cartLines'[k].cart \in 1..Len(cartRows)
      <4>1. \A k \in 1..Len(cartLines') : k \in 1..Len(cartLines) \/ k = Len(cartLines) + 1
        BY <1>4, <3>3
      <4>2. NewLine(c, o, qty).cart = c
        BY DEF NewLine
      <4> QED
        BY <1>3, <1>4, <3>3, <4>1, <4>2
    <3>5. Qty(cartLines, c, o) = 0
      BY <3>1 DEF Qty
    <3>6. Qty(cartLines', c, o) + 0 = Qty(cartLines, c, o) + qty
      BY <1>3, <3>3, <3>5
    <3> QED
      BY <3>3, <3>4, <3>6
  <2>2. CASE l # 0
    <3>1. l \in Live(cartLines, c, o)
      BY <2>2, LineNow
    <3>2. /\ l \in 1..Len(cartLines) /\ cartLines[l].cart = c /\ cartLines[l].offer = o
          /\ cartLines[l].qty > 0
      BY <3>1 DEF Live
    <3> DEFINE old == cartLines[l].qty
    <3>3. old \in Nat
      <4>1. cartLines[l] \in LineRow
        BY <1>4, <3>2
      <4> QED
        BY <4>1 DEF LineRow
    <3>4. RowIs(cartLines, cartLines', l, [cartLines[l] EXCEPT !.qty = old + qty])
      BY <1>1, <2>2 DEF WithQty, Upserted, RowIs
    <3>5. old + qty \in Nat
      BY <1>3, <3>3
    <3> HIDE DEF old, l
    <3>6. /\ cartLines' \in Seq(LineRow) /\ Unique(cartLines') /\ Grown(cartLines, cartLines')
          /\ Len(cartLines') = Len(cartLines)
          /\ Qty(cartLines', c, o) = old + qty
          /\ \A d, p : <<d, p>> # <<c, o>> => Qty(cartLines', d, p) = Qty(cartLines, d, p)
      BY <1>4, <3>2, <3>4, <3>5, Rewritten
    <3>7. Qty(cartLines, c, o) = old
      BY <1>4, <3>2, QtyIs DEF old
    <3>8. \A k \in 1..Len(cartLines') : cartLines'[k].cart \in 1..Len(cartRows)
      BY <1>4, <3>6 DEF Grown
    <3>9. Qty(cartLines', c, o) + 0 = Qty(cartLines, c, o) + qty
      BY <1>3, <3>3, <3>6, <3>7
    <3> QED
      BY <3>6, <3>8, <3>9
  <2> QED
    BY <2>1, <2>2
<1>6. SumOK'
  <2>1. 0 \in Nat
    OBVIOUS
  <2> QED
    BY <1>1, <1>3, <1>5, <2>1, AskedFor DEF CartInv
<1> QED
  BY <1>1, <1>2, <1>5, <1>6, Writes

LEMMA FindLineInv ==
  ASSUME CartInv, NEW r \in CartRequests, FindLine(r)
  PROVE  CartInv'
<1> DEFINE l == LineOf(cartReq[r].cart, cartReq[r].call.offer)
<1>1. /\ cartReq[r].pc = "line" /\ UNCHANGED <<cartRows, cartLines, sellable, Tallies>>
      /\ l = 0 => CartGoto(r, "refused")
      /\ l # 0 => ReqIs(r, [cartReq[r] EXCEPT !.line = l, !.pc = "set"])
  BY DEF FindLine, ReqIs
<1>2. CASE l = 0
  <2>1. "refused" \in Pcs /\ "refused" \in Final
    BY DEF Pcs, Final
  <2> QED
    BY <1>1, <1>2, <2>1, QuietGoto
<1>3. CASE l # 0
  <2>1. l \in Live(cartLines, cartReq[r].cart, cartReq[r].call.offer)
    BY <1>3, LineNow
  <2>2. /\ l \in 1..Len(cartLines) /\ cartLines[l].cart = cartReq[r].cart
        /\ cartLines[l].offer = cartReq[r].call.offer
    BY <2>1 DEF Live
  <2> HIDE DEF l
  <2> DEFINE q == [cartReq[r] EXCEPT !.line = l, !.pc = "set"]
  <2>3. /\ q \in ReqRow /\ q.pc = "set" /\ q.line = l /\ q.cart = cartReq[r].cart
        /\ q.call = cartReq[r].call
    <3>1. l \in Nat /\ "set" \in Pcs
      BY <2>2 DEF Pcs
    <3>2. cartReq[r] \in ReqRow
      BY DEF CartInv, ReqsOK
    <3>3. ASSUME NEW row \in ReqRow
          PROVE  LET new == [row EXCEPT !.line = l, !.pc = "set"] IN
                 /\ new \in ReqRow /\ new.pc = "set" /\ new.line = l /\ new.cart = row.cart
                 /\ new.call = row.call
      BY <3>1 DEF ReqRow
    <3> QED
      BY <3>2, <3>3
  <2> HIDE DEF q
  <2>4. ReqOK(cartReq[r], Len(cartRows), cartLines)
    BY DEF CartInv, ReqsOK
  <2>5. ReqOK(q, Len(cartRows), cartLines)
    BY <1>1, <2>2, <2>3, <2>4 DEF ReqOK, HasCart, Final
  <2> QED
    BY <1>1, <1>3, <2>5, QuietStep DEF q
<1> QED
  BY <1>2, <1>3

\* The quantity of a live row becomes what its owner says.
LEMMA Resets ==
  ASSUME CartInv, NEW r \in CartRequests, cartReq[r].pc \in HasCart, CartGoto(r, "view"),
         NEW l \in 1..Len(cartLines), cartLines[l].qty > 0, NEW qty \in Nat,
         cartRows' = cartRows, sellable' = sellable, cartLines' = WithQty(l, qty),
         AsksFor(cartLines[l].cart, cartLines[l].offer, cartLines[l].qty, qty)
  PROVE  CartInv'
<1> DEFINE c == cartLines[l].cart  o == cartLines[l].offer  old == cartLines[l].qty
<1>1. /\ cartLines \in Seq(LineRow) /\ Unique(cartLines) /\ Len(cartRows) \in Nat
      /\ \A k \in 1..Len(cartLines) : cartLines[k].cart \in 1..Len(cartRows)
  BY DEF CartInv, RowsOK
<1>2. old \in Nat /\ o \in Wares
  <2>1. cartLines[l] \in LineRow
    BY <1>1
  <2> QED
    BY <2>1 DEF LineRow
<1>3. RowIs(cartLines, cartLines', l, [cartLines[l] EXCEPT !.qty = qty])
  BY DEF WithQty, RowIs
<1>4. /\ cartLines' \in Seq(LineRow) /\ Unique(cartLines') /\ Grown(cartLines, cartLines')
      /\ Len(cartLines') = Len(cartLines) /\ Qty(cartLines', c, o) = qty
      /\ \A d, p : <<d, p>> # <<c, o>> => Qty(cartLines', d, p) = Qty(cartLines, d, p)
  BY <1>1, <1>3, Rewritten
<1>5. Qty(cartLines, c, o) = old
  BY <1>1, QtyIs
<1>6. \A k \in 1..Len(cartLines') : cartLines'[k].cart \in 1..Len(cartRows)
  BY <1>1, <1>4 DEF Grown
<1>7. c \in 1..Len(cartRows) /\ AsksFor(c, o, old, qty)
  BY <1>1
<1> HIDE DEF c, o, old
<1>8. Qty(cartLines', c, o) + old = Qty(cartLines, c, o) + qty
  BY <1>2, <1>4, <1>5
<1>9. SumOK'
  BY <1>2, <1>4, <1>7, <1>8, AskedFor DEF CartInv
<1> QED
  BY <1>4, <1>6, <1>9, Writes

LEMMA KeepsLines ==
  ASSUME CartInv, NEW r \in CartRequests, NEW pc, pc \in {"view", "refused"}, CartGoto(r, pc),
         cartReq[r].pc \in HasCart, UNCHANGED <<cartRows, cartLines, sellable, Tallies>>
  PROVE  CartInv'
<1>1. pc \in Pcs /\ cartReq[r].pc \notin {"new"} \cup Final /\ pc \notin {"set", "merge", "write"}
  BY DEF Pcs, HasCart, Final
<1> QED
  BY <1>1, QuietGoto

LEMMA SetLineInv ==
  ASSUME CartInv, NEW r \in CartRequests, SetLine(r)
  PROVE  CartInv'
<1> DEFINE l == cartReq[r].line
<1>1. cartReq[r].pc = "set" /\ cartRows' = cartRows /\ sellable' = sellable
  BY DEF SetLine
<1>2. cartReq[r].pc \in HasCart /\ cartReq[r].pc \notin {"new"} \cup Final
  BY <1>1 DEF HasCart, Final
<1>3. /\ l \in 1..Len(cartLines) /\ cartLines[l].cart = cartReq[r].cart
      /\ cartLines[l].offer = cartReq[r].call.offer
  BY <1>1 DEF CartInv, ReqsOK, ReqOK
<1>4. CASE /\ CartGoto(r, "refused") /\ UNCHANGED <<cartLines, Tallies>>
  <2>1. UNCHANGED <<cartRows, cartLines, sellable, Tallies>>
    BY <1>1, <1>4
  <2> QED
    BY <1>2, <1>4, <2>1, KeepsLines
<1>5. CASE /\ cartLines[l].qty # 0 /\ CartGoto(r, "view")
           /\ cartLines' = WithQty(l, cartReq[r].call.qty)
           /\ AsksFor(cartReq[r].cart, cartReq[r].call.offer, cartLines[l].qty, cartReq[r].call.qty)
  <2>1. cartReq[r].call.qty \in Nat
    BY <1>2, CallOfReq
  <2>2. cartLines[l].qty > 0
    <3>1. cartLines[l] \in LineRow
      BY <1>3 DEF CartInv, RowsOK
    <3> QED
      BY <1>5, <3>1 DEF LineRow
  <2>3. AsksFor(cartLines[l].cart, cartLines[l].offer, cartLines[l].qty, cartReq[r].call.qty)
    BY <1>3, <1>5
  <2> HIDE DEF l
  <2> QED
    BY <1>1, <1>2, <1>3, <1>5, <2>1, <2>2, <2>3, Resets
<1> QED
  BY <1>4, <1>5 DEF SetLine

LEMMA RemoveLineInv ==
  ASSUME CartInv, NEW r \in CartRequests, RemoveLine(r)
  PROVE  CartInv'
<1> DEFINE c == cartReq[r].cart  o == cartReq[r].call.offer  l == LineOf(c, o)
<1>1. /\ cartReq[r].pc = "delete" /\ cartRows' = cartRows /\ sellable' = sellable
      /\ CartGoto(r, "view")
      /\ \/ l = 0 /\ UNCHANGED <<cartLines, Tallies>>
         \/ l # 0 /\ cartLines' = WithQty(l, 0) /\ AsksFor(c, o, cartLines[l].qty, 0)
  BY DEF RemoveLine
<1>2. cartReq[r].pc \in HasCart
  BY <1>1 DEF HasCart
<1>3. CASE l = 0
  <2>1. UNCHANGED <<cartRows, cartLines, sellable, Tallies>>
    BY <1>1, <1>3
  <2>2. "view" \in {"view", "refused"}
    OBVIOUS
  <2> QED
    BY <1>1, <1>2, <2>1, <2>2, KeepsLines
<1>4. CASE l # 0
  <2>1. l \in Live(cartLines, c, o)
    BY <1>4, LineNow
  <2>2. /\ l \in 1..Len(cartLines) /\ cartLines[l].cart = c /\ cartLines[l].offer = o
        /\ cartLines[l].qty > 0
    BY <2>1 DEF Live
  <2>3. /\ cartLines' = WithQty(l, 0) /\ 0 \in Nat
        /\ AsksFor(cartLines[l].cart, cartLines[l].offer, cartLines[l].qty, 0)
    BY <1>1, <1>4, <2>2
  <2> HIDE DEF l
  <2> QED
    BY <1>1, <1>2, <2>2, <2>3, Resets
<1> QED
  BY <1>3, <1>4

\* The numbers that a merge reads.
LEMMA QtysOf ==
  ASSUME RowsOK
  PROVE  \A c, o : QtyOf(c, o) \in Nat /\ QtyOf(c, o) = Qty(cartLines, c, o)
<1>1. cartLines \in Seq(LineRow)
  BY DEF RowsOK
<1> QED
  BY <1>1, LineNow, QtyNat

LEMMA ReadGuestInv ==
  ASSUME CartInv, NEW r \in CartRequests, ReadGuest(r)
  PROVE  CartInv'
<1>1. cartReq[r].pc = "guest" /\ UNCHANGED <<cartRows, cartLines, sellable, Tallies>>
  BY DEF ReadGuest
<1>2. CASE CartGoto(r, "answered")
  <2>1. "answered" \in Pcs /\ "answered" \in Final
    BY DEF Pcs, Final
  <2> QED
    BY <1>1, <1>2, <2>1, QuietGoto
<1>3. ASSUME NEW g \in ActiveOf(cartReq[r].call.guest) \ {cartReq[r].cart},
             ReqIs(r, [cartReq[r] EXCEPT
               !.pc = "merge", !.guest = g, !.left = {o \in Wares : LineOf(g, o) # 0},
               !.units = [o \in Wares |-> QtyOf(g, o)]])
      PROVE  CartInv'
  <2> DEFINE left == {o \in Wares : LineOf(g, o) # 0}  units == [o \in Wares |-> QtyOf(g, o)]
             q == [cartReq[r] EXCEPT !.pc = "merge", !.guest = g, !.left = left, !.units = units]
  <2>1. g \in 1..Len(cartRows) /\ g # cartReq[r].cart
    BY DEF ActiveOf, Carts
  <2>2. left \in SUBSET Wares
    OBVIOUS
  <2>3. units \in [Wares -> Nat]
    BY QtysOf DEF CartInv
  <2> HIDE DEF left, units
  <2>4. /\ q \in ReqRow /\ q.pc = "merge" /\ q.guest = g /\ q.cart = cartReq[r].cart
        /\ q.call = cartReq[r].call
    <3>1. g \in Nat /\ "merge" \in Pcs
      BY <2>1 DEF Pcs
    <3>2. cartReq[r] \in ReqRow
      BY DEF CartInv, ReqsOK
    <3>3. ASSUME NEW row \in ReqRow
          PROVE  LET new == [row EXCEPT !.pc = "merge", !.guest = g, !.left = left, !.units = units]
                 IN /\ new \in ReqRow /\ new.pc = "merge" /\ new.guest = g /\ new.cart = row.cart
                    /\ new.call = row.call
      BY <2>2, <2>3, <3>1 DEF ReqRow
    <3> QED
      BY <3>2, <3>3
  <2>5. ReqIs(r, q)
    BY <1>3 DEF left, units
  <2> HIDE DEF q
  <2>6. ReqOK(cartReq[r], Len(cartRows), cartLines)
    BY DEF CartInv, ReqsOK
  <2>7. ReqOK(q, Len(cartRows), cartLines)
    BY <1>1, <2>1, <2>4, <2>6 DEF ReqOK, HasCart, Final
  <2> QED
    BY <1>1, <2>5, <2>7, QuietStep
<1> QED
  BY <1>2, <1>3 DEF ReadGuest, ReqIs

LEMMA MergeReadInv ==
  ASSUME CartInv, NEW r \in CartRequests, MergeRead(r)
  PROVE  CartInv'
<1>1. cartReq[r].pc = "merge" /\ UNCHANGED <<cartRows, cartLines, sellable, Tallies>>
  BY DEF MergeRead
<1>2. cartReq[r] \in ReqRow /\ ReqOK(cartReq[r], Len(cartRows), cartLines)
  BY DEF CartInv, ReqsOK
<1>3. PICK o \in cartReq[r].left :
        LET dropped == [cartReq[r] EXCEPT !.left = cartReq[r].left \ {o}]
            sum == cartReq[r].units[o] + QtyOf(cartReq[r].cart, o)
        IN IF o \notin sellable THEN cartReq' = [cartReq EXCEPT ![r] = dropped]
           ELSE cartReq' = [cartReq EXCEPT ![r] = [dropped EXCEPT
                  !.pc = "write", !.offer = o, !.line = LineOf(cartReq[r].cart, o),
                  !.units = [cartReq[r].units EXCEPT ![o] = sum]]]
  BY DEF MergeRead
<1> DEFINE rest == cartReq[r].left \ {o}  dropped == [cartReq[r] EXCEPT !.left = rest]
           line == LineOf(cartReq[r].cart, o)
           units == [cartReq[r].units EXCEPT ![o] = cartReq[r].units[o] + QtyOf(cartReq[r].cart, o)]
           q == [dropped EXCEPT !.pc = "write", !.offer = o, !.line = line, !.units = units]
<1>4. /\ o \notin sellable => ReqIs(r, dropped)
      /\ o \in sellable => ReqIs(r, q)
  BY <1>3 DEF ReqIs
<1>5. rest \in SUBSET Wares /\ o \in Wares
  BY <1>2 DEF ReqRow
<1>6. line \in Nat
  <2>1. line \in Live(cartLines, cartReq[r].cart, o) => line \in Nat
    BY DEF Live
  <2> QED
    BY <2>1, LineNow
<1>7. units \in [Wares -> Nat]
  <2>1. cartReq[r].units \in [Wares -> Nat] /\ QtyOf(cartReq[r].cart, o) \in Nat
    BY <1>2, QtysOf DEF ReqRow, CartInv
  <2> HIDE DEF line
  <2> QED
    BY <1>5, <2>1
<1> HIDE DEF rest, line, units
<1>8. /\ dropped \in ReqRow /\ dropped.pc = cartReq[r].pc /\ dropped.guest = cartReq[r].guest
      /\ dropped.cart = cartReq[r].cart /\ dropped.call = cartReq[r].call
  BY <1>2, <1>5 DEF ReqRow
<1> HIDE DEF dropped
<1>9. /\ q \in ReqRow /\ q.pc = "write" /\ q.guest = cartReq[r].guest /\ q.offer = o
      /\ q.cart = cartReq[r].cart /\ q.call = cartReq[r].call
  <2>1. "write" \in Pcs
    BY DEF Pcs
  <2> QED
    BY <1>5, <1>6, <1>7, <1>8, <2>1 DEF ReqRow
<1> HIDE DEF q
<1>10. ReqOK(dropped, Len(cartRows), cartLines)
  BY <1>1, <1>2, <1>8 DEF ReqOK
<1>11. ReqOK(q, Len(cartRows), cartLines)
  BY <1>1, <1>2, <1>5, <1>9 DEF ReqOK, HasCart, Final
<1> QED
  BY <1>1, <1>4, <1>10, <1>11, QuietStep

LEMMA MergeWriteInv ==
  ASSUME CartInv, NEW r \in CartRequests, MergeWrite(r)
  PROVE  CartInv'
<1> DEFINE o == cartReq[r].offer
           wrote == [cartReq[r].wrote EXCEPT ![o] = cartReq[r].units[o]]
           q == [cartReq[r] EXCEPT !.pc = "merge", !.wrote = wrote]
<1>1. /\ cartReq[r].pc = "write" /\ UNCHANGED <<cartRows, cartLines, sellable, Tallies>>
      /\ ReqIs(r, q) \/ CartGoto(r, "refused")
  BY DEF MergeWrite, ReqIs
<1>2. cartReq[r] \in ReqRow /\ ReqOK(cartReq[r], Len(cartRows), cartLines) /\ o \in Wares
  BY <1>1 DEF CartInv, ReqsOK, ReqOK
<1>3. wrote \in [Wares -> Nat]
  <2>1. cartReq[r].wrote \in [Wares -> Nat] /\ cartReq[r].units \in [Wares -> Nat]
    BY <1>2 DEF ReqRow
  <2> QED
    BY <1>2, <2>1
<1> HIDE DEF wrote
<1>4. /\ q \in ReqRow /\ q.pc = "merge" /\ q.guest = cartReq[r].guest
      /\ q.cart = cartReq[r].cart /\ q.call = cartReq[r].call
  <2>1. "merge" \in Pcs
    BY DEF Pcs
  <2> QED
    BY <1>2, <1>3, <2>1 DEF ReqRow
<1> HIDE DEF q
<1>5. ReqOK(q, Len(cartRows), cartLines)
  BY <1>1, <1>2, <1>4 DEF ReqOK, HasCart, Final
<1>6. "refused" \in Pcs /\ "refused" \in Final
  BY DEF Pcs, Final
<1>7. CASE ReqIs(r, q)
  BY <1>1, <1>5, <1>7, QuietStep
<1>8. CASE CartGoto(r, "refused")
  BY <1>1, <1>6, <1>8, QuietGoto
<1> QED
  BY <1>1, <1>7, <1>8

IsConverted(rows, new, g) == new = [rows EXCEPT ![g] = [rows[g] EXCEPT !.status = "CONVERTED"]]

\* A cart that is converted leaves the sum with what it had.
LEMMA ConvertedRows ==
  ASSUME NEW rows \in Seq(CartRow), NEW g \in 1..Len(rows), NEW new, IsConverted(rows, new, g)
  PROVE  /\ new \in Seq(CartRow) /\ Len(new) = Len(rows)
         /\ new[g].status = "CONVERTED" /\ \A c \in 1..Len(rows) : c # g => new[c] = rows[c]
<1>1. rows[g] \in CartRow
  OBVIOUS
<1> DEFINE row == [rows[g] EXCEPT !.status = "CONVERTED"]
<1>2. row \in CartRow /\ row.status = "CONVERTED"
  BY <1>1 DEF CartRow
<1> HIDE DEF row
<1>3. new = [rows EXCEPT ![g] = row]
  BY DEF IsConverted, row
<1> QED
  BY <1>2, <1>3

LEMMA TotalConverted ==
  ASSUME NEW rows \in Seq(CartRow), NEW g \in 1..Len(rows), NEW new, IsConverted(rows, new, g),
         rows[g].status = "ACTIVE", NEW s \in Seq(LineRow), NEW o
  PROVE  Total(new, s, o) = Total(rows, s, o) - Qty(s, g, o)
<1>1. /\ new \in Seq(CartRow) /\ Len(new) = Len(rows) /\ new[g].status = "CONVERTED"
      /\ \A c \in 1..Len(rows) : c # g => new[c] = rows[c]
  BY ConvertedRows
<1>2. \A c \in 1..Len(rows) : c # g => Part(new, s, c, o) = Part(rows, s, c, o)
  BY <1>1 DEF Part
<1>3. Part(new, s, g, o) = 0 /\ Part(rows, s, g, o) = Qty(s, g, o)
  BY <1>1 DEF Part
<1>4. Total(new, s, o) = Total(rows, s, o) + Part(new, s, g, o) - Part(rows, s, g, o)
  BY <1>1, <1>2, TotalMoves
<1>5. Total(rows, s, o) \in Int /\ Qty(s, g, o) \in Nat
  BY TotalIs, QtyNat
<1> QED
  BY <1>3, <1>4, <1>5

LEMMA WithdrawInv ==
  ASSUME CartInv, NEW o \in Wares, Withdraw(o)
  PROVE  CartInv'
<1>1. /\ cartRows' = cartRows /\ cartLines' = cartLines /\ cartReq' = cartReq /\ owed' = owed
      /\ raced' = raced /\ sellable' = sellable \ {o}
  BY DEF Withdraw, Tallies
<1>2. RowsOK'
  BY <1>1 DEF CartInv, RowsOK
<1>3. ReqsOK'
  BY <1>1 DEF CartInv, ReqsOK
<1>4. SumOK'
  BY <1>1 DEF CartInv, SumOK
<1> QED
  BY <1>2, <1>3, <1>4 DEF CartInv

LEMMA CheckOutInv ==
  ASSUME CartInv, NEW c \in Carts, CheckOut(c)
  PROVE  CartInv'
<1>1. /\ IsActive(c) /\ IsConverted(cartRows, cartRows', c) /\ cartLines' = cartLines
      /\ owed' = [o \in Wares |-> owed[o] - QtyOf(c, o)] /\ sellable' = sellable
      /\ cartReq' = cartReq /\ raced' = raced
  BY DEF CheckOut, Converted, IsConverted
<1>2. /\ cartRows \in Seq(CartRow) /\ cartLines \in Seq(LineRow) /\ c \in 1..Len(cartRows)
  BY DEF CartInv, RowsOK, Carts
<1>3. cartRows' \in Seq(CartRow) /\ Len(cartRows') = Len(cartRows)
  BY <1>1, <1>2, ConvertedRows
<1>4. RowsOK'
  BY <1>1, <1>3 DEF CartInv, RowsOK
<1>5. ReqsOK'
  BY <1>1, <1>3 DEF CartInv, ReqsOK
<1>6. \A o \in Wares : QtyOf(c, o) \in Nat /\ QtyOf(c, o) = Qty(cartLines, c, o)
  BY QtysOf DEF CartInv
<1>7. owed' \in [Wares -> Int] /\ \A o \in Wares : owed'[o] = owed[o] - Qty(cartLines, c, o)
  BY <1>1, <1>6 DEF CartInv, SumOK
<1>8. \A o \in Wares :
        Total(cartRows', cartLines', o) = Total(cartRows, cartLines, o) - Qty(cartLines, c, o)
  BY <1>1, <1>2, TotalConverted DEF IsActive
<1>9. ~raced => \A o \in Wares : Total(cartRows', cartLines', o) = owed'[o]
  BY <1>7, <1>8 DEF CartInv, SumOK
<1>10. SumOK'
  BY <1>1, <1>7, <1>9 DEF CartInv, SumOK
<1> QED
  BY <1>4, <1>5, <1>10 DEF CartInv

\* What a merge that met nobody leaves in the carts.
LEMMA MergeCommitSum ==
  ASSUME NEW rows \in Seq(CartRow), NEW new, NEW s \in Seq(LineRow), NEW t, Unique(s),
         NEW c \in 1..Len(rows), NEW g \in 1..Len(rows), c # g, NEW w \in [Wares -> Nat],
         IsMerged(s, t, c, w), IsConverted(rows, new, g),
         rows[c].status = "ACTIVE", rows[g].status = "ACTIVE",
         \A o \in Into(w) : w[o] = Qty(s, c, o) + Qty(s, g, o), NEW o \in Wares
  PROVE  Total(new, t, o) = IF o \in Into(w) THEN Total(rows, s, o)
                            ELSE Total(rows, s, o) - Qty(s, g, o)
<1>1. /\ t \in Seq(LineRow) /\ \A p \in Into(w) : Qty(t, c, p) = w[p]
      /\ \A d, p : ~(d = c /\ p \in Into(w)) => Qty(t, d, p) = Qty(s, d, p)
  <2>1. c \in Nat
    OBVIOUS
  <2> QED
    BY <2>1, Merged
<1>2. \A d \in 1..Len(rows) : d # c => Part(rows, t, d, o) = Part(rows, s, d, o)
  BY <1>1 DEF Part
<1>3. Part(rows, t, c, o) = Qty(t, c, o) /\ Part(rows, s, c, o) = Qty(s, c, o)
  BY DEF Part
<1>4. Total(rows, t, o) = Total(rows, s, o) + Part(rows, t, c, o) - Part(rows, s, c, o)
  <2>1. t \in Seq(LineRow)
    BY <1>1
  <2> QED
    BY <1>2, <2>1, LinesMove
<1>5. Total(new, t, o) = Total(rows, t, o) - Qty(t, g, o)
  BY <1>1, TotalConverted
<1>6. Qty(t, g, o) = Qty(s, g, o)
  BY <1>1
<1>7. /\ Total(rows, s, o) \in Int /\ Qty(s, c, o) \in Nat /\ Qty(s, g, o) \in Nat
      /\ Total(rows, t, o) \in Int
  BY <1>1, TotalIs, QtyNat
<1>8. CASE o \in Into(w)
  <2>1. Qty(t, c, o) = Qty(s, c, o) + Qty(s, g, o)
    BY <1>1, <1>8
  <2> QED
    BY <1>3, <1>4, <1>5, <1>6, <1>7, <1>8, <2>1
<1>9. CASE o \notin Into(w)
  <2>1. Qty(t, c, o) = Qty(s, c, o)
    BY <1>1, <1>9
  <2> QED
    BY <1>3, <1>4, <1>5, <1>6, <1>7, <1>9, <2>1
<1> QED
  BY <1>8, <1>9

LEMMA MergeCommitInv ==
  ASSUME CartInv, NEW r \in CartRequests, MergeCommit(r)
  PROVE  CartInv'
<1> DEFINE c == cartReq[r].cart  g == cartReq[r].guest  w == cartReq[r].wrote
<1>1. /\ cartReq[r].pc = "merge" /\ IsConverted(cartRows, cartRows', g)
      /\ cartLines' = Updated(r) \o NewLines(r, SetToSeq(Inserted(r)))
      /\ owed' = [o \in Wares |-> IF o \in Wrote(r) \/ ~IsActive(g) THEN owed[o]
                                  ELSE owed[o] - QtyOf(g, o)]
      /\ CartGoto(r, "answered") /\ sellable' = sellable
  BY DEF MergeCommit, Converted, IsConverted
<1>2. /\ raced' \in BOOLEAN
      /\ ~raced' => /\ ~raced /\ IsActive(c) /\ IsActive(g)
                    /\ \A o \in Wrote(r) : w[o] = QtyOf(c, o) + QtyOf(g, o)
  <2>1. raced' = (raced \/ ~IsActive(c) \/ ~IsActive(g)
                        \/ (\E o \in Wares : QtyOf(g, o) > 0 /\ cartReq[r].units[o] = 0)
                        \/ (\E o \in Wrote(r) : w[o] # QtyOf(c, o) + QtyOf(g, o)))
    BY DEF MergeCommit
  <2> QED
    BY <2>1
<1>3. c \in 1..Len(cartRows) /\ g \in 1..Len(cartRows) /\ c # g
  BY <1>1 DEF CartInv, ReqsOK, ReqOK, HasCart
<1>4. w \in [Wares -> Nat]
  BY DEF CartInv, ReqsOK, ReqRow
<1>5. cartRows \in Seq(CartRow) /\ cartLines \in Seq(LineRow) /\ Unique(cartLines) /\ c \in Nat
  BY <1>3 DEF CartInv, RowsOK
<1>6. Wrote(r) = Into(w)
  BY DEF Wrote, Into
<1>7. IsMerged(cartLines, cartLines', c, w)
  <2>1. Inserted(r) = Missing(cartLines, c, w)
    BY <1>6, LineNow DEF Inserted, Missing
  <2>2. Updated(r) = MergedRows(cartLines, c, w)
    BY <1>6 DEF Updated, MergedRows
  <2>3. NewLines(r, SetToSeq(Inserted(r))) = AddedRows(c, w, SetToSeq(Inserted(r)))
    BY DEF NewLines, AddedRows
  <2> QED
    BY <1>1, <2>1, <2>2, <2>3 DEF IsMerged
<1> HIDE DEF c, g, w
<1>8. /\ cartLines' \in Seq(LineRow) /\ Grown(cartLines, cartLines') /\ Unique(cartLines')
      /\ \A l \in 1..Len(cartLines') :
           cartLines'[l].cart = c
             \/ (l \in 1..Len(cartLines) /\ cartLines'[l].cart = cartLines[l].cart)
  BY <1>4, <1>5, <1>7, Merged
<1>9. cartRows' \in Seq(CartRow) /\ Len(cartRows') = Len(cartRows)
  BY <1>1, <1>3, <1>5, ConvertedRows
<1>10. RowsOK'
  BY <1>1, <1>3, <1>8, <1>9 DEF CartInv, RowsOK
<1>11. ReqsOK'
  <2>1. "answered" \in Pcs /\ "answered" \in Final
    BY DEF Pcs, Final
  <2>2. Len(cartRows) \in Nat /\ Len(cartRows) <= Len(cartRows')
    BY <1>5, <1>9
  <2>3. ReqOK(cartReq[r], Len(cartRows), cartLines)
    BY DEF CartInv, ReqsOK
  <2>4. ReqOK(cartReq[r], Len(cartRows'), cartLines')
    BY <1>5, <1>8, <1>9, <2>2, <2>3, ReqGrows
  <2>5. ReqOK(Went(cartReq[r], "answered"), Len(cartRows'), cartLines')
    BY <2>1, <2>4, WentOK
  <2>6. ReqIs(r, Went(cartReq[r], "answered"))
    BY <1>1, GotoIs
  <2> QED
    BY <1>8, <1>10, <2>2, <2>5, <2>6, ReqMoves DEF CartInv
<1>12. \A d, o : QtyOf(d, o) \in Nat /\ QtyOf(d, o) = Qty(cartLines, d, o)
  BY QtysOf DEF CartInv
<1>13. owed \in [Wares -> Int]
  BY DEF CartInv, SumOK
<1>14. owed' \in [Wares -> Int]
  BY <1>1, <1>12, <1>13
<1>15. ASSUME ~raced', NEW o \in Wares PROVE Total(cartRows', cartLines', o) = owed'[o]
  <2>1. ~raced /\ IsActive(c) /\ IsActive(g) /\ \A p \in Wrote(r) : w[p] = QtyOf(c, p) + QtyOf(g, p)
    BY <1>2, <1>15
  <2>2. /\ cartRows[c].status = "ACTIVE" /\ cartRows[g].status = "ACTIVE"
        /\ \A p \in Into(w) : w[p] = Qty(cartLines, c, p) + Qty(cartLines, g, p)
    BY <1>6, <1>12, <2>1 DEF IsActive
  <2>3. Total(cartRows', cartLines', o)
          = IF o \in Into(w) THEN Total(cartRows, cartLines, o)
            ELSE Total(cartRows, cartLines, o) - Qty(cartLines, g, o)
    <3>1. IsConverted(cartRows, cartRows', g)
      BY <1>1
    <3> QED
      BY <1>3, <1>4, <1>5, <1>7, <2>2, <3>1, MergeCommitSum, SMTT(30)
  <2>4. Total(cartRows, cartLines, o) = owed[o]
    BY <2>1 DEF CartInv, SumOK
  <2>5. owed'[o] = IF o \in Into(w) THEN owed[o] ELSE owed[o] - Qty(cartLines, g, o)
    BY <1>1, <1>6, <1>12, <2>1
  <2> QED
    BY <2>3, <2>4, <2>5
<1>16. SumOK'
  BY <1>2, <1>14, <1>15 DEF SumOK
<1> QED
  BY <1>10, <1>11, <1>16 DEF CartInv

-----------------------------------------------------------------------------
LEMMA SumOnes ==
  ASSUME NEW N \in Nat, NEW a \in [1..N -> Int], \A i \in 1..N : a[i] = 1
  PROVE  SumOf(a) = N
<1>1. PICK f : Adds(a, f) /\ SumOf(a) = f[N]
  BY SumAdds
<1>2. Len(a) = N
  BY Column
<1> DEFINE S == {n \in Nat : n <= N => f[n] = n}
<1>3. 0 \in S
  BY <1>1 DEF Adds
<1>4. ASSUME NEW n \in Nat, n \in S
      PROVE  n + 1 \in S
  <2> SUFFICES ASSUME n + 1 <= N PROVE f[n + 1] = n + 1
    OBVIOUS
  <2> DEFINE m == n + 1
  <2>1. m \in 1..N /\ m - 1 = n /\ f[n] = n
    BY <1>4
  <2>2. f[m] = f[n] + a[m]
    <3> HIDE DEF m
    <3> QED
      BY <1>1, <1>2, <2>1 DEF Adds
  <2> QED
    BY <2>1, <2>2
<1>5. Nat \subseteq S
  <2> HIDE DEF S
  <2> QED
    BY <1>3, <1>4, Induction
<1> QED
  BY <1>1, <1>5

LEMMA CartInitInv ==
  ASSUME CartInit
  PROVE  CartInv
<1> DEFINE who == SetToSeq(Returning)  n == Cardinality(Returning)
           P == (1..n) \X Wares  what == SetToSeq(P)  m == Cardinality(P)
<1>1. /\ cartRows = [c \in 1..Len(who) |-> [who |-> who[c], status |-> "ACTIVE"]]
      /\ cartLines = [l \in 1..Len(what) |-> NewLine(what[l][1], what[l][2], 1)]
      /\ owed = [o \in Wares |-> n] /\ raced = FALSE /\ sellable = Wares
      /\ cartReq = [r \in CartRequests |-> Idle]
  BY DEF CartInit
<1>2. /\ who \in [1..n -> Returning] /\ n \in Nat /\ Len(who) = n
  BY CartAssumption, SetInOrder
<1>3. IsFiniteSet(P)
  <2>1. IsFiniteSet(1..n)
    BY <1>2, FS_Interval
  <2> HIDE DEF n
  <2> QED
    BY <2>1, CartAssumption, FS_Product
<1>4. /\ what \in [1..m -> P] /\ m \in Nat /\ Len(what) = m
      /\ \A i, j \in 1..m : what[i] = what[j] => i = j
      /\ \A x \in P : \E i \in 1..m : what[i] = x
  <2> HIDE DEF P
  <2> QED
    BY <1>3, SetInOrder
<1> HIDE DEF who, what, m, n
<1>5. \A l \in 1..m : /\ what[l][1] \in 1..n /\ what[l][2] \in Wares
                      /\ what[l] = <<what[l][1], what[l][2]>>
  BY <1>4
<1> HIDE DEF P
<1>6. /\ cartRows \in Seq(CartRow) /\ Len(cartRows) = n
      /\ \A c \in 1..n : cartRows[c].status = "ACTIVE"
  <2>1. \A c \in 1..n : [who |-> who[c], status |-> "ACTIVE"] \in CartRow
    BY <1>2, CartAssumption DEF CartRow
  <2>2. cartRows = [c \in 1..n |-> [who |-> who[c], status |-> "ACTIVE"]]
    BY <1>1, <1>2
  <2>3. cartRows \in [1..n -> CartRow]
    BY <2>1, <2>2
  <2>4. cartRows \in Seq(CartRow) /\ Len(cartRows) = n
    BY <1>2, <2>3, Column
  <2> QED
    BY <2>2, <2>4
<1>7. /\ \A l \in 1..m : /\ cartLines[l] \in LineRow /\ cartLines[l].cart = what[l][1]
                         /\ cartLines[l].offer = what[l][2] /\ cartLines[l].qty = 1
      /\ cartLines \in Seq(LineRow) /\ Len(cartLines) = m
  <2>1. cartLines = [l \in 1..m |-> NewLine(what[l][1], what[l][2], 1)]
    BY <1>1, <1>4
  <2>2. \A l \in 1..m : cartLines[l] = NewLine(what[l][1], what[l][2], 1)
    BY <2>1
  <2>3. \A l \in 1..m : /\ cartLines[l] \in LineRow /\ cartLines[l].cart = what[l][1]
                        /\ cartLines[l].offer = what[l][2] /\ cartLines[l].qty = 1
    <3> SUFFICES ASSUME NEW l \in 1..m
                 PROVE  /\ cartLines[l] \in LineRow /\ cartLines[l].cart = what[l][1]
                        /\ cartLines[l].offer = what[l][2] /\ cartLines[l].qty = 1
      OBVIOUS
    <3>1. what[l][1] \in Nat /\ what[l][2] \in Wares
      BY <1>2, <1>5
    <3>2. /\ NewLine(what[l][1], what[l][2], 1) \in LineRow
          /\ NewLine(what[l][1], what[l][2], 1).cart = what[l][1]
          /\ NewLine(what[l][1], what[l][2], 1).offer = what[l][2]
          /\ NewLine(what[l][1], what[l][2], 1).qty = 1
      BY <3>1 DEF NewLine, LineRow
    <3> QED
      BY <2>2, <3>2
  <2>4. cartLines \in [1..m -> LineRow]
    BY <2>1, <2>3
  <2>5. cartLines \in Seq(LineRow) /\ Len(cartLines) = m
    BY <1>4, <2>4, Column
  <2> QED
    BY <2>3, <2>5
<1>8. Unique(cartLines)
  <2> SUFFICES ASSUME NEW k \in 1..m, NEW l \in 1..m, cartLines[k].cart = cartLines[l].cart,
                      cartLines[k].offer = cartLines[l].offer
               PROVE  k = l
    BY <1>7 DEF Unique
  <2>1. what[k] = what[l]
    BY <1>5, <1>7
  <2> QED
    BY <1>4, <2>1
<1>9. RowsOK
  BY <1>1, <1>5, <1>6, <1>7, <1>8 DEF RowsOK
<1>10. ReqsOK
  <2>1. [Idle EXCEPT !.pc = "answered"] \in ReqRow /\ NoneOf \in [Wares -> Nat]
    BY DEF NoneOf, Idle, ReqRow, Pcs, Final
  <2>2. Idle \in ReqRow /\ Idle.pc = "new"
    BY <2>1 DEF Idle, ReqRow, Pcs
  <2>3. ReqOK(Idle, Len(cartRows), cartLines)
    BY <2>2 DEF ReqOK, HasCart
  <2> QED
    BY <1>1, <2>2, <2>3 DEF ReqsOK
<1>11. ASSUME NEW o \in Wares PROVE Total(cartRows, cartLines, o) = n
  <2>1. \A c \in 1..n : Part(cartRows, cartLines, c, o) = 1
    <3> SUFFICES ASSUME NEW c \in 1..n PROVE Qty(cartLines, c, o) = 1
      BY <1>6 DEF Part
    <3>1. PICK l \in 1..m : what[l] = <<c, o>>
      BY <1>4 DEF P
    <3>2. /\ l \in 1..Len(cartLines) /\ cartLines[l].cart = c /\ cartLines[l].offer = o
          /\ cartLines[l].qty = 1
      BY <1>7, <3>1
    <3>3. Qty(cartLines, cartLines[l].cart, cartLines[l].offer) = cartLines[l].qty
      BY <1>7, <1>8, <3>2, QtyIs
    <3> QED
      BY <3>2, <3>3
  <2>2. /\ Column1(cartRows, cartLines, o) \in [1..n -> Int]
        /\ \A c \in 1..n : Column1(cartRows, cartLines, o)[c] = 1
        /\ Total(cartRows, cartLines, o) = SumOf(Column1(cartRows, cartLines, o))
    BY <1>6, <1>7, <2>1, TotalIs
  <2> QED
    BY <1>2, <2>2, SumOnes
<1>12. SumOK
  <2>1. owed \in [Wares -> Int] /\ \A o \in Wares : owed[o] = n
    BY <1>1, <1>2
  <2>2. raced \in BOOLEAN
    BY <1>1
  <2> QED
    BY <1>11, <2>1, <2>2 DEF SumOK
<1> QED
  BY <1>9, <1>10, <1>12 DEF CartInv

\* Cart: every row is well formed, a cart has one live row for an offer, and every request
\* is where its rows let it be.
THEOREM CartInvariant == CartSpec => []CartInv
<1>1. CartInit => CartInv
  BY CartInitInv
<1>2. CartInv /\ [CartNext]_cartVars => CartInv'
  <2> SUFFICES ASSUME CartInv, [CartNext]_cartVars PROVE CartInv'
    OBVIOUS
  <2>1. ASSUME NEW r \in CartRequests, Step(r) PROVE CartInv'
    <3>1. CASE \E call \in CartCalls : Call(r, call)
      BY <3>1, CallInv
    <3>2. CASE Find(r)
      BY <3>2, FindInv
    <3>3. CASE Create(r)
      BY <3>3, CreateInv
    <3>4. CASE ReadOffer(r)
      BY <3>4, ReadOfferInv
    <3>5. CASE Upsert(r)
      BY <3>5, UpsertInv
    <3>6. CASE FindLine(r)
      BY <3>6, FindLineInv
    <3>7. CASE SetLine(r)
      BY <3>7, SetLineInv
    <3>8. CASE RemoveLine(r)
      BY <3>8, RemoveLineInv
    <3>9. CASE ShowCart(r)
      BY <3>9, ShowCartInv
    <3>10. CASE ReadGuest(r)
      BY <3>10, ReadGuestInv
    <3>11. CASE MergeRead(r)
      BY <3>11, MergeReadInv
    <3>12. CASE MergeWrite(r)
      BY <3>12, MergeWriteInv
    <3>13. CASE MergeCommit(r)
      BY <3>13, MergeCommitInv
    <3>14. CASE MergeFails(r)
      BY <3>14, MergeFailsInv
    <3> QED
      BY <2>1, <3>1, <3>2, <3>3, <3>4, <3>5, <3>6, <3>7, <3>8, <3>9, <3>10, <3>11, <3>12,
         <3>13, <3>14 DEF Step
  <2>2. ASSUME NEW o \in Wares, Withdraw(o) PROVE CartInv'
    BY <2>2, WithdrawInv
  <2>3. ASSUME NEW c \in Carts, CheckOut(c) PROVE CartInv'
    BY <2>3, CheckOutInv
  <2>4. CASE UNCHANGED cartVars
    <3>1. /\ cartRows' = cartRows /\ cartLines' = cartLines /\ sellable' = sellable
          /\ cartReq' = cartReq /\ owed' = owed /\ raced' = raced
      BY <2>4 DEF cartVars, Tallies
    <3>2. RowsOK'
      BY <3>1 DEF CartInv, RowsOK
    <3>3. ReqsOK'
      BY <3>1 DEF CartInv, ReqsOK
    <3>4. SumOK'
      BY <3>1 DEF CartInv, SumOK
    <3> QED
      BY <3>2, <3>3, <3>4 DEF CartInv
  <2> QED
    BY <2>1, <2>2, <2>3, <2>4 DEF CartNext
<1> QED
  BY <1>1, <1>2, PTL DEF CartSpec

\* Cart's type invariant, in which cart_lines is unique on the cart and the offer.
THEOREM CartTypes == CartSpec => []CartTypeOK
<1>1. CartInv => CartTypeOK
  BY DEF CartInv, RowsOK, Unique, CartTypeOK, Carts
<1> QED
  BY <1>1, CartInvariant, PTL

\* Cart: the ACTIVE carts hold what their owners are owed, unless a merge wrote from a stale
\* reading (CartService.mergeOnLogin, addLine, updateLine, removeLine).
THEOREM CartsAddUp == CartSpec => []CartsHoldWhatIsOwed
<1>1. CartInv => CartsHoldWhatIsOwed
  <2> SUFFICES ASSUME CartInv, ~raced, NEW o \in Wares PROVE InCarts(o) = owed[o]
    BY DEF CartsHoldWhatIsOwed
  <2>1. Total(cartRows, cartLines, o) = owed[o]
    BY DEF CartInv, SumOK
  <2> QED
    BY <2>1, InCartsNow
<1> QED
  BY <1>1, CartInvariant, PTL

-----------------------------------------------------------------------------
(***************************************************************************)
(* Checkout: what a request knows on its way to an order, for any number   *)
(* of customers, requests and offers.                                      *)
(***************************************************************************)
CartState == [lines : CartLines, status : {"ACTIVE", "CONVERTED"}]
Reservation == [offer : Offers, qty : Quantities, actor : Actors, cart : Nat, key : IdemKeys,
                order : Nat, status : {"HELD", "RELEASED", "EXPIRED"}]
OrderRow == [actor : Actors, key : IdemKeys, cart : Nat, lines : CartLines, held : SUBSET Nat,
             known : Nat]
Place == [pc : {"new", "cart", "view", "reserve", "order", "rollback", "answered", "failed"},
          cart : Nat, view : CartLines, left : SUBSET Offers, held : SUBSET Nat, known : Nat, answer : Nat]

\* Rows are never deleted, and what they belong to never changes.
CartsKept == \A a \in Actors : DOMAIN carts[a] \subseteq DOMAIN carts'[a]
ReservationsKept ==
  \A r \in DOMAIN reservations :
    /\ r \in DOMAIN reservations'
    /\ reservations'[r].offer = reservations[r].offer
    /\ reservations'[r].actor = reservations[r].actor
    /\ reservations'[r].cart = reservations[r].cart
OrdersKept == \A i \in DOMAIN orders : i \in DOMAIN orders' /\ orders'[i] = orders[i]
AllKept == CartsKept /\ ReservationsKept /\ OrdersKept

Covers(rows, held, actor, from, o) ==
  \E r \in held : rows[r].offer = o /\ rows[r].actor = actor /\ rows[r].cart = from

\* What a request knows on its way to an order: the lines it has not reserved yet are left, the
\* others have a reservation of its cart.
RequestOK(p) ==
  /\ req[p].held \subseteq DOMAIN reservations
  /\ req[p].pc \in {"view", "reserve", "order"} => req[p].cart \in DOMAIN carts[Actor[p]]
  /\ req[p].pc \in {"reserve", "order"} =>
       /\ req[p].left \subseteq Lines(req[p].view)
       /\ \A o \in Lines(req[p].view) \ req[p].left :
            Covers(reservations, req[p].held, Actor[p], req[p].cart, o)
  /\ req[p].pc = "order" => req[p].left = {}
  /\ req[p].pc = "answered" =>
       /\ req[p].answer \in DOMAIN orders
       /\ orders[req[p].answer].actor = Actor[p] /\ orders[req[p].answer].key = Key[p]
RequestsOK == \A p \in Requests : RequestOK(p)

OrderOK(i) ==
  /\ orders[i].held \subseteq DOMAIN reservations
  /\ \A o \in Lines(orders[i].lines) :
       Covers(reservations, orders[i].held, orders[i].actor, orders[i].cart, o)
OrdersOK == \A i \in DOMAIN orders : OrderOK(i)

\* A record names an order of its key and customer.
RecordsOK ==
  \A k \in IdemKeys, a \in Actors : record[<<k, a>>] # 0 =>
    /\ record[<<k, a>>] \in DOMAIN orders
    /\ orders[record[<<k, a>>]].key = k /\ orders[record[<<k, a>>]].actor = a

IInv == TypeOK /\ RequestsOK /\ OrdersOK /\ RecordsOK

-----------------------------------------------------------------------------
LEMMA Mapped ==
  ASSUME NEW S, NEW s \in Seq(S), NEW t \in [DOMAIN s -> S]
  PROVE  t \in Seq(S)
<1>1. DOMAIN s = 1..Len(s) /\ Len(s) \in Nat
  BY LenProperties
<1> QED
  BY <1>1, SeqDef

LEMMA AddedToLog ==
  ASSUME NEW S, NEW s \in Seq(S), NEW e \in S
  PROVE  /\ Append(s, e) \in Seq(S) /\ Len(s) \in Nat
         /\ Len(s) + 1 \notin DOMAIN s
         /\ DOMAIN Append(s, e) = DOMAIN s \cup {Len(s) + 1}
         /\ \A i \in DOMAIN s : Append(s, e)[i] = s[i]
         /\ Append(s, e)[Len(s) + 1] = e
<1>1. DOMAIN s = 1..Len(s) /\ Len(s) \in Nat
  BY LenProperties
<1>2. /\ Append(s, e) \in Seq(S) /\ Len(Append(s, e)) = Len(s) + 1
      /\ Append(s, e)[Len(s) + 1] = e
      /\ \A i \in 1..Len(s) : Append(s, e)[i] = s[i]
  BY AppendProperties
<1>3. DOMAIN Append(s, e) = 1..(Len(s) + 1)
  BY <1>2, LenProperties
<1> QED
  BY <1>1, <1>2, <1>3

LEMMA Types ==
  TypeOK <=>
    /\ carts \in [Actors -> Seq(CartState)] /\ edits \in Nat
    /\ reservations \in Seq(Reservation) /\ movements \subseteq IdemKeys \X Offers
    /\ orders \in Seq(OrderRow) /\ record \in [IdemKeys \X Actors -> Nat]
    /\ req \in [Requests -> Place]
  BY DEF TypeOK, CartState, Reservation, OrderRow, Place

LEMMA TypesNext ==
  TypeOK' <=>
    /\ carts' \in [Actors -> Seq(CartState)] /\ edits' \in Nat
    /\ reservations' \in Seq(Reservation) /\ movements' \subseteq IdemKeys \X Offers
    /\ orders' \in Seq(OrderRow) /\ record' \in [IdemKeys \X Actors -> Nat]
    /\ req' \in [Requests -> Place]
  BY DEF TypeOK, CartState, Reservation, OrderRow, Place

LEMMA Elements ==
  ASSUME TypeOK
  PROVE  /\ \A a \in Actors : \A c \in DOMAIN carts[a] : c \in Nat /\ carts[a][c] \in CartState
         /\ \A r \in DOMAIN reservations : r \in Nat /\ reservations[r] \in Reservation
         /\ \A i \in DOMAIN orders : i \in Nat \ {0} /\ orders[i] \in OrderRow
<1>1. ASSUME NEW S, NEW s \in Seq(S), NEW i \in DOMAIN s
      PROVE  i \in Nat \ {0} /\ s[i] \in S
  BY <1>1, LenProperties, ElementOfSeq
<1> QED
  BY <1>1, Types

\* The own customer and key of a request.
LEMMA Own ==
  ASSUME NEW p \in Requests
  PROVE  Actor[p] \in Actors /\ Key[p] \in IdemKeys /\ Me(p) \in IdemKeys \X Actors
  BY DEF Actors, IdemKeys, Me

\* What holds of rows goes on to hold while rows are only added.
LEMMA RequestStays ==
  ASSUME AllKept, NEW p \in Requests, req'[p] = req[p], RequestOK(p)
  PROVE  RequestOK(p)'
<1>1. Actor[p] \in Actors
  BY Own
<1>2. req[p].held \subseteq DOMAIN reservations
  BY DEF RequestOK
<1>3. \A o \in Offers : Covers(reservations, req[p].held, Actor[p], req[p].cart, o)
                        => Covers(reservations', req[p].held, Actor[p], req[p].cart, o)
  BY <1>2 DEF Covers, AllKept, ReservationsKept
<1>4. Lines(req[p].view) \subseteq Offers
  BY DEF Lines
<1>5. req'[p].held \subseteq DOMAIN reservations'
  BY <1>2 DEF AllKept, ReservationsKept
<1>6. req'[p].pc \in {"view", "reserve", "order"} => req'[p].cart \in DOMAIN carts'[Actor[p]]
  BY <1>1 DEF RequestOK, AllKept, CartsKept
<1>7. req'[p].pc \in {"reserve", "order"} =>
       /\ req'[p].left \subseteq Lines(req'[p].view)
       /\ \A o \in Lines(req'[p].view) \ req'[p].left :
            Covers(reservations', req'[p].held, Actor[p], req'[p].cart, o)
  BY <1>3, <1>4 DEF RequestOK
<1>8. /\ req'[p].pc = "order" => req'[p].left = {}
      /\ req'[p].pc = "answered" =>
           /\ req'[p].answer \in DOMAIN orders'
           /\ orders'[req'[p].answer].actor = Actor[p] /\ orders'[req'[p].answer].key = Key[p]
  BY DEF RequestOK, AllKept, OrdersKept
<1> QED
  BY <1>5, <1>6, <1>7, <1>8 DEF RequestOK

LEMMA OrderStays ==
  ASSUME AllKept, NEW i \in DOMAIN orders, OrderOK(i)
  PROVE  OrderOK(i)'
  BY DEF OrderOK, Covers, AllKept, ReservationsKept, OrdersKept

LEMMA RecordsStay == AllKept /\ RecordsOK /\ UNCHANGED record => RecordsOK'
  BY DEF RecordsOK, AllKept, OrdersKept

\* An action of one request that leaves orders and records alone.
LEMMA OneMoves ==
  ASSUME IInv, NEW p \in Requests, TypeOK', AllKept, UNCHANGED <<orders, record>>,
         \A q \in Requests \ {p} : req'[q] = req[q], RequestOK(p)'
  PROVE  IInv'
<1>1. RequestsOK'
  BY RequestStays DEF IInv, RequestsOK
<1>2. OrdersOK'
  BY OrderStays DEF IInv, OrdersOK
<1> QED
  BY <1>1, <1>2, RecordsStay DEF IInv

LEMMA InitInv == Init => IInv
<1> SUFFICES ASSUME Init PROVE IInv
  OBVIOUS
<1>1. <<>> \in Seq(CartState) /\ <<>> \in Seq(Reservation) /\ <<>> \in Seq(OrderRow)
  BY EmptySeq
<1>2. DOMAIN orders = {} /\ DOMAIN reservations = {}
  BY EmptySeq, LenProperties DEF Init
<1>3. TypeOK
  BY <1>1, Types DEF Init, Fresh, Place, Empty, CartLines
<1>4. RequestsOK
  BY DEF Init, Fresh, RequestsOK, RequestOK
<1> QED
  BY <1>2, <1>3, <1>4 DEF IInv, OrdersOK, RecordsOK, Init

-----------------------------------------------------------------------------
(***************************************************************************)
(* The actions.                                                            *)
(***************************************************************************)
\* An action of the customer's cart or of the worker.
LEMMA NoneMoves ==
  ASSUME IInv, TypeOK', AllKept, UNCHANGED <<orders, record, req>>
  PROVE  IInv'
<1>1. RequestsOK'
  BY RequestStays DEF IInv, RequestsOK
<1>2. OrdersOK'
  BY OrderStays DEF IInv, OrdersOK
<1> QED
  BY <1>1, <1>2, RecordsStay DEF IInv

\* A customer gets another cart.
LEMMA CartAdded ==
  ASSUME TypeOK, NEW a \in Actors, NEW row \in CartState, carts' = [carts EXCEPT ![a] = Append(@, row)]
  PROVE  /\ carts' \in [Actors -> Seq(CartState)] /\ CartsKept
         /\ Len(carts[a]) + 1 \in DOMAIN carts'[a] /\ Len(carts[a]) \in Nat
<1>1. carts \in [Actors -> Seq(CartState)]
  BY Types
<1>2. /\ Append(carts[a], row) \in Seq(CartState) /\ Len(carts[a]) \in Nat
      /\ DOMAIN Append(carts[a], row) = DOMAIN carts[a] \cup {Len(carts[a]) + 1}
  BY <1>1, AddedToLog
<1> QED
  BY <1>1, <1>2 DEF CartsKept

\* A customer's cart gets other lines or another status.
LEMMA CartChanged ==
  ASSUME TypeOK, NEW a \in Actors, NEW c \in DOMAIN carts[a], NEW row \in CartState,
         carts' = [carts EXCEPT ![a] = [@ EXCEPT ![c] = row]]
  PROVE  carts' \in [Actors -> Seq(CartState)] /\ CartsKept
<1>1. carts \in [Actors -> Seq(CartState)]
  BY Types
<1> DEFINE new == [carts[a] EXCEPT ![c] = row]
<1>2. DOMAIN new = DOMAIN carts[a]
  OBVIOUS
<1>3. new \in [DOMAIN carts[a] -> CartState]
  BY <1>1, Elements
<1>4. new \in Seq(CartState)
  BY <1>1, <1>3, Mapped
<1>5. carts' = [carts EXCEPT ![a] = new]
  OBVIOUS
<1> HIDE DEF new
<1> QED
  BY <1>1, <1>2, <1>4, <1>5 DEF CartsKept

\* A reservation gets another status.
LEMMA HoldChanged ==
  ASSUME TypeOK, NEW r \in DOMAIN reservations, NEW status \in {"RELEASED", "EXPIRED"},
         reservations' = [reservations EXCEPT ![r].status = status]
  PROVE  reservations' \in Seq(Reservation) /\ ReservationsKept
<1>1. reservations \in Seq(Reservation)
  BY Types
<1>2. \A i \in DOMAIN reservations : reservations[i] \in Reservation
  BY Elements
<1>3. DOMAIN reservations' = DOMAIN reservations
  OBVIOUS
<1>4. \A i \in DOMAIN reservations :
         reservations'[i] = IF i = r THEN [reservations[r] EXCEPT !.status = status]
                                     ELSE reservations[i]
  OBVIOUS
<1>5. [reservations[r] EXCEPT !.status = status] \in Reservation
  BY <1>2 DEF Reservation
<1>6. reservations' \in [DOMAIN reservations -> Reservation]
  BY <1>2, <1>4, <1>5
<1>7. ReservationsKept
  <2>1. /\ [reservations[r] EXCEPT !.status = status].offer = reservations[r].offer
        /\ [reservations[r] EXCEPT !.status = status].actor = reservations[r].actor
        /\ [reservations[r] EXCEPT !.status = status].cart = reservations[r].cart
    BY <1>2 DEF Reservation
  <2> QED
    BY <1>3, <1>4, <2>1 DEF ReservationsKept
<1> QED
  BY <1>1, <1>6, <1>7, Mapped

LEMMA EditCartInv ==
  ASSUME IInv, NEW a \in Actors, NEW o \in Offers, NEW q \in Quantities \cup {0}, EditCart(a, o, q)
  PROVE  IInv'
<1>1. TypeOK
  BY DEF IInv
<1>2. carts' \in [Actors -> Seq(CartState)] /\ CartsKept
  <2>1. CASE \E c \in Active(a) : carts' = [carts EXCEPT ![a][c].lines[o] = q]
    <3>1. PICK c \in Active(a) : carts' = [carts EXCEPT ![a][c].lines[o] = q]
      BY <2>1
    <3>2. c \in DOMAIN carts[a] /\ carts[a][c] \in CartState
      BY <1>1, Elements DEF Active
    <3> DEFINE row == [carts[a][c] EXCEPT !.lines[o] = q]
    <3>3. row \in CartState
      BY <3>2 DEF CartState, CartLines
    <3>4. carts' = [carts EXCEPT ![a] = [@ EXCEPT ![c] = row]]
      BY <3>1
    <3> HIDE DEF row
    <3> QED
      BY <1>1, <3>2, <3>3, <3>4, CartChanged
  <2>2. CASE carts' = [carts EXCEPT ![a] =
                          Append(@, [NewCart EXCEPT !.lines = [Empty EXCEPT ![o] = q]])]
    <3> DEFINE row == [NewCart EXCEPT !.lines = [Empty EXCEPT ![o] = q]]
    <3>1. row \in CartState
      BY DEF NewCart, Empty, CartState, CartLines
    <3>2. carts' = [carts EXCEPT ![a] = Append(@, row)]
      BY <2>2
    <3> HIDE DEF row
    <3> QED
      BY <1>1, <3>1, <3>2, CartAdded
  <2> QED
    BY <2>1, <2>2 DEF EditCart
<1>3. TypeOK'
  BY <1>1, <1>2, Types, TypesNext DEF EditCart
<1>4. AllKept
  BY <1>2 DEF AllKept, ReservationsKept, OrdersKept, EditCart
<1> QED
  BY <1>3, <1>4, NoneMoves DEF EditCart

LEMMA ExpireInv ==
  ASSUME IInv, NEW r \in DOMAIN reservations, Expire(r)
  PROVE  IInv'
<1>1. TypeOK
  BY DEF IInv
<1>2. reservations' \in Seq(Reservation) /\ ReservationsKept
  BY <1>1, HoldChanged DEF Expire
<1>3. TypeOK'
  BY <1>1, <1>2, Types, TypesNext DEF Expire
<1>4. AllKept
  BY <1>2 DEF AllKept, CartsKept, OrdersKept, Expire
<1> QED
  BY <1>3, <1>4, NoneMoves DEF Expire

LEMMA LookupInv ==
  ASSUME IInv, NEW p \in Requests, Lookup(p)
  PROVE  IInv'
<1>1. TypeOK
  BY DEF IInv
<1>2. AllKept
  BY DEF AllKept, CartsKept, ReservationsKept, OrdersKept, Lookup
<1>3. req \in [Requests -> Place] /\ record[Me(p)] \in Nat
  BY <1>1, Own, Types
<1>4. req' \in [Requests -> Place] /\ \A q \in Requests \ {p} : req'[q] = req[q]
  <2>1. Len(orders) \in Nat
    BY <1>1, Types, LenProperties
  <2>2. CASE record[Me(p)] # 0
    BY <1>3, <2>2 DEF Lookup, Answer, Place
  <2>3. CASE record[Me(p)] = 0
    <3>1. req' = [req EXCEPT ![p].pc = "cart", ![p].known = Len(orders)]
      BY <2>3 DEF Lookup
    <3>2. [req[p] EXCEPT !.pc = "cart", !.known = Len(orders)] \in Place
      BY <1>3, <2>1 DEF Place
    <3> QED
      BY <1>3, <3>1, <3>2
  <2> QED
    BY <1>3, <2>2, <2>3
<1>5. TypeOK'
  BY <1>1, <1>4, Types, TypesNext DEF Lookup
<1>6. RequestOK(p)'
  <2>1. RequestOK(p) /\ RecordsOK
    BY DEF IInv, RequestsOK
  <2>2. CASE record[Me(p)] # 0 /\ Answer(p, record[Me(p)])
    <3>1. req'[p] = [req[p] EXCEPT !.pc = "answered", !.answer = record[Me(p)]]
      BY <1>3, <2>2 DEF Answer
    <3>2. /\ record[Me(p)] \in DOMAIN orders
          /\ orders[record[Me(p)]].key = Key[p] /\ orders[record[Me(p)]].actor = Actor[p]
      BY <2>1, <2>2, Own DEF RecordsOK, Me
    <3>3. /\ req'[p].pc = "answered" /\ req'[p].held = req[p].held
          /\ req'[p].answer = record[Me(p)]
      BY <1>3, <3>1 DEF Place
    <3> QED
      BY <2>1, <3>2, <3>3 DEF RequestOK, Lookup
  <2>3. CASE req' = [req EXCEPT ![p].pc = "cart", ![p].known = Len(orders)]
    <3>1. req'[p].pc = "cart" /\ req'[p].held = req[p].held
      BY <1>3, <2>3 DEF Place
    <3> QED
      BY <2>1, <3>1 DEF RequestOK, Lookup
  <2> QED
    BY <2>2, <2>3 DEF Lookup
<1> QED
  BY <1>2, <1>4, <1>5, <1>6, OneMoves DEF Lookup

LEMMA GetCartInv ==
  ASSUME IInv, NEW p \in Requests, GetCart(p)
  PROVE  IInv'
<1>1. TypeOK /\ Actor[p] \in Actors /\ RequestOK(p)
  BY Own DEF IInv, RequestsOK
<1>2. PICK c \in Nat : /\ req' = [req EXCEPT ![p].pc = "view", ![p].cart = c]
                       /\ c \in DOMAIN carts'[Actor[p]]
                       /\ carts' \in [Actors -> Seq(CartState)] /\ CartsKept
  <2>1. CASE \E c \in Active(Actor[p]) :
               /\ req' = [req EXCEPT ![p].pc = "view", ![p].cart = c]
               /\ UNCHANGED carts
    BY <1>1, <2>1, Types, Elements DEF Active, CartsKept
  <2>2. CASE /\ carts' = [carts EXCEPT ![Actor[p]] = Append(@, NewCart)]
             /\ req' = [req EXCEPT ![p].pc = "view", ![p].cart = Len(carts[Actor[p]]) + 1]
    <3>1. NewCart \in CartState
      BY DEF NewCart, Empty, CartState, CartLines
    <3> DEFINE c == Len(carts[Actor[p]]) + 1
    <3> HIDE DEF c
    <3>2. /\ carts' \in [Actors -> Seq(CartState)] /\ CartsKept
          /\ c \in DOMAIN carts'[Actor[p]] /\ c \in Nat
      <4>1. Len(carts[Actor[p]]) \in Nat => c \in Nat
        BY DEF c
      <4> QED
        BY <1>1, <2>2, <3>1, <4>1, CartAdded DEF c
    <3>3. req' = [req EXCEPT ![p].pc = "view", ![p].cart = c]
      BY <2>2 DEF c
    <3> QED
      BY <3>2, <3>3
  <2> QED
    BY <2>1, <2>2 DEF GetCart
<1>3. AllKept
  BY <1>2 DEF AllKept, ReservationsKept, OrdersKept, GetCart
<1>4. req \in [Requests -> Place]
  BY <1>1, Types
<1>5. req' \in [Requests -> Place] /\ \A q \in Requests \ {p} : req'[q] = req[q]
  BY <1>2, <1>4, ZenonT(40) DEF Place
<1>6. TypeOK'
  BY <1>1, <1>2, <1>5, Types, TypesNext DEF GetCart
<1>7. req'[p].pc = "view" /\ req'[p].cart = c /\ req'[p].held = req[p].held
  BY <1>2, <1>4 DEF Place
<1>8. RequestOK(p)'
  BY <1>1, <1>2, <1>7 DEF RequestOK, GetCart
<1> QED
  BY <1>3, <1>5, <1>6, <1>8, OneMoves DEF GetCart

LEMMA ViewInv ==
  ASSUME IInv, NEW p \in Requests, View(p)
  PROVE  IInv'
<1>1. TypeOK /\ Actor[p] \in Actors /\ RequestOK(p)
  BY Own DEF IInv, RequestsOK
<1>2. AllKept
  BY DEF AllKept, CartsKept, ReservationsKept, OrdersKept, View
<1>3. req \in [Requests -> Place]
  BY <1>1, Types
<1> DEFINE lines == carts[Actor[p]][req[p].cart].lines
<1>4. lines \in CartLines
  BY <1>1, Elements DEF RequestOK, View, CartState
<1>5. Lines(lines) \subseteq Offers
  BY DEF Lines
<1>6. \/ req' = [req EXCEPT ![p].pc = "reserve", ![p].view = lines, ![p].left = Lines(lines)]
      \/ Goto(p, "failed")
  BY DEF View
<1> HIDE DEF lines
<1>7. req' \in [Requests -> Place] /\ \A q \in Requests \ {p} : req'[q] = req[q]
  BY <1>3, <1>4, <1>5, <1>6 DEF Place, Goto
<1>8. TypeOK'
  BY <1>1, <1>7, Types, TypesNext DEF View
<1>9. RequestOK(p)'
  <2>1. CASE req' = [req EXCEPT ![p].pc = "reserve", ![p].view = lines, ![p].left = Lines(lines)]
    <3>1. /\ req'[p].pc = "reserve" /\ req'[p].cart = req[p].cart /\ req'[p].held = req[p].held
          /\ req'[p].view = lines /\ req'[p].left = Lines(lines)
      BY <1>3, <2>1 DEF Place
    <3> QED
      BY <1>1, <3>1 DEF RequestOK, View
  <2>2. CASE Goto(p, "failed")
    <3>1. req'[p].pc = "failed" /\ req'[p].held = req[p].held
      BY <1>3, <2>2 DEF Goto, Place
    <3> QED
      BY <1>1, <3>1 DEF RequestOK, View
  <2> QED
    BY <1>6, <2>1, <2>2
<1> QED
  BY <1>2, <1>7, <1>8, <1>9, OneMoves DEF View

\* A reservation of the cart and the offer takes the offer off the list.
LEMMA ReservedOK ==
  ASSUME IInv, NEW p \in Requests, req[p].pc = "reserve", NEW o \in req[p].left, NEW r \in Nat,
         r \in DOMAIN reservations', ReservationsKept, UNCHANGED carts, Reserved(p, o, r),
         reservations'[r].offer = o, reservations'[r].actor = Actor[p],
         reservations'[r].cart = req[p].cart
  PROVE  RequestOK(p)' /\ req' \in [Requests -> Place] /\ \A q \in Requests \ {p} : req'[q] = req[q]
<1>1. req \in [Requests -> Place] /\ RequestOK(p)
  BY Types DEF IInv, RequestsOK
<1>2. req' \in [Requests -> Place] /\ \A q \in Requests \ {p} : req'[q] = req[q]
  <2> DEFINE left == req[p].left \ {o}
  <2> DEFINE held == req[p].held \cup {r}
  <2>1. left \in SUBSET Offers /\ held \in SUBSET Nat
    BY <1>1 DEF Place
  <2>2. req' = [req EXCEPT ![p].left = left, ![p].held = held]
    BY DEF Reserved
  <2> HIDE DEF left, held
  <2> QED
    BY <1>1, <2>1, <2>2, ZenonT(40) DEF Place
<1>3. /\ req'[p].pc = "reserve" /\ req'[p].cart = req[p].cart /\ req'[p].view = req[p].view
      /\ req'[p].left = req[p].left \ {o} /\ req'[p].held = req[p].held \cup {r}
  BY <1>1 DEF Reserved, Place
<1>4. req'[p].held \subseteq DOMAIN reservations'
  BY <1>1, <1>3 DEF RequestOK, ReservationsKept
<1>5. \A x \in Lines(req[p].view) \ (req[p].left \ {o}) :
         Covers(reservations', req[p].held \cup {r}, Actor[p], req[p].cart, x)
  <2> SUFFICES ASSUME NEW x \in Lines(req[p].view) \ (req[p].left \ {o})
               PROVE  Covers(reservations', req[p].held \cup {r}, Actor[p], req[p].cart, x)
    OBVIOUS
  <2>1. CASE x = o
    BY <2>1 DEF Covers
  <2>2. CASE x # o
    <3>1. Covers(reservations, req[p].held, Actor[p], req[p].cart, x)
      BY <1>1, <2>2 DEF RequestOK
    <3>2. req[p].held \subseteq DOMAIN reservations
      BY <1>1 DEF RequestOK
    <3> QED
      BY <3>1, <3>2 DEF Covers, ReservationsKept
  <2> QED
    BY <2>1, <2>2
<1>6. req[p].left \ {o} \subseteq Lines(req[p].view) /\ req[p].cart \in DOMAIN carts[Actor[p]]
  BY <1>1 DEF RequestOK
<1> QED
  BY <1>2, <1>3, <1>4, <1>5, <1>6 DEF RequestOK

LEMMA ReserveInv ==
  ASSUME IInv, NEW p \in Requests, Reserve(p)
  PROVE  IInv'
<1>1. TypeOK /\ Actor[p] \in Actors /\ Key[p] \in IdemKeys /\ RequestOK(p)
  BY Own DEF IInv, RequestsOK
<1>2. /\ req \in [Requests -> Place] /\ reservations \in Seq(Reservation)
      /\ movements \subseteq IdemKeys \X Offers
  BY <1>1, Types
<1> DEFINE Moved ==
      /\ RequestOK(p)' /\ req' \in [Requests -> Place]
      /\ \A q \in Requests \ {p} : req'[q] = req[q]
      /\ reservations' \in Seq(Reservation) /\ ReservationsKept
      /\ movements' \subseteq IdemKeys \X Offers
<1>3. Moved
  <2>1. ASSUME NEW o \in req[p].left, Repeat(p, o) PROVE Moved
    <3>1. PICK r \in Matching(p, o) : Reserved(p, o, r)
      BY <2>1 DEF Repeat
    <3>2. /\ r \in DOMAIN reservations /\ reservations[r].offer = o
          /\ reservations[r].actor = Actor[p] /\ reservations[r].cart = req[p].cart
      BY DEF Matching
    <3>3. r \in Nat
      BY <1>1, <3>2, Elements
    <3>4. ReservationsKept /\ UNCHANGED <<movements, reservations>>
      BY <2>1 DEF Repeat, ReservationsKept
    <3> QED
      BY <1>2, <3>1, <3>2, <3>3, <3>4, ReservedOK DEF Reserve
  <2>2. ASSUME NEW o \in req[p].left, Hold(p, o) PROVE Moved
    <3> DEFINE n == Len(reservations) + 1
    <3> DEFINE row == [offer |-> o, qty |-> req[p].view[o], actor |-> Actor[p],
                       cart |-> req[p].cart, key |-> Key[p], order |-> 0, status |-> "HELD"]
    <3>1. o \in Lines(req[p].view) /\ o \in Offers
      BY <1>1, <1>2 DEF RequestOK, Reserve, Place
    <3>2. req[p].view[o] \in Quantities
      <4>1. req[p].view \in CartLines
        BY <1>2 DEF Place
      <4>2. req[p].view[o] \in Quantities \cup {0}
        BY <3>1, <4>1 DEF CartLines
      <4>3. req[p].view[o] > 0
        BY <3>1 DEF Lines
      <4> QED
        BY <4>2, <4>3
    <3>3. row \in Reservation
      BY <1>1, <1>2, <3>1, <3>2 DEF Reservation, Place
    <3>4. row.offer = o /\ row.actor = Actor[p] /\ row.cart = req[p].cart
      OBVIOUS
    <3>5. reservations' = Append(reservations, row) /\ Reserved(p, o, n)
      BY <2>2 DEF Hold
    <3> HIDE DEF row
    <3>6. /\ Append(reservations, row) \in Seq(Reservation) /\ n \in Nat
          /\ n \in DOMAIN Append(reservations, row)
          /\ DOMAIN reservations \subseteq DOMAIN Append(reservations, row)
          /\ \A i \in DOMAIN reservations : Append(reservations, row)[i] = reservations[i]
          /\ Append(reservations, row)[n] = row
      BY <1>2, <3>3, AddedToLog
    <3> HIDE DEF n
    <3>7. ReservationsKept
      BY <3>5, <3>6 DEF ReservationsKept
    <3>8. movements' \subseteq IdemKeys \X Offers
      BY <1>1, <1>2, <2>2, <3>1 DEF Hold
    <3> QED
      BY <3>4, <3>5, <3>6, <3>7, <3>8, ReservedOK DEF Reserve
  <2>3. ASSUME Goto(p, "failed") \/ (req[p].left = {} /\ Goto(p, "order")),
               UNCHANGED <<movements, reservations>>
        PROVE  Moved
    <3>0. PICK pc \in {"failed", "order"} : req' = [req EXCEPT ![p].pc = pc]
      BY <2>3 DEF Goto
    <3>1. req' \in [Requests -> Place] /\ \A q \in Requests \ {p} : req'[q] = req[q]
      BY <1>2, <3>0 DEF Place
    <3>2. /\ req'[p].cart = req[p].cart /\ req'[p].view = req[p].view
          /\ req'[p].left = req[p].left /\ req'[p].held = req[p].held
          /\ req'[p].pc = "failed" \/ (req'[p].pc = "order" /\ req[p].left = {})
      BY <1>2, <2>3 DEF Goto, Place
    <3>3. req[p].pc = "reserve" /\ UNCHANGED <<carts, reservations>>
      BY <2>3 DEF Reserve
    <3>4. RequestOK(p)'
      BY <1>1, <3>2, <3>3 DEF RequestOK
    <3>5. ReservationsKept
      BY <2>3 DEF ReservationsKept
    <3> QED
      BY <1>2, <2>3, <3>1, <3>4, <3>5
  <2> QED
    BY <2>1, <2>2, <2>3 DEF Reserve, Refused
<1>4. AllKept
  BY <1>3 DEF AllKept, CartsKept, OrdersKept, Reserve
<1>5. TypeOK'
  BY <1>1, <1>3, Types, TypesNext DEF Reserve
<1> QED
  BY <1>3, <1>4, <1>5, OneMoves DEF Reserve

\* Giving up: nothing but the step of the request changes.
LEMMA GoesTo ==
  ASSUME IInv, NEW p \in Requests, NEW pc \in {"rollback", "failed"}, Goto(p, pc),
         UNCHANGED <<carts, edits, reservations, movements, orders, record>>
  PROVE  IInv'
<1>1. TypeOK /\ RequestOK(p)
  BY DEF IInv, RequestsOK
<1>2. req \in [Requests -> Place]
  BY <1>1, Types
<1>3. req' \in [Requests -> Place] /\ \A q \in Requests \ {p} : req'[q] = req[q]
  BY <1>2 DEF Goto, Place
<1>4. req'[p].pc = pc /\ req'[p].held = req[p].held
  BY <1>2 DEF Goto, Place
<1>5. RequestOK(p)'
  BY <1>1, <1>4 DEF RequestOK
<1>6. TypeOK'
  BY <1>1, <1>3, Types, TypesNext
<1>7. AllKept
  BY DEF AllKept, CartsKept, ReservationsKept, OrdersKept
<1> QED
  BY <1>3, <1>5, <1>6, <1>7, OneMoves

LEMMA RollbackInv ==
  ASSUME IInv, NEW p \in Requests, Rollback(p)
  PROVE  IInv'
<1>1. TypeOK /\ RequestOK(p)
  BY DEF IInv, RequestsOK
<1>2. CASE req[p].held = {} /\ Goto(p, "failed") /\ UNCHANGED reservations
  BY <1>2, GoesTo DEF Rollback
<1>3. ASSUME NEW r \in req[p].held, req' = [req EXCEPT ![p].held = @ \ {r}],
             IF reservations[r].status = "HELD"
               THEN reservations' = [reservations EXCEPT ![r].status = "RELEASED"]
               ELSE UNCHANGED reservations
      PROVE  IInv'
  <2>1. r \in DOMAIN reservations /\ req \in [Requests -> Place]
    BY <1>1, Types DEF RequestOK
  <2>2. reservations' \in Seq(Reservation) /\ ReservationsKept
    <3>1. CASE reservations' = [reservations EXCEPT ![r].status = "RELEASED"]
      BY <1>1, <2>1, <3>1, HoldChanged
    <3>2. CASE UNCHANGED reservations
      BY <1>1, <3>2, Types DEF ReservationsKept
    <3> QED
      BY <1>3, <3>1, <3>2
  <2>3. req' \in [Requests -> Place] /\ \A q \in Requests \ {p} : req'[q] = req[q]
    <3> DEFINE held == req[p].held \ {r}
    <3>1. held \in SUBSET Nat
      BY <2>1 DEF Place
    <3>2. req' = [req EXCEPT ![p].held = held]
      BY <1>3
    <3> HIDE DEF held
    <3> QED
      BY <2>1, <3>1, <3>2 DEF Place
  <2>4. req'[p].pc = "rollback" /\ req'[p].held = req[p].held \ {r}
    BY <1>3, <2>1 DEF Place, Rollback
  <2>5. RequestOK(p)'
    BY <1>1, <2>2, <2>4 DEF RequestOK, ReservationsKept
  <2>6. TypeOK'
    BY <1>1, <2>2, <2>3, Types, TypesNext DEF Rollback
  <2>7. AllKept
    BY <2>2 DEF AllKept, CartsKept, OrdersKept, Rollback
  <2> QED
    BY <2>3, <2>5, <2>6, <2>7, OneMoves DEF Rollback
<1> QED
  BY <1>2, <1>3 DEF Rollback

\* The order's own transaction.  Its reservations cover its lines because the request's do and
\* none of the lines is left.
LEMMA PlaceOrderInv ==
  ASSUME IInv, NEW p \in Requests, PlaceOrder(p)
  PROVE  IInv'
<1> DEFINE row == [actor |-> Actor[p], key |-> Key[p], cart |-> req[p].cart,
                   lines |-> req[p].view, held |-> req[p].held, known |-> req[p].known]
<1>1. TypeOK /\ RequestOK(p) /\ Actor[p] \in Actors /\ Key[p] \in IdemKeys
  BY Own DEF IInv, RequestsOK
<1>2. /\ req \in [Requests -> Place] /\ reservations \in Seq(Reservation)
      /\ orders \in Seq(OrderRow) /\ record \in [IdemKeys \X Actors -> Nat]
  BY <1>1, Types
<1>3. row \in OrderRow
  BY <1>1, <1>2 DEF OrderRow, Place
<1>4. /\ row.actor = Actor[p] /\ row.key = Key[p] /\ row.cart = req[p].cart
      /\ row.lines = req[p].view /\ row.held = req[p].held
  OBVIOUS
<1>n. PICK n \in Nat : n = Len(orders) + 1
  BY <1>2, AddedToLog, <1>3
<1>5. /\ orders' = Append(orders, row) /\ record' = [record EXCEPT ![Me(p)] = n]
      /\ req' = [req EXCEPT ![p].pc = "answered", ![p].answer = n]
  BY <1>n DEF PlaceOrder, Answer
<1> HIDE DEF row
<1>6. /\ orders' \in Seq(OrderRow)
      /\ DOMAIN orders' = DOMAIN orders \cup {n} /\ orders'[n] = row
      /\ \A i \in DOMAIN orders : orders'[i] = orders[i]
  BY <1>n, <1>2, <1>3, <1>5, AddedToLog
<1>7. carts' \in [Actors -> Seq(CartState)] /\ CartsKept
  <2> DEFINE c == req[p].cart
  <2> DEFINE new == [carts[Actor[p]][c] EXCEPT !.status = "CONVERTED"]
  <2>1. c \in DOMAIN carts[Actor[p]]
    BY <1>1 DEF RequestOK, PlaceOrder
  <2>2. new \in CartState
    BY <1>1, <2>1, Elements DEF CartState
  <2>3. carts' = [carts EXCEPT ![Actor[p]] = [@ EXCEPT ![c] = new]]
    BY DEF PlaceOrder
  <2> HIDE DEF new, c
  <2> QED
    BY <1>1, <2>1, <2>2, <2>3, CartChanged
<1> DEFINE owned(r) == [reservations[r] EXCEPT !.order = n]
<1>8. \A r \in DOMAIN reservations :
        /\ owned(r) \in Reservation
        /\ owned(r).offer = reservations[r].offer /\ owned(r).actor = reservations[r].actor
        /\ owned(r).cart = reservations[r].cart
  BY <1>1, <1>6, Elements DEF Reservation
<1>9. reservations' = [r \in DOMAIN reservations |->
                         IF r \in req[p].held THEN owned(r) ELSE reservations[r]]
  BY <1>n DEF PlaceOrder
<1> HIDE DEF owned
<1>10. reservations' \in Seq(Reservation) /\ ReservationsKept
  <2>1. reservations' \in [DOMAIN reservations -> Reservation]
    BY <1>1, <1>8, <1>9, Elements
  <2> QED
    BY <1>2, <1>8, <1>9, <2>1, Mapped DEF ReservationsKept
<1>11. AllKept
  BY <1>6, <1>7, <1>10 DEF AllKept, OrdersKept
<1>12. req' \in [Requests -> Place] /\ \A q \in Requests \ {p} : req'[q] = req[q]
  BY <1>n, <1>2, <1>5, ZenonT(40) DEF Place
<1>13. req'[p].pc = "answered" /\ req'[p].answer = n /\ req'[p].held = req[p].held
  BY <1>n, <1>2, <1>5 DEF Place
<1>14. req[p].held \subseteq DOMAIN reservations /\ req[p].held \subseteq DOMAIN reservations'
  BY <1>1, <1>10 DEF RequestOK, ReservationsKept
<1>15. TypeOK'
  <2>1. record' \in [IdemKeys \X Actors -> Nat]
    BY <1>n, <1>2, <1>5
  <2> QED
    BY <1>1, <1>6, <1>7, <1>10, <1>12, <2>1, Types, TypesNext DEF PlaceOrder
<1>16. RequestsOK'
  <2>1. RequestOK(p)'
    BY <1>4, <1>6, <1>13, <1>14 DEF RequestOK
  <2> QED
    BY <1>11, <1>12, <2>1, RequestStays DEF IInv, RequestsOK
<1>17. OrdersOK'
  <2>1. OrderOK(n)'
    <3>1. \A o \in Lines(req[p].view) :
             Covers(reservations, req[p].held, Actor[p], req[p].cart, o)
      BY <1>1 DEF RequestOK, PlaceOrder
    <3>2. \A o \in Lines(req[p].view) :
             Covers(reservations', req[p].held, Actor[p], req[p].cart, o)
      BY <1>10, <1>14, <3>1 DEF Covers, ReservationsKept
    <3> QED
      BY <1>4, <1>6, <1>14, <3>2 DEF OrderOK
  <2> QED
    BY <1>6, <1>11, <2>1, OrderStays DEF IInv, OrdersOK
<1>18. RecordsOK'
  <2> SUFFICES ASSUME NEW k \in IdemKeys, NEW a \in Actors, record'[<<k, a>>] # 0
               PROVE  /\ record'[<<k, a>>] \in DOMAIN orders'
                      /\ orders'[record'[<<k, a>>]].key = k
                      /\ orders'[record'[<<k, a>>]].actor = a
    BY DEF RecordsOK
  <2>1. CASE <<k, a>> = Me(p)
    <3>1. record'[<<k, a>>] = n /\ k = Key[p] /\ a = Actor[p]
      BY <1>1, <1>2, <1>5, <2>1 DEF Me
    <3> QED
      BY <1>4, <1>6, <3>1
  <2>2. CASE <<k, a>> # Me(p)
    <3>1. record'[<<k, a>>] = record[<<k, a>>]
      BY <1>2, <1>5, <2>2
    <3> QED
      BY <1>6, <3>1 DEF IInv, RecordsOK
  <2> QED
    BY <2>1, <2>2
<1> QED
  BY <1>15, <1>16, <1>17, <1>18 DEF IInv

LEMMA NextInv == IInv /\ [Next]_vars => IInv'
<1> SUFFICES ASSUME IInv, [Next]_vars PROVE IInv'
  OBVIOUS
<1>1. ASSUME NEW a \in Actors, NEW o \in Offers, NEW q \in Quantities \cup {0}, EditCart(a, o, q)
      PROVE  IInv'
  BY <1>1, EditCartInv
<1>2. ASSUME NEW r \in DOMAIN reservations, Expire(r) PROVE IInv'
  BY <1>2, ExpireInv
<1>3. ASSUME NEW p \in Requests, Checkout(p) PROVE IInv'
  <2>1. CASE Lookup(p)
    BY <2>1, LookupInv
  <2>2. CASE GetCart(p)
    BY <2>2, GetCartInv
  <2>3. CASE View(p)
    BY <2>3, ViewInv
  <2>4. CASE Reserve(p)
    BY <2>4, ReserveInv
  <2>5. CASE PlaceOrder(p)
    BY <2>5, PlaceOrderInv
  <2>6. CASE OrderFails(p)
    BY <2>6, GoesTo DEF OrderFails
  <2>7. CASE Rollback(p)
    BY <2>7, RollbackInv
  <2>8. CASE Stop(p)
    BY <2>8, GoesTo DEF Stop
  <2> QED
    BY <1>3, <2>1, <2>2, <2>3, <2>4, <2>5, <2>6, <2>7, <2>8 DEF Checkout
<1>4. CASE UNCHANGED vars
  <2>1. TypeOK' /\ AllKept
    BY <1>4 DEF vars, IInv, TypeOK, AllKept, CartsKept, ReservationsKept, OrdersKept
  <2> QED
    BY <1>4, <2>1, NoneMoves DEF vars
<1> QED
  BY <1>1, <1>2, <1>3, <1>4 DEF Next

LEMMA Invariant == Spec => []IInv
<1> QED
  BY InitInv, NextInv, PTL DEF Spec

-----------------------------------------------------------------------------
(***************************************************************************)
(* The properties.                                                         *)
(***************************************************************************)
\* Every variable keeps its type: in particular, an order only names carts, reservations and lines
\* that a checkout can have.
THEOREM TypeCorrect == Spec => []TypeOK
<1>1. IInv => TypeOK
  BY DEF IInv
<1> QED
  BY <1>1, Invariant, PTL

\* Whoever asks is answered with an order of the own account under the own key, whatever number of
\* customers use the same keys: findUnique by (key, userId) and the record written with the order.
THEOREM OwnAnswers == Spec => []AnswerIsOwn
<1>1. IInv => AnswerIsOwn
  BY DEF IInv, RequestsOK, RequestOK, AnswerIsOwn
<1> QED
  BY <1>1, Invariant, PTL

\* Every line of every order has a reservation of the order's cart, whichever attempts took it: the
\* loop of checkout over the lines, with reserve answering a repetition by an older reservation.
THEOREM OrdersCovered == Spec => []OrderIsCovered
<1>1. IInv => OrderIsCovered
  BY DEF IInv, OrdersOK, OrderOK, Covers, OrderIsCovered
<1> QED
  BY <1>1, Invariant, PTL

-----------------------------------------------------------------------------
(***************************************************************************)
(* One order per key, of requests that do not overlap: a key that led to   *)
(* an order is recorded, and a request on its way has read its record      *)
(* before any order of its key was there.                                  *)
(***************************************************************************)
KeysNoted == \A i \in DOMAIN orders : record[<<orders[i].key, orders[i].actor>>] # 0
CameFirst(p) ==
  /\ req[p].known \in 0..Len(orders)
  /\ \A i \in DOMAIN orders : orders[i].key = Key[p] /\ orders[i].actor = Actor[p] => req[p].known < i
AllCameFirst == \A p \in Requests : InProgress(p) => CameFirst(p)
Keyed == KeysNoted /\ AllCameFirst /\ RetryFindsTheOrder

\* An action that starts no request and writes no order.
LEMMA KeyedStays ==
  ASSUME Keyed, UNCHANGED <<orders, record>>,
         \A p \in Requests : InProgress(p)' => InProgress(p) /\ req'[p].known = req[p].known
  PROVE  Keyed'
<1>1. KeysNoted' /\ RetryFindsTheOrder'
  BY DEF Keyed, KeysNoted, RetryFindsTheOrder, OfOneKey
<1>2. AllCameFirst'
  BY DEF Keyed, AllCameFirst, CameFirst
<1> QED
  BY <1>1, <1>2 DEF Keyed

LEMMA LookupKeyed ==
  ASSUME IInv, Keyed, NEW p \in Requests, Lookup(p)
  PROVE  Keyed'
<1>1. req \in [Requests -> Place] /\ orders \in Seq(OrderRow) /\ UNCHANGED <<orders, record>>
  BY Types DEF IInv, Lookup
<1>2. \A q \in Requests \ {p} : req'[q] = req[q]
  BY <1>1 DEF Lookup, Answer
<1>3. CASE record[Me(p)] # 0
  <2>1. req'[p].pc = "answered"
    BY <1>1, <1>3 DEF Lookup, Answer, Place
  <2> QED
    BY <1>1, <1>2, <2>1, KeyedStays DEF InProgress
<1>4. CASE record[Me(p)] = 0
  <2>1. \A i \in DOMAIN orders : ~(orders[i].key = Key[p] /\ orders[i].actor = Actor[p])
    BY <1>4 DEF Keyed, KeysNoted, Me
  <2>2. CameFirst(p)'
    <3>1. req'[p].known = Len(orders) /\ Len(orders) \in Nat
      BY <1>1, <1>4, LenProperties DEF Lookup, Place
    <3> QED
      BY <1>1, <2>1, <3>1 DEF CameFirst
  <2>3. \A q \in Requests \ {p} : InProgress(q)' => CameFirst(q)'
    BY <1>1, <1>2 DEF Keyed, AllCameFirst, CameFirst, InProgress
  <2>4. KeysNoted' /\ RetryFindsTheOrder'
    BY <1>1 DEF Keyed, KeysNoted, RetryFindsTheOrder, OfOneKey
  <2> QED
    BY <2>2, <2>3, <2>4 DEF Keyed, AllCameFirst
<1> QED
  BY <1>3, <1>4

LEMMA PlaceOrderKeyed ==
  ASSUME IInv, Keyed, NEW p \in Requests, PlaceOrder(p)
  PROVE  Keyed'
<1> DEFINE row == [actor |-> Actor[p], key |-> Key[p], cart |-> req[p].cart,
                   lines |-> req[p].view, held |-> req[p].held, known |-> req[p].known]
<1>1. TypeOK /\ Actor[p] \in Actors /\ Key[p] \in IdemKeys /\ Me(p) \in IdemKeys \X Actors
  BY Own DEF IInv
<1>2. /\ req \in [Requests -> Place] /\ orders \in Seq(OrderRow)
      /\ record \in [IdemKeys \X Actors -> Nat]
  BY <1>1, Types
<1>3. /\ row \in OrderRow /\ row.actor = Actor[p] /\ row.key = Key[p]
      /\ row.known = req[p].known /\ req[p].known \in Nat
  BY <1>1, <1>2 DEF OrderRow, Place
<1>n. PICK n \in Nat : n = Len(orders) + 1
  BY <1>2, <1>3, AddedToLog
<1>4. /\ orders' = Append(orders, row) /\ record' = [record EXCEPT ![Me(p)] = n]
      /\ req' = [req EXCEPT ![p].pc = "answered", ![p].answer = n]
  BY <1>n DEF PlaceOrder, Answer
<1> HIDE DEF row
<1>5. /\ DOMAIN orders' = DOMAIN orders \cup {n} /\ orders'[n] = row
      /\ \A i \in DOMAIN orders : orders'[i] = orders[i] /\ i < n /\ i \in Nat
  <2>1. DOMAIN orders = 1..Len(orders) /\ Len(orders) \in Nat
    BY <1>2, LenProperties
  <2> QED
    BY <1>n, <1>2, <1>3, <1>4, <2>1, AddedToLog
<1>6. record'[Me(p)] = n /\ n # 0 /\ \A k \in IdemKeys \X Actors : k # Me(p) => record'[k] = record[k]
  BY <1>1, <1>2, <1>4, <1>n, AddedToLog, <1>3
<1>7. InProgress(p) /\ CameFirst(p)
  BY DEF PlaceOrder, InProgress, Keyed, AllCameFirst
<1>8. \A q \in Requests : InProgress(q)' => InProgress(q) /\ req'[q] = req[q]
  <2>1. req'[p].pc = "answered" /\ \A q \in Requests \ {p} : req'[q] = req[q]
    BY <1>2, <1>4 DEF Place
  <2> QED
    BY <2>1 DEF InProgress
<1>9. KeysNoted'
  <2>1. \A i \in DOMAIN orders : <<orders[i].key, orders[i].actor>> \in IdemKeys \X Actors
    BY <1>1, Elements DEF OrderRow
  <2>2. \A i \in DOMAIN orders : record'[<<orders'[i].key, orders'[i].actor>>] # 0
    BY <1>5, <1>6, <2>1 DEF Keyed, KeysNoted
  <2>3. record'[<<orders'[n].key, orders'[n].actor>>] = n
    BY <1>3, <1>5, <1>6 DEF Me
  <2> QED
    BY <1>5, <1>6, <2>2, <2>3 DEF KeysNoted
<1>10. AllCameFirst'
  <2> SUFFICES ASSUME NEW q \in Requests, InProgress(q)' PROVE CameFirst(q)'
    BY DEF AllCameFirst
  <2>1. CameFirst(q) /\ req'[q] = req[q]
    BY <1>8 DEF Keyed, AllCameFirst
  <2>2. Len(orders') = Len(orders) + 1 /\ Len(orders) \in Nat
    BY <1>2, <1>3, <1>4, AppendProperties, LenProperties
  <2>3. req[q].known < n /\ req[q].known \in 0..Len(orders')
    BY <1>n, <2>1, <2>2 DEF CameFirst
  <2> QED
    BY <1>5, <2>1, <2>3 DEF CameFirst
<1>11. RetryFindsTheOrder'
  <2> SUFFICES ASSUME NEW i \in DOMAIN orders', NEW j \in DOMAIN orders', i < j, OfOneKey(i, j)'
               PROVE  orders'[j].known < i
    BY DEF RetryFindsTheOrder
  <2>1. i \in DOMAIN orders
    BY <1>5, <1>n
  <2>2. CASE j \in DOMAIN orders
    BY <1>5, <2>1, <2>2 DEF Keyed, RetryFindsTheOrder, OfOneKey
  <2>3. CASE j = n
    <3>1. orders[i].key = Key[p] /\ orders[i].actor = Actor[p]
      BY <1>3, <1>5, <2>1, <2>3 DEF OfOneKey
    <3> QED
      BY <1>3, <1>5, <1>7, <2>1, <2>3, <3>1 DEF CameFirst
  <2> QED
    BY <1>5, <2>2, <2>3
<1> QED
  BY <1>9, <1>10, <1>11 DEF Keyed

\* The other steps of a request start none.
LEMMA NoneStarts ==
  ASSUME IInv, NEW p \in Requests,
         GetCart(p) \/ View(p) \/ Reserve(p) \/ OrderFails(p) \/ Rollback(p) \/ Stop(p)
  PROVE  /\ UNCHANGED <<orders, record>>
         /\ \A q \in Requests : InProgress(q)' => InProgress(q) /\ req'[q].known = req[q].known
<1>1. req \in [Requests -> Place]
  BY Types DEF IInv
<1>2. UNCHANGED <<orders, record>>
  BY DEF GetCart, View, Reserve, OrderFails, Rollback, Stop
<1>3. InProgress(p)
  BY DEF GetCart, View, Reserve, OrderFails, Rollback, Stop, InProgress
<1>4. \A q \in Requests \ {p} : req'[q] = req[q]
  BY <1>1 DEF GetCart, View, Reserve, Repeat, Hold, Refused, Reserved, OrderFails, Rollback, Stop, Goto
<1>5. req'[p].known = req[p].known
  <2>1. req[p] \in Place
    BY <1>1
  <2>2. CASE GetCart(p)
    BY <1>1, <2>1, <2>2 DEF GetCart, Goto, Place
  <2>3. CASE View(p)
    BY <1>1, <2>1, <2>3 DEF View, Goto, Place
  <2>4. CASE Reserve(p)
    <3>1. \/ \E o \in Offers, r \in Nat : Reserved(p, o, r)
          \/ \E o \in Offers : Reserved(p, o, Len(reservations) + 1)
          \/ \E pc \in {"failed", "order"} : Goto(p, pc)
      <4>1. req[p].left \subseteq Offers
        BY <2>1 DEF Place
      <4>2. \A o \in Offers : \A r \in Matching(p, o) : r \in Nat
        BY Elements DEF Matching, IInv
      <4> QED
        BY <2>4, <4>1, <4>2 DEF Reserve, Repeat, Hold, Refused
    <3>2. ASSUME NEW o, NEW r, Reserved(p, o, r) PROVE req'[p].known = req[p].known
      BY <1>1, <2>1, <3>2 DEF Reserved, Place
    <3>3. ASSUME NEW pc, Goto(p, pc) PROVE req'[p].known = req[p].known
      BY <1>1, <2>1, <3>3 DEF Goto, Place
    <3> QED
      BY <3>1, <3>2, <3>3
  <2>5. CASE OrderFails(p) \/ Rollback(p) \/ Stop(p)
    BY <1>1, <2>1, <2>5 DEF OrderFails, Rollback, Stop, Goto, Place
  <2> QED
    BY <2>2, <2>3, <2>4, <2>5
<1> QED
  BY <1>2, <1>3, <1>4, <1>5 DEF InProgress

LEMMA KeyedInvariant == Spec => []Keyed
<1>1. Init => Keyed
  <2> SUFFICES ASSUME Init PROVE Keyed
    OBVIOUS
  <2>1. DOMAIN orders = {}
    BY EmptySeq, LenProperties DEF Init
  <2> QED
    BY <2>1 DEF Init, Fresh, Keyed, KeysNoted, AllCameFirst, RetryFindsTheOrder, InProgress
<1>2. IInv /\ Keyed /\ [Next]_vars => Keyed'
  <2> SUFFICES ASSUME IInv, Keyed, [Next]_vars PROVE Keyed'
    OBVIOUS
  <2>1. CASE UNCHANGED <<orders, record, req>>
    BY <2>1, KeyedStays DEF InProgress
  <2>2. ASSUME NEW p \in Requests, Checkout(p) PROVE Keyed'
    <3>1. CASE Lookup(p)
      BY <3>1, LookupKeyed
    <3>2. CASE PlaceOrder(p)
      BY <3>2, PlaceOrderKeyed
    <3>3. CASE GetCart(p) \/ View(p) \/ Reserve(p) \/ OrderFails(p) \/ Rollback(p) \/ Stop(p)
      BY <3>3, NoneStarts, KeyedStays
    <3> QED
      BY <2>2, <3>1, <3>2, <3>3 DEF Checkout
  <2> QED
    BY <2>1, <2>2 DEF Next, EditCart, Expire, vars
<1> QED
  BY <1>1, <1>2, Invariant, PTL DEF Spec

\* A retry returns the same order: of all the attempts under a key of a customer, however many fail at
\* whatever step and however they overlap, none that reads the record after an order was placed leads
\* to another, because the order's transaction writes that record.
THEOREM OneOrder == Spec => []RetryFindsTheOrder
<1>1. Keyed => RetryFindsTheOrder
  BY DEF Keyed
<1> QED
  BY <1>1, KeyedInvariant, PTL
================================================================================
