--------------------------- MODULE UartRing_proofs --------------------------
(***************************************************************************)
(* Proofs about UartRing for every size of the rings, every range of the   *)
(* counters that is a multiple of it, and every bound on calls and bytes.  *)
(***************************************************************************)
EXTENDS UartRing, SequenceTheorems, TLAPS

(* Arithmetic of the counters.                                             *)

LEMMA DivMod == ASSUME NEW c \in Nat \ {0}, NEW k \in Nat
  PROVE /\ k \div c \in Nat /\ k % c \in 0 .. c - 1 /\ k = c * (k \div c) + (k % c)
  OBVIOUS
LEMMA MultMod == ASSUME NEW c \in Nat \ {0}, NEW q \in Nat, NEW i \in 0 .. c - 1
  PROVE (c * q + i) % c = i
  OBVIOUS
LEMMA ModShift == ASSUME NEW c \in Nat \ {0}, NEW k \in Nat, NEW m \in Nat
  PROVE (k + c * m) % c = k % c
<1>1. PICK q \in Nat, i \in 0 .. c - 1 : k = c * q + i
  BY DivMod
<1>2. k + c * m = c * (q + m) + i /\ q + m \in Nat
  BY <1>1
<1>3. k % c = i
  BY <1>1, MultMod
<1>4. (c * (q + m) + i) % c = i
  BY <1>2, MultMod
<1>5. QED
  BY <1>2, <1>3, <1>4
LEMMA ModNear == ASSUME NEW c \in Nat \ {0}, NEW k \in Nat, NEW j \in 0 .. c - 1
  PROVE (k + j) % c = IF (k % c) + j < c THEN (k % c) + j ELSE (k % c) + j - c
<1>1. PICK q \in Nat, i \in 0 .. c - 1 : k = c * q + i
  BY DivMod
<1>2. k % c = i
  BY <1>1, MultMod
<1>3. CASE i + j < c
  <2>1. k + j = c * q + (i + j) /\ i + j \in 0 .. c - 1
    BY <1>1, <1>3
  <2>2. (c * q + (i + j)) % c = i + j
    BY <2>1, MultMod
  <2>3. QED
    BY <1>2, <1>3, <2>1, <2>2
<1>4. CASE i + j >= c
  <2>1. k + j = c * (q + 1) + (i + j - c) /\ i + j - c \in 0 .. c - 1 /\ q + 1 \in Nat
    BY <1>1, <1>4
  <2>2. (c * (q + 1) + (i + j - c)) % c = i + j - c
    BY <2>1, MultMod
  <2>3. QED
    BY <1>2, <1>4, <2>1, <2>2
<1>5. QED
  BY <1>3, <1>4
LEMMA ModSmall == ASSUME NEW w \in Nat \ {0}, NEW x \in 0 .. w - 1
  PROVE x % w = x
  OBVIOUS
LEMMA ModOver == ASSUME NEW w \in Nat \ {0}, NEW x \in w .. 2 * w - 1
  PROVE x % w = x - w
  OBVIOUS
LEMMA ModNeg == ASSUME NEW w \in Nat \ {0}, NEW x \in -w .. -1
  PROVE x % w = x + w
  OBVIOUS

LEMMA Room ==
  ASSUME NEW a \in Nat, NEW b \in Nat, NEW f \in Nat, NEW c \in Nat, NEW r \in Nat,
         NEW n \in Nat, a + b <= c - f, a + b <= n - r, a + b < n - r => a + b = c - f
  PROVE  f + a + b <= c /\ r + a + b <= n /\ (r + a + b < n => f + a + b = c)
  OBVIOUS

LEMMA Sizes ==
  /\ Count \in Nat \ {0} /\ Word \in Nat \ {0} /\ Word > Count
  /\ MaxCall \in Nat /\ MaxTx \in Nat /\ MaxRx \in Nat /\ MaxEarly \in 0 .. MaxRx
  BY SizeAssumption

LEMMA IndexType == ASSUME NEW k \in Nat PROVE Index(k) \in Cells
  BY DivMod, Sizes DEF Index, Cells

LEMMA IndexShift == ASSUME NEW k \in Nat PROVE Index(k + Word) = Index(k)
<1>1. Word = Count * (Word \div Count) + (Word % Count) /\ Word \div Count \in Nat
  BY DivMod, Sizes
<1>2. Word % Count = 0
  BY SizeAssumption
<1> DEFINE m == Word \div Count
<1>3. m \in Nat /\ Word = Count * m
  <2>1. Count * m \in Nat
    BY <1>1, Sizes
  <2>2. QED
    BY <1>1, <1>2, <2>1
<1>4. (k + Count * m) % Count = k % Count
  <2> HIDE DEF m
  <2>1. QED
    BY <1>3, ModShift, Sizes
<1>5. QED
  BY <1>3, <1>4 DEF Index

LEMMA IndexNear == ASSUME NEW k \in Nat, NEW j \in 0 .. Count - 1
  PROVE Index(k + j) = IF Index(k) + j < Count THEN Index(k) + j ELSE Index(k) + j - Count
  BY ModNear, Sizes DEF Index

LEMMA PlusIs == ASSUME NEW k \in 0 .. Word - 1, NEW n \in 0 .. Count
  PROVE Plus(k, n) = IF k + n < Word THEN k + n ELSE k + n - Word
<1>1. CASE k + n < Word
  <2>1. k + n \in 0 .. Word - 1
    BY <1>1, Sizes
  <2>2. QED
    BY <1>1, <2>1, ModSmall, Sizes DEF Plus
<1>2. CASE k + n >= Word
  <2>1. k + n \in Word .. 2 * Word - 1
    BY <1>2, Sizes
  <2>2. QED
    BY <1>2, <2>1, ModOver, Sizes DEF Plus
<1>3. QED
  BY <1>1, <1>2, Sizes

LEMMA IndexPlus == ASSUME NEW k \in 0 .. Word - 1, NEW n \in 0 .. Count, NEW j \in Nat
  PROVE Index(Plus(k, n) + j) = Index(k + n + j)
<1>1. CASE k + n < Word
  BY <1>1, PlusIs, Sizes
<1>2. CASE k + n >= Word
  <2>1. k + n - Word + j \in Nat /\ (k + n - Word + j) + Word = k + n + j
    BY <1>2, Sizes
  <2>2. Index((k + n - Word + j) + Word) = Index(k + n - Word + j)
    BY <2>1, IndexShift
  <2>3. Plus(k, n) = k + n - Word
    BY <1>2, PlusIs, Sizes
  <2>4. QED
    BY <2>1, <2>2, <2>3
<1>3. QED
  BY <1>1, <1>2, Sizes

LEMMA FilledIs == ASSUME NEW r, r.head \in 0 .. Word - 1, r.tail \in 0 .. Word - 1
  PROVE Filled(r) = IF r.head >= r.tail THEN r.head - r.tail ELSE r.head - r.tail + Word
<1>1. CASE r.head >= r.tail
  <2>1. r.head - r.tail \in 0 .. Word - 1
    BY <1>1, Sizes
  <2>2. QED
    BY <1>1, <2>1, ModSmall, Sizes DEF Filled
<1>2. CASE r.head < r.tail
  <2>1. r.head - r.tail \in -Word .. -1
    BY <1>2, Sizes
  <2>2. QED
    BY <1>2, <2>1, ModNeg, Sizes DEF Filled
<1>3. QED
  BY <1>1, <1>2, Sizes

Rings == [data : [Cells -> Nat], head : 0 .. Word - 1, tail : 0 .. Word - 1]
Bounded(r) == r \in Rings /\ Filled(r) \in 0 .. Count
Item(r, k) == r.data[Index(r.tail + k - 1)]

LEMMA HeadIndex ==
  ASSUME NEW r, Bounded(r), NEW j \in 0 .. Count - 1
  PROVE  Index(r.head + j) = Index(r.tail + Filled(r) + j)
<1>0. r.head \in 0 .. Word - 1 /\ r.tail \in 0 .. Word - 1 /\ Filled(r) \in Nat
  BY Sizes DEF Bounded, Rings
<1>1. CASE r.head >= r.tail
  BY <1>0, <1>1, FilledIs, Sizes
<1>2. CASE r.head < r.tail
  <2>1. r.tail + Filled(r) + j = (r.head + j) + Word /\ r.head + j \in Nat
    BY <1>0, <1>2, FilledIs, Sizes
  <2>2. QED
    BY <2>1, IndexShift
<1>3. QED
  BY <1>0, <1>1, <1>2, Sizes

LEMMA Apart ==
  ASSUME NEW t \in Nat, NEW i \in 0 .. Count - 1, NEW j \in 0 .. Count - 1, i # j
  PROVE  Index(t + i) # Index(t + j)
<1>1. Index(t) \in 0 .. Count - 1
  BY IndexType DEF Cells
<1>2. /\ Index(t + i) = IF Index(t) + i < Count THEN Index(t) + i ELSE Index(t) + i - Count
      /\ Index(t + j) = IF Index(t) + j < Count THEN Index(t) + j ELSE Index(t) + j - Count
  BY IndexNear
<1>3. QED
  BY <1>1, <1>2, Sizes

LEMMA FilledInsert ==
  ASSUME NEW r, Bounded(r), NEW s, s.tail = r.tail,
         NEW n \in 0 .. Count, n <= Count - Filled(r), s.head = Plus(r.head, n)
  PROVE  s.head \in 0 .. Word - 1 /\ Filled(s) = Filled(r) + n
<1>1. r.head \in 0 .. Word - 1 /\ r.tail \in 0 .. Word - 1 /\ Filled(r) \in 0 .. Count
  BY DEF Bounded, Rings
<1>2. s.head = (IF r.head + n < Word THEN r.head + n ELSE r.head + n - Word)
  BY <1>1, PlusIs
<1>3. s.head \in 0 .. Word - 1 /\ s.tail \in 0 .. Word - 1
  BY <1>1, <1>2, Sizes
<1>4. QED
  BY <1>1, <1>2, <1>3, FilledIs, Sizes

LEMMA FilledPop ==
  ASSUME NEW r, Bounded(r), NEW s, s.head = r.head,
         NEW n \in 0 .. Count, n <= Filled(r), s.tail = Plus(r.tail, n)
  PROVE  s.tail \in 0 .. Word - 1 /\ Filled(s) = Filled(r) - n
<1>1. r.head \in 0 .. Word - 1 /\ r.tail \in 0 .. Word - 1 /\ Filled(r) \in 0 .. Count
  BY DEF Bounded, Rings
<1>2. s.tail = (IF r.tail + n < Word THEN r.tail + n ELSE r.tail + n - Word)
  BY <1>1, PlusIs
<1>3. s.head \in 0 .. Word - 1 /\ s.tail \in 0 .. Word - 1
  BY <1>1, <1>2, Sizes
<1>4. QED
  BY <1>1, <1>2, <1>3, FilledIs, Sizes

LEMMA EmptyIs ==
  ASSUME NEW r, Bounded(r)
  PROVE  IsEmpty(r) <=> Filled(r) = 0
<1>1. r.head \in 0 .. Word - 1 /\ r.tail \in 0 .. Word - 1
  BY DEF Bounded, Rings
<1>2. QED
  BY <1>1, FilledIs, Sizes DEF IsEmpty

LEMMA ContentIs ==
  ASSUME NEW r, Bounded(r)
  PROVE  /\ Content(r) \in Seq(Nat) /\ Len(Content(r)) = Filled(r)
         /\ \A k \in 1 .. Filled(r) : Content(r)[k] = Item(r, k)
<1>1. Filled(r) \in Nat /\ Content(r) = [k \in 1 .. Filled(r) |-> Item(r, k)]
  BY DEF Bounded, Content, Item
<1>2. ASSUME NEW k \in 1 .. Filled(r) PROVE Item(r, k) \in Nat
  <2>1. r.tail + k - 1 \in Nat /\ r.data \in [Cells -> Nat]
    BY <1>1, Sizes DEF Bounded, Rings
  <2>2. QED
    BY <2>1, IndexType DEF Item
<1>3. QED
  BY <1>1, <1>2

Kept(r, s) == \A k \in 1 .. Filled(r) : Item(s, k) = Item(r, k)
Added(r, s, n, first) == \A k \in 1 .. n : Item(s, Filled(r) + k) = first + k

LEMMA IsConcat ==
  ASSUME NEW a \in Seq(Nat), NEW b \in Seq(Nat), NEW c \in Seq(Nat),
         Len(c) = Len(a) + Len(b),
         \A k \in 1 .. Len(a) : c[k] = a[k],
         \A k \in 1 .. Len(b) : c[Len(a) + k] = b[k]
  PROVE  c = a \o b
<1>0. Len(a) \in Nat /\ Len(b) \in Nat
  OBVIOUS
<1>1. /\ a \o b \in Seq(Nat) /\ Len(a \o b) = Len(a) + Len(b)
      /\ \A k \in 1 .. Len(a) + Len(b) :
            (a \o b)[k] = IF k <= Len(a) THEN a[k] ELSE b[k - Len(a)]
  BY ConcatProperties
<1>2. ASSUME NEW k \in 1 .. Len(a) + Len(b) PROVE c[k] = (a \o b)[k]
  <2>1. CASE k <= Len(a)
    BY <1>0, <1>1, <2>1
  <2>2. CASE ~(k <= Len(a))
    <3>1. k - Len(a) \in 1 .. Len(b) /\ Len(a) + (k - Len(a)) = k
      BY <1>0, <2>2
    <3>2. c[k] = b[k - Len(a)]
      BY <3>1
    <3>3. QED
      BY <1>1, <2>2, <3>2
  <2>3. QED
    BY <2>1, <2>2
<1>3. QED
  BY <1>1, <1>2, SeqEqual

LEMMA ContentPut ==
  ASSUME NEW r, Bounded(r), NEW s, Bounded(s),
         NEW n \in 0 .. Count, Filled(s) = Filled(r) + n, NEW first \in Nat,
         Kept(r, s), Added(r, s, n, first)
  PROVE  Content(s) = Content(r) \o [k \in 1 .. n |-> first + k]
<1>0. Filled(r) \in Nat /\ Filled(s) \in Nat /\ n \in Nat
  BY Sizes DEF Bounded
<1>1. PICK new \in Seq(Nat) :
        /\ new = [k \in 1 .. n |-> first + k]
        /\ Len(new) = n /\ \A k \in 1 .. n : new[k] = first + k
  <2>1. /\ [k \in 1 .. n |-> first + k] \in Seq(Nat)
        /\ Len([k \in 1 .. n |-> first + k]) = n
        /\ \A k \in 1 .. n : [i \in 1 .. n |-> first + i][k] = first + k
    BY <1>0
  <2>2. QED
    BY <2>1
<1>2. /\ Content(r) \in Seq(Nat) /\ Len(Content(r)) = Filled(r)
      /\ \A k \in 1 .. Filled(r) : Content(r)[k] = Item(r, k)
  BY ContentIs
<1>3. /\ Content(s) \in Seq(Nat) /\ Len(Content(s)) = Filled(s)
      /\ \A k \in 1 .. Filled(s) : Content(s)[k] = Item(s, k)
  BY ContentIs
<1>4. \A k \in 1 .. Len(Content(r)) : Content(s)[k] = Content(r)[k]
  BY <1>0, <1>2, <1>3 DEF Kept
<1>5. \A k \in 1 .. Len(new) : Content(s)[Len(Content(r)) + k] = new[k]
  BY <1>0, <1>1, <1>2, <1>3 DEF Added
<1>6. Content(s) = Content(r) \o new
  BY <1>1, <1>2, <1>3, <1>4, <1>5, IsConcat
<1>7. QED
  BY <1>1, <1>6

LEMMA ContentGet ==
  ASSUME NEW r, Bounded(r), NEW s, Bounded(s), s.data = r.data,
         NEW n \in 0 .. Count, n <= Filled(r), Filled(s) = Filled(r) - n,
         s.tail = Plus(r.tail, n)
  PROVE  /\ \A k \in 1 .. Filled(s) : Item(s, k) = Item(r, n + k)
         /\ Content(s) = SubSeq(Content(r), n + 1, Len(Content(r)))
<1>0. Filled(r) \in Nat /\ Filled(s) \in Nat /\ r.tail \in 0 .. Word - 1 /\ n \in Nat
  BY Sizes DEF Bounded, Rings
<1>a. /\ Content(r) \in Seq(Nat) /\ Len(Content(r)) = Filled(r)
      /\ \A k \in 1 .. Filled(r) : Content(r)[k] = Item(r, k)
  BY ContentIs
<1>b. /\ Content(s) \in Seq(Nat) /\ Len(Content(s)) = Filled(s)
      /\ \A k \in 1 .. Filled(s) : Content(s)[k] = Item(s, k)
  BY ContentIs
<1>1. ASSUME NEW k \in 1 .. Filled(s) PROVE Item(s, k) = Item(r, n + k)
  <2>1. Index(Plus(r.tail, n) + (k - 1)) = Index(r.tail + n + (k - 1))
    BY <1>0, IndexPlus
  <2>2. s.tail + k - 1 = Plus(r.tail, n) + (k - 1) /\ r.tail + n + (k - 1) = r.tail + (n + k) - 1
    BY <1>0, PlusIs, Sizes
  <2>3. QED
    BY <2>1, <2>2 DEF Item
<1> DEFINE rest == SubSeq(Content(r), n + 1, Len(Content(r)))
<1>2. /\ rest \in Seq(Nat) /\ Len(rest) = Filled(r) - n
      /\ \A k \in 1 .. Filled(r) - n : rest[k] = Content(r)[n + k]
  BY <1>0, <1>a, SubSeqProperties
<1> HIDE DEF rest
<1>3. Content(s) = rest
  <2>1. \A k \in 1 .. Filled(s) : Content(s)[k] = rest[k]
    BY <1>0, <1>1, <1>2, <1>a, <1>b
  <2>2. QED
    BY <1>0, <1>2, <1>b, <2>1, SeqEqual
<1>4. QED
  BY <1>1, <1>3 DEF rest

(* The two segments of a call together move as much as there is and as was *)
(* asked; the second one is there only if the first ends the array.        *)
LEMMA Segments ==
  ASSUME NEW index \in Cells, NEW avail \in 0 .. Count, NEW n \in Nat
  PROVE  LET c1 == Segment1(index, avail, n)
             c2 == Segment2(index, avail, n)
         IN  /\ c1 \in 0 .. Count /\ c2 \in 0 .. Count
             /\ c1 + c2 <= avail /\ c1 + c2 <= n
             /\ c1 + c2 < n => c1 + c2 = avail
             /\ index + c1 <= Count
             /\ c2 > 0 => index + c1 = Count
             /\ avail > 0 /\ n > 0 => c1 > 0
  BY Sizes DEF Cells, Segment1, Segment2, Smaller

(* After a segment that ends the array the next one starts it.             *)
LEMMA NextSegment ==
  ASSUME NEW k \in 0 .. Word - 1, NEW n \in 0 .. Count, NEW m \in 1 .. Count,
         n + m <= Count, Index(k) + n = Count
  PROVE  Index(Plus(k, n)) = 0
<1>1. Index(k) \in 0 .. Count - 1
  BY IndexType, Sizes DEF Cells
<1>2. Index(k + n) = 0
  <2>1. n \in 0 .. Count - 1
    BY Sizes
  <2>2. Index(k + n) = IF Index(k) + n < Count THEN Index(k) + n ELSE Index(k) + n - Count
    BY <2>1, IndexNear
  <2>3. QED
    BY <1>1, <2>1, <2>2, Sizes
<1>3. Index(Plus(k, n) + 0) = Index(k + n + 0)
  BY IndexPlus
<1>4. Plus(k, n) + 0 = Plus(k, n) /\ k + n + 0 = k + n
  BY PlusIs, Sizes
<1>5. QED
  BY <1>2, <1>3, <1>4

(* A copy of a segment into the free cells leaves the content alone.       *)
LEMMA WriteKeeps ==
  ASSUME NEW r, Bounded(r), NEW n \in 0 .. Count, Filled(r) + n <= Count,
         Index(r.head) + n <= Count, NEW first \in Nat,
         NEW s, s = [r EXCEPT !.data = Written(r.data, Index(r.head), first, n)]
  PROVE  /\ s.head = r.head /\ s.tail = r.tail /\ Filled(s) = Filled(r)
         /\ Kept(r, s)
         /\ \A k \in 1 .. n : s.data[Index(r.head) + k - 1] = first + k - 1
<1>0. /\ r \in Rings /\ Filled(r) \in 0 .. Count /\ r.head \in Nat /\ r.tail \in Nat
      /\ Index(r.head) \in 0 .. Count - 1
  BY IndexType, Sizes DEF Bounded, Rings, Cells
<1>1. /\ s.head = r.head /\ s.tail = r.tail /\ Filled(s) = Filled(r)
      /\ s.data = Written(r.data, Index(r.head), first, n)
  BY <1>0 DEF Rings, Filled
<1>2. ASSUME NEW k \in 1 .. Filled(r) PROVE Item(s, k) = Item(r, k)
  <2> DEFINE i == Index(r.tail + k - 1)
  <2>1. k - 1 \in 0 .. Count - 1 /\ r.tail + k - 1 = r.tail + (k - 1) /\ i \in Cells
    BY <1>0, IndexType, Sizes
  <2>2. ASSUME i \in Index(r.head) .. Index(r.head) + n - 1 PROVE FALSE
    <3>1. PICK j \in 0 .. n - 1 : i = Index(r.head) + j
      <4>1. i - Index(r.head) \in 0 .. n - 1 /\ i = Index(r.head) + (i - Index(r.head))
        BY <1>0, <2>1, <2>2, Sizes DEF Cells
      <4>2. QED
        BY <4>1
    <3>2. j \in 0 .. Count - 1 /\ Filled(r) + j \in 0 .. Count - 1 /\ k - 1 # Filled(r) + j
      BY <1>0, Sizes
    <3>3. Index(r.head + j) = Index(r.head) + j
      BY <1>0, <3>2, IndexNear, Sizes
    <3>4. Index(r.head + j) = Index(r.tail + (Filled(r) + j))
      <4>1. r.tail + (Filled(r) + j) = r.tail + Filled(r) + j
        BY <1>0, <3>2, Sizes
      <4>2. QED
        BY <3>2, <4>1, HeadIndex
    <3>5. Index(r.tail + (k - 1)) # Index(r.tail + (Filled(r) + j))
      BY <1>0, <2>1, <3>2, Apart
    <3>6. QED
      BY <2>1, <3>1, <3>3, <3>4, <3>5
  <2>3. s.data[i] = r.data[i]
    BY <1>1, <2>1, <2>2 DEF Written
  <2>4. QED
    BY <1>1, <2>3 DEF Item
<1>3. ASSUME NEW k \in 1 .. n PROVE s.data[Index(r.head) + k - 1] = first + k - 1
  <2> DEFINE i == Index(r.head) + k - 1
  <2>1. /\ i \in Cells /\ i \in Index(r.head) .. Index(r.head) + n - 1
        /\ first + i - Index(r.head) = first + k - 1
    BY <1>0, Sizes DEF Cells
  <2>2. QED
    BY <1>1, <2>1 DEF Written
<1>4. QED
  BY <1>1, <1>2, <1>3 DEF Kept

(* Once the head has moved past them the copied bytes end the content.     *)
LEMMA AdvanceAdds ==
  ASSUME NEW r, Bounded(r), NEW n \in 0 .. Count, Filled(r) + n <= Count,
         Index(r.head) + n <= Count, NEW first \in Nat,
         \A k \in 1 .. n : r.data[Index(r.head) + k - 1] = first + k,
         NEW s, s.data = r.data, s.tail = r.tail
  PROVE  Kept(r, s) /\ Added(r, s, n, first)
<1>0. /\ Filled(r) \in 0 .. Count /\ r.head \in Nat /\ r.tail \in Nat
      /\ Index(r.head) \in 0 .. Count - 1
  BY IndexType, Sizes DEF Bounded, Rings, Cells
<1>1. ASSUME NEW k \in 1 .. n PROVE Item(s, Filled(r) + k) = first + k
  <2>1. PICK j \in 0 .. Count - 1 : j = k - 1
    BY Sizes
  <2>2. Index(r.head + j) = Index(r.head) + j
    BY <1>0, <2>1, IndexNear, Sizes
  <2>3. Index(r.head + j) = Index(r.tail + Filled(r) + j)
    BY HeadIndex
  <2>4. r.tail + (Filled(r) + k) - 1 = r.tail + Filled(r) + j /\ Index(r.head) + k - 1 = Index(r.head) + j
    BY <1>0, <2>1, Sizes
  <2>5. QED
    BY <2>2, <2>3, <2>4 DEF Item
<1>2. QED
  BY <1>1 DEF Kept, Added, Item

-----------------------------------------------------------------------------
(* The inductive invariant.                                                *)

Sending == {"insert", "copy", "advance", "txloop", "pop", "byte", "txempty", "enable"}
Points == {"idle", "readcopy", "readadvance"} \cup Sending
Starting == {"data", "count", "itemSz", "heads"}

\* The types of the transmit side and of the receive side.
TypeTx ==
  /\ RingOK(tx, MaxTx) /\ threint \in BOOLEAN
  /\ bytes \in 0 .. MaxCall /\ ret \in 0 .. bytes /\ part \in {1, 2}
  /\ ch \in 0 .. MaxTx /\ thr \in 0 .. MaxTx
  /\ base \in 0 .. MaxTx /\ sent \in 0 .. MaxTx /\ wire \in Seq(1 .. MaxTx)
TypeRx ==
  /\ RingOK(rx, MaxRx) /\ rbr \in 0 .. MaxRx /\ arrived \in 0 .. MaxRx
  /\ dest \in Seq(1 .. MaxRx) /\ received \in Seq(1 .. MaxRx)
TypeMain == mpc \in Points \cup Starting /\ cnt1 \in 0 .. Count /\ cnt2 \in 0 .. Count

\* Main sends with the interrupt disabled, and within the bound of the run.
SendInv ==
  mpc \in Sending => threint = FALSE /\ base + bytes <= MaxTx /\ sent = base + ret

\* The segments fit in the ring and in the array, and leave something of the call
\* out only if they fill the ring.
InsertInv ==
  mpc \in {"copy", "advance"} =>
    /\ Filled(tx) + cnt1 + cnt2 <= Count
    /\ ret + cnt1 + cnt2 <= bytes
    /\ ret + cnt1 + cnt2 < bytes => Filled(tx) + cnt1 + cnt2 = Count
    /\ Index(tx.head) + cnt1 <= Count
    /\ cnt2 > 0 => Index(tx.head) + cnt1 = Count
CopiedInv ==
  mpc = "advance" => \A k \in 1 .. cnt1 : tx.data[Index(tx.head) + k - 1] = sent + k
EnableInv == mpc = "enable" /\ ret < bytes => Filled(tx) = Count

\* A byte on its way from the ring to the port.
PopInv ==
  /\ mpc = "pop" => Filled(tx) > 0 /\ ch = Item(tx, 1)
  /\ mpc \in {"pop", "byte"} => thr = 0 /\ ch >= 1

ReadInv ==
  mpc \in {"readcopy", "readadvance"} =>
    /\ cnt1 + cnt2 <= Filled(rx) /\ cnt1 >= 1
    /\ Index(rx.tail) + cnt1 <= Count
    /\ cnt2 > 0 => Index(rx.tail) + cnt1 = Count
DestInv ==
  /\ mpc # "readadvance" => dest = << >>
  /\ mpc = "readadvance" => dest = [k \in 1 .. cnt1 |-> Item(rx, k)]

\* What is in a ring is bytes that were offered.
Real(r) == \A k \in 1 .. Filled(r) : Item(r, k) >= 1
RealRx == mpc \notin Starting => Real(rx)
RbrInv == rbr \in {0, arrived}

TxInv == TypeTx /\ SendInv /\ InsertInv /\ CopiedInv /\ EnableInv /\ PopInv /\ Real(tx)
RxInv == TypeRx /\ ReadInv /\ DestInv /\ RealRx /\ RbrInv
IInv == TypeMain /\ TxInv /\ RxInv

-----------------------------------------------------------------------------
(* What the steps leave alone.                                             *)

LEMMA StartPoints == Initialising <=> mpc \in Starting
  BY DEF Initialising, InitSteps, Starting

LEMMA RingType ==
  ASSUME NEW r, NEW max \in Nat, RingOK(r, max)
  PROVE  Bounded(r)
  BY DEF RingOK, Bounded, Rings

LEMMA TxFrame ==
  ASSUME TxInv, UNCHANGED <<tx, threint, bytes, ret, part, base, sent, ch, thr, wire>>,
         mpc' \in Sending => mpc' = mpc /\ UNCHANGED cntVars
  PROVE  TxInv'
<1>1. TypeTx'
  BY DEF TxInv, TypeTx
<1>2. SendInv' /\ InsertInv' /\ CopiedInv' /\ EnableInv' /\ PopInv' /\ Real(tx)'
  BY DEF TxInv, SendInv, InsertInv, CopiedInv, EnableInv, PopInv, Real, Sending, cntVars, Item
<1>3. QED
  BY <1>1, <1>2 DEF TxInv

LEMMA RxFrame ==
  ASSUME RxInv, UNCHANGED <<rx, rbr, arrived, dest, received>>,
         mpc' \in {"readcopy", "readadvance"} => mpc' = mpc /\ UNCHANGED cntVars,
         mpc = "readadvance" => mpc' = mpc, mpc' \notin Starting => mpc \notin Starting
  PROVE  RxInv'
<1>1. TypeRx'
  BY DEF RxInv, TypeRx
<1>2. ReadInv' /\ DestInv' /\ RealRx' /\ RbrInv'
  BY DEF RxInv, ReadInv, DestInv, RealRx, RbrInv, Real, Starting, cntVars, Item
<1>3. QED
  BY <1>1, <1>2 DEF RxInv

(* The steps of main before and after the copies of uartSend().            *)
LEMMA InitRingKeeps ==
  ASSUME IInv, InitRing
  PROVE  IInv'
<1>1. mpc \in Starting /\ mpc' \in Starting \cup {"idle"} /\ (mpc = "heads" <=> mpc' = "idle")
  BY DEF InitRing, InitSteps, Starting
<1>2. TypeMain'
  BY <1>1 DEF InitRing, IInv, TypeMain, Points, cntVars
<1>3. TxInv'
  BY <1>1, TxFrame DEF IInv, InitRing, sendVars, lineVars, Starting, Sending
<1>4. CASE mpc = "heads"
  <2>1. rx' = [data |-> rx.data, head |-> 0, tail |-> 0]
    BY <1>4 DEF InitRing, IInv, RxInv, TypeRx, RingOK
  <2>2. Filled(rx') = 0
    BY <2>1, FilledIs, Sizes
  <2>3. RingOK(rx', MaxRx)
    BY <2>1, <2>2, Sizes DEF IInv, RxInv, TypeRx, RingOK
  <2>4. TypeRx' /\ RbrInv'
    BY <2>3 DEF InitRing, readVars, lineVars, IInv, RxInv, TypeRx, RbrInv
  <2>5. ReadInv' /\ DestInv'
    BY <1>1, <1>4 DEF InitRing, readVars, IInv, RxInv, ReadInv, DestInv
  <2>6. RealRx'
    BY <2>2 DEF RealRx, Real
  <2>7. QED
    BY <1>2, <1>3, <2>4, <2>5, <2>6 DEF IInv, RxInv
<1>5. CASE mpc # "heads"
  BY <1>1, <1>2, <1>3, <1>5, RxFrame DEF InitRing, readVars, lineVars, IInv, Starting
<1>6. QED
  BY <1>4, <1>5

LEMMA SendRBKeeps ==
  ASSUME IInv, NEW n \in 1 .. MaxCall, SendRB(n)
  PROVE  IInv'
<1>1. RxInv' /\ TypeMain'
  BY RxFrame DEF SendRB, IInv, TypeMain, Points, Sending, Starting, cntVars, readVars, lineVars
<1>2. TypeTx'
  <2>1. RingOK(tx, MaxTx)' /\ threint' \in BOOLEAN
    BY DEF SendRB, IInv, TxInv, TypeTx, RingOK, Filled
  <2>2. bytes' \in 0 .. MaxCall /\ ret' \in 0 .. bytes' /\ base' \in 0 .. MaxTx
    BY Sizes DEF SendRB, IInv, TxInv, TypeTx
  <2>3. QED
    BY <2>1, <2>2 DEF SendRB, IInv, TxInv, TypeTx, lineVars
<1>3. SendInv' /\ Real(tx)'
  BY Sizes DEF SendRB, IInv, TxInv, TypeTx, SendInv, Real, Item
<1>4. InsertInv' /\ CopiedInv' /\ EnableInv' /\ PopInv'
  BY DEF SendRB, InsertInv, CopiedInv, EnableInv, PopInv
<1>5. QED
  BY <1>1, <1>2, <1>3, <1>4 DEF IInv, TxInv

LEMMA InsertMultKeeps ==
  ASSUME IInv, InsertMult
  PROVE  IInv'
<1>0. /\ mpc = "insert" /\ mpc' \in {"copy", "txloop", "enable"}
      /\ UNCHANGED <<tx, rx, threint, sendVars, ch, readVars, thr, lineVars>>
      /\ TypeTx /\ Bounded(tx)
  BY RingType, Sizes DEF InsertMult, InsertDone, IInv, TxInv, TypeTx
<1>1. RxInv'
  BY <1>0, RxFrame DEF IInv, readVars, lineVars, Starting
<1>2. TypeTx' /\ Real(tx)' /\ SendInv'
  BY <1>0 DEF sendVars, lineVars, IInv, TxInv, TypeTx, Real, Item, SendInv, Sending
<1>3. CopiedInv' /\ PopInv'
  BY <1>0 DEF CopiedInv, PopInv
<1>4. CASE IsFull(tx, Count) /\ InsertDone /\ UNCHANGED cntVars
  <2>1. Filled(tx) = Count /\ mpc' \in {"txloop", "enable"}
    BY <1>0, <1>4, Sizes DEF IsFull, InsertDone, Bounded
  <2>2. InsertInv' /\ EnableInv' /\ TypeMain'
    BY <1>0, <1>4, <2>1 DEF InsertInv, EnableInv, IInv, TypeMain, Points, Sending, cntVars
  <2>3. QED
    BY <1>1, <1>2, <1>3, <2>2 DEF IInv, TxInv
<1>5. CASE /\ ~IsFull(tx, Count)
           /\ cnt1' = Segment1(Index(tx.head), Count - Filled(tx), bytes - ret)
           /\ cnt2' = Segment2(Index(tx.head), Count - Filled(tx), bytes - ret)
           /\ mpc' = "copy"
  <2>1. /\ Index(tx.head) \in Cells /\ Count - Filled(tx) \in 0 .. Count
        /\ bytes - ret \in Nat /\ Filled(tx) \in Nat /\ ret \in Nat /\ bytes \in Nat
    <3>1. tx.head \in Nat /\ Filled(tx) \in 0 .. Count
      BY <1>0, Sizes DEF Bounded, Rings
    <3>2. bytes \in Nat /\ ret \in 0 .. bytes
      BY <1>0, Sizes DEF TypeTx
    <3>3. QED
      BY <3>1, <3>2, IndexType, Sizes
  <2>2. /\ cnt1' \in 0 .. Count /\ cnt2' \in 0 .. Count
        /\ cnt1' + cnt2' <= Count - Filled(tx) /\ cnt1' + cnt2' <= bytes - ret
        /\ cnt1' + cnt2' < bytes - ret => cnt1' + cnt2' = Count - Filled(tx)
        /\ Index(tx.head) + cnt1' <= Count
        /\ cnt2' > 0 => Index(tx.head) + cnt1' = Count
    <3> DEFINE index == Index(tx.head) avail == Count - Filled(tx) n == bytes - ret
    <3>1. index \in Cells /\ avail \in 0 .. Count /\ n \in Nat
      BY <2>1
    <3>2. cnt1' = Segment1(index, avail, n) /\ cnt2' = Segment2(index, avail, n)
      BY <1>5
    <3> HIDE DEF index, avail, n
    <3>3. /\ cnt1' \in 0 .. Count /\ cnt2' \in 0 .. Count
          /\ cnt1' + cnt2' <= avail /\ cnt1' + cnt2' <= n
          /\ cnt1' + cnt2' < n => cnt1' + cnt2' = avail
          /\ index + cnt1' <= Count
          /\ cnt2' > 0 => index + cnt1' = Count
      BY <3>1, <3>2, Segments
    <3>4. QED
      BY <3>3 DEF index, avail, n
  <2>3. InsertInv'
    <3>1. /\ Filled(tx) + cnt1' + cnt2' <= Count
          /\ ret + cnt1' + cnt2' <= bytes
          /\ ret + cnt1' + cnt2' < bytes => Filled(tx) + cnt1' + cnt2' = Count
      <4>1. cnt1' \in Nat /\ cnt2' \in Nat /\ Count \in Nat
        BY <2>2, Sizes
      <4>2. QED
        BY <2>1, <2>2, <4>1, Room
    <3>2. QED
      BY <1>0, <2>2, <3>1 DEF InsertInv, sendVars
  <2>4. EnableInv' /\ TypeMain'
    BY <1>5, <2>2 DEF EnableInv, TypeMain, Points, Sending
  <2>5. QED
    BY <1>1, <1>2, <1>3, <2>3, <2>4 DEF IInv, TxInv
<1>6. QED
  BY <1>4, <1>5 DEF InsertMult

LEMMA InsertCopyKeeps ==
  ASSUME IInv, InsertCopy
  PROVE  IInv'
<1>0. /\ mpc = "copy" /\ mpc' = "advance"
      /\ UNCHANGED <<rx, threint, sendVars, cntVars, ch, readVars, thr, lineVars>>
      /\ TypeTx /\ TypeMain /\ Bounded(tx) /\ InsertInv /\ SendInv
  BY RingType, Sizes DEF InsertCopy, IInv, TxInv, TypeTx
<1>1. RxInv' /\ TypeMain'
  BY <1>0, RxFrame DEF IInv, TypeMain, Points, Sending, cntVars, readVars, lineVars, Starting
<1>2. /\ cnt1 \in 0 .. Count /\ cnt2 \in 0 .. Count /\ base \in Nat /\ ret \in Nat /\ bytes \in Nat
      /\ Filled(tx) + cnt1 + cnt2 <= Count /\ ret + cnt1 + cnt2 <= bytes
      /\ Index(tx.head) + cnt1 <= Count /\ Filled(tx) \in 0 .. Count
      /\ base + bytes <= MaxTx /\ sent = base + ret
  BY <1>0, Sizes DEF InsertInv, SendInv, Sending, TypeMain, TypeTx, RingOK
<1>3. PICK first \in Nat : first = base + ret + 1
  BY <1>2
<1>4. tx' = [tx EXCEPT !.data = Written(tx.data, Index(tx.head), first, cnt1)]
  BY <1>3 DEF InsertCopy
<1>5. /\ tx'.head = tx.head /\ tx'.tail = tx.tail /\ Filled(tx') = Filled(tx)
      /\ Kept(tx, tx')
      /\ \A k \in 1 .. cnt1 : tx'.data[Index(tx.head) + k - 1] = first + k - 1
  <2>1. Filled(tx) + cnt1 <= Count
    BY <1>2, Sizes
  <2>2. QED
    BY <1>0, <1>2, <1>4, <2>1, WriteKeeps
<1>6. RingOK(tx, MaxTx)'
  <2>1. tx \in [data : [Cells -> 0 .. MaxTx], head : 0 .. Word - 1, tail : 0 .. Word - 1]
    BY <1>0 DEF TypeTx, RingOK
  <2>2. ASSUME NEW i \in Index(tx.head) .. Index(tx.head) + cnt1 - 1
        PROVE  first + i - Index(tx.head) \in 0 .. MaxTx
    <3>1. Index(tx.head) \in Nat
      BY <2>1, IndexType, Sizes DEF Cells
    <3>2. QED
      BY <1>2, <1>3, <3>1, Sizes
  <2>3. Written(tx.data, Index(tx.head), first, cnt1) \in [Cells -> 0 .. MaxTx]
    BY <2>1, <2>2 DEF Written
  <2>4. tx' \in [data : [Cells -> 0 .. MaxTx], head : 0 .. Word - 1, tail : 0 .. Word - 1]
    BY <1>4, <2>1, <2>3
  <2>5. QED
    BY <1>2, <1>5, <2>4 DEF RingOK
<1>7. TypeTx' /\ SendInv' /\ EnableInv' /\ PopInv'
  BY <1>0, <1>6 DEF TypeTx, sendVars, lineVars, SendInv, Sending, EnableInv, PopInv
<1>8. InsertInv'
  BY <1>0, <1>5 DEF InsertInv, sendVars, cntVars
<1>9. CopiedInv'
  <2>1. ASSUME NEW k \in 1 .. cnt1 PROVE tx'.data[Index(tx.head) + k - 1] = sent + k
    <3>1. first + k - 1 = sent + k
      BY <1>2, <1>3
    <3>2. QED
      BY <1>5, <3>1
  <2>2. QED
    BY <1>0, <1>5, <2>1 DEF CopiedInv, sendVars, cntVars
<1>10. Real(tx)'
  BY <1>5 DEF IInv, TxInv, Real, Kept
<1>11. QED
  BY <1>1, <1>7, <1>8, <1>9, <1>10 DEF IInv, TxInv

LEMMA InsertAdvanceKeeps ==
  ASSUME IInv, InsertAdvance
  PROVE  IInv'
<1>0. /\ mpc = "advance" /\ mpc' \in {"copy", "txloop", "enable"}
      /\ mpc' = "copy" <=> cnt2 > 0
      /\ UNCHANGED <<rx, threint, bytes, part, base, ch, readVars, thr, lineVars>>
      /\ TypeTx /\ TypeMain /\ Bounded(tx) /\ InsertInv /\ SendInv /\ CopiedInv /\ Real(tx)
  BY RingType, Sizes DEF InsertAdvance, InsertDone, IInv, TxInv, TypeTx
<1>1. RxInv'
  BY <1>0, RxFrame DEF IInv, readVars, lineVars, Starting
<1>2. /\ cnt1 \in 0 .. Count /\ cnt2 \in 0 .. Count /\ base \in Nat /\ ret \in Nat /\ bytes \in Nat
      /\ Filled(tx) + cnt1 + cnt2 <= Count /\ ret + cnt1 + cnt2 <= bytes
      /\ ret + cnt1 + cnt2 < bytes => Filled(tx) + cnt1 + cnt2 = Count
      /\ Index(tx.head) + cnt1 <= Count /\ Filled(tx) \in 0 .. Count
      /\ cnt2 > 0 => Index(tx.head) + cnt1 = Count
      /\ base + bytes <= MaxTx /\ sent = base + ret /\ sent \in Nat
      /\ tx.head \in 0 .. Word - 1 /\ tx.tail \in 0 .. Word - 1
  BY <1>0, Sizes DEF InsertInv, SendInv, Sending, TypeMain, TypeTx, RingOK
<1>3. /\ tx' = [tx EXCEPT !.head = Plus(tx.head, cnt1)]
      /\ ret' = ret + cnt1 /\ sent' = sent + cnt1 /\ cnt1' = cnt2 /\ cnt2' = 0
  BY DEF InsertAdvance
<1>4. tx'.data = tx.data /\ tx'.tail = tx.tail /\ tx'.head = Plus(tx.head, cnt1)
  BY <1>0, <1>3 DEF TypeTx, RingOK
<1>5. Filled(tx) + cnt1 <= Count /\ cnt1 <= Count - Filled(tx)
  BY <1>2, Sizes
<1>6. tx'.head \in 0 .. Word - 1 /\ Filled(tx') = Filled(tx) + cnt1
  BY <1>0, <1>2, <1>4, <1>5, FilledInsert
<1>7. TypeTx'
  <2>1. RingOK(tx, MaxTx)'
    <3>1. tx' \in [data : [Cells -> 0 .. MaxTx], head : 0 .. Word - 1, tail : 0 .. Word - 1]
      BY <1>0, <1>3, <1>4, <1>6 DEF TypeTx, RingOK
    <3>2. Filled(tx') \in 0 .. Count
      BY <1>2, <1>5, <1>6, Sizes
    <3>3. QED
      BY <3>1, <3>2 DEF RingOK
  <2>2. ret' \in 0 .. bytes' /\ sent' \in 0 .. MaxTx
    BY <1>0, <1>2, <1>3, Sizes
  <2>3. QED
    BY <1>0, <2>1, <2>2 DEF TypeTx, lineVars
<1>8. SendInv'
  BY <1>0, <1>2, <1>3 DEF SendInv, Sending
<1>9. InsertInv'
  <2>1. CASE cnt2 > 0
    <3>1. Index(tx'.head) = 0
      <4>1. cnt2 \in 1 .. Count /\ cnt1 + cnt2 <= Count /\ Index(tx.head) + cnt1 = Count
        BY <1>2, <2>1, Sizes
      <4>2. QED
        BY <1>2, <1>4, <4>1, NextSegment
    <3>2. /\ Filled(tx') + cnt1' + cnt2' <= Count /\ ret' + cnt1' + cnt2' <= bytes'
          /\ ret' + cnt1' + cnt2' < bytes' => Filled(tx') + cnt1' + cnt2' = Count
          /\ Index(tx'.head) + cnt1' <= Count
      BY <1>0, <1>2, <1>3, <1>6, <3>1, Sizes
    <3>3. QED
      BY <1>3, <3>2 DEF InsertInv
  <2>2. CASE ~(cnt2 > 0)
    BY <1>0, <2>2 DEF InsertInv
  <2>3. QED
    BY <2>1, <2>2
<1>10. CopiedInv' /\ PopInv'
  BY <1>0 DEF CopiedInv, PopInv
<1>11. EnableInv'
  <2>1. SUFFICES ASSUME mpc' = "enable", ret' < bytes' PROVE Filled(tx') = Count
    BY DEF EnableInv
  <2>2. cnt2 = 0
    BY <1>0, <1>2, <2>1, Sizes
  <2>3. QED
    BY <1>0, <1>2, <1>3, <1>6, <2>1, <2>2, Sizes
<1>12. Real(tx)'
  <2>1. Kept(tx, tx') /\ Added(tx, tx', cnt1, sent)
    BY <1>0, <1>2, <1>4, <1>5, AdvanceAdds DEF CopiedInv
  <2>2. ASSUME NEW k \in 1 .. Filled(tx') PROVE Item(tx', k) >= 1
    <3>1. CASE k <= Filled(tx)
      BY <1>0, <1>2, <2>1, <3>1 DEF Kept, Real
    <3>2. CASE k > Filled(tx)
      <4>1. PICK j \in 1 .. cnt1 : k = Filled(tx) + j
        <5>1. k - Filled(tx) \in 1 .. cnt1 /\ k = Filled(tx) + (k - Filled(tx))
          BY <1>2, <1>6, <3>2, Sizes
        <5>2. QED
          BY <5>1
      <4>2. Item(tx', k) = sent + j
        BY <2>1, <4>1 DEF Added
      <4>3. QED
        BY <1>2, <4>1, <4>2, Sizes
    <3>3. QED
      BY <1>2, <1>6, <3>1, <3>2, Sizes
  <2>3. QED
    BY <2>2 DEF Real
<1>13. TypeMain'
  BY <1>0, <1>2, <1>3, Sizes DEF TypeMain, Points, Sending
<1>14. QED
  BY <1>1, <1>7, <1>8, <1>9, <1>10, <1>11, <1>12, <1>13 DEF IInv, TxInv

(* The transmit loop of main, and the end of uartSend().                   *)
LEMMA TxLoopKeeps ==
  ASSUME IInv, TxLoop
  PROVE  IInv'
<1>0. /\ mpc = "txloop" /\ mpc' \in {"pop", "txempty"}
      /\ UNCHANGED <<tx, rx, threint, sendVars, cntVars, readVars, thr, lineVars>>
      /\ TypeTx /\ Bounded(tx) /\ Real(tx)
  BY RingType, Sizes DEF TxLoop, IInv, TxInv, TypeTx
<1>1. RxInv' /\ TypeMain'
  BY <1>0, RxFrame DEF IInv, TypeMain, Points, Sending, cntVars, readVars, lineVars, Starting
<1>2. SendInv' /\ InsertInv' /\ CopiedInv' /\ EnableInv' /\ Real(tx)'
  BY <1>0 DEF IInv, TxInv, sendVars, SendInv, Sending, InsertInv, CopiedInv, EnableInv, Real, Item
<1>3. CASE thr = 0 /\ ~IsEmpty(tx) /\ ch' = Front(tx) /\ mpc' = "pop"
  <2>1. Filled(tx) \in 0 .. Count /\ Filled(tx) # 0 /\ tx.tail \in Nat
    BY <1>0, <1>3, EmptyIs, Sizes DEF Bounded, Rings
  <2>2. Front(tx) = Item(tx, 1) /\ Front(tx) >= 1 /\ Front(tx) \in 0 .. MaxTx
    <3>1. tx.tail + 1 - 1 = tx.tail /\ 1 \in 1 .. Filled(tx) /\ Index(tx.tail) \in Cells
      BY <2>1, IndexType, Sizes
    <3>2. QED
      BY <1>0, <3>1 DEF Front, Item, Real, TypeTx, RingOK
  <2>3. TypeTx' /\ PopInv'
    BY <1>0, <1>3, <2>1, <2>2, Sizes DEF TypeTx, PopInv, sendVars, lineVars, Item
  <2>4. QED
    BY <1>1, <1>2, <2>3 DEF IInv, TxInv
<1>4. CASE mpc' = "txempty" /\ UNCHANGED ch
  <2>1. TypeTx' /\ PopInv'
    BY <1>0, <1>4 DEF TypeTx, PopInv, sendVars, lineVars
  <2>2. QED
    BY <1>1, <1>2, <2>1 DEF IInv, TxInv
<1>5. QED
  BY <1>3, <1>4 DEF TxLoop

(* A byte taken out of a ring leaves the rest of the content.              *)
LEMMA PopKeeps ==
  ASSUME NEW r, NEW max \in Nat, RingOK(r, max), Real(r), Filled(r) > 0
  PROVE  RingOK(Pop(r), max) /\ Real(Pop(r)) /\ Filled(Pop(r)) = Filled(r) - 1
<1>1. Bounded(r) /\ Filled(r) \in 1 .. Count /\ r.tail \in 0 .. Word - 1
  BY RingType, Sizes DEF RingOK
<1>2. Pop(r).head = r.head /\ Pop(r).data = r.data /\ Pop(r).tail = Plus(r.tail, 1)
  BY DEF Pop, RingOK
<1>3. 1 \in 0 .. Count /\ 1 <= Filled(r)
  BY <1>1, Sizes
<1>4. Pop(r).tail \in 0 .. Word - 1 /\ Filled(Pop(r)) = Filled(r) - 1
  BY <1>1, <1>2, <1>3, FilledPop
<1>5. RingOK(Pop(r), max)
  <2>1. Pop(r) \in [data : [Cells -> 0 .. max], head : 0 .. Word - 1, tail : 0 .. Word - 1]
    BY <1>2, <1>4 DEF RingOK, Pop
  <2>2. Filled(Pop(r)) \in 0 .. Count
    BY <1>1, <1>4, Sizes
  <2>3. QED
    BY <2>1, <2>2 DEF RingOK
<1>6. \A k \in 1 .. Filled(Pop(r)) : Item(Pop(r), k) = Item(r, 1 + k)
  BY <1>1, <1>2, <1>3, <1>4, <1>5, RingType, ContentGet
<1>7. Real(Pop(r))
  <2>1. ASSUME NEW k \in 1 .. Filled(Pop(r)) PROVE Item(Pop(r), k) >= 1
    <3>1. 1 + k \in 1 .. Filled(r)
      BY <1>1, <1>4, Sizes
    <3>2. QED
      BY <1>6, <3>1 DEF Real
  <2>2. QED
    BY <2>1 DEF Real
<1>8. QED
  BY <1>4, <1>5, <1>7

LEMMA TxPopKeeps ==
  ASSUME IInv, TxPop
  PROVE  IInv'
<1>0. /\ mpc = "pop" /\ mpc' = "byte" /\ tx' = Pop(tx)
      /\ UNCHANGED <<rx, threint, sendVars, cntVars, ch, readVars, thr, lineVars>>
      /\ TypeTx /\ PopInv /\ SendInv /\ Real(tx) /\ Filled(tx) > 0
  BY DEF TxPop, IInv, TxInv, PopInv
<1>1. RxInv' /\ TypeMain'
  BY <1>0, RxFrame DEF IInv, TypeMain, Points, Sending, cntVars, readVars, lineVars, Starting
<1>2. RingOK(tx', MaxTx) /\ Real(tx')
  BY <1>0, PopKeeps, Sizes DEF TypeTx
<1>3. TypeTx' /\ Real(tx)'
  <2>1. RingOK(tx, MaxTx)' /\ Real(tx)'
    BY <1>2 DEF RingOK, Real, Item, Filled
  <2>2. QED
    BY <1>0, <2>1 DEF TypeTx, sendVars, lineVars
<1>4. SendInv' /\ InsertInv' /\ CopiedInv' /\ EnableInv' /\ PopInv'
  BY <1>0 DEF sendVars, SendInv, Sending, InsertInv, CopiedInv, EnableInv, PopInv
<1>5. QED
  BY <1>1, <1>3, <1>4 DEF IInv, TxInv

LEMMA TxByteKeeps ==
  ASSUME IInv, TxByte
  PROVE  IInv'
<1>0. /\ mpc = "byte" /\ mpc' = "txloop" /\ thr' = ch /\ ch' = 0
      /\ UNCHANGED <<tx, rx, threint, sendVars, cntVars, readVars, lineVars>>
      /\ TypeTx /\ SendInv /\ Real(tx)
  BY DEF TxByte, IInv, TxInv
<1>1. RxInv' /\ TypeMain'
  BY <1>0, RxFrame DEF IInv, TypeMain, Points, Sending, cntVars, readVars, lineVars, Starting
<1>2. TypeTx' /\ Real(tx)'
  BY <1>0, Sizes DEF TypeTx, Real, Item, sendVars, lineVars
<1>3. SendInv' /\ InsertInv' /\ CopiedInv' /\ EnableInv' /\ PopInv'
  BY <1>0 DEF sendVars, SendInv, Sending, InsertInv, CopiedInv, EnableInv, PopInv
<1>4. QED
  BY <1>1, <1>2, <1>3 DEF IInv, TxInv

LEMMA TxEmptyKeeps ==
  ASSUME IInv, TxEmpty
  PROVE  IInv'
<1>0. /\ mpc = "txempty" /\ mpc' = "insert" /\ threint = FALSE /\ threint' = FALSE /\ part' = 2
      /\ UNCHANGED <<tx, rx, bytes, ret, base, sent, cntVars, ch, readVars, thr, lineVars>>
      /\ TypeTx /\ SendInv /\ Real(tx)
  BY DEF TxEmpty, IInv, TxInv, SendInv, Sending
<1>1. RxInv' /\ TypeMain'
  BY <1>0, RxFrame DEF IInv, TypeMain, Points, Sending, cntVars, readVars, lineVars, Starting
<1>2. TypeTx' /\ Real(tx)'
  BY <1>0 DEF TypeTx, Real, Item, lineVars
<1>3. SendInv' /\ InsertInv' /\ CopiedInv' /\ EnableInv' /\ PopInv'
  BY <1>0 DEF SendInv, Sending, InsertInv, CopiedInv, EnableInv, PopInv
<1>4. QED
  BY <1>1, <1>2, <1>3 DEF IInv, TxInv

LEMMA EnableKeeps ==
  ASSUME IInv, Enable
  PROVE  IInv'
<1>0. /\ mpc = "enable" /\ mpc' = "idle" /\ threint' = TRUE
      /\ bytes' = 0 /\ ret' = 0 /\ part' = 1 /\ base' = 0
      /\ UNCHANGED <<tx, rx, sent, cntVars, ch, readVars, thr, lineVars>>
      /\ TypeTx /\ Real(tx)
  BY DEF Enable, IInv, TxInv
<1>1. RxInv' /\ TypeMain'
  BY <1>0, RxFrame DEF IInv, TypeMain, Points, Sending, cntVars, readVars, lineVars, Starting
<1>2. TypeTx' /\ Real(tx)'
  BY <1>0, Sizes DEF TypeTx, Real, Item, lineVars
<1>3. SendInv' /\ InsertInv' /\ CopiedInv' /\ EnableInv' /\ PopInv'
  BY <1>0 DEF SendInv, Sending, InsertInv, CopiedInv, EnableInv, PopInv
<1>4. QED
  BY <1>1, <1>2, <1>3 DEF IInv, TxInv

(* uartRecv().                                                             *)
LEMMA ReadRBKeeps ==
  ASSUME IInv, NEW n \in 1 .. MaxCall, ReadRB(n)
  PROVE  IInv'
<1>0. /\ mpc = "idle" /\ mpc' = "readcopy" /\ ~IsEmpty(rx)
      /\ UNCHANGED <<tx, rx, threint, sendVars, ch, readVars, thr, lineVars>>
      /\ TypeRx /\ Bounded(rx) /\ RealRx /\ RbrInv /\ DestInv
  BY RingType, Sizes DEF ReadRB, IInv, RxInv, TypeRx
<1>1. TxInv'
  BY <1>0, TxFrame DEF IInv, sendVars, lineVars, Sending
<1>2. /\ Index(rx.tail) \in Cells /\ Filled(rx) \in 0 .. Count /\ Filled(rx) > 0
      /\ n \in Nat /\ n > 0
  <2>1. rx.tail \in Nat /\ Filled(rx) \in 0 .. Count /\ Filled(rx) # 0
    BY <1>0, EmptyIs, Sizes DEF Bounded, Rings
  <2>2. QED
    BY <2>1, IndexType, Sizes
<1>3. /\ cnt1' = Segment1(Index(rx.tail), Filled(rx), n)
      /\ cnt2' = Segment2(Index(rx.tail), Filled(rx), n)
  BY DEF ReadRB
<1>4. /\ cnt1' \in 0 .. Count /\ cnt2' \in 0 .. Count /\ cnt1' > 0
      /\ cnt1' + cnt2' <= Filled(rx)
      /\ Index(rx.tail) + cnt1' <= Count
      /\ cnt2' > 0 => Index(rx.tail) + cnt1' = Count
  BY <1>2, <1>3, Segments
<1>5. TypeMain'
  BY <1>0, <1>4 DEF TypeMain, Points
<1>6. TypeRx' /\ RbrInv' /\ RealRx' /\ DestInv'
  BY <1>0 DEF TypeRx, RbrInv, RealRx, Real, Item, Starting, DestInv, readVars, lineVars
<1>7. ReadInv'
  <2>1. cnt1' >= 1
    BY <1>4, Sizes
  <2>2. QED
    BY <1>0, <1>4, <2>1 DEF ReadInv
<1>8. QED
  BY <1>1, <1>5, <1>6, <1>7 DEF IInv, RxInv

LEMMA ReadCopyKeeps ==
  ASSUME IInv, ReadCopy
  PROVE  IInv'
<1>0. /\ mpc = "readcopy" /\ mpc' = "readadvance"
      /\ dest' = [k \in 1 .. cnt1 |-> rx.data[Index(rx.tail) + k - 1]]
      /\ UNCHANGED <<tx, rx, threint, sendVars, cntVars, ch, received, thr, lineVars>>
      /\ TypeRx /\ TypeMain /\ Bounded(rx) /\ RealRx /\ RbrInv /\ ReadInv
  BY RingType, Sizes DEF ReadCopy, IInv, RxInv, TypeRx
<1>1. TxInv' /\ TypeMain'
  BY <1>0, TxFrame DEF IInv, sendVars, lineVars, cntVars, Sending, TypeMain, Points
<1>2. /\ cnt1 \in 1 .. Count /\ cnt1 <= Filled(rx) /\ Filled(rx) \in 0 .. Count
      /\ Index(rx.tail) + cnt1 <= Count
      /\ rx.tail \in Nat /\ Index(rx.tail) \in 0 .. Count - 1 /\ Real(rx)
  <2>1. rx.tail \in Nat /\ Filled(rx) \in 0 .. Count /\ Real(rx)
    BY <1>0, Sizes DEF Bounded, Rings, RealRx, Starting
  <2>2. cnt1 \in 0 .. Count /\ cnt2 \in Nat /\ cnt1 >= 1 /\ cnt1 + cnt2 <= Filled(rx)
    BY <1>0, Sizes DEF TypeMain, ReadInv
  <2>3. cnt1 \in 1 .. Count /\ cnt1 <= Filled(rx)
    BY <2>1, <2>2, Sizes
  <2>4. Index(rx.tail) \in 0 .. Count - 1
    BY <2>1, IndexType DEF Cells
  <2>5. Index(rx.tail) + cnt1 <= Count
    BY <1>0 DEF ReadInv
  <2>6. QED
    BY <2>1, <2>3, <2>4, <2>5
<1>3. ASSUME NEW k \in 1 .. cnt1
      PROVE  rx.data[Index(rx.tail) + k - 1] = Item(rx, k) /\ Item(rx, k) \in 1 .. MaxRx
  <2>1. PICK j \in 0 .. Count - 1 : j = k - 1 /\ Index(rx.tail) + j < Count
    BY <1>2, Sizes
  <2>2. Index(rx.tail + j) = Index(rx.tail) + j
    BY <1>2, <2>1, IndexNear
  <2>3. rx.tail + k - 1 = rx.tail + j /\ Index(rx.tail) + k - 1 = Index(rx.tail) + j
        /\ Index(rx.tail) + j \in Cells
    BY <1>2, <2>1, Sizes DEF Cells
  <2>4. Item(rx, k) >= 1
    BY <1>2, Sizes DEF Real
  <2>5. Item(rx, k) \in 0 .. MaxRx
    BY <1>0, <2>2, <2>3 DEF Item, TypeRx, RingOK
  <2>6. QED
    BY <2>2, <2>3, <2>4, <2>5, Sizes DEF Item
<1>4. dest' = [k \in 1 .. cnt1 |-> Item(rx, k)] /\ dest' \in Seq(1 .. MaxRx)
  <2>1. dest' = [k \in 1 .. cnt1 |-> Item(rx, k)]
    BY <1>0, <1>3
  <2>2. cnt1 \in Nat
    BY <1>2, Sizes
  <2>3. QED
    BY <1>3, <2>1, <2>2
<1>5. TypeRx'
  BY <1>0, <1>4 DEF TypeRx, lineVars
<1>6. RbrInv' /\ RealRx' /\ DestInv' /\ ReadInv'
  BY <1>0, <1>4 DEF RbrInv, RealRx, Real, Item, Starting, DestInv, ReadInv, lineVars, cntVars
<1>7. QED
  BY <1>1, <1>5, <1>6 DEF IInv, RxInv

LEMMA ReadAdvanceKeeps ==
  ASSUME IInv, ReadAdvance
  PROVE  IInv'
<1>0. /\ mpc = "readadvance" /\ mpc' \in {"readcopy", "idle"}
      /\ mpc' = "readcopy" <=> cnt2 > 0
      /\ UNCHANGED <<tx, threint, sendVars, ch, thr, lineVars>>
      /\ TypeRx /\ TypeMain /\ Bounded(rx) /\ RealRx /\ RbrInv /\ ReadInv
  BY RingType, Sizes DEF ReadAdvance, IInv, RxInv, TypeRx
<1>1. TxInv'
  BY <1>0, TxFrame DEF IInv, sendVars, lineVars, Sending
<1>2. /\ rx' = [rx EXCEPT !.tail = Plus(rx.tail, cnt1)]
      /\ cnt1' = cnt2 /\ cnt2' = 0 /\ dest' = << >> /\ received' = received \o dest
  BY DEF ReadAdvance
<1>3. /\ cnt1 \in 1 .. Count /\ cnt2 \in 0 .. Count /\ Filled(rx) \in 0 .. Count
      /\ cnt1 + cnt2 <= Filled(rx) /\ rx.tail \in 0 .. Word - 1
      /\ cnt2 > 0 => Index(rx.tail) + cnt1 = Count
  BY <1>0, Sizes DEF TypeMain, ReadInv, Bounded, Rings
<1>4. rx'.head = rx.head /\ rx'.data = rx.data /\ rx'.tail = Plus(rx.tail, cnt1)
  BY <1>0, <1>2 DEF TypeRx, RingOK
<1>5. cnt1 \in 0 .. Count /\ cnt1 <= Filled(rx)
  BY <1>3, Sizes
<1>6. rx'.tail \in 0 .. Word - 1 /\ Filled(rx') = Filled(rx) - cnt1
  BY <1>0, <1>4, <1>5, FilledPop
<1>7. RingOK(rx', MaxRx)
  <2>1. rx' \in [data : [Cells -> 0 .. MaxRx], head : 0 .. Word - 1, tail : 0 .. Word - 1]
    BY <1>0, <1>2, <1>4, <1>6 DEF TypeRx, RingOK
  <2>2. Filled(rx') \in 0 .. Count
    BY <1>3, <1>5, <1>6, Sizes
  <2>3. QED
    BY <2>1, <2>2 DEF RingOK
<1>8. TypeRx'
  <2>1. received' \in Seq(1 .. MaxRx) /\ dest' \in Seq(1 .. MaxRx)
    BY <1>0, <1>2 DEF TypeRx
  <2>2. QED
    BY <1>0, <1>7, <2>1 DEF TypeRx, RingOK, Filled, lineVars
<1>9. Real(rx')
  <2>1. Bounded(rx')
    BY <1>7, RingType, Sizes
  <2>2. \A k \in 1 .. Filled(rx') : Item(rx', k) = Item(rx, cnt1 + k)
    BY <1>0, <1>4, <1>5, <1>6, <2>1, ContentGet
  <2>3. ASSUME NEW k \in 1 .. Filled(rx') PROVE Item(rx', k) >= 1
    <3>1. cnt1 + k \in 1 .. Filled(rx)
      BY <1>3, <1>6, Sizes
    <3>2. QED
      BY <1>0, <2>2, <3>1 DEF RealRx, Real, Starting
  <2>4. QED
    BY <2>3 DEF Real
<1>10. RealRx' /\ RbrInv' /\ DestInv'
  BY <1>0, <1>2, <1>9 DEF RealRx, Real, RbrInv, DestInv, lineVars
<1>11. ReadInv'
  <2>1. SUFFICES ASSUME cnt2 > 0
        PROVE /\ cnt1' + cnt2' <= Filled(rx') /\ cnt1' >= 1
              /\ Index(rx'.tail) + cnt1' <= Count
              /\ cnt2' > 0 => Index(rx'.tail) + cnt1' = Count
    BY <1>0 DEF ReadInv
  <2>2. cnt2 \in 1 .. Count /\ cnt1 + cnt2 <= Count /\ Index(rx.tail) + cnt1 = Count
    BY <1>3, <2>1, Sizes
  <2>3. Index(rx'.tail) = 0
    BY <1>3, <1>4, <1>5, <2>2, NextSegment
  <2>4. QED
    BY <1>2, <1>3, <1>6, <2>2, <2>3, Sizes
<1>12. TypeMain'
  BY <1>0, <1>2, <1>3, Sizes DEF TypeMain, Points
<1>13. QED
  BY <1>1, <1>8, <1>10, <1>11, <1>12 DEF IInv, RxInv

(* The interrupt handler and the port.                                     *)

LEMMA InsertKeeps ==
  ASSUME NEW r, NEW max \in Nat, RingOK(r, max), Filled(r) < Count,
         NEW size, NEW byte \in 1 .. max
  PROVE  /\ RingOK(Insert(r, size, byte), max)
         /\ Filled(Insert(r, size, byte)) = Filled(r) + 1
         /\ Insert(r, size, byte).tail = r.tail
         /\ size # 0 => Kept(r, Insert(r, size, byte)) /\ Added(r, Insert(r, size, byte), 1, byte - 1)
<1> DEFINE s == Insert(r, size, byte)
<1>1. /\ Bounded(r) /\ Filled(r) \in 0 .. Count - 1 /\ r.head \in 0 .. Word - 1
      /\ Index(r.head) \in Cells
  BY RingType, IndexType, Sizes DEF RingOK
<1>2. /\ s.head = Plus(r.head, 1) /\ s.tail = r.tail
      /\ s.data = IF size = 0 THEN r.data ELSE [r.data EXCEPT ![Index(r.head)] = byte]
  BY DEF Insert
<1>3. /\ 1 \in 0 .. Count /\ 1 <= Count - Filled(r) /\ Filled(r) + 1 <= Count
      /\ Index(r.head) + 1 <= Count /\ byte \in Nat /\ byte - 1 \in Nat
  BY <1>1, Sizes DEF Cells
<1>4. s.head \in 0 .. Word - 1 /\ Filled(s) = Filled(r) + 1
  BY <1>1, <1>2, <1>3, FilledInsert
<1>5. RingOK(s, max)
  <2>1. s.data \in [Cells -> 0 .. max]
    BY <1>1, <1>2 DEF RingOK
  <2>2. s \in [data : [Cells -> 0 .. max], head : 0 .. Word - 1, tail : 0 .. Word - 1]
    BY <1>2, <1>4, <2>1 DEF RingOK, Insert
  <2>3. Filled(s) \in 0 .. Count
    BY <1>1, <1>4, Sizes
  <2>4. QED
    BY <2>2, <2>3 DEF RingOK
<1>6. ASSUME size # 0 PROVE Kept(r, s) /\ Added(r, s, 1, byte - 1)
  <2>1. PICK w : w = [r EXCEPT !.data = Written(r.data, Index(r.head), byte, 1)]
    OBVIOUS
  <2>2. /\ w.head = r.head /\ w.tail = r.tail /\ Filled(w) = Filled(r)
        /\ Kept(r, w)
        /\ \A k \in 1 .. 1 : w.data[Index(r.head) + k - 1] = byte + k - 1
    <3>1. PICK n \in 0 .. Count : n = 1
      BY <1>3
    <3>2. w = [r EXCEPT !.data = Written(r.data, Index(r.head), byte, n)]
      BY <2>1, <3>1
    <3>3. Filled(r) + n <= Count /\ Index(r.head) + n <= Count
      BY <1>3, <3>1
    <3>4. /\ w.head = r.head /\ w.tail = r.tail /\ Filled(w) = Filled(r)
          /\ Kept(r, w)
          /\ \A k \in 1 .. n : w.data[Index(r.head) + k - 1] = byte + k - 1
      BY <1>1, <1>3, <3>2, <3>3, WriteKeeps
    <3>5. QED
      BY <3>1, <3>4
  <2>3. w.data = s.data
    <3>1. Written(r.data, Index(r.head), byte, 1) = [r.data EXCEPT ![Index(r.head)] = byte]
      <4>1. \A i \in Cells : i \in Index(r.head) .. Index(r.head) + 1 - 1 <=> i = Index(r.head)
        BY <1>1, Sizes DEF Cells
      <4>2. byte + Index(r.head) - Index(r.head) = byte
        BY <1>1, <1>3, Sizes DEF Cells
      <4>3. r.data \in [Cells -> 0 .. max]
        BY DEF RingOK
      <4>4. QED
        BY <1>1, <4>1, <4>2, <4>3 DEF Written
    <3>2. QED
      BY <1>2, <1>6, <2>1, <3>1 DEF RingOK
  <2>4. Bounded(w)
    <3>1. s.data \in [Cells -> 0 .. max] /\ w.data = s.data
      BY <1>5, <2>3 DEF RingOK
    <3>2. w \in [data : [Cells -> 0 .. max], head : 0 .. Word - 1, tail : 0 .. Word - 1]
      BY <2>1, <3>1 DEF RingOK
    <3>3. RingOK(w, max)
      BY <2>2, <3>2 DEF RingOK
    <3>4. QED
      BY <3>3, RingType
  <2>5. \A k \in 1 .. 1 : w.data[Index(w.head) + k - 1] = (byte - 1) + k
    BY <1>3, <2>2
  <2>6. Kept(w, s) /\ Added(w, s, 1, byte - 1)
    BY <1>2, <1>3, <2>2, <2>3, <2>4, <2>5, AdvanceAdds
  <2>7. QED
    BY <2>2, <2>6 DEF Kept, Added
<1>7. QED
  BY <1>2, <1>4, <1>5, <1>6

LEMMA TransmitterKeeps ==
  ASSUME IInv, UART_IRQHandler
  PROVE  TxInv'
<1>0. UNCHANGED <<mpc, sendVars, cntVars, ch, wire>> /\ Transmitter
      /\ TypeTx /\ Bounded(tx) /\ Real(tx)
  BY RingType, Sizes DEF UART_IRQHandler, IInv, TxInv, TypeTx
<1>1. CASE ~threint /\ UNCHANGED <<tx, thr, threint>>
  BY <1>0, <1>1, TxFrame DEF IInv, sendVars
<1>2. CASE threint /\ threint' = ~IsEmpty(tx') /\ UNCHANGED <<tx, thr>>
  <2>1. mpc \notin Sending
    BY <1>2 DEF IInv, TxInv, SendInv
  <2>2. TypeTx' /\ Real(tx)'
    BY <1>0, <1>2 DEF TypeTx, Real, Item, sendVars, IsEmpty
  <2>3. SendInv' /\ InsertInv' /\ CopiedInv' /\ EnableInv' /\ PopInv'
    BY <1>0, <2>1 DEF SendInv, Sending, InsertInv, CopiedInv, EnableInv, PopInv
  <2>4. QED
    BY <2>2, <2>3 DEF TxInv
<1>3. CASE /\ threint /\ threint' = ~IsEmpty(tx')
           /\ ~IsEmpty(tx) /\ thr' = Front(tx) /\ tx' = Pop(tx)
  <2>1. mpc \notin Sending
    BY <1>3 DEF IInv, TxInv, SendInv
  <2>2. Filled(tx) > 0
    BY <1>0, <1>3, EmptyIs, Sizes DEF Bounded
  <2>3. RingOK(tx', MaxTx) /\ Real(tx')
    BY <1>0, <1>3, <2>2, PopKeeps, Sizes DEF TypeTx
  <2>4. Front(tx) \in 0 .. MaxTx
    <3>1. Index(tx.tail) \in Cells
      BY <1>0, IndexType, Sizes DEF Bounded, Rings
    <3>2. QED
      BY <1>0, <3>1 DEF Front, TypeTx, RingOK
  <2>5. TypeTx' /\ Real(tx)'
    BY <1>0, <1>3, <2>3, <2>4 DEF TypeTx, Real, Item, Filled, RingOK, sendVars, IsEmpty
  <2>6. SendInv' /\ InsertInv' /\ CopiedInv' /\ EnableInv' /\ PopInv'
    BY <1>0, <2>1 DEF SendInv, Sending, InsertInv, CopiedInv, EnableInv, PopInv
  <2>7. QED
    BY <2>5, <2>6 DEF TxInv
<1>4. QED
  BY <1>0, <1>1, <1>2, <1>3 DEF Transmitter

LEMMA ReceiverKeeps ==
  ASSUME IInv, UART_IRQHandler
  PROVE  RxInv'
<1>0. /\ UNCHANGED <<mpc, cntVars, readVars, arrived>> /\ rbr' = 0
      /\ rx' = IF rbr = 0 \/ IsFull(rx, RxCount) THEN rx ELSE Insert(rx, RxItemSz, rbr)
      /\ TypeMain /\ TypeRx /\ Bounded(rx) /\ RealRx /\ ReadInv /\ DestInv
  BY RingType, Sizes DEF UART_IRQHandler, Receiver, IInv, RxInv, TypeRx
<1>1. rbr' \in 0 .. MaxRx /\ RbrInv'
  BY <1>0, Sizes DEF RbrInv
<1>2. CASE rx' = rx
  <2>1. TypeRx'
    BY <1>0, <1>1, <1>2 DEF TypeRx, readVars
  <2>2. RealRx' /\ ReadInv' /\ DestInv'
    BY <1>0, <1>2 DEF RealRx, Real, Item, ReadInv, DestInv, readVars, cntVars
  <2>3. QED
    BY <1>1, <2>1, <2>2 DEF RxInv
<1>3. CASE rbr # 0 /\ ~IsFull(rx, RxCount) /\ rx' = Insert(rx, RxItemSz, rbr)
  <2>1. Filled(rx) \in 0 .. Count /\ Filled(rx) < RxCount /\ RxCount = Count /\ rbr \in 1 .. MaxRx
    BY <1>0, <1>3, Sizes DEF IsFull, RxCount, Bounded, TypeRx
  <2>2. /\ RingOK(rx', MaxRx) /\ Filled(rx') = Filled(rx) + 1 /\ rx'.tail = rx.tail
        /\ RxItemSz # 0 => Kept(rx, rx') /\ Added(rx, rx', 1, rbr - 1)
    BY <1>0, <1>3, <2>1, InsertKeeps, Sizes DEF TypeRx
  <2>3. TypeRx'
    BY <1>0, <1>1, <2>2 DEF TypeRx, RingOK, Filled, readVars
  <2>4. CASE mpc \in Starting
    BY <1>0, <1>1, <2>3, <2>4 DEF Starting, RealRx, ReadInv, DestInv, readVars, RxInv
  <2>5. CASE mpc \notin Starting
    <3>1. RxItemSz # 0 /\ Real(rx)
      BY <1>0, <2>5 DEF RxItemSz, Starting, RealRx
    <3>2. Kept(rx, rx') /\ Added(rx, rx', 1, rbr - 1)
      BY <2>2, <3>1
    <3>3. Real(rx')
      <4>1. ASSUME NEW k \in 1 .. Filled(rx') PROVE Item(rx', k) >= 1
        <5>1. CASE k <= Filled(rx)
          BY <2>1, <2>2, <3>1, <3>2, <5>1 DEF Kept, Real
        <5>2. CASE k > Filled(rx)
          <6>1. k = Filled(rx) + 1 /\ (rbr - 1) + 1 >= 1
            BY <2>1, <2>2, <5>2, Sizes
          <6>2. QED
            BY <3>2, <6>1 DEF Added
        <5>3. QED
          BY <2>1, <5>1, <5>2, Sizes
      <4>2. QED
        BY <4>1 DEF Real
    <3>4. ReadInv'
      <4>1. SUFFICES ASSUME mpc \in {"readcopy", "readadvance"}
            PROVE /\ cnt1 + cnt2 <= Filled(rx') /\ cnt1 >= 1
                  /\ Index(rx'.tail) + cnt1 <= Count
                  /\ cnt2 > 0 => Index(rx'.tail) + cnt1 = Count
        BY <1>0 DEF ReadInv, cntVars
      <4>2. QED
        BY <1>0, <2>1, <2>2, <4>1, Sizes DEF ReadInv, TypeMain
    <3>5. DestInv'
      <4>1. CASE mpc # "readadvance"
        BY <1>0, <4>1 DEF DestInv, readVars
      <4>2. CASE mpc = "readadvance"
        <5>1. cnt1 \in 0 .. Count /\ cnt1 <= Filled(rx)
          BY <1>0, <2>1, <4>2, Sizes DEF ReadInv, TypeMain
        <5>2. \A k \in 1 .. cnt1 : Item(rx', k) = Item(rx, k)
          BY <2>1, <3>2, <5>1, Sizes DEF Kept
        <5>3. dest = [k \in 1 .. cnt1 |-> Item(rx, k)]
          BY <1>0, <4>2 DEF DestInv
        <5>4. dest = [k \in 1 .. cnt1 |-> Item(rx', k)]
          BY <5>2, <5>3
        <5>5. QED
          BY <1>0, <4>2, <5>4 DEF DestInv, readVars, cntVars, Item
      <4>3. QED
        BY <4>1, <4>2
    <3>6. RealRx'
      BY <3>3 DEF RealRx, Real
    <3>7. QED
      BY <1>1, <2>3, <3>4, <3>5, <3>6 DEF RxInv
  <2>6. QED
    BY <2>4, <2>5
<1>4. QED
  BY <1>0, <1>2, <1>3

LEMMA HandlerKeeps ==
  ASSUME IInv, UART_IRQHandler
  PROVE  IInv'
<1>1. TypeMain'
  BY DEF UART_IRQHandler, IInv, TypeMain, cntVars
<1>2. QED
  BY <1>1, TransmitterKeeps, ReceiverKeeps DEF IInv

LEMMA ShiftKeeps ==
  ASSUME IInv, Shift
  PROVE  IInv'
<1>0. /\ thr # 0 /\ wire' = Append(wire, thr) /\ thr' = 0
      /\ UNCHANGED <<tx, rx, threint, mpc, sendVars, cntVars, ch, readVars, rbr, arrived>>
      /\ TypeTx
  BY DEF Shift, IInv, TxInv
<1>1. RxInv' /\ TypeMain'
  BY <1>0, RxFrame DEF IInv, TypeMain, cntVars, readVars
<1>2. TypeTx'
  <2>1. thr \in 1 .. MaxTx /\ wire \in Seq(1 .. MaxTx)
    BY <1>0, Sizes DEF TypeTx
  <2>2. wire' \in Seq(1 .. MaxTx)
    BY <1>0, <2>1
  <2>3. RingOK(tx, MaxTx)' /\ thr' \in 0 .. MaxTx
    BY <1>0, Sizes DEF TypeTx, RingOK, Filled
  <2>4. QED
    BY <1>0, <2>2, <2>3 DEF TypeTx, sendVars
<1>3. SendInv' /\ InsertInv' /\ CopiedInv' /\ EnableInv' /\ Real(tx)'
  BY <1>0 DEF IInv, TxInv, sendVars, cntVars, SendInv, InsertInv, CopiedInv, EnableInv, Real, Item, Filled
<1>4. PopInv'
  BY <1>0 DEF IInv, TxInv, PopInv, Item, Filled
<1>5. QED
  BY <1>1, <1>2, <1>3, <1>4 DEF IInv, TxInv

LEMMA ArriveKeeps ==
  ASSUME IInv, Arrive
  PROVE  IInv'
<1>0. /\ arrived' = arrived + 1 /\ rbr' = arrived + 1 /\ arrived < MaxRx
      /\ UNCHANGED <<tx, rx, threint, mpc, sendVars, cntVars, ch, readVars, thr, wire>>
      /\ TypeRx
  <2>1. arrived \in Nat /\ arrived < MaxRx
    BY Sizes DEF Arrive, IInv, RxInv, TypeRx
  <2>2. QED
    BY <2>1 DEF Arrive, IInv, RxInv
<1>1. TxInv' /\ TypeMain'
  BY <1>0, TxFrame DEF IInv, TypeMain, sendVars, cntVars
<1>2. TypeRx' /\ RbrInv'
  <2>1. arrived' \in 0 .. MaxRx /\ rbr' \in 0 .. MaxRx
    BY <1>0, Sizes DEF TypeRx
  <2>2. RingOK(rx, MaxRx)'
    BY <1>0 DEF TypeRx, RingOK, Filled
  <2>3. QED
    BY <1>0, <2>1, <2>2 DEF TypeRx, RbrInv, readVars
<1>3. RealRx' /\ ReadInv' /\ DestInv'
  BY <1>0 DEF IInv, RxInv, RealRx, Real, Item, Filled, ReadInv, DestInv, readVars, cntVars
<1>4. QED
  BY <1>1, <1>2, <1>3 DEF IInv, RxInv

-----------------------------------------------------------------------------
(* The invariants.                                                         *)

LEMMA InitIInv == Init => IInv
<1> SUFFICES ASSUME Init PROVE IInv
  OBVIOUS
<1>1. /\ NewRing.head = 0 /\ NewRing.tail = 0 /\ NewRing.data = [i \in Cells |-> 0]
      /\ 0 \in 0 .. Word - 1
  BY Sizes DEF NewRing
<1>2. Filled(NewRing) = 0
  BY <1>1, FilledIs, Sizes
<1>3. ASSUME NEW max \in Nat PROVE RingOK(NewRing, max)
  BY <1>1, <1>2, Sizes DEF RingOK, NewRing
<1>4. TypeMain
  BY Sizes DEF Init, TypeMain, Starting
<1>5. TypeTx /\ TypeRx
  <2>1. RingOK(tx, MaxTx) /\ RingOK(rx, MaxRx)
    BY <1>3, Sizes DEF Init
  <2>2. << >> \in Seq(1 .. MaxTx) /\ << >> \in Seq(1 .. MaxRx)
    OBVIOUS
  <2>3. 0 \in 0 .. MaxTx /\ 0 \in 0 .. MaxRx /\ 0 \in 0 .. MaxCall /\ 0 \in 0 .. 0
    BY Sizes
  <2>4. QED
    BY <2>1, <2>2, <2>3 DEF Init, TypeTx, TypeRx
<1>6. SendInv /\ InsertInv /\ CopiedInv /\ EnableInv /\ PopInv /\ ReadInv /\ DestInv
  BY DEF Init, SendInv, Sending, InsertInv, CopiedInv, EnableInv, PopInv, ReadInv, DestInv
<1>7. Real(tx) /\ RealRx /\ RbrInv
  BY <1>2 DEF Init, Real, RealRx, RbrInv
<1>8. QED
  BY <1>4, <1>5, <1>6, <1>7 DEF IInv, TxInv, RxInv

LEMMA StutterKeeps == IInv /\ UNCHANGED vars => IInv'
<1> SUFFICES ASSUME IInv, UNCHANGED vars PROVE IInv'
  OBVIOUS
<1>1. TxInv' /\ RxInv'
  BY TxFrame, RxFrame DEF IInv, vars, cntVars
<1>2. TypeMain'
  BY DEF IInv, TypeMain, vars
<1>3. QED
  BY <1>1, <1>2 DEF IInv

LEMMA NextKeeps == IInv /\ [Next]_vars => IInv'
<1> SUFFICES ASSUME IInv, [Next]_vars PROVE IInv'
  OBVIOUS
<1>1. ASSUME NEW n \in 1 .. MaxCall, SendRB(n) PROVE IInv'
  BY <1>1, SendRBKeeps
<1>2. ASSUME NEW n \in 1 .. MaxCall, ReadRB(n) PROVE IInv'
  BY <1>2, ReadRBKeeps
<1>3. CASE InCall
  BY <1>3, InitRingKeeps, InsertMultKeeps, InsertCopyKeeps, InsertAdvanceKeeps,
     TxLoopKeeps, TxPopKeeps, TxByteKeeps, TxEmptyKeeps, EnableKeeps,
     ReadCopyKeeps, ReadAdvanceKeeps DEF InCall
<1>4. CASE UART_IRQHandler
  BY <1>4, HandlerKeeps
<1>5. CASE Shift \/ Arrive
  BY <1>5, ShiftKeeps, ArriveKeeps
<1>6. CASE UNCHANGED vars
  BY <1>6, StutterKeeps
<1>7. QED
  BY <1>1, <1>2, <1>3, <1>4, <1>5, <1>6 DEF Next

THEOREM Inductive == Spec => []IInv
  BY InitIInv, NextKeeps, PTL DEF Spec

(* The rings, the counters and the registers keep their types: a ring never *)
(* holds more than its size, wherever its counters wrap around.             *)
THEOREM TypeCorrect == Spec => []TypeOK
<1>1. IInv => TypeOK
  BY StartPoints DEF IInv, TypeMain, TxInv, TypeTx, RxInv, TypeRx, TypeOK, Points, Sending
<1>2. QED
  BY <1>1, Inductive, PTL

(* A call of Chip_UART_SendRB() that takes less than it was given leaves the *)
(* ring full.                                                               *)
THEOREM ShortSend == Spec => []ShortSendMeansFull
<1>1. IInv => ShortSendMeansFull
  BY Sizes DEF IInv, TxInv, EnableInv, ShortSendMeansFull, IsFull
<1>2. QED
  BY <1>1, Inductive, PTL

(* No copy of RingBuffer_InsertMult() or RingBuffer_PopMult() leaves the array. *)
THEOREM InTheArray == Spec => []CopiesInArray
<1>1. IInv => CopiesInArray
  BY DEF IInv, TxInv, RxInv, InsertInv, ReadInv, CopiesInArray
<1>2. QED
  BY <1>1, Inductive, PTL

\* Between two calls the interrupt is on as long as the ring holds something.
StrandInv ==
  NoByteStranded /\ (mpc \in Starting => IsEmpty(tx))

(* main turns THREINT off for every call and on at its end, the handler off on *)
(* an empty ring: no byte is left behind with nobody to send it.               *)
THEOREM NothingIsStranded == Spec => []NoByteStranded
<1> USE DEF StrandInv, NoByteStranded
<1>1. Init => StrandInv
  BY DEF Init, NewRing, IsEmpty
<1>2. ASSUME IInv, StrandInv, [Next]_vars PROVE StrandInv'
  <2> USE <1>2
  <2>1. ASSUME mpc' \in Sending PROVE StrandInv'
    BY <2>1 DEF Sending, Starting
  <2>2. CASE Enable
    BY <2>2 DEF Enable, Starting
  <2>3. CASE UART_IRQHandler
    <3>1. UNCHANGED mpc
      BY <2>3 DEF UART_IRQHandler
    <3>2. CASE ~threint
      BY <2>3, <3>1, <3>2 DEF UART_IRQHandler, Transmitter, IsEmpty
    <3>3. CASE threint
      <4>1. threint' = ~IsEmpty(tx)'
        BY <2>3, <3>3 DEF UART_IRQHandler, Transmitter
      <4>2. IsEmpty(tx) => IsEmpty(tx)'
        BY <2>3, <3>3 DEF UART_IRQHandler, Transmitter, IsEmpty
      <4>3. QED
        BY <3>1, <4>1, <4>2 DEF Starting
    <3>4. QED
      BY <3>2, <3>3 DEF IInv, TxInv, TypeTx
  <2>4. CASE InitRing
    <3>1. IsEmpty(tx) /\ UNCHANGED tx
      BY <2>4, StartPoints DEF InitRing, Initialising
    <3>2. QED
      BY <3>1 DEF IsEmpty
  <2>5. ASSUME UNCHANGED <<tx, threint>>, mpc' \notin Starting \/ UNCHANGED mpc,
               mpc' \in {"idle", "readcopy", "readadvance"}
                 => mpc \in {"idle", "readcopy", "readadvance"}
        PROVE  StrandInv'
    BY <2>5 DEF IsEmpty
  <2>6. CASE InCall
    <3>1. CASE InsertMult \/ InsertCopy \/ InsertAdvance \/ TxLoop \/ TxPop \/ TxByte \/ TxEmpty
      <4>1. mpc' \in Sending
        BY <3>1 DEF InsertMult, InsertCopy, InsertAdvance, InsertDone, TxLoop, TxPop,
           TxByte, TxEmpty, Sending
      <4>2. QED
        BY <2>1, <4>1
    <3>2. CASE ReadCopy \/ ReadAdvance
      <4>1. UNCHANGED <<tx, threint>> /\ mpc' \in {"idle", "readcopy", "readadvance"}
            /\ mpc \in {"readcopy", "readadvance"}
        BY <3>2 DEF ReadCopy, ReadAdvance
      <4>2. QED
        BY <2>5, <4>1 DEF Starting
    <3>3. QED
      BY <2>2, <2>4, <2>6, <3>1, <3>2 DEF InCall
  <2>7. ASSUME NEW n \in 1 .. MaxCall, SendRB(n) PROVE StrandInv'
    BY <2>1, <2>7 DEF SendRB, Sending
  <2>8. ASSUME NEW n \in 1 .. MaxCall, ReadRB(n) PROVE StrandInv'
    BY <2>5, <2>8 DEF ReadRB, Starting
  <2>9. CASE Shift \/ Arrive \/ UNCHANGED vars
    BY <2>5, <2>9 DEF Shift, Arrive, vars
  <2>10. QED
    BY <2>3, <2>6, <2>7, <2>8, <2>9 DEF Next
<1>3. QED
  BY <1>1, <1>2, Inductive, PTL DEF Spec

-----------------------------------------------------------------------------
(* The rings implement ByteQueue.                                          *)

LEMMA SameContent ==
  ASSUME NEW r, Bounded(r), NEW s, Bounded(s), Filled(s) = Filled(r), Kept(r, s)
  PROVE  Content(s) = Content(r)
<1>1. Content(r) = [k \in 1 .. Filled(r) |-> Item(r, k)]
  BY DEF Content, Item
<1>2. Content(s) = [k \in 1 .. Filled(r) |-> Item(s, k)]
  BY DEF Content, Item
<1>3. QED
  BY <1>1, <1>2 DEF Kept

LEMMA FrontOf ==
  ASSUME NEW r, Bounded(r), NEW n \in 0 .. Count, n <= Filled(r)
  PROVE  SubSeq(Content(r), 1, n) = [k \in 1 .. n |-> Item(r, k)]
<1>1. Content(r) \in Seq(Nat) /\ Len(Content(r)) = Filled(r) /\ Filled(r) \in Nat /\ n \in Nat
      /\ \A k \in 1 .. Filled(r) : Content(r)[k] = Item(r, k)
  BY ContentIs, Sizes DEF Bounded
<1>2. PICK c \in Seq(Nat) : c = Content(r)
  BY <1>1
<1>3. /\ SubSeq(c, 1, n) \in Seq(Nat) /\ Len(SubSeq(c, 1, n)) = n
      /\ \A k \in 1 .. n : SubSeq(c, 1, n)[k] = c[k]
  BY <1>1, <1>2, SubSeqProperties
<1>4. PICK d \in Seq(Nat) : d = SubSeq(c, 1, n)
  BY <1>3
<1>5. d = [k \in 1 .. n |-> d[k]]
  BY <1>1, <1>3, <1>4
<1>6. \A k \in 1 .. n : d[k] = Item(r, k)
  BY <1>1, <1>2, <1>3, <1>4
<1>7. QED
  BY <1>2, <1>4, <1>5, <1>6

(* A pop of one byte is a Get(1) of the queue.                             *)
LEMMA PopIsGet ==
  ASSUME NEW r, NEW max \in Nat, RingOK(r, max), Real(r), Filled(r) > 0
  PROVE  /\ 1 <= Len(Content(r))
         /\ SubSeq(Content(r), 1, 1) = <<Item(r, 1)>>
         /\ Content(Pop(r)) = SubSeq(Content(r), 1 + 1, Len(Content(r)))
<1>1. Bounded(r) /\ Filled(r) \in 1 .. Count
  BY RingType, Sizes DEF RingOK
<1>2. PICK n \in 0 .. Count : n = 1
  BY Sizes
<1>3. n <= Filled(r) /\ n <= Len(Content(r))
  BY <1>1, <1>2, ContentIs, Sizes
<1>4. Bounded(Pop(r)) /\ Filled(Pop(r)) = Filled(r) - n
  BY <1>2, PopKeeps, RingType
<1>5. Pop(r).data = r.data /\ Pop(r).tail = Plus(r.tail, n)
  BY <1>2 DEF Pop, RingOK
<1>6. Content(Pop(r)) = SubSeq(Content(r), n + 1, Len(Content(r)))
  BY <1>1, <1>3, <1>4, <1>5, ContentGet
<1>7. SubSeq(Content(r), 1, n) = [k \in 1 .. n |-> Item(r, k)]
  BY <1>1, <1>3, FrontOf
<1>8. [k \in 1 .. 1 |-> Item(r, k)] = <<Item(r, 1)>>
  OBVIOUS
<1>9. QED
  BY <1>2, <1>3, <1>6, <1>7, <1>8

\* What the transmit ring has delivered, and what a byte on its way adds to it.
Out == wire \o Register(thr) \o (IF mpc = "byte" THEN <<ch>> ELSE << >>)

LEMMA OutIs ==
  ASSUME TypeTx
  PROVE  /\ thr = 0 /\ mpc # "byte" => Out = wire
         /\ thr # 0 /\ mpc # "byte" => Out = wire \o <<thr>>
         /\ thr = 0 /\ mpc = "byte" => Out = wire \o <<ch>>
<1>1. wire \in Seq(Nat) /\ thr \in Nat /\ ch \in Nat
  <2>1. wire \in Seq(1 .. MaxTx)
    BY DEF TypeTx
  <2>2. wire \in Seq(Nat)
    BY <2>1, Sizes
  <2>3. QED
    BY <2>2, Sizes DEF TypeTx
<1>2. wire \o << >> = wire
  BY <1>1, ConcatEmptySeq
<1>3. (wire \o <<thr>>) \o << >> = wire \o <<thr>>
  BY <1>1, ConcatEmptySeq
<1>4. QED
  BY <1>2, <1>3 DEF Out, Register

LEMMA OutInit == Init => Outgoing!Init
<1> SUFFICES ASSUME Init PROVE Outgoing!Init
  OBVIOUS
<1>1. IInv
  BY InitIInv
<1>2. Bounded(tx) /\ Filled(tx) = 0
  <2>1. tx.head = 0 /\ tx.tail = 0 /\ 0 \in 0 .. Word - 1
    BY Sizes DEF Init, NewRing
  <2>2. QED
    BY <1>1, <2>1, FilledIs, RingType, Sizes DEF IInv, TxInv, TypeTx
<1>3. Content(tx) = << >>
  <2>1. Content(tx) \in Seq(Nat) /\ Len(Content(tx)) = 0
    BY <1>2, ContentIs
  <2>2. QED
    BY <2>1
<1>4. Out = << >>
  BY <1>1, OutIs DEF Init, IInv, TxInv
<1>5. QED
  BY <1>3, <1>4 DEF Init, Outgoing!Init, Out

LEMMA OutStutter ==
  ASSUME IInv, IInv', UNCHANGED <<sent, tx, thr, wire>>, mpc # "byte", mpc' # "byte"
  PROVE  UNCHANGED Outgoing!queueVars
<1>1. Out' = Out
  BY OutIs DEF Out, Register
<1>2. Content(tx)' = Content(tx)
  BY DEF Content, Filled, Index
<1>3. QED
  BY <1>1, <1>2 DEF Outgoing!queueVars, Out

LEMMA OutCopy ==
  ASSUME IInv, IInv', InsertCopy
  PROVE  UNCHANGED Outgoing!queueVars
<1>1. /\ UNCHANGED <<sent, thr, wire>> /\ mpc # "byte" /\ mpc' # "byte"
  BY DEF InsertCopy, sendVars, lineVars
<1>2. Out' = Out
  BY <1>1 DEF Out, Register
<1>3. Bounded(tx) /\ Bounded(tx') /\ Filled(tx) \in 0 .. Count
  <2>1. RingOK(tx, MaxTx) /\ RingOK(tx', MaxTx)
    BY DEF IInv, TxInv, TypeTx, RingOK, Filled
  <2>2. QED
    BY <2>1, RingType, Sizes DEF RingOK
<1>4. Filled(tx') = Filled(tx) /\ Kept(tx, tx')
  <2>1. /\ cnt1 \in 0 .. Count /\ cnt2 \in Nat /\ base + ret \in Nat
        /\ Filled(tx) + cnt1 + cnt2 <= Count /\ Index(tx.head) + cnt1 <= Count
    <3>1. cnt1 \in 0 .. Count /\ cnt2 \in 0 .. Count /\ base \in 0 .. MaxTx /\ bytes \in 0 .. MaxCall
      BY DEF IInv, TypeMain, TxInv, TypeTx
    <3>2. ret \in 0 .. bytes
      BY DEF IInv, TxInv, TypeTx
    <3>3. Filled(tx) + cnt1 + cnt2 <= Count /\ Index(tx.head) + cnt1 <= Count
      BY DEF InsertCopy, IInv, TxInv, InsertInv
    <3>4. QED
      BY <3>1, <3>2, <3>3, Sizes
  <2>2. PICK first \in Nat : first = base + ret + 1
    BY <2>1
  <2>3. tx' = [tx EXCEPT !.data = Written(tx.data, Index(tx.head), first, cnt1)]
    BY <2>2 DEF InsertCopy
  <2>4. Filled(tx) + cnt1 <= Count
    BY <1>3, <2>1, Sizes
  <2>5. QED
    BY <1>3, <2>1, <2>3, <2>4, WriteKeeps
<1>5. Content(tx') = Content(tx)
  BY <1>3, <1>4, SameContent
<1>6. Content(tx)' = Content(tx)
  BY <1>5 DEF Content, Filled, Index
<1>7. QED
  BY <1>1, <1>2, <1>6 DEF Outgoing!queueVars, Out

(* The head that moves past a segment puts its bytes in the queue.         *)
LEMMA OutAdvance ==
  ASSUME IInv, IInv', InsertAdvance
  PROVE  Outgoing!Next \/ UNCHANGED Outgoing!queueVars
<1>1. /\ UNCHANGED <<thr, wire>> /\ mpc = "advance" /\ mpc' # "byte"
      /\ tx' = [tx EXCEPT !.head = Plus(tx.head, cnt1)] /\ sent' = sent + cnt1
  BY DEF InsertAdvance, InsertDone, lineVars
<1>2. Out' = Out
  BY <1>1 DEF Out, Register
<1>3. RingOK(tx, MaxTx) /\ RingOK(tx', MaxTx) /\ Bounded(tx) /\ Bounded(tx')
  <2>1. RingOK(tx, MaxTx) /\ RingOK(tx', MaxTx)
    BY DEF IInv, TxInv, TypeTx, RingOK, Filled
  <2>2. QED
    BY <2>1, RingType, Sizes
<1>4. /\ cnt1 \in 0 .. Count /\ cnt2 \in Nat /\ Filled(tx) \in 0 .. Count /\ sent \in Nat
      /\ Filled(tx) + cnt1 + cnt2 <= Count /\ Index(tx.head) + cnt1 <= Count
      /\ \A k \in 1 .. cnt1 : tx.data[Index(tx.head) + k - 1] = sent + k
  BY <1>1, Sizes DEF IInv, TypeMain, TxInv, TypeTx, RingOK, InsertInv, CopiedInv
<1>5. Filled(tx) + cnt1 <= Count /\ cnt1 <= Count - Filled(tx)
  BY <1>4, Sizes
<1>6. tx'.data = tx.data /\ tx'.tail = tx.tail /\ tx'.head = Plus(tx.head, cnt1)
  BY <1>1, <1>3 DEF RingOK
<1>7. Filled(tx') = Filled(tx) + cnt1
  BY <1>3, <1>4, <1>5, <1>6, FilledInsert
<1>8. Kept(tx, tx') /\ Added(tx, tx', cnt1, sent)
  BY <1>3, <1>4, <1>5, <1>6, AdvanceAdds
<1>9. Content(tx') = Content(tx) \o [k \in 1 .. cnt1 |-> sent + k]
  BY <1>3, <1>4, <1>7, <1>8, ContentPut
<1>10. Content(tx)' = Content(tx')
  BY DEF Content, Filled, Index
<1>11. CASE cnt1 = 0
  <2>1. Kept(tx, tx') /\ Filled(tx') = Filled(tx) /\ sent' = sent
    BY <1>1, <1>4, <1>7, <1>8, <1>11, Sizes
  <2>2. Content(tx') = Content(tx)
    BY <1>3, <2>1, SameContent
  <2>3. QED
    BY <1>2, <1>10, <2>1, <2>2 DEF Outgoing!queueVars, Out
<1>12. CASE cnt1 # 0
  <2>1. cnt1 \in 1 .. Count /\ Len(Content(tx)) + cnt1 <= Count
    BY <1>3, <1>4, <1>5, <1>12, ContentIs, Sizes
  <2>2. Outgoing!Put(cnt1)
    BY <1>1, <1>2, <1>9, <1>10, <2>1 DEF Outgoing!Put, Out
  <2>3. QED
    BY <2>1, <2>2 DEF Outgoing!Next
<1>13. QED
  BY <1>11, <1>12

(* A byte that main takes out goes to the port two steps later; the queue  *)
(* has delivered it when the tail moves.                                   *)
LEMMA OutPop ==
  ASSUME IInv, IInv', TxPop
  PROVE  Outgoing!Next
<1>1. /\ mpc = "pop" /\ mpc' = "byte" /\ tx' = Pop(tx)
      /\ UNCHANGED <<sent, thr, ch, wire>> /\ thr = 0
      /\ TypeTx /\ Real(tx) /\ RingOK(tx, MaxTx) /\ Filled(tx) > 0 /\ ch = Item(tx, 1)
  BY DEF TxPop, sendVars, lineVars, IInv, TxInv, TypeTx, PopInv
<1>2. /\ 1 <= Len(Content(tx)) /\ SubSeq(Content(tx), 1, 1) = <<ch>>
      /\ Content(Pop(tx)) = SubSeq(Content(tx), 1 + 1, Len(Content(tx)))
  BY <1>1, PopIsGet, Sizes
<1>3. Content(tx)' = Content(tx')
  BY DEF Content, Filled, Index
<1>4. Out = wire /\ Out' = wire \o <<ch>>
  <2>1. Out = wire
    BY <1>1, OutIs
  <2>2. wire \o << >> = wire
    <3>1. wire \in Seq(1 .. MaxTx)
      BY <1>1 DEF TypeTx
    <3>2. QED
      BY <3>1, ConcatEmptySeq
  <2>3. QED
    BY <1>1, <2>1, <2>2 DEF Out, Register
<1>5. Outgoing!Get(1)
  BY <1>1, <1>2, <1>3, <1>4 DEF Outgoing!Get, Out
<1>6. QED
  BY <1>5, Sizes DEF Outgoing!Next

LEMMA OutByte ==
  ASSUME IInv, IInv', TxByte
  PROVE  UNCHANGED Outgoing!queueVars
<1>1. /\ mpc = "byte" /\ mpc' = "txloop" /\ thr' = ch /\ ch' = 0
      /\ UNCHANGED <<tx, sent, wire>> /\ thr = 0 /\ ch >= 1
      /\ TypeTx /\ ch # 0 /\ wire \in Seq(1 .. MaxTx) /\ ch \in Nat
  BY Sizes DEF TxByte, sendVars, lineVars, IInv, TxInv, TypeTx, PopInv
<1>2. Out = wire \o <<ch>>
  BY <1>1, OutIs
<1>3. Out' = wire \o <<ch>>
  <2>1. (wire \o <<ch>>) \o << >> = wire \o <<ch>>
    BY <1>1, ConcatEmptySeq
  <2>2. QED
    BY <1>1, <2>1 DEF Out, Register
<1>4. Content(tx)' = Content(tx)
  BY <1>1 DEF Content, Filled, Index
<1>5. QED
  BY <1>1, <1>2, <1>3, <1>4 DEF Outgoing!queueVars, Out

LEMMA OutShift ==
  ASSUME IInv, IInv', Shift
  PROVE  UNCHANGED Outgoing!queueVars
<1>1. /\ thr # 0 /\ wire' = Append(wire, thr) /\ thr' = 0 /\ UNCHANGED <<tx, sent, mpc, ch>>
      /\ TypeTx /\ mpc # "byte"
  BY DEF Shift, sendVars, IInv, TxInv, PopInv
<1>2. Out = wire \o <<thr>>
  BY <1>1, OutIs
<1>3. Out' = wire \o <<thr>>
  <2>1. wire \in Seq(Nat) /\ thr \in Nat
    <3>1. wire \in Seq(1 .. MaxTx)
      BY <1>1 DEF TypeTx
    <3>2. wire \in Seq(Nat)
      BY <3>1, Sizes
    <3>3. QED
      BY <1>1, <3>2, Sizes DEF TypeTx
  <2>2. Append(wire, thr) = wire \o <<thr>>
    BY <2>1, AppendIsConcat
  <2>3. (wire \o <<thr>>) \o << >> = wire \o <<thr>>
    BY <2>1, ConcatEmptySeq
  <2>4. QED
    BY <1>1, <2>2, <2>3 DEF Out, Register
<1>4. Content(tx)' = Content(tx)
  BY <1>1 DEF Content, Filled, Index
<1>5. QED
  BY <1>1, <1>2, <1>3, <1>4 DEF Outgoing!queueVars, Out

LEMMA OutHandler ==
  ASSUME IInv, IInv', UART_IRQHandler
  PROVE  Outgoing!Next \/ UNCHANGED Outgoing!queueVars
<1>1. UNCHANGED <<mpc, sent, ch, wire>> /\ TypeTx /\ Transmitter
  BY DEF UART_IRQHandler, sendVars, IInv, TxInv
<1>2. CASE UNCHANGED <<tx, thr>>
  <2>1. Out' = Out
    BY <1>1, <1>2 DEF Out, Register
  <2>2. Content(tx)' = Content(tx)
    BY <1>2 DEF Content, Filled, Index
  <2>3. QED
    BY <1>1, <2>1, <2>2 DEF Outgoing!queueVars, Out
<1>3. CASE threint /\ thr = 0 /\ ~IsEmpty(tx) /\ thr' = Front(tx) /\ tx' = Pop(tx)
  <2>1. mpc # "byte" /\ Real(tx) /\ RingOK(tx, MaxTx) /\ Bounded(tx)
    BY <1>3, RingType, Sizes DEF IInv, TxInv, TypeTx, SendInv, Sending
  <2>2. Filled(tx) > 0 /\ tx.tail \in Nat
    BY <1>3, <2>1, EmptyIs, Sizes DEF Bounded, Rings
  <2>3. Front(tx) = Item(tx, 1) /\ thr' = Item(tx, 1) /\ thr' # 0
    <3>1. tx.tail + 1 - 1 = tx.tail /\ 1 \in 1 .. Filled(tx)
      BY <2>1, <2>2, Sizes DEF Bounded
    <3>2. Item(tx, 1) >= 1
      BY <2>1, <3>1 DEF Real
    <3>3. QED
      BY <1>3, <3>1, <3>2 DEF Front, Item
  <2>4. /\ 1 <= Len(Content(tx)) /\ SubSeq(Content(tx), 1, 1) = <<thr'>>
        /\ Content(Pop(tx)) = SubSeq(Content(tx), 1 + 1, Len(Content(tx)))
    BY <2>1, <2>2, <2>3, PopIsGet, Sizes
  <2>5. Out = wire
    BY <1>1, <1>3, <2>1, OutIs
  <2>6. Out' = wire \o <<thr'>>
    <3>1. TypeTx'
      BY DEF IInv, TxInv
    <3>2. thr' # 0 /\ mpc' # "byte"
      BY <1>1, <2>1, <2>3
    <3>3. Out' = wire' \o <<thr'>>
      <4>1. (TypeTx => (thr # 0 /\ mpc # "byte" => Out = wire \o <<thr>>))'
        BY OutIs, PTL
      <4>2. QED
        BY <3>1, <3>2, <4>1
    <3>4. QED
      BY <1>1, <3>3
  <2>7. Content(tx)' = Content(tx')
    BY DEF Content, Filled, Index
  <2>8. Outgoing!Get(1)
    BY <1>1, <1>3, <2>4, <2>5, <2>6, <2>7 DEF Outgoing!Get, Out
  <2>9. QED
    BY <2>8, Sizes DEF Outgoing!Next
<1>4. QED
  BY <1>1, <1>2, <1>3 DEF Transmitter

(* The transmit ring, with uartSend() and the handler, implements a queue:  *)
(* every byte that a call says it has taken leaves the port once and in     *)
(* order.                                                                   *)
THEOREM SendsImplemented == Spec => SendsInOrder
<1>1. ASSUME IInv, IInv', [Next]_vars PROVE Outgoing!Next \/ UNCHANGED Outgoing!queueVars
  <2>1. ASSUME NEW n \in 1 .. MaxCall, SendRB(n) \/ ReadRB(n)
        PROVE UNCHANGED Outgoing!queueVars
    BY <1>1, <2>1, OutStutter DEF SendRB, ReadRB, sendVars, lineVars
  <2>2. CASE InitRing \/ InsertMult \/ TxLoop \/ TxEmpty \/ Enable \/ ReadCopy \/ ReadAdvance
    <3>1. UNCHANGED <<sent, tx, thr, wire>> /\ mpc # "byte" /\ mpc' # "byte"
      BY <2>2 DEF InitRing, InitSteps, InsertMult, InsertDone, TxLoop, TxEmpty, Enable, ReadCopy,
         ReadAdvance, sendVars, lineVars
    <3>2. QED
      BY <1>1, <3>1, OutStutter
  <2>3. CASE InCall
    BY <1>1, <2>2, <2>3, OutCopy, OutAdvance, OutPop, OutByte DEF InCall
  <2>4. CASE UART_IRQHandler \/ Shift
    BY <1>1, <2>4, OutHandler, OutShift
  <2>5. CASE Arrive \/ UNCHANGED vars
    <3>1. UNCHANGED <<sent, tx, thr, wire, mpc, ch>>
      BY <2>5 DEF Arrive, vars, sendVars
    <3>2. Out' = Out /\ Content(tx)' = Content(tx)
      BY <3>1 DEF Out, Register, Content, Filled, Index
    <3>3. QED
      BY <3>1, <3>2 DEF Outgoing!queueVars, Out
  <2>6. QED
    BY <1>1, <2>1, <2>3, <2>4, <2>5 DEF Next
<1>2. QED
  BY <1>1, Inductive, OutInit, PTL DEF Spec, SendsInOrder, Outgoing!Spec

\* What the receive ring holds of what was offered to it.
Offered == arrived - Len(Register(rbr))
Held == IF Initialising THEN << >> ELSE Content(rx)

LEMMA OfferedIs == Offered = IF rbr = 0 THEN arrived - 0 ELSE arrived - 1
  BY DEF Offered, Register

LEMMA InInit == Init => Incoming!Init
<1> SUFFICES ASSUME Init PROVE Incoming!Init
  OBVIOUS
<1>1. Initialising /\ Offered = 0
  BY StartPoints, OfferedIs DEF Init, Starting
<1>2. QED
  BY <1>1 DEF Init, Incoming!Init, Offered

LEMMA InStutter ==
  ASSUME UNCHANGED <<rx, rbr, arrived, received>>, Initialising' <=> Initialising
  PROVE  UNCHANGED Incoming!queueVars
<1>1. Offered' = Offered /\ Held' = Held /\ (~Initialising)' = ~Initialising
  BY DEF Offered, Register, Held, Content, Filled, Index
<1>2. QED
  BY <1>1 DEF Incoming!queueVars, Offered, Held

(* RingBuffer_Init() ends with an empty ring, whatever came in during it.  *)
LEMMA InOpen ==
  ASSUME IInv, IInv', InitRing
  PROVE  Incoming!Next \/ UNCHANGED Incoming!queueVars
<1>1. mpc \in Starting /\ mpc' \in Starting \cup {"idle"} /\ (mpc = "heads" <=> mpc' = "idle")
  BY DEF InitRing, InitSteps, Starting
<1>2. UNCHANGED <<rbr, arrived, received>> /\ Initialising
  BY <1>1, StartPoints DEF InitRing, readVars, lineVars
<1>3. Initialising' <=> mpc' \in Starting
  BY DEF Initialising, InitSteps, Starting
<1>4. CASE mpc # "heads"
  <2>1. rx' = rx /\ Initialising'
    BY <1>1, <1>3, <1>4 DEF InitRing
  <2>2. QED
    BY <1>2, <2>1, InStutter
<1>5. CASE mpc = "heads"
  <2>1. ~Initialising'
    BY <1>1, <1>3, <1>5 DEF Starting
  <2>2. rx' = [rx EXCEPT !.head = 0, !.tail = 0] /\ RingOK(rx, MaxRx) /\ RingOK(rx', MaxRx)
    BY <1>5 DEF InitRing, IInv, RxInv, TypeRx, RingOK, Filled
  <2>3. rx'.head = 0 /\ rx'.tail = 0 /\ 0 \in 0 .. Word - 1
    BY <2>2, Sizes DEF RingOK
  <2>4. Filled(rx') = 0 /\ Bounded(rx')
    <3>1. Filled(rx') = 0
      BY <2>3, FilledIs
    <3>2. QED
      BY <2>2, <3>1, RingType, Sizes
  <2>5. Content(rx') = << >>
    <3>1. Content(rx') \in Seq(Nat) /\ Len(Content(rx')) = 0
      BY <2>4, ContentIs
    <3>2. QED
      BY <3>1
  <2>6. Content(rx)' = << >>
    BY <2>5 DEF Content, Filled, Index
  <2>7. Held = << >> /\ Held' = << >> /\ Offered' = Offered
    BY <1>2, <2>1, <2>6 DEF Held, Offered, Register
  <2>8. Incoming!Open
    BY <1>2, <2>1, <2>7 DEF Incoming!Open, Held, Offered
  <2>9. QED
    BY <2>8 DEF Incoming!Next
<1>6. QED
  BY <1>4, <1>5

(* A byte that the handler reads is put in the ring, or let go.            *)
LEMMA InHandler ==
  ASSUME IInv, IInv', UART_IRQHandler
  PROVE  Incoming!Next \/ UNCHANGED Incoming!queueVars
<1>1. /\ UNCHANGED <<mpc, arrived, received>> /\ rbr' = 0
      /\ rx' = IF rbr = 0 \/ IsFull(rx, RxCount) THEN rx ELSE Insert(rx, RxItemSz, rbr)
      /\ arrived \in Nat /\ rbr \in 0 .. MaxRx /\ rbr \in {0, arrived}
      /\ RingOK(rx, MaxRx) /\ Bounded(rx)
  BY RingType, Sizes DEF UART_IRQHandler, Receiver, readVars, IInv, RxInv, TypeRx, RbrInv
<1>2. (Initialising' <=> Initialising) /\ (Initialising <=> mpc \in Starting)
  BY <1>1, StartPoints DEF Initialising, InitSteps
<1>3. Offered' = arrived
  BY <1>1 DEF Offered, Register
<1>4. CASE rbr = 0
  <2>1. rx' = rx /\ rbr' = rbr
    BY <1>1, <1>4
  <2>2. QED
    BY <1>1, <1>2, <2>1, InStutter
<1>5. CASE rbr # 0
  <2>1. Offered = arrived - 1 /\ Offered' = Offered + 1 /\ Offered \in Nat /\ rbr = Offered + 1
        /\ rbr \in 1 .. MaxRx
    BY <1>1, <1>3, <1>5, OfferedIs, Sizes
  <2>2. CASE Initialising
    <3>1. Held = << >> /\ Held' = << >>
      BY <1>2, <2>2 DEF Held
    <3>2. Incoming!Drop
      BY <1>1, <1>2, <2>1, <2>2, <3>1 DEF Incoming!Drop, Offered, Held
    <3>3. QED
      BY <3>2 DEF Incoming!Next
  <2>3. CASE ~Initialising /\ IsFull(rx, RxCount)
    <3>1. RxCount = Count /\ Filled(rx) = Count /\ rx' = rx
      BY <1>1, <1>2, <2>3, Sizes DEF RxCount, Starting, IsFull, Bounded
    <3>2. Held = Content(rx) /\ Len(Held) = Count /\ Held' = Held
      BY <1>1, <1>2, <2>3, <3>1, ContentIs DEF Held, Content, Filled, Index
    <3>3. Incoming!Drop
      BY <1>1, <1>2, <2>1, <2>3, <3>2 DEF Incoming!Drop, Offered, Held
    <3>4. QED
      BY <3>3 DEF Incoming!Next
  <2>4. CASE ~Initialising /\ ~IsFull(rx, RxCount)
    <3>1. /\ RxCount = Count /\ RxItemSz = 1 /\ Filled(rx) \in 0 .. Count /\ Filled(rx) < Count
          /\ rx' = Insert(rx, 1, rbr)
      BY <1>1, <1>2, <1>5, <2>4, Sizes DEF RxCount, RxItemSz, Starting, IsFull, Bounded
    <3>2. /\ RingOK(rx', MaxRx) /\ Filled(rx') = Filled(rx) + 1
          /\ Kept(rx, rx') /\ Added(rx, rx', 1, rbr - 1)
      BY <1>1, <2>1, <3>1, InsertKeeps, Sizes
    <3>3. PICK n \in 0 .. Count : n = 1
      BY Sizes
    <3>4. Bounded(rx') /\ Added(rx, rx', n, Offered) /\ Filled(rx') = Filled(rx) + n
      <4>1. rbr - 1 = Offered
        BY <2>1
      <4>2. QED
        BY <3>2, <3>3, <4>1, RingType, Sizes
    <3>5. Content(rx') = Content(rx) \o [k \in 1 .. n |-> Offered + k]
      BY <1>1, <2>1, <3>2, <3>4, ContentPut
    <3>6. Content(rx)' = Content(rx')
      BY DEF Content, Filled, Index
    <3>7. Held = Content(rx) /\ Held' = Content(rx')
      BY <1>2, <2>4, <3>6 DEF Held
    <3>8. Len(Held) + 1 <= Count
      BY <1>1, <3>1, <3>7, ContentIs, Sizes
    <3>9. Incoming!Put(1)
      BY <1>1, <1>2, <2>1, <2>4, <3>3, <3>5, <3>7, <3>8 DEF Incoming!Put, Offered, Held
    <3>10. QED
      BY <3>9, Sizes DEF Incoming!Next
  <2>5. QED
    BY <2>2, <2>3, <2>4
<1>6. QED
  BY <1>4, <1>5

(* The tail that moves past a segment takes its bytes out of the queue.    *)
LEMMA InAdvance ==
  ASSUME IInv, IInv', ReadAdvance
  PROVE  Incoming!Next
<1>1. /\ mpc = "readadvance" /\ mpc' \in {"readcopy", "idle"}
      /\ UNCHANGED <<rbr, arrived>> /\ received' = received \o dest
      /\ rx' = [rx EXCEPT !.tail = Plus(rx.tail, cnt1)]
      /\ dest = [k \in 1 .. cnt1 |-> Item(rx, k)]
  BY DEF ReadAdvance, lineVars, IInv, RxInv, DestInv
<1>2. ~Initialising /\ ~Initialising'
  <2>1. Initialising' <=> mpc' \in Starting
    BY DEF Initialising, InitSteps, Starting
  <2>2. QED
    BY <1>1, <2>1, StartPoints DEF Starting
<1>3. /\ RingOK(rx, MaxRx) /\ Bounded(rx) /\ Filled(rx) \in 0 .. Count /\ Bounded(rx')
      /\ cnt1 \in 1 .. Count /\ cnt1 <= Filled(rx)
  <2>1. RingOK(rx, MaxRx) /\ RingOK(rx', MaxRx)
    BY DEF IInv, RxInv, TypeRx, RingOK, Filled
  <2>2. cnt1 \in 0 .. Count /\ cnt2 \in 0 .. Count /\ cnt1 >= 1 /\ cnt1 + cnt2 <= Filled(rx)
    BY <1>1 DEF IInv, TypeMain, RxInv, ReadInv
  <2>3. Filled(rx) \in 0 .. Count
    BY <2>1 DEF RingOK
  <2>4. QED
    BY <2>1, <2>2, <2>3, RingType, Sizes
<1>4. rx'.head = rx.head /\ rx'.data = rx.data /\ rx'.tail = Plus(rx.tail, cnt1)
  BY <1>1, <1>3 DEF RingOK
<1>5. cnt1 \in 0 .. Count
  BY <1>3, Sizes
<1>6. Filled(rx') = Filled(rx) - cnt1
  BY <1>3, <1>4, <1>5, FilledPop
<1>7. Content(rx') = SubSeq(Content(rx), cnt1 + 1, Len(Content(rx)))
  BY <1>3, <1>4, <1>5, <1>6, ContentGet
<1>8. dest = SubSeq(Content(rx), 1, cnt1) /\ Len(Content(rx)) = Filled(rx)
  BY <1>1, <1>3, <1>5, FrontOf, ContentIs
<1>9. Content(rx)' = Content(rx')
  BY DEF Content, Filled, Index
<1>10. Held = Content(rx) /\ Held' = Content(rx') /\ Offered' = Offered
  BY <1>1, <1>2, <1>9 DEF Held, Offered, Register
<1>11. Incoming!Get(cnt1)
  BY <1>1, <1>2, <1>3, <1>7, <1>8, <1>10 DEF Incoming!Get, Held, Offered
<1>12. QED
  BY <1>3, <1>11 DEF Incoming!Next

(* The receive ring, with the handler and uartRecv(), implements a queue:   *)
(* only a full ring, or one that is not set up, lets go of a byte, and what *)
(* went in is returned once and in order.                                   *)
THEOREM ReceivesImplemented == Spec => ReceivesInOrder
<1>1. ASSUME IInv, IInv', [Next]_vars PROVE Incoming!Next \/ UNCHANGED Incoming!queueVars
  <2>0. (Initialising <=> mpc \in Starting) /\ (Initialising' <=> mpc' \in Starting)
    BY DEF Initialising, InitSteps, Starting
  <2>1. ASSUME NEW n \in 1 .. MaxCall, SendRB(n) \/ ReadRB(n)
        PROVE UNCHANGED Incoming!queueVars
    <3>1. UNCHANGED <<rx, rbr, arrived, received>> /\ mpc \notin Starting /\ mpc' \notin Starting
      BY <2>1 DEF SendRB, ReadRB, Starting, readVars, lineVars
    <3>2. QED
      BY <2>0, <3>1, InStutter
  <2>2. CASE \/ InsertMult \/ InsertCopy \/ InsertAdvance
             \/ TxLoop \/ TxPop \/ TxByte \/ TxEmpty \/ Enable \/ ReadCopy
    <3>1. UNCHANGED <<rx, rbr, arrived, received>> /\ mpc \notin Starting /\ mpc' \notin Starting
      BY <2>2 DEF InsertMult, InsertCopy, InsertAdvance, InsertDone, TxLoop, TxPop, TxByte,
         TxEmpty, Enable, ReadCopy, Starting, readVars, lineVars
    <3>2. QED
      BY <2>0, <3>1, InStutter
  <2>3. CASE InCall
    BY <1>1, <2>2, <2>3, InOpen, InAdvance DEF InCall
  <2>4. CASE UART_IRQHandler
    BY <1>1, <2>4, InHandler
  <2>5. CASE Shift \/ UNCHANGED vars
    <3>1. UNCHANGED <<rx, rbr, arrived, received, mpc>>
      BY <2>5 DEF Shift, vars, readVars
    <3>2. QED
      BY <2>0, <3>1, InStutter
  <2>6. CASE Arrive
    <3>1. /\ arrived' = arrived + 1 /\ rbr' = arrived + 1 /\ rbr = 0 /\ arrived \in Nat
          /\ UNCHANGED <<rx, received, mpc>>
      BY <1>1, <2>6, Sizes DEF Arrive, readVars, IInv, RxInv, TypeRx
    <3>2. Offered = arrived /\ Offered' = arrived
      <4>1. Offered = arrived
        BY <3>1, OfferedIs
      <4>2. rbr' # 0 /\ Offered' = arrived' - 1
        BY <3>1 DEF Offered, Register
      <4>3. QED
        BY <3>1, <4>1, <4>2
    <3>3. Held' = Held /\ (Initialising' <=> Initialising)
      BY <2>0, <3>1 DEF Held, Content, Filled, Index
    <3>4. QED
      BY <3>1, <3>2, <3>3 DEF Incoming!queueVars, Offered, Held
  <2>7. QED
    BY <1>1, <2>1, <2>3, <2>4, <2>5, <2>6 DEF Next
<1>2. QED
  BY <1>1, Inductive, InInit, PTL DEF Spec, ReceivesInOrder, Incoming!Spec
=============================================================================
