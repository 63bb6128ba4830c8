---------------------------- MODULE Remainders -----------------------------
(***************************************************************************)
(* Facts about division with remainder that the proofs about the serial    *)
(* memories use: cells, pages and chunks are counted modulo their sizes.   *)
(***************************************************************************)
EXTENDS Integers, TLAPS

(* Division with remainder, and that it is the only one.                   *)
LEMMA Divide ==
  ASSUME NEW a \in Nat, NEW n \in Nat \ {0}
  PROVE  \E q \in Nat, r \in 0 .. n - 1 : a = q * n + r /\ a \div n = q /\ a % n = r
  OBVIOUS

LEMMA Remainder ==
  ASSUME NEW q \in Nat, NEW n \in Nat \ {0}, NEW r \in 0 .. n - 1
  PROVE  (q * n + r) % n = r /\ (q * n + r) \div n = q
  OBVIOUS

LEMMA Whole ==
  ASSUME NEW a \in Nat, NEW n \in Nat \ {0}, a % n = 0
  PROVE  \E q \in Nat : a = q * n
<1>1. PICK q \in Nat, r \in 0 .. n - 1 : a = q * n + r /\ a % n = r
  BY Divide
<1>2. QED
  BY <1>1

(* Multiples of n do not count modulo n.                                   *)
LEMMA ModAdd ==
  ASSUME NEW q \in Nat, NEW n \in Nat \ {0}, NEW a \in Nat
  PROVE  (q * n + a) % n = a % n
<1>1. PICK x \in Nat, r \in 0 .. n - 1 : a = x * n + r /\ a % n = r
  BY Divide
<1>2. PICK s \in Nat : s = q + x
  OBVIOUS
<1>3. q * n + a = s * n + r
  BY <1>1, <1>2
<1>4. (s * n + r) % n = r
  BY Remainder
<1>5. QED
  BY <1>1, <1>3, <1>4, Zenon

(* If m divides n, a and a % n are the same modulo m.                      *)
LEMMA ModMod ==
  ASSUME NEW m \in Nat \ {0}, NEW n \in Nat \ {0}, NEW a \in Nat, NEW k \in Nat, n = k * m
  PROVE  (a % n) % m = a % m
<1>1. PICK q \in Nat, r \in 0 .. n - 1 : a = q * n + r /\ a % n = r
  BY Divide
<1>2. PICK s \in Nat : s = q * k
  OBVIOUS
<1>3. a = s * m + r
  BY <1>1, <1>2
<1>4. r \in Nat
  OBVIOUS
<1>5. QED
  BY <1>1, <1>3, <1>4, ModAdd

(* The two low digits of a, put together again.                            *)
LEMMA TwoDigits ==
  ASSUME NEW r \in Nat \ {0}, NEW a \in Nat
  PROVE  \E u \in Nat : a = u * (r * r) + (((a \div r) % r) * r + (a % r))
<1>1. PICK x \in Nat, y \in 0 .. r - 1 : a = x * r + y /\ a \div r = x /\ a % r = y
  BY Divide
<1>2. PICK u \in Nat, v \in 0 .. r - 1 : x = u * r + v /\ x % r = v
  BY Divide
<1>3. a = u * (r * r) + (v * r + y)
  BY <1>1, <1>2
<1>4. (a \div r) % r = v /\ a % r = y
  BY <1>1, <1>2
<1>5. QED
  BY <1>3, <1>4

(* Counting on modulo n.                                                   *)
LEMMA CountOn ==
  ASSUME NEW n \in Nat \ {0}, NEW a \in Nat, NEW i \in Nat
  PROVE  ((a % n) + i) % n = (a + i) % n
<1>1. PICK q \in Nat, r \in 0 .. n - 1 : a = q * n + r /\ a % n = r
  BY Divide
<1>2. PICK t \in Nat : t = r + i
  OBVIOUS
<1>3. a + i = q * n + t /\ (a % n) + i = t
  BY <1>1, <1>2
<1>4. (q * n + t) % n = t % n
  BY ModAdd
<1>5. QED
  BY <1>3, <1>4, Zenon

LEMMA NextAfter ==
  ASSUME NEW n \in Nat \ {0}, NEW a \in Nat
  PROVE  ((a % n) + 1) % n = (a + 1) % n
<1>1. 1 \in Nat
  OBVIOUS
<1>2. QED
  BY <1>1, CountOn, Zenon

(* Counting on from a cell, round its page of p cells: where one begins,   *)
(* one is; it leaves the page never; and step by step it goes the same     *)
(* way.                                                                    *)
LEMMA PageBegins ==
  ASSUME NEW p \in Nat \ {0}, NEW x \in Nat
  PROVE  (x \div p) * p + ((x + 0) % p) = x
<1>1. PICK q \in Nat, r \in 0 .. p - 1 : x = q * p + r /\ x \div p = q /\ x % p = r
  BY Divide
<1>2. x + 0 = x
  OBVIOUS
<1>3. QED
  BY <1>1, <1>2

LEMMA PageStays ==
  ASSUME NEW p \in Nat \ {0}, NEW x \in Nat, NEW i \in Nat
  PROVE  ((x \div p) * p + ((x + i) % p)) \div p = x \div p
<1>1. PICK q \in Nat : q = x \div p
  OBVIOUS
<1>2. PICK y \in Nat : y = x + i
  OBVIOUS
<1>3. PICK r \in 0 .. p - 1 : r = y % p
  OBVIOUS
<1>4. (q * p + r) \div p = q
  BY Remainder
<1>5. QED
  BY <1>1, <1>2, <1>3, <1>4, Zenon

LEMMA PageSteps ==
  ASSUME NEW p \in Nat \ {0}, NEW x \in Nat, NEW i \in Nat,
         NEW y, y = (x \div p) * p + ((x + i) % p)
  PROVE  (y \div p) * p + ((y + 1) % p) = (x \div p) * p + ((x + (i + 1)) % p)
<1>1. PICK q \in Nat : q = x \div p
  OBVIOUS
<1>2. PICK z \in Nat : z = x + i
  OBVIOUS
<1>3. PICK r \in 0 .. p - 1 : r = z % p
  OBVIOUS
<1>4. y = q * p + r /\ y \div p = q
  BY <1>1, <1>2, <1>3, Remainder
<1>5. (y + 1) % p = (r + 1) % p
  <2>1. PICK n \in Nat : n = r + 1
    OBVIOUS
  <2>2. (q * p + n) % p = n % p
    BY ModAdd
  <2>3. y + 1 = q * p + n
    BY <1>4, <2>1
  <2>4. QED
    BY <2>1, <2>2, <2>3
<1>6. (r + 1) % p = (z + 1) % p
  BY <1>3, NextAfter, Zenon
<1>7. z + 1 = x + (i + 1)
  BY <1>2
<1>8. QED
  BY <1>1, <1>4, <1>5, <1>6, <1>7, Zenon

(* Counting on stays short of the end of the page exactly when it does not *)
(* wrap.                                                                   *)
LEMMA PageGoesOn ==
  ASSUME NEW p \in Nat \ {0}, NEW x \in Nat, NEW i \in Nat, (x % p) + i < p
  PROVE  (x \div p) * p + ((x + i) % p) = x + i
<1>1. PICK q \in Nat, r \in 0 .. p - 1 : x = q * p + r /\ x \div p = q /\ x % p = r
  BY Divide
<1>2. PICK n \in 0 .. p - 1 : n = r + i
  BY <1>1
<1>3. (q * p + n) % p = n
  BY Remainder
<1>4. x + i = q * p + n
  BY <1>1, <1>2
<1>5. QED
  BY <1>1, <1>3, <1>4

(* The next cell of a page is one of the memory.                           *)
LEMMA PageInMemory ==
  ASSUME NEW p \in Nat \ {0}, NEW s \in Nat \ {0}, NEW j \in Nat, s = j * p,
         NEW a \in 0 .. s - 1, NEW r \in 0 .. p - 1
  PROVE  (a \div p) * p + r \in 0 .. s - 1
<1>1. PICK q \in Nat, t \in 0 .. p - 1 : a = q * p + t /\ a \div p = q
  BY Divide
<1>2. q < j
  <2>1. SUFFICES ASSUME q >= j PROVE FALSE
    OBVIOUS
  <2>2. PICK d \in Nat : q = j + d
    BY <2>1
  <2>3. q * p = j * p + d * p /\ d * p \in Nat /\ j * p \in Nat
    BY <2>2
  <2>4. QED
    BY <1>1, <2>3
<1>3. PICK d \in Nat : j = q + 1 + d
  BY <1>2
<1>4. j * p = q * p + p + d * p /\ d * p \in Nat /\ q * p \in Nat
  BY <1>3
<1>5. QED
  BY <1>1, <1>4

(* In a memory of s cells in pages of p, counting on from a by i stays in  *)
(* the page and in the memory when no page begins on the way.              *)
LEMMA NoBoundary ==
  ASSUME NEW p \in Nat \ {0}, NEW s \in Nat \ {0}, NEW n \in Nat, s = n * p, NEW a \in Nat,
         NEW i \in Nat, \A j \in 1 .. i : (a + j) % p # 0
  PROVE  /\ ((a % s) % p) + i < p
         /\ (a % s) + i < s
<1>1. PICK q \in Nat, r \in 0 .. p - 1 : a = q * p + r /\ a % p = r
  BY Divide
<1>2. (a % s) % p = r
  <2>1. (a % s) % p = a % p
    BY ModMod, Zenon
  <2>2. QED
    BY <1>1, <2>1
<1>3. r + i < p
  <2>1. SUFFICES ASSUME r + i >= p PROVE FALSE
    OBVIOUS
  <2>2. p - r \in 1 .. i
    BY <2>1
  <2>3. PICK x \in Nat : x = q + 1
    OBVIOUS
  <2>4. a + (p - r) = x * p + 0
    BY <1>1, <2>3
  <2>5. (x * p + 0) % p = 0
    BY Remainder
  <2>6. QED
    BY <2>2, <2>4, <2>5
<1>4. PICK y \in 0 .. s - 1 : y = a % s
  OBVIOUS
<1>5. y + i < s
  <2>1. PICK u \in Nat, v \in 0 .. p - 1 : y = u * p + v /\ y \div p = u /\ y % p = v
    BY Divide
  <2>2. v = r
    BY <1>2, <1>4, <2>1
  <2>3. r + i \in 0 .. p - 1
    BY <1>3
  <2>4. (y \div p) * p + (r + i) \in 0 .. s - 1
    BY <2>3, PageInMemory
  <2>5. QED
    BY <2>1, <2>2, <2>4
<1>6. QED
  BY <1>2, <1>3, <1>4, <1>5
=============================================================================
