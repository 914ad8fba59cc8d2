------------------------------ MODULE Remainders ------------------------------
(***************************************************************************)
(* The arithmetic of rings: numbers less than a ring apart have different  *)
(* slots, and a slot is found from any number that has it.                 *)
(***************************************************************************)
EXTENDS Integers, TLAPS

LEMMA RemainderInRange ==
  ASSUME NEW n \in Nat \ {0}, NEW i \in Int
  PROVE  i % n \in 0..(n - 1)
BY Z3

(* Quotient and remainder are the only ones there are. *)
LEMMA RemainderIs ==
  ASSUME NEW n \in Nat \ {0}, NEW q \in Int, NEW r \in 0..(n - 1)
  PROVE  (n * q + r) % n = r
<1> DEFINE i == n * q + r
           p == i \div n
           s == i % n
<1>1. i \in Int /\ i = n * p + s /\ s \in 0..(n - 1) /\ p \in Int
    BY Z3
<1>2. i = n * q + r
    OBVIOUS
<1> HIDE DEF i, p, s
<1>3. r - s = n * (p - q)
    BY <1>1, <1>2
<1>4. CASE p - q >= 1
  <2>1. n * (p - q) >= n
      BY <1>1, <1>4
  <2> QED
      BY <1>1, <1>3, <2>1
<1>5. CASE p - q <= -1
  <2>1. n * (p - q) <= -n
      BY <1>1, <1>5
  <2> QED
      BY <1>1, <1>3, <2>1
<1>6. CASE p = q
    BY <1>1, <1>3, <1>6 DEF s, i
<1> QED
    BY <1>1, <1>4, <1>5, <1>6

LEMMA QuotientIs ==
  ASSUME NEW n \in Nat \ {0}, NEW q \in Int, NEW r \in 0..(n - 1)
  PROVE  (n * q + r) \div n = q
<1> DEFINE i == n * q + r
           p == i \div n
           s == i % n
<1>1. i \in Int /\ i = n * p + s /\ s \in 0..(n - 1) /\ p \in Int
    BY Z3
<1>2. s = r
    BY RemainderIs
<1>3. i = n * q + r
    OBVIOUS
<1> HIDE DEF i, p, s
<1>4. n * (p - q) = 0
    BY <1>1, <1>2, <1>3
<1>5. CASE p - q >= 1
  <2>1. n * (p - q) >= n
      BY <1>1, <1>5
  <2> QED
      BY <1>1, <1>4, <2>1
<1>6. CASE p - q <= -1
  <2>1. n * (p - q) <= -n
      BY <1>1, <1>6
  <2> QED
      BY <1>1, <1>4, <2>1
<1> QED
    BY <1>1, <1>5, <1>6 DEF p, i

(* Numbers that differ by a multiple of n have one remainder. *)
LEMMA RemainderPeriod ==
  ASSUME NEW n \in Nat \ {0}, NEW q \in Int, NEW i \in Int
  PROVE  (i + n * q) % n = i % n
<1> DEFINE p == i \div n
           s == i % n
<1>1. i = n * p + s /\ s \in 0..(n - 1) /\ p \in Int
    BY Z3
<1> HIDE DEF p, s
<1>2. i + n * q = n * (p + q) + s
    BY <1>1
<1>3. (n * (p + q) + s) % n = s
    BY <1>1, RemainderIs
<1> QED
    BY <1>2, <1>3 DEF s

(* To go on from a slot is to go on from a number that has it. *)
LEMMA RemainderOfSum ==
  ASSUME NEW n \in Nat \ {0}, NEW i \in Int, NEW j \in Int
  PROVE  ((i % n) + j) % n = (i + j) % n
<1> DEFINE q == i \div n
           s == i % n
<1>1. i = n * q + s /\ s \in 0..(n - 1) /\ q \in Int
    BY Z3
<1> HIDE DEF q, s
<1>2. i + j = (s + j) + n * q
    BY <1>1
<1>3. ((s + j) + n * q) % n = (s + j) % n
  <2>1. s + j \in Int /\ q \in Int
      BY <1>1
  <2> QED
      BY <2>1, RemainderPeriod, Zenon
<1> QED
    BY <1>2, <1>3 DEF s

(* The slot after a slot. *)
LEMMA RemainderOfNext ==
  ASSUME NEW n \in Nat \ {0}, NEW i \in Int
  PROVE  (i + 1) % n = IF i % n = n - 1 THEN 0 ELSE (i % n) + 1
<1>1. (i + 1) % n = ((i % n) + 1) % n /\ i % n \in 0..(n - 1)
  <2>1. 1 \in Int
      OBVIOUS
  <2> QED
      BY <2>1, RemainderOfSum, RemainderInRange, Zenon
<1> DEFINE s == i % n
<1> HIDE DEF s
<1>2. CASE s = n - 1
  <2>1. (n * 1 + 0) % n = 0
      BY RemainderIs
  <2> QED
      BY <1>1, <1>2, <2>1 DEF s
<1>3. CASE s # n - 1
  <2>1. s + 1 \in 0..(n - 1)
      BY <1>1, <1>3 DEF s
  <2>2. (n * 0 + (s + 1)) % n = s + 1
      BY <2>1, RemainderIs
  <2>3. n * 0 + (s + 1) = s + 1
      BY <2>1
  <2> QED
      BY <1>1, <1>3, <2>2, <2>3 DEF s
<1> QED
    BY <1>2, <1>3

LEMMA RemaindersDiffer ==
  ASSUME NEW n \in Nat \ {0}, NEW i \in Int, NEW j \in Int, i < j, j - i < n
  PROVE  i % n # j % n
<1> DEFINE q == i \div n
           p == j \div n
<1>1. /\ i = n * q + (i % n) /\ i % n \in 0..(n - 1) /\ q \in Int
      /\ j = n * p + (j % n) /\ j % n \in 0..(n - 1) /\ p \in Int
    BY Z3
<1> HIDE DEF q, p
<1> SUFFICES ASSUME i % n = j % n PROVE FALSE
    OBVIOUS
<1>2. j - i = n * (p - q)
    BY <1>1
<1>3. CASE p - q >= 1
  <2>1. n * (p - q) >= n
      BY <1>1, <1>3
  <2> QED
      BY <1>2, <2>1
<1>4. CASE p - q <= 0
  <2>1. n * (p - q) <= 0
      BY <1>1, <1>4
  <2> QED
      BY <1>2, <2>1
<1> QED
    BY <1>1, <1>3, <1>4
==============================================================================
