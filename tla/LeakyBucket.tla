----------------------------- MODULE LeakyBucket -----------------------------
(***************************************************************************)
(* How many connectionless requests an address may make                    *)
(* (SVC_RateLimitAddress, src/src/server/sv_main.c): a pool of buckets,    *)
(* which leak one request a period, found by address in hash chains, and   *)
(* taken from addresses that have been quiet to be used for others.        *)
(***************************************************************************)
EXTENDS Integers, FiniteSets, FiniteSetsExt

CONSTANTS Addresses,
          OtherTypes,       \* those neither IPv4 nor IPv6
          Hashes, HashFor,  \* 0..MAX_HASHES - 1, SVC_HashForAddress
          MaxBuckets,       \* MAX_BUCKETS
          Burst, Period,    \* 10 and 1000
          HalfRange,        \* an int is one of -HalfRange..HalfRange - 1: 2^31
          MaxTime,          \* bound
          Unused            \* NA_BAD

ASSUME BucketAssumption ==
    /\ OtherTypes \subseteq Addresses /\ HashFor \in [Addresses -> Hashes] /\ Unused \notin Addresses
    /\ MaxBuckets \in Nat /\ Burst \in Nat \ {0} /\ Period \in Nat \ {0} /\ HalfRange \in Nat
    /\ MaxTime \in 0..2 * HalfRange - 1 /\ (Burst + 1) * Period <= HalfRange

None == 0       \* a null pointer to a bucket
Numbers == 1..MaxBuckets

VARIABLES time,     \* since the start
          buckets,
          chain,    \* bucketHashes
          owed      \* history: time an ideal bucket of the address takes to be empty

bucketVars == <<time, buckets, chain, owed>>

(* int arithmetic; the clock becomes negative (Sys_Milliseconds). *)
Signed(t) == LET u == t % (2 * HalfRange) IN IF u >= HalfRange THEN u - 2 * HalfRange ELSE u
Now == Signed(time)
Interval(b) == Signed(Now - buckets[b].lastTime)
-----------------------------------------------------------------------------
InUse == {b \in Numbers : buckets[b].address # Unused}
EmptyBucket == [address |-> Unused, lastTime |-> 0, burst |-> 0, hash |-> None, prev |-> None, next |-> None]

BucketTypeOK ==
    /\ time \in 0..MaxTime
    /\ \A b \in Numbers :
          /\ buckets[b].address \in Addresses \cup {Unused}
          /\ buckets[b].burst \in 0..Burst
          /\ {buckets[b].prev, buckets[b].next} \subseteq Numbers \cup {None}
    /\ chain \in [Hashes -> Numbers \cup {None}]
    /\ owed \in [Addresses \ OtherTypes -> Nat]

(* The buckets of a chain: those met from its head on. *)
Leads(h, S) == chain[h] \in S \cup {None} /\ \A b \in S : buckets[b].next \in S \cup {None}
InChain(h) == {b \in Numbers : \A S \in SUBSET Numbers : Leads(h, S) => b \in S}

(* The bucket found for address a; that of another type is not known again. *)
Known(a) == IF a \in OtherTypes THEN {} ELSE {b \in InChain(HashFor[a]) : buckets[b].address = a}

(* A bucket that has been quiet as long as it takes to empty any. *)
Expired_Late(b) == buckets[b].lastTime > 0 /\ Interval(b) > (Burst + 1) * Period
Expired(b) ==
    /\ buckets[b].lastTime > 0
    /\ Interval(b) > Burst * Period \/ Interval(b) < 0

(* Buckets and chains without bucket b, which may be in a chain. *)
TakenOut_KeepsPrev(b) ==
    LET p == buckets[b].prev  n == buckets[b].next
    IN  [buckets |-> [c \in Numbers |->
                        IF c = b THEN EmptyBucket
                        ELSE [buckets[c] EXCEPT !.next = IF c = p THEN n ELSE @]],
         chain |-> IF p # None \/ buckets[b].address = Unused THEN chain
                   ELSE [chain EXCEPT ![buckets[b].hash] = n]]
TakenOut(b) ==
    LET p == buckets[b].prev  n == buckets[b].next
    IN  [buckets |-> [c \in Numbers |->
                        IF c = b THEN EmptyBucket
                        ELSE [buckets[c] EXCEPT !.next = IF c = p THEN n ELSE @,
                                                !.prev = IF c = n THEN p ELSE @]],
         chain |-> IF p # None \/ buckets[b].address = Unused THEN chain
                   ELSE [chain EXCEPT ![buckets[b].hash] = n]]

(* ... and with it again, at the head of the chain of a. *)
GivenTo(a, b, s) ==
    LET h == HashFor[a]
        head == s.chain[h]
    IN  [buckets |-> [c \in Numbers |->
                        IF c = b THEN [address |-> a, lastTime |-> Now, burst |-> 0, hash |-> h,
                                       prev |-> None, next |-> head]
                        ELSE IF c = head THEN [s.buckets[c] EXCEPT !.prev = b]
                        ELSE s.buckets[c]],
         chain |-> [s.chain EXCEPT ![h] = b]]

(* SVC_RateLimit: what has leaked since, and one more if there is room.    *)
Leaked(k) ==
    LET interval == Signed(Now - k.lastTime)
        expired == interval \div Period
    IN  IF expired > k.burst \/ interval < 0
        THEN [k EXCEPT !.burst = 0, !.lastTime = Now]
        ELSE [k EXCEPT !.burst = @ - expired, !.lastTime = Signed(Now - (interval % Period))]
Granted_AtBurst(k) == k.burst <= Burst
Granted(k) == k.burst < Burst

(* ... of bucket b. *)
SVC_RateLimit(b, s) ==
    LET k == Leaked(s.buckets[b])
    IN  [buckets |-> [s.buckets EXCEPT ![b] = [k EXCEPT !.burst = IF Granted(k) THEN @ + 1 ELSE @]],
         chain |-> s.chain, bucket |-> b, granted |-> Granted(k)]

(* SVC_RateLimitAddress: the answer to address a, and what it leaves. *)
FreeBuckets == {b \in Numbers : b \notin InUse \/ Expired(b)}
Answer(a) ==
    IF Known(a) # {} THEN SVC_RateLimit(Min(Known(a)), [buckets |-> buckets, chain |-> chain])
    ELSE IF FreeBuckets # {} THEN SVC_RateLimit(Min(FreeBuckets), GivenTo(a, Min(FreeBuckets), TakenOut(Min(FreeBuckets))))
    ELSE [buckets |-> buckets, chain |-> chain, bucket |-> None, granted |-> FALSE]

SVC_RateLimitAddress(a) ==
    LET answer == Answer(a)
    IN  /\ buckets' = answer.buckets /\ chain' = answer.chain
        /\ owed' = IF answer.granted /\ a \notin OtherTypes THEN [owed EXCEPT ![a] = @ + Period] ELSE owed
        /\ UNCHANGED time

BucketTick ==
    /\ time < MaxTime
    /\ time' = time + 1
    /\ owed' = [a \in DOMAIN owed |-> IF owed[a] > 0 THEN owed[a] - 1 ELSE 0]
    /\ UNCHANGED <<buckets, chain>>
-----------------------------------------------------------------------------
BucketInit ==
    /\ time = 0
    /\ buckets = [b \in Numbers |-> EmptyBucket]
    /\ chain = [h \in Hashes |-> None]
    /\ owed = [a \in Addresses \ OtherTypes |-> 0]

BucketNext == (\E a \in Addresses : SVC_RateLimitAddress(a)) \/ BucketTick

BucketSpec == BucketInit /\ [][BucketNext]_bucketVars
-----------------------------------------------------------------------------
(* Buckets are taken out of their chains anywhere and put into others:     *)
(* each in use is in the chain of its address, and in no other, and the    *)
(* chains read the same in both directions.                                *)
ChainInv ==
    /\ BucketTypeOK
    /\ \A h \in Hashes : InChain(h) = {b \in InUse : HashFor[buckets[b].address] = h}
    /\ \A h \in Hashes : chain[h] # None => buckets[chain[h]].prev = None
    /\ \A b, c \in InUse : buckets[b].next = c <=> buckets[c].prev = b
    /\ \A b, c \in InUse : (buckets[b].address = buckets[c].address /\ b # c)
                               => buckets[b].address \in OtherTypes

(* However its bucket is given to others and found again, an address is    *)
(* granted Burst requests at once and one more each Period, and at most    *)
(* one besides, for the part of a Period that counts again.                *)
RateBounded == \A a \in DOMAIN owed : owed[a] < (Burst + 1) * Period

(* An address is refused for what it asked itself, or because all buckets  *)
(* are those of others who asked not long ago: a bucket that none needs is *)
(* there for the next ("Reclaim expired buckets", sv_main.c:441), as long  *)
(* as the clock is positive.                                               *)
RefusedRight ==
    \A a \in Addresses :
        ~Answer(a).granted =>
            IF Answer(a).bucket = None
            THEN \A b \in Numbers : Interval(b) <= Burst * Period \/ buckets[b].lastTime <= 0
            ELSE a \notin OtherTypes /\ owed[a] > (Burst - 1) * Period
==============================================================================
